--------------------------- MODULE GogoEvmTables ----------------------------
(*****************************************************************************)
(* The gogoproto code of every message of x/evm, one definition per          *)
(* generated method.  A field is named as in the Go struct.                  *)
(*   M_Fields     the struct: the kind of each field                         *)
(*   M_Size       <<field, kind, tag bytes counted>>, in the order added     *)
(*   M_Marshal    <<field, kind, tag bytes>>, in the order written, which    *)
(*                is from the last byte of the message to the first          *)
(*   M_Unmarshal  <<number, wire type, field, kind>>, the switch's cases     *)
(* The kind names the shape of the generated block: "num" (written when      *)
(* not 0), "bool" (when true), "str" (string or bytes, when not empty),      *)
(* "ptr" (a pointer to a message, when not nil), "sub" (an embedded          *)
(* message, always written), "int" and "intp" (an embedded sdk Int, always   *)
(* written, and a pointer to one), "rep" (one block per element), "packed"   *)
(* (all numbers in one block; "num1" is its unpacked form) and "time".       *)
(* ProtoCodec gives the kinds their meaning.                                 *)
(*****************************************************************************)

(************************** x/evm/types/evm.pb.go **************************)

EvmParams_Fields ==
  [EvmDenom |-> "str", EnableCreate |-> "bool", EnableCall |-> "bool", ExtraEIPs |-> "packed",
   ChainConfig |-> "sub"]
EvmParams_Size ==
  << <<"EvmDenom", "str", 1>>, <<"EnableCreate", "bool", 1>>, <<"EnableCall", "bool", 1>>,
     <<"ExtraEIPs", "packed", 1>>, <<"ChainConfig", "sub", 1>> >>
EvmParams_Marshal ==
  << <<"ChainConfig", "sub", <<42>>>>, <<"ExtraEIPs", "packed", <<34>>>>,
     <<"EnableCall", "bool", <<24>>>>, <<"EnableCreate", "bool", <<16>>>>,
     <<"EvmDenom", "str", <<10>>>> >>
(* Mutant: fields 2 and 3 are read into each other's place. *)
EvmParams_Unmarshal_Crossed ==
  << <<1, 2, "EvmDenom", "str">>, <<3, 0, "EnableCreate", "bool">>,
     <<2, 0, "EnableCall", "bool">>, <<4, 0, "ExtraEIPs", "num1">>,
     <<4, 2, "ExtraEIPs", "packed">>, <<5, 2, "ChainConfig", "sub">> >>

EvmParams_Unmarshal ==
  << <<1, 2, "EvmDenom", "str">>, <<2, 0, "EnableCreate", "bool">>,
     <<3, 0, "EnableCall", "bool">>, <<4, 0, "ExtraEIPs", "num1">>,
     <<4, 2, "ExtraEIPs", "packed">>, <<5, 2, "ChainConfig", "sub">> >>

EvmChainConfig_Fields ==
  [HomesteadBlock |-> "intp", DAOForkBlock |-> "intp", DAOForkSupport |-> "bool",
   EIP150Block |-> "intp", EIP150Hash |-> "str", EIP155Block |-> "intp",
   EIP158Block |-> "intp", ByzantiumBlock |-> "intp", ConstantinopleBlock |-> "intp",
   PetersburgBlock |-> "intp", IstanbulBlock |-> "intp", MuirGlacierBlock |-> "intp",
   BerlinBlock |-> "intp", LondonBlock |-> "intp", ArrowGlacierBlock |-> "intp",
   GrayGlacierBlock |-> "intp", MergeNetsplitBlock |-> "intp", ShanghaiBlock |-> "intp",
   CancunBlock |-> "intp"]
EvmChainConfig_Size ==
  << <<"HomesteadBlock", "ptr", 1>>, <<"DAOForkBlock", "ptr", 1>>,
     <<"DAOForkSupport", "bool", 1>>, <<"EIP150Block", "ptr", 1>>, <<"EIP150Hash", "str", 1>>,
     <<"EIP155Block", "ptr", 1>>, <<"EIP158Block", "ptr", 1>>, <<"ByzantiumBlock", "ptr", 1>>,
     <<"ConstantinopleBlock", "ptr", 1>>, <<"PetersburgBlock", "ptr", 1>>,
     <<"IstanbulBlock", "ptr", 1>>, <<"MuirGlacierBlock", "ptr", 1>>,
     <<"BerlinBlock", "ptr", 1>>, <<"LondonBlock", "ptr", 2>>,
     <<"ArrowGlacierBlock", "ptr", 2>>, <<"GrayGlacierBlock", "ptr", 2>>,
     <<"MergeNetsplitBlock", "ptr", 2>>, <<"ShanghaiBlock", "ptr", 2>>,
     <<"CancunBlock", "ptr", 2>> >>
EvmChainConfig_Marshal ==
  << <<"CancunBlock", "intp", <<186, 1>>>>, <<"ShanghaiBlock", "intp", <<178, 1>>>>,
     <<"MergeNetsplitBlock", "intp", <<170, 1>>>>, <<"GrayGlacierBlock", "intp", <<162, 1>>>>,
     <<"ArrowGlacierBlock", "intp", <<146, 1>>>>, <<"LondonBlock", "intp", <<138, 1>>>>,
     <<"BerlinBlock", "intp", <<106>>>>, <<"MuirGlacierBlock", "intp", <<98>>>>,
     <<"IstanbulBlock", "intp", <<90>>>>, <<"PetersburgBlock", "intp", <<82>>>>,
     <<"ConstantinopleBlock", "intp", <<74>>>>, <<"ByzantiumBlock", "intp", <<66>>>>,
     <<"EIP158Block", "intp", <<58>>>>, <<"EIP155Block", "intp", <<50>>>>,
     <<"EIP150Hash", "str", <<42>>>>, <<"EIP150Block", "intp", <<34>>>>,
     <<"DAOForkSupport", "bool", <<24>>>>, <<"DAOForkBlock", "intp", <<18>>>>,
     <<"HomesteadBlock", "intp", <<10>>>> >>
EvmChainConfig_Unmarshal ==
  << <<1, 2, "HomesteadBlock", "intp">>, <<2, 2, "DAOForkBlock", "intp">>,
     <<3, 0, "DAOForkSupport", "bool">>, <<4, 2, "EIP150Block", "intp">>,
     <<5, 2, "EIP150Hash", "str">>, <<6, 2, "EIP155Block", "intp">>,
     <<7, 2, "EIP158Block", "intp">>, <<8, 2, "ByzantiumBlock", "intp">>,
     <<9, 2, "ConstantinopleBlock", "intp">>, <<10, 2, "PetersburgBlock", "intp">>,
     <<11, 2, "IstanbulBlock", "intp">>, <<12, 2, "MuirGlacierBlock", "intp">>,
     <<13, 2, "BerlinBlock", "intp">>, <<17, 2, "LondonBlock", "intp">>,
     <<18, 2, "ArrowGlacierBlock", "intp">>, <<20, 2, "GrayGlacierBlock", "intp">>,
     <<21, 2, "MergeNetsplitBlock", "intp">>, <<22, 2, "ShanghaiBlock", "intp">>,
     <<23, 2, "CancunBlock", "intp">> >>

EvmState_Fields == [Key |-> "str", Value |-> "str"]
EvmState_Size == << <<"Key", "str", 1>>, <<"Value", "str", 1>> >>
EvmState_Marshal == << <<"Value", "str", <<18>>>>, <<"Key", "str", <<10>>>> >>
EvmState_Unmarshal == << <<1, 2, "Key", "str">>, <<2, 2, "Value", "str">> >>

EvmAccessTuple_Fields == [Address |-> "str", StorageKeys |-> "rep"]
EvmAccessTuple_Size == << <<"Address", "str", 1>>, <<"StorageKeys", "rep", 1>> >>
EvmAccessTuple_Marshal == << <<"StorageKeys", "rep", <<18>>>>, <<"Address", "str", <<10>>>> >>
EvmAccessTuple_Unmarshal == << <<1, 2, "Address", "str">>, <<2, 2, "StorageKeys", "rep">> >>

EvmTraceConfig_Fields ==
  [Tracer |-> "str", Timeout |-> "str", Reexec |-> "num", DisableStack |-> "bool",
   DisableStorage |-> "bool", Debug |-> "bool", Limit |-> "num", Overrides |-> "ptr",
   EnableMemory |-> "bool", EnableReturnData |-> "bool", TracerJsonConfig |-> "str"]
EvmTraceConfig_Size ==
  << <<"Tracer", "str", 1>>, <<"Timeout", "str", 1>>, <<"Reexec", "num", 1>>,
     <<"DisableStack", "bool", 1>>, <<"DisableStorage", "bool", 1>>, <<"Debug", "bool", 1>>,
     <<"Limit", "num", 1>>, <<"Overrides", "ptr", 1>>, <<"EnableMemory", "bool", 1>>,
     <<"EnableReturnData", "bool", 1>>, <<"TracerJsonConfig", "str", 1>> >>
(* Mutant: the last two fields are written in the wrong order. *)
EvmTraceConfig_Marshal_Swapped ==
  << <<"EnableReturnData", "bool", <<96>>>>, <<"TracerJsonConfig", "str", <<106>>>>,
     <<"EnableMemory", "bool", <<88>>>>, <<"Overrides", "ptr", <<82>>>>,
     <<"Limit", "num", <<72>>>>, <<"Debug", "bool", <<64>>>>,
     <<"DisableStorage", "bool", <<48>>>>, <<"DisableStack", "bool", <<40>>>>,
     <<"Reexec", "num", <<24>>>>, <<"Timeout", "str", <<18>>>>, <<"Tracer", "str", <<10>>>> >>

EvmTraceConfig_Marshal ==
  << <<"TracerJsonConfig", "str", <<106>>>>, <<"EnableReturnData", "bool", <<96>>>>,
     <<"EnableMemory", "bool", <<88>>>>, <<"Overrides", "ptr", <<82>>>>,
     <<"Limit", "num", <<72>>>>, <<"Debug", "bool", <<64>>>>,
     <<"DisableStorage", "bool", <<48>>>>, <<"DisableStack", "bool", <<40>>>>,
     <<"Reexec", "num", <<24>>>>, <<"Timeout", "str", <<18>>>>, <<"Tracer", "str", <<10>>>> >>
EvmTraceConfig_Unmarshal ==
  << <<1, 2, "Tracer", "str">>, <<2, 2, "Timeout", "str">>, <<3, 0, "Reexec", "num">>,
     <<5, 0, "DisableStack", "bool">>, <<6, 0, "DisableStorage", "bool">>,
     <<8, 0, "Debug", "bool">>, <<9, 0, "Limit", "num">>, <<10, 2, "Overrides", "ptr">>,
     <<11, 0, "EnableMemory", "bool">>, <<12, 0, "EnableReturnData", "bool">>,
     <<13, 2, "TracerJsonConfig", "str">> >>

(************************ x/evm/types/genesis.pb.go ************************)

EvmGenesisState_Fields == [Accounts |-> "rep", Params |-> "sub"]
EvmGenesisState_Size == << <<"Accounts", "rep", 1>>, <<"Params", "sub", 1>> >>
EvmGenesisState_Marshal == << <<"Params", "sub", <<18>>>>, <<"Accounts", "rep", <<10>>>> >>
EvmGenesisState_Unmarshal == << <<1, 2, "Accounts", "rep">>, <<2, 2, "Params", "sub">> >>

EvmGenesisAccount_Fields == [Address |-> "str", Code |-> "str", Storage |-> "rep"]
EvmGenesisAccount_Size ==
  << <<"Address", "str", 1>>, <<"Code", "str", 1>>, <<"Storage", "rep", 1>> >>
EvmGenesisAccount_Marshal ==
  << <<"Storage", "rep", <<26>>>>, <<"Code", "str", <<18>>>>, <<"Address", "str", <<10>>>> >>
EvmGenesisAccount_Unmarshal ==
  << <<1, 2, "Address", "str">>, <<2, 2, "Code", "str">>, <<3, 2, "Storage", "rep">> >>

(************************* x/evm/types/query.pb.go *************************)

EvmQueryAccountRequest_Fields == [Address |-> "str"]
EvmQueryAccountRequest_Size == << <<"Address", "str", 1>> >>
EvmQueryAccountRequest_Marshal == << <<"Address", "str", <<10>>>> >>
EvmQueryAccountRequest_Unmarshal == << <<1, 2, "Address", "str">> >>

EvmQueryAccountResponse_Fields == [Balance |-> "str", CodeHash |-> "str", Nonce |-> "num"]
EvmQueryAccountResponse_Size ==
  << <<"Balance", "str", 1>>, <<"CodeHash", "str", 1>>, <<"Nonce", "num", 1>> >>
EvmQueryAccountResponse_Marshal ==
  << <<"Nonce", "num", <<24>>>>, <<"CodeHash", "str", <<18>>>>, <<"Balance", "str", <<10>>>> >>
EvmQueryAccountResponse_Unmarshal ==
  << <<1, 2, "Balance", "str">>, <<2, 2, "CodeHash", "str">>, <<3, 0, "Nonce", "num">> >>

EvmQueryCosmosAccountRequest_Fields == [Address |-> "str"]
EvmQueryCosmosAccountRequest_Size == << <<"Address", "str", 1>> >>
EvmQueryCosmosAccountRequest_Marshal == << <<"Address", "str", <<10>>>> >>
EvmQueryCosmosAccountRequest_Unmarshal == << <<1, 2, "Address", "str">> >>

EvmQueryCosmosAccountResponse_Fields ==
  [CosmosAddress |-> "str", Sequence |-> "num", AccountNumber |-> "num"]
EvmQueryCosmosAccountResponse_Size ==
  << <<"CosmosAddress", "str", 1>>, <<"Sequence", "num", 1>>, <<"AccountNumber", "num", 1>> >>
EvmQueryCosmosAccountResponse_Marshal ==
  << <<"AccountNumber", "num", <<24>>>>, <<"Sequence", "num", <<16>>>>,
     <<"CosmosAddress", "str", <<10>>>> >>
EvmQueryCosmosAccountResponse_Unmarshal ==
  << <<1, 2, "CosmosAddress", "str">>, <<2, 0, "Sequence", "num">>,
     <<3, 0, "AccountNumber", "num">> >>

EvmQueryValidatorAccountRequest_Fields == [ConsAddress |-> "str"]
EvmQueryValidatorAccountRequest_Size == << <<"ConsAddress", "str", 1>> >>
EvmQueryValidatorAccountRequest_Marshal == << <<"ConsAddress", "str", <<10>>>> >>
EvmQueryValidatorAccountRequest_Unmarshal == << <<1, 2, "ConsAddress", "str">> >>

EvmQueryValidatorAccountResponse_Fields ==
  [AccountAddress |-> "str", Sequence |-> "num", AccountNumber |-> "num"]
EvmQueryValidatorAccountResponse_Size ==
  << <<"AccountAddress", "str", 1>>, <<"Sequence", "num", 1>>, <<"AccountNumber", "num", 1>> >>
EvmQueryValidatorAccountResponse_Marshal ==
  << <<"AccountNumber", "num", <<24>>>>, <<"Sequence", "num", <<16>>>>,
     <<"AccountAddress", "str", <<10>>>> >>
EvmQueryValidatorAccountResponse_Unmarshal ==
  << <<1, 2, "AccountAddress", "str">>, <<2, 0, "Sequence", "num">>,
     <<3, 0, "AccountNumber", "num">> >>

EvmQueryBalanceRequest_Fields == [Address |-> "str"]
EvmQueryBalanceRequest_Size == << <<"Address", "str", 1>> >>
EvmQueryBalanceRequest_Marshal == << <<"Address", "str", <<10>>>> >>
EvmQueryBalanceRequest_Unmarshal == << <<1, 2, "Address", "str">> >>

EvmQueryBalanceResponse_Fields == [Balance |-> "str"]
EvmQueryBalanceResponse_Size == << <<"Balance", "str", 1>> >>
EvmQueryBalanceResponse_Marshal == << <<"Balance", "str", <<10>>>> >>
EvmQueryBalanceResponse_Unmarshal == << <<1, 2, "Balance", "str">> >>

EvmQueryStorageRequest_Fields == [Address |-> "str", Key |-> "str"]
EvmQueryStorageRequest_Size == << <<"Address", "str", 1>>, <<"Key", "str", 1>> >>
EvmQueryStorageRequest_Marshal == << <<"Key", "str", <<18>>>>, <<"Address", "str", <<10>>>> >>
EvmQueryStorageRequest_Unmarshal == << <<1, 2, "Address", "str">>, <<2, 2, "Key", "str">> >>

EvmQueryStorageResponse_Fields == [Value |-> "str"]
EvmQueryStorageResponse_Size == << <<"Value", "str", 1>> >>
EvmQueryStorageResponse_Marshal == << <<"Value", "str", <<10>>>> >>
EvmQueryStorageResponse_Unmarshal == << <<1, 2, "Value", "str">> >>

EvmQueryCodeRequest_Fields == [Address |-> "str"]
EvmQueryCodeRequest_Size == << <<"Address", "str", 1>> >>
EvmQueryCodeRequest_Marshal == << <<"Address", "str", <<10>>>> >>
EvmQueryCodeRequest_Unmarshal == << <<1, 2, "Address", "str">> >>

EvmQueryCodeResponse_Fields == [Code |-> "str"]
EvmQueryCodeResponse_Size == << <<"Code", "str", 1>> >>
EvmQueryCodeResponse_Marshal == << <<"Code", "str", <<10>>>> >>
EvmQueryCodeResponse_Unmarshal == << <<1, 2, "Code", "str">> >>

EvmQueryParamsRequest_Fields == <<>>
EvmQueryParamsRequest_Size == <<>>
EvmQueryParamsRequest_Marshal == <<>>
EvmQueryParamsRequest_Unmarshal == <<>>

EvmQueryParamsResponse_Fields == [Params |-> "sub"]
EvmQueryParamsResponse_Size == << <<"Params", "sub", 1>> >>
EvmQueryParamsResponse_Marshal == << <<"Params", "sub", <<10>>>> >>
EvmQueryParamsResponse_Unmarshal == << <<1, 2, "Params", "sub">> >>

EvmEthCallRequest_Fields == [Args |-> "str", GasCap |-> "num"]
EvmEthCallRequest_Size == << <<"Args", "str", 1>>, <<"GasCap", "num", 1>> >>
EvmEthCallRequest_Marshal == << <<"GasCap", "num", <<16>>>>, <<"Args", "str", <<10>>>> >>
EvmEthCallRequest_Unmarshal == << <<1, 2, "Args", "str">>, <<2, 0, "GasCap", "num">> >>

EvmEstimateGasResponse_Fields == [Gas |-> "num"]
EvmEstimateGasResponse_Size == << <<"Gas", "num", 1>> >>
EvmEstimateGasResponse_Marshal == << <<"Gas", "num", <<8>>>> >>
EvmEstimateGasResponse_Unmarshal == << <<1, 0, "Gas", "num">> >>

EvmQueryTraceTxRequest_Fields ==
  [Msg |-> "ptr", TraceConfig |-> "ptr", Predecessors |-> "rep", BlockNumber |-> "num",
   BlockHash |-> "str", BlockTime |-> "time", ProposerAddress |-> "str"]
EvmQueryTraceTxRequest_Size ==
  << <<"Msg", "ptr", 1>>, <<"TraceConfig", "ptr", 1>>, <<"Predecessors", "rep", 1>>,
     <<"BlockNumber", "num", 1>>, <<"BlockHash", "str", 1>>, <<"BlockTime", "time", 1>>,
     <<"ProposerAddress", "str", 1>> >>
EvmQueryTraceTxRequest_Marshal ==
  << <<"ProposerAddress", "str", <<58>>>>, <<"BlockTime", "time", <<50>>>>,
     <<"BlockHash", "str", <<42>>>>, <<"BlockNumber", "num", <<32>>>>,
     <<"Predecessors", "rep", <<26>>>>, <<"TraceConfig", "ptr", <<18>>>>,
     <<"Msg", "ptr", <<10>>>> >>
EvmQueryTraceTxRequest_Unmarshal ==
  << <<1, 2, "Msg", "ptr">>, <<2, 2, "TraceConfig", "ptr">>, <<3, 2, "Predecessors", "rep">>,
     <<4, 0, "BlockNumber", "num">>, <<5, 2, "BlockHash", "str">>,
     <<6, 2, "BlockTime", "time">>, <<7, 2, "ProposerAddress", "str">> >>

EvmQueryTraceTxResponse_Fields == [Data |-> "str"]
EvmQueryTraceTxResponse_Size == << <<"Data", "str", 1>> >>
EvmQueryTraceTxResponse_Marshal == << <<"Data", "str", <<10>>>> >>
EvmQueryTraceTxResponse_Unmarshal == << <<1, 2, "Data", "str">> >>

EvmQueryTraceBlockRequest_Fields ==
  [Txs |-> "rep", TraceConfig |-> "ptr", BlockNumber |-> "num", BlockHash |-> "str",
   BlockTime |-> "time", ProposerAddress |-> "str"]
EvmQueryTraceBlockRequest_Size ==
  << <<"Txs", "rep", 1>>, <<"TraceConfig", "ptr", 1>>, <<"BlockNumber", "num", 1>>,
     <<"BlockHash", "str", 1>>, <<"BlockTime", "time", 1>>, <<"ProposerAddress", "str", 1>> >>
EvmQueryTraceBlockRequest_Marshal ==
  << <<"ProposerAddress", "str", <<66>>>>, <<"BlockTime", "time", <<58>>>>,
     <<"BlockHash", "str", <<50>>>>, <<"BlockNumber", "num", <<40>>>>,
     <<"TraceConfig", "ptr", <<26>>>>, <<"Txs", "rep", <<10>>>> >>
EvmQueryTraceBlockRequest_Unmarshal ==
  << <<1, 2, "Txs", "rep">>, <<3, 2, "TraceConfig", "ptr">>, <<5, 0, "BlockNumber", "num">>,
     <<6, 2, "BlockHash", "str">>, <<7, 2, "BlockTime", "time">>,
     <<8, 2, "ProposerAddress", "str">> >>

EvmQueryTraceBlockResponse_Fields == [Data |-> "str"]
EvmQueryTraceBlockResponse_Size == << <<"Data", "str", 1>> >>
EvmQueryTraceBlockResponse_Marshal == << <<"Data", "str", <<10>>>> >>
EvmQueryTraceBlockResponse_Unmarshal == << <<1, 2, "Data", "str">> >>

EvmQueryBaseFeeRequest_Fields == <<>>
EvmQueryBaseFeeRequest_Size == <<>>
EvmQueryBaseFeeRequest_Marshal == <<>>
EvmQueryBaseFeeRequest_Unmarshal == <<>>

EvmQueryBaseFeeResponse_Fields == [BaseFee |-> "int"]
EvmQueryBaseFeeResponse_Size == << <<"BaseFee", "sub", 1>> >>
EvmQueryBaseFeeResponse_Marshal == << <<"BaseFee", "int", <<10>>>> >>
EvmQueryBaseFeeResponse_Unmarshal == << <<1, 2, "BaseFee", "int">> >>

(*************************** x/evm/types/tx.pb.go ***************************)

EvmMsgEthereumTx_Fields == [From |-> "str", MarshalledTx |-> "str"]
EvmMsgEthereumTx_Size == << <<"From", "str", 1>>, <<"MarshalledTx", "str", 1>> >>
EvmMsgEthereumTx_Marshal == << <<"MarshalledTx", "str", <<18>>>>, <<"From", "str", <<10>>>> >>
EvmMsgEthereumTx_Unmarshal == << <<1, 2, "From", "str">>, <<2, 2, "MarshalledTx", "str">> >>

EvmExtensionOptionsEthereumTx_Fields == <<>>
EvmExtensionOptionsEthereumTx_Size == <<>>
EvmExtensionOptionsEthereumTx_Marshal == <<>>
EvmExtensionOptionsEthereumTx_Unmarshal == <<>>

EvmMsgEthereumTxResponse_Fields ==
  [Hash |-> "str", Ret |-> "str", VmError |-> "str", GasUsed |-> "num",
   MarshalledReceipt |-> "str"]
EvmMsgEthereumTxResponse_Size ==
  << <<"Hash", "str", 1>>, <<"Ret", "str", 1>>, <<"VmError", "str", 1>>,
     <<"GasUsed", "num", 1>>, <<"MarshalledReceipt", "str", 1>> >>
EvmMsgEthereumTxResponse_Marshal ==
  << <<"MarshalledReceipt", "str", <<42>>>>, <<"GasUsed", "num", <<32>>>>,
     <<"VmError", "str", <<26>>>>, <<"Ret", "str", <<18>>>>, <<"Hash", "str", <<10>>>> >>
EvmMsgEthereumTxResponse_Unmarshal ==
  << <<1, 2, "Hash", "str">>, <<2, 2, "Ret", "str">>, <<3, 2, "VmError", "str">>,
     <<4, 0, "GasUsed", "num">>, <<5, 2, "MarshalledReceipt", "str">> >>

EvmMsgUpdateParams_Fields == [Authority |-> "str", Params |-> "sub"]
EvmMsgUpdateParams_Size == << <<"Authority", "str", 1>>, <<"Params", "sub", 1>> >>
EvmMsgUpdateParams_Marshal == << <<"Params", "sub", <<18>>>>, <<"Authority", "str", <<10>>>> >>
EvmMsgUpdateParams_Unmarshal == << <<1, 2, "Authority", "str">>, <<2, 2, "Params", "sub">> >>

EvmMsgUpdateParamsResponse_Fields == <<>>
EvmMsgUpdateParamsResponse_Size == <<>>
EvmMsgUpdateParamsResponse_Marshal == <<>>
EvmMsgUpdateParamsResponse_Unmarshal == <<>>

=============================================================================
