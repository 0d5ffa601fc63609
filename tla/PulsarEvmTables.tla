-------------------------- MODULE PulsarEvmTables ---------------------------
(*****************************************************************************)
(* The pulsar code (api/) of the messages of x/evm, with the same columns as *)
(* GogoEvmTables.  Size, marshal and unmarshal are the three functions that  *)
(* ProtoMethods returns.                                                     *)
(*   M_Reflect  <<proto name, Go field, kind>>: the fields in the order      *)
(*              Range visits them; Has, Clear, Get, Set, Mutable and         *)
(*              NewField switch over the same names and do what ProtoCodec   *)
(*              says of the kind                                             *)
(*****************************************************************************)

(******************** api/ethermint/evm/v1/evm.pulsar.go ********************)

EvmParams_Reflect ==
  << <<"evm_denom", "EvmDenom", "str">>, <<"enable_create", "EnableCreate", "bool">>,
     <<"enable_call", "EnableCall", "bool">>, <<"extra_eips", "ExtraEips", "packed">>,
     <<"chain_config", "ChainConfig", "ptr">> >>
EvmParams_Size ==
  << <<"EvmDenom", "str", 1>>, <<"EnableCreate", "bool", 1>>, <<"EnableCall", "bool", 1>>,
     <<"ExtraEips", "packed", 1>>, <<"ChainConfig", "ptr", 1>> >>
EvmParams_Marshal ==
  << <<"ChainConfig", "ptr", <<42>>>>, <<"ExtraEips", "packed", <<34>>>>,
     <<"EnableCall", "bool", <<24>>>>, <<"EnableCreate", "bool", <<16>>>>,
     <<"EvmDenom", "str", <<10>>>> >>
EvmParams_Unmarshal ==
  << <<1, 2, "EvmDenom", "str">>, <<2, 0, "EnableCreate", "bool">>,
     <<3, 0, "EnableCall", "bool">>, <<4, 0, "ExtraEips", "num1">>,
     <<4, 2, "ExtraEips", "packed">>, <<5, 2, "ChainConfig", "ptr">> >>

EvmChainConfig_Reflect ==
  << <<"homestead_block", "HomesteadBlock", "str">>,
     <<"dao_fork_block", "DaoForkBlock", "str">>,
     <<"dao_fork_support", "DaoForkSupport", "bool">>,
     <<"eip150_block", "Eip150Block", "str">>, <<"eip150_hash", "Eip150Hash", "str">>,
     <<"eip155_block", "Eip155Block", "str">>, <<"eip158_block", "Eip158Block", "str">>,
     <<"byzantium_block", "ByzantiumBlock", "str">>,
     <<"constantinople_block", "ConstantinopleBlock", "str">>,
     <<"petersburg_block", "PetersburgBlock", "str">>,
     <<"istanbul_block", "IstanbulBlock", "str">>,
     <<"muir_glacier_block", "MuirGlacierBlock", "str">>,
     <<"berlin_block", "BerlinBlock", "str">>, <<"london_block", "LondonBlock", "str">>,
     <<"arrow_glacier_block", "ArrowGlacierBlock", "str">>,
     <<"gray_glacier_block", "GrayGlacierBlock", "str">>,
     <<"merge_netsplit_block", "MergeNetsplitBlock", "str">>,
     <<"shanghai_block", "ShanghaiBlock", "str">>, <<"cancun_block", "CancunBlock", "str">> >>
(* Mutant: the tags of fields 16 and above are counted as one byte. *)
EvmChainConfig_Size_OneByteTags ==
  << <<"HomesteadBlock", "str", 1>>, <<"DaoForkBlock", "str", 1>>,
     <<"DaoForkSupport", "bool", 1>>, <<"Eip150Block", "str", 1>>, <<"Eip150Hash", "str", 1>>,
     <<"Eip155Block", "str", 1>>, <<"Eip158Block", "str", 1>>, <<"ByzantiumBlock", "str", 1>>,
     <<"ConstantinopleBlock", "str", 1>>, <<"PetersburgBlock", "str", 1>>,
     <<"IstanbulBlock", "str", 1>>, <<"MuirGlacierBlock", "str", 1>>,
     <<"BerlinBlock", "str", 1>>, <<"LondonBlock", "str", 1>>,
     <<"ArrowGlacierBlock", "str", 1>>, <<"GrayGlacierBlock", "str", 1>>,
     <<"MergeNetsplitBlock", "str", 1>>, <<"ShanghaiBlock", "str", 1>>,
     <<"CancunBlock", "str", 1>> >>

EvmChainConfig_Size ==
  << <<"HomesteadBlock", "str", 1>>, <<"DaoForkBlock", "str", 1>>,
     <<"DaoForkSupport", "bool", 1>>, <<"Eip150Block", "str", 1>>, <<"Eip150Hash", "str", 1>>,
     <<"Eip155Block", "str", 1>>, <<"Eip158Block", "str", 1>>, <<"ByzantiumBlock", "str", 1>>,
     <<"ConstantinopleBlock", "str", 1>>, <<"PetersburgBlock", "str", 1>>,
     <<"IstanbulBlock", "str", 1>>, <<"MuirGlacierBlock", "str", 1>>,
     <<"BerlinBlock", "str", 1>>, <<"LondonBlock", "str", 2>>,
     <<"ArrowGlacierBlock", "str", 2>>, <<"GrayGlacierBlock", "str", 2>>,
     <<"MergeNetsplitBlock", "str", 2>>, <<"ShanghaiBlock", "str", 2>>,
     <<"CancunBlock", "str", 2>> >>
EvmChainConfig_Marshal ==
  << <<"CancunBlock", "str", <<186, 1>>>>, <<"ShanghaiBlock", "str", <<178, 1>>>>,
     <<"MergeNetsplitBlock", "str", <<170, 1>>>>, <<"GrayGlacierBlock", "str", <<162, 1>>>>,
     <<"ArrowGlacierBlock", "str", <<146, 1>>>>, <<"LondonBlock", "str", <<138, 1>>>>,
     <<"BerlinBlock", "str", <<106>>>>, <<"MuirGlacierBlock", "str", <<98>>>>,
     <<"IstanbulBlock", "str", <<90>>>>, <<"PetersburgBlock", "str", <<82>>>>,
     <<"ConstantinopleBlock", "str", <<74>>>>, <<"ByzantiumBlock", "str", <<66>>>>,
     <<"Eip158Block", "str", <<58>>>>, <<"Eip155Block", "str", <<50>>>>,
     <<"Eip150Hash", "str", <<42>>>>, <<"Eip150Block", "str", <<34>>>>,
     <<"DaoForkSupport", "bool", <<24>>>>, <<"DaoForkBlock", "str", <<18>>>>,
     <<"HomesteadBlock", "str", <<10>>>> >>
EvmChainConfig_Unmarshal ==
  << <<1, 2, "HomesteadBlock", "str">>, <<2, 2, "DaoForkBlock", "str">>,
     <<3, 0, "DaoForkSupport", "bool">>, <<4, 2, "Eip150Block", "str">>,
     <<5, 2, "Eip150Hash", "str">>, <<6, 2, "Eip155Block", "str">>,
     <<7, 2, "Eip158Block", "str">>, <<8, 2, "ByzantiumBlock", "str">>,
     <<9, 2, "ConstantinopleBlock", "str">>, <<10, 2, "PetersburgBlock", "str">>,
     <<11, 2, "IstanbulBlock", "str">>, <<12, 2, "MuirGlacierBlock", "str">>,
     <<13, 2, "BerlinBlock", "str">>, <<17, 2, "LondonBlock", "str">>,
     <<18, 2, "ArrowGlacierBlock", "str">>, <<20, 2, "GrayGlacierBlock", "str">>,
     <<21, 2, "MergeNetsplitBlock", "str">>, <<22, 2, "ShanghaiBlock", "str">>,
     <<23, 2, "CancunBlock", "str">> >>

EvmState_Reflect == << <<"key", "Key", "str">>, <<"value", "Value", "str">> >>
EvmState_Size == << <<"Key", "str", 1>>, <<"Value", "str", 1>> >>
EvmState_Marshal == << <<"Value", "str", <<18>>>>, <<"Key", "str", <<10>>>> >>
EvmState_Unmarshal == << <<1, 2, "Key", "str">>, <<2, 2, "Value", "str">> >>

EvmAccessTuple_Reflect ==
  << <<"address", "Address", "str">>, <<"storage_keys", "StorageKeys", "rep">> >>
EvmAccessTuple_Size == << <<"Address", "str", 1>>, <<"StorageKeys", "rep", 1>> >>
EvmAccessTuple_Marshal == << <<"StorageKeys", "rep", <<18>>>>, <<"Address", "str", <<10>>>> >>
EvmAccessTuple_Unmarshal == << <<1, 2, "Address", "str">>, <<2, 2, "StorageKeys", "rep">> >>

EvmTraceConfig_Reflect ==
  << <<"tracer", "Tracer", "str">>, <<"timeout", "Timeout", "str">>,
     <<"reexec", "Reexec", "num">>, <<"disable_stack", "DisableStack", "bool">>,
     <<"disable_storage", "DisableStorage", "bool">>, <<"debug", "Debug", "bool">>,
     <<"limit", "Limit", "num">>, <<"overrides", "Overrides", "ptr">>,
     <<"enable_memory", "EnableMemory", "bool">>,
     <<"enable_return_data", "EnableReturnData", "bool">>,
     <<"tracer_json_config", "TracerJsonConfig", "str">> >>
EvmTraceConfig_Size ==
  << <<"Tracer", "str", 1>>, <<"Timeout", "str", 1>>, <<"Reexec", "num", 1>>,
     <<"DisableStack", "bool", 1>>, <<"DisableStorage", "bool", 1>>, <<"Debug", "bool", 1>>,
     <<"Limit", "num", 1>>, <<"Overrides", "ptr", 1>>, <<"EnableMemory", "bool", 1>>,
     <<"EnableReturnData", "bool", 1>>, <<"TracerJsonConfig", "str", 1>> >>
EvmTraceConfig_Marshal ==
  << <<"TracerJsonConfig", "str", <<106>>>>, <<"EnableReturnData", "bool", <<96>>>>,
     <<"EnableMemory", "bool", <<88>>>>, <<"Overrides", "ptr", <<82>>>>,
     <<"Limit", "num", <<72>>>>, <<"Debug", "bool", <<64>>>>,
     <<"DisableStorage", "bool", <<48>>>>, <<"DisableStack", "bool", <<40>>>>,
     <<"Reexec", "num", <<24>>>>, <<"Timeout", "str", <<18>>>>, <<"Tracer", "str", <<10>>>> >>
EvmTraceConfig_Unmarshal ==
  << <<1, 2, "Tracer", "str">>, <<2, 2, "Timeout", "str">>, <<3, 0, "Reexec", "num">>,
     <<5, 0, "DisableStack", "bool">>, <<6, 0, "DisableStorage", "bool">>,
     <<8, 0, "Debug", "bool">>, <<9, 0, "Limit", "num">>, <<10, 2, "Overrides", "ptr">>,
     <<11, 0, "EnableMemory", "bool">>, <<12, 0, "EnableReturnData", "bool">>,
     <<13, 2, "TracerJsonConfig", "str">> >>

(****************** api/ethermint/evm/v1/genesis.pulsar.go ******************)

EvmGenesisState_Reflect ==
  << <<"accounts", "Accounts", "rep">>, <<"params", "Params", "ptr">> >>
EvmGenesisState_Size == << <<"Accounts", "rep", 1>>, <<"Params", "ptr", 1>> >>
EvmGenesisState_Marshal == << <<"Params", "ptr", <<18>>>>, <<"Accounts", "rep", <<10>>>> >>
EvmGenesisState_Unmarshal == << <<1, 2, "Accounts", "rep">>, <<2, 2, "Params", "ptr">> >>

EvmGenesisAccount_Reflect ==
  << <<"address", "Address", "str">>, <<"code", "Code", "str">>,
     <<"storage", "Storage", "rep">> >>
EvmGenesisAccount_Size ==
  << <<"Address", "str", 1>>, <<"Code", "str", 1>>, <<"Storage", "rep", 1>> >>
EvmGenesisAccount_Marshal ==
  << <<"Storage", "rep", <<26>>>>, <<"Code", "str", <<18>>>>, <<"Address", "str", <<10>>>> >>
EvmGenesisAccount_Unmarshal ==
  << <<1, 2, "Address", "str">>, <<2, 2, "Code", "str">>, <<3, 2, "Storage", "rep">> >>

(******************* api/ethermint/evm/v1/query.pulsar.go *******************)

EvmQueryAccountRequest_Reflect == << <<"address", "Address", "str">> >>
EvmQueryAccountRequest_Size == << <<"Address", "str", 1>> >>
EvmQueryAccountRequest_Marshal == << <<"Address", "str", <<10>>>> >>
EvmQueryAccountRequest_Unmarshal == << <<1, 2, "Address", "str">> >>

EvmQueryAccountResponse_Reflect ==
  << <<"balance", "Balance", "str">>, <<"code_hash", "CodeHash", "str">>,
     <<"nonce", "Nonce", "num">> >>
EvmQueryAccountResponse_Size ==
  << <<"Balance", "str", 1>>, <<"CodeHash", "str", 1>>, <<"Nonce", "num", 1>> >>
EvmQueryAccountResponse_Marshal ==
  << <<"Nonce", "num", <<24>>>>, <<"CodeHash", "str", <<18>>>>, <<"Balance", "str", <<10>>>> >>
EvmQueryAccountResponse_Unmarshal ==
  << <<1, 2, "Balance", "str">>, <<2, 2, "CodeHash", "str">>, <<3, 0, "Nonce", "num">> >>

EvmQueryCosmosAccountRequest_Reflect == << <<"address", "Address", "str">> >>
EvmQueryCosmosAccountRequest_Size == << <<"Address", "str", 1>> >>
EvmQueryCosmosAccountRequest_Marshal == << <<"Address", "str", <<10>>>> >>
EvmQueryCosmosAccountRequest_Unmarshal == << <<1, 2, "Address", "str">> >>

EvmQueryCosmosAccountResponse_Reflect ==
  << <<"cosmos_address", "CosmosAddress", "str">>, <<"sequence", "Sequence", "num">>,
     <<"account_number", "AccountNumber", "num">> >>
EvmQueryCosmosAccountResponse_Size ==
  << <<"CosmosAddress", "str", 1>>, <<"Sequence", "num", 1>>, <<"AccountNumber", "num", 1>> >>
EvmQueryCosmosAccountResponse_Marshal ==
  << <<"AccountNumber", "num", <<24>>>>, <<"Sequence", "num", <<16>>>>,
     <<"CosmosAddress", "str", <<10>>>> >>
EvmQueryCosmosAccountResponse_Unmarshal ==
  << <<1, 2, "CosmosAddress", "str">>, <<2, 0, "Sequence", "num">>,
     <<3, 0, "AccountNumber", "num">> >>

EvmQueryValidatorAccountRequest_Reflect == << <<"cons_address", "ConsAddress", "str">> >>
EvmQueryValidatorAccountRequest_Size == << <<"ConsAddress", "str", 1>> >>
EvmQueryValidatorAccountRequest_Marshal == << <<"ConsAddress", "str", <<10>>>> >>
EvmQueryValidatorAccountRequest_Unmarshal == << <<1, 2, "ConsAddress", "str">> >>

EvmQueryValidatorAccountResponse_Reflect ==
  << <<"account_address", "AccountAddress", "str">>, <<"sequence", "Sequence", "num">>,
     <<"account_number", "AccountNumber", "num">> >>
EvmQueryValidatorAccountResponse_Size ==
  << <<"AccountAddress", "str", 1>>, <<"Sequence", "num", 1>>, <<"AccountNumber", "num", 1>> >>
EvmQueryValidatorAccountResponse_Marshal ==
  << <<"AccountNumber", "num", <<24>>>>, <<"Sequence", "num", <<16>>>>,
     <<"AccountAddress", "str", <<10>>>> >>
EvmQueryValidatorAccountResponse_Unmarshal ==
  << <<1, 2, "AccountAddress", "str">>, <<2, 0, "Sequence", "num">>,
     <<3, 0, "AccountNumber", "num">> >>

EvmQueryBalanceRequest_Reflect == << <<"address", "Address", "str">> >>
EvmQueryBalanceRequest_Size == << <<"Address", "str", 1>> >>
EvmQueryBalanceRequest_Marshal == << <<"Address", "str", <<10>>>> >>
EvmQueryBalanceRequest_Unmarshal == << <<1, 2, "Address", "str">> >>

EvmQueryBalanceResponse_Reflect == << <<"balance", "Balance", "str">> >>
EvmQueryBalanceResponse_Size == << <<"Balance", "str", 1>> >>
EvmQueryBalanceResponse_Marshal == << <<"Balance", "str", <<10>>>> >>
EvmQueryBalanceResponse_Unmarshal == << <<1, 2, "Balance", "str">> >>

EvmQueryStorageRequest_Reflect == << <<"address", "Address", "str">>, <<"key", "Key", "str">> >>
EvmQueryStorageRequest_Size == << <<"Address", "str", 1>>, <<"Key", "str", 1>> >>
EvmQueryStorageRequest_Marshal == << <<"Key", "str", <<18>>>>, <<"Address", "str", <<10>>>> >>
EvmQueryStorageRequest_Unmarshal == << <<1, 2, "Address", "str">>, <<2, 2, "Key", "str">> >>

EvmQueryStorageResponse_Reflect == << <<"value", "Value", "str">> >>
EvmQueryStorageResponse_Size == << <<"Value", "str", 1>> >>
EvmQueryStorageResponse_Marshal == << <<"Value", "str", <<10>>>> >>
EvmQueryStorageResponse_Unmarshal == << <<1, 2, "Value", "str">> >>

EvmQueryCodeRequest_Reflect == << <<"address", "Address", "str">> >>
EvmQueryCodeRequest_Size == << <<"Address", "str", 1>> >>
EvmQueryCodeRequest_Marshal == << <<"Address", "str", <<10>>>> >>
EvmQueryCodeRequest_Unmarshal == << <<1, 2, "Address", "str">> >>

EvmQueryCodeResponse_Reflect == << <<"code", "Code", "str">> >>
EvmQueryCodeResponse_Size == << <<"Code", "str", 1>> >>
EvmQueryCodeResponse_Marshal == << <<"Code", "str", <<10>>>> >>
EvmQueryCodeResponse_Unmarshal == << <<1, 2, "Code", "str">> >>

EvmQueryParamsRequest_Reflect == <<>>
EvmQueryParamsRequest_Size == <<>>
EvmQueryParamsRequest_Marshal == <<>>
EvmQueryParamsRequest_Unmarshal == <<>>

EvmQueryParamsResponse_Reflect == << <<"params", "Params", "ptr">> >>
EvmQueryParamsResponse_Size == << <<"Params", "ptr", 1>> >>
EvmQueryParamsResponse_Marshal == << <<"Params", "ptr", <<10>>>> >>
EvmQueryParamsResponse_Unmarshal == << <<1, 2, "Params", "ptr">> >>

EvmEthCallRequest_Reflect == << <<"args", "Args", "str">>, <<"gas_cap", "GasCap", "num">> >>
EvmEthCallRequest_Size == << <<"Args", "str", 1>>, <<"GasCap", "num", 1>> >>
EvmEthCallRequest_Marshal == << <<"GasCap", "num", <<16>>>>, <<"Args", "str", <<10>>>> >>
EvmEthCallRequest_Unmarshal == << <<1, 2, "Args", "str">>, <<2, 0, "GasCap", "num">> >>

EvmEstimateGasResponse_Reflect == << <<"gas", "Gas", "num">> >>
EvmEstimateGasResponse_Size == << <<"Gas", "num", 1>> >>
EvmEstimateGasResponse_Marshal == << <<"Gas", "num", <<8>>>> >>
EvmEstimateGasResponse_Unmarshal == << <<1, 0, "Gas", "num">> >>

EvmQueryTraceTxRequest_Reflect ==
  << <<"msg", "Msg", "ptr">>, <<"trace_config", "TraceConfig", "ptr">>,
     <<"predecessors", "Predecessors", "rep">>, <<"block_number", "BlockNumber", "num">>,
     <<"block_hash", "BlockHash", "str">>, <<"block_time", "BlockTime", "ptr">>,
     <<"proposer_address", "ProposerAddress", "str">> >>
EvmQueryTraceTxRequest_Size ==
  << <<"Msg", "ptr", 1>>, <<"TraceConfig", "ptr", 1>>, <<"Predecessors", "rep", 1>>,
     <<"BlockNumber", "num", 1>>, <<"BlockHash", "str", 1>>, <<"BlockTime", "ptr", 1>>,
     <<"ProposerAddress", "str", 1>> >>
EvmQueryTraceTxRequest_Marshal ==
  << <<"ProposerAddress", "str", <<58>>>>, <<"BlockTime", "ptr", <<50>>>>,
     <<"BlockHash", "str", <<42>>>>, <<"BlockNumber", "num", <<32>>>>,
     <<"Predecessors", "rep", <<26>>>>, <<"TraceConfig", "ptr", <<18>>>>,
     <<"Msg", "ptr", <<10>>>> >>
EvmQueryTraceTxRequest_Unmarshal ==
  << <<1, 2, "Msg", "ptr">>, <<2, 2, "TraceConfig", "ptr">>, <<3, 2, "Predecessors", "rep">>,
     <<4, 0, "BlockNumber", "num">>, <<5, 2, "BlockHash", "str">>,
     <<6, 2, "BlockTime", "ptr">>, <<7, 2, "ProposerAddress", "str">> >>

EvmQueryTraceTxResponse_Reflect == << <<"data", "Data", "str">> >>
EvmQueryTraceTxResponse_Size == << <<"Data", "str", 1>> >>
EvmQueryTraceTxResponse_Marshal == << <<"Data", "str", <<10>>>> >>
EvmQueryTraceTxResponse_Unmarshal == << <<1, 2, "Data", "str">> >>

EvmQueryTraceBlockRequest_Reflect ==
  << <<"txs", "Txs", "rep">>, <<"trace_config", "TraceConfig", "ptr">>,
     <<"block_number", "BlockNumber", "num">>, <<"block_hash", "BlockHash", "str">>,
     <<"block_time", "BlockTime", "ptr">>, <<"proposer_address", "ProposerAddress", "str">> >>
EvmQueryTraceBlockRequest_Size ==
  << <<"Txs", "rep", 1>>, <<"TraceConfig", "ptr", 1>>, <<"BlockNumber", "num", 1>>,
     <<"BlockHash", "str", 1>>, <<"BlockTime", "ptr", 1>>, <<"ProposerAddress", "str", 1>> >>
EvmQueryTraceBlockRequest_Marshal ==
  << <<"ProposerAddress", "str", <<66>>>>, <<"BlockTime", "ptr", <<58>>>>,
     <<"BlockHash", "str", <<50>>>>, <<"BlockNumber", "num", <<40>>>>,
     <<"TraceConfig", "ptr", <<26>>>>, <<"Txs", "rep", <<10>>>> >>
EvmQueryTraceBlockRequest_Unmarshal ==
  << <<1, 2, "Txs", "rep">>, <<3, 2, "TraceConfig", "ptr">>, <<5, 0, "BlockNumber", "num">>,
     <<6, 2, "BlockHash", "str">>, <<7, 2, "BlockTime", "ptr">>,
     <<8, 2, "ProposerAddress", "str">> >>

EvmQueryTraceBlockResponse_Reflect == << <<"data", "Data", "str">> >>
EvmQueryTraceBlockResponse_Size == << <<"Data", "str", 1>> >>
EvmQueryTraceBlockResponse_Marshal == << <<"Data", "str", <<10>>>> >>
EvmQueryTraceBlockResponse_Unmarshal == << <<1, 2, "Data", "str">> >>

EvmQueryBaseFeeRequest_Reflect == <<>>
EvmQueryBaseFeeRequest_Size == <<>>
EvmQueryBaseFeeRequest_Marshal == <<>>
EvmQueryBaseFeeRequest_Unmarshal == <<>>

EvmQueryBaseFeeResponse_Reflect == << <<"base_fee", "BaseFee", "str">> >>
EvmQueryBaseFeeResponse_Size == << <<"BaseFee", "str", 1>> >>
EvmQueryBaseFeeResponse_Marshal == << <<"BaseFee", "str", <<10>>>> >>
EvmQueryBaseFeeResponse_Unmarshal == << <<1, 2, "BaseFee", "str">> >>

(******************** api/ethermint/evm/v1/tx.pulsar.go ********************)

EvmMsgEthereumTx_Reflect ==
  << <<"from", "From", "str">>, <<"marshalled_tx", "MarshalledTx", "str">> >>
EvmMsgEthereumTx_Size == << <<"From", "str", 1>>, <<"MarshalledTx", "str", 1>> >>
EvmMsgEthereumTx_Marshal == << <<"MarshalledTx", "str", <<18>>>>, <<"From", "str", <<10>>>> >>
EvmMsgEthereumTx_Unmarshal == << <<1, 2, "From", "str">>, <<2, 2, "MarshalledTx", "str">> >>

EvmExtensionOptionsEthereumTx_Reflect == <<>>
EvmExtensionOptionsEthereumTx_Size == <<>>
EvmExtensionOptionsEthereumTx_Marshal == <<>>
EvmExtensionOptionsEthereumTx_Unmarshal == <<>>

EvmMsgEthereumTxResponse_Reflect ==
  << <<"hash", "Hash", "str">>, <<"ret", "Ret", "str">>, <<"vm_error", "VmError", "str">>,
     <<"gas_used", "GasUsed", "num">>, <<"marshalled_receipt", "MarshalledReceipt", "str">> >>
EvmMsgEthereumTxResponse_Size ==
  << <<"Hash", "str", 1>>, <<"Ret", "str", 1>>, <<"VmError", "str", 1>>,
     <<"GasUsed", "num", 1>>, <<"MarshalledReceipt", "str", 1>> >>
EvmMsgEthereumTxResponse_Marshal ==
  << <<"MarshalledReceipt", "str", <<42>>>>, <<"GasUsed", "num", <<32>>>>,
     <<"VmError", "str", <<26>>>>, <<"Ret", "str", <<18>>>>, <<"Hash", "str", <<10>>>> >>
EvmMsgEthereumTxResponse_Unmarshal ==
  << <<1, 2, "Hash", "str">>, <<2, 2, "Ret", "str">>, <<3, 2, "VmError", "str">>,
     <<4, 0, "GasUsed", "num">>, <<5, 2, "MarshalledReceipt", "str">> >>

EvmMsgUpdateParams_Reflect ==
  << <<"authority", "Authority", "str">>, <<"params", "Params", "ptr">> >>
EvmMsgUpdateParams_Size == << <<"Authority", "str", 1>>, <<"Params", "ptr", 1>> >>
EvmMsgUpdateParams_Marshal == << <<"Params", "ptr", <<18>>>>, <<"Authority", "str", <<10>>>> >>
EvmMsgUpdateParams_Unmarshal == << <<1, 2, "Authority", "str">>, <<2, 2, "Params", "ptr">> >>

EvmMsgUpdateParamsResponse_Reflect == <<>>
EvmMsgUpdateParamsResponse_Size == <<>>
EvmMsgUpdateParamsResponse_Marshal == <<>>
EvmMsgUpdateParamsResponse_Unmarshal == <<>>

=============================================================================
