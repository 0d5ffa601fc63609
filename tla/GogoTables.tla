----------------------------- MODULE GogoTables -----------------------------
(*****************************************************************************)
(* The gogoproto code of the messages the repository defines outside x/evm,  *)
(* in the form of GogoEvmTables, and the table of all of them.               *)
(*****************************************************************************)
EXTENDS GogoEvmTables

(********************** x/feemarket/types/events.pb.go **********************)

FeeMarketEventFeeMarket_Fields == [BaseFee |-> "str"]
FeeMarketEventFeeMarket_Size == << <<"BaseFee", "str", 1>> >>
FeeMarketEventFeeMarket_Marshal == << <<"BaseFee", "str", <<10>>>> >>
FeeMarketEventFeeMarket_Unmarshal == << <<1, 2, "BaseFee", "str">> >>

(******************** x/feemarket/types/feemarket.pb.go ********************)

FeeMarketParams_Fields == [BaseFee |-> "int", MinGasPrice |-> "int"]
FeeMarketParams_Size == << <<"BaseFee", "sub", 1>>, <<"MinGasPrice", "sub", 1>> >>
FeeMarketParams_Marshal == << <<"MinGasPrice", "int", <<18>>>>, <<"BaseFee", "int", <<10>>>> >>
FeeMarketParams_Unmarshal == << <<1, 2, "BaseFee", "int">>, <<2, 2, "MinGasPrice", "int">> >>

(********************* x/feemarket/types/genesis.pb.go *********************)

FeeMarketGenesisState_Fields == [Params |-> "sub"]
FeeMarketGenesisState_Size == << <<"Params", "sub", 1>> >>
FeeMarketGenesisState_Marshal == << <<"Params", "sub", <<10>>>> >>
FeeMarketGenesisState_Unmarshal == << <<1, 2, "Params", "sub">> >>

(********************** x/feemarket/types/query.pb.go **********************)

FeeMarketQueryParamsRequest_Fields == <<>>
FeeMarketQueryParamsRequest_Size == <<>>
FeeMarketQueryParamsRequest_Marshal == <<>>
FeeMarketQueryParamsRequest_Unmarshal == <<>>

FeeMarketQueryParamsResponse_Fields == [Params |-> "sub"]
FeeMarketQueryParamsResponse_Size == << <<"Params", "sub", 1>> >>
FeeMarketQueryParamsResponse_Marshal == << <<"Params", "sub", <<10>>>> >>
FeeMarketQueryParamsResponse_Unmarshal == << <<1, 2, "Params", "sub">> >>

FeeMarketQueryBaseFeeRequest_Fields == <<>>
FeeMarketQueryBaseFeeRequest_Size == <<>>
FeeMarketQueryBaseFeeRequest_Marshal == <<>>
FeeMarketQueryBaseFeeRequest_Unmarshal == <<>>

FeeMarketQueryBaseFeeResponse_Fields == [BaseFee |-> "int"]
FeeMarketQueryBaseFeeResponse_Size == << <<"BaseFee", "sub", 1>> >>
FeeMarketQueryBaseFeeResponse_Marshal == << <<"BaseFee", "int", <<10>>>> >>
FeeMarketQueryBaseFeeResponse_Unmarshal == << <<1, 2, "BaseFee", "int">> >>

(************************ x/feemarket/types/tx.pb.go ************************)

FeeMarketMsgUpdateParams_Fields == [Authority |-> "str", Params |-> "sub"]
FeeMarketMsgUpdateParams_Size == << <<"Authority", "str", 1>>, <<"Params", "sub", 1>> >>
FeeMarketMsgUpdateParams_Marshal ==
  << <<"Params", "sub", <<18>>>>, <<"Authority", "str", <<10>>>> >>
FeeMarketMsgUpdateParams_Unmarshal ==
  << <<1, 2, "Authority", "str">>, <<2, 2, "Params", "sub">> >>

FeeMarketMsgUpdateParamsResponse_Fields == <<>>
FeeMarketMsgUpdateParamsResponse_Size == <<>>
FeeMarketMsgUpdateParamsResponse_Marshal == <<>>
FeeMarketMsgUpdateParamsResponse_Unmarshal == <<>>

(************************ x/cpc/types/genesis.pb.go ************************)

CpcGenesisState_Fields ==
  [Params |-> "sub", DeployErc20Native |-> "bool", DeployStakingContract |-> "bool"]
CpcGenesisState_Size ==
  << <<"Params", "sub", 1>>, <<"DeployErc20Native", "bool", 1>>,
     <<"DeployStakingContract", "bool", 1>> >>
CpcGenesisState_Marshal ==
  << <<"DeployStakingContract", "bool", <<24>>>>, <<"DeployErc20Native", "bool", <<16>>>>,
     <<"Params", "sub", <<10>>>> >>
CpcGenesisState_Unmarshal ==
  << <<1, 2, "Params", "sub">>, <<2, 0, "DeployErc20Native", "bool">>,
     <<3, 0, "DeployStakingContract", "bool">> >>

CpcParams_Fields == [ProtocolVersion |-> "num", WhitelistedDeployers |-> "rep"]
CpcParams_Size == << <<"ProtocolVersion", "num", 1>>, <<"WhitelistedDeployers", "rep", 1>> >>
CpcParams_Marshal ==
  << <<"WhitelistedDeployers", "rep", <<18>>>>, <<"ProtocolVersion", "num", <<8>>>> >>
CpcParams_Unmarshal ==
  << <<1, 0, "ProtocolVersion", "num">>, <<2, 2, "WhitelistedDeployers", "rep">> >>

(********************** x/cpc/types/precompiles.pb.go **********************)

CpcCustomPrecompiledContractMeta_Fields ==
  [Address |-> "str", CustomPrecompiledType |-> "num", Name |-> "str", TypedMeta |-> "str",
   Disabled |-> "bool"]
CpcCustomPrecompiledContractMeta_Size ==
  << <<"Address", "str", 1>>, <<"CustomPrecompiledType", "num", 1>>, <<"Name", "str", 1>>,
     <<"TypedMeta", "str", 1>>, <<"Disabled", "bool", 1>> >>
CpcCustomPrecompiledContractMeta_Marshal ==
  << <<"Disabled", "bool", <<40>>>>, <<"TypedMeta", "str", <<34>>>>,
     <<"Name", "str", <<26>>>>, <<"CustomPrecompiledType", "num", <<16>>>>,
     <<"Address", "str", <<10>>>> >>
CpcCustomPrecompiledContractMeta_Unmarshal ==
  << <<1, 2, "Address", "str">>, <<2, 0, "CustomPrecompiledType", "num">>,
     <<3, 2, "Name", "str">>, <<4, 2, "TypedMeta", "str">>, <<5, 0, "Disabled", "bool">> >>

(************************* x/cpc/types/query.pb.go *************************)

CpcQueryCustomPrecompiledContractsRequest_Fields == [Pagination |-> "ptr"]
CpcQueryCustomPrecompiledContractsRequest_Size == << <<"Pagination", "ptr", 1>> >>
CpcQueryCustomPrecompiledContractsRequest_Marshal == << <<"Pagination", "ptr", <<10>>>> >>
CpcQueryCustomPrecompiledContractsRequest_Unmarshal == << <<1, 2, "Pagination", "ptr">> >>

CpcWrappedCustomPrecompiledContractMeta_Fields ==
  [Address |-> "str", TypeName |-> "str", Meta |-> "sub"]
CpcWrappedCustomPrecompiledContractMeta_Size ==
  << <<"Address", "str", 1>>, <<"TypeName", "str", 1>>, <<"Meta", "sub", 1>> >>
CpcWrappedCustomPrecompiledContractMeta_Marshal ==
  << <<"Meta", "sub", <<26>>>>, <<"TypeName", "str", <<18>>>>, <<"Address", "str", <<10>>>> >>
CpcWrappedCustomPrecompiledContractMeta_Unmarshal ==
  << <<1, 2, "Address", "str">>, <<2, 2, "TypeName", "str">>, <<3, 2, "Meta", "sub">> >>

CpcQueryCustomPrecompiledContractsResponse_Fields == [Contracts |-> "rep", Pagination |-> "ptr"]
CpcQueryCustomPrecompiledContractsResponse_Size ==
  << <<"Contracts", "rep", 1>>, <<"Pagination", "ptr", 1>> >>
CpcQueryCustomPrecompiledContractsResponse_Marshal ==
  << <<"Pagination", "ptr", <<18>>>>, <<"Contracts", "rep", <<10>>>> >>
CpcQueryCustomPrecompiledContractsResponse_Unmarshal ==
  << <<1, 2, "Contracts", "rep">>, <<2, 2, "Pagination", "ptr">> >>

CpcQueryCustomPrecompiledContractRequest_Fields == [Address |-> "str"]
CpcQueryCustomPrecompiledContractRequest_Size == << <<"Address", "str", 1>> >>
CpcQueryCustomPrecompiledContractRequest_Marshal == << <<"Address", "str", <<10>>>> >>
CpcQueryCustomPrecompiledContractRequest_Unmarshal == << <<1, 2, "Address", "str">> >>

CpcQueryCustomPrecompiledContractResponse_Fields == [Contract |-> "sub"]
CpcQueryCustomPrecompiledContractResponse_Size == << <<"Contract", "sub", 1>> >>
CpcQueryCustomPrecompiledContractResponse_Marshal == << <<"Contract", "sub", <<10>>>> >>
CpcQueryCustomPrecompiledContractResponse_Unmarshal == << <<1, 2, "Contract", "sub">> >>

CpcQueryErc20CustomPrecompiledContractByDenomRequest_Fields == [MinDenom |-> "str"]
CpcQueryErc20CustomPrecompiledContractByDenomRequest_Size == << <<"MinDenom", "str", 1>> >>
CpcQueryErc20CustomPrecompiledContractByDenomRequest_Marshal ==
  << <<"MinDenom", "str", <<10>>>> >>
CpcQueryErc20CustomPrecompiledContractByDenomRequest_Unmarshal ==
  << <<1, 2, "MinDenom", "str">> >>

CpcQueryErc20CustomPrecompiledContractByDenomResponse_Fields == [Contract |-> "sub"]
CpcQueryErc20CustomPrecompiledContractByDenomResponse_Size == << <<"Contract", "sub", 1>> >>
CpcQueryErc20CustomPrecompiledContractByDenomResponse_Marshal ==
  << <<"Contract", "sub", <<10>>>> >>
CpcQueryErc20CustomPrecompiledContractByDenomResponse_Unmarshal ==
  << <<1, 2, "Contract", "sub">> >>

CpcQueryParamsRequest_Fields == <<>>
CpcQueryParamsRequest_Size == <<>>
CpcQueryParamsRequest_Marshal == <<>>
CpcQueryParamsRequest_Unmarshal == <<>>

CpcQueryParamsResponse_Fields == [Params |-> "sub"]
CpcQueryParamsResponse_Size == << <<"Params", "sub", 1>> >>
CpcQueryParamsResponse_Marshal == << <<"Params", "sub", <<10>>>> >>
CpcQueryParamsResponse_Unmarshal == << <<1, 2, "Params", "sub">> >>

(*************************** x/cpc/types/tx.pb.go ***************************)

CpcMsgUpdateParams_Fields == [Authority |-> "str", NewParams |-> "sub"]
CpcMsgUpdateParams_Size == << <<"Authority", "str", 1>>, <<"NewParams", "sub", 1>> >>
CpcMsgUpdateParams_Marshal ==
  << <<"NewParams", "sub", <<18>>>>, <<"Authority", "str", <<10>>>> >>
CpcMsgUpdateParams_Unmarshal == << <<1, 2, "Authority", "str">>, <<2, 2, "NewParams", "sub">> >>

CpcMsgUpdateParamsResponse_Fields == <<>>
CpcMsgUpdateParamsResponse_Size == <<>>
CpcMsgUpdateParamsResponse_Marshal == <<>>
CpcMsgUpdateParamsResponse_Unmarshal == <<>>

CpcMsgDeployErc20ContractRequest_Fields ==
  [Authority |-> "str", Name |-> "str", Symbol |-> "str", Decimals |-> "num",
   MinDenom |-> "str"]
CpcMsgDeployErc20ContractRequest_Size ==
  << <<"Authority", "str", 1>>, <<"Name", "str", 1>>, <<"Symbol", "str", 1>>,
     <<"Decimals", "num", 1>>, <<"MinDenom", "str", 1>> >>
CpcMsgDeployErc20ContractRequest_Marshal ==
  << <<"MinDenom", "str", <<42>>>>, <<"Decimals", "num", <<32>>>>,
     <<"Symbol", "str", <<26>>>>, <<"Name", "str", <<18>>>>, <<"Authority", "str", <<10>>>> >>
CpcMsgDeployErc20ContractRequest_Unmarshal ==
  << <<1, 2, "Authority", "str">>, <<2, 2, "Name", "str">>, <<3, 2, "Symbol", "str">>,
     <<4, 0, "Decimals", "num">>, <<5, 2, "MinDenom", "str">> >>

CpcMsgDeployErc20ContractResponse_Fields == [ContractAddress |-> "str"]
CpcMsgDeployErc20ContractResponse_Size == << <<"ContractAddress", "str", 1>> >>
CpcMsgDeployErc20ContractResponse_Marshal == << <<"ContractAddress", "str", <<10>>>> >>
CpcMsgDeployErc20ContractResponse_Unmarshal == << <<1, 2, "ContractAddress", "str">> >>

CpcMsgDeployStakingContractRequest_Fields ==
  [Authority |-> "str", Symbol |-> "str", Decimals |-> "num"]
CpcMsgDeployStakingContractRequest_Size ==
  << <<"Authority", "str", 1>>, <<"Symbol", "str", 1>>, <<"Decimals", "num", 1>> >>
CpcMsgDeployStakingContractRequest_Marshal ==
  << <<"Decimals", "num", <<24>>>>, <<"Symbol", "str", <<18>>>>,
     <<"Authority", "str", <<10>>>> >>
CpcMsgDeployStakingContractRequest_Unmarshal ==
  << <<1, 2, "Authority", "str">>, <<2, 2, "Symbol", "str">>, <<3, 0, "Decimals", "num">> >>

CpcMsgDeployStakingContractResponse_Fields == [ContractAddress |-> "str"]
CpcMsgDeployStakingContractResponse_Size == << <<"ContractAddress", "str", 1>> >>
CpcMsgDeployStakingContractResponse_Marshal == << <<"ContractAddress", "str", <<10>>>> >>
CpcMsgDeployStakingContractResponse_Unmarshal == << <<1, 2, "ContractAddress", "str">> >>

(*********************** x/vauth/types/genesis.pb.go ***********************)

VAuthGenesisState_Fields == <<>>
VAuthGenesisState_Size == <<>>
VAuthGenesisState_Marshal == <<>>
VAuthGenesisState_Unmarshal == <<>>

(************************ x/vauth/types/query.pb.go ************************)

VAuthQueryProofExternalOwnedAccountRequest_Fields == [Account |-> "str"]
VAuthQueryProofExternalOwnedAccountRequest_Size == << <<"Account", "str", 1>> >>
VAuthQueryProofExternalOwnedAccountRequest_Marshal == << <<"Account", "str", <<10>>>> >>
VAuthQueryProofExternalOwnedAccountRequest_Unmarshal == << <<1, 2, "Account", "str">> >>

VAuthQueryProofExternalOwnedAccountResponse_Fields == [Proof |-> "sub"]
VAuthQueryProofExternalOwnedAccountResponse_Size == << <<"Proof", "sub", 1>> >>
VAuthQueryProofExternalOwnedAccountResponse_Marshal == << <<"Proof", "sub", <<10>>>> >>
VAuthQueryProofExternalOwnedAccountResponse_Unmarshal == << <<1, 2, "Proof", "sub">> >>

(************************** x/vauth/types/tx.pb.go **************************)

VAuthMsgSubmitProofExternalOwnedAccount_Fields ==
  [Submitter |-> "str", Account |-> "str", Signature |-> "str"]
VAuthMsgSubmitProofExternalOwnedAccount_Size ==
  << <<"Submitter", "str", 1>>, <<"Account", "str", 1>>, <<"Signature", "str", 1>> >>
VAuthMsgSubmitProofExternalOwnedAccount_Marshal ==
  << <<"Signature", "str", <<26>>>>, <<"Account", "str", <<18>>>>,
     <<"Submitter", "str", <<10>>>> >>
VAuthMsgSubmitProofExternalOwnedAccount_Unmarshal ==
  << <<1, 2, "Submitter", "str">>, <<2, 2, "Account", "str">>, <<3, 2, "Signature", "str">> >>

VAuthMsgSubmitProofExternalOwnedAccountResponse_Fields == <<>>
VAuthMsgSubmitProofExternalOwnedAccountResponse_Size == <<>>
VAuthMsgSubmitProofExternalOwnedAccountResponse_Marshal == <<>>
VAuthMsgSubmitProofExternalOwnedAccountResponse_Unmarshal == <<>>

(************************ x/vauth/types/vauth.pb.go ************************)

VAuthProofExternalOwnedAccount_Fields ==
  [Account |-> "str", Hash |-> "str", Signature |-> "str"]
VAuthProofExternalOwnedAccount_Size ==
  << <<"Account", "str", 1>>, <<"Hash", "str", 1>>, <<"Signature", "str", 1>> >>
VAuthProofExternalOwnedAccount_Marshal ==
  << <<"Signature", "str", <<26>>>>, <<"Hash", "str", <<18>>>>, <<"Account", "str", <<10>>>> >>
VAuthProofExternalOwnedAccount_Unmarshal ==
  << <<1, 2, "Account", "str">>, <<2, 2, "Hash", "str">>, <<3, 2, "Signature", "str">> >>

(************************* types/dynamic_fee.pb.go *************************)

TypesExtensionOptionDynamicFeeTx_Fields == [MaxPriorityPrice |-> "int"]
TypesExtensionOptionDynamicFeeTx_Size == << <<"MaxPriorityPrice", "sub", 1>> >>
TypesExtensionOptionDynamicFeeTx_Marshal == << <<"MaxPriorityPrice", "int", <<10>>>> >>
TypesExtensionOptionDynamicFeeTx_Unmarshal == << <<1, 2, "MaxPriorityPrice", "int">> >>

(*************************** types/indexer.pb.go ***************************)

TypesTxResult_Fields ==
  [Height |-> "num", TxIndex |-> "num", EthTxIndex |-> "num", Failed |-> "bool"]
TypesTxResult_Size ==
  << <<"Height", "num", 1>>, <<"TxIndex", "num", 1>>, <<"EthTxIndex", "num", 1>>,
     <<"Failed", "bool", 1>> >>
TypesTxResult_Marshal ==
  << <<"Failed", "bool", <<32>>>>, <<"EthTxIndex", "num", <<24>>>>,
     <<"TxIndex", "num", <<16>>>>, <<"Height", "num", <<8>>>> >>
TypesTxResult_Unmarshal ==
  << <<1, 0, "Height", "num">>, <<2, 0, "TxIndex", "num">>, <<3, 0, "EthTxIndex", "num">>,
     <<4, 0, "Failed", "bool">> >>

(********************** crypto/ethsecp256k1/keys.pb.go **********************)

KeyPubKey_Fields == [Key |-> "str"]
KeyPubKey_Size == << <<"Key", "str", 1>> >>
KeyPubKey_Marshal == << <<"Key", "str", <<10>>>> >>
KeyPubKey_Unmarshal == << <<1, 2, "Key", "str">> >>

KeyPrivKey_Fields == [Key |-> "str"]
KeyPrivKey_Size == << <<"Key", "str", 1>> >>
KeyPrivKey_Marshal == << <<"Key", "str", <<10>>>> >>
KeyPrivKey_Unmarshal == << <<1, 2, "Key", "str">> >>

(* The generated methods of every message, by message. *)
Gogo ==
  [EvmParams |-> [fields |-> EvmParams_Fields, size |-> EvmParams_Size,
     marshal |-> EvmParams_Marshal, unmarshal |-> EvmParams_Unmarshal],
   EvmChainConfig |-> [fields |-> EvmChainConfig_Fields, size |-> EvmChainConfig_Size,
     marshal |-> EvmChainConfig_Marshal, unmarshal |-> EvmChainConfig_Unmarshal],
   EvmState |-> [fields |-> EvmState_Fields, size |-> EvmState_Size,
     marshal |-> EvmState_Marshal, unmarshal |-> EvmState_Unmarshal],
   EvmAccessTuple |-> [fields |-> EvmAccessTuple_Fields, size |-> EvmAccessTuple_Size,
     marshal |-> EvmAccessTuple_Marshal, unmarshal |-> EvmAccessTuple_Unmarshal],
   EvmTraceConfig |-> [fields |-> EvmTraceConfig_Fields, size |-> EvmTraceConfig_Size,
     marshal |-> EvmTraceConfig_Marshal, unmarshal |-> EvmTraceConfig_Unmarshal],
   EvmGenesisState |-> [fields |-> EvmGenesisState_Fields, size |-> EvmGenesisState_Size,
     marshal |-> EvmGenesisState_Marshal, unmarshal |-> EvmGenesisState_Unmarshal],
   EvmGenesisAccount |-> [fields |-> EvmGenesisAccount_Fields, size |-> EvmGenesisAccount_Size,
     marshal |-> EvmGenesisAccount_Marshal, unmarshal |-> EvmGenesisAccount_Unmarshal],
   EvmQueryAccountRequest |-> [fields |-> EvmQueryAccountRequest_Fields, size |-> EvmQueryAccountRequest_Size,
     marshal |-> EvmQueryAccountRequest_Marshal, unmarshal |-> EvmQueryAccountRequest_Unmarshal],
   EvmQueryAccountResponse |-> [fields |-> EvmQueryAccountResponse_Fields, size |-> EvmQueryAccountResponse_Size,
     marshal |-> EvmQueryAccountResponse_Marshal, unmarshal |-> EvmQueryAccountResponse_Unmarshal],
   EvmQueryCosmosAccountRequest |-> [fields |-> EvmQueryCosmosAccountRequest_Fields, size |-> EvmQueryCosmosAccountRequest_Size,
     marshal |-> EvmQueryCosmosAccountRequest_Marshal, unmarshal |-> EvmQueryCosmosAccountRequest_Unmarshal],
   EvmQueryCosmosAccountResponse |-> [fields |-> EvmQueryCosmosAccountResponse_Fields, size |-> EvmQueryCosmosAccountResponse_Size,
     marshal |-> EvmQueryCosmosAccountResponse_Marshal, unmarshal |-> EvmQueryCosmosAccountResponse_Unmarshal],
   EvmQueryValidatorAccountRequest |-> [fields |-> EvmQueryValidatorAccountRequest_Fields, size |-> EvmQueryValidatorAccountRequest_Size,
     marshal |-> EvmQueryValidatorAccountRequest_Marshal, unmarshal |-> EvmQueryValidatorAccountRequest_Unmarshal],
   EvmQueryValidatorAccountResponse |-> [fields |-> EvmQueryValidatorAccountResponse_Fields, size |-> EvmQueryValidatorAccountResponse_Size,
     marshal |-> EvmQueryValidatorAccountResponse_Marshal, unmarshal |-> EvmQueryValidatorAccountResponse_Unmarshal],
   EvmQueryBalanceRequest |-> [fields |-> EvmQueryBalanceRequest_Fields, size |-> EvmQueryBalanceRequest_Size,
     marshal |-> EvmQueryBalanceRequest_Marshal, unmarshal |-> EvmQueryBalanceRequest_Unmarshal],
   EvmQueryBalanceResponse |-> [fields |-> EvmQueryBalanceResponse_Fields, size |-> EvmQueryBalanceResponse_Size,
     marshal |-> EvmQueryBalanceResponse_Marshal, unmarshal |-> EvmQueryBalanceResponse_Unmarshal],
   EvmQueryStorageRequest |-> [fields |-> EvmQueryStorageRequest_Fields, size |-> EvmQueryStorageRequest_Size,
     marshal |-> EvmQueryStorageRequest_Marshal, unmarshal |-> EvmQueryStorageRequest_Unmarshal],
   EvmQueryStorageResponse |-> [fields |-> EvmQueryStorageResponse_Fields, size |-> EvmQueryStorageResponse_Size,
     marshal |-> EvmQueryStorageResponse_Marshal, unmarshal |-> EvmQueryStorageResponse_Unmarshal],
   EvmQueryCodeRequest |-> [fields |-> EvmQueryCodeRequest_Fields, size |-> EvmQueryCodeRequest_Size,
     marshal |-> EvmQueryCodeRequest_Marshal, unmarshal |-> EvmQueryCodeRequest_Unmarshal],
   EvmQueryCodeResponse |-> [fields |-> EvmQueryCodeResponse_Fields, size |-> EvmQueryCodeResponse_Size,
     marshal |-> EvmQueryCodeResponse_Marshal, unmarshal |-> EvmQueryCodeResponse_Unmarshal],
   EvmQueryParamsRequest |-> [fields |-> EvmQueryParamsRequest_Fields, size |-> EvmQueryParamsRequest_Size,
     marshal |-> EvmQueryParamsRequest_Marshal, unmarshal |-> EvmQueryParamsRequest_Unmarshal],
   EvmQueryParamsResponse |-> [fields |-> EvmQueryParamsResponse_Fields, size |-> EvmQueryParamsResponse_Size,
     marshal |-> EvmQueryParamsResponse_Marshal, unmarshal |-> EvmQueryParamsResponse_Unmarshal],
   EvmEthCallRequest |-> [fields |-> EvmEthCallRequest_Fields, size |-> EvmEthCallRequest_Size,
     marshal |-> EvmEthCallRequest_Marshal, unmarshal |-> EvmEthCallRequest_Unmarshal],
   EvmEstimateGasResponse |-> [fields |-> EvmEstimateGasResponse_Fields, size |-> EvmEstimateGasResponse_Size,
     marshal |-> EvmEstimateGasResponse_Marshal, unmarshal |-> EvmEstimateGasResponse_Unmarshal],
   EvmQueryTraceTxRequest |-> [fields |-> EvmQueryTraceTxRequest_Fields, size |-> EvmQueryTraceTxRequest_Size,
     marshal |-> EvmQueryTraceTxRequest_Marshal, unmarshal |-> EvmQueryTraceTxRequest_Unmarshal],
   EvmQueryTraceTxResponse |-> [fields |-> EvmQueryTraceTxResponse_Fields, size |-> EvmQueryTraceTxResponse_Size,
     marshal |-> EvmQueryTraceTxResponse_Marshal, unmarshal |-> EvmQueryTraceTxResponse_Unmarshal],
   EvmQueryTraceBlockRequest |-> [fields |-> EvmQueryTraceBlockRequest_Fields, size |-> EvmQueryTraceBlockRequest_Size,
     marshal |-> EvmQueryTraceBlockRequest_Marshal, unmarshal |-> EvmQueryTraceBlockRequest_Unmarshal],
   EvmQueryTraceBlockResponse |-> [fields |-> EvmQueryTraceBlockResponse_Fields, size |-> EvmQueryTraceBlockResponse_Size,
     marshal |-> EvmQueryTraceBlockResponse_Marshal, unmarshal |-> EvmQueryTraceBlockResponse_Unmarshal],
   EvmQueryBaseFeeRequest |-> [fields |-> EvmQueryBaseFeeRequest_Fields, size |-> EvmQueryBaseFeeRequest_Size,
     marshal |-> EvmQueryBaseFeeRequest_Marshal, unmarshal |-> EvmQueryBaseFeeRequest_Unmarshal],
   EvmQueryBaseFeeResponse |-> [fields |-> EvmQueryBaseFeeResponse_Fields, size |-> EvmQueryBaseFeeResponse_Size,
     marshal |-> EvmQueryBaseFeeResponse_Marshal, unmarshal |-> EvmQueryBaseFeeResponse_Unmarshal],
   EvmMsgEthereumTx |-> [fields |-> EvmMsgEthereumTx_Fields, size |-> EvmMsgEthereumTx_Size,
     marshal |-> EvmMsgEthereumTx_Marshal, unmarshal |-> EvmMsgEthereumTx_Unmarshal],
   EvmExtensionOptionsEthereumTx |-> [fields |-> EvmExtensionOptionsEthereumTx_Fields, size |-> EvmExtensionOptionsEthereumTx_Size,
     marshal |-> EvmExtensionOptionsEthereumTx_Marshal, unmarshal |-> EvmExtensionOptionsEthereumTx_Unmarshal],
   EvmMsgEthereumTxResponse |-> [fields |-> EvmMsgEthereumTxResponse_Fields, size |-> EvmMsgEthereumTxResponse_Size,
     marshal |-> EvmMsgEthereumTxResponse_Marshal, unmarshal |-> EvmMsgEthereumTxResponse_Unmarshal],
   EvmMsgUpdateParams |-> [fields |-> EvmMsgUpdateParams_Fields, size |-> EvmMsgUpdateParams_Size,
     marshal |-> EvmMsgUpdateParams_Marshal, unmarshal |-> EvmMsgUpdateParams_Unmarshal],
   EvmMsgUpdateParamsResponse |-> [fields |-> EvmMsgUpdateParamsResponse_Fields, size |-> EvmMsgUpdateParamsResponse_Size,
     marshal |-> EvmMsgUpdateParamsResponse_Marshal, unmarshal |-> EvmMsgUpdateParamsResponse_Unmarshal],
   FeeMarketEventFeeMarket |-> [fields |-> FeeMarketEventFeeMarket_Fields, size |-> FeeMarketEventFeeMarket_Size,
     marshal |-> FeeMarketEventFeeMarket_Marshal, unmarshal |-> FeeMarketEventFeeMarket_Unmarshal],
   FeeMarketParams |-> [fields |-> FeeMarketParams_Fields, size |-> FeeMarketParams_Size,
     marshal |-> FeeMarketParams_Marshal, unmarshal |-> FeeMarketParams_Unmarshal],
   FeeMarketGenesisState |-> [fields |-> FeeMarketGenesisState_Fields, size |-> FeeMarketGenesisState_Size,
     marshal |-> FeeMarketGenesisState_Marshal, unmarshal |-> FeeMarketGenesisState_Unmarshal],
   FeeMarketQueryParamsRequest |-> [fields |-> FeeMarketQueryParamsRequest_Fields, size |-> FeeMarketQueryParamsRequest_Size,
     marshal |-> FeeMarketQueryParamsRequest_Marshal, unmarshal |-> FeeMarketQueryParamsRequest_Unmarshal],
   FeeMarketQueryParamsResponse |-> [fields |-> FeeMarketQueryParamsResponse_Fields, size |-> FeeMarketQueryParamsResponse_Size,
     marshal |-> FeeMarketQueryParamsResponse_Marshal, unmarshal |-> FeeMarketQueryParamsResponse_Unmarshal],
   FeeMarketQueryBaseFeeRequest |-> [fields |-> FeeMarketQueryBaseFeeRequest_Fields, size |-> FeeMarketQueryBaseFeeRequest_Size,
     marshal |-> FeeMarketQueryBaseFeeRequest_Marshal, unmarshal |-> FeeMarketQueryBaseFeeRequest_Unmarshal],
   FeeMarketQueryBaseFeeResponse |-> [fields |-> FeeMarketQueryBaseFeeResponse_Fields, size |-> FeeMarketQueryBaseFeeResponse_Size,
     marshal |-> FeeMarketQueryBaseFeeResponse_Marshal, unmarshal |-> FeeMarketQueryBaseFeeResponse_Unmarshal],
   FeeMarketMsgUpdateParams |-> [fields |-> FeeMarketMsgUpdateParams_Fields, size |-> FeeMarketMsgUpdateParams_Size,
     marshal |-> FeeMarketMsgUpdateParams_Marshal, unmarshal |-> FeeMarketMsgUpdateParams_Unmarshal],
   FeeMarketMsgUpdateParamsResponse |-> [fields |-> FeeMarketMsgUpdateParamsResponse_Fields, size |-> FeeMarketMsgUpdateParamsResponse_Size,
     marshal |-> FeeMarketMsgUpdateParamsResponse_Marshal, unmarshal |-> FeeMarketMsgUpdateParamsResponse_Unmarshal],
   CpcGenesisState |-> [fields |-> CpcGenesisState_Fields, size |-> CpcGenesisState_Size,
     marshal |-> CpcGenesisState_Marshal, unmarshal |-> CpcGenesisState_Unmarshal],
   CpcParams |-> [fields |-> CpcParams_Fields, size |-> CpcParams_Size,
     marshal |-> CpcParams_Marshal, unmarshal |-> CpcParams_Unmarshal],
   CpcCustomPrecompiledContractMeta |-> [fields |-> CpcCustomPrecompiledContractMeta_Fields, size |-> CpcCustomPrecompiledContractMeta_Size,
     marshal |-> CpcCustomPrecompiledContractMeta_Marshal, unmarshal |-> CpcCustomPrecompiledContractMeta_Unmarshal],
   CpcQueryCustomPrecompiledContractsRequest |-> [fields |-> CpcQueryCustomPrecompiledContractsRequest_Fields, size |-> CpcQueryCustomPrecompiledContractsRequest_Size,
     marshal |-> CpcQueryCustomPrecompiledContractsRequest_Marshal, unmarshal |-> CpcQueryCustomPrecompiledContractsRequest_Unmarshal],
   CpcWrappedCustomPrecompiledContractMeta |-> [fields |-> CpcWrappedCustomPrecompiledContractMeta_Fields, size |-> CpcWrappedCustomPrecompiledContractMeta_Size,
     marshal |-> CpcWrappedCustomPrecompiledContractMeta_Marshal, unmarshal |-> CpcWrappedCustomPrecompiledContractMeta_Unmarshal],
   CpcQueryCustomPrecompiledContractsResponse |-> [fields |-> CpcQueryCustomPrecompiledContractsResponse_Fields, size |-> CpcQueryCustomPrecompiledContractsResponse_Size,
     marshal |-> CpcQueryCustomPrecompiledContractsResponse_Marshal, unmarshal |-> CpcQueryCustomPrecompiledContractsResponse_Unmarshal],
   CpcQueryCustomPrecompiledContractRequest |-> [fields |-> CpcQueryCustomPrecompiledContractRequest_Fields, size |-> CpcQueryCustomPrecompiledContractRequest_Size,
     marshal |-> CpcQueryCustomPrecompiledContractRequest_Marshal, unmarshal |-> CpcQueryCustomPrecompiledContractRequest_Unmarshal],
   CpcQueryCustomPrecompiledContractResponse |-> [fields |-> CpcQueryCustomPrecompiledContractResponse_Fields, size |-> CpcQueryCustomPrecompiledContractResponse_Size,
     marshal |-> CpcQueryCustomPrecompiledContractResponse_Marshal, unmarshal |-> CpcQueryCustomPrecompiledContractResponse_Unmarshal],
   CpcQueryErc20CustomPrecompiledContractByDenomRequest |-> [fields |-> CpcQueryErc20CustomPrecompiledContractByDenomRequest_Fields, size |-> CpcQueryErc20CustomPrecompiledContractByDenomRequest_Size,
     marshal |-> CpcQueryErc20CustomPrecompiledContractByDenomRequest_Marshal, unmarshal |-> CpcQueryErc20CustomPrecompiledContractByDenomRequest_Unmarshal],
   CpcQueryErc20CustomPrecompiledContractByDenomResponse |-> [fields |-> CpcQueryErc20CustomPrecompiledContractByDenomResponse_Fields, size |-> CpcQueryErc20CustomPrecompiledContractByDenomResponse_Size,
     marshal |-> CpcQueryErc20CustomPrecompiledContractByDenomResponse_Marshal, unmarshal |-> CpcQueryErc20CustomPrecompiledContractByDenomResponse_Unmarshal],
   CpcQueryParamsRequest |-> [fields |-> CpcQueryParamsRequest_Fields, size |-> CpcQueryParamsRequest_Size,
     marshal |-> CpcQueryParamsRequest_Marshal, unmarshal |-> CpcQueryParamsRequest_Unmarshal],
   CpcQueryParamsResponse |-> [fields |-> CpcQueryParamsResponse_Fields, size |-> CpcQueryParamsResponse_Size,
     marshal |-> CpcQueryParamsResponse_Marshal, unmarshal |-> CpcQueryParamsResponse_Unmarshal],
   CpcMsgUpdateParams |-> [fields |-> CpcMsgUpdateParams_Fields, size |-> CpcMsgUpdateParams_Size,
     marshal |-> CpcMsgUpdateParams_Marshal, unmarshal |-> CpcMsgUpdateParams_Unmarshal],
   CpcMsgUpdateParamsResponse |-> [fields |-> CpcMsgUpdateParamsResponse_Fields, size |-> CpcMsgUpdateParamsResponse_Size,
     marshal |-> CpcMsgUpdateParamsResponse_Marshal, unmarshal |-> CpcMsgUpdateParamsResponse_Unmarshal],
   CpcMsgDeployErc20ContractRequest |-> [fields |-> CpcMsgDeployErc20ContractRequest_Fields, size |-> CpcMsgDeployErc20ContractRequest_Size,
     marshal |-> CpcMsgDeployErc20ContractRequest_Marshal, unmarshal |-> CpcMsgDeployErc20ContractRequest_Unmarshal],
   CpcMsgDeployErc20ContractResponse |-> [fields |-> CpcMsgDeployErc20ContractResponse_Fields, size |-> CpcMsgDeployErc20ContractResponse_Size,
     marshal |-> CpcMsgDeployErc20ContractResponse_Marshal, unmarshal |-> CpcMsgDeployErc20ContractResponse_Unmarshal],
   CpcMsgDeployStakingContractRequest |-> [fields |-> CpcMsgDeployStakingContractRequest_Fields, size |-> CpcMsgDeployStakingContractRequest_Size,
     marshal |-> CpcMsgDeployStakingContractRequest_Marshal, unmarshal |-> CpcMsgDeployStakingContractRequest_Unmarshal],
   CpcMsgDeployStakingContractResponse |-> [fields |-> CpcMsgDeployStakingContractResponse_Fields, size |-> CpcMsgDeployStakingContractResponse_Size,
     marshal |-> CpcMsgDeployStakingContractResponse_Marshal, unmarshal |-> CpcMsgDeployStakingContractResponse_Unmarshal],
   VAuthGenesisState |-> [fields |-> VAuthGenesisState_Fields, size |-> VAuthGenesisState_Size,
     marshal |-> VAuthGenesisState_Marshal, unmarshal |-> VAuthGenesisState_Unmarshal],
   VAuthQueryProofExternalOwnedAccountRequest |-> [fields |-> VAuthQueryProofExternalOwnedAccountRequest_Fields, size |-> VAuthQueryProofExternalOwnedAccountRequest_Size,
     marshal |-> VAuthQueryProofExternalOwnedAccountRequest_Marshal, unmarshal |-> VAuthQueryProofExternalOwnedAccountRequest_Unmarshal],
   VAuthQueryProofExternalOwnedAccountResponse |-> [fields |-> VAuthQueryProofExternalOwnedAccountResponse_Fields, size |-> VAuthQueryProofExternalOwnedAccountResponse_Size,
     marshal |-> VAuthQueryProofExternalOwnedAccountResponse_Marshal, unmarshal |-> VAuthQueryProofExternalOwnedAccountResponse_Unmarshal],
   VAuthMsgSubmitProofExternalOwnedAccount |-> [fields |-> VAuthMsgSubmitProofExternalOwnedAccount_Fields, size |-> VAuthMsgSubmitProofExternalOwnedAccount_Size,
     marshal |-> VAuthMsgSubmitProofExternalOwnedAccount_Marshal, unmarshal |-> VAuthMsgSubmitProofExternalOwnedAccount_Unmarshal],
   VAuthMsgSubmitProofExternalOwnedAccountResponse |-> [fields |-> VAuthMsgSubmitProofExternalOwnedAccountResponse_Fields, size |-> VAuthMsgSubmitProofExternalOwnedAccountResponse_Size,
     marshal |-> VAuthMsgSubmitProofExternalOwnedAccountResponse_Marshal, unmarshal |-> VAuthMsgSubmitProofExternalOwnedAccountResponse_Unmarshal],
   VAuthProofExternalOwnedAccount |-> [fields |-> VAuthProofExternalOwnedAccount_Fields, size |-> VAuthProofExternalOwnedAccount_Size,
     marshal |-> VAuthProofExternalOwnedAccount_Marshal, unmarshal |-> VAuthProofExternalOwnedAccount_Unmarshal],
   TypesExtensionOptionDynamicFeeTx |-> [fields |-> TypesExtensionOptionDynamicFeeTx_Fields, size |-> TypesExtensionOptionDynamicFeeTx_Size,
     marshal |-> TypesExtensionOptionDynamicFeeTx_Marshal, unmarshal |-> TypesExtensionOptionDynamicFeeTx_Unmarshal],
   TypesTxResult |-> [fields |-> TypesTxResult_Fields, size |-> TypesTxResult_Size,
     marshal |-> TypesTxResult_Marshal, unmarshal |-> TypesTxResult_Unmarshal],
   KeyPubKey |-> [fields |-> KeyPubKey_Fields, size |-> KeyPubKey_Size,
     marshal |-> KeyPubKey_Marshal, unmarshal |-> KeyPubKey_Unmarshal],
   KeyPrivKey |-> [fields |-> KeyPrivKey_Fields, size |-> KeyPrivKey_Size,
     marshal |-> KeyPrivKey_Marshal, unmarshal |-> KeyPrivKey_Unmarshal]]

=============================================================================
