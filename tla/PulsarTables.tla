---------------------------- MODULE PulsarTables ----------------------------
(*****************************************************************************)
(* The pulsar code (api/) of the messages outside x/evm, in the form of      *)
(* PulsarEvmTables, and the table of all of them.                            *)
(*****************************************************************************)
EXTENDS PulsarEvmTables

(*************** api/ethermint/feemarket/v1/events.pulsar.go ***************)

FeeMarketEventFeeMarket_Reflect == << <<"base_fee", "BaseFee", "str">> >>
FeeMarketEventFeeMarket_Size == << <<"BaseFee", "str", 1>> >>
FeeMarketEventFeeMarket_Marshal == << <<"BaseFee", "str", <<10>>>> >>
FeeMarketEventFeeMarket_Unmarshal == << <<1, 2, "BaseFee", "str">> >>

(************** api/ethermint/feemarket/v1/feemarket.pulsar.go **************)

FeeMarketParams_Reflect ==
  << <<"base_fee", "BaseFee", "str">>, <<"min_gas_price", "MinGasPrice", "str">> >>
FeeMarketParams_Size == << <<"BaseFee", "str", 1>>, <<"MinGasPrice", "str", 1>> >>
FeeMarketParams_Marshal == << <<"MinGasPrice", "str", <<18>>>>, <<"BaseFee", "str", <<10>>>> >>
FeeMarketParams_Unmarshal == << <<1, 2, "BaseFee", "str">>, <<2, 2, "MinGasPrice", "str">> >>

(*************** api/ethermint/feemarket/v1/genesis.pulsar.go ***************)

FeeMarketGenesisState_Reflect == << <<"params", "Params", "ptr">> >>
FeeMarketGenesisState_Size == << <<"Params", "ptr", 1>> >>
FeeMarketGenesisState_Marshal == << <<"Params", "ptr", <<10>>>> >>
FeeMarketGenesisState_Unmarshal == << <<1, 2, "Params", "ptr">> >>

(**************** api/ethermint/feemarket/v1/query.pulsar.go ****************)

FeeMarketQueryParamsRequest_Reflect == <<>>
FeeMarketQueryParamsRequest_Size == <<>>
FeeMarketQueryParamsRequest_Marshal == <<>>
FeeMarketQueryParamsRequest_Unmarshal == <<>>

FeeMarketQueryParamsResponse_Reflect == << <<"params", "Params", "ptr">> >>
FeeMarketQueryParamsResponse_Size == << <<"Params", "ptr", 1>> >>
FeeMarketQueryParamsResponse_Marshal == << <<"Params", "ptr", <<10>>>> >>
FeeMarketQueryParamsResponse_Unmarshal == << <<1, 2, "Params", "ptr">> >>

FeeMarketQueryBaseFeeRequest_Reflect == <<>>
FeeMarketQueryBaseFeeRequest_Size == <<>>
FeeMarketQueryBaseFeeRequest_Marshal == <<>>
FeeMarketQueryBaseFeeRequest_Unmarshal == <<>>

FeeMarketQueryBaseFeeResponse_Reflect == << <<"base_fee", "BaseFee", "str">> >>
FeeMarketQueryBaseFeeResponse_Size == << <<"BaseFee", "str", 1>> >>
FeeMarketQueryBaseFeeResponse_Marshal == << <<"BaseFee", "str", <<10>>>> >>
FeeMarketQueryBaseFeeResponse_Unmarshal == << <<1, 2, "BaseFee", "str">> >>

(***************** api/ethermint/feemarket/v1/tx.pulsar.go *****************)

FeeMarketMsgUpdateParams_Reflect ==
  << <<"authority", "Authority", "str">>, <<"params", "Params", "ptr">> >>
FeeMarketMsgUpdateParams_Size == << <<"Authority", "str", 1>>, <<"Params", "ptr", 1>> >>
FeeMarketMsgUpdateParams_Marshal ==
  << <<"Params", "ptr", <<18>>>>, <<"Authority", "str", <<10>>>> >>
FeeMarketMsgUpdateParams_Unmarshal ==
  << <<1, 2, "Authority", "str">>, <<2, 2, "Params", "ptr">> >>

FeeMarketMsgUpdateParamsResponse_Reflect == <<>>
FeeMarketMsgUpdateParamsResponse_Size == <<>>
FeeMarketMsgUpdateParamsResponse_Marshal == <<>>
FeeMarketMsgUpdateParamsResponse_Unmarshal == <<>>

(****************** api/evermint/cpc/v1/genesis.pulsar.go ******************)

CpcGenesisState_Reflect ==
  << <<"params", "Params", "ptr">>, <<"deploy_erc20_native", "DeployErc20Native", "bool">>,
     <<"deploy_staking_contract", "DeployStakingContract", "bool">> >>
CpcGenesisState_Size ==
  << <<"Params", "ptr", 1>>, <<"DeployErc20Native", "bool", 1>>,
     <<"DeployStakingContract", "bool", 1>> >>
CpcGenesisState_Marshal ==
  << <<"DeployStakingContract", "bool", <<24>>>>, <<"DeployErc20Native", "bool", <<16>>>>,
     <<"Params", "ptr", <<10>>>> >>
CpcGenesisState_Unmarshal ==
  << <<1, 2, "Params", "ptr">>, <<2, 0, "DeployErc20Native", "bool">>,
     <<3, 0, "DeployStakingContract", "bool">> >>

CpcParams_Reflect ==
  << <<"protocol_version", "ProtocolVersion", "num">>,
     <<"whitelisted_deployers", "WhitelistedDeployers", "rep">> >>
CpcParams_Size == << <<"ProtocolVersion", "num", 1>>, <<"WhitelistedDeployers", "rep", 1>> >>
CpcParams_Marshal ==
  << <<"WhitelistedDeployers", "rep", <<18>>>>, <<"ProtocolVersion", "num", <<8>>>> >>
CpcParams_Unmarshal ==
  << <<1, 0, "ProtocolVersion", "num">>, <<2, 2, "WhitelistedDeployers", "rep">> >>

(**************** api/evermint/cpc/v1/precompiles.pulsar.go ****************)

CpcCustomPrecompiledContractMeta_Reflect ==
  << <<"address", "Address", "str">>,
     <<"custom_precompiled_type", "CustomPrecompiledType", "num">>, <<"name", "Name", "str">>,
     <<"typed_meta", "TypedMeta", "str">>, <<"disabled", "Disabled", "bool">> >>
CpcCustomPrecompiledContractMeta_Size ==
  << <<"Address", "str", 1>>, <<"CustomPrecompiledType", "num", 1>>, <<"Name", "str", 1>>,
     <<"TypedMeta", "str", 1>>, <<"Disabled", "bool", 1>> >>
CpcCustomPrecompiledContractMeta_Marshal ==
  << <<"Disabled", "bool", <<40>>>>, <<"TypedMeta", "str", <<34>>>>,
     <<"Name", "str", <<26>>>>, <<"CustomPrecompiledType", "num", <<16>>>>,
     <<"Address", "str", <<10>>>> >>
CpcCustomPrecompiledContractMeta_Unmarshal ==
  << <<1, 2, "Address", "str">>, <<2, 0, "CustomPrecompiledType", "num">>,
     <<3, 2, "Name", "str">>, <<4, 2, "TypedMeta", "str">>, <<5, 0, "Disabled", "bool">> >>

(******************* api/evermint/cpc/v1/query.pulsar.go *******************)

CpcQueryCustomPrecompiledContractsRequest_Reflect == << <<"pagination", "Pagination", "ptr">> >>
CpcQueryCustomPrecompiledContractsRequest_Size == << <<"Pagination", "ptr", 1>> >>
CpcQueryCustomPrecompiledContractsRequest_Marshal == << <<"Pagination", "ptr", <<10>>>> >>
CpcQueryCustomPrecompiledContractsRequest_Unmarshal == << <<1, 2, "Pagination", "ptr">> >>

CpcWrappedCustomPrecompiledContractMeta_Reflect ==
  << <<"address", "Address", "str">>, <<"type_name", "TypeName", "str">>,
     <<"meta", "Meta", "ptr">> >>
CpcWrappedCustomPrecompiledContractMeta_Size ==
  << <<"Address", "str", 1>>, <<"TypeName", "str", 1>>, <<"Meta", "ptr", 1>> >>
CpcWrappedCustomPrecompiledContractMeta_Marshal ==
  << <<"Meta", "ptr", <<26>>>>, <<"TypeName", "str", <<18>>>>, <<"Address", "str", <<10>>>> >>
CpcWrappedCustomPrecompiledContractMeta_Unmarshal ==
  << <<1, 2, "Address", "str">>, <<2, 2, "TypeName", "str">>, <<3, 2, "Meta", "ptr">> >>

CpcQueryCustomPrecompiledContractsResponse_Reflect ==
  << <<"contracts", "Contracts", "rep">>, <<"pagination", "Pagination", "ptr">> >>
CpcQueryCustomPrecompiledContractsResponse_Size ==
  << <<"Contracts", "rep", 1>>, <<"Pagination", "ptr", 1>> >>
CpcQueryCustomPrecompiledContractsResponse_Marshal ==
  << <<"Pagination", "ptr", <<18>>>>, <<"Contracts", "rep", <<10>>>> >>
CpcQueryCustomPrecompiledContractsResponse_Unmarshal ==
  << <<1, 2, "Contracts", "rep">>, <<2, 2, "Pagination", "ptr">> >>

CpcQueryCustomPrecompiledContractRequest_Reflect == << <<"address", "Address", "str">> >>
CpcQueryCustomPrecompiledContractRequest_Size == << <<"Address", "str", 1>> >>
CpcQueryCustomPrecompiledContractRequest_Marshal == << <<"Address", "str", <<10>>>> >>
CpcQueryCustomPrecompiledContractRequest_Unmarshal == << <<1, 2, "Address", "str">> >>

CpcQueryCustomPrecompiledContractResponse_Reflect == << <<"contract", "Contract", "ptr">> >>
CpcQueryCustomPrecompiledContractResponse_Size == << <<"Contract", "ptr", 1>> >>
CpcQueryCustomPrecompiledContractResponse_Marshal == << <<"Contract", "ptr", <<10>>>> >>
CpcQueryCustomPrecompiledContractResponse_Unmarshal == << <<1, 2, "Contract", "ptr">> >>

CpcQueryErc20CustomPrecompiledContractByDenomRequest_Reflect ==
  << <<"min_denom", "MinDenom", "str">> >>
CpcQueryErc20CustomPrecompiledContractByDenomRequest_Size == << <<"MinDenom", "str", 1>> >>
CpcQueryErc20CustomPrecompiledContractByDenomRequest_Marshal ==
  << <<"MinDenom", "str", <<10>>>> >>
CpcQueryErc20CustomPrecompiledContractByDenomRequest_Unmarshal ==
  << <<1, 2, "MinDenom", "str">> >>

CpcQueryErc20CustomPrecompiledContractByDenomResponse_Reflect ==
  << <<"contract", "Contract", "ptr">> >>
CpcQueryErc20CustomPrecompiledContractByDenomResponse_Size == << <<"Contract", "ptr", 1>> >>
CpcQueryErc20CustomPrecompiledContractByDenomResponse_Marshal ==
  << <<"Contract", "ptr", <<10>>>> >>
CpcQueryErc20CustomPrecompiledContractByDenomResponse_Unmarshal ==
  << <<1, 2, "Contract", "ptr">> >>

CpcQueryParamsRequest_Reflect == <<>>
CpcQueryParamsRequest_Size == <<>>
CpcQueryParamsRequest_Marshal == <<>>
CpcQueryParamsRequest_Unmarshal == <<>>

CpcQueryParamsResponse_Reflect == << <<"params", "Params", "ptr">> >>
CpcQueryParamsResponse_Size == << <<"Params", "ptr", 1>> >>
CpcQueryParamsResponse_Marshal == << <<"Params", "ptr", <<10>>>> >>
CpcQueryParamsResponse_Unmarshal == << <<1, 2, "Params", "ptr">> >>

(********************* api/evermint/cpc/v1/tx.pulsar.go *********************)

CpcMsgUpdateParams_Reflect ==
  << <<"authority", "Authority", "str">>, <<"new_params", "NewParams", "ptr">> >>
CpcMsgUpdateParams_Size == << <<"Authority", "str", 1>>, <<"NewParams", "ptr", 1>> >>
CpcMsgUpdateParams_Marshal ==
  << <<"NewParams", "ptr", <<18>>>>, <<"Authority", "str", <<10>>>> >>
CpcMsgUpdateParams_Unmarshal == << <<1, 2, "Authority", "str">>, <<2, 2, "NewParams", "ptr">> >>

CpcMsgUpdateParamsResponse_Reflect == <<>>
CpcMsgUpdateParamsResponse_Size == <<>>
CpcMsgUpdateParamsResponse_Marshal == <<>>
CpcMsgUpdateParamsResponse_Unmarshal == <<>>

CpcMsgDeployErc20ContractRequest_Reflect ==
  << <<"authority", "Authority", "str">>, <<"name", "Name", "str">>,
     <<"symbol", "Symbol", "str">>, <<"decimals", "Decimals", "num">>,
     <<"min_denom", "MinDenom", "str">> >>
CpcMsgDeployErc20ContractRequest_Size ==
  << <<"Authority", "str", 1>>, <<"Name", "str", 1>>, <<"Symbol", "str", 1>>,
     <<"Decimals", "num", 1>>, <<"MinDenom", "str", 1>> >>
CpcMsgDeployErc20ContractRequest_Marshal ==
  << <<"MinDenom", "str", <<42>>>>, <<"Decimals", "num", <<32>>>>,
     <<"Symbol", "str", <<26>>>>, <<"Name", "str", <<18>>>>, <<"Authority", "str", <<10>>>> >>
CpcMsgDeployErc20ContractRequest_Unmarshal ==
  << <<1, 2, "Authority", "str">>, <<2, 2, "Name", "str">>, <<3, 2, "Symbol", "str">>,
     <<4, 0, "Decimals", "num">>, <<5, 2, "MinDenom", "str">> >>

CpcMsgDeployErc20ContractResponse_Reflect ==
  << <<"contract_address", "ContractAddress", "str">> >>
CpcMsgDeployErc20ContractResponse_Size == << <<"ContractAddress", "str", 1>> >>
CpcMsgDeployErc20ContractResponse_Marshal == << <<"ContractAddress", "str", <<10>>>> >>
CpcMsgDeployErc20ContractResponse_Unmarshal == << <<1, 2, "ContractAddress", "str">> >>

CpcMsgDeployStakingContractRequest_Reflect ==
  << <<"authority", "Authority", "str">>, <<"symbol", "Symbol", "str">>,
     <<"decimals", "Decimals", "num">> >>
CpcMsgDeployStakingContractRequest_Size ==
  << <<"Authority", "str", 1>>, <<"Symbol", "str", 1>>, <<"Decimals", "num", 1>> >>
CpcMsgDeployStakingContractRequest_Marshal ==
  << <<"Decimals", "num", <<24>>>>, <<"Symbol", "str", <<18>>>>,
     <<"Authority", "str", <<10>>>> >>
CpcMsgDeployStakingContractRequest_Unmarshal ==
  << <<1, 2, "Authority", "str">>, <<2, 2, "Symbol", "str">>, <<3, 0, "Decimals", "num">> >>

CpcMsgDeployStakingContractResponse_Reflect ==
  << <<"contract_address", "ContractAddress", "str">> >>
CpcMsgDeployStakingContractResponse_Size == << <<"ContractAddress", "str", 1>> >>
CpcMsgDeployStakingContractResponse_Marshal == << <<"ContractAddress", "str", <<10>>>> >>
CpcMsgDeployStakingContractResponse_Unmarshal == << <<1, 2, "ContractAddress", "str">> >>

(***************** api/evermint/vauth/v1/genesis.pulsar.go *****************)

VAuthGenesisState_Reflect == <<>>
VAuthGenesisState_Size == <<>>
VAuthGenesisState_Marshal == <<>>
VAuthGenesisState_Unmarshal == <<>>

(****************** api/evermint/vauth/v1/query.pulsar.go ******************)

VAuthQueryProofExternalOwnedAccountRequest_Reflect == << <<"account", "Account", "str">> >>
VAuthQueryProofExternalOwnedAccountRequest_Size == << <<"Account", "str", 1>> >>
VAuthQueryProofExternalOwnedAccountRequest_Marshal == << <<"Account", "str", <<10>>>> >>
VAuthQueryProofExternalOwnedAccountRequest_Unmarshal == << <<1, 2, "Account", "str">> >>

VAuthQueryProofExternalOwnedAccountResponse_Reflect == << <<"proof", "Proof", "ptr">> >>
VAuthQueryProofExternalOwnedAccountResponse_Size == << <<"Proof", "ptr", 1>> >>
VAuthQueryProofExternalOwnedAccountResponse_Marshal == << <<"Proof", "ptr", <<10>>>> >>
VAuthQueryProofExternalOwnedAccountResponse_Unmarshal == << <<1, 2, "Proof", "ptr">> >>

(******************** api/evermint/vauth/v1/tx.pulsar.go ********************)

VAuthMsgSubmitProofExternalOwnedAccount_Reflect ==
  << <<"submitter", "Submitter", "str">>, <<"account", "Account", "str">>,
     <<"signature", "Signature", "str">> >>
VAuthMsgSubmitProofExternalOwnedAccount_Size ==
  << <<"Submitter", "str", 1>>, <<"Account", "str", 1>>, <<"Signature", "str", 1>> >>
VAuthMsgSubmitProofExternalOwnedAccount_Marshal ==
  << <<"Signature", "str", <<26>>>>, <<"Account", "str", <<18>>>>,
     <<"Submitter", "str", <<10>>>> >>
VAuthMsgSubmitProofExternalOwnedAccount_Unmarshal ==
  << <<1, 2, "Submitter", "str">>, <<2, 2, "Account", "str">>, <<3, 2, "Signature", "str">> >>

VAuthMsgSubmitProofExternalOwnedAccountResponse_Reflect == <<>>
VAuthMsgSubmitProofExternalOwnedAccountResponse_Size == <<>>
VAuthMsgSubmitProofExternalOwnedAccountResponse_Marshal == <<>>
VAuthMsgSubmitProofExternalOwnedAccountResponse_Unmarshal == <<>>

(****************** api/evermint/vauth/v1/vauth.pulsar.go ******************)

VAuthProofExternalOwnedAccount_Reflect ==
  << <<"account", "Account", "str">>, <<"hash", "Hash", "str">>,
     <<"signature", "Signature", "str">> >>
VAuthProofExternalOwnedAccount_Size ==
  << <<"Account", "str", 1>>, <<"Hash", "str", 1>>, <<"Signature", "str", 1>> >>
VAuthProofExternalOwnedAccount_Marshal ==
  << <<"Signature", "str", <<26>>>>, <<"Hash", "str", <<18>>>>, <<"Account", "str", <<10>>>> >>
VAuthProofExternalOwnedAccount_Unmarshal ==
  << <<1, 2, "Account", "str">>, <<2, 2, "Hash", "str">>, <<3, 2, "Signature", "str">> >>

(*************** api/ethermint/types/v1/dynamic_fee.pulsar.go ***************)

TypesExtensionOptionDynamicFeeTx_Reflect ==
  << <<"max_priority_price", "MaxPriorityPrice", "str">> >>
TypesExtensionOptionDynamicFeeTx_Size == << <<"MaxPriorityPrice", "str", 1>> >>
TypesExtensionOptionDynamicFeeTx_Marshal == << <<"MaxPriorityPrice", "str", <<10>>>> >>
TypesExtensionOptionDynamicFeeTx_Unmarshal == << <<1, 2, "MaxPriorityPrice", "str">> >>

(***************** api/ethermint/types/v1/indexer.pulsar.go *****************)

TypesTxResult_Reflect ==
  << <<"height", "Height", "num">>, <<"tx_index", "TxIndex", "num">>,
     <<"eth_tx_index", "EthTxIndex", "num">>, <<"failed", "Failed", "bool">> >>
TypesTxResult_Size ==
  << <<"Height", "num", 1>>, <<"TxIndex", "num", 1>>, <<"EthTxIndex", "num", 1>>,
     <<"Failed", "bool", 1>> >>
TypesTxResult_Marshal ==
  << <<"Failed", "bool", <<32>>>>, <<"EthTxIndex", "num", <<24>>>>,
     <<"TxIndex", "num", <<16>>>>, <<"Height", "num", <<8>>>> >>
TypesTxResult_Unmarshal ==
  << <<1, 0, "Height", "num">>, <<2, 0, "TxIndex", "num">>, <<3, 0, "EthTxIndex", "num">>,
     <<4, 0, "Failed", "bool">> >>

(*********** api/ethermint/crypto/v1/ethsecp256k1/keys.pulsar.go ***********)

KeyPubKey_Reflect == << <<"key", "Key", "str">> >>
KeyPubKey_Size == << <<"Key", "str", 1>> >>
KeyPubKey_Marshal == << <<"Key", "str", <<10>>>> >>
KeyPubKey_Unmarshal == << <<1, 2, "Key", "str">> >>

KeyPrivKey_Reflect == << <<"key", "Key", "str">> >>
KeyPrivKey_Size == << <<"Key", "str", 1>> >>
KeyPrivKey_Marshal == << <<"Key", "str", <<10>>>> >>
KeyPrivKey_Unmarshal == << <<1, 2, "Key", "str">> >>

(* The generated methods of every message, by message. *)
Pulsar ==
  [EvmParams |-> [reflect |-> EvmParams_Reflect, size |-> EvmParams_Size,
     marshal |-> EvmParams_Marshal, unmarshal |-> EvmParams_Unmarshal],
   EvmChainConfig |-> [reflect |-> EvmChainConfig_Reflect, size |-> EvmChainConfig_Size,
     marshal |-> EvmChainConfig_Marshal, unmarshal |-> EvmChainConfig_Unmarshal],
   EvmState |-> [reflect |-> EvmState_Reflect, size |-> EvmState_Size,
     marshal |-> EvmState_Marshal, unmarshal |-> EvmState_Unmarshal],
   EvmAccessTuple |-> [reflect |-> EvmAccessTuple_Reflect, size |-> EvmAccessTuple_Size,
     marshal |-> EvmAccessTuple_Marshal, unmarshal |-> EvmAccessTuple_Unmarshal],
   EvmTraceConfig |-> [reflect |-> EvmTraceConfig_Reflect, size |-> EvmTraceConfig_Size,
     marshal |-> EvmTraceConfig_Marshal, unmarshal |-> EvmTraceConfig_Unmarshal],
   EvmGenesisState |-> [reflect |-> EvmGenesisState_Reflect, size |-> EvmGenesisState_Size,
     marshal |-> EvmGenesisState_Marshal, unmarshal |-> EvmGenesisState_Unmarshal],
   EvmGenesisAccount |-> [reflect |-> EvmGenesisAccount_Reflect, size |-> EvmGenesisAccount_Size,
     marshal |-> EvmGenesisAccount_Marshal, unmarshal |-> EvmGenesisAccount_Unmarshal],
   EvmQueryAccountRequest |-> [reflect |-> EvmQueryAccountRequest_Reflect, size |-> EvmQueryAccountRequest_Size,
     marshal |-> EvmQueryAccountRequest_Marshal, unmarshal |-> EvmQueryAccountRequest_Unmarshal],
   EvmQueryAccountResponse |-> [reflect |-> EvmQueryAccountResponse_Reflect, size |-> EvmQueryAccountResponse_Size,
     marshal |-> EvmQueryAccountResponse_Marshal, unmarshal |-> EvmQueryAccountResponse_Unmarshal],
   EvmQueryCosmosAccountRequest |-> [reflect |-> EvmQueryCosmosAccountRequest_Reflect, size |-> EvmQueryCosmosAccountRequest_Size,
     marshal |-> EvmQueryCosmosAccountRequest_Marshal, unmarshal |-> EvmQueryCosmosAccountRequest_Unmarshal],
   EvmQueryCosmosAccountResponse |-> [reflect |-> EvmQueryCosmosAccountResponse_Reflect, size |-> EvmQueryCosmosAccountResponse_Size,
     marshal |-> EvmQueryCosmosAccountResponse_Marshal, unmarshal |-> EvmQueryCosmosAccountResponse_Unmarshal],
   EvmQueryValidatorAccountRequest |-> [reflect |-> EvmQueryValidatorAccountRequest_Reflect, size |-> EvmQueryValidatorAccountRequest_Size,
     marshal |-> EvmQueryValidatorAccountRequest_Marshal, unmarshal |-> EvmQueryValidatorAccountRequest_Unmarshal],
   EvmQueryValidatorAccountResponse |-> [reflect |-> EvmQueryValidatorAccountResponse_Reflect, size |-> EvmQueryValidatorAccountResponse_Size,
     marshal |-> EvmQueryValidatorAccountResponse_Marshal, unmarshal |-> EvmQueryValidatorAccountResponse_Unmarshal],
   EvmQueryBalanceRequest |-> [reflect |-> EvmQueryBalanceRequest_Reflect, size |-> EvmQueryBalanceRequest_Size,
     marshal |-> EvmQueryBalanceRequest_Marshal, unmarshal |-> EvmQueryBalanceRequest_Unmarshal],
   EvmQueryBalanceResponse |-> [reflect |-> EvmQueryBalanceResponse_Reflect, size |-> EvmQueryBalanceResponse_Size,
     marshal |-> EvmQueryBalanceResponse_Marshal, unmarshal |-> EvmQueryBalanceResponse_Unmarshal],
   EvmQueryStorageRequest |-> [reflect |-> EvmQueryStorageRequest_Reflect, size |-> EvmQueryStorageRequest_Size,
     marshal |-> EvmQueryStorageRequest_Marshal, unmarshal |-> EvmQueryStorageRequest_Unmarshal],
   EvmQueryStorageResponse |-> [reflect |-> EvmQueryStorageResponse_Reflect, size |-> EvmQueryStorageResponse_Size,
     marshal |-> EvmQueryStorageResponse_Marshal, unmarshal |-> EvmQueryStorageResponse_Unmarshal],
   EvmQueryCodeRequest |-> [reflect |-> EvmQueryCodeRequest_Reflect, size |-> EvmQueryCodeRequest_Size,
     marshal |-> EvmQueryCodeRequest_Marshal, unmarshal |-> EvmQueryCodeRequest_Unmarshal],
   EvmQueryCodeResponse |-> [reflect |-> EvmQueryCodeResponse_Reflect, size |-> EvmQueryCodeResponse_Size,
     marshal |-> EvmQueryCodeResponse_Marshal, unmarshal |-> EvmQueryCodeResponse_Unmarshal],
   EvmQueryParamsRequest |-> [reflect |-> EvmQueryParamsRequest_Reflect, size |-> EvmQueryParamsRequest_Size,
     marshal |-> EvmQueryParamsRequest_Marshal, unmarshal |-> EvmQueryParamsRequest_Unmarshal],
   EvmQueryParamsResponse |-> [reflect |-> EvmQueryParamsResponse_Reflect, size |-> EvmQueryParamsResponse_Size,
     marshal |-> EvmQueryParamsResponse_Marshal, unmarshal |-> EvmQueryParamsResponse_Unmarshal],
   EvmEthCallRequest |-> [reflect |-> EvmEthCallRequest_Reflect, size |-> EvmEthCallRequest_Size,
     marshal |-> EvmEthCallRequest_Marshal, unmarshal |-> EvmEthCallRequest_Unmarshal],
   EvmEstimateGasResponse |-> [reflect |-> EvmEstimateGasResponse_Reflect, size |-> EvmEstimateGasResponse_Size,
     marshal |-> EvmEstimateGasResponse_Marshal, unmarshal |-> EvmEstimateGasResponse_Unmarshal],
   EvmQueryTraceTxRequest |-> [reflect |-> EvmQueryTraceTxRequest_Reflect, size |-> EvmQueryTraceTxRequest_Size,
     marshal |-> EvmQueryTraceTxRequest_Marshal, unmarshal |-> EvmQueryTraceTxRequest_Unmarshal],
   EvmQueryTraceTxResponse |-> [reflect |-> EvmQueryTraceTxResponse_Reflect, size |-> EvmQueryTraceTxResponse_Size,
     marshal |-> EvmQueryTraceTxResponse_Marshal, unmarshal |-> EvmQueryTraceTxResponse_Unmarshal],
   EvmQueryTraceBlockRequest |-> [reflect |-> EvmQueryTraceBlockRequest_Reflect, size |-> EvmQueryTraceBlockRequest_Size,
     marshal |-> EvmQueryTraceBlockRequest_Marshal, unmarshal |-> EvmQueryTraceBlockRequest_Unmarshal],
   EvmQueryTraceBlockResponse |-> [reflect |-> EvmQueryTraceBlockResponse_Reflect, size |-> EvmQueryTraceBlockResponse_Size,
     marshal |-> EvmQueryTraceBlockResponse_Marshal, unmarshal |-> EvmQueryTraceBlockResponse_Unmarshal],
   EvmQueryBaseFeeRequest |-> [reflect |-> EvmQueryBaseFeeRequest_Reflect, size |-> EvmQueryBaseFeeRequest_Size,
     marshal |-> EvmQueryBaseFeeRequest_Marshal, unmarshal |-> EvmQueryBaseFeeRequest_Unmarshal],
   EvmQueryBaseFeeResponse |-> [reflect |-> EvmQueryBaseFeeResponse_Reflect, size |-> EvmQueryBaseFeeResponse_Size,
     marshal |-> EvmQueryBaseFeeResponse_Marshal, unmarshal |-> EvmQueryBaseFeeResponse_Unmarshal],
   EvmMsgEthereumTx |-> [reflect |-> EvmMsgEthereumTx_Reflect, size |-> EvmMsgEthereumTx_Size,
     marshal |-> EvmMsgEthereumTx_Marshal, unmarshal |-> EvmMsgEthereumTx_Unmarshal],
   EvmExtensionOptionsEthereumTx |-> [reflect |-> EvmExtensionOptionsEthereumTx_Reflect, size |-> EvmExtensionOptionsEthereumTx_Size,
     marshal |-> EvmExtensionOptionsEthereumTx_Marshal, unmarshal |-> EvmExtensionOptionsEthereumTx_Unmarshal],
   EvmMsgEthereumTxResponse |-> [reflect |-> EvmMsgEthereumTxResponse_Reflect, size |-> EvmMsgEthereumTxResponse_Size,
     marshal |-> EvmMsgEthereumTxResponse_Marshal, unmarshal |-> EvmMsgEthereumTxResponse_Unmarshal],
   EvmMsgUpdateParams |-> [reflect |-> EvmMsgUpdateParams_Reflect, size |-> EvmMsgUpdateParams_Size,
     marshal |-> EvmMsgUpdateParams_Marshal, unmarshal |-> EvmMsgUpdateParams_Unmarshal],
   EvmMsgUpdateParamsResponse |-> [reflect |-> EvmMsgUpdateParamsResponse_Reflect, size |-> EvmMsgUpdateParamsResponse_Size,
     marshal |-> EvmMsgUpdateParamsResponse_Marshal, unmarshal |-> EvmMsgUpdateParamsResponse_Unmarshal],
   FeeMarketEventFeeMarket |-> [reflect |-> FeeMarketEventFeeMarket_Reflect, size |-> FeeMarketEventFeeMarket_Size,
     marshal |-> FeeMarketEventFeeMarket_Marshal, unmarshal |-> FeeMarketEventFeeMarket_Unmarshal],
   FeeMarketParams |-> [reflect |-> FeeMarketParams_Reflect, size |-> FeeMarketParams_Size,
     marshal |-> FeeMarketParams_Marshal, unmarshal |-> FeeMarketParams_Unmarshal],
   FeeMarketGenesisState |-> [reflect |-> FeeMarketGenesisState_Reflect, size |-> FeeMarketGenesisState_Size,
     marshal |-> FeeMarketGenesisState_Marshal, unmarshal |-> FeeMarketGenesisState_Unmarshal],
   FeeMarketQueryParamsRequest |-> [reflect |-> FeeMarketQueryParamsRequest_Reflect, size |-> FeeMarketQueryParamsRequest_Size,
     marshal |-> FeeMarketQueryParamsRequest_Marshal, unmarshal |-> FeeMarketQueryParamsRequest_Unmarshal],
   FeeMarketQueryParamsResponse |-> [reflect |-> FeeMarketQueryParamsResponse_Reflect, size |-> FeeMarketQueryParamsResponse_Size,
     marshal |-> FeeMarketQueryParamsResponse_Marshal, unmarshal |-> FeeMarketQueryParamsResponse_Unmarshal],
   FeeMarketQueryBaseFeeRequest |-> [reflect |-> FeeMarketQueryBaseFeeRequest_Reflect, size |-> FeeMarketQueryBaseFeeRequest_Size,
     marshal |-> FeeMarketQueryBaseFeeRequest_Marshal, unmarshal |-> FeeMarketQueryBaseFeeRequest_Unmarshal],
   FeeMarketQueryBaseFeeResponse |-> [reflect |-> FeeMarketQueryBaseFeeResponse_Reflect, size |-> FeeMarketQueryBaseFeeResponse_Size,
     marshal |-> FeeMarketQueryBaseFeeResponse_Marshal, unmarshal |-> FeeMarketQueryBaseFeeResponse_Unmarshal],
   FeeMarketMsgUpdateParams |-> [reflect |-> FeeMarketMsgUpdateParams_Reflect, size |-> FeeMarketMsgUpdateParams_Size,
     marshal |-> FeeMarketMsgUpdateParams_Marshal, unmarshal |-> FeeMarketMsgUpdateParams_Unmarshal],
   FeeMarketMsgUpdateParamsResponse |-> [reflect |-> FeeMarketMsgUpdateParamsResponse_Reflect, size |-> FeeMarketMsgUpdateParamsResponse_Size,
     marshal |-> FeeMarketMsgUpdateParamsResponse_Marshal, unmarshal |-> FeeMarketMsgUpdateParamsResponse_Unmarshal],
   CpcGenesisState |-> [reflect |-> CpcGenesisState_Reflect, size |-> CpcGenesisState_Size,
     marshal |-> CpcGenesisState_Marshal, unmarshal |-> CpcGenesisState_Unmarshal],
   CpcParams |-> [reflect |-> CpcParams_Reflect, size |-> CpcParams_Size,
     marshal |-> CpcParams_Marshal, unmarshal |-> CpcParams_Unmarshal],
   CpcCustomPrecompiledContractMeta |-> [reflect |-> CpcCustomPrecompiledContractMeta_Reflect, size |-> CpcCustomPrecompiledContractMeta_Size,
     marshal |-> CpcCustomPrecompiledContractMeta_Marshal, unmarshal |-> CpcCustomPrecompiledContractMeta_Unmarshal],
   CpcQueryCustomPrecompiledContractsRequest |-> [reflect |-> CpcQueryCustomPrecompiledContractsRequest_Reflect, size |-> CpcQueryCustomPrecompiledContractsRequest_Size,
     marshal |-> CpcQueryCustomPrecompiledContractsRequest_Marshal, unmarshal |-> CpcQueryCustomPrecompiledContractsRequest_Unmarshal],
   CpcWrappedCustomPrecompiledContractMeta |-> [reflect |-> CpcWrappedCustomPrecompiledContractMeta_Reflect, size |-> CpcWrappedCustomPrecompiledContractMeta_Size,
     marshal |-> CpcWrappedCustomPrecompiledContractMeta_Marshal, unmarshal |-> CpcWrappedCustomPrecompiledContractMeta_Unmarshal],
   CpcQueryCustomPrecompiledContractsResponse |-> [reflect |-> CpcQueryCustomPrecompiledContractsResponse_Reflect, size |-> CpcQueryCustomPrecompiledContractsResponse_Size,
     marshal |-> CpcQueryCustomPrecompiledContractsResponse_Marshal, unmarshal |-> CpcQueryCustomPrecompiledContractsResponse_Unmarshal],
   CpcQueryCustomPrecompiledContractRequest |-> [reflect |-> CpcQueryCustomPrecompiledContractRequest_Reflect, size |-> CpcQueryCustomPrecompiledContractRequest_Size,
     marshal |-> CpcQueryCustomPrecompiledContractRequest_Marshal, unmarshal |-> CpcQueryCustomPrecompiledContractRequest_Unmarshal],
   CpcQueryCustomPrecompiledContractResponse |-> [reflect |-> CpcQueryCustomPrecompiledContractResponse_Reflect, size |-> CpcQueryCustomPrecompiledContractResponse_Size,
     marshal |-> CpcQueryCustomPrecompiledContractResponse_Marshal, unmarshal |-> CpcQueryCustomPrecompiledContractResponse_Unmarshal],
   CpcQueryErc20CustomPrecompiledContractByDenomRequest |-> [reflect |-> CpcQueryErc20CustomPrecompiledContractByDenomRequest_Reflect, size |-> CpcQueryErc20CustomPrecompiledContractByDenomRequest_Size,
     marshal |-> CpcQueryErc20CustomPrecompiledContractByDenomRequest_Marshal, unmarshal |-> CpcQueryErc20CustomPrecompiledContractByDenomRequest_Unmarshal],
   CpcQueryErc20CustomPrecompiledContractByDenomResponse |-> [reflect |-> CpcQueryErc20CustomPrecompiledContractByDenomResponse_Reflect, size |-> CpcQueryErc20CustomPrecompiledContractByDenomResponse_Size,
     marshal |-> CpcQueryErc20CustomPrecompiledContractByDenomResponse_Marshal, unmarshal |-> CpcQueryErc20CustomPrecompiledContractByDenomResponse_Unmarshal],
   CpcQueryParamsRequest |-> [reflect |-> CpcQueryParamsRequest_Reflect, size |-> CpcQueryParamsRequest_Size,
     marshal |-> CpcQueryParamsRequest_Marshal, unmarshal |-> CpcQueryParamsRequest_Unmarshal],
   CpcQueryParamsResponse |-> [reflect |-> CpcQueryParamsResponse_Reflect, size |-> CpcQueryParamsResponse_Size,
     marshal |-> CpcQueryParamsResponse_Marshal, unmarshal |-> CpcQueryParamsResponse_Unmarshal],
   CpcMsgUpdateParams |-> [reflect |-> CpcMsgUpdateParams_Reflect, size |-> CpcMsgUpdateParams_Size,
     marshal |-> CpcMsgUpdateParams_Marshal, unmarshal |-> CpcMsgUpdateParams_Unmarshal],
   CpcMsgUpdateParamsResponse |-> [reflect |-> CpcMsgUpdateParamsResponse_Reflect, size |-> CpcMsgUpdateParamsResponse_Size,
     marshal |-> CpcMsgUpdateParamsResponse_Marshal, unmarshal |-> CpcMsgUpdateParamsResponse_Unmarshal],
   CpcMsgDeployErc20ContractRequest |-> [reflect |-> CpcMsgDeployErc20ContractRequest_Reflect, size |-> CpcMsgDeployErc20ContractRequest_Size,
     marshal |-> CpcMsgDeployErc20ContractRequest_Marshal, unmarshal |-> CpcMsgDeployErc20ContractRequest_Unmarshal],
   CpcMsgDeployErc20ContractResponse |-> [reflect |-> CpcMsgDeployErc20ContractResponse_Reflect, size |-> CpcMsgDeployErc20ContractResponse_Size,
     marshal |-> CpcMsgDeployErc20ContractResponse_Marshal, unmarshal |-> CpcMsgDeployErc20ContractResponse_Unmarshal],
   CpcMsgDeployStakingContractRequest |-> [reflect |-> CpcMsgDeployStakingContractRequest_Reflect, size |-> CpcMsgDeployStakingContractRequest_Size,
     marshal |-> CpcMsgDeployStakingContractRequest_Marshal, unmarshal |-> CpcMsgDeployStakingContractRequest_Unmarshal],
   CpcMsgDeployStakingContractResponse |-> [reflect |-> CpcMsgDeployStakingContractResponse_Reflect, size |-> CpcMsgDeployStakingContractResponse_Size,
     marshal |-> CpcMsgDeployStakingContractResponse_Marshal, unmarshal |-> CpcMsgDeployStakingContractResponse_Unmarshal],
   VAuthGenesisState |-> [reflect |-> VAuthGenesisState_Reflect, size |-> VAuthGenesisState_Size,
     marshal |-> VAuthGenesisState_Marshal, unmarshal |-> VAuthGenesisState_Unmarshal],
   VAuthQueryProofExternalOwnedAccountRequest |-> [reflect |-> VAuthQueryProofExternalOwnedAccountRequest_Reflect, size |-> VAuthQueryProofExternalOwnedAccountRequest_Size,
     marshal |-> VAuthQueryProofExternalOwnedAccountRequest_Marshal, unmarshal |-> VAuthQueryProofExternalOwnedAccountRequest_Unmarshal],
   VAuthQueryProofExternalOwnedAccountResponse |-> [reflect |-> VAuthQueryProofExternalOwnedAccountResponse_Reflect, size |-> VAuthQueryProofExternalOwnedAccountResponse_Size,
     marshal |-> VAuthQueryProofExternalOwnedAccountResponse_Marshal, unmarshal |-> VAuthQueryProofExternalOwnedAccountResponse_Unmarshal],
   VAuthMsgSubmitProofExternalOwnedAccount |-> [reflect |-> VAuthMsgSubmitProofExternalOwnedAccount_Reflect, size |-> VAuthMsgSubmitProofExternalOwnedAccount_Size,
     marshal |-> VAuthMsgSubmitProofExternalOwnedAccount_Marshal, unmarshal |-> VAuthMsgSubmitProofExternalOwnedAccount_Unmarshal],
   VAuthMsgSubmitProofExternalOwnedAccountResponse |-> [reflect |-> VAuthMsgSubmitProofExternalOwnedAccountResponse_Reflect, size |-> VAuthMsgSubmitProofExternalOwnedAccountResponse_Size,
     marshal |-> VAuthMsgSubmitProofExternalOwnedAccountResponse_Marshal, unmarshal |-> VAuthMsgSubmitProofExternalOwnedAccountResponse_Unmarshal],
   VAuthProofExternalOwnedAccount |-> [reflect |-> VAuthProofExternalOwnedAccount_Reflect, size |-> VAuthProofExternalOwnedAccount_Size,
     marshal |-> VAuthProofExternalOwnedAccount_Marshal, unmarshal |-> VAuthProofExternalOwnedAccount_Unmarshal],
   TypesExtensionOptionDynamicFeeTx |-> [reflect |-> TypesExtensionOptionDynamicFeeTx_Reflect, size |-> TypesExtensionOptionDynamicFeeTx_Size,
     marshal |-> TypesExtensionOptionDynamicFeeTx_Marshal, unmarshal |-> TypesExtensionOptionDynamicFeeTx_Unmarshal],
   TypesTxResult |-> [reflect |-> TypesTxResult_Reflect, size |-> TypesTxResult_Size,
     marshal |-> TypesTxResult_Marshal, unmarshal |-> TypesTxResult_Unmarshal],
   KeyPubKey |-> [reflect |-> KeyPubKey_Reflect, size |-> KeyPubKey_Size,
     marshal |-> KeyPubKey_Marshal, unmarshal |-> KeyPubKey_Unmarshal],
   KeyPrivKey |-> [reflect |-> KeyPrivKey_Reflect, size |-> KeyPrivKey_Size,
     marshal |-> KeyPrivKey_Marshal, unmarshal |-> KeyPrivKey_Unmarshal]]

=============================================================================
