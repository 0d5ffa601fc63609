---------------------------- MODULE CpcRegistry ----------------------------
(***************************************************************************)
(* The registry of the custom precompiled contracts (x/cpc): its params,   *)
(* the metadata under each contract address, the map from a denom to its   *)
(* ERC-20 contract, and the module account whose sequence yields the next  *)
(* dynamic address.  A message that fails changes nothing, since its cache *)
(* is discarded, so only the paths that succeed are actions.               *)
(***************************************************************************)
EXTENDS FiniteSets, Naturals

CONSTANTS Denoms,          \* coin denominations
          BondDenom,       \* the denomination the chain stakes
          Accounts,        \* accounts that hold coins, deploy and call
          LatestVersion,   \* LatestProtocolCpc
          MaxSequence      \* bound: dynamic contracts ever deployed

ASSUME CpcAssumption ==
    /\ BondDenom \in Denoms /\ IsFiniteSet(Accounts)
    /\ LatestVersion \in Nat \ {0} /\ MaxSequence \in Nat

(* Contract addresses: two are fixed, the others are derived from the      *)
(* address and the nonce of the module account, without collisions.        *)
CpcStakingFixedAddress == 0
CpcBech32FixedAddress == 1
CreateAddress(nonce) == nonce + 2
Addresses == 0..CreateAddress(MaxSequence)
NoAddress == CreateAddress(MaxSequence) + 1

NoMeta == [type |-> "none", denom |-> BondDenom]
Erc20Meta(d) == [type |-> "erc20", denom |-> d]
StakingMeta == [type |-> "staking", denom |-> BondDenom]
Bech32Meta == [type |-> "bech32", denom |-> BondDenom]
Metas == {NoMeta, StakingMeta, Bech32Meta} \cup {Erc20Meta(d) : d \in Denoms}

VARIABLES params,          \* protocol version and whitelisted deployers
          metas,           \* contract address -> metadata
          denomToAddress,  \* denom -> its ERC-20 contract, or NoAddress
          sequence,        \* sequence of the module account (x/auth)
          firstUse         \* history: what was first deployed at an address

registryVars == <<params, metas, denomToAddress, sequence, firstUse>>

(* Params.Validate and the test against a downgrade in SetParams.          *)
ParamsOK(old, new) ==
    /\ new.version \in 1..LatestVersion
    /\ old.version <= new.version

Has(ms, a) == ms[a] # NoMeta

(* SetCustomPrecompiledContractMeta for a new deployment.                  *)
SetMeta(ms, a, meta) == [ms EXCEPT ![a] = meta]

Remember(a, meta) == [firstUse EXCEPT ![a] = IF @ = NoMeta THEN meta ELSE @]

(* Mutant: the sequence of the module account is not stored.               *)
NextSequence_NotStored(n) == n

(* GetNextDynamicCustomPrecompiledContractAddress: the address of the      *)
(* current sequence, and the sequence that is stored.                      *)
NextSequence(n) == n + 1

DeployErc20Contract(by, d, supply) ==
    LET a == CreateAddress(sequence)
    IN  /\ by \in params.deployers
        /\ denomToAddress[d] = NoAddress
        /\ supply > 0
        /\ sequence < MaxSequence
        /\ ~Has(metas, a)
        /\ sequence' = NextSequence(sequence)
        /\ metas' = SetMeta(metas, a, Erc20Meta(d))
        /\ denomToAddress' = [denomToAddress EXCEPT ![d] = a]
        /\ firstUse' = Remember(a, Erc20Meta(d))
        /\ UNCHANGED params

DeployStakingContract(by) ==
    /\ by \in params.deployers
    /\ ~Has(metas, CpcStakingFixedAddress)
    /\ metas' = SetMeta(metas, CpcStakingFixedAddress, StakingMeta)
    /\ firstUse' = Remember(CpcStakingFixedAddress, StakingMeta)
    /\ UNCHANGED <<params, denomToAddress, sequence>>

(* MsgUpdateParams, which only governance may send.                        *)
UpdateParams(new) ==
    /\ ParamsOK(params, new)
    /\ params' = new
    /\ UNCHANGED <<metas, denomToAddress, sequence, firstUse>>

(* InitGenesis on an empty store: the contracts it deploys, in the order   *)
(* of the code.                                                            *)
GenesisMetas(erc20, staking, seq) ==
    [a \in Addresses |->
        IF a = CpcBech32FixedAddress THEN Bech32Meta
        ELSE IF a = CpcStakingFixedAddress /\ staking THEN StakingMeta
        ELSE IF a = CreateAddress(seq) /\ erc20 THEN Erc20Meta(BondDenom)
        ELSE NoMeta]

InitGenesis(p, erc20, staking) ==
    /\ params = p
    /\ sequence = IF erc20 THEN 1 ELSE 0
    /\ metas = GenesisMetas(erc20, staking, 0)
    /\ denomToAddress = [d \in Denoms |->
            IF d = BondDenom /\ erc20 THEN CreateAddress(0) ELSE NoAddress]
    /\ firstUse = metas

(* ExportGenesis, and InitGenesis of the new chain from it: the params and *)
(* the staking contract come back, the ERC-20 contracts do not.  x/auth    *)
(* carries the module account over, with its sequence.                     *)
ExportGenesis ==
    /\ metas' = GenesisMetas(FALSE, Has(metas, CpcStakingFixedAddress), sequence)
    /\ denomToAddress' = [d \in Denoms |-> NoAddress]
    /\ UNCHANGED <<params, sequence, firstUse>>

(***************************************************************************)
(* Properties.                                                             *)
(***************************************************************************)

(* A denom has at most one contract and is listed with it, the contract    *)
(* being one for that denom, and an address never names two different      *)
(* contracts: not after messages that failed, and not after the chain was  *)
(* exported and started anew without its ERC-20 contracts.  Callers keep   *)
(* addresses for longer than that.                                         *)
RegistryConsistent ==
    /\ \A a \in Addresses, d \in Denoms : metas[a] = Erc20Meta(d) <=> denomToAddress[d] = a
    /\ \A a \in Addresses : Has(metas, a) => metas[a] = firstUse[a]
    /\ \A a \in Addresses : Has(metas, a) /\ metas[a].type # "erc20" =>
            a \in {CpcStakingFixedAddress, CpcBech32FixedAddress}

=============================================================================
