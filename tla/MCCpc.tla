------------------------------- MODULE MCCpc --------------------------------
(***************************************************************************)
(* The modules beside the EVM: the registry with the ERC-20 contracts, the *)
(* staking contract, and the proofs for vesting accounts.  They share no   *)
(* state in the code, so a behaviour runs one of them.                     *)
(***************************************************************************)
EXTENDS Erc20Cpc, StakingCpc, VAuth

VARIABLE family

allVars == <<family, erc20Vars, stakingVars, vauthVars>>

MCBalances ==
    [d \in Denoms |-> [a \in Accounts |->
        IF d = BondDenom THEN IF a = "bob" THEN 2 ELSE 1 ELSE IF a = "alice" THEN 2 ELSE 0]]
MCLocked == [d \in Denoms |-> [a \in Accounts |-> IF d = BondDenom /\ a = "bob" THEN 1 ELSE 0]]
MCApprovers == {<<"alice", "bob">>}
MCParams == {[version |-> 1, deployers |-> ds] : ds \in {{}, {"alice"}}}

MCSelfBond == [v \in Validators |-> v]
MCCoins == [d \in Delegators |-> IF d = "alice" THEN 1 ELSE 0]
MCWithdrawTo == [d \in Delegators |-> "bob"]

MCFunds == [a \in Holders |-> CASE a = "alice" -> 2 [] a = "carol" -> 1 [] OTHER -> 0]

Init ==
    /\ family \in {"erc20", "staking", "vauth"}
    /\ Erc20Init /\ StakingInit /\ VAuthInit
    /\ family # "erc20" =>
         params.deployers = {} /\ sequence = 0 /\ ~Has(metas, CpcStakingFixedAddress)
    /\ family # "staking" => ~shared /\ bonded = Validators

RegistryStepOf ==
    family = "erc20" /\ RegistryStep /\ UNCHANGED <<family, stakingVars, vauthVars>>
Erc20StepOf ==
    family = "erc20" /\ Erc20Step /\ UNCHANGED <<family, stakingVars, vauthVars>>
RestartOf ==
    family = "erc20" /\ Restart /\ UNCHANGED <<family, stakingVars, vauthVars>>
StakingNextOf ==
    family = "staking" /\ StakingNext /\ UNCHANGED <<family, erc20Vars, vauthVars>>
VAuthNextOf ==
    family = "vauth" /\ VAuthNext /\ UNCHANGED <<family, erc20Vars, stakingVars>>

Next == RegistryStepOf \/ Erc20StepOf \/ RestartOf \/ StakingNextOf \/ VAuthNextOf
Spec == Init /\ [][Next]_allVars
=============================================================================
