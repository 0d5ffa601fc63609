----------------------------- MODULE Cpc_proofs -----------------------------
(***************************************************************************)
(* The registry of the precompiles, the allowances and the transfers of    *)
(* the ERC-20 contracts, for any denoms, accounts, amounts and number of   *)
(* contracts, and the proofs for vesting accounts, for transactions of any *)
(* length and nesting.                                                     *)
(***************************************************************************)
EXTENDS Erc20Cpc, VAuth, FiniteSetTheorems, WellFoundedInduction, TLAPS

(***************************************************************************)
(* The registry.                                                           *)
(***************************************************************************)
RegistryTypeOK ==
    /\ metas \in [Addresses -> Metas] /\ firstUse \in [Addresses -> Metas]
    /\ denomToAddress \in [Denoms -> Addresses \cup {NoAddress}]
    /\ sequence \in Nat

(* What makes the next dynamic address a fresh one: nothing was ever       *)
(* deployed at the address of the stored sequence or beyond it, not even   *)
(* by a chain that was exported since, and each fixed address has only     *)
(* ever had the contract it is fixed for.                                  *)
FreshAhead ==
    /\ \A a \in Addresses : a >= CreateAddress(sequence) => firstUse[a] = NoMeta
    /\ firstUse[CpcStakingFixedAddress] \in {NoMeta, StakingMeta}
    /\ firstUse[CpcBech32FixedAddress] = Bech32Meta

RegistryInv == RegistryTypeOK /\ FreshAhead /\ RegistryConsistent

(* The kinds of metadata differ from each other and between denoms.        *)
LEMMA MetasDiffer ==
    /\ NoMeta # StakingMeta /\ NoMeta # Bech32Meta /\ StakingMeta # Bech32Meta
    /\ \A d \in Denoms : /\ Erc20Meta(d) \notin {NoMeta, StakingMeta, Bech32Meta}
                         /\ Erc20Meta(d).type = "erc20"
                         /\ \A e \in Denoms : Erc20Meta(d) = Erc20Meta(e) => d = e
    /\ NoMeta.type # "erc20" /\ StakingMeta.type # "erc20" /\ Bech32Meta.type # "erc20"
  BY Zenon DEF NoMeta, StakingMeta, Bech32Meta, Erc20Meta

(* The fixed and the dynamic addresses are addresses and differ.           *)
LEMMA AddressFacts ==
    /\ CpcStakingFixedAddress \in Addresses /\ CpcBech32FixedAddress \in Addresses
    /\ CpcStakingFixedAddress # CpcBech32FixedAddress
    /\ NoAddress \notin Addresses
    /\ \A n \in Nat : /\ CreateAddress(n) \in Nat
                      /\ CreateAddress(n) \notin {CpcStakingFixedAddress, CpcBech32FixedAddress}
                      /\ n <= MaxSequence => CreateAddress(n) \in Addresses
    /\ CreateAddress(0) \in Addresses
    /\ \A n \in Nat, a \in Addresses :
            a >= CreateAddress(NextSequence(n)) => a >= CreateAddress(n) /\ a # CreateAddress(n)
  BY CpcAssumption DEF Addresses, NoAddress, CreateAddress, NextSequence,
                       CpcStakingFixedAddress, CpcBech32FixedAddress

(* Genesis leaves the registry consistent, with or without the contracts.  *)
LEMMA GenesisConsistent ==
    ASSUME NEW p, NEW erc20 \in BOOLEAN, NEW staking \in BOOLEAN, InitGenesis(p, erc20, staking)
    PROVE  RegistryInv
<1> USE CpcAssumption, AddressFacts, MetasDiffer
<1>1. RegistryTypeOK
  BY DEF RegistryTypeOK, InitGenesis, GenesisMetas, Metas
<1>2. \A a \in Addresses : a >= CreateAddress(sequence) =>
          a \notin {CpcStakingFixedAddress, CpcBech32FixedAddress} /\ (erc20 => a # CreateAddress(0))
  BY DEF InitGenesis, Addresses, CreateAddress, CpcStakingFixedAddress, CpcBech32FixedAddress
<1>3. FreshAhead
  BY <1>2 DEF FreshAhead, InitGenesis, GenesisMetas
<1>4. RegistryConsistent
  BY DEF RegistryConsistent, InitGenesis, GenesisMetas, Has
<1> QED
  BY <1>1, <1>3, <1>4 DEF RegistryInv

(* A deployment takes a fresh address for a denom without a contract.      *)
LEMMA DeployErc20Consistent ==
    ASSUME RegistryInv, NEW by, NEW d \in Denoms, NEW supply, DeployErc20Contract(by, d, supply)
    PROVE  RegistryInv'
<1> DEFINE a == CreateAddress(sequence)
<1> USE AddressFacts, MetasDiffer DEF RegistryInv
<1>1. a \in Addresses /\ a \notin {CpcStakingFixedAddress, CpcBech32FixedAddress} /\ sequence \in Nat
  BY CpcAssumption DEF RegistryTypeOK, DeployErc20Contract
<1>2. firstUse[a] = NoMeta
  BY <1>1 DEF FreshAhead, CreateAddress, RegistryTypeOK
<1>3. /\ metas' = [metas EXCEPT ![a] = Erc20Meta(d)]
      /\ firstUse' = [firstUse EXCEPT ![a] = Erc20Meta(d)]
      /\ denomToAddress' = [denomToAddress EXCEPT ![d] = a]
      /\ sequence' = NextSequence(sequence)
      /\ metas[a] = NoMeta /\ denomToAddress[d] = NoAddress
  BY <1>1, <1>2 DEF DeployErc20Contract, SetMeta, Remember, Has, RegistryTypeOK
<1>4. RegistryTypeOK'
  BY <1>1, <1>3 DEF RegistryTypeOK, Metas, NextSequence
<1>5. FreshAhead'
  BY <1>1, <1>3 DEF FreshAhead, RegistryTypeOK
<1>6. RegistryConsistent'
  <2> SUFFICES ASSUME NEW x \in Addresses
               PROVE  /\ \A e \in Denoms : metas'[x] = Erc20Meta(e) <=> denomToAddress'[e] = x
                      /\ metas'[x] # NoMeta => metas'[x] = firstUse'[x]
                      /\ metas'[x] # NoMeta /\ metas'[x].type # "erc20" =>
                            x \in {CpcStakingFixedAddress, CpcBech32FixedAddress}
    BY DEF RegistryConsistent, Has
  <2>1. CASE x = a
    BY <1>1, <1>3, <2>1 DEF RegistryConsistent, RegistryTypeOK, Has
  <2>2. CASE x # a
    BY <1>1, <1>3, <2>2 DEF RegistryConsistent, RegistryTypeOK, Has
  <2> QED
    BY <2>1, <2>2
<1> QED
  BY <1>4, <1>5, <1>6

LEMMA DeployStakingConsistent ==
    ASSUME RegistryInv, NEW by, DeployStakingContract(by)
    PROVE  RegistryInv'
<1> USE AddressFacts, MetasDiffer DEF RegistryInv, DeployStakingContract, SetMeta, Remember
<1>1. RegistryTypeOK'
  BY DEF RegistryTypeOK, Metas
<1>2. \A a \in Addresses : a >= CreateAddress(sequence) => a # CpcStakingFixedAddress
  BY DEF RegistryTypeOK, CreateAddress, CpcStakingFixedAddress, Addresses
<1>3. FreshAhead'
  BY <1>2 DEF FreshAhead, RegistryTypeOK
<1>4. firstUse'[CpcStakingFixedAddress] = StakingMeta
  BY DEF FreshAhead, RegistryTypeOK
<1>5. RegistryConsistent'
  BY <1>4 DEF RegistryConsistent, RegistryTypeOK, Has
<1> QED
  BY <1>1, <1>3, <1>5

(* An export forgets the ERC-20 contracts, not the sequence: no address    *)
(* they had is given out again.                                            *)
LEMMA ExportConsistent ==
    ASSUME RegistryInv, ExportGenesis
    PROVE  RegistryInv'
<1> USE AddressFacts, MetasDiffer DEF RegistryInv, ExportGenesis, GenesisMetas
<1>1. RegistryTypeOK'
  BY DEF RegistryTypeOK, Metas
<1>2. FreshAhead'
  BY DEF FreshAhead
<1>3. Has(metas, CpcStakingFixedAddress) => firstUse[CpcStakingFixedAddress] = StakingMeta
  BY DEF RegistryConsistent, FreshAhead, Has
<1>4. RegistryConsistent'
  BY <1>3 DEF RegistryConsistent, FreshAhead, RegistryTypeOK, Has
<1> QED
  BY <1>1, <1>2, <1>4

(* The registry stays consistent whatever is deployed, by whom, in which   *)
(* order, and however often the chain is exported and started anew: a      *)
(* denom and its contract name each other, and no address is ever given to *)
(* a second contract.                                                      *)
THEOREM RegistryRight == Erc20Spec => []RegistryConsistent
<1>1. Erc20Init => RegistryInv
  BY GenesisConsistent DEF Erc20Init
<1>2. RegistryInv /\ [Erc20Next]_erc20Vars => RegistryInv'
  <2> SUFFICES ASSUME RegistryInv, [Erc20Next]_erc20Vars
               PROVE  RegistryInv'
    OBVIOUS
  <2>1. CASE RegistryStep
    <3>1. CASE \E a \in Accounts, d \in Denoms : DeployErc20Contract(a, d, Supply(d))
      BY <3>1, DeployErc20Consistent
    <3>2. CASE \E a \in Accounts : DeployStakingContract(a)
      BY <3>2, DeployStakingConsistent
    <3>3. CASE \E p \in ParamsSet : UpdateParams(p)
      BY <3>3 DEF UpdateParams, RegistryInv, RegistryTypeOK, FreshAhead, RegistryConsistent, Has
    <3> QED
      BY <2>1, <3>1, <3>2, <3>3 DEF RegistryStep
  <2>2. CASE Restart
    BY <2>2, ExportConsistent DEF Restart
  <2>3. CASE Erc20Step \/ UNCHANGED erc20Vars
    <3>1. ASSUME NEW a, NEW b, NEW d, NEW n,
                 \/ \E to : Take(a, d, b, to, n)
                 \/ CallTransfer(a, d, b, n)
                 \/ CallBurn(a, d, n)
                 \/ CallApprove(a, d, b, n)
                 \/ BankSend(d, a, b, n)
          PROVE  UNCHANGED registryVars
      BY <3>1 DEF Take, CallTransfer, CallBurn, CallApprove, BankSend
    <3>2. UNCHANGED registryVars
      BY <2>3, <3>1, ZenonT(60) DEF Erc20Step, CallTransferFrom, CallBurnFrom, erc20Vars
    <3> QED
      BY <3>2 DEF registryVars, RegistryInv, RegistryTypeOK, FreshAhead, RegistryConsistent, Has
  <2> QED
    BY <2>1, <2>2, <2>3 DEF Erc20Next
<1> QED
  BY <1>1, <1>2, PTL DEF Erc20Spec, RegistryInv

(***************************************************************************)
(* The allowances.                                                         *)
(***************************************************************************)
AllowanceTypeOK ==
    /\ allowance \in [Pairs -> Amounts] /\ approved \in [Pairs -> Amounts]
    /\ taken \in [Pairs -> Nat]

(* An infinite approval is never drawn on, so the allowance stays infinite *)
(* as long as the approval is not replaced.                                *)
InfiniteStays == \A p \in Pairs : approved[p] = MaxUint256 => taken[p] = 0

BudgetInv == AllowanceTypeOK /\ InfiniteStays /\ AllowanceBudget

(* A transfer, whether it succeeds or not, leaves the allowances alone.    *)
LEMMA TransferKeepsAllowance ==
    ASSUME NEW s, NEW d, NEW from, NEW to, NEW amount, transfer(s, d, from, to, amount).ok,
           s = [bank |-> s.bank, burned |-> s.burned, allowance |-> s.allowance, logs |-> s.logs]
    PROVE  transfer(s, d, from, to, amount).state.allowance = s.allowance
  BY DEF transfer, Ok, Error

(* What transferFrom and burnFrom leave of the allowances.                 *)
LEMMA TransferFromSpends ==
    ASSUME NEW caller, NEW d, NEW from, NEW to, NEW amount,
           TransferFrom(caller, d, from, to, amount).ok
    PROVE  /\ from # caller => allowance[<<from, caller>>] = MaxUint256
                                  \/ ~(allowance[<<from, caller>>] < amount)
           /\ TransferFrom(caller, d, from, to, amount).state.allowance =
                IF from = caller \/ allowance[<<from, caller>>] = MaxUint256 THEN allowance
                ELSE [allowance EXCEPT ![<<from, caller>>] = @ - amount]
<1> DEFINE spent == Spend(Current, from, caller, amount)
<1>1. spent.ok /\ transfer(spent.state, d, from, to, amount).ok
      /\ TransferFrom(caller, d, from, to, amount) = transfer(spent.state, d, from, to, amount)
  BY DEF TransferFrom
<1>2. /\ from # caller => allowance[<<from, caller>>] = MaxUint256
                             \/ ~(allowance[<<from, caller>>] < amount)
      /\ spent.state = [Current EXCEPT !.allowance =
                IF from = caller \/ allowance[<<from, caller>>] = MaxUint256 THEN allowance
                ELSE [allowance EXCEPT ![<<from, caller>>] = @ - amount]]
  BY <1>1 DEF Spend, spendAllowance, Ok, Error, Current
<1> HIDE DEF spent
<1>3. transfer(spent.state, d, from, to, amount).state.allowance = spent.state.allowance
  BY <1>1, <1>2, TransferKeepsAllowance DEF Current
<1> QED
  BY <1>1, <1>2, <1>3 DEF Current

(* transferFrom and burnFrom keep the books of an allowance.               *)
LEMMA TakeKeepsBudget ==
    ASSUME BudgetInv, NEW caller \in Accounts, NEW d, NEW from \in Accounts, NEW to,
           NEW amount \in Amounts, Take(caller, d, from, to, amount)
    PROVE  BudgetInv'
<1> DEFINE p == <<from, caller>>
           result == TransferFrom(caller, d, from, to, amount)
<1> USE Erc20Assumption DEF BudgetInv, AllowanceTypeOK, InfiniteStays, AllowanceBudget
<1>1. /\ p \in Pairs /\ approved' = approved
      /\ allowance' = IF result.ok THEN result.state.allowance ELSE allowance
      /\ taken' = IF result.ok /\ from # caller /\ approved[p] # MaxUint256
                  THEN [taken EXCEPT ![p] = @ + amount] ELSE taken
  BY DEF Take, Call, Current, Pairs
<1>2. /\ approved[p] \in Amounts /\ allowance[p] \in Amounts /\ taken[p] \in Nat
      /\ allowance[p] + taken[p] = approved[p]
      /\ approved[p] = MaxUint256 => taken[p] = 0
  BY <1>1
<1>3. approved[p] # MaxUint256 <=> allowance[p] # MaxUint256
  BY <1>2 DEF Amounts
<1>4. CASE ~result.ok
  BY <1>1, <1>4
<1>5. CASE result.ok
  <2>1. /\ from # caller => allowance[p] = MaxUint256 \/ ~(allowance[p] < amount)
        /\ result.state.allowance =
                IF from = caller \/ allowance[p] = MaxUint256 THEN allowance
                ELSE [allowance EXCEPT ![p] = @ - amount]
    BY ONLY <1>5, TransferFromSpends
  <2> HIDE DEF result
  <2>2. CASE from = caller \/ allowance[p] = MaxUint256
    BY <1>1, <1>3, <1>5, <2>1, <2>2, Zenon
  <2>3. CASE from # caller /\ allowance[p] # MaxUint256
    <3>1. /\ allowance' = [allowance EXCEPT ![p] = @ - amount]
          /\ taken' = [taken EXCEPT ![p] = @ + amount]
      BY <1>1, <1>3, <1>5, <2>1, <2>3
    <3>2. amount \in Nat /\ allowance[p] - amount \in Amounts /\ taken[p] + amount \in Nat
          /\ (allowance[p] - amount) + (taken[p] + amount) = approved[p]
          /\ approved[p] # MaxUint256
      BY <1>2, <1>3, <2>1, <2>3 DEF Amounts
    <3> HIDE DEF p
    <3>3. AllowanceTypeOK'
      BY <1>1, <3>1, <3>2, ZenonT(60)
    <3>4. ASSUME NEW q \in Pairs
          PROVE  /\ approved'[q] = MaxUint256 => taken'[q] = 0
                 /\ allowance'[q] + taken'[q] = approved'[q]
      <4>1. CASE q = p
        BY <1>1, <3>1, <3>2, <4>1, Zenon
      <4>2. CASE q # p
        BY <1>1, <3>1, <4>2, Zenon
      <4> QED
        BY <4>1, <4>2
    <3> QED
      BY <3>3, <3>4
  <2> QED
    BY <2>2, <2>3
<1> QED
  BY <1>4, <1>5

(* A spender never takes more than the owner approved, nor less than the   *)
(* allowance lost: through all contracts together, for any amounts.        *)
THEOREM BudgetRight == Erc20Spec => []AllowanceBudget
<1> USE Erc20Assumption
<1>1. Erc20Init => BudgetInv
  BY DEF Erc20Init, BudgetInv, AllowanceTypeOK, InfiniteStays, AllowanceBudget, Amounts
<1>2. BudgetInv /\ [Erc20Next]_erc20Vars => BudgetInv'
  <2> SUFFICES ASSUME BudgetInv, [Erc20Next]_erc20Vars
               PROVE  BudgetInv'
    OBVIOUS
  <2>1. CASE RegistryStep \/ UNCHANGED erc20Vars
    BY <2>1 DEF RegistryStep, erc20Vars, tokenVars, BudgetInv, AllowanceTypeOK, InfiniteStays, AllowanceBudget
  <2>2. CASE Restart
    BY <2>2 DEF Restart, BudgetInv, AllowanceTypeOK, InfiniteStays, AllowanceBudget, Amounts
  <2>3. CASE Erc20Step
    <3> PICK a \in Accounts, b \in Accounts, d \in Denoms, n \in Amounts :
            \/ \E to \in Accounts : CallTransferFrom(a, d, b, to, n)
            \/ CallBurnFrom(a, d, b, n)
            \/ CallTransfer(a, d, b, n)
            \/ CallBurn(a, d, n)
            \/ <<a, b>> \in Approvers /\ CallApprove(a, d, b, n)
            \/ BankSend(d, a, b, n)
      BY <2>3, Zenon DEF Erc20Step
    <3>1. ASSUME NEW to \in Accounts, CallTransferFrom(a, d, b, to, n) PROVE BudgetInv'
      BY <3>1, TakeKeepsBudget DEF CallTransferFrom
    <3>2. CASE CallBurnFrom(a, d, b, n)
      BY <3>2, TakeKeepsBudget DEF CallBurnFrom
    <3>3. CASE CallTransfer(a, d, b, n) \/ CallBurn(a, d, n)
      <4>1. ASSUME NEW to, transfer(Current, d, a, to, n).ok
            PROVE  transfer(Current, d, a, to, n).state.allowance = allowance
        <5>1. /\ Current = [bank |-> Current.bank, burned |-> Current.burned,
                            allowance |-> Current.allowance, logs |-> Current.logs]
              /\ Current.allowance = allowance
          BY DEF Current
        <5> QED
          BY ONLY <4>1, <5>1, TransferKeepsAllowance
      <4>2. UNCHANGED <<allowance, approved, taken>>
        BY <3>3, <4>1, Zenon DEF CallTransfer, CallBurn, Call, Current
      <4> QED
        BY <4>2 DEF BudgetInv, AllowanceTypeOK, InfiniteStays, AllowanceBudget
    <3>4. CASE CallApprove(a, d, b, n)
      BY <3>4 DEF CallApprove, BudgetInv, AllowanceTypeOK, InfiniteStays, AllowanceBudget, Amounts, Pairs
    <3>5. CASE BankSend(d, a, b, n)
      BY <3>5 DEF BankSend, BudgetInv, AllowanceTypeOK, InfiniteStays, AllowanceBudget
    <3> QED
      BY <3>1, <3>2, <3>3, <3>4, <3>5
  <2> QED
    BY <2>1, <2>2, <2>3 DEF Erc20Next
<1> QED
  BY <1>1, <1>2, PTL DEF Erc20Spec, BudgetInv

(***************************************************************************)
(* Sums over the accounts.                                                 *)
(***************************************************************************)

(* A nonempty set of naturals has a least element.                         *)

LEMMA LeastNatural ==
    ASSUME NEW S, S \subseteq Nat, S # {}
    PROVE  \E m \in S : \A x \in S : m <= x
<1> DEFINE R == OpToRel(<, Nat)
<1>1. IsWellFoundedOn(R, Nat)
  BY NatLessThanWellFounded, Zenon
<1>2. \A x, y \in Nat : x < y => <<x, y>> \in R
  BY DEF OpToRel
<1> HIDE DEF R
<1>3. PICK m \in S : \A y \in S : ~(<<y, m>> \in R)
  BY <1>1, WFMin, Zenon
<1>4. \A x \in S : ~(x < m)
  BY <1>2, <1>3, Zenon
<1> QED
  BY <1>4

(* Induction, as a fact about sets.                                        *)
LEMMA Induct ==
    ASSUME NEW S, 0 \in S, \A n \in Nat : n \in S => n + 1 \in S
    PROVE  Nat \subseteq S
<1> SUFFICES ASSUME Nat \ S # {} PROVE FALSE
  OBVIOUS
<1> DEFINE T == Nat \ S
<1>1. PICK m \in T : \A x \in T : m <= x
  <2> HIDE DEF T
  <2>1. T \subseteq Nat BY DEF T
  <2>2. T # {} BY DEF T
  <2> QED BY <2>1, <2>2, LeastNatural, Zenon
<1>2. m \in Nat /\ m # 0
  BY <1>1
<1>3. m - 1 \in S
  BY <1>1, <1>2
<1> QED
  BY <1>1, <1>2, <1>3

(* The account a sum takes next.                                           *)
Pick(S) == CHOOSE x \in S : TRUE

(* What is left is smaller by one.                                         *)
LEMMA Smaller ==
    ASSUME NEW S \in SUBSET Accounts, S # {}
    PROVE  /\ Pick(S) \in S /\ Pick(S) \in Accounts /\ S \ {Pick(S)} \in SUBSET Accounts
           /\ Cardinality(S) \in Nat /\ Cardinality(S \ {Pick(S)}) = Cardinality(S) - 1
<1>1. Pick(S) \in S
  BY DEF Pick
<1>2. IsFiniteSet(S)
  BY CpcAssumption, FS_Subset
<1> QED
  BY <1>1, <1>2, FS_RemoveElement, FS_CardinalityType

(* Induction over the sets of accounts, along the accounts a sum takes.    *)
LEMMA SubsetInduct ==
    ASSUME NEW T, {} \in T,
           \A S \in SUBSET Accounts : S # {} /\ S \ {Pick(S)} \in T => S \in T
    PROVE  SUBSET Accounts \subseteq T
<1> DEFINE N == {n \in Nat : \A S \in SUBSET Accounts : Cardinality(S) = n => S \in T}
<1>1. \A S \in SUBSET Accounts : IsFiniteSet(S) /\ Cardinality(S) \in Nat /\ (Cardinality(S) = 0 <=> S = {})
  BY CpcAssumption, FS_Subset, FS_CardinalityType, FS_EmptySet
<1>2. 0 \in N
  BY <1>1
<1>3. ASSUME NEW n \in Nat, n \in N PROVE n + 1 \in N
  <2> SUFFICES ASSUME NEW S \in SUBSET Accounts, Cardinality(S) = n + 1 PROVE S \in T
    BY <1>3
  <2>1. S # {} /\ (n + 1) - 1 = n
    BY <1>1
  <2>2. S \ {Pick(S)} \in SUBSET Accounts /\ Cardinality(S \ {Pick(S)}) = n
    BY <2>1, Smaller
  <2>3. S \ {Pick(S)} \in T
    BY <1>3, <2>2
  <2> QED
    BY <2>1, <2>3
<1>4. Nat \subseteq N
  <2> HIDE DEF N
  <2> QED
    BY <1>2, <1>3, Induct
<1> QED
  BY <1>1, <1>4

(* The sets of at most k accounts, and a sum over each of them.            *)
Within(k) == {S \in SUBSET Accounts : Cardinality(S) <= k}
Adds(g, f, D) == g = [S \in D |-> IF S = {} THEN 0 ELSE f[Pick(S)] + g[S \ {Pick(S)}]]

LEMMA AddsExist ==
    ASSUME NEW f, NEW n \in Nat
    PROVE  \E g : Adds(g, f, Within(n))
<1> DEFINE N == {k \in Nat : \E g : Adds(g, f, Within(k))}
<1>1. \A S \in SUBSET Accounts : IsFiniteSet(S) /\ Cardinality(S) \in Nat /\ (Cardinality(S) = 0 <=> S = {})
  BY CpcAssumption, FS_Subset, FS_CardinalityType, FS_EmptySet
<1>2. 0 \in N
  <2>1. \A S \in Within(0) : S = {}
    BY <1>1 DEF Within
  <2>2. Adds([S \in Within(0) |-> 0], f, Within(0))
    BY <2>1 DEF Adds
  <2> QED
    BY <2>2
<1>3. ASSUME NEW k \in Nat, k \in N PROVE k + 1 \in N
  <2>1. PICK g : Adds(g, f, Within(k))
    BY <1>3
  <2> DEFINE h == [S \in Within(k + 1) |-> IF S = {} THEN 0 ELSE f[Pick(S)] + g[S \ {Pick(S)}]]
  <2>2. \A S \in Within(k) : g[S] = IF S = {} THEN 0 ELSE f[Pick(S)] + g[S \ {Pick(S)}]
    BY <2>1, Zenon DEF Adds
  <2>3. \A S \in Within(k) : S \in Within(k + 1)
    BY <1>1 DEF Within
  <2>4. \A S \in Within(k) : h[S] = g[S]
    BY <2>2, <2>3
  <2>5. \A S \in Within(k + 1) : S # {} => S \ {Pick(S)} \in Within(k)
    BY <1>1, Smaller DEF Within
  <2>6. Adds(h, f, Within(k + 1))
    BY <2>4, <2>5, Zenon DEF Adds
  <2> QED
    BY <2>6
<1>4. Nat \subseteq N
  <2> HIDE DEF N
  <2> QED
    BY <1>2, <1>3, Induct
<1> QED
  BY <1>4

(* The equations of Sum.                                                   *)
LEMMA SumIs ==
    ASSUME NEW f
    PROVE  \E g : /\ Sum(f) = g[Accounts] /\ g[{}] = 0
                  /\ \A S \in SUBSET Accounts : S # {} => g[S] = f[Pick(S)] + g[S \ {Pick(S)}]
<1> DEFINE sum == CHOOSE g : Adds(g, f, SUBSET Accounts)
<1>1. Sum(f) = sum[Accounts]
  BY DEF Sum, Adds, Pick
<1>2. Within(Cardinality(Accounts)) = SUBSET Accounts /\ Cardinality(Accounts) \in Nat
  BY CpcAssumption, FS_Subset, FS_CardinalityType DEF Within
<1>3. Adds(sum, f, SUBSET Accounts)
  <2>1. \E g : Adds(g, f, Within(Cardinality(Accounts)))
    BY <1>2, AddsExist, Zenon
  <2>2. \E g : Adds(g, f, SUBSET Accounts)
    BY <1>2, <2>1, Zenon
  <2> QED
    BY <2>2, Zenon
<1> HIDE DEF sum
<1> QED
  BY <1>1, <1>3, Zenon DEF Adds

LEMMA SumType ==
    ASSUME NEW f \in [Accounts -> Int]
    PROVE  Sum(f) \in Int
<1>1. PICK g : /\ Sum(f) = g[Accounts] /\ g[{}] = 0
               /\ \A S \in SUBSET Accounts : S # {} => g[S] = f[Pick(S)] + g[S \ {Pick(S)}]
  BY SumIs, Zenon
<1> DEFINE T == {S \in SUBSET Accounts : g[S] \in Int}
<1>2. {} \in T
  BY <1>1
<1>3. ASSUME NEW S \in SUBSET Accounts, S # {}, S \ {Pick(S)} \in T PROVE S \in T
  <2>1. Pick(S) \in Accounts /\ g[S] = f[Pick(S)] + g[S \ {Pick(S)}]
    BY <1>1, <1>3, Smaller, Zenon
  <2>2. f[Pick(S)] \in Int /\ g[S \ {Pick(S)}] \in Int
    BY <1>3, <2>1
  <2> QED
    BY <2>1, <2>2
<1>4. SUBSET Accounts \subseteq T
  <2> HIDE DEF T
  <2> QED
    BY <1>2, <1>3, SubsetInduct
<1> QED
  BY <1>1, <1>4

(* A sum changes by what one summand changes.                              *)
LEMMA SumChange ==
    ASSUME NEW f \in [Accounts -> Int], NEW a \in Accounts, NEW v \in Int
    PROVE  Sum([f EXCEPT ![a] = v]) = (Sum(f) - f[a]) + v
<1> DEFINE e == [f EXCEPT ![a] = v]
<1>0. e \in [Accounts -> Int] /\ e[a] = v /\ \A x \in Accounts : x # a => e[x] = f[x]
  OBVIOUS
<1> HIDE DEF e
<1>1. PICK g : /\ Sum(f) = g[Accounts] /\ g[{}] = 0
               /\ \A S \in SUBSET Accounts : S # {} => g[S] = f[Pick(S)] + g[S \ {Pick(S)}]
  BY SumIs, Zenon
<1>2. PICK h : /\ Sum(e) = h[Accounts] /\ h[{}] = 0
               /\ \A S \in SUBSET Accounts : S # {} => h[S] = e[Pick(S)] + h[S \ {Pick(S)}]
  BY SumIs, Zenon
<1> DEFINE T == {S \in SUBSET Accounts : /\ g[S] \in Int
                                         /\ h[S] = IF a \in S THEN (g[S] - f[a]) + v ELSE g[S]}
<1>3. {} \in T
  BY <1>1, <1>2
<1>4. ASSUME NEW S \in SUBSET Accounts, S # {}, S \ {Pick(S)} \in T PROVE S \in T
  <2> DEFINE x == Pick(S)
             R == S \ {x}
  <2>1. x \in S /\ x \in Accounts /\ R \in SUBSET Accounts
    BY <1>4, Smaller, Zenon
  <2>2. g[S] = f[x] + g[R] /\ h[S] = e[x] + h[R]
    BY <1>1, <1>2, <1>4
  <2>3. g[R] \in Int /\ h[R] = IF a \in R THEN (g[R] - f[a]) + v ELSE g[R]
    BY <1>4
  <2>4. f[x] \in Int /\ f[a] \in Int
    BY <2>1
  <2>5. CASE x = a
    BY <1>0, <2>1, <2>2, <2>3, <2>4, <2>5
  <2>6. CASE x # a
    <3>1. e[x] = f[x] /\ (a \in S <=> a \in R)
      BY <1>0, <2>1, <2>6
    <3> QED
      BY <2>2, <2>3, <2>4, <3>1
  <2> QED
    BY <2>5, <2>6
<1>5. SUBSET Accounts \subseteq T
  <2> HIDE DEF T
  <2> QED
    BY <1>3, <1>4, SubsetInduct
<1>6. Sum(e) = (Sum(f) - f[a]) + v
  BY <1>1, <1>2, <1>5
<1> QED
  BY <1>6 DEF e

(***************************************************************************)
(* Balances, logs and the supply.                                          *)
(***************************************************************************)

(* What the books hold, and who a log names as the receiver.               *)
Books == [Denoms -> [Accounts -> Int]]
Burns == [Denoms -> Int]
Receivers == Accounts \cup {Zero}

(* One balance is set.                                                     *)
SetTo(b, d, a, v) == [b EXCEPT ![d][a] = v]

LEMMA SetToSums ==
    ASSUME NEW b \in Books, NEW d \in Denoms, NEW a \in Accounts, NEW v \in Int
    PROVE  /\ SetTo(b, d, a, v) \in Books
           /\ SetTo(b, d, a, v)[d][a] = v
           /\ \A x \in Accounts : x # a => SetTo(b, d, a, v)[d][x] = b[d][x]
           /\ Sum(SetTo(b, d, a, v)[d]) = (Sum(b[d]) - b[d][a]) + v /\ Sum(b[d]) \in Int
           /\ \A e \in Denoms : e # d => SetTo(b, d, a, v)[e] = b[e]
<1> DEFINE c == SetTo(b, d, a, v)
<1>1. /\ c \in Books /\ c[d] = [b[d] EXCEPT ![a] = v]
      /\ \A e \in Denoms : e # d => c[e] = b[e]
  BY DEF SetTo, Books
<1>2. b[d] \in [Accounts -> Int]
  BY DEF Books
<1>3. Sum([b[d] EXCEPT ![a] = v]) = (Sum(b[d]) - b[d][a]) + v /\ Sum(b[d]) \in Int
  BY <1>2, SumChange, SumType
<1> HIDE DEF c
<1>4. c[d][a] = v /\ \A x \in Accounts : x # a => c[d][x] = b[d][x]
  BY <1>1, <1>2
<1>5. Sum(c[d]) = (Sum(b[d]) - b[d][a]) + v
  BY <1>1, <1>3
<1> QED
  BY <1>1, <1>3, <1>4, <1>5 DEF c

(* A log is booked, for any of the balances the books may have.            *)
LEMMA BookMoves ==
    ASSUME NEW b \in Books, NEW d \in Denoms, NEW from \in Accounts,
           NEW to \in Receivers, NEW n \in Nat
    PROVE  /\ Book(b, Log(d, from, to, n)) \in Books
           /\ Sum(b[d]) \in Int
           /\ Sum(Book(b, Log(d, from, to, n))[d]) = IF to = Zero THEN Sum(b[d]) - n ELSE Sum(b[d])
           /\ \A e \in Denoms : e # d => Book(b, Log(d, from, to, n))[e] = b[e]
           /\ n = 0 \/ from = to => Book(b, Log(d, from, to, n)) = b
<1> DEFINE m == SetTo(b, d, from, b[d][from] - n)
           c == Book(b, Log(d, from, to, n))
<1>0. b[d][from] \in Int /\ b[d][from] - n \in Int
  BY DEF Books
<1>1. /\ m \in Books
      /\ m[d][from] = b[d][from] - n /\ \A x \in Accounts : x # from => m[d][x] = b[d][x]
      /\ Sum(m[d]) = (Sum(b[d]) - b[d][from]) + (b[d][from] - n) /\ Sum(b[d]) \in Int
      /\ \A e \in Denoms : e # d => m[e] = b[e]
  <2> DEFINE v == b[d][from] - n
  <2>1. v \in Int /\ m = SetTo(b, d, from, v)
    BY <1>0
  <2> HIDE DEF v, m
  <2>2. /\ m \in Books
        /\ m[d][from] = v /\ \A x \in Accounts : x # from => m[d][x] = b[d][x]
        /\ Sum(m[d]) = (Sum(b[d]) - b[d][from]) + v /\ Sum(b[d]) \in Int
        /\ \A e \in Denoms : e # d => m[e] = b[e]
    BY <2>1, SetToSums
  <2> QED
    BY <2>2 DEF v
<1>2. c = IF to = Zero THEN m ELSE SetTo(m, d, to, m[d][to] + n)
  BY DEF Book, Log, SetTo
<1>3. Sum(m[d]) = Sum(b[d]) - n
  BY <1>0, <1>1
<1> HIDE DEF m, c
<1>4. CASE to = Zero
  <2>1. ASSUME n = 0 \/ from = to PROVE c = b
    <3>1. n = 0 /\ c = m
      BY <1>2, <1>4, <2>1, Erc20Assumption, SMTT(60)
    <3>2. \A x \in Accounts : m[d][x] = b[d][x]
      BY <1>0, <1>1, <3>1
    <3>3. m[d] = b[d]
      BY <1>1, <3>2, SMTT(60) DEF Books
    <3> QED
      BY <1>1, <3>1, <3>3 DEF Books
  <2> QED
    BY <1>1, <1>2, <1>3, <1>4, <2>1 DEF c
<1>5. CASE to # Zero
  <2>0. to \in Accounts /\ m[d][to] \in Int /\ m[d][to] + n \in Int
    BY <1>1, <1>5 DEF Books, Receivers
  <2>1. /\ c \in Books
        /\ c[d][to] = m[d][to] + n /\ \A x \in Accounts : x # to => c[d][x] = m[d][x]
        /\ Sum(c[d]) = (Sum(m[d]) - m[d][to]) + (m[d][to] + n)
        /\ \A e \in Denoms : e # d => c[e] = m[e]
    <3> DEFINE v == m[d][to] + n
    <3>1. v \in Int /\ c = SetTo(m, d, to, v)
      BY <1>2, <1>5, <2>0
    <3> HIDE DEF v
    <3>2. /\ c \in Books
          /\ c[d][to] = v /\ \A x \in Accounts : x # to => c[d][x] = m[d][x]
          /\ Sum(c[d]) = (Sum(m[d]) - m[d][to]) + v
          /\ \A e \in Denoms : e # d => c[e] = m[e]
      <4>1. m \in Books /\ to \in Accounts /\ d \in Denoms
        BY <1>1, <2>0
      <4>2. c \in Books
        BY ONLY <3>1, <4>1, SetToSums
      <4>3. c[d][to] = v
        BY ONLY <3>1, <4>1, SetToSums
      <4>4. \A x \in Accounts : x # to => c[d][x] = m[d][x]
        BY ONLY <3>1, <4>1, SetToSums, SMTT(60)
      <4>5. Sum(c[d]) = (Sum(m[d]) - m[d][to]) + v
        BY ONLY <3>1, <4>1, SetToSums
      <4>6. \A e \in Denoms : e # d => c[e] = m[e]
        BY <3>1, <4>1 DEF SetTo, Books
      <4> QED
        BY <4>2, <4>3, <4>4, <4>5, <4>6
    <3> QED
      BY <3>2 DEF v
  <2>2. Sum(c[d]) = Sum(b[d])
    BY <1>1, <1>3, <2>0, <2>1
  <2>3. ASSUME n = 0 \/ from = to PROVE c = b
    <3>1. \A x \in Accounts : c[d][x] = b[d][x]
      BY <1>0, <1>1, <2>0, <2>1, <2>3
    <3>2. c[d] = b[d]
      BY <2>1, <3>1 DEF Books
    <3> QED
      BY <1>1, <2>1, <3>2 DEF Books
  <2> QED
    BY <1>1, <1>5, <2>1, <2>2, <2>3 DEF c
<1> QED
  BY <1>4, <1>5

LEMMA BookIdle ==
    ASSUME NEW b \in Books, NEW d \in Denoms, NEW from \in Accounts,
           NEW to \in Receivers, NEW n \in Nat, n = 0 \/ from = to
    PROVE  Book(b, Log(d, from, to, n)) = b
  BY BookMoves

(* The follower books one log, or none.                                    *)
LEMMA BookNone == \A book : BookAll(book, <<>>) = book
<1> SUFFICES ASSUME NEW book PROVE BookAll(book, <<>>) = book
  OBVIOUS
<1> DEFINE logs == <<>>
           F(g) == g = [i \in 0..0 |-> IF i = 0 THEN book ELSE Book(g[i - 1], logs[i])]
<1>1. BookAll(book, logs) = (CHOOSE g : F(g))[0]
  BY DEF BookAll
<1>2. F([i \in 0..0 |-> book])
  OBVIOUS
<1>3. F(CHOOSE g : F(g))
  BY ONLY <1>2
<1> QED
  BY <1>1, <1>3

LEMMA BookOne ==
    ASSUME NEW book, NEW log
    PROVE  BookAll(book, <<log>>) = Book(book, log)
<1> DEFINE logs == <<log>>
           F(g) == g = [i \in 0..1 |-> IF i = 0 THEN book ELSE Book(g[i - 1], logs[i])]
<1>1. BookAll(book, logs) = (CHOOSE g : F(g))[1]
  BY DEF BookAll
<1>2. F([i \in 0..1 |-> IF i = 0 THEN book ELSE Book(book, log)])
  OBVIOUS
<1>3. F(CHOOSE g : F(g))
  BY ONLY <1>2
<1> DEFINE after == CHOOSE g : F(g)
<1>4. after = [i \in 0..1 |-> IF i = 0 THEN book ELSE Book(after[i - 1], logs[i])]
  BY <1>3
<1> HIDE DEF after
<1>5. after[0] = book /\ after[1] = Book(after[0], logs[1])
  BY <1>4
<1> QED
  BY <1>1, <1>5 DEF after

(* The books, the balances and what was burned.                            *)
BooksInv ==
    /\ bank \in Books /\ burned \in Burns
    /\ TransfersLogged

(* A result with one log, that of a transfer, if it is one of success: the *)
(* log books on balances b what the call moved, and u is what was burned.  *)
Logged(r, d, from, to, n, b, u) ==
    r.ok => /\ r.state.logs = <<Log(d, from, to, n)>>
            /\ r.state.bank = Book(b, Log(d, from, to, n))
            /\ r.state.burned = [u EXCEPT ![d] = IF to = Zero THEN @ + n ELSE @]

(* A transfer that succeeds writes one log, which books what it moves.     *)
LEMMA TransferIsLogged ==
    ASSUME NEW s, NEW d \in Denoms, NEW from \in Accounts, NEW to \in Receivers,
           NEW n \in Nat, s.bank \in Books, s.burned \in Burns,
           s = [bank |-> s.bank, burned |-> s.burned, allowance |-> s.allowance, logs |-> <<>>]
    PROVE  Logged(transfer(s, d, from, to, n), d, from, to, n, s.bank, s.burned)
<1> SUFFICES ASSUME transfer(s, d, from, to, n).ok
             PROVE  LET t == transfer(s, d, from, to, n).state
                    IN  /\ t.logs = <<Log(d, from, to, n)>>
                        /\ t.bank = Book(s.bank, Log(d, from, to, n))
                        /\ t.burned = [s.burned EXCEPT ![d] = IF to = Zero THEN @ + n ELSE @]
  BY DEF Logged
<1> USE DEF Burns
<1> DEFINE t == transfer(s, d, from, to, n).state
           log == Log(d, from, to, n)
<1>1. t.logs = <<log>>
  <2>1. t.logs = Append(s.logs, log)
    BY DEF transfer, Ok, Error
  <2>2. s.logs = <<>>
    OBVIOUS
  <2>3. Append(<<>>, log) = <<log>>
    OBVIOUS
  <2> QED
    BY <2>1, <2>2, <2>3, Zenon
<1>2. CASE n = 0 \/ from = to
  <2>1. t.bank = s.bank /\ t.burned = s.burned
    BY <1>2 DEF transfer, Ok, Error
  <2>2. Book(s.bank, log) = s.bank
    BY <1>2, BookIdle
  <2>3. s.burned = [s.burned EXCEPT ![d] = IF to = Zero THEN @ + n ELSE @]
    <3>1. to = Zero => s.burned[d] + n = s.burned[d]
      BY <1>2, Erc20Assumption
    <3> QED
      BY <3>1
  <2> QED
    BY <1>1, <2>1, <2>2, <2>3
<1>3. CASE n # 0 /\ from # to
  <2>1. CASE to = Zero
    BY <1>1, <1>3, <2>1 DEF transfer, Ok, Error, Book, Log
  <2>2. CASE to # Zero
    BY <1>1, <1>3, <2>2, SMTT(60) DEF transfer, Ok, Error, Book, Log
  <2> QED
    BY <2>1, <2>2
<1> QED
  BY <1>2, <1>3

(* Coins move, and the log of it is booked.                                *)
LEMMA BooksMove ==
    ASSUME BooksInv, NEW d \in Denoms, NEW from \in Accounts, NEW to \in Receivers, NEW n \in Nat,
           bank' = Book(bank, Log(d, from, to, n)), replay' = bank',
           burned' = [burned EXCEPT ![d] = IF to = Zero THEN @ + n ELSE @]
    PROVE  BooksInv'
<1> USE DEF BooksInv
<1>1. /\ bank' \in Books /\ Sum(bank[d]) \in Int
      /\ Sum(bank'[d]) = IF to = Zero THEN Sum(bank[d]) - n ELSE Sum(bank[d])
      /\ \A e \in Denoms : e # d => bank'[e] = bank[e]
  BY BookMoves
<1>2. burned' \in Burns /\ burned[d] \in Int
      /\ burned'[d] = (IF to = Zero THEN burned[d] + n ELSE burned[d])
      /\ \A e \in Denoms : e # d => burned'[e] = burned[e]
  BY DEF Burns
<1>3. ASSUME NEW e \in Denoms PROVE Sum(bank'[e]) + burned'[e] = Sum(InitBalances[e])
  <2>1. Sum(bank[e]) + burned[e] = Sum(InitBalances[e])
    BY DEF TransfersLogged, Supply
  <2>2. CASE e = d
    BY <1>1, <1>2, <2>1, <2>2
  <2>3. CASE e # d
    BY <1>1, <1>2, <2>1, <2>3
  <2> QED
    BY <2>2, <2>3
<1> QED
  BY <1>1, <1>2, <1>3 DEF TransfersLogged, Supply

(* A call that succeeds with one log, or fails, keeps the books.           *)
LEMMA CallKeepsBooks ==
    ASSUME BooksInv, NEW d \in Denoms, NEW from \in Accounts, NEW to \in Receivers, NEW n \in Nat,
           NEW result, Call(result), Logged(result, d, from, to, n, bank, burned)
    PROVE  BooksInv'
<1>1. CASE result.ok
  <2>1. /\ bank' = Book(bank, Log(d, from, to, n))
        /\ burned' = [burned EXCEPT ![d] = IF to = Zero THEN @ + n ELSE @]
        /\ replay' = BookAll(replay, <<Log(d, from, to, n)>>) /\ replay = bank
    BY <1>1, Zenon DEF Call, BooksInv, TransfersLogged, Logged
  <2>2. replay' = bank'
    BY <2>1, BookOne
  <2> QED
    BY ONLY BooksInv, d \in Denoms, from \in Accounts, to \in Receivers, n \in Nat, <2>1, <2>2, BooksMove, Zenon
<1>2. CASE ~result.ok
  <2>1. bank' = bank /\ burned' = burned /\ replay' = BookAll(replay, <<>>)
    BY <1>2 DEF Call, Current
  <2>2. replay' = replay
    BY <2>1, BookNone
  <2> QED
    BY <2>1, <2>2 DEF BooksInv, TransfersLogged, Supply
<1> QED
  BY <1>1, <1>2

(* The methods that transfer: the caller's own coins, or those of another. *)
LEMMA TransferKeepsBooks ==
    ASSUME BooksInv, NEW d \in Denoms, NEW from \in Accounts, NEW to \in Receivers, NEW n \in Nat,
           Call(transfer(Current, d, from, to, n))
    PROVE  BooksInv'
<1>1. /\ Current = [bank |-> Current.bank, burned |-> Current.burned,
                    allowance |-> Current.allowance, logs |-> <<>>]
      /\ Current.bank = bank /\ Current.burned = burned
      /\ Current.bank \in Books /\ Current.burned \in Burns
  BY DEF Current, BooksInv
<1>2. Logged(transfer(Current, d, from, to, n), d, from, to, n, bank, burned)
  BY <1>1, TransferIsLogged
<1> QED
  BY <1>2, CallKeepsBooks

LEMMA TakeKeepsBooks ==
    ASSUME BooksInv, NEW caller, NEW d \in Denoms, NEW from \in Accounts, NEW to \in Receivers,
           NEW n \in Nat, Take(caller, d, from, to, n)
    PROVE  BooksInv'
<1> DEFINE spent == Spend(Current, from, caller, n)
           result == TransferFrom(caller, d, from, to, n)
<1>1. /\ spent.state = [bank |-> spent.state.bank, burned |-> spent.state.burned,
                        allowance |-> spent.state.allowance, logs |-> <<>>]
      /\ spent.state.bank = bank /\ spent.state.burned = burned
  BY DEF Spend, spendAllowance, Ok, Error, Current
<1>2. result.ok => result = transfer(spent.state, d, from, to, n)
  BY DEF TransferFrom
<1> HIDE DEF spent
<1>3. Logged(transfer(spent.state, d, from, to, n), d, from, to, n, bank, burned)
  BY <1>1, TransferIsLogged DEF BooksInv
<1>4. Call(result)
  BY DEF Take
<1> HIDE DEF result
<1>5. Logged(result, d, from, to, n, bank, burned)
  BY <1>2, <1>3, Zenon DEF Logged
<1> QED
  BY <1>4, <1>5, CallKeepsBooks

(* The Transfer logs and the bank's events tell all balances, and nothing  *)
(* but a burn changes the supply: for any accounts, denoms and amounts.    *)
THEOREM TransfersRight == Erc20Spec => []TransfersLogged
<1>1. Erc20Init => BooksInv
  <2> SUFFICES ASSUME Erc20Init PROVE BooksInv
    OBVIOUS
  <2>1. /\ bank = InitBalances /\ replay = bank /\ burned = [d \in Denoms |-> 0]
        /\ InitBalances \in Books
    BY Erc20Assumption DEF Erc20Init, Books
  <2>2. ASSUME NEW d \in Denoms PROVE Sum(InitBalances[d]) \in Int
    BY <2>1, SumType DEF Books
  <2> QED
    BY <2>1, <2>2 DEF BooksInv, TransfersLogged, Supply, Burns
<1>2. BooksInv /\ [Erc20Next]_erc20Vars => BooksInv'
  <2> SUFFICES ASSUME BooksInv, [Erc20Next]_erc20Vars
               PROVE  BooksInv'
    OBVIOUS
  <2>1. ASSUME UNCHANGED <<bank, burned, replay>> PROVE BooksInv'
    BY <2>1 DEF BooksInv, TransfersLogged, Supply
  <2>2. CASE RegistryStep \/ UNCHANGED erc20Vars
    BY <2>1, <2>2 DEF RegistryStep, erc20Vars, tokenVars
  <2>3. CASE Restart
    BY <2>1, <2>3 DEF Restart
  <2>4. CASE Erc20Step
    <3> PICK a \in Accounts, b \in Accounts, d \in Denoms, n \in Amounts :
            \/ \E to \in Accounts : CallTransferFrom(a, d, b, to, n)
            \/ CallBurnFrom(a, d, b, n)
            \/ CallTransfer(a, d, b, n)
            \/ CallBurn(a, d, n)
            \/ <<a, b>> \in Approvers /\ CallApprove(a, d, b, n)
            \/ BankSend(d, a, b, n)
      BY <2>4, Zenon DEF Erc20Step
    <3>1. n \in Nat /\ Zero \in Receivers /\ \A x \in Accounts : x \in Receivers
      BY DEF Amounts, Receivers
    <3>2. ASSUME NEW to \in Accounts, CallTransferFrom(a, d, b, to, n) PROVE BooksInv'
      BY <3>1, <3>2, TakeKeepsBooks DEF CallTransferFrom
    <3>3. CASE CallBurnFrom(a, d, b, n)
      BY <3>1, <3>3, TakeKeepsBooks DEF CallBurnFrom
    <3>4. CASE CallTransfer(a, d, b, n)
      BY <3>1, <3>4, TransferKeepsBooks DEF CallTransfer
    <3>5. CASE CallBurn(a, d, n)
      BY <3>1, <3>5, TransferKeepsBooks DEF CallBurn
    <3>6. CASE CallApprove(a, d, b, n)
      BY <2>1, <3>6 DEF CallApprove
    <3>7. CASE BankSend(d, a, b, n)
      <4>1. b # Zero /\ replay = bank
        BY Erc20Assumption DEF BooksInv, TransfersLogged
      <4>2. /\ bank' = Book(bank, Log(d, a, b, n)) /\ replay' = Book(replay, Log(d, a, b, n))
            /\ burned' = burned
        BY <3>7, <4>1, ZenonT(60) DEF BankSend, Book, Log
      <4>3. burned' = [burned EXCEPT ![d] = IF b = Zero THEN @ + n ELSE @] /\ replay' = bank'
        BY <4>1, <4>2 DEF BooksInv, Burns
      <4> QED
        BY <3>1, <4>2, <4>3, BooksMove, Zenon
    <3> QED
      BY <3>2, <3>3, <3>4, <3>5, <3>6, <3>7
  <2> QED
    BY <2>2, <2>3, <2>4 DEF Erc20Next
<1> QED
  BY <1>1, <1>2, PTL DEF Erc20Spec, BooksInv

(***************************************************************************)
(* Vesting accounts.                                                       *)
(***************************************************************************)

(* g is what the first n messages of tx come to, one after the other.      *)
Runs(g, tx, n) == g = [i \in 0..n |-> IF i = 0 THEN Ran(VState) ELSE Handle(g[i - 1], tx[i])]

LEMMA RunsExist ==
    ASSUME NEW tx, NEW n \in Nat
    PROVE  \E g : Runs(g, tx, n)
<1> DEFINE S == {k \in Nat : \E g : Runs(g, tx, k)}
<1>1. 0 \in S
  <2>1. Runs([i \in 0..0 |-> Ran(VState)], tx, 0)
    BY DEF Runs
  <2> QED
    BY <2>1
<1>2. ASSUME NEW k \in Nat, k \in S PROVE k + 1 \in S
  <2>1. PICK g : Runs(g, tx, k)
    BY <1>2
  <2> DEFINE h == [i \in 0..(k + 1) |-> IF i = k + 1 THEN Handle(g[k], tx[k + 1]) ELSE g[i]]
  <2>2. \A i \in 0..k : h[i] = g[i]
    OBVIOUS
  <2>3. \A i \in 0..k : g[i] = IF i = 0 THEN Ran(VState) ELSE Handle(g[i - 1], tx[i])
    BY <2>1 DEF Runs
  <2>4. \A i \in 0..(k + 1) : h[i] = IF i = 0 THEN Ran(VState) ELSE Handle(h[i - 1], tx[i])
    BY <2>2, <2>3
  <2>5. Runs(h, tx, k + 1)
    BY <2>4 DEF Runs
  <2> QED
    BY <2>5
<1>3. Nat \subseteq S
  <2> HIDE DEF S
  <2> QED
    BY <1>1, <1>2, Induct, SMTT(60)
<1> QED
  BY <1>3

LEMMA RunMsgsIs ==
    ASSUME NEW tx, Len(tx) \in Nat
    PROVE  \E g : /\ RunMsgs(tx) = g[Len(tx)] /\ g[0] = Ran(VState)
                  /\ \A i \in 0..(Len(tx) - 1) : g[i + 1] = Handle(g[i], tx[i + 1])
<1> DEFINE after == CHOOSE g : Runs(g, tx, Len(tx))
<1>1. RunMsgs(tx) = after[Len(tx)]
  BY DEF RunMsgs, Runs
<1>2. Runs(after, tx, Len(tx))
  BY RunsExist, Zenon
<1> HIDE DEF after
<1>3. after[0] = Ran(VState) /\ \A i \in 0..(Len(tx) - 1) : after[i + 1] = Handle(after[i], tx[i + 1])
  BY <1>2, SMTT(60) DEF Runs
<1> QED
  BY <1>1, <1>3, SMTT(60)

(* A state the messages may leave: whoever has a proof or vests has a key, *)
(* and the proofs are paid for.                                            *)
Sound(s) ==
    /\ s = [proven |-> s.proven, vesting |-> s.vesting, funds |-> s.funds, burned |-> s.burned]
    /\ s.proven \subseteq Eoas /\ s.vesting \subseteq Eoas
    /\ s.burned \in Nat /\ s.burned >= Cardinality(s.proven)
SoundResult(r) == r.ok => Sound(r.s)

(* A message passes the guards only with a key behind it: a proof by its   *)
(* signature, a vesting account by the proof that is stored.               *)
Backed(m) ==
    /\ m.type = "MsgSubmitProof" => m.signer \in Eoas
    /\ m.type = "MsgCreateVestingAccount" => m.account \in Eoas

LEMMA SubmitProofSound ==
    ASSUME NEW s, Sound(s), NEW m, m.signer \in Eoas
    PROVE  SoundResult(SubmitProof(s, m))
<1> SUFFICES ASSUME SubmitProof(s, m).ok PROVE Sound(SubmitProof(s, m).s)
  BY DEF SoundResult
<1>1. /\ m.account \in Eoas /\ m.account \notin s.proven
      /\ SubmitProof(s, m).s = [s EXCEPT !.funds[m.by] = @ - 1, !.burned = @ + 1, !.proven = @ \cup {m.account}]
  BY DEF SubmitProof, Ran, Failed, VerifySignature
<1> DEFINE t == SubmitProof(s, m).s
<1>2. /\ t.proven = s.proven \cup {m.account} /\ t.vesting = s.vesting /\ t.burned = s.burned + 1
      /\ t = [proven |-> t.proven, vesting |-> t.vesting, funds |-> t.funds, burned |-> t.burned]
  BY <1>1, Zenon DEF Sound
<1> HIDE DEF t
<1>3. IsFiniteSet(s.proven)
  BY VAuthAssumption, FS_Subset DEF Sound
<1>4. Cardinality(t.proven) = Cardinality(s.proven) + 1 /\ Cardinality(s.proven) \in Nat
  BY <1>1, <1>2, <1>3, FS_AddElement, FS_CardinalityType
<1>5. t.burned \in Nat /\ t.burned >= Cardinality(t.proven)
  BY <1>2, <1>4 DEF Sound
<1>6. t.proven \subseteq Eoas /\ t.vesting \subseteq Eoas
  BY <1>1, <1>2 DEF Sound
<1> QED
  BY <1>2, <1>5, <1>6 DEF Sound, t

LEMMA CreateVestingAccountSound ==
    ASSUME NEW s, Sound(s), NEW m, m.account \in Eoas
    PROVE  SoundResult(CreateVestingAccount(s, m))
<1> SUFFICES ASSUME CreateVestingAccount(s, m).ok PROVE Sound(CreateVestingAccount(s, m).s)
  BY DEF SoundResult
<1>1. CreateVestingAccount(s, m).s = [s EXCEPT !.vesting = @ \cup {m.account}]
  BY DEF CreateVestingAccount, Ran, Failed
<1> QED
  BY <1>1 DEF Sound

LEMMA HandleSound ==
    ASSUME NEW r, SoundResult(r), NEW m, Backed(m)
    PROVE  SoundResult(Handle(r, m))
<1>1. CASE ~r.ok \/ m.type \notin {"MsgSubmitProof", "MsgCreateVestingAccount"}
  BY <1>1 DEF Handle
<1>2. CASE r.ok /\ m.type = "MsgSubmitProof"
  <2>1. Handle(r, m) = SubmitProof(r.s, m) /\ Sound(r.s) /\ m.signer \in Eoas
    BY <1>2 DEF Handle, SoundResult, Backed
  <2> QED
    BY <2>1, SubmitProofSound
<1>3. CASE r.ok /\ m.type = "MsgCreateVestingAccount"
  <2>1. Handle(r, m) = CreateVestingAccount(r.s, m) /\ Sound(r.s) /\ m.account \in Eoas
    BY <1>3 DEF Handle, SoundResult, Backed
  <2> QED
    BY <2>1, CreateVestingAccountSound
<1> QED
  BY <1>1, <1>2, <1>3

(* The messages, however many there are.                                   *)
LEMMA RunMsgsSound ==
    ASSUME NEW tx, Len(tx) \in Nat, Sound(VState), \A i \in 1..Len(tx) : Backed(tx[i])
    PROVE  SoundResult(RunMsgs(tx))
<1>1. PICK g : /\ RunMsgs(tx) = g[Len(tx)] /\ g[0] = Ran(VState)
               /\ \A i \in 0..(Len(tx) - 1) : g[i + 1] = Handle(g[i], tx[i + 1])
  BY RunMsgsIs, SMTT(60)
<1> DEFINE S == {k \in Nat : k <= Len(tx) => SoundResult(g[k])}
<1>2. 0 \in S
  BY <1>1 DEF SoundResult, Ran
<1>3. ASSUME NEW k \in Nat, k \in S PROVE k + 1 \in S
  <2> SUFFICES ASSUME k + 1 <= Len(tx) PROVE SoundResult(g[k + 1])
    OBVIOUS
  <2>1. k \in 0..(Len(tx) - 1) /\ k + 1 \in 1..Len(tx) /\ k <= Len(tx)
    OBVIOUS
  <2>2. SoundResult(g[k]) /\ g[k + 1] = Handle(g[k], tx[k + 1]) /\ Backed(tx[k + 1])
    BY <1>1, <1>3, <2>1
  <2> QED
    BY <2>2, HandleSound
<1>4. Nat \subseteq S
  <2> HIDE DEF S
  <2> QED
    BY <1>2, <1>3, Induct
<1> QED
  BY <1>1, <1>4, SMTT(60)

VInv == Sound(VState)

LEMMA AcceptedBacked ==
    ASSUME VInv, NEW tx \in Transactions, Accepted(tx)
    PROVE  Len(tx) \in Nat /\ \A i \in 1..Len(tx) : Backed(tx[i])
<1>1. PICK n \in 1..MaxMessages : tx \in [1..n -> Messages]
  BY DEF Transactions
<1>2. n \in Nat /\ Len(tx) = n /\ DOMAIN tx = 1..n
  BY <1>1, VAuthAssumption, SMTT(60)
<1>3. ASSUME NEW i \in 1..n PROVE Backed(tx[i])
  <2> DEFINE m == tx[i]
  <2>1. m \in Messages /\ i \in DOMAIN tx
    BY <1>1, <1>2, SMTT(60)
  <2>2. m.level \in 1..MaxLevel /\ (m.type = "MsgSubmitProof" => m.signer \in Eoas)
    BY <2>1, Zenon DEF Messages
  <2> HIDE DEF m
  <2>3. ASSUME m.type = "MsgCreateVestingAccount" PROVE m.account \in Eoas
    <3>1. ~checkDisabledMsgs(m)
      BY <2>1, Zenon DEF Accepted, RejectAuthzMsgs, m
    <3>2. ~(m.level > 1)
      BY <2>3, <3>1 DEF checkDisabledMsgs, isDisabledMsg, DisabledNestedMsgs
    <3>3. m.level = 1
      BY <2>2, <3>2, VAuthAssumption
    <3>4. m.account \in proven
      BY <2>1, <2>3, <3>3, Zenon DEF Accepted, RejectVestingMsgs, m
    <3> QED
      BY <3>4 DEF VInv, Sound, VState
  <2> QED
    BY <2>2, <2>3 DEF Backed, m
<1> QED
  BY <1>2, <1>3

(* No address without a key ever vests or has a proof, and every proof was *)
(* paid for: for transactions of any length and nesting.                   *)
THEOREM VestingRight == VAuthSpec => []VestingProven
<1>1. VAuthInit => VInv
  <2>1. Cardinality({}) = 0
    BY FS_EmptySet
  <2> QED
    BY <2>1 DEF VAuthInit, VInv, Sound, VState
<1>2. VInv /\ [VAuthNext]_vauthVars => VInv'
  <2> SUFFICES ASSUME VInv, [VAuthNext]_vauthVars PROVE VInv'
    OBVIOUS
  <2>1. CASE ExportVAuth
    <3>1. Cardinality({}) = 0
      BY FS_EmptySet
    <3> QED
      BY <2>1, <3>1 DEF ExportVAuth, VInv, Sound, VState
  <2>2. ASSUME NEW tx \in Transactions, DeliverCosmosTx(tx) PROVE VInv'
    <3>1. Accepted(tx) /\ RunMsgs(tx).ok
          /\ VState' = [proven |-> RunMsgs(tx).s.proven, vesting |-> RunMsgs(tx).s.vesting,
                        funds |-> RunMsgs(tx).s.funds, burned |-> RunMsgs(tx).s.burned]
      BY <2>2 DEF DeliverCosmosTx, VState
    <3>2. SoundResult(RunMsgs(tx))
      BY <3>1, AcceptedBacked, RunMsgsSound DEF VInv
    <3>3. VState' = RunMsgs(tx).s /\ Sound(RunMsgs(tx).s)
      BY <3>1, <3>2, Zenon DEF SoundResult, Sound
    <3>4. Sound(VState')
      BY <3>3, Zenon
    <3> QED
      BY <3>4 DEF VInv, Sound
  <2>3. CASE UNCHANGED vauthVars
    BY <2>3, SMTT(60) DEF vauthVars, VInv, Sound, VState
  <2> QED
    BY <2>1, <2>2, <2>3, SMTT(60) DEF VAuthNext
<1>3. VInv => VestingProven
  BY DEF VInv, Sound, VState, VestingProven
<1> QED
  BY <1>1, <1>2, <1>3, PTL DEF VAuthSpec

=============================================================================
