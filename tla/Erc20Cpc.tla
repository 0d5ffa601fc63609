------------------------------ MODULE Erc20Cpc ------------------------------
(***************************************************************************)
(* The ERC-20 precompile (x/cpc/keeper/precompiles_erc20.go): the methods  *)
(* of the contracts in the registry, over the bank's coins.  Allowances    *)
(* are stored under owner and spender alone, without the contract.         *)
(*                                                                         *)
(* A method that returns an error has its writes undone by the EVM, which  *)
(* reverts to the snapshot it took before the call; that the StateDB then  *)
(* restores everything is shown in StateDb.                                *)
(***************************************************************************)
EXTENDS CpcRegistry, Integers, Sequences

CONSTANTS MaxUint256,      \* the largest amount; as an allowance: infinite
          InitBalances,    \* denom -> account -> balance at genesis
          Locked,          \* denom -> account -> coins locked by vesting
          Approvers,       \* bound: the <<owner, spender>> that approve
          ParamsSet        \* bound: the params governance chooses from

(* The zero address, which stands for a burn in a log, holds no coins.     *)
Zero == "zero address"

ASSUME Erc20Assumption ==
    /\ MaxUint256 \in Nat \ {0} /\ Zero \notin Accounts
    /\ InitBalances \in [Denoms -> [Accounts -> Nat]]
    /\ Locked \in [Denoms -> [Accounts -> Nat]]
    /\ Approvers \subseteq Accounts \X Accounts
    /\ ParamsSet \subseteq [version : 1..LatestVersion, deployers : SUBSET Accounts]

VARIABLES bank,            \* denom -> account -> balance (x/bank)
          burned,          \* history: denom -> coins burned
          allowance,       \* <<owner, spender>> -> allowance
          approved,        \* history: <<owner, spender>> -> last approval
          taken,           \* history: ... -> taken by the spender since
          replay           \* history: the balances a reader of logs derives

tokenVars == <<bank, burned, allowance, approved, taken, replay>>
erc20Vars == <<registryVars, tokenVars>>

Amounts == 0..MaxUint256
Pairs == Accounts \X Accounts

(* The sum of a function over the accounts.                                *)
Sum(f) ==
    LET sum[S \in SUBSET Accounts] ==
            IF S = {} THEN 0
            ELSE LET a == CHOOSE x \in S : TRUE IN f[a] + sum[S \ {a}]
    IN  sum[Accounts]

Supply(d) == Sum(bank[d])

(* The state a method works on, and its result.                            *)
Current == [bank |-> bank, burned |-> burned, allowance |-> allowance, logs |-> <<>>]
Ok(s) == [ok |-> TRUE, state |-> s]
Error(s) == [ok |-> FALSE, state |-> s]

(* x/bank: coins locked by vesting can not be sent.                        *)
Spendable(s, d, a) == s.bank[d][a] - Locked[d][a]

(* The Transfer log of a contract; the zero address stands for a burn.     *)
Log(d, from, to, amount) == [denom |-> d, from |-> from, to |-> to, amount |-> amount]

(* Mutant: the allowance that is left is not stored.                       *)
spendAllowance_NotStored(s, owner, spender, amount) ==
    IF s.allowance[<<owner, spender>>] < amount THEN Error(s) ELSE Ok(s)

spendAllowance(s, owner, spender, amount) ==
    LET current == s.allowance[<<owner, spender>>]
    IN  IF current = MaxUint256 THEN Ok(s)
        ELSE IF current < amount THEN Error(s)
        ELSE Ok([s EXCEPT !.allowance[<<owner, spender>>] = current - amount])

(* Mutant: a transfer to oneself goes through the bank in two halves.      *)
transfer_SelfDoubles(s, d, from, to, amount) ==
    IF s.bank[d][from] < amount \/ Spendable(s, d, from) < amount THEN Error(s)
    ELSE LET paid == [s EXCEPT !.logs = Append(@, Log(d, from, to, amount))]
         IN  Ok(IF to = Zero
                THEN [paid EXCEPT !.bank[d][from] = @ - amount, !.burned[d] = @ + amount]
                ELSE [paid EXCEPT !.bank[d] =
                        [a \in Accounts |-> IF a = to THEN @[a] + amount
                                            ELSE IF a = from THEN @[a] - amount ELSE @[a]]])

(* transfer: the balance is tested first, coins move only between two      *)
(* different addresses, and the log is written in any case.                *)
transfer(s, d, from, to, amount) ==
    LET logged == [s EXCEPT !.logs = Append(@, Log(d, from, to, amount))]
    IN  IF s.bank[d][from] < amount THEN Error(s)
        ELSE IF amount = 0 \/ from = to THEN Ok(logged)
        ELSE IF Spendable(s, d, from) < amount THEN Error(s)
        ELSE IF to = Zero
        THEN Ok([logged EXCEPT !.bank[d][from] = @ - amount, !.burned[d] = @ + amount])
        ELSE Ok([logged EXCEPT !.bank[d][from] = @ - amount, !.bank[d][to] = @ + amount])

(* A follower of the logs books them on the balances it knew.              *)
Book(book, log) ==
    LET debited == [book EXCEPT ![log.denom][log.from] = @ - log.amount]
    IN  IF log.to = Zero THEN debited
        ELSE [debited EXCEPT ![log.denom][log.to] = @ + log.amount]

BookAll(book, logs) ==
    LET after[i \in 0..Len(logs)] == IF i = 0 THEN book ELSE Book(after[i - 1], logs[i])
    IN  after[Len(logs)]

(* The EVM's call: on an error it reverts to its snapshot.                 *)
Call(result) ==
    LET s == IF result.ok THEN result.state ELSE Current
    IN  /\ bank' = s.bank /\ burned' = s.burned /\ allowance' = s.allowance
        /\ replay' = BookAll(replay, s.logs)

(* The registry has an ERC-20 contract for d at some address.              *)
Contract(d) == \E a \in Addresses : metas[a] = Erc20Meta(d)

(* The allowance a caller needs to move the coins of `from'.               *)
Spend(s, from, caller, amount) ==
    IF from = caller THEN Ok(s) ELSE spendAllowance(s, from, caller, amount)

(* transferFrom and burnFrom: the allowance is spent before the transfer.  *)
TransferFrom(caller, d, from, to, amount) ==
    LET spent == Spend(Current, from, caller, amount)
    IN  IF ~spent.ok THEN spent
        ELSE transfer(spent.state, d, from, to, amount)

(* The call, and the books of the history variables.                       *)
Take(caller, d, from, to, amount) ==
    LET result == TransferFrom(caller, d, from, to, amount)
        counts == result.ok /\ from # caller /\ approved[<<from, caller>>] # MaxUint256
    IN  /\ Contract(d)
        /\ Call(result)
        /\ taken' = IF counts THEN [taken EXCEPT ![<<from, caller>>] = @ + amount] ELSE taken
        /\ UNCHANGED <<registryVars, approved>>

CallTransferFrom(caller, d, from, to, amount) == Take(caller, d, from, to, amount)

CallBurnFrom(caller, d, from, amount) == Take(caller, d, from, Zero, amount)

CallTransfer(caller, d, to, amount) ==
    /\ Contract(d)
    /\ Call(transfer(Current, d, caller, to, amount))
    /\ UNCHANGED <<registryVars, approved, taken>>

CallBurn(caller, d, amount) ==
    /\ Contract(d)
    /\ Call(transfer(Current, d, caller, Zero, amount))
    /\ UNCHANGED <<registryVars, approved, taken>>

(* approve, of any of the contracts: it replaces the allowance.            *)
CallApprove(owner, d, spender, value) ==
    /\ Contract(d)
    /\ allowance' = [allowance EXCEPT ![<<owner, spender>>] = value]
    /\ approved' = [approved EXCEPT ![<<owner, spender>>] = value]
    /\ taken' = [taken EXCEPT ![<<owner, spender>>] = 0]
    /\ UNCHANGED <<registryVars, bank, burned, replay>>

(* A bank message; it emits the bank's events, which a follower also has.  *)
BankSend(d, from, to, amount) ==
    /\ from # to /\ amount > 0 /\ Spendable(Current, d, from) >= amount
    /\ bank' = [bank EXCEPT ![d][from] = @ - amount, ![d][to] = @ + amount]
    /\ replay' = Book(replay, Log(d, from, to, amount))
    /\ UNCHANGED <<registryVars, burned, allowance, approved, taken>>

(* An export and a new start: x/bank carries the balances over, x/cpc does *)
(* not carry the allowances over.                                          *)
Restart ==
    /\ ExportGenesis
    /\ allowance' = [p \in Pairs |-> 0]
    /\ approved' = [p \in Pairs |-> 0] /\ taken' = [p \in Pairs |-> 0]
    /\ UNCHANGED <<bank, burned, replay>>

Erc20Init ==
    /\ \E p \in ParamsSet, erc20, staking \in BOOLEAN : InitGenesis(p, erc20, staking)
    /\ bank = InitBalances /\ replay = InitBalances
    /\ burned = [d \in Denoms |-> 0]
    /\ allowance = [p \in Pairs |-> 0]
    /\ approved = [p \in Pairs |-> 0] /\ taken = [p \in Pairs |-> 0]

RegistryStep ==
    /\ \/ \E a \in Accounts, d \in Denoms : DeployErc20Contract(a, d, Supply(d))
       \/ \E a \in Accounts : DeployStakingContract(a)
       \/ \E p \in ParamsSet : UpdateParams(p)
    /\ UNCHANGED tokenVars

Erc20Step ==
    \E a, b \in Accounts, d \in Denoms, n \in Amounts :
        \/ \E to \in Accounts : CallTransferFrom(a, d, b, to, n)
        \/ CallBurnFrom(a, d, b, n)
        \/ CallTransfer(a, d, b, n)
        \/ CallBurn(a, d, n)
        \/ <<a, b>> \in Approvers /\ CallApprove(a, d, b, n)
        \/ BankSend(d, a, b, n)

Erc20Next == RegistryStep \/ Erc20Step \/ Restart
Erc20Spec == Erc20Init /\ [][Erc20Next]_erc20Vars

(***************************************************************************)
(* Properties.                                                             *)
(***************************************************************************)

(* What an owner approved is what the spender has taken since, through     *)
(* transferFrom and burnFrom of ALL contracts together, and what is left:  *)
(* a call that fails costs nothing, and no call is free, unless the        *)
(* approval is infinite and stays so.                                      *)
AllowanceBudget ==
    \A p \in Pairs : allowance[p] + taken[p] = approved[p]

(* Whoever books the Transfer logs of the contracts, next to the bank's    *)
(* own events, has the balances of the bank, and coins only leave the      *)
(* supply by burning: zero amounts, transfers to oneself and calls that    *)
(* failed on locked coins included.                                        *)
TransfersLogged ==
    /\ replay = bank
    /\ \A d \in Denoms : Supply(d) + burned[d] = Sum(InitBalances[d])

=============================================================================
