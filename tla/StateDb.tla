------------------------------ MODULE StateDb ------------------------------
(***************************************************************************)
(* The account-level behaviour of the Context-based StateDB                *)
(* (x/evm/vm/state_db.go): every method the EVM calls is one action over   *)
(* the auth, bank and evm state seen through currentCtx.  Snapshots are    *)
(* whole copies of that state; CtxStore shows that the nested contexts of  *)
(* the code are exactly that.  A method that panics drops the StateDB, as  *)
(* runTx recovers and discards the context.  The transactions of the model *)
(* are those of one block: block time, and with it what the bank keeps     *)
(* locked in a vesting account, stays the same; the clock of the node,     *)
(* which DestroyAccount reads, moves.                                      *)
(***************************************************************************)
EXTENDS Integers, Sequences, FiniteSets

CONSTANTS
    Addrs, Denoms, EvmDenom,
    Slots, Words, Zero,     \* storage keys and values; Zero is the zero hash
    Codes,                  \* hashes of nonempty contract codes
    NoAcc, NoCode, Absent,  \* nothing stored in auth, code hash, storage
    Blocked,                \* module addresses, which the bank lets nobody send to
    Locked,                 \* what the bank keeps locked in a vesting account
    Genesis,                \* worlds a block may start from
    Coinbase, Precompiles,  \* warm from the start of every transaction
    AccessLists,            \* access lists a transaction may carry
    Logs,
    Amounts, Nonces, Gas,   \* inputs of AddBalance, SubBalance, SetNonce, AddRefund...
    RefundMod,              \* the refund counter is a uint64: 2^64 in the code
    MaxSnapshots, MaxOps    \* bounds for model checking

VARIABLES
    store,      \* behind originalCtx: what is committed
    world,      \* seen through currentCtx
    trk,        \* the revertible in-memory fields of cStateDb
    saved,      \* one copy of world and trk per live snapshot id
    phase,      \* "open", "committing" or "closed"
    todo,       \* touched addresses the commit loop has not visited yet
    begun,      \* history: the world when the commit loop started
    expired,    \* the node's clock is past the vesting end time
    ops         \* number of operations so far, for the bound

vars == <<store, world, trk, saved, phase, todo, begun, expired, ops>>

Account == [num : Nat, seq : Nat, kind : {"base", "module", "vesting"}]
World == [acc    : [Addrs -> Account \cup {NoAcc}],
          bal    : [Addrs -> [Denoms -> Nat]],
          code   : [Addrs -> Codes \cup {NoCode}],
          stor   : [Addrs -> [Slots -> Words \cup {Absent}]],
          next   : Nat,                 \* the global account number counter
          supply : [Denoms -> Int]]
Trackers == [touched : SUBSET Addrs, destructed : SUBSET Addrs,
             refund : 0..(RefundMod - 1),
             warm : SUBSET Addrs, warmSlots : SUBSET (Addrs \X Slots),
             logs : Seq(Logs), transient : [Addrs \X Slots -> Words],
             born : SUBSET Addrs]       \* history: accounts made by this StateDB

NoCoins == [d \in Denoms |-> 0]
EvmCoins(n) == [NoCoins EXCEPT ![EvmDenom] = n]
NoStorage == [s \in Slots |-> Absent]

FreshTrackers ==
    [touched |-> {}, destructed |-> {}, refund |-> 0, warm |-> {}, warmSlots |-> {},
     logs |-> <<>>, transient |-> [x \in Addrs \X Slots |-> Zero], born |-> {}]

(* No account, then no coins, no code and no storage either.               *)
Rooted(w) ==
    \A a \in Addrs : w.acc[a] = NoAcc =>
        w.bal[a] = NoCoins /\ w.code[a] = NoCode /\ w.stor[a] = NoStorage

(* Account numbers come from the counter and are never shared.             *)
Numbered(w) ==
    \A a \in Addrs : w.acc[a] # NoAcc =>
        /\ w.acc[a].num < w.next
        /\ \A b \in Addrs \ {a} : w.acc[b] # NoAcc => w.acc[b].num # w.acc[a].num

(* The sum of f over a finite set, as a recursive function, which proofs   *)
(* can unfold.                                                             *)
Pick(S) == CHOOSE x \in S : TRUE
Sum(f, S) ==
    LET sum[T \in SUBSET S] == IF T = {} THEN 0 ELSE f[Pick(T)] + sum[T \ {Pick(T)}]
    IN  sum[S]

(* What the addresses hold of a denom, and that it is all there is.        *)
Held(w, d) == Sum([a \in Addrs |-> w.bal[a][d]], Addrs)
Backed(w) == \A d \in Denoms : w.supply[d] = Held(w, d)

ASSUME StateDbAssumption ==
    /\ IsFiniteSet(Addrs) /\ EvmDenom \in Denoms
    /\ Zero \in Words /\ Absent \notin Words /\ NoCode \notin Codes /\ NoAcc \notin Account
    /\ Coinbase \in Addrs /\ Precompiles \subseteq Addrs
    /\ AccessLists \subseteq SUBSET (Addrs \X Slots)
    /\ Amounts \subseteq Nat /\ Nonces \subseteq Nat /\ Gas \subseteq Nat
    /\ Locked \in Nat /\ RefundMod \in Nat \ {0}
    /\ MaxSnapshots \in Nat /\ MaxOps \in Nat

ASSUME GenesisAssumption ==
    \A w \in Genesis : w \in World /\ Rooted(w) /\ Numbered(w) /\ Backed(w)

-----------------------------------------------------------------------------
(* Keeper calls, as functions from one world to the next.                  *)

createAccountIfNotExists(w, a) ==
    IF w.acc[a] # NoAcc THEN w
    ELSE [w EXCEPT !.acc[a] = [num |-> w.next, seq |-> 0, kind |-> "base"],
                   !.next = @ + 1]

(* MintCoins, then a send: the bank makes the account of a new receiver.   *)
mintCoins(w, a, coins) ==
    IF coins = NoCoins THEN w
    ELSE [createAccountIfNotExists(w, a) EXCEPT
            !.bal[a] = [d \in Denoms |-> w.bal[a][d] + coins[d]],
            !.supply = [d \in Denoms |-> @[d] + coins[d]]]

(* A send to the evm module account, and BurnCoins there.                  *)
burnCoins(w, a, coins) ==
    [w EXCEPT !.bal[a] = [d \in Denoms |-> @[d] - coins[d]],
              !.supply = [d \in Denoms |-> @[d] - coins[d]]]

MintFails(a, coins) == coins # NoCoins /\ a \in Blocked

IsVesting(w, a) == w.acc[a] # NoAcc /\ w.acc[a].kind = "vesting"

SpendableCoins(w, a, d) ==
    w.bal[a][d] - (IF d = EvmDenom /\ IsVesting(w, a) THEN Locked ELSE 0)

(* Module accounts never, vesting accounts once the clock of the node is   *)
(* past their end time.                                                    *)
CheckIfAccountIsSuitableForDestroying(acc, late) ==
    /\ acc.kind # "module"
    /\ acc.kind = "vesting" => late

DestroyFails(w, a) ==
    /\ w.acc[a] # NoAcc
    /\ ~CheckIfAccountIsSuitableForDestroying(w.acc[a], expired)

(* Mutants: the storage survives; the coins are deleted but not burned.    *)
DestroyAccount_KeepsStorage(w, a) ==
    [burnCoins(w, a, w.bal[a]) EXCEPT !.acc[a] = NoAcc, !.code[a] = NoCode]

DestroyAccount_NoBurn(w, a) ==
    [w EXCEPT !.acc[a] = NoAcc, !.bal[a] = NoCoins, !.code[a] = NoCode, !.stor[a] = NoStorage]

(* The auth account goes first, so the bank locks nothing when it burns.   *)
DestroyAccount(w, a) ==
    [burnCoins(w, a, w.bal[a]) EXCEPT
        !.acc[a] = NoAcc, !.code[a] = NoCode, !.stor[a] = NoStorage]

IsEmptyAccount(w, a) ==
    /\ w.code[a] = NoCode
    /\ w.bal[a] = NoCoins
    /\ w.acc[a] # NoAcc => w.acc[a].seq = 0
    /\ w.stor[a] = NoStorage

GetState(w, a, s) == IF w.stor[a][s] = Absent THEN Zero ELSE w.stor[a][s]
GetNonce(w, a) == IF w.acc[a] = NoAcc THEN 0 ELSE w.acc[a].seq

(* Mutant: an account that was made again counts as the old one.           *)
GetCommittedState_IgnoresRemade(a, s) ==
    IF world.acc[a] = NoAcc \/ store.acc[a] = NoAcc
    THEN Zero
    ELSE GetState(store, a, s)

GetCommittedState(a, s) ==
    IF \/ world.acc[a] = NoAcc
       \/ store.acc[a] = NoAcc
       \/ world.acc[a].num # store.acc[a].num
    THEN Zero
    ELSE GetState(store, a, s)

-----------------------------------------------------------------------------
Live(w, t) == [w |-> w, t |-> t]

Init ==
    /\ store \in Genesis
    /\ world = store
    /\ trk = FreshTrackers
    /\ saved = <<>>
    /\ phase = "open"
    /\ todo = {}
    /\ begun = store
    /\ expired \in BOOLEAN
    /\ ops = 0

(* A panic unwinds to runTx, which drops the context and the StateDB.      *)
Drop ==
    /\ world' = store
    /\ saved' = <<>>
    /\ phase' = "closed"
    /\ todo' = {}
    /\ begun' = store
    /\ UNCHANGED <<store, trk, expired, ops>>

(* A method of an open StateDB: it panics, or it moves to world w with     *)
(* trackers t; accounts it made are born.                                  *)
Operation(panics, w, t) ==
    /\ phase = "open"
    /\ ops < MaxOps
    /\ IF panics
       THEN Drop
       ELSE /\ world' = w
            /\ trk' = [t EXCEPT !.born =
                          @ \cup {a \in Addrs : world.acc[a] = NoAcc /\ w.acc[a] # NoAcc}]
            /\ ops' = ops + 1
            /\ UNCHANGED <<store, saved, phase, todo, begun, expired>>

Touch(a) == [trk EXCEPT !.touched = @ \cup {a}]

(* The EVM only creates where there is neither code nor a nonce.           *)
CreateAccount(a) ==
    /\ world.code[a] = NoCode /\ GetNonce(world, a) = 0
    /\ LET coins == world.bal[a]
           remade == createAccountIfNotExists(DestroyAccount(world, a), a)
       IN  Operation(DestroyFails(world, a) \/ MintFails(a, coins),
                     mintCoins(remade, a, coins),
                     [Touch(a) EXCEPT !.born = @ \cup {a}])

(* The EVM calls it after CanTransfer, which counts locked coins too.      *)
SubBalance(a, n) ==
    /\ n <= world.bal[a][EvmDenom]
    /\ Operation(n > 0 /\ SpendableCoins(world, a, EvmDenom) < n,
                 burnCoins(world, a, EvmCoins(n)), Touch(a))

AddBalance(a, n) ==
    Operation(MintFails(a, EvmCoins(n)), mintCoins(world, a, EvmCoins(n)), Touch(a))

SetNonce(a, n) ==
    LET w == createAccountIfNotExists(world, a)
    IN  Operation(FALSE, [w EXCEPT !.acc[a].seq = n], Touch(a))

SetCode(a, c) ==
    LET w == createAccountIfNotExists(world, a)
    IN  Operation(FALSE, [w EXCEPT !.code[a] = c], Touch(a))

(* Mutant: the address is not touched.                                     *)
SetState_NoTouch(a, s, v) ==
    LET w == createAccountIfNotExists(world, a)
    IN  Operation(FALSE, [w EXCEPT !.stor[a][s] = v], trk)

(* The keeper deletes on an empty value, but a zero hash has 32 bytes.     *)
SetState(a, s, v) ==
    LET w == createAccountIfNotExists(world, a)
    IN  Operation(FALSE, [w EXCEPT !.stor[a][s] = v], Touch(a))

SetTransientState(a, s, v) ==
    Operation(FALSE, world, [trk EXCEPT !.transient[<<a, s>>] = v])

AddRefund(g) ==
    LET newRefund == (trk.refund + g) % RefundMod
    IN  Operation(newRefund < g, world, [trk EXCEPT !.refund = newRefund])

SubRefund(g) ==
    Operation(trk.refund < g, world, [trk EXCEPT !.refund = @ - g])

(* Marks the account and clears its balance of the EVM denom; without an   *)
(* account it only touches the address.                                    *)
Suicide(a) ==
    LET n == world.bal[a][EvmDenom]
    IN  IF world.acc[a] = NoAcc
        THEN Operation(FALSE, world, Touch(a))
        ELSE Operation(n > 0 /\ SpendableCoins(world, a, EvmDenom) < n,
                       burnCoins(world, a, EvmCoins(n)),
                       [Touch(a) EXCEPT !.destructed = @ \cup {a}])

Selfdestruct6780(a) ==
    /\ world.acc[a] # NoAcc
    /\ store.acc[a] # NoAcc => world.acc[a].num # store.acc[a].num
    /\ Suicide(a)

AddAddressToAccessList(a) ==
    Operation(FALSE, world, [trk EXCEPT !.warm = @ \cup {a}])

AddSlotToAccessList(a, s) ==
    Operation(FALSE, world, [trk EXCEPT !.warm = @ \cup {a},
                                        !.warmSlots = @ \cup {<<a, s>>}])

(* A new access list with the sender, the destination if there is one, the *)
(* precompiles, the list of the transaction and the coinbase; the transient*)
(* storage is emptied.                                                     *)
PrepareAccessList(sender, dst, list) ==
    Operation(FALSE, world,
              [trk EXCEPT !.warm = {sender, Coinbase} \cup dst \cup Precompiles
                                     \cup {x[1] : x \in list},
                          !.warmSlots = list,
                          !.transient = FreshTrackers.transient])

AddLog(l) ==
    Operation(FALSE, world, [trk EXCEPT !.logs = Append(@, l)])

(* Mutant: the balance of the sender is not checked.                       *)
Erc20Transfer_Overdraws(from, to, d, n, l) ==
    LET w == createAccountIfNotExists(world, to)
        moved == [w EXCEPT !.bal[from][d] = @ - n, !.bal[to][d] = @ + n]
    IN  Operation(FALSE, IF n > 0 /\ from # to THEN moved ELSE world,
                  [trk EXCEPT !.logs = Append(@, l)])

(* The transfer of an ERC-20 precompile: the bank moves coins in currentCtx *)
(* behind the back of the StateDB, which is only told of the log.  Addrs   *)
(* leaves out the zero address, a transfer to which burns instead.         *)
Erc20Transfer(from, to, d, n, l) ==
    /\ n <= world.bal[from][d]
    /\ n > 0 /\ from # to => n <= SpendableCoins(world, from, d)
    /\ LET w == createAccountIfNotExists(world, to)
           moved == [w EXCEPT !.bal[from][d] = @ - n, !.bal[to][d] = @ + n]
       IN  Operation(FALSE, IF n > 0 /\ from # to THEN moved ELSE world,
                     [trk EXCEPT !.logs = Append(@, l)])

Snapshot ==
    /\ phase = "open"
    /\ Len(saved) < MaxSnapshots
    /\ saved' = Append(saved, Live(world, trk))
    /\ UNCHANGED <<store, world, trk, phase, todo, begun, expired, ops>>

RevertToSnapshot(id) ==
    /\ phase = "open"
    /\ id + 1 <= Len(saved)
    /\ world' = saved[id + 1].w
    /\ trk' = saved[id + 1].t
    /\ saved' = SubSeq(saved, 1, id + 1)
    /\ UNCHANGED <<store, phase, todo, begun, expired, ops>>

(* The commit loop starts; it ranges over a Go map, in any order.          *)
CommitMultiStore ==
    /\ phase = "open"
    /\ phase' = "committing"
    /\ todo' = trk.touched
    /\ begun' = world
    /\ UNCHANGED <<store, world, trk, saved, expired, ops>>

Doomed(w, t, a) == a \in t.destructed \/ IsEmptyAccount(w, a)

(* Mutant: the mark of Suicide is ignored.                                 *)
VisitTouched_OnlyEmpty(a) ==
    /\ phase = "committing"
    /\ a \in todo
    /\ IF IsEmptyAccount(world, a) /\ DestroyFails(world, a)
       THEN Drop
       ELSE /\ world' = IF IsEmptyAccount(world, a) THEN DestroyAccount(world, a) ELSE world
            /\ todo' = todo \ {a}
            /\ UNCHANGED <<store, trk, saved, phase, begun, expired, ops>>

(* Mutant: a panic leaves what was done so far in the store.               *)
VisitTouched_PanicPublishes(a) ==
    /\ phase = "committing"
    /\ a \in todo
    /\ IF Doomed(world, trk, a) /\ DestroyFails(world, a)
       THEN /\ store' = world /\ begun' = world
            /\ phase' = "closed" /\ saved' = <<>> /\ todo' = {}
            /\ UNCHANGED <<world, trk, expired, ops>>
       ELSE /\ world' = IF Doomed(world, trk, a) THEN DestroyAccount(world, a) ELSE world
            /\ todo' = todo \ {a}
            /\ UNCHANGED <<store, trk, saved, phase, begun, expired, ops>>

(* One turn: the account is destroyed if it is marked or empty.            *)
VisitTouched(a) ==
    /\ phase = "committing"
    /\ a \in todo
    /\ IF Doomed(world, trk, a) /\ DestroyFails(world, a)
       THEN Drop
       ELSE /\ world' = IF Doomed(world, trk, a) THEN DestroyAccount(world, a) ELSE world
            /\ todo' = todo \ {a}
            /\ UNCHANGED <<store, trk, saved, phase, begun, expired, ops>>

(* WriteChanges of every context: the whole view reaches the store.        *)
WriteChanges ==
    /\ phase = "committing"
    /\ todo = {}
    /\ store' = world
    /\ saved' = <<>>
    /\ phase' = "closed"
    /\ UNCHANGED <<world, trk, todo, begun, expired, ops>>

(* A query, a simulation or a failed transaction never commits.            *)
Discard ==
    /\ phase = "open"
    /\ Drop

NewStateDB ==
    /\ phase = "closed"
    /\ world' = store
    /\ trk' = FreshTrackers
    /\ saved' = <<>>
    /\ phase' = "open"
    /\ begun' = store
    /\ UNCHANGED <<store, todo, expired, ops>>

(* The clock of the node passes the end of the vesting period.             *)
ClockPassesVestingEnd ==
    /\ ~expired
    /\ expired' = TRUE
    /\ UNCHANGED <<store, world, trk, saved, phase, todo, begun, ops>>

(* Methods that change the world.                                          *)
WorldOp ==
    \/ \E a \in Addrs :
        \/ CreateAccount(a) \/ Suicide(a) \/ Selfdestruct6780(a)
        \/ \E n \in Nonces : SetNonce(a, n)
        \/ \E n \in Amounts : SubBalance(a, n) \/ AddBalance(a, n)
        \/ \E c \in Codes \cup {NoCode} : SetCode(a, c)
        \/ \E s \in Slots, v \in Words : SetState(a, s, v)
    \/ \E from, to \in Addrs, d \in Denoms, n \in Amounts, l \in Logs :
            Erc20Transfer(from, to, d, n, l)

(* Methods that only change in-memory trackers.                            *)
TrackerOp ==
    \/ \E a \in Addrs :
        \/ AddAddressToAccessList(a)
        \/ \E s \in Slots : AddSlotToAccessList(a, s)
        \/ \E s \in Slots, v \in Words : SetTransientState(a, s, v)
        \/ \E dst \in {{}} \cup {{b} : b \in Addrs}, list \in AccessLists :
                PrepareAccessList(a, dst, list)
    \/ \E g \in Gas : AddRefund(g) \/ SubRefund(g)
    \/ \E l \in Logs : AddLog(l)

Lifecycle ==
    \/ Snapshot
    \/ \E id \in 0..MaxSnapshots : RevertToSnapshot(id)
    \/ CommitMultiStore \/ \E a \in Addrs : VisitTouched(a)
    \/ WriteChanges \/ Discard \/ NewStateDB
    \/ ClockPassesVestingEnd

Next == WorldOp \/ TrackerOp \/ Lifecycle

Spec == Init /\ [][Next]_vars

-----------------------------------------------------------------------------
(* The StateDB only ever holds well-formed accounts: no balance goes below *)
(* zero, the refund counter fits its uint64, and the commit loop only has  *)
(* touched addresses left.                                                 *)
TypeOK ==
    /\ store \in World /\ world \in World /\ begun \in World
    /\ trk \in Trackers
    /\ saved \in Seq([w : World, t : Trackers])
    /\ Len(saved) <= MaxSnapshots
    /\ phase \in {"open", "committing", "closed"}
    /\ todo \subseteq trk.touched
    /\ phase # "committing" => todo = {}
    /\ expired \in BOOLEAN
    /\ ops \in 0..MaxOps

(* DestroyAccount removes the coins, the code and the storage together     *)
(* with the account, and every method that gives an address one of them    *)
(* gives it an account too, also across reverts: nothing survives without  *)
(* an account, for a later owner of the address to inherit.                *)
NoOrphans == Rooted(store) /\ Rooted(world)

(* Two accounts never share a number, even when one is destroyed and made  *)
(* again and the counter goes back with a revert.                          *)
NumsUnique == Numbered(store) /\ Numbered(world)

(* Both: an account is the sole owner of what is stored at its address and *)
(* of its number.                                                          *)
AccountsKept == NoOrphans /\ NumsUnique

(* Minting and burning through the evm module account keep the supply of   *)
(* each denom equal to what the addresses hold: CreateAccount burns and    *)
(* mints back what it carries over, Suicide and DestroyAccount burn what   *)
(* they clear, and a revert undoes both sides.                             *)
SupplyBacked == Backed(store) /\ Backed(world)

(* The account number tells GetCommittedState and Selfdestruct6780 whether *)
(* an account was made by this transaction: the committed value is what    *)
(* the store holds, and zero for an account made (again) since.            *)
CommittedStateRight ==
    phase = "open" =>
        \A a \in Addrs, s \in Slots :
            GetCommittedState(a, s) =
                IF a \in trk.born THEN Zero ELSE GetState(store, a, s)

(* CommitMultiStore looks at touched addresses only: whatever has another  *)
(* code, storage or nonce than in the store is one of them, and so is      *)
(* every account that Suicide has marked.                                  *)
TouchedCovers(s, w, t) ==
    /\ t.destructed \subseteq t.touched
    /\ \A a \in Addrs \ t.touched :
        /\ w.code[a] = s.code[a]
        /\ w.stor[a] = s.stor[a]
        /\ GetNonce(w, a) = GetNonce(s, a)

TouchedCoversChanges == phase = "open" => TouchedCovers(store, world, trk)

(* Go visits the touched map in any order and the node's clock may move    *)
(* meanwhile; still, at each turn the world is the one the commit began    *)
(* with, less exactly the visited accounts that were marked or empty then. *)
CommitDestroysExactly ==
    phase = "committing" =>
        \A a \in Addrs :
            LET gone == /\ a \in trk.touched \ todo
                        /\ a \in trk.destructed \/ IsEmptyAccount(begun, a)
            IN  IF gone
                THEN /\ world.acc[a] = NoAcc /\ world.bal[a] = NoCoins
                     /\ world.code[a] = NoCode /\ world.stor[a] = NoStorage
                ELSE /\ world.acc[a] = begun.acc[a] /\ world.bal[a] = begun.bal[a]
                     /\ world.code[a] = begun.code[a] /\ world.stor[a] = begun.stor[a]

(* The turns of the commit loop are still changes of the view.             *)
PhaseOf == IF phase = "committing" /\ todo # {} THEN "open" ELSE phase

SavedViews ==
    IF PhaseOf = "open"
    THEN [i \in 1..Len(saved) |-> [kv |-> saved[i].w, aux |-> saved[i].t]]
    ELSE <<>>

Abs == INSTANCE SnapshotStore WITH
    Stores <- World, Auxs <- Trackers, NoAux <- FreshTrackers,
    cur <- [kv |-> world, aux |-> trk],
    saved <- SavedViews,
    phase <- PhaseOf

(* The methods of the StateDB keep the promise of SnapshotStore, panics    *)
(* included: the store moves in one step, to the view after the commit     *)
(* loop, and a panic in any method or turn of that loop publishes nothing. *)
Implements == Abs!Spec
=============================================================================
