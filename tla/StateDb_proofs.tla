--------------------------- MODULE StateDb_proofs ---------------------------
(***************************************************************************)
(* Proofs about StateDb, for every set of addresses, slots, denoms and     *)
(* amounts, any number of operations and any depth of snapshots.           *)
(***************************************************************************)
EXTENDS StateDb, SequenceTheorems, TLAPS

(* The fields of a world have their types.                                 *)
LEMMA WorldFields ==
    ASSUME NEW w \in World
    PROVE  /\ w.acc \in [Addrs -> Account \cup {NoAcc}]
           /\ w.bal \in [Addrs -> [Denoms -> Nat]]
           /\ w.code \in [Addrs -> Codes \cup {NoCode}]
           /\ w.stor \in [Addrs -> [Slots -> Words \cup {Absent}]]
           /\ w.next \in Nat
           /\ w.supply \in [Denoms -> Int]
BY DEF World

(* A missing account is created under the next number, and nothing else    *)
(* changes.                                                                *)
LEMMA CreateMissing ==
    ASSUME NEW w \in World, NEW a \in Addrs, w.acc[a] = NoAcc
    PROVE  LET v == createAccountIfNotExists(w, a)
           IN  /\ v \in World
               /\ v.acc = [w.acc EXCEPT ![a] = [num |-> w.next, seq |-> 0, kind |-> "base"]]
               /\ v.next = w.next + 1
               /\ v.bal = w.bal /\ v.code = w.code /\ v.stor = w.stor /\ v.supply = w.supply
<1> DEFINE fresh == [num |-> w.next, seq |-> 0, kind |-> "base"]
<1>1. fresh \in Account BY WorldFields DEF Account
<1>2. createAccountIfNotExists(w, a) = [w EXCEPT !.acc[a] = fresh, !.next = @ + 1]
    BY DEF createAccountIfNotExists
<1> DEFINE accs == [w.acc EXCEPT ![a] = fresh]
           n == w.next + 1
<1>3. accs \in [Addrs -> Account \cup {NoAcc}] /\ n \in Nat BY <1>1, WorldFields
<1>4. createAccountIfNotExists(w, a) = [w EXCEPT !.acc = accs, !.next = n]
    BY <1>2 DEF World
<1> HIDE DEF fresh, accs, n
<1>5. [w EXCEPT !.acc = accs, !.next = n] \in World BY <1>3, Zenon DEF World
<1> QED BY <1>4, <1>5 DEF World, accs, n, fresh

(* Burning coins an address has leaves a world.                            *)
LEMMA BurnKeepsWorld ==
    ASSUME NEW w \in World, NEW a \in Addrs, NEW coins \in [Denoms -> Nat],
           \A d \in Denoms : coins[d] <= w.bal[a][d]
    PROVE  LET v == burnCoins(w, a, coins)
           IN  /\ v \in World
               /\ v.acc = w.acc /\ v.next = w.next /\ v.code = w.code /\ v.stor = w.stor
               /\ v.bal = [w.bal EXCEPT ![a] = [d \in Denoms |-> w.bal[a][d] - coins[d]]]
<1> DEFINE left == [d \in Denoms |-> w.bal[a][d] - coins[d]]
           total == [d \in Denoms |-> w.supply[d] - coins[d]]
<1>1. left \in [Denoms -> Nat] BY WorldFields
<1>2. total \in [Denoms -> Int] BY WorldFields
<1>3. burnCoins(w, a, coins) = [w EXCEPT !.bal[a] = left, !.supply = total]
    BY DEF burnCoins
<1> HIDE DEF left, total
<1>4. [w EXCEPT !.bal[a] = left, !.supply = total] \in World
    BY <1>1, <1>2, WorldFields, Zenon DEF World
<1> QED BY <1>3, <1>4, Zenon DEF World, left

(* DestroyAccount leaves nothing of the account and touches no other.      *)
LEMMA DestroyLeavesNothing ==
    ASSUME NEW w \in World, NEW a \in Addrs
    PROVE  LET v == DestroyAccount(w, a)
           IN  /\ v \in World
               /\ v.next = w.next
               /\ v.acc = [w.acc EXCEPT ![a] = NoAcc]
               /\ v.bal = [w.bal EXCEPT ![a] = NoCoins]
               /\ v.code = [w.code EXCEPT ![a] = NoCode]
               /\ v.stor = [w.stor EXCEPT ![a] = NoStorage]
<1> DEFINE u == burnCoins(w, a, w.bal[a])
<1>1. w.bal[a] \in [Denoms -> Nat] BY WorldFields
<1>2. /\ u \in World
      /\ u.acc = w.acc /\ u.next = w.next /\ u.code = w.code /\ u.stor = w.stor
      /\ u.bal = [w.bal EXCEPT ![a] = [d \in Denoms |-> w.bal[a][d] - w.bal[a][d]]]
    BY <1>1, BurnKeepsWorld, SMTT(60)
<1>3. [d \in Denoms |-> w.bal[a][d] - w.bal[a][d]] = NoCoins BY <1>1 DEF NoCoins
<1>4. DestroyAccount(w, a) =
        [u EXCEPT !.acc[a] = NoAcc, !.code[a] = NoCode, !.stor[a] = NoStorage]
    BY DEF DestroyAccount
<1>5. NoStorage \in [Slots -> Words \cup {Absent}] BY DEF NoStorage
<1> HIDE DEF u
<1> DEFINE v == [u EXCEPT !.acc[a] = NoAcc, !.code[a] = NoCode, !.stor[a] = NoStorage]
<1>6. v \in World BY <1>2, <1>5, WorldFields, Zenon DEF World
<1>7. /\ v.next = u.next /\ v.bal = u.bal /\ v.acc = [u.acc EXCEPT ![a] = NoAcc]
      /\ v.code = [u.code EXCEPT ![a] = NoCode] /\ v.stor = [u.stor EXCEPT ![a] = NoStorage]
    BY <1>2, Zenon DEF World
<1> HIDE DEF v
<1> QED BY <1>2, <1>3, <1>4, <1>6, <1>7 DEF v

(* Minting some coins gives the receiver an account if it had none.        *)
LEMMA MintGives ==
    ASSUME NEW w \in World, NEW a \in Addrs, NEW coins \in [Denoms -> Nat], coins # NoCoins
    PROVE  LET v == mintCoins(w, a, coins)
               u == createAccountIfNotExists(w, a)
           IN  /\ v \in World
               /\ v.acc = u.acc /\ v.next = u.next /\ v.code = w.code /\ v.stor = w.stor
               /\ \A b \in Addrs \ {a} : v.bal[b] = w.bal[b]
<1> DEFINE u == createAccountIfNotExists(w, a)
           more == [d \in Denoms |-> w.bal[a][d] + coins[d]]
           total == [d \in Denoms |-> u.supply[d] + coins[d]]
<1>1. /\ u \in World /\ u.bal = w.bal /\ u.code = w.code /\ u.stor = w.stor
    <2>1. CASE w.acc[a] = NoAcc BY <2>1, CreateMissing, Zenon
    <2>2. CASE w.acc[a] # NoAcc BY <2>2 DEF createAccountIfNotExists
    <2> QED BY <2>1, <2>2
<1>2. more \in [Denoms -> Nat] BY WorldFields
<1>3. total \in [Denoms -> Int] BY <1>1, WorldFields
<1>4. mintCoins(w, a, coins) = [u EXCEPT !.bal[a] = more, !.supply = total]
    BY DEF mintCoins
<1> HIDE DEF u, more, total
<1>5. [u EXCEPT !.bal[a] = more, !.supply = total] \in World
    BY <1>1, <1>2, <1>3, WorldFields, Zenon DEF World
<1> QED BY <1>1, <1>4, <1>5 DEF World, u

-----------------------------------------------------------------------------
(* What the account numbers say about a view: an account made by this      *)
(* StateDB has a number the store never gave out, every other one is the   *)
(* account the store knows, and no account of the store is missing.        *)
BornRight(s, w, t) ==
    /\ s.next <= w.next
    /\ \A a \in Addrs :
        /\ s.acc[a] # NoAcc => w.acc[a] # NoAcc
        /\ a \in t.born => w.acc[a] # NoAcc /\ s.next <= w.acc[a].num
        /\ a \notin t.born /\ w.acc[a] # NoAcc =>
            s.acc[a] # NoAcc /\ w.acc[a].num = s.acc[a].num

(* A view w with trackers t over the store s is good.                      *)
ViewOK(s, w, t) ==
    Rooted(w) /\ Numbered(w) /\ BornRight(s, w, t) /\ TouchedCovers(s, w, t)

(* From world to w the account of b is the same, or still missing.         *)
Kept(w, t, b) ==
    /\ b \in t.born <=> b \in trk.born
    /\ w.acc[b] = NoAcc <=> world.acc[b] = NoAcc
    /\ w.acc[b] # NoAcc => w.acc[b].num = world.acc[b].num

(* From world to w an account was made at b, in place of an old one or not.*)
Made(w, t, b) ==
    /\ b \in t.born
    /\ w.acc[b] # NoAcc
    /\ w.acc[b].num = world.next
    /\ w.next = world.next + 1

(* An operation that makes at most one account, under the next number, and *)
(* keeps the number of every other one, keeps the numbers right.           *)
LEMMA NumbersKept ==
    ASSUME store \in World, world \in World, NEW w \in World, NEW t, NEW a \in Addrs,
           Numbered(world), BornRight(store, world, trk),
           \A b \in Addrs \ {a} : Kept(w, t, b),
           \/ Kept(w, t, a) /\ w.next = world.next
           \/ Made(w, t, a)
    PROVE  Numbered(w) /\ BornRight(store, w, t)
<1>1. /\ w.next \in Nat /\ world.next \in Nat /\ store.next \in Nat
      /\ world.next <= w.next
    BY WorldFields DEF Made
<1>2. \A b \in Addrs :
        /\ w.acc[b] # NoAcc => w.acc[b].num \in Nat
        /\ world.acc[b] # NoAcc => world.acc[b].num \in Nat
        /\ store.acc[b] # NoAcc => store.acc[b].num \in Nat
    BY WorldFields DEF Account
<1>3. CASE Kept(w, t, a) /\ w.next = world.next
    <2>1. \A b \in Addrs : Kept(w, t, b) BY <1>3
    <2>2. Numbered(w) BY <1>1, <1>2, <1>3, <2>1 DEF Numbered, Kept
    <2>3. BornRight(store, w, t) BY <1>1, <1>2, <1>3, <2>1 DEF BornRight, Kept
    <2> QED BY <2>2, <2>3
<1>4. CASE Made(w, t, a)
    <2>1. Numbered(w)
        <3> SUFFICES ASSUME NEW b \in Addrs, w.acc[b] # NoAcc
                     PROVE  /\ w.acc[b].num < w.next
                            /\ \A c \in Addrs \ {b} : w.acc[c] # NoAcc =>
                                    w.acc[c].num # w.acc[b].num
            BY DEF Numbered
        <3>1. \A c \in Addrs \ {a} : w.acc[c] # NoAcc =>
                world.acc[c] # NoAcc /\ w.acc[c].num = world.acc[c].num
                /\ w.acc[c].num < world.next
            BY DEF Kept, Numbered
        <3>2. CASE b = a BY <1>1, <1>2, <1>4, <3>1, <3>2 DEF Made
        <3>3. CASE b # a BY <1>1, <1>2, <1>4, <3>1, <3>3 DEF Made, Numbered
        <3> QED BY <3>2, <3>3
    <2>2. BornRight(store, w, t) BY <1>1, <1>2, <1>4 DEF BornRight, Kept, Made
    <2> QED BY <2>1, <2>2
<1> QED BY <1>3, <1>4

-----------------------------------------------------------------------------
(* The trackers after an operation that was given t.                       *)
Bear(w, t) ==
    [t EXCEPT !.born = @ \cup {a \in Addrs : world.acc[a] = NoAcc /\ w.acc[a] # NoAcc}]

(* The four ways an operation may leave the account of a.                  *)
Reached(w, t, a) ==
    \/ /\ w.acc[a] = world.acc[a] /\ w.next = world.next /\ t.born = trk.born
    \/ /\ world.acc[a] # NoAcc /\ w.acc[a] # NoAcc /\ w.acc[a].num = world.acc[a].num
       /\ w.next = world.next /\ t.born = trk.born
    \/ /\ world.acc[a] = NoAcc /\ w.acc[a] # NoAcc /\ w.acc[a].num = world.next
       /\ w.next = world.next + 1 /\ t.born = trk.born
    \/ /\ w.acc[a] # NoAcc /\ w.acc[a].num = world.next
       /\ w.next = world.next + 1 /\ t.born = trk.born \cup {a}

(* The fields of the trackers have their types.                            *)
LEMMA TrackerFields ==
    ASSUME NEW t \in Trackers
    PROVE  /\ t.touched \in SUBSET Addrs /\ t.destructed \in SUBSET Addrs
           /\ t.refund \in 0..(RefundMod - 1)
           /\ t.warm \in SUBSET Addrs /\ t.warmSlots \in SUBSET (Addrs \X Slots)
           /\ t.logs \in Seq(Logs) /\ t.transient \in [Addrs \X Slots -> Words]
           /\ t.born \in SUBSET Addrs
BY DEF Trackers

(* The history of born accounts does not disturb the other trackers.       *)
LEMMA BearKeeps ==
    ASSUME NEW w, NEW t \in Trackers
    PROVE  /\ Bear(w, t) \in Trackers
           /\ Bear(w, t).touched = t.touched
           /\ Bear(w, t).destructed = t.destructed
           /\ Bear(w, t).born = t.born \cup {a \in Addrs : world.acc[a] = NoAcc /\ w.acc[a] # NoAcc}
<1> DEFINE B == {a \in Addrs : world.acc[a] = NoAcc /\ w.acc[a] # NoAcc}
<1>1. t.born \cup B \in SUBSET Addrs BY TrackerFields
<1>2. Bear(w, t) = [t EXCEPT !.born = t.born \cup B] BY DEF Bear, Trackers
<1> HIDE DEF B
<1>3. [t EXCEPT !.born = t.born \cup B] \in Trackers BY <1>1, Zenon DEF Trackers
<1> QED BY <1>2, <1>3, Zenon DEF Trackers, B

(* An operation on one account gives a good view again.                    *)
LEMMA ViewReached ==
    ASSUME store \in World, world \in World, trk \in Trackers, ViewOK(store, world, trk),
           NEW w \in World, NEW t \in Trackers, NEW a \in Addrs,
           \A b \in Addrs \ {a} : w.acc[b] = world.acc[b],
           Reached(w, t, a), Rooted(w), TouchedCovers(store, w, t)
    PROVE  Bear(w, t) \in Trackers /\ ViewOK(store, w, Bear(w, t))
<1> DEFINE u == Bear(w, t)
<1>1. /\ u \in Trackers /\ u.touched = t.touched /\ u.destructed = t.destructed
      /\ u.born = t.born \cup {b \in Addrs : world.acc[b] = NoAcc /\ w.acc[b] # NoAcc}
    BY BearKeeps
<1> HIDE DEF u
<1>2. \A b \in Addrs \ {a} : Kept(w, u, b)
    BY <1>1 DEF Kept, Reached
<1>3. (Kept(w, u, a) /\ w.next = world.next) \/ Made(w, u, a)
    BY <1>1 DEF Kept, Made, Reached
<1>4. Numbered(world) /\ BornRight(store, world, trk) BY DEF ViewOK
<1>5. Numbered(w) /\ BornRight(store, w, u) BY <1>2, <1>3, <1>4, NumbersKept
<1>6. TouchedCovers(store, w, u) BY <1>1 DEF TouchedCovers
<1> QED BY <1>1, <1>5, <1>6 DEF ViewOK, u

(* A method that touches a, leaves the others alone, and leaves a with an  *)
(* account or as it was.                                                   *)
LEMMA TouchingMethod ==
    ASSUME store \in World, world \in World, trk \in Trackers, ViewOK(store, world, trk),
           NEW w \in World, NEW t \in Trackers, NEW a \in Addrs,
           t.touched = trk.touched \cup {a}, t.destructed \subseteq trk.destructed \cup {a},
           \A b \in Addrs \ {a} : /\ w.acc[b] = world.acc[b] /\ w.bal[b] = world.bal[b]
                                 /\ w.code[b] = world.code[b] /\ w.stor[b] = world.stor[b],
           w.acc[a] # NoAcc \/ w = world,
           Reached(w, t, a)
    PROVE  Bear(w, t) \in Trackers /\ ViewOK(store, w, Bear(w, t))
<1>1. Rooted(w) BY DEF ViewOK, Rooted
<1>2. TouchedCovers(store, world, trk) BY DEF ViewOK
<1>3. TouchedCovers(store, w, t) BY <1>2 DEF TouchedCovers, GetNonce
<1> QED BY <1>1, <1>3, ViewReached

-----------------------------------------------------------------------------
(* The state of an open StateDB, and what an operation may move it to.     *)
Opened == store \in World /\ world \in World /\ trk \in Trackers /\ ViewOK(store, world, trk)
OpGood(w, t) == w \in World /\ Bear(w, t) \in Trackers /\ ViewOK(store, w, Bear(w, t))

(* touched.Add(a) changes the set of touched addresses only.               *)
LEMMA TouchOnly ==
    ASSUME trk \in Trackers, NEW a \in Addrs
    PROVE  /\ Touch(a) \in Trackers
           /\ Touch(a).touched = trk.touched \cup {a}
           /\ Touch(a).destructed = trk.destructed
           /\ Touch(a).born = trk.born
<1>1. trk.touched \cup {a} \in SUBSET Addrs BY TrackerFields
<1>2. Touch(a) = [trk EXCEPT !.touched = trk.touched \cup {a}] BY DEF Touch, Trackers
<1>3. [trk EXCEPT !.touched = trk.touched \cup {a}] \in Trackers BY <1>1, Zenon DEF Trackers
<1> QED BY <1>2, <1>3, SMTT(60) DEF Trackers

(* After createAccountIfNotExists the address has an account, the old one  *)
(* or a new one, and everything else is as before.                         *)
LEMMA CreateReaches ==
    ASSUME Opened, NEW a \in Addrs, NEW t, t.born = trk.born
    PROVE  LET v == createAccountIfNotExists(world, a)
           IN  /\ v \in World /\ v.acc[a] # NoAcc /\ v.acc[a] \in Account
               /\ Reached(v, t, a)
               /\ \A b \in Addrs \ {a} : v.acc[b] = world.acc[b]
               /\ v.bal = world.bal /\ v.code = world.code /\ v.stor = world.stor
<1> DEFINE v == createAccountIfNotExists(world, a)
<1>1. CASE world.acc[a] = NoAcc
    <2>1. /\ v \in World
          /\ v.acc = [world.acc EXCEPT ![a] = [num |-> world.next, seq |-> 0, kind |-> "base"]]
          /\ v.next = world.next + 1
          /\ v.bal = world.bal /\ v.code = world.code /\ v.stor = world.stor
        BY <1>1, CreateMissing DEF Opened
    <2>2. [num |-> world.next, seq |-> 0, kind |-> "base"] \in Account
        BY WorldFields DEF Account, Opened
    <2>3. v.acc[a] = [num |-> world.next, seq |-> 0, kind |-> "base"]
        BY <2>1, WorldFields DEF Opened
    <2>4. v.acc[a] # NoAcc BY <2>2, <2>3, StateDbAssumption
    <2>5. v.acc[a].num = world.next BY <2>3
    <2>6. \A b \in Addrs \ {a} : v.acc[b] = world.acc[b] BY <2>1, WorldFields DEF Opened
    <2> HIDE DEF v
    <2>7. Reached(v, t, a) BY <1>1, <2>1, <2>4, <2>5 DEF Reached
    <2> QED BY <2>1, <2>2, <2>3, <2>4, <2>6, <2>7 DEF v
<1>2. CASE world.acc[a] # NoAcc
    <2>1. v = world BY <1>2 DEF createAccountIfNotExists
    <2>2. Reached(world, t, a) BY DEF Reached
    <2> QED BY <1>2, <2>1, <2>2, WorldFields DEF Opened
<1> QED BY <1>1, <1>2

(* A method without effect on the world but the touch.                     *)
LEMMA TouchGood ==
    ASSUME Opened, NEW a \in Addrs
    PROVE  OpGood(world, Touch(a))
<1>1. Reached(world, Touch(a), a) BY TouchOnly DEF Opened, Reached
<1> QED BY <1>1, TouchOnly, TouchingMethod DEF Opened, OpGood

(* SetNonce.                                                               *)
LEMMA SetNonceGood ==
    ASSUME Opened, NEW a \in Addrs, NEW n \in Nat
    PROVE  OpGood([createAccountIfNotExists(world, a) EXCEPT !.acc[a].seq = n], Touch(a))
<1> DEFINE v == createAccountIfNotExists(world, a)
           w == [v EXCEPT !.acc[a].seq = n]
           more == [v.acc[a] EXCEPT !.seq = n]
<1>1. /\ v \in World /\ v.acc[a] # NoAcc /\ v.acc[a] \in Account
      /\ Reached(v, Touch(a), a)
      /\ \A b \in Addrs \ {a} : v.acc[b] = world.acc[b]
      /\ v.bal = world.bal /\ v.code = world.code /\ v.stor = world.stor
    BY TouchOnly, CreateReaches DEF Opened
<1>2. more \in Account /\ more.num = v.acc[a].num BY <1>1 DEF Account
<1>3. more # NoAcc BY <1>2, StateDbAssumption
<1> HIDE DEF v
<1>4. w = [v EXCEPT !.acc[a] = more] BY <1>1, WorldFields DEF World
<1> HIDE DEF w, more
<1>5. /\ w \in World /\ w.acc = [v.acc EXCEPT ![a] = more] /\ w.next = v.next
      /\ w.bal = v.bal /\ w.code = v.code /\ w.stor = v.stor
    BY <1>1, <1>2, <1>4, Zenon DEF World
<1>6. /\ w.acc[a] = more /\ \A b \in Addrs \ {a} : w.acc[b] = world.acc[b]
    BY <1>1, <1>5, WorldFields
<1>7. Reached(w, Touch(a), a) BY <1>1, <1>2, <1>3, <1>5, <1>6 DEF Reached
<1>8. OpGood(w, Touch(a))
    BY <1>1, <1>3, <1>5, <1>6, <1>7, TouchOnly, TouchingMethod, Zenon DEF Opened, OpGood
<1> QED BY <1>8 DEF w, v

(* SetCode.                                                                *)
LEMMA SetCodeGood ==
    ASSUME Opened, NEW a \in Addrs, NEW c \in Codes \cup {NoCode}
    PROVE  OpGood([createAccountIfNotExists(world, a) EXCEPT !.code[a] = c], Touch(a))
<1> DEFINE v == createAccountIfNotExists(world, a)
           w == [v EXCEPT !.code[a] = c]
<1>1. /\ v \in World /\ v.acc[a] # NoAcc /\ v.acc[a] \in Account
      /\ Reached(v, Touch(a), a)
      /\ \A b \in Addrs \ {a} : v.acc[b] = world.acc[b]
      /\ v.bal = world.bal /\ v.code = world.code /\ v.stor = world.stor
    BY TouchOnly, CreateReaches DEF Opened
<1> HIDE DEF v
<1>2. /\ w \in World /\ w.acc = v.acc /\ w.next = v.next
      /\ w.bal = v.bal /\ w.code = [v.code EXCEPT ![a] = c] /\ w.stor = v.stor
    BY <1>1, Zenon DEF World
<1> HIDE DEF w
<1>3. \A b \in Addrs \ {a} : w.code[b] = world.code[b] BY <1>1, <1>2, WorldFields
<1>4. Reached(w, Touch(a), a) BY <1>1, <1>2 DEF Reached
<1>5. OpGood(w, Touch(a))
    BY <1>1, <1>2, <1>3, <1>4, TouchOnly, TouchingMethod, ZenonT(60) DEF Opened, OpGood
<1> QED BY <1>5 DEF w, v

(* SetState.                                                               *)
LEMMA SetStateGood ==
    ASSUME Opened, NEW a \in Addrs, NEW s \in Slots, NEW x \in Words
    PROVE  OpGood([createAccountIfNotExists(world, a) EXCEPT !.stor[a][s] = x], Touch(a))
<1> DEFINE v == createAccountIfNotExists(world, a)
           w == [v EXCEPT !.stor[a][s] = x]
<1>1. /\ v \in World /\ v.acc[a] # NoAcc /\ v.acc[a] \in Account
      /\ Reached(v, Touch(a), a)
      /\ \A b \in Addrs \ {a} : v.acc[b] = world.acc[b]
      /\ v.bal = world.bal /\ v.code = world.code /\ v.stor = world.stor
    BY TouchOnly, CreateReaches DEF Opened
<1> HIDE DEF v
<1>2. /\ w \in World /\ w.acc = v.acc /\ w.next = v.next
      /\ w.bal = v.bal /\ w.code = v.code
      /\ w.stor = [v.stor EXCEPT ![a] = [@ EXCEPT ![s] = x]]
    BY <1>1, Zenon DEF World
<1> HIDE DEF w
<1>3. \A b \in Addrs \ {a} : w.stor[b] = world.stor[b] BY <1>1, <1>2, WorldFields
<1>4. Reached(w, Touch(a), a) BY <1>1, <1>2 DEF Reached
<1>5. OpGood(w, Touch(a))
    BY <1>1, <1>2, <1>3, <1>4, TouchOnly, TouchingMethod, ZenonT(60) DEF Opened, OpGood
<1> QED BY <1>5 DEF w, v

(* An amount of the EVM denom.                                             *)
LEMMA EvmCoinsType ==
    ASSUME NEW n \in Nat
    PROVE  /\ EvmCoins(n) \in [Denoms -> Nat]
           /\ EvmCoins(n)[EvmDenom] = n
           /\ \A d \in Denoms \ {EvmDenom} : EvmCoins(n)[d] = 0
BY StateDbAssumption DEF EvmCoins, NoCoins

(* Burning what an address has of the EVM denom never makes or removes an  *)
(* account; without an account there is nothing to burn.                   *)
LEMMA BurnGood ==
    ASSUME Opened, NEW a \in Addrs, NEW n \in Nat, n <= world.bal[a][EvmDenom],
           NEW t \in Trackers, t.touched = trk.touched \cup {a},
           t.destructed \subseteq trk.destructed \cup {a}, t.born = trk.born
    PROVE  OpGood(burnCoins(world, a, EvmCoins(n)), t)
<1> DEFINE w == burnCoins(world, a, EvmCoins(n))
<1>0. world \in World /\ world.bal[a] \in [Denoms -> Nat] BY WorldFields DEF Opened
<1>1. \A d \in Denoms : EvmCoins(n)[d] <= world.bal[a][d]
    BY <1>0, EvmCoinsType
<1>c. EvmCoins(n) \in [Denoms -> Nat] BY EvmCoinsType
<1>2. /\ w \in World
      /\ w.acc = world.acc /\ w.next = world.next
      /\ w.code = world.code /\ w.stor = world.stor
      /\ w.bal = [world.bal EXCEPT ![a] = [d \in Denoms |-> world.bal[a][d] - EvmCoins(n)[d]]]
    BY <1>0, <1>1, <1>c, BurnKeepsWorld
<1> HIDE DEF w
<1>3. \A b \in Addrs \ {a} : w.bal[b] = world.bal[b] BY <1>0, <1>2, WorldFields
<1>4. Reached(w, t, a) BY <1>2 DEF Reached
<1>5. Rooted(w)
    <2>1. Rooted(world) BY DEF Opened, ViewOK
    <2>2. world.acc[a] = NoAcc => w.bal[a] = NoCoins
        <3> HAVE world.acc[a] = NoAcc
        <3>1. \A d \in Denoms : world.bal[a][d] = 0 BY <2>1 DEF Rooted, NoCoins
        <3>2. \A d \in Denoms : world.bal[a][d] - EvmCoins(n)[d] = 0
            BY <1>1, <3>1, EvmCoinsType
        <3>3. w.bal[a] = [d \in Denoms |-> world.bal[a][d] - EvmCoins(n)[d]]
            BY <1>0, <1>2, WorldFields
        <3> QED BY <3>2, <3>3 DEF NoCoins
    <2> QED BY <1>2, <1>3, <2>1, <2>2 DEF Rooted
<1>6. TouchedCovers(store, w, t)
    <2>1. TouchedCovers(store, world, trk) BY DEF Opened, ViewOK
    <2> QED BY <1>2, <2>1 DEF TouchedCovers, GetNonce
<1>7. OpGood(w, t) BY <1>2, <1>4, <1>5, <1>6, ViewReached DEF Opened, OpGood
<1> QED BY <1>7 DEF w

(* AddBalance.                                                             *)
LEMMA AddBalanceGood ==
    ASSUME Opened, NEW a \in Addrs, NEW n \in Nat
    PROVE  OpGood(mintCoins(world, a, EvmCoins(n)), Touch(a))
<1> DEFINE v == createAccountIfNotExists(world, a)
           w == mintCoins(world, a, EvmCoins(n))
<1>1. CASE EvmCoins(n) = NoCoins
    BY <1>1, TouchGood DEF mintCoins
<1>2. CASE EvmCoins(n) # NoCoins
    <2>1. /\ v \in World /\ v.acc[a] # NoAcc /\ v.acc[a] \in Account
          /\ Reached(v, Touch(a), a)
          /\ \A b \in Addrs \ {a} : v.acc[b] = world.acc[b]
        BY TouchOnly, CreateReaches DEF Opened
    <2>2. /\ w \in World
          /\ w.acc = v.acc /\ w.next = v.next /\ w.code = world.code /\ w.stor = world.stor
          /\ \A b \in Addrs \ {a} : w.bal[b] = world.bal[b]
        BY <1>2, EvmCoinsType, MintGives DEF Opened
    <2> HIDE DEF v, w
    <2>3. Reached(w, Touch(a), a) BY <2>1, <2>2 DEF Reached
    <2>4. OpGood(w, Touch(a))
        BY <2>1, <2>2, <2>3, TouchOnly, TouchingMethod DEF Opened, OpGood
    <2> QED BY <2>4 DEF w
<1> QED BY <1>1, <1>2

(* CreateAccount: whatever was there, the account has a new number.        *)
LEMMA CreateAccountGood ==
    ASSUME Opened, NEW a \in Addrs
    PROVE  OpGood(mintCoins(createAccountIfNotExists(DestroyAccount(world, a), a), a, world.bal[a]),
                  [Touch(a) EXCEPT !.born = @ \cup {a}])
<1> DEFINE e == DestroyAccount(world, a)
           v == createAccountIfNotExists(e, a)
           w == mintCoins(v, a, world.bal[a])
           t == [Touch(a) EXCEPT !.born = @ \cup {a}]
           fresh == [num |-> world.next, seq |-> 0, kind |-> "base"]
<1>0. world \in World /\ trk \in Trackers /\ world.bal[a] \in [Denoms -> Nat]
    BY WorldFields DEF Opened
<1>1. /\ e \in World
      /\ e.next = world.next
      /\ e.acc = [world.acc EXCEPT ![a] = NoAcc]
      /\ e.bal = [world.bal EXCEPT ![a] = NoCoins]
      /\ e.code = [world.code EXCEPT ![a] = NoCode]
      /\ e.stor = [world.stor EXCEPT ![a] = NoStorage]
    BY <1>0, DestroyLeavesNothing, Zenon
<1> HIDE DEF e
<1>2. e.acc[a] = NoAcc BY <1>0, <1>1, WorldFields
<1>3. /\ v \in World
      /\ v.acc = [e.acc EXCEPT ![a] = [num |-> e.next, seq |-> 0, kind |-> "base"]]
      /\ v.next = e.next + 1
      /\ v.bal = e.bal /\ v.code = e.code /\ v.stor = e.stor
    BY <1>1, <1>2, CreateMissing, ZenonT(60)
<1> HIDE DEF v
<1>4. v.acc[a] = fresh BY <1>1, <1>3, WorldFields
<1>5. fresh \in Account /\ fresh # NoAcc /\ fresh.num = world.next
    BY <1>0, WorldFields, StateDbAssumption DEF Account
<1> HIDE DEF fresh
<1>6. createAccountIfNotExists(v, a) = v BY <1>4, <1>5 DEF createAccountIfNotExists
<1>7. /\ w \in World
      /\ w.acc = v.acc /\ w.next = v.next /\ w.code = v.code /\ w.stor = v.stor
      /\ \A b \in Addrs \ {a} : w.bal[b] = v.bal[b]
    <2>1. CASE world.bal[a] = NoCoins BY <1>3, <2>1 DEF mintCoins
    <2>2. CASE world.bal[a] # NoCoins BY <1>0, <1>3, <1>6, <2>2, MintGives, SMTT(60)
    <2> QED BY <2>1, <2>2
<1> HIDE DEF w
<1>8. \A b \in Addrs \ {a} : /\ w.acc[b] = world.acc[b] /\ w.bal[b] = world.bal[b]
                             /\ w.code[b] = world.code[b] /\ w.stor[b] = world.stor[b]
    BY <1>0, <1>1, <1>3, <1>7, WorldFields
<1>9. /\ t \in Trackers /\ t.touched = trk.touched \cup {a}
      /\ t.destructed = trk.destructed /\ t.born = trk.born \cup {a}
    <2>1. trk.born \cup {a} \in SUBSET Addrs BY <1>0, TrackerFields
    <2>2. t = [Touch(a) EXCEPT !.born = trk.born \cup {a}] BY <1>0, TouchOnly, Zenon
    <2>3. [Touch(a) EXCEPT !.born = trk.born \cup {a}] \in Trackers
        BY <1>0, <2>1, TouchOnly, ZenonT(60) DEF Trackers
    <2> QED BY <1>0, <2>2, <2>3, TouchOnly, Zenon DEF Trackers
<1> HIDE DEF t
<1>10. Reached(w, t, a) BY <1>1, <1>3, <1>4, <1>5, <1>7, <1>9 DEF Reached
<1>11. OpGood(w, t)
    BY <1>4, <1>5, <1>7, <1>8, <1>9, <1>10, TouchingMethod DEF Opened, OpGood
<1> QED BY <1>11 DEF w, v, e, t

(* A method that leaves the world and the touched, marked and born         *)
(* accounts alone.                                                         *)
LEMMA TrackerGood ==
    ASSUME Opened, NEW t \in Trackers, t.touched = trk.touched,
           t.destructed = trk.destructed, t.born = trk.born
    PROVE  OpGood(world, t)
<1>1. Bear(world, t) \in Trackers /\ Bear(world, t).touched = trk.touched
      /\ Bear(world, t).destructed = trk.destructed
      /\ Bear(world, t).born = trk.born \cup {a \in Addrs : world.acc[a] = NoAcc /\ world.acc[a] # NoAcc}
    BY BearKeeps
<1>2. Bear(world, t).born = trk.born BY <1>1
<1> QED BY <1>1, <1>2 DEF Opened, OpGood, ViewOK, BornRight, TouchedCovers

(* An ERC-20 transfer: only an address with an account has coins to send.  *)
LEMMA Erc20Good ==
    ASSUME Opened, NEW from \in Addrs, NEW to \in Addrs, NEW d \in Denoms, NEW n \in Nat,
           n > 0, from # to, n <= world.bal[from][d],
           NEW t \in Trackers, t.touched = trk.touched,
           t.destructed = trk.destructed, t.born = trk.born
    PROVE  OpGood([createAccountIfNotExists(world, to) EXCEPT
                     !.bal[from][d] = @ - n, !.bal[to][d] = @ + n], t)
<1> DEFINE v == createAccountIfNotExists(world, to)
           w == [v EXCEPT !.bal[from][d] = @ - n, !.bal[to][d] = @ + n]
           less == [world.bal[from] EXCEPT ![d] = @ - n]
           more == [world.bal[to] EXCEPT ![d] = @ + n]
           bal == [world.bal EXCEPT ![from] = less, ![to] = more]
<1>1. /\ v \in World /\ v.acc[to] # NoAcc /\ v.acc[to] \in Account
      /\ Reached(v, t, to)
      /\ \A b \in Addrs \ {to} : v.acc[b] = world.acc[b]
      /\ v.bal = world.bal /\ v.code = world.code /\ v.stor = world.stor
    BY CreateReaches
<1>2. world.acc[from] # NoAcc
    <2>1. Rooted(world) BY DEF Opened, ViewOK
    <2>2. world.bal[from] # NoCoins BY DEF NoCoins
    <2> QED BY <2>1, <2>2 DEF Rooted
<1>0. world \in World /\ world.acc \in [Addrs -> Account \cup {NoAcc}]
      /\ world.bal \in [Addrs -> [Denoms -> Nat]]
    BY WorldFields DEF Opened
<1>3. v.acc[to] = world.acc[to] \/ (world.acc[to] = NoAcc /\ v.acc[to].seq = 0)
    <2>1. CASE world.acc[to] # NoAcc BY <2>1 DEF createAccountIfNotExists
    <2>2. CASE world.acc[to] = NoAcc
        <3>1. v.acc = [world.acc EXCEPT ![to] = [num |-> world.next, seq |-> 0, kind |-> "base"]]
            BY <1>0, <2>2, CreateMissing
        <3>2. v.acc[to] = [num |-> world.next, seq |-> 0, kind |-> "base"] BY <1>0, <3>1
        <3> QED BY <2>2, <3>2
    <2> QED BY <2>1, <2>2
<1> HIDE DEF v
<1>4. bal \in [Addrs -> [Denoms -> Nat]]
    <2>1. less \in [Denoms -> Nat] BY <1>0
    <2>2. more \in [Denoms -> Nat] BY <1>0
    <2> HIDE DEF less, more
    <2> QED BY <1>0, <2>1, <2>2
<1>5. w = [v EXCEPT !.bal = bal]
    <2>1. w = [v EXCEPT !.bal = [[v.bal EXCEPT ![from][d] = @ - n] EXCEPT ![to][d] = @ + n]]
        BY <1>1, Zenon DEF World
    <2>2. [[v.bal EXCEPT ![from][d] = @ - n] EXCEPT ![to][d] = @ + n] = bal
        BY <1>0, <1>1, Zenon
    <2> QED BY <2>1, <2>2
<1>6. \A b \in Addrs \ {from, to} : bal[b] = world.bal[b] BY <1>0
<1> HIDE DEF w, bal
<1>7. /\ w \in World /\ w.acc = v.acc /\ w.next = v.next
      /\ w.bal = bal /\ w.code = v.code /\ w.stor = v.stor
    BY <1>1, <1>4, <1>5, Zenon DEF World
<1>8. Reached(w, t, to) BY <1>1, <1>7 DEF Reached
<1>9. Rooted(w)
    <2>1. Rooted(world) BY DEF Opened, ViewOK
    <2> QED BY <1>1, <1>2, <1>6, <1>7, <2>1 DEF Rooted
<1>10. TouchedCovers(store, w, t)
    <2>1. TouchedCovers(store, world, trk) BY DEF Opened, ViewOK
    <2>2. \A b \in Addrs : GetNonce(w, b) = GetNonce(world, b)
        BY <1>1, <1>3, <1>7, SMTT(60) DEF GetNonce
    <2> QED BY <1>1, <1>7, <2>1, <2>2 DEF TouchedCovers
<1>11. OpGood(w, t) BY <1>1, <1>7, <1>8, <1>9, <1>10, ViewReached DEF Opened, OpGood
<1> QED BY <1>11 DEF w, v

-----------------------------------------------------------------------------
(* The inductive invariant: every view an open StateDB has or may revert   *)
(* to is good, a commit is under way as CommitDestroysExactly says, and a  *)
(* closed StateDB shows the store.                                         *)
IInv ==
    /\ TypeOK
    /\ Rooted(store) /\ Numbered(store)
    /\ phase = "open" => /\ ViewOK(store, world, trk)
                         /\ \A i \in 1..Len(saved) : ViewOK(store, saved[i].w, saved[i].t)
    /\ phase = "committing" => Rooted(world) /\ Numbered(world)
    /\ CommitDestroysExactly
    /\ phase = "closed" => world = store

(* Fresh trackers are trackers.                                            *)
LEMMA FreshTrackersType == FreshTrackers \in Trackers
<1>1. 0 \in 0..(RefundMod - 1) BY StateDbAssumption
<1>2. [x \in Addrs \X Slots |-> Zero] \in [Addrs \X Slots -> Words] BY StateDbAssumption
<1> QED BY <1>1, <1>2 DEF FreshTrackers, Trackers

(* A StateDB that has just been made shows the store.                      *)
LEMMA FreshViewOK ==
    ASSUME store \in World, Rooted(store), Numbered(store)
    PROVE  ViewOK(store, store, FreshTrackers)
<1>1. FreshTrackers.touched = {} /\ FreshTrackers.destructed = {} /\ FreshTrackers.born = {}
    BY DEF FreshTrackers
<1>2. store.next <= store.next BY WorldFields
<1>3. BornRight(store, store, FreshTrackers) BY <1>1, <1>2 DEF BornRight
<1>4. TouchedCovers(store, store, FreshTrackers) BY <1>1 DEF TouchedCovers
<1> QED BY <1>3, <1>4 DEF ViewOK

(* The invariant holds at the start of the block.                          *)
LEMMA InitIInv == Init => IInv
<1> SUFFICES ASSUME Init PROVE IInv OBVIOUS
<1>1. store \in World /\ Rooted(store) /\ Numbered(store)
    BY GenesisAssumption DEF Init
<1>2. ViewOK(store, world, trk) BY <1>1, FreshViewOK, SMTT(60) DEF Init
<1>3. TypeOK BY <1>1, FreshTrackersType, StateDbAssumption, SMTT(60) DEF Init, TypeOK, FreshTrackers
<1> QED BY <1>1, <1>2, <1>3 DEF Init, IInv, CommitDestroysExactly

(* A panic or a discard preserves it.                                      *)
LEMMA DropIInv ==
    ASSUME IInv, Drop
    PROVE  IInv'
<1>1. TypeOK' BY StateDbAssumption DEF IInv, TypeOK, Drop
<1>2. Rooted(store)' /\ Numbered(store)' BY DEF IInv, Drop, Rooted, Numbered
<1> QED BY <1>1, <1>2, SMTT(60) DEF IInv, Drop, CommitDestroysExactly

(* An open StateDB is in a good state.                                     *)
LEMMA IInvOpened ==
    ASSUME IInv, phase = "open"
    PROVE  Opened
BY DEF IInv, TypeOK, Opened

(* A method that panics or moves to a good view preserves it.              *)
LEMMA OperationIInv ==
    ASSUME IInv, NEW panics \in BOOLEAN, NEW w, NEW t, Operation(panics, w, t),
           ~panics => OpGood(w, t)
    PROVE  IInv'
<1>1. CASE panics BY <1>1, DropIInv, SMTT(60) DEF Operation
<1>2. CASE ~panics
    <2>1. /\ phase = "open" /\ phase' = "open" /\ ops < MaxOps /\ ops' = ops + 1
          /\ world' = w /\ trk' = Bear(w, t)
          /\ UNCHANGED <<store, saved, todo, begun, expired>>
        BY <1>2 DEF Operation, Bear
    <2>2. w \in World /\ Bear(w, t) \in Trackers /\ ViewOK(store, w, Bear(w, t)) BY <1>2, SMTT(60) DEF OpGood
    <2>3. TypeOK' BY <2>1, <2>2, StateDbAssumption DEF IInv, TypeOK
    <2>4. ViewOK(store, world, trk)'
        BY <2>1, <2>2
    <2>5. \A i \in 1..Len(saved') : ViewOK(store, saved[i].w, saved[i].t)'
        BY <2>1 DEF IInv
    <2>6. Rooted(store)' /\ Numbered(store)' BY <2>1 DEF IInv
    <2> QED BY <2>1, <2>3, <2>4, <2>5, <2>6 DEF IInv, CommitDestroysExactly
<1> QED BY <1>1, <1>2

(* Methods are only called on an open StateDB.                             *)
LEMMA OperationOpened ==
    ASSUME IInv, NEW panics, NEW w, NEW t, Operation(panics, w, t)
    PROVE  Opened
BY IInvOpened DEF Operation

(* Suicide, on its own or from Selfdestruct6780.                           *)
LEMMA SuicideIInv ==
    ASSUME IInv, NEW a \in Addrs, Suicide(a)
    PROVE  IInv'
<1> DEFINE n == world.bal[a][EvmDenom]
           t == [Touch(a) EXCEPT !.destructed = @ \cup {a}]
<1>1. CASE world.acc[a] = NoAcc
    <2>1. Operation(FALSE, world, Touch(a)) BY <1>1, Zenon DEF Suicide
    <2>2. Opened BY <2>1, OperationOpened, Zenon
    <2> QED BY <2>1, <2>2, TouchGood, OperationIInv, Zenon
<1>2. CASE world.acc[a] # NoAcc
    <2> DEFINE panics == n > 0 /\ SpendableCoins(world, a, EvmDenom) < n
    <2>1. Operation(panics, burnCoins(world, a, EvmCoins(n)), t) BY <1>2 DEF Suicide
    <2>2. Opened BY <2>1, OperationOpened
    <2>3. n \in Nat /\ n <= n BY <2>2, WorldFields, StateDbAssumption DEF Opened
    <2>4. trk \in Trackers BY <2>2 DEF Opened
    <2>5. /\ t \in Trackers /\ t.touched = trk.touched \cup {a}
          /\ t.destructed \subseteq trk.destructed \cup {a} /\ t.born = trk.born
        <3>1. trk.destructed \cup {a} \in SUBSET Addrs BY <2>4, TrackerFields
        <3>2. t = [Touch(a) EXCEPT !.destructed = trk.destructed \cup {a}] BY <2>4, TouchOnly, SMTT(60)
        <3>3. [Touch(a) EXCEPT !.destructed = trk.destructed \cup {a}] \in Trackers
            BY <2>4, <3>1, TouchOnly, Zenon DEF Trackers
        <3> QED BY <2>4, <3>2, <3>3, TouchOnly, Zenon DEF Trackers
    <2> HIDE DEF n, t
    <2>6. OpGood(burnCoins(world, a, EvmCoins(n)), t) BY <2>2, <2>3, <2>5, BurnGood DEF n
    <2>7. panics \in BOOLEAN OBVIOUS
    <2> HIDE DEF panics
    <2> QED BY <2>1, <2>6, <2>7, OperationIInv
<1> QED BY <1>1, <1>2

(* Every method that changes the world preserves the invariant.            *)
LEMMA WorldOpIInv ==
    ASSUME IInv, WorldOp
    PROVE  IInv'
<1>1. ASSUME NEW a \in Addrs, CreateAccount(a) PROVE IInv'
    <2> DEFINE panics == DestroyFails(world, a) \/ MintFails(a, world.bal[a])
               w == mintCoins(createAccountIfNotExists(DestroyAccount(world, a), a),
                              a, world.bal[a])
               t == [Touch(a) EXCEPT !.born = @ \cup {a}]
    <2>1. Operation(panics, w, t) BY <1>1 DEF CreateAccount
    <2>2. panics \in BOOLEAN BY DEF DestroyFails, MintFails
    <2>3. OpGood(w, t) BY <2>1, OperationOpened, CreateAccountGood
    <2> HIDE DEF panics, w, t
    <2> QED BY <2>1, <2>2, <2>3, OperationIInv
<1>2. ASSUME NEW a \in Addrs, NEW n \in Nonces, SetNonce(a, n) PROVE IInv'
    <2> DEFINE w == [createAccountIfNotExists(world, a) EXCEPT !.acc[a].seq = n]
    <2>1. Operation(FALSE, w, Touch(a)) BY <1>2, Zenon DEF SetNonce
    <2>2. OpGood(w, Touch(a)) BY <2>1, OperationOpened, SetNonceGood, StateDbAssumption, ZenonT(60)
    <2> HIDE DEF w
    <2> QED BY <2>1, <2>2, OperationIInv, Zenon
<1>3. ASSUME NEW a \in Addrs, Suicide(a) \/ Selfdestruct6780(a) PROVE IInv'
    BY <1>3, SuicideIInv DEF Selfdestruct6780
<1>4. ASSUME NEW a \in Addrs, NEW n \in Amounts, SubBalance(a, n) PROVE IInv'
    <2> DEFINE panics == n > 0 /\ SpendableCoins(world, a, EvmDenom) < n
    <2>1. /\ Operation(panics, burnCoins(world, a, EvmCoins(n)), Touch(a))
          /\ n <= world.bal[a][EvmDenom]
        BY <1>4 DEF SubBalance
    <2>2. Opened BY <2>1, OperationOpened
    <2>3. OpGood(burnCoins(world, a, EvmCoins(n)), Touch(a))
        BY <2>1, <2>2, TouchOnly, BurnGood, StateDbAssumption DEF Opened
    <2>4. panics \in BOOLEAN OBVIOUS
    <2> HIDE DEF panics
    <2> QED BY <2>1, <2>3, <2>4, OperationIInv
<1>5. ASSUME NEW a \in Addrs, NEW n \in Amounts, AddBalance(a, n) PROVE IInv'
    <2> DEFINE panics == MintFails(a, EvmCoins(n))
    <2>1. Operation(panics, mintCoins(world, a, EvmCoins(n)), Touch(a))
        BY <1>5 DEF AddBalance
    <2>2. OpGood(mintCoins(world, a, EvmCoins(n)), Touch(a))
        BY <2>1, OperationOpened, AddBalanceGood, StateDbAssumption
    <2>3. panics \in BOOLEAN BY DEF MintFails
    <2> HIDE DEF panics
    <2> QED BY <2>1, <2>2, <2>3, OperationIInv
<1>6. ASSUME NEW a \in Addrs, NEW c \in Codes \cup {NoCode}, SetCode(a, c) PROVE IInv'
    <2> DEFINE w == [createAccountIfNotExists(world, a) EXCEPT !.code[a] = c]
    <2>1. Operation(FALSE, w, Touch(a)) BY <1>6, Zenon DEF SetCode
    <2>2. OpGood(w, Touch(a)) BY <2>1, OperationOpened, SetCodeGood, Zenon
    <2> HIDE DEF w
    <2> QED BY <2>1, <2>2, OperationIInv, Zenon
<1>7. ASSUME NEW a \in Addrs, NEW s \in Slots, NEW x \in Words, SetState(a, s, x)
      PROVE  IInv'
    <2> DEFINE w == [createAccountIfNotExists(world, a) EXCEPT !.stor[a][s] = x]
    <2>1. Operation(FALSE, w, Touch(a)) BY <1>7, Zenon DEF SetState
    <2>2. OpGood(w, Touch(a)) BY <2>1, OperationOpened, SetStateGood, Zenon
    <2> HIDE DEF w
    <2> QED BY <2>1, <2>2, OperationIInv, Zenon
<1>8. ASSUME NEW from \in Addrs, NEW to \in Addrs, NEW d \in Denoms, NEW n \in Amounts,
             NEW l \in Logs, Erc20Transfer(from, to, d, n, l)
      PROVE  IInv'
    <2> DEFINE t == [trk EXCEPT !.logs = Append(@, l)]
               moved == [createAccountIfNotExists(world, to) EXCEPT
                           !.bal[from][d] = @ - n, !.bal[to][d] = @ + n]
    <2>1. Operation(FALSE, IF n > 0 /\ from # to THEN moved ELSE world, t)
        BY <1>8, Zenon DEF Erc20Transfer
    <2>2. Opened BY <2>1, OperationOpened, Zenon
    <2>3. /\ t \in Trackers /\ t.touched = trk.touched
          /\ t.destructed = trk.destructed /\ t.born = trk.born
        <3>1. trk \in Trackers BY <2>2 DEF Opened
        <3>2. Append(trk.logs, l) \in Seq(Logs) BY <3>1, TrackerFields
        <3> QED BY <3>1, <3>2, Zenon DEF Trackers
    <2>4. n <= world.bal[from][d] BY <1>8 DEF Erc20Transfer
    <2> HIDE DEF t
    <2>5. OpGood(IF n > 0 /\ from # to THEN moved ELSE world, t)
        <3>1. CASE n > 0 /\ from # to
            BY <2>2, <2>3, <2>4, <3>1, Erc20Good, StateDbAssumption, Zenon
        <3>2. CASE ~(n > 0 /\ from # to)
            BY <2>2, <2>3, <3>2, TrackerGood
        <3> QED BY <3>1, <3>2, SMTT(60)
    <2> HIDE DEF moved
    <2> QED BY <2>1, <2>5, OperationIInv, Zenon
<1> QED BY <1>1, <1>2, <1>3, <1>4, <1>5, <1>6, <1>7, <1>8 DEF WorldOp

(* Every method that only changes trackers preserves the invariant.        *)
LEMMA TrackerOpIInv ==
    ASSUME IInv, TrackerOp
    PROVE  IInv'
<1>0. ASSUME NEW panics \in BOOLEAN, NEW t, Operation(panics, world, t),
             trk \in Trackers /\ ~panics =>
                /\ t \in Trackers /\ t.touched = trk.touched
                /\ t.destructed = trk.destructed /\ t.born = trk.born
      PROVE  IInv'
    <2>1. Opened BY <1>0, OperationOpened
    <2>2. ~panics => OpGood(world, t) BY <1>0, <2>1, TrackerGood DEF Opened
    <2> QED BY <1>0, <2>2, OperationIInv
<1>1. ASSUME NEW a \in Addrs, AddAddressToAccessList(a) PROVE IInv'
    <2> DEFINE t == [trk EXCEPT !.warm = @ \cup {a}]
    <2>1. trk \in Trackers => /\ t \in Trackers /\ t.touched = trk.touched
                              /\ t.destructed = trk.destructed /\ t.born = trk.born
        BY Zenon DEF Trackers
    <2>2. Operation(FALSE, world, t) BY <1>1, Zenon DEF AddAddressToAccessList
    <2> HIDE DEF t
    <2> QED BY <1>0, <2>1, <2>2, Zenon
<1>2. ASSUME NEW a \in Addrs, NEW s \in Slots, AddSlotToAccessList(a, s) PROVE IInv'
    <2> DEFINE t == [trk EXCEPT !.warm = @ \cup {a}, !.warmSlots = @ \cup {<<a, s>>}]
    <2>1. trk \in Trackers => /\ t \in Trackers /\ t.touched = trk.touched
                              /\ t.destructed = trk.destructed /\ t.born = trk.born
        BY Zenon DEF Trackers
    <2>2. Operation(FALSE, world, t) BY <1>2, Zenon DEF AddSlotToAccessList
    <2> HIDE DEF t
    <2> QED BY <1>0, <2>1, <2>2, Zenon
<1>3. ASSUME NEW a \in Addrs, NEW s \in Slots, NEW x \in Words, SetTransientState(a, s, x)
      PROVE  IInv'
    <2> DEFINE t == [trk EXCEPT !.transient[<<a, s>>] = x]
    <2>1. trk \in Trackers => /\ t \in Trackers /\ t.touched = trk.touched
                              /\ t.destructed = trk.destructed /\ t.born = trk.born
        BY Zenon DEF Trackers
    <2>2. Operation(FALSE, world, t) BY <1>3, Zenon DEF SetTransientState
    <2> HIDE DEF t
    <2> QED BY <1>0, <2>1, <2>2, Zenon
<1>4. ASSUME NEW a \in Addrs, NEW dst \in {{}} \cup {{b} : b \in Addrs},
             NEW list \in AccessLists, PrepareAccessList(a, dst, list)
      PROVE  IInv'
    <2> DEFINE warm == {a, Coinbase} \cup dst \cup Precompiles \cup {x[1] : x \in list}
               none == FreshTrackers.transient
               t == [trk EXCEPT !.warm = warm, !.warmSlots = list, !.transient = none]
    <2>1. list \in SUBSET (Addrs \X Slots) BY StateDbAssumption
    <2>2. warm \in SUBSET Addrs BY <2>1, StateDbAssumption
    <2>3. none \in [Addrs \X Slots -> Words] BY FreshTrackersType, TrackerFields, Zenon
    <2>4. Operation(FALSE, world, t) BY <1>4, Zenon DEF PrepareAccessList
    <2> HIDE DEF warm, none
    <2>5. trk \in Trackers => /\ t \in Trackers /\ t.touched = trk.touched
                              /\ t.destructed = trk.destructed /\ t.born = trk.born
        BY <2>1, <2>2, <2>3, Zenon DEF Trackers
    <2> HIDE DEF t
    <2> QED BY <1>0, <2>4, <2>5, Zenon
<1>5. ASSUME NEW g \in Gas, AddRefund(g) PROVE IInv'
    <2> DEFINE new == (trk.refund + g) % RefundMod
               t == [trk EXCEPT !.refund = new]
    <2>1. trk \in Trackers => new \in 0..(RefundMod - 1)
        BY TrackerFields, StateDbAssumption
    <2>2. Operation(new < g, world, t) BY <1>5 DEF AddRefund
    <2>3. (new < g) \in BOOLEAN OBVIOUS
    <2> HIDE DEF new
    <2>4. trk \in Trackers => /\ t \in Trackers /\ t.touched = trk.touched
                              /\ t.destructed = trk.destructed /\ t.born = trk.born
        BY <2>1, Zenon DEF Trackers
    <2> HIDE DEF t
    <2> QED BY <1>0, <2>2, <2>3, <2>4, Zenon
<1>6. ASSUME NEW g \in Gas, SubRefund(g) PROVE IInv'
    <2> DEFINE panics == trk.refund < g
               left == trk.refund - g
               t == [trk EXCEPT !.refund = left]
    <2>1. trk \in Trackers /\ ~panics => left \in 0..(RefundMod - 1)
        BY TrackerFields, StateDbAssumption
    <2>2. Operation(panics, world, t) BY <1>6 DEF SubRefund
    <2>3. panics \in BOOLEAN OBVIOUS
    <2> HIDE DEF left, panics
    <2>4. trk \in Trackers /\ ~panics =>
            /\ t \in Trackers /\ t.touched = trk.touched
            /\ t.destructed = trk.destructed /\ t.born = trk.born
        BY <2>1, Zenon DEF Trackers
    <2> HIDE DEF t
    <2> QED BY <1>0, <2>2, <2>3, <2>4
<1>7. ASSUME NEW l \in Logs, AddLog(l) PROVE IInv'
    <2> DEFINE t == [trk EXCEPT !.logs = Append(@, l)]
    <2>0. trk \in Trackers => Append(trk.logs, l) \in Seq(Logs) BY TrackerFields
    <2>1. trk \in Trackers => /\ t \in Trackers /\ t.touched = trk.touched
                              /\ t.destructed = trk.destructed /\ t.born = trk.born
        BY <2>0, Zenon DEF Trackers
    <2>2. Operation(FALSE, world, t) BY <1>7, Zenon DEF AddLog
    <2> HIDE DEF t
    <2> QED BY <1>0, <2>1, <2>2
<1> QED BY <1>1, <1>2, <1>3, <1>4, <1>5, <1>6, <1>7 DEF TrackerOp

(* What holds of the committed store holds as long as it does not change.  *)
LEMMA StoreUnchanged ==
    ASSUME IInv, UNCHANGED store
    PROVE  Rooted(store)' /\ Numbered(store)'
BY DEF IInv

(* Snapshot.                                                               *)
LEMMA SnapshotIInv ==
    ASSUME IInv, Snapshot
    PROVE  IInv'
<1>1. /\ phase = "open" /\ Len(saved) < MaxSnapshots
      /\ saved' = Append(saved, Live(world, trk))
      /\ UNCHANGED <<store, world, trk, phase, todo, begun, expired, ops>>
    BY SMTT(60) DEF Snapshot
<1>2. /\ saved \in Seq([w : World, t : Trackers])
      /\ Live(world, trk) \in [w : World, t : Trackers]
      /\ Live(world, trk).w = world /\ Live(world, trk).t = trk
    <2>1. TypeOK BY DEF IInv
    <2> QED BY <2>1 DEF TypeOK, Live
<1>3. /\ saved' \in Seq([w : World, t : Trackers]) /\ Len(saved') = Len(saved) + 1
      /\ saved'[Len(saved) + 1] = Live(world, trk)
      /\ \A i \in 1..Len(saved) : saved'[i] = saved[i]
    BY <1>1, <1>2, AppendProperties, SMTT(60)
<1>4. TypeOK' BY <1>1, <1>3, StateDbAssumption DEF IInv, TypeOK
<1>5. ViewOK(store, world, trk) /\ \A i \in 1..Len(saved) : ViewOK(store, saved[i].w, saved[i].t)
    BY <1>1 DEF IInv
<1>6. \A i \in 1..Len(saved') : ViewOK(store, saved'[i].w, saved'[i].t)
    BY <1>2, <1>3, <1>5
<1>7. \A i \in 1..Len(saved') : ViewOK(store, saved[i].w, saved[i].t)'
    BY <1>1, <1>6
<1>8. ViewOK(store, world, trk)'
    BY <1>1, <1>5
<1>9. CommitDestroysExactly' BY <1>1, SMTT(60) DEF CommitDestroysExactly
<1> QED BY <1>1, <1>4, <1>7, <1>8, <1>9, StoreUnchanged DEF IInv

(* RevertToSnapshot.                                                       *)
LEMMA RevertIInv ==
    ASSUME IInv, NEW id \in Nat, RevertToSnapshot(id)
    PROVE  IInv'
<1>1. /\ phase = "open" /\ id + 1 \in 1..Len(saved)
      /\ world' = saved[id + 1].w /\ trk' = saved[id + 1].t
      /\ saved' = SubSeq(saved, 1, id + 1)
      /\ UNCHANGED <<store, phase, todo, begun, expired, ops>>
    <2>1. saved \in Seq([w : World, t : Trackers]) BY DEF IInv, TypeOK
    <2>2. Len(saved) \in Nat BY <2>1, LenProperties
    <2> QED BY <2>2 DEF RevertToSnapshot
<1>2. saved \in Seq([w : World, t : Trackers]) BY DEF IInv, TypeOK
<1>3. saved[id + 1] \in [w : World, t : Trackers] BY <1>1, <1>2, ElementOfSeq, Zenon
<1>4. /\ saved' \in Seq([w : World, t : Trackers]) /\ Len(saved') = id + 1
      /\ \A i \in 1..(id + 1) : saved'[i] = saved[i]
    <2> DEFINE S == [w : World, t : Trackers]
               k == id + 1
    <2>1. k \in Nat /\ k >= 1 /\ 1 \in Int OBVIOUS
    <2>2. \A i \in 1..k : saved[i] \in S
        <3>1. \A i \in 1..Len(saved) : saved[i] \in S BY <1>2, ElementOfSeq, ZenonT(60)
        <3>2. Len(saved) \in Nat BY <1>2, LenProperties
        <3>3. \A i \in 1..k : i \in 1..Len(saved) BY <1>1, <2>1, <3>2
        <3> QED BY <3>1, <3>3
    <2> HIDE DEF S, k
    <2>3. /\ SubSeq(saved, 1, k) \in Seq(S)
          /\ Len(SubSeq(saved, 1, k)) = IF 1 <= k THEN k - 1 + 1 ELSE 0
          /\ \A i \in 1..(k - 1 + 1) : SubSeq(saved, 1, k)[i] = saved[1 + i - 1]
        BY <2>1, <2>2, SubSeqProperties
    <2>4. /\ SubSeq(saved, 1, k) \in Seq(S) /\ Len(SubSeq(saved, 1, k)) = k
          /\ \A i \in 1..k : SubSeq(saved, 1, k)[i] = saved[i]
        BY <2>1, <2>3
    <2> QED BY <1>1, <2>4 DEF S, k
<1>5. world' \in World /\ trk' \in Trackers BY <1>1, <1>3
<1>6. TypeOK' BY <1>1, <1>4, <1>5, StateDbAssumption DEF IInv, TypeOK
<1>7. \A i \in 1..Len(saved) : ViewOK(store, saved[i].w, saved[i].t) BY <1>1 DEF IInv
<1>8. ViewOK(store, world', trk') BY <1>1, <1>7
<1>9. \A i \in 1..Len(saved') : ViewOK(store, saved'[i].w, saved'[i].t)
    <2>1. \A i \in 1..(id + 1) : i \in 1..Len(saved)
        <3>1. Len(saved) \in Nat BY <1>2, LenProperties
        <3> QED BY <1>1, <3>1
    <2>2. \A i \in 1..(id + 1) : ViewOK(store, saved'[i].w, saved'[i].t)
        BY <1>4, <1>7, <2>1
    <2> QED BY <1>4, <2>2
<1>10. ViewOK(store, world, trk)' /\ \A i \in 1..Len(saved') : ViewOK(store, saved[i].w, saved[i].t)'
    BY <1>1, <1>8, <1>9, SMTT(60)
<1>11. CommitDestroysExactly' BY <1>1 DEF CommitDestroysExactly
<1> QED BY <1>1, <1>6, <1>10, <1>11, StoreUnchanged DEF IInv

(* CommitMultiStore, up to its loop.                                       *)
LEMMA CommitIInv ==
    ASSUME IInv, CommitMultiStore
    PROVE  IInv'
<1>1. /\ phase = "open" /\ phase' = "committing" /\ todo' = trk.touched /\ begun' = world
      /\ UNCHANGED <<store, world, trk, saved, expired, ops>>
    BY SMTT(60) DEF CommitMultiStore
<1>2. TypeOK' BY <1>1 DEF IInv, TypeOK
<1>3. Rooted(world)' /\ Numbered(world)'
    <2>1. Rooted(world) /\ Numbered(world) BY <1>1 DEF IInv, ViewOK
    <2> QED BY <1>1, <2>1
<1>4. CommitDestroysExactly' BY <1>1 DEF CommitDestroysExactly
<1> QED BY <1>1, <1>2, <1>3, <1>4, StoreUnchanged DEF IInv

(* One turn of the commit loop.                                            *)
LEMMA VisitIInv ==
    ASSUME IInv, NEW a \in Addrs, VisitTouched(a)
    PROVE  IInv'
<1>1. CASE Doomed(world, trk, a) /\ DestroyFails(world, a)
    BY <1>1, DropIInv DEF VisitTouched
<1>2. CASE ~(Doomed(world, trk, a) /\ DestroyFails(world, a))
    <2> DEFINE v == DestroyAccount(world, a)
    <2>1. /\ phase = "committing" /\ a \in todo /\ todo' = todo \ {a}
          /\ world' = IF Doomed(world, trk, a) THEN v ELSE world
          /\ UNCHANGED <<store, trk, saved, phase, begun, expired, ops>>
        BY <1>2, SMTT(60) DEF VisitTouched
    <2>2. /\ store \in World /\ world \in World /\ begun \in World /\ trk \in Trackers
          /\ Rooted(world) /\ Numbered(world) /\ CommitDestroysExactly
          /\ todo \subseteq trk.touched
        BY <2>1 DEF IInv, TypeOK
    <2>3. /\ v \in World /\ v.next = world.next
          /\ v.acc = [world.acc EXCEPT ![a] = NoAcc]
          /\ v.bal = [world.bal EXCEPT ![a] = NoCoins]
          /\ v.code = [world.code EXCEPT ![a] = NoCode]
          /\ v.stor = [world.stor EXCEPT ![a] = NoStorage]
        BY <2>2, DestroyLeavesNothing, Zenon
    <2> HIDE DEF v
    <2>4. /\ v.acc[a] = NoAcc /\ v.bal[a] = NoCoins
          /\ v.code[a] = NoCode /\ v.stor[a] = NoStorage
          /\ \A b \in Addrs \ {a} : /\ v.acc[b] = world.acc[b] /\ v.bal[b] = world.bal[b]
                                    /\ v.code[b] = world.code[b] /\ v.stor[b] = world.stor[b]
        BY <2>2, <2>3, WorldFields
    <2>5. /\ world.acc[a] = begun.acc[a] /\ world.bal[a] = begun.bal[a]
          /\ world.code[a] = begun.code[a] /\ world.stor[a] = begun.stor[a]
        BY <2>1, <2>2 DEF CommitDestroysExactly
    <2>6. Doomed(world, trk, a) <=> a \in trk.destructed \/ IsEmptyAccount(begun, a)
        BY <2>5, SMTT(60) DEF Doomed, IsEmptyAccount
    <2>7. TypeOK' BY <2>1, <2>2, <2>3 DEF IInv, TypeOK
    <2>8. CASE Doomed(world, trk, a)
        <3>1. world' = v BY <2>1, <2>8, SMTT(60)
        <3>2. Rooted(world)' BY <2>2, <2>4, <3>1, SMTT(60) DEF Rooted
        <3>3. Numbered(world)'
            <4>1. \A b \in Addrs : v.acc[b] # NoAcc => b # a /\ v.acc[b] = world.acc[b]
                BY <2>4, SMTT(60)
            <4>2. \A b \in Addrs : v.acc[b] # NoAcc =>
                    /\ v.acc[b].num < v.next
                    /\ \A c \in Addrs \ {b} : v.acc[c] # NoAcc => v.acc[c].num # v.acc[b].num
                BY <2>2, <2>3, <4>1, SMTT(60) DEF Numbered
            <4> QED BY <3>1, <4>2 DEF Numbered
        <3>4. CommitDestroysExactly'
            <4> SUFFICES ASSUME NEW b \in Addrs
                         PROVE  (LET gone == /\ b \in trk.touched \ todo
                                             /\ b \in trk.destructed \/ IsEmptyAccount(begun, b)
                                 IN  IF gone
                                     THEN /\ world.acc[b] = NoAcc /\ world.bal[b] = NoCoins
                                          /\ world.code[b] = NoCode /\ world.stor[b] = NoStorage
                                     ELSE /\ world.acc[b] = begun.acc[b]
                                          /\ world.bal[b] = begun.bal[b]
                                          /\ world.code[b] = begun.code[b]
                                          /\ world.stor[b] = begun.stor[b])'
                BY SMTT(60) DEF CommitDestroysExactly
            <4>1. CASE b = a BY <2>1, <2>2, <2>4, <2>6, <2>8, <3>1, <4>1, ZenonT(60) DEF IsEmptyAccount
            <4>2. CASE b # a
                <5>1. /\ world'.acc[b] = world.acc[b] /\ world'.bal[b] = world.bal[b]
                      /\ world'.code[b] = world.code[b] /\ world'.stor[b] = world.stor[b]
                    BY <2>4, <3>1, <4>2
                <5>2. b \in trk'.touched \ todo' <=> b \in trk.touched \ todo
                    BY <2>1, <4>2
                <5>3. IsEmptyAccount(begun', b) <=> IsEmptyAccount(begun, b) BY <2>1
                <5> QED BY <2>1, <2>2, <5>1, <5>2, <5>3, ZenonT(60) DEF CommitDestroysExactly
            <4> QED BY <4>1, <4>2, SMTT(60)
        <3> QED BY <2>1, <2>7, <3>2, <3>3, <3>4, StoreUnchanged DEF IInv
    <2>9. CASE ~Doomed(world, trk, a)
        <3>1. world' = world BY <2>1, <2>9, SMTT(60)
        <3>2. Rooted(world)' /\ Numbered(world)' BY <2>2, <3>1, SMTT(60) DEF Rooted, Numbered
        <3>3. CommitDestroysExactly'
            <4>1. \A b \in Addrs : IsEmptyAccount(begun', b) <=> IsEmptyAccount(begun, b)
                BY <2>1
            <4>2. ~(a \in trk.destructed \/ IsEmptyAccount(begun, a)) BY <2>6, <2>9, SMTT(60)
            <4>3. \A b \in Addrs \ {a} :
                    b \in trk'.touched \ todo' <=> b \in trk.touched \ todo
                BY <2>1, Zenon
            <4> QED BY <2>1, <2>2, <2>5, <3>1, <4>1, <4>2, <4>3, ZenonT(60) DEF CommitDestroysExactly
        <3> QED BY <2>1, <2>7, <3>2, <3>3, StoreUnchanged DEF IInv
    <2> QED BY <2>8, <2>9
<1> QED BY <1>1, <1>2

(* WriteChanges, NewStateDB and the clock.                                 *)
LEMMA RestIInv ==
    ASSUME IInv, WriteChanges \/ NewStateDB \/ ClockPassesVestingEnd
    PROVE  IInv'
<1>1. CASE WriteChanges
    <2>1. /\ phase = "committing" /\ phase' = "closed" /\ store' = world /\ saved' = <<>>
          /\ UNCHANGED <<world, trk, todo, begun, expired, ops>> /\ todo = {}
        BY <1>1, SMTT(60) DEF WriteChanges
    <2>2. TypeOK' BY <2>1, StateDbAssumption DEF IInv, TypeOK
    <2>3. Rooted(store)' /\ Numbered(store)' BY <2>1, SMTT(60) DEF IInv
    <2>4. CommitDestroysExactly' BY <2>1, SMTT(60) DEF CommitDestroysExactly
    <2> QED BY <2>1, <2>2, <2>3, <2>4 DEF IInv
<1>2. CASE NewStateDB
    <2>1. /\ phase = "closed" /\ phase' = "open" /\ world' = store /\ saved' = <<>>
          /\ trk' = FreshTrackers /\ begun' = store
          /\ UNCHANGED <<store, todo, expired, ops>>
        BY <1>2 DEF NewStateDB
    <2>2. TypeOK'
        <3>1. /\ store' \in World /\ world' \in World /\ begun' \in World /\ todo' = {}
              /\ expired' \in BOOLEAN /\ ops' \in 0..MaxOps
            BY <2>1 DEF IInv, TypeOK
        <3>2. trk' \in Trackers BY <2>1, FreshTrackersType
        <3>3. saved' \in Seq([w : World, t : Trackers]) /\ Len(saved') = 0
            BY <2>1, EmptySeq
        <3>4. Len(saved') <= MaxSnapshots BY <3>3, StateDbAssumption, SMTT(60)
        <3> QED BY <2>1, <3>1, <3>2, <3>3, <3>4, SMTT(60) DEF TypeOK
    <2>3. ViewOK(store, store, FreshTrackers) BY FreshViewOK DEF IInv, TypeOK
    <2>4. ViewOK(store, world, trk)'
        BY <2>1, <2>3
    <2>5. \A i \in 1..Len(saved') : ViewOK(store, saved[i].w, saved[i].t)'
        <3>1. Len(saved') = 0 BY <2>1, EmptySeq, SMTT(60)
        <3> QED BY <3>1
    <2>6. CommitDestroysExactly' BY <2>1, SMTT(60) DEF CommitDestroysExactly
    <2> QED BY <2>1, <2>2, <2>4, <2>5, <2>6, StoreUnchanged DEF IInv
<1>3. CASE ClockPassesVestingEnd
    <2>1. UNCHANGED <<store, world, trk, saved, phase, todo, begun, ops>> /\ expired' = TRUE
        BY <1>3, SMTT(60) DEF ClockPassesVestingEnd
    <2>2. TypeOK' BY <2>1, SMTT(60) DEF IInv, TypeOK
    <2>3. CommitDestroysExactly'
        <3>1. CommitDestroysExactly BY DEF IInv
        <3> QED BY <2>1, <3>1 DEF CommitDestroysExactly
    <2>4. phase' = "open" => /\ ViewOK(store, world, trk)'
                             /\ \A i \in 1..Len(saved') : ViewOK(store, saved[i].w, saved[i].t)'
        BY <2>1, SMTT(60) DEF IInv
    <2>5. phase' = "committing" => Rooted(world)' /\ Numbered(world)'
        BY <2>1 DEF IInv, Rooted, Numbered
    <2> QED BY <2>1, <2>2, <2>3, <2>4, <2>5, StoreUnchanged DEF IInv
<1> QED BY <1>1, <1>2, <1>3, SMTT(60)

(* Every step preserves the invariant.                                     *)
LEMMA NextIInv == IInv /\ [Next]_vars => IInv'
<1> SUFFICES ASSUME IInv, [Next]_vars PROVE IInv' OBVIOUS
<1>1. CASE WorldOp BY <1>1, WorldOpIInv
<1>2. CASE TrackerOp BY <1>2, TrackerOpIInv
<1>3. CASE Lifecycle
    <2>1. CASE Snapshot BY <2>1, SnapshotIInv
    <2>2. CASE \E id \in 0..MaxSnapshots : RevertToSnapshot(id)
        BY <2>2, RevertIInv, StateDbAssumption
    <2>3. CASE CommitMultiStore BY <2>3, CommitIInv
    <2>4. CASE \E a \in Addrs : VisitTouched(a) BY <2>4, VisitIInv
    <2>5. CASE Discard BY <2>5, DropIInv DEF Discard
    <2>6. CASE WriteChanges \/ NewStateDB \/ ClockPassesVestingEnd BY <2>6, RestIInv
    <2> QED BY <1>3, <2>1, <2>2, <2>3, <2>4, <2>5, <2>6 DEF Lifecycle
<1>4. CASE UNCHANGED vars
    <2>1. TypeOK' BY <1>4, SMTT(60) DEF vars, IInv, TypeOK
    <2>2. CommitDestroysExactly' BY <1>4, Zenon DEF vars, IInv, CommitDestroysExactly
    <2> QED BY <1>4, <2>1, <2>2, SMTT(60) DEF vars, IInv
<1> QED BY <1>1, <1>2, <1>3, <1>4 DEF Next

(* The invariant gives every safety property of the module.                *)
LEMMA IInvSafe ==
    ASSUME IInv
    PROVE  /\ TypeOK /\ NoOrphans /\ NumsUnique
           /\ CommittedStateRight /\ TouchedCoversChanges /\ CommitDestroysExactly
<1>1. phase \in {"open", "committing", "closed"} /\ store \in World /\ world \in World
    BY DEF IInv, TypeOK
<1>2. NoOrphans /\ NumsUnique BY <1>1 DEF IInv, NoOrphans, NumsUnique, ViewOK
<1>3. TouchedCoversChanges BY SMTT(60) DEF IInv, TouchedCoversChanges, ViewOK
<1>4. CommittedStateRight
    <2> SUFFICES ASSUME phase = "open", NEW a \in Addrs, NEW s \in Slots
                 PROVE  GetCommittedState(a, s) =
                            IF a \in trk.born THEN Zero ELSE GetState(store, a, s)
        BY DEF CommittedStateRight
    <2>1. BornRight(store, world, trk) /\ Rooted(store) /\ Numbered(store)
        BY SMTT(60) DEF IInv, ViewOK
    <2>2. /\ store.next \in Nat
          /\ world.acc[a] # NoAcc => world.acc[a].num \in Nat
          /\ store.acc[a] # NoAcc => store.acc[a].num \in Nat
        BY <1>1, WorldFields, SMTT(60) DEF Account
    <2>3. CASE a \in trk.born
        BY <2>1, <2>2, <2>3, SMTT(60) DEF BornRight, Numbered, GetCommittedState
    <2>4. CASE a \notin trk.born /\ world.acc[a] # NoAcc
        BY <2>1, <2>2, <2>4, SMTT(60) DEF BornRight, GetCommittedState
    <2>5. CASE a \notin trk.born /\ world.acc[a] = NoAcc
        <3>1. store.acc[a] = NoAcc BY <2>1, <2>5, SMTT(60) DEF BornRight
        <3>2. GetState(store, a, s) = Zero BY <2>1, <3>1 DEF Rooted, GetState, NoStorage
        <3> QED BY <2>5, <3>2, SMTT(60) DEF GetCommittedState
    <2> QED BY <2>3, <2>4, <2>5
<1> QED BY <1>2, <1>3, <1>4, SMTT(60) DEF IInv

(* Type correctness: in particular no balance is ever negative and the     *)
(* refund counter never leaves its range.                                  *)
THEOREM TypeCorrect == Spec => []TypeOK
<1>1. IInv => TypeOK BY IInvSafe
<1> QED BY <1>1, InitIInv, NextIInv, PTL DEF Spec

(* Nothing is ever stored for an address without an account, and account   *)
(* numbers are unique, through any nesting of snapshots and reverts and    *)
(* any order of the commit loop.                                           *)
THEOREM AccountsSound == Spec => []AccountsKept
<1>1. IInv => AccountsKept BY IInvSafe DEF AccountsKept
<1> QED BY <1>1, InitIInv, NextIInv, PTL DEF Spec

(* GetCommittedState tells an account made again in this transaction from  *)
(* the committed one, always.                                              *)
THEOREM CommittedStateCorrect == Spec => []CommittedStateRight
<1>1. IInv => CommittedStateRight BY IInvSafe
<1> QED BY <1>1, InitIInv, NextIInv, PTL DEF Spec

(* The touched set covers every change the commit loop has to look at.     *)
THEOREM TouchedSound == Spec => []TouchedCoversChanges
<1>1. IInv => TouchedCoversChanges BY IInvSafe
<1> QED BY <1>1, InitIInv, NextIInv, PTL DEF Spec

(* The result of the commit does not depend on the order in which Go       *)
(* ranges over the touched map.                                            *)
THEOREM CommitExact == Spec => []CommitDestroysExactly
<1>1. IInv => CommitDestroysExactly BY IInvSafe
<1> QED BY <1>1, InitIInv, NextIInv, PTL DEF Spec

-----------------------------------------------------------------------------
(* What all methods have in common: a drop, or a change of the view.       *)
MethodStep ==
    /\ phase = "open"
    /\ \/ Drop
       \/ phase' = "open" /\ UNCHANGED <<store, saved, todo>>

(* Every Operation is such a step.                                         *)
LEMMA OperationShape ==
    ASSUME NEW panics, NEW w, NEW t, Operation(panics, w, t)
    PROVE  MethodStep
BY DEF Operation, MethodStep

(* Every method that changes the world or a tracker is an Operation.       *)
LEMMA MethodsAreSteps ==
    ASSUME WorldOp \/ TrackerOp
    PROVE  MethodStep
<1>1. ASSUME NEW a \in Addrs, CreateAccount(a) PROVE MethodStep
    BY <1>1, OperationShape DEF CreateAccount
<1>2. ASSUME NEW a \in Addrs, NEW n \in Nonces, SetNonce(a, n) PROVE MethodStep
    BY <1>2, OperationShape, Zenon DEF SetNonce
<1>3. ASSUME NEW a \in Addrs, Suicide(a) PROVE MethodStep
    BY <1>3, OperationShape, ZenonT(60) DEF Suicide
<1>4. ASSUME NEW a \in Addrs, Selfdestruct6780(a) PROVE MethodStep
    BY <1>3, <1>4 DEF Selfdestruct6780
<1>5. ASSUME NEW a \in Addrs, NEW n \in Amounts, SubBalance(a, n) PROVE MethodStep
    BY <1>5, OperationShape DEF SubBalance
<1>6. ASSUME NEW a \in Addrs, NEW n \in Amounts, AddBalance(a, n) PROVE MethodStep
    BY <1>6, OperationShape DEF AddBalance
<1>7. ASSUME NEW a \in Addrs, NEW c \in Codes \cup {NoCode}, SetCode(a, c) PROVE MethodStep
    BY <1>7, OperationShape, Zenon DEF SetCode
<1>8. ASSUME NEW a \in Addrs, NEW s \in Slots, NEW x \in Words, SetState(a, s, x)
      PROVE  MethodStep
    BY <1>8, OperationShape, Zenon DEF SetState
<1>9. ASSUME NEW from \in Addrs, NEW to \in Addrs, NEW d \in Denoms, NEW n \in Amounts,
             NEW l \in Logs, Erc20Transfer(from, to, d, n, l)
      PROVE  MethodStep
    BY <1>9, OperationShape, Zenon DEF Erc20Transfer
<1>10. WorldOp => MethodStep
    BY <1>1, <1>2, <1>3, <1>4, <1>5, <1>6, <1>7, <1>8, <1>9 DEF WorldOp
<1>11. ASSUME TrackerOp PROVE MethodStep
    BY <1>11, OperationShape, Zenon DEF TrackerOp, AddAddressToAccessList, AddSlotToAccessList,
            SetTransientState, PrepareAccessList, AddRefund, SubRefund, AddLog
<1> QED BY <1>10, <1>11

(* Dropping the StateDB is invisible outside, also from the commit loop.   *)
LEMMA DropSim ==
    ASSUME Drop, PhaseOf = "open"
    PROVE  Abs!Discard
<1>1. world' = store /\ trk' = trk /\ phase' = "closed" /\ store' = store BY DEF Drop
<1>2. SavedViews' = <<>> /\ PhaseOf' = "closed" BY <1>1 DEF SavedViews, PhaseOf
<1> QED BY <1>1, <1>2 DEF Abs!Discard

(* Methods, panics included, change the view or drop it.                   *)
LEMMA MethodSim ==
    ASSUME IInv, IInv', MethodStep
    PROVE  Abs!Mutate \/ Abs!Discard
<1>1. phase = "open" /\ PhaseOf = "open" BY DEF MethodStep, PhaseOf
<1>2. CASE Drop BY <1>1, <1>2, DropSim
<1>3. CASE phase' = "open" /\ UNCHANGED <<store, saved, todo>>
    <2>1. world' \in World /\ trk' \in Trackers BY DEF IInv, TypeOK
    <2>2. SavedViews' = SavedViews /\ PhaseOf' = "open"
        BY <1>1, <1>3 DEF SavedViews, PhaseOf
    <2> QED BY <1>1, <1>3, <2>1, <2>2, SMTT(60) DEF Abs!Mutate, Abs!View
<1> QED BY <1>2, <1>3 DEF MethodStep

(* The saved views of an open StateDB.                                     *)
LEMMA SavedOpen ==
    ASSUME IInv, phase = "open"
    PROVE  /\ SavedViews \in Seq(Abs!View) /\ Len(SavedViews) = Len(saved)
           /\ \A i \in 1..Len(saved) :
                SavedViews[i] = [kv |-> saved[i].w, aux |-> saved[i].t]
<1>1. SavedViews = [i \in 1..Len(saved) |-> [kv |-> saved[i].w, aux |-> saved[i].t]]
    BY SMTT(60) DEF SavedViews, PhaseOf
<1>2. saved \in Seq([w : World, t : Trackers]) /\ Len(saved) \in Nat
    BY LenProperties DEF IInv, TypeOK
<1>3. \A i \in 1..Len(saved) : [kv |-> saved[i].w, aux |-> saved[i].t] \in Abs!View
    <2> TAKE i \in 1..Len(saved)
    <2>1. saved[i] \in [w : World, t : Trackers] BY <1>2, ElementOfSeq, Zenon
    <2> QED BY <2>1 DEF Abs!View
<1>4. SavedViews \in [1..Len(saved) -> Abs!View] BY <1>1, <1>3
<1>5. SavedViews \in Seq(Abs!View) /\ Len(SavedViews) = Len(saved)
    BY <1>2, <1>4, LenProperties
<1> QED BY <1>1, <1>5

(* The same, one step later.                                               *)
LEMMA SavedOpenNext ==
    ASSUME IInv', phase' = "open"
    PROVE  /\ SavedViews' \in Seq(Abs!View) /\ Len(SavedViews') = Len(saved')
           /\ \A i \in 1..Len(saved') :
                SavedViews'[i] = [kv |-> saved'[i].w, aux |-> saved'[i].t]
<1>1. (IInv /\ phase = "open" =>
        /\ SavedViews \in Seq(Abs!View) /\ Len(SavedViews) = Len(saved)
        /\ \A i \in 1..Len(saved) :
             SavedViews[i] = [kv |-> saved[i].w, aux |-> saved[i].t])'
    BY SavedOpen, PTL
<1> QED BY <1>1

(* A StateDB without snapshots has no saved views.                         *)
LEMMA SavedNone ==
    ASSUME saved = <<>>
    PROVE  SavedViews = <<>>
BY DEF SavedViews

(* Snapshot saves the current view.                                        *)
LEMMA SnapshotSim ==
    ASSUME IInv, IInv', Snapshot
    PROVE  Abs!Snapshot
<1> DEFINE c == [kv |-> world, aux |-> trk]
           n == Len(saved)
<1>1. /\ phase = "open" /\ phase' = "open" /\ PhaseOf = "open" /\ PhaseOf' = "open"
      /\ UNCHANGED <<store, world, trk>> /\ saved' = Append(saved, Live(world, trk))
    BY DEF Snapshot, PhaseOf
<1>2. /\ c \in Abs!View /\ saved \in Seq([w : World, t : Trackers]) /\ n \in Nat
      /\ Live(world, trk) \in [w : World, t : Trackers]
      /\ c = [kv |-> Live(world, trk).w, aux |-> Live(world, trk).t]
    <2>1. TypeOK BY SMTT(60) DEF IInv
    <2>2. world \in World /\ trk \in Trackers /\ saved \in Seq([w : World, t : Trackers])
        BY <2>1 DEF TypeOK
    <2>3. n \in Nat BY <2>2, LenProperties
    <2>4. c \in Abs!View BY <2>2, SMTT(60) DEF Abs!View
    <2> QED BY <2>2, <2>3, <2>4, SMTT(60) DEF Live
<1>3. /\ Len(saved') = n + 1 /\ saved'[n + 1] = Live(world, trk)
      /\ \A i \in 1..n : saved'[i] = saved[i]
    BY <1>1, <1>2, AppendProperties, SMTT(60)
<1>4. /\ SavedViews \in Seq(Abs!View) /\ Len(SavedViews) = n
      /\ \A i \in 1..n : SavedViews[i] = [kv |-> saved[i].w, aux |-> saved[i].t]
    BY <1>1, SavedOpen, SMTT(60)
<1>5. /\ SavedViews' \in Seq(Abs!View) /\ Len(SavedViews') = n + 1
      /\ \A i \in 1..(n + 1) : SavedViews'[i] = [kv |-> saved'[i].w, aux |-> saved'[i].t]
    BY <1>1, <1>3, SavedOpenNext, SMTT(60)
<1> HIDE DEF c, n
<1>6. /\ Append(SavedViews, c) \in Seq(Abs!View) /\ Len(Append(SavedViews, c)) = n + 1
      /\ \A i \in 1..n : Append(SavedViews, c)[i] = SavedViews[i]
      /\ Append(SavedViews, c)[n + 1] = c
    BY <1>2, <1>4, AppendProperties
<1>7. ASSUME NEW i \in 1..(n + 1) PROVE SavedViews'[i] = Append(SavedViews, c)[i]
    <2>1. CASE i = n + 1 BY <1>2, <1>3, <1>5, <1>6, <2>1
    <2>2. CASE i # n + 1
        <3>1. i \in 1..n BY <1>2, <2>2, SMTT(60)
        <3> QED BY <1>3, <1>4, <1>5, <1>6, <3>1, SMTT(60)
    <2> QED BY <2>1, <2>2, ZenonT(60)
<1>8. SavedViews' = Append(SavedViews, c) BY <1>5, <1>6, <1>7, SeqEqual, SMTT(60)
<1> QED BY <1>1, <1>8 DEF Abs!Snapshot, c

(* RevertToSnapshot brings back the saved view.                            *)
LEMMA RevertSim ==
    ASSUME IInv, IInv', NEW id \in Nat, RevertToSnapshot(id)
    PROVE  Abs!Revert
<1> DEFINE k == id + 1
<1>1. /\ phase = "open" /\ phase' = "open" /\ PhaseOf = "open" /\ PhaseOf' = "open"
      /\ store' = store /\ k <= Len(saved) /\ k \in Nat /\ k >= 1
      /\ world' = saved[k].w /\ trk' = saved[k].t /\ saved' = SubSeq(saved, 1, k)
    BY SMTT(60) DEF RevertToSnapshot, PhaseOf
<1>2. saved \in Seq([w : World, t : Trackers]) /\ Len(saved) \in Nat
    BY LenProperties, SMTT(60) DEF IInv, TypeOK
<1> HIDE DEF k
<1>3. /\ SavedViews \in Seq(Abs!View) /\ Len(SavedViews) = Len(saved)
      /\ \A i \in 1..Len(saved) : SavedViews[i] = [kv |-> saved[i].w, aux |-> saved[i].t]
    BY <1>1, SavedOpen, SMTT(60)
<1>4. Len(saved') = k /\ \A i \in 1..k : saved'[i] = saved[i]
    <2>1. \A i \in 1..Len(saved) : saved[i] \in [w : World, t : Trackers]
        BY <1>2, ElementOfSeq, ZenonT(60)
    <2>2. \A i \in 1..k : saved[i] \in [w : World, t : Trackers] BY <1>1, <1>2, <2>1
    <2> QED BY <1>1, <2>2, SubSeqProperties, SMTT(60)
<1>5. /\ SubSeq(SavedViews, 1, k) \in Seq(Abs!View) /\ Len(SubSeq(SavedViews, 1, k)) = k
      /\ \A i \in 1..k : SubSeq(SavedViews, 1, k)[i] = SavedViews[i]
    <2>1. \A i \in 1..Len(saved) : SavedViews[i] \in Abs!View BY <1>3, ElementOfSeq
    <2>2. \A i \in 1..k : SavedViews[i] \in Abs!View BY <1>1, <1>2, <2>1, SMTT(60)
    <2> QED BY <1>1, <2>2, SubSeqProperties
<1>6. /\ SavedViews' \in Seq(Abs!View) /\ Len(SavedViews') = k
      /\ \A i \in 1..k : SavedViews'[i] = [kv |-> saved'[i].w, aux |-> saved'[i].t]
    BY <1>1, <1>4, SavedOpenNext, SMTT(60)
<1>7. \A i \in 1..k : SavedViews'[i] = SubSeq(SavedViews, 1, k)[i]
    BY <1>1, <1>2, <1>3, <1>4, <1>5, <1>6, SMTT(60)
<1>8. SavedViews' = SubSeq(SavedViews, 1, k) BY <1>5, <1>6, <1>7, SeqEqual, SMTT(60)
<1>9. k \in 1..Len(SavedViews) /\ [kv |-> world', aux |-> trk'] = SavedViews[k]
    BY <1>1, <1>2, <1>3
<1> QED BY <1>1, <1>8, <1>9 DEF Abs!Revert

(* The commit loop: its turns change the view, and its end is the point    *)
(* after which the view is fixed.                                          *)
LEMMA CommitLoopSim ==
    ASSUME IInv, IInv', CommitMultiStore \/ \E a \in Addrs : VisitTouched(a)
    PROVE  Abs!Next \/ UNCHANGED Abs!vars
<1>0. world' \in World /\ trk' \in Trackers BY DEF IInv, TypeOK
<1>1. CASE CommitMultiStore
    <2>1. /\ phase = "open" /\ phase' = "committing" /\ PhaseOf = "open"
          /\ UNCHANGED <<store, world, trk, saved>>
        BY <1>1 DEF CommitMultiStore, PhaseOf
    <2>2. CASE todo' = {}
        <3>1. PhaseOf' = "committing" /\ SavedViews' = <<>>
            BY <2>1, <2>2, SMTT(60) DEF PhaseOf, SavedViews
        <3> QED BY <1>0, <2>1, <3>1, SMTT(60) DEF Abs!Next, Abs!BeginCommit, Abs!View
    <2>3. CASE todo' # {}
        <3>1. PhaseOf' = "open" /\ SavedViews' = SavedViews
            BY <2>1, <2>3, SMTT(60) DEF PhaseOf, SavedViews
        <3> QED BY <2>1, <3>1, SMTT(60) DEF Abs!vars
    <2> QED BY <2>2, <2>3
<1>2. ASSUME NEW a \in Addrs, VisitTouched(a) PROVE Abs!Next
    <2>1. phase = "committing" /\ todo # {} /\ PhaseOf = "open"
        BY <1>2 DEF VisitTouched, PhaseOf
    <2>2. CASE Drop BY <2>1, <2>2, DropSim DEF Abs!Next
    <2>3. CASE UNCHANGED <<store, trk, saved, phase>>
        <3>1. CASE todo' = {}
            <4>1. PhaseOf' = "committing" /\ SavedViews' = <<>>
                BY <2>1, <2>3, <3>1 DEF PhaseOf, SavedViews
            <4> QED BY <1>0, <2>1, <2>3, <4>1, SMTT(60) DEF Abs!Next, Abs!BeginCommit, Abs!View
        <3>2. CASE todo' # {}
            <4>1. PhaseOf' = "open" /\ SavedViews' = SavedViews
                BY <2>1, <2>3, <3>2 DEF PhaseOf, SavedViews
            <4> QED BY <1>0, <2>1, <2>3, <4>1, SMTT(60) DEF Abs!Next, Abs!Mutate, Abs!View
        <3> QED BY <3>1, <3>2, SMTT(60)
    <2> QED BY <1>2, <2>2, <2>3, SMTT(60) DEF VisitTouched
<1> QED BY <1>1, <1>2, SMTT(60)

(* WriteChanges publishes the view, and a new StateDB begins with it.      *)
LEMMA PublishSim ==
    ASSUME IInv, WriteChanges \/ NewStateDB
    PROVE  Abs!Publish \/ Abs!Begin
<1>1. CASE WriteChanges
    <2>1. /\ phase = "committing" /\ todo = {} /\ phase' = "closed" /\ store' = world
          /\ UNCHANGED <<world, trk>>
        BY <1>1 DEF WriteChanges
    <2>2. /\ PhaseOf = "committing" /\ PhaseOf' = "closed"
          /\ SavedViews = <<>> /\ SavedViews' = <<>>
        BY <2>1, SMTT(60) DEF PhaseOf, SavedViews
    <2> QED BY <2>1, <2>2 DEF Abs!Publish
<1>2. CASE NewStateDB
    <2>1. /\ phase = "closed" /\ phase' = "open" /\ world' = store /\ trk' = FreshTrackers
          /\ saved' = <<>> /\ store' = store
        BY <1>2 DEF NewStateDB
    <2>2. (saved = <<>> => SavedViews = <<>>)' BY SavedNone, PTL
    <2>3. PhaseOf = "closed" /\ PhaseOf' = "open" BY <2>1 DEF PhaseOf
    <2> QED BY <2>1, <2>2, <2>3 DEF Abs!Begin
<1> QED BY <1>1, <1>2

(* The StateDB, with its panics and its commit loop, implements            *)
(* SnapshotStore: Snapshot and RevertToSnapshot act on the whole view of   *)
(* accounts and trackers, and the store only ever becomes a whole view.    *)
THEOREM StateDbImplementsSnapshots == Spec => Implements
<1>1. Init => Abs!Init
    <2> SUFFICES ASSUME Init PROVE Abs!Init OBVIOUS
    <2>1. store \in World BY GenesisAssumption DEF Init
    <2>2. SavedViews = <<>> BY SavedNone DEF Init
    <2> QED BY <2>1, <2>2 DEF Init, Abs!Init, PhaseOf
<1>2. IInv /\ IInv' /\ [Next]_vars => [Abs!Next]_(Abs!vars)
    <2> SUFFICES ASSUME IInv, IInv', [Next]_vars
                 PROVE  Abs!Next \/ UNCHANGED Abs!vars
        OBVIOUS
    <2>1. CASE WorldOp \/ TrackerOp BY <2>1, MethodsAreSteps, MethodSim DEF Abs!Next
    <2>2. CASE Snapshot BY <2>2, SnapshotSim DEF Abs!Next
    <2>3. CASE \E id \in 0..MaxSnapshots : RevertToSnapshot(id)
        BY <2>3, RevertSim, StateDbAssumption DEF Abs!Next
    <2>4. CASE CommitMultiStore \/ \E a \in Addrs : VisitTouched(a)
        BY <2>4, CommitLoopSim
    <2>5. CASE Discard
        <3>1. PhaseOf = "open" BY <2>5 DEF Discard, PhaseOf
        <3> QED BY <2>5, <3>1, DropSim DEF Discard, Abs!Next
    <2>6. CASE WriteChanges \/ NewStateDB BY <2>6, PublishSim, SMTT(60) DEF Abs!Next
    <2>7. CASE ClockPassesVestingEnd \/ UNCHANGED vars
        BY <2>7 DEF ClockPassesVestingEnd, vars, Abs!vars, SavedViews, PhaseOf
    <2> QED BY <2>1, <2>2, <2>3, <2>4, <2>5, <2>6, <2>7 DEF Next, Lifecycle
<1>3. Spec => []IInv BY InitIInv, NextIInv, PTL DEF Spec
<1> QED BY <1>1, <1>2, <1>3, PTL DEF Spec, Implements, Abs!Spec
=============================================================================
