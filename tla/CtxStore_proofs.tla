-------------------------- MODULE CtxStore_proofs --------------------------
(***************************************************************************)
(* The layered contexts of the StateDB implement whole-state snapshots,    *)
(* for any set of keys, values and trackers and any depth of nesting.      *)
(***************************************************************************)
EXTENDS CtxStore, SequenceTheorems, WellFoundedInduction, TLAPS

(* A nonempty set of natural numbers has a least element.                  *)
LEMMA LeastNatural ==
    ASSUME NEW S, S \subseteq Nat, S # {}
    PROVE  \E m \in S : \A x \in S : m <= x
<1> DEFINE R == OpToRel(<, Nat)
<1>1. IsWellFoundedOn(R, Nat) BY NatLessThanWellFounded
<1>2. \A x, y \in Nat : x < y => <<x, y>> \in R BY DEF OpToRel
<1> HIDE DEF R
<1>3. PICK m \in S : \A y \in S : ~(<<y, m>> \in R) BY <1>1, WFMin
<1>4. \A x \in S : ~(x < m) BY <1>2, <1>3
<1> QED BY <1>4

(* i answers the reads of k made in context n.                             *)
Answers(ls, n, k, i) ==
    /\ i \in 0..n
    /\ i # 0 => ls[i][k] # Clean
    /\ \A j \in 1..n : j > i => ls[j][k] = Clean

(* Every read is answered: there is always a topmost context with an entry,*)
(* or none has one and the original store answers.                         *)
LEMMA OwnerAnswers ==
    ASSUME NEW ls, NEW n \in Nat, NEW k
    PROVE  Answers(ls, n, k, Owner(ls, n, k))
<1> DEFINE S == {m \in 0..n : m = n \/ ls[n - m][k] # Clean}
<1>1. S \subseteq Nat /\ S # {}
    <2>1. n \in S OBVIOUS
    <2> QED BY <2>1
<1>2. PICK m \in S : \A x \in S : m <= x
    BY <1>1, LeastNatural
<1>3. m \in 0..n OBVIOUS
<1>4. Answers(ls, n, k, n - m)
    <2>1. n - m \in 0..n BY <1>3
    <2>2. n - m # 0 => ls[n - m][k] # Clean BY <1>2, <1>3
    <2>3. ASSUME NEW j \in 1..n, j > n - m
          PROVE  ls[j][k] = Clean
        <3>1. n - j \in 0..n /\ n - j < m BY <1>3, <2>3
        <3>2. n - j \notin S BY <1>2, <3>1
        <3>3. n - (n - j) = j BY <2>3
        <3> QED BY <3>1, <3>2, <3>3
    <2> QED BY <2>1, <2>2, <2>3 DEF Answers
<1> QED BY <1>4 DEF Answers, Owner

(* There is only one such context.                                         *)
LEMMA OwnerUnique ==
    ASSUME NEW ls, NEW n \in Nat, NEW k, NEW i, Answers(ls, n, k, i)
    PROVE  Owner(ls, n, k) = i
<1> DEFINE o == Owner(ls, n, k)
<1>1. Answers(ls, n, k, o) BY OwnerAnswers
<1>2. i \in 0..n /\ o \in 0..n BY <1>1 DEF Answers
<1>3. ~(o < i)
    BY <1>1, <1>2 DEF Answers
<1>4. ~(i < o)
    BY <1>1, <1>2 DEF Answers
<1> QED BY <1>2, <1>3, <1>4

(* A view only depends on the contexts at or below it.                     *)
LEMMA ViewPrefix ==
    ASSUME NEW o, NEW ls, NEW ms, NEW n \in Nat,
           \A j \in 1..n : ls[j] = ms[j]
    PROVE  ViewAt(o, ls, n) = ViewAt(o, ms, n)
<1>1. ASSUME NEW k \in Keys
      PROVE  Owner(ls, n, k) = Owner(ms, n, k)
    <2>1. Answers(ms, n, k, Owner(ms, n, k)) BY OwnerAnswers
    <2>2. Answers(ls, n, k, Owner(ms, n, k)) BY <2>1 DEF Answers
    <2> QED BY <2>2, OwnerUnique
<1>2. ASSUME NEW k \in Keys, Owner(ms, n, k) # 0
      PROVE  ls[Owner(ms, n, k)] = ms[Owner(ms, n, k)]
    <2>1. Answers(ms, n, k, Owner(ms, n, k)) BY OwnerAnswers
    <2> QED BY <1>2, <2>1 DEF Answers
<1> QED BY <1>1, <1>2 DEF ViewAt

(* An empty context on top shows what is below it.                         *)
LEMMA ViewOfClean ==
    ASSUME NEW o, NEW ls, NEW n \in Nat, ls[n + 1] = CleanLayer
    PROVE  ViewAt(o, ls, n + 1) = ViewAt(o, ls, n)
<1>1. ASSUME NEW k \in Keys
      PROVE  Owner(ls, n + 1, k) = Owner(ls, n, k)
    <2>1. Answers(ls, n, k, Owner(ls, n, k)) BY OwnerAnswers
    <2>2. ls[n + 1][k] = Clean BY DEF CleanLayer
    <2>3. Answers(ls, n + 1, k, Owner(ls, n, k))
        BY <2>1, <2>2 DEF Answers
    <2> QED BY <2>3, OwnerUnique
<1> QED BY <1>1 DEF ViewAt

(* The original store is the view below the first context.                 *)
LEMMA ViewAtZero ==
    ASSUME NEW o \in [Keys -> Vals], NEW ls
    PROVE  ViewAt(o, ls, 0) = o
<1>1. ASSUME NEW k \in Keys
      PROVE  Owner(ls, 0, k) = 0
    BY OwnerAnswers DEF Answers
<1> QED BY <1>1 DEF ViewAt

(* A view over empty contexts only is the original store.                  *)
LEMMA ViewAllClean ==
    ASSUME NEW o \in [Keys -> Vals], NEW ls, NEW n \in Nat,
           \A j \in 1..n : ls[j] = CleanLayer
    PROVE  ViewAt(o, ls, n) = o
<1>1. ASSUME NEW k \in Keys
      PROVE  Owner(ls, n, k) = 0
    <2>1. Answers(ls, n, k, 0) BY DEF Answers, CleanLayer
    <2> QED BY <2>1, OwnerUnique
<1> QED BY <1>1 DEF ViewAt

(* A view is the topmost context laid over the view below it.              *)
LEMMA ViewStepDirty ==
    ASSUME NEW o, NEW ls, NEW n \in Nat, NEW k \in Keys, ls[n + 1][k] # Clean
    PROVE  ViewAt(o, ls, n + 1)[k] = ls[n + 1][k]
<1>1. Answers(ls, n + 1, k, n + 1) BY DEF Answers
<1>2. Owner(ls, n + 1, k) = n + 1 BY <1>1, OwnerUnique
<1>3. n + 1 # 0 OBVIOUS
<1> QED BY <1>2, <1>3 DEF ViewAt

(* A key the topmost context has no entry for is read below it.            *)
LEMMA ViewStepClean ==
    ASSUME NEW o, NEW ls, NEW n \in Nat, NEW k \in Keys, ls[n + 1][k] = Clean
    PROVE  ViewAt(o, ls, n + 1)[k] = ViewAt(o, ls, n)[k]
<1>1. Answers(ls, n, k, Owner(ls, n, k)) BY OwnerAnswers
<1>2. Answers(ls, n + 1, k, Owner(ls, n, k)) BY <1>1 DEF Answers
<1>3. Owner(ls, n + 1, k) = Owner(ls, n, k) BY <1>2, OwnerUnique
<1> QED BY <1>3 DEF ViewAt

(* Empty contexts on top do not change what is seen.                       *)
LEMMA ViewAboveClean ==
    ASSUME NEW o, NEW ls, NEW n \in Nat, NEW m \in Nat, n <= m,
           \A j \in 1..m : j > n => ls[j] = CleanLayer
    PROVE  ViewAt(o, ls, m) = ViewAt(o, ls, n)
<1>1. ASSUME NEW k \in Keys
      PROVE  Owner(ls, m, k) = Owner(ls, n, k)
    <2>1. Answers(ls, n, k, Owner(ls, n, k)) BY OwnerAnswers
    <2>2. \A j \in 1..m : j > n => ls[j][k] = Clean BY DEF CleanLayer
    <2>3. Answers(ls, m, k, Owner(ls, n, k)) BY <2>1, <2>2 DEF Answers
    <2> QED BY <2>3, OwnerUnique
<1> QED BY <1>1 DEF ViewAt

(* A view holds a value for every key.                                     *)
LEMMA ViewType ==
    ASSUME NEW o \in [Keys -> Vals], NEW ls \in Seq(Layer), NEW n \in 0..Len(ls)
    PROVE  ViewAt(o, ls, n) \in [Keys -> Vals]
<1>1. ASSUME NEW k \in Keys
      PROVE  ViewAt(o, ls, n)[k] \in Vals
    <2>0. n \in Nat BY LenProperties
    <2>1. Answers(ls, n, k, Owner(ls, n, k)) BY <2>0, OwnerAnswers
    <2>2. CASE Owner(ls, n, k) = 0 BY <2>2 DEF ViewAt
    <2>3. CASE Owner(ls, n, k) # 0
        <3>1. Owner(ls, n, k) \in 1..Len(ls) BY <2>0, <2>1, <2>3 DEF Answers
        <3>2. ls[Owner(ls, n, k)] \in Layer BY <3>1, ElementOfSeq
        <3> QED BY <2>1, <2>3, <3>2 DEF Answers, ViewAt, Layer
    <2> QED BY <2>2, <2>3
<1> QED BY <1>1 DEF ViewAt

(* Writing context n + 2 to its parent and emptying it keeps the view.     *)
LEMMA FlushKeepsView ==
    ASSUME NEW o, NEW ls, NEW ms, NEW n \in Nat,
           \A j \in 1..n : ms[j] = ls[j],
           ms[n + 1] = Flush(ls[n + 2], ls[n + 1]),
           ms[n + 2] = CleanLayer
    PROVE  ViewAt(o, ms, n + 2) = ViewAt(o, ls, n + 2)
<1>1. (n + 1) + 1 = n + 2 /\ n + 1 \in Nat OBVIOUS
<1>2. ViewAt(o, ms, n) = ViewAt(o, ls, n) BY ViewPrefix
<1>3. ViewAt(o, ms, n + 2) = ViewAt(o, ms, n + 1) BY <1>1, ViewOfClean
<1>4. ASSUME NEW k \in Keys
      PROVE  ViewAt(o, ms, n + 1)[k] = ViewAt(o, ls, n + 2)[k]
    <2>1. CASE ls[n + 2][k] # Clean
        <3>1. ms[n + 1][k] = ls[n + 2][k] BY <2>1 DEF Flush
        <3>2. ViewAt(o, ms, n + 1)[k] = ms[n + 1][k] BY <2>1, <3>1, ViewStepDirty
        <3>3. ViewAt(o, ls, n + 2)[k] = ls[n + 2][k] BY <1>1, <2>1, ViewStepDirty
        <3> QED BY <3>1, <3>2, <3>3
    <2>2. CASE ls[n + 2][k] = Clean
        <3>1. ms[n + 1][k] = ls[n + 1][k] BY <2>2 DEF Flush
        <3>2. ViewAt(o, ls, n + 2)[k] = ViewAt(o, ls, n + 1)[k] BY <1>1, <2>2, ViewStepClean
        <3>3. CASE ls[n + 1][k] # Clean
            <4>1. ViewAt(o, ms, n + 1)[k] = ms[n + 1][k] BY <3>1, <3>3, ViewStepDirty
            <4>2. ViewAt(o, ls, n + 1)[k] = ls[n + 1][k] BY <3>3, ViewStepDirty
            <4> QED BY <3>1, <3>2, <4>1, <4>2
        <3>4. CASE ls[n + 1][k] = Clean
            <4>1. ViewAt(o, ms, n + 1)[k] = ViewAt(o, ms, n)[k] BY <3>1, <3>4, ViewStepClean
            <4>2. ViewAt(o, ls, n + 1)[k] = ViewAt(o, ls, n)[k] BY <3>4, ViewStepClean
            <4> QED BY <1>2, <3>2, <4>1, <4>2
        <3> QED BY <3>3, <3>4
    <2> QED BY <2>1, <2>2
<1> QED BY <1>3, <1>4 DEF ViewAt

-----------------------------------------------------------------------------
(* The inductive invariant: types, and what the write loop leaves behind.  *)
IInv == TypeOK /\ Written

(* CacheContext() gives a context without entries.                         *)
LEMMA CleanLayerType == CleanLayer \in Layer
BY DEF CleanLayer, Layer

(* Writing a context to its parent gives a context again.                  *)
LEMMA FlushType ==
    ASSUME NEW c \in Layer
    PROVE  /\ \A p \in Layer : Flush(c, p) \in Layer
           /\ \A p \in [Keys -> Vals] : Flush(c, p) \in [Keys -> Vals]
BY DEF Layer, Flush

(* The stack of a StateDB that has just been made.                         *)
LEMMA FreshStack ==
    /\ <<CleanLayer>> \in Seq(Layer) /\ Len(<<CleanLayer>>) = 1
    /\ <<CleanLayer>>[1] = CleanLayer
    /\ <<NoAux>> \in Seq(Auxs) /\ Len(<<NoAux>>) = 1
BY CleanLayerType, CtxAssumption

(* A new StateDB satisfies the invariant.                                  *)
LEMMA InitIInv == Init => IInv
<1> SUFFICES ASSUME Init PROVE IInv OBVIOUS
<1> QED BY FreshStack, CtxAssumption DEF Init, IInv, TypeOK, Written

(* Every operation preserves the invariant.                                *)
LEMMA NextIInv == IInv /\ [Next]_vars => IInv'
<1> SUFFICES ASSUME IInv, [Next]_vars PROVE IInv' OBVIOUS
<1> USE DEF IInv, TypeOK
<1>0. /\ Len(layers) \in Nat /\ DOMAIN layers = 1..Len(layers)
      /\ Len(layers) \in 1..Len(layers)
      /\ \A i \in 1..Len(layers) : layers[i] \in Layer
      /\ \A i \in 1..Len(auxSaved) : auxSaved[i] \in Auxs
    BY CtxAssumption, LenProperties, ElementOfSeq
<1>1. ASSUME NEW k \in Keys, NEW v \in Vals, Set(k, v) PROVE IInv'
    <2> DEFINE top == [layers[Len(layers)] EXCEPT ![k] = v]
    <2>1. top \in Layer BY <1>0 DEF Layer
    <2>2. layers' = [layers EXCEPT ![Len(layers)] = top] BY <1>1 DEF Set
    <2> HIDE DEF top
    <2>3. layers' \in Seq(Layer) /\ Len(layers') = Len(layers)
        BY <1>0, <2>1, <2>2, ExceptSeq
    <2> QED BY <1>1, <2>3 DEF Set, Written
<1>2. ASSUME NEW x \in Auxs, SetAux(x) PROVE IInv'
    BY <1>2 DEF SetAux, Written
<1>3. CASE Snapshot
    <2>1. layers' \in Seq(Layer) /\ Len(layers') = Len(layers) + 1
        BY <1>3, CleanLayerType, AppendProperties DEF Snapshot
    <2>2. auxSaved' \in Seq(Auxs) /\ Len(auxSaved') = Len(auxSaved) + 1
        BY <1>3, AppendProperties DEF Snapshot
    <2> QED BY <1>0, <1>3, <2>1, <2>2, CtxAssumption DEF Snapshot, Written
<1>4. ASSUME NEW id \in 0..MaxSnapshots, RevertToSnapshot(id) PROVE IInv'
    <2>0. id \in Nat /\ id + 2 <= Len(layers) BY <1>4, CtxAssumption DEF RevertToSnapshot
    <2>1. SubSeq(layers, 1, id + 1) \in Seq(Layer) /\ Len(SubSeq(layers, 1, id + 1)) = id + 1
        BY <1>0, <2>0, SubSeqProperties
    <2>2. layers' \in Seq(Layer) /\ Len(layers') = id + 2
        BY <1>4, <2>0, <2>1, CleanLayerType, AppendProperties DEF RevertToSnapshot
    <2>3. auxSaved' \in Seq(Auxs) /\ Len(auxSaved') = id + 2
        BY <1>0, <1>4, <2>0, SubSeqProperties DEF RevertToSnapshot
    <2>4. aux' \in Auxs BY <1>0, <1>4, <2>0 DEF RevertToSnapshot
    <2> QED BY <1>0, <1>4, <2>0, <2>2, <2>3, <2>4, CtxAssumption DEF RevertToSnapshot, Written
<1>5. ASSUME NEW del \in SUBSET Keys, CommitMultiStore(del) PROVE IInv'
    <2> DEFINE top == [k \in Keys |-> IF k \in del THEN Gone ELSE layers[Len(layers)][k]]
    <2>1. top \in Layer BY <1>0, CtxAssumption DEF Layer
    <2>2. layers' = [layers EXCEPT ![Len(layers)] = top] BY <1>5 DEF CommitMultiStore
    <2> HIDE DEF top
    <2>3. layers' \in Seq(Layer) /\ Len(layers') = Len(layers)
        BY <1>0, <2>1, <2>2, ExceptSeq
    <2> QED BY <1>0, <1>5, <2>3 DEF CommitMultiStore, Written
<1>6. CASE WriteChanges
    <2>0. pc = "writing" /\ wi \in 1..Len(layers) BY <1>0, <1>6 DEF WriteChanges
    <2>1. CASE wi > 1
        <3> DEFINE mid == [layers EXCEPT ![wi - 1] = Flush(layers[wi], layers[wi - 1])]
        <3>1. wi - 1 \in 1..Len(layers) BY <1>0, <2>0, <2>1
        <3>2. Flush(layers[wi], layers[wi - 1]) \in Layer
            BY <1>0, <2>0, <3>1, FlushType
        <3>3. mid \in Seq(Layer) /\ Len(mid) = Len(layers) BY <3>1, <3>2, ExceptSeq
        <3>4. layers' = [mid EXCEPT ![wi] = CleanLayer] BY <1>6, <2>1 DEF WriteChanges
        <3>5. \A j \in 1..Len(layers) : j # wi /\ j # wi - 1 => mid[j] = layers[j]
            BY <1>0
        <3> HIDE DEF mid
        <3>6. /\ layers' \in Seq(Layer) /\ Len(layers') = Len(layers)
              /\ \A j \in 1..Len(layers) : layers'[j] = IF j = wi THEN CleanLayer ELSE mid[j]
            BY <2>0, <3>3, <3>4, CleanLayerType, ExceptSeq
        <3> QED BY <1>0, <1>6, <2>0, <2>1, <3>5, <3>6 DEF WriteChanges, Written
    <2>2. CASE ~(wi > 1)
        <3>0. wi = 1 BY <1>0, <2>0, <2>2
        <3>1. original' \in [Keys -> Vals]
            BY <1>0, <1>6, <2>0, <2>2, <3>0, FlushType DEF WriteChanges
        <3>2. layers' = [layers EXCEPT ![1] = CleanLayer] BY <1>6, <2>2 DEF WriteChanges
        <3>3. /\ layers' \in Seq(Layer) /\ Len(layers') = Len(layers)
              /\ \A j \in 1..Len(layers) : layers'[j] = IF j = 1 THEN CleanLayer ELSE layers[j]
            BY <2>0, <3>0, <3>2, CleanLayerType, ExceptSeq
        <3> QED BY <1>0, <1>6, <2>0, <2>2, <3>0, <3>1, <3>3 DEF WriteChanges, Written
    <2> QED BY <2>1, <2>2
<1>7. CASE Discard
    BY <1>0, <1>7, FreshStack, CtxAssumption DEF Discard, Written
<1>8. CASE NewStateDB
    BY <1>0, <1>8, FreshStack, CtxAssumption DEF NewStateDB, Written
<1>9. CASE UNCHANGED vars BY <1>9 DEF vars, Written
<1> QED BY <1>1, <1>2, <1>3, <1>4, <1>5, <1>6, <1>7, <1>8, <1>9 DEF Next

(* The type invariant and the progress of the write loop hold in every     *)
(* reachable state.                                                        *)
THEOREM TypeCorrect == Spec => [](TypeOK /\ Written)
BY InitIInv, NextIInv, PTL DEF Spec, IInv

-----------------------------------------------------------------------------
(* Step simulation.  Each lemma maps one action to a step of SnapshotStore.*)

(* In an open StateDB the saved views are a sequence, one per live id.     *)
LEMMA SavedType ==
    ASSUME IInv, pc = "open"
    PROVE  /\ SavedViews \in Seq(Abs!View)
           /\ Len(SavedViews) = Len(layers) - 1
           /\ \A i \in 1..(Len(layers) - 1) :
                SavedViews[i] = [kv |-> ViewAt(original, layers, i), aux |-> auxSaved[i + 1]]
<1> DEFINE n == Len(layers) - 1
           e(i) == [kv |-> ViewAt(original, layers, i), aux |-> auxSaved[i + 1]]
<1>1. n \in Nat /\ Len(layers) \in Nat BY CtxAssumption, LenProperties DEF IInv, TypeOK
<1>2. \A i \in 1..n : e(i) \in Abs!View
    <2> TAKE i \in 1..n
    <2>1. i \in 0..Len(layers) /\ i + 1 \in 1..Len(auxSaved)
        BY <1>1 DEF IInv, TypeOK
    <2>2. ViewAt(original, layers, i) \in [Keys -> Vals]
        BY <2>1, ViewType DEF IInv, TypeOK
    <2>3. auxSaved[i + 1] \in Auxs BY <2>1, ElementOfSeq DEF IInv, TypeOK
    <2> QED BY <2>2, <2>3 DEF Abs!View
<1>3. SavedViews = [i \in 1..n |-> e(i)] BY DEF SavedViews
<1> HIDE DEF n, e
<1>4. SavedViews \in [1..n -> Abs!View] BY <1>2, <1>3
<1>5. SavedViews \in Seq(Abs!View) /\ Len(SavedViews) = n BY <1>1, <1>4
<1>6. \A i \in 1..n : SavedViews[i] = e(i) BY <1>3
<1> QED BY <1>5, <1>6 DEF n, e

(* The current view holds a value for every key.                           *)
LEMMA CurrentType ==
    ASSUME IInv
    PROVE  CurrentView \in [Keys -> Vals]
<1>1. Len(layers) \in 0..Len(layers) BY CtxAssumption, LenProperties DEF IInv, TypeOK
<1> QED BY <1>1, ViewType DEF CurrentView, IInv, TypeOK

(* A write through currentCtx changes the current view and no saved one.   *)
LEMMA WriteTopIsMutate ==
    ASSUME IInv, IInv', pc = "open", pc' = "open", UNCHANGED <<original, auxSaved>>,
           Len(layers') = Len(layers),
           \A j \in 1..(Len(layers) - 1) : layers'[j] = layers[j]
    PROVE  Abs!Mutate
<1>0. Len(layers) \in Nat \ {0} BY CtxAssumption, LenProperties DEF IInv, TypeOK
<1>1. CurrentView' \in [Keys -> Vals]
    <2>1. Len(layers') \in 0..Len(layers') BY <1>0
    <2> QED BY <2>1, ViewType DEF CurrentView, IInv, TypeOK
<1>2. \A i \in 1..(Len(layers) - 1) :
        ViewAt(original', layers', i) = ViewAt(original, layers, i)
    <2> TAKE i \in 1..(Len(layers) - 1)
    <2>1. i \in Nat /\ \A j \in 1..i : layers'[j] = layers[j] BY <1>0
    <2>2. ViewAt(original, layers', i) = ViewAt(original, layers, i) BY <2>1, ViewPrefix
    <2> QED BY <2>2
<1>3. SavedViews' = SavedViews BY <1>2 DEF SavedViews
<1>4. [kv |-> CurrentView', aux |-> aux'] \in Abs!View
    BY <1>1 DEF IInv, TypeOK, Abs!View
<1> QED BY <1>3, <1>4 DEF Abs!Mutate, PhaseOf

(* Snapshot() saves exactly the current view.                              *)
LEMMA SnapshotSim ==
    ASSUME IInv, IInv', Snapshot
    PROVE  Abs!Snapshot
<1> DEFINE n == Len(layers)
<1>0. n \in Nat \ {0} BY CtxAssumption, LenProperties DEF IInv, TypeOK
<1>1. pc = "open" /\ pc' = "open" /\ original' = original /\ aux' = aux
    BY DEF Snapshot
<1>2. /\ Len(layers') = n + 1 /\ layers'[n + 1] = CleanLayer
      /\ \A j \in 1..n : layers'[j] = layers[j]
    BY CleanLayerType, AppendProperties DEF Snapshot, IInv, TypeOK
<1>3. auxSaved'[n + 1] = aux /\ \A j \in 1..n : auxSaved'[j] = auxSaved[j]
    BY AppendProperties DEF Snapshot, IInv, TypeOK
<1>4. \A i \in 1..n : ViewAt(original, layers', i) = ViewAt(original, layers, i)
    <2> TAKE i \in 1..n
    <2>1. i \in Nat /\ \A j \in 1..i : layers'[j] = layers[j] BY <1>0, <1>2
    <2> QED BY <2>1, ViewPrefix
<1>5. CurrentView' = CurrentView
    <2>1. ViewAt(original, layers', n + 1) = ViewAt(original, layers', n)
        BY <1>0, <1>2, ViewOfClean
    <2>2. n \in 1..n BY <1>0
    <2> QED BY <1>1, <1>2, <1>4, <2>1, <2>2 DEF CurrentView
<1> DEFINE c == [kv |-> CurrentView, aux |-> aux]
<1>6. c \in Abs!View BY CurrentType DEF Abs!View, IInv, TypeOK
<1>7. SavedViews' = Append(SavedViews, c)
    <2>1. /\ SavedViews' \in Seq(Abs!View) /\ Len(SavedViews') = n
          /\ \A i \in 1..n : SavedViews'[i] =
                [kv |-> ViewAt(original', layers', i), aux |-> auxSaved'[i + 1]]
        <3>1. (IInv /\ pc = "open" =>
                /\ SavedViews \in Seq(Abs!View)
                /\ Len(SavedViews) = Len(layers) - 1
                /\ \A i \in 1..(Len(layers) - 1) :
                     SavedViews[i] =
                        [kv |-> ViewAt(original, layers, i), aux |-> auxSaved[i + 1]])'
            BY SavedType, PTL
        <3>2. Len(layers') - 1 = n BY <1>0, <1>2
        <3> QED BY <1>1, <3>1, <3>2
    <2>2. /\ SavedViews \in Seq(Abs!View) /\ Len(SavedViews) = n - 1
          /\ \A i \in 1..(n - 1) : SavedViews[i] =
                [kv |-> ViewAt(original, layers, i), aux |-> auxSaved[i + 1]]
        BY <1>1, SavedType
    <2>3. /\ Append(SavedViews, c) \in Seq(Abs!View) /\ Len(Append(SavedViews, c)) = n
          /\ \A i \in 1..(n - 1) : Append(SavedViews, c)[i] = SavedViews[i]
          /\ Append(SavedViews, c)[n] = c
        BY <1>0, <1>6, <2>2, AppendProperties
    <2>4. ASSUME NEW i \in 1..n
          PROVE  SavedViews'[i] = Append(SavedViews, c)[i]
        <3>1. CASE i = n
            <4>1. ViewAt(original', layers', i) = CurrentView
                BY <1>1, <1>4, <3>1 DEF CurrentView
            <4>2. auxSaved'[i + 1] = aux BY <1>3, <3>1
            <4> QED BY <2>1, <2>3, <3>1, <4>1, <4>2
        <3>2. CASE i # n
            <4>1. i \in 1..(n - 1) /\ i + 1 \in 1..n BY <1>0, <3>2
            <4>2. ViewAt(original', layers', i) = ViewAt(original, layers, i) BY <1>1, <1>4
            <4>3. auxSaved'[i + 1] = auxSaved[i + 1] BY <1>3, <4>1
            <4> QED BY <2>1, <2>2, <2>3, <4>1, <4>2, <4>3
        <3> QED BY <3>1, <3>2
    <2> HIDE DEF c
    <2> QED BY <2>1, <2>3, <2>4, SeqEqual
<1> QED BY <1>1, <1>5, <1>7 DEF Abs!Snapshot, PhaseOf

(* RevertToSnapshot(id) brings back exactly the view saved for id.         *)
LEMMA RevertSim ==
    ASSUME IInv, IInv', NEW id \in 0..MaxSnapshots, RevertToSnapshot(id)
    PROVE  Abs!Revert
<1> DEFINE m == id + 1
<1>0. /\ m \in Nat \ {0} /\ m + 1 <= Len(layers) /\ m + 1 = id + 2
      /\ Len(layers) \in Nat /\ Len(auxSaved) = Len(layers)
    BY CtxAssumption, LenProperties DEF RevertToSnapshot, IInv, TypeOK
<1>1. pc = "open" /\ pc' = "open" /\ original' = original BY DEF RevertToSnapshot
<1> HIDE DEF m
<1>2. /\ Len(layers') = m + 1 /\ layers'[m + 1] = CleanLayer
      /\ \A j \in 1..m : layers'[j] = layers[j]
    <2>1. \A j \in 1..Len(layers) : layers[j] \in Layer BY ElementOfSeq DEF IInv, TypeOK
    <2>2. /\ SubSeq(layers, 1, m) \in Seq(Layer) /\ Len(SubSeq(layers, 1, m)) = m
          /\ \A j \in 1..m : SubSeq(layers, 1, m)[j] = layers[j]
        BY <1>0, <2>1, SubSeqProperties
    <2>3. layers' = Append(SubSeq(layers, 1, m), CleanLayer) BY DEF RevertToSnapshot, m
    <2> QED BY <2>2, <2>3, CleanLayerType, AppendProperties
<1>3. /\ aux' = auxSaved[m + 1]
      /\ \A j \in 1..(m + 1) : auxSaved'[j] = auxSaved[j]
    <2>1. \A j \in 1..Len(auxSaved) : auxSaved[j] \in Auxs BY ElementOfSeq DEF IInv, TypeOK
    <2>2. \A j \in 1..(m + 1) : SubSeq(auxSaved, 1, m + 1)[j] = auxSaved[j]
        BY <1>0, <2>1, SubSeqProperties
    <2> QED BY <1>0, <2>2 DEF RevertToSnapshot
<1>4. \A i \in 1..m : ViewAt(original, layers', i) = ViewAt(original, layers, i)
    <2> TAKE i \in 1..m
    <2>1. i \in Nat /\ \A j \in 1..i : layers'[j] = layers[j] BY <1>0, <1>2
    <2> QED BY <2>1, ViewPrefix
<1>5. CurrentView' = ViewAt(original, layers, m)
    <2>1. ViewAt(original, layers', m + 1) = ViewAt(original, layers', m)
        BY <1>0, <1>2, ViewOfClean
    <2>2. m \in 1..m BY <1>0
    <2> QED BY <1>1, <1>2, <1>4, <2>1, <2>2 DEF CurrentView
<1>6. /\ SavedViews \in Seq(Abs!View) /\ Len(SavedViews) = Len(layers) - 1
      /\ \A i \in 1..(Len(layers) - 1) : SavedViews[i] =
            [kv |-> ViewAt(original, layers, i), aux |-> auxSaved[i + 1]]
    BY <1>1, SavedType
<1>7. m \in 1..Len(SavedViews) BY <1>0, <1>6
<1>8. [kv |-> CurrentView', aux |-> aux'] = SavedViews[m] BY <1>0, <1>3, <1>5, <1>6, <1>7
<1>9. SavedViews' = SubSeq(SavedViews, 1, m)
    <2>1. /\ SavedViews' \in Seq(Abs!View) /\ Len(SavedViews') = m
          /\ \A i \in 1..m : SavedViews'[i] =
                [kv |-> ViewAt(original', layers', i), aux |-> auxSaved'[i + 1]]
        <3>1. (IInv /\ pc = "open" =>
                /\ SavedViews \in Seq(Abs!View)
                /\ Len(SavedViews) = Len(layers) - 1
                /\ \A i \in 1..(Len(layers) - 1) :
                     SavedViews[i] =
                        [kv |-> ViewAt(original, layers, i), aux |-> auxSaved[i + 1]])'
            BY SavedType, PTL
        <3>2. Len(layers') - 1 = m BY <1>0, <1>2
        <3> QED BY <1>1, <3>1, <3>2
    <2>2. \A i \in 1..m : SavedViews[i] \in Abs!View BY <1>0, <1>6, <1>7, ElementOfSeq
    <2>3. /\ SubSeq(SavedViews, 1, m) \in Seq(Abs!View) /\ Len(SubSeq(SavedViews, 1, m)) = m
          /\ \A i \in 1..m : SubSeq(SavedViews, 1, m)[i] = SavedViews[i]
        BY <1>0, <2>2, SubSeqProperties
    <2>4. ASSUME NEW i \in 1..m
          PROVE  SavedViews'[i] = SubSeq(SavedViews, 1, m)[i]
        <3>1. i \in 1..(Len(layers) - 1) /\ i + 1 \in 1..(m + 1) BY <1>0
        <3>2. ViewAt(original', layers', i) = ViewAt(original, layers, i) BY <1>1, <1>4
        <3>3. auxSaved'[i + 1] = auxSaved[i + 1] BY <1>3, <3>1
        <3> QED BY <1>6, <2>1, <2>3, <3>1, <3>2, <3>3
    <2> QED BY <2>1, <2>3, <2>4, SeqEqual
<1> QED BY <1>1, <1>7, <1>8, <1>9 DEF Abs!Revert, PhaseOf

(* The clean-up of CommitMultiStore is the last change of the view.        *)
LEMMA CommitSim ==
    ASSUME IInv, IInv', NEW del \in SUBSET Keys, CommitMultiStore(del)
    PROVE  Abs!BeginCommit
<1>1. CurrentView' \in [Keys -> Vals]
    <2>1. (IInv => CurrentView \in [Keys -> Vals])' BY CurrentType, PTL
    <2> QED BY <2>1
<1>2. pc = "open" /\ pc' = "writing" /\ UNCHANGED <<original, aux>>
    BY DEF CommitMultiStore
<1>3. SavedViews' = <<>> BY <1>2 DEF SavedViews
<1>4. aux' = aux /\ aux \in Auxs BY DEF CommitMultiStore, IInv, TypeOK
<1> QED BY <1>1, <1>2, <1>3, <1>4 DEF Abs!BeginCommit, Abs!View, PhaseOf

(* A turn of the write loop that does not reach the original store is      *)
(* invisible; the last turn publishes the whole view.                      *)
LEMMA WriteSim ==
    ASSUME IInv, IInv', WriteChanges
    PROVE  Abs!Publish \/ UNCHANGED Abs!vars
<1> DEFINE n == Len(layers)
<1>0. /\ n \in Nat \ {0} /\ wi \in 1..n /\ pc = "writing"
      /\ DOMAIN layers = 1..n
      /\ \A j \in 1..n : j > wi => layers[j] = CleanLayer
    BY CtxAssumption, LenProperties DEF WriteChanges, IInv, TypeOK, Written
<1>1. ViewAt(original, layers, n) = ViewAt(original, layers, wi)
    BY <1>0, ViewAboveClean
<1>2. CASE wi > 1
    <2>1. /\ layers' = [layers EXCEPT ![wi - 1] = Flush(layers[wi], @), ![wi] = CleanLayer]
          /\ UNCHANGED <<original, pc, aux>>
        BY <1>2 DEF WriteChanges
    <2> DEFINE p == wi - 2
    <2>2. p \in Nat /\ wi = p + 2 /\ wi - 1 = p + 1 BY <1>0, <1>2
    <2>3. /\ layers'[p + 1] = Flush(layers[p + 2], layers[p + 1])
          /\ layers'[p + 2] = CleanLayer
          /\ \A j \in 1..n : j # p + 1 /\ j # p + 2 => layers'[j] = layers[j]
        BY <1>0, <2>1, <2>2
    <2>4. Len(layers') = n
        <3>1. DOMAIN layers' = 1..n BY <1>0, <2>1
        <3>2. layers' \in Seq(Layer) BY DEF IInv, TypeOK
        <3> QED BY <1>0, <3>1, <3>2, LenProperties
    <2> HIDE DEF p
    <2>5. ViewAt(original, layers', p + 2) = ViewAt(original, layers, p + 2)
        <3>1. \A j \in 1..p : layers'[j] = layers[j] BY <1>0, <2>2, <2>3
        <3> QED BY <2>2, <2>3, <3>1, FlushKeepsView
    <2>6. ViewAt(original, layers', n) = ViewAt(original, layers', p + 2)
        <3>1. \A j \in 1..n : j > p + 2 => layers'[j] = CleanLayer BY <1>0, <2>2, <2>3
        <3> QED BY <1>0, <2>2, <3>1, ViewAboveClean
    <2>7. CurrentView' = CurrentView
        BY <1>1, <2>1, <2>2, <2>4, <2>5, <2>6 DEF CurrentView
    <2>8. SavedViews' = SavedViews BY <1>0, <2>1 DEF SavedViews
    <2> QED BY <2>1, <2>7, <2>8 DEF Abs!vars, PhaseOf
<1>3. CASE ~(wi > 1)
    <2>0. wi = 1 BY <1>0, <1>3
    <2>1. /\ original' = Flush(layers[1], original) /\ pc' = "closed"
          /\ aux' = aux
        BY <1>3 DEF WriteChanges
    <2>2. ASSUME NEW k \in Keys
          PROVE  ViewAt(original, layers, 0 + 1)[k] = original'[k]
        <3>1. ViewAt(original, layers, 0) = original
            BY ViewAtZero DEF IInv, TypeOK
        <3>2. CASE layers[0 + 1][k] = Clean
            <4>1. ViewAt(original, layers, 0 + 1)[k] = original[k]
                BY <3>1, <3>2, ViewStepClean
            <4> QED BY <2>1, <3>2, <4>1 DEF Flush
        <3>3. CASE layers[0 + 1][k] # Clean
            <4>1. ViewAt(original, layers, 0 + 1)[k] = layers[0 + 1][k]
                BY <3>3, ViewStepDirty
            <4> QED BY <2>1, <3>3, <4>1 DEF Flush
        <3> QED BY <3>2, <3>3
    <2>3. original' = CurrentView
        <3>1. 0 + 1 = wi BY <2>0
        <3>2. \A k \in Keys : CurrentView[k] = original'[k]
            BY <1>1, <2>2, <3>1 DEF CurrentView
        <3>3. CurrentView \in [Keys -> Vals] /\ original' \in [Keys -> Vals]
            BY CurrentType DEF IInv, TypeOK
        <3> QED BY <3>2, <3>3
    <2>4. CurrentView' = original'
        <3>1. \A j \in 1..Len(layers') : layers'[j] = CleanLayer
            BY <2>1 DEF IInv, Written
        <3>2. Len(layers') \in Nat /\ original' \in [Keys -> Vals]
            BY LenProperties DEF IInv, TypeOK
        <3> QED BY <3>1, <3>2, ViewAllClean DEF CurrentView
    <2>5. SavedViews' = <<>> /\ SavedViews = <<>> BY <1>0, <2>1 DEF SavedViews
    <2> QED BY <1>0, <2>1, <2>3, <2>4, <2>5 DEF Abs!Publish, PhaseOf
<1> QED BY <1>2, <1>3

(* With a fresh stack the view is the original store and no id is live.    *)
LEMMA FreshView ==
    ASSUME layers = <<CleanLayer>>, original \in [Keys -> Vals]
    PROVE  CurrentView = original /\ SavedViews = <<>>
<1>1. Len(layers) = 1 /\ \A j \in 1..1 : layers[j] = CleanLayer
    BY FreshStack
<1>2. CurrentView = original BY <1>1, ViewAllClean DEF CurrentView
<1>3. SavedViews = <<>>
    <2>1. 1..(Len(layers) - 1) = {} BY <1>1
    <2> QED BY <2>1 DEF SavedViews
<1> QED BY <1>2, <1>3

(* Dropping a StateDB and making one both show the original store.         *)
LEMMA FreshSim ==
    ASSUME IInv, IInv'
    PROVE  /\ Discard => Abs!Discard
           /\ NewStateDB => Abs!Begin
<1>1. layers' = <<CleanLayer>> => CurrentView' = original' /\ SavedViews' = <<>>
    <2>1. (layers = <<CleanLayer>> /\ original \in [Keys -> Vals]
            => CurrentView = original /\ SavedViews = <<>>)'
        BY FreshView, PTL
    <2> QED BY <2>1 DEF IInv, TypeOK
<1>2. Discard => Abs!Discard
    BY <1>1 DEF Discard, Abs!Discard, PhaseOf
<1>3. NewStateDB => Abs!Begin
    BY <1>1 DEF NewStateDB, Abs!Begin, PhaseOf
<1> QED BY <1>2, <1>3

(* The nested cache contexts of the StateDB implement whole-state          *)
(* snapshots: reverting restores exactly the state and trackers of the     *)
(* snapshot, and CommitMultiStore publishes exactly the current view, for  *)
(* every set of keys, values and trackers and every depth of nesting.      *)
THEOREM LayersImplementSnapshots == Spec => Implements
<1>1. Init => Abs!Init
    <2> SUFFICES ASSUME Init PROVE Abs!Init OBVIOUS
    <2>1. CurrentView = original /\ SavedViews = <<>> BY FreshView DEF Init
    <2> QED BY <2>1 DEF Init, Abs!Init, PhaseOf
<1>2. IInv /\ IInv' /\ [Next]_vars => [Abs!Next]_(Abs!vars)
    <2> SUFFICES ASSUME IInv, IInv', [Next]_vars
                 PROVE  Abs!Next \/ UNCHANGED Abs!vars
        OBVIOUS
    <2>0. Len(layers) \in Nat \ {0} /\ Len(layers) \in 1..Len(layers) /\ DOMAIN layers = 1..Len(layers)
        BY CtxAssumption, LenProperties DEF IInv, TypeOK
    <2>1. ASSUME NEW k \in Keys, NEW v \in Vals, Set(k, v) PROVE Abs!Mutate
        <3>1. Len(layers') = Len(layers)
            <4>1. DOMAIN layers' = DOMAIN layers BY <2>1 DEF Set
            <4>2. layers' \in Seq(Layer) BY DEF IInv, TypeOK
            <4> QED BY <2>0, <4>1, <4>2, LenProperties
        <3>2. \A j \in 1..(Len(layers) - 1) : layers'[j] = layers[j]
            BY <2>0, <2>1 DEF Set
        <3> QED BY <2>1, <3>1, <3>2, WriteTopIsMutate DEF Set
    <2>2. ASSUME NEW x \in Auxs, SetAux(x) PROVE Abs!Mutate
        BY <2>2, WriteTopIsMutate DEF SetAux
    <2>3. CASE Snapshot BY <2>3, SnapshotSim DEF Abs!Next
    <2>4. CASE \E id \in 0..MaxSnapshots : RevertToSnapshot(id)
        BY <2>4, RevertSim DEF Abs!Next
    <2>5. CASE \E del \in SUBSET Keys : CommitMultiStore(del)
        BY <2>5, CommitSim DEF Abs!Next
    <2>6. CASE WriteChanges BY <2>6, WriteSim DEF Abs!Next
    <2>7. CASE Discard \/ NewStateDB BY <2>7, FreshSim DEF Abs!Next
    <2>8. CASE UNCHANGED vars
        BY <2>8 DEF vars, Abs!vars, CurrentView, SavedViews, PhaseOf
    <2> QED BY <2>1, <2>2, <2>3, <2>4, <2>5, <2>6, <2>7, <2>8 DEF Next, Abs!Next
<1>3. Spec => []IInv BY InitIInv, NextIInv, PTL DEF Spec
<1> QED BY <1>1, <1>2, <1>3, PTL DEF Spec, Implements, Abs!Spec
=============================================================================
