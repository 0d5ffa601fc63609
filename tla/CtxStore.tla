------------------------------ MODULE CtxStore ------------------------------
(***************************************************************************)
(* The stack of nested cache contexts that the Context-based StateDB keeps *)
(* instead of geth's journal (x/evm/vm/state_db.go, state_db_snapshot.go). *)
(* Every entry of `snapshots' holds a cache context whose parent is the    *)
(* context of the entry below; the first one is a branch of originalCtx.   *)
(* Only the topmost context is written; a read falls through to the first  *)
(* context that has an entry for the key.  A commit writes each context to *)
(* its parent, topmost first, one context at a time.                       *)
(***************************************************************************)
EXTENDS Naturals, Sequences

CONSTANTS
    Keys,           \* keys of the multi-store
    Vals,           \* what a key may hold, a value for "deleted" included
    Gone,           \* the value of a key whose entry was deleted
    Clean,          \* a cache context has no entry for the key
    Auxs,           \* values of the trackers (touched, refund, logs, ...)
    NoAux,          \* the trackers of a fresh StateDB
    MaxSnapshots    \* bound on the number of contexts, for model checking

ASSUME CtxAssumption ==
    /\ Gone \in Vals
    /\ Clean \notin Vals
    /\ NoAux \in Auxs
    /\ MaxSnapshots \in Nat \ {0}

VARIABLES
    original,   \* contents of the store behind originalCtx
    layers,     \* snapshots[i].snapshotCtx: the entries of each cache context
    aux,        \* touched, refund, selfDestructed, accessList, logs, transientStorage
    auxSaved,   \* the copies of them inside snapshots[i]
    pc,         \* "open", "writing" (in CommitMultiStore) or "closed"
    wi          \* the context that the commit loop writes next

vars == <<original, layers, aux, auxSaved, pc, wi>>

Layer == [Keys -> Vals \cup {Clean}]
CleanLayer == [k \in Keys |-> Clean]

(* The context that answers a read of k made in context n; 0 is original.  *)
Owner(ls, n, k) ==
    CHOOSE i \in 0..n :
        /\ i # 0 => ls[i][k] # Clean
        /\ \A j \in 1..n : j > i => ls[j][k] = Clean

(* What a reader of context n sees.                                        *)
ViewAt(o, ls, n) ==
    [k \in Keys |-> IF Owner(ls, n, k) = 0 THEN o[k] ELSE ls[Owner(ls, n, k)][k]]

CurrentView == ViewAt(original, layers, Len(layers))

(* cachekv Write: the entries of the child replace those of the parent.    *)
Flush(child, parent) ==
    [k \in Keys |-> IF child[k] = Clean THEN parent[k] ELSE child[k]]

Init ==
    /\ original \in [Keys -> Vals]
    /\ layers = <<CleanLayer>>
    /\ aux = NoAux
    /\ auxSaved = <<NoAux>>
    /\ pc = "open"
    /\ wi = 0

(* A keeper writes a key through currentCtx.                               *)
Set(k, v) ==
    /\ pc = "open"
    /\ layers' = [layers EXCEPT ![Len(layers)] = [@ EXCEPT ![k] = v]]
    /\ UNCHANGED <<original, aux, auxSaved, pc, wi>>

(* An operation changes one of the trackers.                               *)
SetAux(x) ==
    /\ pc = "open"
    /\ aux' = x
    /\ UNCHANGED <<original, layers, auxSaved, pc, wi>>

Snapshot ==
    /\ pc = "open"
    /\ Len(layers) < MaxSnapshots
    /\ layers' = Append(layers, CleanLayer)
    /\ auxSaved' = Append(auxSaved, aux)
    /\ UNCHANGED <<original, aux, pc, wi>>

(* Mutant: the context of the snapshot is reused with what was written to  *)
(* it.                                                                     *)
RevertToSnapshot_ContextReused(id) ==
    /\ pc = "open"
    /\ id + 2 <= Len(layers)
    /\ layers' = SubSeq(layers, 1, id + 2)
    /\ aux' = auxSaved[id + 2]
    /\ auxSaved' = SubSeq(auxSaved, 1, id + 2)
    /\ UNCHANGED <<original, pc, wi>>

(* Snapshot `id' is entry id + 2 of the one-based stack.  A new branch of  *)
(* the context below it becomes current, the trackers are copied back, and *)
(* the later entries are cut off.                                          *)
RevertToSnapshot(id) ==
    /\ pc = "open"
    /\ id + 2 <= Len(layers)
    /\ layers' = Append(SubSeq(layers, 1, id + 1), CleanLayer)
    /\ aux' = auxSaved[id + 2]
    /\ auxSaved' = SubSeq(auxSaved, 1, id + 2)
    /\ UNCHANGED <<original, pc, wi>>

(* CommitMultiStore up to the write loop: the keys of the accounts to      *)
(* destroy are deleted in currentCtx.                                      *)
CommitMultiStore(del) ==
    /\ pc = "open"
    /\ layers' = [layers EXCEPT ![Len(layers)] =
                    [k \in Keys |-> IF k \in del THEN Gone ELSE @[k]]]
    /\ pc' = "writing"
    /\ wi' = Len(layers)
    /\ UNCHANGED <<original, aux, auxSaved>>

(* Mutant: the loop stops before the first context.                        *)
WriteChanges_FirstSkipped ==
    /\ pc = "writing"
    /\ IF wi > 1
       THEN /\ layers' = [layers EXCEPT ![wi - 1] = Flush(layers[wi], @),
                                        ![wi] = CleanLayer]
            /\ UNCHANGED pc
       ELSE /\ pc' = "closed"
            /\ UNCHANGED layers
    /\ wi' = wi - 1
    /\ UNCHANGED <<original, aux, auxSaved>>

(* One turn of the loop: context wi is written to its parent and emptied.  *)
WriteChanges ==
    /\ pc = "writing"
    /\ IF wi > 1
       THEN /\ layers' = [layers EXCEPT ![wi - 1] = Flush(layers[wi], @),
                                        ![wi] = CleanLayer]
            /\ UNCHANGED <<original, pc>>
       ELSE /\ original' = Flush(layers[1], original)
            /\ layers' = [layers EXCEPT ![1] = CleanLayer]
            /\ pc' = "closed"
    /\ wi' = wi - 1
    /\ UNCHANGED <<aux, auxSaved>>

(* The StateDB is dropped: a query, a simulation or a failed transaction.  *)
Discard ==
    /\ pc = "open"
    /\ layers' = <<CleanLayer>>
    /\ auxSaved' = <<NoAux>>
    /\ pc' = "closed"
    /\ UNCHANGED <<original, aux, wi>>

(* The next StateDB branches from the same store.                          *)
NewStateDB ==
    /\ pc = "closed"
    /\ layers' = <<CleanLayer>>
    /\ aux' = NoAux
    /\ auxSaved' = <<NoAux>>
    /\ pc' = "open"
    /\ wi' = 0
    /\ UNCHANGED original

Next ==
    \/ \E k \in Keys, v \in Vals : Set(k, v)
    \/ \E x \in Auxs : SetAux(x)
    \/ Snapshot
    \/ \E id \in 0..MaxSnapshots : RevertToSnapshot(id)
    \/ \E del \in SUBSET Keys : CommitMultiStore(del)
    \/ WriteChanges
    \/ Discard
    \/ NewStateDB

Spec == Init /\ [][Next]_vars

-----------------------------------------------------------------------------
(* Every context is a partial map over the keys, there is one saved copy   *)
(* of the trackers per context, and the write loop of CommitMultiStore     *)
(* only walks positions that exist.                                        *)
TypeOK ==
    /\ original \in [Keys -> Vals]
    /\ layers \in Seq(Layer)
    /\ Len(layers) \in 1..MaxSnapshots
    /\ aux \in Auxs
    /\ auxSaved \in Seq(Auxs)
    /\ Len(auxSaved) = Len(layers)
    /\ pc \in {"open", "writing", "closed"}
    /\ wi \in 0..Len(layers)
    /\ pc = "writing" <=> wi # 0

(* What the write loop has left behind: every context above position wi    *)
(* was flushed and holds nothing, and once the loop is over none does.     *)
Written ==
    /\ pc = "writing" => \A i \in 1..Len(layers) : i > wi => layers[i] = CleanLayer
    /\ pc = "closed" => \A i \in 1..Len(layers) : layers[i] = CleanLayer

(* The views that live snapshots stand for: id is the context below entry  *)
(* id + 2, with the trackers copied when the snapshot was taken.           *)
SavedViews ==
    IF pc = "open"
    THEN [i \in 1..(Len(layers) - 1) |->
            [kv |-> ViewAt(original, layers, i), aux |-> auxSaved[i + 1]]]
    ELSE <<>>

PhaseOf == IF pc = "writing" THEN "committing" ELSE pc

Abs == INSTANCE SnapshotStore WITH
    Stores <- [Keys -> Vals],
    store <- original,
    cur <- [kv |-> CurrentView, aux |-> aux],
    saved <- SavedViews,
    phase <- PhaseOf

(* The stack of contexts behaves like whole copies of the state: Snapshot  *)
(* saves everything, RevertToSnapshot restores exactly what was saved, the *)
(* original store does not move before the last WriteChanges, and then it  *)
(* becomes the whole current view at once.                                 *)
Implements == Abs!Spec
=============================================================================
