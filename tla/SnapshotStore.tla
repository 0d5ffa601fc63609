--------------------------- MODULE SnapshotStore ---------------------------
(***************************************************************************)
(* What the Context-based StateDB promises to the EVM, without saying how. *)
(* One transaction at a time works on a private copy `cur' of the store;   *)
(* a snapshot saves the whole copy, a revert restores it, and the store    *)
(* itself changes in one step, when the transaction publishes its copy.    *)
(***************************************************************************)
EXTENDS Naturals, Sequences

CONSTANTS
    Stores,     \* the possible contents of the multi-store
    Auxs,       \* the possible values of the revertible in-memory trackers
    NoAux       \* the trackers of a fresh StateDB

VARIABLES
    store,      \* what everybody else sees
    cur,        \* the transaction's own view: its store and its trackers
    saved,      \* one saved view per live snapshot id (id = position - 1)
    phase       \* "open", "committing" or "closed"

vars == <<store, cur, saved, phase>>

View == [kv : Stores, aux : Auxs]

Init ==
    /\ store \in Stores
    /\ cur = [kv |-> store, aux |-> NoAux]
    /\ saved = <<>>
    /\ phase = "open"

(* An EVM operation changes the private view in any way.                   *)
Mutate ==
    /\ phase = "open"
    /\ cur' \in View
    /\ UNCHANGED <<store, saved, phase>>

Snapshot ==
    /\ phase = "open"
    /\ saved' = Append(saved, cur)
    /\ UNCHANGED <<store, cur, phase>>

(* The view is again the one saved under the id; later ids are forgotten.  *)
Revert ==
    /\ phase = "open"
    /\ \E i \in 1..Len(saved) :
        /\ cur' = saved[i]
        /\ saved' = SubSeq(saved, 1, i)
    /\ UNCHANGED <<store, phase>>

(* The clean-up pass of the commit is the last change to the view.         *)
BeginCommit ==
    /\ phase = "open"
    /\ cur' \in View
    /\ cur'.aux = cur.aux
    /\ saved' = <<>>
    /\ phase' = "committing"
    /\ UNCHANGED store

Publish ==
    /\ phase = "committing"
    /\ store' = cur.kv
    /\ phase' = "closed"
    /\ UNCHANGED <<cur, saved>>

(* The transaction is dropped, and nothing of it is published.             *)
Discard ==
    /\ phase = "open"
    /\ cur' = [cur EXCEPT !.kv = store]
    /\ saved' = <<>>
    /\ phase' = "closed"
    /\ UNCHANGED store

(* The next transaction starts from what the store now holds.              *)
Begin ==
    /\ phase = "closed"
    /\ cur' = [kv |-> store, aux |-> NoAux]
    /\ saved' = <<>>
    /\ phase' = "open"
    /\ UNCHANGED store

Next ==
    \/ Mutate \/ Snapshot \/ Revert
    \/ BeginCommit \/ Publish \/ Discard \/ Begin

Spec == Init /\ [][Next]_vars
=============================================================================
