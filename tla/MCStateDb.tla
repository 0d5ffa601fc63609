----------------------------- MODULE MCStateDb -----------------------------
(***************************************************************************)
(* Instances of StateDb for TLC: a funded contract c, an empty module      *)
(* account m, and an address p that starts as nothing, as a funded vesting *)
(* account or as an account that holds some other token.                   *)
(***************************************************************************)
EXTENDS StateDb, TLC

CONSTANTS c, p, m, evm, tok, s1, one, code,
    MaxWorldSnapshots   \* bound: snapshots of a transaction that changes accounts

MCCoins(e, t) == [d \in Denoms |-> IF d = evm THEN e ELSE t]
MCAcc(num, seq, kind) == [num |-> num, seq |-> seq, kind |-> kind]

(* What p may be at the start of the block.                                *)
MCOthers ==
    {[acc |-> NoAcc, bal |-> NoCoins],
     [acc |-> MCAcc(2, 0, "vesting"), bal |-> MCCoins(1, 0)],
     [acc |-> MCAcc(2, 0, "base"), bal |-> MCCoins(0, 1)]}

MCWorld(x) ==
    [acc    |-> (c :> MCAcc(0, 1, "base")) @@ (m :> MCAcc(1, 0, "module")) @@ (p :> x.acc),
     bal    |-> (c :> MCCoins(1, 1)) @@ (m :> NoCoins) @@ (p :> x.bal),
     code   |-> (c :> code) @@ (m :> NoCode) @@ (p :> NoCode),
     stor   |-> (c :> [s \in Slots |-> one]) @@ (m :> NoStorage) @@ (p :> NoStorage),
     next   |-> 3,
     supply |-> [d \in Denoms |-> 1 + x.bal[d]]]

MCGenesis == {MCWorld(x) : x \in MCOthers}

MCAccessLists == {{}, {<<p, s1>>}}

(* A transaction that changes accounts, or one that only moves what the    *)
(* transaction keeps for itself; the two kinds of operations touch         *)
(* different parts of the state.                                           *)
VARIABLE family

MCInit == Init /\ family \in {"world", "trackers"}
MCNext ==
    /\ \/ family = "world" /\ WorldOp
       \/ family = "trackers" /\ TrackerOp
       \/ Lifecycle
    /\ family = "world" => Len(saved') <= MaxWorldSnapshots
    /\ UNCHANGED family
MCSpec == MCInit /\ [][MCNext]_<<vars, family>>
=============================================================================
