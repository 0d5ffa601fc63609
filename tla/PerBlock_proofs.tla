--------------------------- MODULE PerBlock_proofs ---------------------------
(***************************************************************************)
(* What a node keeps block by block: the window of block hashes, for any   *)
(* length of the window and of the chain; the base fee, for any gas limit  *)
(* that is set, any parameters and any gas a block consumes (the limit of  *)
(* a chain without limit is 2^64-1, a power the provers do not evaluate);  *)
(* and the transaction index, for a chain of any length, any number of     *)
(* starts of the indexer and any threshold of failures.                    *)
(***************************************************************************)
EXTENDS BlockHooks, IndexerService, WellFoundedInduction, TLAPS

(* WindowServed for every height: stored is a window of the chain.         *)
IsWindow == \A n \in HashHeights : stored[n] = IF n > height - Window THEN chain[n] ELSE NoHash

WInv == TypeOK /\ IsWindow

(* The chain starts with no hash, and all of it is outside every window.   *)
LEMMA WindowInit == HashInit => WInv
  BY BlockHashAssumption DEF HashInit, WInv, TypeOK, IsWindow, HashHeights

(* BeginBlock moves the window by one: the hash that leaves is the one it  *)
(* prunes, and the early return is not taken, since the height is new.     *)
LEMMA BeginBlockRight ==
    ASSUME WInv, NEW hash \in Hashes, BeginBlock(hash)
    PROVE  WInv'
<1>1. height + 1 \in HashHeights /\ stored[height + 1] = NoHash /\ hash # NoHash
  BY BlockHashAssumption DEF WInv, TypeOK, BeginBlock, HashHeights
<1>2. stored' = [n \in HashHeights |->
                    IF n = height + 1 THEN hash
                    ELSE IF n = (height + 1) - Window THEN NoHash ELSE stored[n]]
  BY <1>1 DEF BeginBlock, SetBlockHash
<1>3. TypeOK'
  BY <1>1, <1>2, BlockHashAssumption DEF WInv, TypeOK, BeginBlock, HashHeights
<1>4. IsWindow'
  BY <1>1, <1>2, BlockHashAssumption DEF WInv, TypeOK, IsWindow, BeginBlock, HashHeights
<1> QED
  BY <1>3, <1>4 DEF WInv

(* SetupExecutionContext always takes the early return after BeginBlock:   *)
(* the call it repeats changes nothing.                                    *)
LEMMA SetupChangesNothing ==
    ASSUME WInv, SetupExecutionContext
    PROVE  UNCHANGED hashVars
<1>1. height \in HashHeights /\ stored[height] # NoHash
  BY BlockHashAssumption DEF WInv, TypeOK, IsWindow, SetupExecutionContext, HashHeights
<1> QED
  BY <1>1 DEF SetupExecutionContext, SetBlockHash, hashVars

(* The steps above, put together.                                          *)
LEMMA WindowInductive == HashSpec => []WInv
<1>1. WInv /\ [HashNext]_hashVars => WInv'
  <2> SUFFICES ASSUME WInv, [HashNext]_hashVars PROVE WInv'
    OBVIOUS
  <2>1. ASSUME UNCHANGED hashVars PROVE WInv'
    BY <2>1 DEF WInv, TypeOK, IsWindow, hashVars
  <2>2. ASSUME NEW hash \in Hashes, BeginBlock(hash) PROVE WInv'
    BY <2>2, BeginBlockRight
  <2>3. CASE SetupExecutionContext
    BY <2>1, <2>3, SetupChangesNothing
  <2> QED
    BY <2>1, <2>2, <2>3 DEF HashNext
<1> QED
  BY <1>1, WindowInit, PTL DEF HashSpec

(* For a window of any length: the EVM is served the current block and the *)
(* Window - 1 blocks before it, and nothing else.                          *)
THEOREM WindowCorrect == HashSpec => []WindowServed
<1>1. WInv => WindowServed
  BY BlockHashAssumption DEF WInv, IsWindow, WindowServed, GetBlockHashByBlockNumber, HashHeights
<1> QED
  BY <1>1, WindowInductive, PTL

(* The call in SetupExecutionContext never changes a stored hash.          *)
THEOREM SetupIsIdempotent == HashSpec => [][SetupExecutionContext => UNCHANGED stored]_hashVars
<1>1. WInv /\ [HashNext]_hashVars => [SetupExecutionContext => UNCHANGED stored]_hashVars
  BY SetupChangesNothing DEF hashVars
<1> QED
  BY <1>1, WindowInductive, PTL DEF HashSpec

(***************************************************************************)
(* The arithmetic of EIP-1559.                                             *)
(***************************************************************************)

(* A share of at most the whole is at most the whole.                      *)
LEMMA ShareBounded ==
    ASSUME NEW fee \in Nat, NEW gap \in Nat, NEW target \in Nat \ {0}
    PROVE  /\ (fee * gap) \div target \in Nat
           /\ gap <= target => (fee * gap) \div target <= fee
<1> DEFINE x == fee * gap
           q == x \div target
<1>1. x \in Nat
  OBVIOUS
<1> HIDE DEF x
<1>2. q \in Int /\ q * target <= x /\ x < (q + 1) * target
  BY <1>1
<1> HIDE DEF q
<1>3. q \in Nat
  <2>1. CASE q < 0
    <3>1. q + 1 <= 0 /\ q + 1 \in Int
      BY <1>2, <2>1
    <3>2. (q + 1) * target <= 0
      BY <3>1
    <3> QED
      BY <1>1, <1>2, <3>2
  <2> QED
    BY <1>2, <2>1
<1>4. ASSUME gap <= target PROVE q <= fee
  <2>1. x <= fee * target
    BY <1>4 DEF x
  <2>2. CASE q >= fee + 1
    <3>1. q * target >= (fee + 1) * target
      BY <1>3, <2>2
    <3>2. (fee + 1) * target = fee * target + target
      OBVIOUS
    <3> QED
      BY <1>1, <1>2, <1>3, <2>1, <3>1, <3>2
  <2> QED
    BY <1>3, <2>2
<1> QED
  BY <1>3, <1>4 DEF q, x

(* CalcBaseFee is a fee, moves with the demand, and by at most an eighth   *)
(* as long as what is above the target is not more than the target.        *)
LEMMA CalcBaseFeeBounds ==
    ASSUME NEW limit \in Nat, limit > 1, NEW used \in Nat, NEW fee \in Nat
    PROVE  LET target == limit \div ElasticityMultiplier
               eighth == fee \div BaseFeeChangeDenominator
               next == CalcBaseFee(limit, used, fee)
           IN  /\ next \in Nat
               /\ used > target => next > fee
               /\ used = target => next = fee
               /\ used < target => next <= fee
               /\ next >= fee - eighth
               /\ used <= 2 * target => next <= fee + AtLeast(eighth, 1)
<1> DEFINE target == limit \div ElasticityMultiplier
           eighth == fee \div BaseFeeChangeDenominator
           share(gap) == (fee * gap) \div target
           change(gap) == share(gap) \div BaseFeeChangeDenominator
           next == CalcBaseFee(limit, used, fee)
           Bounds == /\ next \in Nat
                     /\ used > target => next > fee
                     /\ used = target => next = fee
                     /\ used < target => next <= fee
                     /\ next >= fee - eighth
                     /\ used <= 2 * target => next <= fee + AtLeast(eighth, 1)
<1>1. target \in Nat \ {0} /\ eighth \in Nat /\ eighth <= fee
  BY DEF ElasticityMultiplier, BaseFeeChangeDenominator
<1> HIDE DEF target
<1>2. ASSUME NEW gap \in Nat
      PROVE  change(gap) \in Nat /\ (gap <= target => change(gap) <= eighth)
  <2>1. share(gap) \in Nat /\ (gap <= target => share(gap) <= fee)
    BY <1>1, ShareBounded
  <2> HIDE DEF share
  <2> QED
    BY <2>1 DEF BaseFeeChangeDenominator
<1>3. next = CASE used = target -> fee
               [] used > target -> fee + AtLeast(change(used - target), 1)
               [] used < target -> AtLeast(fee - change(target - used), 0)
  BY DEF CalcBaseFee, target
<1> HIDE DEF next, change, eighth
<1>4. ASSUME used = target PROVE Bounds
  BY <1>1, <1>3, <1>4 DEF AtLeast
<1>5. ASSUME used > target PROVE Bounds
  <2>1. used - target \in Nat /\ (used <= 2 * target => used - target <= target)
    BY <1>1, <1>5
  <2>2. next = fee + AtLeast(change(used - target), 1)
    BY <1>1, <1>3, <1>5
  <2>3. change(used - target) \in Nat
        /\ (used <= 2 * target => change(used - target) <= eighth)
    BY <1>2, <2>1
  <2> QED
    BY <1>1, <1>5, <2>2, <2>3 DEF AtLeast
<1>6. ASSUME used < target PROVE Bounds
  <2>1. target - used \in Nat /\ target - used <= target
    BY <1>1, <1>6
  <2>2. next = AtLeast(fee - change(target - used), 0)
    BY <1>1, <1>3, <1>6
  <2>3. change(target - used) \in Nat /\ change(target - used) <= eighth
    BY <1>2, <2>1
  <2> QED
    BY <1>1, <1>6, <2>2, <2>3 DEF AtLeast
<1>7. Bounds
  BY <1>1, <1>4, <1>5, <1>6
<1> QED
  BY <1>7 DEF target, next, eighth

(***************************************************************************)
(* Governance.                                                             *)
(***************************************************************************)
LEMMA GovernanceNone ==
    ASSUME NEW p
    PROVE  Governance(p, <<>>) = p
<1> DEFINE F(g) == g = [k \in 0..0 |-> IF k = 0 THEN p ELSE UpdateParams(g[k - 1], <<>>[k])]
<1>1. Governance(p, <<>>) = (CHOOSE g : F(g))[0]
  BY DEF Governance
<1>2. F([k \in 0..0 |-> p])
  OBVIOUS
<1>3. F(CHOOSE g : F(g))
  BY ONLY <1>2
<1> QED
  BY <1>1, <1>3

LEMMA GovernanceOne ==
    ASSUME NEW p, NEW new
    PROVE  Governance(p, <<new>>) = UpdateParams(p, new)
<1> DEFINE passed == <<new>>
           F(g) == g = [k \in 0..1 |-> IF k = 0 THEN p ELSE UpdateParams(g[k - 1], passed[k])]
<1>1. Governance(p, passed) = (CHOOSE g : F(g))[1]
  BY DEF Governance
<1>2. F([k \in 0..1 |-> IF k = 0 THEN p ELSE UpdateParams(p, new)])
  OBVIOUS
<1>3. F(CHOOSE g : F(g))
  BY ONLY <1>2
<1> DEFINE after == CHOOSE g : F(g)
<1>4. after = [k \in 0..1 |-> IF k = 0 THEN p ELSE UpdateParams(after[k - 1], passed[k])]
  BY <1>3
<1> HIDE DEF after
<1>5. after[0] = p /\ after[1] = UpdateParams(after[0], passed[1])
  BY <1>4
<1> QED
  BY <1>1, <1>5 DEF after

(* None or one proposal, whose fields are numbers, passed.                 *)
Passed(passed) ==
    passed = <<>> \/ \E new \in [baseFee : Int, minGasPrice : Int] : passed = <<new>>

(* Governance leaves parameters that are valid.                            *)
LEMMA GovernanceValid ==
    ASSUME NEW p \in Params, NEW passed, Passed(passed)
    PROVE  Governance(p, passed) \in Params
<1>1. CASE passed = <<>>
  BY <1>1, GovernanceNone
<1>2. ASSUME NEW new \in [baseFee : Int, minGasPrice : Int], passed = <<new>>
      PROVE  Governance(p, passed) \in Params
  <2>1. UpdateParams(p, new) \in Params
    BY DEF UpdateParams, Validate, Params
  <2> QED
    BY <1>2, <2>1, GovernanceOne
<1> QED
  BY <1>1, <1>2 DEF Passed

(* What the end blockers make of the parameters that governance leaves.    *)
LEMMA EndBlockersRight ==
    ASSUME MaxGas > 1, params \in Params, NEW gas \in Nat, NEW passed, Passed(passed),
           EndBlockers(gas, passed)
    PROVE  LET left == Governance(params, passed)
               next == CalcBaseFee(MaxGas, GasConsumedToLimit(gas), left.baseFee)
           IN  /\ left \in Params /\ next \in Nat /\ params' \in Params
               /\ params'.baseFee = AtLeast(next, left.minGasPrice)
               /\ params'.minGasPrice = left.minGasPrice
<1> DEFINE left == Governance(params, passed)
           next == CalcBaseFee(MaxGas, GasConsumedToLimit(gas), left.baseFee)
<1>1. left \in Params /\ params' = updateBaseFeeForNextBlock(gas, left)
  BY GovernanceValid DEF EndBlockers
<1> HIDE DEF left
<1>2. GasConsumedToLimit(gas) \in Nat /\ MaxGas \in Nat
  BY FeeMarketAssumption DEF GasConsumedToLimit
<1>3. left.baseFee \in Nat /\ left.minGasPrice \in Nat
      /\ left = [baseFee |-> left.baseFee, minGasPrice |-> left.minGasPrice]
  BY <1>1 DEF Params
<1>4. next \in Nat
  BY <1>2, <1>3, CalcBaseFeeBounds
<1>5. params' = [left EXCEPT !.baseFee = AtLeast(next, left.minGasPrice)]
  BY <1>1, <1>2 DEF updateBaseFeeForNextBlock, CalculateBaseFee
<1> HIDE DEF next
<1>6. /\ params'.baseFee = AtLeast(next, left.minGasPrice)
      /\ params'.minGasPrice = left.minGasPrice
  BY <1>3, <1>5
<1>7. AtLeast(next, left.minGasPrice) \in Nat
  BY <1>3, <1>4 DEF AtLeast
<1>8. params' \in Params
  BY <1>1, <1>5, <1>7 DEF Params
<1> QED
  BY <1>1, <1>4, <1>6, <1>8 DEF next, left

-----------------------------------------------------------------------------
(* The first block is the only one that may run before the fee market has  *)
(* set a base fee, and no block runs before it.                            *)
HInv ==
    /\ params \in Params /\ decided \in Params /\ consumed \in Nat /\ inBlock \in BOOLEAN
    /\ height \in Int /\ height >= InitialHeight - 1
    /\ height = InitialHeight - 1 => ~inBlock
    /\ FloorInForce

(* What the end of a block does to the parameters.                         *)
LEMMA EndRight ==
    ASSUME MaxGas > 1, HInv, NEW passed, Passed(passed), End(passed)
    PROVE  LET fee == decided'.baseFee
               next == CalcBaseFee(MaxGas, GasConsumedToLimit(consumed), fee)
           IN  /\ decided' \in Params /\ next \in Nat /\ params' \in Params
               /\ params'.baseFee = AtLeast(next, decided'.minGasPrice)
               /\ params'.minGasPrice = decided'.minGasPrice
<1>1. decided' = Governance(params, passed) /\ EndBlockers(consumed, passed)
  BY DEF End
<1>2. params \in Params /\ consumed \in Nat
  BY DEF HInv
<1> QED
  BY <1>1, <1>2, EndBlockersRight

LEMMA HooksInductive ==
    ASSUME MaxGas > 1
    PROVE  HooksSpec => []HInv
<1>1. ASSUME HooksInit PROVE HInv
  <2>1. params \in Params /\ decided = params
    BY <1>1, FeeMarketAssumption DEF HooksInit
  <2>2. InitialHeight \in Int /\ height = InitialHeight - 1 /\ inBlock = FALSE /\ consumed = 0
    BY <1>1, BlockHashAssumption DEF HooksInit, HashInit
  <2>3. ~(height > InitialHeight \/ height = InitialHeight)
    BY ONLY <2>2
  <2>4. FloorInForce
    BY <2>3 DEF FloorInForce
  <2>5. height \in Int /\ height >= InitialHeight - 1 /\ consumed \in Nat
    BY ONLY <2>2
  <2> QED
    BY <2>1, <2>2, <2>4, <2>5 DEF HInv
<1>2. HInv /\ [HooksNext]_hookVars => HInv'
  <2> SUFFICES ASSUME HInv, [HooksNext]_hookVars PROVE HInv'
    OBVIOUS
  <2>1. CASE Begin
    BY <2>1, BlockHashAssumption DEF Begin, BeginBlock, HInv, FloorInForce, baseFee
  <2>2. CASE Deliver
    BY <2>2, BlockHooksAssumption DEF Deliver, SetupExecutionContext, HInv, FloorInForce, baseFee
  <2>3. ASSUME NEW passed, Passed(passed), End(passed) PROVE HInv'
    <3> DEFINE next == CalcBaseFee(MaxGas, GasConsumedToLimit(consumed), decided'.baseFee)
    <3>1. /\ decided' \in Params /\ next \in Nat /\ params' \in Params
          /\ params'.baseFee = AtLeast(next, decided'.minGasPrice)
          /\ params'.minGasPrice = decided'.minGasPrice
      BY <2>3, EndRight
    <3> HIDE DEF next
    <3>2. params'.baseFee >= params'.minGasPrice
      BY <3>1 DEF AtLeast, Params
    <3>3. /\ UNCHANGED <<height, consumed>> /\ inBlock' = FALSE
      BY <2>3 DEF End, hashVars
    <3> QED
      BY <3>1, <3>2, <3>3 DEF HInv, FloorInForce, baseFee
  <2>4. CASE UNCHANGED hookVars
    BY <2>4 DEF hookVars, hashVars, HInv, FloorInForce, baseFee
  <2> QED
    BY <2>1, <2>2, <2>3, <2>4, BlockHooksAssumption DEF HooksNext, Passed
<1> QED
  BY <1>1, <1>2, PTL DEF HooksSpec

(* From the second block on the base fee is at least the minimum gas price *)
(* of that block, whatever governance decides and the blocks consume.      *)
THEOREM FloorHolds ==
    ASSUME MaxGas > 1
    PROVE  HooksSpec => []FloorInForce
<1>1. HInv => FloorInForce
  BY DEF HInv
<1> QED
  BY <1>1, HooksInductive, PTL

(* For any even gas limit, any fee and any consumption the base fee moves  *)
(* with the demand and by at most an eighth (eip1559.go:31-42).            *)
THEOREM DemandFollowed ==
    ASSUME MaxGas > 1, MaxGas % 2 = 0
    PROVE  HooksSpec => FollowsDemand
<1> DEFINE Moves ==
        Ended =>
        /\ consumed > Target => params'.baseFee > decided'.baseFee
        /\ consumed <= Target => params'.baseFee <= Floored
        /\ consumed = Target => params'.baseFee = Floored
        /\ params'.baseFee <= AtLeast(decided'.baseFee + AtLeast(Eighth, 1), Floored)
        /\ params'.baseFee >= decided'.baseFee - Eighth
<1>1. HInv /\ [HooksNext]_hookVars => [Moves]_hookVars
  <2> SUFFICES ASSUME HInv, HooksNext, Ended PROVE Moves
    BY DEF Ended
  <2>1. PICK passed : Passed(passed) /\ End(passed)
    BY BlockHooksAssumption DEF HooksNext, Begin, Deliver, Ended, Passed
  <2> DEFINE fee == decided'.baseFee
             used == GasConsumedToLimit(consumed)
             next == CalcBaseFee(MaxGas, used, fee)
  <2>2. /\ fee \in Nat /\ next \in Nat /\ decided'.minGasPrice \in Nat
        /\ params'.baseFee = AtLeast(next, decided'.minGasPrice)
    BY <2>1, EndRight DEF Params
  <2>3. /\ consumed \in Nat /\ used \in Nat /\ MaxGas \in Nat
        /\ Target \in Nat /\ MaxGas = 2 * Target
        /\ used <= 2 * Target
        /\ consumed > Target <=> used > Target
        /\ consumed = Target <=> used = Target
    BY FeeMarketAssumption DEF HInv, GasConsumedToLimit, Target, ElasticityMultiplier
  <2> HIDE DEF used
  <2>4. /\ used > Target => next > fee
        /\ used = Target => next = fee
        /\ used < Target => next <= fee
        /\ next >= fee - Eighth
        /\ used <= 2 * Target => next <= fee + AtLeast(Eighth, 1)
    BY <2>2, <2>3, CalcBaseFeeBounds DEF Target, Eighth
  <2>5. Eighth \in Nat
    BY <2>2 DEF Eighth, BaseFeeChangeDenominator
  <2> HIDE DEF next
  <2> QED
    BY <2>2, <2>3, <2>4, <2>5 DEF AtLeast, Floored
<1> QED
  BY <1>1, HooksInductive, PTL DEF HooksSpec, FollowsDemand

(***************************************************************************)
(* The indexer service.                                                    *)
(***************************************************************************)

(* A nonempty set of natural numbers has a least element.                  *)
LEMMA LeastHeight ==
    ASSUME NEW S, S \subseteq Nat, S # {}
    PROVE  \E m \in S : \A x \in S : m <= x
<1> DEFINE R == OpToRel(<, Nat)
<1>1. IsWellFoundedOn(R, Nat)
  BY NatLessThanWellFounded
<1>2. \A x, y \in Nat : x < y => <<x, y>> \in R
  BY DEF OpToRel
<1> HIDE DEF R
<1>3. PICK m \in S : \A y \in S : ~(<<y, m>> \in R)
  BY <1>1, WFMin
<1>4. \A x \in S : ~(x < m)
  BY <1>2, <1>3
<1> QED
  BY <1>4

(* A set of heights has a least and a greatest element, which LoadFirst-   *)
(* Block and LoadLastBlock find.                                           *)
LEMMA ExtremaExist ==
    ASSUME NEW S \in SUBSET Heights, S # {}
    PROVE  /\ Min(S) \in S /\ \A x \in S : Min(S) <= x
           /\ Max(S) \in S /\ \A x \in S : x <= Max(S)
<1> DEFINE T == {MaxHeight - x : x \in S}
<1>1. S \subseteq Nat /\ T \subseteq Nat /\ T # {}
  <2>1. \A x \in S : x \in Nat /\ MaxHeight - x \in Nat
    BY IndexerAssumption DEF Heights
  <2>2. PICK x : x \in S
    OBVIOUS
  <2>3. MaxHeight - x \in T
    BY <2>2
  <2> QED
    BY <2>1, <2>3
<1>2. \E m \in S : \A x \in S : m <= x
  BY <1>1, LeastHeight
<1>3. \E t \in T : \A u \in T : t <= u
  <2> HIDE DEF T
  <2> QED
    BY <1>1, LeastHeight
<1>4. \E m \in S : \A x \in S : m >= x
  <2>1. PICK m \in S : \A u \in T : MaxHeight - m <= u
    BY <1>3
  <2>2. \A x \in S : MaxHeight - m <= MaxHeight - x
    BY <2>1
  <2> QED
    BY <1>1, <2>2, IndexerAssumption
<1>5. Min(S) \in S /\ \A x \in S : Min(S) <= x
  BY <1>2 DEF Min
<1>6. Max(S) \in S /\ \A x \in S : Max(S) >= x
  BY <1>4 DEF Max
<1> QED
  BY <1>1, <1>5, <1>6

-----------------------------------------------------------------------------
(* The inductive invariant.  The database holds only blocks with Ethereum  *)
(* transactions, and works for one process at a time.                      *)
Sane ==
    /\ eth \in SUBSET Heights /\ db \in SUBSET eth
    /\ head \in Heights /\ earliest \in Heights /\ at \in Int
    /\ latestBlock \in 0..head /\ lastIndexedBlock \in Nat /\ i \in Nat /\ seen \in Nat
    /\ lastRequestIndexedBlock \in Int
    /\ cmd # "none" => main = "down"
    /\ main # "down" => latestBlock > 0

(* The command extends the index without a gap: no block with Ethereum     *)
(* transactions lies between the index and where the command is.           *)
CommandAdjacent ==
    /\ cmd \in {"none", "backward", "forward"}
    /\ cmd = "backward" =>
          /\ \A h \in db : at < h
          /\ db # {} => \A h \in eth : at < h => \E g \in db : g <= h
    /\ cmd = "forward" =>
          /\ \A h \in db : h < at
          /\ db # {} => \A h \in eth : h < at => \E g \in db : h <= g

(* The running service is never behind its index, announces blocks that it *)
(* has passed and stored, and indexes the next one.                        *)
Positioned ==
    /\ ~Running => lastRequestIndexedBlock = -1
    /\ Running =>
          /\ lastIndexedBlock > 0 /\ \A h \in db : h <= lastIndexedBlock
          /\ lastRequestIndexedBlock \in {-1} \cup 1..lastIndexedBlock
          /\ lastRequestIndexedBlock \in eth => lastRequestIndexedBlock \in db
    /\ main = "index" => i = lastIndexedBlock + 1 /\ i <= latestBlock

(* GapsExplained, without naming the ends of the index.                    *)
NoGaps ==
    \A h \in eth :
        /\ \E g \in db : g <= h
        /\ IF Running THEN h <= lastIndexedBlock ELSE \E g \in db : h <= g
        => h \in db \cup skipped \cup missed

IInv == Sane /\ CommandAdjacent /\ Positioned /\ NoGaps

-----------------------------------------------------------------------------
(* What LoadFirstBlock and LoadLastBlock return.                           *)
LEMMA EndsOfIndex ==
    ASSUME Sane
    PROVE  /\ First \in Int /\ Last \in Int
           /\ (First = -1 <=> db = {}) /\ (Last = -1 <=> db = {})
           /\ db # {} => /\ First \in db /\ \A h \in db : First <= h
                         /\ Last \in db /\ \A h \in db : h <= Last
<1>1. db \in SUBSET Heights /\ Heights \subseteq Int /\ -1 \notin Heights
  BY DEF Sane, Heights
<1>2. CASE db = {}
  BY <1>2 DEF First, Last
<1>3. CASE db # {}
  <2>1. First = Min(db) /\ Last = Max(db)
    BY <1>3 DEF First, Last
  <2> QED
    BY <1>1, <1>3, <2>1, ExtremaExist
<1> QED
  BY <1>2, <1>3

LEMMA InitRight == Init => IInv
  BY IndexerAssumption DEF Init, IInv, Sane, CommandAdjacent, Positioned, NoGaps, Running, Heights

(* Steps that move none of what the invariant speaks of but the position   *)
(* of the main goroutine, which stays inside or outside of the loop.       *)
Quiet ==
    /\ UNCHANGED <<node, db, command, latestBlock, lastIndexedBlock, i,
                   lastRequestIndexedBlock, history>>
    /\ seen' \in Nat /\ Running' = Running /\ main' # "index" /\ (main' = "down" <=> main = "down")

LEMMA QuietRight ==
    ASSUME IInv, Quiet
    PROVE  IInv'
  BY DEF IInv, Quiet, node, command, history, Sane, CommandAdjacent, Positioned, NoGaps, Running

(* The goroutines' signals, waits and timeouts are quiet.                  *)
LEMMA SignalsRight ==
    ASSUME IInv,
           \/ MainSeesQuit \/ MainPassesQuit \/ NothingToIndex \/ Ready \/ Wake \/ Timeout
           \/ Subscribe
    PROVE  IInv'
<1>1. Quiet
  BY DEF IInv, Sane, Heights, MainSeesQuit, MainPassesQuit, NothingToIndex, Ready, Wake, Timeout, Subscribe, Default,
         Quiet, Running, node, command, history, others, headers, work
<1> QED
  BY <1>1, QuietRight

(* A block is added, and the header goroutine follows it.                  *)
LEMMA HeadersRight ==
    ASSUME IInv,
           NewBlock \/ Prune \/ Stop \/ Header \/ Notify \/ HeaderSeesQuit \/ HeaderPassesQuit
    PROVE  IInv'
<1>1. /\ UNCHANGED <<eth, db, command, lastIndexedBlock, i, lastRequestIndexedBlock, history, main>>
      /\ head' \in Heights /\ earliest' \in Heights
      /\ latestBlock' \in latestBlock..head' /\ seen' \in Nat
  BY IndexerAssumption
     DEF IInv, Sane, NewBlock, Prune, Stop, Header, Notify, HeaderSeesQuit, HeaderPassesQuit,
         node, command, history, others, headers, work, process, Heights
<1> QED
  BY <1>1 DEF IInv, command, history, Sane, CommandAdjacent, Positioned, NoGaps, Running

(* The process ends, and the newest entries may be lost.                   *)
LEMMA ExitRight ==
    ASSUME IInv, Exit
    PROVE  IInv'
<1>1. PICK kept \in 0..MaxHeight : db' = {h \in db : h <= kept}
  BY DEF Exit
<1>2. /\ UNCHANGED <<eth, head, earliest, cmd, at, missed, skipped>>
      /\ main' = "down" /\ seen' = 0 /\ latestBlock' = 0 /\ lastIndexedBlock' = 0 /\ i' = 0
      /\ lastRequestIndexedBlock' = -1 /\ cmd = "none"
  BY DEF Exit, IInv, Sane, command, node, history
<1>3. Sane' /\ CommandAdjacent' /\ Positioned'
  <2>1. head \in Nat /\ db' \subseteq db
    BY <1>1 DEF IInv, Sane, Heights
  <2> QED
    BY <1>2, <2>1 DEF IInv, Sane, CommandAdjacent, Positioned, Running
<1>4. NoGaps'
  <2> SUFFICES ASSUME NEW h \in eth, NEW g \in db', g <= h, NEW k \in db', h <= k
               PROVE  h \in db' \cup skipped' \cup missed'
    BY <1>2 DEF NoGaps, Running
  <2>1. h \in db \cup skipped \cup missed
    BY <1>1 DEF IInv, Sane, Positioned, NoGaps, Heights
  <2> QED
    BY <1>1, <1>2, <2>1 DEF IInv, Sane, Heights
<1> QED
  BY <1>3, <1>4 DEF IInv

(* The command starts next to the index.                                   *)
LEMMA CommandStarts ==
    ASSUME IInv, Backward \/ Forward
    PROVE  IInv'
<1>1. /\ UNCHANGED <<eth, head, earliest, db, missed, skipped, main, seen, latestBlock,
                     lastIndexedBlock, i, lastRequestIndexedBlock>>
      /\ main = "down" /\ cmd' \in {"backward", "forward"}
      /\ cmd' = "backward" => at' = (IF First = -1 THEN head ELSE First) - 1
      /\ cmd' = "forward" => at' = (IF Last = -1 THEN 0 ELSE Last) + 1
  BY DEF Backward, Forward, process, node, history, headers, work
<1>2. /\ First \in Int /\ Last \in Int
      /\ (First = -1 <=> db = {}) /\ (Last = -1 <=> db = {})
      /\ db # {} => /\ First \in db /\ \A h \in db : First <= h
                    /\ Last \in db /\ \A h \in db : h <= Last
  BY EndsOfIndex DEF IInv
<1>3. eth \subseteq Int /\ db \subseteq eth /\ head \in Int
  BY DEF IInv, Sane, Heights
<1>4. Sane'
  BY <1>1, <1>2, <1>3 DEF IInv, Sane
<1>5. CommandAdjacent'
  <2>1. CASE db = {}
    BY <1>1, <2>1 DEF CommandAdjacent
  <2>2. CASE db # {} /\ cmd' = "backward"
    <3>1. at' = First - 1
      BY <1>1, <1>2, <2>2
    <3> QED
      BY <1>1, <1>2, <1>3, <2>2, <3>1 DEF CommandAdjacent
  <2>3. CASE db # {} /\ cmd' = "forward"
    <3>1. at' = Last + 1
      BY <1>1, <1>2, <2>3
    <3> QED
      BY <1>1, <1>2, <1>3, <2>3, <3>1 DEF CommandAdjacent
  <2> QED
    BY <1>1, <2>1, <2>2, <2>3
<1> QED
  BY <1>1, <1>4, <1>5 DEF IInv, Positioned, NoGaps, Running

(* It adds the block next to the index.                                    *)
LEMMA CommandIndexesRight ==
    ASSUME IInv, CommandIndexes
    PROVE  IInv'
<1>1. /\ UNCHANGED <<eth, head, earliest, cmd, missed, skipped, main, seen, latestBlock,
                     lastIndexedBlock, i, lastRequestIndexedBlock>>
      /\ main = "down" /\ at \in earliest..head /\ cmd \in {"backward", "forward"}
      /\ db' = db \cup ({at} \cap eth)
      /\ at' = IF cmd = "backward" THEN at - 1 ELSE at + 1
  BY DEF CommandIndexes, IInv, Sane, CommandAdjacent, process, node, history, headers, work
<1>2. Sane' /\ Positioned'
  BY <1>1 DEF IInv, Sane, Positioned, Running, Heights
<1>3. eth \subseteq Int /\ db \subseteq eth /\ at \in Int
  BY DEF IInv, Sane, Heights
<1>4. CommandAdjacent'
  <2>1. CASE cmd = "backward"
    BY <1>1, <1>3, <2>1 DEF IInv, CommandAdjacent
  <2>2. CASE cmd = "forward"
    BY <1>1, <1>3, <2>2 DEF IInv, CommandAdjacent
  <2> QED
    BY <1>1, <2>1, <2>2
<1>5. NoGaps'
  <2> SUFFICES ASSUME NEW h \in eth, NEW g \in db', g <= h, NEW k \in db', h <= k
               PROVE  h \in db' \cup skipped \cup missed
    BY <1>1 DEF NoGaps, Running
  <2>1. CASE h \in db'
    BY <2>1
  <2>2. CASE h \notin db'
    <3>1. h # at
      BY <1>1, <2>2
    <3>2. \E g1 \in db, k1 \in db : g1 <= h /\ h <= k1
      <4>1. CASE cmd = "backward"
        BY <1>1, <1>3, <2>2, <3>1, <4>1 DEF IInv, CommandAdjacent
      <4>2. CASE cmd = "forward"
        BY <1>1, <1>3, <2>2, <3>1, <4>2 DEF IInv, CommandAdjacent
      <4> QED
        BY <1>1, <4>1, <4>2
    <3> QED
      BY <1>1, <3>2 DEF IInv, NoGaps, Running
  <2> QED
    BY <2>1, <2>2
<1> QED
  BY <1>2, <1>4, <1>5 DEF IInv

(* It ends, and the entries it wrote last may be lost.                     *)
LEMMA CommandEndsRight ==
    ASSUME IInv, CommandEnds
    PROVE  IInv'
<1>1. /\ UNCHANGED <<eth, head, earliest, missed, skipped, main, seen, latestBlock,
                     lastIndexedBlock, i, lastRequestIndexedBlock>>
      /\ main = "down" /\ cmd' = "none" /\ at' = 0
  BY DEF CommandEnds, IInv, Sane, process, node, history, headers, work
<1>2. PICK k \in 0..MaxHeight :
          db' = {h \in db : IF cmd = "backward" THEN h >= k ELSE h <= k}
  BY DEF CommandEnds
<1>3. eth \subseteq Int /\ db \subseteq eth /\ k \in Int
  BY IndexerAssumption DEF IInv, Sane, Heights
<1>4. Sane' /\ Positioned' /\ CommandAdjacent'
  BY <1>1, <1>2 DEF IInv, Sane, Positioned, CommandAdjacent, Running
<1>5. NoGaps'
  <2> SUFFICES ASSUME NEW h \in eth, NEW g \in db', g <= h, NEW l \in db', h <= l
               PROVE  h \in db' \cup skipped \cup missed
    BY <1>1 DEF NoGaps, Running
  <2>1. h \in db \cup skipped \cup missed
    BY <1>1, <1>2 DEF IInv, NoGaps, Running
  <2> QED
    BY <1>2, <1>3, <2>1
<1> QED
  BY <1>4, <1>5 DEF IInv

(* The service starts.                                                     *)
LEMMA StatusRight ==
    ASSUME IInv, Status
    PROVE  IInv'
<1>1. /\ UNCHANGED <<eth, head, earliest, db, cmd, at, missed, skipped, seen, lastIndexedBlock, i,
                     lastRequestIndexedBlock>>
      /\ main = "down" /\ main' = "subscribe" /\ cmd = "none" /\ latestBlock' = head
  BY DEF Status, command, node, history, work
<1> QED
  BY <1>1 DEF IInv, Sane, CommandAdjacent, Positioned, NoGaps, Running, Heights

(* It takes its position: at the end of the index, or past it on a pruned  *)
(* node, when what it passes over is missed.                               *)
LEMMA LastIndexedBlockRight ==
    ASSUME IInv, LastIndexedBlock
    PROVE  IInv'
<1>1. /\ UNCHANGED <<eth, head, earliest, db, cmd, at, skipped, seen, latestBlock, i,
                     lastRequestIndexedBlock>>
      /\ main = "load" /\ main' = "top" /\ lastIndexedBlock' = FirstPosition
      /\ missed' = IF Last # -1 /\ Last < earliest
                   THEN missed \cup ((Last + 1)..earliest) ELSE missed
  BY DEF LastIndexedBlock, command, node, headers
<1>2. /\ Last \in Int /\ (Last = -1 <=> db = {})
      /\ db # {} => Last \in db /\ \A h \in db : h <= Last
  BY EndsOfIndex DEF IInv
<1>3. /\ eth \subseteq Nat \ {0} /\ db \subseteq eth /\ earliest \in Nat \ {0}
      /\ latestBlock \in Nat \ {0}
  BY <1>1 DEF IInv, Sane, Heights
<1>4. /\ lastIndexedBlock' \in Nat \ {0}
      /\ \A h \in db : h <= lastIndexedBlock'
  BY <1>1, <1>2, <1>3 DEF FirstPosition
<1>5. Sane' /\ CommandAdjacent'
  BY <1>1, <1>4 DEF IInv, Sane, CommandAdjacent
<1>6. Positioned'
  BY <1>1, <1>3, <1>4 DEF IInv, Positioned, Running
<1>7. NoGaps'
  <2> SUFFICES ASSUME NEW h \in eth, NEW g \in db, g <= h, h <= lastIndexedBlock'
               PROVE  h \in db \cup skipped \cup missed'
    BY <1>1 DEF NoGaps, Running
  <2>1. CASE h <= Last
    BY <1>1, <1>2, <2>1 DEF IInv, NoGaps, Running
  <2>2. CASE ~(h <= Last)
    <3>1. Last \in db /\ Last \in Nat \ {0} /\ h \in Nat
      BY <1>2, <1>3
    <3>2. Last # -1 /\ Last < earliest /\ lastIndexedBlock' = earliest
      BY <1>1, <1>3, <2>2, <3>1 DEF FirstPosition
    <3>3. h \in (Last + 1)..earliest
      BY <1>3, <2>2, <3>1, <3>2
    <3> QED
      BY <1>1, <3>2, <3>3
  <2> QED
    BY <2>1, <2>2
<1> QED
  BY <1>5, <1>6, <1>7 DEF IInv

LEMMA BeginIndexingRight ==
    ASSUME IInv, BeginIndexing
    PROVE  IInv'
<1>1. /\ UNCHANGED <<eth, head, earliest, db, cmd, at, missed, skipped, seen, latestBlock,
                     lastIndexedBlock, lastRequestIndexedBlock>>
      /\ main = "top" /\ main' = "index" /\ i' = lastIndexedBlock + 1
      /\ lastIndexedBlock < latestBlock
  BY DEF BeginIndexing, Default, headers, others, command, node, history
<1> QED
  BY <1>1 DEF IInv, Sane, CommandAdjacent, Positioned, NoGaps, Running

(* The service moves past a block: it is in the index or it was given up.  *)
LEMMA PastBlock ==
    ASSUME IInv, main = "index",
           UNCHANGED <<eth, head, earliest, cmd, at, missed, seen, latestBlock>>,
           lastIndexedBlock' = i, main' \in {"index", "top"},
           main' = "index" => i' = i + 1 /\ i + 1 <= latestBlock,
           i' \in {i, i + 1},
           \/ /\ db' = db \cup ({i} \cap eth) /\ skipped' = skipped
              /\ lastRequestIndexedBlock' =
                    IF lastRequestIndexedBlock < i THEN i ELSE lastRequestIndexedBlock
           \/ /\ UNCHANGED <<db, lastRequestIndexedBlock>>
              /\ skipped' = skipped \cup {i}
    PROVE  IInv'
<1>1. i = lastIndexedBlock + 1 /\ lastIndexedBlock \in Nat \ {0} /\ i <= latestBlock
  BY DEF IInv, Sane, Positioned, Running
<1>2. /\ eth \subseteq Nat \ {0} /\ db \subseteq eth
      /\ db' \subseteq eth /\ db' \subseteq db \cup {i}
  <2>1. eth \subseteq Nat \ {0} /\ db \subseteq eth
    BY DEF IInv, Sane, Heights
  <2> QED
    BY <2>1
<1>3. cmd = "none"
  BY DEF IInv, Sane
<1>4. /\ \A h \in db : h <= lastIndexedBlock
      /\ lastRequestIndexedBlock \in {-1} \cup 1..lastIndexedBlock
      /\ lastRequestIndexedBlock \in eth => lastRequestIndexedBlock \in db
  BY DEF IInv, Positioned, Running
<1>5. lastRequestIndexedBlock' \in {-1} \cup 1..i
  BY <1>1, <1>4
<1>6. Sane'
  BY <1>1, <1>2, <1>3, <1>5 DEF IInv, Sane
<1>7. CommandAdjacent'
  BY <1>3 DEF CommandAdjacent
<1>8. Positioned'
  <2>1. lastRequestIndexedBlock' \in eth => lastRequestIndexedBlock' \in db'
    BY <1>1, <1>4
  <2>2. \A h \in db' : h <= i
    BY <1>1, <1>2, <1>4
  <2> QED
    BY <1>1, <1>5, <2>1, <2>2 DEF Positioned, Running
<1>9. NoGaps'
  <2> SUFFICES ASSUME NEW h \in eth, NEW g \in db', g <= h, h <= i
               PROVE  h \in db' \cup skipped' \cup missed
    BY DEF NoGaps, Running
  <2>1. CASE h = i
    BY <2>1
  <2>2. CASE h # i
    <3>1. g \in db /\ h <= lastIndexedBlock
      BY <1>1, <1>2, <2>2
    <3>2. h \in db \cup skipped \cup missed
      BY <3>1 DEF IInv, NoGaps, Running
    <3> QED
      BY <3>2
  <2> QED
    BY <2>1, <2>2
<1> QED
  BY <1>6, <1>7, <1>8, <1>9 DEF IInv

LEMMA IndexBlockRight ==
    ASSUME IInv, IndexBlock
    PROVE  IInv'
<1>1. i \in Nat
  BY DEF IInv, Sane
<1> QED
  BY <1>1, PastBlock DEF IndexBlock, command, node, headers

LEMMA FetchFailsRight ==
    ASSUME IInv, FetchFails
    PROVE  IInv'
<1>1. /\ UNCHANGED <<eth, head, earliest, db, cmd, at, missed, seen, latestBlock, i,
                     lastRequestIndexedBlock>>
      /\ main = "index" /\ main' = "top"
      /\ \/ lastIndexedBlock' = i /\ skipped' = skipped \cup {i}
         \/ UNCHANGED <<lastIndexedBlock, skipped>>
  BY DEF FetchFails, command, node, headers
<1>2. CASE lastIndexedBlock' = i /\ skipped' = skipped \cup {i}
  BY <1>1, <1>2, PastBlock
<1>3. CASE UNCHANGED <<lastIndexedBlock, skipped>>
  <2>1. Quiet
    BY <1>1, <1>3 DEF IInv, Sane, Quiet, Running, node, command, history
  <2> QED
    BY <2>1, QuietRight
<1> QED
  BY <1>1, <1>2, <1>3


-----------------------------------------------------------------------------
LEMMA Inductive == Spec => []IInv
<1>1. IInv /\ [Next]_vars => IInv'
  <2> SUFFICES ASSUME IInv, [Next]_vars PROVE IInv'
    OBVIOUS
  <2>1. CASE UNCHANGED vars
    BY <2>1 DEF vars, process, others, headers, work, command, node, history,
                IInv, Sane, CommandAdjacent, Positioned, NoGaps, Running
  <2>2. CASE OnStart
    BY <2>2, SignalsRight, LastIndexedBlockRight, BeginIndexingRight, FetchFailsRight,
       IndexBlockRight DEF OnStart
  <2>3. CASE processBlockHeader \/ NewBlock \/ Prune \/ Stop
    BY <2>3, HeadersRight DEF processBlockHeader
  <2> QED
    BY <2>1, <2>2, <2>3, ExitRight, StatusRight, SignalsRight, CommandStarts,
       CommandIndexesRight, CommandEndsRight DEF Next
<1> QED
  BY <1>1, InitRight, PTL DEF Spec

(* The index has no unexplained gaps, for any chain and any number of      *)
(* stops, crashes with lost batches and runs of the command.               *)
THEOREM IndexHasNoGaps == Spec => []GapsExplained
<1>1. IInv => GapsExplained
  <2> SUFFICES ASSUME IInv, NEW h \in eth, h \in Covered
               PROVE  h \in db \cup skipped \cup missed
    BY DEF GapsExplained
  <2>1. db # {} /\ First \in db /\ Last \in db
    BY EndsOfIndex DEF IInv, Covered
  <2>2. First <= h /\ h <= (IF Running THEN lastIndexedBlock ELSE Last)
    BY <2>1 DEF Covered, IInv, Sane, Heights
  <2> QED
    BY <2>1, <2>2 DEF IInv, NoGaps
<1> QED
  BY <1>1, Inductive, PTL

(* What eth_blockNumber announces is behind the service and in the index.  *)
THEOREM AnnouncedServed == Spec => []BlockNumberServed
<1>1. IInv => BlockNumberServed
  <2> SUFFICES ASSUME IInv, Running
               PROVE  /\ GetLastRequestIndexedBlock <= lastIndexedBlock
                      /\ GetLastRequestIndexedBlock \in eth => GetLastRequestIndexedBlock \in db
    BY DEF BlockNumberServed
  <2>1. /\ Last \in Int /\ (Last = -1 <=> db = {})
        /\ db # {} => Last \in db
    BY EndsOfIndex DEF IInv
  <2>2. /\ eth \subseteq Nat /\ lastIndexedBlock \in Nat
        /\ \A h \in db : h <= lastIndexedBlock
    BY DEF IInv, Sane, Positioned, Heights
  <2>3. Last <= lastIndexedBlock /\ (Last \in eth => Last \in db)
    BY ONLY <2>1, <2>2
  <2> QED
    BY <2>3 DEF GetLastRequestIndexedBlock, IInv, Sane, Positioned
<1> QED
  BY <1>1, Inductive, PTL

(* eth_blockNumber never falls while a process runs, for any chain.        *)
THEOREM AnnouncedGrows == Spec => BlockNumberGrows
<1> DEFINE Grows ==
        Running /\ Running' => GetLastRequestIndexedBlock' >= GetLastRequestIndexedBlock
<1>1. IInv /\ [Next]_vars => [Grows]_vars
  <2> SUFFICES ASSUME IInv, Next, Running, Running'
               PROVE  GetLastRequestIndexedBlock' >= GetLastRequestIndexedBlock
    OBVIOUS
  <2>1. /\ Last \in Int /\ (Last = -1 <=> db = {})
        /\ db # {} => Last \in db
    BY EndsOfIndex DEF IInv
  <2>2. /\ db \subseteq Nat /\ lastIndexedBlock \in Nat \ {0} /\ cmd = "none"
        /\ \A h \in db : h <= lastIndexedBlock
        /\ lastRequestIndexedBlock \in {-1} \cup 1..lastIndexedBlock
    BY DEF IInv, Sane, Positioned, Running, Heights
  <2>3. Last \in Int /\ Last <= lastIndexedBlock
    BY ONLY <2>1, <2>2
  <2>4. CASE IndexBlock
    <3>1. i = lastIndexedBlock + 1
      BY <2>4 DEF IndexBlock, IInv, Positioned
    <3>2. CASE lastRequestIndexedBlock' = i
      BY <2>2, <2>3, <3>1, <3>2 DEF GetLastRequestIndexedBlock
    <3>3. CASE UNCHANGED <<db, lastRequestIndexedBlock>>
      BY <2>2, <2>3, <3>3 DEF GetLastRequestIndexedBlock, Last
    <3> QED
      BY <2>2, <2>4, <3>1, <3>2, <3>3 DEF IndexBlock
  <2>5. CASE UNCHANGED <<db, lastRequestIndexedBlock>>
    BY <2>2, <2>3, <2>5, SMTT(60) DEF GetLastRequestIndexedBlock, Last
  <2>6. IndexBlock \/ UNCHANGED <<db, lastRequestIndexedBlock>>
    BY <2>2 DEF Next, OnStart, processBlockHeader, NewBlock, Prune, Stop, Exit, Status, Subscribe,
           LastIndexedBlock, MainSeesQuit, MainPassesQuit, NothingToIndex, Ready, Wake, Timeout,
           BeginIndexing, FetchFails, Header, Notify, HeaderSeesQuit, HeaderPassesQuit,
           Backward, Forward, CommandIndexes, CommandEnds, process, work, others, Running
  <2> QED
    BY <2>4, <2>5, <2>6
<1> QED
  BY <1>1, Inductive, PTL DEF Spec, BlockNumberGrows

=============================================================================
