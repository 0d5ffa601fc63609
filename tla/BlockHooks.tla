----------------------------- MODULE BlockHooks -----------------------------
(***************************************************************************)
(* The hooks of a block in the order the module manager calls them: x/evm  *)
(* stores the block hash at its beginning, each Ethereum transaction does  *)
(* so again and consumes block gas, and at its end governance and then the *)
(* fee market set the parameters of the next block.                        *)
(***************************************************************************)
EXTENDS BlockHash, FeeMarket

CONSTANTS
    Proposals,    \* fee market parameters that governance may set
    MaxConsumed,  \* bound: gas of a block; its last transaction may exceed MaxGas
    MaxBaseFee    \* bound: base fee at which the chain is no longer followed

ASSUME BlockHooksAssumption ==
    /\ Proposals \subseteq [baseFee : Int, minGasPrice : Int]
    /\ MaxConsumed \in Nat

VARIABLES
    inBlock,      \* between BeginBlock and EndBlock
    consumed,     \* by the block gas meter
    decided       \* history: the parameters governance left to the fee market

hookVars == <<hashVars, params, inBlock, consumed, decided>>

HooksInit ==
    /\ HashInit /\ params \in InitParams
    /\ inBlock = FALSE /\ consumed = 0 /\ decided = params

Begin ==
    /\ ~inBlock /\ inBlock' = TRUE
    /\ \E hash \in Hashes : BeginBlock(hash)
    /\ consumed' = 0
    /\ UNCHANGED <<params, decided>>

Deliver ==
    /\ inBlock /\ SetupExecutionContext
    /\ consumed' \in consumed..MaxConsumed
    /\ UNCHANGED <<params, inBlock, decided>>

End(passed) ==
    /\ inBlock /\ inBlock' = FALSE
    /\ EndBlockers(consumed, passed)
    /\ decided' = Governance(params, passed)
    /\ params'.baseFee <= MaxBaseFee
    /\ UNCHANGED <<hashVars, consumed>>

HooksNext ==
    \/ Begin \/ Deliver
    \/ End(<<>>) \/ \E p \in Proposals : End(<<p>>)

HooksSpec == HooksInit /\ [][HooksNext]_hookVars

-----------------------------------------------------------------------------
Target == MaxGas \div ElasticityMultiplier
Ended == inBlock /\ ~inBlock'
Eighth == decided'.baseFee \div BaseFeeChangeDenominator
Floored == AtLeast(decided'.baseFee, decided'.minGasPrice)

(* The base fee rises after a block above the target and does not after    *)
(* one at or below it, by no more than an eighth, or by one where an       *)
(* eighth is less, however far the last transaction went past the limit;   *)
(* only the minimum gas price lifts it further.  It starts from the fee of *)
(* a proposal if one passed in the block.  (The limit is even: half of an  *)
(* odd one is rounded down, so a full block is more than twice the target  *)
(* and may lift the fee by a little more than an eighth.)                  *)
FollowsDemand ==
    [][Ended =>
        /\ consumed > Target => params'.baseFee > decided'.baseFee
        /\ consumed <= Target => params'.baseFee <= Floored
        /\ consumed = Target => params'.baseFee = Floored
        /\ params'.baseFee <= AtLeast(decided'.baseFee + AtLeast(Eighth, 1), Floored)
        /\ params'.baseFee >= decided'.baseFee - Eighth]_hookVars

(* From the second block on no block runs with a base fee below the        *)
(* minimum gas price, the block after a proposal that raised the minimum   *)
(* included: governance is through when the fee market sets the floor.     *)
FloorInForce ==
    height > InitialHeight \/ (height = InitialHeight /\ ~inBlock) =>
        baseFee >= params.minGasPrice
=============================================================================
