---------------------------- MODULE MCBlockHooks ----------------------------
(* A short window, so that the chain outgrows it, and blocks that consume  *)
(* anything up to more than twice the limit.                               *)
EXTENDS BlockHooks

Fees(fee, price) == [baseFee |-> fee, minGasPrice |-> price]
MCParams == {Fees(0, 3), Fees(1, 0), Fees(40, 3)}
MCProposals == {Fees(9, 20), Fees(17, 0), Fees(-1, 5)}
=============================================================================
