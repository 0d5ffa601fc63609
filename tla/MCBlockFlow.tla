---------------------------- MODULE MCBlockFlow -----------------------------
(* Small instances of the block and its views.                             *)
EXTENDS RpcView, TLC

CONSTANTS a, b, MaxBaseFee

(* Ledgers in which a has an account and coins, and b has none or little.  *)
Start(known, coins) ==
    [known |-> known, seq |-> [s \in Senders |-> 0], bal |-> coins, pool |-> 0,
     count |-> 0, gas |-> [i \in Idx |-> 0], logs |-> [i \in Idx |-> 0],
     receipts |-> [i \in Idx |-> NoReceipt], nonceFlag |-> FALSE, paidFlag |-> FALSE]

MCGenesis == {Start({a}, (a :> 9 @@ b :> 0)), Start({a, b}, (a :> 7 @@ b :> 4))}

T(from, to, nonce, gas, cap, tip, value) ==
    [from |-> from, to |-> to, nonce |-> nonce, gas |-> gas, cap |-> cap, tip |-> tip,
     value |-> value]

(* Legacy and dynamic fees, a gap and a repetition in the nonces, values   *)
(* that can and cannot be paid.                                            *)
MCTxs == {T(a, b, 0, 2, 2, 2, 3), T(a, a, 1, 2, 3, 1, 0), T(b, a, 0, 1, 2, 0, 2)}

Fees(fee, price) == [baseFee |-> fee, minGasPrice |-> price]
MCParams == {Fees(1, 1)}
MCZeroParams == {Fees(0, 0)}

(* A proposal that raises the minimum price above the base fee it was      *)
(* written with, and one that is refused.                                  *)
MCProposals == {Fees(0, 2), Fees(-1, 2)}

BaseFeeBound == baseFee <= MaxBaseFee
=============================================================================
