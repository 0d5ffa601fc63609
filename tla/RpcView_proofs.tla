--------------------------- MODULE RpcView_proofs ---------------------------
(***************************************************************************)
(* Receipts, gas and what the JSON-RPC backend derives from the results,   *)
(* for blocks of any length.  The block keeps its record in the transient  *)
(* store under the index of a transaction; the backend and the indexer     *)
(* count again, from events and codes.  Both add up gas in a loop, so the  *)
(* argument starts with what such a loop computes.                         *)
(***************************************************************************)
EXTENDS RpcView, BlockFlow_proofs, FiniteSetTheorems, WellFoundedInduction

(***************************************************************************)
(* Sums.                                                                   *)
(***************************************************************************)

(* A nonempty set of naturals has a least element.                         *)

LEMMA LeastNatural ==
    ASSUME NEW S, S \subseteq Nat, S # {}
    PROVE  \E m \in S : \A x \in S : m <= x
<1> DEFINE R == OpToRel(<, Nat)
<1>1. IsWellFoundedOn(R, Nat)
  BY NatLessThanWellFounded, Zenon
<1>2. \A x, y \in Nat : x < y => <<x, y>> \in R
  BY DEF OpToRel
<1> HIDE DEF R
<1>3. PICK m \in S : \A y \in S : ~(<<y, m>> \in R)
  BY <1>1, WFMin, Zenon
<1>4. \A x \in S : ~(x < m)
  BY <1>2, <1>3, Zenon
<1> QED
  BY <1>4

(* Induction, as a fact about sets.                                        *)
LEMMA Induct ==
    ASSUME NEW S, 0 \in S, \A n \in Nat : n \in S => n + 1 \in S
    PROVE  Nat \subseteq S
<1> SUFFICES ASSUME Nat \ S # {} PROVE FALSE
  OBVIOUS
<1> DEFINE T == Nat \ S
<1>1. PICK m \in T : \A x \in T : m <= x
  <2> HIDE DEF T
  <2>1. T \subseteq Nat BY DEF T
  <2>2. T # {} BY DEF T
  <2> QED BY <2>1, <2>2, LeastNatural, Zenon
<1>2. m \in Nat /\ m # 0
  BY <1>1
<1>3. m - 1 \in S
  BY <1>1, <1>2
<1> QED
  BY <1>1, <1>2, <1>3

(* g is the function the loop computes, up to n. *)
Sums(g, f, n) == g = [i \in 0..n |-> IF i = 0 THEN 0 ELSE g[i - 1] + f[i - 1]]

(* The loop computes something, however far it runs.                       *)
LEMMA SumsExist ==
    ASSUME NEW f, NEW n \in Nat
    PROVE  \E g : Sums(g, f, n)
<1> DEFINE S == {k \in Nat : \E g : Sums(g, f, k)}
<1>1. 0 \in S
  <2>1. Sums([i \in 0..0 |-> 0], f, 0)
    BY DEF Sums
  <2> QED
    BY <2>1
<1>2. ASSUME NEW k \in Nat, k \in S PROVE k + 1 \in S
  <2>1. PICK g : Sums(g, f, k)
    BY <1>2
  <2> DEFINE h == [i \in 0..(k + 1) |-> IF i = k + 1 THEN g[k] + f[k] ELSE g[i]]
  <2>2. \A i \in 0..k : h[i] = g[i]
    OBVIOUS
  <2>3. \A i \in 0..k : g[i] = IF i = 0 THEN 0 ELSE g[i - 1] + f[i - 1]
    BY <2>1 DEF Sums
  <2>4. \A i \in 0..(k + 1) : h[i] = IF i = 0 THEN 0 ELSE h[i - 1] + f[i - 1]
    BY <2>2, <2>3
  <2>5. Sums(h, f, k + 1)
    BY <2>4 DEF Sums
  <2> QED
    BY <2>5
<1>3. Nat \subseteq S
  <2> HIDE DEF S
  <2> QED
    BY <1>1, <1>2, Induct
<1> QED
  BY <1>3

(* What it computes up to n depends on the first n summands only.          *)
LEMMA SumsUnique ==
    ASSUME NEW f, NEW n \in Nat, NEW m \in Nat, NEW g, NEW h, NEW e,
           Sums(g, f, n), Sums(h, e, m), n <= m, \A j \in 0..(n - 1) : f[j] = e[j]
    PROVE  \A i \in 0..n : g[i] = h[i]
<1> DEFINE S == {k \in Nat : k <= n => g[k] = h[k]}
<1>1. 0 \in S
  BY DEF Sums
<1>2. ASSUME NEW k \in Nat, k \in S PROVE k + 1 \in S
  <2> SUFFICES ASSUME k + 1 <= n PROVE g[k + 1] = h[k + 1]
    OBVIOUS
  <2>1. g[k + 1] = g[k] + f[k]
    BY DEF Sums
  <2>2. h[k + 1] = h[k] + e[k]
    BY DEF Sums
  <2> QED
    BY <1>2, <2>1, <2>2
<1>3. Nat \subseteq S
  <2> HIDE DEF S
  <2> QED
    BY <1>1, <1>2, Induct
<1> QED
  BY <1>3

(* Total is what the loop computes.                                        *)
LEMMA TotalIs ==
    ASSUME NEW f, NEW n \in Nat
    PROVE  \E g : Sums(g, f, n) /\ Total(f, n) = g[n]
<1> DEFINE sum == CHOOSE g : g = [i \in 0..n |-> IF i = 0 THEN 0 ELSE g[i - 1] + f[i - 1]]
<1>1. Total(f, n) = sum[n]
  BY DEF Total
<1>2. Sums(sum, f, n)
  BY SumsExist, Zenon DEF Sums
<1> HIDE DEF sum
<1> QED
  BY <1>1, <1>2

(* Its equations.                                                          *)
LEMMA TotalZero ==
    ASSUME NEW f
    PROVE  Total(f, 0) = 0
BY TotalIs DEF Sums

LEMMA TotalStep ==
    ASSUME NEW f, NEW n \in Nat
    PROVE  Total(f, n + 1) = Total(f, n) + f[n]
<1>1. PICK g : Sums(g, f, n) /\ Total(f, n) = g[n]
  BY TotalIs
<1>2. PICK h : Sums(h, f, n + 1) /\ Total(f, n + 1) = h[n + 1]
  BY TotalIs
<1>3. g[n] = h[n]
  <2>1. n + 1 \in Nat /\ n <= n + 1 /\ \A j \in 0..(n - 1) : f[j] = f[j]
    OBVIOUS
  <2> QED
    BY ONLY n \in Nat, <1>1, <1>2, <2>1, SumsUnique
<1>4. h[n + 1] = h[n] + f[n]
  BY <1>2 DEF Sums
<1> QED
  BY <1>1, <1>2, <1>3, <1>4

(* Equal summands give equal sums.                                         *)
LEMMA TotalFrame ==
    ASSUME NEW f, NEW e, NEW n \in Nat, \A j \in 0..(n - 1) : f[j] = e[j]
    PROVE  Total(f, n) = Total(e, n)
<1>1. PICK g : Sums(g, f, n) /\ Total(f, n) = g[n]
  BY TotalIs
<1>2. PICK h : Sums(h, e, n) /\ Total(e, n) = h[n]
  BY TotalIs
<1>3. n \in 0..n /\ n <= n
  OBVIOUS
<1> QED
  BY <1>1, <1>2, <1>3, SumsUnique

(* Gas adds up to gas.                                                     *)
LEMMA TotalType ==
    ASSUME NEW f, NEW n \in Nat, \A j \in 0..(n - 1) : f[j] \in Nat
    PROVE  Total(f, n) \in Nat
<1> DEFINE S == {k \in Nat : k <= n => Total(f, k) \in Nat}
<1>1. 0 \in S
  BY TotalZero
<1>2. ASSUME NEW k \in Nat, k \in S PROVE k + 1 \in S
  BY <1>2, TotalStep
<1>3. Nat \subseteq S
  <2> HIDE DEF S
  <2> QED
    BY <1>1, <1>2, Induct
<1> QED
  BY <1>3

(***************************************************************************)
(* The inductive invariant.                                                *)
(***************************************************************************)

(* The positions of the results up to n whose transactions were counted.   *)
Counted(res, n) == {q \in 1..n : res[q].index # NoIndex}

(* A result is counted just if its ante handler passed; it is that of an   *)
(* Ethereum transaction then, and has a receipt just if the message passed.*)
Marked(r) ==
    /\ r.ok \in BOOLEAN /\ r.eth \in BOOLEAN
    /\ IF r.index = NoIndex THEN ~(r.eth /\ r.ok) /\ r.receipt = NoReceipt
       ELSE r.eth /\ (r.ok <=> r.receipt # NoReceipt)

(* What ledger s holds for result r, one of n counted ones.                *)
Recorded(s, n, r) ==
    r.index # NoIndex =>
        LET i == r.index
        IN  /\ i \in 0..(n - 1) /\ s.gas[i] \in Nat
            /\ IF r.receipt = NoReceipt
               THEN ~s.receipts[i].ok /\ s.gas[i] = r.tx.gas
               ELSE /\ r.receipt.ok = s.receipts[i].ok /\ s.receipts[i].ok \in BOOLEAN
                    /\ s.gas[i] = r.receipt.gasUsed
                    /\ s.receipts[i].cumulative = Total(s.gas, i + 1)
                    /\ r.receipt.cumulative = s.receipts[i].cumulative

(* Results res are those of a block with n counted transactions, whose     *)
(* record is in s: their indexes are consecutive.                          *)
Told(s, n, res) ==
    /\ Cardinality(Counted(res, Len(res))) = n
    /\ \A p \in 1..Len(res) :
        /\ Marked(res[p]) /\ Recorded(s, n, res[p])
        /\ res[p].index # NoIndex => res[p].index = Cardinality(Counted(res, p - 1))

(* The cache of the ante handler is written, that of the message is not.   *)
InMessage == pc \in {"message", "execute", "consume"}

(* The transactions that were counted and have ended.                      *)
Finished == IF InMessage THEN fin.count - 1 ELSE fin.count

(* Ledgers s and t hold the same for the first n transactions.             *)
Agree(s, t, n) == \A i \in 0..(n - 1) : s.gas[i] = t.gas[i] /\ s.receipts[i] = t.receipts[i]

(* In ledger s transaction i is assumed to fail and to take all its gas.   *)
Assumed(s, i) == s.gas[i] = tx.gas /\ s.receipts[i] \in Receipt /\ ~s.receipts[i].ok

(* The cache, between the steps of a transaction.                          *)
CacheTold ==
    /\ pc \in {"validate", "fee", "signature", "sequence", "setup"} => Agree(ctx, fin, fin.count)
    /\ pc = "emit" => Agree(ctx, fin, fin.count) /\ Assumed(ctx, fin.count)
    /\ InMessage => Assumed(fin, index)
    /\ pc \in {"message", "execute"} => Agree(ctx, fin, fin.count)
    /\ pc = "consume" =>
        /\ Agree(ctx, fin, index)
        /\ ctx.receipts[index] \in Receipt
        /\ ctx.receipts[index].cumulative = Total(ctx.gas, index + 1)

(* What has ended is told, what has not is assumed to fail.                *)
RInv ==
    /\ fin.logs \in [Idx -> Nat] /\ ctx.logs \in [Idx -> Nat]
    /\ \A i \in 0..(fin.count - 1) : fin.receipts[i] \in Receipt
    /\ Told(fin, Finished, results)
    /\ CacheTold

(***************************************************************************)
(* The results and a ledger.                                               *)
(***************************************************************************)

(* What is recorded for the first n transactions is all that is told.      *)
LEMMA ToldKept ==
    ASSUME NEW s, NEW t, NEW n \in Nat, NEW res, Told(s, n, res), Agree(t, s, n)
    PROVE  Told(t, n, res)
<1>1. ASSUME NEW r, Recorded(s, n, r) PROVE Recorded(t, n, r)
  <2> SUFFICES ASSUME r.index # NoIndex PROVE Recorded(t, n, r)
    BY DEF Recorded
  <2> DEFINE i == r.index
  <2>1. i \in 0..(n - 1)
    BY <1>1 DEF Recorded
  <2>2. i \in Nat /\ i + 1 \in Nat /\ \A j \in 0..((i + 1) - 1) : t.gas[j] = s.gas[j]
    BY <2>1 DEF Agree
  <2>3. Total(t.gas, i + 1) = Total(s.gas, i + 1)
    BY <2>2, TotalFrame
  <2>4. t.gas[i] = s.gas[i] /\ t.receipts[i] = s.receipts[i]
    BY <2>1 DEF Agree
  <2> QED
    BY <1>1, <2>3, <2>4 DEF Recorded
<1> QED
  BY <1>1 DEF Told

(* One more result: not counted, or the next one that is.                  *)
LEMMA ToldAppend ==
    ASSUME NEW s, NEW n \in Nat, NEW m \in Nat, NEW S, NEW res \in Seq(S), NEW r,
           Told(s, n, res), Marked(r),
           \/ r.index = NoIndex /\ m = n
           \/ r.index = n /\ m = n + 1 /\ Recorded(s, n + 1, r)
    PROVE  Told(s, m, Append(res, r))
<1> DEFINE new == Append(res, r)
           L == Len(res)
<1>1. L \in Nat /\ Len(new) = L + 1 /\ new[L + 1] = r /\ \A p \in 1..L : new[p] = res[p]
  <2>1. res \in Seq(S \cup {r})
    OBVIOUS
  <2> QED
    BY <2>1
<1> HIDE DEF new
<1>2. \A k \in 0..L : Counted(new, k) = Counted(res, k)
  BY <1>1 DEF Counted
<1>3. Counted(new, L + 1) = IF r.index = NoIndex THEN Counted(res, L) ELSE Counted(res, L) \cup {L + 1}
  BY <1>1 DEF Counted
<1>4. IsFiniteSet(Counted(res, L)) /\ L + 1 \notin Counted(res, L)
  <2>1. Counted(res, L) \subseteq 1..L
    BY DEF Counted
  <2>2. 1 \in Int /\ L \in Int /\ L + 1 \notin 1..L
    BY <1>1
  <2>3. IsFiniteSet(1..L)
    BY ONLY <2>2, FS_Interval
  <2> QED
    BY ONLY <2>1, <2>2, <2>3, FS_Subset
<1>5. Cardinality(Counted(new, Len(new))) = m
  <2>1. Cardinality(Counted(res, L)) = n
    BY DEF Told
  <2>2. CASE r.index = NoIndex /\ m = n
    BY <1>1, <1>3, <2>1, <2>2
  <2>3. CASE r.index = n /\ m = n + 1
    <3>1. Counted(new, Len(new)) = Counted(res, L) \cup {L + 1}
      BY <1>1, <1>3, <2>3 DEF NoIndex
    <3> QED
      BY <1>4, <2>1, <2>3, <3>1, FS_AddElement, ZenonT(60)
  <2> QED
    BY <2>2, <2>3
<1>6. ASSUME NEW p \in 1..L
      PROVE  /\ Marked(new[p]) /\ Recorded(s, m, new[p])
             /\ new[p].index # NoIndex => new[p].index = Cardinality(Counted(new, p - 1))
  <2>1. /\ Marked(res[p]) /\ Recorded(s, n, res[p]) /\ new[p] = res[p]
        /\ res[p].index # NoIndex => res[p].index = Cardinality(Counted(res, p - 1))
    BY <1>1 DEF Told
  <2>2. Counted(new, p - 1) = Counted(res, p - 1)
    BY <1>1, <1>2
  <2>3. 0..(n - 1) \subseteq 0..(m - 1)
    OBVIOUS
  <2>4. Recorded(s, m, res[p])
    BY <2>1, <2>3 DEF Recorded
  <2> QED
    BY <2>1, <2>2, <2>4
<1>7. /\ Marked(new[L + 1]) /\ Recorded(s, m, new[L + 1])
      /\ new[L + 1].index # NoIndex => new[L + 1].index = Cardinality(Counted(new, (L + 1) - 1))
  <2>1. (L + 1) - 1 = L /\ Counted(new, L) = Counted(res, L) /\ Cardinality(Counted(res, L)) = n
    BY <1>1, <1>2 DEF Told
  <2> QED
    BY <1>1, <2>1 DEF Recorded
<1>8. Told(s, m, new)
  BY <1>1, <1>5, <1>6, <1>7 DEF Told
<1> QED
  BY <1>8 DEF new

(* A block without results yet.                                            *)
LEMMA ToldNone ==
    ASSUME NEW s
    PROVE  Told(s, 0, <<>>)
<1>1. Counted(<<>>, 0) = {}
  BY DEF Counted
<1> QED
  BY <1>1, FS_EmptySet DEF Told

(***************************************************************************)
(* The steps of a block.                                                   *)
(***************************************************************************)

(* The ledgers hold the same for the transactions of the block.            *)
Same(s, t) == s.count = t.count /\ s.gas = t.gas /\ s.logs = t.logs /\ s.receipts = t.receipts

(* A step that leaves the transient store alone.                           *)
LEMMA PassTold ==
    ASSUME RInv, UNCHANGED <<fin, tx, index, results>>, Same(ctx', ctx),
           <<pc, pc'>> \in {<<"validate", "fee">>, <<"fee", "signature">>, <<"signature", "sequence">>,
                            <<"sequence", "setup">>, <<"message", "execute">>}
    PROVE  RInv'
<1>1. Told(fin, Finished, results)'
  <2>1. Finished' = Finished
    BY DEF Finished, InMessage
  <2> QED
    BY <2>1 DEF RInv, Told
<1>2. CacheTold'
  BY DEF RInv, CacheTold, Agree, Assumed, Same, InMessage
<1> QED
  BY <1>1, <1>2 DEF RInv, Same

(* Between transactions.                                                   *)
LEMMA IdleTold ==
    ASSUME pc' = "idle", fin'.logs \in [Idx -> Nat], ctx'.logs \in [Idx -> Nat],
           \A i \in 0..(fin'.count - 1) : fin'.receipts[i] \in Receipt,
           Told(fin', fin'.count, results')
    PROVE  RInv'
<1>1. Finished' = fin'.count
  BY DEF Finished, InMessage
<1>2. CacheTold'
  BY DEF CacheTold, InMessage
<1> QED
  BY <1>1, <1>2 DEF RInv

(* A transaction that was not counted ends.                                *)
LEMMA UncountedTold ==
    ASSUME FInv, RInv, ~InMessage, pc' = "idle", Same(fin', fin), ctx'.logs \in [Idx -> Nat],
           NEW r, r.index = NoIndex, Marked(r), results' = Append(results, r)
    PROVE  RInv'
<1>1. fin.count \in Nat /\ Told(fin, fin.count, results) /\ \E S : results \in Seq(S)
  BY DEF FInv, Books, HasBooks, RInv, Finished
<1>2. Told(fin, fin.count, results')
  BY <1>1, ToldAppend
<1>3. Agree(fin', fin, fin.count) /\ fin'.count = fin.count
  BY DEF Same, Agree
<1>4. Told(fin', fin'.count, results')
  BY <1>1, <1>2, <1>3, ToldKept
<1>5. fin'.logs \in [Idx -> Nat] /\ \A i \in 0..(fin'.count - 1) : fin'.receipts[i] \in Receipt
  BY DEF Same, RInv
<1> QED
  BY <1>4, <1>5, IdleTold

(* The ante handler fails.                                                 *)
LEMMA RejectTold ==
    ASSUME FInv, RInv, pc \in {"validate", "fee", "signature"}, RejectTx
    PROVE  RInv'
<1> DEFINE r == Result(tx, TRUE, FALSE, NoIndex, NoReceipt)
<1>1. /\ fin' = fin /\ pc' = "idle" /\ ctx' = fin' /\ results' = Append(results, r)
  BY DEF RejectTx, EndTx
<1>2. r.index = NoIndex /\ Marked(r)
  BY DEF Result, Marked
<1>3. ~InMessage /\ Same(fin', fin) /\ ctx'.logs \in [Idx -> Nat]
  BY <1>1 DEF InMessage, Same, RInv
<1> HIDE DEF r
<1> QED
  BY <1>1, <1>2, <1>3, UncountedTold

(* A message that fails leaves the failure the ante handler assumed.       *)
LEMMA FailTold ==
    ASSUME FInv, RInv, InMessage, NEW gas, FailMessage(gas)
    PROVE  RInv'
<1> DEFINE r == Result(tx, TRUE, FALSE, index, NoReceipt)
<1>1. /\ fin' = fin /\ pc' = "idle" /\ ctx' = fin' /\ results' = Append(results, r)
  BY DEF FailMessage, EndTx
<1>2. /\ index \in Nat /\ fin.count = index + 1 /\ fin.gas[index] \in Nat
      /\ \E S : results \in Seq(S)
  <2>1. index \in Idx /\ index = fin.count - 1 /\ fin.count \in Nat /\ fin.gas \in [Idx -> Nat]
        /\ \E S : results \in Seq(S)
    BY DEF FInv, Books, HasBooks, Counts, InMessage
  <2> QED
    BY <2>1, BlockFlowAssumption DEF Idx
<1>3. Told(fin, index, results) /\ Assumed(fin, index)
  BY <1>2 DEF RInv, Finished, CacheTold
<1>4. /\ r.index = index /\ r.tx = tx /\ r.receipt = NoReceipt /\ r.eth = TRUE /\ r.ok = FALSE
  BY DEF Result
<1> HIDE DEF r
<1>5. Marked(r) /\ Recorded(fin, index + 1, r)
  <2>1. index # NoIndex /\ index \in 0..((index + 1) - 1)
    BY <1>2 DEF NoIndex
  <2>2. Marked(r)
    BY <1>4, <2>1, Zenon DEF Marked
  <2>3. ~fin.receipts[index].ok /\ fin.gas[index] = tx.gas
    BY <1>3, Zenon DEF Assumed
  <2>4. Recorded(fin, index + 1, r)
    BY <1>2, <1>4, <2>1, <2>3, Zenon DEF Recorded
  <2> QED
    BY <2>2, <2>4
<1>6. Told(fin, index + 1, results')
  BY <1>1, <1>2, <1>3, <1>4, <1>5, ToldAppend
<1>7. Told(fin', fin'.count, results')
  BY <1>1, <1>2, <1>6
<1> QED
  BY <1>1, <1>7, IdleTold DEF RInv

(* The transaction is counted, and assumed to fail.                        *)
LEMMA SetupExecutionContextTold ==
    ASSUME NInv, FInv, RInv, SetupExecutionContext
    PROVE  RInv'
<1> DEFINE i == fin.count
<1>1. /\ pc = "setup" /\ pc' = "emit" /\ UNCHANGED <<fin, tx, index, results>>
  BY DEF SetupExecutionContext, Advance
<1>2. /\ ctx.count = i /\ i \in Nat /\ HasBooks(ctx) /\ Len(results) \in Nat
      /\ i <= Len(results) /\ Len(results) < MaxTxs /\ MaxTxs \in Nat
  BY <1>1, BlockFlowAssumption, SMTT(60) DEF FInv, Books, HasBooks, Counts, Stages
<1>3. i \in Idx /\ 0..(i - 1) \subseteq Idx
  BY ONLY <1>2 DEF Idx
<1> DEFINE counted == [ctx EXCEPT !.count = @ + 1]
           r == [ok |-> FALSE, cumulative |-> GetCumulativeLogCountTransient(counted)]
<1>4. /\ counted.count = i + 1 /\ CurrentIdx(counted) = i /\ counted.logs = ctx.logs
      /\ GetTxCountTransient(counted) = i + 1
  <2>1. counted.count = i + 1 /\ counted.logs = ctx.logs
    BY <1>2 DEF NInv, Shapes, IsLedger
  <2> HIDE DEF counted
  <2>2. GetTxCountTransient(counted) = i + 1
    BY <1>2, <2>1 DEF GetTxCountTransient, AtLeast
  <2> QED
    BY <1>2, <2>1, <2>2, IndexFacts, SMTT(60)
<1>5. r \in Receipt
  <2>1. ctx.logs \in [Idx -> Nat]
    BY DEF RInv
  <2>2. i + 1 \in Nat /\ 0..((i + 1) - 1) \subseteq Idx
    BY ONLY <1>2 DEF Idx
  <2>3. \A j \in 0..((i + 1) - 1) : ctx.logs[j] \in Nat
    BY ONLY <2>1, <2>2
  <2>4. Total(ctx.logs, i + 1) \in Nat
    BY ONLY <2>2, <2>3, TotalType
  <2> QED
    BY <1>4, <2>4 DEF GetCumulativeLogCountTransient, Receipt
<1>6. ctx' = [counted EXCEPT !.gas[i] = tx.gas, !.receipts[i] = r]
  BY <1>4, ZenonT(60) DEF SetupExecutionContext
<1>7. r.ok = FALSE
  OBVIOUS
<1> HIDE DEF r
<1>8. /\ ctx'.logs = ctx.logs /\ ctx'.gas = [ctx.gas EXCEPT ![i] = tx.gas]
      /\ ctx'.receipts = [ctx.receipts EXCEPT ![i] = r]
  BY <1>2, <1>6 DEF NInv, Shapes, IsLedger
<1>9. /\ ctx'.gas[i] = tx.gas /\ ctx'.receipts[i] = r
      /\ \A j \in 0..(i - 1) : ctx'.gas[j] = ctx.gas[j] /\ ctx'.receipts[j] = ctx.receipts[j]
  BY ONLY <1>2, <1>3, <1>8 DEF HasBooks
<1>10. Agree(ctx', fin', fin'.count) /\ Assumed(ctx, fin.count)'
  <2>1. Agree(ctx, fin, fin.count)
    BY <1>1 DEF RInv, CacheTold
  <2>2. Assumed(ctx, fin.count)'
    BY <1>1, <1>5, <1>7, <1>9, Zenon DEF Assumed
  <2> QED
    BY <1>1, <1>9, <2>1, <2>2 DEF Agree
<1>11. CacheTold'
  BY <1>1, <1>10 DEF CacheTold, InMessage
<1>12. Finished' = Finished
  BY <1>1 DEF Finished, InMessage
<1> QED
  BY <1>1, <1>8, <1>11, <1>12 DEF RInv

(* The cache of the ante handler is written.                               *)
LEMMA EmitEventTold ==
    ASSUME FInv, RInv, EmitEvent
    PROVE  RInv'
<1>1. /\ pc = "emit" /\ pc' = "message" /\ fin' = ctx /\ index' = CurrentIdx(ctx)
      /\ UNCHANGED <<ctx, tx, results>>
  BY DEF EmitEvent
<1>2. /\ ctx.count = fin.count + 1 /\ fin.count \in Nat /\ ctx.count \in Nat
  BY <1>1 DEF FInv, Books, HasBooks, Counts
<1>3. index' = fin.count
  BY <1>1, <1>2, IndexFacts
<1>4. Agree(ctx, fin, fin.count) /\ Assumed(ctx, fin.count) /\ Told(fin, fin.count, results)
  BY <1>1 DEF RInv, CacheTold, Finished, InMessage
<1>5. Told(ctx, fin.count, results)
  BY <1>2, <1>4, ToldKept
<1>6. Finished' = fin.count
  BY <1>1, <1>2 DEF Finished, InMessage
<1>7. \A i \in 0..(ctx.count - 1) : ctx.receipts[i] \in Receipt
  <2>1. ASSUME NEW i \in 0..(fin.count - 1) PROVE ctx.receipts[i] \in Receipt
    BY <1>4 DEF Agree, RInv
  <2>2. ctx.receipts[fin.count] \in Receipt
    BY <1>4 DEF Assumed
  <2> QED
    BY <1>2, <2>1, <2>2
<1>8. CacheTold'
  <2>1. Assumed(fin, index)'
    BY <1>1, <1>3, <1>4, Zenon DEF Assumed
  <2>2. Agree(ctx, fin, fin.count)'
    BY <1>1 DEF Agree
  <2> QED
    BY <1>1, <2>1, <2>2 DEF CacheTold, InMessage
<1> QED
  BY <1>1, <1>5, <1>6, <1>7, <1>8 DEF RInv

(* The outcome is recorded over the assumed one.                           *)
LEMMA ApplyMessageTold ==
    ASSUME NInv, FInv, RInv, pc = "execute", NEW gas \in 1..tx.gas, NEW n \in 0..MaxLogs,
           NEW ok \in BOOLEAN, ApplyMessage(gas, n, ok)
    PROVE  RInv'
<1> DEFINE s == TransitionDb(gas, ok)
           r == [ok |-> ok, cumulative |-> gas + Total(s.gas, CurrentIdx(s))]
<1>1. /\ s.count = ctx.count /\ s.gas = ctx.gas /\ s.receipts = ctx.receipts
      /\ s.logs = ctx.logs /\ IsLedger(s)
  BY TransitionDbPays
<1>2. ctx' = [s EXCEPT !.logs[CurrentIdx(s)] = n, !.gas[CurrentIdx(s)] = gas,
                       !.receipts[CurrentIdx(s)] = r]
  BY ZenonT(60) DEF ApplyMessage
<1>3. pc' = "consume" /\ UNCHANGED <<fin, tx, index, results>>
  BY DEF ApplyMessage
<1>4. r.ok = ok /\ r.cumulative = gas + Total(s.gas, CurrentIdx(s)) /\ r = [ok |-> r.ok, cumulative |-> r.cumulative]
  OBVIOUS
<1> HIDE DEF s, r
<1>5. /\ ctx.count = fin.count /\ index = fin.count - 1 /\ index \in Idx /\ HasBooks(ctx)
      /\ fin.count \in Nat
  BY DEF FInv, Books, HasBooks, Counts
<1>6. index \in Nat /\ fin.count >= 1 /\ 0..(index - 1) \subseteq Idx /\ 0..(index - 1) \subseteq 0..(fin.count - 1)
  BY ONLY <1>5, BlockFlowAssumption DEF Idx
<1>7. CurrentIdx(s) = index
  BY <1>1, <1>5, <1>6, IndexFacts, SMTT(60)
<1>8. /\ ctx'.logs = [ctx.logs EXCEPT ![index] = n]
      /\ ctx'.gas = [ctx.gas EXCEPT ![index] = gas]
      /\ ctx'.receipts = [ctx.receipts EXCEPT ![index] = r]
  <2>1. PICK l, g, q : /\ l = [s.logs EXCEPT ![index] = n] /\ g = [s.gas EXCEPT ![index] = gas]
                      /\ q = [s.receipts EXCEPT ![index] = r]
    BY ZenonT(60)
  <2>2. ctx' = [s EXCEPT !.logs = l, !.gas = g, !.receipts = q]
    BY ONLY <1>2, <1>7, <2>1, SMTT(60)
  <2> QED
    BY ONLY <1>1, <2>1, <2>2 DEF IsLedger
<1>9. gas \in Nat /\ n \in Nat
  BY PriceFacts, BlockFlowAssumption, SMTT(60)
<1>10. ctx'.logs \in [Idx -> Nat]
  <2>1. ctx.logs \in [Idx -> Nat]
    BY DEF RInv
  <2> QED
    BY ONLY <1>5, <1>8, <1>9, <2>1
<1>11. /\ ctx'.gas[index] = gas /\ ctx'.receipts[index] = r
       /\ \A j \in 0..(index - 1) : ctx'.gas[j] = ctx.gas[j] /\ ctx'.receipts[j] = ctx.receipts[j]
  BY ONLY <1>5, <1>6, <1>8 DEF HasBooks
<1>12. r.cumulative = Total(ctx'.gas, index + 1) /\ r \in Receipt
  <2>1. Total(ctx'.gas, index) = Total(ctx.gas, index)
    BY ONLY <1>6, <1>11, TotalFrame
  <2>2. Total(ctx'.gas, index + 1) = Total(ctx'.gas, index) + ctx'.gas[index]
    BY ONLY <1>6, TotalStep
  <2>3. \A j \in 0..(index - 1) : ctx.gas[j] \in Nat
    BY ONLY <1>5, <1>6 DEF HasBooks
  <2>4. Total(ctx.gas, index) \in Nat
    BY ONLY <1>6, <2>3, TotalType
  <2>5. r.cumulative = gas + Total(ctx.gas, index)
    BY <1>1, <1>4, <1>7, Zenon
  <2>6. r.cumulative = Total(ctx'.gas, index + 1) /\ r.cumulative \in Nat
    BY ONLY <1>9, <1>11, <2>1, <2>2, <2>4, <2>5
  <2>7. r \in Receipt
    BY ONLY <1>4, <2>6, ok \in BOOLEAN DEF Receipt
  <2> QED
    BY <2>6, <2>7
<1>13. Agree(ctx', fin, index) /\ Assumed(fin, index)
  <2>1. Agree(ctx, fin, fin.count) /\ Assumed(fin, index)
    BY DEF RInv, CacheTold, InMessage
  <2> QED
    BY <1>6, <1>11, <2>1 DEF Agree
<1>14. CacheTold'
  <2>1. Assumed(fin, index)'
    BY <1>3, <1>13, Zenon DEF Assumed
  <2>2. Agree(ctx', fin', index')
    BY <1>3, <1>13
  <2>3. ctx'.receipts[index'] \in Receipt /\ ctx'.receipts[index'].cumulative = Total(ctx'.gas, index' + 1)
    BY <1>3, <1>11, <1>12, Zenon
  <2> QED
    BY <1>3, <2>1, <2>2, <2>3 DEF CacheTold, InMessage
<1>15. Finished' = Finished
  BY <1>3 DEF Finished, InMessage
<1> QED
  BY <1>3, <1>10, <1>14, <1>15 DEF RInv

(* The cache of the message is written, or dropped for want of block gas.  *)
LEMMA ConsumeBlockGasTold ==
    ASSUME NInv, FInv, RInv, ConsumeBlockGas
    PROVE  RInv'
<1>1. pc = "consume" /\ InMessage
  BY DEF ConsumeBlockGas, InMessage
<1>2. CASE FailMessage(used)
  BY <1>1, <1>2, FailTold
<1> DEFINE e == [ok |-> ctx.receipts[index].ok, gasUsed |-> used,
                 cumulative |-> ctx.receipts[index].cumulative]
           r == Result(tx, TRUE, TRUE, index, e)
<1>3. CASE fin' = ctx /\ EndTx(TRUE, index, e)
  <2>1. pc' = "idle" /\ fin' = ctx /\ ctx' = fin' /\ results' = Append(results, r)
    BY <1>3 DEF EndTx
  <2>2. /\ index \in Nat /\ ctx.count = index + 1 /\ fin.count = index + 1
        /\ ctx.gas[index] = used /\ used \in Nat /\ \E S : results \in Seq(S)
    BY <1>1, BlockFlowAssumption, SMTT(60) DEF FInv, Books, HasBooks, Counts, Balances, Idx, NInv, Shapes
  <2>3. /\ Told(fin, index, results) /\ Agree(ctx, fin, index)
        /\ ctx.receipts[index] \in Receipt
        /\ ctx.receipts[index].cumulative = Total(ctx.gas, index + 1)
    BY <1>1, <2>2 DEF RInv, Finished, CacheTold
  <2>4. /\ r.index = index /\ r.receipt = e /\ r.eth = TRUE /\ r.ok = TRUE
        /\ e.ok = ctx.receipts[index].ok /\ e.gasUsed = used
        /\ e.cumulative = ctx.receipts[index].cumulative
    BY DEF Result
  <2>5. ctx.receipts[index].ok \in BOOLEAN /\ ctx.receipts[index].cumulative \in Nat
    BY <2>3 DEF Receipt
  <2>6. e # NoReceipt
    <3>1. e \in EventReceipt
      BY <2>2, <2>5 DEF EventReceipt
    <3> QED
      BY <3>1, BlockFlowAssumption
  <2> HIDE DEF e, r
  <2>7. index # NoIndex /\ index \in 0..((index + 1) - 1)
    BY <2>2 DEF NoIndex
  <2>8. Marked(r)
    BY <2>4, <2>6, <2>7, Zenon DEF Marked
  <2>9. Recorded(ctx, index + 1, r)
    BY <2>2, <2>3, <2>4, <2>5, <2>6, <2>7, Zenon DEF Recorded
  <2>10. Told(ctx, index, results)
    BY <2>2, <2>3, ToldKept
  <2>11. Told(ctx, index + 1, results')
    BY <2>1, <2>2, <2>4, <2>8, <2>9, <2>10, ToldAppend, SMTT(60)
  <2>12. \A i \in 0..(ctx.count - 1) : ctx.receipts[i] \in Receipt
    <3>1. ASSUME NEW i \in 0..(index - 1) PROVE ctx.receipts[i] \in Receipt
      BY <2>2, <2>3 DEF Agree, RInv
    <3> QED
      BY <2>2, <2>3, <3>1
  <2>13. ctx.logs \in [Idx -> Nat]
    BY DEF RInv
  <2> QED
    BY <2>1, <2>2, <2>11, <2>12, <2>13, IdleTold
<1> QED
  BY <1>2, <1>3, ZenonT(60) DEF ConsumeBlockGas

(* The handlers, from their steps.                                         *)
LEMMA AnteHandlerTold ==
    ASSUME NInv, FInv, RInv, AnteHandler
    PROVE  RInv'
<1>1. ASSUME NEW t, DropTx(t) PROVE RInv'
  <2> DEFINE r == Result(t, TRUE, FALSE, NoIndex, NoReceipt)
  <2>1. pc = "idle" /\ UNCHANGED <<fin, ctx, pc>> /\ results' = Append(results, r)
    BY <1>1 DEF DropTx, runVars
  <2>2. r.index = NoIndex /\ Marked(r)
    BY DEF Result, Marked
  <2> HIDE DEF r
  <2>3. ~InMessage /\ pc' = "idle" /\ Same(fin', fin) /\ ctx'.logs \in [Idx -> Nat]
    BY <2>1 DEF InMessage, Same, RInv
  <2> QED
    BY <2>1, <2>2, <2>3, UncountedTold
<1>2. ASSUME NEW t, SetupContext(t) PROVE RInv'
  <2>1. /\ pc = "idle" /\ pc' = "validate" /\ UNCHANGED <<fin, results>>
        /\ ctx' = [fin EXCEPT !.nonceFlag = FALSE, !.paidFlag = FALSE]
    BY <1>2 DEF SetupContext
  <2>2. Same(ctx', fin)
    BY <2>1 DEF NInv, Shapes, IsLedger, Same
  <2>3. Finished' = Finished /\ CacheTold'
    BY <2>1, <2>2 DEF Finished, InMessage, CacheTold, Agree, Same
  <2> QED
    BY <2>1, <2>2, <2>3 DEF RInv, Same
<1>3. CASE ValidateBasic
  <2>1. CASE RejectTx
    BY <1>3, <2>1, RejectTold DEF ValidateBasic
  <2>2. CASE Advance("fee") /\ UNCHANGED ctx
    BY <1>3, <2>2, PassTold DEF ValidateBasic, Advance, Same
  <2> QED
    BY <1>3, <2>1, <2>2 DEF ValidateBasic
<1>4. CASE DeductFee
  <2>1. CASE RejectTx
    BY <1>4, <2>1, RejectTold DEF DeductFee
  <2>2. CASE Advance("signature")
              /\ ctx' = [ctx EXCEPT !.paidFlag = TRUE,
                                    !.bal[tx.from] = @ - EthTxEffectiveFee(tx),
                                    !.pool = @ + EthTxEffectiveFee(tx)]
    <3>1. PICK b, q : ctx' = [ctx EXCEPT !.paidFlag = TRUE, !.bal = b, !.pool = q]
      BY <2>2, ZenonT(60)
    <3>2. Same(ctx', ctx)
      BY <3>1 DEF NInv, Shapes, IsLedger, Same
    <3> QED
      BY <1>4, <2>2, <3>2, PassTold DEF DeductFee, Advance
  <2> QED
    BY <1>4, <2>1, <2>2 DEF DeductFee
<1>5. CASE SigVerification
  <2>1. CASE RejectTx
    BY <1>5, <2>1, RejectTold DEF SigVerification
  <2>2. CASE Advance("sequence") /\ UNCHANGED ctx
    BY <1>5, <2>2, PassTold DEF SigVerification, Advance, Same
  <2> QED
    BY <1>5, <2>1, <2>2 DEF SigVerification
<1>6. CASE IncrementSequence
  <2>1. PICK q : ctx' = [ctx EXCEPT !.seq = q, !.nonceFlag = TRUE]
    BY <1>6, ZenonT(60) DEF IncrementSequence
  <2>2. Same(ctx', ctx)
    BY <2>1 DEF NInv, Shapes, IsLedger, Same
  <2>3. pc = "sequence" /\ pc' = "setup" /\ UNCHANGED <<fin, tx, index, results>>
    BY <1>6 DEF IncrementSequence, Advance
  <2> QED
    BY <2>2, <2>3, PassTold
<1> QED
  BY <1>1, <1>2, <1>3, <1>4, <1>5, <1>6, SetupExecutionContextTold, EmitEventTold, SMTT(60) DEF AnteHandler

LEMMA EthereumTxTold ==
    ASSUME NInv, FInv, RInv, EthereumTx
    PROVE  RInv'
<1>1. CASE RestoreNonce
  <2>1. CASE FailMessage(0)
    BY <1>1, <2>1, FailTold DEF RestoreNonce, InMessage
  <2>2. CASE /\ Advance("execute")
             /\ ctx' = IF ctx.nonceFlag
                       THEN [ctx EXCEPT !.seq[tx.from] = @ - 1, !.nonceFlag = FALSE]
                       ELSE ctx
    <3>1. PICK q, b : ctx' = [ctx EXCEPT !.seq = q, !.nonceFlag = b] \/ ctx' = ctx
      BY <2>2, ZenonT(60)
    <3>2. Same(ctx', ctx)
      BY <3>1, ZenonT(60) DEF NInv, Shapes, IsLedger, Same
    <3>3. pc = "message" /\ pc' = "execute" /\ UNCHANGED <<fin, tx, index, results>>
      BY <1>1, <2>2 DEF RestoreNonce, Advance
    <3> QED
      BY <3>2, <3>3, PassTold
  <2> QED
    BY <1>1, <2>1, <2>2 DEF RestoreNonce
<1>2. CASE CoreError
  BY <1>2, FailTold DEF CoreError, InMessage
<1>3. CASE ExecutionPanics
  BY <1>3, FailTold DEF ExecutionPanics, InMessage
<1> QED
  BY <1>1, <1>2, <1>3, ApplyMessageTold, ConsumeBlockGasTold DEF EthereumTx

LEMMA CosmosTxTold ==
    ASSUME NInv, FInv, RInv, NEW a, NEW fee, NEW gas, CosmosTx(a, fee, gas)
    PROVE  RInv'
<1>1. /\ pc = "idle" /\ pc' = "idle"
      /\ \E ok \in BOOLEAN : results' = Append(results, Result(NoTx, FALSE, ok, NoIndex, NoReceipt))
      /\ \/ UNCHANGED <<fin, ctx>>
         \/ /\ fin' = [fin EXCEPT !.seq[a] = @ + 1, !.bal[a] = @ - fee, !.pool = @ + fee]
            /\ ctx' = fin'
  BY Zenon DEF CosmosTx
<1>2. PICK ok \in BOOLEAN : results' = Append(results, Result(NoTx, FALSE, ok, NoIndex, NoReceipt))
  BY <1>1, Zenon
<1> DEFINE r == Result(NoTx, FALSE, ok, NoIndex, NoReceipt)
<1>3. r.index = NoIndex /\ Marked(r)
  BY DEF Result, Marked
<1>4. results' = Append(results, r)
  BY <1>2
<1> HIDE DEF r
<1>5. Same(fin', fin) /\ ctx'.logs \in [Idx -> Nat]
  <2>1. CASE UNCHANGED <<fin, ctx>>
    BY <2>1 DEF Same, RInv
  <2>2. CASE fin' = [fin EXCEPT !.seq[a] = @ + 1, !.bal[a] = @ - fee, !.pool = @ + fee] /\ ctx' = fin'
    <3>1. PICK q, b, p : fin' = [fin EXCEPT !.seq = q, !.bal = b, !.pool = p]
      BY <2>2, ZenonT(60)
    <3>2. Same(fin', fin)
      BY <3>1 DEF NInv, Shapes, IsLedger, Same
    <3> QED
      BY <2>2, <3>2 DEF Same, RInv
  <2> QED
    BY <1>1, <2>1, <2>2
<1>6. ~InMessage
  BY <1>1 DEF InMessage
<1> QED
  BY <1>1, <1>3, <1>4, <1>5, <1>6, UncountedTold, Zenon

(* The transient store of a new block.                                     *)
LEMMA FreshTold ==
    ASSUME NEW s, IsLedger(s)
    PROVE  LET t == FreshBlock(s)
           IN  /\ t.count = 0 /\ t.logs \in [Idx -> Nat]
               /\ \A i \in 0..(t.count - 1) : t.receipts[i] \in Receipt
               /\ Told(t, t.count, <<>>)
<1> DEFINE t == FreshBlock(s)
<1>1. t.count = 0 /\ t.logs = [i \in Idx |-> 0]
  BY DEF FreshBlock, IsLedger
<1> HIDE DEF t
<1>2. t.logs \in [Idx -> Nat]
  BY <1>1
<1>3. \A i \in 0..(t.count - 1) : FALSE
  BY <1>1
<1> QED
  BY <1>1, <1>2, <1>3, ToldNone DEF t

LEMMA EndBlockTold ==
    ASSUME NInv, EndBlock
    PROVE  RInv'
<1>1. pc' = "idle" /\ fin' = FreshBlock(fin) /\ ctx' = fin' /\ results' = <<>> /\ IsLedger(fin)
  BY DEF EndBlock, NInv, Shapes
<1> QED
  BY <1>1, FreshTold, IdleTold

LEMMA InitTold == Init => RInv
<1> SUFFICES ASSUME Init PROVE RInv
  OBVIOUS
<1>1. pc = "idle" /\ fin = FreshBlock(fin) /\ ctx = fin /\ results = <<>> /\ IsLedger(fin)
  BY InitRight, BlockFlowAssumption DEF Init, NInv, Shapes
<1>2. /\ fin.count = 0 /\ fin.logs \in [Idx -> Nat]
      /\ \A i \in 0..(fin.count - 1) : fin.receipts[i] \in Receipt
      /\ Told(fin, fin.count, results)
  BY <1>1, FreshTold
<1>3. Finished = fin.count /\ CacheTold
  BY <1>1 DEF Finished, InMessage, CacheTold
<1> QED
  BY <1>1, <1>2, <1>3 DEF RInv

LEMMA NextTold ==
    ASSUME NInv, FInv, RInv, [Next]_vars
    PROVE  RInv'
<1>1. CASE UNCHANGED vars
  <2>1. UNCHANGED <<fin, ctx, pc, tx, index, results>>
    BY <1>1, SMTT(60) DEF vars, runVars
  <2>2. Finished' = Finished /\ CacheTold'
    BY <2>1 DEF RInv, Finished, InMessage, CacheTold, Agree, Assumed
  <2> QED
    BY <2>1, <2>2 DEF RInv
<1> QED
  BY <1>1, AnteHandlerTold, EthereumTxTold, CosmosTxTold, EndBlockTold, SMTT(60) DEF Next

LEMMA BlockInductive ==
    ASSUME MaxGas > 1
    PROVE  Spec => [](NInv /\ FInv /\ RInv)
<1>1. NInv /\ FInv /\ [Next]_vars => FInv'
  BY NextBooks
<1>2. NInv /\ FInv /\ RInv /\ [Next]_vars => RInv'
  BY NextTold
<1> QED
  BY <1>1, <1>2, Inductive, InitBooks, InitTold, PTL DEF Spec

(* Between transactions every counted transaction has a receipt, so that   *)
(* EndBlock does not panic, and the receipt tells how it ended and how     *)
(* much gas was recorded up to it.                                         *)
THEOREM ReceiptsRight ==
    ASSUME MaxGas > 1
    PROVE  Spec => []ReceiptsTellOutcome
<1>1. FInv /\ RInv => ReceiptsTellOutcome
  <2> SUFFICES ASSUME FInv, RInv, pc = "idle"
               PROVE  /\ ReceiptsPresent
                      /\ \A r \in {results[p] : p \in 1..Len(results)} : r.index # NoIndex =>
                            LET receipt == fin.receipts[r.index]
                            IN  /\ r.index < fin.count
                                /\ receipt.ok <=> r.receipt # NoReceipt /\ r.receipt.ok
                                /\ r.receipt # NoReceipt => receipt.cumulative = Total(fin.gas, r.index + 1)
    BY DEF ReceiptsTellOutcome
  <2>1. fin.count \in Nat /\ Told(fin, fin.count, results)
    BY DEF FInv, Books, HasBooks, RInv, Finished, InMessage
  <2>2. ReceiptsPresent
    BY BlockFlowAssumption, SMTT(60) DEF RInv, ReceiptsPresent
  <2>3. ASSUME NEW p \in 1..Len(results), results[p].index # NoIndex
        PROVE  LET r == results[p]
                   receipt == fin.receipts[r.index]
               IN  /\ r.index < fin.count
                   /\ receipt.ok <=> r.receipt # NoReceipt /\ r.receipt.ok
                   /\ r.receipt # NoReceipt => receipt.cumulative = Total(fin.gas, r.index + 1)
    <3> DEFINE r == results[p]
    <3>1. Recorded(fin, fin.count, r)
      BY <2>1, SMTT(60) DEF Told
    <3> HIDE DEF r
    <3>2. r.index \in 0..(fin.count - 1)
      BY <2>3, <3>1 DEF Recorded, r
    <3>3. r.index < fin.count
      BY <2>1, <3>2
    <3>4. /\ fin.receipts[r.index].ok <=> r.receipt # NoReceipt /\ r.receipt.ok
          /\ r.receipt # NoReceipt => fin.receipts[r.index].cumulative = Total(fin.gas, r.index + 1)
      BY <2>3, <3>1, Zenon DEF Recorded, r
    <3> QED
      BY <3>3, <3>4 DEF r
  <2> QED
    BY <2>2, <2>3
<1> QED
  BY <1>1, BlockInductive, PTL

(***************************************************************************)
(* The indexer and the JSON-RPC backend count and sum again.               *)
(***************************************************************************)

(* They go over the transactions that were counted, under the same index,  *)
(* and report the gas on record.                                           *)
LEMMA IncludedCounted ==
    ASSUME FInv, RInv, pc = "idle", NEW p \in Positions
    PROVE  /\ Included(p) <=> results[p].index # NoIndex
           /\ Included(p) => /\ results[p].index \in 0..(fin.count - 1)
                             /\ results[p].index = Cardinality(Counted(results, p - 1))
                             /\ Failed(p) <=> ~fin.receipts[results[p].index].ok
                             /\ GasUsed(p) = fin.gas[results[p].index]
<1> DEFINE r == results[p]
<1>1. /\ Marked(r) /\ Recorded(fin, fin.count, r)
      /\ r.index # NoIndex => r.index = Cardinality(Counted(results, p - 1))
  BY DEF RInv, Finished, InMessage, Told, Positions
<1>2. Included(p) <=> ~(~r.ok /\ r.index = NoIndex) /\ r.eth
  BY DEF Included, TxWasDropped
<1>3. Failed(p) <=> ~r.ok \/ ~r.receipt.ok
  BY DEF Failed
<1>4. GasUsed(p) = IF r.receipt = NoReceipt THEN r.tx.gas ELSE r.receipt.gasUsed
  BY DEF GasUsed
<1> HIDE DEF r
<1>5. Included(p) <=> r.index # NoIndex
  BY <1>1, <1>2, Zenon DEF Marked
<1>6. ASSUME r.index # NoIndex
      PROVE  /\ r.index \in 0..(fin.count - 1)
             /\ Failed(p) <=> ~fin.receipts[r.index].ok
             /\ GasUsed(p) = fin.gas[r.index]
  <2>1. r.ok <=> r.receipt # NoReceipt
    BY <1>1, <1>6, Zenon DEF Marked
  <2>2. /\ r.index \in 0..(fin.count - 1)
        /\ r.receipt = NoReceipt => ~fin.receipts[r.index].ok /\ fin.gas[r.index] = r.tx.gas
        /\ r.receipt # NoReceipt => r.receipt.ok = fin.receipts[r.index].ok /\ fin.gas[r.index] = r.receipt.gasUsed
    BY <1>1, <1>6, Zenon DEF Recorded
  <2>3. CASE r.receipt = NoReceipt
    BY <1>3, <1>4, <2>1, <2>2, <2>3, Zenon
  <2>4. CASE r.receipt # NoReceipt
    BY <1>3, <1>4, <2>1, <2>2, <2>4, Zenon
  <2> QED
    BY <2>3, <2>4
<1> QED
  BY <1>1, <1>5, <1>6, SMTT(60) DEF r

(* Their sum over the transactions before p is the sum of what is recorded *)
(* under the indexes before that of p.                                     *)
LEMMA SumsAgree ==
    ASSUME FInv, RInv, pc = "idle", NEW p \in Positions, Included(p)
    PROVE  /\ SumGasUsed({q \in 1..(p - 1) : Included(q)}) = Total(fin.gas, results[p].index)
           /\ Total(fin.gas, results[p].index) \in Nat
<1> DEFINE L == Len(results)
           P == {q \in 1..(p - 1) : Included(q)}
           f == [i \in 0..(L - 1) |-> IF i + 1 \in P THEN GasUsed(i + 1) ELSE 0]
           C(k) == Counted(results, k)
<1>1. L \in Nat /\ p \in 1..L /\ p - 1 \in Nat /\ \A k \in 0..(p - 2) : k + 1 \in Positions
  <2>1. L \in Nat /\ Positions = 1..L
    BY DEF Positions, FInv, Books
  <2> HIDE DEF L
  <2> QED
    BY <2>1
<1>2. \A k \in 0..(p - 2) : C(k + 1) = IF Included(k + 1) THEN C(k) \cup {k + 1} ELSE C(k)
  <2> SUFFICES ASSUME NEW k \in 0..(p - 2)
               PROVE  C(k + 1) = IF Included(k + 1) THEN C(k) \cup {k + 1} ELSE C(k)
    OBVIOUS
  <2>1. Included(k + 1) <=> results[k + 1].index # NoIndex
    BY <1>1, IncludedCounted
  <2>2. k \in Nat /\ 1..(k + 1) = 1..k \cup {k + 1}
    BY <1>1
  <2>3. C(k + 1) = C(k) \cup {q \in {k + 1} : results[q].index # NoIndex}
    BY ONLY <2>2 DEF Counted
  <2> QED
    BY ONLY <2>1, <2>3, Zenon
<1>3. \A k \in 0..(p - 2) : Included(k + 1) =>
        /\ Cardinality(C(k)) \in Nat /\ fin.gas[Cardinality(C(k))] \in Nat
        /\ f[k] = fin.gas[Cardinality(C(k))]
  <2> SUFFICES ASSUME NEW k \in 0..(p - 2), Included(k + 1)
               PROVE  /\ Cardinality(C(k)) \in Nat /\ fin.gas[Cardinality(C(k))] \in Nat
                      /\ f[k] = fin.gas[Cardinality(C(k))]
    BY Zenon
  <2>1. /\ results[k + 1].index = Cardinality(Counted(results, (k + 1) - 1))
        /\ GasUsed(k + 1) = fin.gas[results[k + 1].index]
        /\ results[k + 1].index # NoIndex
    BY <1>1, IncludedCounted
  <2>2. (k + 1) - 1 = k /\ k \in 0..(L - 1) /\ k + 1 \in P
    BY <1>1
  <2>3. Recorded(fin, fin.count, results[k + 1])
    BY <1>1 DEF RInv, Finished, InMessage, Told, Positions
  <2>4. results[k + 1].index \in 0..(fin.count - 1) /\ fin.gas[results[k + 1].index] \in Nat
    BY <2>1, <2>3, Zenon DEF Recorded
  <2> QED
    BY <2>1, <2>2, <2>4
<1>4. \A k \in 0..(L - 1) : ~(k <= p - 2 /\ Included(k + 1)) => f[k] = 0
  BY <1>1
<1> HIDE DEF f
<1>5. \A k \in Nat : k <= L => Total(f, k) \in Nat
  <2> SUFFICES ASSUME NEW k \in Nat, k <= L PROVE Total(f, k) \in Nat
    OBVIOUS
  <2>1. \A j \in 0..(k - 1) : f[j] \in Nat
    BY <1>1, <1>3, <1>4
  <2> QED
    BY <2>1, TotalType
<1>6. \A k \in Nat : k <= L => IsFiniteSet(C(k)) /\ k + 1 \notin C(k)
  <2> SUFFICES ASSUME NEW k \in Nat PROVE IsFiniteSet(C(k)) /\ k + 1 \notin C(k)
    OBVIOUS
  <2>1. C(k) \subseteq 1..k
    BY DEF Counted
  <2>2. 1 \in Int /\ k \in Int /\ k + 1 \notin 1..k
    OBVIOUS
  <2>3. IsFiniteSet(1..k)
    BY ONLY <2>2, FS_Interval
  <2> QED
    BY ONLY <2>1, <2>2, <2>3, FS_Subset
<1> HIDE DEF C, P, L
(* Up to p, both sums take the same next term, or none.                    *)
<1>7. Total(f, p - 1) = Total(fin.gas, Cardinality(C(p - 1)))
  <2> DEFINE S == {k \in Nat : k <= p - 1 => Total(f, k) = Total(fin.gas, Cardinality(C(k)))}
  <2>1. 0 \in S
    <3>1. C(0) = {}
      BY DEF C, Counted
    <3> QED
      BY <3>1, FS_EmptySet, TotalZero
  <2>2. ASSUME NEW k \in Nat, k \in S PROVE k + 1 \in S
    <3> SUFFICES ASSUME k + 1 <= p - 1
                 PROVE  Total(f, k + 1) = Total(fin.gas, Cardinality(C(k + 1)))
      OBVIOUS
    <3>1. k \in 0..(p - 2) /\ k \in 0..(L - 1) /\ k <= L
      BY <1>1
    <3>2. Total(f, k) = Total(fin.gas, Cardinality(C(k))) /\ Total(f, k) \in Nat
      BY <1>1, <1>5, <2>2, <3>1
    <3>3. Total(f, k + 1) = Total(f, k) + f[k]
      BY TotalStep
    <3>4. CASE Included(k + 1)
      <4>1. Cardinality(C(k + 1)) = Cardinality(C(k)) + 1
        <5>1. C(k + 1) = C(k) \cup {k + 1} /\ IsFiniteSet(C(k)) /\ k + 1 \notin C(k)
          BY <1>2, <1>6, <3>1, <3>4, Zenon
        <5> QED
          BY ONLY <5>1, FS_AddElement
      <4>2. Cardinality(C(k)) \in Nat /\ f[k] = fin.gas[Cardinality(C(k))]
        BY <1>3, <3>1, <3>4
      <4>3. Total(fin.gas, Cardinality(C(k)) + 1) = Total(fin.gas, Cardinality(C(k))) + fin.gas[Cardinality(C(k))]
        BY ONLY <4>2, TotalStep
      <4> QED
        BY ONLY <3>2, <3>3, <4>1, <4>2, <4>3
    <3>5. CASE ~Included(k + 1)
      <4>1. C(k + 1) = C(k) /\ f[k] = 0
        BY <1>2, <1>4, <3>1, <3>5, Zenon
      <4> QED
        BY ONLY <3>2, <3>3, <4>1
    <3> QED
      BY <3>4, <3>5
  <2>3. Nat \subseteq S
    <3> HIDE DEF S
    <3> QED
      BY <2>1, <2>2, Induct
  <2> QED
    BY <1>1, <2>3
(* From there on nothing is added.                                         *)
<1>8. Total(f, L) = Total(f, p - 1)
  <2> DEFINE S == {k \in Nat : p - 1 <= k /\ k <= L => Total(f, k) = Total(f, p - 1)}
  <2>1. 0 \in S
    BY <1>1
  <2>2. ASSUME NEW k \in Nat, k \in S PROVE k + 1 \in S
    <3> SUFFICES ASSUME p - 1 <= k + 1, k + 1 <= L PROVE Total(f, k + 1) = Total(f, p - 1)
      OBVIOUS
    <3>1. CASE p - 1 = k + 1
      BY <3>1
    <3>2. CASE p - 1 <= k
      <4>1. Total(f, k) = Total(f, p - 1) /\ Total(f, k) \in Nat /\ f[k] = 0
        BY <1>1, <1>4, <1>5, <2>2, <3>2, SMTT(60)
      <4>2. Total(f, k + 1) = Total(f, k) + f[k]
        BY TotalStep
      <4> QED
        BY <4>1, <4>2
    <3> QED
      BY <1>1, <3>1, <3>2
  <2>3. Nat \subseteq S
    <3> HIDE DEF S
    <3> QED
      BY <2>1, <2>2, Induct
  <2> QED
    BY <1>1, <2>3
<1>9. SumGasUsed(P) = Total(f, L)
  BY DEF SumGasUsed, f, L
<1>10. Cardinality(C(p - 1)) = results[p].index
  BY IncludedCounted DEF C
<1>11. Total(f, L) \in Nat
  BY <1>1, <1>5, SMTT(60)
<1> QED
  BY <1>7, <1>8, <1>9, <1>10, <1>11 DEF P

(* What the indexer and the JSON-RPC backend make of the results of a      *)
(* block agrees with what the block recorded, which they never see: the    *)
(* index, the failure flag, the gas used and the cumulative gas.           *)
THEOREM ViewRight ==
    ASSUME MaxGas > 1
    PROVE  Spec => []ViewAgrees
<1>1. FInv /\ RInv => ViewAgrees
  <2> SUFFICES ASSUME FInv, RInv, pc = "idle", NEW p \in Positions, Included(p)
               PROVE  /\ results[p].index = EthTxIndex(p)
                      /\ Failed(p) <=> ~fin.receipts[EthTxIndex(p)].ok
                      /\ GasUsed(p) = fin.gas[EthTxIndex(p)]
                      /\ BlockCumulativeGas(p) = Total(fin.gas, EthTxIndex(p) + 1)
    BY SMTT(60) DEF ViewAgrees
  <2> DEFINE r == results[p]
  <2>1. /\ r.index # NoIndex /\ r.index \in 0..(fin.count - 1)
        /\ r.index = Cardinality(Counted(results, p - 1))
        /\ Failed(p) <=> ~fin.receipts[r.index].ok
        /\ GasUsed(p) = fin.gas[r.index]
    BY IncludedCounted, SMTT(60)
  <2>2. EthTxIndex(p) = r.index
    <3>1. \A q \in 1..(p - 1) : q \in Positions
      BY SMTT(60) DEF Positions, FInv, Books
    <3>2. {q \in 1..(p - 1) : Included(q)} = Counted(results, p - 1)
      BY <3>1, IncludedCounted, ZenonT(60) DEF Counted
    <3> QED
      BY <2>1, <3>2 DEF EthTxIndex
  <2>3. Recorded(fin, fin.count, r)
    BY DEF RInv, Finished, InMessage, Told, Positions
  <2>4. BlockCumulativeGas(p) = Total(fin.gas, r.index + 1)
    <3>1. CASE r.receipt # NoReceipt
      <4>1. BlockCumulativeGas(p) = r.receipt.cumulative
        BY <3>1 DEF BlockCumulativeGas
      <4> HIDE DEF r
      <4> QED
        BY <2>1, <2>3, <3>1, <4>1, Zenon DEF Recorded
    <3>2. CASE r.receipt = NoReceipt
      <4>1. BlockCumulativeGas(p) = r.tx.gas + Total(fin.gas, r.index) /\ Total(fin.gas, r.index) \in Nat
        BY <3>2, SumsAgree DEF BlockCumulativeGas
      <4> HIDE DEF r
      <4>2. fin.gas[r.index] = r.tx.gas /\ fin.gas[r.index] \in Nat
        BY <2>1, <2>3, <3>2, Zenon DEF Recorded
      <4>3. r.index \in Nat
        BY <2>1
      <4>4. Total(fin.gas, r.index + 1) = Total(fin.gas, r.index) + fin.gas[r.index]
        BY ONLY <4>3, TotalStep
      <4> QED
        BY ONLY <4>1, <4>2, <4>4, SMTT(60)
    <3> QED
      BY <3>1, <3>2
  <2> QED
    BY <2>1, <2>2, <2>4, SMTT(60)
<1> QED
  BY <1>1, BlockInductive, PTL

(***************************************************************************)
(* The gas of the block.                                                   *)
(***************************************************************************)

(* The gas a result was written with, and that of all results.             *)
WrittenGas(r) == IF r.receipt = NoReceipt THEN 0 ELSE r.receipt.gasUsed
Written(res) == Total([i \in 0..(Len(res) - 1) |-> WrittenGas(res[i + 1])], Len(res))

(* Its equations.                                                          *)
LEMMA WrittenNone == Written(<<>>) = 0
  BY TotalZero DEF Written

LEMMA WrittenAppend ==
    ASSUME NEW S, NEW res \in Seq(S), NEW r
    PROVE  Written(Append(res, r)) = Written(res) + WrittenGas(r)
<1> DEFINE new == Append(res, r)
           L == Len(res)
           f == [i \in 0..(L - 1) |-> WrittenGas(res[i + 1])]
           g == [i \in 0..(Len(new) - 1) |-> WrittenGas(new[i + 1])]
<1>1. L \in Nat /\ Len(new) = L + 1 /\ new[L + 1] = r /\ \A p \in 1..L : new[p] = res[p]
  <2>1. res \in Seq(S \cup {r})
    OBVIOUS
  <2> QED
    BY <2>1
<1> HIDE DEF new
<1>2. g[L] = WrittenGas(r) /\ \A j \in 0..(L - 1) : f[j] = g[j]
  BY <1>1
<1> HIDE DEF f, g, L
<1>3. Total(f, L) = Total(g, L)
  BY <1>1, <1>2, TotalFrame
<1>4. Total(g, L + 1) = Total(g, L) + g[L]
  BY <1>1, TotalStep
<1>5. Written(res) = Total(f, L) /\ Written(new) = Total(g, L + 1)
  BY <1>1 DEF Written, f, g, L
<1> QED
  BY <1>2, <1>3, <1>4, <1>5 DEF new

(* What is written was consumed from the block's gas meter, within limits. *)
GInv ==
    /\ Written(results) \in Nat /\ Written(results) <= blockGas
    /\ MaxGas > 0 => Written(results) <= MaxGas

(* A transaction whose message was not written ends.                       *)
LEMMA UnwrittenFits ==
    ASSUME FInv, GInv, NEW r, r.receipt = NoReceipt, results' = Append(results, r),
           blockGas \in Nat, blockGas' \in Nat, blockGas' >= blockGas
    PROVE  GInv'
<1>1. Written(results') = Written(results) + 0
  BY WrittenAppend DEF FInv, Books, WrittenGas
<1> QED
  BY <1>1 DEF GInv

(* The message fails.                                                      *)
LEMMA FailFits ==
    ASSUME NInv, FInv, GInv, NEW gas \in Nat, FailMessage(gas)
    PROVE  GInv'
<1> DEFINE r == Result(tx, TRUE, FALSE, index, NoReceipt)
<1>1. blockGas' = blockGas + gas /\ results' = Append(results, r) /\ blockGas \in Nat
  BY DEF FailMessage, EndTx, NInv, Shapes
<1>2. r.receipt = NoReceipt
  BY DEF Result
<1> HIDE DEF r
<1> QED
  BY <1>1, <1>2, UnwrittenFits

LEMMA ConsumeBlockGasFits ==
    ASSUME NInv, FInv, GInv, ConsumeBlockGas
    PROVE  GInv'
<1>1. used \in Nat /\ blockGas \in Nat
  BY DEF NInv, Shapes
<1>2. CASE FailMessage(used)
  BY <1>1, <1>2, FailFits, SMTT(60)
<1> DEFINE e == [ok |-> ctx.receipts[index].ok, gasUsed |-> used,
                 cumulative |-> ctx.receipts[index].cumulative]
           r == Result(tx, TRUE, TRUE, index, e)
<1>3. CASE /\ MaxGas > 0 => blockGas + used <= MaxGas
           /\ blockGas' = blockGas + used /\ EndTx(TRUE, index, e)
  <2>1. results' = Append(results, r)
    BY <1>3, SMTT(60) DEF EndTx
  <2>2. WrittenGas(r) = used \/ WrittenGas(r) = 0
    BY DEF Result, WrittenGas
  <2> HIDE DEF r
  <2>3. Written(results') = Written(results) + WrittenGas(r)
    BY <2>1, WrittenAppend DEF FInv, Books
  <2> QED
    BY <1>1, <1>3, <2>2, <2>3, FeeMarketAssumption, SMTT(60) DEF GInv
<1> QED
  BY <1>2, <1>3, ZenonT(60) DEF ConsumeBlockGas

LEMMA NextFits ==
    ASSUME NInv, FInv, GInv, [Next]_vars
    PROVE  GInv'
<1>1. blockGas \in Nat
  BY DEF NInv, Shapes
<1>2. ASSUME UNCHANGED <<results, blockGas>> PROVE GInv'
  BY <1>2 DEF GInv
<1>3. ASSUME RejectTx PROVE GInv'
  <2> DEFINE r == Result(tx, TRUE, FALSE, NoIndex, NoReceipt)
  <2>1. blockGas' = blockGas /\ results' = Append(results, r)
    BY <1>3 DEF RejectTx, EndTx
  <2>2. r.receipt = NoReceipt
    BY DEF Result
  <2> HIDE DEF r
  <2> QED
    BY <1>1, <2>1, <2>2, UnwrittenFits
<1>4. CASE AnteHandler
  <2>1. ASSUME NEW t, DropTx(t) PROVE GInv'
    <3> DEFINE r == Result(t, TRUE, FALSE, NoIndex, NoReceipt)
    <3>1. blockGas' = blockGas /\ results' = Append(results, r)
      BY <2>1 DEF DropTx
    <3>2. r.receipt = NoReceipt
      BY DEF Result
    <3> HIDE DEF r
    <3> QED
      BY <1>1, <3>1, <3>2, UnwrittenFits
  <2>2. ASSUME NEW t, SetupContext(t) PROVE GInv'
    BY <1>2, <2>2 DEF SetupContext
  <2>3. CASE ValidateBasic \/ DeductFee \/ SigVerification
    BY <1>2, <1>3, <2>3 DEF ValidateBasic, DeductFee, SigVerification, Advance
  <2>4. CASE IncrementSequence \/ SetupExecutionContext \/ EmitEvent
    BY <1>2, <2>4 DEF IncrementSequence, SetupExecutionContext, EmitEvent, Advance
  <2> QED
    BY <1>4, <2>1, <2>2, <2>3, <2>4, SMTT(60) DEF AnteHandler
<1>5. CASE EthereumTx
  <2>1. CASE RestoreNonce
    BY <1>2, <2>1, FailFits DEF RestoreNonce, Advance
  <2>2. CASE CoreError
    <3>1. tx.gas \in Nat
      BY <2>2, PriceFacts DEF CoreError
    <3> QED
      BY <2>2, <3>1, FailFits DEF CoreError
  <2>3. CASE ExecutionPanics
    BY <2>3, FailFits DEF ExecutionPanics
  <2>4. ASSUME NEW gas, NEW n, NEW ok, ApplyMessage(gas, n, ok) PROVE GInv'
    BY <1>2, <2>4 DEF ApplyMessage
  <2> QED
    BY <1>5, <2>1, <2>2, <2>3, <2>4, ConsumeBlockGasFits DEF EthereumTx
<1>6. ASSUME NEW a, NEW fee, NEW gas \in CosmosGas, CosmosTx(a, fee, gas) PROVE GInv'
  <2>1. PICK ok : results' = Append(results, Result(NoTx, FALSE, ok, NoIndex, NoReceipt))
    BY <1>6, Zenon DEF CosmosTx
  <2>2. blockGas' = blockGas + gas /\ gas \in Nat
    BY <1>6, BlockFlowAssumption DEF CosmosTx
  <2>3. blockGas' \in Nat /\ blockGas' >= blockGas
    BY <1>1, <2>2
  <2> DEFINE r == Result(NoTx, FALSE, ok, NoIndex, NoReceipt)
  <2>4. r.receipt = NoReceipt /\ results' = Append(results, r)
    BY <2>1 DEF Result
  <2> HIDE DEF r
  <2> QED
    BY <1>1, <2>3, <2>4, UnwrittenFits
<1>7. CASE EndBlock
  <2>1. results' = <<>> /\ blockGas' = 0
    BY <1>7 DEF EndBlock
  <2> QED
    BY <2>1, WrittenNone, FeeMarketAssumption DEF GInv
<1> QED
  BY <1>2, <1>4, <1>5, <1>6, <1>7, SMTT(60) DEF Next, vars

(* Executions whose effects are written fit in the gas limit of the block. *)
THEOREM GasLimitHolds ==
    ASSUME MaxGas > 1
    PROVE  Spec => []WrittenGasFits
<1>1. Init => GInv
  BY WrittenNone, FeeMarketAssumption, SMTT(60) DEF Init, GInv
<1>2. NInv /\ FInv /\ GInv /\ [Next]_vars => GInv'
  BY NextFits
<1>3. GInv => WrittenGasFits
  BY DEF GInv, WrittenGasFits, Written, WrittenGas
<1> QED
  BY <1>1, <1>2, <1>3, BlockInductive, PTL DEF Spec

=============================================================================
