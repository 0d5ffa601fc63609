--------------------------- MODULE IndexerService ---------------------------
(***************************************************************************)
(* EVMIndexerService (server/indexer_service.go) over the KV indexer.  Its *)
(* OnStart has two goroutines: one follows block headers, the other fetches*)
(* and indexes blocks.  They share latestBlock, a wake-up signal and a     *)
(* channel that passes the quit signal on.  The process may be stopped or  *)
(* crash at any point and start again on what the index database kept.     *)
(* While it is down the index-eth-tx command may work on the database.     *)
(***************************************************************************)
EXTENDS Integers, FiniteSets, FiniteSetsExt

CONSTANTS
    MaxHeight,   \* bound on the chain
    MaxStarts,   \* bound on the processes started
    Threshold    \* startupIndexBlockFailureThreshold, 10 in the code

Heights == 1..MaxHeight

ASSUME IndexerAssumption ==
    /\ MaxHeight \in Nat \ {0} /\ MaxStarts \in Nat \ {0} /\ Threshold \in Nat \ {0}

VARIABLES
    eth,          \* the blocks with Ethereum transactions
    head,         \* height of the chain
    earliest,     \* earliest block the node has kept
    db,           \* blocks with entries in the index database
    cmd, at,      \* index-eth-tx: its direction and its next block
    starts,       \* how many processes have started
    main,         \* position of OnStart
    header,       \* position of the goroutine processBlockHeader
    seen,         \* last header it was sent
    latestBlock, lastIndexedBlock, i, isReady, failures,
    newBlockSignal, quitSignal,   \* channels with room for one signal
    quit,         \* the Quit channel of the service is closed
    lastRequestIndexedBlock,
    missed, skipped               \* history, see GapsExplained

headers == <<header, seen, latestBlock>>
work == <<lastIndexedBlock, i, isReady, failures, lastRequestIndexedBlock>>
process == <<main, headers, work, newBlockSignal, quitSignal, quit>>
command == <<cmd, at>>
node == <<eth, head, earliest>>
history == <<missed, skipped>>
others == <<command, node, db, starts, history>>     \* not of the process
vars == <<process, others>>

-----------------------------------------------------------------------------
Last == IF db = {} THEN -1 ELSE Max(db)     \* LoadLastBlock
First == IF db = {} THEN -1 ELSE Min(db)    \* LoadFirstBlock

(* The answer to eth_blockNumber.                                          *)
GetLastRequestIndexedBlock ==
    IF lastRequestIndexedBlock = -1 THEN Last ELSE lastRequestIndexedBlock

(* The node: blocks are added, and old ones are dropped while the service  *)
(* is not up (by pruning, or a state sync).                                *)
NewBlock ==
    /\ head < MaxHeight /\ cmd = "none"
    /\ head' = head + 1
    /\ UNCHANGED <<process, command, eth, earliest, db, starts, history>>

Prune ==
    /\ main = "down" /\ cmd = "none" /\ earliest < head
    /\ earliest' = earliest + 1
    /\ UNCHANGED <<process, command, eth, head, db, starts, history>>

Stop ==
    /\ main # "down" /\ ~quit
    /\ quit' = TRUE
    /\ UNCHANGED <<main, headers, work, newBlockSignal, quitSignal, others>>

(* The process ends.  Batches are written without a sync, so a crash may   *)
(* lose the last ones.                                                     *)
Exit ==
    /\ main # "down"
    /\ main' = "down" /\ header' = "none"
    /\ seen' = 0 /\ latestBlock' = 0 /\ lastIndexedBlock' = 0 /\ i' = 0
    /\ isReady' = FALSE /\ failures' = [h \in Heights |-> 0]
    /\ newBlockSignal' = FALSE /\ quitSignal' = FALSE /\ quit' = FALSE
    /\ lastRequestIndexedBlock' = -1
    /\ \E kept \in 0..MaxHeight : db' = {h \in db : h <= kept}
    /\ UNCHANGED <<command, node, starts, history>>

-----------------------------------------------------------------------------
(* index-eth-tx, on the databases of a node that is down.                  *)
Backward ==
    /\ main = "down" /\ cmd = "none" /\ starts < MaxStarts
    /\ cmd' = "backward" /\ starts' = starts + 1
    /\ at' = (IF First = -1 THEN head ELSE First) - 1
    /\ UNCHANGED <<process, node, db, history>>

Forward ==
    /\ main = "down" /\ cmd = "none" /\ starts < MaxStarts
    /\ cmd' = "forward" /\ starts' = starts + 1
    /\ at' = (IF Last = -1 THEN 0 ELSE Last) + 1
    /\ UNCHANGED <<process, node, db, history>>

CommandIndexes ==
    /\ cmd # "none" /\ at \in earliest..head
    /\ db' = db \cup ({at} \cap eth)
    /\ at' = IF cmd = "backward" THEN at - 1 ELSE at + 1
    /\ UNCHANGED <<process, cmd, node, starts, history>>

(* It is through, a block is not there or fails, or it is killed, when its *)
(* last batches may be lost.                                               *)
CommandEnds ==
    /\ cmd # "none"
    /\ \E k \in 0..MaxHeight :
          db' = {h \in db : IF cmd = "backward" THEN h >= k ELSE h <= k}
    /\ cmd' = "none" /\ at' = 0
    /\ UNCHANGED <<process, node, starts, history>>

-----------------------------------------------------------------------------
(* OnStart: the status of the node, then the subscription and the header   *)
(* goroutine.  Headers of blocks in between are never sent.                *)
Status ==
    /\ main = "down" /\ cmd = "none" /\ starts < MaxStarts
    /\ main' = "subscribe" /\ starts' = starts + 1
    /\ latestBlock' = head
    /\ UNCHANGED <<header, seen, work, newBlockSignal, quitSignal, quit,
                   command, node, db, history>>

Subscribe ==
    /\ main = "subscribe"
    /\ main' = "load" /\ header' = "loop" /\ seen' = head
    /\ UNCHANGED <<latestBlock, work, newBlockSignal, quitSignal, quit, others>>

(* Mutant: the service always starts at the latest block.                  *)
FirstPosition_Latest == latestBlock

(* Mutant: the first block in the database is taken for the last one.      *)
FirstPosition_First == IF First = -1 THEN latestBlock ELSE First

(* Where indexing starts.  earliest does not move while the service is up. *)
FirstPosition ==
    IF Last = -1 THEN latestBlock
    ELSE IF Last < earliest THEN earliest ELSE Last

LastIndexedBlock ==
    /\ main = "load"
    /\ main' = "top"
    /\ lastIndexedBlock' = FirstPosition
    /\ missed' = IF Last # -1 /\ Last < earliest
                 THEN missed \cup ((Last + 1)..earliest) ELSE missed
    /\ UNCHANGED <<headers, i, isReady, failures, lastRequestIndexedBlock, newBlockSignal,
                   quitSignal, quit, command, node, db, starts, skipped>>

(* The select at the top of the loop: a quit signal of either kind is      *)
(* passed on before OnStart returns.                                       *)
MainSeesQuit ==
    /\ main = "top" /\ main' = "send"
    /\ \/ quit /\ UNCHANGED quitSignal
       \/ quitSignal /\ quitSignal' = FALSE
    /\ UNCHANGED <<headers, work, newBlockSignal, quit, others>>

MainPassesQuit ==
    /\ main = "send" /\ ~quitSignal
    /\ main' = "returned" /\ quitSignal' = TRUE
    /\ UNCHANGED <<headers, work, newBlockSignal, quit, others>>

Default == main = "top" /\ ~quit /\ ~quitSignal

(* latestBlock may move on between this test and the wait.                 *)
NothingToIndex ==
    /\ Default /\ lastIndexedBlock >= latestBlock
    /\ main' = "ready"
    /\ UNCHANGED <<headers, work, newBlockSignal, quitSignal, quit, others>>

Ready ==
    /\ main = "ready" /\ main' = "wait"
    /\ isReady' = TRUE
    /\ UNCHANGED <<headers, lastIndexedBlock, i, failures, lastRequestIndexedBlock,
                   newBlockSignal, quitSignal, quit, others>>

Wake ==
    /\ main = "wait"
    /\ \/ newBlockSignal /\ newBlockSignal' = FALSE /\ main' = "top"
       \/ quit /\ main' = "returned" /\ UNCHANGED newBlockSignal
    /\ UNCHANGED <<headers, work, quitSignal, quit, others>>

(* NewBlockWaitTimeout.                                                    *)
Timeout ==
    /\ main = "wait" /\ main' = "top"
    /\ UNCHANGED <<headers, work, newBlockSignal, quitSignal, quit, others>>

BeginIndexing ==
    /\ Default /\ lastIndexedBlock < latestBlock
    /\ main' = "index" /\ i' = lastIndexedBlock + 1
    /\ UNCHANGED <<headers, lastIndexedBlock, isReady, failures, lastRequestIndexedBlock,
                   newBlockSignal, quitSignal, quit, others>>

(* Mutant: a block is never given up during the start.                     *)
shouldSkip_Never(h) == FALSE

(* markFailedToIndexBlock: true once the block failed too often.           *)
shouldSkip(h) == failures[h] > 0 /\ failures[h] + 1 > Threshold

(* The block or its results cannot be fetched.                             *)
FetchFails ==
    /\ main = "index" /\ main' = "top"
    /\ IF isReady
       THEN UNCHANGED <<failures, lastIndexedBlock, skipped>>
       ELSE /\ failures' = [failures EXCEPT ![i] = IF @ > Threshold THEN @ ELSE @ + 1]
            /\ IF shouldSkip(i)
               THEN lastIndexedBlock' = i /\ skipped' = skipped \cup {i}
               ELSE UNCHANGED <<lastIndexedBlock, skipped>>
    /\ UNCHANGED <<headers, i, isReady, lastRequestIndexedBlock, newBlockSignal, quitSignal,
                   quit, command, node, db, starts, missed>>

(* Mutant: a block that failed is announced all the same.                  *)
IndexBlock_CountsErrors ==
    /\ main = "index"
    /\ \/ /\ db' = db \cup ({i} \cap eth)
          /\ failures' = IF isReady THEN failures ELSE [failures EXCEPT ![i] = 0]
          /\ UNCHANGED skipped
       \/ skipped' = skipped \cup {i} /\ UNCHANGED <<db, failures>>
    /\ lastRequestIndexedBlock' = i
    /\ lastIndexedBlock' = i /\ i' = i + 1
    /\ main' = IF i + 1 <= latestBlock THEN "index" ELSE "top"
    /\ UNCHANGED <<headers, isReady, newBlockSignal, quitSignal, quit,
                   command, node, starts, missed>>

(* A fetched block is indexed; an error of IndexBlock is only logged.      *)
IndexBlock ==
    /\ main = "index"
    /\ \/ /\ db' = db \cup ({i} \cap eth)
          /\ lastRequestIndexedBlock' =
                IF lastRequestIndexedBlock < i THEN i ELSE lastRequestIndexedBlock
          /\ failures' = IF isReady THEN failures ELSE [failures EXCEPT ![i] = 0]
          /\ UNCHANGED skipped
       \/ /\ skipped' = skipped \cup {i}
          /\ UNCHANGED <<db, failures, lastRequestIndexedBlock>>
    /\ lastIndexedBlock' = i /\ i' = i + 1
    /\ main' = IF i + 1 <= latestBlock THEN "index" ELSE "top"
    /\ UNCHANGED <<headers, isReady, newBlockSignal, quitSignal, quit,
                   command, node, starts, missed>>

-----------------------------------------------------------------------------
(* The header goroutine.  The send of the wake-up never blocks.            *)
Header ==
    /\ header = "loop" /\ seen < head
    /\ seen' = seen + 1
    /\ IF seen + 1 > latestBlock
       THEN latestBlock' = seen + 1 /\ header' = "notify"
       ELSE UNCHANGED <<latestBlock, header>>
    /\ UNCHANGED <<main, work, newBlockSignal, quitSignal, quit, others>>

(* Mutant: the signal reaches only a goroutine that is waiting for it.     *)
Notify_Unbuffered ==
    /\ header = "notify" /\ header' = "loop"
    /\ newBlockSignal' = (main = "wait")
    /\ UNCHANGED <<main, seen, latestBlock, work, quitSignal, quit, others>>

Notify ==
    /\ header = "notify" /\ header' = "loop"
    /\ newBlockSignal' = TRUE
    /\ UNCHANGED <<main, seen, latestBlock, work, quitSignal, quit, others>>

HeaderSeesQuit ==
    /\ header = "loop" /\ header' = "send"
    /\ \/ quit /\ UNCHANGED quitSignal
       \/ quitSignal /\ quitSignal' = FALSE
    /\ UNCHANGED <<main, seen, latestBlock, work, newBlockSignal, quit, others>>

HeaderPassesQuit ==
    /\ header = "send" /\ ~quitSignal
    /\ header' = "returned" /\ quitSignal' = TRUE
    /\ UNCHANGED <<main, seen, latestBlock, work, newBlockSignal, quit, others>>

Init ==
    /\ eth \in SUBSET Heights /\ head = 1 /\ earliest = 1
    /\ db = {} /\ starts = 0 /\ cmd = "none" /\ at = 0
    /\ main = "down" /\ header = "none"
    /\ seen = 0 /\ latestBlock = 0 /\ lastIndexedBlock = 0 /\ i = 0
    /\ isReady = FALSE /\ failures = [h \in Heights |-> 0]
    /\ newBlockSignal = FALSE /\ quitSignal = FALSE /\ quit = FALSE
    /\ lastRequestIndexedBlock = -1
    /\ missed = {} /\ skipped = {}

OnStart ==
    \/ Subscribe \/ LastIndexedBlock \/ MainSeesQuit \/ MainPassesQuit
    \/ NothingToIndex \/ Ready \/ Wake \/ BeginIndexing \/ FetchFails \/ IndexBlock

processBlockHeader == Header \/ Notify \/ HeaderSeesQuit \/ HeaderPassesQuit

Next ==
    \/ NewBlock \/ Prune \/ Stop \/ Exit \/ Status
    \/ OnStart \/ Timeout \/ processBlockHeader
    \/ Backward \/ Forward \/ CommandIndexes \/ CommandEnds

Spec == Init /\ [][Next]_vars

(* Both goroutines are scheduled.  Nothing is assumed of timeouts, starts  *)
(* or stops, and fetching a block may fail for ever.                       *)
FairSpec == Spec /\ WF_vars(OnStart) /\ WF_vars(processBlockHeader)

(* A block that is tried again and again is got at some time.              *)
BlocksFetchable == SF_vars(IndexBlock)

-----------------------------------------------------------------------------
Running == main \notin {"down", "subscribe", "load"}

(* What the index has to cover: from its first block to the last one, or   *)
(* to the position of the service.                                         *)
Covered ==
    IF db = {} THEN {}
    ELSE First..(IF Running THEN lastIndexedBlock ELSE Last)

(* The index has no gaps, across stops, crashes with lost batches and runs *)
(* of the command in both directions.  The exceptions: blocks the service  *)
(* gave up after an error (skipped), and those it passed over as it found  *)
(* a pruned node (missed).                                                 *)
GapsExplained == eth \cap Covered \subseteq db \cup skipped \cup missed

(* "When start the node, the indexer start from the latest indexed block   *)
(* to avoid creating gap" (server/indexer_cmd.go): apart from errors, only *)
(* blocks that the node no longer has are missing.                         *)
NoGapAtStart == eth \cap Covered \subseteq db \cup skipped \cup 1..(earliest - 1)

(* eth_blockNumber never falls while the process runs, although it starts  *)
(* from the database and later comes from memory.                          *)
BlockNumberGrows ==
    [][Running /\ Running' => GetLastRequestIndexedBlock' >= GetLastRequestIndexedBlock]_vars

(* A block that eth_blockNumber announces is served: the service has       *)
(* passed it, and its transactions are in the index, even if the blocks    *)
(* around it failed.                                                       *)
BlockNumberServed ==
    Running => LET n == GetLastRequestIndexedBlock
               IN  n <= lastIndexedBlock /\ (n \in eth => n \in db)

(* No wake-up is lost: while the service runs, every block is reached that *)
(* it found at its start or whose header is still to come, without help of *)
(* the timeout.  A block added between Status and Subscribe is neither and *)
(* waits for the next one.  It is assumed that fetching does not fail for  *)
(* ever.                                                                   *)
CatchesUp ==
    BlocksFetchable =>
        \A n \in Heights :
            (Running /\ (latestBlock >= n \/ n \in (seen + 1)..head))
                ~> (lastIndexedBlock >= n \/ quit \/ main = "down")

(* The node waits in its start for the indexer to be ready.  It gets so    *)
(* even if blocks can never be fetched, since each is given up in time.    *)
BecomesReady == (main = "subscribe") ~> (isReady \/ quit \/ main = "down")

(* "re-broadcast quit signal to other goroutines"                          *)
(* (server/indexer_service.go): once it quits, OnStart returns.            *)
QuitReturns == (quit /\ Running) ~> (main \in {"returned", "down"})

=============================================================================
