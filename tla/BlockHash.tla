----------------------------- MODULE BlockHash ------------------------------
(***************************************************************************)
(* The block hashes that x/evm keeps for the BLOCKHASH opcode.  BeginBlock *)
(* stores the hash of the new block and prunes one old hash; the same call *)
(* comes again with every Ethereum transaction of the block.               *)
(***************************************************************************)
EXTENDS Integers

CONSTANTS
    Hashes, NoHash,   \* header hashes, and the zero hash
    Window,           \* 256 in the code
    InitialHeight,    \* of the first block of the chain
    LastHeight         \* bound on the height

HashHeights == 1..LastHeight

ASSUME BlockHashAssumption ==
    /\ NoHash \notin Hashes
    /\ Window \in Nat \ {0} /\ InitialHeight \in Nat \ {0} /\ LastHeight \in Nat

VARIABLES
    height,   \* of the current block
    chain,    \* history: the hash of every block so far
    stored    \* the entries under KeyPrefixBlockHash

hashVars == <<height, chain, stored>>

(* Mutant: the pruned height is one too high.                              *)
SetBlockHash_PrunesMore(s, h, hash) ==
    IF s[h] # NoHash THEN s
    ELSE [n \in HashHeights |-> IF n = h THEN hash
                            ELSE IF n = h - Window + 1 THEN NoHash ELSE s[n]]

(* SetBlockHashForCurrentBlockAndPruneOld.                                 *)
SetBlockHash(s, h, hash) ==
    IF s[h] # NoHash THEN s
    ELSE [n \in HashHeights |-> IF n = h THEN hash
                            ELSE IF n = h - Window THEN NoHash ELSE s[n]]

(* GetBlockHashByBlockNumber, for a height that is not the current one or  *)
(* is stored: it panics on the current one otherwise.                      *)
GetBlockHashByBlockNumber(n) == IF n \in HashHeights THEN stored[n] ELSE NoHash

HashInit ==
    /\ height = InitialHeight - 1
    /\ chain = [n \in HashHeights |-> NoHash]
    /\ stored = [n \in HashHeights |-> NoHash]

BeginBlock(hash) ==
    /\ height < LastHeight
    /\ height' = height + 1
    /\ chain' = [chain EXCEPT ![height + 1] = hash]
    /\ stored' = SetBlockHash(stored, height + 1, hash)

(* The same call from SetupExecutionContext, for an Ethereum transaction.  *)
SetupExecutionContext ==
    /\ height \in InitialHeight..LastHeight
    /\ stored' = SetBlockHash(stored, height, chain[height])
    /\ UNCHANGED <<height, chain>>

HashNext == (\E hash \in Hashes : BeginBlock(hash)) \/ SetupExecutionContext

HashSpec == HashInit /\ [][HashNext]_hashVars

-----------------------------------------------------------------------------
(* Only blocks that have begun have a hash.                                *)
TypeOK ==
    /\ height \in Nat /\ height >= InitialHeight - 1
    /\ chain \in [HashHeights -> Hashes \cup {NoHash}]
    /\ \A n \in HashHeights : chain[n] # NoHash <=> n \in InitialHeight..height
    /\ stored \in [HashHeights -> Hashes \cup {NoHash}]
    /\ \A n \in HashHeights : n > height => stored[n] = NoHash

(* The EVM gets the hash of the current block, where a missing one is a    *)
(* panic, and of the Window - 1 blocks before it, and none of any other    *)
(* height, however often the hash was stored.                              *)
WindowServed ==
    \A n \in (-Window)..LastHeight : GetBlockHashByBlockNumber(n) =
        IF n \in HashHeights /\ n > height - Window THEN chain[n] ELSE NoHash

=============================================================================
