-------------------------------- MODULE ReadPath --------------------------------
(***************************************************************************)
(* What the three adapters read with: the chain behind the endpoints, which *)
(* moves while a fetch is under way; the batched ledger reader of           *)
(* adapters/ledger-entries.ts; and the two ways a read can fail that        *)
(* adapters/read-failure.ts keeps apart: the subject refused ("refused"),   *)
(* or the endpoint did not answer ("transport").  One fetch is modelled     *)
(* from its first read to the row it publishes, or to the exception that    *)
(* makes it a failed run.                                                   *)
(***************************************************************************)
EXTENDS Rulebook, SequencesExt, Filtering

CONSTANTS
    Assets,         \* what a protocol may list
    StartedAt,      \* when the fetch begins
    MaxNow,         \* bound: the fetch is over by then
    MaxChanges,     \* bound: transactions that land while the fetch runs
    KeysPerCall     \* MAX_LEDGER_KEYS_PER_CALL

ASSUME ReadPathAssumption ==
    /\ StartedAt \in Nat /\ MaxNow \in Nat /\ StartedAt <= MaxNow
    /\ MaxChanges \in Nat
    /\ KeysPerCall \in Nat \ {0}

VARIABLES
    chain,      \* what the contracts and accounts hold now
    now,        \* the clock
    changes,    \* transactions landed since the fetch began
    seen,       \* history: every operational state that was true since then
    pc,         \* the read that is awaited
    got,        \* what has been read so far
    row         \* what is published

readVars == <<chain, now, changes, seen, pc, got, row>>

\* A map with one key set.
Mapped(map, key, value) == [k \in DOMAIN map \cup {key} |-> IF k = key THEN value ELSE map[k]]

Unpublished == [status |-> "none"]
FailedRow == [status |-> "failed"]

FailureKinds == {"refused", "transport"}

--------------------------------------------------------------------------------
(* The world outside.                                                      *)

Tick ==
    /\ row.status = "none" /\ now < MaxNow
    /\ now' = now + 1
    /\ UNCHANGED <<chain, changes, seen, pc, got, row>>

\* One part of what a chain holds set to a value; with a key, one entry of that part.
Edited(c, edit) ==
    IF "key" \in DOMAIN edit THEN [c EXCEPT ![edit.part][edit.key] = edit.to]
    ELSE [c EXCEPT ![edit.part] = edit.to]

\* A transaction lands; the module of the protocol adds to `seen` what state that makes.
ChainMoves(edits) ==
    /\ row.status = "none" /\ changes < MaxChanges
    /\ \E i \in DOMAIN edits :
          /\ Edited(chain, edits[i]) # chain
          /\ chain' = Edited(chain, edits[i])
    /\ changes' = changes + 1
    /\ UNCHANGED <<now, pc, got, row>>

--------------------------------------------------------------------------------
(* One read.                                                               *)

\* The answer `learned` is taken in and the next read is issued.
Learn(learned, next) ==
    /\ got' = learned
    /\ pc' = next
    /\ UNCHANGED <<chain, now, changes, seen, row>>

\* The exception reaches runOne: this run is a failed row.
Throw ==
    /\ row' = FailedRow
    /\ pc' = "done"
    /\ UNCHANGED <<chain, now, changes, seen, got>>

\* The same, when a read failed: whether the endpoint was at fault is recorded.
ThrowFor(kind) ==
    /\ got' = [got EXCEPT !.transport = @ \/ kind = "transport"]
    /\ row' = FailedRow
    /\ pc' = "done"
    /\ UNCHANGED <<chain, now, changes, seen>>

Publish(published) ==
    /\ row' = published
    /\ pc' = "done"
    /\ UNCHANGED <<chain, now, changes, seen, got>>

\* The process goes on to the next protocol.
Finished == pc = "done" /\ UNCHANGED readVars

--------------------------------------------------------------------------------
(* readLedgerEntries: each chunk is answered from one ledger, and two       *)
(* chunks need not be answered from the same one.                           *)

DedupeKeys(keys) ==
    Filtered(keys, {i \in DOMAIN keys : \A j \in 1 .. (i - 1) : keys[j] # keys[i]})

\* Mutant of ChunkKeys: one key per call.
ChunkKeysSingly(keys, size) == [i \in DOMAIN keys |-> <<keys[i]>>]

ChunkKeys(keys, size) ==
    [i \in 1 .. ((Len(keys) + size - 1) \div size) |->
        SubSeq(keys, (i - 1) * size + 1, MinOf(i * size, Len(keys)))]

\* The next chunk's answer; held[k] is <<>> where the ledger has no such entry.
ReadChunk(keys, held, next) ==
    LET chunks == ChunkKeys(DedupeKeys(keys), KeysPerCall)
        chunk  == chunks[got.chunk]
        known  == [k \in DOMAIN got.entries \cup ToSet(chunk) |->
                      IF k \in ToSet(chunk) THEN held[k] ELSE got.entries[k]]
    IN  Learn([got EXCEPT !.entries = known, !.chunk = @ + 1],
              IF got.chunk = Len(chunks) THEN next ELSE pc)

\* An externally owned account is read with two requests, a contract with none.
IsAccount(holder) == holder.kind = "account"
================================================================================
