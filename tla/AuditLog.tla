------------------------------ MODULE AuditLog ------------------------------
(***************************************************************************)
(* security/audit.py: processes that each hold an AuditLogger on the same  *)
(* JSON Lines file.  `crew run` and `crew dashboard` build their own       *)
(* logger on data/audit/audit.jsonl; inside a process, threads (append is  *)
(* called through asyncio.to_thread) share its logger.                     *)
(*                                                                         *)
(* A logger reads the tail of the file once, when it is built, and from    *)
(* then on chains to its cached copy.  The file lock is held around the    *)
(* write alone, and one write to a file opened for appending is one step   *)
(* here, so that lock does not appear.  SHA-256 is taken to be injective:  *)
(* a hash is the number of the record it was computed for, and no two      *)
(* records agree, each carrying its own time and event.                    *)
(***************************************************************************)
EXTENDS Integers, Sequences

CONSTANTS
    Procs,          \* processes with a logger on the file
    Threads,        \* threads that append
    ProcOf,         \* the process of each thread
    NoThread,       \* a logger's lock is free
    Torn,           \* a line that is not JSON
    Faults,         \* the faults of this instance, a subset of AllFaults
    MaxAppends      \* how many records are computed in all

\* "refused": the open or the write raises, nothing is on disk.  "torn": part
\* of the line is, up to the whole of it without its newline.  "unacked": the line is whole but
\* fsync (or the close) raises.  "crash": a process dies.
AllFaults == {"refused", "torn", "unacked", "crash"}

ASSUME ConstantsAssumption ==
    /\ ProcOf \in [Threads -> Procs]
    /\ NoThread \notin Threads
    /\ Faults \subseteq AllFaults
    /\ MaxAppends \in Nat

Genesis == 0
Hashes == 0..MaxAppends
Record == [seq : Nat, prev : Hashes, hash : Hashes]
NoRecord == [seq |-> 0, prev |-> Genesis, hash |-> Genesis]

ASSUME TornAssumption == Torn \notin Record

VARIABLES
    file,           \* the lines on disk
    ragged,         \* the last line has no newline
    up,             \* the processes that are running
    lastSeq,        \* self._last_seq of each process
    lastHash,       \* self._last_hash of each process
    lock,           \* self._lock of each process
    pc,             \* where each thread is in append
    pending,        \* the record each thread is appending
    made,           \* records computed so far
    acked,          \* hashes of the records whose append returned
    shared,         \* two processes have had a logger at once (history)
    lossy           \* a write has raised after reaching the file (history)

vars == <<file, ragged, up, lastSeq, lastHash, lock, pc, pending, made, acked, shared, lossy>>

TypeOK ==
    /\ file \in Seq(Record \cup {Torn})
    /\ ragged \in BOOLEAN
    /\ up \subseteq Procs
    /\ lastSeq \in [Procs -> Int]
    /\ lastHash \in [Procs -> Hashes]
    /\ lock \in [Procs -> Threads \cup {NoThread}]
    /\ pc \in [Threads -> {"idle", "computed", "written"}]
    /\ pending \in [Threads -> Record]
    /\ made \in Hashes
    /\ acked \subseteq Hashes
    /\ shared \in BOOLEAN
    /\ lossy \in BOOLEAN

Init ==
    /\ file = <<>>
    /\ ragged = FALSE
    /\ up = {}
    /\ lastSeq = [p \in Procs |-> -1]
    /\ lastHash = [p \in Procs |-> Genesis]
    /\ lock = [p \in Procs |-> NoThread]
    /\ pc = [t \in Threads |-> "idle"]
    /\ pending = [t \in Threads |-> NoRecord]
    /\ made = 0
    /\ acked = {}
    /\ shared = FALSE
    /\ lossy = FALSE

-----------------------------------------------------------------------------
(* Building a logger                                                       *)

LastLine == file[Len(file)]

\* _read_tail parses every line, so a torn one stops the process from starting.
Start(p) ==
    /\ p \notin up
    /\ \A i \in DOMAIN file : file[i] # Torn
    /\ up' = up \cup {p}
    /\ lastSeq' = [lastSeq EXCEPT ![p] = IF file = <<>> THEN -1 ELSE LastLine.seq]
    /\ lastHash' = [lastHash EXCEPT ![p] = IF file = <<>> THEN Genesis ELSE LastLine.hash]
    /\ shared' = (shared \/ up # {})
    /\ UNCHANGED <<file, ragged, lock, pc, pending, made, acked, lossy>>

\* A process that dies takes its cache, its lock and its threads with it; one
\* that dies in the middle of a write takes WriteTorn first.
Crash(p) ==
    /\ "crash" \in Faults
    /\ p \in up
    /\ up' = up \ {p}
    /\ lock' = [lock EXCEPT ![p] = NoThread]
    /\ pc' = [t \in Threads |-> IF ProcOf[t] = p THEN "idle" ELSE pc[t]]
    /\ UNCHANGED <<file, ragged, lastSeq, lastHash, pending, made, acked, shared, lossy>>

-----------------------------------------------------------------------------
(* append                                                                  *)

ComputeRecord(t, seq) ==
    LET p == ProcOf[t] IN
    /\ p \in up
    /\ pc[t] = "idle"
    /\ made < MaxAppends
    /\ lock' = [lock EXCEPT ![p] = t]
    /\ made' = made + 1
    /\ pending' = [pending EXCEPT ![t] =
                      [seq |-> seq, prev |-> lastHash[p], hash |-> made + 1]]
    /\ pc' = [pc EXCEPT ![t] = "computed"]
    /\ UNCHANGED <<file, ragged, up, lastSeq, lastHash, acked, shared, lossy>>

\* WRONG: two threads of a process compute from the same tail.
WrongComputeUnlocked(t) == ComputeRecord(t, lastSeq[ProcOf[t]] + 1)

\* Under the logger's lock, the record is computed from the cached tail.
Compute(t) ==
    /\ lock[ProcOf[t]] = NoThread
    /\ ComputeRecord(t, lastSeq[ProcOf[t]] + 1)

\* WRONG: the file opened for writing instead of appending.
WrongLand(r) == file' = <<r>> /\ ragged' = FALSE

\* Behind a line without a newline a write only goes on with that line, which is
\* not JSON from then on, were it a record before.
Extend(line) ==
    file' = IF ragged THEN [file EXCEPT ![Len(file)] = Torn] ELSE Append(file, line)

\* The line reaches the disk with its newline.
Land(r) == Extend(r) /\ ragged' = FALSE

Write(t) ==
    /\ pc[t] = "computed"
    /\ Land(pending[t])
    /\ pc' = [pc EXCEPT ![t] = "written"]
    /\ UNCHANGED <<up, lastSeq, lastHash, lock, pending, made, acked, shared, lossy>>

\* An exception leaves append with the cache as it was and the lock released.
Raise(t) ==
    /\ pc' = [pc EXCEPT ![t] = "idle"]
    /\ lock' = [lock EXCEPT ![ProcOf[t]] = NoThread]
    /\ UNCHANGED <<up, lastSeq, lastHash, pending, made, acked, shared>>

\* WRONG: the cache moved on before the write that then fails.
WrongRefusedCache(t) ==
    /\ "refused" \in Faults
    /\ pc[t] = "computed"
    /\ lastSeq' = [lastSeq EXCEPT ![ProcOf[t]] = pending[t].seq]
    /\ lastHash' = [lastHash EXCEPT ![ProcOf[t]] = pending[t].hash]
    /\ pc' = [pc EXCEPT ![t] = "idle"]
    /\ lock' = [lock EXCEPT ![ProcOf[t]] = NoThread]
    /\ UNCHANGED <<file, ragged, up, pending, made, acked, shared, lossy>>

\* WRONG: the exception is swallowed and append goes on to return.
WrongRefusedSilent(t) ==
    /\ "refused" \in Faults
    /\ pc[t] = "computed"
    /\ pc' = [pc EXCEPT ![t] = "written"]
    /\ UNCHANGED <<file, ragged, up, lastSeq, lastHash, lock, pending, made, acked, shared, lossy>>

WriteRefused(t) ==
    /\ "refused" \in Faults
    /\ pc[t] = "computed"
    /\ Raise(t)
    /\ UNCHANGED <<file, ragged, lossy>>

\* A part of the line reaches the disk.  One that lacks only the newline is a
\* record to whoever reads it, until the next write.
WriteTorn(t) ==
    /\ "torn" \in Faults
    /\ pc[t] = "computed"
    /\ \E part \in {Torn, pending[t]} : Extend(part)
    /\ ragged' = TRUE
    /\ lossy' = TRUE
    /\ Raise(t)

WriteUnacked(t) ==
    /\ "unacked" \in Faults
    /\ pc[t] = "computed"
    /\ Land(pending[t])
    /\ lossy' = TRUE
    /\ Raise(t)

\* The cache follows the write; append returns.
Return(t) ==
    LET p == ProcOf[t] IN
    /\ pc[t] = "written"
    /\ lastSeq' = [lastSeq EXCEPT ![p] = pending[t].seq]
    /\ lastHash' = [lastHash EXCEPT ![p] = pending[t].hash]
    /\ acked' = acked \cup {pending[t].hash}
    /\ pc' = [pc EXCEPT ![t] = "idle"]
    /\ lock' = [lock EXCEPT ![p] = NoThread]
    /\ UNCHANGED <<file, ragged, up, pending, made, shared, lossy>>

Step(t) ==
    \/ Compute(t) \/ Write(t) \/ Return(t)
    \/ WriteRefused(t) \/ WriteTorn(t) \/ WriteUnacked(t)

Next ==
    \/ \E p \in Procs : Start(p) \/ Crash(p)
    \/ \E t \in Threads : Step(t)

Spec == Init /\ [][Next]_vars

-----------------------------------------------------------------------------
(* verify                                                                  *)

PrevHash(i) == IF i = 1 THEN Genesis ELSE file[i - 1].hash

\* A line that verify accepts, the ones before it being accepted.
Good(i) ==
    /\ file[i] # Torn
    /\ file[i].seq = i - 1
    /\ file[i].prev = PrevHash(i)

\* VerifyResult.records of a file cut after line n is n.
Verified(n) == \A i \in 1..n : Good(i)

\* VerifyResult.valid: what verify promises of a log that was only appended to.
ChainValid == \A i \in DOMAIN file : Good(i)

-----------------------------------------------------------------------------
(* Properties                                                              *)

\* Some line of the first n is the record with this number and hash, or they
\* are those of an empty log.
OnDisk(seq, hash, n) ==
    \/ seq = -1 /\ hash = Genesis
    \/ \E i \in 1..n :
         file[i] # Torn /\ file[i].seq = seq /\ file[i].hash = hash

NoTornLine == \A i \in DOMAIN file : file[i] # Torn

\* As long as no line is torn, every record follows one that was on disk before
\* it: writers with stale tails may fork the chain, but a record never hangs
\* from one that was never written or comes after it.
LinksBack ==
    NoTornLine =>
        \A i \in DOMAIN file : OnDisk(file[i].seq - 1, file[i].prev, i - 1)

\* And a record whose append returned is a line of the file, on its own.
AckedOnDisk ==
    NoTornLine => \A h \in acked : \E i \in DOMAIN file : file[i].hash = h

\* With one process at a time on the file and no write of unknown outcome, the
\* log verifies, through threads that append together, writes that are refused,
\* crashes at any point and restarts.
SoleWriterVerifies == ~shared /\ ~lossy => ChainValid

\* The lines that end with their newline.
Ended == 1..(IF ragged THEN Len(file) - 1 ELSE Len(file))

\* What verify has once accepted of the lines that end with their newline it
\* accepts for ever: no append, of whatever writer, whole, torn or forked, takes
\* anything from the verified part of the log.  A last line that lost only its
\* newline is not of them: verify accepts it, and the next write spoils it.
VerifiedPrefixKept ==
    [][\A n \in Ended : Verified(n) => n \in Ended' /\ Verified(n)']_vars
=============================================================================
