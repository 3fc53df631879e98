--------------------------- MODULE AuditLogProofs ---------------------------
(***************************************************************************)
(* What the audit log guarantees for any number of processes and threads   *)
(* on one file and any of the faults, and what a sole writer guarantees.   *)
(***************************************************************************)
EXTENDS AuditLog, SequenceTheorems, TLAPS

\* It is a line that lacks its newline.
RaggedIsLine == ragged => file # <<>>

\* The tail that a running process has cached was written, whoever wrote since.
TailsOnDisk ==
    \A p \in Procs : lastSeq[p] >= -1 /\ (p \in up /\ NoTornLine => OnDisk(lastSeq[p], lastHash[p], Len(file)))

\* A thread in append holds its logger's lock, which keeps the tail its record
\* was computed from; once written the record is a line of its own.
AppendStory ==
    \A t \in Threads :
        pc[t] # "idle" =>
            /\ ProcOf[t] \in up
            /\ lock[ProcOf[t]] = t
            /\ pending[t].seq = lastSeq[ProcOf[t]] + 1
            /\ pending[t].prev = lastHash[ProcOf[t]]
            /\ pc[t] = "written" /\ NoTornLine => \E i \in DOMAIN file : file[i] = pending[t]

Sole == ~shared /\ ~lossy

UpToDate(p) == lastSeq[p] = Len(file) - 1 /\ lastHash[p] = PrevHash(Len(file) + 1)

\* One process at a time, and no write of unknown outcome: its cached tail is the
\* tail of the file, but between a write and the return.
SoleStory ==
    /\ ~shared => \A p, q \in up : p = q
    /\ ~lossy => ~ragged /\ NoTornLine
    /\ Sole => ChainValid
    /\ Sole => \A t \in Threads : pc[t] = "written" => file # <<>> /\ LastLine = pending[t]
    /\ Sole => \A p \in up : (\A t \in Threads : ProcOf[t] = p => pc[t] # "written") => UpToDate(p)

IInv ==
    /\ TypeOK
    /\ RaggedIsLine
    /\ TailsOnDisk
    /\ AppendStory
    /\ LinksBack
    /\ AckedOnDisk
    /\ SoleStory
-----------------------------------------------------------------------------
LEMMA InitIInv == Init => IInv
<1> SUFFICES ASSUME Init PROVE IInv
  OBVIOUS
<1> USE ConstantsAssumption DEF Init, Hashes, Genesis
<1>1. TypeOK
  <2>1. NoRecord \in Record
    BY DEF NoRecord, Record
  <2>2. 0 \in Hashes
    OBVIOUS
  <2>3. file \in Seq(Record \cup {Torn}) /\ acked \subseteq Hashes
    OBVIOUS
  <2> HIDE DEF Hashes
  <2>4. lastSeq \in [Procs -> Int] /\ lastHash \in [Procs -> Hashes] /\ made \in Hashes
    BY <2>2
  <2>5. lock \in [Procs -> Threads \cup {NoThread}] /\ pc \in [Threads -> {"idle", "computed", "written"}]
    OBVIOUS
  <2>6. pending \in [Threads -> Record]
    BY <2>1
  <2> QED BY <2>3, <2>4, <2>5, <2>6 DEF TypeOK
<1>2. RaggedIsLine /\ TailsOnDisk /\ AppendStory
  BY DEF RaggedIsLine, TailsOnDisk, AppendStory
<1>3. DOMAIN file = {}
  OBVIOUS
<1>4. LinksBack /\ AckedOnDisk
  BY <1>3 DEF LinksBack, AckedOnDisk
<1>5. ChainValid /\ NoTornLine
  BY <1>3 DEF ChainValid, NoTornLine
<1>6. SoleStory
  BY <1>5 DEF SoleStory
<1> QED BY <1>1, <1>2, <1>4, <1>6 DEF IInv

\* A line is written behind the last one or, that one lacking its newline, into it.
Grows ==
    \/ file' = file /\ (ragged' => ragged)
    \/ \E x \in Record \cup {Torn} : Extend(x)

LEMMA FileGrows ==
    ASSUME TypeOK, [Next]_vars
    PROVE  Grows
<1>1. ASSUME NEW p \in Procs, Start(p) \/ Crash(p) PROVE Grows
  BY <1>1 DEF Start, Crash, Grows
<1>2. ASSUME NEW t \in Threads, Step(t) PROVE Grows
  <2>1. pending[t] \in Record
    BY DEF TypeOK
  <2>2. CASE Compute(t) \/ Return(t) \/ WriteRefused(t)
    BY <2>2 DEF Compute, ComputeRecord, Return, WriteRefused, Grows
  <2>3. CASE Write(t) \/ WriteUnacked(t)
    BY <2>1, <2>3 DEF Write, WriteUnacked, Land, Grows
  <2>4. CASE WriteTorn(t)
    BY <2>1, <2>4 DEF WriteTorn, Grows
  <2> QED BY <1>2, <2>2, <2>3, <2>4 DEF Step
<1>3. CASE UNCHANGED vars
  BY <1>3 DEF vars, Grows
<1> QED BY <1>1, <1>2, <1>3 DEF Next

LEMMA Extended ==
    ASSUME TypeOK, RaggedIsLine, NEW x \in Record \cup {Torn}, Extend(x)
    PROVE  /\ file' \in Seq(Record \cup {Torn})
           /\ Len(file') = IF ragged THEN Len(file) ELSE Len(file) + 1
           /\ \A i \in 1..Len(file) : file'[i] = IF ragged /\ i = Len(file) THEN Torn ELSE file[i]
           /\ Len(file') > 0
           /\ file'[Len(file')] = IF ragged THEN Torn ELSE x
<1>1. file \in Seq(Record \cup {Torn}) /\ Len(file) \in Nat /\ DOMAIN file = 1..Len(file)
  BY DEF TypeOK
<1>2. CASE ragged
  <2>1. file' = [file EXCEPT ![Len(file)] = Torn] /\ Len(file) \in 1..Len(file)
    BY <1>1, <1>2 DEF Extend, RaggedIsLine
  <2> QED BY <1>1, <1>2, <2>1
<1>3. CASE ~ragged
  <2>1. file' = Append(file, x)
    BY <1>3 DEF Extend
  <2> QED BY <1>1, <1>3, <2>1
<1> QED BY <1>2, <1>3

\* A line that ends with its newline stays as it is, and with no line torn all do.
LEMMA LinesStay ==
    ASSUME TypeOK, RaggedIsLine, Grows
    PROVE  /\ Len(file) \in Nat /\ DOMAIN file = 1..Len(file)
           /\ Len(file') \in Nat /\ DOMAIN file' = 1..Len(file')
           /\ Len(file) <= Len(file')
           /\ \A i \in 1..Len(file) : file'[i] = file[i] \/ (ragged /\ i = Len(file))
           /\ NoTornLine' => NoTornLine /\ \A i \in 1..Len(file) : file'[i] = file[i]
<1>1. file \in Seq(Record \cup {Torn}) /\ Len(file) \in Nat /\ DOMAIN file = 1..Len(file)
  BY DEF TypeOK
<1>2. CASE file' = file
  BY <1>1, <1>2 DEF NoTornLine
<1>3. ASSUME NEW x \in Record \cup {Torn}, Extend(x)
      PROVE  /\ Len(file') \in Nat /\ DOMAIN file' = 1..Len(file')
             /\ Len(file) <= Len(file')
             /\ \A i \in 1..Len(file) : file'[i] = file[i] \/ (ragged /\ i = Len(file))
             /\ NoTornLine' => NoTornLine /\ \A i \in 1..Len(file) : file'[i] = file[i]
  <2>1. /\ file' \in Seq(Record \cup {Torn})
        /\ Len(file') = IF ragged THEN Len(file) ELSE Len(file) + 1
        /\ \A i \in 1..Len(file) : file'[i] = IF ragged /\ i = Len(file) THEN Torn ELSE file[i]
        /\ Len(file') > 0
        /\ file'[Len(file')] = IF ragged THEN Torn ELSE x
    BY <1>3, Extended
  <2>2. Len(file') \in Nat /\ DOMAIN file' = 1..Len(file') /\ Len(file) <= Len(file')
    <3>1. PICK m \in Nat : m = Len(file)
      BY <1>1
    <3>2. file' \in Seq(Record \cup {Torn}) /\ Len(file') = IF ragged THEN m ELSE m + 1
      BY <2>1, <3>1
    <3>3. Len(file') \in Nat /\ DOMAIN file' = 1..Len(file')
      BY <3>2
    <3> QED BY <3>1, <3>2, <3>3
  <2>3. Len(file') \in DOMAIN file' /\ 1..Len(file) \subseteq DOMAIN file'
    <3>1. PICK m \in Nat, k \in Nat : m = Len(file) /\ k = Len(file')
      BY <1>1, <2>2
    <3>2. DOMAIN file' = 1..k /\ k > 0 /\ m <= k
      BY <2>1, <2>2, <3>1
    <3> QED BY <3>1, <3>2
  <2>4. ASSUME NoTornLine'
        PROVE  NoTornLine /\ \A i \in 1..Len(file) : file'[i] = file[i]
    <3>1. ~ragged
      BY <2>1, <2>3, <2>4 DEF NoTornLine
    <3>2. \A i \in 1..Len(file) : file'[i] = file[i]
      BY <2>1, <3>1
    <3>3. NoTornLine
      BY <1>1, <2>3, <2>4, <3>2 DEF NoTornLine
    <3> QED BY <3>2, <3>3
  <2> QED BY <2>1, <2>2, <2>4
<1> QED BY <1>1, <1>2, <1>3 DEF Grows

LEMMA TypesStep ==
    ASSUME TypeOK, RaggedIsLine, TailsOnDisk, [Next]_vars
    PROVE  TypeOK'
<1> USE ConstantsAssumption DEF TypeOK
<1>0. file' \in Seq(Record \cup {Torn})
  <2>1. Grows
    BY FileGrows
  <2>2. CASE file' = file
    BY <2>2
  <2>3. ASSUME NEW x \in Record \cup {Torn}, Extend(x)
        PROVE  file' \in Seq(Record \cup {Torn})
    BY <2>3, Extended
  <2> QED BY <2>1, <2>2, <2>3 DEF Grows
<1>1. ASSUME NEW p \in Procs, Start(p) PROVE TypeOK'
  <2>1. file # <<>> => LastLine \in Record
    BY <1>1 DEF Start, LastLine
  <2>2. lastSeq'[p] \in Int /\ lastHash'[p] \in Hashes
    BY <1>1, <2>1 DEF Start, Record, Hashes, Genesis
  <2> QED BY <1>1, <2>2 DEF Start
<1>2. ASSUME NEW p \in Procs, Crash(p) PROVE TypeOK'
  BY <1>2 DEF Crash
<1>3. ASSUME NEW t \in Threads, Compute(t) PROVE TypeOK'
  <2>1. pending'[t] \in Record
    BY <1>3 DEF Compute, ComputeRecord, TailsOnDisk, Record, Hashes
  <2> QED BY <1>3, <2>1 DEF Compute, ComputeRecord, Hashes
<1>4. ASSUME NEW t \in Threads, Write(t) \/ WriteRefused(t) \/ WriteTorn(t) \/ WriteUnacked(t)
      PROVE  TypeOK'
  BY <1>0, <1>4 DEF Write, WriteRefused, WriteTorn, WriteUnacked, Land, Raise
<1>5. ASSUME NEW t \in Threads, Return(t) PROVE TypeOK'
  <2>1. pending[t].seq \in Int /\ pending[t].hash \in Hashes
    BY DEF Record
  <2> QED BY <1>5, <2>1 DEF Return
<1>6. CASE UNCHANGED vars
  BY <1>6 DEF vars
<1> QED BY <1>1, <1>2, <1>3, <1>4, <1>5, <1>6 DEF Next, Step

LEMMA RaggedStep ==
    ASSUME TypeOK, RaggedIsLine, [Next]_vars
    PROVE  RaggedIsLine'
<1>1. Grows
  BY FileGrows
<1>2. CASE file' = file /\ (ragged' => ragged)
  BY <1>2 DEF RaggedIsLine
<1>3. ASSUME NEW x \in Record \cup {Torn}, Extend(x) PROVE RaggedIsLine'
  <2>1. Len(file') > 0
    BY <1>3, Extended
  <2> QED BY <2>1 DEF RaggedIsLine
<1> QED BY <1>1, <1>2, <1>3 DEF Grows

\* A line written and not torn, to a file without torn lines, is its last line.
LEMMA Landed ==
    ASSUME IInv, NEW t \in Threads, Extend(pending[t]), NoTornLine'
    PROVE  /\ NoTornLine /\ ~ragged
           /\ Len(file') = Len(file) + 1
           /\ \A i \in 1..Len(file) : file'[i] = file[i]
           /\ file'[Len(file')] = pending[t]
           /\ pending[t] # Torn
<1>0. TypeOK /\ RaggedIsLine /\ pending[t] \in Record
  BY DEF IInv, TypeOK
<1>1. /\ file' \in Seq(Record \cup {Torn})
      /\ Len(file') = IF ragged THEN Len(file) ELSE Len(file) + 1
      /\ Len(file') > 0
      /\ file'[Len(file')] = IF ragged THEN Torn ELSE pending[t]
  BY <1>0, Extended
<1>2. Len(file') \in DOMAIN file'
  BY <1>1
<1>3. ~ragged
  BY <1>1, <1>2 DEF NoTornLine
<1>4. NoTornLine /\ \A i \in 1..Len(file) : file'[i] = file[i]
  BY <1>0, LinesStay DEF Grows
<1> QED BY <1>0, <1>1, <1>3, <1>4, TornAssumption

LEMMA TailsStep ==
    ASSUME IInv, [Next]_vars
    PROVE  TailsOnDisk'
<1>0. /\ TypeOK /\ TailsOnDisk /\ Grows
      /\ Len(file) \in Nat /\ DOMAIN file = 1..Len(file)
      /\ Len(file') \in Nat /\ DOMAIN file' = 1..Len(file')
      /\ Len(file) <= Len(file')
      /\ NoTornLine' => NoTornLine /\ \A i \in 1..Len(file) : file'[i] = file[i]
  BY FileGrows, LinesStay DEF IInv
<1>1. ASSUME NEW p \in Procs, Start(p) PROVE TailsOnDisk'
  <2>1. file' = file /\ up' = up \cup {p}
    BY <1>1 DEF Start
  <2>2. lastSeq'[p] >= -1 /\ OnDisk(lastSeq[p], lastHash[p], Len(file))'
    <3>1. CASE file = <<>>
      BY <1>0, <1>1, <3>1 DEF Start, TypeOK, OnDisk
    <3>2. CASE file # <<>>
      <4>1. Len(file) \in 1..Len(file) /\ LastLine # Torn /\ LastLine \in Record
        BY <1>0, <1>1, <3>2 DEF Start, LastLine, TypeOK
      <4>2. lastSeq'[p] = LastLine.seq /\ lastHash'[p] = LastLine.hash
        BY <1>0, <1>1, <3>2 DEF Start, TypeOK
      <4>3. LastLine.seq >= -1
        BY <4>1 DEF Record
      <4> QED BY <2>1, <4>1, <4>2, <4>3 DEF OnDisk, LastLine
    <3> QED BY <3>1, <3>2
  <2>3. \A q \in Procs \ {p} : lastSeq'[q] = lastSeq[q] /\ lastHash'[q] = lastHash[q]
    BY <1>0, <1>1 DEF Start, TypeOK
  <2>4. ASSUME NEW q \in Procs, q # p
        PROVE  lastSeq'[q] >= -1 /\ (q \in up' /\ NoTornLine' => OnDisk(lastSeq[q], lastHash[q], Len(file))')
    BY <1>0, <2>1, <2>3, <2>4 DEF TailsOnDisk, OnDisk
  <2> QED BY <2>2, <2>4 DEF TailsOnDisk
<1>2. ASSUME NEW t \in Threads, Return(t) PROVE TailsOnDisk'
  <2> DEFINE q == ProcOf[t]
  <2>1. file' = file /\ up' = up
    BY <1>2 DEF Return
  <2>2. q \in Procs /\ pending[t] \in Record
    BY <1>0, ConstantsAssumption DEF TypeOK
  <2>3. /\ lastSeq'[q] = pending[t].seq /\ lastHash'[q] = pending[t].hash
        /\ \A p \in Procs \ {q} : lastSeq'[p] = lastSeq[p] /\ lastHash'[p] = lastHash[p]
    BY <1>0, <1>2, <2>2 DEF Return, TypeOK
  <2>4. pending[t].seq >= -1
    BY <2>2 DEF Record
  <2>5. NoTornLine => \E i \in DOMAIN file : file[i] = pending[t]
    BY <1>2 DEF Return, IInv, AppendStory
  <2>6. NoTornLine' => OnDisk(lastSeq[q], lastHash[q], Len(file))'
    BY <1>0, <2>1, <2>2, <2>3, <2>5 DEF OnDisk, NoTornLine
  <2>7. ASSUME NEW p \in Procs, p # q
        PROVE  lastSeq'[p] >= -1 /\ (p \in up' /\ NoTornLine' => OnDisk(lastSeq[p], lastHash[p], Len(file))')
    BY <1>0, <2>1, <2>3, <2>7 DEF TailsOnDisk, OnDisk
  <2> HIDE DEF q
  <2> QED BY <2>3, <2>4, <2>6, <2>7 DEF TailsOnDisk
<1>3. ASSUME UNCHANGED <<lastSeq, lastHash>>, up' \subseteq up PROVE TailsOnDisk'
  BY <1>0, <1>3 DEF TailsOnDisk, OnDisk
<1>4. ASSUME NEW p \in Procs, Crash(p) PROVE TailsOnDisk'
  BY <1>3, <1>4 DEF Crash
<1>5. ASSUME NEW t \in Threads,
             Compute(t) \/ Write(t) \/ WriteRefused(t) \/ WriteTorn(t) \/ WriteUnacked(t)
      PROVE  TailsOnDisk'
  BY <1>3, <1>5 DEF Compute, ComputeRecord, Write, WriteRefused, WriteTorn, WriteUnacked, Raise
<1>6. CASE UNCHANGED vars
  BY <1>3, <1>6 DEF vars
<1> QED BY <1>1, <1>2, <1>4, <1>5, <1>6 DEF Next, Step

\* A thread in append has its process to itself.
LEMMA AppendStoryStep ==
    ASSUME IInv, [Next]_vars
    PROVE  AppendStory'
<1> DEFINE Story(t) == pc[t] # "idle" =>
               /\ ProcOf[t] \in up
               /\ lock[ProcOf[t]] = t
               /\ pending[t].seq = lastSeq[ProcOf[t]] + 1
               /\ pending[t].prev = lastHash[ProcOf[t]]
               /\ pc[t] = "written" /\ NoTornLine => \E i \in DOMAIN file : file[i] = pending[t]
<1>0. /\ TypeOK /\ \A t \in Threads : Story(t) /\ ProcOf[t] \in Procs /\ t # NoThread
      /\ Len(file) \in Nat /\ DOMAIN file = 1..Len(file)
      /\ Len(file') \in Nat /\ DOMAIN file' = 1..Len(file')
      /\ Len(file) <= Len(file')
      /\ NoTornLine' => NoTornLine /\ \A i \in 1..Len(file) : file'[i] = file[i]
  BY FileGrows, LinesStay, ConstantsAssumption DEF IInv, AppendStory
<1> SUFFICES ASSUME NEW u \in Threads PROVE Story(u)'
  BY DEF AppendStory
<1>1. ASSUME UNCHANGED <<pc, pending>>, ProcOf[u] \in up => ProcOf[u] \in up',
             pc[u] # "idle" => UNCHANGED <<lock[ProcOf[u]], lastSeq[ProcOf[u]], lastHash[ProcOf[u]]>>
      PROVE  Story(u)'
  BY <1>0, <1>1
<1>2. ASSUME NEW p \in Procs, Start(p) PROVE Story(u)'
  <2>1. pc[u] # "idle" => ProcOf[u] # p
    BY <1>0, <1>2 DEF Start
  <2> QED BY <1>0, <1>1, <1>2, <2>1 DEF Start, TypeOK
<1>3. ASSUME NEW p \in Procs, Crash(p) PROVE Story(u)'
  <2>1. pc'[u] # "idle" => pc[u] # "idle" /\ pc'[u] = pc[u] /\ ProcOf[u] # p
    BY <1>3 DEF Crash
  <2> QED BY <1>0, <1>3, <2>1 DEF Crash, TypeOK
<1>4. ASSUME NEW t \in Threads, Compute(t) PROVE Story(u)'
  <2>1. CASE u = t
    BY <1>0, <1>4, <2>1 DEF Compute, ComputeRecord, TypeOK
  <2>2. CASE u # t
    <3>1. pc'[u] = pc[u] /\ pending'[u] = pending[u]
      BY <1>0, <1>4, <2>2 DEF Compute, ComputeRecord, TypeOK
    <3>2. pc[u] # "idle" => lock'[ProcOf[u]] = lock[ProcOf[u]]
      BY <1>0, <1>4, <2>2 DEF Compute, ComputeRecord, TypeOK
    <3> QED BY <1>0, <1>4, <3>1, <3>2 DEF Compute, ComputeRecord
  <2> QED BY <2>1, <2>2
<1>5. ASSUME NEW t \in Threads, Write(t) PROVE Story(u)'
  <2>1. /\ pc' = [pc EXCEPT ![t] = "written"]
        /\ UNCHANGED <<up, lastSeq, lastHash, lock, pending>>
    BY <1>5 DEF Write
  <2>2. CASE u = t
    <3>1. NoTornLine' => \E i \in DOMAIN file' : file'[i] = pending[t]
      <4>1. ASSUME NoTornLine'
            PROVE  Len(file') = Len(file) + 1 /\ file'[Len(file')] = pending[t]
        BY <1>5, <4>1, Landed DEF Write, Land
      <4>2. ASSUME NoTornLine' PROVE Len(file') \in DOMAIN file'
        BY <1>0, <4>1, <4>2
      <4> QED BY <4>1, <4>2
    <3>2. pc[t] # "idle"
      BY <1>5 DEF Write
    <3> QED BY <1>0, <2>1, <2>2, <3>1, <3>2
  <2>3. CASE u # t
    BY <1>0, <2>1, <2>3 DEF TypeOK
  <2> QED BY <2>2, <2>3
<1>6. ASSUME NEW t \in Threads, Return(t) \/ WriteRefused(t) \/ WriteTorn(t) \/ WriteUnacked(t)
      PROVE  Story(u)'
  <2>1. /\ pc[t] # "idle" /\ pc' = [pc EXCEPT ![t] = "idle"]
        /\ lock' = [lock EXCEPT ![ProcOf[t]] = NoThread]
        /\ UNCHANGED <<up, pending>>
        /\ \A p \in Procs \ {ProcOf[t]} : lastSeq'[p] = lastSeq[p] /\ lastHash'[p] = lastHash[p]
    <3>1. CASE Return(t)
      BY <1>0, <3>1 DEF Return, TypeOK
    <3>2. CASE WriteRefused(t) \/ WriteTorn(t) \/ WriteUnacked(t)
      BY <3>2 DEF WriteRefused, WriteTorn, WriteUnacked, Raise
    <3> QED BY <1>6, <3>1, <3>2
  <2>2. CASE u = t
    BY <1>0, <2>1, <2>2 DEF TypeOK
  <2>3. CASE u # t
    <3>1. pc'[u] = pc[u]
      BY <1>0, <2>1, <2>3 DEF TypeOK
    <3>2. pc[u] # "idle" => ProcOf[u] # ProcOf[t]
      BY <1>0, <2>1, <2>3
    <3> QED BY <1>0, <2>1, <3>1, <3>2 DEF TypeOK
  <2> QED BY <2>2, <2>3
<1>7. CASE UNCHANGED vars
  BY <1>1, <1>7 DEF vars
<1> QED BY <1>2, <1>3, <1>4, <1>5, <1>6, <1>7 DEF Next, Step

\* A record hangs from the tail that its process has cached, which was on disk.
LEMMA LinksStep ==
    ASSUME IInv, [Next]_vars
    PROVE  LinksBack' /\ AckedOnDisk'
<1>0. /\ TypeOK /\ AppendStory /\ TailsOnDisk /\ LinksBack /\ AckedOnDisk
      /\ Len(file) \in Nat /\ DOMAIN file = 1..Len(file)
      /\ Len(file') \in Nat /\ DOMAIN file' = 1..Len(file')
      /\ Len(file) <= Len(file')
      /\ NoTornLine' => NoTornLine /\ \A i \in 1..Len(file) : file'[i] = file[i]
  BY FileGrows, LinesStay DEF IInv
<1>1. ASSUME file' = file PROVE LinksBack'
  BY <1>0, <1>1 DEF LinksBack, OnDisk
<1>2. ASSUME acked' = acked PROVE AckedOnDisk'
  BY <1>0, <1>2 DEF AckedOnDisk
<1>3. ASSUME NEW t \in Threads, pc[t] = "computed", Extend(pending[t])
      PROVE  LinksBack'
  <2> SUFFICES ASSUME NoTornLine', NEW i \in 1..Len(file')
               PROVE  OnDisk(file[i].seq - 1, file[i].prev, i - 1)'
    BY <1>0 DEF LinksBack
  <2>1. /\ NoTornLine /\ Len(file') = Len(file) + 1
        /\ \A j \in 1..Len(file) : file'[j] = file[j]
        /\ file'[Len(file')] = pending[t]
    BY <1>3, Landed
  <2>2. CASE i <= Len(file)
    <3>1. OnDisk(file[i].seq - 1, file[i].prev, i - 1)
      BY <1>0, <2>1, <2>2 DEF LinksBack
    <3> QED BY <1>0, <2>1, <2>2, <3>1 DEF OnDisk
  <2>3. CASE i = Len(file) + 1
    <3> DEFINE p == ProcOf[t]
    <3>1. p \in Procs /\ lastSeq[p] \in Int
      BY <1>0, ConstantsAssumption DEF TypeOK
    <3>2. p \in up /\ pending[t].seq = lastSeq[p] + 1 /\ pending[t].prev = lastHash[p]
      BY <1>0, <1>3 DEF AppendStory
    <3>3. OnDisk(lastSeq[p], lastHash[p], Len(file))
      BY <1>0, <2>1, <3>1, <3>2 DEF TailsOnDisk
    <3>4. file'[i].seq - 1 = lastSeq[p] /\ file'[i].prev = lastHash[p] /\ i - 1 = Len(file)
      BY <1>0, <2>1, <2>3, <3>1, <3>2
    <3> HIDE DEF p
    <3> QED BY <1>0, <2>1, <3>3, <3>4 DEF OnDisk
  <2> QED BY <1>0, <2>1, <2>2, <2>3
<1>4. ASSUME NEW p \in Procs, Start(p) \/ Crash(p) PROVE LinksBack' /\ AckedOnDisk'
  BY <1>1, <1>2, <1>4 DEF Start, Crash
<1>5. ASSUME NEW t \in Threads, Compute(t) \/ WriteRefused(t) PROVE LinksBack' /\ AckedOnDisk'
  BY <1>1, <1>2, <1>5 DEF Compute, ComputeRecord, WriteRefused, Raise
<1>6. ASSUME NEW t \in Threads, Write(t) \/ WriteUnacked(t) PROVE LinksBack' /\ AckedOnDisk'
  BY <1>2, <1>3, <1>6 DEF Write, WriteUnacked, Land, Raise
<1>7. ASSUME NEW t \in Threads, WriteTorn(t) PROVE LinksBack' /\ AckedOnDisk'
  <2>1. pc[t] = "computed" /\ acked' = acked /\ (Extend(Torn) \/ Extend(pending[t]))
    BY <1>7 DEF WriteTorn, Raise
  <2>2. CASE Extend(Torn)
    <3>1. /\ file' \in Seq(Record \cup {Torn}) /\ Len(file') > 0
          /\ file'[Len(file')] = Torn
      BY <2>2, Extended DEF IInv
    <3>2. Len(file') \in DOMAIN file'
      BY <3>1
    <3>3. ~NoTornLine'
      BY <3>1, <3>2 DEF NoTornLine
    <3> QED BY <3>3 DEF LinksBack, AckedOnDisk
  <2> QED BY <1>2, <1>3, <2>1, <2>2
<1>8. ASSUME NEW t \in Threads, Return(t) PROVE LinksBack' /\ AckedOnDisk'
  <2>1. file' = file /\ acked' = acked \cup {pending[t].hash} /\ pc[t] = "written"
    BY <1>8 DEF Return
  <2>2. NoTornLine => \E i \in DOMAIN file : file[i] = pending[t]
    BY <1>0, <2>1 DEF AppendStory
  <2>3. AckedOnDisk'
    BY <1>0, <2>1, <2>2 DEF AckedOnDisk
  <2> QED BY <1>1, <2>1, <2>3
<1>9. CASE UNCHANGED vars
  BY <1>1, <1>2, <1>9 DEF vars
<1> QED BY <1>4, <1>5, <1>6, <1>7, <1>8, <1>9 DEF Next, Step

\* What a process caches of a valid chain is the tail that the next record needs.
LEMMA TailOfChain ==
    ASSUME TypeOK, NoTornLine, ChainValid, file # <<>>
    PROVE  LastLine.seq = Len(file) - 1 /\ LastLine.hash = PrevHash(Len(file) + 1)
<1>1. Len(file) \in DOMAIN file /\ Len(file) + 1 # 1 /\ Len(file) + 1 - 1 = Len(file)
  BY DEF TypeOK
<1> QED BY <1>1 DEF ChainValid, Good, LastLine, PrevHash

\* One process at a time stays so, and no other step makes a line doubtful.
LEMMA SoleStays ==
    ASSUME IInv, [Next]_vars
    PROVE  /\ Sole' => Sole
           /\ ~shared' => \A p, q \in up' : p = q
           /\ ~lossy' => ~ragged' /\ NoTornLine'
<1>0. TypeOK /\ SoleStory
  BY DEF IInv
<1>1. ASSUME UNCHANGED <<file, ragged, lossy>> PROVE ~lossy' => ~ragged' /\ NoTornLine'
  BY <1>0, <1>1 DEF SoleStory, NoTornLine
<1>2. ASSUME up' \subseteq up, UNCHANGED shared PROVE ~shared' => \A p, q \in up' : p = q
  BY <1>0, <1>2 DEF SoleStory
<1>3. ASSUME NEW p \in Procs, Start(p)
      PROVE  (Sole' => Sole) /\ ~shared' => \A r, q \in up' : r = q
  BY <1>0, <1>3 DEF Start, SoleStory, Sole
<1>4. ASSUME NEW t \in Threads, Write(t)
      PROVE  ~lossy' => ~ragged' /\ NoTornLine'
  <2>1. CASE lossy
    BY <1>4, <2>1 DEF Write
  <2>2. CASE ~lossy
    <3>1. NoTornLine /\ file' = Append(file, pending[t]) /\ ~ragged'
      BY <1>0, <1>4, <2>2 DEF SoleStory, Write, Land, Extend
    <3>2. pending[t] # Torn /\ pending[t] \in Record
      BY <1>0, TornAssumption DEF TypeOK
    <3> QED BY <1>0, <3>1, <3>2 DEF TypeOK, NoTornLine
  <2> QED BY <2>1, <2>2
<1>5. ASSUME NEW p \in Procs, Start(p) \/ Crash(p) PROVE UNCHANGED <<file, ragged, lossy>>
  BY <1>5 DEF Start, Crash
<1>6. ASSUME NEW t \in Threads, Compute(t) \/ Return(t) \/ WriteRefused(t)
      PROVE  UNCHANGED <<file, ragged, lossy>>
  BY <1>6 DEF Compute, ComputeRecord, Return, WriteRefused
<1>7. ASSUME NEW t \in Threads, Step(t) PROVE UNCHANGED <<up, shared>> /\ (~lossy' => ~lossy)
  BY <1>7 DEF Step, Compute, ComputeRecord, Write, Return, WriteRefused, WriteTorn, WriteUnacked, Raise
<1>8. ASSUME NEW t \in Threads, WriteTorn(t) \/ WriteUnacked(t) PROVE lossy'
  BY <1>8 DEF WriteTorn, WriteUnacked
<1>9. ASSUME NEW p \in Procs, Crash(p) PROVE up' \subseteq up /\ UNCHANGED <<shared, lossy>>
  BY <1>9 DEF Crash
<1>10. CASE UNCHANGED vars
  BY <1>1, <1>2, <1>10 DEF vars, Sole
<1>11. ASSUME NEW p \in Procs, Start(p) \/ Crash(p) PROVE
           /\ Sole' => Sole
           /\ ~shared' => \A r, q \in up' : r = q
           /\ ~lossy' => ~ragged' /\ NoTornLine'
  BY <1>1, <1>2, <1>3, <1>5, <1>9, <1>11 DEF Sole, Start
<1>12. ASSUME NEW t \in Threads, Step(t) PROVE
           /\ Sole' => Sole
           /\ ~shared' => \A r, q \in up' : r = q
           /\ ~lossy' => ~ragged' /\ NoTornLine'
  BY <1>1, <1>2, <1>4, <1>6, <1>7, <1>8, <1>12 DEF Sole, Step
<1> QED BY <1>10, <1>11, <1>12 DEF Next

\* Between a write and its return the tail of the file is the record written.
SoleTail ==
    /\ ChainValid
    /\ \A t \in Threads : pc[t] = "written" => file # <<>> /\ LastLine = pending[t]
    /\ \A p \in up : (\A t \in Threads : ProcOf[t] = p => pc[t] # "written") => UpToDate(p)

LEMMA SoleTailStep ==
    ASSUME IInv, [Next]_vars, Sole'
    PROVE  SoleTail'
<1>0. /\ TypeOK /\ NoTornLine /\ ~ragged /\ SoleTail
      /\ \A p, q \in up : p = q
      /\ \A t \in Threads : pc[t] # "idle" => ProcOf[t] \in up /\ lock[ProcOf[t]] = t
      /\ \A t \in Threads : t # NoThread /\ ProcOf[t] \in Procs
      /\ \A p, q \in up' : p = q
  BY SoleStays, ConstantsAssumption DEF IInv, SoleStory, Sole, SoleTail, AppendStory
<1>1. \A t, u \in Threads : pc[t] # "idle" /\ pc[u] # "idle" => u = t
  BY <1>0
<1>2. ASSUME file' = file
      PROVE  ChainValid'
  BY <1>0, <1>2 DEF SoleTail, ChainValid, Good, PrevHash
<1>3. ASSUME NEW p \in Procs, Start(p) PROVE SoleTail'
  <2>1. file' = file /\ pc' = pc /\ up = {} /\ up' = {p}
    BY <1>3 DEF Start, Sole
  <2>2. \A t \in Threads : pc'[t] = "idle"
    BY <1>0, <2>1 DEF TypeOK
  <2>3. UpToDate(p)'
    <3>1. CASE file = <<>>
      BY <1>0, <1>3, <2>1, <3>1 DEF Start, TypeOK, UpToDate, PrevHash
    <3>2. CASE file # <<>>
      <4>1. lastSeq'[p] = LastLine.seq /\ lastHash'[p] = LastLine.hash
        BY <1>0, <1>3, <3>2 DEF Start, TypeOK
      <4> QED BY <1>0, <2>1, <3>2, <4>1, TailOfChain DEF SoleTail, UpToDate, PrevHash
    <3> QED BY <3>1, <3>2
  <2> QED BY <1>2, <2>1, <2>2, <2>3 DEF SoleTail
<1>4. ASSUME NEW p \in Procs, Crash(p) PROVE SoleTail'
  <2>1. file' = file /\ pending' = pending /\ up' = {}
    BY <1>0, <1>4 DEF Crash
  <2>2. \A t \in Threads : pc'[t] = "written" => pc[t] = "written"
    BY <1>4 DEF Crash
  <2> QED BY <1>0, <1>2, <2>1, <2>2 DEF SoleTail, LastLine
<1>5. ASSUME NEW t \in Threads, Compute(t) \/ WriteRefused(t) PROVE SoleTail'
  <2>1. UNCHANGED <<file, up, lastSeq, lastHash>>
    BY <1>5 DEF Compute, ComputeRecord, WriteRefused, Raise
  <2>2. /\ pc[t] # "written" /\ pc'[t] # "written"
        /\ \A u \in Threads \ {t} : pc'[u] = pc[u] /\ pending'[u] = pending[u]
    BY <1>0, <1>5 DEF Compute, ComputeRecord, WriteRefused, Raise, TypeOK
  <2>3. \A p \in up : UpToDate(p) => UpToDate(p)'
    BY <2>1 DEF UpToDate, PrevHash
  <2> QED BY <1>0, <1>2, <2>1, <2>2, <2>3 DEF SoleTail, LastLine
<1>6. ASSUME NEW t \in Threads, Write(t) PROVE SoleTail'
  <2> DEFINE p == ProcOf[t]
  <2>1. /\ pc[t] = "computed" /\ pc'[t] = "written" /\ UNCHANGED <<up, pending>>
        /\ \A u \in Threads \ {t} : pc'[u] = pc[u]
        /\ Land(pending[t])
    BY <1>0, <1>6 DEF Write, TypeOK
  <2>2. /\ Len(file') = Len(file) + 1 /\ file' = Append(file, pending[t]) /\ file' # <<>>
        /\ \A i \in 1..Len(file) : file'[i] = file[i]
        /\ file'[Len(file) + 1] = pending[t] /\ pending[t] # Torn
        /\ DOMAIN file' = 1..(Len(file) + 1) /\ DOMAIN file = 1..Len(file)
        /\ Len(file) \in Nat
    <3>1. file' = Append(file, pending[t])
      BY <1>0, <2>1 DEF Land, Extend
    <3>2. file \in Seq(Record \cup {Torn}) /\ pending[t] \in Record
      BY <1>0 DEF TypeOK
    <3>3. /\ Len(file') = Len(file) + 1 /\ file' # <<>>
          /\ \A i \in 1..Len(file) : file'[i] = file[i]
          /\ file'[Len(file) + 1] = pending[t]
          /\ DOMAIN file' = 1..(Len(file) + 1) /\ DOMAIN file = 1..Len(file)
          /\ Len(file) \in Nat
      BY <3>1, <3>2, AppendProperties
    <3> QED BY <3>1, <3>2, <3>3, TornAssumption
  <2>3. p \in up /\ \A u \in Threads : pc[u] # "written"
    BY <1>0, <1>1, <2>1
  <2>4. pending[t].seq = Len(file) /\ pending[t].prev = PrevHash(Len(file) + 1)
    <3>1. UpToDate(p)
      BY <1>0, <2>3 DEF SoleTail
    <3>2. pending[t].seq = lastSeq[p] + 1 /\ pending[t].prev = lastHash[p]
      BY <2>1 DEF IInv, AppendStory
    <3> HIDE DEF p
    <3> QED BY <2>2, <3>1, <3>2 DEF UpToDate
  <2>5. ChainValid'
    <3>1. ASSUME NEW i \in 1..Len(file) PROVE PrevHash(i)' = PrevHash(i)
      BY <2>2 DEF PrevHash
    <3>2. \A i \in 1..Len(file) : Good(i)'
      BY <1>0, <2>2, <3>1 DEF SoleTail, ChainValid, Good
    <3>3. PICK n \in Nat : n = Len(file) + 1
      BY <2>2
    <3>4. n - 1 = Len(file) /\ PrevHash(n)' = PrevHash(n)
      <4>1. n - 1 = Len(file) /\ (n # 1 => n - 1 \in 1..Len(file))
        BY <2>2, <3>3
      <4>2. n # 1 => file'[n - 1] = file[n - 1]
        BY <2>2, <4>1
      <4> QED BY <4>1, <4>2 DEF PrevHash
    <3>5. Good(n)'
      BY <2>2, <2>4, <3>3, <3>4 DEF Good
    <3>6. DOMAIN file' = 1..n /\ \A i \in 1..n : i \in 1..Len(file) \/ i = n
      BY <2>2, <3>3
    <3> QED BY <3>2, <3>5, <3>6 DEF ChainValid
  <2>6. LastLine' = pending[t]
    BY <2>2 DEF LastLine
  <2>7. \A u \in Threads : pc'[u] = "written" => u = t
    BY <2>1, <2>3
  <2>8. \A q \in up' : q = ProcOf[t]
    BY <1>0, <2>1, <2>3
  <2> QED BY <2>1, <2>2, <2>5, <2>6, <2>7, <2>8 DEF SoleTail
<1>7. ASSUME NEW t \in Threads, Return(t) PROVE SoleTail'
  <2> DEFINE p == ProcOf[t]
  <2>1. /\ pc[t] = "written" /\ pc'[t] = "idle" /\ UNCHANGED <<file, up>>
        /\ lastSeq'[p] = pending[t].seq /\ lastHash'[p] = pending[t].hash
        /\ \A u \in Threads \ {t} : pc'[u] = pc[u]
    BY <1>0, <1>7 DEF Return, TypeOK
  <2>2. \A u \in Threads : pc'[u] # "written"
    BY <1>0, <1>1, <2>1
  <2>3. \A q \in up' : q = p
    BY <1>0, <2>1
  <2>4. UpToDate(p)'
    <3>1. file # <<>> /\ LastLine = pending[t] /\ ChainValid
      BY <1>0, <2>1 DEF SoleTail
    <3>2. LastLine.seq = Len(file) - 1 /\ LastLine.hash = PrevHash(Len(file) + 1)
      BY <1>0, <3>1, TailOfChain
    <3> HIDE DEF p
    <3> QED BY <2>1, <3>1, <3>2 DEF UpToDate, PrevHash
  <2> HIDE DEF p
  <2> QED BY <1>2, <2>1, <2>2, <2>3, <2>4 DEF SoleTail
<1>8. ASSUME NEW t \in Threads, WriteTorn(t) \/ WriteUnacked(t) PROVE FALSE
  BY <1>8 DEF WriteTorn, WriteUnacked, Sole
<1>9. CASE UNCHANGED vars
  BY <1>0, <1>9 DEF vars, SoleTail, ChainValid, Good, PrevHash, LastLine, UpToDate
<1> QED BY <1>3, <1>4, <1>5, <1>6, <1>7, <1>8, <1>9 DEF Next, Step

LEMMA IInvStep ==
    ASSUME IInv, [Next]_vars
    PROVE  IInv'
<1>1. TypeOK' /\ RaggedIsLine' /\ TailsOnDisk' /\ AppendStory'
  BY TypesStep, RaggedStep, TailsStep, AppendStoryStep DEF IInv
<1>2. LinksBack' /\ AckedOnDisk'
  BY LinksStep
<1>3. SoleStory'
  BY SoleStays, SoleTailStep DEF SoleStory, SoleTail
<1> QED BY <1>1, <1>2, <1>3 DEF IInv

LEMMA IInvHolds == Spec => []IInv
  BY InitIInv, IInvStep, PTL DEF Spec

\* LinksBack: every record hangs from one that was on disk before it, as long as
\* no line is torn, with stale writers and whatever else fails.
THEOREM RecordsHang == Spec => []LinksBack
<1>1. IInv => LinksBack
  BY DEF IInv
<1> QED BY <1>1, IInvHolds, PTL

\* AckedOnDisk: and a record whose append returned is a line of the file.
THEOREM AckedIsDurable == Spec => []AckedOnDisk
<1>1. IInv => AckedOnDisk
  BY DEF IInv
<1> QED BY <1>1, IInvHolds, PTL

\* SoleWriterVerifies: the log of one process at a time verifies, whatever its
\* threads interleave, whichever writes are refused, and wherever it crashes.
THEOREM SoleWriterKeepsChain == Spec => []SoleWriterVerifies
<1>1. IInv => SoleWriterVerifies
  BY DEF IInv, SoleStory, Sole, SoleWriterVerifies
<1> QED BY <1>1, IInvHolds, PTL

\* VerifiedPrefixKept: no step of any writer, and no fault, takes anything from
\* what verify accepts of the lines that end with their newline.
THEOREM VerifiedNeverShrinks == Spec => VerifiedPrefixKept
<1>1. ASSUME IInv, [Next]_vars, NEW n \in Ended, Verified(n)
      PROVE  n \in Ended' /\ Verified(n)'
  <2>0. TypeOK /\ RaggedIsLine /\ Grows
    BY <1>1, FileGrows DEF IInv
  <2>1. /\ Len(file) \in Nat /\ Len(file') \in Nat /\ Len(file) <= Len(file')
        /\ \A i \in 1..Len(file) : file'[i] = file[i] \/ (ragged /\ i = Len(file))
    BY <2>0, LinesStay
  <2>2. n \in Nat /\ n \in 1..Len(file) /\ (ragged => n < Len(file))
    BY <1>1, <2>1 DEF Ended
  <2>3. \A i \in 1..n : file'[i] = file[i]
    BY <2>1, <2>2
  <2>4. \A i \in 1..n : Good(i) => Good(i)'
    BY <2>2, <2>3 DEF Good, PrevHash
  <2>5. n \in Ended'
    <3>1. CASE file' = file /\ (ragged' => ragged)
      BY <2>1, <2>2, <3>1 DEF Ended
    <3>2. ASSUME NEW x \in Record \cup {Torn}, Extend(x) PROVE n \in Ended'
      <4>1. CASE ragged
        BY <2>1, <2>2, <4>1 DEF Ended
      <4>2. CASE ~ragged
        <5>1. Len(file') = Len(file) + 1
          BY <2>0, <3>2, <4>2, Extended
        <5> QED BY <2>1, <2>2, <5>1 DEF Ended
      <4> QED BY <4>1, <4>2
    <3> QED BY <2>0, <3>1, <3>2 DEF Grows
  <2>6. Verified(n)'
    BY <1>1, <2>4 DEF Verified
  <2> QED BY <2>5, <2>6
<1>2. ASSUME IInv, [Next]_vars
      PROVE  \A n \in Ended : Verified(n) => n \in Ended' /\ Verified(n)'
  BY <1>1, <1>2
<1> QED BY <1>2, IInvHolds, PTL DEF Spec, VerifiedPrefixKept
=============================================================================
