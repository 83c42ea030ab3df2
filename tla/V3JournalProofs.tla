-------------------------- MODULE V3JournalProofs --------------------------
(***************************************************************************)
(* Proofs about the journal of one run, for any set of writers and events, *)
(* any length and any number of process deaths and power losses.           *)
(*                                                                         *)
(* Everything rests on JournalInv: inside the lock, once the repair probe  *)
(* is passed, the file ends at a record boundary, and whoever appends an   *)
(* ordinary event does so behind the history root.                         *)
(***************************************************************************)
EXTENDS V3Journal, TLAPS

\* Past the probe the file ends in a newline.
Sealed == pc \notin {"idle", "repair"} => tail = None

\* An ordinary event is appended behind the history root only.
Rooted == pc # "idle" /\ job.event # Start => ReadJournal # <<>>

JournalInv == TypeOK /\ Sealed /\ NeverGlued /\ OneHistoryRoot /\ Rooted

\* What a reader replays is a sequence of records, however the file ends.
LEMMA ReadJournalType ==
  ASSUME TypeOK, NeverGlued
  PROVE  /\ ReadJournal \in Seq(Record)
         /\ lines \in Seq(Record)
         /\ tail.kind = "whole" => tail.event \in Record /\ ReadJournal = Append(lines, tail.event)
         /\ tail.kind # "whole" => ReadJournal = lines
         /\ tail.kind = "whole" => tail # None
<1>1. lines \in Seq(Record)
  <2>1. Len(lines) \in Nat /\ lines \in [1 .. Len(lines) -> Record \cup {Corrupt}]
    BY DEF TypeOK
  <2>2. \A i \in 1 .. Len(lines) : lines[i] \in Record
    BY <2>1 DEF NeverGlued
  <2>. QED BY <2>1, <2>2
<1>2. tail.kind = "whole" => tail.event \in Record
  BY DEF TypeOK, Segment, None, Torn, Whole
<1>3. tail.kind = "whole" => tail # None
  BY DEF None
<1>. QED BY <1>1, <1>2, <1>3 DEF ReadJournal

\* Every change of the file is one of three: it stays as replayed, one record follows, or
\* (a power loss) a prefix of what was replayed is left.
LEMMA RootKept ==
  ASSUME TypeOK, NeverGlued, OneHistoryRoot, NEW e \in Record,
         e = Start <=> ReadJournal = <<>>
  PROVE  \A i \in 1 .. Len(Append(ReadJournal, e)) : Append(ReadJournal, e)[i] = Start <=> i = 1
<1>1. ReadJournal \in Seq(Record)
  BY ReadJournalType
<1>2. ReadJournal = <<>> <=> Len(ReadJournal) = 0
  BY <1>1
<1>. QED BY <1>1, <1>2 DEF OneHistoryRoot

LEMMA InitInv == ASSUME Init PROVE JournalInv
<1>1. ReadJournal = <<>> /\ lines = <<>> /\ Len(lines) = 0
  BY DEF Init, ReadJournal, None
<1>2. TypeOK
  <2>1. lines \in Seq(Record \cup {Corrupt}) /\ flushed \in 0 .. Len(lines)
    BY <1>1 DEF Init
  <2>2. acked \in Nat /\ kills \in 0 .. MaxKill /\ losses \in 0 .. MaxPower
    BY ConstantsAssumption DEF Init
  <2>. QED BY <2>1, <2>2 DEF Init, TypeOK, NoJob, Segment, Record
<1>3. Sealed /\ NeverGlued /\ OneHistoryRoot /\ Rooted
  BY <1>1 DEF Init, Sealed, NeverGlued, OneHistoryRoot, Rooted
<1>. QED BY <1>2, <1>3 DEF JournalInv

\* The lock is entered and left; the file is what it was.
LEMMA EnterInv ==
  ASSUME JournalInv, NEW w \in Writer, NEW e \in Record, NEW d \in BOOLEAN, Enter(w, e, d)
  PROVE  JournalInv'
<1>1. ReadJournal' = ReadJournal
  BY DEF Enter, ReadJournal
<1>2. TypeOK'
  BY DEF JournalInv, TypeOK, Enter, Disk, Keep
<1>3. Sealed' /\ NeverGlued'
  BY DEF JournalInv, Sealed, NeverGlued, Enter
<1>4. OneHistoryRoot' /\ Rooted'
  BY <1>1 DEF JournalInv, OneHistoryRoot, Rooted, Enter
<1>. QED BY <1>2, <1>3, <1>4 DEF JournalInv

LEMMA RepairInv == ASSUME JournalInv, RepairTail PROVE JournalInv'
<1>1. ReadJournal \in Seq(Record) /\ lines' = ReadJournal /\ tail' = None /\ ReadJournal' = ReadJournal
  BY ReadJournalType DEF JournalInv, RepairTail, Repaired, ReadJournal, None
<1>2. Len(lines) <= Len(ReadJournal)
  BY ReadJournalType DEF JournalInv
<1>3. TypeOK'
  <2>1. lines' \in Seq(Record \cup {Corrupt}) /\ Len(lines') \in Nat
    BY <1>1
  <2>. QED BY <1>1, <1>2, <2>1 DEF JournalInv, TypeOK, RepairTail, Repaired, Disk, Keep, Segment
<1>4. Sealed' /\ Rooted'
  BY <1>1 DEF JournalInv, Sealed, Rooted, RepairTail, Repaired
<1>5. NeverGlued'
  BY <1>1, ConstantsAssumption DEF NeverGlued, Record
<1>6. OneHistoryRoot'
  BY <1>1 DEF JournalInv, OneHistoryRoot
<1>. QED BY <1>3, <1>4, <1>5, <1>6 DEF JournalInv

\* One line is appended at a record boundary.
LEMMA AppendInv == ASSUME JournalInv, AppendLine PROVE JournalInv'
<1>. USE DEF AppendLine, Appended
<1>1. tail = None /\ lines' = Append(lines, job.event) /\ tail' = None /\ job.event \in Record
  BY DEF JournalInv, TypeOK, Sealed, Glued
<1>2. ReadJournal = lines /\ ReadJournal' = Append(ReadJournal, job.event)
  BY <1>1 DEF ReadJournal, None
<1>3. lines \in Seq(Record)
  BY ReadJournalType DEF JournalInv
<1>4. TypeOK'
  <2>1. lines' \in Seq(Record \cup {Corrupt}) /\ Len(lines') = Len(lines) + 1 /\ Len(lines) \in Nat
    BY <1>1, <1>3
  <2>2. pc' \in {"fsync", "leave"}
    BY DEF AfterAppend
  <2>3. job' \in [event : Record, durable : BOOLEAN, created : BOOLEAN] /\ present' = TRUE
    BY DEF JournalInv, TypeOK
  <2>. QED BY <1>1, <2>1, <2>2, <2>3 DEF JournalInv, TypeOK, Disk, Keep, Segment
<1>5. Sealed' /\ Rooted'
  <2>1. ReadJournal' # <<>>
    BY <1>1, <1>2, <1>3
  <2>. QED BY <1>1, <2>1 DEF Sealed, Rooted
<1>6. NeverGlued'
  BY <1>1, <1>3, ConstantsAssumption DEF NeverGlued, Record
<1>7. OneHistoryRoot'
  <2>1. job.event = Start <=> ReadJournal = <<>>
    BY DEF JournalInv, Rooted, IsStart
  <2>. QED BY <1>1, <1>2, <2>1, RootKept DEF JournalInv, OneHistoryRoot
<1>. QED BY <1>4, <1>5, <1>6, <1>7 DEF JournalInv

\* The interrupted write leaves nothing, half a record or a whole one after the last line.
LEMMA ShortWriteInv == ASSUME JournalInv, ShortWrite PROVE JournalInv'
<1>. USE DEF ShortWrite, Leave
<1>1. tail = None /\ job.event \in Record /\ ReadJournal = lines /\ lines' = lines
  BY DEF JournalInv, TypeOK, ReadJournal, None
<1>2. TypeOK'
  BY <1>1, ConstantsAssumption DEF JournalInv, TypeOK, Segment, NoJob, Disk, Record
<1>3. Sealed' /\ Rooted' /\ NeverGlued'
  BY <1>1 DEF JournalInv, Sealed, Rooted, NeverGlued
<1>4. CASE tail' \in {None, Torn}
  <2>1. ReadJournal' = ReadJournal
    BY <1>1, <1>4 DEF ReadJournal, None, Torn
  <2>. QED BY <1>2, <1>3, <2>1 DEF JournalInv, OneHistoryRoot
<1>5. CASE tail' = Whole(job.event)
  <2>1. ReadJournal' = Append(ReadJournal, job.event)
    BY <1>1, <1>5 DEF ReadJournal, Whole
  <2>2. job.event = Start <=> ReadJournal = <<>>
    BY DEF JournalInv, Rooted, IsStart
  <2>3. OneHistoryRoot'
    BY <1>1, <2>1, <2>2, RootKept DEF JournalInv, OneHistoryRoot
  <2>. QED BY <1>2, <1>3, <2>3 DEF JournalInv
<1>. QED BY <1>4, <1>5

\* A prefix of the lines, and perhaps the next record without its newline.
LEMMA PowerLossInv == ASSUME JournalInv, PowerLoss PROVE JournalInv'
<1>. USE DEF PowerLoss, Leave
<1>0. lines \in Seq(Record) /\ Len(lines) \in Nat /\ flushed \in 0 .. Len(lines)
  BY ReadJournalType DEF JournalInv, TypeOK
<1>1. Sealed' /\ Rooted'
  BY DEF Sealed, Rooted
<1>2. ASSUME NEW n \in flushed .. Len(lines), lines' = SubSeq(lines, 1, n),
             tail' \in IF n < Len(lines) THEN {None, Torn, Whole(lines[n + 1])} ELSE {None, tail},
             flushed' = n, dirent' = TRUE, present' = TRUE
      PROVE JournalInv'
  <2>1. n \in 0 .. Len(lines)
    BY <1>0, <1>2
  <2>2. lines' \in Seq(Record) /\ Len(lines') = n /\ \A i \in 1 .. n : lines'[i] = lines[i]
    BY <1>0, <1>2, <2>1
  <2>3. n < Len(lines) => lines[n + 1] \in Record
    BY <1>0, <2>1
  <2>4. TypeOK'
    <3>1. tail' \in Segment
      BY <1>2, <2>3 DEF JournalInv, TypeOK, Segment
    <3>2. lines' \in Seq(Record \cup {Corrupt}) /\ flushed' \in 0 .. Len(lines')
      BY <1>2, <2>1, <2>2
    <3>3. pc' = "idle" /\ holder' = "free" /\ job' \in [event : Record, durable : BOOLEAN, created : BOOLEAN]
      BY DEF NoJob, Record
    <3>4. acked' \in Nat /\ kills' \in 0 .. MaxKill /\ losses' \in 0 .. MaxPower
      BY ConstantsAssumption DEF JournalInv, TypeOK
    <3>. QED BY <1>2, <3>1, <3>2, <3>3, <3>4 DEF TypeOK
  <2>5. NeverGlued'
    BY <1>0, <2>1, <2>2 DEF JournalInv, NeverGlued
  <2>6. OneHistoryRoot'
    <3>1. \A i \in 1 .. Len(lines) : ReadJournal[i] = lines[i] /\ i \in 1 .. Len(ReadJournal)
      BY SMTT(30), <1>0, ReadJournalType DEF JournalInv
    <3>2. \A i \in 1 .. Len(lines) : lines[i] = Start <=> i = 1
      BY <3>1 DEF JournalInv, OneHistoryRoot
    <3>3. CASE tail' \in {None, Torn}
      <4>1. ReadJournal' = lines'
        BY <3>3 DEF ReadJournal, None, Torn
      <4>. QED BY <2>1, <2>2, <3>2, <4>1, <1>0 DEF OneHistoryRoot
    <3>4. CASE n < Len(lines) /\ tail' = Whole(lines[n + 1])
      <4>1. ReadJournal' = Append(lines', lines[n + 1])
        BY <3>4 DEF ReadJournal, Whole
      <4>2. Len(ReadJournal') = n + 1 /\ \A i \in 1 .. (n + 1) : ReadJournal'[i] = lines[i]
        BY <4>1, <2>1, <2>2, <2>3, <3>4, <1>0
      <4>. QED BY <4>2, <3>2, <3>4, <2>1, <1>0 DEF OneHistoryRoot
    <3>5. CASE n = Len(lines) /\ tail' = tail
      <4>1. lines' = lines
        BY <3>5, <1>0, <2>2
      <4>2. ReadJournal' = ReadJournal
        BY <3>5, <4>1 DEF ReadJournal
      <4>. QED BY <4>2 DEF JournalInv, OneHistoryRoot
    <3>. QED BY <1>0, <1>2, <2>1, <3>3, <3>4, <3>5
  <2>. QED BY <1>1, <2>4, <2>5, <2>6 DEF JournalInv
<1>3. ASSUME present' = FALSE, lines' = <<>>, tail' = None, flushed' = 0, dirent' = FALSE
      PROVE JournalInv'
  <2>1. ReadJournal' = <<>>
    BY <1>3 DEF ReadJournal, None
  <2>2. lines' \in Seq(Record \cup {Corrupt}) /\ Len(lines') = 0
    BY <1>3
  <2>3. acked' \in Nat /\ kills' \in 0 .. MaxKill /\ losses' \in 0 .. MaxPower
    BY ConstantsAssumption DEF JournalInv, TypeOK
  <2>4. TypeOK'
    <3>0. tail' \in Segment /\ dirent' \in BOOLEAN /\ present' \in BOOLEAN
      BY <1>3, Zenon DEF Segment
    <3>1. flushed' \in 0 .. Len(lines')
      BY <1>3, <2>2
    <3>2. job' \in [event : Record, durable : BOOLEAN, created : BOOLEAN]
      BY DEF NoJob, Record
    <3>3. holder' = "free" /\ pc' = "idle"
      OBVIOUS
    <3>. QED BY <1>3, <2>2, <2>3, <3>0, <3>1, <3>2, <3>3 DEF TypeOK
  <2>. QED BY <1>1, <1>3, <2>1, <2>2, <2>4 DEF JournalInv, NeverGlued, OneHistoryRoot
<1>. QED BY <1>2, <1>3

\* Every other step leaves the file alone.
LEMMA FileKeptInv ==
  ASSUME JournalInv,
         RepairSync \/ StartAlreadyThere \/ FsyncFile \/ FsyncDir \/ Ack \/ Return \/ Kill
           \/ UNCHANGED vars
  PROVE  JournalInv'
<1>1. lines' = lines /\ tail' = tail /\ ReadJournal' = ReadJournal
  BY DEF RepairSync, StartAlreadyThere, FsyncFile, FsyncDir, Ack, Return, Kill, vars, ReadJournal
<1>2. NeverGlued' /\ OneHistoryRoot'
  BY <1>1 DEF JournalInv, NeverGlued, OneHistoryRoot
<1>3. TypeOK'
  <2>. USE DEF JournalInv, TypeOK
  <2>1. CASE RepairSync
    BY <2>1, <1>1 DEF RepairSync, Keep
  <2>2. CASE StartAlreadyThere
    BY <2>2, <1>1 DEF StartAlreadyThere, Disk, Keep
  <2>3. CASE FsyncFile
    BY <2>3, <1>1 DEF FsyncFile, Keep
  <2>4. CASE FsyncDir
    BY <2>4, <1>1 DEF FsyncDir, Keep
  <2>5. NoJob \in [event : Record, durable : BOOLEAN, created : BOOLEAN]
    BY DEF NoJob, Record
  <2>6. CASE Ack
    <3>1. Promised \in Nat
      BY DEF Promised
    <3>. QED BY <2>5, <2>6, <3>1, <1>1 DEF Ack, Leave, Keep
  <2>7. CASE Return
    BY <2>5, <2>7, <1>1 DEF Return, Leave, Disk, Keep
  <2>8. CASE Kill
    BY <2>5, <2>8, <1>1, ConstantsAssumption DEF Kill, Leave, Disk
  <2>9. CASE UNCHANGED vars
    BY <2>9 DEF vars
  <2>. QED BY <2>1, <2>2, <2>3, <2>4, <2>6, <2>7, <2>8, <2>9
<1>4. Sealed' /\ Rooted'
  BY <1>1 DEF JournalInv, Sealed, Rooted, RepairSync, StartAlreadyThere, FsyncFile, FsyncDir,
     Ack, Return, Kill, vars, Leave
<1>. QED BY <1>2, <1>3, <1>4 DEF JournalInv

LEMMA StepInv == JournalInv /\ [Next]_vars => JournalInv'
<1>. SUFFICES ASSUME JournalInv, [Next]_vars PROVE JournalInv'
  OBVIOUS
<1>1. ASSUME NEW w \in Writer, NEW e \in Event, NEW d \in BOOLEAN, Enter(w, e, d) PROVE JournalInv'
  BY <1>1, EnterInv DEF Record
<1>2. ASSUME NEW w \in Writer, Enter(w, Start, TRUE) PROVE JournalInv'
  BY <1>2, EnterInv DEF Record
<1>. QED BY <1>1, <1>2, RepairInv, AppendInv, ShortWriteInv, PowerLossInv, FileKeptInv DEF Next

THEOREM JournalInvariant == Spec => []JournalInv
<1>1. Init => JournalInv
  BY InitInv
<1>2. JournalInv /\ [Next]_vars => JournalInv'
  BY StepInv
<1>. QED BY <1>1, <1>2, PTL DEF Spec

(* The types of the journal's state are kept.                                        *)
THEOREM TypeCorrect == Spec => []TypeOK
BY JournalInvariant, PTL DEF JournalInv

(* No crash of any writer in any write glues two records (repairJournalTailForMutation *)
(* before every append): fail-closed parsing never meets a corrupt committed line.     *)
THEOREM NoGluedRecords == Spec => []NeverGlued
BY JournalInvariant, PTL DEF JournalInv

(* persistV3StartIntent, raced and retried by any number of hosts, leaves one root.    *)
THEOREM SingleRoot == Spec => []OneHistoryRoot
BY JournalInvariant, PTL DEF JournalInv

----------------------------------------------------------------------------
(* The log every reader sees.                                              *)

\* A mutation on its way to the acknowledgement has left a record in the file.
Backed == pc \in {"fsync", "fsyncDir", "ack"} => lines # <<>>

LEMMA BackedInit == Init => Backed
BY DEF Init, Backed

LEMMA BackedStep == JournalInv /\ Backed /\ [Next]_vars => Backed'
<1>. SUFFICES ASSUME JournalInv, Backed, [Next]_vars PROVE Backed'
  OBVIOUS
<1>1. CASE AppendLine
  <2>1. lines \in Seq(Record) /\ job.event \in Record /\ lines' = Append(lines, job.event)
    BY <1>1, ReadJournalType DEF JournalInv, TypeOK, Sealed, AppendLine, Appended, Glued
  <2>. QED BY <2>1 DEF Backed
<1>2. CASE StartAlreadyThere
  <2>1. ReadJournal = lines
    BY <1>2 DEF JournalInv, Sealed, StartAlreadyThere, ReadJournal, None
  <2>. QED BY <1>2, <2>1 DEF Backed, StartAlreadyThere
<1>3. CASE PowerLoss
  BY <1>3 DEF PowerLoss, Leave, Backed
<1>. QED BY <1>1, <1>2, <1>3 DEF Backed, Next, vars, Enter, RepairTail, Repaired, RepairSync,
         FsyncFile, FsyncDir, Ack, Return, Kill, ShortWrite, Leave

LEMMA BackedInvariant == Spec => []Backed
<1>1. Spec => []JournalInv
  BY JournalInvariant
<1>. QED BY <1>1, BackedInit, BackedStep, PTL DEF Spec

\* Without a power loss every step commits one record, acknowledges, or changes nothing.
LEMMA LogStep ==
  ASSUME MaxPower = 0, JournalInv, Backed, [Next]_vars
  PROVE  [Log!Next]_(Log!logVars)
<1>. USE DEF Log!logVars
<1>1. ASSUME NEW e \in Record, ReadJournal' = Append(ReadJournal, e), acked' = acked,
             losses' = losses
      PROVE Log!Next
  BY <1>1 DEF Log!Next, Log!Commit
<1>2. CASE AppendLine
  <2>1. ReadJournal' = Append(ReadJournal, job.event) /\ job.event \in Record /\ acked' = acked
          /\ losses' = losses
    BY <1>2 DEF JournalInv, TypeOK, Sealed, AppendLine, Appended, Glued, ReadJournal, None, Disk,
                Keep
  <2>. QED BY <1>1, <2>1
<1>3. CASE ShortWrite
  <2>1. ReadJournal = lines /\ job.event \in Record /\ acked' = acked /\ lines' = lines
          /\ losses' = losses
    BY <1>3 DEF JournalInv, TypeOK, ShortWrite, ReadJournal, None, Disk
  <2>2. CASE tail' \in {None, Torn}
    BY <2>1, <2>2 DEF ReadJournal, None, Torn
  <2>3. CASE tail' = Whole(job.event)
    <3>1. ReadJournal' = Append(ReadJournal, job.event)
      BY <2>1, <2>3 DEF ReadJournal, Whole
    <3>. QED BY <1>1, <2>1, <3>1
  <2>. QED BY <1>3, <2>2, <2>3 DEF ShortWrite
<1>4. CASE Ack
  <2>1. ReadJournal = lines /\ ReadJournal' = lines /\ lines \in Seq(Record) /\ lines # <<>>
    BY <1>4, ReadJournalType DEF JournalInv, Sealed, Backed, Ack, ReadJournal, None
  <2>2. Promised \in 1 .. Len(lines) /\ acked \in Nat /\ losses' = losses
    BY <1>4, <2>1 DEF Ack, Keep, Promised, JournalInv, TypeOK
  <2>3. CASE Promised > acked
    BY <1>4, <2>1, <2>2, <2>3 DEF Ack, Log!Next, Log!Promise
  <2>4. CASE ~(Promised > acked)
    BY <1>4, <2>1, <2>2, <2>4 DEF Ack
  <2>. QED BY <2>3, <2>4
<1>5. CASE RepairTail
  BY <1>5 DEF RepairTail, Repaired, ReadJournal, None, Disk, Keep
<1>6. ASSUME PowerLoss PROVE FALSE
  BY <1>6 DEF PowerLoss, JournalInv, TypeOK
<1>7. CASE lines' = lines /\ tail' = tail /\ acked' = acked /\ losses' = losses
  BY <1>7 DEF ReadJournal
<1>. QED BY <1>2, <1>3, <1>4, <1>5, <1>6, <1>7 DEF Next, vars, Enter, RepairSync, StartAlreadyThere,
         FsyncFile, FsyncDir, Return, Kill, Disk, Keep

(* However many processes write and die, without a power loss every reader sees an   *)
(* append-only log: one mutation, one committed record, nothing taken back.          *)
THEOREM JournalIsALog == ASSUME MaxPower = 0 PROVE Spec => ImplementsLog
<1>1. Init => Log!Init
  BY DEF Init, Log!Init, ReadJournal, None
<1>2. JournalInv /\ Backed /\ [Next]_vars => [Log!Next]_(Log!logVars)
  BY LogStep
<1>. QED BY <1>1, <1>2, JournalInvariant, BackedInvariant, PTL DEF Spec, ImplementsLog, Log!Spec

----------------------------------------------------------------------------
(* What a durable append promises.                                         *)

\* The first record is forced with its directory entry before anybody else can build on it.
FirstForced ==
  lines # <<>> =>
    (flushed >= 1 /\ dirent) \/ pc = "repairSync" \/ (pc \in {"fsync", "fsyncDir"} /\ IsStart)

\* Only a loss of power leaves an empty file, and its directory entry is on disk then.
EmptyForced == present /\ lines = <<>> => dirent

\* The start intent is durable, and while it is being forced it has created the file itself,
\* unless an entry on disk was left of an earlier one.
StartDurable ==
  IsStart => /\ pc # "idle" => job.durable
             /\ pc = "fsync" => job.created \/ dirent

\* Nobody is half way through a mutation outside the lock.
Locked == holder = "free" => pc = "idle"

DurableInv ==
  /\ Locked
  /\ acked <= flushed
  /\ acked > 0 => dirent
  /\ FirstForced /\ EmptyForced /\ StartDurable
  /\ pc = "fsyncDir" => flushed = Len(lines)
  /\ pc = "ack" => Promised <= flushed /\ dirent

LEMMA DurableInit == Init => DurableInv
BY DEF Init, DurableInv, Locked, FirstForced, EmptyForced, StartDurable, NoJob, IsStart

\* The steps inside the lock, when nobody is killed there.
LEMMA DurableStep ==
  ASSUME MaxKill = 0, JournalInv, Backed, DurableInv, [Next]_vars
  PROVE  DurableInv'
<1>. USE DEF DurableInv, Locked, FirstForced, EmptyForced, StartDurable, IsStart, Promised
<1>0. lines \in Seq(Record) /\ Len(lines) \in Nat /\ acked \in Nat /\ flushed \in 0 .. Len(lines)
  BY ReadJournalType DEF JournalInv, TypeOK
<1>1. lines # <<>> <=> Len(lines) >= 1
  BY <1>0
<1>2. ASSUME NEW w \in Writer, NEW e \in Event, NEW d \in BOOLEAN, Enter(w, e, d)
      PROVE DurableInv'
  BY <1>2, ConstantsAssumption DEF Enter, Disk
<1>3. ASSUME NEW w \in Writer, Enter(w, Start, TRUE) PROVE DurableInv'
  BY <1>3, ConstantsAssumption DEF Enter, Disk
<1>4. CASE RepairTail
  BY <1>4 DEF RepairTail, Repaired, Disk
<1>5. CASE RepairSync
  BY <1>5, <1>0, <1>1 DEF RepairSync
<1>6. CASE StartAlreadyThere
  <2>1. lines # <<>>
    BY <1>6 DEF JournalInv, Sealed, StartAlreadyThere, ReadJournal, None
  <2>. QED BY <1>6, <2>1 DEF StartAlreadyThere, Disk
<1>7. CASE AppendLine
  <2>1. tail = None /\ ReadJournal = lines /\ job.event \in Record /\ pc = "append"
    BY <1>7 DEF JournalInv, TypeOK, Sealed, AppendLine, Appended, ReadJournal, None
  <2>2. lines' = Append(lines, job.event) /\ job'.event = job.event /\ job'.durable = job.durable
          /\ job'.created = ~present
    BY <1>7, <2>1 DEF JournalInv, TypeOK, AppendLine, Appended, Glued
  <2>3. pc' = (IF job.durable THEN "fsync" ELSE "leave") /\ flushed' = flushed
          /\ dirent' = dirent /\ acked' = acked /\ holder' = holder /\ holder # "free"
    BY <1>7, <2>1 DEF AppendLine, Appended, AfterAppend, Disk
  <2>4. CASE job.event = Start
    <3>1. lines = <<>> /\ (present => dirent)
      BY <1>7, <2>1, <2>4 DEF AppendLine
    <3>2. lines' # <<>>
      BY <2>1, <2>2, <1>0
    <3>. QED BY <2>1, <2>2, <2>3, <2>4, <3>1, <3>2
  <2>5. CASE job.event # Start
    <3>1. lines # <<>>
      BY <2>1, <2>5 DEF JournalInv, Rooted
    <3>. QED BY <2>1, <2>2, <2>3, <2>5, <3>1
  <2>. QED BY <2>4, <2>5
<1>8. CASE FsyncFile
  <2>1. lines # <<>> /\ Len(lines) >= 1
    BY <1>8, <1>1 DEF Backed, FsyncFile
  <2>2. ~job.created => dirent
    BY <1>8, <2>1 DEF FsyncFile
  <2>. QED BY <1>8, <1>0, <2>1, <2>2 DEF FsyncFile
<1>9. CASE FsyncDir
  <2>1. lines # <<>> /\ Len(lines) >= 1
    BY <1>9, <1>1 DEF Backed, FsyncDir
  <2>. QED BY <1>9, <1>0, <2>1 DEF FsyncDir
<1>10. CASE Ack
  BY <1>10, <1>0, <1>1 DEF Ack, Leave, NoJob
<1>11. CASE Return
  BY <1>11 DEF Return, Leave, NoJob, Disk
<1>12. ASSUME Kill \/ ShortWrite PROVE FALSE
  BY <1>12 DEF Kill, ShortWrite, JournalInv, TypeOK
<1>13. CASE PowerLoss
  <2>1. ASSUME NEW n \in flushed .. Len(lines), lines' = SubSeq(lines, 1, n), flushed' = n,
               dirent' = TRUE
        PROVE DurableInv'
    <3>1. n \in 0 .. Len(lines) /\ n >= flushed /\ Len(lines') = n
      BY <1>0, <2>1
    <3>2. lines' # <<>> => n >= 1
      BY <3>1
    <3>3. acked' = acked /\ pc' = "idle"
      BY <1>13 DEF PowerLoss, Leave
    <3>. QED BY <1>0, <2>1, <3>1, <3>2, <3>3
  <2>2. ASSUME ~dirent, present' = FALSE, lines' = <<>>, flushed' = 0, dirent' = FALSE PROVE DurableInv'
    <3>1. acked' = acked /\ pc' = "idle"
      BY <1>13 DEF PowerLoss, Leave
    <3>. QED BY <1>0, <2>2, <3>1
  <2>. QED BY <1>13, <2>1, <2>2 DEF PowerLoss
<1>14. CASE UNCHANGED vars
  BY <1>14 DEF vars
<1>. QED BY <1>2, <1>3, <1>4, <1>5, <1>6, <1>7, <1>8, <1>9, <1>10, <1>11, <1>12, <1>13, <1>14 DEF Next

(* When no writer dies inside the lock, every record acknowledged as durable is still *)
(* read after any number of power losses.  (With deaths it is not: a retried start    *)
(* intent acknowledges a root that nobody has forced.)                                *)
THEOREM DurableAppendsSurvive == ASSUME MaxKill = 0 PROVE Spec => []AckedSurvives
<1>1. JournalInv /\ DurableInv => AckedSurvives
  <2>. SUFFICES ASSUME JournalInv, DurableInv PROVE AckedSurvives
    OBVIOUS
  <2>1. Len(lines) <= Len(ReadJournal) /\ Len(ReadJournal) \in Nat /\ Len(lines) \in Nat
    BY ReadJournalType DEF JournalInv
  <2>. QED BY <2>1 DEF AckedSurvives, DurableInv, JournalInv, TypeOK
<1>2. JournalInv /\ Backed /\ DurableInv /\ [Next]_vars => DurableInv'
  BY DurableStep
<1>. QED BY <1>1, <1>2, DurableInit, JournalInvariant, BackedInvariant, PTL DEF Spec

=============================================================================
