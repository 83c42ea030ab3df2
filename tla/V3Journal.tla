----------------------------- MODULE V3Journal -----------------------------
(***************************************************************************)
(* The journal file of one v3 run (workflows/v3/journal.ts) and the        *)
(* durable start acknowledgement built on it (start-intent.ts).            *)
(*                                                                         *)
(* Several processes (the owning daemon, a second daemon during a restart, *)
(* the CLI) mutate one NDJSON file, one at a time, under its file lock.  A *)
(* mutation first repairs an unterminated tail, then appends one line, and *)
(* a durable one then forces the bytes and, when it created the file, the  *)
(* directory entry.  Any process may die at any step, in the middle of a   *)
(* write too, and the machine may lose power.                              *)
(*                                                                         *)
(* The file is `lines`, the newline-terminated records, followed by `tail`, *)
(* the physical last segment.  The lock is taken as given: one holder at a *)
(* time, freed when its holder dies.                                       *)
(***************************************************************************)
EXTENDS Naturals, Sequences

CONSTANTS
  Writer,     \* processes that mutate the journal
  Event,      \* ordinary events
  Start,      \* the runStarted event
  MaxLen,     \* bound on the committed records
  MaxKill,    \* bound on process deaths (and failed writes)
  MaxPower    \* bound on power losses

Corrupt == [glued |-> TRUE]     \* an interrupted record and the next one on a single line

ASSUME ConstantsAssumption ==
  /\ Start \notin Event /\ "free" \notin Writer
  /\ Corrupt \notin Event \cup {Start}
  /\ MaxLen \in Nat /\ MaxKill \in Nat /\ MaxPower \in Nat

Record == Event \cup {Start}
None == [kind |-> "none"]
Torn == [kind |-> "torn"]
Whole(e) == [kind |-> "whole", event |-> e]   \* complete JSON, newline missing
Segment == {None, Torn} \cup {Whole(e) : e \in Record}

VARIABLES
  present,       \* the file exists, be it empty
  lines, tail,   \* the file as the kernel shows it
  flushed,       \* length of the prefix of lines known to be on disk
  dirent,        \* the directory entry is known to be on disk
  holder,        \* the process inside the journal lock, or "free"
  pc,            \* where the holder is
  job,           \* what it is doing: the event, whether durable, whether it created the file
  acked,         \* length of the prefix acknowledged as durable
  kills, losses  \* bound counters

vars == <<present, lines, tail, flushed, dirent, holder, pc, job, acked, kills, losses>>

NoJob == [event |-> Start, durable |-> FALSE, created |-> FALSE]

Init ==
  /\ present = FALSE /\ lines = <<>> /\ tail = None
  /\ flushed = 0 /\ dirent = FALSE
  /\ holder = "free" /\ pc = "idle" /\ job = NoJob
  /\ acked = 0 /\ kills = 0 /\ losses = 0

----------------------------------------------------------------------------
\* readJournal: committed records, and a complete final record that lacks its newline.
ReadJournal == IF tail.kind = "whole" THEN Append(lines, tail.event) ELSE lines

Keep == UNCHANGED <<kills, losses>>
Disk == UNCHANGED <<flushed, dirent, acked>>

\* Mutant: the tail is never looked at.
EnterNoProbe(w, e, d) ==
  /\ holder = "free" /\ Len(ReadJournal) < MaxLen
  /\ e # Start => ReadJournal # <<>>
  /\ holder' = w /\ pc' = "append"
  /\ job' = [event |-> e, durable |-> d, created |-> FALSE]
  /\ UNCHANGED <<present, lines, tail>> /\ Disk /\ Keep

\* withJournalMutationSync enters the lock; the repair probe looks at the last byte.
Enter(w, e, d) ==
  /\ holder = "free"
  /\ Len(ReadJournal) < MaxLen
  /\ e # Start => ReadJournal # <<>>        \* a run is driven after its start intent
  /\ holder' = w
  /\ pc' = IF tail = None THEN "append" ELSE "repair"
  /\ job' = [event |-> e, durable |-> d, created |-> FALSE]
  /\ UNCHANGED <<present, lines, tail>> /\ Disk /\ Keep

Repaired(to) ==
  /\ pc = "repair" /\ lines' = to /\ tail' = None /\ pc' = "repairSync"
  /\ UNCHANGED <<present, holder, job>> /\ Disk /\ Keep

\* Mutants: the truncation takes the last committed line with it; a complete record
\* without its newline is truncated too.
RepairTailTooFar == Repaired(SubSeq(lines, 1, Len(lines) - 1))
RepairTailDropsWhole == Repaired(lines)

\* An unterminated tail is sealed with a newline when it is complete JSON, truncated otherwise.
RepairTail == Repaired(ReadJournal)

\* The repair is flushed, file and directory, before the caller appends.
RepairSync ==
  /\ pc = "repairSync"
  /\ flushed' = Len(lines)
  /\ dirent' = TRUE
  /\ pc' = "append"
  /\ UNCHANGED <<present, lines, tail, holder, job, acked>> /\ Keep

\* appendFileSync of one line: onto an unterminated tail it would glue two records.
Glued(e) == IF tail = None THEN Append(lines, e) ELSE Append(lines, Corrupt)

IsStart == job.event = Start

\* persistV3StartIntent finds the history root and acknowledges without appending.
StartAlreadyThere ==
  /\ pc = "append" /\ IsStart /\ ReadJournal # <<>>
  /\ pc' = "ack"
  /\ UNCHANGED <<present, lines, tail, holder, job>> /\ Disk /\ Keep

\* The append created the file when existsSync has not found one, be it empty.
Appended(next) ==
  /\ pc = "append" /\ lines' = Glued(job.event) /\ tail' = None
  /\ present' = TRUE /\ job' = [job EXCEPT !.created = ~present]
  /\ pc' = next
  /\ UNCHANGED holder /\ Disk /\ Keep

AfterAppend == IF job.durable THEN "fsync" ELSE "leave"

\* Mutants: the start intent does not look for a root; a durable append is not forced.
AppendLineUnchecked == Appended(AfterAppend)
AppendLineUnforced ==
  (IsStart => ReadJournal = <<>>) /\ Appended(IF job.durable THEN "ack" ELSE "leave")

AppendLine == (IsStart => ReadJournal = <<>>) /\ Appended(AfterAppend)

\* Mutant: the directory entry of a new journal is not forced.
FsyncFileOnly ==
  /\ pc = "fsync" /\ flushed' = Len(lines) /\ pc' = "ack"
  /\ UNCHANGED <<present, lines, tail, dirent, holder, job, acked>> /\ Keep

\* fsyncFile after a durable append.
FsyncFile ==
  /\ pc = "fsync"
  /\ flushed' = Len(lines)
  /\ pc' = IF job.created THEN "fsyncDir" ELSE "ack"
  /\ UNCHANGED <<present, lines, tail, dirent, holder, job, acked>> /\ Keep

FsyncDir ==
  /\ pc = "fsyncDir"
  /\ dirent' = TRUE
  /\ pc' = "ack"
  /\ UNCHANGED <<present, lines, tail, flushed, holder, job, acked>> /\ Keep

Leave ==
  /\ holder' = "free" /\ pc' = "idle" /\ job' = NoJob

\* A durable mutation returns: the caller may rely on its event, and on every earlier
\* one; the start intent promises only the history root.
Promised == IF IsStart THEN 1 ELSE Len(lines)

Ack ==
  /\ pc = "ack"
  /\ Leave
  /\ acked' = IF Promised > acked THEN Promised ELSE acked
  /\ UNCHANGED <<present, lines, tail, flushed, dirent>> /\ Keep

\* A plain append returns.
Return ==
  /\ pc = "leave"
  /\ Leave
  /\ UNCHANGED <<present, lines, tail>> /\ Disk /\ Keep

----------------------------------------------------------------------------
\* The holder dies between two steps.  Everything written stays in the kernel.
Kill ==
  /\ holder # "free" /\ kills < MaxKill
  /\ kills' = kills + 1
  /\ Leave
  /\ UNCHANGED <<present, lines, tail, losses>> /\ Disk

\* The write itself is cut: the process dies in it, or the disk is full.  The file has been
\* created then, perhaps with nothing in it.
ShortWrite ==
  /\ pc = "append" /\ kills < MaxKill
  /\ IsStart => ReadJournal = <<>>
  /\ kills' = kills + 1
  /\ tail = None
  /\ present' = TRUE /\ tail' \in {None, Torn, Whole(job.event)}
  /\ Leave
  /\ UNCHANGED <<lines, losses>> /\ Disk

\* Power loss: a prefix survives that holds every flushed record, the next record
\* possibly in part, and nothing at all when the directory entry was never forced.
PowerLoss ==
  /\ losses < MaxPower
  /\ losses' = losses + 1
  /\ \/ \E n \in flushed .. Len(lines) :
          /\ present /\ UNCHANGED present
          /\ lines' = SubSeq(lines, 1, n)
          /\ tail' \in IF n < Len(lines) THEN {None, Torn, Whole(lines[n + 1])} ELSE {None, tail}
          /\ flushed' = n /\ dirent' = TRUE
     \/ /\ ~dirent
        /\ present' = FALSE /\ lines' = <<>> /\ tail' = None /\ flushed' = 0 /\ dirent' = FALSE
  /\ Leave
  /\ UNCHANGED <<acked, kills>>

Next ==
  \/ \E w \in Writer, e \in Event, d \in BOOLEAN : Enter(w, e, d)
  \/ \E w \in Writer : Enter(w, Start, TRUE)
  \/ RepairTail \/ RepairSync
  \/ StartAlreadyThere \/ AppendLine \/ FsyncFile \/ FsyncDir \/ Ack \/ Return
  \/ Kill \/ ShortWrite \/ PowerLoss

Spec == Init /\ [][Next]_vars

----------------------------------------------------------------------------
TypeOK ==
  /\ present \in BOOLEAN
  /\ lines \in Seq(Record \cup {Corrupt}) /\ tail \in Segment
  /\ flushed \in 0 .. Len(lines) /\ dirent \in BOOLEAN
  /\ holder \in Writer \cup {"free"}
  /\ pc \in {"idle", "repair", "repairSync", "append", "fsync", "fsyncDir", "ack", "leave"}
  /\ job \in [event : Record, durable : BOOLEAN, created : BOOLEAN]
  /\ acked \in Nat /\ kills \in 0 .. MaxKill /\ losses \in 0 .. MaxPower

(* Fail-closed parsing (parseJournalText) never meets a committed corrupt line,     *)
(* whatever process dies in whatever write: the torn tail of one writer is never    *)
(* glued to the record of the next.                                                 *)
NeverGlued == \A i \in 1 .. Len(lines) : lines[i] # Corrupt

(* However many processes race to start the run, and however often they die and     *)
(* retry, the history has one root and it is the first record.                      *)
OneHistoryRoot ==
  \A i \in 1 .. Len(ReadJournal) : ReadJournal[i] = Start <=> i = 1

(* "force both its bytes and a newly-created journal dirent to stable storage       *)
(* before returning": what was acknowledged as durable is still read after power    *)
(* losses.                                                                          *)
AckedSurvives == acked <= Len(ReadJournal)

(* Every reader sees an append-only log; a power loss cuts off only what was never  *)
(* acknowledged as durable.                                                         *)
Log == INSTANCE V3Log WITH Event <- Record, log <- ReadJournal, promised <- acked
ImplementsLog == Log!Spec
=============================================================================
