------------------------------ MODULE FileLock ------------------------------
(***************************************************************************)
(* The cross-process advisory lock of utils/file-lock.ts: withFileLock and *)
(* its synchronous twin, one file-system call per step.                    *)
(*                                                                         *)
(* A lock is the file at one path, created with O_EXCL and removed by its  *)
(* owner.  A dead owner's file is broken by a waiter: it pins the observed *)
(* file under a claim name made from that file's identity (link), elects   *)
(* itself owner of the claim by publishing the next epoch, and only then   *)
(* removes the path.  Any process may die between two calls, and a dead    *)
(* breaker is replaced by the next epoch.                                  *)
(*                                                                         *)
(* A file is the number of its creation (the identity a claim name hashes). *)
(* Its inode number can be reused once nothing links to it or has it open, *)
(* and sameInode compares only that number.                                *)
(***************************************************************************)
EXTENDS Naturals, FiniteSets, FiniteSetsExt

CONSTANTS
  Proc,       \* processes that use the lock
  Mortal,     \* those that may die
  MaxFile,    \* bound on the files ever created at the lock path
  MaxEpoch,   \* bound on the breakers that take over one claim
  MaxKill,    \* bound on deaths
  MaxFault,   \* bound on failed file-system calls of a breaker
  Recycle,    \* the file system hands out the inode numbers of removed files again
  Prompt      \* TRUE: nobody takes a second from creating a file to writing its
              \* identity, nor from linking a claim to publishing its first owner

None == 0

ASSUME ConstantsAssumption ==
  /\ Mortal \subseteq Proc /\ None \notin Proc
  /\ MaxFile \in Nat \ {0} /\ MaxEpoch \in Nat /\ MaxKill \in Nat /\ MaxFault \in Nat
  /\ Recycle \in BOOLEAN /\ Prompt \in BOOLEAN

File == 1 .. MaxFile
Epoch == 0 .. MaxEpoch

VARIABLES
  lock,     \* the file at the lock path
  body,     \* body[f]: the process whose identity f holds; None while f is empty
  ino,      \* ino[f]: the inode number of f, None before it is created
  claim,    \* claim[f]: the file that the claim name of f links to
  owner,    \* owner[f][e]: the process that owns epoch e of that claim
  pc,       \* where each process is
  mine,     \* the lock file it created and holds open
  seen,     \* the file it observed at the lock path and wants to break
  first,    \* it created the claim link itself
  pin,      \* the file its last look at the claim found
  meta,     \* the file, the content and the link count its last look at the path found
  epoch,    \* the epoch it publishes
  names,    \* the owner files listed by its cleanup
  kills, faults

locals == <<mine, seen, first, pin, meta, epoch, names>>
disk == <<lock, body, ino, claim, owner>>
vars == <<disk, pc, locals, kills, faults>>

NoMeta == <<None, None, None>>

Init ==
  /\ lock = None
  /\ body = [f \in File |-> None] /\ ino = [f \in File |-> None]
  /\ claim = [f \in File |-> None]
  /\ owner = [f \in File |-> [e \in Epoch |-> None]]
  /\ pc = [p \in Proc |-> "try"]
  /\ mine = [p \in Proc |-> None] /\ seen = [p \in Proc |-> None]
  /\ first = [p \in Proc |-> FALSE]
  /\ pin = [p \in Proc |-> None] /\ meta = [p \in Proc |-> NoMeta]
  /\ epoch = [p \in Proc |-> 0] /\ names = [p \in Proc |-> {}]
  /\ kills = 0 /\ faults = 0

----------------------------------------------------------------------------
Dead(p) == pc[p] = "dead"
Count == UNCHANGED <<kills, faults>>

SameInode(f, g) == ino[f] = ino[g]
Links(f) == Cardinality({g \in File : claim[g] = f}) + (IF lock = f THEN 1 ELSE 0)
Metadata(f) == <<f, body[f], Links(f)>>

\* Files whose inode number is taken: linked somewhere, or open in their creator.
InUse == {f \in File : ino[f] # None /\ (~Recycle \/ Links(f) > 0 \/ \E p \in Proc : mine[p] = f /\ ~Dead(p))}
FreeInode == Min((1 .. MaxFile) \ {ino[f] : f \in InUse})

Go(p, label) == pc' = [pc EXCEPT ![p] = label]
Set(var, p, v) == [var EXCEPT ![p] = v]

\* Back to the top of the acquisition loop: nothing of the attempt is kept.
Forget(p) ==
  /\ seen' = Set(seen, p, None) /\ first' = Set(first, p, FALSE)
  /\ pin' = Set(pin, p, None) /\ meta' = Set(meta, p, NoMeta)
  /\ epoch' = Set(epoch, p, 0) /\ names' = Set(names, p, {})
Retry(p) == Go(p, "try") /\ Forget(p) /\ UNCHANGED mine
At(p, label) == pc[p] = label

\* A holder's file: its identity is dead, or it is empty and has outlived its grace.
Breakable(f) ==
  \/ body[f] # None /\ Dead(body[f])
  \/ body[f] = None /\ (Prompt => ~\E q \in Proc : At(q, "created") /\ mine[q] = f)

\* A claim without an owner: its creator may still be on the way to publish one.
OwnerlessAged(g) ==
  Prompt => ~\E q \in Proc :
     first[q] /\ seen[q] = g /\ pc[q] \in {"elect", "survey", "candidate", "publish"}

----------------------------------------------------------------------------
(* The holder *)

\* open(lockPath, 'wx'): O_EXCL lets one process create the file.
Create(p) ==
  /\ At(p, "try") /\ lock = None
  /\ \E f \in File :
       /\ f = Min({g \in File : ino[g] = None})
       /\ lock' = f
       /\ ino' = [ino EXCEPT ![f] = FreeInode]
       /\ mine' = Set(mine, p, f)
  /\ Go(p, "created")
  /\ UNCHANGED <<body, claim, owner, seen, first, pin, meta, epoch, names>> /\ Count

\* The identity is written through the open descriptor, whatever the path names by now.
WriteIdentity(p) ==
  /\ At(p, "created")
  /\ body' = [body EXCEPT ![mine[p]] = p]
  /\ Go(p, "inside")
  /\ UNCHANGED <<lock, ino, claim, owner, locals>> /\ Count

\* releaseOwnedLock looks at the path first; the descriptor is closed after the removal.
Release(p) ==
  /\ At(p, "inside")
  /\ IF lock # None /\ SameInode(lock, mine[p])
     THEN Go(p, "unlinkMine") /\ UNCHANGED mine
     ELSE Go(p, "try") /\ mine' = Set(mine, p, None)
  /\ UNCHANGED <<disk, seen, first, pin, meta, epoch, names>> /\ Count

UnlinkMine(p) ==
  /\ At(p, "unlinkMine")
  /\ lock' = None
  /\ Go(p, "try") /\ mine' = Set(mine, p, None)
  /\ UNCHANGED <<body, ino, claim, owner, seen, first, pin, meta, epoch, names>> /\ Count

----------------------------------------------------------------------------
(* The waiter: observe a stale file and pin it under its claim *)

Observe(p) ==
  /\ At(p, "try") /\ lock # None /\ Breakable(lock)
  /\ seen' = Set(seen, p, lock)
  /\ Go(p, "link")
  /\ UNCHANGED <<disk, mine, first, pin, meta, epoch, names>> /\ Count

\* link(lockPath, claim name of the observed file) links whatever is at the path now.
LinkClaim(p) ==
  /\ At(p, "link")
  /\ IF lock = None THEN Retry(p) /\ UNCHANGED claim
     ELSE /\ claim' = IF claim[seen[p]] = None THEN [claim EXCEPT ![seen[p]] = lock] ELSE claim
          /\ first' = Set(first, p, claim[seen[p]] = None)
          /\ Go(p, "elect")
          /\ UNCHANGED <<mine, seen, pin, meta, epoch, names>>
  /\ UNCHANGED <<lock, body, ino, owner>> /\ Count

\* tryAcquireStaleClaimOwnership: which file does the claim pin?
Elect(p) ==
  /\ At(p, "elect")
  /\ IF claim[seen[p]] = None THEN Retry(p)
     ELSE /\ pin' = Set(pin, p, claim[seen[p]])
          /\ Go(p, "survey")
          /\ UNCHANGED <<mine, seen, first, meta, epoch, names>>
  /\ UNCHANGED disk /\ Count

Owners(g) == {e \in Epoch : owner[g][e] # None}

Elected(p, e) ==
  /\ e \in Epoch
  /\ epoch' = Set(epoch, p, e)
  /\ Go(p, "candidate")
  /\ UNCHANGED <<mine, seen, first, pin, meta, names>>

\* Mutant: the epoch of a dead breaker is never taken over.
SurveyNoTakeover(p) ==
  /\ At(p, "survey")
  /\ LET g == seen[p] IN
     \/ Owners(g) = {} /\ (first[p] \/ OwnerlessAged(g)) /\ Elected(p, 0)
     \/ Owners(g) = {} /\ ~(first[p] \/ OwnerlessAged(g)) /\ Retry(p)
     \/ Owners(g) # {} /\ Retry(p)
  /\ UNCHANGED disk /\ Count

\* Mutant: the epoch after the latest is taken without asking whether its owner lives.
SurveyLiveOwner(p) ==
  /\ At(p, "survey")
  /\ LET g == seen[p]
         e == IF Owners(g) = {} THEN 0 ELSE Max(Owners(g)) + 1
     IN /\ epoch' = Set(epoch, p, e)
        /\ Go(p, IF e \in Epoch THEN "candidate" ELSE "try")
  /\ UNCHANGED <<disk, mine, seen, first, pin, meta, names>> /\ Count

\* The first owner is epoch 0; a dead latest owner is followed by the next epoch.
Survey(p) ==
  /\ At(p, "survey")
  /\ LET g == seen[p]
         dead == Owners(g) # {} /\ Dead(owner[g][Max(Owners(g))])
     IN \/ Owners(g) = {} /\ (first[p] \/ OwnerlessAged(g)) /\ Elected(p, 0)
        \/ Owners(g) = {} /\ ~(first[p] \/ OwnerlessAged(g)) /\ Retry(p)
        \/ dead /\ Elected(p, Max(Owners(g)) + 1)
        \/ Owners(g) # {} /\ ~dead /\ Retry(p)
  /\ UNCHANGED disk /\ Count

\* A private candidate file is written; the claim must still pin the same file.
Candidate(p) ==
  /\ At(p, "candidate")
  /\ LET c == claim[seen[p]] IN
     IF c # None /\ SameInode(c, pin[p])
     THEN Go(p, "publish") /\ UNCHANGED locals
     ELSE Retry(p)
  /\ UNCHANGED disk /\ Count

\* Mutant: the publication overwrites an epoch that exists.
PublishOver(p) ==
  /\ At(p, "publish")
  /\ owner' = [owner EXCEPT ![seen[p]][epoch[p]] = p]
  /\ Go(p, "confirm") /\ UNCHANGED locals
  /\ UNCHANGED <<lock, body, ino, claim>> /\ Count

\* link(candidate, owner epoch) succeeds for one process only.
Publish(p) ==
  /\ At(p, "publish")
  /\ IF owner[seen[p]][epoch[p]] # None
     THEN Retry(p) /\ UNCHANGED owner
     ELSE /\ owner' = [owner EXCEPT ![seen[p]][epoch[p]] = p]
          /\ Go(p, "confirm") /\ UNCHANGED locals
  /\ UNCHANGED <<lock, body, ino, claim>> /\ Count

OwnsEpoch(p) == owner[seen[p]][epoch[p]] = p

\* After the publication both the epoch and the claim are looked at again.
Confirm(p) ==
  /\ At(p, "confirm")
  /\ LET c == claim[seen[p]] IN
     IF OwnsEpoch(p) /\ c # None /\ SameInode(c, pin[p]) THEN Go(p, "validate") ELSE Go(p, "withdraw")
  /\ UNCHANGED <<disk, locals>> /\ Count

\* releaseOwnedLock of the own epoch: look, then remove the path.
Withdraw(p) ==
  /\ At(p, "withdraw")
  /\ IF OwnsEpoch(p) THEN Go(p, "unlinkOwner") /\ UNCHANGED locals ELSE Retry(p)
  /\ UNCHANGED disk /\ Count

UnlinkOwner(p) ==
  /\ At(p, "unlinkOwner")
  /\ owner' = [owner EXCEPT ![seen[p]][epoch[p]] = None]
  /\ Retry(p)
  /\ UNCHANGED <<lock, body, ino, claim>> /\ Count

----------------------------------------------------------------------------
(* The breaker: resumeStaleBreak with the epoch in hand *)

\* The claim may have pinned a newer file under the older name: then only the claim goes.
Validate(p) ==
  /\ At(p, "validate")
  /\ LET c == claim[seen[p]] IN
     IF c = None THEN Go(p, "withdraw") /\ UNCHANGED pin
     ELSE /\ pin' = Set(pin, p, c)
          /\ Go(p, IF SameInode(c, seen[p]) THEN "stat" ELSE "dropClaim")
  /\ UNCHANGED <<disk, mine, seen, first, meta, epoch, names>> /\ Count

\* readPinnedHolder opens the path and takes the first stat.
StatLock(p) ==
  /\ At(p, "stat")
  /\ IF lock = None THEN Go(p, "dropClaim") /\ UNCHANGED meta
     ELSE meta' = Set(meta, p, Metadata(lock)) /\ Go(p, "read")
  /\ UNCHANGED <<disk, mine, seen, first, pin, epoch, names>> /\ Count

Pinned(p) == meta[p][1]
Unchanged(p) == lock # None /\ SameInode(lock, Pinned(p)) /\ Metadata(Pinned(p)) = meta[p]

\* Mutant: the content of the pinned file is not judged again.
ReadLockNoRecheck(p) ==
  /\ At(p, "read")
  /\ Go(p, IF Unchanged(p) /\ SameInode(Pinned(p), seen[p]) THEN "lstat" ELSE "dropClaim")
  /\ UNCHANGED <<disk, locals>> /\ Count

\* The read counts only if nothing changed around it; a file that another process has
\* put there, or that became a live holder's, is left alone.
ReadLock(p) ==
  /\ At(p, "read")
  /\ Go(p, IF Unchanged(p) /\ SameInode(Pinned(p), seen[p]) /\ Breakable(Pinned(p))
           THEN "lstat" ELSE "dropClaim")
  /\ UNCHANGED <<disk, locals>> /\ Count

\* unlinkUnchangedPinnedPath: look once more ...
LstatLock(p) ==
  /\ At(p, "lstat")
  /\ Go(p, IF Unchanged(p) THEN "unlinkLock" ELSE "dropClaim")
  /\ UNCHANGED <<disk, locals>> /\ Count

\* ... then remove the path, whatever it names by now.
UnlinkLock(p) ==
  /\ At(p, "unlinkLock")
  /\ lock' = None
  /\ Go(p, IF lock = None THEN "withdraw" ELSE "dropClaim")
  /\ UNCHANGED <<body, ino, claim, owner, locals>> /\ Count

\* releaseOwnedLock of the claim.
DropClaim(p) ==
  /\ At(p, "dropClaim")
  /\ LET c == claim[seen[p]] IN
     Go(p, IF c # None /\ SameInode(c, pin[p]) THEN "unlinkClaim" ELSE "clean")
  /\ UNCHANGED <<disk, locals>> /\ Count

UnlinkClaim(p) ==
  /\ At(p, "unlinkClaim")
  /\ claim' = [claim EXCEPT ![seen[p]] = None]
  /\ Go(p, "clean")
  /\ UNCHANGED <<lock, body, ino, owner, locals>> /\ Count

\* cleanStaleClaimOwnership gives up the own epoch, lists what else is under the claim name ...
Clean(p) ==
  /\ At(p, "clean")
  /\ owner' = IF OwnsEpoch(p) THEN [owner EXCEPT ![seen[p]][epoch[p]] = None] ELSE owner
  /\ Go(p, "list")
  /\ UNCHANGED <<lock, body, ino, claim, locals>> /\ Count

CleanList(p) ==
  /\ At(p, "list")
  /\ IF Owners(seen[p]) = {} THEN Retry(p)
     ELSE /\ names' = Set(names, p, Owners(seen[p])) /\ Go(p, "sweep")
          /\ UNCHANGED <<mine, seen, first, pin, meta, epoch>>
  /\ UNCHANGED disk /\ Count

\* ... and removes every one of them.
CleanSweep(p) ==
  /\ At(p, "sweep")
  /\ owner' = [owner EXCEPT ![seen[p]] =
                 [e \in Epoch |-> IF e \in names[p] THEN None ELSE @[e]]]
  /\ Retry(p)
  /\ UNCHANGED <<lock, body, ino, claim>> /\ Count

\* A file-system call of the breaker fails: its epoch is withdrawn, the claim stays.
Fault(p) ==
  /\ pc[p] \in {"validate", "stat", "read", "lstat", "unlinkLock", "dropClaim", "unlinkClaim"}
  /\ faults < MaxFault
  /\ faults' = faults + 1
  /\ Go(p, "withdraw")
  /\ UNCHANGED <<disk, locals, kills>>

\* A process dies between two calls; its descriptors are closed, its files stay.
Die(p) ==
  /\ p \in Mortal /\ ~Dead(p) /\ kills < MaxKill
  /\ kills' = kills + 1
  /\ Go(p, "dead") /\ Forget(p)
  /\ mine' = Set(mine, p, None)
  /\ UNCHANGED <<disk, faults>>

Room == \E f \in File : ino[f] = None    \* the bound MaxFile

Hold(p) == (Room /\ Create(p)) \/ WriteIdentity(p) \/ Release(p) \/ UnlinkMine(p)
Claim(p) == Observe(p) \/ LinkClaim(p) \/ Elect(p) \/ Survey(p) \/ Candidate(p) \/ Publish(p)
              \/ Confirm(p) \/ Withdraw(p) \/ UnlinkOwner(p)
Break(p) == Validate(p) \/ StatLock(p) \/ ReadLock(p) \/ LstatLock(p) \/ UnlinkLock(p)
              \/ DropClaim(p) \/ UnlinkClaim(p) \/ Clean(p) \/ CleanList(p) \/ CleanSweep(p)

Step(p) == Hold(p) \/ Claim(p) \/ Break(p)
Next == \E p \in Proc : Step(p) \/ Fault(p) \/ Die(p)

Spec == Init /\ [][Next]_vars

\* A live process goes on with what it does, and callers keep asking for the lock.
FairSpec == Spec /\ \A p \in Proc : WF_vars(Step(p))

----------------------------------------------------------------------------
TypeOK ==
  /\ lock \in File \cup {None}
  /\ body \in [File -> Proc \cup {None}]
  /\ ino \in [File -> 0 .. MaxFile]
  /\ claim \in [File -> File \cup {None}]
  /\ owner \in [File -> [Epoch -> Proc \cup {None}]]
  /\ mine \in [Proc -> File \cup {None}] /\ seen \in [Proc -> File \cup {None}]
  /\ first \in [Proc -> BOOLEAN] /\ pin \in [Proc -> File \cup {None}]
  /\ epoch \in [Proc -> Epoch] /\ names \in [Proc -> SUBSET Epoch]

Inside == {p \in Proc : At(p, "inside")}

(* "This avoids the classic delayed pathname-unlink race": while a caller is in its     *)
(* section the path names its own file, which nobody has removed from under it.        *)
HolderNamed == \A p \in Inside : lock = mine[p]

(* The promise of the lock: callers of withFileLock run their sections one at a time,  *)
(* however breakers of a dead holder's lock interleave and die.                        *)
Service == INSTANCE Mutex WITH inside <- Inside
ImplementsMutex == Service!Spec

(* A crashed holder never wedges the lock: while somebody alive wants it, the file of  *)
(* a dead process leaves the path, also when breakers die half way.                    *)
StaleReclaimed ==
  \A f \in File :
    (lock = f /\ Breakable(f)) ~> (lock # f \/ \A p \in Proc : Dead(p))
=============================================================================
