--------------------------- MODULE FileLockProofs ---------------------------
(***************************************************************************)
(* Proofs about the advisory file lock, for any number of processes, lock  *)
(* files and failed file-system calls: the types, and that one death is    *)
(* survived, whatever breakers of the dead holder's file do and whether or *)
(* not inode numbers are used again.  After two deaths the sections of two *)
(* callers can overlap (run file_lock_sweep), so the bound is exact.       *)
(***************************************************************************)
EXTENDS FileLock, FiniteSetTheorems, WellFoundedInduction, TLAPS

Holding == {"created", "inside", "unlinkMine"}
Claiming == {"link", "elect", "survey", "candidate", "publish", "confirm", "withdraw", "unlinkOwner"}
Removing == {"validate", "stat", "read", "lstat", "unlinkLock"}
Cleaning == {"dropClaim", "unlinkClaim", "clean", "list", "sweep"}
Breaking == Claiming \cup Removing \cup Cleaning
Label == {"try", "dead"} \cup Holding \cup Breaking

\* The types, and what a process at a label has in hand.
LockTyped ==
  /\ TypeOK
  /\ pc \in [Proc -> Label]
  /\ meta \in [Proc -> (File \cup {None}) \X (Proc \cup {None}) \X Nat]
  /\ kills \in 0 .. MaxKill
  /\ \A p \in Proc : pc[p] \in Breaking => seen[p] # None
  /\ \A p \in Proc : pc[p] \in Holding <=> mine[p] # None

----------------------------------------------------------------------------
(* Types.                                                                  *)

\* A set of naturals has a least element, and Min names it.
LEMMA MinIn ==
  ASSUME NEW S, S \subseteq Nat, S # {}
  PROVE  Min(S) \in S
<1>. DEFINE R == OpToRel(<, Nat)
<1>1. \E x \in S : \A y \in S : ~(<<y, x>> \in R)
  <2>. HIDE DEF R
  <2>1. IsWellFoundedOn(R, Nat)
    BY NatLessThanWellFounded DEF R
  <2>. QED BY <2>1, WFMin
<1>2. \A x, y \in Nat : ~(<<y, x>> \in R) => x <= y
  BY DEF OpToRel
<1>3. \E x \in S : \A y \in S : x =< y
  BY <1>1, <1>2
<1>. QED BY <1>3 DEF Min

\* While a file is left to create, an inode number is left to give it.
LEMMA InodeLeft ==
  ASSUME ino \in [File -> 0 .. MaxFile], Room
  PROVE  FreeInode \in 1 .. MaxFile
<1>. USE ConstantsAssumption
<1>. DEFINE T == {ino[f] : f \in InUse}
            N == 1 .. MaxFile
<1>1. PICK f0 \in File : ino[f0] = None
  BY DEF Room
<1>2. IsFiniteSet(N) /\ Cardinality(N) = MaxFile
  BY FS_Interval
<1>3. IsFiniteSet(N \ {f0}) /\ Cardinality(N \ {f0}) < MaxFile
  <2>1. IsFiniteSet(N \ {f0}) /\ Cardinality(N \ {f0}) = Cardinality(N) - 1
    BY <1>1, <1>2, FS_RemoveElement DEF File
  <2>. QED BY <1>2, <2>1
<1>4. InUse \subseteq N \ {f0}
  BY <1>1 DEF InUse, File
<1>5. IsFiniteSet(InUse) /\ Cardinality(InUse) < MaxFile
  <2>1. IsFiniteSet(InUse) /\ Cardinality(InUse) <= Cardinality(N \ {f0})
    BY <1>3, <1>4, FS_Subset
  <2>2. Cardinality(InUse) \in Nat /\ Cardinality(N \ {f0}) \in Nat
    BY <1>3, <2>1, FS_CardinalityType
  <2>. QED BY <1>3, <2>1, <2>2
<1>6. IsFiniteSet(T) /\ Cardinality(T) < MaxFile
  <2>. DEFINE g == [f \in InUse |-> ino[f]]
  <2>1. g \in Surjection(InUse, T)
    BY DEF Surjection
  <2>2. IsFiniteSet(T) /\ Cardinality(T) <= Cardinality(InUse)
    BY <1>5, <2>1, FS_Surjection
  <2>3. Cardinality(InUse) \in Nat /\ Cardinality(T) \in Nat
    BY <1>5, <2>2, FS_CardinalityType
  <2>. QED BY <1>5, <2>2, <2>3
<1>7. ~(N \subseteq T)
  <2>1. SUFFICES ASSUME N \subseteq T PROVE FALSE
    OBVIOUS
  <2>2. Cardinality(N) <= Cardinality(T)
    BY <1>6, <2>1, FS_Subset
  <2>3. Cardinality(T) \in Nat
    BY <1>6, FS_CardinalityType
  <2>. QED BY <1>2, <1>6, <2>2, <2>3
<1>8. Min(N \ T) \in N \ T
  <2>1. N \ T # {} /\ N \ T \subseteq Nat
    BY <1>7
  <2>. HIDE DEF N, T
  <2>. QED BY <2>1, MinIn
<1>. QED BY <1>8 DEF FreeInode

\* The file that is created next has not existed.
LEMMA NextFile ==
  ASSUME Room
  PROVE  LET f == Min({g \in File : ino[g] = None}) IN f \in File /\ ino[f] = None
<1>. DEFINE S == {g \in File : ino[g] = None}
<1>1. S # {} /\ S \subseteq Nat
  BY DEF Room, File
<1>2. Min(S) \in S
  <2>. HIDE DEF S
  <2>. QED BY <1>1, MinIn
<1>. QED BY <1>2

\* What a look at a file finds.
LEMMA MetadataType ==
  ASSUME LockTyped, NEW f \in File
  PROVE  Metadata(f) \in (File \cup {None}) \X (Proc \cup {None}) \X Nat
<1>1. IsFiniteSet(File)
  BY ConstantsAssumption, FS_Interval DEF File
<1>2. Cardinality({g \in File : claim[g] = f}) \in Nat
  BY <1>1, FS_Subset, FS_CardinalityType
<1>3. Links(f) \in Nat
  BY <1>2 DEF Links
<1>. QED BY <1>3 DEF LockTyped, TypeOK, Metadata

\* A process that starts over has nothing in hand.
LEMMA RetryTyped ==
  ASSUME LockTyped, NEW p \in Proc, Retry(p), pc[p] \in Breaking, UNCHANGED <<lock, body, ino, kills>>,
         claim' \in [File -> File \cup {None}], owner' \in [File -> [Epoch -> Proc \cup {None}]]
  PROVE  LockTyped'
BY ConstantsAssumption DEF LockTyped, TypeOK, Retry, Forget, Go, Set, NoMeta, Label, Holding, Breaking, Claiming,
   Removing, Cleaning, Epoch, None

\* The steps of a holder keep the types.
LEMMA HoldTyped == ASSUME LockTyped, NEW p \in Proc, Hold(p) PROVE LockTyped'
<1>. USE DEF LockTyped, TypeOK, At, Go, Set, Label, Holding, Breaking, Claiming, Removing, Cleaning, Count
<1>1. CASE Room /\ Create(p)
  <2>1. FreeInode \in 1 .. MaxFile
    BY <1>1, InodeLeft
  <2>2. PICK f \in File : /\ lock' = f /\ ino' = [ino EXCEPT ![f] = FreeInode] /\ mine' = [mine EXCEPT ![p] = f]
    BY <1>1 DEF Create
  <2>. HIDE DEF FreeInode
  <2>3. ino' \in [File -> 0 .. MaxFile]
    BY <2>1, <2>2
  <2>4. f # None
    BY DEF File, None
  <2>. QED BY <1>1, <2>2, <2>3, <2>4 DEF Create
<1>2. CASE WriteIdentity(p)
  BY <1>2 DEF WriteIdentity, locals
<1>3. CASE Release(p)
  <2>1. CASE Go(p, "unlinkMine") /\ UNCHANGED mine
    BY <1>3, <2>1 DEF Release, disk
  <2>2. CASE Go(p, "try") /\ mine' = Set(mine, p, None)
    BY <1>3, <2>2 DEF Release, disk
  <2>. QED BY <1>3, <2>1, <2>2 DEF Release
<1>4. CASE UnlinkMine(p)
  BY <1>4 DEF UnlinkMine
<1>. QED BY <1>1, <1>2, <1>3, <1>4 DEF Hold

\* A breaker that goes on changes what it has in hand, within the types.
LEMMA GoOnTyped ==
  ASSUME LockTyped, NEW p \in Proc, pc[p] \in Breaking, NEW label \in Breaking, Go(p, label),
         lock' \in {lock, None}, UNCHANGED <<body, ino, mine, seen>>, kills' = kills,
         claim' \in [File -> File \cup {None}], owner' \in [File -> [Epoch -> Proc \cup {None}]],
         first' \in [Proc -> BOOLEAN], pin' \in [Proc -> File \cup {None}],
         epoch' \in [Proc -> Epoch], names' \in [Proc -> SUBSET Epoch],
         meta' \in [Proc -> (File \cup {None}) \X (Proc \cup {None}) \X Nat]
  PROVE  LockTyped'
BY ZenonT(30) DEF LockTyped, TypeOK, Go, Label, Breaking, Claiming, Removing, Cleaning, Holding

\* The steps up to the election keep the types.
LEMMA ClaimTyped == ASSUME LockTyped, NEW p \in Proc, Claim(p) PROVE LockTyped'
<1>c. claim \in [File -> File \cup {None}] /\ lock \in File \cup {None}
  BY DEF LockTyped, TypeOK
<1>o. owner \in [File -> [Epoch -> Proc \cup {None}]]
  BY DEF LockTyped, TypeOK
<1>l. /\ first \in [Proc -> BOOLEAN] /\ pin \in [Proc -> File \cup {None}]
      /\ epoch \in [Proc -> Epoch] /\ names \in [Proc -> SUBSET Epoch]
      /\ meta \in [Proc -> (File \cup {None}) \X (Proc \cup {None}) \X Nat]
  BY DEF LockTyped, TypeOK
<1>s. pc[p] \in Breaking => seen[p] \in File
  BY DEF LockTyped, TypeOK
<1>. USE DEF At, Set, disk, locals, Count
<1>1. CASE Observe(p)
  BY <1>1 DEF Observe, LockTyped, TypeOK, Go, Label, Holding, Breaking, Claiming, Removing, Cleaning, None, File
<1>2. CASE LinkClaim(p)
  <2>1. pc[p] \in Breaking /\ "elect" \in Breaking
    BY <1>2 DEF LinkClaim, Breaking, Claiming
  <2>2. CASE lock = None
    BY <1>2, <1>c, <1>o, <1>l, <1>s, <2>1, <2>2, RetryTyped DEF LinkClaim
  <2>3. CASE lock # None
    <3>1. claim' \in [File -> File \cup {None}]
      BY <1>2, <1>c, <2>3 DEF LinkClaim
    <3>2. first' \in [Proc -> BOOLEAN]
      <4>1. first' = [first EXCEPT ![p] = TRUE] \/ first' = [first EXCEPT ![p] = FALSE]
        BY <1>2, <2>3 DEF LinkClaim
      <4>. QED BY <1>l, <4>1
    <3>. QED BY <1>2, <1>c, <1>o, <1>l, <2>1, <2>3, <3>1, <3>2, GoOnTyped DEF LinkClaim
  <2>. QED BY <2>2, <2>3
<1>3. CASE Elect(p)
  <2>1. pc[p] \in Breaking /\ "survey" \in Breaking
    BY <1>3 DEF Elect, Breaking, Claiming
  <2>2. CASE claim[seen[p]] = None
    BY <1>3, <1>c, <1>o, <1>l, <1>s, <2>1, <2>2, RetryTyped DEF Elect
  <2>3. CASE claim[seen[p]] # None
    <3>1. pin' \in [Proc -> File \cup {None}]
      BY <1>3, <1>c, <1>l, <1>s, <2>1, <2>3 DEF Elect
    <3>. QED BY <1>3, <1>c, <1>o, <1>l, <2>1, <2>3, <3>1, GoOnTyped DEF Elect
  <2>. QED BY <2>2, <2>3
<1>4. CASE Survey(p)
  <2>1. pc[p] \in Breaking /\ "candidate" \in Breaking
    BY <1>4 DEF Survey, Breaking, Claiming
  <2>2. Retry(p) \/ \E e \in Epoch : epoch' = [epoch EXCEPT ![p] = e] /\ Go(p, "candidate")
                                   /\ UNCHANGED <<mine, seen, first, pin, meta, names>>
    BY <1>4 DEF Survey, Elected
  <2>3. UNCHANGED <<lock, body, ino, claim, owner, kills>>
    BY <1>4 DEF Survey
  <2>4. CASE Retry(p)
    BY <1>c, <1>o, <1>l, <2>1, <2>3, <2>4, RetryTyped
  <2>5. ASSUME NEW e \in Epoch, epoch' = [epoch EXCEPT ![p] = e], Go(p, "candidate"),
               UNCHANGED <<mine, seen, first, pin, meta, names>>
        PROVE  LockTyped'
    <3>1. epoch' \in [Proc -> Epoch]
      BY <1>l, <2>5
    <3>. QED BY <1>c, <1>o, <1>l, <2>1, <2>3, <2>5, <3>1, GoOnTyped
  <2>. QED BY <2>2, <2>4, <2>5
<1>5. CASE Candidate(p) \/ Withdraw(p) \/ Confirm(p)
  <2>1. pc[p] \in Breaking /\ {"publish", "unlinkOwner", "validate", "withdraw"} \subseteq Breaking
    BY <1>5 DEF Candidate, Withdraw, Confirm, Breaking, Claiming, Removing
  <2>2. Retry(p) \/ \E label \in Breaking : Go(p, label) /\ UNCHANGED locals
    BY <1>5, <2>1 DEF Candidate, Withdraw, Confirm
  <2>3. UNCHANGED <<lock, body, ino, claim, owner, kills>>
    BY <1>5 DEF Candidate, Withdraw, Confirm
  <2>. QED BY <1>c, <1>o, <1>l, <1>s, <2>1, <2>2, <2>3, RetryTyped, GoOnTyped
<1>6. CASE Publish(p)
  <2>1. pc[p] \in Breaking /\ "confirm" \in Breaking
    BY <1>6 DEF Publish, Breaking, Claiming
  <2>2. owner' \in [File -> [Epoch -> Proc \cup {None}]]
    BY <1>6, <1>o DEF Publish
  <2>. QED BY <1>6, <1>c, <1>o, <1>l, <1>s, <2>1, <2>2, RetryTyped, GoOnTyped DEF Publish
<1>7. CASE UnlinkOwner(p)
  <2>1. pc[p] \in Breaking
    BY <1>7 DEF UnlinkOwner, Breaking, Claiming
  <2>2. owner' \in [File -> [Epoch -> Proc \cup {None}]]
    BY <1>7, <1>o DEF UnlinkOwner
  <2>. QED BY <1>7, <1>c, <1>o, <1>l, <1>s, <2>1, <2>2, RetryTyped DEF UnlinkOwner
<1>. QED BY <1>1, <1>2, <1>3, <1>4, <1>5, <1>6, <1>7 DEF Claim

\* So do the steps of the breaker.
LEMMA BreakTyped == ASSUME LockTyped, NEW p \in Proc, Break(p) PROVE LockTyped'
<1>c. claim \in [File -> File \cup {None}] /\ lock \in File \cup {None}
  BY DEF LockTyped, TypeOK
<1>o. owner \in [File -> [Epoch -> Proc \cup {None}]]
  BY DEF LockTyped, TypeOK
<1>l. /\ first \in [Proc -> BOOLEAN] /\ pin \in [Proc -> File \cup {None}]
      /\ epoch \in [Proc -> Epoch] /\ names \in [Proc -> SUBSET Epoch]
      /\ meta \in [Proc -> (File \cup {None}) \X (Proc \cup {None}) \X Nat]
  BY DEF LockTyped, TypeOK
<1>s. pc[p] \in Breaking => seen[p] \in File
  BY DEF LockTyped, TypeOK
<1>. USE DEF At, Set, disk, locals, Count
<1>b. Removing \cup Cleaning \cup {"withdraw"} \subseteq Breaking
  BY DEF Breaking, Claiming
<1>1. CASE Validate(p)
  <2>1. pc[p] \in Breaking /\ {"withdraw", "stat", "dropClaim"} \subseteq Breaking
    BY <1>1 DEF Validate, Breaking, Claiming, Removing, Cleaning
  <2>2. pin' \in [Proc -> File \cup {None}] /\ \E label \in Breaking : Go(p, label)
    BY <1>1, <1>c, <1>o, <1>l, <1>s, <2>1 DEF Validate
  <2>. QED BY <1>1, <1>c, <1>o, <1>l, <1>s, <2>1, <2>2, GoOnTyped DEF Validate
<1>2. CASE StatLock(p)
  <2>1. pc[p] \in Breaking /\ {"read", "dropClaim"} \subseteq Breaking
    BY <1>2 DEF StatLock, Breaking, Removing, Cleaning
  <2>2. CASE lock = None
    BY <1>2, <1>c, <1>o, <1>l, <1>s, <2>1, <2>2, GoOnTyped DEF StatLock
  <2>3. CASE lock # None
    <3>1. Metadata(lock) \in (File \cup {None}) \X (Proc \cup {None}) \X Nat
      BY <1>c, <2>3, MetadataType
    <3>2. meta' \in [Proc -> (File \cup {None}) \X (Proc \cup {None}) \X Nat] /\ Go(p, "read")
      BY <1>2, <1>c, <1>o, <1>l, <1>s, <2>3, <3>1 DEF StatLock
    <3>. QED BY <1>2, <1>c, <1>o, <1>l, <1>s, <2>1, <3>2, GoOnTyped DEF StatLock
  <2>. QED BY <2>2, <2>3
<1>3. CASE ReadLock(p) \/ LstatLock(p) \/ DropClaim(p)
  <2>1. pc[p] \in Breaking /\ {"lstat", "unlinkLock", "dropClaim", "unlinkClaim", "clean"} \subseteq Breaking
    BY <1>3 DEF ReadLock, LstatLock, DropClaim, Breaking, Removing, Cleaning
  <2>2. \E label \in Breaking : Go(p, label)
    BY <1>3, <2>1 DEF ReadLock, LstatLock, DropClaim
  <2>3. UNCHANGED <<disk, locals, kills>>
    BY <1>3 DEF ReadLock, LstatLock, DropClaim
  <2>. QED BY <1>c, <1>o, <1>l, <1>s, <2>1, <2>2, <2>3, GoOnTyped
<1>4. CASE UnlinkLock(p)
  <2>1. pc[p] \in Breaking /\ {"withdraw", "dropClaim"} \subseteq Breaking
    BY <1>4 DEF UnlinkLock, Breaking, Claiming, Removing, Cleaning
  <2>2. \E label \in Breaking : Go(p, label)
    BY <1>4, <2>1 DEF UnlinkLock
  <2>. QED BY <1>4, <1>c, <1>o, <1>l, <1>s, <2>1, <2>2, GoOnTyped DEF UnlinkLock
<1>5. CASE UnlinkClaim(p)
  <2>1. pc[p] \in Breaking /\ "clean" \in Breaking
    BY <1>5 DEF UnlinkClaim, Breaking, Cleaning
  <2>2. claim' \in [File -> File \cup {None}]
    BY <1>5, <1>c DEF UnlinkClaim
  <2>. QED BY <1>5, <1>c, <1>o, <1>l, <1>s, <2>1, <2>2, GoOnTyped DEF UnlinkClaim
<1>6. CASE Clean(p)
  <2>1. pc[p] \in Breaking /\ "list" \in Breaking
    BY <1>6 DEF Clean, Breaking, Cleaning
  <2>2. owner' \in [File -> [Epoch -> Proc \cup {None}]]
    BY <1>6, <1>o DEF Clean
  <2>. QED BY <1>6, <1>c, <1>o, <1>l, <1>s, <2>1, <2>2, GoOnTyped DEF Clean
<1>7. CASE CleanList(p)
  <2>1. pc[p] \in Breaking /\ "sweep" \in Breaking
    BY <1>7 DEF CleanList, Breaking, Cleaning
  <2>2. CASE Owners(seen[p]) = {}
    BY <1>7, <1>c, <1>o, <1>l, <1>s, <2>1, <2>2, RetryTyped DEF CleanList
  <2>3. CASE Owners(seen[p]) # {}
    <3>1. names' \in [Proc -> SUBSET Epoch]
      BY <1>7, <1>c, <1>o, <1>l, <1>s, <2>3 DEF CleanList, Owners
    <3>. QED BY <1>7, <1>c, <1>o, <1>l, <1>s, <2>1, <2>3, <3>1, GoOnTyped DEF CleanList
  <2>. QED BY <2>2, <2>3
<1>8. CASE CleanSweep(p)
  <2>1. pc[p] \in Breaking
    BY <1>8 DEF CleanSweep, Breaking, Cleaning
  <2>2. owner' \in [File -> [Epoch -> Proc \cup {None}]]
    BY <1>8, <1>o DEF CleanSweep
  <2>. QED BY <1>8, <1>c, <1>o, <1>l, <1>s, <2>1, <2>2, RetryTyped DEF CleanSweep
<1>. QED BY <1>1, <1>2, <1>3, <1>4, <1>5, <1>6, <1>7, <1>8 DEF Break

\* Every step keeps the types.
LEMMA LockTypedStep == ASSUME LockTyped, [Next]_vars PROVE LockTyped'
<1>1. CASE UNCHANGED vars
  BY <1>1 DEF vars, disk, locals, LockTyped, TypeOK
<1>2. ASSUME NEW p \in Proc, Step(p) PROVE LockTyped'
  BY <1>2, HoldTyped, ClaimTyped, BreakTyped DEF Step
<1>3. ASSUME NEW p \in Proc, Fault(p) PROVE LockTyped'
  <2>1. pc[p] \in Breaking /\ "withdraw" \in Breaking
    BY <1>3 DEF Fault, Breaking, Claiming, Removing, Cleaning
  <2>2. /\ claim \in [File -> File \cup {None}] /\ owner \in [File -> [Epoch -> Proc \cup {None}]]
        /\ first \in [Proc -> BOOLEAN] /\ pin \in [Proc -> File \cup {None}]
        /\ epoch \in [Proc -> Epoch] /\ names \in [Proc -> SUBSET Epoch]
        /\ meta \in [Proc -> (File \cup {None}) \X (Proc \cup {None}) \X Nat]
    BY DEF LockTyped, TypeOK
  <2>. QED BY <1>3, <2>1, <2>2, GoOnTyped DEF Fault, disk, locals
<1>4. ASSUME NEW p \in Proc, Die(p) PROVE LockTyped'
  BY <1>4, ConstantsAssumption DEF Die, LockTyped, TypeOK, Forget, Go, Set, NoMeta, Label, Holding, Breaking, Claiming,
     Removing, Cleaning, Epoch, None, disk
<1>. QED BY <1>1, <1>2, <1>3, <1>4 DEF Next

\* The first state.
LEMMA LockTypedInit == Init => LockTyped
BY ConstantsAssumption DEF Init, LockTyped, TypeOK, NoMeta, Label, Holding, Breaking, Claiming, Removing, Cleaning,
   Epoch, None

\* Type correctness, whatever dies or fails (withFileLock and resumeStaleBreak).
THEOREM LockTypeCorrect == Spec => []TypeOK
<1>1. LockTyped => TypeOK
  BY DEF LockTyped
<1>2. ASSUME LockTyped, [Next]_vars PROVE LockTyped'
  BY <1>2, LockTypedStep
<1>. QED BY <1>1, <1>2, LockTypedInit, PTL DEF Spec

----------------------------------------------------------------------------
(* A process that holds the lock has its own file at the path. *)

Held ==
  /\ \A p \in Proc : mine[p] # None =>
       /\ lock = mine[p] /\ ino[mine[p]] # None
       /\ body[mine[p]] = IF pc[p] = "created" THEN None ELSE p
  /\ \A p, q \in Proc : mine[p] = mine[q] /\ mine[p] # None => p = q
  /\ \A f \in File : body[f] # None => ino[f] # None

\* Before the first death there is nothing to break.
Calm ==
  kills = 0 =>
    /\ \A p \in Proc : pc[p] \in {"try"} \cup Holding
    /\ lock # None => \E p \in Proc : mine[p] = lock
    /\ \A f \in File : claim[f] = None /\ \A e \in Epoch : owner[f][e] = None

\* The file at the path is one that a waiter may break.
Stale == lock # None /\ Breakable(lock)

\* No breaker dies, so every epoch is the first one.
FirstEpoch ==
  /\ \A p \in Proc : epoch[p] = 0
  /\ \A f \in File, e \in Epoch : owner[f][e] # None => e = 0 /\ ~Dead(owner[f][e])

\* Where a process may be while the stale file is at the path: past its election it owns the
\* claim, and what it saw of the file is true.
AtStale(p) ==
  /\ pc[p] \in Breaking => seen[p] = lock
  /\ pc[p] \in Removing \cup {"unlinkOwner"} => owner[lock][0] = p
  /\ pc[p] \in Removing \ {"validate"} => claim[lock] = lock
  /\ pc[p] \in {"read", "lstat"} => meta[p] = Metadata(lock)
  /\ pc[p] \notin Cleaning

\* The claim of the stale file is its own, and one breaker at a time is past its election.
OneBreaker == Stale => claim[lock] \in {None, lock} /\ \A p \in Proc : AtStale(p)

\* Once it is gone, nobody is about to remove what is at the path now.
Removed ==
  ~Stale => \A p \in Proc : /\ pc[p] \notin {"lstat", "unlinkLock"}
                            /\ pc[p] = "read" => Pinned(p) \in File /\ ~Breakable(Pinned(p))

LockInv == LockTyped /\ Held /\ Calm /\ FirstEpoch /\ OneBreaker /\ Removed

\* Where a step takes a process.  No step but a death ends in one, and no step but Create makes
\* a holder that has not written its identity.
LEMMA StepMoves ==
  ASSUME NEW p \in Proc, Step(p) \/ Fault(p)
  PROVE  /\ kills' = kills /\ pc[p] # "dead"
         /\ \E label : /\ Go(p, label) /\ label # "dead" /\ (label = "created" => Create(p))
                       /\ Create(p) \/ WriteIdentity(p) \/ label # "inside"
<1>. DEFINE Moved == /\ kills' = kills /\ pc[p] # "dead"
                     /\ \E label : /\ Go(p, label) /\ label # "dead" /\ (label = "created" => Create(p))
                                   /\ Create(p) \/ WriteIdentity(p) \/ label # "inside"
<1>. USE DEF At, Count, Retry
<1>1. CASE Hold(p)
  BY <1>1 DEF Hold, Create, WriteIdentity, Release, UnlinkMine
<1>2. CASE Claim(p)
  <2>1. CASE Observe(p) \/ LinkClaim(p) \/ Elect(p) \/ Candidate(p)
    BY <2>1 DEF Observe, LinkClaim, Elect, Candidate
  <2>2. CASE Survey(p)
    BY <2>2 DEF Survey, Elected
  <2>3. CASE Publish(p) \/ Confirm(p) \/ Withdraw(p) \/ UnlinkOwner(p)
    BY <2>3 DEF Publish, Confirm, Withdraw, UnlinkOwner
  <2>. QED BY <1>2, <2>1, <2>2, <2>3 DEF Claim
<1>3. CASE Break(p)
  <2>1. CASE Validate(p) \/ StatLock(p) \/ ReadLock(p) \/ LstatLock(p)
    BY <2>1 DEF Validate, StatLock, ReadLock, LstatLock
  <2>2. CASE UnlinkLock(p) \/ DropClaim(p) \/ UnlinkClaim(p) \/ Clean(p) \/ CleanList(p) \/ CleanSweep(p)
    BY <2>2 DEF UnlinkLock, DropClaim, UnlinkClaim, Clean, CleanList, CleanSweep
  <2>. QED BY <1>3, <2>1, <2>2 DEF Break
<1>4. CASE Fault(p)
  BY <1>4 DEF Fault
<1>. QED BY <1>1, <1>2, <1>3, <1>4 DEF Step

\* What a step that is not a holder's leaves alone.
LEMMA WaiterSteps ==
  ASSUME NEW p \in Proc, Claim(p) \/ Break(p) \/ Fault(p)
  PROVE  /\ UNCHANGED <<body, ino, mine>> /\ (UnlinkLock(p) \/ lock' = lock)
         /\ pc[p] \notin Holding
<1>. USE DEF At, Count, Retry, disk, locals, Holding
<1>2. CASE Claim(p)
  <2>1. CASE Observe(p) \/ LinkClaim(p) \/ Elect(p) \/ Candidate(p)
    BY <2>1 DEF Observe, LinkClaim, Elect, Candidate
  <2>2. CASE Survey(p)
    BY <2>2 DEF Survey, Elected
  <2>3. CASE Publish(p) \/ Confirm(p) \/ Withdraw(p) \/ UnlinkOwner(p)
    BY <2>3 DEF Publish, Confirm, Withdraw, UnlinkOwner
  <2>. QED BY <1>2, <2>1, <2>2, <2>3 DEF Claim
<1>3. CASE Break(p)
  <2>1. CASE Validate(p) \/ StatLock(p) \/ ReadLock(p) \/ LstatLock(p)
    BY <2>1 DEF Validate, StatLock, ReadLock, LstatLock
  <2>2. CASE UnlinkLock(p) \/ DropClaim(p) \/ UnlinkClaim(p) \/ Clean(p) \/ CleanList(p) \/ CleanSweep(p)
    BY <2>2 DEF UnlinkLock, DropClaim, UnlinkClaim, Clean, CleanList, CleanSweep
  <2>. QED BY <1>3, <2>1, <2>2 DEF Break
<1>4. CASE Fault(p)
  BY <1>4 DEF Fault
<1>. QED BY <1>2, <1>3, <1>4

\* A step moves one process and kills nobody.
LEMMA StepLives ==
  ASSUME LockTyped, NEW p \in Proc, Step(p) \/ Fault(p)
  PROVE  /\ kills' = kills /\ ~Dead(p)
         /\ \A q \in Proc : (Dead(q)' <=> Dead(q)) /\ (q # p => pc'[q] = pc[q])
         /\ pc'[p] = "created" => Create(p)
BY StepMoves DEF LockTyped, Go, Dead

\* Nobody holds a file that waiters may break.
LEMMA StaleUnheld ==
  ASSUME Prompt = TRUE, LockTyped, Held, Stale
  PROVE  \A p \in Proc : mine[p] = None
<1>. SUFFICES ASSUME NEW p \in Proc, mine[p] # None PROVE FALSE
  OBVIOUS
<1>1. lock = mine[p] /\ pc[p] \in Holding /\ body[lock] = IF pc[p] = "created" THEN None ELSE p
  BY DEF Held, LockTyped
<1>2. CASE pc[p] = "created"
  BY <1>1, <1>2 DEF Stale, Breakable, At
<1>3. CASE pc[p] # "created"
  BY <1>1, <1>3, ConstantsAssumption DEF Stale, Breakable, Dead, Holding
<1>. QED BY <1>2, <1>3

\* Every step leaves a holder its file.
LEMMA HeldStep ==
  ASSUME Prompt = TRUE, LockTyped, Held, Removed, [Next]_vars
  PROVE  Held'
<1>t. /\ mine \in [Proc -> File \cup {None}] /\ pc \in [Proc -> Label] /\ lock \in File \cup {None}
      /\ body \in [File -> Proc \cup {None}] /\ ino \in [File -> 0 .. MaxFile]
      /\ \A q \in Proc : pc[q] \in Holding <=> mine[q] # None
      /\ None \notin File
  BY DEF LockTyped, TypeOK, File, None
<1>1. CASE UNCHANGED vars
  BY <1>1 DEF vars, disk, locals, Held
<1>2. ASSUME NEW p \in Proc, Hold(p) PROVE Held'
  <2>1. CASE Room /\ Create(p)
    <3>1. FreeInode # None
      BY <1>t, <2>1, InodeLeft DEF None
    <3>2. PICK f \in File : /\ ino[f] = None /\ lock = None
                            /\ lock' = f /\ ino' = [ino EXCEPT ![f] = FreeInode] /\ mine' = [mine EXCEPT ![p] = f]
      BY <2>1, NextFile DEF Create, Set
    <3>3. body[f] = None /\ \A q \in Proc : mine[q] = None
      BY <1>t, <3>2 DEF Held
    <3>4. pc' = [pc EXCEPT ![p] = "created"] /\ body' = body
      BY <2>1 DEF Create, Go
    <3>. HIDE DEF FreeInode
    <3>. QED BY <1>t, <3>1, <3>2, <3>3, <3>4 DEF Held
  <2>2. CASE WriteIdentity(p)
    <3>1. pc[p] = "created" /\ mine[p] \in File
      BY <1>t, <2>2 DEF WriteIdentity, At, Holding
    <3>2. pc' = [pc EXCEPT ![p] = "inside"] /\ body' = [body EXCEPT ![mine[p]] = p] /\ UNCHANGED <<lock, ino, mine>>
      BY <2>2 DEF WriteIdentity, Go, locals
    <3>. QED BY <1>t, <3>1, <3>2 DEF Held
  <2>3. CASE Release(p)
    <3>1. lock # None /\ SameInode(lock, mine[p])
      BY <1>t, <2>3 DEF Release, At, Holding, Held, SameInode
    <3>2. pc[p] = "inside" /\ pc' = [pc EXCEPT ![p] = "unlinkMine"] /\ UNCHANGED <<lock, ino, mine, body>>
      BY <2>3, <3>1 DEF Release, Go, disk, At
    <3>. QED BY <1>t, <3>2 DEF Held
  <2>4. CASE UnlinkMine(p)
    <3>1. mine[p] # None
      BY <1>t, <2>4 DEF UnlinkMine, At, Holding
    <3>2. mine' = [mine EXCEPT ![p] = None] /\ UNCHANGED <<ino, body>>
      BY <2>4 DEF UnlinkMine, Set
    <3>3. \A q \in Proc : mine'[q] = None
      BY <1>t, <3>1, <3>2 DEF Held
    <3>. QED BY <3>2, <3>3 DEF Held
  <2>. QED BY <1>2, <2>1, <2>2, <2>3, <2>4 DEF Hold
<1>3. ASSUME NEW p \in Proc, Claim(p) \/ Break(p) \/ Fault(p) PROVE Held'
  <2>1. UNCHANGED <<body, ino, mine>> /\ (UnlinkLock(p) \/ lock' = lock) /\ mine[p] = None
    BY <1>3, <1>t, WaiterSteps
  <2>2. \A q \in Proc : q # p => pc'[q] = pc[q]
    BY <1>3, StepLives DEF Step
  <2>3. UnlinkLock(p) => Stale
    BY DEF UnlinkLock, At, Removed
  <2>. QED BY <2>1, <2>2, <2>3, StaleUnheld DEF Held
<1>4. ASSUME NEW p \in Proc, Die(p) PROVE Held'
  <2>1. mine' = [mine EXCEPT ![p] = None] /\ UNCHANGED <<lock, body, ino>> /\ pc' = [pc EXCEPT ![p] = "dead"]
    BY <1>4 DEF Die, disk, Set, Go
  <2>. QED BY <1>t, <2>1 DEF Held
<1>. QED BY <1>1, <1>2, <1>3, <1>4 DEF Next, Step

\* Until somebody dies, nobody finds anything to break.
LEMMA CalmStep ==
  ASSUME Prompt = TRUE, LockTyped, Held, Calm, [Next]_vars
  PROVE  Calm'
<1>t. /\ mine \in [Proc -> File \cup {None}] /\ pc \in [Proc -> Label] /\ kills \in Nat
      /\ \A q \in Proc : pc[q] \in Holding <=> mine[q] # None
      /\ None \notin File
  BY ConstantsAssumption DEF LockTyped, TypeOK, File, None
<1>1. CASE UNCHANGED vars
  BY <1>1 DEF vars, disk, locals, Calm
<1>2. ASSUME NEW p \in Proc, Hold(p) PROVE Calm'
  <2>. SUFFICES ASSUME kills = 0 PROVE Calm'
    BY <1>2, StepLives DEF Step, Calm
  <2>1. CASE Room /\ Create(p)
    <3>1. PICK f \in File : lock' = f /\ mine' = [mine EXCEPT ![p] = f]
      BY <2>1 DEF Create, Set
    <3>2. pc' = [pc EXCEPT ![p] = "created"] /\ UNCHANGED <<claim, owner>>
      BY <2>1 DEF Create, Go
    <3>. QED BY <1>t, <3>1, <3>2 DEF Calm, Holding
  <2>2. CASE WriteIdentity(p)
    <3>. pc' = [pc EXCEPT ![p] = "inside"] /\ UNCHANGED <<lock, claim, owner, mine>>
      BY <2>2 DEF WriteIdentity, Go, locals
    <3>. QED BY <1>t DEF Calm, Holding
  <2>3. CASE Release(p)
    <3>1. lock # None /\ SameInode(lock, mine[p])
      BY <1>t, <2>3 DEF Release, At, Holding, Held, SameInode
    <3>. pc' = [pc EXCEPT ![p] = "unlinkMine"] /\ UNCHANGED <<lock, claim, owner, mine>>
      BY <2>3, <3>1 DEF Release, Go, disk, At
    <3>. QED BY <1>t DEF Calm, Holding
  <2>4. CASE UnlinkMine(p)
    <3>. lock' = None /\ pc' = [pc EXCEPT ![p] = "try"] /\ UNCHANGED <<claim, owner>>
      BY <2>4 DEF UnlinkMine, Go
    <3>. QED BY <1>t DEF Calm
  <2>. QED BY <1>2, <2>1, <2>2, <2>3, <2>4 DEF Hold
<1>3. ASSUME NEW p \in Proc, Claim(p) \/ Break(p) \/ Fault(p) PROVE Calm'
  <2>. SUFFICES ASSUME kills = 0 PROVE FALSE
    BY <1>3, StepLives DEF Step, Calm
  <2>1. pc[p] = "try"
    BY <1>3, WaiterSteps DEF Calm
  <2>2. Observe(p)
    BY <1>3, <2>1 DEF Claim, LinkClaim, Elect, Survey, Candidate, Publish, Confirm, Withdraw, UnlinkOwner, Break, Validate,
       StatLock, ReadLock, LstatLock, UnlinkLock, DropClaim, UnlinkClaim, Clean, CleanList, CleanSweep, Fault, At
  <2>. QED BY <2>2, StaleUnheld DEF Observe, Stale, Calm
<1>4. ASSUME NEW p \in Proc, Die(p) PROVE Calm'
  BY <1>4, <1>t DEF Die, Calm
<1>. QED BY <1>1, <1>2, <1>3, <1>4 DEF Next, Step

\* Only the first process dies: no claim has a second epoch.
LEMMA FirstEpochStep ==
  ASSUME MaxKill <= 1, LockTyped, Calm, FirstEpoch, [Next]_vars
  PROVE  FirstEpoch'
<1>e. epoch \in [Proc -> Epoch] /\ 0 \in Epoch
  BY ConstantsAssumption DEF LockTyped, TypeOK, Epoch
<1>o. owner \in [File -> [Epoch -> Proc \cup {None}]]
  BY DEF LockTyped, TypeOK
<1>s. \A p \in Proc : pc[p] \in Breaking => seen[p] \in File
  BY DEF LockTyped, TypeOK
<1>r. \A p \in Proc : Retry(p) => epoch' = [epoch EXCEPT ![p] = 0]
  BY DEF Retry, Forget, Set
<1>1. CASE UNCHANGED vars
  BY <1>1 DEF vars, disk, locals, FirstEpoch, Dead
<1>2. ASSUME NEW p \in Proc, Step(p) \/ Fault(p) PROVE FirstEpoch'
  <2>1. \A q \in Proc : (Dead(q)' <=> Dead(q)) /\ ~Dead(p)
    BY <1>2, StepLives
  <2>q. ASSUME UNCHANGED owner \/ \A f \in File, e \in Epoch : owner'[f][e] \in {owner[f][e], None},
               UNCHANGED epoch \/ epoch' = [epoch EXCEPT ![p] = 0]
        PROVE  FirstEpoch'
    BY <1>e, <1>o, <2>1, <2>q DEF FirstEpoch
  <2>2. CASE Hold(p) \/ Observe(p) \/ LinkClaim(p) \/ Elect(p) \/ Candidate(p) \/ Confirm(p) \/ Withdraw(p)
    <3>1. UNCHANGED owner /\ (UNCHANGED epoch \/ Retry(p))
      BY <2>2 DEF Hold, Create, WriteIdentity, Release, UnlinkMine, Observe, LinkClaim, Elect, Candidate, Confirm, Withdraw,
         disk, locals
    <3>. QED BY <2>q, <3>1, <1>r
  <2>3. CASE Survey(p)
    <3>1. seen[p] \in File
      BY <1>s, <2>3 DEF Survey, At, Breaking, Claiming
    <3>2. Owners(seen[p]) \subseteq {0} /\ \A e \in Owners(seen[p]) : ~Dead(owner[seen[p]][e])
      BY <3>1 DEF Owners, FirstEpoch
    <3>3. Owners(seen[p]) # {} => ~Dead(owner[seen[p]][Max(Owners(seen[p]))])
      <4>1. ASSUME Owners(seen[p]) = {0} PROVE Max(Owners(seen[p])) = 0
        BY <4>1 DEF Max
      <4>. QED BY <3>2, <4>1
    <3>4. Retry(p) \/ Elected(p, 0)
      BY <2>3, <3>3 DEF Survey
    <3>5. UNCHANGED owner
      BY <2>3 DEF Survey, disk
    <3>. QED BY <2>q, <3>4, <3>5, <1>r DEF Elected, Set
  <2>4. CASE Publish(p)
    <3>1. CASE owner[seen[p]][epoch[p]] # None
      BY <2>4, <3>1, <2>q, <1>r DEF Publish
    <3>2. CASE owner[seen[p]][epoch[p]] = None
      <4>1. seen[p] \in File /\ epoch[p] = 0
        BY <1>s, <2>4 DEF Publish, At, Breaking, Claiming, FirstEpoch
      <4>2. owner' = [owner EXCEPT ![seen[p]][0] = p] /\ UNCHANGED epoch
        BY <2>4, <3>2, <4>1 DEF Publish, locals
      <4>. QED BY <1>o, <1>e, <2>1, <4>1, <4>2 DEF FirstEpoch
    <3>. QED BY <3>1, <3>2
  <2>5. CASE UnlinkOwner(p) \/ CleanSweep(p)
    <3>1. Retry(p) /\ \A f \in File, e \in Epoch : owner'[f][e] \in {owner[f][e], None}
      BY <1>o, <2>5 DEF UnlinkOwner, CleanSweep
    <3>. QED BY <3>1, <2>q, <1>r
  <2>6. CASE Clean(p)
    <3>1. UNCHANGED epoch /\ \A f \in File, e \in Epoch : owner'[f][e] \in {owner[f][e], None}
      BY <1>o, <2>6 DEF Clean, locals
    <3>. QED BY <3>1, <2>q
  <2>7. CASE Validate(p) \/ StatLock(p) \/ ReadLock(p) \/ LstatLock(p) \/ UnlinkLock(p) \/ DropClaim(p) \/ UnlinkClaim(p)
             \/ CleanList(p) \/ Fault(p)
    <3>1. UNCHANGED owner /\ (UNCHANGED epoch \/ Retry(p))
      BY <2>7 DEF Validate, StatLock, ReadLock, LstatLock, UnlinkLock, DropClaim, UnlinkClaim, CleanList, Fault, disk, locals
    <3>. QED BY <2>q, <3>1, <1>r
  <2>. QED BY <1>2, <2>2, <2>3, <2>4, <2>5, <2>6, <2>7 DEF Step, Claim, Break
<1>3. ASSUME NEW p \in Proc, Die(p) PROVE FirstEpoch'
  <2>1. kills = 0
    BY <1>3, ConstantsAssumption DEF Die, LockTyped
  <2>2. epoch' = [epoch EXCEPT ![p] = 0] /\ UNCHANGED owner
    BY <1>3 DEF Die, Forget, Set, disk
  <2>. QED BY <1>e, <2>1, <2>2 DEF FirstEpoch, Calm
<1>. QED BY <1>1, <1>2, <1>3 DEF Next

\* A step does not touch what the others have in hand.
LEMMA OthersHands ==
  ASSUME LockTyped, NEW p \in Proc, Step(p) \/ Fault(p), NEW q \in Proc, q # p
  PROVE  seen'[q] = seen[q] /\ meta'[q] = meta[q]
<1>. DEFINE Own == /\ UNCHANGED seen \/ \E s : seen' = [seen EXCEPT ![p] = s]
                   /\ UNCHANGED meta \/ \E m : meta' = [meta EXCEPT ![p] = m]
<1>. SUFFICES Own
  BY DEF LockTyped, TypeOK
<1>. USE DEF Retry, Forget, Set, disk, locals
<1>1. CASE Hold(p)
  BY <1>1 DEF Hold, Create, WriteIdentity, Release, UnlinkMine
<1>2. CASE Claim(p)
  <2>1. CASE Observe(p) \/ LinkClaim(p) \/ Elect(p) \/ Candidate(p)
    BY <2>1 DEF Observe, LinkClaim, Elect, Candidate
  <2>2. CASE Survey(p)
    BY <2>2 DEF Survey, Elected
  <2>3. CASE Publish(p) \/ Confirm(p) \/ Withdraw(p) \/ UnlinkOwner(p)
    BY <2>3 DEF Publish, Confirm, Withdraw, UnlinkOwner
  <2>. QED BY <1>2, <2>1, <2>2, <2>3 DEF Claim
<1>3. CASE Break(p)
  <2>1. CASE Validate(p) \/ StatLock(p) \/ ReadLock(p) \/ LstatLock(p)
    BY <2>1 DEF Validate, StatLock, ReadLock, LstatLock
  <2>2. CASE UnlinkLock(p) \/ DropClaim(p) \/ UnlinkClaim(p) \/ Clean(p) \/ CleanList(p) \/ CleanSweep(p)
    BY <2>2 DEF UnlinkLock, DropClaim, UnlinkClaim, Clean, CleanList, CleanSweep
  <2>. QED BY <1>3, <2>1, <2>2 DEF Break
<1>4. CASE Fault(p)
  BY <1>4 DEF Fault
<1>. QED BY <1>1, <1>2, <1>3, <1>4 DEF Step

\* No step but a death makes a file breakable ...
LEMMA NothingTurnsStale ==
  ASSUME Prompt = TRUE, LockTyped, Held, NEW p \in Proc, Step(p) \/ Fault(p)
  PROVE  /\ \A f \in File : Breakable(f)' => Breakable(f)
         /\ Stale' => Stale /\ lock' = lock
<1>t. /\ mine \in [Proc -> File \cup {None}] /\ pc \in [Proc -> Label]
      /\ body \in [File -> Proc \cup {None}] /\ lock \in File \cup {None}
      /\ \A q \in Proc : pc[q] \in Holding <=> mine[q] # None
      /\ None \notin Proc /\ None \notin File
  BY ConstantsAssumption DEF LockTyped, TypeOK, File, None
<1>l. \A q \in Proc : (Dead(q)' <=> Dead(q)) /\ ~Dead(p)
  BY StepLives
<1>1. CASE Room /\ Create(p)
  <2>1. PICK f \in File : /\ ino[f] = None /\ lock = None /\ lock' = f /\ mine' = [mine EXCEPT ![p] = f]
    BY <1>1, NextFile DEF Create, Set
  <2>2. pc' = [pc EXCEPT ![p] = "created"] /\ body' = body /\ pc[p] = "try"
    BY <1>1 DEF Create, Go, At
  <2>3. body[f] = None
    BY <2>1 DEF Held
  <2>4. \A g \in File : Breakable(g)' => Breakable(g)
    BY <1>t, <1>l, <2>1, <2>2 DEF Breakable, At
  <2>5. ~Breakable(lock)'
    BY <1>t, <2>1, <2>2, <2>3 DEF Breakable, At
  <2>. QED BY <2>4, <2>5 DEF Stale
<1>2. CASE WriteIdentity(p)
  <2>1. pc[p] = "created" /\ mine[p] \in File
    BY <1>t, <1>2 DEF WriteIdentity, At, Holding
  <2>2. pc' = [pc EXCEPT ![p] = "inside"] /\ body' = [body EXCEPT ![mine[p]] = p] /\ UNCHANGED <<lock, mine>>
    BY <1>2 DEF WriteIdentity, Go, locals
  <2>3. \A g \in File : Breakable(g)' => Breakable(g)
    BY <1>t, <1>l, <2>1, <2>2 DEF Breakable, At
  <2>. QED BY <1>t, <2>2, <2>3 DEF Stale
<1>3. CASE Release(p) \/ UnlinkMine(p) \/ Claim(p) \/ Break(p) \/ Fault(p)
  <2>1. body' = body /\ lock' \in {lock, None} /\ (UNCHANGED mine \/ mine' = [mine EXCEPT ![p] = None])
    BY <1>3, WaiterSteps DEF Release, UnlinkMine, disk, Set, UnlinkLock
  <2>2. pc[p] # "created" /\ \A q \in Proc : q # p => pc'[q] = pc[q]
    BY <1>3, WaiterSteps, StepLives DEF Release, UnlinkMine, At, Holding
  <2>3. \A g \in File : Breakable(g)' => Breakable(g)
    BY <1>t, <1>l, <2>1, <2>2 DEF Breakable, At
  <2>. QED BY <1>t, <2>1, <2>3 DEF Stale
<1>. QED BY <1>1, <1>2, <1>3 DEF Step, Hold

\* ... and a stale file stays one, until it is removed.
LEMMA StaleStays ==
  ASSUME Prompt = TRUE, LockTyped, Held, NEW p \in Proc, Step(p) \/ Fault(p), Stale
  PROVE  /\ Claim(p) \/ Break(p) \/ Fault(p)
         /\ UnlinkLock(p) \/ (Stale' /\ lock' = lock)
<1>t. /\ lock \in File /\ body \in [File -> Proc \cup {None}]
      /\ \A q \in Proc : pc[q] \in Holding <=> mine[q] # None
  BY DEF LockTyped, TypeOK, Stale
<1>1. \A q \in Proc : mine[q] = None
  BY StaleUnheld
<1>2. ~Hold(p)
  BY <1>t, <1>1 DEF Hold, Create, WriteIdentity, Release, UnlinkMine, At, Holding, Stale
<1>3. \A q \in Proc : Dead(q)' <=> Dead(q)
  BY StepLives
<1>4. Claim(p) \/ Break(p) \/ Fault(p)
  BY <1>2 DEF Step
<1>5. UNCHANGED <<body, mine>> /\ (UnlinkLock(p) \/ lock' = lock)
  BY <1>4, WaiterSteps
<1>6. ASSUME lock' = lock PROVE Stale'
  BY <1>t, <1>1, <1>3, <1>5, <1>6 DEF Stale, Breakable
<1>. QED BY <1>4, <1>5, <1>6

\* What makes the others stay as they are.
LEMMA OthersAtStale ==
  ASSUME LockTyped, NEW p \in Proc, Step(p) \/ Fault(p), NEW q \in Proc, q # p, AtStale(q),
         UNCHANGED <<lock, body>>, claim[lock] = lock => UNCHANGED claim,
         owner[lock][0] = q => owner'[lock][0] = q
  PROVE  AtStale(q)'
<1>1. pc'[q] = pc[q] /\ seen'[q] = seen[q] /\ meta'[q] = meta[q]
  BY StepLives, OthersHands
<1>2. ASSUME UNCHANGED claim PROVE Metadata(lock)' = Metadata(lock)
  BY <1>2 DEF Metadata, Links
<1>3. pc[q] \in {"read", "lstat"} => claim[lock] = lock
  BY DEF AtStale, Removing
<1>. HIDE DEF Metadata
<1>. QED BY <1>1, <1>2, <1>3 DEF AtStale

\* While the stale file is at the path, one breaker at a time is past its election.
LEMMA OneBreakerStep ==
  ASSUME Prompt = TRUE, MaxKill <= 1, LockTyped, Held, Calm, FirstEpoch, OneBreaker, [Next]_vars
  PROVE  OneBreaker'
<1>t. /\ pc \in [Proc -> Label] /\ lock \in File \cup {None} /\ None \notin File /\ None \notin Proc /\ 0 \in Epoch
      /\ seen \in [Proc -> File \cup {None}] /\ claim \in [File -> File \cup {None}]
      /\ owner \in [File -> [Epoch -> Proc \cup {None}]]
  BY ConstantsAssumption DEF LockTyped, TypeOK, File, None, Epoch
<1>1. CASE UNCHANGED vars
  BY <1>1 DEF vars, disk, locals, OneBreaker, Stale, AtStale, Breakable, Dead, At, Metadata, Links
<1>2. ASSUME NEW p \in Proc, Step(p) \/ Fault(p) PROVE OneBreaker'
  <2>. SUFFICES ASSUME Stale' PROVE (claim'[lock'] \in {None, lock'} /\ \A q \in Proc : AtStale(q)')
    BY DEF OneBreaker
  <2>1. Stale /\ lock' = lock /\ lock \in File
    BY <1>2, <1>t, NothingTurnsStale DEF Stale
  <2>2. (Claim(p) \/ Break(p) \/ Fault(p)) /\ body' = body /\ ~UnlinkLock(p)
    BY <1>2, <2>1, <1>t, StaleStays, WaiterSteps DEF UnlinkLock
  <2>3. claim[lock] \in {None, lock} /\ \A q \in Proc : AtStale(q)
    BY <2>1 DEF OneBreaker
  <2>4. pc[p] \in Breaking => seen[p] = lock
    BY <2>3 DEF AtStale
  <2>5. epoch[p] = 0
    BY DEF FirstEpoch
  <2>p. \A label : Go(p, label) => pc'[p] = label
    BY <1>t DEF Go
  \* The others, and p itself when it starts over or does no more than wait.
  <2>o. ASSUME UNCHANGED claim, UNCHANGED owner PROVE \A q \in Proc \ {p} : AtStale(q)'
    BY <1>2, <2>1, <2>2, <2>3, <2>o, OthersAtStale
  <2>w. ASSUME pc'[p] \in {"try", "elect", "survey", "candidate", "publish", "confirm", "withdraw"},
               pc'[p] # "try" => seen'[p] = lock
        PROVE  AtStale(p)'
    BY <2>1, <2>w DEF AtStale, Breaking, Claiming, Removing, Cleaning
  <2>r. Retry(p) => pc'[p] = "try"
    BY <2>p DEF Retry
  <2>6. CASE Observe(p)
    <3>1. pc'[p] = "link" /\ seen'[p] = lock /\ UNCHANGED <<claim, owner>>
      BY <1>t, <2>p, <2>6 DEF Observe, Set, disk
    <3>2. AtStale(p)'
      BY <2>1, <3>1 DEF AtStale, Removing, Cleaning
    <3>. QED BY <2>1, <2>3, <2>o, <3>1, <3>2
  <2>7. CASE LinkClaim(p)
    <3>1. seen[p] = lock
      BY <2>4, <2>7 DEF LinkClaim, At, Breaking, Claiming
    <3>2. pc'[p] = "elect" /\ UNCHANGED <<seen, owner>>
      BY <2>1, <2>p, <2>7 DEF LinkClaim, Stale
    <3>3. claim' = IF claim[lock] = None THEN [claim EXCEPT ![lock] = lock] ELSE claim
      BY <2>1, <2>7, <3>1 DEF LinkClaim, Stale
    <3>4. claim'[lock] = lock /\ (claim[lock] = lock => UNCHANGED claim)
      BY <1>t, <2>1, <2>3, <3>3
    <3>5. \A q \in Proc \ {p} : AtStale(q)'
      BY <1>2, <2>1, <2>2, <2>3, <3>2, <3>4, OthersAtStale
    <3>. QED BY <2>1, <2>w, <3>1, <3>2, <3>4, <3>5
  <2>8. CASE Elect(p) \/ Candidate(p) \/ Survey(p)
    <3>1. /\ pc'[p] \in {"try", "survey", "candidate", "publish"} /\ (pc'[p] # "try" => UNCHANGED seen)
          /\ UNCHANGED <<claim, owner>>
      <4>1. CASE Elect(p)
        BY <2>p, <2>r, <4>1 DEF Elect, disk
      <4>2. CASE Candidate(p)
        BY <2>p, <2>r, <4>2 DEF Candidate, disk, locals
      <4>3. CASE Survey(p)
        BY <2>p, <2>r, <4>3 DEF Survey, Elected, disk
      <4>. QED BY <2>8, <4>1, <4>2, <4>3
    <3>2. seen[p] = lock
      BY <2>4, <2>8 DEF Elect, Candidate, Survey, At, Breaking, Claiming
    <3>. QED BY <2>1, <2>3, <2>o, <2>w, <3>1, <3>2
  <2>9. CASE Publish(p)
    <3>1. seen[p] = lock
      BY <2>4, <2>9 DEF Publish, At, Breaking, Claiming
    <3>2. UNCHANGED claim /\ (pc'[p] = "try" \/ (pc'[p] = "confirm" /\ UNCHANGED seen))
      BY <2>p, <2>r, <2>9 DEF Publish, locals
    <3>3. UNCHANGED owner \/ (owner[lock][0] = None /\ owner' = [owner EXCEPT ![lock][0] = p])
      BY <2>5, <2>9, <3>1 DEF Publish
    <3>4. \A q \in Proc \ {p} : owner[lock][0] = q => owner'[lock][0] = q
      BY <1>t, <3>3
    <3>5. \A q \in Proc \ {p} : AtStale(q)'
      BY <1>2, <2>1, <2>2, <2>3, <3>2, <3>4, OthersAtStale
    <3>. QED BY <2>1, <2>3, <2>w, <3>1, <3>2, <3>5
  <2>10. CASE Confirm(p) \/ Withdraw(p)
    <3>1. seen[p] = lock
      BY <2>4, <2>10 DEF Confirm, Withdraw, At, Breaking, Claiming
    <3>2. /\ UNCHANGED <<claim, owner>>
          /\ \/ pc'[p] = "try"
             \/ UNCHANGED seen /\ pc'[p] = "withdraw"
             \/ UNCHANGED seen /\ pc'[p] \in {"validate", "unlinkOwner"} /\ owner[lock][0] = p
      BY <2>5, <2>p, <2>r, <2>10, <3>1 DEF Confirm, Withdraw, OwnsEpoch, disk, locals
    <3>3. AtStale(p)'
      BY <2>1, <3>1, <3>2 DEF AtStale, Breaking, Claiming, Removing, Cleaning
    <3>. QED BY <2>1, <2>3, <2>o, <3>2, <3>3
  <2>11. CASE UnlinkOwner(p)
    <3>1. seen[p] = lock /\ owner[lock][0] = p
      BY <2>3, <2>4, <2>11 DEF UnlinkOwner, At, Breaking, Claiming, AtStale
    <3>2. pc'[p] = "try" /\ UNCHANGED claim
      BY <2>r, <2>11 DEF UnlinkOwner
    <3>3. \A q \in Proc \ {p} : AtStale(q)'
      BY <1>2, <2>1, <2>2, <2>3, <3>1, <3>2, OthersAtStale
    <3>. QED BY <2>1, <2>3, <2>w, <3>2, <3>3
  <2>12. CASE Validate(p)
    <3>1. seen[p] = lock /\ owner[lock][0] = p
      BY <2>3, <2>4, <2>12 DEF Validate, At, Breaking, Removing, AtStale
    <3>2. /\ UNCHANGED <<claim, owner, seen>>
          /\ pc'[p] = "withdraw" \/ (pc'[p] = "stat" /\ claim[lock] = lock)
      BY <2>3, <2>p, <2>12, <3>1 DEF Validate, SameInode, disk
    <3>3. AtStale(p)'
      BY <2>1, <3>1, <3>2 DEF AtStale, Breaking, Claiming, Removing, Cleaning
    <3>. QED BY <2>1, <2>3, <2>o, <3>2, <3>3
  <2>13. CASE StatLock(p)
    <3>1. seen[p] = lock /\ owner[lock][0] = p /\ claim[lock] = lock
      BY <2>3, <2>4, <2>13 DEF StatLock, At, Breaking, Removing, AtStale
    <3>2. UNCHANGED <<claim, owner, seen>> /\ pc'[p] = "read" /\ meta' = [meta EXCEPT ![p] = Metadata(lock)]
      BY <2>1, <2>p, <2>13 DEF StatLock, Stale, Set, disk
    <3>3. meta'[p] = Metadata(lock)
      BY <3>2 DEF LockTyped
    <3>4. Metadata(lock)' = Metadata(lock)
      BY <2>1, <2>2, <3>2 DEF Metadata, Links
    <3>5. AtStale(p)'
      <4>. HIDE DEF Metadata
      <4>. QED BY <2>1, <3>1, <3>2, <3>3, <3>4 DEF AtStale, Breaking, Claiming, Removing, Cleaning
    <3>. QED BY <2>1, <2>3, <2>o, <3>2, <3>5
  <2>14. CASE ReadLock(p)
    <3>1. seen[p] = lock /\ owner[lock][0] = p /\ claim[lock] = lock /\ meta[p] = Metadata(lock)
      BY <2>3, <2>4, <2>14 DEF ReadLock, At, Breaking, Removing, AtStale
    <3>2. Pinned(p) = lock
      BY <3>1 DEF Pinned, Metadata
    <3>3. Unchanged(p) /\ SameInode(Pinned(p), seen[p]) /\ Breakable(Pinned(p))
      BY <2>1, <3>1, <3>2 DEF Unchanged, SameInode, Stale
    <3>4. UNCHANGED <<claim, owner, seen, meta>> /\ pc'[p] = "lstat"
      BY <2>p, <2>14, <3>3 DEF ReadLock, disk, locals
    <3>5. Metadata(lock)' = Metadata(lock)
      BY <2>1, <2>2, <3>4 DEF Metadata, Links
    <3>6. AtStale(p)'
      <4>. HIDE DEF Metadata
      <4>. QED BY <2>1, <3>1, <3>4, <3>5 DEF AtStale, Breaking, Claiming, Removing, Cleaning
    <3>. QED BY <2>1, <2>3, <2>o, <3>4, <3>6
  <2>15. CASE LstatLock(p)
    <3>1. seen[p] = lock /\ owner[lock][0] = p /\ claim[lock] = lock /\ meta[p] = Metadata(lock)
      BY <2>3, <2>4, <2>15 DEF LstatLock, At, Breaking, Removing, AtStale
    <3>2. Unchanged(p)
      BY <2>1, <3>1 DEF Unchanged, SameInode, Stale, Pinned, Metadata
    <3>3. UNCHANGED <<claim, owner, seen>> /\ pc'[p] = "unlinkLock"
      BY <2>p, <2>15, <3>2 DEF LstatLock, disk, locals
    <3>4. AtStale(p)'
      BY <2>1, <3>1, <3>3 DEF AtStale, Breaking, Claiming, Removing, Cleaning
    <3>. QED BY <2>1, <2>3, <2>o, <3>3, <3>4
  <2>16. CASE DropClaim(p) \/ UnlinkClaim(p) \/ Clean(p) \/ CleanList(p) \/ CleanSweep(p)
    BY <2>3, <2>16 DEF DropClaim, UnlinkClaim, Clean, CleanList, CleanSweep, At, AtStale, Cleaning
  <2>17. CASE Fault(p)
    <3>1. seen[p] = lock
      BY <2>4, <2>17 DEF Fault, Breaking, Removing, Cleaning
    <3>2. UNCHANGED <<claim, owner, seen>> /\ pc'[p] = "withdraw"
      BY <2>p, <2>17 DEF Fault, disk, locals
    <3>. QED BY <2>1, <2>3, <2>o, <2>w, <3>1, <3>2
  <2>. QED BY <2>2, <2>6, <2>7, <2>8, <2>9, <2>10, <2>11, <2>12, <2>13, <2>14, <2>15, <2>16, <2>17 DEF Claim, Break
<1>3. ASSUME NEW p \in Proc, Die(p) PROVE OneBreaker'
  <2>1. kills = 0
    BY <1>3, ConstantsAssumption DEF Die, LockTyped
  <2>2. pc' = [pc EXCEPT ![p] = "dead"] /\ UNCHANGED <<lock, claim>>
    BY <1>3 DEF Die, Go, disk
  <2>3. \A q \in Proc : pc'[q] \notin Breaking
    BY <1>t, <2>1, <2>2 DEF Calm, Holding, Breaking, Claiming, Removing, Cleaning
  <2>4. \A q \in Proc : AtStale(q)'
    BY <2>3 DEF AtStale, Breaking, Claiming, Removing, Cleaning
  <2>. QED BY <1>t, <2>1, <2>2, <2>4 DEF OneBreaker, Calm, Stale
<1>. QED BY <1>1, <1>2, <1>3 DEF Next

\* Nobody is about to remove what has taken the place of the stale file.
LEMMA RemovedStep ==
  ASSUME Prompt = TRUE, MaxKill <= 1, LockTyped, Held, Calm, OneBreaker, Removed, [Next]_vars
  PROVE  Removed'
<1>t. pc \in [Proc -> Label] /\ lock \in File \cup {None} /\ None \notin File
  BY DEF LockTyped, TypeOK, File, None
<1>1. CASE UNCHANGED vars
  BY <1>1 DEF vars, disk, locals, Removed, Stale, Breakable, Dead, At, Pinned
<1>2. ASSUME NEW p \in Proc, Step(p) \/ Fault(p) PROVE Removed'
  <2>1. \A q \in Proc \ {p} : pc'[q] = pc[q] /\ meta'[q] = meta[q]
    BY <1>2, StepLives, OthersHands
  <2>2. \A f \in File : Breakable(f)' => Breakable(f)
    BY <1>2, NothingTurnsStale
  <2>p. \A label : Go(p, label) => pc'[p] = label
    BY <1>t DEF Go
  <2>3. CASE Stale /\ ~Stale'
    <3>1. UnlinkLock(p)
      BY <1>2, <2>3, StaleStays
    <3>2. pc[p] = "unlinkLock" /\ pc'[p] \in {"withdraw", "dropClaim"}
      BY <2>p, <3>1 DEF UnlinkLock, At
    <3>3. \A q \in Proc \ {p} : pc[q] \notin Removing
      BY <2>3, <3>2 DEF OneBreaker, AtStale, Removing
    <3>. QED BY <2>1, <3>2, <3>3 DEF Removed, Removing
  <2>4. CASE ~Stale
    <3>1. \A q \in Proc : /\ pc[q] \notin {"lstat", "unlinkLock"}
                          /\ pc[q] = "read" => Pinned(q) \in File /\ ~Breakable(Pinned(q))
      BY <2>4 DEF Removed
    <3>2. ASSUME NEW q \in Proc \ {p}
          PROVE  /\ pc'[q] \notin {"lstat", "unlinkLock"}
                 /\ pc'[q] = "read" => Pinned(q)' \in File /\ ~Breakable(Pinned(q))'
      <4>1. pc'[q] = pc[q] /\ Pinned(q)' = Pinned(q)
        BY <2>1 DEF Pinned
      <4>2. ASSUME Pinned(q) \in File, ~Breakable(Pinned(q)) PROVE ~Breakable(Pinned(q))'
        <5>1. \A f \in File : f = Pinned(q)' => (Breakable(f)' <=> Breakable(Pinned(q))')
          BY DEF Breakable
        <5>. QED BY <2>2, <4>1, <4>2, <5>1
      <4>. QED BY <3>1, <4>1, <4>2
    <3>3. /\ pc'[p] \notin {"lstat", "unlinkLock"}
          /\ pc'[p] = "read" => Pinned(p)' \in File /\ ~Breakable(Pinned(p))'
      <4>1. CASE StatLock(p) /\ lock # None
        <5>1. meta' = [meta EXCEPT ![p] = Metadata(lock)] /\ pc'[p] = "read"
          BY <2>p, <4>1 DEF StatLock, Set
        <5>2. Pinned(p)' = lock
          BY <5>1 DEF Pinned, Metadata, LockTyped
        <5>3. ~Breakable(lock)
          BY <2>4, <4>1 DEF Stale
        <5>4. ~Breakable(Pinned(p))'
          <6>1. \A f \in File : f = Pinned(p)' => (Breakable(f)' <=> Breakable(Pinned(p))')
            BY DEF Breakable
          <6>. QED BY <1>t, <2>2, <4>1, <5>2, <5>3, <6>1
        <5>. QED BY <1>t, <4>1, <5>1, <5>2, <5>4
      <4>2. CASE ~(StatLock(p) /\ lock # None)
        <5>. SUFFICES pc'[p] \notin {"read", "lstat", "unlinkLock"}
          OBVIOUS
        <5>r. Retry(p) => pc'[p] = "try"
          BY <2>p DEF Retry
        <5>1. CASE Hold(p) \/ Observe(p) \/ LinkClaim(p) \/ Elect(p) \/ Candidate(p)
          BY <2>p, <5>r, <5>1 DEF Hold, Create, WriteIdentity, Release, UnlinkMine, Observe, LinkClaim, Elect, Candidate
        <5>2. CASE Survey(p)
          BY <2>p, <5>r, <5>2 DEF Survey, Elected
        <5>3. CASE Publish(p) \/ Confirm(p) \/ Withdraw(p) \/ UnlinkOwner(p)
          BY <2>p, <5>r, <5>3 DEF Publish, Confirm, Withdraw, UnlinkOwner
        <5>4. CASE Validate(p) \/ StatLock(p)
          BY <2>p, <4>2, <5>4 DEF Validate, StatLock
        <5>5. CASE ReadLock(p) \/ LstatLock(p)
          BY <2>p, <3>1, <5>5 DEF ReadLock, LstatLock, At
        <5>6. CASE UnlinkLock(p) \/ DropClaim(p) \/ UnlinkClaim(p) \/ Clean(p) \/ CleanList(p) \/ CleanSweep(p) \/ Fault(p)
          BY <2>p, <5>r, <5>6 DEF UnlinkLock, DropClaim, UnlinkClaim, Clean, CleanList, CleanSweep, Fault
        <5>. QED BY <1>2, <5>1, <5>2, <5>3, <5>4, <5>5, <5>6 DEF Step, Claim, Break
      <4>. QED BY <4>1, <4>2
    <3>. QED BY <3>2, <3>3 DEF Removed
  <2>5. CASE Stale /\ Stale'
    BY <2>5 DEF Removed
  <2>. QED BY <2>3, <2>4, <2>5
<1>3. ASSUME NEW p \in Proc, Die(p) PROVE Removed'
  <2>1. kills = 0
    BY <1>3, ConstantsAssumption DEF Die, LockTyped
  <2>2. pc' = [pc EXCEPT ![p] = "dead"]
    BY <1>3 DEF Die, Go
  <2>3. \A q \in Proc : pc'[q] \notin Breaking
    BY <1>t, <2>1, <2>2 DEF Calm, Holding, Breaking, Claiming, Removing, Cleaning
  <2>. QED BY <2>3 DEF Removed, Breaking, Removing
<1>. QED BY <1>1, <1>2, <1>3 DEF Next

\* The invariant, in every run with one death at most.
THEOREM LockInvariant ==
  ASSUME Prompt = TRUE, MaxKill <= 1
  PROVE  Spec => []LockInv
<1>1. Init => LockInv
  <2>. SUFFICES ASSUME Init PROVE LockInv
    OBVIOUS
  <2>1. LockTyped
    BY LockTypedInit
  <2>2. Held /\ Calm /\ FirstEpoch
    BY ConstantsAssumption DEF Init, Held, Calm, FirstEpoch, Epoch
  <2>3. ~Stale /\ \A p \in Proc : pc[p] = "try"
    BY DEF Init, Stale
  <2>. QED BY <2>1, <2>2, <2>3 DEF LockInv, OneBreaker, Removed
<1>2. ASSUME LockInv, [Next]_vars PROVE LockInv'
  BY <1>2, LockTypedStep, HeldStep, CalmStep, FirstEpochStep, OneBreakerStep, RemovedStep DEF LockInv
<1>. QED BY <1>1, <1>2, PTL DEF Spec

\* "This avoids the classic delayed pathname-unlink race" (resumeStaleBreak, releaseOwnedLock):
\* with one death, any number of waiters and breakers and any file-system failures of theirs, the
\* path names the file of the caller that is in its section.  The hypothesis on the creator is the
\* one the code makes (nobody takes a second to write its identity), the other one is exact.
THEOREM HolderKeepsItsFile ==
  ASSUME Prompt = TRUE, MaxKill <= 1
  PROVE  Spec => []HolderNamed
<1>1. LockInv => HolderNamed
  BY DEF LockInv, LockTyped, Held, HolderNamed, Inside, At, Holding
<1>. QED BY <1>1, LockInvariant, PTL

\* Under the same hypotheses the callers of withFileLock run their sections one at a time: the
\* lock implements Mutex.
THEOREM SectionsExclude ==
  ASSUME Prompt = TRUE, MaxKill <= 1
  PROVE  Spec => ImplementsMutex
<1>1. Init => Service!Init
  BY DEF Init, Service!Init, Inside, At
<1>2. ASSUME LockInv, [Next]_vars PROVE [Service!Next]_Inside
  <2>t. pc \in [Proc -> Label] /\ \A q \in Proc : pc[q] \in Holding <=> mine[q] # None
    BY <1>2 DEF LockInv, LockTyped
  <2>1. CASE UNCHANGED vars
    BY <2>1 DEF vars, Inside, At
  <2>2. ASSUME NEW p \in Proc, Step(p) \/ Fault(p) PROVE [Service!Next]_Inside
    <3>1. \A q \in Proc \ {p} : pc'[q] = pc[q]
      BY <1>2, <2>2, StepLives DEF LockInv
    <3>2. CASE pc[p] = "inside" /\ pc'[p] # "inside"
      BY <3>1, <3>2 DEF Inside, At, Service!Next, Service!Exit
    <3>3. CASE pc[p] # "inside" /\ pc'[p] = "inside"
      <4>1. WriteIdentity(p)
        BY <2>2, <2>t, <3>3, StepMoves DEF Go, Create
      <4>2. mine[p] # None
        BY <2>t, <4>1 DEF WriteIdentity, At, Holding
      <4>3. Inside = {}
        BY <1>2, <2>t, <3>3, <4>2 DEF LockInv, Held, Inside, At, Holding
      <4>4. Inside' = {p}
        BY <3>1, <3>3, <4>3 DEF Inside, At
      <4>. QED BY <4>3, <4>4 DEF Service!Next, Service!Enter
    <3>4. CASE pc[p] = "inside" <=> pc'[p] = "inside"
      <4>1. Inside' = Inside
        BY <3>1, <3>4 DEF Inside, At
      <4>. QED BY <4>1
    <3>. QED BY <3>2, <3>3, <3>4
  <2>3. ASSUME NEW p \in Proc, Die(p) PROVE [Service!Next]_Inside
    <3>1. pc' = [pc EXCEPT ![p] = "dead"]
      BY <2>3 DEF Die, Go
    <3>2. Inside' = Inside \ {p}
      BY <2>t, <3>1 DEF Inside, At
    <3>. QED BY <3>2 DEF Service!Next, Service!Exit
  <2>. QED BY <1>2, <2>1, <2>2, <2>3 DEF Next
<1>. QED BY <1>1, <1>2, LockInvariant, PTL DEF Spec, ImplementsMutex, Service!Spec

=============================================================================
