--------------------------- MODULE V3FenceProofs ---------------------------
(***************************************************************************)
(* Proofs, for any number of daemons, drives that throw and failing reads  *)
(* and writes, that the journal declares an attempt closed only when no    *)
(* worker of it is left (ProofMeansDead), and that only this worker is ever*)
(* signalled (StrangerSpared).                                             *)
(*                                                                         *)
(* The argument: while there is no proof, the fence tells what the promise *)
(* of the pool may still do.  Between arming and binding it is armed by the*)
(* daemon of the promise, or closed without a spawn and then the binding is*)
(* refused; while the child has its goal it is active (FenceInv).  So      *)
(* whoever reads a fence and a process table and concludes that nothing is *)
(* left is right for good: the child is gone or never comes (Gone), or it  *)
(* can no longer be bound (Shut).  That conclusion outlives the pass that  *)
(* drew it (ProofInv).  An armed fence of a dead daemon is the hard case:  *)
(* its child may be between fork and exec, where no scan sees it (ScanInv).*)
(***************************************************************************)
EXTENDS V3Fence, TLAPS

\* Places of the promise: before the fork, before the binding, and with a bound child.
PreFork == {"claimed", "armed", "setup", "unspawned"}
Unbound == {"setup", "unspawned", "forking", "binding"}
Tended == {"greeting", "bound", "stopping"}
Unspawned(d) == [phase |-> "noSpawn", owner |-> d, who |-> None]

\* The child is gone for good, or will never come.
Gone == worker \in {"exited", "closed"} \/ (worker = None /\ place \notin PreFork)

\* A child may have come or may still come, but it never gets a goal.
Shut ==
  /\ worker # "working" /\ place \notin {"claimed", "armed"} \cup Tended
  /\ fence.phase = "noSpawn" \/ (proof # None /\ fence = NoFence)

\* How far the promise and the drain are, and what that says of the child and the proof.
PlaceInv ==
  /\ place # None \/ drain # "idle" \/ worker # None \/ fence # NoFence => dispatched
  /\ driver = Nobody => drain = "idle"
  /\ place \in PreFork => worker = None
  /\ place = "forking" => worker # None
  /\ place \in {"binding", "refusing"} \cup Tended => worker \notin {None, "forked"}
  /\ place \in {"closed", "proved"} => worker \in {None, "closed"}
  /\ place \in {"claimed", "armed"} => driver = by /\ drain = "idle" /\ proof = None
  /\ place = "proved" => proof # None
  /\ drain = "finalize" => proof # None
  /\ drain \in {"signal", "kill"} => seen.phase = "active"

\* The fence says what the promise has done and what it may still do.
FenceInv ==
  /\ place = "claimed" => fence = NoFence
  /\ place = "armed" => fence = Armed(by)
  /\ proof = None /\ place \in Unbound => fence \in {Armed(by), Unspawned(by)}
  /\ proof = None /\ place \in Tended => fence.phase = "active"
  /\ proof = None /\ fence = NoFence =>
       /\ place \in {None, "claimed", "closed"}
       /\ place # "claimed" /\ dispatched => Gone
  /\ place # None /\ fence.phase = "armed" => fence.owner = by
  /\ fence.phase = "active" => worker \notin {None, "forked"} /\ place \notin Unbound
  /\ fence.phase = "closed" => Gone
  /\ proof = None /\ fence.phase = "noSpawn" => worker # "working"
  /\ drain = "kill" => worker \notin {None, "forked"}

\* A pid changes hands only behind the death of the child.
ReuseInv ==
  /\ reused => worker \in {"exited", "closed"}
  /\ fence.who = "stranger" => worker \in {"exited", "closed"}

\* Nobody else's process gets into the fence.
SparedInv ==
  /\ drain \in {"activate", "kill"} => ~reused
  /\ fence.who # "stranger" /\ seen.who # "stranger"
  /\ ~struck

\* An old empty scan of an armed fence has not missed a child between fork and exec.
ScanInv ==
  /\ driver \notin {Nobody, by} /\ place \in {"setup", "forking"} => since = "never"
  /\ driver # Nobody /\ since = "old" /\ fence.phase = "armed" /\ fence.owner # driver =>
       worker # "forked"

\* Who has the proof, or is about to write it, is right for good.
ProofInv == proof # None \/ drain \in {"prove", "finalize"} => Gone \/ Shut

----------------------------------------------------------------------------
(* Types, in four parts.                                                   *)

\* The fence and the copy the drain has read; the sorts of the rest; lives; counters.
FenceOK ==
  /\ fence \in Fence /\ seen \in Fence
  /\ fence.phase \in {"active", "closed"} <=> fence.who # None

RestOK ==
  /\ run \in {"running", "cancelling"} /\ dispatched \in BOOLEAN
  /\ proof \in {None, "local", "drained"} /\ (proof # None => dispatched)
  /\ worker \in {None, "forked", "exited", "closed"} \cup Live
  /\ reused \in BOOLEAN /\ struck \in BOOLEAN
  /\ place \in Place /\ (place = None <=> by = Nobody) /\ mine \in BOOLEAN
  /\ drain \in {"idle", "activate", "probe", "signal", "kill", "prove", "finalize"}
  /\ since \in {"never", "recent", "old"}
  /\ sent \in {None, "graced", "interrupted", "killed"}

LifeOK ==
  /\ alive \subseteq 1 .. lives /\ lives \in Daemon
  /\ driver \in alive \cup {Nobody} /\ by \in alive \cup {Nobody}
  /\ mine => by = driver /\ driver # Nobody
  /\ owed \subseteq alive \ {driver}

CountOK == lapses \in 0 .. MaxLapse /\ fails \in 0 .. MaxFail

\* Facts about fences and what is done to them.
LEMMA FenceTypes ==
  /\ NoFence \in Fence /\ NoFence.phase = "missing" /\ NoFence.who = None
  /\ \A d \in Daemon : /\ Armed(d) \in Fence /\ Armed(d).phase = "armed"
                       /\ Armed(d).owner = d /\ Armed(d).who = None
BY DEF NoFence, Armed, Fence, Phase

\* A fence moves to another phase.
LEMMA Moved ==
  ASSUME fence \in Fence, NEW p \in Phase, fence' = [fence EXCEPT !.phase = p]
  PROVE  fence' \in Fence /\ fence'.phase = p /\ fence'.who = fence.who /\ fence'.owner = fence.owner
BY DEF Fence, Phase

\* A fence is bound to a process.
LEMMA Activated ==
  ASSUME fence \in Fence, NEW w \in Identity, fence' = [fence EXCEPT !.phase = "active", !.who = w]
  PROVE  fence' \in Fence /\ fence'.phase = "active" /\ fence'.who = w /\ fence'.owner = fence.owner
<1>1. fence'.phase = "active" /\ fence'.who = w /\ fence'.owner = fence.owner
  BY DEF Fence
<1>2. fence' \in Fence
  BY DEF Fence, Phase
<1>. QED BY <1>1, <1>2

\* Those who act are daemons.
LEMMA Lives ==
  ASSUME TypeOK
  PROVE  /\ Nobody \notin Daemon /\ \A d \in alive : d \in Daemon
         /\ driver # Nobody => driver \in Daemon
         /\ \A p : At(p) => by \in Daemon
BY ConstantsAssumption DEF TypeOK, Daemon, Nobody, At, Free

\* The sorts of the state.
LEMMA RestStep ==
  ASSUME RestOK, PlaceInv, [Next]_vars
  PROVE  RestOK'
<1>. USE DEF RestOK, PlaceInv, Place, Live, None
<1>u. CASE UNCHANGED vars
  BY <1>u DEF vars, journal, os, daemons, pool, pass, faults
<1>1. ASSUME NEW d \in Daemon, Drive(d) PROVE RestOK'
  BY <1>1 DEF Drive, journal, os, faults
<1>2. ASSUME NEW d \in Daemon, Die(d) PROVE RestOK'
  BY <1>2 DEF Die, journal, os, faults
<1>3. CASE Claim
  BY <1>3 DEF Claim, os, daemons, pass, faults
<1>4. CASE Arm
  BY <1>4 DEF Arm, At, Goto, journal, os, daemons, pass, faults, Free
<1>5. CASE MaySpawn
  BY <1>5 DEF MaySpawn, At, Drop, journal, os, daemons, pass, faults, Free
<1>6. CASE SetupEnds \/ Stop
  BY <1>6 DEF SetupEnds, Stop, At, Goto, journal, os, daemons, pass, faults, Free
<1>7. CASE Unspawn
  BY <1>7 DEF Unspawn, At, Goto, journal, os, daemons, pass, faults, Free
<1>8. CASE Fork
  BY <1>8 DEF Fork, At, Goto, journal, daemons, pass, faults, Free
<1>9. CASE Forked
  BY <1>9 DEF Forked, At, Goto, journal, os, daemons, pass, faults, Free
<1>10. CASE Bind
  BY <1>10 DEF Bind, At, Goto, journal, os, daemons, pass, faults, Free
<1>11. CASE Greet \/ Kill
  BY <1>11 DEF Greet, Kill, At, Goto, journal, daemons, pass, faults, Free, pool
<1>12. CASE Closed
  BY <1>12 DEF Closed, Free, Goto, journal, os, daemons, pass, faults
<1>13. CASE Refused
  BY <1>13 DEF Refused, At, Goto, journal, os, daemons, pass, faults, Free
<1>14. CASE Settle
  BY <1>14 DEF Settle, At, Prove, Goto, os, daemons, pass, faults, Free
<1>15. CASE CleanUp
  BY <1>15 DEF CleanUp, At, Drop, journal, os, daemons, pass, faults, Free
<1>16. CASE DrainArmedMine
  BY <1>16 DEF DrainArmedMine, Drains, NothingFound, journal, os, daemons, pool, faults,
     Blocking, ToProve, Later
<1>17. CASE DrainArmedOther
  BY <1>17 DEF DrainArmedOther, Drains, Later, NothingFound, journal, os, daemons, pool, faults,
     Blocking, ToProve
<1>18. CASE DrainMissing
  BY <1>18 DEF DrainMissing, Drains, NothingFound, journal, os, daemons, pool, faults, Blocking,
     ToProve, Later
<1>19. CASE Activate
  BY <1>19 DEF Activate, Drains, Later, journal, os, daemons, pool, faults, Blocking
<1>20. CASE DrainBound
  BY <1>20 DEF DrainBound, Drains, journal, os, daemons, pool, faults, Blocking
<1>21. CASE Probe
  BY <1>21 DEF Probe, Drains, ToProve, Due, Later, journal, os, daemons, pool, faults, Blocking
<1>22. CASE Signal
  <2>1. /\ UNCHANGED <<journal, reused, daemons, pool, since, faults>>
        /\ drain' \in {"prove", "idle"} /\ sent' \in {sent, "graced", "killed"}
        /\ worker' \in {worker, "exited"}
        /\ struck' \in BOOLEAN
    BY <1>22 DEF Signal, ToProve, Later
  <2>. QED BY <2>1 DEF journal, daemons, pool, faults
<1>23. CASE Record
  BY <1>23 DEF Record, Prove, os, daemons, pool, faults
<1>24. CASE Finalize
  BY <1>24 DEF Finalize, Later, journal, os, daemons, pool, faults
<1>25. CASE ArmFails
  BY <1>25 DEF ArmFails, At, Fail, Prove, Drop, os, daemons, pass, Free
<1>26. CASE MaySpawnFails
  BY <1>26 DEF MaySpawnFails, At, Fail, Prove, Drop, os, daemons, pass, Free
<1>27. CASE BindFails
  BY <1>27 DEF BindFails, At, Fail, Goto, journal, os, daemons, pass, Free
<1>28. CASE CloseFails
  BY <1>28 DEF CloseFails, Free, Fail, Goto, journal, os, daemons, pass
<1>29. CASE SettleFails
  BY <1>29 DEF SettleFails, At, Fail, Drop, journal, os, daemons, pass, Free
<1>30. CASE DrainFails
  BY <1>30 DEF DrainFails, Fail, Blocking, Later, journal, os, daemons, pool
<1>31. CASE Cancel \/ Start
  BY <1>31 DEF Cancel, Start, os, daemons, pool, pass, faults, journal
<1>32. CASE Throw
  <2>1. mine' \in BOOLEAN /\ reused' \in BOOLEAN /\ struck' \in BOOLEAN
    BY <1>32 DEF Throw, os
  <2>. QED BY <1>32, <2>1 DEF Throw, journal, os, pass
<1>33. CASE Exec \/ Exit \/ Release
  BY <1>33 DEF Exec, Exit, Release, journal, daemons, pool, pass, faults
<1>34. CASE Reuse
  BY <1>34 DEF Reuse, journal, daemons, pool, pass, faults
<1>35. CASE ScanAges \/ GraceEnds
  BY <1>35 DEF ScanAges, GraceEnds, journal, os, daemons, pool, faults
<1>36. ASSUME NEW d \in Daemon, Request(d) \/ TimesOut(d) PROVE RestOK'
  BY <1>36 DEF Request, TimesOut, journal, os, pool, pass, faults
<1>37. CASE Recheck
  BY <1>37 DEF Recheck, Drains, Alive, ToProve, Later, journal, os, daemons, pool, faults, Blocking
<1>. QED BY <1>u, <1>1, <1>2, <1>3, <1>4, <1>5, <1>6, <1>7, <1>8, <1>9, <1>10, <1>11, <1>12,
           <1>13, <1>14, <1>15, <1>16, <1>17, <1>18, <1>19, <1>20, <1>21, <1>22, <1>23, <1>24,
           <1>25, <1>26, <1>27, <1>28, <1>29, <1>30, <1>31, <1>32, <1>33, <1>34, <1>35,
           <1>36, <1>37 DEF Next, Pool, Pass, Failure

\* Lives of the daemon and whose promise it is.
LEMMA LifeStep ==
  ASSUME TypeOK, PlaceInv, [Next]_vars
  PROVE  LifeOK'
<1>. USE Lives, ConstantsAssumption DEF LifeOK, TypeOK, PlaceInv, Daemon, Nobody
<1>u. CASE UNCHANGED vars
  BY <1>u DEF vars, journal, os, daemons, pool, pass, faults
<1>1. ASSUME NEW d \in Daemon, Drive(d) PROVE LifeOK'
  BY <1>1 DEF Drive, None, journal, os, faults
<1>2. ASSUME NEW d \in Daemon, Die(d) PROVE LifeOK'
  BY <1>2 DEF Die, None, journal, os, faults
<1>3. CASE Claim
  BY <1>3 DEF Claim, os, daemons, pass, faults
<1>4. CASE Arm
  BY <1>4 DEF Arm, At, Goto, journal, os, daemons, pass, faults, Free
<1>5. CASE MaySpawn
  BY <1>5 DEF MaySpawn, At, Drop, journal, os, daemons, pass, faults, Free, None
<1>6. CASE SetupEnds \/ Stop
  <2>1. UNCHANGED <<alive, lives, driver, owed, by, mine>>
    BY <1>6 DEF SetupEnds, Stop, Goto, daemons
  <2>. QED BY <2>1
<1>7. CASE Unspawn
  BY <1>7 DEF Unspawn, At, Goto, journal, os, daemons, pass, faults, Free
<1>8. CASE Fork
  BY <1>8 DEF Fork, At, Goto, journal, daemons, pass, faults, Free
<1>9. CASE Forked
  BY <1>9 DEF Forked, At, Goto, journal, os, daemons, pass, faults, Free
<1>10. CASE Bind
  BY <1>10 DEF Bind, At, Goto, journal, os, daemons, pass, faults, Free
<1>11. CASE Greet \/ Kill
  <2>1. UNCHANGED <<alive, lives, driver, owed, by, mine>>
    BY <1>11 DEF Greet, Kill, Goto, daemons, pool
  <2>. QED BY <2>1
<1>12. CASE Closed
  BY <1>12 DEF Closed, Free, Goto, journal, os, daemons, pass, faults
<1>13. CASE Refused
  BY <1>13 DEF Refused, At, Goto, journal, os, daemons, pass, faults, Free
<1>14. CASE Settle
  BY <1>14 DEF Settle, At, Goto, os, daemons, pass, faults, Free
<1>15. CASE CleanUp
  BY <1>15 DEF CleanUp, At, Drop, journal, os, daemons, pass, faults, Free, None
<1>16. CASE DrainArmedMine
  BY <1>16 DEF DrainArmedMine, Drains, journal, os, daemons, pool, faults, None, Blocking
<1>17. CASE DrainArmedOther
  BY <1>17 DEF DrainArmedOther, Drains, Later, journal, os, daemons, pool, faults, None,
     Blocking
<1>18. CASE DrainMissing
  BY <1>18 DEF DrainMissing, Drains, journal, os, daemons, pool, faults, None, Blocking
<1>19. CASE Activate
  BY <1>19 DEF Activate, Drains, Later, journal, os, daemons, pool, faults, None, Blocking
<1>20. CASE DrainBound
  BY <1>20 DEF DrainBound, Drains, journal, os, daemons, pool, faults, None, Blocking
<1>21. CASE Probe
  BY <1>21 DEF Probe, Drains, Due, Later, journal, os, daemons, pool, faults, None, Blocking
<1>22. CASE Signal
  BY <1>22 DEF Signal, Drains, None, Later, journal, daemons, pool, faults, Blocking
<1>23. CASE Record
  BY <1>23 DEF Record, os, daemons, pool, faults
<1>24. CASE Finalize
  BY <1>24 DEF Finalize, Later, None, journal, os, daemons, pool, faults
<1>25. CASE ArmFails
  BY <1>25 DEF ArmFails, At, Fail, Drop, os, daemons, pass, Free, None
<1>26. CASE MaySpawnFails
  BY <1>26 DEF MaySpawnFails, At, Fail, Drop, os, daemons, pass, Free, None
<1>27. CASE BindFails
  BY <1>27 DEF BindFails, At, Fail, Goto, journal, os, daemons, pass, Free
<1>28. CASE CloseFails
  BY <1>28 DEF CloseFails, Free, Fail, Goto, journal, os, daemons, pass
<1>29. CASE SettleFails
  BY <1>29 DEF SettleFails, At, Fail, Drop, journal, os, daemons, pass, Free, None
<1>30. CASE DrainFails
  BY <1>30 DEF DrainFails, None, Fail, Blocking, Later, journal, os, daemons, pool
<1>31. CASE Cancel \/ Start
  <2>1. CASE Cancel
    BY <2>1 DEF Cancel, pool
  <2>2. CASE Start
    <3>1. lives + 1 # driver /\ owed \subseteq alive /\ driver \notin owed
      BY DEF Daemon
    <3>2. owed' \subseteq alive' \ {driver'}
      BY <2>2, <3>1 DEF Start
    <3>. QED BY <2>2, <3>2 DEF Start, pool
  <2>. QED BY <1>31, <2>1, <2>2
<1>32. CASE Throw
  BY <1>32 DEF Throw, Blocking, journal, os, pass
<1>33. CASE Exec \/ Exit \/ Release
  <2>1. UNCHANGED <<alive, lives, driver, owed, by, mine>>
    BY <1>33 DEF Exec, Exit, Release, daemons, pool
  <2>. QED BY <2>1
<1>34. CASE Reuse
  BY <1>34 DEF Reuse, journal, daemons, pool, pass, faults
<1>35. CASE ScanAges \/ GraceEnds
  <2>1. UNCHANGED <<alive, lives, driver, owed, by, mine>>
    BY <1>35 DEF ScanAges, GraceEnds, daemons, pool
  <2>. QED BY <2>1
<1>36. ASSUME NEW d \in Daemon, Request(d) \/ TimesOut(d) PROVE LifeOK'
  <2>1. owed' \subseteq alive \ {driver}
    BY <1>36 DEF Request, TimesOut
  <2>2. UNCHANGED <<alive, lives, driver, by, mine>>
    BY <1>36 DEF Request, TimesOut, pool
  <2>. QED BY <2>1, <2>2
<1>37. CASE Recheck
  BY <1>37 DEF Recheck, Drains, Alive, ToProve, Later, journal, os, daemons, pool, faults, Blocking
<1>. QED BY <1>u, <1>1, <1>2, <1>3, <1>4, <1>5, <1>6, <1>7, <1>8, <1>9, <1>10, <1>11, <1>12,
           <1>13, <1>14, <1>15, <1>16, <1>17, <1>18, <1>19, <1>20, <1>21, <1>22, <1>23, <1>24,
           <1>25, <1>26, <1>27, <1>28, <1>29, <1>30, <1>31, <1>32, <1>33, <1>34, <1>35,
           <1>36, <1>37 DEF Next, Pool, Pass, Failure

\* The bounds.
LEMMA CountStep ==
  ASSUME TypeOK, [Next]_vars
  PROVE  CountOK'
<1>. USE ConstantsAssumption DEF CountOK, TypeOK
<1>u. CASE UNCHANGED vars
  BY <1>u DEF vars, journal, os, daemons, pool, pass, faults
<1>1. ASSUME NEW d \in Daemon, Drive(d) PROVE CountOK'
  BY <1>1 DEF Drive, faults
<1>2. ASSUME NEW d \in Daemon, Die(d) PROVE CountOK'
  BY <1>2 DEF Die, faults
<1>3. CASE Claim
  BY <1>3 DEF Claim, faults
<1>4. CASE Arm
  BY <1>4 DEF Arm, faults
<1>5. CASE MaySpawn
  BY <1>5 DEF MaySpawn, faults
<1>6. CASE SetupEnds \/ Stop
  BY <1>6 DEF SetupEnds, Stop, faults
<1>7. CASE Unspawn
  BY <1>7 DEF Unspawn, faults
<1>8. CASE Fork
  BY <1>8 DEF Fork, faults
<1>9. CASE Forked
  BY <1>9 DEF Forked, faults
<1>10. CASE Bind
  BY <1>10 DEF Bind, faults
<1>11. CASE Greet \/ Kill
  BY <1>11 DEF Greet, Kill, faults
<1>12. CASE Closed
  BY <1>12 DEF Closed, faults
<1>13. CASE Refused
  BY <1>13 DEF Refused, faults
<1>14. CASE Settle
  BY <1>14 DEF Settle, faults
<1>15. CASE CleanUp
  BY <1>15 DEF CleanUp, faults
<1>16. CASE DrainArmedMine
  BY <1>16 DEF DrainArmedMine, faults
<1>17. CASE DrainArmedOther
  BY <1>17 DEF DrainArmedOther, faults
<1>18. CASE DrainMissing
  BY <1>18 DEF DrainMissing, faults
<1>19. CASE Activate
  BY <1>19 DEF Activate, faults
<1>20. CASE DrainBound
  BY <1>20 DEF DrainBound, faults
<1>21. CASE Probe
  BY <1>21 DEF Probe, faults
<1>22. CASE Signal
  BY <1>22 DEF Signal, faults
<1>23. CASE Record
  BY <1>23 DEF Record, faults
<1>24. CASE Finalize
  BY <1>24 DEF Finalize, faults
<1>25. CASE ArmFails
  BY <1>25 DEF ArmFails, Fail
<1>26. CASE MaySpawnFails
  BY <1>26 DEF MaySpawnFails, Fail
<1>27. CASE BindFails
  BY <1>27 DEF BindFails, Fail
<1>28. CASE CloseFails
  BY <1>28 DEF CloseFails, Fail
<1>29. CASE SettleFails
  BY <1>29 DEF SettleFails, Fail
<1>30. CASE DrainFails
  BY <1>30 DEF DrainFails, Fail
<1>31. CASE Cancel \/ Start
  <2>1. fails' = fails
          /\ (lapses' = lapses \/ (lapses < MaxLapse /\ lapses' = lapses + 1))
    BY <1>31 DEF Cancel, Start, faults
  <2>2. lapses \in 0 .. MaxLapse /\ fails \in 0 .. MaxFail
    BY DEF TypeOK
  <2>. QED BY <2>1, <2>2
<1>32. CASE Throw
  <2>1. lapses < MaxLapse /\ lapses' = lapses + 1 /\ fails' = fails
    BY <1>32 DEF Throw
  <2>2. lapses \in 0 .. MaxLapse /\ fails \in 0 .. MaxFail
    BY DEF TypeOK
  <2>. QED BY <2>1, <2>2
<1>33. CASE Exec \/ Exit \/ Release
  BY <1>33 DEF Exec, Exit, Release, faults
<1>34. CASE Reuse
  BY <1>34 DEF Reuse, faults
<1>35. CASE ScanAges \/ GraceEnds
  BY <1>35 DEF ScanAges, GraceEnds, faults
<1>36. ASSUME NEW d \in Daemon, Request(d) \/ TimesOut(d) PROVE CountOK'
  <2>1. CASE Request(d)
    BY <2>1 DEF Request, faults
  <2>2. CASE TimesOut(d)
    <3>1. lapses < MaxLapse /\ lapses' = lapses + 1 /\ fails' = fails
      BY <2>2 DEF TimesOut
    <3>2. lapses \in 0 .. MaxLapse /\ fails \in 0 .. MaxFail
      BY DEF TypeOK
    <3>. QED BY <3>1, <3>2
  <2>. QED BY <1>36, <2>1, <2>2
<1>37. CASE Recheck
  BY <1>37 DEF Recheck, faults
<1>. QED BY <1>u, <1>1, <1>2, <1>3, <1>4, <1>5, <1>6, <1>7, <1>8, <1>9, <1>10, <1>11, <1>12,
           <1>13, <1>14, <1>15, <1>16, <1>17, <1>18, <1>19, <1>20, <1>21, <1>22, <1>23, <1>24,
           <1>25, <1>26, <1>27, <1>28, <1>29, <1>30, <1>31, <1>32, <1>33, <1>34, <1>35,
           <1>36, <1>37 DEF Next, Pool, Pass, Failure

\* The fence, and the copy of it that the drain has read.
LEMMA FenceTypeStep ==
  ASSUME TypeOK, PlaceInv, [Next]_vars
  PROVE  FenceOK'
<1>. USE FenceTypes, Lives DEF FenceOK, TypeOK
<1>u. CASE UNCHANGED vars
  BY <1>u DEF vars, journal, os, daemons, pool, pass, faults
<1>1. ASSUME NEW d \in Daemon, Drive(d) PROVE FenceOK'
  BY <1>1 DEF Drive, None, journal, os, faults
<1>2. ASSUME NEW d \in Daemon, Die(d) PROVE FenceOK'
  BY <1>2 DEF Die, None, journal, os, faults
<1>3. CASE Claim
  BY <1>3 DEF Claim, os, daemons, pass, faults
<1>4. CASE Arm
  BY <1>4 DEF Arm, Goto, pass
<1>5. CASE MaySpawn
  <2>1. UNCHANGED <<fence, seen>> \/ (CloseUnspawned(by) /\ UNCHANGED seen)
    BY <1>5 DEF MaySpawn, pass
  <2>2. UNCHANGED fence \/ (fence = Armed(by) /\ fence' = [fence EXCEPT !.phase = "noSpawn"])
    BY <2>1 DEF CloseUnspawned
  <2>3. fence = Armed(by) => fence.who = None
    BY DEF Armed
  <2>. QED BY <2>1, <2>2, <2>3, Moved DEF Phase
<1>6. CASE SetupEnds \/ Stop
  BY <1>6 DEF SetupEnds, Stop, At, Goto, journal, os, daemons, pass, faults, Free
<1>7. CASE Unspawn
  BY <1>7, Moved DEF Unspawn, CloseUnspawned, pass, Phase
<1>8. CASE Fork
  BY <1>8 DEF Fork, At, Goto, journal, daemons, pass, faults, Free
<1>9. CASE Forked
  BY <1>9 DEF Forked, At, Goto, journal, os, daemons, pass, faults, Free
<1>10. CASE Bind
  <2>1. CASE fence' = [fence EXCEPT !.phase = "active", !.who = "worker"]
    BY <1>10, <2>1, Activated DEF Bind, pass, Identity, None
  <2>. QED BY <1>10, <2>1 DEF Bind, pass
<1>11. CASE Greet \/ Kill
  BY <1>11 DEF Greet, Kill, At, Goto, journal, daemons, pass, faults, Free, Live, pool
<1>12. CASE Closed
  BY <1>12, Moved DEF Closed, pass, Phase
<1>13. CASE Refused
  <2>1. CASE fence' = [fence EXCEPT !.phase = "closed"] /\ fence.phase = "active"
    BY <1>13, <2>1, Moved DEF Refused, pass, Phase
  <2>. QED BY <1>13, <2>1 DEF Refused, pass
<1>14. CASE Settle
  BY <1>14 DEF Settle, At, Prove, Goto, os, daemons, pass, faults, Free, None
<1>15. CASE CleanUp
  BY <1>15 DEF CleanUp, pass
<1>16. CASE DrainArmedMine
  <2>1. CASE fence' = [fence EXCEPT !.phase = "noSpawn"] /\ fence = Armed(driver)
    <3>1. seen' \in {fence', fence, NoFence} /\ fence.who = None
      BY <1>16, <2>1 DEF DrainArmedMine, NothingFound, ToProve, Later, Armed
    <3>. QED BY <2>1, <3>1, Moved DEF Phase
  <2>2. CASE fence' = fence
    BY <1>16, <2>2 DEF DrainArmedMine, NothingFound, ToProve, Later
  <2>. QED BY <1>16, <2>1, <2>2 DEF DrainArmedMine
<1>17. CASE DrainArmedOther
  <2>1. CASE fence' = [fence EXCEPT !.phase = "active", !.who = "worker"] /\ seen' = fence'
    BY <2>1, Activated DEF Identity, None
  <2>2. CASE fence' = fence /\ seen' \in {fence, NoFence}
    BY <2>2
  <2>. QED BY <1>17, <2>1, <2>2 DEF DrainArmedOther, NothingFound, ToProve, Later
<1>18. CASE DrainMissing
  <2>1. driver \in Daemon
    BY <1>18 DEF DrainMissing, Drains
  <2>2. fence' \in {fence, Armed(driver)} /\ seen' \in {fence', NoFence}
    BY <1>18 DEF DrainMissing, NothingFound, ToProve, Later
  <2>. QED BY <2>1, <2>2
<1>19. CASE Activate
  <2>1. CASE fence' = fence /\ seen' = NoFence
    BY <2>1
  <2>2. ASSUME NEW w \in Identity, fence' = [fence EXCEPT !.phase = "active", !.who = w], seen' = fence'
        PROVE  FenceOK'
    BY <2>2, Activated DEF Identity, None
  <2>3. (IF Alive("worker") THEN "worker" ELSE "stranger") \in Identity
    BY DEF Identity
  <2>. QED BY <1>19, <2>1, <2>2, <2>3 DEF Activate, Later
<1>20. CASE DrainBound
  BY <1>20 DEF DrainBound, Drains, journal, os, daemons, pool, faults, None, Blocking
<1>21. CASE Probe
  BY <1>21 DEF Probe, ToProve, Later
<1>22. CASE Signal
  <2>1. fence' = fence /\ seen' \in {seen, NoFence}
    BY <1>22 DEF Signal, ToProve, Later
  <2>. QED BY <2>1
<1>23. CASE Record
  BY <1>23 DEF Record, Prove, os, daemons, pool, faults, None
<1>24. CASE Finalize
  BY <1>24 DEF Finalize, Later, None, journal, os, daemons, pool, faults
<1>25. CASE ArmFails
  BY <1>25 DEF ArmFails, At, Fail, Prove, Drop, os, daemons, pass, Free, None
<1>26. CASE MaySpawnFails
  <2>1. UNCHANGED <<fence, seen>> \/ (CloseUnspawned(by) /\ UNCHANGED seen)
    BY <1>26 DEF MaySpawnFails, pass
  <2>2. UNCHANGED fence \/ (fence = Armed(by) /\ fence' = [fence EXCEPT !.phase = "noSpawn"])
    BY <2>1 DEF CloseUnspawned
  <2>3. fence = Armed(by) => fence.who = None
    BY DEF Armed
  <2>. QED BY <2>1, <2>2, <2>3, Moved DEF Phase
<1>27. CASE BindFails
  <2>1. CASE fence' = [fence EXCEPT !.phase = "active", !.who = "worker"]
    BY <1>27, <2>1, Activated DEF BindFails, pass, Identity, None
  <2>. QED BY <1>27, <2>1 DEF BindFails, pass
<1>28. CASE CloseFails
  BY <1>28 DEF CloseFails, Free, Fail, Goto, journal, os, daemons, pass
<1>29. CASE SettleFails
  BY <1>29 DEF SettleFails, At, Fail, Drop, journal, os, daemons, pass, Free, None
<1>30. CASE DrainFails
  BY <1>30 DEF DrainFails, None, Fail, Blocking, Later, journal, os, daemons, pool
<1>31. CASE Cancel \/ Start
  BY <1>31 DEF Cancel, Start, os, daemons, pool, pass, faults, journal
<1>32. CASE Throw
  BY <1>32 DEF Throw, Blocking, journal, os, pass
<1>33. CASE Exec \/ Exit \/ Release
  BY <1>33 DEF Exec, Exit, Release, journal, daemons, pool, pass, faults, Live
<1>34. CASE Reuse
  BY <1>34 DEF Reuse, journal, daemons, pool, pass, faults
<1>35. CASE ScanAges \/ GraceEnds
  BY <1>35 DEF ScanAges, GraceEnds, journal, os, daemons, pool, faults
<1>36. ASSUME NEW d \in Daemon, Request(d) \/ TimesOut(d) PROVE FenceOK'
  BY <1>36 DEF Request, TimesOut, journal, os, pool, pass, faults
<1>37. CASE Recheck
  BY <1>37 DEF Recheck, Drains, Alive, ToProve, Later, journal, os, daemons, pool, faults, Blocking
<1>. QED BY <1>u, <1>1, <1>2, <1>3, <1>4, <1>5, <1>6, <1>7, <1>8, <1>9, <1>10, <1>11, <1>12,
           <1>13, <1>14, <1>15, <1>16, <1>17, <1>18, <1>19, <1>20, <1>21, <1>22, <1>23, <1>24,
           <1>25, <1>26, <1>27, <1>28, <1>29, <1>30, <1>31, <1>32, <1>33, <1>34, <1>35,
           <1>36, <1>37 DEF Next, Pool, Pass, Failure

\* The parts together.
LEMMA TypeStep ==
  ASSUME TypeOK, PlaceInv, [Next]_vars
  PROVE  TypeOK'
<1>1. RestOK
  BY DEF TypeOK, RestOK
<1>2. RestOK' /\ LifeOK' /\ CountOK' /\ FenceOK'
  BY <1>1, RestStep, LifeStep, CountStep, FenceTypeStep
<1>. QED BY <1>2 DEF TypeOK, RestOK, LifeOK, CountOK, FenceOK

----------------------------------------------------------------------------
(* The promise, the fence and the drain.                                   *)

\* Each step of the promise and of the drain.
LEMMA PlaceStep ==
  ASSUME TypeOK, PlaceInv, [Next]_vars
  PROVE  PlaceInv'
<1>. USE DEF TypeOK, PlaceInv, PreFork, Tended, None, Nobody, Live
<1>u. CASE UNCHANGED vars
  BY <1>u DEF vars, journal, os, daemons, pool, pass, faults
<1>1. ASSUME NEW d \in Daemon, Drive(d) PROVE PlaceInv'
  BY <1>1 DEF Drive, NoFence, journal, os, faults
<1>2. ASSUME NEW d \in Daemon, Die(d) PROVE PlaceInv'
  BY <1>2 DEF Die, NoFence, journal, os, faults
<1>3. CASE Claim
  BY <1>3 DEF Claim, os, daemons, pass, faults
<1>4. CASE Arm
  BY <1>4 DEF Arm, At, Armed, Goto, journal, os, daemons, pass, faults, Free
<1>5. CASE MaySpawn
  BY <1>5 DEF MaySpawn, At, CloseUnspawned, Drop, journal, os, daemons, pass, faults, Free,
     Armed
<1>6. CASE SetupEnds \/ Stop
  BY <1>6 DEF SetupEnds, Stop, At, Goto, journal, os, daemons, pass, faults, Free
<1>7. CASE Unspawn
  BY <1>7 DEF Unspawn, At, CloseUnspawned, Goto, journal, os, daemons, pass, faults, Free, Armed
<1>8. CASE Fork
  BY <1>8 DEF Fork, At, Goto, journal, daemons, pass, faults, Free
<1>9. CASE Forked
  BY <1>9 DEF Forked, At, Goto, journal, os, daemons, pass, faults, Free
<1>10. CASE Bind
  BY <1>10 DEF Bind, At, Armed, Goto, journal, os, daemons, pass, faults, Free
<1>11. CASE Greet \/ Kill
  BY <1>11 DEF Greet, Kill, At, Goto, journal, daemons, pass, faults, Free, pool
<1>12. CASE Closed
  BY <1>12 DEF Closed, Free, Goto, journal, os, daemons, pass, faults
<1>13. CASE Refused
  BY <1>13 DEF Refused, At, NoFence, Goto, journal, os, daemons, pass, faults, Free
<1>14. CASE Settle
  BY <1>14 DEF Settle, At, Prove, Goto, os, daemons, pass, faults, Free
<1>15. CASE CleanUp
  BY <1>15 DEF CleanUp, At, Alive, NoFence, Drop, journal, os, daemons, pass, faults, Free
<1>16. CASE DrainArmedMine
  BY <1>16 DEF DrainArmedMine, Drains, Armed, ScanFinds, NothingFound, journal, os, daemons,
     pool, faults, Blocking, ToProve, Later, NoFence
<1>17. CASE DrainArmedOther
  BY <1>17 DEF DrainArmedOther, Drains, Later, ScanFinds, NothingFound, journal, os, daemons,
     pool, faults, Blocking, NoFence, ToProve
<1>18. CASE DrainMissing
  BY <1>18 DEF DrainMissing, Drains, NoFence, ScanFinds, Armed, NothingFound, journal, os,
     daemons, pool, faults, Blocking, ToProve, Later
<1>19. CASE Activate
  BY <1>19 DEF Activate, Drains, Armed, Alive, Later, journal, os, daemons, pool, faults,
     Blocking, NoFence
<1>20. CASE DrainBound
  BY <1>20 DEF DrainBound, Drains, journal, os, daemons, pool, faults, Blocking
<1>21. CASE Probe
  BY <1>21 DEF Probe, Drains, Alive, ToProve, Due, Later, journal, os, daemons, pool, faults,
     Blocking, NoFence
<1>22. CASE Signal
  BY <1>22 DEF Signal, Drains, Alive, Later, ToProve, journal, daemons, pool, faults, Blocking,
     NoFence
<1>23. CASE Record
  BY <1>23 DEF Record, Prove, os, daemons, pool, faults
<1>24. CASE Finalize
  BY <1>24 DEF Finalize, NoFence, Later, journal, os, daemons, pool, faults
<1>25. CASE ArmFails
  BY <1>25 DEF ArmFails, At, Fail, Prove, Drop, os, daemons, pass, Free
<1>26. CASE MaySpawnFails
  BY <1>26 DEF MaySpawnFails, At, Fail, CloseUnspawned, Prove, Drop, os, daemons, pass, Free,
     Armed
<1>27. CASE BindFails
  BY <1>27 DEF BindFails, At, Fail, Armed, Goto, journal, os, daemons, pass, Free
<1>28. CASE CloseFails
  BY <1>28 DEF CloseFails, Free, Fail, Goto, journal, os, daemons, pass
<1>29. CASE SettleFails
  BY <1>29 DEF SettleFails, At, Fail, Drop, journal, os, daemons, pass, Free
<1>30. CASE DrainFails
  BY <1>30 DEF DrainFails, Fail, Blocking, Later, journal, os, daemons, pool, NoFence
<1>31. CASE Cancel \/ Start
  BY <1>31 DEF Cancel, Start, os, daemons, pool, pass, faults, journal
<1>32. CASE Throw
  BY <1>32 DEF Throw, Blocking, journal, os, pass
<1>33. CASE Exec \/ Exit \/ Release
  BY <1>33 DEF Exec, Exit, Release, journal, daemons, pool, pass, faults
<1>34. CASE Reuse
  BY <1>34 DEF Reuse, journal, daemons, pool, pass, faults
<1>35. CASE ScanAges \/ GraceEnds
  BY <1>35 DEF ScanAges, GraceEnds, journal, os, daemons, pool, faults
<1>36. ASSUME NEW d \in Daemon, Request(d) \/ TimesOut(d) PROVE PlaceInv'
  BY <1>36 DEF Request, TimesOut, journal, os, pool, pass, faults
<1>37. CASE Recheck
  BY <1>37 DEF Recheck, Drains, Alive, ToProve, Later, journal, os, daemons, pool, faults, Blocking
<1>. QED BY <1>u, <1>1, <1>2, <1>3, <1>4, <1>5, <1>6, <1>7, <1>8, <1>9, <1>10, <1>11, <1>12,
           <1>13, <1>14, <1>15, <1>16, <1>17, <1>18, <1>19, <1>20, <1>21, <1>22, <1>23, <1>24,
           <1>25, <1>26, <1>27, <1>28, <1>29, <1>30, <1>31, <1>32, <1>33, <1>34, <1>35,
           <1>36, <1>37 DEF Next, Pool, Pass, Failure

\* What each step does to the fence fits the promise that is under way.
LEMMA FenceInvStep ==
  ASSUME TypeOK, PlaceInv, FenceInv, ReuseInv, ProofInv, [Next]_vars
  PROVE  FenceInv'
<1>. USE DEF TypeOK, PlaceInv, FenceInv, ReuseInv, ProofInv, Gone, Shut, PreFork, Unbound,
         Unspawned, Tended, None, Nobody, Live, Armed, NoFence
<1>u. CASE UNCHANGED vars
  BY <1>u DEF vars, journal, os, daemons, pool, pass, faults
<1>1. ASSUME NEW d \in Daemon, Drive(d) PROVE FenceInv'
  BY <1>1 DEF Drive, journal, os, faults
<1>2. ASSUME NEW d \in Daemon, Die(d) PROVE FenceInv'
  BY <1>2 DEF Die, journal, os, faults
<1>3. CASE Claim
  BY <1>3 DEF Claim, os, daemons, pass, faults
<1>4. CASE Arm
  BY <1>4 DEF Arm, At, Goto, journal, os, daemons, pass, faults, Free
<1>5. CASE MaySpawn
  BY <1>5 DEF MaySpawn, At, CloseUnspawned, Drop, journal, os, daemons, pass, faults, Free
<1>6. CASE SetupEnds \/ Stop
  BY <1>6 DEF SetupEnds, Stop, At, Goto, journal, os, daemons, pass, faults, Free
<1>7. CASE Unspawn
  BY <1>7 DEF Unspawn, At, CloseUnspawned, Goto, journal, os, daemons, pass, faults, Free
<1>8. CASE Fork
  BY <1>8 DEF Fork, At, Goto, journal, daemons, pass, faults, Free
<1>9. CASE Forked
  BY <1>9 DEF Forked, At, Goto, journal, os, daemons, pass, faults, Free
<1>10. CASE Bind
  <2>1. CASE fence = Armed(by)
    <3>1. fence'.phase = "active" /\ fence'.owner = by
      BY <1>10, <2>1, Activated DEF Bind, Identity
    <3>. QED BY <1>10, <2>1, <3>1 DEF Bind, At, Free, Goto, journal, os
  <2>2. CASE fence # Armed(by)
    BY <1>10, <2>2 DEF Bind, At, Free, Goto, journal, os
  <2>. QED BY <2>1, <2>2
<1>11. CASE Greet \/ Kill
  BY <1>11 DEF Greet, Kill, At, Goto, journal, daemons, pass, faults, Free, pool
<1>12. CASE Closed
  BY <1>12 DEF Closed, Free, Goto, journal, os, daemons, pass, faults
<1>13. CASE Refused
  BY <1>13 DEF Refused, At, Goto, journal, os, daemons, pass, faults, Free
<1>14. CASE Settle
  BY <1>14 DEF Settle, At, Prove, Goto, os, daemons, pass, faults, Free
<1>15. CASE CleanUp
  BY <1>15 DEF CleanUp, At, Alive, Drop, journal, os, daemons, pass, faults, Free
<1>16. CASE DrainArmedMine
  BY <1>16 DEF DrainArmedMine, Drains, ScanFinds, NothingFound, journal, os, daemons, pool,
     faults, Blocking, ToProve, Later
<1>17. CASE DrainArmedOther
  <2>1. CASE fence.owner \notin alive /\ ScanFinds
    <3>1. fence'.phase = "active" /\ fence'.owner = fence.owner /\ fence'.who = "worker"
      BY <1>17, <2>1, Activated DEF DrainArmedOther, Identity
    <3>. QED BY <1>17, <2>1, <3>1 DEF DrainArmedOther, Drains, ScanFinds, journal, os, pool
  <2>2. CASE ~(fence.owner \notin alive /\ ScanFinds)
    BY <1>17, <2>2 DEF DrainArmedOther, Drains, NothingFound, ToProve, Later, journal, os, pool
  <2>. QED BY <2>1, <2>2
<1>18. CASE DrainMissing
  BY <1>18 DEF DrainMissing, Drains, ScanFinds, NothingFound, journal, os, daemons, pool,
     faults, Blocking, ToProve, Later
<1>19. CASE Activate
  <2>1. CASE fence' = fence
    BY <1>19, <2>1 DEF Activate, Drains, Later, journal, os, pool
  <2>2. ASSUME fence = Armed(driver), Alive("worker") \/ reused, NEW w \in Identity,
               w = (IF Alive("worker") THEN "worker" ELSE "stranger"),
               fence' = [fence EXCEPT !.phase = "active", !.who = w], drain' = "probe", seen' = fence'
        PROVE  FenceInv'
    <3>1. fence'.phase = "active" /\ fence'.owner = driver /\ fence'.who = w
      BY <2>2, Activated
    <3>. QED BY <1>19, <2>2, <3>1 DEF Activate, Drains, Alive, Blocking, journal, os, pool
  <2>3. (IF Alive("worker") THEN "worker" ELSE "stranger") \in Identity
    BY DEF Identity
  <2>. QED BY <1>19, <2>1, <2>2, <2>3 DEF Activate, Later
<1>20. CASE DrainBound
  BY <1>20 DEF DrainBound, Drains, journal, os, daemons, pool, faults, Blocking
<1>21. CASE Probe
  BY <1>21 DEF Probe, Drains, Alive, ToProve, Due, Later, journal, os, daemons, pool, faults,
     Blocking
<1>22. CASE Signal
  BY <1>22 DEF Signal, Drains, Alive, Later, ToProve, journal, daemons, pool, faults, Blocking
<1>23. CASE Record
  BY <1>23 DEF Record, Prove, os, daemons, pool, faults
<1>24. CASE Finalize
  BY <1>24 DEF Finalize, Later, journal, os, daemons, pool, faults
<1>25. CASE ArmFails
  BY <1>25 DEF ArmFails, At, Fail, Prove, Drop, os, daemons, pass, Free
<1>26. CASE MaySpawnFails
  BY <1>26 DEF MaySpawnFails, At, Fail, CloseUnspawned, Prove, Drop, os, daemons, pass, Free
<1>27. CASE BindFails
  <2>1. CASE fence = Armed(by) /\ fence' = [fence EXCEPT !.phase = "active", !.who = "worker"]
    <3>1. fence'.phase = "active" /\ fence'.owner = by
      BY <2>1, Activated DEF Identity
    <3>. QED BY <1>27, <2>1, <3>1 DEF BindFails, At, Free, Goto, journal, os
  <2>2. CASE fence' = fence
    BY <1>27, <2>2 DEF BindFails, At, Free, Goto, journal, os
  <2>. QED BY <1>27, <2>1, <2>2 DEF BindFails
<1>28. CASE CloseFails
  BY <1>28 DEF CloseFails, Free, Fail, Goto, journal, os, daemons, pass
<1>29. CASE SettleFails
  BY <1>29 DEF SettleFails, At, Fail, Drop, journal, os, daemons, pass, Free
<1>30. CASE DrainFails
  BY <1>30 DEF DrainFails, Fail, Blocking, Later, journal, os, daemons, pool
<1>31. CASE Cancel \/ Start
  BY <1>31 DEF Cancel, Start, os, daemons, pool, pass, faults, journal
<1>32. CASE Throw
  BY <1>32 DEF Throw, Blocking, journal, os, pass
<1>33. CASE Exec \/ Exit \/ Release
  BY <1>33 DEF Exec, Exit, Release, journal, daemons, pool, pass, faults
<1>34. CASE Reuse
  BY <1>34 DEF Reuse, journal, daemons, pool, pass, faults
<1>35. CASE ScanAges \/ GraceEnds
  BY <1>35 DEF ScanAges, GraceEnds, journal, os, daemons, pool, faults
<1>36. ASSUME NEW d \in Daemon, Request(d) \/ TimesOut(d) PROVE FenceInv'
  BY <1>36 DEF Request, TimesOut, journal, os, pool, pass, faults
<1>37. CASE Recheck
  BY <1>37 DEF Recheck, Drains, Alive, ToProve, Later, journal, os, daemons, pool, faults, Blocking
<1>. QED BY <1>u, <1>1, <1>2, <1>3, <1>4, <1>5, <1>6, <1>7, <1>8, <1>9, <1>10, <1>11, <1>12,
           <1>13, <1>14, <1>15, <1>16, <1>17, <1>18, <1>19, <1>20, <1>21, <1>22, <1>23, <1>24,
           <1>25, <1>26, <1>27, <1>28, <1>29, <1>30, <1>31, <1>32, <1>33, <1>34, <1>35,
           <1>36, <1>37 DEF Next, Pool, Pass, Failure

\* A pid is taken again only behind the death of its process.
LEMMA ReuseStep ==
  ASSUME TypeOK, PlaceInv, ReuseInv, [Next]_vars
  PROVE  ReuseInv'
<1>. USE DEF TypeOK, PlaceInv, ReuseInv, PreFork, None, Live, NoFence, Armed
<1>u. CASE UNCHANGED vars
  BY <1>u DEF vars, journal, os, daemons, pool, pass, faults
<1>1. ASSUME NEW d \in Daemon, Drive(d) PROVE ReuseInv'
  BY <1>1 DEF Drive, Nobody, journal, os, faults
<1>2. ASSUME NEW d \in Daemon, Die(d) PROVE ReuseInv'
  BY <1>2 DEF Die, Nobody, journal, os, faults
<1>3. CASE Claim
  BY <1>3 DEF Claim, Nobody, os, daemons, pass, faults
<1>4. CASE Arm
  BY <1>4 DEF Arm, At, Goto, journal, os, daemons, pass, faults, Free
<1>5. CASE MaySpawn
  BY <1>5 DEF MaySpawn, At, CloseUnspawned, Drop, journal, os, daemons, pass, faults, Free,
     Nobody
<1>6. CASE SetupEnds \/ Stop
  BY <1>6 DEF SetupEnds, Stop, At, Goto, journal, os, daemons, pass, faults, Free
<1>7. CASE Unspawn
  BY <1>7 DEF Unspawn, At, CloseUnspawned, Goto, journal, os, daemons, pass, faults, Free
<1>8. CASE Fork
  BY <1>8 DEF Fork, At, Goto, journal, daemons, pass, faults, Free
<1>9. CASE Forked
  BY <1>9 DEF Forked, At, Goto, journal, os, daemons, pass, faults, Free
<1>10. CASE Bind
  BY <1>10 DEF Bind, At, Goto, journal, os, daemons, pass, faults, Free
<1>11. CASE Greet \/ Kill
  BY <1>11 DEF Greet, Kill, At, Goto, journal, daemons, pass, faults, Free, pool
<1>12. CASE Closed
  BY <1>12 DEF Closed, Free, Goto, journal, os, daemons, pass, faults
<1>13. CASE Refused
  BY <1>13 DEF Refused, At, Goto, journal, os, daemons, pass, faults, Free, Nobody
<1>14. CASE Settle
  BY <1>14 DEF Settle, At, Prove, Goto, os, daemons, pass, faults, Free
<1>15. CASE CleanUp
  BY <1>15 DEF CleanUp, At, Alive, Drop, journal, os, daemons, pass, faults, Free, Nobody
<1>16. CASE DrainArmedMine
  BY <1>16 DEF DrainArmedMine, Drains, ScanFinds, NothingFound, journal, os, daemons, pool,
     faults, Nobody, Blocking, ToProve, Later
<1>17. CASE DrainArmedOther
  <2>1. CASE fence.owner \notin alive /\ ScanFinds
    <3>1. fence'.phase = "active" /\ fence'.owner = fence.owner /\ fence'.who = "worker"
      BY <1>17, <2>1, Activated DEF DrainArmedOther, Identity
    <3>. QED BY <1>17, <2>1, <3>1 DEF DrainArmedOther, Drains, ScanFinds, journal, os, pool
  <2>2. CASE ~(fence.owner \notin alive /\ ScanFinds)
    BY <1>17, <2>2 DEF DrainArmedOther, Drains, NothingFound, ToProve, Later, journal, os, pool
  <2>. QED BY <2>1, <2>2
<1>18. CASE DrainMissing
  BY <1>18 DEF DrainMissing, Drains, ScanFinds, NothingFound, journal, os, daemons, pool,
     faults, Nobody, Blocking, ToProve, Later
<1>19. CASE Activate
  BY <1>19 DEF Activate, Drains, Alive, Later, journal, os, daemons, pool, faults, Nobody,
     Blocking
<1>20. CASE DrainBound
  BY <1>20 DEF DrainBound, Drains, journal, os, daemons, pool, faults, Nobody, Blocking
<1>21. CASE Probe
  BY <1>21 DEF Probe, Drains, Alive, ToProve, Due, Later, journal, os, daemons, pool, faults,
     Nobody, Blocking
<1>22. CASE Signal
  BY <1>22 DEF Signal, Drains, Alive, Later, ToProve, journal, daemons, pool, faults, Nobody,
     Blocking
<1>23. CASE Record
  BY <1>23 DEF Record, Nobody, Prove, os, daemons, pool, faults
<1>24. CASE Finalize
  BY <1>24 DEF Finalize, Nobody, Later, journal, os, daemons, pool, faults
<1>25. CASE ArmFails
  BY <1>25 DEF ArmFails, At, Fail, Prove, Drop, os, daemons, pass, Free, Nobody
<1>26. CASE MaySpawnFails
  BY <1>26 DEF MaySpawnFails, At, Fail, CloseUnspawned, Prove, Drop, os, daemons, pass, Free,
     Nobody
<1>27. CASE BindFails
  BY <1>27 DEF BindFails, At, Fail, Goto, journal, os, daemons, pass, Free
<1>28. CASE CloseFails
  BY <1>28 DEF CloseFails, Free, Fail, Goto, journal, os, daemons, pass
<1>29. CASE SettleFails
  BY <1>29 DEF SettleFails, At, Fail, Drop, journal, os, daemons, pass, Free, Nobody
<1>30. CASE DrainFails
  BY <1>30 DEF DrainFails, Nobody, Fail, Blocking, Later, journal, os, daemons, pool
<1>31. CASE Cancel \/ Start
  BY <1>31 DEF Cancel, Start, os, daemons, pool, pass, faults, journal
<1>32. CASE Throw
  BY <1>32 DEF Throw, Nobody, Blocking, journal, os, pass
<1>33. CASE Exec \/ Exit \/ Release
  BY <1>33 DEF Exec, Exit, Release, journal, daemons, pool, pass, faults
<1>34. CASE Reuse
  BY <1>34 DEF Reuse, journal, daemons, pool, pass, faults
<1>35. CASE ScanAges \/ GraceEnds
  BY <1>35 DEF ScanAges, GraceEnds, journal, os, daemons, pool, faults
<1>36. ASSUME NEW d \in Daemon, Request(d) \/ TimesOut(d) PROVE ReuseInv'
  BY <1>36 DEF Request, TimesOut, journal, os, pool, pass, faults
<1>37. CASE Recheck
  BY <1>37 DEF Recheck, Drains, Alive, ToProve, Later, journal, os, daemons, pool, faults, Blocking
<1>. QED BY <1>u, <1>1, <1>2, <1>3, <1>4, <1>5, <1>6, <1>7, <1>8, <1>9, <1>10, <1>11, <1>12,
           <1>13, <1>14, <1>15, <1>16, <1>17, <1>18, <1>19, <1>20, <1>21, <1>22, <1>23, <1>24,
           <1>25, <1>26, <1>27, <1>28, <1>29, <1>30, <1>31, <1>32, <1>33, <1>34, <1>35,
           <1>36, <1>37 DEF Next, Pool, Pass, Failure

\* A fence is activated for the worker, its pid being in use by nobody else.
LEMMA SparedStep ==
  ASSUME QuickReuse = FALSE, TypeOK, PlaceInv, ReuseInv, SparedInv, [Next]_vars
  PROVE  SparedInv'
<1>. USE DEF TypeOK, PlaceInv, ReuseInv, SparedInv, PreFork, None, Live, NoFence, Armed
<1>u. CASE UNCHANGED vars
  BY <1>u DEF vars, journal, os, daemons, pool, pass, faults
<1>1. ASSUME NEW d \in Daemon, Drive(d) PROVE SparedInv'
  BY <1>1 DEF Drive, Nobody, journal, os, faults
<1>2. ASSUME NEW d \in Daemon, Die(d) PROVE SparedInv'
  BY <1>2 DEF Die, Nobody, journal, os, faults
<1>3. CASE Claim
  BY <1>3 DEF Claim, Nobody, os, daemons, pass, faults
<1>4. CASE Arm
  BY <1>4 DEF Arm, At, Goto, journal, os, daemons, pass, faults, Free
<1>5. CASE MaySpawn
  BY <1>5 DEF MaySpawn, At, CloseUnspawned, Drop, journal, os, daemons, pass, faults, Free,
     Nobody
<1>6. CASE SetupEnds \/ Stop
  BY <1>6 DEF SetupEnds, Stop, At, Goto, journal, os, daemons, pass, faults, Free
<1>7. CASE Unspawn
  BY <1>7 DEF Unspawn, At, CloseUnspawned, Goto, journal, os, daemons, pass, faults, Free
<1>8. CASE Fork
  BY <1>8 DEF Fork, At, Goto, journal, daemons, pass, faults, Free
<1>9. CASE Forked
  BY <1>9 DEF Forked, At, Goto, journal, os, daemons, pass, faults, Free
<1>10. CASE Bind
  BY <1>10 DEF Bind, At, Goto, journal, os, daemons, pass, faults, Free
<1>11. CASE Greet \/ Kill
  BY <1>11 DEF Greet, Kill, At, Goto, journal, daemons, pass, faults, Free, pool
<1>12. CASE Closed
  BY <1>12 DEF Closed, Free, Goto, journal, os, daemons, pass, faults
<1>13. CASE Refused
  BY <1>13 DEF Refused, At, Goto, journal, os, daemons, pass, faults, Free, Nobody
<1>14. CASE Settle
  BY <1>14 DEF Settle, At, Prove, Goto, os, daemons, pass, faults, Free
<1>15. CASE CleanUp
  BY <1>15 DEF CleanUp, At, Alive, Drop, journal, os, daemons, pass, faults, Free, Nobody
<1>16. CASE DrainArmedMine
  BY <1>16 DEF DrainArmedMine, Drains, ScanFinds, NothingFound, journal, os, daemons, pool,
     faults, Nobody, Blocking, ToProve, Later
<1>17. CASE DrainArmedOther
  <2>1. CASE fence.owner \notin alive /\ ScanFinds
    <3>1. fence'.phase = "active" /\ fence'.owner = fence.owner /\ fence'.who = "worker"
      BY <1>17, <2>1, Activated DEF DrainArmedOther, Identity
    <3>. QED BY <1>17, <2>1, <3>1 DEF DrainArmedOther, Drains, ScanFinds, journal, os, pool
  <2>2. CASE ~(fence.owner \notin alive /\ ScanFinds)
    BY <1>17, <2>2 DEF DrainArmedOther, Drains, NothingFound, ToProve, Later, journal, os, pool
  <2>. QED BY <2>1, <2>2
<1>18. CASE DrainMissing
  BY <1>18 DEF DrainMissing, Drains, ScanFinds, NothingFound, journal, os, daemons, pool,
     faults, Nobody, Blocking, ToProve, Later
<1>19. CASE Activate
  <2>1. CASE fence' = fence
    BY <1>19, <2>1 DEF Activate, Drains, Later, journal, os, pool
  <2>2. ASSUME fence = Armed(driver), Alive("worker") \/ reused, NEW w \in Identity,
               w = (IF Alive("worker") THEN "worker" ELSE "stranger"),
               fence' = [fence EXCEPT !.phase = "active", !.who = w], drain' = "probe", seen' = fence'
        PROVE  SparedInv'
    <3>1. fence'.phase = "active" /\ fence'.owner = driver /\ fence'.who = w
      BY <2>2, Activated
    <3>. QED BY <1>19, <2>2, <3>1 DEF Activate, Drains, Alive, Blocking, journal, os, pool
  <2>3. (IF Alive("worker") THEN "worker" ELSE "stranger") \in Identity
    BY DEF Identity
  <2>. QED BY <1>19, <2>1, <2>2, <2>3 DEF Activate, Later
<1>20. CASE DrainBound
  BY <1>20 DEF DrainBound, Drains, journal, os, daemons, pool, faults, Nobody, Blocking
<1>21. CASE Probe
  BY <1>21 DEF Probe, Drains, Alive, ToProve, Due, Later, journal, os, daemons, pool, faults,
     Nobody, Blocking
<1>22. CASE Signal
  BY <1>22 DEF Signal, Drains, Alive, Later, ToProve, journal, daemons, pool, faults, Nobody,
     Blocking
<1>23. CASE Record
  BY <1>23 DEF Record, Nobody, Prove, os, daemons, pool, faults
<1>24. CASE Finalize
  BY <1>24 DEF Finalize, Nobody, Later, journal, os, daemons, pool, faults
<1>25. CASE ArmFails
  BY <1>25 DEF ArmFails, At, Fail, Prove, Drop, os, daemons, pass, Free, Nobody
<1>26. CASE MaySpawnFails
  BY <1>26 DEF MaySpawnFails, At, Fail, CloseUnspawned, Prove, Drop, os, daemons, pass, Free,
     Nobody
<1>27. CASE BindFails
  BY <1>27 DEF BindFails, At, Fail, Goto, journal, os, daemons, pass, Free
<1>28. CASE CloseFails
  BY <1>28 DEF CloseFails, Free, Fail, Goto, journal, os, daemons, pass
<1>29. CASE SettleFails
  BY <1>29 DEF SettleFails, At, Fail, Drop, journal, os, daemons, pass, Free, Nobody
<1>30. CASE DrainFails
  BY <1>30 DEF DrainFails, Nobody, Fail, Blocking, Later, journal, os, daemons, pool
<1>31. CASE Cancel \/ Start
  BY <1>31 DEF Cancel, Start, os, daemons, pool, pass, faults, journal
<1>32. CASE Throw
  BY <1>32 DEF Throw, Nobody, Blocking, journal, os, pass
<1>33. CASE Exec \/ Exit \/ Release
  BY <1>33 DEF Exec, Exit, Release, journal, daemons, pool, pass, faults
<1>34. CASE Reuse
  BY <1>34 DEF Reuse, journal, daemons, pool, pass, faults
<1>35. CASE ScanAges \/ GraceEnds
  BY <1>35 DEF ScanAges, GraceEnds, journal, os, daemons, pool, faults
<1>36. ASSUME NEW d \in Daemon, Request(d) \/ TimesOut(d) PROVE SparedInv'
  BY <1>36 DEF Request, TimesOut, journal, os, pool, pass, faults
<1>37. CASE Recheck
  <2>1. UNCHANGED <<fence, reused, struck>> /\ seen' \in {seen, fence, NoFence}
    BY <1>37 DEF Recheck, ToProve, Later, os
  <2>2. drain' \in {"kill", "prove", "idle"} /\ (drain' = "kill" => worker \in Live)
    <3>1. fence.phase = "active" => fence.who = "worker"
      BY DEF Fence, Identity
    <3>. QED BY <1>37, <3>1 DEF Recheck, Alive, ToProve, Later
  <2>. QED BY <2>1, <2>2
<1>. QED BY <1>u, <1>1, <1>2, <1>3, <1>4, <1>5, <1>6, <1>7, <1>8, <1>9, <1>10, <1>11, <1>12,
           <1>13, <1>14, <1>15, <1>16, <1>17, <1>18, <1>19, <1>20, <1>21, <1>22, <1>23, <1>24,
           <1>25, <1>26, <1>27, <1>28, <1>29, <1>30, <1>31, <1>32, <1>33, <1>34, <1>35,
           <1>36, <1>37 DEF Next, Pool, Pass, Failure

\* No scan ages while a child is between fork and exec.
LEMMA ScanStep ==
  ASSUME PromptExec = TRUE, TypeOK, PlaceInv, FenceInv, ScanInv, ProofInv, [Next]_vars
  PROVE  ScanInv'
<1>. USE DEF TypeOK, PlaceInv, FenceInv, ScanInv, ProofInv, Gone, Shut, PreFork, Unbound,
         Unspawned, Tended, None, Nobody, Live, Armed, NoFence
<1>u. CASE UNCHANGED vars
  BY <1>u DEF vars, journal, os, daemons, pool, pass, faults
<1>1. ASSUME NEW d \in Daemon, Drive(d) PROVE ScanInv'
  BY <1>1 DEF Drive, journal, os, faults
<1>2. ASSUME NEW d \in Daemon, Die(d) PROVE ScanInv'
  BY <1>2 DEF Die, journal, os, faults
<1>3. CASE Claim
  BY <1>3 DEF Claim, os, daemons, pass, faults
<1>4. CASE Arm
  BY <1>4 DEF Arm, At, Goto, journal, os, daemons, pass, faults, Free
<1>5. CASE MaySpawn
  BY <1>5 DEF MaySpawn, At, CloseUnspawned, Drop, journal, os, daemons, pass, faults, Free
<1>6. CASE SetupEnds \/ Stop
  BY <1>6 DEF SetupEnds, Stop, At, Goto, journal, os, daemons, pass, faults, Free
<1>7. CASE Unspawn
  BY <1>7 DEF Unspawn, At, CloseUnspawned, Goto, journal, os, daemons, pass, faults, Free
<1>8. CASE Fork
  BY <1>8 DEF Fork, At, Goto, journal, daemons, pass, faults, Free
<1>9. CASE Forked
  BY <1>9 DEF Forked, At, Goto, journal, os, daemons, pass, faults, Free
<1>10. CASE Bind
  BY <1>10 DEF Bind, At, Goto, journal, os, daemons, pass, faults, Free
<1>11. CASE Greet \/ Kill
  BY <1>11 DEF Greet, Kill, At, Goto, journal, daemons, pass, faults, Free, pool
<1>12. CASE Closed
  BY <1>12 DEF Closed, Free, Goto, journal, os, daemons, pass, faults
<1>13. CASE Refused
  BY <1>13 DEF Refused, At, Goto, journal, os, daemons, pass, faults, Free
<1>14. CASE Settle
  BY <1>14 DEF Settle, At, Prove, Goto, os, daemons, pass, faults, Free
<1>15. CASE CleanUp
  BY <1>15 DEF CleanUp, At, Alive, Drop, journal, os, daemons, pass, faults, Free
<1>16. CASE DrainArmedMine
  BY <1>16 DEF DrainArmedMine, Drains, ScanFinds, NothingFound, journal, os, daemons, pool,
     faults, Blocking, ToProve, Later
<1>17. CASE DrainArmedOther
  BY <1>17 DEF DrainArmedOther, Drains, Later, ScanFinds, NothingFound, journal, os, daemons,
     pool, faults, Blocking, ToProve
<1>18. CASE DrainMissing
  BY <1>18 DEF DrainMissing, Drains, ScanFinds, NothingFound, journal, os, daemons, pool,
     faults, Blocking, ToProve, Later
<1>19. CASE Activate
  BY <1>19 DEF Activate, Drains, Alive, Later, journal, os, daemons, pool, faults, Blocking
<1>20. CASE DrainBound
  BY <1>20 DEF DrainBound, Drains, journal, os, daemons, pool, faults, Blocking
<1>21. CASE Probe
  BY <1>21 DEF Probe, Drains, Alive, ToProve, Due, Later, journal, os, daemons, pool, faults,
     Blocking
<1>22. CASE Signal
  BY <1>22 DEF Signal, Drains, Alive, Later, ToProve, journal, daemons, pool, faults, Blocking
<1>23. CASE Record
  BY <1>23 DEF Record, Prove, os, daemons, pool, faults
<1>24. CASE Finalize
  BY <1>24 DEF Finalize, Later, journal, os, daemons, pool, faults
<1>25. CASE ArmFails
  BY <1>25 DEF ArmFails, At, Fail, Prove, Drop, os, daemons, pass, Free
<1>26. CASE MaySpawnFails
  BY <1>26 DEF MaySpawnFails, At, Fail, CloseUnspawned, Prove, Drop, os, daemons, pass, Free
<1>27. CASE BindFails
  BY <1>27 DEF BindFails, At, Fail, Goto, journal, os, daemons, pass, Free
<1>28. CASE CloseFails
  BY <1>28 DEF CloseFails, Free, Fail, Goto, journal, os, daemons, pass
<1>29. CASE SettleFails
  BY <1>29 DEF SettleFails, At, Fail, Drop, journal, os, daemons, pass, Free
<1>30. CASE DrainFails
  BY <1>30 DEF DrainFails, Fail, Blocking, Later, journal, os, daemons, pool
<1>31. CASE Cancel \/ Start
  BY <1>31 DEF Cancel, Start, os, daemons, pool, pass, faults, journal
<1>32. CASE Throw
  BY <1>32 DEF Throw, Blocking, journal, os, pass
<1>33. CASE Exec \/ Exit \/ Release
  BY <1>33 DEF Exec, Exit, Release, journal, daemons, pool, pass, faults
<1>34. CASE Reuse
  BY <1>34 DEF Reuse, journal, daemons, pool, pass, faults
<1>35. CASE ScanAges \/ GraceEnds
  BY <1>35 DEF ScanAges, GraceEnds, journal, os, daemons, pool, faults
<1>36. ASSUME NEW d \in Daemon, Request(d) \/ TimesOut(d) PROVE ScanInv'
  BY <1>36 DEF Request, TimesOut, journal, os, pool, pass, faults
<1>37. CASE Recheck
  BY <1>37 DEF Recheck, Drains, Alive, ToProve, Later, journal, os, daemons, pool, faults, Blocking
<1>. QED BY <1>u, <1>1, <1>2, <1>3, <1>4, <1>5, <1>6, <1>7, <1>8, <1>9, <1>10, <1>11, <1>12,
           <1>13, <1>14, <1>15, <1>16, <1>17, <1>18, <1>19, <1>20, <1>21, <1>22, <1>23, <1>24,
           <1>25, <1>26, <1>27, <1>28, <1>29, <1>30, <1>31, <1>32, <1>33, <1>34, <1>35,
           <1>36, <1>37 DEF Next, Pool, Pass, Failure

\* Every way to a proof ends in a worker that is gone or a fence that is shut.
LEMMA ProofStep ==
  ASSUME TypeOK, PlaceInv, FenceInv, ReuseInv, ScanInv, ProofInv, [Next]_vars
  PROVE  ProofInv'
<1>. USE DEF TypeOK, PlaceInv, FenceInv, ReuseInv, ScanInv, ProofInv, Gone, Shut, PreFork,
         Unbound, Unspawned, Tended, None, Nobody, Live, Armed, NoFence
<1>u. CASE UNCHANGED vars
  BY <1>u DEF vars, journal, os, daemons, pool, pass, faults
<1>1. ASSUME NEW d \in Daemon, Drive(d) PROVE ProofInv'
  BY <1>1 DEF Drive, journal, os, faults
<1>2. ASSUME NEW d \in Daemon, Die(d) PROVE ProofInv'
  BY <1>2 DEF Die, journal, os, faults
<1>3. CASE Claim
  BY <1>3 DEF Claim, os, daemons, pass, faults
<1>4. CASE Arm
  BY <1>4 DEF Arm, At, Goto, journal, os, daemons, pass, faults, Free
<1>5. CASE MaySpawn
  BY <1>5 DEF MaySpawn, At, CloseUnspawned, Drop, journal, os, daemons, pass, faults, Free
<1>6. CASE SetupEnds \/ Stop
  BY <1>6 DEF SetupEnds, Stop, At, Goto, journal, os, daemons, pass, faults, Free
<1>7. CASE Unspawn
  BY <1>7 DEF Unspawn, At, CloseUnspawned, Goto, journal, os, daemons, pass, faults, Free
<1>8. CASE Fork
  BY <1>8 DEF Fork, At, Goto, journal, daemons, pass, faults, Free
<1>9. CASE Forked
  BY <1>9 DEF Forked, At, Goto, journal, os, daemons, pass, faults, Free
<1>10. CASE Bind
  BY <1>10 DEF Bind, At, Goto, journal, os, daemons, pass, faults, Free
<1>11. CASE Greet \/ Kill
  BY <1>11 DEF Greet, Kill, At, Goto, journal, daemons, pass, faults, Free, pool
<1>12. CASE Closed
  BY <1>12 DEF Closed, Free, Goto, journal, os, daemons, pass, faults
<1>13. CASE Refused
  BY <1>13 DEF Refused, At, Goto, journal, os, daemons, pass, faults, Free
<1>14. CASE Settle
  BY <1>14 DEF Settle, At, Prove, Goto, os, daemons, pass, faults, Free
<1>15. CASE CleanUp
  BY <1>15 DEF CleanUp, At, Alive, Drop, journal, os, daemons, pass, faults, Free
<1>16. CASE DrainArmedMine
  BY <1>16 DEF DrainArmedMine, Drains, ScanFinds, NothingFound, journal, os, daemons, pool,
     faults, Blocking, ToProve, Later
<1>17. CASE DrainArmedOther
  BY <1>17 DEF DrainArmedOther, Drains, Later, ScanFinds, NothingFound, journal, os, daemons,
     pool, faults, Blocking, ToProve
<1>18. CASE DrainMissing
  BY <1>18 DEF DrainMissing, Drains, ScanFinds, NothingFound, journal, os, daemons, pool,
     faults, Blocking, ToProve, Later
<1>19. CASE Activate
  BY <1>19 DEF Activate, Drains, Alive, Later, journal, os, daemons, pool, faults, Blocking
<1>20. CASE DrainBound
  BY <1>20 DEF DrainBound, Drains, journal, os, daemons, pool, faults, Blocking
<1>21. CASE Probe
  <2>1. CASE drain' = "prove"
    <3>1. fence.phase \in {"closed", "noSpawn"} \/ (fence.phase = "active" /\ ~Alive(fence.who))
      BY <1>21, <2>1 DEF Probe, Later
    <3>2. fence.phase = "active" => fence.who \in {"worker", "stranger"}
      BY DEF Fence, Identity
    <3>3. fence.phase = "active" /\ ~Alive(fence.who) => Gone
      BY <3>2 DEF Alive
    <3>4. fence.phase = "noSpawn" /\ proof = None => Shut
      OBVIOUS
    <3>5. Gone \/ Shut
      BY <1>21, <3>1, <3>3, <3>4 DEF Probe, Drains
    <3>. QED BY <1>21, <3>5 DEF Probe, journal, os, pool
  <2>2. CASE drain' # "prove"
    BY <1>21, <2>2 DEF Probe, Drains, Later, ToProve, journal, os, pool
  <2>. QED BY <2>1, <2>2
<1>22. CASE Signal
  <2>1. UNCHANGED <<journal, fence, pool>> /\ worker' \in {worker, "exited"}
          /\ drain = "kill" /\ drain' \in {"prove", "idle"}
    BY <1>22 DEF Signal, Later, ToProve
  <2>2. CASE drain' = "prove"
    <3>1. worker' = worker /\ worker \notin Live
      BY <1>22, <2>2 DEF Signal, Later
    <3>2. Gone
      BY <2>1, <3>1
    <3>. QED BY <2>1, <3>1, <3>2 DEF pool
  <2>3. CASE drain' # "prove"
    BY <2>1, <2>3 DEF journal, pool
  <2>. QED BY <2>2, <2>3
<1>23. CASE Record
  BY <1>23 DEF Record, Prove, os, daemons, pool, faults
<1>24. CASE Finalize
  BY <1>24 DEF Finalize, Later, journal, os, daemons, pool, faults
<1>25. CASE ArmFails
  BY <1>25 DEF ArmFails, At, Fail, Prove, Drop, os, daemons, pass, Free
<1>26. CASE MaySpawnFails
  BY <1>26 DEF MaySpawnFails, At, Fail, CloseUnspawned, Prove, Drop, os, daemons, pass, Free
<1>27. CASE BindFails
  BY <1>27 DEF BindFails, At, Fail, Goto, journal, os, daemons, pass, Free
<1>28. CASE CloseFails
  BY <1>28 DEF CloseFails, Free, Fail, Goto, journal, os, daemons, pass
<1>29. CASE SettleFails
  BY <1>29 DEF SettleFails, At, Fail, Drop, journal, os, daemons, pass, Free
<1>30. CASE DrainFails
  BY <1>30 DEF DrainFails, Fail, Blocking, Later, journal, os, daemons, pool
<1>31. CASE Cancel \/ Start
  BY <1>31 DEF Cancel, Start, os, daemons, pool, pass, faults, journal
<1>32. CASE Throw
  BY <1>32 DEF Throw, Blocking, journal, os, pass
<1>33. CASE Exec \/ Exit \/ Release
  BY <1>33 DEF Exec, Exit, Release, journal, daemons, pool, pass, faults
<1>34. CASE Reuse
  BY <1>34 DEF Reuse, journal, daemons, pool, pass, faults
<1>35. CASE ScanAges \/ GraceEnds
  BY <1>35 DEF ScanAges, GraceEnds, journal, os, daemons, pool, faults
<1>36. ASSUME NEW d \in Daemon, Request(d) \/ TimesOut(d) PROVE ProofInv'
  BY <1>36 DEF Request, TimesOut, journal, os, pool, pass, faults
<1>37. CASE Recheck
  <2>1. CASE drain' = "prove"
    <3>1. fence.phase = "closed" \/ (fence = seen /\ ~Alive(fence.who))
      BY <1>37, <2>1 DEF Recheck, Later
    <3>2. fence.phase = "active" => fence.who \in {"worker", "stranger"}
      BY DEF Fence, Identity
    <3>3. fence.phase = "active" /\ ~Alive(fence.who) => Gone
      BY <3>2 DEF Alive
    <3>4. drain = "signal"
      BY <1>37 DEF Recheck, Drains
    <3>5. Gone
      BY <3>1, <3>3, <3>4
    <3>. QED BY <1>37, <3>5 DEF Recheck, journal, os, pool
  <2>2. CASE drain' # "prove"
    BY <1>37, <2>2 DEF Recheck, Drains, Later, ToProve, journal, os, pool
  <2>. QED BY <2>1, <2>2
<1>. QED BY <1>u, <1>1, <1>2, <1>3, <1>4, <1>5, <1>6, <1>7, <1>8, <1>9, <1>10, <1>11, <1>12,
           <1>13, <1>14, <1>15, <1>16, <1>17, <1>18, <1>19, <1>20, <1>21, <1>22, <1>23, <1>24,
           <1>25, <1>26, <1>27, <1>28, <1>29, <1>30, <1>31, <1>32, <1>33, <1>34, <1>35,
           <1>36, <1>37 DEF Next, Pool, Pass, Failure

----------------------------------------------------------------------------
(* The theorems.                                                           *)

LEMMA InitInv ==
  ASSUME Init
  PROVE  TypeOK /\ PlaceInv /\ FenceInv /\ ReuseInv /\ ProofInv /\ ScanInv /\ SparedInv
<1>. USE DEF Init
<1>1. TypeOK
  <2>1. 1 \in Daemon /\ 0 \in 0 .. MaxLapse /\ 0 \in 0 .. MaxFail
    BY ConstantsAssumption DEF Daemon
  <2>2. {1} \subseteq 1 .. 1
    OBVIOUS
  <2>3. owed \subseteq alive \ {driver}
    BY DEF Nobody
  <2>. QED BY <2>1, <2>2, <2>3, FenceTypes DEF TypeOK, Place, Live
<1>2. PlaceInv /\ FenceInv /\ ReuseInv
  BY DEF PlaceInv, FenceInv, ReuseInv, NoFence, PreFork, Unbound, Tended, None
<1>3. ProofInv /\ ScanInv /\ SparedInv
  BY DEF ProofInv, ScanInv, SparedInv, NoFence, None
<1>. QED BY <1>1, <1>2, <1>3

\* The attempt, its fence, its worker and the daemons around it keep their types (V3Fence).
THEOREM FenceTypeCorrect == Spec => []TypeOK
<1>1. Init => TypeOK /\ PlaceInv
  BY InitInv
<1>2. TypeOK /\ PlaceInv /\ [Next]_vars => (TypeOK /\ PlaceInv)'
  BY TypeStep, PlaceStep
<1>. QED BY <1>1, <1>2, PTL DEF Spec

\* Through any number of deaths, reused pids and failed scans only the attempt's own worker is
\* signalled, if no pid is taken again between a look at it and the call that uses it
\* (signalV3AttemptWorker, activateV3AttemptWorkerFence).
THEOREM OnlyOwnWorkerSignalled ==
  ASSUME QuickReuse = FALSE
  PROVE  Spec => []StrangerSpared
<1>. DEFINE J == TypeOK /\ PlaceInv /\ ReuseInv /\ SparedInv
<1>1. Init => J
  BY InitInv
<1>2. J /\ [Next]_vars => J'
  BY TypeStep, PlaceStep, ReuseStep, SparedStep
<1>3. J => StrangerSpared
  BY DEF SparedInv, StrangerSpared
<1>. QED BY <1>1, <1>2, <1>3, PTL DEF Spec

\* The inductive invariant: what the fence, the promise, the process table and the drain pass
\* say of each other.
THEOREM FenceInvariant ==
  ASSUME PromptExec = TRUE
  PROVE  Spec => [](TypeOK /\ PlaceInv /\ FenceInv /\ ReuseInv /\ ScanInv /\ ProofInv)
<1>. DEFINE J == TypeOK /\ PlaceInv /\ FenceInv /\ ReuseInv /\ ScanInv /\ ProofInv
<1>1. Init => J
  BY InitInv
<1>2. J /\ [Next]_vars => J'
  BY TypeStep, PlaceStep, FenceInvStep, ReuseStep, ScanStep, ProofStep
<1>. QED BY <1>1, <1>2, PTL DEF Spec

\* Who writes the proof.
LEMMA Provers ==
  ASSUME [Next]_vars, proof' # proof
  PROVE  /\ proof = None /\ UNCHANGED worker
         /\ \/ (ArmFails \/ MaySpawnFails \/ Settle) /\ proof' = "local"
            \/ Record /\ proof' = "drained"
<1>1. CASE ArmFails \/ MaySpawnFails \/ Settle
  BY <1>1 DEF ArmFails, MaySpawnFails, Settle, Prove, os
<1>2. CASE Record
  BY <1>2 DEF Record, Prove, os
<1>3. CASE UNCHANGED vars \/ (\E d \in Daemon : Request(d) \/ TimesOut(d) \/ Drive(d) \/ Die(d)) \/ Claim
  BY <1>3 DEF vars, Request, TimesOut, Drive, Die, Claim, journal
<1>4. CASE Arm \/ MaySpawn \/ SetupEnds \/ Unspawn \/ Fork \/ Forked \/ Bind \/ Greet \/ Stop
           \/ Kill \/ Closed \/ Refused \/ CleanUp
  BY <1>4 DEF Arm, MaySpawn, SetupEnds, Unspawn, Fork, Forked, Bind, Greet, Stop, Kill, Closed,
     Refused, CleanUp, journal
<1>5. CASE DrainArmedMine \/ DrainArmedOther \/ DrainMissing \/ Activate \/ DrainBound \/ Probe
           \/ Recheck \/ Signal \/ Finalize
  BY <1>5 DEF DrainArmedMine, DrainArmedOther, DrainMissing, Activate, DrainBound, Probe, Recheck,
     Signal, Finalize, journal
<1>6. CASE BindFails \/ CloseFails \/ SettleFails \/ DrainFails \/ Cancel \/ Throw \/ Start
  BY <1>6 DEF BindFails, CloseFails, SettleFails, DrainFails, Cancel, Throw, Start, journal
<1>7. CASE Exec \/ Exit \/ Release \/ Reuse \/ ScanAges \/ GraceEnds
  BY <1>7 DEF Exec, Exit, Release, Reuse, ScanAges, GraceEnds, journal
<1>. QED BY <1>1, <1>2, <1>3, <1>4, <1>5, <1>6, <1>7 DEF Next, Pool, Pass, Failure

\* Who lets the child begin.
LEMMA Greeters ==
  ASSUME [Next]_vars, worker # "working", worker' = "working"
  PROVE  place = "greeting" /\ worker = "started"
<1>1. CASE Greet
  BY <1>1 DEF Greet, At
<1>2. CASE UNCHANGED vars \/ (\E d \in Daemon : Request(d) \/ TimesOut(d) \/ Drive(d) \/ Die(d)) \/ Claim
  BY <1>2 DEF vars, Request, TimesOut, Drive, Die, Claim, os
<1>3. CASE Arm \/ MaySpawn \/ SetupEnds \/ Unspawn \/ Fork \/ Forked \/ Bind \/ Stop
           \/ Kill \/ Closed \/ Refused \/ Settle \/ CleanUp
  BY <1>3 DEF Arm, MaySpawn, SetupEnds, Unspawn, Fork, Forked, Bind, Stop, Kill, Closed,
     Refused, Settle, CleanUp, os
<1>4. CASE DrainArmedMine \/ DrainArmedOther \/ DrainMissing \/ Activate \/ DrainBound \/ Probe
           \/ Recheck \/ Signal \/ Record \/ Finalize
  BY <1>4 DEF DrainArmedMine, DrainArmedOther, DrainMissing, Activate, DrainBound, Probe, Recheck,
     Signal, Record, Finalize, os
<1>5. CASE ArmFails \/ MaySpawnFails \/ BindFails \/ CloseFails \/ SettleFails \/ DrainFails
  BY <1>5 DEF ArmFails, MaySpawnFails, BindFails, CloseFails, SettleFails, DrainFails, os
<1>6. CASE Cancel \/ Throw \/ Start \/ Exec \/ Exit \/ Release \/ Reuse \/ ScanAges \/ GraceEnds
  BY <1>6 DEF Cancel, Throw, Start, Exec, Exit, Release, Reuse, ScanAges, GraceEnds, os
<1>. QED BY <1>1, <1>2, <1>3, <1>4, <1>5, <1>6 DEF Next, Pool, Pass, Failure

\* For any number of daemons, throws and failures, an attempt is declared closed only when no
\* worker of it is left or can still get its goal, if a forked child executes its program
\* before the second of two scans (appendWorkerOutcome, appendAttemptDrained).
THEOREM ProofsAreEarned ==
  ASSUME PromptExec = TRUE
  PROVE  Spec => ProofMeansDead
<1>. DEFINE J == TypeOK /\ PlaceInv /\ FenceInv /\ ReuseInv /\ ScanInv /\ ProofInv
            A == /\ proof = None /\ proof' # None =>
                      /\ worker' # "working"
                      /\ worker' \in {"forked", "started"} => fence.phase = "noSpawn"
                 /\ proof = None /\ proof' = "local" => worker' \in {None, "closed"}
                 /\ worker # "working" /\ worker' = "working" => proof = None
<1>1. ASSUME J, [Next]_vars PROVE A
  <2>1. proof = None /\ proof' = "local" => worker' \in {None, "closed"}
    <3>1. ASSUME ArmFails \/ MaySpawnFails \/ Settle PROVE worker \in {None, "closed"}
      BY <1>1, <3>1 DEF ArmFails, MaySpawnFails, Settle, At, PlaceInv, PreFork
    <3>. QED BY <1>1, <3>1, Provers DEF None
  <2>2. ASSUME proof = None, proof' # None
        PROVE  worker' # "working" /\ (worker' \in {"forked", "started"} => fence.phase = "noSpawn")
    <3>1. CASE proof' = "local"
      BY <2>1, <2>2, <3>1 DEF None
    <3>2. CASE Record
      BY <1>1, <2>2, <3>2, Provers DEF Record, ProofInv, Gone, Shut, None
    <3>. QED BY <1>1, <2>2, <3>1, <3>2, Provers
  <2>3. ASSUME worker # "working", worker' = "working" PROVE proof = None
    BY <1>1, <2>3, Greeters DEF ProofInv, Gone, Shut, Tended, None
  <2>. QED BY <2>1, <2>2, <2>3
<1>2. J /\ [Next]_vars => [A]_vars
  BY <1>1
<1>3. Spec => []J
  BY FenceInvariant
<1>. QED BY <1>2, <1>3, PTL DEF Spec, ProofMeansDead
============================================================================
