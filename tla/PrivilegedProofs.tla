--------------------------- MODULE PrivilegedProofs ---------------------------
(***************************************************************************)
(* Proofs about the privileged broker, for any sets of actions: PInv is     *)
(* inductive, the safety properties follow from it, and the broker          *)
(* implements RootPlane.                                                    *)
(***************************************************************************)
EXTENDS PrivilegedProperties, TLAPS

\* An abort changes only the signal and whether the process is told to stop.
LEMMA AbortTyped ==
    ASSUME run \in Runs
    PROVE  /\ Abort(run) \in Runs
           /\ Abort(run).of = run.of /\ Abort(run).part = run.part
           /\ Abort(run).at = run.at /\ Abort(run).touched = run.touched
<1>1. (run.at # "idle") \in BOOLEAN
    BY Zenon
<1>2. (run.stopped \/ run.at = "running") \in BOOLEAN
    BY Zenon
<1> QED
    BY <1>1, <1>2 DEF Abort, Runs

\* Every step keeps the types.
LEMMA TypesStep == PrivilegedTypeOK /\ [PrivilegedNext]_vars => PrivilegedTypeOK'
<1> SUFFICES ASSUME PrivilegedTypeOK, [PrivilegedNext]_vars PROVE PrivilegedTypeOK'
    OBVIOUS
<1> USE PrivilegedAssumption DEF PrivilegedTypeOK, Runs, Parts, Points, States, Records, rowVars, osVars, NewRun, NoRun, Close, Abort, RunFails, SetBarrier
<1>1. ASSUME NEW a \in Actions, Submit(a) PROVE PrivilegedTypeOK'
    BY <1>1 DEF Submit
<1>2. ASSUME NEW a \in Actions, Cancel(a) PROVE PrivilegedTypeOK'
  <2>1. Abort(run) \in Runs
    BY AbortTyped
  <2> QED
    BY <1>2, <2>1 DEF Cancel, Canceling
<1>3. ASSUME NEW a \in Actions, Entomb(a) PROVE PrivilegedTypeOK'
    BY <1>3 DEF Entomb
<1>4. CASE Panic
  <2>1. Abort(run) \in Runs
    BY AbortTyped
  <2> QED
    BY <1>4, <2>1 DEF Panic, Canceling
<1>5. ASSUME NEW a \in Actions, Claim(a) PROVE PrivilegedTypeOK'
    BY <1>5 DEF Claim
<1>6. CASE Refuse
    BY <1>6 DEF Refuse, ErrorVerdict
<1>7. CASE Prepare
    BY <1>7 DEF Prepare, Leased
<1>8. CASE Spawn
  <2>1. run' \in Runs
    BY <1>8 DEF Spawn
  <2>2. os' \in [Actions -> [Parts -> {"none", "alive", "group", "gone"}]]
    BY <1>8 DEF Spawn
  <2> DEFINE counts == [spawns[run.of] EXCEPT ![run.part] = @ + 1]
  <2>3. spawns' = [spawns EXCEPT ![run.of] = counts]
    BY <1>8 DEF Spawn
  <2>4. spawns' \in [Actions -> [Parts -> Nat]]
    <3>1. CASE run.of \in Actions
      <4>1. counts \in [Parts -> Nat]
        BY <3>1
      <4> HIDE DEF counts
      <4> QED
        BY <4>1, <2>3
    <3>2. CASE run.of \notin Actions
      BY <3>2, <2>3
    <3> QED
      BY <3>1, <3>2
  <2> QED
    BY <1>8, <2>1, <2>2, <2>4 DEF Spawn
<1>9. CASE SpawnFails
    BY <1>9 DEF SpawnFails
<1>10. CASE RecordSpawned
    BY <1>10 DEF RecordSpawned
<1>11. CASE RecordFails
    BY <1>11 DEF RecordFails
<1>12. CASE Closed
    BY <1>12 DEF Closed
<1>13. CASE Signal
    BY <1>13 DEF Signal
<1>14. CASE Quiesce
    BY <1>14 DEF Quiesce
<1>15. CASE Block
  <2>1. run' \in Runs
    BY <1>15 DEF Block
  <2>2. record' \in [Actions -> [Parts -> Records]]
    BY <1>15 DEF Block
  <2> QED
    BY <1>15, <2>1, <2>2 DEF Block
<1>16. CASE JudgeMain
  <2>1. NewRun(run.of, "observation", run.aborted) \in Runs /\ NoRun \in Runs
    OBVIOUS
  <2>2. run' \in Runs
    BY <1>16, <2>1 DEF JudgeMain
  <2>3. action' \in [Actions -> States]
    BY <1>16 DEF JudgeMain
  <2> QED
    BY <1>16, <2>2, <2>3 DEF JudgeMain
<1>17. CASE JudgeObservation
    BY <1>17 DEF JudgeObservation
<1>18. CASE Fail
    BY <1>18 DEF Fail, ErrorVerdict
<1>19. CASE Timeout
    BY <1>19 DEF Timeout
<1>20. ASSUME NEW a \in Actions, NEW p \in Parts, Exits(a, p) PROVE PrivilegedTypeOK'
    BY <1>20 DEF Exits
<1>21. ASSUME NEW a \in Actions, NEW p \in Parts, GroupDies(a, p) PROVE PrivilegedTypeOK'
    BY <1>21 DEF GroupDies
<1>22. ASSUME NEW a \in Actions, NEW p \in Parts, SweepRecord(a, p) PROVE PrivilegedTypeOK'
    BY <1>22 DEF SweepRecord
<1>23. CASE StartClean
    BY <1>23 DEF StartClean
<1>24. CASE StartRecovery
    BY <1>24 DEF StartRecovery, RecoverInterrupted, Interrupted, PendingSet
<1>25. CASE StartDone
  <2>1. barrier' \in BOOLEAN
    BY <1>25, Zenon DEF StartDone
  <2> QED
    BY <1>25, <2>1 DEF StartDone
<1>26. CASE Stop
    BY <1>26 DEF Stop
<1>27. CASE CloseDispatcher
    BY <1>27 DEF CloseDispatcher
<1>28. CASE RunsSettled
    BY <1>28 DEF RunsSettled, PendingSet
<1>29. CASE CloseDone
  <2>1. locked' \in BOOLEAN /\ barrier' \in BOOLEAN
    BY <1>29, Zenon DEF CloseDone
  <2>2. phase' \in {"down", "resident"} /\ UNCHANGED <<rowVars, record, osVars, run, todo, ctl>>
    BY <1>29 DEF CloseDone
  <2> QED
    BY <2>1, <2>2
<1>30. CASE Crash
  <2>1. os' \in [Actions -> [Parts -> {"none", "alive", "group", "gone"}]]
    BY <1>30 DEF Crash
  <2>2. exit' \in [Actions -> [Parts -> {"none", "ok", "bad"}]]
    BY <1>30 DEF Crash
  <2> QED
    BY <1>30, <2>1, <2>2 DEF Crash
<1>31. CASE ControlScans
    BY <1>31 DEF ControlScans
<1>32. CASE ControlRecovers
    BY <1>32 DEF ControlRecovers, RecoverInterrupted, Interrupted
<1>33. CASE ControlUnlocks
    BY <1>33 DEF ControlUnlocks, Unlockable, AllQuiesced
<1>34. CASE UNCHANGED vars
    BY <1>34 DEF vars
<1> HIDE DEF PrivilegedTypeOK, RunFails
<1> QED
    BY <1>1, <1>2, <1>3, <1>4, <1>5, <1>6, <1>7, <1>8, <1>9, <1>10, <1>11, <1>12, <1>13,
       <1>14, <1>15, <1>16, <1>17, <1>18, <1>19, <1>20, <1>21, <1>22, <1>23, <1>24, <1>25,
       <1>26, <1>27, <1>28, <1>29, <1>30, <1>31, <1>32, <1>33, <1>34
    DEF PrivilegedNext, Request, Step

-----------------------------------------------------------------------------
\* Nothing pending, said of each process record.
LEMMA NothingPending ==
    PendingSet = {} <=> \A a \in Actions, p \in Parts : ~Pending(a, p)
<1>1. ASSUME PendingSet = {}, NEW a \in Actions, NEW p \in Parts PROVE ~Pending(a, p)
  <2>1. Pending(a, p) => <<a, p>> \in PendingSet
    BY DEF PendingSet
  <2> QED
    BY <1>1, <2>1
<1>2. ASSUME \A a \in Actions, p \in Parts : ~Pending(a, p) PROVE PendingSet = {}
    BY <1>2 DEF PendingSet
<1> QED
    BY <1>1, <1>2

\* What the properties ask, beside the parts that describe the states.
Promises == SpawnedAtMostOnce /\ HonestRefusal /\ CompletedIsWhole /\ ProcessesRecorded

\* Every step keeps the invariant.
LEMMA InvariantStep == PInv /\ [PrivilegedNext]_vars => PInv'
<1> SUFFICES ASSUME PInv, [PrivilegedNext]_vars PROVE PInv'
    OBVIOUS
<1>0. PrivilegedTypeOK /\ PrivilegedTypeOK'
    BY TypesStep DEF PInv
<1> USE <1>0, PrivilegedAssumption
    DEF PInv, RowsFit, RunFits, PendingKnown, SpawnedAtMostOnce, HonestRefusal,
        CompletedIsWhole, ProcessesRecorded, PrivilegedTypeOK, Runs, Parts, Points, States,
        Records, PendingSet, At, Leased, Live, Pending, rowVars, osVars
<1>1. ASSUME NEW a \in Actions, Submit(a) PROVE PInv'
    BY <1>1 DEF Submit
<1>2. ASSUME NEW a \in Actions, Cancel(a) PROVE PInv'
  <2>1. run'.of = run.of /\ run'.part = run.part /\ run'.at = run.at /\ run'.touched = run.touched
    BY <1>2, AbortTyped DEF Cancel
  <2>2. RowsFit'
    BY <1>2 DEF Cancel, Canceling
  <2>3. RunFits'
    BY <1>2, <2>1 DEF Cancel, Canceling, Handles, Sync
  <2>4. PendingKnown'
    BY <1>2, <2>1 DEF Cancel, Canceling
  <2>5. Promises'
    BY <1>2 DEF Cancel, Canceling, Promises
  <2> QED
    BY <2>2, <2>3, <2>4, <2>5 DEF Promises
<1>3. ASSUME NEW a \in Actions, Entomb(a) PROVE PInv'
    BY <1>3 DEF Entomb
<1>4. CASE Panic
  <2>1. run'.of = run.of /\ run'.part = run.part /\ run'.at = run.at /\ run'.touched = run.touched
    BY <1>4, AbortTyped DEF Panic
  <2>2. RowsFit'
    BY <1>4 DEF Panic, Canceling
  <2>3. RunFits'
    BY <1>4, <2>1 DEF Panic, Canceling, Handles, Sync
  <2>4. PendingKnown'
    BY <1>4, <2>1 DEF Panic, Canceling
  <2>5. Promises'
    BY <1>4 DEF Panic, Canceling, Promises
  <2> QED
    BY <2>2, <2>3, <2>4, <2>5 DEF Promises
<1>5. ASSUME NEW a \in Actions, Claim(a) PROVE PInv'
  <2>1. RowsFit'
    BY <1>5 DEF Claim, NewRun
  <2>2. RunFits'
    BY <1>5 DEF Claim, NewRun
  <2>3. PendingKnown'
    BY <1>5 DEF Claim, NewRun
  <2>4. Promises'
    BY <1>5 DEF Claim, NewRun, Promises
  <2> QED
    BY <2>1, <2>2, <2>3, <2>4 DEF Promises
<1>6. CASE Refuse
  <2>1. RowsFit'
    BY <1>6 DEF Refuse, RunFails, Close, ErrorVerdict, NoRun, NewRun
  <2>2. RunFits'
    BY <1>6 DEF Refuse, RunFails, Close, ErrorVerdict, NoRun, NewRun
  <2>3. PendingKnown'
    BY <1>6 DEF Refuse, RunFails, Close, ErrorVerdict, NoRun, NewRun
  <2>4. Promises'
    BY <1>6 DEF Refuse, RunFails, Close, ErrorVerdict, NoRun, NewRun, Promises
  <2> QED
    BY <2>1, <2>2, <2>3, <2>4 DEF Promises
<1>7. CASE Prepare
  <2>1. RowsFit'
    BY <1>7 DEF Prepare
  <2>2. RunFits'
    BY <1>7 DEF Prepare
  <2>3. PendingKnown'
    BY <1>7 DEF Prepare
  <2>4. Promises'
    BY <1>7 DEF Prepare, Promises
  <2> QED
    BY <2>1, <2>2, <2>3, <2>4 DEF Promises
<1>8. CASE Spawn
  <2>1. RowsFit'
    BY <1>8 DEF Spawn
  <2>2. RunFits'
    BY <1>8 DEF Spawn
  <2>3. PendingKnown'
    BY <1>8 DEF Spawn
  <2>4. Promises'
    BY <1>8 DEF Spawn, Promises
  <2> QED
    BY <2>1, <2>2, <2>3, <2>4 DEF Promises
<1>9. CASE SpawnFails
    BY <1>9 DEF SpawnFails
<1>10. CASE RecordSpawned
    BY <1>10 DEF RecordSpawned
<1>11. CASE RecordFails
    BY <1>11 DEF RecordFails
<1>12. CASE Closed
    BY <1>12 DEF Closed
<1>13. CASE Signal
    BY <1>13 DEF Signal
<1>14. CASE Quiesce
  <2>1. RowsFit'
    BY <1>14 DEF Quiesce, Gone
  <2>2. RunFits'
    BY <1>14 DEF Quiesce, Gone
  <2>3. PendingKnown'
    BY <1>14 DEF Quiesce, Gone
  <2>4. Promises'
    BY <1>14 DEF Quiesce, Gone, Promises
  <2> QED
    BY <2>1, <2>2, <2>3, <2>4 DEF Promises
<1>15. CASE Block
  <2>1. RowsFit'
    BY <1>15 DEF Block, SetBarrier
  <2>2. RunFits'
    BY <1>15 DEF Block, SetBarrier
  <2>3. PendingKnown'
    BY <1>15 DEF Block, SetBarrier
  <2>4. Promises'
    BY <1>15 DEF Block, SetBarrier, Promises
  <2> QED
    BY <2>1, <2>2, <2>3, <2>4 DEF Promises
<1>16. CASE JudgeMain
  <2> USE DEF JudgeMain, Unclear, Close, NoRun, NewRun
  <2>1. RowsFit'
    BY <1>16
  <2>2. RunFits'
    BY <1>16
  <2>3. PendingKnown'
    <3>1. ASSUME NEW a \in Actions, NEW p \in Parts, Pending(a, p) PROVE FALSE
      BY <1>16, <3>1
    <3>2. UNCHANGED <<record, todo, phase>>
      BY <1>16
    <3>3. ASSUME NEW a \in Actions, Leased(a)' PROVE run'.of = a
      BY <1>16, <3>3
    <3> QED
      BY <3>1, <3>2, <3>3
  <2>4. Promises'
    BY <1>16 DEF Promises
  <2> QED
    BY <2>1, <2>2, <2>3, <2>4 DEF Promises
<1>17. CASE JudgeObservation
  <2>1. RowsFit'
    BY <1>17 DEF JudgeObservation, Unclear, Close, NoRun, NewRun
  <2>2. RunFits'
    BY <1>17 DEF JudgeObservation, Unclear, Close, NoRun, NewRun
  <2>3. PendingKnown'
    BY <1>17 DEF JudgeObservation, Unclear, Close, NoRun, NewRun
  <2>4. Promises'
    BY <1>17 DEF JudgeObservation, Unclear, Close, NoRun, NewRun, Promises
  <2> QED
    BY <2>1, <2>2, <2>3, <2>4 DEF Promises
<1>18. CASE Fail
  <2>1. RowsFit'
    BY <1>18 DEF Fail, RunFails, Close, ErrorVerdict, NoRun, NewRun
  <2>2. RunFits'
    BY <1>18 DEF Fail, RunFails, Close, ErrorVerdict, NoRun, NewRun
  <2>3. PendingKnown'
    BY <1>18 DEF Fail, RunFails, Close, ErrorVerdict, NoRun, NewRun
  <2>4. Promises'
    BY <1>18 DEF Fail, RunFails, Close, ErrorVerdict, NoRun, NewRun, Promises
  <2> QED
    BY <2>1, <2>2, <2>3, <2>4 DEF Promises
<1>19. CASE Timeout
    BY <1>19 DEF Timeout
<1>20. ASSUME NEW a \in Actions, NEW p \in Parts, Exits(a, p) PROVE PInv'
    BY <1>20 DEF Exits
<1>21. ASSUME NEW a \in Actions, NEW p \in Parts, GroupDies(a, p) PROVE PInv'
    BY <1>21 DEF GroupDies
<1>22. ASSUME NEW a \in Actions, NEW p \in Parts, SweepRecord(a, p) PROVE PInv'
  <2>1. RowsFit'
    BY <1>22 DEF SweepRecord, Gone
  <2>2. RunFits'
    BY <1>22 DEF SweepRecord, Gone
  <2>3. PendingKnown'
    BY <1>22 DEF SweepRecord, Gone
  <2>4. Promises'
    BY <1>22 DEF SweepRecord, Gone, Promises
  <2> QED
    BY <2>1, <2>2, <2>3, <2>4 DEF Promises
<1>23. CASE StartClean
    BY <1>23, NothingPending DEF StartClean, AllQuiesced
<1>24. CASE StartRecovery
  <2>1. RowsFit'
    BY <1>24 DEF StartRecovery, SetBarrier, RecoverInterrupted, Interrupted
  <2>2. RunFits'
    BY <1>24 DEF StartRecovery, SetBarrier, RecoverInterrupted, Interrupted
  <2>3. PendingKnown'
    BY <1>24 DEF StartRecovery, SetBarrier, RecoverInterrupted, Interrupted
  <2>4. Promises'
    BY <1>24 DEF StartRecovery, SetBarrier, RecoverInterrupted, Interrupted, Promises
  <2> QED
    BY <2>1, <2>2, <2>3, <2>4 DEF Promises
<1>25. CASE StartDone
    BY <1>25 DEF StartDone
<1>26. CASE Stop
    BY <1>26 DEF Stop
<1>27. CASE CloseDispatcher
    BY <1>27, AbortTyped DEF CloseDispatcher, SetBarrier
<1>28. CASE RunsSettled
    BY <1>28 DEF RunsSettled
<1>29. CASE CloseDone
    BY <1>29 DEF CloseDone, SetBarrier
<1>30. CASE Crash
  <2>1. RowsFit'
    BY <1>30 DEF Crash, NoRun, NewRun
  <2>2. RunFits'
    BY <1>30 DEF Crash, NoRun, NewRun
  <2>3. PendingKnown'
    BY <1>30 DEF Crash, NoRun, NewRun
  <2>4. Promises'
    BY <1>30 DEF Crash, NoRun, NewRun, Promises
  <2> QED
    BY <2>1, <2>2, <2>3, <2>4 DEF Promises
<1>31. CASE ControlScans
    BY <1>31 DEF ControlScans
<1>32. CASE ControlRecovers
  <2>1. RowsFit'
    BY <1>32 DEF ControlRecovers, RecoverInterrupted, Interrupted
  <2>2. RunFits'
    BY <1>32 DEF ControlRecovers, RecoverInterrupted, Interrupted
  <2>3. PendingKnown'
    BY <1>32 DEF ControlRecovers, RecoverInterrupted, Interrupted
  <2>4. Promises'
    BY <1>32 DEF ControlRecovers, RecoverInterrupted, Interrupted, Promises
  <2> QED
    BY <2>1, <2>2, <2>3, <2>4 DEF Promises
<1>33. CASE ControlUnlocks
    BY <1>33, NothingPending DEF ControlUnlocks, Unlockable, AllQuiesced
<1>34. CASE UNCHANGED vars
    BY <1>34 DEF vars
<1> HIDE DEF PInv
<1> QED
    BY <1>1, <1>2, <1>3, <1>4, <1>5, <1>6, <1>7, <1>8, <1>9, <1>10, <1>11, <1>12, <1>13, <1>14, <1>15, <1>16, <1>17, <1>18, <1>19, <1>20, <1>21, <1>22, <1>23, <1>24, <1>25, <1>26, <1>27, <1>28, <1>29, <1>30, <1>31, <1>32, <1>33, <1>34
    DEF PrivilegedNext, Request, Step
-----------------------------------------------------------------------------
\* Nothing exists before the broker's first start.
LEMMA InvariantInit == PrivilegedInit => PInv
<1> USE PrivilegedAssumption
    DEF PrivilegedInit, Parts, Leased, Live, Pending, NoRun, NewRun
<1>1. PrivilegedInit => PrivilegedTypeOK
  <2> SUFFICES ASSUME PrivilegedInit PROVE PrivilegedTypeOK
    OBVIOUS
  <2>1. NoRun \in Runs
    BY DEF Runs, Points
  <2>2. todo \subseteq Actions \X Parts /\ tombs \subseteq Actions
    OBVIOUS
  <2>3. spawns \in [Actions -> [Parts -> Nat]]
    OBVIOUS
  <2>4. run = NoRun
    OBVIOUS
  <2> HIDE DEF NoRun
  <2> QED
    BY <2>1, <2>2, <2>3, <2>4 DEF PrivilegedTypeOK, States, Records
<1>2. PrivilegedInit => RowsFit /\ RunFits
    BY DEF RowsFit, RunFits
<1>3. PrivilegedInit => PendingKnown
    BY DEF PendingKnown
<1>4. PrivilegedInit => SpawnedAtMostOnce /\ HonestRefusal /\ CompletedIsWhole /\ ProcessesRecorded
    BY DEF SpawnedAtMostOnce, HonestRefusal, CompletedIsWhole, ProcessesRecorded
<1> QED
    BY <1>1, <1>2, <1>3, <1>4 DEF PInv

\* Rows, process records, the dispatcher's run and the processes agree in every
\* state, whatever crashes, cancellations and local unlocks come between.
THEOREM PrivilegedInvariant == PrivilegedSpec => []PInv
<1>1. PInv /\ [PrivilegedNext]_vars => PInv'
    BY InvariantStep
<1> QED
    BY InvariantInit, <1>1, PTL DEF PrivilegedSpec

\* prepareProcessExecution comes before spawn and recordProcessQuiesced after the
\* group is gone: no process lives that the store counts as quiesced.
THEOREM NothingRunsUnrecorded == PrivilegedSpec => []ProcessesRecorded
<1>1. PInv => ProcessesRecorded
    BY DEF PInv
<1> QED
    BY PrivilegedInvariant, <1>1, PTL

\* One dispatcher, its barrier at start and the lock make it one process at a
\* time, also across a crash that leaves a command behind.
THEOREM OneCommandAtATime == PrivilegedSpec => []OneAtATime
<1>1. PInv => OneAtATime
    BY DEF PInv, ProcessesRecorded, PendingKnown, OneAtATime
<1> QED
    BY PrivilegedInvariant, <1>1, PTL

\* A command and an observation are each started at most once: an interrupted
\* action is never claimed again.
THEOREM StartedAtMostOnce == PrivilegedSpec => []SpawnedAtMostOnce
<1>1. PInv => SpawnedAtMostOnce
    BY DEF PInv
<1> QED
    BY PrivilegedInvariant, <1>1, PTL

\* A canceled action never ran, nor did a failed one that is not observed.
THEOREM RefusalsAreHonest == PrivilegedSpec => []HonestRefusal
<1>1. PInv => HonestRefusal
    BY DEF PInv
<1> QED
    BY PrivilegedInvariant, <1>1, PTL

\* completeAction is reached only after every command ended well and left
\* nothing behind.
THEOREM CompletionsAreWhole == PrivilegedSpec => []CompletedIsWhole
<1>1. PInv => CompletedIsWhole
    BY DEF PInv
<1> QED
    BY PrivilegedInvariant, <1>1, PTL

-----------------------------------------------------------------------------
\* _finish and the recoveries change open rows only.
THEOREM VerdictsStay == PrivilegedSpec => VerdictIsFinal
<1>1. ASSUME PInv, [PrivilegedNext]_vars, NEW a \in Actions, action[a] \in Terminal
      PROVE  action'[a] = action[a]
  <2>1. action \in [Actions -> States]
    BY <1>1 DEF PInv, PrivilegedTypeOK
  <2> USE <1>1, <2>1 DEF Terminal, States, rowVars, Leased, Canceling, RunFails, Close
  <2>2. CASE Request
    BY <2>2 DEF Request, Submit, Cancel, Entomb, Panic
  <2>3. ASSUME NEW b \in Actions, Claim(b) PROVE action'[a] = action[a]
    BY <2>3 DEF Claim
  <2>4. CASE Refuse \/ Fail \/ JudgeMain \/ JudgeObservation
    BY <2>4 DEF Refuse, Fail, JudgeMain, JudgeObservation
  <2>5. CASE \/ Prepare \/ Spawn \/ SpawnFails \/ RecordSpawned \/ RecordFails \/ Closed
             \/ Signal \/ Quiesce \/ Block \/ Timeout
    BY <2>5 DEF Prepare, Spawn, SpawnFails, RecordSpawned, RecordFails, Closed, Signal,
                Quiesce, Block, Timeout
  <2>6. ASSUME NEW b \in Actions, NEW p \in Parts, Exits(b, p) \/ GroupDies(b, p) \/ SweepRecord(b, p)
        PROVE  action'[a] = action[a]
    BY <2>6 DEF Exits, GroupDies, SweepRecord
  <2>7. CASE StartRecovery \/ ControlRecovers
    BY <2>7 DEF StartRecovery, ControlRecovers, RecoverInterrupted, Interrupted
  <2>8. CASE \/ StartClean \/ StartDone \/ Stop \/ CloseDispatcher \/ RunsSettled \/ CloseDone
             \/ Crash \/ ControlScans \/ ControlUnlocks
    BY <2>8 DEF StartClean, StartDone, Stop, CloseDispatcher, RunsSettled, CloseDone, Crash,
                ControlScans, ControlUnlocks
  <2>9. CASE UNCHANGED vars
    BY <2>9 DEF vars
  <2> QED
    BY <2>2, <2>3, <2>4, <2>5, <2>6, <2>7, <2>8, <2>9 DEF PrivilegedNext, Step
<1>2. PInv /\ [PrivilegedNext]_vars
      => [\A a \in Actions : action[a] \in Terminal => action'[a] = action[a]]_vars
    BY <1>1
<1> QED
    BY PrivilegedInvariant, <1>2, PTL DEF PrivilegedSpec, VerdictIsFinal

\* A run that is about to spawn was not canceled: the cancellation is read after
\* the main command, and no request is served between claim and spawn.
THEOREM CanceledIsNotSpawned == PrivilegedSpec => NothingSpawnsAfterCancel
<1>0. [PrivilegedNext]_vars /\ ~Spawn => UNCHANGED spawns
    BY DEF PrivilegedNext, vars, osVars, Request, Submit, Cancel, Entomb, Panic,
       Claim, Step, Refuse, RunFails, Prepare, SpawnFails, RecordSpawned, RecordFails, Closed,
       Signal, Quiesce, Block, JudgeMain, JudgeObservation, Fail, Timeout, Exits, GroupDies,
       SweepRecord, StartClean, StartRecovery, StartDone, Stop, CloseDispatcher, RunsSettled,
       CloseDone, Crash, ControlScans, ControlRecovers, ControlUnlocks
<1>1. ASSUME PInv, [PrivilegedNext]_vars, NEW a \in Actions, CancelStored(a)
      PROVE  spawns'[a] = spawns[a]
  <2>1. CASE Spawn
    <3>1. run.at = "prepared"
      BY <2>1 DEF Spawn, At
    <3>2. run.of # a
      BY <1>1, <3>1 DEF PInv, RunFits, RowsFit, CancelStored
    <3> QED
      BY <1>1, <2>1, <3>2 DEF Spawn, PInv, PrivilegedTypeOK
  <2>2. CASE ~Spawn
    BY <1>1, <1>0, <2>2
  <2> QED
    BY <2>1, <2>2
<1>2. PInv /\ [PrivilegedNext]_vars
      => [\A a \in Actions : CancelStored(a) => spawns'[a] = spawns[a]]_vars
    BY <1>1
<1> QED
    BY PrivilegedInvariant, <1>2, PTL DEF PrivilegedSpec, NothingSpawnsAfterCancel

-----------------------------------------------------------------------------
\* Busy, said of each row and of each process record.
LEMMA BusyIs ==
    Busy <=> \/ \E a \in Actions : Leased(a)
             \/ \E a \in Actions, p \in Parts : Pending(a, p)
BY NothingPending DEF Busy, AllQuiesced

\* The same in the next state.
LEMMA BusyWillBe ==
    Busy' <=> \/ \E a \in Actions : Leased(a)'
              \/ \E a \in Actions, p \in Parts : Pending(a, p)'
<1>1. PendingSet' = {} <=> \A a \in Actions, p \in Parts : ~Pending(a, p)'
  <2>1. ASSUME PendingSet' = {}, NEW a \in Actions, NEW p \in Parts PROVE ~Pending(a, p)'
    <3>1. Pending(a, p)' => <<a, p>> \in PendingSet'
      BY DEF PendingSet
    <3> QED
      BY <2>1, <3>1
  <2>2. ASSUME \A a \in Actions, p \in Parts : ~Pending(a, p)' PROVE PendingSet' = {}
    BY <2>2 DEF PendingSet
  <2> QED
    BY <2>1, <2>2
<1> QED
    BY <1>1 DEF Busy, AllQuiesced

\* Every step is a step of the root plane, or leaves lock and work alone.
LEMMA PlaneStep == PInv /\ [PrivilegedNext]_vars => [Plane!Next]_<<locked, Busy>>
<1> SUFFICES ASSUME PInv, [PrivilegedNext]_vars PROVE [Plane!Next]_<<locked, Busy>>
    OBVIOUS
<1> DEFINE Idle == UNCHANGED <<locked, Busy>>
<1>0. /\ action \in [Actions -> States] /\ record \in [Actions -> [Parts -> Records]]
      /\ locked \in BOOLEAN /\ run \in Runs
    BY DEF PInv, PrivilegedTypeOK
<1>1. (\A a \in Actions : Leased(a)' = Leased(a)) /\ UNCHANGED <<record, locked>> => Idle
    BY BusyIs, BusyWillBe DEF Pending
<1>2. UNCHANGED <<action, record, locked>> => Idle
    BY <1>1 DEF Leased
\* what only ends work, and may set the lock
<1>3. ASSUME \A a \in Actions : Leased(a)' => Leased(a),
             \A a \in Actions, p \in Parts : Pending(a, p)' => Pending(a, p),
             UNCHANGED locked \/ locked'
      PROVE  [Plane!Next]_<<locked, Busy>>
  <2>1. Busy' => Busy
    BY <1>3, BusyIs, BusyWillBe
  <2>2. Busy \in BOOLEAN /\ Busy' \in BOOLEAN /\ locked' \in BOOLEAN
    BY InvariantStep DEF PInv, PrivilegedTypeOK, Busy
  <2>3. CASE Busy /\ ~Busy'
    BY <1>3, <2>3 DEF Plane!Next, Plane!End
  <2>4. CASE UNCHANGED Busy /\ UNCHANGED locked
    BY <2>4
  <2>5. CASE UNCHANGED Busy /\ locked'
    BY <2>5 DEF Plane!Next, Plane!Lock
  <2> QED
    BY <1>3, <2>1, <2>2, <2>3, <2>4, <2>5
<1> HIDE DEF Idle
<1>4. Idle => [Plane!Next]_<<locked, Busy>>
    BY DEF Idle
<1> USE DEF rowVars, osVars
<1>5. ASSUME NEW a \in Actions, Submit(a) \/ Cancel(a) \/ Entomb(a)
      PROVE  [Plane!Next]_<<locked, Busy>>
    BY <1>5, <1>0, <1>1, <1>4 DEF Submit, Cancel, Entomb, Canceling, Leased, States
<1>6. CASE Panic
    BY <1>6, <1>0, <1>3 DEF Panic, Canceling, Leased, Pending, States
<1>7. ASSUME NEW a \in Actions, Claim(a) PROVE [Plane!Next]_<<locked, Busy>>
  <2>1. ~locked /\ UNCHANGED locked
    BY <1>7 DEF Claim
  <2>2. ~Busy
    BY <1>7, BusyIs, PrivilegedAssumption DEF Claim, PInv, PendingKnown, RunFits
  <2>3. Busy'
    BY <1>7, <1>0, BusyWillBe DEF Claim, Leased
  <2> QED
    BY <2>1, <2>2, <2>3 DEF Plane!Next, Plane!Begin
<1>8. CASE Refuse \/ Fail \/ JudgeMain \/ JudgeObservation
  <2>1. UNCHANGED <<record, locked>>
    BY <1>8 DEF Refuse, Fail, RunFails, JudgeMain, JudgeObservation
  <2>2. \E s \in Terminal : Close(run.of, s) \/ UNCHANGED action
    BY <1>8 DEF Refuse, Fail, RunFails, ErrorVerdict, JudgeMain, JudgeObservation, Terminal
  <2>3. \A a \in Actions : Leased(a)' => Leased(a)
    BY <1>0, <2>2 DEF Close, Leased, Terminal
  <2> QED
    BY <1>3, <2>1, <2>3 DEF Pending
<1>9. CASE Prepare
  <2>1. UNCHANGED <<action, locked>> /\ Leased(run.of) /\ run.of \in Actions
    BY <1>9, PrivilegedAssumption DEF Prepare, At, PInv, RunFits, PrivilegedTypeOK, Runs
  <2>2. Busy /\ Busy'
    BY <2>1, BusyIs, BusyWillBe DEF Leased
  <2> QED
    BY <2>1, <2>2
<1>10. CASE RecordSpawned
  <2>1. UNCHANGED <<action, locked>> /\ Leased(run.of) /\ run.of \in Actions
    BY <1>10, PrivilegedAssumption DEF RecordSpawned, At, PInv, RunFits, PrivilegedTypeOK, Runs
  <2>2. Busy /\ Busy'
    BY <2>1, BusyIs, BusyWillBe DEF Leased
  <2> QED
    BY <2>1, <2>2
<1>11. CASE Quiesce \/ Block
  <2>1. Pending(run.of, run.part) /\ run.of \in Actions /\ run.part \in Parts
    BY <1>11, PrivilegedAssumption DEF Quiesce, Block, At, PInv, RunFits, PrivilegedTypeOK, Runs
  <2>2. UNCHANGED action /\ (UNCHANGED locked \/ locked')
    BY <1>11 DEF Quiesce, Block, SetBarrier
  <2>3. \A a \in Actions, p \in Parts : Pending(a, p)' => Pending(a, p)
    BY <1>0, <1>11, <2>1 DEF Quiesce, Block, Pending
  <2> QED
    BY <1>3, <2>2, <2>3 DEF Leased
<1>12. CASE \/ Spawn \/ SpawnFails \/ RecordFails \/ Closed \/ Signal \/ Timeout
            \/ StartClean \/ StartDone \/ Stop \/ RunsSettled \/ Crash \/ ControlScans
    BY <1>12, <1>2, <1>4 DEF Spawn, SpawnFails, RecordFails, Closed, Signal, Timeout, StartClean,
       StartDone, Stop, RunsSettled, Crash, ControlScans
<1>13. ASSUME NEW a \in Actions, NEW p \in Parts, Exits(a, p) \/ GroupDies(a, p)
       PROVE  [Plane!Next]_<<locked, Busy>>
    BY <1>13, <1>2, <1>4 DEF Exits, GroupDies
<1>14. ASSUME NEW a \in Actions, NEW p \in Parts, SweepRecord(a, p)
       PROVE  [Plane!Next]_<<locked, Busy>>
  <2>1. Pending(a, p) /\ UNCHANGED <<action, locked>>
    BY <1>14 DEF SweepRecord, PInv, PendingKnown, PendingSet
  <2>2. \A b \in Actions, q \in Parts : Pending(b, q)' => Pending(b, q)
    BY <1>0, <1>14, <2>1 DEF SweepRecord, Pending
  <2> QED
    BY <1>3, <2>1, <2>2 DEF Leased
<1>15. CASE StartRecovery \/ ControlRecovers
  <2>1. \A a \in Actions : Leased(a)' => Leased(a)
    BY <1>0, <1>15 DEF StartRecovery, ControlRecovers, RecoverInterrupted, Interrupted, Leased
  <2>2. UNCHANGED record /\ (UNCHANGED locked \/ locked')
    BY <1>15 DEF StartRecovery, ControlRecovers, SetBarrier
  <2> QED
    BY <1>3, <2>1, <2>2 DEF Pending
<1>16. CASE CloseDispatcher \/ CloseDone
  <2>1. UNCHANGED <<action, record>> /\ (UNCHANGED locked \/ locked')
    BY <1>16 DEF CloseDispatcher, CloseDone, SetBarrier
  <2> QED
    BY <1>3, <2>1 DEF Leased, Pending
<1>17. CASE ControlUnlocks
  <2>1. UNCHANGED <<action, record>>
    BY <1>17 DEF ControlUnlocks
  <2>2. UNCHANGED Busy
    BY <2>1, BusyIs, BusyWillBe DEF Leased, Pending
  <2>3. locked' => locked
    BY <1>17 DEF ControlUnlocks
  <2>4. ~locked' => ~locked \/ ~Busy
    BY <1>17 DEF ControlUnlocks, Unlockable, Busy
  <2>5. locked' \in BOOLEAN
    BY InvariantStep DEF PInv, PrivilegedTypeOK
  <2> QED
    BY <1>0, <2>2, <2>3, <2>4, <2>5 DEF Plane!Next, Plane!Unlock
<1>18. CASE UNCHANGED vars
    BY <1>2, <1>4, <1>18 DEF vars
<1> QED
    BY <1>5, <1>6, <1>7, <1>8, <1>9, <1>10, <1>11, <1>12, <1>13, <1>14, <1>15, <1>16, <1>17,
       <1>18 DEF PrivilegedNext, Request, Step

\* The broker, with crashes, recoveries and the operator's unlock, is the plane
\* that the emergency stop counts on.
THEOREM BrokerKeepsRootPlane == PrivilegedSpec => KeepsRootPlane
<1>1. PrivilegedInit => Plane!Init
    BY BusyIs DEF PrivilegedInit, Plane!Init, Leased, Pending
<1>2. PInv /\ [PrivilegedNext]_vars => [Plane!Next]_<<locked, Busy>>
    BY PlaneStep
<1> QED
    BY PrivilegedInvariant, <1>1, <1>2, PTL DEF PrivilegedSpec, KeepsRootPlane, Plane!Spec
=============================================================================
