----------------------------- MODULE PanicProofs -----------------------------
(***************************************************************************)
(* Proofs about the emergency stop, for any tasks, requests and failures    *)
(* and any bound of the worker's lane.  LockedTogether is inductive as it    *)
(* stands; the other properties follow from PanicInv, which links every     *)
(* request to the planes it has reached.                                    *)
(***************************************************************************)
EXTENDS PanicProperties, SequenceTheorems, TLAPS

\* What lock() leaves behind: never an open file where one was locked, a locked
\* file when it reports success, and a locked gate in every case.
LEMMA LocksLeave ==
    ASSUME NEW v \in Voices, v.mem = "saved" => v.file = "locked", NEW o \in Locks(v)
    PROVE  /\ o.v \in Voices
           /\ o.v.mem = "saved" => o.v.file = "locked"
           /\ v.file # "open" => o.v.file # "open"
           /\ o.ok \in BOOLEAN
           /\ o.ok => o.v.file # "open"
           /\ LockedIn(o.v)
<1>1. CASE LockedIn(v) /\ ~ErrorIn(v)
    <2>1. Locks(v) = {[v |-> v, ok |-> TRUE]}
        BY <1>1 DEF Locks
    <2>2. o.v = v /\ o.ok = TRUE
        BY <2>1
    <2> QED
        BY <1>1, <2>2 DEF LockedIn, ErrorIn, Voices
<1>2. CASE ~(LockedIn(v) /\ ~ErrorIn(v))
    <2>1. o \in Saves(v)
        BY <1>2 DEF Locks
    <2>2. \E f \in {v.file, "locked", "torn"}, m \in {"none", "saved", "unsaved"} :
             /\ o.v = [file |-> f, mem |-> m]
             /\ o.ok \/ m # "unsaved" => f = "locked"
             /\ f = "locked" \/ m = "unsaved"
        BY <2>1 DEF Saves
    <2>3. v.file \in {"open", "locked", "torn"}
        BY DEF Voices
    <2>4. o.ok = TRUE \/ o.ok = FALSE
        BY <2>1 DEF Saves
    <2>5. o.ok \in BOOLEAN
        BY <2>4
    <2>6. /\ o.v \in Voices
          /\ o.v.mem = "saved" => o.v.file = "locked"
          /\ v.file # "open" => o.v.file # "open"
          /\ o.ok => o.v.file # "open"
          /\ LockedIn(o.v)
        BY <2>2, <2>3 DEF LockedIn, Voices
    <2> QED
        BY <2>5, <2>6
<1> QED
    BY <1>1, <1>2

\* What an unlock of the voice lock leaves behind, whatever failed.
LEMMA UnlocksLeave ==
    ASSUME NEW v \in Voices, v.mem = "saved" => v.file = "locked", NEW o \in Unlocks(v)
    PROVE  /\ o.v \in Voices
           /\ o.v.mem = "saved" => o.v.file = "locked"
<1>1. \/ o.v = v
      \/ \E f \in {"open", "locked", "torn"}, m \in {"none", "unsaved"} :
            o.v = [file |-> f, mem |-> m]
    BY DEF Unlocks
<1> QED
    BY <1>1 DEF Voices

Joined(p, kind) == Append(worker.lane, [kind |-> kind, by |-> p])

\* A call joins the lane at its end.
LEMMA LaneJoined ==
    ASSUME worker.lane \in Seq(LaneCalls), NEW p \in Requests, NEW kind \in {"panic", "unlock"}
    PROVE  /\ Joined(p, kind) \in Seq(LaneCalls)
           /\ Len(worker.lane) \in Nat /\ Len(Joined(p, kind)) = Len(worker.lane) + 1
           /\ DOMAIN worker.lane = 1 .. Len(worker.lane)
           /\ DOMAIN Joined(p, kind) = 1 .. Len(worker.lane) + 1
           /\ \A i \in 1 .. Len(worker.lane) : Joined(p, kind)[i] = worker.lane[i]
           /\ Joined(p, kind)[Len(worker.lane) + 1].kind = kind
           /\ Joined(p, kind)[Len(worker.lane) + 1].by = p
<1> DEFINE e == [kind |-> kind, by |-> p]
           s == worker.lane
<1>1. e \in LaneCalls
    BY DEF LaneCalls
<1>2. e.kind = kind /\ e.by = p
    OBVIOUS
<1>3. s \in Seq(LaneCalls)
    OBVIOUS
<1> HIDE DEF e, s
<1>4. /\ Append(s, e) \in Seq(LaneCalls)
      /\ Len(Append(s, e)) = Len(s) + 1
      /\ \A i \in 1 .. Len(s) : Append(s, e)[i] = s[i]
      /\ Append(s, e)[Len(s) + 1] = e
    BY <1>1, <1>3, AppendProperties
<1>5. DOMAIN s = 1 .. Len(s) /\ Len(s) \in Nat /\ DOMAIN Append(s, e) = 1 .. Len(s) + 1
    BY <1>3, <1>4, LenProperties
<1>6. Joined(p, kind) = Append(s, e)
    BY DEF Joined, s, e
<1>7. s = worker.lane
    BY DEF s
<1> QED
    BY <1>2, <1>4, <1>5, <1>6, <1>7

\* The head of the lane leaves it; the rest moves up in order.
LEMMA LaneServed ==
    ASSUME NEW s \in Seq(LaneCalls), s # <<>>
    PROVE  /\ Tail(s) \in Seq(LaneCalls)
           /\ Len(s) \in Nat \ {0} /\ Len(Tail(s)) = Len(s) - 1
           /\ DOMAIN s = 1 .. Len(s) /\ DOMAIN Tail(s) = 1 .. Len(s) - 1
           /\ \A i \in 1 .. Len(s) - 1 : Tail(s)[i] = s[i + 1]
           /\ Head(s) = s[1]
           /\ s[1] \in LaneCalls
<1>1. Tail(s) \in Seq(LaneCalls) /\ Len(Tail(s)) = Len(s) - 1
      /\ \A i \in 1 .. Len(Tail(s)) : Tail(s)[i] = s[i + 1]
    BY HeadTailProperties
<1>2. Len(s) \in Nat \ {0}
    BY EmptySeq
<1>3. DOMAIN s = 1 .. Len(s) /\ DOMAIN Tail(s) = 1 .. Len(Tail(s))
    BY <1>1, LenProperties
<1>4. s[1] \in LaneCalls
    BY <1>2, ElementOfSeq
<1> QED
    BY <1>1, <1>2, <1>3, <1>4

\* Callers that stop waiting leave their calls where they are.
LEMMA LaneOrphaned ==
    ASSUME worker.lane \in Seq(LaneCalls), NEW P
    PROVE  /\ Orphaned(P) \in Seq(LaneCalls)
           /\ Len(Orphaned(P)) = Len(worker.lane)
           /\ DOMAIN worker.lane = 1 .. Len(worker.lane)
           /\ DOMAIN Orphaned(P) = DOMAIN worker.lane
           /\ \A i \in DOMAIN worker.lane :
                 /\ Orphaned(P)[i].kind = worker.lane[i].kind
                 /\ Orphaned(P)[i].by = IF worker.lane[i].by \in P THEN Nobody
                                        ELSE worker.lane[i].by
<1>1. /\ Len(worker.lane) \in Nat
      /\ DOMAIN worker.lane = 1 .. Len(worker.lane)
      /\ \A i \in DOMAIN worker.lane : worker.lane[i] \in LaneCalls
    BY LenProperties, ElementOfSeq
<1>2. Orphaned(P) \in [1 .. Len(worker.lane) -> LaneCalls]
    BY <1>1 DEF Orphaned, LaneCalls
<1>3. Orphaned(P) \in Seq(LaneCalls)
    BY <1>1, <1>2, SeqDef
<1>5. Len(Orphaned(P)) \in Nat /\ DOMAIN Orphaned(P) = 1 .. Len(Orphaned(P))
    BY <1>3, LenProperties
<1>6. Len(Orphaned(P)) = Len(worker.lane)
    BY <1>1, <1>2, <1>5
<1>4. \A i \in DOMAIN worker.lane :
         /\ Orphaned(P)[i].kind = worker.lane[i].kind
         /\ Orphaned(P)[i].by = IF worker.lane[i].by \in P THEN Nobody ELSE worker.lane[i].by
    BY <1>1 DEF Orphaned, LaneCalls
<1> QED
    BY <1>1, <1>2, <1>3, <1>4, <1>6

\* A request that starts is a request.
LEMMA StartedTypes ==
    ASSUME req \in [Requests -> Reqs], NEW p \in Requests, NEW r \in Reqs
    PROVE  Started(p, r) \in [Requests -> Reqs]
BY DEF Started, Overlap, Reqs

\* A request that starts is clean only if nothing it must not overlap is in flight.
LEMMA StartedSelf ==
    ASSUME req \in [Requests -> Reqs], NEW p \in Requests, NEW r \in Reqs
    PROVE  LET s == Started(p, r)[p] IN
           /\ s.stage = r.stage /\ s.kind = r.kind /\ s.fenced = r.fenced /\ s.quiet = r.quiet
           /\ s.root = r.root /\ s.worker = r.worker /\ s.said = r.said
           /\ s.since \in {"clean", "mixed"}
           /\ r.kind = "unlock" /\ s.since = "clean" => \A q \in Requests : ~Flying(q)
           /\ r.kind # "unlock" /\ s.since = "clean" => \A q \in Requests : ~Unlocking(q)
BY DEF Started, Overlap, Reqs

\* A request that starts leaves the others as they are, and taints those that an
\* unlock overlaps.
LEMMA StartedOther ==
    ASSUME req \in [Requests -> Reqs], NEW p \in Requests, NEW r \in Reqs,
           NEW x \in Requests, x # p
    PROVE  LET s == Started(p, r)[x] IN
           /\ s.stage = req[x].stage /\ s.kind = req[x].kind /\ s.fenced = req[x].fenced
           /\ s.quiet = req[x].quiet /\ s.root = req[x].root /\ s.worker = req[x].worker
           /\ s.said = req[x].said
           /\ s.since = req[x].since \/ (req[x].since = "clean" /\ s.since = "mixed")
           /\ r.kind = "unlock" /\ req[x].kind # "none" => s.since # "clean"
           /\ r.kind # "unlock" /\ Unlocking(x) => s.since # "clean"
BY DEF Started, Overlap, Reqs, Unlocking, Flying, Idle


StoreTypes == row \in [Tasks -> Rows] /\ locked \in BOOLEAN
VoiceTypes == voice \in Voices /\ (voice.mem = "saved" => voice.file = "locked")
PlaneTypes ==
    /\ up \in BOOLEAN
    /\ prepared \subseteq TargetTasks
    /\ op \subseteq Tasks
    /\ root \in [locked : BOOLEAN, busy : BOOLEAN]
LaneTypes ==
    /\ worker \in [fence : BOOLEAN, draining : BOOLEAN, lane : Seq(LaneCalls)]
    /\ Len(worker.lane) <= MaxLane
ReqTypes == req \in [Requests -> Reqs]

\* The panic of the queue keeps the rows' types and what was quiet.
LEMMA PanickedRows ==
    ASSUME row \in [Tasks -> Rows], PanicStore
    PROVE  row' \in [Tasks -> Rows] /\ locked' = TRUE /\ (Quiesced => Quiesced')
<1>1. row' \in [Tasks -> Rows]
    BY DEF PanicStore, PanicSelection, CancelRow, Rows, TaskStates
<1>2. \A t \in VoiceTasks : row[t].state \in {"absent"} \cup TerminalStates => row'[t] = row[t]
    BY StoreAssumption DEF PanicStore, PanicSelection, TerminalStates, LeasedStates
<1> QED
    BY <1>1, <1>2 DEF Quiesced, PanicStore

\* The fields of a free slot.
LEMMA IdleIs ==
    /\ Idle \in Reqs
    /\ Idle.stage = "idle" /\ Idle.kind = "none" /\ ~Idle.fenced /\ ~Idle.quiet
    /\ Idle.root = "none" /\ Idle.worker = "none" /\ Idle.said = "none"
BY DEF Idle, Reqs

\* A request that ends without acknowledgement frees its slot.
LEMMA EndedNone ==
    ASSUME NEW p PROVE Ended(p, "none") = [req EXCEPT ![p] = Idle]
BY DEF Ended

\* An acknowledged panic leaves what its caller was told in its slot.
LEMMA EndedSaid ==
    ASSUME ReqTypes, NEW p \in Requests, NEW said \in {"accepted", "stopped"}
    PROVE  \E r \in Reqs :
              /\ Ended(p, said) = [req EXCEPT ![p] = r]
              /\ r.stage = "idle" /\ r.kind = "panic" /\ ~r.fenced /\ ~r.quiet
              /\ r.root = "none" /\ r.worker = "none" /\ r.said = said /\ r.since = req[p].since
<1> DEFINE r == [Idle EXCEPT !.kind = "panic", !.said = said, !.since = req[p].since]
<1>1. /\ r \in Reqs
      /\ r.stage = "idle" /\ r.kind = "panic" /\ ~r.fenced /\ ~r.quiet
      /\ r.root = "none" /\ r.worker = "none" /\ r.said = said /\ r.since = req[p].since
    BY DEF Idle, Reqs, ReqTypes
<1>2. Ended(p, said) = [req EXCEPT ![p] = r]
    BY DEF Ended
<1> QED
    BY <1>1, <1>2

\* A commit keeps the requests' types.
LEMMA UndoneTypes ==
    ASSUME NEW f \in [Requests -> Reqs] PROVE Undone(f) \in [Requests -> Reqs]
<1>1. \A x \in Requests : [f[x] EXCEPT !.since = "undone"] \in Reqs
    BY DEF Reqs
<1> QED
    BY <1>1, IdleIs DEF Undone

\* A commit undoes every panic and changes nothing else in a request.
LEMMA UndoneIs ==
    ASSUME NEW f \in [Requests -> Reqs], NEW x \in Requests
    PROVE  /\ Undone(f)[x].stage = f[x].stage /\ Undone(f)[x].kind = f[x].kind
           /\ Undone(f)[x].fenced = f[x].fenced /\ Undone(f)[x].quiet = f[x].quiet
           /\ Undone(f)[x].root = f[x].root /\ Undone(f)[x].worker = f[x].worker
           /\ Undone(f)[x].said = f[x].said
           /\ f[x].kind # "none" => Undone(f)[x].since = "undone"
<1>1. CASE f[x] = Idle
    <2>1. Undone(f)[x] = f[x]
        BY <1>1 DEF Undone
    <2> QED
        BY <1>1, <2>1, IdleIs
<1>2. CASE f[x] # Idle
    <2>1. Undone(f)[x] = [f[x] EXCEPT !.since = "undone"]
        BY <1>2 DEF Undone
    <2> QED
        BY <2>1 DEF Reqs
<1> QED
    BY <1>1, <1>2

\* A request sent back by a compensation.
LEMMA MovedIs ==
    ASSUME NEW r \in Reqs, NEW w \in {"sent", "failed"}
    PROVE  [r EXCEPT !.stage = "rollback", !.worker = w] \in Reqs
<1>1. [r EXCEPT !.stage = "rollback"] \in Reqs
    BY DEF Reqs
<1>2. \A s \in Reqs : [s EXCEPT !.worker = w] \in Reqs
    BY DEF Reqs
<1>3. [[r EXCEPT !.stage = "rollback"] EXCEPT !.worker = w] \in Reqs
    BY <1>1, <1>2
<1> QED
    BY <1>3

\* Every step keeps the rows and the queue's lock in their types.
LEMMA StoreTypesStep ==
    PanicInv /\ [PanicNext]_panicVars => StoreTypes'
<1>0. SUFFICES ASSUME PanicInv, [PanicNext]_panicVars PROVE StoreTypes'
    OBVIOUS
<1>s. StoreTypes
    BY <1>0 DEF PanicInv, PanicTypeOK, PlanesFit, StoreTypes, VoiceTypes, PlaneTypes,
       LaneTypes, ReqTypes, RequestFits
<1>1. ASSUME NEW p \in Requests, PanicBegins(p) PROVE StoreTypes'
    <2>1. PanicStore \/ UNCHANGED storeVars
        BY <1>1 DEF PanicBegins
    <2>. QED
        BY <2>1, <1>s, PanickedRows DEF StoreTypes, storeVars
<1>2. ASSUME NEW p \in Requests, RootPanics(p) PROVE StoreTypes'
    BY <1>2, <1>s
    DEF RootPanics, storeVars, StoreTypes
<1>3. ASSUME NEW p \in Requests, PanicAnswers(p) PROVE StoreTypes'
    BY <1>3, <1>s
    DEF PanicAnswers, Ended, Idle, storeVars, StoreTypes
<1>4. ASSUME NEW p \in Requests, WorkerUnheard(p) PROVE StoreTypes'
    BY <1>4, <1>s
    DEF WorkerUnheard, storeVars, StoreTypes
<1>5. ASSUME NEW p \in Requests, UnlockBegins(p) PROVE StoreTypes'
    BY <1>5, <1>s
    DEF UnlockBegins, storeVars, StoreTypes
<1>6. ASSUME NEW p \in Requests, UnlockSeesRoot(p) PROVE StoreTypes'
    BY <1>6, <1>s
    DEF UnlockSeesRoot, Ended, Idle, Reached, storeVars, StoreTypes
<1>7. ASSUME NEW p \in Requests, UnlockHearsWorker(p) PROVE StoreTypes'
    BY <1>7, <1>s
    DEF UnlockHearsWorker, Ended, Idle, storeVars, StoreTypes
<1>8. ASSUME NEW p \in Requests, UnlockSeesHealth(p) PROVE StoreTypes'
    BY <1>8, <1>s
    DEF UnlockSeesHealth, CallsWorker, Reached, Sent, storeVars, StoreTypes
<1>9. ASSUME NEW p \in Requests, UnlockSucceeds(p) PROVE StoreTypes'
    BY <1>9, <1>s
    DEF UnlockSucceeds, Undone, Ended, Idle, UnlockPanic, UnlockPanic, storeVars, StoreTypes
<1>10. ASSUME NEW p \in Requests, UnlockCompensates(p) PROVE StoreTypes'
    <2>1. PanicStore \/ (row' = row /\ locked' \in BOOLEAN)
        BY <1>10, <1>s DEF UnlockCompensates, StoreTypes
    <2>. QED
        BY <2>1, <1>s, PanickedRows DEF StoreTypes
<1>11. ASSUME NEW p \in Requests, RollbackEnds(p) PROVE StoreTypes'
    BY <1>11, <1>s
    DEF RollbackEnds, Ended, Idle, storeVars, StoreTypes
<1>12. CASE WorkerPanicBegins
    BY <1>12, <1>s
    DEF WorkerPanicBegins, Answered, storeVars, StoreTypes
<1>13. CASE WorkerPanicEnds
    BY <1>13, <1>s
    DEF WorkerPanicEnds, Answered, storeVars, StoreTypes
<1>14. CASE WorkerUnlocks
    BY <1>14, <1>s
    DEF WorkerUnlocks, Answered, storeVars, StoreTypes
<1>15. ASSUME NEW t \in Tasks, Prepare(t) PROVE StoreTypes'
    BY <1>15, <1>s
    DEF Prepare, storeVars, StoreTypes
<1>16. ASSUME NEW t \in Tasks, Submit(t) PROVE StoreTypes'
    BY <1>16, <1>s
    DEF Submit, SubmitTask, Rows, TaskStates, storeVars, StoreTypes
<1>17. ASSUME NEW t \in Tasks, StartOperation(t) \/ EndOperation(t) PROVE StoreTypes'
    BY <1>17, <1>s
    DEF StartOperation, EndOperation, storeVars, StoreTypes
<1>18. ASSUME NEW t \in Tasks, NEW k \in Tokens, Claim(t, k) PROVE StoreTypes'
    BY <1>18, <1>s, StoreAssumption
    DEF Claim, ClaimNext, Rows, TaskStates, storeVars, StoreTypes
<1>19. ASSUME NEW t \in Tasks, NEW k \in Tokens, Finish(t, k) PROVE StoreTypes'
    <2>1. /\ row' = [row EXCEPT ![t] = ClosedRow(row[t], "completed", "none")]
          /\ locked' = locked
        BY <1>19 DEF Finish, CompleteTask, CloseRow
    <2>2. ClosedRow(row[t], "completed", "none") \in Rows
        BY <1>s DEF StoreTypes, ClosedRow, Rows, TaskStates, Codes
    <2>. QED
        BY <2>1, <2>2, <1>s DEF StoreTypes
<1>20. CASE RootWorks
    BY <1>20, <1>s
    DEF RootWorks, storeVars, StoreTypes
<1>21. CASE RootUnlocks
    BY <1>21, <1>s
    DEF RootUnlocks, storeVars, StoreTypes
<1>22. CASE Crash
    BY <1>22, <1>s
    DEF Crash, storeVars, StoreTypes
<1>23. CASE Start
    <2>1. PanicStore \/ UNCHANGED <<row, locked>>
        BY <1>23 DEF Start, SynchronizePanicControls, storeVars
    <2>. QED
        BY <2>1, <1>s, PanickedRows DEF StoreTypes
<1>24. CASE UNCHANGED panicVars
    BY <1>24, <1>s
    DEF panicVars, storeVars, StoreTypes
<1>. QED
    BY <1>0, <1>1, <1>2, <1>3, <1>4, <1>5, <1>6, <1>7, <1>8, <1>9, <1>10, <1>11, <1>12, <1>13,
       <1>14, <1>15, <1>16, <1>17, <1>18, <1>19, <1>20, <1>21, <1>22, <1>23, <1>24
    DEF PanicNext

\* Every step keeps the voice lock in its type, and its memory true to the file.
LEMMA VoiceStep ==
    PanicInv /\ [PanicNext]_panicVars => VoiceTypes'
<1>0. SUFFICES ASSUME PanicInv, [PanicNext]_panicVars PROVE VoiceTypes'
    OBVIOUS
<1>v. VoiceTypes
    BY <1>0 DEF PanicInv, PanicTypeOK, PlanesFit, StoreTypes, VoiceTypes, PlaneTypes,
       LaneTypes, ReqTypes, RequestFits
<1>1. ASSUME NEW p \in Requests, PanicBegins(p) PROVE VoiceTypes'
    <2>1. PICK o \in Locks(voice) : voice' = o.v
        BY <1>1 DEF PanicBegins
    <2>. QED
        BY <2>1, <1>v, LocksLeave DEF VoiceTypes
<1>2. ASSUME NEW p \in Requests, RootPanics(p) PROVE VoiceTypes'
    BY <1>2, <1>v
    DEF RootPanics, storeVars, VoiceTypes, Voices
<1>3. ASSUME NEW p \in Requests, PanicAnswers(p) PROVE VoiceTypes'
    BY <1>3, <1>v
    DEF PanicAnswers, Ended, Idle, storeVars, VoiceTypes, Voices
<1>4. ASSUME NEW p \in Requests, WorkerUnheard(p) PROVE VoiceTypes'
    BY <1>4, <1>v
    DEF WorkerUnheard, storeVars, VoiceTypes, Voices
<1>5. ASSUME NEW p \in Requests, UnlockBegins(p) PROVE VoiceTypes'
    BY <1>5, <1>v
    DEF UnlockBegins, storeVars, VoiceTypes, Voices
<1>6. ASSUME NEW p \in Requests, UnlockSeesRoot(p) PROVE VoiceTypes'
    BY <1>6, <1>v
    DEF UnlockSeesRoot, Ended, Idle, Reached, storeVars, VoiceTypes, Voices
<1>7. ASSUME NEW p \in Requests, UnlockHearsWorker(p) PROVE VoiceTypes'
    BY <1>7, <1>v
    DEF UnlockHearsWorker, Ended, Idle, storeVars, VoiceTypes, Voices
<1>8. ASSUME NEW p \in Requests, UnlockSeesHealth(p) PROVE VoiceTypes'
    BY <1>8, <1>v
    DEF UnlockSeesHealth, CallsWorker, Reached, Sent, storeVars, VoiceTypes, Voices
<1>9. ASSUME NEW p \in Requests, UnlockSucceeds(p) PROVE VoiceTypes'
    <2>1. PICK o \in Unlocks(voice) : voice' = o.v
        BY <1>9 DEF UnlockSucceeds
    <2>. QED
        BY <1>9, <2>1, <1>v, UnlocksLeave DEF VoiceTypes
<1>10. ASSUME NEW p \in Requests, UnlockCompensates(p) PROVE VoiceTypes'
    <2>1. PICK v \in {voice} \cup {u.v : u \in Unlocks(voice)} : \E o \in Locks(v) : voice' = o.v
        BY <1>10 DEF UnlockCompensates
    <2>2. v \in Voices /\ (v.mem = "saved" => v.file = "locked")
        BY <1>v, UnlocksLeave DEF VoiceTypes
    <2>. QED
        BY <1>10, <2>1, <2>2, LocksLeave DEF VoiceTypes
<1>11. ASSUME NEW p \in Requests, RollbackEnds(p) PROVE VoiceTypes'
    BY <1>11, <1>v
    DEF RollbackEnds, Ended, Idle, storeVars, VoiceTypes, Voices
<1>12. CASE WorkerPanicBegins
    BY <1>12, <1>v
    DEF WorkerPanicBegins, Answered, storeVars, VoiceTypes, Voices
<1>13. CASE WorkerPanicEnds
    BY <1>13, <1>v
    DEF WorkerPanicEnds, Answered, storeVars, VoiceTypes, Voices
<1>14. CASE WorkerUnlocks
    BY <1>14, <1>v
    DEF WorkerUnlocks, Answered, storeVars, VoiceTypes, Voices
<1>15. ASSUME NEW t \in Tasks, Prepare(t) PROVE VoiceTypes'
    BY <1>15, <1>v
    DEF Prepare, storeVars, VoiceTypes, Voices
<1>16. ASSUME NEW t \in Tasks, Submit(t) PROVE VoiceTypes'
    BY <1>16, <1>v
    DEF Submit, SubmitTask, storeVars, VoiceTypes, Voices
<1>17. ASSUME NEW t \in Tasks, StartOperation(t) \/ EndOperation(t) PROVE VoiceTypes'
    BY <1>17, <1>v
    DEF StartOperation, EndOperation, storeVars, VoiceTypes, Voices
<1>18. ASSUME NEW t \in Tasks, NEW k \in Tokens, Claim(t, k) PROVE VoiceTypes'
    BY <1>18, <1>v
    DEF Claim, ClaimNext, storeVars, VoiceTypes, Voices
<1>19. ASSUME NEW t \in Tasks, NEW k \in Tokens, Finish(t, k) PROVE VoiceTypes'
    BY <1>19, <1>v
    DEF Finish, CompleteTask, CloseRow, ClosedRow, storeVars, VoiceTypes, Voices
<1>20. CASE RootWorks
    BY <1>20, <1>v
    DEF RootWorks, storeVars, VoiceTypes, Voices
<1>21. CASE RootUnlocks
    BY <1>21, <1>v
    DEF RootUnlocks, storeVars, VoiceTypes, Voices
<1>22. CASE Crash
    BY <1>22, <1>v
    DEF Crash, storeVars, VoiceTypes, Voices
<1>23. CASE Start
    <2>1. voice' = voice \/ \E o \in Locks(voice) : voice' = o.v
        BY <1>23 DEF Start, SynchronizePanicControls
    <2>. QED
        BY <2>1, <1>v, LocksLeave DEF VoiceTypes
<1>24. CASE UNCHANGED panicVars
    BY <1>24, <1>v
    DEF panicVars, storeVars, VoiceTypes, Voices
<1>. QED
    BY <1>0, <1>1, <1>2, <1>3, <1>4, <1>5, <1>6, <1>7, <1>8, <1>9, <1>10, <1>11, <1>12, <1>13,
       <1>14, <1>15, <1>16, <1>17, <1>18, <1>19, <1>20, <1>21, <1>22, <1>23, <1>24
    DEF PanicNext

\* Every step keeps the controller's own planes in their types.
LEMMA PlaneTypesStep ==
    PanicInv /\ [PanicNext]_panicVars => PlaneTypes'
<1>0. SUFFICES ASSUME PanicInv, [PanicNext]_panicVars PROVE PlaneTypes'
    OBVIOUS
<1>a. PlaneTypes
    BY <1>0 DEF PanicInv, PanicTypeOK, PlanesFit, StoreTypes, VoiceTypes, PlaneTypes,
       LaneTypes, ReqTypes, RequestFits
<1>1. ASSUME NEW p \in Requests, PanicBegins(p) PROVE PlaneTypes'
    BY <1>1, <1>a
    DEF PanicBegins, CallsWorker, Reached, storeVars, PlaneTypes
<1>2. ASSUME NEW p \in Requests, RootPanics(p) PROVE PlaneTypes'
    BY <1>2, <1>a
    DEF RootPanics, storeVars, PlaneTypes
<1>3. ASSUME NEW p \in Requests, PanicAnswers(p) PROVE PlaneTypes'
    BY <1>3, <1>a
    DEF PanicAnswers, Ended, Idle, storeVars, PlaneTypes
<1>4. ASSUME NEW p \in Requests, WorkerUnheard(p) PROVE PlaneTypes'
    BY <1>4, <1>a
    DEF WorkerUnheard, storeVars, PlaneTypes
<1>5. ASSUME NEW p \in Requests, UnlockBegins(p) PROVE PlaneTypes'
    BY <1>5, <1>a
    DEF UnlockBegins, storeVars, PlaneTypes
<1>6. ASSUME NEW p \in Requests, UnlockSeesRoot(p) PROVE PlaneTypes'
    BY <1>6, <1>a
    DEF UnlockSeesRoot, Ended, Idle, Reached, storeVars, PlaneTypes
<1>7. ASSUME NEW p \in Requests, UnlockHearsWorker(p) PROVE PlaneTypes'
    BY <1>7, <1>a
    DEF UnlockHearsWorker, Ended, Idle, storeVars, PlaneTypes
<1>8. ASSUME NEW p \in Requests, UnlockSeesHealth(p) PROVE PlaneTypes'
    BY <1>8, <1>a
    DEF UnlockSeesHealth, CallsWorker, Reached, Sent, storeVars, PlaneTypes
<1>9. ASSUME NEW p \in Requests, UnlockSucceeds(p) PROVE PlaneTypes'
    BY <1>9, <1>a
    DEF UnlockSucceeds, Undone, Ended, Idle, UnlockPanic, storeVars, PlaneTypes
<1>10. ASSUME NEW p \in Requests, UnlockCompensates(p) PROVE PlaneTypes'
    BY <1>10, <1>a
    DEF UnlockCompensates, Undone, CallsWorker, Reached, Sent, storeVars, PlaneTypes
<1>11. ASSUME NEW p \in Requests, RollbackEnds(p) PROVE PlaneTypes'
    BY <1>11, <1>a
    DEF RollbackEnds, Ended, Idle, storeVars, PlaneTypes
<1>12. CASE WorkerPanicBegins
    BY <1>12, <1>a
    DEF WorkerPanicBegins, Answered, storeVars, PlaneTypes
<1>13. CASE WorkerPanicEnds
    BY <1>13, <1>a
    DEF WorkerPanicEnds, Answered, storeVars, PlaneTypes
<1>14. CASE WorkerUnlocks
    BY <1>14, <1>a
    DEF WorkerUnlocks, Answered, storeVars, PlaneTypes
<1>15. ASSUME NEW t \in Tasks, Prepare(t) PROVE PlaneTypes'
    BY <1>15, <1>a, PanicAssumption
    DEF Prepare, storeVars, PlaneTypes
<1>16. ASSUME NEW t \in Tasks, Submit(t) PROVE PlaneTypes'
    BY <1>16, <1>a
    DEF Submit, SubmitTask, storeVars, PlaneTypes
<1>17. ASSUME NEW t \in Tasks, StartOperation(t) \/ EndOperation(t) PROVE PlaneTypes'
    BY <1>17, <1>a, PanicAssumption
    DEF StartOperation, EndOperation, storeVars, PlaneTypes
<1>18. ASSUME NEW t \in Tasks, NEW k \in Tokens, Claim(t, k) PROVE PlaneTypes'
    BY <1>18, <1>a
    DEF Claim, ClaimNext, storeVars, PlaneTypes
<1>19. ASSUME NEW t \in Tasks, NEW k \in Tokens, Finish(t, k) PROVE PlaneTypes'
    BY <1>19, <1>a
    DEF Finish, CompleteTask, CloseRow, ClosedRow, storeVars, PlaneTypes
<1>20. CASE RootWorks
    BY <1>20, <1>a
    DEF RootWorks, storeVars, PlaneTypes
<1>21. CASE RootUnlocks
    BY <1>21, <1>a
    DEF RootUnlocks, storeVars, PlaneTypes
<1>22. CASE Crash
    BY <1>22, <1>a
    DEF Crash, storeVars, PlaneTypes
<1>23. CASE Start
    BY <1>23, <1>a
    DEF Start, SynchronizePanicControls, storeVars, PlaneTypes
<1>24. CASE UNCHANGED panicVars
    BY <1>24, <1>a
    DEF panicVars, storeVars, PlaneTypes
<1>. QED
    BY <1>0, <1>1, <1>2, <1>3, <1>4, <1>5, <1>6, <1>7, <1>8, <1>9, <1>10, <1>11, <1>12, <1>13,
       <1>14, <1>15, <1>16, <1>17, <1>18, <1>19, <1>20, <1>21, <1>22, <1>23, <1>24
    DEF PanicNext

\* Every step keeps the lane in its type and within its bound.
LEMMA LaneTypesStep ==
    PanicInv /\ [PanicNext]_panicVars => LaneTypes'
<1>0. SUFFICES ASSUME PanicInv, [PanicNext]_panicVars PROVE LaneTypes'
    OBVIOUS
<1>b. LaneTypes
    BY <1>0 DEF PanicInv, PanicTypeOK, PlanesFit, StoreTypes, VoiceTypes, PlaneTypes,
       LaneTypes, ReqTypes, RequestFits
<1>f. LaneFits
    BY <1>0 DEF PanicInv
<1>1. ASSUME NEW p \in Requests, PanicBegins(p) PROVE LaneTypes'
    <2>1. worker' = worker \/ (Len(worker.lane) < MaxLane
             /\ worker' = [worker EXCEPT !.lane = Joined(p, "panic")])
        BY <1>1 DEF PanicBegins, CallsWorker, Reached, Joined
    <2>2. worker.lane \in Seq(LaneCalls)
        BY <1>b DEF LaneTypes
    <2>3. Joined(p, "panic") \in Seq(LaneCalls)
          /\ (Len(worker.lane) < MaxLane => Len(Joined(p, "panic")) <= MaxLane)
        BY <2>2, LaneJoined, PanicAssumption
    <2>. QED
        BY <2>1, <2>3, <1>b DEF LaneTypes
<1>2. ASSUME NEW p \in Requests, RootPanics(p) PROVE LaneTypes'
    BY <1>2, <1>b
    DEF RootPanics, storeVars, LaneTypes
<1>3. ASSUME NEW p \in Requests, PanicAnswers(p) PROVE LaneTypes'
    BY <1>3, <1>b
    DEF PanicAnswers, Ended, Idle, storeVars, LaneTypes
<1>4. ASSUME NEW p \in Requests, WorkerUnheard(p) PROVE LaneTypes'
    BY <1>4, <1>b, LaneOrphaned
    DEF WorkerUnheard, storeVars, LaneTypes
<1>5. ASSUME NEW p \in Requests, UnlockBegins(p) PROVE LaneTypes'
    BY <1>5, <1>b
    DEF UnlockBegins, storeVars, LaneTypes
<1>6. ASSUME NEW p \in Requests, UnlockSeesRoot(p) PROVE LaneTypes'
    <2>1. worker' = worker \/ (Len(worker.lane) < MaxLane
             /\ worker' = [worker EXCEPT !.lane = Joined(p, "unlock")])
        BY <1>6 DEF UnlockSeesRoot, CallsWorker, Reached, Joined
    <2>2. worker.lane \in Seq(LaneCalls)
        BY <1>b DEF LaneTypes
    <2>3. Joined(p, "unlock") \in Seq(LaneCalls)
          /\ (Len(worker.lane) < MaxLane => Len(Joined(p, "unlock")) <= MaxLane)
        BY <2>2, LaneJoined, PanicAssumption
    <2>. QED
        BY <2>1, <2>3, <1>b DEF LaneTypes
<1>7. ASSUME NEW p \in Requests, UnlockHearsWorker(p) PROVE LaneTypes'
    BY <1>7, <1>b
    DEF UnlockHearsWorker, Ended, Idle, storeVars, LaneTypes
<1>8. ASSUME NEW p \in Requests, UnlockSeesHealth(p) PROVE LaneTypes'
    <2>1. worker' = worker \/ (Len(worker.lane) < MaxLane
             /\ worker' = [worker EXCEPT !.lane = Joined(p, "panic")])
        BY <1>8 DEF UnlockSeesHealth, CallsWorker, Reached, Joined
    <2>2. worker.lane \in Seq(LaneCalls)
        BY <1>b DEF LaneTypes
    <2>3. Joined(p, "panic") \in Seq(LaneCalls)
          /\ (Len(worker.lane) < MaxLane => Len(Joined(p, "panic")) <= MaxLane)
        BY <2>2, LaneJoined, PanicAssumption
    <2>. QED
        BY <2>1, <2>3, <1>b DEF LaneTypes
<1>9. ASSUME NEW p \in Requests, UnlockSucceeds(p) PROVE LaneTypes'
    BY <1>9, <1>b
    DEF UnlockSucceeds, Undone, Ended, Idle, UnlockPanic, storeVars, LaneTypes
<1>10. ASSUME NEW p \in Requests, UnlockCompensates(p) PROVE LaneTypes'
    <2>1. worker' = worker \/ (Len(worker.lane) < MaxLane
             /\ worker' = [worker EXCEPT !.lane = Joined(p, "panic")])
        BY <1>10 DEF UnlockCompensates, CallsWorker, Reached, Joined
    <2>2. worker.lane \in Seq(LaneCalls)
        BY <1>b DEF LaneTypes
    <2>3. Joined(p, "panic") \in Seq(LaneCalls)
          /\ (Len(worker.lane) < MaxLane => Len(Joined(p, "panic")) <= MaxLane)
        BY <2>2, LaneJoined, PanicAssumption
    <2>. QED
        BY <2>1, <2>3, <1>b DEF LaneTypes
<1>11. ASSUME NEW p \in Requests, RollbackEnds(p) PROVE LaneTypes'
    BY <1>11, <1>b
    DEF RollbackEnds, Ended, Idle, storeVars, LaneTypes
<1>12. CASE WorkerPanicBegins
    <2>1. worker.lane # <<>> /\ worker.lane \in Seq(LaneCalls)
        BY <1>12, <1>b DEF WorkerPanicBegins, LaneTypes
    <2>2. Tail(worker.lane) \in Seq(LaneCalls) /\ Len(Tail(worker.lane)) <= MaxLane
        BY <2>1, <1>b, LaneServed, PanicAssumption DEF LaneTypes
    <2>. QED
        BY <1>12, <2>2, <1>b DEF WorkerPanicBegins, LaneTypes
<1>13. CASE WorkerPanicEnds
    <2>1. worker.lane # <<>> /\ worker.lane \in Seq(LaneCalls)
        BY <1>13, <1>b, <1>f DEF WorkerPanicEnds, LaneTypes, LaneFits
    <2>2. Tail(worker.lane) \in Seq(LaneCalls) /\ Len(Tail(worker.lane)) <= MaxLane
        BY <2>1, <1>b, LaneServed, PanicAssumption DEF LaneTypes
    <2>. QED
        BY <1>13, <2>2, <1>b DEF WorkerPanicEnds, LaneTypes
<1>14. CASE WorkerUnlocks
    <2>1. worker.lane # <<>> /\ worker.lane \in Seq(LaneCalls)
        BY <1>14, <1>b DEF WorkerUnlocks, LaneTypes
    <2>2. Tail(worker.lane) \in Seq(LaneCalls) /\ Len(Tail(worker.lane)) <= MaxLane
        BY <2>1, <1>b, LaneServed, PanicAssumption DEF LaneTypes
    <2>. QED
        BY <1>14, <2>2, <1>b DEF WorkerUnlocks, LaneTypes
<1>15. ASSUME NEW t \in Tasks, Prepare(t) PROVE LaneTypes'
    BY <1>15, <1>b
    DEF Prepare, storeVars, LaneTypes
<1>16. ASSUME NEW t \in Tasks, Submit(t) PROVE LaneTypes'
    BY <1>16, <1>b
    DEF Submit, SubmitTask, storeVars, LaneTypes
<1>17. ASSUME NEW t \in Tasks, StartOperation(t) \/ EndOperation(t) PROVE LaneTypes'
    BY <1>17, <1>b
    DEF StartOperation, EndOperation, storeVars, LaneTypes
<1>18. ASSUME NEW t \in Tasks, NEW k \in Tokens, Claim(t, k) PROVE LaneTypes'
    BY <1>18, <1>b
    DEF Claim, ClaimNext, storeVars, LaneTypes
<1>19. ASSUME NEW t \in Tasks, NEW k \in Tokens, Finish(t, k) PROVE LaneTypes'
    BY <1>19, <1>b
    DEF Finish, CompleteTask, CloseRow, ClosedRow, storeVars, LaneTypes
<1>20. CASE RootWorks
    BY <1>20, <1>b
    DEF RootWorks, storeVars, LaneTypes
<1>21. CASE RootUnlocks
    BY <1>21, <1>b
    DEF RootUnlocks, storeVars, LaneTypes
<1>22. CASE Crash
    BY <1>22, <1>b, LaneOrphaned
    DEF Crash, storeVars, LaneTypes
<1>23. CASE Start
    BY <1>23, <1>b
    DEF Start, SynchronizePanicControls, storeVars, LaneTypes
<1>24. CASE UNCHANGED panicVars
    BY <1>24, <1>b
    DEF panicVars, storeVars, LaneTypes
<1>. QED
    BY <1>0, <1>1, <1>2, <1>3, <1>4, <1>5, <1>6, <1>7, <1>8, <1>9, <1>10, <1>11, <1>12, <1>13,
       <1>14, <1>15, <1>16, <1>17, <1>18, <1>19, <1>20, <1>21, <1>22, <1>23, <1>24
    DEF PanicNext

\* Every step keeps the requests in their type.
LEMMA ReqTypesStep ==
    PanicInv /\ [PanicNext]_panicVars => ReqTypes'
<1>0. SUFFICES ASSUME PanicInv, [PanicNext]_panicVars PROVE ReqTypes'
    OBVIOUS
<1>c. ReqTypes
    BY <1>0 DEF PanicInv, PanicTypeOK, PlanesFit, StoreTypes, VoiceTypes, PlaneTypes,
       LaneTypes, ReqTypes, RequestFits
<1>v. VoiceTypes
    BY <1>0 DEF PanicInv, PanicTypeOK, PlanesFit, StoreTypes, VoiceTypes, PlaneTypes,
       LaneTypes, ReqTypes, RequestFits
<1>1. ASSUME NEW p \in Requests, PanicBegins(p) PROVE ReqTypes'
    <2>1. PICK o \in Locks(voice), stored, sent \in BOOLEAN : req' = Started(p, [Idle EXCEPT
                !.stage = "panic", !.kind = "panic", !.fenced = o.ok /\ stored,
                !.quiet = stored /\ \A t \in VoiceTasks : row'[t].state \in {"absent"} \cup TerminalStates,
                !.root = IF Privileged THEN "sent" ELSE "quiesced",
                !.worker = Sent(sent)])
        BY <1>1 DEF PanicBegins
    <2>2. o.ok \in BOOLEAN
        BY <1>v, LocksLeave DEF VoiceTypes
    <2>3. [Idle EXCEPT
                !.stage = "panic", !.kind = "panic", !.fenced = o.ok /\ stored,
                !.quiet = stored /\ \A t \in VoiceTasks : row'[t].state \in {"absent"} \cup TerminalStates,
                !.root = IF Privileged THEN "sent" ELSE "quiesced",
                !.worker = Sent(sent)] \in Reqs
        BY <2>2 DEF Idle, Reqs, Sent
    <2>. QED
        BY <2>1, <2>3, <1>c, StartedTypes DEF ReqTypes
<1>2. ASSUME NEW p \in Requests, RootPanics(p) PROVE ReqTypes'
    BY <1>2, <1>c, <1>v
    DEF RootPanics, storeVars, ReqTypes, Reqs
<1>3. ASSUME NEW p \in Requests, PanicAnswers(p) PROVE ReqTypes'
    BY <1>3, <1>c, <1>v
    DEF PanicAnswers, Ended, Idle, storeVars, ReqTypes, Reqs
<1>4. ASSUME NEW p \in Requests, WorkerUnheard(p) PROVE ReqTypes'
    BY <1>4, <1>c, <1>v
    DEF WorkerUnheard, storeVars, ReqTypes, Reqs
<1>5. ASSUME NEW p \in Requests, UnlockBegins(p) PROVE ReqTypes'
    BY <1>5, <1>c, <1>v, StartedTypes
    DEF UnlockBegins, Idle, storeVars, ReqTypes, Reqs
<1>6. ASSUME NEW p \in Requests, UnlockSeesRoot(p) PROVE ReqTypes'
    <2>1. req' = [req EXCEPT ![p] = Idle]
          \/ req' = [req EXCEPT ![p].stage = "worker", ![p].worker = "sent"]
        BY <1>6, EndedNone DEF UnlockSeesRoot
    <2>. QED
        BY <2>1, <1>c, IdleIs DEF ReqTypes, Reqs
<1>7. ASSUME NEW p \in Requests, UnlockHearsWorker(p) PROVE ReqTypes'
    <2>1. req' = [req EXCEPT ![p] = Idle]
          \/ req' = [req EXCEPT ![p].stage = "health"]
        BY <1>7, EndedNone DEF UnlockHearsWorker
    <2>. QED
        BY <2>1, <1>c, IdleIs DEF ReqTypes, Reqs
<1>8. ASSUME NEW p \in Requests, UnlockSeesHealth(p) PROVE ReqTypes'
    BY <1>8, <1>c, <1>v
    DEF UnlockSeesHealth, CallsWorker, Reached, Sent, storeVars, ReqTypes, Reqs
<1>9. ASSUME NEW p \in Requests, UnlockSucceeds(p) PROVE ReqTypes'
    BY <1>9, <1>c, <1>v
    DEF UnlockSucceeds, Undone, Ended, Idle, UnlockPanic, storeVars, ReqTypes, Reqs
<1>10. ASSUME NEW p \in Requests, UnlockCompensates(p) PROVE ReqTypes'
    <2>1. PICK sent \in BOOLEAN :
             LET r == [req EXCEPT ![p].stage = "rollback", ![p].worker = Sent(sent)]
             IN  req' = r \/ req' = Undone(r)
        BY <1>10 DEF UnlockCompensates
    <2>2. ASSUME NEW g, g = [req EXCEPT ![p].stage = "rollback", ![p].worker = Sent(sent)]
          PROVE  g \in [Requests -> Reqs]
        <3> DEFINE w == Sent(sent)
        <3>1. w \in {"sent", "failed"}
            BY DEF Sent
        <3>2. g = [req EXCEPT ![p].stage = "rollback", ![p].worker = w]
            BY <2>2
        <3> HIDE DEF w
        <3>3. [req[p] EXCEPT !.stage = "rollback", !.worker = w] \in Reqs
            BY <3>1, <1>c, MovedIs DEF ReqTypes
        <3>4. g = [req EXCEPT ![p] = [req[p] EXCEPT !.stage = "rollback", !.worker = w]]
            BY <3>2, <1>c DEF ReqTypes
        <3>. QED
            BY <3>3, <3>4, <1>c DEF ReqTypes
    <2>. QED
        BY <2>1, <2>2, UndoneTypes DEF ReqTypes
<1>11. ASSUME NEW p \in Requests, RollbackEnds(p) PROVE ReqTypes'
    BY <1>11, <1>c, <1>v
    DEF RollbackEnds, Ended, Idle, storeVars, ReqTypes, Reqs
<1>12. CASE WorkerPanicBegins
    BY <1>12, <1>c, <1>v
    DEF WorkerPanicBegins, Answered, storeVars, ReqTypes, Reqs
<1>13. CASE WorkerPanicEnds
    BY <1>13, <1>c, <1>v
    DEF WorkerPanicEnds, Answered, storeVars, ReqTypes, Reqs
<1>14. CASE WorkerUnlocks
    BY <1>14, <1>c, <1>v
    DEF WorkerUnlocks, Answered, storeVars, ReqTypes, Reqs
<1>15. ASSUME NEW t \in Tasks, Prepare(t) PROVE ReqTypes'
    BY <1>15, <1>c, <1>v
    DEF Prepare, storeVars, ReqTypes, Reqs
<1>16. ASSUME NEW t \in Tasks, Submit(t) PROVE ReqTypes'
    BY <1>16, <1>c, <1>v
    DEF Submit, SubmitTask, storeVars, ReqTypes, Reqs
<1>17. ASSUME NEW t \in Tasks, StartOperation(t) \/ EndOperation(t) PROVE ReqTypes'
    BY <1>17, <1>c, <1>v
    DEF StartOperation, EndOperation, storeVars, ReqTypes, Reqs
<1>18. ASSUME NEW t \in Tasks, NEW k \in Tokens, Claim(t, k) PROVE ReqTypes'
    BY <1>18, <1>c, <1>v
    DEF Claim, ClaimNext, storeVars, ReqTypes, Reqs
<1>19. ASSUME NEW t \in Tasks, NEW k \in Tokens, Finish(t, k) PROVE ReqTypes'
    BY <1>19, <1>c, <1>v
    DEF Finish, CompleteTask, CloseRow, ClosedRow, storeVars, ReqTypes, Reqs
<1>20. CASE RootWorks
    BY <1>20, <1>c, <1>v
    DEF RootWorks, storeVars, ReqTypes, Reqs
<1>21. CASE RootUnlocks
    BY <1>21, <1>c, <1>v
    DEF RootUnlocks, Overlap, storeVars, ReqTypes, Reqs
<1>22. CASE Crash
    BY <1>22, <1>c, <1>v
    DEF Crash, Idle, storeVars, ReqTypes, Reqs
<1>23. CASE Start
    BY <1>23, <1>c, <1>v
    DEF Start, SynchronizePanicControls, storeVars, ReqTypes, Reqs
<1>24. CASE UNCHANGED panicVars
    BY <1>24, <1>c, <1>v
    DEF panicVars, storeVars, ReqTypes, Reqs
<1>. QED
    BY <1>0, <1>1, <1>2, <1>3, <1>4, <1>5, <1>6, <1>7, <1>8, <1>9, <1>10, <1>11, <1>12, <1>13,
       <1>14, <1>15, <1>16, <1>17, <1>18, <1>19, <1>20, <1>21, <1>22, <1>23, <1>24
    DEF PanicNext

Kept(x) ==
    /\ req'[x].stage = req[x].stage /\ req'[x].kind = req[x].kind
    /\ req'[x].fenced = req[x].fenced /\ req'[x].quiet = req[x].quiet
    /\ req'[x].root = req[x].root /\ req'[x].worker = req[x].worker
    /\ req'[x].said = req[x].said

\* all but root and worker
SameRequest(x) ==
    /\ req'[x].stage = req[x].stage /\ req'[x].kind = req[x].kind
    /\ req'[x].fenced = req[x].fenced /\ req'[x].quiet = req[x].quiet
    /\ req'[x].said = req[x].said /\ req'[x].since = req[x].since

IsIdle(r) ==
    /\ r.stage = "idle" /\ ~r.fenced /\ ~r.quiet /\ r.root = "none" /\ r.worker = "none"

Overlapped(x) ==
    /\ Kept(x)
    /\ req'[x].since = req[x].since \/ (req[x].since = "clean" /\ req'[x].since = "mixed")

\* What a panic has done when its first await is reached.
LEMMA PanicBeginsDoes ==
    ASSUME VoiceTypes, StoreTypes, LaneTypes, ReqTypes, NEW p \in Requests, PanicBegins(p)
    PROVE  /\ up /\ ~Flying(p)
           /\ req'[p].stage = "panic" /\ req'[p].kind = "panic" /\ req'[p].said = "none"
           /\ req'[p].fenced => voice'.file # "open" /\ locked'
           /\ req'[p].fenced /\ req'[p].quiet => Quiesced'
           /\ req'[p].root = "sent" \/ (req'[p].root = "quiesced" /\ ~Privileged)
           /\ \/ req'[p].worker = "sent" /\ worker' = [worker EXCEPT !.lane = Joined(p, "panic")]
              \/ req'[p].worker = "failed" /\ worker' = worker
           /\ req'[p].since = "clean" => \A q \in Requests : ~Unlocking(q)
           /\ \A x \in Requests \ {p} :
                 Overlapped(x) /\ (Unlocking(x) => req'[x].since # "clean")
           /\ Quiesced => Quiesced'
           /\ voice.file # "open" => voice'.file # "open"
           /\ locked => locked'
           /\ UNCHANGED <<up, op, root>>
<1>0. ReqTypes
    OBVIOUS
<1>1. PICK o \in Locks(voice), stored \in BOOLEAN, sent \in BOOLEAN :
         /\ voice' = o.v
         /\ IF stored THEN PanicStore ELSE UNCHANGED storeVars
         /\ CallsWorker(p, "panic", sent)
         /\ req' = Started(p, [Idle EXCEPT
                !.stage = "panic", !.kind = "panic", !.fenced = o.ok /\ stored,
                !.quiet = stored /\ \A t \in VoiceTasks : row'[t].state \in {"absent"} \cup TerminalStates,
                !.root = IF Privileged THEN "sent" ELSE "quiesced",
                !.worker = Sent(sent)])
    BY DEF PanicBegins
<1> DEFINE r == [Idle EXCEPT
                !.stage = "panic", !.kind = "panic", !.fenced = o.ok /\ stored,
                !.quiet = stored /\ \A t \in VoiceTasks : row'[t].state \in {"absent"} \cup TerminalStates,
                !.root = IF Privileged THEN "sent" ELSE "quiesced",
                !.worker = Sent(sent)]
<1>2. /\ o.ok \in BOOLEAN /\ (o.ok => o.v.file # "open")
      /\ voice.file # "open" => o.v.file # "open"
    BY LocksLeave DEF VoiceTypes
<1>3. r \in Reqs
    BY <1>2 DEF Idle, Reqs, Sent
<1>4. /\ r.stage = "panic" /\ r.kind = "panic" /\ r.said = "none"
      /\ r.fenced => o.ok /\ stored
      /\ r.quiet => \A t \in VoiceTasks : row'[t].state \in {"absent"} \cup TerminalStates
      /\ r.root = IF Privileged THEN "sent" ELSE "quiesced"
      /\ r.worker = Sent(sent)
    BY <1>2 DEF Idle, Sent
<1>5. req' = Started(p, r)
    BY <1>1
<1> HIDE DEF r
<1>6. /\ req'[p].stage = "panic" /\ req'[p].kind = "panic" /\ req'[p].said = "none"
      /\ req'[p].fenced = r.fenced /\ req'[p].quiet = r.quiet
      /\ req'[p].root = r.root /\ req'[p].worker = r.worker
      /\ req'[p].since = "clean" => \A q \in Requests : ~Unlocking(q)
    BY <1>0, <1>3, <1>4, <1>5, StartedSelf DEF ReqTypes
<1>7. ASSUME NEW x \in Requests \ {p}
      PROVE  Overlapped(x) /\ (Unlocking(x) => req'[x].since # "clean")
    BY <1>0, <1>3, <1>4, <1>5, StartedOther DEF ReqTypes, Overlapped, Kept
<1>8. stored => locked' = TRUE
    BY <1>1 DEF PanicStore
<1>9. Quiesced => Quiesced'
    BY <1>1, PanickedRows DEF StoreTypes, storeVars, Quiesced
<1>10. \/ r.worker = "sent" /\ worker' = [worker EXCEPT !.lane = Joined(p, "panic")]
       \/ r.worker = "failed" /\ worker' = worker
    BY <1>1, <1>4 DEF CallsWorker, Reached, Joined, Sent
<1>11. r.root = "sent" \/ (r.root = "quiesced" /\ ~Privileged)
    BY <1>4
<1>12. (r.fenced => voice'.file # "open" /\ locked') /\ (r.quiet => Quiesced')
    BY <1>1, <1>2, <1>4, <1>8 DEF Quiesced
<1>13. (voice.file # "open" => voice'.file # "open") /\ (locked => locked')
    BY <1>1, <1>2 DEF PanicStore, storeVars
<1> QED
    BY <1>6, <1>7, <1>9, <1>10, <1>11, <1>12, <1>13 DEF PanicBegins

\* What the beginning of an unlock does to the requests.
LEMMA UnlockBeginsDoes ==
    ASSUME ReqTypes, NEW p \in Requests, UnlockBegins(p)
    PROVE  /\ up /\ ~Flying(p) /\ Quiesced
           /\ req'[p].stage = "root" /\ req'[p].kind = "unlock" /\ req'[p].said = "none"
           /\ req'[p].worker = "none"
           /\ req'[p].since = "clean" => \A q \in Requests : ~Flying(q)
           /\ \A x \in Requests \ {p} :
                 Overlapped(x) /\ (req[x].kind # "none" => req'[x].since # "clean")
<1> DEFINE r == [Idle EXCEPT !.stage = "root", !.kind = "unlock"]
<1>0. ReqTypes
    OBVIOUS
<1>1. r \in Reqs /\ r.stage = "root" /\ r.kind = "unlock" /\ r.said = "none" /\ r.worker = "none"
    BY DEF Idle, Reqs
<1>2. req' = Started(p, r)
    BY DEF UnlockBegins
<1> HIDE DEF r
<1>3. /\ req'[p].stage = "root" /\ req'[p].kind = "unlock" /\ req'[p].said = "none"
      /\ req'[p].worker = "none"
      /\ req'[p].since = "clean" => \A q \in Requests : ~Flying(q)
    BY <1>0, <1>1, <1>2, StartedSelf DEF ReqTypes
<1>4. ASSUME NEW x \in Requests \ {p}
      PROVE  Overlapped(x) /\ (req[x].kind # "none" => req'[x].since # "clean")
    BY <1>0, <1>1, <1>2, StartedOther DEF ReqTypes, Overlapped, Kept
<1> QED
    BY <1>3, <1>4 DEF UnlockBegins

\* The commit of an unlock undoes every panic there is.
LEMMA UnlockSucceedsDoes ==
    ASSUME ReqTypes, NEW p \in Requests, UnlockSucceeds(p)
    PROVE  /\ req[p].stage = "commit"
           /\ IsIdle(req'[p]) /\ req'[p].kind = "none" /\ req'[p].said = "none"
           /\ \A x \in Requests \ {p} :
                 Kept(x) /\ (req[x].kind # "none" => req'[x].since = "undone")
           /\ row' = row
<1> DEFINE f == [req EXCEPT ![p] = Idle]
<1>0. ReqTypes
    OBVIOUS
<1>1. f \in [Requests -> Reqs] /\ f[p] = Idle /\ \A x \in Requests \ {p} : f[x] = req[x]
    BY <1>0, IdleIs DEF ReqTypes
<1>2. req' = Undone(f)
    BY EndedNone DEF UnlockSucceeds
<1> HIDE DEF f
<1>3. IsIdle(req'[p]) /\ req'[p].kind = "none" /\ req'[p].said = "none"
    BY <1>1, <1>2, UndoneIs, IdleIs DEF IsIdle
<1>4. ASSUME NEW x \in Requests \ {p}
      PROVE  Kept(x) /\ (req[x].kind # "none" => req'[x].since = "undone")
    BY <1>1, <1>2, UndoneIs DEF Kept
<1> QED
    BY <1>3, <1>4 DEF UnlockSucceeds, UnlockPanic

\* A compensation keeps one of the two locks, or undoes every panic there is.
LEMMA UnlockCompensatesDoes ==
    ASSUME VoiceTypes, ReqTypes, NEW p \in Requests, UnlockCompensates(p)
    PROVE  /\ req[p].stage = "commit" /\ req'[p].stage = "rollback"
           /\ req'[p].kind = req[p].kind /\ req'[p].fenced = req[p].fenced
           /\ req'[p].quiet = req[p].quiet /\ req'[p].root = req[p].root
           /\ req'[p].said = req[p].said
           /\ \/ req'[p].worker = "sent" /\ worker' = [worker EXCEPT !.lane = Joined(p, "panic")]
              \/ req'[p].worker = "failed" /\ worker' = worker
           /\ \A x \in Requests \ {p} : Kept(x)
           /\ \/ /\ \A x \in Requests : req'[x].since = req[x].since
                 /\ voice.file # "open" \/ locked => voice'.file # "open" \/ locked'
              \/ \A x \in Requests : req[x].kind # "none" => req'[x].since = "undone"
<1>0. ReqTypes /\ VoiceTypes
    OBVIOUS
<1>1. PICK threw \in BOOLEAN, stored \in BOOLEAN, sent \in BOOLEAN :
          /\ \E v \in IF threw THEN {voice} ELSE {o.v : o \in {u \in Unlocks(voice) : ~u.ok}} :
                \E o \in Locks(v) : voice' = o.v
          /\ \/ stored /\ PanicStore
             \/ /\ ~stored
                /\ locked' = (locked /\ threw)
                /\ UNCHANGED <<row, reserved, snap>>
          /\ CallsWorker(p, "panic", sent)
          /\ LET r == [req EXCEPT ![p].stage = "rollback", ![p].worker = Sent(sent)]
             IN  req' = IF ~threw /\ ~stored THEN Undone(r) ELSE r
    BY DEF UnlockCompensates
<1> DEFINE w == Sent(sent)
           f == [req EXCEPT ![p].stage = "rollback", ![p].worker = w]
<1>2. req' = f \/ (req' = Undone(f) /\ ~threw /\ ~stored)
    BY <1>1
<1>3. \/ w = "sent" /\ worker' = [worker EXCEPT !.lane = Joined(p, "panic")]
      \/ w = "failed" /\ worker' = worker
    BY <1>1 DEF CallsWorker, Reached, Joined, Sent
<1>4. req' = f => (voice.file # "open" \/ locked => voice'.file # "open" \/ locked') \/ req' = Undone(f)
    <2>1. CASE threw
        <3>1. PICK o \in Locks(voice) : voice' = o.v
            BY <1>1, <2>1
        <3>2. voice.file # "open" => voice'.file # "open"
            BY <3>1, LocksLeave DEF VoiceTypes
        <3>3. locked => locked'
            BY <1>1, <2>1 DEF PanicStore
        <3> QED
            BY <3>2, <3>3
    <2>2. CASE stored
        BY <1>1, <2>2 DEF PanicStore
    <2>3. CASE ~threw /\ ~stored
        BY <1>1, <2>3
    <2> QED
        BY <2>1, <2>2, <2>3
<1>5. w \in {"sent", "failed"}
    BY <1>3
<1> HIDE DEF w
<1>6. [req[p] EXCEPT !.stage = "rollback", !.worker = w] \in Reqs
    BY <1>0, <1>5, MovedIs DEF ReqTypes
<1>7. f = [req EXCEPT ![p] = [req[p] EXCEPT !.stage = "rollback", !.worker = w]]
    BY <1>0 DEF ReqTypes
<1>8. f \in [Requests -> Reqs]
    BY <1>0, <1>6, <1>7 DEF ReqTypes
<1>9. /\ f[p].stage = "rollback" /\ f[p].worker = w
      /\ f[p].kind = req[p].kind /\ f[p].fenced = req[p].fenced /\ f[p].quiet = req[p].quiet
      /\ f[p].root = req[p].root /\ f[p].said = req[p].said /\ f[p].since = req[p].since
      /\ \A x \in Requests \ {p} : f[x] = req[x]
    BY <1>0 DEF ReqTypes, Reqs
<1> HIDE DEF f
<1>10. /\ req'[p].stage = "rollback" /\ req'[p].worker = w
       /\ req'[p].kind = req[p].kind /\ req'[p].fenced = req[p].fenced
       /\ req'[p].quiet = req[p].quiet /\ req'[p].root = req[p].root
       /\ req'[p].said = req[p].said
       /\ \A x \in Requests \ {p} : Kept(x)
    BY <1>2, <1>8, <1>9, UndoneIs DEF Kept
<1>11. \A x \in Requests : f[x].since = req[x].since /\ f[x].kind = req[x].kind
    BY <1>9
<1>12. req' = Undone(f) => \A x \in Requests : req[x].kind # "none" => req'[x].since = "undone"
    BY <1>8, <1>11, UndoneIs
<1> QED
    BY <1>2, <1>3, <1>4, <1>10, <1>11, <1>12 DEF UnlockCompensates

\* The answer of a panic is what its request has heard.
LEMMA PanicAnswersDoes ==
    ASSUME ReqTypes, NEW p \in Requests, PanicAnswers(p)
    PROVE  /\ req[p].stage = "panic"
           /\ IsIdle(req'[p])
           /\ \/ req'[p].kind = "none" /\ req'[p].said = "none"
              \/ /\ req'[p].kind = "panic" /\ req'[p].since = req[p].since
                 /\ req[p].fenced /\ req[p].worker \in {"accepted", "quiesced", "none"}
                 /\ \/ req'[p].said = "accepted"
                    \/ /\ req'[p].said = "stopped"
                       /\ req[p].quiet /\ req[p].root = "quiesced" /\ req[p].worker = "quiesced"
           /\ \A x \in Requests \ {p} : Kept(x) /\ req'[x].since = req[x].since
<1> USE DEF Kept
<1>0. ReqTypes
    OBVIOUS
<1> DEFINE accepted == req[p].fenced /\ req[p].root # "failed" /\ req[p].worker # "failed"
           quiesced == req[p].quiet /\ req[p].root = "quiesced" /\ req[p].worker = "quiesced"
<1>1. /\ req[p].stage = "panic" /\ req[p].worker # "sent"
      /\ req' = Ended(p, IF ~accepted THEN "none" ELSE IF ~quiesced THEN "accepted" ELSE "stopped")
    BY DEF PanicAnswers
<1>2. accepted => req[p].fenced /\ req[p].worker \in {"accepted", "quiesced", "none"}
    BY <1>0, <1>1 DEF ReqTypes, Reqs
<1>3. CASE ~accepted
    <2>1. req' = [req EXCEPT ![p] = Idle]
        BY <1>1, <1>3, EndedNone
    <2> QED
        BY <2>1, <1>0, <1>1, IdleIs DEF ReqTypes, IsIdle
<1>4. CASE accepted
    <2>1. PICK said \in {"accepted", "stopped"} :
             req' = Ended(p, said) /\ (said = "stopped" => quiesced)
        BY <1>1, <1>4
    <2>2. PICK r \in Reqs :
              /\ req' = [req EXCEPT ![p] = r]
              /\ r.stage = "idle" /\ r.kind = "panic" /\ ~r.fenced /\ ~r.quiet
              /\ r.root = "none" /\ r.worker = "none" /\ r.said = said /\ r.since = req[p].since
        BY <1>0, <2>1, EndedSaid
    <2>3. req'[p] = r /\ \A x \in Requests \ {p} : req'[x] = req[x]
        BY <1>0, <2>2 DEF ReqTypes
    <2> QED
        BY <1>1, <1>2, <1>4, <2>1, <2>2, <2>3 DEF IsIdle
<1> QED
    BY <1>3, <1>4

\* What a call to the root broker does to its request.
LEMMA RootPanicsDoes ==
    ASSUME PlaneTypes, ReqTypes, NEW p \in Requests, RootPanics(p)
    PROVE  /\ req[p].root = "sent"
           /\ SameRequest(p) /\ req'[p].worker = req[p].worker
           /\ req'[p].root = "quiesced" => ~root'.busy /\ root'.locked
           /\ root'.busy = root.busy /\ (root.locked => root'.locked)
           /\ \A x \in Requests \ {p} : req'[x] = req[x]
BY DEF RootPanics, PlaneTypes, ReqTypes, Reqs, SameRequest

\* What a worker call that timed out does to its request.
LEMMA WorkerUnheardDoes ==
    ASSUME ReqTypes, NEW p \in Requests, WorkerUnheard(p)
    PROVE  /\ req[p].worker = "sent"
           /\ SameRequest(p) /\ req'[p].root = req[p].root /\ req'[p].worker = "failed"
           /\ \A x \in Requests \ {p} : req'[x] = req[x]
BY DEF WorkerUnheard, ReqTypes, Reqs, SameRequest

\* What the look at the root broker does to an unlock.
LEMMA UnlockSeesRootDoes ==
    ASSUME ReqTypes, NEW p \in Requests, UnlockSeesRoot(p)
    PROVE  /\ req[p].stage = "root"
           /\ \/ req'[p] = Idle /\ worker' = worker
              \/ /\ req'[p].stage = "worker" /\ req'[p].worker = "sent"
                 /\ req'[p].kind = req[p].kind /\ req'[p].fenced = req[p].fenced
                 /\ req'[p].quiet = req[p].quiet /\ req'[p].root = req[p].root
                 /\ req'[p].said = req[p].said /\ req'[p].since = req[p].since
                 /\ worker' = [worker EXCEPT !.lane = Joined(p, "unlock")]
           /\ \A x \in Requests \ {p} : req'[x] = req[x]
<1>0. ReqTypes
    OBVIOUS
<1>1. CASE req' = [req EXCEPT ![p].stage = "worker", ![p].worker = "sent"] /\ Reached(p, "unlock")
    BY <1>0, <1>1 DEF UnlockSeesRoot, ReqTypes, Reqs, Reached, Joined
<1>2. CASE req' = [req EXCEPT ![p] = Idle] /\ worker' = worker
    BY <1>0, <1>2 DEF UnlockSeesRoot, ReqTypes
<1> QED
    BY <1>1, <1>2, EndedNone DEF UnlockSeesRoot

\* What the worker's answer does to an unlock.
LEMMA UnlockHearsWorkerDoes ==
    ASSUME ReqTypes, NEW p \in Requests, UnlockHearsWorker(p)
    PROVE  /\ req[p].stage = "worker" /\ req[p].worker # "sent"
           /\ \/ req'[p] = Idle
              \/ /\ req'[p].stage = "health" /\ req'[p].worker = req[p].worker
                 /\ req'[p].kind = req[p].kind /\ req'[p].fenced = req[p].fenced
                 /\ req'[p].quiet = req[p].quiet /\ req'[p].root = req[p].root
                 /\ req'[p].said = req[p].said /\ req'[p].since = req[p].since
           /\ \A x \in Requests \ {p} : req'[x] = req[x]
<1>0. ReqTypes
    OBVIOUS
<1>1. CASE req' = [req EXCEPT ![p].stage = "health"]
    BY <1>0, <1>1 DEF UnlockHearsWorker, ReqTypes, Reqs
<1>2. CASE req' = [req EXCEPT ![p] = Idle]
    BY <1>0, <1>2 DEF UnlockHearsWorker, ReqTypes
<1> QED
    BY <1>1, <1>2, EndedNone DEF UnlockHearsWorker

\* What the look at the worker's health does to an unlock.
LEMMA UnlockSeesHealthDoes ==
    ASSUME ReqTypes, NEW p \in Requests, UnlockSeesHealth(p)
    PROVE  /\ req[p].stage = "health"
           /\ \/ /\ req'[p].stage = "commit" /\ req'[p].worker = req[p].worker
                 /\ worker' = worker
              \/ /\ req'[p].stage = "rollback" /\ req'[p].worker = "sent"
                 /\ worker' = [worker EXCEPT !.lane = Joined(p, "panic")]
              \/ /\ req'[p].stage = "rollback" /\ req'[p].worker = "failed"
                 /\ worker' = worker
           /\ req'[p].kind = req[p].kind /\ req'[p].fenced = req[p].fenced
           /\ req'[p].quiet = req[p].quiet /\ req'[p].root = req[p].root
           /\ req'[p].said = req[p].said /\ req'[p].since = req[p].since
           /\ \A x \in Requests \ {p} : req'[x] = req[x]
BY DEF UnlockSeesHealth, ReqTypes, Reqs, CallsWorker, Reached, Sent, Joined

\* What the end of a rollback does to an unlock.
LEMMA RollbackEndsDoes ==
    ASSUME ReqTypes, NEW p \in Requests, RollbackEnds(p)
    PROVE  /\ req[p].stage = "rollback" /\ req[p].worker # "sent"
           /\ req'[p] = Idle
           /\ \A x \in Requests \ {p} : req'[x] = req[x]
BY EndedNone DEF RollbackEnds, ReqTypes

\* the answer to the head of the lane
LEMMA AnsweredDoes ==
    ASSUME LaneTypes, ReqTypes, LaneFits, worker.lane # <<>>,
           NEW a \in {"failed", "accepted", "quiesced"}, Answered(a)
    PROVE  LET q == worker.lane[1].by IN
           /\ q \in Requests =>
                 /\ req[q].worker = "sent"
                 /\ SameRequest(q) /\ req'[q].root = req[q].root /\ req'[q].worker = a
           /\ \A x \in Requests : x # q => req'[x] = req[x]
<1>0. ReqTypes
    OBVIOUS
<1>1. /\ Head(worker.lane) = worker.lane[1] /\ 1 \in DOMAIN worker.lane
    BY LaneServed DEF LaneTypes
<1>2. LET q == worker.lane[1].by IN
      req' = IF q \in Requests THEN [req EXCEPT ![q].worker = a] ELSE req
    BY <1>1 DEF Answered
<1>3. worker.lane[1].by \in Requests => req[worker.lane[1].by].worker = "sent"
    BY <1>1 DEF LaneFits
<1> QED
    BY <1>0, <1>2, <1>3 DEF ReqTypes, Reqs, SameRequest

\* A step of the worker's control handlers answers the head of the lane at most,
\* with success only behind the fence and with "quiesced" only without a run.
LEMMA WorkerAnswersDoes ==
    ASSUME LaneTypes, ReqTypes, LaneFits, WorkerPanicBegins \/ WorkerPanicEnds \/ WorkerUnlocks,
           NEW x \in Requests
    PROVE  \/ req'[x] = req[x]
           \/ /\ x = worker.lane[1].by /\ worker.lane # <<>>
              /\ worker'.lane = Tail(worker.lane)
              /\ req[x].worker = "sent"
              /\ SameRequest(x) /\ req'[x].root = req[x].root
              /\ req'[x].worker \in {"failed", "accepted", "quiesced"}
              /\ req'[x].worker # "failed" => worker'.fence \/ worker.lane[1].kind = "unlock"
              /\ req'[x].worker = "quiesced" => op = {}
<1>0. LaneTypes /\ ReqTypes /\ LaneFits
    OBVIOUS
<1>1. CASE UNCHANGED req
    BY <1>1
<1>2. ASSUME NEW a \in {"failed", "accepted", "quiesced"}, Answered(a),
             worker.lane # <<>>, worker'.lane = Tail(worker.lane),
             a # "failed" => worker'.fence \/ worker.lane[1].kind = "unlock",
             a = "quiesced" => op = {}
      PROVE  \/ req'[x] = req[x]
             \/ /\ x = worker.lane[1].by /\ worker.lane # <<>>
                /\ worker'.lane = Tail(worker.lane)
                /\ req[x].worker = "sent"
                /\ SameRequest(x) /\ req'[x].root = req[x].root
                /\ req'[x].worker \in {"failed", "accepted", "quiesced"}
                /\ req'[x].worker # "failed" => worker'.fence \/ worker.lane[1].kind = "unlock"
                /\ req'[x].worker = "quiesced" => op = {}
    BY <1>0, <1>2, AnsweredDoes
<1>3. CASE WorkerPanicBegins
    <2>1. UNCHANGED req \/ (Answered("failed") /\ worker.lane # <<>> /\ worker'.lane = Tail(worker.lane))
        BY <1>0, <1>3 DEF WorkerPanicBegins, LaneTypes
    <2> QED
        BY <1>1, <1>2, <2>1
<1>4. CASE WorkerPanicEnds
    <2>1. worker.lane # <<>> /\ worker'.lane = Tail(worker.lane) /\ worker'.fence
        BY <1>0, <1>4 DEF WorkerPanicEnds, LaneFits, LaneTypes
    <2>2. PICK a \in {"failed", "accepted"} \cup (IF op = {} THEN {"quiesced"} ELSE {}) : Answered(a)
        BY <1>4 DEF WorkerPanicEnds
    <2> QED
        BY <1>2, <2>1, <2>2
<1>5. CASE WorkerUnlocks
    <2>1. worker.lane # <<>> /\ worker'.lane = Tail(worker.lane) /\ worker.lane[1].kind = "unlock"
        BY <1>0, <1>5, LaneServed DEF WorkerUnlocks, LaneTypes
    <2>2. Answered("failed") \/ (Answered("quiesced") /\ op = {})
        BY <1>5 DEF WorkerUnlocks
    <2> QED
        BY <1>2, <2>1, <2>2
<1> QED
    BY <1>3, <1>4, <1>5

\* An unlock at the root broker taints every request.
LEMMA RootUnlocksDoes ==
    ASSUME ReqTypes, RootUnlocks, NEW x \in Requests
    PROVE  Overlapped(x) /\ (req[x].kind # "none" => req'[x].since # "clean")
BY PanicAssumption DEF RootUnlocks, Overlap, ReqTypes, Reqs, Overlapped, Kept, Idle

\* A crash forgets the requests in flight and keeps what others were told.
LEMMA CrashDoes ==
    ASSUME ReqTypes, Crash, NEW x \in Requests
    PROVE  req'[x] = IF Flying(x) THEN Idle ELSE req[x]
BY DEF Crash, ReqTypes

\* Every step keeps a request's fields true to its stage.
LEMMA StageStep ==
    PanicInv /\ [PanicNext]_panicVars => \A x \in Requests : StageFits(x)'
<1>0. SUFFICES ASSUME PanicInv, [PanicNext]_panicVars, NEW x \in Requests PROVE StageFits(x)'
    OBVIOUS
<1>s. StoreTypes
    BY <1>0 DEF PanicInv, PanicTypeOK, PlanesFit, StoreTypes, VoiceTypes, PlaneTypes,
       LaneTypes, ReqTypes, RequestFits
<1>v. VoiceTypes
    BY <1>0 DEF PanicInv, PanicTypeOK, PlanesFit, StoreTypes, VoiceTypes, PlaneTypes,
       LaneTypes, ReqTypes, RequestFits
<1>b. LaneTypes
    BY <1>0 DEF PanicInv, PanicTypeOK, PlanesFit, StoreTypes, VoiceTypes, PlaneTypes,
       LaneTypes, ReqTypes, RequestFits
<1>c. ReqTypes
    BY <1>0 DEF PanicInv, PanicTypeOK, PlanesFit, StoreTypes, VoiceTypes, PlaneTypes,
       LaneTypes, ReqTypes, RequestFits
<1>a. PlaneTypes
    BY <1>0 DEF PanicInv, PanicTypeOK, PlanesFit, StoreTypes, VoiceTypes, PlaneTypes,
       LaneTypes, ReqTypes, RequestFits
<1>l. LaneFits
    BY <1>0 DEF PanicInv, PanicTypeOK, PlanesFit, StoreTypes, VoiceTypes, PlaneTypes,
       LaneTypes, ReqTypes, RequestFits
<1>g. StageFits(x)
    BY <1>0 DEF PanicInv, PanicTypeOK, PlanesFit, StoreTypes, VoiceTypes, PlaneTypes,
       LaneTypes, ReqTypes, RequestFits
<1>1. ASSUME NEW p \in Requests, PanicBegins(p) PROVE StageFits(x)'
    BY <1>1, <1>s, <1>v, <1>b, <1>c, <1>g, PanicBeginsDoes
    DEF Kept, Overlapped, StageFits, ReqTypes
<1>2. ASSUME NEW p \in Requests, RootPanics(p) PROVE StageFits(x)'
    BY <1>2, <1>c, <1>a, <1>g, RootPanicsDoes
    DEF SameRequest, StageFits, ReqTypes
<1>3. ASSUME NEW p \in Requests, PanicAnswers(p) PROVE StageFits(x)'
    BY <1>3, <1>c, <1>g, PanicAnswersDoes
    DEF Kept, IsIdle, StageFits, ReqTypes
<1>4. ASSUME NEW p \in Requests, WorkerUnheard(p) PROVE StageFits(x)'
    BY <1>4, <1>c, <1>g, WorkerUnheardDoes
    DEF SameRequest, StageFits, ReqTypes
<1>5. ASSUME NEW p \in Requests, UnlockBegins(p) PROVE StageFits(x)'
    BY <1>5, <1>c, <1>g, UnlockBeginsDoes
    DEF Kept, Overlapped, StageFits, ReqTypes
<1>6. ASSUME NEW p \in Requests, UnlockSeesRoot(p) PROVE StageFits(x)'
    BY <1>6, <1>c, <1>g, UnlockSeesRootDoes, IdleIs
    DEF StageFits, ReqTypes
<1>7. ASSUME NEW p \in Requests, UnlockHearsWorker(p) PROVE StageFits(x)'
    BY <1>7, <1>c, <1>g, UnlockHearsWorkerDoes, IdleIs
    DEF StageFits, ReqTypes
<1>8. ASSUME NEW p \in Requests, UnlockSeesHealth(p) PROVE StageFits(x)'
    BY <1>8, <1>c, <1>g, UnlockSeesHealthDoes
    DEF StageFits, ReqTypes
<1>9. ASSUME NEW p \in Requests, UnlockSucceeds(p) PROVE StageFits(x)'
    BY <1>9, <1>c, <1>g, UnlockSucceedsDoes
    DEF Kept, IsIdle, StageFits, ReqTypes
<1>10. ASSUME NEW p \in Requests, UnlockCompensates(p) PROVE StageFits(x)'
    BY <1>10, <1>v, <1>c, <1>g, UnlockCompensatesDoes
    DEF Kept, StageFits, ReqTypes
<1>11. ASSUME NEW p \in Requests, RollbackEnds(p) PROVE StageFits(x)'
    BY <1>11, <1>c, <1>g, RollbackEndsDoes, IdleIs
    DEF StageFits, ReqTypes
<1>12. CASE WorkerPanicBegins
    BY <1>12, <1>b, <1>c, <1>l, <1>g, WorkerAnswersDoes
    DEF SameRequest, StageFits, ReqTypes
<1>13. CASE WorkerPanicEnds
    BY <1>13, <1>b, <1>c, <1>l, <1>g, WorkerAnswersDoes
    DEF SameRequest, StageFits, ReqTypes
<1>14. CASE WorkerUnlocks
    BY <1>14, <1>b, <1>c, <1>l, <1>g, WorkerAnswersDoes
    DEF SameRequest, StageFits, ReqTypes
<1>15. ASSUME NEW t \in Tasks, Prepare(t) PROVE StageFits(x)'
    BY <1>15, <1>g
    DEF Prepare, storeVars, StageFits, ReqTypes
<1>16. ASSUME NEW t \in Tasks, Submit(t) PROVE StageFits(x)'
    BY <1>16, <1>g
    DEF Submit, SubmitTask, storeVars, StageFits, ReqTypes
<1>17. ASSUME NEW t \in Tasks, StartOperation(t) \/ EndOperation(t) PROVE StageFits(x)'
    BY <1>17, <1>g
    DEF StartOperation, EndOperation, storeVars, StageFits, ReqTypes
<1>18. ASSUME NEW t \in Tasks, NEW k \in Tokens, Claim(t, k) PROVE StageFits(x)'
    BY <1>18, <1>g
    DEF Claim, ClaimNext, storeVars, StageFits, ReqTypes
<1>19. ASSUME NEW t \in Tasks, NEW k \in Tokens, Finish(t, k) PROVE StageFits(x)'
    BY <1>19, <1>g
    DEF Finish, CompleteTask, CloseRow, ClosedRow, storeVars, StageFits, ReqTypes
<1>20. CASE RootWorks
    BY <1>20, <1>g
    DEF RootWorks, storeVars, StageFits, ReqTypes
<1>21. CASE RootUnlocks
    BY <1>21, <1>c, <1>g, RootUnlocksDoes
    DEF Kept, Overlapped, StageFits, ReqTypes
<1>22. CASE Crash
    BY <1>22, <1>c, <1>g, CrashDoes, IdleIs
    DEF StageFits, ReqTypes
<1>23. CASE Start
    BY <1>23, <1>g
    DEF Start, SynchronizePanicControls, storeVars, StageFits, ReqTypes
<1>24. CASE UNCHANGED panicVars
    BY <1>24, <1>g
    DEF panicVars, storeVars, StageFits, ReqTypes
<1>. QED
    BY <1>0, <1>1, <1>2, <1>3, <1>4, <1>5, <1>6, <1>7, <1>8, <1>9, <1>10, <1>11, <1>12, <1>13,
       <1>14, <1>15, <1>16, <1>17, <1>18, <1>19, <1>20, <1>21, <1>22, <1>23, <1>24
    DEF PanicNext

\* Under the lock of the queue no step makes a quiet queue busy.
LEMMA QuietStep ==
    PanicInv /\ [PanicNext]_panicVars => (locked /\ Quiesced => Quiesced')
<1>0. SUFFICES ASSUME PanicInv, [PanicNext]_panicVars PROVE locked /\ Quiesced => Quiesced'
    OBVIOUS
<1>s. StoreTypes
    BY <1>0 DEF PanicInv, PanicTypeOK, PlanesFit, StoreTypes, VoiceTypes, PlaneTypes,
       LaneTypes, ReqTypes, RequestFits
<1>1. ASSUME NEW p \in Requests, PanicBegins(p) PROVE locked /\ Quiesced => Quiesced'
    <2>1. PanicStore \/ UNCHANGED storeVars
        BY <1>1 DEF PanicBegins
    <2>. QED
        BY <2>1, <1>s, PanickedRows DEF StoreTypes, storeVars, Quiesced
<1>2. ASSUME NEW p \in Requests, RootPanics(p) PROVE locked /\ Quiesced => Quiesced'
    BY <1>2, <1>s
    DEF RootPanics, storeVars, Quiesced
<1>3. ASSUME NEW p \in Requests, PanicAnswers(p) PROVE locked /\ Quiesced => Quiesced'
    BY <1>3, <1>s
    DEF PanicAnswers, Ended, Idle, storeVars, Quiesced
<1>4. ASSUME NEW p \in Requests, WorkerUnheard(p) PROVE locked /\ Quiesced => Quiesced'
    BY <1>4, <1>s
    DEF WorkerUnheard, storeVars, Quiesced
<1>5. ASSUME NEW p \in Requests, UnlockBegins(p) PROVE locked /\ Quiesced => Quiesced'
    BY <1>5, <1>s
    DEF UnlockBegins, storeVars, Quiesced
<1>6. ASSUME NEW p \in Requests, UnlockSeesRoot(p) PROVE locked /\ Quiesced => Quiesced'
    BY <1>6, <1>s
    DEF UnlockSeesRoot, Ended, Idle, Reached, storeVars, Quiesced
<1>7. ASSUME NEW p \in Requests, UnlockHearsWorker(p) PROVE locked /\ Quiesced => Quiesced'
    BY <1>7, <1>s
    DEF UnlockHearsWorker, Ended, Idle, storeVars, Quiesced
<1>8. ASSUME NEW p \in Requests, UnlockSeesHealth(p) PROVE locked /\ Quiesced => Quiesced'
    BY <1>8, <1>s
    DEF UnlockSeesHealth, CallsWorker, Reached, Sent, storeVars, Quiesced
<1>9. ASSUME NEW p \in Requests, UnlockSucceeds(p) PROVE locked /\ Quiesced => Quiesced'
    BY <1>9, <1>s
    DEF UnlockSucceeds, Undone, Ended, Idle, UnlockPanic, storeVars, Quiesced
<1>10. ASSUME NEW p \in Requests, UnlockCompensates(p) PROVE locked /\ Quiesced => Quiesced'
    <2>1. PanicStore \/ row' = row
        BY <1>10, <1>s DEF UnlockCompensates, StoreTypes
    <2>. QED
        BY <2>1, <1>s, PanickedRows DEF StoreTypes, Quiesced
<1>11. ASSUME NEW p \in Requests, RollbackEnds(p) PROVE locked /\ Quiesced => Quiesced'
    BY <1>11, <1>s
    DEF RollbackEnds, Ended, Idle, storeVars, Quiesced
<1>12. CASE WorkerPanicBegins
    BY <1>12, <1>s
    DEF WorkerPanicBegins, Answered, storeVars, Quiesced
<1>13. CASE WorkerPanicEnds
    BY <1>13, <1>s
    DEF WorkerPanicEnds, Answered, storeVars, Quiesced
<1>14. CASE WorkerUnlocks
    BY <1>14, <1>s
    DEF WorkerUnlocks, Answered, storeVars, Quiesced
<1>15. ASSUME NEW t \in Tasks, Prepare(t) PROVE locked /\ Quiesced => Quiesced'
    BY <1>15, <1>s
    DEF Prepare, storeVars, Quiesced
<1>16. ASSUME NEW t \in Tasks, Submit(t) PROVE locked /\ Quiesced => Quiesced'
    BY <1>16, <1>s, StoreAssumption
    DEF Submit, SubmitTask, StoreTypes, Rows, TerminalStates, storeVars, Quiesced
<1>17. ASSUME NEW t \in Tasks, StartOperation(t) \/ EndOperation(t) PROVE locked /\ Quiesced => Quiesced'
    BY <1>17, <1>s
    DEF StartOperation, EndOperation, storeVars, Quiesced
<1>18. ASSUME NEW t \in Tasks, NEW k \in Tokens, Claim(t, k) PROVE locked /\ Quiesced => Quiesced'
    BY <1>18, <1>s, StoreAssumption
    DEF Claim, ClaimNext, StoreTypes, Rows, TerminalStates, storeVars, Quiesced
<1>19. ASSUME NEW t \in Tasks, NEW k \in Tokens, Finish(t, k) PROVE locked /\ Quiesced => Quiesced'
    BY <1>19, <1>s, StoreAssumption
    DEF Finish, CompleteTask, CloseRow, ClosedRow, StoreTypes, Rows, TerminalStates,
       storeVars, Quiesced
<1>20. CASE RootWorks
    BY <1>20, <1>s
    DEF RootWorks, storeVars, Quiesced
<1>21. CASE RootUnlocks
    BY <1>21, <1>s
    DEF RootUnlocks, storeVars, Quiesced
<1>22. CASE Crash
    BY <1>22, <1>s
    DEF Crash, storeVars, Quiesced
<1>23. CASE Start
    <2>1. PanicStore \/ UNCHANGED <<row, locked>>
        BY <1>23 DEF Start, SynchronizePanicControls, storeVars
    <2>. QED
        BY <2>1, <1>s, PanickedRows DEF StoreTypes, Quiesced
<1>24. CASE UNCHANGED panicVars
    BY <1>24, <1>s
    DEF panicVars, storeVars, Quiesced
<1>. QED
    BY <1>0, <1>1, <1>2, <1>3, <1>4, <1>5, <1>6, <1>7, <1>8, <1>9, <1>10, <1>11, <1>12, <1>13,
       <1>14, <1>15, <1>16, <1>17, <1>18, <1>19, <1>20, <1>21, <1>22, <1>23, <1>24
    DEF PanicNext

\* Every step keeps clean panics apart from unlocks.
LEMMA ApartStep ==
    PanicInv /\ [PanicNext]_panicVars => \A x \in Requests : ApartFits(x)'
<1>0. SUFFICES ASSUME PanicInv, [PanicNext]_panicVars, NEW x \in Requests PROVE ApartFits(x)'
    OBVIOUS
<1>s. StoreTypes
    BY <1>0 DEF PanicInv, PanicTypeOK, PlanesFit, StoreTypes, VoiceTypes, PlaneTypes,
       LaneTypes, ReqTypes, RequestFits
<1>v. VoiceTypes
    BY <1>0 DEF PanicInv, PanicTypeOK, PlanesFit, StoreTypes, VoiceTypes, PlaneTypes,
       LaneTypes, ReqTypes, RequestFits
<1>b. LaneTypes
    BY <1>0 DEF PanicInv, PanicTypeOK, PlanesFit, StoreTypes, VoiceTypes, PlaneTypes,
       LaneTypes, ReqTypes, RequestFits
<1>c. ReqTypes
    BY <1>0 DEF PanicInv, PanicTypeOK, PlanesFit, StoreTypes, VoiceTypes, PlaneTypes,
       LaneTypes, ReqTypes, RequestFits
<1>a. PlaneTypes
    BY <1>0 DEF PanicInv, PanicTypeOK, PlanesFit, StoreTypes, VoiceTypes, PlaneTypes,
       LaneTypes, ReqTypes, RequestFits
<1>l. LaneFits
    BY <1>0 DEF PanicInv, PanicTypeOK, PlanesFit, StoreTypes, VoiceTypes, PlaneTypes,
       LaneTypes, ReqTypes, RequestFits
<1>g. \A q \in Requests : StageFits(q)
    BY <1>0 DEF PanicInv, PanicTypeOK, PlanesFit, StoreTypes, VoiceTypes, PlaneTypes,
       LaneTypes, ReqTypes, RequestFits
<1>h. ApartFits(x)
    BY <1>0 DEF PanicInv, PanicTypeOK, PlanesFit, StoreTypes, VoiceTypes, PlaneTypes,
       LaneTypes, ReqTypes, RequestFits
<1>1. ASSUME NEW p \in Requests, PanicBegins(p) PROVE ApartFits(x)'
    BY <1>1, <1>s, <1>v, <1>b, <1>c, <1>g, <1>h, PanicBeginsDoes
    DEF Kept, Overlapped, ApartFits, StageFits, Clean, Unlocking, Flying, ReqTypes
<1>2. ASSUME NEW p \in Requests, RootPanics(p) PROVE ApartFits(x)'
    BY <1>2, <1>c, <1>a, <1>g, <1>h, RootPanicsDoes
    DEF SameRequest, ApartFits, StageFits, Clean, Unlocking, Flying, ReqTypes
<1>3. ASSUME NEW p \in Requests, PanicAnswers(p) PROVE ApartFits(x)'
    BY <1>3, <1>c, <1>g, <1>h, PanicAnswersDoes
    DEF Kept, IsIdle, ApartFits, StageFits, Clean, Unlocking, Flying, ReqTypes
<1>4. ASSUME NEW p \in Requests, WorkerUnheard(p) PROVE ApartFits(x)'
    BY <1>4, <1>c, <1>g, <1>h, WorkerUnheardDoes
    DEF SameRequest, ApartFits, StageFits, Clean, Unlocking, Flying, ReqTypes
<1>5. ASSUME NEW p \in Requests, UnlockBegins(p) PROVE ApartFits(x)'
    BY <1>5, <1>c, <1>g, <1>h, UnlockBeginsDoes
    DEF Kept, Overlapped, ApartFits, StageFits, Clean, Unlocking, Flying, ReqTypes
<1>6. ASSUME NEW p \in Requests, UnlockSeesRoot(p) PROVE ApartFits(x)'
    BY <1>6, <1>c, <1>g, <1>h, UnlockSeesRootDoes, IdleIs
    DEF ApartFits, StageFits, Clean, Unlocking, Flying, ReqTypes
<1>7. ASSUME NEW p \in Requests, UnlockHearsWorker(p) PROVE ApartFits(x)'
    BY <1>7, <1>c, <1>g, <1>h, UnlockHearsWorkerDoes, IdleIs
    DEF ApartFits, StageFits, Clean, Unlocking, Flying, ReqTypes
<1>8. ASSUME NEW p \in Requests, UnlockSeesHealth(p) PROVE ApartFits(x)'
    BY <1>8, <1>c, <1>g, <1>h, UnlockSeesHealthDoes
    DEF ApartFits, StageFits, Clean, Unlocking, Flying, ReqTypes
<1>9. ASSUME NEW p \in Requests, UnlockSucceeds(p) PROVE ApartFits(x)'
    BY <1>9, <1>c, <1>g, <1>h, UnlockSucceedsDoes
    DEF Kept, IsIdle, ApartFits, StageFits, Clean, Unlocking, Flying, ReqTypes
<1>10. ASSUME NEW p \in Requests, UnlockCompensates(p) PROVE ApartFits(x)'
    BY <1>10, <1>v, <1>c, <1>g, <1>h, UnlockCompensatesDoes
    DEF Kept, ApartFits, StageFits, Clean, Unlocking, Flying, ReqTypes
<1>11. ASSUME NEW p \in Requests, RollbackEnds(p) PROVE ApartFits(x)'
    BY <1>11, <1>c, <1>g, <1>h, RollbackEndsDoes, IdleIs
    DEF ApartFits, StageFits, Clean, Unlocking, Flying, ReqTypes
<1>12. CASE WorkerPanicBegins
    BY <1>12, <1>b, <1>c, <1>l, <1>g, <1>h, WorkerAnswersDoes
    DEF SameRequest, ApartFits, StageFits, Clean, Unlocking, Flying, ReqTypes
<1>13. CASE WorkerPanicEnds
    BY <1>13, <1>b, <1>c, <1>l, <1>g, <1>h, WorkerAnswersDoes
    DEF SameRequest, ApartFits, StageFits, Clean, Unlocking, Flying, ReqTypes
<1>14. CASE WorkerUnlocks
    BY <1>14, <1>b, <1>c, <1>l, <1>g, <1>h, WorkerAnswersDoes
    DEF SameRequest, ApartFits, StageFits, Clean, Unlocking, Flying, ReqTypes
<1>15. ASSUME NEW t \in Tasks, Prepare(t) PROVE ApartFits(x)'
    BY <1>15, <1>g, <1>h
    DEF Prepare, storeVars, ApartFits, StageFits, Clean, Unlocking, Flying, ReqTypes
<1>16. ASSUME NEW t \in Tasks, Submit(t) PROVE ApartFits(x)'
    BY <1>16, <1>g, <1>h
    DEF Submit, SubmitTask, storeVars, ApartFits, StageFits, Clean, Unlocking, Flying,
       ReqTypes
<1>17. ASSUME NEW t \in Tasks, StartOperation(t) \/ EndOperation(t) PROVE ApartFits(x)'
    BY <1>17, <1>g, <1>h
    DEF StartOperation, EndOperation, storeVars, ApartFits, StageFits, Clean, Unlocking,
       Flying, ReqTypes
<1>18. ASSUME NEW t \in Tasks, NEW k \in Tokens, Claim(t, k) PROVE ApartFits(x)'
    BY <1>18, <1>g, <1>h
    DEF Claim, ClaimNext, storeVars, ApartFits, StageFits, Clean, Unlocking, Flying, ReqTypes
<1>19. ASSUME NEW t \in Tasks, NEW k \in Tokens, Finish(t, k) PROVE ApartFits(x)'
    BY <1>19, <1>g, <1>h
    DEF Finish, CompleteTask, CloseRow, ClosedRow, storeVars, ApartFits, StageFits, Clean,
       Unlocking, Flying, ReqTypes
<1>20. CASE RootWorks
    BY <1>20, <1>g, <1>h
    DEF RootWorks, storeVars, ApartFits, StageFits, Clean, Unlocking, Flying, ReqTypes
<1>21. CASE RootUnlocks
    BY <1>21, <1>c, <1>g, <1>h, RootUnlocksDoes
    DEF Kept, Overlapped, ApartFits, StageFits, Clean, Unlocking, Flying, ReqTypes
<1>22. CASE Crash
    BY <1>22, <1>c, <1>g, <1>h, CrashDoes, IdleIs
    DEF ApartFits, StageFits, Clean, Unlocking, Flying, ReqTypes
<1>23. CASE Start
    BY <1>23, <1>g, <1>h
    DEF Start, SynchronizePanicControls, storeVars, ApartFits, StageFits, Clean, Unlocking,
       Flying, ReqTypes
<1>24. CASE UNCHANGED panicVars
    BY <1>24, <1>g, <1>h
    DEF panicVars, storeVars, ApartFits, StageFits, Clean, Unlocking, Flying, ReqTypes
<1>. QED
    BY <1>0, <1>1, <1>2, <1>3, <1>4, <1>5, <1>6, <1>7, <1>8, <1>9, <1>10, <1>11, <1>12, <1>13,
       <1>14, <1>15, <1>16, <1>17, <1>18, <1>19, <1>20, <1>21, <1>22, <1>23, <1>24
    DEF PanicNext

\* Every step keeps the two locks of a standing panic, or taints it.
LEMMA LocksStep ==
    PanicInv /\ [PanicNext]_panicVars => \A x \in Requests : LocksFit(x)'
<1>0. SUFFICES ASSUME PanicInv, [PanicNext]_panicVars, NEW x \in Requests PROVE LocksFit(x)'
    OBVIOUS
<1>s. StoreTypes
    BY <1>0 DEF PanicInv, PanicTypeOK, PlanesFit, StoreTypes, VoiceTypes, PlaneTypes,
       LaneTypes, ReqTypes, RequestFits
<1>v. VoiceTypes
    BY <1>0 DEF PanicInv, PanicTypeOK, PlanesFit, StoreTypes, VoiceTypes, PlaneTypes,
       LaneTypes, ReqTypes, RequestFits
<1>b. LaneTypes
    BY <1>0 DEF PanicInv, PanicTypeOK, PlanesFit, StoreTypes, VoiceTypes, PlaneTypes,
       LaneTypes, ReqTypes, RequestFits
<1>c. ReqTypes
    BY <1>0 DEF PanicInv, PanicTypeOK, PlanesFit, StoreTypes, VoiceTypes, PlaneTypes,
       LaneTypes, ReqTypes, RequestFits
<1>a. PlaneTypes
    BY <1>0 DEF PanicInv, PanicTypeOK, PlanesFit, StoreTypes, VoiceTypes, PlaneTypes,
       LaneTypes, ReqTypes, RequestFits
<1>l. LaneFits
    BY <1>0 DEF PanicInv, PanicTypeOK, PlanesFit, StoreTypes, VoiceTypes, PlaneTypes,
       LaneTypes, ReqTypes, RequestFits
<1>g. \A q \in Requests : StageFits(q)
    BY <1>0 DEF PanicInv, PanicTypeOK, PlanesFit, StoreTypes, VoiceTypes, PlaneTypes,
       LaneTypes, ReqTypes, RequestFits
<1>h. LocksFit(x)
    BY <1>0 DEF PanicInv, PanicTypeOK, PlanesFit, StoreTypes, VoiceTypes, PlaneTypes,
       LaneTypes, ReqTypes, RequestFits
<1>n. ApartFits(x)
    BY <1>0 DEF PanicInv, PanicTypeOK, PlanesFit, StoreTypes, VoiceTypes, PlaneTypes,
       LaneTypes, ReqTypes, RequestFits
<1>1. ASSUME NEW p \in Requests, PanicBegins(p) PROVE LocksFit(x)'
    BY <1>1, <1>s, <1>v, <1>b, <1>c, <1>g, <1>h, <1>n, PanicBeginsDoes
    DEF Kept, Overlapped, LocksFit, StageFits, ApartFits, Stands, Acknowledged, Clean,
       Unlocking, Flying, ReqTypes
<1>2. ASSUME NEW p \in Requests, RootPanics(p) PROVE LocksFit(x)'
    BY <1>2, <1>c, <1>a, <1>g, <1>h, <1>n, RootPanicsDoes
    DEF SameRequest, LocksFit, StageFits, ApartFits, Stands, Acknowledged, Clean, Unlocking,
       Flying, ReqTypes, RootPanics, storeVars
<1>3. ASSUME NEW p \in Requests, PanicAnswers(p) PROVE LocksFit(x)'
    <2>1. UNCHANGED <<voice, locked>>
        BY <1>3 DEF PanicAnswers, storeVars
    <2>2. CASE x = p
        BY <1>3, <2>1, <2>2, <1>c, <1>g, <1>h, PanicAnswersDoes
        DEF LocksFit, StageFits, Stands, Acknowledged, Clean, Kept, IsIdle
    <2>3. CASE x # p
        BY <1>3, <2>1, <2>3, <1>c, <1>g, <1>h, PanicAnswersDoes
        DEF LocksFit, StageFits, Stands, Acknowledged, Clean, Kept, IsIdle
    <2>. QED
        BY <2>2, <2>3
<1>4. ASSUME NEW p \in Requests, WorkerUnheard(p) PROVE LocksFit(x)'
    BY <1>4, <1>c, <1>g, <1>h, <1>n, WorkerUnheardDoes
    DEF SameRequest, LocksFit, StageFits, ApartFits, Stands, Acknowledged, Clean, Unlocking,
       Flying, ReqTypes, WorkerUnheard, storeVars
<1>5. ASSUME NEW p \in Requests, UnlockBegins(p) PROVE LocksFit(x)'
    BY <1>5, <1>c, <1>g, <1>h, <1>n, UnlockBeginsDoes
    DEF Kept, Overlapped, LocksFit, StageFits, ApartFits, Stands, Acknowledged, Clean,
       Unlocking, Flying, ReqTypes, UnlockBegins, storeVars
<1>6. ASSUME NEW p \in Requests, UnlockSeesRoot(p) PROVE LocksFit(x)'
    BY <1>6, <1>c, <1>g, <1>h, <1>n, UnlockSeesRootDoes, IdleIs
    DEF LocksFit, StageFits, ApartFits, Stands, Acknowledged, Clean, Unlocking, Flying,
       ReqTypes, UnlockSeesRoot, storeVars
<1>7. ASSUME NEW p \in Requests, UnlockHearsWorker(p) PROVE LocksFit(x)'
    BY <1>7, <1>c, <1>g, <1>h, <1>n, UnlockHearsWorkerDoes, IdleIs
    DEF LocksFit, StageFits, ApartFits, Stands, Acknowledged, Clean, Unlocking, Flying,
       ReqTypes, UnlockHearsWorker, storeVars
<1>8. ASSUME NEW p \in Requests, UnlockSeesHealth(p) PROVE LocksFit(x)'
    BY <1>8, <1>c, <1>g, <1>h, <1>n, UnlockSeesHealthDoes
    DEF LocksFit, StageFits, ApartFits, Stands, Acknowledged, Clean, Unlocking, Flying,
       ReqTypes, UnlockSeesHealth, storeVars
<1>9. ASSUME NEW p \in Requests, UnlockSucceeds(p) PROVE LocksFit(x)'
    BY <1>9, <1>c, <1>g, <1>h, <1>n, UnlockSucceedsDoes
    DEF Kept, IsIdle, LocksFit, StageFits, ApartFits, Stands, Acknowledged, Clean, Unlocking,
       Flying, ReqTypes
<1>10. ASSUME NEW p \in Requests, UnlockCompensates(p) PROVE LocksFit(x)'
    BY <1>10, <1>v, <1>c, <1>g, <1>h, <1>n, UnlockCompensatesDoes
    DEF Kept, LocksFit, StageFits, ApartFits, Stands, Acknowledged, Clean, Unlocking, Flying,
       ReqTypes
<1>11. ASSUME NEW p \in Requests, RollbackEnds(p) PROVE LocksFit(x)'
    BY <1>11, <1>c, <1>g, <1>h, <1>n, RollbackEndsDoes, IdleIs
    DEF LocksFit, StageFits, ApartFits, Stands, Acknowledged, Clean, Unlocking, Flying,
       ReqTypes, RollbackEnds, storeVars
<1>12. CASE WorkerPanicBegins
    BY <1>12, <1>b, <1>c, <1>l, <1>g, <1>h, <1>n, WorkerAnswersDoes
    DEF SameRequest, LocksFit, StageFits, ApartFits, Stands, Acknowledged, Clean, Unlocking,
       Flying, ReqTypes, WorkerPanicBegins, storeVars
<1>13. CASE WorkerPanicEnds
    BY <1>13, <1>b, <1>c, <1>l, <1>g, <1>h, <1>n, WorkerAnswersDoes
    DEF SameRequest, LocksFit, StageFits, ApartFits, Stands, Acknowledged, Clean, Unlocking,
       Flying, ReqTypes, WorkerPanicEnds, storeVars
<1>14. CASE WorkerUnlocks
    BY <1>14, <1>b, <1>c, <1>l, <1>g, <1>h, <1>n, WorkerAnswersDoes
    DEF SameRequest, LocksFit, StageFits, ApartFits, Stands, Acknowledged, Clean, Unlocking,
       Flying, ReqTypes, WorkerUnlocks, storeVars
<1>15. ASSUME NEW t \in Tasks, Prepare(t) PROVE LocksFit(x)'
    BY <1>15, <1>g, <1>h, <1>n
    DEF Prepare, storeVars, LocksFit, StageFits, ApartFits, Stands, Acknowledged, Clean,
       Unlocking, Flying, ReqTypes
<1>16. ASSUME NEW t \in Tasks, Submit(t) PROVE LocksFit(x)'
    BY <1>16, <1>g, <1>h, <1>n
    DEF Submit, SubmitTask, storeVars, LocksFit, StageFits, ApartFits, Stands, Acknowledged,
       Clean, Unlocking, Flying, ReqTypes
<1>17. ASSUME NEW t \in Tasks, StartOperation(t) \/ EndOperation(t) PROVE LocksFit(x)'
    BY <1>17, <1>g, <1>h, <1>n
    DEF StartOperation, EndOperation, storeVars, LocksFit, StageFits, ApartFits, Stands,
       Acknowledged, Clean, Unlocking, Flying, ReqTypes
<1>18. ASSUME NEW t \in Tasks, NEW k \in Tokens, Claim(t, k) PROVE LocksFit(x)'
    BY <1>18, <1>g, <1>h, <1>n
    DEF Claim, ClaimNext, storeVars, LocksFit, StageFits, ApartFits, Stands, Acknowledged,
       Clean, Unlocking, Flying, ReqTypes
<1>19. ASSUME NEW t \in Tasks, NEW k \in Tokens, Finish(t, k) PROVE LocksFit(x)'
    BY <1>19, <1>g, <1>h, <1>n
    DEF Finish, CompleteTask, CloseRow, ClosedRow, storeVars, LocksFit, StageFits, ApartFits,
       Stands, Acknowledged, Clean, Unlocking, Flying, ReqTypes
<1>20. CASE RootWorks
    BY <1>20, <1>g, <1>h, <1>n
    DEF RootWorks, storeVars, LocksFit, StageFits, ApartFits, Stands, Acknowledged, Clean,
       Unlocking, Flying, ReqTypes
<1>21. CASE RootUnlocks
    BY <1>21, <1>c, <1>g, <1>h, <1>n, RootUnlocksDoes
    DEF Kept, Overlapped, LocksFit, StageFits, ApartFits, Stands, Acknowledged, Clean,
       Unlocking, Flying, ReqTypes, RootUnlocks, storeVars
<1>22. CASE Crash
    BY <1>22, <1>c, <1>g, <1>h, <1>n, CrashDoes, IdleIs
    DEF LocksFit, StageFits, ApartFits, Stands, Acknowledged, Clean, Unlocking, Flying,
       ReqTypes, Crash, storeVars
<1>23. CASE Start
    <2>1. req' = req /\ (locked => locked')
        BY <1>23 DEF Start, SynchronizePanicControls, PanicStore, storeVars
    <2>2. voice' = voice \/ \E o \in Locks(voice) : voice' = o.v
        BY <1>23 DEF Start, SynchronizePanicControls
    <2>3. voice.file # "open" => voice'.file # "open"
        BY <2>2, <1>v, LocksLeave DEF VoiceTypes
    <2>. QED
        BY <2>1, <2>3, <1>h DEF LocksFit, Stands, Acknowledged, Clean
<1>24. CASE UNCHANGED panicVars
    BY <1>24, <1>g, <1>h, <1>n
    DEF panicVars, storeVars, LocksFit, StageFits, ApartFits, Stands, Acknowledged, Clean,
       Unlocking, Flying, ReqTypes
<1>. QED
    BY <1>0, <1>1, <1>2, <1>3, <1>4, <1>5, <1>6, <1>7, <1>8, <1>9, <1>10, <1>11, <1>12, <1>13,
       <1>14, <1>15, <1>16, <1>17, <1>18, <1>19, <1>20, <1>21, <1>22, <1>23, <1>24
    DEF PanicNext

\* Every step keeps the queue quiet under a clean panic that found it so.
LEMMA QuietFitsStep ==
    PanicInv /\ [PanicNext]_panicVars => \A x \in Requests : QuietFits(x)'
<1>0. SUFFICES ASSUME PanicInv, [PanicNext]_panicVars, NEW x \in Requests PROVE QuietFits(x)'
    OBVIOUS
<1>s. StoreTypes
    BY <1>0 DEF PanicInv, PanicTypeOK, PlanesFit, StoreTypes, VoiceTypes, PlaneTypes,
       LaneTypes, ReqTypes, RequestFits
<1>v. VoiceTypes
    BY <1>0 DEF PanicInv, PanicTypeOK, PlanesFit, StoreTypes, VoiceTypes, PlaneTypes,
       LaneTypes, ReqTypes, RequestFits
<1>b. LaneTypes
    BY <1>0 DEF PanicInv, PanicTypeOK, PlanesFit, StoreTypes, VoiceTypes, PlaneTypes,
       LaneTypes, ReqTypes, RequestFits
<1>c. ReqTypes
    BY <1>0 DEF PanicInv, PanicTypeOK, PlanesFit, StoreTypes, VoiceTypes, PlaneTypes,
       LaneTypes, ReqTypes, RequestFits
<1>a. PlaneTypes
    BY <1>0 DEF PanicInv, PanicTypeOK, PlanesFit, StoreTypes, VoiceTypes, PlaneTypes,
       LaneTypes, ReqTypes, RequestFits
<1>l. LaneFits
    BY <1>0 DEF PanicInv, PanicTypeOK, PlanesFit, StoreTypes, VoiceTypes, PlaneTypes,
       LaneTypes, ReqTypes, RequestFits
<1>g. \A q \in Requests : StageFits(q)
    BY <1>0 DEF PanicInv, PanicTypeOK, PlanesFit, StoreTypes, VoiceTypes, PlaneTypes,
       LaneTypes, ReqTypes, RequestFits
<1>h. QuietFits(x)
    BY <1>0 DEF PanicInv, PanicTypeOK, PlanesFit, StoreTypes, VoiceTypes, PlaneTypes,
       LaneTypes, ReqTypes, RequestFits
<1>m. LocksFit(x)
    BY <1>0 DEF PanicInv, PanicTypeOK, PlanesFit, StoreTypes, VoiceTypes, PlaneTypes,
       LaneTypes, ReqTypes, RequestFits
<1>n. ApartFits(x)
    BY <1>0 DEF PanicInv, PanicTypeOK, PlanesFit, StoreTypes, VoiceTypes, PlaneTypes,
       LaneTypes, ReqTypes, RequestFits
<1>k. locked /\ Quiesced => Quiesced'
    BY <1>0, QuietStep DEF PanicInv, PanicTypeOK, PlanesFit, StoreTypes, VoiceTypes,
       PlaneTypes, LaneTypes, ReqTypes, RequestFits
<1>1. ASSUME NEW p \in Requests, PanicBegins(p) PROVE QuietFits(x)'
    BY <1>1, <1>s, <1>v, <1>b, <1>c, <1>g, <1>h, <1>m, <1>n, <1>k, PanicBeginsDoes
    DEF Kept, Overlapped, QuietFits, LocksFit, StageFits, ApartFits, Stands, Acknowledged,
       Clean, Unlocking, Flying, ReqTypes
<1>2. ASSUME NEW p \in Requests, RootPanics(p) PROVE QuietFits(x)'
    BY <1>2, <1>c, <1>a, <1>g, <1>h, <1>m, <1>n, <1>k, RootPanicsDoes
    DEF SameRequest, QuietFits, LocksFit, StageFits, ApartFits, Stands, Acknowledged, Clean,
       Unlocking, Flying, ReqTypes
<1>3. ASSUME NEW p \in Requests, PanicAnswers(p) PROVE QuietFits(x)'
    BY <1>3, <1>c, <1>g, <1>h, <1>m, <1>n, <1>k, PanicAnswersDoes
    DEF Kept, IsIdle, QuietFits, LocksFit, StageFits, ApartFits, Stands, Acknowledged, Clean,
       Unlocking, Flying, ReqTypes
<1>4. ASSUME NEW p \in Requests, WorkerUnheard(p) PROVE QuietFits(x)'
    BY <1>4, <1>c, <1>g, <1>h, <1>m, <1>n, <1>k, WorkerUnheardDoes
    DEF SameRequest, QuietFits, LocksFit, StageFits, ApartFits, Stands, Acknowledged, Clean,
       Unlocking, Flying, ReqTypes
<1>5. ASSUME NEW p \in Requests, UnlockBegins(p) PROVE QuietFits(x)'
    BY <1>5, <1>c, <1>g, <1>h, <1>m, <1>n, <1>k, UnlockBeginsDoes
    DEF Kept, Overlapped, QuietFits, LocksFit, StageFits, ApartFits, Stands, Acknowledged,
       Clean, Unlocking, Flying, ReqTypes
<1>6. ASSUME NEW p \in Requests, UnlockSeesRoot(p) PROVE QuietFits(x)'
    BY <1>6, <1>c, <1>g, <1>h, <1>m, <1>n, <1>k, UnlockSeesRootDoes, IdleIs
    DEF QuietFits, LocksFit, StageFits, ApartFits, Stands, Acknowledged, Clean, Unlocking,
       Flying, ReqTypes
<1>7. ASSUME NEW p \in Requests, UnlockHearsWorker(p) PROVE QuietFits(x)'
    BY <1>7, <1>c, <1>g, <1>h, <1>m, <1>n, <1>k, UnlockHearsWorkerDoes, IdleIs
    DEF QuietFits, LocksFit, StageFits, ApartFits, Stands, Acknowledged, Clean, Unlocking,
       Flying, ReqTypes
<1>8. ASSUME NEW p \in Requests, UnlockSeesHealth(p) PROVE QuietFits(x)'
    BY <1>8, <1>c, <1>g, <1>h, <1>m, <1>n, <1>k, UnlockSeesHealthDoes
    DEF QuietFits, LocksFit, StageFits, ApartFits, Stands, Acknowledged, Clean, Unlocking,
       Flying, ReqTypes
<1>9. ASSUME NEW p \in Requests, UnlockSucceeds(p) PROVE QuietFits(x)'
    BY <1>9, <1>c, <1>g, <1>h, <1>m, <1>n, <1>k, UnlockSucceedsDoes
    DEF Kept, IsIdle, QuietFits, LocksFit, StageFits, ApartFits, Stands, Acknowledged, Clean,
       Unlocking, Flying, ReqTypes
<1>10. ASSUME NEW p \in Requests, UnlockCompensates(p) PROVE QuietFits(x)'
    BY <1>10, <1>v, <1>c, <1>g, <1>h, <1>m, <1>n, <1>k, UnlockCompensatesDoes
    DEF Kept, QuietFits, LocksFit, StageFits, ApartFits, Stands, Acknowledged, Clean,
       Unlocking, Flying, ReqTypes
<1>11. ASSUME NEW p \in Requests, RollbackEnds(p) PROVE QuietFits(x)'
    BY <1>11, <1>c, <1>g, <1>h, <1>m, <1>n, <1>k, RollbackEndsDoes, IdleIs
    DEF QuietFits, LocksFit, StageFits, ApartFits, Stands, Acknowledged, Clean, Unlocking,
       Flying, ReqTypes
<1>12. CASE WorkerPanicBegins
    BY <1>12, <1>b, <1>c, <1>l, <1>g, <1>h, <1>m, <1>n, <1>k, WorkerAnswersDoes
    DEF SameRequest, QuietFits, LocksFit, StageFits, ApartFits, Stands, Acknowledged, Clean,
       Unlocking, Flying, ReqTypes
<1>13. CASE WorkerPanicEnds
    BY <1>13, <1>b, <1>c, <1>l, <1>g, <1>h, <1>m, <1>n, <1>k, WorkerAnswersDoes
    DEF SameRequest, QuietFits, LocksFit, StageFits, ApartFits, Stands, Acknowledged, Clean,
       Unlocking, Flying, ReqTypes
<1>14. CASE WorkerUnlocks
    BY <1>14, <1>b, <1>c, <1>l, <1>g, <1>h, <1>m, <1>n, <1>k, WorkerAnswersDoes
    DEF SameRequest, QuietFits, LocksFit, StageFits, ApartFits, Stands, Acknowledged, Clean,
       Unlocking, Flying, ReqTypes
<1>15. ASSUME NEW t \in Tasks, Prepare(t) PROVE QuietFits(x)'
    BY <1>15, <1>g, <1>h, <1>m, <1>n, <1>k
    DEF Prepare, storeVars, QuietFits, LocksFit, StageFits, ApartFits, Stands, Acknowledged,
       Clean, Unlocking, Flying, ReqTypes
<1>16. ASSUME NEW t \in Tasks, Submit(t) PROVE QuietFits(x)'
    BY <1>16, <1>g, <1>h, <1>m, <1>n, <1>k
    DEF Submit, SubmitTask, storeVars, QuietFits, LocksFit, StageFits, ApartFits, Stands,
       Acknowledged, Clean, Unlocking, Flying, ReqTypes
<1>17. ASSUME NEW t \in Tasks, StartOperation(t) \/ EndOperation(t) PROVE QuietFits(x)'
    BY <1>17, <1>g, <1>h, <1>m, <1>n, <1>k
    DEF StartOperation, EndOperation, storeVars, QuietFits, LocksFit, StageFits, ApartFits,
       Stands, Acknowledged, Clean, Unlocking, Flying, ReqTypes
<1>18. ASSUME NEW t \in Tasks, NEW k \in Tokens, Claim(t, k) PROVE QuietFits(x)'
    BY <1>18, <1>g, <1>h, <1>m, <1>n, <1>k
    DEF Claim, ClaimNext, storeVars, QuietFits, LocksFit, StageFits, ApartFits, Stands,
       Acknowledged, Clean, Unlocking, Flying, ReqTypes
<1>19. ASSUME NEW t \in Tasks, NEW k \in Tokens, Finish(t, k) PROVE QuietFits(x)'
    BY <1>19, <1>g, <1>h, <1>m, <1>n, <1>k
    DEF Finish, CompleteTask, CloseRow, ClosedRow, storeVars, QuietFits, LocksFit, StageFits,
       ApartFits, Stands, Acknowledged, Clean, Unlocking, Flying, ReqTypes
<1>20. CASE RootWorks
    BY <1>20, <1>g, <1>h, <1>m, <1>n, <1>k
    DEF RootWorks, storeVars, QuietFits, LocksFit, StageFits, ApartFits, Stands, Acknowledged,
       Clean, Unlocking, Flying, ReqTypes
<1>21. CASE RootUnlocks
    BY <1>21, <1>c, <1>g, <1>h, <1>m, <1>n, <1>k, RootUnlocksDoes
    DEF Kept, Overlapped, QuietFits, LocksFit, StageFits, ApartFits, Stands, Acknowledged,
       Clean, Unlocking, Flying, ReqTypes
<1>22. CASE Crash
    BY <1>22, <1>c, <1>g, <1>h, <1>m, <1>n, <1>k, CrashDoes, IdleIs
    DEF QuietFits, LocksFit, StageFits, ApartFits, Stands, Acknowledged, Clean, Unlocking,
       Flying, ReqTypes
<1>23. CASE Start
    BY <1>23, <1>g, <1>h, <1>m, <1>n, <1>k
    DEF Start, SynchronizePanicControls, storeVars, QuietFits, LocksFit, StageFits, ApartFits,
       Stands, Acknowledged, Clean, Unlocking, Flying, ReqTypes
<1>24. CASE UNCHANGED panicVars
    BY <1>24, <1>g, <1>h, <1>m, <1>n, <1>k
    DEF panicVars, storeVars, QuietFits, LocksFit, StageFits, ApartFits, Stands, Acknowledged,
       Clean, Unlocking, Flying, ReqTypes
<1>. QED
    BY <1>0, <1>1, <1>2, <1>3, <1>4, <1>5, <1>6, <1>7, <1>8, <1>9, <1>10, <1>11, <1>12, <1>13,
       <1>14, <1>15, <1>16, <1>17, <1>18, <1>19, <1>20, <1>21, <1>22, <1>23, <1>24
    DEF PanicNext

\* A root broker that is not deployed stays idle.
LEMMA RootStep ==
    PanicInv /\ [PanicNext]_panicVars => (root.busy => Privileged)'
<1>0. SUFFICES ASSUME PanicInv, [PanicNext]_panicVars PROVE (root.busy => Privileged)'
    OBVIOUS
<1>a. PlaneTypes
    BY <1>0 DEF PanicInv, PanicTypeOK, PlanesFit, StoreTypes, VoiceTypes, PlaneTypes,
       LaneTypes, ReqTypes, RequestFits
<1>d. root.busy => Privileged
    BY <1>0 DEF PanicInv, PanicTypeOK, PlanesFit, StoreTypes, VoiceTypes, PlaneTypes,
       LaneTypes, ReqTypes, RequestFits
<1>1. ASSUME NEW p \in Requests, PanicBegins(p) PROVE (root.busy => Privileged)'
    BY <1>1, <1>a, <1>d
    DEF PanicBegins, CallsWorker, Reached, storeVars
<1>2. ASSUME NEW p \in Requests, RootPanics(p) PROVE (root.busy => Privileged)'
    BY <1>2, <1>0, <1>d, RootPanicsDoes DEF PanicInv, PanicTypeOK, PlaneTypes, ReqTypes
<1>3. ASSUME NEW p \in Requests, PanicAnswers(p) PROVE (root.busy => Privileged)'
    BY <1>3, <1>a, <1>d
    DEF PanicAnswers, Ended, Idle, storeVars
<1>4. ASSUME NEW p \in Requests, WorkerUnheard(p) PROVE (root.busy => Privileged)'
    BY <1>4, <1>a, <1>d
    DEF WorkerUnheard, storeVars
<1>5. ASSUME NEW p \in Requests, UnlockBegins(p) PROVE (root.busy => Privileged)'
    BY <1>5, <1>a, <1>d
    DEF UnlockBegins, storeVars
<1>6. ASSUME NEW p \in Requests, UnlockSeesRoot(p) PROVE (root.busy => Privileged)'
    BY <1>6, <1>a, <1>d
    DEF UnlockSeesRoot, Ended, Idle, Reached, storeVars
<1>7. ASSUME NEW p \in Requests, UnlockHearsWorker(p) PROVE (root.busy => Privileged)'
    BY <1>7, <1>a, <1>d
    DEF UnlockHearsWorker, Ended, Idle, storeVars
<1>8. ASSUME NEW p \in Requests, UnlockSeesHealth(p) PROVE (root.busy => Privileged)'
    BY <1>8, <1>a, <1>d
    DEF UnlockSeesHealth, CallsWorker, Reached, Sent, storeVars
<1>9. ASSUME NEW p \in Requests, UnlockSucceeds(p) PROVE (root.busy => Privileged)'
    BY <1>9, <1>a, <1>d
    DEF UnlockSucceeds, Undone, Ended, Idle, UnlockPanic, storeVars
<1>10. ASSUME NEW p \in Requests, UnlockCompensates(p) PROVE (root.busy => Privileged)'
    BY <1>10, <1>a, <1>d
    DEF UnlockCompensates, Undone, CallsWorker, Reached, Sent, storeVars
<1>11. ASSUME NEW p \in Requests, RollbackEnds(p) PROVE (root.busy => Privileged)'
    BY <1>11, <1>a, <1>d
    DEF RollbackEnds, Ended, Idle, storeVars
<1>12. CASE WorkerPanicBegins
    BY <1>12, <1>a, <1>d
    DEF WorkerPanicBegins, Answered, storeVars
<1>13. CASE WorkerPanicEnds
    BY <1>13, <1>a, <1>d
    DEF WorkerPanicEnds, Answered, storeVars
<1>14. CASE WorkerUnlocks
    BY <1>14, <1>a, <1>d
    DEF WorkerUnlocks, Answered, storeVars
<1>15. ASSUME NEW t \in Tasks, Prepare(t) PROVE (root.busy => Privileged)'
    BY <1>15, <1>a, <1>d
    DEF Prepare, storeVars
<1>16. ASSUME NEW t \in Tasks, Submit(t) PROVE (root.busy => Privileged)'
    BY <1>16, <1>a, <1>d
    DEF Submit, SubmitTask, storeVars
<1>17. ASSUME NEW t \in Tasks, StartOperation(t) \/ EndOperation(t) PROVE (root.busy => Privileged)'
    BY <1>17, <1>a, <1>d
    DEF StartOperation, EndOperation, storeVars
<1>18. ASSUME NEW t \in Tasks, NEW k \in Tokens, Claim(t, k) PROVE (root.busy => Privileged)'
    BY <1>18, <1>a, <1>d
    DEF Claim, ClaimNext, storeVars
<1>19. ASSUME NEW t \in Tasks, NEW k \in Tokens, Finish(t, k) PROVE (root.busy => Privileged)'
    BY <1>19, <1>a, <1>d
    DEF Finish, CompleteTask, CloseRow, ClosedRow, storeVars
<1>20. CASE RootWorks
    BY <1>20, <1>a, <1>d
    DEF RootWorks, storeVars
<1>21. CASE RootUnlocks
    BY <1>21, <1>a, <1>d
    DEF RootUnlocks, storeVars
<1>22. CASE Crash
    BY <1>22, <1>a, <1>d
    DEF Crash, storeVars
<1>23. CASE Start
    BY <1>23, <1>a, <1>d
    DEF Start, SynchronizePanicControls, storeVars
<1>24. CASE UNCHANGED panicVars
    BY <1>24, <1>a, <1>d
    DEF panicVars, storeVars
<1>. QED
    BY <1>0, <1>1, <1>2, <1>3, <1>4, <1>5, <1>6, <1>7, <1>8, <1>9, <1>10, <1>11, <1>12, <1>13,
       <1>14, <1>15, <1>16, <1>17, <1>18, <1>19, <1>20, <1>21, <1>22, <1>23, <1>24
    DEF PanicNext

\* Every step keeps the root broker quiet under a clean panic that found it so.
LEMMA RootFitsStep ==
    PanicInv /\ [PanicNext]_panicVars => \A x \in Requests : RootFits(x)'
<1>0. SUFFICES ASSUME PanicInv, [PanicNext]_panicVars, NEW x \in Requests PROVE RootFits(x)'
    OBVIOUS
<1>s. StoreTypes
    BY <1>0 DEF PanicInv, PanicTypeOK, PlanesFit, StoreTypes, VoiceTypes, PlaneTypes,
       LaneTypes, ReqTypes, RequestFits
<1>v. VoiceTypes
    BY <1>0 DEF PanicInv, PanicTypeOK, PlanesFit, StoreTypes, VoiceTypes, PlaneTypes,
       LaneTypes, ReqTypes, RequestFits
<1>b. LaneTypes
    BY <1>0 DEF PanicInv, PanicTypeOK, PlanesFit, StoreTypes, VoiceTypes, PlaneTypes,
       LaneTypes, ReqTypes, RequestFits
<1>c. ReqTypes
    BY <1>0 DEF PanicInv, PanicTypeOK, PlanesFit, StoreTypes, VoiceTypes, PlaneTypes,
       LaneTypes, ReqTypes, RequestFits
<1>a. PlaneTypes
    BY <1>0 DEF PanicInv, PanicTypeOK, PlanesFit, StoreTypes, VoiceTypes, PlaneTypes,
       LaneTypes, ReqTypes, RequestFits
<1>l. LaneFits
    BY <1>0 DEF PanicInv, PanicTypeOK, PlanesFit, StoreTypes, VoiceTypes, PlaneTypes,
       LaneTypes, ReqTypes, RequestFits
<1>g. \A q \in Requests : StageFits(q)
    BY <1>0 DEF PanicInv, PanicTypeOK, PlanesFit, StoreTypes, VoiceTypes, PlaneTypes,
       LaneTypes, ReqTypes, RequestFits
<1>h. RootFits(x)
    BY <1>0 DEF PanicInv, PanicTypeOK, PlanesFit, StoreTypes, VoiceTypes, PlaneTypes,
       LaneTypes, ReqTypes, RequestFits
<1>d. root.busy => Privileged
    BY <1>0 DEF PanicInv, PanicTypeOK, PlanesFit, StoreTypes, VoiceTypes, PlaneTypes,
       LaneTypes, ReqTypes, RequestFits
<1>1. ASSUME NEW p \in Requests, PanicBegins(p) PROVE RootFits(x)'
    BY <1>1, <1>s, <1>v, <1>b, <1>c, <1>g, <1>h, <1>d, PanicBeginsDoes
    DEF Kept, Overlapped, RootFits, StageFits, Clean, ReqTypes
<1>2. ASSUME NEW p \in Requests, RootPanics(p) PROVE RootFits(x)'
    BY <1>2, <1>c, <1>a, <1>g, <1>h, <1>d, RootPanicsDoes
    DEF SameRequest, RootFits, StageFits, Clean, ReqTypes
<1>3. ASSUME NEW p \in Requests, PanicAnswers(p) PROVE RootFits(x)'
    <2>1. UNCHANGED <<root>>
        BY <1>3 DEF PanicAnswers, storeVars
    <2>2. CASE x = p
        BY <1>3, <2>1, <2>2, <1>c, <1>g, <1>h, <1>d, PanicAnswersDoes
        DEF RootFits, StageFits, Clean, Kept, IsIdle
    <2>3. CASE x # p
        BY <1>3, <2>1, <2>3, <1>c, <1>g, <1>h, <1>d, PanicAnswersDoes
        DEF RootFits, StageFits, Clean, Kept, IsIdle
    <2>. QED
        BY <2>2, <2>3
<1>4. ASSUME NEW p \in Requests, WorkerUnheard(p) PROVE RootFits(x)'
    BY <1>4, <1>c, <1>g, <1>h, <1>d, WorkerUnheardDoes
    DEF SameRequest, RootFits, StageFits, Clean, ReqTypes, WorkerUnheard, storeVars
<1>5. ASSUME NEW p \in Requests, UnlockBegins(p) PROVE RootFits(x)'
    BY <1>5, <1>c, <1>g, <1>h, <1>d, UnlockBeginsDoes
    DEF Kept, Overlapped, RootFits, StageFits, Clean, ReqTypes, UnlockBegins, storeVars
<1>6. ASSUME NEW p \in Requests, UnlockSeesRoot(p) PROVE RootFits(x)'
    BY <1>6, <1>c, <1>g, <1>h, <1>d, UnlockSeesRootDoes, IdleIs
    DEF RootFits, StageFits, Clean, ReqTypes, UnlockSeesRoot, storeVars
<1>7. ASSUME NEW p \in Requests, UnlockHearsWorker(p) PROVE RootFits(x)'
    BY <1>7, <1>c, <1>g, <1>h, <1>d, UnlockHearsWorkerDoes, IdleIs
    DEF RootFits, StageFits, Clean, ReqTypes, UnlockHearsWorker, storeVars
<1>8. ASSUME NEW p \in Requests, UnlockSeesHealth(p) PROVE RootFits(x)'
    BY <1>8, <1>c, <1>g, <1>h, <1>d, UnlockSeesHealthDoes
    DEF RootFits, StageFits, Clean, ReqTypes, UnlockSeesHealth, storeVars
<1>9. ASSUME NEW p \in Requests, UnlockSucceeds(p) PROVE RootFits(x)'
    BY <1>9, <1>c, <1>g, <1>h, <1>d, UnlockSucceedsDoes
    DEF Kept, IsIdle, RootFits, StageFits, Clean, ReqTypes, UnlockSucceeds, storeVars
<1>10. ASSUME NEW p \in Requests, UnlockCompensates(p) PROVE RootFits(x)'
    <2>1. UNCHANGED <<root>>
        BY <1>10 DEF UnlockCompensates, storeVars
    <2>2. CASE x = p
        BY <1>10, <2>1, <2>2, <1>v, <1>c, <1>g, <1>h, <1>d, UnlockCompensatesDoes
        DEF RootFits, StageFits, Clean, Kept
    <2>3. CASE x # p
        BY <1>10, <2>1, <2>3, <1>v, <1>c, <1>g, <1>h, <1>d, UnlockCompensatesDoes
        DEF RootFits, StageFits, Clean, Kept
    <2>. QED
        BY <2>2, <2>3
<1>11. ASSUME NEW p \in Requests, RollbackEnds(p) PROVE RootFits(x)'
    BY <1>11, <1>c, <1>g, <1>h, <1>d, RollbackEndsDoes, IdleIs
    DEF RootFits, StageFits, Clean, ReqTypes, RollbackEnds, storeVars
<1>12. CASE WorkerPanicBegins
    BY <1>12, <1>b, <1>c, <1>l, <1>g, <1>h, <1>d, WorkerAnswersDoes
    DEF SameRequest, RootFits, StageFits, Clean, ReqTypes, WorkerPanicBegins, storeVars
<1>13. CASE WorkerPanicEnds
    BY <1>13, <1>b, <1>c, <1>l, <1>g, <1>h, <1>d, WorkerAnswersDoes
    DEF SameRequest, RootFits, StageFits, Clean, ReqTypes, WorkerPanicEnds, storeVars
<1>14. CASE WorkerUnlocks
    BY <1>14, <1>b, <1>c, <1>l, <1>g, <1>h, <1>d, WorkerAnswersDoes
    DEF SameRequest, RootFits, StageFits, Clean, ReqTypes, WorkerUnlocks, storeVars
<1>15. ASSUME NEW t \in Tasks, Prepare(t) PROVE RootFits(x)'
    BY <1>15, <1>g, <1>h, <1>d
    DEF Prepare, storeVars, RootFits, StageFits, Clean, ReqTypes
<1>16. ASSUME NEW t \in Tasks, Submit(t) PROVE RootFits(x)'
    BY <1>16, <1>g, <1>h, <1>d
    DEF Submit, SubmitTask, storeVars, RootFits, StageFits, Clean, ReqTypes
<1>17. ASSUME NEW t \in Tasks, StartOperation(t) \/ EndOperation(t) PROVE RootFits(x)'
    BY <1>17, <1>g, <1>h, <1>d
    DEF StartOperation, EndOperation, storeVars, RootFits, StageFits, Clean, ReqTypes
<1>18. ASSUME NEW t \in Tasks, NEW k \in Tokens, Claim(t, k) PROVE RootFits(x)'
    BY <1>18, <1>g, <1>h, <1>d
    DEF Claim, ClaimNext, storeVars, RootFits, StageFits, Clean, ReqTypes
<1>19. ASSUME NEW t \in Tasks, NEW k \in Tokens, Finish(t, k) PROVE RootFits(x)'
    BY <1>19, <1>g, <1>h, <1>d
    DEF Finish, CompleteTask, CloseRow, ClosedRow, storeVars, RootFits, StageFits, Clean,
       ReqTypes
<1>20. CASE RootWorks
    BY <1>20, <1>a, <1>g, <1>h, <1>d
    DEF RootWorks, storeVars, RootFits, StageFits, Clean, ReqTypes, PlaneTypes
<1>21. CASE RootUnlocks
    BY <1>21, <1>c, <1>g, <1>h, <1>d, RootUnlocksDoes
    DEF Kept, Overlapped, RootFits, StageFits, Clean, ReqTypes
<1>22. CASE Crash
    BY <1>22, <1>c, <1>g, <1>h, <1>d, CrashDoes, IdleIs
    DEF RootFits, StageFits, Clean, ReqTypes, Crash, storeVars
<1>23. CASE Start
    BY <1>23, <1>g, <1>h, <1>d
    DEF Start, SynchronizePanicControls, storeVars, RootFits, StageFits, Clean, ReqTypes
<1>24. CASE UNCHANGED panicVars
    BY <1>24, <1>g, <1>h, <1>d
    DEF panicVars, storeVars, RootFits, StageFits, Clean, ReqTypes
<1>. QED
    BY <1>0, <1>1, <1>2, <1>3, <1>4, <1>5, <1>6, <1>7, <1>8, <1>9, <1>10, <1>11, <1>12, <1>13,
       <1>14, <1>15, <1>16, <1>17, <1>18, <1>19, <1>20, <1>21, <1>22, <1>23, <1>24
    DEF PanicNext

\* Every step keeps a lone unlock's look at the durable work true.
LEMMA UnlockFitsStep ==
    PanicInv /\ [PanicNext]_panicVars => \A x \in Requests : UnlockFits(x)'
<1>0. SUFFICES ASSUME PanicInv, [PanicNext]_panicVars, NEW x \in Requests PROVE UnlockFits(x)'
    OBVIOUS
<1>s. StoreTypes
    BY <1>0 DEF PanicInv, PanicTypeOK, PlanesFit, StoreTypes, VoiceTypes, PlaneTypes,
       LaneTypes, ReqTypes, RequestFits
<1>v. VoiceTypes
    BY <1>0 DEF PanicInv, PanicTypeOK, PlanesFit, StoreTypes, VoiceTypes, PlaneTypes,
       LaneTypes, ReqTypes, RequestFits
<1>b. LaneTypes
    BY <1>0 DEF PanicInv, PanicTypeOK, PlanesFit, StoreTypes, VoiceTypes, PlaneTypes,
       LaneTypes, ReqTypes, RequestFits
<1>c. ReqTypes
    BY <1>0 DEF PanicInv, PanicTypeOK, PlanesFit, StoreTypes, VoiceTypes, PlaneTypes,
       LaneTypes, ReqTypes, RequestFits
<1>a. PlaneTypes
    BY <1>0 DEF PanicInv, PanicTypeOK, PlanesFit, StoreTypes, VoiceTypes, PlaneTypes,
       LaneTypes, ReqTypes, RequestFits
<1>l. LaneFits
    BY <1>0 DEF PanicInv, PanicTypeOK, PlanesFit, StoreTypes, VoiceTypes, PlaneTypes,
       LaneTypes, ReqTypes, RequestFits
<1>g. \A q \in Requests : StageFits(q)
    BY <1>0 DEF PanicInv, PanicTypeOK, PlanesFit, StoreTypes, VoiceTypes, PlaneTypes,
       LaneTypes, ReqTypes, RequestFits
<1>h. UnlockFits(x)
    BY <1>0 DEF PanicInv, PanicTypeOK, PlanesFit, StoreTypes, VoiceTypes, PlaneTypes,
       LaneTypes, ReqTypes, RequestFits
<1>k. locked /\ Quiesced => Quiesced'
    BY <1>0, QuietStep DEF PanicInv, PanicTypeOK, PlanesFit, StoreTypes, VoiceTypes,
       PlaneTypes, LaneTypes, ReqTypes, RequestFits
<1>u. UpFits(x)
    BY <1>0 DEF PanicInv, PanicTypeOK, PlanesFit, StoreTypes, VoiceTypes, PlaneTypes,
       LaneTypes, ReqTypes, RequestFits
<1>1. ASSUME NEW p \in Requests, PanicBegins(p) PROVE UnlockFits(x)'
    BY <1>1, <1>s, <1>v, <1>b, <1>c, <1>g, <1>h, <1>k, <1>u, PanicBeginsDoes
    DEF Kept, Overlapped, UnlockFits, UpFits, StageFits, Unlocking, Flying, ReqTypes
<1>2. ASSUME NEW p \in Requests, RootPanics(p) PROVE UnlockFits(x)'
    BY <1>2, <1>c, <1>a, <1>g, <1>h, <1>k, <1>u, RootPanicsDoes
    DEF SameRequest, UnlockFits, UpFits, StageFits, Unlocking, Flying, ReqTypes, RootPanics,
       storeVars
<1>3. ASSUME NEW p \in Requests, PanicAnswers(p) PROVE UnlockFits(x)'
    <2>1. UNCHANGED <<row, locked>>
        BY <1>3 DEF PanicAnswers, storeVars
    <2>2. CASE x = p
        BY <1>3, <2>1, <2>2, <1>c, <1>g, <1>h, PanicAnswersDoes
        DEF UnlockFits, StageFits, Unlocking, Flying, Quiesced, Kept, IsIdle
    <2>3. CASE x # p
        BY <1>3, <2>1, <2>3, <1>c, <1>g, <1>h, PanicAnswersDoes
        DEF UnlockFits, StageFits, Unlocking, Flying, Quiesced, Kept, IsIdle
    <2>. QED
        BY <2>2, <2>3
<1>4. ASSUME NEW p \in Requests, WorkerUnheard(p) PROVE UnlockFits(x)'
    BY <1>4, <1>c, <1>g, <1>h, <1>k, <1>u, WorkerUnheardDoes
    DEF SameRequest, UnlockFits, UpFits, StageFits, Unlocking, Flying, ReqTypes,
       WorkerUnheard, storeVars
<1>5. ASSUME NEW p \in Requests, UnlockBegins(p) PROVE UnlockFits(x)'
    BY <1>5, <1>c, <1>g, <1>h, <1>k, <1>u, UnlockBeginsDoes
    DEF Kept, Overlapped, UnlockFits, UpFits, StageFits, Unlocking, Flying, ReqTypes,
       UnlockBegins, storeVars
<1>6. ASSUME NEW p \in Requests, UnlockSeesRoot(p) PROVE UnlockFits(x)'
    BY <1>6, <1>c, <1>g, <1>h, <1>k, <1>u, UnlockSeesRootDoes, IdleIs
    DEF UnlockFits, UpFits, StageFits, Unlocking, Flying, ReqTypes, UnlockSeesRoot, storeVars
<1>7. ASSUME NEW p \in Requests, UnlockHearsWorker(p) PROVE UnlockFits(x)'
    BY <1>7, <1>c, <1>g, <1>h, <1>k, <1>u, UnlockHearsWorkerDoes, IdleIs
    DEF UnlockFits, UpFits, StageFits, Unlocking, Flying, ReqTypes, UnlockHearsWorker,
       storeVars
<1>8. ASSUME NEW p \in Requests, UnlockSeesHealth(p) PROVE UnlockFits(x)'
    BY <1>8, <1>c, <1>g, <1>h, <1>k, <1>u, UnlockSeesHealthDoes
    DEF UnlockFits, UpFits, StageFits, Unlocking, Flying, ReqTypes, UnlockSeesHealth,
       storeVars
<1>9. ASSUME NEW p \in Requests, UnlockSucceeds(p) PROVE UnlockFits(x)'
    BY <1>9, <1>c, <1>g, <1>h, <1>k, <1>u, UnlockSucceedsDoes
    DEF Kept, IsIdle, UnlockFits, UpFits, StageFits, Unlocking, Flying, ReqTypes
<1>10. ASSUME NEW p \in Requests, UnlockCompensates(p) PROVE UnlockFits(x)'
    BY <1>10, <1>v, <1>c, <1>g, <1>h, <1>k, <1>u, UnlockCompensatesDoes
    DEF Kept, UnlockFits, UpFits, StageFits, Unlocking, Flying, ReqTypes
<1>11. ASSUME NEW p \in Requests, RollbackEnds(p) PROVE UnlockFits(x)'
    BY <1>11, <1>c, <1>g, <1>h, <1>k, <1>u, RollbackEndsDoes, IdleIs
    DEF UnlockFits, UpFits, StageFits, Unlocking, Flying, ReqTypes, RollbackEnds, storeVars
<1>12. CASE WorkerPanicBegins
    BY <1>12, <1>b, <1>c, <1>l, <1>g, <1>h, <1>k, <1>u, WorkerAnswersDoes
    DEF SameRequest, UnlockFits, UpFits, StageFits, Unlocking, Flying, ReqTypes,
       WorkerPanicBegins, storeVars
<1>13. CASE WorkerPanicEnds
    BY <1>13, <1>b, <1>c, <1>l, <1>g, <1>h, <1>k, <1>u, WorkerAnswersDoes
    DEF SameRequest, UnlockFits, UpFits, StageFits, Unlocking, Flying, ReqTypes,
       WorkerPanicEnds, storeVars
<1>14. CASE WorkerUnlocks
    BY <1>14, <1>b, <1>c, <1>l, <1>g, <1>h, <1>k, <1>u, WorkerAnswersDoes
    DEF SameRequest, UnlockFits, UpFits, StageFits, Unlocking, Flying, ReqTypes,
       WorkerUnlocks, storeVars
<1>15. ASSUME NEW t \in Tasks, Prepare(t) PROVE UnlockFits(x)'
    BY <1>15, <1>g, <1>h, <1>k, <1>u
    DEF Prepare, storeVars, UnlockFits, UpFits, StageFits, Unlocking, Flying, ReqTypes
<1>16. ASSUME NEW t \in Tasks, Submit(t) PROVE UnlockFits(x)'
    BY <1>16, <1>g, <1>h, <1>k, <1>u
    DEF Submit, SubmitTask, storeVars, UnlockFits, UpFits, StageFits, Unlocking, Flying,
       ReqTypes
<1>17. ASSUME NEW t \in Tasks, StartOperation(t) \/ EndOperation(t) PROVE UnlockFits(x)'
    BY <1>17, <1>g, <1>h, <1>k, <1>u
    DEF StartOperation, EndOperation, storeVars, UnlockFits, UpFits, StageFits, Unlocking,
       Flying, ReqTypes
<1>18. ASSUME NEW t \in Tasks, NEW k \in Tokens, Claim(t, k) PROVE UnlockFits(x)'
    BY <1>18, <1>g, <1>h, <1>k, <1>u
    DEF Claim, ClaimNext, storeVars, UnlockFits, UpFits, StageFits, Unlocking, Flying,
       ReqTypes
<1>19. ASSUME NEW t \in Tasks, NEW k \in Tokens, Finish(t, k) PROVE UnlockFits(x)'
    BY <1>19, <1>g, <1>h, <1>k, <1>u
    DEF Finish, CompleteTask, CloseRow, ClosedRow, storeVars, UnlockFits, UpFits, StageFits,
       Unlocking, Flying, ReqTypes
<1>20. CASE RootWorks
    BY <1>20, <1>g, <1>h, <1>k, <1>u
    DEF RootWorks, storeVars, UnlockFits, UpFits, StageFits, Unlocking, Flying, ReqTypes
<1>21. CASE RootUnlocks
    BY <1>21, <1>c, <1>g, <1>h, <1>k, <1>u, RootUnlocksDoes
    DEF Kept, Overlapped, UnlockFits, UpFits, StageFits, Unlocking, Flying, ReqTypes,
       RootUnlocks, storeVars
<1>22. CASE Crash
    BY <1>22, <1>c, <1>g, <1>h, <1>k, <1>u, CrashDoes, IdleIs
    DEF UnlockFits, UpFits, StageFits, Unlocking, Flying, ReqTypes, Crash, storeVars
<1>23. CASE Start
    BY <1>23, <1>g, <1>h, <1>k, <1>u
    DEF Start, SynchronizePanicControls, storeVars, UnlockFits, UpFits, StageFits, Unlocking,
       Flying, ReqTypes
<1>24. CASE UNCHANGED panicVars
    BY <1>24, <1>g, <1>h, <1>k, <1>u
    DEF panicVars, storeVars, UnlockFits, UpFits, StageFits, Unlocking, Flying, ReqTypes
<1>. QED
    BY <1>0, <1>1, <1>2, <1>3, <1>4, <1>5, <1>6, <1>7, <1>8, <1>9, <1>10, <1>11, <1>12, <1>13,
       <1>14, <1>15, <1>16, <1>17, <1>18, <1>19, <1>20, <1>21, <1>22, <1>23, <1>24
    DEF PanicNext

\* No step leaves a request in flight in a dead controller.
LEMMA UpStep ==
    PanicInv /\ [PanicNext]_panicVars => \A x \in Requests : UpFits(x)'
<1>0. SUFFICES ASSUME PanicInv, [PanicNext]_panicVars, NEW x \in Requests PROVE UpFits(x)'
    OBVIOUS
<1>s. StoreTypes
    BY <1>0 DEF PanicInv, PanicTypeOK, PlanesFit, StoreTypes, VoiceTypes, PlaneTypes,
       LaneTypes, ReqTypes, RequestFits
<1>v. VoiceTypes
    BY <1>0 DEF PanicInv, PanicTypeOK, PlanesFit, StoreTypes, VoiceTypes, PlaneTypes,
       LaneTypes, ReqTypes, RequestFits
<1>b. LaneTypes
    BY <1>0 DEF PanicInv, PanicTypeOK, PlanesFit, StoreTypes, VoiceTypes, PlaneTypes,
       LaneTypes, ReqTypes, RequestFits
<1>c. ReqTypes
    BY <1>0 DEF PanicInv, PanicTypeOK, PlanesFit, StoreTypes, VoiceTypes, PlaneTypes,
       LaneTypes, ReqTypes, RequestFits
<1>a. PlaneTypes
    BY <1>0 DEF PanicInv, PanicTypeOK, PlanesFit, StoreTypes, VoiceTypes, PlaneTypes,
       LaneTypes, ReqTypes, RequestFits
<1>l. LaneFits
    BY <1>0 DEF PanicInv, PanicTypeOK, PlanesFit, StoreTypes, VoiceTypes, PlaneTypes,
       LaneTypes, ReqTypes, RequestFits
<1>g. StageFits(x)
    BY <1>0 DEF PanicInv, PanicTypeOK, PlanesFit, StoreTypes, VoiceTypes, PlaneTypes,
       LaneTypes, ReqTypes, RequestFits
<1>d. UpFits(x)
    BY <1>0 DEF PanicInv, PanicTypeOK, PlanesFit, StoreTypes, VoiceTypes, PlaneTypes,
       LaneTypes, ReqTypes, RequestFits
<1>1. ASSUME NEW p \in Requests, PanicBegins(p) PROVE UpFits(x)'
    BY <1>1, <1>s, <1>v, <1>b, <1>c, <1>g, <1>d, PanicBeginsDoes
    DEF Kept, Overlapped, UpFits, Flying, StageFits, ReqTypes
<1>2. ASSUME NEW p \in Requests, RootPanics(p) PROVE UpFits(x)'
    BY <1>2, <1>c, <1>a, <1>g, <1>d, RootPanicsDoes
    DEF SameRequest, UpFits, Flying, StageFits, ReqTypes, RootPanics
<1>3. ASSUME NEW p \in Requests, PanicAnswers(p) PROVE UpFits(x)'
    <2>1. UNCHANGED <<up>>
        BY <1>3 DEF PanicAnswers, storeVars
    <2>2. CASE x = p
        BY <1>3, <2>1, <2>2, <1>c, <1>d, PanicAnswersDoes
        DEF UpFits, Flying, Kept, IsIdle
    <2>3. CASE x # p
        BY <1>3, <2>1, <2>3, <1>c, <1>d, PanicAnswersDoes
        DEF UpFits, Flying, Kept, IsIdle
    <2>. QED
        BY <2>2, <2>3
<1>4. ASSUME NEW p \in Requests, WorkerUnheard(p) PROVE UpFits(x)'
    BY <1>4, <1>c, <1>g, <1>d, WorkerUnheardDoes
    DEF SameRequest, UpFits, Flying, StageFits, ReqTypes, WorkerUnheard
<1>5. ASSUME NEW p \in Requests, UnlockBegins(p) PROVE UpFits(x)'
    BY <1>5, <1>c, <1>g, <1>d, UnlockBeginsDoes
    DEF Kept, Overlapped, UpFits, Flying, StageFits, ReqTypes, UnlockBegins
<1>6. ASSUME NEW p \in Requests, UnlockSeesRoot(p) PROVE UpFits(x)'
    BY <1>6, <1>c, <1>g, <1>d, UnlockSeesRootDoes, IdleIs
    DEF UpFits, Flying, StageFits, ReqTypes, UnlockSeesRoot
<1>7. ASSUME NEW p \in Requests, UnlockHearsWorker(p) PROVE UpFits(x)'
    BY <1>7, <1>c, <1>g, <1>d, UnlockHearsWorkerDoes, IdleIs
    DEF UpFits, Flying, StageFits, ReqTypes, UnlockHearsWorker
<1>8. ASSUME NEW p \in Requests, UnlockSeesHealth(p) PROVE UpFits(x)'
    BY <1>8, <1>c, <1>g, <1>d, UnlockSeesHealthDoes
    DEF UpFits, Flying, StageFits, ReqTypes, UnlockSeesHealth
<1>9. ASSUME NEW p \in Requests, UnlockSucceeds(p) PROVE UpFits(x)'
    BY <1>9, <1>c, <1>g, <1>d, UnlockSucceedsDoes
    DEF Kept, IsIdle, UpFits, Flying, StageFits, ReqTypes, UnlockSucceeds
<1>10. ASSUME NEW p \in Requests, UnlockCompensates(p) PROVE UpFits(x)'
    <2>1. UNCHANGED <<up>>
        BY <1>10 DEF UnlockCompensates, storeVars
    <2>2. CASE x = p
        BY <1>10, <2>1, <2>2, <1>v, <1>c, <1>d, UnlockCompensatesDoes
        DEF UpFits, Flying, Kept
    <2>3. CASE x # p
        BY <1>10, <2>1, <2>3, <1>v, <1>c, <1>d, UnlockCompensatesDoes
        DEF UpFits, Flying, Kept
    <2>. QED
        BY <2>2, <2>3
<1>11. ASSUME NEW p \in Requests, RollbackEnds(p) PROVE UpFits(x)'
    BY <1>11, <1>c, <1>g, <1>d, RollbackEndsDoes, IdleIs
    DEF UpFits, Flying, StageFits, ReqTypes, RollbackEnds
<1>12. CASE WorkerPanicBegins
    BY <1>12, <1>b, <1>c, <1>l, <1>g, <1>d, WorkerAnswersDoes
    DEF SameRequest, UpFits, Flying, StageFits, ReqTypes, WorkerPanicBegins
<1>13. CASE WorkerPanicEnds
    BY <1>13, <1>b, <1>c, <1>l, <1>g, <1>d, WorkerAnswersDoes
    DEF SameRequest, UpFits, Flying, StageFits, ReqTypes, WorkerPanicEnds
<1>14. CASE WorkerUnlocks
    BY <1>14, <1>b, <1>c, <1>l, <1>g, <1>d, WorkerAnswersDoes
    DEF SameRequest, UpFits, Flying, StageFits, ReqTypes, WorkerUnlocks
<1>15. ASSUME NEW t \in Tasks, Prepare(t) PROVE UpFits(x)'
    BY <1>15, <1>g, <1>d
    DEF Prepare, storeVars, UpFits, Flying, StageFits, ReqTypes
<1>16. ASSUME NEW t \in Tasks, Submit(t) PROVE UpFits(x)'
    BY <1>16, <1>g, <1>d
    DEF Submit, SubmitTask, storeVars, UpFits, Flying, StageFits, ReqTypes
<1>17. ASSUME NEW t \in Tasks, StartOperation(t) \/ EndOperation(t) PROVE UpFits(x)'
    BY <1>17, <1>g, <1>d
    DEF StartOperation, EndOperation, storeVars, UpFits, Flying, StageFits, ReqTypes
<1>18. ASSUME NEW t \in Tasks, NEW k \in Tokens, Claim(t, k) PROVE UpFits(x)'
    BY <1>18, <1>g, <1>d
    DEF Claim, ClaimNext, storeVars, UpFits, Flying, StageFits, ReqTypes
<1>19. ASSUME NEW t \in Tasks, NEW k \in Tokens, Finish(t, k) PROVE UpFits(x)'
    BY <1>19, <1>g, <1>d
    DEF Finish, CompleteTask, CloseRow, ClosedRow, storeVars, UpFits, Flying, StageFits,
       ReqTypes
<1>20. CASE RootWorks
    BY <1>20, <1>g, <1>d
    DEF RootWorks, storeVars, UpFits, Flying, StageFits, ReqTypes
<1>21. CASE RootUnlocks
    BY <1>21, <1>c, <1>g, <1>d, RootUnlocksDoes
    DEF Kept, Overlapped, UpFits, Flying, StageFits, ReqTypes, RootUnlocks
<1>22. CASE Crash
    BY <1>22, <1>c, <1>g, <1>d, CrashDoes, IdleIs
    DEF UpFits, Flying, StageFits, ReqTypes
<1>23. CASE Start
    BY <1>23, <1>g, <1>d
    DEF Start, SynchronizePanicControls, storeVars, UpFits, Flying, StageFits, ReqTypes
<1>24. CASE UNCHANGED panicVars
    BY <1>24, <1>g, <1>d
    DEF panicVars, storeVars, UpFits, Flying, StageFits, ReqTypes
<1>. QED
    BY <1>0, <1>1, <1>2, <1>3, <1>4, <1>5, <1>6, <1>7, <1>8, <1>9, <1>10, <1>11, <1>12, <1>13,
       <1>14, <1>15, <1>16, <1>17, <1>18, <1>19, <1>20, <1>21, <1>22, <1>23, <1>24
    DEF PanicNext

\* A request joins the lane while none of its calls is under way.
LEMMA JoinFits ==
    ASSUME LaneTypes, LaneFits, NEW p \in Requests, NEW kind \in {"panic", "unlock"},
           req[p].worker # "sent",
           worker' = [worker EXCEPT !.lane = Joined(p, kind)],
           req'[p].worker = "sent", kind = "unlock" => req'[p].stage = "worker",
           \A x \in Requests \ {p} : req'[x].worker = req[x].worker /\ req'[x].stage = req[x].stage
    PROVE  LaneFits'
<1> DEFINE n == Len(worker.lane)
<1>0. LaneTypes /\ LaneFits
    OBVIOUS
<1>1. /\ n \in Nat /\ DOMAIN worker.lane = 1 .. n /\ DOMAIN worker'.lane = 1 .. n + 1
      /\ \A i \in 1 .. n : worker'.lane[i] = worker.lane[i]
      /\ worker'.lane[n + 1].kind = kind /\ worker'.lane[n + 1].by = p
      /\ worker'.draining = worker.draining /\ worker'.fence = worker.fence
    BY <1>0, LaneJoined DEF LaneTypes
<1>2. worker.lane # <<>> => n # 0
    BY <1>0, EmptySeq DEF LaneTypes
<1>3. worker'.lane # <<>>
    BY <1>1
<1> HIDE DEF n
<1>4. worker'.draining => worker'.lane # <<>> /\ worker'.lane[1].kind = "panic" /\ worker'.fence
    <2>1. worker.draining => n # 0 /\ worker.lane[1].kind = "panic" /\ worker.fence
        BY <1>0, <1>2 DEF LaneFits
    <2> QED
        BY <1>1, <1>3, <2>1
<1>5. \A i \in 1 .. n : worker.lane[i].by \in Requests =>
         /\ worker.lane[i].by # p
         /\ req'[worker.lane[i].by].worker = "sent"
         /\ worker.lane[i].kind = "unlock" => req'[worker.lane[i].by].stage = "worker"
    BY <1>0, <1>1 DEF LaneFits
<1>6. \A i, j \in 1 .. n :
         worker.lane[i].by = worker.lane[j].by /\ worker.lane[i].by \in Requests => i = j
    BY <1>0, <1>1 DEF LaneFits
<1>7. \A i \in 1 .. n + 1 : i \in 1 .. n \/ i = n + 1
    BY <1>1
<1>8. \A i, j \in DOMAIN worker'.lane :
         worker'.lane[i].by = worker'.lane[j].by /\ worker'.lane[i].by \in Requests => i = j
    BY <1>1, <1>5, <1>6, <1>7
<1>9. \A i \in DOMAIN worker'.lane : worker'.lane[i].by \in Requests =>
         /\ req'[worker'.lane[i].by].worker = "sent"
         /\ worker'.lane[i].kind = "unlock" => req'[worker'.lane[i].by].stage = "worker"
    BY <1>1, <1>5, <1>7
<1> QED
    BY <1>4, <1>8, <1>9 DEF LaneFits

\* The head of the lane leaves it.
LEMMA ServeFits ==
    ASSUME LaneTypes, LaneFits, worker.lane # <<>>,
           worker'.lane = Tail(worker.lane), worker'.draining = FALSE,
           \A x \in Requests : x # worker.lane[1].by =>
               req'[x].worker = req[x].worker /\ req'[x].stage = req[x].stage
    PROVE  LaneFits'
<1> DEFINE n == Len(worker.lane)
<1>0. LaneTypes /\ LaneFits
    OBVIOUS
<1>1. /\ n \in Nat \ {0} /\ DOMAIN worker.lane = 1 .. n /\ DOMAIN worker'.lane = 1 .. n - 1
      /\ \A i \in 1 .. n - 1 : worker'.lane[i] = worker.lane[i + 1]
    BY <1>0, LaneServed DEF LaneTypes
<1> HIDE DEF n
<1>2. \A i \in 1 .. n - 1 : i + 1 \in 1 .. n /\ 1 \in 1 .. n /\ i + 1 # 1
    BY <1>1
<1>3. \A i \in 1 .. n - 1 : worker.lane[i + 1].by \in Requests =>
          worker.lane[i + 1].by # worker.lane[1].by
    BY <1>0, <1>1, <1>2 DEF LaneFits
<1>4. \A i \in 1 .. n - 1 : worker.lane[i + 1].by \in Requests =>
         /\ req'[worker.lane[i + 1].by].worker = "sent"
         /\ worker.lane[i + 1].kind = "unlock" => req'[worker.lane[i + 1].by].stage = "worker"
    BY <1>0, <1>1, <1>2, <1>3 DEF LaneFits
<1>5. \A i, j \in 1 .. n - 1 :
         worker.lane[i + 1].by = worker.lane[j + 1].by /\ worker.lane[i + 1].by \in Requests => i = j
    <2> SUFFICES ASSUME NEW i \in 1 .. n - 1, NEW j \in 1 .. n - 1,
                        worker.lane[i + 1].by = worker.lane[j + 1].by,
                        worker.lane[i + 1].by \in Requests
                 PROVE  i = j
        OBVIOUS
    <2>1. i + 1 = j + 1
        BY <1>0, <1>1, <1>2 DEF LaneFits
    <2> QED
        BY <2>1, <1>1
<1> QED
    BY <1>1, <1>4, <1>5 DEF LaneFits

\* Callers leave, their calls stay.
LEMMA OrphanFits ==
    ASSUME LaneTypes, LaneFits, NEW P, P \subseteq Requests,
           worker' = [worker EXCEPT !.lane = Orphaned(P)],
           \A x \in Requests \ P : req'[x].worker = req[x].worker /\ req'[x].stage = req[x].stage
    PROVE  LaneFits'
<1>0. LaneTypes /\ LaneFits
    OBVIOUS
<1>1. /\ worker'.lane = Orphaned(P)
      /\ worker'.draining = worker.draining /\ worker'.fence = worker.fence
    BY <1>0 DEF LaneTypes
<1>2. /\ DOMAIN worker.lane = 1 .. Len(worker.lane) /\ DOMAIN worker'.lane = DOMAIN worker.lane
      /\ Len(worker'.lane) = Len(worker.lane)
      /\ worker'.lane \in Seq(LaneCalls)
      /\ \A i \in DOMAIN worker.lane :
            /\ worker'.lane[i].kind = worker.lane[i].kind
            /\ worker'.lane[i].by \in Requests =>
                  worker'.lane[i].by = worker.lane[i].by /\ worker.lane[i].by \notin P
    BY <1>0, <1>1, LaneOrphaned, PanicAssumption DEF LaneTypes
<1>3. worker.lane # <<>> => worker'.lane # <<>> /\ 1 \in DOMAIN worker.lane
    <2>1. worker.lane # <<>> => Len(worker.lane) \in Nat \ {0}
        BY <1>0, EmptySeq DEF LaneTypes
    <2>2. worker'.lane = <<>> => Len(worker'.lane) = 0
        BY EmptySeq
    <2> QED
        BY <1>2, <2>1, <2>2
<1>4. worker'.draining => worker'.lane # <<>> /\ worker'.lane[1].kind = "panic" /\ worker'.fence
    BY <1>0, <1>1, <1>2, <1>3 DEF LaneFits
<1>5. \A i, j \in DOMAIN worker'.lane :
         worker'.lane[i].by = worker'.lane[j].by /\ worker'.lane[i].by \in Requests => i = j
    BY <1>0, <1>2 DEF LaneFits
<1>6. \A i \in DOMAIN worker'.lane : worker'.lane[i].by \in Requests =>
         /\ req'[worker'.lane[i].by].worker = "sent"
         /\ worker'.lane[i].kind = "unlock" => req'[worker'.lane[i].by].stage = "worker"
    BY <1>0, <1>2 DEF LaneFits
<1> QED
    BY <1>4, <1>5, <1>6 DEF LaneFits

\* The lane stays as it is, and so do those who wait.
LEMMA StayFits ==
    ASSUME LaneTypes, LaneFits, worker' = worker,
           \A x \in Requests : req[x].worker = "sent" =>
               req'[x].worker = "sent" /\ (req[x].stage = "worker" => req'[x].stage = "worker")
    PROVE  LaneFits'
BY DEF LaneFits

\* Every step keeps the lane and those who wait in it together.
LEMMA LaneStep ==
    PanicInv /\ [PanicNext]_panicVars => LaneFits'
<1>0. SUFFICES ASSUME PanicInv, [PanicNext]_panicVars PROVE LaneFits'
    OBVIOUS
<1>t. StoreTypes /\ VoiceTypes /\ PlaneTypes
    BY <1>0 DEF PanicInv, PanicTypeOK, PlanesFit, StoreTypes, VoiceTypes, PlaneTypes
<1>b. LaneTypes /\ ReqTypes
    BY <1>0 DEF PanicInv, PanicTypeOK, LaneTypes, ReqTypes
<1>l. LaneFits
    BY <1>0 DEF PanicInv
<1>g. \A q \in Requests : StageFits(q)
    BY <1>0 DEF PanicInv, RequestFits
<1>1. ASSUME NEW p \in Requests, PanicBegins(p) PROVE LaneFits'
    <2>1. req[p].worker # "sent"
        BY <1>1, <1>g DEF PanicBegins, Flying, StageFits
    <2>2. /\ \/ req'[p].worker = "sent" /\ worker' = [worker EXCEPT !.lane = Joined(p, "panic")]
             \/ worker' = worker
          /\ \A x \in Requests \ {p} : req'[x].worker = req[x].worker /\ req'[x].stage = req[x].stage
        BY <1>1, <1>t, <1>b, PanicBeginsDoes DEF Overlapped, Kept
    <2>. QED
        BY <2>1, <2>2, <1>b, <1>l, JoinFits, StayFits
<1>2. ASSUME NEW p \in Requests, RootPanics(p) PROVE LaneFits'
    <2>1. \A x \in Requests : req'[x].worker = req[x].worker /\ req'[x].stage = req[x].stage
        BY <1>2, <1>t, <1>b, RootPanicsDoes DEF SameRequest
    <2>. QED
        BY <1>2, <2>1, <1>b, <1>l, StayFits DEF RootPanics
<1>3. ASSUME NEW p \in Requests, PanicAnswers(p) PROVE LaneFits'
    <2>1. \A x \in Requests \ {p} : req'[x].worker = req[x].worker /\ req'[x].stage = req[x].stage
        BY <1>3, <1>b, PanicAnswersDoes DEF Kept
    <2>. QED
        BY <1>3, <2>1, <1>b, <1>l, StayFits DEF PanicAnswers
<1>4. ASSUME NEW p \in Requests, WorkerUnheard(p) PROVE LaneFits'
    <2>1. \A x \in Requests \ {p} : req'[x].worker = req[x].worker /\ req'[x].stage = req[x].stage
        BY <1>4, <1>b, WorkerUnheardDoes
    <2>. QED
        BY <1>4, <2>1, <1>b, <1>l, OrphanFits DEF WorkerUnheard
<1>5. ASSUME NEW p \in Requests, UnlockBegins(p) PROVE LaneFits'
    <2>1. \A x \in Requests \ {p} : req'[x].worker = req[x].worker /\ req'[x].stage = req[x].stage
        BY <1>5, <1>b, UnlockBeginsDoes DEF Overlapped, Kept
    <2>2. req[p].worker # "sent"
        BY <1>5, <1>g DEF UnlockBegins, Flying, StageFits
    <2>. QED
        BY <1>5, <2>1, <2>2, <1>b, <1>l, StayFits DEF UnlockBegins
<1>6. ASSUME NEW p \in Requests, UnlockSeesRoot(p) PROVE LaneFits'
    <2>1. req[p].worker # "sent"
        BY <1>6, <1>g DEF UnlockSeesRoot, StageFits
    <2>2. /\ \/ /\ req'[p].worker = "sent" /\ req'[p].stage = "worker"
                /\ worker' = [worker EXCEPT !.lane = Joined(p, "unlock")]
             \/ worker' = worker
          /\ \A x \in Requests \ {p} : req'[x].worker = req[x].worker /\ req'[x].stage = req[x].stage
        BY <1>6, <1>b, UnlockSeesRootDoes
    <2>. QED
        BY <2>1, <2>2, <1>b, <1>l, JoinFits, StayFits
<1>7. ASSUME NEW p \in Requests, UnlockHearsWorker(p) PROVE LaneFits'
    <2>1. /\ req[p].worker # "sent"
          /\ \A x \in Requests \ {p} : req'[x].worker = req[x].worker /\ req'[x].stage = req[x].stage
        BY <1>7, <1>b, UnlockHearsWorkerDoes
    <2>. QED
        BY <1>7, <2>1, <1>b, <1>l, StayFits DEF UnlockHearsWorker
<1>8. ASSUME NEW p \in Requests, UnlockSeesHealth(p) PROVE LaneFits'
    <2>1. req[p].worker # "sent"
        BY <1>8, <1>g DEF UnlockSeesHealth, StageFits
    <2>2. /\ \/ req'[p].worker = "sent" /\ worker' = [worker EXCEPT !.lane = Joined(p, "panic")]
             \/ worker' = worker
          /\ \A x \in Requests \ {p} : req'[x].worker = req[x].worker /\ req'[x].stage = req[x].stage
        BY <1>8, <1>b, UnlockSeesHealthDoes
    <2>. QED
        BY <2>1, <2>2, <1>b, <1>l, JoinFits, StayFits
<1>9. ASSUME NEW p \in Requests, UnlockSucceeds(p) PROVE LaneFits'
    <2>1. /\ req[p].stage = "commit"
          /\ \A x \in Requests \ {p} : req'[x].worker = req[x].worker /\ req'[x].stage = req[x].stage
        BY <1>9, <1>b, UnlockSucceedsDoes DEF Kept
    <2>2. req[p].worker # "sent"
        BY <2>1, <1>g DEF StageFits
    <2>. QED
        BY <1>9, <2>1, <2>2, <1>b, <1>l, StayFits DEF UnlockSucceeds
<1>10. ASSUME NEW p \in Requests, UnlockCompensates(p) PROVE LaneFits'
    <2>1. req[p].worker # "sent"
        BY <1>10, <1>g DEF UnlockCompensates, StageFits
    <2>2. /\ \/ req'[p].worker = "sent" /\ worker' = [worker EXCEPT !.lane = Joined(p, "panic")]
             \/ worker' = worker
          /\ \A x \in Requests \ {p} : req'[x].worker = req[x].worker /\ req'[x].stage = req[x].stage
        BY <1>10, <1>t, <1>b, UnlockCompensatesDoes DEF Kept
    <2>. QED
        BY <2>1, <2>2, <1>b, <1>l, JoinFits, StayFits
<1>11. ASSUME NEW p \in Requests, RollbackEnds(p) PROVE LaneFits'
    <2>1. /\ req[p].worker # "sent"
          /\ \A x \in Requests \ {p} : req'[x].worker = req[x].worker /\ req'[x].stage = req[x].stage
        BY <1>11, <1>b, RollbackEndsDoes
    <2>. QED
        BY <1>11, <2>1, <1>b, <1>l, StayFits DEF RollbackEnds
<1>12. ASSUME WorkerPanicBegins \/ WorkerPanicEnds \/ WorkerUnlocks PROVE LaneFits'
    <2>1. \A x \in Requests : x # worker.lane[1].by =>
              req'[x].worker = req[x].worker /\ req'[x].stage = req[x].stage
        BY <1>12, <1>b, <1>l, WorkerAnswersDoes
    <2>2. CASE worker.lane # <<>> /\ worker'.lane = Tail(worker.lane) /\ worker'.draining = FALSE
        BY <2>1, <2>2, <1>b, <1>l, ServeFits
    <2>3. CASE WorkerPanicBegins /\ worker' = [worker EXCEPT !.fence = TRUE, !.draining = TRUE]
        <3>1. req' = req /\ worker.lane # <<>> /\ worker.lane[1].kind = "panic"
            BY <2>3, <1>b, LaneServed DEF WorkerPanicBegins, LaneTypes
        <3>2. worker'.lane = worker.lane /\ worker'.fence
            BY <2>3, <1>b DEF LaneTypes
        <3>. QED
            BY <3>1, <3>2, <1>l DEF LaneFits
    <2>4. CASE WorkerPanicBegins
        BY <2>2, <2>3, <2>4, <1>b DEF WorkerPanicBegins, LaneTypes
    <2>5. CASE WorkerPanicEnds
        BY <2>2, <2>5, <1>b, <1>l DEF WorkerPanicEnds, LaneTypes, LaneFits
    <2>6. CASE WorkerUnlocks
        <3>1. worker.draining => worker.lane[1].kind = "panic"
            BY <1>l DEF LaneFits
        <3>2. worker.lane # <<>> /\ worker.lane[1].kind = "unlock"
            BY <2>6, <1>b, LaneServed DEF WorkerUnlocks, LaneTypes
        <3>3. worker'.lane = Tail(worker.lane) /\ worker'.draining = worker.draining
            BY <2>6, <1>b DEF WorkerUnlocks, LaneTypes
        <3>4. worker'.draining = FALSE
            BY <3>1, <3>2, <3>3, <1>b DEF LaneTypes
        <3>. QED
            BY <3>2, <3>3, <3>4, <2>2
    <2>. QED
        BY <1>12, <2>4, <2>5, <2>6
<1>13. CASE Crash
    <2>1. worker' = [worker EXCEPT !.lane = Orphaned(Requests)]
        BY <1>13 DEF Crash
    <2>. QED
        BY <2>1, <1>b, <1>l, OrphanFits
<1>14. CASE RootUnlocks
    <2>1. \A x \in Requests : req'[x].worker = req[x].worker /\ req'[x].stage = req[x].stage
        BY <1>14, <1>b, RootUnlocksDoes DEF Overlapped, Kept
    <2>. QED
        BY <1>14, <2>1, <1>b, <1>l, StayFits DEF RootUnlocks
<1>15. ASSUME UNCHANGED <<worker, req>> PROVE LaneFits'
    BY <1>15, <1>b, <1>l, StayFits
<1>16. ASSUME NEW t \in Tasks, Prepare(t) \/ Submit(t) \/ StartOperation(t) \/ EndOperation(t)
       PROVE  UNCHANGED <<worker, req>>
    BY <1>16 DEF Prepare, Submit, StartOperation, EndOperation
<1>17. ASSUME NEW t \in Tasks, NEW k \in Tokens, Claim(t, k) \/ Finish(t, k)
       PROVE  UNCHANGED <<worker, req>>
    BY <1>17 DEF Claim, Finish
<1>18. ASSUME RootWorks \/ Start \/ UNCHANGED panicVars PROVE UNCHANGED <<worker, req>>
    BY <1>18 DEF RootWorks, Start, panicVars
<1>. QED
    BY <1>0, <1>1, <1>2, <1>3, <1>4, <1>5, <1>6, <1>7, <1>8, <1>9, <1>10, <1>11, <1>12, <1>13,
       <1>14, <1>15, <1>16, <1>17, <1>18 DEF PanicNext

\* A request that waits for nothing has no call in the lane.
LEMMA NoCallOf ==
    ASSUME LaneFits, NEW p \in Requests, req[p].worker # "sent"
    PROVE  \A i \in DOMAIN worker.lane : worker.lane[i].by # p
BY DEF LaneFits

\* One more panic in the lane.
LEMMA JoinedWorkerFits ==
    ASSUME LaneTypes, LaneFits, NEW p \in Requests, req[p].worker # "sent",
           worker' = [worker EXCEPT !.lane = Joined(p, "panic")], op' = op,
           NEW x \in Requests, WorkerFits(x),
           \/ x # p /\ Overlapped(x)
           \/ x = p /\ req'[x].worker = "sent" /\ req'[x].said = "none"
    PROVE  WorkerFits(x)'
<1> DEFINE n == Len(worker.lane)
<1>0. LaneTypes /\ LaneFits /\ WorkerFits(x)
    OBVIOUS
<1>1. /\ n \in Nat /\ DOMAIN worker.lane = 1 .. n /\ DOMAIN worker'.lane = 1 .. n + 1
      /\ \A i \in 1 .. n : worker'.lane[i] = worker.lane[i]
      /\ worker'.lane[n + 1].kind = "panic" /\ worker'.lane[n + 1].by = p
      /\ worker'.fence = worker.fence
    BY <1>0, LaneJoined DEF LaneTypes
<1> HIDE DEF n
<1>2. \A i \in 1 .. n + 1 : i \in 1 .. n \/ i = n + 1
    BY <1>1
<1>3. CASE x # p /\ Overlapped(x)
    <2> SUFFICES ASSUME Clean(x)' PROVE WorkerFits(x)'
        BY DEF WorkerFits
    <2>1. /\ Clean(x) /\ req'[x].worker = req[x].worker /\ req'[x].said = req[x].said
        BY <1>3 DEF Clean, Overlapped, Kept
    <2>2. \A i, j \in 1 .. n : i <= j /\ worker.lane[i].by = x => worker.lane[j].kind = "panic"
        BY <1>0, <1>1, <2>1 DEF WorkerFits
    <2>3. req[x].worker \in {"accepted", "quiesced"} \/ Acknowledged(x) =>
              worker.fence /\ \A i \in 1 .. n : worker.lane[i].kind = "panic"
        BY <1>0, <1>1, <2>1 DEF WorkerFits
    <2>4. req[x].worker = "quiesced" \/ req[x].said = "stopped" => op = {}
        BY <1>0, <2>1 DEF WorkerFits
    <2>5. \A i, j \in 1 .. n + 1 :
              i <= j /\ worker'.lane[i].by = x => worker'.lane[j].kind = "panic"
        <3> SUFFICES ASSUME NEW i \in 1 .. n + 1, NEW j \in 1 .. n + 1,
                            i <= j, worker'.lane[i].by = x
                     PROVE  worker'.lane[j].kind = "panic"
            OBVIOUS
        <3>1. CASE j = n + 1
            BY <1>1, <3>1
        <3>2. CASE j \in 1 .. n
            <4>1. i \in 1 .. n
                BY <1>1, <3>2
            <4> QED
                BY <1>1, <2>2, <3>2, <4>1
        <3> QED
            BY <1>2, <3>1, <3>2
    <2>6. req[x].worker \in {"accepted", "quiesced"} \/ Acknowledged(x) =>
              worker'.fence /\ \A i \in 1 .. n + 1 : worker'.lane[i].kind = "panic"
        BY <1>1, <1>2, <2>3
    <2>7. op' = op
        OBVIOUS
    <2> QED
        BY <1>1, <2>1, <2>4, <2>5, <2>6, <2>7 DEF WorkerFits, Acknowledged
<1>4. CASE x = p /\ req'[x].worker = "sent" /\ req'[x].said = "none"
    <2>1. \A i \in 1 .. n : worker'.lane[i].by # x
        BY <1>0, <1>1, <1>4, NoCallOf
    <2>2. \A i, j \in 1 .. n + 1 :
              i <= j /\ worker'.lane[i].by = x => worker'.lane[j].kind = "panic"
        BY <1>1, <1>2, <2>1
    <2> QED
        BY <1>1, <1>4, <2>2 DEF WorkerFits, Acknowledged
<1> QED
    BY <1>3, <1>4

\* The head of the lane is served.
LEMMA ServedWorkerFits ==
    ASSUME LaneTypes, ReqTypes, LaneFits, NEW x \in Requests, WorkerFits(x), StageFits(x),
           WorkerPanicBegins \/ WorkerPanicEnds \/ WorkerUnlocks,
           worker.lane # <<>>, worker'.lane = Tail(worker.lane),
           worker'.fence = worker.fence \/ worker.lane[1].kind = "unlock"
    PROVE  WorkerFits(x)'
<1> DEFINE n == Len(worker.lane)
<1>0. LaneTypes /\ ReqTypes /\ LaneFits /\ WorkerFits(x) /\ StageFits(x)
    OBVIOUS
<1>1. /\ n \in Nat \ {0} /\ DOMAIN worker.lane = 1 .. n /\ DOMAIN worker'.lane = 1 .. n - 1
      /\ \A i \in 1 .. n - 1 : worker'.lane[i] = worker.lane[i + 1]
    BY <1>0, LaneServed DEF LaneTypes
<1> HIDE DEF n
<1>2. \A i \in 1 .. n - 1 : i + 1 \in 1 .. n
    BY <1>1
<1>3. 1 \in 1 .. n /\ \A j \in 1 .. n : 1 <= j
    BY <1>1
<1>4. op' = op
    BY DEF WorkerPanicBegins, WorkerPanicEnds, WorkerUnlocks
<1>5. \/ req'[x] = req[x]
      \/ /\ x = worker.lane[1].by
         /\ req[x].worker = "sent"
         /\ SameRequest(x)
         /\ req'[x].worker # "failed" => worker'.fence \/ worker.lane[1].kind = "unlock"
         /\ req'[x].worker = "quiesced" => op = {}
    BY <1>0, WorkerAnswersDoes
<1> SUFFICES ASSUME Clean(x)' PROVE WorkerFits(x)'
    BY DEF WorkerFits
<1>6. Clean(x)
    BY <1>5 DEF Clean, SameRequest
<1>7. \A i, j \in 1 .. n : i <= j /\ worker.lane[i].by = x => worker.lane[j].kind = "panic"
    BY <1>0, <1>1, <1>6 DEF WorkerFits
<1>8. \A i, j \in 1 .. n - 1 :
          i <= j /\ worker'.lane[i].by = x => worker'.lane[j].kind = "panic"
    <2> SUFFICES ASSUME NEW i \in 1 .. n - 1, NEW j \in 1 .. n - 1, i <= j,
                        worker'.lane[i].by = x
                 PROVE  worker'.lane[j].kind = "panic"
        OBVIOUS
    <2>1. i + 1 <= j + 1 /\ i + 1 \in 1 .. n /\ j + 1 \in 1 .. n
        BY <1>1, <1>2
    <2> QED
        BY <1>1, <1>7, <2>1
<1>9. CASE req'[x] = req[x]
    <2>1. req[x].worker \in {"accepted", "quiesced"} \/ Acknowledged(x) =>
              worker.fence /\ \A i \in 1 .. n : worker.lane[i].kind = "panic"
        BY <1>0, <1>1, <1>6 DEF WorkerFits
    <2>2. req[x].worker = "quiesced" \/ req[x].said = "stopped" => op = {}
        BY <1>0, <1>6 DEF WorkerFits
    <2>3. req[x].worker \in {"accepted", "quiesced"} \/ Acknowledged(x) =>
              worker'.fence /\ \A i \in 1 .. n - 1 : worker'.lane[i].kind = "panic"
        BY <1>1, <1>2, <1>3, <2>1
    <2> QED
        BY <1>1, <1>4, <1>8, <1>9, <2>2, <2>3 DEF WorkerFits, Acknowledged
<1>10. CASE /\ x = worker.lane[1].by
            /\ req[x].worker = "sent"
            /\ SameRequest(x)
            /\ req'[x].worker # "failed" => worker'.fence \/ worker.lane[1].kind = "unlock"
            /\ req'[x].worker = "quiesced" => op = {}
    <2>1. \A j \in 1 .. n : worker.lane[j].kind = "panic"
        BY <1>3, <1>7, <1>10
    <2>2. req'[x].said = "none"
        BY <1>0, <1>10 DEF StageFits, SameRequest
    <2>3. \A j \in 1 .. n - 1 : worker'.lane[j].kind = "panic"
        BY <1>1, <1>2, <2>1
    <2>4. req'[x].worker # "failed" => worker'.fence
        BY <1>3, <1>10, <2>1
    <2> QED
        BY <1>1, <1>4, <1>8, <1>10, <2>2, <2>3, <2>4 DEF WorkerFits, Acknowledged
<1> QED
    BY <1>5, <1>9, <1>10

\* Callers leave, their calls stay.
LEMMA OrphanedWorkerFits ==
    ASSUME LaneTypes, NEW P,
           worker' = [worker EXCEPT !.lane = Orphaned(P)], op' = op,
           NEW x \in Requests, WorkerFits(x),
           Clean(x)' => /\ Clean(x) /\ req'[x].said = req[x].said
                        /\ req'[x].worker = req[x].worker \/ req'[x].worker = "failed"
    PROVE  WorkerFits(x)'
<1>0. LaneTypes /\ WorkerFits(x)
    OBVIOUS
<1>1. worker'.lane = Orphaned(P) /\ worker'.fence = worker.fence
    BY <1>0 DEF LaneTypes
<1>2. /\ DOMAIN worker'.lane = DOMAIN worker.lane
      /\ \A i \in DOMAIN worker.lane :
            /\ worker'.lane[i].kind = worker.lane[i].kind
            /\ worker'.lane[i].by = x => worker.lane[i].by = x
    BY <1>0, <1>1, LaneOrphaned, PanicAssumption DEF LaneTypes
<1> QED
    BY <1>0, <1>1, <1>2 DEF WorkerFits, Acknowledged

\* The lane and the fence stay as they are.
LEMMA StayedWorkerFits ==
    ASSUME worker' = worker, NEW x \in Requests, WorkerFits(x), LaneFits,
           Clean(x)' => \/ /\ Clean(x) /\ req'[x].said = req[x].said
                           /\ req'[x].worker = req[x].worker
                        \/ /\ req'[x].worker = "failed" /\ req'[x].said = "none"
                           /\ req[x].worker # "sent",
           op' = op \/ (op' \subseteq op) \/ Admits
    PROVE  WorkerFits(x)'
<1> SUFFICES ASSUME Clean(x)' PROVE WorkerFits(x)'
    BY DEF WorkerFits
<1>1. CASE Clean(x) /\ req'[x].said = req[x].said /\ req'[x].worker = req[x].worker
    <2>1. CASE Admits
        BY <1>1, <2>1 DEF WorkerFits, Acknowledged, Admits
    <2>2. CASE op' \subseteq op
        BY <1>1, <2>2 DEF WorkerFits, Acknowledged
    <2> QED
        BY <2>1, <2>2
<1>2. CASE req'[x].worker = "failed" /\ req'[x].said = "none" /\ req[x].worker # "sent"
    BY <1>2, NoCallOf DEF WorkerFits, Acknowledged
<1> QED
    BY <1>1, <1>2

\* Every step keeps the fence, and the lane free of unlocks, behind a clean panic.
LEMMA WorkerFitsStep ==
    PanicInv /\ [PanicNext]_panicVars => \A x \in Requests : WorkerFits(x)'
<1>0. SUFFICES ASSUME PanicInv, [PanicNext]_panicVars, NEW x \in Requests PROVE WorkerFits(x)'
    OBVIOUS
<1>t. StoreTypes /\ VoiceTypes /\ PlaneTypes
    BY <1>0 DEF PanicInv, PanicTypeOK, PlanesFit, StoreTypes, VoiceTypes, PlaneTypes
<1>b. LaneTypes /\ ReqTypes
    BY <1>0 DEF PanicInv, PanicTypeOK, LaneTypes, ReqTypes
<1>l. LaneFits
    BY <1>0 DEF PanicInv
<1>g. \A q \in Requests : StageFits(q)
    BY <1>0 DEF PanicInv, RequestFits
<1>n. ApartFits(x)
    BY <1>0 DEF PanicInv, RequestFits
<1>h. WorkerFits(x)
    BY <1>0 DEF PanicInv, RequestFits
<1>1. ASSUME NEW p \in Requests, PanicBegins(p) PROVE WorkerFits(x)'
    <2>1. req[p].worker # "sent"
        BY <1>1, <1>g DEF PanicBegins, Flying, StageFits
    <2>2. /\ \/ req'[p].worker = "sent" /\ worker' = [worker EXCEPT !.lane = Joined(p, "panic")]
             \/ req'[p].worker = "failed" /\ worker' = worker
          /\ req'[p].said = "none" /\ op' = op
          /\ x # p => Overlapped(x)
        BY <1>1, <1>t, <1>b, PanicBeginsDoes
    <2>3. CASE req'[p].worker = "sent" /\ worker' = [worker EXCEPT !.lane = Joined(p, "panic")]
        BY <2>1, <2>2, <2>3, <1>b, <1>l, <1>h, JoinedWorkerFits
    <2>4. CASE req'[p].worker = "failed" /\ worker' = worker
        <3>1. Clean(x)' => \/ Clean(x) /\ req'[x].said = req[x].said /\ req'[x].worker = req[x].worker
                           \/ /\ req'[x].worker = "failed" /\ req'[x].said = "none"
                              /\ req[x].worker # "sent"
            BY <2>1, <2>2, <2>4 DEF Overlapped, Kept, Clean
        <3>. QED
            BY <2>2, <2>4, <3>1, <1>l, <1>h, StayedWorkerFits
    <2>. QED
        BY <2>2, <2>3, <2>4
<1>2. ASSUME NEW p \in Requests, RootPanics(p) PROVE WorkerFits(x)'
    <2>1. Clean(x)' => Clean(x) /\ req'[x].said = req[x].said /\ req'[x].worker = req[x].worker
        BY <1>2, <1>t, <1>b, RootPanicsDoes DEF SameRequest, Clean
    <2>. QED
        BY <1>2, <2>1, <1>l, <1>h, StayedWorkerFits DEF RootPanics
<1>3. ASSUME NEW p \in Requests, PanicAnswers(p) PROVE WorkerFits(x)'
    <2>1. worker' = worker /\ op' = op
        BY <1>3 DEF PanicAnswers
    <2>2. CASE x # p
        <3>1. Clean(x)' => Clean(x) /\ req'[x].said = req[x].said /\ req'[x].worker = req[x].worker
            BY <1>3, <2>2, <1>b, PanicAnswersDoes DEF Kept, Clean
        <3>. QED
            BY <2>1, <3>1, <1>l, <1>h, StayedWorkerFits
    <2>3. CASE x = p
        <3> SUFFICES ASSUME Clean(x)' PROVE WorkerFits(x)'
            BY DEF WorkerFits
        <3>1. /\ req[x].stage = "panic" /\ req'[x].since = req[x].since
              /\ req'[x].worker = "none" /\ req'[x].stage = "idle"
              /\ req[x].worker \in {"accepted", "quiesced", "none"}
              /\ req'[x].said = "stopped" => req[x].worker = "quiesced"
            BY <1>3, <2>3, <1>b, PanicAnswersDoes DEF IsIdle, Clean
        <3>2. Clean(x) /\ req[x].worker \in {"accepted", "quiesced"}
            BY <3>1, <1>g DEF Clean, StageFits
        <3>. QED
            BY <2>1, <3>1, <3>2, <1>h DEF WorkerFits
    <2>. QED
        BY <2>2, <2>3
<1>4. ASSUME NEW p \in Requests, WorkerUnheard(p) PROVE WorkerFits(x)'
    <2>1. Clean(x)' => /\ Clean(x) /\ req'[x].said = req[x].said
                       /\ req'[x].worker = req[x].worker \/ req'[x].worker = "failed"
        BY <1>4, <1>b, WorkerUnheardDoes DEF SameRequest, Clean
    <2>. QED
        BY <1>4, <2>1, <1>b, <1>h, OrphanedWorkerFits DEF WorkerUnheard
<1>5. ASSUME NEW p \in Requests, UnlockBegins(p) PROVE WorkerFits(x)'
    <2>1. Clean(x)' => Clean(x) /\ req'[x].said = req[x].said /\ req'[x].worker = req[x].worker
        BY <1>5, <1>b, UnlockBeginsDoes DEF Overlapped, Kept, Clean
    <2>. QED
        BY <1>5, <2>1, <1>l, <1>h, StayedWorkerFits DEF UnlockBegins
<1>6. ASSUME NEW p \in Requests, UnlockSeesRoot(p) PROVE WorkerFits(x)'
    <2>1. req[p].stage = "root" /\ req[p].kind = "unlock"
        BY <1>6, <1>g DEF UnlockSeesRoot, StageFits
    <2>2. ~Clean(x)
        BY <2>1, <1>n DEF ApartFits, Unlocking, Flying
    <2>3. ~Clean(x)'
        <3>1. CASE x = p
            BY <1>6, <2>1, <3>1, <1>b, UnlockSeesRootDoes, IdleIs DEF Clean
        <3>2. CASE x # p
            BY <1>6, <2>2, <3>2, <1>b, UnlockSeesRootDoes DEF Clean
        <3>. QED
            BY <3>1, <3>2
    <2>. QED
        BY <2>3 DEF WorkerFits
<1>7. ASSUME NEW p \in Requests, UnlockHearsWorker(p) PROVE WorkerFits(x)'
    <2>1. Clean(x)' => Clean(x) /\ req'[x].said = req[x].said /\ req'[x].worker = req[x].worker
        BY <1>7, <1>b, UnlockHearsWorkerDoes, IdleIs DEF Clean
    <2>. QED
        BY <1>7, <2>1, <1>l, <1>h, StayedWorkerFits DEF UnlockHearsWorker
<1>8. ASSUME NEW p \in Requests, UnlockSeesHealth(p) \/ UnlockCompensates(p) PROVE WorkerFits(x)'
    <2>1. req[p].kind = "unlock" /\ Flying(p)
        BY <1>8, <1>g DEF UnlockSeesHealth, UnlockCompensates, StageFits, Flying
    <2>2. ~Clean(x)
        BY <2>1, <1>n DEF ApartFits, Unlocking
    <2>3. ~Clean(x)'
        <3>1. CASE UnlockSeesHealth(p)
            BY <2>1, <2>2, <3>1, <1>b, UnlockSeesHealthDoes DEF Clean
        <3>2. CASE UnlockCompensates(p)
            <4>1. CASE x = p
                BY <2>1, <3>2, <4>1, <1>t, <1>b, UnlockCompensatesDoes DEF Clean
            <4>2. CASE x # p
                <5>1. req'[x].kind = req[x].kind
                    BY <3>2, <4>2, <1>t, <1>b, UnlockCompensatesDoes DEF Kept
                <5>2. req'[x].since = req[x].since \/ req[x].kind = "none" \/ req'[x].since = "undone"
                    BY <3>2, <4>2, <1>t, <1>b, UnlockCompensatesDoes
                <5>. QED
                    BY <2>2, <5>1, <5>2 DEF Clean
            <4>. QED
                BY <4>1, <4>2
        <3>. QED
            BY <1>8, <3>1, <3>2
    <2>. QED
        BY <2>3 DEF WorkerFits
<1>9. ASSUME NEW p \in Requests, UnlockSucceeds(p) PROVE WorkerFits(x)'
    <2>1. ~Clean(x)'
        BY <1>9, <1>b, UnlockSucceedsDoes DEF Clean, Kept
    <2>. QED
        BY <2>1 DEF WorkerFits
<1>11. ASSUME NEW p \in Requests, RollbackEnds(p) PROVE WorkerFits(x)'
    <2>1. Clean(x)' => Clean(x) /\ req'[x].said = req[x].said /\ req'[x].worker = req[x].worker
        BY <1>11, <1>b, RollbackEndsDoes, IdleIs DEF Clean
    <2>. QED
        BY <1>11, <2>1, <1>l, <1>h, StayedWorkerFits DEF RollbackEnds
<1>12. ASSUME WorkerPanicBegins \/ WorkerPanicEnds \/ WorkerUnlocks PROVE WorkerFits(x)'
    <2>1. op' = op
        BY <1>12 DEF WorkerPanicBegins, WorkerPanicEnds, WorkerUnlocks
    <2>2. CASE WorkerPanicBegins /\ worker' = [worker EXCEPT !.fence = TRUE, !.draining = TRUE]
                                 /\ req' = req
        <3>1. worker'.lane = worker.lane /\ worker'.fence
            BY <2>2, <1>b DEF LaneTypes
        <3>. QED
            BY <2>1, <2>2, <3>1, <1>h DEF WorkerFits, Clean, Acknowledged
    <2>3. CASE worker.lane # <<>> /\ worker'.lane = Tail(worker.lane)
                /\ (worker'.fence = worker.fence \/ worker.lane[1].kind = "unlock")
        BY <1>12, <2>3, <1>b, <1>l, <1>g, <1>h, ServedWorkerFits
    <2>4. CASE WorkerPanicBegins
        BY <2>2, <2>3, <2>4, <1>b DEF WorkerPanicBegins, LaneTypes
    <2>5. CASE WorkerPanicEnds
        BY <2>3, <2>5, <1>b, <1>l DEF WorkerPanicEnds, LaneTypes, LaneFits
    <2>6. CASE WorkerUnlocks
        BY <2>3, <2>6, <1>b, LaneServed DEF WorkerUnlocks, LaneTypes
    <2>. QED
        BY <1>12, <2>4, <2>5, <2>6
<1>13. CASE Crash
    <2>1. worker' = [worker EXCEPT !.lane = Orphaned(Requests)] /\ op' = op
        BY <1>13 DEF Crash
    <2>2. Clean(x)' => Clean(x) /\ req'[x].said = req[x].said /\ req'[x].worker = req[x].worker
        BY <1>13, <1>b, CrashDoes, IdleIs DEF Clean
    <2>. QED
        BY <2>1, <2>2, <1>b, <1>h, OrphanedWorkerFits
<1>14. CASE RootUnlocks
    <2>1. Clean(x)' => Clean(x) /\ req'[x].said = req[x].said /\ req'[x].worker = req[x].worker
        BY <1>14, <1>b, RootUnlocksDoes DEF Overlapped, Kept, Clean
    <2>. QED
        BY <1>14, <2>1, <1>l, <1>h, StayedWorkerFits DEF RootUnlocks
<1>15. ASSUME UNCHANGED <<worker, req>>, op' \subseteq op \/ Admits PROVE WorkerFits(x)'
    BY <1>15, <1>l, <1>h, StayedWorkerFits DEF Clean
<1>16. ASSUME NEW t \in Tasks, Prepare(t) \/ Submit(t) \/ StartOperation(t) \/ EndOperation(t)
       PROVE  UNCHANGED <<worker, req>> /\ (op' \subseteq op \/ Admits)
    BY <1>16 DEF Prepare, Submit, StartOperation, EndOperation
<1>17. ASSUME NEW t \in Tasks, NEW k \in Tokens, Claim(t, k) \/ Finish(t, k)
       PROVE  UNCHANGED <<worker, req>> /\ op' = op
    BY <1>17 DEF Claim, Finish
<1>18. ASSUME RootWorks \/ Start \/ UNCHANGED panicVars
       PROVE  UNCHANGED <<worker, req>> /\ op' = op
    BY <1>18 DEF RootWorks, Start, panicVars
<1>. QED
    BY <1>0, <1>1, <1>2, <1>3, <1>4, <1>5, <1>6, <1>7, <1>8, <1>9, <1>11, <1>12, <1>13,
       <1>14, <1>15, <1>16, <1>17, <1>18 DEF PanicNext

\* The links between requests, locks, lane, fence and rows hold in every
\* reachable state, for any tasks, requests, lane bound, crashes and failures.
THEOREM PanicInvariant == PanicSpec => []PanicInv
<1>1. PanicInit => PanicInv
    <2> SUFFICES ASSUME PanicInit PROVE PanicInv
        OBVIOUS
    <2> USE DEF PanicInit
    <2>1. row \in [Tasks -> Rows] /\ locked \in BOOLEAN
        BY DEF StoreInit, AbsentRow, Rows, TaskStates, Stages, Codes
    <2>2. worker \in [fence : BOOLEAN, draining : BOOLEAN, lane : Seq(LaneCalls)]
          /\ worker.lane = <<>> /\ Len(worker.lane) = 0 /\ worker.draining = FALSE
        BY EmptySeq
    <2>3. req \in [Requests -> Reqs] /\ \A p \in Requests : req[p] = Idle
        BY IdleIs
    <2>4. PanicTypeOK
        BY <2>1, <2>2, <2>3, PanicAssumption DEF PanicTypeOK, Voices
    <2>5. PlanesFit
        BY DEF PlanesFit
    <2>6. LaneFits
        <3>1. DOMAIN worker.lane = {}
            BY <2>2
        <3> QED
            BY <2>2, <3>1 DEF LaneFits
    <2>7. ASSUME NEW p \in Requests PROVE RequestFits(p)
        BY <2>3, <2>7, IdleIs
        DEF RequestFits, UpFits, StageFits, ApartFits, LocksFit, QuietFits, WorkerFits,
           RootFits,
            UnlockFits, Clean, Stands, Acknowledged, Unlocking, Flying
    <2> QED
        BY <2>4, <2>5, <2>6, <2>7 DEF PanicInv
<1>2. PanicInv /\ [PanicNext]_panicVars => PanicInv'
    <2> SUFFICES ASSUME PanicInv /\ [PanicNext]_panicVars PROVE PanicInv'
        OBVIOUS
    <2>1. StoreTypes' /\ VoiceTypes' /\ PlaneTypes' /\ LaneTypes' /\ ReqTypes'
        BY StoreTypesStep, VoiceStep, PlaneTypesStep, LaneTypesStep, ReqTypesStep
    <2>2. PanicTypeOK'
        BY <2>1 DEF PanicTypeOK, StoreTypes, VoiceTypes, PlaneTypes, LaneTypes, ReqTypes
    <2>3. PlanesFit'
        BY <2>1, RootStep DEF PlanesFit, VoiceTypes
    <2>4. LaneFits'
        BY LaneStep
    <2>5. ASSUME NEW p \in Requests PROVE RequestFits(p)'
        BY UpStep, StageStep, ApartStep, LocksStep, QuietFitsStep, WorkerFitsStep,
           RootFitsStep,
           UnlockFitsStep DEF RequestFits
    <2> QED
        BY <2>2, <2>3, <2>4, <2>5 DEF PanicInv
<1> QED
    BY <1>1, <1>2, PTL DEF PanicSpec

\* An acknowledged panic is on disk at every plane until an unlock overlaps it,
\* and no unlock that fails half way lifts it: the writes of performVoicePanic
\* precede its answer, and only the unlock's commit reaches the two locks.
THEOREM AcceptedStays == PanicSpec => []AcceptedIsDurable
<1>1. PanicInv => AcceptedIsDurable
    <2> SUFFICES ASSUME PanicInv, NEW p \in Requests, Acknowledged(p)
                 PROVE  /\ req[p].since = "clean" =>
                              voice.file # "open" /\ locked /\ worker.fence
                        /\ req[p].since # "undone" => voice.file # "open" \/ locked
        BY DEF AcceptedIsDurable
    <2>1. Stands(p)
        BY DEF PanicInv, RequestFits, StageFits, Stands, Acknowledged
    <2>2. LocksFit(p) /\ WorkerFits(p)
        BY DEF PanicInv, RequestFits
    <2> QED
        BY <2>1, <2>2 DEF LocksFit, WorkerFits, Stands, Clean
<1> QED
    BY <1>1, PanicInvariant, PTL

\* STOPPED is true, and stays true until an unlock is asked for here or at the
\* root broker, through crashes and restarts of the controller.
THEOREM StoppedStays == PanicSpec => []StoppedIsTrue
<1>1. PanicInv => StoppedIsTrue
    <2> SUFFICES ASSUME PanicInv, NEW p \in Requests,
                        req[p].said = "stopped", req[p].since = "clean"
                 PROVE  Quiesced /\ op = {} /\ ~root.busy
        BY DEF StoppedIsTrue
    <2>1. Clean(p)
        BY DEF PanicInv, RequestFits, StageFits, Clean
    <2>2. QuietFits(p) /\ WorkerFits(p) /\ RootFits(p)
        BY DEF PanicInv, RequestFits
    <2> QED
        BY <2>1, <2>2 DEF QuietFits, WorkerFits, RootFits
<1> QED
    BY <1>1, PanicInvariant, PTL

\* Once a panic was acknowledged no run enters the worker until an unlock is
\* asked for: the fence is durable before the worker answers, and whatever could
\* lift it was served before.
THEOREM NothingStarts == PanicSpec => NothingStartsAfterPanic
<1>1. PanicInv /\ [PanicNext]_panicVars =>
          [(\E p \in Requests : Acknowledged(p) /\ req[p].since = "clean") => op' \subseteq op]_panicVars
    <2> SUFFICES ASSUME PanicInv, PanicNext, NEW p \in Requests,
                        Acknowledged(p), req[p].since = "clean"
                 PROVE  op' \subseteq op
        BY DEF panicVars
    <2>1. worker.fence
        BY DEF PanicInv, RequestFits, StageFits, WorkerFits, Clean, Acknowledged
    <2>2. ASSUME NEW q \in Requests,
                 \/ PanicBegins(q) \/ RootPanics(q) \/ PanicAnswers(q) \/ WorkerUnheard(q)
                 \/ UnlockBegins(q) \/ UnlockSeesRoot(q) \/ UnlockHearsWorker(q)
                 \/ UnlockSeesHealth(q) \/ UnlockSucceeds(q) \/ UnlockCompensates(q)
                 \/ RollbackEnds(q)
          PROVE  op' = op
        BY <2>2 DEF PanicBegins, RootPanics, PanicAnswers, WorkerUnheard, UnlockBegins,
                    UnlockSeesRoot, UnlockHearsWorker, UnlockSeesHealth, UnlockSucceeds,
                    UnlockCompensates, RollbackEnds
    <2>3. ASSUME \/ WorkerPanicBegins \/ WorkerPanicEnds \/ WorkerUnlocks
                 \/ RootWorks \/ RootUnlocks \/ Crash \/ Start
          PROVE  op' = op
        BY <2>3 DEF WorkerPanicBegins, WorkerPanicEnds, WorkerUnlocks, RootWorks, RootUnlocks,
                    Crash, Start
    <2>4. ASSUME NEW t \in Tasks, Prepare(t) \/ Submit(t) \/ StartOperation(t) \/ EndOperation(t)
          PROVE  op' \subseteq op
        BY <2>1, <2>4 DEF Prepare, Submit, StartOperation, EndOperation, Admits
    <2>5. ASSUME NEW t \in Tasks, NEW k \in Tokens, Claim(t, k) \/ Finish(t, k)
          PROVE  op' = op
        BY <2>5 DEF Claim, Finish
    <2> QED
        BY <2>2, <2>3, <2>4, <2>5 DEF PanicNext
<1> QED
    BY <1>1, PanicInvariant, PTL DEF PanicSpec, NothingStartsAfterPanic

\* An unlock that nothing overlapped opens the queue only over terminal rows:
\* its one look at the durable work still holds when it commits.
THEOREM LoneUnlockWaits == PanicSpec => LoneUnlockIsQuiesced
<1>1. PanicInv /\ [PanicNext]_panicVars =>
          [\A p \in Requests :
              /\ req[p].stage = "commit" /\ req[p].since = "clean" /\ req'[p].stage # "commit"
              /\ locked /\ ~locked'
              => Quiesced]_panicVars
    <2> SUFFICES ASSUME PanicInv, NEW p \in Requests,
                        req[p].stage = "commit", req[p].since = "clean", locked
                 PROVE  Quiesced
        BY DEF panicVars
    <2>1. Unlocking(p)
        BY DEF PanicInv, RequestFits, StageFits, Unlocking, Flying
    <2> QED
        BY <2>1 DEF PanicInv, RequestFits, UnlockFits
<1> QED
    BY <1>1, PanicInvariant, PTL DEF PanicSpec, LoneUnlockIsQuiesced

\* Whatever lock() leaves behind is locked, saved or not.
LEMMA LocksLock ==
    ASSUME NEW v, NEW o \in Locks(v)
    PROVE  LockedIn(o.v)
<1>1. CASE LockedIn(v) /\ ~ErrorIn(v)
    <2>1. Locks(v) = {[v |-> v, ok |-> TRUE]}
        BY <1>1 DEF Locks
    <2>2. o.v = v
        BY <2>1
    <2> QED
        BY <1>1, <2>2
<1>2. CASE ~(LockedIn(v) /\ ~ErrorIn(v))
    <2>1. o \in Saves(v)
        BY <1>2 DEF Locks
    <2>2. o.v.file = "locked" \/ o.v.mem = "unsaved"
        BY <2>1 DEF Saves
    <2> QED
        BY <2>2 DEF LockedIn
<1> QED
    BY <1>1, <1>2

\* The synchronous gate and the queue's lock agree in every reachable state:
\* the order of the writes in performVoicePanic, performVoiceUnlock, its
\* compensation and synchronizePanicControls leaves no step in which the queue
\* is locked and /ask is open.
THEOREM QueueNeverLockedAlone == PanicSpec => []LockedTogether
<1>1. PanicInit => LockedTogether
    BY DEF PanicInit, StoreInit, LockedTogether
<1>2. LockedTogether /\ [PanicNext]_panicVars => LockedTogether'
    <2> SUFFICES ASSUME LockedTogether, [PanicNext]_panicVars
                 PROVE  LockedTogether'
        OBVIOUS
    <2> USE DEF LockedTogether, VoiceLocked
    <2>1. CASE UNCHANGED <<up, voice, locked>>
        BY <2>1
    <2>2. ASSUME NEW p \in Requests, PanicBegins(p)
          PROVE  LockedTogether'
        <3>1. PICK o \in Locks(voice) : voice' = o.v
            BY <2>2 DEF PanicBegins
        <3> QED
            BY <3>1, LocksLock
    <2>3. ASSUME NEW p \in Requests, UnlockSucceeds(p)
          PROVE  LockedTogether'
        BY <2>3 DEF UnlockSucceeds, UnlockPanic
    <2>4. ASSUME NEW p \in Requests, UnlockCompensates(p)
          PROVE  LockedTogether'
        <3>1. PICK v : \E o \in Locks(v) : voice' = o.v
            BY <2>4 DEF UnlockCompensates
        <3> QED
            BY <3>1, LocksLock
    <2>5. CASE Crash
        BY <2>5 DEF Crash
    <2>6. CASE Start
        <3>1. CASE VoiceLocked /\ ~locked
            BY <2>6, <3>1 DEF Start, SynchronizePanicControls
        <3>2. CASE locked /\ ~VoiceLocked
            <4>1. PICK o \in Locks(voice) : voice' = o.v
                BY <2>6, <3>2 DEF Start, SynchronizePanicControls
            <4> QED
                BY <4>1, LocksLock
        <3>3. CASE (VoiceLocked /\ locked) \/ (~VoiceLocked /\ ~locked)
            BY <2>6, <3>3 DEF Start, SynchronizePanicControls, storeVars
        <3> QED
            BY <3>1, <3>2, <3>3
    <2>7. ASSUME NEW p \in Requests,
                 \/ RootPanics(p) \/ PanicAnswers(p) \/ WorkerUnheard(p)
                 \/ UnlockBegins(p) \/ UnlockSeesRoot(p) \/ UnlockHearsWorker(p)
                 \/ UnlockSeesHealth(p) \/ RollbackEnds(p)
          PROVE  UNCHANGED <<up, voice, locked>>
        BY <2>7 DEF RootPanics, PanicAnswers, WorkerUnheard, UnlockBegins, UnlockSeesRoot,
                    UnlockHearsWorker, UnlockSeesHealth, RollbackEnds, storeVars
    <2>8. ASSUME WorkerPanicBegins \/ WorkerPanicEnds \/ WorkerUnlocks \/ RootWorks \/ RootUnlocks
          PROVE  UNCHANGED <<up, voice, locked>>
        BY <2>8 DEF WorkerPanicBegins, WorkerPanicEnds, WorkerUnlocks, RootWorks, RootUnlocks,
                    storeVars
    <2>9. ASSUME NEW t \in Tasks,
                 Prepare(t) \/ Submit(t) \/ StartOperation(t) \/ EndOperation(t)
          PROVE  UNCHANGED <<up, voice, locked>>
        BY <2>9 DEF Prepare, Submit, SubmitTask, StartOperation, EndOperation, storeVars
    <2>10. ASSUME NEW t \in Tasks, NEW k \in Tokens, Claim(t, k) \/ Finish(t, k)
           PROVE  UNCHANGED <<up, voice, locked>>
        BY <2>10 DEF Claim, ClaimNext, Finish, CompleteTask, CloseRow
    <2>11. CASE UNCHANGED panicVars
        BY <2>11 DEF panicVars
    <2> QED
        BY <2>1, <2>2, <2>3, <2>4, <2>5, <2>6, <2>7, <2>8, <2>9, <2>10, <2>11 DEF PanicNext
<1> QED
    BY <1>1, <1>2, PTL DEF PanicSpec

\* One step of the emergency stop is one step of each plane, or none.
LEMMA PlanesMove ==
    ASSUME PanicInv, [PanicNext]_panicVars
    PROVE  /\ [RootSide!Next]_<<root.locked, root.busy>>
           /\ [WorkerSide!Next]_<<worker.fence, op # {}>>
<1> DEFINE RootMoves == RootSide!Next \/ UNCHANGED <<root.locked, root.busy>>
           WorkerMoves == WorkerSide!Next \/ UNCHANGED <<worker.fence, op # {}>>
<1>0. /\ root \in [locked : BOOLEAN, busy : BOOLEAN]
      /\ worker \in [fence : BOOLEAN, draining : BOOLEAN, lane : Seq(LaneCalls)]
    BY DEF PanicInv, PanicTypeOK
<1>1. ASSUME UNCHANGED root
      PROVE  RootMoves
    BY <1>1
<1>2. ASSUME UNCHANGED op, worker'.fence = worker.fence \/ worker'.fence
      PROVE  WorkerMoves
    BY <1>2 DEF WorkerSide!Next, WorkerSide!Lock
<1>3. ASSUME NEW p \in Requests, NEW kind, NEW sent \in BOOLEAN, CallsWorker(p, kind, sent)
      PROVE  worker'.fence = worker.fence
    BY <1>0, <1>3 DEF CallsWorker, Reached
<1>4. ASSUME NEW p \in Requests, RootPanics(p)
      PROVE  RootMoves /\ WorkerMoves
    <2>1. UNCHANGED root \/ root' = [root EXCEPT !.locked = TRUE]
        BY <1>4 DEF RootPanics
    <2>2. RootMoves
        BY <1>0, <2>1 DEF RootSide!Next, RootSide!Lock
    <2>3. WorkerMoves
        BY <1>2, <1>4 DEF RootPanics
    <2> QED
        BY <2>2, <2>3
<1>5. ASSUME NEW p \in Requests,
             \/ PanicBegins(p) \/ PanicAnswers(p) \/ WorkerUnheard(p)
             \/ UnlockBegins(p) \/ UnlockSeesRoot(p) \/ UnlockHearsWorker(p)
             \/ UnlockSeesHealth(p) \/ UnlockSucceeds(p) \/ UnlockCompensates(p)
             \/ RollbackEnds(p)
      PROVE  RootMoves /\ WorkerMoves
    <2>1. CASE PanicBegins(p)
        BY <1>3, <2>1 DEF PanicBegins
    <2>2. CASE WorkerUnheard(p)
        BY <1>0, <2>2 DEF WorkerUnheard
    <2>3. CASE UnlockSeesRoot(p)
        BY <1>0, <2>3 DEF UnlockSeesRoot, Reached
    <2>4. CASE UnlockSeesHealth(p)
        BY <1>3, <2>4 DEF UnlockSeesHealth
    <2>5. CASE UnlockCompensates(p)
        BY <1>3, <2>5 DEF UnlockCompensates
    <2>6. CASE PanicAnswers(p) \/ UnlockBegins(p) \/ UnlockHearsWorker(p) \/ UnlockSucceeds(p)
                 \/ RollbackEnds(p)
        BY <2>6 DEF PanicAnswers, UnlockBegins, UnlockHearsWorker, UnlockSucceeds, RollbackEnds
    <2> QED
        BY <1>5, <2>1, <2>2, <2>3, <2>4, <2>5, <2>6
<1>6. CASE WorkerPanicBegins \/ WorkerPanicEnds
    <2>1. worker'.fence = worker.fence \/ worker'.fence
        BY <1>0, <1>6 DEF WorkerPanicBegins, WorkerPanicEnds
    <2>2. UNCHANGED root /\ UNCHANGED op
        BY <1>6 DEF WorkerPanicBegins, WorkerPanicEnds
    <2> QED
        BY <1>1, <1>2, <2>1, <2>2
<1>7. CASE WorkerUnlocks
    <2>1. UNCHANGED root /\ UNCHANGED op
        BY <1>7 DEF WorkerUnlocks
    <2>2. \/ worker'.fence = worker.fence \/ worker'.fence
          \/ op = {} /\ ~worker'.fence
        BY <1>0, <1>7 DEF WorkerUnlocks
    <2>3. ASSUME op = {}, ~worker'.fence
          PROVE  WorkerMoves
        <3>1. worker.fence \in BOOLEAN
            BY <1>0
        <3>2. worker'.fence = FALSE
            BY <1>0, <1>7, <2>3 DEF WorkerUnlocks
        <3>3. CASE worker.fence = FALSE
            BY <1>2, <2>1, <3>2, <3>3
        <3>4. CASE worker.fence = TRUE
            <4>1. WorkerSide!Unlock
                BY <2>1, <2>3, <3>4 DEF WorkerSide!Unlock
            <4> QED
                BY <4>1 DEF WorkerSide!Next
        <3> QED
            BY <3>1, <3>3, <3>4
    <2> QED
        BY <1>1, <1>2, <2>1, <2>2, <2>3
<1>8. ASSUME NEW t \in Tasks, Prepare(t) \/ Submit(t)
      PROVE  RootMoves /\ WorkerMoves
    BY <1>1, <1>2, <1>8 DEF Prepare, Submit
<1>9. ASSUME NEW t \in Tasks, StartOperation(t)
      PROVE  RootMoves /\ WorkerMoves
    <2>1. UNCHANGED <<root, worker>> /\ ~worker.fence /\ op' # {}
        BY <1>9 DEF StartOperation, Admits
    <2> QED
        BY <1>1, <2>1 DEF WorkerSide!Next, WorkerSide!Begin
<1>10. ASSUME NEW t \in Tasks, EndOperation(t)
       PROVE  RootMoves /\ WorkerMoves
    <2>1. UNCHANGED <<root, worker>> /\ op # {}
        BY <1>10 DEF EndOperation
    <2> QED
        BY <1>1, <2>1 DEF WorkerSide!Next, WorkerSide!End
<1>11. ASSUME NEW t \in Tasks, NEW k \in Tokens, Claim(t, k) \/ Finish(t, k)
       PROVE  RootMoves /\ WorkerMoves
    BY <1>1, <1>2, <1>11 DEF Claim, Finish
<1>12. CASE RootWorks \/ RootUnlocks
    <2>1. WorkerMoves
        BY <1>2, <1>12 DEF RootWorks, RootUnlocks
    <2>2. CASE RootWorks
        BY <1>0, <2>2 DEF RootWorks, RootSide!Next, RootSide!Begin, RootSide!End
    <2>3. CASE RootUnlocks
        BY <1>0, <2>3 DEF RootUnlocks, RootSide!Next, RootSide!Unlock
    <2> QED
        BY <1>12, <2>1, <2>2, <2>3
<1>13. CASE Crash \/ Start
    <2>1. UNCHANGED root /\ UNCHANGED op /\ worker'.fence = worker.fence
        BY <1>0, <1>13 DEF Crash, Start
    <2> QED
        BY <1>1, <1>2, <2>1
<1>14. CASE UNCHANGED panicVars
    BY <1>1, <1>2, <1>14 DEF panicVars
<1> QED
    BY <1>4, <1>5, <1>6, <1>7, <1>8, <1>9, <1>10, <1>11, <1>12, <1>13, <1>14 DEF PanicNext

\* The emergency stop composes planes that move like RootPlane: what it relies
\* on of the privileged broker and of the worker broker is what
\* BrokerKeepsRootPlane and WorkerIsAPlane show of the two.
THEOREM StopTakesPlanes == PanicSpec => TakesPlanes
<1>1. PanicInit => RootSide!Init /\ WorkerSide!Init
    BY DEF PanicInit, RootSide!Init, WorkerSide!Init
<1>2. PanicInv /\ [PanicNext]_panicVars =>
        /\ [RootSide!Next]_<<root.locked, root.busy>>
        /\ [WorkerSide!Next]_<<worker.fence, op # {}>>
    BY PlanesMove
<1> QED
    BY <1>1, <1>2, PanicInvariant, PTL DEF PanicSpec, TakesPlanes, RootSide!Spec, WorkerSide!Spec
=============================================================================
