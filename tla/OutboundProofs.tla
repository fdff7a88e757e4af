---------------------------- MODULE OutboundProofs ----------------------------
(***************************************************************************)
(* Proofs about the outbound plane, for any calls and callbacks: what the    *)
(* store, the operations and the PBX agree on at every step, and that a stop *)
(* that reports quiescence is true.  The invariant is taken part by part;    *)
(* most parts speak of one call d, and each step is seen from there.         *)
(***************************************************************************)
EXTENDS OutboundProperties, TLAPS

USE DEF Terminal, ActiveStates, RowStates, Due, Running

-----------------------------------------------------------------------------
(* Types, in three parts: the store, the operations with the PBX, the plane.  *)

StoreTypes ==
    /\ row \in [Calls -> RowStates]
    /\ asked \in [Calls -> BOOLEAN]
    /\ barrier \in [Calls -> {"none", "armed", "resolved"}]
    /\ outbox \in [Calls -> Due \cup {"none", "awaiting_outbound", "delivered", "failed",
                                     "outcome_unknown"}]
    /\ bound \in [Calls -> BOOLEAN]

OperationTypes ==
    /\ at \in [Calls -> {"none", "endpoint", "inviting", "answered", "talking", "done",
                        "broken", "failing"}]
    /\ aborted \in [Calls -> BOOLEAN]
    /\ clean \in [Calls -> {"no", "under way", "ok", "failed"}]
    /\ why \in [Calls -> {"none", "known", "unclear", "remote"}]
    /\ leg \in [Calls -> {"none", "ringing", "up", "refused", "gone"}]
    /\ dials \in [Calls -> Nat]

PlaneTypes ==
    /\ lockRow \in BOOLEAN
    /\ phase \in {"down", "starting", "up"}
    /\ accepting \in BOOLEAN /\ locked \in BOOLEAN
    /\ stopping = NoStop \/ stopping \subseteq Calls
    /\ verdict \in {"none", "quiesced", "unconfirmed"}
    /\ busy \in [Calls -> {"no", "claiming", "sent"}]
    /\ wire \in [Calls -> BOOLEAN]
    /\ timer \in BOOLEAN

\* Which outbox state belongs to which state of the call.
LEMMA OutboxOfState ==
    /\ \A s : OutboxOf(s) \in {"awaiting_outbound", "delivered", "failed", "outcome_unknown"}
    /\ \A s : OutboxOf(s) = "delivered" <=> s = "completed"
    /\ \A s \in ActiveStates : OutboxOf(s) = "awaiting_outbound"
    /\ OutboxOf("none") = "awaiting_outbound"
    BY DEF OutboxOf

\* An operation that ends with a known outcome has left no call at the PBX.
LEMMA OutcomeIsQuiet ==
    ASSUME NEW c \in Calls, OperationTypes, OperationFits(c),
           at[c] \in {"done", "broken", "failing"}, clean[c] \in {"ok", "failed"}
    PROVE  /\ Outcome(c) \in Terminal
           /\ Outcome(c) # "outcome_unknown" => leg[c] \notin {"ringing", "up"}
<1>1. Outcome(c) \in Terminal
    BY DEF Outcome
<1>2. ASSUME Outcome(c) # "outcome_unknown"
      PROVE  clean[c] = "ok" /\ why[c] # "unclear"
  <2>1. CASE at[c] = "done" /\ clean[c] = "ok"
    BY <2>1 DEF OperationFits
  <2>2. CASE ~(at[c] = "done" /\ clean[c] = "ok")
    BY <1>2, <2>2 DEF Outcome
  <2>3. QED
    BY <2>1, <2>2
<1>3. QED
    BY <1>1, <1>2 DEF OperationFits, OperationTypes

\* Types of the store are kept.
LEMMA StoreTypesStep == OInv /\ [OutboundNext]_vars => StoreTypes'
<1>0. SUFFICES ASSUME OInv, [OutboundNext]_vars PROVE StoreTypes'
    OBVIOUS
<1>a. StoreTypes
    BY <1>0 DEF OInv, OutboundTypeOK, StoreTypes
<1>1. ASSUME NEW c \in Calls, Request(c) PROVE StoreTypes'
    BY <1>1, <1>a, OutboxOfState DEF Request, CanReach, Reserved, StoreTypes
<1>2. ASSUME NEW c \in Calls, RequestAndDie(c) PROVE StoreTypes'
    BY <1>2, <1>a, OutboxOfState DEF RequestAndDie, CanReach, Reserved, Gone, StoreTypes
<1>3. ASSUME NEW c \in Calls, Refuse(c) PROVE StoreTypes'
    BY <1>3, <1>a DEF Refuse, callVars, boxVars, StoreTypes
<1>4. ASSUME NEW c \in Calls, Cancel(c) PROVE StoreTypes'
    BY <1>4, <1>a, OutboxOfState DEF Cancel, CancelRows, CanceledRow, Reconciled, Interrupt,
       Operations, StoreTypes
<1>5. ASSUME NEW c \in Calls, Resolve(c) PROVE StoreTypes'
    BY <1>5, <1>a DEF Resolve, boxVars, StoreTypes
<1>6. ASSUME NEW c \in Calls, EndpointReady(c) PROVE StoreTypes'
    BY <1>6, <1>a DEF EndpointReady, Moves, StartCleanup, callVars, boxVars, StoreTypes
<1>7. ASSUME NEW c \in Calls, EndpointFails(c) PROVE StoreTypes'
    BY <1>7, <1>a DEF EndpointFails, Moves, callVars, boxVars, StoreTypes
<1>8. ASSUME NEW c \in Calls, Answered(c) PROVE StoreTypes'
    BY <1>8, <1>a DEF Answered, Moves, StartCleanup, callVars, boxVars, StoreTypes
<1>9. ASSUME NEW c \in Calls, InviteFails(c) PROVE StoreTypes'
    BY <1>9, <1>a DEF InviteFails, Moves, StartCleanup, callVars, boxVars, StoreTypes
<1>10. ASSUME NEW c \in Calls, MediaReady(c) \/ MediaFails(c) PROVE StoreTypes'
    BY <1>10, <1>a DEF MediaReady, MediaFails, Moves, StartCleanup, callVars, boxVars,
       StoreTypes
<1>11. ASSUME NEW c \in Calls, TalkEnds(c) \/ TalkFails(c) PROVE StoreTypes'
    BY <1>11, <1>a DEF TalkEnds, TalkFails, Moves, StartCleanup, callVars, boxVars, StoreTypes
<1>12. ASSUME NEW c \in Calls, CleanupEnds(c) PROVE StoreTypes'
    BY <1>12, <1>a DEF CleanupEnds, Moves, callVars, boxVars, StoreTypes
<1>13. ASSUME NEW c \in Calls, Finish(c) PROVE StoreTypes'
    BY <1>13, <1>a, OutboxOfState DEF Finish, Ends, MarkTerminal, Reconciled, Outcome,
       StoreTypes
<1>14. ASSUME NEW c \in Calls, FinishUnrecorded(c) PROVE StoreTypes'
    BY <1>14, <1>a, OutboxOfState DEF FinishUnrecorded, Ends, MarkTerminal, Reconciled,
       StoreTypes
<1>15. ASSUME NEW c \in Calls, PbxAnswers(c) \/ PbxRefuses(c) PROVE StoreTypes'
    BY <1>15, <1>a DEF PbxAnswers, PbxRefuses, PbxOnly, callVars, boxVars, StoreTypes
<1>16. ASSUME NEW c \in Calls, RemoteHangup(c) PROVE StoreTypes'
    BY <1>16, <1>a DEF RemoteHangup, PbxOnly, StartCleanup, callVars, boxVars, StoreTypes
<1>17. ASSUME NEW c \in Calls, Claim(c) PROVE StoreTypes'
    BY <1>17, <1>a DEF Claim, SenderOnly, callVars, StoreTypes
<1>18. ASSUME NEW c \in Calls, ClaimNothing(c) PROVE StoreTypes'
    BY <1>18, <1>a DEF ClaimNothing, SenderOnly, Rearm, callVars, boxVars, StoreTypes
<1>19. ASSUME NEW c \in Calls, Answer(c) PROVE StoreTypes'
    BY <1>19, <1>a DEF Answer, SenderOnly, Rearm, Retried, callVars, StoreTypes
<1>20. ASSUME NEW c \in Calls, Drain(c) PROVE StoreTypes'
    BY <1>20, <1>a DEF Drain, SenderOnly, callVars, boxVars, StoreTypes
<1>21. ASSUME NEW c \in Calls, Enqueue(c) PROVE StoreTypes'
    BY <1>21, <1>a DEF Enqueue, SenderOnly, callVars, StoreTypes
<1>22. ASSUME NEW lock \in BOOLEAN, Stop(lock) PROVE StoreTypes'
    BY <1>22, <1>a, OutboxOfState DEF Stop, CancelRows, CanceledRow, Reconciled, Interrupt,
       Operations, ActiveCalls, StoreTypes
<1>23. CASE LockExecution \/ UNCHANGED vars
    BY <1>23, <1>a DEF LockExecution, vars, callVars, boxVars, StoreTypes
<1>24. CASE StopAnswers
    BY <1>24, <1>a DEF StopAnswers, callVars, boxVars, StoreTypes
<1>25. CASE Unlock
    BY <1>25, <1>a DEF Unlock, callVars, boxVars, StoreTypes
<1>26. CASE Crash
    BY <1>26, <1>a DEF Crash, Gone, callVars, boxVars, StoreTypes
<1>27. CASE Start
    BY <1>27, <1>a, OutboxOfState DEF Start, Reconciled, RecoveredRow, StartLocked, StoreTypes
<1>28. CASE Resume
    BY <1>28, <1>a DEF Resume, boxVars, StoreTypes
<1>29. QED
    BY <1>0, <1>1, <1>2, <1>3, <1>4, <1>5, <1>6, <1>7, <1>8, <1>9, <1>10, <1>11, <1>12, <1>13,
       <1>14, <1>15, <1>16, <1>17, <1>18, <1>19, <1>20, <1>21, <1>22, <1>23, <1>24, <1>25,
       <1>26, <1>27, <1>28
    DEF OutboundNext, CallSteps, PbxSteps, CallbackSteps

\* Types of the operations are kept.
LEMMA OperationTypesStep == OInv /\ [OutboundNext]_vars => OperationTypes'
<1>0. SUFFICES ASSUME OInv, [OutboundNext]_vars PROVE OperationTypes'
    OBVIOUS
<1>b. OperationTypes
    BY <1>0 DEF OInv, OutboundTypeOK, OperationTypes
<1>1. ASSUME NEW c \in Calls, Request(c) PROVE OperationTypes'
    BY <1>1, <1>b DEF Request, CanReach, Reserved, pbxVars, OperationTypes
<1>2. ASSUME NEW c \in Calls, RequestAndDie(c) PROVE OperationTypes'
    BY <1>2, <1>b DEF RequestAndDie, CanReach, Reserved, Gone, pbxVars, OperationTypes
<1>3. ASSUME NEW c \in Calls, Refuse(c) PROVE OperationTypes'
    BY <1>3, <1>b DEF Refuse, opVars, pbxVars, OperationTypes
<1>4. ASSUME NEW c \in Calls, Cancel(c) PROVE OperationTypes'
    BY <1>4, <1>b DEF Cancel, CancelRows, CanceledRow, Reconciled, Interrupt, Operations,
       pbxVars, OperationTypes
<1>5. ASSUME NEW c \in Calls, Resolve(c) PROVE OperationTypes'
    BY <1>5, <1>b DEF Resolve, opVars, pbxVars, OperationTypes
<1>6. ASSUME NEW c \in Calls, EndpointReady(c) PROVE OperationTypes'
  <2>1. CASE aborted[c]
    BY <1>6, <2>1, <1>b DEF EndpointReady, Moves, StartCleanup, pbxVars, OperationTypes
  <2>2. CASE ~aborted[c]
    <3>1. UNCHANGED <<aborted, clean, why>>
      BY <1>6, <2>2 DEF EndpointReady, Moves
    <3>2. /\ at' = [at EXCEPT ![c] = "inviting"] /\ leg' = [leg EXCEPT ![c] = "ringing"]
          /\ dials' = [dials EXCEPT ![c] = @ + 1]
      BY <1>6, <2>2 DEF EndpointReady, Moves
    <3>3. dials' \in [Calls -> Nat]
      <4>1. dials \in [Calls -> Nat]
        BY <1>b DEF OperationTypes
      <4>2. QED
        BY <3>2, <4>1
    <3>4. QED
      BY <3>1, <3>2, <3>3, <1>b DEF OperationTypes
  <2>3. QED
    BY <2>1, <2>2
<1>7. ASSUME NEW c \in Calls, EndpointFails(c) PROVE OperationTypes'
    BY <1>7, <1>b DEF EndpointFails, Moves, pbxVars, OperationTypes
<1>8. ASSUME NEW c \in Calls, Answered(c) PROVE OperationTypes'
    BY <1>8, <1>b DEF Answered, Moves, StartCleanup, pbxVars, OperationTypes
<1>9. ASSUME NEW c \in Calls, InviteFails(c) PROVE OperationTypes'
    BY <1>9, <1>b DEF InviteFails, Moves, StartCleanup, pbxVars, OperationTypes
<1>10. ASSUME NEW c \in Calls, MediaReady(c) \/ MediaFails(c) PROVE OperationTypes'
    BY <1>10, <1>b DEF MediaReady, MediaFails, Moves, StartCleanup, pbxVars, OperationTypes
<1>11. ASSUME NEW c \in Calls, TalkEnds(c) \/ TalkFails(c) PROVE OperationTypes'
    BY <1>11, <1>b DEF TalkEnds, TalkFails, Moves, StartCleanup, pbxVars, OperationTypes
<1>12. ASSUME NEW c \in Calls, CleanupEnds(c) PROVE OperationTypes'
    BY <1>12, <1>b DEF CleanupEnds, Moves, OperationTypes
<1>13. ASSUME NEW c \in Calls, Finish(c) PROVE OperationTypes'
    BY <1>13, <1>b DEF Finish, Ends, MarkTerminal, Reconciled, pbxVars, OperationTypes
<1>14. ASSUME NEW c \in Calls, FinishUnrecorded(c) PROVE OperationTypes'
    BY <1>14, <1>b DEF FinishUnrecorded, Ends, MarkTerminal, Reconciled, pbxVars,
       OperationTypes
<1>15. ASSUME NEW c \in Calls, PbxAnswers(c) \/ PbxRefuses(c) PROVE OperationTypes'
    BY <1>15, <1>b DEF PbxAnswers, PbxRefuses, PbxOnly, OperationTypes
<1>16. ASSUME NEW c \in Calls, RemoteHangup(c) PROVE OperationTypes'
    BY <1>16, <1>b DEF RemoteHangup, PbxOnly, StartCleanup, OperationTypes
<1>17. ASSUME NEW c \in Calls, Claim(c) PROVE OperationTypes'
    BY <1>17, <1>b DEF Claim, SenderOnly, opVars, pbxVars, OperationTypes
<1>18. ASSUME NEW c \in Calls, ClaimNothing(c) PROVE OperationTypes'
    BY <1>18, <1>b DEF ClaimNothing, SenderOnly, Rearm, opVars, pbxVars, OperationTypes
<1>19. ASSUME NEW c \in Calls, Answer(c) PROVE OperationTypes'
    BY <1>19, <1>b DEF Answer, SenderOnly, Rearm, Retried, opVars, pbxVars, OperationTypes
<1>20. ASSUME NEW c \in Calls, Drain(c) PROVE OperationTypes'
    BY <1>20, <1>b DEF Drain, SenderOnly, opVars, pbxVars, OperationTypes
<1>21. ASSUME NEW c \in Calls, Enqueue(c) PROVE OperationTypes'
    BY <1>21, <1>b DEF Enqueue, SenderOnly, opVars, pbxVars, OperationTypes
<1>22. ASSUME NEW lock \in BOOLEAN, Stop(lock) PROVE OperationTypes'
    BY <1>22, <1>b DEF Stop, CancelRows, CanceledRow, Reconciled, Interrupt, Operations,
       ActiveCalls, pbxVars, OperationTypes
<1>23. CASE LockExecution \/ UNCHANGED vars
    BY <1>23, <1>b DEF LockExecution, vars, opVars, pbxVars, OperationTypes
<1>24. CASE StopAnswers
    BY <1>24, <1>b DEF StopAnswers, opVars, pbxVars, OperationTypes
<1>25. CASE Unlock
    BY <1>25, <1>b DEF Unlock, opVars, pbxVars, OperationTypes
<1>26. CASE Crash
    BY <1>26, <1>b DEF Crash, Gone, pbxVars, OperationTypes
<1>27. CASE Start
    BY <1>27, <1>b DEF Start, Reconciled, RecoveredRow, StartLocked, opVars, pbxVars,
       OperationTypes
<1>28. CASE Resume
    BY <1>28, <1>b DEF Resume, pbxVars, OperationTypes
<1>29. QED
    BY <1>0, <1>1, <1>2, <1>3, <1>4, <1>5, <1>6, <1>7, <1>8, <1>9, <1>10, <1>11, <1>12, <1>13,
       <1>14, <1>15, <1>16, <1>17, <1>18, <1>19, <1>20, <1>21, <1>22, <1>23, <1>24, <1>25,
       <1>26, <1>27, <1>28
    DEF OutboundNext, CallSteps, PbxSteps, CallbackSteps

\* Types of the plane are kept.
LEMMA PlaneTypesStep == OInv /\ [OutboundNext]_vars => PlaneTypes'
<1>0. SUFFICES ASSUME OInv, [OutboundNext]_vars PROVE PlaneTypes'
    OBVIOUS
<1>c. PlaneTypes
    BY <1>0 DEF OInv, OutboundTypeOK, PlaneTypes
<1>1. ASSUME NEW c \in Calls, Request(c) PROVE PlaneTypes'
    BY <1>1, <1>c DEF Request, CanReach, Reserved, planeVars, PlaneTypes
<1>2. ASSUME NEW c \in Calls, RequestAndDie(c) PROVE PlaneTypes'
    BY <1>2, <1>c DEF RequestAndDie, CanReach, Reserved, Gone, PlaneTypes
<1>3. ASSUME NEW c \in Calls, Refuse(c) PROVE PlaneTypes'
    BY <1>3, <1>c DEF Refuse, planeVars, PlaneTypes
<1>4. ASSUME NEW c \in Calls, Cancel(c) PROVE PlaneTypes'
    BY <1>4, <1>c DEF Cancel, CancelRows, CanceledRow, Reconciled, Interrupt, Operations,
       planeVars, senderVars, PlaneTypes
<1>5. ASSUME NEW c \in Calls, Resolve(c) PROVE PlaneTypes'
    BY <1>5, <1>c DEF Resolve, planeVars, senderVars, PlaneTypes
<1>6. ASSUME NEW c \in Calls, EndpointReady(c) PROVE PlaneTypes'
    BY <1>6, <1>c DEF EndpointReady, Moves, StartCleanup, planeVars, senderVars, PlaneTypes
<1>7. ASSUME NEW c \in Calls, EndpointFails(c) PROVE PlaneTypes'
    BY <1>7, <1>c DEF EndpointFails, Moves, planeVars, senderVars, PlaneTypes
<1>8. ASSUME NEW c \in Calls, Answered(c) PROVE PlaneTypes'
    BY <1>8, <1>c DEF Answered, Moves, StartCleanup, planeVars, senderVars, PlaneTypes
<1>9. ASSUME NEW c \in Calls, InviteFails(c) PROVE PlaneTypes'
    BY <1>9, <1>c DEF InviteFails, Moves, StartCleanup, planeVars, senderVars, PlaneTypes
<1>10. ASSUME NEW c \in Calls, MediaReady(c) \/ MediaFails(c) PROVE PlaneTypes'
    BY <1>10, <1>c DEF MediaReady, MediaFails, Moves, StartCleanup, planeVars, senderVars,
       PlaneTypes
<1>11. ASSUME NEW c \in Calls, TalkEnds(c) \/ TalkFails(c) PROVE PlaneTypes'
    BY <1>11, <1>c DEF TalkEnds, TalkFails, Moves, StartCleanup, planeVars, senderVars,
       PlaneTypes
<1>12. ASSUME NEW c \in Calls, CleanupEnds(c) PROVE PlaneTypes'
    BY <1>12, <1>c DEF CleanupEnds, Moves, planeVars, senderVars, PlaneTypes
<1>13. ASSUME NEW c \in Calls, Finish(c) PROVE PlaneTypes'
    BY <1>13, <1>c DEF Finish, Ends, MarkTerminal, Reconciled, planeVars, senderVars,
       PlaneTypes
<1>14. ASSUME NEW c \in Calls, FinishUnrecorded(c) PROVE PlaneTypes'
    BY <1>14, <1>c DEF FinishUnrecorded, Ends, MarkTerminal, Reconciled, planeVars,
       senderVars, PlaneTypes
<1>15. ASSUME NEW c \in Calls, PbxAnswers(c) \/ PbxRefuses(c) PROVE PlaneTypes'
    BY <1>15, <1>c DEF PbxAnswers, PbxRefuses, PbxOnly, planeVars, senderVars, PlaneTypes
<1>16. ASSUME NEW c \in Calls, RemoteHangup(c) PROVE PlaneTypes'
    BY <1>16, <1>c DEF RemoteHangup, PbxOnly, StartCleanup, planeVars, senderVars, PlaneTypes
<1>17. ASSUME NEW c \in Calls, Claim(c) PROVE PlaneTypes'
    BY <1>17, <1>c DEF Claim, SenderOnly, planeVars, PlaneTypes
<1>18. ASSUME NEW c \in Calls, ClaimNothing(c) PROVE PlaneTypes'
    BY <1>18, <1>c DEF ClaimNothing, SenderOnly, Rearm, planeVars, PlaneTypes
<1>19. ASSUME NEW c \in Calls, Answer(c) PROVE PlaneTypes'
    BY <1>19, <1>c DEF Answer, SenderOnly, Rearm, Retried, planeVars, PlaneTypes
<1>20. ASSUME NEW c \in Calls, Drain(c) PROVE PlaneTypes'
    BY <1>20, <1>c DEF Drain, SenderOnly, planeVars, PlaneTypes
<1>21. ASSUME NEW c \in Calls, Enqueue(c) PROVE PlaneTypes'
    BY <1>21, <1>c DEF Enqueue, SenderOnly, planeVars, PlaneTypes
<1>22. ASSUME NEW lock \in BOOLEAN, Stop(lock) PROVE PlaneTypes'
    BY <1>22, <1>c DEF Stop, CancelRows, CanceledRow, Reconciled, Interrupt, Operations,
       ActiveCalls, Operations, senderVars, PlaneTypes
<1>23. CASE LockExecution \/ UNCHANGED vars
    BY <1>23, <1>c DEF LockExecution, vars, planeVars, senderVars, PlaneTypes
<1>24. CASE StopAnswers
    BY <1>24, <1>c DEF StopAnswers, planeVars, senderVars, PlaneTypes
<1>25. CASE Unlock
    BY <1>25, <1>c DEF Unlock, PlaneTypes
<1>26. CASE Crash
    BY <1>26, <1>c DEF Crash, Gone, PlaneTypes
<1>27. CASE Start
    BY <1>27, <1>c DEF Start, Reconciled, RecoveredRow, StartLocked, PlaneTypes
<1>28. CASE Resume
    BY <1>28, <1>c DEF Resume, planeVars, senderVars, PlaneTypes
<1>29. QED
    BY <1>0, <1>1, <1>2, <1>3, <1>4, <1>5, <1>6, <1>7, <1>8, <1>9, <1>10, <1>11, <1>12, <1>13,
       <1>14, <1>15, <1>16, <1>17, <1>18, <1>19, <1>20, <1>21, <1>22, <1>23, <1>24, <1>25,
       <1>26, <1>27, <1>28
    DEF OutboundNext, CallSteps, PbxSteps, CallbackSteps

-----------------------------------------------------------------------------
(* The parts of the invariant.                                             *)

\* Only an endpoint that is ready is dialed, and its request never was.
LEMMA DialedStep == OInv /\ [OutboundNext]_vars => DialedOnce'
<1>0. SUFFICES ASSUME OInv, [OutboundNext]_vars, NEW d \in Calls PROVE (dials[d] <= 1)'
    BY DEF DialedOnce
<1>b. OperationTypes
    BY <1>0 DEF OInv, OutboundTypeOK, OperationTypes
<1>f. OperationFits(d)
    BY <1>0 DEF OInv, OperationsFit
<1>d. dials[d] <= 1
    BY <1>0 DEF OInv, DialedOnce
<1>1. ASSUME NEW c \in Calls, Request(c) PROVE (dials[d] <= 1)'
    BY <1>1, <1>b, <1>f, <1>d DEF Request, CanReach, Reserved, pbxVars, OperationTypes,
       OperationFits
<1>2. ASSUME NEW c \in Calls, RequestAndDie(c) PROVE (dials[d] <= 1)'
    BY <1>2, <1>b, <1>f, <1>d DEF RequestAndDie, CanReach, Reserved, Gone, pbxVars,
       OperationTypes, OperationFits
<1>3. ASSUME NEW c \in Calls, Refuse(c) PROVE (dials[d] <= 1)'
    BY <1>3, <1>b, <1>f, <1>d DEF Refuse, opVars, pbxVars, OperationTypes, OperationFits
<1>4. ASSUME NEW c \in Calls, Cancel(c) PROVE (dials[d] <= 1)'
    BY <1>4, <1>b, <1>f, <1>d DEF Cancel, CancelRows, CanceledRow, Reconciled, Interrupt,
       Operations, pbxVars, OperationTypes, OperationFits
<1>5. ASSUME NEW c \in Calls, Resolve(c) PROVE (dials[d] <= 1)'
    BY <1>5, <1>b, <1>f, <1>d DEF Resolve, opVars, pbxVars, OperationTypes, OperationFits
<1>6. ASSUME NEW c \in Calls, EndpointReady(c) PROVE (dials[d] <= 1)'
  <2>1. CASE aborted[c]
    BY <1>6, <2>1, <1>b, <1>f, <1>d DEF EndpointReady, Moves, StartCleanup, pbxVars,
       OperationTypes, OperationFits
  <2>2. CASE ~aborted[c]
    <3>1. UNCHANGED <<aborted, clean, why>>
      BY <1>6, <2>2 DEF EndpointReady, Moves
    <3>2. /\ at' = [at EXCEPT ![c] = "inviting"] /\ leg' = [leg EXCEPT ![c] = "ringing"]
          /\ dials' = [dials EXCEPT ![c] = @ + 1]
      BY <1>6, <2>2 DEF EndpointReady, Moves
    <3>3. CASE d = c
      <4>1. dials[c] = 0
        BY <1>6, <1>f, <3>3 DEF EndpointReady, OperationFits
      <4>2. dials \in [Calls -> Nat]
        BY <1>b DEF OperationTypes
      <4>3. QED
        BY <3>2, <3>3, <4>1, <4>2
    <3>4. CASE d # c
      BY <3>2, <3>4, <1>b, <1>d DEF OperationTypes
    <3>5. QED
      BY <3>3, <3>4
  <2>3. QED
    BY <2>1, <2>2
<1>7. ASSUME NEW c \in Calls, EndpointFails(c) PROVE (dials[d] <= 1)'
    BY <1>7, <1>b, <1>f, <1>d DEF EndpointFails, Moves, pbxVars, OperationTypes, OperationFits
<1>8. ASSUME NEW c \in Calls, Answered(c) PROVE (dials[d] <= 1)'
    BY <1>8, <1>b, <1>f, <1>d DEF Answered, Moves, StartCleanup, pbxVars, OperationTypes,
       OperationFits
<1>9. ASSUME NEW c \in Calls, InviteFails(c) PROVE (dials[d] <= 1)'
    BY <1>9, <1>b, <1>f, <1>d DEF InviteFails, Moves, StartCleanup, pbxVars, OperationTypes,
       OperationFits
<1>10. ASSUME NEW c \in Calls, MediaReady(c) \/ MediaFails(c) PROVE (dials[d] <= 1)'
    BY <1>10, <1>b, <1>f, <1>d DEF MediaReady, MediaFails, Moves, StartCleanup, pbxVars,
       OperationTypes, OperationFits
<1>11. ASSUME NEW c \in Calls, TalkEnds(c) \/ TalkFails(c) PROVE (dials[d] <= 1)'
    BY <1>11, <1>b, <1>f, <1>d DEF TalkEnds, TalkFails, Moves, StartCleanup, pbxVars,
       OperationTypes, OperationFits
<1>12. ASSUME NEW c \in Calls, CleanupEnds(c) PROVE (dials[d] <= 1)'
    BY <1>12, <1>b, <1>f, <1>d DEF CleanupEnds, Moves, OperationTypes, OperationFits
<1>13. ASSUME NEW c \in Calls, Finish(c) PROVE (dials[d] <= 1)'
    BY <1>13, <1>b, <1>f, <1>d DEF Finish, Ends, MarkTerminal, Reconciled, pbxVars,
       OperationTypes, OperationFits
<1>14. ASSUME NEW c \in Calls, FinishUnrecorded(c) PROVE (dials[d] <= 1)'
    BY <1>14, <1>b, <1>f, <1>d DEF FinishUnrecorded, Ends, MarkTerminal, Reconciled, pbxVars,
       OperationTypes, OperationFits
<1>15. ASSUME NEW c \in Calls, PbxAnswers(c) \/ PbxRefuses(c) PROVE (dials[d] <= 1)'
    BY <1>15, <1>b, <1>f, <1>d DEF PbxAnswers, PbxRefuses, PbxOnly, OperationTypes,
       OperationFits
<1>16. ASSUME NEW c \in Calls, RemoteHangup(c) PROVE (dials[d] <= 1)'
    BY <1>16, <1>b, <1>f, <1>d DEF RemoteHangup, PbxOnly, StartCleanup, OperationTypes,
       OperationFits
<1>17. ASSUME NEW c \in Calls, Claim(c) PROVE (dials[d] <= 1)'
    BY <1>17, <1>b, <1>f, <1>d DEF Claim, SenderOnly, opVars, pbxVars, OperationTypes,
       OperationFits
<1>18. ASSUME NEW c \in Calls, ClaimNothing(c) PROVE (dials[d] <= 1)'
    BY <1>18, <1>b, <1>f, <1>d DEF ClaimNothing, SenderOnly, Rearm, opVars, pbxVars,
       OperationTypes, OperationFits
<1>19. ASSUME NEW c \in Calls, Answer(c) PROVE (dials[d] <= 1)'
    BY <1>19, <1>b, <1>f, <1>d DEF Answer, SenderOnly, Rearm, Retried, opVars, pbxVars,
       OperationTypes, OperationFits
<1>20. ASSUME NEW c \in Calls, Drain(c) PROVE (dials[d] <= 1)'
    BY <1>20, <1>b, <1>f, <1>d DEF Drain, SenderOnly, opVars, pbxVars, OperationTypes,
       OperationFits
<1>21. ASSUME NEW c \in Calls, Enqueue(c) PROVE (dials[d] <= 1)'
    BY <1>21, <1>b, <1>f, <1>d DEF Enqueue, SenderOnly, opVars, pbxVars, OperationTypes,
       OperationFits
<1>22. ASSUME NEW lock \in BOOLEAN, Stop(lock) PROVE (dials[d] <= 1)'
    BY <1>22, <1>b, <1>f, <1>d DEF Stop, CancelRows, CanceledRow, Reconciled, Interrupt,
       Operations, ActiveCalls, pbxVars, OperationTypes, OperationFits
<1>23. CASE LockExecution \/ UNCHANGED vars
    BY <1>23, <1>b, <1>f, <1>d DEF LockExecution, vars, opVars, pbxVars, OperationTypes,
       OperationFits
<1>24. CASE StopAnswers
    BY <1>24, <1>b, <1>f, <1>d DEF StopAnswers, opVars, pbxVars, OperationTypes, OperationFits
<1>25. CASE Unlock
    BY <1>25, <1>b, <1>f, <1>d DEF Unlock, opVars, pbxVars, OperationTypes, OperationFits
<1>26. CASE Crash
    BY <1>26, <1>b, <1>f, <1>d DEF Crash, Gone, pbxVars, OperationTypes, OperationFits
<1>27. CASE Start
    BY <1>27, <1>b, <1>f, <1>d DEF Start, Reconciled, RecoveredRow, StartLocked, opVars,
       pbxVars, OperationTypes, OperationFits
<1>28. CASE Resume
    BY <1>28, <1>b, <1>f, <1>d DEF Resume, pbxVars, OperationTypes, OperationFits
<1>29. QED
    BY <1>0, <1>1, <1>2, <1>3, <1>4, <1>5, <1>6, <1>7, <1>8, <1>9, <1>10, <1>11, <1>12, <1>13,
       <1>14, <1>15, <1>16, <1>17, <1>18, <1>19, <1>20, <1>21, <1>22, <1>23, <1>24, <1>25,
       <1>26, <1>27, <1>28
    DEF OutboundNext, CallSteps, PbxSteps, CallbackSteps

\* A verdict is written when the call is gone, and no leg comes back.
LEMMA TerminalStep == OInv /\ [OutboundNext]_vars => TerminalIsQuiet'
<1>0. SUFFICES ASSUME OInv, [OutboundNext]_vars, NEW d \in Calls PROVE CallQuiet(d)'
    BY DEF TerminalIsQuiet
<1>a. StoreTypes
    BY <1>0 DEF OInv, OutboundTypeOK, StoreTypes
<1>b. OperationTypes
    BY <1>0 DEF OInv, OutboundTypeOK, OperationTypes
<1>f. OperationFits(d)
    BY <1>0 DEF OInv, OperationsFit
<1>q. CallQuiet(d)
    BY <1>0 DEF OInv, TerminalIsQuiet
<1>g. OperationsFit
    BY <1>0 DEF OInv
<1>1. ASSUME NEW c \in Calls, Request(c) PROVE CallQuiet(d)'
    BY <1>1, <1>a, <1>b, <1>f, <1>q DEF Request, CanReach, Reserved, pbxVars, StoreTypes,
       OperationTypes, OperationFits, CallQuiet
<1>2. ASSUME NEW c \in Calls, RequestAndDie(c) PROVE CallQuiet(d)'
    BY <1>2, <1>a, <1>b, <1>f, <1>q DEF RequestAndDie, CanReach, Reserved, Gone, pbxVars,
       StoreTypes, OperationTypes, OperationFits, CallQuiet
<1>3. ASSUME NEW c \in Calls, Refuse(c) PROVE CallQuiet(d)'
    BY <1>3, <1>a, <1>b, <1>f, <1>q DEF Refuse, callVars, opVars, pbxVars, StoreTypes,
       OperationTypes, OperationFits, CallQuiet
<1>4. ASSUME NEW c \in Calls, Cancel(c) PROVE CallQuiet(d)'
    BY <1>4, <1>a, <1>b, <1>f, <1>q DEF Cancel, CancelRows, CanceledRow, Reconciled,
       Interrupt, Operations, pbxVars, StoreTypes, OperationTypes, OperationFits, CallQuiet
<1>5. ASSUME NEW c \in Calls, Resolve(c) PROVE CallQuiet(d)'
    BY <1>5, <1>a, <1>b, <1>f, <1>q DEF Resolve, opVars, pbxVars, StoreTypes, OperationTypes,
       OperationFits, CallQuiet
<1>6. ASSUME NEW c \in Calls, EndpointReady(c) PROVE CallQuiet(d)'
    BY <1>6, <1>a, <1>b, <1>f, <1>q DEF EndpointReady, Moves, StartCleanup, callVars, pbxVars,
       StoreTypes, OperationTypes, OperationFits, CallQuiet
<1>7. ASSUME NEW c \in Calls, EndpointFails(c) PROVE CallQuiet(d)'
    BY <1>7, <1>a, <1>b, <1>f, <1>q DEF EndpointFails, Moves, callVars, pbxVars, StoreTypes,
       OperationTypes, OperationFits, CallQuiet
<1>8. ASSUME NEW c \in Calls, Answered(c) PROVE CallQuiet(d)'
    BY <1>8, <1>a, <1>b, <1>f, <1>q DEF Answered, Moves, StartCleanup, callVars, pbxVars,
       StoreTypes, OperationTypes, OperationFits, CallQuiet
<1>9. ASSUME NEW c \in Calls, InviteFails(c) PROVE CallQuiet(d)'
    BY <1>9, <1>a, <1>b, <1>f, <1>q DEF InviteFails, Moves, StartCleanup, callVars, pbxVars,
       StoreTypes, OperationTypes, OperationFits, CallQuiet
<1>10. ASSUME NEW c \in Calls, MediaReady(c) \/ MediaFails(c) PROVE CallQuiet(d)'
    BY <1>10, <1>a, <1>b, <1>f, <1>q DEF MediaReady, MediaFails, Moves, StartCleanup,
       callVars, pbxVars, StoreTypes, OperationTypes, OperationFits, CallQuiet
<1>11. ASSUME NEW c \in Calls, TalkEnds(c) \/ TalkFails(c) PROVE CallQuiet(d)'
    BY <1>11, <1>a, <1>b, <1>f, <1>q DEF TalkEnds, TalkFails, Moves, StartCleanup, callVars,
       pbxVars, StoreTypes, OperationTypes, OperationFits, CallQuiet
<1>12. ASSUME NEW c \in Calls, CleanupEnds(c) PROVE CallQuiet(d)'
    BY <1>12, <1>a, <1>b, <1>f, <1>q DEF CleanupEnds, Moves, callVars, StoreTypes,
       OperationTypes, OperationFits, CallQuiet
<1>13. ASSUME NEW c \in Calls, Finish(c) PROVE CallQuiet(d)'
    BY <1>13, <1>a, <1>b, <1>f, <1>q, <1>g, OutcomeIsQuiet DEF Finish, Ends, MarkTerminal,
       Reconciled, OperationsFit, pbxVars, StoreTypes, OperationTypes, OperationFits,
       CallQuiet
<1>14. ASSUME NEW c \in Calls, FinishUnrecorded(c) PROVE CallQuiet(d)'
    BY <1>14, <1>a, <1>b, <1>f, <1>q DEF FinishUnrecorded, Ends, MarkTerminal, Reconciled,
       pbxVars, StoreTypes, OperationTypes, OperationFits, CallQuiet
<1>15. ASSUME NEW c \in Calls, PbxAnswers(c) \/ PbxRefuses(c) PROVE CallQuiet(d)'
    BY <1>15, <1>a, <1>b, <1>f, <1>q DEF PbxAnswers, PbxRefuses, PbxOnly, callVars,
       StoreTypes, OperationTypes, OperationFits, CallQuiet
<1>16. ASSUME NEW c \in Calls, RemoteHangup(c) PROVE CallQuiet(d)'
    BY <1>16, <1>a, <1>b, <1>f, <1>q DEF RemoteHangup, PbxOnly, StartCleanup, callVars,
       StoreTypes, OperationTypes, OperationFits, CallQuiet
<1>17. ASSUME NEW c \in Calls, Claim(c) PROVE CallQuiet(d)'
    BY <1>17, <1>a, <1>b, <1>f, <1>q DEF Claim, SenderOnly, callVars, opVars, pbxVars,
       StoreTypes, OperationTypes, OperationFits, CallQuiet
<1>18. ASSUME NEW c \in Calls, ClaimNothing(c) PROVE CallQuiet(d)'
    BY <1>18, <1>a, <1>b, <1>f, <1>q DEF ClaimNothing, SenderOnly, Rearm, callVars, opVars,
       pbxVars, StoreTypes, OperationTypes, OperationFits, CallQuiet
<1>19. ASSUME NEW c \in Calls, Answer(c) PROVE CallQuiet(d)'
    BY <1>19, <1>a, <1>b, <1>f, <1>q DEF Answer, SenderOnly, Rearm, Retried, callVars, opVars,
       pbxVars, StoreTypes, OperationTypes, OperationFits, CallQuiet
<1>20. ASSUME NEW c \in Calls, Drain(c) PROVE CallQuiet(d)'
    BY <1>20, <1>a, <1>b, <1>f, <1>q DEF Drain, SenderOnly, callVars, opVars, pbxVars,
       StoreTypes, OperationTypes, OperationFits, CallQuiet
<1>21. ASSUME NEW c \in Calls, Enqueue(c) PROVE CallQuiet(d)'
    BY <1>21, <1>a, <1>b, <1>f, <1>q DEF Enqueue, SenderOnly, callVars, opVars, pbxVars,
       StoreTypes, OperationTypes, OperationFits, CallQuiet
<1>22. ASSUME NEW lock \in BOOLEAN, Stop(lock) PROVE CallQuiet(d)'
    BY <1>22, <1>a, <1>b, <1>f, <1>q DEF Stop, CancelRows, CanceledRow, Reconciled, Interrupt,
       Operations, ActiveCalls, pbxVars, StoreTypes, OperationTypes, OperationFits, CallQuiet
<1>23. CASE LockExecution \/ UNCHANGED vars
    BY <1>23, <1>a, <1>b, <1>f, <1>q DEF LockExecution, vars, callVars, opVars, pbxVars,
       StoreTypes, OperationTypes, OperationFits, CallQuiet
<1>24. CASE StopAnswers
    BY <1>24, <1>a, <1>b, <1>f, <1>q DEF StopAnswers, callVars, opVars, pbxVars, StoreTypes,
       OperationTypes, OperationFits, CallQuiet
<1>25. CASE Unlock
    BY <1>25, <1>a, <1>b, <1>f, <1>q DEF Unlock, callVars, opVars, pbxVars, StoreTypes,
       OperationTypes, OperationFits, CallQuiet
<1>26. CASE Crash
    BY <1>26, <1>a, <1>b, <1>f, <1>q DEF Crash, Gone, callVars, pbxVars, StoreTypes,
       OperationTypes, OperationFits, CallQuiet
<1>27. CASE Start
    BY <1>27, <1>a, <1>b, <1>f, <1>q DEF Start, Reconciled, RecoveredRow, StartLocked, opVars,
       pbxVars, StoreTypes, OperationTypes, OperationFits, CallQuiet
<1>28. CASE Resume
    BY <1>28, <1>a, <1>b, <1>f, <1>q DEF Resume, pbxVars, StoreTypes, OperationTypes,
       OperationFits, CallQuiet
<1>29. QED
    BY <1>0, <1>1, <1>2, <1>3, <1>4, <1>5, <1>6, <1>7, <1>8, <1>9, <1>10, <1>11, <1>12, <1>13,
       <1>14, <1>15, <1>16, <1>17, <1>18, <1>19, <1>20, <1>21, <1>22, <1>23, <1>24, <1>25,
       <1>26, <1>27, <1>28
    DEF OutboundNext, CallSteps, PbxSteps, CallbackSteps

\* Whatever writes the row of a bound callback reconciles the outbox with it.
LEMMA OutboxStep == OInv /\ [OutboundNext]_vars => OutboxTells'
<1>0. SUFFICES ASSUME OInv, [OutboundNext]_vars, NEW d \in Calls PROVE OutboxTold(d)'
    BY DEF OutboxTells
<1>a. StoreTypes
    BY <1>0 DEF OInv, OutboundTypeOK, StoreTypes
<1>b. OperationTypes
    BY <1>0 DEF OInv, OutboundTypeOK, OperationTypes
<1>f. OperationsFit
    BY <1>0 DEF OInv
<1>x. OutboxTold(d)
    BY <1>0 DEF OInv, OutboxTells
<1>1. ASSUME NEW c \in Calls, Request(c) PROVE OutboxTold(d)'
  <2>1. CASE d = c
    <3>1. /\ bound'[c] = (bound[c] \/ outbox[c] # "none") /\ row'[c] \in RowStates \ {"none"}
          /\ outbox'[c] = IF outbox[c] \in {"none", "delivered"} THEN outbox[c] ELSE OutboxOf(row'[c])
      BY <1>1, <1>a, OutboxOfState DEF Request, Reserved, StoreTypes
    <3>2. outbox[c] = "delivered" => bound[c] /\ row[c] = "completed" /\ row'[c] = row[c]
      BY <1>1, <1>a, <1>x, <2>1, OutboxOfState DEF Request, OutboxTold, StoreTypes
    <3>3. QED
      BY <1>a, <1>x, <2>1, <3>1, <3>2, OutboxOfState DEF OutboxTold, StoreTypes
  <2>2. CASE d # c
    BY <1>1, <1>a, <1>x, <2>2 DEF Request, Reserved, StoreTypes, OutboxTold
  <2>3. QED
    BY <2>1, <2>2
<1>2. ASSUME NEW c \in Calls, RequestAndDie(c) PROVE OutboxTold(d)'
  <2>1. CASE d = c
    <3>1. /\ bound'[c] = (bound[c] \/ outbox[c] # "none") /\ row'[c] \in RowStates \ {"none"}
          /\ outbox'[c] = IF outbox[c] \in {"none", "delivered"} THEN outbox[c] ELSE OutboxOf(row'[c])
      BY <1>2, <1>a, OutboxOfState DEF RequestAndDie, Reserved, StoreTypes
    <3>2. outbox[c] = "delivered" => bound[c] /\ row[c] = "completed" /\ row'[c] = row[c]
      BY <1>2, <1>a, <1>x, <2>1, OutboxOfState DEF RequestAndDie, OutboxTold, StoreTypes
    <3>3. QED
      BY <1>a, <1>x, <2>1, <3>1, <3>2, OutboxOfState DEF OutboxTold, StoreTypes
  <2>2. CASE d # c
    BY <1>2, <1>a, <1>x, <2>2 DEF RequestAndDie, Reserved, StoreTypes, OutboxTold
  <2>3. QED
    BY <2>1, <2>2
<1>3. ASSUME NEW c \in Calls, Refuse(c) PROVE OutboxTold(d)'
    BY <1>3, <1>a, <1>x DEF Refuse, callVars, boxVars, StoreTypes, OutboxTold
<1>4. ASSUME NEW c \in Calls, Cancel(c) PROVE OutboxTold(d)'
    BY <1>4, <1>a, <1>x, OutboxOfState DEF Cancel, CancelRows, CanceledRow, Reconciled,
       Interrupt, Operations, StoreTypes, OutboxTold
<1>5. ASSUME NEW c \in Calls, Resolve(c) PROVE OutboxTold(d)'
    BY <1>5, <1>a, <1>x DEF Resolve, boxVars, StoreTypes, OutboxTold
<1>6. ASSUME NEW c \in Calls, EndpointReady(c) PROVE OutboxTold(d)'
    BY <1>6, <1>a, <1>x DEF EndpointReady, Moves, StartCleanup, callVars, boxVars, StoreTypes,
       OutboxTold
<1>7. ASSUME NEW c \in Calls, EndpointFails(c) PROVE OutboxTold(d)'
    BY <1>7, <1>a, <1>x DEF EndpointFails, Moves, callVars, boxVars, StoreTypes, OutboxTold
<1>8. ASSUME NEW c \in Calls, Answered(c) PROVE OutboxTold(d)'
    BY <1>8, <1>a, <1>x DEF Answered, Moves, StartCleanup, callVars, boxVars, StoreTypes,
       OutboxTold
<1>9. ASSUME NEW c \in Calls, InviteFails(c) PROVE OutboxTold(d)'
    BY <1>9, <1>a, <1>x DEF InviteFails, Moves, StartCleanup, callVars, boxVars, StoreTypes,
       OutboxTold
<1>10. ASSUME NEW c \in Calls, MediaReady(c) \/ MediaFails(c) PROVE OutboxTold(d)'
    BY <1>10, <1>a, <1>x DEF MediaReady, MediaFails, Moves, StartCleanup, callVars, boxVars,
       StoreTypes, OutboxTold
<1>11. ASSUME NEW c \in Calls, TalkEnds(c) \/ TalkFails(c) PROVE OutboxTold(d)'
    BY <1>11, <1>a, <1>x DEF TalkEnds, TalkFails, Moves, StartCleanup, callVars, boxVars,
       StoreTypes, OutboxTold
<1>12. ASSUME NEW c \in Calls, CleanupEnds(c) PROVE OutboxTold(d)'
    BY <1>12, <1>a, <1>x DEF CleanupEnds, Moves, callVars, boxVars, StoreTypes, OutboxTold
<1>13. ASSUME NEW c \in Calls, Finish(c) PROVE OutboxTold(d)'
    BY <1>13, <1>a, <1>b, <1>f, <1>x, OutboxOfState, OutcomeIsQuiet DEF Finish, Ends,
       MarkTerminal, Reconciled, OperationsFit, OperationFits, StoreTypes, OutboxTold
<1>14. ASSUME NEW c \in Calls, FinishUnrecorded(c) PROVE OutboxTold(d)'
    BY <1>14, <1>a, <1>b, <1>f, <1>x, OutboxOfState DEF FinishUnrecorded, Ends, MarkTerminal,
       Reconciled, OperationsFit, OperationFits, StoreTypes, OutboxTold
<1>15. ASSUME NEW c \in Calls, PbxAnswers(c) \/ PbxRefuses(c) PROVE OutboxTold(d)'
    BY <1>15, <1>a, <1>x DEF PbxAnswers, PbxRefuses, PbxOnly, callVars, boxVars, StoreTypes,
       OutboxTold
<1>16. ASSUME NEW c \in Calls, RemoteHangup(c) PROVE OutboxTold(d)'
    BY <1>16, <1>a, <1>x DEF RemoteHangup, PbxOnly, StartCleanup, callVars, boxVars,
       StoreTypes, OutboxTold
<1>17. ASSUME NEW c \in Calls, Claim(c) PROVE OutboxTold(d)'
    BY <1>17, <1>a, <1>x, OutboxOfState DEF Claim, SenderOnly, callVars, StoreTypes,
       OutboxTold
<1>18. ASSUME NEW c \in Calls, ClaimNothing(c) PROVE OutboxTold(d)'
    BY <1>18, <1>a, <1>x DEF ClaimNothing, SenderOnly, Rearm, callVars, boxVars, StoreTypes,
       OutboxTold
<1>19. ASSUME NEW c \in Calls, Answer(c) PROVE OutboxTold(d)'
    BY <1>19, <1>a, <1>x, OutboxOfState DEF Answer, SenderOnly, Rearm, Retried, callVars,
       StoreTypes, OutboxTold
<1>20. ASSUME NEW c \in Calls, Drain(c) PROVE OutboxTold(d)'
    BY <1>20, <1>a, <1>x DEF Drain, SenderOnly, callVars, boxVars, StoreTypes, OutboxTold
<1>21. ASSUME NEW c \in Calls, Enqueue(c) PROVE OutboxTold(d)'
    BY <1>21, <1>a, <1>x, OutboxOfState DEF Enqueue, SenderOnly, callVars, StoreTypes,
       OutboxTold
<1>22. ASSUME NEW lock \in BOOLEAN, Stop(lock) PROVE OutboxTold(d)'
    BY <1>22, <1>a, <1>x, OutboxOfState DEF Stop, CancelRows, CanceledRow, Reconciled,
       Interrupt, Operations, ActiveCalls, StoreTypes, OutboxTold
<1>23. CASE LockExecution \/ UNCHANGED vars
    BY <1>23, <1>a, <1>x DEF LockExecution, vars, callVars, boxVars, StoreTypes, OutboxTold
<1>24. CASE StopAnswers
    BY <1>24, <1>a, <1>x DEF StopAnswers, callVars, boxVars, StoreTypes, OutboxTold
<1>25. CASE Unlock
    BY <1>25, <1>a, <1>x DEF Unlock, callVars, boxVars, StoreTypes, OutboxTold
<1>26. CASE Crash
    BY <1>26, <1>a, <1>x DEF Crash, Gone, callVars, boxVars, StoreTypes, OutboxTold
<1>27. CASE Start
    BY <1>27, <1>a, <1>x, OutboxOfState DEF Start, Reconciled, RecoveredRow, StartLocked,
       StoreTypes, OutboxTold
<1>28. CASE Resume
    BY <1>28, <1>a, <1>x, OutboxOfState DEF Resume, boxVars, StoreTypes, OutboxTold
<1>29. QED
    BY <1>0, <1>1, <1>2, <1>3, <1>4, <1>5, <1>6, <1>7, <1>8, <1>9, <1>10, <1>11, <1>12, <1>13,
       <1>14, <1>15, <1>16, <1>17, <1>18, <1>19, <1>20, <1>21, <1>22, <1>23, <1>24, <1>25,
       <1>26, <1>27, <1>28
    DEF OutboundNext, CallSteps, PbxSteps, CallbackSteps

\* the store, the process and the abort of an operation are what they were
Kept == UNCHANGED <<row, asked, barrier, aborted, phase>>

Apart(c, d) == d # c => /\ at'[d] = at[d] /\ clean'[d] = clean[d] /\ why'[d] = why[d]
                        /\ leg'[d] = leg[d] /\ dials'[d] = dials[d]

\* A call a step leaves alone fits as before.
LEMMA ApartFits ==
    ASSUME NEW c \in Calls, NEW d \in Calls, OperationFits(d), Kept, Apart(c, d), d # c
    PROVE  OperationFits(d)'
  BY DEF Kept, Apart, OperationFits

\* A step of an operation, or of the PBX, touches one call and no row.
LEMMA OperationApart ==
    ASSUME NEW c \in Calls, NEW d \in Calls, OperationTypes, OperationFits(d),
           \/ EndpointReady(c) \/ EndpointFails(c) \/ Answered(c) \/ InviteFails(c) \/ MediaReady(c)
           \/ MediaFails(c) \/ TalkEnds(c) \/ TalkFails(c) \/ CleanupEnds(c)
           \/ PbxAnswers(c) \/ PbxRefuses(c) \/ RemoteHangup(c)
    PROVE  Kept /\ Apart(c, d)
<1> USE DEF Kept, Apart, Moves, StartCleanup, PbxOnly, OperationTypes, callVars, opVars, pbxVars
<1>1. CASE EndpointReady(c)
    BY <1>1 DEF EndpointReady
<1>2. CASE EndpointFails(c)
    BY <1>2 DEF EndpointFails
<1>3. CASE Answered(c)
    BY <1>3 DEF Answered
<1>4. CASE InviteFails(c)
    BY <1>4 DEF InviteFails
<1>5. CASE MediaReady(c) \/ MediaFails(c)
    BY <1>5 DEF MediaReady, MediaFails
<1>6. CASE TalkEnds(c) \/ TalkFails(c)
    BY <1>6 DEF TalkEnds, TalkFails
<1>7. CASE CleanupEnds(c)
    BY <1>7 DEF CleanupEnds
<1>8. CASE PbxAnswers(c) \/ PbxRefuses(c) \/ RemoteHangup(c)
    BY <1>8 DEF PbxAnswers, PbxRefuses, RemoteHangup
<1>9. QED
    BY <1>1, <1>2, <1>3, <1>4, <1>5, <1>6, <1>7, <1>8

\* It takes that call from one agreeing state to the next.
LEMMA OperationItself ==
    ASSUME NEW c \in Calls, OperationTypes, OperationFits(c), 
           \/ EndpointReady(c) \/ EndpointFails(c) \/ Answered(c) \/ InviteFails(c) \/ MediaReady(c)
           \/ MediaFails(c) \/ TalkEnds(c) \/ TalkFails(c) \/ CleanupEnds(c)
           \/ PbxAnswers(c) \/ PbxRefuses(c) \/ RemoteHangup(c)
    PROVE  OperationFits(c)'
<1>0. Kept
    BY OperationApart
<1> USE <1>0 DEF Kept, Moves, StartCleanup, PbxOnly, OperationTypes, callVars, opVars, pbxVars, OperationFits
<1>1. CASE EndpointReady(c) /\ aborted[c]
    BY <1>1 DEF EndpointReady
<1>1a. CASE EndpointReady(c) /\ ~aborted[c]
    BY <1>1a DEF EndpointReady
<1>2. CASE EndpointFails(c)
    BY <1>2 DEF EndpointFails
<1>3. CASE Answered(c) /\ aborted[c]
    BY <1>3 DEF Answered
<1>3a. CASE Answered(c) /\ ~aborted[c]
    BY <1>3a DEF Answered
<1>4. CASE InviteFails(c)
    BY <1>4 DEF InviteFails
<1>5. CASE MediaReady(c)
    BY <1>5 DEF MediaReady
<1>5a. CASE MediaFails(c)
    BY <1>5a DEF MediaFails
<1>6. CASE TalkEnds(c)
    BY <1>6 DEF TalkEnds
<1>6a. CASE TalkFails(c)
    BY <1>6a DEF TalkFails
<1>7. CASE CleanupEnds(c)
    BY <1>7 DEF CleanupEnds
<1>8. CASE PbxAnswers(c)
    BY <1>8 DEF PbxAnswers
<1>8a. CASE PbxRefuses(c)
    BY <1>8a DEF PbxRefuses
<1>8b. CASE RemoteHangup(c)
    BY <1>8b DEF RemoteHangup
<1>9. QED
    BY <1>1, <1>2, <1>3, <1>4, <1>5, <1>6, <1>7, <1>8, <1>1a, <1>3a, <1>5a, <1>6a, <1>8a,
       <1>8b

\* The row, the operation and the leg of each call stay in agreement.
LEMMA OperationsStep == OInv /\ [OutboundNext]_vars => OperationsFit'
<1>0. SUFFICES ASSUME OInv, [OutboundNext]_vars, NEW d \in Calls PROVE OperationFits(d)'
    BY DEF OperationsFit
<1>a. StoreTypes
    BY <1>0 DEF OInv, OutboundTypeOK, StoreTypes
<1>b. OperationTypes
    BY <1>0 DEF OInv, OutboundTypeOK, OperationTypes
<1>e. OperationsFit
    BY <1>0 DEF OInv
<1>f. OperationFits(d)
    BY <1>0 DEF OInv, OperationsFit
<1>1. ASSUME NEW c \in Calls, Request(c) PROVE OperationFits(d)'
    BY <1>1, <1>a, <1>b, <1>f DEF Request, CanReach, Reserved, pbxVars, StoreTypes,
       OperationTypes, OperationFits
<1>2. ASSUME NEW c \in Calls, RequestAndDie(c) PROVE OperationFits(d)'
    BY <1>2, <1>a, <1>b, <1>f DEF RequestAndDie, CanReach, Reserved, Gone, pbxVars,
       StoreTypes, OperationTypes, OperationFits
<1>3. ASSUME NEW c \in Calls, Refuse(c) PROVE OperationFits(d)'
    BY <1>3, <1>a, <1>b, <1>f DEF Refuse, callVars, opVars, pbxVars, StoreTypes,
       OperationTypes, OperationFits
<1>4. ASSUME NEW c \in Calls, Cancel(c) PROVE OperationFits(d)'
    BY <1>4, <1>a, <1>b, <1>f DEF Cancel, CancelRows, CanceledRow, Reconciled, Interrupt,
       Operations, pbxVars, StoreTypes, OperationTypes, OperationFits
<1>5. ASSUME NEW c \in Calls, Resolve(c) PROVE OperationFits(d)'
    BY <1>5, <1>a, <1>b, <1>f DEF Resolve, opVars, pbxVars, StoreTypes, OperationTypes,
       OperationFits
<1>6. ASSUME NEW c \in Calls, \/ EndpointReady(c) \/ EndpointFails(c) \/ Answered(c)
                              \/ InviteFails(c) \/ MediaReady(c) \/ MediaFails(c)
                              \/ TalkEnds(c) \/ TalkFails(c) \/ CleanupEnds(c)
                              \/ PbxAnswers(c) \/ PbxRefuses(c) \/ RemoteHangup(c) 
      PROVE OperationFits(d)'
  <2>1. CASE d = c
    BY <1>6, <1>b, <1>f, <2>1, OperationItself
  <2>2. CASE d # c
    BY <1>6, <1>b, <1>f, <2>2, OperationApart, ApartFits
  <2>3. QED
    BY <2>1, <2>2
<1>7. ASSUME NEW c \in Calls, Finish(c) PROVE OperationFits(d)'
  <2>1. OperationFits(c)
    BY <1>e DEF OperationsFit
  <2>2. /\ Outcome(c) \in Terminal
        /\ Outcome(c) # "outcome_unknown" => leg[c] \notin {"ringing", "up"}
    BY <1>7, <1>b, <2>1, OutcomeIsQuiet DEF Finish, Ends
  <2>3. /\ row' = [row EXCEPT ![c] = Outcome(c)] /\ UNCHANGED <<asked, leg, dials, phase>>
        /\ barrier' = IF Outcome(c) = "outcome_unknown"
                       THEN [barrier EXCEPT ![c] = "armed"] ELSE barrier
        /\ at' = [at EXCEPT ![c] = "none"] /\ aborted' = [aborted EXCEPT ![c] = FALSE]
        /\ clean' = [clean EXCEPT ![c] = "no"] /\ why' = [why EXCEPT ![c] = "none"]
    BY <1>7 DEF Finish, Ends, MarkTerminal, pbxVars
  <2>4. row[c] \in {"dial_intent", "cancel_requested"}
    BY <1>7, <2>1 DEF Finish, Ends, OperationFits
  <2>5. CASE d = c
    <3>1. /\ row'[c] = Outcome(c) /\ at'[c] = "none" /\ ~aborted'[c]
          /\ clean'[c] = "no" /\ why'[c] = "none" /\ leg'[c] = leg[c]
          /\ barrier'[c] = IF Outcome(c) = "outcome_unknown" THEN "armed" ELSE barrier[c]
      BY <1>a, <1>b, <2>3 DEF StoreTypes, OperationTypes
    <3>2. QED
      BY <2>1, <2>2, <2>4, <2>5, <3>1 DEF OperationFits
  <2>6. CASE d # c
    BY <1>a, <1>b, <1>f, <2>3, <2>6 DEF StoreTypes, OperationTypes, OperationFits
  <2>7. QED
    BY <2>5, <2>6
<1>8. ASSUME NEW c \in Calls, FinishUnrecorded(c) PROVE OperationFits(d)'
    BY <1>8, <1>a, <1>b, <1>f DEF FinishUnrecorded, Ends, MarkTerminal, Reconciled, pbxVars,
       StoreTypes, OperationTypes, OperationFits
<1>9. ASSUME NEW c \in Calls, Claim(c) PROVE OperationFits(d)'
    BY <1>9, <1>a, <1>b, <1>f DEF Claim, SenderOnly, callVars, opVars, pbxVars, StoreTypes,
       OperationTypes, OperationFits
<1>10. ASSUME NEW c \in Calls, ClaimNothing(c) PROVE OperationFits(d)'
    BY <1>10, <1>a, <1>b, <1>f DEF ClaimNothing, SenderOnly, Rearm, callVars, opVars, pbxVars,
       StoreTypes, OperationTypes, OperationFits
<1>11. ASSUME NEW c \in Calls, Answer(c) PROVE OperationFits(d)'
    BY <1>11, <1>a, <1>b, <1>f DEF Answer, SenderOnly, Rearm, Retried, callVars, opVars,
       pbxVars, StoreTypes, OperationTypes, OperationFits
<1>12. ASSUME NEW c \in Calls, Drain(c) PROVE OperationFits(d)'
    BY <1>12, <1>a, <1>b, <1>f DEF Drain, SenderOnly, callVars, opVars, pbxVars, StoreTypes,
       OperationTypes, OperationFits
<1>13. ASSUME NEW c \in Calls, Enqueue(c) PROVE OperationFits(d)'
    BY <1>13, <1>a, <1>b, <1>f DEF Enqueue, SenderOnly, callVars, opVars, pbxVars, StoreTypes,
       OperationTypes, OperationFits
<1>14. ASSUME NEW lock \in BOOLEAN, Stop(lock) PROVE OperationFits(d)'
    BY <1>14, <1>a, <1>b, <1>f DEF Stop, CancelRows, CanceledRow, Reconciled, Interrupt,
       Operations, ActiveCalls, pbxVars, StoreTypes, OperationTypes, OperationFits
<1>15. CASE StopAnswers
    BY <1>15, <1>a, <1>b, <1>f DEF StopAnswers, callVars, opVars, pbxVars, StoreTypes,
       OperationTypes, OperationFits
<1>16. CASE Unlock
    BY <1>16, <1>a, <1>b, <1>f DEF Unlock, callVars, opVars, pbxVars, StoreTypes,
       OperationTypes, OperationFits
<1>17. CASE Crash
    BY <1>17, <1>a, <1>b, <1>f DEF Crash, Gone, callVars, pbxVars, StoreTypes, OperationTypes,
       OperationFits
<1>18. CASE Start
    BY <1>18, <1>a, <1>b, <1>f DEF Start, Reconciled, RecoveredRow, StartLocked, opVars,
       pbxVars, StoreTypes, OperationTypes, OperationFits
<1>19. CASE Resume
    BY <1>19, <1>a, <1>b, <1>f DEF Resume, pbxVars, StoreTypes, OperationTypes, OperationFits
<1>20. CASE LockExecution
    BY <1>20, <1>a, <1>b, <1>f DEF LockExecution, callVars, opVars, pbxVars, StoreTypes,
       OperationTypes, OperationFits
<1>21. CASE UNCHANGED vars
    BY <1>21, <1>a, <1>b, <1>f DEF vars, callVars, opVars, pbxVars, StoreTypes,
       OperationTypes, OperationFits
<1>22. QED
    BY <1>0, <1>1, <1>2, <1>3, <1>4, <1>5, <1>6, <1>7, <1>8, <1>9, <1>10, <1>11, <1>12, <1>13,
       <1>14, <1>15, <1>16, <1>17, <1>18, <1>19, <1>20, <1>21
    DEF OutboundNext, CallSteps, PbxSteps, CallbackSteps

\* What arms a barrier closes the plane, and only a plane without one opens.
LEMMA BarrierStep == OInv /\ [OutboundNext]_vars => BarrierCloses'
<1>0. SUFFICES ASSUME OInv, [OutboundNext]_vars PROVE BarrierCloses'
    OBVIOUS
<1>a. StoreTypes
    BY <1>0 DEF OInv, OutboundTypeOK, StoreTypes
<1>q. BarrierCloses
    BY <1>0 DEF OInv
<1>1. ASSUME NEW c \in Calls, Request(c) PROVE BarrierCloses'
    BY <1>1, <1>a, <1>q DEF Request, CanReach, Reserved, planeVars, StoreTypes, BarrierCloses,
       Barriers
<1>2. ASSUME NEW c \in Calls, RequestAndDie(c) PROVE BarrierCloses'
    BY <1>2, <1>a, <1>q DEF RequestAndDie, CanReach, Reserved, Gone, StoreTypes,
       BarrierCloses, Barriers
<1>3. ASSUME NEW c \in Calls, Refuse(c) PROVE BarrierCloses'
    BY <1>3, <1>a, <1>q DEF Refuse, callVars, planeVars, StoreTypes, BarrierCloses, Barriers
<1>4. ASSUME NEW c \in Calls, Cancel(c) PROVE BarrierCloses'
    BY <1>4, <1>a, <1>q DEF Cancel, CancelRows, CanceledRow, Reconciled, Interrupt,
       Operations, planeVars, StoreTypes, BarrierCloses, Barriers
<1>5. ASSUME NEW c \in Calls, Resolve(c) PROVE BarrierCloses'
    BY <1>5, <1>a, <1>q DEF Resolve, planeVars, StoreTypes, BarrierCloses, Barriers
<1>6. ASSUME NEW c \in Calls, EndpointReady(c) PROVE BarrierCloses'
    BY <1>6, <1>a, <1>q DEF EndpointReady, Moves, StartCleanup, callVars, planeVars,
       StoreTypes, BarrierCloses, Barriers
<1>7. ASSUME NEW c \in Calls, EndpointFails(c) PROVE BarrierCloses'
    BY <1>7, <1>a, <1>q DEF EndpointFails, Moves, callVars, planeVars, StoreTypes,
       BarrierCloses, Barriers
<1>8. ASSUME NEW c \in Calls, Answered(c) PROVE BarrierCloses'
    BY <1>8, <1>a, <1>q DEF Answered, Moves, StartCleanup, callVars, planeVars, StoreTypes,
       BarrierCloses, Barriers
<1>9. ASSUME NEW c \in Calls, InviteFails(c) PROVE BarrierCloses'
    BY <1>9, <1>a, <1>q DEF InviteFails, Moves, StartCleanup, callVars, planeVars, StoreTypes,
       BarrierCloses, Barriers
<1>10. ASSUME NEW c \in Calls, MediaReady(c) \/ MediaFails(c) PROVE BarrierCloses'
    BY <1>10, <1>a, <1>q DEF MediaReady, MediaFails, Moves, StartCleanup, callVars, planeVars,
       StoreTypes, BarrierCloses, Barriers
<1>11. ASSUME NEW c \in Calls, TalkEnds(c) \/ TalkFails(c) PROVE BarrierCloses'
    BY <1>11, <1>a, <1>q DEF TalkEnds, TalkFails, Moves, StartCleanup, callVars, planeVars,
       StoreTypes, BarrierCloses, Barriers
<1>12. ASSUME NEW c \in Calls, CleanupEnds(c) PROVE BarrierCloses'
    BY <1>12, <1>a, <1>q DEF CleanupEnds, Moves, callVars, planeVars, StoreTypes,
       BarrierCloses, Barriers
<1>13. ASSUME NEW c \in Calls, Finish(c) PROVE BarrierCloses'
    BY <1>13, <1>a, <1>q DEF Finish, Ends, MarkTerminal, Reconciled, planeVars, StoreTypes,
       BarrierCloses, Barriers
<1>14. ASSUME NEW c \in Calls, FinishUnrecorded(c) PROVE BarrierCloses'
    BY <1>14, <1>a, <1>q DEF FinishUnrecorded, Ends, MarkTerminal, Reconciled, planeVars,
       StoreTypes, BarrierCloses, Barriers
<1>15. ASSUME NEW c \in Calls, PbxAnswers(c) \/ PbxRefuses(c) PROVE BarrierCloses'
    BY <1>15, <1>a, <1>q DEF PbxAnswers, PbxRefuses, PbxOnly, callVars, planeVars, StoreTypes,
       BarrierCloses, Barriers
<1>16. ASSUME NEW c \in Calls, RemoteHangup(c) PROVE BarrierCloses'
    BY <1>16, <1>a, <1>q DEF RemoteHangup, PbxOnly, StartCleanup, callVars, planeVars,
       StoreTypes, BarrierCloses, Barriers
<1>17. ASSUME NEW c \in Calls, Claim(c) PROVE BarrierCloses'
    BY <1>17, <1>a, <1>q DEF Claim, SenderOnly, callVars, planeVars, StoreTypes,
       BarrierCloses, Barriers
<1>18. ASSUME NEW c \in Calls, ClaimNothing(c) PROVE BarrierCloses'
    BY <1>18, <1>a, <1>q DEF ClaimNothing, SenderOnly, Rearm, callVars, planeVars, StoreTypes,
       BarrierCloses, Barriers
<1>19. ASSUME NEW c \in Calls, Answer(c) PROVE BarrierCloses'
    BY <1>19, <1>a, <1>q DEF Answer, SenderOnly, Rearm, Retried, callVars, planeVars,
       StoreTypes, BarrierCloses, Barriers
<1>20. ASSUME NEW c \in Calls, Drain(c) PROVE BarrierCloses'
    BY <1>20, <1>a, <1>q DEF Drain, SenderOnly, callVars, planeVars, StoreTypes,
       BarrierCloses, Barriers
<1>21. ASSUME NEW c \in Calls, Enqueue(c) PROVE BarrierCloses'
    BY <1>21, <1>a, <1>q DEF Enqueue, SenderOnly, callVars, planeVars, StoreTypes,
       BarrierCloses, Barriers
<1>22. ASSUME NEW lock \in BOOLEAN, Stop(lock) PROVE BarrierCloses'
    BY <1>22, <1>a, <1>q DEF Stop, CancelRows, CanceledRow, Reconciled, Interrupt, Operations,
       ActiveCalls, StoreTypes, BarrierCloses, Barriers
<1>23. CASE LockExecution \/ UNCHANGED vars
    BY <1>23, <1>a, <1>q DEF LockExecution, vars, callVars, planeVars, StoreTypes,
       BarrierCloses, Barriers
<1>24. CASE StopAnswers
    BY <1>24, <1>a, <1>q DEF StopAnswers, callVars, planeVars, StoreTypes, BarrierCloses,
       Barriers
<1>25. CASE Unlock
    BY <1>25, <1>a, <1>q DEF Unlock, NothingLeft, callVars, StoreTypes, BarrierCloses,
       Barriers
<1>26. CASE Crash
    BY <1>26, <1>a, <1>q DEF Crash, Gone, callVars, StoreTypes, BarrierCloses, Barriers
<1>27. CASE Start
    BY <1>27, <1>a, <1>q DEF Start, Reconciled, RecoveredRow, StartLocked, StoreTypes,
       BarrierCloses, Barriers
<1>28. CASE Resume
    BY <1>28, <1>a, <1>q DEF Resume, planeVars, StoreTypes, BarrierCloses, Barriers
<1>29. QED
    BY <1>0, <1>1, <1>2, <1>3, <1>4, <1>5, <1>6, <1>7, <1>8, <1>9, <1>10, <1>11, <1>12, <1>13,
       <1>14, <1>15, <1>16, <1>17, <1>18, <1>19, <1>20, <1>21, <1>22, <1>23, <1>24, <1>25,
       <1>26, <1>27, <1>28
    DEF OutboundNext, CallSteps, PbxSteps, CallbackSteps

\* Quiescence is reported with nothing left, and forgotten before a call can begin.
LEMMA QuietStep == OInv /\ QuietStop /\ [OutboundNext]_vars => QuietStop'
<1>0. SUFFICES ASSUME OInv, QuietStop, [OutboundNext]_vars PROVE QuietStop'
    OBVIOUS
<1>a. StoreTypes
    BY <1>0 DEF OInv, OutboundTypeOK, StoreTypes
<1>b. OperationTypes
    BY <1>0 DEF OInv, OutboundTypeOK, OperationTypes
<1>q. QuietStop
    BY <1>0
<1>1. ASSUME NEW c \in Calls, Request(c) PROVE QuietStop'
    BY <1>1, <1>a, <1>b, <1>q DEF Request, CanReach, Reserved, pbxVars, StoreTypes,
       OperationTypes, QuietStop
<1>2. ASSUME NEW c \in Calls, RequestAndDie(c) PROVE QuietStop'
    BY <1>2, <1>a, <1>b, <1>q DEF RequestAndDie, CanReach, Reserved, Gone, pbxVars,
       StoreTypes, OperationTypes, QuietStop
<1>3. ASSUME NEW c \in Calls, Refuse(c) PROVE QuietStop'
    BY <1>3, <1>a, <1>b, <1>q DEF Refuse, callVars, opVars, pbxVars, StoreTypes,
       OperationTypes, QuietStop
<1>4. ASSUME NEW c \in Calls, Cancel(c) PROVE QuietStop'
    BY <1>4, <1>a, <1>b, <1>q DEF Cancel, CancelRows, CanceledRow, Reconciled, Interrupt,
       Operations, pbxVars, StoreTypes, OperationTypes, QuietStop
<1>5. ASSUME NEW c \in Calls, Resolve(c) PROVE QuietStop'
    BY <1>5, <1>a, <1>b, <1>q DEF Resolve, opVars, pbxVars, StoreTypes, OperationTypes,
       QuietStop
<1>6. ASSUME NEW c \in Calls, EndpointReady(c) PROVE QuietStop'
    BY <1>6, <1>a, <1>b, <1>q DEF EndpointReady, Moves, StartCleanup, callVars, pbxVars,
       StoreTypes, OperationTypes, QuietStop
<1>7. ASSUME NEW c \in Calls, EndpointFails(c) PROVE QuietStop'
    BY <1>7, <1>a, <1>b, <1>q DEF EndpointFails, Moves, callVars, pbxVars, StoreTypes,
       OperationTypes, QuietStop
<1>8. ASSUME NEW c \in Calls, Answered(c) PROVE QuietStop'
    BY <1>8, <1>a, <1>b, <1>q DEF Answered, Moves, StartCleanup, callVars, pbxVars,
       StoreTypes, OperationTypes, QuietStop
<1>9. ASSUME NEW c \in Calls, InviteFails(c) PROVE QuietStop'
    BY <1>9, <1>a, <1>b, <1>q DEF InviteFails, Moves, StartCleanup, callVars, pbxVars,
       StoreTypes, OperationTypes, QuietStop
<1>10. ASSUME NEW c \in Calls, MediaReady(c) \/ MediaFails(c) PROVE QuietStop'
    BY <1>10, <1>a, <1>b, <1>q DEF MediaReady, MediaFails, Moves, StartCleanup, callVars,
       pbxVars, StoreTypes, OperationTypes, QuietStop
<1>11. ASSUME NEW c \in Calls, TalkEnds(c) \/ TalkFails(c) PROVE QuietStop'
    BY <1>11, <1>a, <1>b, <1>q DEF TalkEnds, TalkFails, Moves, StartCleanup, callVars,
       pbxVars, StoreTypes, OperationTypes, QuietStop
<1>12. ASSUME NEW c \in Calls, CleanupEnds(c) PROVE QuietStop'
    BY <1>12, <1>a, <1>b, <1>q DEF CleanupEnds, Moves, callVars, StoreTypes, OperationTypes,
       QuietStop
<1>13. ASSUME NEW c \in Calls, Finish(c) PROVE QuietStop'
    BY <1>13, <1>a, <1>b, <1>q DEF Finish, Ends, MarkTerminal, Reconciled, pbxVars,
       StoreTypes, OperationTypes, QuietStop
<1>14. ASSUME NEW c \in Calls, FinishUnrecorded(c) PROVE QuietStop'
    BY <1>14, <1>a, <1>b, <1>q DEF FinishUnrecorded, Ends, MarkTerminal, Reconciled, pbxVars,
       StoreTypes, OperationTypes, QuietStop
<1>15. ASSUME NEW c \in Calls, PbxAnswers(c) \/ PbxRefuses(c) PROVE QuietStop'
    BY <1>15, <1>a, <1>b, <1>q DEF PbxAnswers, PbxRefuses, PbxOnly, callVars, StoreTypes,
       OperationTypes, QuietStop
<1>16. ASSUME NEW c \in Calls, RemoteHangup(c) PROVE QuietStop'
    BY <1>16, <1>a, <1>b, <1>q DEF RemoteHangup, PbxOnly, StartCleanup, callVars, StoreTypes,
       OperationTypes, QuietStop
<1>17. ASSUME NEW c \in Calls, Claim(c) PROVE QuietStop'
    BY <1>17, <1>a, <1>b, <1>q DEF Claim, SenderOnly, callVars, opVars, pbxVars, StoreTypes,
       OperationTypes, QuietStop
<1>18. ASSUME NEW c \in Calls, ClaimNothing(c) PROVE QuietStop'
    BY <1>18, <1>a, <1>b, <1>q DEF ClaimNothing, SenderOnly, Rearm, callVars, opVars, pbxVars,
       StoreTypes, OperationTypes, QuietStop
<1>19. ASSUME NEW c \in Calls, Answer(c) PROVE QuietStop'
    BY <1>19, <1>a, <1>b, <1>q DEF Answer, SenderOnly, Rearm, Retried, callVars, opVars,
       pbxVars, StoreTypes, OperationTypes, QuietStop
<1>20. ASSUME NEW c \in Calls, Drain(c) PROVE QuietStop'
    BY <1>20, <1>a, <1>b, <1>q DEF Drain, SenderOnly, callVars, opVars, pbxVars, StoreTypes,
       OperationTypes, QuietStop
<1>21. ASSUME NEW c \in Calls, Enqueue(c) PROVE QuietStop'
    BY <1>21, <1>a, <1>b, <1>q DEF Enqueue, SenderOnly, callVars, opVars, pbxVars, StoreTypes,
       OperationTypes, QuietStop
<1>22. ASSUME NEW lock \in BOOLEAN, Stop(lock) PROVE QuietStop'
    BY <1>22, <1>a, <1>b, <1>q DEF Stop, CancelRows, CanceledRow, Reconciled, Interrupt,
       Operations, ActiveCalls, pbxVars, StoreTypes, OperationTypes, QuietStop
<1>23. CASE LockExecution \/ UNCHANGED vars
    BY <1>23, <1>a, <1>b, <1>q DEF LockExecution, vars, callVars, opVars, pbxVars, StoreTypes,
       OperationTypes, QuietStop
<1>24. CASE StopAnswers
  <2>1. CASE verdict' # "quiesced"
    BY <2>1 DEF QuietStop
  <2>2. CASE verdict' = "quiesced"
    <3>1. NothingLeft
      BY <1>24, <2>2 DEF StopAnswers
    <3>2. UNCHANGED <<row, at, leg>>
      BY <1>24 DEF StopAnswers, callVars, opVars, pbxVars
    <3>3. ASSUME NEW c \in Calls
          PROVE  leg[c] \notin {"ringing", "up"} /\ at[c] = "none" /\ row[c] # "queued"
      <4>1. at[c] = "none" /\ row[c] \notin ActiveStates /\ barrier[c] # "armed"
        BY <3>1 DEF NothingLeft, Operations, ActiveCalls, Barriers
      <4>2. OperationFits(c) /\ CallQuiet(c) /\ row[c] \in RowStates
                /\ barrier[c] \in {"none", "armed", "resolved"}
        BY <1>0, <1>a DEF OInv, OperationsFit, TerminalIsQuiet, StoreTypes
      <4>3. QED
        BY <4>1, <4>2 DEF OperationFits, CallQuiet
    <3>4. QED
      BY <3>2, <3>3 DEF QuietStop
  <2>3. QED
    BY <2>1, <2>2
<1>25. CASE Unlock
    BY <1>25, <1>a, <1>b, <1>q DEF Unlock, callVars, opVars, pbxVars, StoreTypes,
       OperationTypes, QuietStop
<1>26. CASE Crash
    BY <1>26, <1>a, <1>b, <1>q DEF Crash, Gone, callVars, pbxVars, StoreTypes, OperationTypes,
       QuietStop
<1>27. CASE Start
    BY <1>27, <1>a, <1>b, <1>q DEF Start, Reconciled, RecoveredRow, StartLocked, opVars,
       pbxVars, StoreTypes, OperationTypes, QuietStop
<1>28. CASE Resume
    BY <1>28, <1>a, <1>b, <1>q DEF Resume, pbxVars, StoreTypes, OperationTypes, QuietStop
<1>29. QED
    BY <1>0, <1>1, <1>2, <1>3, <1>4, <1>5, <1>6, <1>7, <1>8, <1>9, <1>10, <1>11, <1>12, <1>13,
       <1>14, <1>15, <1>16, <1>17, <1>18, <1>19, <1>20, <1>21, <1>22, <1>23, <1>24, <1>25,
       <1>26, <1>27, <1>28
    DEF OutboundNext, CallSteps, PbxSteps, CallbackSteps

-----------------------------------------------------------------------------
(* The theorems.                                                            *)

LEMMA OInvInit == OutboundInit => OInv
<1> SUFFICES ASSUME OutboundInit PROVE OInv
    OBVIOUS
<1>1. OutboundTypeOK
    BY DEF OutboundInit, OutboundTypeOK
<1>2. DialedOnce /\ TerminalIsQuiet /\ OutboxTells
    BY DEF OutboundInit, DialedOnce, TerminalIsQuiet, CallQuiet, OutboxTells, OutboxTold
<1>3. OperationsFit
    BY DEF OutboundInit, OperationsFit, OperationFits
<1>4. BarrierCloses
    BY DEF OutboundInit, BarrierCloses
<1>5. QED
    BY <1>1, <1>2, <1>3, <1>4 DEF OInv

\* One dial for a request at most; a call recorded as over is gone; a callback
\* tells what became of its call; a plane with an unresolved barrier is closed:
\* whatever is posted again, canceled, stopped, and wherever the process dies.
THEOREM OutboundInvariant == OutboundSpec => []OInv
<1>1. OInv /\ [OutboundNext]_vars => OInv'
  <2> SUFFICES ASSUME OInv, [OutboundNext]_vars PROVE OInv'
    OBVIOUS
  <2>1. OutboundTypeOK'
    BY StoreTypesStep, OperationTypesStep, PlaneTypesStep
       DEF OutboundTypeOK, StoreTypes, OperationTypes, PlaneTypes
  <2>2. QED
    BY <2>1, DialedStep, TerminalStep, OutboxStep, OperationsStep, BarrierStep DEF OInv
<1>2. QED
    BY <1>1, OInvInit, PTL DEF OutboundSpec

\* A stop answers that the plane is quiesced only when no call is at the PBX and
\* none is about to be, and that stays so until the plane accepts again.
THEOREM QuietStopIsTrue == OutboundSpec => []QuietStop
<1>1. OutboundInit => QuietStop
    BY DEF OutboundInit, QuietStop
<1>2. QED
    BY <1>1, QuietStep, OutboundInvariant, PTL DEF OutboundSpec
=============================================================================
