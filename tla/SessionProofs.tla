--------------------------- MODULE SessionProofs ---------------------------
(***************************************************************************)
(* Theorems about Session for every MaxFrames, MaxEvents and StepOutputs.  *)
(***************************************************************************)
EXTENDS Session, FiniteSetTheorems, TLAPS

(* The interruptions of a finite list of control events can be counted.    *)
LEMMA InterruptionsCount ==
  ASSUME NEW s \in Seq(EventKind)
  PROVE  Cardinality(Interruptions(s)) \in Nat
<1>1. IsFiniteSet(1..Len(s))
  BY FS_Interval
<1>2. Interruptions(s) \subseteq 1..Len(s)
  BY DEF Interruptions
<1>3. QED
  BY <1>1, <1>2, FS_Subset, FS_CardinalityType

(* The runtime keeps its types whatever step it takes. *)
LEMMA RuntimeType ==
  ASSUME RuntimeTypeOK,
         \/ RuntimeStep \/ SkillReturns \/ Take
         \/ \E event \in EventKind, via \in Entry : HandleControlEvent(event, via)
         \/ UNCHANGED runtimeVars
  PROVE  RuntimeTypeOK'
<1> USE DEF RuntimeTypeOK, Budgeted, Awaited, AuditKind, Decision, Rejected,
            ToolFailed, ToolTimedOut, Entry
<1>1. CASE Record
  BY <1>1 DEF Record, Suspend, Answer
<1>2. CASE ToolTimeout
  BY <1>2 DEF ToolTimeout, Suspend, Answer
<1>3. CASE RecordTimeout
  BY <1>3 DEF RecordTimeout, Answer
<1>4. CASE SkillReturns
  BY <1>4 DEF SkillReturns, Suspend
<1>5. CASE Take
  BY <1>5 DEF Take
<1>6. ASSUME NEW event \in EventKind, NEW via \in Entry, HandleControlEvent(event, via)
      PROVE  RuntimeTypeOK'
  BY <1>6 DEF HandleControlEvent, ExecuteSkill, Suspend, Answer
<1>7. CASE UNCHANGED runtimeVars
  BY <1>7 DEF runtimeVars
<1>8. QED
  BY <1>1, <1>2, <1>3, <1>4, <1>5, <1>6, <1>7 DEF RuntimeStep

-----------------------------------------------------------------------------
(* Type correctness: in particular every frame in the output buffer is     *)
(* stamped with a step that took place, and a step's events stay bounded.  *)
THEOREM TypeCorrect == Spec => []TypeOK
<1> USE DEF TypeOK, PCs, CloseReason, Frame, Metrics, Progress
<1>0. MaxFrames \in Nat /\ MaxEvents \in Nat
  BY SessionAssumption
<1>1. Init => TypeOK
  <2> SUFFICES ASSUME Init PROVE TypeOK
    OBVIOUS
  <2>1. RuntimeTypeOK
    BY DEF Init, RuntimeInit, RuntimeTypeOK, Budgeted, Awaited, Entry
  <2>2. metrics \in Metrics
    BY <1>0 DEF Init
  <2>3. QED
    BY <1>0, <2>1, <2>2 DEF Init
<1>2. TypeOK /\ [Next]_vars => TypeOK'
  <2> SUFFICES ASSUME TypeOK, [Next]_vars PROVE TypeOK'
    OBVIOUS
  <2>1. CASE StartSession
    BY <2>1, RuntimeType DEF StartSession, stepVars, historyVars
  <2>2. CASE RecvFrame
    BY <1>0, <2>2, RuntimeType DEF RecvFrame, stepVars, historyVars
  <2>3. CASE RecvEnds
    BY <1>0, <2>3, RuntimeType DEF RecvEnds, Close, historyVars
  <2>4. CASE StepReturns
    <3> PICK out \in StepOutputs :
          /\ audio' = out.audio
          /\ events' = out.events
          /\ progress' = out.progress
          /\ metrics' = [metrics EXCEPT !.firstAudio = FirstAudio(out)]
          /\ bargeIns' = bargeIns + Cardinality(Interruptions(out.events))
      BY <2>4 DEF StepReturns
    <3>1. /\ audio' \in Seq(FrameKind) /\ events' \in Seq(EventKind)
          /\ Len(events') <= MaxEvents /\ progress' \in Progress
      BY SessionAssumption DEF BackendStep
    <3>2. metrics' \in Metrics
      BY DEF FirstAudio
    <3>3. bargeIns' \in Nat
      BY SessionAssumption, InterruptionsCount DEF BackendStep
    <3>4. QED
      BY <2>4, <3>1, <3>2, <3>3, RuntimeType DEF StepReturns
  <2>5. CASE StepFails
    BY <1>0, <2>5, RuntimeType DEF StepFails, Close, historyVars
  <2>6. CASE SendFrame
    <3>1. RuntimeTypeOK'
      BY <2>6, RuntimeType DEF SendFrame
    <3>2. CASE Close("SendError") /\ UNCHANGED outbox
      BY <2>6, <3>1, <3>2, <1>0 DEF SendFrame, Close, historyVars
    <3>3. CASE /\ outbox' = Append(outbox, [step |-> received, kind |-> Head(audio)])
               /\ audio' = Tail(audio)
               /\ UNCHANGED <<pc, events, close>>
      <4>1. Head(audio) \in FrameKind /\ Tail(audio) \in Seq(FrameKind)
        BY <2>6 DEF SendFrame
      <4>2. outbox' \in Seq(Frame)
        BY <3>3, <4>1
      <4>3. QED
        BY <2>6, <3>1, <3>3, <4>1, <4>2 DEF SendFrame, historyVars
    <3>4. QED
      BY <2>6, <3>2, <3>3 DEF SendFrame
  <2>7. CASE NextEvent
    <3>0. "plain" \in Entry
      BY DEF Entry
    <3>1. Head(events) \in EventKind /\ Tail(events) \in Seq(EventKind)
          /\ Len(Tail(events)) <= MaxEvents
      BY <1>0, <2>7 DEF NextEvent, EventsDue
    <3>2. RuntimeTypeOK'
      BY <2>7, <3>0, <3>1, RuntimeType DEF NextEvent
    <3>3. metrics' \in Metrics
      <4>1. CASE metrics' = [metrics EXCEPT !.interruptions = @ + 1]
        <5>1. metrics \in Metrics /\ metrics.interruptions + 1 \in Nat
          OBVIOUS
        <5>2. QED
          BY <4>1, <5>1
      <4>2. CASE UNCHANGED metrics
        BY <4>2
      <4>3. QED
        BY <2>7, <4>1, <4>2 DEF NextEvent
    <3>4. QED
      BY <2>7, <3>1, <3>2, <3>3 DEF NextEvent, historyVars
  <2>8. CASE ClearOutput
    <3>1. RuntimeTypeOK'
      BY <2>8, RuntimeType DEF ClearOutput, EventKind, Entry
    <3>2. outbox' \in Seq(Frame) /\ clearedAt' \in 0..MaxFrames
      <4>1. CASE outbox' = <<>> /\ clearedAt' = received
        BY <4>1
      <4>2. CASE UNCHANGED <<outbox, clearedAt>>
        BY <4>2
      <4>3. QED
        BY <2>8, <4>1, <4>2 DEF ClearOutput
    <3>3. QED
      BY <2>8, <3>1, <3>2 DEF ClearOutput, stepVars
  <2>9. CASE Decide
    BY SMTT(30), <2>9, RuntimeType DEF Decide, stepVars, historyVars
  <2>10. CASE InjectEvent
    BY <2>10, RuntimeType DEF InjectEvent, stepVars, historyVars
  <2>11. CASE EndStep
    <3>1. RuntimeTypeOK'
      BY <2>11, RuntimeType DEF EndStep
    <3>2. CASE Close("BackendFinished")
      BY <1>0, <2>11, <3>1, <3>2 DEF EndStep, Close, historyVars
    <3>3. CASE pc' = "receiving" /\ UNCHANGED <<audio, events, close>>
      BY <2>11, <3>1, <3>3 DEF EndStep, historyVars
    <3>4. QED
      BY <2>11, <3>2, <3>3 DEF EndStep
  <2>12. CASE EndSession
    BY <2>12, RuntimeType DEF EndSession, stepVars, historyVars
  <2>13. CASE Runtime \/ Skill \/ UseRuntime
    BY <2>13, RuntimeType DEF Runtime, Skill, UseRuntime, driverVars, stepVars, historyVars
  <2>14. CASE UNCHANGED vars
    BY <2>14, RuntimeType DEF vars, driverVars, stepVars, historyVars
  <2>15. QED
    BY <2>1, <2>2, <2>3, <2>4, <2>5, <2>6, <2>7, <2>8, <2>9, <2>10, <2>11,
       <2>12, <2>13, <2>14 DEF Next, Driver
<1>3. QED
  BY <1>1, <1>2, PTL DEF Spec

-----------------------------------------------------------------------------
(* NoStaleAudio alone is not inductive: while audio of a step can still be *)
(* sent, no clear of that same step may have happened.                     *)
BargeInInv ==
  /\ NoStaleAudio
  /\ clearedAt <= received
  /\ pc = "stepping" \/ audio # <<>> => clearedAt < received
  /\ pc \in {"clearing", "deciding", "injecting"} => audio = <<>>

(* After an interruption has cleared the output, no frame generated before *)
(* it is ever in the transport's output again.                             *)
THEOREM BargeIn == Spec => []NoStaleAudio
<1> USE DEF BargeInInv, NoStaleAudio
<1>1. Init => BargeInInv
  BY DEF Init
<1>2. TypeOK /\ BargeInInv /\ [Next]_vars => BargeInInv'
  <2> SUFFICES ASSUME TypeOK, BargeInInv, [Next]_vars PROVE BargeInInv'
    OBVIOUS
  <2>0. /\ received \in Nat /\ clearedAt \in Nat /\ outbox \in Seq(Frame)
        /\ audio \in Seq(FrameKind)
    BY SessionAssumption DEF TypeOK
  <2>1. CASE StartSession \/ InjectEvent \/ EndSession \/ Decide
    BY <2>1 DEF StartSession, InjectEvent, EndSession, Decide, stepVars, historyVars
  <2>2. CASE RecvFrame
    BY <2>0, <2>2 DEF RecvFrame, stepVars, historyVars
  <2>3. CASE RecvEnds \/ StepFails
    BY <2>3 DEF RecvEnds, StepFails, Close, historyVars
  <2>4. CASE StepReturns
    BY <2>4 DEF StepReturns
  <2>5. CASE SendFrame
    <3>1. CASE Close("SendError") /\ UNCHANGED outbox
      BY <2>5, <3>1 DEF SendFrame, Close, historyVars
    <3>2. CASE /\ outbox' = Append(outbox, [step |-> received, kind |-> Head(audio)])
               /\ audio' = Tail(audio)
               /\ UNCHANGED <<pc, events, close>>
      <4>1. clearedAt < received /\ UNCHANGED <<received, clearedAt>>
        BY <2>5 DEF SendFrame, historyVars
      <4>2. \A i \in DOMAIN outbox' : outbox'[i].step > clearedAt'
        BY <2>0, <3>2, <4>1
      <4>3. QED
        BY <2>5, <3>2, <4>1, <4>2 DEF SendFrame
    <3>3. QED
      BY <2>5, <3>1, <3>2 DEF SendFrame
  <2>6. CASE NextEvent
    BY <2>6 DEF NextEvent, EventsDue, historyVars
  <2>7. CASE ClearOutput
    BY <2>0, <2>7 DEF ClearOutput, stepVars
  <2>8. CASE EndStep
    BY <2>8 DEF EndStep, StepDone, Close, historyVars
  <2>9. CASE Runtime \/ Skill \/ UseRuntime \/ UNCHANGED vars
    BY <2>9 DEF Runtime, Skill, UseRuntime, vars, driverVars, stepVars, historyVars
  <2>10. QED
    BY <2>1, <2>2, <2>3, <2>4, <2>5, <2>6, <2>7, <2>8, <2>9 DEF Next, Driver
<1>3. QED
  BY <1>1, <1>2, TypeCorrect, PTL DEF Spec

-----------------------------------------------------------------------------
(* Whatever the driver does, the runtime takes one of its own steps or     *)
(* none.                                                                   *)
LEMMA RuntimeMoves ==
  ASSUME [Next]_vars
  PROVE  \/ Record \/ ToolTimeout \/ RecordTimeout \/ SkillReturns \/ Take
         \/ \E event, via : HandleControlEvent(event, via)
         \/ UNCHANGED runtimeVars
<1>1. CASE UNCHANGED vars
  BY <1>1 DEF vars
<1>2. CASE Next
  BY <1>2 DEF Next, Driver, StartSession, RecvFrame, RecvEnds, StepReturns,
              StepFails, SendFrame, NextEvent, ClearOutput, Decide,
              InjectEvent, EndStep, EndSession, Runtime, Skill,
              UseRuntime, RuntimeStep
<1>3. QED
  BY <1>1, <1>2

(* Each audited result answers the attempt right before it, and no skill   *)
(* runs without its attempt being the last audit event.  The discipline is *)
(* inductive as it stands, whatever the driver does around it.             *)
THEOREM AuditPairing == Spec => []AuditPaired
<1> USE DEF AuditPaired, ResultFollowsAttempt, RunningIsAudited, IsResult
<1>1. Init => AuditPaired
  BY DEF Init, RuntimeInit
<1>2. TypeOK /\ AuditPaired /\ [Next]_vars => AuditPaired'
  <2> SUFFICES ASSUME TypeOK, AuditPaired, [Next]_vars PROVE AuditPaired'
    OBVIOUS
  <2>0. audit \in Seq(AuditKind)
    BY DEF TypeOK, RuntimeTypeOK
  <2>1. CASE Record
    BY <2>0, <2>1 DEF Record, Awaited, Suspend, Answer
  <2>2. CASE ToolTimeout
    BY <2>0, <2>2 DEF ToolTimeout, Awaited, Budgeted, Suspend, Answer
  <2>3. CASE RecordTimeout
    BY <2>0, <2>3 DEF RecordTimeout, Answer
  <2>4. CASE SkillReturns
    BY <2>4 DEF SkillReturns, Suspend
  <2>5. CASE Take
    BY <2>5 DEF Take
  <2>6. ASSUME NEW event, NEW via, HandleControlEvent(event, via)
        PROVE  AuditPaired'
    BY <2>6 DEF HandleControlEvent, ExecuteSkill, Suspend, Answer
  <2>7. CASE UNCHANGED runtimeVars
    BY <2>7 DEF runtimeVars
  <2>8. QED
    BY <2>1, <2>2, <2>3, <2>4, <2>5, <2>6, <2>7, RuntimeMoves
<1>3. QED
  BY <1>1, <1>2, TypeCorrect, PTL DEF Spec

-----------------------------------------------------------------------------
(* An answer waits for the caller only while no call is under way, so no   *)
(* later record of the same call can come after it.                        *)
TimeoutInv ==
  /\ AuditedTimeoutRecorded
  /\ decision # "none" => call = "idle"

(* handle_control_event_audited answers a timeout with a fallback only     *)
(* when ToolTimeout is the last thing in the audit log.                    *)
THEOREM AuditedTimeout == Spec => []AuditedTimeoutRecorded
<1> USE DEF TimeoutInv, AuditedTimeoutRecorded
<1>1. Init => TimeoutInv
  BY DEF Init, RuntimeInit
<1>2. TypeOK /\ TimeoutInv /\ [Next]_vars => TimeoutInv'
  <2> SUFFICES ASSUME TypeOK, TimeoutInv, [Next]_vars PROVE TimeoutInv'
    OBVIOUS
  <2>0. audit \in Seq(AuditKind)
    BY DEF TypeOK, RuntimeTypeOK
  <2>1. CASE Record
    BY <2>0, <2>1 DEF Record, Awaited, Suspend, Answer, ToolFailed
  <2>2. CASE ToolTimeout
    BY <2>0, <2>2 DEF ToolTimeout, Awaited, Budgeted, Suspend, Answer
  <2>3. CASE RecordTimeout
    BY <2>0, <2>3 DEF RecordTimeout, Answer
  <2>4. CASE SkillReturns
    BY <2>4 DEF SkillReturns, Suspend
  <2>5. CASE Take
    BY <2>5 DEF Take
  <2>6. ASSUME NEW event, NEW via, HandleControlEvent(event, via)
        PROVE  TimeoutInv'
    BY <2>6 DEF HandleControlEvent, ExecuteSkill, Suspend, Answer, Rejected, ToolFailed
  <2>7. CASE UNCHANGED runtimeVars
    BY <2>7 DEF runtimeVars
  <2>8. QED
    BY <2>1, <2>2, <2>3, <2>4, <2>5, <2>6, <2>7, RuntimeMoves
<1>3. QED
  BY <1>1, <1>2, TypeCorrect, PTL DEF Spec

-----------------------------------------------------------------------------
(* Between steps nothing is left of a step, and only a closed session has  *)
(* a close reason.                                                         *)
QuietInv ==
  /\ pc \in {"starting", "refused", "receiving", "stepping", "ending", "done"} =>
       events = <<>>
  /\ pc \in {"starting", "refused", "receiving", "stepping"} => progress = "more"
  /\ close # "none" => pc \in {"ending", "done"}
  /\ pc = "ending" => close # "none"

(* The invariant of quiet states always holds. *)
LEMMA Quiet == Spec => []QuietInv
<1> USE DEF QuietInv
<1>1. Init => QuietInv
  BY DEF Init
<1>2. TypeOK /\ QuietInv /\ [Next]_vars => QuietInv'
  <2> SUFFICES ASSUME TypeOK, QuietInv, [Next]_vars PROVE QuietInv'
    OBVIOUS
  <2>1. CASE StartSession
    BY <2>1 DEF StartSession, stepVars
  <2>2. CASE RecvFrame
    BY <2>2 DEF RecvFrame, stepVars
  <2>3. CASE RecvEnds \/ StepFails
    BY <2>3 DEF RecvEnds, StepFails, Close
  <2>4. CASE StepReturns
    BY <2>4 DEF StepReturns
  <2>5. CASE SendFrame
    BY <2>5 DEF SendFrame, Close
  <2>6. CASE NextEvent
    BY <2>6 DEF NextEvent
  <2>7. CASE ClearOutput
    BY <2>7 DEF ClearOutput, stepVars
  <2>8. CASE Decide \/ InjectEvent \/ EndSession
    BY <2>8 DEF Decide, InjectEvent, EndSession, stepVars
  <2>9. CASE EndStep
    BY <2>9 DEF EndStep, StepDone, Close
  <2>10. CASE Runtime \/ Skill \/ UseRuntime \/ UNCHANGED vars
    BY <2>10 DEF Runtime, Skill, UseRuntime, vars, driverVars, stepVars
  <2>11. QED
    BY <2>1, <2>2, <2>3, <2>4, <2>5, <2>6, <2>7, <2>8, <2>9, <2>10
       DEF Next, Driver
<1>3. QED
  BY <1>1, <1>2, TypeCorrect, PTL DEF Spec

(* run_session implements BackendContract: every step of the driver is, to *)
(* the backend, one of the contract's calls or nothing at all.             *)
THEOREM ContractKept == Spec => KeepsContract
<1> USE DEF Phase, Credits
<1>1. Init => Contract!ContractInit
  BY DEF Init, Contract!ContractInit
<1>2. TypeOK /\ QuietInv /\ QuietInv' /\ TypeOK' /\ [Next]_vars
        => [Contract!ContractNext]_(Contract!contractVars)
  <2> SUFFICES ASSUME TypeOK, QuietInv, QuietInv', TypeOK', [Next]_vars
               PROVE  Contract!ContractNext \/ UNCHANGED <<Phase, Credits>>
    BY DEF Contract!contractVars
  <2> USE DEF QuietInv
  <2>0. /\ events \in Seq(EventKind) /\ Len(events) \in Nat
        /\ events' \in Seq(EventKind) /\ Len(events') \in 0..MaxEvents
        /\ pc \in PCs /\ progress \in Progress /\ progress' \in Progress
        /\ MaxEvents \in Nat
    BY SessionAssumption DEF TypeOK
  <2>1. CASE StartSession
    BY <2>0, <2>1 DEF StartSession, stepVars, Contract!ContractNext,
                      Contract!StartSession
  <2>2. CASE RecvFrame \/ RecvEnds
    BY <2>0, <2>2 DEF RecvFrame, RecvEnds, Close, stepVars
  <2>3. CASE StepReturns
    BY <2>0, <2>3 DEF StepReturns, Progress, Contract!ContractNext,
                      Contract!StepSession
  <2>4. CASE StepFails
    BY <2>0, <2>4 DEF StepFails, Close, Contract!ContractNext,
                      Contract!StepSession
  <2>5. CASE SendFrame
    BY <2>0, <2>5 DEF SendFrame, Close, Progress, Contract!ContractNext,
                      Contract!Skip
  <2>6. CASE NextEvent
    BY <2>0, <2>6 DEF NextEvent, EventsDue
  <2>7. CASE ClearOutput
    BY <2>0, <2>7 DEF ClearOutput, stepVars
  <2>8. CASE Decide
    BY <2>0, <2>8 DEF Decide, stepVars, Progress, Contract!ContractNext,
                      Contract!Skip
  <2>9. CASE InjectEvent
    BY <2>0, <2>9 DEF InjectEvent, stepVars, Progress, Contract!ContractNext,
                      Contract!InjectEvent
  <2>10. CASE EndStep
    BY <2>0, <2>10 DEF EndStep, StepDone, Close
  <2>11. CASE EndSession
    BY <2>0, <2>11 DEF EndSession, stepVars, Progress, Contract!ContractNext,
                       Contract!EndSession
  <2>12. CASE Runtime \/ Skill \/ UseRuntime \/ UNCHANGED vars
    BY <2>12 DEF Runtime, Skill, UseRuntime, vars, driverVars, stepVars
  <2>13. QED
    BY <2>1, <2>2, <2>3, <2>4, <2>5, <2>6, <2>7, <2>8, <2>9, <2>10, <2>11,
       <2>12 DEF Next, Driver
<1>3. QED
  BY <1>1, <1>2, TypeCorrect, Quiet, PTL DEF Spec, KeepsContract,
     Contract!ContractSpec

-----------------------------------------------------------------------------
(* The places of a sequence that hold k. *)
Places(s, k) == {i \in DOMAIN s : s[i] = k}

(* There are finitely many of them.                                        *)
LEMMA PlacesCount ==
  ASSUME NEW S, NEW s \in Seq(S), NEW k
  PROVE  IsFiniteSet(Places(s, k)) /\ Cardinality(Places(s, k)) \in Nat
<1>1. IsFiniteSet(1..Len(s)) /\ Places(s, k) \subseteq 1..Len(s)
  BY FS_Interval DEF Places
<1> QED
  BY <1>1, FS_Subset, FS_CardinalityType

(* None of nothing. *)
LEMMA PlacesNone == \A k : Cardinality(Places(<<>>, k)) = 0
<1>1. \A k : Places(<<>>, k) = {}
  BY DEF Places
<1> QED
  BY <1>1, FS_EmptySet

(* One more if k is appended, and as many as before if not.                *)
LEMMA PlacesAppend ==
  ASSUME NEW S, NEW s \in Seq(S), NEW x \in S, NEW k
  PROVE  Cardinality(Places(Append(s, x), k)) =
           Cardinality(Places(s, k)) + (IF x = k THEN 1 ELSE 0)
<1>1. CASE x = k
  <2>1. /\ Places(Append(s, x), k) = Places(s, k) \cup {Len(s) + 1}
        /\ Len(s) + 1 \notin Places(s, k)
    BY <1>1 DEF Places
  <2> QED
    BY <1>1, <2>1, PlacesCount, FS_AddElement
<1>2. CASE x # k
  <2>1. Places(Append(s, x), k) = Places(s, k)
    BY <1>2 DEF Places
  <2> QED
    BY <1>2, <2>1, PlacesCount
<1> QED
  BY <1>1, <1>2

(* One less if the head is taken and was k.                                *)
LEMMA PlacesTail ==
  ASSUME NEW S, NEW s \in Seq(S), s # <<>>, NEW k
  PROVE  Cardinality(Places(s, k)) =
           Cardinality(Places(Tail(s), k)) + (IF Head(s) = k THEN 1 ELSE 0)
<1> DEFINE R == {i \in Places(s, k) : i > 1}
<1>0. /\ IsFiniteSet(Places(Tail(s), k)) /\ IsFiniteSet(Places(s, k))
      /\ Cardinality(Places(Tail(s), k)) \in Nat
  BY PlacesCount, Tail(s) \in Seq(S)
<1>1. Cardinality(R) = Cardinality(Places(Tail(s), k)) /\ IsFiniteSet(R)
  <2> DEFINE f == [i \in Places(Tail(s), k) |-> i + 1]
  <2>1. \A i \in Places(Tail(s), k) : f[i] \in R
    BY DEF Places
  <2>2. \A j \in R : j - 1 \in Places(Tail(s), k) /\ f[j - 1] = j
    BY DEF Places
  <2>3. \A i, j \in Places(Tail(s), k) : f[i] = f[j] => i = j
    BY DEF Places
  <2>4. f \in Bijection(Places(Tail(s), k), R)
    <3> HIDE DEF R
    <3>1. f \in [Places(Tail(s), k) -> R]
      BY <2>1
    <3> HIDE DEF f
    <3> QED
      BY <2>2, <2>3, <3>1 DEF Bijection, Injection, Surjection, IsInjective
  <2> HIDE DEF R, f
  <2> QED
    BY <1>0, <2>4, FS_Bijection DEF ExistsBijection
<1>2. CASE Head(s) = k
  <2>1. Places(s, k) = R \cup {1} /\ 1 \notin R
    BY <1>2 DEF Places
  <2> HIDE DEF R
  <2> QED
    BY <1>0, <1>1, <1>2, <2>1, FS_AddElement
<1>3. CASE Head(s) # k
  <2>1. Places(s, k) = R
    BY <1>3 DEF Places
  <2> HIDE DEF R
  <2> QED
    BY <1>0, <1>1, <1>3, <2>1
<1> QED
  BY <1>2, <1>3

(* What SessionMetrics count is in balance at every await, not only where  *)
(* MetricsTrue looks: interruptions with those of the step still to be     *)
(* processed, and tool calls with the answer still to be taken.            *)
MetricsInv ==
  /\ close \in {"none", "BackendFinished"} =>
       metrics.interruptions + Cardinality(Places(events, "Interruption")) = bargeIns
  /\ metrics.toolCalls + (IF decision = "InjectContext" THEN 1 ELSE 0)
       <= Cardinality(Places(audit, "SkillSuccess"))
  /\ decision # "none" => call = "idle"

(* Only an answer that is taken is counted as a tool call.                 *)
LEMMA ToolCallsChange ==
  ASSUME TypeOK, [Next]_vars
  PROVE  \/ metrics'.toolCalls = metrics.toolCalls
         \/ /\ metrics'.toolCalls = metrics.toolCalls + 1
            /\ decision = "InjectContext" /\ Take
<1> USE DEF TypeOK, Metrics
<1>1. CASE StepReturns
  BY <1>1 DEF StepReturns
<1>2. CASE NextEvent
  BY <1>2 DEF NextEvent
<1>3. CASE Decide
  BY <1>3 DEF Decide
<1>4. CASE UNCHANGED metrics
  BY <1>4
<1> QED
  BY <1>1, <1>2, <1>3, <1>4
     DEF Next, Driver, StartSession, RecvFrame, RecvEnds, StepFails, SendFrame,
         ClearOutput, InjectEvent, EndStep, EndSession, Runtime, Skill,
         UseRuntime, vars, driverVars

(* No step counts a tool call twice or without its audited success.        *)
LEMMA ToolCallsStep ==
  ASSUME TypeOK, MetricsInv, [Next]_vars
  PROVE  /\ metrics'.toolCalls + (IF decision' = "InjectContext" THEN 1 ELSE 0)
              <= Cardinality(Places(audit', "SkillSuccess"))
         /\ decision' # "none" => call' = "idle"
<1> DEFINE n    == Cardinality(Places(audit, "SkillSuccess"))
           Owed == IF decision = "InjectContext" THEN 1 ELSE 0
<1>0. /\ audit \in Seq(AuditKind) /\ n \in Nat /\ metrics.toolCalls \in Nat
      /\ metrics.toolCalls + Owed <= n
      /\ decision # "none" => call = "idle"
  BY PlacesCount DEF TypeOK, RuntimeTypeOK, MetricsInv, Metrics
<1>1. \A x \in AuditKind : Cardinality(Places(Append(audit, x), "SkillSuccess"))
                             = n + (IF x = "SkillSuccess" THEN 1 ELSE 0)
  BY <1>0, PlacesAppend
<1>2. UNCHANGED audit => Cardinality(Places(audit', "SkillSuccess")) = n
  OBVIOUS
<1>3. \/ metrics'.toolCalls = metrics.toolCalls
      \/ /\ metrics'.toolCalls = metrics.toolCalls + 1
         /\ decision = "InjectContext" /\ Take
  BY ToolCallsChange
<1> HIDE DEF n
<1>4. CASE Record
  <2>1. /\ audit' = Append(audit, Awaited[call]) /\ Awaited[call] \in AuditKind
        /\ Awaited[call] = "SkillSuccess" <=> call = "succeeded"
        /\ decision = "none" /\ ~Take
        /\ decision' = "InjectContext" => call = "succeeded"
        /\ decision' # "none" => call' = "idle"
    BY <1>0, <1>4 DEF Record, Awaited, AuditKind, Suspend, Answer, ToolFailed, Take
  <2> QED
    BY <1>0, <1>1, <1>3, <2>1
<1>5. CASE ToolTimeout
  <2>1. /\ \/ UNCHANGED audit
           \/ \E x \in AuditKind : audit' = Append(audit, x)
        /\ decision = "none" /\ ~Take /\ decision' # "InjectContext"
        /\ decision' # "none" => call' = "idle"
    BY <1>0, <1>5 DEF ToolTimeout, Budgeted, Awaited, AuditKind, Suspend, Answer, Take
  <2>2. CASE UNCHANGED audit
    BY <1>0, <1>2, <1>3, <2>1, <2>2
  <2>3. CASE \E x \in AuditKind : audit' = Append(audit, x)
    BY <1>0, <1>1, <1>3, <2>1, <2>3
  <2> QED
    BY <2>1, <2>2, <2>3
<1>6. CASE RecordTimeout
  <2>1. /\ \E x \in AuditKind : audit' = Append(audit, x)
        /\ decision = "none" /\ ~Take /\ decision' # "InjectContext"
        /\ decision' # "none" => call' = "idle"
    BY <1>0, <1>6 DEF RecordTimeout, AuditKind, Answer, Take
  <2> QED
    BY <1>0, <1>1, <1>3, <2>1
<1>7. CASE SkillReturns
  <2>1. UNCHANGED audit /\ decision = "none" /\ ~Take /\ decision' = "none"
    BY <1>0, <1>7 DEF SkillReturns, Suspend, Take
  <2> QED
    BY <1>0, <1>2, <1>3, <2>1
<1>8. CASE Take
  <2>1. UNCHANGED audit /\ decision' = "none"
    BY <1>8 DEF Take
  <2> QED
    BY <1>0, <1>2, <1>3, <2>1
<1>9. ASSUME NEW event, NEW via, HandleControlEvent(event, via)
      PROVE  /\ metrics'.toolCalls + (IF decision' = "InjectContext" THEN 1 ELSE 0)
                  <= Cardinality(Places(audit', "SkillSuccess"))
             /\ decision' # "none" => call' = "idle"
  <2>1. /\ UNCHANGED audit /\ decision = "none" /\ ~Take /\ decision' # "InjectContext"
        /\ decision' # "none" => call' = "idle"
    BY <1>9 DEF HandleControlEvent, ExecuteSkill, Suspend, Answer, Rejected, ToolFailed, Take
  <2> QED
    BY <1>0, <1>2, <1>3, <2>1
<1>10. CASE UNCHANGED runtimeVars /\ ~Take
  <2>1. UNCHANGED <<audit, decision, call>>
    BY <1>10 DEF runtimeVars
  <2> QED
    BY <1>0, <1>2, <1>3, <1>10, <2>1
<1> QED
  BY <1>4, <1>5, <1>6, <1>7, <1>8, <1>9, <1>10, RuntimeMoves

(* Interruptions are counted as their events are processed, and no others. *)
LEMMA InterruptionsStep ==
  ASSUME TypeOK, QuietInv, MetricsInv, [Next]_vars,
         close' \in {"none", "BackendFinished"}
  PROVE  metrics'.interruptions + Cardinality(Places(events', "Interruption")) = bargeIns'
<1> DEFINE n == Cardinality(Places(events, "Interruption"))
<1>0. /\ events \in Seq(EventKind) /\ n \in Nat
      /\ metrics \in Metrics /\ metrics.interruptions \in Nat /\ bargeIns \in Nat
  BY PlacesCount DEF TypeOK, Metrics
<1>1. close \in {"none", "BackendFinished"} => metrics.interruptions + n = bargeIns
  BY DEF MetricsInv
<1>2. CASE StepReturns
  <2>1. close = "none" /\ events = <<>>
    BY <1>2 DEF StepReturns, QuietInv
  <2>2. n = 0
    BY <2>1, PlacesNone
  <2> PICK out \in StepOutputs :
        /\ events' = out.events
        /\ metrics' = [metrics EXCEPT !.firstAudio = FirstAudio(out)]
        /\ bargeIns' = bargeIns + Cardinality(Interruptions(out.events))
    BY <1>2 DEF StepReturns
  <2>3. Interruptions(out.events) = Places(events', "Interruption")
    BY DEF Interruptions, Places
  <2>4. metrics'.interruptions = metrics.interruptions
    BY <1>0 DEF Metrics
  <2>5. events' \in Seq(EventKind)
    BY SessionAssumption DEF BackendStep
  <2>6. Cardinality(Places(events', "Interruption")) \in Nat
    BY <2>5, PlacesCount
  <2> HIDE DEF n
  <2> QED
    BY <1>0, <1>1, <2>1, <2>2, <2>3, <2>4, <2>6
<1>3. CASE NextEvent
  <2>1. /\ events # <<>> /\ events' = Tail(events) /\ UNCHANGED <<close, bargeIns>>
    BY <1>3 DEF NextEvent, EventsDue, historyVars
  <2>2. metrics'.interruptions =
          metrics.interruptions + (IF Head(events) = "Interruption" THEN 1 ELSE 0)
    <3>1. CASE Head(events) = "Interruption"
      BY <1>0, <1>3, <3>1 DEF NextEvent, Metrics
    <3>2. CASE Head(events) # "Interruption"
      BY <1>0, <1>3, <3>2 DEF NextEvent
    <3> QED
      BY <3>1, <3>2
  <2>3. n = Cardinality(Places(events', "Interruption"))
              + (IF Head(events) = "Interruption" THEN 1 ELSE 0)
    BY <1>0, <2>1, PlacesTail
  <2>4. Cardinality(Places(events', "Interruption")) \in Nat
    BY <1>0, <2>1, PlacesCount, Tail(events) \in Seq(EventKind)
  <2> HIDE DEF n
  <2> QED
    BY <1>0, <1>1, <2>1, <2>2, <2>3, <2>4
<1>4. CASE Decide
  <2>1. UNCHANGED <<close, bargeIns, events>>
    BY <1>4 DEF Decide, stepVars, historyVars
  <2>2. metrics'.interruptions = metrics.interruptions
    BY <1>0, <1>4 DEF Decide, Metrics
  <2> QED
    BY <1>1, <2>1, <2>2
<1>5. CASE RecvEnds \/ StepFails \/ (SendFrame /\ Close("SendError"))
  BY <1>5 DEF RecvEnds, StepFails, SendFrame, Close
<1>6. CASE EndStep /\ Close("BackendFinished")
  <2>1. UNCHANGED <<metrics, bargeIns, events>> /\ close = "none"
    BY <1>6 DEF EndStep, StepDone, Close, historyVars, QuietInv
  <2> QED
    BY <1>1, <2>1
<1>7. CASE UNCHANGED <<close, bargeIns, events, metrics>>
  BY <1>1, <1>7
<1> QED
  BY <1>2, <1>3, <1>4, <1>5, <1>6, <1>7
     DEF Next, Driver, StartSession, RecvFrame, SendFrame, ClearOutput, InjectEvent,
         EndStep, EndSession, Runtime, Skill, UseRuntime, vars, driverVars,
         stepVars, historyVars

(* The metrics of a session tell the truth: no interruption of a past step *)
(* is uncounted when the driver sleeps or ends in order, and every tool    *)
(* call counted has its own success in the audit log.                      *)
THEOREM MetricsTold == Spec => []MetricsTrue
<1>1. Init => MetricsInv
  BY PlacesNone DEF Init, RuntimeInit, MetricsInv
<1>2. TypeOK /\ QuietInv /\ MetricsInv /\ [Next]_vars => MetricsInv'
  <2> SUFFICES ASSUME TypeOK, QuietInv, MetricsInv, [Next]_vars PROVE MetricsInv'
    OBVIOUS
  <2> QED
    BY ToolCallsStep, InterruptionsStep DEF MetricsInv
<1>3. TypeOK /\ QuietInv /\ MetricsInv => MetricsTrue
  <2> SUFFICES ASSUME TypeOK, QuietInv, MetricsInv PROVE MetricsTrue
    OBVIOUS
  <2>1. ASSUME pc = "receiving" \/ close = "BackendFinished"
        PROVE  metrics.interruptions = bargeIns
    <3>1. events = <<>> /\ close \in {"none", "BackendFinished"}
      BY <2>1 DEF QuietInv
    <3> QED
      BY <3>1, PlacesNone DEF MetricsInv, TypeOK, Metrics
  <2>2. Places(audit, "SkillSuccess") = {i \in DOMAIN audit : audit[i] = "SkillSuccess"}
    BY DEF Places
  <2> QED
    BY <2>1, <2>2 DEF MetricsInv, MetricsTrue
<1>4. QED
  BY <1>1, <1>2, <1>3, TypeCorrect, Quiet, PTL DEF Spec
=============================================================================
