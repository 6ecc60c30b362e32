------------------------------ MODULE Session ------------------------------
(***************************************************************************)
(* run_session (vona-core/src/session.rs): one session driven over an      *)
(* AudioTransport, a SpeechToSpeechBackend and a VonaRuntime.  Each await  *)
(* of the driver is a value of pc.  The transport and the backend are      *)
(* supplied by the application: each of their calls may fail.              *)
(***************************************************************************)
EXTENDS Runtime, FiniteSets

CONSTANTS
  MaxFrames,    \* bounds the frames the transport delivers
  MaxEvents,    \* the most control events one step returns
  MaxAudit,     \* bounds the audit log while the application uses the runtime
  StepOutputs   \* the values of BackendStep the backend may return

(* BackendStep: an output frame has samples or none. *)
FrameKind   == {"voiced", "silent"}
Progress    == {"more", "finished"}
BackendStep == [audio : Seq(FrameKind), events : Seq(EventKind), progress : Progress]

ASSUME SessionAssumption ==
  /\ MaxFrames \in Nat
  /\ MaxEvents \in Nat
  /\ MaxAudit \in Nat
  /\ StepOutputs \subseteq BackendStep
  /\ \A out \in StepOutputs : Len(out.events) <= MaxEvents

VARIABLES
  pc,        \* the await the driver is at
  received,  \* frames received; also the number of the current step
  audio,     \* output frames of the current step not yet sent
  events,    \* control events of the current step not yet processed
  progress,  \* the current step's finished flag
  metrics,   \* SessionMetrics; firstAudio is the step that set it, or 0
  close,     \* SessionSummary::close_reason, or "none"
  outbox     \* the transport's output buffer

(* History: what the properties compare the program's state with. *)
VARIABLES
  clearedAt,  \* the step of the last clear_output that succeeded
  bargeIns    \* Interruption events returned by all steps so far

stepVars    == <<audio, events, progress>>
historyVars == <<clearedAt, bargeIns>>
driverVars  == <<pc, received, stepVars, metrics, close, outbox, historyVars>>
vars        == <<driverVars, runtimeVars>>

PCs == {"starting", "refused", "receiving", "stepping", "delivering",
        "clearing", "deciding", "injecting", "ending", "done"}

CloseReason == {"TransportClosed", "RecvError", "StepError", "SendError",
                "BackendFinished"}

Frame == [step : 0..MaxFrames, kind : FrameKind]

Metrics == [firstAudio : 0..MaxFrames, interruptions : Nat,
            toolCalls : Nat, fallbacks : Nat]

TypeOK ==
  /\ RuntimeTypeOK
  /\ pc \in PCs
  /\ received \in 0..MaxFrames
  /\ audio \in Seq(FrameKind)
  /\ events \in Seq(EventKind)
  /\ Len(events) <= MaxEvents
  /\ progress \in Progress
  /\ metrics \in Metrics
  /\ close \in CloseReason \cup {"none"}
  /\ outbox \in Seq(Frame)
  /\ clearedAt \in 0..MaxFrames
  /\ bargeIns \in Nat

Init ==
  /\ RuntimeInit
  /\ pc = "starting"
  /\ received = 0
  /\ audio = <<>>
  /\ events = <<>>
  /\ progress = "more"
  /\ metrics = [firstAudio |-> 0, interruptions |-> 0,
                toolCalls |-> 0, fallbacks |-> 0]
  /\ close = "none"
  /\ outbox = <<>>
  /\ clearedAt = 0
  /\ bargeIns = 0

-----------------------------------------------------------------------------
(* A failed start returns before any summary exists. *)
StartSession ==
  /\ pc = "starting"
  /\ pc' \in {"receiving", "refused"}
  /\ UNCHANGED <<received, stepVars, metrics, close, outbox, historyVars,
                 runtimeVars>>

(* Every exit of the loop drops the rest of the step and ends the session. *)
Close(reason) ==
  /\ pc' = "ending"
  /\ close' = reason
  /\ audio' = <<>>
  /\ events' = <<>>

RecvFrame ==
  /\ pc = "receiving"
  /\ received < MaxFrames
  /\ received' = received + 1
  /\ pc' = "stepping"
  /\ UNCHANGED <<stepVars, metrics, close, outbox, historyVars, runtimeVars>>

RecvEnds ==
  /\ pc = "receiving"
  /\ \E reason \in {"TransportClosed", "RecvError"} : Close(reason)
  /\ UNCHANGED <<received, progress, metrics, outbox, historyVars, runtimeVars>>

(* Mutant: the metric counts the step after. *)
FirstAudioNext(out) ==
  IF metrics.firstAudio = 0 /\ out.audio # <<>>
  THEN received + 1 ELSE metrics.firstAudio

(* time_to_first_audio_ms is set by the first step with an output frame. *)
FirstAudio(out) ==
  IF metrics.firstAudio = 0 /\ out.audio # <<>>
  THEN received ELSE metrics.firstAudio

Interruptions(s) == {i \in DOMAIN s : s[i] = "Interruption"}

StepReturns ==
  /\ pc = "stepping"
  /\ \E out \in StepOutputs :
       /\ audio' = out.audio
       /\ events' = out.events
       /\ progress' = out.progress
       /\ metrics' = [metrics EXCEPT !.firstAudio = FirstAudio(out)]
       /\ bargeIns' = bargeIns + Cardinality(Interruptions(out.events))
  /\ pc' = "delivering"
  /\ UNCHANGED <<received, close, outbox, clearedAt, runtimeVars>>

StepFails ==
  /\ pc = "stepping"
  /\ Close("StepError")
  /\ UNCHANGED <<received, progress, metrics, outbox, historyVars, runtimeVars>>

(* All of a step's audio is sent before its control events are looked at.  *)
SendFrame ==
  /\ pc = "delivering"
  /\ audio # <<>>
  /\ \/ /\ outbox' = Append(outbox, [step |-> received, kind |-> Head(audio)])
        /\ audio' = Tail(audio)
        /\ UNCHANGED <<pc, events, close>>
     \/ /\ Close("SendError")
        /\ UNCHANGED outbox
  /\ UNCHANGED <<received, progress, metrics, historyVars, runtimeVars>>

(* Mutant: control events are processed before the audio is sent. *)
EventsDueFirst == events # <<>>

EventsDue == audio = <<>> /\ events # <<>>

(* An interruption clears the output before the policy is asked about it.  *)
NextEvent ==
  /\ pc = "delivering"
  /\ EventsDue
  /\ events' = Tail(events)
  /\ \/ /\ Head(events) = "Interruption"
        /\ metrics' = [metrics EXCEPT !.interruptions = @ + 1]
        /\ pc' = "clearing"
        /\ UNCHANGED runtimeVars
     \/ /\ Head(events) # "Interruption"
        /\ HandleControlEvent(Head(events), "plain")
        /\ pc' = "deciding"
        /\ UNCHANGED metrics
  /\ UNCHANGED <<received, audio, progress, close, outbox, historyVars>>

(* The result of clear_output is ignored. *)
ClearOutput ==
  /\ pc = "clearing"
  /\ \/ outbox' = <<>> /\ clearedAt' = received
     \/ UNCHANGED <<outbox, clearedAt>>
  /\ HandleControlEvent("Interruption", "plain")
  /\ pc' = "deciding"
  /\ UNCHANGED <<received, stepVars, metrics, close, bargeIns>>

Fallbacks == {"FallbackRejected", "FallbackFailed", "FallbackTimeout"}

(* An error of handle_control_event goes on with the next event. *)
Decide ==
  /\ pc = "deciding"
  /\ Take
  /\ \/ /\ decision = "InjectContext"
        /\ metrics' = [metrics EXCEPT !.toolCalls = @ + 1]
        /\ pc' = "injecting"
     \/ /\ decision \in Fallbacks
        /\ metrics' = [metrics EXCEPT !.fallbacks = @ + 1]
        /\ pc' = "delivering"
     \/ /\ decision \in {"Ignore", "Continue", "Err"}
        /\ pc' = "delivering"
        /\ UNCHANGED metrics
  /\ UNCHANGED <<received, stepVars, close, outbox, historyVars>>

(* inject_event's error is only logged. *)
InjectEvent ==
  /\ pc = "injecting"
  /\ pc' = "delivering"
  /\ UNCHANGED <<received, stepVars, metrics, close, outbox, historyVars,
                 runtimeVars>>

(* Mutants: an event may end the loop over the events; a finished step     *)
(* does not end the session.                                               *)
StepDoneEarly == audio = <<>>
EndStepGoesOn ==
  /\ pc = "delivering"
  /\ audio = <<>>
  /\ events = <<>>
  /\ pc' = "receiving"
  /\ UNCHANGED <<received, stepVars, metrics, close, outbox, historyVars,
                 runtimeVars>>

StepDone == audio = <<>> /\ events = <<>>

EndStep ==
  /\ pc = "delivering"
  /\ StepDone
  /\ \/ progress = "finished" /\ Close("BackendFinished")
     \/ progress = "more" /\ pc' = "receiving" /\ UNCHANGED <<audio, events, close>>
  /\ UNCHANGED <<received, progress, metrics, outbox, historyVars, runtimeVars>>

EndSession ==
  /\ pc = "ending"
  /\ pc' = "done"
  /\ UNCHANGED <<received, stepVars, metrics, close, outbox, historyVars,
                 runtimeVars>>

Runtime ==
  /\ RuntimeStep
  /\ UNCHANGED driverVars

Skill ==
  /\ SkillReturns
  /\ UNCHANGED driverVars

(* The runtime is the application's: outside its sessions it may handle    *)
(* control events of its own, through either entry, one after another.     *)
UseRuntime ==
  /\ pc \in {"refused", "done"}
  /\ \/ /\ Len(audit) < MaxAudit
        /\ \E event \in EventKind, via \in Entry : HandleControlEvent(event, via)
     \/ Take
  /\ UNCHANGED driverVars

(* What the driver does on its own: the far end of the transport and the   *)
(* skills are not part of it.                                              *)
Driver ==
  \/ StartSession \/ StepReturns \/ StepFails \/ SendFrame \/ NextEvent
  \/ ClearOutput \/ Decide \/ InjectEvent \/ EndStep \/ EndSession \/ Runtime

Next == Driver \/ RecvFrame \/ RecvEnds \/ Skill \/ UseRuntime

(* The backend and the transport answer each call, and timers fire.  The   *)
(* next frame need not come and a skill need not return.                   *)
Spec == Init /\ [][Next]_vars /\ WF_vars(Driver)

-----------------------------------------------------------------------------
(* Barge-in: once an interruption has cleared the output, nothing that was *)
(* generated before it, in the same step or an earlier one, is in the      *)
(* output again.  Frames of a step are all sent before its control events. *)
NoStaleAudio == \A i \in DOMAIN outbox : outbox[i].step > clearedAt

(* SessionMetrics tell the truth.  The driver never sleeps on the transport,*)
(* or reports an orderly end, with an interruption of a past step not       *)
(* counted and cleared for; and tool_calls counts only calls whose success *)
(* the audit log shows: a dropped, failed or rejected one is never counted.*)
MetricsTrue ==
  /\ pc = "receiving" \/ close = "BackendFinished" =>
       metrics.interruptions = bargeIns
  /\ metrics.toolCalls + (IF decision = "InjectContext" THEN 1 ELSE 0)
       <= Cardinality({i \in DOMAIN audit : audit[i] = "SkillSuccess"})

(* The comment in run_session: when it counts a fallback for a timeout,    *)
(* the audit sink has already had the ToolTimeout event.                   *)
TimeoutAlreadyAudited ==
  pc = "deciding" /\ decision = "FallbackTimeout" =>
    \E i \in DOMAIN audit : audit[i] = "ToolTimeout"

(* A received frame is dealt with to the end of its step, or the session   *)
(* is closed and ended, whatever fails and even if a skill hangs.          *)
FrameDealtWith == pc = "stepping" ~> pc \in {"receiving", "done"}

-----------------------------------------------------------------------------
(* The session as the backend sees it. *)
Phase ==
  IF pc = "starting" THEN "unstarted"
  ELSE IF pc = "refused" THEN "refused"
  ELSE IF pc = "done" THEN "ended"
  ELSE IF close = "StepError" THEN "failed"
  ELSE IF progress = "finished" THEN "finished"
  ELSE "open"

Credits ==
  Len(events) + IF pc \in {"clearing", "deciding", "injecting"} THEN 1 ELSE 0

Contract == INSTANCE BackendContract WITH phase <- Phase, credits <- Credits

(* The driver keeps the promises of BackendContract. *)
KeepsContract == Contract!ContractSpec
=============================================================================
