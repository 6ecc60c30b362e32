------------------------------ MODULE Runtime ------------------------------
(***************************************************************************)
(* One call of VonaRuntime::handle_control_event (vona-core/src/runtime.rs)*)
(* with a SkillRegistry (vona-core/src/skills.rs) as its executor.         *)
(*                                                                         *)
(* The future awaits at three places: on the audit sink, on the skill, and *)
(* on the sink again.  tokio's timeout may drop it at each of them.  The   *)
(* policy, the skills and the sink are supplied by the application: their  *)
(* answers are nondeterministic.                                           *)
(***************************************************************************)
EXTENDS Naturals, Sequences

VARIABLES
  call,      \* where the future of execute_audited is suspended
  entry,     \* handle_control_event, or its audited variant
  decision,  \* the answer, until the caller takes it
  audit      \* the events the audit sink has received, oldest first

runtimeVars == <<call, entry, decision, audit>>

Entry == {"plain", "audited"}

EventKind == {"SkillCall", "TranscriptFragment", "Interruption", "Diagnostic"}

Rejected     == {"FallbackRejected", "Ignore"}
ToolFailed   == {"FallbackFailed", "Err"}
ToolTimedOut == {"FallbackTimeout", "Err"}
Decision     == Rejected \cup ToolFailed \cup ToolTimedOut
                  \cup {"Continue", "InjectContext"}

AuditKind == {"SchemaViolation", "SkillAttempt", "SkillSuccess",
              "SkillFailure", "ToolTimeout"}

(* The record that is awaited at each suspension on the audit sink. *)
Awaited == [ violation |-> "SchemaViolation", attempt |-> "SkillAttempt",
             succeeded |-> "SkillSuccess",    failed  |-> "SkillFailure" ]

(* Mutant: the budget does not cover the skill itself. *)
BudgetedSinkOnly == DOMAIN Awaited

(* The suspensions inside the timeout. *)
Budgeted == DOMAIN Awaited \cup {"running"}

RuntimeTypeOK ==
  /\ call \in Budgeted \cup {"idle", "timedout"}
  /\ entry \in Entry
  /\ decision \in Decision \cup {"none"}
  /\ audit \in Seq(AuditKind)

RuntimeInit ==
  /\ call = "idle"
  /\ entry = "plain"
  /\ decision = "none"
  /\ audit = <<>>

-----------------------------------------------------------------------------
Answer(d) == call' = "idle" /\ decision' = d

Suspend(phase) == call' = phase /\ UNCHANGED decision

(* Mutant: a skill that is known to fail is recorded as failed at once.    *)
ExecuteSkillFailsEarly == Suspend("attempt") \/ Suspend("failed")

(* Lookup and schema gate, up to the first await.  A missing skill and a   *)
(* schema that does not compile fail without an audit event.               *)
ExecuteSkill ==
  \/ \E d \in ToolFailed : Answer(d)
  \/ Suspend("violation")
  \/ Suspend("attempt")

HandleControlEvent(event, via) ==
  /\ call = "idle"
  /\ decision = "none"
  /\ entry' = via
  /\ UNCHANGED audit
  /\ \/ \E d \in Rejected : Answer(d)
     \/ event = "SkillCall" /\ ExecuteSkill
     \/ event # "SkillCall" /\ Answer("Continue")

(* The sink takes the awaited record and the future runs to its next await *)
(* or to its result.                                                       *)
Record ==
  /\ call \in DOMAIN Awaited
  /\ audit' = Append(audit, Awaited[call])
  /\ UNCHANGED entry
  /\ \/ call = "attempt"   /\ Suspend("running")
     \/ call = "succeeded" /\ Answer("InjectContext")
     \/ call \in {"violation", "failed"} /\ \E d \in ToolFailed : Answer(d)

SkillReturns ==
  /\ call = "running"
  /\ \E outcome \in {"succeeded", "failed"} : Suspend(outcome)
  /\ UNCHANGED <<entry, audit>>

(* Mutant: the audited entry does not record a timeout. *)
ToolTimeoutUnaudited ==
  /\ call \in Budgeted
  /\ \E d \in ToolTimedOut : Answer(d)
  /\ UNCHANGED <<entry, audit>>

(* The budget elapses and the future is dropped where it stands: a record  *)
(* it was waiting for may or may not have reached the sink.  Only the      *)
(* audited variant goes on to record the timeout, and only if the policy   *)
(* falls back.                                                             *)
ToolTimeout ==
  /\ call \in Budgeted
  /\ \/ UNCHANGED audit
     \/ call # "running" /\ audit' = Append(audit, Awaited[call])
  /\ \/ Answer("Err")
     \/ entry = "plain"   /\ Answer("FallbackTimeout")
     \/ entry = "audited" /\ Suspend("timedout")
  /\ UNCHANGED entry

RecordTimeout ==
  /\ call = "timedout"
  /\ audit' = Append(audit, "ToolTimeout")
  /\ Answer("FallbackTimeout")
  /\ UNCHANGED entry

RuntimeStep == Record \/ ToolTimeout \/ RecordTimeout

(* The caller takes the answer. *)
Take ==
  /\ decision # "none"
  /\ decision' = "none"
  /\ UNCHANGED <<call, entry, audit>>

-----------------------------------------------------------------------------
IsResult(kind) == kind \in {"SkillSuccess", "SkillFailure"}

(* A skill result in the log directly follows the attempt it answers.      *)
ResultFollowsAttempt ==
  \A i \in DOMAIN audit :
    IsResult(audit[i]) => i > 1 /\ audit[i - 1] = "SkillAttempt"

(* While a skill runs, or its result waits for the sink, its attempt is    *)
(* the last thing the log says.                                            *)
RunningIsAudited ==
  call \in {"running", "succeeded", "failed"} =>
    audit # <<>> /\ audit[Len(audit)] = "SkillAttempt"

(* The audit log tells the truth wherever earlier calls were dropped by    *)
(* their timeout: every result answers the attempt right before it, and no *)
(* skill is executed that the log does not show as attempted.              *)
AuditPaired == ResultFollowsAttempt /\ RunningIsAudited

(* handle_control_event_audited: a fallback for a timeout is in the log,   *)
(* and it comes last.                                                      *)
AuditedTimeoutRecorded ==
  entry = "audited" /\ decision = "FallbackTimeout" =>
    audit # <<>> /\ audit[Len(audit)] = "ToolTimeout"
=============================================================================
