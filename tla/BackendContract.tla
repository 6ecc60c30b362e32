-------------------------- MODULE BackendContract --------------------------
(***************************************************************************)
(* What run_session promises a SpeechToSpeechBackend about one session     *)
(* (the trait in vona-core/src/backend.rs): the calls come in the order    *)
(* start_session, steps and injections, end_session, and                   *)
(*   - every session that was started is ended, once, and then left alone; *)
(*   - there is no step after one that failed or that said it finished;    *)
(*   - context is injected only in answer to a step, at most once for      *)
(*     each control event of the latest step, and never after a failure.   *)
(***************************************************************************)
EXTENDS Naturals

CONSTANT MaxEvents  \* the most control events one step returns, a natural number

VARIABLES
  phase,    \* of the backend session
  credits   \* control events of the latest step not yet answered

contractVars == <<phase, credits>>

Phases == {"unstarted", "refused", "open", "finished", "failed", "ended"}

ContractInit == phase = "unstarted" /\ credits = 0

StartSession == phase = "unstarted" /\ phase' \in {"open", "refused"} /\ UNCHANGED credits

StepSession ==
  /\ phase = "open"
  /\ credits = 0
  /\ phase' \in {"open", "finished", "failed"}
  /\ credits' \in 0..MaxEvents
  /\ phase' = "failed" => credits' = 0

InjectEvent ==
  /\ phase \in {"open", "finished"}
  /\ credits > 0
  /\ credits' = credits - 1
  /\ UNCHANGED phase

(* A control event that needs no injection, or is skipped. *)
Skip ==
  /\ phase \in {"open", "finished"}
  /\ credits' \in 0..credits
  /\ UNCHANGED phase

EndSession ==
  /\ phase \in {"open", "finished", "failed"}
  /\ credits = 0
  /\ phase' = "ended"
  /\ UNCHANGED credits

ContractNext ==
  StartSession \/ StepSession \/ InjectEvent \/ Skip \/ EndSession

ContractSpec == ContractInit /\ [][ContractNext]_contractVars
=============================================================================
