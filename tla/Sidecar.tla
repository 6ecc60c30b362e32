------------------------------- MODULE Sidecar -------------------------------
(***************************************************************************)
(* SeamlessM4tRemoteBackend over SeamlessM4tHttpTransport (vona-seamless,  *)
(* remote.rs and http.rs), one client per session identifier, and the      *)
(* handlers of the sidecar process they talk to: process_step_request      *)
(* (vona-sidecar/src/main.rs) with SeamlessM4tLocalBackend (local.rs).     *)
(*                                                                         *)
(* A handler is a task that can be suspended, or dropped with its          *)
(* connection, at three awaits: before it looks the session up, before it  *)
(* has the ONNX session, and before it puts the session back.  What it     *)
(* does between two of them is one action.                                 *)
(*                                                                         *)
(* Two handlers of one session may hold a state each, if the second request*)
(* comes while the first has the state: see the README.                    *)
(*                                                                         *)
(* The state of a session is named by the request that created it.  It     *)
(* carries no events: step takes what inject_event has pushed before the   *)
(* state can be put back.                                                  *)
(***************************************************************************)
EXTENDS Naturals

CONSTANTS
  Sessions,     \* session identifiers
  MaxRequests,  \* bounds the requests ever sent
  MaxEvents,    \* bounds the context events ever injected
  None          \* no request, no state

ASSUME SidecarAssumption ==
  /\ MaxRequests \in Nat
  /\ MaxEvents \in Nat
  /\ None \notin (1..MaxRequests) \cup (1..MaxEvents) \cup Sessions

Request == 1..MaxRequests
Event   == 1..MaxEvents

(* InboundControlKind: an override of the transcript, a plan result or     *)
(* precomputed reply, or unknown.                                          *)
Kinds == {"transcript", "reply", "unknown"}

VARIABLES
  waiting,   \* the request each client awaits the response of, or None
  queued,    \* pending_events of each client's session
  owner,     \* the session identifier of each request
  carried,   \* pending_events of each request
  kind,      \* of each event, by InboundControlKind::parse
  silent,    \* requests without audio input
  handler,   \* what each request's handler is at
  held,      \* the state each handler has taken, or None
  sessions   \* AppState::sessions: the stored state, or None

VARIABLES    \* history, and the counters of the bounds
  requests,  \* requests sent so far
  injected,  \* events injected so far
  applied,   \* the events each request's backend step has taken
  answered,  \* the requests whose client was given Ok
  heard,     \* the event whose transcript is in the answer, or None
  disturbed  \* sessions with a request that failed or was given up

clientVars  == <<waiting, queued>>
requestVars == <<owner, carried, kind, silent, requests>>
handlerVars == <<handler, held, sessions, applied>>
historyVars == <<injected, answered, heard, disturbed>>
vars == <<clientVars, requestVars, handlerVars, historyVars>>

Live == {"arriving", "generating", "storing"}

TypeOK ==
  /\ waiting \in [Sessions -> Request \cup {None}]
  /\ queued \in [Sessions -> SUBSET Event]
  /\ owner \in [Request -> Sessions \cup {None}]
  /\ carried \in [Request -> SUBSET Event]
  /\ kind \in [Event -> Kinds]
  /\ silent \subseteq Request
  /\ handler \in [Request -> Live \cup {"unsent", "ok", "error", "dropped"}]
  /\ held \in [Request -> Request \cup {None}]
  /\ sessions \in [Sessions -> Request \cup {None}]
  /\ requests \in 0..MaxRequests
  /\ injected \in 0..MaxEvents
  /\ applied \in [Request -> SUBSET Event]
  /\ answered \subseteq Request
  /\ heard \in [Request -> Event \cup {None}]
  /\ disturbed \subseteq Sessions

Init ==
  /\ waiting = [s \in Sessions |-> None]
  /\ queued = [s \in Sessions |-> {}]
  /\ owner = [n \in Request |-> None]
  /\ carried = [n \in Request |-> {}]
  /\ kind = [e \in Event |-> "unknown"]
  /\ silent = {}
  /\ handler = [n \in Request |-> "unsent"]
  /\ held = [n \in Request |-> None]
  /\ sessions = [s \in Sessions |-> None]
  /\ requests = 0
  /\ injected = 0
  /\ applied = [n \in Request |-> {}]
  /\ answered = {}
  /\ heard = [n \in Request |-> None]
  /\ disturbed = {}

-----------------------------------------------------------------------------
(* The client.  step borrows the session mutably while it is awaited, so   *)
(* an event is injected between two steps.                                 *)
InjectEvent(s) ==
  /\ waiting[s] = None
  /\ injected < MaxEvents
  /\ injected' = injected + 1
  /\ queued' = [queued EXCEPT ![s] = @ \cup {injected + 1}]
  /\ \E k \in Kinds : kind' = [kind EXCEPT ![injected + 1] = k]
  /\ UNCHANGED <<waiting, owner, carried, silent, requests, handlerVars, answered, heard, disturbed>>

(* Mutant: the request clones the events instead of taking them. *)
EventsCloned(s) == UNCHANGED queued

(* std::mem::take(&mut session.pending_events) *)
EventsTaken(s) == queued' = [queued EXCEPT ![s] = {}]

Step(s) ==
  /\ waiting[s] = None
  /\ requests < MaxRequests
  /\ LET n == requests + 1 IN
       /\ requests' = n
       /\ owner' = [owner EXCEPT ![n] = s]
       /\ carried' = [carried EXCEPT ![n] = queued[s]]
       /\ handler' = [handler EXCEPT ![n] = "arriving"]
       /\ waiting' = [waiting EXCEPT ![s] = n]
       /\ silent' \in {silent, silent \cup {n}}
  /\ EventsTaken(s)
  /\ UNCHANGED <<kind, held, sessions, applied, historyVars>>

Latest(events) == CHOOSE e \in events : \A d \in events : d <= e

(* extract_overrides: of several events of a kind the last one counts.     *)
LastOf(events, k) ==
  LET some == {e \in events : kind[e] = k}
  IN  IF some = {} THEN None ELSE Latest(some)

StepReturns(s) ==
  /\ waiting[s] # None
  /\ handler[waiting[s]] = "ok"
  /\ answered' = answered \cup {waiting[s]}
  /\ heard' = [heard EXCEPT ![waiting[s]] = LastOf(applied[waiting[s]], "transcript")]
  /\ waiting' = [waiting EXCEPT ![s] = None]
  /\ UNCHANGED <<queued, requestVars, handlerVars, injected, disturbed>>

(* An error status, an elapsed timeout_ms or a broken connection.  After   *)
(* any of them run_session ends the session: a later step under the same   *)
(* identifier is a client that came back.                                  *)
StepFails(s) ==
  /\ waiting[s] # None
  /\ disturbed' = disturbed \cup {s}
  /\ waiting' = [waiting EXCEPT ![s] = None]
  /\ UNCHANGED <<queued, requestVars, handlerVars, injected, answered, heard>>

-----------------------------------------------------------------------------
(* The handler of request n.                                               *)
Stored(n) == sessions[owner[n]]

(* Mutant: the state is copied out of the map. *)
LookupCopies(n) ==
  /\ held' = [held EXCEPT ![n] = IF Stored(n) = None THEN n ELSE Stored(n)]
  /\ UNCHANGED sessions

(* sessions.remove(session_id).unwrap_or_else(..) *)
Lookup(n) ==
  /\ held' = [held EXCEPT ![n] = IF Stored(n) = None THEN n ELSE Stored(n)]
  /\ sessions' = [sessions EXCEPT ![owner[n]] = None]

(* inject_event for each event of the request, all taken by step. *)
ApplyEvents(n) == applied' = [applied EXCEPT ![n] = carried[n]]

(* A reply to speak without audio input is rejected, and the state goes    *)
(* with it.                                                                *)
Rejected(n) == n \in silent /\ LastOf(carried[n], "reply") # None

Arrive(n) ==
  /\ handler[n] = "arriving"
  /\ ApplyEvents(n)
  /\ \/ /\ ~Rejected(n)
        /\ Lookup(n)
        /\ handler' = [handler EXCEPT ![n] = "generating"]
     \/ /\ Rejected(n)
        /\ sessions' = [sessions EXCEPT ![owner[n]] = None]
        /\ handler' = [handler EXCEPT ![n] = "error"]
        /\ UNCHANGED held
  /\ UNCHANGED <<clientVars, requestVars, historyVars>>

(* The ONNX session is locked, run and released without an await between.  *)
Generate(n) ==
  /\ handler[n] = "generating"
  /\ handler' = [handler EXCEPT ![n] = "storing"]
  /\ UNCHANGED <<clientVars, requestVars, held, sessions, applied, historyVars>>

(* The state goes with the error. *)
GenerateFails(n) ==
  /\ handler[n] = "generating"
  /\ handler' = [handler EXCEPT ![n] = "error"]
  /\ held' = [held EXCEPT ![n] = None]
  /\ UNCHANGED <<clientVars, requestVars, sessions, applied, historyVars>>

(* Mutant: the test of step.finished is inverted. *)
PutBackFinished(n) == UNCHANGED sessions

(* if !step.finished { sessions.insert(..) }: the local backend never sets *)
(* finished.                                                               *)
PutBack(n) == sessions' = [sessions EXCEPT ![owner[n]] = held[n]]

Store(n) ==
  /\ handler[n] = "storing"
  /\ PutBack(n)
  /\ held' = [held EXCEPT ![n] = None]
  /\ handler' = [handler EXCEPT ![n] = "ok"]
  /\ UNCHANGED <<clientVars, requestVars, applied, historyVars>>

(* The connection of a client that gave up is gone, and the handler with   *)
(* it; or the request never reached the sidecar.                           *)
Dropped(n) ==
  /\ handler[n] \in Live
  /\ waiting[owner[n]] # n
  /\ handler' = [handler EXCEPT ![n] = "dropped"]
  /\ held' = [held EXCEPT ![n] = None]
  /\ UNCHANGED <<clientVars, requestVars, sessions, applied, historyVars>>

(* The sidecar process exits and is started again: nothing is persisted.   *)
Restart ==
  /\ \/ \E n \in Request : handler[n] \in Live
     \/ \E s \in Sessions : sessions[s] # None
  /\ handler' = [n \in Request |-> IF handler[n] \in Live THEN "dropped" ELSE handler[n]]
  /\ held' = [n \in Request |-> None]
  /\ sessions' = [s \in Sessions |-> None]
  /\ disturbed' = Sessions
  /\ UNCHANGED <<clientVars, requestVars, applied, injected, answered, heard>>

-----------------------------------------------------------------------------
Client(s)  == InjectEvent(s) \/ Step(s) \/ StepReturns(s) \/ StepFails(s)
Handler(n) == Arrive(n) \/ Generate(n) \/ GenerateFails(n) \/ Store(n) \/ Dropped(n)

Next ==
  \/ \E s \in Sessions : Client(s)
  \/ \E n \in Request : Handler(n)
  \/ Restart

Spec == Init /\ [][Next]_vars

-----------------------------------------------------------------------------
(* One session state is never in two places, whatever handlers overlap or  *)
(* are dropped, and only requests of its own session are served with it.   *)
ExclusiveState ==
  /\ \A n \in Request : held[n] # None =>
       /\ owner[held[n]] = owner[n]
       /\ \A m \in Request \ {n} : held[m] # held[n]
       /\ \A s \in Sessions : sessions[s] # held[n]
  /\ \A s \in Sessions : sessions[s] # None => owner[sessions[s]] = s

(* No retry, timeout or restart applies a context event twice, and an event*)
(* gets lost only with a request that its client saw fail, or is still     *)
(* waiting for.  Where a request was answered with Ok, a transcript it     *)
(* carried is heard in the answer, or a later one is.                      *)
EventsAccounted ==
  /\ \A m, n \in Request : m # n => applied[m] \cap applied[n] = {}
  /\ \A e \in 1..injected :
       \/ \E s \in Sessions : e \in queued[s]
       \/ \E n \in Request \ answered : e \in carried[n]
       \/ \E n \in answered :
            /\ e \in applied[n]
            /\ kind[e] = "transcript" => heard[n] \in applied[n] /\ e <= heard[n]

(* Fails: "The sidecar should accept context-only continuation steps"      *)
(* (docs/architecture.md:121), which carry a reply but no audio.  The step *)
(* of the local backend rejects them (local.rs).                           *)
ContextOnlyAccepted ==
  [][\A n \in silent :
       handler[n] = "arriving" /\ LastOf(carried[n], "reply") # None
         => handler'[n] # "error"]_vars

(* As long as every request of a session was answered with Ok, the sidecar *)
(* still has the state its first request created.                          *)
StateSurvives ==
  \A s \in Sessions \ disturbed : waiting[s] = None =>
    \A n \in answered : owner[n] = s =>
      sessions[s] # None /\ sessions[s] <= n
=============================================================================
