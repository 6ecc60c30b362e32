---------------------------- MODULE SidecarProofs ----------------------------
(***************************************************************************)
(* What the sidecar keeps of its sessions, for any number of sessions,     *)
(* requests and events: a state is in one place, events are accounted for, *)
(* and a session that nothing disturbs keeps its state.                    *)
(***************************************************************************)
EXTENDS Sidecar, FiniteSetTheorems, WellFoundedInduction, TLAPS

(* Requests are numbered in the order they are sent. *)
Numbered ==
  \A n \in Request : /\ handler[n] = "unsent" <=> n > requests
                     /\ owner[n] = None <=> n > requests

(* A handler has a state only between its lookup and its return, and the   *)
(* state was made by a request that has arrived.                           *)
Made == {"generating", "storing", "ok", "error", "dropped"}

HeldInv ==
  /\ \A n \in Request : held[n] # None =>
       handler[n] \in {"generating", "storing"} /\ handler[held[n]] \in Made
  /\ \A s \in Sessions : sessions[s] # None => handler[sessions[s]] \in Made

(* An event is queued by one client, or carried by one request. *)
EventsApart ==
  /\ \A s \in Sessions : queued[s] \subseteq 1..injected
  /\ \A n \in Request : carried[n] \subseteq 1..injected
  /\ \A s, t \in Sessions : s # t => queued[s] \cap queued[t] = {}
  /\ \A s \in Sessions, n \in Request : queued[s] \cap carried[n] = {}
  /\ \A m, n \in Request : m # n => carried[m] \cap carried[n] = {}
  /\ \A n \in Request : handler[n] = "unsent" => carried[n] = {}
  /\ \A e \in 1..injected : \/ \E s \in Sessions : e \in queued[s]
                            \/ \E n \in Request : e \in carried[n]

(* What was applied, and what came of it. *)
EventsApplied ==
  /\ \A n \in Request : applied[n] \subseteq carried[n]
  /\ \A n \in Request : handler[n] \in {"generating", "storing", "ok"} =>
       applied[n] = carried[n]
  /\ \A n \in answered :
       handler[n] = "ok" /\ heard[n] = LastOf(applied[n], "transcript")

(* Where the state of a session is that nothing has disturbed: with the    *)
(* handler of the request its client awaits, or in the map.                *)
Serving(s) == waiting[s] # None /\ handler[waiting[s]] \in {"generating", "storing"}

Pending(s) ==
  /\ \A n \in Request : owner[n] = s => n \in answered \/ waiting[s] = n
  /\ waiting[s] # None => /\ owner[waiting[s]] = s
                          /\ \A n \in Request : owner[n] = s => n <= waiting[s]

(* Request n has been served with the state. *)
KeptFor(s, n) ==
  \/ Serving(s) /\ held[waiting[s]] # None /\ held[waiting[s]] <= n
  \/ /\ waiting[s] # None => handler[waiting[s]] \in {"arriving", "ok"}
     /\ sessions[s] # None /\ sessions[s] <= n
  \/ waiting[s] # None /\ handler[waiting[s]] \in {"error", "dropped"}

Served == {n \in Request : handler[n] \in {"generating", "storing", "ok"}}

StateInv ==
  \A s \in Sessions \ disturbed :
    Pending(s) /\ \A n \in Served : owner[n] = s => KeptFor(s, n)

IInv == TypeOK /\ Numbered /\ HeldInv /\ ExclusiveState /\ EventsApart /\ EventsApplied /\ StateInv

-----------------------------------------------------------------------------
(* Initially nothing was sent. *)
LEMMA InitInv == Init => IInv
<1> USE SidecarAssumption
<1> SUFFICES ASSUME Init PROVE IInv
  OBVIOUS
<1>1. TypeOK
  BY DEF Init, TypeOK, Request, Event, Kinds
<1>2. Numbered /\ HeldInv /\ ExclusiveState
  BY DEF Init, Numbered, HeldInv, ExclusiveState, Request
<1>3. EventsApart /\ EventsApplied
  BY DEF Init, EventsApart, EventsApplied
<1>4. StateInv
  BY DEF Init, StateInv, Pending, Served
<1> QED
  BY <1>1, <1>2, <1>3, <1>4 DEF IInv

(* A set of events, if there are any, has a latest one: below a bound, the *)
(* fewer numbers there are from an event on, the later it is.              *)
LEMMA LatestIs ==
  ASSUME NEW events, events \subseteq Event, events # {}
  PROVE  Latest(events) \in events /\ \A d \in events : d <= Latest(events)
<1> USE SidecarAssumption DEF Event
<1> DEFINE tails == {e..MaxEvents : e \in events}
<1>1. tails \subseteq FiniteSubsetsOf(Nat) /\ tails # {}
  <2>1. \A e \in events : IsFiniteSet(e..MaxEvents) /\ e..MaxEvents \subseteq Nat
    BY FS_Interval
  <2> QED
    BY <2>1 DEF FiniteSubsetsOf
<1>2. \E least \in tails : \A t \in tails : ~(<<t, least>> \in StrictSubsetOrdering(Nat))
  <2> HIDE DEF tails
  <2> QED
    BY <1>1, FS_StrictSubsetOrderingWellFounded, WFMin
<1>3. PICK e \in events : \A d \in events :
        ~(<<d..MaxEvents, e..MaxEvents>> \in StrictSubsetOrdering(Nat))
  BY <1>2
<1>4. ASSUME NEW d \in events, e < d PROVE FALSE
  <2>1. d..MaxEvents \subseteq e..MaxEvents /\ e \in e..MaxEvents /\ e \notin d..MaxEvents
    BY <1>4
  <2>2. <<d..MaxEvents, e..MaxEvents>> \in StrictSubsetOrdering(Nat)
    BY <2>1 DEF StrictSubsetOrdering
  <2> QED
    BY <2>2, <1>3
<1>5. \E last \in events : \A d \in events : d <= last
  BY <1>4
<1> QED
  BY <1>5 DEF Latest

(* A request that was sent has a session. *)
LEMMA OwnerOf ==
  ASSUME TypeOK, Numbered, NEW n \in Request, handler[n] # "unsent"
  PROVE  owner[n] \in Sessions
BY DEF TypeOK, Numbered

(* Type correctness. *)
LEMMA StepType == TypeOK /\ Numbered /\ [Next]_vars => TypeOK'
<1> USE SidecarAssumption DEF TypeOK, Request, Event, Live
<1> SUFFICES ASSUME TypeOK, Numbered, [Next]_vars PROVE TypeOK'
  OBVIOUS
<1>1. ASSUME NEW s \in Sessions, InjectEvent(s) PROVE TypeOK'
  BY <1>1 DEF InjectEvent, handlerVars
<1>2. ASSUME NEW s \in Sessions, Step(s) PROVE TypeOK'
  BY <1>2 DEF Step, EventsTaken, historyVars
<1>3. ASSUME NEW s \in Sessions, StepReturns(s) PROVE TypeOK'
  <2>1. LastOf(applied[waiting[s]], "transcript") \in Event \cup {None}
    <3> DEFINE n == waiting[s]
    <3>1. n \in Request
      BY <1>3 DEF StepReturns
    <3>2. applied[n] \subseteq Event
      BY <3>1
    <3> DEFINE some == {e \in applied[n] : kind[e] = "transcript"}
    <3>3. some # {} => Latest(some) \in Event
      <4>1. some \subseteq Event
        BY <3>2
      <4> HIDE DEF some
      <4> QED
        BY <4>1, LatestIs
    <3> QED
      BY <3>3 DEF LastOf
  <2> QED
    BY <1>3, <2>1 DEF StepReturns, requestVars, handlerVars
<1>4. ASSUME NEW s \in Sessions, StepFails(s) PROVE TypeOK'
  BY <1>4 DEF StepFails, requestVars, handlerVars
<1>5. ASSUME NEW n \in Request, Arrive(n) PROVE TypeOK'
  <2>1. owner[n] \in Sessions
    BY <1>5, OwnerOf DEF Arrive
  <2>2. /\ handler' \in [Request -> Live \cup {"unsent", "ok", "error", "dropped"}]
        /\ applied' \in [Request -> SUBSET Event]
    BY <1>5 DEF Arrive, ApplyEvents
  <2>3. sessions' \in [Sessions -> Request \cup {None}]
    BY <1>5, <2>1 DEF Arrive, Lookup
  <2>4. held' \in [Request -> Request \cup {None}]
    <3>1. Stored(n) \in Request \cup {None}
      BY <2>1 DEF Stored
    <3> QED
      BY <1>5, <3>1 DEF Arrive, Lookup
  <2> QED
    BY <1>5, <2>2, <2>3, <2>4 DEF Arrive, clientVars, requestVars, historyVars
<1>6. ASSUME NEW n \in Request, Generate(n) \/ GenerateFails(n) PROVE TypeOK'
  BY <1>6 DEF Generate, GenerateFails, clientVars, requestVars, historyVars
<1>7. ASSUME NEW n \in Request, Store(n) PROVE TypeOK'
  BY <1>7, OwnerOf DEF Store, PutBack, clientVars, requestVars, historyVars
<1>8. ASSUME NEW n \in Request, Dropped(n) PROVE TypeOK'
  BY <1>8 DEF Dropped, clientVars, requestVars, historyVars
<1>9. CASE Restart
  BY <1>9 DEF Restart, clientVars, requestVars
<1>10. CASE UNCHANGED vars
  BY <1>10 DEF vars, clientVars, requestVars, handlerVars, historyVars
<1> QED
  BY <1>1, <1>2, <1>3, <1>4, <1>5, <1>6, <1>7, <1>8, <1>9, <1>10 DEF Next, Client, Handler

(* Requests are sent in order, and handlers never go back. *)
LEMMA StepNumbered == TypeOK /\ Numbered /\ [Next]_vars => Numbered'
<1> USE SidecarAssumption DEF Numbered, Request, Live
<1> SUFFICES ASSUME TypeOK, Numbered, [Next]_vars PROVE Numbered'
  OBVIOUS
<1> USE DEF TypeOK
<1>1. ASSUME NEW s \in Sessions, InjectEvent(s) \/ StepReturns(s) \/ StepFails(s) PROVE Numbered'
  BY <1>1 DEF InjectEvent, StepReturns, StepFails, requestVars, handlerVars
<1>2. ASSUME NEW s \in Sessions, Step(s) PROVE Numbered'
  BY <1>2 DEF Step
<1>3. ASSUME NEW n \in Request, Arrive(n) PROVE Numbered'
  BY <1>3 DEF Arrive, requestVars
<1>4. ASSUME NEW n \in Request, Generate(n) \/ GenerateFails(n) \/ Store(n) \/ Dropped(n) PROVE Numbered'
  BY <1>4 DEF Generate, GenerateFails, Store, Dropped, requestVars
<1>5. CASE Restart
  BY <1>5 DEF Restart, requestVars
<1>6. CASE UNCHANGED vars
  BY <1>6 DEF vars, requestVars, handlerVars
<1> QED
  BY <1>1, <1>2, <1>3, <1>4, <1>5, <1>6 DEF Next, Client, Handler

(* A lookup takes the state out of the map or makes one that nobody has;   *)
(* a handler puts back the one it has.                                     *)
LEMMA StepHeld ==
  TypeOK /\ Numbered /\ HeldInv /\ ExclusiveState /\ [Next]_vars => HeldInv' /\ ExclusiveState'
<1> USE SidecarAssumption DEF Request, Made
<1> SUFFICES ASSUME TypeOK, Numbered, HeldInv, ExclusiveState, [Next]_vars
             PROVE  HeldInv' /\ ExclusiveState'
  OBVIOUS
<1> USE DEF TypeOK
<1>1. ASSUME NEW s \in Sessions, InjectEvent(s) \/ StepReturns(s) \/ StepFails(s)
      PROVE  HeldInv' /\ ExclusiveState'
  BY <1>1 DEF InjectEvent, StepReturns, StepFails, requestVars, handlerVars, HeldInv, ExclusiveState
<1>2. ASSUME NEW s \in Sessions, Step(s) PROVE HeldInv' /\ ExclusiveState'
  <2>1. requests + 1 \in Request /\ handler[requests + 1] = "unsent"
    BY <1>2 DEF Step, Numbered
  <2>2. /\ \A n \in Request : handler[n] # "unsent" => owner'[n] = owner[n] /\ handler'[n] = handler[n]
        /\ held' = held /\ sessions' = sessions
    BY <1>2, <2>1 DEF Step
  <2>3. /\ \A n \in Request : held[n] # None => handler[n] # "unsent" /\ handler[held[n]] # "unsent"
        /\ \A n \in Request : held[n] # None => held[n] \in Request
        /\ \A t \in Sessions : sessions[t] # None => sessions[t] \in Request /\ handler[sessions[t]] # "unsent"
    <3>1. \A n \in Request : held[n] # None => held[n] \in Request
      OBVIOUS
    <3>2. \A t \in Sessions : sessions[t] # None => sessions[t] \in Request
      OBVIOUS
    <3> HIDE DEF TypeOK
    <3> QED
      BY <3>1, <3>2 DEF HeldInv
  <2> HIDE DEF TypeOK
  <2>4. HeldInv'
    BY <2>2, <2>3 DEF HeldInv
  <2>5. ExclusiveState'
    BY <2>2, <2>3 DEF ExclusiveState
  <2> QED
    BY <2>4, <2>5
<1>3. ASSUME NEW n \in Request, Arrive(n) PROVE HeldInv' /\ ExclusiveState'
  <2>1. owner[n] \in Sessions /\ owner' = owner /\ handler[n] = "arriving" /\ held[n] = None
    BY <1>3, OwnerOf DEF Arrive, requestVars, HeldInv
  <2>2. CASE Rejected(n)
    <3>1. /\ sessions' = [sessions EXCEPT ![owner[n]] = None] /\ held' = held
          /\ handler' = [handler EXCEPT ![n] = "error"]
      BY <1>3, <2>2 DEF Arrive
    <3> QED
      BY <2>1, <3>1 DEF HeldInv, ExclusiveState
  <2>3. CASE ~Rejected(n)
    <3> DEFINE state == IF Stored(n) = None THEN n ELSE Stored(n)
    <3>1. /\ sessions' = [sessions EXCEPT ![owner[n]] = None]
          /\ held' = [held EXCEPT ![n] = state]
          /\ handler' = [handler EXCEPT ![n] = "generating"]
      BY <1>3, <2>3 DEF Arrive, Lookup
    <3>2. /\ state \in Request /\ state # None /\ owner[state] = owner[n]
          /\ state = n \/ handler[state] \in Made
          /\ \A m \in Request : held[m] # state
          /\ \A s \in Sessions : sessions'[s] # state
      <4>1. CASE Stored(n) = None
        <5>1. state = n
          BY <4>1
        <5>2. \A m \in Request : held[m] # n
          BY <2>1 DEF HeldInv
        <5>3. \A s \in Sessions : sessions'[s] # n
          <6>1. \A s \in Sessions : sessions[s] # n
            BY <2>1 DEF HeldInv
          <6>2. \A s \in Sessions : sessions'[s] = IF s = owner[n] THEN None ELSE sessions[s]
            BY <2>1, <3>1
          <6>3. None # n
            BY <2>1
          <6> QED
            BY <6>1, <6>2, <6>3
        <5> QED
          BY <5>1, <5>2, <5>3
      <4>2. CASE Stored(n) # None
        <5>1. state = sessions[owner[n]] /\ state # None /\ state \in Request
          BY <4>2, <2>1 DEF Stored
        <5>2. handler[state] \in Made /\ owner[state] = owner[n]
          BY <5>1, <2>1 DEF HeldInv, ExclusiveState
        <5>3. \A m \in Request : held[m] # state
          BY <5>1, <2>1 DEF ExclusiveState
        <5>4. \A s \in Sessions : sessions'[s] # state
          BY <5>1, <2>1, <3>1 DEF ExclusiveState
        <5> QED
          BY <5>1, <5>2, <5>3, <5>4
      <4> QED
        BY <4>1, <4>2
    <3> HIDE DEF state
    <3>3. HeldInv'
      BY <2>1, <3>1, <3>2 DEF HeldInv
    <3>4. ExclusiveState'
      BY <2>1, <3>1, <3>2 DEF ExclusiveState
    <3> QED
      BY <3>3, <3>4
  <2> QED
    BY <2>2, <2>3
<1>4. ASSUME NEW n \in Request, Generate(n) PROVE HeldInv' /\ ExclusiveState'
  BY <1>4 DEF Generate, requestVars, HeldInv, ExclusiveState
<1>5. ASSUME NEW n \in Request, GenerateFails(n) \/ Dropped(n) PROVE HeldInv' /\ ExclusiveState'
  <2>1. /\ handler[n] # "unsent"
        /\ \E h \in {"error", "dropped"} : handler' = [handler EXCEPT ![n] = h]
        /\ held' = [held EXCEPT ![n] = None] /\ sessions' = sessions /\ owner' = owner
    BY <1>5 DEF GenerateFails, Dropped, Live, requestVars
  <2> QED
    BY <2>1 DEF HeldInv, ExclusiveState
<1>6. ASSUME NEW n \in Request, Store(n) PROVE HeldInv' /\ ExclusiveState'
  <2>1. /\ owner[n] \in Sessions /\ handler' = [handler EXCEPT ![n] = "ok"]
        /\ held' = [held EXCEPT ![n] = None] /\ owner' = owner
        /\ sessions' = [sessions EXCEPT ![owner[n]] = held[n]]
    BY <1>6, OwnerOf DEF Store, PutBack, requestVars
  <2>2. HeldInv'
    BY <2>1 DEF HeldInv
  <2>3. ExclusiveState'
    BY <2>1 DEF ExclusiveState
  <2> QED
    BY <2>2, <2>3
<1>7. CASE Restart
  BY <1>7 DEF Restart, requestVars, HeldInv, ExclusiveState
<1>8. CASE UNCHANGED vars
  BY <1>8 DEF vars, requestVars, handlerVars, HeldInv, ExclusiveState
<1> QED
  BY <1>1, <1>2, <1>3, <1>4, <1>5, <1>6, <1>7, <1>8 DEF Next, Client, Handler

(* Events move from a client's queue to one request. *)
LEMMA StepApart == TypeOK /\ Numbered /\ EventsApart /\ [Next]_vars => EventsApart'
<1> USE SidecarAssumption DEF Request, Event
<1> SUFFICES ASSUME TypeOK, Numbered, EventsApart, [Next]_vars PROVE EventsApart'
  OBVIOUS
<1>1. ASSUME NEW s \in Sessions, InjectEvent(s) PROVE EventsApart'
  <2>1. /\ injected \in Nat /\ injected' = injected + 1
        /\ queued' = [queued EXCEPT ![s] = @ \cup {injected + 1}]
        /\ carried' = carried /\ handler' = handler
        /\ queued \in [Sessions -> SUBSET Event]
    BY <1>1 DEF InjectEvent, handlerVars, TypeOK
  <2>2. 1..injected' = (1..injected) \cup {injected + 1} /\ injected + 1 \notin 1..injected
    BY <2>1
  <2> QED
    BY <2>1, <2>2 DEF EventsApart
<1>2. ASSUME NEW s \in Sessions, Step(s) PROVE EventsApart'
  <2> DEFINE r == requests + 1
  <2>1. /\ r \in Request /\ handler[r] = "unsent" /\ injected' = injected
        /\ carried' = [carried EXCEPT ![r] = queued[s]]
        /\ handler' = [handler EXCEPT ![r] = "arriving"]
        /\ queued' = [queued EXCEPT ![s] = {}]
    BY <1>2 DEF Step, EventsTaken, historyVars, Numbered, TypeOK
  <2>2. /\ queued \in [Sessions -> SUBSET Event] /\ carried \in [Request -> SUBSET Event]
        /\ DOMAIN handler = Request
    BY DEF TypeOK
  <2> HIDE DEF r
  <2>3. carried[r] = {}
    BY <2>1 DEF EventsApart
  <2> QED
    BY <2>1, <2>2, <2>3 DEF EventsApart
<1>3. ASSUME NEW s \in Sessions, StepReturns(s) \/ StepFails(s) PROVE EventsApart'
  BY <1>3 DEF StepReturns, StepFails, requestVars, handlerVars, EventsApart
<1>4. ASSUME NEW n \in Request, Handler(n) PROVE EventsApart'
  <2>1. /\ handler[n] # "unsent" /\ \E h \in Made \cup {"storing"} : handler' = [handler EXCEPT ![n] = h]
        /\ UNCHANGED <<queued, carried, injected>>
    BY <1>4 DEF Handler, Arrive, Generate, GenerateFails, Store, Dropped, Live, Made,
                clientVars, requestVars, historyVars
  <2>2. \A m \in Request : handler'[m] = "unsent" => handler[m] = "unsent"
    BY <2>1 DEF TypeOK, Made
  <2> QED
    BY <2>1, <2>2 DEF EventsApart
<1>5. CASE Restart
  <2>1. \A m \in Request : handler'[m] = "unsent" => handler[m] = "unsent"
    BY <1>5 DEF Restart
  <2> QED
    BY <1>5, <2>1 DEF Restart, EventsApart, clientVars, requestVars
<1>6. CASE UNCHANGED vars
  BY <1>6 DEF vars, clientVars, requestVars, handlerVars, historyVars, EventsApart
<1> QED
  BY <1>1, <1>2, <1>3, <1>4, <1>5, <1>6 DEF Next, Client

(* What the last event of a kind is depends on the kinds of the events at  *)
(* hand only.                                                              *)
LEMMA LastOfStable ==
  ASSUME NEW events, \A e \in events : kind'[e] = kind[e], NEW k
  PROVE  LastOf(events, k)' = LastOf(events, k)
<1>1. {e \in events : kind'[e] = k} = {e \in events : kind[e] = k}
  OBVIOUS
<1> QED
  BY <1>1 DEF LastOf

(* A handler applies what its request carries, and what an answer is heard *)
(* as never changes.                                                       *)
LEMMA StepApplied ==
  TypeOK /\ Numbered /\ EventsApart /\ EventsApplied /\ [Next]_vars => EventsApplied'
<1> USE SidecarAssumption DEF Request
<1> SUFFICES ASSUME TypeOK, Numbered, EventsApart, EventsApplied, [Next]_vars
             PROVE  EventsApplied'
  OBVIOUS
<1>1. ASSUME NEW s \in Sessions, InjectEvent(s) PROVE EventsApplied'
  <2>1. /\ applied' = applied /\ carried' = carried /\ handler' = handler
        /\ answered' = answered /\ heard' = heard
        /\ \A e \in 1..injected : kind'[e] = kind[e]
    BY <1>1 DEF InjectEvent, handlerVars, TypeOK, Event
  <2>2. ASSUME NEW n \in Request
        PROVE  LastOf(applied[n], "transcript")' = LastOf(applied[n], "transcript")
    <3>1. \A e \in applied[n] : kind'[e] = kind[e]
      BY <2>1 DEF EventsApart, EventsApplied
    <3> QED
      BY <2>1, <3>1, LastOfStable
  <2>3. answered \subseteq Request
    BY DEF TypeOK
  <2> QED
    BY <2>1, <2>2, <2>3 DEF EventsApplied
<1>2. ASSUME NEW s \in Sessions, Step(s) PROVE EventsApplied'
  <2> DEFINE r == requests + 1
  <2>1. /\ r \in Request /\ handler[r] = "unsent" /\ carried' = [carried EXCEPT ![r] = queued[s]]
        /\ handler' = [handler EXCEPT ![r] = "arriving"]
        /\ UNCHANGED <<applied, answered, heard, kind>>
        /\ carried \in [Request -> SUBSET Event] /\ DOMAIN handler = Request
    BY <1>2 DEF Step, historyVars, Numbered, TypeOK
  <2> HIDE DEF r
  <2>2. carried[r] = {} /\ r \notin answered
    BY <2>1 DEF EventsApart, EventsApplied
  <2>3. ASSUME NEW n \in Request
        PROVE  LastOf(applied[n], "transcript")' = LastOf(applied[n], "transcript")
    BY <2>1 DEF LastOf
  <2>4. answered \subseteq Request
    BY DEF TypeOK
  <2> QED
    BY <2>1, <2>2, <2>3, <2>4 DEF EventsApplied
<1>3. ASSUME NEW s \in Sessions, StepReturns(s) \/ StepFails(s) PROVE EventsApplied'
  <2>1. /\ UNCHANGED <<applied, carried, handler, kind>>
        /\ answered \subseteq Request
        /\ \/ UNCHANGED <<answered, heard>>
           \/ \E n \in Request :
                /\ handler[n] = "ok" /\ answered' = answered \cup {n}
                /\ heard' = [heard EXCEPT ![n] = LastOf(applied[n], "transcript")]
        /\ DOMAIN heard = Request
    BY <1>3 DEF StepReturns, StepFails, requestVars, handlerVars, TypeOK
  <2>2. \A n \in Request : LastOf(applied[n], "transcript")' = LastOf(applied[n], "transcript")
    BY <2>1 DEF LastOf
  <2> QED
    BY <2>1, <2>2 DEF EventsApplied
<1>4. ASSUME NEW n \in Request, Handler(n) PROVE EventsApplied'
  <2>1. /\ UNCHANGED <<carried, kind, answered, heard>>
        /\ \/ /\ handler[n] = "arriving" /\ applied' = [applied EXCEPT ![n] = carried[n]]
              /\ \E h \in {"generating", "error"} : handler' = [handler EXCEPT ![n] = h]
           \/ /\ applied' = applied /\ handler[n] \in {"generating", "storing"}
              /\ \E h \in {"storing", "ok"} : handler' = [handler EXCEPT ![n] = h]
           \/ /\ applied' = applied /\ handler[n] \in Live
              /\ \E h \in {"error", "dropped"} : handler' = [handler EXCEPT ![n] = h]
    BY <1>4 DEF Handler, Arrive, ApplyEvents, Generate, GenerateFails, Store, Dropped, Live,
                requestVars, historyVars
  <2>2. \A m \in Request :
          \/ m = n /\ handler[n] = "arriving"
          \/ LastOf(applied[m], "transcript")' = LastOf(applied[m], "transcript")
    <3>1. \A m \in Request : (m = n /\ handler[n] = "arriving") \/ applied'[m] = applied[m]
      BY <2>1 DEF TypeOK
    <3> QED
      BY <2>1, <3>1 DEF LastOf
  <2>3. /\ DOMAIN handler = Request /\ DOMAIN applied = Request /\ answered \subseteq Request
    BY DEF TypeOK
  <2>4. \A m \in answered : m # n
    BY <2>1 DEF EventsApplied, Live
  <2> QED
    BY <2>1, <2>2, <2>3, <2>4 DEF EventsApplied
<1>5. CASE Restart
  <2>1. /\ UNCHANGED <<applied, carried, kind, answered, heard>> /\ answered \subseteq Request
        /\ \A m \in Request : handler'[m] = IF handler[m] \in Live THEN "dropped" ELSE handler[m]
    BY <1>5 DEF Restart, requestVars, TypeOK
  <2>2. \A m \in Request : LastOf(applied[m], "transcript")' = LastOf(applied[m], "transcript")
    BY <2>1 DEF LastOf
  <2> QED
    BY <2>1, <2>2 DEF EventsApplied, Live
<1>6. CASE UNCHANGED vars
  BY <1>6 DEF vars, requestVars, handlerVars, historyVars, EventsApplied, LastOf
<1> QED
  BY <1>1, <1>2, <1>3, <1>4, <1>5, <1>6 DEF Next, Client

(* An undisturbed session has one request under way at most, and only that *)
(* one's handler can touch its state.                                      *)
LEMMA StepState ==
  TypeOK /\ Numbered /\ HeldInv /\ ExclusiveState /\ EventsApplied /\ StateInv /\ [Next]_vars
    => StateInv'
<1> USE SidecarAssumption DEF Request
<1> SUFFICES ASSUME TypeOK, Numbered, HeldInv, ExclusiveState, EventsApplied, StateInv, [Next]_vars
             PROVE  StateInv'
  OBVIOUS
<1>1. /\ waiting \in [Sessions -> Request \cup {None}] /\ sessions \in [Sessions -> Request \cup {None}]
      /\ handler = [n \in Request |-> handler[n]] /\ held \in [Request -> Request \cup {None}]
      /\ owner \in [Request -> Sessions \cup {None}] /\ answered \subseteq Request
      /\ None \notin Sessions /\ requests \in Nat
  BY DEF TypeOK
<1>2. ASSUME NEW s \in Sessions, InjectEvent(s) PROVE StateInv'
  BY <1>2 DEF InjectEvent, handlerVars, StateInv, Pending, Served, KeptFor, Serving
<1>3. ASSUME NEW s \in Sessions, Step(s) PROVE StateInv'
  <2> DEFINE r == requests + 1
  <2>1. /\ r \in Request /\ handler[r] = "unsent" /\ owner[r] = None /\ waiting[s] = None
        /\ owner' = [owner EXCEPT ![r] = s] /\ handler' = [handler EXCEPT ![r] = "arriving"]
        /\ waiting' = [waiting EXCEPT ![s] = r]
        /\ UNCHANGED <<held, sessions, answered, disturbed>>
        /\ \A n \in Request : owner[n] # None => n < r
    BY <1>3, <1>1 DEF Step, historyVars, Numbered
  <2> HIDE DEF r
  <2> SUFFICES ASSUME NEW t \in Sessions, t \notin disturbed
               PROVE  Pending(t)' /\ \A n \in Served' : owner'[n] = t => KeptFor(t, n)'
    BY <2>1 DEF StateInv
  <2>2. Pending(t) /\ \A n \in Served : owner[n] = t => KeptFor(t, n)
    BY DEF StateInv
  <2>3. Pending(t)'
    BY <2>1, <2>2, <1>1 DEF Pending
  <2>4. ASSUME NEW n \in Served', owner'[n] = t PROVE KeptFor(t, n)'
    <3>1. n # r /\ n \in Served /\ owner[n] = t
      BY <2>1, <2>4, <1>1 DEF Served
    <3>2. KeptFor(t, n)
      BY <3>1, <2>2
    <3>3. CASE t = s
      BY <3>2, <3>3, <2>1, <1>1 DEF KeptFor, Serving
    <3>4. CASE t # s
      <4>1. waiting'[t] = waiting[t] /\ (waiting[t] # None => waiting[t] # r)
        BY <3>4, <2>1, <2>2, <1>1 DEF Pending
      <4>2. waiting[t] # None => handler'[waiting[t]] = handler[waiting[t]]
        BY <4>1, <2>1, <1>1
      <4> QED
        BY <4>1, <4>2, <3>2, <2>1 DEF KeptFor, Serving
    <3> QED
      BY <3>3, <3>4
  <2> QED
    BY <2>3, <2>4
<1>4. ASSUME NEW s \in Sessions, StepReturns(s) PROVE StateInv'
  <2> DEFINE r == waiting[s]
  <2>1. /\ r \in Request /\ handler[r] = "ok"
        /\ waiting' = [waiting EXCEPT ![s] = None] /\ answered' = answered \cup {r}
        /\ UNCHANGED <<owner, handler, held, sessions, disturbed>>
    BY <1>4, <1>1 DEF StepReturns, requestVars, handlerVars
  <2> SUFFICES ASSUME NEW t \in Sessions, t \notin disturbed
               PROVE  Pending(t)' /\ \A n \in Served' : owner'[n] = t => KeptFor(t, n)'
    BY <2>1 DEF StateInv
  <2>2. Pending(t) /\ \A n \in Served : owner[n] = t => KeptFor(t, n)
    BY DEF StateInv
  <2>3. Served' = Served
    BY <2>1 DEF Served
  <2>4. CASE t = s
    BY <2>1, <2>2, <2>3, <2>4, <1>1 DEF Pending, KeptFor, Serving
  <2>5. CASE t # s
    BY <2>1, <2>2, <2>3, <2>5, <1>1 DEF Pending, KeptFor, Serving
  <2> QED
    BY <2>4, <2>5
<1>5. ASSUME NEW s \in Sessions, StepFails(s) PROVE StateInv'
  <2>1. /\ waiting' = [waiting EXCEPT ![s] = None] /\ disturbed' = disturbed \cup {s}
        /\ UNCHANGED <<owner, handler, held, sessions, answered>>
    BY <1>5 DEF StepFails, requestVars, handlerVars
  <2>2. Served' = Served
    BY <2>1 DEF Served
  <2> QED
    BY <2>1, <2>2, <1>1 DEF StateInv, Pending, KeptFor, Serving
<1>6. ASSUME NEW n \in Request, Handler(n) PROVE StateInv'
  <2>1. /\ handler[n] \in Live /\ owner[n] \in Sessions
        /\ UNCHANGED <<waiting, owner, answered, disturbed>>
    BY <1>6, OwnerOf DEF Handler, Arrive, Generate, GenerateFails, Store, Dropped, Live,
                         clientVars, requestVars, historyVars
  <2>2. /\ \A m \in Request : m # n => handler'[m] = handler[m] /\ held'[m] = held[m]
        /\ \A s \in Sessions : s # owner[n] => sessions'[s] = sessions[s]
    BY <1>6, <1>1 DEF Handler, Arrive, Lookup, Generate, GenerateFails, Store, PutBack, Dropped
  <2> SUFFICES ASSUME NEW t \in Sessions, t \notin disturbed
               PROVE  Pending(t)' /\ \A m \in Served' : owner'[m] = t => KeptFor(t, m)'
    BY <2>1 DEF StateInv
  <2>3. Pending(t) /\ \A m \in Served : owner[m] = t => KeptFor(t, m)
    BY DEF StateInv
  <2>4. Pending(t)'
    BY <2>1, <2>3 DEF Pending
  <2>5. ASSUME NEW m \in Served', owner'[m] = t PROVE KeptFor(t, m)'
    <3>1. m \in Request /\ owner[m] = t
      BY <2>5, <2>1 DEF Served
    <3>2. CASE owner[n] # t
      <4>1. m # n /\ m \in Served
        BY <3>1, <3>2, <2>2, <2>5 DEF Served
      <4>2. waiting[t] # None => waiting[t] # n /\ waiting[t] \in Request
        BY <3>2, <2>3, <1>1 DEF Pending
      <4> QED
        BY <4>1, <4>2, <3>1, <3>2, <2>1, <2>2, <2>3 DEF KeptFor, Serving
    <3>3. CASE owner[n] = t
      <4>1. n \notin answered /\ waiting[t] = n /\ \A k \in Request : owner[k] = t => k <= n
        BY <3>3, <2>1, <2>3 DEF Pending, EventsApplied, Live
      <4>2. m # n => m \in Served
        BY <2>2, <2>5, <3>1 DEF Served
      <4>3. waiting'[t] = n /\ n # None
        BY <4>1, <2>1, <1>1
      <4>4. CASE Arrive(n)
        <5>1. CASE handler'[n] = "error"
          BY <5>1, <4>3 DEF KeptFor
        <5>2. CASE handler'[n] # "error"
          <6>1. /\ handler[n] = "arriving" /\ handler' = [handler EXCEPT ![n] = "generating"]
                /\ held' = [held EXCEPT ![n] = IF sessions[t] = None THEN n ELSE sessions[t]]
            BY <4>4, <5>2, <3>3, <1>1 DEF Arrive, Lookup, Stored
          <6>2. held'[n] # None /\ held'[n] <= n
            BY <6>1, <4>1, <1>1, <3>3 DEF ExclusiveState
          <6>3. m # n => KeptFor(t, m)
            BY <4>2, <2>3, <3>1
          <6>4. m # n => sessions[t] # None /\ sessions[t] <= m
            BY <6>3, <6>1, <4>1, <4>3 DEF KeptFor, Serving
          <6>5. held'[n] <= m
            BY <6>1, <6>2, <6>4, <1>1
          <6> QED
            BY <6>1, <6>2, <6>5, <4>3, <1>1 DEF KeptFor, Serving
        <5> QED
          BY <5>1, <5>2
      <4>5. CASE Generate(n)
        <5>1. handler[n] = "generating" /\ handler' = [handler EXCEPT ![n] = "storing"] /\ held' = held
          BY <4>5 DEF Generate
        <5>2. KeptFor(t, m)
          BY <5>1, <4>2, <2>3, <3>1 DEF Served
        <5> QED
          BY <5>1, <5>2, <4>1, <4>3, <1>1 DEF KeptFor, Serving
      <4>6. CASE GenerateFails(n)
        <5>1. handler' = [handler EXCEPT ![n] = "error"]
          BY <4>6 DEF GenerateFails
        <5> QED
          BY <5>1, <4>3, <1>1 DEF KeptFor
      <4>7. CASE Store(n)
        <5>1. /\ handler[n] = "storing" /\ handler' = [handler EXCEPT ![n] = "ok"]
              /\ sessions' = [sessions EXCEPT ![t] = held[n]]
          BY <4>7, <3>3 DEF Store, PutBack
        <5>2. KeptFor(t, m)
          BY <5>1, <4>2, <2>3, <3>1 DEF Served
        <5>3. held[n] # None /\ held[n] <= m
          BY <5>1, <5>2, <4>1, <4>3 DEF KeptFor
        <5> QED
          BY <5>1, <5>3, <4>3, <1>1 DEF KeptFor
      <4>8. CASE Dropped(n)
        BY <4>8, <4>1, <3>3 DEF Dropped
      <4> QED
        BY <4>4, <4>5, <4>6, <4>7, <4>8, <1>6 DEF Handler
    <3> QED
      BY <3>2, <3>3
  <2> QED
    BY <2>4, <2>5
<1>7. CASE Restart
  BY <1>7 DEF Restart, StateInv
<1>8. CASE UNCHANGED vars
  BY <1>8 DEF vars, clientVars, requestVars, handlerVars, historyVars, StateInv, Pending, Served,
              KeptFor, Serving
<1> QED
  BY <1>2, <1>3, <1>4, <1>5, <1>6, <1>7, <1>8 DEF Next, Client

(* Every step keeps all of it. *)
LEMMA Invariance == Spec => []IInv
<1>1. IInv /\ [Next]_vars => IInv'
  BY StepType, StepNumbered, StepHeld, StepApart, StepApplied, StepState DEF IInv
<1> QED
  BY InitInv, <1>1, PTL DEF Spec

-----------------------------------------------------------------------------
(* A session's state is in one place, whatever handlers overlap, fail or   *)
(* are dropped (process_step_request).                                     *)
THEOREM StateExclusive == Spec => []ExclusiveState
<1>1. IInv => ExclusiveState
  BY DEF IInv
<1> QED
  BY <1>1, Invariance, PTL

(* No event is applied twice, none is lost behind an answer that is Ok,    *)
(* and a transcript, or a later one, is heard in the answer                *)
(* (SeamlessM4tRemoteBackend::step, process_step_request).                 *)
THEOREM EventsKept == Spec => []EventsAccounted
<1>1. IInv => EventsAccounted
  <2> USE SidecarAssumption DEF IInv
  <2> SUFFICES ASSUME IInv PROVE EventsAccounted
    OBVIOUS
  <2>1. \A m, n \in Request : m # n => applied[m] \cap applied[n] = {}
    BY DEF EventsApart, EventsApplied
  <2>2. ASSUME NEW n \in answered, NEW e \in carried[n]
        PROVE  /\ e \in applied[n]
               /\ kind[e] = "transcript" => heard[n] \in applied[n] /\ e <= heard[n]
    <3>1. /\ n \in Request /\ applied[n] = carried[n]
          /\ heard[n] = LastOf(applied[n], "transcript")
      BY DEF EventsApplied, TypeOK
    <3>2. carried[n] \subseteq Event
      BY <3>1 DEF TypeOK
    <3> DEFINE some(k) == {d \in carried[n] : kind[d] = k}
    <3>3. ASSUME NEW k, kind[e] = k
          PROVE  LastOf(carried[n], k) \in some(k) /\ e <= LastOf(carried[n], k)
      <4>1. some(k) \subseteq Event /\ e \in some(k)
        BY <3>2, <3>3
      <4>2. LastOf(carried[n], k) = Latest(some(k))
        BY <4>1 DEF LastOf
      <4> HIDE DEF some
      <4> QED
        BY <4>1, <4>2, LatestIs
    <3>4. kind[e] = "transcript" => heard[n] \in applied[n] /\ e <= heard[n]
      BY <3>1, <3>3
    <3> QED
      BY <3>1, <3>4
  <2>3. \A e \in 1..injected : \/ \E s \in Sessions : e \in queued[s]
                               \/ \E n \in Request : e \in carried[n]
    BY DEF EventsApart
  <2> QED
    BY <2>1, <2>2, <2>3 DEF EventsAccounted
<1> QED
  BY <1>1, Invariance, PTL

(* An undisturbed session is served with one state all along               *)
(* (process_step_request, sessions.insert).                                *)
THEOREM StateKept == Spec => []StateSurvives
<1>1. IInv => StateSurvives
  BY SidecarAssumption DEF IInv, StateSurvives, StateInv, Pending, Served, KeptFor, Serving,
     EventsApplied, TypeOK
<1> QED
  BY <1>1, Invariance, PTL
=============================================================================
