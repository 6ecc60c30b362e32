------------------------- MODULE SidecarSocketProofs -------------------------
(***************************************************************************)
(* The local transport gives every caller the response to its own request, *)
(* for any number of callers, requests and connections. And whatever       *)
(* sidecar processes come and go at the path, and however many: who is     *)
(* reachable there and what is left there, and to the clients they are the *)
(* one sidecar of LocalIpc.                                                *)
(***************************************************************************)
EXTENDS SidecarSocket, TLAPS

-----------------------------------------------------------------------------
(* LocalIpc: its theorems, of its own Spec *)


Holding == {"connecting", "writing", "reading"}

Empty(k) == sent[k] = <<>> /\ task[k] = None /\ replies[k] = <<>>

(* The one message of request r that may be under way on connection k. *)
InFlight(k, r) ==
  \/ sent[k] = <<r>> /\ task[k] = None /\ replies[k] = <<>>
  \/ sent[k] = <<>> /\ task[k] = r /\ replies[k] = <<>>
  \/ sent[k] = <<>> /\ task[k] = None /\ \E x \in Reply : x.to = r /\ replies[k] = <<x>>
  \/ Empty(k) /\ k \in ended

(* Who is past the mutex holds it. *)
Mutex == \A c \in Callers : caller[c] \in Holding <=> guard = c

Connected ==
  /\ guard # None => (stream = 0 <=> caller[guard] = "connecting")
  /\ stream \notin dropped
  /\ \A k \in Conn : k > opened => Empty(k) /\ k \notin dropped \cup ended

(* The stream carries the request of the caller that reads it, and nothing *)
(* else.                                                                   *)
OneAtATime ==
  stream # 0 =>
    \/ /\ \A c \in Callers : guard = c => caller[c] # "reading"
       /\ Empty(stream)
    \/ \E c \in Callers :
         /\ guard = c
         /\ caller[c] = "reading"
         /\ InFlight(stream, <<c, steps[c]>>)

Numbered == \A c \in Callers : caller[c] # "idle" => steps[c] > 0

IInv == TypeOK /\ Numbered /\ Mutex /\ Connected /\ OneAtATime /\ OwnResponse

-----------------------------------------------------------------------------
(* The initial state has no connection and no call. *)
LEMMA InitInv == Init => IInv
<1> USE IpcAssumption
<1> SUFFICES ASSUME Init PROVE IInv
  OBVIOUS
<1>1. TypeOK
  BY DEF Init, TypeOK, Conn
<1>2. Mutex
  BY DEF Init, Mutex, Holding
<1>3. Connected
  BY DEF Init, Connected, Empty, Conn
<1>4. OneAtATime /\ OwnResponse
  BY DEF Init, OneAtATime, OwnResponse
<1>5. Numbered
  BY DEF Init, Numbered
<1> QED
  BY <1>5, <1>1, <1>2, <1>3, <1>4 DEF IInv

(* What the holder of the mutex may assume of its request and stream. *)
LEMMA HolderFacts ==
  ASSUME IInv, NEW c \in Callers, caller[c] \in Holding
  PROVE  /\ guard = c /\ guard # None
         /\ steps[c] \in 1..MaxSteps
         /\ <<c, steps[c]>> \in Request
         /\ caller[c] # "connecting" => stream \in Conn
         /\ caller[c] = "connecting" => stream = 0
         /\ caller[c] = "writing" => Empty(stream)
         /\ caller[c] = "reading" => InFlight(stream, <<c, steps[c]>>)
<1> USE IpcAssumption DEF IInv, Holding
<1>1. guard = c /\ guard # None
  BY DEF Mutex
<1>2. steps[c] \in 1..MaxSteps /\ <<c, steps[c]>> \in Request
  <2>1. steps[c] \in 0..MaxSteps
    BY DEF TypeOK
  <2>2. steps[c] > 0
    BY DEF Numbered
  <2> QED
    BY <2>1, <2>2 DEF Request
<1>3. /\ caller[c] # "connecting" => stream \in Conn
      /\ caller[c] = "connecting" => stream = 0
  BY <1>1 DEF Connected, TypeOK, Conn
<1>4. /\ caller[c] = "writing" => Empty(stream)
      /\ caller[c] = "reading" => InFlight(stream, <<c, steps[c]>>)
  <2>1. caller[c] # "connecting" => stream # 0
    BY <1>3, SMT DEF Conn
  <2>2. ASSUME NEW d \in Callers, guard = d PROVE d = c
    BY <1>1, <2>2
  <2> QED
    BY <1>1, <2>1, <2>2 DEF OneAtATime
<1> QED
  BY <1>1, <1>2, <1>3, <1>4

(* Types are kept by every step. *)
LEMMA TypeStep == IInv /\ [Next]_vars => TypeOK'
<1> USE IpcAssumption
<1> SUFFICES ASSUME IInv, [Next]_vars PROVE TypeOK'
  OBVIOUS
<1>0. TypeOK
  BY DEF IInv
<1> USE <1>0 DEF TypeOK
<1>1. ASSUME NEW c \in Callers, Call(c) PROVE TypeOK'
  BY <1>1 DEF Call, serverVars
<1>2. ASSUME NEW c \in Callers, Lock(c) PROVE TypeOK'
  BY <1>2 DEF Lock, serverVars
<1>3. ASSUME NEW c \in Callers, Connect(c) PROVE TypeOK'
  BY <1>3 DEF Connect, serverVars
<1>4. ASSUME NEW c \in Callers, ConnectFails(c) PROVE TypeOK'
  BY <1>4 DEF ConnectFails, Return, serverVars
<1>5. ASSUME NEW c \in Callers, Write(c) PROVE TypeOK'
  <2>1. stream \in Conn /\ <<c, steps[c]>> \in Request
    BY <1>5, HolderFacts DEF Write, Holding
  <2>2. sent' \in [Conn -> Seq(Request)]
    BY <1>5, <2>1 DEF Write
  <2> QED
    BY <1>5, <2>2 DEF Write, serverVars
<1>6. ASSUME NEW c \in Callers, WriteFails(c) PROVE TypeOK'
  <2>1. stream \in Conn
    BY <1>6, HolderFacts DEF WriteFails, Holding
  <2> QED
    BY <1>6, <2>1 DEF WriteFails, Fail, Return, serverVars
<1>7. ASSUME NEW c \in Callers, Read(c) PROVE TypeOK'
  <2>1. stream \in Conn
    BY <1>7, HolderFacts DEF Read, Holding
  <2>2. replies[stream] \in Seq(Reply) /\ replies[stream] # <<>>
    BY <1>7, <2>1 DEF Read
  <2>3. Head(replies[stream]) \in Reply /\ Tail(replies[stream]) \in Seq(Reply)
    BY <2>2
  <2>4. Head(replies[stream]).to \in Request
    BY <2>3 DEF Reply
  <2>5. replies' \in [Conn -> Seq(Reply)]
    BY <1>7, <2>3 DEF Read
  <2>6. UNCHANGED <<task, ended, processed, sent>>
    BY <1>7 DEF Read, serverVars
  <2>7. ASSUME Return(c, Head(replies[stream]).to), UNCHANGED <<stream, dropped>>
        PROVE  TypeOK'
    BY <2>4, <2>5, <2>6, <2>7 DEF Return
  <2>8. ASSUME Fail(c) PROVE TypeOK'
    BY <2>1, <2>5, <2>6, <2>8 DEF Fail, Return
  <2> QED
    BY <1>7, <2>7, <2>8 DEF Read
<1>8. ASSUME NEW c \in Callers, ReadEof(c) PROVE TypeOK'
  <2>1. stream \in Conn
    BY <1>8, HolderFacts DEF ReadEof, Holding
  <2>2. Fail(c) /\ UNCHANGED <<task, ended, processed, sent, replies>>
    BY <1>8 DEF ReadEof, serverVars
  <2> QED
    BY <2>1, <2>2 DEF Fail, Return
<1>9. ASSUME NEW k \in Conn, ServerRead(k) PROVE TypeOK'
  <2>1. Head(sent[k]) \in Request /\ Tail(sent[k]) \in Seq(Request)
    BY <1>9 DEF ServerRead
  <2>2. task' \in [Conn -> Request \cup {None}] /\ sent' \in [Conn -> Seq(Request)]
    BY <1>9, <2>1 DEF ServerRead
  <2> QED
    BY <1>9, <2>2 DEF ServerRead, clientVars
<1>10. ASSUME NEW k \in Conn, ServerEof(k) PROVE TypeOK'
  BY <1>10 DEF ServerEof, clientVars
<1>11. ASSUME NEW k \in Conn, ServerReply(k) PROVE TypeOK'
  <2>1. task[k] \in Request
    BY <1>11 DEF ServerReply
  <2>2. /\ task' \in [Conn -> Request \cup {None}]
        /\ processed' \in [Request -> Nat]
        /\ ended' \subseteq Conn
    BY <1>11, <2>1 DEF ServerReply
  <2>3. replies' \in [Conn -> Seq(Reply)]
    <3>1. ASSUME NEW e \in {"response", "error"}
          PROVE  Append(replies[k], [to |-> task[k], envelope |-> e]) \in Seq(Reply)
      <4>1. [to |-> task[k], envelope |-> e] \in Reply
        BY <2>1 DEF Reply
      <4> QED
        BY <4>1
    <3>2. CASE UNCHANGED replies
      BY <3>2
    <3>3. ASSUME NEW e \in {"response", "error"},
                 replies' = [replies EXCEPT ![k] =
                               Append(@, [to |-> task[k], envelope |-> e])]
          PROVE  replies' \in [Conn -> Seq(Reply)]
      BY <3>1, <3>3
    <3> QED
      BY <1>11, <3>2, <3>3 DEF ServerReply
  <2> QED
    BY <1>11, <2>2, <2>3 DEF ServerReply, clientVars
<1>12. CASE ServerExit
  <2>1. PICK gone \in SUBSET (1..opened \ ended) : EndTasks(gone)
    BY <1>12 DEF ServerExit
  <2> QED
    BY <2>1 DEF EndTasks, clientVars, Conn
<1>13. CASE UNCHANGED vars
  BY <1>13 DEF vars, clientVars, serverVars
<1> QED
  BY <1>1, <1>2, <1>3, <1>4, <1>5, <1>6, <1>7, <1>8, <1>9, <1>10, <1>11, <1>12, <1>13
     DEF Next, Client, Server

-----------------------------------------------------------------------------
Others == Numbered /\ Mutex /\ Connected /\ OneAtATime /\ OwnResponse

(* A call that ends releases the mutex and leaves no stream, or an empty   *)
(* one.                                                                    *)
LEMMA ReturnStep ==
  ASSUME IInv, TypeOK', NEW c \in Callers, caller[c] \in Holding, NEW r,
         Return(c, r), r \in {None, <<c, steps[c]>>},
         \/ UNCHANGED <<stream, dropped>>
         \/ stream' = 0 /\ stream \in Conn /\ dropped' = dropped \cup {stream},
         stream' # 0 => Empty(stream)',
         UNCHANGED ended,
         \A k \in Conn : k > opened => UNCHANGED <<sent[k], task[k], replies[k]>>
  PROVE  Others'
<1> USE IpcAssumption DEF IInv, Holding
<1>1. guard = c /\ guard' = None /\ caller' = [caller EXCEPT ![c] = "idle"]
  BY HolderFacts DEF Return
<1>2. steps' = steps /\ opened' = opened /\ result' = [result EXCEPT ![c] = r]
  BY DEF Return
<1>3. Numbered'
  BY <1>1, <1>2 DEF Numbered, TypeOK
<1>4. Mutex'
  BY <1>1 DEF Mutex, TypeOK
<1>5. Connected'
  <2>1. stream' \notin dropped'
    BY DEF Connected, TypeOK, Conn
  <2>2. ASSUME NEW k \in Conn, k > opened
        PROVE  Empty(k)' /\ k \notin dropped' \cup ended'
    <3>1. Empty(k) /\ k \notin dropped \cup ended
      BY <2>2 DEF Connected
    <3>2. k # stream
      BY <2>2 DEF TypeOK, Conn
    <3>3. Empty(k)'
      BY <2>2, <3>1 DEF Empty
    <3> QED
      BY <3>1, <3>2, <3>3
  <2> QED
    BY <1>1, <1>2, <2>1, <2>2 DEF Connected
<1>6. OneAtATime'
  BY <1>1 DEF OneAtATime
<1>7. OwnResponse'
  BY <1>1, <1>2 DEF OwnResponse, TypeOK
<1> QED
  BY <1>3, <1>4, <1>5, <1>6, <1>7 DEF Others

(* The steps of a caller. *)
LEMMA CallStep ==
  ASSUME IInv, TypeOK', NEW c \in Callers, Call(c) PROVE Others'
<1> USE IpcAssumption DEF IInv, Holding, TypeOK
<1>1. Numbered'
  BY DEF Call, Numbered
<1>2. Mutex'
  BY DEF Call, Mutex
<1>3. Connected'
  BY DEF Call, Connected, Empty, Mutex, serverVars
<1>4. OneAtATime'
  BY DEF Call, OneAtATime, InFlight, Empty, serverVars
<1>5. OwnResponse'
  BY DEF Call, OwnResponse
<1> QED
  BY <1>1, <1>2, <1>3, <1>4, <1>5 DEF Others

(* Each action keeps the invariant: taking the mutex. *)
LEMMA LockStep ==
  ASSUME IInv, TypeOK', NEW c \in Callers, Lock(c) PROVE Others'
<1> USE IpcAssumption DEF IInv, Holding, TypeOK
<1>1. Numbered'
  BY DEF Lock, Numbered
<1>2. Mutex'
  BY DEF Lock, Mutex
<1>3. Connected'
  BY DEF Lock, Connected, Empty, serverVars
<1>4. OneAtATime'
  BY DEF Lock, OneAtATime, Empty, serverVars
<1>5. OwnResponse'
  BY DEF Lock, OwnResponse
<1> QED
  BY <1>1, <1>2, <1>3, <1>4, <1>5 DEF Others

(* A new connection, with nothing in it. *)
LEMMA ConnectStep ==
  ASSUME IInv, TypeOK', NEW c \in Callers, Connect(c) PROVE Others'
<1> USE IpcAssumption DEF IInv, Holding, TypeOK
<1>0. guard = c /\ opened + 1 \in Conn
  <2>1. guard = c
    BY HolderFacts DEF Connect
  <2>2. opened + 1 \in Conn
    BY DEF Connect, Conn
  <2> QED
    BY <2>1, <2>2
<1>1. Numbered'
  BY DEF Connect, Numbered
<1>2. Mutex'
  BY DEF Connect, Mutex
<1>3. Connected'
  BY <1>0 DEF Connect, Connected, Empty, serverVars, Conn
<1>4. OneAtATime'
  BY <1>0 DEF Connect, Connected, OneAtATime, Empty, serverVars, Conn
<1>5. OwnResponse'
  BY DEF Connect, OwnResponse
<1> QED
  BY <1>1, <1>2, <1>3, <1>4, <1>5 DEF Others

(* A request on a clean stream. *)
LEMMA WriteStep ==
  ASSUME IInv, TypeOK', NEW c \in Callers, Write(c) PROVE Others'
<1> USE IpcAssumption DEF IInv, Holding, TypeOK
<1>0. guard = c /\ stream \in Conn /\ Empty(stream) /\ <<c, steps[c]>> \in Request
  BY HolderFacts DEF Write
<1>1. Numbered'
  BY DEF Write, Numbered
<1>2. Mutex'
  BY DEF Write, Mutex
<1>3. Connected'
  BY <1>0 DEF Write, Connected, Empty, serverVars, Conn
<1>4. OneAtATime'
  <2>1. sent'[stream] = <<<<c, steps[c]>>>>
    BY <1>0 DEF Write, Empty
  <2>2. InFlight(stream, <<c, steps[c]>>)'
    BY <1>0, <2>1 DEF Write, InFlight, Empty, serverVars
  <2> QED
    BY <1>0, <2>2 DEF Write, OneAtATime
<1>5. OwnResponse'
  BY DEF Write, OwnResponse
<1> QED
  BY <1>1, <1>2, <1>3, <1>4, <1>5 DEF Others

(* A refused connection: the mutex is released without a stream. *)
LEMMA ConnectFailsStep ==
  ASSUME IInv, TypeOK', NEW c \in Callers, ConnectFails(c) PROVE Others'
<1>1. caller[c] \in Holding /\ stream = 0
  BY HolderFacts DEF ConnectFails, Holding
<1> QED
  BY <1>1, ReturnStep DEF ConnectFails, serverVars

(* A write that fails drops the stream. *)
LEMMA WriteFailsStep ==
  ASSUME IInv, TypeOK', NEW c \in Callers, WriteFails(c) PROVE Others'
<1>1. caller[c] \in Holding /\ stream \in Conn
  BY HolderFacts DEF WriteFails, Holding
<1> QED
  BY <1>1, ReturnStep DEF WriteFails, Fail, serverVars

(* So does a read that finds the end of it. *)
LEMMA ReadEofStep ==
  ASSUME IInv, TypeOK', NEW c \in Callers, ReadEof(c) PROVE Others'
<1>1. caller[c] \in Holding /\ stream \in Conn
  BY HolderFacts DEF ReadEof, Holding
<1> QED
  BY <1>1, ReturnStep DEF ReadEof, Fail, serverVars

(* The one response on the stream is taken, and is the caller's. *)
LEMMA ReadStep ==
  ASSUME IInv, TypeOK', NEW c \in Callers, Read(c) PROVE Others'
<1> USE DEF Holding
<1>1. /\ caller[c] \in Holding /\ stream \in Conn
      /\ InFlight(stream, <<c, steps[c]>>)
  BY HolderFacts DEF Read
<1>2. PICK x \in Reply : x.to = <<c, steps[c]>> /\ replies[stream] = <<x>>
  BY <1>1 DEF Read, InFlight, Empty
<1>3. sent[stream] = <<>> /\ task[stream] = None
  BY <1>1, <1>2 DEF InFlight, Empty
<1>4. Head(replies[stream]).to = <<c, steps[c]>> /\ Tail(replies[stream]) = <<>>
  BY <1>2
<1>5. sent'[stream] = <<>> /\ task'[stream] = None /\ replies'[stream] = <<>>
  BY <1>1, <1>3, <1>4 DEF Read, serverVars, IInv, TypeOK
<1>6. /\ UNCHANGED ended
      /\ \A k \in Conn : k > opened => UNCHANGED <<sent[k], task[k], replies[k]>>
  BY <1>1 DEF Read, serverVars, IInv, TypeOK, Conn
<1>7. ASSUME Return(c, <<c, steps[c]>>), UNCHANGED <<stream, dropped>>
      PROVE  Others'
  <2>1. Empty(stream)'
    BY <1>5, <1>7 DEF Empty
  <2> QED
    BY <1>1, <2>1, <1>6, <1>7, ReturnStep
<1>8. ASSUME Fail(c) PROVE Others'
  BY <1>1, <1>6, <1>8, ReturnStep DEF Fail
<1> QED
  BY <1>4, <1>7, <1>8 DEF Read

-----------------------------------------------------------------------------
(* A step of the server moves the message of its connection on, and no     *)
(* other.                                                                  *)
LEMMA ServerStep ==
  ASSUME IInv, UNCHANGED clientVars, ended \subseteq ended',
         \A k \in Conn : k \notin 1..opened => k \notin ended' \ ended,
         \A k \in Conn : Empty(k) => Empty(k)',
         \A k \in Conn, r \in Request : InFlight(k, r) => InFlight(k, r)'
  PROVE  Others'
<1> USE IpcAssumption DEF IInv, clientVars
<1>1. Numbered' /\ Mutex' /\ OwnResponse'
  BY DEF Numbered, Mutex, OwnResponse
<1>2. Connected'
  <2>1. ASSUME NEW k \in Conn, k > opened
        PROVE  Empty(k)' /\ k \notin dropped' \cup ended'
    <3>1. Empty(k) /\ k \notin dropped \cup ended
      BY <2>1 DEF Connected
    <3>2. k \notin 1..opened
      BY <2>1 DEF TypeOK, Conn
    <3> QED
      BY <3>1, <3>2
  <2> QED
    BY <2>1 DEF Connected
<1>3. OneAtATime'
  <2>1. stream # 0 => stream \in Conn
    BY DEF TypeOK, Conn
  <2>2. CASE Empty(stream) /\ \A c \in Callers : guard = c => caller[c] # "reading"
    <3>1. stream # 0 => Empty(stream)'
      BY <2>1, <2>2 DEF Empty
    <3> QED
      BY <2>2, <3>1 DEF OneAtATime
  <2>3. ASSUME NEW c \in Callers, guard = c, caller[c] = "reading",
               InFlight(stream, <<c, steps[c]>>)
        PROVE  OneAtATime'
    <3>1. <<c, steps[c]>> \in Request /\ stream \in Conn
      BY <2>3, HolderFacts DEF Holding
    <3>2. InFlight(stream, <<c, steps[c]>>)'
      BY <2>3, <3>1 DEF InFlight, Empty
    <3> QED
      BY <2>3, <3>2 DEF OneAtATime
  <2>4. CASE stream = 0
    BY <2>4 DEF OneAtATime
  <2> QED
    BY <2>2, <2>3, <2>4 DEF OneAtATime
<1> QED
  BY <1>1, <1>2, <1>3 DEF Others

(* The task of a connection takes the request from the wire. *)
LEMMA ServerReadStep ==
  ASSUME IInv, TypeOK', NEW k \in Conn, ServerRead(k) PROVE Others'
<1> USE DEF IInv, TypeOK
<1>1. ASSUME NEW j \in Conn, Empty(j) PROVE Empty(j)'
  BY <1>1 DEF ServerRead, Empty
<1>2. ASSUME NEW j \in Conn, NEW r \in Request, InFlight(j, r)
      PROVE  InFlight(j, r)'
  <2>1. CASE j = k
    <3>1. sent[k] = <<r>> /\ replies[k] = <<>>
      BY <1>2, <2>1 DEF ServerRead, InFlight, Empty
    <3>2. sent'[k] = <<>> /\ task'[k] = r
      BY <3>1 DEF ServerRead
    <3> QED
      BY <2>1, <3>1, <3>2 DEF ServerRead, InFlight
  <2>2. CASE j # k
    BY <1>2, <2>2 DEF ServerRead, InFlight, Empty
  <2> QED
    BY <2>1, <2>2
<1>3. UNCHANGED <<clientVars, ended>>
  BY DEF ServerRead
<1> QED
  BY <1>1, <1>2, <1>3, ServerStep

(* The task ends with its connection. *)
LEMMA ServerEofStep ==
  ASSUME IInv, TypeOK', NEW k \in Conn, ServerEof(k) PROVE Others'
<1> USE DEF IInv, TypeOK
<1>1. ASSUME NEW j \in Conn, Empty(j) PROVE Empty(j)'
  BY <1>1 DEF ServerEof, Empty
<1>2. ASSUME NEW j \in Conn, NEW r \in Request, InFlight(j, r)
      PROVE  InFlight(j, r)'
  BY <1>2 DEF ServerEof, InFlight, Empty
<1>3. /\ UNCHANGED clientVars
      /\ ended \subseteq ended'
      /\ \A j \in Conn : j \notin 1..opened => j \notin ended' \ ended
  BY DEF ServerEof
<1> QED
  BY <1>1, <1>2, <1>3, ServerStep

(* The response takes the place of the request. *)
LEMMA ServerReplyStep ==
  ASSUME IInv, TypeOK', NEW k \in Conn, ServerReply(k) PROVE Others'
<1> USE IpcAssumption DEF IInv, TypeOK
<1>1. ASSUME NEW j \in Conn, Empty(j) PROVE Empty(j)'
  <2>1. j # k
    BY <1>1 DEF ServerReply, Empty
  <2> QED
    BY <1>1, <2>1 DEF ServerReply, Empty
<1>2. ASSUME NEW j \in Conn, NEW r \in Request, InFlight(j, r)
      PROVE  InFlight(j, r)'
  <2>1. CASE j = k
    <3>1. sent[k] = <<>> /\ task[k] = r /\ replies[k] = <<>>
      BY <1>2, <2>1 DEF ServerReply, InFlight, Empty
    <3>2. sent'[k] = <<>> /\ task'[k] = None
      BY <3>1 DEF ServerReply
    <3>3. ASSUME NEW e \in {"response", "error"},
                 replies' = [replies EXCEPT ![k] =
                               Append(@, [to |-> task[k], envelope |-> e])]
          PROVE  InFlight(k, r)'
      <4>1. replies'[k] = <<[to |-> r, envelope |-> e]>>
        BY <3>1, <3>3
      <4>2. [to |-> r, envelope |-> e] \in Reply
        BY DEF Reply
      <4> QED
        BY <3>2, <4>1, <4>2 DEF InFlight
    <3>4. CASE ended' = ended \cup {k} /\ UNCHANGED replies
      <4>1. Empty(j)' /\ j \in ended'
        BY <2>1, <3>1, <3>2, <3>4 DEF Empty
      <4> QED
        BY <4>1 DEF InFlight
    <3> QED
      BY <2>1, <3>3, <3>4 DEF ServerReply
  <2>2. CASE j # k
    BY <1>2, <2>2 DEF ServerReply, InFlight, Empty
  <2> QED
    BY <2>1, <2>2
<1>3. /\ UNCHANGED clientVars
      /\ ended \subseteq ended'
      /\ \A j \in Conn : j \notin 1..opened => j \notin ended' \ ended
  BY DEF ServerReply
<1> QED
  BY <1>1, <1>2, <1>3, ServerStep

(* Tasks and connections end with the process, whose streams are dead. *)
LEMMA ServerExitStep ==
  ASSUME IInv, TypeOK', ServerExit PROVE Others'
<1> USE DEF IInv, TypeOK
<1>0. PICK gone \in SUBSET (1..opened \ ended) : EndTasks(gone)
  BY DEF ServerExit
<1> USE <1>0 DEF EndTasks
<1>1. ASSUME NEW j \in Conn, Empty(j) PROVE Empty(j)'
  BY <1>1 DEF Empty
<1>2. ASSUME NEW j \in Conn, NEW r \in Request, InFlight(j, r)
      PROVE  InFlight(j, r)'
  <2>1. CASE task[j] = None
    BY <1>2, <2>1 DEF InFlight, Empty
  <2>2. CASE task[j] # None
    <3>1. sent[j] = <<>> /\ replies[j] = <<>>
      BY <1>2, <2>2 DEF InFlight, Empty
    <3>2. CASE j \in gone
      BY <3>1, <3>2 DEF InFlight, Empty
    <3>3. CASE j \notin gone
      <4>1. task'[j] = task[j]
        BY <3>3
      <4> QED
        BY <1>2, <2>2, <4>1 DEF InFlight, Empty
    <3> QED
      BY <3>2, <3>3
  <2> QED
    BY <2>1, <2>2
<1>3. /\ UNCHANGED clientVars
      /\ ended \subseteq ended'
      /\ \A j \in Conn : j \notin 1..opened => j \notin ended' \ ended
  OBVIOUS
<1> QED
  BY <1>1, <1>2, <1>3, ServerStep

(* Nothing is changed by a stuttering step. *)
LEMMA StutterStep == IInv /\ UNCHANGED vars => Others'
BY DEF IInv, vars, clientVars, serverVars, Others, Numbered, Mutex, Connected,
       OneAtATime, OwnResponse, InFlight, Empty

-----------------------------------------------------------------------------
(* Each step keeps the invariant. *)
LEMMA StepInv == IInv /\ [Next]_vars => IInv'
<1> SUFFICES ASSUME IInv, [Next]_vars PROVE IInv'
  OBVIOUS
<1>1. TypeOK'
  BY TypeStep
<1>2. ASSUME NEW c \in Callers, Call(c) \/ Lock(c) \/ Client(c) PROVE Others'
  BY <1>1, <1>2, CallStep, LockStep, ConnectStep, ConnectFailsStep, WriteStep,
     WriteFailsStep, ReadStep, ReadEofStep DEF Client
<1>3. ASSUME NEW k \in Conn, Server(k) PROVE Others'
  BY <1>1, <1>3, ServerReadStep, ServerEofStep, ServerReplyStep DEF Server
<1>4. Others'
  BY <1>1, <1>2, <1>3, ServerExitStep, StutterStep DEF Next
<1> QED
  BY <1>1, <1>4 DEF IInv, Others

(* The invariant always holds. *)
LEMMA Invariance == Spec => []IInv
BY InitInv, StepInv, PTL DEF Spec

(* No caller is ever given the response to another request than its own    *)
(* latest one, although frames carry no identifier.                        *)
THEOREM ResponseIsOwn == Spec => []OwnResponse
<1>1. IInv => OwnResponse
  BY DEF IInv
<1> QED
  BY <1>1, Invariance, PTL

(* A stream put back for the next caller carries no message.               *)
THEOREM StreamClean == Spec => []ReusedStreamClean
<1>1. IInv => ReusedStreamClean
  BY IpcAssumption DEF IInv, OneAtATime, ReusedStreamClean, Empty
<1> QED
  BY <1>1, Invariance, PTL

-----------------------------------------------------------------------------
(* Request r is on connection k, not processed yet. *)
Pending(k, r) ==
  \/ sent[k] = <<r>> /\ task[k] = None
  \/ sent[k] = <<>> /\ task[k] = r

Clear(k) == sent[k] = <<>> /\ task[k] = None

(* A request that has not been written yet. *)
Unwritten(c, n) ==
  n > steps[c] \/ (n = steps[c] /\ caller[c] \in {"locking", "connecting", "writing"})

(* Also a connection that was dropped holds one request at most, which is  *)
(* on no other one, and was never processed.                               *)
OnceInv ==
  /\ \A k \in Conn : Clear(k) \/ \E r \in Request : Pending(k, r)
  /\ \A k, j \in Conn, r \in Request : Pending(k, r) /\ Pending(j, r) => k = j
  /\ \A k \in Conn, r \in Request : Pending(k, r) => processed[r] = 0
  /\ \A c \in Callers, n \in 1..MaxSteps : Unwritten(c, n) =>
       processed[<<c, n>>] = 0 /\ \A k \in Conn : ~Pending(k, <<c, n>>)
  /\ AtMostOnce

(* None stands for no request. *)
LEMMA NoneNoRequest == None \notin Request
BY IpcAssumption DEF Request

(* At first there is no request. *)
LEMMA InitOnce == Init => OnceInv
BY IpcAssumption DEF Init, OnceInv, Clear, Pending, Request, AtMostOnce, Conn

(* Steps that neither write nor process a request, and make none unwritten.*)
LEMMA QuietOnce ==
  ASSUME OnceInv,
         UNCHANGED <<sent, processed>>,
         \A k \in Conn : task'[k] \in {task[k], None},
         \A c \in Callers, n \in 1..MaxSteps : Unwritten(c, n)' => Unwritten(c, n)
  PROVE  OnceInv'
<1>1. ASSUME NEW k \in Conn, NEW r \in Request, Pending(k, r)' PROVE Pending(k, r)
  <2>1. CASE sent[k] = <<>>
    BY <1>1, <2>1, NoneNoRequest DEF Pending
  <2>2. CASE sent[k] = <<r>>
    BY <2>2 DEF Pending, OnceInv, Clear
  <2> QED
    BY <1>1, <2>1, <2>2 DEF Pending
<1>2. ASSUME NEW k \in Conn PROVE Clear(k)' \/ \E r \in Request : Pending(k, r)'
  BY <1>2 DEF OnceInv, Clear, Pending
<1>3. AtMostOnce'
  BY DEF OnceInv, AtMostOnce
<1>4. \A c \in Callers, n \in 1..MaxSteps : <<c, n>> \in Request
  BY DEF Request
<1> QED
  BY <1>1, <1>2, <1>3, <1>4 DEF OnceInv

(* A written request is a new one. *)
LEMMA WriteOnce ==
  ASSUME OnceInv, IInv, NEW c \in Callers, Write(c) PROVE OnceInv'
<1> USE DEF OnceInv
<1> DEFINE r0 == <<c, steps[c]>>
<1>1. /\ stream \in Conn /\ Empty(stream) /\ r0 \in Request /\ steps[c] \in 1..MaxSteps
      /\ caller[c] = "writing"
  BY HolderFacts DEF Write, Holding
<1>2. Unwritten(c, steps[c])
  BY <1>1 DEF Unwritten
<1>3. processed[r0] = 0 /\ \A k \in Conn : ~Pending(k, r0)
  BY <1>1, <1>2
<1>4. /\ sent' = [sent EXCEPT ![stream] = <<r0>>]
      /\ UNCHANGED <<task, processed, steps, stream>>
      /\ caller' = [caller EXCEPT ![c] = "reading"]
  BY <1>1 DEF Write, Empty, serverVars
<1> HIDE DEF r0
<1>5. /\ \A r \in Request : Pending(stream, r)' <=> r = r0
      /\ \A k \in Conn \ {stream} : Clear(k)' <=> Clear(k)
      /\ \A k \in Conn \ {stream}, r \in Request : Pending(k, r)' <=> Pending(k, r)
  <2>1. /\ sent'[stream] = <<r0>> /\ task'[stream] = None
        /\ \A k \in Conn \ {stream} : sent'[k] = sent[k]
    BY <1>1, <1>4 DEF Empty, IInv, TypeOK
  <2>2. ASSUME NEW r \in Request PROVE (sent[stream] = <<r>>)' <=> r = r0
    BY <1>4, <2>1
  <2> QED
    BY <1>4, <2>1, <2>2, NoneNoRequest DEF Pending, Clear
<1>6. \A k \in Conn : Clear(k)' \/ \E r \in Request : Pending(k, r)'
  BY <1>1, <1>4, <1>5
<1>7. \A k, j \in Conn, r \in Request : Pending(k, r)' /\ Pending(j, r)' => k = j
  BY <1>1, <1>3, <1>4, <1>5
<1>8. \A k \in Conn, r \in Request : Pending(k, r)' => processed'[r] = 0
  BY <1>1, <1>3, <1>4, <1>5
<1>9. ASSUME NEW d \in Callers, NEW n \in 1..MaxSteps, Unwritten(d, n)'
      PROVE  processed'[<<d, n>>] = 0 /\ \A k \in Conn : ~Pending(k, <<d, n>>)'
  <2>1. Unwritten(d, n) /\ <<d, n>> # r0 /\ <<d, n>> \in Request
    BY <1>1, <1>4, <1>9 DEF Unwritten, IInv, TypeOK, r0, Request
  <2> QED
    BY <1>4, <1>5, <2>1
<1> QED
  BY <1>4, <1>6, <1>7, <1>8, <1>9 DEF AtMostOnce

(* A request that is read leaves the wire. *)
LEMMA ServerReadOnce ==
  ASSUME OnceInv, IInv, NEW k \in Conn, ServerRead(k) PROVE OnceInv'
<1> USE DEF OnceInv
<1>1. PICK r0 \in Request : Pending(k, r0)
  BY DEF ServerRead, Clear
<1>2. sent[k] = <<r0>> /\ task[k] = None
  BY <1>1 DEF ServerRead, Pending
<1>3. /\ sent' = [sent EXCEPT ![k] = <<>>] /\ task' = [task EXCEPT ![k] = r0]
      /\ UNCHANGED <<processed, steps, caller>>
  BY <1>2 DEF ServerRead, clientVars
<1>4. /\ \A r \in Request : Pending(k, r)' <=> r = r0
      /\ \A j \in Conn \ {k} : Clear(j)' <=> Clear(j)
      /\ \A j \in Conn \ {k}, r \in Request : Pending(j, r)' <=> Pending(j, r)
  BY <1>2, <1>3, NoneNoRequest DEF Pending, Clear, IInv, TypeOK
<1>5. \A j \in Conn, r \in Request : Pending(j, r)' => Pending(j, r)
  BY <1>1, <1>4
<1>6. \A c \in Callers, n \in 1..MaxSteps :
        <<c, n>> \in Request /\ (Unwritten(c, n)' <=> Unwritten(c, n))
  BY <1>3 DEF Unwritten, Request
<1>7. \A j \in Conn : Clear(j)' \/ \E r \in Request : Pending(j, r)'
  BY <1>1, <1>4
<1> QED
  BY <1>3, <1>5, <1>6, <1>7 DEF AtMostOnce

(* A request that is processed leaves the task. *)
LEMMA ServerReplyOnce ==
  ASSUME OnceInv, IInv, NEW k \in Conn, ServerReply(k) PROVE OnceInv'
<1> USE DEF OnceInv
<1>1. task[k] \in Request /\ Pending(k, task[k]) /\ sent[k] = <<>>
  BY DEF ServerReply, Clear, Pending, IInv, TypeOK
<1> DEFINE r0 == task[k]
<1>2. /\ task' = [task EXCEPT ![k] = None]
      /\ processed' = [processed EXCEPT ![r0] = @ + 1]
      /\ UNCHANGED <<sent, steps, caller>>
  BY DEF ServerReply, clientVars
<1>3. processed'[r0] = 1 /\ \A r \in Request \ {r0} : processed'[r] = processed[r]
  BY <1>1, <1>2 DEF IInv, TypeOK
<1>4. /\ Clear(k)'
      /\ \A r \in Request : ~Pending(k, r)'
      /\ \A j \in Conn \ {k} : Clear(j)' <=> Clear(j)
      /\ \A j \in Conn \ {k}, r \in Request : Pending(j, r)' <=> Pending(j, r)
  BY <1>1, <1>2, NoneNoRequest DEF Pending, Clear, IInv, TypeOK
<1>5. \A j \in Conn, r \in Request : Pending(j, r)' => Pending(j, r) /\ r # r0
  BY <1>1, <1>4
<1>6. \A c \in Callers, n \in 1..MaxSteps :
        /\ <<c, n>> \in Request
        /\ Unwritten(c, n)' <=> Unwritten(c, n)
        /\ Unwritten(c, n) => <<c, n>> # r0
  BY <1>1, <1>2 DEF Unwritten, Request
<1>7. AtMostOnce'
  BY <1>3 DEF AtMostOnce
<1>8. \A j \in Conn : Clear(j)' \/ \E r \in Request : Pending(j, r)'
  BY <1>4
<1> HIDE DEF r0
<1> QED
  BY <1>3, <1>5, <1>6, <1>7, <1>8

(* Each step keeps each request in one place. *)
LEMMA StepOnce == OnceInv /\ IInv /\ [Next]_vars => OnceInv'
<1> SUFFICES ASSUME OnceInv, IInv, [Next]_vars PROVE OnceInv'
  OBVIOUS
<1>0. /\ steps \in [Callers -> 0..MaxSteps]
      /\ caller \in [Callers -> {"idle", "locking", "connecting", "writing", "reading"}]
      /\ task \in [Conn -> Request \cup {None}]
  BY DEF IInv, TypeOK
<1>1. ASSUME NEW c \in Callers, Call(c) PROVE OnceInv'
  BY <1>0, <1>1, QuietOnce, IpcAssumption DEF Call, serverVars, Unwritten
<1>2. ASSUME NEW c \in Callers, Lock(c) \/ Connect(c) PROVE OnceInv'
  BY <1>0, <1>2, QuietOnce DEF Lock, Connect, serverVars, Unwritten
<1>3. ASSUME NEW c \in Callers, ConnectFails(c) \/ WriteFails(c) \/ Read(c) \/ ReadEof(c)
      PROVE  OnceInv'
  <2>1. /\ UNCHANGED <<sent, task, processed, steps>>
        /\ caller' = [caller EXCEPT ![c] = "idle"]
    BY <1>3 DEF ConnectFails, WriteFails, Read, ReadEof, Fail, Return, serverVars
  <2> QED
    BY <1>0, <2>1, QuietOnce DEF Unwritten
<1>4. ASSUME NEW k \in Conn, ServerEof(k) PROVE OnceInv'
  BY <1>4, QuietOnce DEF ServerEof, clientVars, Unwritten
<1>5. CASE ServerExit
  BY <1>0, <1>5, QuietOnce DEF ServerExit, EndTasks, clientVars, Unwritten
<1>6. CASE UNCHANGED vars
  BY <1>6, QuietOnce DEF vars, clientVars, serverVars, Unwritten
<1> QED
  BY <1>1, <1>2, <1>3, <1>4, <1>5, <1>6, WriteOnce, ServerReadOnce, ServerReplyOnce
     DEF Next, Client, Server

(* No request is processed twice, however many connections fail under it.  *)
THEOREM ProcessedOnce == Spec => []AtMostOnce
<1>1. OnceInv => AtMostOnce
  BY DEF OnceInv
<1>2. Spec => []OnceInv
  BY InitOnce, StepOnce, Invariance, PTL DEF Spec
<1> QED
  BY <1>1, <1>2, PTL

-----------------------------------------------------------------------------
(* SidecarSocket *)


SocketTypes ==
  /\ life \in [Sidecars -> Live \cup {"off", "exited", "crashed"}]
  /\ path \in Sidecars \cup {None}

(* Who runs beside another one is in overlapped. *)
AloneInv == \A p \in Running \ overlapped : \A q \in Running : q = p

SocketInv == SocketTypes /\ AloneInv /\ AloneReachable /\ NothingLeft

-----------------------------------------------------------------------------
(* A process that goes to another phase of its life, and runs there only if*)
(* it ran before, keeps what does not speak of the path.                   *)
LEMMA GoesOn ==
  ASSUME SocketInv, NEW p \in Running,
         NEW phase \in Live \cup {"exited", "crashed"}, Goes(p, phase),
         UNCHANGED overlapped
  PROVE  /\ life' \in [Sidecars -> Live \cup {"off", "exited", "crashed"}]
         /\ life'[p] = phase
         /\ \A q \in Sidecars \ {p} : life'[q] = life[q]
         /\ AloneInv'
         /\ p \notin overlapped => Running = {p}
<1> USE DEF SocketInv, SocketTypes, Goes
<1>1. /\ life' \in [Sidecars -> Live \cup {"off", "exited", "crashed"}]
      /\ life'[p] = phase
      /\ \A q \in Sidecars \ {p} : life'[q] = life[q]
  BY DEF Running
<1>2. Running' \subseteq Running
  BY <1>1 DEF Running
<1>3. p \notin overlapped => Running = {p}
  BY DEF AloneInv
<1>4. AloneInv'
  BY <1>2 DEF AloneInv
<1> QED
  BY <1>1, <1>3, <1>4

(* A process that starts overlaps whoever runs. *)
LEMMA StartStep ==
  ASSUME SocketInv, NEW p \in Sidecars, Start(p) PROVE SocketInv'
<1> USE DEF SocketInv, SocketTypes, Start, Goes
<1>1. SocketTypes'
  BY DEF Live
<1>2. life[p] = "off" /\ p \notin Running
  BY DEF Running, Live
<1>3. CASE Goes(p, "preparing") /\ overlapped' = IF Running = {} THEN overlapped
                                                 ELSE overlapped \cup Running \cup {p}
  <2>1. life'[p] = "preparing" /\ \A q \in Sidecars \ {p} : life'[q] = life[q]
    BY <1>3
  <2>2. Running' = Running \cup {p}
    BY <2>1 DEF Running, Live
  <2>3. AloneInv'
    BY <1>3, <2>2 DEF AloneInv
  <2>4. AloneReachable'
    BY <1>3, <2>1 DEF AloneReachable, Running, Live
  <2>5. NothingLeft'
    BY <1>2, <2>1, SocketAssumption DEF NothingLeft
  <2> QED
    BY <1>1, <2>3, <2>4, <2>5
<1>4. CASE Goes(p, "exited") /\ UNCHANGED overlapped
  <2>1. life'[p] = "exited" /\ \A q \in Sidecars \ {p} : life'[q] = life[q]
    BY <1>4
  <2>2. Running' = Running
    BY <1>2, <2>1 DEF Running, Live
  <2>3. AloneInv' /\ AloneReachable'
    BY <1>4, <2>1, <2>2 DEF AloneInv, AloneReachable
  <2>4. NothingLeft'
    BY <1>2, <2>1, SocketAssumption DEF NothingLeft
  <2> QED
    BY <1>1, <2>3, <2>4
<1> QED
  BY <1>3, <1>4

(* The steps that leave the file at the path as it is. *)
LEMMA KeepsPathStep ==
  ASSUME SocketInv, NEW p \in Running, NEW phase \in Live \cup {"exited", "crashed"},
         Goes(p, phase), UNCHANGED <<path, overlapped>>,
         phase # "serving",
         phase = "binding" => path = None,
         path = p => phase \in {"serving", "dropping", "crashed"}
  PROVE  SocketInv'
<1> USE DEF SocketInv
<1>1. /\ SocketTypes'
      /\ life'[p] = phase
      /\ \A q \in Sidecars \ {p} : life'[q] = life[q]
      /\ AloneInv'
  BY GoesOn DEF SocketTypes
<1>2. AloneReachable'
  BY <1>1 DEF AloneReachable, Running
<1>3. NothingLeft'
  BY <1>1, SocketAssumption DEF NothingLeft, SocketTypes
<1> QED
  BY <1>1, <1>2, <1>3

(* The steps that remove it. *)
LEMMA RemovesStep ==
  ASSUME SocketInv, NEW p \in Running, NEW phase \in Live,
         Goes(p, phase), phase # "serving", path' = None, UNCHANGED overlapped
  PROVE  SocketInv'
<1> USE DEF SocketInv
<1>1. /\ life' \in [Sidecars -> Live \cup {"off", "exited", "crashed"}]
      /\ life'[p] = phase
      /\ \A q \in Sidecars \ {p} : life'[q] = life[q]
      /\ AloneInv'
      /\ p \notin overlapped => Running = {p}
  BY GoesOn
<1>2. SocketTypes'
  BY <1>1 DEF SocketTypes
<1>3. ASSUME NEW q \in Sidecars \ overlapped, life'[q] = "serving" PROVE FALSE
  <2>1. q # p /\ life[q] = "serving"
    BY <1>1, <1>3
  <2>2. q \in Running
    BY <2>1 DEF Running, Live
  <2> QED
    BY <2>1, <2>2 DEF AloneInv
<1>4. AloneReachable' /\ NothingLeft'
  BY <1>3 DEF AloneReachable, NothingLeft
<1> QED
  BY <1>1, <1>2, <1>4

(* Binding puts the file there, or finds another and gives up. *)
LEMMA BindStep ==
  ASSUME SocketInv, NEW p \in Sidecars, Bind(p) PROVE SocketInv'
<1> USE DEF SocketInv
<1>0. p \in Running /\ life[p] = "binding"
  BY DEF Bind, Running, Live
<1>1. CASE path # None
  <2>1. Goes(p, "dropping") /\ UNCHANGED <<path, overlapped>>
    BY <1>1 DEF Bind
  <2> QED
    BY <1>0, <2>1, KeepsPathStep DEF Live
<1>2. CASE path = None
  <2>1. Goes(p, "serving") /\ path' = p /\ UNCHANGED overlapped
    BY <1>2 DEF Bind
  <2>2. /\ life' \in [Sidecars -> Live \cup {"off", "exited", "crashed"}]
        /\ life'[p] = "serving"
        /\ \A q \in Sidecars \ {p} : life'[q] = life[q]
        /\ AloneInv'
    BY <1>0, <2>1, GoesOn DEF Live
  <2>3. SocketTypes' /\ NothingLeft'
    BY <2>1, <2>2 DEF SocketTypes, NothingLeft
  <2>4. ASSUME NEW q \in Sidecars \ overlapped, q # p,
               life'[q] \in {"binding", "serving"}
        PROVE  FALSE
    <3>1. q \in Running
      BY <2>2, <2>4 DEF Running, Live
    <3> QED
      BY <1>0, <2>4, <3>1 DEF AloneInv
  <2>5. AloneReachable'
    BY <2>1, <2>2, <2>4 DEF AloneReachable
  <2> QED
    BY <2>2, <2>3, <2>5
<1> QED
  BY <1>1, <1>2

(* What concerns neither the processes nor the path. *)
LEMMA StillStep ==
  ASSUME SocketInv, UNCHANGED <<life, path, overlapped>> PROVE SocketInv'
BY DEF SocketInv, SocketTypes, AloneInv, AloneReachable, NothingLeft, Running

(* One step of a process. *)
LEMMA SidecarStep ==
  ASSUME SocketInv, NEW p \in Sidecars,
         \/ Start(p) \/ IpcTask(p) \/ Accept(p) \/ StopListening(p)
         \/ Tell(p) \/ Exit(p) \/ Crash(p)
  PROVE  SocketInv'
<1>0. path = p => life[p] \in {"serving", "dropping", "crashed"}
  BY SocketAssumption DEF SocketInv, NothingLeft
<1>1. CASE Prepare(p)
  BY <1>0, <1>1, KeepsPathStep DEF Prepare, Running, Live
<1>2. CASE Remove(p)
  BY <1>2, RemovesStep DEF Remove, Running, Live
<1>3. CASE StopListening(p)
  BY <1>3, KeepsPathStep DEF StopListening, Running, Live
<1>4. CASE DropGuard(p)
  BY <1>4, RemovesStep DEF DropGuard, Running, Live
<1>5. CASE Exit(p)
  BY <1>0, <1>5, KeepsPathStep DEF Exit, Running, Live
<1>6. CASE Crash(p)
  BY <1>6, KeepsPathStep DEF Crash
<1>7. CASE Accept(p) \/ Tell(p)
  BY <1>7, StillStep DEF Accept, Tell
<1>8. CASE Break(p)
  BY <1>3, <1>8 DEF Break
<1> QED
  BY <1>1, <1>2, <1>3, <1>4, <1>5, <1>6, <1>7, <1>8, StartStep, BindStep DEF IpcTask

(* Each step keeps the invariant. *)
LEMMA SocketStep == SocketInv /\ [SocketNext]_allVars => SocketInv'
<1> SUFFICES ASSUME SocketInv, [SocketNext]_allVars PROVE SocketInv'
  OBVIOUS
<1>1. ASSUME NEW c \in Callers, (Call(c) \/ Lock(c)) /\ UNCHANGED socketVars
      PROVE  SocketInv'
  BY <1>1, StillStep DEF socketVars
<1>2. ASSUME NEW c \in Callers, SocketClient(c) PROVE SocketInv'
  BY <1>2, StillStep DEF SocketClient, ConnectTo, socketVars
<1>3. ASSUME NEW k \in Conn, SocketServer(k) PROVE SocketInv'
  BY <1>3, StillStep DEF SocketServer, socketVars
<1>4. CASE UNCHANGED allVars
  BY <1>4, StillStep DEF allVars, socketVars
<1> QED
  BY <1>1, <1>2, <1>3, <1>4, SidecarStep DEF SocketNext

(* At first no process runs and no file is there. *)
LEMMA SocketInitInv == SocketInit => SocketInv
BY DEF SocketInit, SocketInv, SocketTypes, AloneInv, AloneReachable, NothingLeft,
       Running, Live

(* The invariant always holds. *)
LEMMA SocketInvariance == SocketSpec => []SocketInv
BY SocketInitInv, SocketStep, PTL DEF SocketSpec

(* A process that never runs beside another one binds and is reachable,    *)
(* whatever files the ones before it have left (serve_unix_socket).        *)
THEOREM Reachable == SocketSpec => []AloneReachable
<1>1. SocketInv => AloneReachable
  BY DEF SocketInv
<1> QED
  BY <1>1, SocketInvariance, PTL

(* A file at the path belongs to a listener or to a process that crashed,  *)
(* whoever removes whose (UnixSocketCleanupGuard::drop).                   *)
THEOREM NoneLeft == SocketSpec => []NothingLeft
<1>1. SocketInv => NothingLeft
  BY DEF SocketInv
<1> QED
  BY <1>1, SocketInvariance, PTL

-----------------------------------------------------------------------------
(* Tasks that end with a process or a listener are a step of LocalIpc's    *)
(* sidecar; if there are none, nothing happens to the clients.             *)
LEMMA EndTasksStep ==
  ASSUME IInv, NEW gone \in SUBSET (1..opened \ ended), EndTasks(gone)
  PROVE  [Next]_vars
<1>1. CASE gone = {}
  <2>1. UNCHANGED task
    BY <1>1 DEF EndTasks, IInv, TypeOK
  <2> QED
    BY <1>1, <2>1 DEF EndTasks, vars, serverVars
<1>2. CASE gone # {}
  BY <1>2 DEF Next, ServerExit
<1> QED
  BY <1>1, <1>2

(* A step of a process or of its clients is one of LocalIpc, or none. *)
LEMMA StepMaps == IInv /\ [SocketNext]_allVars => [Next]_vars
<1> SUFFICES ASSUME IInv, [SocketNext]_allVars PROVE [Next]_vars
  OBVIOUS
<1>1. ASSUME NEW c \in Callers, Call(c) \/ Lock(c) \/ SocketClient(c)
      PROVE  [Next]_vars
  BY <1>1 DEF SocketClient, ConnectTo, Next, Client
<1>2. ASSUME NEW k \in Conn, SocketServer(k) PROVE [Next]_vars
  BY <1>2 DEF SocketServer, Next
<1>3. ASSUME NEW p \in Sidecars,
             Start(p) \/ Prepare(p) \/ Remove(p) \/ Bind(p) \/ DropGuard(p)
                      \/ Accept(p) \/ Tell(p)
      PROVE  [Next]_vars
  BY <1>3 DEF Start, Prepare, Remove, Bind, DropGuard, Accept, Tell
<1>4. ASSUME NEW p \in Sidecars, StopListening(p) \/ Exit(p) \/ Crash(p)
      PROVE  [Next]_vars
  BY <1>4, EndTasksStep DEF StopListening, Exit, Crash, Backlog, Connections
<1>5. CASE UNCHANGED allVars
  BY <1>5 DEF allVars
<1> QED
  BY <1>1, <1>2, <1>3, <1>4, <1>5 DEF SocketNext, IpcTask, Break

(* The clients' invariant holds over any number of sidecar processes.      *)
LEMMA ClientInvariance == SocketSpec => []IInv
<1>1. SocketInit => IInv
  BY InitInv DEF SocketInit
<1>2. IInv /\ [SocketNext]_allVars => IInv'
  BY StepMaps, StepInv
<1> QED
  BY <1>1, <1>2, PTL DEF SocketSpec

(* No caller is given the response to another request, whichever process   *)
(* is at the other end.                                                    *)
THEOREM SocketResponseIsOwn == SocketSpec => []OwnResponse
<1>1. IInv => OwnResponse
  BY DEF IInv
<1> QED
  BY <1>1, ClientInvariance, PTL

(* No request is processed twice, nor a used stream put back, over any     *)
(* number of processes that take each other's place.                       *)
THEOREM SocketProcessedOnce == SocketSpec => [](AtMostOnce /\ ReusedStreamClean)
<1>1. SocketInit => OnceInv
  BY InitOnce DEF SocketInit
<1>2. OnceInv /\ IInv /\ [SocketNext]_allVars => OnceInv'
  BY StepMaps, StepOnce
<1>3. OnceInv /\ IInv => AtMostOnce /\ ReusedStreamClean
  BY IpcAssumption DEF OnceInv, IInv, OneAtATime, ReusedStreamClean, Empty
<1> QED
  BY <1>1, <1>2, <1>3, ClientInvariance, PTL DEF SocketSpec
=============================================================================
