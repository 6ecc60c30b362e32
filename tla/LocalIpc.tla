------------------------------ MODULE LocalIpc ------------------------------
(***************************************************************************)
(* LocalIpcSeamlessM4tTransport (vona-transport-local/src/lib.rs) and the  *)
(* connection loop of serve_unix_socket (vona-sidecar/src/main.rs).  The   *)
(* clones of one transport, one per caller here, share one stream behind a *)
(* mutex.  A frame carries no request identifier: which request a response *)
(* answers follows from the order on the stream alone.                     *)
(*                                                                         *)
(* A future of step is not dropped halfway; see the README.  Which sidecar *)
(* is at the other end, and when, is a matter of SidecarSocket.            *)
(***************************************************************************)
EXTENDS Naturals, Sequences

CONSTANTS
  Callers,    \* the clones of the transport
  MaxSteps,   \* bounds the requests of one caller
  MaxConns,   \* bounds the connections ever opened
  None        \* neither a caller nor a request

ASSUME IpcAssumption ==
  /\ MaxSteps \in Nat
  /\ MaxConns \in Nat
  /\ None \notin Callers \cup (Callers \X (1..MaxSteps))

Request == Callers \X (1..MaxSteps)
Reply   == [to : Request, envelope : {"response", "error"}]
Conn    == 1..MaxConns

VARIABLES
  caller,    \* the await of step each caller is at
  steps,     \* the number of each caller's latest request
  result,    \* the request whose response the latest call returned, or None
  guard,     \* the holder of the mutex, or None
  stream,    \* the connection in the Option, or 0
  opened,    \* connections opened so far
  sent,      \* request frames the server has not read, per connection
  task,      \* the request each connection's task is processing, or None
  replies,   \* response frames the client has not read, per connection
  dropped,   \* connections the client has dropped
  ended      \* connections whose task has ended

VARIABLE processed  \* history: how often each request was processed

clientVars == <<caller, steps, result, guard, stream, opened, dropped>>
serverVars == <<task, ended, processed>>
vars       == <<clientVars, serverVars, sent, replies>>

TypeOK ==
  /\ caller \in [Callers -> {"idle", "locking", "connecting", "writing", "reading"}]
  /\ steps \in [Callers -> 0..MaxSteps]
  /\ result \in [Callers -> Request \cup {None}]
  /\ guard \in Callers \cup {None}
  /\ opened \in 0..MaxConns
  /\ stream \in 0..opened
  /\ sent \in [Conn -> Seq(Request)]
  /\ task \in [Conn -> Request \cup {None}]
  /\ replies \in [Conn -> Seq(Reply)]
  /\ dropped \subseteq Conn
  /\ ended \subseteq Conn
  /\ processed \in [Request -> Nat]

Init ==
  /\ caller = [c \in Callers |-> "idle"]
  /\ steps = [c \in Callers |-> 0]
  /\ result = [c \in Callers |-> None]
  /\ guard = None
  /\ stream = 0
  /\ opened = 0
  /\ sent = [k \in Conn |-> <<>>]
  /\ task = [k \in Conn |-> None]
  /\ replies = [k \in Conn |-> <<>>]
  /\ dropped = {}
  /\ ended = {}
  /\ processed = [r \in Request |-> 0]

-----------------------------------------------------------------------------
Call(c) ==
  /\ caller[c] = "idle"
  /\ steps[c] < MaxSteps
  /\ caller' = [caller EXCEPT ![c] = "locking"]
  /\ steps' = [steps EXCEPT ![c] = @ + 1]
  /\ UNCHANGED <<result, guard, stream, opened, dropped, serverVars, sent, replies>>

Lock(c) ==
  /\ caller[c] = "locking"
  /\ guard = None
  /\ guard' = c
  /\ caller' = [caller EXCEPT ![c] = IF stream = 0 THEN "connecting" ELSE "writing"]
  /\ UNCHANGED <<steps, result, stream, opened, dropped, serverVars, sent, replies>>

Connect(c) ==
  /\ caller[c] = "connecting"
  /\ opened < MaxConns
  /\ opened' = opened + 1
  /\ stream' = opened + 1
  /\ caller' = [caller EXCEPT ![c] = "writing"]
  /\ UNCHANGED <<steps, result, guard, dropped, serverVars, sent, replies>>

(* Mutant: the mutex is not released with the call. *)
ReturnHeld(c, r) ==
  /\ caller' = [caller EXCEPT ![c] = "idle"]
  /\ result' = [result EXCEPT ![c] = r]
  /\ UNCHANGED <<steps, opened, guard>>

Return(c, r) ==
  /\ caller' = [caller EXCEPT ![c] = "idle"]
  /\ result' = [result EXCEPT ![c] = r]
  /\ guard' = None
  /\ UNCHANGED <<steps, opened>>

(* Mutants: an error leaves the stream in place; a lost response is asked  *)
(* for again on a new connection.                                          *)
FailKeepsStream(c) ==
  /\ Return(c, None)
  /\ UNCHANGED <<stream, dropped>>
FailRetries(c) ==
  /\ caller' = [caller EXCEPT ![c] = "connecting"]
  /\ stream' = 0
  /\ dropped' = dropped \cup {stream}
  /\ UNCHANGED <<steps, result, guard, opened>>

(* Any error after the connection is there drops it: *guard = None.        *)
Fail(c) ==
  /\ Return(c, None)
  /\ stream' = 0
  /\ dropped' = dropped \cup {stream}

(* Refused, or connect_timeout_ms elapsed. *)
ConnectFails(c) ==
  /\ caller[c] = "connecting"
  /\ Return(c, None)
  /\ UNCHANGED <<stream, dropped, serverVars, sent, replies>>

Write(c) ==
  /\ caller[c] = "writing"
  /\ stream \notin ended
  /\ sent' = [sent EXCEPT ![stream] = Append(@, <<c, steps[c]>>)]
  /\ caller' = [caller EXCEPT ![c] = "reading"]
  /\ UNCHANGED <<steps, result, guard, stream, opened, dropped, serverVars, replies>>

(* A closed peer, or a frame over MAX_FRAME_BYTES: nothing is written. *)
WriteFails(c) ==
  /\ caller[c] = "writing"
  /\ Fail(c)
  /\ UNCHANGED <<serverVars, sent, replies>>

Read(c) ==
  /\ caller[c] = "reading"
  /\ replies[stream] # <<>>
  /\ replies' = [replies EXCEPT ![stream] = Tail(@)]
  /\ \/ /\ Head(replies[stream]).envelope = "response"
        /\ Return(c, Head(replies[stream]).to)
        /\ UNCHANGED <<stream, dropped>>
     \/ /\ Head(replies[stream]).envelope = "error"
        /\ Fail(c)
  /\ UNCHANGED <<serverVars, sent>>

(* Mutant: the read gives up after a while, outside the block whose error  *)
(* drops the stream.                                                       *)
ReadTimesOut(c) ==
  /\ caller[c] = "reading"
  /\ Return(c, None)
  /\ UNCHANGED <<stream, dropped, serverVars, sent, replies>>

ReadEof(c) ==
  /\ caller[c] = "reading"
  /\ replies[stream] = <<>>
  /\ stream \in ended
  /\ Fail(c)
  /\ UNCHANGED <<serverVars, sent, replies>>

-----------------------------------------------------------------------------
ServerRead(k) ==
  /\ k \in 1..opened \ ended
  /\ task[k] = None
  /\ sent[k] # <<>>
  /\ task' = [task EXCEPT ![k] = Head(sent[k])]
  /\ sent' = [sent EXCEPT ![k] = Tail(@)]
  /\ UNCHANGED <<clientVars, ended, processed, replies>>

(* The client has gone, or its bytes are no frame. *)
ServerEof(k) ==
  /\ k \in (1..opened \cap dropped) \ ended
  /\ task[k] = None
  /\ sent[k] = <<>>
  /\ ended' = ended \cup {k}
  /\ UNCHANGED <<clientVars, task, processed, sent, replies>>

(* process_step_request has returned; the response frame is written, or    *)
(* the write fails (the client has gone, the frame is too large) and the   *)
(* task ends.                                                              *)
ServerReply(k) ==
  /\ k \in 1..opened \ ended
  /\ task[k] # None
  /\ processed' = [processed EXCEPT ![task[k]] = @ + 1]
  /\ task' = [task EXCEPT ![k] = None]
  /\ \/ /\ k \notin dropped
        /\ \E e \in {"response", "error"} :
             replies' = [replies EXCEPT ![k] = Append(@, [to |-> task[k], envelope |-> e])]
        /\ UNCHANGED ended
     \/ /\ ended' = ended \cup {k}
        /\ UNCHANGED replies
  /\ UNCHANGED <<clientVars, sent>>

(* The process that serves these connections exits, or its listener does   *)
(* before it has accepted them: every task ends where it is.               *)
EndTasks(gone) ==
  /\ ended' = ended \cup gone
  /\ task' = [k \in Conn |-> IF k \in gone THEN None ELSE task[k]]
  /\ UNCHANGED <<clientVars, processed, sent, replies>>

ServerExit ==
  \E gone \in SUBSET (1..opened \ ended) : gone # {} /\ EndTasks(gone)

-----------------------------------------------------------------------------
Client(c) == \/ Connect(c) \/ ConnectFails(c) \/ Write(c) \/ WriteFails(c)
             \/ Read(c) \/ ReadEof(c)

Server(k) == ServerRead(k) \/ ServerEof(k) \/ ServerReply(k)

Next ==
  \/ \E c \in Callers : Call(c) \/ Lock(c) \/ Client(c)
  \/ \E k \in Conn : Server(k)
  \/ ServerExit

(* tokio's mutex is first come, first served: no waiter is overtaken for   *)
(* ever.  The sidecar answers what it reads: step has no read timeout.     *)
Spec ==
  /\ Init
  /\ [][Next]_vars
  /\ \A c \in Callers : SF_vars(Lock(c)) /\ WF_vars(Client(c))
  /\ \A k \in Conn : WF_vars(Server(k))

-----------------------------------------------------------------------------
(* A caller is given the response to its own latest request, never one     *)
(* that another caller, or its own failed request, left on the stream.     *)
OwnResponse ==
  \A c \in Callers : result[c] # None /\ caller[c] = "idle" =>
    result[c] = <<c, steps[c]>>

(* No request reaches the backend twice, whatever connections fail. *)
AtMostOnce == \A r \in Request : processed[r] <= 1

(* A stream that is put back for the next caller has nothing in flight. *)
ReusedStreamClean ==
  guard = None /\ stream # 0 =>
    sent[stream] = <<>> /\ replies[stream] = <<>> /\ task[stream] = None

(* Every call returns, even behind other callers and failing connections.  *)
CallReturns ==
  \A c \in Callers : caller[c] = "locking" ~> caller[c] = "idle"
=============================================================================
