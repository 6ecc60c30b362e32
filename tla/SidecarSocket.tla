--------------------------- MODULE SidecarSocket ---------------------------
(***************************************************************************)
(* The Unix socket of vona-sidecar (src/main.rs: main, serve_unix_socket,  *)
(* UnixSocketCleanupGuard) under the clients of LocalIpc: sidecar processes*)
(* that start, stop, crash and are replaced, all at one path.  A process   *)
(* removes the file it finds at the path before it binds, and its guard    *)
(* removes the file that is there when the listener ends, whoever has      *)
(* bound it.                                                               *)
(***************************************************************************)
EXTENDS LocalIpc, FiniteSets

CONSTANT Sidecars  \* the processes; one that is restarted is another process

ASSUME SocketAssumption == None \notin Sidecars

VARIABLES
  life,      \* where each process, or its IPC task, is
  told,      \* processes whose watch channel says to shut down
  path,      \* who has bound the file at the path, or None
  owner,     \* the process each connection was made to
  accepted   \* connections taken from the backlog of a listener

VARIABLE overlapped  \* history: processes that have run beside another one

socketVars == <<life, told, path, owner, accepted, overlapped>>
allVars    == <<vars, socketVars>>

(* Without a listener, "deaf", or when the listener has ended, "closed",   *)
(* the process still serves HTTP and the connections it has accepted.      *)
Live == {"preparing", "removing", "binding", "serving", "dropping", "deaf", "closed"}

SocketTypeOK ==
  /\ TypeOK
  /\ life \in [Sidecars -> Live \cup {"off", "exited", "crashed"}]
  /\ told \subseteq Sidecars
  /\ path \in Sidecars \cup {None}
  /\ owner \in [Conn -> Sidecars \cup {None}]
  /\ accepted \subseteq 1..opened
  /\ overlapped \subseteq Sidecars

SocketInit ==
  /\ Init
  /\ life = [p \in Sidecars |-> "off"]
  /\ told = {}
  /\ path = None
  /\ owner = [k \in Conn |-> None]
  /\ accepted = {}
  /\ overlapped = {}

Running == {p \in Sidecars : life[p] \in Live}
Goes(p, phase) == life' = [life EXCEPT ![p] = phase]

-----------------------------------------------------------------------------
(* main: the HTTP address is bound before the IPC task is spawned, so that *)
(* a process with the address of one that still listens to it ends here.   *)
Start(p) ==
  /\ life[p] = "off"
  /\ \/ /\ Goes(p, "preparing")
        /\ overlapped' = IF Running = {} THEN overlapped ELSE overlapped \cup Running \cup {p}
     \/ /\ Running \ told # {}
        /\ Goes(p, "exited")
        /\ UNCHANGED overlapped
  /\ UNCHANGED <<vars, told, path, owner, accepted>>

(* Mutant: nothing is removed before the socket is bound. *)
PrepareKeeps(p) ==
  /\ life[p] = "preparing"
  /\ Goes(p, "binding") \/ Goes(p, "deaf")
  /\ UNCHANGED <<vars, told, path, owner, accepted, overlapped>>

(* serve_unix_socket: the directory may not be made. *)
Prepare(p) ==
  /\ life[p] = "preparing"
  /\ Goes(p, IF path = None THEN "binding" ELSE "removing") \/ Goes(p, "deaf")
  /\ UNCHANGED <<vars, told, path, owner, accepted, overlapped>>

(* The file may be gone already, which is an error. *)
Remove(p) ==
  /\ life[p] = "removing"
  /\ path' = None
  /\ Goes(p, IF path = None THEN "deaf" ELSE "binding")
  /\ UNCHANGED <<vars, told, owner, accepted, overlapped>>

(* From here on the guard is there. *)
Bind(p) ==
  /\ life[p] = "binding"
  /\ path' = IF path = None THEN p ELSE path
  /\ Goes(p, IF path = None THEN "serving" ELSE "dropping")
  /\ UNCHANGED <<vars, told, owner, accepted, overlapped>>

(* Connections of p; Backlog has those that p has not accepted. *)
Connections(p) == {k \in 1..opened \ ended : owner[k] = p}
Backlog(p)     == Connections(p) \ accepted

Accept(p) ==
  /\ life[p] = "serving"
  /\ \E k \in Backlog(p) : accepted' = accepted \cup {k}
  /\ UNCHANGED <<vars, life, told, path, owner, overlapped>>

(* select! takes the change of the watch channel, or accept fails.  The    *)
(* listener is dropped before the guard, and its backlog with it; the      *)
(* tasks of the connections go on.                                         *)
StopListening(p) ==
  /\ life[p] = "serving"
  /\ Goes(p, "dropping")
  /\ EndTasks(Backlog(p))
  /\ UNCHANGED <<told, path, owner, accepted, overlapped>>

Break(p) == p \in told /\ StopListening(p)

(* Mutant: the guard was dropped when it was made. *)
DropGuardEarly(p) ==
  /\ life[p] = "dropping"
  /\ Goes(p, IF p \in told THEN "closed" ELSE "deaf")
  /\ UNCHANGED <<vars, told, path, owner, accepted, overlapped>>

(* UnixSocketCleanupGuard::drop. *)
DropGuard(p) ==
  /\ life[p] = "dropping"
  /\ path' = None
  /\ Goes(p, IF p \in told THEN "closed" ELSE "deaf")
  /\ UNCHANGED <<vars, told, owner, accepted, overlapped>>

(* axum::serve has returned, after a signal; nothing bounds how long that  *)
(* takes.                                                                  *)
Tell(p) ==
  /\ p \in Running \ told
  /\ told' = told \cup {p}
  /\ UNCHANGED <<vars, life, path, owner, accepted, overlapped>>

(* Mutant: the tasks of the connections are joined too. *)
ExitJoins(p) ==
  /\ p \in told
  /\ life[p] \in {"deaf", "closed"}
  /\ Connections(p) = {}
  /\ Goes(p, "exited")
  /\ UNCHANGED <<vars, told, path, owner, accepted, overlapped>>

(* The IPC task is joined, and main returns: what the tasks of connections *)
(* are doing is cut off.                                                   *)
Exit(p) ==
  /\ p \in told
  /\ life[p] \in {"deaf", "closed"}
  /\ Goes(p, "exited")
  /\ EndTasks(Connections(p))
  /\ UNCHANGED <<told, path, owner, accepted, overlapped>>

(* The file stays where it is. *)
Crash(p) ==
  /\ p \in Running
  /\ Goes(p, "crashed")
  /\ EndTasks(Connections(p))
  /\ UNCHANGED <<told, path, owner, accepted, overlapped>>

-----------------------------------------------------------------------------
(* A client reaches whoever has bound the file that is at the path now. *)
ConnectTo(c) ==
  /\ path # None
  /\ life[path] = "serving"
  /\ Connect(c)
  /\ owner' = [owner EXCEPT ![opened'] = path]
  /\ UNCHANGED <<life, told, path, accepted, overlapped>>

SocketClient(c) ==
  \/ ConnectTo(c)
  \/ /\ \/ ConnectFails(c) \/ Write(c) \/ WriteFails(c) \/ Read(c) \/ ReadEof(c)
     /\ UNCHANGED socketVars

SocketServer(k) == k \in accepted /\ Server(k) /\ UNCHANGED socketVars

IpcTask(p) == Prepare(p) \/ Remove(p) \/ Bind(p) \/ Break(p) \/ DropGuard(p)

SocketNext ==
  \/ \E c \in Callers : \/ (Call(c) \/ Lock(c)) /\ UNCHANGED socketVars
                        \/ SocketClient(c)
  \/ \E k \in Conn : SocketServer(k)
  \/ \E p \in Sidecars : \/ Start(p) \/ IpcTask(p) \/ Accept(p) \/ StopListening(p)
                         \/ Tell(p) \/ Exit(p) \/ Crash(p)

(* select! takes its ready branches in a random order, so that neither a   *)
(* client nor the change of the watch channel waits for ever.              *)
SocketSpec ==
  /\ SocketInit
  /\ [][SocketNext]_allVars
  /\ \A c \in Callers : SF_allVars(Lock(c) /\ UNCHANGED socketVars) /\ WF_allVars(SocketClient(c))
  /\ \A k \in Conn : WF_allVars(SocketServer(k))
  /\ \A p \in Sidecars : WF_allVars(IpcTask(p)) /\ WF_allVars(Accept(p)) /\ WF_allVars(Exit(p))

-----------------------------------------------------------------------------
(* A process that never runs beside another one finds no file in its way   *)
(* when it binds, whatever the ones before it have left, and while it      *)
(* listens clients reach it.  Beside another one neither holds: a process  *)
(* removes the socket of the one before it, whose guard then removes the   *)
(* new one (serve_unix_socket, UnixSocketCleanupGuard).                    *)
AloneReachable ==
  \A p \in Sidecars \ overlapped :
    /\ life[p] = "binding" => path = None
    /\ life[p] = "serving" => path = p

(* However many processes overlap and take the file from each other, one   *)
(* that is left at the path belongs to a listener, or to a process that    *)
(* crashed: the last to bind it removes it (UnixSocketCleanupGuard::drop). *)
NothingLeft ==
  path # None => life[path] \in {"serving", "dropping", "crashed"}

(* A process that is told to shut down ends, whatever its IPC task is at   *)
(* and whatever connections clients keep open (main: handle.await).        *)
ShutdownEnds ==
  \A p \in Sidecars : p \in told ~> life[p] \in {"exited", "crashed"}
=============================================================================
