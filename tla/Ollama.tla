------------------------------- MODULE Ollama -------------------------------
(***************************************************************************)
(* OllamaTextEngine (vona-ollama/src/lib.rs).  Each generation is a task   *)
(* that reads the lines of an HTTP body and sends what they say into a     *)
(* bounded channel.  A realtime session, or the caller of generate_text,   *)
(* holds the receiver of the latest generation only.                       *)
(*                                                                         *)
(* A line of the body arrives in three pieces, so that a chunk may end     *)
(* inside it: two halves and a newline.  The halves of a "wide" line meet  *)
(* inside a character.  `buffered' is what has arrived of the lines after  *)
(* the last one handled.                                                   *)
(***************************************************************************)
EXTENDS Naturals, Sequences, SequencesExt

CONSTANTS
  Bodies,    \* the bodies Ollama may answer with: sequences of Kind
  Capacity,  \* of the channel
  MaxGens    \* bounds the generations ever started

Kind == {"token", "wide", "last", "done", "blank", "error", "malformed"}

ASSUME OllamaAssumption ==
  /\ Bodies \subseteq Seq(Kind)
  /\ Capacity \in Nat \ {0}
  /\ MaxGens \in Nat

Gen == 1..MaxGens

VARIABLES
  api,       \* the realtime session, or generate_text
  prompted,  \* pending_prompt is set
  rx,        \* the generation whose receiver is held, or 0
  started,   \* generations spawned so far
  task,      \* where each generation's task is
  body,      \* the lines it is answered with
  arrived,   \* the pieces of the body that have arrived
  handled,   \* the lines handled
  garbled,   \* the wide lines decoded in two pieces
  output,    \* what the task is about to send
  channel    \* what it has sent and nobody has received

VARIABLE reply  \* history: what the caller has received of the latest generation

sessionVars == <<api, prompted, rx, started>>
streamVars  == <<task, body, arrived, handled, garbled, output>>
ollamaVars  == <<sessionVars, streamVars, channel, reply>>

Item == [line : Nat, says : {"text", "garbled", "completed", "final", "failure"}]

OllamaTypeOK ==
  /\ api \in {"realtime", "text"}
  /\ prompted \in BOOLEAN
  /\ rx \in 0..started
  /\ started \in 0..MaxGens
  /\ task \in [Gen -> {"none", "requesting", "reading", "ending", "ended"}]
  /\ body \in [Gen -> Bodies \cup {<<>>}]
  /\ arrived \in [Gen -> Nat] /\ handled \in [Gen -> Nat]
  /\ garbled \in [Gen -> SUBSET Nat]
  /\ output \in [Gen -> Seq(Item)] /\ channel \in [Gen -> Seq(Item)]
  /\ \A g \in Gen :
       /\ arrived[g] <= 3 * Len(body[g])
       /\ handled[g] <= Len(body[g])
       /\ garbled[g] \subseteq DOMAIN body[g]
       /\ Len(channel[g]) <= Capacity
  /\ reply \in Seq(Item)

OllamaInit ==
  /\ api \in {"realtime", "text"}
  /\ prompted = FALSE
  /\ rx = 0
  /\ started = 0
  /\ task = [g \in Gen |-> "none"]
  /\ body = [g \in Gen |-> <<>>]
  /\ arrived = [g \in Gen |-> 0]
  /\ handled = [g \in Gen |-> 0]
  /\ garbled = [g \in Gen |-> {}]
  /\ output = [g \in Gen |-> <<>>]
  /\ channel = [g \in Gen |-> <<>>]
  /\ reply = <<>>

-----------------------------------------------------------------------------
(* What is in the channel goes with its receiver. *)
Hold(g) ==
  /\ rx' = g
  /\ channel' = [c \in Gen |-> IF c = rx THEN <<>> ELSE channel[c]]

Spawn ==
  /\ started < MaxGens
  /\ started' = started + 1
  /\ Hold(started')
  /\ task' = [task EXCEPT ![started'] = "requesting"]
  /\ reply' = <<>>
  /\ UNCHANGED <<api, body, arrived, handled, garbled, output>>

(* Text input starts a generation right away. *)
Text ==
  /\ api = "realtime"
  /\ prompted' = TRUE
  /\ Spawn

(* StartResponse generates again from the last prompt, and is an error     *)
(* without one.                                                            *)
StartResponse ==
  /\ api = "realtime"
  /\ prompted
  /\ UNCHANGED prompted
  /\ Spawn

GenerateText ==
  /\ api = "text"
  /\ UNCHANGED prompted
  /\ Spawn

(* Close, close_realtime_session, or the TokenStream is dropped. *)
CloseSession ==
  /\ rx # 0
  /\ Hold(0)
  /\ UNCHANGED <<api, prompted, started, streamVars, reply>>

(* An error leaves the receiver in the session. *)
RecvItem ==
  /\ rx # 0
  /\ channel[rx] # <<>>
  /\ reply' = Append(reply, Head(channel[rx]))
  /\ channel' = [channel EXCEPT ![rx] = Tail(@)]
  /\ UNCHANGED <<sessionVars, streamVars>>

RecvNone ==
  /\ rx # 0
  /\ channel[rx] = <<>>
  /\ task[rx] = "ended"
  /\ rx' = 0
  /\ UNCHANGED <<api, prompted, started, streamVars, channel, reply>>

Recv == RecvItem \/ RecvNone

-----------------------------------------------------------------------------
(* The items of a line whose text reads as `text'. *)
ItemsOf(g, line, text) ==
  LET item(says) == [line |-> line, says |-> says]
  IN CASE body[g][line] \in {"token", "wide"} -> <<item(text)>>
       [] body[g][line] = "blank"  -> <<>>
       [] body[g][line] = "done"   ->
            <<item(IF api = "realtime" THEN "completed" ELSE "final")>>
       [] body[g][line] = "last"   ->
            IF api = "realtime" THEN <<item(text), item("completed")>> ELSE <<item("final")>>
       [] OTHER -> <<item("failure")>>

(* The line as its chunks were decoded. *)
Says(g, line) == ItemsOf(g, line, IF line \in garbled[g] THEN "garbled" ELSE "text")

Fails(g, line) == body[g][line] \in {"error", "malformed"}

(* Mutant: a failure is sent and reading goes on. *)
HandleOn(g, line, next) ==
  /\ handled' = [handled EXCEPT ![g] = line]
  /\ output' = [output EXCEPT ![g] = Says(g, line)]
  /\ task' = [task EXCEPT ![g] = next]

(* What the line says is to be sent, and then the task goes on at `next'.  *)
Handle(g, line, next) ==
  /\ handled' = [handled EXCEPT ![g] = line]
  /\ output' = [output EXCEPT ![g] = Says(g, line)]
  /\ task' = [task EXCEPT ![g] = IF Fails(g, line) THEN "ending" ELSE next]

(* The request, a chunk or a line that is cut short fails. *)
Fail(g) ==
  /\ output' = [output EXCEPT ![g] = <<[line |-> handled[g] + 1, says |-> "failure"]>>]
  /\ task' = [task EXCEPT ![g] = "ending"]
  /\ UNCHANGED handled

(* Ollama answers the request, or it fails, or its status is an error. *)
Answered(g) ==
  /\ task[g] = "requesting"
  /\ \/ /\ body' \in {[body EXCEPT ![g] = b] : b \in Bodies}
        /\ task' = [task EXCEPT ![g] = "reading"]
        /\ UNCHANGED <<handled, output>>
     \/ /\ Fail(g)
        /\ UNCHANGED body
  /\ UNCHANGED <<sessionVars, arrived, garbled, channel, reply>>

LineComplete(g) == 3 * (handled[g] + 1) <= arrived[g]

(* The task is at stream.next().await. *)
Awaiting(g) == task[g] = "reading" /\ output[g] = <<>> /\ ~LineComplete(g)

(* A chunk is decoded by itself, wherever it ends. *)
Chunk(g) ==
  /\ Awaiting(g)
  /\ \E n \in arrived[g] + 1 .. 3 * Len(body[g]) :
       /\ arrived' = [arrived EXCEPT ![g] = n]
       /\ garbled' = [garbled EXCEPT ![g] =
            @ \cup {i \in DOMAIN body[g] : body[g][i] = "wide" /\ n = 3 * i - 2}]
  /\ UNCHANGED <<sessionVars, task, body, handled, output, channel, reply>>

HandleLine(g) ==
  /\ task[g] = "reading"
  /\ output[g] = <<>>
  /\ LineComplete(g)
  /\ Handle(g, handled[g] + 1, "reading")
  /\ UNCHANGED <<sessionVars, body, arrived, garbled, channel, reply>>

(* The connection closes or breaks.  A rest without its newline is a line. *)
StreamEnds(g) ==
  /\ Awaiting(g)
  /\ LET rest == arrived[g] - 3 * handled[g]
     IN \/ Fail(g)
        \/ /\ rest = 0
           /\ task' = [task EXCEPT ![g] = "ending"]
           /\ UNCHANGED <<handled, output>>
        \/ /\ rest = 2 \/ (rest = 1 /\ body[g][handled[g] + 1] = "blank")
           /\ Handle(g, handled[g] + 1, "ending")
  /\ UNCHANGED <<sessionVars, body, arrived, garbled, channel, reply>>

(* Mutant: the task waits for room even when nobody will make any. *)
SendWaits(g) ==
  /\ output[g] # <<>>
  /\ Len(channel[g]) < Capacity
  /\ channel' = [channel EXCEPT ![g] = Append(@, Head(output[g]))]
  /\ output' = [output EXCEPT ![g] = Tail(@)]
  /\ UNCHANGED <<sessionVars, task, body, arrived, handled, garbled, reply>>
(* tx.send waits for room; once the receiver is gone it fails, and that is *)
(* ignored.                                                                *)
Send(g) ==
  /\ output[g] # <<>>
  /\ \/ /\ rx # g
        /\ UNCHANGED channel
     \/ /\ rx = g
        /\ Len(channel[g]) < Capacity
        /\ channel' = [channel EXCEPT ![g] = Append(@, Head(output[g]))]
  /\ output' = [output EXCEPT ![g] = Tail(@)]
  /\ UNCHANGED <<sessionVars, task, body, arrived, handled, garbled, reply>>

(* Mutant: a sender is kept. *)
TaskEndsNever(g) == FALSE /\ UNCHANGED ollamaVars

TaskEnds(g) ==
  /\ task[g] = "ending"
  /\ output[g] = <<>>
  /\ task' = [task EXCEPT ![g] = "ended"]
  /\ UNCHANGED <<sessionVars, body, arrived, handled, garbled, output, channel, reply>>

-----------------------------------------------------------------------------
Ollama(g) == Answered(g) \/ Chunk(g) \/ StreamEnds(g)
Task(g)   == HandleLine(g) \/ Send(g) \/ TaskEnds(g)

OllamaNext ==
  \/ Text \/ StartResponse \/ GenerateText \/ CloseSession \/ Recv
  \/ \E g \in Gen : Ollama(g) \/ Task(g)

(* The client has no time-out: that Ollama answers and that its body ends  *)
(* is assumed.  The caller need not receive.                               *)
OllamaSpec ==
  /\ OllamaInit
  /\ [][OllamaNext]_ollamaVars
  /\ \A g \in Gen : WF_ollamaVars(Ollama(g)) /\ WF_ollamaVars(Task(g))

-----------------------------------------------------------------------------
(* What Ollama says in a body, however it is cut into chunks. *)
Meaning(g) == FlattenSeq([line \in DOMAIN body[g] |-> ItemsOf(g, line, "text")])

IsFailure(item) == item.says = "failure"

(* An item reads as it is meant, but for the text of a line in which a     *)
(* chunk has ended inside a character.                                     *)
ReadsAs(item, meant, split) ==
  \/ item = meant
  \/ /\ meant.says = "text" /\ meant.line \in split
     /\ item = [meant EXCEPT !.says = "garbled"]

(* However full its channel, whatever fails and whoever else is streaming, *)
(* what the caller hears of a body is what Ollama says in it, in order and *)
(* once, up to a first failure that is the last thing it hears; except     *)
(* that a character which a chunk has split reads as something else, as    *)
(* each chunk is decoded by itself.                                        *)
ReplyInOrder ==
  started > 0 =>
    LET said  == IF reply # <<>> /\ IsFailure(Last(reply)) THEN Front(reply) ELSE reply
        meant == Meaning(started)
    IN  /\ Len(said) <= Len(meant)
        /\ \A i \in DOMAIN said :
             ReadsAs(said[i], meant[i], garbled[started]) /\ ~IsFailure(said[i])

(* A caller that goes on receiving comes to the end of the reply, unless   *)
(* it asks for another or closes.                                          *)
ReplyEnds == WF_ollamaVars(Recv) => \A g \in Gen : rx = g ~> rx # g

(* The task of a reply nobody receives any more does not stay in the       *)
(* channel for ever.                                                       *)
AbandonedEnds ==
  \A g \in Gen : task[g] # "none" /\ rx # g ~> task[g] = "ended"
=============================================================================
