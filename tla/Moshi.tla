-------------------------------- MODULE Moshi --------------------------------
(***************************************************************************)
(* MoshiBackend (vona-moshi/src/backend.rs): one session over a WebSocket  *)
(* to a Moshi server, driven as run_session drives a backend.  Three tasks *)
(* share the work: the caller's step encodes and sends, recv_task sorts    *)
(* what the server sends, decode_task turns its audio into samples.  They  *)
(* meet in a pipe and two bounded channels.                                *)
(*                                                                         *)
(* A number stands for a message of the server, by its place in the order  *)
(* they were received in.  Each audio message is one packet.  Samples are  *)
(* counted after mix_to_mono and resample_mono.                            *)
(***************************************************************************)
EXTENDS Naturals, Sequences, SequencesExt

CONSTANTS
  FrameSize,     \* OPUS_FRAME_SAMPLES
  AudioCap,      \* the capacity of audio_tx
  TextCap,       \* the capacity of text_tx
  PipeCap,       \* the packets the pipe between the tasks holds
  UplinkCap,     \* the messages the socket buffers towards the server
  Inputs,        \* the numbers of samples in an input frame
  MaxSamples,    \* bounds the samples ever given to step
  MaxMessages    \* bounds the audio and text messages of the server

ASSUME MoshiAssumption ==
  /\ FrameSize \in Nat \ {0}
  /\ {AudioCap, TextCap, PipeCap, UplinkCap} \subseteq Nat \ {0}
  /\ Inputs \subseteq Nat
  /\ MaxSamples \in Nat
  /\ MaxMessages \in Nat

Message == 1..MaxMessages

VARIABLES
  at,       \* the await of the caller
  uplink,   \* the messages sent to the server and not read by it
  pending,  \* pcm_pending.len()
  total,    \* total_samples
  recv,     \* recv_task
  decode,   \* decode_task
  inHand,   \* the message recv_task is about to pass on, or 0
  decoded,  \* the packet whose samples decode_task is about to pass on, or 0
  pipe,     \* the packets in the pipe
  audioCh,  \* the channel of audio_rx
  textCh,   \* the channel of text_rx
  heard,    \* AudioOutputFrame::sequence and packet of each frame step returned
  said      \* the text fragments step returned

VARIABLES   \* history
  received, \* audio and text messages read from the socket
  audio,    \* those of them that are audio and were not skipped
  text,     \* those of them that are text
  given     \* samples given to step

callerVars  == <<at, uplink, pending, total, heard, said, given>>
taskVars    == <<recv, decode, inHand, decoded, pipe>>
historyVars == <<received, audio, text>>
vars        == <<callerVars, taskVars, audioCh, textCh, historyVars>>

Awaits == {"connecting", "handshake", "heading", "failed", "open", "encoding",
           "sending", "audio", "text", "ending", "closing", "ended"}

TypeOK ==
  /\ at \in Awaits
  /\ uplink \in 0..UplinkCap
  /\ pending \in 0..MaxSamples
  /\ total \in 0..MaxSamples
  /\ recv \in {"none", "reading", "piping", "texting", "ended"}
  /\ decode \in {"none", "reading", "sending", "ended"}
  /\ inHand \in Message \cup {0}
  /\ decoded \in Message \cup {0}
  /\ pipe \in Seq(Message) /\ Len(pipe) <= PipeCap
  /\ audioCh \in Seq(Message) /\ Len(audioCh) <= AudioCap
  /\ textCh \in Seq(Message) /\ Len(textCh) <= TextCap
  /\ heard \in Seq([sequence : Nat, packet : Message])
  /\ said \in Seq(Message)
  /\ received \in 0..MaxMessages
  /\ audio \in Seq(Message)
  /\ text \in Seq(Message)
  /\ given \in 0..MaxSamples

Init ==
  /\ at = "connecting"
  /\ uplink = 0
  /\ pending = 0
  /\ total = 0
  /\ recv = "none"
  /\ decode = "none"
  /\ inHand = 0
  /\ decoded = 0
  /\ pipe = <<>>
  /\ audioCh = <<>>
  /\ textCh = <<>>
  /\ heard = <<>>
  /\ said = <<>>
  /\ received = 0
  /\ audio = <<>>
  /\ text = <<>>
  /\ given = 0

-----------------------------------------------------------------------------
(* Whoever sends waits for room in the socket, or is told that it is gone. *)
Sends == uplink < UplinkCap /\ uplink' = uplink + 1

Goto(await) ==
  /\ at' = await
  /\ UNCHANGED <<pending, total, heard, said, given>>

(* start_session: the socket, and the answer to the server's handshake.    *)
(* What comes before it is ignored.                                        *)
Connect ==
  /\ at = "connecting"
  /\ Goto("handshake") \/ Goto("failed")
  /\ UNCHANGED <<uplink, taskVars, audioCh, textCh, historyVars>>

(* The tasks run from here on, decode_task only if it has a decoder.  If   *)
(* there is no encoder the call fails and they go on by themselves.        *)
Handshake ==
  /\ at = "handshake"
  /\ \/ /\ Goto("failed")
        /\ UNCHANGED <<uplink, recv, decode>>
     \/ /\ Sends
        /\ recv' = "reading"
        /\ decode' \in {"reading", "ended"}
        /\ Goto("heading") \/ Goto("failed")
  /\ UNCHANGED <<inHand, decoded, pipe, audioCh, textCh, historyVars>>

(* The OpusHead and OpusTags pages. *)
SendHeaders ==
  /\ at = "heading"
  /\ \/ Sends /\ Goto("open")
     \/ Goto("failed") /\ UNCHANGED uplink
  /\ UNCHANGED <<taskVars, audioCh, textCh, historyVars>>

-----------------------------------------------------------------------------
Step(n) ==
  /\ at = "open"
  /\ given + n <= MaxSamples
  /\ given' = given + n
  /\ pending' = pending + n
  /\ at' = "encoding"
  /\ UNCHANGED <<uplink, total, heard, said, taskVars, audioCh, textCh, historyVars>>

(* Mutant: a frame that is just complete waits for the next step. *)
FrameReadyLate == pending > FrameSize

FrameReady == pending >= FrameSize

(* The encoder may fail, and a frame may encode to nothing. *)
Encode ==
  /\ at = "encoding"
  /\ FrameReady
  /\ pending' = pending - FrameSize
  /\ total' = total + FrameSize
  /\ at' \in {"encoding", "sending", "ending"}
  /\ UNCHANGED <<uplink, heard, said, given, taskVars, audioCh, textCh, historyVars>>

SendPage ==
  /\ at = "sending"
  /\ \/ Sends /\ Goto("encoding")
     \/ Goto("ending") /\ UNCHANGED uplink
  /\ UNCHANGED <<taskVars, audioCh, textCh, historyVars>>

Encoded ==
  /\ at = "encoding"
  /\ ~FrameReady
  /\ Goto("audio")
  /\ UNCHANGED <<uplink, taskVars, audioCh, textCh, historyVars>>

(* audio_rx.try_recv, as long as there is something *)
TakeAudio ==
  /\ at = "audio"
  /\ audioCh # <<>>
  /\ heard' = Append(heard, [sequence |-> Len(heard), packet |-> Head(audioCh)])
  /\ audioCh' = Tail(audioCh)
  /\ UNCHANGED <<at, uplink, pending, total, said, given, taskVars, textCh, historyVars>>

(* Mutants: step waits for audio; it returns without looking for text.     *)
AudioTakenWaits ==
  /\ at = "audio"
  /\ audioCh = <<>>
  /\ heard # <<>>
  /\ Goto("text")
  /\ UNCHANGED <<uplink, taskVars, audioCh, textCh, historyVars>>
AudioTakenReturns ==
  /\ at = "audio"
  /\ audioCh = <<>>
  /\ Goto("open")
  /\ UNCHANGED <<uplink, taskVars, audioCh, textCh, historyVars>>

AudioTaken ==
  /\ at = "audio"
  /\ audioCh = <<>>
  /\ Goto("text")
  /\ UNCHANGED <<uplink, taskVars, audioCh, textCh, historyVars>>

TakeText ==
  /\ at = "text"
  /\ textCh # <<>>
  /\ said' = Append(said, Head(textCh))
  /\ textCh' = Tail(textCh)
  /\ UNCHANGED <<at, uplink, pending, total, heard, given, taskVars, audioCh, historyVars>>

StepReturns ==
  /\ at = "text"
  /\ textCh = <<>>
  /\ Goto("open")
  /\ UNCHANGED <<uplink, taskVars, audioCh, textCh, historyVars>>

(* The caller's transport has closed. *)
Close ==
  /\ at = "open"
  /\ Goto("ending")
  /\ UNCHANGED <<uplink, taskVars, audioCh, textCh, historyVars>>

(* end_session: END_TURN and Close, sent or not, and the tasks are aborted *)
(* and the channels dropped.                                               *)
EndTurn ==
  /\ at = "ending"
  /\ Sends \/ UNCHANGED uplink
  /\ Goto("closing")
  /\ UNCHANGED <<taskVars, audioCh, textCh, historyVars>>

EndSession ==
  /\ at = "closing"
  /\ Sends \/ UNCHANGED uplink
  /\ Goto("ended")
  /\ recv' = "ended"
  /\ decode' = "ended"
  /\ UNCHANGED <<inHand, decoded, pipe, audioCh, textCh, historyVars>>

-----------------------------------------------------------------------------
(* The session, and with it both receivers, is gone. *)
Gone == at \in {"failed", "ended"}

(* recv_task.  Errors the server reports, and other messages, only pass.   *)
RecvMessage ==
  /\ recv = "reading"
  /\ received < MaxMessages
  /\ received' = received + 1
  /\ inHand' = received'
  /\ \/ /\ recv' = "piping"
        /\ audio' = Append(audio, received')
        /\ UNCHANGED text
     \/ /\ recv' = "texting"
        /\ text' = Append(text, received')
        /\ UNCHANGED audio
  /\ UNCHANGED <<callerVars, decode, decoded, pipe, audioCh, textCh>>

(* The server has closed the socket, or it has failed. *)
ServerGone ==
  /\ recv = "reading"
  /\ recv' = "ended"
  /\ UNCHANGED <<callerVars, decode, inHand, decoded, pipe, audioCh, textCh, historyVars>>

(* A write to the pipe fails once decode_task has ended. *)
PassPacket ==
  /\ recv = "piping"
  /\ \/ /\ decode = "ended"
        /\ recv' = "ended"
        /\ UNCHANGED pipe
     \/ /\ decode # "ended"
        /\ Len(pipe) < PipeCap
        /\ pipe' = Append(pipe, inHand)
        /\ recv' = "reading"
  /\ inHand' = 0
  /\ UNCHANGED <<callerVars, decode, decoded, audioCh, textCh, historyVars>>

(* text_tx.send: waits for room, or fails and is ignored. *)
PassText ==
  /\ recv = "texting"
  /\ \/ Gone /\ UNCHANGED textCh
     \/ ~Gone /\ Len(textCh) < TextCap /\ textCh' = Append(textCh, inHand)
  /\ recv' = "reading"
  /\ inHand' = 0
  /\ UNCHANGED <<callerVars, decode, decoded, pipe, audioCh, historyVars>>

(* decode_task.  Headers, empty and undecodable packets are skipped; pages *)
(* that are not OGG end the task.                                          *)
ReadPacket ==
  /\ decode = "reading"
  /\ pipe # <<>>
  /\ pipe' = Tail(pipe)
  /\ \/ /\ decode' = "sending"
        /\ decoded' = Head(pipe)
        /\ UNCHANGED audio
     \/ /\ decode' \in {"reading", "ended"}
        /\ audio' = RemoveFirst(audio, Head(pipe))
        /\ UNCHANGED decoded
  /\ UNCHANGED <<callerVars, recv, inHand, audioCh, textCh, received, text>>

(* Mutant: samples that find the channel full are dropped. *)
PassSamplesOrDrop ==
  /\ decode = "sending"
  /\ audioCh' = IF Len(audioCh) < AudioCap THEN Append(audioCh, decoded) ELSE audioCh
  /\ decode' = "reading"
  /\ decoded' = 0
  /\ UNCHANGED <<callerVars, recv, inHand, pipe, textCh, historyVars>>

(* audio_tx.send: waits for room, or fails and ends the task. *)
PassSamples ==
  /\ decode = "sending"
  /\ \/ /\ Gone
        /\ decode' = "ended"
        /\ UNCHANGED audioCh
     \/ /\ ~Gone
        /\ Len(audioCh) < AudioCap
        /\ audioCh' = Append(audioCh, decoded)
        /\ decode' = "reading"
  /\ decoded' = 0
  /\ UNCHANGED <<callerVars, recv, inHand, pipe, textCh, historyVars>>

PipeEnds ==
  /\ decode = "reading"
  /\ pipe = <<>>
  /\ recv = "ended"
  /\ decode' = "ended"
  /\ UNCHANGED <<callerVars, recv, inHand, decoded, pipe, audioCh, textCh, historyVars>>

ServerReads ==
  /\ uplink > 0
  /\ uplink' = uplink - 1
  /\ UNCHANGED <<at, pending, total, heard, said, given, taskVars, audioCh, textCh,
                 historyVars>>

-----------------------------------------------------------------------------
Caller ==
  \/ Connect \/ Handshake \/ SendHeaders
  \/ \E n \in Inputs : Step(n)
  \/ Encode \/ SendPage \/ Encoded
  \/ TakeAudio \/ AudioTaken \/ TakeText \/ StepReturns
  \/ EndTurn \/ EndSession

RecvTask   == PassPacket \/ PassText
DecodeTask == ReadPacket \/ PassSamples \/ PipeEnds

Next == Caller \/ Close \/ RecvMessage \/ ServerGone \/ RecvTask \/ DecodeTask
          \/ ServerReads

(* Frames keep coming as long as the caller's transport is open, the tasks *)
(* are scheduled, and the server reads while it sends.  It need not send.  *)
Spec ==
  /\ Init
  /\ [][Next]_vars
  /\ WF_vars(Caller) /\ WF_vars(RecvTask) /\ WF_vars(DecodeTask)
  /\ WF_vars(ServerReads)

-----------------------------------------------------------------------------
InHand(state) == IF recv = state THEN <<inHand>> ELSE <<>>

Packets(frames) == [i \in DOMAIN frames |-> frames[i].packet]

(* Full buffers hold the server's messages up and never drop, double or    *)
(* reorder any.  As long as decode_task runs, every packet received is in  *)
(* one place of the pipeline, in order, and the frames that have come out  *)
(* of it are numbered without a gap; and so is every text, as long as there*)
(* is a session.                                                           *)
MessagesKept ==
  /\ decode # "ended" =>
       /\ audio = Packets(heard) \o audioCh
                    \o (IF decode = "sending" THEN <<decoded>> ELSE <<>>)
                    \o pipe \o InHand("piping")
       /\ \A i \in DOMAIN heard : heard[i].sequence = i - 1
  /\ ~Gone => text = said \o textCh \o InHand("texting")

(* What step has been given is encoded, in whole frames, or pending, and   *)
(* less than a frame is pending when it returns.                           *)
InputKept ==
  /\ total + pending = given
  /\ total % FrameSize = 0
  /\ at \in {"open", "audio", "text"} => pending < FrameSize

(* However full the channels are, step returns or the session ends. *)
StepEnds == at = "encoding" ~> at \in {"open", "ended"}

(* Every text the server sends is returned by some step, if the session    *)
(* lasts: recv_task, the pipe and both channels never block each other for *)
(* good.                                                                   *)
TextSurfaces ==
  \A m \in Message :
    m \in ToSet(text) ~> m \in ToSet(said) \/ at \in {"failed", "ending", "ended"}
=============================================================================
