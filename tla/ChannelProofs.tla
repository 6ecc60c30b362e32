---------------------------- MODULE ChannelProofs ---------------------------
(***************************************************************************)
(* Theorems about the two engines that answer through bounded channels:    *)
(* Moshi, for every frame size, every capacity of the buffers and every    *)
(* bound; and Ollama, for every set of bodies, every capacity of the       *)
(* channel and every number of generations.                                *)
(***************************************************************************)
EXTENDS Moshi, Ollama, FiniteInduction, SequenceTheorems

(* What each task holds while it waits to pass it on is a message, and no  *)
(* task runs before the server's handshake.                                *)
TypeInv ==
  /\ TypeOK
  /\ at \in {"connecting", "handshake"} => recv = "none" /\ decode = "none"
  /\ recv \in {"piping", "texting"} => inHand \in Message
  /\ decode = "sending" => decoded \in Message
  /\ total + pending = given

(* The steps of the caller keep it. *)
LEMMA TypedCaller ==
  ASSUME TypeInv, Caller \/ Close
  PROVE  TypeInv'
<1>0. /\ Sends => uplink' \in 0..UplinkCap
      /\ UNCHANGED uplink => uplink' \in 0..UplinkCap
  BY MoshiAssumption DEF TypeInv, TypeOK, Sends
<1> USE MoshiAssumption DEF TypeInv, TypeOK, Awaits, Goto, taskVars, historyVars
<1>1. CASE Connect
  BY <1>1 DEF Connect
<1>2. CASE Handshake
  <2>1. CASE UNCHANGED <<uplink, recv, decode>>
    BY <1>0, <1>2, <2>1 DEF Handshake
  <2>2. CASE Sends /\ recv' = "reading" /\ decode' \in {"reading", "ended"}
    BY <1>0, <1>2, <2>2 DEF Handshake
  <2> QED
    BY <1>2, <2>1, <2>2 DEF Handshake
<1>3. CASE SendHeaders
  BY <1>0, <1>3 DEF SendHeaders
<1>4. ASSUME NEW n \in Inputs, Step(n) PROVE TypeInv'
  BY <1>4 DEF Step
<1>5. CASE Encode
  BY <1>5 DEF Encode, FrameReady
<1>6. CASE SendPage
  BY <1>0, <1>6 DEF SendPage
<1>7. CASE Encoded \/ AudioTaken \/ StepReturns \/ Close
  BY <1>7 DEF Encoded, AudioTaken, StepReturns, Close
<1>8. CASE TakeAudio
  BY <1>8 DEF TakeAudio
<1>9. CASE TakeText
  BY <1>9 DEF TakeText
<1>10. CASE EndTurn
  BY <1>0, <1>10 DEF EndTurn
<1>11. CASE EndSession
  BY <1>0, <1>11 DEF EndSession
<1> QED
  BY <1>1, <1>2, <1>3, <1>4, <1>5, <1>6, <1>7, <1>8, <1>9, <1>10, <1>11 DEF Caller

(* Taking an element out of a sequence leaves one of the same kind. *)
LEMMA RemoveTyped ==
  ASSUME NEW S, NEW s \in Seq(S), NEW e
  PROVE  RemoveFirst(s, e) \in Seq(S)
<1>1. ASSUME NEW i \in 1..Len(s), s[i] = e
      PROVE  RemoveFirst(s, e) \in Seq(S)
  <2> DEFINE I == {j \in 1..Len(s) : s[j] = e}
  <2>1. \E x \in I : \A y \in I : x =< y
    <3>1. I \subseteq Nat /\ I # {}
      BY <1>1
    <3> HIDE DEF I
    <3> QED
      BY <3>1, Smallest
  <2>2. Min(I) \in 1..Len(s)
    BY <2>1 DEF Min
  <2>3. RemoveFirst(s, e) = RemoveAt(s, Min(I))
    <3>1. SelectInSeq(s, LAMBDA v : v = e) = Min(I)
      BY <1>1 DEF SelectInSeq
    <3> QED
      BY <1>1, <3>1 DEF RemoveFirst
  <2> HIDE DEF I
  <2> QED
    BY <2>2, <2>3 DEF RemoveAt
<1> QED
  BY <1>1 DEF RemoveFirst

(* So do the steps of the tasks and of the server. *)
LEMMA TypedTasks ==
  ASSUME TypeInv, RecvMessage \/ ServerGone \/ RecvTask \/ DecodeTask \/ ServerReads
  PROVE  TypeInv'
<1> USE MoshiAssumption DEF TypeInv, TypeOK, Awaits, callerVars, historyVars, taskVars
<1>1. CASE RecvMessage
  <2>1. received' \in Message /\ received' \in 0..MaxMessages
    BY <1>1 DEF RecvMessage, Message
  <2>2. Append(audio, received') \in Seq(Message) /\ Append(text, received') \in Seq(Message)
    BY <2>1
  <2>3. audio' \in Seq(Message) /\ text' \in Seq(Message)
    BY <1>1, <2>2 DEF RecvMessage
  <2>4. recv' \in {"piping", "texting"} /\ inHand' \in Message
    BY <1>1, <2>1 DEF RecvMessage
  <2> QED
    BY <1>1, <2>1, <2>3, <2>4 DEF RecvMessage
<1>2. CASE ServerGone
  BY <1>2 DEF ServerGone
<1>3. CASE PassPacket
  <2>1. CASE decode = "ended" /\ recv' = "ended" /\ UNCHANGED pipe
    BY <1>3, <2>1 DEF PassPacket
  <2>2. CASE Len(pipe) < PipeCap /\ pipe' = Append(pipe, inHand) /\ recv' = "reading"
    <3>1. pipe' \in Seq(Message) /\ Len(pipe') <= PipeCap
      BY <1>3, <2>2 DEF PassPacket
    <3> QED
      BY <1>3, <2>2, <3>1 DEF PassPacket
  <2> QED
    BY <1>3, <2>1, <2>2 DEF PassPacket
<1>4. CASE PassText
  <2>1. textCh' \in Seq(Message) /\ Len(textCh') <= TextCap
    <3>1. CASE UNCHANGED textCh
      BY <3>1
    <3>2. CASE Len(textCh) < TextCap /\ textCh' = Append(textCh, inHand)
      BY <1>4, <3>2 DEF PassText
    <3> QED
      BY <1>4, <3>1, <3>2 DEF PassText
  <2> QED
    BY <1>4, <2>1 DEF PassText
<1>5. CASE ReadPacket
  <2>1. Head(pipe) \in Message /\ Tail(pipe) \in Seq(Message) /\ Len(Tail(pipe)) <= PipeCap
    BY <1>5 DEF ReadPacket
  <2>2. audio' \in Seq(Message)
    BY <1>5, RemoveTyped DEF ReadPacket
  <2> QED
    BY <1>5, <2>1, <2>2 DEF ReadPacket
<1>6. CASE PassSamples
  <2>1. audioCh' \in Seq(Message) /\ Len(audioCh') <= AudioCap
    <3>1. CASE UNCHANGED audioCh
      BY <3>1
    <3>2. CASE Len(audioCh) < AudioCap /\ audioCh' = Append(audioCh, decoded)
      BY <1>6, <3>2 DEF PassSamples
    <3> QED
      BY <1>6, <3>1, <3>2 DEF PassSamples
  <2> QED
    BY <1>6, <2>1 DEF PassSamples
<1>7. CASE PipeEnds
  BY <1>7 DEF PipeEnds
<1>8. CASE ServerReads
  BY <1>8 DEF ServerReads
<1> QED
  BY <1>1, <1>2, <1>3, <1>4, <1>5, <1>6, <1>7, <1>8 DEF RecvTask, DecodeTask

(* The invariant of types always holds. *)
LEMMA Typed == Spec => []TypeInv
<1>1. Init => TypeInv
  BY MoshiAssumption DEF Init, TypeInv, TypeOK, Awaits
<1>2. TypeInv /\ [Next]_vars => TypeInv'
  <2> SUFFICES ASSUME TypeInv, [Next]_vars PROVE TypeInv'
    OBVIOUS
  <2>1. CASE UNCHANGED vars
    BY <2>1 DEF vars, callerVars, taskVars, historyVars, TypeInv, TypeOK
  <2> QED
    BY <2>1, TypedCaller, TypedTasks DEF Next
<1> QED
  BY <1>1, <1>2, PTL DEF Spec

(* Type correctness: every buffer stays within its capacity. *)
THEOREM TypeCorrect == Spec => []TypeOK
BY Typed, PTL DEF TypeInv

-----------------------------------------------------------------------------
(* Numbers in the order they were received in, none of them twice. *)
Ascending(s) == \A i, j \in DOMAIN s : i < j => s[i] < s[j]

(* Taking a number out of the middle of an ascending sequence leaves what  *)
(* was before it and what was behind it.                                   *)
LEMMA RemoveMiddle ==
  ASSUME NEW before \in Seq(Message), NEW after \in Seq(Message), NEW m \in Message,
         NEW s \in Seq(Message), s = before \o <<m>> \o after, Ascending(s)
  PROVE  RemoveFirst(s, m) = before \o after
<1> DEFINE k == Len(before) + 1
           I == {i \in 1..Len(s) : s[i] = m}
<1>1. /\ Len(s) = Len(before) + 1 + Len(after) /\ s[k] = m /\ k \in 1..Len(s)
      /\ DOMAIN s = 1..Len(s) /\ k \in Nat
      /\ \A i \in 1..Len(before) : s[i] = before[i]
      /\ \A i \in 1..Len(after) : s[k + i] = after[i]
  OBVIOUS
<1>2. I = {k}
  <2>1. Message \subseteq Nat
    BY MoshiAssumption DEF Message
  <2>2. \A i \in DOMAIN s : s[i] \in Nat
    <3>1. \A i \in DOMAIN s : s[i] \in Message
      BY s \in Seq(Message)
    <3> QED
      BY <2>1, <3>1
  <2>3. ASSUME NEW i \in 1..Len(s), s[i] = m PROVE i = k
    <3> HIDE DEF k
    <3>1. i \in DOMAIN s /\ k \in DOMAIN s /\ s[i] = s[k]
      BY <1>1, <2>3
    <3>2. ~(s[i] < s[k]) /\ ~(s[k] < s[i])
      BY SMTT(30), <2>2, <3>1
    <3>3. ~(i < k) /\ ~(k < i)
      BY <3>1, <3>2 DEF Ascending
    <3> QED
      BY <1>1, <3>3
  <2> QED
    BY <1>1, <2>3
<1>3. Min(I) = k
  <2>1. \E x \in {k} : \A y \in {k} : x =< y
    BY <1>1
  <2> QED
    BY <1>2, <2>1 DEF Min
<1>4. RemoveFirst(s, m) = RemoveAt(s, k)
  <2>1. SelectInSeq(s, LAMBDA v : v = m) = Min(I)
    BY <1>2 DEF SelectInSeq
  <2> QED
    BY <1>1, <1>3, <2>1 DEF RemoveFirst
<1>5. RemoveAt(s, k) = before \o after
  <2>1. SubSeq(s, 1, k - 1) = before
    BY <1>1
  <2>2. SubSeq(s, k + 1, Len(s)) = after
    BY <1>1
  <2> QED
    BY <2>1, <2>2 DEF RemoveAt
<1> QED
  BY <1>4, <1>5

-----------------------------------------------------------------------------
(* A message that has got from one place of the pipeline to the next is    *)
(* still between the same two.                                             *)
LEMMA Shift ==
  ASSUME NEW a \in Seq(Message), NEW b \in Seq(Message), NEW m \in Message
  PROVE  /\ Append(a, m) \o b = a \o (<<m>> \o b)
         /\ a \o Append(b, m) = Append(a \o b, m)
         /\ (a \o <<m>>) \o b = a \o (<<m>> \o b)
         /\ Append(a, m) = a \o <<m>>
OBVIOUS

(* The head of a sequence and what is behind it. *)
LEMMA HeadFirst ==
  ASSUME NEW s \in Seq(Message), s # <<>>
  PROVE  s = <<Head(s)>> \o Tail(s) /\ Head(s) \in Message /\ Tail(s) \in Seq(Message)
OBVIOUS

(* The frames that step returns. *)
Frame == [sequence : Nat, packet : Message]

(* Their packets, and those of one more. *)
LEMMA PacketsAppend ==
  ASSUME NEW f \in Seq(Frame)
  PROVE  /\ Packets(f) \in Seq(Message)
         /\ \A h \in Frame : Packets(Append(f, h)) = Append(Packets(f), h.packet)
<1>1. /\ DOMAIN f = 1..Len(f) /\ Len(f) \in Nat
      /\ \A i \in 1..Len(f) : f[i] \in Frame
  OBVIOUS
<1>2. \A i \in 1..Len(f) : f[i].packet \in Message
  BY <1>1 DEF Frame
<1>3. Packets(f) \in Seq(Message) /\ Len(Packets(f)) = Len(f)
  BY <1>1, <1>2 DEF Packets
<1>4. ASSUME NEW h \in Frame
      PROVE  Packets(Append(f, h)) = Append(Packets(f), h.packet)
  <2>1. /\ DOMAIN Append(f, h) = 1..Len(f) + 1
        /\ \A i \in 1..Len(f) : Append(f, h)[i] = f[i]
        /\ Append(f, h)[Len(f) + 1] = h
    BY <1>1
  <2>2. /\ DOMAIN Append(Packets(f), h.packet) = 1..Len(f) + 1
        /\ \A i \in 1..Len(f) : Append(Packets(f), h.packet)[i] = f[i].packet
        /\ Append(Packets(f), h.packet)[Len(f) + 1] = h.packet
    <3>1. h.packet \in Message
      BY DEF Frame
    <3>2. \A i \in 1..Len(f) : Packets(f)[i] = f[i].packet
      BY <1>1 DEF Packets
    <3> QED
      BY <1>1, <1>3, <3>1, <3>2
  <2>3. \A i \in 1..Len(f) + 1 : Append(f, h)[i].packet = Append(Packets(f), h.packet)[i]
    BY <1>1, <2>1, <2>2
  <2>4. Append(Packets(f), h.packet) = [i \in 1..Len(f) + 1 |-> Append(Packets(f), h.packet)[i]]
    <3>1. h.packet \in Message
      BY DEF Frame
    <3> QED
      BY <1>3, <2>2, <3>1
  <2> QED
    BY <2>1, <2>3, <2>4 DEF Packets
<1> QED
  BY <1>3, <1>4

(* The packets on their way behind decode_task, and before it. *)
Decoding == IF decode = "sending" THEN <<decoded>> ELSE <<>>
Out      == Packets(heard) \o audioCh \o Decoding
In       == pipe \o InHand("piping")

(* MessagesKept, and what makes it inductive: packets are in the order of  *)
(* the messages, so that one which decode_task skips is not taken for      *)
(* another.                                                                *)
MessagesInv ==
  /\ decode # "ended" =>
       /\ audio = Out \o In
       /\ \A i \in DOMAIN heard : heard[i].sequence = i - 1
  /\ ~Gone => text = said \o textCh \o InHand("texting")
  /\ Ascending(audio)
  /\ \A i \in DOMAIN audio : audio[i] <= received

(* What the parts of the pipeline are. *)
LEMMA Parts ==
  ASSUME TypeInv
  PROVE  /\ Packets(heard) \in Seq(Message) /\ Decoding \in Seq(Message)
         /\ Out \in Seq(Message) /\ In \in Seq(Message)
         /\ InHand("piping") \in Seq(Message) /\ InHand("texting") \in Seq(Message)
<1>1. Packets(heard) \in Seq(Message)
  BY PacketsAppend DEF TypeInv, TypeOK, Frame
<1>2. Decoding \in Seq(Message) /\ InHand("piping") \in Seq(Message) /\ InHand("texting") \in Seq(Message)
  BY DEF TypeInv, TypeOK, Decoding, InHand
<1> QED
  BY <1>1, <1>2 DEF TypeInv, TypeOK, Out, In

(* The packets do not pass through the caller but for TakeAudio. *)
LEMMA AudioStep ==
  ASSUME TypeInv, TypeInv', MessagesInv, [Next]_vars, decode' # "ended"
  PROVE  /\ audio' = Out' \o In'
         /\ \A i \in DOMAIN heard' : heard'[i].sequence = i - 1
<1>0. decode # "ended"
  BY DEF Next, Caller, Connect, Handshake, SendHeaders, Step, Encode, SendPage, Encoded, TakeAudio, AudioTaken,
         TakeText, StepReturns, Close, EndTurn, EndSession, RecvMessage, ServerGone, RecvTask, PassPacket, PassText,
         DecodeTask, ReadPacket, PassSamples, PipeEnds, ServerReads, vars, taskVars, TypeInv
<1>1. /\ audio = Out \o In
      /\ \A i \in DOMAIN heard : heard[i].sequence = i - 1
  BY <1>0 DEF MessagesInv
<1>2. CASE TakeAudio
  <2>1. /\ audioCh # <<>> /\ audioCh' = Tail(audioCh)
        /\ heard' = Append(heard, [sequence |-> Len(heard), packet |-> Head(audioCh)])
        /\ UNCHANGED <<decode, decoded, pipe, recv, inHand, audio>>
    BY <1>2 DEF TakeAudio, taskVars, historyVars
  <2> DEFINE h == [sequence |-> Len(heard), packet |-> Head(audioCh)]
  <2>0. heard \in Seq(Frame) /\ h \in Frame /\ h.packet = Head(audioCh) /\ h.sequence = Len(heard)
    BY <2>1, HeadFirst DEF TypeInv, TypeOK, Frame
  <2>2. Packets(heard') = Append(Packets(heard), Head(audioCh))
    <3> HIDE DEF h, Packets
    <3>1. heard' = Append(heard, h)
      BY <2>1 DEF h
    <3> QED
      BY <2>0, <3>1, PacketsAppend
  <2>3. Packets(heard') \o audioCh' = Packets(heard) \o audioCh
    <3> HIDE DEF Packets
    <3>1. Packets(heard) \in Seq(Message) /\ audioCh \in Seq(Message)
      BY Parts DEF TypeInv, TypeOK
    <3>2. audioCh = <<Head(audioCh)>> \o audioCh' /\ Head(audioCh) \in Message /\ audioCh' \in Seq(Message)
      BY <2>1, <3>1, HeadFirst
    <3>3. Append(Packets(heard), Head(audioCh)) \o audioCh'
            = Packets(heard) \o (<<Head(audioCh)>> \o audioCh')
      BY <3>1, <3>2, Shift
    <3> QED
      BY <2>2, <3>2, <3>3, Zenon
  <2>4. UNCHANGED <<Out, In>>
    BY <2>1, <2>3 DEF Out, In, Decoding, InHand
  <2>5. \A i \in DOMAIN heard' : heard'[i].sequence = i - 1
    <3> HIDE DEF h
    <3>1. heard' = Append(heard, h)
      BY <2>1 DEF h
    <3>2. /\ DOMAIN heard' = 1..Len(heard) + 1 /\ DOMAIN heard = 1..Len(heard) /\ Len(heard) \in Nat
          /\ \A i \in 1..Len(heard) : heard'[i] = heard[i]
          /\ heard'[Len(heard) + 1] = h
      BY <2>0, <3>1
    <3> QED
      BY <1>1, <2>0, <3>2
  <2> QED
    BY <1>1, <2>1, <2>4, <2>5
<1>3. CASE Handshake
  <2>1. UNCHANGED <<heard, audioCh, pipe, inHand, decoded, audio>>
    BY <1>3 DEF Handshake, Goto, historyVars
  <2>2. UNCHANGED <<Decoding, InHand("piping")>>
    BY <1>3 DEF Handshake, TypeInv, Decoding, InHand
  <2> QED
    BY <1>1, <2>1, <2>2 DEF Out, In
<1>4. CASE RecvMessage
  <2>1. /\ UNCHANGED <<heard, audioCh, pipe, decode, decoded>> /\ recv = "reading"
        /\ inHand' \in Message
    BY <1>4 DEF RecvMessage, callerVars, TypeInv
  <2>2. UNCHANGED Out /\ In = pipe
    BY <2>1 DEF Out, Decoding, In, InHand, TypeInv, TypeOK
  <2>3. CASE recv' = "piping" /\ audio' = Append(audio, inHand')
    <3>1. In' = Append(pipe, inHand')
      BY <2>1, <2>3 DEF In, InHand, TypeInv, TypeOK
    <3> QED
      BY <1>1, <2>1, <2>2, <2>3, <3>1, Parts, Shift
  <2>4. CASE recv' = "texting" /\ UNCHANGED audio
    <3>1. In' = pipe
      BY <2>1, <2>4 DEF In, InHand, TypeInv, TypeOK
    <3> QED
      BY <1>1, <2>1, <2>2, <2>4, <3>1
  <2> QED
    BY <1>4, <2>3, <2>4 DEF RecvMessage
<1>5. CASE PassPacket
  <2>1. /\ UNCHANGED <<heard, audioCh, audio, decode, decoded>>
        /\ recv = "piping" /\ recv' = "reading" /\ pipe' = Append(pipe, inHand)
        /\ inHand \in Message
    BY <1>0, <1>5 DEF PassPacket, callerVars, historyVars, TypeInv
  <2>2. In' = In
    <3>1. pipe \in Seq(Message)
      BY DEF TypeInv, TypeOK
    <3>2. In = pipe \o <<inHand>> /\ In' = Append(pipe, inHand) \o <<>>
      BY <2>1 DEF In, InHand
    <3> QED
      BY <2>1, <3>1, <3>2
  <2>3. Out' = Out
    BY <2>1 DEF Out, Decoding
  <2> QED
    BY <1>1, <2>1, <2>2, <2>3
<1>6. CASE ReadPacket
  <2>1. /\ decode = "reading" /\ pipe # <<>> /\ pipe' = Tail(pipe)
        /\ UNCHANGED <<heard, audioCh, recv, inHand>>
    BY <1>6 DEF ReadPacket, callerVars
  <2> DEFINE B == Packets(heard) \o audioCh
             R == Tail(pipe) \o InHand("piping")
             m == Head(pipe)
  <2>2. B \in Seq(Message) /\ R \in Seq(Message) /\ m \in Message
    <3>1. pipe \in Seq(Message) /\ audioCh \in Seq(Message)
      BY DEF TypeInv, TypeOK
    <3>2. m \in Message /\ Tail(pipe) \in Seq(Message)
      BY <2>1, <3>1, HeadFirst
    <3> HIDE DEF m
    <3>3. Packets(heard) \in Seq(Message) /\ InHand("piping") \in Seq(Message)
      BY Parts
    <3> HIDE DEF Packets, InHand
    <3> QED
      BY <3>1, <3>2, <3>3
  <2>3. Out = B /\ In = <<m>> \o R /\ In' = R
    <3>1. Out = B
      BY <2>1, <2>2 DEF Out, Decoding
    <3>2. In = <<m>> \o R
      <4>1. pipe = <<m>> \o Tail(pipe) /\ Tail(pipe) \in Seq(Message) /\ InHand("piping") \in Seq(Message)
        BY <2>1, Parts, HeadFirst DEF TypeInv, TypeOK
      <4>2. (<<m>> \o Tail(pipe)) \o InHand("piping") = <<m>> \o R
        <5> HIDE DEF m, InHand
        <5> QED
          BY <2>2, <4>1
      <4> QED
        BY <4>1, <4>2 DEF In
    <3>3. In' = R
      BY <2>1 DEF In, InHand
    <3> QED
      BY <3>1, <3>2, <3>3
  <2>4. CASE decode' = "sending" /\ decoded' = m /\ UNCHANGED audio
    <3>1. Out' = B \o <<m>>
      BY <2>1, <2>4 DEF Out, Decoding
    <3> HIDE DEF B, R, m
    <3> QED
      BY <1>1, <2>1, <2>2, <2>3, <2>4, <3>1, Shift
  <2>5. CASE decode' = "reading" /\ audio' = RemoveFirst(audio, m)
    <3>1. Out' = B
      BY <2>1, <2>2, <2>5 DEF Out, Decoding
    <3>2. audio = B \o <<m>> \o R /\ Ascending(audio) /\ audio \in Seq(Message)
      <4>1. Ascending(audio) /\ audio \in Seq(Message)
        BY DEF MessagesInv, TypeInv, TypeOK
      <4> HIDE DEF B, R, m
      <4> QED
        BY <1>1, <2>2, <2>3, <4>1, Shift
    <3>3. audio' = B \o R
      <4> HIDE DEF B, R, m
      <4> QED
        BY <2>2, <2>5, <3>2, RemoveMiddle
    <3> QED
      BY <1>1, <2>1, <2>3, <3>1, <3>3
  <2> QED
    BY <1>6, <2>4, <2>5 DEF ReadPacket
<1>7. CASE PassSamples
  <2>1. /\ UNCHANGED <<heard, audio, recv, inHand, pipe>>
        /\ decode = "sending" /\ decode' = "reading" /\ audioCh' = Append(audioCh, decoded)
        /\ decoded \in Message
    BY <1>0, <1>7 DEF PassSamples, callerVars, historyVars, TypeInv
  <2>2. Out' = Out
    <3>1. Packets(heard') = Packets(heard) /\ Packets(heard) \in Seq(Message) /\ audioCh \in Seq(Message)
      BY <2>1, Parts DEF TypeInv, TypeOK
    <3>2. Out = (Packets(heard) \o audioCh) \o <<decoded>>
      BY <2>1 DEF Out, Decoding
    <3>3. Out' = (Packets(heard) \o Append(audioCh, decoded)) \o <<>>
      BY <2>1, <3>1 DEF Out, Decoding
    <3> HIDE DEF Packets
    <3>4. Packets(heard) \o Append(audioCh, decoded) = (Packets(heard) \o audioCh) \o <<decoded>>
      BY SMTT(30), <2>1, <3>1, Shift
    <3>5. Packets(heard) \o Append(audioCh, decoded) \in Seq(Message)
      BY <2>1, <3>1
    <3> QED
      BY <3>2, <3>3, <3>4, <3>5
  <2>3. In' = In
    BY <2>1 DEF In, InHand
  <2> QED
    BY <1>1, <2>1, <2>2, <2>3
<1>8. CASE ServerGone \/ PassText
  <2>1. UNCHANGED <<heard, audioCh, pipe, decode, decoded, audio>>
    BY <1>8 DEF ServerGone, PassText, callerVars, historyVars
  <2>2. UNCHANGED InHand("piping")
    BY <1>8 DEF ServerGone, PassText, InHand
  <2> QED
    BY <1>1, <2>1, <2>2 DEF Out, In, Decoding
<1>9. CASE UNCHANGED <<heard, audioCh, decode, decoded, pipe, recv, inHand, audio>>
  BY <1>1, <1>9 DEF Out, In, Decoding, InHand
<1> QED
  BY <1>2, <1>3, <1>4, <1>5, <1>6, <1>7, <1>8, <1>9
     DEF Next, Caller, Connect, SendHeaders, Step, Encode, SendPage, Encoded, AudioTaken, TakeText, StepReturns,
         Close, EndTurn, EndSession, RecvTask, DecodeTask, PipeEnds, ServerReads, vars, callerVars, taskVars,
         historyVars, Goto

(* Nor do the texts, but for TakeText. *)
LEMMA TextStep ==
  ASSUME TypeInv, TypeInv', MessagesInv, [Next]_vars, ~Gone'
  PROVE  text' = said' \o textCh' \o InHand("texting")'
<1>0. ~Gone
  BY DEF Next, Caller, Connect, Handshake, SendHeaders, Step, Encode, SendPage, Encoded, TakeAudio, AudioTaken,
         TakeText, StepReturns, Close, EndTurn, EndSession, RecvMessage, ServerGone, RecvTask, PassPacket, PassText,
         DecodeTask, ReadPacket, PassSamples, PipeEnds, ServerReads, vars, callerVars, taskVars, Goto, Gone
<1>1. text = said \o textCh \o InHand("texting") /\ InHand("texting") \in Seq(Message)
  BY <1>0, Parts DEF MessagesInv
<1> DEFINE M == Seq(Message)
<1>a. said \in M /\ textCh \in M /\ said \o textCh \in M
  BY DEF TypeInv, TypeOK
<1>b. said' \in M /\ textCh' \in M /\ said' \o textCh' \in M
  BY DEF TypeInv, TypeOK
<1>2. CASE TakeText
  <2>1. /\ textCh # <<>> /\ textCh' = Tail(textCh) /\ said' = Append(said, Head(textCh))
        /\ UNCHANGED <<recv, inHand, text>>
    BY <1>2 DEF TakeText, taskVars, historyVars
  <2>2. /\ textCh = <<Head(textCh)>> \o textCh' /\ Head(textCh) \in Message
        /\ textCh' \in Seq(Message) /\ said \in Seq(Message)
    BY <1>a, <2>1, HeadFirst
  <2>3. Append(said, Head(textCh)) \o textCh' = said \o (<<Head(textCh)>> \o textCh')
    BY <2>2, Shift
  <2>4. said' \o textCh' = said \o textCh
    BY <2>1, <2>2, <2>3, Zenon
  <2> QED
    BY <1>1, <2>1, <2>4 DEF InHand
<1>3. CASE RecvMessage
  <2>1. UNCHANGED <<said, textCh>> /\ recv = "reading" /\ inHand' \in Message
    BY <1>3 DEF RecvMessage, callerVars, TypeInv
  <2>2. text = said \o textCh
    BY <1>1, <1>a, <2>1 DEF InHand
  <2>3. CASE recv' = "texting" /\ text' = Append(text, inHand')
    <3>1. InHand("texting")' = <<inHand'>>
      BY <2>3 DEF InHand
    <3>2. Append(said \o textCh, inHand') = (said \o textCh) \o <<inHand'>>
      BY <1>a, <2>1, Shift
    <3> QED
      BY <2>1, <2>2, <2>3, <3>1, <3>2, Zenon
  <2>4. CASE recv' = "piping" /\ UNCHANGED text
    <3>1. InHand("texting")' = <<>>
      BY <2>4 DEF InHand
    <3>2. text' = said' \o textCh'
      BY <2>1, <2>2, <2>4
    <3>3. (said' \o textCh') \o InHand("texting")' = said' \o textCh'
      BY <1>b, <3>1
    <3> QED
      BY <3>2, <3>3
  <2> QED
    BY <1>3, <2>3, <2>4 DEF RecvMessage
<1>4. CASE PassText
  <2>1. /\ UNCHANGED <<said, text>> /\ textCh' = Append(textCh, inHand)
        /\ recv = "texting" /\ recv' = "reading" /\ inHand \in Message
    BY <1>0, <1>4 DEF PassText, callerVars, historyVars, Gone, TypeInv
  <2>2. text = (said \o textCh) \o <<inHand>>
    BY <1>1, <2>1 DEF InHand
  <2>3. text' = said \o Append(textCh, inHand)
    <3>2. said \o Append(textCh, inHand) = Append(said \o textCh, inHand)
      BY <1>a, <2>1, Shift
    <3>3. Append(said \o textCh, inHand) = (said \o textCh) \o <<inHand>>
      BY <1>a, <2>1, Shift
    <3> QED
      BY <2>1, <2>2, <3>2, <3>3, Zenon
  <2>4. InHand("texting")' = <<>>
    BY <2>1 DEF InHand
  <2>5. (said' \o textCh') \o InHand("texting")' = said' \o textCh'
    BY <1>b, <2>4
  <2> QED
    BY <2>1, <2>3, <2>5
<1>5. CASE UNCHANGED <<said, textCh, text>> /\ UNCHANGED InHand("texting")
  BY <1>1, <1>5
<1>6. CASE Handshake \/ ServerGone \/ PassPacket
  <2>1. UNCHANGED <<said, textCh, text>> /\ recv # "texting" /\ recv' # "texting"
    BY <1>6 DEF Handshake, ServerGone, PassPacket, Goto, callerVars, historyVars, TypeInv
  <2> QED
    BY <1>5, <2>1 DEF InHand
<1>7. ~EndSession
  BY DEF EndSession, Goto, Gone
<1> QED
  BY <1>2, <1>3, <1>4, <1>5, <1>6, <1>7
     DEF InHand, Next, Caller, Connect, SendHeaders, Step, Encode, SendPage, Encoded, TakeAudio, AudioTaken,
         StepReturns, Close, EndTurn, RecvTask, DecodeTask, ReadPacket, PassSamples, PipeEnds, ServerReads, vars,
         callerVars, taskVars, historyVars, Goto

(* The packets received stay in the order of the messages, whatever is     *)
(* skipped.                                                                *)
LEMMA AscendingStep ==
  ASSUME TypeInv, TypeInv', MessagesInv, [Next]_vars
  PROVE  Ascending(audio)' /\ \A i \in DOMAIN audio' : audio'[i] <= received'
<1>0. /\ audio \in Seq(Message) /\ received \in Nat
      /\ Ascending(audio) /\ \A i \in DOMAIN audio : audio[i] <= received
  BY MoshiAssumption DEF TypeInv, TypeOK, MessagesInv
<1>1. DOMAIN audio = 1..Len(audio) /\ Len(audio) \in Nat /\ \A i \in 1..Len(audio) : audio[i] \in Nat
  <2>1. Message \subseteq Nat
    BY MoshiAssumption DEF Message
  <2>2. DOMAIN audio = 1..Len(audio) /\ Len(audio) \in Nat /\ \A i \in 1..Len(audio) : audio[i] \in Message
    BY <1>0
  <2> QED
    BY <2>1, <2>2
<1>2. CASE UNCHANGED <<audio, received>>
  BY <1>0, <1>2 DEF Ascending
<1>3. CASE RecvMessage
  <2>1. received' = received + 1
    BY <1>3 DEF RecvMessage
  <2>2. CASE UNCHANGED audio
    BY <1>0, <1>1, <2>1, <2>2 DEF Ascending
  <2>3. CASE audio' = Append(audio, received')
    <3>1. /\ DOMAIN audio' = 1..Len(audio) + 1 /\ audio'[Len(audio) + 1] = received + 1
          /\ \A i \in 1..Len(audio) : audio'[i] = audio[i]
      BY <1>0, <2>1, <2>3
    <3>2. ASSUME NEW i \in DOMAIN audio', NEW j \in DOMAIN audio', i < j
          PROVE  audio'[i] < audio'[j]
      <4>1. i \in 1..Len(audio) /\ audio'[i] = audio[i]
        BY <1>1, <3>1, <3>2
      <4>2. CASE j = Len(audio) + 1
        BY <1>0, <1>1, <3>1, <4>1, <4>2
      <4>3. CASE j \in 1..Len(audio)
        BY <1>0, <1>1, <3>1, <3>2, <4>1, <4>3 DEF Ascending
      <4> QED
        BY <1>1, <3>1, <4>2, <4>3
    <3>3. \A i \in DOMAIN audio' : audio'[i] <= received'
      BY <1>0, <1>1, <2>1, <3>1
    <3> QED
      BY <3>2, <3>3 DEF Ascending
  <2> QED
    BY <1>3, <2>2, <2>3 DEF RecvMessage
<1>4. ASSUME ReadPacket, audio' = RemoveFirst(audio, Head(pipe))
      PROVE  Ascending(audio)' /\ \A i \in DOMAIN audio' : audio'[i] <= received'
  <2>1. received' = received /\ pipe # <<>> /\ pipe \in Seq(Message) /\ decode = "reading"
    BY <1>4 DEF ReadPacket, TypeInv, TypeOK
  <2> DEFINE a == Out
             b == Tail(pipe) \o InHand("piping")
             m == Head(pipe)
  <2>2. a \in Seq(Message) /\ b \in Seq(Message) /\ m \in Message /\ audio = a \o <<m>> \o b
    <3>1. pipe = <<m>> \o Tail(pipe) /\ m \in Message /\ Tail(pipe) \in Seq(Message)
      BY <2>1, HeadFirst
    <3>2. a \in Seq(Message) /\ InHand("piping") \in Seq(Message) /\ audio = a \o In
      BY <2>1, Parts DEF MessagesInv
    <3>3. In = (<<m>> \o Tail(pipe)) \o InHand("piping")
      BY <3>1 DEF In
    <3> HIDE DEF a, m, InHand
    <3>4. b \in Seq(Message) /\ In = <<m>> \o b
      BY <3>1, <3>2, <3>3
    <3> HIDE DEF b
    <3> QED
      BY <3>1, <3>2, <3>4, Shift
  <2> HIDE DEF a, b, m
  <2>3. audio' = a \o b
    BY <1>0, <1>4, <2>2, RemoveMiddle DEF m
  <2>4. /\ DOMAIN audio' = 1..Len(a) + Len(b) /\ Len(a) \in Nat /\ Len(b) \in Nat
        /\ Len(audio) = Len(a) + 1 + Len(b)
        /\ \A i \in 1..Len(a) : audio'[i] = audio[i]
        /\ \A i \in Len(a) + 1 .. Len(a) + Len(b) : audio'[i] = audio[i + 1]
    BY <2>2, <2>3
  <2>5. ASSUME NEW i \in DOMAIN audio'
        PROVE  \E k \in DOMAIN audio : audio'[i] = audio[k] /\ k = (IF i <= Len(a) THEN i ELSE i + 1)
    BY <1>1, <2>4
  <2>6. ASSUME NEW i \in DOMAIN audio', NEW j \in DOMAIN audio', i < j
        PROVE  audio'[i] < audio'[j]
    <3>1. PICK k \in DOMAIN audio : audio'[i] = audio[k] /\ k = (IF i <= Len(a) THEN i ELSE i + 1)
      BY <2>5
    <3>2. PICK l \in DOMAIN audio : audio'[j] = audio[l] /\ l = (IF j <= Len(a) THEN j ELSE j + 1)
      BY <2>5
    <3>3. k < l
      BY <2>4, <2>6, <3>1, <3>2
    <3> QED
      BY <1>0, <3>1, <3>2, <3>3 DEF Ascending
  <2> QED
    BY <1>0, <2>1, <2>5, <2>6 DEF Ascending
<1> QED
  BY <1>2, <1>3, <1>4
     DEF Next, Caller, Connect, Handshake, SendHeaders, Step, Encode, SendPage, Encoded, TakeAudio, AudioTaken,
         TakeText, StepReturns, Close, EndTurn, EndSession, ServerGone, RecvTask, PassPacket, PassText,
         DecodeTask, ReadPacket, PassSamples, PipeEnds, ServerReads, vars, callerVars, historyVars

(* No buffer, however full, drops, doubles or reorders what the server has *)
(* sent: see MessagesKept.                                                 *)
THEOREM MessagesAreKept == Spec => []MessagesKept
<1>1. Init => MessagesInv
  <2> SUFFICES ASSUME Init PROVE MessagesInv
    OBVIOUS
  <2>1. Packets(heard) = <<>>
    BY DEF Init, Packets
  <2> QED
    BY <2>1 DEF Init, MessagesInv, Out, In, Decoding, InHand, Ascending
<1>2. TypeInv /\ TypeInv' /\ MessagesInv /\ [Next]_vars => MessagesInv'
  BY AudioStep, TextStep, AscendingStep DEF MessagesInv
<1>3. TypeInv /\ MessagesInv => MessagesKept
  <2> SUFFICES ASSUME TypeInv, MessagesInv PROVE MessagesKept
    OBVIOUS
  <2>1. Out \o In = Packets(heard) \o audioCh \o Decoding \o pipe \o InHand("piping")
    <3>1. Out \in Seq(Message) /\ pipe \in Seq(Message) /\ InHand("piping") \in Seq(Message)
      BY Parts DEF TypeInv, TypeOK
    <3>2. Out \o In = (Out \o pipe) \o InHand("piping")
      BY <3>1, ConcatAssociative DEF In
    <3> QED
      BY <3>2 DEF Out
  <2> QED
    BY <2>1 DEF MessagesInv, MessagesKept, Decoding
<1> QED
  BY <1>1, <1>2, <1>3, Typed, PTL DEF Spec

-----------------------------------------------------------------------------
(* A whole number of frames is still one with a frame more. *)
LEMMA OneFrameMore ==
  ASSUME NEW n \in Nat, n % FrameSize = 0
  PROVE  (n + FrameSize) % FrameSize = 0
<1> DEFINE F == FrameSize
<1>0. F \in Nat \ {0}
  BY MoshiAssumption
<1> HIDE DEF F
<1>1. \A k \in Nat : (k * F) % F = 0
  BY <1>0
<1>2. PICK k \in Nat : n = k * F
  BY <1>0 DEF F
<1>3. n + F = (k + 1) * F /\ k + 1 \in Nat
  BY <1>0, <1>2
<1> QED
  BY <1>1, <1>3 DEF F

(* InputKept, and that nothing is pending while the session opens. *)
InputInv ==
  /\ InputKept
  /\ at \in {"connecting", "handshake", "heading"} => pending < FrameSize

(* The input of step is encoded in whole frames and what is left is less.  *)
THEOREM InputIsKept == Spec => []InputKept
<1> USE DEF InputInv, InputKept
<1>1. Init => InputInv
  BY MoshiAssumption DEF Init
<1>2. TypeInv /\ InputInv /\ [Next]_vars => InputInv'
  <2> SUFFICES ASSUME TypeInv, InputInv, [Next]_vars PROVE InputInv'
    OBVIOUS
  <2>0. total \in Nat /\ pending \in Nat /\ given \in Nat /\ FrameSize \in Nat \ {0}
    BY MoshiAssumption DEF TypeInv, TypeOK
  <2>1. ASSUME NEW n \in Inputs, Step(n) PROVE InputInv'
    BY <2>0, <2>1, MoshiAssumption DEF Step
  <2>2. CASE Encode
    <3>1. /\ pending >= FrameSize /\ pending' = pending - FrameSize
          /\ total' = total + FrameSize /\ given' = given
          /\ at' \in {"encoding", "sending", "ending"}
      BY <2>2 DEF Encode, FrameReady
    <3>2. total' % FrameSize = 0
      BY <2>0, <3>1, OneFrameMore
    <3> QED
      BY <2>0, <3>1, <3>2
  <2>3. CASE Encoded
    BY <2>0, <2>3 DEF Encoded, FrameReady, Goto
  <2> QED
    BY <2>1, <2>2, <2>3
       DEF Next, Caller, Connect, Handshake, SendHeaders, SendPage, TakeAudio, AudioTaken,
           TakeText, StepReturns, Close, EndTurn, EndSession, RecvMessage, ServerGone, RecvTask, PassPacket,
           PassText, DecodeTask, ReadPacket, PassSamples, PipeEnds, ServerReads, vars, callerVars, Goto
<1> QED
  BY <1>1, <1>2, Typed, PTL DEF Spec

-----------------------------------------------------------------------------
(* What a line says: of a line that fails it is the failure, and of others *)
(* there is none in it.                                                    *)
LEMMA SaysIs ==
  ASSUME body \in [Gen -> Bodies \cup {<<>>}], NEW g \in Gen, NEW line \in 1..Len(body[g])
  PROVE  /\ Says(g, line) \in Seq(Item)
         /\ ~Fails(g, line) => \A i \in 1..Len(Says(g, line)) : ~IsFailure(Says(g, line)[i])
         /\ Fails(g, line) => \E item \in Item : IsFailure(item) /\ Says(g, line) = <<item>>
<1> USE OllamaAssumption
<1> DEFINE item(says) == [line |-> line, says |-> says]
<1>1. body[g] \in Seq(Kind)
  OBVIOUS
<1>2. body[g][line] \in Kind /\ line \in Nat
  BY <1>1
<1>3. ASSUME NEW says \in {"text", "garbled", "completed", "final"}
      PROVE  item(says) \in Item /\ ~IsFailure(item(says))
  BY <1>2 DEF Item, IsFailure
<1>4. item("failure") \in Item /\ IsFailure(item("failure"))
  BY <1>2 DEF Item, IsFailure
<1> DEFINE spoken == item(IF line \in garbled[g] THEN "garbled" ELSE "text")
           done == item(IF api = "realtime" THEN "completed" ELSE "final")
<1>5. spoken \in Item /\ ~IsFailure(spoken) /\ done \in Item /\ ~IsFailure(done)
  BY <1>3
<1>6. item("completed") \in Item /\ ~IsFailure(item("completed"))
      /\ item("final") \in Item /\ ~IsFailure(item("final"))
  BY <1>3
<1>7. Says(g, line) =
        CASE body[g][line] \in {"token", "wide"} -> <<spoken>>
          [] body[g][line] = "blank"  -> <<>>
          [] body[g][line] = "done"   -> <<done>>
          [] body[g][line] = "last"   ->
               IF api = "realtime" THEN <<spoken, item("completed")>> ELSE <<item("final")>>
          [] OTHER -> <<item("failure")>>
  BY Zenon DEF Says, ItemsOf
<1> HIDE DEF item, spoken, done
<1>8. CASE Fails(g, line)
  <2>1. Says(g, line) = <<item("failure")>>
    BY <1>7, <1>8 DEF Fails
  <2> QED
    BY <1>4, <1>8, <2>1
<1>9. CASE ~Fails(g, line)
  <2>1. \/ Says(g, line) = <<spoken>> \/ Says(g, line) = <<>> \/ Says(g, line) = <<done>>
        \/ Says(g, line) = <<spoken, item("completed")>> \/ Says(g, line) = <<item("final")>>
    BY <1>2, <1>7, <1>9 DEF Fails, Kind
  <2> DEFINE Clean(s) == s \in Seq(Item) /\ \A i \in 1..Len(s) : ~IsFailure(s[i])
  <2>2. Clean(<<>>)
    OBVIOUS
  <2>3. ASSUME NEW x \in Item, ~IsFailure(x) PROVE Clean(<<x>>)
    BY <2>3
  <2>4. ASSUME NEW x \in Item, ~IsFailure(x), NEW y \in Item, ~IsFailure(y) PROVE Clean(<<x, y>>)
    <3>1. <<x, y>> \in Seq(Item) /\ Len(<<x, y>>) = 2 /\ <<x, y>>[1] = x /\ <<x, y>>[2] = y
      OBVIOUS
    <3>2. \A i \in 1..2 : i = 1 \/ i = 2
      OBVIOUS
    <3> QED
      BY <2>4, <3>1, <3>2
  <2>5. Clean(Says(g, line))
    <3> HIDE DEF Clean
    <3> QED
      BY <1>5, <1>6, <2>1, <2>2, <2>3, <2>4
  <2> QED
    BY <1>9, <2>5
<1> QED
  BY <1>8, <1>9

-----------------------------------------------------------------------------
(* Beside the types: only the latest generation may have a receiver; a     *)
(* task that has not been answered has done nothing; and one that reads    *)
(* has handled no line that has not arrived.                               *)
ReadInv ==
  /\ rx \in {0, started}
  /\ \A g \in Gen :
       /\ g > started => task[g] = "none"
       /\ task[g] = "none" => channel[g] = <<>>
       /\ task[g] \in {"none", "requesting"} =>
            arrived[g] = 0 /\ handled[g] = 0 /\ garbled[g] = {} /\ output[g] = <<>>
       /\ task[g] = "reading" => 3 * handled[g] <= arrived[g]

OllamaTypeInv == OllamaTypeOK /\ ReadInv

(* A body is lines. *)
LEMMA BodyIs ==
  ASSUME OllamaTypeInv, NEW g \in Gen
  PROVE  body[g] \in Seq(Kind) /\ Len(body[g]) \in Nat
<1>1. body[g] \in Bodies \cup {<<>>}
  BY DEF OllamaTypeInv, OllamaTypeOK
<1>2. body[g] \in Seq(Kind)
  <2>1. <<>> \in Seq(Kind) /\ Bodies \subseteq Seq(Kind)
    BY OllamaAssumption
  <2> QED
    BY <1>1, <2>1
<1> QED
  BY <1>2

(* The calls of the session keep the types. *)
LEMMA SessionTyped ==
  ASSUME OllamaTypeInv, Text \/ StartResponse \/ GenerateText \/ CloseSession \/ Recv
  PROVE  OllamaTypeInv'
<1> USE OllamaAssumption
<1>0. started \in Nat /\ rx \in Nat /\ rx \in {0, started}
  BY DEF OllamaTypeInv, OllamaTypeOK, ReadInv
<1>1. ASSUME NEW k \in Nat, Hold(k)
      PROVE  /\ channel' \in [Gen -> Seq(Item)]
             /\ \A g \in Gen : Len(channel'[g]) <= Capacity
             /\ \A g \in Gen : channel[g] = <<>> => channel'[g] = <<>>
  <2>1. \A g \in Gen : channel'[g] = IF g = rx THEN <<>> ELSE channel[g]
    BY <1>1 DEF Hold
  <2>2. channel' \in [Gen -> Seq(Item)]
    BY <1>1 DEF Hold, OllamaTypeInv, OllamaTypeOK
  <2> QED
    BY <2>1, <2>2 DEF OllamaTypeInv, OllamaTypeOK
<1>2. CASE Text \/ StartResponse \/ GenerateText
  <2>1. Spawn /\ prompted' \in BOOLEAN
    BY <1>2 DEF Text, StartResponse, GenerateText, OllamaTypeInv, OllamaTypeOK
  <2>2. /\ started' = started + 1 /\ started' \in Gen /\ rx' = started' /\ reply' = <<>>
        /\ UNCHANGED <<api, body, arrived, handled, garbled, output>>
    BY <1>0, <2>1 DEF Spawn, Hold, Gen
  <2>3. /\ task' = [task EXCEPT ![started'] = "requesting"]
        /\ task \in [Gen -> {"none", "requesting", "reading", "ending", "ended"}]
    BY <2>1 DEF Spawn, OllamaTypeInv, OllamaTypeOK
  <2>4. /\ channel' \in [Gen -> Seq(Item)]
        /\ \A g \in Gen : Len(channel'[g]) <= Capacity
        /\ \A g \in Gen : channel[g] = <<>> => channel'[g] = <<>>
    BY <1>0, <1>1, <2>1 DEF Spawn
  <2>5. OllamaTypeOK'
    <3>1. started' \in 0..MaxGens /\ rx' \in 0..started'
      BY <1>0, <2>2 DEF Gen
    <3>2. task' \in [Gen -> {"none", "requesting", "reading", "ending", "ended"}]
      BY <2>3
    <3>3. reply' \in Seq(Item)
      BY <2>2
    <3> QED
      BY <2>1, <2>2, <2>4, <3>1, <3>2, <3>3 DEF OllamaTypeInv, OllamaTypeOK
  <2>6. ReadInv'
    <3>1. task[started'] = "none"
      BY <1>0, <2>2 DEF OllamaTypeInv, ReadInv
    <3>2. ASSUME NEW g \in Gen, g # started'
          PROVE  task'[g] = task[g] /\ (g > started' => g > started)
      BY <1>0, <2>2, <2>3, <3>2 DEF Gen
    <3>3. task'[started'] = "requesting"
      BY <2>2, <2>3
    <3>4. ~(started' > started')
      BY <1>0, <2>2
    <3> QED
      BY <2>2, <2>4, <3>1, <3>2, <3>3, <3>4 DEF OllamaTypeInv, ReadInv
  <2> QED
    BY <2>5, <2>6 DEF OllamaTypeInv
<1>3. CASE CloseSession
  <2>1. Hold(0) /\ rx' = 0 /\ UNCHANGED <<api, prompted, started, streamVars, reply>>
    BY <1>3 DEF CloseSession, Hold
  <2>2. /\ channel' \in [Gen -> Seq(Item)]
        /\ \A g \in Gen : Len(channel'[g]) <= Capacity
        /\ \A g \in Gen : channel[g] = <<>> => channel'[g] = <<>>
    BY <1>1, <2>1
  <2> QED
    BY <1>0, <2>1, <2>2 DEF OllamaTypeInv, OllamaTypeOK, ReadInv, streamVars
<1>4. CASE RecvItem
  <2>1. rx \in Gen /\ channel[rx] \in Seq(Item) /\ channel[rx] # <<>>
    BY <1>0, <1>4 DEF RecvItem, Gen, OllamaTypeInv, OllamaTypeOK
  <2>2. /\ Head(channel[rx]) \in Item /\ Tail(channel[rx]) \in Seq(Item)
        /\ Len(Tail(channel[rx])) <= Len(channel[rx])
    BY <2>1
  <2>3. /\ channel' = [channel EXCEPT ![rx] = Tail(channel[rx])]
        /\ reply' = Append(reply, Head(channel[rx]))
        /\ UNCHANGED <<sessionVars, streamVars>>
    BY <1>4 DEF RecvItem
  <2>4. \A g \in Gen : channel'[g] = IF g = rx THEN Tail(channel[rx]) ELSE channel[g]
    BY <2>3 DEF OllamaTypeInv, OllamaTypeOK
  <2>5. reply' \in Seq(Item)
    BY <2>2, <2>3 DEF OllamaTypeInv, OllamaTypeOK
  <2>6. channel' \in [Gen -> Seq(Item)]
    BY <2>2, <2>3 DEF OllamaTypeInv, OllamaTypeOK
  <2>7. \A g \in Gen : Len(channel'[g]) <= Capacity
    <3>1. \A g \in Gen : Len(channel[g]) <= Capacity
      BY DEF OllamaTypeInv, OllamaTypeOK
    <3>2. Len(Tail(channel[rx])) \in Nat /\ Len(channel[rx]) \in Nat
      BY <2>1, <2>2
    <3>3. Len(Tail(channel[rx])) <= Capacity
      BY <2>1, <2>2, <3>1, <3>2
    <3> QED
      BY <2>4, <3>1, <3>3
  <2> QED
    BY <2>1, <2>3, <2>4, <2>5, <2>6, <2>7
    DEF OllamaTypeInv, OllamaTypeOK, ReadInv, sessionVars, streamVars
<1>5. CASE RecvNone
  <2>1. rx' = 0 /\ UNCHANGED <<api, prompted, started, streamVars, channel, reply>>
    BY <1>5 DEF RecvNone
  <2> QED
    BY <1>0, <2>1 DEF OllamaTypeInv, OllamaTypeOK, ReadInv, streamVars
<1> QED
  BY <1>2, <1>3, <1>4, <1>5 DEF Recv

(* Handling a line, as far as it concerns the types. *)
LEMMA HandledTyped ==
  ASSUME OllamaTypeInv, NEW g \in Gen, NEW next \in {"reading", "ending"},
         task[g] = "reading", handled[g] + 1 \in 1..Len(body[g]),
         next = "reading" => 3 * (handled[g] + 1) <= arrived[g],
         Handle(g, handled[g] + 1, next),
         UNCHANGED <<sessionVars, body, arrived, garbled, channel, reply>>
  PROVE  OllamaTypeInv'
<1> USE OllamaAssumption
<1>1. Says(g, handled[g] + 1) \in Seq(Item)
  BY SaysIs DEF OllamaTypeInv, OllamaTypeOK
<1>2. /\ handled' = [handled EXCEPT ![g] = handled[g] + 1]
      /\ output' = [output EXCEPT ![g] = Says(g, handled[g] + 1)]
      /\ task' = [task EXCEPT ![g] = IF Fails(g, handled[g] + 1) THEN "ending" ELSE next]
  BY DEF Handle
<1>3. UNCHANGED <<api, prompted, rx, started, body, arrived, garbled, channel, reply>>
  BY DEF sessionVars
<1>4. output' \in [Gen -> Seq(Item)] /\ handled' \in [Gen -> Nat]
  BY <1>1, <1>2 DEF OllamaTypeInv, OllamaTypeOK
<1>5. task' \in [Gen -> {"none", "requesting", "reading", "ending", "ended"}]
  BY <1>2 DEF OllamaTypeInv, OllamaTypeOK
<1>6. \A c \in Gen : c # g => /\ handled'[c] = handled[c] /\ output'[c] = output[c]
                              /\ task'[c] = task[c]
  BY <1>2 DEF OllamaTypeInv, OllamaTypeOK
<1>7. handled'[g] = handled[g] + 1 /\ task'[g] \in {next, "ending"}
  BY <1>2 DEF OllamaTypeInv, OllamaTypeOK
<1>8. \A c \in Gen : handled'[c] <= Len(body[c])
  <2>1. ASSUME NEW c \in Gen, c # g PROVE handled'[c] <= Len(body[c])
    BY <1>6, <2>1 DEF OllamaTypeInv, OllamaTypeOK
  <2>2. handled'[g] <= Len(body[g])
    BY <1>7, BodyIs
  <2> QED
    BY <2>1, <2>2
<1>9. OllamaTypeOK'
  BY <1>3, <1>4, <1>5, <1>8 DEF OllamaTypeInv, OllamaTypeOK
<1>10. ReadInv'
  BY <1>3, <1>6, <1>7 DEF OllamaTypeInv, ReadInv
<1> QED
  BY <1>9, <1>10 DEF OllamaTypeInv

(* A failure, as far as it concerns the types. *)
LEMMA FailedTyped ==
  ASSUME OllamaTypeInv, NEW g \in Gen, task[g] \in {"requesting", "reading"}, Fail(g),
         UNCHANGED <<sessionVars, body, arrived, garbled, channel, reply>>
  PROVE  OllamaTypeInv'
<1> DEFINE item == [line |-> handled[g] + 1, says |-> "failure"]
<1>1. handled[g] \in Nat
  BY DEF OllamaTypeInv, OllamaTypeOK
<1>2. item \in Item
  BY <1>1 DEF Item
<1>3. /\ output' = [output EXCEPT ![g] = <<item>>]
      /\ task' = [task EXCEPT ![g] = "ending"]
      /\ handled' = handled
  BY DEF Fail
<1> HIDE DEF item
<1>4. UNCHANGED <<api, prompted, rx, started, body, arrived, garbled, channel, reply>>
  BY DEF sessionVars
<1>5. output' \in [Gen -> Seq(Item)]
  BY <1>2, <1>3 DEF OllamaTypeInv, OllamaTypeOK
<1>6. task' \in [Gen -> {"none", "requesting", "reading", "ending", "ended"}]
  BY <1>3 DEF OllamaTypeInv, OllamaTypeOK
<1>7. \A c \in Gen : c # g => output'[c] = output[c] /\ task'[c] = task[c]
  BY <1>3 DEF OllamaTypeInv, OllamaTypeOK
<1>8. task'[g] = "ending"
  BY <1>3 DEF OllamaTypeInv, OllamaTypeOK
<1>9. OllamaTypeOK'
  BY <1>3, <1>4, <1>5, <1>6 DEF OllamaTypeInv, OllamaTypeOK
<1>10. ReadInv'
  BY <1>3, <1>4, <1>7, <1>8 DEF OllamaTypeInv, ReadInv
<1> QED
  BY <1>9, <1>10 DEF OllamaTypeInv

(* The service's answer and the end of a body keep the types. *)
LEMMA AnswerTyped ==
  ASSUME OllamaTypeInv, NEW g \in Gen, Answered(g) \/ StreamEnds(g)
  PROVE  OllamaTypeInv'
<1> USE OllamaAssumption
<1>1. /\ handled[g] \in Nat /\ arrived[g] \in Nat /\ Len(body[g]) \in Nat
      /\ arrived[g] <= 3 * Len(body[g])
  BY BodyIs DEF OllamaTypeInv, OllamaTypeOK
<1>2. CASE Answered(g) /\ Fail(g) /\ UNCHANGED body
  BY <1>2, FailedTyped DEF Answered
<1>3. ASSUME NEW b \in Bodies, Answered(g), body' = [body EXCEPT ![g] = b],
             task' = [task EXCEPT ![g] = "reading"], UNCHANGED <<handled, output>>
      PROVE  OllamaTypeInv'
  <2>1. /\ task[g] = "requesting"
        /\ UNCHANGED <<api, prompted, rx, started, arrived, garbled, channel, reply>>
    BY <1>3 DEF Answered, sessionVars
  <2>2. arrived[g] = 0 /\ handled[g] = 0 /\ garbled[g] = {} /\ task[g] # "none"
    BY <2>1 DEF OllamaTypeInv, ReadInv
  <2>3. body' \in [Gen -> Bodies \cup {<<>>}]
    BY <1>3 DEF OllamaTypeInv, OllamaTypeOK
  <2>4. task' \in [Gen -> {"none", "requesting", "reading", "ending", "ended"}]
    BY <1>3 DEF OllamaTypeInv, OllamaTypeOK
  <2>5. \A c \in Gen : c # g => body'[c] = body[c] /\ task'[c] = task[c]
    BY <1>3 DEF OllamaTypeInv, OllamaTypeOK
  <2>6. body'[g] = b /\ task'[g] = "reading" /\ Len(b) \in Nat
    BY <1>3 DEF OllamaTypeInv, OllamaTypeOK
  <2>7. ASSUME NEW c \in Gen
        PROVE  arrived[c] <= 3 * Len(body'[c]) /\ handled[c] <= Len(body'[c])
               /\ garbled[c] \subseteq DOMAIN body'[c]
    <3>1. CASE c = g
      BY <3>1, <2>2, <2>6
    <3>2. CASE c # g
      BY <3>2, <2>5 DEF OllamaTypeInv, OllamaTypeOK
    <3> QED
      BY <3>1, <3>2
  <2>8. OllamaTypeOK'
    BY <1>3, <2>1, <2>3, <2>4, <2>7 DEF OllamaTypeInv, OllamaTypeOK
  <2>9. ReadInv'
    BY <1>3, <2>1, <2>2, <2>5, <2>6 DEF OllamaTypeInv, ReadInv
  <2> QED
    BY <2>8, <2>9 DEF OllamaTypeInv
<1>4. CASE StreamEnds(g)
  <2>1. /\ task[g] = "reading" /\ output[g] = <<>>
        /\ 3 * handled[g] <= arrived[g]
        /\ UNCHANGED <<sessionVars, body, arrived, garbled, channel, reply>>
    BY <1>4 DEF StreamEnds, Awaiting, OllamaTypeInv, ReadInv
  <2>2. CASE Fail(g)
    BY <2>1, <2>2, FailedTyped
  <2>3. CASE task' = [task EXCEPT ![g] = "ending"] /\ UNCHANGED <<handled, output>>
    <3>1. task' \in [Gen -> {"none", "requesting", "reading", "ending", "ended"}]
      BY <2>3 DEF OllamaTypeInv, OllamaTypeOK
    <3>2. task'[g] = "ending" /\ \A c \in Gen : c # g => task'[c] = task[c]
      BY <2>3 DEF OllamaTypeInv, OllamaTypeOK
    <3>3. OllamaTypeOK'
      BY <2>1, <2>3, <3>1 DEF sessionVars, OllamaTypeInv, OllamaTypeOK
    <3>4. ReadInv'
      BY <2>1, <2>3, <3>2 DEF sessionVars, OllamaTypeInv, ReadInv
    <3> QED
      BY <3>3, <3>4 DEF OllamaTypeInv
  <2>4. CASE /\ arrived[g] - 3 * handled[g] \in {1, 2}
             /\ Handle(g, handled[g] + 1, "ending")
    <3>1. handled[g] + 1 \in 1..Len(body[g])
      BY <1>1, <2>1, <2>4
    <3> QED
      BY <2>1, <2>4, <3>1, HandledTyped
  <2> QED
    BY <1>4, <2>2, <2>3, <2>4 DEF StreamEnds
<1> QED
  BY <1>2, <1>3, <1>4 DEF Answered

(* The other steps of a generation keep the types. *)
LEMMA TaskTyped ==
  ASSUME OllamaTypeInv, NEW g \in Gen, Chunk(g) \/ Task(g)
  PROVE  OllamaTypeInv'
<1> USE OllamaAssumption
<1>1. /\ handled[g] \in Nat /\ arrived[g] \in Nat /\ Len(body[g]) \in Nat
      /\ arrived[g] <= 3 * Len(body[g]) /\ DOMAIN body[g] = 1..Len(body[g])
  BY BodyIs DEF OllamaTypeInv, OllamaTypeOK
<1>2. CASE HandleLine(g)
  <2>1. /\ task[g] = "reading" /\ 3 * (handled[g] + 1) <= arrived[g]
        /\ Handle(g, handled[g] + 1, "reading")
        /\ UNCHANGED <<sessionVars, body, arrived, garbled, channel, reply>>
    BY <1>2 DEF HandleLine, LineComplete
  <2>2. handled[g] + 1 \in 1..Len(body[g])
    BY <1>1, <2>1
  <2> QED
    BY <2>1, <2>2, HandledTyped
<1>3. CASE Chunk(g)
  <2>1. PICK n \in arrived[g] + 1 .. 3 * Len(body[g]) :
          /\ arrived' = [arrived EXCEPT ![g] = n]
          /\ garbled' = [garbled EXCEPT ![g] = garbled[g] \cup
                {i \in DOMAIN body[g] : body[g][i] = "wide" /\ n = 3 * i - 2}]
    BY <1>3 DEF Chunk
  <2>2. /\ task[g] = "reading" /\ n \in Nat /\ n <= 3 * Len(body[g]) /\ arrived[g] <= n
        /\ UNCHANGED <<api, prompted, rx, started, task, body, handled, output, channel, reply>>
    BY <1>1, <1>3 DEF Chunk, Awaiting, sessionVars
  <2>3. arrived' \in [Gen -> Nat] /\ arrived'[g] = n
        /\ \A c \in Gen : c # g => arrived'[c] = arrived[c]
    BY <2>1, <2>2 DEF OllamaTypeInv, OllamaTypeOK
  <2> DEFINE more == {i \in DOMAIN body[g] : body[g][i] = "wide" /\ n = 3 * i - 2}
  <2>4. garbled' = [garbled EXCEPT ![g] = garbled[g] \cup more]
    BY <2>1
  <2>5. more \subseteq DOMAIN body[g] /\ DOMAIN body[g] \subseteq Nat
    BY <1>1
  <2> HIDE DEF more
  <2>6. garbled' \in [Gen -> SUBSET Nat] /\ garbled'[g] = garbled[g] \cup more
        /\ \A c \in Gen : c # g => garbled'[c] = garbled[c]
    BY <2>4, <2>5 DEF OllamaTypeInv, OllamaTypeOK
  <2>7. \A c \in Gen : arrived'[c] <= 3 * Len(body[c]) /\ garbled'[c] \subseteq DOMAIN body[c]
    BY <2>2, <2>3, <2>5, <2>6 DEF OllamaTypeInv, OllamaTypeOK
  <2>8. OllamaTypeOK'
    BY <2>2, <2>3, <2>6, <2>7 DEF OllamaTypeInv, OllamaTypeOK
  <2>9. ReadInv'
    <3>1. 3 * handled[g] <= arrived'[g]
      BY <1>1, <2>2, <2>3 DEF OllamaTypeInv, ReadInv
    <3> QED
      BY <2>2, <2>3, <2>6, <3>1 DEF OllamaTypeInv, ReadInv
  <2> QED
    BY <2>8, <2>9 DEF OllamaTypeInv
<1>4. CASE Send(g)
  <2>1. /\ output[g] # <<>> /\ output[g] \in Seq(Item) /\ channel[g] \in Seq(Item)
        /\ output' = [output EXCEPT ![g] = Tail(output[g])]
        /\ UNCHANGED <<sessionVars, task, body, arrived, handled, garbled, reply>>
    BY <1>4 DEF Send, OllamaTypeInv, OllamaTypeOK
  <2>2. Head(output[g]) \in Item /\ Tail(output[g]) \in Seq(Item)
    BY <2>1
  <2>3. output' \in [Gen -> Seq(Item)] /\ \A c \in Gen : c # g => output'[c] = output[c]
    BY <2>1, <2>2 DEF OllamaTypeInv, OllamaTypeOK
  <2>4. task[g] \notin {"none", "requesting"}
    BY <2>1 DEF OllamaTypeInv, ReadInv
  <2>5. /\ channel' \in [Gen -> Seq(Item)]
        /\ \A c \in Gen : Len(channel'[c]) <= Capacity
        /\ \A c \in Gen : c # g => channel'[c] = channel[c]
    <3>1. CASE UNCHANGED channel
      BY <3>1 DEF OllamaTypeInv, OllamaTypeOK
    <3>2. CASE /\ Len(channel[g]) < Capacity
               /\ channel' = [channel EXCEPT ![g] = Append(channel[g], Head(output[g]))]
      <4>1. /\ Append(channel[g], Head(output[g])) \in Seq(Item)
            /\ Len(Append(channel[g], Head(output[g]))) = Len(channel[g]) + 1
            /\ Len(channel[g]) \in Nat
        BY <2>1, <2>2
      <4>2. Len(Append(channel[g], Head(output[g]))) <= Capacity
        BY <3>2, <4>1
      <4> QED
        BY <3>2, <4>1, <4>2 DEF OllamaTypeInv, OllamaTypeOK
    <3> QED
      BY <1>4, <3>1, <3>2 DEF Send
  <2>6. OllamaTypeOK'
    BY <2>1, <2>3, <2>5 DEF sessionVars, OllamaTypeInv, OllamaTypeOK
  <2>7. ReadInv'
    BY <2>1, <2>3, <2>4, <2>5 DEF sessionVars, OllamaTypeInv, ReadInv
  <2> QED
    BY <2>6, <2>7 DEF OllamaTypeInv
<1>5. CASE TaskEnds(g)
  <2>1. /\ task' = [task EXCEPT ![g] = "ended"] /\ task[g] = "ending"
        /\ UNCHANGED <<sessionVars, body, arrived, handled, garbled, output, channel, reply>>
    BY <1>5 DEF TaskEnds
  <2>2. /\ task' \in [Gen -> {"none", "requesting", "reading", "ending", "ended"}]
        /\ task'[g] = "ended" /\ \A c \in Gen : c # g => task'[c] = task[c]
    BY <2>1 DEF OllamaTypeInv, OllamaTypeOK
  <2>3. OllamaTypeOK'
    BY <2>1, <2>2 DEF sessionVars, OllamaTypeInv, OllamaTypeOK
  <2>4. ReadInv'
    BY <2>1, <2>2 DEF sessionVars, OllamaTypeInv, ReadInv
  <2> QED
    BY <2>3, <2>4 DEF OllamaTypeInv
<1> QED
  BY <1>2, <1>3, <1>4, <1>5 DEF Task

(* The types always hold. *)
LEMMA OllamaTyped == OllamaSpec => []OllamaTypeInv
<1>1. OllamaInit => OllamaTypeInv
  <2> SUFFICES ASSUME OllamaInit PROVE OllamaTypeInv
    OBVIOUS
  <2> USE OllamaAssumption
  <2>1. /\ task \in [Gen -> {"none"}] /\ body \in [Gen -> {<<>>}] /\ handled \in [Gen -> {0}]
        /\ arrived \in [Gen -> {0}] /\ garbled \in [Gen -> {{}}]
        /\ output \in [Gen -> {<<>>}] /\ channel \in [Gen -> {<<>>}]
    BY DEF OllamaInit
  <2>2. body \in [Gen -> Bodies \cup {<<>>}] /\ \A g \in Gen : Len(body[g]) = 0
    BY <2>1
  <2>3. OllamaTypeOK
    <3>1. /\ arrived \in [Gen -> Nat] /\ handled \in [Gen -> Nat]
          /\ garbled \in [Gen -> SUBSET Nat]
      BY <2>1
    <3>2. output \in [Gen -> Seq(Item)] /\ channel \in [Gen -> Seq(Item)]
      <4>1. {<<>>} \subseteq Seq(Item)
        OBVIOUS
      <4>2. \A S, T : S \subseteq T => [Gen -> S] \subseteq [Gen -> T]
        OBVIOUS
      <4> QED
        BY <2>1, <4>1, <4>2
    <3>3. \A g \in Gen : /\ arrived[g] <= 3 * Len(body[g]) /\ handled[g] <= Len(body[g])
                        /\ garbled[g] \subseteq DOMAIN body[g]
      BY <2>1, <2>2
    <3>4. \A g \in Gen : Len(channel[g]) <= Capacity
      BY <2>1
    <3>5. task \in [Gen -> {"none", "requesting", "reading", "ending", "ended"}]
      BY <2>1
    <3>6. api \in {"realtime", "text"} /\ prompted \in BOOLEAN
      BY Zenon DEF OllamaInit
    <3>7. started \in 0..MaxGens /\ rx \in 0..started
      BY DEF OllamaInit
    <3>8. reply \in Seq(Item)
      <4>1. reply = <<>>
        BY Zenon DEF OllamaInit
      <4> QED
        BY <4>1
    <3> QED
      BY <3>7, <3>8, <2>2, <3>1, <3>2, <3>3, <3>4, <3>5, <3>6 DEF OllamaTypeOK
  <2>4. ReadInv
    BY <2>1 DEF OllamaInit, ReadInv
  <2> QED
    BY <2>3, <2>4 DEF OllamaTypeInv
<1>2. OllamaTypeInv /\ [OllamaNext]_ollamaVars => OllamaTypeInv'
  <2> SUFFICES ASSUME OllamaTypeInv, [OllamaNext]_ollamaVars PROVE OllamaTypeInv'
    OBVIOUS
  <2>1. CASE Text \/ StartResponse \/ GenerateText \/ CloseSession \/ Recv
    BY <2>1, SessionTyped
  <2>2. ASSUME NEW g \in Gen, Ollama(g) \/ Task(g) PROVE OllamaTypeInv'
    BY <2>2, AnswerTyped, TaskTyped DEF Ollama
  <2>3. CASE UNCHANGED ollamaVars
    BY <2>3 DEF ollamaVars, sessionVars, streamVars, OllamaTypeInv, OllamaTypeOK, ReadInv
  <2> QED
    BY <2>1, <2>2, <2>3 DEF OllamaNext
<1> QED
  BY <1>1, <1>2, PTL DEF OllamaSpec

(* The types of the generations: no channel holds more than its capacity,  *)
(* and no task has handled a line that is not in its body.                 *)
THEOREM OllamaTypeCorrect == OllamaSpec => []OllamaTypeOK
<1>1. OllamaTypeInv => OllamaTypeOK
  BY DEF OllamaTypeInv
<1> QED
  BY <1>1, OllamaTyped, PTL

-----------------------------------------------------------------------------
(* Items put together in three are the same either way. *)
LEMMA ItemsAssociate ==
  \A s, t, u \in Seq(Item) : (s \o t) \o u = s \o (t \o u)
BY ConcatAssociative

(* What the first k lines of a body say. *)
Lines(g, k) == FlattenSeq([line \in 1..k |-> Says(g, line)])

(* The items of none are failures. *)
Clean(items) == \A i \in 1..Len(items) : ~IsFailure(items[i])

(* They say items. *)
LEMMA LinesType ==
  ASSUME OllamaTypeInv, NEW g \in Gen, NEW k \in 0..Len(body[g])
  PROVE  Lines(g, k) \in Seq(Item)
<1>1. Len(body[g]) \in Nat /\ \A line \in 1..k : line \in 1..Len(body[g])
  BY BodyIs
<1>2. \A line \in 1..k : Says(g, line) \in Seq(Item)
  BY <1>1, SaysIs DEF OllamaTypeInv, OllamaTypeOK
<1>3. [line \in 1..k |-> Says(g, line)] \in Seq(Seq(Item))
  BY <1>1, <1>2
<1> QED
  BY <1>3, FlattenType DEF Lines

(* One more line adds what it says. *)
LEMMA LinesNext ==
  ASSUME OllamaTypeInv, NEW g \in Gen, NEW k \in 1..Len(body[g])
  PROVE  Lines(g, k) = Lines(g, k - 1) \o Says(g, k)
<1> DEFINE before == [line \in 1..k - 1 |-> Says(g, line)]
<1>1. Len(body[g]) \in Nat /\ \A line \in 1..k : line \in 1..Len(body[g])
  BY BodyIs
<1>2. \A line \in 1..k : Says(g, line) \in Seq(Item)
  BY <1>1, SaysIs DEF OllamaTypeInv, OllamaTypeOK
<1>3. before \in Seq(Seq(Item)) /\ Len(before) = k - 1
  BY <1>1, <1>2
<1>4. [line \in 1..k |-> Says(g, line)] = Append(before, Says(g, k))
  <2>1. Append(before, Says(g, k)) = [i \in 1..k |-> IF i = k THEN Says(g, k) ELSE before[i]]
    BY <1>1, <1>2, <1>3
  <2>2. \A i \in 1..k : i # k => before[i] = Says(g, i)
    BY <1>1
  <2> QED
    BY <2>1, <2>2
<1>5. FlattenSeq(Append(before, Says(g, k))) = FlattenSeq(before) \o Says(g, k)
  <2> HIDE DEF before
  <2> QED
    BY <1>1, <1>2, <1>3, FlattenAppend
<1> QED
  BY <1>4, <1>5 DEF Lines

(* No line says nothing. *)
LEMMA LinesNone ==
  ASSUME NEW g PROVE Lines(g, 0) = <<>>
<1>1. [line \in 1..0 |-> Says(g, line)] = <<>>
  OBVIOUS
<1>2. <<>> \in Seq(Seq(Item)) /\ Len(<<>>) = 0
  OBVIOUS
<1>3. FlattenSeq(<<>>) = <<>>
  BY ZenonT(40), <1>2, FlattenIs
<1> QED
  BY <1>1, <1>3 DEF Lines

(* While no line fails, no failure is said, and what is said goes on in    *)
(* what the whole body says.                                               *)
LEMMA LinesAre ==
  ASSUME OllamaTypeInv, NEW g \in Gen, NEW k \in 0..Len(body[g]),
         \A line \in 1..k : ~Fails(g, line)
  PROVE  Clean(Lines(g, k))
<1> DEFINE Good == {l \in 0..k : Clean(Lines(g, l))}
<1>0. Len(body[g]) \in Nat
  BY BodyIs
<1>1. 0 \in Good
  BY <1>0, LinesNone DEF Clean
<1>2. ASSUME NEW l \in 1..k, l - 1 \in Good PROVE l \in Good
  <2>1. l \in 1..Len(body[g]) /\ l - 1 \in 0..Len(body[g])
    BY <1>0
  <2>2. Lines(g, l - 1) \in Seq(Item) /\ Says(g, l) \in Seq(Item)
    BY <2>1, LinesType, SaysIs DEF OllamaTypeInv, OllamaTypeOK
  <2>3. Clean(Says(g, l))
    BY <2>1, SaysIs DEF Clean, OllamaTypeInv, OllamaTypeOK
  <2>4. Lines(g, l) = Lines(g, l - 1) \o Says(g, l)
    BY <2>1, LinesNext
  <2>5. ASSUME NEW s \in Seq(Item), NEW t \in Seq(Item), Clean(s), Clean(t) PROVE Clean(s \o t)
    BY <2>5 DEF Clean
  <2>6. Clean(Lines(g, l - 1))
    BY <1>2
  <2>7. Clean(Lines(g, l - 1) \o Says(g, l))
    BY Zenon, <2>2, <2>3, <2>5, <2>6
  <2>8. Clean(Lines(g, l))
    BY Zenon, <2>4, <2>7
  <2>9. l \in 0..k
    BY <1>0
  <2> QED
    BY Zenon, <2>8, <2>9
<1> HIDE DEF Good
<1>3. k \in Nat /\ k \in 0..k
  BY <1>0
<1>4. k \in Good
  BY <1>1, <1>2, <1>3, UpTo
<1> QED
  BY <1>4 DEF Good

(* What the first lines say goes on in what the whole body says. *)
LEMMA LinesContinue ==
  ASSUME OllamaTypeInv, NEW g \in Gen, NEW k \in 0..Len(body[g])
  PROVE  \E more \in Seq(Item) : Lines(g, Len(body[g])) = Lines(g, k) \o more
<1> DEFINE n == Len(body[g])
           Good == {l \in 0..(n - k) : \E more \in Seq(Item) : Lines(g, k + l) = Lines(g, k) \o more}
<1>0. n \in Nat /\ k \in Nat /\ n - k \in Nat /\ DOMAIN body[g] = 1..n
  BY BodyIs
<1>1. 0 \in Good
  <2>1. Lines(g, k) \o <<>> = Lines(g, k) /\ <<>> \in Seq(Item)
    BY LinesType, ConcatEmptySeq
  <2>2. k + 0 = k /\ 0 \in 0..(n - k)
    BY <1>0
  <2>3. \E more \in Seq(Item) : Lines(g, k + 0) = Lines(g, k) \o more
    BY Zenon, <2>1, <2>2
  <2> QED
    BY Zenon, <2>2, <2>3
<1>2. ASSUME NEW l \in 1..(n - k), l - 1 \in Good PROVE l \in Good
  <2>1. k + l \in 1..n /\ (k + l) - 1 = k + (l - 1) /\ l \in 0..(n - k)
    BY <1>0
  <2>2. Says(g, k + l) \in Seq(Item) /\ Lines(g, k) \in Seq(Item)
    BY <2>1, LinesType, SaysIs DEF OllamaTypeInv, OllamaTypeOK
  <2>3. PICK more \in Seq(Item) : Lines(g, k + (l - 1)) = Lines(g, k) \o more
    BY <1>2
  <2>4. Lines(g, k + l) = (Lines(g, k) \o more) \o Says(g, k + l)
    BY <2>1, <2>3, LinesNext
  <2>5. Lines(g, k + l) = Lines(g, k) \o (more \o Says(g, k + l))
    <3>1. (Lines(g, k) \o more) \o Says(g, k + l) = Lines(g, k) \o (more \o Says(g, k + l))
      <4> HIDE DEF Good
      <4>1. \A s, t, u \in Seq(Item) : (s \o t) \o u = s \o (t \o u)
        BY ConcatAssociative
      <4> QED
        BY Zenon, <2>2, <4>1
    <3> QED
      BY Zenon, <2>4, <3>1
  <2>6. more \o Says(g, k + l) \in Seq(Item)
    BY <2>2
  <2> QED
    BY Zenon, <2>1, <2>5, <2>6
<1>3. n - k \in Good
  <2>1. n - k \in 0..(n - k)
    BY <1>0
  <2> HIDE DEF Good, n
  <2> QED
    BY <1>0, <1>1, <1>2, <2>1, UpTo
<1>4. k + (n - k) = n
  BY <1>0
<1> QED
  BY <1>3, <1>4

(* Item by item, `items' read as `meant'. *)
Alike(items, meant, split) ==
  /\ items \in Seq(Item) /\ meant \in Seq(Item)
  /\ Len(items) = Len(meant)
  /\ \A i \in 1..Len(items) : ReadsAs(items[i], meant[i], split)

(* A line is decoded to what it means, but for a split character. *)
LEMMA SaysAlike ==
  ASSUME OllamaTypeInv, NEW g \in Gen, NEW line \in 1..Len(body[g])
  PROVE  Alike(Says(g, line), ItemsOf(g, line, "text"), garbled[g])
<1> DEFINE item(says) == [line |-> line, says |-> says]
           read == IF line \in garbled[g] THEN "garbled" ELSE "text"
<1>1. line \in Nat
  BY BodyIs
<1>2. \A says \in {"text", "garbled", "completed", "final", "failure"} : item(says) \in Item
  BY <1>1 DEF Item
<1>3. item(read) \in Item /\ ReadsAs(item(read), item("text"), garbled[g])
  BY <1>2 DEF ReadsAs
<1>4. \A x : ReadsAs(x, x, garbled[g])
  BY DEF ReadsAs
<1> HIDE DEF item
<1>5. Alike(<<>>, <<>>, garbled[g])
  BY DEF Alike
<1>6. ASSUME NEW x \in Item, NEW y \in Item, ReadsAs(x, y, garbled[g])
      PROVE  Alike(<<x>>, <<y>>, garbled[g])
  BY <1>6 DEF Alike
<1>7. ASSUME NEW x \in Item, NEW y \in Item, NEW z \in Item, ReadsAs(x, y, garbled[g])
      PROVE  Alike(<<x, z>>, <<y, z>>, garbled[g])
  <2>1. <<x, z>> \in Seq(Item) /\ <<y, z>> \in Seq(Item)
    OBVIOUS
  <2>2. /\ Len(<<x, z>>) = 2 /\ <<x, z>>[1] = x /\ <<x, z>>[2] = z
        /\ Len(<<y, z>>) = 2 /\ <<y, z>>[1] = y /\ <<y, z>>[2] = z
        /\ \A i \in 1..2 : i = 1 \/ i = 2
    OBVIOUS
  <2> QED
    BY <1>4, <1>7, <2>1, <2>2 DEF Alike
<1> DEFINE Items(reads) ==
        CASE body[g][line] \in {"token", "wide"} -> <<item(reads)>>
          [] body[g][line] = "blank"  -> <<>>
          [] body[g][line] = "done"   ->
               <<item(IF api = "realtime" THEN "completed" ELSE "final")>>
          [] body[g][line] = "last"   ->
               IF api = "realtime" THEN <<item(reads), item("completed")>> ELSE <<item("final")>>
          [] OTHER -> <<item("failure")>>
<1>8. Says(g, line) = Items(read) /\ ItemsOf(g, line, "text") = Items("text")
  BY Zenon DEF Says, ItemsOf, item
<1>9. Alike(Items(read), Items("text"), garbled[g])
  <2> DEFINE kind == body[g][line]
  <2>1. CASE kind \in {"token", "wide"}
    <3>1. Items(read) = <<item(read)>> /\ Items("text") = <<item("text")>>
      BY <2>1
    <3> QED
      BY <1>2, <1>3, <1>6, <3>1
  <2>2. CASE kind = "last" /\ api = "realtime"
    <3>1. /\ Items(read) = <<item(read), item("completed")>>
          /\ Items("text") = <<item("text"), item("completed")>>
      BY <2>2
    <3> QED
      BY <1>2, <1>3, <1>7, <3>1
  <2>3. CASE kind \notin {"token", "wide"} /\ ~(kind = "last" /\ api = "realtime")
    <3>1. /\ Items(read) = Items("text")
          /\ Items(read) \in {<<>>, <<item("completed")>>, <<item("final")>>, <<item("failure")>>}
      BY <2>3
    <3> HIDE DEF Items
    <3> QED
      BY <1>2, <1>4, <1>5, <1>6, <3>1
  <2> QED
    BY <2>1, <2>2, <2>3
<1> QED
  BY Zenon, <1>8, <1>9

(* What reads alike, followed by what reads alike. *)
LEMMA AlikeConcat ==
  ASSUME NEW s, NEW t, NEW u, NEW v, NEW split, Alike(s, t, split), Alike(u, v, split)
  PROVE  Alike(s \o u, t \o v, split)
<1>1. /\ s \in Seq(Item) /\ t \in Seq(Item) /\ u \in Seq(Item) /\ v \in Seq(Item)
      /\ Len(s) = Len(t) /\ Len(u) = Len(v)
      /\ \A i \in 1..Len(s) : ReadsAs(s[i], t[i], split)
      /\ \A i \in 1..Len(u) : ReadsAs(u[i], v[i], split)
  BY DEF Alike
<1>2. /\ s \o u \in Seq(Item) /\ Len(s \o u) = Len(s) + Len(u)
      /\ t \o v \in Seq(Item) /\ Len(t \o v) = Len(s) + Len(u)
  BY <1>1
<1>3. ASSUME NEW i \in 1..Len(s) + Len(u)
      PROVE  ReadsAs((s \o u)[i], (t \o v)[i], split)
  <2>1. CASE i <= Len(s)
    <3>1. i \in 1..Len(s) /\ (s \o u)[i] = s[i] /\ (t \o v)[i] = t[i]
      BY <1>1, <2>1
    <3> QED
      BY Zenon, <1>1, <3>1
  <2>2. CASE i > Len(s)
    <3>1. i - Len(s) \in 1..Len(u) /\ (s \o u)[i] = u[i - Len(s)] /\ (t \o v)[i] = v[i - Len(s)]
      BY <1>1, <2>2
    <3> QED
      BY Zenon, <1>1, <3>1
  <2> QED
    BY <1>1, <2>1, <2>2
<1> QED
  BY <1>2, <1>3 DEF Alike

(* A whole body is decoded to what it means, but for split characters. *)
LEMMA LinesAlike ==
  ASSUME OllamaTypeInv, NEW g \in Gen
  PROVE  Alike(Lines(g, Len(body[g])), Meaning(g), garbled[g])
<1> DEFINE n == Len(body[g])
           read == [line \in 1..n |-> Says(g, line)]
           meant == [line \in 1..n |-> ItemsOf(g, line, "text")]
<1>0. n \in Nat /\ DOMAIN body[g] = 1..n
  BY BodyIs
<1>1. \A line \in 1..n : Alike(read[line], meant[line], garbled[g])
  BY SaysAlike
<1>2. Lines(g, n) = FlattenSeq(read) /\ Meaning(g) = FlattenSeq(meant)
  BY <1>0 DEF Lines, Meaning
<1>3. read \in Seq(Seq(Item)) /\ Len(read) = n /\ meant \in Seq(Seq(Item)) /\ Len(meant) = n
  <2>1. \A line \in 1..n : read[line] \in Seq(Item) /\ meant[line] \in Seq(Item)
    BY <1>1 DEF Alike
  <2>2. \A line \in 1..n : Says(g, line) \in Seq(Item) /\ ItemsOf(g, line, "text") \in Seq(Item)
    BY <2>1
  <2> QED
    BY <1>0, <2>2
<1> HIDE DEF n, read, meant
<1>4. PICK f \in [0..n -> Seq(Item)] :
        f[0] = <<>> /\ (\A k \in 1..n : f[k] = f[k - 1] \o read[k]) /\ FlattenSeq(read) = f[n]
  <2>1. \E flat \in [0..Len(read) -> Seq(Item)] :
          /\ flat[0] = <<>>
          /\ \A k \in 1..Len(read) : flat[k] = flat[k - 1] \o read[k]
          /\ FlattenSeq(read) = flat[Len(read)]
    BY Zenon, <1>3, FlattenIs
  <2> QED
    BY Zenon, <1>3, <2>1
<1>5. PICK h \in [0..n -> Seq(Item)] :
        h[0] = <<>> /\ (\A k \in 1..n : h[k] = h[k - 1] \o meant[k]) /\ FlattenSeq(meant) = h[n]
  <2>1. \E flat \in [0..Len(meant) -> Seq(Item)] :
          /\ flat[0] = <<>>
          /\ \A k \in 1..Len(meant) : flat[k] = flat[k - 1] \o meant[k]
          /\ FlattenSeq(meant) = flat[Len(meant)]
    BY Zenon, <1>3, FlattenIs
  <2> QED
    BY Zenon, <1>3, <2>1
<1> DEFINE Good == {k \in 0..n : Alike(f[k], h[k], garbled[g])}
<1>6. 0 \in Good
  <2>1. Alike(<<>>, <<>>, garbled[g])
    BY DEF Alike
  <2> QED
    BY <1>0, <1>4, <1>5, <2>1 DEF n
<1>7. ASSUME NEW k \in 1..n, k - 1 \in Good PROVE k \in Good
  <2>1. Alike(f[k - 1] \o read[k], h[k - 1] \o meant[k], garbled[g])
    BY Zenon, <1>1, <1>7, AlikeConcat
  <2>2. k \in 0..n
    BY <1>0 DEF n
  <2> QED
    BY Zenon, <1>4, <1>5, <2>1, <2>2
<1> HIDE DEF Good
<1>8. n \in Nat /\ n \in 0..n
  BY <1>0 DEF n
<1>9. n \in Good
  BY <1>6, <1>7, <1>8, UpTo
<1> QED
  BY Zenon, <1>2, <1>4, <1>5, <1>9 DEF Good, n

-----------------------------------------------------------------------------
(* Of generation g, the caller has received and is still to receive what   *)
(* the first k lines say and then `end'.  No line among the k fails, and   *)
(* `end' is a failure, or nothing while the task goes on and all its lines *)
(* are among the k.  What is still to come is `rest', which for a caller   *)
(* that goes on receiving is in the channel and in the task's hands.       *)
Owes(g, k, end, rest) ==
  /\ k \in 0..handled[g]
  /\ \A line \in 1..k : ~Fails(g, line)
  /\ end = <<>> => k = handled[g]
  /\ end # <<>> => /\ task[g] \in {"ending", "ended"}
                   /\ \E item \in Item : IsFailure(item) /\ end = <<item>>
  /\ reply \o rest = Lines(g, k) \o end
  /\ rx = g => rest = channel[g] \o output[g]

OrderInv ==
  \A g \in Gen :
    g = started => \E k \in Nat, end \in Seq(Item), rest \in Seq(Item) : Owes(g, k, end, rest)

(* Lines that have been handled say what they said. *)
LEMMA LinesSame ==
  ASSUME NEW g \in Gen, NEW k \in Nat, UNCHANGED api,
         \A line \in 1..k : /\ body'[g][line] = body[g][line]
                            /\ line \in garbled'[g] <=> line \in garbled[g]
  PROVE  /\ Lines(g, k)' = Lines(g, k)
         /\ \A line \in 1..k : Fails(g, line)' = Fails(g, line)
<1>1. \A line \in 1..k : Says(g, line)' = Says(g, line)
  BY DEF Says, ItemsOf
<1>2. [line \in 1..k |-> Says(g, line)'] = [line \in 1..k |-> Says(g, line)]
  BY <1>1
<1>3. Lines(g, k)' = FlattenSeq([line \in 1..k |-> Says(g, line)'])
  BY Zenon DEF Lines
<1>4. Lines(g, k)' = Lines(g, k)
  BY Zenon, <1>2, <1>3 DEF Lines
<1>5. \A line \in 1..k : Fails(g, line)' = Fails(g, line)
  BY DEF Fails
<1> QED
  BY <1>4, <1>5

(* A step that does nothing to the latest generation, or only moves what   *)
(* it has said on its way to the caller, or only reads on, keeps the order.*)
LEMMA OrderKept ==
  ASSUME OllamaTypeInv, OrderInv, UNCHANGED <<api, started, reply>>, rx' \in {0, rx},
         \A g \in Gen : g = started =>
           /\ handled'[g] = handled[g]
           /\ \A line \in 1..handled[g] : /\ body'[g][line] = body[g][line]
                                          /\ line \in garbled'[g] <=> line \in garbled[g]
           /\ task[g] \in {"ending", "ended"} => task'[g] \in {"ending", "ended"}
           /\ rx' = g => channel'[g] \o output'[g] = channel[g] \o output[g]
  PROVE  OrderInv'
<1> SUFFICES ASSUME NEW g \in Gen, g = started
             PROVE  \E k \in Nat, end \in Seq(Item), rest \in Seq(Item) : Owes(g, k, end, rest)'
  BY DEF OrderInv
<1>1. PICK k \in Nat, end \in Seq(Item), rest \in Seq(Item) : Owes(g, k, end, rest)
  BY DEF OrderInv
<1>2. /\ k \in 0..handled[g]
      /\ \A line \in 1..k : ~Fails(g, line)
      /\ end = <<>> => k = handled[g]
      /\ end # <<>> => task[g] \in {"ending", "ended"}
      /\ reply \o rest = Lines(g, k) \o end
      /\ rx = g => rest = channel[g] \o output[g]
  BY <1>1 DEF Owes
<1>3. end # <<>> => \E item \in Item : IsFailure(item) /\ end = <<item>>
  BY <1>1 DEF Owes
<1>4. handled[g] \in Nat /\ g # 0
  BY DEF Gen, OllamaTypeInv, OllamaTypeOK
<1>5. Lines(g, k)' = Lines(g, k) /\ \A line \in 1..k : Fails(g, line)' = Fails(g, line)
  <2>1. \A line \in 1..k : line \in 1..handled[g]
    BY <1>2, <1>4
  <2>2. \A line \in 1..k : /\ body'[g][line] = body[g][line]
                           /\ line \in garbled'[g] <=> line \in garbled[g]
    BY Zenon, <2>1
  <2>3. api' = api
    BY Zenon
  <2> QED
    BY Zenon, <2>2, <2>3, LinesSame
<1>6. rx' = g => rx = g
  BY <1>4
<1>7. /\ k \in 0..handled'[g]
      /\ \A line \in 1..k : ~Fails(g, line)'
      /\ end = <<>> => k = handled'[g]
      /\ end # <<>> => task'[g] \in {"ending", "ended"}
      /\ rx' = g => rest = channel'[g] \o output'[g]
  BY Zenon, <1>2, <1>5, <1>6
<1>8. reply' \o rest = Lines(g, k)' \o end
  BY Zenon, <1>2, <1>5
<1>9. Owes(g, k, end, rest)'
  BY Zenon, <1>3, <1>7, <1>8 DEF Owes, IsFailure
<1> QED
  BY <1>9

(* While the task has not ended, the caller is owed what its lines said;   *)
(* and when the task's hands are empty and it says more, that as well.     *)
LEMMA OwesMore ==
  ASSUME OllamaTypeInv, OrderInv, NEW g \in Gen, g = started,
         task[g] \in {"requesting", "reading"}, output[g] = <<>>,
         NEW items \in Seq(Item)
  PROVE  /\ \A line \in 1..handled[g] : ~Fails(g, line)
         /\ \E rest \in Seq(Item) :
              /\ reply \o rest = Lines(g, handled[g]) \o items
              /\ rx = g => rest = channel[g] \o items
<1>1. PICK k \in Nat, end \in Seq(Item), rest \in Seq(Item) : Owes(g, k, end, rest)
  BY DEF OrderInv
<1>2. end = <<>>
  BY <1>1 DEF Owes
<1>3. k = handled[g] /\ \A line \in 1..k : ~Fails(g, line)
  BY <1>1, <1>2 DEF Owes
<1>4. reply \o rest = Lines(g, k) \o end /\ (rx = g => rest = channel[g] \o output[g])
  BY Zenon, <1>1 DEF Owes
<1>5. /\ reply \in Seq(Item) /\ channel[g] \in Seq(Item) /\ Lines(g, k) \in Seq(Item)
  <2>1. k \in 0..Len(body[g])
    BY <1>3, BodyIs DEF OllamaTypeInv, OllamaTypeOK
  <2> QED
    BY <2>1, LinesType DEF OllamaTypeInv, OllamaTypeOK
<1>6. reply \o rest = Lines(g, k)
  BY <1>2, <1>4, <1>5, ConcatEmptySeq
<1>7. reply \o (rest \o items) = Lines(g, k) \o items
  <2>1. (reply \o rest) \o items = reply \o (rest \o items)
    <3>1. reply \in Seq(Item) /\ rest \in Seq(Item) /\ items \in Seq(Item)
      BY <1>5
    <3> QED
      BY Zenon, <3>1, ItemsAssociate
  <2> QED
    BY Zenon, <1>6, <2>1
<1>8. rx = g => rest \o items = channel[g] \o items
  <2>1. channel[g] \o <<>> = channel[g]
    BY <1>5, ConcatEmptySeq
  <2> QED
    BY Zenon, <1>4, <2>1
<1>9. rest \o items \in Seq(Item)
  OBVIOUS
<1> QED
  BY Zenon, <1>3, <1>7, <1>8, <1>9

(* A line that is handled keeps the order. *)
LEMMA OrderHandled ==
  ASSUME OllamaTypeInv, OrderInv, NEW c \in Gen, NEW next \in {"reading", "ending"},
         task[c] = "reading", output[c] = <<>>, handled[c] + 1 \in 1..Len(body[c]),
         Handle(c, handled[c] + 1, next),
         UNCHANGED <<sessionVars, body, arrived, garbled, channel, reply>>
  PROVE  OrderInv'
<1>1. /\ handled' = [handled EXCEPT ![c] = handled[c] + 1]
      /\ output' = [output EXCEPT ![c] = Says(c, handled[c] + 1)]
      /\ task' = [task EXCEPT ![c] = IF Fails(c, handled[c] + 1) THEN "ending" ELSE next]
  BY DEF Handle
<1>2. /\ handled \in [Gen -> Nat] /\ output \in [Gen -> Seq(Item)]
      /\ task \in [Gen -> {"none", "requesting", "reading", "ending", "ended"}]
  BY DEF OllamaTypeInv, OllamaTypeOK
<1>3. UNCHANGED <<api, prompted, rx, started, body, garbled, channel, reply>>
  BY DEF sessionVars
<1>4. CASE c # started
  <2>1. \A g \in Gen : g = started =>
          handled'[g] = handled[g] /\ output'[g] = output[g] /\ task'[g] = task[g]
    BY <1>1, <1>2, <1>4
  <2> QED
    BY Zenon, <1>3, <2>1, OrderKept
<1>5. CASE c = started
  <2> SUFFICES \E k \in Nat, end \in Seq(Item), rest \in Seq(Item) : Owes(c, k, end, rest)'
    BY <1>3, <1>5 DEF OrderInv
  <2> DEFINE h == handled[c]
             items == Says(c, h + 1)
  <2>1. PICK k \in Nat : k = h
    BY <1>2
  <2>2. PICK more \in Seq(Item) : more = items
    BY SaysIs DEF OllamaTypeInv, OllamaTypeOK
  <2>3. PICK rest \in Seq(Item) :
          /\ reply \o rest = Lines(c, h) \o items
          /\ rx = c => rest = channel[c] \o items
    BY <1>5, <2>2, OwesMore
  <2>4. \A line \in 1..h : ~Fails(c, line)
    BY <1>5, <2>2, OwesMore
  <2>5. /\ handled'[c] = h + 1 /\ output'[c] = items
        /\ task'[c] = IF Fails(c, h + 1) THEN "ending" ELSE next
    BY <1>1, <1>2
  <2>6. /\ Lines(c, k)' = Lines(c, k) /\ Lines(c, k + 1)' = Lines(c, k + 1)
        /\ \A line \in 1..k + 1 : Fails(c, line)' = Fails(c, line)
    BY <1>3, LinesSame
  <2>7. CASE Fails(c, h + 1)
    <3>1. \E item \in Item : IsFailure(item) /\ more = <<item>>
      BY <2>2, <2>7, SaysIs DEF OllamaTypeInv, OllamaTypeOK
    <3>2. more # <<>>
      BY <3>1
    <3>3. task'[c] \in {"ending", "ended"}
      BY <2>5, <2>7
    <3>4. k \in 0..handled'[c] /\ \A line \in 1..k : ~Fails(c, line)'
      <4>1. k \in 0..(h + 1) /\ \A line \in 1..k : line \in 1..k + 1
        BY <2>1
      <4> QED
        BY Zenon, <2>1, <2>4, <2>5, <2>6, <4>1
    <3>5. reply' \o rest = Lines(c, k)' \o more
      BY Zenon, <1>3, <2>1, <2>2, <2>3, <2>6
    <3>6. rx' = c => rest = channel'[c] \o output'[c]
      BY Zenon, <1>3, <2>3, <2>5
    <3>7. Owes(c, k, more, rest)'
      BY Zenon, <3>1, <3>2, <3>3, <3>4, <3>5, <3>6 DEF Owes, IsFailure
    <3> QED
      BY <3>7
  <2>8. CASE ~Fails(c, h + 1)
    <3>1. h + 1 \in 1..Len(body[c]) /\ (h + 1) - 1 = h /\ h \in Nat /\ h \in 0..Len(body[c])
      <4>1. h \in Nat /\ Len(body[c]) \in Nat /\ h + 1 \in 1..Len(body[c])
        BY <1>2, BodyIs
      <4> HIDE DEF h
      <4> QED
        BY <4>1
    <3>2. Lines(c, h + 1) = Lines(c, h) \o items
      BY <3>1, LinesNext
    <3>3. Lines(c, h + 1) \o <<>> = Lines(c, h + 1)
      BY <3>1, LinesType, ConcatEmptySeq
    <3>4. k + 1 \in 0..handled'[c] /\ k + 1 = handled'[c] /\ k + 1 \in Nat
      BY <1>2, <2>1, <2>5
    <3>5. \A line \in 1..k + 1 : ~Fails(c, line)'
      <4>1. \A line \in 1..k + 1 : line \in 1..h \/ line = h + 1
        BY <2>1, <3>1
      <4> QED
        BY Zenon, <2>4, <2>6, <2>8, <4>1
    <3>6. reply' \o rest = Lines(c, k + 1)' \o <<>>
      BY Zenon, <1>3, <2>1, <2>3, <2>6, <3>2, <3>3
    <3>7. rx' = c => rest = channel'[c] \o output'[c]
      BY Zenon, <1>3, <2>3, <2>5
    <3>8. Owes(c, k + 1, <<>>, rest)'
      BY Zenon, <3>4, <3>5, <3>6, <3>7 DEF Owes
    <3>9. <<>> \in Seq(Item)
      OBVIOUS
    <3> QED
      BY Zenon, <3>4, <3>8, <3>9
  <2> QED
    BY <2>7, <2>8
<1> QED
  BY <1>4, <1>5

(* A failure keeps it. *)
LEMMA OrderFailed ==
  ASSUME OllamaTypeInv, OrderInv, NEW c \in Gen, task[c] \in {"requesting", "reading"},
         output[c] = <<>>, Fail(c),
         UNCHANGED <<sessionVars, body, arrived, garbled, channel, reply>>
  PROVE  OrderInv'
<1>1. PICK item \in Item : item = [line |-> handled[c] + 1, says |-> "failure"]
  <2>1. handled[c] \in Nat
    BY DEF OllamaTypeInv, OllamaTypeOK
  <2>2. [line |-> handled[c] + 1, says |-> "failure"] \in Item
    BY <2>1 DEF Item
  <2> QED
    BY Zenon, <2>2
<1>2. IsFailure(item) /\ <<item>> \in Seq(Item) /\ <<item>> # <<>>
  <2>1. item.says = "failure"
    BY Zenon, <1>1
  <2> QED
    BY <2>1 DEF IsFailure
<1>3. /\ output' = [output EXCEPT ![c] = <<item>>]
      /\ task' = [task EXCEPT ![c] = "ending"]
      /\ UNCHANGED handled
  BY Zenon, <1>1 DEF Fail
<1>4. /\ handled \in [Gen -> Nat] /\ output \in [Gen -> Seq(Item)]
      /\ task \in [Gen -> {"none", "requesting", "reading", "ending", "ended"}]
  BY DEF OllamaTypeInv, OllamaTypeOK
<1>5. UNCHANGED <<api, prompted, rx, started, body, garbled, channel, reply>>
  BY DEF sessionVars
<1>6. CASE c # started
  <2>1. \A g \in Gen : g = started => output'[g] = output[g] /\ task'[g] = task[g]
    BY <1>3, <1>4, <1>6
  <2> QED
    BY Zenon, <1>3, <1>5, <2>1, OrderKept
<1>7. CASE c = started
  <2> SUFFICES \E k \in Nat, end \in Seq(Item), rest \in Seq(Item) : Owes(c, k, end, rest)'
    BY <1>5, <1>7 DEF OrderInv
  <2>1. PICK k \in Nat : k = handled[c]
    BY <1>4
  <2>2. PICK rest \in Seq(Item) :
          /\ reply \o rest = Lines(c, k) \o <<item>>
          /\ rx = c => rest = channel[c] \o <<item>>
    BY <1>2, <1>7, <2>1, OwesMore
  <2>3. \A line \in 1..k : ~Fails(c, line)
    BY <1>2, <1>7, <2>1, OwesMore
  <2>4. output'[c] = <<item>> /\ task'[c] \in {"ending", "ended"} /\ k \in 0..handled'[c]
    BY <1>3, <1>4, <2>1
  <2>5. Lines(c, k)' = Lines(c, k) /\ \A line \in 1..k : Fails(c, line)' = Fails(c, line)
    BY <1>5, LinesSame
  <2>6. reply' \o rest = Lines(c, k)' \o <<item>>
    BY Zenon, <1>5, <2>2, <2>5
  <2>7. rx' = c => rest = channel'[c] \o output'[c]
    BY Zenon, <1>5, <2>2, <2>4
  <2>8. Owes(c, k, <<item>>, rest)'
    BY Zenon, <1>2, <2>3, <2>4, <2>5, <2>6, <2>7 DEF Owes, IsFailure
  <2> QED
    BY <1>2, <2>8
<1> QED
  BY <1>6, <1>7

-----------------------------------------------------------------------------
(* A new generation owes nothing yet. *)
LEMMA OrderSpawned ==
  ASSUME OllamaTypeInv, Text \/ StartResponse \/ GenerateText
  PROVE  OrderInv'
<1>1. Spawn
  BY DEF Text, StartResponse, GenerateText
<1>2. /\ started' = started + 1 /\ reply' = <<>>
      /\ channel' = [g \in Gen |-> IF g = rx THEN <<>> ELSE channel[g]]
      /\ UNCHANGED <<api, body, handled, garbled, output>>
  BY <1>1 DEF Spawn, Hold
<1> SUFFICES ASSUME NEW g \in Gen, g = started'
             PROVE  \E k \in Nat, end \in Seq(Item), rest \in Seq(Item) : Owes(g, k, end, rest)'
  BY DEF OrderInv
<1>3. task[g] = "none"
  <2>1. g > started
    BY <1>2 DEF OllamaTypeInv, OllamaTypeOK
  <2> QED
    BY <2>1 DEF OllamaTypeInv, ReadInv
<1>4. handled[g] = 0 /\ output[g] = <<>> /\ channel[g] = <<>>
  BY <1>3 DEF OllamaTypeInv, ReadInv
<1>5. handled'[g] = 0 /\ output'[g] = <<>> /\ channel'[g] = <<>>
  BY <1>2, <1>4
<1>6. Lines(g, 0)' = <<>>
  <2>1. Lines(g, 0)' = Lines(g, 0)
    BY <1>2, LinesSame
  <2> QED
    BY <2>1, LinesNone
<1>7. <<>> \o <<>> = <<>> /\ <<>> \in Seq(Item)
  OBVIOUS
<1>8. 0 \in 0..handled'[g] /\ \A line \in 1..0 : ~Fails(g, line)'
  BY <1>5
<1>9. Owes(g, 0, <<>>, <<>>)'
  <2>1. reply' \o <<>> = Lines(g, 0)' \o <<>>
    BY Zenon, <1>2, <1>6
  <2>2. rx' = g => <<>> = channel'[g] \o output'[g]
    BY Zenon, <1>5, <1>7
  <2> QED
    BY Zenon, <1>5, <1>8, <2>1, <2>2 DEF Owes
<1> QED
  BY <1>7, <1>9

(* The caller's other calls keep the order. *)
LEMMA OrderRecv ==
  ASSUME OllamaTypeInv, OrderInv, CloseSession \/ Recv
  PROVE  OrderInv'
<1>1. CASE CloseSession
  <2>1. rx' = 0 /\ UNCHANGED <<api, started, streamVars, reply>>
    BY <1>1 DEF CloseSession, Hold
  <2>2. \A g \in Gen : rx' # g
    BY <2>1 DEF Gen
  <2> QED
    BY Zenon, <2>1, <2>2, OrderKept DEF streamVars
<1>2. CASE RecvNone
  <2>1. rx' = 0 /\ UNCHANGED <<api, started, streamVars, channel, reply>>
    BY <1>2 DEF RecvNone
  <2> QED
    BY Zenon, <2>1, OrderKept DEF streamVars
<1>3. CASE RecvItem
  <2>1. /\ rx # 0 /\ channel[rx] # <<>>
        /\ reply' = Append(reply, Head(channel[rx]))
        /\ channel' = [channel EXCEPT ![rx] = Tail(channel[rx])]
        /\ UNCHANGED <<api, prompted, rx, started, task, body, arrived, handled, garbled, output>>
    BY <1>3 DEF RecvItem, sessionVars, streamVars
  <2> SUFFICES ASSUME NEW g \in Gen, g = started
               PROVE  \E k \in Nat, end \in Seq(Item), rest \in Seq(Item) : Owes(g, k, end, rest)'
    BY <2>1 DEF OrderInv
  <2>2. PICK k \in Nat, end \in Seq(Item), rest \in Seq(Item) : Owes(g, k, end, rest)
    BY DEF OrderInv
  <2>3. rx = g
    BY <2>1 DEF OllamaTypeInv, ReadInv
  <2>4. /\ channel[g] \in Seq(Item) /\ channel[g] # <<>> /\ output[g] \in Seq(Item)
        /\ reply \in Seq(Item) /\ channel'[g] = Tail(channel[g])
        /\ reply' = Append(reply, Head(channel[g]))
    BY <2>1, <2>3 DEF OllamaTypeInv, OllamaTypeOK
  <2>5. PICK more \in Seq(Item) : more = Tail(channel[g]) \o output[g]
    <3>1. Tail(channel[g]) \in Seq(Item)
      BY <2>4
    <3>2. Tail(channel[g]) \o output[g] \in Seq(Item)
      BY <2>4, <3>1, ConcatProperties
    <3> QED
      BY <3>2
  <2>6. rest = channel[g] \o output[g] /\ reply \o rest = Lines(g, k) \o end
    BY Zenon, <2>2, <2>3 DEF Owes
  <2>7. ASSUME NEW s \in Seq(Item), NEW t \in Seq(Item), NEW u \in Seq(Item), t # <<>>
        PROVE  Append(s, Head(t)) \o (Tail(t) \o u) = s \o (t \o u)
    <3>1. Head(t) \in Item /\ Tail(t) \in Seq(Item) /\ <<Head(t)>> \in Seq(Item)
      BY <2>7
    <3>2. t = <<Head(t)>> \o Tail(t)
      BY <2>7
    <3>3. Append(s, Head(t)) = s \o <<Head(t)>>
      BY <3>1, AppendIsConcat
    <3>4. (s \o <<Head(t)>>) \o (Tail(t) \o u) = s \o (<<Head(t)>> \o (Tail(t) \o u))
      <4>1. Tail(t) \o u \in Seq(Item)
        BY <3>1, ConcatProperties
      <4>2. s \in Seq(Item) /\ u \in Seq(Item)
        BY <2>7
      <4>3. \A v, w \in Seq(Item) : (s \o v) \o w = s \o (v \o w)
        BY Zenon, <4>2, ItemsAssociate
      <4> QED
        BY Zenon, <3>1, <4>1, <4>3
    <3>5. <<Head(t)>> \o (Tail(t) \o u) = (<<Head(t)>> \o Tail(t)) \o u
      BY SMTT(30), <2>7, <3>1, ItemsAssociate
    <3> QED
      BY Zenon, <3>2, <3>3, <3>4, <3>5
  <2>8. reply' \o more = Lines(g, k) \o end
    <3>1. Append(reply, Head(channel[g])) \o (Tail(channel[g]) \o output[g])
            = reply \o (channel[g] \o output[g])
      BY ZenonT(40), <2>4, <2>7
    <3> QED
      BY Zenon, <2>4, <2>5, <2>6, <3>1
  <2>9. Lines(g, k)' = Lines(g, k) /\ \A line \in 1..k : Fails(g, line)' = Fails(g, line)
    BY <2>1, LinesSame
  <2>10. /\ reply' \o more = Lines(g, k)' \o end
         /\ rx' = g => more = channel'[g] \o output'[g]
    BY Zenon, <2>1, <2>4, <2>5, <2>8, <2>9
  <2>11. /\ k \in 0..handled[g]
         /\ \A line \in 1..k : ~Fails(g, line)
         /\ end = <<>> => k = handled[g]
         /\ end # <<>> => task[g] \in {"ending", "ended"}
    BY Zenon, <2>2 DEF Owes
  <2>12. end # <<>> => \E item \in Item : IsFailure(item) /\ end = <<item>>
    BY Zenon, <2>2 DEF Owes
  <2>13. Owes(g, k, end, more)'
    BY Zenon, <2>1, <2>9, <2>10, <2>11, <2>12 DEF Owes, IsFailure
  <2> QED
    BY <2>13
<1> QED
  BY <1>1, <1>2, <1>3 DEF Recv

(* The service's steps keep it. *)
LEMMA OrderAnswered ==
  ASSUME OllamaTypeInv, OrderInv, NEW c \in Gen, Answered(c) \/ StreamEnds(c)
  PROVE  OrderInv'
<1>1. ASSUME NEW b \in Bodies, Answered(c), body' = [body EXCEPT ![c] = b],
             task' = [task EXCEPT ![c] = "reading"], UNCHANGED <<handled, output>>
      PROVE  OrderInv'
  <2>1. /\ task[c] = "requesting"
        /\ UNCHANGED <<api, prompted, rx, started, arrived, garbled, channel, reply>>
    BY <1>1 DEF Answered, sessionVars
  <2>2. handled[c] = 0
    BY <2>1 DEF OllamaTypeInv, ReadInv
  <2>3. \A g \in Gen : g # c => body'[g] = body[g] /\ task'[g] = task[g]
    BY <1>1 DEF OllamaTypeInv, OllamaTypeOK
  <2>4. \A g \in Gen : \A line \in 1..handled[g] : body'[g][line] = body[g][line]
    BY <2>2, <2>3
  <2>5. \A g \in Gen : task[g] \in {"ending", "ended"} => task'[g] \in {"ending", "ended"}
    BY <2>1, <2>3
  <2> QED
    BY Zenon, <1>1, <2>1, <2>4, <2>5, OrderKept
<1>2. CASE Answered(c) /\ Fail(c) /\ UNCHANGED body
  <2>1. task[c] = "requesting" /\ UNCHANGED <<sessionVars, arrived, garbled, channel, reply>>
    BY <1>2 DEF Answered
  <2>2. output[c] = <<>>
    BY <2>1 DEF OllamaTypeInv, ReadInv
  <2> QED
    BY <1>2, <2>1, <2>2, OrderFailed
<1>3. CASE StreamEnds(c)
  <2>1. /\ task[c] = "reading" /\ output[c] = <<>>
        /\ 3 * handled[c] <= arrived[c]
        /\ UNCHANGED <<sessionVars, body, arrived, garbled, channel, reply>>
    BY <1>3 DEF StreamEnds, Awaiting, OllamaTypeInv, ReadInv
  <2>2. CASE Fail(c)
    BY <2>1, <2>2, OrderFailed
  <2>3. CASE task' = [task EXCEPT ![c] = "ending"] /\ UNCHANGED <<handled, output>>
    <3>1. \A g \in Gen : task[g] \in {"ending", "ended"} => task'[g] \in {"ending", "ended"}
      BY <2>3 DEF OllamaTypeInv, OllamaTypeOK
    <3> QED
      BY Zenon, <2>1, <2>3, <3>1, OrderKept DEF sessionVars
  <2>4. CASE /\ arrived[c] - 3 * handled[c] \in {1, 2}
             /\ Handle(c, handled[c] + 1, "ending")
    <3>1. handled[c] + 1 \in 1..Len(body[c])
      <4>1. /\ handled[c] \in Nat /\ arrived[c] \in Nat /\ Len(body[c]) \in Nat
            /\ arrived[c] <= 3 * Len(body[c])
        BY BodyIs DEF OllamaTypeInv, OllamaTypeOK
      <4> QED
        BY <2>1, <2>4, <4>1
    <3> QED
      BY <2>1, <2>4, <3>1, OrderHandled
  <2> QED
    BY <1>3, <2>2, <2>3, <2>4 DEF StreamEnds
<1> QED
  BY <1>1, <1>2, <1>3 DEF Answered

(* And so do the steps of a task and the arrival of a chunk, which garbles *)
(* no line that has been handled.                                          *)
LEMMA OrderTask ==
  ASSUME OllamaTypeInv, OrderInv, NEW c \in Gen, Chunk(c) \/ Task(c)
  PROVE  OrderInv'
<1>1. /\ handled[c] \in Nat /\ arrived[c] \in Nat /\ Len(body[c]) \in Nat
      /\ arrived[c] <= 3 * Len(body[c]) /\ DOMAIN body[c] = 1..Len(body[c])
  BY BodyIs DEF OllamaTypeInv, OllamaTypeOK
<1>2. CASE HandleLine(c)
  <2>1. /\ task[c] = "reading" /\ output[c] = <<>> /\ 3 * (handled[c] + 1) <= arrived[c]
        /\ Handle(c, handled[c] + 1, "reading")
        /\ UNCHANGED <<sessionVars, body, arrived, garbled, channel, reply>>
    BY <1>2 DEF HandleLine, LineComplete
  <2>2. handled[c] + 1 \in 1..Len(body[c])
    BY <1>1, <2>1
  <2> QED
    BY <2>1, <2>2, OrderHandled
<1>3. CASE Chunk(c)
  <2>1. PICK n \in arrived[c] + 1 .. 3 * Len(body[c]) :
          garbled' = [garbled EXCEPT ![c] = garbled[c] \cup
                        {i \in DOMAIN body[c] : body[c][i] = "wide" /\ n = 3 * i - 2}]
    BY <1>3 DEF Chunk
  <2>2. /\ task[c] = "reading"
        /\ UNCHANGED <<api, prompted, rx, started, task, body, handled, output, channel, reply>>
    BY <1>3 DEF Chunk, Awaiting, sessionVars
  <2>3. 3 * handled[c] <= arrived[c]
    BY <2>2 DEF OllamaTypeInv, ReadInv
  <2>4. \A i \in Nat : n = 3 * i - 2 => i \notin 1..handled[c]
    BY <1>1, <2>1, <2>3
  <2>5. \A g \in Gen : \A line \in 1..handled[g] : line \in garbled'[g] <=> line \in garbled[g]
    <3>1. ASSUME NEW g \in Gen, NEW line \in 1..handled[g]
          PROVE  line \in garbled'[g] <=> line \in garbled[g]
      <4>1. CASE g # c
        BY <2>1, <4>1 DEF OllamaTypeInv, OllamaTypeOK
      <4>2. CASE g = c
        <5> DEFINE joined == {i \in DOMAIN body[c] : body[c][i] = "wide" /\ n = 3 * i - 2}
        <5>1. line \notin joined
          BY <1>1, <2>4, <4>2
        <5>2. garbled' = [garbled EXCEPT ![c] = garbled[c] \cup joined]
          BY <2>1
        <5> HIDE DEF joined
        <5> QED
          BY <4>2, <5>1, <5>2 DEF OllamaTypeInv, OllamaTypeOK
      <4> QED
        BY <4>1, <4>2
    <3> QED
      BY <3>1
  <2> QED
    BY Zenon, <2>2, <2>5, OrderKept
<1>4. CASE Send(c)
  <2>1. /\ output[c] # <<>> /\ output[c] \in Seq(Item) /\ channel[c] \in Seq(Item)
        /\ output' = [output EXCEPT ![c] = Tail(output[c])]
        /\ UNCHANGED <<api, prompted, rx, started, task, body, arrived, handled, garbled, reply>>
    BY <1>4 DEF Send, sessionVars, OllamaTypeInv, OllamaTypeOK
  <2>2. ASSUME NEW g \in Gen, rx' = g
        PROVE  channel'[g] \o output'[g] = channel[g] \o output[g]
    <3>1. CASE g # c
      BY <1>4, <2>1, <3>1 DEF Send, OllamaTypeInv, OllamaTypeOK
    <3>2. CASE g = c
      <4>1. /\ channel'[c] = Append(channel[c], Head(output[c]))
            /\ output'[c] = Tail(output[c])
        BY <1>4, <2>1, <2>2, <3>2 DEF Send, OllamaTypeInv, OllamaTypeOK
      <4>2. Append(channel[c], Head(output[c])) \o Tail(output[c]) = channel[c] \o output[c]
        <5>1. Head(output[c]) \in Item /\ Tail(output[c]) \in Seq(Item)
              /\ <<Head(output[c])>> \in Seq(Item)
          BY <2>1
        <5>2. output[c] = <<Head(output[c])>> \o Tail(output[c])
          BY <2>1
        <5>3. Append(channel[c], Head(output[c])) = channel[c] \o <<Head(output[c])>>
          BY <2>1, <5>1, AppendIsConcat
        <5>4. (channel[c] \o <<Head(output[c])>>) \o Tail(output[c])
                = channel[c] \o (<<Head(output[c])>> \o Tail(output[c]))
          BY Zenon, <2>1, <5>1, ItemsAssociate
        <5> QED
          BY Zenon, <5>2, <5>3, <5>4
      <4> QED
        BY Zenon, <3>2, <4>1, <4>2
    <3> QED
      BY <3>1, <3>2
  <2> QED
    BY Zenon, <2>1, <2>2, OrderKept
<1>5. CASE TaskEnds(c)
  <2>1. /\ task' = [task EXCEPT ![c] = "ended"]
        /\ UNCHANGED <<api, prompted, rx, started, body, arrived, handled, garbled, output,
                       channel, reply>>
    BY <1>5 DEF TaskEnds, sessionVars
  <2>2. \A g \in Gen : task[g] \in {"ending", "ended"} => task'[g] \in {"ending", "ended"}
    BY <2>1 DEF OllamaTypeInv, OllamaTypeOK
  <2> QED
    BY Zenon, <2>1, <2>2, OrderKept
<1> QED
  BY <1>2, <1>3, <1>4, <1>5 DEF Task

(* What the caller has received is what the lines said, and then perhaps a *)
(* failure.                                                                *)
LEMMA OrderImplies ==
  ASSUME OllamaTypeInv, OrderInv PROVE ReplyInOrder
<1> SUFFICES ASSUME NEW g \in Gen, g = started PROVE ReplyInOrder
  <2>1. started > 0 => started \in Gen
    BY OllamaAssumption DEF Gen, OllamaTypeInv, OllamaTypeOK
  <2>2. started > 0 => ReplyInOrder
    BY <2>1
  <2> QED
    BY <2>2 DEF ReplyInOrder
<1> DEFINE sound == IF reply # <<>> /\ IsFailure(Last(reply)) THEN Front(reply) ELSE reply
<1>1. PICK k \in Nat, end \in Seq(Item), rest \in Seq(Item) : Owes(g, k, end, rest)
  BY DEF OrderInv
<1>2. /\ k \in 0..handled[g]
      /\ \A line \in 1..k : ~Fails(g, line)
      /\ reply \o rest = Lines(g, k) \o end
  BY Zenon, <1>1 DEF Owes
<1>3. end # <<>> => \E item \in Item : IsFailure(item) /\ end = <<item>>
  BY Zenon, <1>1 DEF Owes
<1>4. k \in 0..Len(body[g])
  BY <1>2, BodyIs DEF OllamaTypeInv, OllamaTypeOK
<1>5. Lines(g, k) \in Seq(Item) /\ Clean(Lines(g, k)) /\ reply \in Seq(Item)
  BY <1>2, <1>4, LinesType, LinesAre DEF OllamaTypeInv, OllamaTypeOK
<1> DEFINE lines == Lines(g, k)
<1>6. \E more \in Seq(Item) : sound \in Seq(Item) /\ sound \o more = lines
  <2> HIDE DEF lines
  <2>0. lines \in Seq(Item) /\ Clean(lines) /\ reply \o rest = lines \o end
    BY Zenon, <1>2, <1>5 DEF lines
  <2>1. CASE end = <<>>
    <3>1. reply \o rest = lines
      BY <2>0, <2>1, ConcatEmptySeq
    <3>2. reply # <<>> => ~IsFailure(Last(reply))
      <4> SUFFICES ASSUME reply # <<>> PROVE ~IsFailure(Last(reply))
        OBVIOUS
      <4>1. Len(reply) \in 1..Len(lines) /\ lines[Len(reply)] = reply[Len(reply)]
        BY <1>5, <3>1
      <4> QED
        BY Zenon, <2>0, <4>1 DEF Clean, Last
    <3>3. sound = reply
      BY Zenon, <3>2
    <3> QED
      BY Zenon, <1>5, <3>1, <3>3
  <2>2. ASSUME NEW item \in Item, IsFailure(item), end = <<item>>
        PROVE  \E more \in Seq(Item) : sound \in Seq(Item) /\ sound \o more = lines
    <3>1. /\ Len(lines) \in Nat /\ Len(reply) \in Nat /\ Len(rest) \in Nat /\ Len(end) = 1
          /\ end[1] = item
      BY <1>5, <2>0, <2>2
    <3>2. /\ Len(reply) + Len(rest) = Len(lines) + 1
          /\ \A i \in 1..Len(lines) + 1 :
               (lines \o end)[i] = IF i <= Len(lines) THEN lines[i] ELSE end[i - Len(lines)]
          /\ \A i \in 1..Len(lines) + 1 :
               (lines \o end)[i] = IF i <= Len(reply) THEN reply[i] ELSE rest[i - Len(reply)]
      <4>1. /\ Len(lines \o end) = Len(lines) + 1
            /\ Len(reply \o rest) = Len(reply) + Len(rest)
        <5>1. Len(lines \o end) = Len(lines) + Len(end)
          BY <2>0, ConcatProperties
        <5>2. Len(reply \o rest) = Len(reply) + Len(rest)
          BY <1>5, ConcatProperties
        <5> QED
          BY Zenon, <3>1, <5>1, <5>2
      <4>2. Len(reply) + Len(rest) = Len(lines) + 1
        BY Zenon, <2>0, <4>1
      <4>3. \A i \in 1..Len(lines) + 1 :
               (lines \o end)[i] = IF i <= Len(lines) THEN lines[i] ELSE end[i - Len(lines)]
        BY <2>0, <3>1, ConcatProperties
      <4>4. \A i \in 1..Len(reply) + Len(rest) :
               (reply \o rest)[i] = IF i <= Len(reply) THEN reply[i] ELSE rest[i - Len(reply)]
        BY <1>5, ConcatProperties
      <4> QED
        BY Zenon, <2>0, <4>2, <4>3, <4>4
    <3>3. CASE rest = <<>>
      <4>1. reply = Append(lines, item)
        <5>1. reply = lines \o <<item>>
          BY <1>5, <2>0, <2>2, <3>3, ConcatEmptySeq
        <5> QED
          BY <2>0, <5>1, AppendIsConcat
      <4>2. Len(reply) = Len(lines) + 1 /\ reply[Len(reply)] = item /\ reply # <<>>
        BY <2>0, <4>1, AppendProperties
      <4>3. SubSeq(reply, 1, Len(reply) - 1) = lines
        BY <2>0, <4>1, <4>2
      <4>4. sound = lines
        BY Zenon, <2>2, <4>2, <4>3 DEF Last, Front
      <4>5. lines \o <<>> = lines /\ <<>> \in Seq(Item)
        BY <2>0, ConcatEmptySeq
      <4> QED
        BY Zenon, <2>0, <4>4, <4>5
    <3>4. CASE rest # <<>>
      <4>1. Len(reply) <= Len(lines)
        <5>1. Len(rest) >= 1
          BY <3>1, <3>4
        <5> QED
          BY <3>1, <3>2, <5>1
      <4>2. \A i \in 1..Len(reply) : reply[i] = lines[i]
        BY <3>1, <3>2, <4>1
      <4>3. reply # <<>> => ~IsFailure(Last(reply))
        <5> SUFFICES ASSUME reply # <<>> PROVE ~IsFailure(Last(reply))
          OBVIOUS
        <5>1. Len(reply) \in 1..Len(lines) /\ reply[Len(reply)] = lines[Len(reply)]
          BY <1>5, <3>1, <4>1, <4>2
        <5> QED
          BY Zenon, <2>0, <5>1 DEF Clean, Last
      <4>4. sound = reply
        BY Zenon, <4>3
      <4>5. PICK more \in Seq(Item) : more = SubSeq(lines, Len(reply) + 1, Len(lines))
        <5>1. \A i \in Len(reply) + 1..Len(lines) : lines[i] \in Item
          BY <2>0, <3>1
        <5>2. SubSeq(lines, Len(reply) + 1, Len(lines)) \in Seq(Item)
          BY <3>1, <5>1, SubSeqProperties
        <5> QED
          BY <5>2
      <4>6. reply \o more = lines
        <5>1. /\ Len(more) = Len(lines) - Len(reply)
              /\ \A i \in 1..Len(more) : more[i] = lines[Len(reply) + i]
          BY <2>0, <3>1, <4>1, <4>5
        <5>2. /\ reply \o more \in Seq(Item) /\ Len(reply \o more) = Len(reply) + Len(more)
              /\ \A i \in 1..Len(reply) + Len(more) :
                   (reply \o more)[i] = IF i <= Len(reply) THEN reply[i] ELSE more[i - Len(reply)]
          BY <1>5, ConcatProperties
        <5>3. Len(reply \o more) = Len(lines)
          BY <3>1, <4>1, <5>1, <5>2
        <5>4. ASSUME NEW i \in 1..Len(lines) PROVE (reply \o more)[i] = lines[i]
          <6>1. CASE i <= Len(reply)
            BY <3>1, <4>1, <4>2, <5>1, <5>2, <6>1
          <6>2. CASE i > Len(reply)
            <7>1. i - Len(reply) \in 1..Len(more) /\ Len(reply) + (i - Len(reply)) = i
              BY <3>1, <4>1, <5>1, <6>2
            <7>2. more[i - Len(reply)] = lines[i]
              BY Zenon, <5>1, <7>1
            <7>3. (reply \o more)[i] = more[i - Len(reply)]
              BY <3>1, <4>1, <5>1, <5>2, <6>2
            <7> QED
              BY Zenon, <7>2, <7>3
          <6>3. i <= Len(reply) \/ i > Len(reply)
            BY <3>1
          <6> QED
            BY Zenon, <6>1, <6>2, <6>3
        <5> QED
          BY <2>0, <5>2, <5>3, <5>4, SeqEqual
      <4> QED
        BY Zenon, <1>5, <4>4, <4>6
    <3> QED
      BY <3>3, <3>4
  <2> QED
    BY Zenon, <1>3, <2>1, <2>2
<1>7. PICK more \in Seq(Item) : sound \in Seq(Item) /\ sound \o more = lines
  BY <1>6
<1> DEFINE all == Lines(g, Len(body[g]))
           meant == Meaning(g)
<1>8. PICK after \in Seq(Item) : all = lines \o after
  BY <1>4, LinesContinue
<1>9. Alike(all, meant, garbled[g])
  BY LinesAlike
<1> HIDE DEF sound, lines, all, meant
<1>11. Len(sound) <= Len(meant) /\ \A i \in 1..Len(sound) : ReadsAs(sound[i], meant[i], garbled[g])
  <2>1. all = sound \o (more \o after) /\ more \o after \in Seq(Item)
    <3>1. (sound \o more) \o after = sound \o (more \o after)
      BY Zenon, <1>7, <1>8, ItemsAssociate
    <3>2. all = sound \o (more \o after)
      BY Zenon, <1>7, <1>8, <3>1
    <3>3. more \o after \in Seq(Item)
      BY <1>7, <1>8
    <3> QED
      BY Zenon, <3>2, <3>3
  <2>2. Len(sound) <= Len(all) /\ \A i \in 1..Len(sound) : i \in 1..Len(all) /\ all[i] = sound[i]
    BY <1>7, <2>1
  <2> QED
    BY <1>9, <2>2 DEF Alike
<1>10. \A i \in DOMAIN sound : ~IsFailure(sound[i])
  <2>1. Clean(lines) /\ lines \in Seq(Item)
    BY <1>5 DEF lines
  <2>2. \A i \in 1..Len(sound) : i \in 1..Len(lines) /\ lines[i] = sound[i]
    BY <1>7
  <2>3. DOMAIN sound = 1..Len(sound)
    BY <1>7
  <2> QED
    BY Zenon, <2>1, <2>2, <2>3 DEF Clean
<1> QED
  <2>1. DOMAIN sound = 1..Len(sound)
    BY <1>7
  <2> QED
    BY Zenon, <1>10, <1>11, <2>1 DEF ReplyInOrder, sound, meant

(* However full the channel, whatever fails and whoever else streams or    *)
(* has gone, the caller of the latest generation hears what Ollama says in *)
(* the body, in order and once, up to a first failure that is the last     *)
(* thing it hears; only the text of a line in which a chunk has ended      *)
(* inside a character may read as something else.                          *)
THEOREM RepliesInOrder == OllamaSpec => []ReplyInOrder
<1>1. OllamaInit => OrderInv
  <2> SUFFICES ASSUME OllamaInit, NEW g \in Gen PROVE g # started
    BY DEF OrderInv
  <2> QED
    BY DEF OllamaInit, Gen
<1>2. OllamaTypeInv /\ OrderInv /\ [OllamaNext]_ollamaVars => OrderInv'
  <2> SUFFICES ASSUME OllamaTypeInv, OrderInv, [OllamaNext]_ollamaVars PROVE OrderInv'
    OBVIOUS
  <2>1. CASE Text \/ StartResponse \/ GenerateText
    BY <2>1, OrderSpawned
  <2>2. CASE CloseSession \/ Recv
    BY <2>2, OrderRecv
  <2>3. ASSUME NEW g \in Gen, Ollama(g) \/ Task(g) PROVE OrderInv'
    BY <2>3, OrderAnswered, OrderTask DEF Ollama
  <2>4. CASE UNCHANGED ollamaVars
    BY Zenon, <2>4, OrderKept DEF ollamaVars, sessionVars, streamVars
  <2> QED
    BY <2>1, <2>2, <2>3, <2>4 DEF OllamaNext
<1>3. OllamaTypeInv /\ OrderInv => ReplyInOrder
  BY OrderImplies
<1> QED
  BY <1>1, <1>2, <1>3, OllamaTyped, PTL DEF OllamaSpec
=============================================================================
