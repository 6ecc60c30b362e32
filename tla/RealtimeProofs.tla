--------------------------- MODULE RealtimeProofs ---------------------------
(***************************************************************************)
(* What the 16-bit conversions do to a sample, for every width and every   *)
(* resolution, and what an application that talks to a hosted provider can *)
(* rely on, for any audio, texts and number of events on their way.        *)
(***************************************************************************)
EXTENDS Realtime, SequenceTheorems, TLAPS

(* The quotient of Euclidean division, as two inequations *)
LEMMA Quotient ==
  ASSUME NEW a \in Int, NEW b \in Nat \ {0}
  PROVE  /\ a \div b \in Int
         /\ b * (a \div b) <= a
         /\ a < b * (a \div b) + b
  OBVIOUS

(* f32::round returns the nearest integer, a half away from zero *)
LEMMA RoundNearest ==
  ASSUME NEW a \in Int, NEW b \in Nat \ {0}
  PROVE  /\ Round(a, b) \in Int
         /\ a >= 0 => /\ 2 * (b * Round(a, b)) <= 2 * a + b
                      /\ 2 * a < 2 * (b * Round(a, b)) + b
         /\ a < 0 => /\ 2 * (b * Round(a, b)) >= 2 * a - b
                     /\ 2 * a > 2 * (b * Round(a, b)) - b
<1>1. CASE a >= 0
  <2> DEFINE q == (2 * a + b) \div (2 * b)
  <2>1. Round(a, b) = q  BY <1>1 DEF Round
  <2>2. /\ q \in Int
        /\ (2 * b) * q <= 2 * a + b
        /\ 2 * a + b < (2 * b) * q + 2 * b
    <3>1. 2 * a + b \in Int /\ 2 * b \in Nat \ {0}  OBVIOUS
    <3> QED  BY <3>1, Quotient
  <2> HIDE DEF q
  <2>3. (2 * b) * q = 2 * (b * q)  BY <2>2
  <2> QED  BY <1>1, <2>1, <2>2, <2>3
<1>2. CASE a < 0
  <2> DEFINE q == (2 * (-a) + b) \div (2 * b)
  <2>1. Round(a, b) = -q  BY <1>2 DEF Round
  <2>2. /\ q \in Int
        /\ (2 * b) * q <= 2 * (-a) + b
        /\ 2 * (-a) + b < (2 * b) * q + 2 * b
    <3>1. 2 * (-a) + b \in Int /\ 2 * b \in Nat \ {0}  OBVIOUS
    <3> QED  BY <3>1, Quotient
  <2> HIDE DEF q
  <2>3. (2 * b) * q = 2 * (b * q) /\ b * (-q) = -(b * q)  BY <2>2
  <2> QED  BY <1>2, <2>1, <2>2, <2>3
<1> QED  BY <1>1, <1>2

(* Full scale and its resolution, and their product, are positive. *)
LEMMA Positive ==
  /\ FullScale \in Nat /\ FullScale >= 2
  /\ Resolution \in Nat /\ Resolution >= 1
  /\ One \in Nat /\ One >= 1 /\ One = FullScale * Resolution
<1>1. FullScale \in Nat /\ FullScale >= 2 /\ Resolution \in Nat /\ Resolution >= 1
  BY FullScaleAssumption, ResolutionAssumption
<1>2. FullScale * Resolution \in Nat /\ FullScale * Resolution >= 1
  BY <1>1
<1> QED  BY <1>1, <1>2 DEF One

(* A factor that is positive may be left out of an inequation *)
LEMMA Cancel ==
  ASSUME NEW x \in Int, NEW y \in Int, NEW r \in Nat \ {0}
  PROVE  /\ r * x <= r * y => x <= y
         /\ r * x < r * y => x < y
  OBVIOUS

(* Sent on, a sample keeps its side of zero and does not get louder; below *)
(* half of full scale it stays as it is, above it loses a step at most and *)
(* never falls below half (samples_to_pcm16_le and pcm16_le_to_samples).   *)
THEOREM RelayLevel ==
  ASSUME NEW p \in PcmValues
  PROVE  /\ Relayed(p) \in PcmValues
         /\ 2 * p <= FullScale => Relayed(p) = p
         /\ 2 * p > FullScale => /\ p - 1 <= Relayed(p) /\ Relayed(p) <= p
                                 /\ 2 * Relayed(p) >= FullScale
<1> DEFINE F == FullScale
           R == Resolution
           q == Relayed(p)
<1>0. /\ F \in Nat /\ F >= 2 /\ R \in Nat /\ R >= 1
      /\ One \in Nat /\ One >= 1 /\ One = F * R
      /\ p \in Int /\ -F <= p /\ p <= F - 1
  BY Positive DEF PcmValues
<1>1. p * R \in Int /\ -One <= p * R /\ p * R <= One
  <2>1. (-F) * R <= p * R /\ p * R <= F * R  BY <1>0
  <2>2. (-F) * R = -(F * R)  BY <1>0
  <2> QED  BY <1>0, <2>1, <2>2
<1>2. Clamp(FromPcm(p)) = p * R
  BY <1>0, <1>1 DEF Clamp, FromPcm
<1>3. CASE p < 0
  <2>1. p * R < 0  BY <1>0, <1>3
  <2>2. q = Round(p * R, R)  BY <1>2, <2>1 DEF Relayed, ToPcm
  <2>3. /\ q \in Int
        /\ 2 * (R * q) >= 2 * (p * R) - R
        /\ 2 * (p * R) > 2 * (R * q) - R
    BY <1>0, <1>1, <2>1, <2>2, RoundNearest
  <2> HIDE DEF q, F, R
  <2>4. R * (2 * q) >= R * (2 * p - 1) /\ R * (2 * p) > R * (2 * q - 1)
    BY <1>0, <2>3
  <2>5. 2 * q >= 2 * p - 1 /\ 2 * p > 2 * q - 1
    BY <1>0, <2>3, <2>4, Cancel
  <2>6. q = p  BY <1>0, <2>3, <2>5
  <2> QED  BY <1>0, <1>3, <2>6 DEF q, F, PcmValues
<1>4. CASE p >= 0
  <2>1. p * R >= 0 /\ (p * R) * (F - 1) \in Int /\ (p * R) * (F - 1) >= 0
    <3>1. p * R >= 0  BY <1>0, <1>4
    <3> QED  BY <1>0, <1>1, <3>1
  <2>2. q = Round((p * R) * (F - 1), One)  BY <1>0, <1>1, <1>2, <2>1 DEF Relayed, ToPcm
  <2>3. /\ q \in Int
        /\ 2 * (One * q) <= 2 * ((p * R) * (F - 1)) + One
        /\ 2 * ((p * R) * (F - 1)) < 2 * (One * q) + One
    <3> DEFINE a == (p * R) * (F - 1)
    <3>1. a \in Int /\ a >= 0 /\ One \in Nat \ {0} /\ q = Round(a, One)
      BY <1>0, <2>1, <2>2
    <3> HIDE DEF a, q
    <3>2. /\ q \in Int
          /\ 2 * (One * q) <= 2 * a + One
          /\ 2 * a < 2 * (One * q) + One
      BY <3>1, RoundNearest
    <3> QED  BY <3>2 DEF a
  <2> HIDE DEF q, F, R
  <2>4. /\ R * (2 * (F * q)) <= R * (2 * (p * (F - 1)) + F)
        /\ R * (2 * (p * (F - 1))) < R * (2 * (F * q) + F)
    <3>1. One * q = R * (F * q) /\ (p * R) * (F - 1) = R * (p * (F - 1))
      BY <1>0, <2>3
    <3> QED  BY <1>0, <2>3, <3>1
  <2>5. /\ 2 * (F * q) <= 2 * (p * (F - 1)) + F
        /\ 2 * (p * (F - 1)) < 2 * (F * q) + F
    BY <1>0, <2>3, <2>4, Cancel
  <2>6. /\ 2 * (F * (q - p)) <= F - 2 * p
        /\ -(2 * p) < 2 * (F * (q - p)) + F
    <3>1. F * (q - p) = F * q - F * p /\ p * (F - 1) = F * p - p
      BY <1>0, <2>3
    <3> QED  BY <1>0, <2>3, <2>5, <3>1
  <2>7. q <= p
    <3>1. CASE q - p >= 1
      <4>1. F * (q - p) >= F  BY <1>0, <2>3, <3>1
      <4> QED  BY <1>0, <1>4, <2>3, <2>6, <4>1
    <3> QED  BY <1>0, <2>3, <3>1
  <2>8. q >= p - 1
    <3>1. CASE q - p <= -2
      <4>1. F * (q - p) <= -(2 * F)  BY <1>0, <2>3, <3>1
      <4> QED  BY <1>0, <1>4, <2>3, <2>6, <4>1
    <3> QED  BY <1>0, <2>3, <3>1
  <2>9. 2 * p <= F => q = p
    <3>1. CASE 2 * p <= F /\ q = p - 1
      <4>1. F * (q - p) = -F  BY <1>0, <2>3, <3>1
      <4> QED  BY <1>0, <2>3, <2>6, <3>1, <4>1
    <3> QED  BY <1>0, <2>3, <2>7, <2>8, <3>1
  <2>10. 2 * p > F => 2 * q >= F
    <3>1. PICK half \in Nat : F = 2 * half  BY FullScaleAssumption DEF F
    <3> QED  BY <1>0, <2>3, <2>8, <3>1
  <2> QED  BY <1>0, <1>4, <2>3, <2>7, <2>8, <2>9, <2>10 DEF q, F, PcmValues
<1> QED  BY <1>0, <1>3, <1>4

(* A sample becomes PCM next to it, whatever its level. *)
LEMMA NearSample ==
  ASSUME NEW s \in Int
  PROVE  Near(ToPcm(s), s)
<1> DEFINE F == FullScale
           R == Resolution
           c == Clamp(s)
           q == ToPcm(s)
<1>0. /\ F \in Nat /\ F >= 2 /\ R \in Nat /\ R >= 1
      /\ One \in Nat /\ One >= 1 /\ One = F * R
  BY Positive
<1>1. c \in Int /\ -One <= c /\ c <= One
  BY <1>0 DEF Clamp
<1>2. CASE c < 0
  <2>1. q = Round(c, R)
    BY <1>2 DEF ToPcm
  <2> HIDE DEF c
  <2>2. /\ q \in Int
        /\ 2 * (R * q) >= 2 * c - R
        /\ 2 * c > 2 * (R * q) - R
    BY <1>0, <1>1, <1>2, <2>1, RoundNearest
  <2> HIDE DEF q, F, R
  <2>3. q <= 0
    <3>1. R * (2 * q) < R * 1
      BY <1>0, <1>1, <1>2, <2>2
    <3>2. 2 * q < 1
      BY <1>0, <2>2, <3>1, Cancel
    <3> QED
      BY <2>2, <3>2
  <2>4. q >= -F
    <3>1. R * (-(2 * F) - 1) <= R * (2 * q)
      BY <1>0, <1>1, <2>2
    <3>2. -(2 * F) - 1 <= 2 * q
      BY <1>0, <2>2, <3>1, Cancel
    <3> QED
      BY <1>0, <2>2, <3>2
  <2>5. q \in PcmValues /\ q * R = R * q
    BY <1>0, <2>2, <2>3, <2>4 DEF PcmValues, F
  <2> QED
    BY <1>0, <1>1, <1>2, <2>2, <2>3, <2>5 DEF Near, FromPcm, c, q, R
<1>3. CASE c >= 0
  <2> DEFINE a == c * (F - 1)
  <2>1. q = Round(a, One)
    BY <1>1, <1>3 DEF ToPcm
  <2> HIDE DEF c, F
  <2>2. a \in Int /\ a >= 0 /\ F * c = a + c
    BY <1>0, <1>1, <1>3
  <2> HIDE DEF a
  <2>3. /\ q \in Int
        /\ 2 * (One * q) <= 2 * a + One
        /\ 2 * a < 2 * (One * q) + One
    <3>1. One \in Nat \ {0}
      BY <1>0
    <3> HIDE DEF q
    <3> QED
      BY <2>1, <2>2, <3>1, RoundNearest
  <2> HIDE DEF q, R
  <2>4. One * q = F * (R * q) /\ R * q \in Int
    BY <1>0, <2>3
  <2> DEFINE m == R * q
  <2>5. m \in Int /\ One * q = F * m /\ m = q * R
    BY <1>0, <2>3, <2>4
  <2> HIDE DEF m
  <2>6. F * (2 * m) <= F * (2 * c + R) /\ F * (2 * m) >= F * (2 * c - 3 * R)
    <3>1. F * (2 * c + R) = 2 * (F * c) + F * R /\ F * (2 * c - 3 * R) = 2 * (F * c) - 3 * (F * R)
      BY <1>0, <1>1
    <3>2. F * (2 * m) = 2 * (F * m)
      BY <1>0, <2>5
    <3> QED
      BY <1>0, <1>1, <1>3, <2>2, <2>3, <2>5, <3>1, <3>2
  <2>7. 2 * m <= 2 * c + R /\ 2 * m >= 2 * c - 3 * R
    BY <1>0, <1>1, <2>5, <2>6, Cancel
  <2>8. q >= 0
    <3>1. One * (-1) < One * (2 * q)
      BY <1>0, <2>2, <2>3
    <3>2. -1 < 2 * q
      BY <1>0, <2>3, <3>1, Cancel
    <3> QED
      BY <2>3, <3>2
  <2>9. q <= F - 1
    <3>1. a <= One * (F - 1)
      BY <1>0, <1>1, <1>3 DEF a
    <3>2. One * (2 * q) <= One * (2 * (F - 1) + 1)
      BY <1>0, <2>2, <2>3, <3>1
    <3>3. 2 * q <= 2 * (F - 1) + 1
      BY <1>0, <2>3, <3>2, Cancel
    <3> QED
      BY <1>0, <2>3, <3>3
  <2>10. q \in PcmValues
    BY <1>0, <2>3, <2>8, <2>9 DEF PcmValues, F
  <2> QED
    BY <1>0, <1>1, <1>3, <2>5, <2>7, <2>8, <2>10 DEF Near, FromPcm, c, q, R
<1> QED
  BY <1>1, <1>2, <1>3


-----------------------------------------------------------------------------
(* What may be spoken in the place of a sample of the application's. *)
AtLevel(p, s) ==
  LET q == ToPcm(s)
  IN  IF 2 * q <= FullScale THEN p = q ELSE p <= q /\ 2 * p >= FullScale

Levels == {p \in PcmValues : \E s \in Samples : AtLevel(p, s)}

(* The application's own samples, and those it has heard. *)
Sounds == Samples \union {FromPcm(p) : p \in Levels}

Wording == Texts \union {""}
Kinds == {"Audio", "Text", "ToolResult", "CommitText"} \union Controls
EventTypes == {"setup"} \union UNION {{Types[p][k] : k \in DOMAIN Types[p]} : p \in DOMAIN Types}
Given == [kind : Kinds, samples : Seq(Int), text : Wording]
Events == [type : EventTypes, text : Wording, audio : Seq(Levels)]

TypeInv ==
  /\ provider \in Providers /\ provider \in DOMAIN Types
  /\ wire \in Seq(Events)
  /\ Len(wire) <= MaxInFlight
  /\ service \in [buffer : Seq(Events), turn : Seq(Events),
                  talking : BOOLEAN, open : BOOLEAN, finished : BOOLEAN]
  /\ heard.output.samples \in Seq({FromPcm(p) : p \in Levels})
  /\ meant \in [open : Seq(Given), turns : Seq(Seq(Given)), taken : Seq(Given)]
  /\ closing \in BOOLEAN

(* A sample that is sent, the application's own or one it has heard, is at *)
(* the level of one of its own.                                            *)
LEMMA SentLevel ==
  ASSUME NEW s \in Sounds
  PROVE  s \in Int /\ ToPcm(s) \in Levels
<1>1. CASE s \in Samples
  <2>1. s \in Int /\ ToPcm(s) \in PcmValues
    BY <1>1, RealtimeAssumption, NearSample DEF Near
  <2>2. AtLevel(ToPcm(s), s)
    BY <2>1, Positive DEF AtLevel, PcmValues
  <2> QED
    BY <1>1, <2>1, <2>2 DEF Levels
<1>2. ASSUME NEW p \in Levels, s = FromPcm(p) PROVE s \in Int /\ ToPcm(s) \in Levels
  <2>1. PICK t \in Samples : AtLevel(p, t)
    BY DEF Levels
  <2>2. p \in PcmValues /\ p \in Int /\ s \in Int /\ FullScale \in Int
    BY <1>2, Positive DEF Levels, PcmValues, FromPcm
  <2>3. ToPcm(t) \in Int
    BY RealtimeAssumption, NearSample, Positive DEF Near, PcmValues
  <2> DEFINE r == ToPcm(s)
  <2>4. /\ r \in PcmValues /\ r \in Int
        /\ 2 * p <= FullScale => r = p
        /\ 2 * p > FullScale => r <= p /\ 2 * r >= FullScale
    BY <1>2, <2>2, RelayLevel, Positive DEF Relayed, PcmValues
  <2> HIDE DEF r
  <2>5. AtLevel(r, t)
    BY <2>1, <2>2, <2>3, <2>4 DEF AtLevel
  <2> QED
    BY <2>2, <2>4, <2>5 DEF Levels, r
<1> QED
  BY <1>1, <1>2 DEF Sounds

(* What an event that is sent makes the provider do is what the            *)
(* application meant.                                                      *)
Obeys(input, does) ==
  /\ "item" \in does <=> IsItem(input)
  /\ "commit" \in does <=> IsCommit(input)
  /\ "append" \in does <=> input.kind \in {"Audio", "Text"} /\ ~IsItem(input)
  /\ "clear" \in does <=> input.kind = "ClearOutput" /\ provider = "openai"
  /\ "close" \in does => input.kind = "Close"

(* What each type of event makes the provider do. *)
LEMMA EffectsOf ==
  ASSUME NEW e
  PROVE  /\ e.type \in {"input_audio_buffer.append", "input_text_buffer.append",
                        "realtimeInput", "Speak"} => Effects(e) = {"append"}
         /\ e.type = "input_audio_buffer.commit" => Effects(e) = {"commit"}
         /\ e.type = "input_audio_buffer.clear" => Effects(e) = {"clear"}
         /\ e.type = "conversation.item.create" => Effects(e) = {"item"}
         /\ e.type \in {"clientContent.turns", "toolResponse", "ssml"}
              => Effects(e) = {"item", "start"}
         /\ e.type \in {"clientContent.turnComplete", "input_text_buffer.commit", "Flush"}
              => Effects(e) = {"commit", "start"}
         /\ e.type = "text" /\ e.text = "" => Effects(e) = {"commit", "start", "close"}
         /\ e.type = "text" /\ e.text # "" => Effects(e) = {"append"}
         /\ e.type = "response.create" => Effects(e) = {"start"}
         /\ e.type = "response.cancel" => Effects(e) = {"stop"}
         /\ e.type \in {"session.close", "session.finish", "Close"} => Effects(e) = {"close"}
         /\ e.type = "setup" => Effects(e) = {}
  BY DEF Effects

(* What is sent for an input carries its text and its audio, and makes the *)
(* provider do what the application meant.                                 *)
LEMMA SentEvent ==
  ASSUME provider \in DOMAIN Types, NEW input \in Inputs(Seq(Sounds), Texts),
         ToClientEvent(provider, input) # Unsupported
  PROVE  LET event == ToClientEvent(provider, input)
         IN  /\ event \in Events
             /\ SameItem(event, input)
             /\ Obeys(input, Effects(event))
             /\ input \in Given
<1> DEFINE type == Types[provider][input.kind]
           event == ToClientEvent(provider, input)
<1>1. /\ input.kind \in DOMAIN Types[provider]
      /\ input.kind = "Text" /\ input.text = "" => TakesEmptyText(provider)
      /\ event = ClientEvent(type, input)
  BY DEF ToClientEvent
<1>2. /\ input \in Given
      /\ input.samples \in Seq(Sounds)
      /\ input.kind # "Text" => input.text = ""
  <2>1. /\ input \in [kind : Kinds, samples : Seq(Sounds), text : Wording]
        /\ input.kind # "Text" => input.text = ""
    <3>1. <<>> \in Seq(Sounds)
      OBVIOUS
    <3>2. CASE input \in [kind : {"Audio"}, samples : Seq(Sounds), text : {""}]
      BY <3>2 DEF Wording, Kinds
    <3>3. CASE input \in [kind : {"Text"}, samples : {<<>>}, text : Texts]
      BY <3>1, <3>3 DEF Wording, Kinds
    <3>4. CASE input \in [kind : {"ToolResult", "CommitText"} \union Controls,
                          samples : {<<>>}, text : {""}]
      BY <3>1, <3>4 DEF Wording, Kinds, Controls
    <3> QED
      BY <3>2, <3>3, <3>4 DEF Inputs
  <2>2. input.samples \in Seq(Int)
    <3>1. Sounds \subseteq Int
      BY SentLevel
    <3> QED
      BY <2>1, <3>1, SeqMonotonic
  <2> QED
    BY <2>1, <2>2 DEF Given
<1>3. ASSUME NEW e, e.type = type, e.text = input.text
      PROVE  Obeys(input, Effects(e))
  <2>1. CASE provider = "openai"
    <3>1. Types[provider] = OpenAiTypes
      BY <2>1 DEF Types
    <3>2. input.kind \in DOMAIN OpenAiTypes /\ type = OpenAiTypes[input.kind]
      BY <1>1, <3>1
    <3> HIDE DEF type
    <3>3. \/ input.kind = "Audio" /\ type = "input_audio_buffer.append"
          \/ input.kind = "Text" /\ type = "conversation.item.create"
          \/ input.kind = "ToolResult" /\ type = "conversation.item.create"
          \/ input.kind = "StartResponse" /\ type = "response.create"
          \/ input.kind = "CommitInput" /\ type = "input_audio_buffer.commit"
          \/ input.kind = "ClearOutput" /\ type = "input_audio_buffer.clear"
          \/ input.kind = "Interrupt" /\ type = "response.cancel"
          \/ input.kind = "Close" /\ type = "session.close"
      BY <3>2 DEF OpenAiTypes
    <3>4. \/ input.kind = "Audio" /\ Effects(e) = {"append"}
          \/ input.kind \in {"Text", "ToolResult"} /\ Effects(e) = {"item"}
          \/ input.kind = "StartResponse" /\ Effects(e) = {"start"}
          \/ input.kind = "CommitInput" /\ Effects(e) = {"commit"}
          \/ input.kind = "ClearOutput" /\ Effects(e) = {"clear"}
          \/ input.kind = "Interrupt" /\ Effects(e) = {"stop"}
          \/ input.kind = "Close" /\ Effects(e) = {"close"}
      BY <1>1, <1>2, <1>3, <2>1, <3>3, EffectsOf DEF TakesEmptyText
    <3> QED
      BY <2>1, <3>4 DEF Obeys, IsItem, IsCommit
  <2>2. CASE provider = "gemini"
    <3>1. Types[provider] = GeminiTypes
      BY <2>2 DEF Types
    <3>2. input.kind \in DOMAIN GeminiTypes /\ type = GeminiTypes[input.kind]
      BY <1>1, <3>1
    <3> HIDE DEF type
    <3>3. \/ input.kind = "Audio" /\ type = "realtimeInput"
          \/ input.kind = "Text" /\ type = "clientContent.turns"
          \/ input.kind = "ToolResult" /\ type = "toolResponse"
          \/ input.kind = "CommitInput" /\ type = "clientContent.turnComplete"
      BY <3>2 DEF GeminiTypes
    <3>4. \/ input.kind = "Audio" /\ Effects(e) = {"append"}
          \/ input.kind \in {"Text", "ToolResult"} /\ Effects(e) = {"item", "start"}
          \/ input.kind = "CommitInput" /\ Effects(e) = {"commit", "start"}
      BY <1>1, <1>2, <1>3, <2>2, <3>3, EffectsOf DEF TakesEmptyText
    <3> QED
      BY <2>2, <3>4 DEF Obeys, IsItem, IsCommit
  <2>3. CASE provider = "qwen"
    <3>1. Types[provider] = QwenTypes
      BY <2>3 DEF Types
    <3>2. input.kind \in DOMAIN QwenTypes /\ type = QwenTypes[input.kind]
      BY <1>1, <3>1
    <3> HIDE DEF type
    <3>3. \/ input.kind = "Audio" /\ type = "input_audio_buffer.append"
          \/ input.kind = "CommitInput" /\ type = "input_audio_buffer.commit"
          \/ input.kind = "Text" /\ type = "input_text_buffer.append"
          \/ input.kind = "CommitText" /\ type = "input_text_buffer.commit"
          \/ input.kind = "StartResponse" /\ type = "response.create"
          \/ input.kind = "Close" /\ type = "session.finish"
      BY <3>2 DEF QwenTypes
    <3>4. \/ input.kind \in {"Audio", "Text"} /\ Effects(e) = {"append"}
          \/ input.kind = "CommitInput" /\ Effects(e) = {"commit"}
          \/ input.kind = "CommitText" /\ Effects(e) = {"commit", "start"}
          \/ input.kind = "StartResponse" /\ Effects(e) = {"start"}
          \/ input.kind = "Close" /\ Effects(e) = {"close"}
      BY <1>1, <1>2, <1>3, <2>3, <3>3, EffectsOf DEF TakesEmptyText
    <3> QED
      BY <2>3, <3>4 DEF Obeys, IsItem, IsCommit
  <2>4. CASE provider = "deepgram"
    <3>1. Types[provider] = DeepgramTypes
      BY <2>4 DEF Types
    <3>2. input.kind \in DOMAIN DeepgramTypes /\ type = DeepgramTypes[input.kind]
      BY <1>1, <3>1
    <3> HIDE DEF type
    <3>3. \/ input.kind = "Text" /\ type = "Speak"
          \/ input.kind = "CommitInput" /\ type = "Flush"
          \/ input.kind = "Close" /\ type = "Close"
      BY <3>2 DEF DeepgramTypes
    <3>4. \/ input.kind = "Text" /\ Effects(e) = {"append"}
          \/ input.kind = "CommitInput" /\ Effects(e) = {"commit", "start"}
          \/ input.kind = "Close" /\ Effects(e) = {"close"}
      BY <1>1, <1>2, <1>3, <2>4, <3>3, EffectsOf DEF TakesEmptyText
    <3> QED
      BY <2>4, <3>4 DEF Obeys, IsItem, IsCommit
  <2>5. CASE provider = "elevenlabs"
    <3>1. Types[provider] = ElevenLabsTypes
      BY <2>5 DEF Types
    <3>2. input.kind \in DOMAIN ElevenLabsTypes /\ type = ElevenLabsTypes[input.kind]
      BY <1>1, <3>1
    <3> HIDE DEF type
    <3>3. \/ input.kind = "Text" /\ type = "text"
          \/ input.kind = "Close" /\ type = "text"
      BY <3>2 DEF ElevenLabsTypes
    <3>4. \/ input.kind = "Text" /\ Effects(e) = {"append"}
          \/ input.kind = "Close" /\ Effects(e) = {"commit", "start", "close"}
      BY <1>1, <1>2, <1>3, <2>5, <3>3, EffectsOf DEF TakesEmptyText
    <3> QED
      BY <2>5, <3>4 DEF Obeys, IsItem, IsCommit
  <2>6. CASE provider = "azure"
    <3>1. Types[provider] = AzureTypes
      BY <2>6 DEF Types
    <3>2. input.kind \in DOMAIN AzureTypes /\ type = AzureTypes[input.kind]
      BY <1>1, <3>1
    <3> HIDE DEF type
    <3>3. \/ input.kind = "Text" /\ type = "ssml"
      BY <3>2 DEF AzureTypes
    <3>4. \/ input.kind = "Text" /\ Effects(e) = {"item", "start"}
      BY <1>1, <1>2, <1>3, <2>6, <3>3, EffectsOf DEF TakesEmptyText
    <3> QED
      BY <2>6, <3>4 DEF Obeys, IsItem, IsCommit
  <2> QED
    BY <2>1, <2>2, <2>3, <2>4, <2>5, <2>6 DEF Types
<1> DEFINE samples == input.samples
<1>4. /\ samples \in Seq(Sounds) /\ Len(samples) \in Nat /\ DOMAIN samples = 1..Len(samples)
      /\ \A i \in 1..Len(samples) : samples[i] \in Sounds
  <2>1. samples \in Seq(Sounds)
    BY <1>2
  <2> HIDE DEF samples
  <2> QED
    BY <2>1
<1> HIDE DEF samples, type, event
<1>5. /\ event = [type |-> type, text |-> input.text, audio |-> event.audio]
      /\ event.audio = [i \in 1..Len(samples) |-> ToPcm(samples[i])]
  BY <1>1, <1>4 DEF ClientEvent, samples
<1> DEFINE audio == event.audio
<1>6. /\ audio \in Seq(Levels) /\ Len(audio) = Len(samples) /\ DOMAIN audio = 1..Len(samples)
      /\ \A k \in 1..Len(samples) : audio[k] = ToPcm(samples[k])
  <2>1. \A i \in 1..Len(samples) : ToPcm(samples[i]) \in Levels
    BY <1>4, SentLevel
  <2>2. audio \in [1..Len(samples) -> Levels]
    BY <1>5, <2>1
  <2> HIDE DEF audio
  <2>3. audio \in Seq(Levels) /\ Len(audio) = Len(samples)
    BY <1>4, <2>2
  <2> QED
    BY <1>5, <2>2, <2>3 DEF audio
<1> HIDE DEF audio
<1>7. \A k \in 1..Len(samples) : Near(audio[k], samples[k])
  BY <1>4, <1>6, SentLevel, NearSample
<1>8. event \in Events
  <2>1. type \in EventTypes
    <3>1. provider \in DOMAIN Types /\ input.kind \in DOMAIN Types[provider]
      BY <1>1
    <3> QED
      BY <3>1 DEF EventTypes, type
  <2>2. input.text \in Wording
    BY <1>2 DEF Given
  <2> QED
    BY <1>5, <1>6, <2>1, <2>2 DEF Events, audio
<1>9. SameItem(event, input)
  <2>1. event.text = input.text
    BY <1>5
  <2> QED
    BY <1>4, <1>6, <1>7, <2>1 DEF SameItem, audio, samples
<1>10. Obeys(input, Effects(event))
  <2>1. event.type = type /\ event.text = input.text
    BY <1>5
  <2> QED
    BY <1>3, <2>1
<1> QED
  BY <1>2, <1>8, <1>9, <1>10 DEF event

-----------------------------------------------------------------------------
(* What a part of an event is heard as. *)
IsAudio(p) == p.what = "audio" /\ p.audio \in Seq(Levels) /\ p.text = "" /\ p.ok \in BOOLEAN
IsText(p) == p.what = "text" /\ p.audio = <<>> /\ p.ok = TRUE

Heard == {FromPcm(p) : p \in Levels}

(* What an output says of a part. *)
Tells(o, p) ==
  /\ o.samples \in Seq(Heard)
  /\ ~o.final
  /\ o.out # "ResponseCompleted"
  /\ IF p.what = "audio" /\ p.ok
       THEN o.out = "Audio" /\ o.samples = [i \in DOMAIN p.audio |-> FromPcm(p.audio[i])]
       ELSE IF p.what = "text"
       THEN o.out = "TranscriptFragment" /\ o.text = p.text
       ELSE o.out \notin {"Audio", "TranscriptFragment"}

(* A part with audio or text is heard as what it is, or as a failure when  *)
(* it does not decode.                                                     *)
LEMMA PartHeard ==
  ASSUME NEW p, IsAudio(p) \/ IsText(p)
  PROVE  Tells(PartOutput(p), p)
<1>0. <<>> \in Seq(Heard)
  OBVIOUS
<1>1. CASE IsText(p)
  <2>1. PartOutput(p) = [out |-> "TranscriptFragment", samples |-> <<>>, text |-> p.text, final |-> FALSE]
    BY <1>1 DEF PartOutput, IsText, Fragment, Nothing
  <2> QED
    BY <1>0, <1>1, <2>1 DEF Tells, IsText
<1>2. CASE IsAudio(p) /\ ~p.ok
  <2>1. PartOutput(p) = [out |-> "Failed", samples |-> <<>>, text |-> "", final |-> FALSE]
    BY <1>2 DEF PartOutput, IsAudio, AudioOutput, Failed, Nothing
  <2> QED
    <3> DEFINE o == PartOutput(p)
    <3>0. o = [out |-> "Failed", samples |-> <<>>, text |-> "", final |-> FALSE]
      BY <2>1
    <3> HIDE DEF o
    <3>1. o.samples \in Seq(Heard) /\ ~o.final /\ o.out = "Failed"
      BY <1>0, <3>0
    <3>2. p.what = "audio" /\ ~p.ok
      BY <1>2, Zenon DEF IsAudio
    <3>3. Tells(o, p)
      BY <3>1, <3>2 DEF Tells
    <3> QED
      BY <3>3 DEF o
<1>3. CASE IsAudio(p) /\ p.ok
  <2> DEFINE audio == p.audio
             samples == [i \in DOMAIN audio |-> FromPcm(audio[i])]
  <2>1. PartOutput(p) = [out |-> "Audio", samples |-> samples, text |-> "", final |-> FALSE]
    BY <1>3 DEF PartOutput, IsAudio, AudioOutput, Nothing
  <2>2. samples \in Seq(Heard)
    <3>1. audio \in Seq(Levels)
      BY <1>3 DEF IsAudio
    <3> HIDE DEF audio
    <3>2. /\ DOMAIN audio = 1..Len(audio) /\ Len(audio) \in Nat
          /\ \A i \in 1..Len(audio) : audio[i] \in Levels
      BY <3>1
    <3>3. samples \in [1..Len(audio) -> Heard]
      BY <3>2 DEF Heard
    <3> QED
      BY <3>2, <3>3
  <2> HIDE DEF samples
  <2>3. samples = [i \in DOMAIN p.audio |-> FromPcm(p.audio[i])]
    BY DEF samples
  <2> QED
    <3> DEFINE o == PartOutput(p)
    <3>0. o = [out |-> "Audio", samples |-> samples, text |-> "", final |-> FALSE]
      BY <2>1
    <3> HIDE DEF o
    <3>1. o.samples = samples /\ o.samples \in Seq(Heard) /\ ~o.final /\ o.out = "Audio"
      BY <2>2, <3>0
    <3>2. p.what = "audio" /\ p.ok
      BY <1>3, Zenon DEF IsAudio
    <3>3. Tells(o, p)
      BY <2>3, <3>1, <3>2 DEF Tells
    <3> QED
      BY <3>3 DEF o
<1> QED
  BY <1>1, <1>2, <1>3 DEF IsAudio

(* The first of the parts of an event that is not passed over. *)
LEMMA First ==
  ASSUME NEW p, NEW q
  PROVE  /\ FirstUsable(<<>>) = 0
         /\ p.what # "other" => FirstUsable(<<p>>) = 1 /\ FirstUsable(<<p, q>>) = 1
         /\ p.what = "other" /\ q.what # "other" => FirstUsable(<<p, q>>) = 2
<1>1. FirstUsable(<<>>) = 0
  <2>1. {i \in 1..Len(<<>>) : <<>>[i].what # "other"} = {}
    OBVIOUS
  <2> QED
    BY <2>1 DEF FirstUsable, SelectInSeq
<1>2. ASSUME p.what # "other" PROVE FirstUsable(<<p>>) = 1
  <2>1. {i \in 1..Len(<<p>>) : <<p>>[i].what # "other"} = {1}
    BY <1>2
  <2>2. Min({1}) = 1
    BY DEF Min
  <2> QED
    BY <2>1, <2>2 DEF FirstUsable, SelectInSeq
<1>3. ASSUME p.what # "other" PROVE FirstUsable(<<p, q>>) = 1
  <2> DEFINE I == {i \in 1..Len(<<p, q>>) : <<p, q>>[i].what # "other"}
  <2>1. I \subseteq {1, 2} /\ 1 \in I
    BY <1>3
  <2>2. FirstUsable(<<p, q>>) = Min(I)
    BY <2>1 DEF FirstUsable, SelectInSeq
  <2> HIDE DEF I
  <2>3. Min(I) = 1
    <3>1. 1 \in I /\ \A y \in I : 1 <= y /\ (y <= 1 => y = 1)
      BY <2>1
    <3>2. \E x \in I : \A y \in I : x <= y
      BY <3>1
    <3>3. Min(I) \in I /\ \A y \in I : Min(I) <= y
      BY <3>2 DEF Min
    <3> QED
      BY <3>1, <3>3
  <2> QED
    BY <2>2, <2>3
<1>4. ASSUME p.what = "other", q.what # "other" PROVE FirstUsable(<<p, q>>) = 2
  <2>1. {i \in 1..Len(<<p, q>>) : <<p, q>>[i].what # "other"} = {2}
    BY <1>4
  <2>2. Min({2}) = 2
    BY DEF Min
  <2> QED
    BY <2>1, <2>2 DEF FirstUsable, SelectInSeq
<1> QED
  BY <1>1, <1>2, <1>3, <1>4

(* What an event says that has a part that is not passed over, and what    *)
(* one says that has none.                                                 *)
LEMMA SaysPart ==
  ASSUME NEW event, NEW p, event.type \notin HeardEnds,
         FirstUsable(event.parts) # 0, event.parts[FirstUsable(event.parts)] = p,
         p.ok \in BOOLEAN, provider \in {"deepgram", "azure"} => p.text # ""
  PROVE  Said(event) = IF p.ok THEN p ELSE OtherPart
<1>1. CASE p.ok
  BY <1>1, Zenon DEF Said
<1>2. CASE ~p.ok
  BY <1>2, Zenon DEF Said
<1> QED
  BY <1>1, <1>2

(* An event that ends something says nothing by its parts.                 *)
LEMMA SaysEnd ==
  ASSUME NEW event, event.type \in HeardEnds
  PROVE  Said(event) = OtherPart
BY Zenon DEF Said

(* An event without parts says nothing.                                    *)
LEMMA SaysNone ==
  ASSUME NEW event, event.parts = <<>>
  PROVE  Said(event) = OtherPart
<1>1. FirstUsable(event.parts) = 0
  BY First
<1> QED
  BY <1>1, Zenon DEF Said

(* An output that is as HeardAsSaid and EndsHeard ask. *)
WellEnds(event, o) ==
  /\ o.samples = <<>>
  /\ IF o.final THEN o.out = "TranscriptFragment" ELSE o.out = "ResponseCompleted"
  /\ event.parts # <<>> => o.text = event.parts[1].text

Well(event, o) ==
  IF event.type \in HeardEnds THEN WellEnds(event, o) ELSE Tells(o, Said(event))

(* An event whose first usable part is returned is heard as it should.     *)
LEMMA WellPart ==
  ASSUME NEW event, NEW p, event.type \notin HeardEnds, IsAudio(p) \/ IsText(p),
         FirstUsable(event.parts) # 0, event.parts[FirstUsable(event.parts)] = p,
         provider \in {"deepgram", "azure"} => p.text # ""
  PROVE  Well(event, PartOutput(p))
<1>1. p.ok \in BOOLEAN
  BY DEF IsAudio, IsText
<1>2. Said(event) = IF p.ok THEN p ELSE OtherPart
  BY <1>1, SaysPart
<1>3. Tells(PartOutput(p), p)
  BY PartHeard
<1>4. CASE p.ok
  BY <1>2, <1>3, <1>4 DEF Well
<1>5. CASE ~p.ok
  <2>1. p.what = "audio"
    BY <1>5 DEF IsAudio, IsText
  <2>2. Tells(PartOutput(p), OtherPart)
    BY <1>3, <1>5, <2>1 DEF Tells, OtherPart
  <2> QED
    BY <1>2, <1>5, <2>2 DEF Well
<1> QED
  BY <1>1, <1>4, <1>5

(* No sound is a sequence of sounds.                                       *)
LEMMA NoSound == <<>> \in Seq(Heard)
OBVIOUS

(* The fields of the outputs without audio or text.                        *)
LEMMA Outputs ==
  /\ Nothing.out = "Nothing" /\ Nothing.samples = <<>> /\ Nothing.final = FALSE
  /\ Failed.out = "Failed" /\ Failed.samples = <<>> /\ Failed.final = FALSE
  /\ LET error == [Nothing EXCEPT !.out = "Error"]
     IN  error.out = "Error" /\ error.samples = <<>> /\ error.final = FALSE
  /\ Completed.out = "ResponseCompleted" /\ Completed.samples = <<>>
  /\ Completed.text = "" /\ Completed.final = FALSE
<1> USE DEF Nothing, Failed, Completed
<1>1. Nothing.out = "Nothing" /\ Nothing.samples = <<>> /\ Nothing.final = FALSE
  OBVIOUS
<1>2. Failed.out = "Failed" /\ Failed.samples = <<>> /\ Failed.final = FALSE
  OBVIOUS
<1>3. LET error == [Nothing EXCEPT !.out = "Error"]
      IN  error.out = "Error" /\ error.samples = <<>> /\ error.final = FALSE
  OBVIOUS
<1>4. /\ Completed.out = "ResponseCompleted" /\ Completed.samples = <<>>
      /\ Completed.text = "" /\ Completed.final = FALSE
  OBVIOUS
<1> HIDE DEF Nothing, Failed, Completed
<1> QED
  BY <1>1, <1>2, <1>3, <1>4

(* An event that says nothing may be left out or be an error.              *)
LEMMA WellSilent ==
  ASSUME NEW event, event.type \notin HeardEnds, Said(event) = OtherPart
  PROVE  /\ Well(event, Nothing)
         /\ Well(event, Failed)
         /\ Well(event, [Nothing EXCEPT !.out = "Error"])
<1>1. ASSUME NEW o, o.samples = <<>>, o.final = FALSE,
             o.out = "Nothing" \/ o.out = "Failed" \/ o.out = "Error"
      PROVE  Well(event, o)
  <2>1. OtherPart.what = "other"
    BY DEF OtherPart
  <2> QED
    BY <1>1, <2>1, NoSound DEF Well, Tells
<1> DEFINE error == [Nothing EXCEPT !.out = "Error"]
<1>2. error.out = "Error" /\ error.samples = <<>> /\ error.final = FALSE
  BY Outputs, Zenon
<1> HIDE DEF error
<1>3. Well(event, Nothing)
  BY <1>1, Outputs, Zenon
<1>4. Well(event, Failed)
  BY <1>1, Outputs, Zenon
<1>5. Well(event, error)
  BY <1>1, <1>2, Zenon
<1> QED
  BY <1>3, <1>4, <1>5 DEF error

(* A final fragment tells of an end.                                       *)
LEMMA WellFragment ==
  ASSUME NEW event, event.type \in HeardEnds, NEW text,
         event.parts # <<>> => text = event.parts[1].text
  PROVE  Well(event, Fragment(text, TRUE))
<1> DEFINE o == Fragment(text, TRUE)
<1>1. o.out = "TranscriptFragment" /\ o.samples = <<>> /\ o.text = text /\ o.final = TRUE
  <2>1. o.out = "TranscriptFragment" /\ o.samples = <<>> /\ o.text = text
    BY SMT DEF Fragment, Nothing
  <2>2. o.final = TRUE
    BY SMT DEF Fragment, Nothing
  <2> QED
    BY <2>1, <2>2
<1> HIDE DEF o
<1>2. WellEnds(event, o)
  BY <1>1, Zenon DEF WellEnds
<1> QED
  BY <1>2, Zenon DEF Well, o

(* A completed response tells of an end that comes without a text.         *)
LEMMA WellCompleted ==
  ASSUME NEW event, event.type \in HeardEnds,
         event.parts # <<>> => event.parts[1].text = ""
  PROVE  Well(event, Completed)
<1> DEFINE o == Completed
<1>1. o.out = "ResponseCompleted" /\ o.samples = <<>> /\ o.text = "" /\ o.final = FALSE
  BY Outputs, Zenon
<1> HIDE DEF o
<1>2. WellEnds(event, o)
  BY <1>1, Zenon DEF WellEnds
<1> QED
  BY <1>2, Zenon DEF Well, o

(* The parts of the events of a provider, whatever turn it has taken. *)
LEMMA PartsOf ==
  ASSUME TypeInv
  PROVE  /\ \A p \in AudioParts : IsAudio(p)
         /\ \A p \in TextParts : IsText(p)
         /\ \A S : \A parts \in OneOf(S) : parts = <<>> \/ \E p \in S : parts = <<p>>
<1>1. ASSUME NEW p \in AudioParts PROVE IsAudio(p)
  <2>1. CASE p = AudioPart(<<>>, FALSE)
    <3>1. <<>> \in Seq(Levels)
      OBVIOUS
    <3> QED
      BY <2>1, <3>1 DEF AudioPart, IsAudio
  <2>2. ASSUME NEW item \in ToSet(service.turn), p = AudioPart(item.audio, TRUE) PROVE IsAudio(p)
    <3>1. item \in Events
      <4> DEFINE turn == service.turn
      <4>1. turn \in Seq(Events) /\ item \in ToSet(turn)
        BY <2>2 DEF TypeInv
      <4> HIDE DEF turn
      <4> QED
        BY <4>1 DEF ToSet
    <3>2. item.audio \in Seq(Levels)
      BY <3>1 DEF Events
    <3> QED
      BY <2>2, <3>2 DEF AudioPart, IsAudio
  <2> QED
    BY <2>1, <2>2 DEF AudioParts
<1>2. ASSUME NEW p \in TextParts PROVE IsText(p)
  BY DEF TextParts, TextPart, IsText
<1>3. \A S : \A parts \in OneOf(S) : parts = <<>> \/ \E p \in S : parts = <<p>>
  BY DEF OneOf
<1> QED
  BY <1>1, <1>2, <1>3

(* An event with one part or none, as a delta. *)
LEMMA WellDelta ==
  ASSUME TypeInv, provider \notin {"deepgram", "azure"}, NEW event, event.type \notin HeardEnds,
         NEW S, event.parts \in OneOf(S), NEW what, what # "other",
         \A p \in S : p.what = what /\ (IsAudio(p) \/ IsText(p))
  PROVE  Well(event, DeltaOutput(event, what))
<1>1. CASE event.parts = <<>>
  <2>1. DeltaOutput(event, what) = Failed
    BY <1>1, Zenon DEF DeltaOutput
  <2>2. Said(event) = OtherPart
    BY <1>1, SaysNone
  <2>3. Well(event, Failed)
    BY <2>2, WellSilent
  <2> QED
    BY <2>1, <2>3
<1>2. ASSUME NEW p \in S, event.parts = <<p>>
      PROVE  Well(event, DeltaOutput(event, what))
  <2>1. event.parts # <<>> /\ event.parts[1] = p /\ p.what = what
    BY <1>2
  <2>2. FirstUsable(event.parts) = 1
    BY <1>2, <2>1, First
  <2>3. DeltaOutput(event, what) = PartOutput(p)
    BY <2>1, Zenon DEF DeltaOutput
  <2>4. 1 # 0
    OBVIOUS
  <2>5. Well(event, PartOutput(p))
    <3>1. IsAudio(p) \/ IsText(p)
      BY <1>2
    <3> QED
      BY <2>1, <2>2, <2>4, <3>1, WellPart, Zenon
  <2> QED
    BY <2>3, <2>5
<1> QED
  BY <1>1, <1>2, PartsOf

(* server_event_to_output, on each event of OpenAI.                        *)
LEMMA WellOpenAi ==
  ASSUME TypeInv, provider = "openai", NEW event \in ServerEvents
  PROVE  Well(event, OpenAiOutput(event))
<1>1. CASE event.type = "response.output_audio.delta" /\ event.parts \in OneOf(AudioParts)
  <2>1. OpenAiOutput(event) = DeltaOutput(event, "audio")
    BY <1>1 DEF OpenAiOutput
  <2>2. event.type \notin HeardEnds /\ provider \notin {"deepgram", "azure"}
    BY <1>1 DEF HeardEnds, QwenDones
  <2>3. \A p \in AudioParts : p.what = "audio" /\ (IsAudio(p) \/ IsText(p))
    BY PartsOf DEF IsAudio
  <2>4. Well(event, DeltaOutput(event, "audio"))
    BY <1>1, <2>2, <2>3, WellDelta
  <2> QED
    BY <2>1, <2>4
<1>2. CASE /\ event.type \in {"response.output_text.delta", "response.output_audio_transcript.delta"}
           /\ event.parts \in OneOf(TextParts)
  <2>1. OpenAiOutput(event) = DeltaOutput(event, "text")
    BY <1>2 DEF OpenAiOutput
  <2>2. event.type \notin HeardEnds /\ provider \notin {"deepgram", "azure"}
    BY <1>2 DEF HeardEnds, QwenDones
  <2>3. \A p \in TextParts : p.what = "text" /\ (IsAudio(p) \/ IsText(p))
    BY PartsOf DEF IsText
  <2>4. Well(event, DeltaOutput(event, "text"))
    BY <1>2, <2>2, <2>3, WellDelta
  <2> QED
    BY <2>1, <2>4
<1>3. CASE event.type = "response.done" /\ event.parts = <<>>
  <2>1. OpenAiOutput(event) = Completed
    BY <1>3 DEF OpenAiOutput
  <2>2. event.type \in HeardEnds
    BY <1>3 DEF HeardEnds
  <2> QED
    BY <1>3, <2>1, <2>2, WellCompleted, Zenon
<1>4. CASE /\ event.type \in OpenAiDones \union {"response.function_call_arguments.done"}
           /\ event.parts = <<>>
  <2>1. OpenAiOutput(event) = Nothing
    BY <1>4 DEF OpenAiOutput, OpenAiDones
  <2>2. event.type \notin HeardEnds
    BY <1>4 DEF HeardEnds, QwenDones, OpenAiDones
  <2>3. Well(event, Nothing)
    BY <1>4, <2>2, SaysNone, WellSilent
  <2> QED
    BY <2>1, <2>3
<1>5. \/ event \in [type : {"response.output_audio.delta"}, parts : OneOf(AudioParts)]
      \/ event \in [type : {"response.output_text.delta", "response.output_audio_transcript.delta"},
                    parts : OneOf(TextParts)]
      \/ event \in [type : OpenAiDones \union {"response.done", "response.function_call_arguments.done"},
                    parts : {<<>>}]
  BY DEF ServerEvents
<1> QED
  BY <1>1, <1>2, <1>3, <1>4, <1>5

(* server_message_to_output, on each message of Gemini Live.               *)
LEMMA WellGemini ==
  ASSUME TypeInv, provider = "gemini", NEW event \in ServerEvents
  PROVE  Well(event, GeminiOutput(event))
<1> DEFINE parts == event.parts
           usable == {i \in DOMAIN event.parts : event.parts[i].what # "other"}
<1>1. event.type \in GeminiContents /\ event.type \notin HeardEnds
  BY DEF ServerEvents, GeminiContents, GeminiEnds, HeardEnds, QwenDones
<1>2. \A p \in AudioParts \union TextParts : IsAudio(p) \/ IsText(p)
  BY PartsOf
<1>3. \/ parts = <<>>
      \/ \E p \in AudioParts \union TextParts : parts = <<p>>
      \/ \E p \in AudioParts \union TextParts, q \in TextParts : parts = <<p, q>>
      \/ \E q \in TextParts : parts = <<OtherPart, q>>
  BY DEF ServerEvents, OneOf
<1>4. CASE parts = <<>>
  <2>1. usable = {}
    BY <1>4
  <2>2. GeminiOutput(event) = Nothing
    BY <2>1, Zenon DEF GeminiOutput
  <2>3. Well(event, Nothing)
    BY <1>1, <1>4, SaysNone, WellSilent
  <2> QED
    BY <2>2, <2>3
<1>5. ASSUME NEW k \in usable, \A j \in usable : k <= j, usable \subseteq Nat \ {0},
             k = FirstUsable(parts), IsAudio(parts[k]) \/ IsText(parts[k])
      PROVE  Well(event, GeminiOutput(event))
  <2>1. (CHOOSE i \in usable : \A j \in usable : i <= j) = k
    <3> HIDE DEF usable
    <3> DEFINE m == CHOOSE i \in usable : \A j \in usable : i <= j
    <3>1. m \in usable /\ \A j \in usable : m <= j
      BY <1>5
    <3> HIDE DEF m
    <3>2. m = k
      BY <1>5, <3>1
    <3> QED
      BY <3>2 DEF m
  <2>2. GeminiOutput(event) = PartOutput(parts[k])
    <3>1. usable # {}
      BY <1>5
    <3> QED
      BY <1>1, <2>1, <3>1, Zenon DEF GeminiOutput
  <2>3. k # 0
    <3> HIDE DEF usable
    <3> QED
      BY <1>5
  <2>4. Well(event, PartOutput(parts[k]))
    <3>1. provider \in {"deepgram", "azure"} => parts[k].text # ""
      OBVIOUS
    <3> QED
      BY <1>1, <1>5, <2>3, <3>1, WellPart, Zenon
  <2> QED
    BY <2>2, <2>4
<1>6. ASSUME NEW p \in AudioParts \union TextParts, parts = <<p>> PROVE Well(event, GeminiOutput(event))
  <2>1. p.what # "other"
    BY <1>2 DEF IsAudio, IsText
  <2>2. DOMAIN parts = 1..1 /\ parts[1] = p
    BY <1>6
  <2>3. FirstUsable(parts) = 1
    BY <1>6, <2>1, First, Zenon
  <2> HIDE DEF parts
  <2>4. usable = {1}
    <3>1. \A i : i \in usable <=> i \in DOMAIN parts /\ parts[i].what # "other"
      BY DEF parts
    <3> HIDE DEF usable
    <3> QED
      BY <2>1, <2>2, <3>1
  <2>5. IsAudio(p) \/ IsText(p)
    BY <1>2
  <2> HIDE DEF usable
  <2> QED
    BY <1>5, <2>2, <2>3, <2>4, <2>5
<1>7. ASSUME NEW p \in AudioParts \union TextParts, NEW q \in TextParts, parts = <<p, q>>
      PROVE  Well(event, GeminiOutput(event))
  <2>1. p.what # "other" /\ q.what # "other"
    BY <1>2 DEF IsAudio, IsText
  <2>2. DOMAIN parts = 1..2 /\ parts[1] = p /\ parts[2] = q
    BY <1>7
  <2>3. FirstUsable(parts) = 1
    BY <1>7, <2>1, First, Zenon
  <2> HIDE DEF parts
  <2>4. usable = {1, 2}
    <3>1. \A i : i \in usable <=> i \in DOMAIN parts /\ parts[i].what # "other"
      BY DEF parts
    <3> HIDE DEF usable
    <3> QED
      BY <2>1, <2>2, <3>1
  <2>5. IsAudio(p) \/ IsText(p)
    BY <1>2
  <2> HIDE DEF usable
  <2> QED
    BY <1>5, <2>2, <2>3, <2>4, <2>5
<1>8. ASSUME NEW q \in TextParts, parts = <<OtherPart, q>> PROVE Well(event, GeminiOutput(event))
  <2>1. OtherPart.what = "other" /\ q.what # "other"
    BY <1>2 DEF IsAudio, IsText, OtherPart
  <2>2. DOMAIN parts = 1..2 /\ parts[1] = OtherPart /\ parts[2] = q
    BY <1>8
  <2>3. FirstUsable(parts) = 2
    BY <1>8, <2>1, First, Zenon
  <2> HIDE DEF parts
  <2>4. usable = {2}
    <3>1. \A i : i \in usable <=> i \in DOMAIN parts /\ parts[i].what # "other"
      BY DEF parts
    <3> HIDE DEF usable
    <3> QED
      BY <2>1, <2>2, <3>1
  <2>5. IsAudio(q) \/ IsText(q)
    BY <1>2
  <2> HIDE DEF usable
  <2> QED
    BY <1>5, <2>2, <2>3, <2>4, <2>5
<1> QED
  BY <1>3, <1>4, <1>6, <1>7, <1>8

(* The text of an event with one part of text or none. *)
LEMMA OneText ==
  ASSUME TypeInv, NEW event, event.parts \in OneOf(TextParts)
  PROVE  \/ event.parts = <<>>
         \/ /\ event.parts # <<>>
            /\ IsText(event.parts[1])
            /\ FirstUsable(event.parts) = 1
<1>1. ASSUME NEW p \in TextParts, event.parts = <<p>>
      PROVE  event.parts # <<>> /\ IsText(event.parts[1]) /\ FirstUsable(event.parts) = 1
  <2>1. IsText(p) /\ p.what # "other"
    BY PartsOf DEF IsText
  <2>2. event.parts # <<>> /\ event.parts[1] = p
    BY <1>1
  <2>3. FirstUsable(event.parts) = 1
    BY <1>1, <2>1, First, Zenon
  <2> QED
    BY <2>1, <2>2, <2>3, Zenon
<1> QED
  BY <1>1, PartsOf

(* qwen_server_event_to_output, on each event of Qwen.                     *)
LEMMA WellQwen ==
  ASSUME TypeInv, provider = "qwen", NEW event,
         event \in ServerEvents \/ (event.type = "session.finished" /\ event.parts \in OneOf(TextParts))
  PROVE  Well(event, QwenOutput(event))
<1> DEFINE text == IF event.parts = <<>> THEN "" ELSE event.parts[1].text
<1>0. event.parts # <<>> => text = event.parts[1].text
  BY Zenon
<1>1. CASE event.type = "response.audio.delta" /\ event.parts \in OneOf(AudioParts)
  <2>1. QwenOutput(event) = DeltaOutput(event, "audio")
    BY <1>1 DEF QwenOutput, QwenDeltas, QwenDones
  <2>2. event.type \notin HeardEnds /\ provider \notin {"deepgram", "azure"}
    BY <1>1 DEF HeardEnds, QwenDones
  <2>3. \A p \in AudioParts : p.what = "audio" /\ (IsAudio(p) \/ IsText(p))
    BY PartsOf DEF IsAudio
  <2>4. Well(event, DeltaOutput(event, "audio"))
    BY <1>1, <2>2, <2>3, WellDelta
  <2> QED
    BY <2>1, <2>4
<1>2. CASE event.type \in QwenDeltas /\ event.parts \in OneOf(TextParts)
  <2>1. QwenOutput(event) = DeltaOutput(event, "text")
    BY <1>2 DEF QwenOutput, QwenDeltas, QwenDones
  <2>2. event.type \notin HeardEnds /\ provider \notin {"deepgram", "azure"}
    BY <1>2 DEF HeardEnds, QwenDones, QwenDeltas
  <2>3. \A p \in TextParts : p.what = "text" /\ (IsAudio(p) \/ IsText(p))
    BY PartsOf DEF IsText
  <2>4. Well(event, DeltaOutput(event, "text"))
    BY <1>2, <2>2, <2>3, WellDelta
  <2> QED
    BY <2>1, <2>4
<1>3. CASE event.type \in QwenDones
  <2>1. QwenOutput(event) = Fragment(text, TRUE)
    BY <1>3 DEF QwenOutput, QwenDeltas, QwenDones
  <2>2. event.type \in HeardEnds
    BY <1>3 DEF HeardEnds
  <2>3. Well(event, Fragment(text, TRUE))
    BY <1>0, <2>2, WellFragment
  <2> QED
    BY <2>1, <2>3, Zenon
<1>4. CASE event.type = "session.finished"
  <2>1. event.type \in HeardEnds
    BY <1>4 DEF HeardEnds
  <2>2. CASE text = ""
    <3>1. QwenOutput(event) = Completed
      BY <1>4, <2>2 DEF QwenOutput, QwenDeltas, QwenDones
    <3>2. Well(event, Completed)
      BY <1>0, <2>1, <2>2, WellCompleted
    <3> QED
      BY <3>1, <3>2, Zenon
  <2>3. CASE text # ""
    <3>1. QwenOutput(event) = Fragment(text, TRUE)
      BY <1>4, <2>3 DEF QwenOutput, QwenDeltas, QwenDones
    <3>2. Well(event, Fragment(text, TRUE))
      BY <1>0, <2>1, WellFragment
    <3> QED
      BY <3>1, <3>2, Zenon
  <2> QED
    BY <2>2, <2>3
<1>5. CASE event.type = "response.done" /\ event.parts = <<>>
  <2>1. QwenOutput(event) = Completed
    BY <1>5 DEF QwenOutput, QwenDeltas, QwenDones
  <2>2. event.type \in HeardEnds
    BY <1>5 DEF HeardEnds
  <2> QED
    BY <1>5, <2>1, <2>2, WellCompleted, Zenon
<1>6. CASE event.type = "error" /\ event.parts = <<>>
  <2>1. QwenOutput(event) = [Nothing EXCEPT !.out = "Error"]
    BY <1>6 DEF QwenOutput, QwenDeltas, QwenDones
  <2>2. event.type \notin HeardEnds
    BY <1>6 DEF HeardEnds, QwenDones
  <2>3. Well(event, [Nothing EXCEPT !.out = "Error"])
    BY <1>6, <2>2, SaysNone, WellSilent
  <2> QED
    BY <2>1, <2>3, Zenon
<1>7. \/ event \in [type : {"response.audio.delta"}, parts : OneOf(AudioParts)]
      \/ event \in [type : QwenDeltas \union QwenDones, parts : OneOf(TextParts)]
      \/ event \in [type : {"response.done", "error"}, parts : {<<>>}]
      \/ event.type = "session.finished"
  BY DEF ServerEvents
<1> HIDE DEF text
<1> QED
  BY <1>1, <1>2, <1>3, <1>4, <1>5, <1>6, <1>7

(* The transcript functions, on each message of a transcript service.      *)
LEMMA WellTranscript ==
  ASSUME TypeInv, provider \in {"deepgram", "azure"}, NEW event,
         event.type \in Transcripts, event.parts \in OneOf(TextParts)
  PROVE  Well(event, TranscriptOutput(event))
<1>0. 1 # 0
  OBVIOUS
<1>1. event.type \notin HeardEnds
  BY DEF HeardEnds, QwenDones, Transcripts, TranscriptEnds
<1>2. CASE event.parts = <<>>
  <2>1. TranscriptOutput(event) = Nothing
    BY <1>2, Zenon DEF TranscriptOutput
  <2>2. Well(event, Nothing)
    BY <1>1, <1>2, SaysNone, WellSilent
  <2> QED
    BY <2>1, <2>2
<1>3. CASE /\ event.parts # <<>> /\ IsText(event.parts[1]) /\ FirstUsable(event.parts) = 1
  <2> DEFINE p == event.parts[1]
  <2>1. CASE p.text = ""
    <3>1. TranscriptOutput(event) = Nothing
      BY <2>1, Zenon DEF TranscriptOutput
    <3>2. Said(event) = OtherPart
      <4>1. FirstUsable(event.parts) # 0 /\ event.parts[FirstUsable(event.parts)] = p
        BY <1>0, <1>3, Zenon
      <4>2. event.parts[FirstUsable(event.parts)].text = ""
        BY <2>1, <4>1, Zenon
      <4> QED
        BY <4>1, <4>2, Zenon DEF Said
    <3>3. Well(event, Nothing)
      BY <1>1, <3>2, WellSilent
    <3> QED
      BY <3>1, <3>3
  <2>2. CASE p.text # ""
    <3>1. TranscriptOutput(event) = Fragment(p.text, FALSE)
      BY <1>3, <2>2, Zenon DEF TranscriptOutput
    <3>2. PartOutput(p) = Fragment(p.text, FALSE)
      BY <1>3 DEF PartOutput, IsText
    <3>3. Well(event, PartOutput(p))
      BY <1>0, <1>1, <1>3, <2>2, WellPart, Zenon
    <3> QED
      BY <3>1, <3>2, <3>3
  <2> QED
    BY <2>1, <2>2
<1> QED
  BY <1>2, <1>3, OneText

(* Each event of a response is heard as HeardAsSaid and EndsHeard ask. *)
LEMMA WellHeard ==
  ASSUME TypeInv, NEW event \in ServerEvents
  PROVE  Well(event, ToOutput(provider, event))
<1>1. CASE provider = "openai"
  <2>1. ToOutput(provider, event) = OpenAiOutput(event)
    BY <1>1 DEF ToOutput
  <2> QED
    BY <1>1, <2>1, WellOpenAi
<1>2. CASE provider = "gemini"
  <2>1. ToOutput(provider, event) = GeminiOutput(event)
    BY <1>2 DEF ToOutput
  <2> QED
    BY <1>2, <2>1, WellGemini
<1>3. CASE provider = "qwen"
  <2>1. ToOutput(provider, event) = QwenOutput(event)
    BY <1>3 DEF ToOutput
  <2>2. Well(event, QwenOutput(event))
    BY <1>3, WellQwen, Zenon
  <2> QED
    BY <2>1, <2>2
<1>4. CASE provider \in {"deepgram", "elevenlabs", "azure"}
  BY <1>4 DEF ServerEvents
<1>5. provider \in {"openai", "gemini", "qwen", "deepgram", "elevenlabs", "azure"}
  BY DEF TypeInv, Types
<1> QED
  BY <1>1, <1>2, <1>3, <1>4, <1>5

(* What is heard, of the state. *)
HeardInv == heard.output.samples \in Seq(Heard) /\ HeardAsSaid /\ EndsHeard

(* An event that is mapped well is what the application then has heard.    *)
LEMMA HearStep ==
  ASSUME TypeInv, NEW event, Hear(event), Well(event, ToOutput(provider, event))
  PROVE  HeardInv'
<1> DEFINE o == ToOutput(provider, event)
<1>1. heard'.event = event /\ heard'.output = o /\ provider' = provider
  BY DEF Hear
<1> HIDE DEF o
<1>2. Well(event, o)
  BY DEF o
<1>3. CASE event.type \in HeardEnds
  <2>1. WellEnds(event, o)
    BY <1>2, <1>3 DEF Well
  <2>2. Said(event)' = OtherPart
    BY <1>3, <1>1, Zenon DEF Said
  <2>3. OtherPart.what = "other"
    BY DEF OtherPart
  <2>4. o.samples \in Seq(Heard)
    BY <2>1, NoSound, Zenon DEF WellEnds
  <2> QED
    BY <1>1, <1>3, <2>1, <2>2, <2>3, <2>4 DEF HeardInv, HeardAsSaid, EndsHeard, Ends, WellEnds
<1>4. CASE event.type \notin HeardEnds
  <2>1. Tells(o, Said(event))
    BY <1>2, <1>4 DEF Well
  <2>2. Said(event)' = Said(event)
    BY <1>1 DEF Said
  <2> QED
    <3> DEFINE said == Said(event)
    <3>1. o.samples \in Seq(Heard) /\ ~o.final /\ o.out # "ResponseCompleted"
      BY <2>1, Zenon DEF Tells
    <3>2. Said(heard.event)' = said
      BY <1>1, <2>2
    <3>3. said.ok
      <4>1. OtherPart.ok
        BY DEF OtherPart
      <4> QED
        BY <4>1, Zenon DEF Said
    <3> HIDE DEF said
    <3>4. CASE said.what = "audio"
      <4>1. o.out = "Audio" /\ o.samples = [i \in DOMAIN said.audio |-> FromPcm(said.audio[i])]
        BY <2>1, <3>3, <3>4, Zenon DEF Tells, said
      <4> QED
        BY <1>1, <1>4, <3>1, <3>2, <3>4, <4>1 DEF HeardInv, HeardAsSaid, EndsHeard
    <3>5. CASE said.what = "text"
      <4>1. o.out = "TranscriptFragment" /\ o.text = said.text
        BY <2>1, <3>5 DEF Tells, said
      <4> QED
        BY <1>1, <1>4, <3>1, <3>2, <3>5, <4>1 DEF HeardInv, HeardAsSaid, EndsHeard
    <3>6. CASE said.what \notin {"audio", "text"}
      <4>1. o.out # "Audio" /\ o.out # "TranscriptFragment"
        BY <2>1, <3>6 DEF Tells, said
      <4> QED
        BY <1>1, <1>4, <3>1, <3>2, <3>6, <4>1 DEF HeardInv, HeardAsSaid, EndsHeard
    <3> QED
      BY <3>4, <3>5, <3>6
<1> QED
  BY <1>3, <1>4

-----------------------------------------------------------------------------
(* The types of the state. *)
LEMMA Initially == Init => TypeInv /\ HeardInv
<1> SUFFICES ASSUME Init PROVE TypeInv /\ HeardInv
  OBVIOUS
<1> DEFINE none == <<>>
<1>1. none \in Seq(Events) /\ none \in Seq(Given) /\ none \in Seq(Seq(Given)) /\ none \in Seq(Levels)
  OBVIOUS
<1>2. Setup \in Events
  BY <1>1 DEF Setup, Events, EventTypes, Wording
<1>3. wire \in Seq(Events) /\ Len(wire) = 1
  BY <1>2 DEF Init
<1>4. /\ heard.output = Nothing /\ heard.event.type = "none" /\ heard.event.parts = <<>>
      /\ heard.event.type \notin HeardEnds
  BY DEF Init, Silence, HeardEnds, QwenDones
<1>5. TypeInv
  <2>1. provider \in Providers /\ provider \in DOMAIN Types /\ 1 <= MaxInFlight
    BY RealtimeAssumption DEF Init
  <2>2. service \in [buffer : Seq(Events), turn : Seq(Events),
                     talking : BOOLEAN, open : BOOLEAN, finished : BOOLEAN]
    BY <1>1 DEF Init
  <2>3. meant \in [open : Seq(Given), turns : Seq(Seq(Given)), taken : Seq(Given)]
    BY <1>1 DEF Init
  <2>4. heard.output.samples \in Seq(Heard) /\ closing \in BOOLEAN
    BY <1>4, NoSound, Outputs DEF Init
  <2> QED
    BY <1>3, <2>1, <2>2, <2>3, <2>4 DEF TypeInv, Heard
<1>6. HeardInv
  <2>1. Said(heard.event) = OtherPart /\ OtherPart.what = "other"
    BY <1>4, SaysNone DEF OtherPart
  <2>2. heard.output.out = "Nothing" /\ heard.output.samples = <<>> /\ heard.output.final = FALSE
    BY <1>4, Outputs, Zenon
  <2> QED
    BY <1>4, <2>1, <2>2, NoSound DEF HeardInv, HeardAsSaid, EndsHeard
<1> QED
  BY <1>5, <1>6

(* What the application gives: of its own samples or those it has heard. *)
LEMMA Gives ==
  ASSUME TypeInv, SendAny
  PROVE  \E input \in Inputs(Seq(Sounds), Texts) : Send(input)
<1> DEFINE samples == heard.output.samples
           frames == {<<s>> : s \in Samples} \union {f \in {heard.output.samples} : f # <<>>}
<1>1. PICK input \in Inputs(frames, Texts) : Send(input)
  BY DEF SendAny
<1>2. frames \subseteq Seq(Sounds)
  <2>1. ASSUME NEW s \in Samples PROVE <<s>> \in Seq(Sounds)
    BY DEF Sounds
  <2>2. samples \in Seq(Sounds)
    <3>1. samples \in Seq(Heard) /\ Heard \subseteq Sounds
      BY DEF TypeInv, Heard, Sounds
    <3> HIDE DEF samples
    <3> QED
      BY <3>1, SeqMonotonic
  <2> QED
    BY <2>1, <2>2
<1> HIDE DEF frames
<1>3. input \in Inputs(Seq(Sounds), Texts)
  BY <1>2 DEF Inputs
<1> QED
  BY <1>1, <1>3

(* The state after an input is given. *)
LEMMA SendFacts ==
  ASSUME TypeInv, NEW input \in Inputs(Seq(Sounds), Texts), Send(input)
  PROVE  LET event == ToClientEvent(provider, input)
         IN  /\ event \in Events
             /\ SameItem(event, input)
             /\ Obeys(input, Effects(event))
             /\ wire' = Append(wire, event)
             /\ input \in Given
<1>1. ToClientEvent(provider, input) # Unsupported
  BY Zenon DEF Send
<1>2. wire' = Append(wire, ToClientEvent(provider, input))
  BY Zenon DEF Send
<1> QED
  BY <1>1, <1>2, SentEvent DEF TypeInv

(* An input that is sent keeps the types.                                  *)
LEMMA SendTyped ==
  ASSUME TypeInv, NEW input \in Inputs(Seq(Sounds), Texts), Send(input)
  PROVE  TypeInv'
<1> DEFINE event == ToClientEvent(provider, input)
<1>1. event \in Events /\ input \in Given /\ wire' = Append(wire, event)
  BY SendFacts
<1> HIDE DEF event
<1>2. wire' \in Seq(Events) /\ Len(wire') <= MaxInFlight
  <2>1. wire \in Seq(Events) /\ Len(wire) < MaxInFlight
    BY DEF TypeInv, Send
  <2> QED
    BY <1>1, <2>1, RealtimeAssumption
<1>3. meant' \in [open : Seq(Given), turns : Seq(Seq(Given)), taken : Seq(Given)]
  <2> DEFINE open == meant.open
             turns == meant.turns
  <2>1. meant \in [open : Seq(Given), turns : Seq(Seq(Given)), taken : Seq(Given)]
    BY DEF TypeInv
  <2>2. /\ open \in Seq(Given) /\ turns \in Seq(Seq(Given))
        /\ Append(open, input) \in Seq(Given) /\ <<>> \in Seq(Given)
        /\ Append(turns, <<input>>) \in Seq(Seq(Given)) /\ Append(turns, open) \in Seq(Seq(Given))
    <3>1. open \in Seq(Given) /\ turns \in Seq(Seq(Given))
      BY <2>1
    <3> HIDE DEF open, turns
    <3> QED
      BY <1>1, <3>1
  <2>3. \/ meant' = [meant EXCEPT !.turns = Append(turns, <<input>>)]
        \/ meant' = [meant EXCEPT !.open = <<>>, !.turns = Append(turns, open)]
        \/ meant' = [meant EXCEPT !.open = Append(open, input)]
        \/ meant' = meant
    BY DEF Send, Mean
  <2> HIDE DEF open, turns
  <2> QED
    BY <2>1, <2>2, <2>3
<1>4. closing' \in BOOLEAN /\ UNCHANGED <<provider, service, heard>>
  BY DEF Send
<1> QED
  BY <1>2, <1>3, <1>4 DEF TypeInv

(* What the provider does with the next event. *)
LEMMA ServeFacts ==
  ASSUME TypeInv, Serve
  PROVE  LET event == Head(wire)
             does == Effects(event)
         IN  /\ event \in Events
             /\ wire' = Tail(wire)
             /\ service'.buffer = IF "append" \in does THEN Append(service.buffer, event)
                                  ELSE IF "commit" \in does \/ "clear" \in does THEN <<>>
                                  ELSE service.buffer
             /\ service'.turn = IF "commit" \in does THEN service.buffer
                                ELSE IF "item" \in does THEN <<event>>
                                ELSE service.turn
             /\ ~service'.open => ~service.open \/ "close" \in does
             /\ meant' = IF ("commit" \notin does /\ "item" \notin does) \/ meant.turns = <<>> THEN meant
                         ELSE [meant EXCEPT !.taken = Head(meant.turns), !.turns = Tail(meant.turns)]
             /\ service' \in [buffer : Seq(Events), turn : Seq(Events),
                              talking : BOOLEAN, open : BOOLEAN, finished : BOOLEAN]
<1> DEFINE event == Head(wire)
           does == Effects(event)
           buffer == service.buffer
           talking == (service.talking \/ "start" \in does) /\ "stop" \notin does
           open == service.open /\ "close" \notin does
<1>1. event \in Events /\ wire' = Tail(wire)
  BY DEF Serve, TypeInv
<1> HIDE DEF event
<1>2. /\ service' = [service EXCEPT
                       !.buffer = CASE "append" \in does -> Append(buffer, event)
                                    [] does \intersect {"commit", "clear"} # {} -> <<>>
                                    [] OTHER -> buffer,
                       !.turn = CASE "commit" \in does -> buffer
                                  [] "item" \in does -> <<event>>
                                  [] OTHER -> service.turn,
                       !.talking = talking,
                       !.open = open]
      /\ meant' = IF does \intersect {"commit", "item"} = {} \/ meant.turns = <<>> THEN meant
                  ELSE [meant EXCEPT !.taken = Head(meant.turns), !.turns = Tail(meant.turns)]
  BY DEF Serve, event
<1>3. /\ does \intersect {"commit", "clear"} # {} <=> "commit" \in does \/ "clear" \in does
      /\ does \intersect {"commit", "item"} = {} <=> "commit" \notin does /\ "item" \notin does
  OBVIOUS
<1>4. /\ ~("append" \in does /\ ("commit" \in does \/ "clear" \in does))
      /\ ~("commit" \in does /\ "item" \in does)
  BY DEF Effects
<1> DEFINE newBuffer == IF "append" \in does THEN Append(buffer, event)
                        ELSE IF "commit" \in does \/ "clear" \in does THEN <<>> ELSE buffer
           newTurn == IF "commit" \in does THEN buffer
                      ELSE IF "item" \in does THEN <<event>> ELSE service.turn
<1> HIDE DEF does
<1>5. service' = [service EXCEPT !.buffer = newBuffer, !.turn = newTurn,
                                 !.talking = talking, !.open = open]
  BY <1>2, <1>3, <1>4
<1>6. service \in [buffer : Seq(Events), turn : Seq(Events),
                   talking : BOOLEAN, open : BOOLEAN, finished : BOOLEAN]
  BY DEF TypeInv
<1>7. newBuffer \in Seq(Events) /\ newTurn \in Seq(Events)
  <2>1. buffer \in Seq(Events) /\ service.turn \in Seq(Events)
    BY <1>6
  <2> HIDE DEF buffer
  <2> QED
    BY <1>1, <2>1
<1>8. talking \in BOOLEAN /\ open \in BOOLEAN
  OBVIOUS
<1> HIDE DEF newBuffer, newTurn, talking, open
<1>9. /\ service'.buffer = newBuffer /\ service'.turn = newTurn /\ service'.open = open
      /\ service' \in [buffer : Seq(Events), turn : Seq(Events),
                       talking : BOOLEAN, open : BOOLEAN, finished : BOOLEAN]
  BY <1>5, <1>6, <1>7, <1>8
<1>10. ~open => ~service.open \/ "close" \in does
  BY DEF open
<1> QED
  BY <1>1, <1>2, <1>3, <1>9, <1>10 DEF event, does, buffer, newBuffer, newTurn

(* An event that is taken keeps the types.                                 *)
LEMMA ServeTyped ==
  ASSUME TypeInv, Serve
  PROVE  TypeInv'
<1>1. wire' \in Seq(Events) /\ Len(wire') <= MaxInFlight
  <2>1. wire \in Seq(Events) /\ wire # <<>> /\ wire' = Tail(wire) /\ Len(wire) <= MaxInFlight
    BY DEF TypeInv, Serve
  <2> QED
    BY <2>1, RealtimeAssumption
<1>2. meant' \in [open : Seq(Given), turns : Seq(Seq(Given)), taken : Seq(Given)]
  <2> DEFINE turns == meant.turns
  <2>1. \/ meant' = meant
        \/ turns # <<>> /\ meant' = [meant EXCEPT !.taken = Head(turns), !.turns = Tail(turns)]
    BY ServeFacts
  <2>2. meant \in [open : Seq(Given), turns : Seq(Seq(Given)), taken : Seq(Given)]
    BY DEF TypeInv
  <2>3. turns # <<>> => Head(turns) \in Seq(Given) /\ Tail(turns) \in Seq(Seq(Given))
    <3>1. turns \in Seq(Seq(Given))
      BY <2>2
    <3> HIDE DEF turns
    <3> QED
      BY <3>1
  <2> HIDE DEF turns
  <2> QED
    BY <2>1, <2>2, <2>3
<1>3. service' \in [buffer : Seq(Events), turn : Seq(Events),
                    talking : BOOLEAN, open : BOOLEAN, finished : BOOLEAN]
  BY ServeFacts
<1>4. UNCHANGED <<provider, heard, closing>>
  BY DEF Serve
<1> QED
  BY <1>1, <1>2, <1>3, <1>4 DEF TypeInv

(* An event of the provider is heard, and leaves what the application gave.*)
LEMMA HearsStep ==
  ASSUME TypeInv, Respond \/ FinishSession \/ Listen
  PROVE  /\ HeardInv'
         /\ UNCHANGED <<provider, wire, meant, closing>>
         /\ service'.buffer = service.buffer /\ service'.turn = service.turn
         /\ service'.open = service.open
         /\ service' \in [buffer : Seq(Events), turn : Seq(Events),
                          talking : BOOLEAN, open : BOOLEAN, finished : BOOLEAN]
<1>1. service \in [buffer : Seq(Events), turn : Seq(Events),
                   talking : BOOLEAN, open : BOOLEAN, finished : BOOLEAN]
  BY DEF TypeInv
<1>2. CASE Respond
  <2>1. PICK event \in ServerEvents :
          /\ Hear(event)
          /\ service' = [service EXCEPT !.talking = (event.type \notin LastEvents)]
    BY <1>2 DEF Respond
  <2>2. HeardInv'
    BY <2>1, WellHeard, HearStep
  <2> QED
    BY <1>1, <2>1, <2>2 DEF Hear
<1>3. CASE FinishSession
  <2>1. PICK parts \in OneOf(TextParts) : Hear([type |-> "session.finished", parts |-> parts])
    BY <1>3 DEF FinishSession
  <2> DEFINE event == [type |-> "session.finished", parts |-> parts]
  <2>2. provider = "qwen" /\ ToOutput(provider, event) = QwenOutput(event)
    BY <1>3 DEF FinishSession, ToOutput
  <2>3. event.type = "session.finished" /\ event.parts \in OneOf(TextParts)
    OBVIOUS
  <2> HIDE DEF event
  <2>4. Well(event, ToOutput(provider, event))
    BY <2>2, <2>3, WellQwen
  <2>5. HeardInv'
    BY <2>1, <2>4, HearStep DEF event
  <2> QED
    BY <1>1, <1>3, <2>1, <2>5 DEF Hear, FinishSession
<1>4. CASE Listen
  <2>1. PICK event \in [type : Transcripts, parts : OneOf(TextParts)] : Hear(event)
    BY <1>4 DEF Listen
  <2>2. provider \in {"deepgram", "azure"} /\ ToOutput(provider, event) = TranscriptOutput(event)
    BY <1>4 DEF Listen, ToOutput
  <2>3. event.type \in Transcripts /\ event.parts \in OneOf(TextParts)
    BY <2>1
  <2>4. Well(event, ToOutput(provider, event))
    BY <2>2, <2>3, WellTranscript
  <2>5. HeardInv'
    BY <2>1, <2>4, HearStep
  <2> QED
    BY <1>1, <1>4, <2>1, <2>5 DEF Hear, Listen
<1> QED
  BY <1>2, <1>3, <1>4

(* Every step keeps the types and what the application has heard.          *)
LEMMA Typed == TypeInv /\ HeardInv /\ [Next]_vars => TypeInv' /\ HeardInv'
<1> SUFFICES ASSUME TypeInv, HeardInv, [Next]_vars PROVE TypeInv' /\ HeardInv'
  OBVIOUS
<1>0. ASSUME UNCHANGED <<provider, heard>> PROVE HeardInv'
  BY <1>0 DEF HeardInv, HeardAsSaid, EndsHeard, Said
<1>1. CASE SendAny
  <2>1. PICK input \in Inputs(Seq(Sounds), Texts) : Send(input)
    BY <1>1, Gives
  <2>2. TypeInv'
    BY <2>1, SendTyped
  <2>3. UNCHANGED <<provider, heard>>
    BY <2>1 DEF Send
  <2> QED
    BY <1>0, <2>2, <2>3
<1>2. CASE Serve
  BY <1>0, <1>2, ServeTyped DEF Serve
<1>3. CASE Respond \/ FinishSession \/ Listen
  BY <1>3, HearsStep DEF TypeInv, HeardInv, Heard
<1>4. CASE UNCHANGED vars
  <2>1. TypeInv'
    BY <1>4 DEF TypeInv, vars
  <2>2. UNCHANGED <<provider, heard>>
    BY <1>4 DEF vars
  <2> QED
    BY <1>0, <2>1, <2>2
<1> QED
  BY <1>1, <1>2, <1>3, <1>4 DEF Next

(* The types hold in every state, and so does what is heard.               *)
LEMMA Invariance == Spec => [](TypeInv /\ HeardInv)
<1>1. Init => TypeInv /\ HeardInv
  BY Initially
<1>2. (TypeInv /\ HeardInv) /\ [Next]_vars => (TypeInv /\ HeardInv)'
  BY Typed
<1> QED
  BY <1>1, <1>2, PTL DEF Spec

(* The types, and with them that no more events are on their way than      *)
(* MaxInFlight and that all audio fits 16 bits.                            *)
THEOREM TypeCorrect == Spec => []TypeOK
<1>1. TypeInv => TypeOK
  <2> SUFFICES ASSUME TypeInv PROVE TypeOK
    OBVIOUS
  <2>1. ASSUME NEW i \in DOMAIN wire, NEW j \in DOMAIN wire[i].audio
        PROVE  wire[i].audio[j] \in PcmValues
    <3> DEFINE audio == wire[i].audio
    <3>1. wire[i] \in Events
      BY DEF TypeInv
    <3>2. audio \in Seq(Levels) /\ j \in DOMAIN audio
      BY <3>1 DEF Events
    <3> HIDE DEF audio
    <3>3. audio[j] \in Levels
      BY <3>2
    <3> QED
      BY <3>3 DEF Levels, audio
  <2>2. service.talking \in BOOLEAN /\ service.open \in BOOLEAN
    BY DEF TypeInv
  <2> QED
    BY <2>1, <2>2 DEF TypeInv, TypeOK
<1> QED
  BY <1>1, Invariance, PTL

(* The application hears what each event of the provider says, and nothing *)
(* that it does not (server_event_to_output, server_message_to_output,     *)
(* qwen_server_event_to_output and the transcript functions).              *)
THEOREM EventsAreHeard == Spec => []HeardAsSaid
<1>1. HeardInv => HeardAsSaid
  BY DEF HeardInv
<1> QED
  BY <1>1, Invariance, PTL

(* The application is told of the ends of a response of OpenAI and of a    *)
(* text, response or session of Qwen, with the transcript, and of no end   *)
(* that the provider has not told of (qwen_server_event_to_output,         *)
(* server_event_to_output). Of the ends of Gemini Live and of the          *)
(* transcript services it is not told.                                     *)
THEOREM EndsAreHeard == Spec => []EndsHeard
<1>1. HeardInv => EndsHeard
  BY DEF HeardInv
<1> QED
  BY <1>1, Invariance, PTL

(* However often audio is sent on, what is spoken is no louder than the    *)
(* application's own and fades to half of full scale at most               *)
(* (samples_to_pcm16_le and pcm16_le_to_samples).                          *)
THEOREM RelayedLevel == Spec => []RelayKeepsLevel
<1>1. TypeInv => RelayKeepsLevel
  <2> SUFFICES ASSUME TypeInv, NEW item \in ToSet(service.turn), NEW k \in DOMAIN item.audio
               PROVE  \E s \in Samples : AtLevel(item.audio[k], s)
    BY DEF RelayKeepsLevel, AtLevel
  <2> DEFINE turn == service.turn
             audio == item.audio
  <2>1. turn \in Seq(Events) /\ item \in ToSet(turn)
    BY DEF TypeInv
  <2>2. item \in Events
    <3> HIDE DEF turn
    <3> QED
      BY <2>1 DEF ToSet
  <2>3. audio \in Seq(Levels) /\ k \in DOMAIN audio
    BY <2>2 DEF Events
  <2> HIDE DEF audio
  <2>4. audio[k] \in Levels
    BY <2>3
  <2> QED
    BY <2>4 DEF Levels, audio
<1> QED
  BY <1>1, Invariance, PTL

-----------------------------------------------------------------------------
(* An event that ends the stream is only on its way when the application   *)
(* has asked for the end.                                                  *)
ClosedInv ==
  /\ \A i \in 1..Len(wire) : "close" \in Effects(wire[i]) => closing
  /\ ClosedOnRequest

(* Every step keeps the end of the stream to the application.              *)
LEMMA ClosedStep == TypeInv /\ ClosedInv /\ [Next]_vars => ClosedInv'
<1> SUFFICES ASSUME TypeInv, ClosedInv, [Next]_vars PROVE ClosedInv'
  OBVIOUS
<1>0. wire \in Seq(Events) /\ closing \in BOOLEAN
  BY DEF TypeInv
<1>1. CASE SendAny
  <2>1. PICK input \in Inputs(Seq(Sounds), Texts) : Send(input)
    BY <1>1, Gives
  <2> DEFINE event == ToClientEvent(provider, input)
  <2>2. /\ event \in Events /\ wire' = Append(wire, event)
        /\ "close" \in Effects(event) => input.kind = "Close"
    BY <2>1, SendFacts DEF Obeys
  <2> HIDE DEF event
  <2>3. ~closing /\ closing' = (input.kind = "Close") /\ service' = service
    BY <2>1 DEF Send
  <2>4. ASSUME NEW i \in 1..Len(wire'), "close" \in Effects(wire'[i]) PROVE closing'
    <3>1. CASE i = Len(wire) + 1
      <4>1. wire'[i] = event
        BY <1>0, <2>2, <3>1
      <4> QED
        BY <2>2, <2>3, <2>4, <4>1
    <3>2. CASE i # Len(wire) + 1
      <4>1. i \in 1..Len(wire) /\ wire'[i] = wire[i]
        BY <1>0, <2>2, <3>2
      <4> QED
        BY <2>3, <2>4, <4>1 DEF ClosedInv
    <3> QED
      BY <3>1, <3>2
  <2> QED
    BY <2>3, <2>4 DEF ClosedInv, ClosedOnRequest
<1>2. CASE Serve
  <2>1. /\ wire' = Tail(wire) /\ wire # <<>> /\ closing' = closing
        /\ ~service'.open => ~service.open \/ "close" \in Effects(Head(wire))
    BY <1>2, ServeFacts DEF Serve
  <2>2. \A i \in 1..Len(wire') : i + 1 \in 1..Len(wire) /\ wire'[i] = wire[i + 1]
    BY <1>0, <2>1
  <2>3. 1 \in 1..Len(wire) /\ Head(wire) = wire[1]
    BY <1>0, <2>1
  <2> QED
    BY <2>1, <2>2, <2>3 DEF ClosedInv, ClosedOnRequest
<1>3. CASE Respond \/ FinishSession \/ Listen
  BY <1>3, HearsStep DEF ClosedInv, ClosedOnRequest
<1>4. CASE UNCHANGED vars
  BY <1>4 DEF vars, ClosedInv, ClosedOnRequest
<1> QED
  BY <1>1, <1>2, <1>3, <1>4 DEF Next

(* A provider ends the stream only when the application has asked for it,  *)
(* never because of a text it was to speak (text_message).                 *)
THEOREM EndsOnRequest == Spec => []ClosedOnRequest
<1>1. Init => ClosedInv
  <2> SUFFICES ASSUME Init PROVE ClosedInv
    OBVIOUS
  <2>1. Effects(Setup) = {}
    BY EffectsOf DEF Setup
  <2>2. Len(wire) = 1 /\ wire[1] = Setup /\ service.open
    BY DEF Init
  <2> QED
    BY <2>1, <2>2 DEF ClosedInv, ClosedOnRequest
<1>2. (TypeInv /\ HeardInv) /\ ClosedInv /\ [Next]_vars => ClosedInv'
  BY ClosedStep
<1>3. ClosedInv => ClosedOnRequest
  BY DEF ClosedInv
<1> QED
  BY <1>1, <1>2, <1>3, Invariance, PTL DEF Spec

-----------------------------------------------------------------------------
(* The input on its way: as the provider takes each event, its buffer is   *)
(* b[i] and it has taken t[i] of the turns the application meant, each of  *)
(* them as meant; in the end the buffer is what the application has not    *)
(* committed.                                                              *)
Takes(e) == "commit" \in Effects(e) \/ "item" \in Effects(e)

After(e, buffer) ==
  IF "append" \in Effects(e) THEN Append(buffer, e)
  ELSE IF "commit" \in Effects(e) \/ "clear" \in Effects(e) THEN <<>> ELSE buffer

Taken(e, buffer) == IF "commit" \in Effects(e) THEN buffer ELSE <<e>>

Backlog(b, t) ==
  /\ b \in [0..Len(wire) -> Seq(Events)] /\ b[0] = service.buffer
  /\ t \in [0..Len(wire) -> Nat] /\ t[0] = 0 /\ t[Len(wire)] = Len(meant.turns)
  /\ \A i \in 0..Len(wire) : \A j \in i..Len(wire) : t[i] <= t[j]
  /\ \A i \in 1..Len(wire) :
       /\ b[i] = After(wire[i], b[i - 1])
       /\ t[i] = IF Takes(wire[i]) THEN t[i - 1] + 1 ELSE t[i - 1]
       /\ Takes(wire[i]) => SameTurn(Taken(wire[i], b[i - 1]), meant.turns[t[i]])
  /\ SameTurn(b[Len(wire)], meant.open)

TurnsInv ==
  /\ SameTurn(service.turn, meant.taken)
  /\ \E b \in [0..Len(wire) -> Seq(Events)], t \in [0..Len(wire) -> Nat] : Backlog(b, t)

(* A turn goes on with one more item on both sides. *)
LEMMA OneItemMore ==
  ASSUME NEW turn \in Seq(Events), NEW inputs \in Seq(Given), SameTurn(turn, inputs),
         NEW e \in Events, NEW input \in Given, SameItem(e, input)
  PROVE  SameTurn(Append(turn, e), Append(inputs, input))
<1> DEFINE longer == Append(turn, e)
           more == Append(inputs, input)
<1>0. CASE Cleared(inputs)
  <2>1. PICK j \in 1..Len(inputs) : inputs[j].kind = "ClearOutput"
    BY <1>0 DEF Cleared
  <2>2. j \in DOMAIN more /\ more[j] = inputs[j]
    BY <2>1
  <2> HIDE DEF more
  <2> QED
    BY <2>1, <2>2 DEF more, Cleared, SameTurn
<1> SUFFICES ASSUME ~Cleared(inputs) PROVE SameTurn(longer, more)
  BY <1>0
<1>1. Len(turn) = Len(inputs) /\ \A j \in 1..Len(turn) : SameItem(turn[j], inputs[j])
  BY DEF SameTurn
<1>2. /\ Len(longer) = Len(turn) + 1 /\ Len(more) = Len(inputs) + 1
      /\ DOMAIN longer = 1..Len(turn) + 1
      /\ longer[Len(turn) + 1] = e /\ more[Len(turn) + 1] = input
      /\ \A j \in 1..Len(turn) : longer[j] = turn[j] /\ more[j] = inputs[j]
  BY <1>1
<1> HIDE DEF longer, more
<1>3. ASSUME NEW j \in DOMAIN longer PROVE SameItem(longer[j], more[j])
  <2>1. j \in 1..Len(turn) \/ j = Len(turn) + 1
    BY <1>2
  <2> QED
    BY <1>1, <1>2, <2>1
<1> QED
  BY <1>1, <1>2, <1>3 DEF SameTurn

(* Of a turn in which the output was to be cleared nothing is asked.       *)
LEMMA ClearedTurn ==
  ASSUME NEW turn, NEW inputs \in Seq(Given), NEW input \in Given, input.kind = "ClearOutput"
  PROVE  SameTurn(turn, Append(inputs, input))
<1> DEFINE more == Append(inputs, input)
<1>1. Len(inputs) + 1 \in DOMAIN more /\ more[Len(inputs) + 1] = input
  OBVIOUS
<1> HIDE DEF more
<1>2. Cleared(more)
  BY <1>1 DEF Cleared
<1> QED
  BY <1>2 DEF SameTurn, more

(* An empty turn is what was meant by no input.                            *)
LEMMA NoItems == SameTurn(<<>>, <<>>)
BY DEF SameTurn

(* A turn of one item is what was meant by its input.                      *)
LEMMA OneItem ==
  ASSUME NEW e, NEW input, SameItem(e, input)
  PROVE  SameTurn(<<e>>, <<input>>)
BY DEF SameTurn

(* The application gives one more input. *)
LEMMA TurnsSend ==
  ASSUME TypeInv, TurnsInv, NEW input \in Inputs(Seq(Sounds), Texts), Send(input)
  PROVE  TurnsInv'
<1> DEFINE event == ToClientEvent(provider, input)
           n == Len(wire)
           m == Len(meant.turns)
<1>1. /\ event \in Events /\ SameItem(event, input) /\ Obeys(input, Effects(event))
      /\ wire' = Append(wire, event) /\ input \in Given
  BY SendFacts
<1> HIDE DEF event
<1>2. PICK b \in [0..n -> Seq(Events)], t \in [0..n -> Nat] : Backlog(b, t)
  BY DEF TurnsInv
<1>3. wire \in Seq(Events) /\ n \in Nat /\ Len(wire') = n + 1 /\ wire'[n + 1] = event
      /\ \A i \in 1..n : wire'[i] = wire[i]
  <2>1. wire \in Seq(Events)
    BY DEF TypeInv
  <2> QED
    BY <1>1, <2>1
<1>4. service' = service /\ meant'.taken = meant.taken
  <2>1. meant \in [open : Seq(Given), turns : Seq(Seq(Given)), taken : Seq(Given)]
    BY DEF TypeInv
  <2> QED
    BY <2>1 DEF Send, Mean
<1> DEFINE open == meant.open
           turns == meant.turns
           does == Effects(event)
           last == b[n]
           next == After(event, last)
<1>5. /\ last \in Seq(Events) /\ open \in Seq(Given) /\ turns \in Seq(Seq(Given))
      /\ SameTurn(last, open)
  <2>1. open \in Seq(Given) /\ turns \in Seq(Seq(Given))
    BY DEF TypeInv
  <2> QED
    BY <1>2, <1>3, <2>1 DEF Backlog
<1>6. /\ next \in Seq(Events)
      /\ SameTurn(next, meant'.open)
      /\ Takes(event) => \E inputs \in Seq(Given) :
                            /\ meant'.turns = Append(turns, inputs)
                            /\ SameTurn(Taken(event, last), inputs)
      /\ ~Takes(event) => meant'.turns = turns
  <2>0. meant' = Mean(input) /\ meant \in [open : Seq(Given), turns : Seq(Seq(Given)), taken : Seq(Given)]
    BY DEF Send, TypeInv
  <2> HIDE DEF last
  <2>1. CASE IsItem(input)
    <3>1. /\ "item" \in does /\ "commit" \notin does /\ "append" \notin does /\ "clear" \notin does
          /\ ~IsCommit(input) /\ input.kind # "ClearOutput"
      BY <1>1, <2>1 DEF Obeys, IsItem, IsCommit
    <3>2. next = last /\ Takes(event) /\ Taken(event, last) = <<event>>
      BY <3>1 DEF After, Takes, Taken
    <3>3. meant'.open = open /\ meant'.turns = Append(turns, <<input>>)
      BY <2>0, <2>1, <3>1 DEF Mean
    <3>4. <<input>> \in Seq(Given) /\ SameTurn(<<event>>, <<input>>)
      BY <1>1, OneItem
    <3> HIDE DEF next, open, turns
    <3> QED
      BY <1>5, <3>2, <3>3, <3>4
  <2>2. CASE IsCommit(input)
    <3>1. /\ "item" \notin does /\ "commit" \in does /\ "append" \notin does /\ "clear" \notin does
          /\ ~IsItem(input) /\ input.kind \notin {"Audio", "Text", "ClearOutput"}
      BY <1>1, <2>2 DEF Obeys, IsItem, IsCommit
    <3>2. next = <<>> /\ Takes(event) /\ Taken(event, last) = last
      BY <3>1 DEF After, Takes, Taken
    <3>3. meant'.open = <<>> /\ meant'.turns = Append(turns, open)
      BY <2>0, <2>2, <3>1 DEF Mean
    <3>4. <<>> \in Seq(Events)
      OBVIOUS
    <3> HIDE DEF next, open, turns
    <3> QED
      BY <1>5, <3>2, <3>3, <3>4, NoItems
  <2>3. CASE input.kind \in {"Audio", "Text"} /\ ~IsItem(input)
    <3>1. "item" \notin does /\ "commit" \notin does /\ "append" \in does /\ ~IsCommit(input)
      BY <1>1, <2>3 DEF Obeys, IsCommit
    <3>2. next = Append(last, event) /\ ~Takes(event)
      BY <3>1 DEF After, Takes
    <3>3. meant'.open = Append(open, input) /\ meant'.turns = turns
      BY <2>0, <2>3, <3>1 DEF Mean
    <3>4. SameTurn(Append(last, event), Append(open, input)) /\ Append(last, event) \in Seq(Events)
      BY <1>1, <1>5, OneItemMore
    <3> HIDE DEF next, open, turns
    <3> QED
      BY <1>5, <3>2, <3>3, <3>4
  <2>4. CASE input.kind = "ClearOutput"
    <3>1. "item" \notin does /\ "commit" \notin does /\ ~IsCommit(input) /\ ~IsItem(input)
      BY <1>1, <2>4 DEF Obeys, IsCommit, IsItem
    <3>2. next \in Seq(Events) /\ ~Takes(event)
      <4>1. next = Append(last, event) \/ next = <<>> \/ next = last
        BY Zenon DEF After
      <4>2. Append(last, event) \in Seq(Events) /\ <<>> \in Seq(Events) /\ last \in Seq(Events)
        BY <1>1, <1>5
      <4>3. ~Takes(event)
        BY <3>1 DEF Takes
      <4> HIDE DEF next
      <4> QED
        BY Zenon, <4>1, <4>2, <4>3
    <3>3. meant'.open = Append(open, input) /\ meant'.turns = turns
      BY <2>0, <2>4, <3>1 DEF Mean
    <3>4. SameTurn(next, Append(open, input))
      BY <1>1, <1>5, <2>4, ClearedTurn
    <3> HIDE DEF next, open, turns
    <3> QED
      BY <3>2, <3>3, <3>4
  <2>5. CASE ~IsItem(input) /\ ~IsCommit(input) /\ input.kind \notin {"Audio", "Text", "ClearOutput"}
    <3>1. "item" \notin does /\ "commit" \notin does /\ "append" \notin does /\ "clear" \notin does
      BY <1>1, <2>5 DEF Obeys
    <3>2. next = last /\ ~Takes(event)
      BY <3>1 DEF After, Takes
    <3>3. meant'.open = open /\ meant'.turns = turns
      BY <2>0, <2>5 DEF Mean
    <3> HIDE DEF next, open, turns
    <3> QED
      BY <1>5, <3>2, <3>3
  <2> QED
    BY <2>1, <2>2, <2>3, <2>4, <2>5
<1> DEFINE b1 == [i \in 0..n + 1 |-> IF i = n + 1 THEN next ELSE b[i]]
           total == Len(meant'.turns)
           t1 == [i \in 0..n + 1 |-> IF i = n + 1 THEN total ELSE t[i]]
<1>7. /\ t[0] = 0 /\ t[n] = m
      /\ \A i \in 0..n : \A j \in i..n : t[i] <= t[j]
      /\ \A i \in 1..n : t[i] = IF Takes(wire[i]) THEN t[i - 1] + 1 ELSE t[i - 1]
  BY <1>2 DEF Backlog
<1>8. /\ b[0] = service.buffer
      /\ \A i \in 1..n : /\ b[i] = After(wire[i], b[i - 1])
                         /\ Takes(wire[i]) => SameTurn(Taken(wire[i], b[i - 1]), turns[t[i]])
  BY <1>2 DEF Backlog
<1>9. /\ Len(meant'.turns) \in Nat
      /\ Len(meant'.turns) = IF Takes(event) THEN m + 1 ELSE m
      /\ \A k \in 1..m : meant'.turns[k] = turns[k]
      /\ Takes(event) => SameTurn(Taken(event, last), meant'.turns[m + 1])
  <2> HIDE DEF last, turns
  <2>1. m = Len(turns)
    BY DEF turns
  <2> HIDE DEF m
  <2>2. CASE Takes(event)
    <3>1. PICK inputs \in Seq(Given) : meant'.turns = Append(turns, inputs) /\ SameTurn(Taken(event, last), inputs)
      BY <1>6, <2>2
    <3>2. meant'.turns[m + 1] = inputs
      BY <1>5, <2>1, <3>1
    <3> QED
      BY <1>5, <2>1, <2>2, <3>1, <3>2
  <2>3. CASE ~Takes(event)
    BY <1>5, <1>6, <2>1, <2>3
  <2> QED
    BY <2>2, <2>3
<1>10. /\ b1 \in [0..n + 1 -> Seq(Events)] /\ b1[n + 1] = next
       /\ \A i \in 0..n : b1[i] = b[i]
  <2> HIDE DEF next
  <2> QED
    BY <1>2, <1>3, <1>6
<1>11. /\ t1 \in [0..n + 1 -> Nat] /\ t1[n + 1] = Len(meant'.turns)
       /\ \A i \in 0..n : t1[i] = t[i] /\ t[i] \in Nat
  <2>1. total \in Nat /\ t \in [0..n -> Nat] /\ n \in Nat
    BY <1>2, <1>3, <1>9
  <2>2. total = Len(meant'.turns)
    OBVIOUS
  <2> HIDE DEF total, n
  <2> QED
    BY <2>1, <2>2
<1> HIDE DEF n, m, turns, last, next, b1, t1, does, open, total
<1>12. \A i \in 0..n + 1 : \A j \in i..n + 1 : t1[i] <= t1[j]
  <2> SUFFICES ASSUME NEW i \in 0..n + 1, NEW j \in i..n + 1 PROVE t1[i] <= t1[j]
    OBVIOUS
  <2>1. CASE j <= n
    <3>1. i \in 0..n /\ j \in 0..n /\ j \in i..n
      BY <1>3, <2>1
    <3> QED
      BY <1>7, <1>11, <3>1
  <2>2. CASE j = n + 1 /\ i <= n
    <3>1. t[i] <= t[n] /\ t[n] = m /\ t[n] \in Nat /\ t[i] \in Nat
      BY <1>3, <1>7, <1>11, <2>2
    <3> QED
      BY <1>3, <1>9, <1>11, <2>2, <3>1
  <2>3. CASE i = n + 1 /\ j = n + 1
    BY <1>9, <1>11, <2>3
  <2> QED
    BY <1>3, <2>1, <2>2, <2>3
<1>13. ASSUME NEW i \in 1..n + 1
       PROVE  /\ b1[i] = After(wire'[i], b1[i - 1])
              /\ t1[i] = IF Takes(wire'[i]) THEN t1[i - 1] + 1 ELSE t1[i - 1]
              /\ Takes(wire'[i]) => SameTurn(Taken(wire'[i], b1[i - 1]), meant'.turns[t1[i]])
  <2>1. CASE i = n + 1
    <3>1. i - 1 = n /\ n \in 0..n /\ wire'[i] = event
      BY <1>3, <2>1
    <3>2. b1[i - 1] = last /\ b1[i] = next /\ t1[i - 1] = m /\ m \in Nat
      BY <1>7, <1>10, <1>11, <2>1, <3>1 DEF last
    <3> QED
      BY <1>9, <1>11, <2>1, <3>1, <3>2 DEF next
  <2>2. CASE i \in 1..n
    <3>1. i - 1 \in 0..n /\ i \in 0..n /\ wire'[i] = wire[i]
      BY <1>3, <2>2
    <3>2. b1[i] = b[i] /\ b1[i - 1] = b[i - 1] /\ t1[i] = t[i] /\ t1[i - 1] = t[i - 1]
      BY <1>10, <1>11, <3>1
    <3>3. Takes(wire[i]) => meant'.turns[t[i]] = turns[t[i]]
      <4>1. Takes(wire[i]) => t[i] \in 1..m
        <5>1. t[i] <= m /\ t[i - 1] \in Nat /\ t[i] \in Nat /\ m \in Nat
          BY <1>3, <1>7, <1>11, <2>2, <3>1
        <5> QED
          BY <1>7, <2>2, <5>1
      <4> QED
        BY <1>9, <4>1
    <3> QED
      BY <1>7, <1>8, <2>2, <3>1, <3>2, <3>3
  <2> QED
    BY <1>3, <2>1, <2>2
<1>14. Len(wire') = n + 1
  BY <1>3
<1>15. b1[0] = service'.buffer /\ t1[0] = 0 /\ SameTurn(b1[n + 1], meant'.open)
  BY <1>3, <1>4, <1>6, <1>7, <1>8, <1>10, <1>11 DEF next
<1>16. PICK b2 \in [0..n + 1 -> Seq(Events)], t2 \in [0..n + 1 -> Nat] : b2 = b1 /\ t2 = t1
  BY <1>10, <1>11
<1>17. Backlog(b2, t2)'
  BY <1>10, <1>11, <1>12, <1>13, <1>14, <1>15, <1>16 DEF Backlog
<1>18. SameTurn(service.turn, meant.taken)'
  BY <1>4 DEF TurnsInv
<1> QED
  BY <1>14, <1>16, <1>17, <1>18 DEF TurnsInv

(* The provider takes the next event. *)
LEMMA TurnsServe ==
  ASSUME TypeInv, TurnsInv, Serve
  PROVE  TurnsInv'
<1> DEFINE n == Len(wire)
           event == Head(wire)
           turns == meant.turns
<1>1. /\ event \in Events
      /\ wire' = Tail(wire)
      /\ service'.buffer = After(event, service.buffer)
      /\ service'.turn = IF Takes(event) THEN Taken(event, service.buffer) ELSE service.turn
  BY ServeFacts DEF After, Takes, Taken
<1>2. PICK b \in [0..n -> Seq(Events)], t \in [0..n -> Nat] : Backlog(b, t)
  BY DEF TurnsInv
<1>3. /\ wire \in Seq(Events) /\ n \in Nat /\ n >= 1
      /\ Len(wire') = n - 1 /\ event = wire[1]
      /\ \A i \in 1..(n - 1) : wire'[i] = wire[i + 1]
  <2>1. wire \in Seq(Events) /\ wire # <<>>
    BY DEF TypeInv, Serve
  <2> QED
    BY <1>1, <2>1
<1> HIDE DEF event
<1>4. /\ t[0] = 0 /\ t[n] = Len(turns)
      /\ \A i \in 0..n : \A j \in i..n : t[i] <= t[j]
      /\ \A i \in 1..n : t[i] = IF Takes(wire[i]) THEN t[i - 1] + 1 ELSE t[i - 1]
      /\ \A i \in 0..n : t[i] \in Nat
  BY <1>2 DEF Backlog
<1>5. /\ b[0] = service.buffer
      /\ \A i \in 1..n : /\ b[i] = After(wire[i], b[i - 1])
                         /\ Takes(wire[i]) => SameTurn(Taken(wire[i], b[i - 1]), turns[t[i]])
      /\ SameTurn(b[n], meant.open)
  BY <1>2 DEF Backlog
<1>6. turns \in Seq(Seq(Given)) /\ meant \in [open : Seq(Given), turns : Seq(Seq(Given)), taken : Seq(Given)]
  BY DEF TypeInv
<1>7. /\ Takes(event) => t[1] = 1
      /\ ~Takes(event) => t[1] = 0
      /\ t[1] <= Len(turns) /\ t[1] \in {0, 1}
      /\ b[1] = After(event, service.buffer)
  <2>1. 1 \in 1..n /\ 1 \in 0..n /\ n \in 1..n
    BY <1>3
  <2>2. wire[1] = event /\ 1 - 1 = 0
    BY <1>3
  <2>3. t[1] = IF Takes(event) THEN t[0] + 1 ELSE t[0]
    BY <1>4, <2>1, <2>2
  <2>4. b[1] = After(event, b[0])
    BY <1>5, <2>1, <2>2
  <2>5. t[1] <= t[n]
    BY <1>4, <2>1
  <2> QED
    BY <1>4, <1>5, <2>3, <2>4, <2>5
<1> DEFINE c == t[1]
           next == meant'.turns
<1>8. /\ meant'.open = meant.open
      /\ Takes(event) => meant'.taken = turns[1]
      /\ ~Takes(event) => meant'.taken = meant.taken
      /\ Len(next) = Len(turns) - c
      /\ \A k \in 1..Len(next) : next[k] = turns[k + c]
  <2>0. meant' = IF ~Takes(event) \/ turns = <<>> THEN meant
                 ELSE [meant EXCEPT !.taken = Head(turns), !.turns = Tail(turns)]
    BY ServeFacts DEF Takes, event
  <2>1. CASE ~Takes(event)
    <3>1. meant' = meant /\ c = 0
      BY <1>7, <2>0, <2>1
    <3> QED
      BY <1>6, <2>1, <3>1
  <2>2. CASE Takes(event)
    <3>1. c = 1 /\ turns # <<>>
      BY <1>6, <1>7, <2>2
    <3>2. meant'.open = meant.open /\ meant'.taken = Head(turns) /\ next = Tail(turns)
      BY <1>6, <2>0, <2>2, <3>1
    <3> HIDE DEF c, next, turns
    <3>3. Head(turns) = turns[1] /\ Len(next) = Len(turns) - 1
          /\ \A k \in 1..Len(next) : next[k] = turns[k + 1]
      BY <1>6, <3>1, <3>2
    <3> QED
      BY <2>2, <3>1, <3>2, <3>3
  <2> QED
    BY <2>1, <2>2
<1>9. SameTurn(service'.turn, meant'.taken)
  <2>1. CASE ~Takes(event)
    BY <1>1, <1>8, <2>1 DEF TurnsInv
  <2>2. CASE Takes(event)
    <3>1. 1 \in 1..n /\ wire[1] = event /\ 1 - 1 = 0 /\ t[1] = 1
      BY <1>3, <1>7, <2>2
    <3>2. SameTurn(Taken(event, b[0]), turns[1])
      BY <1>5, <2>2, <3>1
    <3> QED
      BY <1>1, <1>5, <1>8, <2>2, <3>2
  <2> QED
    BY <2>1, <2>2
<1> DEFINE b1 == [i \in 0..(n - 1) |-> b[i + 1]]
           t1 == [i \in 0..(n - 1) |-> t[i + 1] - c]
<1> HIDE DEF n
<1>10. /\ \A i \in 0..(n - 1) : i + 1 \in 0..n /\ i + 1 \in 1..n
       /\ \A i \in 0..(n - 1) : t[i + 1] >= c /\ t[i + 1] \in Nat
  <2>1. ASSUME NEW i \in 0..(n - 1) PROVE i + 1 \in 0..n /\ i + 1 \in 1..n /\ i + 1 \in 1..n /\ 1 \in 0..n
    BY <1>3
  <2> QED
    BY <1>4, <2>1
<1>11. b1 \in [0..(n - 1) -> Seq(Events)] /\ \A i \in 0..(n - 1) : b1[i] = b[i + 1]
  BY <1>2, <1>10
<1>12. t1 \in [0..(n - 1) -> Nat] /\ \A i \in 0..(n - 1) : t1[i] = t[i + 1] - c
  <2>1. \A i \in 0..(n - 1) : t[i + 1] - c \in Nat
    BY <1>7, <1>10
  <2> QED
    BY <2>1
<1> HIDE DEF c, turns, next, b1, t1
<1>13. c \in {0, 1} /\ c = t[1]
  BY <1>7 DEF c
<1>14. /\ b1[0] = service'.buffer /\ t1[0] = 0 /\ t1[n - 1] = Len(meant'.turns)
       /\ SameTurn(b1[n - 1], meant'.open)
  <2>1. 0 \in 0..(n - 1) /\ n - 1 \in 0..(n - 1) /\ 0 + 1 = 1 /\ (n - 1) + 1 = n
    BY <1>3
  <2>2. b1[0] = b[1] /\ b1[n - 1] = b[n] /\ t1[0] = t[1] - c /\ t1[n - 1] = t[n] - c
    BY <1>11, <1>12, <2>1
  <2> QED
    BY <1>1, <1>4, <1>5, <1>7, <1>8, <1>13, <2>2 DEF next, turns
<1>15. \A i \in 0..(n - 1) : \A j \in i..(n - 1) : t1[i] <= t1[j]
  <2> SUFFICES ASSUME NEW i \in 0..(n - 1), NEW j \in i..(n - 1) PROVE t1[i] <= t1[j]
    OBVIOUS
  <2>1. j \in 0..(n - 1) /\ i + 1 \in 0..n /\ j + 1 \in (i + 1)..n
    BY <1>3
  <2>2. t[i + 1] <= t[j + 1] /\ t[i + 1] \in Nat /\ t[j + 1] \in Nat
    BY <1>4, <1>10, <2>1
  <2>3. t1[i] = t[i + 1] - c /\ t1[j] = t[j + 1] - c
    BY <1>12, <2>1
  <2> QED
    BY <1>13, <2>2, <2>3
<1>16. ASSUME NEW i \in 1..(n - 1)
       PROVE  /\ b1[i] = After(wire'[i], b1[i - 1])
              /\ t1[i] = IF Takes(wire'[i]) THEN t1[i - 1] + 1 ELSE t1[i - 1]
              /\ Takes(wire'[i]) => SameTurn(Taken(wire'[i], b1[i - 1]), meant'.turns[t1[i]])
  <2>1. i \in 0..(n - 1) /\ i - 1 \in 0..(n - 1) /\ i + 1 \in 1..n /\ i + 1 \in 0..n
        /\ (i - 1) + 1 = i /\ (i + 1) - 1 = i /\ i \in 0..n
    BY <1>3
  <2>2. b1[i] = b[i + 1] /\ b1[i - 1] = b[i] /\ t1[i] = t[i + 1] - c /\ t1[i - 1] = t[i] - c
    BY <1>11, <1>12, <2>1
  <2>3. wire'[i] = wire[i + 1]
    BY <1>3
  <2>4. t[i + 1] = IF Takes(wire[i + 1]) THEN t[i] + 1 ELSE t[i]
    BY <1>4, <2>1
  <2>5. b[i + 1] = After(wire[i + 1], b[i])
        /\ (Takes(wire[i + 1]) => SameTurn(Taken(wire[i + 1], b[i]), turns[t[i + 1]]))
    BY <1>5, <2>1 DEF turns
  <2>6. t[i] \in Nat /\ t[i + 1] \in Nat /\ t[i] >= c /\ t[i + 1] <= t[n] /\ t[n] \in Nat
    <3>1. i - 1 \in 0..(n - 1) /\ n \in (i + 1)..n /\ n \in 0..n
      BY <1>3
    <3>2. t[(i - 1) + 1] >= c
      BY <1>10, <3>1
    <3> QED
      BY <1>4, <2>1, <3>1, <3>2
  <2>7. Takes(wire[i + 1]) => meant'.turns[t1[i]] = turns[t[i + 1]]
    <3> SUFFICES ASSUME Takes(wire[i + 1]) PROVE meant'.turns[t1[i]] = turns[t[i + 1]]
      OBVIOUS
    <3>1. Len(next) = t[n] - c
      BY <1>4, <1>8 DEF turns, next, c
    <3>2. t1[i] \in 1..Len(next) /\ t1[i] + c = t[i + 1]
      BY <1>13, <2>2, <2>4, <2>6, <3>1
    <3>3. next[t1[i]] = turns[t1[i] + c]
      BY <1>8, <3>2 DEF turns, next, c
    <3> QED
      BY <3>2, <3>3 DEF next
  <2>8. t1[i] = IF Takes(wire[i + 1]) THEN t1[i - 1] + 1 ELSE t1[i - 1]
    BY <1>13, <2>2, <2>4, <2>6
  <2> QED
    BY <2>2, <2>3, <2>5, <2>7, <2>8
<1>17. PICK b2 \in [0..(n - 1) -> Seq(Events)], t2 \in [0..(n - 1) -> Nat] : b2 = b1 /\ t2 = t1
  BY <1>11, <1>12
<1>18. Backlog(b2, t2)'
  BY <1>3, <1>14, <1>15, <1>16, <1>17 DEF Backlog, n
<1> QED
  BY <1>3, <1>9, <1>17, <1>18 DEF TurnsInv, n

(* Every step keeps the backlog. *)
LEMMA TurnsStep == TypeInv /\ TurnsInv /\ [Next]_vars => TurnsInv'
<1> SUFFICES ASSUME TypeInv, TurnsInv, [Next]_vars PROVE TurnsInv'
  OBVIOUS
<1>1. CASE SendAny
  BY <1>1, Gives, TurnsSend
<1>2. CASE Serve
  BY <1>2, TurnsServe
<1>3. ASSUME UNCHANGED <<wire, meant>>, service'.buffer = service.buffer, service'.turn = service.turn
      PROVE  TurnsInv'
  <2>1. PICK b \in [0..Len(wire) -> Seq(Events)], t \in [0..Len(wire) -> Nat] : Backlog(b, t)
    BY DEF TurnsInv
  <2>2. Backlog(b, t)'
    BY <1>3, <2>1 DEF Backlog
  <2> QED
    BY <1>3, <2>1, <2>2 DEF TurnsInv
<1>4. CASE Respond \/ FinishSession \/ Listen
  BY <1>3, <1>4, HearsStep
<1>5. CASE UNCHANGED vars
  BY <1>3, <1>5 DEF vars
<1> QED
  BY <1>1, <1>2, <1>4, <1>5 DEF Next

(* Before any input there is nothing to take. *)
LEMMA TurnsInit == Init => TurnsInv
<1> SUFFICES ASSUME Init PROVE TurnsInv
  OBVIOUS
<1>1. /\ Len(wire) = 1 /\ wire[1] = Setup
      /\ service.buffer = <<>> /\ service.turn = <<>>
      /\ meant.open = <<>> /\ meant.turns = <<>> /\ meant.taken = <<>>
  BY DEF Init
<1>2. Effects(Setup) = {}
  BY EffectsOf DEF Setup
<1>3. ~Takes(Setup) /\ After(Setup, <<>>) = <<>>
  BY <1>2 DEF Takes, After
<1> DEFINE b == [i \in 0..1 |-> <<>>]
           t == [i \in 0..1 |-> 0]
<1>4. b \in [0..1 -> Seq(Events)] /\ \A i \in 0..1 : b[i] = <<>>
  OBVIOUS
<1>5. t \in [0..1 -> Nat] /\ \A i \in 0..1 : t[i] = 0
  OBVIOUS
<1> HIDE DEF b, t
<1>6. Backlog(b, t)
  BY <1>1, <1>3, <1>4, <1>5, NoItems DEF Backlog
<1> QED
  BY <1>1, <1>4, <1>5, <1>6, NoItems DEF TurnsInv

(* The turns the provider takes are the application's: each holds what was *)
(* put in since the one before, in order and once, and what is not         *)
(* committed waits in the provider's buffer (input_to_client_event,        *)
(* input_to_client_message, qwen_*_event, samples_to_pcm16_le); unless the *)
(* application has asked OpenAI in that turn to clear the output, which    *)
(* loses the input.                                                        *)
THEOREM TurnsAreMeant == Spec => []TurnsAsMeant
<1>1. Init => TurnsInv
  BY TurnsInit
<1>2. (TypeInv /\ HeardInv) /\ TurnsInv /\ [Next]_vars => TurnsInv'
  BY TurnsStep
<1>3. TypeInv /\ TurnsInv => TurnsAsMeant
  <2> SUFFICES ASSUME TypeInv, TurnsInv, wire = <<>>
               PROVE  meant.turns = <<>> /\ SameTurn(service.buffer, meant.open)
    BY DEF TurnsInv, TurnsAsMeant
  <2>1. PICK b \in [0..Len(wire) -> Seq(Events)], t \in [0..Len(wire) -> Nat] : Backlog(b, t)
    BY DEF TurnsInv
  <2>2. Len(wire) = 0
    OBVIOUS
  <2>3. Len(meant.turns) = 0 /\ SameTurn(service.buffer, meant.open)
    BY <2>1, <2>2 DEF Backlog
  <2>4. meant.turns \in Seq(Seq(Given))
    BY DEF TypeInv
  <2> QED
    BY <2>3, <2>4
<1> QED
  BY <1>1, <1>2, <1>3, Invariance, PTL DEF Spec
=============================================================================
