------------------------------ MODULE Qwen3Tts ------------------------------
(***************************************************************************)
(* Qwen3TtsSpeechModel::synthesize (vona-mlx-qwen3-tts/src/lib.rs): how    *)
(* the text is laid out beside the codec frames, the loop that generates   *)
(* the frames, and the vocoder.                                            *)
(*                                                                         *)
(* The talker is an oracle: it may pick any candidate.  Which of the       *)
(* ordinary codes it is does not matter, so a frame is counted.            *)
(***************************************************************************)
EXTENDS Vocoder

CONSTANTS
  TextToken,               \* tokens of a text
  ImEnd, TtsEos, TtsPad,   \* the special tokens that may stand for text
  MinAudioTokens,          \* min_audio_tokens
  MaxAudioTokens,          \* max_audio_tokens
  CodeGroups,              \* num_code_groups: the codes of a frame
  Vocoders,                \* the nets of the vocoders there are
  NoNet                    \* stands for the net of a model that is not loaded

ASSUME Qwen3TtsAssumption ==
  /\ {ImEnd, TtsEos, TtsPad} \cap TextToken = {}
  /\ MinAudioTokens \in Nat
  /\ MaxAudioTokens \in Nat
  /\ MinAudioTokens <= MaxAudioTokens
  /\ CodeGroups \in Nat \ {0}
  /\ \A n \in Vocoders : ValidNet(n) /\ WholeNet(n)

SpokenToken == TextToken \cup {ImEnd, TtsEos, TtsPad}

VARIABLES
  voice,     \* what the loaded model has, of QwenFeatures; {} if not Qwen3 TTS
  net,       \* the net of its vocoder, if it has one
  speaking,  \* the phase of synthesize
  mode,      \* streaming, unless VONA_QWEN3_TTS_NON_STREAMING is set
  text,      \* the text to be spoken
  trailing,  \* trailing_text: what is laid beside the frames to come
  fed,       \* text tokens given to the talker so far, in order
  frames,    \* codec frames generated
  wave       \* the audio: for each position the frames it depends on

inputVars  == <<mode, text, trailing, fed, frames>>
speechVars == <<inputVars, wave>>
modelVars  == <<voice, net>>
qwenVars   == <<modelVars, speaking, speechVars>>

QwenTypeOK ==
  /\ voice \subseteq {"qwen", "vocoder", "sameWidth", "codes", "eos"}
  /\ net \in Vocoders \cup {NoNet}
  /\ speaking \in {"off", "working", "done", "failed", "unavailable"}
  /\ mode \in {"streaming", "whole"}
  /\ text \in Seq(TextToken)
  /\ trailing \in Seq(SpokenToken)
  /\ fed \in Seq(SpokenToken)
  /\ frames \in 0..MaxAudioTokens
  /\ wave \in Seq(SUBSET (1..frames))

QwenInit ==
  /\ voice = {}
  /\ net = NoNet
  /\ speaking = "off"
  /\ mode = "streaming"
  /\ text = <<>>
  /\ trailing = <<>>
  /\ fed = <<>>
  /\ frames = 0
  /\ wave = <<>>

-----------------------------------------------------------------------------
(* prompt_token_ids[3]: of an empty text that is the end of the message.   *)
FirstText(t) == IF t = <<>> THEN ImEnd ELSE Head(t)

(* Mutant: the trailing text begins with the first token again. *)
TrailingFromStart(t) == Append(t, TtsEos)

Trailing(t) == Append(IF t = <<>> THEN <<>> ELSE Tail(t), TtsEos)

(* With no second token the empty tensor put before the end of speech has  *)
(* the width of the text embedding, the end of speech that of the talker.  *)
Fits(t) == Len(t) <= 1 => "sameWidth" \in voice

(* build_generation_inputs.  Streaming lays the first token at the end of  *)
(* the prefix and one more beside each frame.  Otherwise the trailing text *)
(* is in the prefix as a whole, the first token is nowhere, and only       *)
(* padding is left for the frames.                                         *)
BuildInputs(t, m) ==
  /\ mode' = m
  /\ \/ /\ m = "streaming"
        /\ fed' = <<FirstText(t)>>
        /\ trailing' = Trailing(t)
     \/ /\ m = "whole"
        /\ fed' = Trailing(t)
        /\ trailing' = <<TtsPad>>

(* Another output rate, a prompt that cannot be tokenized and a network    *)
(* that fails are errors.                                                  *)
Synthesize(t) ==
  /\ speaking = "off"
  /\ text' = t
  /\ frames' = 0
  /\ \/ /\ "qwen" \in voice
        /\ Fits(t)
        /\ \E m \in {"streaming", "whole"} : BuildInputs(t, m)
        /\ speaking' = "working"
     \/ /\ speaking' = IF "qwen" \in voice THEN "failed" ELSE "unavailable"
        /\ UNCHANGED <<mode, trailing, fed>>
  /\ UNCHANGED <<modelVars, wave>>

(* The text beside the next frame. *)
NextText == IF frames < Len(trailing) THEN trailing[frames + 1] ELSE TtsPad

(* allow_eos.                                                              *)
MayEnd == frames >= MinAudioTokens

(* What select_last_token_with_options may pick for the main code.  The    *)
(* last 1024 of the vocabulary are reserved, all of a smaller one; of those*)
(* only the end of speech is picked, if it is in the vocabulary at all.    *)
(* Sampling picks any of the candidates; a penalty excludes none.          *)
Candidates == {c \in {"codes", "eos"} \cap voice : c = "eos" => MayEnd}

GenerateFrame ==
  /\ speaking = "working"
  /\ frames < MaxAudioTokens
  /\ "codes" \in Candidates
  /\ fed' = Append(fed, NextText)
  /\ frames' = frames + 1
  /\ UNCHANGED <<modelVars, speaking, mode, text, trailing, wave>>

(* The talker or the code predictor fails, or no candidate is left.        *)
GenerateFails ==
  /\ speaking = "working"
  /\ frames < MaxAudioTokens
  /\ speaking' = "failed"
  /\ UNCHANGED <<modelVars, speechVars>>

(* The end of speech is picked, or forced after max_audio_tokens.  Only now*)
(* is the vocoder missed, and its net read.                                *)
EndOfSpeech ==
  /\ speaking = "working"
  /\ "eos" \in Candidates \/ frames = MaxAudioTokens
  /\ \/ /\ frames > 0
        /\ "vocoder" \in voice
        /\ Runs(net, CodeGroups)
        /\ speaking' = "done"
        /\ wave' = Waveform(net, frames)
     \/ /\ speaking' = IF frames > 0 /\ "vocoder" \notin voice THEN "unavailable" ELSE "failed"
        /\ UNCHANGED wave
  /\ UNCHANGED <<modelVars, inputVars>>

QwenStep == GenerateFrame \/ GenerateFails \/ EndOfSpeech

-----------------------------------------------------------------------------
(* In the streaming layout, what the talker of a finished synthesis was    *)
(* given beside its frames is the text, word for word and once, then the   *)
(* end of speech, then padding: whatever the talker made of it, and        *)
(* however early it stopped.                                               *)
TextSpoken ==
  speaking = "done" /\ mode = "streaming" /\ text # <<>> =>
    /\ frames >= 1
    /\ Len(fed) = frames + 1
    /\ \A i \in DOMAIN fed :
         fed[i] = IF i <= Len(text) THEN text[i]
                  ELSE IF i = Len(text) + 1 THEN TtsEos ELSE TtsPad

(* The audio is as long as its frames are, each the product of all strides *)
(* of the net, and no sound of a frame is heard before it or depends on a  *)
(* later one, whatever kernels the weights have; a net with a decoder      *)
(* block missing, with heads that do not divide or for frames of another   *)
(* number of codes gives no audio at all.                                  *)
RateOf(layers, first, divisor) ==
  LET n == Cardinality(DOMAIN layers)
  IN  Rate([k \in 1..n |-> InferredStride(layers[first + k - 1].kernel, divisor)], n)

SpeechAligned ==
  speaking = "done" =>
    Aligned(wave, frames, RateOf(net.upsample, 0, net.divisor) * RateOf(net.blocks, 1, net.divisor))
=============================================================================
