------------------------------ MODULE MlxTurn ------------------------------
(***************************************************************************)
(* MlxAudioEngine as a SpeechToSpeechBackend (vona-mlx/src/lib.rs): each   *)
(* step transcribes a frame with Whisper and speaks a reply with Qwen3 TTS.*)
(* A loader gives an engine one of the two models; putting both behind one *)
(* MlxSpeechModel is left to the application.  The session is driven as    *)
(* run_session does it: injections between steps, and no step after one    *)
(* that failed.                                                            *)
(***************************************************************************)
EXTENDS Whisper, Qwen3Tts, SpeechModels

CONSTANTS
  WhisperDirs, QwenDirs,  \* the directories there are to load from
  NoDir,                  \* stands for a model that is not loaded
  ContextEvents,          \* the events that may be injected
  MaxEvents,              \* bounds the injected events
  MaxTurns,               \* bounds the steps
  Checkpoints             \* what a checkpoint may be like, beside its files

(* ExternalContextEvent: a text is empty if it is missing, or blank. *)
Source       == {"reply", "tts", "other"}
ContextEvent == [source : Source, summary : Seq(TextToken), payload : Seq(TextToken)]

ASSUME MlxTurnAssumption ==
  /\ TextToken = Piece \ {Blank}
  /\ NoDir \notin WhisperDirs \cup QwenDirs
  /\ Checkpoints \subseteq [features : SUBSET {"sameWidth", "codes", "eos"}, net : Vocoders]
  /\ ContextEvents \subseteq ContextEvent
  /\ MaxEvents \in Nat
  /\ MaxTurns \in Nat

VARIABLES
  at,       \* where the caller is
  error,    \* of the latest call that failed
  pending   \* pending_events, each by its place in given

(* History. *)
VARIABLES
  provisioned,  \* both models were loaded from provisioned directories
  given,        \* the events injected
  turns         \* of each step that got as far as its reply: the events it
                \* took, and the one it spoke, or 0

callerVars == <<at, error, pending, provisioned, given, turns>>
vars       == <<callerVars, whisperVars, qwenVars>>

TypeOK ==
  /\ WhisperTypeOK
  /\ QwenTypeOK
  /\ at \in {"loading", "idle", "hearing", "speaking", "over"}
  /\ error \in {"none", "unavailable", "other"}
  /\ pending \in Seq(1..MaxEvents)
  /\ provisioned \in BOOLEAN
  /\ given \in Seq(ContextEvents)
  /\ turns \in Seq([took : Seq(1..MaxEvents), spoke : 0..MaxEvents])
  /\ Len(decoded) <= Budget

Init ==
  /\ WhisperInit
  /\ QwenInit
  /\ at = "loading"
  /\ error = "none"
  /\ pending = <<>>
  /\ provisioned = FALSE
  /\ given = <<>>
  /\ turns = <<>>

-----------------------------------------------------------------------------
Fail(kind) == at' = "over" /\ error' = kind

(* A model that is not loaded stands for UnloadedMlxSpeechModel, or for the*)
(* other half of what one loader gives.  Whether the text embedding is as  *)
(* wide as the talker, and which codes are in its vocabulary, is a matter  *)
(* of the checkpoint.  Without a GPU there is no engine.                   *)
Load ==
  /\ at = "loading"
  /\ \E w \in WhisperDirs \cup {NoDir}, q \in QwenDirs \cup {NoDir} :
       /\ provisioned' = /\ w # NoDir /\ Provisioned(w, WhisperManifest)
                         /\ q # NoDir /\ Provisioned(q, QwenManifest)
       /\ \/ /\ w # NoDir => WhisperLoads(w)
             /\ q # NoDir => QwenLoads(q)
             /\ ears' = IF w = NoDir THEN {} ELSE WhisperFeatures(w)
             /\ \/ q = NoDir /\ voice' = {} /\ UNCHANGED net
                \/ /\ q # NoDir
                   /\ \E checkpoint \in Checkpoints :
                        /\ voice' = QwenFeatures(q) \cup checkpoint.features
                        /\ net' = checkpoint.net
             /\ at' = "idle"
             /\ UNCHANGED error
          \/ /\ \/ w # NoDir /\ ~WhisperLoads(w)
                \/ q # NoDir /\ ~QwenLoads(q)
             /\ Fail("unavailable")
             /\ UNCHANGED <<ears, modelVars>>
          \/ /\ Fail("other")
             /\ UNCHANGED <<ears, modelVars>>
  /\ UNCHANGED <<pending, given, turns, hearing, decoded, transcript, speaking, speechVars>>

InjectEvent ==
  /\ at = "idle"
  /\ Len(given) < MaxEvents
  /\ \E event \in ContextEvents : given' = Append(given, event)
  /\ pending' = Append(pending, Len(given) + 1)
  /\ UNCHANGED <<at, error, provisioned, turns, whisperVars, qwenVars>>

Step ==
  /\ at = "idle"
  /\ Len(turns) < MaxTurns
  /\ Transcribe
  /\ at' = "hearing"
  /\ UNCHANGED <<error, pending, provisioned, given, turns, qwenVars>>

Hear ==
  /\ at = "hearing"
  /\ WhisperStep
  /\ UNCHANGED <<callerVars, qwenVars>>

(* What transcribe and synthesize keep is local to them. *)
ForgetHearing  == hearing' = "off" /\ decoded' = <<>> /\ transcript' = <<>>
ForgetSpeaking ==
  /\ speaking' = "off" /\ mode' = "streaming" /\ frames' = 0
  /\ text' = <<>> /\ trailing' = <<>> /\ fed' = <<>> /\ wave' = <<>>

Kind(phase) == IF phase = "unavailable" THEN "unavailable" ELSE "other"

TranscribeFailed ==
  /\ at = "hearing"
  /\ hearing \in {"failed", "unavailable"}
  /\ Fail(Kind(hearing))
  /\ ForgetHearing
  /\ UNCHANGED <<pending, provisioned, given, turns, ears, qwenVars>>

-----------------------------------------------------------------------------
(* The part of an event that is spoken depends on its source, and nothing  *)
(* is of a source that event_text does not know.                           *)
SpokenPart(event) ==
  CASE event.source = "reply" -> event.summary
    [] event.source = "tts"   -> event.payload
    [] OTHER                  -> <<>>

HasText(id) == SpokenPart(given[id]) # <<>>

(* Mutant: the newest event is spoken. *)
LastWithText(ids) ==
  LET i == SelectLastInSeq(ids, HasText) IN IF i = 0 THEN 0 ELSE ids[i]

(* event_text: the first event that has text, or 0. *)
EventText(ids) ==
  LET i == SelectInSeq(ids, HasText) IN IF i = 0 THEN 0 ELSE ids[i]

(* Every pending event is taken, and at most one is spoken; without one    *)
(* the transcript is.                                                      *)
SpeakReply ==
  /\ at = "hearing"
  /\ hearing = "done"
  /\ LET spoke == EventText(pending) IN
       /\ Synthesize(IF spoke = 0 THEN transcript ELSE SpokenPart(given[spoke]))
       /\ turns' = Append(turns, [took |-> pending, spoke |-> spoke])
  /\ pending' = <<>>
  /\ at' = "speaking"
  /\ ForgetHearing
  /\ UNCHANGED <<error, provisioned, given, ears>>

Speak ==
  /\ at = "speaking"
  /\ QwenStep
  /\ UNCHANGED <<callerVars, whisperVars>>

StepReturns ==
  /\ at = "speaking"
  /\ speaking = "done"
  /\ at' = "idle"
  /\ ForgetSpeaking
  /\ UNCHANGED <<error, pending, provisioned, given, turns, modelVars, whisperVars>>

SynthesizeFailed ==
  /\ at = "speaking"
  /\ speaking \in {"failed", "unavailable"}
  /\ Fail(Kind(speaking))
  /\ ForgetSpeaking
  /\ UNCHANGED <<pending, provisioned, given, turns, modelVars, whisperVars>>

Next ==
  \/ Load \/ InjectEvent \/ Step \/ Hear \/ TranscribeFailed
  \/ SpeakReply \/ Speak \/ StepReturns \/ SynthesizeFailed

Spec == Init /\ [][Next]_vars

-----------------------------------------------------------------------------
(* An injected event is taken by one step, in the order of the injections, *)
(* or is still pending; and a step speaks the oldest event with text that  *)
(* it took, so that no event is heard twice or after a later one.          *)
EventsSpokenOnce ==
  /\ FlattenSeq([t \in DOMAIN turns |-> turns[t].took]) \o pending
       = [id \in DOMAIN given |-> id]
  /\ \A t \in DOMAIN turns :
       LET texts == {id \in ToSet(turns[t].took) : HasText(id)} IN
       IF texts = {} THEN turns[t].spoke = 0
       ELSE turns[t].spoke \in texts /\ \A id \in texts : turns[t].spoke <= id

(* Directories that hold all files of the two manifests give an engine     *)
(* whose steps never end for want of a model, tokenizer or vocoder, none   *)
(* of which is looked for before it is needed.                             *)
ProvisionedUsable == provisioned => error # "unavailable"
=============================================================================
