---------------------------- MODULE StreamingStt ----------------------------
(***************************************************************************)
(* MlxStreamingTranscriptionSession (vona-mlx/src/lib.rs): a buffer of     *)
(* audio, at most one decode task running beside the caller, and the       *)
(* prefix of words that the latest decodes agree on.                       *)
(*                                                                         *)
(* Time is in samples: the buffer holds the audio from sample              *)
(* pushed - buffered to sample pushed.  latest_update, which is never      *)
(* read, is left out.                                                      *)
(***************************************************************************)
EXTENDS Integers, Sequences, SequencesExt

CONSTANTS
  MinBuffer, StepSize, MaxBuffer,  \* min_buffer_ms, step_ms, max_buffer_ms
  Passes,      \* stability_passes.max(1)
  Texts,       \* what the model may transcribe: sequences of words
  SameWord,    \* pairs of words equal but for the case of their letters
  Opens,       \* pairs of words of which the first begins the second
  Pushes,      \* the numbers of samples in a pushed frame
  MaxPushed,   \* bounds the samples ever pushed
  Running, Failed,  \* a decode under way, or that ended with an error
  None         \* no decode, no update

VARIABLES
  awaited,    \* what the caller awaits: "open", "waiting", "transcribing"
  buffered,   \* pcm_buffer.len()
  lastInfer,  \* last_inference_samples
  pendingDecode,  \* pending_decode
  pendingLen,     \* pending_decode_samples
  hypotheses, \* recent_hypotheses
  committed,  \* committed_prefix
  update      \* what the latest call returned

VARIABLES     \* history
  pushed,     \* samples pushed so far
  decodedTo,  \* samples pushed before the latest decode was started
  shown       \* the text of the latest update returned

sttVars == <<awaited, buffered, lastInfer, pendingDecode, pendingLen, hypotheses,
             committed, update, pushed, decodedTo, shown>>

Decode == [from : 0..MaxPushed, to : 0..MaxPushed, text : Texts \cup {Running, Failed}]

AllPrefixes == UNION {Prefixes(t) : t \in Texts}

Update == [kind : {"partial", "final"}, text : AllPrefixes, transcript : Texts,
           from : 0..MaxPushed, to : 0..MaxPushed]

Word == UNION {ToSet(t) : t \in Texts}

(* That a word begins another is as of strings. *)
ASSUME SttAssumption ==
  /\ MinBuffer \in Nat /\ StepSize \in Nat \ {0} /\ MaxBuffer \in Nat
  /\ Passes \in Nat \ {0}
  /\ Pushes \subseteq Nat \ {0}
  /\ MaxPushed \in Nat
  /\ <<>> \in Texts /\ Texts \subseteq Seq(Word)
  /\ \A p \in Opens, q \in Opens : p[2] = q[1] => <<p[1], q[2]>> \in Opens
  /\ None \notin Decode \cup Update \cup {Failed}

SttTypeOK ==
  /\ awaited \in {"open", "waiting", "transcribing"}
  /\ pushed \in 0..MaxPushed
  /\ buffered \in 0..MaxBuffer
  /\ lastInfer \in 0..buffered
  /\ pendingLen \in 0..buffered
  /\ pendingDecode \in Decode \cup {None}
  /\ hypotheses \in BoundedSeq(Texts, Passes)
  /\ committed \in AllPrefixes
  /\ update \in Update \cup {None, Failed}
  /\ decodedTo \in 0..MaxPushed
  /\ shown \in AllPrefixes

SttInit ==
  /\ awaited = "open"
  /\ buffered = 0
  /\ lastInfer = 0
  /\ pendingDecode = None
  /\ pendingLen = 0
  /\ hypotheses = <<>>
  /\ committed = <<>>
  /\ update = None
  /\ pushed = 0
  /\ decodedTo = 0
  /\ shown = <<>>

-----------------------------------------------------------------------------
(* longest_common_word_prefix *)
Agree(t, u) ==
  LET common == {n \in 0..Min({Len(t), Len(u)}) :
                   \A i \in 1..n : t[i] = u[i] \/ <<t[i], u[i]>> \in SameWord}
  IN SubSeq(t, 1, Max(common))

Candidate(hyps) == FoldLeft(Agree, Head(hyps), Tail(hyps))

(* str::starts_with: the last word need only begin alike. *)
Continues(text, prefix) ==
  prefix # <<>> =>
    /\ Len(text) >= Len(prefix)
    /\ Front(prefix) = SubSeq(text, 1, Len(prefix) - 1)
    /\ \/ text[Len(prefix)] = Last(prefix)
       \/ <<Last(prefix), text[Len(prefix)]>> \in Opens

(* recent_hypotheses after a decode *)
Remembered(t) ==
  LET all == Append(hypotheses, t)
  IN IF Len(all) > Passes THEN Tail(all) ELSE all

(* Mutant: a prefix is committed whatever was committed before. *)
CommitsAny(t) ==
  /\ Len(Remembered(t)) = Passes
  /\ Candidate(Remembered(t)) \notin {<<>>, committed}

(* A decode with text t commits a longer prefix. *)
Commits(t) ==
  /\ Len(Remembered(t)) = Passes
  /\ LET c == Candidate(Remembered(t))
     IN c \notin {<<>>, committed} /\ Continues(c, committed)

(* accept_transcript(transcript, false) *)
Accept(t) ==
  /\ hypotheses' = Remembered(t)
  /\ committed' = IF Commits(t) THEN Candidate(Remembered(t)) ELSE committed

Returns(k, text, d) ==
  /\ update' = [kind |-> k, text |-> text, transcript |-> d.text,
                from |-> d.from, to |-> d.to]
  /\ shown' = text

ReturnsNone(u) == update' = u /\ UNCHANGED shown

-----------------------------------------------------------------------------
Finished == pendingDecode # None /\ pendingDecode.text # Running

Drop == pendingDecode' = None /\ pendingLen' = 0

Overflow(n) == Max({0, buffered + n - MaxBuffer})

(* Mutant: positions in the buffer stay when its beginning is dropped. *)
ShiftedNot(i, n) == i

(* enforce_buffer_limit, after n samples more *)
BufferWith(n) == buffered + n - Overflow(n)
Shifted(i, n) == Max({0, i - Overflow(n)})

(* A decode that is collected commits a prefix and ends the call. *)
PushCollects(n) ==
  /\ Finished
  /\ pendingDecode.text # Failed
  /\ Commits(pendingDecode.text)
  /\ Accept(pendingDecode.text)
  /\ Returns("partial", committed', pendingDecode)
  /\ Drop
  /\ lastInfer' = Shifted(lastInfer, n)
  /\ UNCHANGED decodedTo

PushFails(n) ==
  /\ Finished
  /\ pendingDecode.text = Failed
  /\ ReturnsNone(Failed)
  /\ Drop
  /\ lastInfer' = Shifted(lastInfer, n)
  /\ UNCHANGED <<hypotheses, committed, decodedTo>>

Due(n) ==
  /\ BufferWith(n) >= MinBuffer
  /\ BufferWith(n) - Shifted(lastInfer, n) >= StepSize

(* Nothing to return: a decode of the whole buffer is started when it is   *)
(* due and none is under way.                                              *)
PushBuffers(n) ==
  /\ \/ /\ ~Finished
        /\ UNCHANGED <<hypotheses, committed>>
     \/ /\ Finished
        /\ pendingDecode.text # Failed
        /\ ~Commits(pendingDecode.text)
        /\ Accept(pendingDecode.text)
  /\ ReturnsNone(None)
  /\ \/ /\ Finished \/ pendingDecode = None
        /\ Due(n)
        /\ pendingDecode' = [from |-> pushed + n - BufferWith(n), to |-> pushed + n,
                              text |-> Running]
        /\ pendingLen' = BufferWith(n)
        /\ lastInfer' = BufferWith(n)
        /\ decodedTo' = pushed + n
     \/ /\ Finished \/ pendingDecode = None
        /\ ~Due(n)
        /\ Drop
        /\ lastInfer' = Shifted(lastInfer, n)
        /\ UNCHANGED decodedTo
     \/ /\ pendingDecode # None /\ ~Finished
        /\ pendingLen' = Shifted(pendingLen, n)
        /\ lastInfer' = Shifted(lastInfer, n)
        /\ UNCHANGED <<pendingDecode, decodedTo>>

(* push_audio with n samples; an empty frame, or one with another rate or  *)
(* number of channels, changes nothing.                                    *)
PushAudio(n) ==
  /\ awaited = "open"
  /\ pushed + n <= MaxPushed
  /\ pushed' = pushed + n
  /\ buffered' = BufferWith(n)
  /\ PushCollects(n) \/ PushFails(n) \/ PushBuffers(n)
  /\ UNCHANGED awaited

(* The decode task ends. *)
DecodeEnds ==
  /\ pendingDecode # None
  /\ pendingDecode.text = Running
  /\ \E t \in Texts \cup {Failed} :
       pendingDecode' = [pendingDecode EXCEPT !.text = t]
  /\ UNCHANGED <<awaited, buffered, lastInfer, pendingLen, hypotheses, committed,
                 update, pushed, decodedTo, shown>>

-----------------------------------------------------------------------------
(* The decode under way is of the whole buffer. *)
Current == pendingLen = buffered

(* finish: up to its first await of a decode. *)
Finish ==
  /\ awaited = "open"
  /\ buffered > 0
  /\ \/ /\ Finished
        /\ pendingDecode.text = Failed
        /\ ReturnsNone(Failed)
        /\ Drop
        /\ UNCHANGED <<awaited, hypotheses, committed>>
     \/ /\ Finished
        /\ pendingDecode.text # Failed
        /\ Accept(pendingDecode.text)
        /\ Drop
        /\ awaited' = "transcribing"
        /\ UNCHANGED <<update, shown>>
     \/ /\ pendingDecode # None /\ ~Finished
        /\ Current
        /\ awaited' = "waiting"
        /\ UNCHANGED <<pendingDecode, pendingLen, hypotheses, committed, update, shown>>
     \/ /\ pendingDecode = None \/ (~Finished /\ ~Current)
        /\ Drop
        /\ awaited' = "transcribing"
        /\ UNCHANGED <<hypotheses, committed, update, shown>>
  /\ UNCHANGED <<buffered, lastInfer, pushed, decodedTo>>

(* The decode waited for: the prefix it commits is what finish returns.    *)
FinishCollects ==
  /\ awaited = "waiting"
  /\ Finished
  /\ pendingDecode.text # Failed
  /\ Accept(pendingDecode.text)
  /\ Drop
  /\ \/ /\ Commits(pendingDecode.text)
        /\ Returns("final", committed', pendingDecode)
        /\ awaited' = "open"
     \/ /\ ~Commits(pendingDecode.text)
        /\ awaited' = "transcribing"
        /\ UNCHANGED <<update, shown>>
  /\ UNCHANGED <<buffered, lastInfer, pushed, decodedTo>>

FinishFails ==
  /\ awaited = "waiting"
  /\ Finished
  /\ pendingDecode.text = Failed
  /\ ReturnsNone(Failed)
  /\ Drop
  /\ awaited' = "open"
  /\ UNCHANGED <<buffered, lastInfer, hypotheses, committed, pushed, decodedTo>>

(* transcribe_current(true) *)
TranscribeCurrent ==
  /\ awaited = "transcribing"
  /\ \/ \E t \in Texts :
          /\ hypotheses' = Remembered(t)
          /\ committed' = t
          /\ Returns("final", t, [from |-> pushed - buffered, to |-> pushed, text |-> t])
          /\ lastInfer' = buffered
          /\ decodedTo' = pushed
     \/ /\ ReturnsNone(Failed)
        /\ UNCHANGED <<hypotheses, committed, lastInfer, decodedTo>>
  /\ awaited' = "open"
  /\ UNCHANGED <<buffered, pendingDecode, pendingLen, pushed>>

-----------------------------------------------------------------------------
SttNext ==
  \/ \E n \in Pushes : PushAudio(n)
  \/ DecodeEnds
  \/ Finish \/ FinishCollects \/ FinishFails \/ TranscribeCurrent

SttSpec == SttInit /\ [][SttNext]_sttVars

-----------------------------------------------------------------------------
(* The update of finish stems from a decode of the buffer as it is, never  *)
(* of an older one.                                                        *)
FinalCoversBuffer ==
  [][awaited # "open" /\ awaited' = "open" /\ update' # Failed =>
       update'.from = pushed - buffered /\ update'.to = pushed]_sttVars

(* Audio does not pile up undecoded: when push_audio has nothing to return *)
(* and no decode is under way, less than a step of audio is new, however   *)
(* much the buffer has dropped.                                            *)
AudioNotStarved ==
  awaited = "open" /\ update = None /\ pendingDecode = None /\ buffered >= MinBuffer =>
    pushed - decodedTo < StepSize

(* A partial update begins with what the caller was shown before it, over  *)
(* any number of decodes, failures and calls to finish in between.         *)
PartialsGrow ==
  [][update' \notin {update, None, Failed} /\ update'.kind = "partial" =>
       Continues(update'.text, shown)]_sttVars

(* The final update has the transcript of the buffer. *)
FinalIsTranscript ==
  update \notin {None, Failed} /\ update.kind = "final" =>
    update.text = update.transcript
=============================================================================
