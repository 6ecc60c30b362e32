------------------------------ MODULE Whisper ------------------------------
(***************************************************************************)
(* WhisperSpeechModel::transcribe (vona-mlx-whisper/src/lib.rs): the greedy*)
(* decode loop and the clean-up of what it has decoded.                    *)
(*                                                                         *)
(* The network is an oracle: it may rank any token first.  A token decodes *)
(* to one piece of text, a word and the mark right behind it (either may   *)
(* be missing).  Spacing and case are left out: a clean text has one space *)
(* between pieces, and all comparisons of the clean-up ignore case.        *)
(***************************************************************************)
EXTENDS Naturals, Sequences, SequencesExt

CONSTANTS
  Words,            \* words, without case or marks
  Begins,           \* pairs of words of which the first begins the second
  Marks,            \* the marks that end a sentence
  MaxDecodeTokens,  \* max_decode_tokens of the speech configuration
  MaxPositions      \* max_target_positions of the model

ASSUME WhisperAssumption ==
  /\ "" \notin Words /\ "" \notin Marks
  /\ Begins \subseteq Words \X Words
  /\ MaxDecodeTokens \in Nat
  /\ MaxPositions \in Nat

Piece == [word : Words \cup {""}, mark : Marks \cup {""}]

(* A token of white space, or one that the tokenizer skips. *)
Blank == [word |-> "", mark |-> ""]

VARIABLES
  ears,       \* what the loaded model has, of WhisperFeatures; {} if not Whisper
  hearing,    \* the phase of transcribe
  decoded,    \* the tokens decoded so far
  transcript  \* the text, once it is there

whisperVars == <<ears, hearing, decoded, transcript>>

Phase == {"off", "working", "done", "failed", "unavailable"}

WhisperTypeOK ==
  /\ ears \subseteq {"whisper", "tokenizer", "suppress"}
  /\ hearing \in Phase
  /\ decoded \in Seq(Piece)
  /\ transcript \in Seq(Piece)

WhisperInit ==
  /\ ears = {}
  /\ hearing = "off"
  /\ decoded = <<>>
  /\ transcript = <<>>

-----------------------------------------------------------------------------
(* At least one token is decoded, and at most what the model has positions *)
(* for, not counting the prompt.                                           *)
Budget ==
  LET capped == IF MaxDecodeTokens + 1 <= MaxPositions THEN MaxDecodeTokens
                ELSE IF MaxPositions = 0 THEN 0 ELSE MaxPositions - 1
  IN  IF capped = 0 THEN 1 ELSE capped

(* begin_suppress_tokens of generation_config.json holds the blank token.  *)
Suppressed == IF "suppress" \in ears /\ decoded = <<>> THEN {Blank} ELSE {}

(* Another rate, an empty frame and a network that fails are errors, and   *)
(* the tokenizer is missed only when the audio has been encoded.           *)
Transcribe ==
  /\ hearing = "off"
  /\ \/ "whisper" \notin ears /\ hearing' = "unavailable"
     \/ "whisper" \in ears /\ hearing' = "failed"
     \/ /\ "whisper" \in ears
        /\ hearing' = IF "tokenizer" \in ears THEN "working" ELSE "unavailable"
  /\ UNCHANGED <<ears, decoded, transcript>>

DecodeToken ==
  /\ hearing = "working"
  /\ Len(decoded) < Budget
  /\ \E token \in Piece \ Suppressed : decoded' = Append(decoded, token)
  /\ UNCHANGED <<ears, hearing, transcript>>

(* No logits, or none that may be chosen. *)
DecodeFails ==
  /\ hearing = "working"
  /\ hearing' = "failed"
  /\ UNCHANGED <<ears, decoded, transcript>>

-----------------------------------------------------------------------------
(* str::starts_with on the text of s without its mark: the last word of t  *)
(* need only begin a word of s.                                            *)
StartsWith(s, t) ==
  LET n == Len(t) IN
  /\ n <= Len(s)
  /\ \A i \in 1..n - 1 : t[i] = s[i]
  /\ \/ t[n].word = s[n].word
     \/ <<t[n].word, s[n].word>> \in Begins

(* The pieces up to a mark are a sentence, which is kept the first time.   *)
TakePiece(cut, piece) ==
  LET sentence == Append(cut.current, piece) IN
  IF piece.mark = "" THEN [cut EXCEPT !.current = sentence]
  ELSE [parts   |-> IF Contains(cut.parts, sentence) THEN cut.parts
                    ELSE Append(cut.parts, sentence),
        current |-> <<>>]

(* What follows the last mark is dropped if a sentence starts with it.     *)
Sentences(text) ==
  LET cut == FoldLeft(TakePiece, [parts |-> <<>>, current |-> <<>>], text)
      said == \E i \in DOMAIN cut.parts : StartsWith(cut.parts[i], cut.current)
  IN  FlattenSeq(cut.parts) \o
        (IF cut.current = <<>> \/ said THEN <<>> ELSE cut.current)

(* Mutant: the third of a run is kept, as a new run of its own.            *)
TakeWordRestarts(run, piece) ==
  LET again == piece.word # "" /\ piece.word = run.previous
      count == IF again THEN run.count + 1 ELSE 0
  IN  [previous |-> IF count >= 2 THEN "" ELSE piece.word, count |-> count,
       output |-> Append(run.output, piece)]

(* The third of a run of one word and all after it are dropped. *)
TakeWord(run, piece) ==
  LET again == piece.word # "" /\ piece.word = run.previous
      count == IF again THEN run.count + 1 ELSE 0
  IN  [previous |-> piece.word, count |-> count,
       output |-> IF count >= 2 THEN run.output ELSE Append(run.output, piece)]

CollapseRepeatedWordRuns(text) ==
  FoldLeft(TakeWord, [previous |-> "", count |-> 0, output |-> <<>>], text).output

(* A token that decodes to nothing leaves no piece. *)
TakeToken(text, token) == IF token = Blank THEN text ELSE Append(text, token)

Text(tokens) == FoldLeft(TakeToken, <<>>, tokens)

PostprocessTranscript(tokens) == CollapseRepeatedWordRuns(Sentences(Text(tokens)))

(* The end of text, token 50257, is not a candidate for the first. *)
EndOfText ==
  /\ hearing = "working"
  /\ decoded # <<>>
  /\ hearing' = "done"
  /\ transcript' = PostprocessTranscript(decoded)
  /\ UNCHANGED <<ears, decoded>>

WhisperStep == DecodeToken \/ DecodeFails \/ EndOfText

-----------------------------------------------------------------------------
(* The transcript is what was decoded, cleaned up: it has nothing new and  *)
(* keeps the order, no word is lost from it altogether, except perhaps the *)
(* last one of a text that breaks off, and no word comes three times in a  *)
(* row.                                                                    *)
TranscriptFaithful ==
  hearing = "done" =>
    LET text == Text(decoded) IN
    /\ \E place \in [DOMAIN transcript -> DOMAIN text] :
         /\ \A i \in DOMAIN transcript : transcript[i] = text[place[i]]
         /\ \A i, j \in DOMAIN transcript : i < j => place[i] < place[j]
    /\ \A i \in DOMAIN text :
         \/ i = Len(text) /\ text[i].mark = ""
         \/ \E j \in DOMAIN transcript : transcript[j].word = text[i].word
    /\ \A i \in 1..Len(transcript) - 2 :
         transcript[i].word # "" =>
           \/ transcript[i + 1].word # transcript[i].word
           \/ transcript[i + 2].word # transcript[i].word
=============================================================================
