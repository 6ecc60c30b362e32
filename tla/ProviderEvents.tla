--------------------------- MODULE ProviderEvents ---------------------------
(***************************************************************************)
(* The mappings between Vona's realtime events and the events of the       *)
(* hosted providers: vona-openai-realtime, vona-gemini-live, vona-qwen,    *)
(* and the text-to-speech and transcript messages of vona-deepgram,        *)
(* vona-elevenlabs and vona-azure-speech. They keep no state: each is a    *)
(* function of one event. Payloads other than audio and text are left out. *)
(***************************************************************************)
EXTENDS Pcm16, Sequences

Controls == {"StartResponse", "CommitInput", "ClearOutput", "Interrupt", "Close"}

(* RealtimeVoiceInput; samples only in "Audio", text only in "Text". The   *)
(* crates without a RealtimeVoiceInput mapping have a function per kind,   *)
(* vona-qwen also one to commit its text buffer.                           *)
Inputs(samples, texts) ==
       [kind : {"Audio"}, samples : samples, text : {""}]
  \union [kind : {"Text"}, samples : {<<>>}, text : texts]
  \union [kind : {"ToolResult", "CommitText"} \union Controls, samples : {<<>>}, text : {""}]

ClientEvent(type, input) ==
  [type |-> type, text |-> input.text,
   audio |-> [i \in DOMAIN input.samples |-> ToPcm(input.samples[i])]]

(* A mapping that returns Err: there is nothing to send *)
Unsupported == [type |-> "unsupported", text |-> "", audio |-> <<>>]

----------------------------------------------------------------------------
(* From the application to the provider: the type of event for each kind   *)
(* of input. A kind without one has no function in the provider's crate.   *)

(* Mutant: commit and clear exchanged *)
OpenAiTypesSwapped ==
  [Audio |-> "input_audio_buffer.append", Text |-> "conversation.item.create",
   ToolResult |-> "conversation.item.create", StartResponse |-> "response.create",
   CommitInput |-> "input_audio_buffer.clear", ClearOutput |-> "input_audio_buffer.commit",
   Interrupt |-> "response.cancel", Close |-> "session.close"]

OpenAiTypes ==
  [Audio |-> "input_audio_buffer.append", Text |-> "conversation.item.create",
   ToolResult |-> "conversation.item.create", StartResponse |-> "response.create",
   CommitInput |-> "input_audio_buffer.commit", ClearOutput |-> "input_audio_buffer.clear",
   Interrupt |-> "response.cancel", Close |-> "session.close"]

(* Of the controls Gemini Live takes CommitInput only *)
GeminiTypes ==
  [Audio |-> "realtimeInput", Text |-> "clientContent.turns", ToolResult |-> "toolResponse",
   CommitInput |-> "clientContent.turnComplete"]

QwenTypes ==
  [Audio |-> "input_audio_buffer.append", CommitInput |-> "input_audio_buffer.commit",
   Text |-> "input_text_buffer.append", CommitText |-> "input_text_buffer.commit",
   StartResponse |-> "response.create", Close |-> "session.finish"]

DeepgramTypes == [Text |-> "Speak", CommitInput |-> "Flush", Close |-> "Close"]
ElevenLabsTypes == [Text |-> "text", Close |-> "text"]
AzureTypes == [Text |-> "ssml"]

Types == [openai |-> OpenAiTypes, gemini |-> GeminiTypes, qwen |-> QwenTypes,
          deepgram |-> DeepgramTypes, elevenlabs |-> ElevenLabsTypes, azure |-> AzureTypes]

(* input_to_client_event, input_to_client_message and the constructors. An *)
(* empty text is refused where it would mean something else: to ElevenLabs *)
(* it is the end of the stream.                                            *)
TakesEmptyTextAlways(provider) == TRUE  \* mutant: the check is gone

TakesEmptyText(provider) == provider \in {"openai", "gemini", "qwen"}

ToClientEvent(provider, input) ==
  IF \/ input.kind \notin DOMAIN Types[provider]
     \/ input.kind = "Text" /\ input.text = "" /\ ~TakesEmptyText(provider)
    THEN Unsupported
    ELSE ClientEvent(Types[provider][input.kind], input)

----------------------------------------------------------------------------
(* From the provider to the application. An event of the provider is a     *)
(* type and parts; a part is audio, whole or not valid base64, or text,    *)
(* or something the mappings do not know.                                  *)
AudioPart(pcm, ok) == [what |-> "audio", audio |-> pcm, text |-> "", ok |-> ok]
TextPart(text) == [what |-> "text", audio |-> <<>>, text |-> text, ok |-> TRUE]
OtherPart == [what |-> "other", audio |-> <<>>, text |-> "", ok |-> TRUE]

Nothing == [out |-> "Nothing", samples |-> <<>>, text |-> "", final |-> FALSE]
Failed == [Nothing EXCEPT !.out = "Failed"]
Completed == [Nothing EXCEPT !.out = "ResponseCompleted"]
Fragment(text, final) == [Nothing EXCEPT !.out = "TranscriptFragment", !.text = text, !.final = final]
AudioOutput(part) ==
  IF ~part.ok THEN Failed
  ELSE [Nothing EXCEPT !.out = "Audio",
                       !.samples = [i \in DOMAIN part.audio |-> FromPcm(part.audio[i])]]

PartOutput(part) == IF part.what = "audio" THEN AudioOutput(part) ELSE Fragment(part.text, FALSE)

(* A delta whose field is missing or of another kind is an error *)
DeltaOutput(event, what) ==
  IF event.parts = <<>> \/ event.parts[1].what # what THEN Failed ELSE PartOutput(event.parts[1])

(* The ends OpenAI tells of besides the one of a response, with the text of*)
(* the deltas once more; nothing is made of them.                          *)
OpenAiDones == {"response.output_text.done", "response.output_audio_transcript.done"}

OpenAiOutput(event) ==
  CASE event.type = "response.output_audio.delta" -> DeltaOutput(event, "audio")
    [] event.type \in {"response.output_audio_transcript.delta", "response.output_text.delta"}
         -> DeltaOutput(event, "text")
    [] event.type = "response.done" -> Completed
    [] OTHER -> Nothing

(* Messages of Gemini Live with a flag, with or without a modelTurn beside *)
(* it. The flags are not looked at.                                        *)
GeminiEnds == {"serverContent.turnComplete", "serverContent.generationComplete",
               "serverContent.interrupted"}
GeminiContents == {"serverContent"} \union GeminiEnds

(* Mutant: the first part is the only one that is looked at *)
GeminiOutputFirstPart(event) ==
  IF \/ event.type \notin GeminiContents \/ event.parts = <<>> THEN Nothing
  ELSE IF event.parts[1].what = "other" THEN Nothing ELSE PartOutput(event.parts[1])

(* The first part with audio or text is returned and those after it are not read *)
GeminiOutput(event) ==
  LET usable == {i \in DOMAIN event.parts : event.parts[i].what # "other"}
  IN  IF event.type \notin GeminiContents \/ usable = {} THEN Nothing
      ELSE PartOutput(event.parts[CHOOSE i \in usable : \A j \in usable : i <= j])

QwenDeltas == {"conversation.item.input_audio_transcription.delta",
               "conversation.item.input_audio_transcription.text",
               "response.audio_transcript.delta", "response.text.delta"}
QwenDones == {"conversation.item.input_audio_transcription.completed",
              "response.audio_transcript.done", "response.text.done"}

(* Mutant: a finished session is taken for its transcript only *)
QwenOutputSilentEnd(event) ==
  LET text == IF event.parts = <<>> THEN "" ELSE event.parts[1].text
  IN  CASE event.type \in QwenDeltas -> DeltaOutput(event, "text")
        [] event.type \in QwenDones -> Fragment(text, TRUE)
        [] event.type = "response.audio.delta" -> DeltaOutput(event, "audio")
        [] event.type = "session.finished" -> IF text = "" THEN Nothing ELSE Fragment(text, TRUE)
        [] event.type = "response.done" -> Completed
        [] event.type = "error" -> [Nothing EXCEPT !.out = "Error"]
        [] OTHER -> Nothing

(* A transcript in session.finished is a final fragment in the place of Completed *)
QwenOutput(event) ==
  LET text == IF event.parts = <<>> THEN "" ELSE event.parts[1].text
  IN  CASE event.type \in QwenDeltas -> DeltaOutput(event, "text")
        [] event.type \in QwenDones -> Fragment(text, TRUE)
        [] event.type = "response.audio.delta" -> DeltaOutput(event, "audio")
        [] event.type = "session.finished" -> IF text = "" THEN Completed ELSE Fragment(text, TRUE)
        [] event.type = "response.done" -> Completed
        [] event.type = "error" -> [Nothing EXCEPT !.out = "Error"]
        [] OTHER -> Nothing

(* A transcript that will not change: is_final or speech_final of Deepgram,*)
(* a recognized phrase of Azure. The functions return a String, which does *)
(* not say so.                                                             *)
TranscriptEnds == {"transcript.final"}
Transcripts == {"transcript"} \union TranscriptEnds

(* transcript_from_listen_message and transcript_from_recognition_message:  *)
(* the transcript of a message, unless it is empty                         *)
TranscriptOutput(event) ==
  IF event.parts = <<>> \/ event.parts[1].text = "" THEN Nothing
                                                    ELSE Fragment(event.parts[1].text, FALSE)

ToOutput(provider, event) ==
  CASE provider = "openai" -> OpenAiOutput(event)
    [] provider = "gemini" -> GeminiOutput(event)
    [] provider = "qwen" -> QwenOutput(event)
    [] provider \in {"deepgram", "azure"} -> TranscriptOutput(event)
    [] OTHER -> Nothing
=============================================================================
