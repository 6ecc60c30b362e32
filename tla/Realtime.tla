------------------------------ MODULE Realtime ------------------------------
(***************************************************************************)
(* An application that talks to a hosted provider through one of the       *)
(* mappings of ProviderEvents. The websocket of each provider keeps the    *)
(* order of events; one of the provider's that is on its way is one it has *)
(* not sent yet, as nothing it does depends on what has arrived. What a    *)
(* provider does is external: it keeps a buffer of input, takes turns from *)
(* it, and speaks. The application gives any input at any time, and may    *)
(* send on the audio it has heard, as often as it likes.                   *)
(***************************************************************************)
EXTENDS ProviderEvents, SequencesExt

CONSTANTS Providers,   \* the providers to check
          Samples,     \* levels of the application's audio
          Texts,       \* texts, the empty one among them
          MaxBuffer,   \* how many items of input the application leaves uncommitted
          MaxInFlight  \* how many client events are on their way

ASSUME RealtimeAssumption ==
  /\ Providers \subseteq DOMAIN Types
  /\ Samples \subseteq Int
  /\ MaxInFlight \in Nat \ {0}

VARIABLES provider,
          wire,     \* client events on their way
          service,  \* the provider: [buffer, turn, talking, open, finished]
          heard,    \* the last event the application got and its output
          meant,    \* history: [open, turns, taken], the input the application gave
          closing   \* history: the application has asked for the end

vars == <<provider, wire, service, heard, meant, closing>>

TypeOK ==
  /\ provider \in Providers
  /\ service.talking \in BOOLEAN /\ service.open \in BOOLEAN /\ closing \in BOOLEAN
  /\ \A i \in DOMAIN wire : \A j \in DOMAIN wire[i].audio : wire[i].audio[j] \in PcmValues
  /\ Len(wire) <= MaxInFlight

(* session_update_event, setup_message, start_message, speech_config_message *)
(* and their kin are sent before anything else                             *)
Setup == [type |-> "setup", text |-> "", audio |-> <<>>]

Silence == [type |-> "none", parts |-> <<>>]

Init ==
  /\ provider \in Providers
  /\ wire = <<Setup>>
  /\ service = [buffer |-> <<>>, turn |-> <<>>, talking |-> FALSE, open |-> TRUE, finished |-> FALSE]
  /\ heard = [event |-> Silence, output |-> Nothing]
  /\ meant = [open |-> <<>>, turns |-> <<>>, taken |-> <<>>]
  /\ closing = FALSE

----------------------------------------------------------------------------
(* What the application means by an input, in terms of the provider's      *)
(* turns. ClearOutput is about the output and takes nothing from a turn;   *)
(* that it was asked for is kept among the inputs of the turn it fell into.*)
IsItem(input) == \/ input.kind = "ToolResult"
                 \/ input.kind = "Text" /\ provider \in {"openai", "gemini", "azure"}
IsCommit(input) == \/ input.kind \in {"CommitInput", "CommitText"}
                   \/ input.kind = "Close" /\ provider = "elevenlabs"

Mean(input) ==
  CASE IsItem(input) -> [meant EXCEPT !.turns = Append(@, <<input>>)]
    [] IsCommit(input) -> [meant EXCEPT !.open = <<>>, !.turns = Append(@, meant.open)]
    [] input.kind \in {"Audio", "Text", "ClearOutput"} /\ ~IsItem(input)
         -> [meant EXCEPT !.open = Append(@, input)]
    [] OTHER -> meant

(* The application gives an input; what the mapping refuses is not sent *)
Send(input) ==
  /\ ~closing
  /\ Len(wire) < MaxInFlight
  /\ input.kind \in {"Audio", "Text", "ClearOutput"} => Len(meant.open) < MaxBuffer
  /\ LET event == ToClientEvent(provider, input)
     IN  /\ event # Unsupported
         /\ wire' = Append(wire, event)
  /\ meant' = Mean(input)
  /\ closing' = (input.kind = "Close")
  /\ UNCHANGED <<provider, service, heard>>

(* A frame of one of the levels, or the one just heard *)
SendAny ==
  LET frames == {<<s>> : s \in Samples} \union
                {f \in {heard.output.samples} : f # <<>>}
  IN  \E input \in Inputs(frames, Texts) : Send(input)

(* An event of the provider arrives: the mapping of it *)
Hear(event) ==
  /\ heard' = [event |-> event, output |-> ToOutput(provider, event)]
  /\ UNCHANGED <<provider, wire, meant, closing>>

----------------------------------------------------------------------------
(* The provider (external) *)

(* What a provider does on an event; ElevenLabs takes an empty text for    *)
(* the end of the stream                                                   *)
Effects(event) ==
  CASE event.type \in {"input_audio_buffer.append", "input_text_buffer.append",
                       "realtimeInput", "Speak"} -> {"append"}
    [] event.type = "input_audio_buffer.commit" -> {"commit"}
    [] event.type = "input_audio_buffer.clear" -> {"clear"}
    [] event.type = "conversation.item.create" -> {"item"}
    [] event.type \in {"clientContent.turns", "toolResponse", "ssml"} -> {"item", "start"}
    [] event.type \in {"clientContent.turnComplete", "input_text_buffer.commit", "Flush"}
         -> {"commit", "start"}
    [] event.type = "text" -> IF event.text = "" THEN {"commit", "start", "close"} ELSE {"append"}
    [] event.type = "response.create" -> {"start"}
    [] event.type = "response.cancel" -> {"stop"}
    [] event.type \in {"session.close", "session.finish", "Close"} -> {"close"}
    [] OTHER -> {}

Serve ==
  /\ wire # <<>>
  /\ wire' = Tail(wire)
  /\ LET event == Head(wire)
         does == Effects(event)
     IN  /\ service' =
              [service EXCEPT
                 !.buffer = CASE "append" \in does -> Append(@, event)
                              [] does \intersect {"commit", "clear"} # {} -> <<>>
                              [] OTHER -> @,
                 !.turn = CASE "commit" \in does -> service.buffer
                            [] "item" \in does -> <<event>>
                            [] OTHER -> @,
                 !.talking = (@ \/ "start" \in does) /\ "stop" \notin does,
                 !.open = @ /\ "close" \notin does]
         /\ meant' = IF does \intersect {"commit", "item"} = {} \/ meant.turns = <<>> THEN meant
                     ELSE [meant EXCEPT !.taken = Head(meant.turns), !.turns = Tail(@)]
  /\ UNCHANGED <<provider, heard, closing>>

(* The events a provider may send, with the parts each may have: audio it   *)
(* was given, audio that does not decode, texts, a field that is missing   *)
AudioParts == {AudioPart(<<>>, FALSE)} \union
              {AudioPart(item.audio, TRUE) : item \in ToSet(service.turn)}
TextParts == {TextPart(t) : t \in Texts}
OneOf(parts) == {<<p>> : p \in parts} \union {<<>>}

ServerEvents ==
  CASE provider = "openai" ->
         [type : {"response.output_audio.delta"}, parts : OneOf(AudioParts)] \union
         [type : {"response.output_text.delta", "response.output_audio_transcript.delta"},
          parts : OneOf(TextParts)] \union
         [type : OpenAiDones \union {"response.done", "response.function_call_arguments.done"},
          parts : {<<>>}]
    [] provider = "gemini" ->
         [type : GeminiContents,
          parts : OneOf(AudioParts \union TextParts) \union
                  {<<p, q>> : p \in AudioParts \union TextParts \union {OtherPart}, q \in TextParts}]
    [] provider = "qwen" ->
         [type : {"response.audio.delta"}, parts : OneOf(AudioParts)] \union
         [type : QwenDeltas \union QwenDones, parts : OneOf(TextParts)] \union
         [type : {"response.done", "error"}, parts : {<<>>}]
    [] OTHER -> {}

(* After these the provider has no more to say *)
LastEvents == {"response.done", "serverContent.turnComplete", "serverContent.interrupted"}

(* A response, until it is done or cancelled *)
Respond ==
  /\ service.talking /\ service.open
  /\ \E event \in ServerEvents :
        /\ Hear(event)
        /\ service' = [service EXCEPT !.talking = (event.type \notin LastEvents)]

(* A session of Qwen that was asked to finish *)
FinishSession ==
  /\ provider = "qwen" /\ ~service.open /\ ~service.finished
  /\ \E parts \in OneOf(TextParts) : Hear([type |-> "session.finished", parts |-> parts])
  /\ service' = [service EXCEPT !.finished = TRUE]

(* A message of a transcript service, ones without text included *)
Listen ==
  /\ provider \in {"deepgram", "azure"}
  /\ \E event \in [type : Transcripts, parts : OneOf(TextParts)] : Hear(event)
  /\ UNCHANGED service

Next == SendAny \/ Serve \/ Respond \/ FinishSession \/ Listen

Spec == Init /\ [][Next]_vars

----------------------------------------------------------------------------
(* The turns the provider takes are the application's: each holds what was *)
(* put in since the one before, in order and once, and the audio of each   *)
(* is next to the application's, whatever was refused, committed twice or  *)
(* sent on from what was heard; what is not committed yet waits in the     *)
(* provider's buffer (input_to_client_event, input_to_client_message,      *)
(* qwen_*_event, samples_to_pcm16_le). Of a turn in which the application  *)
(* has asked OpenAI to clear the output nothing is said: what is sent for  *)
(* it is input_audio_buffer.clear, and the input is lost.                  *)
SameItem(event, input) ==
  /\ event.text = input.text
  /\ Len(event.audio) = Len(input.samples)
  /\ \A k \in DOMAIN event.audio : Near(event.audio[k], input.samples[k])

Cleared(inputs) == \E j \in DOMAIN inputs : inputs[j].kind = "ClearOutput"

SameTurn(turn, inputs) ==
  \/ Cleared(inputs)
  \/ /\ Len(turn) = Len(inputs)
     /\ \A j \in DOMAIN turn : SameItem(turn[j], inputs[j])

TurnsAsMeant ==
  /\ SameTurn(service.turn, meant.taken)
  /\ wire = <<>> => meant.turns = <<>> /\ SameTurn(service.buffer, meant.open)

(* The application hears what an event of the provider says: the first of  *)
(* its parts with audio or text, unless it does not decode, and of a       *)
(* transcript service only what has text; an event that says nothing is    *)
(* not turned into a sound or a text (server_event_to_output,              *)
(* server_message_to_output, qwen_server_event_to_output and the           *)
(* transcript functions).                                                  *)
HeardEnds == {"response.done", "session.finished"} \union QwenDones
Ends == HeardEnds \union OpenAiDones \union GeminiEnds \union TranscriptEnds

FirstUsable(parts) == SelectInSeq(parts, LAMBDA p : p.what # "other")

Said(event) ==
  LET k == FirstUsable(event.parts)
      first == IF k = 0 THEN OtherPart ELSE event.parts[k]
  IN  IF \/ event.type \in HeardEnds \/ ~first.ok
         \/ provider \in {"deepgram", "azure"} /\ first.text = ""
        THEN OtherPart
        ELSE first

HeardAsSaid ==
  LET said == Said(heard.event)
      output == heard.output
  IN  CASE said.what = "audio" ->
             /\ output.out = "Audio"
             /\ output.samples = [i \in DOMAIN said.audio |-> FromPcm(said.audio[i])]
        [] said.what = "text" ->
             output.out = "TranscriptFragment" /\ output.text = said.text /\ ~output.final
        [] OTHER -> output.out # "Audio" /\ (output.out = "TranscriptFragment" => output.final)

(* What the application is told is an end, of a text, a response or a      *)
(* session, is one the provider has told of, with the transcript that      *)
(* comes with it; and it is told of the ends of a response of OpenAI and   *)
(* of a text, response or session of Qwen, as a final fragment or as a     *)
(* completed response (qwen_server_event_to_output,                        *)
(* server_event_to_output). It is not told of the other ends, among them   *)
(* all those of Gemini Live and of the transcript services.                *)
EndsHeard ==
  LET told == heard.output.final \/ heard.output.out = "ResponseCompleted"
  IN  /\ told => heard.event.type \in Ends
      /\ heard.event.type \in HeardEnds => told
      /\ told /\ heard.event.parts # <<>> => heard.output.text = heard.event.parts[1].text

(* A provider ends the stream when the application has asked for it, never *)
(* because of a text it was to speak (text_message).                       *)
ClosedOnRequest == ~service.open => closing

(* However often audio is sent on from one provider to the next, what is   *)
(* spoken is on the side of zero of what the application gave, no louder   *)
(* than the loudest, and silence is silence; above half of full scale it   *)
(* may fade, down to half and no further (samples_to_pcm16_le and          *)
(* pcm16_le_to_samples).                                                   *)
RelayKeepsLevel ==
  \A item \in ToSet(service.turn) : \A k \in DOMAIN item.audio :
     \E s \in Samples :
        LET p == item.audio[k]
            q == ToPcm(s)
        IN  IF 2 * q <= FullScale THEN p = q ELSE p <= q /\ 2 * p >= FullScale
=============================================================================
