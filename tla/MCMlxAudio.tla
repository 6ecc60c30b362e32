----------------------------- MODULE MCMlxAudio -----------------------------
(***************************************************************************)
(* The two uses of MlxAudioEngine (vona-mlx/src/lib.rs) for TLC: its steps *)
(* as a SpeechToSpeechBackend, and a transcription session it streams to.  *)
(* The engine is shared by reference and neither use changes it, so that   *)
(* each is checked while the other has not begun.                          *)
(***************************************************************************)
EXTENDS MCMlxTurn, MCStreamingStt

(* The caller makes no further step. *)
Rest ==
  /\ at = "over" \/ (at = "idle" /\ Len(turns) = MaxTurns)
  /\ UNCHANGED vars

AudioNext ==
  \/ SttInit /\ (Next \/ Rest) /\ UNCHANGED sttVars
  \/ at = "loading" /\ SttNext /\ UNCHANGED vars

AudioInit == Init /\ SttInit

AudioSpec == AudioInit /\ [][AudioNext]_<<vars, sttVars>>
=============================================================================
