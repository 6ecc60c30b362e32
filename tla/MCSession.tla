----------------------------- MODULE MCSession -----------------------------
(***************************************************************************)
(* Session for TLC.  The steps a backend may return: none to two frames,   *)
(* none to two control events with at least one interruption or skill call *)
(* when there are two, so that clears, calls and sends meet in one step.   *)
(***************************************************************************)
EXTENDS Session

Audios == {<<>>, <<"silent">>, <<"silent", "voiced">>}

EventLists == {<<>>, <<"TranscriptFragment">>, <<"SkillCall">>,
               <<"Interruption">>, <<"SkillCall", "SkillCall">>,
               <<"SkillCall", "Interruption">>, <<"Interruption", "SkillCall">>}

Steps == [audio : Audios, events : EventLists, progress : {"more"}]
           \cup [audio : {<<"voiced">>}, events : {<<"SkillCall">>}, progress : {"finished"}]
=============================================================================
