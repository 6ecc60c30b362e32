--------------------------- MODULE MCStreamingStt ---------------------------
(* A vocabulary for StreamingStt: "The" differs from "the" by a capital,   *)
(* "there" begins with it.                                                 *)
EXTENDS StreamingStt

MCTexts    == {<<>>, <<"the">>, <<"there">>, <<"the", "end">>, <<"The", "end">>}
MCSameWord == {<<"the", "The">>, <<"The", "the">>}
MCOpens    == {<<"the", "there">>}
=============================================================================
