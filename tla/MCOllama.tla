------------------------------ MODULE MCOllama ------------------------------
EXTENDS Ollama

(* A reply with a character that may be split, that ends with a line of    *)
(* its own; one that ends with text; and a failure after text.             *)
MCBodies ==
  { <<"token", "wide", "done">>, <<"blank", "last">>, <<"token", "error", "token">> }
=============================================================================
