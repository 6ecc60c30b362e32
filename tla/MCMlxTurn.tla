----------------------------- MODULE MCMlxTurn -----------------------------
(***************************************************************************)
(* MlxTurn for TLC.  Of two words one begins the other.  The directories   *)
(* are the two provisioned ones and each of them with one file missing,    *)
(* damaged or quantized, or with a tokenizer.json too many.                *)
(***************************************************************************)
EXTENDS MlxTurn

Two     == {"the", "there"}
Prefix  == {<<"the", "there">>}
Periods == {"."}
Tokens  == Piece \ {Blank}

Plain(word) == [word |-> word, mark |-> ""]

Injected ==
  { [source |-> "reply", summary |-> <<Plain("the")>>, payload |-> <<>>],
    [source |-> "tts", summary |-> <<Plain("the")>>, payload |-> <<Plain("there"), Plain("the")>>],
    [source |-> "tts", summary |-> <<Plain("the")>>, payload |-> <<>>],
    [source |-> "other", summary |-> <<Plain("the")>>, payload |-> <<Plain("the")>>] }

Full(manifest) ==
  [content |-> [f \in manifest |-> "good"], shards |-> {"model.safetensors"}]

Without(dir, file) ==
  [dir EXCEPT !.content = [f \in DOMAIN dir.content \ {file} |-> dir.content[f]]]

With(dir, file, state) ==
  [dir EXCEPT !.content = [f \in DOMAIN dir.content \cup {file} |->
                             IF f = file THEN state ELSE dir.content[f]]]

Variants(dir) ==
  {dir} \cup {Without(dir, f) : f \in DOMAIN dir.content}
    \cup {With(dir, f, "bad") : f \in DOMAIN dir.content \cup {"tokenizer.json", Index}}
    \cup {With(dir, "model.safetensors", "quantized")}

(* A vocoder with an upsampling by 2 and blocks with kernels of 4, 5 and 1,*)
(* and one without its second block.                                       *)
Net ==
  [quantizers |-> 2, heads |-> 2, kvHeads |-> 1, divisor |-> 2, layers |-> {0}, pre |-> 3,
   upsample |-> (0 :> [kernel |-> 2, depthwise |-> 3]),
   blocks |-> (1 :> [kernel |-> 4, unit |-> 2, mix |-> 1])
              @@ (2 :> [kernel |-> 5, unit |-> 3, mix |-> 2])
              @@ (3 :> [kernel |-> 1, unit |-> 1, mix |-> 1]),
   convs |-> (0 :> 3) @@ (5 :> 2), snakes |-> {4}]

Gap == [Net EXCEPT !.blocks = [i \in {1, 3} |-> Net.blocks[i]]]

Nets == {Net, Gap}

Mixed ==
  { [features |-> {"sameWidth", "codes", "eos"}, net |-> Net],
    [features |-> {"codes", "eos"}, net |-> Gap],
    [features |-> {"eos"}, net |-> Net] }

WhisperModels == Variants(Full(WhisperManifest))
QwenModels    == Variants(Full(QwenManifest))
=============================================================================
