---------------------------- MODULE SpeechModels ----------------------------
(***************************************************************************)
(* What a directory of model files must hold for the native speech models  *)
(* to load from it (vona-mlx-speech, vona-mlx-whisper, vona-mlx-qwen3-tts),*)
(* and what the manifests of vona-model-provisioning put there.            *)
(*                                                                         *)
(* A directory is a record: content gives the state of each file that is   *)
(* there, and shards the files its weight index names.  A file is good, or *)
(* bad when it cannot be read or parsed; a good file of weights may also   *)
(* be quantized.                                                           *)
(***************************************************************************)
EXTENDS FiniteSets

Content == {"good", "bad", "quantized"}

Index == "model.safetensors.index.json"

Has(dir, file)  == file \in DOMAIN dir.content
Good(dir, file) == Has(dir, file) /\ dir.content[file] = "good"

(* A file that need not be there, but is read if it is. *)
Optional(dir, file) == Has(dir, file) => Good(dir, file)

(* load_safetensors: every file is opened and read to its last tensor. *)
Readable(dir, files) == \A f \in files : Has(dir, f) /\ dir.content[f] # "bad"

(* The index wins over a single file of weights. *)
WeightFiles(dir) ==
  IF Has(dir, Index) THEN dir.shards ELSE {"model.safetensors"}

Discovered(dir) ==
  /\ Has(dir, "config.json")
  /\ Optional(dir, Index)
  /\ Has(dir, Index) \/ Has(dir, "model.safetensors")

-----------------------------------------------------------------------------
(* WhisperSpeechModel::load.  The tokenizer may be missing here; transcribe*)
(* is where it is missed.                                                  *)
WhisperLoads(dir) ==
  /\ Discovered(dir)
  /\ Good(dir, "config.json")
  /\ Optional(dir, "generation_config.json")
  /\ Optional(dir, "tokenizer.json")
  /\ Readable(dir, WeightFiles(dir))

(* What a loaded Whisper can draw on. *)
WhisperFeatures(dir) ==
  {"whisper"} \cup (IF Has(dir, "tokenizer.json") THEN {"tokenizer"} ELSE {})
    \cup (IF Has(dir, "generation_config.json") THEN {"suppress"} ELSE {})

(* Mutant: only tokenizer.json will do. *)
QwenTokenizerJson(dir) == Good(dir, "tokenizer.json")

(* load_qwen_tokenizer: tokenizer.json if it is there, else the three      *)
(* files it can be put together from.                                      *)
QwenTokenizer(dir) ==
  \/ Good(dir, "tokenizer.json")
  \/ /\ ~Has(dir, "tokenizer.json")
     /\ \A f \in {"vocab.json", "merges.txt", "tokenizer_config.json"} : Good(dir, f)

Vocoder == "speech_tokenizer/model.safetensors"

(* Qwen3TtsSpeechModel::load: a quantized file of weights is refused.  The *)
(* vocoder may be missing here; synthesize misses it.                      *)
QwenLoads(dir) ==
  /\ Discovered(dir)
  /\ Good(dir, "config.json")
  /\ QwenTokenizer(dir)
  /\ \A f \in WeightFiles(dir) : Good(dir, f)
  /\ Has(dir, Vocoder) => Readable(dir, {Vocoder})

QwenFeatures(dir) ==
  {"qwen"} \cup (IF Has(dir, Vocoder) THEN {"vocoder"} ELSE {})

-----------------------------------------------------------------------------
WhisperManifest ==
  {"config.json", "generation_config.json", "model.safetensors",
   "normalizer.json", "preprocessor_config.json", "special_tokens_map.json",
   "tokenizer.json", "tokenizer_config.json", "vocab.json"}

QwenManifest ==
  {"config.json", "generation_config.json", "merges.txt",
   "model.safetensors", "model.safetensors.index.json",
   "preprocessor_config.json", "speech_tokenizer/config.json",
   "speech_tokenizer/configuration.json", "speech_tokenizer/model.safetensors",
   "speech_tokenizer/preprocessor_config.json", "tokenizer_config.json",
   "vocab.json"}

(* A directory that provisioning has filled: it holds the files of the     *)
(* manifest, as the hub has them.                                          *)
Provisioned(dir, manifest) ==
  /\ manifest \subseteq DOMAIN dir.content
  /\ dir.shards \subseteq manifest
  /\ \A f \in DOMAIN dir.content : Good(dir, f)
=============================================================================
