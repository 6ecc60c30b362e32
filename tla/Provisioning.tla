---------------------------- MODULE Provisioning ----------------------------
(***************************************************************************)
(* HttpModelProvisioner::provision_missing on a model cache shared by its  *)
(* callers (vona-model-provisioning/src/lib.rs).  A call is interrupted at *)
(* every await on the file system or the network, by other callers, by an  *)
(* error or by the exit of its process.                                    *)
(*                                                                         *)
(* The file system keeps files apart from paths: an open file is written   *)
(* wherever a rename has moved it.                                         *)
(***************************************************************************)
EXTENDS Naturals, Sequences, SequencesExt

CONSTANTS
  Callers,    \* the tasks that call provision_missing
  Process,    \* the process of each caller
  Manifest,   \* the artifacts of the manifest, in order
  Checked,    \* the artifacts with a sha256
  Chunks,     \* chunks in the body of an artifact
  MaxFiles,   \* bounds the files ever created
  MaxCalls    \* bounds the calls of each caller

Artifact  == ToSet(Manifest)
Processes == {Process[c] : c \in Callers}
File      == 1..(Len(Manifest) + MaxFiles)
NoFile    == 0
Block     == {"good", "bad", "hole"}

ASSUME ProvisioningAssumption ==
  /\ Manifest \in Seq(Artifact)
  /\ Chunks \in Nat \ {0}
  /\ MaxFiles \in Nat
  /\ MaxCalls \in Nat
  /\ Checked \subseteq Artifact

VARIABLES
  content,   \* what each file holds, chunk by chunk
  artifact,  \* the file at each artifact's path, or NoFile
  temp,      \* the file at each temporary path, or NoFile
  at,        \* the await each caller is at
  present,   \* plan.present, what is left to verify
  todo,      \* to_download, what is left of it
  open,      \* the file a download has open
  hasher,    \* the chunks a download has received
  result     \* what each caller's latest call returned

VARIABLES    \* history, and the counters of the bounds
  created,   \* files created so far
  calls,     \* calls so far, per caller
  standing   \* callers whose latest call no other has overlapped, and after
             \* which none has failed to read an artifact

disk   == <<content, artifact, temp, created>>
caller == <<at, present, todo, open, hasher, result>>
vars   == <<disk, caller, calls, standing>>

Expected == [i \in 1..Chunks |-> "good"]

(* Files that were in the cache before the first call. *)
Foreign == 1..Len(Manifest)

TypeOK ==
  /\ content \in [File -> BoundedSeq(Block, Chunks)]
  /\ artifact \in [Artifact -> File \cup {NoFile}]
  /\ temp \in [Artifact \X Processes -> File \cup {NoFile}]
  /\ at \in [Callers -> {"idle", "verify", "remove", "discard", "create", "stream", "rename"}]
  /\ present \in [Callers -> BoundedSeq(Artifact, Len(Manifest))]
  /\ todo \in [Callers -> BoundedSeq(Artifact, Len(Manifest))]
  /\ open \in [Callers -> File \cup {NoFile}]
  /\ hasher \in [Callers -> BoundedSeq({"good", "bad"}, Chunks)]
  /\ result \in [Callers -> {"none", "ok", "error"}]
  /\ created \in 0..MaxFiles
  /\ calls \in [Callers -> 0..MaxCalls]
  /\ standing \subseteq Callers

(* The cache is empty, or holds files of any content put there by others.  *)
Init ==
  /\ artifact \in {f \in [Artifact -> Foreign \cup {NoFile}] :
                    \A i \in Foreign : f[Manifest[i]] \in {i, NoFile}}
  /\ content \in {f \in [File -> {<<>>, Expected, <<"bad">>}] :
                    \A i \in File : i \notin Foreign \/ artifact[Manifest[i]] = NoFile
                                   => f[i] = <<>>}
  /\ temp = [t \in Artifact \X Processes |-> NoFile]
  /\ at = [c \in Callers |-> "idle"]
  /\ present = [c \in Callers |-> <<>>]
  /\ todo = [c \in Callers |-> <<>>]
  /\ open = [c \in Callers |-> NoFile]
  /\ hasher = [c \in Callers |-> <<>>]
  /\ result = [c \in Callers |-> "none"]
  /\ created = 0
  /\ calls = [c \in Callers |-> 0]
  /\ standing = {}

-----------------------------------------------------------------------------
Running == {c \in Callers : at[c] # "idle"}

(* Some artifacts, in the order of the manifest. *)
InOrder(S) ==
  LET listed[i \in 0..Len(Manifest)] ==
        IF i = 0 THEN <<>>
        ELSE IF Manifest[i] \in S THEN Append(listed[i - 1], Manifest[i])
             ELSE listed[i - 1]
  IN  listed[Len(Manifest)]

(* ModelCache::inspect *)
Present == InOrder({a \in Artifact : artifact[a] # NoFile})
Missing == InOrder({a \in Artifact : artifact[a] = NoFile})

Goto(c, await) == at' = [at EXCEPT ![c] = await]

Call(c) ==
  /\ at[c] = "idle"
  /\ calls[c] < MaxCalls
  /\ calls' = [calls EXCEPT ![c] = @ + 1]
  /\ present' = [present EXCEPT ![c] = Present]
  /\ todo' = [todo EXCEPT ![c] = Missing]
  /\ result' = [result EXCEPT ![c] = "none"]
  /\ standing' = IF Running = {} THEN standing \cup {c} ELSE standing \ (Running \cup {c})
  /\ Goto(c, "verify")
  /\ UNCHANGED <<disk, open, hasher>>

Return(c, r) ==
  /\ Goto(c, "idle")
  /\ result' = [result EXCEPT ![c] = r]
  /\ open' = [open EXCEPT ![c] = NoFile]
  /\ UNCHANGED <<present, todo, hasher, calls>>

(* Mutant: an artifact in the cache counts as verified. *)
MismatchIgnored(a) == FALSE

(* verify_size, verify_sha256 *)
Mismatch(a) == a \in Checked /\ content[artifact[a]] # Expected

(* verify_artifact_file on the next present artifact, which may have been  *)
(* removed meanwhile, or fail to be read for any other reason.             *)
Verify(c) ==
  /\ at[c] = "verify"
  /\ present[c] # <<>>
  /\ LET a == Head(present[c]) IN
       \/ /\ Goto(c, "discard")
          /\ UNCHANGED present
       \/ /\ artifact[a] # NoFile
          /\ Mismatch(a)
          /\ Goto(c, "remove")
          /\ UNCHANGED present
       \/ /\ artifact[a] # NoFile
          /\ ~Mismatch(a)
          /\ present' = [present EXCEPT ![c] = Tail(@)]
          /\ UNCHANGED at
  /\ UNCHANGED <<disk, todo, open, hasher, result, calls, standing>>

(* remove_file on whatever is at the path by now; its error is ignored.    *)
RemoveFile(a) ==
  /\ artifact' \in {[artifact EXCEPT ![a] = NoFile], artifact}
  /\ UNCHANGED <<content, temp, created>>

(* The file does not match: it is removed and downloaded again. *)
RemoveMismatched(c) ==
  /\ at[c] = "remove"
  /\ RemoveFile(Head(present[c]))
  /\ present' = [present EXCEPT ![c] = Tail(@)]
  /\ todo' = [todo EXCEPT ![c] = Append(@, Head(present[c]))]
  /\ Goto(c, "verify")
  /\ UNCHANGED <<open, hasher, result, calls, standing>>

(* The file could not be read: it is removed all the same. *)
Discard(c) ==
  /\ at[c] = "discard"
  /\ RemoveFile(Head(present[c]))
  /\ standing' = {}
  /\ Return(c, "error")

AllVerified(c) ==
  /\ at[c] = "verify"
  /\ present[c] = <<>>
  /\ \/ /\ todo[c] = <<>>
        /\ Return(c, "ok")
        /\ UNCHANGED standing
     \/ /\ todo[c] # <<>>
        /\ Goto(c, "create")
        /\ UNCHANGED <<present, todo, open, hasher, result, calls, standing>>
  /\ UNCHANGED disk

-----------------------------------------------------------------------------
(* Mutant: the temporary name does not tell processes apart. *)
TempPathShared(c) == <<Head(todo[c]), Process[CHOOSE d \in Callers : TRUE]>>

(* path.with_extension("<pid>.tmp") *)
TempPath(c) == <<Head(todo[c]), Process[c]>>

(* File::create: a new file, or the one that is there, truncated. *)
Create(c) ==
  /\ at[c] = "create"
  /\ \/ /\ temp[TempPath(c)] = NoFile
        /\ created < MaxFiles
        /\ created' = created + 1
        /\ open' = [open EXCEPT ![c] = Len(Manifest) + created + 1]
     \/ /\ temp[TempPath(c)] # NoFile
        /\ open' = [open EXCEPT ![c] = temp[TempPath(c)]]
        /\ UNCHANGED created
  /\ temp' = [temp EXCEPT ![TempPath(c)] = open'[c]]
  /\ content' = [content EXCEPT ![open'[c]] = <<>>]
  /\ hasher' = [hasher EXCEPT ![c] = <<>>]
  /\ Goto(c, "stream")
  /\ UNCHANGED <<artifact, present, todo, result, calls, standing>>

(* A write at the position of the open file, past the end of one that was  *)
(* truncated in between.                                                   *)
WriteAt(blocks, i, b) ==
  [k \in 1..Max({i, Len(blocks)}) |->
    IF k = i THEN b ELSE IF k <= Len(blocks) THEN blocks[k] ELSE "hole"]

(* The next chunk of the body, which may not be what the manifest expects. *)
Receive(c) ==
  /\ at[c] = "stream"
  /\ Len(hasher[c]) < Chunks
  /\ \E b \in {"good", "bad"} :
       /\ hasher' = [hasher EXCEPT ![c] = Append(@, b)]
       /\ content' = [content EXCEPT ![open[c]] = WriteAt(@, Len(hasher'[c]), b)]
  /\ UNCHANGED <<artifact, temp, created, at, present, todo, open, result, calls, standing>>

(* verify_size and verify_sha256 on what was received *)
DigestOk(c) == Head(todo[c]) \in Checked => hasher[c] = Expected

(* The body is complete. *)
EndOfBody(c) ==
  /\ at[c] = "stream"
  /\ Len(hasher[c]) = Chunks
  /\ \/ /\ DigestOk(c)
        /\ Goto(c, "rename")
        /\ UNCHANGED <<present, todo, open, hasher, result, calls, standing>>
     \/ /\ ~DigestOk(c)
        /\ Return(c, "error")
        /\ UNCHANGED standing
  /\ UNCHANGED disk

Rename(c) ==
  /\ at[c] = "rename"
  /\ temp[TempPath(c)] # NoFile
  /\ artifact' = [artifact EXCEPT ![Head(todo[c])] = temp[TempPath(c)]]
  /\ temp' = [temp EXCEPT ![TempPath(c)] = NoFile]
  /\ todo' = [todo EXCEPT ![c] = Tail(@)]
  /\ open' = [open EXCEPT ![c] = NoFile]
  /\ \/ /\ todo'[c] = <<>>
        /\ Goto(c, "idle")
        /\ result' = [result EXCEPT ![c] = "ok"]
     \/ /\ todo'[c] # <<>>
        /\ Goto(c, "create")
        /\ UNCHANGED result
  /\ UNCHANGED <<content, created, present, hasher, calls, standing>>

(* An I/O or HTTP error, a missing source_url, or a temporary file that is *)
(* no longer there.  What was written stays.                               *)
DownloadFails(c) ==
  /\ at[c] \in {"create", "stream", "rename"}
  /\ Return(c, "error")
  /\ UNCHANGED <<disk, standing>>

(* The process exits; its temporary files stay. *)
Exit(p) ==
  /\ \E c \in Running : Process[c] = p
  /\ at' = [c \in Callers |-> IF Process[c] = p THEN "idle" ELSE at[c]]
  /\ open' = [c \in Callers |-> IF Process[c] = p THEN NoFile ELSE open[c]]
  /\ UNCHANGED <<disk, present, todo, hasher, result, calls, standing>>

-----------------------------------------------------------------------------
Step(c) ==
  \/ Verify(c) \/ RemoveMismatched(c) \/ Discard(c) \/ AllVerified(c)
  \/ Create(c) \/ Receive(c) \/ EndOfBody(c) \/ Rename(c) \/ DownloadFails(c)

Next == \/ \E c \in Callers : Call(c) \/ Step(c)
        \/ \E p \in Processes : Exit(p)

Spec == Init /\ [][Next]_vars

-----------------------------------------------------------------------------
(* An artifact's path never shows a file that is still being written, or   *)
(* one that was downloaded and not verified, even after a crash.           *)
PublishedWhole ==
  \A a \in Artifact : artifact[a] \notin Foreign \cup {NoFile} =>
    /\ Len(content[artifact[a]]) = Chunks
    /\ \A i \in 1..Chunks : content[artifact[a]][i] # "hole"
    /\ a \in Checked => content[artifact[a]] = Expected

(* A call that no other call overlapped and that returned Ok has left      *)
(* every artifact in place, and the ones with a checksum intact; of the    *)
(* calls made since, only one that could not read a file may have removed  *)
(* it, and has returned an error.                                          *)
OkMeansReady ==
  \A c \in standing : result[c] = "ok" /\ Running = {} =>
    \A a \in Artifact :
      /\ artifact[a] # NoFile
      /\ a \in Checked => content[artifact[a]] = Expected
=============================================================================
