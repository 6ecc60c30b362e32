------------------------- MODULE ProvisioningProofs -------------------------
(***************************************************************************)
(* Theorems about Provisioning: what a path of the cache may show, and what*)
(* Ok promises.                                                            *)
(***************************************************************************)
EXTENDS Provisioning, FiniteInduction

(* A sequence with one more element. *)
LEMMA AppendHas ==
  ASSUME NEW S, NEW s \in Seq(S), NEW e \in S
  PROVE  /\ Append(s, e) \in Seq(S)
         /\ Len(Append(s, e)) = Len(s) + 1
         /\ ToSet(Append(s, e)) = ToSet(s) \cup {e}
<1>1. /\ Len(Append(s, e)) = Len(s) + 1
      /\ Append(s, e)[Len(s) + 1] = e
      /\ \A i \in 1..Len(s) : Append(s, e)[i] = s[i]
  OBVIOUS
<1>2. /\ DOMAIN s = 1..Len(s) /\ DOMAIN Append(s, e) = 1..Len(s) + 1
      /\ Len(s) \in Nat
  OBVIOUS
<1> DEFINE t == Append(s, e)
<1>3. t \in Seq(S)
  OBVIOUS
<1> HIDE DEF t
<1>4. ASSUME NEW x \in ToSet(t) PROVE x \in ToSet(s) \cup {e}
  BY <1>1, <1>2 DEF ToSet, t
<1>5. ToSet(s) \subseteq ToSet(t)
  BY <1>1, <1>2 DEF ToSet, t
<1>6. e \in ToSet(t)
  BY <1>1, <1>2 DEF ToSet, t
<1> QED
  BY <1>1, <1>3, <1>4, <1>5, <1>6 DEF t

(* A sequence without its first element. *)
LEMMA TailHas ==
  ASSUME NEW S, NEW s \in Seq(S), s # <<>>
  PROVE  /\ Head(s) \in S /\ Tail(s) \in Seq(S)
         /\ Len(Tail(s)) = Len(s) - 1
         /\ ToSet(s) \subseteq ToSet(Tail(s)) \cup {Head(s)}
<1>1. /\ Head(s) = s[1] /\ Head(s) \in S /\ Tail(s) \in Seq(S)
      /\ Len(s) \in Nat /\ Len(s) >= 1
      /\ Len(Tail(s)) = Len(s) - 1
      /\ \A i \in 1..(Len(s) - 1) : Tail(s)[i] = s[i + 1]
  OBVIOUS
<1>2. DOMAIN s = 1..Len(s) /\ DOMAIN Tail(s) = 1..(Len(s) - 1)
  OBVIOUS
<1> DEFINE t == Tail(s)
<1> HIDE DEF t
<1>3. ASSUME NEW i \in DOMAIN s PROVE s[i] \in ToSet(t) \cup {Head(s)}
  <2>1. CASE i = 1
    BY <2>1, <1>1
  <2>2. CASE i # 1
    <3>1. i - 1 \in 1..(Len(s) - 1) /\ s[i] = t[i - 1]
      BY <1>1, <1>2, <2>2 DEF t
    <3> QED
      BY <3>1, <1>2 DEF ToSet, t
  <2> QED
    BY <2>1, <2>2
<1> QED
  BY <1>1, <1>3 DEF ToSet, t

(* A sequence of no length is the empty one. *)
LEMMA EmptySequence == ASSUME NEW S, NEW s \in Seq(S), Len(s) = 0 PROVE s = <<>>
  OBVIOUS

(* A plan, as the recursion that defines it. *)
LEMMA InOrderSteps ==
  ASSUME NEW S
  PROVE  \E g \in [0..Len(Manifest) -> Seq(Artifact)] :
           /\ g[0] = <<>>
           /\ \A k \in 1..Len(Manifest) :
                g[k] = IF Manifest[k] \in S THEN Append(g[k - 1], Manifest[k]) ELSE g[k - 1]
           /\ InOrder(S) = g[Len(Manifest)]
<1> DEFINE m == Len(Manifest)
           T == Seq(Artifact)
           F == [k \in 1..m |-> [s \in T |-> IF Manifest[k] \in S THEN Append(s, Manifest[k]) ELSE s]]
           a == <<>>
<1>1. m \in Nat /\ \A k \in 1..m : Manifest[k] \in Artifact
  BY ProvisioningAssumption
<1>2. PICK g \in [0..m -> T] : g[0] = <<>> /\ \A k \in 1..m : g[k] = F[k][g[k - 1]]
  <2>1. F \in [1..m -> [T -> T]] /\ a \in T
    BY <1>1
  <2> HIDE DEF F, T, a, m
  <2>2. Iterates(T, m, a, F) # {}
    BY <1>1, <2>1, Recursion
  <2> QED
    BY <2>2 DEF a, Iterates
<1>3. ASSUME NEW k \in 1..m
      PROVE  g[k] = IF Manifest[k] \in S THEN Append(g[k - 1], Manifest[k]) ELSE g[k - 1]
  <2>1. k - 1 \in 0..m /\ g[k - 1] \in T
    BY <1>1
  <2>2. F[k][g[k - 1]] = IF Manifest[k] \in S THEN Append(g[k - 1], Manifest[k]) ELSE g[k - 1]
    BY <2>1
  <2> QED
    BY <1>2, <2>2
<1> DEFINE Body(f, k) == IF k = 0 THEN <<>>
                         ELSE IF Manifest[k] \in S THEN Append(f[k - 1], Manifest[k])
                              ELSE f[k - 1]
           h == CHOOSE h : h = [k \in 0..m |-> Body(h, k)]
<1>4. InOrder(S) = h[m]
  BY DEF InOrder
<1>5. \A k \in 0..m : g[k] = Body(g, k)
  <2>1. g[0] = Body(g, 0)
    BY <1>2
  <2>2. ASSUME NEW k \in 1..m PROVE g[k] = Body(g, k)
    <3>1. k # 0
      BY <1>1
    <3> QED
      BY <1>3, <3>1
  <2> HIDE DEF Body, m, F, T
  <2>3. \A k \in 0..m : k = 0 \/ k \in 1..m
    BY <1>1
  <2> QED
    BY <2>1, <2>2, <2>3
<1>6. h = [k \in 0..m |-> Body(h, k)]
  <2> HIDE DEF Body, m, F, T
  <2>1. g = [k \in 0..m |-> Body(g, k)]
    BY <1>2, <1>5
  <2> QED
    BY <2>1
<1>7. /\ h[0] = <<>>
      /\ \A k \in 1..m : h[k] = IF Manifest[k] \in S THEN Append(h[k - 1], Manifest[k]) ELSE h[k - 1]
  <2>1. \A k \in 0..m : h[k] = Body(h, k)
    <3> HIDE DEF Body, m, h
    <3> QED
      BY <1>6
  <2>2. 0 \in 0..m /\ \A k \in 1..m : k \in 0..m /\ k # 0
    <3> HIDE DEF m, Body, h
    <3> QED
      BY <1>1
  <2> HIDE DEF h
  <2> QED
    BY <2>1, <2>2
<1> HIDE DEF h, F
<1> DEFINE Good == {k \in 0..m : h[k] \in T}
<1>8. 0..m \subseteq Good
  <2>1. 0 \in Good
    <3> HIDE DEF m
    <3> QED
      BY <1>1, <1>7
  <2>2. ASSUME NEW k \in 1..m, k - 1 \in Good PROVE k \in Good
    <3>1. k \in 0..m /\ h[k - 1] \in T /\ Manifest[k] \in Artifact
      <4> HIDE DEF m, T
      <4> QED
        BY <1>1, <2>2
    <3>2. Append(h[k - 1], Manifest[k]) \in T
      <4> HIDE DEF m
      <4> QED
        BY <3>1
    <3>3. h[k] \in T
      <4> HIDE DEF m, T
      <4> QED
        BY <1>7, <3>1, <3>2
    <3> QED
      BY <3>1, <3>3
  <2> HIDE DEF Good, m
  <2> QED
    BY <1>1, <2>1, <2>2, UpTo
<1>9. h \in [0..m -> T]
  <2>1. \A k \in 0..m : h[k] \in T
    BY <1>8
  <2> HIDE DEF m, Body, T
  <2> QED
    BY <2>1, <1>6
<1> QED
  BY <1>4, <1>7, <1>9

(* A plan lists what it is of, and nothing beyond the manifest. *)
LEMMA Listed ==
  ASSUME NEW S
  PROVE  /\ InOrder(S) \in Seq(Artifact)
         /\ ToSet(InOrder(S)) = Artifact \cap S
<1> DEFINE m == Len(Manifest)
<1>1. PICK g \in [0..m -> Seq(Artifact)] :
           /\ g[0] = <<>>
           /\ \A k \in 1..m :
                g[k] = IF Manifest[k] \in S THEN Append(g[k - 1], Manifest[k]) ELSE g[k - 1]
           /\ InOrder(S) = g[m]
  BY InOrderSteps
<1>2. m \in Nat /\ \A k \in 1..m : Manifest[k] \in Artifact
  BY ProvisioningAssumption
<1>3. Artifact = {Manifest[i] : i \in 1..m}
  BY ProvisioningAssumption DEF Artifact, ToSet
<1> HIDE DEF m
<1> DEFINE Good == {k \in 0..m : ToSet(g[k]) = {Manifest[i] : i \in 1..k} \cap S}
<1>4. 0..m \subseteq Good
  <2>1. 0 \in Good
    BY <1>1, <1>2 DEF ToSet
  <2>2. ASSUME NEW k \in 1..m, k - 1 \in Good PROVE k \in Good
    <3>1. k - 1 \in 0..m /\ g[k - 1] \in Seq(Artifact) /\ Manifest[k] \in Artifact /\ k \in 0..m
      BY <1>2
    <3>2. ToSet(Append(g[k - 1], Manifest[k])) = ToSet(g[k - 1]) \cup {Manifest[k]}
      BY <3>1, AppendHas
    <3>3. {Manifest[i] : i \in 1..k} = {Manifest[i] : i \in 1..(k - 1)} \cup {Manifest[k]}
      <4>1. 1..k = 1..(k - 1) \cup {k}
        BY <1>2
      <4> QED
        BY <4>1
    <3> QED
      BY <1>1, <2>2, <3>1, <3>2, <3>3
  <2> HIDE DEF Good
  <2> QED
    BY <1>2, <2>1, <2>2, UpTo
<1> QED
  BY <1>1, <1>2, <1>3, <1>4

(* Two plans that have nothing in common are together no longer than the   *)
(* manifest.                                                               *)
LEMMA ListedApart ==
  ASSUME NEW S, NEW R, S \cap R = {}
  PROVE  Len(InOrder(S)) + Len(InOrder(R)) <= Len(Manifest)
<1> DEFINE m == Len(Manifest)
<1>1. PICK g \in [0..m -> Seq(Artifact)] :
           /\ g[0] = <<>>
           /\ \A k \in 1..m :
                g[k] = IF Manifest[k] \in S THEN Append(g[k - 1], Manifest[k]) ELSE g[k - 1]
           /\ InOrder(S) = g[m]
  BY InOrderSteps
<1>2. PICK h \in [0..m -> Seq(Artifact)] :
           /\ h[0] = <<>>
           /\ \A k \in 1..m :
                h[k] = IF Manifest[k] \in R THEN Append(h[k - 1], Manifest[k]) ELSE h[k - 1]
           /\ InOrder(R) = h[m]
  BY InOrderSteps
<1>3. m \in Nat /\ \A k \in 1..m : Manifest[k] \in Artifact
  BY ProvisioningAssumption
<1> HIDE DEF m
<1> DEFINE Good == {k \in 0..m : Len(g[k]) + Len(h[k]) <= k}
<1>4. 0..m \subseteq Good
  <2>1. 0 \in Good
    BY <1>1, <1>2, <1>3
  <2>2. ASSUME NEW k \in 1..m, k - 1 \in Good PROVE k \in Good
    <3>1. /\ k - 1 \in 0..m /\ k \in 0..m /\ Manifest[k] \in Artifact
          /\ g[k - 1] \in Seq(Artifact) /\ h[k - 1] \in Seq(Artifact)
      BY <1>3
    <3>2. Manifest[k] \notin S \/ Manifest[k] \notin R
      OBVIOUS
    <3>3. /\ Len(Append(g[k - 1], Manifest[k])) = Len(g[k - 1]) + 1
          /\ Len(Append(h[k - 1], Manifest[k])) = Len(h[k - 1]) + 1
      BY <3>1
    <3>4. /\ Len(g[k]) = IF Manifest[k] \in S THEN Len(g[k - 1]) + 1 ELSE Len(g[k - 1])
          /\ Len(h[k]) = IF Manifest[k] \in R THEN Len(h[k - 1]) + 1 ELSE Len(h[k - 1])
      BY <1>1, <1>2, <3>3
    <3>5. Len(g[k - 1]) + Len(h[k - 1]) <= k - 1 /\ Len(g[k - 1]) \in Nat /\ Len(h[k - 1]) \in Nat
      BY <2>2, <3>1
    <3> QED
      BY <3>1, <3>2, <3>4, <3>5
  <2> HIDE DEF Good
  <2> QED
    BY <1>3, <2>1, <2>2, UpTo
<1> QED
  BY <1>1, <1>2, <1>3, <1>4 DEF m
-----------------------------------------------------------------------------
(* The invariant, in parts.                                                *)
(*                                                                         *)
(* TypeOK, with the sequences as sequences, and the bound on the two lists *)
(* of a plan as one: an artifact leaves one for the other.                 *)
Types ==
  /\ content \in [File -> Seq(Block)]
  /\ \A f \in File : Len(content[f]) <= Chunks
  /\ artifact \in [Artifact -> File \cup {NoFile}]
  /\ temp \in [Artifact \X Processes -> File \cup {NoFile}]
  /\ at \in [Callers -> {"idle", "verify", "remove", "discard", "create", "stream", "rename"}]
  /\ present \in [Callers -> Seq(Artifact)]
  /\ todo \in [Callers -> Seq(Artifact)]
  /\ \A c \in Callers : Len(present[c]) + Len(todo[c]) <= Len(Manifest)
  /\ open \in [Callers -> File \cup {NoFile}]
  /\ hasher \in [Callers -> Seq({"good", "bad"})]
  /\ \A c \in Callers : Len(hasher[c]) <= Chunks
  /\ result \in [Callers -> {"none", "ok", "error"}]
  /\ created \in 0..MaxFiles
  /\ calls \in [Callers -> 0..MaxCalls]
  /\ standing \subseteq Callers

(* What is left to do at each await. *)
Waits ==
  \A c \in Callers :
    /\ at[c] \in {"remove", "discard"} => present[c] # <<>>
    /\ at[c] \in {"create", "stream", "rename"} => present[c] = <<>> /\ todo[c] # <<>>
    /\ at[c] \in {"stream", "rename"} => open[c] \in File
    /\ at[c] # "idle" => result[c] = "none"

(* The files that were made by a download. *)
Made == Len(Manifest) + 1..Len(Manifest) + created

(* No file is at two temporary paths, or at a temporary path and at an     *)
(* artifact's.                                                             *)
FilesApart ==
  /\ \A t \in Artifact \X Processes : temp[t] \in Made \cup {NoFile}
  /\ \A a \in Artifact : artifact[a] \in Foreign \cup Made \cup {NoFile}
  /\ \A t, u \in Artifact \X Processes : temp[t] = temp[u] /\ temp[t] # NoFile => t = u
  /\ \A t \in Artifact \X Processes, a \in Artifact : temp[t] = artifact[a] => temp[t] = NoFile

(* A caller is standing while it runs. *)
Lonely == \A c \in standing : at[c] # "idle" => Running = {c}

(* Each caller is a process of its own. *)
ProcessesApart == \A c, d \in Callers : Process[c] = Process[d] => c = d

(* The callers whose temporary files nobody else writes. *)
Undisturbed == {c \in Callers : c \in standing \/ ProcessesApart}

(* Such a caller has its temporary file open, and the file holds what was  *)
(* received.                                                               *)
OwnFile ==
  \A c \in Undisturbed : at[c] \in {"stream", "rename"} =>
    /\ open[c] = temp[TempPath(c)]
    /\ content[open[c]] = hasher[c]
    /\ at[c] = "rename" => Len(hasher[c]) = Chunks /\ DigestOk(c)

Ready(a) ==
  /\ artifact[a] # NoFile
  /\ a \in Checked => content[artifact[a]] = Expected

(* What a lonely caller has not dealt with is still in its lists. *)
Progress ==
  \A c \in standing : at[c] # "idle" =>
    \A a \in Artifact : Ready(a) \/ a \in ToSet(present[c]) \/ a \in ToSet(todo[c])

(* Once such a call has returned Ok, no later call finds anything to do,   *)
(* unless it cannot read a file.                                           *)
Settled ==
  (\E c \in standing : at[c] = "idle" /\ result[c] = "ok") =>
    /\ \A a \in Artifact : Ready(a)
    /\ \A d \in Running : at[d] \in {"verify", "discard"} /\ todo[d] = <<>>

IInv == Types /\ Waits /\ FilesApart /\ Lonely /\ OwnFile /\ Progress /\ Settled

-----------------------------------------------------------------------------
(* A write next to the end appends, and any other leaves chunks as many as *)
(* its position, or more.                                                  *)
LEMMA WriteAtIs ==
  ASSUME NEW blocks \in Seq(Block), NEW i \in Nat \ {0}, NEW b \in Block
  PROVE  /\ WriteAt(blocks, i, b) \in Seq(Block)
         /\ Len(WriteAt(blocks, i, b)) = IF i > Len(blocks) THEN i ELSE Len(blocks)
         /\ i = Len(blocks) + 1 => WriteAt(blocks, i, b) = Append(blocks, b)
<1> DEFINE m == Max({i, Len(blocks)})
           w == [k \in 1..m |->
                   IF k = i THEN b ELSE IF k <= Len(blocks) THEN blocks[k] ELSE "hole"]
<1>1. m = IF i > Len(blocks) THEN i ELSE Len(blocks)
  BY DEF Max
<1>2. m \in Nat
  BY <1>1
<1> HIDE DEF m
<1>3. \A k \in 1..m : w[k] \in Block
  BY DEF Block
<1> HIDE DEF w
<1>4. w \in Seq(Block) /\ Len(w) = m
  <2>1. w \in [1..m -> Block]
    BY <1>3 DEF w
  <2> QED
    BY <1>2, <2>1
<1>5. ASSUME i = Len(blocks) + 1 PROVE w = Append(blocks, b)
  <2>1. m = Len(blocks) + 1
    BY <1>1, <1>5
  <2>2. Len(Append(blocks, b)) = m /\ Append(blocks, b) \in Seq(Block)
    BY <2>1
  <2>3. \A k \in 1..m : w[k] = Append(blocks, b)[k]
    BY <1>5, <2>1 DEF w
  <2> QED
    BY <1>4, <2>2, <2>3
<1>6. WriteAt(blocks, i, b) = w
  BY DEF WriteAt, w, m
<1> QED
  BY <1>1, <1>4, <1>5, <1>6

(* The first parts hold of any cache that may be found. *)
LEMMA TypesInit == Init => Types /\ Waits /\ FilesApart
<1> SUFFICES ASSUME Init PROVE Types /\ Waits /\ FilesApart
  OBVIOUS
<1>1. Len(Manifest) \in Nat /\ Chunks \in Nat \ {0} /\ MaxFiles \in Nat /\ MaxCalls \in Nat
  BY ProvisioningAssumption
<1>2. /\ Expected \in Seq(Block) /\ Len(Expected) = Chunks
      /\ <<>> \in Seq(Block) /\ Len(<<>>) = 0
      /\ <<"bad">> \in Seq(Block) /\ Len(<<"bad">>) = 1
  <2>1. Expected \in [1..Chunks -> Block]
    BY DEF Expected, Block
  <2> QED
    BY <1>1, <2>1 DEF Block
<1>3. content \in [File -> Seq(Block)] /\ \A f \in File : Len(content[f]) <= Chunks
  <2> DEFINE T == {<<>>, Expected, <<"bad">>}
  <2>1. content \in [File -> T]
    BY DEF Init
  <2>2. T \subseteq Seq(Block) /\ \A x \in T : Len(x) <= Chunks
    BY <1>1, <1>2
  <2> HIDE DEF T
  <2> QED
    BY <2>1, <2>2
<1>4. artifact \in [Artifact -> Foreign \cup {NoFile}] /\ Foreign \subseteq File
  BY <1>1 DEF Init, Foreign, File
<1>5. Types
  BY <1>1, <1>3, <1>4 DEF Init, Types
<1>6. Waits
  BY DEF Init, Waits
<1>7. FilesApart
  BY <1>4 DEF Init, FilesApart, Foreign, NoFile
<1> QED
  BY <1>5, <1>6, <1>7

(* Where a download writes. *)
LEMMA PathOf ==
  ASSUME Types, Waits, NEW c \in Callers, at[c] \in {"create", "stream", "rename"}
  PROVE  /\ Head(todo[c]) \in Artifact
         /\ Process[c] \in Processes
         /\ TempPath(c) \in Artifact \X Processes
         /\ ToSet(todo[c]) \subseteq ToSet(Tail(todo[c])) \cup {Head(todo[c])}
<1>1. todo[c] \in Seq(Artifact) /\ todo[c] # <<>>
  BY DEF Types, Waits
<1> QED
  BY <1>1, TailHas DEF TempPath, Processes

(* What it opens. *)
LEMMA CreateOpens ==
  ASSUME Types, Waits, NEW c \in Callers, Create(c)
  PROVE  open'[c] \in File /\ open' = [open EXCEPT ![c] = open'[c]] /\ created' \in 0..MaxFiles
<1>1. TempPath(c) \in Artifact \X Processes
  BY PathOf DEF Create
<1>2. Len(Manifest) \in Nat /\ MaxFiles \in Nat
  BY ProvisioningAssumption
<1>3. temp[TempPath(c)] \in File \cup {NoFile}
  BY <1>1 DEF Types
<1> QED
  BY SMTT(30), <1>2, <1>3 DEF Create, File, NoFile, Types

(* What remove_file may leave. *)
LEMMA Removed ==
  ASSUME Types, NEW x, RemoveFile(x)
  PROVE  /\ artifact' \in [Artifact -> File \cup {NoFile}]
         /\ \A a \in Artifact : artifact'[a] \in {artifact[a], NoFile}
         /\ \A a \in Artifact : a # x => artifact'[a] = artifact[a]
         /\ content' = content /\ temp' = temp /\ created' = created
BY DEF Types, RemoveFile

(* Each action keeps the types. *)
LEMMA TypesStep == Types /\ Waits /\ [Next]_vars => Types'
<1> SUFFICES ASSUME Types, Waits, [Next]_vars PROVE Types'
  OBVIOUS
<1> USE ProvisioningAssumption DEF Types
<1>1. ASSUME NEW c \in Callers, Call(c) PROVE Types'
  <2>1. /\ Present \in Seq(Artifact) /\ Missing \in Seq(Artifact)
        /\ Len(Present) + Len(Missing) <= Len(Manifest)
    BY Listed, ListedApart DEF Present, Missing
  <2>2. /\ present' \in [Callers -> Seq(Artifact)] /\ todo' \in [Callers -> Seq(Artifact)]
        /\ \A d \in Callers : Len(present'[d]) + Len(todo'[d]) <= Len(Manifest)
    BY <1>1, <2>1 DEF Call
  <2>3. standing' \subseteq Callers
    BY <1>1 DEF Call
  <2>4. calls' \in [Callers -> 0..MaxCalls]
    BY <1>1 DEF Call
  <2> QED
    BY <1>1, <2>2, <2>3, <2>4 DEF Call, Goto, disk
<1>2. ASSUME NEW c \in Callers, Verify(c) PROVE Types'
  <2>1. CASE present' = present
    BY <1>2, <2>1 DEF Verify, Goto, disk
  <2>2. CASE present' = [present EXCEPT ![c] = Tail(@)] /\ present[c] # <<>>
    <3>1. Tail(present[c]) \in Seq(Artifact) /\ Len(Tail(present[c])) = Len(present[c]) - 1
      BY <2>2
    <3>2. present' \in [Callers -> Seq(Artifact)]
      BY <2>2, <3>1
    <3>3. \A d \in Callers : Len(present'[d]) + Len(todo[d]) <= Len(Manifest)
      BY <2>2, <3>1
    <3> QED
      BY <1>2, <3>2, <3>3 DEF Verify, Goto, disk
  <2> QED
    BY <1>2, <2>1, <2>2 DEF Verify
<1>3. ASSUME NEW c \in Callers, RemoveMismatched(c) PROVE Types'
  <2>1. present[c] # <<>>
    BY <1>3 DEF RemoveMismatched, Waits
  <2>2. /\ Head(present[c]) \in Artifact /\ Tail(present[c]) \in Seq(Artifact)
        /\ Len(Tail(present[c])) = Len(present[c]) - 1
    BY <2>1, TailHas
  <2>3. /\ Append(todo[c], Head(present[c])) \in Seq(Artifact)
        /\ Len(Append(todo[c], Head(present[c]))) = Len(todo[c]) + 1
    BY <2>2, AppendHas
  <2>4. present' \in [Callers -> Seq(Artifact)] /\ todo' \in [Callers -> Seq(Artifact)]
    BY <1>3, <2>2, <2>3 DEF RemoveMismatched
  <2>5. Len(present[c]) \in Nat /\ Len(todo[c]) \in Nat
    OBVIOUS
  <2>6. \A d \in Callers : Len(present'[d]) + Len(todo'[d]) <= Len(Manifest)
    BY <1>3, <2>2, <2>3, <2>5 DEF RemoveMismatched
  <2>7. /\ artifact' \in [Artifact -> File \cup {NoFile}]
        /\ content' = content /\ temp' = temp /\ created' = created
    BY <1>3, Removed DEF RemoveMismatched
  <2> QED
    BY <1>3, <2>4, <2>6, <2>7 DEF RemoveMismatched, Goto
<1>4. ASSUME NEW c \in Callers, Discard(c) PROVE Types'
  <2>1. /\ artifact' \in [Artifact -> File \cup {NoFile}]
        /\ content' = content /\ temp' = temp /\ created' = created
    BY <1>4, Removed DEF Discard
  <2> QED
    BY <1>4, <2>1 DEF Discard, Return, Goto
<1>5. ASSUME NEW c \in Callers, AllVerified(c) PROVE Types'
  BY <1>5 DEF AllVerified, Return, Goto, disk
<1>6. ASSUME NEW c \in Callers, Create(c) PROVE Types'
  <2>1. open'[c] \in File /\ open' = [open EXCEPT ![c] = open'[c]] /\ created' \in 0..MaxFiles
    BY <1>6, CreateOpens
  <2>2. temp' \in [Artifact \X Processes -> File \cup {NoFile}]
    BY <1>6, <2>1 DEF Create
  <2>3. content' \in [File -> Seq(Block)] /\ \A f \in File : Len(content'[f]) <= Chunks
    BY <1>6, <2>1 DEF Create
  <2>4. /\ hasher' \in [Callers -> Seq({"good", "bad"})]
        /\ \A d \in Callers : Len(hasher'[d]) <= Chunks
    BY <1>6 DEF Create
  <2>5. open' \in [Callers -> File \cup {NoFile}]
    BY <2>1
  <2> QED
    BY <1>6, <2>1, <2>2, <2>3, <2>4, <2>5 DEF Create, Goto
<1>7. ASSUME NEW c \in Callers, Receive(c) PROVE Types'
  <2>1. PICK b \in {"good", "bad"} :
          /\ hasher' = [hasher EXCEPT ![c] = Append(@, b)]
          /\ content' = [content EXCEPT ![open[c]] = WriteAt(@, Len(hasher'[c]), b)]
    BY <1>7 DEF Receive
  <2>2. /\ Append(hasher[c], b) \in Seq({"good", "bad"})
        /\ Len(Append(hasher[c], b)) = Len(hasher[c]) + 1
    BY AppendHas
  <2>3. Len(hasher[c]) < Chunks /\ Len(hasher[c]) \in Nat /\ open[c] \in File
    BY <1>7 DEF Receive, Waits
  <2>4. hasher' \in [Callers -> Seq({"good", "bad"})] /\ \A d \in Callers : Len(hasher'[d]) <= Chunks
    BY <2>1, <2>2, <2>3
  <2>5. hasher'[c] = Append(hasher[c], b) /\ b \in Block /\ content[open[c]] \in Seq(Block)
    BY <2>1, <2>3 DEF Block
  <2>6. /\ WriteAt(content[open[c]], Len(hasher'[c]), b) \in Seq(Block)
        /\ Len(WriteAt(content[open[c]], Len(hasher'[c]), b)) <= Chunks
    <3> DEFINE i == Len(hasher'[c])
               blocks == content[open[c]]
    <3>1. i \in Nat \ {0} /\ i <= Chunks
      BY <2>2, <2>3, <2>5
    <3>2. blocks \in Seq(Block) /\ Len(blocks) <= Chunks /\ b \in Block
      BY <2>3, <2>5
    <3> HIDE DEF i, blocks
    <3>3. /\ WriteAt(blocks, i, b) \in Seq(Block)
          /\ Len(WriteAt(blocks, i, b)) = IF i > Len(blocks) THEN i ELSE Len(blocks)
      BY <3>1, <3>2, WriteAtIs
    <3> QED
      BY <3>1, <3>2, <3>3 DEF i, blocks
  <2>7. content' \in [File -> Seq(Block)] /\ \A f \in File : Len(content'[f]) <= Chunks
    BY <2>1, <2>3, <2>6
  <2> QED
    BY <1>7, <2>4, <2>7 DEF Receive
<1>8. ASSUME NEW c \in Callers, EndOfBody(c) PROVE Types'
  BY <1>8 DEF EndOfBody, Return, Goto, disk
<1>9. ASSUME NEW c \in Callers, Rename(c) PROVE Types'
  <2>1. todo[c] \in Seq(Artifact) /\ todo[c] # <<>>
    BY <1>9 DEF Rename, Waits
  <2>2. /\ Head(todo[c]) \in Artifact /\ Tail(todo[c]) \in Seq(Artifact)
        /\ Len(Tail(todo[c])) = Len(todo[c]) - 1
    BY <2>1, TailHas
  <2>3. TempPath(c) \in Artifact \X Processes
    BY <2>2 DEF TempPath, Processes
  <2>4. /\ artifact' \in [Artifact -> File \cup {NoFile}]
        /\ temp' \in [Artifact \X Processes -> File \cup {NoFile}]
    BY <1>9, <2>3 DEF Rename
  <2>5. todo' \in [Callers -> Seq(Artifact)]
    BY <1>9, <2>2 DEF Rename
  <2>6. \A d \in Callers : Len(present[d]) + Len(todo'[d]) <= Len(Manifest)
    BY <1>9, <2>1, <2>2 DEF Rename
  <2>7. open' \in [Callers -> File \cup {NoFile}]
    BY <1>9 DEF Rename
  <2>8. at' \in [Callers -> {"idle", "verify", "remove", "discard", "create", "stream", "rename"}]
        /\ result' \in [Callers -> {"none", "ok", "error"}]
    BY <1>9 DEF Rename, Goto
  <2> QED
    BY <1>9, <2>4, <2>5, <2>6, <2>7, <2>8 DEF Rename
<1>10. ASSUME NEW c \in Callers, DownloadFails(c) PROVE Types'
  BY <1>10 DEF DownloadFails, Return, Goto, disk
<1>11. ASSUME NEW p \in Processes, Exit(p) PROVE Types'
  <2>1. /\ at' \in [Callers -> {"idle", "verify", "remove", "discard", "create", "stream", "rename"}]
        /\ open' \in [Callers -> File \cup {NoFile}]
    BY <1>11 DEF Exit
  <2> QED
    BY <1>11, <2>1 DEF Exit, disk
<1>12. CASE UNCHANGED vars
  BY <1>12 DEF vars, disk, caller
<1> QED
  BY <1>1, <1>2, <1>3, <1>4, <1>5, <1>6, <1>7, <1>8, <1>9, <1>10, <1>11, <1>12 DEF Next, Step

(* What is left to do at each await, from each action. *)
LEMMA WaitsStep == Types /\ Waits /\ [Next]_vars => Waits'
<1> SUFFICES ASSUME Types, Waits, [Next]_vars PROVE Waits'
  OBVIOUS
<1> USE DEF Types, Waits
<1>1. ASSUME NEW c \in Callers, Call(c) PROVE Waits'
  BY <1>1 DEF Call, Goto
<1>2. ASSUME NEW c \in Callers, Verify(c) PROVE Waits'
  BY <1>2 DEF Verify, Goto
<1>3. ASSUME NEW c \in Callers, RemoveMismatched(c) PROVE Waits'
  BY <1>3 DEF RemoveMismatched, Goto
<1>4. ASSUME NEW c \in Callers, Discard(c) PROVE Waits'
  BY <1>4 DEF Discard, Return, Goto
<1>5. ASSUME NEW c \in Callers, AllVerified(c) PROVE Waits'
  <2>1. CASE Return(c, "ok")
    BY <1>5, <2>1 DEF AllVerified, Return, Goto
  <2>2. CASE Goto(c, "create") /\ todo[c] # <<>>
             /\ UNCHANGED <<present, todo, open, hasher, result, calls, standing>>
    BY <1>5, <2>2 DEF AllVerified, Goto
  <2> QED
    BY <1>5, <2>1, <2>2 DEF AllVerified
<1>6. ASSUME NEW c \in Callers, Create(c) PROVE Waits'
  <2>1. open'[c] \in File /\ \A d \in Callers \ {c} : open'[d] = open[d]
    BY <1>6, CreateOpens
  <2> QED
    BY <1>6, <2>1 DEF Create, Goto
<1>7. ASSUME NEW c \in Callers, Receive(c) PROVE Waits'
  BY <1>7 DEF Receive
<1>8. ASSUME NEW c \in Callers, EndOfBody(c) PROVE Waits'
  BY <1>8 DEF EndOfBody, Return, Goto
<1>9. ASSUME NEW c \in Callers, Rename(c) PROVE Waits'
  BY <1>9 DEF Rename, Goto
<1>10. ASSUME NEW c \in Callers, DownloadFails(c) PROVE Waits'
  BY <1>10 DEF DownloadFails, Return, Goto
<1>11. ASSUME NEW p \in Processes, Exit(p) PROVE Waits'
  BY <1>11 DEF Exit
<1>12. CASE UNCHANGED vars
  BY <1>12 DEF vars, caller
<1> QED
  BY <1>1, <1>2, <1>3, <1>4, <1>5, <1>6, <1>7, <1>8, <1>9, <1>10, <1>11, <1>12 DEF Next, Step

(* A download's file is one that is there, or a new one. *)
LEMMA CreateFile ==
  ASSUME Types, Waits, FilesApart, NEW c \in Callers, Create(c)
  PROVE  /\ open' = [open EXCEPT ![c] = open'[c]]
         /\ open'[c] \in Made'
         /\ open'[c] # NoFile
         /\ Made \subseteq Made'
         /\ \A a \in Artifact : artifact[a] # open'[c]
         /\ \A t \in Artifact \X Processes : t # TempPath(c) => temp[t] # open'[c]
<1>1. TempPath(c) \in Artifact \X Processes /\ Len(Manifest) \in Nat /\ created \in Nat
  BY PathOf, ProvisioningAssumption DEF Create, Types
<1>2. CASE temp[TempPath(c)] = NoFile /\ created' = created + 1
           /\ open' = [open EXCEPT ![c] = Len(Manifest) + created + 1]
  <2>1. open'[c] = Len(Manifest) + created + 1
    BY <1>2 DEF Types
  <2>2. open'[c] \in Made' /\ open'[c] \notin Made \cup Foreign \cup {NoFile} /\ Made \subseteq Made'
    BY <1>1, <1>2, <2>1 DEF Made, Foreign, NoFile
  <2> QED
    BY <1>2, <2>1, <2>2 DEF FilesApart
<1>3. CASE temp[TempPath(c)] # NoFile /\ open' = [open EXCEPT ![c] = temp[TempPath(c)]]
           /\ created' = created
  <2>1. open'[c] = temp[TempPath(c)]
    BY <1>3 DEF Types
  <2>2. open'[c] \in Made /\ Made' = Made
    BY <1>1, <1>3, <2>1 DEF FilesApart, Made
  <2> QED
    BY <1>1, <1>3, <2>1, <2>2 DEF FilesApart
<1> QED
  BY <1>2, <1>3 DEF Create

(* Only Create and Rename move files, and they keep them apart. *)
LEMMA FilesApartStep == Types /\ Waits /\ FilesApart /\ [Next]_vars => FilesApart'
<1> SUFFICES ASSUME Types, Waits, FilesApart, [Next]_vars PROVE FilesApart'
  OBVIOUS
<1>a. CASE UNCHANGED <<temp, created>> /\ \A a \in Artifact : artifact'[a] \in {artifact[a], NoFile}
  BY <1>a DEF FilesApart, Made, Foreign
<1>1. ASSUME NEW c \in Callers, Call(c) PROVE FilesApart'
  BY <1>1, <1>a DEF Call, disk
<1>2. ASSUME NEW c \in Callers, Verify(c) PROVE FilesApart'
  BY <1>2, <1>a DEF Verify, disk
<1>3. ASSUME NEW c \in Callers, RemoveMismatched(c) PROVE FilesApart'
  BY <1>3, <1>a, Removed DEF RemoveMismatched
<1>4. ASSUME NEW c \in Callers, Discard(c) PROVE FilesApart'
  BY <1>4, <1>a, Removed DEF Discard
<1>5. ASSUME NEW c \in Callers, AllVerified(c) PROVE FilesApart'
  BY <1>5, <1>a DEF AllVerified, disk
<1>6. ASSUME NEW c \in Callers, Create(c) PROVE FilesApart'
  <2>1. /\ open'[c] \in Made' /\ open'[c] # NoFile /\ Made \subseteq Made'
        /\ \A a \in Artifact : artifact[a] # open'[c]
        /\ \A t \in Artifact \X Processes : t # TempPath(c) => temp[t] # open'[c]
    BY <1>6, CreateFile
  <2>2. temp' = [temp EXCEPT ![TempPath(c)] = open'[c]] /\ artifact' = artifact
    BY <1>6 DEF Create
  <2>3. temp \in [Artifact \X Processes -> File \cup {NoFile}]
    BY DEF Types
  <2>4. \A t \in Artifact \X Processes : temp'[t] = IF t = TempPath(c) THEN open'[c] ELSE temp[t]
    BY <2>2, <2>3
  <2> QED
    BY <2>1, <2>2, <2>4 DEF FilesApart, Foreign
<1>7. ASSUME NEW c \in Callers, Receive(c) PROVE FilesApart'
  BY <1>7, <1>a DEF Receive
<1>8. ASSUME NEW c \in Callers, EndOfBody(c) PROVE FilesApart'
  BY <1>8, <1>a DEF EndOfBody, disk
<1>9. ASSUME NEW c \in Callers, Rename(c) PROVE FilesApart'
  <2>1. TempPath(c) \in Artifact \X Processes
    BY <1>9, PathOf DEF Rename
  <2>2. /\ artifact' = [artifact EXCEPT ![Head(todo[c])] = temp[TempPath(c)]]
        /\ temp' = [temp EXCEPT ![TempPath(c)] = NoFile]
        /\ temp[TempPath(c)] # NoFile /\ Made' = Made
    BY <1>9 DEF Rename, Made
  <2>3. \A t \in Artifact \X Processes : temp'[t] = IF t = TempPath(c) THEN NoFile ELSE temp[t]
    BY <2>2 DEF Types
  <2>4. \A a \in Artifact : artifact'[a] \in {artifact[a], temp[TempPath(c)]}
    BY <2>2 DEF Types
  <2> QED
    BY <2>1, <2>2, <2>3, <2>4 DEF FilesApart, Foreign
<1>10. ASSUME NEW c \in Callers, DownloadFails(c) PROVE FilesApart'
  BY <1>10, <1>a DEF DownloadFails, disk
<1>11. ASSUME NEW p \in Processes, Exit(p) PROVE FilesApart'
  BY <1>11, <1>a DEF Exit, disk
<1>12. CASE UNCHANGED vars
  BY <1>12, <1>a DEF vars, disk
<1> QED
  BY <1>1, <1>2, <1>3, <1>4, <1>5, <1>6, <1>7, <1>8, <1>9, <1>10, <1>11, <1>12 DEF Next, Step

(* A caller joins the lonely ones when nobody runs and leaves them at the  *)
(* next call of another.                                                   *)
LEMMA LonelyStep == Types /\ Lonely /\ [Next]_vars => Lonely'
<1> SUFFICES ASSUME Types, Lonely, [Next]_vars PROVE Lonely'
  OBVIOUS
<1> USE DEF Types, Lonely, Running
<1>1. ASSUME NEW c \in Callers, Call(c) PROVE Lonely'
  BY <1>1 DEF Call, Goto
<1>2. ASSUME NEW c \in Callers, Step(c) PROVE Lonely'
  <2>1. /\ standing' \subseteq standing /\ at[c] # "idle"
        /\ \A d \in Callers \ {c} : at'[d] = at[d]
    BY <1>2 DEF Step, Verify, RemoveMismatched, Discard, AllVerified, Create, Receive, EndOfBody,
                Rename, DownloadFails, Return, Goto
  <2> QED
    BY <2>1
<1>3. ASSUME NEW p \in Processes, Exit(p) PROVE Lonely'
  BY <1>3 DEF Exit
<1>4. CASE UNCHANGED vars
  BY <1>4 DEF vars, caller
<1> QED
  BY <1>1, <1>2, <1>3, <1>4 DEF Next

(* While a caller is undisturbed, whoever else runs is another process.    *)
LEMMA Others ==
  ASSUME Types, Lonely, NEW c \in Callers, NEW d \in Undisturbed, c # d,
         at[c] # "idle", at[d] # "idle"
  PROVE  c \in Undisturbed /\ Process[c] # Process[d]
<1>1. d \notin standing
  BY DEF Lonely, Running
<1> QED
  BY <1>1 DEF Undisturbed, ProcessesApart

(* An undisturbed caller's file is no artifact's, and nobody else's. *)
LEMMA OwnFileApart ==
  ASSUME Types, Waits, FilesApart, OwnFile, NEW c \in Undisturbed, at[c] \in {"stream", "rename"}
  PROVE  /\ open[c] \in File /\ open[c] # NoFile /\ open[c] = temp[TempPath(c)]
         /\ \A a \in Artifact : artifact[a] # open[c]
         /\ \A t \in Artifact \X Processes : t # TempPath(c) => temp[t] # open[c]
<1>1. c \in Callers
  BY DEF Undisturbed
<1>2. open[c] \in File /\ open[c] # NoFile /\ open[c] = temp[TempPath(c)]
  BY <1>1, ProvisioningAssumption DEF Waits, OwnFile, File, NoFile
<1>3. TempPath(c) \in Artifact \X Processes
  BY <1>1, PathOf
<1> QED
  BY <1>2, <1>3 DEF FilesApart

(* Whoever else acts writes another file, and its own actions write what   *)
(* it receives.                                                            *)
LEMMA OwnFileStep ==
  Types /\ Waits /\ FilesApart /\ Lonely /\ OwnFile /\ [Next]_vars => OwnFile'
<1> SUFFICES ASSUME Types, Waits, FilesApart, Lonely, OwnFile, [Next]_vars,
                    NEW d \in Undisturbed', at'[d] \in {"stream", "rename"}
             PROVE  /\ open'[d] = temp'[TempPath(d)']
                    /\ content'[open'[d]] = hasher'[d]
                    /\ at'[d] = "rename" => Len(hasher'[d]) = Chunks /\ DigestOk(d)'
  BY DEF OwnFile
<1> DEFINE Goal == /\ open'[d] = temp'[TempPath(d)']
                   /\ content'[open'[d]] = hasher'[d]
                   /\ at'[d] = "rename" => Len(hasher'[d]) = Chunks /\ DigestOk(d)'
<1>1. d \in Callers
  BY DEF Undisturbed
(* What is left as it was stays right. *)
<1>2. ASSUME d \in Undisturbed, at'[d] = at[d], open'[d] = open[d], hasher'[d] = hasher[d],
             todo'[d] = todo[d], content'[open[d]] = content[open[d]],
             temp'[TempPath(d)] = temp[TempPath(d)]
      PROVE  Goal
  BY <1>2 DEF OwnFile, TempPath, DigestOk
<1>3. ASSUME NEW c \in Callers, Call(c) PROVE Goal
  <2>1. d # c /\ d \in Undisturbed /\ at'[d] = at[d]
    BY <1>1, <1>3 DEF Call, Goto, Undisturbed, Types
  <2> QED
    BY <1>1, <1>2, <1>3, <2>1 DEF Call, disk, Types
<1>4. ASSUME NEW c \in Callers, Step(c), c # d PROVE Goal
  <2>1. /\ d \in Undisturbed /\ at[c] # "idle"
        /\ at'[d] = at[d] /\ open'[d] = open[d] /\ hasher'[d] = hasher[d] /\ todo'[d] = todo[d]
    <3>1. standing' \subseteq standing /\ at[c] # "idle" /\ at'[d] = at[d] /\ hasher'[d] = hasher[d]
          /\ todo'[d] = todo[d]
      BY <1>1, <1>4 DEF Step, Verify, RemoveMismatched, Discard, AllVerified, Create, Receive,
                        EndOfBody, Rename, DownloadFails, Return, Goto, Types
    <3>2. CASE Create(c)
      <4>1. open' = [open EXCEPT ![c] = open'[c]]
        BY <3>2, CreateOpens
      <4>2. open'[d] = open[d]
        BY <1>1, <1>4, <4>1 DEF Types
      <4> QED
        BY <3>1, <4>2 DEF Undisturbed
    <3>3. CASE ~Create(c)
      BY <1>1, <1>4, <3>1, <3>3 DEF Step, Verify, RemoveMismatched, Discard, AllVerified, Receive,
                        EndOfBody, Rename, DownloadFails, Return, Undisturbed, Types
    <3> QED
      BY <3>2, <3>3
  <2>2. c \in Undisturbed /\ Process[c] # Process[d] /\ TempPath(c) # TempPath(d)
    BY <1>1, <1>4, <2>1, Others DEF TempPath
  <2>3. /\ open[d] \in File /\ open[d] = temp[TempPath(d)]
        /\ TempPath(d) \in Artifact \X Processes
        /\ \A t \in Artifact \X Processes : t # TempPath(d) => temp[t] # open[d]
    BY <1>1, <2>1, OwnFileApart, PathOf
  <2>4. CASE Create(c)
    <3>1. open'[c] # open[d]
      BY <2>2, <2>3, <2>4, CreateFile
    <3>2. content'[open[d]] = content[open[d]] /\ temp'[TempPath(d)] = temp[TempPath(d)]
      BY <2>2, <2>3, <2>4, <3>1 DEF Create, Types
    <3> QED
      BY <1>2, <2>1, <3>2
  <2>5. CASE Receive(c)
    <3>1. open[c] = temp[TempPath(c)] /\ TempPath(c) \in Artifact \X Processes
      BY <2>2, <2>5, OwnFileApart, PathOf DEF Receive
    <3>2. open[c] # open[d]
      BY <2>2, <2>3, <3>1
    <3>3. content'[open[d]] = content[open[d]] /\ temp' = temp
      BY <2>3, <2>5, <3>2 DEF Receive, Types
    <3> QED
      BY <1>2, <2>1, <3>3
  <2>6. CASE Rename(c)
    <3>1. content' = content /\ temp'[TempPath(d)] = temp[TempPath(d)]
      BY <2>2, <2>3, <2>6 DEF Rename, Types
    <3> QED
      BY <1>2, <2>1, <3>1
  <2>7. CASE ~Create(c) /\ ~Receive(c) /\ ~Rename(c)
    <3>1. content' = content /\ temp' = temp
      BY <1>4, <2>7, Removed DEF Step, Verify, RemoveMismatched, Discard, AllVerified, EndOfBody,
                        DownloadFails, disk
    <3> QED
      BY <1>2, <2>1, <3>1
  <2> QED
    BY <2>4, <2>5, <2>6, <2>7
<1>5. ASSUME Step(d) PROVE Goal
  <2>1. d \in Undisturbed
    BY <1>5 DEF Step, Verify, RemoveMismatched, Discard, AllVerified, Create, Receive,
                EndOfBody, Rename, DownloadFails, Return, Undisturbed
  <2>2. CASE Create(d)
    <3>1. /\ TempPath(d) \in Artifact \X Processes /\ TempPath(d)' = TempPath(d)
          /\ open'[d] \in File
      BY <1>1, <2>2, PathOf, CreateOpens DEF Create, TempPath
    <3>2. open'[d] = temp'[TempPath(d)] /\ content'[open'[d]] = <<>> /\ hasher'[d] = <<>>
      BY <1>1, <2>2, <3>1 DEF Create, Types
    <3>3. at'[d] = "stream"
      BY <1>1, <2>2 DEF Create, Goto, Types
    <3> QED
      BY <3>1, <3>2, <3>3
  <2>3. CASE Receive(d)
    <3>1. PICK b \in {"good", "bad"} :
            /\ hasher' = [hasher EXCEPT ![d] = Append(@, b)]
            /\ content' = [content EXCEPT ![open[d]] = WriteAt(@, Len(hasher'[d]), b)]
      BY <2>3 DEF Receive
    <3>2. hasher'[d] = Append(hasher[d], b) /\ Len(hasher'[d]) = Len(hasher[d]) + 1
          /\ Len(hasher[d]) \in Nat
      BY <1>1, <3>1 DEF Types
    <3>3. /\ open[d] \in File /\ open[d] = temp[TempPath(d)] /\ content[open[d]] = hasher[d]
          /\ content[open[d]] \in Seq(Block)
      BY <1>1, <2>1, <2>3, OwnFileApart DEF Receive, OwnFile, Types
    <3>4. content'[open[d]] = Append(hasher[d], b)
      <4> DEFINE i == Len(hasher[d]) + 1
                 blocks == content[open[d]]
      <4>1. i \in Nat \ {0} /\ i = Len(blocks) + 1 /\ blocks \in Seq(Block) /\ b \in Block
        BY <3>2, <3>3 DEF Block
      <4>2. content'[open[d]] = WriteAt(blocks, i, b)
        BY <3>1, <3>2, <3>3 DEF Types
      <4> HIDE DEF i
      <4>3. WriteAt(blocks, i, b) = Append(blocks, b)
        <5> HIDE DEF blocks
        <5> QED
          BY <4>1, WriteAtIs
      <4> QED
        BY <4>2, <4>3, <3>3
    <3>5. /\ open' = open /\ temp' = temp /\ TempPath(d)' = TempPath(d)
          /\ at'[d] = "stream"
      BY <2>3 DEF Receive, TempPath
    <3> QED
      BY <3>2, <3>3, <3>4, <3>5
  <2>4. CASE EndOfBody(d)
    <3>1. /\ at[d] = "stream" /\ Len(hasher[d]) = Chunks /\ DigestOk(d)
          /\ UNCHANGED <<content, temp, todo, open, hasher>>
      BY <1>1, <2>4 DEF EndOfBody, Return, Goto, Types, disk
    <3> QED
      BY <2>1, <3>1 DEF OwnFile, TempPath, DigestOk
  <2>5. CASE ~Create(d) /\ ~Receive(d) /\ ~EndOfBody(d)
    <3>1. at'[d] \notin {"stream", "rename"}
      BY <1>1, <1>5, <2>5 DEF Step, Verify, RemoveMismatched, Discard, AllVerified, Rename,
                              DownloadFails, Return, Goto, Types
    <3> QED
      BY <3>1
  <2> QED
    BY <2>2, <2>3, <2>4, <2>5
<1>6. ASSUME NEW p \in Processes, Exit(p) PROVE Goal
  <2>1. at'[d] = at[d] /\ open'[d] = open[d] /\ d \in Undisturbed
    BY <1>1, <1>6 DEF Exit, Undisturbed, Types
  <2> QED
    BY <1>2, <1>6, <2>1 DEF Exit, disk
<1>7. CASE UNCHANGED vars
  BY <1>2, <1>7 DEF vars, disk, caller, Undisturbed
<1> QED
  BY <1>1, <1>3, <1>4, <1>5, <1>6, <1>7 DEF Next

(* What a write by an undisturbed caller leaves of the artifacts. *)
LEMMA WritesApart ==
  ASSUME Types, Waits, FilesApart, OwnFile, NEW c \in Callers, NEW a \in Artifact,
         Create(c) \/ (Receive(c) /\ c \in Undisturbed), artifact[a] # NoFile
  PROVE  artifact'[a] = artifact[a] /\ content'[artifact[a]] = content[artifact[a]]
<1>1. artifact[a] \in File
  BY DEF Types
<1>2. CASE Create(c)
  <2>1. artifact[a] # open'[c]
    BY <1>2, CreateFile
  <2> QED
    BY <1>1, <1>2, <2>1 DEF Create, Types
<1>3. CASE Receive(c) /\ c \in Undisturbed
  <2>1. artifact[a] # open[c]
    BY <1>3, OwnFileApart DEF Receive
  <2> QED
    BY <1>1, <1>3, <2>1 DEF Receive, Types
<1> QED
  BY <1>2, <1>3

(* What an undisturbed caller renames is what it received. *)
LEMMA Renamed ==
  ASSUME Types, Waits, FilesApart, OwnFile, NEW c \in Undisturbed, Rename(c)
  PROVE  /\ Head(todo[c]) \in Artifact
         /\ \A a \in Artifact \ {Head(todo[c])} : artifact'[a] = artifact[a]
         /\ artifact'[Head(todo[c])] = open[c] /\ open[c] # NoFile
         /\ content' = content
         /\ content[open[c]] = hasher[c] /\ Len(hasher[c]) = Chunks
         /\ DigestOk(c)
<1>1. c \in Callers /\ at[c] = "rename"
  BY DEF Undisturbed, Rename
<1>2. Head(todo[c]) \in Artifact
  BY <1>1, PathOf
<1>3. open[c] # NoFile /\ open[c] = temp[TempPath(c)]
  BY <1>1, OwnFileApart
<1> QED
  BY <1>1, <1>2, <1>3 DEF Rename, OwnFile, Types

(* After it, one artifact less is left. *)
LEMMA RenamedReady ==
  ASSUME Types, Waits, FilesApart, OwnFile, Progress, NEW c \in standing, Rename(c),
         NEW a \in Artifact
  PROVE  Ready(a)' \/ a \in ToSet(todo'[c])
<1>1. c \in Callers /\ c \in Undisturbed /\ at[c] = "rename"
  BY DEF Undisturbed, Types, Rename
<1>2. /\ \A b \in Artifact \ {Head(todo[c])} : artifact'[b] = artifact[b]
      /\ artifact'[Head(todo[c])] = open[c] /\ open[c] # NoFile
      /\ content' = content /\ content[open[c]] = hasher[c] /\ DigestOk(c)
  BY <1>1, Renamed
<1>3. present[c] = <<>> /\ ToSet(<<>>) = {}
  BY <1>1 DEF Waits, ToSet
<1>4. Ready(a) \/ a \in ToSet(todo[c])
  BY <1>1, <1>3 DEF Progress
<1>5. todo'[c] = Tail(todo[c]) /\ ToSet(todo[c]) \subseteq ToSet(Tail(todo[c])) \cup {Head(todo[c])}
  BY <1>1, PathOf DEF Rename, Types
<1>6. CASE a = Head(todo[c])
  BY <1>2, <1>6 DEF Ready, DigestOk
<1>7. CASE a # Head(todo[c])
  BY <1>2, <1>4, <1>5, <1>7 DEF Ready
<1> QED
  BY <1>6, <1>7

(* An artifact leaves a list of a lonely caller when it is ready, or for   *)
(* the other list.                                                         *)
LEMMA ProgressStep ==
  Types /\ Waits /\ FilesApart /\ Lonely /\ OwnFile /\ Progress /\ [Next]_vars => Progress'
<1> SUFFICES ASSUME Types, Waits, FilesApart, Lonely, OwnFile, Progress, [Next]_vars,
                    NEW d \in standing', at'[d] # "idle", NEW a \in Artifact
             PROVE  Ready(a)' \/ a \in ToSet(present'[d]) \/ a \in ToSet(todo'[d])
  BY DEF Progress
<1> DEFINE Goal == Ready(a)' \/ a \in ToSet(present'[d]) \/ a \in ToSet(todo'[d])
<1>1. ASSUME NEW c \in Callers, Call(c) PROVE Goal
  <2>1. CASE d = c
    <3>1. present'[d] = Present /\ todo'[d] = Missing
      BY <1>1, <2>1 DEF Call, Types
    <3>2. a \in ToSet(Present) \cup ToSet(Missing)
      BY Listed DEF Present, Missing
    <3> QED
      BY <3>1, <3>2
  <2>2. CASE d # c
    BY <1>1, <2>2 DEF Call, Goto, Running, Types
  <2> QED
    BY <2>1, <2>2
<1>2. ASSUME NEW c \in Callers, Step(c) PROVE Goal
  <2>1. d \in standing /\ at[c] # "idle" /\ (d # c => at'[d] = at[d])
    BY <1>2 DEF Step, Verify, RemoveMismatched, Discard, AllVerified, Create, Receive, EndOfBody,
                Rename, DownloadFails, Return, Goto, Types
  <2>2. d = c
    BY <2>1 DEF Lonely, Running
  <2>3. Ready(a) \/ a \in ToSet(present[c]) \/ a \in ToSet(todo[c])
    BY <2>1, <2>2 DEF Progress
  <2>4. CASE Verify(c)
    <3>1. CASE UNCHANGED present
      BY <2>2, <2>3, <2>4, <3>1 DEF Verify, Ready, disk
    <3>2. CASE present' = [present EXCEPT ![c] = Tail(@)] /\ artifact[Head(present[c])] # NoFile
               /\ ~Mismatch(Head(present[c]))
      <4>1. ToSet(present[c]) \subseteq ToSet(Tail(present[c])) \cup {Head(present[c])}
        BY <2>4, TailHas DEF Verify, Types
      <4>2. present'[c] = Tail(present[c])
        BY <3>2 DEF Types
      <4>3. Ready(Head(present[c]))
        BY <3>2 DEF Ready, Mismatch
      <4> QED
        BY <2>2, <2>3, <2>4, <4>1, <4>2, <4>3 DEF Verify, Ready, disk
    <3> QED
      BY <2>4, <3>1, <3>2 DEF Verify
  <2>5. CASE RemoveMismatched(c)
    <3>1. present[c] \in Seq(Artifact) /\ present[c] # <<>> /\ todo[c] \in Seq(Artifact)
      BY <2>5 DEF RemoveMismatched, Waits, Types
    <3>2. /\ Head(present[c]) \in Artifact
          /\ ToSet(present[c]) \subseteq ToSet(Tail(present[c])) \cup {Head(present[c])}
      BY <3>1, TailHas
    <3>3. ToSet(Append(todo[c], Head(present[c]))) = ToSet(todo[c]) \cup {Head(present[c])}
      BY <3>1, <3>2, AppendHas
    <3>4. present'[c] = Tail(present[c]) /\ todo'[c] = Append(todo[c], Head(present[c]))
      BY <2>5 DEF RemoveMismatched, Types
    <3>5. a # Head(present[c]) => artifact'[a] = artifact[a] /\ content' = content
      BY <2>5, Removed DEF RemoveMismatched
    <3> QED
      BY <2>2, <2>3, <3>2, <3>3, <3>4, <3>5 DEF Ready
  <2>6. CASE AllVerified(c)
    <3>1. present' = present /\ todo' = todo /\ artifact' = artifact /\ content' = content
      BY <2>6 DEF AllVerified, Return, disk
    <3> QED
      BY <2>2, <2>3, <3>1 DEF Ready
  <2>7. CASE Create(c) \/ Receive(c)
    <3>1. present' = present /\ todo' = todo /\ c \in Undisturbed
      BY <2>1, <2>2, <2>7 DEF Create, Receive, Undisturbed
    <3>2. Ready(a) => Ready(a)'
      BY <2>7, <3>1, WritesApart DEF Ready
    <3> QED
      BY <2>2, <2>3, <3>1, <3>2
  <2>8. CASE EndOfBody(c)
    <3>1. present' = present /\ todo' = todo /\ artifact' = artifact /\ content' = content
      BY <2>8 DEF EndOfBody, Return, disk
    <3> QED
      BY <2>2, <2>3, <3>1 DEF Ready
  <2>9. CASE Rename(c)
    BY <2>1, <2>2, <2>9, RenamedReady
  <2>10. CASE Discard(c) \/ DownloadFails(c)
    BY <2>2, <2>10 DEF Discard, DownloadFails, Return, Goto, Types
  <2> QED
    BY <1>2, <2>4, <2>5, <2>6, <2>7, <2>8, <2>9, <2>10 DEF Step
<1>3. ASSUME NEW p \in Processes, Exit(p) PROVE Goal
  BY <1>3 DEF Exit, Types, Progress, Ready, disk
<1>4. CASE UNCHANGED vars
  BY <1>4 DEF vars, disk, caller, Progress, Ready
<1> QED
  BY <1>1, <1>2, <1>3, <1>4 DEF Next

(* Once a lonely call has returned Ok, calls find every artifact and       *)
(* nothing to download.                                                    *)
LEMMA SettledStep ==
  IInv /\ [Next]_vars => Settled'
<1> SUFFICES ASSUME IInv, [Next]_vars,
                    NEW w \in standing', at'[w] = "idle", result'[w] = "ok"
             PROVE  /\ \A a \in Artifact : Ready(a)'
                    /\ \A d \in Running' : at'[d] \in {"verify", "discard"} /\ todo'[d] = <<>>
  BY DEF Settled
<1> USE DEF IInv
<1> DEFINE Goal == /\ \A a \in Artifact : Ready(a)'
                   /\ \A d \in Running' : at'[d] \in {"verify", "discard"} /\ todo'[d] = <<>>
           Before == \E c \in standing : at[c] = "idle" /\ result[c] = "ok"
(* A call that was settled before stays so. *)
<1>1. CASE Before
  <2>1. /\ \A a \in Artifact : Ready(a)
        /\ \A d \in Running : at[d] \in {"verify", "discard"} /\ todo[d] = <<>>
    BY <1>1 DEF Settled
  <2>2. ASSUME NEW c \in Callers, Call(c) PROVE Goal
    <3>1. Missing = <<>>
      <4>1. ToSet(Missing) = {} /\ Missing \in Seq(Artifact)
        BY <2>1, Listed DEF Missing, Ready
      <4>2. \A i \in DOMAIN Missing : FALSE
        BY <4>1 DEF ToSet
      <4>3. Len(Missing) = 0
        <5>1. DOMAIN Missing = 1..Len(Missing) /\ Len(Missing) \in Nat
          BY <4>1
        <5> QED
          BY <4>2, <5>1
      <4> QED
        BY <4>1, <4>3, EmptySequence
    <3>2. todo'[c] = <<>> /\ \A d \in Callers \ {c} : todo'[d] = todo[d]
      BY <2>2, <3>1 DEF Call, Types
    <3>3. at'[c] = "verify" /\ \A d \in Callers \ {c} : at'[d] = at[d]
      BY <2>2 DEF Call, Goto, Types
    <3> QED
      BY <2>1, <2>2, <3>2, <3>3 DEF Call, Running, Ready, disk
  <2>3. ASSUME NEW c \in Callers, Step(c) PROVE Goal
    <3>1. at[c] # "idle"
      BY <2>3 DEF Step, Verify, RemoveMismatched, Discard, AllVerified, Create, Receive, EndOfBody,
                  Rename, DownloadFails
    <3>2. at[c] = "verify" /\ todo[c] = <<>>
      <4>1. ~Discard(c)
        BY DEF Discard
      <4>2. at[c] # "discard"
        BY <2>3, <4>1 DEF Step, Verify, RemoveMismatched, AllVerified, Create, Receive, EndOfBody,
                          Rename, DownloadFails
      <4> QED
        BY <2>1, <3>1, <4>2 DEF Running
    <3>3. CASE Verify(c)
      <4>1. Head(present[c]) \in Artifact
        BY <2>3, <3>3, TailHas DEF Verify, Types
      <4>2. artifact[Head(present[c])] # NoFile /\ ~Mismatch(Head(present[c]))
        BY <2>1, <4>1 DEF Ready, Mismatch
      <4>3. todo' = todo /\ artifact' = artifact /\ content' = content
        BY <3>3, <4>2 DEF Verify, disk
      <4>4. at' = at \/ at' = [at EXCEPT ![c] = "discard"]
        BY <3>3, <4>2 DEF Verify, Goto
      <4>5. \A d \in Running' : d \in Running /\ at'[d] \in {at[d], "discard"}
        BY <2>3, <3>2, <4>4 DEF Running, Types
      <4> QED
        BY <2>1, <4>3, <4>5 DEF Ready
    <3>4. CASE AllVerified(c)
      <4>1. /\ at' = [at EXCEPT ![c] = "idle"]
            /\ todo' = todo /\ artifact' = artifact /\ content' = content
        BY <3>2, <3>4 DEF AllVerified, Return, Goto, disk
      <4> QED
        BY <2>1, <4>1 DEF Ready, Running, Types
    <3> QED
      BY <2>3, <3>2, <3>3, <3>4 DEF Step, RemoveMismatched, Discard, Create, Receive, EndOfBody,
                                    Rename, DownloadFails
  <2>4. ASSUME NEW p \in Processes, Exit(p) PROVE Goal
    BY <2>1, <2>4 DEF Exit, Running, Ready, disk, Types
  <2>5. CASE UNCHANGED vars
    BY <2>1, <2>5 DEF vars, disk, caller, Running, Ready
  <2> QED
    BY <2>2, <2>3, <2>4, <2>5 DEF Next
(* A call becomes settled by its last step, while nobody else runs. *)
<1>2. CASE ~Before
  <2>1. ASSUME NEW c \in Callers, Call(c) PROVE FALSE
    <3>1. w # c /\ w \in standing /\ at[w] = "idle" /\ result[w] = "ok"
      BY <2>1 DEF Call, Goto, Types
    <3> QED
      BY <1>2, <3>1
  <2>2. ASSUME NEW c \in Callers, Step(c) PROVE Goal
    <3>1. /\ w \in standing /\ at[c] # "idle"
          /\ w # c => at'[w] = at[w] /\ result'[w] = result[w]
      BY <2>2 DEF Step, Verify, RemoveMismatched, Discard, AllVerified, Create, Receive, EndOfBody,
                  Rename, DownloadFails, Return, Goto, Types
    <3>2. w = c
      BY <1>2, <3>1
    <3>3. Running = {c} /\ result[c] = "none"
      BY <3>1, <3>2 DEF Lonely, Waits
    <3>4. Running' = {}
      <4>1. \A d \in Callers \ {c} : at'[d] = at[d]
        BY <2>2 DEF Step, Verify, RemoveMismatched, Discard, AllVerified, Create, Receive,
                    EndOfBody, Rename, DownloadFails, Return, Goto, Types
      <4> QED
        BY <3>2, <3>3, <4>1 DEF Running
    <3>5. CASE AllVerified(c)
      <4>1. present[c] = <<>> /\ todo[c] = <<>> /\ artifact' = artifact /\ content' = content
        BY <3>2, <3>5 DEF AllVerified, Return, Goto, disk, Types
      <4>2. \A a \in Artifact : Ready(a)
        BY <3>1, <3>2, <4>1 DEF Progress, ToSet
      <4> QED
        BY <3>4, <4>1, <4>2 DEF Ready
    <3>6. CASE Rename(c)
      <4>1. todo'[c] = <<>>
        BY <3>2, <3>6 DEF Rename, Goto, Types
      <4>2. \A a \in Artifact : Ready(a)'
        BY <3>1, <3>2, <3>6, <4>1, RenamedReady DEF ToSet
      <4> QED
        BY <3>4, <4>2
    <3>7. CASE ~AllVerified(c) /\ ~Rename(c)
      <4>1. result'[c] # "ok"
        BY <2>2, <3>3, <3>7 DEF Step, Verify, RemoveMismatched, Discard, Create, Receive,
                                EndOfBody, DownloadFails, Return, Types
      <4> QED
        BY <3>2, <4>1
    <3> QED
      BY <3>5, <3>6, <3>7
  <2>3. ASSUME NEW p \in Processes, Exit(p) PROVE FALSE
    BY <1>2, <2>3 DEF Exit, Waits, Types
  <2>4. CASE UNCHANGED vars
    BY <1>2, <2>4 DEF vars, caller
  <2> QED
    BY <2>1, <2>2, <2>3, <2>4 DEF Next
<1> QED
  BY <1>1, <1>2

(* Only Rename gives an artifact a file, a whole and verified one, and     *)
(* downloads write no artifact's file.                                     *)
LEMMA PublishedStep ==
  ASSUME ProcessesApart
  PROVE  IInv /\ PublishedWhole /\ [Next]_vars => PublishedWhole'
<1> SUFFICES ASSUME IInv, PublishedWhole, [Next]_vars PROVE PublishedWhole'
  OBVIOUS
<1> USE DEF IInv
<1>1. \A c \in Callers : c \in Undisturbed
  BY DEF Undisturbed
<1>2. ASSUME \A a \in Artifact : \/ artifact'[a] = NoFile
                                 \/ /\ artifact'[a] = artifact[a]
                                    /\ content'[artifact[a]] = content[artifact[a]]
      PROVE  PublishedWhole'
  BY <1>2 DEF PublishedWhole
<1>3. CASE UNCHANGED <<artifact, content>>
  BY <1>2, <1>3
<1>4. ASSUME NEW c \in Callers, RemoveMismatched(c) \/ Discard(c) PROVE PublishedWhole'
  BY <1>2, <1>4, Removed DEF RemoveMismatched, Discard
<1>5. ASSUME NEW c \in Callers, Create(c) \/ Receive(c) PROVE PublishedWhole'
  <2>1. artifact' = artifact
    BY <1>5 DEF Create, Receive
  <2> QED
    BY <1>1, <1>2, <1>5, <2>1, WritesApart
<1>6. ASSUME NEW c \in Callers, Rename(c) PROVE PublishedWhole'
  <2>1. /\ \A a \in Artifact \ {Head(todo[c])} : artifact'[a] = artifact[a]
        /\ artifact'[Head(todo[c])] = open[c]
        /\ content' = content
        /\ content[open[c]] = hasher[c] /\ Len(hasher[c]) = Chunks
        /\ DigestOk(c)
    BY <1>1, <1>6, Renamed
  <2>2. \A i \in 1..Chunks : hasher[c][i] # "hole"
    <3>1. hasher[c] \in Seq({"good", "bad"}) /\ Chunks = Len(hasher[c])
      BY <2>1 DEF Types
    <3>2. \A i \in 1..Len(hasher[c]) : hasher[c][i] \in {"good", "bad"}
      BY <3>1
    <3> QED
      BY <3>1, <3>2
  <2> QED
    BY <2>1, <2>2 DEF PublishedWhole, DigestOk
<1>7. ASSUME NEW c \in Callers,
             Verify(c) \/ AllVerified(c) \/ EndOfBody(c) \/ DownloadFails(c)
      PROVE  PublishedWhole'
  BY <1>3, <1>7 DEF Verify, AllVerified, EndOfBody, DownloadFails, disk
<1>8. ASSUME NEW c \in Callers, Call(c) PROVE PublishedWhole'
  BY <1>3, <1>8 DEF Call, disk
<1>9. ASSUME NEW p \in Processes, Exit(p) PROVE PublishedWhole'
  BY <1>3, <1>9 DEF Exit, disk
<1>10. CASE UNCHANGED vars
  BY <1>3, <1>10 DEF vars, disk
<1> QED
  BY <1>4, <1>5, <1>6, <1>7, <1>8, <1>9, <1>10 DEF Next, Step

(* The invariant holds at first. *)
LEMMA InitInv == Init => IInv /\ PublishedWhole
<1> SUFFICES ASSUME Init PROVE IInv /\ PublishedWhole
  OBVIOUS
<1>1. Types /\ Waits /\ FilesApart
  BY TypesInit
<1>2. Lonely /\ Progress /\ Settled
  BY DEF Init, Lonely, Progress, Settled
<1>3. OwnFile
  BY DEF Init, OwnFile, Undisturbed
<1>4. PublishedWhole
  BY DEF Init, PublishedWhole
<1> QED
  BY <1>1, <1>2, <1>3, <1>4 DEF IInv

(* Each step keeps the invariant. *)
LEMMA StepInv == IInv /\ [Next]_vars => IInv'
<1> SUFFICES ASSUME IInv, [Next]_vars PROVE IInv'
  OBVIOUS
<1> USE DEF IInv
<1>1. Types' /\ Waits' /\ FilesApart' /\ Lonely'
  BY TypesStep, WaitsStep, FilesApartStep, LonelyStep
<1>2. OwnFile' /\ Progress' /\ Settled'
  BY OwnFileStep, ProgressStep, SettledStep
<1> QED
  BY <1>1, <1>2

(* The invariant always holds. *)
LEMMA Invariant == Spec => []IInv
<1> QED
  BY InitInv, StepInv, PTL DEF Spec

-----------------------------------------------------------------------------
(* A sequence within a bound is one of the bounded sequences. *)
LEMMA Bounded ==
  ASSUME NEW S, NEW n \in Nat, NEW s \in Seq(S), Len(s) <= n
  PROVE  s \in BoundedSeq(S, n)
<1>1. s \in [1..Len(s) -> S] /\ Len(s) \in 0..n
  OBVIOUS
<1> QED
  BY <1>1 DEF BoundedSeq, SeqOf

(* The types, for any callers, manifest, bodies and bounds. *)
THEOREM TypeCorrect == Spec => []TypeOK
<1>1. Types => TypeOK
  <2> SUFFICES ASSUME Types PROVE TypeOK
    OBVIOUS
  <2> USE ProvisioningAssumption DEF Types
  <2>1. content \in [File -> BoundedSeq(Block, Chunks)]
    <3>1. \A f \in File : content[f] \in BoundedSeq(Block, Chunks)
      BY Bounded
    <3> QED
      BY <3>1
  <2>2. /\ present \in [Callers -> BoundedSeq(Artifact, Len(Manifest))]
        /\ todo \in [Callers -> BoundedSeq(Artifact, Len(Manifest))]
    <3>1. \A c \in Callers : /\ Len(present[c]) <= Len(Manifest) /\ Len(todo[c]) <= Len(Manifest)
                              /\ present[c] \in Seq(Artifact) /\ todo[c] \in Seq(Artifact)
      OBVIOUS
    <3>2. \A c \in Callers : /\ present[c] \in BoundedSeq(Artifact, Len(Manifest))
                              /\ todo[c] \in BoundedSeq(Artifact, Len(Manifest))
      BY <3>1, Bounded
    <3> QED
      BY <3>2
  <2>3. hasher \in [Callers -> BoundedSeq({"good", "bad"}, Chunks)]
    <3>1. \A c \in Callers : hasher[c] \in BoundedSeq({"good", "bad"}, Chunks)
      BY Bounded
    <3> QED
      BY <3>1
  <2> QED
    BY <2>1, <2>2, <2>3 DEF TypeOK
<1> QED
  BY <1>1, Invariant, PTL DEF IInv

(* provision_missing renames a file over an artifact's path only when it   *)
(* is whole and verified, whatever fails or exits in between, provided no  *)
(* two callers are tasks of one process: the name of a temporary file has  *)
(* only the process in it.                                                 *)
THEOREM Published ==
  ASSUME ProcessesApart
  PROVE  Spec => []PublishedWhole
<1>1. IInv /\ PublishedWhole /\ [Next]_vars => PublishedWhole'
  BY PublishedStep
<1> QED
  BY <1>1, InitInv, Invariant, PTL DEF Spec

(* When provision_missing returns Ok, and no other call overlapped it, all *)
(* artifacts are there and match their checksums, and no later call undoes *)
(* that unless it fails to read a file: whether it then removes it or not, *)
(* it returns an error. Removals may fail, also silently.                  *)
THEOREM OkIsReady == Spec => []OkMeansReady
<1>1. IInv => OkMeansReady
  <2> SUFFICES ASSUME IInv, NEW c \in standing, result[c] = "ok", Running = {}
               PROVE  \A a \in Artifact : Ready(a)
    BY DEF OkMeansReady, Ready
  <2>1. at[c] = "idle"
    BY DEF IInv, Types, Running
  <2> QED
    BY <2>1 DEF IInv, Settled
<1> QED
  BY <1>1, Invariant, PTL
=============================================================================
