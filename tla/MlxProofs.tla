------------------------------ MODULE MlxProofs ------------------------------
(***************************************************************************)
(* Proofs about the MLX audio engine, for all words, texts, directories,   *)
(* nets and bounds that the assumptions allow:                             *)
(*   - the vocoder keeps the waveform aligned with the frames, for every   *)
(*     kernel that the weights may bring (Vocoder);                        *)
(*   - the clean-up of a transcript keeps the order and the words (Whisper);*)
(*   - the text is laid beside the frames word for word (Qwen3Tts);        *)
(*   - every injected event is taken by one step and spoken at most once,  *)
(*     and provisioned models are never missed (MlxTurn);                  *)
(*   - streaming transcription goes on decoding, takes back nothing it has *)
(*     shown, and ends with the buffer as it is (StreamingStt).            *)
(***************************************************************************)
EXTENDS MlxTurn, StreamingStt, FiniteInduction

(* A wave of positions that depend on frames 1..n. *)
Waves(n) == Seq(SUBSET (1..n))

-----------------------------------------------------------------------------
(* What whole division is. *)
LEMMA Quotient ==
  ASSUME NEW a \in Nat, NEW d \in Nat \ {0}
  PROVE  /\ a \div d \in Nat
         /\ d * (a \div d) <= a
         /\ a < d * (a \div d) + d
  OBVIOUS

(* Products grow with their factors. *)
LEMMA TimesMonotone ==
  ASSUME NEW a \in Int, NEW b \in Int, NEW d \in Nat, a <= b
  PROVE  a * d <= b * d
  OBVIOUS

(* There is one quotient. *)
LEMMA QuotientUnique ==
  ASSUME NEW a \in Nat, NEW d \in Nat \ {0}, NEW q \in Nat,
         d * q <= a, a < d * q + d
  PROVE  q = a \div d
<1> DEFINE p == a \div d
<1>1. p \in Nat /\ d * p <= a /\ a < d * p + d
  BY Quotient
<1> HIDE DEF p
<1>2. CASE p < q
  <2>1. d * (p + 1) <= d * q
    BY <1>1, <1>2, TimesMonotone
  <2>2. d * (p + 1) = d * p + d
    BY <1>1
  <2> QED
    BY <1>1, <2>1, <2>2
<1>3. CASE q < p
  <2>1. d * (q + 1) <= d * p
    BY <1>1, <1>3, TimesMonotone
  <2>2. d * (q + 1) = d * q + d
    OBVIOUS
  <2> QED
    BY <1>1, <2>1, <2>2
<1> QED
  BY <1>1, <1>2, <1>3 DEF p

(* Later positions belong to later frames, or the same one. *)
LEMMA FrameMonotone ==
  ASSUME NEW ratio \in Nat \ {0}, NEW u \in Nat \ {0}, NEW t \in Nat \ {0}, u <= t
  PROVE  FrameOf(u, ratio) \in Nat \ {0} /\ FrameOf(t, ratio) \in Nat \ {0}
         /\ FrameOf(u, ratio) <= FrameOf(t, ratio)
<1> DEFINE p == (u - 1) \div ratio
           q == (t - 1) \div ratio
<1>1. /\ p \in Nat /\ ratio * p <= u - 1 /\ u - 1 < ratio * p + ratio
      /\ q \in Nat /\ ratio * q <= t - 1 /\ t - 1 < ratio * q + ratio
  BY Quotient
<1>2. FrameOf(u, ratio) = p + 1 /\ FrameOf(t, ratio) = q + 1
  BY DEF FrameOf
<1> HIDE DEF p, q
<1>3. p <= q
  <2>1. CASE q + 1 <= p
    <3>1. ratio * (q + 1) <= ratio * p /\ ratio * (q + 1) = ratio * q + ratio
      BY <1>1, <2>1, TimesMonotone
    <3> QED
      BY <1>1, <3>1
  <2> QED
    BY <1>1, <2>1
<1> QED
  BY <1>1, <1>2, <1>3

(* The stride that is inferred is at least 1 and at most the kernel, so    *)
(* that no input is skipped and none is written past the next trim.        *)
LEMMA StrideInKernel ==
  ASSUME NEW kernel \in Nat \ {0}, NEW divisor \in Int
  PROVE  InferredStride(kernel, divisor) \in 1..kernel
<1> DEFINE d == IF divisor < 1 THEN 1 ELSE divisor
<1>1. d \in Nat \ {0}
  OBVIOUS
<1>2. InferredStride(kernel, divisor) = IF kernel <= d THEN kernel ELSE kernel \div d
  BY DEF InferredStride
<1> HIDE DEF d
<1>3. CASE kernel <= d
  BY <1>2, <1>3
<1>4. CASE d < kernel
  <2> DEFINE q == kernel \div d
  <2>1. q \in Nat /\ d * q <= kernel /\ kernel < d * q + d
    BY <1>1, Quotient
  <2>2. InferredStride(kernel, divisor) = q
    BY <1>1, <1>2, <1>4
  <2> HIDE DEF q
  <2>3. q >= 1
    BY <1>1, <1>4, <2>1
  <2>4. 1 * q <= d * q
    BY <1>1, <2>1, TimesMonotone
  <2> QED
    BY <1>1, <2>1, <2>2, <2>3, <2>4
<1> QED
  BY <1>1, <1>3, <1>4

-----------------------------------------------------------------------------
(* What Aligned says, with the types it needs. *)
LEMMA AlignedFacts ==
  ASSUME NEW n \in Nat, NEW ratio \in Nat \ {0}, NEW sound \in Waves(n),
         Aligned(sound, n, ratio)
  PROVE  /\ Len(sound) = n * ratio /\ Len(sound) \in Nat
         /\ DOMAIN sound = 1..Len(sound)
         /\ \A t \in 1..Len(sound) : /\ sound[t] \subseteq 1..FrameOf(t, ratio)
                                    /\ sound[t] \subseteq 1..n
                                    /\ FrameOf(t, ratio) \in sound[t]
BY DEF Aligned, Waves

(* It is enough that each position depends on positions of an aligned wave *)
(* up to the same one, and on that one.                                    *)
LEMMA LooksBack ==
  ASSUME NEW n \in Nat, NEW ratio \in Nat \ {0}, NEW sound \in Waves(n),
         Aligned(sound, n, ratio), NEW out,
         out \in [1..Len(sound) -> SUBSET (1..n)],
         \A t \in 1..Len(sound) :
           /\ \A f \in out[t] : \E u \in 1..t : f \in sound[u]
           /\ sound[t] \subseteq out[t]
  PROVE  out \in Waves(n) /\ Len(out) = Len(sound) /\ Aligned(out, n, ratio)
<1>1. /\ Len(sound) = n * ratio /\ Len(sound) \in Nat
      /\ \A t \in 1..Len(sound) : /\ sound[t] \subseteq 1..FrameOf(t, ratio)
                                 /\ FrameOf(t, ratio) \in sound[t]
  BY AlignedFacts
<1>2. out \in Waves(n) /\ Len(out) = Len(sound)
  BY <1>1 DEF Waves
<1>3. ASSUME NEW t \in 1..Len(sound), NEW f \in out[t] PROVE f \in 1..FrameOf(t, ratio)
  <2>1. PICK u \in 1..t : f \in sound[u]
    BY <1>3
  <2>2. u \in Nat \ {0} /\ t \in Nat \ {0} /\ u <= t /\ u \in 1..Len(sound)
    BY <1>1
  <2>3. /\ FrameOf(u, ratio) \in Nat /\ FrameOf(t, ratio) \in Nat
        /\ FrameOf(u, ratio) <= FrameOf(t, ratio)
    BY <2>2, FrameMonotone
  <2>4. f \in 1..FrameOf(u, ratio)
    BY <1>1, <2>1, <2>2
  <2> QED
    BY <2>3, <2>4
<1>4. Aligned(out, n, ratio)
  BY <1>1, <1>2, <1>3 DEF Aligned
<1> QED
  BY <1>2, <1>4

(* vocoder_attention, and an addition of two tensors. *)
LEMMA AttendAligned ==
  ASSUME NEW n \in Nat, NEW ratio \in Nat \ {0}, NEW sound \in Waves(n),
         Aligned(sound, n, ratio)
  PROVE  /\ Attend(sound) \in Waves(n)
         /\ Len(Attend(sound)) = Len(sound)
         /\ Aligned(Attend(sound), n, ratio)
<1>1. DOMAIN sound = 1..Len(sound) /\ Len(sound) \in Nat
      /\ \A t \in 1..Len(sound) : sound[t] \subseteq 1..n
  BY AlignedFacts
<1>2. Attend(sound) \in [1..Len(sound) -> SUBSET (1..n)]
  BY <1>1 DEF Attend
<1>3. ASSUME NEW t \in 1..Len(sound)
      PROVE  /\ \A f \in Attend(sound)[t] : \E u \in 1..t : f \in sound[u]
             /\ sound[t] \subseteq Attend(sound)[t]
  <2>1. Attend(sound)[t] = UNION {sound[u] : u \in 1..t}
    BY <1>1 DEF Attend
  <2> QED
    BY <1>1, <2>1
<1> QED
  BY <1>2, <1>3, LooksBack

(* Sums of aligned waves are aligned. *)
LEMMA ResidualAligned ==
  ASSUME NEW n \in Nat, NEW ratio \in Nat \ {0},
         NEW sound \in Waves(n), NEW other \in Waves(n),
         Aligned(sound, n, ratio), Aligned(other, n, ratio)
  PROVE  Residual(sound, other) \in Waves(n) /\ Aligned(Residual(sound, other), n, ratio)
<1>1. /\ Len(sound) = n * ratio /\ Len(sound) \in Nat /\ Len(other) = Len(sound)
      /\ DOMAIN sound = 1..Len(sound)
      /\ \A t \in 1..Len(sound) :
           /\ sound[t] \subseteq 1..FrameOf(t, ratio) /\ sound[t] \subseteq 1..n
           /\ other[t] \subseteq 1..FrameOf(t, ratio) /\ other[t] \subseteq 1..n
           /\ FrameOf(t, ratio) \in sound[t]
  BY AlignedFacts
<1>2. Residual(sound, other) \in [1..Len(sound) -> SUBSET (1..n)]
  BY <1>1 DEF Residual
<1>3. Residual(sound, other) \in Waves(n) /\ Len(Residual(sound, other)) = Len(sound)
  <2>1. ASSUME NEW l \in Nat, NEW w \in [1..l -> SUBSET (1..n)]
        PROVE  w \in Seq(SUBSET (1..n)) /\ Len(w) = l
    OBVIOUS
  <2> QED
    BY Zenon, <1>1, <1>2, <2>1 DEF Waves
<1> QED
  BY <1>1, <1>3 DEF Residual, Aligned

(* causal_conv1d_ncl, for every kernel and dilation. *)
LEMMA CausalConvAligned ==
  ASSUME NEW n \in Nat, NEW ratio \in Nat \ {0}, NEW sound \in Waves(n),
         Aligned(sound, n, ratio), NEW kernel \in Nat \ {0}, NEW dilation \in Nat \ {0}
  PROVE  /\ CausalConv(sound, kernel, dilation) \in Waves(n)
         /\ Len(CausalConv(sound, kernel, dilation)) = Len(sound)
         /\ Aligned(CausalConv(sound, kernel, dilation), n, ratio)
<1> DEFINE r == Reach(kernel, dilation)
           padded == Padded(sound, kernel, dilation)
           out == CausalConv(sound, kernel, dilation)
           L == Len(sound)
<1>1. DOMAIN sound = 1..L /\ L \in Nat /\ \A t \in 1..L : sound[t] \subseteq 1..n
  BY AlignedFacts
<1>2. r \in Nat /\ r = (kernel - 1) * dilation
  BY DEF Reach
<1>3. ASSUME NEW k \in 0..kernel - 1 PROVE k * dilation \in 0..r
  <2>1. k * dilation <= (kernel - 1) * dilation /\ 0 * dilation <= k * dilation
    BY <1>3, TimesMonotone
  <2> QED
    BY <1>2, <2>1
<1>4. /\ Len(padded) = r + L
      /\ \A i \in 1..r + L : padded[i] = IF i <= r THEN {} ELSE sound[i - r]
  <2> DEFINE zeros == [i \in 1..r |-> {}]
  <2>1. zeros \in Seq(SUBSET (1..n)) /\ Len(zeros) = r
    BY <1>2
  <2>2. padded = zeros \o sound
    BY DEF Padded
  <2> HIDE DEF zeros
  <2>3. /\ Len(padded) = r + L
        /\ \A i \in 1..r + L : padded[i] = IF i <= r THEN zeros[i] ELSE sound[i - r]
    <3> DEFINE S == SUBSET (1..n)
    <3>1. zeros \in Seq(S) /\ sound \in Seq(S)
      BY <2>1 DEF Waves
    <3> HIDE DEF S
    <3>2. /\ Len(zeros \o sound) = Len(zeros) + Len(sound)
          /\ \A i \in 1..Len(zeros) + Len(sound) :
               (zeros \o sound)[i] = IF i <= Len(zeros) THEN zeros[i] ELSE sound[i - Len(zeros)]
      BY <3>1, ConcatProperties
    <3> QED
      BY <2>1, <2>2, <3>2, Zenon
  <2>4. \A i \in 1..r : zeros[i] = {}
    BY DEF zeros
  <2> QED
    BY <1>2, <2>3, <2>4
<1>5. out = [t \in 1..L |-> UNION {padded[t + k * dilation] : k \in 0..kernel - 1}]
  <2>1. out = [t \in 1..(Len(padded) - r) |->
                 UNION {padded[t + k * dilation] : k \in 0..kernel - 1}]
    BY DEF CausalConv
  <2>2. Len(padded) - r = L
    BY <1>1, <1>2, <1>4
  <2> QED
    BY <2>1, <2>2
<1> HIDE DEF r, padded, out, L
<1>6. ASSUME NEW t \in 1..L, NEW k \in 0..kernel - 1, NEW i, i = t + k * dilation
      PROVE  /\ i \in 1..r + L /\ i - r <= t
             /\ i <= r => padded[i] = {}
             /\ i > r => padded[i] = sound[i - r]
  <2>1. k * dilation \in 0..r
    BY <1>3
  <2> DEFINE kd == k * dilation
  <2>2. kd \in 0..r /\ i = t + kd
    BY <1>6, <2>1
  <2> HIDE DEF kd
  <2>3. i \in 1..r + L /\ i - r <= t
    BY <1>1, <1>2, <2>2
  <2>4. padded[i] = IF i <= r THEN {} ELSE sound[i - r]
    BY <1>4, <2>3
  <2> QED
    BY <1>1, <1>2, <2>3, <2>4
<1>7. ASSUME NEW t \in 1..L, NEW f \in out[t] PROVE \E u \in 1..t : f \in sound[u]
  <2>0. PICK k \in 0..kernel - 1 : f \in padded[t + k * dilation]
    BY <1>5, <1>7
  <2>1. PICK i : i = t + k * dilation /\ f \in padded[i]
    BY <2>0
  <2>2. /\ i \in 1..r + L /\ i - r <= t
        /\ i <= r => padded[i] = {}
        /\ i > r => padded[i] = sound[i - r]
    BY <1>6, <2>1
  <2>3. i > r /\ f \in sound[i - r] /\ i - r \in 1..t
    BY <1>1, <1>2, <2>1, <2>2
  <2> QED
    BY <2>3
<1>8. ASSUME NEW t \in 1..L PROVE sound[t] \subseteq out[t]
  <2>1. PICK i : i = t + (kernel - 1) * dilation
    OBVIOUS
  <2>2. i = t + r /\ kernel - 1 \in 0..kernel - 1
    BY <1>2, <2>1
  <2>3. i > r => padded[i] = sound[i - r]
    BY <1>6, <2>1, <2>2
  <2>4. padded[i] = sound[t]
    BY <1>1, <1>2, <2>2, <2>3
  <2> QED
    BY <1>5, <2>1, <2>2, <2>4
<1>9. out \in [1..L -> SUBSET (1..n)]
  <2>1. ASSUME NEW t \in 1..L PROVE out[t] \subseteq 1..n
    BY <1>1, <1>7
  <2> QED
    BY <1>5, <2>1
<1> QED
  BY <1>7, <1>8, <1>9, LooksBack DEF out, L

-----------------------------------------------------------------------------
(* The input that position t of a transposed convolution belongs to.       *)
LEMMA OwnInput ==
  ASSUME NEW ratio \in Nat \ {0}, NEW stride \in Nat \ {0}, NEW l \in Nat,
         NEW t \in 1..l * stride
  PROVE  /\ FrameOf(t, stride) \in 1..l
         /\ (FrameOf(t, stride) - 1) * stride < t
         /\ t <= (FrameOf(t, stride) - 1) * stride + stride
         /\ \A j \in Nat \ {0} : (j - 1) * stride < t => j <= FrameOf(t, stride)
         /\ FrameOf(FrameOf(t, stride), ratio) = FrameOf(t, ratio * stride)
<1> DEFINE i == (t - 1) \div stride
<1>1. l * stride \in Nat /\ t \in Nat /\ t >= 1 /\ t <= l * stride
  OBVIOUS
<1>2. i \in Nat /\ stride * i <= t - 1 /\ t - 1 < stride * i + stride
  BY <1>1, Quotient
<1>3. FrameOf(t, stride) = i + 1
  BY DEF FrameOf
<1> DEFINE f == i \div ratio
<1>4. f \in Nat /\ ratio * f <= i /\ i < ratio * f + ratio
  BY <1>2, Quotient
<1>5. FrameOf(i + 1, ratio) = f + 1
  BY <1>2 DEF FrameOf
<1> HIDE DEF i, f
<1>6. i < l
  <2>1. CASE l <= i
    <3>1. l * stride <= i * stride /\ i * stride = stride * i
      BY <1>2, <2>1, TimesMonotone
    <3> QED
      BY <1>1, <1>2, <3>1
  <2> QED
    BY <1>2, <2>1
<1>7. ASSUME NEW j \in Nat \ {0}, (j - 1) * stride < t PROVE j <= i + 1
  <2>1. CASE i + 1 <= j - 1
    <3>1. (i + 1) * stride <= (j - 1) * stride /\ (i + 1) * stride = stride * i + stride
      BY <1>2, <2>1, TimesMonotone
    <3> QED
      BY <1>1, <1>2, <1>7, <3>1
  <2> QED
    BY <1>2, <2>1
<1>8. f = (t - 1) \div (ratio * stride)
  <2>1. ratio * stride \in Nat \ {0}
    OBVIOUS
  <2>2. /\ (ratio * f) * stride <= i * stride
        /\ (i + 1) * stride <= (ratio * f + ratio) * stride
    BY <1>2, <1>4, TimesMonotone
  <2>3. /\ (ratio * f) * stride = (ratio * stride) * f
        /\ (ratio * f + ratio) * stride = (ratio * stride) * f + ratio * stride
        /\ i * stride = stride * i
        /\ (i + 1) * stride = stride * i + stride
    BY <1>2, <1>4
  <2> DEFINE a == (ratio * stride) * f
             b == stride * i
             c == ratio * stride
  <2>4. a \in Int /\ b \in Int /\ c \in Int /\ a <= b /\ b + stride <= a + c
    BY <1>2, <1>4, <2>2, <2>3
  <2>5. b <= t - 1 /\ t - 1 < b + stride
    BY <1>2
  <2> HIDE DEF a, b, c
  <2>6. a <= t - 1 /\ t - 1 < a + c
    BY <1>1, <2>4, <2>5
  <2> QED
    BY <1>1, <1>4, <2>1, <2>6, QuotientUnique DEF a, c
<1>9. FrameOf(t, ratio * stride) = f + 1
  BY <1>8 DEF FrameOf
<1> QED
  BY <1>1, <1>2, <1>3, <1>5, <1>6, <1>7, <1>9

(* causal_transpose_conv1d_ncl, for a stride of the kernel at most: there  *)
(* are stride positions for each input, and none looks ahead.              *)
LEMMA TransposeConvAligned ==
  ASSUME NEW n \in Nat \ {0}, NEW ratio \in Nat \ {0}, NEW sound \in Waves(n),
         Aligned(sound, n, ratio), NEW kernel \in Nat \ {0}, NEW stride \in 1..kernel
  PROVE  /\ TransposeConv(sound, kernel, stride) \in Waves(n)
         /\ Aligned(TransposeConv(sound, kernel, stride), n, ratio * stride)
<1> DEFINE L == Len(sound)
           full == Spread(sound, kernel, stride)
           out == TransposeConv(sound, kernel, stride)
           reaches(t) == {j \in 1..L : /\ (j - 1) * stride < t
                                      /\ t <= (j - 1) * stride + kernel}
           m == L * stride
<1>1. /\ L = n * ratio /\ L \in Nat /\ DOMAIN sound = 1..L
      /\ \A t \in 1..L : /\ sound[t] \subseteq 1..FrameOf(t, ratio)
                         /\ sound[t] \subseteq 1..n
                         /\ FrameOf(t, ratio) \in sound[t]
  BY AlignedFacts
<1>2. stride \in Nat \ {0} /\ stride <= kernel /\ m \in Nat /\ m >= 1
  <2>1. L >= 1
    BY <1>1
  <2> QED
    BY <1>1, <2>1
<1>3. (L - 1) * stride + kernel = m + (kernel - stride)
  BY <1>1, <1>2
<1>4. full = [t \in 1..m + (kernel - stride) |-> UNION {sound[i] : i \in reaches(t)}]
  BY <1>1, <1>3 DEF Spread
<1> HIDE DEF m, full, reaches, L
<1>5. full \in Seq(SUBSET (1..n)) /\ Len(full) = m + (kernel - stride)
  <2>1. ASSUME NEW t \in 1..m + (kernel - stride)
        PROVE  UNION {sound[i] : i \in reaches(t)} \subseteq 1..n
    BY <1>1 DEF reaches
  <2>2. full \in [1..m + (kernel - stride) -> SUBSET (1..n)]
    BY <1>4, <2>1
  <2> QED
    BY <1>2, <2>2
<1>6. /\ out \in Waves(n) /\ Len(out) = m
      /\ \A t \in 1..m : out[t] = UNION {sound[i] : i \in reaches(t)}
  <2>1. CASE kernel = stride
    <3>1. out = full
      BY <1>2, <2>1 DEF TransposeConv, full
    <3> QED
      BY <1>2, <1>4, <1>5, <2>1, <3>1 DEF Waves
  <2>2. CASE kernel > stride
    <3>1. Len(full) > kernel - stride /\ Len(full) - (kernel - stride) = m
      BY <1>2, <1>5
    <3>2. out = SubSeq(full, 1, m)
      BY <1>2, <2>2, <3>1 DEF TransposeConv, full
    <3> QED
      BY <1>2, <1>4, <1>5, <2>2, <3>2 DEF Waves
  <2> QED
    BY <1>2, <2>1, <2>2
<1> HIDE DEF out
<1>7. m = n * (ratio * stride) /\ ratio * stride \in Nat \ {0}
  BY <1>1, <1>2 DEF m
<1>8. ASSUME NEW t \in 1..m
      PROVE  /\ out[t] \subseteq 1..FrameOf(t, ratio * stride)
             /\ FrameOf(t, ratio * stride) \in out[t]
  <2> DEFINE own == FrameOf(t, stride)
  <2>1. /\ own \in 1..L
        /\ (own - 1) * stride < t
        /\ t <= (own - 1) * stride + stride
        /\ \A j \in Nat \ {0} : (j - 1) * stride < t => j <= own
        /\ FrameOf(own, ratio) = FrameOf(t, ratio * stride)
    BY <1>1, <1>2, <1>8, OwnInput DEF m
  <2> HIDE DEF own
  <2>2. own \in reaches(t)
    <3>1. (own - 1) * stride \in Int
      BY <1>1, <1>2, <2>1
    <3> QED
      BY <1>2, <2>1, <3>1 DEF reaches
  <2>3. FrameOf(t, ratio * stride) \in out[t]
    <3>1. FrameOf(own, ratio) \in sound[own]
      BY <1>1, <2>1
    <3>2. out[t] = UNION {sound[i] : i \in reaches(t)}
      BY <1>6, <1>8
    <3> QED
      BY Zenon, <2>1, <2>2, <3>1, <3>2
  <2>4. ASSUME NEW f \in out[t] PROVE f \in 1..FrameOf(t, ratio * stride)
    <3>1. PICK j \in reaches(t) : f \in sound[j]
      BY <1>6, <2>4
    <3>2. j \in 1..L /\ j \in Nat \ {0} /\ own \in Nat \ {0} /\ j <= own
      BY <1>1, <2>1 DEF reaches
    <3>3. /\ FrameOf(j, ratio) \in Nat /\ FrameOf(own, ratio) \in Nat
          /\ FrameOf(j, ratio) <= FrameOf(own, ratio)
      BY <3>2, FrameMonotone
    <3>4. f \in 1..FrameOf(j, ratio)
      BY <1>1, <3>1, <3>2
    <3> QED
      BY <2>1, <3>3, <3>4
  <2> QED
    BY <2>3, <2>4
<1> QED
  BY <1>6, <1>7, <1>8 DEF out, Aligned

-----------------------------------------------------------------------------
(* A wave that is aligned, with its type. *)
FitsFrames(sound, n, ratio) == sound \in Waves(n) /\ Aligned(sound, n, ratio)

(* A residual unit keeps the wave aligned (decoder_residual_unit). *)
LEMMA UnitAligned ==
  ASSUME NEW n \in Nat, NEW ratio \in Nat \ {0}, NEW sound, FitsFrames(sound, n, ratio),
         NEW block, block.unit \in Nat \ {0}, block.mix \in Nat \ {0},
         NEW dilation \in Nat \ {0}
  PROVE  FitsFrames(Unit(sound, block, dilation), n, ratio)
<1> DEFINE conv == CausalConv(sound, block.unit, dilation)
           other == CausalConv(conv, block.mix, 1)
<1>1. conv \in Waves(n) /\ Aligned(conv, n, ratio)
  BY CausalConvAligned DEF FitsFrames
<1> HIDE DEF conv
<1>2. other \in Waves(n) /\ Aligned(other, n, ratio)
  BY <1>1, CausalConvAligned
<1> HIDE DEF other
<1>3. FitsFrames(Residual(sound, other), n, ratio)
  BY <1>2, ResidualAligned DEF FitsFrames
<1> QED
  BY <1>3 DEF Unit, conv, other

(* A block of the decoder has stride positions for each of its input, for  *)
(* every kernel and divisor: each still sounds with its own frame, and no  *)
(* frame is heard early (decoder_block).                                   *)
THEOREM DecoderBlockAligned ==
  ASSUME NEW n \in Nat \ {0}, NEW ratio \in Nat \ {0}, NEW sound \in Waves(n),
         Aligned(sound, n, ratio), NEW divisor \in Int, NEW block,
         block.kernel \in Nat \ {0}, block.unit \in Nat \ {0}, block.mix \in Nat \ {0}
  PROVE  /\ DecoderBlock(sound, block, divisor) \in Waves(n)
         /\ Aligned(DecoderBlock(sound, block, divisor), n,
                    ratio * InferredStride(block.kernel, divisor))
<1> DEFINE stride == InferredStride(block.kernel, divisor)
           up == TransposeConv(sound, block.kernel, stride)
           first == Unit(up, block, 1)
           second == Unit(first, block, 3)
<1>1. stride \in 1..block.kernel
  BY StrideInKernel
<1> HIDE DEF stride
<1>2. ratio * stride \in Nat \ {0}
  BY <1>1
<1>3. FitsFrames(up, n, ratio * stride)
  BY <1>1, TransposeConvAligned DEF FitsFrames
<1> HIDE DEF up
<1>4. FitsFrames(first, n, ratio * stride)
  BY <1>2, <1>3, UnitAligned
<1> HIDE DEF first
<1>5. FitsFrames(second, n, ratio * stride)
  BY <1>2, <1>4, UnitAligned
<1> HIDE DEF second
<1>6. FitsFrames(Unit(second, block, 9), n, ratio * stride)
  BY <1>2, <1>5, UnitAligned
<1> QED
  BY <1>6 DEF DecoderBlock, FitsFrames, stride, up, first, second

(* The same of an upsampling before the decoder (vocoder_decode_waveform). *)
THEOREM UpsampleAligned ==
  ASSUME NEW n \in Nat \ {0}, NEW ratio \in Nat \ {0}, NEW sound \in Waves(n),
         Aligned(sound, n, ratio), NEW divisor \in Int, NEW block,
         block.kernel \in Nat \ {0}, block.depthwise \in Nat \ {0}
  PROVE  /\ Upsample(sound, block, divisor) \in Waves(n)
         /\ Aligned(Upsample(sound, block, divisor), n,
                    ratio * InferredStride(block.kernel, divisor))
<1> DEFINE stride == InferredStride(block.kernel, divisor)
           up == TransposeConv(sound, block.kernel, stride)
           other == CausalConv(up, block.depthwise, 1)
<1>1. stride \in 1..block.kernel
  BY StrideInKernel
<1> HIDE DEF stride
<1>2. ratio * stride \in Nat \ {0}
  BY <1>1
<1>3. FitsFrames(up, n, ratio * stride)
  BY <1>1, TransposeConvAligned DEF FitsFrames
<1> HIDE DEF up
<1>4. FitsFrames(other, n, ratio * stride)
  BY <1>2, <1>3, CausalConvAligned DEF FitsFrames
<1> HIDE DEF other
<1>5. Residual(up, other) \in Waves(n) /\ Aligned(Residual(up, other), n, ratio * stride)
  BY <1>2, <1>3, <1>4, ResidualAligned DEF FitsFrames
<1> QED
  BY <1>5 DEF Upsample, stride, up, other

-----------------------------------------------------------------------------
(* The vocoder as a whole: blocks are applied as often as there are indices*)
(* without a gap.                                                          *)

(* The product, as the recursion that defines it. *)
LEMMA RateIs ==
  ASSUME NEW m \in Nat, NEW strides \in [1..m -> Nat \ {0}]
  PROVE  \E rate \in [0..m -> Nat \ {0}] :
           /\ rate[0] = 1
           /\ \A k \in 1..m : rate[k] = rate[k - 1] * strides[k]
           /\ Rate(strides, m) = rate[m]
<1> DEFINE S == Nat \ {0}
           F == [k \in 1..m |-> [x \in S |-> x * strides[k]]]
<1>1. PICK g \in [0..m -> S] : g[0] = 1 /\ \A k \in 1..m : g[k] = F[k][g[k - 1]]
  <2>1. F \in [1..m -> [S -> S]] /\ 1 \in S
    OBVIOUS
  <2> DEFINE a == 1
  <2>2. a \in S
    OBVIOUS
  <2> HIDE DEF F, S, a
  <2>3. Iterates(S, m, a, F) # {}
    BY <2>1, <2>2, Recursion
  <2> QED
    BY <2>3 DEF a, Iterates
<1>2. ASSUME NEW k \in 1..m
      PROVE  k - 1 \in 0..m /\ g[k - 1] \in S /\ g[k] = g[k - 1] * strides[k]
  <2>1. k - 1 \in 0..m /\ g[k - 1] \in S
    OBVIOUS
  <2>2. F[k][g[k - 1]] = g[k - 1] * strides[k]
    BY <2>1
  <2> QED
    BY <1>1, <2>1, <2>2
<1>3. g = [k \in 0..m |-> IF k = 0 THEN 1 ELSE g[k - 1] * strides[k]]
  BY <1>1, <1>2
<1> DEFINE rate == CHOOSE rate : rate = [k \in 0..m |-> IF k = 0 THEN 1 ELSE rate[k - 1] * strides[k]]
<1>4. rate = [k \in 0..m |-> IF k = 0 THEN 1 ELSE rate[k - 1] * strides[k]]
  BY <1>3
<1>5. Rate(strides, m) = rate[m]
  BY DEF Rate
<1> HIDE DEF rate
<1>6. rate[0] = 1 /\ \A k \in 1..m : rate[k] = rate[k - 1] * strides[k]
  BY <1>4
<1> DEFINE Held == {k \in 0..m : rate[k] \in Nat \ {0}}
<1>7. 0..m \subseteq Held
  <2>1. 0 \in Held
    BY <1>6
  <2>2. ASSUME NEW k \in 1..m, k - 1 \in Held PROVE k \in Held
    BY <1>6, <2>2
  <2> HIDE DEF Held
  <2> QED
    BY <2>1, <2>2, UpTo
<1>8. rate \in [0..m -> Nat \ {0}]
  <2>1. \A k \in 0..m : rate[k] \in Nat \ {0}
    BY <1>7
  <2> QED
    BY <2>1, <1>4
<1> QED
  BY <1>5, <1>6, <1>8

(* Counted indices are all there. *)
LEMMA CountedThere ==
  ASSUME NEW indices, IsFiniteSet(indices), NEW first \in Nat, indices \subseteq Nat,
         \A i \in indices : first <= i
  PROVE  /\ Counted(indices, first) \in Nat
         /\ first..(first + Counted(indices, first) - 1) \subseteq indices
<1> DEFINE C == {i \in indices : first..i \subseteq indices}
           c == Cardinality(C)
<1>1. IsFiniteSet(C) /\ c \in Nat
  BY FS_Subset, FS_CardinalityType
<1>2. ASSUME NEW i \in first..(first + c - 1), i \notin indices PROVE FALSE
  <2>0. i \in Int /\ first <= i /\ i - 1 \in Int /\ i <= first + c - 1
    <3> HIDE DEF c
    <3> QED
      BY <1>1, <1>2
  <2>1. C \subseteq first..(i - 1)
    <3> SUFFICES ASSUME NEW j \in C PROVE j \in first..(i - 1)
      OBVIOUS
    <3>1. j \in Nat /\ first <= j /\ first..j \subseteq indices
      OBVIOUS
    <3>2. ~(i <= j)
      BY <3>1, <2>0, <1>2
    <3> QED
      BY <3>1, <3>2, <2>0
  <2>2. IsFiniteSet(first..(i - 1)) /\ Cardinality(first..(i - 1)) = i - first
    <3> DEFINE b == i - 1
    <3>1. IsFiniteSet(first..b) /\ Cardinality(first..b) = IF first > b THEN 0 ELSE b - first + 1
      <4> HIDE DEF b
      <4>1. b \in Int /\ first \in Int
        BY <2>0 DEF b
      <4> QED
        BY <4>1, FS_Interval
    <3> QED
      BY <3>1, <2>0
  <2>3. c <= i - first
    <3> HIDE DEF C
    <3> QED
      BY <2>1, <2>2, FS_Subset
  <2> QED
    BY <1>1, <2>0, <2>3
<1> QED
  BY <1>1, <1>2 DEF Counted

AlignedWaves(n) == {sound \in Waves(n) : \E ratio \in Nat \ {0} : Aligned(sound, n, ratio)}

Multiplies(F, m, n, strides) ==
  \A k \in 1..m, r \in Nat \ {0}, w \in Waves(n) :
    FitsFrames(w, n, r) => FitsFrames(F[k][w], n, r * strides[k])

Follows(f, sound, F, m, n) ==
  /\ f[0] = sound
  /\ \A k \in 1..m : f[k - 1] \in AlignedWaves(n) => f[k] = F[k][f[k - 1]]

(* Where each step multiplies the positions by its stride, all of them     *)
(* multiply by the product.                                                *)
LEMMA Chain ==
  ASSUME NEW n \in Nat \ {0}, NEW ratio \in Nat \ {0}, NEW sound, FitsFrames(sound, n, ratio),
         NEW m \in Nat, NEW strides \in [1..m -> Nat \ {0}],
         NEW F \in [1..m -> [AlignedWaves(n) -> AlignedWaves(n)]],
         Multiplies(F, m, n, strides), NEW f, Follows(f, sound, F, m, n)
  PROVE  FitsFrames(f[m], n, ratio * Rate(strides, m)) /\ Rate(strides, m) \in Nat \ {0}
<1>1. PICK rate \in [0..m -> Nat \ {0}] :
        /\ rate[0] = 1
        /\ \A k \in 1..m : rate[k] = rate[k - 1] * strides[k]
        /\ Rate(strides, m) = rate[m]
  BY RateIs
<1> DEFINE Held == {k \in 0..m : FitsFrames(f[k], n, ratio * rate[k])}
<1>2. 0 \in Held
  BY <1>1 DEF Follows
<1>3. ASSUME NEW k \in 1..m, k - 1 \in Held PROVE k \in Held
  <2>1. /\ FitsFrames(f[k - 1], n, ratio * rate[k - 1])
        /\ ratio * rate[k - 1] \in Nat \ {0} /\ strides[k] \in Nat \ {0}
    BY <1>3
  <2>2. f[k - 1] \in Waves(n) /\ f[k - 1] \in AlignedWaves(n)
    BY <2>1 DEF FitsFrames, AlignedWaves
  <2>3. FitsFrames(f[k], n, (ratio * rate[k - 1]) * strides[k])
    BY <2>1, <2>2 DEF Follows, Multiplies
  <2>4. (ratio * rate[k - 1]) * strides[k] = ratio * rate[k]
    BY <1>1
  <2> QED
    BY <2>3, <2>4
<1>4. 0..m \subseteq Held
  <2> HIDE DEF Held
  <2> QED
    BY <1>2, <1>3, UpTo
<1> QED
  BY <1>1, <1>4

UpsampleStrides(model) ==
  [k \in 1..UpsampleCount(model) |-> InferredStride(model.upsample[k - 1].kernel, model.divisor)]

BlockStrides(model) ==
  [k \in 1..BlockCount(model) |-> InferredStride(model.blocks[k].kernel, model.divisor)]

(* All upsamplings together (vocoder_decode_waveform). *)
LEMMA UpsampledAligned ==
  ASSUME NEW model, ValidNet(model), NEW n \in Nat \ {0}, NEW ratio \in Nat \ {0},
         NEW hidden, FitsFrames(hidden, n, ratio)
  PROVE  /\ Rate(UpsampleStrides(model), UpsampleCount(model)) \in Nat \ {0}
         /\ FitsFrames(Upsampled(model, hidden), n,
                 ratio * Rate(UpsampleStrides(model), UpsampleCount(model)))
<1> DEFINE m == UpsampleCount(model)
           strides == UpsampleStrides(model)
           S == AlignedWaves(n)
           Layer(k, w) == Upsample(w, model.upsample[k - 1], model.divisor)
           F == [k \in 1..m |-> [w \in S |-> Layer(k, w)]]
           up == CHOOSE up : up = [k \in 0..m |-> IF k = 0 THEN hidden ELSE Layer(k, up[k - 1])]
<1>1. m \in Nat /\ \A k \in 1..m : k - 1 \in DOMAIN model.upsample
  <2>1. /\ Counted(DOMAIN model.upsample, 0) \in Nat
        /\ 0..(0 + Counted(DOMAIN model.upsample, 0) - 1) \subseteq DOMAIN model.upsample
    BY CountedThere DEF ValidNet
  <2> QED
    BY <2>1 DEF UpsampleCount
<1>2. Upsampled(model, hidden) = up[m]
  BY DEF Upsampled
<1> HIDE DEF m
<1>3. ASSUME NEW k \in 1..m PROVE strides[k] \in Nat \ {0}
  <2>1. model.upsample[k - 1].kernel \in Nat \ {0} /\ model.divisor \in Int
    BY <1>1 DEF ValidNet
  <2>2. strides[k] = InferredStride(model.upsample[k - 1].kernel, model.divisor)
    BY DEF UpsampleStrides, m
  <2>3. InferredStride(model.upsample[k - 1].kernel, model.divisor) \in 1..model.upsample[k - 1].kernel
    BY <2>1, StrideInKernel
  <2> QED
    BY <2>1, <2>2, <2>3
<1>4. strides \in [1..m -> Nat \ {0}]
  BY <1>3 DEF UpsampleStrides, m
<1>5. ASSUME NEW k \in 1..m, NEW r \in Nat \ {0}, NEW w, FitsFrames(w, n, r)
      PROVE  FitsFrames(Layer(k, w), n, r * strides[k]) /\ Layer(k, w) \in S
  <2>1. FitsFrames(Layer(k, w), n, r * InferredStride(model.upsample[k - 1].kernel, model.divisor))
    BY <1>1, <1>5, UpsampleAligned DEF ValidNet, FitsFrames
  <2>2. strides[k] = InferredStride(model.upsample[k - 1].kernel, model.divisor)
    BY DEF UpsampleStrides, m
  <2>3. r * strides[k] \in Nat \ {0}
    BY <1>3
  <2> HIDE DEF Layer
  <2> QED
    BY <2>1, <2>2, <2>3 DEF FitsFrames, AlignedWaves
<1> HIDE DEF strides, Layer
<1>6. hidden \in S
  BY DEF FitsFrames, AlignedWaves
<1>7. \A k \in 1..m, w \in S : Layer(k, w) \in S
  BY <1>5 DEF AlignedWaves, FitsFrames
<1>8. F \in [1..m -> [S -> S]]
  <2> HIDE DEF S
  <2> QED
    BY <1>7
<1>9. up = [k \in 0..m |-> IF k = 0 THEN hidden ELSE Layer(k, up[k - 1])]
  <2>1. Iterates(S, m, hidden, F) # {}
    <3> HIDE DEF F, S
    <3> QED
      BY <1>1, <1>6, <1>8, Recursion
  <2>2. PICK g \in [0..m -> S] : g[0] = hidden /\ \A k \in 1..m : g[k] = F[k][g[k - 1]]
    BY <2>1 DEF Iterates
  <2> HIDE DEF S
  <2>3. ASSUME NEW k \in 1..m PROVE g[k] = Layer(k, g[k - 1])
    <3>1. g[k - 1] \in S
      BY <1>1
    <3>2. F[k][g[k - 1]] = Layer(k, g[k - 1])
      BY <3>1
    <3> QED
      BY <2>2, <3>2
  <2> HIDE DEF F
  <2>4. g = [k \in 0..m |-> IF k = 0 THEN hidden ELSE Layer(k, g[k - 1])]
    BY <1>1, <2>2, <2>3
  <2> QED
    BY <2>4
<1> HIDE DEF up
<1>10. Follows(up, hidden, F, m, n)
  BY <1>1, <1>9 DEF Follows
<1>11. Multiplies(F, m, n, strides)
  BY <1>5 DEF Multiplies, FitsFrames, AlignedWaves
<1>12. FitsFrames(up[m], n, ratio * Rate(strides, m)) /\ Rate(strides, m) \in Nat \ {0}
  <2> HIDE DEF F
  <2> QED
    BY <1>1, <1>4, <1>8, <1>10, <1>11, Chain
<1> QED
  BY <1>2, <1>12 DEF m, strides

(* All blocks of the decoder, between its first and last convolution       *)
(* (vocoder_decode_waveform).                                              *)
LEMMA DecodedAligned ==
  ASSUME NEW model, ValidNet(model), NEW n \in Nat \ {0}, NEW ratio \in Nat \ {0},
         NEW upsampled, FitsFrames(upsampled, n, ratio), NEW groups, Runs(model, groups)
  PROVE  /\ Rate(BlockStrides(model), BlockCount(model)) \in Nat \ {0}
         /\ FitsFrames(Decoded(model, upsampled), n,
                 ratio * Rate(BlockStrides(model), BlockCount(model)))
<1> DEFINE m == BlockCount(model)
           strides == BlockStrides(model)
           S == AlignedWaves(n)
           first == CausalConv(upsampled, model.convs[0], 1)
           Layer(k, w) == DecoderBlock(w, model.blocks[k], model.divisor)
           F == [k \in 1..m |-> [w \in S |-> Layer(k, w)]]
           block == CHOOSE block : block = [k \in 0..m |-> IF k = 0 THEN first ELSE Layer(k, block[k - 1])]
<1>1. m \in Nat /\ \A k \in 1..m : k \in DOMAIN model.blocks
  <2>1. /\ Counted(DOMAIN model.blocks, 1) \in Nat
        /\ 1..(1 + Counted(DOMAIN model.blocks, 1) - 1) \subseteq DOMAIN model.blocks
    BY CountedThere DEF ValidNet
  <2> QED
    BY <2>1 DEF BlockCount
<1>2. Decoded(model, upsampled) = CausalConv(block[m], model.convs[m + 2], 1)
  BY DEF Decoded
<1>kernels. model.convs[0] \in Nat \ {0} /\ model.convs[m + 2] \in Nat \ {0}
  BY DEF ValidNet, Runs
<1>begin. FitsFrames(first, n, ratio)
  BY <1>kernels, CausalConvAligned DEF FitsFrames
<1> HIDE DEF m
<1>3. ASSUME NEW k \in 1..m PROVE strides[k] \in Nat \ {0}
  <2>1. model.blocks[k].kernel \in Nat \ {0} /\ model.divisor \in Int
    BY <1>1 DEF ValidNet
  <2>2. strides[k] = InferredStride(model.blocks[k].kernel, model.divisor)
    BY DEF BlockStrides, m
  <2>3. InferredStride(model.blocks[k].kernel, model.divisor) \in 1..model.blocks[k].kernel
    BY <2>1, StrideInKernel
  <2> QED
    BY <2>1, <2>2, <2>3
<1>4. strides \in [1..m -> Nat \ {0}]
  BY <1>3 DEF BlockStrides, m
<1>5. ASSUME NEW k \in 1..m, NEW r \in Nat \ {0}, NEW w, FitsFrames(w, n, r)
      PROVE  FitsFrames(Layer(k, w), n, r * strides[k]) /\ Layer(k, w) \in S
  <2>1. FitsFrames(Layer(k, w), n, r * InferredStride(model.blocks[k].kernel, model.divisor))
    BY <1>1, <1>5, DecoderBlockAligned DEF ValidNet, FitsFrames
  <2>2. strides[k] = InferredStride(model.blocks[k].kernel, model.divisor)
    BY DEF BlockStrides, m
  <2>3. r * strides[k] \in Nat \ {0}
    BY <1>3
  <2> HIDE DEF Layer
  <2> QED
    BY <2>1, <2>2, <2>3 DEF FitsFrames, AlignedWaves
<1> HIDE DEF strides, Layer, first
<1>6. first \in S
  BY <1>begin DEF FitsFrames, AlignedWaves
<1>7. \A k \in 1..m, w \in S : Layer(k, w) \in S
  BY <1>5 DEF AlignedWaves, FitsFrames
<1>8. F \in [1..m -> [S -> S]]
  <2> HIDE DEF S
  <2> QED
    BY <1>7
<1>9. block = [k \in 0..m |-> IF k = 0 THEN first ELSE Layer(k, block[k - 1])]
  <2>1. Iterates(S, m, first, F) # {}
    <3> HIDE DEF F, S
    <3> QED
      BY <1>1, <1>6, <1>8, Recursion
  <2>2. PICK g \in [0..m -> S] : g[0] = first /\ \A k \in 1..m : g[k] = F[k][g[k - 1]]
    BY <2>1 DEF Iterates
  <2> HIDE DEF S
  <2>3. ASSUME NEW k \in 1..m PROVE g[k] = Layer(k, g[k - 1])
    <3>1. g[k - 1] \in S
      BY <1>1
    <3>2. F[k][g[k - 1]] = Layer(k, g[k - 1])
      BY <3>1
    <3> QED
      BY <2>2, <3>2
  <2> HIDE DEF F
  <2>4. g = [k \in 0..m |-> IF k = 0 THEN first ELSE Layer(k, g[k - 1])]
    BY <1>1, <2>2, <2>3
  <2> QED
    BY <2>4
<1> HIDE DEF block
<1>10. Follows(block, first, F, m, n)
  BY <1>1, <1>9 DEF Follows
<1>11. Multiplies(F, m, n, strides)
  BY <1>5 DEF Multiplies, FitsFrames, AlignedWaves
<1>12. FitsFrames(block[m], n, ratio * Rate(strides, m)) /\ Rate(strides, m) \in Nat \ {0}
  <2> HIDE DEF F
  <2> QED
    BY <1>1, <1>begin, <1>4, <1>8, <1>10, <1>11, Chain
<1>13. ratio * Rate(strides, m) \in Nat \ {0}
  BY <1>12
<1>14. FitsFrames(CausalConv(block[m], model.convs[m + 2], 1), n, ratio * Rate(strides, m))
  BY <1>kernels, <1>12, <1>13, CausalConvAligned DEF FitsFrames
<1> QED
  BY <1>2, <1>12, <1>14 DEF m, strides

(* Strides of one multiply nothing. *)
LEMMA RateOfOnes ==
  ASSUME NEW m \in Nat, NEW ones, ones = [k \in 1..m |-> 1]
  PROVE  Rate(ones, m) = 1
<1>1. ones \in [1..m -> Nat \ {0}]
  OBVIOUS
<1>2. PICK rate \in [0..m -> Nat \ {0}] :
        /\ rate[0] = 1
        /\ \A k \in 1..m : rate[k] = rate[k - 1] * ones[k]
        /\ Rate(ones, m) = rate[m]
  BY <1>1, RateIs
<1> DEFINE Held == {k \in 0..m : rate[k] = 1}
<1>3. 0 \in Held
  BY <1>2
<1>4. ASSUME NEW k \in 1..m, k - 1 \in Held PROVE k \in Held
  <2>1. rate[k - 1] = 1 /\ ones[k] = 1
    BY <1>4
  <2> QED
    BY <1>2, <2>1
<1>5. 0..m \subseteq Held
  <2> HIDE DEF Held
  <2> QED
    BY <1>3, <1>4, UpTo
<1> QED
  BY <1>2, <1>5

(* All layers of the transformer (vocoder_pre_transformer). *)
LEMMA HiddenAligned ==
  ASSUME NEW model, ValidNet(model), NEW n \in Nat \ {0}, NEW latents, FitsFrames(latents, n, 1)
  PROVE  FitsFrames(Hidden(model, latents), n, 1)
<1> DEFINE m == LayerCount(model)
           ones == [k \in 1..m |-> 1]
           S == AlignedWaves(n)
           first == CausalConv(latents, model.pre, 1)
           Layer(w) == Residual(w, Attend(w))
           F == [k \in 1..m |-> [w \in S |-> Layer(w)]]
           layer == CHOOSE layer : layer = [k \in 0..m |-> IF k = 0 THEN first ELSE Layer(layer[k - 1])]
<1>1. m \in Nat
  BY CountedThere DEF ValidNet, LayerCount
<1>2. Hidden(model, latents) = layer[m]
  BY DEF Hidden
<1>3. FitsFrames(first, n, 1)
  BY CausalConvAligned DEF ValidNet, FitsFrames
<1> HIDE DEF m, first
<1>4. ASSUME NEW r \in Nat \ {0}, NEW w, FitsFrames(w, n, r) PROVE FitsFrames(Layer(w), n, r) /\ Layer(w) \in S
  <2>1. Attend(w) \in Waves(n) /\ Aligned(Attend(w), n, r)
    BY <1>4, AttendAligned DEF FitsFrames
  <2>2. FitsFrames(Layer(w), n, r)
    BY <1>4, <2>1, ResidualAligned DEF FitsFrames
  <2> HIDE DEF Layer
  <2> QED
    BY <2>2 DEF FitsFrames, AlignedWaves
<1> HIDE DEF Layer
<1>5. first \in S
  BY <1>3 DEF FitsFrames, AlignedWaves
<1>6. \A w \in S : Layer(w) \in S
  BY <1>4 DEF AlignedWaves, FitsFrames
<1>7. F \in [1..m -> [S -> S]]
  <2> HIDE DEF S
  <2> QED
    BY <1>6
<1>8. layer = [k \in 0..m |-> IF k = 0 THEN first ELSE Layer(layer[k - 1])]
  <2>1. Iterates(S, m, first, F) # {}
    <3> HIDE DEF F, S
    <3> QED
      BY <1>1, <1>5, <1>7, Recursion
  <2>2. PICK g \in [0..m -> S] : g[0] = first /\ \A k \in 1..m : g[k] = F[k][g[k - 1]]
    BY <2>1 DEF Iterates
  <2> HIDE DEF S
  <2>3. ASSUME NEW k \in 1..m PROVE g[k] = Layer(g[k - 1])
    <3>1. g[k - 1] \in S
      BY <1>1
    <3>2. F[k][g[k - 1]] = Layer(g[k - 1])
      BY <3>1
    <3> QED
      BY <2>2, <3>2
  <2> HIDE DEF F
  <2>4. g = [k \in 0..m |-> IF k = 0 THEN first ELSE Layer(g[k - 1])]
    BY <1>1, <2>2, <2>3
  <2> QED
    BY <2>4
<1> HIDE DEF layer
<1>9. Follows(layer, first, F, m, n)
  BY <1>1, <1>8 DEF Follows
<1>10. Multiplies(F, m, n, ones)
  <2> SUFFICES ASSUME NEW k \in 1..m, NEW r \in Nat \ {0}, NEW w \in Waves(n), FitsFrames(w, n, r)
               PROVE  FitsFrames(F[k][w], n, r * ones[k])
    BY DEF Multiplies
  <2>1. F[k][w] = Layer(w) /\ r * ones[k] = r
    BY DEF FitsFrames, AlignedWaves
  <2> QED
    BY <2>1, <1>4
<1>11. ones \in [1..m -> Nat \ {0}]
  OBVIOUS
<1>12. FitsFrames(layer[m], n, 1 * Rate(ones, m))
  <2> HIDE DEF F, ones
  <2>1. 1 \in Nat \ {0}
    OBVIOUS
  <2> QED
    BY <1>1, <1>3, <1>7, <1>9, <1>10, <1>11, <2>1, Chain
<1>13. 1 * Rate(ones, m) = 1
  BY <1>1, RateOfOnes
<1> QED
  BY <1>2, <1>12, <1>13

(* The vocoder as a whole, for any net whose kernels are positive and for  *)
(* which the code gives no error: as many samples for each frame as the    *)
(* product of the strides, each of which sounds with its own frame and     *)
(* depends on no later one (decode_vocoder_latents, vocoder_decode_waveform).*)
THEOREM WaveformAligned ==
  ASSUME NEW model, ValidNet(model), NEW groups, Runs(model, groups), NEW n \in Nat \ {0}
  PROVE  /\ Waveform(model, n) \in Waves(n)
         /\ Aligned(Waveform(model, n), n,
                    Rate(UpsampleStrides(model), UpsampleCount(model))
                      * Rate(BlockStrides(model), BlockCount(model)))
<1> DEFINE hidden == Hidden(model, Latents(n))
           up == Rate(UpsampleStrides(model), UpsampleCount(model))
           upsampled == Upsampled(model, hidden)
<1>1. FitsFrames(Latents(n), n, 1)
  <2>1. \A t \in 1..n : FrameOf(t, 1) = t
    BY DEF FrameOf
  <2>2. Latents(n) \in Waves(n) /\ Len(Latents(n)) = n /\ \A t \in 1..n : Latents(n)[t] = {t}
    BY DEF Latents, Waves
  <2> QED
    BY <2>1, <2>2 DEF FitsFrames, Aligned
<1>2. FitsFrames(hidden, n, 1)
  BY <1>1, HiddenAligned
<1> HIDE DEF hidden
<1>3. up \in Nat \ {0} /\ FitsFrames(upsampled, n, 1 * up)
  <2>1. 1 \in Nat \ {0}
    OBVIOUS
  <2> QED
    BY <1>2, <2>1, UpsampledAligned
<1>4. 1 * up = up
  BY <1>3
<1> HIDE DEF up, upsampled
<1>5. FitsFrames(Decoded(model, upsampled), n, up * Rate(BlockStrides(model), BlockCount(model)))
  BY <1>3, <1>4, DecodedAligned
<1> QED
  BY <1>5 DEF Waveform, FitsFrames, hidden, up, upsampled

-----------------------------------------------------------------------------
(* What is put into s comes from the first m of t, in order. *)
Embeds(s, t, m) ==
  \E place \in [1..Len(s) -> 1..m] :
    /\ \A i \in 1..Len(s) : s[i] = t[place[i]]
    /\ \A i, j \in 1..Len(s) : i < j => place[i] < place[j]

(* What comes from fewer comes from more. *)
LEMMA EmbedsWeaken ==
  ASSUME NEW s, NEW t, NEW m \in Nat, NEW more \in Nat, m <= more, Len(s) \in Nat, Embeds(s, t, m)
  PROVE  Embeds(s, t, more)
<1>1. PICK place \in [1..Len(s) -> 1..m] :
        /\ \A i \in 1..Len(s) : s[i] = t[place[i]]
        /\ \A i, j \in 1..Len(s) : i < j => place[i] < place[j]
  BY DEF Embeds
<1>2. place \in [1..Len(s) -> 1..more]
  BY <1>1
<1> QED
  BY <1>1, <1>2 DEF Embeds

(* A run of t that follows may be put behind. *)
LEMMA EmbedsConcat ==
  ASSUME NEW A, NEW s \in Seq(A), NEW u \in Seq(A), NEW t, NEW m \in Nat, Embeds(s, t, m),
         \A i \in 1..Len(u) : u[i] = t[m + i]
  PROVE  Embeds(s \o u, t, m + Len(u))
<1> DEFINE n == Len(s)
           k == Len(u)
           all == s \o u
<1>1. PICK place \in [1..n -> 1..m] :
        /\ \A i \in 1..n : s[i] = t[place[i]]
        /\ \A i, j \in 1..n : i < j => place[i] < place[j]
  BY DEF Embeds
<1>2. /\ n \in Nat /\ k \in Nat /\ Len(all) = n + k
      /\ \A i \in 1..n + k : all[i] = IF i <= n THEN s[i] ELSE u[i - n]
  BY ConcatProperties
<1> DEFINE there == [i \in 1..n + k |-> IF i <= n THEN place[i] ELSE m + i - n]
<1> HIDE DEF n, k, all
<1>3. there \in [1..n + k -> 1..m + k]
  <2> SUFFICES ASSUME NEW i \in 1..n + k PROVE there[i] \in 1..m + k
    OBVIOUS
  <2>1. CASE i <= n
    BY <1>1, <1>2, <2>1
  <2>2. CASE i > n
    BY <1>2, <2>2
  <2> QED
    BY <1>2, <2>1, <2>2
<1>4. ASSUME NEW i \in 1..n + k PROVE all[i] = t[there[i]]
  <2>1. CASE i <= n
    <3>1. i \in 1..n
      BY <1>2, <2>1
    <3> QED
      BY <1>1, <1>2, <2>1, <3>1
  <2>2. CASE i > n
    <3>1. i - n \in 1..k /\ there[i] = m + (i - n)
      BY <1>2, <2>2
    <3>2. all[i] = u[i - n] /\ u[i - n] = t[m + (i - n)]
      BY <1>2, <2>2, <3>1 DEF k
    <3> QED
      BY <3>1, <3>2
  <2> QED
    BY <1>2, <2>1, <2>2
<1>5. ASSUME NEW i \in 1..n + k, NEW j \in 1..n + k, i < j PROVE there[i] < there[j]
  <2>1. CASE j <= n
    <3>1. i \in 1..n /\ j \in 1..n /\ there[i] = place[i] /\ there[j] = place[j]
      BY <1>2, <1>5, <2>1
    <3> QED
      BY <1>1, <1>5, <3>1
  <2>2. CASE i <= n /\ j > n
    <3>1. i \in 1..n /\ there[i] = place[i] /\ there[j] = m + j - n
      BY <1>2, <2>2
    <3>2. place[i] \in 1..m
      BY <1>1, <3>1
    <3> QED
      BY <1>2, <2>2, <3>1, <3>2
  <2>3. CASE i > n
    BY <1>2, <1>5, <2>3
  <2> QED
    BY <1>2, <2>1, <2>2, <2>3
<1> HIDE DEF there
<1>6. Embeds(all, t, m + k)
  BY <1>2, <1>3, <1>4, <1>5 DEF Embeds
<1> QED
  BY <1>6 DEF all, k

(* What comes from what comes from t comes from t. *)
LEMMA EmbedsTwice ==
  ASSUME NEW A, NEW s \in Seq(A), NEW r \in Seq(A), NEW t, NEW m \in Nat,
         Embeds(r, s, Len(s)), Embeds(s, t, m)
  PROVE  Embeds(r, t, m)
<1>1. PICK f \in [1..Len(s) -> 1..m] :
        /\ \A i \in 1..Len(s) : s[i] = t[f[i]]
        /\ \A i, j \in 1..Len(s) : i < j => f[i] < f[j]
  BY DEF Embeds
<1>2. PICK g \in [1..Len(r) -> 1..Len(s)] :
        /\ \A i \in 1..Len(r) : r[i] = s[g[i]]
        /\ \A i, j \in 1..Len(r) : i < j => g[i] < g[j]
  BY DEF Embeds
<1> DEFINE h == [i \in 1..Len(r) |-> f[g[i]]]
<1>3. h \in [1..Len(r) -> 1..m] /\ \A i \in 1..Len(r) : r[i] = t[h[i]]
  BY <1>1, <1>2
<1>4. \A i, j \in 1..Len(r) : i < j => h[i] < h[j]
  BY <1>1, <1>2
<1> QED
  BY <1>3, <1>4 DEF Embeds

-----------------------------------------------------------------------------
(* The pieces of tokens are as the fold takes them, one token at a time. *)
LEMMA TextIs ==
  ASSUME NEW tokens \in Seq(Piece)
  PROVE  Text(tokens) \in Seq(Piece \ {Blank})
<1> DEFINE n == Len(tokens)
           S == Seq(Piece \ {Blank})
           F == [k \in 1..n |-> [x \in S |-> TakeToken(x, tokens[k])]]
           Body(f) == [s \in SUBSET DOMAIN tokens |->
                         IF s = {} THEN <<>> ELSE TakeToken(f[s \ {Max(s)}], tokens[Max(s)])]
           iter == CHOOSE f : f = Body(f)
<1>1. n \in Nat /\ DOMAIN tokens = 1..n /\ \A k \in 1..n : tokens[k] \in Piece
  OBVIOUS
<1>2. <<>> \in S
  OBVIOUS
<1>3. ASSUME NEW x \in S, NEW p \in Piece PROVE TakeToken(x, p) \in S
  BY DEF TakeToken
<1>4. Text(tokens) = iter[DOMAIN tokens]
  BY Zenon DEF Text, FoldLeft, MapThenFoldSet
<1> HIDE DEF n, S
<1>5. F \in [1..n -> [S -> S]] /\ \A k \in 1..n : \A x \in S : F[k][x] = TakeToken(x, tokens[k])
  BY <1>1, <1>3
<1> HIDE DEF F
<1>6. PICK g \in [SUBSET (1..n) -> S] :
        /\ g[{}] = <<>>
        /\ \A s \in SUBSET (1..n) : s # {} => g[s] = F[Max(s)][g[s \ {Max(s)}]]
  <2>1. SetIterates(S, n, <<>>, F) # {}
    BY <1>1, <1>2, <1>5, SubsetRecursion
  <2> QED
    BY <2>1 DEF SetIterates
<1>7. \A s \in SUBSET (1..n) : s # {} => Max(s) \in 1..n /\ s \ {Max(s)} \in SUBSET (1..n)
  BY <1>1, Largest
<1>8. iter = Body(iter)
  <2>1. \A s \in SUBSET (1..n) : g[s] = IF s = {} THEN <<>> ELSE TakeToken(g[s \ {Max(s)}], tokens[Max(s)])
    BY <1>5, <1>6, <1>7
  <2>2. g = Body(g)
    BY <1>1, <2>1
  <2> HIDE DEF Body
  <2> QED
    BY <2>2
<1> HIDE DEF iter
<1>9. \A s \in SUBSET (1..n) : iter[s] = IF s = {} THEN <<>> ELSE TakeToken(iter[s \ {Max(s)}], tokens[Max(s)])
  BY <1>1, <1>8, Zenon
<1>10. \E h \in Iterates(S, n, <<>>, F) : h[n] = iter[1..n]
  <2>1. iter[{}] = <<>>
    BY <1>9
  <2>2. \A s \in SUBSET (1..n) : s # {} /\ iter[s \ {Max(s)}] \in S
                                    => iter[s] = F[Max(s)][iter[s \ {Max(s)}]]
    BY <1>5, <1>7, <1>9
  <2>3. FollowsFrom(S, n, <<>>, F, iter)
    BY <2>1, <2>2, Zenon DEF FollowsFrom
  <2>4. n \in Nat /\ <<>> \in S /\ F \in [1..n -> [S -> S]]
    BY <1>1, <1>2, <1>5
  <2> QED
    BY <2>3, <2>4, PrefixRecursion
<1>11. PICK h \in [0..n -> S] :
         /\ h[0] = <<>> /\ h[n] = iter[1..n]
         /\ \A k \in 1..n : h[k] = F[k][h[k - 1]]
  BY <1>10 DEF Iterates
<1>12. ASSUME NEW k \in 1..n PROVE h[k - 1] \in S /\ h[k] = TakeToken(h[k - 1], tokens[k])
  BY <1>1, <1>5, <1>11
<1>13. h[n] \in S
  BY <1>1, <1>11
<1> QED
  BY <1>1, <1>4, <1>11, <1>13 DEF S

(* A text that is being cut into sentences. *)
CutState == [parts : Seq(Seq(Piece)), current : Seq(Piece)]
NoCut == [parts |-> <<>>, current |-> <<>>]

(* The sentences of a text are as the fold takes them, one piece at a time.*)
LEMMA CutIs ==
  ASSUME NEW words \in Seq(Piece)
  PROVE  \E cut \in [0..Len(words) -> CutState] :
           /\ cut[0] = NoCut
           /\ \A k \in 1..Len(words) : cut[k] = TakePiece(cut[k - 1], words[k])
           /\ FoldLeft(TakePiece, NoCut, words) = cut[Len(words)]
<1> DEFINE n == Len(words)
           S == CutState
           F == [k \in 1..n |-> [x \in S |-> TakePiece(x, words[k])]]
           Body(f) == [s \in SUBSET DOMAIN words |->
                         IF s = {} THEN NoCut ELSE TakePiece(f[s \ {Max(s)}], words[Max(s)])]
           iter == CHOOSE f : f = Body(f)
<1>1. n \in Nat /\ DOMAIN words = 1..n /\ \A k \in 1..n : words[k] \in Piece
  OBVIOUS
<1>2. NoCut \in S
  BY DEF NoCut, CutState
<1>3. ASSUME NEW x \in S, NEW p \in Piece PROVE TakePiece(x, p) \in S
  <2> DEFINE sentence == Append(x.current, p)
             parts == x.parts
  <2>1. sentence \in Seq(Piece) /\ parts \in Seq(Seq(Piece)) /\ x \in [parts : Seq(Seq(Piece)), current : Seq(Piece)]
    BY DEF CutState
  <2> HIDE DEF sentence, parts
  <2>2. Append(parts, sentence) \in Seq(Seq(Piece)) /\ <<>> \in Seq(Piece)
    BY <2>1
  <2>3. [x EXCEPT !.current = sentence] \in CutState
    BY <2>1 DEF CutState
  <2>4. [parts |-> IF Contains(parts, sentence) THEN parts ELSE Append(parts, sentence), current |-> <<>>] \in CutState
    BY <2>1, <2>2 DEF CutState
  <2> QED
    BY <2>3, <2>4 DEF TakePiece, sentence, parts
<1>4. FoldLeft(TakePiece, NoCut, words) = iter[DOMAIN words]
  BY Zenon DEF FoldLeft, MapThenFoldSet
<1> HIDE DEF n, S
<1>5. F \in [1..n -> [S -> S]] /\ \A k \in 1..n : \A x \in S : F[k][x] = TakePiece(x, words[k])
  BY <1>1, <1>3
<1> HIDE DEF F
<1>6. PICK g \in [SUBSET (1..n) -> S] :
        /\ g[{}] = NoCut
        /\ \A s \in SUBSET (1..n) : s # {} => g[s] = F[Max(s)][g[s \ {Max(s)}]]
  <2>1. SetIterates(S, n, NoCut, F) # {}
    BY <1>1, <1>2, <1>5, SubsetRecursion
  <2> QED
    BY <2>1 DEF SetIterates
<1>7. \A s \in SUBSET (1..n) : s # {} => Max(s) \in 1..n /\ s \ {Max(s)} \in SUBSET (1..n)
  BY <1>1, Largest
<1>8. iter = Body(iter)
  <2>1. \A s \in SUBSET (1..n) : g[s] = IF s = {} THEN NoCut ELSE TakePiece(g[s \ {Max(s)}], words[Max(s)])
    BY <1>5, <1>6, <1>7
  <2>2. g = Body(g)
    BY <1>1, <2>1
  <2> HIDE DEF Body
  <2> QED
    BY <2>2
<1> HIDE DEF iter
<1>9. \A s \in SUBSET (1..n) : iter[s] = IF s = {} THEN NoCut ELSE TakePiece(iter[s \ {Max(s)}], words[Max(s)])
  BY <1>1, <1>8, Zenon
<1>10. \E h \in Iterates(S, n, NoCut, F) : h[n] = iter[1..n]
  <2>1. iter[{}] = NoCut
    BY <1>9
  <2>2. \A s \in SUBSET (1..n) : s # {} /\ iter[s \ {Max(s)}] \in S
                                    => iter[s] = F[Max(s)][iter[s \ {Max(s)}]]
    BY <1>5, <1>7, <1>9
  <2>3. FollowsFrom(S, n, NoCut, F, iter)
    BY <2>1, <2>2, Zenon DEF FollowsFrom
  <2>4. n \in Nat /\ NoCut \in S /\ F \in [1..n -> [S -> S]]
    BY <1>1, <1>2, <1>5
  <2> QED
    BY <2>3, <2>4, PrefixRecursion
<1>11. PICK h \in [0..n -> S] :
         /\ h[0] = NoCut /\ h[n] = iter[1..n]
         /\ \A k \in 1..n : h[k] = F[k][h[k - 1]]
  BY <1>10 DEF Iterates
<1>12. ASSUME NEW k \in 1..n PROVE h[k - 1] \in S /\ h[k] = TakePiece(h[k - 1], words[k])
  BY <1>1, <1>5, <1>11
<1> QED
  BY <1>1, <1>4, <1>11, <1>12 DEF S, n

(* Runs of a word that are being collapsed. *)
RunState == [previous : Words \cup {""}, count : Nat, output : Seq(Piece)]
NoRun == [previous |-> "", count |-> 0, output |-> <<>>]

(* Runs are collapsed as the fold takes the pieces, one at a time. *)
LEMMA RunIs ==
  ASSUME NEW words \in Seq(Piece)
  PROVE  \E run \in [0..Len(words) -> RunState] :
           /\ run[0] = NoRun
           /\ \A k \in 1..Len(words) : run[k] = TakeWord(run[k - 1], words[k])
           /\ CollapseRepeatedWordRuns(words) = run[Len(words)].output
<1> DEFINE n == Len(words)
           S == RunState
           F == [k \in 1..n |-> [x \in S |-> TakeWord(x, words[k])]]
           Body(f) == [s \in SUBSET DOMAIN words |->
                         IF s = {} THEN NoRun ELSE TakeWord(f[s \ {Max(s)}], words[Max(s)])]
           iter == CHOOSE f : f = Body(f)
<1>1. n \in Nat /\ DOMAIN words = 1..n /\ \A k \in 1..n : words[k] \in Piece
  OBVIOUS
<1>2. NoRun \in S
  BY DEF NoRun, RunState
<1>3. ASSUME NEW x \in S, NEW p \in Piece PROVE TakeWord(x, p) \in S
  <2> DEFINE again == p.word # "" /\ p.word = x.previous
             before == x.count
             kept == x.output
             count == IF again THEN before + 1 ELSE 0
             output == IF count >= 2 THEN kept ELSE Append(kept, p)
  <2>0. p.word \in Words \cup {""}
    BY DEF Piece
  <2>1. kept \in Seq(Piece) /\ before \in Nat
    BY DEF RunState
  <2>2. count \in Nat /\ output \in Seq(Piece)
    <3> HIDE DEF kept, before, again, S
    <3>1. count \in Nat
      BY <2>1
    <3>2. Append(kept, p) \in Seq(Piece)
      BY <2>1
    <3> HIDE DEF count
    <3> QED
      BY <2>1, <3>1, <3>2
  <2> HIDE DEF count, output
  <2>3. [previous |-> p.word, count |-> count, output |-> output] \in RunState
    BY <2>0, <2>2 DEF RunState
  <2> QED
    BY <2>3 DEF TakeWord, count, output
<1>4. FoldLeft(TakeWord, NoRun, words) = iter[DOMAIN words]
  BY Zenon DEF FoldLeft, MapThenFoldSet
<1> HIDE DEF n, S
<1>5. F \in [1..n -> [S -> S]] /\ \A k \in 1..n : \A x \in S : F[k][x] = TakeWord(x, words[k])
  BY <1>1, <1>3
<1> HIDE DEF F
<1>6. PICK g \in [SUBSET (1..n) -> S] :
        /\ g[{}] = NoRun
        /\ \A s \in SUBSET (1..n) : s # {} => g[s] = F[Max(s)][g[s \ {Max(s)}]]
  <2>1. SetIterates(S, n, NoRun, F) # {}
    BY <1>1, <1>2, <1>5, SubsetRecursion
  <2> QED
    BY <2>1 DEF SetIterates
<1>7. \A s \in SUBSET (1..n) : s # {} => Max(s) \in 1..n /\ s \ {Max(s)} \in SUBSET (1..n)
  BY <1>1, Largest
<1>8. iter = Body(iter)
  <2>1. \A s \in SUBSET (1..n) : g[s] = IF s = {} THEN NoRun ELSE TakeWord(g[s \ {Max(s)}], words[Max(s)])
    BY <1>5, <1>6, <1>7
  <2>2. g = Body(g)
    BY <1>1, <2>1
  <2> HIDE DEF Body
  <2> QED
    BY <2>2
<1> HIDE DEF iter
<1>9. \A s \in SUBSET (1..n) : iter[s] = IF s = {} THEN NoRun ELSE TakeWord(iter[s \ {Max(s)}], words[Max(s)])
  BY <1>1, <1>8, Zenon
<1>10. \E h \in Iterates(S, n, NoRun, F) : h[n] = iter[1..n]
  <2>1. iter[{}] = NoRun
    BY <1>9
  <2>2. \A s \in SUBSET (1..n) : s # {} /\ iter[s \ {Max(s)}] \in S
                                    => iter[s] = F[Max(s)][iter[s \ {Max(s)}]]
    BY <1>5, <1>7, <1>9
  <2>3. FollowsFrom(S, n, NoRun, F, iter)
    BY <2>1, <2>2, Zenon DEF FollowsFrom
  <2>4. n \in Nat /\ NoRun \in S /\ F \in [1..n -> [S -> S]]
    BY <1>1, <1>2, <1>5
  <2> QED
    BY <2>3, <2>4, PrefixRecursion
<1>11. PICK h \in [0..n -> S] :
         /\ h[0] = NoRun /\ h[n] = iter[1..n]
         /\ \A k \in 1..n : h[k] = F[k][h[k - 1]]
  BY <1>10 DEF Iterates
<1>12. ASSUME NEW k \in 1..n PROVE h[k - 1] \in S /\ h[k] = TakeWord(h[k - 1], words[k])
  BY <1>1, <1>5, <1>11
<1>13. CollapseRepeatedWordRuns(words) = FoldLeft(TakeWord, NoRun, words).output
  BY Zenon DEF CollapseRepeatedWordRuns, NoRun
<1> QED
  BY <1>1, <1>4, <1>11, <1>12, <1>13 DEF S, n

-----------------------------------------------------------------------------
(* Cutting: after k pieces, what is not in a sentence yet is the pieces    *)
(* since the last mark, and everything before them is in the sentences,    *)
(* which keep the order.                                                   *)
Cut(words, k, parts, current) ==
  LET flat == FlattenSeq(parts)
      open == Len(current)
  IN  /\ open <= k
      /\ \A i \in 1..open : current[i] = words[k - open + i] /\ current[i].mark = ""
      /\ Embeds(flat, words, k - open)
      /\ \A i \in 1..k - open : \E j \in 1..Len(flat) : flat[j] = words[i]
      /\ \A q \in 1..Len(parts) : \A j \in 1..Len(parts[q]) :
           \E i \in 1..Len(flat) : flat[i] = parts[q][j]

(* One more piece is taken. *)
LEMMA CutStep ==
  ASSUME NEW words \in Seq(Piece), NEW k \in 1..Len(words),
         NEW parts \in Seq(Seq(Piece)), NEW current \in Seq(Piece), Cut(words, k - 1, parts, current)
  PROVE  LET piece == words[k]
             sentence == Append(current, piece)
         IN  /\ piece.mark = "" => Cut(words, k, parts, sentence)
             /\ piece.mark # "" /\ Contains(parts, sentence) => Cut(words, k, parts, <<>>)
             /\ piece.mark # "" /\ ~Contains(parts, sentence)
                  => Cut(words, k, Append(parts, sentence), <<>>)
<1> DEFINE piece == words[k]
           sentence == Append(current, piece)
           flat == FlattenSeq(parts)
           open == Len(current)
           m == k - 1 - open
<1>1. /\ open \in Nat /\ k \in Nat /\ k >= 1 /\ m \in Nat /\ m + open + 1 = k
      /\ Embeds(flat, words, m)
      /\ \A i \in 1..m : \E j \in 1..Len(flat) : flat[j] = words[i]
  <2>1. /\ open <= k - 1 /\ Embeds(flat, words, m)
        /\ \A i \in 1..m : \E j \in 1..Len(flat) : flat[j] = words[i]
    BY DEF Cut
  <2>2. open \in Nat /\ k \in Nat /\ k >= 1
    OBVIOUS
  <2> HIDE DEF open, flat
  <2>3. m \in Nat /\ m + open + 1 = k
    BY <2>1, <2>2
  <2> QED
    BY <2>1, <2>2, <2>3
<1>2. \A i \in 1..open : current[i] = words[m + i] /\ current[i].mark = ""
  BY DEF Cut
<1>3. \A q \in 1..Len(parts) : \A j \in 1..Len(parts[q]) : \E i \in 1..Len(flat) : flat[i] = parts[q][j]
  BY DEF Cut
<1>4. flat \in Seq(Piece) /\ Len(flat) \in Nat /\ piece \in Piece
  <2>1. flat \in Seq(Piece)
    BY FlattenType
  <2> HIDE DEF flat
  <2> QED
    BY <2>1
<1>5. /\ sentence \in Seq(Piece) /\ Len(sentence) = open + 1
      /\ \A i \in 1..open : sentence[i] = current[i]
      /\ sentence[open + 1] = piece
  BY <1>4
<1> HIDE DEF open, m, flat, sentence
<1>6. \A i \in 1..open + 1 : sentence[i] = words[m + i]
  <2> SUFFICES ASSUME NEW i \in 1..open + 1 PROVE sentence[i] = words[m + i]
    OBVIOUS
  <2>1. CASE i = open + 1
    BY <1>1, <1>5, <2>1
  <2>2. CASE i \in 1..open
    BY <1>2, <1>5, <2>2
  <2> QED
    BY <1>1, <2>1, <2>2
<1>7. ASSUME piece.mark = "" PROVE Cut(words, k, parts, sentence)
  <2>1. \A i \in 1..open + 1 : sentence[i].mark = ""
    <3> SUFFICES ASSUME NEW i \in 1..open + 1 PROVE sentence[i].mark = ""
      OBVIOUS
    <3>1. CASE i = open + 1
      BY <1>5, <1>7, <3>1, Zenon
    <3>2. CASE i \in 1..open
      BY <1>2, <1>5, <3>2, Zenon
    <3>3. i = open + 1 \/ i \in 1..open
      BY <1>1
    <3> QED
      BY <3>1, <3>2, <3>3, Zenon
  <2>2. k - Len(sentence) = m /\ Len(sentence) <= k /\ Len(sentence) = open + 1
    BY <1>1, <1>5
  <2> QED
    BY <1>1, <1>3, <1>6, <2>1, <2>2, Zenon DEF Cut, flat
<1>8. ASSUME NEW i \in 1..k, NEW more, more \in Seq(Piece),
             \A x \in 1..Len(flat) : x \in 1..Len(more) /\ more[x] = flat[x],
             \A x \in 1..open + 1 : \E y \in 1..Len(more) : more[y] = sentence[x]
      PROVE  \E j \in 1..Len(more) : more[j] = words[i]
  <2>1. CASE i <= m
    BY <1>1, <1>8, <2>1
  <2>2. CASE i > m
    <3>1. i - m \in 1..open + 1 /\ m + (i - m) = i
      BY <1>1, <2>2
    <3>2. sentence[i - m] = words[i]
      BY <1>6, <3>1
    <3> QED
      BY <1>8, <3>1, <3>2
  <2> QED
    BY <1>1, <2>1, <2>2
<1>9. Len(<<>>) = 0 /\ k - 0 = k /\ 0 <= k /\ 1..0 = {}
  BY <1>1
<1>10. ASSUME Contains(parts, sentence) PROVE Cut(words, k, parts, <<>>)
  <2>1. PICK q \in 1..Len(parts) : parts[q] = sentence
    BY <1>10 DEF Contains
  <2>2. \A x \in 1..open + 1 : \E y \in 1..Len(flat) : flat[y] = sentence[x]
    BY <1>3, <1>5, <2>1
  <2>3. \A i \in 1..k : \E j \in 1..Len(flat) : flat[j] = words[i]
    BY <1>4, <1>8, <2>2
  <2>4. Embeds(flat, words, k)
    BY <1>1, <1>4, EmbedsWeaken
  <2>5. \A i \in 1..Len(<<>>) : FALSE
    BY <1>9
  <2> QED
    BY <1>3, <1>9, <2>3, <2>4, <2>5, Zenon DEF Cut, flat
<1>11. Cut(words, k, Append(parts, sentence), <<>>)
  <2> DEFINE longer == Append(parts, sentence)
             more == FlattenSeq(longer)
  <2>1. more = flat \o sentence
    BY <1>5, FlattenAppend DEF flat
  <2>2. /\ more \in Seq(Piece)
        /\ Len(more) = Len(flat) + open + 1
        /\ \A x \in 1..Len(flat) : x \in 1..Len(more) /\ more[x] = flat[x]
        /\ \A x \in 1..open + 1 : Len(flat) + x \in 1..Len(more) /\ more[Len(flat) + x] = sentence[x]
    <3> HIDE DEF more
    <3>1. /\ more \in Seq(Piece)
          /\ Len(more) = Len(flat) + Len(sentence)
          /\ \A i \in 1..Len(flat) + Len(sentence) :
               more[i] = IF i <= Len(flat) THEN flat[i] ELSE sentence[i - Len(flat)]
      BY <1>4, <1>5, <2>1, ConcatProperties
    <3>2. \A x \in 1..Len(flat) : x \in 1..Len(more) /\ more[x] = flat[x]
      BY <1>1, <1>4, <1>5, <3>1
    <3>3. ASSUME NEW x \in 1..open + 1
          PROVE  Len(flat) + x \in 1..Len(more) /\ more[Len(flat) + x] = sentence[x]
      <4>1. /\ Len(flat) + x \in 1..Len(flat) + Len(sentence)
            /\ ~(Len(flat) + x <= Len(flat)) /\ (Len(flat) + x) - Len(flat) = x
        BY <1>1, <1>4, <1>5
      <4> QED
        BY <3>1, <4>1
    <3>4. Len(more) = Len(flat) + open + 1
      BY <1>1, <1>4, <1>5, <3>1
    <3> QED
      BY <3>1, <3>2, <3>3, <3>4
  <2>3. Embeds(more, words, k)
    <3>1. Embeds(flat \o sentence, words, m + Len(sentence))
      BY <1>1, <1>4, <1>5, <1>6, EmbedsConcat
    <3>2. m + Len(sentence) = k
      BY <1>1, <1>5
    <3> QED
      BY <2>1, <3>1, <3>2
  <2>4. /\ longer \in Seq(Seq(Piece)) /\ Len(longer) = Len(parts) + 1
        /\ \A q \in 1..Len(parts) : longer[q] = parts[q]
        /\ longer[Len(parts) + 1] = sentence /\ Len(parts) \in Nat
    BY <1>5
  <2> HIDE DEF more, longer
  <2>5. \A x \in 1..open + 1 : \E y \in 1..Len(more) : more[y] = sentence[x]
    BY <2>2
  <2>6. \A i \in 1..k : \E j \in 1..Len(more) : more[j] = words[i]
    BY <1>8, <2>2, <2>5
  <2>7. ASSUME NEW q \in 1..Len(longer), NEW j \in 1..Len(longer[q])
        PROVE  \E i \in 1..Len(more) : more[i] = longer[q][j]
    <3>1. CASE q \in 1..Len(parts)
      <4>1. longer[q] = parts[q] /\ j \in 1..Len(parts[q])
        BY Zenon, <2>4, <2>7, <3>1
      <4>2. \E i \in 1..Len(flat) : flat[i] = parts[q][j]
        BY Zenon, <1>3, <3>1, <4>1
      <4> QED
        BY Zenon, <2>2, <4>1, <4>2
    <3>2. CASE q = Len(parts) + 1
      BY <1>5, <2>4, <2>5, <2>7, <3>2
    <3> QED
      BY <2>4, <3>1, <3>2
  <2>8. \A i \in 1..Len(<<>>) : FALSE
    BY <1>9
  <2> QED
    BY <1>9, <2>3, <2>6, <2>7, <2>8, Zenon DEF Cut, more, longer
<1> QED
  BY <1>7, <1>10, <1>11 DEF sentence

(* Cutting keeps what Cut says to the end. *)
LEMMA CutAll ==
  ASSUME NEW words \in Seq(Piece)
  PROVE  \E parts \in Seq(Seq(Piece)), current \in Seq(Piece) :
           /\ Cut(words, Len(words), parts, current)
           /\ FoldLeft(TakePiece, NoCut, words) = [parts |-> parts, current |-> current]
<1> DEFINE n == Len(words)
<1>1. PICK cut \in [0..n -> CutState] :
        /\ cut[0] = NoCut
        /\ \A k \in 1..n : cut[k] = TakePiece(cut[k - 1], words[k])
        /\ FoldLeft(TakePiece, NoCut, words) = cut[n]
  BY CutIs
<1>2. n \in Nat /\ \A k \in 1..n : words[k] \in Piece
  OBVIOUS
<1> DEFINE Good0 == {k \in 0..n : Cut(words, k, cut[k].parts, cut[k].current)}
<1>3. 0 \in Good0
  <2>1. cut[0].parts = <<>> /\ cut[0].current = <<>>
    BY <1>1 DEF NoCut
  <2>2. FlattenSeq(<<>>) = <<>>
    BY DEF FlattenSeq
  <2>3. Embeds(<<>>, words, 0)
    BY DEF Embeds
  <2>4. Cut(words, 0, <<>>, <<>>)
    BY <2>2, <2>3 DEF Cut
  <2> QED
    BY <1>2, <2>1, <2>4
<1>4. ASSUME NEW k \in 1..n, k - 1 \in Good0 PROVE k \in Good0
  <2> DEFINE parts == cut[k - 1].parts
             current == cut[k - 1].current
             sentence == Append(current, words[k])
             piece == words[k]
  <2>1. k - 1 \in 0..n /\ k \in 0..n
    BY <1>2
  <2>2. parts \in Seq(Seq(Piece)) /\ current \in Seq(Piece) /\ cut[k - 1] \in CutState
    <3>1. cut[k - 1] \in CutState
      BY <1>1, <2>1
    <3> QED
      BY <3>1 DEF CutState
  <2>3. Cut(words, k - 1, parts, current)
    BY <1>4
  <2>4. cut[k] = TakePiece(cut[k - 1], piece)
    BY <1>1
  <2>5. CASE piece.mark = ""
    <3>1. cut[k] = [cut[k - 1] EXCEPT !.current = sentence]
      BY <2>4, <2>5, Zenon DEF TakePiece
    <3>2. cut[k].parts = parts /\ cut[k].current = sentence
      BY <2>2, <3>1 DEF CutState
    <3>3. Cut(words, k, parts, sentence)
      BY <2>2, <2>3, <2>5, CutStep
    <3> QED
      BY <2>1, <3>2, <3>3
  <2>6. CASE piece.mark # "" /\ Contains(parts, sentence)
    <3>1. cut[k] = [parts |-> parts, current |-> <<>>]
      BY <2>4, <2>6, Zenon DEF TakePiece
    <3>2. Cut(words, k, parts, <<>>)
      BY <2>2, <2>3, <2>6, CutStep
    <3>3. cut[k].parts = parts /\ cut[k].current = <<>>
      BY <3>1
    <3> QED
      BY <2>1, <3>2, <3>3
  <2>7. CASE piece.mark # "" /\ ~Contains(parts, sentence)
    <3>1. cut[k] = [parts |-> Append(parts, sentence), current |-> <<>>]
      BY <2>4, <2>7, Zenon DEF TakePiece
    <3>2. Cut(words, k, Append(parts, sentence), <<>>)
      BY <2>2, <2>3, <2>7, CutStep
    <3>3. cut[k].parts = Append(parts, sentence) /\ cut[k].current = <<>>
      BY <3>1
    <3> QED
      BY <2>1, <3>2, <3>3
  <2> QED
    BY <2>5, <2>6, <2>7
<1>5. n \in Good0
  <2> HIDE DEF Good0
  <2>1. 0..n \subseteq Good0
    BY <1>2, <1>3, <1>4, UpTo
  <2> QED
    BY <1>2, <2>1
<1>6. cut[n] \in [parts : Seq(Seq(Piece)), current : Seq(Piece)]
  BY <1>1, <1>2 DEF CutState
<1>7. /\ cut[n].parts \in Seq(Seq(Piece)) /\ cut[n].current \in Seq(Piece)
      /\ cut[n] = [parts |-> cut[n].parts, current |-> cut[n].current]
  BY <1>6
<1> QED
  BY <1>1, <1>5, <1>7

(* What is left of the words, in an output that comes from them. *)
Left(words, output) ==
  \A i \in 1..Len(words) :
    \/ i = Len(words) /\ words[i].mark = ""
    \/ \E j \in 1..Len(output) : output[j].word = words[i].word

(* The sentences come from the words in order, and lose no word but perhaps*)
(* the last one of a text that breaks off.                                 *)
LEMMA SentencesKeep ==
  ASSUME NEW words \in Seq(Piece)
  PROVE  /\ Sentences(words) \in Seq(Piece)
         /\ Embeds(Sentences(words), words, Len(words))
         /\ Left(words, Sentences(words))
<1> DEFINE n == Len(words)
<1>1. PICK parts \in Seq(Seq(Piece)), current \in Seq(Piece) :
        /\ Cut(words, n, parts, current)
        /\ FoldLeft(TakePiece, NoCut, words) = [parts |-> parts, current |-> current]
  BY CutAll
<1> DEFINE flat == FlattenSeq(parts)
           open == Len(current)
           said == \E i \in DOMAIN parts : StartsWith(parts[i], current)
           rest == IF current = <<>> \/ said THEN <<>> ELSE current
           cut == [parts |-> parts, current |-> current]
<1>2. Sentences(words) = flat \o rest
  <2>1. Sentences(words) = FlattenSeq(cut.parts) \o
            (IF \/ cut.current = <<>>
                \/ \E i \in DOMAIN cut.parts : StartsWith(cut.parts[i], cut.current)
               THEN <<>> ELSE cut.current)
    BY <1>1, Zenon DEF Sentences, NoCut
  <2>2. cut.parts = parts /\ cut.current = current
    OBVIOUS
  <2> HIDE DEF cut
  <2> QED
    BY <2>1, <2>2, Zenon
<1>10. /\ open <= n
       /\ \A i \in 1..open : current[i] = words[n - open + i] /\ current[i].mark = ""
       /\ Embeds(flat, words, n - open)
       /\ \A i \in 1..n - open : \E j \in 1..Len(flat) : flat[j] = words[i]
  BY <1>1, Zenon DEF Cut
<1>3. /\ n \in Nat /\ open \in Nat /\ open <= n
      /\ n - open \in Nat /\ n - open <= n /\ (n - open) + open = n
  <2>1. n \in Nat /\ open \in Nat
    OBVIOUS
  <2>2. open <= n
    BY <1>10
  <2> HIDE DEF n, open
  <2> QED
    BY <2>1, <2>2
<1>11. \A i \in 1..open : current[i].mark = ""
  BY <1>10, Zenon
<1>12. \A i \in 1..open : current[i] = words[n - open + i]
  BY <1>10, Zenon
<1>13. Embeds(flat, words, n - open)
  BY <1>10, Zenon
<1>14. \A i \in 1..n - open : \E j \in 1..Len(flat) : flat[j] = words[i]
  BY <1>10, Zenon
<1>4. \A q \in 1..Len(parts) : \A j \in 1..Len(parts[q]) : \E i \in 1..Len(flat) : flat[i] = parts[q][j]
  BY <1>1 DEF Cut
<1>5. flat \in Seq(Piece)
  BY FlattenType
<1>6. /\ n = 0 => words = <<>>
      /\ open = 0 <=> current = <<>>
  OBVIOUS
<1> HIDE DEF n, open, flat
<1>7. CASE ~(current = <<>> \/ said)
  <2>1. Sentences(words) = flat \o current
    BY <1>2, <1>7
  <2>2. Sentences(words) \in Seq(Piece)
    BY <1>5, <2>1, ConcatProperties
  <2>3. Embeds(Sentences(words), words, n)
    <3>1. Embeds(flat \o current, words, (n - open) + open)
      BY <1>3, <1>5, <1>12, <1>13, EmbedsConcat DEF open
    <3> QED
      BY <1>3, <2>1, <3>1
  <2>4. ASSUME NEW i \in 1..n PROVE \E j \in 1..Len(Sentences(words)) : Sentences(words)[j].word = words[i].word
    <3>0. /\ Len(flat \o current) = Len(flat) + open /\ Len(flat) \in Nat
          /\ \A j \in 1..Len(flat) + open :
               (flat \o current)[j] = IF j <= Len(flat) THEN flat[j] ELSE current[j - Len(flat)]
      BY <1>5, ConcatProperties DEF open
    <3>1. CASE i <= n - open
      <4>0. i \in 1..n - open
        BY <1>3, <3>1
      <4>1. PICK j \in 1..Len(flat) : flat[j] = words[i]
        BY <1>14, <4>0, Zenon
      <4>2. j \in 1..Len(flat) + open /\ (flat \o current)[j] = words[i]
        BY <3>0, <4>1
      <4> QED
        BY <2>1, <3>0, <4>2, Zenon
    <3>2. CASE i > n - open
      <4> DEFINE x == i - (n - open)
      <4>1. x \in 1..open /\ n - open + x = i
        BY <1>3, <3>2
      <4>2. current[x] = words[i]
        BY <1>12, <4>1
      <4>3. Len(flat) + x \in 1..Len(flat) + open /\ ~(Len(flat) + x <= Len(flat)) /\ Len(flat) + x - Len(flat) = x
        BY <1>3, <3>0, <4>1
      <4>4. (flat \o current)[Len(flat) + x] = words[i]
        <5> DEFINE y == Len(flat) + x
        <5>1. (flat \o current)[y] = IF y <= Len(flat) THEN flat[y] ELSE current[y - Len(flat)]
          BY <3>0, <4>3, Zenon
        <5>2. ~(y <= Len(flat)) /\ y - Len(flat) = x
          <6>1. x \in Nat /\ x >= 1 /\ Len(flat) \in Nat
            BY <1>3, <3>0, <4>1
          <6> HIDE DEF x
          <6> QED
            BY <6>1
        <5> QED
          BY <4>2, <5>1, <5>2, Zenon
      <4> QED
        BY <2>1, <3>0, <4>3, <4>4, Zenon
    <3> QED
      BY <1>3, <3>1, <3>2
  <2> QED
    BY <2>2, <2>3, <2>4 DEF Left, n
<1>8. CASE current = <<>> \/ said
  <2>1. Sentences(words) = flat
    <3>1. flat \o <<>> = flat
      BY <1>5
    <3> QED
      BY <1>2, <1>8, <3>1
  <2>2. Embeds(flat, words, n)
    <3>1. Len(flat) \in Nat
      BY <1>5
    <3> QED
      BY <1>3, <1>13, <3>1, EmbedsWeaken
  <2>3. ASSUME NEW i \in 1..n
        PROVE  \/ i = n /\ words[i].mark = ""
               \/ \E j \in 1..Len(flat) : flat[j].word = words[i].word
    <3>1. CASE i <= n - open
      <4>0. i \in 1..n - open
        BY <1>3, <3>1
      <4>1. PICK j \in 1..Len(flat) : flat[j] = words[i]
        BY <1>14, <4>0, Zenon
      <4> QED
        BY <4>1, Zenon
    <3>2. CASE i > n - open
      <4> DEFINE x == i - (n - open)
      <4>1. x \in 1..open /\ n - open + x = i /\ open # 0
        BY <1>3, <3>2
      <4>2. current[x] = words[i] /\ current[x].mark = ""
        BY <1>11, <1>12, <4>1, Zenon
      <4>3. PICK q \in 1..Len(parts) : StartsWith(parts[q], current)
        BY <1>6, <1>8, <4>1
      <4>4. /\ open <= Len(parts[q])
            /\ \A j \in 1..open - 1 : current[j] = parts[q][j]
            /\ \/ current[open].word = parts[q][open].word
               \/ <<current[open].word, parts[q][open].word>> \in Begins
        BY <4>3, Zenon DEF StartsWith, open
      <4>5. CASE x <= open - 1
        <5>1. x \in 1..open - 1 /\ x \in 1..Len(parts[q])
          <6>1. open <= Len(parts[q]) /\ Len(parts[q]) \in Nat
            BY <4>4
          <6> HIDE DEF x
          <6> QED
            BY <1>3, <4>1, <4>5, <6>1
        <5>2. PICK j \in 1..Len(flat) : flat[j] = parts[q][x]
          BY <1>4, <5>1
        <5>3. flat[j] = words[i]
          BY <4>2, <4>4, <5>1, <5>2, Zenon
        <5> QED
          BY <5>3, Zenon
      <4>6. CASE x = open
        <5>1. i = n
          BY <1>3, <4>6
        <5> QED
          BY <4>2, <5>1, Zenon
      <4>7. x <= open - 1 \/ x = open
        BY <1>3, <4>1
      <4> QED
        BY <4>5, <4>6, <4>7, Zenon
    <3>3. i <= n - open \/ i > n - open
      BY <1>3
    <3> QED
      BY <3>1, <3>2, <3>3, Zenon
  <2> QED
    BY <1>5, <2>1, <2>2, <2>3 DEF Left, n
<1> QED
  BY <1>7, <1>8 DEF n

-----------------------------------------------------------------------------
(* The words w of an output of n pieces, of which previous is the last and *)
(* has come count times more before it: no word is there three times in a  *)
(* row.                                                                    *)
Settled(e, w, n, previous, count) ==
  /\ n = 0 => previous = e
  /\ n > 0 => w[n] = previous
  /\ previous # e /\ count >= 1 => n >= 2 /\ w[n - 1] = previous
  /\ previous # e /\ count = 0 /\ n >= 2 => w[n - 1] # previous
  /\ \A i \in 1..n - 2 : w[i] # e => w[i + 1] # w[i] \/ w[i + 2] # w[i]

(* The words v are w with p behind them. *)
Behind(v, w, n, p) == (\A i \in 1..n : v[i] = w[i]) /\ v[n + 1] = p

(* One more word p is dropped if it is the third of a run, or else put     *)
(* behind the others, as in v.                                             *)
SettledWith(e, w, v, n, previous, p, count) ==
  /\ p # e /\ p = previous /\ count >= 1 => Settled(e, w, n, p, count + 1)
  /\ p # e /\ p = previous /\ count = 0 => Settled(e, v, n + 1, p, 1)
  /\ ~(p # e /\ p = previous) => Settled(e, v, n + 1, p, 0)

(* Either way no word is there three times in a row. *)
LEMMA SettledStep ==
  ASSUME NEW n \in Nat, NEW W, NEW w \in [1..n -> W], NEW v \in [1..n + 1 -> W],
         NEW previous \in W, NEW p \in W, NEW e \in W, NEW count \in Nat,
         Settled(e, w, n, previous, count), Behind(v, w, n, p)
  PROVE  SettledWith(e, w, v, n, previous, p, count)
<1>6. (\A i \in 1..n : v[i] = w[i]) /\ v[n + 1] = p
  BY Zenon DEF Behind
<1>1. /\ n = 0 => previous = e
      /\ n > 0 => w[n] = previous
      /\ previous # e /\ count >= 1 => n >= 2 /\ w[n - 1] = previous
      /\ previous # e /\ count = 0 /\ n >= 2 => w[n - 1] # previous
      /\ \A i \in 1..n - 2 : w[i] # e => w[i + 1] # w[i] \/ w[i + 2] # w[i]
  BY Zenon DEF Settled
<1>2. ASSUME p # e, p = previous, count >= 1
      PROVE  Settled(e, w, n, p, count + 1)
  BY <1>1, <1>2 DEF Settled
<1>3. ASSUME ~(p # e /\ p = previous) \/ count = 0
      PROVE  \A i \in 1..n - 1 : v[i] # e => v[i + 1] # v[i] \/ v[i + 2] # v[i]
  <2> SUFFICES ASSUME NEW i \in 1..n - 1, v[i] # e, v[i + 1] = v[i], v[i + 2] = v[i] PROVE FALSE
    OBVIOUS
  <2>1. CASE i \in 1..n - 2
    <3>1. i \in 1..n /\ i + 1 \in 1..n /\ i + 2 \in 1..n
      BY <2>1
    <3>2. v[i] = w[i] /\ v[i + 1] = w[i + 1] /\ v[i + 2] = w[i + 2]
      BY <1>6, <3>1
    <3> QED
      BY <1>1, <2>1, <3>2
  <2>2. CASE i = n - 1
    <3>1. i \in 1..n /\ n >= 2 /\ i + 1 = n /\ n \in 1..n /\ i + 2 = n + 1
      BY <2>2
    <3>2. v[i] = w[n - 1] /\ w[n] = v[i] /\ p = v[i]
      BY <1>6, <2>2, <3>1
    <3>3. w[n] = previous
      BY <1>1, <3>1
    <3>4. p = previous /\ p # e /\ w[n - 1] = previous
      BY <3>2, <3>3
    <3> QED
      BY <1>1, <1>3, <3>1, <3>4
  <2> QED
    BY <2>1, <2>2
<1>4. ASSUME p # e, p = previous, count = 0 PROVE Settled(e, v, n + 1, p, 1)
  <2>1. n > 0 /\ n \in 1..n /\ v[n] = p
    BY <1>1, <1>4, <1>6
  <2>2. \A i \in 1..n - 1 : v[i] # e => v[i + 1] # v[i] \/ v[i + 2] # v[i]
    BY <1>3, <1>4
  <2>3. (n + 1) - 2 = n - 1 /\ (n + 1) - 1 = n /\ n + 1 # 0
    OBVIOUS
  <2> QED
    BY <1>6, <2>1, <2>2, <2>3 DEF Settled
<1>5. ASSUME ~(p # e /\ p = previous) PROVE Settled(e, v, n + 1, p, 0)
  <2>1. ASSUME p # e, n + 1 >= 2 PROVE v[n] # p
    <3>1. n > 0 /\ n \in 1..n
      BY <2>1
    <3>2. v[n] = previous
      BY <1>1, <1>6, <3>1
    <3> QED
      BY <1>5, <2>1, <3>2
  <2>2. \A i \in 1..n - 1 : v[i] # e => v[i + 1] # v[i] \/ v[i + 2] # v[i]
    BY <1>3, <1>5
  <2>3. (n + 1) - 2 = n - 1 /\ (n + 1) - 1 = n /\ n + 1 # 0
    OBVIOUS
  <2> QED
    BY <1>6, <2>1, <2>2, <2>3 DEF Settled
<1> QED
  BY <1>2, <1>4, <1>5, Zenon DEF SettledWith

(* The empty sequence comes from anything. *)
LEMMA EmbedsNothing ==
  ASSUME NEW t
  PROVE  Embeds(<<>>, t, 0)
<1>1. Len(<<>>) = 0 /\ 1..0 = {} /\ <<>> \in [1..0 -> 1..0]
  OBVIOUS
<1> QED
  BY <1>1, Zenon DEF Embeds

(* One more piece of t is put behind. *)
LEMMA EmbedsAppend ==
  ASSUME NEW s \in Seq(Piece), NEW piece \in Piece, NEW t, NEW m \in Nat, Embeds(s, t, m), t[m + 1] = piece
  PROVE  Embeds(Append(s, piece), t, m + 1)
<1>1. <<piece>> \in Seq(Piece) /\ Len(<<piece>>) = 1 /\ \A i \in 1..1 : <<piece>>[i] = t[m + i]
  OBVIOUS
<1>2. Embeds(s \o <<piece>>, t, m + 1)
  BY <1>1, EmbedsConcat
<1>3. s \o <<piece>> = Append(s, piece)
  OBVIOUS
<1> QED
  BY <1>2, <1>3

(* The words of an output. *)
WordsOf(output) == [i \in 1..Len(output) |-> output[i].word]

(* Collapsing: after k pieces the output comes from them, and has every    *)
(* word there was.                                                         *)
Collapsed(words, k, run) ==
  /\ Embeds(run.output, words, k)
  /\ \A i \in 1..k : \E j \in 1..Len(run.output) : run.output[j].word = words[i].word
  /\ Settled("", WordsOf(run.output), Len(run.output), run.previous, run.count)

(* One more piece is taken. *)
LEMMA CollapseStep ==
  ASSUME NEW words \in Seq(Piece), NEW k \in 1..Len(words), NEW run \in RunState,
         Collapsed(words, k - 1, run)
  PROVE  Collapsed(words, k, TakeWord(run, words[k]))
<1> DEFINE piece == words[k]
           p == piece.word
           previous == run.previous
           count == run.count
           output == run.output
           n == Len(output)
           longer == Append(output, piece)
           w == WordsOf(output)
           v == WordsOf(longer)
           next == TakeWord(run, piece)
           W == Words \cup {""}
           none == ""
<1>16. output \in Seq(Piece) /\ count \in Nat /\ previous \in W
  BY DEF RunState
<1>17. piece \in Piece
  OBVIOUS
<1>1. /\ output \in Seq(Piece) /\ count \in Nat /\ piece \in Piece
  BY <1>16, <1>17, Zenon
<1>18. count \in Nat
  BY <1>16, Zenon
<1>19. output \in Seq(Piece)
  BY <1>16, Zenon
<1>2. /\ n \in Nat /\ Len(longer) = n + 1
      /\ \A i \in 1..n : i \in 1..n + 1 /\ longer[i] = output[i]
      /\ longer[n + 1] = piece /\ n + 1 \in 1..n + 1
  <2> HIDE DEF output, piece
  <2> QED
    BY <1>1
<1>3. /\ \A i \in 1..n : v[i] = w[i]
      /\ v[n + 1] = p
      /\ \A i \in 1..n : w[i] = output[i].word
      /\ w \in [1..n -> Words \cup {""}] /\ v \in [1..n + 1 -> Words \cup {""}]
  <2>3. \A x \in Piece : x.word \in Words \cup {""}
    BY DEF Piece
  <2>4. \A i \in 1..n : output[i] \in Piece
    <3> HIDE DEF output
    <3> QED
      BY <1>19
  <2>5. \A i \in 1..n + 1 : longer[i] \in Piece
    <3>1. longer \in Seq(Piece)
      <4> HIDE DEF output, piece
      <4> QED
        BY <1>17, <1>19
    <3> HIDE DEF longer, n
    <3> QED
      BY <1>2, <3>1
  <2> HIDE DEF longer, output, piece, n
  <2>1. \A i \in 1..n : w[i] = output[i].word
    BY Zenon DEF WordsOf, n
  <2>2. \A i \in 1..n + 1 : v[i] = longer[i].word
    BY <1>2, Zenon DEF WordsOf
  <2> QED
    BY <1>2, <2>1, <2>2, <2>3, <2>4, <2>5, Zenon DEF WordsOf, n
<1>4. /\ Embeds(output, words, k - 1)
      /\ \A i \in 1..k - 1 : \E j \in 1..n : output[j].word = words[i].word
      /\ Settled("", w, n, previous, count)
  BY Zenon DEF Collapsed
<1>0. previous \in W /\ p \in W /\ none \in W
  <2>1. \A x \in Piece : x.word \in W
    BY DEF Piece
  <2> QED
    BY <1>16, <1>17, <2>1, Zenon
<1>5. k - 1 \in Nat /\ k \in Nat /\ (k - 1) + 1 = k /\ k - 1 <= k
  OBVIOUS
<1>6. \A i \in 1..k : i \in 1..k - 1 \/ i = k
  BY <1>5
<1> HIDE DEF n, w, v, longer
<1>7. /\ p # "" /\ p = previous /\ count >= 1 => Settled("", w, n, p, count + 1)
      /\ p # "" /\ p = previous /\ count = 0 => Settled("", v, n + 1, p, 1)
      /\ ~(p # "" /\ p = previous) => Settled("", v, n + 1, p, 0)
  <2>1. w \in [1..n -> W] /\ v \in [1..n + 1 -> W]
    BY <1>3, Zenon
  <2>2. Settled(none, w, n, previous, count) /\ Behind(v, w, n, p)
    BY <1>3, <1>4, Zenon DEF Behind
  <2>3. n \in Nat
    BY <1>2, Zenon
  <2> HIDE DEF p, previous, count, none, W
  <2>4. SettledWith(none, w, v, n, previous, p, count)
    BY <1>0, <1>18, <2>1, <2>2, <2>3, SettledStep
  <2> QED
    BY <2>4, Zenon DEF SettledWith, none
<1>8. Embeds(longer, words, k)
  BY <1>1, <1>4, <1>5, EmbedsAppend DEF longer
<1>9. \A i \in 1..k : \E j \in 1..n + 1 : longer[j].word = words[i].word
  BY <1>2, <1>4, <1>6, Zenon
<1>10. Embeds(output, words, k)
  BY <1>2, <1>4, <1>5, EmbedsWeaken DEF n
<1>11. next.previous = p
  BY Zenon DEF TakeWord
<1>12. count = 0 \/ count >= 1
  <2> HIDE DEF count
  <2> QED
    BY <1>1
<1>13. CASE p # "" /\ p = previous /\ count >= 1
  <2>1. ~(count + 1 < 2) /\ count + 1 >= 2
    <3>1. count >= 1
      BY <1>13, Zenon
    <3> HIDE DEF count
    <3> QED
      BY <1>18, <3>1
  <2>2. next.output = output /\ next.count = count + 1
    BY <1>13, <2>1, Zenon DEF TakeWord
  <2>3. n \in 1..n /\ w[n] = p
    <3>1. n # 0 /\ (n > 0 => w[n] = previous)
      BY <1>4, <1>13, Zenon DEF Settled
    <3>2. n \in Nat
      BY <1>2, Zenon
    <3>3. n \in 1..n /\ n > 0
      BY <3>1, <3>2
    <3> QED
      BY <1>13, <3>1, <3>3, Zenon
  <2>4. \A i \in 1..k : \E j \in 1..n : output[j].word = words[i].word
    BY <1>3, <1>4, <1>6, <2>3, Zenon
  <2> QED
    BY <1>7, <1>10, <1>11, <1>13, <2>2, <2>4, Zenon DEF Collapsed, n, w
<1>14. CASE p # "" /\ p = previous /\ count = 0
  <2>1. ~(0 + 1 >= 2) /\ 0 + 1 = 1
    OBVIOUS
  <2>2. next.output = longer /\ next.count = 1
    BY <1>14, <2>1, Zenon DEF TakeWord, longer
  <2> QED
    BY <1>2, <1>7, <1>8, <1>9, <1>11, <1>14, <2>2, Zenon DEF Collapsed, v
<1>15. CASE ~(p # "" /\ p = previous)
  <2>1. ~(0 >= 2)
    OBVIOUS
  <2>2. next.output = longer /\ next.count = 0
    BY <1>15, <2>1, Zenon DEF TakeWord, longer
  <2> QED
    BY <1>2, <1>7, <1>8, <1>9, <1>11, <1>15, <2>2, Zenon DEF Collapsed, v
<1> QED
  BY <1>12, <1>13, <1>14, <1>15, Zenon

(* Collapsing keeps the order and every word, and leaves no word three     *)
(* times in a row.                                                         *)
LEMMA CollapseKeeps ==
  ASSUME NEW words \in Seq(Piece)
  PROVE  LET output == CollapseRepeatedWordRuns(words) IN
         /\ output \in Seq(Piece)
         /\ Embeds(output, words, Len(words))
         /\ \A i \in 1..Len(words) : \E j \in 1..Len(output) : output[j].word = words[i].word
         /\ \A i \in 1..Len(output) - 2 :
              output[i].word # "" =>
                \/ output[i + 1].word # output[i].word
                \/ output[i + 2].word # output[i].word
<1> DEFINE n == Len(words)
           output == CollapseRepeatedWordRuns(words)
<1>1. PICK run \in [0..n -> RunState] :
        /\ run[0] = NoRun
        /\ \A k \in 1..n : run[k] = TakeWord(run[k - 1], words[k])
        /\ output = run[n].output
  BY RunIs
<1>2. n \in Nat
  OBVIOUS
<1> DEFINE Good0 == {k \in 0..n : Collapsed(words, k, run[k])}
<1> HIDE DEF n
<1>3. 0 \in Good0
  <2>1. Embeds(<<>>, words, 0)
    BY EmbedsNothing
  <2>2. Settled("", WordsOf(<<>>), 0, "", 0)
    BY DEF Settled
  <2>3. Len(<<>>) = 0 /\ 0 \in 0..n /\ \A i \in 1..0 : FALSE
    BY <1>2
  <2>4. NoRun.output = <<>> /\ NoRun.previous = "" /\ NoRun.count = 0
    BY DEF NoRun
  <2>5. Collapsed(words, 0, NoRun)
    BY <2>1, <2>2, <2>3, <2>4, Zenon DEF Collapsed
  <2> QED
    BY <1>1, <2>3, <2>5, Zenon
<1>4. ASSUME NEW k \in 1..n, k - 1 \in Good0 PROVE k \in Good0
  <2>1. k - 1 \in 0..n /\ k \in 0..n
    BY <1>2
  <2>2. run[k - 1] \in RunState
    BY <1>1, <2>1
  <2>3. Collapsed(words, k, TakeWord(run[k - 1], words[k]))
    BY <1>4, <2>2, CollapseStep DEF n
  <2> QED
    BY <1>1, <2>1, <2>3, Zenon
<1>5. Collapsed(words, n, run[n])
  <2> HIDE DEF Good0
  <2>1. 0..n \subseteq Good0
    BY <1>2, <1>3, <1>4, UpTo
  <2>2. n \in 0..n
    BY <1>2
  <2>3. n \in Good0
    BY <2>1, <2>2
  <2> QED
    BY <2>3 DEF Good0
<1>6. output \in Seq(Piece) /\ run[n] \in RunState
  <2>1. n \in 0..n
    BY <1>2
  <2>2. run[n] \in RunState
    BY <1>1, <2>1
  <2> QED
    BY <1>1, <2>2 DEF RunState
<1> HIDE DEF output
<1>7. /\ Embeds(output, words, n)
      /\ \A i \in 1..n : \E j \in 1..Len(output) : output[j].word = words[i].word
      /\ Settled("", WordsOf(output), Len(output), run[n].previous, run[n].count)
  BY <1>1, <1>5, Zenon DEF Collapsed
<1>8. ASSUME NEW i \in 1..Len(output) - 2, output[i].word # "",
             output[i + 1].word = output[i].word, output[i + 2].word = output[i].word
      PROVE  FALSE
  <2> DEFINE w == WordsOf(output)
  <2>1. w[i] # "" => w[i + 1] # w[i] \/ w[i + 2] # w[i]
    BY <1>7, Zenon DEF Settled
  <2>2. Len(output) \in Nat
    BY <1>6
  <2>3. i \in 1..Len(output) /\ i + 1 \in 1..Len(output) /\ i + 2 \in 1..Len(output)
    BY <2>2
  <2>4. w[i] = output[i].word /\ w[i + 1] = output[i + 1].word /\ w[i + 2] = output[i + 2].word
    BY <2>3, Zenon DEF WordsOf
  <2> QED
    BY <1>8, <2>1, <2>4, Zenon
<1> QED
  BY <1>6, <1>7, <1>8, Zenon DEF output, n

-----------------------------------------------------------------------------
(* What TranscriptFaithful says of a transcript and the text decoded. *)
Faithful(script, said) ==
  /\ \E place \in [DOMAIN script -> DOMAIN said] :
       /\ \A i \in DOMAIN script : script[i] = said[place[i]]
       /\ \A i, j \in DOMAIN script : i < j => place[i] < place[j]
  /\ \A i \in DOMAIN said :
       \/ i = Len(said) /\ said[i].mark = ""
       \/ \E j \in DOMAIN script : script[j].word = said[i].word
  /\ \A i \in 1..Len(script) - 2 :
       script[i].word # "" =>
         \/ script[i + 1].word # script[i].word
         \/ script[i + 2].word # script[i].word

(* The clean-up is faithful to the text, and leaves no blank in it. *)
LEMMA CleanUpFaithful ==
  ASSUME NEW tokens \in Seq(Piece)
  PROVE  /\ PostprocessTranscript(tokens) \in Seq(Piece \ {Blank})
         /\ Faithful(PostprocessTranscript(tokens), Text(tokens))
<1> DEFINE said == Text(tokens)
           kept == Sentences(said)
           script == CollapseRepeatedWordRuns(kept)
<1>1. said \in Seq(Piece \ {Blank})
  BY TextIs
<1> HIDE DEF said
<1>2. said \in Seq(Piece)
  BY <1>1
<1>3. /\ kept \in Seq(Piece)
      /\ Embeds(kept, said, Len(said))
      /\ Left(said, kept)
  BY <1>2, SentencesKeep
<1> HIDE DEF kept
<1>4. /\ script \in Seq(Piece)
      /\ Embeds(script, kept, Len(kept))
      /\ \A i \in 1..Len(kept) : \E j \in 1..Len(script) : script[j].word = kept[i].word
      /\ \A i \in 1..Len(script) - 2 :
           script[i].word # "" =>
             \/ script[i + 1].word # script[i].word
             \/ script[i + 2].word # script[i].word
  BY <1>3, CollapseKeeps
<1> HIDE DEF script
<1>5. /\ DOMAIN script = 1..Len(script) /\ DOMAIN said = 1..Len(said)
      /\ Len(script) \in Nat /\ Len(said) \in Nat
  <2>1. script \in Seq(Piece)
    BY <1>4, Zenon
  <2> QED
    BY <1>2, <2>1
<1>6. Embeds(script, said, Len(said))
  BY <1>2, <1>3, <1>4, <1>5, EmbedsTwice, Zenon
<1>7. PICK place \in [1..Len(script) -> 1..Len(said)] :
        /\ \A i \in 1..Len(script) : script[i] = said[place[i]]
        /\ \A i, j \in 1..Len(script) : i < j => place[i] < place[j]
  BY <1>6 DEF Embeds
<1>8. script \in Seq(Piece \ {Blank})
  <2>1. script \in Seq(Piece)
    BY <1>4, Zenon
  <2>2. \A i \in 1..Len(script) : said[place[i]] \in Piece \ {Blank}
    BY <1>1, <1>7
  <2>3. \A i \in 1..Len(script) : script[i] \in Piece \ {Blank}
    BY <1>7, <2>2, Zenon
  <2> QED
    BY <2>1, <2>3
<1>9. \A i \in 1..Len(said) :
        \/ i = Len(said) /\ said[i].mark = ""
        \/ \E j \in 1..Len(script) : script[j].word = said[i].word
  BY <1>3, <1>4, Zenon DEF Left
<1>10. Faithful(script, said)
  BY <1>4, <1>5, <1>7, <1>9, Zenon DEF Faithful
<1> QED
  BY <1>8, <1>10 DEF PostprocessTranscript, script, kept, said

-----------------------------------------------------------------------------
(* The types of what transcribe, synthesize and the caller keep.           *)
HearTyped ==
  /\ ears \subseteq {"whisper", "tokenizer", "suppress"}
  /\ hearing \in Phase
  /\ decoded \in Seq(Piece)
  /\ Len(decoded) <= Budget
  /\ transcript \in Seq(TextToken)

SpeakTyped ==
  /\ voice \subseteq {"qwen", "vocoder", "sameWidth", "codes", "eos"}
  /\ net \in Vocoders \cup {NoNet}
  /\ speaking \in {"off", "working", "done", "failed", "unavailable"}
  /\ mode \in {"streaming", "whole"}
  /\ text \in Seq(TextToken)
  /\ trailing \in Seq(SpokenToken)
  /\ fed \in Seq(SpokenToken)
  /\ frames \in 0..MaxAudioTokens

CallTyped ==
  /\ at \in {"loading", "idle", "hearing", "speaking", "over"}
  /\ error \in {"none", "unavailable", "other"}
  /\ provisioned \in BOOLEAN
  /\ given \in Seq(ContextEvents)
  /\ Len(given) <= MaxEvents
  /\ pending \in Seq(1..Len(given))
  /\ turns \in Seq([took : Seq(1..Len(given)), spoke : 0..Len(given)])

(* One token is decoded at least. *)
LEMMA BudgetType == Budget \in Nat \ {0}
<1>1. MaxDecodeTokens \in Nat /\ MaxPositions \in Nat
  BY WhisperAssumption, Zenon
<1> QED
  BY <1>1 DEF Budget

(* A step of transcribe keeps its types. *)
LEMMA WhisperStepTyped ==
  ASSUME HearTyped, WhisperStep
  PROVE  HearTyped'
<1>1. CASE DecodeToken
  <2>1. PICK token \in Piece : decoded' = Append(decoded, token)
    BY <1>1, Zenon DEF DecodeToken
  <2>2. decoded \in Seq(Piece) /\ Len(decoded) < Budget
    BY <1>1, Zenon DEF DecodeToken, HearTyped
  <2>3. decoded' \in Seq(Piece) /\ Len(decoded') <= Budget
    <3>1. Len(decoded) \in Nat /\ Len(decoded') = Len(decoded) + 1 /\ decoded' \in Seq(Piece)
      BY <2>1, <2>2
    <3> QED
      BY <2>2, <3>1, BudgetType
  <2>4. Budget' = Budget
    BY Zenon DEF Budget
  <2> QED
    BY <1>1, <2>3, <2>4, Zenon DEF DecodeToken, HearTyped
<1>2. CASE DecodeFails
  BY <1>2, Zenon DEF DecodeFails, HearTyped, Phase, Budget
<1>3. CASE EndOfText
  <2>1. PostprocessTranscript(decoded) \in Seq(TextToken)
    BY CleanUpFaithful, MlxTurnAssumption DEF HearTyped
  <2> QED
    BY <1>3, <2>1, Zenon DEF EndOfText, HearTyped, Phase, Budget
<1> QED
  BY <1>1, <1>2, <1>3 DEF WhisperStep

(* A step of synthesize keeps its types. *)
LEMMA QwenStepTyped ==
  ASSUME SpeakTyped, QwenStep
  PROVE  SpeakTyped'
<1>1. CASE GenerateFrame
  <2>1. NextText \in SpokenToken
    <3>1. trailing \in Seq(SpokenToken) /\ frames \in Nat
      BY Qwen3TtsAssumption DEF SpeakTyped
    <3>2. TtsPad \in SpokenToken
      BY DEF SpokenToken
    <3> QED
      BY <3>1, <3>2 DEF NextText
  <2>2. fed' \in Seq(SpokenToken)
    <3>1. fed \in Seq(SpokenToken) /\ fed' = Append(fed, NextText)
      BY <1>1, Zenon DEF GenerateFrame, SpeakTyped
    <3> QED
      BY <2>1, <3>1
  <2>3. frames' \in 0..MaxAudioTokens
    <3>1. frames \in 0..MaxAudioTokens /\ frames < MaxAudioTokens /\ frames' = frames + 1
      BY <1>1, Zenon DEF GenerateFrame, SpeakTyped
    <3> QED
      BY <3>1, Qwen3TtsAssumption
  <2> QED
    BY <1>1, <2>2, <2>3, Zenon DEF GenerateFrame, SpeakTyped, modelVars
<1>2. CASE GenerateFails
  BY <1>2, Zenon DEF GenerateFails, SpeakTyped, modelVars, speechVars, inputVars
<1>3. CASE EndOfSpeech
  BY <1>3, Zenon DEF EndOfSpeech, SpeakTyped, modelVars, inputVars
<1> QED
  BY <1>1, <1>2, <1>3 DEF QwenStep

(* So does its call, with a text of tokens. *)
LEMMA SynthesizeTyped ==
  ASSUME SpeakTyped, NEW t \in Seq(TextToken), Synthesize(t)
  PROVE  SpeakTyped'
<1>1. TextToken \subseteq SpokenToken /\ {ImEnd, TtsEos, TtsPad} \subseteq SpokenToken
  BY DEF SpokenToken
<1>2. Trailing(t) \in Seq(SpokenToken) /\ FirstText(t) \in SpokenToken
  <2>1. CASE t = <<>>
    <3>1. Append(<<>>, TtsEos) \in Seq(SpokenToken)
      BY <1>1
    <3> QED
      BY <1>1, <2>1, <3>1 DEF Trailing, FirstText
  <2>2. CASE t # <<>>
    <3>1. Tail(t) \in Seq(TextToken) /\ Head(t) \in TextToken
      BY <2>2
    <3>2. Tail(t) \in Seq(SpokenToken)
      BY <1>1, <3>1
    <3>3. Append(Tail(t), TtsEos) \in Seq(SpokenToken)
      BY <1>1, <3>2
    <3> QED
      BY <1>1, <2>2, <3>1, <3>3 DEF Trailing, FirstText
  <2> QED
    BY <2>1, <2>2
<1>3. <<TtsPad>> \in Seq(SpokenToken) /\ <<FirstText(t)>> \in Seq(SpokenToken)
  BY <1>1, <1>2
<1>4. 0 \in 0..MaxAudioTokens
  BY Qwen3TtsAssumption
<1>5. mode' \in {"streaming", "whole"} /\ trailing' \in Seq(SpokenToken) /\ fed' \in Seq(SpokenToken)
  BY <1>2, <1>3, Zenon DEF Synthesize, BuildInputs, SpeakTyped
<1>6. /\ speaking' \in {"working", "failed", "unavailable"}
      /\ text' = t /\ frames' = 0 /\ voice' = voice /\ net' = net
  BY Zenon DEF Synthesize, modelVars
<1> QED
  BY <1>4, <1>5, <1>6, Zenon DEF SpeakTyped

-----------------------------------------------------------------------------
(* The types of all variables but wave, which WaveInv has.                 *)
TypeInv == HearTyped /\ SpeakTyped /\ CallTyped

(* The text of the first pending event that has any, or nothing. *)
LEMMA EventTextIs ==
  ASSUME NEW m \in Nat, NEW ids \in Seq(1..m)
  PROVE  \/ /\ EventText(ids) = 0
            /\ \A i \in 1..Len(ids) : ~HasText(ids[i])
         \/ \E i \in 1..Len(ids) : /\ EventText(ids) = ids[i]
                                   /\ HasText(ids[i])
                                   /\ \A j \in 1..Len(ids) : HasText(ids[j]) => i <= j
<1> DEFINE I == {i \in 1..Len(ids) : HasText(ids[i])}
           first == IF I # {} THEN Min(I) ELSE 0
<1>1. EventText(ids) = IF first = 0 THEN 0 ELSE ids[first]
  BY Zenon DEF EventText, SelectInSeq
<1>2. CASE I = {}
  BY <1>1, <1>2
<1>3. CASE I # {}
  <2>1. PICK i \in I : \A j \in I : i <= j
    <3>1. I \subseteq Nat
      OBVIOUS
    <3> HIDE DEF I
    <3> QED
      BY <1>3, <3>1, Smallest
  <2>2. Min(I) = i
    BY <2>1 DEF Min
  <2>3. first = i /\ i # 0 /\ i \in 1..Len(ids)
    BY <1>3, <2>1, <2>2
  <2>4. EventText(ids) = ids[i] /\ HasText(ids[i])
    BY <1>1, <2>1, <2>3, Zenon
  <2>5. \A j \in 1..Len(ids) : HasText(ids[j]) => i <= j
    BY <2>1, Zenon
  <2> QED
    BY <2>3, <2>4, <2>5, Zenon
<1> QED
  BY <1>2, <1>3

(* What is spoken of an event is a text of tokens. *)
LEMMA SpokenPartTyped ==
  ASSUME NEW event \in ContextEvents
  PROVE  SpokenPart(event) \in Seq(TextToken)
<1>1. event \in ContextEvent
  BY MlxTurnAssumption
<1>2. event.summary \in Seq(TextToken) /\ event.payload \in Seq(TextToken) /\ <<>> \in Seq(TextToken)
  BY <1>1 DEF ContextEvent
<1> QED
  BY <1>2, Zenon DEF SpokenPart

(* More numbers are a larger type for the events of a turn. *)
LEMMA TurnsTypeGrows ==
  ASSUME NEW m \in Nat, NEW n \in Nat, m <= n
  PROVE  /\ Seq(1..m) \subseteq Seq(1..n)
         /\ Seq([took : Seq(1..m), spoke : 0..m]) \subseteq Seq([took : Seq(1..n), spoke : 0..n])
<1>1. 1..m \subseteq 1..n /\ 0..m \subseteq 0..n
  OBVIOUS
<1>2. Seq(1..m) \subseteq Seq(1..n)
  BY <1>1
<1>3. [took : Seq(1..m), spoke : 0..m] \subseteq [took : Seq(1..n), spoke : 0..n]
  BY <1>1, <1>2
<1> DEFINE S == [took : Seq(1..m), spoke : 0..m]
           T == [took : Seq(1..n), spoke : 0..n]
<1>4. Seq(S) \subseteq Seq(T)
  <2> HIDE DEF S, T
  <2>1. S \subseteq T
    BY <1>3 DEF S, T
  <2> QED
    BY <2>1
<1> QED
  BY <1>2, <1>4

(* Every step keeps the types. *)
LEMMA TypeStep ==
  ASSUME TypeInv, [Next]_vars
  PROVE  TypeInv'
<1> USE DEF TypeInv
<1>1. CASE Load
  <2>1. HearTyped'
    <3>1. ears' \subseteq {"whisper", "tokenizer", "suppress"}
      <4>1. \A w : WhisperFeatures(w) \subseteq {"whisper", "tokenizer", "suppress"}
        BY DEF WhisperFeatures
      <4> QED
        BY <1>1, <4>1, Zenon DEF Load, HearTyped
    <3> QED
      BY <1>1, <3>1, Zenon DEF Load, HearTyped, Budget
  <2>2. SpeakTyped'
    <3>1. /\ voice' \subseteq {"qwen", "vocoder", "sameWidth", "codes", "eos"}
          /\ net' \in Vocoders \cup {NoNet}
      <4>1. \A q : QwenFeatures(q) \subseteq {"qwen", "vocoder"}
        BY DEF QwenFeatures
      <4>2. \A c \in Checkpoints : c.features \subseteq {"sameWidth", "codes", "eos"} /\ c.net \in Vocoders
        BY MlxTurnAssumption
      <4>3. CASE voice' = voice /\ net' = net
        BY <4>3, Zenon DEF SpeakTyped
      <4>4. CASE voice' = {} /\ net' = net
        BY <4>4, Zenon DEF SpeakTyped
      <4>5. ASSUME NEW q, NEW c \in Checkpoints,
                   voice' = QwenFeatures(q) \cup c.features, net' = c.net
            PROVE  /\ voice' \subseteq {"qwen", "vocoder", "sameWidth", "codes", "eos"}
                   /\ net' \in Vocoders \cup {NoNet}
        BY <4>1, <4>2, <4>5
      <4> QED
        BY <1>1, <4>3, <4>4, <4>5, Zenon DEF Load, modelVars
    <3> QED
      BY <1>1, <3>1, Zenon DEF Load, SpeakTyped, speechVars, inputVars
  <2>3. CallTyped'
    <3>1. at' \in {"idle", "over"} /\ error' \in {"none", "unavailable", "other"}
      BY <1>1, Zenon DEF Load, Fail, CallTyped
    <3>2. provisioned' \in BOOLEAN
      <4>1. \A a, b, c, d : (a # b /\ c /\ d) \in BOOLEAN
        OBVIOUS
      <4> QED
        BY <1>1 DEF Load
    <3> QED
      BY <1>1, <3>1, <3>2, Zenon DEF Load, CallTyped
  <2> QED
    BY <2>1, <2>2, <2>3
<1>2. CASE InjectEvent
  <2>1. HearTyped' /\ SpeakTyped'
    BY <1>2, Zenon DEF InjectEvent, HearTyped, SpeakTyped, whisperVars, qwenVars, modelVars, speechVars, inputVars, Budget
  <2>2. PICK event \in ContextEvents : given' = Append(given, event)
    BY <1>2, Zenon DEF InjectEvent
  <2>3. /\ given \in Seq(ContextEvents) /\ pending \in Seq(1..Len(given))
        /\ Len(given) < MaxEvents /\ pending' = Append(pending, Len(given) + 1)
    BY <1>2, Zenon DEF InjectEvent, CallTyped
  <2>4. /\ given' \in Seq(ContextEvents) /\ Len(given') = Len(given) + 1
        /\ Len(given) \in Nat
    BY <2>2, <2>3
  <2>5. Len(given') <= MaxEvents
    BY <2>3, <2>4, MlxTurnAssumption
  <2>6. /\ Seq(1..Len(given)) \subseteq Seq(1..Len(given'))
        /\ Seq([took : Seq(1..Len(given)), spoke : 0..Len(given)])
             \subseteq Seq([took : Seq(1..Len(given')), spoke : 0..Len(given')])
    <3>1. Len(given) \in Nat /\ Len(given') \in Nat /\ Len(given) <= Len(given')
      BY <2>4
    <3> QED
      BY <3>1, TurnsTypeGrows, Zenon
  <2>7. pending' \in Seq(1..Len(given'))
    <3> DEFINE m == Len(given')
    <3>1. Len(given) + 1 \in 1..m /\ pending \in Seq(1..m)
      BY <2>3, <2>4, <2>6
    <3> HIDE DEF m
    <3> QED
      BY <2>3, <3>1 DEF m
  <2>8. turns' \in Seq([took : Seq(1..Len(given')), spoke : 0..Len(given')])
    <3>1. turns' = turns /\ turns \in Seq([took : Seq(1..Len(given)), spoke : 0..Len(given)])
      BY <1>2, Zenon DEF InjectEvent, CallTyped
    <3> QED
      BY <2>6, <3>1, Zenon
  <2>9. CallTyped'
    BY <1>2, <2>4, <2>5, <2>7, <2>8, Zenon DEF InjectEvent, CallTyped
  <2> QED
    BY <2>1, <2>9
<1>3. CASE Step
  <2>1. SpeakTyped'
    BY <1>3, Zenon DEF Step, SpeakTyped, qwenVars, modelVars, speechVars, inputVars
  <2>2. HearTyped'
    BY <1>3, Zenon DEF Step, Transcribe, HearTyped, Phase, Budget
  <2>3. CallTyped'
    BY <1>3, Zenon DEF Step, CallTyped
  <2> QED
    BY <2>1, <2>2, <2>3
<1>4. CASE Hear
  <2>1. HearTyped'
    BY <1>4, WhisperStepTyped DEF Hear
  <2>2. SpeakTyped' /\ CallTyped'
    BY <1>4, Zenon DEF Hear, SpeakTyped, CallTyped, callerVars, qwenVars, modelVars, speechVars, inputVars
  <2> QED
    BY <2>1, <2>2
<1>5. ASSUME ForgetHearing, ears' = ears PROVE HearTyped'
  <2>1. <<>> \in Seq(Piece) /\ <<>> \in Seq(TextToken) /\ Len(<<>>) <= Budget
    BY BudgetType
  <2> QED
    BY <1>5, <2>1, Zenon DEF ForgetHearing, HearTyped, Phase, Budget
<1>6. CASE TranscribeFailed
  <2>1. HearTyped'
    BY <1>5, <1>6, Zenon DEF TranscribeFailed
  <2>2. SpeakTyped'
    BY <1>6, Zenon DEF TranscribeFailed, SpeakTyped, qwenVars, modelVars, speechVars, inputVars
  <2>3. CallTyped'
    BY <1>6, Zenon DEF TranscribeFailed, CallTyped, Fail, Kind
  <2> QED
    BY <2>1, <2>2, <2>3
<1>7. CASE SpeakReply
  <2> DEFINE spoke == EventText(pending)
             m == Len(given)
  <2>1. /\ pending \in Seq(1..m) /\ m \in Nat /\ given \in Seq(ContextEvents)
        /\ turns \in Seq([took : Seq(1..m), spoke : 0..m])
        /\ turns' = Append(turns, [took |-> pending, spoke |-> spoke])
    BY <1>7 DEF SpeakReply, CallTyped
  <2>2. spoke \in 0..m
    <3> HIDE DEF m
    <3>1. \A i \in 1..Len(pending) : pending[i] \in 1..m
      BY <2>1
    <3>2. spoke = 0 \/ \E i \in 1..Len(pending) : spoke = pending[i]
      BY <2>1, EventTextIs
    <3> HIDE DEF spoke
    <3> QED
      BY <2>1, <3>1, <3>2
  <2> HIDE DEF spoke
  <2>3. (IF spoke = 0 THEN transcript ELSE SpokenPart(given[spoke])) \in Seq(TextToken)
    <3>1. transcript \in Seq(TextToken)
      BY Zenon DEF HearTyped
    <3>2. spoke # 0 => given[spoke] \in ContextEvents
      BY <2>1, <2>2
    <3> QED
      BY <3>1, <3>2, SpokenPartTyped, Zenon
  <2>4. SpeakTyped'
    BY <1>7, <2>3, SynthesizeTyped, Zenon DEF SpeakReply, spoke
  <2>5. HearTyped'
    BY <1>5, <1>7, Zenon DEF SpeakReply
  <2>6. turns' \in Seq([took : Seq(1..m), spoke : 0..m])
    <3> HIDE DEF m
    <3>1. [took |-> pending, spoke |-> spoke] \in [took : Seq(1..m), spoke : 0..m]
      BY <2>1, <2>2
    <3> DEFINE T == [took : Seq(1..m), spoke : 0..m]
               turn == [took |-> pending, spoke |-> spoke]
    <3>2. turn \in T /\ turns \in Seq(T) /\ turns' = Append(turns, turn)
      BY <2>1, <3>1, Zenon
    <3> HIDE DEF T, turn
    <3>3. turns' \in Seq(T)
      BY <3>2
    <3> QED
      BY <3>3, Zenon DEF T
  <2>7. CallTyped'
    <3>1. <<>> \in Seq(1..m)
      OBVIOUS
    <3> QED
      BY <1>7, <2>6, <3>1, Zenon DEF SpeakReply, CallTyped
  <2> QED
    BY <2>4, <2>5, <2>7
<1>8. CASE Speak
  <2>1. SpeakTyped'
    BY <1>8, QwenStepTyped DEF Speak
  <2>2. HearTyped' /\ CallTyped'
    BY <1>8, Zenon DEF Speak, HearTyped, CallTyped, callerVars, whisperVars, Budget
  <2> QED
    BY <2>1, <2>2
<1>9. ASSUME ForgetSpeaking, UNCHANGED modelVars PROVE SpeakTyped'
  <2>1. <<>> \in Seq(SpokenToken) /\ <<>> \in Seq(TextToken) /\ 0 \in 0..MaxAudioTokens
    BY Qwen3TtsAssumption
  <2> QED
    BY <1>9, <2>1, Zenon DEF ForgetSpeaking, SpeakTyped, modelVars
<1>10. CASE StepReturns
  <2>1. SpeakTyped'
    BY <1>9, <1>10, Zenon DEF StepReturns
  <2>2. HearTyped' /\ CallTyped'
    BY <1>10, Zenon DEF StepReturns, HearTyped, CallTyped, whisperVars, Budget
  <2> QED
    BY <2>1, <2>2
<1>11. CASE SynthesizeFailed
  <2>1. SpeakTyped'
    BY <1>9, <1>11, Zenon DEF SynthesizeFailed
  <2>2. HearTyped' /\ CallTyped'
    BY <1>11, Zenon DEF SynthesizeFailed, HearTyped, CallTyped, whisperVars, Fail, Kind, Budget
  <2> QED
    BY <2>1, <2>2
<1>12. CASE UNCHANGED vars
  BY <1>12, Zenon DEF vars, HearTyped, SpeakTyped, CallTyped, callerVars, whisperVars, qwenVars,
                      modelVars, speechVars, inputVars, Budget
<1> QED
  BY <1>1, <1>2, <1>3, <1>4, <1>6, <1>7, <1>8, <1>10, <1>11, <1>12 DEF Next

(* The types hold from the start. *)
LEMMA TypeInit == Init => TypeInv
<1>1. /\ <<>> \in Seq(Piece) /\ <<>> \in Seq(TextToken) /\ <<>> \in Seq(SpokenToken)
      /\ <<>> \in Seq(ContextEvents) /\ Len(<<>>) = 0 /\ <<>> \in Seq(1..0)
      /\ <<>> \in Seq([took : Seq(1..0), spoke : 0..0])
  OBVIOUS
<1>2. 0 <= Budget /\ 0 \in 0..MaxAudioTokens /\ 0 <= MaxEvents
  BY BudgetType, Qwen3TtsAssumption, MlxTurnAssumption
<1> QED
  BY <1>1, <1>2 DEF Init, WhisperInit, QwenInit, TypeInv, HearTyped, SpeakTyped, CallTyped, Phase

-----------------------------------------------------------------------------
(* A transcript that is there is the clean-up of what was decoded. *)
ScriptInv == hearing = "done" => transcript = PostprocessTranscript(decoded)

(* Every step keeps it so: only the end of the text makes a transcript.    *)
LEMMA ScriptStep ==
  ASSUME ScriptInv, [Next]_vars
  PROVE  ScriptInv'
<1> DEFINE script == PostprocessTranscript(decoded)
<1>1. \/ EndOfText
      \/ UNCHANGED <<hearing, decoded, transcript>>
      \/ hearing' # "done"
  BY Zenon DEF Next, vars, callerVars, whisperVars, Load, InjectEvent, Step, Transcribe, Hear, WhisperStep,
     DecodeToken, DecodeFails, TranscribeFailed, ForgetHearing, SpeakReply, Speak, StepReturns,
     SynthesizeFailed
<1>2. CASE EndOfText
  BY <1>2, Zenon DEF EndOfText, ScriptInv
<1>3. CASE UNCHANGED <<hearing, decoded, transcript>>
  BY <1>3, Zenon DEF ScriptInv
<1>4. CASE hearing' # "done"
  BY <1>4, Zenon DEF ScriptInv
<1> QED
  BY <1>1, <1>2, <1>3, <1>4

(* In every reachable state. *)
LEMMA Typed == Spec => []TypeInv
<1> QED
  BY TypeInit, TypeStep, PTL DEF Spec

(* The transcript is what was decoded, cleaned up. *)
THEOREM TranscriptIsFaithful == Spec => []TranscriptFaithful
<1>1. Init => ScriptInv
  BY DEF Init, WhisperInit, ScriptInv
<1>2. TypeInv /\ ScriptInv => TranscriptFaithful
  <2> SUFFICES ASSUME TypeInv, ScriptInv, hearing = "done"
               PROVE  Faithful(transcript, Text(decoded))
    BY Zenon DEF TranscriptFaithful, Faithful
  <2>1. decoded \in Seq(Piece)
    BY Zenon DEF TypeInv, HearTyped
  <2> QED
    BY <2>1, CleanUpFaithful, Zenon DEF ScriptInv
<1> QED
  BY <1>1, <1>2, ScriptStep, Typed, PTL DEF Spec

-----------------------------------------------------------------------------
(* What is loaded where both models were provisioned. *)
UsableInv ==
  /\ at = "loading" => error = "none" /\ hearing = "off" /\ speaking = "off"
  /\ provisioned =>
       /\ error # "unavailable" /\ hearing # "unavailable" /\ speaking # "unavailable"
       /\ at \notin {"loading", "over"} =>
            {"whisper", "tokenizer"} \subseteq ears /\ {"qwen", "vocoder"} \subseteq voice

(* A directory with the files of the manifest of Whisper loads. *)
LEMMA WhisperProvisioned ==
  ASSUME NEW dir, Provisioned(dir, WhisperManifest)
  PROVE  WhisperLoads(dir) /\ {"whisper", "tokenizer"} \subseteq WhisperFeatures(dir)
<1>1. /\ "config.json" \in WhisperManifest /\ "tokenizer.json" \in WhisperManifest
      /\ "model.safetensors" \in WhisperManifest
  BY DEF WhisperManifest
<1>2. /\ \A f \in WhisperManifest : Good(dir, f)
      /\ \A f \in DOMAIN dir.content : Good(dir, f)
      /\ \A f \in dir.shards : Good(dir, f)
  BY DEF Provisioned
<1>3. \A f : Good(dir, f) => Has(dir, f) /\ dir.content[f] # "bad"
  BY DEF Good
<1>4. \A f : Optional(dir, f)
  BY <1>2, Zenon DEF Optional, Has
<1>5. Readable(dir, WeightFiles(dir))
  <2>1. \A f \in WeightFiles(dir) : Good(dir, f)
    BY <1>1, <1>2, Zenon DEF WeightFiles
  <2> QED
    BY <1>3, <2>1, Zenon DEF Readable
<1>6. WhisperLoads(dir)
  BY <1>1, <1>2, <1>3, <1>4, <1>5, Zenon DEF WhisperLoads, Discovered
<1>7. Has(dir, "tokenizer.json")
  BY <1>1, <1>2, <1>3, Zenon
<1> QED
  BY <1>6, <1>7 DEF WhisperFeatures

(* So does one with the files of that of Qwen3 TTS. *)
LEMMA QwenProvisioned ==
  ASSUME NEW dir, Provisioned(dir, QwenManifest)
  PROVE  QwenLoads(dir) /\ {"qwen", "vocoder"} \subseteq QwenFeatures(dir)
<1>1. /\ "config.json" \in QwenManifest /\ "vocab.json" \in QwenManifest
      /\ "merges.txt" \in QwenManifest /\ "tokenizer_config.json" \in QwenManifest
      /\ "model.safetensors" \in QwenManifest /\ Vocoder \in QwenManifest
  BY DEF QwenManifest, Vocoder
<1>2. /\ \A f \in QwenManifest : Good(dir, f)
      /\ \A f \in DOMAIN dir.content : Good(dir, f)
      /\ \A f \in dir.shards : Good(dir, f)
  BY DEF Provisioned
<1>3. \A f : Good(dir, f) => Has(dir, f) /\ dir.content[f] # "bad"
  BY DEF Good
<1>4. \A f : Optional(dir, f)
  BY <1>2, Zenon DEF Optional, Has
<1>5. \A f \in WeightFiles(dir) : Good(dir, f)
  BY <1>1, <1>2, Zenon DEF WeightFiles
<1>6. QwenTokenizer(dir)
  <2>1. \A f \in {"vocab.json", "merges.txt", "tokenizer_config.json"} : Good(dir, f)
    BY <1>1, <1>2
  <2>2. Has(dir, "tokenizer.json") => Good(dir, "tokenizer.json")
    BY <1>2, Zenon DEF Has
  <2> QED
    BY <2>1, <2>2, Zenon DEF QwenTokenizer
<1>7. Readable(dir, {Vocoder}) /\ Has(dir, Vocoder)
  <2>1. Good(dir, Vocoder)
    BY <1>1, <1>2, Zenon
  <2> QED
    BY <1>3, <2>1, Zenon DEF Readable
<1>8. QwenLoads(dir)
  BY <1>1, <1>2, <1>3, <1>4, <1>5, <1>6, <1>7, Zenon DEF QwenLoads, Discovered
<1> QED
  BY <1>7, <1>8 DEF QwenFeatures

(* Every step keeps it so: nothing is unloaded, and what is loaded is found.*)
LEMMA UsableStep ==
  ASSUME TypeInv, UsableInv, [Next]_vars
  PROVE  UsableInv'
<1>1. CASE Load
  <2>1. PICK w \in WhisperDirs \cup {NoDir}, q \in QwenDirs \cup {NoDir} :
          /\ provisioned' = /\ w # NoDir /\ Provisioned(w, WhisperManifest)
                            /\ q # NoDir /\ Provisioned(q, QwenManifest)
          /\ \/ /\ ears' = IF w = NoDir THEN {} ELSE WhisperFeatures(w)
                /\ \/ q = NoDir
                   \/ \E checkpoint \in Checkpoints : voice' = QwenFeatures(q) \cup checkpoint.features
                /\ at' = "idle" /\ error' = error
             \/ /\ \/ w # NoDir /\ ~WhisperLoads(w)
                   \/ q # NoDir /\ ~QwenLoads(q)
                /\ Fail("unavailable")
             \/ Fail("other")
    BY <1>1, Zenon DEF Load
  <2>2. hearing' = "off" /\ speaking' = "off" /\ error = "none" /\ at' # "loading"
    BY <1>1, Zenon DEF Load, UsableInv, Fail
  <2>3. ASSUME provisioned'
        PROVE  /\ w # NoDir /\ WhisperLoads(w) /\ {"whisper", "tokenizer"} \subseteq WhisperFeatures(w)
               /\ q # NoDir /\ QwenLoads(q) /\ {"qwen", "vocoder"} \subseteq QwenFeatures(q)
    BY <2>1, <2>3, WhisperProvisioned, QwenProvisioned, Zenon
  <2>4. ASSUME provisioned' PROVE error' # "unavailable"
    BY <2>1, <2>2, <2>3, <2>4, Zenon DEF Fail
  <2>5. ASSUME provisioned', at' \notin {"loading", "over"}
        PROVE  {"whisper", "tokenizer"} \subseteq ears' /\ {"qwen", "vocoder"} \subseteq voice'
    <3>1. at' # "over"
      BY <2>5
    <3>2. /\ ears' = WhisperFeatures(w)
          /\ \E checkpoint \in Checkpoints : voice' = QwenFeatures(q) \cup checkpoint.features
      BY <2>1, <2>3, <2>5, <3>1, Zenon DEF Fail
    <3> QED
      BY <2>3, <2>5, <3>2
  <2> QED
    BY <2>2, <2>4, <2>5, Zenon DEF UsableInv
<1>2. CASE InjectEvent
  BY <1>2, Zenon DEF InjectEvent, UsableInv, whisperVars, qwenVars, modelVars
<1>3. CASE Step
  BY <1>3 DEF Step, Transcribe, UsableInv, qwenVars, modelVars
<1>4. CASE Hear
  <2>1. hearing' = hearing \/ hearing' \in {"failed", "done"}
    BY <1>4, Zenon DEF Hear, WhisperStep, DecodeToken, DecodeFails, EndOfText
  <2>2. ears' = ears
    BY <1>4, Zenon DEF Hear, WhisperStep, DecodeToken, DecodeFails, EndOfText
  <2> QED
    BY <1>4, <2>1, <2>2 DEF Hear, UsableInv, callerVars, qwenVars, modelVars
<1>5. CASE TranscribeFailed
  BY <1>5 DEF TranscribeFailed, Fail, Kind, ForgetHearing, UsableInv, qwenVars, modelVars
<1>6. CASE SpeakReply
  <2>1. PICK t : Synthesize(t)
    BY <1>6, Zenon DEF SpeakReply
  <2>2. /\ speaking' \in {"working", "failed"} \/ "qwen" \notin voice
        /\ voice' = voice
    BY <2>1, Zenon DEF Synthesize, modelVars
  <2> QED
    BY <1>6, <2>2 DEF SpeakReply, ForgetHearing, UsableInv
<1>7. CASE Speak
  <2>1. /\ speaking' = speaking \/ speaking' \in {"failed", "done"} \/ "vocoder" \notin voice
        /\ voice' = voice
    BY <1>7, Zenon DEF Speak, QwenStep, GenerateFrame, GenerateFails, EndOfSpeech, modelVars
  <2> QED
    BY <1>7, <2>1 DEF Speak, UsableInv, callerVars, whisperVars
<1>8. CASE StepReturns
  BY <1>8 DEF StepReturns, ForgetSpeaking, UsableInv, modelVars, whisperVars
<1>9. CASE SynthesizeFailed
  BY <1>9 DEF SynthesizeFailed, Fail, Kind, ForgetSpeaking, UsableInv, modelVars, whisperVars
<1>10. CASE UNCHANGED vars
  BY <1>10, Zenon DEF vars, callerVars, whisperVars, qwenVars, modelVars, UsableInv
<1> QED
  BY <1>1, <1>2, <1>3, <1>4, <1>5, <1>6, <1>7, <1>8, <1>9, <1>10 DEF Next

(* Provisioned models are never missed. *)
THEOREM ProvisionedIsUsable == Spec => []ProvisionedUsable
<1>1. Init => UsableInv
  BY DEF Init, WhisperInit, QwenInit, UsableInv
<1>2. UsableInv => ProvisionedUsable
  BY DEF UsableInv, ProvisionedUsable
<1> QED
  BY <1>1, <1>2, UsableStep, Typed, PTL DEF Spec

-----------------------------------------------------------------------------
(* What is laid beside the frames while, and after, they are generated. *)
LaidOut ==
  /\ trailing = Trailing(text)
  /\ Len(fed) = frames + 1
  /\ fed[1] = FirstText(text)
  /\ \A i \in 1..frames : fed[i + 1] = IF i <= Len(trailing) THEN trailing[i] ELSE TtsPad

TextInv == speaking \in {"working", "done"} /\ mode = "streaming" => LaidOut

(* Every step keeps the layout: a frame takes the text beside it.          *)
LEMMA TextStep ==
  ASSUME TypeInv, TextInv, [Next]_vars
  PROVE  TextInv'
<1>1. \/ \E t : Synthesize(t)
      \/ GenerateFrame
      \/ UNCHANGED inputVars /\ (speaking' = speaking \/ speaking = "working")
      \/ speaking' \notin {"working", "done"}
  BY Zenon DEF Next, vars, qwenVars, speechVars, inputVars, Load, InjectEvent, Step, Hear, TranscribeFailed,
     SpeakReply, Speak, QwenStep, GenerateFails, EndOfSpeech, StepReturns, SynthesizeFailed, ForgetSpeaking
<1>2. ASSUME NEW t, Synthesize(t), speaking' \in {"working", "done"}, mode' = "streaming"
      PROVE  LaidOut'
  <2>1. text' = t /\ frames' = 0 /\ fed' = <<FirstText(t)>> /\ trailing' = Trailing(t)
    <3>1. "streaming" # "whole" /\ "failed" \notin {"working", "done"} /\ "unavailable" \notin {"working", "done"}
      OBVIOUS
    <3> QED
      BY <1>2, <3>1, Zenon DEF Synthesize, BuildInputs
  <2>2. /\ Len(<<FirstText(t)>>) = 0 + 1 /\ <<FirstText(t)>>[1] = FirstText(t)
        /\ \A i \in 1..0 : FALSE
    OBVIOUS
  <2> QED
    BY <2>1, <2>2, Zenon DEF LaidOut
<1>3. ASSUME GenerateFrame, LaidOut PROVE LaidOut'
  <2>1. /\ fed' = Append(fed, NextText) /\ frames' = frames + 1
        /\ text' = text /\ trailing' = trailing
    BY <1>3, Zenon DEF GenerateFrame
  <2>2. /\ fed \in Seq(SpokenToken) /\ trailing \in Seq(SpokenToken)
        /\ frames \in Nat /\ Len(fed) = frames + 1
    BY <1>3, Qwen3TtsAssumption DEF LaidOut, TypeInv, SpeakTyped
  <2>3. /\ Len(fed') = frames' + 1
        /\ \A i \in 1..frames + 1 : fed'[i] = fed[i]
        /\ fed'[frames + 2] = NextText
    <3> HIDE DEF NextText
    <3>1. /\ Len(fed') = Len(fed) + 1 /\ fed'[Len(fed) + 1] = NextText
          /\ \A i \in 1..Len(fed) : fed'[i] = fed[i]
      BY <2>1, <2>2
    <3> QED
      BY <2>1, <2>2, <3>1
  <2>4. fed'[1] = FirstText(text')
    <3>1. 1 \in 1..frames + 1
      BY <2>2
    <3> QED
      BY <1>3, <2>1, <2>3, <3>1, Zenon DEF LaidOut
  <2>5. ASSUME NEW i \in 1..frames'
        PROVE  fed'[i + 1] = IF i <= Len(trailing') THEN trailing'[i] ELSE TtsPad
    <3>1. i \in 1..frames \/ i = frames + 1
      BY <2>1, <2>2
    <3>2. CASE i \in 1..frames
      <4>1. i + 1 \in 1..frames + 1
        BY <2>2, <3>2
      <4> QED
        BY <1>3, <2>1, <2>3, <3>2, <4>1, Zenon DEF LaidOut
    <3>3. CASE i = frames + 1
      <4>1. i + 1 = frames + 2 /\ (frames < Len(trailing) <=> i <= Len(trailing))
        BY <2>2, <3>3
      <4> QED
        BY <2>1, <2>3, <3>3, <4>1, Zenon DEF NextText
    <3> QED
      BY <3>1, <3>2, <3>3
  <2> QED
    BY <1>3, <2>1, <2>3, <2>4, <2>5, Zenon DEF LaidOut
<1>4. CASE \E t : Synthesize(t)
  BY <1>2, <1>4, Zenon DEF TextInv
<1>5. CASE GenerateFrame
  BY <1>3, <1>5 DEF TextInv, GenerateFrame
<1>6. CASE UNCHANGED inputVars /\ (speaking' = speaking \/ speaking = "working")
  <2>1. LaidOut => LaidOut'
    BY <1>6, Zenon DEF LaidOut, inputVars
  <2>2. mode' = mode
    BY <1>6, Zenon DEF inputVars
  <2> QED
    BY <1>6, <2>1, <2>2 DEF TextInv
<1>7. CASE speaking' \notin {"working", "done"}
  BY <1>7 DEF TextInv
<1> QED
  BY <1>1, <1>4, <1>5, <1>6, <1>7

-----------------------------------------------------------------------------
(* Audio there is comes from the frames, and from a net that runs. *)
WaveInv ==
  /\ "vocoder" \in voice => net \in Vocoders
  /\ IF speaking = "done"
     THEN /\ frames > 0 /\ "vocoder" \in voice /\ Runs(net, CodeGroups)
          /\ wave = Waveform(net, frames)
     ELSE wave = <<>>

(* Every step keeps it so: only the end of speech makes audio.             *)
LEMMA WaveStep ==
  ASSUME UsableInv, WaveInv, [Next]_vars
  PROVE  WaveInv'
<1>1. "vocoder" \in voice' => net' \in Vocoders
  <2>1. CASE UNCHANGED modelVars
    BY <2>1, Zenon DEF WaveInv, modelVars
  <2>2. CASE Load
    <3>1. \A c \in Checkpoints : c.net \in Vocoders
      BY MlxTurnAssumption
    <3>2. \/ UNCHANGED modelVars
          \/ voice' = {}
          \/ \E c \in Checkpoints : net' = c.net
      BY <2>2, Zenon DEF Load
    <3> QED
      BY <2>1, <3>1, <3>2
  <2>3. Load \/ UNCHANGED modelVars
    BY Zenon DEF Next, vars, qwenVars, modelVars, InjectEvent, Step, Hear, TranscribeFailed, SpeakReply, Synthesize,
       Speak, QwenStep, GenerateFrame, GenerateFails, EndOfSpeech, StepReturns, SynthesizeFailed
  <2> QED
    BY <2>1, <2>2, <2>3
<1>2. CASE EndOfSpeech /\ speaking' = "done"
  <2>1. "done" # "failed" /\ "done" # "unavailable"
    OBVIOUS
  <2>2. /\ frames > 0 /\ "vocoder" \in voice /\ Runs(net, CodeGroups)
        /\ wave' = Waveform(net, frames)
        /\ frames' = frames /\ voice' = voice /\ net' = net
    BY <1>2, <2>1, Zenon DEF EndOfSpeech, modelVars, inputVars
  <2> QED
    BY <1>1, <1>2, <2>2, Zenon DEF WaveInv
<1>3. CASE UNCHANGED <<voice, net, speaking, frames, wave>>
  BY <1>1, <1>3, Zenon DEF WaveInv
<1>4. CASE speaking' # "done" /\ (wave' = <<>> \/ (wave' = wave /\ speaking # "done"))
  BY <1>1, <1>4, Zenon DEF WaveInv
<1>5. \/ EndOfSpeech /\ speaking' = "done"
      \/ UNCHANGED <<voice, net, speaking, frames, wave>>
      \/ speaking' # "done" /\ (wave' = <<>> \/ (wave' = wave /\ speaking # "done"))
  <2>1. CASE Load
    <3>1. speaking' = "off" /\ speaking = "off" /\ wave' = wave
      BY <2>1, Zenon DEF Load, speechVars, UsableInv
    <3> QED
      BY <3>1
  <2>2. CASE SpeakReply
    BY <2>2 DEF SpeakReply, Synthesize
  <2>3. CASE Speak
    <3>1. CASE GenerateFrame
      BY <3>1 DEF GenerateFrame
    <3>2. CASE GenerateFails
      BY <3>2 DEF GenerateFails, speechVars
    <3>3. CASE EndOfSpeech
      BY <3>3 DEF EndOfSpeech
    <3> QED
      BY <2>3, <3>1, <3>2, <3>3 DEF Speak, QwenStep
  <2>4. CASE StepReturns \/ SynthesizeFailed
    <3>1. speaking' = "off" /\ wave' = <<>>
      BY <2>4, Zenon DEF StepReturns, SynthesizeFailed, ForgetSpeaking
    <3>2. "off" # "done"
      OBVIOUS
    <3>3. speaking' # "done"
      BY <3>1, <3>2, Zenon
    <3>4. speaking' # "done" /\ (wave' = <<>> \/ (wave' = wave /\ speaking # "done"))
      BY <3>1, <3>3, Zenon
    <3> QED
      BY <3>4, Zenon
  <2>5. CASE InjectEvent \/ Step \/ Hear \/ TranscribeFailed \/ UNCHANGED vars
    BY <2>5, Zenon DEF InjectEvent, Step, Hear, TranscribeFailed, vars, qwenVars, modelVars, speechVars, inputVars
  <2> QED
    BY <2>1, <2>2, <2>3, <2>4, <2>5 DEF Next
<1> QED
  BY <1>2, <1>3, <1>4, <1>5

(* In the streaming layout the text is spoken word for word. *)
THEOREM TextIsSpoken == Spec => []TextSpoken
<1>1. Init => TextInv /\ WaveInv /\ UsableInv
  BY DEF Init, WhisperInit, QwenInit, TextInv, WaveInv, UsableInv
<1>2. TypeInv /\ TextInv /\ WaveInv => TextSpoken
  <2> SUFFICES ASSUME TypeInv, LaidOut, text # <<>>, frames > 0
               PROVE  /\ frames >= 1
                      /\ Len(fed) = frames + 1
                      /\ \A i \in DOMAIN fed :
                           fed[i] = IF i <= Len(text) THEN text[i]
                                    ELSE IF i = Len(text) + 1 THEN TtsEos ELSE TtsPad
    BY Zenon DEF TextSpoken, TextInv, WaveInv
  <2>1. /\ frames \in Nat /\ Len(fed) = frames + 1 /\ DOMAIN fed = 1..frames + 1
    BY Qwen3TtsAssumption DEF TypeInv, SpeakTyped, LaidOut
  <2>2. text \in Seq(TextToken)
    BY Zenon DEF TypeInv, SpeakTyped
  <2>3. /\ trailing = Append(Tail(text), TtsEos) /\ fed[1] = Head(text)
    BY Zenon DEF LaidOut, Trailing, FirstText
  <2> DEFINE n == Len(text)
  <2>4. /\ n \in Nat \ {0} /\ Head(text) = text[1]
        /\ Len(trailing) = n /\ trailing[n] = TtsEos
        /\ \A i \in 1..n - 1 : trailing[i] = text[i + 1]
    <3>1. n \in Nat \ {0} /\ Tail(text) \in Seq(TextToken) /\ Len(Tail(text)) = n - 1
          /\ \A i \in 1..n - 1 : Tail(text)[i] = text[i + 1]
      BY <2>2
    <3>2. Head(text) = text[1]
      BY <2>2
    <3> DEFINE rest == Tail(text)
    <3>3. /\ rest \in Seq(TextToken) /\ Len(rest) = n - 1
          /\ \A i \in 1..n - 1 : rest[i] = text[i + 1]
          /\ trailing = Append(rest, TtsEos)
      BY <2>3, <3>1, Zenon
    <3> HIDE DEF rest
    <3>4. /\ Len(trailing) = Len(rest) + 1 /\ trailing[Len(rest) + 1] = TtsEos
          /\ \A i \in 1..Len(rest) : trailing[i] = rest[i]
      BY <3>3
    <3> HIDE DEF n
    <3> QED
      BY <3>1, <3>2, <3>3, <3>4
  <2> HIDE DEF n
  <2>5. ASSUME NEW i \in 1..frames + 1
        PROVE  fed[i] = IF i <= n THEN text[i] ELSE IF i = n + 1 THEN TtsEos ELSE TtsPad
    <3>1. CASE i = 1
      <4>1. i <= n
        BY <2>4, <3>1
      <4> QED
        BY <2>3, <2>4, <3>1, <4>1, Zenon
    <3>2. CASE i # 1
      <4> DEFINE j == i - 1
      <4>1. j \in 1..frames /\ j + 1 = i
        BY <2>1, <3>2
      <4>2. fed[i] = IF j <= n THEN trailing[j] ELSE TtsPad
        BY <2>4, <4>1, Zenon DEF LaidOut
      <4>3. CASE i <= n
        <5>1. j \in 1..n - 1 /\ j <= n
          BY <2>4, <4>1, <4>3
        <5> QED
          BY <2>4, <4>1, <4>2, <4>3, <5>1, Zenon
      <4>4. CASE i = n + 1
        <5>1. j = n /\ j <= n /\ ~(i <= n)
          BY <2>4, <4>1, <4>4
        <5> QED
          BY <2>4, <4>2, <4>4, <5>1, Zenon
      <4>5. CASE i > n + 1
        <5>1. ~(j <= n) /\ ~(i <= n) /\ i # n + 1
          BY <2>4, <4>1, <4>5
        <5> QED
          BY <4>2, <5>1, Zenon
      <4> QED
        BY <2>4, <4>3, <4>4, <4>5
    <3> QED
      BY <3>1, <3>2
  <2>6. frames >= 1
    BY <2>1
  <2> QED
    BY <2>1, <2>5, <2>6, Zenon DEF n
<1> QED
  BY <1>1, <1>2, TextStep, UsableStep, WaveStep, Typed, PTL DEF Spec

-----------------------------------------------------------------------------
(* Of a net that runs and has no gap, every upsampling and every block is  *)
(* counted.                                                                *)
LEMMA AllCounted ==
  ASSUME NEW model, ValidNet(model), WholeNet(model), NEW groups, Runs(model, groups)
  PROVE  /\ UpsampleCount(model) = Cardinality(DOMAIN model.upsample)
         /\ BlockCount(model) = Cardinality(DOMAIN model.blocks)
<1>1. UpsampleCount(model) = Cardinality(DOMAIN model.upsample)
  <2> DEFINE U == DOMAIN model.upsample
             c == Cardinality(U)
  <2>1. c \in Nat /\ U = 0..c - 1
    <3>1. IsFiniteSet(U) /\ U = 0..c - 1
      BY Zenon DEF ValidNet, WholeNet
    <3> QED
      BY <3>1, FS_CardinalityType
  <2> HIDE DEF U, c
  <2>2. {i \in U : 0..i \subseteq U} = U
    BY <2>1
  <2>3. Counted(U, 0) = c
    BY <2>2 DEF Counted, c
  <2> QED
    BY <2>3 DEF UpsampleCount, U, c
<1>2. BlockCount(model) = Cardinality(DOMAIN model.blocks)
  <2> DEFINE B == DOMAIN model.blocks
             m == BlockCount(model)
  <2>1. PICK i \in Nat : model.snakes = {i} /\ B \subseteq 1..i - 1
    BY DEF WholeNet
  <2>2. m + 1 = i
    BY <2>1 DEF Runs
  <2>3. m \in Nat /\ 1..m \subseteq B
    <3>1. IsFiniteSet(B) /\ B \subseteq Nat \ {0}
      BY Zenon DEF ValidNet
    <3>2. /\ Counted(B, 1) \in Nat
          /\ 1..(1 + Counted(B, 1) - 1) \subseteq B
      <4> HIDE DEF B
      <4> QED
        <5>1. IsFiniteSet(B) /\ B \subseteq Nat /\ 1 \in Nat /\ \A x \in B : 1 <= x
          BY <3>1
        <5> QED
          BY <5>1, CountedThere, Zenon
    <3>3. m = Counted(B, 1)
      BY Zenon DEF BlockCount
    <3> HIDE DEF m, B
    <3> QED
      BY <3>2, <3>3
  <2> HIDE DEF m, B
  <2>4. B = 1..m
    <3>1. i - 1 = m
      BY <2>2, <2>3
    <3> QED
      BY <2>1, <2>3, <3>1
  <2>5. Cardinality(1..m) = m
    BY <2>3, FS_Interval
  <2> QED
    BY <2>4, <2>5 DEF m, B
<1> QED
  BY <1>1, <1>2

(* So the strides of all of them are the strides that are counted. *)
LEMMA RatesAgree ==
  ASSUME NEW model, ValidNet(model), WholeNet(model), NEW groups, Runs(model, groups)
  PROVE  /\ RateOf(model.upsample, 0, model.divisor) = Rate(UpsampleStrides(model), UpsampleCount(model))
         /\ RateOf(model.blocks, 1, model.divisor) = Rate(BlockStrides(model), BlockCount(model))
<1> DEFINE u == UpsampleCount(model)
           b == BlockCount(model)
<1>1. u = Cardinality(DOMAIN model.upsample) /\ b = Cardinality(DOMAIN model.blocks)
  BY AllCounted
<1>2. [k \in 1..u |-> InferredStride(model.upsample[0 + k - 1].kernel, model.divisor)] = UpsampleStrides(model)
  <2> HIDE DEF u
  <2>1. \A k \in 1..u : 0 + k - 1 = k - 1
    OBVIOUS
  <2> QED
    BY <2>1, Zenon DEF UpsampleStrides, u
<1>3. [k \in 1..b |-> InferredStride(model.blocks[1 + k - 1].kernel, model.divisor)] = BlockStrides(model)
  <2> HIDE DEF b
  <2>1. \A k \in 1..b : 1 + k - 1 = k
    OBVIOUS
  <2> QED
    BY <2>1, Zenon DEF BlockStrides, b
<1> QED
  BY <1>1, <1>2, <1>3, Zenon DEF RateOf

(* Audio is aligned with its frames. *)
LEMMA WaveAligned ==
  ASSUME WaveInv, speaking = "done", frames \in Nat
  PROVE  /\ wave \in Waves(frames)
         /\ Aligned(wave, frames,
                    RateOf(net.upsample, 0, net.divisor) * RateOf(net.blocks, 1, net.divisor))
<1>1. /\ frames > 0 /\ Runs(net, CodeGroups) /\ wave = Waveform(net, frames)
      /\ net \in Vocoders
  BY Zenon DEF WaveInv
<1>2. ValidNet(net) /\ WholeNet(net)
  BY <1>1, Qwen3TtsAssumption, Zenon
<1>3. frames \in Nat \ {0}
  BY <1>1
<1>4. /\ Waveform(net, frames) \in Waves(frames)
      /\ Aligned(Waveform(net, frames), frames,
                 Rate(UpsampleStrides(net), UpsampleCount(net)) * Rate(BlockStrides(net), BlockCount(net)))
  BY <1>1, <1>2, <1>3, WaveformAligned, Zenon
<1>5. /\ RateOf(net.upsample, 0, net.divisor) = Rate(UpsampleStrides(net), UpsampleCount(net))
      /\ RateOf(net.blocks, 1, net.divisor) = Rate(BlockStrides(net), BlockCount(net))
  BY <1>1, <1>2, RatesAgree, Zenon
<1> QED
  BY <1>1, <1>4, <1>5, Zenon

(* No sound of a finished synthesis is early, late or missing. *)
THEOREM SpeechIsAligned == Spec => []SpeechAligned
<1>1. Init => WaveInv /\ UsableInv
  BY DEF Init, WhisperInit, QwenInit, WaveInv, UsableInv
<1>2. TypeInv /\ WaveInv => SpeechAligned
  <2> SUFFICES ASSUME TypeInv, WaveInv, speaking = "done"
               PROVE  Aligned(wave, frames,
                        RateOf(net.upsample, 0, net.divisor) * RateOf(net.blocks, 1, net.divisor))
    BY Zenon DEF SpeechAligned
  <2>1. frames \in Nat
    BY Qwen3TtsAssumption DEF TypeInv, SpeakTyped
  <2> QED
    BY <2>1, WaveAligned
<1> QED
  BY <1>1, <1>2, UsableStep, WaveStep, Typed, PTL DEF Spec

-----------------------------------------------------------------------------
(* The events that the turns took, in order. *)
TookAll(t) == FlattenSeq([i \in DOMAIN t |-> t[i].took])

Numbers(n) == [id \in 1..n |-> id]

(* A turn speaks the oldest event with text that it took. *)
SpokeOldest(turn) ==
  LET texts == {id \in ToSet(turn.took) : HasText(id)} IN
  IF texts = {} THEN turn.spoke = 0
  ELSE turn.spoke \in texts /\ \A id \in texts : turn.spoke <= id

EventsInv ==
  /\ TookAll(turns) \o pending = Numbers(Len(given))
  /\ \A t \in DOMAIN turns : SpokeOldest(turns[t])

(* The types that the proof needs. *)
LEMMA EventsTyped ==
  ASSUME TypeInv
  PROVE  /\ Len(given) \in Nat /\ given \in Seq(ContextEvents)
         /\ pending \in Seq(1..Len(given))
         /\ turns \in Seq([took : Seq(1..Len(given)), spoke : 0..Len(given)])
         /\ [i \in DOMAIN turns |-> turns[i].took] \in Seq(Seq(1..Len(given)))
<1>1. /\ given \in Seq(ContextEvents)
      /\ pending \in Seq(1..Len(given))
      /\ turns \in Seq([took : Seq(1..Len(given)), spoke : 0..Len(given)])
  BY Zenon DEF TypeInv, CallTyped
<1>2. Len(given) \in Nat
  BY <1>1
<1> DEFINE m == Len(given)
           T == [took : Seq(1..m), spoke : 0..m]
           tooks == [i \in DOMAIN turns |-> turns[i].took]
<1>3. \A x \in T : x.took \in Seq(1..m)
  OBVIOUS
<1>4. turns \in Seq(T)
  BY <1>1, Zenon
<1> HIDE DEF T, m
<1>5. /\ DOMAIN turns = 1..Len(turns) /\ Len(turns) \in Nat
      /\ \A i \in 1..Len(turns) : turns[i] \in T
  BY <1>4
<1>6. tooks \in [1..Len(turns) -> Seq(1..m)]
  BY <1>3, <1>5, Zenon
<1>7. tooks \in Seq(Seq(1..m))
  <2> HIDE DEF tooks
  <2> QED
    BY <1>5, <1>6
<1> QED
  BY <1>1, <1>2, <1>7 DEF m

(* One more event is pending. *)
LEMMA InjectKeeps ==
  ASSUME TypeInv, EventsInv, InjectEvent
  PROVE  EventsInv'
<1> DEFINE n == Len(given)
           flat == TookAll(turns)
<1>1. /\ turns' = turns /\ Len(given') = n + 1 /\ pending' = Append(pending, n + 1)
      /\ n \in Nat
      /\ \A id \in 1..n : given'[id] = given[id]
  <2>1. PICK event \in ContextEvents : given' = Append(given, event)
    BY Zenon DEF InjectEvent
  <2>2. given \in Seq(ContextEvents)
    BY EventsTyped
  <2>3. turns' = turns /\ pending' = Append(pending, n + 1)
    BY Zenon DEF InjectEvent
  <2>4. n \in Nat /\ Len(given') = n + 1 /\ \A id \in 1..n : given'[id] = given[id]
    BY <2>1, <2>2
  <2> QED
    BY <2>3, <2>4
<1>2. flat \in Seq(1..n) /\ pending \in Seq(1..n) /\ flat \o pending = Numbers(n)
  BY EventsTyped, FlattenType DEF EventsInv, TookAll
<1>3. flat' \o pending' = Numbers(n + 1)
  <2>1. flat' = flat
    BY <1>1, Zenon DEF TookAll
  <2> DEFINE more == Append(pending, n + 1)
  <2>2. /\ pending \in Seq(Nat) /\ flat \in Seq(Nat) /\ more \in Seq(Nat) /\ Len(more) = Len(pending) + 1
        /\ \A i \in 1..Len(pending) : more[i] = pending[i]
        /\ more[Len(pending) + 1] = n + 1
        /\ Len(flat) \in Nat /\ Len(pending) \in Nat
    <3> HIDE DEF flat, n
    <3>1. flat \in Seq(Nat) /\ pending \in Seq(Nat)
      BY <1>1, <1>2
    <3> QED
      BY <1>1, <3>1
  <2>3. /\ Len(flat \o pending) = Len(flat) + Len(pending)
        /\ flat \o pending \in Seq(Nat)
        /\ \A i \in 1..Len(flat) + Len(pending) :
             (flat \o pending)[i] = IF i <= Len(flat) THEN flat[i] ELSE pending[i - Len(flat)]
    BY <2>2, ConcatProperties
  <2>4. /\ Len(flat \o more) = Len(flat) + Len(more)
        /\ flat \o more \in Seq(Nat)
        /\ \A i \in 1..Len(flat) + Len(more) :
             (flat \o more)[i] = IF i <= Len(flat) THEN flat[i] ELSE more[i - Len(flat)]
    BY <2>2, ConcatProperties
  <2>5. Len(flat) + Len(pending) = n
    <3>1. Len(Numbers(n)) = n
      BY <1>1 DEF Numbers
    <3> QED
      BY <1>2, <2>3, <3>1
  <2>6. \A i \in 1..n : (flat \o pending)[i] = i
    BY <1>2 DEF Numbers
  <2>0. /\ Len(flat) \in Nat /\ Len(pending) \in Nat /\ n \in Nat
        /\ Len(more) = Len(pending) + 1 /\ Len(flat) + Len(pending) = n
    BY <1>1, <2>2, <2>5, Zenon
  <2> DEFINE long == flat \o more
             short == flat \o pending
  <2> HIDE DEF more, flat, n
  <2>7. ASSUME NEW i \in 1..n + 1 PROVE long[i] = i
    <3>1. CASE i <= Len(flat)
      <4>1. i \in 1..n /\ i \in 1..Len(flat) + Len(more)
        BY <2>0, <3>1
      <4>2. long[i] = flat[i] /\ short[i] = flat[i] /\ short[i] = i
        BY <2>3, <2>4, <2>5, <2>6, <3>1, <4>1
      <4> QED
        BY <4>2
    <3>2. CASE i > Len(flat) /\ i <= n
      <4>1. /\ i \in 1..n /\ i \in 1..Len(flat) + Len(more) /\ i - Len(flat) \in 1..Len(pending)
            /\ ~(i <= Len(flat))
        BY <2>0, <3>2
      <4>2. long[i] = more[i - Len(flat)] /\ short[i] = pending[i - Len(flat)] /\ short[i] = i
        BY <2>3, <2>4, <2>5, <2>6, <4>1
      <4> QED
        BY <2>2, <4>1, <4>2
    <3>3. CASE i = n + 1
      <4>1. /\ i \in 1..Len(flat) + Len(more) /\ i - Len(flat) = Len(pending) + 1
            /\ ~(i <= Len(flat))
        BY <2>0, <3>3
      <4>2. long[i] = more[Len(pending) + 1]
        BY <2>4, <4>1
      <4> QED
        BY <2>2, <3>3, <4>2
    <3>4. i <= Len(flat) \/ (i > Len(flat) /\ i <= n) \/ i = n + 1
      BY <2>0
    <3> QED
      BY <3>1, <3>2, <3>3, <3>4
  <2>8. long \in Seq(Nat) /\ Len(long) = n + 1
    BY <2>2, <2>4, <2>5
  <2> HIDE DEF long
  <2>9. long = Numbers(n + 1)
    BY <2>7, <2>8 DEF Numbers
  <2> QED
    BY <1>1, <2>1, <2>9 DEF long, more, flat
<1>4. ASSUME NEW t \in DOMAIN turns PROVE SpokeOldest(turns[t])'
  <2>1. turns[t].took \in Seq(1..n)
    <3>1. turns \in Seq([took : Seq(1..n), spoke : 0..n])
      BY EventsTyped
    <3>2. \A x \in [took : Seq(1..n), spoke : 0..n] : x.took \in Seq(1..n)
      OBVIOUS
    <3> DEFINE T == [took : Seq(1..n), spoke : 0..n]
    <3>3. turns[t] \in T
      <4>1. turns \in Seq(T)
        BY <3>1
      <4> HIDE DEF T
      <4> QED
        BY <4>1
    <3> QED
      BY <3>2, <3>3
  <2>2. \A id \in ToSet(turns[t].took) : id \in 1..n
    BY <2>1 DEF ToSet
  <2>3. \A id \in 1..n : HasText(id)' <=> HasText(id)
    BY <1>1, Zenon DEF HasText
  <2>4. {id \in ToSet(turns[t].took) : HasText(id)'} = {id \in ToSet(turns[t].took) : HasText(id)}
    BY <2>2, <2>3, Zenon
  <2>5. SpokeOldest(turns[t])
    BY Zenon DEF EventsInv
  <2>6. turns'[t] = turns[t]
    BY <1>1, Zenon
  <2> QED
    BY <2>4, <2>5, <2>6, Zenon DEF SpokeOldest
<1> QED
  BY <1>1, <1>3, <1>4, Zenon DEF EventsInv

-----------------------------------------------------------------------------
(* A turn takes the pending events, and speaks the oldest one with text. *)
LEMMA ReplyKeeps ==
  ASSUME TypeInv, EventsInv, SpeakReply
  PROVE  EventsInv'
<1> DEFINE n == Len(given)
           flat == TookAll(turns)
           tooks == [i \in DOMAIN turns |-> turns[i].took]
           turn == [took |-> pending, spoke |-> EventText(pending)]
           T == [took : Seq(1..n), spoke : 0..n]
<1>1. /\ turns' = Append(turns, turn) /\ pending' = <<>> /\ given' = given
  BY Zenon DEF SpeakReply
<1>2. n \in Nat /\ pending \in Seq(1..n) /\ turns \in Seq(T) /\ tooks \in Seq(Seq(1..n))
  BY EventsTyped
<1>3. flat \in Seq(1..n) /\ flat \o pending = Numbers(n)
  BY <1>2, FlattenType DEF EventsInv, TookAll
<1>4. /\ DOMAIN turns = 1..Len(turns) /\ Len(turns) \in Nat
      /\ DOMAIN turns' = 1..Len(turns) + 1
      /\ \A t \in 1..Len(turns) : turns'[t] = turns[t]
      /\ turns'[Len(turns) + 1] = turn
  <2> HIDE DEF T, turn
  <2> QED
    BY <1>1, <1>2
<1>5. turn.took = pending /\ turn.spoke = EventText(pending)
  OBVIOUS
<1> HIDE DEF turn, T
<1>6. [i \in DOMAIN turns' |-> turns'[i].took] = Append(tooks, pending)
  <2> DEFINE more == Append(tooks, pending)
             long == [i \in DOMAIN turns' |-> turns'[i].took]
  <2>1. DOMAIN tooks = 1..Len(turns) /\ \A i \in 1..Len(turns) : tooks[i] = turns[i].took
    BY <1>4, Zenon
  <2>2. Len(tooks) = Len(turns)
    BY <1>4
  <2> HIDE DEF tooks
  <2>3. /\ more \in Seq(Seq(1..n)) /\ Len(more) = Len(turns) + 1
        /\ \A i \in 1..Len(turns) : more[i] = tooks[i]
        /\ more[Len(turns) + 1] = pending
    <3> DEFINE S == Seq(1..n)
    <3>1. tooks \in Seq(S) /\ pending \in S
      BY <1>2, Zenon
    <3> HIDE DEF S
    <3> QED
      BY <2>2, <3>1 DEF S
  <2>4. DOMAIN more = 1..Len(turns) + 1
    <3> HIDE DEF more
    <3> QED
      BY <2>3
  <2> HIDE DEF more
  <2>5. ASSUME NEW i \in 1..Len(turns) + 1 PROVE turns'[i].took = more[i]
    <3>1. i \in 1..Len(turns) \/ i = Len(turns) + 1
      BY <1>4
    <3>2. CASE i \in 1..Len(turns)
      BY <1>4, <2>1, <2>3, <3>2, Zenon
    <3>3. CASE i = Len(turns) + 1
      BY <1>4, <1>5, <2>3, <3>3, Zenon
    <3> QED
      BY <3>1, <3>2, <3>3
  <2>6. long = [i \in 1..Len(turns) + 1 |-> more[i]]
    BY <1>4, <2>5, Zenon
  <2>7. more = [i \in 1..Len(turns) + 1 |-> more[i]]
    <3>1. more = [i \in 1..Len(more) |-> more[i]]
      BY <2>3
    <3> QED
      BY <2>3, <3>1, Zenon
  <2> QED
    BY <2>6, <2>7 DEF more
<1>7. TookAll(turns') = Numbers(n)
  <2>1. FlattenSeq(Append(tooks, pending)) = FlattenSeq(tooks) \o pending
    BY <1>2, FlattenAppend, Zenon
  <2>2. FlattenSeq(tooks) = flat
    BY Zenon DEF TookAll
  <2>3. TookAll(turns') = FlattenSeq(Append(tooks, pending))
    BY <1>6, Zenon DEF TookAll
  <2> QED
    BY <1>3, <2>1, <2>2, <2>3, Zenon
<1>8. TookAll(turns)' \o pending' = Numbers(Len(given'))
  <2>1. Numbers(n) \in Seq(Nat)
    <3> HIDE DEF n
    <3> QED
      BY <1>2 DEF Numbers
  <2>2. Numbers(n) \o <<>> = Numbers(n)
    BY <2>1
  <2>3. TookAll(turns)' = TookAll(turns')
    BY Zenon DEF TookAll
  <2> QED
    BY <1>1, <1>7, <2>2, <2>3, Zenon
<1>9. \A i, j \in 1..Len(pending) : i <= j => pending[i] <= pending[j]
  <2> HIDE DEF flat, n
  <2>1. flat \in Seq(Nat) /\ pending \in Seq(Nat)
    BY <1>2, <1>3
  <2>2. /\ Len(flat) \in Nat /\ Len(pending) \in Nat /\ Len(flat \o pending) = Len(flat) + Len(pending)
        /\ \A i \in 1..Len(flat) + Len(pending) :
             (flat \o pending)[i] = IF i <= Len(flat) THEN flat[i] ELSE pending[i - Len(flat)]
    BY <2>1, ConcatProperties
  <2> DEFINE all == flat \o pending
  <2>3. Len(all) = n /\ \A i \in 1..n : all[i] = i
    BY <1>2, <1>3 DEF Numbers
  <2> HIDE DEF all
  <2>4. ASSUME NEW i \in 1..Len(pending) PROVE pending[i] = Len(flat) + i
    <3>1. /\ Len(flat) + i \in 1..Len(flat) + Len(pending) /\ ~(Len(flat) + i <= Len(flat))
          /\ (Len(flat) + i) - Len(flat) = i /\ Len(flat) + Len(pending) = n
      BY <2>2, <2>3 DEF all
    <3>2. all[Len(flat) + i] = pending[(Len(flat) + i) - Len(flat)]
      <4> DEFINE y == Len(flat) + i
      <4>1. y \in 1..Len(flat) + Len(pending) /\ ~(y <= Len(flat))
        BY <3>1, Zenon
      <4> HIDE DEF y
      <4>2. all[y] = pending[y - Len(flat)]
        BY <2>2, <4>1, Zenon DEF all
      <4> QED
        BY <4>2, Zenon DEF y
    <3>3. all[Len(flat) + i] = Len(flat) + i
      BY <2>3, <3>1, Zenon
    <3> QED
      BY <3>1, <3>2, <3>3, Zenon
  <2> QED
    BY <2>2, <2>4
<1>10. SpokeOldest(turn)
  <2> DEFINE texts == {id \in ToSet(pending) : HasText(id)}
  <2>1. ToSet(pending) = {pending[i] : i \in 1..Len(pending)}
    BY <1>2 DEF ToSet
  <2>2. CASE EventText(pending) = 0 /\ \A i \in 1..Len(pending) : ~HasText(pending[i])
    <3>1. texts = {}
      BY <2>1, <2>2, Zenon
    <3> QED
      BY <1>5, <2>2, <3>1, Zenon DEF SpokeOldest
  <2>3. CASE \E i \in 1..Len(pending) : /\ EventText(pending) = pending[i]
                                        /\ HasText(pending[i])
                                        /\ \A j \in 1..Len(pending) : HasText(pending[j]) => i <= j
    <3>1. PICK i \in 1..Len(pending) : /\ EventText(pending) = pending[i]
                                       /\ HasText(pending[i])
                                       /\ \A j \in 1..Len(pending) : HasText(pending[j]) => i <= j
      BY <2>3
    <3>2. pending[i] \in texts
      BY <2>1, <3>1, Zenon
    <3>3. \A id \in texts : pending[i] <= id
      BY <1>9, <2>1, <3>1, Zenon
    <3> QED
      BY <1>5, <3>1, <3>2, <3>3, Zenon DEF SpokeOldest
  <2> QED
    BY <1>2, <2>2, <2>3, EventTextIs
<1>11. ASSUME NEW t \in DOMAIN turns' PROVE SpokeOldest(turns[t])'
  <2>1. t \in 1..Len(turns) \/ t = Len(turns) + 1
    BY <1>4
  <2>2. CASE t \in 1..Len(turns)
    <3>1. SpokeOldest(turns[t])
      BY <1>4, <2>2, Zenon DEF EventsInv
    <3>2. turns'[t] = turns[t]
      BY <1>4, <2>2, Zenon
    <3>3. \A id : HasText(id)' <=> HasText(id)
      BY <1>1, Zenon DEF HasText
    <3> QED
      BY <3>1, <3>2, <3>3, Zenon DEF SpokeOldest
  <2>3. CASE t = Len(turns) + 1
    <3>1. turns'[t] = turn
      BY <1>4, <2>3, Zenon
    <3>2. \A id : HasText(id)' <=> HasText(id)
      BY <1>1, Zenon DEF HasText
    <3> QED
      BY <1>10, <3>1, <3>2, Zenon DEF SpokeOldest
  <2> QED
    BY <2>1, <2>2, <2>3
<1> QED
  BY <1>8, <1>11, Zenon DEF EventsInv, TookAll

(* Every step keeps the events in order. *)
LEMMA EventsStep ==
  ASSUME TypeInv, EventsInv, [Next]_vars
  PROVE  EventsInv'
<1>1. InjectEvent \/ SpeakReply \/ UNCHANGED <<turns, pending, given>>
  BY Zenon DEF Next, vars, callerVars, Load, Step, Hear, TranscribeFailed, Speak, StepReturns, SynthesizeFailed
<1>2. CASE UNCHANGED <<turns, pending, given>>
  <2>1. \A id : HasText(id)' <=> HasText(id)
    BY <1>2, Zenon DEF HasText
  <2>2. TookAll(turns)' = TookAll(turns)
    BY <1>2, Zenon DEF TookAll
  <2>3. ASSUME NEW t \in DOMAIN turns PROVE SpokeOldest(turns[t])'
    <3>1. SpokeOldest(turns[t]) /\ turns' = turns
      BY <1>2, Zenon DEF EventsInv
    <3> QED
      BY <2>1, <3>1, Zenon DEF SpokeOldest
  <2> QED
    BY <1>2, <2>2, <2>3, Zenon DEF EventsInv
<1> QED
  BY <1>1, <1>2, InjectKeeps, ReplyKeeps

(* No event is spoken twice, or after a later one. *)
THEOREM EventsAreSpokenOnce == Spec => []EventsSpokenOnce
<1>1. Init => EventsInv
  <2> SUFFICES ASSUME Init PROVE EventsInv
    OBVIOUS
  <2>1. turns = <<>> /\ pending = <<>> /\ given = <<>>
    BY Zenon DEF Init
  <2>2. [i \in DOMAIN <<>> |-> <<>>[i].took] = <<>>
    OBVIOUS
  <2>3. FlattenSeq(<<>>) = <<>>
    BY DEF FlattenSeq
  <2>4. <<>> \o <<>> = Numbers(Len(<<>>)) /\ DOMAIN <<>> = {}
    BY DEF Numbers
  <2>5. TookAll(turns) = <<>>
    BY <2>1, <2>2, <2>3 DEF TookAll
  <2>6. \A t \in {} : FALSE
    OBVIOUS
  <2> QED
    BY <2>1, <2>4, <2>5, <2>6, Zenon DEF EventsInv
<1>2. TypeInv /\ EventsInv => EventsSpokenOnce
  <2> SUFFICES ASSUME TypeInv, EventsInv PROVE EventsSpokenOnce
    OBVIOUS
  <2>1. DOMAIN given = 1..Len(given)
    BY EventsTyped
  <2>2. [id \in DOMAIN given |-> id] = Numbers(Len(given))
    BY <2>1, Zenon DEF Numbers
  <2> QED
    BY <2>2, Zenon DEF EventsInv, EventsSpokenOnce, SpokeOldest, TookAll
<1> QED
  BY <1>1, <1>2, EventsStep, Typed, PTL DEF Spec
-----------------------------------------------------------------------------
(* Every variable has its type: the audio of n frames depends on frames of *)
(* 1..n only, and what is kept is within its bounds.                       *)
THEOREM TypeCorrect == Spec => []TypeOK
<1>1. Init => WaveInv /\ UsableInv
  BY DEF Init, WhisperInit, QwenInit, WaveInv, UsableInv
<1>2. TypeInv /\ WaveInv => TypeOK
  <2> SUFFICES ASSUME TypeInv, WaveInv PROVE TypeOK
    OBVIOUS
  <2>1. wave \in Seq(SUBSET (1..frames))
    <3>1. CASE speaking = "done"
      <4>1. frames \in Nat
        BY Qwen3TtsAssumption DEF TypeInv, SpeakTyped
      <4> QED
        BY <3>1, <4>1, WaveAligned DEF Waves
    <3>2. CASE speaking # "done"
      <4>1. wave = <<>>
        BY <3>2, Zenon DEF WaveInv
      <4> QED
        BY <4>1
    <3> QED
      BY <3>1, <3>2
  <2>2. TextToken \subseteq Piece
    BY MlxTurnAssumption
  <2>3. transcript \in Seq(Piece)
    <3>1. transcript \in Seq(TextToken)
      BY Zenon DEF TypeInv, HearTyped
    <3> QED
      BY <2>2, <3>1
  <2>4. /\ pending \in Seq(1..MaxEvents)
        /\ turns \in Seq([took : Seq(1..MaxEvents), spoke : 0..MaxEvents])
    <3>1. Len(given) \in Nat /\ MaxEvents \in Nat /\ Len(given) <= MaxEvents
      <4>1. Len(given) <= MaxEvents
        BY Zenon DEF TypeInv, CallTyped
      <4> QED
        BY <4>1, EventsTyped, MlxTurnAssumption
    <3>2. /\ Seq(1..Len(given)) \subseteq Seq(1..MaxEvents)
          /\ Seq([took : Seq(1..Len(given)), spoke : 0..Len(given)])
               \subseteq Seq([took : Seq(1..MaxEvents), spoke : 0..MaxEvents])
      BY <3>1, TurnsTypeGrows, Zenon
    <3> QED
      BY <3>2, EventsTyped, Zenon
  <2> QED
    BY <2>1, <2>3, <2>4, Zenon
       DEF TypeInv, HearTyped, SpeakTyped, CallTyped, TypeOK, WhisperTypeOK, QwenTypeOK
<1> QED
  BY <1>1, <1>2, UsableStep, WaveStep, Typed, PTL DEF Spec

-----------------------------------------------------------------------------
(* The larger of two numbers. *)
LEMMA MaxOfTwo ==
  ASSUME NEW i \in Int, NEW j \in Int
  PROVE  Max({i, j}) = IF i >= j THEN i ELSE j
BY DEF Max

(* What the words two texts share is a beginning of the first. *)
LEMMA AgreeIs ==
  ASSUME NEW t \in Seq(Word), NEW u \in Seq(Word)
  PROVE  \E n \in 0..Len(t) : Agree(t, u) = SubSeq(t, 1, n)
<1> DEFINE common == {n \in 0..Min({Len(t), Len(u)}) :
                        \A i \in 1..n : t[i] = u[i] \/ <<t[i], u[i]>> \in SameWord}
<1>1. Len(t) \in Nat /\ Len(u) \in Nat
  OBVIOUS
<1>2. Min({Len(t), Len(u)}) \in 0..Len(t)
  BY <1>1 DEF Min
<1>3. common \subseteq 0..Len(t)
  BY <1>1, <1>2
<1>4. 0 \in common
  BY <1>2
<1>5. Agree(t, u) = SubSeq(t, 1, Max(common))
  BY Zenon DEF Agree
<1> HIDE DEF common
<1>6. Max(common) \in 0..Len(t)
  <2>1. \E x \in common : \A y \in common : x >= y
    <3>1. CASE common \subseteq {0}
      BY <3>1, <1>4
    <3>2. CASE ~(common \subseteq {0})
      <4>1. common \ {0} \in SUBSET (1..Len(t)) /\ common \ {0} # {}
        BY <3>2, <1>3
      <4>2. PICK x \in common \ {0} : \A y \in common \ {0} : y <= x
        BY <4>1, <1>1, Largest
      <4>3. \A y \in common : x >= y
        BY <4>1, <4>2, <1>1, <1>3
      <4> QED
        BY <4>2, <4>3
    <3> QED
      BY <3>1, <3>2
  <2>2. Max(common) \in common
    BY <2>1 DEF Max
  <2> QED
    BY <2>2, <1>3
<1> QED
  BY <1>5, <1>6

(* The beginnings of texts: a text is one, and a beginning of one is. *)
LEMMA PrefixesAre ==
  /\ Texts \subseteq AllPrefixes
  /\ AllPrefixes \subseteq Seq(Word)
  /\ <<>> \in AllPrefixes
  /\ \A t \in AllPrefixes : \A n \in 0..Len(t) : SubSeq(t, 1, n) \in AllPrefixes
<1> USE SttAssumption
<1>1. ASSUME NEW t \in Texts PROVE t \in AllPrefixes
  <2>1. t \in Seq(Word) /\ Len(t) \in 0..Len(t)
    <3> HIDE DEF Word
    <3> QED
      OBVIOUS
  <2>2. SubSeq(t, 1, Len(t)) = t
    BY <2>1, SubSeqFull
  <2>3. t \in Prefixes(t)
    BY <2>1, <2>2 DEF Prefixes
  <2> QED
    BY <2>3 DEF AllPrefixes
<1>2. ASSUME NEW t \in AllPrefixes
      PROVE  \E u \in Texts : \E n \in 0..Len(u) : t = SubSeq(u, 1, n)
  BY DEF AllPrefixes, Prefixes
<1>3. ASSUME NEW u \in Seq(Word), NEW n \in 0..Len(u)
      PROVE  SubSeq(u, 1, n) \in Seq(Word) /\ Len(SubSeq(u, 1, n)) = n
  OBVIOUS
<1>4. AllPrefixes \subseteq Seq(Word)
  BY <1>2, <1>3
<1>5. ASSUME NEW t \in AllPrefixes, NEW n \in 0..Len(t) PROVE SubSeq(t, 1, n) \in AllPrefixes
  <2>0. PICK u \in Texts : \E m \in 0..Len(u) : t = SubSeq(u, 1, m)
    BY <1>2
  <2>1. PICK m \in 0..Len(u) : t = SubSeq(u, 1, m)
    BY <2>0
  <2>2. u \in Seq(Word) /\ Len(u) \in Nat
    OBVIOUS
  <2>3. Len(t) = m
    BY <2>1, <2>2, <1>3
  <2>4. n \in 0..Len(u)
    BY <2>2, <2>3
  <2>5. SubSeq(t, 1, n) = SubSeq(u, 1, n)
    BY <2>1, <2>2, <2>3
  <2>6. SubSeq(u, 1, n) \in Prefixes(u)
    BY <2>4 DEF Prefixes
  <2> QED
    BY <2>5, <2>6 DEF AllPrefixes
<1> QED
  BY <1>1, <1>4, <1>5

(* What several texts share is a beginning of one. *)
LEMMA CandidateIs ==
  ASSUME NEW hyps \in Seq(Texts), hyps # <<>>
  PROVE  Candidate(hyps) \in AllPrefixes
<1> DEFINE others == Tail(hyps)
           n == Len(others)
           S == AllPrefixes
           F == [k \in 1..n |-> [x \in S |-> Agree(x, others[k])]]
           Body(f) == [s \in SUBSET DOMAIN others |->
                         IF s = {} THEN Head(hyps) ELSE Agree(f[s \ {Max(s)}], others[Max(s)])]
           iter == CHOOSE f : f = Body(f)
<1>1. n \in Nat /\ DOMAIN others = 1..n /\ \A k \in 1..n : others[k] \in Texts
  OBVIOUS
<1>2. Head(hyps) \in S
  BY PrefixesAre
<1>3. ASSUME NEW x \in S, NEW t \in Texts PROVE Agree(x, t) \in S
  BY AgreeIs, PrefixesAre
<1>4. Candidate(hyps) = iter[DOMAIN others]
  BY Zenon DEF Candidate, FoldLeft, MapThenFoldSet
<1> HIDE DEF n, S, others
<1>5. F \in [1..n -> [S -> S]] /\ \A k \in 1..n : \A x \in S : F[k][x] = Agree(x, others[k])
  BY <1>1, <1>3
<1> HIDE DEF F
<1>6. PICK g \in [SUBSET (1..n) -> S] :
        /\ g[{}] = Head(hyps)
        /\ \A s \in SUBSET (1..n) : s # {} => g[s] = F[Max(s)][g[s \ {Max(s)}]]
  <2>1. SetIterates(S, n, Head(hyps), F) # {}
    BY <1>1, <1>2, <1>5, SubsetRecursion
  <2> QED
    BY <2>1 DEF SetIterates
<1>7. \A s \in SUBSET (1..n) : s # {} => Max(s) \in 1..n /\ s \ {Max(s)} \in SUBSET (1..n)
  BY <1>1, Largest
<1>8. iter = Body(iter)
  <2>1. \A s \in SUBSET (1..n) : g[s] = IF s = {} THEN Head(hyps) ELSE Agree(g[s \ {Max(s)}], others[Max(s)])
    BY <1>5, <1>6, <1>7
  <2>2. g = Body(g)
    BY <1>1, <2>1
  <2> HIDE DEF Body
  <2> QED
    BY <2>2
<1> HIDE DEF iter
<1>9. \A s \in SUBSET (1..n) : iter[s] = IF s = {} THEN Head(hyps) ELSE Agree(iter[s \ {Max(s)}], others[Max(s)])
  BY <1>1, <1>8, Zenon
<1>10. \E h \in Iterates(S, n, Head(hyps), F) : h[n] = iter[1..n]
  <2>1. iter[{}] = Head(hyps)
    BY <1>9
  <2>2. \A s \in SUBSET (1..n) : s # {} /\ iter[s \ {Max(s)}] \in S
                                    => iter[s] = F[Max(s)][iter[s \ {Max(s)}]]
    BY <1>5, <1>7, <1>9
  <2>3. FollowsFrom(S, n, Head(hyps), F, iter)
    BY <2>1, <2>2, Zenon DEF FollowsFrom
  <2>4. n \in Nat /\ Head(hyps) \in S /\ F \in [1..n -> [S -> S]]
    BY <1>1, <1>2, <1>5
  <2> QED
    BY <2>3, <2>4, PrefixRecursion
<1>11. iter[1..n] \in S
  BY <1>1, <1>10 DEF Iterates
<1> QED
  BY <1>1, <1>4, <1>11 DEF S

-----------------------------------------------------------------------------
(* The hypotheses after a decode, and the prefix they may commit. *)
LEMMA RememberedIs ==
  ASSUME hypotheses \in BoundedSeq(Texts, Passes), NEW t \in Texts
  PROVE  /\ Remembered(t) \in BoundedSeq(Texts, Passes)
         /\ Commits(t) => Candidate(Remembered(t)) \in AllPrefixes
<1> USE SttAssumption
<1> DEFINE all == Append(hypotheses, t)
<1>1. \A h : h \in BoundedSeq(Texts, Passes) <=> h \in Seq(Texts) /\ Len(h) <= Passes
  <2>1. ASSUME NEW h \in BoundedSeq(Texts, Passes) PROVE h \in Seq(Texts) /\ Len(h) <= Passes
    <3>1. PICK m \in 0..Passes : h \in [1..m -> Texts]
      BY DEF BoundedSeq, SeqOf
    <3> QED
      BY <3>1
  <2>2. ASSUME NEW h \in Seq(Texts), Len(h) <= Passes PROVE h \in BoundedSeq(Texts, Passes)
    <3>1. Len(h) \in 0..Passes /\ h \in [1..Len(h) -> Texts]
      BY <2>2
    <3> QED
      BY <3>1 DEF BoundedSeq, SeqOf
  <2> QED
    BY <2>1, <2>2
<1>2. all \in Seq(Texts) /\ Len(all) = Len(hypotheses) + 1 /\ Len(hypotheses) \in 0..Passes
  <2>1. hypotheses \in Seq(Texts) /\ Len(hypotheses) <= Passes
    BY Zenon, <1>1
  <2>2. Len(hypotheses) \in Nat
    BY <2>1
  <2> QED
    BY <2>1, <2>2, AppendProperties
<1>3. Tail(all) \in Seq(Texts) /\ Len(Tail(all)) = Len(all) - 1
  <2> HIDE DEF all
  <2>1. all # <<>>
    BY <1>2
  <2> QED
    BY Zenon, <2>1, <1>2, HeadTailProperties
<1>4. Remembered(t) \in Seq(Texts) /\ Len(Remembered(t)) <= Passes
  <2>1. Remembered(t) = IF Len(all) > Passes THEN Tail(all) ELSE all
    BY Zenon DEF Remembered
  <2> HIDE DEF all
  <2>2. CASE Len(all) > Passes
    BY <1>2, <1>3, <2>1, <2>2
  <2>3. CASE ~(Len(all) > Passes)
    BY <1>2, <2>1, <2>3
  <2> QED
    BY <2>2, <2>3
<1>5. ASSUME Commits(t) PROVE Candidate(Remembered(t)) \in AllPrefixes
  <2>1. Len(Remembered(t)) = Passes
    BY <1>5 DEF Commits
  <2>2. Remembered(t) # <<>>
    BY <2>1
  <2> QED
    BY <2>2, <1>4, CandidateIs
<1> QED
  BY <1>1, <1>4, <1>5

(* A decode that is taken in. *)
LEMMA Accepted ==
  ASSUME hypotheses \in BoundedSeq(Texts, Passes), committed \in AllPrefixes,
         NEW t \in Texts, Accept(t)
  PROVE  /\ hypotheses' \in BoundedSeq(Texts, Passes)
         /\ committed' \in AllPrefixes
BY RememberedIs DEF Accept

(* A decode that has not failed and is not under way has a text. *)
LEMMA DecodedText ==
  ASSUME pendingDecode \in Decode \cup {None}, Finished, pendingDecode.text # Failed
  PROVE  pendingDecode \in Decode /\ pendingDecode.text \in Texts
BY DEF Decode, Finished

(* What the limit of the buffer leaves of it, and of a position in it. *)
LEMMA BufferIs ==
  ASSUME buffered \in 0..MaxBuffer, NEW n \in Pushes
  PROVE  /\ Overflow(n) = IF buffered + n <= MaxBuffer THEN 0 ELSE (buffered + n) - MaxBuffer
         /\ BufferWith(n) = IF buffered + n <= MaxBuffer THEN buffered + n ELSE MaxBuffer
         /\ \A i \in Nat : Shifted(i, n) = IF i >= Overflow(n) THEN i - Overflow(n) ELSE 0
<1> USE SttAssumption
<1>1. Overflow(n) = IF buffered + n <= MaxBuffer THEN 0 ELSE (buffered + n) - MaxBuffer
  <2> DEFINE over == buffered + n - MaxBuffer
  <2>1. over \in Int /\ over = (buffered + n) - MaxBuffer
    OBVIOUS
  <2>2. Overflow(n) = Max({0, over})
    BY DEF Overflow
  <2> HIDE DEF over
  <2>3. Max({0, over}) = IF 0 >= over THEN 0 ELSE over
    <3>1. 0 \in Int
      OBVIOUS
    <3> QED
      BY Zenon, <2>1, <3>1, MaxOfTwo
  <2> QED
    BY <2>1, <2>2, <2>3
<1>2. Overflow(n) \in Nat
  BY <1>1
<1>3. BufferWith(n) = IF buffered + n <= MaxBuffer THEN buffered + n ELSE MaxBuffer
  BY <1>1 DEF BufferWith
<1>4. ASSUME NEW i \in Nat
      PROVE  Shifted(i, n) = IF i >= Overflow(n) THEN i - Overflow(n) ELSE 0
  <2> DEFINE left == i - Overflow(n)
  <2>1. left \in Int
    BY <1>2
  <2>2. Shifted(i, n) = Max({0, left})
    BY DEF Shifted
  <2> HIDE DEF left
  <2>3. Max({0, left}) = IF 0 >= left THEN 0 ELSE left
    BY <2>1, MaxOfTwo
  <2> QED
    BY <1>2, <2>2, <2>3 DEF left
<1> QED
  BY <1>1, <1>3, <1>4

-----------------------------------------------------------------------------
(* No audio is in the buffer but what was pushed, and none is dropped      *)
(* before the buffer is full.                                              *)
BufferInv ==
  /\ buffered <= pushed
  /\ buffered < pushed => buffered = MaxBuffer

SttTypeInv == SttTypeOK /\ BufferInv

(* A decode that returns an update. *)
LEMMA ReturnedIs ==
  ASSUME SttTypeOK, NEW d \in Decode, d.text \in Texts, NEW t \in AllPrefixes,
         NEW k \in {"partial", "final"}, Returns(k, t, d)
  PROVE  update' \in Update /\ shown' \in AllPrefixes
BY DEF Returns, Update, Decode

(* push_audio keeps the types. *)
LEMMA PushTyped ==
  ASSUME SttTypeInv, NEW n \in Pushes, PushAudio(n)
  PROVE  SttTypeInv'
<1> USE SttAssumption
<1>1. /\ buffered \in 0..MaxBuffer /\ pushed \in 0..MaxPushed /\ buffered <= pushed
      /\ lastInfer \in 0..buffered /\ pendingLen \in 0..buffered
      /\ buffered < pushed => buffered = MaxBuffer
      /\ n \in Nat /\ n > 0 /\ pushed + n <= MaxPushed
      /\ pushed' = pushed + n /\ buffered' = BufferWith(n)
  BY DEF SttTypeInv, SttTypeOK, BufferInv, PushAudio
<1>0. /\ Overflow(n) = IF buffered + n <= MaxBuffer THEN 0 ELSE (buffered + n) - MaxBuffer
      /\ buffered' = IF buffered + n <= MaxBuffer THEN buffered + n ELSE MaxBuffer
      /\ Shifted(lastInfer, n)
           = IF lastInfer >= Overflow(n) THEN lastInfer - Overflow(n) ELSE 0
      /\ Shifted(pendingLen, n)
           = IF pendingLen >= Overflow(n) THEN pendingLen - Overflow(n) ELSE 0
  BY <1>1, BufferIs
<1>2. BufferInv' /\ buffered' \in 0..MaxBuffer /\ pushed' \in 0..MaxPushed
  BY <1>0, <1>1 DEF BufferInv
<1>3. Shifted(lastInfer, n) \in 0..buffered' /\ Shifted(pendingLen, n) \in 0..buffered'
  <2>1. ASSUME NEW i \in 0..buffered
        PROVE  (IF i >= Overflow(n) THEN i - Overflow(n) ELSE 0) \in 0..buffered'
    <3>1. CASE buffered + n <= MaxBuffer
      BY <1>0, <1>1, <3>1
    <3>2. CASE ~(buffered + n <= MaxBuffer)
      BY <1>0, <1>1, <3>2
    <3> QED
      BY <3>1, <3>2
  <2> QED
    BY Zenon, <1>0, <1>1, <2>1
<1>4. /\ awaited' \in {"open", "waiting", "transcribing"}
      /\ hypotheses \in BoundedSeq(Texts, Passes) /\ committed \in AllPrefixes
      /\ shown \in AllPrefixes /\ decodedTo \in 0..MaxPushed
      /\ pendingDecode \in Decode \cup {None}
  BY DEF SttTypeInv, SttTypeOK, PushAudio
<1>5. CASE PushCollects(n)
  <2>1. pendingDecode \in Decode /\ pendingDecode.text \in Texts
    BY <1>4, <1>5, DecodedText DEF PushCollects
  <2>2. hypotheses' \in BoundedSeq(Texts, Passes) /\ committed' \in AllPrefixes
    BY <1>4, <1>5, <2>1, Accepted DEF PushCollects
  <2>3. update' \in Update /\ shown' \in AllPrefixes
    BY <1>5, <2>1, <2>2, ReturnedIs DEF PushCollects, SttTypeInv
  <2>4. pendingLen' = 0 /\ pendingDecode' = None /\ lastInfer' = Shifted(lastInfer, n)
        /\ decodedTo' = decodedTo
    BY <1>5 DEF PushCollects, Drop
  <2> QED
    BY <1>1, <1>2, <1>3, <1>4, <2>2, <2>3, <2>4 DEF SttTypeInv, SttTypeOK
<1>6. CASE PushFails(n)
  <2>1. /\ pendingLen' = 0 /\ pendingDecode' = None /\ lastInfer' = Shifted(lastInfer, n)
        /\ decodedTo' = decodedTo /\ hypotheses' = hypotheses /\ committed' = committed
        /\ update' = Failed /\ shown' = shown
    BY <1>6 DEF PushFails, Drop, ReturnsNone
  <2> QED
    BY <1>1, <1>2, <1>3, <1>4, <2>1 DEF SttTypeInv, SttTypeOK
<1>7. CASE PushBuffers(n)
  <2>1. hypotheses' \in BoundedSeq(Texts, Passes) /\ committed' \in AllPrefixes
    <3>1. CASE UNCHANGED <<hypotheses, committed>>
      BY <3>1, <1>4
    <3>2. CASE Finished /\ pendingDecode.text # Failed /\ Accept(pendingDecode.text)
      BY <3>2, <1>4, DecodedText, Accepted
    <3> QED
      BY <1>7, <3>1, <3>2 DEF PushBuffers
  <2>2. update' = None /\ shown' = shown
    BY <1>7 DEF PushBuffers, ReturnsNone
  <2>3. /\ lastInfer' \in 0..buffered' /\ pendingLen' \in 0..buffered'
        /\ decodedTo' \in 0..MaxPushed /\ pendingDecode' \in Decode \cup {None}
    <3>1. CASE /\ pendingDecode' = [from |-> pushed + n - BufferWith(n), to |-> pushed + n,
                                   text |-> Running]
               /\ pendingLen' = BufferWith(n) /\ lastInfer' = BufferWith(n)
               /\ decodedTo' = pushed + n
      <4>1. pushed + n - BufferWith(n) \in 0..MaxPushed /\ pushed + n \in 0..MaxPushed
        BY <1>1, <1>2 DEF BufferInv
      <4>2. pendingDecode' \in Decode
        BY <3>1, <4>1 DEF Decode
      <4> QED
        BY <3>1, <4>1, <4>2, <1>1, <1>2
    <3>2. CASE Drop /\ lastInfer' = Shifted(lastInfer, n) /\ decodedTo' = decodedTo
      BY <3>2, <1>2, <1>3, <1>4 DEF Drop
    <3>3. CASE /\ pendingLen' = Shifted(pendingLen, n) /\ lastInfer' = Shifted(lastInfer, n)
               /\ UNCHANGED <<pendingDecode, decodedTo>>
      BY <3>3, <1>3, <1>4
    <3> QED
      BY <1>7, <3>1, <3>2, <3>3 DEF PushBuffers
  <2> QED
    BY <1>2, <1>4, <2>1, <2>2, <2>3 DEF SttTypeInv, SttTypeOK
<1> QED
  BY <1>5, <1>6, <1>7 DEF PushAudio

(* finish, up to its first await, keeps the types. *)
LEMMA FinishTyped ==
  ASSUME SttTypeInv, Finish
  PROVE  SttTypeInv'
<1>1. /\ hypotheses \in BoundedSeq(Texts, Passes) /\ committed \in AllPrefixes
      /\ pendingDecode \in Decode \cup {None} /\ pendingLen \in 0..buffered
      /\ buffered \in 0..MaxBuffer
  BY DEF SttTypeInv, SttTypeOK
<1>2. /\ hypotheses' \in BoundedSeq(Texts, Passes) /\ committed' \in AllPrefixes
      /\ pendingDecode' \in Decode \cup {None} /\ pendingLen' \in 0..buffered
      /\ awaited' \in {"open", "waiting", "transcribing"}
      /\ update' \in {update, Failed} /\ shown' = shown
  <2>1. CASE Finished /\ pendingDecode.text # Failed /\ Accept(pendingDecode.text)
             /\ Drop /\ awaited' = "transcribing" /\ UNCHANGED <<update, shown>>
    BY <2>1, <1>1, DecodedText, Accepted, SttAssumption DEF Drop
  <2>2. CASE UNCHANGED <<hypotheses, committed>>
    BY <2>2, <1>1, SttAssumption DEF Finish, Drop, ReturnsNone
  <2> QED
    BY <2>1, <2>2 DEF Finish
<1>3. UNCHANGED <<buffered, lastInfer, pushed, decodedTo>>
  BY DEF Finish
<1> QED
  BY <1>2, <1>3 DEF SttTypeInv, SttTypeOK, BufferInv

(* A decode that finish waited for keeps the types. *)
LEMMA FinishCollectsTyped ==
  ASSUME SttTypeInv, FinishCollects
  PROVE  SttTypeInv'
<1>1. pendingDecode \in Decode /\ pendingDecode.text \in Texts
  BY DecodedText DEF FinishCollects, SttTypeInv, SttTypeOK
<1>2. hypotheses' \in BoundedSeq(Texts, Passes) /\ committed' \in AllPrefixes
  BY <1>1, Accepted DEF FinishCollects, SttTypeInv, SttTypeOK
<1>3. /\ update' \in Update \cup {None, Failed} /\ shown' \in AllPrefixes
      /\ awaited' \in {"open", "waiting", "transcribing"}
  <2>1. CASE Returns("final", committed', pendingDecode) /\ awaited' = "open"
    BY <2>1, <1>1, <1>2, ReturnedIs DEF SttTypeInv
  <2>2. CASE UNCHANGED <<update, shown>> /\ awaited' = "transcribing"
    BY <2>2 DEF SttTypeInv, SttTypeOK
  <2> QED
    BY <2>1, <2>2 DEF FinishCollects
<1>4. pendingDecode' = None /\ pendingLen' = 0 /\ UNCHANGED <<buffered, lastInfer, pushed, decodedTo>>
  BY DEF FinishCollects, Drop
<1> QED
  BY <1>2, <1>3, <1>4, SttAssumption DEF SttTypeInv, SttTypeOK, BufferInv

(* transcribe_current keeps the types. *)
LEMMA TranscribeTyped ==
  ASSUME SttTypeInv, TranscribeCurrent
  PROVE  SttTypeInv'
<1> USE SttAssumption
<1>1. /\ hypotheses \in BoundedSeq(Texts, Passes) /\ committed \in AllPrefixes
      /\ shown \in AllPrefixes /\ decodedTo \in 0..MaxPushed
      /\ lastInfer \in 0..buffered
      /\ buffered \in 0..MaxBuffer /\ pushed \in 0..MaxPushed /\ buffered <= pushed
  BY DEF SttTypeInv, SttTypeOK, BufferInv
<1>2. awaited' = "open" /\ UNCHANGED <<buffered, pendingDecode, pendingLen, pushed>>
  BY DEF TranscribeCurrent
<1> DEFINE Kept ==
             /\ hypotheses' \in BoundedSeq(Texts, Passes) /\ committed' \in AllPrefixes
             /\ shown' \in AllPrefixes /\ decodedTo' \in 0..MaxPushed
             /\ lastInfer' \in 0..buffered
             /\ update' \in Update \cup {None, Failed}
<1>3. Kept
  <2>1. CASE ReturnsNone(Failed) /\ UNCHANGED <<hypotheses, committed, lastInfer, decodedTo>>
    BY <2>1, <1>1 DEF ReturnsNone
  <2>2. ASSUME NEW t \in Texts,
               hypotheses' = Remembered(t), committed' = t, lastInfer' = buffered, decodedTo' = pushed,
               Returns("final", t, [from |-> pushed - buffered, to |-> pushed, text |-> t])
        PROVE  Kept
    <3> DEFINE d == [from |-> pushed - buffered, to |-> pushed, text |-> t]
    <3>1. pushed - buffered \in 0..MaxPushed
      BY <1>1
    <3>2. d \in Decode /\ d.text \in Texts
      BY <3>1, <1>1 DEF Decode
    <3>3. t \in AllPrefixes
      BY PrefixesAre
    <3>4. update' \in Update /\ shown' \in AllPrefixes
      BY <2>2, <3>2, <3>3, ReturnedIs DEF SttTypeInv
    <3> QED
      BY <2>2, <3>3, <3>4, <1>1, RememberedIs
  <2> QED
    BY <2>1, <2>2 DEF TranscribeCurrent
<1> QED
  BY <1>2, <1>3 DEF SttTypeInv, SttTypeOK, BufferInv

(* Every step keeps the types. *)
LEMMA SttTypesKept ==
  ASSUME SttTypeInv, [SttNext]_sttVars
  PROVE  SttTypeInv'
<1>1. CASE \E n \in Pushes : PushAudio(n)
  BY <1>1, PushTyped
<1>2. CASE DecodeEnds
  <2>1. pendingDecode \in Decode /\ pendingDecode' \in Decode
    BY <1>2 DEF DecodeEnds, Decode, SttTypeInv, SttTypeOK
  <2> QED
    BY <1>2, <2>1 DEF DecodeEnds, SttTypeInv, SttTypeOK, BufferInv
<1>3. CASE Finish
  BY <1>3, FinishTyped
<1>4. CASE FinishCollects
  BY <1>4, FinishCollectsTyped
<1>5. CASE FinishFails
  BY <1>5, SttAssumption DEF FinishFails, Drop, ReturnsNone, SttTypeInv, SttTypeOK, BufferInv
<1>6. CASE TranscribeCurrent
  BY <1>6, TranscribeTyped
<1>7. CASE UNCHANGED sttVars
  BY <1>7 DEF sttVars, SttTypeInv, SttTypeOK, BufferInv
<1> QED
  BY <1>1, <1>2, <1>3, <1>4, <1>5, <1>6, <1>7 DEF SttNext

(* The types always hold. *)
LEMMA SttTypesCorrect == SttSpec => []SttTypeInv
<1>1. SttInit => SttTypeInv
  <2>1. <<>> \in BoundedSeq(Texts, Passes)
    <3>1. <<>> \in [1..0 -> Texts] /\ 0 \in 0..Passes
      BY SttAssumption
    <3> QED
      BY <3>1 DEF BoundedSeq, SeqOf
  <2> QED
    BY <2>1, PrefixesAre, SttAssumption DEF SttInit, SttTypeInv, SttTypeOK, BufferInv
<1>2. SttTypeInv /\ [SttNext]_sttVars => SttTypeInv'
  BY SttTypesKept
<1> QED
  BY <1>1, <1>2, PTL DEF SttSpec

(* The types of a streaming transcription: positions stay in the buffer,   *)
(* and the buffer in its limit (enforce_buffer_limit).                     *)
THEOREM SttTypeCorrect == SttSpec => []SttTypeOK
<1>1. SttTypeInv => SttTypeOK
  BY DEF SttTypeInv
<1> QED
  BY <1>1, SttTypesCorrect, PTL

-----------------------------------------------------------------------------
(* A place d of the audio, as far behind the start p of the buffer as      *)
(* there is of it, when the start moves on by o.                           *)
LEMMA Shifts ==
  ASSUME NEW p \in Int, NEW d \in Nat, NEW o \in Nat, NEW l,
         l = IF d <= p THEN 0 ELSE d - p
  PROVE  (IF l >= o THEN l - o ELSE 0) = IF d <= p + o THEN 0 ELSE d - (p + o)
<1>1. CASE d <= p
  BY <1>1
<1>2. CASE ~(d <= p)
  BY <1>2
<1> QED
  BY <1>1, <1>2

(* The start of the buffer, pushed - buffered, moves on by the overflow.    *)
LEMMA StartMoves ==
  ASSUME SttAssumption, buffered \in 0..MaxBuffer, pushed \in Nat, NEW n \in Pushes
  PROVE  /\ (pushed + n) - BufferWith(n) = (pushed - buffered) + Overflow(n)
         /\ Overflow(n) \in Nat
<1>1. buffered \in Nat /\ MaxBuffer \in Nat /\ n \in Nat
  BY DEF SttAssumption
<1>2. Overflow(n) \in Nat
  BY <1>1, BufferIs
<1>3. BufferWith(n) = buffered + n - Overflow(n)
  BY Zenon DEF BufferWith
<1>4. (pushed + n) - BufferWith(n) = (pushed - buffered) + Overflow(n)
  BY <1>1, <1>2, <1>3
<1> QED
  BY <1>2, <1>4

(* What push_audio has not decoded is what is in the buffer behind         *)
(* lastInfer; and after a call with nothing to return and no decode under  *)
(* way there is less than a step of it.                                    *)
DecodedInv ==
  /\ decodedTo <= pushed
  /\ lastInfer = IF decodedTo <= pushed - buffered THEN 0 ELSE decodedTo - (pushed - buffered)

QuietInv ==
  awaited = "open" /\ update = None /\ pendingDecode = None /\ buffered >= MinBuffer =>
    buffered - lastInfer < StepSize

(* A step moves the positions with the buffer. *)
LEMMA PositionsKept ==
  ASSUME SttTypeInv, DecodedInv, [SttNext]_sttVars
  PROVE  DecodedInv'
<1> USE SttAssumption
<1>1. /\ buffered \in 0..MaxBuffer /\ pushed \in 0..MaxPushed /\ buffered <= pushed
      /\ lastInfer \in 0..buffered /\ decodedTo \in 0..MaxPushed
  BY DEF SttTypeInv, SttTypeOK, BufferInv
<1>2. ASSUME NEW n \in Pushes, PushAudio(n) PROVE DecodedInv'
  <2>1. /\ Overflow(n) = IF buffered + n <= MaxBuffer THEN 0 ELSE (buffered + n) - MaxBuffer
        /\ BufferWith(n) = IF buffered + n <= MaxBuffer THEN buffered + n ELSE MaxBuffer
        /\ Shifted(lastInfer, n)
             = IF lastInfer >= Overflow(n) THEN lastInfer - Overflow(n) ELSE 0
    BY <1>1, BufferIs
  <2>2. pushed' = pushed + n /\ buffered' = BufferWith(n) /\ n \in Nat
    BY <1>2 DEF PushAudio
  <2>3. \/ lastInfer' = Shifted(lastInfer, n) /\ decodedTo' = decodedTo
        \/ lastInfer' = BufferWith(n) /\ decodedTo' = pushed + n
    BY <1>2 DEF PushAudio, PushCollects, PushFails, PushBuffers
  <2>4. CASE lastInfer' = Shifted(lastInfer, n) /\ decodedTo' = decodedTo
    <3>1. /\ decodedTo <= pushed
          /\ lastInfer = IF decodedTo <= pushed - buffered THEN 0 ELSE decodedTo - (pushed - buffered)
      BY DEF DecodedInv
    <3>2. /\ pushed' - buffered' = (pushed - buffered) + Overflow(n)
          /\ Overflow(n) \in Nat /\ pushed - buffered \in Int
      <4>1. /\ buffered \in 0..MaxBuffer
            /\ pushed \in Nat /\ pushed - buffered \in Int
        BY <1>1
      <4>2. /\ (pushed + n) - BufferWith(n) = (pushed - buffered) + Overflow(n)
            /\ Overflow(n) \in Nat
        BY Zenon, <2>2, <4>1, StartMoves
      <4> QED
        BY Zenon, <2>2, <4>1, <4>2
    <3>3. decodedTo \in Nat /\ decodedTo <= pushed'
      BY <1>1, <2>2, <3>1
    <3>4. lastInfer' = IF lastInfer >= Overflow(n) THEN lastInfer - Overflow(n) ELSE 0
      BY Zenon, <2>1, <2>4
    <3>5. lastInfer' = IF decodedTo <= (pushed - buffered) + Overflow(n) THEN 0
                       ELSE decodedTo - ((pushed - buffered) + Overflow(n))
      BY SMT, <3>1, <3>2, <3>3, <3>4, Shifts
    <3> QED
      BY Zenon, <2>4, <3>2, <3>3, <3>5 DEF DecodedInv
  <2>5. CASE lastInfer' = BufferWith(n) /\ decodedTo' = pushed + n
    BY <1>1, <2>1, <2>2, <2>5 DEF DecodedInv
  <2> QED
    BY <2>3, <2>4, <2>5
<1>3. ASSUME UNCHANGED <<buffered, lastInfer, pushed, decodedTo>> PROVE DecodedInv'
  BY <1>3 DEF DecodedInv
<1>4. CASE TranscribeCurrent
  <2>1. CASE lastInfer' = buffered /\ decodedTo' = pushed
    BY <1>1, <1>4, <2>1 DEF TranscribeCurrent, DecodedInv
  <2>2. CASE UNCHANGED <<lastInfer, decodedTo>>
    BY <1>3, <1>4, <2>2 DEF TranscribeCurrent
  <2> QED
    BY <1>4, <2>1, <2>2 DEF TranscribeCurrent
<1> QED
  BY <1>2, <1>3, <1>4 DEF SttNext, DecodeEnds, Finish, FinishCollects, FinishFails, sttVars

(* A step leaves less than a step of audio when it returns nothing. *)
LEMMA QuietKept ==
  ASSUME SttTypeInv, QuietInv, [SttNext]_sttVars
  PROVE  QuietInv'
<1> USE SttAssumption
<1>1. /\ buffered \in 0..MaxBuffer /\ lastInfer \in 0..buffered
      /\ pendingDecode \in Decode \cup {None}
  BY DEF SttTypeInv, SttTypeOK
<1>2. ASSUME NEW n \in Pushes, PushAudio(n) PROVE QuietInv'
  <2>1. CASE PushCollects(n)
    <3>1. pendingDecode \in Decode /\ pendingDecode.text \in Texts
      BY <1>1, <2>1, DecodedText DEF PushCollects
    <3>2. committed' \in AllPrefixes
      BY <2>1, <3>1, Accepted DEF PushCollects, SttTypeInv, SttTypeOK
    <3>3. update' \in Update
      BY <2>1, <3>1, <3>2, ReturnedIs DEF PushCollects, SttTypeInv
    <3> QED
      BY <3>3 DEF QuietInv
  <2>2. CASE PushFails(n)
    BY <2>2 DEF PushFails, ReturnsNone, QuietInv
  <2>3. CASE PushBuffers(n)
    <3>1. CASE Finished \/ pendingDecode = None
      <4>1. CASE Due(n)
        <5>1. pendingDecode' \in Decode
          <6>1. pendingDecode' = [from |-> pushed + n - BufferWith(n), to |-> pushed + n,
                                  text |-> Running]
            BY <2>3, <3>1, <4>1 DEF PushBuffers
          <6>2. /\ pushed' \in 0..MaxPushed /\ buffered' \in Nat /\ buffered' <= pushed'
                /\ pushed' = pushed + n /\ buffered' = BufferWith(n) /\ pushed \in Nat
            BY <1>2, PushTyped DEF PushAudio, SttTypeInv, SttTypeOK, BufferInv
          <6>3. pushed + n - BufferWith(n) \in 0..MaxPushed /\ pushed + n \in 0..MaxPushed
            <7>1. pushed + n - BufferWith(n) = pushed' - buffered'
              BY <6>2
            <7> QED
              BY <7>1, <6>2
          <6> QED
            BY <6>1, <6>3 DEF Decode
        <5> QED
          BY <5>1 DEF QuietInv
      <4>2. CASE ~Due(n)
        <5>1. buffered' = BufferWith(n) /\ lastInfer' = Shifted(lastInfer, n)
          BY <1>2, <2>3, <3>1, <4>2 DEF PushBuffers, PushAudio
        <5>2. BufferWith(n) \in Nat /\ Shifted(lastInfer, n) \in Nat
          BY <1>1, BufferIs
        <5> QED
          BY <4>2, <5>1, <5>2 DEF Due, QuietInv
      <4> QED
        BY <4>1, <4>2
    <3>2. CASE pendingDecode # None /\ ~Finished
      <4>1. pendingDecode' = pendingDecode
        BY <2>3, <3>2 DEF PushBuffers
      <4> QED
        BY <3>2, <4>1 DEF QuietInv
    <3> QED
      BY <3>1, <3>2 DEF Finished
  <2> QED
    BY <1>2, <2>1, <2>2, <2>3 DEF PushAudio
<1>3. CASE DecodeEnds
  <2>1. pendingDecode \in Decode /\ pendingDecode' \in Decode
    BY <1>1, <1>3 DEF DecodeEnds, Decode
  <2> QED
    BY <2>1 DEF QuietInv
<1>4. CASE Finish
  <2>1. awaited' # "open" \/ update' = Failed
    BY <1>4 DEF Finish, ReturnsNone
  <2> QED
    BY <2>1 DEF QuietInv
<1>5. CASE FinishCollects \/ TranscribeCurrent
  <2>1. SttTypeInv'
    BY <1>5, FinishCollectsTyped, TranscribeTyped
  <2>2. awaited' # "open" \/ update' = Failed \/ update' \in Update
    <3>1. CASE FinishCollects
      <4>1. pendingDecode \in Decode /\ pendingDecode.text \in Texts
        BY <1>1, <3>1, DecodedText DEF FinishCollects
      <4>2. committed' \in AllPrefixes
        BY <2>1 DEF SttTypeInv, SttTypeOK
      <4>3. CASE Returns("final", committed', pendingDecode)
        BY <4>1, <4>2, <4>3, ReturnedIs DEF SttTypeInv
      <4> QED
        BY <3>1, <4>3 DEF FinishCollects
    <3>2. CASE TranscribeCurrent
      <4>1. ASSUME NEW t \in Texts,
                   Returns("final", t, [from |-> pushed - buffered, to |-> pushed, text |-> t])
            PROVE  update' \in Update
        <5> DEFINE d == [from |-> pushed - buffered, to |-> pushed, text |-> t]
        <5>1. pushed - buffered \in 0..MaxPushed /\ pushed \in 0..MaxPushed
          BY <1>1 DEF SttTypeInv, SttTypeOK, BufferInv
        <5>2. d \in Decode /\ d.text \in Texts
          BY <5>1 DEF Decode
        <5>3. t \in AllPrefixes
          BY PrefixesAre
        <5> QED
          BY <4>1, <5>2, <5>3, ReturnedIs DEF SttTypeInv
      <4> QED
        BY <3>2, <4>1 DEF TranscribeCurrent, ReturnsNone
    <3> QED
      BY <1>5, <3>1, <3>2
  <2> QED
    BY <2>2 DEF QuietInv
<1>6. CASE FinishFails
  BY <1>6 DEF FinishFails, ReturnsNone, QuietInv
<1>7. CASE UNCHANGED sttVars
  BY <1>7 DEF sttVars, QuietInv
<1> QED
  BY <1>2, <1>3, <1>4, <1>5, <1>6, <1>7 DEF SttNext

(* Speech goes on being decoded however often the buffer drops its oldest  *)
(* audio (push_audio, enforce_buffer_limit), with a buffer that holds the  *)
(* audio of a step.                                                        *)
THEOREM SpeechGoesOn ==
  ASSUME StepSize <= MaxBuffer
  PROVE  SttSpec => []AudioNotStarved
<1> USE SttAssumption
<1>1. SttInit => DecodedInv /\ QuietInv
  BY DEF SttInit, DecodedInv, QuietInv
<1>2. SttTypeInv /\ DecodedInv /\ [SttNext]_sttVars => DecodedInv'
  BY PositionsKept
<1>3. SttTypeInv /\ QuietInv /\ [SttNext]_sttVars => QuietInv'
  BY QuietKept
<1>4. SttTypeInv /\ DecodedInv /\ QuietInv => AudioNotStarved
  BY DEF SttTypeInv, SttTypeOK, BufferInv, DecodedInv, QuietInv, AudioNotStarved
<1>5. SttSpec => []SttTypeInv
  BY SttTypesCorrect
<1> QED
  BY <1>1, <1>2, <1>3, <1>4, <1>5, PTL DEF SttSpec

-----------------------------------------------------------------------------
(* How much of the buffer a decode is of: of all of it if nothing was      *)
(* pushed since; and the decode finish waits for is of all of it.          *)
PendingInv ==
  pendingDecode # None =>
    /\ pendingDecode.to <= pushed
    /\ pendingLen = IF pendingDecode.to <= pushed - buffered THEN 0
                    ELSE pendingDecode.to - (pushed - buffered)
    /\ pendingDecode.to = pushed => pendingDecode.from = pushed - buffered

WaitingInv ==
  awaited = "waiting" => pendingDecode # None /\ pendingLen = buffered /\ buffered > 0

(* A step moves the decode with the buffer. *)
LEMMA PendingKept ==
  ASSUME SttTypeInv, PendingInv, [SttNext]_sttVars
  PROVE  PendingInv'
<1> USE SttAssumption
<1>1. /\ buffered \in 0..MaxBuffer /\ pushed \in 0..MaxPushed /\ buffered <= pushed
      /\ pendingLen \in 0..buffered /\ pendingDecode \in Decode \cup {None}
  BY DEF SttTypeInv, SttTypeOK, BufferInv
<1>2. ASSUME NEW n \in Pushes, PushAudio(n) PROVE PendingInv'
  <2>1. /\ Overflow(n) = IF buffered + n <= MaxBuffer THEN 0 ELSE (buffered + n) - MaxBuffer
        /\ BufferWith(n) = IF buffered + n <= MaxBuffer THEN buffered + n ELSE MaxBuffer
        /\ Shifted(pendingLen, n)
             = IF pendingLen >= Overflow(n) THEN pendingLen - Overflow(n) ELSE 0
    BY <1>1, BufferIs
  <2>2. pushed' = pushed + n /\ buffered' = BufferWith(n) /\ n \in Nat /\ n > 0
    BY <1>2 DEF PushAudio
  <2>3. CASE Drop
    BY <2>3 DEF Drop, PendingInv
  <2>4. CASE /\ pendingDecode' = [from |-> pushed + n - BufferWith(n), to |-> pushed + n,
                                 text |-> Running]
             /\ pendingLen' = BufferWith(n)
    <3>1. pendingDecode'.to = pushed + n /\ pendingDecode'.from = pushed + n - BufferWith(n)
      BY <2>4
    <3>2. pendingDecode'.to = pushed' /\ pendingDecode'.from = pushed' - buffered'
      BY <1>1, <2>1, <2>2, <3>1
    <3>3. pendingLen' = buffered' /\ buffered' \in Nat /\ pushed' \in Nat
      BY <2>4, <2>1, <2>2, <1>1
    <3>4. 0 = buffered' \/ ~(pushed' <= pushed' - buffered')
      BY <3>3
    <3>5. pushed' - (pushed' - buffered') = buffered' /\ pushed' <= pushed'
      BY <3>3
    <3>6. pendingLen' = IF pushed' <= pushed' - buffered' THEN 0 ELSE pushed' - (pushed' - buffered')
      BY <3>3, <3>4, <3>5
    <3> QED
      BY <3>2, <3>5, <3>6, Zenon DEF PendingInv
  <2>5. CASE pendingDecode # None /\ pendingDecode' = pendingDecode
             /\ pendingLen' = Shifted(pendingLen, n)
    <3>1. pendingDecode.to \in Nat /\ pendingDecode.from \in Nat
      BY <1>1, <2>5 DEF Decode
    <3>2. /\ pendingDecode.to <= pushed
          /\ pendingLen = IF pendingDecode.to <= pushed - buffered THEN 0
                          ELSE pendingDecode.to - (pushed - buffered)
      BY <2>5 DEF PendingInv
    <3>3. /\ pendingDecode'.to < pushed'
          /\ pendingLen' = IF pendingDecode'.to <= pushed' - buffered' THEN 0
                           ELSE pendingDecode'.to - (pushed' - buffered')
      <4>1. pushed' - buffered' = (pushed - buffered) + Overflow(n) /\ Overflow(n) \in Nat
        <5>1. buffered \in 0..MaxBuffer /\ pushed \in Nat
          BY <1>1
        <5>2. /\ (pushed + n) - BufferWith(n) = (pushed - buffered) + Overflow(n)
              /\ Overflow(n) \in Nat
          BY Zenon, <2>2, <5>1, StartMoves
        <5> QED
          BY Zenon, <2>2, <5>2
      <4>2. pendingDecode'.to = pendingDecode.to /\ pendingDecode.to < pushed'
        BY <1>1, <2>2, <2>5, <3>1, <3>2
      <4>3. pendingLen' = IF pendingLen >= Overflow(n) THEN pendingLen - Overflow(n) ELSE 0
        BY Zenon, <2>1, <2>5
      <4>4. pendingLen' = IF pendingDecode.to <= (pushed - buffered) + Overflow(n) THEN 0
                          ELSE pendingDecode.to - ((pushed - buffered) + Overflow(n))
        <5>1. pushed - buffered \in Int
          BY <1>1
        <5> QED
          BY SMT, <3>1, <3>2, <4>1, <4>3, <5>1, Shifts
      <4> QED
        BY Zenon, <4>1, <4>2, <4>4
    <3>4. pendingDecode'.to <= pushed' /\ pendingDecode'.to # pushed'
      BY <1>1, <2>2, <2>5, <3>1, <3>3
    <3> QED
      BY <3>3, <3>4 DEF PendingInv
  <2> QED
    BY <1>2, <2>3, <2>4, <2>5 DEF PushAudio, PushCollects, PushFails, PushBuffers
<1>3. ASSUME Drop PROVE PendingInv'
  BY <1>3 DEF Drop, PendingInv
<1>4. ASSUME UNCHANGED <<buffered, pendingDecode, pendingLen, pushed>> PROVE PendingInv'
  BY <1>4 DEF PendingInv
<1>5. CASE DecodeEnds
  <2>1. pendingDecode # None /\ pendingDecode \in Decode
    BY <1>1, <1>5 DEF DecodeEnds
  <2>2. pendingDecode'.from = pendingDecode.from /\ pendingDecode'.to = pendingDecode.to
    BY <1>5, <2>1 DEF DecodeEnds, Decode
  <2>3. UNCHANGED <<buffered, pendingLen, pushed>>
    BY <1>5 DEF DecodeEnds
  <2> QED
    BY <2>1, <2>2, <2>3 DEF PendingInv
<1>6. CASE Finish
  <2>1. UNCHANGED <<buffered, pushed>> /\ (Drop \/ UNCHANGED <<pendingDecode, pendingLen>>)
    BY <1>6 DEF Finish
  <2> QED
    BY <2>1, <1>3, <1>4
<1> QED
  BY <1>2, <1>3, <1>4, <1>5, <1>6
  DEF SttNext, FinishCollects, FinishFails, TranscribeCurrent, sttVars

(* finish only waits for a decode of the whole buffer. *)
LEMMA WaitingKept ==
  ASSUME SttTypeInv, WaitingInv, [SttNext]_sttVars
  PROVE  WaitingInv'
<1>1. ASSUME NEW n \in Pushes, PushAudio(n) PROVE WaitingInv'
  BY <1>1 DEF PushAudio, WaitingInv
<1>2. CASE DecodeEnds
  <2>1. pendingDecode \in Decode /\ pendingDecode' \in Decode
    BY <1>2 DEF DecodeEnds, Decode, SttTypeInv, SttTypeOK
  <2> QED
    BY <1>2, <2>1, SttAssumption DEF DecodeEnds, WaitingInv
<1>3. CASE Finish
  <2>1. \/ awaited' # "waiting"
        \/ /\ pendingDecode # None /\ Current /\ buffered > 0
           /\ UNCHANGED <<buffered, pendingDecode, pendingLen>>
    BY <1>3 DEF Finish
  <2> QED
    BY <2>1 DEF WaitingInv, Current
<1> QED
  BY <1>1, <1>2, <1>3
  DEF SttNext, FinishCollects, FinishFails, TranscribeCurrent, sttVars, WaitingInv

(* The update of finish stems from a decode of the buffer as it is         *)
(* (finish, collect_finished_decode).                                      *)
THEOREM FinalIsOfBuffer == SttSpec => FinalCoversBuffer
<1> USE SttAssumption
<1>1. SttInit => PendingInv /\ WaitingInv
  BY DEF SttInit, PendingInv, WaitingInv
<1>2. SttTypeInv /\ PendingInv /\ [SttNext]_sttVars => PendingInv'
  BY PendingKept
<1>3. SttTypeInv /\ WaitingInv /\ [SttNext]_sttVars => WaitingInv'
  BY WaitingKept
<1>4. ASSUME SttTypeInv, PendingInv, WaitingInv, SttNext,
             awaited # "open", awaited' = "open", update' # Failed
      PROVE  update'.from = pushed - buffered /\ update'.to = pushed
  <2>1. FinishCollects \/ TranscribeCurrent
    BY <1>4 DEF SttNext, PushAudio, DecodeEnds, Finish, FinishFails, ReturnsNone
  <2>2. CASE FinishCollects
    <3>1. pendingDecode \in Decode
      BY <1>4, <2>2, DecodedText DEF FinishCollects, SttTypeInv, SttTypeOK
    <3>2. update'.from = pendingDecode.from /\ update'.to = pendingDecode.to
      BY <1>4, <2>2 DEF FinishCollects, Returns
    <3>3. pendingDecode.to = pushed
      <4>1. pendingDecode.to \in Nat /\ buffered \in Nat /\ pushed \in Nat
        BY <1>4, <3>1 DEF Decode, SttTypeInv, SttTypeOK
      <4>2. pendingDecode # None /\ pendingLen = buffered /\ buffered > 0
        BY <1>4, <2>2 DEF FinishCollects, WaitingInv
      <4> QED
        BY <1>4, <4>1, <4>2 DEF PendingInv
    <3>4. pendingDecode # None
      BY <2>2 DEF FinishCollects, Finished
    <3> QED
      BY <1>4, <3>2, <3>3, <3>4 DEF PendingInv
  <2>3. CASE TranscribeCurrent
    BY <1>4, <2>3 DEF TranscribeCurrent, Returns, ReturnsNone
  <2> QED
    BY <2>1, <2>2, <2>3
<1>5. SttTypeInv /\ PendingInv /\ WaitingInv /\ [SttNext]_sttVars
        => [awaited # "open" /\ awaited' = "open" /\ update' # Failed =>
              update'.from = pushed - buffered /\ update'.to = pushed]_sttVars
  BY <1>4
<1>6. SttSpec => []SttTypeInv
  BY SttTypesCorrect
<1> QED
  BY <1>1, <1>2, <1>3, <1>5, <1>6, PTL DEF SttSpec, FinalCoversBuffer

-----------------------------------------------------------------------------
(* The beginning of a text. *)
LEMMA BeginningIs ==
  ASSUME NEW t \in Seq(Word), NEW n \in 0..Len(t)
  PROVE  SubSeq(t, 1, n) \in Seq(Word) /\ Len(SubSeq(t, 1, n)) = n
OBVIOUS

(* A text that continues one that continues a third continues the third:   *)
(* only the last word of each may have grown.                              *)
LEMMA ContinuesFurther ==
  ASSUME NEW a \in Seq(Word), NEW b \in Seq(Word), NEW c \in Seq(Word),
         Continues(c, b), Continues(b, a)
  PROVE  Continues(c, a)
<1> SUFFICES ASSUME a # <<>> PROVE Continues(c, a)
  BY DEF Continues
<1> DEFINE n == Len(a)
           m == Len(b)
<1>1. n \in Nat \ {0} /\ m \in Nat /\ Len(c) \in Nat
  BY EmptySeq
<1>2. /\ m >= n
      /\ SubSeq(a, 1, n - 1) = SubSeq(b, 1, n - 1)
      /\ b[n] = a[n] \/ <<a[n], b[n]>> \in Opens
  BY DEF Continues, Front, Last
<1>3. b # <<>>
  BY <1>1, <1>2
<1>4. /\ Len(c) >= m
      /\ SubSeq(b, 1, m - 1) = SubSeq(c, 1, m - 1)
      /\ c[m] = b[m] \/ <<b[m], c[m]>> \in Opens
  BY <1>3 DEF Continues, Front, Last
<1>5. \A i \in 1..m - 1 : b[i] = c[i]
  <2>1. ASSUME NEW i \in 1..m - 1 PROVE b[i] = c[i]
    <3>1. SubSeq(b, 1, m - 1)[i] = b[i] /\ SubSeq(c, 1, m - 1)[i] = c[i]
      BY <1>1, <1>4
    <3> QED
      BY <3>1, <1>4
  <2> QED
    BY <2>1
<1>6. SubSeq(a, 1, n - 1) = SubSeq(c, 1, n - 1)
  <2>0. n - 1 \in 0..m /\ n - 1 \in 0..Len(c)
    BY <1>1, <1>2, <1>4
  <2>1. SubSeq(b, 1, n - 1) \in Seq(Word) /\ Len(SubSeq(b, 1, n - 1)) = n - 1
    BY <2>0, BeginningIs
  <2>2. SubSeq(c, 1, n - 1) \in Seq(Word) /\ Len(SubSeq(c, 1, n - 1)) = n - 1
    BY <2>0, BeginningIs
  <2>3. ASSUME NEW i \in 1..n - 1
        PROVE  SubSeq(b, 1, n - 1)[i] = SubSeq(c, 1, n - 1)[i]
    <3>1. SubSeq(b, 1, n - 1)[i] = b[i] /\ SubSeq(c, 1, n - 1)[i] = c[i]
      BY <1>1, <1>2, <1>4
    <3> QED
      BY <3>1, <1>1, <1>2, <1>5
  <2>4. SubSeq(b, 1, n - 1) = SubSeq(c, 1, n - 1)
    BY <2>1, <2>2, <2>3, SeqEqual
  <2> QED
    BY <2>4, <1>2
<1>7. c[n] = a[n] \/ <<a[n], c[n]>> \in Opens
  <2>1. CASE n = m
    <3>1. c[n] = b[n] \/ <<b[n], c[n]>> \in Opens
      BY <2>1, <1>4
    <3>2. <<a[n], b[n]>> \in Opens /\ <<b[n], c[n]>> \in Opens => <<a[n], c[n]>> \in Opens
      BY SttAssumption
    <3>3. b[n] = a[n] \/ <<a[n], b[n]>> \in Opens
      BY <1>2
    <3> QED
      BY <3>1, <3>2, <3>3
  <2>2. CASE n # m
    <3>1. b[n] = c[n]
      BY <2>2, <1>1, <1>2, <1>5
    <3> QED
      BY <3>1, <1>2
  <2> QED
    BY <2>1, <2>2
<1>8. Len(c) >= n
  BY <1>1, <1>2, <1>4
<1> QED
  BY <1>6, <1>7, <1>8 DEF Continues, Front, Last

(* What is committed continues what was shown. *)
ShownInv == Continues(committed, shown)

(* A text continues itself. *)
LEMMA ContinuesItself ==
  ASSUME NEW t \in Seq(Word)
  PROVE  Continues(t, t)
<1>1. Len(t) \in Nat
  OBVIOUS
<1> QED
  BY <1>1 DEF Continues, Front, Last

(* A decode that is taken in goes on from what was shown. *)
LEMMA AcceptContinues ==
  ASSUME SttTypeInv, ShownInv, NEW t \in Texts, Accept(t)
  PROVE  Continues(committed', shown)
<1>1. committed \in Seq(Word) /\ shown \in Seq(Word) /\ committed' \in Seq(Word)
  BY Accepted, PrefixesAre DEF SttTypeInv, SttTypeOK
<1>2. CASE Commits(t)
  <2>1. Continues(committed', committed)
    BY <1>2 DEF Accept, Commits
  <2> QED
    BY <1>1, <2>1, ContinuesFurther DEF ShownInv
<1>3. CASE ~Commits(t)
  BY <1>3 DEF Accept, ShownInv
<1> QED
  BY <1>2, <1>3

(* A step shows what is committed, or nothing. *)
LEMMA ShownKept ==
  ASSUME SttTypeInv, ShownInv, [SttNext]_sttVars
  PROVE  ShownInv'
<1>1. SttTypeInv'
  BY SttTypesKept
<1>2. committed' \in Seq(Word)
  BY <1>1, PrefixesAre DEF SttTypeInv, SttTypeOK
<1>3. ASSUME shown' = committed' PROVE ShownInv'
  BY <1>2, <1>3, ContinuesItself DEF ShownInv
<1>4. ASSUME Continues(committed', shown), shown' = shown PROVE ShownInv'
  BY <1>4 DEF ShownInv
<1>5. ASSUME UNCHANGED <<committed, shown>> PROVE ShownInv'
  BY <1>5 DEF ShownInv
<1>6. ASSUME Finished, pendingDecode.text # Failed, Accept(pendingDecode.text)
      PROVE  Continues(committed', shown)
  BY <1>6, DecodedText, AcceptContinues DEF SttTypeInv, SttTypeOK
<1>7. ASSUME NEW n \in Pushes, PushAudio(n) PROVE ShownInv'
  <2>1. CASE PushCollects(n)
    BY <2>1, <1>3 DEF PushCollects, Returns
  <2>2. CASE PushFails(n)
    BY <2>2, <1>5 DEF PushFails, ReturnsNone
  <2>3. CASE PushBuffers(n)
    BY <2>3, <1>4, <1>5, <1>6 DEF PushBuffers, ReturnsNone
  <2> QED
    BY <1>7, <2>1, <2>2, <2>3 DEF PushAudio
<1>8. CASE Finish
  BY <1>8, <1>4, <1>5, <1>6 DEF Finish, ReturnsNone
<1>9. CASE FinishCollects
  BY <1>9, <1>3, <1>4, <1>6 DEF FinishCollects, Returns
<1>10. CASE TranscribeCurrent
  BY <1>10, <1>3, <1>5 DEF TranscribeCurrent, Returns, ReturnsNone
<1>11. CASE DecodeEnds \/ FinishFails \/ UNCHANGED sttVars
  BY <1>11, <1>5 DEF DecodeEnds, FinishFails, ReturnsNone, sttVars
<1> QED
  BY <1>7, <1>8, <1>9, <1>10, <1>11 DEF SttNext

(* What a partial update shows goes on from what was shown before it       *)
(* (accept_transcript).                                                    *)
THEOREM PartialsGoOn == SttSpec => PartialsGrow
<1>1. SttInit => ShownInv
  BY DEF SttInit, ShownInv, Continues
<1>2. SttTypeInv /\ ShownInv /\ [SttNext]_sttVars => ShownInv'
  BY ShownKept
<1>3. ASSUME SttTypeInv, ShownInv, SttNext,
             update' \notin {update, None, Failed}, update'.kind = "partial"
      PROVE  Continues(update'.text, shown)
  <2>1. PICK n \in Pushes : PushAudio(n) /\ PushCollects(n)
    BY <1>3 DEF SttNext, PushAudio, PushFails, PushBuffers, DecodeEnds, Finish,
                FinishCollects, FinishFails, TranscribeCurrent, Returns, ReturnsNone
  <2>2. pendingDecode \in Decode /\ pendingDecode.text \in Texts
    BY <1>3, <2>1, DecodedText DEF PushCollects, SttTypeInv, SttTypeOK
  <2>3. Continues(committed', shown)
    BY <1>3, <2>1, <2>2, AcceptContinues DEF PushCollects
  <2>4. update'.text = committed'
    BY <2>1 DEF PushCollects, Returns
  <2> QED
    BY <2>3, <2>4
<1>4. SttTypeInv /\ ShownInv /\ [SttNext]_sttVars
        => [update' \notin {update, None, Failed} /\ update'.kind = "partial" =>
              Continues(update'.text, shown)]_sttVars
  BY <1>3
<1>5. SttSpec => []SttTypeInv
  BY SttTypesCorrect
<1> QED
  BY <1>1, <1>2, <1>4, <1>5, PTL DEF SttSpec, PartialsGrow
=============================================================================
