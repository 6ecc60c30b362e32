------------------------------- MODULE Vocoder -------------------------------
(***************************************************************************)
(* The vocoder of Qwen3 TTS (vona-mlx-qwen3-tts/src/lib.rs): from codec    *)
(* frames to a waveform.  Of each tensor only its length is kept and, for  *)
(* each position along it, the set of codec frames the position depends    *)
(* on.  Each convolution is as long and reads the positions that the code  *)
(* makes it: kernels are read from the weights, strides are inferred from  *)
(* the kernels.                                                            *)
(*                                                                         *)
(* A net is what the weights and the configuration hold:                   *)
(*   quantizers, heads, kvHeads, divisor  of vocoder_config and the weights*)
(*   layers     the indices of decoder.pre_transformer.layers              *)
(*   pre        the kernel of decoder.pre_conv                             *)
(*   upsample   [kernel, depthwise] by index, from 0                       *)
(*   blocks     [kernel, unit, mix] by index in decoder.decoder, from 1    *)
(*   convs      kernel by index in decoder.decoder                         *)
(*   snakes     the indices in decoder.decoder with an alpha and a beta    *)
(***************************************************************************)
EXTENDS Naturals, Integers, Sequences, FiniteSets

(* How many indices there are from first on, without a gap:                *)
(* count_indexed_layers, count_decoder_blocks, count_upsample_blocks.      *)
Counted(indices, first) == Cardinality({i \in indices : first..i \subseteq indices})

(* inferred_transpose_stride.                                              *)
InferredStride(kernel, divisor) ==
  LET d == IF divisor < 1 THEN 1 ELSE divisor
  IN  IF kernel <= d THEN kernel ELSE kernel \div d

-----------------------------------------------------------------------------
(* causal_conv1d_ncl with a stride of 1, the only one it is called with:   *)
(* all of the padding is on the left.  A group of channels is treated like *)
(* the others.                                                             *)
Reach(kernel, dilation) == (kernel - 1) * dilation

Padded(wave, kernel, dilation) == [i \in 1..Reach(kernel, dilation) |-> {}] \o wave

(* Mutant: half of the padding on each side. *)
CausalConvCentered(wave, kernel, dilation) ==
  LET half   == Reach(kernel, dilation) \div 2
      rest   == Reach(kernel, dilation) - half
      padded == [i \in 1..half |-> {}] \o wave \o [i \in 1..rest |-> {}]
  IN  [t \in 1..(Len(padded) - Reach(kernel, dilation)) |->
         UNION {padded[t + k * dilation] : k \in 0..kernel - 1}]

CausalConv(wave, kernel, dilation) ==
  LET padded == Padded(wave, kernel, dilation)
  IN  [t \in 1..(Len(padded) - Reach(kernel, dilation)) |->
         UNION {padded[t + k * dilation] : k \in 0..kernel - 1}]

(* conv_transpose1d: input i is added to kernel positions from i * stride  *)
(* on.                                                                     *)
Spread(wave, kernel, stride) ==
  [t \in 1..((Len(wave) - 1) * stride + kernel) |->
     UNION {wave[i] : i \in {j \in DOMAIN wave : /\ (j - 1) * stride < t
                                                 /\ t <= (j - 1) * stride + kernel}}]

(* causal_transpose_conv1d_ncl: what the kernel reaches beyond the last    *)
(* input is cut off on the right.                                          *)
TransposeConv(wave, kernel, stride) ==
  LET full == Spread(wave, kernel, stride)
      trim == IF kernel > stride THEN kernel - stride ELSE 0
  IN  IF trim > 0 /\ Len(full) > trim THEN SubSeq(full, 1, Len(full) - trim) ELSE full

(* vocoder_attention: the mask is causal.                                  *)
Attend(wave) == [t \in DOMAIN wave |-> UNION {wave[u] : u \in 1..t}]

Residual(wave, other) == [t \in DOMAIN wave |-> wave[t] \cup other[t]]

-----------------------------------------------------------------------------
(* decoder_residual_unit.                                                  *)
Unit(wave, block, dilation) ==
  Residual(wave, CausalConv(CausalConv(wave, block.unit, dilation), block.mix, 1))

(* decoder_block.                                                          *)
DecoderBlock(wave, block, divisor) ==
  LET up == TransposeConv(wave, block.kernel, InferredStride(block.kernel, divisor))
  IN  Unit(Unit(Unit(up, block, 1), block, 3), block, 9)

(* An upsampling of vocoder_decode_waveform, with its convnext_block.      *)
Upsample(wave, block, divisor) ==
  LET up == TransposeConv(wave, block.kernel, InferredStride(block.kernel, divisor))
  IN  Residual(up, CausalConv(up, block.depthwise, 1))

BlockCount(net)    == Counted(DOMAIN net.blocks, 1)
UpsampleCount(net) == Counted(DOMAIN net.upsample, 0)
LayerCount(net)    == Counted(net.layers, 0)

(* run_vocoder_frontend and vocoder_pre_transformer.                       *)
Hidden(net, latents) ==
  LET layer[n \in 0..LayerCount(net)] ==
        IF n = 0 THEN CausalConv(latents, net.pre, 1)
        ELSE LET wave == layer[n - 1] IN Residual(wave, Attend(wave))
  IN  layer[LayerCount(net)]

(* vocoder_decode_waveform.                                                *)
Upsampled(net, hidden) ==
  LET up[n \in 0..UpsampleCount(net)] ==
        IF n = 0 THEN hidden ELSE Upsample(up[n - 1], net.upsample[n - 1], net.divisor)
  IN  up[UpsampleCount(net)]

Decoded(net, upsampled) ==
  LET block[n \in 0..BlockCount(net)] ==
        IF n = 0 THEN CausalConv(upsampled, net.convs[0], 1)
        ELSE DecoderBlock(block[n - 1], net.blocks[n], net.divisor)
  IN  CausalConv(block[BlockCount(net)], net.convs[BlockCount(net) + 2], 1)

(* What the weights may hold: a kernel has a position at least, none of the*)
(* blocks before the others is missing from the up-sampling, which the code*)
(* does not look for, and the decoder has nothing but blocks between its   *)
(* first convolution and the activation and convolution it ends with.      *)
ValidNet(net) ==
  /\ net.divisor \in Int
  /\ net.pre \in Nat \ {0}
  /\ IsFiniteSet(net.layers) /\ net.layers \subseteq Nat
  /\ IsFiniteSet(DOMAIN net.upsample) /\ DOMAIN net.upsample \subseteq Nat
  /\ \A i \in DOMAIN net.upsample : /\ net.upsample[i].kernel \in Nat \ {0}
                                   /\ net.upsample[i].depthwise \in Nat \ {0}
  /\ IsFiniteSet(DOMAIN net.blocks) /\ DOMAIN net.blocks \subseteq Nat \ {0}
  /\ \A i \in DOMAIN net.blocks : /\ net.blocks[i].kernel \in Nat \ {0}
                                 /\ net.blocks[i].unit \in Nat \ {0}
                                 /\ net.blocks[i].mix \in Nat \ {0}
  /\ \A i \in DOMAIN net.convs : net.convs[i] \in Nat \ {0}

WholeNet(net) ==
  /\ DOMAIN net.upsample = 0..Cardinality(DOMAIN net.upsample) - 1
  /\ \E i \in net.snakes : /\ net.snakes = {i} /\ i \in Nat
                          /\ DOMAIN net.convs = {0, i + 1}
                          /\ DOMAIN net.blocks \subseteq 1..i - 1

(* The errors of decode_vocoder_latents, decode_vq_group, repeat_kv_heads  *)
(* and of the weights that are not optional.  The last activation and the  *)
(* last convolution are looked for right after the blocks that are counted.*)
Runs(net, groups) ==
  /\ net.quantizers = groups
  /\ net.quantizers > 1
  /\ LayerCount(net) > 0 => net.heads % net.kvHeads = 0
  /\ {0, BlockCount(net) + 2} \subseteq DOMAIN net.convs
  /\ BlockCount(net) + 1 \in net.snakes

(* decode_vocoder_latents gives a position for each frame.                 *)
Latents(n) == [i \in 1..n |-> {i}]

Waveform(net, n) == Decoded(net, Upsampled(net, Hidden(net, Latents(n))))
-----------------------------------------------------------------------------
(* A wave with ratio positions for each of n frames, none of which depends *)
(* on a later frame than its own, and each on its own.                     *)
FrameOf(t, ratio) == (t - 1) \div ratio + 1

Aligned(wave, n, ratio) ==
  /\ Len(wave) = n * ratio
  /\ \A t \in 1..n * ratio :
       /\ wave[t] \subseteq 1..FrameOf(t, ratio)
       /\ FrameOf(t, ratio) \in wave[t]

(* The product of the first m strides. *)
Rate(strides, m) ==
  LET rate[k \in 0..m] == IF k = 0 THEN 1 ELSE rate[k - 1] * strides[k]
  IN  rate[m]
=============================================================================
