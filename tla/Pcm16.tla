------------------------------- MODULE Pcm16 -------------------------------
(***************************************************************************)
(* The 16-bit audio of the provider mappings: samples_to_pcm16_le and      *)
(* pcm16_le_to_samples, the same text in vona-openai-realtime,             *)
(* vona-gemini-live and vona-qwen. Samples below zero are scaled by        *)
(* FullScale and the others by FullScale - 1, and both are read back by    *)
(* FullScale.                                                              *)
(*                                                                         *)
(* A sample of f32 is an integer here, in units of 1/Resolution of a step  *)
(* of PCM: the sample 1.0 is FullScale * Resolution. The arithmetic is     *)
(* exact; that of f32 differs from it only next to a tie of round.         *)
(***************************************************************************)
EXTENDS Integers

CONSTANTS FullScale,   \* 32768 in the code
          Resolution   \* how finely the samples of the application are told apart

ASSUME FullScaleAssumption ==
  FullScale \in Nat /\ \E half \in 1..FullScale : FullScale = 2 * half
ASSUME ResolutionAssumption == Resolution \in Nat \ {0}

PcmValues == -FullScale .. FullScale - 1

One == FullScale * Resolution

Clamp(s) == IF s < -One THEN -One ELSE IF s > One THEN One ELSE s

(* f32::round for the quotient a / b, a half away from zero *)
Round(a, b) == IF a >= 0 THEN (2 * a + b) \div (2 * b)
                         ELSE -((2 * (-a) + b) \div (2 * b))

(* Mutant: the scale of the upper half for both *)
ToPcmUpperScale(s) == Round(Clamp(s) * (FullScale - 1), One)

ToPcm(s) == LET c == Clamp(s)
            IN  IF c < 0 THEN Round(c, Resolution)
                         ELSE Round(c * (FullScale - 1), One)

FromPcm(p) == p * Resolution

(* What a sample has become when it comes out of a provider and goes into  *)
(* the next one                                                            *)
Relayed(p) == ToPcm(FromPcm(p))

(* How far PCM may be from the sample it stands for: the same side of      *)
(* zero, at most half a step louder and one and a half steps quieter       *)
Near(p, s) ==
  LET c == Clamp(s)
  IN  /\ p \in PcmValues
      /\ c >= 0 => p >= 0 /\ 2 * FromPcm(p) <= 2 * c + Resolution
                          /\ 2 * FromPcm(p) >= 2 * c - 3 * Resolution
      /\ c < 0 => p <= 0 /\ 2 * FromPcm(p) <= 2 * c + Resolution
                         /\ 2 * FromPcm(p) >= 2 * c - Resolution
=============================================================================
