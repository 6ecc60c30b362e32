----------------------------- MODULE MCRealtime -----------------------------
(* Realtime for TLC: 3 bits of PCM, samples in half steps *)
EXTENDS Realtime

(* Silence, and levels beyond full scale on both sides: the loudest positive *)
(* one fades when it is sent on                                            *)
MCSamples == {-11, 0, 11}
=============================================================================
