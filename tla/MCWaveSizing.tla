---------------------------- MODULE MCWaveSizing ----------------------------
(* Small instances of WaveSizing: every batch of up to MaxChunks chunks     *)
(* over every size up to SIZE_MAX.                                          *)
EXTENDS WaveSizing

CONSTANT MaxChunks

MCBatches ==
  UNION {[n : {n}, src : [0 .. n - 1 -> 0 .. SIZE_MAX],
          cap : [0 .. n - 1 -> 0 .. SIZE_MAX], hostOut : BOOLEAN]
         : n \in 1 .. MaxChunks}
=============================================================================
