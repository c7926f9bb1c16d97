--------------------------- MODULE MC_BlitEngine ----------------------------
(* Instantiates BlitEngine for TLC: each caller alone, and both together  *)
(* as LcdTouchTask and MainTask run them.                                  *)
EXTENDS BlitEngine

CONSTANTS s1, s2, s3, null

MC_SemIds == {s1, s2, s3}
MC_Fill == {"fill"}
MC_Glyph == {"glyph"}
MC_Both == {"fill", "glyph"}
=============================================================================
