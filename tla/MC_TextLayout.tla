---------------------------- MODULE MC_TextLayout ---------------------------
(* Instantiates TextLayout for TLC with the Unicode bases of the Hangul   *)
(* compatibility jamo (U+3131) and syllables (U+AC00) and a 16-pixel font:  *)
(* ASCII glyphs 8 wide, Hangul 16 wide, all 16 high; the space glyph has   *)
(* no image.                                                               *)
EXTENDS TextLayout

MC_GlyphWidth(i) == IF i = 0 THEN 0 ELSE IF i < 95 THEN 8 ELSE 16
MC_GlyphHeight(i) == IF i = 0 THEN 0 ELSE 16

(* The edges of each range the font covers. *)
MC_Valid == {32, 65, 126, 12593, 12686, 44032, 55203}

(* The word, sentence and time fields of s_wordData. *)
MC_Origins == {<<10, 10>>, <<10, 60>>, <<150, 200>>}

MC_JunkDims == {<<0, 0>>, <<8, 16>>}
=============================================================================
