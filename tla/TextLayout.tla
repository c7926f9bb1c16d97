------------------------------ MODULE TextLayout -----------------------------
(***************************************************************************)
(* LcdTouch_DrawString of src/components/lcd_touch/lcd_touch.c with the  *)
(* glyph index it computes for every code point.                           *)
(*                                                                         *)
(* DrawString walks its string one code point at a time: it resolves the  *)
(* code point to an index of the font table Font.chars                     *)
(* (LcdTouch_GetFontIndexOfUnicode, uint32_t arithmetic), draws that glyph *)
(* at the cursor (LcdTouch_DrawText, which reports the glyph's width and   *)
(* height), advances the cursor by the width plus one pixel, and wraps to  *)
(* the margin and the next line once the cursor has reached the panel      *)
(* width less the margin.  The cursor is uint16_t.                         *)
(*                                                                         *)
(* The decoder ParserChar_GetUnicode and the table Font.chars live outside *)
(* this repository: the code points a string can decode to are the set     *)
(* Alphabet, and the table's size and glyph sizes are constants.  A read   *)
(* of Font.chars past its end yields whatever lies there (JunkDims).       *)
(* The blits a glyph makes are BlitEngine's "glyph" caller.                *)
(***************************************************************************)
EXTENDS Integers

CONSTANTS
  CV_BASE,        \* PC_CONSONANTS_VOWELS_INDEX_IN_UNICODE (parser_char.h)
  CT_BASE,        \* PC_COMPLETE_TYPE_TEXT_INDEX_IN_UNICODE (parser_char.h)
  CT_COUNT,       \* complete-form glyphs Font.h stores from index 189 on
  GlyphWidth(_),  \* Font.chars[i].image->width (0 for a NULL image)
  GlyphHeight(_), \* Font.chars[i].image->height (0 for a NULL image)
  JunkDims,       \* <<width, height>> an out-of-bounds Font.chars read gives
  Alphabet,       \* code points ParserChar_GetUnicode returns for the text
  Origins,        \* <<x, y>> origins Task_UpdateScreen draws fields at
  MAX_GLYPHS      \* code points in one string

(* The #defines of lcd_touch.c that the layout and the index use. *)
LT_LCD_H_RES == 320
LT_HORIZONTAL_MARGIN == 20
LT_X_SPACE_TEXT_PIXEL == 1
LT_Y_SPACE_TEXT_PIXEL == 5
LT_GAP_UNICODE_FONTFILE == 32
LT_CONSONANTS_VOWELS_INDEX_IN_FONT == 95
LT_COMPLETE_TYPE_TEXT_INDEX_IN_FONT == 189
LT_CALI_VALUE_OF_CV_INDEX == CV_BASE - LT_CONSONANTS_VOWELS_INDEX_IN_FONT
LT_CALI_VALUE_OF_CT_INDEX == CT_BASE - LT_COMPLETE_TYPE_TEXT_INDEX_IN_FONT

(* Unsigned C arithmetic.  A uint32_t is kept as the pair of its high  *)
(* and low 16-bit halves, which is exact (\div rounds down) and keeps    *)
(* every value within TLC's integers.                                   *)
UInt16 == {k \in Nat : k < 65536}
U16(n) == n % 65536
U32(n) == <<U16(n \div 65536), U16(n)>>
Word32 == UInt16 \X UInt16

(* The code points Unicode defines. *)
CodePoint == {k \in Nat : k <= 1114111}

(* The font table: printable ASCII, then the 94 compatibility jamo, then   *)
(* the complete forms.                                                     *)
FontIndex == 0 .. (LT_COMPLETE_TYPE_TEXT_INDEX_IN_FONT + CT_COUNT - 1)

(* The uint32_t index u names an entry of Font.chars. *)
InFont(u) == u[1] = 0 /\ u[2] \in FontIndex

(* The code points the table has a glyph for, range by range. *)
AsciiRange == LT_GAP_UNICODE_FONTFILE .. 126
CvRange == CV_BASE .. (CV_BASE + LT_COMPLETE_TYPE_TEXT_INDEX_IN_FONT
                                - LT_CONSONANTS_VOWELS_INDEX_IN_FONT - 1)
CtRange == CT_BASE .. (CT_BASE + CT_COUNT - 1)
ValidCodePoints == AsciiRange \cup CvRange \cup CtRange

(* The Hangul bases lie above ASCII and in order, and the table fits the *)
(* 16-bit index range the firmware's font can have.                      *)
ASSUME FontAssumption ==
  /\ CV_BASE \in Nat /\ CV_BASE >= 127
  /\ CT_BASE \in Nat /\ CT_BASE >= CV_BASE + 94
  /\ CT_COUNT \in Nat /\ CT_COUNT <= 65536 - LT_COMPLETE_TYPE_TEXT_INDEX_IN_FONT

ASSUME LayoutAssumption ==
  /\ \A i \in FontIndex : GlyphWidth(i) \in UInt16 /\ GlyphHeight(i) \in UInt16
  /\ JunkDims \subseteq UInt16 \X UInt16
  /\ Alphabet \subseteq CodePoint
  /\ Origins \subseteq (0 .. (LT_LCD_H_RES - LT_HORIZONTAL_MARGIN - 1)) \X UInt16
  /\ Origins # {}
  /\ MAX_GLYPHS \in Nat

(* The <<width, height>> LcdTouch_GetFontImageData reads for index u:    *)
(* the glyph's, or whatever lies past the end of Font.chars.             *)
GlyphDims(u) ==
  IF InFont(u) THEN {<<GlyphWidth(u[2]), GlyphHeight(u[2])>>} ELSE JunkDims

(* Mutant: the complete-form test written with > instead of >=. *)
GetFontIndexStrictCT(unicode) ==
  IF unicode < 127
    THEN U32(unicode - LT_GAP_UNICODE_FONTFILE)
  ELSE IF unicode > CT_BASE
    THEN U32(unicode - LT_CALI_VALUE_OF_CT_INDEX)
  ELSE U32(unicode - LT_CALI_VALUE_OF_CV_INDEX)

(* LcdTouch_GetFontIndexOfUnicode. *)
GetFontIndexOfUnicode(unicode) ==
  IF unicode < 127
    THEN U32(unicode - LT_GAP_UNICODE_FONTFILE)
  ELSE IF unicode >= CT_BASE
    THEN U32(unicode - LT_CALI_VALUE_OF_CT_INDEX)
  ELSE U32(unicode - LT_CALI_VALUE_OF_CV_INDEX)

-----------------------------------------------------------------------------
VARIABLES
  x, y,   \* text_data.start_x_pos / start_y_pos, the cursor
  n,      \* code points drawn so far in this call
  idx,    \* text_data.fontIndex of the glyph being drawn
  w, h,   \* text_data.textWidth / textHeight it reported
  pc      \* "decode": top of the while loop; "advance": glyph drawn

vars == <<x, y, n, idx, w, h, pc>>

(* DrawString called at the origin of one of the fields. *)
Init ==
  /\ \E o \in Origins : x = o[1] /\ y = o[2]
  /\ n = 0 /\ idx = <<0, 0>> /\ w = 0 /\ h = 0
  /\ pc = "decode"

(* One code point decoded, resolved and drawn by LcdTouch_DrawText at the *)
(* cursor, which reports the glyph's size from Font.chars[fontIndex].    *)
DrawGlyph ==
  /\ pc = "decode" /\ n < MAX_GLYPHS
  /\ \E cp \in Alphabet :
       /\ idx' = GetFontIndexOfUnicode(cp)
       /\ \E d \in GlyphDims(idx') : w' = d[1] /\ h' = d[2]
  /\ pc' = "advance"
  /\ UNCHANGED <<x, y, n>>

(* The cursor moves past the glyph, and wraps to the margin and the next *)
(* line once it has reached the panel width less the margin.              *)
Advance ==
  /\ pc = "advance"
  /\ LET nx == U16(x + w + LT_X_SPACE_TEXT_PIXEL) IN
       IF nx >= LT_LCD_H_RES - LT_HORIZONTAL_MARGIN
         THEN /\ x' = LT_HORIZONTAL_MARGIN
              /\ y' = U16(y + h + LT_Y_SPACE_TEXT_PIXEL)
         ELSE x' = nx /\ y' = y
  /\ n' = n + 1
  /\ pc' = "decode"
  /\ UNCHANGED <<idx, w, h>>

(* The string ends (str_index reached strlen) and the next field is drawn. *)
Return ==
  /\ pc = "decode"
  /\ \E o \in Origins : x' = o[1] /\ y' = o[2]
  /\ n' = 0
  /\ UNCHANGED <<idx, w, h, pc>>

Next == DrawGlyph \/ Advance \/ Return

Spec == Init /\ [][Next]_vars

-----------------------------------------------------------------------------
TypeOK ==
  /\ x \in UInt16 /\ y \in UInt16
  /\ n \in 0..MAX_GLYPHS
  /\ idx \in Word32
  /\ w \in UInt16 /\ h \in UInt16
  /\ pc \in {"decode", "advance"}

(* Spec, GlyphIndex: every code point the decoder hands to the resolver   *)
(* resolves to an entry of the font table, so LcdTouch_GetFontImageData   *)
(* never reads Font.chars[fontIndex] past its end.                        *)
GlyphIndexInFont == pc = "advance" => InFont(idx)

=============================================================================
