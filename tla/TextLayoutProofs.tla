-------------------------- MODULE TextLayoutProofs --------------------------
(***************************************************************************)
(* Proofs about LcdTouch_GetFontIndexOfUnicode and LcdTouch_DrawString for *)
(* every Unicode base and font size LayoutAssumption allows.               *)
(***************************************************************************)
EXTENDS TextLayout, TLAPS

(* The facts about the Unicode bases and the font size the proofs use. *)
LEMMA FontConstants ==
  /\ CV_BASE \in Nat /\ CV_BASE >= 127
  /\ CT_BASE \in Nat /\ CT_BASE >= CV_BASE + 94
  /\ CT_COUNT \in Nat /\ CT_COUNT <= 65536 - 189
  BY FontAssumption DEF LT_COMPLETE_TYPE_TEXT_INDEX_IN_FONT

(* The index a valid code point has in Font.chars, as a plain number. *)
Linear(cp) ==
  IF cp < 127 THEN cp - LT_GAP_UNICODE_FONTFILE
  ELSE IF cp >= CT_BASE THEN cp - LT_CALI_VALUE_OF_CT_INDEX
  ELSE cp - LT_CALI_VALUE_OF_CV_INDEX

(* A number that fits in 16 bits is a uint32_t with a zero high half. *)
LEMMA U32Small ==
  ASSUME NEW k \in UInt16
  PROVE  U32(k) = <<0, k>>
  BY DEF U32, U16, UInt16

(* Each range is translated into its own block of the table. *)
LEMMA LinearRanges ==
  /\ \A cp \in AsciiRange : Linear(cp) \in 0..94
  /\ \A cp \in CvRange : Linear(cp) \in 95..188
  /\ \A cp \in CtRange : Linear(cp) \in 189 .. (188 + CT_COUNT)
  BY FontConstants
  DEF Linear, AsciiRange, CvRange, CtRange, LT_GAP_UNICODE_FONTFILE,
         LT_CALI_VALUE_OF_CT_INDEX, LT_CALI_VALUE_OF_CV_INDEX,
         LT_CONSONANTS_VOWELS_INDEX_IN_FONT, LT_COMPLETE_TYPE_TEXT_INDEX_IN_FONT

LEMMA ResolverLinear ==
  ASSUME NEW cp \in ValidCodePoints
  PROVE  /\ Linear(cp) \in FontIndex
         /\ GetFontIndexOfUnicode(cp) = <<0, Linear(cp)>>
<1>1. Linear(cp) \in FontIndex
  BY LinearRanges, FontConstants DEF ValidCodePoints, FontIndex, LT_COMPLETE_TYPE_TEXT_INDEX_IN_FONT
<1>2. Linear(cp) \in UInt16
  BY <1>1, FontConstants DEF FontIndex, UInt16, LT_COMPLETE_TYPE_TEXT_INDEX_IN_FONT
<1>3. GetFontIndexOfUnicode(cp) = U32(Linear(cp))
  BY FontConstants DEF GetFontIndexOfUnicode, Linear
<1>4. QED
  BY <1>1, <1>2, <1>3, U32Small

(* Every code point of the three ranges the font covers resolves to an   *)
(* entry of Font.chars: the resolver's constants agree with the table's  *)
(* layout.                                                               *)
THEOREM ResolverInBounds ==
  \A cp \in ValidCodePoints : InFont(GetFontIndexOfUnicode(cp))
<1> TAKE cp \in ValidCodePoints
<1>1. GetFontIndexOfUnicode(cp) = <<0, Linear(cp)>> /\ Linear(cp) \in FontIndex
  BY ResolverLinear
<1>2. QED
  BY <1>1 DEF InFont

(* No two code points the font covers share a glyph: the three ranges    *)
(* land in disjoint blocks and each is a translation.                    *)
THEOREM ResolverInjective ==
  \A a, b \in ValidCodePoints :
    GetFontIndexOfUnicode(a) = GetFontIndexOfUnicode(b) => a = b
<1> TAKE a, b \in ValidCodePoints
<1> HAVE GetFontIndexOfUnicode(a) = GetFontIndexOfUnicode(b)
<1>1. Linear(a) = Linear(b)
  BY ResolverLinear
<1>2. QED
  BY <1>1, LinearRanges, FontConstants DEF ValidCodePoints, Linear, AsciiRange, CvRange,
     CtRange, LT_GAP_UNICODE_FONTFILE, LT_CALI_VALUE_OF_CT_INDEX,
     LT_CALI_VALUE_OF_CV_INDEX, LT_CONSONANTS_VOWELS_INDEX_IN_FONT,
     LT_COMPLETE_TYPE_TEXT_INDEX_IN_FONT

(* A control character (line feed, tab, carriage return ...) that reaches *)
(* DrawString underflows the uint32_t subtraction of 32 and indexes       *)
(* Font.chars about four billion entries past its end.                    *)
THEOREM ControlCharOutOfFont ==
  \A cp \in 0..31 : ~InFont(GetFontIndexOfUnicode(cp))
<1> TAKE cp \in 0..31
<1>1. GetFontIndexOfUnicode(cp) = U32(cp - 32)
  BY DEF GetFontIndexOfUnicode, LT_GAP_UNICODE_FONTFILE
<1>2. U32(cp - 32)[1] = 65535
  BY DEF U32, U16
<1>3. QED
  BY <1>1, <1>2 DEF InFont

-----------------------------------------------------------------------------
(* Truncation to uint16_t and the uint32_t pair always give values of    *)
(* their C types.                                                        *)
LEMMA U16Type ==
  ASSUME NEW k \in Int
  PROVE  U16(k) \in UInt16
  BY DEF U16, UInt16

LEMMA U32Type ==
  ASSUME NEW k \in Int
  PROVE  U32(k) \in Word32
<1>1. k \div 65536 \in Int
  OBVIOUS
<1>2. QED
  BY <1>1, U16Type DEF U32, Word32

LEMMA ResolverType ==
  ASSUME NEW cp \in CodePoint
  PROVE  GetFontIndexOfUnicode(cp) \in Word32
  BY FontConstants, U32Type
  DEF GetFontIndexOfUnicode, CodePoint, LT_GAP_UNICODE_FONTFILE,
      LT_CALI_VALUE_OF_CT_INDEX, LT_CALI_VALUE_OF_CV_INDEX,
      LT_CONSONANTS_VOWELS_INDEX_IN_FONT, LT_COMPLETE_TYPE_TEXT_INDEX_IN_FONT

LEMMA DimsType ==
  ASSUME NEW u \in Word32
  PROVE  GlyphDims(u) \subseteq UInt16 \X UInt16
<1>1. CASE InFont(u)
  <2>1. u[2] \in FontIndex
    BY <1>1 DEF InFont
  <2>2. QED
    BY <1>1, <2>1, LayoutAssumption DEF GlyphDims
<1>2. CASE ~InFont(u)
  BY <1>2, LayoutAssumption DEF GlyphDims
<1>3. QED
  BY <1>1, <1>2

(* TypeOK is not inductive by itself: Advance counts the glyph without a *)
(* guard, so the bound on n rests on DrawGlyph's n < MAX_GLYPHS.         *)
LayoutInv == TypeOK /\ (pc = "advance" => n < MAX_GLYPHS)

LEMMA LayoutInvInit == Init => LayoutInv
<1> SUFFICES ASSUME Init PROVE LayoutInv
  OBVIOUS
<1>1. PICK o \in Origins : x = o[1] /\ y = o[2]
  BY DEF Init
<1>2. o[1] \in UInt16 /\ o[2] \in UInt16
  BY LayoutAssumption DEF UInt16, LT_LCD_H_RES, LT_HORIZONTAL_MARGIN
<1>3. <<0, 0>> \in Word32 /\ 0 \in UInt16
  BY DEF Word32, UInt16
<1>4. QED
  BY <1>1, <1>2, <1>3, LayoutAssumption DEF Init, LayoutInv, TypeOK

LEMMA LayoutInvStep == LayoutInv /\ [Next]_vars => LayoutInv'
<1> SUFFICES ASSUME LayoutInv, [Next]_vars PROVE LayoutInv'
  OBVIOUS
<1>1. CASE DrawGlyph
  <2>1. PICK cp \in Alphabet : idx' = GetFontIndexOfUnicode(cp)
                              /\ \E d \in GlyphDims(idx') : w' = d[1] /\ h' = d[2]
    BY <1>1 DEF DrawGlyph
  <2>2. idx' \in Word32
    BY <2>1, ResolverType, LayoutAssumption
  <2>3. w' \in UInt16 /\ h' \in UInt16
    BY <2>1, <2>2, DimsType
  <2>4. QED
    BY <1>1, <2>2, <2>3 DEF DrawGlyph, LayoutInv, TypeOK
<1>2. CASE Advance
  <2>1. x + w + LT_X_SPACE_TEXT_PIXEL \in Int /\ y + h + LT_Y_SPACE_TEXT_PIXEL \in Int
    BY DEF LayoutInv, TypeOK, UInt16, LT_X_SPACE_TEXT_PIXEL, LT_Y_SPACE_TEXT_PIXEL
  <2>2. /\ x' \in {LT_HORIZONTAL_MARGIN, U16(x + w + LT_X_SPACE_TEXT_PIXEL)}
        /\ y' \in {y, U16(y + h + LT_Y_SPACE_TEXT_PIXEL)}
    BY <1>2 DEF Advance
  <2>3. x' \in UInt16 /\ y' \in UInt16
    BY <2>1, <2>2, U16Type DEF LayoutInv, TypeOK, UInt16, LT_HORIZONTAL_MARGIN
  <2>4. n' \in 0..MAX_GLYPHS /\ pc' = "decode"
    BY <1>2, LayoutAssumption DEF Advance, LayoutInv, TypeOK
  <2>5. QED
    BY <1>2, <2>3, <2>4 DEF Advance, LayoutInv, TypeOK
<1>3. CASE Return
  <2>1. PICK o \in Origins : x' = o[1] /\ y' = o[2]
    BY <1>3 DEF Return
  <2>2. o[1] \in UInt16 /\ o[2] \in UInt16
    BY LayoutAssumption DEF UInt16, LT_LCD_H_RES, LT_HORIZONTAL_MARGIN
  <2>3. QED
    BY <1>3, <2>1, <2>2, LayoutAssumption DEF Return, LayoutInv, TypeOK
<1>4. CASE UNCHANGED vars
  BY <1>4 DEF vars, LayoutInv, TypeOK
<1>5. QED
  BY <1>1, <1>2, <1>3, <1>4 DEF Next

(* The cursor, the glyph size and the index DrawString keeps always fit *)
(* their C types, and no string is drawn past MAX_GLYPHS code points.   *)
THEOREM LayoutTypeCorrect == Spec => []TypeOK
<1>1. LayoutInv => TypeOK
  BY DEF LayoutInv
<1>2. QED
  BY LayoutInvInit, LayoutInvStep, <1>1, PTL DEF Spec

-----------------------------------------------------------------------------
(* DrawString only ever reads Font.chars in bounds when every code point  *)
(* the decoder can return is one the font covers.                         *)
THEOREM LayoutIndexSafe ==
  ASSUME Alphabet \subseteq ValidCodePoints
  PROVE  Spec => []GlyphIndexInFont
<1>1. Init => GlyphIndexInFont
  BY DEF Init, GlyphIndexInFont
<1>2. GlyphIndexInFont /\ [Next]_vars => GlyphIndexInFont'
  <2> SUFFICES ASSUME GlyphIndexInFont, [Next]_vars PROVE GlyphIndexInFont'
    OBVIOUS
  <2>1. CASE DrawGlyph
    <3>1. PICK cp \in Alphabet : idx' = GetFontIndexOfUnicode(cp)
      BY <2>1 DEF DrawGlyph
    <3>2. QED
      BY <3>1, ResolverInBounds DEF GlyphIndexInFont
  <2>2. CASE Advance
    BY <2>2 DEF Advance, GlyphIndexInFont
  <2>3. CASE Return
    BY <2>3 DEF Return, GlyphIndexInFont
  <2>4. CASE UNCHANGED vars
    BY <2>4 DEF vars, GlyphIndexInFont
  <2>5. QED
    BY <2>1, <2>2, <2>3, <2>4 DEF Next
<1>3. QED
  BY <1>1, <1>2, PTL DEF Spec

=============================================================================
