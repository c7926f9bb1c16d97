CONSTANTS
  CV_BASE = 12593
  CT_BASE = 44032
  CT_COUNT = 11172
  MAX_GLYPHS = 40
  GlyphWidth <- MC_GlyphWidth
  GlyphHeight <- MC_GlyphHeight
  JunkDims <- MC_JunkDims
  Alphabet <- MC_Valid
  Origins <- MC_Origins
SPECIFICATION Spec
INVARIANT
  GlyphIndexInFont
