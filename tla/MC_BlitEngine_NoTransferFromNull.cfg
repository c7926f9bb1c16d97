CONSTANTS
  FILL_BANDS = 3
  GLYPH_ROWS = 3
  ALLOC_CAN_FAIL = TRUE
  s1 = s1
  s2 = s2
  s3 = s3
  null = null
  NULL <- null
  SemIds <- MC_SemIds
  Clients <- MC_Glyph
SPECIFICATION Spec
INVARIANT
  NoTransferFromNull
