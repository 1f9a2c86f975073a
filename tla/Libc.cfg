SPECIFICATION Spec
CONSTANTS
  W = 4
  ByteBits = 3
  MulNoOverflow = 8
  HeaderMod = 32
  OffsetMod = 16
  LongBits = 4
  MaxSort = 7
  MaxString = 4
  Top = 17
  Inputs <- MCInputs
  Keys <- MCKeys
  Depths <- MCDepths
  Contents <- MCContents
  Bytes <- MCBytes
  Pointers <- MCPointers
  Alignments <- MCAlignments
INVARIANTS SortsAndSearches Texts Memories
CHECK_DEADLOCK FALSE
