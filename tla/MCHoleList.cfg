SPECIFICATION SliceSpec
CONSTANT MaxNumber = 8
INVARIANTS SliceIsGaps PositionIsRank
