SPECIFICATION ListSpec
CONSTANTS
  IllFormed = IllFormed
  Items = {a, b}
  MaxSize = 16
SYMMETRY Symmetry
INVARIANTS PiecesDoNotShow SelectionsAgree
CHECK_DEADLOCK FALSE
