SPECIFICATION Spec
CONSTANTS
  p1 = p1
  p2 = p2
  standard = standard
  own = own
  First <- MCFirst
  Ids = {p1, p2, p3}
  Names = {standard, own}
  None = None
  Tasks = {t1, t2}
  Template = {standard}
  MaxEdits = 1
  MaxNow = 1
SYMMETRY MCSymmetry
INVARIANT NothingSentLocksOut
CHECK_DEADLOCK FALSE
