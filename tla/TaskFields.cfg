SPECIFICATION Spec
CONSTANTS
  p1 = p1
  p2 = p2
  p3 = p3
  completed = completed
  due = due
  Null = Null
  Patch = {p1, p2, p3}
  Field = {completed, due}
  Nullable = {due}
  Value = {0, 1}
  First <- AllZero
SYMMETRY Symmetry
INVARIANTS TypeOK LastPatchWins AnswersAreHonest
CHECK_DEADLOCK FALSE
