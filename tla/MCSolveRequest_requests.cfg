SPECIFICATION Spec
CONSTANTS
  Values <- TypedValues
  MinValue <- LeastValue
  MaxValue = 2
  MaxEdits = 2
  Flags = {"Disps13", "Disps36"}
  NotANumber = NotANumber
CHECK_DEADLOCK FALSE
INVARIANTS TypeOK FormIsUnderstood SolvesTheFormsProblem SolvesExactlyTheSolvable
