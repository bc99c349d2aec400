SPECIFICATION Spec
CONSTANTS
  Words <- MCWords
  Cases = {"upper", "lower"}
  TtlValues <- MCTtlValues
  Codes <- MCCodes
  NumbersAsFloat = FALSE
  NotString = NotString
  Absent = Absent
  NoEval = NoEval
INVARIANT EvaluateMatchesSpec
