SPECIFICATION Spec
CONSTANTS
  Ops <- MCMoreOps
  InputSet <- MCInputSet
  NoMap = NoMap
  NoCall = NoCall
INVARIANT RenderMatchesSpec
