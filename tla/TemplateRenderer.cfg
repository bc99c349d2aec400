SPECIFICATION Spec
CONSTANTS
  Ops <- MCOps
  InputSet <- MCInputSet
  NoMap = NoMap
  NoCall = NoCall
INVARIANT RenderMatchesSpec
