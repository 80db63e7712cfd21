SPECIFICATION MCSpec
CONSTANTS
  Chars = {"a", "b", "p", "-", "/", "*"}
  Documents <- ThreeDocuments
  Broken = Broken
  Idle = Idle
  MaxEdits = 4
  MaxChars = 5
  MaxWords = 3
INVARIANTS PatternsMatch DecisionsCorrect
PROPERTIES CatchesUp
\* With all changes made and all events handled nothing is left to do, and
\* long inputs are not extended.
CHECK_DEADLOCK FALSE
