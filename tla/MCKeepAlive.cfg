SPECIFICATION Spec
SYMMETRY Symmetry
CONSTANTS
  Robot = Robot
  First = First
  Second = Second
  Clients <- One
  Check = 2
  MaxOffset = 1
  Wait = 3
  Timeout = 4
  Late = 1
  Cycles <- Two
INVARIANTS TypeOK SilentGoes LooksBounded
PROPERTIES AnswersCount
