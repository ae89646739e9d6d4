SPECIFICATION Spec
CONSTANTS
  Elem = {a, b}
  NoElem = NoElem
  Junk = Junk
  InitSize = 2
  MaxLen = 5
INVARIANT PushAssertion
CHECK_DEADLOCK FALSE
