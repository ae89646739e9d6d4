SPECIFICATION Spec
CONSTANTS
  Nodes = {n1, n2, n3}
  HeadNode = HeadNode
  Junk = Junk
  Elem = {a, b}
  NoElem = NoElem
INVARIANT WellLinked
PROPERTIES
  ImplementsList
  IteratorsStayValid
CHECK_DEADLOCK FALSE
