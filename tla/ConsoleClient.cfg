CONSTANTS
  add = add
  rm = rm
  test = test
  Commands = {add, rm}
  Retries = 3
  NonceSpace = 4
  MaxFaults = 6
SPECIFICATION Spec
INVARIANTS SendsOnConnection RepeatedOnlyAfterFault AnswerIsOwn DepthBoundedByFaults
PROPERTY Recovers
