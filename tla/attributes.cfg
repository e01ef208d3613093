SPECIFICATION AttributesSpec
CONSTANTS
  Callers <- BothCallers
  Values <- SomeInts
  Attrs = {a1, a2}
  Blocks = {b1, b2}
  Null = Null
  CpuSets = {s1}
  EmptySet = EmptySet
  Words <- SomeWords
  Settable <- SomeFields
INVARIANTS RecursiveSurvives UnsupportedIsNoticed ClockSurvives GettersTell
INVARIANTS CreatedAsAsked ReadBack CpuSetsOwned
CHECK_DEADLOCK FALSE
