CONSTANTS
  r1 = r1
  r2 = r2
  Records <- MCRecords
  Capacity = 3
  MaxReadback = 2
  U32Modulus = 8
  MaxGeneration = 7
  NoRecord = NoRecord
  Invalid = Invalid
SPECIFICATION Spec
PROPERTIES ImplementsFaultHistory
\* The behaviour ends when MaxGeneration, the bound on appends, is reached.
CHECK_DEADLOCK FALSE
