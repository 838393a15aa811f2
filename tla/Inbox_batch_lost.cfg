SPECIFICATION Spec
CONSTANTS
  a = a
  b = b
  Keys = {a, b}
  Consumers = {c1, c2}
  Modes <- SharedPairs
INVARIANTS
  AckedIsSettled
SYMMETRY ConsumerSymmetry
