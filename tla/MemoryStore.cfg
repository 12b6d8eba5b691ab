SPECIFICATION Spec
CONSTANTS
  Writers <- MCWriters
  Keys <- MCKeys
  KeyOf <- MCKeyOf
INVARIANTS
  AcknowledgedIsDurable
  ReadsAreCurrent
PROPERTIES
  WritesAreAtomic
  WritesEnd
