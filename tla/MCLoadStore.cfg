\* Two words of two-valued bytes: every memory, every register, every offset
\* in both words.
SPECIFICATION Spec
CONSTANTS
  Radix = 2
  NumWords = 2
INVARIANTS
  TypeOK
PROPERTIES
  ImplementsByteMemory
