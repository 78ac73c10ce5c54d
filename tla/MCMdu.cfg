\* Three bits: every pair of operands, with the most negative value, for all
\* eight operations, and every value a previous operation can leave behind.
SPECIFICATION Spec
CONSTANTS
  N = 3
  NoInsn = NoInsn
INVARIANTS
  TypeOK
  ResultCorrect
  PartialResultExact
PROPERTIES
  EveryOperationLeaves
