\* Six parcels: three bus words, so that wide instructions start in both
\* halves of a word, follow each other and wrap at the end of memory.
SPECIFICATION Spec
CONSTANT Halfwords = 6
INVARIANTS
  TypeOK
  PayloadBelongsToPc
  NoDuplicateReads
PROPERTIES
  ImplementsFetchPort
