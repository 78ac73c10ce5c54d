\* Counters of two halves of two bits; a read loop may span the carry of the low
\* half but not a whole turn of the high one.
SPECIFICATION MCSpec
CONSTANTS
  H = 2
  Bases = {0, 64}
  Pcs = {0, 3}
  Causes = {2}
  MCGap = 6
INVARIANTS
  CounterAccessCoherent
PROPERTIES
  MostUrgentInterrupt
