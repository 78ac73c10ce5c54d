\* Data words of 14 bits: the two upper bits come from LUI, products of two
\* words stay within TLC's integers.  The seeds are the boundaries of the
\* LUI/ADDI split and of the sign.
SPECIFICATION MCSpec
CONSTANTS
  N = 14
  TestWords <- MCWord
  Seeded = {1, 2}
  SeedValues = {0, 5, 2047, 2048, 6143, 8191, 8192, 14335, 16383}
  Sources = {0, 1, 2}
  Destinations = {1, 30}
  Immediates <- MCImmediates
  Shifts = {0, 1, 13, 31}
  Offsets = {0, 124}
  Lengths = {1, 2}
INVARIANTS
  DecompressorMatchesOracle
  ExpansionsExecutable
  LegalWordsReassemble
  ControlsAsModelled
  ExpectedOutcome
\* A program ends, a parcel and a word take no step.
CHECK_DEADLOCK FALSE
