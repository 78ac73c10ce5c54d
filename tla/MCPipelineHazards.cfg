SPECIFICATION Spec
CONSTANTS
  Words = 8
  NumRegs = 3
  Boot <- ResetBoot
  Programs <- HazardPrograms
  TrapVector = 4
  InterruptVector = 4
  ImemAnswers = {"wait", "ok"}
  DmemAnswers = {"wait", "ok"}
  IrqLevels = {FALSE}
INVARIANTS
  MduOwnsEx
  CsrRunsAlone
PROPERTIES
  ImplementsIsa
