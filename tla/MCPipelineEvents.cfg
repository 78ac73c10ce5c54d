SPECIFICATION EventsSpec
CONSTANTS
  Words = 4
  NumRegs = 3
  Boot <- EventBoot
  Programs <- EventPrograms
  TrapVector = 3
  InterruptVector = 3
  ImemAnswers = {"wait", "ok", "fault_insn", "fault_nop"}
  DmemAnswers = {"wait", "ok", "error"}
  IrqLevels = {TRUE, FALSE}
INVARIANTS
  TypeOK
  SleepIsQuiet
  BubblesAreSilent
PROPERTIES
  ImplementsIsa
  RequestsHeld
  FenceDropsPrefetch
