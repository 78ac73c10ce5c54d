\* The formal bench and the cocotb bench.
SPECIFICATION MCSpec
CONSTANTS
  Words = 4
  NumRegs = 2
  Boot <- HarnessBoot
  Programs <- HarnessPrograms
  TrapVector = 3
  InterruptVector = 3
  ImemAnswers = {"wait", "ok", "fault_insn"}
  DmemAnswers = {"wait", "ok", "error"}
  IrqLevels = {FALSE}
INVARIANTS
  ShadowMatches
  BenchMeasures
PROPERTIES
  NoTrapPacketLost
  InOrderAtZeroWait
