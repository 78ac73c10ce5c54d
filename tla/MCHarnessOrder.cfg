\* The same benches, the channel's order under the wait states of a test.
SPECIFICATION MCSpec
CONSTANTS
  Words = 4
  NumRegs = 2
  Boot <- HarnessBoot
  Programs <- HarnessPrograms
  TrapVector = 3
  InterruptVector = 3
  ImemAnswers = {"wait", "ok", "fault_insn"}
  DmemAnswers = {"wait", "ok", "error"}
  IrqLevels = {FALSE}
PROPERTIES
  InOrderChannel
