SPECIFICATION TopSpec
CONSTANTS
  Words = 4
  NumRegs = 2
  Boot <- TopBoot
  Programs <- TopPrograms
  TrapVector = 2
  InterruptVector = 3
  ImemAnswers = {"wait", "ok", "fault_nop"}
  DmemAnswers = {"wait", "ok", "error"}
  IrqLevels = {TRUE, FALSE}
  NoReq = NoReq
  NoXfer = NoXfer
INVARIANTS
  BridgesOwnRequests
  MemoriesAgree
  SleepGateSafe
