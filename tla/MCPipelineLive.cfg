SPECIFICATION FairSpec
CONSTANTS
  Words = 4
  NumRegs = 3
  Boot <- LiveBoot
  Programs <- LivePrograms
  TrapVector = 2
  InterruptVector = 3
  ImemAnswers = {"wait", "ok"}
  DmemAnswers = {"wait", "ok", "error"}
  IrqLevels = {TRUE, FALSE}
PROPERTIES
  InterruptTaken
  KeepsRunning
