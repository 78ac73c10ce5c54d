SPECIFICATION FairSpec
CONSTANTS
  Addr <- MCAddr
  Data <- MCData
  Size <- MCSize
  NoReq = NoReq
  NoXfer = NoXfer
INVARIANTS
  TypeOK
  BusyOwnsRequest
  NeverPipelined
PROPERTIES
  ImplementsNativePort
  EveryRequestAnswered
