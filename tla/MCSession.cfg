SPECIFICATION FairSpec
CONSTANTS
  IdleLimit = 3
  MaxIn = 2
  MaxOut = 2
  MaxPacketSend = 1
INVARIANTS
  TypeOK
  NoServiceWithoutSocket
  SocketReleased
PROPERTIES
  FailureIsFinal
  ImplementsContract
  QuietSessionEnds
  DestructorReturns
