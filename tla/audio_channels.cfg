SPECIFICATION FairSpec
CONSTANTS
  main = main
  w1 = w1
  a = a
  b = b
  NoOne = NoOne
  NoClip = NoClip
  Caller = {main}
  Main = main
  Clip = {a, b}
  Owner <- OwnerMain
  Length <- Lengths
  Cap = 2
  Limits = {0, 3}
  Numbers <- ChannelNumbers
  Default = 1
  Uses = {"play", "playLoop", "playOn", "playLoopOn", "stop", "stopPlayer", "stopAll", "free", "setMax"}
  MaxPlays = 3
INVARIANTS TypeOK StreamedClipAlive OneStreamPerChannel NoThreadLost
PROPERTIES ReservedKept StopReturnsIdle CallReturns
