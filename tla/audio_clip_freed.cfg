SPECIFICATION Spec
CONSTANTS
  main = main
  w1 = w1
  a = a
  b = b
  NoOne = NoOne
  NoClip = NoClip
  Caller = {main, w1}
  Main = main
  Clip = {a, b}
  Owner <- OwnerEach
  Length <- Lengths
  Cap = 2
  Limits = {}
  Numbers <- ChannelNumbers
  Default = 2
  Uses = {"playOn", "stop", "stopAll", "free"}
  MaxPlays = 3
INVARIANT StreamedClipAlive
