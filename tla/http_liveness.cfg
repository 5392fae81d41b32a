SPECIFICATION Spec
CONSTANTS
  main = main
  w1 = w1
  Main = main
  Worker = {w1}
  Listening = {main}
  Hash <- Collide
  IndexSize = 2
  Kinds = {"keep", "close", "upgrade", "malformed"}
  Uses <- UsesAll
  MaxConn = 1
  MaxReq = 2
  MaxFrame = 2
PROPERTIES HangupNoticed GivenHandled
