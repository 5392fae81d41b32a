SPECIFICATION Spec
CONSTANTS
  main = main
  w1 = w1
  Main = main
  Worker = {w1}
  Listening = {main}
  Hash <- Collide
  IndexSize = 2
  Kinds = {"upgrade"}
  Uses <- UsesClose
  MaxConn = 1
  MaxReq = 1
  MaxFrame = 1
INVARIANTS SocketCloseOnce
