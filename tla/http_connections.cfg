SPECIFICATION Spec
CONSTANTS
  main = main
  w1 = w1
  Main = main
  Worker = {w1}
  Listening = {main}
  Hash <- Collide
  IndexSize = 2
  Kinds = {"keep", "upgrade", "malformed"}
  Uses <- UsesAll
  MaxConn = 2
  MaxReq = 2
  MaxFrame = 0
INVARIANTS TypeOK TablesExact OneOwner SocketCloseOnce AnswersInOrder ValueReleasedOnce RequestsServed
