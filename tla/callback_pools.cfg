SPECIFICATION FairSpec
CONSTANTS
  i1 = i1
  i2 = i2
  h1 = h1
  h2 = h2
  w1 = w1
  w2 = w2
  t1 = t1
  Main = Main
  NoJob = NoJob
  IoJob = {i1, i2}
  HttpJob = {h1}
  IoWorker = {w1, w2}
  HttpWorker = {w1}
  Peer = {t1}
INVARIANTS TypeOK EndsIdle
PROPERTIES IoIsJobPool HttpIsJobPool CallbacksRun
