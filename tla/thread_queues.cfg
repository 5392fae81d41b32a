SPECIFICATION FairSpec
CONSTANTS
  t1 = t1
  t2 = t2
  Main = Main
  Thread <- One
  Registry <- RegistryOne
  HttpThread = {}
  Uses <- UsesQueues
  MaxMessages = 3
  MaxTxn = 0
  MaxCalls = 3
PROPERTIES DrainWaitsForQueued MainReturns QueuesServed
