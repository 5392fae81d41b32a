SPECIFICATION FairSpec
CONSTANTS
  t1 = t1
  t2 = t2
  Main = Main
  Thread <- One
  Registry <- RegistryOne
  HttpThread = {t1}
  Uses <- UsesLife
  MaxMessages = 3
  MaxTxn = 2
  MaxCalls = 3
INVARIANTS TypeOK NoOrphanThread
PROPERTIES OnlyMarshaledAfterKill MarshaledServed
