SPECIFICATION Spec
CONSTANTS
  t1 = t1
  t2 = t2
  Main = Main
  Thread <- Two
  Registry <- RegistryTwo
  HttpThread = {}
  Uses <- UsesCallbacks
  MaxMessages = 3
  MaxTxn = 2
  MaxCalls = 1
INVARIANTS PayloadOwnedOnce CallbackHeldOnce TailNamesLast ReplyTxnScoped LanesInOrder
PROPERTIES CallbackOnItsThread
