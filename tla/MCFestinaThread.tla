-------------------------- MODULE MCFestinaThread --------------------------
(* Small instances of FestinaThread for TLC.                                *)
EXTENDS FestinaThread

CONSTANTS t1, t2

One == {t1}
Two == {t1, t2}
RegistryOne == <<t1>>
RegistryTwo == <<t2, t1>>

UsesCallbacks == {"ask", "askMain", "reply", "stashedReply", "kill"}
UsesLife      == {"ask", "askMain", "reply", "kill", "live", "giveRequest", "close", "signal"}
UsesQueues    == {"post", "report", "drain", "kill", "live", "close"}
=============================================================================
