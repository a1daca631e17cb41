--------------------------- MODULE MCEngineSerial ---------------------------
(* One client; crashes and failing writes at any point.                   *)
EXTENDS EngineService

MCMenu == [c \in Clients |-> {"remember", "revise", "delete", "forget", "recall"}]

=============================================================================
