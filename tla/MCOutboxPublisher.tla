--------------------------- MODULE MCOutboxPublisher ---------------------------
(* Instances of OutboxPublisher for TLC. *)
EXTENDS OutboxPublisher
=============================================================================
