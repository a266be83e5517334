---------------------------- MODULE MCTicketLock ----------------------------
(* Small instances of TicketLock, and its refinement of FifoLock. *)
EXTENDS TicketFifo
=============================================================================
