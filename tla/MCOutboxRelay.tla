--------------------------- MODULE MCOutboxRelay ---------------------------
(***************************************************************************)
(* Instances of OutboxRelay for TLC.  The healthy event and the poison one *)
(* are given in the configuration.                                         *)
(***************************************************************************)
EXTENDS OutboxRelay, TLC

=============================================================================
