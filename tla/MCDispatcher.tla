---------------------------- MODULE MCDispatcher ----------------------------
(* Instances of Dispatcher for TLC. *)
EXTENDS DispatcherInv

CONSTANTS d1, d2

=============================================================================
