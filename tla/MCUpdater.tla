----------------------------- MODULE MCUpdater ------------------------------
(***************************************************************************)
(* Small instances of Updater: a device with release 0 is offered 1 to 5;  *)
(* 3 has no valid signature and the services of 2 do not stay up.          *)
(***************************************************************************)
EXTENDS Updater

CONSTANTS worker, display

=============================================================================
