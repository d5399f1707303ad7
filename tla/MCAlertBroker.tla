---------------------------- MODULE MCAlertBroker ----------------------------
(***************************************************************************)
(* Small instances of module AlertBroker for TLC.                          *)
(***************************************************************************)
EXTENDS AlertBroker

CONSTANTS s1, s2, s3

=============================================================================
