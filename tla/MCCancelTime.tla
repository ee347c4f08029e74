---------------------------- MODULE MCCancelTime ----------------------------
(* Instances of CancelTime for TLC.                                        *)
EXTENDS CancelTime
=============================================================================
