--------------------------- MODULE MCLocalWaiters ---------------------------
(***************************************************************************)
(* The instance of LocalWaiters: the option records of MCLocalDriver.      *)
(***************************************************************************)
EXTENDS LocalWaiters, MCLocalDriver
=============================================================================
