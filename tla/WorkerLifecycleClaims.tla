----------------------- MODULE WorkerLifecycleClaims -----------------------
(***************************************************************************)
(* What the documentation says of an application's shutdown and the code   *)
(* does not do.                                                            *)
(***************************************************************************)
EXTENDS WorkerLifecycle

(* interfaces/register-queue-options.interface.ts:49, of the hook          *)
(* onApplicationShutdown: "Otherwise, the queue will be gracefully         *)
(* disconnected."  So nothing polls it when the hooks have run.            *)
(* The code: closing takes no start callback back.  One that is pending,   *)
(* the setImmediate or the 500 ms watchdog, starts the closed worker, for  *)
(* good.                                                                   *)
GracefullyDisconnected ==
  Stopped /\ immediate \union watchdog = {} => \A w \in made : ~isRunning[w]
=============================================================================
