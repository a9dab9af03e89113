---------------------------- MODULE SpoolPromise ----------------------------
(***************************************************************************)
(* The spool writer implements the promised log: the complete lines of the *)
(* file as processes see it are the log, what Append has reported durable  *)
(* are the accepted lines, and a host loss is a host loss: losses counts   *)
(* the steps of HostLoss and of nothing else.                              *)
(***************************************************************************)
EXTENDS SpoolWriter

Promised == INSTANCE PromisedLog
              WITH log <- Complete(cache), accepted <- acked, losses <- losses

\* Whatever handles do, wherever they fail or die, and whatever of the file
\* reaches the disk, callers and readers of the spool see a promised log.
\* Between two host losses lines appear whole, each a submitted record, one at
\* a time and at the end, and all of them keep their place; what Append reports
\* accepted is the last line of the file; and a host loss leaves every line
\* accepted in host-loss mode where it was.
KeepsPromise == Promised!Spec
=============================================================================
