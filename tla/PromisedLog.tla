---------------------------- MODULE PromisedLog ----------------------------
(***************************************************************************)
(* What a spool promises the callers of Append and the readers of the      *)
(* file, without locks, caches, repairs or crashes of processes: a log of  *)
(* complete lines that only grows, by one submitted record at a time, and  *)
(* in which every line keeps its place.  Only a host loss takes lines      *)
(* back, all but the ones accepted in host-loss mode; host losses are      *)
(* counted so that no other step can pass for one.                         *)
(***************************************************************************)
EXTENDS SpoolFile

CONSTANT Inputs  \* what callers pass to Append

VARIABLES
  log,       \* the complete lines, as bytes
  accepted,  \* where each line reported accepted is, and the mode it was in
  losses     \* how many times the host has stopped

promiseVars == <<log, accepted, losses>>

Init == log = <<>> /\ accepted = {} /\ losses = 0

\* A line becomes complete.  Nothing is promised of it yet.
AddLine(record) ==
  /\ Framable(record)
  /\ log' = log \o Line(record)
  /\ UNCHANGED <<accepted, losses>>

\* The last line is reported accepted.
Accept(a) ==
  /\ FramedIn(a, log)
  /\ a.at + Len(a.line) - 1 = Len(log)
  /\ accepted' = accepted \cup {a}
  /\ UNCHANGED <<log, losses>>

\* The host stops.
LoseHost ==
  /\ losses' = losses + 1
  /\ accepted' = {a \in accepted : a.mode = HostLossMode}
  /\ log' \in Seq(Bytes) /\ AtBoundary(log')
  /\ \A a \in accepted' : FramedIn(a, log')

Next ==
  \/ \E record \in Inputs : AddLine(record)
  \/ \E a \in [at : 1..Len(log), line : {Line(r) : r \in Inputs}, mode : Modes] :
       Accept(a)
  \/ LoseHost

Spec == Init /\ [][Next]_promiseVars
=============================================================================
