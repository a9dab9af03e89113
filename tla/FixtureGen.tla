----------------------------- MODULE FixtureGen -----------------------------
(***************************************************************************)
(* internal/fixturegen: the corpus that overruns the pending-output cap,   *)
(* PendingOverflowStream, and the one that repeats itself,                 *)
(* DuplicateReplaySet.  An event is its sequence number; every event of a  *)
(* source is as long as the next.  The io.Writer is external: it takes a   *)
(* line, or some of it, possibly all, and reports an error.                *)
(***************************************************************************)
EXTENDS Integers, Sequences, SequencesExt

CONSTANTS
  PendingBytes,  \* the cap
  LineLengths,   \* how long the line of an event may be
  SetSizes       \* what callers pass to DuplicateReplaySet

ASSUME FixtureAssumption ==
  /\ PendingBytes \in Nat
  /\ LineLengths \subseteq Nat \ {0}
  /\ SetSizes \subseteq Int

VARIABLES
  call,        \* the generator that runs
  validSlug,   \* ValidateSlug accepts the source
  lineBytes,   \* the length of a line of the source
  size,        \* the argument of DuplicateReplaySet
  events,      \* the events written, or those of the round
  total,       \* the bytes PendingOverflowStream counts
  crossed,     \* the cap was exceeded before the last event
  round,       \* the round of DuplicateReplaySet
  reached,     \* history: the bytes that reached the writer
  output,      \* history: the events that reached it whole
  outcome      \* "running", "ok" or "error"

generateVars == <<call, validSlug, lineBytes, size, events, total, crossed, round,
          reached, output, outcome>>
arguments == <<call, validSlug, lineBytes, size>>

GenerateInit ==
  /\ call \in {"stream", "replay"} /\ validSlug \in BOOLEAN
  /\ lineBytes \in LineLengths /\ size \in SetSizes
  /\ events = 0 /\ total = 0 /\ crossed = FALSE /\ round = 0
  /\ reached = 0 /\ output = <<>>
  /\ outcome = "running"

\* The generator is past the checks of its arguments.
Writing(c) ==
  outcome = "running" /\ call = c /\ validSlug /\ (c = "replay" => size >= 0)

RefuseArguments ==
  /\ outcome = "running"
  /\ ~Writing(call)
  /\ outcome' = "error"
  /\ UNCHANGED <<arguments, events, total, crossed, round, reached, output>>

\* writeEvent: the whole line reaches the writer.
WriteEvent ==
  /\ reached' = reached + lineBytes
  /\ output' = Append(output, events)

\* writeEvent: n bytes reach it before an error.
WriteEventFails(n) ==
  /\ reached' = reached + n
  /\ output' = IF n = lineBytes THEN Append(output, events) ELSE output

\* Variant: reaching the cap counts as exceeding it.
ExceedsFull(n) == n >= PendingBytes

Exceeds(n) == n > PendingBytes

\* The event after the crossing is the last.
StreamEvent ==
  /\ Writing("stream")
  /\ WriteEvent
  /\ total' = total + lineBytes
  /\ events' = events + 1
  /\ crossed' = Exceeds(total')
  /\ outcome' = IF crossed THEN "ok" ELSE "running"
  /\ UNCHANGED <<arguments, round>>

\* Variant: a failed write counts for nothing.
CountedWhole(n) == 0

\* The bytes count before the error is read.
Counted(n) == n

StreamFails(n) ==
  /\ Writing("stream")
  /\ WriteEventFails(n)
  /\ total' = total + Counted(n)
  /\ outcome' = "error"
  /\ UNCHANGED <<arguments, events, crossed, round>>

ReplayEvent ==
  /\ Writing("replay") /\ round < 2 /\ events < size
  /\ WriteEvent
  /\ events' = events + 1
  /\ UNCHANGED <<arguments, total, crossed, round, outcome>>

ReplayFails(n) ==
  /\ Writing("replay") /\ round < 2 /\ events < size
  /\ WriteEventFails(n)
  /\ outcome' = "error"
  /\ UNCHANGED <<arguments, events, total, crossed, round>>

\* Variant: the second round goes on counting.
RoundContinues == events

RoundStart == 0

ReplayRound ==
  /\ Writing("replay") /\ round < 2 /\ events >= size
  /\ round' = round + 1 /\ events' = RoundStart
  /\ UNCHANGED <<arguments, total, crossed, reached, output, outcome>>

ReplayReturns ==
  /\ Writing("replay") /\ round = 2
  /\ outcome' = "ok"
  /\ UNCHANGED <<arguments, events, total, crossed, round, reached, output>>

Generate ==
  \/ RefuseArguments
  \/ StreamEvent \/ ReplayEvent \/ ReplayRound \/ ReplayReturns
  \/ \E n \in 0..lineBytes : StreamFails(n) \/ ReplayFails(n)

GenerateSpec == GenerateInit /\ [][Generate]_generateVars

-----------------------------------------------------------------------------
\* The stream overruns the cap by one event that has to be dropped and no more:
\* without its last event it is over the cap, without its last two it is not.
OverrunsByOne ==
  call = "stream" /\ outcome = "ok" =>
    /\ total - lineBytes > PendingBytes
    /\ total - 2 * lineBytes <= PendingBytes

\* Whenever PendingOverflowStream returns, total is what reached the writer,
\* a line cut short included, and events counts whole lines only.
Accounted ==
  call = "stream" /\ outcome # "running" =>
    /\ total = reached
    /\ events * lineBytes <= reached /\ reached <= (events + 1) * lineBytes
    /\ events <= Len(output)

\* The numbers 0 to n - 1.
Numbered(n) == [i \in 1..n |-> i - 1]

\* DuplicateReplaySet writes every event exactly twice, in the same order, and
\* a writer that fails has the beginning of that.
ReplaysInOrder ==
  call = "replay" =>
    /\ size >= 0 => IsPrefix(output, Numbered(size) \o Numbered(size))
    /\ outcome = "ok" => Len(output) = 2 * size
=============================================================================
