------------------------------ MODULE EventTail ------------------------------
(* The metrics exporter and the files it follows: stage-events.jsonl and     *)
(* bibframe/_errors.jsonl, which runs append to.  The exporter replays a     *)
(* file when it attaches to it and then polls it for what was appended;      *)
(* `bffi-pipeline status' parses the event file from the start every time;   *)
(* `runs prune' removes both with their directory, and may terminate the     *)
(* exporter and start another.                                              *)
EXTENDS Naturals, Sequences, FiniteSets, FiniteSetsExt

CONSTANTS Script,       \* the rows a run writes: sequence of [event, n]
          MaxErrors,    \* bound on rows of _errors.jsonl, all of one size
          MaxRemovals,  \* bound on removals of the directory
          MaxDeaths,    \* bound on writers killed
          MaxLaunches   \* bound on exporters started

Events == {"plan", "start", "progress", "watchdog", "failed", "end", "health"}
ASSUME EventTailAssumption ==
  Script \in Seq([event : Events, n : Nat]) /\ MaxErrors \in Nat

VARIABLES sidecar,      \* sequence of chunks [row, part]; what one write left
          next, half,   \* the writer: next row of Script, and whether half of it is out
          errors, errorsOut,                     \* error rows in the file, and written ever
          exporter,     \* "down" | "replay" | "stat" | "errors" | "bind" | "up" | "read"
          pos, errPos, registry, seen, seenErrors,   \* the exporter's state
          pidFile, argvFile, lingering, reset,   \* process control
          gap, removed, removals, deaths, launches   \* history and bounds

writer == <<next, half, errorsOut>>
data   == <<sidecar, errors>>
tail   == <<pos, errPos, registry, seen, seenErrors>>
control == <<pidFile, argvFile, lingering, reset>>
bounds == <<removals, deaths, launches>>
vars == <<writer, data, exporter, tail, control, gap, removed, bounds>>

EmptyRegistry == [planned |-> FALSE, total |-> 0, processed |-> 0, watchdog |-> 0,
                  failed |-> FALSE, ended |-> FALSE]
Nothing == [i \in 1 .. Len(Script) |-> 0]
NoErrors == [i \in 1 .. MaxErrors |-> 0]

Init ==
  /\ sidecar = <<>> /\ next = 1 /\ half = FALSE
  /\ errors = <<>> /\ errorsOut = 0
  /\ exporter = "down" /\ pos = 0 /\ errPos = 0
  /\ registry = EmptyRegistry /\ seen = Nothing /\ seenErrors = NoErrors
  /\ pidFile = "none" /\ argvFile = FALSE /\ lingering = FALSE /\ reset = "idle"
  /\ gap = {} /\ removed = FALSE /\ removals = 0 /\ deaths = 0 /\ launches = 0

-----------------------------------------------------------------------------
(* Parsing.  A line is terminated by its last part; what is left of a line   *)
(* cut short is glued to the next one.                                      *)

Terminated(c) == c.part # "first"
StartsLine(chunks, k) == k = 1 \/ Terminated(chunks[k - 1])
Parses(chunks, k) ==
  \/ chunks[k].part = "whole" /\ StartsLine(chunks, k)
  \/ /\ chunks[k].part = "rest" /\ k > 1
     /\ chunks[k - 1] = [row |-> chunks[k].row, part |-> "first"]
     /\ StartsLine(chunks, k - 1)

\* parse_sidecar: the lines that parse.
Parsed(chunks) == {k \in DOMAIN chunks : Parses(chunks, k)}
Rows(chunks) == {chunks[k].row : k \in Parsed(chunks)}

\* Slip: progress is added up.
ApplyEventAdds(reg, row) ==
  CASE row.event = "progress" -> [reg EXCEPT !.processed = @ + row.n]
    [] row.event = "watchdog" -> [reg EXCEPT !.watchdog = @ + 1]
    [] row.event = "end"      -> [reg EXCEPT !.ended = TRUE]
    [] OTHER                  -> reg

\* apply_event: gauges are set, the watchdog counter is incremented.
ApplyEvent(reg, row) ==
  CASE row.event = "plan"     -> [reg EXCEPT !.planned = TRUE]
    [] row.event = "start"    -> [reg EXCEPT !.total = row.n]
    [] row.event = "progress" -> [reg EXCEPT !.processed = row.n]
    [] row.event = "watchdog" -> [reg EXCEPT !.watchdog = @ + 1]
    [] row.event = "failed"   -> [reg EXCEPT !.failed = TRUE]
    [] row.event = "end"      -> [reg EXCEPT !.ended = TRUE]
    [] OTHER                  -> reg

\* Line after line, in the order of the file.
Applied(reg, chunks) ==
  LET after[k \in 0 .. Len(chunks)] ==
        IF k = 0 THEN reg
        ELSE IF Parses(chunks, k) THEN ApplyEvent(after[k - 1], Script[chunks[k].row])
        ELSE after[k - 1]
  IN after[Len(chunks)]

Counted(count, row, lines) == [i \in DOMAIN count |-> count[i] + Cardinality({k \in lines : row[k] = i})]

\* collate: what `status' makes of the whole file.
Collate(chunks) ==
  LET of(e) == {k \in Parsed(chunks) : Script[chunks[k].row].event = e}
  IN [processed |-> IF of("progress") = {} THEN 0 ELSE Script[chunks[Max(of("progress"))].row].n,
      watchdog  |-> Cardinality(of("watchdog")),
      ended     |-> of("end") # {}]

-----------------------------------------------------------------------------
(* The run.                                                                *)

Emit(part) ==
  /\ sidecar' = Append(sidecar, [row |-> next, part |-> part])
  /\ UNCHANGED <<errors, errorsOut, exporter, tail, control, gap, removed, bounds>>

\* One write, or two where the buffer is flushed in between.
EmitLine ==
  /\ next <= Len(Script) /\ ~half
  /\ \/ Emit("whole") /\ next' = next + 1 /\ UNCHANGED half
     \/ Emit("first") /\ half' = TRUE /\ UNCHANGED next
EmitRest == half /\ Emit("rest") /\ half' = FALSE /\ next' = next + 1

\* Killed inside a write; a process started on the same directory goes on.
WriterDies ==
  /\ half /\ deaths < MaxDeaths
  /\ deaths' = deaths + 1 /\ half' = FALSE /\ next' = next + 1
  /\ UNCHANGED <<data, errorsOut, exporter, tail, control, gap, removed, removals, launches>>

EmitError ==
  /\ errorsOut < MaxErrors
  /\ errorsOut' = errorsOut + 1 /\ errors' = Append(errors, errorsOut + 1)
  /\ UNCHANGED <<sidecar, next, half, exporter, tail, control, gap, removed, bounds>>

\* The run directory is pruned; a run that is still on writes new files.
RemoveFiles ==
  /\ sidecar # <<>> \/ errors # <<>>
  /\ ~half /\ removals < MaxRemovals
  /\ removals' = removals + 1 /\ sidecar' = <<>> /\ errors' = <<>> /\ removed' = TRUE
  /\ UNCHANGED <<writer, exporter, tail, control, gap, deaths, launches>>

-----------------------------------------------------------------------------
(* serve: attach to the file, bind the port, write the pid files, poll.      *)

Begin ==
  /\ exporter = "down" /\ launches < MaxLaunches
  /\ launches' = launches + 1 /\ exporter' = "replay"
  /\ pos' = 0 /\ errPos' = 0 /\ registry' = EmptyRegistry
  /\ seen' = Nothing /\ seenErrors' = NoErrors /\ gap' = {} /\ removed' = FALSE

\* `bffi-pipeline serve-metrics', by hand.
Launch ==
  /\ reset = "idle" /\ Begin
  /\ UNCHANGED <<writer, data, control, removals, deaths>>

Apply(chunks) ==
  /\ registry' = Applied(registry, chunks)
  /\ seen' = Counted(seen, [k \in DOMAIN chunks |-> chunks[k].row], Parsed(chunks))

\* rehydrate, of as many chunks as `pos' notes until the next step.
Replay ==
  /\ exporter = "replay"
  /\ Apply(sidecar)
  /\ pos' = Len(sidecar) /\ exporter' = "stat"
  /\ UNCHANGED <<writer, data, errPos, seenErrors, control, gap, removed, bounds>>

\* Slip: the tail starts at the beginning of the file.
StatFromStart ==
  /\ exporter = "stat"
  /\ pos' = 0 /\ gap' = {} /\ exporter' = "errors"
  /\ UNCHANGED <<writer, data, errPos, registry, seen, seenErrors, control, removed, bounds>>

\* The tail starts at the size the file has now, not at the size replayed.
Stat ==
  /\ exporter = "stat"
  /\ pos' = Len(sidecar)
  /\ gap' = pos + 1 .. Len(sidecar)
  /\ exporter' = "errors"
  /\ UNCHANGED <<writer, data, errPos, registry, seen, seenErrors, control, removed, bounds>>

\* A file shorter than what was read of it was replaced: from the start.
From(p, size) == IF size < p THEN 0 ELSE p

\* _tail_error_step, at once: nothing there leaves the position.
ErrorsRead ==
  LET from == From(errPos, Len(errors))
      rows == SubSeq(errors, from + 1, Len(errors))
  IN IF errors = <<>> THEN UNCHANGED <<errPos, seenErrors>>
     ELSE errPos' = Len(errors) /\ seenErrors' = Counted(seenErrors, rows, DOMAIN rows)

ReplayErrors ==
  /\ exporter = "errors"
  /\ ErrorsRead
  /\ exporter' = "bind"
  /\ UNCHANGED <<writer, data, pos, registry, seen, control, gap, removed, bounds>>

\* start_http_server raises while another exporter has the port; the pid
\* files are written after it.
Bind ==
  /\ exporter = "bind"
  /\ IF lingering
     THEN exporter' = "down" /\ UNCHANGED <<pidFile, argvFile>>
     ELSE exporter' = "up" /\ pidFile' = "live" /\ argvFile' = TRUE
  /\ UNCHANGED <<writer, data, tail, lingering, reset, gap, removed, bounds>>

\* Slip: a poll waits for more than one write.
PollStatLazy ==
  /\ exporter = "up" /\ sidecar # <<>>
  /\ pos' = From(pos, Len(sidecar))
  /\ exporter' = IF Len(sidecar) <= pos' + 1 THEN "up" ELSE "read"
  /\ UNCHANGED <<writer, data, errPos, registry, seen, seenErrors, control, gap, removed, bounds>>

\* _tail_step: the size first ...
PollStat ==
  /\ exporter = "up" /\ sidecar # <<>>
  /\ pos' = From(pos, Len(sidecar))
  /\ exporter' = IF Len(sidecar) = pos' THEN "up" ELSE "read"
  /\ UNCHANGED <<writer, data, errPos, registry, seen, seenErrors, control, gap, removed, bounds>>

\* Slip: the tail moves to the size it saw before it read.
PollReadFirstLine ==
  /\ exporter = "read" /\ sidecar # <<>>
  /\ Apply(SubSeq(sidecar, pos + 1, pos + 1))
  /\ pos' = Len(sidecar) /\ exporter' = "up"
  /\ UNCHANGED <<writer, data, errPos, seenErrors, control, gap, removed, bounds>>

\* ... then everything from the position to the end, half a line included; a
\* file removed in between raises out of serve, whose exit removes the pid files.
PollRead ==
  /\ exporter = "read"
  /\ \/ /\ sidecar # <<>>
        /\ Apply(SubSeq(sidecar, pos + 1, Len(sidecar)))
        /\ pos' = IF pos > Len(sidecar) THEN pos ELSE Len(sidecar)
        /\ exporter' = "up" /\ UNCHANGED <<pidFile, argvFile>>
     \/ /\ sidecar = <<>>
        /\ exporter' = "down" /\ pidFile' = "none" /\ argvFile' = FALSE
        /\ UNCHANGED <<pos, registry, seen>>
  /\ UNCHANGED <<writer, data, errPos, seenErrors, lingering, reset, gap, removed, bounds>>

PollErrors ==
  /\ exporter = "up"
  /\ ErrorsRead
  /\ UNCHANGED <<writer, data, exporter, pos, registry, seen, control, gap, removed, bounds>>

-----------------------------------------------------------------------------
(* `runs prune --reset-exporter'.                                           *)

\* No pid file, no reset; the file of a process that is gone is removed.
ResetBegin ==
  /\ reset = "idle" /\ removals > 0 /\ pidFile # "none"
  /\ IF pidFile = "live" THEN reset' = "term" /\ UNCHANGED pidFile
                         ELSE pidFile' = "none" /\ UNCHANGED reset
  /\ UNCHANGED <<writer, data, exporter, tail, argvFile, lingering, gap, removed, bounds>>

\* SIGTERM ends the interpreter without its exit hooks: the pid files stay.
\* The process may take longer than the wait.
Terminate ==
  /\ reset = "term"
  /\ IF pidFile = "live"
     THEN /\ exporter' = "down" /\ lingering' \in BOOLEAN
          /\ pidFile' = "stale" /\ reset' = "wait"
     ELSE reset' = "idle" /\ UNCHANGED <<exporter, lingering, pidFile>>
  /\ UNCHANGED <<writer, data, tail, argvFile, gap, removed, bounds>>

Exits == lingering /\ lingering' = FALSE
         /\ UNCHANGED <<writer, data, exporter, tail, pidFile, argvFile, reset, gap, removed, bounds>>

\* After the wait, with what argv file there is.
Relaunch ==
  /\ reset = "wait"
  /\ reset' = "idle"
  /\ IF argvFile THEN Begin ELSE UNCHANGED <<exporter, tail, gap, removed, launches>>
  /\ UNCHANGED <<writer, data, pidFile, argvFile, lingering, removals, deaths>>

-----------------------------------------------------------------------------
Run == EmitLine \/ EmitRest \/ WriterDies \/ EmitError \/ RemoveFiles
Serve == Replay \/ Stat \/ ReplayErrors \/ Bind \/ PollRead
Next == Run \/ Launch \/ Serve \/ PollStat \/ PollErrors
          \/ ResetBegin \/ Terminate \/ Exits \/ Relaunch

\* The exporter's loop runs; a reset runs to its end.
Spec == /\ Init /\ [][Next]_vars
        /\ WF_vars(Serve) /\ WF_vars(PollStat) /\ WF_vars(PollErrors)
        /\ WF_vars(Terminate) /\ WF_vars(Relaunch) /\ WF_vars(EmitRest)

-----------------------------------------------------------------------------
(* Properties.                                                             *)

\* Nothing is counted twice in one exporter's life, by replay and tail, over
\* replaced files and half lines: the counters that only add stay true.
CountedOnce ==
  /\ \A i \in DOMAIN seen : seen[i] <= 1
  /\ \A i \in DOMAIN seenErrors : seenErrors[i] <= 1

\* A line that parses, lies behind the tail's position and was not applied
\* came between the replay and the first stat, was written in two parts, or
\* is in a file that replaced the one attached to.
MissedExplained ==
  exporter \in {"up", "read"} /\ ~removed =>
    \A k \in 1 .. pos : Parses(sidecar, k) /\ seen[sidecar[k].row] = 0 =>
      k \in gap \/ sidecar[k].part = "rest"

\* The dashboard and `status', two readers of one file, agree whenever the
\* exporter has read all of it and applied exactly the lines that parse (it
\* also applies one glued to a half that an earlier poll took away).
DashboardAgrees ==
  LET applied == {i \in DOMAIN seen : seen[i] > 0}
  IN exporter = "up" /\ pos = Len(sidecar) /\ applied = Rows(sidecar) =>
       /\ registry.processed = Collate(sidecar).processed
       /\ registry.watchdog = Collate(sidecar).watchdog
       /\ registry.ended = Collate(sidecar).ended

\* What is written in one piece behind the tail's position reaches the
\* registry, unless the exporter ends or the file is replaced.
LinesArrive ==
  \A i \in DOMAIN Script :
    (exporter = "up" /\ ~removed
       /\ \E k \in pos + 1 .. Len(sidecar) :
            sidecar[k].row = i /\ sidecar[k].part = "whole" /\ StartsLine(sidecar, k))
    ~> (seen[i] = 1 \/ exporter = "down" \/ removed)
=============================================================================
