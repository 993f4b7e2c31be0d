----------------------------- MODULE RunRegistry -----------------------------
(* The run directories under BFFI_RUNS_ROOT and the processes that share    *)
(* them: pipeline runs, `runs tag', `runs untag', `runs mark-complete' and  *)
(* `runs prune'.  Each directory holds a manifest, bffi-run.json, that is   *)
(* read, changed and replaced under a lock of one process only, and a file  *)
(* of stage events that is only appended to.                                *)
(*                                                                         *)
(* The root callback runs before every subcommand, so every process makes a *)
(* run directory of its own: a directory is named by the process that is    *)
(* its home, unless BFFI_DATA_DIR pins it to another's.                     *)
EXTENDS Integers, Sequences, FiniteSets, SequencesExt

CONSTANTS Procs,
          CommandsOf,   \* [Procs -> set of commands it may be given]
          StageNames,   \* stages of a pipeline run, in order
          MaxKills,     \* bound on processes killed
          None,
          Torn          \* a file that does not parse

\* What a process is given: the subcommand and its arguments, the directory
\* BFFI_DATA_DIR pins it to, if any, and whether it keeps a sidecar.
Commands ==
  LET homes == Procs \cup {None}
  IN [name : {"run", "list"}, home : homes, sidecar : BOOLEAN]
       \cup [name : {"tag", "untag"}, home : homes, sidecar : BOOLEAN, dir : Procs, tag : STRING]
       \cup [name : {"mark"}, home : homes, sidecar : BOOLEAN, dir : Procs, status : STRING]
       \cup [name : {"prune"}, home : homes, sidecar : BOOLEAN, statuses : SUBSET STRING,
             keepLast : Nat, keepTagged : BOOLEAN]

\* What the runner stamps, and what mark-complete is given.
Statuses == {"running", "completed"} \cup STRING

Manifests == [started : Nat, status : Statuses, observed : SUBSET STRING, completed : SUBSET STRING,
              tags : SUBSET STRING]

ASSUME RunRegistryAssumption ==
  /\ StageNames \in Seq(STRING) /\ IsFiniteSet(Procs)
  /\ \A p \in Procs : CommandsOf[p] \subseteq Commands
  /\ None # Torn /\ {None, Torn} \cap Manifests = {}
  /\ None \notin Commands /\ None \notin Procs /\ None \notin STRING \cup {"tmp", "manifest", "gone", "usage"}

VARIABLES manifest, tmp, lines,    \* per directory: bffi-run.json, its .tmp, the events
          births,                  \* initial manifests written so far
          cmd, jobs, exit,         \* per process: its command, what is left of it, its atexit hook
          step, held, fd,          \* where it is in a replacement, with what, into which file
          raised,                  \* what its command raised
          kills,                   \* bound
          contended, pruned, marked, tagged   \* history, for the properties

files   == <<manifest, tmp>>
where   == <<step, held, fd>>
history == <<pruned, marked, tagged>>
vars == <<files, lines, births, cmd, jobs, exit, where, raised, kills, contended, history>>

Readable(m) == m # None /\ m # Torn
Home(p) == IF cmd[p].home = None THEN p ELSE cmd[p].home
Job(do, dir, arg) == [do |-> do, dir |-> dir, arg |-> arg]

Init ==
  /\ manifest = [d \in Procs |-> None] /\ tmp = [d \in Procs |-> None]
  /\ lines = [d \in Procs |-> <<>>] /\ births = 0
  /\ cmd = [p \in Procs |-> None] /\ jobs = [p \in Procs |-> <<>>]
  /\ exit = [p \in Procs |-> <<>>]
  /\ step = [p \in Procs |-> "ready"] /\ held = [p \in Procs |-> None]
  /\ fd = [p \in Procs |-> None]
  /\ raised = [p \in Procs |-> None] /\ kills = 0
  /\ contended = {} /\ pruned = {} /\ marked = {} /\ tagged = {}

-----------------------------------------------------------------------------
(* What a command does, as a sequence of jobs.                              *)

\* Slip: the manifest hears of the end before the events do.
EmittingManifestFirst(d, s) ==
  <<Job("work", d, s), Job("line", d, <<s, "start">>), Job("observed", d, s), Job("work", d, s),
    Job("completed", d, s), Job("line", d, <<s, "end">>), Job("work", d, s)>>

\* StageEventEmitter.emit: the line first, then, outside the emitter's lock,
\* the manifest.  A child process (m5) does the same with its parent's paths
\* while the parent waits for it.  Every stage has work before its start line
\* and after its end line: m5 looks for the candidates there.
Emitting(d, s) ==
  <<Job("work", d, s), Job("line", d, <<s, "start">>), Job("observed", d, s), Job("work", d, s),
    Job("line", d, <<s, "end">>), Job("completed", d, s), Job("work", d, s)>>

\* _dispatch_cataloguer_bundle emits nothing of its own.
QuietStages == {"cataloguer-bundle"}

\* What a stage may turn out to do: left out with one line by the operator, or
\* by marc-roundtrip without input; before load, Fuseki is cleared and the
\* manifest told so.  Without a sidecar no stage has an event.
StageJobs(d, s, sidecar) ==
  LET work   == <<Job("work", d, s)>>
      clears == IF s = "load" THEN {<<>>, work \o <<Job("clear", d, s)>>} ELSE {<<>>}
      own    == IF sidecar /\ s \notin QuietStages THEN Emitting(d, s) ELSE work
  IN {c \o own : c \in clears}
       \cup (IF sidecar THEN {<<Job("line", d, <<s, "skipped">>)>>} ELSE {})

\* run_pipeline: the plan is checked, then announced, then its stages are
\* dispatched one by one.
PipelineJobs(home, sidecar) ==
  <<Job("check", home, None)>>
    \o (IF sidecar THEN <<Job("line", home, <<"pipeline", "plan">>)>> ELSE <<>>)
    \o [i \in 1 .. Len(StageNames) |-> Job("stage", home, StageNames[i])]

JobsOf(c, home) ==
  CASE c.name = "run"   -> PipelineJobs(home, c.sidecar)
    [] c.name = "tag"   -> <<Job("tag", c.dir, c.tag)>>
    [] c.name = "untag" -> <<Job("untag", c.dir, c.tag)>>
    [] c.name = "mark"  -> <<Job("status", c.dir, c.status)>>
    [] c.name = "prune" -> <<Job("select", home, c)>>
    [] OTHER            -> <<>>                          \* runs list, status, ...

\* _init_observability: the callback writes the initial manifest before the
\* subcommand starts, except where the sidecar is switched off.
Start(p, c) ==
  /\ cmd[p] = None
  /\ cmd' = [cmd EXCEPT ![p] = c]
  /\ LET home == IF c.home = None THEN p ELSE c.home
     IN jobs' = [jobs EXCEPT ![p] =
                   (IF c.sidecar THEN <<Job("write", home, None)>> ELSE <<>>) \o JobsOf(c, home)]
  /\ UNCHANGED <<files, lines, births, exit, where, raised, kills, history>>

Doing(p, do) == step[p] = "ready" /\ jobs[p] # <<>> /\ Head(jobs[p]).do = do

\* The job is done; after the last one the atexit hook runs.
Advance(p) ==
  /\ jobs' = [jobs EXCEPT ![p] = IF Len(@) > 1 THEN Tail(@) ELSE exit[p]]
  /\ exit' = [exit EXCEPT ![p] = IF Len(jobs[p]) > 1 THEN @ ELSE <<>>]

\* Slip: the exception leaves the loop without a failed line.
RaiseSilently(p, why) ==
  /\ jobs' = [jobs EXCEPT ![p] = exit[p]] /\ exit' = [exit EXCEPT ![p] = <<>>]
  /\ raised' = [raised EXCEPT ![p] = why]

\* The job raises: inside a stage _run_stages emits "failed", before the
\* stages nobody does; the process ends, by way of its atexit hook.
Raise(p, why) ==
  LET j == Head(jobs[p])
      inStage == exit[p] # <<>> /\ j.do \in {"observed", "work", "completed", "clear"}
  IN /\ jobs' = [jobs EXCEPT ![p] =
                   (IF inStage THEN <<Job("line", j.dir, <<j.arg, "failed">>)>> ELSE <<>>) \o exit[p]]
     /\ exit' = [exit EXCEPT ![p] = <<>>]
     /\ raised' = [raised EXCEPT ![p] = why]

-----------------------------------------------------------------------------
(* Reading and replacing a manifest: read, open the .tmp beside it (which   *)
(* truncates it), write, rename.  The name of the .tmp is the same in every *)
(* process.                                                                *)

Replacing(p, payload) ==
  /\ step' = [step EXCEPT ![p] = "open"] /\ held' = [held EXCEPT ![p] = payload]
  /\ UNCHANGED <<jobs, exit, raised>>

\* write_initial_manifest: no look at what is there.
WriteInitial(p) ==
  /\ Doing(p, "write")
  /\ births' = births + 1
  /\ Replacing(p, [started |-> births, status |-> "running", observed |-> {},
                   completed |-> {}, tags |-> {}])
  /\ UNCHANGED <<files, lines, cmd, fd, kills, history>>

\* Slip: the manifest is rebuilt with its defaults when its status is set.
UpdatedRebuilt(m, j) ==
  CASE j.do = "observed"  -> [m EXCEPT !.observed = @ \cup {j.arg}]
    [] j.do = "completed" -> [m EXCEPT !.completed = @ \cup {j.arg}]
    [] j.do = "status"    -> [m EXCEPT !.status = j.arg, !.tags = {}]
    [] j.do = "tags"      -> [m EXCEPT !.tags = j.arg]
    [] j.do = "clear"     -> m

\* append_stage_observed, append_stage_completed, update_manifest_field; what
\* was cleared is a field of its own, which nothing here reads.
Updated(m, j) ==
  CASE j.do = "observed"  -> [m EXCEPT !.observed = @ \cup {j.arg}]
    [] j.do = "completed" -> [m EXCEPT !.completed = @ \cup {j.arg}]
    [] j.do = "status"    -> [m EXCEPT !.status = j.arg]
    [] j.do = "tags"      -> [m EXCEPT !.tags = j.arg]
    [] j.do = "clear"     -> m

Updates == {"observed", "completed", "status", "tags", "clear"}

\* Slip: a manifest that is no longer "running" is refused.
ReadForUpdateOfRunning(p) ==
  /\ \E do \in Updates : Doing(p, do)
  /\ LET j == Head(jobs[p])
         m == manifest[j.dir]
     IN \/ m = Torn /\ Raise(p, "manifest") /\ UNCHANGED where
        \/ m = None /\ Advance(p) /\ UNCHANGED <<where, raised>>
        \/ Readable(m) /\ m.status = "running" /\ Replacing(p, Updated(m, j)) /\ UNCHANGED fd
        \/ Readable(m) /\ m.status # "running" /\ Raise(p, "manifest") /\ UNCHANGED where
  /\ UNCHANGED <<files, lines, births, cmd, kills, history>>

\* No file, nothing to do; an append of what is there writes nothing.
ReadForUpdate(p) ==
  /\ \E do \in Updates : Doing(p, do)
  /\ LET j == Head(jobs[p])
         m == manifest[j.dir]
     IN \/ m = Torn /\ Raise(p, "manifest") /\ UNCHANGED where
        \/ /\ m = None \/ (j.do \in {"observed", "completed"} /\ Readable(m) /\ Updated(m, j) = m)
           /\ Advance(p) /\ UNCHANGED <<where, raised>>
        \/ /\ Readable(m) /\ (j.do \in {"status", "tags", "clear"} \/ Updated(m, j) # m)
           /\ Replacing(p, Updated(m, j)) /\ UNCHANGED fd
  /\ UNCHANGED <<files, lines, births, cmd, kills, history>>

Target(p) == Head(jobs[p]).dir

OpenTmp(p) ==
  /\ step[p] = "open"
  /\ tmp' = [tmp EXCEPT ![Target(p)] = Torn]
  /\ step' = [step EXCEPT ![p] = "fill"] /\ fd' = [fd EXCEPT ![p] = "tmp"]
  /\ UNCHANGED <<manifest, lines, births, cmd, jobs, exit, held, raised, kills, history>>

\* The bytes go to the file that was opened, wherever it is by now; over
\* another process's bytes they may leave a tail of those.
Filled(old, new) == IF old = Torn THEN {new} ELSE {new, Torn}
FillTmp(p) ==
  /\ step[p] = "fill"
  /\ LET d == Target(p)
     IN CASE fd[p] = "tmp" -> /\ \E t \in Filled(tmp[d], held[p]) : tmp' = [tmp EXCEPT ![d] = t]
                              /\ UNCHANGED manifest
          [] fd[p] = "manifest" -> /\ \E t \in Filled(manifest[d], held[p]) :
                                        manifest' = [manifest EXCEPT ![d] = t]
                                   /\ UNCHANGED tmp
          [] OTHER -> UNCHANGED files
  /\ step' = [step EXCEPT ![p] = "replace"]
  /\ UNCHANGED <<lines, births, cmd, jobs, exit, held, fd, raised, kills, history>>

\* os.replace; the hook is registered once the initial manifest is in place.
HookOf(p) == <<Job("status", Home(p), "completed")>>

\* A tag the command has reported, and not taken back.
TagsAfter(p) ==
  LET j == Head(jobs[p])
  IN IF j.do # "tags" THEN tagged
     ELSE IF cmd[p].name = "tag" THEN tagged \cup {j.dir}
     ELSE IF j.arg = {} THEN tagged \ {j.dir} ELSE tagged

ReplaceTmp(p) ==
  /\ step[p] = "replace"
  /\ LET d == Target(p)
         done == [q \in Procs |->
                    IF q = p THEN None
                    ELSE IF fd[q] = None \/ jobs[q] = <<>> THEN fd[q]
                    ELSE IF Target(q) # d THEN fd[q]
                    ELSE IF fd[q] = "tmp" THEN "manifest" ELSE "gone"]
     IN \/ /\ tmp[d] = None                              \* FileNotFoundError
           /\ Raise(p, "manifest") /\ fd' = [fd EXCEPT ![p] = None]
           /\ UNCHANGED <<files, history>>
        \/ /\ tmp[d] # None
           /\ manifest' = [manifest EXCEPT ![d] = tmp[d]] /\ tmp' = [tmp EXCEPT ![d] = None]
           /\ fd' = done
           /\ IF Head(jobs[p]).do = "write"
              THEN /\ exit' = [exit EXCEPT ![p] = IF Len(jobs[p]) > 1 THEN HookOf(p) ELSE <<>>]
                   /\ jobs' = [jobs EXCEPT ![p] = IF Len(@) > 1 THEN Tail(@) ELSE HookOf(p)]
              ELSE Advance(p)
           /\ marked' = IF Head(jobs[p]).do = "status" /\ cmd[p].name # "run"
                        THEN marked \cup {d} ELSE marked
           /\ tagged' = TagsAfter(p)
           /\ UNCHANGED <<raised, pruned>>
  /\ step' = [step EXCEPT ![p] = "ready"] /\ held' = [held EXCEPT ![p] = None]
  /\ UNCHANGED <<lines, births, cmd, kills>>

-----------------------------------------------------------------------------
(* Stages and their events.                                                *)

\* run_pipeline refuses a --from-stage that is not among the stages, and m2
\* without input; typer refuses the command line.  The hook is on by then.
Check(p) ==
  /\ Doing(p, "check")
  /\ (Advance(p) /\ UNCHANGED raised) \/ Raise(p, "usage")
  /\ UNCHANGED <<files, lines, births, cmd, where, kills, history>>

Dispatch(p) ==
  /\ Doing(p, "stage")
  /\ \E todo \in StageJobs(Target(p), Head(jobs[p]).arg, cmd[p].sidecar) :
       jobs' = [jobs EXCEPT ![p] = todo \o Tail(@)]
  /\ UNCHANGED <<files, lines, births, cmd, exit, where, raised, kills, history>>

AppendLine(p) ==
  /\ Doing(p, "line")
  /\ lines' = [lines EXCEPT ![Target(p)] = Append(@, Head(jobs[p]).arg)]
  /\ Advance(p)
  /\ UNCHANGED <<files, births, cmd, where, raised, kills, history>>

\* A stage's own work, in this process or in its m5 child, which may fail,
\* be interrupted or exit with a status.
Work(p) ==
  /\ Doing(p, "work")
  /\ (Advance(p) /\ UNCHANGED raised) \/ Raise(p, "work")
  /\ UNCHANGED <<files, lines, births, cmd, where, kills, history>>

-----------------------------------------------------------------------------
(* Tags: read before the lock is taken, and written back as a whole.       *)

ReadTags(p) ==
  /\ Doing(p, "tag") \/ Doing(p, "untag")
  /\ LET j == Head(jobs[p])
         m == manifest[j.dir]
         new == IF j.do = "tag" THEN m.tags \cup {j.arg} ELSE m.tags \ {j.arg}
     IN \/ ~Readable(m) /\ Raise(p, "manifest")
        \/ Readable(m) /\ new = m.tags /\ Advance(p) /\ UNCHANGED raised
        \/ /\ Readable(m) /\ new # m.tags
           /\ jobs' = [jobs EXCEPT ![p] = <<Job("tags", j.dir, new)>> \o Tail(@)]
           /\ UNCHANGED <<exit, raised>>
  /\ UNCHANGED <<files, lines, births, cmd, where, kills, history>>

-----------------------------------------------------------------------------
(* Pruning: one look at every manifest, then one directory after the other. *)

\* select_for_pruning: the runs that match every filter, less the newest of
\* all runs and the tagged ones.
Newest(runs, n) ==
  {d \in runs : Cardinality({e \in runs : manifest[e].started > manifest[d].started}) < n}
Selected(c) ==
  LET runs == {d \in Procs : Readable(manifest[d])}
  IN {d \in runs : c.statuses = {} \/ manifest[d].status \in c.statuses}
       \ (Newest(runs, c.keepLast) \cup {d \in runs : c.keepTagged /\ manifest[d].tags # {}})

\* --apply without a filter is refused before anything is read.
HasFilter(c) == c.statuses # {} \/ c.keepLast > 0 \/ c.keepTagged
Select(p) ==
  /\ Doing(p, "select")
  /\ LET c == Head(jobs[p]).arg
         victims == SetToSeq(Selected(c))
     IN IF ~HasFilter(c) \/ victims = <<>>
        THEN Advance(p)
        ELSE /\ jobs' = [jobs EXCEPT ![p] =
                           [i \in DOMAIN victims |-> Job("delete", victims[i], c)] \o Tail(@)]
             /\ UNCHANGED exit
  /\ UNCHANGED <<files, lines, births, cmd, where, raised, kills, history>>

\* shutil.rmtree: what other processes have open there is gone for everyone
\* else; what they create there afterwards makes the directory anew.
Delete(p) ==
  /\ Doing(p, "delete")
  /\ LET d == Target(p)
     IN /\ manifest' = [manifest EXCEPT ![d] = None] /\ tmp' = [tmp EXCEPT ![d] = None]
        /\ lines' = [lines EXCEPT ![d] = <<>>]
        /\ fd' = [q \in Procs |-> IF fd[q] # None /\ jobs[q] # <<>> /\ Target(q) = d
                                  THEN "gone" ELSE fd[q]]
        /\ pruned' = pruned \cup {d} /\ tagged' = tagged \ {d}
  /\ Advance(p)
  /\ UNCHANGED <<births, cmd, step, held, raised, kills, marked>>

\* SIGKILL: no hook runs.
Kill(p) ==
  /\ jobs[p] # <<>> /\ kills < MaxKills
  /\ kills' = kills + 1
  /\ jobs' = [jobs EXCEPT ![p] = <<>>] /\ exit' = [exit EXCEPT ![p] = <<>>]
  /\ step' = [step EXCEPT ![p] = "ready"] /\ held' = [held EXCEPT ![p] = None]
  /\ fd' = [fd EXCEPT ![p] = None]
  /\ UNCHANGED <<files, lines, births, cmd, raised, history>>

-----------------------------------------------------------------------------
\* Process p has a copy of d's manifest that it will write back, or is about
\* to write one over whatever is there.
Holding(p, d) ==
  /\ jobs[p] # <<>> /\ Target(p) = d
  /\ step[p] # "ready" \/ Head(jobs[p]).do = "tags"
Overwriting(p, d) == Holding(p, d) /\ Head(jobs[p]).do = "write" /\ manifest[d] # None

Contention ==
  contended' = contended \cup
    {d \in Procs : \/ \E p, q \in Procs : p # q /\ Holding(p, d)' /\ Holding(q, d)'
                   \/ \E p \in Procs : Overwriting(p, d)'}

ProcStep(p) ==
  \/ WriteInitial(p) \/ ReadForUpdate(p) \/ OpenTmp(p) \/ FillTmp(p) \/ ReplaceTmp(p)
  \/ Check(p) \/ Dispatch(p) \/ AppendLine(p) \/ Work(p) \/ ReadTags(p) \/ Select(p) \/ Delete(p)

Next ==
  /\ \E p \in Procs : (\E c \in CommandsOf[p] : Start(p, c)) \/ ProcStep(p) \/ Kill(p)
  /\ Contention

Spec == Init /\ [][Next]_vars

-----------------------------------------------------------------------------
(* Properties.                                                             *)

\* What an event line is about, the run or a stage, and what it says of it.
EventLines == ({"pipeline"} \cup STRING) \X {"plan", "start", "end", "skipped", "failed"}

\* A job and its argument.
Jobs ==
  [do : {"write", "check"}, dir : Procs, arg : {None}]
    \cup [do : {"line"}, dir : Procs, arg : EventLines]
    \cup [do : {"stage", "observed", "work", "completed", "clear", "tag", "untag"}, dir : Procs, arg : STRING]
    \cup [do : {"status"}, dir : Procs, arg : Statuses]
    \cup [do : {"tags"}, dir : Procs, arg : SUBSET STRING]
    \cup [do : {"select", "delete"}, dir : Procs, arg : Commands]

\* Types of the files of the run directories and of the processes.
TypeOK ==
  /\ manifest \in [Procs -> Manifests \cup {None, Torn}]
  /\ tmp \in [Procs -> Manifests \cup {None, Torn}]
  /\ lines \in [Procs -> Seq(EventLines)]
  /\ births \in Nat /\ kills \in Nat
  /\ cmd \in [Procs -> Commands \cup {None}]
  /\ jobs \in [Procs -> Seq(Jobs)] /\ exit \in [Procs -> Seq(Jobs)]
  /\ step \in [Procs -> {"ready", "open", "fill", "replace"}]
  /\ held \in [Procs -> Manifests \cup {None}]
  /\ fd \in [Procs -> {None, "tmp", "manifest", "gone"}]
  /\ raised \in [Procs -> {None, "manifest", "work", "usage"}]
  /\ contended \cup pruned \cup marked \cup tagged \subseteq Procs

Ends(d) == {s \in ToSet(StageNames) : <<s, "end">> \in ToSet(lines[d])}

\* The manifest and the events of a run tell the same story: a stage listed
\* as completed has its end line; an end line the manifest does not know of
\* is the last one, its update is on the way or died with its process, or
\* two processes had the manifest at once.  A torn manifest is of that too.
ManifestFollowsEvents ==
  \A d \in Procs \ pruned :
    /\ Readable(manifest[d]) => manifest[d].completed \subseteq Ends(d)
    /\ d \notin contended =>
         /\ manifest[d] # Torn
         /\ \A s \in Ends(d) : s \notin manifest[d].completed => Last(lines[d]) = <<s, "end">>

\* Prune with --keep-tagged takes no run whose tag was reported as added,
\* unless another process had the manifest while the tag was written.
TaggedRunsKept ==
  [][\A p \in Procs : Select(p) /\ Head(jobs[p]).arg.keepTagged =>
       \A j \in ToSet(jobs'[p]) : j.do = "delete" => j.dir \notin tagged \ contended]_vars

\* A pipeline run is ended by its own work, and by its manifest only where
\* another process had it at the same time or removed its directory.
RunsFailOfTheirOwn ==
  \A p \in Procs : (raised[p] = "manifest" /\ cmd[p].name = "run") =>
    Home(p) \in contended \cup pruned

\* A run that keeps a sidecar and was refused before its first stage.
Refused(p) == cmd[p] # None /\ cmd[p].name = "run" /\ cmd[p].sidecar /\ raised[p] = "usage"

Accounted(d, s) == s \in QuietStages \/ \E k \in {"end", "skipped"} : <<s, k>> \in ToSet(lines[d])

\* The atexit hook stamps completed whatever has become of the run.  Where no
\* mark-complete and no other command stamped it, the events tell which: every
\* stage that emits has ended or was left out, one has failed, or the run was
\* refused and there is no event at all.
StampExplained ==
  \A d \in Procs \ (contended \cup pruned \cup marked) :
    Readable(manifest[d]) /\ manifest[d].status = "completed"
    => \/ \A s \in ToSet(StageNames) : Accounted(d, s)
       \/ \E s \in ToSet(StageNames) : <<s, "failed">> \in ToSet(lines[d])
       \/ lines[d] = <<>> /\ \E p \in Procs : Refused(p) /\ Home(p) = d
=============================================================================
