------------------------- MODULE RunRegistryProofs -------------------------
(***************************************************************************)
(* Proofs about RunRegistry, for any processes, commands and stages.  What *)
(* is claimed of a directory is claimed while no two processes had its     *)
(* manifest at once; the invariant follows the one process that has it     *)
(* from its read to its rename, and the jobs that are left to it.          *)
(***************************************************************************)
EXTENDS RunRegistry, FiniteSetTheorems, TLAPS

Stages == ToSet(StageNames)

\* The job a process is at.
Does(p) == Head(jobs[p]).do

\* What a pipeline run does, and what of it names a stage, or is done in one.
InStage == {"observed", "work", "completed", "clear"}
OfStage == InStage \cup {"stage"}
OfRun == OfStage \cup {"check", "line"}

\* The program of a process, as far as it is left: a manifest is written first,
\* and what a stage does to its manifest follows its line.
JobOK(p, i) ==
  LET j == jobs[p][i]
  IN /\ j.do = "write" => i = 1 /\ cmd[p].sidecar /\ exit[p] = <<>> /\ j.dir = Home(p)
     /\ j.do \in {"select", "tag", "untag", "status"} => i = Len(jobs[p])
     /\ j.do \in OfRun => cmd[p].name = "run"
     /\ j.do \in {"line", "observed", "completed"} => cmd[p].sidecar
     /\ j.do \in OfStage => j.arg \in Stages
     /\ j.do = "tags" => i = 1 /\ cmd[p].name \in {"tag", "untag"} /\ (j.arg = {} => cmd[p].name = "untag")
     /\ j.do \in {"tag", "untag"} => cmd[p].name = j.do
     /\ cmd[p].name = "run" => /\ j.dir = Home(p)
                               /\ j.do \in OfRun \cup {"write", "status"}
                               /\ j.do = "status" => cmd[p].sidecar
     /\ j.do = "check" => i = 1 \/ jobs[p][i - 1].do = "write"
     /\ j.do = "completed" =>
          IF i = 1 THEN j.dir \in pruned \/ <<j.arg, "end">> \in ToSet(lines[j.dir])
          ELSE jobs[p][i - 1] = Job("line", j.dir, <<j.arg, "end">>)
     /\ j.do = "line" => /\ j.arg[2] # "plan" => j.arg[1] \in Stages
                         /\ j.arg[2] = "failed" => i = 1
                         /\ j.arg[2] = "end" => /\ i < Len(jobs[p])
                                                /\ jobs[p][i + 1] = Job("completed", j.dir, j.arg[1])

Program(p) ==
  /\ cmd[p] = None => jobs[p] = <<>> /\ exit[p] = <<>>
  /\ exit[p] # <<>> => cmd[p].sidecar /\ exit[p] = HookOf(p)
  /\ \A i \in DOMAIN jobs[p] : JobOK(p, i)

Programs == \A p \in Procs : Program(p)

\* A process between its read and its rename.
Replacement(p) ==
  IF step[p] = "ready" THEN held[p] = None /\ fd[p] = None
  ELSE /\ jobs[p] # <<>> /\ Does(p) \in Updates \cup {"write"}
       /\ held[p] \in Manifests
       /\ Does(p) = "tags" => held[p].tags = Head(jobs[p]).arg
       /\ Does(p) = "write" => held[p].completed = {} /\ held[p].status = "running"
       /\ step[p] = "open" <=> fd[p] = None

Replacements == \A p \in Procs : Replacement(p)

\* Process p has a copy of d's manifest in hand.
Has(p, d) == step[p] # "ready" /\ Target(p) = d

-----------------------------------------------------------------------------
\* The .tmp is what process p made it.
TmpOf(p, d) ==
  /\ fd[p] \in {None, "tmp"} \/ (fd[p] = "gone" /\ d \in pruned)
  /\ step[p] = "fill" => tmp[d] = IF fd[p] = "tmp" THEN Torn ELSE None
  /\ step[p] = "replace" => tmp[d] = IF fd[p] = "tmp" THEN held[p] ELSE None

\* A directory that no two processes had at once.
Alone(d) ==
  /\ \A p, q \in Procs : Holding(p, d) /\ Holding(q, d) => p = q
  /\ \A p \in Procs : ~Overwriting(p, d)
  /\ manifest[d] # Torn
  /\ \A p \in Procs : Has(p, d) => TmpOf(p, d)

AloneKept == \A d \in Procs \ contended : Alone(d)

\* A pipeline run that keeps a sidecar and is not over, and one whose manifest
\* is in place.
Running(p, d) == cmd[p] # None /\ cmd[p].name = "run" /\ cmd[p].sidecar /\ Home(p) = d /\ jobs[p] # <<>>
Past(p, d) == Running(p, d) /\ Does(p) # "write"
\* It may have been refused since, and be over.
Passed(p, d) == Past(p, d) \/ (Refused(p) /\ Home(p) = d)

\* Whatever is written as completed has its end line.
Known(m, d) == Readable(m) => m.completed \subseteq Ends(d)
KnownKept ==
  \A d \in Procs \ pruned :
    /\ Known(manifest[d], d) /\ Known(tmp[d], d)
    /\ \A p \in Procs : Has(p, d) => Known(held[p], d)

\* The manifest and the lines of a directory.
Story(d) ==
  /\ manifest[d] = None => lines[d] = <<>> /\ \A p \in Procs : ~Passed(p, d)
  /\ \A p, q \in Procs : Passed(p, d) /\ Passed(q, d) => p = q
  /\ \A p \in Procs : (Past(p, d) /\ Does(p) = "check") \/ (Refused(p) /\ Home(p) = d) => lines[d] = <<>>
  /\ \A p \in Procs : Has(p, d) /\ Does(p) # "write" =>
       /\ Readable(manifest[d]) /\ manifest[d].completed \subseteq held[p].completed
       /\ Does(p) = "completed" => Head(jobs[p]).arg \in held[p].completed
  /\ \A s \in Ends(d) : s \notin manifest[d].completed =>
       /\ Last(lines[d]) = <<s, "end">>
       /\ \A p \in Procs : Past(p, d) => Head(jobs[p]) = Job("completed", d, s)

Stories == \A d \in Procs \ (contended \cup pruned) : Story(d)

\* Why a run may be stamped completed.
Explained(d) ==
  \/ \A s \in Stages : Accounted(d, s)
  \/ \E s \in Stages : <<s, "failed">> \in ToSet(lines[d])
  \/ \E p \in Procs : Refused(p) /\ Home(p) = d

\* What stands for a stage that is still to come.
Ahead(j, d, s) ==
  j \in {Job("stage", d, s), Job("line", d, <<s, "end">>), Job("line", d, <<s, "skipped">>)}

\* A run that is not over has its stages behind or before it, or failed.
Covered(p) ==
  LET d == Home(p)
  IN \/ Explained(d)
     \/ Does(p) = "line" /\ Head(jobs[p]).arg[2] = "failed"
     \/ \A s \in Stages : Accounted(d, s) \/ \E i \in DOMAIN jobs[p] : Ahead(jobs[p][i], d, s)

Stamps ==
  \A d \in Procs \ (contended \cup pruned) :
    /\ \A p \in Procs : Running(p, d) => Covered(p)
    /\ d \notin marked =>
         /\ Readable(manifest[d]) /\ manifest[d].status = "completed" => Explained(d)
         /\ \A p \in Procs : Has(p, d) /\ held[p].status = "completed" =>
              Explained(d) \/ (Does(p) = "status" /\ cmd[p].name # "run")

Tagged ==
  \A d \in tagged \ contended :
    /\ Readable(manifest[d]) /\ manifest[d].tags # {}
    /\ \A p \in Procs : Has(p, d) => held[p].tags # {} \/ (Does(p) = "tags" /\ Head(jobs[p]).arg = {})

\* Nothing is left to a process but its atexit hook.
Over(p) == exit[p] = <<>> /\ (jobs[p] = <<>> \/ jobs[p] = HookOf(p))

\* A run that was ended by its manifest, or before its first stage.
Failures ==
  \A p \in Procs :
    /\ cmd[p] = None => raised[p] = None
    /\ raised[p] = "manifest" /\ cmd[p].name = "run" => Home(p) \in contended \cup pruned
    /\ Refused(p) => Over(p)

-----------------------------------------------------------------------------
(* Types *)

\* The fields of a job, by what it does.
LEMMA JobFields ==
  ASSUME NEW j \in Jobs
  PROVE  /\ j = Job(j.do, j.dir, j.arg) /\ j.dir \in Procs
         /\ j.do \in OfRun \cup {"write", "status", "tag", "untag", "tags", "select", "delete"}
         /\ j.do \in {"write", "check"} => j.arg = None
         /\ j.do = "line" => j.arg \in EventLines
         /\ j.do \in OfStage \cup {"tag", "untag"} => j.arg \in STRING
         /\ j.do = "status" => j.arg \in Statuses
         /\ j.do = "tags" => j.arg \in SUBSET STRING
         /\ j.do \in {"select", "delete"} => j.arg \in Commands
  <1> USE DEF Job, InStage, OfStage, OfRun
  <1>1. CASE j \in [do : {"write", "check"}, dir : Procs, arg : {None}]
    BY <1>1
  <1>2. CASE j \in [do : {"line"}, dir : Procs, arg : EventLines]
    BY <1>2
  <1>3. CASE j \in [do : {"stage", "observed", "work", "completed", "clear", "tag", "untag"}, dir : Procs, arg : STRING]
    BY <1>3
  <1>6. CASE j \in [do : {"status"}, dir : Procs, arg : Statuses]
    BY <1>6
  <1>4. CASE j \in [do : {"tags"}, dir : Procs, arg : SUBSET STRING]
    BY <1>4
  <1>5. CASE j \in [do : {"select", "delete"}, dir : Procs, arg : Commands]
    BY <1>5
  <1> QED BY <1>1, <1>2, <1>3, <1>4, <1>5, <1>6 DEF Jobs

LEMMA JobMade ==
  ASSUME NEW d \in Procs
  PROVE  /\ \A do \in {"write", "check"} : Job(do, d, None) \in Jobs
         /\ \A e \in EventLines : Job("line", d, e) \in Jobs
         /\ \A s \in STRING, do \in OfStage \cup {"tag", "untag"} : Job(do, d, s) \in Jobs
         /\ \A s \in Statuses : Job("status", d, s) \in Jobs
         /\ \A t \in SUBSET STRING : Job("tags", d, t) \in Jobs
         /\ \A c \in Commands, do \in {"select", "delete"} : Job(do, d, c) \in Jobs
  BY DEF Job, Jobs, InStage, OfStage

\* A job is what it was made of.
LEMMA JobIs ==
  \A do, d, arg : Job(do, d, arg).do = do /\ Job(do, d, arg).dir = d /\ Job(do, d, arg).arg = arg
  BY DEF Job

LEMMA CommandFields ==
  ASSUME NEW c \in Commands
  PROVE  /\ c # None /\ c.name \in {"run", "list", "tag", "untag", "mark", "prune"}
         /\ c.home \in Procs \cup {None} /\ c.sidecar \in BOOLEAN
         /\ c.name \in {"tag", "untag"} => c.dir \in Procs /\ c.tag \in STRING
         /\ c.name = "mark" => c.dir \in Procs /\ c.status \in STRING
  BY RunRegistryAssumption DEF Commands

LEMMA HomeTyped ==
  ASSUME NEW p \in Procs, cmd[p] \in Commands
  PROVE  Home(p) \in Procs
  BY CommandFields, Zenon DEF Home

LEMMA StageTyped ==
  /\ StageNames \in Seq(STRING) /\ Len(StageNames) \in Nat /\ DOMAIN StageNames = 1 .. Len(StageNames)
  /\ \A i \in 1 .. Len(StageNames) : StageNames[i] \in STRING /\ StageNames[i] \in Stages
  /\ Stages \subseteq STRING
  /\ \A s \in Stages : \E i \in 1 .. Len(StageNames) : StageNames[i] = s
  BY RunRegistryAssumption DEF Stages, ToSet

\* The jobs of a command that is no pipeline run.
LEMMA OtherJobs ==
  ASSUME NEW c \in Commands, NEW d \in Procs, c.name # "run"
  PROVE  \/ JobsOf(c, d) = <<>>
         \/ \E j \in Jobs :
              /\ JobsOf(c, d) = <<j>>
              /\ \/ c.name \in {"tag", "untag"} /\ j.do = c.name
                 \/ c.name = "mark" /\ j.do = "status"
                 \/ c.name = "prune" /\ j.do = "select"
  <1>1. CASE c.name \in {"tag", "untag"}
    <2>1. Job(c.name, c.dir, c.tag) \in Jobs
      BY <1>1, CommandFields, JobMade
    <2>2. JobsOf(c, d) = <<Job(c.name, c.dir, c.tag)>>
      BY <1>1 DEF JobsOf
    <2>3. Job(c.name, c.dir, c.tag).do = c.name
      BY DEF Job
    <2> QED BY <1>1, <2>1, <2>2, <2>3
  <1>2. CASE c.name = "mark"
    <2>1. Job("status", c.dir, c.status) \in Jobs
      BY <1>2, CommandFields, JobMade DEF Statuses
    <2>2. JobsOf(c, d) = <<Job("status", c.dir, c.status)>>
      BY <1>2 DEF JobsOf
    <2>3. Job("status", c.dir, c.status).do = "status"
      BY DEF Job
    <2> QED BY <1>2, <2>1, <2>2, <2>3
  <1>3. CASE c.name = "prune"
    <2>1. Job("select", d, c) \in Jobs
      BY JobMade
    <2>2. JobsOf(c, d) = <<Job("select", d, c)>>
      BY <1>3 DEF JobsOf
    <2>3. Job("select", d, c).do = "select"
      BY DEF Job
    <2> QED BY <1>3, <2>1, <2>2, <2>3
  <1>4. CASE c.name = "list"
    BY <1>4 DEF JobsOf
  <1> QED BY <1>1, <1>2, <1>3, <1>4, CommandFields

\* What a selected directory is: one that was there.
LEMMA VictimsTyped ==
  ASSUME NEW c
  PROVE  /\ SetToSeq(Selected(c)) \in Seq(Procs)
         /\ \A i \in DOMAIN SetToSeq(Selected(c)) : SetToSeq(Selected(c))[i] \in Selected(c)
  <1> DEFINE S == Selected(c)
  <1>1. S \subseteq Procs
    BY DEF Selected
  <1> HIDE DEF S
  <1>2. IsFiniteSet(S)
    BY <1>1, RunRegistryAssumption, FS_Subset
  <1>3. Cardinality(S) \in Nat /\ ExistsBijection(1 .. Cardinality(S), S)
    BY <1>2, FS_CardinalityType
  <1>4. \E f \in [1 .. Cardinality(S) -> S] : IsInjective(f)
    BY <1>3 DEF ExistsBijection, Bijection, Injection, IsInjective
  <1>5. SetToSeq(S) \in [1 .. Cardinality(S) -> S]
    BY <1>4 DEF SetToSeq
  <1>6. SetToSeq(S) \in Seq(Procs) /\ \A i \in DOMAIN SetToSeq(S) : SetToSeq(S)[i] \in S
    BY <1>1, <1>3, <1>5
  <1> QED BY <1>6 DEF S

LEMMA UpdatedTyped ==
  ASSUME NEW m \in Manifests, NEW j \in Jobs, j.do \in Updates
  PROVE  Updated(m, j) \in Manifests
  BY JobFields DEF Updated, Updates, Manifests, InStage, OfStage, OfRun

LEMMA ManifestThere ==
  ASSUME NEW m \in Manifests PROVE Readable(m)
  BY RunRegistryAssumption DEF Readable

-----------------------------------------------------------------------------
(* What a step does to the jobs of its process *)

LEMMA AtHead ==
  ASSUME TypeOK, NEW p \in Procs, jobs[p] # <<>>
  PROVE  /\ Head(jobs[p]) \in Jobs /\ Tail(jobs[p]) \in Seq(Jobs) /\ Head(jobs[p]) = jobs[p][1]
         /\ Len(jobs[p]) \in Nat \ {0} /\ DOMAIN jobs[p] = 1 .. Len(jobs[p])
         /\ Len(Tail(jobs[p])) = Len(jobs[p]) - 1
         /\ \A i \in 1 .. Len(jobs[p]) - 1 : Tail(jobs[p])[i] = jobs[p][i + 1]
         /\ Target(p) \in Procs
  <1>1. PICK s \in Seq(Jobs) : s = jobs[p]
    BY DEF TypeOK
  <1>2. /\ Head(s) \in Jobs /\ Tail(s) \in Seq(Jobs) /\ Head(s) = s[1]
        /\ Len(s) \in Nat \ {0} /\ DOMAIN s = 1 .. Len(s)
        /\ Len(Tail(s)) = Len(s) - 1
        /\ \A i \in 1 .. Len(s) - 1 : Tail(s)[i] = s[i + 1]
    BY <1>1
  <1>3. Head(s).dir \in Procs
    BY <1>2, JobFields
  <1> QED BY <1>1, <1>2, <1>3 DEF Target

\* The next job.
Tailed(p) == Len(jobs[p]) > 1 /\ jobs'[p] = Tail(jobs[p]) /\ exit'[p] = exit[p]
\* The process goes over to its atexit hook.
Leaves(p) == jobs'[p] = exit[p] /\ exit'[p] = <<>>
\* A stage has failed.
Fails(p) ==
  /\ exit[p] # <<>> /\ Does(p) \in InStage
  /\ jobs'[p] = <<Job("line", Target(p), <<Head(jobs[p]).arg, "failed">>)>> \o exit[p]
  /\ exit'[p] = <<>>

\* The other processes' jobs are their own.
OthersKept(p) == \A q \in Procs \ {p} : jobs'[q] = jobs[q] /\ exit'[q] = exit[q]

LEMMA Advances ==
  ASSUME TypeOK, NEW p \in Procs, jobs[p] # <<>>, Advance(p)
  PROVE  /\ jobs' \in [Procs -> Seq(Jobs)] /\ exit' \in [Procs -> Seq(Jobs)] /\ OthersKept(p)
         /\ Tailed(p) \/ (Len(jobs[p]) = 1 /\ Leaves(p))
  <1>1. /\ Tail(jobs[p]) \in Seq(Jobs) /\ exit[p] \in Seq(Jobs) /\ <<>> \in Seq(Jobs)
        /\ Len(jobs[p]) > 1 \/ Len(jobs[p]) = 1
    <2>1. Tail(jobs[p]) \in Seq(Jobs) /\ Len(jobs[p]) \in Nat \ {0}
      BY AtHead
    <2>2. exit[p] \in Seq(Jobs)
      BY DEF TypeOK
    <2>3. Len(jobs[p]) > 1 \/ Len(jobs[p]) = 1
      <3>1. PICK n \in Nat \ {0} : n = Len(jobs[p])
        BY <2>1
      <3>2. n > 1 \/ n = 1
        OBVIOUS
      <3> QED BY <3>1, <3>2
    <2>4. <<>> \in Seq(Jobs)
      OBVIOUS
    <2> QED BY <2>1, <2>2, <2>3, <2>4
  <1>2. jobs \in [Procs -> Seq(Jobs)] /\ exit \in [Procs -> Seq(Jobs)]
    BY DEF TypeOK
  <1>3. CASE Len(jobs[p]) > 1
    <2>1. jobs' = [jobs EXCEPT ![p] = Tail(jobs[p])] /\ exit' = [exit EXCEPT ![p] = exit[p]]
      BY <1>3 DEF Advance
    <2> QED BY <1>1, <1>2, <1>3, <2>1 DEF Tailed, OthersKept
  <1>4. CASE Len(jobs[p]) = 1
    <2>1. jobs' = [jobs EXCEPT ![p] = exit[p]] /\ exit' = [exit EXCEPT ![p] = <<>>]
      BY <1>4 DEF Advance
    <2> QED BY <1>1, <1>2, <1>4, <2>1 DEF Leaves, OthersKept
  <1> QED BY <1>1, <1>3, <1>4

LEMMA Raises ==
  ASSUME TypeOK, NEW p \in Procs, jobs[p] # <<>>, NEW why \in {"manifest", "work", "usage"}, Raise(p, why)
  PROVE  /\ jobs' \in [Procs -> Seq(Jobs)] /\ exit' \in [Procs -> Seq(Jobs)] /\ OthersKept(p)
         /\ raised' \in [Procs -> {None, "manifest", "work", "usage"}] /\ raised'[p] = why
         /\ \A q \in Procs \ {p} : raised'[q] = raised[q]
         /\ (~(exit[p] # <<>> /\ Does(p) \in InStage) /\ Leaves(p)) \/ Fails(p)
  <1>1. Head(jobs[p]) \in Jobs /\ exit[p] \in Seq(Jobs) /\ <<>> \in Seq(Jobs)
    BY AtHead DEF TypeOK
  <1>2. jobs \in [Procs -> Seq(Jobs)] /\ exit \in [Procs -> Seq(Jobs)]
        /\ raised \in [Procs -> {None, "manifest", "work", "usage"}]
    BY DEF TypeOK
  <1>3. exit' = [exit EXCEPT ![p] = <<>>] /\ raised' = [raised EXCEPT ![p] = why]
    BY DEF Raise
  <1>4. CASE exit[p] # <<>> /\ Does(p) \in InStage
    <2> DEFINE f == Job("line", Target(p), <<Head(jobs[p]).arg, "failed">>)
    <2>1. f \in Jobs
      <3>1. Head(jobs[p]).arg \in STRING
        BY <1>1, <1>4, JobFields DEF Does, InStage, OfStage
      <3>2. Target(p) \in Procs /\ <<Head(jobs[p]).arg, "failed">> \in EventLines
        BY <3>1, AtHead DEF EventLines
      <3> QED BY <3>2, JobMade
    <2>2. jobs' = [jobs EXCEPT ![p] = <<f>> \o exit[p]]
      BY <1>4 DEF Raise, Does, Target, InStage, OfStage, OfRun
    <2>3. <<f>> \o exit[p] \in Seq(Jobs)
      BY <1>1, <2>1
    <2> QED BY <1>1, <1>2, <1>3, <1>4, <2>2, <2>3 DEF Fails, OthersKept
  <1>5. CASE ~(exit[p] # <<>> /\ Does(p) \in InStage)
    <2>1. jobs' = [jobs EXCEPT ![p] = <<>> \o exit[p]]
      BY <1>5 DEF Raise, Does, InStage, OfStage, OfRun
    <2>2. <<>> \o exit[p] = exit[p]
      BY <1>1
    <2> QED BY <1>1, <1>2, <1>3, <1>5, <2>1, <2>2 DEF Leaves, OthersKept
  <1> QED BY <1>4, <1>5

\* The program of a process goes on while others work: lines are only added, and
\* a directory once pruned is counted as pruned.
Grows ==
  /\ pruned \subseteq pruned'
  /\ \A d \in Procs \ pruned', e \in EventLines :
       e \in ToSet(lines[d]) => e \in ToSet(lines'[d])

LEMMA ProgramKept ==
  ASSUME TypeOK, NEW q \in Procs, Program(q), Grows,
         jobs'[q] = jobs[q], exit'[q] = exit[q], cmd'[q] = cmd[q]
  PROVE  Program(q)'
  <1>1. HookOf(q)' = HookOf(q) /\ Home(q)' = Home(q)
    BY DEF HookOf, Home
  <1>2. ASSUME NEW i \in DOMAIN jobs[q] PROVE JobOK(q, i)'
    <2>1. JobOK(q, i) /\ jobs[q][i] \in Jobs
      BY DEF Program, TypeOK
    <2>2. /\ jobs'[q][i] = jobs[q][i] /\ jobs'[q][i - 1] = jobs[q][i - 1] /\ jobs'[q][i + 1] = jobs[q][i + 1]
          /\ Len(jobs'[q]) = Len(jobs[q])
      OBVIOUS
    <2>3. ASSUME jobs[q][i].do = "completed", i = 1,
                 jobs[q][i].dir \in pruned \/ <<jobs[q][i].arg, "end">> \in ToSet(lines[jobs[q][i].dir])
          PROVE  jobs[q][i].dir \in pruned' \/ <<jobs[q][i].arg, "end">> \in ToSet(lines'[jobs[q][i].dir])
      BY <2>1, <2>3, JobFields DEF Grows, EventLines, InStage, OfStage
    <2> QED BY <1>1, <2>1, <2>2, <2>3 DEF JobOK
  <1> QED BY <1>1, <1>2 DEF Program

\* The next job, after one that is not a line of its own or after the line was
\* written.
LEMMA ProgramTailed ==
  ASSUME TypeOK, NEW p \in Procs, Program(p), Grows, jobs[p] # <<>>, Tailed(p), cmd'[p] = cmd[p],
         \A s \in STRING : Head(jobs[p]) = Job("line", Target(p), <<s, "end">>)
            => Target(p) \in pruned' \/ <<s, "end">> \in ToSet(lines'[Target(p)])
  PROVE  Program(p)'
  <1> DEFINE n == Len(jobs[p])
  <1>1. HookOf(p)' = HookOf(p) /\ Home(p)' = Home(p)
    BY DEF HookOf, Home
  <1>2. /\ n \in Nat /\ n > 1 /\ Len(jobs'[p]) = n - 1 /\ DOMAIN jobs'[p] = 1 .. n - 1
        /\ \A i \in 1 .. n - 1 : jobs'[p][i] = jobs[p][i + 1]
        /\ DOMAIN jobs[p] = 1 .. n /\ exit'[p] = exit[p] /\ Head(jobs[p]) = jobs[p][1]
        /\ \A i \in 1 .. n : jobs[p][i] \in Jobs
    BY AtHead DEF Tailed, TypeOK
  <1>3. ASSUME NEW i \in 1 .. n - 1 PROVE JobOK(p, i)'
    <2> DEFINE j == jobs[p][i + 1]
    <2>1. JobOK(p, i + 1) /\ j \in Jobs /\ jobs'[p][i] = j
      <3>1. i + 1 \in 1 .. n
        <4>1. n \in Nat
          BY <1>2
        <4> HIDE DEF n
        <4> QED BY <4>1
      <3>2. JobOK(p, i + 1)
        BY <1>2, <3>1 DEF Program
      <3> QED BY <1>2, <3>1, <3>2
    <2>2. j.do \notin {"write", "tags"} /\ (j.do = "line" => j.arg[2] # "failed")
      BY <1>2, <2>1 DEF JobOK
    <2>3. j.do \in {"select", "tag", "untag", "status"} => i = Len(jobs'[p])
      BY <1>2, <2>1 DEF JobOK
    <2>4. ASSUME j.do = "completed"
          PROVE  IF i = 1 THEN j.dir \in pruned' \/ <<j.arg, "end">> \in ToSet(lines'[j.dir])
                 ELSE jobs'[p][i - 1] = Job("line", j.dir, <<j.arg, "end">>)
      <3>1. jobs[p][i] = Job("line", j.dir, <<j.arg, "end">>)
        <4>1. jobs[p][i + 1 - 1] = Job("line", j.dir, <<j.arg, "end">>) /\ i + 1 - 1 = i
          BY <1>2, <2>1, <2>4 DEF JobOK
        <4> QED BY <4>1
      <3>2. j.arg \in STRING
        BY <2>1, <2>4, JobFields DEF InStage, OfStage, OfRun
      <3>3. CASE i = 1
        <4>1. Head(jobs[p]) = Job("line", j.dir, <<j.arg, "end">>)
          BY <1>2, <3>1, <3>3
        <4>2. Target(p) = j.dir
          BY <4>1 DEF Target, Job
        <4> QED BY <3>2, <3>3, <4>1, <4>2
      <3>4. CASE i # 1
        <4>1. i - 1 \in 1 .. n - 1 /\ i - 1 + 1 = i
          BY <1>2, <3>4
        <4> QED BY <1>2, <3>1, <3>4, <4>1
      <3> QED BY <3>3, <3>4
    <2>5. ASSUME j.do = "line", j.arg[2] = "end"
          PROVE  i < Len(jobs'[p]) /\ jobs'[p][i + 1] = Job("completed", j.dir, j.arg[1])
      <3>1. i + 1 < n /\ jobs[p][i + 1 + 1] = Job("completed", j.dir, j.arg[1])
        BY <2>1, <2>5 DEF JobOK
      <3>2. i + 1 \in 1 .. n - 1
        BY <1>2, <3>1
      <3> QED BY <1>2, <3>1, <3>2
    <2>6. ASSUME j.do = "check" PROVE i = 1 \/ jobs'[p][i - 1].do = "write"
      <3>1. jobs[p][i].do = "write"
        <4>1. i + 1 = 1 \/ jobs[p][i + 1 - 1].do = "write"
          BY <2>1, <2>6 DEF JobOK
        <4>2. i + 1 # 1 /\ i + 1 - 1 = i
          BY <1>2
        <4> QED BY <4>1, <4>2
      <3>2. JobOK(p, i)
        BY <1>2 DEF Program
      <3> QED BY <3>1, <3>2 DEF JobOK
    <2> HIDE DEF j, n
    <2> QED BY <1>1, <2>1, <2>2, <2>3, <2>4, <2>5, <2>6 DEF JobOK, j
  <1> QED BY <1>1, <1>2, <1>3 DEF Program

\* The hook, or nothing, is left.
LEMMA ProgramLeaves ==
  ASSUME TypeOK, NEW p \in Procs, Program(p), jobs[p] # <<>>, Leaves(p), cmd'[p] = cmd[p]
  PROVE  Program(p)'
  <1>1. HookOf(p)' = HookOf(p) /\ Home(p)' = Home(p)
    BY DEF HookOf, Home
  <1>2. cmd[p] # None
    BY DEF Program
  <1>3. CASE exit[p] = <<>>
    BY <1>2, <1>3 DEF Leaves, Program
  <1>4. CASE exit[p] # <<>>
    <2>1. exit[p] = HookOf(p) /\ cmd[p].sidecar
      BY <1>4 DEF Program
    <2>2. jobs'[p] = <<Job("status", Home(p), "completed")>> /\ exit'[p] = <<>>
      BY <2>1 DEF Leaves, HookOf
    <2>3. /\ Len(jobs'[p]) = 1 /\ DOMAIN jobs'[p] = {1} /\ jobs'[p][1] = Job("status", Home(p), "completed")
      BY <2>2
    <2>4. /\ Job("status", Home(p), "completed").do = "status"
          /\ Job("status", Home(p), "completed").dir = Home(p)
      BY DEF Job
    <2>5. JobOK(p, 1)'
      BY <1>1, <2>1, <2>3, <2>4 DEF JobOK, InStage, OfStage, OfRun
    <2> QED BY <1>2, <2>2, <2>3, <2>5 DEF Program
  <1> QED BY <1>3, <1>4

\* A failed line, and then the hook.
LEMMA ProgramFails ==
  ASSUME TypeOK, NEW p \in Procs, Program(p), jobs[p] # <<>>, Fails(p), cmd'[p] = cmd[p]
  PROVE  Program(p)'
  <1>1. HookOf(p)' = HookOf(p) /\ Home(p)' = Home(p)
    BY DEF HookOf, Home
  <1>2. cmd[p] # None /\ exit[p] = <<Job("status", Home(p), "completed")>> /\ cmd[p].sidecar
    BY DEF Program, Fails, HookOf
  <1>3. JobOK(p, 1) /\ Head(jobs[p]) = jobs[p][1]
    BY AtHead DEF Program
  <1>4. cmd[p].name = "run" /\ Target(p) = Home(p) /\ Head(jobs[p]).arg \in Stages
    BY <1>3 DEF JobOK, Fails, Does, Target, InStage, OfStage, OfRun
  <1> DEFINE f == Job("line", Home(p), <<Head(jobs[p]).arg, "failed">>)
             h == Job("status", Home(p), "completed")
  <1>5. jobs'[p] = <<f>> \o <<h>> /\ exit'[p] = <<>>
    BY <1>2, <1>4 DEF Fails
  <1>6. /\ f.do = "line" /\ f.dir = Home(p) /\ f.arg[1] = Head(jobs[p]).arg /\ f.arg[2] = "failed"
        /\ h.do = "status" /\ h.dir = Home(p)
    BY DEF Job
  <1> HIDE DEF f, h
  <1>7. Len(jobs'[p]) = 2 /\ DOMAIN jobs'[p] = {1, 2} /\ jobs'[p][1] = f /\ jobs'[p][2] = h
    <2>1. <<f>> \in Seq({f, h}) /\ <<h>> \in Seq({f, h})
      OBVIOUS
    <2>2. /\ Len(<<f>> \o <<h>>) = 2 /\ (<<f>> \o <<h>>)[1] = f /\ (<<f>> \o <<h>>)[2] = h
          /\ DOMAIN (<<f>> \o <<h>>) = 1 .. 2
      BY <2>1
    <2> QED BY <1>5, <2>2
  <1>8. JobOK(p, 1)' /\ JobOK(p, 2)'
    BY <1>1, <1>2, <1>4, <1>6, <1>7 DEF JobOK, InStage, OfStage, OfRun
  <1> QED BY <1>2, <1>5, <1>7, <1>8 DEF Program

\* A manifest in place: the program of the command begins, with its hook.
LEMMA ProgramWritten ==
  ASSUME TypeOK, NEW p \in Procs, Program(p), Grows, jobs[p] # <<>>, Does(p) = "write", cmd'[p] = cmd[p],
         \/ Len(jobs[p]) > 1 /\ jobs'[p] = Tail(jobs[p]) /\ exit'[p] = HookOf(p)
         \/ Len(jobs[p]) = 1 /\ jobs'[p] = HookOf(p) /\ exit'[p] = <<>>
  PROVE  Program(p)'
  <1>1. HookOf(p)' = HookOf(p) /\ Home(p)' = Home(p)
    BY DEF HookOf, Home
  <1>2. JobOK(p, 1) /\ Head(jobs[p]) = jobs[p][1] /\ cmd[p] # None
    BY AtHead DEF Program
  <1>3. cmd[p].sidecar /\ exit[p] = <<>>
    BY <1>2 DEF JobOK, Does
  <1>4. CASE Len(jobs[p]) > 1 /\ jobs'[p] = Tail(jobs[p]) /\ exit'[p] = HookOf(p)
    <2> DEFINE n == Len(jobs[p])
    <2>1. /\ n \in Nat /\ n > 1 /\ Len(jobs'[p]) = n - 1 /\ DOMAIN jobs'[p] = 1 .. n - 1
          /\ \A i \in 1 .. n - 1 : jobs'[p][i] = jobs[p][i + 1]
          /\ DOMAIN jobs[p] = 1 .. n
          /\ \A i \in 1 .. n : jobs[p][i] \in Jobs
      BY <1>4, AtHead DEF TypeOK
    <2>2. ASSUME NEW i \in 1 .. n - 1 PROVE JobOK(p, i)'
      <3> DEFINE j == jobs[p][i + 1]
      <3>1. JobOK(p, i + 1) /\ j \in Jobs /\ jobs'[p][i] = j
        BY <2>1 DEF Program
      <3>2. j.do \notin {"write", "tags"} /\ (j.do = "line" => j.arg[2] # "failed")
        BY <2>1, <3>1 DEF JobOK
      <3>3. j.do \in {"select", "tag", "untag", "status"} => i = Len(jobs'[p])
        BY <2>1, <3>1 DEF JobOK
      <3>4. ASSUME j.do = "completed"
            PROVE  i # 1 /\ jobs'[p][i - 1] = Job("line", j.dir, <<j.arg, "end">>)
        <4>1. jobs[p][i] = Job("line", j.dir, <<j.arg, "end">>)
          <5>1. jobs[p][i + 1 - 1] = Job("line", j.dir, <<j.arg, "end">>) /\ i + 1 - 1 = i
            BY <2>1, <3>1, <3>4 DEF JobOK
          <5> QED BY <5>1
        <4>2. jobs[p][i].do = "line"
          BY <4>1 DEF Job
        <4>3. i # 1
          BY <1>2, <4>2 DEF Does
        <4>4. i - 1 \in 1 .. n - 1 /\ i - 1 + 1 = i
          BY <2>1, <4>3
        <4> QED BY <2>1, <4>1, <4>3, <4>4
      <3>5. ASSUME j.do = "line", j.arg[2] = "end"
            PROVE  i < Len(jobs'[p]) /\ jobs'[p][i + 1] = Job("completed", j.dir, j.arg[1])
        <4>1. i + 1 < n /\ jobs[p][i + 1 + 1] = Job("completed", j.dir, j.arg[1])
          BY <3>1, <3>5 DEF JobOK
        <4>2. i + 1 \in 1 .. n - 1
          BY <2>1, <4>1
        <4> QED BY <2>1, <4>1, <4>2
      <3>6. ASSUME j.do = "check" PROVE i = 1 \/ jobs'[p][i - 1].do = "write"
        <4>1. jobs[p][i].do = "write"
          <5>1. i + 1 = 1 \/ jobs[p][i + 1 - 1].do = "write"
            BY <3>1, <3>6 DEF JobOK
          <5>2. i + 1 # 1 /\ i + 1 - 1 = i
            BY <2>1
          <5> QED BY <5>1, <5>2
        <4>2. JobOK(p, i)
          BY <2>1 DEF Program
        <4> QED BY <4>1, <4>2 DEF JobOK
      <3> HIDE DEF j, n
      <3> QED BY <1>1, <3>1, <3>2, <3>3, <3>4, <3>5, <3>6 DEF JobOK, j
    <2> QED BY <1>1, <1>2, <1>3, <1>4, <2>1, <2>2 DEF Program
  <1>5. CASE Len(jobs[p]) = 1 /\ jobs'[p] = HookOf(p) /\ exit'[p] = <<>>
    <2>1. jobs'[p] = <<Job("status", Home(p), "completed")>>
      BY <1>5 DEF HookOf
    <2>2. /\ Len(jobs'[p]) = 1 /\ DOMAIN jobs'[p] = {1} /\ jobs'[p][1] = Job("status", Home(p), "completed")
      BY <2>1
    <2>3. /\ Job("status", Home(p), "completed").do = "status"
          /\ Job("status", Home(p), "completed").dir = Home(p)
      BY DEF Job
    <2>4. JobOK(p, 1)'
      BY <1>1, <1>3, <2>2, <2>3 DEF JobOK, InStage, OfStage, OfRun
    <2> QED BY <1>2, <1>5, <2>1, <2>2, <2>4 DEF Program
  <1> QED BY <1>4, <1>5

\* What a command's jobs, or a stage's, are before any is done.
FreshJob(P, i, c, home) ==
  LET j == P[i]
  IN /\ j.do \notin {"write", "tags"}
     /\ j.do \in {"select", "tag", "untag", "status"} => i = Len(P)
     /\ j.do \in OfRun => c.name = "run"
     /\ j.do \in {"line", "observed", "completed"} => c.sidecar
     /\ j.do \in OfStage => j.arg \in Stages
     /\ j.do \in {"tag", "untag"} => c.name = j.do
     /\ c.name = "run" => j.dir = home /\ j.do \in OfRun
     /\ j.do = "check" => i = 1
     /\ j.do = "completed" => i > 1 /\ P[i - 1] = Job("line", j.dir, <<j.arg, "end">>)
     /\ j.do = "line" => /\ j.arg[2] # "plan" => j.arg[1] \in Stages
                         /\ j.arg[2] # "failed"
                         /\ j.arg[2] = "end" => i < Len(P) /\ P[i + 1] = Job("completed", j.dir, j.arg[1])

Fresh(P, c, home) == P \in Seq(Jobs) /\ \A i \in DOMAIN P : FreshJob(P, i, c, home)
Unchecked(P) == \A i \in DOMAIN P : P[i].do # "check"

LEMMA Joined ==
  ASSUME NEW S \in Seq(Jobs), NEW T \in Seq(Jobs)
  PROVE  /\ S \o T \in Seq(Jobs) /\ Len(S) \in Nat /\ Len(T) \in Nat /\ Len(S \o T) = Len(S) + Len(T)
         /\ DOMAIN S = 1 .. Len(S) /\ DOMAIN T = 1 .. Len(T) /\ DOMAIN (S \o T) = 1 .. Len(S) + Len(T)
         /\ \A i \in 1 .. Len(S) : (S \o T)[i] = S[i]
         /\ \A i \in 1 .. Len(T) : (S \o T)[Len(S) + i] = T[i]
         /\ \A i \in 1 .. Len(S) + Len(T) : i \in 1 .. Len(S) \/ \E k \in 1 .. Len(T) : i = Len(S) + k
  <1>1. /\ S \o T \in Seq(Jobs) /\ Len(S) \in Nat /\ Len(T) \in Nat /\ Len(S \o T) = Len(S) + Len(T)
        /\ DOMAIN S = 1 .. Len(S) /\ DOMAIN T = 1 .. Len(T) /\ DOMAIN (S \o T) = 1 .. Len(S) + Len(T)
        /\ \A i \in 1 .. Len(S) : (S \o T)[i] = S[i]
        /\ \A i \in 1 .. Len(T) : (S \o T)[Len(S) + i] = T[i]
    OBVIOUS
  <1>2. ASSUME NEW i \in 1 .. Len(S) + Len(T), i \notin 1 .. Len(S)
        PROVE  \E k \in 1 .. Len(T) : i = Len(S) + k
    <2>1. i - Len(S) \in 1 .. Len(T) /\ i = Len(S) + (i - Len(S))
      BY <1>1, <1>2
    <2> QED BY <2>1
  <1> QED BY <1>1, <1>2

\* What a run does one after the other.
LEMMA FreshJoined ==
  ASSUME NEW c, c.name = "run", NEW d, NEW S, NEW T, Fresh(S, c, d), Fresh(T, c, d), Unchecked(T)
  PROVE  Fresh(S \o T, c, d) /\ (Unchecked(S) => Unchecked(S \o T))
  <1> DEFINE U == S \o T
             m == Len(S)
             n == Len(T)
  <1>1. S \in Seq(Jobs) /\ T \in Seq(Jobs)
    BY DEF Fresh
  <1>2. /\ U \in Seq(Jobs) /\ m \in Nat /\ n \in Nat /\ Len(U) = m + n
        /\ DOMAIN S = 1 .. m /\ DOMAIN T = 1 .. n /\ DOMAIN U = 1 .. m + n
        /\ \A i \in 1 .. m : U[i] = S[i]
        /\ \A i \in 1 .. n : U[m + i] = T[i]
        /\ \A i \in 1 .. m + n : i \in 1 .. m \/ \E k \in 1 .. n : i = m + k
    BY <1>1, Joined
  <1> HIDE DEF U, m, n
  <1>3. ASSUME NEW i \in 1 .. m PROVE FreshJob(U, i, c, d)
    <2>1. FreshJob(S, i, c, d) /\ Len(S) = m /\ U[i] = S[i]
      BY <1>2 DEF Fresh, m
    <2>2. PICK j : j = S[i] /\ j = U[i]
      BY <2>1
    <2>3. ASSUME j.do = "completed" PROVE i > 1 /\ U[i - 1] = Job("line", j.dir, <<j.arg, "end">>)
      <3>1. i > 1 /\ S[i - 1] = Job("line", j.dir, <<j.arg, "end">>)
        BY <2>1, <2>2, <2>3 DEF FreshJob
      <3>2. i - 1 \in 1 .. m
        BY <1>2, <3>1
      <3> QED BY <1>2, <3>1, <3>2
    <2>4. ASSUME j.do = "line", j.arg[2] = "end" PROVE i < Len(U) /\ U[i + 1] = Job("completed", j.dir, j.arg[1])
      <3>1. i < m /\ S[i + 1] = Job("completed", j.dir, j.arg[1])
        BY <2>1, <2>2, <2>4 DEF FreshJob
      <3>2. i + 1 \in 1 .. m /\ i < m + n
        BY <1>2, <3>1
      <3> QED BY <1>2, <3>1, <3>2
    <2>5. j.do \in OfRun /\ j.do \notin {"select", "tag", "untag", "status"}
      BY <2>1, <2>2 DEF FreshJob, OfRun, OfStage, InStage
    <2> QED BY <2>1, <2>2, <2>3, <2>4, <2>5 DEF FreshJob
  <1>4. ASSUME NEW k \in 1 .. n PROVE FreshJob(U, m + k, c, d) /\ U[m + k].do # "check"
    <2>1. FreshJob(T, k, c, d) /\ Len(T) = n /\ U[m + k] = T[k] /\ T[k].do # "check"
      BY <1>2 DEF Fresh, Unchecked, n
    <2>2. PICK j : j = T[k] /\ j = U[m + k] /\ j.do # "check"
      BY <2>1
    <2>3. ASSUME j.do = "completed" PROVE m + k > 1 /\ U[m + k - 1] = Job("line", j.dir, <<j.arg, "end">>)
      <3>1. k > 1 /\ T[k - 1] = Job("line", j.dir, <<j.arg, "end">>)
        BY <2>1, <2>2, <2>3 DEF FreshJob
      <3>2. k - 1 \in 1 .. n /\ m + k > 1 /\ m + (k - 1) = m + k - 1
        BY <1>2, <3>1
      <3> QED BY <1>2, <3>1, <3>2
    <2>4. ASSUME j.do = "line", j.arg[2] = "end"
          PROVE  m + k < Len(U) /\ U[m + k + 1] = Job("completed", j.dir, j.arg[1])
      <3>1. k < n /\ T[k + 1] = Job("completed", j.dir, j.arg[1])
        BY <2>1, <2>2, <2>4 DEF FreshJob
      <3>2. k + 1 \in 1 .. n /\ m + k < m + n /\ m + (k + 1) = m + k + 1
        <4>1. m \in Nat /\ n \in Nat /\ k < n
          BY <1>2, <3>1
        <4> QED BY <4>1
      <3> QED BY <1>2, <3>1, <3>2
    <2>5. j.do \in OfRun /\ j.do \notin {"select", "tag", "untag", "status"}
      BY <2>1, <2>2 DEF FreshJob, OfRun, OfStage, InStage
    <2>6. /\ j.do \notin {"write", "tags"}
          /\ j.do \in {"line", "observed", "completed"} => c.sidecar
          /\ j.do \in OfStage => j.arg \in Stages
          /\ j.do \in {"tag", "untag"} => c.name = j.do
          /\ j.dir = d
          /\ j.do = "line" => (j.arg[2] # "plan" => j.arg[1] \in Stages) /\ j.arg[2] # "failed"
      BY <2>1, <2>2 DEF FreshJob
    <2>7. /\ j.do = "completed" => m + k > 1 /\ U[m + k - 1] = Job("line", j.dir, <<j.arg, "end">>)
          /\ j.do = "line" /\ j.arg[2] = "end" => m + k < Len(U) /\ U[m + k + 1] = Job("completed", j.dir, j.arg[1])
          /\ U[m + k] = j /\ j.do # "check" /\ c.name = "run"
      <3>1. j.do = "completed" => m + k > 1 /\ U[m + k - 1] = Job("line", j.dir, <<j.arg, "end">>)
        BY <2>3
      <3>2. j.do = "line" /\ j.arg[2] = "end" => m + k < Len(U) /\ U[m + k + 1] = Job("completed", j.dir, j.arg[1])
        BY <2>4
      <3> QED BY <2>2, <3>1, <3>2, Zenon
    <2>8. PICK i \in Int : i = m + k /\ m \in Nat
      BY <1>2
    <2>10. /\ j.do = "completed" => i > 1 /\ U[i - 1] = Job("line", j.dir, <<j.arg, "end">>)
           /\ j.do = "line" /\ j.arg[2] = "end" => i < Len(U) /\ U[i + 1] = Job("completed", j.dir, j.arg[1])
           /\ U[i] = j /\ j.do # "check" /\ c.name = "run"
      BY ONLY <2>7, <2>8
    <2>11. /\ j.do \in {"select", "tag", "untag", "status"} => i = Len(U)
           /\ j.do = "check" => i = 1
      BY <2>5, <2>10
    <2>9. FreshJob(U, i, c, d)
      BY ONLY <2>5, <2>6, <2>10, <2>11 DEF FreshJob
    <2> QED BY <2>2, <2>8, <2>9
  <1>5. Fresh(U, c, d)
    BY <1>2, <1>3, <1>4 DEF Fresh
  <1>6. ASSUME Unchecked(S) PROVE Unchecked(U)
    <2>1. ASSUME NEW i \in 1 .. m + n PROVE U[i].do # "check"
      <3>1. CASE i \in 1 .. m
        BY <1>2, <1>6, <3>1 DEF Unchecked
      <3>2. ASSUME NEW k \in 1 .. n, i = m + k PROVE U[i].do # "check"
        BY <1>4, <3>2
      <3> QED BY <1>2, <3>1, <3>2
    <2> QED BY <1>2, <2>1 DEF Unchecked
  <1> QED BY <1>5, <1>6 DEF U

\* One job alone.
LEMMA FreshAlone ==
  ASSUME NEW c, c.name = "run", NEW d \in Procs, NEW j \in Jobs, j.dir = d,
         \/ j.do = "check"
         \/ j.do \in {"stage", "work", "clear"} /\ j.arg \in Stages
         \/ j.do = "line" /\ c.sidecar /\ j.arg[2] = "plan"
         \/ j.do = "line" /\ c.sidecar /\ j.arg[1] \in Stages /\ j.arg[2] = "skipped"
  PROVE  Fresh(<<j>>, c, d) /\ <<j>> \in Seq(Jobs) /\ (j.do # "check" => Unchecked(<<j>>))
  <1>1. /\ <<j>> \in Seq(Jobs) /\ DOMAIN <<j>> = {1} /\ <<j>>[1] = j
    OBVIOUS
  <1>2. PICK P : P = <<j>> /\ P \in Seq(Jobs) /\ DOMAIN P = {1} /\ P[1] = j
    BY <1>1
  <1>3. FreshJob(P, 1, c, d)
    BY <1>2 DEF FreshJob, OfRun, OfStage, InStage
  <1> QED BY <1>2, <1>3 DEF Fresh, Unchecked

\* The lines of a stage, its work and what the manifest is told.
LEMMA EmittingFresh ==
  ASSUME NEW c, c.name = "run", c.sidecar, NEW d \in Procs, NEW s \in Stages
  PROVE  /\ Fresh(Emitting(d, s), c, d) /\ Unchecked(Emitting(d, s))
         /\ \E i \in DOMAIN Emitting(d, s) : Emitting(d, s)[i] = Job("line", d, <<s, "end">>)
  <1>1. s \in STRING /\ <<s, "start">> \in EventLines /\ <<s, "end">> \in EventLines
    BY StageTyped DEF EventLines
  <1>2. PICK w \in Jobs, l \in Jobs, o \in Jobs, e \in Jobs, t \in Jobs :
          /\ w = Job("work", d, s) /\ l = Job("line", d, <<s, "start">>) /\ o = Job("observed", d, s)
          /\ e = Job("line", d, <<s, "end">>) /\ t = Job("completed", d, s)
    BY <1>1, JobMade DEF OfStage, InStage
  <1>3. PICK P : P = <<w, l, o, w, e, t, w>> /\ P = Emitting(d, s)
    BY <1>2 DEF Emitting
  <1>4. /\ P \in Seq(Jobs) /\ Len(P) = 7 /\ DOMAIN P = 1 .. 7
        /\ P[1] = w /\ P[2] = l /\ P[3] = o /\ P[4] = w /\ P[5] = e /\ P[6] = t /\ P[7] = w
    BY <1>3
  <1>5. /\ w.do = "work" /\ w.dir = d /\ w.arg = s /\ o.do = "observed" /\ o.dir = d /\ o.arg = s
        /\ l.do = "line" /\ l.dir = d /\ l.arg[1] = s /\ l.arg[2] = "start"
        /\ e.do = "line" /\ e.dir = d /\ e.arg[1] = s /\ e.arg[2] = "end"
        /\ t.do = "completed" /\ t.dir = d /\ t.arg = s
    BY <1>2, JobIs
  <1>6. "work" \in OfStage /\ "observed" \in OfStage /\ "completed" \in OfStage /\ "line" \notin OfStage
        /\ OfRun = OfStage \cup {"check", "line"}
    BY DEF OfRun, OfStage, InStage
  <1>7. /\ FreshJob(P, 1, c, d) /\ FreshJob(P, 2, c, d) /\ FreshJob(P, 3, c, d) /\ FreshJob(P, 4, c, d)
        /\ FreshJob(P, 7, c, d)
    BY <1>4, <1>5, <1>6 DEF FreshJob
  <1>8. FreshJob(P, 5, c, d)
    <2>1. 5 < Len(P) /\ P[5 + 1] = Job("completed", d, s)
      BY <1>2, <1>4
    <2> QED BY <1>4, <1>5, <1>6, <2>1 DEF FreshJob
  <1>9. FreshJob(P, 6, c, d)
    <2>1. P[6 - 1] = Job("line", d, <<s, "end">>)
      BY <1>2, <1>4
    <2> QED BY <1>4, <1>5, <1>6, <2>1 DEF FreshJob
  <1>10. \A i \in 1 .. 7 : i \in {1, 2, 3, 4, 5, 6, 7}
    OBVIOUS
  <1>11. Fresh(P, c, d) /\ Unchecked(P)
    BY <1>4, <1>5, <1>7, <1>8, <1>9, <1>10 DEF Fresh, Unchecked
  <1>12. 5 \in DOMAIN P /\ P[5] = Job("line", d, <<s, "end">>)
    BY <1>2, <1>4
  <1> QED BY <1>3, <1>11, <1>12

\* What a stage turns out to do.
LEMMA StageFresh ==
  ASSUME NEW c \in Commands, c.name = "run", NEW d \in Procs, NEW s \in Stages, NEW todo \in StageJobs(d, s, c.sidecar)
  PROVE  /\ Fresh(todo, c, d) /\ Unchecked(todo) /\ todo \in Seq(Jobs) /\ todo # <<>>
         /\ c.sidecar => s \in QuietStages \/ \E i \in DOMAIN todo : Ahead(todo[i], d, s)
  <1> DEFINE w == Job("work", d, s)
             k == Job("clear", d, s)
             l == Job("line", d, <<s, "skipped">>)
             own == IF c.sidecar /\ s \notin QuietStages THEN Emitting(d, s) ELSE <<w>>
  <1>1. /\ s \in STRING /\ <<s, "skipped">> \in EventLines /\ c.sidecar \in BOOLEAN
    BY StageTyped, CommandFields DEF EventLines
  <1>2. /\ w \in Jobs /\ w.do = "work" /\ w.dir = d /\ w.arg = s
        /\ k \in Jobs /\ k.do = "clear" /\ k.dir = d /\ k.arg = s
        /\ l \in Jobs /\ l.do = "line" /\ l.dir = d /\ l.arg[1] = s /\ l.arg[2] = "skipped"
    BY <1>1, JobMade, JobIs DEF OfStage, InStage
  <1>3. \/ todo = <<>> \o own
        \/ todo = (<<w>> \o <<k>>) \o own
        \/ c.sidecar /\ todo = <<l>>
    BY <1>1 DEF StageJobs
  <1>4. /\ c.sidecar /\ s \notin QuietStages => \E i \in DOMAIN own : Ahead(own[i], d, s)
        /\ Fresh(own, c, d) /\ Unchecked(own) /\ own \in Seq(Jobs)
    <2> HIDE DEF w
    <2>1. Fresh(<<w>>, c, d) /\ Unchecked(<<w>>)
      BY <1>2, FreshAlone
    <2>2. CASE c.sidecar /\ s \notin QuietStages
      BY <2>2, EmittingFresh DEF Fresh, Ahead
    <2>3. CASE ~(c.sidecar /\ s \notin QuietStages)
      BY <2>1, <2>3 DEF Fresh
    <2> QED BY <2>2, <2>3
  <1>5. own # <<>>
    <2>1. CASE own = <<w>>
      <3> HIDE DEF own, w
      <3> QED BY <2>1
    <2>2. CASE own = Emitting(d, s)
      BY <2>2 DEF Emitting
    <2> QED BY <2>1, <2>2
  <1> HIDE DEF w, k, own
  <1>6. CASE todo = <<>> \o own
    <2>1. todo = own
      BY <1>4, <1>6
    <2> QED BY <1>4, <1>5, <2>1
  <1>7. CASE todo = (<<w>> \o <<k>>) \o own
    <2>1. Fresh(<<w>>, c, d) /\ Unchecked(<<w>>) /\ Fresh(<<k>>, c, d) /\ Unchecked(<<k>>)
      BY <1>2, FreshAlone
    <2>2. PICK S : S = <<w>> \o <<k>> /\ Fresh(S, c, d) /\ Unchecked(S)
      BY <2>1, FreshJoined
    <2>3. Fresh(todo, c, d) /\ Unchecked(todo) /\ S \in Seq(Jobs)
      BY <1>4, <1>7, <2>2, FreshJoined DEF Fresh
    <2>4. /\ todo \in Seq(Jobs) /\ Len(S) \in Nat /\ Len(own) \in Nat /\ DOMAIN own = 1 .. Len(own)
          /\ DOMAIN todo = 1 .. Len(S) + Len(own) /\ \A i \in 1 .. Len(own) : todo[Len(S) + i] = own[i]
      BY <1>4, <1>7, <2>2, <2>3, Joined
    <2>5. \A i \in DOMAIN own : Len(S) + i \in DOMAIN todo /\ todo[Len(S) + i] = own[i]
      BY <2>4
    <2>6. todo # <<>>
      <3>1. Len(own) # 0
        BY <1>4, <1>5
      <3> QED BY <2>4, <3>1
    <2>7. (\E i \in DOMAIN own : Ahead(own[i], d, s)) => \E i \in DOMAIN todo : Ahead(todo[i], d, s)
      BY <2>5
    <2> QED BY <1>4, <2>3, <2>4, <2>6, <2>7
  <1>8. CASE c.sidecar /\ todo = <<l>>
    <2>1. Ahead(l, d, s)
      BY DEF Ahead
    <2> HIDE DEF l
    <2>2. Fresh(<<l>>, c, d) /\ Unchecked(<<l>>) /\ <<l>> \in Seq(Jobs)
      BY <1>2, <1>8, FreshAlone
    <2>3. <<l>> # <<>> /\ 1 \in DOMAIN <<l>> /\ <<l>>[1] = l
      OBVIOUS
    <2> QED BY <1>8, <2>1, <2>2, <2>3
  <1> QED BY <1>3, <1>6, <1>7, <1>8

\* A pipeline run: the check, the plan, and each of its stages.
LEMMA PipelineFresh ==
  ASSUME NEW c \in Commands, NEW d \in Procs, c.name = "run"
  PROVE  /\ Fresh(PipelineJobs(d, c.sidecar), c, d)
         /\ \A s \in Stages : \E i \in DOMAIN PipelineJobs(d, c.sidecar) : Ahead(PipelineJobs(d, c.sidecar)[i], d, s)
  <1> DEFINE S == [i \in 1 .. Len(StageNames) |-> Job("stage", d, StageNames[i])]
             k == Job("check", d, None)
             l == Job("line", d, <<"pipeline", "plan">>)
             plan == IF c.sidecar THEN <<l>> ELSE <<>>
  <1>1. PICK n \in Nat : n = Len(StageNames)
    BY StageTyped
  <1>2. ASSUME NEW i \in 1 .. n
        PROVE  S[i] \in Jobs /\ S[i].do = "stage" /\ S[i].dir = d /\ S[i].arg \in Stages
    <2>1. StageNames[i] \in STRING /\ StageNames[i] \in Stages /\ S[i] = Job("stage", d, StageNames[i])
      BY <1>1, StageTyped
    <2> HIDE DEF S
    <2>2. Job("stage", d, StageNames[i]) \in Jobs
      BY <2>1, JobMade DEF OfStage
    <2> QED BY <2>1, <2>2, JobIs
  <1>3. S \in Seq(Jobs) /\ DOMAIN S = 1 .. n /\ Len(S) = n
    <2>1. S \in [1 .. n -> Jobs]
      BY <1>1, <1>2
    <2> HIDE DEF S
    <2>2. S = [i \in 1 .. n |-> S[i]] /\ \A i \in 1 .. n : S[i] \in Jobs
      BY <2>1
    <2> QED BY <2>2, n \in Nat
  <1>4. \A s \in Stages : \E i \in 1 .. n : S[i] = Job("stage", d, s)
    BY <1>1, StageTyped
  <1> HIDE DEF S
  <1>5. Fresh(S, c, d) /\ Unchecked(S)
    <2>1. ASSUME NEW i \in 1 .. n PROVE FreshJob(S, i, c, d)
      BY <1>2 DEF FreshJob, OfRun, OfStage, InStage
    <2> QED BY <1>2, <1>3, <2>1 DEF Fresh, Unchecked
  <1>6. k \in Jobs /\ k.do = "check" /\ k.dir = d
    BY JobMade, JobIs
  <1>7. l \in Jobs /\ l.do = "line" /\ l.dir = d /\ l.arg[2] = "plan"
    <2>1. <<"pipeline", "plan">> \in EventLines
      BY DEF EventLines
    <2>2. l \in Jobs
      BY <2>1, JobMade
    <2>3. l.do = "line" /\ l.dir = d /\ l.arg = <<"pipeline", "plan">>
      BY JobIs
    <2> HIDE DEF l
    <2> QED BY <2>2, <2>3
  <1> HIDE DEF k, l
  <1>8. Fresh(plan, c, d) /\ Unchecked(plan)
    <2>1. CASE c.sidecar
      BY <1>7, <2>1, FreshAlone
    <2>2. CASE ~c.sidecar
      <3>1. plan = <<>> /\ <<>> \in Seq(Jobs) /\ DOMAIN <<>> = {}
        BY <2>2
      <3> QED BY <3>1 DEF Fresh, Unchecked
    <2> QED BY <2>1, <2>2
  <1> HIDE DEF plan
  <1>9. PICK K : K = <<k>> \o plan /\ Fresh(K, c, d)
    BY <1>6, <1>8, FreshAlone, FreshJoined
  <1>10. PipelineJobs(d, c.sidecar) = K \o S
    BY <1>9 DEF PipelineJobs, k, plan, l, S
  <1>11. Fresh(K \o S, c, d)
    BY <1>5, <1>9, FreshJoined
  <1>12. ASSUME NEW i \in 1 .. n PROVE Len(K) + i \in DOMAIN (K \o S) /\ (K \o S)[Len(K) + i] = S[i]
    <2>1. K \in Seq(Jobs)
      BY <1>9 DEF Fresh
    <2>2. /\ Len(K) \in Nat /\ DOMAIN (K \o S) = 1 .. Len(K) + n /\ (K \o S)[Len(K) + i] = S[i]
      BY <1>3, <2>1, Joined
    <2> QED BY <2>2
  <1>13. \A s \in Stages : \E i \in DOMAIN (K \o S) : Ahead((K \o S)[i], d, s)
    BY <1>4, <1>12 DEF Ahead
  <1> QED BY <1>10, <1>11, <1>13

LEMMA JobsFresh ==
  ASSUME NEW c \in Commands, NEW d \in Procs
  PROVE  JobsOf(c, d) \in Seq(Jobs) /\ \A i \in DOMAIN JobsOf(c, d) : FreshJob(JobsOf(c, d), i, c, d)
  <1>1. CASE c.name = "run"
    <2>1. JobsOf(c, d) = PipelineJobs(d, c.sidecar)
      BY <1>1 DEF JobsOf
    <2> QED BY <1>1, <2>1, PipelineFresh DEF Fresh
  <1>3. CASE c.name # "run"
    <2>1. CASE JobsOf(c, d) = <<>>
      BY <2>1
    <2>2. ASSUME NEW j \in Jobs, JobsOf(c, d) = <<j>>,
                 \/ c.name \in {"tag", "untag"} /\ j.do = c.name
                 \/ c.name = "mark" /\ j.do = "status"
                 \/ c.name = "prune" /\ j.do = "select"
          PROVE  JobsOf(c, d) \in Seq(Jobs) /\ \A i \in DOMAIN JobsOf(c, d) : FreshJob(JobsOf(c, d), i, c, d)
      <3>1. /\ JobsOf(c, d) \in Seq(Jobs) /\ DOMAIN JobsOf(c, d) = {1} /\ Len(JobsOf(c, d)) = 1
            /\ JobsOf(c, d)[1] = j
        BY <2>2
      <3>2. FreshJob(JobsOf(c, d), 1, c, d)
        BY <1>3, <2>2, <3>1 DEF FreshJob, OfRun, OfStage, InStage
      <3> QED BY <3>1, <3>2
    <2> QED BY <1>3, <2>1, <2>2, OtherJobs
  <1> QED BY <1>1, <1>3

\* A job before a sequence of them.
LEMMA Prefixed ==
  ASSUME NEW j \in Jobs, NEW s \in Seq(Jobs)
  PROVE  /\ <<j>> \o s \in Seq(Jobs) /\ Len(<<j>> \o s) = Len(s) + 1 /\ Len(s) \in Nat
         /\ DOMAIN (<<j>> \o s) = 1 .. Len(s) + 1 /\ DOMAIN s = 1 .. Len(s)
         /\ (<<j>> \o s)[1] = j /\ \A i \in 1 .. Len(s) : (<<j>> \o s)[i + 1] = s[i]
         /\ <<j>> \o s # <<>> /\ Head(<<j>> \o s) = j /\ Tail(<<j>> \o s) = s
  <1>1. <<j>> \in Seq(Jobs) /\ Len(<<j>>) = 1 /\ <<j>>[1] = j
    OBVIOUS
  <1>2. PICK t \in Seq(Jobs) : t = <<j>>
    BY <1>1
  <1>3. /\ t \o s \in Seq(Jobs) /\ Len(t \o s) = Len(s) + 1 /\ Len(s) \in Nat
        /\ DOMAIN (t \o s) = 1 .. Len(s) + 1 /\ DOMAIN s = 1 .. Len(s)
        /\ (t \o s)[1] = j /\ \A i \in 1 .. Len(s) : (t \o s)[i + 1] = s[i]
    BY <1>1, <1>2
  <1>4. PICK u \in Seq(Jobs) : u = t \o s
    BY <1>3
  <1>5. u # <<>> /\ Head(u) = j
    BY <1>3, <1>4
  <1>6. Tail(u) = s
    <2>1. Tail(u) \in Seq(Jobs) /\ Len(Tail(u)) = Len(s) /\ \A i \in 1 .. Len(s) : Tail(u)[i] = s[i]
      BY <1>3, <1>4, <1>5
    <2> QED BY <2>1
  <1> QED BY <1>2, <1>3, <1>4, <1>5, <1>6

\* A process begins.
LEMMA ProgramStart ==
  ASSUME TypeOK, NEW p \in Procs, Program(p), NEW c \in Commands, cmd[p] = None, cmd' = [cmd EXCEPT ![p] = c],
         exit' = exit, NEW home \in Procs, home = IF c.home = None THEN p ELSE c.home,
         jobs' = [jobs EXCEPT ![p] = (IF c.sidecar THEN <<Job("write", home, None)>> ELSE <<>>) \o JobsOf(c, home)]
  PROVE  Program(p)' /\ jobs' \in [Procs -> Seq(Jobs)] /\ cmd'[p] = c
  <1> DEFINE P == JobsOf(c, home)
             w == Job("write", home, None)
  <1>1. cmd'[p] = c /\ exit'[p] = <<>> /\ jobs \in [Procs -> Seq(Jobs)] /\ c # None
    BY CommandFields DEF Program, TypeOK
  <1>2. Home(p)' = home
    BY <1>1 DEF Home
  <1>3. P \in Seq(Jobs) /\ (\A i \in DOMAIN P : FreshJob(P, i, c, home))
    BY JobsFresh
  <1>4. w \in Jobs /\ w.do = "write" /\ w.dir = home
    BY JobMade DEF Job
  <1> HIDE DEF P, w
  <1>5. Len(P) \in Nat /\ DOMAIN P = 1 .. Len(P) /\ <<>> \o P = P
    BY <1>3
  <1>6. CASE c.sidecar
    <2>1. jobs' = [jobs EXCEPT ![p] = <<w>> \o P]
      BY <1>6 DEF P, w
    <2>2. /\ <<w>> \o P \in Seq(Jobs) /\ Len(<<w>> \o P) = Len(P) + 1
          /\ DOMAIN (<<w>> \o P) = 1 .. Len(P) + 1
          /\ (<<w>> \o P)[1] = w /\ \A i \in 1 .. Len(P) : (<<w>> \o P)[i + 1] = P[i]
      BY <1>3, <1>4, Prefixed
    <2>3. /\ jobs' \in [Procs -> Seq(Jobs)] /\ Len(jobs'[p]) = Len(P) + 1
          /\ DOMAIN jobs'[p] = 1 .. Len(P) + 1
          /\ jobs'[p][1] = w /\ \A i \in 1 .. Len(P) : jobs'[p][i + 1] = P[i]
      BY <1>1, <2>1, <2>2
    <2>4. JobOK(p, 1)'
      BY <1>1, <1>2, <1>4, <1>6, <2>3 DEF JobOK, InStage, OfStage, OfRun
    <2>5. ASSUME NEW k \in 1 .. Len(P) PROVE JobOK(p, k + 1)'
      <3>1. FreshJob(P, k, c, home) /\ jobs'[p][k + 1] = P[k] /\ k + 1 # 1
        <4>1. k \in DOMAIN P
          BY <1>5
        <4>2. FreshJob(P, k, c, home)
          BY <1>3, <4>1, Zenon
        <4>3. jobs'[p][k + 1] = P[k]
          BY <2>3, Zenon
        <4>4. k + 1 # 1
          BY <1>5
        <4> QED BY <4>2, <4>3, <4>4, Zenon
      <3>2. ASSUME P[k].do = "completed"
            PROVE  jobs'[p][k + 1 - 1] = Job("line", P[k].dir, <<P[k].arg, "end">>)
        <4>1. k > 1 /\ P[k - 1] = Job("line", P[k].dir, <<P[k].arg, "end">>)
          BY <3>1, <3>2 DEF FreshJob
        <4>2. k - 1 \in 1 .. Len(P) /\ k - 1 + 1 = k /\ k + 1 - 1 = k
          BY <1>5, <4>1
        <4> QED BY <2>3, <4>1, <4>2
      <3>3. ASSUME P[k].do = "line", P[k].arg[2] = "end"
            PROVE  k + 1 < Len(jobs'[p]) /\ jobs'[p][k + 1 + 1] = Job("completed", P[k].dir, P[k].arg[1])
        <4>1. k < Len(P) /\ P[k + 1] = Job("completed", P[k].dir, P[k].arg[1])
          BY <3>1, <3>3 DEF FreshJob
        <4>2. k + 1 \in 1 .. Len(P)
          BY <1>5, <4>1
        <4> QED BY <1>5, <2>3, <4>1, <4>2
      <3>4. P[k].do \in {"select", "tag", "untag", "status"} => k + 1 = Len(jobs'[p])
        BY <2>3, <3>1 DEF FreshJob
      <3>5. PICK j : j = P[k] /\ j = jobs'[p][k + 1]
        BY <3>1
      <3>6. /\ j.do \notin {"write", "tags"}
            /\ j.do \in OfRun => c.name = "run"
            /\ j.do \in {"line", "observed", "completed"} => c.sidecar
            /\ j.do \in OfStage => j.arg \in Stages
            /\ j.do \in {"tag", "untag"} => c.name = j.do
            /\ c.name = "run" => j.dir = home /\ j.do \in OfRun
            /\ j.do = "line" => (j.arg[2] # "plan" => j.arg[1] \in Stages) /\ j.arg[2] # "failed"
            /\ j.do = "check" => k = 1
        BY <3>1, <3>5 DEF FreshJob
      <3>9. j.do = "check" => jobs'[p][k + 1 - 1].do = "write"
        <4>1. k = 1 => k + 1 - 1 = 1
          OBVIOUS
        <4> QED BY <1>4, <2>3, <3>6, <4>1
      <3>10. j.do \in OfRun => j.do # "status"
        BY DEF OfRun, OfStage, InStage
      <3>7. /\ j.do \in {"select", "tag", "untag", "status"} => k + 1 = Len(jobs'[p])
            /\ j.do = "completed" => jobs'[p][k + 1 - 1] = Job("line", j.dir, <<j.arg, "end">>)
            /\ j.do = "line" /\ j.arg[2] = "end" => /\ k + 1 < Len(jobs'[p])
                                                  /\ jobs'[p][k + 1 + 1] = Job("completed", j.dir, j.arg[1])
        BY <3>2, <3>3, <3>4, <3>5
      <3>8. jobs'[p][k + 1] = j /\ k + 1 # 1 /\ Home(p)' = home /\ cmd'[p] = c
        BY <1>1, <1>2, <3>1, <3>5
      <3> QED BY ONLY <3>6, <3>7, <3>8, <3>9, <3>10 DEF JobOK
    <2>6. ASSUME NEW i \in DOMAIN jobs'[p] PROVE JobOK(p, i)'
      <3>1. i = 1 \/ (i - 1 \in 1 .. Len(P) /\ i - 1 + 1 = i)
        BY <1>5, <2>3
      <3> QED BY <2>4, <2>5, <3>1
    <2> QED BY <1>1, <2>3, <2>6 DEF Program
  <1>7. CASE ~c.sidecar
    <2>1. jobs' = [jobs EXCEPT ![p] = P]
      <3>1. jobs' = [jobs EXCEPT ![p] = <<>> \o P]
        BY <1>7 DEF P
      <3> QED BY <1>5, <3>1
    <2>2. jobs' \in [Procs -> Seq(Jobs)] /\ jobs'[p] = P
      BY <1>1, <1>3, <2>1
    <2>3. ASSUME NEW i \in DOMAIN P PROVE JobOK(p, i)'
      <3>1. FreshJob(P, i, c, home) /\ Len(jobs'[p]) = Len(P)
        BY <1>3, <2>2
      <3>2. PICK j : j = P[i] /\ j = jobs'[p][i]
        BY <2>2
      <3>3. /\ j.do \notin {"write", "tags", "line", "observed", "completed"}
            /\ j.do \in {"select", "tag", "untag", "status"} => i = Len(jobs'[p])
            /\ j.do \in OfRun => c.name = "run"
            /\ j.do \in OfStage => j.arg \in Stages
            /\ j.do \in {"tag", "untag"} => c.name = j.do
            /\ c.name = "run" => j.dir = home /\ j.do \in OfRun
            /\ j.do = "check" => i = 1
        BY <1>7, <3>1, <3>2 DEF FreshJob
      <3>4. jobs'[p][i] = j /\ Home(p)' = home /\ cmd'[p] = c
        BY <1>1, <1>2, <3>2
      <3>5. j.do \in OfRun => j.do # "status"
        BY DEF OfRun, OfStage, InStage
      <3> QED BY ONLY <3>3, <3>4, <3>5 DEF JobOK
    <2> QED BY <1>1, <2>2, <2>3 DEF Program
  <1>8. c.sidecar \in BOOLEAN
    BY CommandFields
  <1> QED BY <1>1, <1>6, <1>7, <1>8

\* A stage is dispatched: what it does comes before the stages after it.
LEMMA ProgramDispatched ==
  ASSUME TypeOK, NEW p \in Procs, Program(p), jobs[p] # <<>>, Does(p) = "stage",
         NEW todo, Fresh(todo, cmd[p], Home(p)), Unchecked(todo), todo # <<>>,
         jobs'[p] = todo \o Tail(jobs[p]), exit'[p] = exit[p], cmd'[p] = cmd[p]
  PROVE  Program(p)'
  <1> DEFINE T == Tail(jobs[p])
             U == todo \o T
             m == Len(todo)
             n == Len(T)
  <1>1. /\ T \in Seq(Jobs) /\ todo \in Seq(Jobs) /\ Len(jobs[p]) = n + 1 /\ Head(jobs[p]) = jobs[p][1]
        /\ DOMAIN jobs[p] = 1 .. n + 1 /\ n \in Nat /\ \A i \in 1 .. n : T[i] = jobs[p][i + 1]
    <2>1. /\ T \in Seq(Jobs) /\ todo \in Seq(Jobs) /\ Head(jobs[p]) = jobs[p][1] /\ Len(jobs[p]) \in Nat \ {0}
          /\ DOMAIN jobs[p] = 1 .. Len(jobs[p]) /\ n = Len(jobs[p]) - 1
          /\ \A i \in 1 .. Len(jobs[p]) - 1 : T[i] = jobs[p][i + 1]
      BY AtHead DEF Fresh
    <2> HIDE DEF T, n
    <2> QED BY <2>1
  <1>2. /\ U \in Seq(Jobs) /\ m \in Nat /\ Len(U) = m + n
        /\ DOMAIN todo = 1 .. m /\ DOMAIN T = 1 .. n /\ DOMAIN U = 1 .. m + n
        /\ \A i \in 1 .. m : U[i] = todo[i]
        /\ \A i \in 1 .. n : U[m + i] = T[i]
        /\ \A i \in 1 .. m + n : i \in 1 .. m \/ \E k \in 1 .. n : i = m + k
        /\ m > 0
    <2>1. Len(todo) # 0 /\ todo \in Seq(Jobs) /\ T \in Seq(Jobs)
      <3> HIDE DEF T
      <3> QED BY <1>1
    <2>2. /\ U \in Seq(Jobs) /\ m \in Nat /\ n \in Nat /\ Len(U) = m + n
          /\ DOMAIN todo = 1 .. m /\ DOMAIN T = 1 .. n /\ DOMAIN U = 1 .. m + n
          /\ \A i \in 1 .. m : U[i] = todo[i]
          /\ \A i \in 1 .. n : U[m + i] = T[i]
          /\ \A i \in 1 .. m + n : i \in 1 .. m \/ \E k \in 1 .. n : i = m + k
      <3> HIDE DEF T
      <3> QED BY <2>1, Joined
    <2>3. m > 0
      <3>1. m \in Nat /\ m # 0
        BY <2>1, <2>2
      <3> HIDE DEF m
      <3> QED BY <3>1
    <2> QED BY <2>2, <2>3
  <1>3. jobs'[p] = U /\ HookOf(p)' = HookOf(p) /\ Home(p)' = Home(p)
    BY DEF HookOf, Home
  <1> HIDE DEF T, U, m, n
  <1>4. JobOK(p, 1) /\ cmd[p] # None
    <2>1. 1 \in DOMAIN jobs[p]
      BY <1>1
    <2> QED BY <2>1 DEF Program
  <1>5. cmd[p].name = "run"
    BY <1>1, <1>4 DEF JobOK, Does, OfRun, OfStage
  <1>6. ASSUME NEW i \in 1 .. m PROVE JobOK(p, i)'
    <2>1. FreshJob(todo, i, cmd[p], Home(p)) /\ Len(todo) = m /\ U[i] = todo[i]
      BY <1>2 DEF Fresh, m
    <2>2. PICK j : j = todo[i] /\ j = U[i]
      BY <2>1
    <2>3. ASSUME j.do = "completed" PROVE i # 1 /\ U[i - 1] = Job("line", j.dir, <<j.arg, "end">>)
      <3>1. i > 1 /\ todo[i - 1] = Job("line", j.dir, <<j.arg, "end">>)
        BY <2>1, <2>2, <2>3 DEF FreshJob
      <3>2. i - 1 \in 1 .. m
        BY <1>2, <3>1
      <3> QED BY <1>2, <3>1, <3>2
    <2>4. ASSUME j.do = "line", j.arg[2] = "end" PROVE i < Len(U) /\ U[i + 1] = Job("completed", j.dir, j.arg[1])
      <3>1. i < m /\ todo[i + 1] = Job("completed", j.dir, j.arg[1])
        BY <2>1, <2>2, <2>4 DEF FreshJob
      <3>2. i + 1 \in 1 .. m /\ i < m + n
        BY <1>1, <1>2, <3>1
      <3> QED BY <1>2, <3>1, <3>2
    <2>5. j.do \in OfRun /\ j.do \notin {"select", "tag", "untag", "status", "write", "tags", "check"}
      BY <1>2, <1>5, <2>1, <2>2 DEF FreshJob, OfRun, OfStage, InStage, Unchecked
    <2>6. /\ j.do \in {"line", "observed", "completed"} => cmd[p].sidecar
          /\ j.do \in OfStage => j.arg \in Stages
          /\ j.dir = Home(p)
          /\ j.do = "line" => (j.arg[2] # "plan" => j.arg[1] \in Stages) /\ j.arg[2] # "failed"
      BY <1>5, <2>1, <2>2 DEF FreshJob
    <2>7. jobs'[p][i] = j
      BY <1>3, <2>2
    <2> QED BY <1>3, <1>5, <2>3, <2>4, <2>5, <2>6, <2>7 DEF JobOK
  <1>7. ASSUME NEW k \in 1 .. n PROVE JobOK(p, m + k)'
    <2>1. k + 1 \in 1 .. n + 1 /\ k \in 1 .. n + 1 /\ k + 1 # 1
      BY <1>1
    <2>2. JobOK(p, k + 1) /\ JobOK(p, k)
      BY <1>1, <2>1 DEF Program
    <2>3. PICK j : j = jobs[p][k + 1] /\ j = T[k] /\ j = U[m + k]
      BY <1>1, <1>2
    <2>4. PICK i \in Int : i = m + k /\ i > 1
      BY <1>2
    <2>5. ASSUME j.do = "completed" PROVE U[i - 1] = Job("line", j.dir, <<j.arg, "end">>)
      <3>1. jobs[p][k] = Job("line", j.dir, <<j.arg, "end">>)
        <4>1. jobs[p][k + 1 - 1] = Job("line", j.dir, <<j.arg, "end">>) /\ k + 1 - 1 = k
          BY <2>1, <2>2, <2>3, <2>5 DEF JobOK
        <4> QED BY <4>1
      <3>2. k # 1
        BY <1>1, <3>1, JobIs DEF Does
      <3>3. PICK h \in 1 .. n : h + 1 = k /\ m + h = i - 1
        <4>1. k - 1 \in 1 .. n /\ k - 1 + 1 = k /\ m + (k - 1) = i - 1
          BY <1>1, <1>2, <2>4, <3>2
        <4> QED BY <4>1
      <3>4. U[i - 1] = T[h] /\ T[h] = jobs[p][k]
        <4>1. U[m + h] = T[h] /\ T[h] = jobs[p][h + 1]
          BY <1>1, <1>2
        <4> QED BY <3>3, <4>1
      <3> QED BY <3>1, <3>4
    <2>6. ASSUME j.do = "line", j.arg[2] = "end" PROVE i < Len(U) /\ U[i + 1] = Job("completed", j.dir, j.arg[1])
      <3>1. k + 1 < n + 1 /\ jobs[p][k + 1 + 1] = Job("completed", j.dir, j.arg[1])
        BY <1>1, <2>2, <2>3, <2>6 DEF JobOK
      <3>2. k + 1 \in 1 .. n /\ m + (k + 1) = i + 1 /\ i < m + n
        <4>1. m \in Nat /\ n \in Nat /\ k + 1 < n + 1
          BY <1>1, <1>2, <3>1
        <4> QED BY <2>4, <4>1
      <3> QED BY <1>1, <1>2, <3>1, <3>2
    <2>7. j.do \notin {"write", "tags", "check"} /\ (j.do = "line" => j.arg[2] # "failed")
      <3>1. j.do = "check" => jobs[p][k].do = "write"
        <4>1. k + 1 - 1 = k
          OBVIOUS
        <4> QED BY <2>1, <2>2, <2>3, <4>1 DEF JobOK
      <3>2. jobs[p][k].do = "write" => k = 1
        BY <2>2 DEF JobOK
      <3>3. k = 1 => jobs[p][k].do = "stage"
        BY <1>1 DEF Does
      <3> QED BY <2>1, <2>2, <2>3, <3>1, <3>2, <3>3 DEF JobOK
    <2>8. j.do \in {"select", "tag", "untag", "status"} => i = Len(U)
      <3>1. j.do \in {"select", "tag", "untag", "status"} => k + 1 = n + 1
        BY <1>1, <2>2, <2>3 DEF JobOK
      <3> QED BY <1>1, <1>2, <2>4, <3>1
    <2>9. /\ j.do \in {"line", "observed", "completed"} => cmd[p].sidecar
          /\ j.do \in OfStage => j.arg \in Stages
          /\ j.do \notin {"tag", "untag"}
          /\ j.dir = Home(p) /\ j.do \in OfRun \cup {"write", "status"}
          /\ j.do = "status" => cmd[p].sidecar
          /\ j.do = "line" => (j.arg[2] # "plan" => j.arg[1] \in Stages)
      BY <1>5, <2>2, <2>3 DEF JobOK
    <2>10. jobs'[p][i] = j
      BY <1>3, <2>3, <2>4
    <2>11. /\ j.do = "completed" => jobs'[p][i - 1] = Job("line", j.dir, <<j.arg, "end">>)
           /\ j.do = "line" /\ j.arg[2] = "end" =>
                i < Len(jobs'[p]) /\ jobs'[p][i + 1] = Job("completed", j.dir, j.arg[1])
           /\ j.do \in {"select", "tag", "untag", "status"} => i = Len(jobs'[p])
      BY <1>3, <2>5, <2>6, <2>8
    <2>12. i # 1 /\ cmd'[p] = cmd[p]
      BY <2>4
    <2>13. JobOK(p, i)'
      BY ONLY <1>3, <1>5, <2>7, <2>9, <2>10, <2>11, <2>12 DEF JobOK
    <2>14. \A h : h = i => JobOK(p, h)'
      BY <2>13
    <2> QED BY <2>4, <2>14
  <1>8. Program(p)'
    <2>1. ASSUME NEW i \in 1 .. m + n PROVE JobOK(p, i)'
      <3>1. CASE i \in 1 .. m
        BY <1>6, <3>1
      <3>2. ASSUME NEW k \in 1 .. n, i = m + k PROVE JobOK(p, i)'
        <4>1. JobOK(p, m + k)'
          BY <1>7
        <4>2. \A h : h = m + k => JobOK(p, h)'
          BY <4>1
        <4> QED BY <3>2, <4>2
      <3> QED BY <1>2, <3>1, <3>2
    <2>2. DOMAIN jobs'[p] = 1 .. m + n
      BY <1>2, <1>3
    <2>3. /\ cmd'[p] = None => jobs'[p] = <<>> /\ exit'[p] = <<>>
          /\ exit'[p] # <<>> => cmd'[p].sidecar /\ exit'[p] = HookOf(p)'
      BY <1>3, <1>4 DEF Program
    <2> QED BY <2>1, <2>2, <2>3 DEF Program
  <1> QED BY <1>8

-----------------------------------------------------------------------------
(* Types, programs and replacements are kept by every step *)

Core == TypeOK /\ Programs /\ Replacements

LEMMA CoreFirst == Init => Core
  <1> SUFFICES ASSUME Init PROVE Core
    OBVIOUS
  <1>1. <<>> \in Seq(Jobs) /\ <<>> \in Seq(EventLines)
    OBVIOUS
  <1>2. TypeOK
    BY <1>1 DEF Init, TypeOK
  <1>3. Programs /\ Replacements
    BY DEF Init, Programs, Program, Replacements, Replacement
  <1> QED BY <1>2, <1>3 DEF Core

LEMMA Contends ==
  ASSUME TypeOK, Contention
  PROVE  contended \subseteq contended' /\ contended' \subseteq Procs
  BY DEF TypeOK, Contention

LEMMA SameGrows ==
  ASSUME pruned' = pruned, lines' = lines PROVE Grows
  BY DEF Grows

LEMMA ReplacementKept ==
  ASSUME NEW q, Replacement(q), jobs'[q] = jobs[q], step'[q] = step[q], held'[q] = held[q],
         fd'[q] = None <=> fd[q] = None
  PROVE  Replacement(q)'
  BY DEF Replacement, Does

\* The others keep their programs and replacements.
LEMMA OthersCore ==
  ASSUME Core, NEW p \in Procs, Grows, OthersKept(p), Program(p)', Replacement(p)',
         \A q \in Procs \ {p} : /\ cmd'[q] = cmd[q] /\ step'[q] = step[q] /\ held'[q] = held[q]
                                /\ fd'[q] = None <=> fd[q] = None
  PROVE  Programs' /\ Replacements'
  <1>1. ASSUME NEW q \in Procs \ {p} PROVE Program(q)' /\ Replacement(q)'
    BY ProgramKept, ReplacementKept DEF Core, Programs, Replacements, OthersKept
  <1> QED BY <1>1 DEF Programs, Replacements

LEMMA StartCore ==
  ASSUME Core, Contention, NEW p \in Procs, NEW c \in CommandsOf[p], Start(p, c)
  PROVE  Core'
  <1> DEFINE home == IF c.home = None THEN p ELSE c.home
  <1>1. c \in Commands /\ home \in Procs
    BY RunRegistryAssumption, CommandFields
  <1>2. /\ cmd[p] = None /\ cmd' = [cmd EXCEPT ![p] = c] /\ exit' = exit
        /\ jobs' = [jobs EXCEPT ![p] = (IF c.sidecar THEN <<Job("write", home, None)>> ELSE <<>>) \o JobsOf(c, home)]
    BY DEF Start
  <1>3. /\ UNCHANGED <<manifest, tmp, lines, births, step, held, fd, raised, kills, pruned, marked, tagged>>
    BY DEF Start, files, where, history
  <1>4. TypeOK /\ Program(p) /\ Replacement(p)
    BY DEF Core, Programs, Replacements
  <1> HIDE DEF home
  <1>5. Program(p)' /\ jobs' \in [Procs -> Seq(Jobs)]
    <2>1. home = IF c.home = None THEN p ELSE c.home
      BY DEF home
    <2> QED BY <1>1, <1>2, <1>4, <2>1, ProgramStart
  <1>6. TypeOK'
    <2>1. cmd' \in [Procs -> Commands \cup {None}]
      BY <1>1, <1>2, <1>4 DEF TypeOK
    <2> QED BY <1>2, <1>3, <1>4, <1>5, <2>1, Contends DEF TypeOK
  <1>7. step[p] = "ready"
    BY <1>2, <1>4 DEF Program, Replacement
  <1>8. Replacement(p)'
    BY <1>3, <1>4, <1>7 DEF Replacement
  <1>9. OthersKept(p) /\ \A q \in Procs \ {p} : cmd'[q] = cmd[q]
    BY <1>2, <1>4 DEF OthersKept, TypeOK
  <1>10. Programs' /\ Replacements'
    BY <1>3, <1>5, <1>8, <1>9, SameGrows, OthersCore
  <1> QED BY <1>6, <1>10 DEF Core

LEMMA KillCore ==
  ASSUME Core, Contention, NEW p \in Procs, Kill(p)
  PROVE  Core'
  <1>1. /\ jobs[p] # <<>> /\ kills' = kills + 1
        /\ jobs' = [jobs EXCEPT ![p] = <<>>] /\ exit' = [exit EXCEPT ![p] = <<>>]
        /\ step' = [step EXCEPT ![p] = "ready"] /\ held' = [held EXCEPT ![p] = None]
        /\ fd' = [fd EXCEPT ![p] = None]
        /\ UNCHANGED <<manifest, tmp, lines, births, cmd, raised, pruned, marked, tagged>>
    BY DEF Kill, files, history
  <1>2. TypeOK /\ Program(p) /\ cmd[p] # None
    BY <1>1 DEF Core, Programs, Program
  <1>3. TypeOK'
    <2>1. <<>> \in Seq(Jobs)
      OBVIOUS
    <2> QED BY <1>1, <1>2, <2>1, Contends DEF TypeOK
  <1>4. /\ jobs'[p] = <<>> /\ exit'[p] = <<>> /\ step'[p] = "ready" /\ held'[p] = None /\ fd'[p] = None
        /\ \A q \in Procs \ {p} : /\ jobs'[q] = jobs[q] /\ exit'[q] = exit[q] /\ step'[q] = step[q]
                                  /\ held'[q] = held[q] /\ fd'[q] = fd[q]
    BY <1>1, <1>2 DEF TypeOK
  <1>5. Program(p)' /\ Replacement(p)'
    BY <1>1, <1>2, <1>4 DEF Program, Replacement
  <1>6. Programs' /\ Replacements'
    BY <1>1, <1>4, <1>5, SameGrows, OthersCore DEF OthersKept
  <1> QED BY <1>3, <1>6 DEF Core

\* A copy is taken up, and nothing else.
LEMMA ReplacingCore ==
  ASSUME Core, Contention, NEW p \in Procs, jobs[p] # <<>>, step[p] = "ready", NEW m \in Manifests, Replacing(p, m),
         UNCHANGED <<manifest, tmp, lines, cmd, fd, kills, pruned, marked, tagged>>, births' \in Nat,
         Does(p) \in Updates \cup {"write"},
         Does(p) = "tags" => m.tags = Head(jobs[p]).arg,
         Does(p) = "write" => m.completed = {} /\ m.status = "running"
  PROVE  /\ Core' /\ step'[p] = "open" /\ held'[p] = m /\ UNCHANGED <<jobs, exit, raised>>
         /\ \A q \in Procs \ {p} : step'[q] = step[q] /\ held'[q] = held[q]
  <1>1. /\ step' = [step EXCEPT ![p] = "open"] /\ held' = [held EXCEPT ![p] = m]
        /\ UNCHANGED <<jobs, exit, raised>>
    BY DEF Replacing
  <1>2. TypeOK /\ Program(p) /\ Replacement(p)
    BY DEF Core, Programs, Replacements
  <1>3. TypeOK'
    BY <1>1, <1>2, Contends DEF TypeOK
  <1>4. /\ step'[p] = "open" /\ held'[p] = m /\ fd'[p] = None
        /\ \A q \in Procs \ {p} : step'[q] = step[q] /\ held'[q] = held[q]
    BY <1>1, <1>2 DEF TypeOK, Replacement
  <1>5. Replacement(p)'
    BY <1>1, <1>4 DEF Replacement, Does
  <1>6. Program(p)' /\ OthersKept(p)
    BY <1>1, <1>2, SameGrows, ProgramKept DEF OthersKept
  <1>7. Programs' /\ Replacements'
    BY <1>4, <1>5, <1>6, SameGrows, OthersCore
  <1> QED BY <1>1, <1>3, <1>4, <1>7 DEF Core

\* A job is done or raises: whatever it was, the process is ready for the next.
LEMMA MovesCore ==
  ASSUME Core, Contention, NEW p \in Procs, jobs[p] # <<>>, Grows, OthersKept(p),
         jobs' \in [Procs -> Seq(Jobs)], exit' \in [Procs -> Seq(Jobs)],
         Program(p)', cmd' = cmd, births' = births, kills' = kills,
         manifest' \in [Procs -> Manifests \cup {None, Torn}], tmp' \in [Procs -> Manifests \cup {None, Torn}],
         lines' \in [Procs -> Seq(EventLines)],
         raised' \in [Procs -> {None, "manifest", "work", "usage"}],
         step' = [step EXCEPT ![p] = "ready"], held' = [held EXCEPT ![p] = None],
         fd' \in [Procs -> {None, "tmp", "manifest", "gone"}], fd'[p] = None,
         \A q \in Procs \ {p} : fd'[q] = None <=> fd[q] = None,
         pruned' \subseteq Procs, marked' \subseteq Procs, tagged' \subseteq Procs
  PROVE  Core'
  <1>1. TypeOK
    BY DEF Core
  <1>2. TypeOK'
    BY <1>1, Contends DEF TypeOK
  <1>3. /\ step'[p] = "ready" /\ held'[p] = None
        /\ \A q \in Procs \ {p} : cmd'[q] = cmd[q] /\ step'[q] = step[q] /\ held'[q] = held[q]
    BY <1>1 DEF TypeOK
  <1>4. Replacement(p)'
    BY <1>3 DEF Replacement
  <1>5. Programs' /\ Replacements'
    BY <1>3, <1>4, OthersCore
  <1> QED BY <1>2, <1>5 DEF Core

\* A process that is ready holds nothing.
LEMMA ReadyHoldsNothing ==
  ASSUME Core, NEW p \in Procs, step[p] = "ready"
  PROVE  held[p] = None /\ fd[p] = None /\ step = [step EXCEPT ![p] = "ready"] /\ held = [held EXCEPT ![p] = None]
  <1>1. held[p] = None /\ fd[p] = None
    BY DEF Core, Replacements, Replacement
  <1>2. step \in [Procs -> {"ready", "open", "fill", "replace"}] /\ held \in [Procs -> Manifests \cup {None}]
    BY DEF Core, TypeOK
  <1> QED BY <1>1, <1>2

-----------------------------------------------------------------------------
(* What each action does *)

Keeps == UNCHANGED <<manifest, tmp, lines, cmd, kills, pruned, marked, tagged>>
\* The job is done.
Moves(p) == Tailed(p) \/ (Len(jobs[p]) = 1 /\ Leaves(p))
\* It raised.
Fell(p, why) ==
  /\ (~(exit[p] # <<>> /\ Does(p) \in InStage) /\ Leaves(p)) \/ Fails(p)
  /\ raised'[p] = why /\ \A q \in Procs \ {p} : raised'[q] = raised[q]

LEMMA MovedProgram ==
  ASSUME TypeOK, NEW p \in Procs, Program(p), Grows, jobs[p] # <<>>, Moves(p) \/ (\E why \in {"manifest", "work", "usage"} : Fell(p, why)),
         cmd'[p] = cmd[p],
         \A s \in STRING : Head(jobs[p]) = Job("line", Target(p), <<s, "end">>)
            => Target(p) \in pruned' \/ <<s, "end">> \in ToSet(lines'[Target(p)])
  PROVE  Program(p)'
  <1>1. CASE Tailed(p)
    BY <1>1, ProgramTailed
  <1>2. CASE Leaves(p)
    BY <1>2, ProgramLeaves
  <1>3. CASE Fails(p)
    BY <1>3, ProgramFails
  <1> QED BY <1>1, <1>2, <1>3 DEF Moves, Fell

\* A job that is no line leaves no line to be looked for.
LEMMA NoLine ==
  ASSUME NEW p, Does(p) # "line"
  PROVE  \A s \in STRING : Head(jobs[p]) # Job("line", Target(p), <<s, "end">>)
  BY DEF Does, Job

LEMMA WriteDoes ==
  ASSUME Core, Contention, NEW p \in Procs, WriteInitial(p)
  PROVE  /\ Core' /\ Keeps /\ UNCHANGED <<jobs, exit, fd, raised>>
         /\ jobs[p] # <<>> /\ step[p] = "ready" /\ Does(p) = "write"
         /\ step'[p] = "open" /\ held'[p] \in Manifests
         /\ held'[p].completed = {} /\ held'[p].status = "running"
         /\ \A q \in Procs \ {p} : step'[q] = step[q] /\ held'[q] = held[q]
  <1> DEFINE m == [started |-> births, status |-> "running", observed |-> {}, completed |-> {}, tags |-> {}]
  <1>1. /\ jobs[p] # <<>> /\ step[p] = "ready" /\ Does(p) = "write" /\ Replacing(p, m) /\ births' = births + 1
        /\ UNCHANGED <<manifest, tmp, lines, cmd, fd, kills, pruned, marked, tagged>>
    BY DEF WriteInitial, Doing, Does, files, history
  <1>2. births \in Nat
    BY DEF Core, TypeOK
  <1>3. m \in Manifests /\ m.completed = {} /\ m.status = "running"
    <2>1. m.completed = {} /\ m.status = "running"
      OBVIOUS
    <2>2. {} \in SUBSET STRING
      OBVIOUS
    <2>3. "running" \in Statuses
      BY DEF Statuses
    <2>4. m \in Manifests
      BY <1>2, <2>2, <2>3 DEF Manifests
    <2> QED BY <2>1, <2>4
  <1> HIDE DEF m
  <1> QED BY <1>1, <1>2, <1>3, ReplacingCore DEF Keeps

LEMMA ReadDoes ==
  ASSUME Core, Contention, NEW p \in Procs, ReadForUpdate(p)
  PROVE  /\ Core' /\ Keeps /\ UNCHANGED fd /\ OthersKept(p)
         /\ jobs[p] # <<>> /\ step[p] = "ready" /\ Does(p) \in Updates /\ Target(p) \in Procs
         /\ \A q \in Procs \ {p} : step'[q] = step[q] /\ held'[q] = held[q]
         /\ \/ manifest[Target(p)] = Torn /\ Fell(p, "manifest") /\ UNCHANGED <<step, held>>
            \/ /\ \/ manifest[Target(p)] = None
                  \/ /\ Does(p) \in {"observed", "completed"} /\ Readable(manifest[Target(p)])
                     /\ Updated(manifest[Target(p)], Head(jobs[p])) = manifest[Target(p)]
               /\ Moves(p) /\ UNCHANGED <<step, held, raised>>
            \/ /\ Readable(manifest[Target(p)]) /\ step'[p] = "open"
               /\ held'[p] = Updated(manifest[Target(p)], Head(jobs[p])) /\ UNCHANGED <<jobs, exit, raised>>
  <1>1. /\ jobs[p] # <<>> /\ step[p] = "ready" /\ Does(p) \in Updates
        /\ UNCHANGED <<manifest, tmp, lines, births, cmd, kills, pruned, marked, tagged>>
    BY DEF ReadForUpdate, Doing, Does, files, history
  <1>2. /\ TypeOK /\ Program(p) /\ Head(jobs[p]) \in Jobs /\ Target(p) \in Procs
        /\ manifest[Target(p)] \in Manifests \cup {None, Torn}
    BY <1>1, AtHead DEF Core, Programs, TypeOK
  <1>3. held[p] = None /\ fd[p] = None /\ step = [step EXCEPT ![p] = "ready"] /\ held = [held EXCEPT ![p] = None]
    BY <1>1, ReadyHoldsNothing
  <1>4. Does(p) # "line"
    BY <1>1 DEF Updates
  <1>5. ASSUME OthersKept(p), jobs' \in [Procs -> Seq(Jobs)], exit' \in [Procs -> Seq(Jobs)],
               Moves(p) \/ (\E why \in {"manifest", "work", "usage"} : Fell(p, why)),
               raised' \in [Procs -> {None, "manifest", "work", "usage"}], UNCHANGED where
        PROVE  Core'
    <2>1. Program(p)'
      BY <1>1, <1>2, <1>4, <1>5, MovedProgram, SameGrows, NoLine
    <2> QED BY <1>1, <1>2, <1>3, <1>5, <2>1, SameGrows, MovesCore DEF where, TypeOK
  <1>6. CASE manifest[Target(p)] = Torn /\ Raise(p, "manifest") /\ UNCHANGED where
    <2>1. Fell(p, "manifest") /\ OthersKept(p)
      BY <1>1, <1>2, <1>6, Raises DEF Fell
    <2>2. Core'
      BY <1>1, <1>2, <1>5, <1>6, <2>1, Raises
    <2> QED BY <1>1, <1>2, <1>6, <2>1, <2>2 DEF Keeps, where
  <1>7. CASE /\ \/ manifest[Target(p)] = None
                \/ /\ Does(p) \in {"observed", "completed"} /\ Readable(manifest[Target(p)])
                   /\ Updated(manifest[Target(p)], Head(jobs[p])) = manifest[Target(p)]
             /\ Advance(p) /\ UNCHANGED <<where, raised>>
    <2>1. Moves(p) /\ OthersKept(p)
      BY <1>1, <1>2, <1>7, Advances DEF Moves
    <2>2. raised' \in [Procs -> {None, "manifest", "work", "usage"}]
      BY <1>2, <1>7 DEF TypeOK
    <2>3. Core'
      BY <1>1, <1>2, <1>5, <1>7, <2>1, <2>2, Advances
    <2> QED BY <1>1, <1>2, <1>7, <2>1, <2>3 DEF Keeps, where
  <1>8. CASE /\ Readable(manifest[Target(p)])
             /\ Replacing(p, Updated(manifest[Target(p)], Head(jobs[p]))) /\ UNCHANGED fd
    <2> DEFINE m == Updated(manifest[Target(p)], Head(jobs[p]))
    <2>1. m \in Manifests
      BY <1>1, <1>2, <1>8, UpdatedTyped DEF Readable, Does
    <2>2. Does(p) = "tags" => m.tags = Head(jobs[p]).arg
      BY <1>2, <1>8 DEF Updated, Does, Readable, Manifests
    <2>3. Does(p) # "write" /\ Does(p) \in Updates \cup {"write"} /\ births' \in Nat
      BY <1>1, <1>2 DEF Updates, TypeOK
    <2> HIDE DEF m
    <2>4. Replacing(p, m)
      BY <1>8 DEF m
    <2>5. /\ Core' /\ step'[p] = "open" /\ held'[p] = m /\ UNCHANGED <<jobs, exit, raised>>
          /\ \A q \in Procs \ {p} : step'[q] = step[q] /\ held'[q] = held[q]
      BY <1>1, <1>8, <2>1, <2>2, <2>3, <2>4, ReplacingCore
    <2> QED BY <1>1, <1>2, <1>8, <2>5 DEF Keeps, OthersKept, m
  <1> QED
    <2>1. <1>6!1 \/ <1>7!1 \/ <1>8!1
      BY DEF ReadForUpdate, Does, Target
    <2> QED BY <2>1, <1>6, <1>7, <1>8

\* Files, marks and tags stay, and nobody takes up or goes on with a copy.
Idle ==
  /\ UNCHANGED <<manifest, tmp, pruned, marked, tagged>>
  /\ \A q \in Procs : step'[q] # "ready" =>
       /\ step[q] = step'[q] /\ held'[q] = held[q] /\ fd'[q] = fd[q] /\ jobs'[q] = jobs[q] /\ cmd'[q] = cmd[q]

LEMMA StillIdle ==
  ASSUME NEW p \in Procs, step[p] = "ready", UNCHANGED where, OthersKept(p), UNCHANGED cmd,
         UNCHANGED <<manifest, tmp, pruned, marked, tagged>>
  PROVE  Idle
  BY DEF Idle, where, OthersKept

\* A process that is ready goes on to its next job, and the files stay.
LEMMA ReadyMoves ==
  ASSUME Core, Contention, NEW p \in Procs, jobs[p] # <<>>, step[p] = "ready", OthersKept(p), Grows,
         jobs' \in [Procs -> Seq(Jobs)], exit' \in [Procs -> Seq(Jobs)],
         raised' \in [Procs -> {None, "manifest", "work", "usage"}], Program(p)',
         UNCHANGED <<manifest, tmp, births, cmd, kills, pruned, marked, tagged>>, UNCHANGED where,
         lines' \in [Procs -> Seq(EventLines)]
  PROVE  Core' /\ Idle
  <1>1. fd[p] = None /\ step = [step EXCEPT ![p] = "ready"] /\ held = [held EXCEPT ![p] = None]
    BY ReadyHoldsNothing
  <1>2. TypeOK
    BY DEF Core
  <1>3. Core'
    BY <1>1, <1>2, MovesCore DEF where, TypeOK
  <1> QED BY <1>3, StillIdle

LEMMA WorkDoes ==
  ASSUME Core, Contention, NEW p \in Procs, Work(p)
  PROVE  /\ Core' /\ Idle /\ OthersKept(p) /\ UNCHANGED <<lines, cmd>>
         /\ jobs[p] # <<>> /\ step[p] = "ready" /\ step'[p] = "ready" /\ Does(p) = "work"
         /\ (Moves(p) /\ UNCHANGED raised) \/ Fell(p, "work")
  <1>1. /\ jobs[p] # <<>> /\ step[p] = "ready" /\ Does(p) = "work" /\ UNCHANGED where
        /\ UNCHANGED <<manifest, tmp, lines, births, cmd, kills, pruned, marked, tagged>>
    BY DEF Work, Doing, Does, files, history
  <1>2. TypeOK /\ Program(p) /\ Grows
    BY <1>1, SameGrows DEF Core, Programs
  <1>3. /\ jobs' \in [Procs -> Seq(Jobs)] /\ exit' \in [Procs -> Seq(Jobs)] /\ OthersKept(p)
        /\ raised' \in [Procs -> {None, "manifest", "work", "usage"}]
        /\ (Moves(p) /\ UNCHANGED raised) \/ Fell(p, "work")
    <2>1. CASE Advance(p) /\ UNCHANGED raised
      BY <1>1, <1>2, <2>1, Advances DEF Moves, TypeOK
    <2>2. CASE Raise(p, "work")
      BY <1>1, <1>2, <2>2, Raises DEF Fell
    <2> QED BY <2>1, <2>2 DEF Work
  <1>4. Program(p)'
    BY <1>1, <1>2, <1>3, MovedProgram, NoLine
  <1>5. Core' /\ Idle
    BY <1>1, <1>2, <1>3, <1>4, ReadyMoves DEF TypeOK
  <1> QED BY <1>1, <1>3, <1>5 DEF where

LEMMA CheckDoes ==
  ASSUME Core, Contention, NEW p \in Procs, Check(p)
  PROVE  /\ Core' /\ Idle /\ OthersKept(p) /\ UNCHANGED <<lines, cmd>>
         /\ jobs[p] # <<>> /\ step[p] = "ready" /\ step'[p] = "ready" /\ Does(p) = "check"
         /\ (Moves(p) /\ UNCHANGED raised) \/ (Leaves(p) /\ Fell(p, "usage"))
  <1>1. /\ jobs[p] # <<>> /\ step[p] = "ready" /\ Does(p) = "check" /\ UNCHANGED where
        /\ UNCHANGED <<manifest, tmp, lines, births, cmd, kills, pruned, marked, tagged>>
    BY DEF Check, Doing, Does, files, history
  <1>2. TypeOK /\ Program(p) /\ Grows
    BY <1>1, SameGrows DEF Core, Programs
  <1>3. /\ jobs' \in [Procs -> Seq(Jobs)] /\ exit' \in [Procs -> Seq(Jobs)] /\ OthersKept(p)
        /\ raised' \in [Procs -> {None, "manifest", "work", "usage"}]
        /\ (Moves(p) /\ UNCHANGED raised) \/ (Leaves(p) /\ Fell(p, "usage"))
    <2>1. CASE Advance(p) /\ UNCHANGED raised
      BY <1>1, <1>2, <2>1, Advances DEF Moves, TypeOK
    <2>2. CASE Raise(p, "usage")
      <3>1. Does(p) \notin InStage
        BY <1>1 DEF InStage
      <3> QED BY <1>1, <1>2, <2>2, <3>1, Raises DEF Fell, Fails
    <2> QED BY <2>1, <2>2 DEF Check
  <1>4. Program(p)'
    BY <1>1, <1>2, <1>3, MovedProgram, NoLine
  <1>5. Core' /\ Idle
    BY <1>1, <1>2, <1>3, <1>4, ReadyMoves DEF TypeOK
  <1> QED BY <1>1, <1>3, <1>5 DEF where

LEMMA DispatchDoes ==
  ASSUME Core, Contention, NEW p \in Procs, Dispatch(p)
  PROVE  /\ Core' /\ Idle /\ OthersKept(p) /\ UNCHANGED <<lines, cmd, raised, exit>>
         /\ jobs[p] # <<>> /\ step[p] = "ready" /\ step'[p] = "ready" /\ Does(p) = "stage"
         /\ Head(jobs[p]).arg \in Stages /\ Home(p) \in Procs
         /\ \E todo \in StageJobs(Home(p), Head(jobs[p]).arg, cmd[p].sidecar) :
              /\ jobs'[p] = todo \o Tail(jobs[p]) /\ todo \in Seq(Jobs) /\ todo # <<>> /\ Unchecked(todo)
              /\ Fresh(todo, cmd[p], Home(p))
              /\ cmd[p].sidecar => \/ Head(jobs[p]).arg \in QuietStages
                                   \/ \E i \in DOMAIN todo : Ahead(todo[i], Home(p), Head(jobs[p]).arg)
  <1>1. /\ jobs[p] # <<>> /\ step[p] = "ready" /\ Does(p) = "stage" /\ UNCHANGED where
        /\ UNCHANGED <<manifest, tmp, lines, births, cmd, exit, raised, kills, pruned, marked, tagged>>
    BY DEF Dispatch, Doing, Does, files, history
  <1>2. TypeOK /\ Program(p) /\ Grows
    BY <1>1, SameGrows DEF Core, Programs
  <1>3. JobOK(p, 1) /\ Head(jobs[p]) = jobs[p][1] /\ cmd[p] # None /\ Tail(jobs[p]) \in Seq(Jobs)
    BY <1>1, <1>2, AtHead DEF Program
  <1>4. cmd[p] \in Commands
    BY <1>2, <1>3 DEF TypeOK
  <1>5. cmd[p].name = "run" /\ Head(jobs[p]).arg \in Stages /\ Target(p) = Home(p)
    BY <1>1, <1>3 DEF JobOK, Does, Target, OfRun, OfStage
  <1>6. Home(p) \in Procs
    BY <1>1, <1>2, <1>5, AtHead
  <1>7. PICK todo \in StageJobs(Home(p), Head(jobs[p]).arg, cmd[p].sidecar) :
          jobs' = [jobs EXCEPT ![p] = todo \o Tail(jobs[p])]
    BY <1>5 DEF Dispatch
  <1>8. /\ Fresh(todo, cmd[p], Home(p)) /\ Unchecked(todo) /\ todo \in Seq(Jobs) /\ todo # <<>>
        /\ cmd[p].sidecar => \/ Head(jobs[p]).arg \in QuietStages
                             \/ \E i \in DOMAIN todo : Ahead(todo[i], Home(p), Head(jobs[p]).arg)
    BY <1>4, <1>5, <1>6, StageFresh
  <1>9. todo \o Tail(jobs[p]) \in Seq(Jobs)
    BY <1>3, <1>8
  <1>10. jobs' \in [Procs -> Seq(Jobs)] /\ jobs'[p] = todo \o Tail(jobs[p]) /\ OthersKept(p)
    BY <1>1, <1>2, <1>7, <1>9 DEF TypeOK, OthersKept
  <1>11. Program(p)'
    BY <1>1, <1>2, <1>8, <1>10, ProgramDispatched
  <1>12. Core' /\ Idle
    BY <1>1, <1>2, <1>10, <1>11, ReadyMoves DEF TypeOK
  <1> QED BY <1>1, <1>5, <1>6, <1>8, <1>10, <1>12 DEF where

LEMMA AppendDoes ==
  ASSUME Core, Contention, NEW p \in Procs, AppendLine(p)
  PROVE  /\ Core' /\ Idle /\ OthersKept(p) /\ Grows /\ UNCHANGED <<cmd, raised>>
         /\ jobs[p] # <<>> /\ step[p] = "ready" /\ step'[p] = "ready" /\ Does(p) = "line" /\ Moves(p)
         /\ Target(p) \in Procs /\ lines'[Target(p)] = Append(lines[Target(p)], Head(jobs[p]).arg)
         /\ \A d \in Procs \ {Target(p)} : lines'[d] = lines[d]
  <1>1. /\ jobs[p] # <<>> /\ step[p] = "ready" /\ Does(p) = "line" /\ UNCHANGED where /\ Advance(p)
        /\ lines' = [lines EXCEPT ![Target(p)] = Append(@, Head(jobs[p]).arg)]
        /\ UNCHANGED <<manifest, tmp, births, cmd, raised, kills, pruned, marked, tagged>>
    BY DEF AppendLine, Doing, Does, files, history
  <1>2. TypeOK /\ Program(p) /\ Target(p) \in Procs /\ Head(jobs[p]) \in Jobs
    BY <1>1, AtHead DEF Core, Programs
  <1>3. PICK e \in EventLines : e = Head(jobs[p]).arg
    BY <1>1, <1>2, JobFields DEF Does
  <1>4. PICK L \in Seq(EventLines) : L = lines[Target(p)]
    BY <1>2 DEF TypeOK
  <1>5. /\ Append(L, e) \in Seq(EventLines)
        /\ e \in ToSet(Append(L, e)) /\ ToSet(L) \subseteq ToSet(Append(L, e))
    <2>1. /\ Append(L, e) \in Seq(EventLines)
          /\ Len(Append(L, e)) = Len(L) + 1 /\ Len(L) \in Nat
          /\ Append(L, e)[Len(L) + 1] = e /\ \A i \in 1 .. Len(L) : Append(L, e)[i] = L[i]
      OBVIOUS
    <2>2. DOMAIN Append(L, e) = 1 .. Len(L) + 1 /\ DOMAIN L = 1 .. Len(L)
      OBVIOUS
    <2>3. Len(L) + 1 \in 1 .. Len(L) + 1 /\ \A i \in 1 .. Len(L) : i \in 1 .. Len(L) + 1
      BY <2>1
    <2> QED BY <2>1, <2>2, <2>3 DEF ToSet
  <1>6. /\ lines' \in [Procs -> Seq(EventLines)]
        /\ lines'[Target(p)] = Append(L, e) /\ \A d \in Procs \ {Target(p)} : lines'[d] = lines[d]
    BY <1>1, <1>2, <1>3, <1>4, <1>5 DEF TypeOK
  <1>7. Grows
    BY <1>1, <1>4, <1>5, <1>6 DEF Grows
  <1>8. jobs' \in [Procs -> Seq(Jobs)] /\ exit' \in [Procs -> Seq(Jobs)] /\ OthersKept(p) /\ Moves(p)
    BY <1>1, <1>2, Advances DEF Moves
  <1>9. Program(p)'
    <2>1. ASSUME NEW s \in STRING, Head(jobs[p]) = Job("line", Target(p), <<s, "end">>)
          PROVE  <<s, "end">> \in ToSet(lines'[Target(p)])
      <3>1. Head(jobs[p]).arg = <<s, "end">>
        BY <2>1 DEF Job
      <3> QED BY <1>3, <1>5, <1>6, <3>1
    <2> QED BY <1>1, <1>2, <1>7, <1>8, <2>1, MovedProgram
  <1>10. Core' /\ Idle
    BY <1>1, <1>2, <1>6, <1>7, <1>8, <1>9, ReadyMoves DEF TypeOK
  <1> QED BY <1>1, <1>2, <1>3, <1>4, <1>6, <1>7, <1>8, <1>10 DEF where

\* A command that looks before it works has nothing after it.
LEMMA OneLeft ==
  ASSUME Core, NEW p \in Procs, jobs[p] # <<>>, Does(p) \in {"select", "tag", "untag"}
  PROVE  /\ Len(jobs[p]) = 1 /\ Tail(jobs[p]) = <<>> /\ cmd[p] # None /\ cmd[p].name # "run"
         /\ Does(p) \in {"tag", "untag"} => cmd[p].name = Does(p)
  <1>1. TypeOK /\ Program(p)
    BY DEF Core, Programs
  <1>2. JobOK(p, 1) /\ Head(jobs[p]) = jobs[p][1] /\ Len(jobs[p]) \in Nat \ {0} /\ cmd[p] # None
    BY <1>1, AtHead DEF Program
  <1>3. 1 = Len(jobs[p]) /\ cmd[p].name # "run" /\ (Does(p) \in {"tag", "untag"} => cmd[p].name = Does(p))
    BY <1>2 DEF JobOK, Does, InStage, OfStage, OfRun
  <1>4. Tail(jobs[p]) = <<>>
    <2>1. PICK s \in Seq(Jobs) : s = jobs[p]
      BY <1>1 DEF TypeOK
    <2>2. s # <<>> /\ Len(s) = 1
      BY <1>3, <2>1
    <2>3. Tail(s) \in Seq(Jobs) /\ Len(Tail(s)) = 0
      BY <2>2
    <2>4. Tail(s) = <<>>
      BY <2>3
    <2> QED BY <2>1, <2>4
  <1> QED BY <1>2, <1>3, <1>4

LEMMA ReadTagsDoes ==
  ASSUME Core, Contention, NEW p \in Procs, ReadTags(p)
  PROVE  /\ Core' /\ Idle /\ OthersKept(p) /\ UNCHANGED <<lines, cmd>>
         /\ jobs[p] # <<>> /\ step[p] = "ready" /\ cmd[p] # None /\ cmd[p].name # "run"
         /\ \A q \in Procs \ {p} : raised'[q] = raised[q]
  <1> DEFINE j == Head(jobs[p])
             m == manifest[j.dir]
             new == IF j.do = "tag" THEN m.tags \cup {j.arg} ELSE m.tags \ {j.arg}
  <1>1. /\ jobs[p] # <<>> /\ step[p] = "ready" /\ Does(p) \in {"tag", "untag"} /\ UNCHANGED where
        /\ UNCHANGED <<manifest, tmp, lines, births, cmd, kills, pruned, marked, tagged>>
    BY DEF ReadTags, Doing, Does, files, history
  <1>2. TypeOK /\ Program(p) /\ Grows /\ j \in Jobs /\ j.dir \in Procs
    BY <1>1, SameGrows, AtHead DEF Core, Programs, Target
  <1>3. /\ Len(jobs[p]) = 1 /\ Tail(jobs[p]) = <<>> /\ cmd[p] # None /\ cmd[p].name # "run" /\ cmd[p].name = Does(p)
    BY <1>1, OneLeft
  <1>4. ASSUME OthersKept(p), jobs' \in [Procs -> Seq(Jobs)], exit' \in [Procs -> Seq(Jobs)], Program(p)',
               raised' \in [Procs -> {None, "manifest", "work", "usage"}], \A q \in Procs \ {p} : raised'[q] = raised[q]
        PROVE  Core' /\ Idle /\ OthersKept(p)
    BY <1>1, <1>2, <1>4, ReadyMoves DEF TypeOK
  <1>5. CASE Raise(p, "manifest")
    <2>1. Fell(p, "manifest")
      BY <1>1, <1>2, <1>5, Raises DEF Fell
    <2>2. Program(p)'
      BY <1>1, <1>2, <2>1, MovedProgram, NoLine
    <2> QED BY <1>1, <1>2, <1>3, <1>4, <1>5, <2>2, Raises
  <1>6. CASE Advance(p) /\ UNCHANGED raised
    <2>1. Moves(p)
      BY <1>1, <1>2, <1>6, Advances DEF Moves
    <2>2. Program(p)'
      BY <1>1, <1>2, <2>1, MovedProgram, NoLine
    <2>3. raised' \in [Procs -> {None, "manifest", "work", "usage"}]
      BY <1>2, <1>6 DEF TypeOK
    <2> QED BY <1>1, <1>2, <1>3, <1>4, <1>6, <2>2, <2>3, Advances
  <1>7. CASE /\ Readable(m) /\ jobs' = [jobs EXCEPT ![p] = <<Job("tags", j.dir, new)>> \o Tail(@)]
             /\ UNCHANGED <<exit, raised>>
    <2>1. m \in Manifests /\ j.arg \in STRING
      BY <1>1, <1>2, <1>7, JobFields DEF TypeOK, Readable, Does
    <2>2. new \in SUBSET STRING /\ (j.do = "tag" => new # {})
      BY <2>1 DEF Manifests
    <2> HIDE DEF new
    <2> DEFINE t == Job("tags", j.dir, new)
    <2>3. t \in Jobs /\ t.do = "tags" /\ t.arg = new
      BY <1>2, <2>2, JobMade DEF Job
    <2>4. jobs' = [jobs EXCEPT ![p] = <<t>> \o <<>>]
      BY <1>3, <1>7
    <2> HIDE DEF t
    <2>5. <<t>> \o <<>> = <<t>> /\ <<t>> \in Seq(Jobs) /\ DOMAIN <<t>> = {1} /\ <<t>>[1] = t
      BY <2>3
    <2>9. PICK u \in Seq(Jobs) : u = <<t>> /\ jobs' = [jobs EXCEPT ![p] = u]
      BY <2>4, <2>5
    <2>6. /\ jobs' \in [Procs -> Seq(Jobs)] /\ jobs'[p] = <<t>> /\ exit'[p] = exit[p]
          /\ exit' \in [Procs -> Seq(Jobs)] /\ raised' \in [Procs -> {None, "manifest", "work", "usage"}] /\ OthersKept(p)
      <3>1. /\ jobs \in [Procs -> Seq(Jobs)] /\ exit \in [Procs -> Seq(Jobs)]
            /\ raised \in [Procs -> {None, "manifest", "work", "usage"}]
        BY <1>2 DEF TypeOK
      <3> QED BY ONLY <1>7, <2>9, <3>1, p \in Procs DEF OthersKept
    <2>7. JobOK(p, 1)'
      <3>1. jobs'[p][1] = t /\ cmd'[p] = cmd[p] /\ (t.arg = {} => cmd[p].name = "untag") /\ cmd[p].name \in {"tag", "untag"}
        BY <1>1, <1>3, <2>2, <2>3, <2>5, <2>6 DEF Does
      <3> QED BY <2>3, <3>1 DEF JobOK, InStage, OfStage, OfRun
    <2>8. Program(p)'
      <3>1. HookOf(p)' = HookOf(p)
        BY <1>1 DEF HookOf, Home
      <3> QED BY <1>1, <1>2, <1>3, <2>5, <2>6, <2>7, <3>1 DEF Program
    <2> QED BY <1>1, <1>3, <1>4, <1>7, <2>6, <2>8
  <1> QED
    <2>1. Raise(p, "manifest") \/ (Advance(p) /\ UNCHANGED raised) \/ <1>7!1
      BY DEF ReadTags
    <2> QED BY <1>1, <1>3, <1>5, <1>6, <1>7, <2>1

LEMMA SelectDoes ==
  ASSUME Core, Contention, NEW p \in Procs, Select(p)
  PROVE  /\ Core' /\ Idle /\ OthersKept(p) /\ UNCHANGED <<lines, cmd, raised>>
         /\ jobs[p] # <<>> /\ step[p] = "ready" /\ cmd[p] # None /\ cmd[p].name # "run"
         /\ \A j \in ToSet(jobs'[p]) : j.do = "delete" => j.dir \in Selected(Head(jobs[p]).arg)
  <1> DEFINE c == Head(jobs[p]).arg
             victims == SetToSeq(Selected(c))
             dels == [i \in DOMAIN victims |-> Job("delete", victims[i], c)]
  <1>1. /\ jobs[p] # <<>> /\ step[p] = "ready" /\ Does(p) = "select" /\ UNCHANGED where
        /\ UNCHANGED <<manifest, tmp, lines, births, cmd, raised, kills, pruned, marked, tagged>>
    BY DEF Select, Doing, Does, files, history
  <1>2. TypeOK /\ Program(p) /\ Grows /\ c \in Commands
    BY <1>1, SameGrows, AtHead, JobFields DEF Core, Programs, Does
  <1>3. /\ Len(jobs[p]) = 1 /\ Tail(jobs[p]) = <<>> /\ cmd[p] # None /\ cmd[p].name # "run"
    BY <1>1, OneLeft
  <1>4. ASSUME OthersKept(p), jobs' \in [Procs -> Seq(Jobs)], exit' \in [Procs -> Seq(Jobs)], Program(p)'
        PROVE  Core' /\ Idle
    BY <1>1, <1>2, <1>4, ReadyMoves DEF TypeOK
  <1>5. CASE Advance(p)
    <2>1. jobs' \in [Procs -> Seq(Jobs)] /\ exit' \in [Procs -> Seq(Jobs)] /\ OthersKept(p) /\ Leaves(p)
      <3>1. /\ jobs' \in [Procs -> Seq(Jobs)] /\ exit' \in [Procs -> Seq(Jobs)] /\ OthersKept(p)
            /\ Tailed(p) \/ Leaves(p)
        BY <1>1, <1>2, <1>5, Advances
      <3>2. ~Tailed(p)
        BY <1>3 DEF Tailed
      <3> QED BY <3>1, <3>2
    <2>2. Program(p)'
      BY <1>1, <1>2, <1>3, <2>1, MovedProgram, NoLine DEF Moves
    <2>3. ASSUME NEW j \in ToSet(jobs'[p]) PROVE j.do # "delete"
      <3>1. jobs'[p] = <<>> \/ jobs'[p] = <<Job("status", Home(p), "completed")>>
        BY <1>2, <2>1 DEF Leaves, Program, HookOf
      <3>2. j = Job("status", Home(p), "completed")
        BY <2>3, <3>1 DEF ToSet
      <3> QED BY <3>2 DEF Job
    <2> QED BY <1>1, <1>3, <1>4, <2>1, <2>2, <2>3
  <1>6. CASE jobs' = [jobs EXCEPT ![p] = dels \o Tail(@)] /\ UNCHANGED exit
    <2>1. victims \in Seq(Procs) /\ \A i \in DOMAIN victims : victims[i] \in Selected(c)
      BY VictimsTyped
    <2> HIDE DEF victims
    <2>2. \A i \in DOMAIN victims : Job("delete", victims[i], c) \in Jobs
      BY <1>2, <2>1, JobMade
    <2>3. dels \in Seq(Jobs) /\ DOMAIN dels = DOMAIN victims
      BY <2>1, <2>2
    <2>4. ASSUME NEW i \in DOMAIN dels PROVE dels[i].do = "delete" /\ dels[i].dir \in Selected(c)
      BY <2>1 DEF Job
    <2> HIDE DEF dels
    <2>5. PICK u \in Seq(Jobs) : u = dels /\ jobs' = [jobs EXCEPT ![p] = u]
      <3>1. jobs' = [jobs EXCEPT ![p] = dels \o <<>>]
        BY <1>3, <1>6
      <3>2. dels \o <<>> = dels
        BY <2>3
      <3> QED BY <2>3, <3>1, <3>2
    <2>6. /\ jobs' \in [Procs -> Seq(Jobs)] /\ jobs'[p] = dels /\ exit'[p] = exit[p]
          /\ exit' \in [Procs -> Seq(Jobs)] /\ OthersKept(p)
      <3>1. jobs \in [Procs -> Seq(Jobs)] /\ exit \in [Procs -> Seq(Jobs)]
        BY <1>2 DEF TypeOK
      <3> QED BY ONLY <1>6, <2>5, <3>1, p \in Procs DEF OthersKept
    <2>7. ASSUME NEW i \in DOMAIN jobs'[p] PROVE JobOK(p, i)'
      <3>1. PICK j : j = jobs'[p][i] /\ j.do = "delete"
        BY <2>4, <2>6
      <3>2. cmd'[p].name # "run"
        BY <1>1, <1>3
      <3> QED BY ONLY <3>1, <3>2 DEF JobOK, InStage, OfStage, OfRun
    <2>8. Program(p)'
      <3>1. HookOf(p)' = HookOf(p)
        BY <1>1 DEF HookOf, Home
      <3> QED BY <1>1, <1>2, <1>3, <2>6, <2>7, <3>1 DEF Program
    <2>9. \A j \in ToSet(jobs'[p]) : j.do = "delete" => j.dir \in Selected(c)
      BY <2>4, <2>6 DEF ToSet
    <2> QED BY <1>1, <1>3, <1>4, <2>6, <2>8, <2>9
  <1> QED
    <2>1. Advance(p) \/ <1>6!1
      BY DEF Select
    <2> QED BY <1>5, <1>6, <2>1

LEMMA StartDoes ==
  ASSUME Core, Contention, NEW p \in Procs, NEW c \in CommandsOf[p], Start(p, c)
  PROVE  /\ Core' /\ Idle /\ OthersKept(p) /\ UNCHANGED <<lines, raised>>
         /\ cmd[p] = None /\ jobs[p] = <<>> /\ step'[p] = "ready" /\ cmd'[p] = c /\ c \in Commands
         /\ \A q \in Procs \ {p} : cmd'[q] = cmd[q]
         /\ jobs'[p] = (IF c.sidecar THEN <<Job("write", Home(p)', None)>> ELSE <<>>) \o JobsOf(c, Home(p)')
  <1> DEFINE home == IF c.home = None THEN p ELSE c.home
  <1>1. c \in Commands
    BY RunRegistryAssumption
  <1>2. /\ cmd[p] = None /\ cmd' = [cmd EXCEPT ![p] = c] /\ exit' = exit
        /\ jobs' = [jobs EXCEPT ![p] = (IF c.sidecar THEN <<Job("write", home, None)>> ELSE <<>>) \o JobsOf(c, home)]
        /\ UNCHANGED <<manifest, tmp, lines, births, step, held, fd, raised, kills, pruned, marked, tagged>>
    BY DEF Start, files, where, history
  <1>3. TypeOK /\ Program(p) /\ Replacement(p) /\ Core'
    BY StartCore DEF Core, Programs, Replacements
  <1>4. jobs[p] = <<>> /\ step[p] = "ready"
    BY <1>2, <1>3 DEF Program, Replacement
  <1>5. cmd'[p] = c /\ \A q \in Procs \ {p} : cmd'[q] = cmd[q] /\ jobs'[q] = jobs[q] /\ exit'[q] = exit[q]
    BY <1>2, <1>3 DEF TypeOK
  <1>6. Home(p)' = home
    BY <1>5 DEF Home
  <1> HIDE DEF home
  <1>7. jobs'[p] = (IF c.sidecar THEN <<Job("write", home, None)>> ELSE <<>>) \o JobsOf(c, home)
    BY <1>2, <1>3 DEF TypeOK
  <1>8. Idle /\ OthersKept(p)
    BY <1>2, <1>4, <1>5 DEF Idle, OthersKept
  <1> QED BY <1>1, <1>2, <1>3, <1>4, <1>5, <1>6, <1>7, <1>8

LEMMA KillDoes ==
  ASSUME Core, Contention, NEW p \in Procs, Kill(p)
  PROVE  /\ Core' /\ Idle /\ OthersKept(p) /\ UNCHANGED <<lines, cmd, raised>>
         /\ jobs[p] # <<>> /\ jobs'[p] = <<>> /\ exit'[p] = <<>>
  <1>1. /\ jobs[p] # <<>>
        /\ jobs' = [jobs EXCEPT ![p] = <<>>] /\ exit' = [exit EXCEPT ![p] = <<>>]
        /\ step' = [step EXCEPT ![p] = "ready"] /\ held' = [held EXCEPT ![p] = None]
        /\ fd' = [fd EXCEPT ![p] = None]
        /\ UNCHANGED <<manifest, tmp, lines, births, cmd, raised, pruned, marked, tagged>>
    BY DEF Kill, files, history
  <1>2. TypeOK /\ Core'
    BY KillCore DEF Core
  <1>3. /\ jobs'[p] = <<>> /\ exit'[p] = <<>> /\ step'[p] = "ready"
        /\ \A q \in Procs \ {p} : /\ jobs'[q] = jobs[q] /\ exit'[q] = exit[q] /\ step'[q] = step[q]
                                  /\ held'[q] = held[q] /\ fd'[q] = fd[q]
    BY <1>1, <1>2 DEF TypeOK
  <1>4. Idle /\ OthersKept(p)
    BY <1>1, <1>3 DEF Idle, OthersKept
  <1> QED BY <1>1, <1>2, <1>3, <1>4

\* A process that has opened, filled or is to rename its .tmp.
LEMMA InHand ==
  ASSUME Core, NEW p \in Procs, step[p] # "ready"
  PROVE  /\ TypeOK /\ Program(p) /\ Replacement(p) /\ jobs[p] # <<>> /\ Target(p) \in Procs
         /\ Head(jobs[p]) \in Jobs /\ Does(p) \in Updates \cup {"write"} /\ held[p] \in Manifests
         /\ step[p] = "open" <=> fd[p] = None
  BY AtHead DEF Core, Programs, Replacements, Replacement

\* A step within a replacement keeps types, programs and replacements.
LEMMA HandCore ==
  ASSUME Core, Contention, NEW p \in Procs, step[p] # "ready",
         UNCHANGED <<lines, births, cmd, jobs, exit, held, raised, kills, pruned, marked, tagged>>,
         NEW s \in {"fill", "replace"}, step' = [step EXCEPT ![p] = s], fd' \in [Procs -> {None, "tmp", "manifest", "gone"}],
         fd'[p] # None, \A q \in Procs \ {p} : fd'[q] = fd[q],
         manifest' \in [Procs -> Manifests \cup {None, Torn}], tmp' \in [Procs -> Manifests \cup {None, Torn}]
  PROVE  /\ Core' /\ step'[p] = s
         /\ \A q \in Procs \ {p} : step'[q] = step[q] /\ held'[q] = held[q] /\ fd'[q] = fd[q]
  <1>1. /\ TypeOK /\ Program(p) /\ Replacement(p) /\ jobs[p] # <<>>
    BY InHand
  <1>2. step'[p] = s /\ \A q \in Procs \ {p} : step'[q] = step[q] /\ held'[q] = held[q] /\ cmd'[q] = cmd[q]
    BY <1>1 DEF TypeOK
  <1>3. TypeOK'
    BY <1>1, Contends DEF TypeOK
  <1>4. Replacement(p)'
    BY <1>1, <1>2 DEF Replacement, Does
  <1>5. Grows /\ OthersKept(p)
    BY SameGrows DEF OthersKept
  <1>6. Program(p)'
    BY <1>1, <1>5, ProgramKept
  <1>7. Programs' /\ Replacements'
    BY <1>2, <1>4, <1>5, <1>6, OthersCore
  <1> QED BY <1>2, <1>3, <1>7 DEF Core

LEMMA OpenTmpDoes ==
  ASSUME Core, Contention, NEW p \in Procs, OpenTmp(p)
  PROVE  /\ Core' /\ UNCHANGED <<manifest, lines, cmd, jobs, exit, held, raised, pruned, marked, tagged>>
         /\ step[p] = "open" /\ step'[p] = "fill" /\ fd'[p] = "tmp"
         /\ tmp'[Target(p)] = Torn /\ \A d \in Procs \ {Target(p)} : tmp'[d] = tmp[d]
         /\ \A q \in Procs \ {p} : step'[q] = step[q] /\ fd'[q] = fd[q]
  <1>1. /\ step[p] = "open" /\ tmp' = [tmp EXCEPT ![Target(p)] = Torn]
        /\ step' = [step EXCEPT ![p] = "fill"] /\ fd' = [fd EXCEPT ![p] = "tmp"]
        /\ UNCHANGED <<manifest, lines, births, cmd, jobs, exit, held, raised, kills, pruned, marked, tagged>>
    BY DEF OpenTmp, history
  <1>2. TypeOK /\ Target(p) \in Procs
    BY <1>1, InHand
  <1>3. /\ manifest' \in [Procs -> Manifests \cup {None, Torn}] /\ tmp' \in [Procs -> Manifests \cup {None, Torn}]
        /\ fd' \in [Procs -> {None, "tmp", "manifest", "gone"}] /\ fd'[p] = "tmp"
        /\ \A q \in Procs \ {p} : fd'[q] = fd[q]
        /\ tmp'[Target(p)] = Torn /\ \A d \in Procs \ {Target(p)} : tmp'[d] = tmp[d]
    BY <1>1, <1>2 DEF TypeOK
  <1>4. "tmp" # None
    BY <1>2, RunRegistryAssumption
  <1>5. Core' /\ step'[p] = "fill" /\ \A q \in Procs \ {p} : step'[q] = step[q] /\ fd'[q] = fd[q]
    BY <1>1, <1>3, <1>4, HandCore
  <1> QED BY <1>1, <1>3, <1>5

LEMMA FillTmpDoes ==
  ASSUME Core, Contention, NEW p \in Procs, FillTmp(p)
  PROVE  /\ Core' /\ UNCHANGED <<lines, cmd, jobs, exit, held, fd, raised, pruned, marked, tagged>>
         /\ step[p] = "fill" /\ step'[p] = "replace" /\ fd[p] \in {"tmp", "manifest", "gone"}
         /\ \A q \in Procs \ {p} : step'[q] = step[q]
         /\ \A d \in Procs \ {Target(p)} : manifest'[d] = manifest[d] /\ tmp'[d] = tmp[d]
         /\ \/ fd[p] = "tmp" /\ manifest' = manifest /\ tmp'[Target(p)] \in Filled(tmp[Target(p)], held[p])
            \/ fd[p] = "manifest" /\ tmp' = tmp /\ manifest'[Target(p)] \in Filled(manifest[Target(p)], held[p])
            \/ fd[p] = "gone" /\ UNCHANGED <<manifest, tmp>>
  <1>1. /\ step[p] = "fill" /\ step' = [step EXCEPT ![p] = "replace"]
        /\ UNCHANGED <<lines, births, cmd, jobs, exit, held, fd, raised, kills, pruned, marked, tagged>>
    BY DEF FillTmp, history
  <1>2. TypeOK /\ Target(p) \in Procs /\ held[p] \in Manifests /\ fd[p] # None
    BY <1>1, InHand
  <1>3. fd[p] \in {"tmp", "manifest", "gone"}
    BY <1>2 DEF TypeOK
  <1>4. \A old : Filled(old, held[p]) \subseteq Manifests \cup {Torn}
    BY <1>2 DEF Filled
  <1>5. /\ manifest' \in [Procs -> Manifests \cup {None, Torn}] /\ tmp' \in [Procs -> Manifests \cup {None, Torn}]
        /\ \A d \in Procs \ {Target(p)} : manifest'[d] = manifest[d] /\ tmp'[d] = tmp[d]
        /\ \/ fd[p] = "tmp" /\ manifest' = manifest /\ tmp'[Target(p)] \in Filled(tmp[Target(p)], held[p])
           \/ fd[p] = "manifest" /\ tmp' = tmp /\ manifest'[Target(p)] \in Filled(manifest[Target(p)], held[p])
           \/ fd[p] = "gone" /\ UNCHANGED <<manifest, tmp>>
    <2>1. CASE fd[p] = "tmp"
      <3>1. manifest' = manifest
        BY <2>1 DEF FillTmp
      <3>2. PICK t \in Filled(tmp[Target(p)], held[p]) : tmp' = [tmp EXCEPT ![Target(p)] = t]
        BY <2>1 DEF FillTmp
      <3> QED BY <1>2, <1>4, <2>1, <3>1, <3>2 DEF TypeOK
    <2>2. CASE fd[p] = "manifest"
      <3>1. tmp' = tmp
        BY <2>2 DEF FillTmp
      <3>2. PICK t \in Filled(manifest[Target(p)], held[p]) : manifest' = [manifest EXCEPT ![Target(p)] = t]
        BY <2>2 DEF FillTmp
      <3> QED BY <1>2, <1>4, <2>2, <3>1, <3>2 DEF TypeOK
    <2>3. CASE fd[p] = "gone"
      <3>1. UNCHANGED <<manifest, tmp>>
        BY <2>3 DEF FillTmp, files
      <3> QED BY <1>2, <2>3, <3>1 DEF TypeOK
    <2> QED BY <1>3, <2>1, <2>2, <2>3
  <1>6. Core' /\ step'[p] = "replace" /\ \A q \in Procs \ {p} : step'[q] = step[q]
    BY <1>1, <1>2, <1>5, HandCore DEF TypeOK
  <1> QED BY <1>1, <1>3, <1>5, <1>6

\* The rename of an initial manifest registers the hook.
Written(p) ==
  /\ Does(p) = "write"
  /\ \/ Len(jobs[p]) > 1 /\ jobs'[p] = Tail(jobs[p]) /\ exit'[p] = HookOf(p)
     \/ Len(jobs[p]) = 1 /\ jobs'[p] = HookOf(p) /\ exit'[p] = <<>>

LEMMA ReplaceTmpDoes ==
  ASSUME Core, Contention, NEW p \in Procs, ReplaceTmp(p)
  PROVE  /\ Core' /\ OthersKept(p) /\ UNCHANGED <<lines, cmd, pruned>>
         /\ step[p] = "replace" /\ step'[p] = "ready"
         /\ \A q \in Procs \ {p} : step'[q] = step[q] /\ held'[q] = held[q]
         /\ \/ /\ tmp[Target(p)] = None /\ Fell(p, "manifest") /\ Idle
            \/ /\ tmp[Target(p)] # None
               /\ manifest'[Target(p)] = tmp[Target(p)] /\ tmp'[Target(p)] = None
               /\ \A d \in Procs \ {Target(p)} : manifest'[d] = manifest[d] /\ tmp'[d] = tmp[d]
               /\ \A q \in Procs \ {p} : ~Has(q, Target(p)) => fd'[q] = fd[q]
               /\ Written(p) \/ (Does(p) # "write" /\ Moves(p))
               /\ marked' = IF Does(p) = "status" /\ cmd[p].name # "run" THEN marked \cup {Target(p)} ELSE marked
               /\ tagged' = TagsAfter(p) /\ UNCHANGED raised
  <1>1. /\ step[p] = "replace" /\ step' = [step EXCEPT ![p] = "ready"] /\ held' = [held EXCEPT ![p] = None]
        /\ UNCHANGED <<lines, births, cmd, kills>>
    BY DEF ReplaceTmp
  <1>2. /\ TypeOK /\ Program(p) /\ Replacement(p) /\ jobs[p] # <<>> /\ Target(p) \in Procs
        /\ Does(p) \in Updates \cup {"write"}
    BY <1>1, InHand
  <1>3. Does(p) # "line"
    BY <1>2 DEF Updates
  <1>4. step'[p] = "ready" /\ \A q \in Procs \ {p} : step'[q] = step[q] /\ held'[q] = held[q]
    BY <1>1, <1>2 DEF TypeOK
  <1>5. CASE tmp[Target(p)] = None /\ Raise(p, "manifest") /\ fd' = [fd EXCEPT ![p] = None] /\ UNCHANGED <<files, history>>
    <2>1. /\ jobs' \in [Procs -> Seq(Jobs)] /\ exit' \in [Procs -> Seq(Jobs)] /\ OthersKept(p)
          /\ raised' \in [Procs -> {None, "manifest", "work", "usage"}] /\ Fell(p, "manifest")
      BY <1>2, <1>5, Raises DEF Fell
    <2>2. UNCHANGED <<manifest, tmp, pruned, marked, tagged>> /\ Grows
      BY <1>1, <1>5, SameGrows DEF files, history
    <2>3. Program(p)'
      BY <1>1, <1>2, <1>3, <2>1, <2>2, MovedProgram, NoLine
    <2>4. /\ fd' \in [Procs -> {None, "tmp", "manifest", "gone"}] /\ fd'[p] = None
          /\ \A q \in Procs \ {p} : fd'[q] = fd[q]
      BY <1>2, <1>5 DEF TypeOK
    <2>5. Core'
      BY <1>1, <1>2, <2>1, <2>2, <2>3, <2>4, MovesCore DEF TypeOK
    <2>6. Idle
      BY <1>1, <1>4, <2>1, <2>2, <2>4 DEF Idle, OthersKept
    <2> QED BY <1>1, <1>4, <1>5, <2>1, <2>2, <2>5, <2>6
  <1>6. CASE tmp[Target(p)] # None
    <2> DEFINE d == Target(p)
               done == [q \in Procs |->
                          IF q = p THEN None
                          ELSE IF fd[q] = None \/ jobs[q] = <<>> THEN fd[q]
                          ELSE IF Target(q) # d THEN fd[q]
                          ELSE IF fd[q] = "tmp" THEN "manifest" ELSE "gone"]
    <2>1. /\ manifest' = [manifest EXCEPT ![d] = tmp[d]] /\ tmp' = [tmp EXCEPT ![d] = None]
          /\ fd' = done
          /\ marked' = IF Does(p) = "status" /\ cmd[p].name # "run" THEN marked \cup {d} ELSE marked
          /\ tagged' = TagsAfter(p) /\ UNCHANGED <<raised, pruned>>
          /\ IF Does(p) = "write"
             THEN /\ exit' = [exit EXCEPT ![p] = IF Len(jobs[p]) > 1 THEN HookOf(p) ELSE <<>>]
                  /\ jobs' = [jobs EXCEPT ![p] = IF Len(@) > 1 THEN Tail(@) ELSE HookOf(p)]
             ELSE Advance(p)
      BY <1>6 DEF ReplaceTmp, Does
    <2>2. /\ manifest' \in [Procs -> Manifests \cup {None, Torn}] /\ tmp' \in [Procs -> Manifests \cup {None, Torn}]
          /\ manifest'[d] = tmp[d] /\ tmp'[d] = None
          /\ \A e \in Procs \ {d} : manifest'[e] = manifest[e] /\ tmp'[e] = tmp[e]
      BY <1>2, <2>1 DEF TypeOK
    <2>3. /\ fd' \in [Procs -> {None, "tmp", "manifest", "gone"}] /\ fd'[p] = None
          /\ \A q \in Procs \ {p} : fd'[q] = None <=> fd[q] = None
          /\ \A q \in Procs \ {p} : ~Has(q, d) => fd'[q] = fd[q]
      <3>1. "manifest" # None /\ "gone" # None
        BY RunRegistryAssumption
      <3>2. \A q \in Procs : fd[q] \in {None, "tmp", "manifest", "gone"} /\ (step[q] = "ready" => fd[q] = None)
        BY DEF Core, TypeOK, Replacements, Replacement
      <3> HIDE DEF d
      <3> QED BY <1>2, <2>1, <3>1, <3>2 DEF Has
    <2>4. /\ jobs' \in [Procs -> Seq(Jobs)] /\ exit' \in [Procs -> Seq(Jobs)] /\ OthersKept(p)
          /\ Written(p) \/ (Does(p) # "write" /\ Moves(p))
      <3>1. CASE Does(p) # "write"
        BY <1>2, <2>1, <3>1, Advances DEF Moves
      <3>2. CASE Does(p) = "write"
        <4>1. Home(p) \in Procs
          BY <1>2, HomeTyped DEF Program, TypeOK
        <4>2. HookOf(p) \in Seq(Jobs) /\ <<>> \in Seq(Jobs)
          <5>1. Job("status", Home(p), "completed") \in Jobs
            BY <4>1, JobMade DEF Statuses
          <5> QED BY <5>1 DEF HookOf
        <4>3. /\ Tail(jobs[p]) \in Seq(Jobs) /\ (Len(jobs[p]) > 1 \/ Len(jobs[p]) = 1)
              /\ jobs \in [Procs -> Seq(Jobs)] /\ exit \in [Procs -> Seq(Jobs)]
          <5>1. PICK n \in Nat \ {0} : n = Len(jobs[p])
            BY <1>2, AtHead
          <5>2. n > 1 \/ n = 1
            OBVIOUS
          <5> QED BY <1>2, <5>1, <5>2, AtHead DEF TypeOK
        <4>4. CASE Len(jobs[p]) > 1
          <5>1. exit' = [exit EXCEPT ![p] = HookOf(p)] /\ jobs' = [jobs EXCEPT ![p] = Tail(jobs[p])]
            BY <2>1, <3>2, <4>4
          <5> QED BY <3>2, <4>2, <4>3, <4>4, <5>1 DEF Written, OthersKept
        <4>5. CASE Len(jobs[p]) = 1
          <5>1. exit' = [exit EXCEPT ![p] = <<>>] /\ jobs' = [jobs EXCEPT ![p] = HookOf(p)]
            BY <2>1, <3>2, <4>5
          <5> QED BY <3>2, <4>2, <4>3, <4>5, <5>1 DEF Written, OthersKept
        <4> QED BY <4>3, <4>4, <4>5
      <3> QED BY <3>1, <3>2
    <2>5. Grows
      BY <1>1, <2>1, SameGrows
    <2>6. Program(p)'
      BY <1>1, <1>2, <1>3, <2>4, <2>5, MovedProgram, NoLine, ProgramWritten DEF Written
    <2>7. marked' \subseteq Procs /\ tagged' \subseteq Procs /\ pruned' \subseteq Procs
      BY <1>2, <2>1 DEF TagsAfter, TypeOK, Target
    <2>8. Core'
      BY <1>1, <1>2, <2>1, <2>2, <2>3, <2>4, <2>5, <2>6, <2>7, MovesCore DEF TypeOK
    <2> QED BY <1>1, <1>4, <1>6, <2>1, <2>2, <2>3, <2>4, <2>8
  <1> QED
    <2>1. tmp[Target(p)] = None => <1>5!1
      BY DEF ReplaceTmp
    <2> QED BY <2>1, <1>5, <1>6

LEMMA DeleteDoes ==
  ASSUME Core, Contention, NEW p \in Procs, Delete(p)
  PROVE  /\ Core' /\ OthersKept(p) /\ Grows /\ UNCHANGED <<cmd, step, held, raised, marked>>
         /\ jobs[p] # <<>> /\ step[p] = "ready" /\ cmd[p] # None /\ cmd[p].name # "run" /\ Target(p) \in Procs
         /\ pruned' = pruned \cup {Target(p)} /\ tagged' = tagged \ {Target(p)}
         /\ manifest'[Target(p)] = None /\ tmp'[Target(p)] = None
         /\ \A d \in Procs \ {Target(p)} : manifest'[d] = manifest[d] /\ tmp'[d] = tmp[d] /\ lines'[d] = lines[d]
         /\ \A q \in Procs : IF Has(q, Target(p)) THEN fd'[q] \in {None, "gone"} ELSE fd'[q] = fd[q]
  <1> DEFINE d == Target(p)
  <1>1. /\ jobs[p] # <<>> /\ step[p] = "ready" /\ Does(p) = "delete" /\ Advance(p)
        /\ manifest' = [manifest EXCEPT ![d] = None] /\ tmp' = [tmp EXCEPT ![d] = None]
        /\ lines' = [lines EXCEPT ![d] = <<>>]
        /\ fd' = [q \in Procs |-> IF fd[q] # None /\ jobs[q] # <<>> /\ Target(q) = d THEN "gone" ELSE fd[q]]
        /\ pruned' = pruned \cup {d} /\ tagged' = tagged \ {d}
        /\ UNCHANGED <<births, cmd, step, held, raised, kills, marked>>
    BY DEF Delete, Doing, Does
  <1>2. TypeOK /\ Program(p) /\ d \in Procs
    BY <1>1, AtHead DEF Core, Programs
  <1> HIDE DEF d
  <1>3. /\ manifest' \in [Procs -> Manifests \cup {None, Torn}] /\ tmp' \in [Procs -> Manifests \cup {None, Torn}]
        /\ lines' \in [Procs -> Seq(EventLines)]
        /\ manifest'[d] = None /\ tmp'[d] = None
        /\ \A e \in Procs \ {d} : manifest'[e] = manifest[e] /\ tmp'[e] = tmp[e] /\ lines'[e] = lines[e]
    <2>1. <<>> \in Seq(EventLines)
      OBVIOUS
    <2> QED BY <1>1, <1>2, <2>1 DEF TypeOK
  <1>4. Grows
    BY <1>1, <1>3 DEF Grows
  <1>5. /\ fd' \in [Procs -> {None, "tmp", "manifest", "gone"}] /\ fd'[p] = None
        /\ \A q \in Procs : fd'[q] = None <=> fd[q] = None
        /\ \A q \in Procs : IF Has(q, d) THEN fd'[q] \in {None, "gone"} ELSE fd'[q] = fd[q]
    <2>1. "gone" # None
      BY RunRegistryAssumption
    <2>2. \A q \in Procs : fd[q] \in {None, "tmp", "manifest", "gone"} /\ (step[q] = "ready" => fd[q] = None)
      BY DEF Core, TypeOK, Replacements, Replacement
    <2>3. \A q \in Procs : fd[q] # None => jobs[q] # <<>>
      BY DEF Core, Replacements, Replacement
    <2> QED BY <1>1, <1>2, <2>1, <2>2, <2>3 DEF Has
  <1>6. /\ jobs' \in [Procs -> Seq(Jobs)] /\ exit' \in [Procs -> Seq(Jobs)] /\ OthersKept(p) /\ Moves(p)
    BY <1>1, <1>2, Advances DEF Moves
  <1>7. Program(p)'
    BY <1>1, <1>2, <1>4, <1>6, MovedProgram, NoLine
  <1>8. step = [step EXCEPT ![p] = "ready"] /\ held = [held EXCEPT ![p] = None]
    BY <1>1, ReadyHoldsNothing
  <1>9. pruned' \subseteq Procs /\ marked' \subseteq Procs /\ tagged' \subseteq Procs
    BY <1>1, <1>2 DEF TypeOK
  <1>10. Core'
    BY <1>1, <1>2, <1>3, <1>4, <1>5, <1>6, <1>7, <1>8, <1>9, MovesCore DEF TypeOK
  <1>11. cmd[p] # None /\ cmd[p].name # "run"
    <2>1. cmd[p] # None /\ JobOK(p, 1) /\ Head(jobs[p]) = jobs[p][1]
      BY <1>1, <1>2, AtHead DEF Program
    <2> QED BY <1>1, <2>1 DEF JobOK, Does, InStage, OfStage, OfRun
  <1> QED BY <1>1, <1>2, <1>3, <1>4, <1>5, <1>6, <1>10, <1>11 DEF d

LEMMA CoreStep ==
  ASSUME Core, [Next]_vars PROVE Core'
  <1>1. CASE UNCHANGED vars
    <2>1. /\ UNCHANGED <<manifest, tmp, lines, births, cmd, jobs, exit, step, held, fd, raised, kills>>
          /\ UNCHANGED <<contended, pruned, marked, tagged>>
      BY <1>1 DEF vars, files, where, history
    <2>2. Grows /\ TypeOK
      BY <2>1, SameGrows DEF Core
    <2>3. TypeOK'
      BY <2>1, <2>2 DEF TypeOK
    <2>4. ASSUME NEW q \in Procs PROVE Program(q)' /\ Replacement(q)'
      BY <2>1, <2>2, ProgramKept, ReplacementKept DEF Core, Programs, Replacements
    <2> QED BY <2>3, <2>4 DEF Core, Programs, Replacements
  <1>2. ASSUME Contention, NEW p \in Procs, NEW c \in CommandsOf[p], Start(p, c) PROVE Core'
    BY <1>2, StartDoes
  <1>3. ASSUME Contention, NEW p \in Procs, ProcStep(p) \/ Kill(p) PROVE Core'
    BY <1>3, WriteDoes, ReadDoes, OpenTmpDoes, FillTmpDoes, ReplaceTmpDoes, CheckDoes, DispatchDoes, AppendDoes,
       WorkDoes, ReadTagsDoes, SelectDoes, DeleteDoes, KillDoes DEF ProcStep
  <1> QED BY <1>1, <1>2, <1>3 DEF Next

-----------------------------------------------------------------------------
(* A directory that one process has at a time *)

\* A process takes up a copy, and nothing else.
TakesUp(p) ==
  /\ UNCHANGED <<manifest, tmp, lines, cmd, pruned, marked, tagged, jobs, fd, raised>>
  /\ step[p] = "ready" /\ jobs[p] # <<>> /\ step'[p] = "open"
  /\ IF Does(p) = "write" THEN held'[p].completed = {} /\ held'[p].status = "running"
     ELSE /\ Does(p) \in Updates /\ Readable(manifest[Target(p)])
          /\ held'[p] = Updated(manifest[Target(p)], Head(jobs[p]))
  /\ \A q \in Procs \ {p} : step'[q] = step[q] /\ held'[q] = held[q]

\* The .tmp takes the manifest's place.
Replaces(p) == ReplaceTmp(p) /\ tmp[Target(p)] # None

LEMMA Uncontended ==
  ASSUME TypeOK, Contention, NEW d \in Procs \ contended'
  PROVE  /\ d \notin contended
         /\ \A p, q \in Procs : Holding(p, d)' /\ Holding(q, d)' => p = q
         /\ \A p \in Procs : ~Overwriting(p, d)'
  BY DEF Contention

LEMMA HasHolds ==
  ASSUME Core, NEW p \in Procs, NEW d, Has(p, d)
  PROVE  Holding(p, d) /\ jobs[p] # <<>>
  BY InHand DEF Has, Holding

LEMMA HasHoldsNext ==
  ASSUME Core', NEW p \in Procs, NEW d, Has(p, d)'
  PROVE  Holding(p, d)'
  BY DEF Core, Replacements, Replacement, Has, Holding

LEMMA ReadKinds ==
  ASSUME Core, Contention, NEW p \in Procs, ReadForUpdate(p)
  PROVE  Core' /\ (Idle \/ TakesUp(p))
  <1>1. /\ Core' /\ Keeps /\ UNCHANGED fd /\ OthersKept(p) /\ jobs[p] # <<>> /\ step[p] = "ready"
        /\ Does(p) \in Updates /\ \A q \in Procs \ {p} : step'[q] = step[q] /\ held'[q] = held[q]
    BY ReadDoes
  <1>2. CASE UNCHANGED <<step, held>>
    BY <1>1, <1>2, StillIdle DEF Keeps, where
  <1>3. CASE /\ Readable(manifest[Target(p)]) /\ step'[p] = "open"
             /\ held'[p] = Updated(manifest[Target(p)], Head(jobs[p])) /\ UNCHANGED <<jobs, exit, raised>>
    <2>1. Does(p) # "write"
      BY <1>1 DEF Updates
    <2> QED BY <1>1, <1>3, <2>1 DEF TakesUp, Keeps
  <1>4. <1>2!1 \/ <1>3!1
    BY ReadDoes
  <1> QED BY <1>1, <1>2, <1>3, <1>4

\* The kinds of steps, by what they do to the files.
LEMMA StepKinds ==
  ASSUME Core, Contention, NEW p \in Procs, (\E c \in CommandsOf[p] : Start(p, c)) \/ ProcStep(p) \/ Kill(p)
  PROVE  Core' /\ (Idle \/ TakesUp(p) \/ OpenTmp(p) \/ FillTmp(p) \/ Replaces(p) \/ Delete(p))
  <1>1. CASE WriteInitial(p)
    BY <1>1, WriteDoes DEF TakesUp, Keeps
  <1>2. CASE ReadForUpdate(p)
    BY <1>2, ReadKinds
  <1>3. CASE ReplaceTmp(p)
    BY <1>3, ReplaceTmpDoes DEF Replaces
  <1>4. CASE OpenTmp(p) \/ FillTmp(p) \/ Delete(p)
    BY <1>4, OpenTmpDoes, FillTmpDoes, DeleteDoes
  <1>5. CASE Check(p) \/ Dispatch(p) \/ AppendLine(p) \/ Work(p) \/ ReadTags(p) \/ Select(p) \/ Kill(p)
    BY <1>5, CheckDoes, DispatchDoes, AppendDoes, WorkDoes, ReadTagsDoes, SelectDoes, KillDoes
  <1>6. CASE \E c \in CommandsOf[p] : Start(p, c)
    BY <1>6, StartDoes
  <1> QED BY <1>1, <1>2, <1>3, <1>4, <1>5, <1>6 DEF ProcStep

\* It is enough to look at what is torn, and at the .tmp of who has a copy.
LEMMA AloneEnough ==
  ASSUME TypeOK, Contention,
         \A d \in Procs \ contended' : Alone(d) =>
           /\ manifest'[d] # Torn
           /\ \A p \in Procs : Has(p, d)' => TmpOf(p, d)',
         AloneKept
  PROVE  AloneKept'
  <1>1. ASSUME NEW d \in Procs \ contended' PROVE Alone(d)'
    BY Uncontended DEF AloneKept, Alone
  <1> QED BY <1>1 DEF AloneKept

\* A process whose copy and directory are not touched.
LEMMA TmpKept ==
  ASSUME NEW q, NEW d, Has(q, d)', Alone(d), q \in Procs, pruned \subseteq pruned', tmp'[d] = tmp[d],
         step'[q] = step[q], held'[q] = held[q], fd'[q] = fd[q], jobs'[q] = jobs[q]
  PROVE  Has(q, d) /\ TmpOf(q, d)'
  BY DEF Alone, Has, Target, TmpOf

LEMMA IdleAlone ==
  ASSUME Core, Contention, Idle, AloneKept PROVE AloneKept'
  <1>1. ASSUME NEW d \in Procs \ contended', Alone(d)
        PROVE  manifest'[d] # Torn /\ \A q \in Procs : Has(q, d)' => TmpOf(q, d)'
    <2>1. manifest'[d] # Torn
      BY <1>1 DEF Idle, Alone
    <2>2. ASSUME NEW q \in Procs, Has(q, d)' PROVE TmpOf(q, d)'
      <3>1. step'[q] # "ready"
        BY <2>2 DEF Has
      <3> QED BY <1>1, <2>2, <3>1, TmpKept DEF Idle
    <2> QED BY <2>1, <2>2
  <1> QED BY <1>1, AloneEnough DEF Core

LEMMA TakesUpAlone ==
  ASSUME Core, Core', Contention, NEW p \in Procs, TakesUp(p), AloneKept PROVE AloneKept'
  <1>1. ASSUME NEW d \in Procs \ contended', Alone(d)
        PROVE  manifest'[d] # Torn /\ \A q \in Procs : Has(q, d)' => TmpOf(q, d)'
    <2>1. manifest'[d] # Torn
      BY <1>1 DEF TakesUp, Alone
    <2>2. ASSUME NEW q \in Procs \ {p}, Has(q, d)' PROVE TmpOf(q, d)'
      BY <1>1, <2>2, TmpKept DEF TakesUp
    <2>3. TmpOf(p, d)'
      <3>1. fd[p] = None
        BY ReadyHoldsNothing DEF TakesUp
      <3> QED BY <3>1 DEF TmpOf, TakesUp
    <2> QED BY <2>1, <2>2, <2>3
  <1> QED BY <1>1, AloneEnough DEF Core

LEMMA OpenAlone ==
  ASSUME Core, Contention, NEW p \in Procs, OpenTmp(p), AloneKept PROVE AloneKept'
  <1>1. /\ Core' /\ UNCHANGED <<manifest, lines, cmd, jobs, exit, held, raised, pruned, marked, tagged>>
        /\ step[p] = "open" /\ step'[p] = "fill" /\ fd'[p] = "tmp"
        /\ tmp'[Target(p)] = Torn /\ \A d \in Procs \ {Target(p)} : tmp'[d] = tmp[d]
        /\ \A q \in Procs \ {p} : step'[q] = step[q] /\ fd'[q] = fd[q]
    BY OpenTmpDoes
  <1>2. ASSUME NEW d \in Procs \ contended', Alone(d)
        PROVE  manifest'[d] # Torn /\ \A q \in Procs : Has(q, d)' => TmpOf(q, d)'
    <2>1. manifest'[d] # Torn
      BY <1>1, <1>2 DEF Alone
    <2>2. ASSUME Has(p, d)' PROVE TmpOf(p, d)'
      <3>1. Target(p) = d
        BY <1>1, <2>2 DEF Has, Target
      <3> QED BY <1>1, <3>1 DEF TmpOf
    <2>3. ASSUME NEW q \in Procs \ {p}, Has(q, d)' PROVE TmpOf(q, d)'
      <3>1. Target(p) # d
        <4>1. Target(p)' = Target(p)
          BY <1>1 DEF Target
        <4>2. Target(p) = d => Has(p, d)'
          BY <1>1, <4>1 DEF Has
        <4>3. Holding(q, d)' /\ (Has(p, d)' => Holding(p, d)')
          BY <1>1, <2>3, HasHoldsNext
        <4> QED BY <1>2, <4>2, <4>3, Uncontended DEF Core
      <3> QED BY <1>1, <1>2, <2>3, <3>1, TmpKept
    <2> QED BY <2>1, <2>2, <2>3
  <1> QED BY <1>2, AloneEnough DEF Core

LEMMA FillAlone ==
  ASSUME Core, Contention, NEW p \in Procs, FillTmp(p), AloneKept PROVE AloneKept'
  <1>1. /\ Core' /\ UNCHANGED <<lines, cmd, jobs, exit, held, fd, raised, pruned, marked, tagged>>
        /\ step[p] = "fill" /\ step'[p] = "replace" /\ fd[p] \in {"tmp", "manifest", "gone"}
        /\ \A q \in Procs \ {p} : step'[q] = step[q]
        /\ \A d \in Procs \ {Target(p)} : manifest'[d] = manifest[d] /\ tmp'[d] = tmp[d]
        /\ \/ fd[p] = "tmp" /\ manifest' = manifest /\ tmp'[Target(p)] \in Filled(tmp[Target(p)], held[p])
           \/ fd[p] = "manifest" /\ tmp' = tmp /\ manifest'[Target(p)] \in Filled(manifest[Target(p)], held[p])
           \/ fd[p] = "gone" /\ UNCHANGED <<manifest, tmp>>
    BY FillTmpDoes
  <1>2. ASSUME NEW d \in Procs \ contended', Alone(d)
        PROVE  manifest'[d] # Torn /\ \A q \in Procs : Has(q, d)' => TmpOf(q, d)'
    <2>1. CASE Target(p) = d
      <3>1. Has(p, d) /\ TmpOf(p, d)
        BY <1>1, <1>2, <2>1 DEF Has, Alone
      <3>2. fd[p] # "manifest"
        BY <3>1, RunRegistryAssumption DEF TmpOf
      <3>3. manifest'[d] # Torn
        BY <1>1, <1>2, <3>2 DEF Alone
      <3>4. TmpOf(p, d)'
        <4>1. CASE fd[p] = "tmp"
          <5>1. tmp'[d] = held[p]
            BY <1>1, <2>1, <3>1, <4>1 DEF TmpOf, Filled
          <5> QED BY <1>1, <3>1, <4>1, <5>1 DEF TmpOf
        <4>2. CASE fd[p] = "gone"
          BY <1>1, <3>1, <4>2 DEF TmpOf
        <4> QED BY <1>1, <3>2, <4>1, <4>2
      <3>5. ASSUME NEW q \in Procs, Has(q, d)' PROVE q = p
        <4>1. Has(p, d)'
          BY <1>1, <2>1 DEF Has, Target
        <4>2. Holding(q, d)' /\ Holding(p, d)'
          BY <1>1, <3>5, <4>1, HasHoldsNext
        <4> QED BY <1>2, <4>2, Uncontended DEF Core
      <3> QED BY <3>3, <3>4, <3>5
    <2>2. CASE Target(p) # d
      <3>1. ~Has(p, d)'
        BY <1>1, <2>2 DEF Has, Target
      <3>2. ASSUME NEW q \in Procs, Has(q, d)' PROVE TmpOf(q, d)'
        BY <1>1, <1>2, <2>2, <3>1, <3>2, TmpKept
      <3> QED BY <1>1, <1>2, <2>2, <3>2 DEF Alone
    <2> QED BY <2>1, <2>2
  <1> QED BY <1>2, AloneEnough DEF Core

\* What a rename puts in place, where one process has the directory.
LEMMA ReplacesAlone ==
  ASSUME Core, Contention, NEW p \in Procs, Replaces(p), AloneKept
  PROVE  /\ AloneKept'
         /\ \A d \in Procs \ contended' : d = Target(p) => manifest'[d] = held[p] /\ \A q \in Procs : ~Has(q, d)'
  <1>1. /\ Core' /\ OthersKept(p) /\ UNCHANGED pruned /\ step[p] = "replace" /\ step'[p] = "ready"
        /\ \A q \in Procs \ {p} : step'[q] = step[q] /\ held'[q] = held[q]
        /\ tmp[Target(p)] # None /\ manifest'[Target(p)] = tmp[Target(p)]
        /\ \A d \in Procs \ {Target(p)} : manifest'[d] = manifest[d] /\ tmp'[d] = tmp[d]
        /\ \A q \in Procs \ {p} : ~Has(q, Target(p)) => fd'[q] = fd[q]
    BY ReplaceTmpDoes DEF Replaces
  <1>2. Target(p) \in Procs /\ held[p] \in Manifests
    BY <1>1, InHand
  <1>3. ASSUME NEW d \in Procs \ contended', Alone(d)
        PROVE  /\ manifest'[d] # Torn /\ \A q \in Procs : Has(q, d)' => TmpOf(q, d)'
               /\ Target(p) = d => manifest'[d] = held[p] /\ \A q \in Procs : ~Has(q, d)'
    <2>1. ~Has(p, d)'
      BY <1>1 DEF Has
    <2>2. ASSUME NEW q \in Procs, Has(q, d)' PROVE Has(q, d) /\ q # p /\ Target(p) # d
      <3>1. Has(q, d) /\ q # p
        BY <1>1, <2>1, <2>2 DEF Has, OthersKept, Target
      <3>2. Target(p) = d => Has(p, d)
        BY <1>1 DEF Has
      <3>3. Holding(q, d) /\ (Has(p, d) => Holding(p, d))
        BY <3>1, HasHolds
      <3> QED BY <1>3, <3>1, <3>2, <3>3 DEF Alone
    <2>3. CASE Target(p) = d
      <3>1. TmpOf(p, d)
        BY <1>1, <1>3, <2>3 DEF Alone, Has
      <3>2. manifest'[d] = held[p] /\ held[p] # Torn
        BY <1>1, <1>2, <2>3, <3>1, RunRegistryAssumption DEF TmpOf
      <3> QED BY <2>2, <2>3, <3>2
    <2>4. CASE Target(p) # d
      <3>1. ASSUME NEW q \in Procs, Has(q, d)' PROVE TmpOf(q, d)'
        <4>1. Has(q, d) /\ q # p
          BY <2>2, <3>1
        <4>2. ~Has(q, Target(p))
          BY <2>4, <4>1 DEF Has
        <4> QED BY <1>1, <1>3, <2>4, <3>1, <4>1, <4>2, TmpKept DEF OthersKept
      <3> QED BY <1>1, <1>3, <2>4, <3>1 DEF Alone
    <2> QED BY <2>3, <2>4
  <1>4. AloneKept'
    BY <1>3, AloneEnough DEF Core
  <1>5. ASSUME NEW d \in Procs \ contended', d = Target(p)
        PROVE  manifest'[d] = held[p] /\ \A q \in Procs : ~Has(q, d)'
    <2>1. Alone(d)
      BY Uncontended DEF AloneKept, Core
    <2> QED BY <1>3, <1>5, <2>1
  <1> QED BY <1>4, <1>5

LEMMA DeleteAlone ==
  ASSUME Core, Contention, NEW p \in Procs, Delete(p), AloneKept PROVE AloneKept'
  <1>1. /\ Core' /\ OthersKept(p) /\ UNCHANGED <<step, held>> /\ step[p] = "ready" /\ Target(p) \in Procs
        /\ pruned' = pruned \cup {Target(p)} /\ manifest'[Target(p)] = None /\ tmp'[Target(p)] = None
        /\ \A d \in Procs \ {Target(p)} : manifest'[d] = manifest[d] /\ tmp'[d] = tmp[d]
        /\ \A q \in Procs : IF Has(q, Target(p)) THEN fd'[q] \in {None, "gone"} ELSE fd'[q] = fd[q]
    BY DeleteDoes
  <1>2. ASSUME NEW d \in Procs \ contended', Alone(d)
        PROVE  manifest'[d] # Torn /\ \A q \in Procs : Has(q, d)' => TmpOf(q, d)'
    <2>1. ASSUME NEW q \in Procs, Has(q, d)' PROVE q # p /\ Has(q, d) /\ jobs'[q] = jobs[q]
      BY <1>1, <2>1 DEF Has, OthersKept, Target
    <2>2. CASE Target(p) = d
      <3>1. manifest'[d] # Torn
        BY <1>1, <2>2, RunRegistryAssumption
      <3>2. ASSUME NEW q \in Procs, Has(q, d)' PROVE TmpOf(q, d)'
        <4>1. fd'[q] \in {None, "gone"} /\ d \in pruned' /\ tmp'[d] = None
          BY <1>1, <2>1, <2>2, <3>2
        <4>2. fd'[q] # "tmp"
          BY <4>1, RunRegistryAssumption
        <4> QED BY <4>1, <4>2 DEF TmpOf
      <3> QED BY <3>1, <3>2
    <2>3. CASE Target(p) # d
      <3>1. ASSUME NEW q \in Procs, Has(q, d)' PROVE TmpOf(q, d)'
        <4>1. ~Has(q, Target(p))
          BY <2>1, <2>3, <3>1 DEF Has
        <4> QED BY <1>1, <1>2, <2>1, <2>3, <3>1, <4>1, TmpKept
      <3> QED BY <1>1, <1>2, <2>3, <3>1 DEF Alone
    <2> QED BY <2>2, <2>3
  <1> QED BY <1>2, AloneEnough DEF Core

LEMMA AloneStep ==
  ASSUME Core, Contention, NEW p \in Procs, (\E c \in CommandsOf[p] : Start(p, c)) \/ ProcStep(p) \/ Kill(p), AloneKept
  PROVE  AloneKept'
  BY StepKinds, IdleAlone, TakesUpAlone, OpenAlone, FillAlone, ReplacesAlone, DeleteAlone

-----------------------------------------------------------------------------
(* What a manifest lists as completed has its end line *)

Acts(p) == (\E c \in CommandsOf[p] : Start(p, c)) \/ ProcStep(p) \/ Kill(p)

LEMMA StepGrows ==
  ASSUME Core, Contention, NEW p \in Procs, Acts(p) PROVE Grows
  <1>1. CASE \/ WriteInitial(p) \/ ReadForUpdate(p) \/ OpenTmp(p) \/ FillTmp(p)
             \/ Check(p) \/ Dispatch(p) \/ Work(p) \/ ReadTags(p) \/ Select(p) \/ Kill(p)
    <2>1. lines' = lines
      BY <1>1, WriteDoes, ReadDoes, OpenTmpDoes, FillTmpDoes, CheckDoes, DispatchDoes, WorkDoes, ReadTagsDoes,
         SelectDoes, KillDoes DEF Keeps
    <2>2. pruned' = pruned
      BY <1>1, WriteDoes, ReadDoes, OpenTmpDoes, FillTmpDoes, CheckDoes, DispatchDoes, WorkDoes, ReadTagsDoes,
         SelectDoes, KillDoes DEF Keeps, Idle
    <2> QED BY <2>1, <2>2, SameGrows
  <1>2. CASE ReplaceTmp(p)
    BY <1>2, ReplaceTmpDoes, SameGrows
  <1>3. CASE AppendLine(p) \/ Delete(p)
    BY <1>3, AppendDoes, DeleteDoes
  <1>4. CASE \E c \in CommandsOf[p] : Start(p, c)
    BY <1>4, StartDoes, SameGrows DEF Idle
  <1> QED BY <1>1, <1>2, <1>3, <1>4 DEF Acts, ProcStep

LEMMA EndsGrow ==
  ASSUME Grows, NEW d \in Procs \ pruned' PROVE Ends(d) \subseteq Ends(d)' /\ Ends(d) \subseteq Stages
  <1>1. ASSUME NEW s \in Stages, <<s, "end">> \in ToSet(lines[d]) PROVE <<s, "end">> \in ToSet(lines'[d])
    <2>1. <<s, "end">> \in EventLines
      BY StageTyped DEF EventLines
    <2> QED BY <1>1, <2>1 DEF Grows
  <1> QED BY <1>1 DEF Ends, Stages

\* Where the contents of the files come from.
LEMMA FilesFrom ==
  ASSUME Core, Contention, NEW p \in Procs, Acts(p), NEW d \in Procs
  PROVE  /\ \A m \in {manifest'[d], tmp'[d]} :
              \/ m \in {manifest[d], tmp[d], None, Torn}
              \/ \E q \in Procs : Has(q, d) /\ m = held[q]
         /\ \A q \in Procs : Has(q, d)' => \/ Has(q, d) /\ held'[q] = held[q] /\ jobs'[q] = jobs[q] /\ cmd'[q] = cmd[q]
                                           \/ q = p /\ TakesUp(p) /\ Target(p) = d
  <1>1. Core' /\ (Idle \/ TakesUp(p) \/ OpenTmp(p) \/ FillTmp(p) \/ Replaces(p) \/ Delete(p))
    BY StepKinds DEF Acts
  <1>2. CASE Idle
    <2>1. ASSUME NEW q \in Procs, Has(q, d)'
          PROVE  Has(q, d) /\ held'[q] = held[q] /\ jobs'[q] = jobs[q] /\ cmd'[q] = cmd[q]
      BY <1>2, <2>1 DEF Idle, Has, Target
    <2> QED BY <1>2, <2>1 DEF Idle
  <1>3. CASE TakesUp(p)
    BY <1>3 DEF TakesUp, Has, Target
  <1>4. CASE OpenTmp(p)
    <2>1. /\ UNCHANGED <<manifest, jobs, held, cmd>> /\ step[p] # "ready"
          /\ tmp'[Target(p)] = Torn /\ \A e \in Procs \ {Target(p)} : tmp'[e] = tmp[e]
          /\ \A q \in Procs \ {p} : step'[q] = step[q]
      BY <1>4, OpenTmpDoes
    <2> QED BY <2>1 DEF Has, Target
  <1>5. CASE FillTmp(p)
    <2>1. /\ UNCHANGED <<jobs, held, cmd>> /\ step[p] # "ready"
          /\ \A q \in Procs \ {p} : step'[q] = step[q]
          /\ \A e \in Procs \ {Target(p)} : manifest'[e] = manifest[e] /\ tmp'[e] = tmp[e]
      BY <1>5, FillTmpDoes
    <2>2. /\ manifest'[Target(p)] \in {manifest[Target(p)], Torn, held[p]}
          /\ tmp'[Target(p)] \in {tmp[Target(p)], Torn, held[p]}
      BY <1>5, FillTmpDoes DEF Filled
    <2> QED BY <2>1, <2>2 DEF Has, Target
  <1>6. CASE Replaces(p)
    <2>1. /\ OthersKept(p) /\ cmd' = cmd /\ step'[p] = "ready"
          /\ \A q \in Procs \ {p} : step'[q] = step[q] /\ held'[q] = held[q]
          /\ manifest'[Target(p)] = tmp[Target(p)] /\ tmp'[Target(p)] = None
          /\ \A e \in Procs \ {Target(p)} : manifest'[e] = manifest[e] /\ tmp'[e] = tmp[e]
      BY <1>6, ReplaceTmpDoes DEF Replaces
    <2> QED BY <2>1 DEF Has, Target, OthersKept
  <1>7. CASE Delete(p)
    <2>1. /\ OthersKept(p) /\ UNCHANGED <<cmd, step, held>> /\ step[p] = "ready"
          /\ manifest'[Target(p)] = None /\ tmp'[Target(p)] = None
          /\ \A e \in Procs \ {Target(p)} : manifest'[e] = manifest[e] /\ tmp'[e] = tmp[e]
      BY <1>7, DeleteDoes
    <2> QED BY <2>1 DEF Has, Target, OthersKept
  <1> QED BY <1>1, <1>2, <1>3, <1>4, <1>5, <1>6, <1>7

LEMMA KnownStep ==
  ASSUME Core, Contention, NEW p \in Procs, Acts(p), KnownKept
  PROVE  KnownKept'
  <1>1. Grows /\ TypeOK /\ Core'
    BY StepGrows, StepKinds DEF Core, Acts
  <1>2. ASSUME NEW d \in Procs \ pruned'
        PROVE  Known(manifest[d], d)' /\ Known(tmp[d], d)' /\ \A q \in Procs : Has(q, d)' => Known(held[q], d)'
    <2>1. d \notin pruned /\ Ends(d) \subseteq Ends(d)'
      BY <1>1, EndsGrow DEF Grows
    <2>2. /\ Known(manifest[d], d) /\ Known(tmp[d], d)
          /\ \A q \in Procs : Has(q, d) => Known(held[q], d)
      BY <2>1 DEF KnownKept
    <2>3. ASSUME NEW m \in {manifest'[d], tmp'[d]}, Readable(m) PROVE m.completed \subseteq Ends(d)'
      <3>1. Known(m, d)
        BY <2>2, <2>3, FilesFrom DEF Readable
      <3> QED BY <2>1, <2>3, <3>1 DEF Known
    <2>4. ASSUME NEW q \in Procs, Has(q, d)', Readable(held'[q]) PROVE held'[q].completed \subseteq Ends(d)'
      <3>1. CASE Has(q, d) /\ held'[q] = held[q]
        BY <2>1, <2>2, <2>4, <3>1 DEF Known
      <3>2. CASE q = p /\ TakesUp(p) /\ Target(p) = d
        <4>1. CASE Does(p) = "write"
          BY <3>2, <4>1 DEF TakesUp
        <4>2. CASE Does(p) # "write"
          <5> DEFINE j == Head(jobs[p])
                     m == manifest[d]
          <5>1. Does(p) \in Updates /\ Readable(m) /\ held'[p] = Updated(m, j) /\ jobs[p] # <<>>
            BY <3>2, <4>2 DEF TakesUp
          <5>2. m \in Manifests /\ j \in Jobs /\ JobOK(p, 1) /\ j = jobs[p][1]
            <6>1. m \in Manifests
              BY <1>1, <5>1 DEF TypeOK, Readable
            <6>2. j \in Jobs /\ j = jobs[p][1] /\ 1 \in DOMAIN jobs[p]
              BY <1>1, <5>1, AtHead
            <6>3. JobOK(p, 1)
              BY <6>2 DEF Core, Programs, Program
            <6> QED BY <6>1, <6>2, <6>3
          <5>3. m.completed \subseteq Ends(d)
            BY <2>2, <5>1 DEF Known
          <5>4. Does(p) = "completed" => j.arg \in Ends(d)
            BY <2>1, <3>2, <5>2 DEF JobOK, Does, Target, Ends, Stages, OfStage, InStage
          <5> HIDE DEF j, m
          <5>5. /\ Does(p) = "completed" => held'[p].completed = m.completed \cup {j.arg}
                /\ Does(p) # "completed" => held'[p].completed = m.completed
            BY <5>1, <5>2 DEF Updated, Updates, Does, Manifests, j
          <5> QED BY <2>1, <3>2, <5>3, <5>4, <5>5
        <4> QED BY <4>1, <4>2
      <3> QED BY <2>4, <3>1, <3>2, FilesFrom
    <2> QED BY <2>3, <2>4 DEF Known
  <1> QED BY <1>2 DEF KnownKept

-----------------------------------------------------------------------------
(* A run is ended by its manifest only where another process had a hand in it *)

LEMMA OthersStay ==
  ASSUME Core, Contention, NEW p \in Procs, Acts(p), NEW q \in Procs, q # p
  PROVE  cmd'[q] = cmd[q] /\ jobs'[q] = jobs[q] /\ exit'[q] = exit[q] /\ raised'[q] = raised[q]
  <1>1. CASE ProcStep(p) \/ Kill(p)
    <2>1. UNCHANGED cmd
      BY <1>1, WriteDoes, ReadDoes, OpenTmpDoes, FillTmpDoes, ReplaceTmpDoes, CheckDoes, DispatchDoes, AppendDoes,
         WorkDoes, ReadTagsDoes, SelectDoes, DeleteDoes, KillDoes DEF ProcStep, Keeps
    <2>2. OthersKept(p) \/ UNCHANGED <<jobs, exit>>
      BY <1>1, WriteDoes, ReadDoes, OpenTmpDoes, FillTmpDoes, ReplaceTmpDoes, CheckDoes, DispatchDoes, AppendDoes,
         WorkDoes, ReadTagsDoes, SelectDoes, DeleteDoes, KillDoes DEF ProcStep, Keeps
    <2>3. (UNCHANGED raised) \/ (\E why \in {"manifest", "work", "usage"} : Fell(p, why)) \/ ReadTags(p)
      BY <1>1, WriteDoes, ReadDoes, OpenTmpDoes, FillTmpDoes, ReplaceTmpDoes, CheckDoes, DispatchDoes, AppendDoes,
         WorkDoes, SelectDoes, DeleteDoes, KillDoes DEF ProcStep, Keeps
    <2> QED BY <2>1, <2>2, <2>3, ReadTagsDoes DEF OthersKept, Fell
  <1>2. CASE \E c \in CommandsOf[p] : Start(p, c)
    BY <1>2, StartDoes DEF OthersKept
  <1> QED BY <1>1, <1>2 DEF Acts

\* What a pipeline run may do with the jobs that are left to it.
LEMMA RunActs ==
  ASSUME Core, Contention, NEW p \in Procs, ProcStep(p) \/ Kill(p), cmd[p].name = "run"
  PROVE  /\ UNCHANGED cmd /\ jobs[p] # <<>>
         /\ \/ jobs'[p] = jobs[p] /\ exit'[p] = exit[p] /\ raised'[p] = raised[p]
            \/ Moves(p) /\ raised'[p] = raised[p] /\ Does(p) \notin {"write", "stage"}
            \/ Written(p) /\ raised'[p] = raised[p]
            \/ Fell(p, "manifest") \/ (Does(p) = "work" /\ Fell(p, "work"))
            \/ Does(p) = "check" /\ Leaves(p) /\ Fell(p, "usage")
            \/ /\ Does(p) = "stage" /\ exit'[p] = exit[p] /\ raised'[p] = raised[p]
               /\ \E todo \in Seq(Jobs) : jobs'[p] = todo \o Tail(jobs[p]) /\ todo # <<>> /\ Unchecked(todo)
            \/ jobs'[p] = <<>> /\ exit'[p] = <<>> /\ raised'[p] = raised[p]
  <1>1. CASE WriteInitial(p) \/ OpenTmp(p) \/ FillTmp(p)
    BY <1>1, WriteDoes, OpenTmpDoes, FillTmpDoes, InHand DEF Keeps
  <1>2. CASE ReadForUpdate(p)
    <2>1. Does(p) \in Updates
      BY <1>2, ReadDoes
    <2>2. Does(p) \notin {"write", "stage"}
      BY <2>1 DEF Updates
    <2> QED BY <1>2, <2>2, ReadDoes DEF Keeps
  <1>3. CASE ReplaceTmp(p)
    <2>1. step[p] # "ready"
      BY <1>3, ReplaceTmpDoes
    <2>2. Does(p) \in Updates \cup {"write"} /\ jobs[p] # <<>>
      BY <2>1, InHand
    <2>3. Does(p) # "stage"
      BY <2>2 DEF Updates
    <2> QED BY <1>3, <2>2, <2>3, ReplaceTmpDoes
  <1>4. CASE Check(p) \/ AppendLine(p) \/ Work(p)
    BY <1>4, CheckDoes, AppendDoes, WorkDoes
  <1>5. CASE Dispatch(p)
    BY <1>5, DispatchDoes
  <1>6. CASE ReadTags(p) \/ Select(p) \/ Delete(p)
    BY <1>6, ReadTagsDoes, SelectDoes, DeleteDoes
  <1>7. CASE Kill(p)
    BY <1>7, KillDoes
  <1> QED BY <1>1, <1>2, <1>3, <1>4, <1>5, <1>6, <1>7 DEF ProcStep

\* A run is refused at its check, and then has nothing before it but its hook.
LEMMA RefusedFrom ==
  ASSUME Core, Contention, Failures, NEW p \in Procs, Acts(p), NEW q \in Procs, Refused(q)'
  PROVE  /\ Home(q)' = Home(q) /\ Over(q)'
         /\ Refused(q) \/ (q = p /\ Does(p) = "check" /\ Past(p, Home(p)))
  <1>1. TypeOK /\ Program(p)
    BY DEF Core, Programs
  <1>2. CASE q # p
    <2>1. cmd'[q] = cmd[q] /\ jobs'[q] = jobs[q] /\ exit'[q] = exit[q] /\ raised'[q] = raised[q]
      BY <1>2, OthersStay
    <2>2. Refused(q) /\ Home(q)' = Home(q) /\ HookOf(q)' = HookOf(q)
      BY <2>1 DEF Refused, Home, HookOf
    <2> QED BY <2>1, <2>2 DEF Failures, Over
  <1>3. ASSUME q = p, NEW c \in CommandsOf[p], Start(p, c) PROVE FALSE
    <2>1. raised'[p] = raised[p] /\ cmd[p] = None
      BY <1>3, StartDoes
    <2> QED BY <1>3, <2>1, RunRegistryAssumption DEF Failures, Refused
  <1>4. CASE q = p /\ (ProcStep(p) \/ Kill(p))
    <2>1. UNCHANGED cmd
      BY <1>4, WriteDoes, ReadDoes, OpenTmpDoes, FillTmpDoes, ReplaceTmpDoes, CheckDoes, DispatchDoes, AppendDoes,
         WorkDoes, ReadTagsDoes, SelectDoes, DeleteDoes, KillDoes DEF ProcStep, Keeps
    <2>2. cmd[p] # None /\ cmd[p].name = "run" /\ cmd[p].sidecar /\ raised'[p] = "usage"
      BY <1>4, <2>1 DEF Refused
    <2>3. Home(p)' = Home(p) /\ HookOf(p)' = HookOf(p) /\ jobs[p] # <<>>
      BY <1>4, <2>1, <2>2, RunActs DEF Home, HookOf
    <2>4. CASE raised'[p] = raised[p]
      <3>1. Refused(p) /\ exit[p] = <<>> /\ jobs[p] = HookOf(p)
        BY <2>2, <2>3, <2>4 DEF Refused, Failures, Over
      <3>2. Does(p) = "status" /\ Len(jobs[p]) = 1
        BY <3>1 DEF HookOf, Does, Job
      <3>3. Moves(p) => jobs'[p] = <<>> /\ exit'[p] = <<>>
        BY <3>1, <3>2 DEF Moves, Tailed, Leaves
      <3>4. ~Written(p) /\ ~Fell(p, "manifest") /\ ~Fell(p, "work")
        BY <2>2, <3>2 DEF Written, Fell
      <3>5. (jobs'[p] = jobs[p] /\ exit'[p] = exit[p]) \/ (jobs'[p] = <<>> /\ exit'[p] = <<>>)
        BY <1>4, <2>2, <3>2, <3>3, <3>4, RunActs
      <3> QED BY <1>4, <2>3, <3>1, <3>5 DEF Over
    <2>5. CASE raised'[p] # raised[p]
      <3>1. ~Fell(p, "manifest") /\ ~Fell(p, "work")
        BY <2>2 DEF Fell
      <3>2. Does(p) = "check" /\ Leaves(p)
        BY <1>4, <2>2, <2>5, <3>1, RunActs
      <3>3. Over(p)'
        BY <1>1, <2>3, <3>2 DEF Leaves, Program, Over
      <3>4. Past(p, Home(p))
        BY <2>2, <2>3, <3>2 DEF Past, Running
      <3> QED BY <1>4, <2>3, <3>2, <3>3, <3>4
    <2> QED BY <2>4, <2>5
  <1> QED BY <1>2, <1>3, <1>4 DEF Acts

LEMMA FailuresStep ==
  ASSUME Core, Contention, AloneKept, NEW p \in Procs, Acts(p), Failures
  PROVE  Failures'
  <1>0. \A q \in Procs : Refused(q)' => Over(q)'
    BY RefusedFrom
  <1>1. TypeOK /\ Core' /\ contended \subseteq contended' /\ Grows
    BY Contends, StepKinds, StepGrows DEF Core, Acts
  <1>2. ASSUME NEW q \in Procs, cmd'[q] = cmd[q], raised'[q] = raised[q]
        PROVE  /\ cmd'[q] = None => raised'[q] = None
               /\ raised'[q] = "manifest" /\ cmd'[q].name = "run" => Home(q)' \in contended' \cup pruned'
    BY <1>1, <1>2 DEF Failures, Home, Grows
  <1>3. CASE /\ UNCHANGED <<cmd, raised>>
    BY <1>0, <1>2, <1>3 DEF Failures
  <1>4. ASSUME NEW c \in CommandsOf[p], Start(p, c) PROVE Failures'
    <2>1. cmd[p] = None /\ UNCHANGED raised /\ cmd'[p] # None /\ \A q \in Procs \ {p} : cmd'[q] = cmd[q]
      <3>1. /\ cmd[p] = None /\ UNCHANGED raised /\ cmd'[p] = c /\ c \in Commands
            /\ \A q \in Procs \ {p} : cmd'[q] = cmd[q]
        BY <1>4, StartDoes
      <3> QED BY <3>1, CommandFields
    <2>2. raised'[p] = None /\ None # "manifest"
      BY <2>1, RunRegistryAssumption DEF Failures
    <2> QED BY <1>0, <1>2, <2>1, <2>2 DEF Failures
  <1>5. ASSUME Fell(p, "manifest") \/ Fell(p, "work") \/ Fell(p, "usage"), UNCHANGED cmd, jobs[p] # <<>>,
               Fell(p, "manifest") /\ cmd[p].name = "run" => Target(p) \in contended' \cup pruned'
        PROVE  Failures'
    <2>1. cmd[p] # None /\ JobOK(p, 1) /\ Head(jobs[p]) = jobs[p][1]
      BY <1>1, <1>5, AtHead DEF Core, Programs, Program
    <2>2. cmd[p].name = "run" => Target(p) = Home(p)'
      BY <1>5, <2>1 DEF JobOK, Target, Home
    <2>3. \A q \in Procs \ {p} : raised'[q] = raised[q]
      BY <1>5 DEF Fell
    <2>4. raised'[p] = "manifest" => Fell(p, "manifest")
      BY <1>5 DEF Fell
    <2>5. raised'[p] = "manifest" /\ cmd'[p].name = "run" => Home(p)' \in contended' \cup pruned'
      BY <1>5, <2>2, <2>4
    <2> QED BY <1>0, <1>2, <1>5, <2>1, <2>3, <2>5 DEF Failures
  <1>6. CASE WriteInitial(p) \/ OpenTmp(p) \/ FillTmp(p) \/ Dispatch(p) \/ AppendLine(p) \/ Select(p)
             \/ Delete(p) \/ Kill(p)
    BY <1>3, <1>6, WriteDoes, OpenTmpDoes, FillTmpDoes, DispatchDoes, AppendDoes, SelectDoes, DeleteDoes, KillDoes DEF Keeps
  <1>7. CASE Check(p) \/ Work(p)
    <2>1. UNCHANGED cmd /\ jobs[p] # <<>> /\ (UNCHANGED raised \/ Fell(p, "work") \/ Fell(p, "usage"))
      BY <1>7, CheckDoes, WorkDoes
    <2>2. Fell(p, "work") \/ Fell(p, "usage") => ~Fell(p, "manifest")
      BY DEF Fell
    <2> QED BY <1>3, <1>5, <2>1, <2>2
  <1>8. CASE ReadForUpdate(p)
    <2>1. /\ UNCHANGED cmd /\ jobs[p] # <<>> /\ Target(p) \in Procs
          /\ UNCHANGED raised \/ (manifest[Target(p)] = Torn /\ Fell(p, "manifest"))
      BY <1>8, ReadDoes DEF Keeps
    <2>2. manifest[Target(p)] = Torn => Target(p) \in contended
      BY <2>1 DEF AloneKept, Alone
    <2> QED BY <1>1, <1>3, <1>5, <2>1, <2>2
  <1>9. CASE ReadTags(p)
    <2>1. /\ UNCHANGED cmd /\ cmd[p] # None /\ cmd[p].name # "run"
          /\ \A q \in Procs \ {p} : raised'[q] = raised[q]
      BY <1>9, ReadTagsDoes
    <2> QED BY <1>0, <1>2, <2>1 DEF Failures
  <1>10. CASE ReplaceTmp(p)
    <2>1. /\ UNCHANGED cmd /\ step[p] = "replace" /\ (UNCHANGED raised \/ (tmp[Target(p)] = None /\ Fell(p, "manifest")))
      BY <1>10, ReplaceTmpDoes
    <2>2. jobs[p] # <<>> /\ Target(p) \in Procs /\ held[p] \in Manifests /\ fd[p] # None
      BY <2>1, InHand
    <2>3. ASSUME tmp[Target(p)] = None, Target(p) \notin contended PROVE Target(p) \in pruned
      <3>1. TmpOf(p, Target(p))
        BY <2>1, <2>2, <2>3 DEF AloneKept, Alone, Has
      <3>2. fd[p] # "tmp"
        BY <2>1, <2>2, <2>3, <3>1, RunRegistryAssumption DEF TmpOf
      <3> QED BY <2>2, <3>1, <3>2 DEF TmpOf
    <2> QED BY <1>1, <1>3, <1>5, <2>1, <2>2, <2>3 DEF Grows
  <1> QED BY <1>4, <1>6, <1>7, <1>8, <1>9, <1>10 DEF Acts, ProcStep

-----------------------------------------------------------------------------
(* A tag that was reported is there until it is taken back *)

LEMMA TaggedStep ==
  ASSUME Core, Contention, AloneKept, NEW p \in Procs, Acts(p), Tagged
  PROVE  Tagged'
  <1>1. /\ TypeOK /\ Core'
        /\ Idle \/ TakesUp(p) \/ OpenTmp(p) \/ FillTmp(p) \/ Replaces(p) \/ Delete(p)
    BY StepKinds DEF Core, Acts
  <1>2. TypeOK'
    BY <1>1 DEF Core
  <1> DEFINE Ok(d) == /\ Readable(manifest[d]) /\ manifest[d].tags # {}
                      /\ \A q \in Procs : Has(q, d) => held[q].tags # {} \/ (Does(q) = "tags" /\ Head(jobs[q]).arg = {})
  <1>3. ASSUME NEW d \in tagged' \ contended' PROVE Ok(d)'
    <2>1. d \in Procs /\ d \notin contended /\ Alone(d)
      BY <1>1, <1>2, <1>3, Uncontended DEF TypeOK, AloneKept
    <2>2. d \in tagged => Ok(d)
      BY <2>1 DEF Tagged
    <2>3. ASSUME d \in tagged, manifest'[d] = manifest[d], ~(TakesUp(p) /\ Target(p) = d) PROVE Ok(d)'
      <3>1. ASSUME NEW q \in Procs, Has(q, d)' PROVE Has(q, d) /\ held'[q] = held[q] /\ jobs'[q] = jobs[q]
        BY <2>1, <2>3, <3>1, FilesFrom
      <3> QED BY <2>2, <2>3, <3>1 DEF Does
    <2>4. CASE Idle
      <3>1. UNCHANGED <<manifest, tagged>>
        BY <2>4 DEF Idle
      <3>2. ~(TakesUp(p) /\ Target(p) = d)
        BY <2>4 DEF Idle, TakesUp
      <3> QED BY <1>3, <2>3, <3>1, <3>2
    <2>5. CASE TakesUp(p)
      <3>1. UNCHANGED <<manifest, tagged, jobs, cmd>>
        BY <2>5 DEF TakesUp
      <3>2. CASE Target(p) # d
        BY <1>3, <2>3, <3>1, <3>2
      <3>3. CASE Target(p) = d
        <4>1. Has(p, d)' /\ d \in tagged
          BY <1>3, <2>5, <3>1, <3>3 DEF TakesUp, Has, Target
        <4>2. Readable(manifest'[d]) /\ manifest'[d].tags # {}
          BY <2>2, <3>1, <4>1
        <4>3. Does(p) # "write"
          <5>1. Holding(p, d)' /\ ~Overwriting(p, d)'
            BY <1>1, <1>3, <2>1, <4>1, HasHoldsNext, Uncontended
          <5> QED BY <3>1, <4>2, <5>1 DEF Overwriting, Does, Readable
        <4>4. /\ held'[p] = Updated(manifest[d], Head(jobs[p])) /\ manifest[d] \in Manifests
              /\ Head(jobs[p]).do \in Updates /\ Head(jobs[p]) \in Jobs /\ Readable(manifest[d])
          BY <1>1, <2>1, <2>5, <3>3, <4>3, AtHead DEF TakesUp, TypeOK, Readable, Does
        <4>5. held'[p].tags # {} \/ (Does(p)' = "tags" /\ Head(jobs'[p]).arg = {})
          BY <3>1, <4>2, <4>4 DEF Updated, Updates, Manifests, Does
        <4>6. ASSUME NEW q \in Procs \ {p}, Has(q, d)' PROVE Has(q, d) /\ held'[q] = held[q] /\ jobs'[q] = jobs[q]
          BY <2>1, <4>6, FilesFrom
        <4> QED BY <2>2, <4>1, <4>2, <4>5, <4>6 DEF Does
      <3> QED BY <3>2, <3>3
    <2>6. CASE OpenTmp(p)
      <3>1. UNCHANGED <<manifest, tagged>> /\ step[p] = "open"
        BY <2>6, OpenTmpDoes
      <3> QED BY <1>3, <2>3, <3>1 DEF TakesUp
    <2>7. CASE FillTmp(p)
      <3>1. UNCHANGED tagged /\ step[p] = "fill" /\ (\A e \in Procs \ {Target(p)} : manifest'[e] = manifest[e])
            /\ (manifest' = manifest \/ fd[p] = "manifest")
        BY <2>7, FillTmpDoes
      <3>2. manifest'[d] = manifest[d]
        <4>1. CASE Target(p) = d /\ fd[p] = "manifest"
          <5>1. TmpOf(p, d)
            BY <2>1, <3>1, <4>1 DEF Alone, Has
          <5> QED BY <4>1, <5>1, RunRegistryAssumption DEF TmpOf
        <4> QED BY <2>1, <3>1, <4>1
      <3> QED BY <1>3, <2>3, <3>1, <3>2 DEF TakesUp
    <2>8. CASE Replaces(p)
      <3>1. /\ step[p] = "replace" /\ tagged' = TagsAfter(p)
            /\ \A e \in Procs \ {Target(p)} : manifest'[e] = manifest[e]
        BY <2>8, ReplaceTmpDoes DEF Replaces
      <3>2. CASE Target(p) # d
        BY <1>3, <2>1, <2>3, <3>1, <3>2 DEF TagsAfter, TakesUp, Target
      <3>3. CASE Target(p) = d
        <4>1. manifest'[d] = held[p] /\ \A q \in Procs : ~Has(q, d)'
          BY <1>3, <2>1, <2>8, <3>3, ReplacesAlone
        <4>2. Has(p, d) /\ held[p] \in Manifests /\ jobs[p] # <<>>
          BY <3>1, <3>3, InHand DEF Has
        <4>3. CASE Does(p) = "tags"
          <5>1. held[p].tags = Head(jobs[p]).arg /\ JobOK(p, 1) /\ Head(jobs[p]) = jobs[p][1]
            BY <1>1, <3>1, <4>2, <4>3, AtHead DEF Core, Replacements, Replacement, Programs, Program
          <5>2. Head(jobs[p]).arg # {}
            <6>1. Head(jobs[p]).arg = {} => cmd[p].name = "untag"
              BY <4>3, <5>1 DEF JobOK, Does
            <6>2. Head(jobs[p]).arg = {} => tagged' = tagged \ {d}
              BY <3>1, <3>3, <4>3, <6>1 DEF TagsAfter, Does, Target
            <6> QED BY <1>3, <6>2
          <5> QED BY <4>1, <4>2, <5>1, <5>2, ManifestThere
        <4>4. CASE Does(p) # "tags"
          <5>1. d \in tagged
            BY <1>3, <3>1, <4>4 DEF TagsAfter, Does
          <5> QED BY <2>2, <4>1, <4>2, <4>4, <5>1, ManifestThere
        <4> QED BY <4>3, <4>4
      <3> QED BY <3>2, <3>3
    <2>9. CASE Delete(p)
      <3>1. /\ tagged' = tagged \ {Target(p)} /\ UNCHANGED step /\ step[p] = "ready"
            /\ \A e \in Procs \ {Target(p)} : manifest'[e] = manifest[e]
        BY <2>9, DeleteDoes
      <3> QED BY <1>3, <2>1, <2>3, <3>1 DEF TakesUp
    <2> QED BY <1>1, <2>4, <2>5, <2>6, <2>7, <2>8, <2>9
  <1> QED BY <1>3 DEF Tagged

-----------------------------------------------------------------------------
(* The manifest and the lines tell the same story *)

\* A pipeline run works on its own directory.
LEMMA RunAtHome ==
  ASSUME Core, NEW p \in Procs, NEW d, Running(p, d)
  PROVE  Target(p) = d /\ TypeOK /\ JobOK(p, 1) /\ Head(jobs[p]) = jobs[p][1] /\ Head(jobs[p]) \in Jobs
  <1>1. TypeOK /\ JobOK(p, 1) /\ Head(jobs[p]) = jobs[p][1] /\ Head(jobs[p]) \in Jobs
    BY AtHead DEF Core, Programs, Program, Running
  <1> QED BY <1>1 DEF JobOK, Running, Target

LEMMA PastBefore ==
  ASSUME Core, NEW p \in Procs, NEW d, cmd' = cmd, jobs[p] # <<>>, Past(p, d)'
  PROVE  Running(p, d) /\ Target(p) = d /\ (Does(p) # "write" => Past(p, d))
  <1>1. Running(p, d)
    BY DEF Past, Running, Home
  <1> QED BY <1>1, RunAtHome DEF Past

\* There is no check but the first.
LEMMA NoNewCheck ==
  ASSUME Core, Contention, NEW p \in Procs, Acts(p), NEW q \in Procs, NEW d, Past(q, d), Past(q, d)', Does(q)' = "check"
  PROVE  Does(q) = "check"
  <1>1. CASE q # p
    <2>1. jobs'[q] = jobs[q]
      BY <1>1, OthersStay
    <2> QED BY <2>1 DEF Does
  <1>2. CASE q = p
    <2>1. TypeOK /\ Program(p) /\ cmd[p] # None /\ cmd[p].name = "run" /\ jobs[p] # <<>> /\ Does(p) # "write"
      BY <1>2 DEF Core, Programs, Past, Running
    <2>2. ProcStep(p) \/ Kill(p)
      BY <2>1 DEF Acts, Start
    <2>3. jobs'[p] # <<>> /\ Head(jobs'[p]).do = "check"
      BY <1>2 DEF Past, Running, Does
    <2>4. ~Tailed(p)
      <3>1. ASSUME Tailed(p) PROVE FALSE
        <4>1. PICK t \in Seq(Jobs) : t = jobs[p] /\ Len(t) > 1
          BY <2>1, <3>1 DEF Tailed, TypeOK
        <4>2. Head(Tail(t)) = t[2] /\ 2 \in DOMAIN t /\ Head(t) = t[1]
          BY <4>1
        <4>3. JobOK(p, 2) /\ jobs[p][2].do = "check"
          BY <2>1, <2>3, <3>1, <4>1, <4>2 DEF Tailed, Program
        <4>4. jobs[p][1].do = "write"
          <5>1. 2 = 1 \/ jobs[p][2 - 1].do = "write"
            BY <4>3 DEF JobOK
          <5> QED BY <5>1
        <4> QED BY <2>1, <4>1, <4>2, <4>4 DEF Does
      <3> QED BY <3>1
    <2>5. ~Leaves(p)
      <3>1. ASSUME Leaves(p) PROVE FALSE
        <4>1. jobs'[p] = HookOf(p)
          BY <2>1, <2>3, <3>1 DEF Leaves, Program
        <4> QED BY <2>3, <4>1 DEF HookOf, Job
      <3> QED BY <3>1
    <2>6. ~Fails(p)
      <3>1. ASSUME Fails(p) PROVE FALSE
        <4> DEFINE l == Job("line", Target(p), <<Head(jobs[p]).arg, "failed">>)
        <4>1. exit[p] \in Seq(Jobs) /\ jobs'[p] = <<l>> \o exit[p] /\ l.do = "line"
          BY <2>1, <3>1 DEF Fails, TypeOK, Job
        <4> HIDE DEF l
        <4>2. exit[p] = HookOf(p)
          BY <2>1, <3>1 DEF Fails, Program
        <4> DEFINE h == Job("status", Home(p), "completed")
        <4>3. exit[p] = <<h>>
          BY <4>2 DEF HookOf
        <4> HIDE DEF h
        <4>4. <<l>> \in Seq({l, h}) /\ <<h>> \in Seq({l, h})
          OBVIOUS
        <4>5. Head(<<l>> \o <<h>>) = l
          BY <4>4
        <4> QED BY <2>3, <4>1, <4>3, <4>5
      <3> QED BY <3>1
    <2>7. ASSUME NEW todo \in Seq(Jobs), jobs'[p] = todo \o Tail(jobs[p]), todo # <<>>, Unchecked(todo) PROVE FALSE
      <3>1. Tail(jobs[p]) \in Seq(Jobs)
        BY <2>1, AtHead
      <3>2. PICK t \in Seq(Jobs) : t = Tail(jobs[p])
        BY <3>1
      <3>3. Head(todo \o t) = todo[1] /\ 1 \in DOMAIN todo
        BY <2>7
      <3> QED BY <2>3, <2>7, <3>2, <3>3 DEF Unchecked
    <2>8. jobs'[p] = jobs[p]
      BY <2>1, <2>2, <2>3, <2>4, <2>5, <2>6, <2>7, RunActs DEF Moves, Fell, Written
    <2> QED BY <1>2, <2>8 DEF Does
  <1> QED BY <1>1, <1>2

\* A run at its check goes on from there, or was there before; one that is
\* refused was at its check, or was refused before.
LEMMA PassedFrom ==
  ASSUME Core, Contention, Failures, NEW p \in Procs, Acts(p), NEW d \in Procs, NEW q \in Procs
  PROVE  /\ Past(q, d)' /\ Does(q)' = "check" /\ Past(q, d) => Does(q) = "check"
         /\ Refused(q)' /\ Home(q)' = d => \/ Refused(q) /\ Home(q) = d
                                           \/ q = p /\ Past(q, d) /\ Does(q) = "check"
  BY NoNewCheck, RefusedFrom

\* Steps that add no line and replace no manifest.
LEMMA StoryQuiet ==
  ASSUME Core, Contention, Failures, NEW p \in Procs, Acts(p), NEW d \in Procs, Story(d), lines'[d] = lines[d], manifest'[d] = manifest[d],
         \A q \in Procs : Past(q, d)' =>
           /\ Past(q, d)
           /\ \/ Head(jobs'[q]) = Head(jobs[q]) \/ Does(q) # "completed"
              \/ Head(jobs[q]).arg \in manifest[d].completed,
         \A q \in Procs : Has(q, d)' /\ Does(q)' # "write" =>
           /\ Readable(manifest[d]) /\ manifest[d].completed \subseteq held'[q].completed
           /\ Does(q)' = "completed" => Head(jobs'[q]).arg \in held'[q].completed
  PROVE  Story(d)'
  <1>1. Ends(d)' = Ends(d)
    BY DEF Ends
  <1>5. \A q \in Procs : Passed(q, d)' => Passed(q, d)
    BY PassedFrom DEF Passed
  <1>2. manifest'[d] = None => lines'[d] = <<>> /\ \A q \in Procs : ~Passed(q, d)'
    BY <1>5 DEF Story
  <1>3. \A q, r \in Procs : Passed(q, d)' /\ Passed(r, d)' => q = r
    BY <1>5 DEF Story
  <1>6. \A q \in Procs : (Past(q, d)' /\ Does(q)' = "check") \/ (Refused(q)' /\ Home(q)' = d) => lines'[d] = <<>>
    BY PassedFrom DEF Story
  <1>4. ASSUME NEW s \in Ends(d), s \notin manifest[d].completed
        PROVE  Last(lines'[d]) = <<s, "end">> /\ \A q \in Procs : Past(q, d)' => Head(jobs'[q]) = Job("completed", d, s)
    <2>1. Last(lines[d]) = <<s, "end">> /\ \A q \in Procs : Past(q, d) => Head(jobs[q]) = Job("completed", d, s)
      BY <1>4 DEF Story
    <2>2. ASSUME NEW q \in Procs, Past(q, d)' PROVE Head(jobs'[q]) = Job("completed", d, s)
      <3>1. Head(jobs[q]) = Job("completed", d, s) /\ Does(q) = "completed" /\ Head(jobs[q]).arg = s
        BY <2>1, <2>2 DEF Does, Job
      <3> QED BY <1>4, <2>2, <3>1
    <2> QED BY <2>1, <2>2
  <1> QED BY <1>1, <1>2, <1>3, <1>4, <1>6 DEF Story, Readable

\* Who has a copy has what the manifest lists.
LEMMA HandStory ==
  ASSUME Core, Contention, NEW p \in Procs, Acts(p), NEW d \in Procs, Story(d)
  PROVE  \A q \in Procs : Has(q, d)' /\ Does(q)' # "write" =>
           /\ Readable(manifest[d]) /\ manifest[d].completed \subseteq held'[q].completed
           /\ Does(q)' = "completed" => Head(jobs'[q]).arg \in held'[q].completed
  <1> SUFFICES ASSUME NEW q \in Procs, Has(q, d)', Does(q)' # "write"
               PROVE  /\ Readable(manifest[d]) /\ manifest[d].completed \subseteq held'[q].completed
                      /\ Does(q)' = "completed" => Head(jobs'[q]).arg \in held'[q].completed
    OBVIOUS
  <1>1. CASE Has(q, d) /\ held'[q] = held[q] /\ jobs'[q] = jobs[q]
    BY <1>1 DEF Story, Does
  <1>2. CASE q = p /\ TakesUp(p) /\ Target(p) = d
    <2>1. jobs'[p] = jobs[p] /\ Does(p)' = Does(p)
      BY <1>2 DEF TakesUp, Does
    <2>2. /\ Readable(manifest[d]) /\ Does(p) \in Updates /\ held'[p] = Updated(manifest[d], Head(jobs[p]))
          /\ manifest[d] \in Manifests /\ Head(jobs[p]) \in Jobs
      BY <1>2, <2>1, AtHead DEF TakesUp, Core, TypeOK, Readable
    <2> QED BY <1>2, <2>1, <2>2 DEF Updated, Updates, Does, Manifests
  <1> QED BY <1>1, <1>2, FilesFrom

LEMMA StoryIdle ==
  ASSUME Core, Contention, Failures, NEW p \in Procs, Acts(p), NEW d \in Procs, Story(d), lines'[d] = lines[d],
         manifest'[d] = manifest[d],
         \A q \in Procs \ {p} : cmd'[q] = cmd[q] /\ jobs'[q] = jobs[q],
         Past(p, d)' => /\ Past(p, d)
                        /\ jobs'[p] = jobs[p] \/ Does(p) # "completed" \/ Head(jobs[p]).arg \in manifest[d].completed
  PROVE  Story(d)'
  <1>1. ASSUME NEW q \in Procs, Past(q, d)'
        PROVE  /\ Past(q, d)
               /\ \/ Head(jobs'[q]) = Head(jobs[q]) \/ Does(q) # "completed"
                  \/ Head(jobs[q]).arg \in manifest[d].completed
    BY <1>1 DEF Past, Running, Home, Does
  <1> QED BY <1>1, HandStory, StoryQuiet

LEMMA StoryAppend ==
  ASSUME Core, Contention, Failures, NEW p \in Procs, AppendLine(p), NEW d \in Procs, Story(d)
  PROVE  Story(d)'
  <1>1. /\ Core' /\ Idle /\ OthersKept(p) /\ UNCHANGED cmd /\ jobs[p] # <<>> /\ Does(p) = "line" /\ Moves(p)
        /\ step'[p] = "ready"
        /\ lines'[Target(p)] = Append(lines[Target(p)], Head(jobs[p]).arg)
        /\ \A e \in Procs \ {Target(p)} : lines'[e] = lines[e]
    BY AppendDoes
  <1>2. manifest' = manifest /\ Acts(p) /\ \A q \in Procs \ {p} : cmd'[q] = cmd[q] /\ jobs'[q] = jobs[q]
    BY <1>1 DEF Idle, Acts, ProcStep, OthersKept
  <1>3. CASE Target(p) # d
    <2>1. ~Past(p, d)'
      BY <1>1, <1>3, PastBefore
    <2> QED BY <1>1, <1>2, <1>3, <2>1, StoryIdle
  <1>4. CASE Target(p) = d
    <2>1. /\ TypeOK /\ Program(p) /\ JobOK(p, 1) /\ Head(jobs[p]) = jobs[p][1] /\ Head(jobs[p]) \in Jobs
          /\ Len(jobs[p]) \in Nat \ {0}
      BY <1>1, AtHead DEF Core, Programs, Program
    <2>2. Past(p, d)
      BY <1>1, <1>4, <2>1 DEF JobOK, Does, Past, Running, Program, Target, OfRun
    <2>3. manifest[d] # None /\ \A q \in Procs : Passed(q, d) => q = p
      BY <2>2 DEF Story, Passed
    <2>10. ASSUME NEW q \in Procs, Refused(q)', Home(q)' = d PROVE FALSE
      <3>1. Refused(q) /\ Home(q) = d
        BY <1>1, <1>2, <2>10, PassedFrom
      <3>2. q = p
        BY <2>3, <3>1 DEF Passed
      <3>3. jobs[p] = HookOf(p)
        BY <1>1, <3>1, <3>2 DEF Failures, Over
      <3> QED BY <1>1, <3>3 DEF HookOf, Does, Job
    <2>4. ASSUME NEW q \in Procs, Past(q, d)' PROVE q = p
      BY <1>1, <1>2, <2>3, <2>4, PastBefore DEF Past, Running, Home, Does, Passed
    <2>5. PICK L \in Seq(EventLines), e \in EventLines :
            L = lines[d] /\ e = Head(jobs[p]).arg
      BY <1>1, <2>1, JobFields DEF TypeOK, Does
    <2>6. lines'[d] = Append(L, e) /\ Last(Append(L, e)) = e /\ ToSet(Append(L, e)) \subseteq ToSet(L) \cup {e}
      <3>1. /\ Len(Append(L, e)) = Len(L) + 1 /\ Len(L) \in Nat /\ Append(L, e)[Len(L) + 1] = e
            /\ \A i \in 1 .. Len(L) : Append(L, e)[i] = L[i]
            /\ DOMAIN Append(L, e) = 1 .. Len(L) + 1 /\ DOMAIN L = 1 .. Len(L)
        OBVIOUS
      <3>2. \A i \in 1 .. Len(L) + 1 : i = Len(L) + 1 \/ i \in 1 .. Len(L)
        BY <3>1
      <3>3. ToSet(Append(L, e)) \subseteq ToSet(L) \cup {e}
        BY <3>1, <3>2 DEF ToSet
      <3> QED BY <1>1, <1>4, <2>5, <3>1, <3>3 DEF Last
    <2>7. Ends(d) \subseteq manifest[d].completed
      <3>1. ASSUME NEW s \in Ends(d), s \notin manifest[d].completed PROVE FALSE
        <4>1. Head(jobs[p]) = Job("completed", d, s)
          BY <2>2, <3>1 DEF Story
        <4> QED BY <1>1, <4>1 DEF Does, Job
      <3> QED BY <3>1
    <2>8. ASSUME NEW s \in Ends(d)', s \notin manifest[d].completed
          PROVE  /\ Last(lines'[d]) = <<s, "end">>
                 /\ \A q \in Procs : Past(q, d)' => Head(jobs'[q]) = Job("completed", d, s)
      <3>1. <<s, "end">> \in ToSet(L) \cup {e} /\ s \in Stages
        BY <2>6, <2>8 DEF Ends, Stages
      <3>2. e = <<s, "end">>
        BY <2>5, <2>7, <2>8, <3>1 DEF Ends, Stages
      <3>3. 1 < Len(jobs[p]) /\ jobs[p][2] = Job("completed", d, s)
        <4>1. 1 < Len(jobs[p]) /\ jobs[p][1 + 1] = Job("completed", jobs[p][1].dir, e[1])
          BY <1>1, <2>1, <2>5, <3>2 DEF JobOK, Does
        <4>2. jobs[p][1].dir = d /\ e[1] = s
          BY <1>4, <2>1, <3>2 DEF Target
        <4> QED BY <4>1, <4>2
      <3>4. Head(jobs'[p]) = jobs[p][2]
        <4>1. jobs'[p] = Tail(jobs[p])
          BY <1>1, <2>1, <3>3 DEF Moves, Tailed
        <4>2. PICK t \in Seq(Jobs) : t = jobs[p] /\ Len(t) > 1
          BY <2>1, <3>3 DEF TypeOK
        <4>3. Head(Tail(t)) = t[2]
          BY <4>2
        <4> QED BY <4>1, <4>2, <4>3
      <3> QED BY <2>4, <2>6, <3>2, <3>3, <3>4
    <2>9. \A q \in Procs : Has(q, d)' /\ Does(q)' # "write" =>
             /\ Readable(manifest[d]) /\ manifest[d].completed \subseteq held'[q].completed
             /\ Does(q)' = "completed" => Head(jobs'[q]).arg \in held'[q].completed
      BY <1>2, HandStory
    <2>11. \A q \in Procs : ~(Past(q, d)' /\ Does(q)' = "check")
      BY <1>1, <1>2, <2>2, <2>4, PassedFrom
    <2> QED BY <1>2, <2>3, <2>4, <2>8, <2>9, <2>10, <2>11 DEF Story, Passed
  <1> QED BY <1>3, <1>4

LEMMA StoryReplaces ==
  ASSUME Core, Contention, AloneKept, Failures, NEW p \in Procs, Replaces(p), NEW d \in Procs \ contended', Story(d)
  PROVE  Story(d)'
  <1>1. /\ Core' /\ OthersKept(p) /\ UNCHANGED <<lines, cmd>> /\ step[p] = "replace" /\ step'[p] = "ready"
        /\ \A e \in Procs \ {Target(p)} : manifest'[e] = manifest[e]
    BY ReplaceTmpDoes DEF Replaces
  <1>2. Acts(p) /\ \A q \in Procs \ {p} : cmd'[q] = cmd[q] /\ jobs'[q] = jobs[q]
    BY <1>1 DEF Replaces, Acts, ProcStep, OthersKept
  <1>3. TypeOK /\ jobs[p] # <<>> /\ held[p] \in Manifests /\ Replacement(p)
    BY <1>1, InHand
  <1>4. CASE Target(p) # d
    <2>1. ~Past(p, d)'
      BY <1>1, <1>3, <1>4, PastBefore
    <2> QED BY <1>1, <1>2, <1>4, <2>1, StoryIdle
  <1>5. CASE Target(p) = d
    <2>1. manifest'[d] = held[p] /\ (\A q \in Procs : ~Has(q, d)') /\ held[p] # None
      BY <1>3, <1>5, ReplacesAlone, RunRegistryAssumption
    <2>2. Has(p, d) /\ Holding(p, d)
      BY <1>1, <1>5, HasHolds DEF Has
    <2>3. Does(p) = "write" => manifest[d] = None
      BY <1>3, <2>2, Uncontended DEF AloneKept, Alone, Overwriting, Does
    <2>4. ASSUME NEW q \in Procs, q # p, Past(q, d)' PROVE Past(q, d) /\ jobs'[q] = jobs[q]
      BY <1>2, <2>4 DEF Past, Running, Home, Does
    <2>5. ASSUME Past(p, d)', Does(p) # "write" PROVE Past(p, d)
      BY <1>1, <1>3, <2>5, PastBefore
    <2>8. Does(p) # "check"
      BY <1>1, InHand DEF Updates
    <2>9. \A q \in Procs : Refused(q)' /\ Home(q)' = d => Refused(q) /\ Home(q) = d
      BY <1>2, <2>8, PassedFrom
    <2>10. \A q \in Procs : Passed(q, d)' => Passed(q, d) \/ (q = p /\ Does(p) = "write")
      BY <2>4, <2>5, <2>9 DEF Passed
    <2>6. \A q, r \in Procs : Passed(q, d)' /\ Passed(r, d)' => q = r
      BY <2>3, <2>10 DEF Story
    <2>11. ASSUME NEW q \in Procs, Past(q, d)', Does(q)' = "check" PROVE lines'[d] = <<>>
      <3>1. CASE Past(q, d)
        BY <1>1, <1>2, <2>11, <3>1, PassedFrom DEF Story
      <3>2. CASE q = p /\ Does(p) = "write"
        BY <1>1, <2>3, <3>2 DEF Story
      <3> QED BY <2>4, <2>5, <2>11, <3>1, <3>2
    <2>12. \A q \in Procs : Refused(q)' /\ Home(q)' = d => lines'[d] = <<>>
      BY <1>1, <2>9 DEF Story
    <2>7. ASSUME NEW s \in Ends(d)', s \notin held[p].completed
          PROVE  /\ Last(lines'[d]) = <<s, "end">>
                 /\ \A q \in Procs : Past(q, d)' => Head(jobs'[q]) = Job("completed", d, s)
      <3>1. s \in Ends(d)
        BY <1>1, <2>7 DEF Ends
      <3>2. Does(p) # "write"
        <4>1. lines[d] = <<>> => Ends(d) = {}
          BY DEF Ends, ToSet
        <4> QED BY <2>3, <3>1, <4>1 DEF Story
      <3>3. /\ manifest[d].completed \subseteq held[p].completed
            /\ Does(p) = "completed" => Head(jobs[p]).arg \in held[p].completed
        BY <2>2, <3>2 DEF Story
      <3>4. Last(lines[d]) = <<s, "end">> /\ \A q \in Procs : Past(q, d) => Head(jobs[q]) = Job("completed", d, s)
        BY <2>7, <3>1, <3>3 DEF Story
      <3>5. ~Past(p, d)
        <4>1. Past(p, d) => Does(p) = "completed" /\ Head(jobs[p]).arg = s
          BY <3>4 DEF Does, Job
        <4> QED BY <2>7, <3>3, <4>1
      <3> QED BY <1>1, <2>4, <2>5, <3>2, <3>4, <3>5
    <2> QED BY <2>1, <2>6, <2>7, <2>11, <2>12 DEF Story
  <1> QED BY <1>4, <1>5

\* A command that keeps a sidecar begins with its manifest.
LEMMA StartsWriting ==
  ASSUME NEW c \in Commands, NEW d \in Procs, c.sidecar,
         NEW J, J = (IF c.sidecar THEN <<Job("write", d, None)>> ELSE <<>>) \o JobsOf(c, d)
  PROVE  J # <<>> /\ Head(J).do = "write"
  <1>1. JobsOf(c, d) \in Seq(Jobs) /\ <<Job("write", d, None)>> \in Seq(Jobs)
    BY JobsFresh, JobMade
  <1>2. PICK P \in Seq(Jobs), w \in Jobs : P = JobsOf(c, d) /\ w = Job("write", d, None)
    BY <1>1, JobMade
  <1>3. J = <<w>> \o P
    BY <1>2
  <1>4. J # <<>> /\ Head(J) = w
    BY <1>3
  <1> QED BY <1>2, <1>4 DEF Job

LEMMA StoryStep ==
  ASSUME Core, Contention, AloneKept, Failures, NEW p \in Procs, Acts(p), Stories
  PROVE  Stories'
  <1>1. Core' /\ Grows /\ TypeOK
    BY StepKinds, StepGrows DEF Core, Acts
  <1>2. ASSUME NEW d \in Procs \ (contended' \cup pruned') PROVE Story(d)'
    <2>1. d \in Procs \ contended' /\ d \notin contended /\ d \notin pruned /\ d \notin pruned'
      BY <1>1, <1>2, Uncontended DEF Grows
    <2>2. Story(d) /\ Alone(d)
      BY <2>1 DEF Stories, AloneKept
    <2>3. ASSUME lines'[d] = lines[d], manifest'[d] = manifest[d], OthersKept(p), UNCHANGED cmd, jobs[p] # <<>>,
                 Past(p, d)' /\ Past(p, d) /\ Target(p) = d /\ Does(p) = "completed"
                   => Head(jobs[p]).arg \in manifest[d].completed,
                 Target(p) = d => Does(p) # "write"
          PROVE  Story(d)'
      <3>1. Past(p, d)' => Past(p, d) /\ Target(p) = d
        BY <1>1, <2>3, PastBefore
      <3>2. \A q \in Procs \ {p} : cmd'[q] = cmd[q] /\ jobs'[q] = jobs[q]
        BY <2>3 DEF OthersKept
      <3> QED BY <1>1, <2>1, <2>2, <2>3, <3>1, <3>2, StoryIdle
    <2>4. ASSUME lines'[d] = lines[d], manifest'[d] = manifest[d], UNCHANGED <<jobs, cmd>> PROVE Story(d)'
      <3>1. Past(p, d)' => Past(p, d)
        BY <2>4 DEF Past, Running, Home, Does
      <3> QED BY <2>1, <2>2, <2>4, <3>1, StoryIdle
    <2>5. CASE WriteInitial(p) \/ OpenTmp(p)
      BY <2>4, <2>5, WriteDoes, OpenTmpDoes DEF Keeps
    <2>6. CASE FillTmp(p)
      <3>1. UNCHANGED <<lines, cmd, jobs>> /\ step[p] = "fill" /\ (manifest' = manifest \/ fd[p] = "manifest")
            /\ \A e \in Procs \ {Target(p)} : manifest'[e] = manifest[e]
        BY <2>6, FillTmpDoes
      <3>2. manifest'[d] = manifest[d]
        <4>1. CASE Target(p) = d /\ fd[p] = "manifest"
          <5>1. TmpOf(p, d)
            BY <2>2, <3>1, <4>1 DEF Alone, Has
          <5> QED BY <4>1, <5>1, RunRegistryAssumption DEF TmpOf
        <4> QED BY <2>1, <3>1, <4>1
      <3> QED BY <2>4, <3>1, <3>2
    <2>7. CASE ReadForUpdate(p)
      <3>1. /\ UNCHANGED <<manifest, lines, cmd>> /\ OthersKept(p) /\ jobs[p] # <<>> /\ Does(p) \in Updates
            /\ \/ manifest[Target(p)] = Torn
               \/ manifest[Target(p)] = None
               \/ /\ Does(p) \in {"observed", "completed"} /\ Readable(manifest[Target(p)])
                  /\ Updated(manifest[Target(p)], Head(jobs[p])) = manifest[Target(p)]
               \/ UNCHANGED jobs
        BY <2>7, ReadDoes DEF Keeps
      <3>2. CASE UNCHANGED jobs
        BY <2>4, <3>1, <3>2
      <3>3. CASE ~UNCHANGED jobs
        <4>1. ASSUME Past(p, d), Target(p) = d, Does(p) = "completed" PROVE Head(jobs[p]).arg \in manifest[d].completed
          <5>1. manifest[d] # None /\ manifest[d] # Torn
            BY <2>2, <4>1 DEF Story, Alone, Passed
          <5>2. Updated(manifest[d], Head(jobs[p])) = manifest[d] /\ manifest[d] \in Manifests
            BY <1>1, <2>1, <3>1, <3>3, <4>1, <5>1 DEF TypeOK
          <5>3. Updated(manifest[d], Head(jobs[p])).completed = manifest[d].completed \cup {Head(jobs[p]).arg}
            BY <4>1, <5>2 DEF Updated, Does, Manifests
          <5> QED BY <5>2, <5>3
        <4>2. Does(p) # "write"
          BY <3>1 DEF Updates
        <4> QED BY <2>3, <3>1, <4>1, <4>2
      <3> QED BY <3>2, <3>3
    <2>8. CASE Check(p) \/ Dispatch(p) \/ Work(p)
      <3>1. UNCHANGED <<lines, cmd, manifest>> /\ OthersKept(p) /\ jobs[p] # <<>> /\ Does(p) \in {"check", "stage", "work"}
        BY <2>8, CheckDoes, DispatchDoes, WorkDoes DEF Idle
      <3> QED BY <2>3, <3>1
    <2>9. CASE AppendLine(p)
      BY <2>2, <2>9, StoryAppend
    <2>10. CASE ReadTags(p) \/ Select(p) \/ Delete(p)
      <3>1. UNCHANGED cmd /\ OthersKept(p) /\ jobs[p] # <<>> /\ cmd[p].name # "run"
        BY <2>10, ReadTagsDoes, SelectDoes, DeleteDoes
      <3>2. manifest'[d] = manifest[d] /\ lines'[d] = lines[d]
        <4>1. CASE ReadTags(p) \/ Select(p)
          BY <4>1, ReadTagsDoes, SelectDoes DEF Idle
        <4>2. CASE Delete(p)
          BY <1>2, <4>2, DeleteDoes
        <4> QED BY <2>10, <4>1, <4>2
      <3>3. ~Past(p, d)'
        BY <3>1 DEF Past, Running
      <3>4. \A q \in Procs \ {p} : cmd'[q] = cmd[q] /\ jobs'[q] = jobs[q]
        BY <3>1 DEF OthersKept
      <3> QED BY <2>1, <2>2, <3>2, <3>3, <3>4, StoryIdle
    <2>11. CASE Kill(p)
      <3>1. UNCHANGED <<lines, cmd, manifest>> /\ OthersKept(p) /\ jobs'[p] = <<>>
        BY <2>11, KillDoes DEF Idle
      <3>2. ~Past(p, d)'
        BY <3>1 DEF Past, Running
      <3>3. \A q \in Procs \ {p} : cmd'[q] = cmd[q] /\ jobs'[q] = jobs[q]
        BY <3>1 DEF OthersKept
      <3> QED BY <2>1, <2>2, <3>1, <3>2, <3>3, StoryIdle
    <2>12. ASSUME NEW c \in CommandsOf[p], Start(p, c) PROVE Story(d)'
      <3>1. /\ UNCHANGED <<lines, manifest>> /\ OthersKept(p) /\ cmd'[p] = c /\ c \in Commands
            /\ \A q \in Procs \ {p} : cmd'[q] = cmd[q]
            /\ jobs'[p] = (IF c.sidecar THEN <<Job("write", Home(p)', None)>> ELSE <<>>) \o JobsOf(c, Home(p)')
        BY <2>12, StartDoes DEF Idle
      <3>4. PICK h \in Procs : h = Home(p)'
        BY <3>1, CommandFields DEF Home
      <3>5. c.sidecar => Head(jobs'[p]).do = "write"
        BY <3>1, <3>4, StartsWriting
      <3>2. ~Past(p, d)'
        BY <3>1, <3>5 DEF Past, Running, Does
      <3>3. \A q \in Procs \ {p} : cmd'[q] = cmd[q] /\ jobs'[q] = jobs[q]
        BY <3>1 DEF OthersKept
      <3> QED BY <2>1, <2>2, <3>1, <3>2, <3>3, StoryIdle
    <2>13. CASE ReplaceTmp(p) /\ ~Replaces(p)
      <3>1. /\ UNCHANGED <<lines, cmd, manifest>> /\ OthersKept(p) /\ step[p] = "replace" /\ tmp[Target(p)] = None
        BY <2>13, ReplaceTmpDoes DEF Replaces, Idle
      <3>2. jobs[p] # <<>> /\ held[p] \in Manifests /\ fd[p] # None
        BY <3>1, InHand
      <3>3. Target(p) # d
        <4>1. ASSUME Target(p) = d PROVE FALSE
          <5>1. TmpOf(p, d)
            BY <2>2, <3>1, <4>1 DEF Alone, Has
          <5>2. fd[p] = "tmp" /\ held[p] # None
            BY <2>1, <3>2, <5>1, RunRegistryAssumption DEF TmpOf
          <5> QED BY <3>1, <4>1, <5>1, <5>2 DEF TmpOf
        <4> QED BY <4>1
      <3> QED BY <2>3, <3>1, <3>2, <3>3
    <2>14. CASE Replaces(p)
      BY <2>1, <2>2, <2>14, StoryReplaces
    <2> QED BY <2>5, <2>6, <2>7, <2>8, <2>9, <2>10, <2>11, <2>12, <2>13, <2>14 DEF Acts, ProcStep
  <1> QED BY <1>2 DEF Stories

-----------------------------------------------------------------------------
(* A run stamped completed has ended or left out its stages, or says why not *)

LEMMA AccountedMore ==
  ASSUME Grows, NEW d \in Procs \ pruned', NEW s \in Stages, Accounted(d, s) PROVE Accounted(d, s)'
  <1>1. \A k \in {"end", "skipped"} : <<s, k>> \in ToSet(lines[d]) => <<s, k>> \in ToSet(lines'[d])
    BY StageTyped DEF Grows, EventLines
  <1> QED BY <1>1 DEF Accounted

\* Whoever was refused in a directory still is.
RefusedKept(d) == \A q \in Procs : Refused(q) /\ Home(q) = d => Refused(q)' /\ Home(q)' = d

LEMMA ExplainedMore ==
  ASSUME Grows, NEW d \in Procs \ pruned', RefusedKept(d), Explained(d) PROVE Explained(d)'
  <1>1. CASE \A s \in Stages : Accounted(d, s)
    BY <1>1, AccountedMore DEF Explained
  <1>2. ASSUME NEW s \in Stages, <<s, "failed">> \in ToSet(lines[d]) PROVE Explained(d)'
    <2>1. <<s, "failed">> \in EventLines
      BY StageTyped DEF EventLines
    <2>2. <<s, "failed">> \in ToSet(lines'[d])
      BY <1>2, <2>1 DEF Grows
    <2> QED BY <2>2 DEF Explained
  <1>3. ASSUME NEW q \in Procs, Refused(q) /\ Home(q) = d PROVE Explained(d)'
    BY <1>3 DEF RefusedKept, Explained
  <1> QED BY <1>1, <1>2, <1>3 DEF Explained

LEMMA CoveredMore ==
  ASSUME Grows, NEW q \in Procs, NEW d \in Procs \ pruned', RefusedKept(d), Home(q) = d, cmd'[q] = cmd[q],
         jobs'[q] = jobs[q], Covered(q)
  PROVE  Covered(q)'
  <1>1. Home(q)' = d
    BY DEF Home
  <1>2. CASE Explained(d)
    BY <1>1, <1>2, ExplainedMore DEF Covered
  <1>3. CASE Does(q) = "line" /\ Head(jobs[q]).arg[2] = "failed"
    BY <1>1, <1>3 DEF Covered, Does
  <1>4. CASE \A s \in Stages : Accounted(d, s) \/ \E i \in DOMAIN jobs[q] : Ahead(jobs[q][i], d, s)
    <2>1. \A s \in Stages : Accounted(d, s)' \/ \E i \in DOMAIN jobs'[q] : Ahead(jobs'[q][i], d, s)
      BY <1>4, AccountedMore
    <2> QED BY <1>1, <2>1 DEF Covered, Ahead
  <1> QED BY <1>2, <1>3, <1>4 DEF Covered

\* A line that stood for a stage accounts for it once it is written.
LEMMA LineAccounts ==
  ASSUME NEW j, NEW d, NEW s, Ahead(j, d, s), j.do # "stage", j.do = "line" => j.arg \in ToSet(lines'[d])
  PROVE  Accounted(d, s)'
  <1>1. PICK k \in {"end", "skipped"} : j = Job("line", d, <<s, k>>)
    BY DEF Ahead, Job
  <1>2. <<s, k>> \in ToSet(lines'[d])
    BY <1>1 DEF Job
  <1> QED BY <1>2 DEF Accounted

\* The next job of a run, after one that is no line or after the line was written.
LEMMA CoveredGoes ==
  ASSUME Core, Grows, NEW p \in Procs, NEW d \in Procs \ pruned', RefusedKept(d), Running(p, d), Covered(p),
         cmd' = cmd, Does(p) # "stage", Does(p) = "line" => Head(jobs[p]).arg \in ToSet(lines'[d]),
         \/ Len(jobs[p]) > 1 /\ jobs'[p] = Tail(jobs[p])
         \/ Len(jobs[p]) = 1
  PROVE  Covered(p)' /\ (Len(jobs[p]) = 1 => Explained(d)')
  <1> DEFINE n == Len(jobs[p])
  <1>1. /\ Target(p) = d /\ TypeOK /\ Program(p) /\ JobOK(p, 1) /\ Head(jobs[p]) = jobs[p][1]
        /\ n \in Nat \ {0} /\ DOMAIN jobs[p] = 1 .. n
    BY RunAtHome, AtHead DEF Core, Programs, Running
  <1>2. Home(p)' = d /\ Home(p) = d
    BY DEF Running, Home
  <1>3. CASE Explained(d)
    BY <1>2, <1>3, ExplainedMore DEF Covered
  <1>4. CASE Does(p) = "line" /\ Head(jobs[p]).arg[2] = "failed"
    <2>1. Head(jobs[p]).arg \in EventLines /\ Head(jobs[p]).arg[1] \in Stages
      BY <1>1, <1>4, RunAtHome, JobFields DEF JobOK, Does
    <2>2. Head(jobs[p]).arg = <<Head(jobs[p]).arg[1], "failed">>
      BY <1>4, <2>1 DEF EventLines
    <2>3. Explained(d)'
      BY <1>4, <2>1, <2>2 DEF Explained
    <2> QED BY <1>2, <2>3 DEF Covered
  <1>5. ASSUME \A s \in Stages : Accounted(d, s) \/ \E i \in DOMAIN jobs[p] : Ahead(jobs[p][i], d, s)
        PROVE  Covered(p)' /\ (n = 1 => Explained(d)')
    <2>1. ASSUME NEW s \in Stages, ~Accounted(d, s)'
          PROVE  n # 1 /\ \E i \in DOMAIN jobs'[p] : Ahead(jobs'[p][i], d, s)
      <3>1. PICK i \in 1 .. n : Ahead(jobs[p][i], d, s)
        BY <1>1, <1>5, <2>1, AccountedMore
      <3>2. i # 1
        BY <1>1, <2>1, <3>1, LineAccounts DEF Does
      <3>5. n > 1 /\ jobs'[p] = Tail(jobs[p])
        <4>1. PICK k \in Nat : k = n
          BY <1>1
        <4>4. i \in 1 .. k
          BY <4>1, Zenon
        <4>2. k # 1
          BY <3>2, <4>4
        <4>3. Len(jobs[p]) # 1
          BY <4>1, <4>2, Zenon
        <4> QED BY <4>3, Zenon
      <3>6. i - 1 \in DOMAIN jobs'[p] /\ jobs'[p][i - 1] = jobs[p][i]
        <4>1. PICK t \in Seq(Jobs) : t = jobs[p]
          BY <1>1 DEF TypeOK
        <4>2. t # <<>> /\ Len(t) = n
          BY <1>1, <3>5, <4>1
        <4> HIDE DEF n
        <4>3. i - 1 \in DOMAIN Tail(t) /\ Tail(t)[i - 1] = t[i]
          BY <1>1, <3>1, <3>2, <4>2
        <4> QED BY <3>5, <4>1, <4>3
      <3>7. \E h \in DOMAIN jobs'[p] : jobs'[p][h] = jobs[p][i]
        BY <3>6
      <3> QED BY <3>1, <3>5, <3>7
    <2>3. n = 1 => Explained(d)'
      BY <2>1 DEF Explained
    <2> HIDE DEF n
    <2>4. \A s \in Stages : Accounted(d, s)' \/ \E i \in DOMAIN jobs'[p] : Ahead(jobs'[p][i], d, s)
      BY <2>1
    <2> QED BY <1>2, <2>3, <2>4 DEF Covered, Ahead
  <1> QED BY <1>2, <1>3, <1>4, <1>5 DEF Covered

\* A stage that is dispatched, or the others after it.
LEMMA CoveredDispatch ==
  ASSUME Core, Grows, NEW p \in Procs, NEW d \in Procs \ pruned', RefusedKept(d), Running(p, d), Covered(p),
         cmd' = cmd, Does(p) = "stage", NEW todo \in Seq(Jobs), jobs'[p] = todo \o Tail(jobs[p]),
         Head(jobs[p]).arg \in QuietStages \/ \E i \in DOMAIN todo : Ahead(todo[i], d, Head(jobs[p]).arg)
  PROVE  Covered(p)'
  <1>1. TypeOK /\ jobs[p] # <<>> /\ Home(p)' = d /\ Home(p) = d
    BY DEF Core, Running, Home
  <1>2. CASE Explained(d)
    BY <1>1, <1>2, ExplainedMore DEF Covered
  <1>3. CASE \A s \in Stages : Accounted(d, s) \/ \E i \in DOMAIN jobs[p] : Ahead(jobs[p][i], d, s)
    <2>1. PICK T \in Seq(Jobs), n \in Nat :
            /\ T = Tail(jobs[p]) /\ n = Len(T) /\ Head(jobs[p]) = jobs[p][1] /\ DOMAIN jobs[p] = 1 .. n + 1
            /\ \A i \in 1 .. n : T[i] = jobs[p][i + 1]
      <3>1. PICK t \in Seq(Jobs) : t = jobs[p] /\ t # <<>>
        BY <1>1 DEF TypeOK
      <3>2. /\ Tail(t) \in Seq(Jobs) /\ Len(Tail(t)) \in Nat /\ Head(t) = t[1] /\ DOMAIN t = 1 .. Len(Tail(t)) + 1
            /\ \A i \in 1 .. Len(Tail(t)) : Tail(t)[i] = t[i + 1]
        BY <3>1
      <3> QED BY <3>1, <3>2
    <2>2. /\ DOMAIN (todo \o T) = 1 .. Len(todo) + n /\ DOMAIN todo = 1 .. Len(todo) /\ Len(todo) \in Nat
          /\ \A i \in 1 .. Len(todo) : (todo \o T)[i] = todo[i]
          /\ \A i \in 1 .. n : (todo \o T)[Len(todo) + i] = T[i]
      BY <2>1, Joined
    <2>3. /\ \A i \in DOMAIN todo : i \in DOMAIN jobs'[p] /\ jobs'[p][i] = todo[i]
          /\ \A i \in 1 .. n : Len(todo) + i \in DOMAIN jobs'[p] /\ jobs'[p][Len(todo) + i] = jobs[p][i + 1]
      BY <2>1, <2>2
    <2>4. ASSUME NEW s \in Stages, ~Accounted(d, s)' PROVE \E i \in DOMAIN jobs'[p] : Ahead(jobs'[p][i], d, s)
      <3>1. PICK i \in 1 .. n + 1 : Ahead(jobs[p][i], d, s)
        BY <1>3, <2>1, <2>4, AccountedMore
      <3>2. CASE i = 1
        <4>1. Head(jobs[p]).arg = s
          BY <2>1, <3>1, <3>2 DEF Ahead, Job, Does
        <4>2. s \notin QuietStages
          BY <2>4 DEF Accounted
        <4> QED BY <2>3, <4>1, <4>2
      <3>3. CASE i # 1
        <4>1. PICK k \in 1 .. n : i = k + 1
          <5>1. i - 1 \in 1 .. n /\ i = i - 1 + 1
            BY <3>3
          <5> QED BY <5>1
        <4> QED BY <2>3, <3>1, <4>1
      <3> QED BY <3>2, <3>3
    <2>5. \A s \in Stages : Accounted(d, s)' \/ \E i \in DOMAIN jobs'[p] : Ahead(jobs'[p][i], d, s)
      BY <2>4
    <2> QED BY <1>1, <2>5 DEF Covered, Ahead
  <1> QED BY <1>1, <1>2, <1>3 DEF Covered

\* The stages of a run are all before it when it begins.
LEMMA CoveredFirst ==
  ASSUME NEW c \in Commands, NEW d \in Procs, c.name = "run", c.sidecar, NEW s \in Stages,
         NEW J, J = (IF c.sidecar THEN <<Job("write", d, None)>> ELSE <<>>) \o JobsOf(c, d)
  PROVE  \E i \in DOMAIN J : Ahead(J[i], d, s)
  <1>1. PICK P : P = PipelineJobs(d, c.sidecar) /\ P \in Seq(Jobs) /\ \E i \in DOMAIN P : Ahead(P[i], d, s)
    BY PipelineFresh DEF Fresh
  <1>2. PICK w \in Jobs : w = Job("write", d, None)
    BY JobMade
  <1>3. J = <<w>> \o P
    BY <1>1, <1>2 DEF JobsOf
  <1>4. /\ DOMAIN J = 1 .. Len(P) + 1 /\ Len(P) \in Nat /\ DOMAIN P = 1 .. Len(P)
        /\ \A i \in 1 .. Len(P) : J[i + 1] = P[i]
    <2>1. /\ DOMAIN (<<w>> \o P) = 1 .. Len(P) + 1 /\ Len(P) \in Nat /\ DOMAIN P = 1 .. Len(P)
          /\ \A i \in 1 .. Len(P) : (<<w>> \o P)[i + 1] = P[i]
      BY <1>1, Prefixed
    <2> QED BY <1>3, <2>1
  <1>5. \A i \in DOMAIN P : i + 1 \in DOMAIN J /\ J[i + 1] = P[i]
    BY <1>4
  <1> QED BY <1>1, <1>5

\* A run that is over, or about to fail.
LEMMA CoveredEnds ==
  ASSUME Core, Grows, NEW p \in Procs, NEW d \in Procs \ pruned', RefusedKept(d), Running(p, d), Covered(p), cmd' = cmd,
         Moves(p) \/ Written(p), Does(p) # "stage",
         Does(p) = "line" => Head(jobs[p]).arg \in ToSet(lines'[d])
  PROVE  Covered(p)'
  BY CoveredGoes DEF Moves, Written, Tailed

LEMMA CoveredFell ==
  ASSUME Core, NEW p \in Procs, NEW d \in Procs, Does(p) = "work", Fell(p, "work"), Running(p, d)', cmd' = cmd
  PROVE  Covered(p)'
  <1>1. Fails(p)
    <2>1. exit[p] = <<>> => ~Leaves(p)
      BY DEF Running, Leaves
    <2> QED BY <2>1 DEF Fell, InStage
  <1>2. exit[p] = HookOf(p)
    BY <1>1 DEF Fails, Core, Programs, Program
  <1> DEFINE f == Job("line", Target(p), <<Head(jobs[p]).arg, "failed">>)
             h == Job("status", Home(p), "completed")
  <1>3. jobs'[p] = <<f>> \o <<h>> /\ f.do = "line" /\ f.arg[2] = "failed"
    BY <1>1, <1>2 DEF Fails, HookOf, Job
  <1> HIDE DEF f, h
  <1>4. Head(jobs'[p]) = f
    <2>1. <<f>> \in Seq({f, h}) /\ <<h>> \in Seq({f, h})
      OBVIOUS
    <2>2. Head(<<f>> \o <<h>>) = f
      BY <2>1
    <2> QED BY <1>3, <2>2
  <1> QED BY <1>3, <1>4 DEF Covered, Does

\* A run whose hook stamps it is explained.
LEMMA HookExplained ==
  ASSUME Core, NEW p \in Procs, NEW d, Running(p, d), Covered(p), Does(p) = "status"
  PROVE  Explained(d)
  <1>1. /\ TypeOK /\ Program(p) /\ JobOK(p, 1) /\ Head(jobs[p]) = jobs[p][1] /\ DOMAIN jobs[p] = 1 .. Len(jobs[p])
    BY RunAtHome, AtHead DEF Core, Programs, Running
  <1>2. Len(jobs[p]) = 1
    BY <1>1 DEF JobOK, Does
  <1>3. ASSUME NEW s, NEW i \in DOMAIN jobs[p] PROVE ~Ahead(jobs[p][i], d, s)
    <2>1. i = 1
      BY <1>1, <1>2
    <2> QED BY <1>1, <2>1 DEF Does, Job, Ahead
  <1>4. Home(p) = d
    BY DEF Running
  <1> QED BY <1>3, <1>4 DEF Covered, Explained

LEMMA MarksStay ==
  ASSUME Core, Contention, NEW p \in Procs, Acts(p)
  PROVE  marked \subseteq marked'
  <1>1. CASE Idle \/ TakesUp(p)
    BY <1>1 DEF Idle, TakesUp
  <1>2. CASE OpenTmp(p) \/ FillTmp(p) \/ Delete(p)
    BY <1>2, OpenTmpDoes, FillTmpDoes, DeleteDoes
  <1>3. CASE Replaces(p)
    BY <1>3, ReplaceTmpDoes DEF Replaces
  <1> QED BY <1>1, <1>2, <1>3, StepKinds DEF Acts

\* The manifest of a directory that one process has changes by its rename.
LEMMA ManifestStays ==
  ASSUME Core, Contention, NEW p \in Procs, Acts(p), NEW d \in Procs \ pruned', Alone(d)
  PROVE  manifest'[d] = manifest[d] \/ (Replaces(p) /\ Target(p) = d)
  <1>1. CASE Idle \/ TakesUp(p)
    BY <1>1 DEF Idle, TakesUp
  <1>2. CASE OpenTmp(p)
    BY <1>2, OpenTmpDoes
  <1>3. CASE FillTmp(p)
    <2>1. /\ step[p] = "fill" /\ (manifest' = manifest \/ fd[p] = "manifest")
          /\ \A e \in Procs \ {Target(p)} : manifest'[e] = manifest[e]
      BY <1>3, FillTmpDoes
    <2>2. CASE Target(p) = d /\ fd[p] = "manifest"
      <3>1. TmpOf(p, d)
        BY <2>1, <2>2 DEF Alone, Has
      <3> QED BY <2>2, <3>1, RunRegistryAssumption DEF TmpOf
    <2> QED BY <2>1, <2>2
  <1>4. CASE Replaces(p)
    BY <1>4, ReplaceTmpDoes DEF Replaces
  <1>5. CASE Delete(p)
    BY <1>5, DeleteDoes
  <1> QED BY <1>1, <1>2, <1>3, <1>4, <1>5, StepKinds DEF Acts

\* A refused run has only its hook to go through, which no other process disturbs.
LEMMA RefusedStays ==
  ASSUME Core, Contention, Failures, Failures', NEW p \in Procs, Acts(p), NEW d \in Procs \ (contended' \cup pruned')
  PROVE  RefusedKept(d)
  <1> SUFFICES ASSUME NEW q \in Procs, Refused(q), Home(q) = d PROVE Refused(q)' /\ Home(q)' = d
    BY DEF RefusedKept
  <1>1. CASE q # p
    <2>1. cmd'[q] = cmd[q] /\ raised'[q] = raised[q]
      BY <1>1, OthersStay
    <2> QED BY <2>1 DEF Refused, Home
  <1>2. CASE q = p
    <2>1. cmd[p] # None /\ cmd[p].name = "run" /\ (jobs[p] = <<>> \/ jobs[p] = HookOf(p)) /\ raised[p] = "usage"
      BY <1>2 DEF Refused, Failures, Over
    <2>2. ProcStep(p) \/ Kill(p)
      BY <2>1 DEF Acts, Start
    <2>3. UNCHANGED cmd /\ jobs[p] # <<>>
      BY <2>1, <2>2, RunActs
    <2>4. Does(p) = "status"
      BY <2>1, <2>3 DEF HookOf, Does, Job
    <2>5. ~Fell(p, "manifest")
      <3>1. raised'[p] # "manifest"
        BY <1>2, <2>1, <2>3 DEF Failures, Home
      <3> QED BY <3>1 DEF Fell
    <2>6. raised'[p] = raised[p]
      BY <2>1, <2>2, <2>4, <2>5, RunActs
    <2> QED BY <1>2, <2>3, <2>6 DEF Refused, Home
  <1> QED BY <1>1, <1>2

LEMMA StampStep ==
  ASSUME Core, Contention, AloneKept, Failures, Failures', NEW p \in Procs, Acts(p), Stamps
  PROVE  Stamps'
  <1>1. Core' /\ Grows /\ TypeOK
    BY StepKinds, StepGrows DEF Core, Acts
  <1>2. ASSUME NEW d \in Procs \ (contended' \cup pruned')
        PROVE  /\ \A q \in Procs : Running(q, d)' => Covered(q)'
               /\ d \notin marked' =>
                    /\ Readable(manifest'[d]) /\ manifest'[d].status = "completed" => Explained(d)'
                    /\ \A q \in Procs : Has(q, d)' /\ held'[q].status = "completed" =>
                         Explained(d)' \/ (Does(q)' = "status" /\ cmd'[q].name # "run")
    <2>1. /\ d \in Procs \ contended' /\ d \notin contended /\ d \notin pruned /\ d \in Procs \ pruned'
          /\ Alone(d)
      BY <1>1, <1>2, Uncontended DEF Grows, AloneKept
    <2>2. /\ \A q \in Procs : Running(q, d) => Covered(q)
          /\ d \notin marked =>
               /\ Readable(manifest[d]) /\ manifest[d].status = "completed" => Explained(d)
               /\ \A q \in Procs : Has(q, d) /\ held[q].status = "completed" =>
                    Explained(d) \/ (Does(q) = "status" /\ cmd[q].name # "run")
      BY <2>1 DEF Stamps
    <2>10. RefusedKept(d)
      BY <1>2, RefusedStays
    <2>3. Explained(d) => Explained(d)'
      BY <1>1, <2>1, <2>10, ExplainedMore
    <2>4. ASSUME NEW q \in Procs, Running(q, d)', cmd'[q] = cmd[q], jobs'[q] = jobs[q] PROVE Covered(q)'
      <3>1. Running(q, d) /\ Home(q) = d
        BY <2>4 DEF Running, Home
      <3> QED BY <1>1, <2>1, <2>2, <2>4, <2>10, <3>1, CoveredMore
    <2>5. ASSUME Running(p, d)' PROVE Covered(p)'
      <3>1. ASSUME UNCHANGED cmd, jobs[p] # <<>>, Moves(p) \/ Written(p), Does(p) # "stage",
                   Does(p) = "line" => Head(jobs[p]).arg \in ToSet(lines'[d])
            PROVE  Covered(p)'
        <4>1. Running(p, d)
          BY <2>5, <3>1 DEF Running, Home
        <4> QED BY <1>1, <2>1, <2>2, <2>10, <3>1, <4>1, CoveredEnds
      <3>2. Running(p, d)' /\ UNCHANGED cmd /\ jobs[p] # <<>> => Target(p) = d
        <4>1. Running(p, d)' /\ UNCHANGED cmd /\ jobs[p] # <<>> => Running(p, d)
          BY DEF Running, Home
        <4> QED BY <4>1, RunAtHome
      <3>3. CASE WriteInitial(p) \/ OpenTmp(p) \/ FillTmp(p)
        BY <2>4, <2>5, <3>3, WriteDoes, OpenTmpDoes, FillTmpDoes DEF Keeps
      <3>4. CASE ReadForUpdate(p)
        <4>1. /\ UNCHANGED cmd /\ jobs[p] # <<>> /\ Does(p) \in Updates
              /\ manifest[Target(p)] = Torn \/ Moves(p) \/ UNCHANGED jobs
          BY <3>4, ReadDoes DEF Keeps
        <4>2. manifest[Target(p)] # Torn /\ Does(p) \notin {"line", "stage"}
          BY <2>1, <2>5, <3>2, <4>1 DEF Alone, Updates
        <4> QED BY <2>4, <2>5, <3>1, <4>1, <4>2
      <3>5. CASE Work(p)
        <4>1. UNCHANGED cmd /\ jobs[p] # <<>> /\ Does(p) = "work" /\ (Moves(p) \/ Fell(p, "work"))
          BY <3>5, WorkDoes
        <4> QED BY <2>1, <2>5, <3>1, <4>1, CoveredFell
      <3>12. CASE Check(p)
        <4>1. /\ UNCHANGED cmd /\ jobs[p] # <<>> /\ Does(p) = "check"
              /\ Moves(p) \/ Fell(p, "usage")
          BY <3>12, CheckDoes
        <4>2. CASE Fell(p, "usage")
          <5>1. Refused(p)' /\ Home(p)' = d
            BY <2>5, <4>1, <4>2 DEF Fell, Running, Refused
          <5> QED BY <5>1 DEF Covered, Explained
        <4> QED BY <3>1, <4>1, <4>2
      <3>13. CASE Dispatch(p)
        <4>1. UNCHANGED cmd /\ jobs[p] # <<>> /\ Does(p) = "stage"
          BY <3>13, DispatchDoes
        <4>2. Running(p, d) /\ Home(p) = d /\ cmd[p].sidecar
          BY <2>5, <4>1 DEF Running, Home
        <4>3. \E todo \in Seq(Jobs) :
                /\ jobs'[p] = todo \o Tail(jobs[p])
                /\ \/ Head(jobs[p]).arg \in QuietStages
                   \/ \E i \in DOMAIN todo : Ahead(todo[i], d, Head(jobs[p]).arg)
          BY <3>13, <4>2, DispatchDoes
        <4> QED BY <1>1, <2>1, <2>2, <2>10, <4>1, <4>2, <4>3, CoveredDispatch
      <3>6. CASE AppendLine(p)
        <4>1. /\ UNCHANGED cmd /\ jobs[p] # <<>> /\ Does(p) = "line" /\ Moves(p)
              /\ lines'[Target(p)] = Append(lines[Target(p)], Head(jobs[p]).arg)
          BY <3>6, AppendDoes
        <4>2. Target(p) = d
          BY <2>5, <3>2, <4>1
        <4>5. Head(jobs[p]).arg \in EventLines
          BY <1>1, <4>1, AtHead, JobFields DEF Does
        <4>3. PICK L \in Seq(EventLines), e \in EventLines :
                L = lines[d] /\ e = Head(jobs[p]).arg
          BY <1>1, <2>1, <4>5 DEF TypeOK
        <4>4. e \in ToSet(Append(L, e))
          <5>1. Len(L) + 1 \in DOMAIN Append(L, e) /\ Append(L, e)[Len(L) + 1] = e
            OBVIOUS
          <5> QED BY <5>1 DEF ToSet
        <4> QED BY <3>1, <4>1, <4>2, <4>3, <4>4
      <3>7. CASE ReadTags(p) \/ Select(p) \/ Delete(p)
        BY <2>5, <3>7, ReadTagsDoes, SelectDoes, DeleteDoes DEF Running
      <3>8. CASE Kill(p)
        BY <2>5, <3>8, KillDoes DEF Running
      <3>9. ASSUME NEW c \in CommandsOf[p], Start(p, c) PROVE Covered(p)'
        <4>1. /\ cmd'[p] = c /\ c \in Commands
              /\ jobs'[p] = (IF c.sidecar THEN <<Job("write", Home(p)', None)>> ELSE <<>>) \o JobsOf(c, Home(p)')
          BY <3>9, StartDoes
        <4>2. c.name = "run" /\ c.sidecar /\ Home(p)' = d
          BY <2>5, <4>1 DEF Running
        <4> QED BY <2>1, <4>1, <4>2, CoveredFirst DEF Covered
      <3>10. CASE ReplaceTmp(p) /\ ~Replaces(p)
        <4>1. UNCHANGED cmd /\ step[p] = "replace" /\ tmp[Target(p)] = None
          BY <3>10, ReplaceTmpDoes DEF Replaces
        <4>2. jobs[p] # <<>> /\ held[p] \in Manifests /\ fd[p] # None
          BY <4>1, InHand
        <4>3. Target(p) = d
          BY <2>5, <3>2, <4>1, <4>2
        <4>4. TmpOf(p, d)
          BY <2>1, <4>1, <4>3 DEF Alone, Has
        <4>5. fd[p] = "tmp" /\ held[p] # None
          BY <2>1, <4>2, <4>4, RunRegistryAssumption DEF TmpOf
        <4> QED BY <4>1, <4>3, <4>4, <4>5 DEF TmpOf
      <3>11. CASE Replaces(p)
        <4>1. UNCHANGED cmd /\ step[p] = "replace" /\ (Moves(p) \/ Written(p))
          BY <3>11, ReplaceTmpDoes DEF Replaces
        <4>2. jobs[p] # <<>> /\ Does(p) \in Updates \cup {"write"}
          BY <4>1, InHand
        <4>3. Does(p) \notin {"line", "stage"}
          BY <4>2 DEF Updates
        <4> QED BY <3>1, <4>1, <4>2, <4>3
      <3> QED BY <3>3, <3>4, <3>5, <3>6, <3>7, <3>8, <3>9, <3>10, <3>11, <3>12, <3>13
             DEF Acts, ProcStep
    <2>6. ASSUME NEW q \in Procs, q # p, Running(q, d)' PROVE Covered(q)'
      <3>1. cmd'[q] = cmd[q] /\ jobs'[q] = jobs[q]
        BY <2>6, OthersStay
      <3> QED BY <2>4, <2>6, <3>1
    <2>7. marked \subseteq marked'
      BY MarksStay
    <2>8. ASSUME d \notin marked', Readable(manifest'[d]), manifest'[d].status = "completed" PROVE Explained(d)'
      <3>1. CASE manifest'[d] = manifest[d]
        BY <2>2, <2>3, <2>7, <2>8, <3>1
      <3>2. CASE Replaces(p) /\ Target(p) = d
        <4>1. manifest'[d] = held[p]
          BY <2>1, <3>2, ReplacesAlone
        <4>2. /\ Has(p, d)
              /\ marked' = IF Does(p) = "status" /\ cmd[p].name # "run" THEN marked \cup {Target(p)} ELSE marked
          BY <3>2, ReplaceTmpDoes DEF Replaces, Has
        <4>3. ~(Does(p) = "status" /\ cmd[p].name # "run")
          BY <2>8, <3>2, <4>2
        <4> QED BY <2>2, <2>3, <2>7, <2>8, <4>1, <4>2, <4>3
      <3> QED BY <2>1, <3>1, <3>2, ManifestStays
    <2>9. ASSUME d \notin marked', NEW q \in Procs, Has(q, d)', held'[q].status = "completed"
          PROVE  Explained(d)' \/ (Does(q)' = "status" /\ cmd'[q].name # "run")
      <3>1. CASE Has(q, d) /\ held'[q] = held[q] /\ jobs'[q] = jobs[q] /\ cmd'[q] = cmd[q]
        BY <2>2, <2>3, <2>7, <2>9, <3>1 DEF Does
      <3>2. CASE q = p /\ TakesUp(p) /\ Target(p) = d
        <4>1. jobs' = jobs /\ cmd' = cmd /\ Does(p) # "write"
          BY <2>9, <3>2 DEF TakesUp
        <4>2. /\ Readable(manifest[d]) /\ Does(p) \in Updates /\ held'[p] = Updated(manifest[d], Head(jobs[p]))
              /\ manifest[d] \in Manifests /\ Head(jobs[p]) \in Jobs /\ jobs[p] # <<>>
          BY <1>1, <2>1, <3>2, <4>1, AtHead DEF TakesUp, TypeOK, Readable
        <4>3. CASE Does(p) # "status"
          <5>1. held'[p].status = manifest[d].status
            BY <4>2, <4>3 DEF Updated, Updates, Does, Manifests
          <5> QED BY <2>2, <2>3, <2>7, <2>9, <3>2, <4>2, <5>1
        <4>4. CASE Does(p) = "status" /\ cmd[p].name = "run"
          <5>1. JobOK(p, 1) /\ Head(jobs[p]) = jobs[p][1] /\ cmd[p] # None
            BY <1>1, <4>2, AtHead DEF Core, Programs, Program
          <5>2. Running(p, d)
            BY <3>2, <4>2, <4>4, <5>1 DEF JobOK, Does, Running, Target
          <5> QED BY <2>2, <2>3, <4>4, <5>2, HookExplained
        <4> QED BY <3>2, <4>1, <4>3, <4>4 DEF Does
      <3> QED BY <2>1, <2>9, <3>1, <3>2, FilesFrom
    <2> QED BY <2>5, <2>6, <2>8, <2>9
  <1> QED BY <1>2 DEF Stamps

-----------------------------------------------------------------------------
(* The invariant, and what follows from it *)

Inv == Core /\ AloneKept /\ KnownKept /\ Stories /\ Stamps /\ Tagged /\ Failures

LEMMA First == Init => Inv
  <1> SUFFICES ASSUME Init PROVE Inv
    OBVIOUS
  <1>1. Core
    BY CoreFirst
  <1>2. /\ \A d \in Procs : manifest[d] = None /\ tmp[d] = None /\ lines[d] = <<>>
        /\ \A p \in Procs : jobs[p] = <<>> /\ step[p] = "ready" /\ raised[p] = None
        /\ tagged = {} /\ None # Torn /\ None # "manifest" /\ ~Readable(None)
    BY RunRegistryAssumption DEF Init, Readable
  <1>3. \A d \in Procs : Ends(d) = {}
    BY <1>2 DEF Ends, ToSet
  <1>9. \A p \in Procs : ~Refused(p)
    BY DEF Init, Refused
  <1>4. \A p, d \in Procs : ~Holding(p, d) /\ ~Overwriting(p, d) /\ ~Has(p, d) /\ ~Running(p, d) /\ ~Passed(p, d)
    BY <1>2, <1>9 DEF Holding, Overwriting, Has, Running, Past, Passed
  <1>5. AloneKept
    BY <1>2, <1>4 DEF AloneKept, Alone
  <1>6. KnownKept
    BY <1>2, <1>4 DEF KnownKept, Known
  <1>7. Stories
    BY <1>2, <1>3, <1>4 DEF Stories, Story, Passed
  <1>8. Stamps /\ Tagged /\ Failures
    BY <1>2, <1>4, <1>9 DEF Stamps, Tagged, Failures
  <1> QED BY <1>1, <1>5, <1>6, <1>7, <1>8 DEF Inv

\* Nothing of the invariant depends on anything but the variables.
LEMMA Stutter == Inv /\ UNCHANGED vars => Inv'
  <1> SUFFICES ASSUME Inv, UNCHANGED vars PROVE Inv'
    OBVIOUS
  <1>1. /\ UNCHANGED <<manifest, tmp, lines, cmd, jobs, exit, step, held, fd, raised>>
        /\ UNCHANGED <<contended, pruned, marked, tagged>>
    BY DEF vars, files, where, history
  <1>2. Core'
    BY CoreStep DEF Inv
  <1>3. \A p, d \in Procs : /\ Holding(p, d)' <=> Holding(p, d)
                            /\ Overwriting(p, d)' <=> Overwriting(p, d)
                            /\ Has(p, d)' <=> Has(p, d)
                            /\ Running(p, d)' <=> Running(p, d)
                            /\ Past(p, d)' <=> Past(p, d)
                            /\ Passed(p, d)' <=> Passed(p, d)
                            /\ TmpOf(p, d)' <=> TmpOf(p, d)
    BY <1>1 DEF Holding, Overwriting, Has, Running, Past, Passed, Refused, TmpOf, Does, Target, Home
  <1>12. \A p : /\ Does(p)' = Does(p) /\ Home(p)' = Home(p)
                /\ (Refused(p)' <=> Refused(p)) /\ (Over(p)' <=> Over(p))
    BY <1>1 DEF Does, Home, HookOf, Refused, Over
  <1>4. \A d : Ends(d)' = Ends(d) /\ (Explained(d)' <=> Explained(d))
    BY <1>1, <1>12 DEF Ends, Explained, Accounted
  <1>5. \A p : Covered(p)' <=> Covered(p)
    BY <1>1, <1>4, <1>12 DEF Covered, Accounted, Ahead
  <1>6. AloneKept'
    BY <1>1, <1>3 DEF Inv, AloneKept, Alone
  <1>7. KnownKept'
    BY <1>1, <1>3, <1>4 DEF Inv, KnownKept, Known
  <1>8. Stories'
    BY <1>1, <1>3, <1>4, <1>5, <1>12 DEF Inv, Stories, Story
  <1>9. Stamps'
    BY <1>1, <1>3, <1>4, <1>5, <1>12 DEF Inv, Stamps
  <1>10. Tagged'
    <2>1. tagged \subseteq Procs
      BY DEF Inv, Core, TypeOK
    <2> QED BY <1>1, <1>3, <1>12, <2>1 DEF Inv, Tagged, Readable
  <1>11. Failures'
    BY <1>1, <1>5, <1>12 DEF Inv, Failures
  <1> QED BY <1>2, <1>6, <1>7, <1>8, <1>9, <1>10, <1>11 DEF Inv

LEMMA Inductive == Inv /\ [Next]_vars => Inv'
  <1>1. ASSUME Inv, Contention, NEW p \in Procs, Acts(p) PROVE Inv'
    <2>1. Core'
      BY <1>1, StepKinds DEF Inv, Acts
    <2>2. AloneKept'
      BY <1>1, AloneStep DEF Inv, Acts
    <2>3. KnownKept' /\ Stories'
      BY <1>1, KnownStep, StoryStep DEF Inv
    <2>5. Failures'
      BY <1>1, FailuresStep DEF Inv
    <2>4. Stamps' /\ Tagged' /\ Failures'
      BY <1>1, <2>5, StampStep, TaggedStep DEF Inv
    <2> QED BY <2>1, <2>2, <2>3, <2>4 DEF Inv
  <1>2. Next => Contention /\ \E p \in Procs : Acts(p)
    BY DEF Next, Acts
  <1> QED BY <1>1, <1>2, Stutter

LEMMA Invariance == Spec => []Inv
  BY First, Inductive, PTL DEF Spec

\* Every file, command, job and replacement has its type in every state.
THEOREM TypeCorrect == Spec => []TypeOK
  <1>1. Inv => TypeOK
    BY DEF Inv, Core
  <1> QED BY <1>1, Invariance, PTL

\* The manifest of a run and its stage events tell the same story: each stage
\* listed as completed has its end line, and, while no two processes had the
\* manifest at once, it is never torn and at most the last line is ahead of it
\* (StageEventEmitter.emit, runner._update_manifest_best_effort).
THEOREM ManifestFollowsEventsHolds == Spec => []ManifestFollowsEvents
  <1>1. Inv => ManifestFollowsEvents
    <2> SUFFICES ASSUME Inv, NEW d \in Procs \ pruned
                 PROVE  /\ Readable(manifest[d]) => manifest[d].completed \subseteq Ends(d)
                        /\ d \notin contended =>
                             /\ manifest[d] # Torn
                             /\ \A s \in Ends(d) : s \notin manifest[d].completed => Last(lines[d]) = <<s, "end">>
      BY DEF ManifestFollowsEvents
    <2>1. Readable(manifest[d]) => manifest[d].completed \subseteq Ends(d)
      BY DEF Inv, KnownKept, Known
    <2>2. ASSUME d \notin contended
          PROVE  /\ manifest[d] # Torn
                 /\ \A s \in Ends(d) : s \notin manifest[d].completed => Last(lines[d]) = <<s, "end">>
      BY <2>2 DEF Inv, AloneKept, Alone, Stories, Story
    <2> QED BY <2>1, <2>2
  <1> QED BY <1>1, Invariance, PTL

\* A pipeline run is ended by its manifest only where another process had the
\* manifest at the same time or removed the directory.
THEOREM RunsFailOfTheirOwnHolds == Spec => []RunsFailOfTheirOwn
  <1>1. Inv => RunsFailOfTheirOwn
    BY DEF Inv, Failures, RunsFailOfTheirOwn
  <1> QED BY <1>1, Invariance, PTL

\* A directory stamped completed by the atexit hook, which runs after a failure
\* too, shows by its events what became of the run: each stage that emits has
\* ended or was left out, one has failed, or there is no event at all because the
\* run was refused before its first stage (cli._init_observability, run_pipeline).
THEOREM StampExplainedHolds == Spec => []StampExplained
  <1>1. Inv => StampExplained
    <2> SUFFICES ASSUME Inv, NEW d \in Procs, d \notin contended \cup pruned \cup marked,
                        Readable(manifest[d]), manifest[d].status = "completed"
                 PROVE  \/ \A s \in ToSet(StageNames) : Accounted(d, s)
                        \/ \E s \in ToSet(StageNames) : <<s, "failed">> \in ToSet(lines[d])
                        \/ lines[d] = <<>> /\ \E p \in Procs : Refused(p) /\ Home(p) = d
      BY DEF StampExplained
    <2>1. Explained(d)
      BY DEF Inv, Stamps
    <2>2. (\E p \in Procs : Refused(p) /\ Home(p) = d) => lines[d] = <<>>
      BY DEF Inv, Stories, Story
    <2> QED BY <2>1, <2>2 DEF Explained, Stages
  <1> QED BY <1>1, Invariance, PTL

\* runs prune --keep-tagged takes no run whose tag was reported as added, unless
\* another process had the manifest while the tag was written.
THEOREM TaggedRunsKeptHolds == Spec => TaggedRunsKept
  <1> DEFINE Kept == \A p \in Procs : Select(p) /\ Head(jobs[p]).arg.keepTagged =>
                       \A j \in ToSet(jobs'[p]) : j.do = "delete" => j.dir \notin tagged \ contended
  <1>1. Inv /\ [Next]_vars => [Kept]_vars
    <2> SUFFICES ASSUME Inv, Next, NEW p \in Procs, Select(p), Head(jobs[p]).arg.keepTagged,
                        NEW j \in ToSet(jobs'[p]), j.do = "delete", j.dir \in tagged \ contended
                 PROVE  FALSE
      OBVIOUS
    <2>1. j.dir \in Selected(Head(jobs[p]).arg)
      BY SelectDoes DEF Inv, Next
    <2>2. manifest[j.dir].tags = {}
      BY <2>1 DEF Selected
    <2> QED BY <2>2 DEF Inv, Tagged
  <1> QED BY <1>1, Invariance, PTL DEF Spec, TaggedRunsKept
=============================================================================
