------------------------------- MODULE RunDir -------------------------------
(* The data directory of a run, from the MARCXML files to                  *)
(* canonical-skosified.ttl, under `bffi-pipeline run` invoked again and    *)
(* again: which outputs each stage takes as fresh by their modification    *)
(* times, what it rewrites, in which order, and what a process that dies   *)
(* in between leaves behind.                                               *)
(*                                                                         *)
(* The content of an input file is identified by the time it was written,  *)
(* so what an output was made from is a time, 0 for nothing.  Every write  *)
(* advances `clock': two writes never share a modification time.           *)
EXTENDS Naturals, Sequences, FiniteSets, SequencesExt

CONSTANTS Records,      \* sequence of bib ids, in file-name order
          Kinds,        \* what an input file may hold
          Plans,        \* [stages, force]: the invocations
          MaxEdits,     \* bound on input files written or removed
          MaxRuns,      \* bound on invocations
          MaxCrashes,   \* bound on processes killed
          EditsDuringRuns,  \* whether files change while a run is on
          Fragile,      \* the records whose conversion in m3 may raise
          None

ASSUME RunDirAssumption ==
  /\ Records \in Seq(ToSet(Records))
  /\ Kinds \subseteq {"good", "odd", "broken"}
  /\ \A p \in Plans : p.stages \in Seq(STRING) /\ p.force \subseteq STRING
  /\ None \notin [at : Nat, src : Nat, kind : Kinds, tok : SUBSET Nat]
  /\ None \notin [at : Nat, src : Nat, kind : Kinds]
  /\ None \notin [at : Nat, merge : Nat, src : [ToSet(Records) -> Nat], reconciled : BOOLEAN]
  /\ None \notin [at : Nat, src : [ToSet(Records) -> Nat], of : Nat]

VARIABLES clock, input,                                \* time, and the MARCXML directory
          rdf, helmetMap, errorsTsv,                   \* written by m2 (rdf by m2-post too)
          ttl, validationTsv, corpus,                  \* written by m3
          errored,                                     \* the records m3's last summary lists as errored
          index, idmap, candidates,                    \* written by m5
          decisions,                                   \* written by m6
          canonical, sidecar,                          \* written by m8 (canonical by m9 too)
          skosified,                                   \* written by skosify
          todo, force, step, left, held, rows, passed, done,   \* the running process
          edits, runs, crashes                         \* bounds

inputs  == <<clock, input, edits>>
m2Files == <<rdf, helmetMap, errorsTsv>>
m3Files == <<ttl, validationTsv, corpus, errored>>
m5Files == <<index, idmap, candidates>>
m8Files == <<canonical, sidecar>>
proc    == <<todo, force, step, left, held, rows, passed, done>>
counts  == <<runs, crashes>>
vars == <<inputs, m2Files, m3Files, m5Files, decisions, m8Files, skosified, proc, counts>>

Ids == ToSet(Records)
Now == clock + 1

\* out.exists() and out.st_mtime >= in.st_mtime
Fresh(in, out) == out # None /\ out.at >= in.at

Present(files) == {r \in Ids : files[r] # None}
Sources(files) == [r \in Ids |-> IF files[r] = None THEN 0 ELSE files[r].src]

\* "odd" converts and then fails the SHACL shapes of m3.
Convertible(k) == k # "broken"
Conforms(k)    == k = "good"

Init ==
  /\ clock = 0
  /\ input = [r \in Ids |-> None]
  /\ rdf = [r \in Ids |-> None] /\ helmetMap = [r \in Ids |-> 0] /\ errorsTsv = {}
  /\ ttl = [r \in Ids |-> None] /\ validationTsv = {} /\ corpus = None /\ errored = {}
  /\ index = None /\ idmap = None /\ candidates = None
  /\ decisions = None
  /\ canonical = None
  /\ sidecar = [map |-> 0, conflicts |-> 0, failures |-> 0, failuresTsv |-> 0]
  /\ skosified = None
  /\ todo = <<>> /\ force = {} /\ step = "idle" /\ left = {} /\ held = None
  /\ rows = {} /\ passed = {} /\ done = {}
  /\ edits = 0 /\ runs = 0 /\ crashes = 0

-----------------------------------------------------------------------------
(* The exporter and the operator: records arrive, change and are withdrawn, *)
(* and the outputs of a withdrawn record are cleared by hand, since no      *)
(* stage removes an output.                                                 *)

MayEdit == edits < MaxEdits /\ (EditsDuringRuns \/ step = "idle")

PutRecord(r, k) ==
  /\ MayEdit
  /\ edits' = edits + 1 /\ clock' = Now
  /\ input' = [input EXCEPT ![r] = [at |-> Now, kind |-> k]]
  /\ UNCHANGED <<m2Files, m3Files, m5Files, decisions, m8Files, skosified, proc, counts>>

RemoveRecord(r) ==
  /\ MayEdit /\ input[r] # None
  /\ edits' = edits + 1
  /\ input' = [input EXCEPT ![r] = None]
  /\ UNCHANGED <<clock, m2Files, m3Files, m5Files, decisions, m8Files, skosified, proc, counts>>

RemoveOutputs(r) ==
  /\ MayEdit /\ input[r] = None /\ rdf[r] # None
  /\ edits' = edits + 1
  /\ rdf' = [rdf EXCEPT ![r] = None] /\ ttl' = [ttl EXCEPT ![r] = None]
  /\ UNCHANGED <<clock, input, helmetMap, errorsTsv, validationTsv, corpus, errored, m5Files, decisions,
                 m8Files, skosified, proc, counts>>

-----------------------------------------------------------------------------
(* The runner.                                                             *)

\* run_pipeline: the stages of the plan, in order.
StartRun(p) ==
  /\ step = "idle" /\ runs < MaxRuns
  /\ runs' = runs + 1
  /\ todo' = p.stages /\ force' = p.force /\ step' = "next"
  /\ left' = {} /\ held' = None /\ rows' = {} /\ passed' = {} /\ done' = {}
  /\ UNCHANGED <<inputs, m2Files, m3Files, m5Files, decisions, m8Files, skosified, crashes>>

Running(stage, at) == todo # <<>> /\ Head(todo) = stage /\ step = at
Forced(stage) == stage \in force

\* The dispatcher returned: the outcome is "completed", the loop goes on.
Completed ==
  /\ todo' = Tail(todo) /\ step' = "next"
  /\ left' = {} /\ held' = None /\ rows' = {} /\ passed' = {}
  /\ done' = done \cup {Head(todo)} /\ UNCHANGED force

\* The dispatcher raised: the exception leaves _run_stages, later stages are
\* never dispatched and the process ends.
Aborted ==
  /\ todo' = <<>> /\ step' = "idle"
  /\ left' = {} /\ held' = None /\ rows' = {} /\ passed' = {} /\ UNCHANGED <<done, force>>

EndRun ==
  /\ step = "next" /\ todo = <<>>
  /\ step' = "idle"
  /\ UNCHANGED <<todo, force, left, held, rows, passed, done>>
  /\ UNCHANGED <<inputs, m2Files, m3Files, m5Files, decisions, m8Files, skosified, counts>>

\* SIGKILL, OOM, power: between two writes, each of which is a rename or one
\* appended line.
Crash ==
  /\ step # "idle" /\ crashes < MaxCrashes
  /\ crashes' = crashes + 1
  /\ todo' = <<>> /\ step' = "idle" /\ left' = {} /\ held' = None /\ rows' = {} /\ passed' = {}
  /\ UNCHANGED <<done, force>>
  /\ UNCHANGED <<inputs, m2Files, m3Files, m5Files, decisions, m8Files, skosified, runs>>

\* Enter a stage's loop over the files it lists.
Listing(stage, files) ==
  /\ Running(stage, "next")
  /\ step' = "loop"
  /\ left' = Present(files)
  /\ UNCHANGED <<todo, force, held, rows, passed, done>>

Enter(stage, files) ==
  /\ Listing(stage, files)
  /\ UNCHANGED <<inputs, m2Files, m3Files, m5Files, decisions, m8Files, skosified, counts>>

\* x is the next of those that are left, in the given order.
NextIn(order, x) ==
  x \in left /\ \E i \in DOMAIN order : order[i] = x /\ \A k \in 1 .. i - 1 : order[k] \notin left

Leave(r) == left' = left \ {r} /\ step' = "loop" /\ held' = None

-----------------------------------------------------------------------------
(* M2: MARCXML to BIBFRAME, one rdf per record.                            *)

\* The file is parsed and validated before its freshness is looked at: a
\* record that does not validate is a failure even where an older output is
\* there, and that output stays.
M2Record(r) ==
  /\ Running("m2", "loop") /\ NextIn(Records, r)
  /\ LET f == input[r]
     IN \/ /\ f = None \/ ~Convertible(f.kind)          \* unreadable, or gone since the glob
           /\ rows' = rows \cup {r} /\ Leave(r) /\ UNCHANGED passed
        \/ /\ f # None /\ Convertible(f.kind)
           /\ ~Forced("m2") /\ Fresh(f, rdf[r])
           /\ Leave(r) /\ passed' = passed \cup {r} /\ UNCHANGED rows
        \/ /\ f # None /\ Convertible(f.kind)
           /\ Forced("m2") \/ ~Fresh(f, rdf[r])
           /\ held' = f /\ step' = "write" /\ UNCHANGED <<left, rows, passed>>
  /\ UNCHANGED <<todo, force, done>>
  /\ UNCHANGED <<inputs, m2Files, m3Files, m5Files, decisions, m8Files, skosified, counts>>

\* _convert_one renames the rdf into place.
M2Write(r) ==
  /\ Running("m2", "write") /\ NextIn(Records, r)
  /\ clock' = Now
  /\ rdf' = [rdf EXCEPT ![r] =
               [at |-> Now, src |-> held.at, kind |-> held.kind, tok |-> {}]]
  /\ step' = "row"
  /\ UNCHANGED <<input, edits, helmetMap, errorsTsv, m3Files, m5Files, decisions, m8Files,
                 skosified, counts, todo, force, left, held, rows, passed, done>>

\* Slip: the first row of a bib id is kept.
M2MapRowFirst(r) ==
  /\ Running("m2", "row") /\ NextIn(Records, r)
  /\ helmetMap' = [helmetMap EXCEPT ![r] = IF @ = 0 THEN held.at ELSE @]
  /\ Leave(r) /\ passed' = passed \cup {r}
  /\ UNCHANGED <<todo, force, rows, done>>
  /\ UNCHANGED <<inputs, rdf, errorsTsv, m3Files, m5Files, decisions, m8Files, skosified, counts>>

\* The caller appends the record's row of helmet-map.jsonl; the last row of a
\* bib id is the one that counts (_dedupe_helmet_map).
M2MapRow(r) ==
  /\ Running("m2", "row") /\ NextIn(Records, r)
  /\ helmetMap' = [helmetMap EXCEPT ![r] = held.at]
  /\ Leave(r) /\ passed' = passed \cup {r}
  /\ UNCHANGED <<todo, force, rows, done>>
  /\ UNCHANGED <<inputs, rdf, errorsTsv, m3Files, m5Files, decisions, m8Files, skosified, counts>>

\* _errors.tsv is rewritten with this run's failures; marc_to_bf_command
\* fails only where every record failed.
M2End ==
  /\ Running("m2", "loop") /\ left = {}
  /\ errorsTsv' = rows
  /\ IF rows # {} /\ passed = {} THEN Aborted ELSE Completed
  /\ UNCHANGED <<inputs, rdf, helmetMap, m3Files, m5Files, decisions, m8Files, skosified, counts>>

-----------------------------------------------------------------------------
(* M2-post: MARC field tokens written into the rdf in place, every time.   *)

\* A MARCXML file that is gone or does not parse leaves the rdf as it is.  M2
\* asks for more than that it parses: a broken file may do so here.
M2PostRecord(r) ==
  /\ Running("m2-post", "loop") /\ NextIn(Records, r)
  /\ \/ /\ input[r] # None => ~Convertible(input[r].kind)
        /\ UNCHANGED <<clock, rdf>>
     \/ /\ input[r] # None
        /\ clock' = Now
        /\ rdf' = [rdf EXCEPT ![r] = [rdf[r] EXCEPT !.at = Now, !.tok = @ \cup {input[r].at}]]
  /\ Leave(r)
  /\ UNCHANGED <<todo, force, rows, passed, done>>
  /\ UNCHANGED <<input, edits, helmetMap, errorsTsv, m3Files, m5Files, decisions, m8Files,
                 skosified, counts>>

M2PostEnd ==
  /\ Running("m2-post", "loop") /\ left = {}
  /\ Completed
  /\ UNCHANGED <<inputs, m2Files, m3Files, m5Files, decisions, m8Files, skosified, counts>>

-----------------------------------------------------------------------------
(* M3: BIBFRAME to BFFI, one ttl per record, and the concatenated corpus.  *)

M3Begin ==
  /\ Listing("m3", rdf)
  /\ errored' = {}
  /\ UNCHANGED <<inputs, m2Files, ttl, validationTsv, corpus, m5Files, decisions, m8Files,
                 skosified, counts>>

\* _convert_one, its rename.
M3Write(r) ==
  /\ clock' = Now
  /\ ttl' = [ttl EXCEPT ![r] = [at |-> Now, src |-> rdf[r].src, kind |-> rdf[r].kind]]

\* A fresh ttl is skipped.  A graph that fails the shapes is written all the
\* same, and reported.  Where the conversion raises, the record is errored, the
\* loop goes on, and an older ttl stays, or there is none.
M3Record(r) ==
  /\ Running("m3", "loop") /\ NextIn(Records, r)
  /\ \/ /\ ~Forced("m3") /\ Fresh(rdf[r], ttl[r])
        /\ passed' = passed \cup {r}
        /\ UNCHANGED <<clock, ttl, rows, errored>>
     \/ /\ Forced("m3") \/ ~Fresh(rdf[r], ttl[r])
        /\ M3Write(r)
        /\ rows' = rows \cup (IF Conforms(rdf[r].kind) THEN {} ELSE {r})
        /\ passed' = passed \cup {r}
        /\ UNCHANGED errored
     \/ /\ Forced("m3") \/ ~Fresh(rdf[r], ttl[r])
        /\ r \in Fragile
        /\ errored' = errored \cup {r}
        /\ UNCHANGED <<clock, ttl, rows, passed>>
  /\ Leave(r)
  /\ UNCHANGED <<todo, force, done>>
  /\ UNCHANGED <<input, edits, m2Files, validationTsv, corpus, m5Files, decisions, m8Files,
                 skosified, counts>>

\* Slip: the concatenated corpus is kept wherever there is one.
CorpusFreshOnce == corpus # None

\* _write_bffi_corpus: left alone while no ttl is newer; none, no file.
CorpusFresh == corpus # None /\ \A r \in Present(ttl) : ttl[r].at <= corpus.at

M3Corpus ==
  /\ Running("m3", "loop") /\ left = {}
  /\ step' = "report"
  /\ IF Present(ttl) = {} \/ CorpusFresh
     THEN UNCHANGED <<clock, corpus>>
     ELSE clock' = Now /\ corpus' = [at |-> Now, src |-> Sources(ttl)]
  /\ UNCHANGED <<input, edits, m2Files, ttl, validationTsv, errored, m5Files, decisions, m8Files,
                 skosified, counts, todo, force, left, held, rows, passed, done>>

EveryRecordErrored == errored # {} /\ passed = {}

\* _validation.tsv is rewritten with the failures of this run;
\* bibframe_to_bffi_command fails only where every record errored.
M3End ==
  /\ Running("m3", "report")
  /\ validationTsv' = rows
  /\ IF EveryRecordErrored THEN Aborted ELSE Completed
  /\ UNCHANGED <<inputs, m2Files, ttl, corpus, errored, m5Files, decisions, m8Files, skosified, counts>>

-----------------------------------------------------------------------------
(* M5: the index, its idmap and the candidate pairs, in a child process.   *)

\* Slip: only the index file's time is compared.
IndexFreshAlone ==
  /\ index # None /\ idmap # None
  /\ \A r \in Present(ttl) : ttl[r].at <= index.at
  /\ \A r \in Present(rdf) : rdf[r].at <= index.at

\* _is_index_fresh: both files there, neither older than an input.  What was
\* removed is no input, and makes nothing stale.
IndexFresh ==
  /\ index # None /\ idmap # None
  /\ \A r \in Present(ttl) : ttl[r].at <= index.at /\ ttl[r].at <= idmap.at
  /\ \A r \in Present(rdf) : rdf[r].at <= index.at /\ rdf[r].at <= idmap.at

M5Begin ==
  /\ Running("m5", "next")
  /\ \/ /\ ~Forced("m5") /\ IndexFresh
        /\ step' = "query" /\ UNCHANGED <<todo, force, left, held, rows, passed, done>>
     \/ /\ Forced("m5") \/ ~IndexFresh
        /\ Present(ttl) = {} /\ Aborted               \* no bffi:Work found: ValueError
     \/ /\ Forced("m5") \/ ~IndexFresh
        /\ Present(ttl) # {}
        /\ held' = Sources(ttl) /\ step' = "index" /\ UNCHANGED <<todo, force, left, rows, passed, done>>
  /\ UNCHANGED <<inputs, m2Files, m3Files, m5Files, decisions, m8Files, skosified, counts>>

\* Both are written beside their places; then one rename after the other.
M5Index ==
  /\ Running("m5", "index")
  /\ clock' = Now /\ index' = [at |-> Now, src |-> held]
  /\ step' = "idmap"
  /\ UNCHANGED <<input, edits, m2Files, m3Files, idmap, candidates, decisions, m8Files,
                 skosified, counts, todo, force, left, held, rows, passed, done>>

M5Idmap ==
  /\ Running("m5", "idmap")
  /\ clock' = Now /\ idmap' = [at |-> Now, src |-> held]
  /\ step' = "query"
  /\ UNCHANGED <<input, edits, m2Files, m3Files, index, candidates, decisions, m8Files,
                 skosified, counts, todo, force, left, held, rows, passed, done>>

RowsOf(ix) == SelectSeq(Records, LAMBDA r : ix.src[r] # 0)

\* Row i of the idmap is compared by row i of the index, whatever Work that
\* vector was made from; each pair of rows is written once, the lower first.
RowPairs(n) ==
  SetToSortSeq({p \in (1 .. n) \X (1 .. n) : p[1] < p[2]},
               LAMBDA p, q : p[1] < q[1] \/ (p[1] = q[1] /\ p[2] < q[2]))
CandidatePairs(ix, im) ==
  LET name == RowsOf(im)
      from == RowsOf(ix)
      pairs == RowPairs(Len(name))
  IN [k \in DOMAIN pairs |->
        [work |-> <<name[pairs[k][1]], name[pairs[k][2]]>>,
         src  |-> <<ix.src[from[pairs[k][1]]], ix.src[from[pairs[k][2]]]>>]]

\* reconstruct_n raises on an index with fewer vectors than the idmap has rows.
M5Query ==
  /\ Running("m5", "query")
  /\ IF Len(RowsOf(idmap)) > Len(RowsOf(index))
     THEN Aborted /\ UNCHANGED candidates
     ELSE Completed /\ candidates' = CandidatePairs(index, idmap)
  /\ UNCHANGED <<inputs, m2Files, m3Files, index, idmap, decisions, m8Files, skosified, counts>>

-----------------------------------------------------------------------------
(* M6 in one step (module JudgeBatch has its crashes): a complete decision *)
(* file over as many candidates is resumed past its end, any other is      *)
(* written anew.                                                           *)

M6Judge ==
  /\ Running("m6", "next")
  /\ \/ candidates = None /\ Aborted /\ UNCHANGED decisions
     \/ /\ candidates # None /\ Completed
        /\ IF ~Forced("m6") /\ decisions # None /\ candidates # <<>>
              /\ Len(decisions) = Len(candidates)
           THEN UNCHANGED decisions
           ELSE decisions' = candidates
  /\ UNCHANGED <<inputs, m2Files, m3Files, m5Files, m8Files, skosified, counts>>

-----------------------------------------------------------------------------
(* M8: the merged graph and its four companions, replaced one by one, never *)
(* skipped.                                                                *)

\* Slip: the map is replaced last.
CompanionsMapLast == <<"conflicts", "failures", "failuresTsv", "map">>

Companions == <<"map", "conflicts", "failures", "failuresTsv">>

\* The concatenated corpus while it is at least as new as every ttl, else
\* the ttl files themselves.
M8Load ==
  /\ Running("m8", "next")
  /\ \/ decisions = None /\ Aborted
     \/ /\ decisions # None
        /\ held' = [src |-> IF CorpusFresh THEN corpus.src ELSE Sources(ttl), merge |-> Now]
        /\ step' = "canonical" /\ UNCHANGED <<todo, force, left, rows, passed, done>>
  /\ UNCHANGED <<inputs, m2Files, m3Files, m5Files, decisions, m8Files, skosified, counts>>

M8Canonical ==
  /\ Running("m8", "canonical")
  /\ clock' = Now
  /\ canonical' = [at |-> Now, merge |-> held.merge, src |-> held.src, reconciled |-> FALSE]
  /\ step' = "companions" /\ left' = ToSet(Companions)
  /\ UNCHANGED <<input, edits, m2Files, m3Files, m5Files, decisions, sidecar, skosified, counts,
                 todo, force, held, rows, passed, done>>

M8Companion(f) ==
  /\ Running("m8", "companions") /\ NextIn(Companions, f)
  /\ sidecar' = [sidecar EXCEPT ![f] = held.merge]
  /\ IF left # {f}
     THEN left' = left \ {f} /\ UNCHANGED <<todo, force, step, held, rows, passed, done>>
     ELSE Completed
  /\ UNCHANGED <<inputs, m2Files, m3Files, m5Files, decisions, canonical, skosified, counts>>

-----------------------------------------------------------------------------
(* M9 rewrites canonical.ttl in place (module Reconcile has its inside);   *)
(* skosify reads it, the overlay and the vendored vocabulary dumps.        *)

M9Reconcile ==
  /\ Running("m9", "next")
  /\ \/ canonical = None /\ Aborted /\ UNCHANGED <<clock, canonical>>
     \/ /\ canonical # None /\ Completed
        /\ clock' = Now
        /\ canonical' = [canonical EXCEPT !.at = Now, !.reconciled = TRUE]
  /\ UNCHANGED <<input, edits, m2Files, m3Files, m5Files, decisions, sidecar, skosified, counts>>

Skosify ==
  /\ Running("skosify", "next")
  /\ \/ canonical = None /\ Aborted /\ UNCHANGED <<clock, skosified>>
     \/ /\ canonical # None /\ Completed
        /\ IF ~Forced("skosify") /\ Fresh(canonical, skosified)
           THEN UNCHANGED <<clock, skosified>>
           ELSE /\ clock' = Now
                /\ skosified' = [at |-> Now, src |-> canonical.src, of |-> canonical.at]
  /\ UNCHANGED <<input, edits, m2Files, m3Files, m5Files, decisions, m8Files, counts>>

-----------------------------------------------------------------------------
M2Step     == Enter("m2", input) \/ (\E r \in Ids : M2Record(r) \/ M2Write(r) \/ M2MapRow(r)) \/ M2End
M2PostStep == Enter("m2-post", rdf) \/ (\E r \in Ids : M2PostRecord(r)) \/ M2PostEnd
M3Step     == M3Begin \/ (\E r \in Ids : M3Record(r)) \/ M3Corpus \/ M3End
M5Step     == M5Begin \/ M5Index \/ M5Idmap \/ M5Query
M8Step     == M8Load \/ M8Canonical \/ \E f \in ToSet(Companions) : M8Companion(f)

RunStep == M2Step \/ M2PostStep \/ M3Step \/ M5Step \/ M6Judge \/ M8Step
             \/ M9Reconcile \/ Skosify \/ EndRun

Next ==
  \/ \E r \in Ids, k \in Kinds : PutRecord(r, k)
  \/ \E r \in Ids : RemoveRecord(r) \/ RemoveOutputs(r)
  \/ \E p \in Plans : StartRun(p)
  \/ RunStep
  \/ Crash

Spec == Init /\ [][Next]_vars

-----------------------------------------------------------------------------
(* Properties.                                                             *)

Stages == {"m2", "m2-post", "m3", "m5", "m6", "m8", "m9", "skosify"}

\* CANONICAL_STAGES as far as skosify.  A plan keeps this order unless its
\* --stages lists them in another.
CanonicalStages == <<"m2", "m2-post", "m3", "m5", "m6", "m8", "m9", "skosify">>
Before(x, y) ==
  \E a, b \in DOMAIN CanonicalStages : a < b /\ x = CanonicalStages[a] /\ y = CanonicalStages[b]
InOrder(stages) == \A i, j \in DOMAIN stages : i < j => Before(stages[i], stages[j])

OrNone(S) == S \cup {None}
Versions == [Ids -> Nat]                      \* what a file of all records was made from

\* What the running process holds: the input it converts, the rows of the new
\* index, the graph it merges.
HeldOK ==
  /\ step \in {"write", "row"} => held \in [at : Nat, kind : Kinds]
  /\ step \in {"index", "idmap"} => held \in Versions
  /\ step \in {"canonical", "companions"} => held \in [src : Versions, merge : Nat]

\* Types of the files that carry times, and of the running process.
TypeOK ==
  /\ clock \in Nat /\ edits \in Nat /\ runs \in Nat /\ crashes \in Nat
  /\ input \in [Ids -> OrNone([at : Nat, kind : Kinds])]
  /\ rdf \in [Ids -> OrNone([at : Nat, src : Nat, kind : Kinds, tok : SUBSET Nat])]
  /\ ttl \in [Ids -> OrNone([at : Nat, src : Nat, kind : Kinds])]
  /\ helmetMap \in [Ids -> Nat]
  /\ {corpus, index, idmap} \subseteq OrNone([at : Nat, src : Versions])
  /\ canonical \in OrNone([at : Nat, merge : Nat, src : Versions, reconciled : BOOLEAN])
  /\ sidecar \in [map : Nat, conflicts : Nat, failures : Nat, failuresTsv : Nat]
  /\ skosified \in OrNone([at : Nat, src : Versions, of : Nat])
  /\ errorsTsv \cup validationTsv \cup errored \cup rows \cup passed \subseteq Ids
  /\ todo \in Seq(STRING) /\ done \subseteq STRING
  /\ step = "companions" => left \subseteq ToSet(Companions)
  /\ step \in {"loop", "write", "row"} => left \subseteq Ids
  /\ HeldOK

\* M2-post on its own has given an rdf the tokens of a newer MARCXML and a new
\* time: M2 takes it as converted from that.
Redated(r) == rdf[r] # None /\ rdf[r].src # input[r].at /\ input[r].at \in rdf[r].tok

\* What a stage would skip as fresh was made from what it would read: the
\* modification times never vouch for an output of older content, whatever
\* was changed, killed, resumed or rebuilt before, M2-post's way excepted.
FreshIsCurrent ==
  /\ \A r \in Present(input) :
       Fresh(input[r], rdf[r]) /\ ~Redated(r) => rdf[r].src = input[r].at
  /\ \A r \in Present(rdf) : Fresh(rdf[r], ttl[r]) => ttl[r].src = rdf[r].src
  /\ \A r \in Present(ttl) :
       /\ CorpusFresh => corpus.src[r] = ttl[r].src
       /\ IndexFresh => index.src[r] = ttl[r].src /\ idmap.src[r] = ttl[r].src
  /\ canonical # None /\ Fresh(canonical, skosified) => skosified.src = canonical.src

RunEndsWith(stages) == step = "next" /\ todo = <<>> /\ stages \subseteq done

\* A run of every stage that reached its end leaves every valid record in
\* canonical.ttl and in the skosified graph as its input file has it now,
\* and the SHACL work list naming every such record that fails the shapes.
\* What M3 errored on is there as an older ttl has it, or without a ttl, as an
\* older corpus has it or not at all, and nothing but M3's summary says so.
FullRunReflectsInput ==
  RunEndsWith(Stages) =>
    \A r \in Present(input) : Convertible(input[r].kind) /\ ~Redated(r) =>
      /\ skosified.src[r] = canonical.src[r]
      /\ ttl[r] # None => canonical.src[r] = ttl[r].src
      /\ r \notin errored =>
           /\ canonical.src[r] = input[r].at
           /\ ~Conforms(input[r].kind) => r \in validationTsv

\* A record whose rdf is in place and whose row of helmet-map.jsonl is not of
\* that conversion was cut off between the two, or the process was.
MapRowsLostOnlyByCrash ==
  \A r \in Present(rdf) :
    helmetMap[r] # rdf[r].src => crashes > 0 \/ (step = "row" /\ NextIn(Records, r))

\* The files of a merge are replaced in one order: however a merge was cut
\* short, none is of a later merge than the one replaced before it.
CompanionsInOrder ==
  LET merges == <<IF canonical = None THEN 0 ELSE canonical.merge, sidecar.map,
                  sidecar.conflicts, sidecar.failures, sidecar.failuresTsv>>
  IN /\ \A i \in 1 .. 4 : merges[i] >= merges[i + 1]
     /\ RunEndsWith({"m8"}) => merges[1] = merges[5]
=============================================================================
