---------------------------- MODULE RunDirProofs ----------------------------
(* Proofs about RunDir, for every set of records, every plan of stages and *)
(* any number of edits, invocations and crashes, where the input directory *)
(* does not change while a run is on.                                      *)
EXTENDS RunDir, TLAPS

\* The files a loop has listed are still there.
Listed ==
  todo # <<>> /\ Head(todo) \in {"m2-post", "m3"} /\ step = "loop" => \A r \in left : rdf[r] # None

LEMMA TypeInit == Init => TypeOK /\ Listed
  BY DEF Init, TypeOK, Listed, HeldOK, Versions, OrNone

LEMMA RunnerTypes ==
  ASSUME TypeOK, Listed,
         (\E p \in Plans : StartRun(p)) \/ EndRun \/ Crash
  PROVE  TypeOK' /\ Listed'
  <1>1. ASSUME NEW p \in Plans, StartRun(p) PROVE TypeOK' /\ Listed'
    BY <1>1, RunDirAssumption DEF StartRun, inputs, m2Files, m3Files, m5Files, m8Files, TypeOK, Listed, HeldOK, Versions, OrNone
  <1>2. CASE EndRun
    BY <1>2 DEF EndRun, inputs, m2Files, m3Files, m5Files, m8Files, counts, TypeOK, Listed, HeldOK, Versions, OrNone
  <1>3. CASE Crash
    BY <1>3 DEF Crash, inputs, m2Files, m3Files, m5Files, m8Files, TypeOK, Listed, HeldOK, Versions, OrNone
  <1> QED BY <1>1, <1>2, <1>3

LEMMA EndTypes ==
  ASSUME TypeOK, todo # <<>>, Completed \/ Aborted
  PROVE  /\ todo' \in Seq(STRING) /\ done' \subseteq STRING
         /\ step' \in {"next", "idle"} /\ left' = {} /\ rows' = {} /\ passed' = {}
  <1>1. Head(todo) \in STRING /\ Tail(todo) \in Seq(STRING)
    BY DEF TypeOK
  <1>2. CASE Completed
    BY <1>1, <1>2 DEF Completed, TypeOK
  <1>3. CASE Aborted
    BY <1>3 DEF Aborted, TypeOK
  <1> QED BY <1>2, <1>3

LEMMA M2Types ==
  ASSUME TypeOK, Listed, M2Step
  PROVE  TypeOK' /\ Listed'
  <1>1. CASE Enter("m2", input)
    BY <1>1 DEF Enter, Listing, Running, Present, inputs, m2Files, m3Files, m5Files, m8Files, counts, TypeOK, Listed, HeldOK, Versions, OrNone
  <1>2. ASSUME NEW r \in Ids, M2Record(r) PROVE TypeOK' /\ Listed'
    <2>1. /\ todo # <<>> /\ Head(todo) = "m2" /\ UNCHANGED <<todo, force, done, decisions, skosified>>
          /\ UNCHANGED <<inputs, m2Files, m3Files, m5Files, m8Files, counts>>
      BY <1>2 DEF M2Record, Running
    <2>2. Listed'
      BY ONLY <2>1 DEF Listed
    <2>3. left' \subseteq Ids /\ rows' \subseteq Ids /\ passed' \subseteq Ids /\ step' \in {"loop", "write"}
      BY <1>2 DEF M2Record, Leave, Running, TypeOK
    <2>4. step' = "write" => held' \in [at : Nat, kind : Kinds]
      <3>1. input[r] # None => input[r] \in [at : Nat, kind : Kinds]
        BY DEF TypeOK, OrNone
      <3> QED BY <1>2, <3>1 DEF M2Record, Leave
    <2>5. HeldOK'
      BY ONLY <2>3, <2>4 DEF HeldOK
    <2> QED BY ONLY TypeOK, <2>1, <2>2, <2>3, <2>5 DEF TypeOK, inputs, m2Files, m3Files, m5Files, m8Files, counts, Ids, OrNone, Versions
  <1>3. ASSUME NEW r \in Ids, M2Write(r) PROVE TypeOK' /\ Listed'
    <2>1. /\ held \in [at : Nat, kind : Kinds] /\ left' \subseteq Ids /\ Now \in Nat
          /\ step' = "row" /\ held' = held /\ left' = left
      BY <1>3 DEF M2Write, Running, Now, TypeOK, HeldOK
    <2>2. [at |-> Now, src |-> held.at, kind |-> held.kind, tok |-> {}]
            \in [at : Nat, src : Nat, kind : Kinds, tok : SUBSET Nat]
      BY <2>1
    <2>3. rdf' \in [Ids -> OrNone([at : Nat, src : Nat, kind : Kinds, tok : SUBSET Nat])]
      BY <1>3, <2>2 DEF M2Write, TypeOK, OrNone
    <2>4. clock' \in Nat
      BY <1>3, <2>1 DEF M2Write
    <2> QED BY <1>3, <2>1, <2>3, <2>4 DEF M2Write, m3Files, m5Files, m8Files, counts, TypeOK, Listed, HeldOK, Versions
  <1>4. ASSUME NEW r \in Ids, M2MapRow(r) PROVE TypeOK' /\ Listed'
    BY <1>4 DEF M2MapRow, Leave, NextIn, Running, inputs, m2Files, m3Files, m5Files, m8Files, counts, TypeOK, Listed, HeldOK, Versions, OrNone
  <1>5. CASE M2End
    <2>1. todo # <<>> /\ (Completed \/ Aborted) /\ errorsTsv' \subseteq Ids
      BY <1>5 DEF M2End, Running, TypeOK
    <2> QED BY <1>5, <2>1, EndTypes DEF M2End, inputs, m3Files, m5Files, m8Files, counts, TypeOK, Listed, HeldOK, Versions
  <1> QED BY <1>1, <1>2, <1>3, <1>4, <1>5 DEF M2Step

LEMMA M2PostTypes ==
  ASSUME TypeOK, Listed, M2PostStep
  PROVE  TypeOK' /\ Listed'
  <1>1. CASE Enter("m2-post", rdf)
    BY <1>1 DEF Enter, Listing, Running, Present, inputs, m2Files, m3Files, m5Files, m8Files, counts, TypeOK, Listed, HeldOK, Versions, OrNone
  <1>2. ASSUME NEW r \in Ids, M2PostRecord(r) PROVE TypeOK' /\ Listed'
    <2>1. rdf[r] \in [at : Nat, src : Nat, kind : Kinds, tok : SUBSET Nat]
      BY <1>2 DEF M2PostRecord, Running, NextIn, TypeOK, Listed, OrNone
    <2>2. CASE UNCHANGED <<clock, rdf>>
      BY <1>2, <2>2 DEF M2PostRecord, Leave, Running, NextIn, inputs, m2Files, m3Files, m5Files, m8Files, counts, TypeOK, Listed, HeldOK, Versions, OrNone
    <2>3. CASE /\ input[r] # None /\ clock' = Now
               /\ rdf' = [rdf EXCEPT ![r] = [rdf[r] EXCEPT !.at = Now, !.tok = @ \cup {input[r].at}]]
      <3>1. input[r].at \in Nat /\ Now \in Nat
        BY <2>3 DEF TypeOK, OrNone, Now
      <3>2. rdf' = [rdf EXCEPT ![r] = [rdf[r] EXCEPT !.at = Now, !.tok = @ \cup {input[r].at}]]
        BY <2>3
      <3>3. rdf' \in [Ids -> OrNone([at : Nat, src : Nat, kind : Kinds, tok : SUBSET Nat])]
        <4> DEFINE file == [rdf[r] EXCEPT !.at = Now, !.tok = @ \cup {input[r].at}]
        <4>1. file \in [at : Nat, src : Nat, kind : Kinds, tok : SUBSET Nat]
          BY <2>1, <3>1
        <4>2. rdf' = [rdf EXCEPT ![r] = file]
          BY <3>2
        <4> HIDE DEF file
        <4>3. rdf \in [Ids -> OrNone([at : Nat, src : Nat, kind : Kinds, tok : SUBSET Nat])]
          BY DEF TypeOK
        <4> QED BY <4>1, <4>2, <4>3 DEF OrNone
      <3>4. \A q \in left' : rdf'[q] # None
        BY <1>2, <3>2 DEF M2PostRecord, Leave, Running, Listed, TypeOK
      <3> QED BY <1>2, <2>3, <3>1, <3>3, <3>4 DEF M2PostRecord, Leave, Running, NextIn, m3Files, m5Files, m8Files, counts, TypeOK, Listed, HeldOK, Versions
    <2> QED BY <1>2, <2>2, <2>3 DEF M2PostRecord
  <1>3. CASE M2PostEnd
    <2>1. todo # <<>> /\ (Completed \/ Aborted)
      BY <1>3 DEF M2PostEnd, Running
    <2> QED BY <1>3, <2>1, EndTypes DEF M2PostEnd, inputs, m2Files, m3Files, m5Files, m8Files, counts, TypeOK, Listed, HeldOK, Versions
  <1> QED BY <1>1, <1>2, <1>3 DEF M2PostStep

LEMMA SourcesTyped ==
  ASSUME TypeOK
  PROVE  Sources(ttl) \in Versions
  BY DEF Sources, TypeOK, Versions, OrNone

LEMMA M3Types ==
  ASSUME TypeOK, Listed, M3Step
  PROVE  TypeOK' /\ Listed'
  <1>1. CASE M3Begin
    BY <1>1 DEF M3Begin, Listing, Running, Present, inputs, m2Files, m3Files, m5Files, m8Files, counts, TypeOK, Listed, HeldOK, Versions, OrNone
  <1>2. ASSUME NEW r \in Ids, M3Record(r) PROVE TypeOK' /\ Listed'
    <2>1. /\ rdf[r] \in [at : Nat, src : Nat, kind : Kinds, tok : SUBSET Nat]
          /\ Now \in Nat
      BY <1>2 DEF M3Record, M3Write, Running, NextIn, TypeOK, Listed, OrNone, Now
    <2>2. /\ ttl' \in [Ids -> OrNone([at : Nat, src : Nat, kind : Kinds])]
          /\ clock' \in Nat /\ rows' \cup passed' \cup errored' \subseteq Ids
      <3>1. ttl \in [Ids -> OrNone([at : Nat, src : Nat, kind : Kinds])] /\ clock \in Nat
            /\ rows \cup passed \cup errored \subseteq Ids
        BY DEF TypeOK
      <3>2. [at |-> Now, src |-> rdf[r].src, kind |-> rdf[r].kind] \in [at : Nat, src : Nat, kind : Kinds]
        BY <2>1
      <3> QED BY <1>2, <2>1, <3>1, <3>2 DEF M3Record, M3Write, OrNone
    <2> QED BY <1>2, <2>2 DEF M3Record, M3Write, Leave, Running, m2Files, m5Files, m8Files, counts, TypeOK, Listed, HeldOK, Versions
  <1>3. CASE M3Corpus
    <2>1. /\ corpus' \in OrNone([at : Nat, src : Versions]) /\ clock' \in Nat
      BY <1>3, SourcesTyped DEF M3Corpus, TypeOK, Now, OrNone
    <2> QED BY <1>3, <2>1 DEF M3Corpus, Running, m2Files, m5Files, m8Files, counts, TypeOK, Listed, HeldOK, Versions
  <1>4. CASE M3End
    <2>1. todo # <<>> /\ (Completed \/ Aborted) /\ validationTsv' \subseteq Ids
      BY <1>4 DEF M3End, Running, TypeOK
    <2> QED BY <1>4, <2>1, EndTypes DEF M3End, inputs, m2Files, m5Files, m8Files, counts, TypeOK, Listed, HeldOK, Versions
  <1> QED BY <1>1, <1>2, <1>3, <1>4 DEF M3Step

LEMMA M5Types ==
  ASSUME TypeOK, Listed, M5Step
  PROVE  TypeOK' /\ Listed'
  <1>1. CASE M5Begin
    <2>1. CASE Aborted
      BY <1>1, <2>1, EndTypes DEF M5Begin, Running, inputs, m2Files, m3Files, m5Files, m8Files, counts, TypeOK, Listed, HeldOK, Versions
    <2>2. CASE ~Aborted
      BY <1>1, <2>2, SourcesTyped DEF M5Begin, Running, inputs, m2Files, m3Files, m5Files, m8Files, counts, TypeOK, Listed, HeldOK, Versions
    <2> QED BY <2>1, <2>2
  <1>2. CASE M5Index
    BY <1>2 DEF M5Index, Running, Now, m2Files, m3Files, m8Files, counts, TypeOK, Listed, HeldOK, Versions, OrNone
  <1>3. CASE M5Idmap
    BY <1>3 DEF M5Idmap, Running, Now, m2Files, m3Files, m8Files, counts, TypeOK, Listed, HeldOK, Versions, OrNone
  <1>4. CASE M5Query
    <2>1. todo # <<>> /\ (Completed \/ Aborted)
      BY <1>4 DEF M5Query, Running
    <2> QED BY <1>4, <2>1, EndTypes DEF M5Query, inputs, m2Files, m3Files, m8Files, counts, TypeOK, Listed, HeldOK, Versions
  <1> QED BY <1>1, <1>2, <1>3, <1>4 DEF M5Step

LEMMA M6Types ==
  ASSUME TypeOK, Listed, M6Judge
  PROVE  TypeOK' /\ Listed'
  <1>1. todo # <<>> /\ (Completed \/ Aborted)
    BY DEF M6Judge, Running
  <1> QED BY <1>1, EndTypes DEF M6Judge, inputs, m2Files, m3Files, m5Files, m8Files, counts, TypeOK, Listed, HeldOK, Versions

LEMMA M8Types ==
  ASSUME TypeOK, Listed, M8Step
  PROVE  TypeOK' /\ Listed'
  <1>1. CASE M8Load
    <2>1. CASE Aborted
      BY <1>1, <2>1, EndTypes DEF M8Load, Running, inputs, m2Files, m3Files, m5Files, m8Files, counts, TypeOK, Listed, HeldOK, Versions
    <2>2. CASE ~Aborted
      <3>1. /\ UNCHANGED <<todo, force, left, rows, passed, done>> /\ step' = "canonical" /\ Running("m8", "next")
            /\ held' = [src |-> IF CorpusFresh THEN corpus.src ELSE Sources(ttl), merge |-> Now]
        BY <1>1, <2>2 DEF M8Load
      <3>2. CorpusFresh => corpus.src \in Versions
        BY DEF CorpusFresh, TypeOK, OrNone
      <3>3. held' \in [src : Versions, merge : Nat]
        <4>1. Now \in Nat
          BY DEF Now, TypeOK
        <4>2. CASE CorpusFresh
          BY <3>1, <3>2, <4>1, <4>2
        <4>3. CASE ~CorpusFresh
          BY <3>1, <4>1, <4>3, SourcesTyped
        <4> QED BY <4>2, <4>3
      <3> QED BY <1>1, <3>1, <3>3 DEF M8Load, Running, inputs, m2Files, m3Files, m5Files, m8Files, counts, TypeOK, Listed, HeldOK, Versions
    <2> QED BY <2>1, <2>2
  <1>2. CASE M8Canonical
    <2>1. canonical' \in [at : Nat, merge : Nat, src : Versions, reconciled : BOOLEAN]
      BY <1>2 DEF M8Canonical, Running, Now, TypeOK, HeldOK
    <2> QED BY <1>2, <2>1 DEF M8Canonical, Running, Now, m2Files, m3Files, m5Files, counts, TypeOK, Listed, HeldOK, Versions, OrNone
  <1>3. ASSUME NEW f \in ToSet(Companions), M8Companion(f) PROVE TypeOK' /\ Listed'
    <2>1. sidecar' \in [map : Nat, conflicts : Nat, failures : Nat, failuresTsv : Nat]
      BY <1>3 DEF M8Companion, Running, TypeOK, HeldOK
    <2>2. CASE left = {f}
      BY <1>3, <2>1, <2>2, EndTypes DEF M8Companion, Running, inputs, m2Files, m3Files, m5Files, counts, TypeOK, Listed, HeldOK, Versions
    <2>3. CASE left # {f}
      BY <1>3, <2>1, <2>3 DEF M8Companion, Running, inputs, m2Files, m3Files, m5Files, counts, TypeOK, Listed, HeldOK, Versions
    <2> QED BY <2>2, <2>3
  <1> QED BY <1>1, <1>2, <1>3 DEF M8Step

LEMMA LastTypes ==
  ASSUME TypeOK, Listed, M9Reconcile \/ Skosify
  PROVE  TypeOK' /\ Listed'
  <1>1. todo # <<>> /\ (Completed \/ Aborted)
    BY DEF M9Reconcile, Skosify, Running
  <1>2. CASE M9Reconcile
    <2>1. canonical' \in OrNone([at : Nat, merge : Nat, src : Versions, reconciled : BOOLEAN]) /\ clock' \in Nat
      <3>1. Now \in Nat /\ clock \in Nat /\ canonical \in OrNone([at : Nat, merge : Nat, src : Versions, reconciled : BOOLEAN])
        BY DEF TypeOK, Now
      <3>2. CASE canonical = None
        BY <1>2, <3>1, <3>2 DEF M9Reconcile
      <3>3. CASE canonical # None
        <4>1. canonical \in [at : Nat, merge : Nat, src : Versions, reconciled : BOOLEAN]
          BY <3>1, <3>3 DEF OrNone
        <4>2. [canonical EXCEPT !.at = Now, !.reconciled = TRUE]
                \in [at : Nat, merge : Nat, src : Versions, reconciled : BOOLEAN]
          BY <3>1, <4>1
        <4> QED BY <1>2, <3>1, <3>3, <4>2 DEF M9Reconcile, OrNone
      <3> QED BY <3>2, <3>3
    <2> QED BY <1>1, <1>2, <2>1, EndTypes DEF M9Reconcile, inputs, m2Files, m3Files, m5Files, m8Files, counts, TypeOK, Listed, HeldOK, Versions
  <1>3. CASE Skosify
    <2>1. skosified' \in OrNone([at : Nat, src : Versions, of : Nat]) /\ clock' \in Nat
      BY <1>3 DEF Skosify, TypeOK, OrNone, Now
    <2> QED BY <1>1, <1>3, <2>1, EndTypes DEF Skosify, inputs, m2Files, m3Files, m5Files, m8Files, counts, TypeOK, Listed, HeldOK, Versions
  <1> QED BY <1>2, <1>3

LEMMA EditTypes ==
  ASSUME TypeOK, Listed, ~EditsDuringRuns, NEW r \in Ids,
         (\E k \in Kinds : PutRecord(r, k)) \/ RemoveRecord(r) \/ RemoveOutputs(r)
  PROVE  TypeOK' /\ Listed'
  <1>1. ASSUME NEW k \in Kinds, PutRecord(r, k) PROVE TypeOK' /\ Listed'
    <2>1. /\ input' \in [Ids -> OrNone([at : Nat, kind : Kinds])] /\ clock' \in Nat /\ edits' \in Nat
          /\ step = "idle"
      BY <1>1 DEF PutRecord, MayEdit, Now, TypeOK, OrNone
    <2> QED BY <1>1, <2>1 DEF PutRecord, m2Files, m3Files, m5Files, m8Files, proc, counts, TypeOK, Listed, HeldOK, Versions
  <1>2. CASE RemoveRecord(r)
    <2>1. input' \in [Ids -> OrNone([at : Nat, kind : Kinds])] /\ edits' \in Nat
      BY <1>2 DEF RemoveRecord, TypeOK, OrNone
    <2> QED BY <1>2, <2>1 DEF RemoveRecord, m2Files, m3Files, m5Files, m8Files, proc, counts, TypeOK, Listed, HeldOK, Versions
  <1>3. CASE RemoveOutputs(r)
    <2>1. /\ rdf' \in [Ids -> OrNone([at : Nat, src : Nat, kind : Kinds, tok : SUBSET Nat])]
          /\ ttl' \in [Ids -> OrNone([at : Nat, src : Nat, kind : Kinds])]
          /\ edits' \in Nat /\ step = "idle"
      BY <1>3 DEF RemoveOutputs, MayEdit, TypeOK, OrNone
    <2> QED BY <1>3, <2>1 DEF RemoveOutputs, m3Files, m5Files, m8Files, proc, counts, TypeOK, Listed, HeldOK, Versions
  <1> QED BY <1>1, <1>2, <1>3

LEMMA TypesAndListed ==
  ASSUME ~EditsDuringRuns
  PROVE  Spec => [](TypeOK /\ Listed)
  <1>1. TypeOK /\ Listed /\ [Next]_vars => TypeOK' /\ Listed'
    <2> SUFFICES ASSUME TypeOK, Listed, [Next]_vars PROVE TypeOK' /\ Listed'
      OBVIOUS
    <2>1. CASE UNCHANGED vars
      BY <2>1 DEF vars, inputs, m2Files, m3Files, m5Files, m8Files, proc, counts, TypeOK, Listed, HeldOK, Versions
    <2>2. CASE Next
      BY <2>2, RunnerTypes, M2Types, M2PostTypes, M3Types, M5Types, M6Types, M8Types, LastTypes, EditTypes
         DEF Next, RunStep
    <2> QED BY <2>1, <2>2
  <1> QED BY TypeInit, <1>1, PTL DEF Spec

\* Every file and all the running process holds keep their types through every
\* step of the pipeline.
THEOREM TypeCorrect ==
  ASSUME ~EditsDuringRuns
  PROVE  Spec => []TypeOK
  BY TypesAndListed, PTL

-----------------------------------------------------------------------------
(* The files of a merge.                                                   *)

MergeOf == IF canonical = None THEN 0 ELSE canonical.merge

\* Each file is of no later merge than the one replaced before it.
Chain ==
  /\ MergeOf >= sidecar.map /\ sidecar.map >= sidecar.conflicts
  /\ sidecar.conflicts >= sidecar.failures /\ sidecar.failures >= sidecar.failuresTsv

\* A merge under way is later than every one before it.
MergeClocked ==
  /\ MergeOf <= clock
  /\ step = "canonical" => MergeOf <= held.merge /\ held.merge <= Now

\* Between the graph and the last companion, those that were replaced are of
\* this merge and the others are not replaced out of turn.
Replaced ==
  step = "companions" =>
    /\ canonical # None /\ canonical.merge = held.merge
    /\ left # {}
    /\ "map" \in left \/ sidecar.map = held.merge
    /\ "conflicts" \in left \/ ("map" \notin left /\ sidecar.conflicts = held.merge)
    /\ "failures" \in left \/ ("conflicts" \notin left /\ sidecar.failures = held.merge)
    /\ "failuresTsv" \in left \/ ("failures" \notin left /\ sidecar.failuresTsv = held.merge)

\* A merge that the run reports as done has replaced them all.
WholeWhenDone ==
  "m8" \in done /\ step \notin {"idle", "companions"} => MergeOf = sidecar.failuresTsv

MergeInv == Chain /\ MergeClocked /\ Replaced /\ WholeWhenDone

\* A graph that was written is no missing one.
LEMMA GraphIsThere ==
  ASSUME NEW at \in Nat, NEW merge \in Nat, NEW src \in Versions, NEW reconciled \in BOOLEAN
  PROVE  [at |-> at, merge |-> merge, src |-> src, reconciled |-> reconciled] # None
  BY RunDirAssumption DEF Versions, Ids

LEMMA CompanionNames == ToSet(Companions) = {"map", "conflicts", "failures", "failuresTsv"}
  BY DEF ToSet, Companions

LEMMA CompanionTurn ==
  ASSUME NEW f, NextIn(Companions, f)
  PROVE  \/ f = "map"
         \/ f = "conflicts" /\ "map" \notin left
         \/ f = "failures" /\ "map" \notin left /\ "conflicts" \notin left
         \/ f = "failuresTsv" /\ "map" \notin left /\ "conflicts" \notin left /\ "failures" \notin left
  <1>1. PICK i \in DOMAIN Companions :
          Companions[i] = f /\ \A k \in 1 .. i - 1 : Companions[k] \notin left
    BY DEF NextIn
  <1>2. /\ DOMAIN Companions = 1 .. 4 /\ Companions[1] = "map" /\ Companions[2] = "conflicts"
        /\ Companions[3] = "failures" /\ Companions[4] = "failuresTsv"
    BY DEF Companions
  <1>3. CASE i = 1
    BY <1>1, <1>2, <1>3
  <1>4. CASE i = 2
    BY <1>1, <1>2, <1>4
  <1>5. CASE i = 3
    <2>1. 1 \in 1 .. i - 1 /\ 2 \in 1 .. i - 1
      BY <1>5
    <2> QED BY <1>1, <1>2, <1>5, <2>1
  <1>6. CASE i = 4
    <2>1. 1 \in 1 .. i - 1 /\ 2 \in 1 .. i - 1 /\ 3 \in 1 .. i - 1
      BY <1>6
    <2> QED BY <1>1, <1>2, <1>6, <2>1
  <1> QED BY <1>1, <1>2, <1>3, <1>4, <1>5, <1>6

LEMMA MergeFirst == Init => MergeInv
  BY DEF Init, MergeInv, Chain, MergeClocked, Replaced, WholeWhenDone, MergeOf

\* What leaves the files of the merge, or only moves the clock on.
LEMMA MergeElsewhere ==
  ASSUME TypeOK, TypeOK', MergeInv, UNCHANGED sidecar, clock' >= clock, MergeOf' = MergeOf,
         step' \notin {"canonical", "companions"},
         \/ step' = "idle"
         \/ done' = {}
         \/ done' = done /\ step \notin {"idle", "companions"}
         \/ \E s \in STRING \ {"m8"} : done' = done \cup {s} /\ step \notin {"idle", "companions"}
  PROVE  MergeInv'
  <1>1. /\ clock \in Nat /\ clock' \in Nat /\ MergeOf \in Nat
        /\ sidecar \in [map : Nat, conflicts : Nat, failures : Nat, failuresTsv : Nat]
    BY DEF TypeOK, MergeOf, OrNone
  <1>2. Chain' /\ MergeClocked'
    BY <1>1 DEF MergeInv, Chain, MergeClocked
  <1>3. Replaced' /\ WholeWhenDone'
    BY <1>1 DEF MergeInv, Replaced, WholeWhenDone
  <1> QED BY <1>2, <1>3 DEF MergeInv

LEMMA MergeKeptByFiles ==
  ASSUME TypeOK, TypeOK', MergeInv, M2Step \/ M2PostStep \/ M3Step
  PROVE  MergeInv'
  <1>1. UNCHANGED <<sidecar, canonical>>
    BY DEF M2Step, M2PostStep, M3Step, M3Begin, Enter, Listing, M2Record, M2Write, M2MapRow, M2End, M2PostRecord, M2PostEnd,
           M3Record, M3Write, M3Corpus, M3End, m8Files
  <1>2. clock' >= clock
    <2>1. clock' \in {clock, Now}
      BY DEF M2Step, M2PostStep, M3Step, M3Begin, Enter, Listing, M2Record, M2Write, M2MapRow, M2End, M2PostRecord, M2PostEnd,
             M3Record, M3Write, M3Corpus, M3End, inputs
    <2> QED BY <2>1 DEF TypeOK, Now
  <1>3. todo # <<>> /\ Head(todo) \in {"m2", "m2-post", "m3"} /\ step \notin {"idle", "companions"}
    BY DEF M2Step, M2PostStep, M3Step, M3Begin, Enter, Listing, M2Record, M2Write, M2MapRow, M2End, M2PostRecord, M2PostEnd,
           M3Record, M3Write, M3Corpus, M3End, Running
  <1>4. /\ step' \notin {"canonical", "companions"}
        /\ step' = "idle" \/ done' = done \/ done' = done \cup {Head(todo)}
    BY DEF M2Step, M2PostStep, M3Step, M3Begin, Enter, Listing, M2Record, M2Write, M2MapRow, M2End, M2PostRecord, M2PostEnd,
           M3Record, M3Write, M3Corpus, M3End, Leave, Completed, Aborted
  <1>5. \/ step' = "idle"
        \/ done' = done /\ step \notin {"idle", "companions"}
        \/ \E s \in STRING \ {"m8"} : done' = done \cup {s} /\ step \notin {"idle", "companions"}
    <2>1. Head(todo) \in STRING \ {"m8"}
      BY <1>3 DEF TypeOK
    <2> QED BY <1>3, <1>4, <2>1
  <1>6. MergeOf' = MergeOf
    BY <1>1 DEF MergeOf
  <1> QED BY <1>1, <1>2, <1>4, <1>5, <1>6, MergeElsewhere

LEMMA MergeKeptByPairs ==
  ASSUME TypeOK, TypeOK', MergeInv, M5Step \/ M6Judge \/ M9Reconcile \/ Skosify
  PROVE  MergeInv'
  <1>1. sidecar' = sidecar /\ MergeOf' = MergeOf
    <2>1. CASE M9Reconcile
      <3>1. sidecar' = sidecar /\ (canonical = None => canonical' = None)
        BY <2>1 DEF M9Reconcile
      <3>2. ASSUME canonical # None PROVE canonical' # None /\ canonical'.merge = canonical.merge
        <4>1. canonical \in [at : Nat, merge : Nat, src : Versions, reconciled : BOOLEAN] /\ Now \in Nat
          BY <3>2 DEF TypeOK, OrNone, Now
        <4>2. canonical' = [at |-> Now, merge |-> canonical.merge, src |-> canonical.src, reconciled |-> TRUE]
          BY <2>1, <3>2, <4>1 DEF M9Reconcile
        <4>3. canonical' # None
          BY <4>1, <4>2, GraphIsThere
        <4> QED BY <4>2, <4>3
      <3> QED BY <3>1, <3>2 DEF MergeOf
    <2>2. CASE M5Step \/ M6Judge \/ Skosify
      BY <2>2 DEF M5Step, M5Begin, M5Index, M5Idmap, M5Query, M6Judge, Skosify, m8Files, MergeOf
    <2> QED BY <2>1, <2>2
  <1>2. clock' >= clock
    <2>1. clock' \in {clock, Now}
      <3>1. CASE M5Step
        BY <3>1 DEF M5Step, M5Begin, M5Index, M5Idmap, M5Query, inputs
      <3>2. CASE M6Judge \/ Skosify
        BY <3>2 DEF M6Judge, Skosify, inputs
      <3>3. CASE M9Reconcile
        BY <3>3 DEF M9Reconcile, inputs
      <3> QED BY <3>1, <3>2, <3>3
    <2> QED BY <2>1 DEF TypeOK, Now
  <1>3. todo # <<>> /\ Head(todo) \in {"m5", "m6", "m9", "skosify"} /\ step \notin {"idle", "companions"}
    BY DEF M5Step, M5Begin, M5Index, M5Idmap, M5Query, M6Judge, M9Reconcile, Skosify, Running
  <1>4. /\ step' \notin {"canonical", "companions"}
        /\ step' = "idle" \/ done' = done \/ done' = done \cup {Head(todo)}
    BY DEF M5Step, M5Begin, M5Index, M5Idmap, M5Query, M6Judge, M9Reconcile, Skosify, Completed, Aborted
  <1>5. \/ step' = "idle"
        \/ done' = done /\ step \notin {"idle", "companions"}
        \/ \E s \in STRING \ {"m8"} : done' = done \cup {s} /\ step \notin {"idle", "companions"}
    <2>1. Head(todo) \in STRING \ {"m8"}
      BY <1>3 DEF TypeOK
    <2> QED BY <1>3, <1>4, <2>1
  <1> QED BY <1>1, <1>2, <1>4, <1>5, MergeElsewhere

LEMMA MergeKeptOutside ==
  ASSUME TypeOK, TypeOK', MergeInv, ~EditsDuringRuns,
         \/ \E r \in Ids, k \in Kinds : PutRecord(r, k)
         \/ \E r \in Ids : RemoveRecord(r) \/ RemoveOutputs(r)
         \/ \E p \in Plans : StartRun(p)
         \/ EndRun \/ Crash
  PROVE  MergeInv'
  <1>1. UNCHANGED <<sidecar, canonical>>
    BY DEF PutRecord, RemoveRecord, RemoveOutputs, StartRun, EndRun, Crash, m8Files
  <1>2. clock' >= clock
    <2>1. clock' \in {clock, Now}
      BY DEF PutRecord, RemoveRecord, RemoveOutputs, StartRun, EndRun, Crash, inputs
    <2> QED BY <2>1 DEF TypeOK, Now
  <1>3. step' = "idle" \/ (step' = "next" /\ done' = {})
    BY DEF PutRecord, RemoveRecord, RemoveOutputs, MayEdit, StartRun, EndRun, Crash, proc
  <1> QED BY <1>1, <1>2, <1>3, MergeElsewhere DEF MergeOf

LEMMA MergeStep ==
  ASSUME TypeOK, TypeOK', MergeInv, M8Step
  PROVE  MergeInv'
  <1>0. /\ clock \in Nat /\ clock' \in Nat /\ MergeOf \in Nat
        /\ sidecar \in [map : Nat, conflicts : Nat, failures : Nat, failuresTsv : Nat]
    BY DEF TypeOK, MergeOf, OrNone
  <1>1. CASE M8Load
    <2>1. CASE step' = "idle"
      BY <1>0, <1>1, <2>1, MergeElsewhere DEF M8Load, inputs, m8Files, MergeOf
    <2>2. CASE step' # "idle"
      <3>1. /\ step = "next" /\ step' = "canonical" /\ held'.merge = Now /\ done' = done
            /\ UNCHANGED <<clock, canonical, sidecar>>
        BY <1>1, <2>2 DEF M8Load, Aborted, Running, inputs, m8Files
      <3> QED BY <1>0, <3>1 DEF MergeInv, Chain, MergeClocked, Replaced, WholeWhenDone, MergeOf, Now
    <2> QED BY <2>1, <2>2
  <1>2. CASE M8Canonical
    <2>1. /\ step = "canonical" /\ step' = "companions" /\ held' = held
          /\ canonical' = [at |-> Now, merge |-> held.merge, src |-> held.src, reconciled |-> FALSE]
          /\ left' = {"map", "conflicts", "failures", "failuresTsv"} /\ sidecar' = sidecar /\ clock' = Now
      BY <1>2, CompanionNames DEF M8Canonical, Running
    <2>2. canonical' # None /\ MergeOf' = held.merge /\ held.merge \in Nat
      <3>1. held \in [src : Versions, merge : Nat] /\ Now \in Nat
        BY <2>1 DEF TypeOK, HeldOK, Now
      <3>2. canonical' # None
        BY <2>1, <3>1, GraphIsThere
      <3> QED BY <2>1, <3>1, <3>2 DEF MergeOf
    <2> QED BY <1>0, <2>1, <2>2 DEF MergeInv, Chain, MergeClocked, Replaced, WholeWhenDone, Now
  <1>3. ASSUME NEW f \in ToSet(Companions), M8Companion(f) PROVE MergeInv'
    <2>1. /\ NextIn(Companions, f) /\ step = "companions" /\ todo # <<>> /\ f \in left
          /\ sidecar' = [sidecar EXCEPT ![f] = held.merge] /\ UNCHANGED <<clock, canonical>>
          /\ left \subseteq {"map", "conflicts", "failures", "failuresTsv"}
          /\ canonical.merge = held.merge /\ held.merge \in Nat /\ MergeOf = held.merge
      BY <1>3, CompanionNames DEF M8Companion, Running, NextIn, inputs, TypeOK, HeldOK, MergeInv, Replaced, MergeOf
    <2>2. \/ f = "map"
          \/ f = "conflicts" /\ "map" \notin left
          \/ f = "failures" /\ "map" \notin left /\ "conflicts" \notin left
          \/ f = "failuresTsv" /\ "map" \notin left /\ "conflicts" \notin left /\ "failures" \notin left
      BY <2>1, CompanionTurn
    <2>3. Chain' /\ MergeClocked'
      <3>1. step' # "canonical"
        BY <1>3, <2>1 DEF M8Companion, Completed
      <3> QED BY <1>0, <2>1, <2>2, <3>1 DEF MergeInv, Chain, MergeClocked, Replaced, MergeOf
    <2>4. CASE left # {f}
      <3>1. left' = left \ {f} /\ UNCHANGED <<step, held, done>>
        BY <1>3, <2>4 DEF M8Companion
      <3> QED BY <1>0, <2>1, <2>2, <2>3, <2>4, <3>1 DEF MergeInv, Replaced, WholeWhenDone, MergeOf
    <2>5. CASE left = {f}
      <3>1. step' = "next"
        BY <1>3, <2>5 DEF M8Companion, Completed
      <3>2. f = "failuresTsv"
        BY <2>1, <2>2, <2>5 DEF MergeInv, Replaced
      <3>3. sidecar'.failuresTsv = held.merge /\ MergeOf' = held.merge
        BY <1>0, <2>1, <3>2 DEF MergeOf
      <3> QED BY <2>3, <3>1, <3>3 DEF MergeInv, Replaced, WholeWhenDone
    <2> QED BY <2>4, <2>5
  <1> QED BY <1>1, <1>2, <1>3 DEF M8Step

\* However a merge was cut short, none of its files is of a later merge than
\* the one replaced before it, and a run that reports the merge as done
\* replaced them all.
THEOREM CompanionsHold ==
  ASSUME ~EditsDuringRuns
  PROVE  Spec => []CompanionsInOrder
  <1>1. TypeOK /\ TypeOK' /\ MergeInv /\ [Next]_vars => MergeInv'
    <2> SUFFICES ASSUME TypeOK, TypeOK', MergeInv, [Next]_vars PROVE MergeInv'
      OBVIOUS
    <2>1. CASE UNCHANGED vars
      BY <2>1 DEF vars, inputs, m8Files, proc, MergeInv, Chain, MergeClocked, Replaced, WholeWhenDone, MergeOf, Now
    <2>2. CASE Next
      BY <2>2, MergeKeptByFiles, MergeKeptByPairs, MergeKeptOutside, MergeStep DEF Next, RunStep
    <2> QED BY <2>1, <2>2
  <1>2. TypeOK /\ MergeInv => CompanionsInOrder
    <2> SUFFICES ASSUME TypeOK, MergeInv PROVE CompanionsInOrder
      OBVIOUS
    <2> DEFINE merges == <<IF canonical = None THEN 0 ELSE canonical.merge, sidecar.map,
                           sidecar.conflicts, sidecar.failures, sidecar.failuresTsv>>
    <2>1. merges[1] = MergeOf /\ merges[2] = sidecar.map /\ merges[3] = sidecar.conflicts
          /\ merges[4] = sidecar.failures /\ merges[5] = sidecar.failuresTsv
      BY DEF MergeOf
    <2>2. \A i \in 1 .. 4 : i = 1 \/ i = 2 \/ i = 3 \/ i = 4
      OBVIOUS
    <2>3. \A i \in 1 .. 4 : merges[i] >= merges[i + 1]
      <3> SUFFICES ASSUME NEW i \in 1 .. 4 PROVE merges[i] >= merges[i + 1]
        OBVIOUS
      <3> HIDE DEF merges
      <3>1. CASE i = 1
        BY <3>1, <2>1 DEF MergeInv, Chain
      <3>2. CASE i = 2
        BY <3>2, <2>1 DEF MergeInv, Chain
      <3>3. CASE i = 3
        BY <3>3, <2>1 DEF MergeInv, Chain
      <3>4. CASE i = 4
        BY <3>4, <2>1 DEF MergeInv, Chain
      <3> QED BY <2>2, <3>1, <3>2, <3>3, <3>4
    <2>4. RunEndsWith({"m8"}) => merges[1] = merges[5]
      BY <2>1 DEF RunEndsWith, MergeInv, WholeWhenDone
    <2> QED BY <2>3, <2>4 DEF CompanionsInOrder
  <1> QED BY TypeCorrect, MergeFirst, <1>1, <1>2, PTL DEF Spec

-----------------------------------------------------------------------------
(* The rows of helmet-map.jsonl.                                           *)

\* A loop has one next record.
LEMMA OneNext ==
  ASSUME NEW x, NEW y, NextIn(Records, x), NextIn(Records, y)
  PROVE  x = y
  <1>1. DOMAIN Records = 1 .. Len(Records) /\ Len(Records) \in Nat
    BY RunDirAssumption
  <1>2. PICK i \in DOMAIN Records : Records[i] = x /\ \A k \in 1 .. i - 1 : Records[k] \notin left
    BY DEF NextIn
  <1>3. PICK j \in DOMAIN Records : Records[j] = y /\ \A k \in 1 .. j - 1 : Records[k] \notin left
    BY DEF NextIn
  <1>4. x \in left /\ y \in left /\ i \in Nat /\ j \in Nat /\ 1 <= i /\ 1 <= j
    BY <1>1, <1>2, <1>3 DEF NextIn
  <1>5. CASE i < j
    <2>1. i \in 1 .. j - 1
      BY <1>4, <1>5
    <2> QED BY <1>2, <1>3, <1>4, <2>1
  <1>6. CASE j < i
    <2>1. j \in 1 .. i - 1
      BY <1>4, <1>6
    <2> QED BY <1>2, <1>3, <1>4, <2>1
  <1>7. CASE i = j
    BY <1>2, <1>3, <1>7
  <1> QED BY <1>4, <1>5, <1>6, <1>7

\* Between an rdf and its row, the row that will be written is of that rdf.
RowComing ==
  step = "row" => \A r \in Ids : NextIn(Records, r) /\ rdf[r] # None => rdf[r].src = held.at

RowInv == MapRowsLostOnlyByCrash /\ RowComing

LEMMA RowFirst == Init => RowInv
  BY DEF Init, RowInv, MapRowsLostOnlyByCrash, RowComing, Present

LEMMA RowElsewhere ==
  ASSUME TypeOK, RowInv, UNCHANGED <<rdf, helmetMap, crashes>>, step # "row", step' # "row"
  PROVE  RowInv'
  BY DEF RowInv, MapRowsLostOnlyByCrash, RowComing, Present

LEMMA RowAfterCrash ==
  ASSUME TypeOK, Crash
  PROVE  RowInv'
  BY DEF Crash, RowInv, MapRowsLostOnlyByCrash, RowComing, TypeOK

LEMMA RowEdits ==
  ASSUME TypeOK, RowInv, ~EditsDuringRuns, NEW r \in Ids,
         (\E k \in Kinds : PutRecord(r, k)) \/ RemoveRecord(r) \/ RemoveOutputs(r)
  PROVE  RowInv'
  <1>1. step = "idle" /\ step' = "idle" /\ UNCHANGED <<helmetMap, crashes>>
    BY DEF PutRecord, RemoveRecord, RemoveOutputs, MayEdit, m2Files, proc, counts
  <1>2. rdf' = rdf \/ rdf' = [rdf EXCEPT ![r] = None]
    BY DEF PutRecord, RemoveRecord, RemoveOutputs, m2Files
  <1>3. ASSUME NEW q \in Ids PROVE rdf'[q] = None \/ rdf'[q] = rdf[q]
    BY <1>2 DEF TypeOK
  <1> QED BY <1>1, <1>3 DEF RowInv, MapRowsLostOnlyByCrash, RowComing, Present

LEMMA RowM2 ==
  ASSUME TypeOK, RowInv, M2Step
  PROVE  RowInv'
  <1>0. rdf \in [Ids -> OrNone([at : Nat, src : Nat, kind : Kinds, tok : SUBSET Nat])] /\ helmetMap \in [Ids -> Nat]
    BY DEF TypeOK
  <1>1. CASE Enter("m2", input)
    BY <1>1, RowElsewhere DEF Enter, Listing, Running, m2Files, counts
  <1>2. ASSUME NEW r \in Ids, M2Record(r) PROVE RowInv'
    BY <1>2, RowElsewhere DEF M2Record, Leave, Running, m2Files, counts
  <1>3. ASSUME NEW r \in Ids, M2Write(r) PROVE RowInv'
    <2>1. /\ step = "write" /\ step' = "row" /\ NextIn(Records, r)
          /\ UNCHANGED <<left, held, helmetMap, crashes>>
          /\ rdf' = [rdf EXCEPT ![r] = [at |-> Now, src |-> held.at, kind |-> held.kind, tok |-> {}]]
      BY <1>3 DEF M2Write, Running, counts
    <2>2. ASSUME NEW q \in Ids PROVE NextIn(Records, q)' <=> q = r
      BY <2>1, OneNext DEF NextIn
    <2>3. rdf'[r].src = held.at
      BY <1>0, <2>1
    <2>4. ASSUME NEW q \in Ids \ {r} PROVE rdf'[q] = rdf[q]
      BY <1>0, <2>1
    <2> QED BY <2>1, <2>2, <2>3, <2>4 DEF RowInv, MapRowsLostOnlyByCrash, RowComing, Present
  <1>4. ASSUME NEW r \in Ids, M2MapRow(r) PROVE RowInv'
    <2>1. /\ step = "row" /\ step' = "loop" /\ NextIn(Records, r) /\ UNCHANGED <<rdf, crashes>>
          /\ helmetMap' = [helmetMap EXCEPT ![r] = held.at]
      BY <1>4 DEF M2MapRow, Leave, Running, counts
    <2>2. rdf[r] # None => helmetMap'[r] = rdf[r].src
      BY <1>0, <2>1 DEF RowInv, RowComing
    <2>3. ASSUME NEW q \in Ids \ {r} PROVE helmetMap'[q] = helmetMap[q] /\ ~NextIn(Records, q)
      BY <1>0, <2>1, OneNext
    <2> QED BY <2>1, <2>2, <2>3 DEF RowInv, MapRowsLostOnlyByCrash, RowComing, Present
  <1>5. CASE M2End
    BY <1>5, RowElsewhere DEF M2End, Running, Completed, Aborted, counts
  <1> QED BY <1>1, <1>2, <1>3, <1>4, <1>5 DEF M2Step

LEMMA RowM2Post ==
  ASSUME TypeOK, Listed, RowInv, M2PostStep
  PROVE  RowInv'
  <1>1. CASE Enter("m2-post", rdf) \/ M2PostEnd
    BY <1>1, RowElsewhere DEF Enter, Listing, M2PostEnd, Running, Completed, m2Files, counts
  <1>2. ASSUME NEW r \in Ids, M2PostRecord(r) PROVE RowInv'
    <2>1. /\ step = "loop" /\ step' = "loop" /\ UNCHANGED <<helmetMap, crashes>>
          /\ rdf[r] \in [at : Nat, src : Nat, kind : Kinds, tok : SUBSET Nat] /\ rdf[r] # None
          /\ rdf \in [Ids -> OrNone([at : Nat, src : Nat, kind : Kinds, tok : SUBSET Nat])]
      BY <1>2 DEF M2PostRecord, Leave, Running, NextIn, TypeOK, Listed, OrNone, counts
    <2>2. rdf' = rdf \/ rdf' = [rdf EXCEPT ![r] = [rdf[r] EXCEPT !.at = Now, !.tok = @ \cup {input[r].at}]]
      BY <1>2 DEF M2PostRecord
    <2>3. ASSUME NEW q \in Ids PROVE rdf'[q] = None \/ (rdf[q] # None /\ rdf'[q].src = rdf[q].src)
      <3>1. CASE rdf' = rdf
        BY ONLY <3>1
      <3>2. CASE rdf' = [rdf EXCEPT ![r] = [rdf[r] EXCEPT !.at = Now, !.tok = @ \cup {input[r].at}]]
        <4>1. CASE q = r
          <5>1. rdf'[q] = [rdf[r] EXCEPT !.at = Now, !.tok = @ \cup {input[r].at}]
            BY <2>1, <3>2, <4>1
          <5>2. rdf'[q].src = rdf[r].src
            BY ONLY <2>1, <5>1
          <5> QED BY <2>1, <4>1, <5>2
        <4>2. CASE q # r
          BY <2>1, <3>2, <4>2
        <4> QED BY <4>1, <4>2
      <3> QED BY <2>2, <3>1, <3>2
    <2> QED BY <2>1, <2>3 DEF RowInv, MapRowsLostOnlyByCrash, RowComing, Present
  <1> QED BY <1>1, <1>2 DEF M2PostStep

LEMMA RowLater ==
  ASSUME TypeOK, RowInv, M3Step \/ M5Step \/ M6Judge \/ M8Step \/ M9Reconcile \/ Skosify \/ EndRun
                           \/ \E p \in Plans : StartRun(p)
  PROVE  RowInv'
  <1>1. CASE M3Step
    BY <1>1, RowElsewhere DEF M3Step, M3Begin, Listing, M3Record, M3Write, M3Corpus, M3End, Leave, Completed, Aborted, Running, m2Files, counts
  <1>2. CASE M5Step \/ M6Judge
    BY <1>2, RowElsewhere DEF M5Step, M5Begin, M5Index, M5Idmap, M5Query, M6Judge, Completed, Aborted, Running, m2Files, counts
  <1>3. CASE M8Step
    BY <1>3, RowElsewhere DEF M8Step, M8Load, M8Canonical, M8Companion, Completed, Aborted, Running, m2Files, counts
  <1>4. CASE M9Reconcile \/ Skosify
    BY <1>4, RowElsewhere DEF M9Reconcile, Skosify, Completed, Aborted, Running, m2Files, counts
  <1>5. CASE EndRun \/ \E p \in Plans : StartRun(p)
    BY <1>5, RowElsewhere DEF EndRun, StartRun, m2Files, counts
  <1> QED BY <1>1, <1>2, <1>3, <1>4, <1>5

\* An rdf in place whose row of helmet-map.jsonl is of another conversion was
\* cut off between the two, or a process was killed.
THEOREM MapRowsHold ==
  ASSUME ~EditsDuringRuns
  PROVE  Spec => []MapRowsLostOnlyByCrash
  <1>1. TypeOK /\ Listed /\ RowInv /\ [Next]_vars => RowInv'
    <2> SUFFICES ASSUME TypeOK, Listed, RowInv, [Next]_vars PROVE RowInv'
      OBVIOUS
    <2>1. CASE UNCHANGED vars
      BY <2>1 DEF vars, m2Files, proc, counts, RowInv, MapRowsLostOnlyByCrash, RowComing, Present, NextIn
    <2>2. CASE Next
      BY <2>2, RowAfterCrash, RowEdits, RowM2, RowM2Post, RowLater DEF Next, RunStep
    <2> QED BY <2>1, <2>2
  <1>2. RowInv => MapRowsLostOnlyByCrash
    BY DEF RowInv
  <1> QED BY TypesAndListed, RowFirst, <1>1, <1>2, PTL DEF Spec

-----------------------------------------------------------------------------
(* Freshness, record by record.                                            *)

LEMMA ClockForward ==
  ASSUME TypeOK, Next
  PROVE  clock' >= clock
  <1>1. CASE M2Step \/ M2PostStep \/ M3Step
    <2>1. clock' \in {clock, Now}
      BY <1>1 DEF M2Step, M2PostStep, M3Step, M3Begin, Enter, Listing, M2Record, M2Write, M2MapRow, M2End, M2PostRecord,
                  M2PostEnd, M3Record, M3Write, M3Corpus, M3End, inputs
    <2> QED BY <2>1 DEF TypeOK, Now
  <1>2. CASE M5Step \/ M6Judge \/ M8Step \/ M9Reconcile \/ Skosify
    <2>1. clock' \in {clock, Now}
      BY <1>2 DEF M5Step, M5Begin, M5Index, M5Idmap, M5Query, M6Judge, M8Step, M8Load, M8Canonical,
                  M8Companion, M9Reconcile, Skosify, inputs
    <2> QED BY <2>1 DEF TypeOK, Now
  <1>3. CASE EndRun \/ Crash \/ \E p \in Plans : StartRun(p)
    BY <1>3 DEF EndRun, Crash, StartRun, inputs, TypeOK
  <1>4. ASSUME NEW r \in Ids, (\E k \in Kinds : PutRecord(r, k)) \/ RemoveRecord(r) \/ RemoveOutputs(r)
        PROVE  clock' >= clock
    BY <1>4 DEF PutRecord, RemoveRecord, RemoveOutputs, TypeOK, Now
  <1> QED BY <1>1, <1>2, <1>3, <1>4 DEF Next, RunStep

\* Nothing was written in the future.
RecordClocked(r) ==
  /\ input[r] # None => input[r].at <= clock
  /\ rdf[r] # None => rdf[r].at <= clock
  /\ ttl[r] # None => ttl[r].at <= clock

\* An rdf or ttl that would be skipped is of what it would be made from.
RecordCurrent(r) ==
  /\ input[r] # None /\ rdf[r] # None /\ rdf[r].at >= input[r].at =>
       rdf[r].src = input[r].at \/ input[r].at \in rdf[r].tok
  /\ rdf[r] # None /\ ttl[r] # None /\ ttl[r].at >= rdf[r].at => ttl[r].src = rdf[r].src

\* What m2 converts is the input that is there.
Converting == step = "write" => \A r \in Ids : NextIn(Records, r) => held = input[r]

RecordInv == Converting /\ \A r \in Ids : RecordClocked(r) /\ RecordCurrent(r)

FileTypes ==
  /\ clock \in Nat /\ Now \in Nat /\ Now > clock
  /\ input \in [Ids -> OrNone([at : Nat, kind : Kinds])]
  /\ rdf \in [Ids -> OrNone([at : Nat, src : Nat, kind : Kinds, tok : SUBSET Nat])]
  /\ ttl \in [Ids -> OrNone([at : Nat, src : Nat, kind : Kinds])]

LEMMA FilesTyped == TypeOK => FileTypes
  <1> SUFFICES ASSUME TypeOK PROVE FileTypes
    OBVIOUS
  <1>1. clock \in Nat
    BY DEF TypeOK
  <1>2. Now \in Nat /\ Now > clock
    BY <1>1 DEF Now
  <1> QED BY <1>1, <1>2 DEF TypeOK, FileTypes

LEMMA TimesTyped ==
  ASSUME FileTypes, NEW r \in Ids
  PROVE  /\ input[r] # None => input[r].at \in Nat
         /\ rdf[r] # None => rdf[r].at \in Nat /\ rdf[r].src \in Nat
         /\ ttl[r] # None => ttl[r].at \in Nat /\ ttl[r].src \in Nat
         /\ clock \in Nat /\ Now \in Nat /\ Now > clock
  BY DEF FileTypes, OrNone

LEMMA RecordFirst == Init => RecordInv
  BY DEF Init, RecordInv, RecordClocked, RecordCurrent, Converting

LEMMA RecordElsewhere ==
  ASSUME TypeOK, TypeOK', RecordInv, UNCHANGED <<input, rdf, ttl>>, clock' >= clock, step' # "write"
  PROVE  RecordInv'
  <1>1. ASSUME NEW r \in Ids PROVE RecordClocked(r)'
    <2>1. clock \in Nat /\ clock' \in Nat
      BY DEF TypeOK
    <2> QED BY <2>1, FilesTyped, TimesTyped DEF RecordInv, RecordClocked
  <1>2. ASSUME NEW r \in Ids PROVE RecordCurrent(r)'
    BY DEF RecordInv, RecordCurrent
  <1> QED BY <1>1, <1>2 DEF RecordInv, Converting

\* A step that writes the files of one record.
LEMMA RecordWritten ==
  ASSUME TypeOK, TypeOK', RecordInv, clock' >= clock, step' # "write", NEW r \in Ids,
         \A q \in Ids \ {r} : input'[q] = input[q] /\ rdf'[q] = rdf[q] /\ ttl'[q] = ttl[q],
         RecordClocked(r)', RecordCurrent(r)'
  PROVE  RecordInv'
  <1>1. ASSUME NEW q \in Ids \ {r} PROVE RecordClocked(q)' /\ RecordCurrent(q)'
    <2>1. input'[q] = input[q] /\ rdf'[q] = rdf[q] /\ ttl'[q] = ttl[q]
      OBVIOUS
    <2>2. RecordClocked(q)'
      <3>1. clock \in Nat /\ clock' \in Nat
        BY DEF TypeOK
      <3> QED BY <2>1, <3>1, FilesTyped, TimesTyped DEF RecordInv, RecordClocked
    <2>3. RecordCurrent(q)'
      BY <2>1 DEF RecordInv, RecordCurrent
    <2> QED BY <2>2, <2>3
  <1> QED BY <1>1 DEF RecordInv, Converting

LEMMA RecordEdits ==
  ASSUME TypeOK, TypeOK', RecordInv, ~EditsDuringRuns, NEW r \in Ids,
         (\E k \in Kinds : PutRecord(r, k)) \/ RemoveRecord(r) \/ RemoveOutputs(r)
  PROVE  RecordInv'
  <1>0. FileTypes /\ step' # "write" /\ clock' >= clock
    BY FilesTyped, ClockForward DEF Next, PutRecord, RemoveRecord, RemoveOutputs, MayEdit, proc
  <1>1. ASSUME NEW k \in Kinds, PutRecord(r, k) PROVE RecordInv'
    <2>1. /\ input' = [input EXCEPT ![r] = [at |-> Now, kind |-> k]] /\ clock' = Now
          /\ rdf' = rdf /\ ttl' = ttl
      BY <1>1 DEF PutRecord, m2Files, m3Files
    <2>2. \A q \in Ids \ {r} : input'[q] = input[q] /\ rdf'[q] = rdf[q] /\ ttl'[q] = ttl[q]
      BY <1>0, <2>1 DEF FileTypes
    <2>3. input'[r].at = Now
      BY <1>0, <2>1 DEF FileTypes
    <2>4. RecordClocked(r) /\ RecordCurrent(r)
      BY DEF RecordInv
    <2>5. RecordClocked(r)'
      BY <1>0, <2>1, <2>3, <2>4, TimesTyped DEF RecordClocked
    <2>6. RecordCurrent(r)'
      BY <1>0, <2>1, <2>3, <2>4, TimesTyped DEF RecordClocked, RecordCurrent
    <2> QED BY <1>0, <2>2, <2>5, <2>6, RecordWritten
  <1>2. CASE RemoveRecord(r)
    <2>1. /\ input' = [input EXCEPT ![r] = None] /\ clock' = clock /\ rdf' = rdf /\ ttl' = ttl
      BY <1>2 DEF RemoveRecord, m2Files, m3Files
    <2>2. input'[r] = None /\ \A q \in Ids \ {r} : input'[q] = input[q]
      BY <1>0, <2>1 DEF FileTypes
    <2>3. RecordClocked(r)' /\ RecordCurrent(r)'
      BY <2>1, <2>2 DEF RecordInv, RecordClocked, RecordCurrent
    <2> QED BY <1>0, <2>1, <2>2, <2>3, RecordWritten
  <1>3. CASE RemoveOutputs(r)
    <2>1. /\ rdf' = [rdf EXCEPT ![r] = None] /\ ttl' = [ttl EXCEPT ![r] = None]
          /\ clock' = clock /\ input' = input
      BY <1>3 DEF RemoveOutputs
    <2>2. /\ rdf'[r] = None /\ ttl'[r] = None
          /\ \A q \in Ids \ {r} : rdf'[q] = rdf[q] /\ ttl'[q] = ttl[q]
      BY <1>0, <2>1 DEF FileTypes
    <2>3. RecordClocked(r)' /\ RecordCurrent(r)'
      BY <2>1, <2>2 DEF RecordInv, RecordClocked, RecordCurrent
    <2> QED BY <1>0, <2>1, <2>2, <2>3, RecordWritten
  <1> QED BY <1>1, <1>2, <1>3

LEMMA RecordM2 ==
  ASSUME TypeOK, TypeOK', RecordInv, M2Step
  PROVE  RecordInv'
  <1>0. FileTypes /\ clock' >= clock
    BY FilesTyped, ClockForward DEF Next, RunStep
  <1>1. CASE Enter("m2", input) \/ M2End
    BY <1>0, <1>1, RecordElsewhere DEF Enter, Listing, M2End, Completed, Aborted, inputs, m2Files, m3Files
  <1>2. ASSUME NEW r \in Ids, M2Record(r) PROVE RecordInv'
    <2>1. UNCHANGED <<clock, input, rdf, ttl>>
      BY <1>2 DEF M2Record, inputs, m2Files, m3Files
    <2>2. CASE step' # "write"
      BY <1>0, <2>1, <2>2, RecordElsewhere
    <2>3. CASE step' = "write"
      <3>1. NextIn(Records, r) /\ held' = input[r] /\ left' = left
        BY <1>2, <2>3 DEF M2Record, Leave
      <3>2. ASSUME NEW q \in Ids, NextIn(Records, q)' PROVE q = r
        BY <3>1, <3>2, OneNext DEF NextIn
      <3> QED BY <2>1, <3>1, <3>2 DEF RecordInv, Converting, RecordClocked, RecordCurrent
    <2> QED BY <2>2, <2>3
  <1>3. ASSUME NEW r \in Ids, M2Write(r) PROVE RecordInv'
    <2>1. /\ rdf' = [rdf EXCEPT ![r] = [at |-> Now, src |-> held.at, kind |-> held.kind, tok |-> {}]]
          /\ clock' = Now /\ input' = input /\ ttl' = ttl /\ step' = "row" /\ held = input[r]
      BY <1>3 DEF M2Write, Running, RecordInv, Converting, m3Files
    <2>2. /\ rdf'[r].at = Now /\ rdf'[r].src = input[r].at
          /\ \A q \in Ids \ {r} : rdf'[q] = rdf[q]
      BY <1>0, <2>1 DEF FileTypes
    <2>3. RecordClocked(r)
      BY DEF RecordInv
    <2>4. RecordClocked(r)'
      BY <1>0, <2>1, <2>2, <2>3, TimesTyped DEF RecordClocked
    <2>5. RecordCurrent(r)'
      BY <1>0, <2>1, <2>2, <2>3, TimesTyped DEF RecordClocked, RecordCurrent
    <2> QED BY <1>0, <2>1, <2>2, <2>4, <2>5, RecordWritten
  <1>4. ASSUME NEW r \in Ids, M2MapRow(r) PROVE RecordInv'
    BY <1>0, <1>4, RecordElsewhere DEF M2MapRow, Leave, inputs, m3Files
  <1> QED BY <1>1, <1>2, <1>3, <1>4 DEF M2Step

LEMMA RecordM2Post ==
  ASSUME TypeOK, TypeOK', Listed, RecordInv, M2PostStep
  PROVE  RecordInv'
  <1>0. FileTypes /\ clock' >= clock
    BY FilesTyped, ClockForward DEF Next, RunStep
  <1>1. CASE Enter("m2-post", rdf) \/ M2PostEnd
    BY <1>0, <1>1, RecordElsewhere DEF Enter, Listing, M2PostEnd, Completed, inputs, m2Files, m3Files
  <1>2. ASSUME NEW r \in Ids, M2PostRecord(r) PROVE RecordInv'
    <2>0. input' = input /\ ttl' = ttl /\ step' = "loop"
      BY <1>2 DEF M2PostRecord, Leave, m3Files
    <2>1. CASE rdf' = rdf
      BY <1>0, <2>0, <2>1, RecordElsewhere
    <2>2. CASE rdf' # rdf
      <3>1. /\ rdf' = [rdf EXCEPT ![r] = [rdf[r] EXCEPT !.at = Now, !.tok = @ \cup {input[r].at}]]
            /\ clock' = Now
        BY <1>2, <2>2 DEF M2PostRecord
      <3>2. rdf[r] \in [at : Nat, src : Nat, kind : Kinds, tok : SUBSET Nat]
        BY <1>2 DEF M2PostRecord, Running, NextIn, TypeOK, Listed, OrNone
      <3>3. rdf'[r].at = Now /\ input[r].at \in rdf'[r].tok
        BY <1>0, <3>1, <3>2 DEF FileTypes
      <3>4. \A q \in Ids \ {r} : rdf'[q] = rdf[q]
        BY <1>0, <3>1 DEF FileTypes
      <3>5. RecordClocked(r)
        BY DEF RecordInv
      <3>6. RecordClocked(r)'
        BY <1>0, <2>0, <3>1, <3>3, <3>5, TimesTyped DEF RecordClocked
      <3>7. RecordCurrent(r)'
        BY <1>0, <2>0, <3>1, <3>3, <3>5, TimesTyped DEF RecordClocked, RecordCurrent
      <3> QED BY <1>0, <2>0, <3>4, <3>6, <3>7, RecordWritten
    <2> QED BY <2>1, <2>2
  <1> QED BY <1>1, <1>2 DEF M2PostStep

LEMMA RecordM3 ==
  ASSUME TypeOK, TypeOK', RecordInv, M3Step
  PROVE  RecordInv'
  <1>0. FileTypes /\ clock' >= clock
    BY FilesTyped, ClockForward DEF Next, RunStep
  <1>1. CASE M3Begin \/ M3Corpus \/ M3End
    BY <1>0, <1>1, RecordElsewhere DEF M3Begin, Listing, M3Corpus, M3End, Completed, Aborted, inputs, m2Files, m3Files
  <1>2. ASSUME NEW r \in Ids, M3Record(r) PROVE RecordInv'
    <2>0. input' = input /\ rdf' = rdf /\ step' = "loop"
      BY <1>2 DEF M3Record, M3Write, Leave, m2Files
    <2>1. CASE ttl' = ttl
      BY <1>0, <2>0, <2>1, RecordElsewhere
    <2>2. CASE ttl' # ttl
      <3>1. /\ ttl' = [ttl EXCEPT ![r] = [at |-> Now, src |-> rdf[r].src, kind |-> rdf[r].kind]]
            /\ clock' = Now
        BY <1>2, <2>2 DEF M3Record, M3Write
      <3>2. /\ ttl'[r].at = Now /\ ttl'[r].src = rdf[r].src
            /\ \A q \in Ids \ {r} : ttl'[q] = ttl[q]
        BY <1>0, <3>1 DEF FileTypes
      <3>3. RecordClocked(r) /\ RecordCurrent(r)
        BY DEF RecordInv
      <3>4. RecordClocked(r)'
        BY <1>0, <2>0, <3>1, <3>2, <3>3, TimesTyped DEF RecordClocked
      <3>5. RecordCurrent(r)'
        BY <1>0, <2>0, <3>2, <3>3 DEF RecordCurrent
      <3> QED BY <1>0, <2>0, <3>2, <3>4, <3>5, RecordWritten
    <2> QED BY <2>1, <2>2
  <1> QED BY <1>1, <1>2 DEF M3Step

LEMMA RecordLater ==
  ASSUME TypeOK, TypeOK', RecordInv,
         M5Step \/ M6Judge \/ M8Step \/ M9Reconcile \/ Skosify \/ EndRun \/ Crash
           \/ \E p \in Plans : StartRun(p)
  PROVE  RecordInv'
  <1>0. clock' >= clock
    BY ClockForward DEF Next, RunStep
  <1>1. UNCHANGED <<input, rdf, ttl>>
    BY DEF M5Step, M5Begin, M5Index, M5Idmap, M5Query, M6Judge, M8Step, M8Load, M8Canonical, M8Companion,
           M9Reconcile, Skosify, EndRun, Crash, StartRun, inputs, m2Files, m3Files
  <1>2. step' # "write"
    <2>1. CASE M5Step \/ M6Judge \/ M9Reconcile \/ Skosify
      BY <2>1 DEF M5Step, M5Begin, M5Index, M5Idmap, M5Query, M6Judge, M9Reconcile, Skosify, Completed, Aborted
    <2>2. CASE M8Step
      BY <2>2 DEF M8Step, M8Load, M8Canonical, M8Companion, Running, Completed, Aborted
    <2>3. CASE EndRun \/ Crash \/ \E p \in Plans : StartRun(p)
      BY <2>3 DEF EndRun, Crash, StartRun
    <2> QED BY <2>1, <2>2, <2>3
  <1> QED BY <1>0, <1>1, <1>2, RecordElsewhere

LEMMA RecordsCurrent ==
  ASSUME ~EditsDuringRuns
  PROVE  Spec => []RecordInv
  <1>1. TypeOK /\ TypeOK' /\ Listed /\ RecordInv /\ [Next]_vars => RecordInv'
    <2> SUFFICES ASSUME TypeOK, TypeOK', Listed, RecordInv, [Next]_vars PROVE RecordInv'
      OBVIOUS
    <2>1. CASE UNCHANGED vars
      BY <2>1 DEF vars, inputs, m2Files, m3Files, proc, RecordInv, Converting, RecordClocked, RecordCurrent, NextIn
    <2>2. CASE Next
      BY <2>2, RecordEdits, RecordM2, RecordM2Post, RecordM3, RecordLater DEF Next, RunStep
    <2> QED BY <2>1, <2>2
  <1> QED BY TypesAndListed, RecordFirst, <1>1, PTL DEF Spec

-----------------------------------------------------------------------------
(* Freshness of what is made from all records.                             *)

\* A file of all records that is no older than a ttl has that ttl's content.
OfAll(f, r) == f # None /\ ttl[r] # None /\ ttl[r].at <= f.at => f.src[r] = ttl[r].src

NotAhead(f) == f # None => f.at <= clock

\* The rows of the index under way are of the ttl files as they are.
Building == step \in {"index", "idmap"} => \A r \in Ids : ttl[r] # None => held[r] = ttl[r].src

AllInv ==
  /\ NotAhead(corpus) /\ NotAhead(index) /\ NotAhead(idmap)
  /\ \A r \in Ids : OfAll(corpus, r) /\ OfAll(index, r) /\ OfAll(idmap, r)
  /\ Building

LEMMA AllFirst == Init => AllInv
  BY DEF Init, AllInv, OfAll, NotAhead, Building

LEMMA AtTyped ==
  ASSUME TypeOK
  PROVE  /\ clock \in Nat /\ Now \in Nat /\ Now > clock
         /\ corpus # None => corpus.at \in Nat
         /\ index # None => index.at \in Nat
         /\ idmap # None => idmap.at \in Nat
         /\ canonical # None => canonical.at \in Nat
         /\ skosified # None => skosified.at \in Nat
  BY DEF TypeOK, OrNone, Now

\* A file that was there or of the clock's time is not ahead of the clock.
LEMMA AheadKept ==
  ASSUME TypeOK, TypeOK', clock' >= clock
  PROVE  /\ NotAhead(corpus) /\ corpus' = corpus => NotAhead(corpus)'
         /\ NotAhead(index) /\ index' = index => NotAhead(index)'
         /\ NotAhead(idmap) /\ idmap' = idmap => NotAhead(idmap)'
         /\ NotAhead(canonical) /\ canonical' = canonical => NotAhead(canonical)'
         /\ NotAhead(skosified) /\ skosified' = skosified => NotAhead(skosified)'
  <1>1. clock \in Nat /\ clock' \in Nat
    BY DEF TypeOK
  <1> QED BY <1>1, AtTyped DEF NotAhead

LEMMA AllElsewhere ==
  ASSUME TypeOK, TypeOK', AllInv, UNCHANGED <<ttl, corpus, index, idmap>>, clock' >= clock,
         step' \notin {"index", "idmap"}
  PROVE  AllInv'
  BY AheadKept DEF AllInv, OfAll, Building

LEMMA AllEdits ==
  ASSUME TypeOK, TypeOK', AllInv, ~EditsDuringRuns, NEW r \in Ids,
         (\E k \in Kinds : PutRecord(r, k)) \/ RemoveRecord(r) \/ RemoveOutputs(r)
  PROVE  AllInv'
  <1>1. /\ UNCHANGED <<corpus, index, idmap>> /\ step' = "idle" /\ clock' >= clock
        /\ ttl \in [Ids -> OrNone([at : Nat, src : Nat, kind : Kinds])]
    BY ClockForward DEF Next, PutRecord, RemoveRecord, RemoveOutputs, MayEdit, m3Files, m5Files, proc, TypeOK
  <1>2. ttl' = ttl \/ ttl' = [ttl EXCEPT ![r] = None]
    BY DEF PutRecord, RemoveRecord, RemoveOutputs, m3Files
  <1>3. ASSUME NEW q \in Ids PROVE ttl'[q] = None \/ ttl'[q] = ttl[q]
    BY <1>1, <1>2
  <1> QED BY <1>1, <1>3, AheadKept DEF AllInv, OfAll, Building

LEMMA AllM3 ==
  ASSUME TypeOK, TypeOK', AllInv, M3Step
  PROVE  AllInv'
  <1>0. clock' >= clock /\ FileTypes
    BY FilesTyped, ClockForward DEF Next, RunStep
  <1>1. CASE M3Begin \/ M3End
    BY <1>0, <1>1, AllElsewhere DEF M3Begin, Listing, M3End, Completed, Aborted, m3Files, m5Files
  <1>2. ASSUME NEW r \in Ids, M3Record(r) PROVE AllInv'
    <2>0. UNCHANGED <<corpus, index, idmap>> /\ step' = "loop"
      BY <1>2 DEF M3Record, M3Write, Leave, m5Files
    <2>1. CASE ttl' = ttl
      BY <1>0, <2>0, <2>1, AllElsewhere
    <2>2. CASE ttl' # ttl
      <3>1. /\ ttl' = [ttl EXCEPT ![r] = [at |-> Now, src |-> rdf[r].src, kind |-> rdf[r].kind]]
        BY <1>2, <2>2 DEF M3Record, M3Write
      <3>2. /\ ttl'[r].at = Now
            /\ \A q \in Ids \ {r} : ttl'[q] = ttl[q]
        BY <1>0, <3>1 DEF FileTypes
      <3>3. OfAll(corpus, r)' /\ OfAll(index, r)' /\ OfAll(idmap, r)'
        BY <2>0, <3>2, AtTyped DEF AllInv, OfAll, NotAhead
      <3>4. ASSUME NEW q \in Ids \ {r} PROVE OfAll(corpus, q)' /\ OfAll(index, q)' /\ OfAll(idmap, q)'
        BY <2>0, <3>2 DEF AllInv, OfAll
      <3> QED BY <1>0, <2>0, <3>3, <3>4, AheadKept DEF AllInv, Building
    <2> QED BY <2>1, <2>2
  <1>3. CASE M3Corpus
    <2>0. UNCHANGED <<ttl, index, idmap>> /\ step' = "report"
      BY <1>3 DEF M3Corpus, m5Files
    <2>1. CASE corpus' = corpus
      BY <1>0, <2>0, <2>1, AllElsewhere
    <2>2. CASE corpus' # corpus
      <3>1. corpus' = [at |-> Now, src |-> Sources(ttl)] /\ clock' = Now
        BY <1>3, <2>2 DEF M3Corpus
      <3>2. NotAhead(corpus)' /\ \A r \in Ids : OfAll(corpus, r)'
        BY <2>0, <3>1, AtTyped DEF NotAhead, OfAll, Sources
      <3> QED BY <1>0, <2>0, <3>2, AheadKept DEF AllInv, OfAll, Building
    <2> QED BY <2>1, <2>2
  <1> QED BY <1>1, <1>2, <1>3 DEF M3Step

LEMMA AllM5 ==
  ASSUME TypeOK, TypeOK', AllInv, M5Step
  PROVE  AllInv'
  <1>0. clock' >= clock
    BY ClockForward DEF Next, RunStep
  <1>1. CASE M5Begin
    <2>0. UNCHANGED <<ttl, corpus, index, idmap>>
      BY <1>1 DEF M5Begin, m3Files, m5Files
    <2>1. CASE step' = "index"
      <3>1. held' = Sources(ttl)
        BY <1>1, <2>1 DEF M5Begin, Aborted
      <3> QED BY <1>0, <2>0, <2>1, <3>1, AheadKept DEF AllInv, OfAll, Building, Sources
    <2>2. CASE step' # "index"
      BY <1>0, <1>1, <2>0, <2>2, AllElsewhere DEF M5Begin, Aborted
    <2> QED BY <2>1, <2>2
  <1>2. CASE M5Index
    <2>1. /\ UNCHANGED <<ttl, corpus, idmap, held>> /\ step = "index" /\ step' = "idmap" /\ clock' = Now
          /\ index' = [at |-> Now, src |-> held]
      BY <1>2 DEF M5Index, Running, m3Files
    <2>2. NotAhead(index)' /\ \A r \in Ids : OfAll(index, r)'
      BY <2>1, AtTyped DEF AllInv, Building, NotAhead, OfAll
    <2> QED BY <1>0, <2>1, <2>2, AheadKept DEF AllInv, OfAll, Building
  <1>3. CASE M5Idmap
    <2>1. /\ UNCHANGED <<ttl, corpus, index, held>> /\ step = "idmap" /\ step' = "query" /\ clock' = Now
          /\ idmap' = [at |-> Now, src |-> held]
      BY <1>3 DEF M5Idmap, Running, m3Files
    <2>2. NotAhead(idmap)' /\ \A r \in Ids : OfAll(idmap, r)'
      BY <2>1, AtTyped DEF AllInv, Building, NotAhead, OfAll
    <2> QED BY <1>0, <2>1, <2>2, AheadKept DEF AllInv, OfAll, Building
  <1>4. CASE M5Query
    BY <1>0, <1>4, AllElsewhere DEF M5Query, Completed, Aborted, m3Files
  <1> QED BY <1>1, <1>2, <1>3, <1>4 DEF M5Step

LEMMA AllOthers ==
  ASSUME TypeOK, TypeOK', AllInv,
         M2Step \/ M2PostStep \/ M6Judge \/ M8Step \/ M9Reconcile \/ Skosify \/ EndRun \/ Crash
           \/ \E p \in Plans : StartRun(p)
  PROVE  AllInv'
  <1>0. clock' >= clock
    BY ClockForward DEF Next, RunStep
  <1>1. UNCHANGED <<ttl, corpus, index, idmap>>
    BY DEF M2Step, M2PostStep, Enter, Listing, M2Record, M2Write, M2MapRow, M2End, M2PostRecord, M2PostEnd,
           M6Judge, M8Step, M8Load, M8Canonical, M8Companion, M9Reconcile, Skosify, EndRun, Crash, StartRun,
           m3Files, m5Files
  <1>2. step' \notin {"index", "idmap"}
    <2>1. CASE M2Step \/ M2PostStep
      BY <2>1 DEF M2Step, M2PostStep, Enter, Listing, M2Record, M2Write, M2MapRow, M2End, M2PostRecord, M2PostEnd,
                  Leave, Completed, Aborted
    <2>2. CASE M6Judge \/ M9Reconcile \/ Skosify
      BY <2>2 DEF M6Judge, M9Reconcile, Skosify, Completed, Aborted
    <2>3. CASE M8Step
      BY <2>3 DEF M8Step, M8Load, M8Canonical, M8Companion, Running, Completed, Aborted
    <2>4. CASE EndRun \/ Crash \/ \E p \in Plans : StartRun(p)
      BY <2>4 DEF EndRun, Crash, StartRun
    <2> QED BY <2>1, <2>2, <2>3, <2>4
  <1> QED BY <1>0, <1>1, <1>2, AllElsewhere

LEMMA AllCurrent ==
  ASSUME ~EditsDuringRuns
  PROVE  Spec => []AllInv
  <1>1. TypeOK /\ TypeOK' /\ AllInv /\ [Next]_vars => AllInv'
    <2> SUFFICES ASSUME TypeOK, TypeOK', AllInv, [Next]_vars PROVE AllInv'
      OBVIOUS
    <2>1. CASE UNCHANGED vars
      BY <2>1 DEF vars, inputs, m3Files, m5Files, proc, AllInv, OfAll, NotAhead, Building
    <2>2. CASE Next
      BY <2>2, AllEdits, AllM3, AllM5, AllOthers DEF Next, RunStep
    <2> QED BY <2>1, <2>2
  <1> QED BY TypeCorrect, AllFirst, <1>1, PTL DEF Spec

\* The skosified graph, where it is no older than the merged one.
SkosInv ==
  /\ NotAhead(canonical) /\ NotAhead(skosified)
  /\ canonical # None /\ Fresh(canonical, skosified) => skosified.src = canonical.src

LEMMA SkosStep == TypeOK /\ TypeOK' /\ SkosInv /\ [Next]_vars => SkosInv'
  <1> SUFFICES ASSUME TypeOK, TypeOK', SkosInv, [Next]_vars PROVE SkosInv'
    OBVIOUS
  <1>1. CASE UNCHANGED vars
    BY <1>1 DEF vars, inputs, m8Files, SkosInv, NotAhead, Fresh
  <1>2. CASE Next /\ UNCHANGED <<canonical, skosified>>
    BY <1>2, ClockForward, AheadKept DEF SkosInv, Fresh
  <1>3. ASSUME canonical' # None => canonical'.at = Now, clock' = Now, skosified' = skosified
        PROVE  SkosInv'
    <2>1. NotAhead(canonical)' /\ NotAhead(skosified)' /\ ~(canonical' # None /\ Fresh(canonical, skosified)')
      BY <1>3, AtTyped DEF SkosInv, NotAhead, Fresh
    <2> QED BY <2>1 DEF SkosInv
  <1>4. CASE M8Canonical
    BY <1>3, <1>4 DEF M8Canonical
  <1>5. CASE M9Reconcile
    <2>1. CASE canonical = None
      BY <1>2, <1>5, <2>1 DEF M9Reconcile, Next, RunStep
    <2>2. CASE canonical # None
      <3>1. canonical \in [at : Nat, merge : Nat, src : Versions, reconciled : BOOLEAN]
        BY <2>2 DEF TypeOK, OrNone
      <3> QED BY <1>3, <1>5, <2>2, <3>1 DEF M9Reconcile
    <2> QED BY <2>1, <2>2
  <1>6. CASE Skosify
    <2>1. CASE skosified' = skosified
      BY <1>2, <1>6, <2>1 DEF Skosify, m8Files, Next, RunStep
    <2>2. CASE skosified' # skosified
      <3>1. /\ skosified' = [at |-> Now, src |-> canonical.src, of |-> canonical.at]
            /\ clock' = Now /\ canonical' = canonical
        BY <1>6, <2>2 DEF Skosify, m8Files
      <3> QED BY <3>1, AtTyped DEF SkosInv, NotAhead, Fresh
    <2> QED BY <2>1, <2>2
  <1>7. CASE M2Step \/ M2PostStep \/ M3Step \/ M5Step \/ M6Judge
    BY <1>2, <1>7 DEF M2Step, M2PostStep, M3Step, M3Begin, Enter, Listing, M2Record, M2Write, M2MapRow, M2End, M2PostRecord,
         M2PostEnd, M3Record, M3Write, M3Corpus, M3End, M5Step, M5Begin, M5Index, M5Idmap, M5Query, M6Judge, m8Files,
         Next, RunStep
  <1>8. CASE M8Load \/ EndRun \/ Crash \/ \E p \in Plans : StartRun(p)
    BY <1>2, <1>8 DEF M8Load, EndRun, Crash, StartRun, m8Files, Next, RunStep, M8Step
  <1>9. ASSUME NEW f \in ToSet(Companions), M8Companion(f) PROVE SkosInv'
    BY <1>2, <1>9 DEF M8Companion, Next, RunStep, M8Step
  <1>10. ASSUME NEW r \in Ids, (\E k \in Kinds : PutRecord(r, k)) \/ RemoveRecord(r) \/ RemoveOutputs(r)
         PROVE  SkosInv'
    BY <1>2, <1>10 DEF PutRecord, RemoveRecord, RemoveOutputs, m8Files, Next
  <1> QED BY <1>1, <1>4, <1>5, <1>6, <1>7, <1>8, <1>9, <1>10 DEF Next, RunStep, M8Step

\* The modification times never vouch for an output of older content: what a
\* stage would skip as fresh was made from what it would read, whatever was
\* changed, killed, resumed or rebuilt before, M2-post's way excepted.
THEOREM FreshHolds ==
  ASSUME ~EditsDuringRuns
  PROVE  Spec => []FreshIsCurrent
  <1>1. Init => SkosInv
    BY DEF Init, SkosInv, NotAhead
  <1>2. TypeOK /\ RecordInv /\ AllInv /\ SkosInv => FreshIsCurrent
    <2> SUFFICES ASSUME TypeOK, RecordInv, AllInv, SkosInv PROVE FreshIsCurrent
      OBVIOUS
    <2>1. ASSUME NEW r \in Present(input), Fresh(input[r], rdf[r]), ~Redated(r)
          PROVE  rdf[r].src = input[r].at
      BY <2>1 DEF Present, Fresh, Redated, RecordInv, RecordCurrent
    <2>2. ASSUME NEW r \in Present(rdf), Fresh(rdf[r], ttl[r]) PROVE ttl[r].src = rdf[r].src
      BY <2>2 DEF Present, Fresh, RecordInv, RecordCurrent
    <2>3. ASSUME NEW r \in Present(ttl), CorpusFresh PROVE corpus.src[r] = ttl[r].src
      BY <2>3 DEF Present, CorpusFresh, AllInv, OfAll
    <2>4. ASSUME NEW r \in Present(ttl), IndexFresh
          PROVE  index.src[r] = ttl[r].src /\ idmap.src[r] = ttl[r].src
      BY <2>4 DEF Present, IndexFresh, AllInv, OfAll
    <2> QED BY <2>1, <2>2, <2>3, <2>4 DEF SkosInv, FreshIsCurrent
  <1> QED BY TypeCorrect, RecordsCurrent, AllCurrent, <1>1, SkosStep, <1>2, PTL DEF Spec

-----------------------------------------------------------------------------
(* What a run of every stage leaves behind.                                *)

\* A stage that is done comes before every one that is still to do.
Ordered ==
  /\ InOrder(todo)
  /\ \A s \in done, i \in DOMAIN todo : Before(s, todo[i])

LEMMA OrderedStep ==
  ASSUME TypeOK, Ordered, \A p \in Plans : InOrder(p.stages), [Next]_vars
  PROVE  Ordered'
  <1>1. ASSUME UNCHANGED <<todo, done>> PROVE Ordered'
    BY <1>1 DEF Ordered, InOrder
  <1>2. ASSUME todo' = <<>> PROVE Ordered'
    BY <1>2 DEF Ordered, InOrder
  <1>3. ASSUME todo # <<>>, Completed PROVE Ordered'
    <2>1. /\ todo' \in Seq(STRING) /\ Len(todo) > 0 /\ Len(todo') = Len(todo) - 1
          /\ \A i \in DOMAIN todo' : i + 1 \in DOMAIN todo /\ todo'[i] = todo[i + 1] /\ 1 < i + 1
          /\ Head(todo) = todo[1] /\ 1 \in DOMAIN todo /\ DOMAIN todo' \subseteq Nat
      BY <1>3 DEF Completed, TypeOK
    <2>2. InOrder(todo')
      BY <2>1 DEF Ordered, InOrder
    <2>3. ASSUME NEW s \in done', NEW i \in DOMAIN todo' PROVE Before(s, todo'[i])
      <3>1. i + 1 \in DOMAIN todo /\ todo'[i] = todo[i + 1] /\ 1 < i + 1
        BY <2>1
      <3>2. s \in done \/ s = todo[1]
        BY <1>3, <2>1 DEF Completed
      <3> QED BY <2>1, <3>1, <3>2 DEF Ordered, InOrder
    <2> QED BY <2>2, <2>3 DEF Ordered
  <1>4. CASE UNCHANGED vars
    BY <1>1, <1>4 DEF vars, proc
  <1>5. ASSUME NEW p \in Plans, StartRun(p) PROVE Ordered'
    BY <1>5 DEF StartRun, Ordered
  <1>6. CASE EndRun \/ Crash
    BY <1>1, <1>2, <1>6 DEF EndRun, Crash
  <1>7. CASE M2Step \/ M2PostStep \/ M3Step
    BY <1>1, <1>2, <1>3, <1>7 DEF M2Step, M2PostStep, M3Step, M3Begin, Enter, Listing, M2Record, M2Write, M2MapRow, M2End,
       M2PostRecord, M2PostEnd, M3Record, M3Write, M3Corpus, M3End, Running, Aborted
  <1>8. CASE M5Step \/ M6Judge \/ M8Step \/ M9Reconcile \/ Skosify
    BY <1>1, <1>2, <1>3, <1>8 DEF M5Step, M5Begin, M5Index, M5Idmap, M5Query, M6Judge, M8Step, M8Load,
       M8Canonical, M8Companion, M9Reconcile, Skosify, Running, Aborted
  <1>9. ASSUME NEW r \in Ids, (\E k \in Kinds : PutRecord(r, k)) \/ RemoveRecord(r) \/ RemoveOutputs(r)
        PROVE  Ordered'
    BY <1>1, <1>9 DEF PutRecord, RemoveRecord, RemoveOutputs, proc
  <1> QED BY <1>4, <1>5, <1>6, <1>7, <1>8, <1>9 DEF Next, RunStep

\* What cannot be done yet while a stage is on.
LEMMA Undone ==
  ASSUME TypeOK, Ordered, todo # <<>>
  PROVE  /\ Head(todo) = "m2" => {"m2", "m2-post", "m3", "m8", "skosify"} \cap done = {}
         /\ Head(todo) = "m2-post" => {"m2-post", "m3", "m8", "skosify"} \cap done = {}
         /\ Head(todo) = "m3" => {"m3", "m8", "skosify"} \cap done = {}
         /\ Head(todo) = "m8" => {"m8", "skosify"} \cap done = {}
         /\ Head(todo) = "skosify" => "skosify" \notin done
  <1>1. ASSUME NEW s \in done PROVE Before(s, Head(todo))
    BY DEF Ordered, TypeOK
  <1>2. /\ ~Before("m2", "m2") /\ ~Before("m2-post", "m2") /\ ~Before("m3", "m2")
        /\ ~Before("m8", "m2") /\ ~Before("skosify", "m2")
    BY DEF Before, CanonicalStages
  <1>3. /\ ~Before("m2-post", "m2-post") /\ ~Before("m3", "m2-post") /\ ~Before("m8", "m2-post")
        /\ ~Before("skosify", "m2-post")
    BY DEF Before, CanonicalStages
  <1>4. ~Before("m3", "m3") /\ ~Before("m8", "m3") /\ ~Before("skosify", "m3")
    BY DEF Before, CanonicalStages
  <1>5. ~Before("m8", "m8") /\ ~Before("skosify", "m8") /\ ~Before("skosify", "skosify")
    BY DEF Before, CanonicalStages
  <1> QED BY <1>1, <1>2, <1>3, <1>4, <1>5

-----------------------------------------------------------------------------
(* What m2 holds and what it has written.                                  *)

\* The record under conversion is there, and between its two writes the rdf
\* is of it.
InHand ==
  step \in {"write", "row"} =>
    \A r \in Ids : NextIn(Records, r) =>
      /\ input[r] # None /\ held = input[r]
      /\ step = "row" => rdf[r] # None /\ rdf[r].src = input[r].at

\* An rdf is of something written before, and of its kind.
KindKept(r) ==
  rdf[r] # None =>
    /\ rdf[r].src <= clock
    /\ input[r] # None /\ rdf[r].src = input[r].at => rdf[r].kind = input[r].kind

KindInv == InHand /\ \A r \in Ids : KindKept(r)

LEMMA KindFirst == Init => KindInv
  BY DEF Init, KindInv, InHand, KindKept

LEMMA KindElsewhere ==
  ASSUME TypeOK, TypeOK', KindInv, UNCHANGED <<input, rdf>>, clock' >= clock, step' \notin {"write", "row"}
  PROVE  KindInv'
  <1>1. ASSUME NEW r \in Ids PROVE KindKept(r)'
    <2>1. clock \in Nat /\ clock' \in Nat
      BY DEF TypeOK
    <2> QED BY <2>1, FilesTyped, TimesTyped DEF KindInv, KindKept
  <1> QED BY <1>1 DEF KindInv, InHand

\* A step that writes the files of one record.
LEMMA KindWritten ==
  ASSUME TypeOK, TypeOK', KindInv, clock' >= clock, NEW r \in Ids,
         \A q \in Ids \ {r} : input'[q] = input[q] /\ rdf'[q] = rdf[q],
         InHand', KindKept(r)'
  PROVE  KindInv'
  <1>1. ASSUME NEW q \in Ids \ {r} PROVE KindKept(q)'
    <2>1. clock \in Nat /\ clock' \in Nat /\ input'[q] = input[q] /\ rdf'[q] = rdf[q]
      BY DEF TypeOK
    <2> QED BY <2>1, FilesTyped, TimesTyped DEF KindInv, KindKept
  <1> QED BY <1>1 DEF KindInv

LEMMA KindEdits ==
  ASSUME TypeOK, TypeOK', KindInv, ~EditsDuringRuns, NEW r \in Ids,
         (\E k \in Kinds : PutRecord(r, k)) \/ RemoveRecord(r) \/ RemoveOutputs(r)
  PROVE  KindInv'
  <1>0. FileTypes /\ step' = "idle" /\ clock' >= clock /\ InHand'
    BY FilesTyped, ClockForward DEF Next, PutRecord, RemoveRecord, RemoveOutputs, MayEdit, proc, InHand
  <1>1. KindKept(r)
    BY DEF KindInv
  <1>2. ASSUME NEW k \in Kinds, PutRecord(r, k) PROVE KindInv'
    <2>1. /\ input' = [input EXCEPT ![r] = [at |-> Now, kind |-> k]] /\ clock' = Now /\ rdf' = rdf
      BY <1>2 DEF PutRecord, m2Files
    <2>2. input'[r].at = Now /\ \A q \in Ids \ {r} : input'[q] = input[q] /\ rdf'[q] = rdf[q]
      BY <1>0, <2>1 DEF FileTypes
    <2>3. KindKept(r)'
      BY <1>0, <1>1, <2>1, <2>2, TimesTyped DEF KindKept
    <2> QED BY <1>0, <2>2, <2>3, KindWritten
  <1>3. CASE RemoveRecord(r)
    <2>1. input' = [input EXCEPT ![r] = None] /\ clock' = clock /\ rdf' = rdf
      BY <1>3 DEF RemoveRecord, m2Files
    <2>2. input'[r] = None /\ \A q \in Ids \ {r} : input'[q] = input[q] /\ rdf'[q] = rdf[q]
      BY <1>0, <2>1 DEF FileTypes
    <2>3. KindKept(r)'
      BY <1>1, <2>1, <2>2 DEF KindKept
    <2> QED BY <1>0, <2>2, <2>3, KindWritten
  <1>4. CASE RemoveOutputs(r)
    <2>1. rdf' = [rdf EXCEPT ![r] = None] /\ input' = input
      BY <1>4 DEF RemoveOutputs
    <2>2. rdf'[r] = None /\ \A q \in Ids \ {r} : input'[q] = input[q] /\ rdf'[q] = rdf[q]
      BY <1>0, <2>1 DEF FileTypes
    <2> QED BY <1>0, <2>2, KindWritten DEF KindKept
  <1> QED BY <1>2, <1>3, <1>4

LEMMA KindM2 ==
  ASSUME TypeOK, TypeOK', KindInv, RecordInv, M2Step
  PROVE  KindInv'
  <1>0. FileTypes /\ clock' >= clock
    BY FilesTyped, ClockForward DEF Next, RunStep
  <1>1. CASE Enter("m2", input) \/ M2End
    BY <1>0, <1>1, KindElsewhere DEF Enter, Listing, M2End, Completed, Aborted, inputs, m2Files
  <1>2. ASSUME NEW r \in Ids, M2Record(r) PROVE KindInv'
    <2>1. UNCHANGED <<clock, input, rdf>>
      BY <1>2 DEF M2Record, inputs, m2Files
    <2>2. CASE step' = "loop"
      BY <1>0, <2>1, <2>2, KindElsewhere
    <2>3. CASE step' # "loop"
      <3>1. step' = "write" /\ NextIn(Records, r) /\ input[r] # None /\ held' = input[r] /\ left' = left
        BY <1>2, <2>3 DEF M2Record, Leave
      <3>2. ASSUME NEW q \in Ids, NextIn(Records, q)' PROVE q = r
        BY <3>1, <3>2, OneNext DEF NextIn
      <3> QED BY <2>1, <3>1, <3>2 DEF KindInv, InHand, KindKept
    <2> QED BY <2>2, <2>3
  <1>3. ASSUME NEW r \in Ids, M2Write(r) PROVE KindInv'
    <2>1. /\ rdf' = [rdf EXCEPT ![r] = [at |-> Now, src |-> held.at, kind |-> held.kind, tok |-> {}]]
          /\ clock' = Now /\ input' = input /\ step' = "row" /\ step = "write"
          /\ left' = left /\ held' = held /\ NextIn(Records, r)
      BY <1>3 DEF M2Write, Running
    <2>2. input[r] # None /\ held = input[r]
      BY <2>1 DEF KindInv, InHand
    <2>3. /\ rdf'[r] = [at |-> Now, src |-> input[r].at, kind |-> input[r].kind, tok |-> {}]
          /\ \A q \in Ids \ {r} : rdf'[q] = rdf[q]
      BY <1>0, <2>1, <2>2 DEF FileTypes
    <2>4. input[r].at \in Nat /\ input[r].at <= clock /\ input[r].kind \in Kinds
      BY <1>0, <2>2, TimesTyped DEF RecordInv, RecordClocked, FileTypes, OrNone
    <2>5. rdf'[r] # None
      <3>1. [at |-> Now, src |-> input[r].at, kind |-> input[r].kind, tok |-> {}]
               \in [at : Nat, src : Nat, kind : Kinds, tok : SUBSET Nat]
        BY <1>0, <2>4 DEF FileTypes
      <3> QED BY <2>3, <3>1, RunDirAssumption
    <2>6. InHand'
      <3>1. ASSUME NEW q \in Ids, NextIn(Records, q)' PROVE q = r
        BY <2>1, <3>1, OneNext DEF NextIn
      <3> QED BY <2>1, <2>2, <2>3, <2>5, <3>1 DEF InHand
    <2>7. KindKept(r)'
      BY <1>0, <2>1, <2>3, <2>4 DEF KindKept, FileTypes
    <2> QED BY <1>0, <2>1, <2>3, <2>6, <2>7, KindWritten
  <1>4. ASSUME NEW r \in Ids, M2MapRow(r) PROVE KindInv'
    BY <1>0, <1>4, KindElsewhere DEF M2MapRow, Leave, inputs
  <1> QED BY <1>1, <1>2, <1>3, <1>4 DEF M2Step

LEMMA KindM2Post ==
  ASSUME TypeOK, TypeOK', Listed, KindInv, M2PostStep
  PROVE  KindInv'
  <1>0. FileTypes /\ clock' >= clock
    BY FilesTyped, ClockForward DEF Next, RunStep
  <1>1. CASE Enter("m2-post", rdf) \/ M2PostEnd
    BY <1>0, <1>1, KindElsewhere DEF Enter, Listing, M2PostEnd, Completed, inputs, m2Files
  <1>2. ASSUME NEW r \in Ids, M2PostRecord(r) PROVE KindInv'
    <2>0. input' = input /\ step' = "loop" /\ InHand'
      BY <1>2 DEF M2PostRecord, Leave, InHand
    <2>1. CASE rdf' = rdf
      BY <1>0, <2>0, <2>1, KindElsewhere
    <2>2. CASE rdf' # rdf
      <3>1. rdf' = [rdf EXCEPT ![r] = [rdf[r] EXCEPT !.at = Now, !.tok = @ \cup {input[r].at}]]
        BY <1>2, <2>2 DEF M2PostRecord
      <3>2. rdf[r] \in [at : Nat, src : Nat, kind : Kinds, tok : SUBSET Nat] /\ rdf[r] # None
        BY <1>2 DEF M2PostRecord, Running, NextIn, TypeOK, Listed, OrNone
      <3>3. /\ rdf'[r].src = rdf[r].src /\ rdf'[r].kind = rdf[r].kind
            /\ \A q \in Ids \ {r} : rdf'[q] = rdf[q]
        BY <1>0, <3>1, <3>2 DEF FileTypes
      <3>4. KindKept(r)'
        <4>1. clock \in Nat /\ clock' \in Nat /\ rdf[r].src \in Nat /\ KindKept(r)
          BY <3>2 DEF TypeOK, KindInv
        <4> QED BY <1>0, <2>0, <3>2, <3>3, <4>1 DEF KindKept
      <3> QED BY <1>0, <2>0, <3>3, <3>4, KindWritten
    <2> QED BY <2>1, <2>2
  <1> QED BY <1>1, <1>2 DEF M2PostStep

LEMMA KindLater ==
  ASSUME TypeOK, TypeOK', KindInv,
         M3Step \/ M5Step \/ M6Judge \/ M8Step \/ M9Reconcile \/ Skosify \/ EndRun \/ Crash
           \/ \E p \in Plans : StartRun(p)
  PROVE  KindInv'
  <1>0. clock' >= clock
    BY ClockForward DEF Next, RunStep
  <1>1. UNCHANGED <<input, rdf>>
    BY DEF M3Step, M3Begin, Listing, M3Record, M3Write, M3Corpus, M3End, M5Step, M5Begin, M5Index, M5Idmap, M5Query, M6Judge,
           M8Step, M8Load, M8Canonical, M8Companion, M9Reconcile, Skosify, EndRun, Crash, StartRun, inputs, m2Files
  <1>2. step' \notin {"write", "row"}
    <2>1. CASE M3Step \/ M5Step \/ M6Judge \/ M9Reconcile \/ Skosify
      BY <2>1 DEF M3Step, M3Begin, Listing, M3Record, M3Write, M3Corpus, M3End, Leave, M5Step, M5Begin, M5Index, M5Idmap,
                  M5Query, M6Judge, M9Reconcile, Skosify, Completed, Aborted
    <2>2. CASE M8Step
      BY <2>2 DEF M8Step, M8Load, M8Canonical, M8Companion, Running, Completed, Aborted
    <2>3. CASE EndRun \/ Crash \/ \E p \in Plans : StartRun(p)
      BY <2>3 DEF EndRun, Crash, StartRun
    <2> QED BY <2>1, <2>2, <2>3
  <1> QED BY <1>0, <1>1, <1>2, KindElsewhere

LEMMA KindsKept ==
  ASSUME ~EditsDuringRuns
  PROVE  Spec => []KindInv
  <1>1. TypeOK /\ TypeOK' /\ Listed /\ RecordInv /\ KindInv /\ [Next]_vars => KindInv'
    <2> SUFFICES ASSUME TypeOK, TypeOK', Listed, RecordInv, KindInv, [Next]_vars PROVE KindInv'
      OBVIOUS
    <2>1. CASE UNCHANGED vars
      BY <2>1 DEF vars, inputs, m2Files, proc, KindInv, InHand, KindKept, NextIn
    <2>2. CASE Next
      BY <2>2, KindEdits, KindM2, KindM2Post, KindLater DEF Next, RunStep
    <2> QED BY <2>1, <2>2
  <1> QED BY TypesAndListed, RecordsCurrent, KindFirst, <1>1, PTL DEF Spec

-----------------------------------------------------------------------------
(* How far a run has come, record by record.                               *)

\* A record that every stage has to carry to the end.
Valid(r) == input[r] # None /\ Convertible(input[r].kind)

\* The stage is done, or its loop has passed the record.
Dealt(stage, r) ==
  stage \in done \/ (todo # <<>> /\ Head(todo) = stage /\ step # "next" /\ r \notin left)

Converted(r) ==
  Dealt("m2", r) => rdf[r] # None /\ (rdf[r].src = input[r].at \/ input[r].at \in rdf[r].tok)

\* What m2-post has written is newer than the ttl, until m3 comes to it.
TokensAhead(r) ==
  Dealt("m2-post", r) /\ ~Dealt("m3", r) /\ rdf[r] # None => ttl[r] = None \/ ttl[r].at < rdf[r].at

Transformed(r) ==
  {"m2", "m2-post"} \subseteq done /\ Dealt("m3", r) /\ r \notin errored =>
    /\ ttl[r] # None /\ ttl[r].src = rdf[r].src
    /\ ~Conforms(rdf[r].kind) => r \in (IF "m3" \in done THEN validationTsv ELSE rows)

Carried ==
  /\ step = "report" => left = {}
  /\ step # "idle" => \A r \in Ids : Valid(r) => Converted(r) /\ TokensAhead(r) /\ Transformed(r)

LEMMA CarriedAtRest == step' = "idle" => Carried'
  BY DEF Carried

LEMMA CarriedAtStart ==
  ASSUME NEW p \in Plans, StartRun(p)
  PROVE  Carried'
  BY DEF StartRun, Carried, Converted, TokensAhead, Transformed, Dealt

\* Away from the three stages that write rdf and ttl.
LEMMA CarriedLater ==
  ASSUME TypeOK, Carried,
         M5Step \/ M6Judge \/ M8Step \/ M9Reconcile \/ Skosify
  PROVE  Carried'
  <1>1. UNCHANGED <<input, rdf, ttl, validationTsv, errored>>
    BY DEF M5Step, M5Begin, M5Index, M5Idmap, M5Query, M6Judge, M8Step, M8Load, M8Canonical, M8Companion,
           M9Reconcile, Skosify, inputs, m2Files, m3Files
  <1>2. /\ todo # <<>> /\ Head(todo) \in {"m5", "m6", "m8", "m9", "skosify"}
        /\ step # "idle" /\ step' # "report"
        /\ Aborted \/ (Completed /\ step' = "next") \/ UNCHANGED <<todo, done>>
    <2>1. CASE M5Step \/ M6Judge \/ M9Reconcile \/ Skosify
      BY <2>1 DEF M5Step, M5Begin, M5Index, M5Idmap, M5Query, M6Judge, M9Reconcile, Skosify, Running,
                  Completed, Aborted
    <2>2. CASE M8Step
      BY <2>2 DEF M8Step, M8Load, M8Canonical, M8Companion, Running, Completed, Aborted
    <2> QED BY <2>1, <2>2
  <1>3. CASE Aborted
    BY <1>3, CarriedAtRest DEF Aborted
  <1>4. CASE (Completed /\ step' = "next") \/ UNCHANGED <<todo, done>>
    <2>1. ASSUME NEW s \in {"m2", "m2-post", "m3"}
          PROVE  /\ s \in done' <=> s \in done
                 /\ \A r \in Ids : (Dealt(s, r) <=> s \in done) /\ (Dealt(s, r)' <=> s \in done)
      BY <1>2, <1>4 DEF Dealt, Completed
    <2>2. ASSUME NEW r \in Ids, Valid(r)'
          PROVE  Converted(r)' /\ TokensAhead(r)' /\ Transformed(r)'
      <3>1. Valid(r) /\ Converted(r) /\ TokensAhead(r) /\ Transformed(r)
        BY <1>1, <1>2, <2>2 DEF Carried, Valid
      <3> QED BY <1>1, <2>1, <3>1 DEF Converted, TokensAhead, Transformed
    <2> QED BY <1>2, <2>2 DEF Carried
  <1> QED BY <1>2, <1>3, <1>4

\* The loop of a stage, of which none that follows is done.
LEMMA DealtM2 ==
  ASSUME TypeOK, Ordered, todo # <<>>, Head(todo) = "m2", UNCHANGED <<todo, done>>, NEW r \in Ids
  PROVE  /\ Dealt("m2", r) <=> step # "next" /\ r \notin left
         /\ Dealt("m2", r)' <=> step' # "next" /\ r \notin left'
         /\ ~Dealt("m2-post", r)' /\ ~Dealt("m3", r)' /\ "m2" \notin done'
  BY Undone DEF Dealt

LEMMA CarriedM2 ==
  ASSUME TypeOK, TypeOK', Ordered, RecordInv, KindInv, Carried, M2Step
  PROVE  Carried'
  <1>0. todo # <<>> /\ Head(todo) = "m2" /\ input' = input /\ step # "idle" /\ step' # "report" /\ FileTypes
    BY FilesTyped DEF M2Step, Enter, Listing, M2Record, M2Write, M2MapRow, M2End, Running, Leave, Completed, Aborted, inputs
  <1>1. ASSUME UNCHANGED <<todo, done>>,
               \A r \in Ids : Valid(r) /\ step' # "next" /\ r \notin left' =>
                 rdf'[r] # None /\ (rdf'[r].src = input[r].at \/ input[r].at \in rdf'[r].tok)
        PROVE  Carried'
    BY <1>0, <1>1, DealtM2 DEF Carried, Valid, Converted, TokensAhead, Transformed
  <1>2. CASE Enter("m2", input)
    BY <1>1, <1>2 DEF Enter, Listing, Present, Valid
  <1>3. ASSUME NEW q \in Ids, M2Record(q) PROVE Carried'
    <2>1. UNCHANGED <<todo, done, rdf>> /\ step = "loop" /\ left' \in {left, left \ {q}}
      BY <1>3 DEF M2Record, Leave, m2Files, Running
    <2>2. ASSUME NEW r \in Ids, Valid(r), r \notin left'
          PROVE  rdf[r] # None /\ (rdf[r].src = input[r].at \/ input[r].at \in rdf[r].tok)
      <3>1. CASE r \notin left
        BY <1>0, <2>1, <2>2, <3>1, DealtM2 DEF Carried, Converted
      <3>2. CASE r \in left
        <4>1. r = q /\ Fresh(input[r], rdf[r])
          BY <1>3, <2>1, <2>2, <3>2 DEF M2Record, Leave, Valid
        <4> QED BY <4>1, <2>2 DEF Fresh, Valid, RecordInv, RecordCurrent
      <3> QED BY <3>1, <3>2
    <2> QED BY <1>1, <2>1, <2>2
  <1>4. ASSUME NEW q \in Ids, M2Write(q) PROVE Carried'
    <2>1. /\ UNCHANGED <<todo, done, left>> /\ step = "write" /\ q \in left
          /\ \A r \in Ids \ {q} : rdf'[r] = rdf[r]
      BY <1>0, <1>4 DEF M2Write, Running, NextIn, FileTypes
    <2> QED BY <1>0, <1>1, <2>1, DealtM2 DEF Carried, Converted
  <1>5. ASSUME NEW q \in Ids, M2MapRow(q) PROVE Carried'
    <2>1. UNCHANGED <<todo, done, rdf>> /\ left' = left \ {q} /\ step = "row" /\ NextIn(Records, q)
      BY <1>5 DEF M2MapRow, Leave, Running
    <2>2. rdf[q] # None /\ rdf[q].src = input[q].at
      BY <2>1 DEF KindInv, InHand
    <2> QED BY <1>0, <1>1, <2>1, <2>2, DealtM2 DEF Carried, Converted
  <1>6. CASE M2End
    <2>1. left = {} /\ step = "loop" /\ UNCHANGED <<rdf, ttl>>
      BY <1>6 DEF M2End, Running, m3Files
    <2>2. CASE Aborted
      BY <2>2, CarriedAtRest DEF Aborted
    <2>3. CASE Completed
      <3>1. step' = "next" /\ done' = done \cup {"m2"}
        BY <1>0, <2>3 DEF Completed
      <3>2. {"m2-post", "m3"} \cap done' = {}
        BY <1>0, <3>1, Undone
      <3>3. ASSUME NEW r \in Ids, Valid(r) PROVE rdf[r] # None /\ (rdf[r].src = input[r].at \/ input[r].at \in rdf[r].tok)
        BY <1>0, <2>1, <3>3 DEF Carried, Converted, Dealt
      <3> QED BY <1>0, <2>1, <3>1, <3>2, <3>3 DEF Carried, Valid, Converted, TokensAhead, Transformed, Dealt
    <2> QED BY <1>6, <2>2, <2>3 DEF M2End
  <1> QED BY <1>2, <1>3, <1>4, <1>5, <1>6 DEF M2Step

LEMMA CarriedM2Post ==
  ASSUME TypeOK, TypeOK', Listed, Ordered, RecordInv, Carried, M2PostStep
  PROVE  Carried'
  <1>0. /\ todo # <<>> /\ Head(todo) = "m2-post" /\ input' = input /\ ttl' = ttl
        /\ step # "idle" /\ step' # "report" /\ FileTypes
        /\ {"m2-post", "m3"} \cap done = {}
    BY FilesTyped, Undone DEF M2PostStep, Enter, Listing, M2PostRecord, M2PostEnd, Running, Leave, Completed, inputs, m3Files
  <1>1. CASE Enter("m2-post", rdf)
    <2>1. UNCHANGED <<todo, done, rdf>> /\ step' = "loop" /\ left' = Present(rdf)
      BY <1>1 DEF Enter, Listing, m2Files
    <2> QED BY <1>0, <2>1 DEF Carried, Valid, Converted, TokensAhead, Transformed, Dealt, Present
  <1>2. ASSUME NEW q \in Ids, M2PostRecord(q) PROVE Carried'
    <2>1. UNCHANGED <<todo, done>> /\ left' = left \ {q} /\ step = "loop" /\ step' = "loop" /\ q \in left
      BY <1>2 DEF M2PostRecord, Leave, Running, NextIn
    <2>2. rdf[q] \in [at : Nat, src : Nat, kind : Kinds, tok : SUBSET Nat]
      BY <1>0, <2>1 DEF TypeOK, Listed, OrNone
    <2> DEFINE Tokens == rdf' = [rdf EXCEPT ![q] = [rdf[q] EXCEPT !.at = Now, !.tok = @ \cup {input[q].at}]]
    <2>3. \/ rdf' = rdf /\ ~Valid(q)
          \/ input[q] # None /\ Tokens
      BY <1>2 DEF M2PostRecord, Valid
    <2>4. ASSUME input[q] # None, Tokens
          PROVE  /\ rdf'[q].src = rdf[q].src /\ rdf'[q].at = Now /\ rdf[q].tok \subseteq rdf'[q].tok
                 /\ rdf'[q] # None
      <3>1. rdf'[q] = [rdf[q] EXCEPT !.at = Now, !.tok = @ \cup {input[q].at}]
        BY <1>0, <2>3, <2>4 DEF FileTypes
      <3>2. input[q].at \in Nat
        BY <1>0, <2>4, TimesTyped
      <3>3. rdf'[q] \in [at : Nat, src : Nat, kind : Kinds, tok : SUBSET Nat]
        BY <1>0, <2>2, <3>1, <3>2 DEF FileTypes
      <3>4. rdf'[q].src = rdf[q].src /\ rdf'[q].at = Now /\ rdf'[q].tok = rdf[q].tok \cup {input[q].at}
        BY ONLY <2>2, <3>1
      <3>5. rdf'[q] # None
        BY ONLY <3>3, RunDirAssumption
      <3> QED BY ONLY <3>4, <3>5
    <2>5. ASSUME NEW r \in Ids, r # q PROVE rdf'[r] = rdf[r]
      BY <1>0, <2>3, <2>5 DEF FileTypes
    <2>6. ASSUME NEW r \in Ids, Valid(r)' PROVE Converted(r)' /\ TokensAhead(r)' /\ Transformed(r)'
      <3>1. Valid(r) /\ Converted(r) /\ TokensAhead(r)
        BY <1>0, <2>6 DEF Carried, Valid
      <3>2. Transformed(r)'
        BY <1>0, <2>1 DEF Transformed
      <3>3. Converted(r)'
        BY <1>0, <2>1, <2>3, <2>4, <2>5, <3>1 DEF Converted, Dealt, Valid
      <3>4. TokensAhead(r)'
        <4>1. CASE r = q
          BY <1>0, <2>3, <2>4, <3>1, <4>1, TimesTyped DEF TokensAhead, RecordInv, RecordClocked, Valid
        <4>2. CASE r # q
          BY <1>0, <2>1, <2>5, <3>1, <4>2 DEF TokensAhead, Dealt
        <4> QED BY <4>1, <4>2
      <3> QED BY <3>2, <3>3, <3>4
    <2> QED BY <1>0, <2>6 DEF Carried
  <1>3. CASE M2PostEnd
    <2>1. left = {} /\ step = "loop" /\ rdf' = rdf /\ step' = "next" /\ done' = done \cup {"m2-post"}
      BY <1>0, <1>3 DEF M2PostEnd, Running, m2Files, Completed
    <2> QED BY <1>0, <2>1 DEF Carried, Valid, Converted, TokensAhead, Transformed, Dealt
  <1> QED BY <1>1, <1>2, <1>3 DEF M2PostStep

LEMMA CarriedM3 ==
  ASSUME TypeOK, TypeOK', Listed, Ordered, Carried, M3Step
  PROVE  Carried'
  <1>0. /\ todo # <<>> /\ Head(todo) = "m3" /\ input' = input /\ rdf' = rdf
        /\ step # "idle" /\ FileTypes /\ "m3" \notin done
    BY FilesTyped, Undone DEF M3Step, M3Begin, Listing, M3Record, M3Write, M3Corpus, M3End, Running, inputs, m2Files
  <1>1. CASE M3Begin
    <2>1. UNCHANGED <<todo, done, ttl>> /\ step = "next" /\ step' = "loop" /\ left' = Present(rdf)
      BY <1>1 DEF M3Begin, Listing, m3Files, Running
    <2> QED BY <1>0, <2>1 DEF Carried, Valid, Converted, TokensAhead, Transformed, Dealt, Present
  <1>2. ASSUME NEW q \in Ids, M3Record(q) PROVE Carried'
    <2>1. UNCHANGED <<todo, done>> /\ left' = left \ {q} /\ step = "loop" /\ step' = "loop" /\ q \in left
      BY <1>2 DEF M3Record, M3Write, Leave, Running, NextIn
    <2>2. rdf[q] # None
      BY <1>0, <2>1 DEF Listed
    <2>3. ASSUME NEW r \in Ids, r # q
          PROVE  ttl'[r] = ttl[r] /\ (r \in rows => r \in rows') /\ (r \in errored => r \in errored')
      BY <1>0, <1>2, <2>3 DEF M3Record, M3Write, FileTypes
    <2>4. \/ ttl[q] # None /\ ttl[q].at >= rdf[q].at
          \/ q \in errored'
          \/ /\ ttl'[q] = [at |-> Now, src |-> rdf[q].src, kind |-> rdf[q].kind]
             /\ ~Conforms(rdf[q].kind) => q \in rows'
      BY <1>0, <1>2 DEF M3Record, M3Write, FileTypes, Fresh
    <2>5. ASSUME NEW r \in Ids, Valid(r)' PROVE Converted(r)' /\ TokensAhead(r)' /\ Transformed(r)'
      <3>1. Valid(r) /\ Converted(r) /\ TokensAhead(r) /\ Transformed(r)
        BY <1>0, <2>5 DEF Carried, Valid
      <3>2. Converted(r)'
        BY <1>0, <2>1, <3>1 DEF Converted, Dealt
      <3>3. TokensAhead(r)'
        BY <1>0, <2>1, <2>3, <3>1 DEF TokensAhead, Dealt
      <3>4. Transformed(r)'
        <4>1. CASE r # q
          BY <1>0, <2>1, <2>3, <3>1, <4>1 DEF Transformed, Dealt
        <4>2. CASE r = q /\ "m2-post" \in done
          <5>1. ttl[q] = None \/ ttl[q].at < rdf[q].at
            BY <1>0, <2>1, <2>2, <3>1, <4>2 DEF TokensAhead, Dealt
          <5>2. CASE q \in errored'
            BY <4>2, <5>2 DEF Transformed
          <5>3. CASE q \notin errored'
            <6>1. /\ ttl'[q] = [at |-> Now, src |-> rdf[q].src, kind |-> rdf[q].kind]
                  /\ ~Conforms(rdf[q].kind) => q \in rows'
              BY <1>0, <2>2, <2>4, <5>1, <5>3, TimesTyped
            <6>2. ttl'[q] \in [at : Nat, src : Nat, kind : Kinds]
              BY <1>0, <2>2, <6>1 DEF FileTypes, OrNone
            <6> QED BY <1>0, <2>1, <4>2, <6>1, <6>2, RunDirAssumption DEF Transformed
          <5> QED BY <5>2, <5>3
        <4>3. CASE "m2-post" \notin done
          BY <2>1, <4>3 DEF Transformed
        <4> QED BY <4>1, <4>2, <4>3
      <3> QED BY <3>2, <3>3, <3>4
    <2> QED BY <1>0, <2>1, <2>5 DEF Carried
  <1>3. CASE M3Corpus
    <2>1. /\ UNCHANGED <<todo, done, ttl, rows, errored, left>>
          /\ left = {} /\ step = "loop" /\ step' = "report"
      BY <1>3 DEF M3Corpus, Running
    <2> QED BY <1>0, <2>1 DEF Carried, Valid, Converted, TokensAhead, Transformed, Dealt
  <1>4. CASE M3End
    <2>1. CASE Aborted
      BY <2>1, CarriedAtRest DEF Aborted
    <2>2. CASE ~Aborted
      <3>1. /\ left = {} /\ step = "report" /\ UNCHANGED <<ttl, errored>>
            /\ step' = "next" /\ done' = done \cup {"m3"} /\ validationTsv' = rows
        BY <1>0, <1>4, <2>2 DEF M3End, Running, Completed, Carried
      <3> QED BY <1>0, <3>1 DEF Carried, Valid, Converted, TokensAhead, Transformed, Dealt
    <2> QED BY <2>1, <2>2
  <1> QED BY <1>1, <1>2, <1>3, <1>4 DEF M3Step

LEMMA CarriedEdits ==
  ASSUME Carried, ~EditsDuringRuns, NEW r \in Ids,
         (\E k \in Kinds : PutRecord(r, k)) \/ RemoveRecord(r) \/ RemoveOutputs(r)
  PROVE  Carried'
  BY CarriedAtRest DEF PutRecord, RemoveRecord, RemoveOutputs, MayEdit, proc

LEMMA CarriedStep ==
  ASSUME TypeOK, TypeOK', Listed, Ordered, RecordInv, KindInv, Carried, ~EditsDuringRuns, [Next]_vars
  PROVE  Carried'
  <1>1. CASE UNCHANGED vars
    BY <1>1 DEF vars, inputs, m2Files, m3Files, proc, Carried, Valid, Converted, TokensAhead, Transformed, Dealt
  <1>2. CASE EndRun \/ Crash
    BY <1>2, CarriedAtRest DEF EndRun, Crash
  <1>3. CASE Next
    BY <1>2, <1>3, CarriedAtStart, CarriedLater, CarriedM2, CarriedM2Post, CarriedM3, CarriedEdits DEF Next, RunStep
  <1> QED BY <1>1, <1>3

-----------------------------------------------------------------------------
(* The merged and the skosified graph of such a run.                       *)

Merged(r) ==
  {"m2", "m2-post", "m3"} \subseteq done =>
    /\ step \in {"canonical", "companions"} /\ ttl[r] # None => held.src[r] = ttl[r].src
    /\ step = "companions" \/ "m8" \in done =>
         canonical # None /\ (ttl[r] # None => canonical.src[r] = ttl[r].src)

Skosified ==
  {"m8", "skosify"} \subseteq done => canonical # None /\ skosified # None /\ skosified.src = canonical.src

Finished == step # "idle" => Skosified /\ \A r \in Ids : Valid(r) => Merged(r)

LEMMA FinishedAtRest == step' = "idle" => Finished'
  BY DEF Finished

LEMMA FinishedAtStart ==
  ASSUME NEW p \in Plans, StartRun(p)
  PROVE  Finished'
  BY DEF StartRun, Finished, Skosified, Merged

\* The stages before the merge.
LEMMA FinishedEarly ==
  ASSUME TypeOK, Ordered, Finished, M2Step \/ M2PostStep \/ M3Step
  PROVE  Finished'
  <1>1. UNCHANGED <<input, canonical, skosified>>
    BY DEF M2Step, M2PostStep, M3Step, M3Begin, Enter, Listing, M2Record, M2Write, M2MapRow, M2End, M2PostRecord, M2PostEnd,
           M3Record, M3Write, M3Corpus, M3End, inputs, m8Files
  <1>2. /\ todo # <<>> /\ Head(todo) \in {"m2", "m2-post", "m3"}
        /\ step # "idle" /\ step' \notin {"canonical", "companions"}
        /\ step' = "idle" \/ done' \in {done, done \cup {Head(todo)}}
    BY DEF M2Step, M2PostStep, M3Step, M3Begin, Enter, Listing, M2Record, M2Write, M2MapRow, M2End, M2PostRecord, M2PostEnd,
           M3Record, M3Write, M3Corpus, M3End, Leave, Running, Completed, Aborted
  <1>3. step' = "idle" \/ "m8" \notin done'
    BY <1>2, Undone
  <1> QED BY <1>2, <1>3, FinishedAtRest DEF Finished, Skosified, Merged

LEMMA FinishedJudging ==
  ASSUME TypeOK, Finished, M5Step \/ M6Judge
  PROVE  Finished'
  <1>1. UNCHANGED <<input, ttl, canonical, skosified>>
    BY DEF M5Step, M5Begin, M5Index, M5Idmap, M5Query, M6Judge, inputs, m3Files, m8Files
  <1>2. /\ todo # <<>> /\ Head(todo) \in {"m5", "m6"}
        /\ step # "idle" /\ step' \notin {"canonical", "companions"}
        /\ step' = "idle" \/ done' \in {done, done \cup {Head(todo)}}
    BY DEF M5Step, M5Begin, M5Index, M5Idmap, M5Query, M6Judge, Running, Completed, Aborted
  <1> QED BY <1>1, <1>2, FinishedAtRest DEF Finished, Skosified, Merged, Valid

LEMMA FinishedM8 ==
  ASSUME TypeOK, Ordered, AllInv, Finished, M8Step
  PROVE  Finished'
  <1>0. /\ todo # <<>> /\ Head(todo) = "m8" /\ UNCHANGED <<input, rdf, ttl>> /\ step # "idle"
        /\ {"m8", "skosify"} \cap done = {}
    BY Undone DEF M8Step, M8Load, M8Canonical, M8Companion, Running, inputs, m2Files, m3Files
  <1>1. CASE M8Load
    <2>1. CASE Aborted
      BY <2>1, FinishedAtRest DEF Aborted
    <2>2. CASE ~Aborted
      <3>1. /\ held' = [src |-> IF CorpusFresh THEN corpus.src ELSE Sources(ttl), merge |-> Now]
            /\ step' = "canonical" /\ done' = done
        BY <1>1, <2>2 DEF M8Load
      <3>2. ASSUME NEW r \in Ids, ttl[r] # None
            PROVE  held'.src[r] = ttl[r].src
        <4>1. CASE CorpusFresh
          BY <3>1, <3>2, <4>1 DEF CorpusFresh, Present, AllInv, OfAll
        <4>2. CASE ~CorpusFresh
          BY <3>1, <3>2, <4>2 DEF Sources
        <4> QED BY <4>1, <4>2
      <3> QED BY <1>0, <3>1, <3>2 DEF Finished, Skosified, Merged, Valid
    <2> QED BY <2>1, <2>2
  <1>2. CASE M8Canonical
    <2>1. /\ canonical' = [at |-> Now, merge |-> held.merge, src |-> held.src, reconciled |-> FALSE]
          /\ step = "canonical" /\ step' = "companions" /\ UNCHANGED <<done, held>>
      BY <1>2 DEF M8Canonical, Running
    <2>2. canonical' # None
      <3>1. held.src \in [ToSet(Records) -> Nat] /\ held.merge \in Nat /\ Now \in Nat
        BY <2>1 DEF TypeOK, HeldOK, Versions, Ids, Now
      <3>2. canonical' \in [at : Nat, merge : Nat, src : [ToSet(Records) -> Nat], reconciled : BOOLEAN]
        BY <2>1, <3>1
      <3> QED BY <3>2, RunDirAssumption
    <2> QED BY <1>0, <2>1, <2>2 DEF Finished, Skosified, Merged, Valid
  <1>3. ASSUME NEW f \in ToSet(Companions), M8Companion(f) PROVE Finished'
    <2>1. /\ canonical' = canonical /\ step = "companions"
          /\ done' = done \/ (done' = done \cup {"m8"} /\ step' = "next")
          /\ step' \in {"companions", "next"} /\ (step' = "companions" => held' = held)
      BY <1>0, <1>3 DEF M8Companion, Running, Completed
    <2> QED BY <1>0, <2>1 DEF Finished, Skosified, Merged, Valid
  <1> QED BY <1>1, <1>2, <1>3 DEF M8Step

LEMMA FinishedM9 ==
  ASSUME TypeOK, Finished, M9Reconcile
  PROVE  Finished'
  <1>1. CASE Aborted
    BY <1>1, FinishedAtRest DEF Aborted
  <1>2. CASE ~Aborted
    <2>1. /\ todo # <<>> /\ Head(todo) = "m9" /\ UNCHANGED <<input, ttl, skosified>>
          /\ canonical # None /\ step = "next" /\ step' = "next" /\ done' = done \cup {"m9"}
          /\ canonical' = [canonical EXCEPT !.at = Now, !.reconciled = TRUE]
      BY <1>2 DEF M9Reconcile, Running, Completed, inputs, m3Files
    <2>2. canonical \in [at : Nat, merge : Nat, src : Versions, reconciled : BOOLEAN] /\ Now \in Nat
      BY <2>1 DEF TypeOK, OrNone, Now
    <2>3. canonical'.src = canonical.src /\ canonical' \in [at : Nat, merge : Nat, src : Versions, reconciled : BOOLEAN]
      BY <2>1, <2>2
    <2>4. canonical' # None
      BY <2>3, RunDirAssumption DEF Versions, Ids
    <2> QED BY <2>1, <2>3, <2>4 DEF Finished, Skosified, Merged, Valid
  <1> QED BY <1>1, <1>2

LEMMA FinishedSkosify ==
  ASSUME TypeOK, SkosInv, Finished, Skosify
  PROVE  Finished'
  <1>1. CASE Aborted
    BY <1>1, FinishedAtRest DEF Aborted
  <1>2. CASE ~Aborted
    <2>1. /\ todo # <<>> /\ Head(todo) = "skosify" /\ UNCHANGED <<input, ttl, canonical>>
          /\ canonical # None /\ step = "next" /\ step' = "next" /\ done' = done \cup {"skosify"}
          /\ \/ Fresh(canonical, skosified) /\ skosified' = skosified
             \/ skosified' = [at |-> Now, src |-> canonical.src, of |-> canonical.at]
      BY <1>2 DEF Skosify, Running, Completed, inputs, m3Files, m8Files
    <2>2. skosified' # None /\ skosified'.src = canonical.src
      <3>1. CASE Fresh(canonical, skosified) /\ skosified' = skosified
        BY <2>1, <3>1 DEF Fresh, SkosInv
      <3>2. CASE skosified' = [at |-> Now, src |-> canonical.src, of |-> canonical.at]
        <4>1. canonical.at \in Nat /\ canonical.src \in [ToSet(Records) -> Nat] /\ Now \in Nat
          BY <2>1 DEF TypeOK, OrNone, Versions, Ids, Now
        <4>2. skosified' \in [at : Nat, src : [ToSet(Records) -> Nat], of : Nat]
          BY <3>2, <4>1
        <4> QED BY <3>2, <4>2, RunDirAssumption
      <3> QED BY <2>1, <3>1, <3>2
    <2> QED BY <2>1, <2>2 DEF Finished, Skosified, Merged, Valid
  <1> QED BY <1>1, <1>2

LEMMA FinishedEdits ==
  ASSUME ~EditsDuringRuns, NEW r \in Ids,
         (\E k \in Kinds : PutRecord(r, k)) \/ RemoveRecord(r) \/ RemoveOutputs(r)
  PROVE  Finished'
  BY FinishedAtRest DEF PutRecord, RemoveRecord, RemoveOutputs, MayEdit, proc

LEMMA FinishedStep ==
  ASSUME TypeOK, Ordered, AllInv, SkosInv, Carried, Finished, ~EditsDuringRuns, [Next]_vars
  PROVE  Finished'
  <1>1. CASE UNCHANGED vars
    BY <1>1 DEF vars, inputs, m3Files, m8Files, proc, Finished, Skosified, Merged, Valid
  <1>2. CASE EndRun \/ Crash
    BY <1>2, FinishedAtRest DEF EndRun, Crash
  <1>3. CASE Next
    BY <1>2, <1>3, FinishedAtStart, FinishedEarly, FinishedJudging, FinishedM8, FinishedM9, FinishedSkosify,
       FinishedEdits DEF Next, RunStep
  <1> QED BY <1>1, <1>3

\* A run of every stage that reached its end, its stages in the canonical
\* order, leaves every valid record in canonical.ttl and in the skosified
\* graph as its input file has it now, and the SHACL work list naming every
\* such record that fails the shapes; a record that m3 errored on is in both
\* as its ttl has it, where there is one.
THEOREM FullRunHolds ==
  ASSUME ~EditsDuringRuns, \A p \in Plans : InOrder(p.stages)
  PROVE  Spec => []FullRunReflectsInput
  <1>1. Init => Ordered /\ Carried /\ Finished /\ SkosInv
    BY DEF Init, Ordered, InOrder, Carried, Finished, SkosInv, NotAhead
  <1>2. TypeOK /\ TypeOK' /\ Listed /\ RecordInv /\ KindInv /\ AllInv /\ SkosInv
          /\ Ordered /\ Carried /\ Finished /\ [Next]_vars => Ordered' /\ Carried' /\ Finished' /\ SkosInv'
    BY OrderedStep, CarriedStep, FinishedStep, SkosStep
  <1>3. KindInv /\ Carried /\ Finished => FullRunReflectsInput
    <2> DEFINE Reflected(r) == /\ skosified.src[r] = canonical.src[r]
                               /\ ttl[r] # None => canonical.src[r] = ttl[r].src
                               /\ r \notin errored =>
                                    /\ canonical.src[r] = input[r].at
                                    /\ ~Conforms(input[r].kind) => r \in validationTsv
    <2> SUFFICES ASSUME KindInv, Carried, Finished PROVE FullRunReflectsInput
      OBVIOUS
    <2> SUFFICES ASSUME RunEndsWith(Stages), NEW r \in Present(input), Convertible(input[r].kind), ~Redated(r)
                 PROVE  Reflected(r)
      BY DEF FullRunReflectsInput
    <2>1. Stages \subseteq done /\ step = "next" /\ r \in Ids /\ Valid(r)
      BY DEF RunEndsWith, Present, Valid
    <2>2. rdf[r] # None /\ rdf[r].src = input[r].at
      BY <2>1 DEF Stages, Carried, Converted, Dealt, Redated
    <2>3. rdf[r].kind = input[r].kind
      BY <2>1, <2>2 DEF KindInv, KindKept, Valid
    <2>4. r \notin errored =>
            /\ ttl[r] # None /\ ttl[r].src = rdf[r].src
            /\ ~Conforms(rdf[r].kind) => r \in validationTsv
      BY <2>1 DEF Stages, Carried, Transformed, Dealt
    <2>5. (ttl[r] # None => canonical.src[r] = ttl[r].src) /\ skosified.src = canonical.src
      BY <2>1 DEF Stages, Finished, Merged, Skosified
    <2> QED BY <2>2, <2>3, <2>4, <2>5
  <1> QED BY TypesAndListed, RecordsCurrent, KindsKept, AllCurrent, <1>1, <1>2, <1>3, PTL DEF Spec
=============================================================================
