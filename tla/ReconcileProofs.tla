--------------------------- MODULE ReconcileProofs ---------------------------
(* Proofs about Reconcile, for any number of requests, cache keys, workers, *)
(* retries and runs, and whatever the lookups and the model answer.         *)
EXTENDS Reconcile, FiniteSetTheorems, TLAPS

-----------------------------------------------------------------------------
(* Types.                                                                  *)

Started == phase # "down" => run >= 1
AuditTyped == \A g \in {prov, provFile} : \A a \in g : a.id \in Activities /\ a.outcome \in Outcomes

LEMMA EarlyOutcomeTyped ==
  ASSUME NEW r \in Requests, NEW found \in Lookups[r]
  PROVE  /\ EarlyStage(found) \in EarlyStages \cup {"deferred"}
         /\ EarlyStage(found) # "deferred" => EarlyOutcome(EarlyStage(found)) \in Outcomes
  <1>1. found.by \in {"marker", "graph", "service"}
    BY ReconcileAssumption DEF LookupResults
  <1>2. EarlyStage(found) \in EarlyStages \cup {"deferred"}
    BY <1>1 DEF EarlyStage, EarlyStages
  <1> QED BY <1>2 DEF EarlyOutcome, Outcomes, Stages

LEMMA DecideTyped ==
  ASSUME NEW r \in Requests, NEW p \in Picks, NEW c \in Activities \cup {None}
  PROVE  Decide(r, p, c) \in Outcomes
  BY DEF Decide, StageOf, Outcomes, Stages, EarlyStages

LEMMA AbortedTyped == AbortedOutcome \in Outcomes
  BY DEF AbortedOutcome, Outcomes, Stages

LEMMA BlankTyped == \A S : Blank \in [Requests -> S \cup {None}]
  BY DEF Blank

LEMMA WorkersFinite ==
  ASSUME NEW S, S \subseteq Requests
  PROVE  /\ IsFiniteSet(S) /\ Cardinality(S) \in Nat
         /\ \A r : Cardinality(S \cup {r}) <= Cardinality(S) + 1 /\ Cardinality(S \ {r}) <= Cardinality(S)
  <1>1. IsFiniteSet(Requests)
    BY ReconcileAssumption, FS_Interval DEF Requests
  <1>2. IsFiniteSet(S)
    BY <1>1, FS_Subset
  <1>3. Cardinality(S) \in Nat
    BY <1>2, FS_CardinalityType
  <1>4. ASSUME NEW r PROVE Cardinality(S \cup {r}) <= Cardinality(S) + 1 /\ Cardinality(S \ {r}) <= Cardinality(S)
    <2>1. Cardinality(S \cup {r}) <= Cardinality(S) + 1
      <3>1. Cardinality(S \cup {r}) = IF r \in S THEN Cardinality(S) ELSE Cardinality(S) + 1
        BY <1>2, FS_AddElement, Zenon
      <3> QED BY <1>3, <3>1
    <2>2. Cardinality(S \ {r}) <= Cardinality(S)
      <3>1. Cardinality(S \ {r}) = IF r \in S THEN Cardinality(S) - 1 ELSE Cardinality(S)
        BY <1>2, FS_RemoveElement, Zenon
      <3> QED BY <1>3, <3>1
    <2> QED BY <2>1, <2>2
  <1> QED BY <1>2, <1>3, <1>4

LEMMA TypeInit == Init => TypeOK
  <1> SUFFICES ASSUME Init PROVE TypeOK
    OBVIOUS
  <1>1. Cardinality(working) = 0
    BY FS_EmptySet DEF Init
  <1>2. cache \in [Keys -> [pick : Picks, activity : Activities] \cup {None}]
    BY DEF Init
  <1>3. <<>> \in Seq(Requests)
    OBVIOUS
  <1> QED BY <1>1, <1>2, <1>3, BlankTyped, ReconcileAssumption DEF Init, TypeOK, Phases

-----------------------------------------------------------------------------
(* Where a request is while the stage runs: every deferred one without an   *)
(* outcome is waited for, none twice, and phase 3 begins when all have one. *)

Waiting ==
  /\ working \cap queue = {} /\ working \cup queue \subseteq pending /\ pending \subseteq deferred
  /\ \A r \in working \cup queue : outcome[r] = None

Phased ==
  /\ phase \in {"down", "resolve"} => pending = {} /\ \A r \in deferred : outcome[r] = None
  /\ phase \notin {"down", "resolve"} => \A r \in Requests : outcome[r] # None \/ r \in pending
  /\ phase \notin {"down", "resolve", "pick"} => pending = {}
  /\ phase \in {"down", "resolve", "pick"} => applied = 0
  /\ phase \in {"written", "ended"} => applied = NRequests

\* A deferred request was decided with a pick, unless its budget ran out.
Decided ==
  \A r \in deferred : outcome[r] # None /\ ~outcome[r].aborted =>
    outcome[r].pick \in Picks /\ outcome[r].stage = StageOf(r, outcome[r].pick)

Shape == Started /\ Waiting /\ Phased /\ Decided

LEMMA ShapeInit == Init => Shape
  BY DEF Init, Shape, Started, Waiting, Phased, Decided

\* Once phase 3 begins the pool is empty and every request has its outcome.
LEMMA PoolEmpty ==
  ASSUME TypeOK, Shape, phase \notin {"down", "resolve", "pick"}
  PROVE  /\ working = {} /\ queue = {} /\ pending = {}
         /\ \A r \in Requests : outcome[r] # None /\ outcome[r] \in Outcomes
  BY DEF Shape, Waiting, Phased, TypeOK

\* The steps of the main thread that leave the pool alone.
LEMMA MainTypes ==
  ASSUME TypeOK, Shape, StartRun \/ StartApply \/ Apply \/ ApplyFails \/ Write \/ Flush
  PROVE  TypeOK'
  <1>1. CASE StartRun
    <2>1. run \in Int /\ 0 <= run /\ run < MaxRuns /\ MaxRuns \in Nat
      BY <1>1, ReconcileAssumption DEF StartRun, TypeOK
    <2>2. run' \in 0..MaxRuns /\ 1..run \subseteq 1..run'
      BY <1>1, <2>1 DEF StartRun
    <2>3. <<>> \in Seq(Requests)
      OBVIOUS
    <2> QED BY <1>1, <2>2, <2>3 DEF StartRun, memory, TypeOK, Phases
  <1>2. CASE StartApply
    BY <1>2 DEF StartApply, memory, disk, TypeOK, Phases
  <1>3. CASE Flush
    BY <1>3 DEF Flush, memory, TypeOK, Phases
  <1>4. CASE Write
    <2>1. ASSUME NEW l \in canonical' PROVE l.request \in Requests /\ l.run \in 1..run'
      <3>1. run \in 1..run /\ run' = run
        BY <1>4, ReconcileAssumption DEF Write, Shape, Started, TypeOK
      <3> QED BY <1>4, <3>1 DEF Write, TypeOK
    <2>2. phase' = "written" /\ UNCHANGED <<run, memory, prov, audit, provFile, cache, crashed>>
      BY <1>4 DEF Write
    <2> QED BY <1>4, <2>1, <2>2 DEF Write, memory, TypeOK, Phases
  <1>5. CASE Apply
    <2> DEFINE r == applied + 1
    <2>1. r \in Requests /\ applied' = r /\ r \in 0..NRequests /\ run \in Nat
      BY <1>5, ReconcileAssumption DEF Apply, TypeOK, Requests
    <2>2. prov' = prov \cup {ActivityOf(r)} /\ ActivityOf(r).id \in Activities
      BY <1>5, <2>1 DEF Apply, ActivityOf, Activities
    <2>3. outcome[r] \in Outcomes
      BY <1>5, <2>1, PoolEmpty DEF Apply
    <2>4. Cacheable(r) => outcome[r].pick \in Picks /\ KeyOf[r] \in Keys
      BY <2>1, <2>3, NoneAssumption, ReconcileAssumption DEF Cacheable, Shape, Decided
    <2>5. cache' \in [Keys -> [pick : Picks, activity : Activities] \cup {None}]
      BY <1>5, <2>2, <2>4 DEF Apply, Store, TypeOK
    <2>6. AuditTyped'
      BY <1>5, <2>2, <2>3 DEF Apply, ActivityOf, AuditTyped, TypeOK
    <2> QED BY <1>5, <2>1, <2>5, <2>6 DEF Apply, AuditTyped, TypeOK
  <1>6. CASE ApplyFails
    <2> DEFINE r == applied + 1
    <2>1. r \in Requests /\ run \in Nat
      BY <1>6, ReconcileAssumption DEF ApplyFails, TypeOK, Requests
    <2>2. ActivityOf(r).id \in Activities /\ ActivityOf(r).outcome \in Outcomes
      BY <1>6, <2>1, PoolEmpty DEF ApplyFails, ActivityOf, Activities
    <2>3. AuditTyped'
      BY <1>6, <2>2 DEF ApplyFails, AuditTyped, TypeOK
    <2> QED BY <1>6, <2>3 DEF ApplyFails, memory, AuditTyped, TypeOK, Phases
  <1> QED BY <1>1, <1>2, <1>3, <1>4, <1>5, <1>6

LEMMA ResolveTypes ==
  ASSUME TypeOK, NEW r \in Requests, Resolve(r)
  PROVE  TypeOK'
  <1>1. PICK found \in Lookups[r] :
          IF EarlyStage(found) = "deferred"
            THEN deferred' = deferred \cup {r} /\ UNCHANGED outcome
            ELSE /\ outcome' = [outcome EXCEPT ![r] = EarlyOutcome(EarlyStage(found))]
                 /\ UNCHANGED deferred
    BY DEF Resolve
  <1>2. deferred' \subseteq Requests /\ outcome' \in [Requests -> Outcomes \cup {None}]
    BY <1>1, EarlyOutcomeTyped DEF TypeOK
  <1> QED BY <1>2 DEF Resolve, disk, TypeOK

LEMMA LookupTypes ==
  ASSUME TypeOK, Lookup
  PROVE  TypeOK'
  <1>1. ASSUME NEW r \in Requests PROVE outcome'[r] \in Outcomes \cup {None}
    <2>1. CASE r \in Hits
      <3>1. cache[KeyOf[r]] \in [pick : Picks, activity : Activities] /\ CachedRow(r) = cache[KeyOf[r]]
        BY <2>1, ReconcileAssumption DEF Hits, CachedRow, TypeOK
      <3>2. outcome'[r] = Decide(r, CachedRow(r).pick, CachedRow(r).activity)
        BY <2>1 DEF Lookup
      <3> QED BY <3>1, <3>2, DecideTyped
    <2>2. CASE r \notin Hits
      BY <2>2 DEF Lookup, TypeOK
    <2> QED BY <2>1, <2>2
  <1>2. outcome' = [r \in Requests |-> outcome'[r]]
    BY DEF Lookup
  <1>3. outcome' \in [Requests -> Outcomes \cup {None}]
    BY <1>1, <1>2
  <1> QED BY <1>3 DEF Lookup, disk, TypeOK, Phases

LEMMA StartPickTypes ==
  ASSUME TypeOK, StartPick
  PROVE  TypeOK'
  <1>1. PICK r \in Requests :
          /\ queue' = queue \ {r}
          /\ working' = working \cup {r}
          /\ calls' = [calls EXCEPT ![r] = [connection |-> 0, validation |-> 0]]
    BY DEF StartPick
  <1>2. calls' \in [Requests -> InFlight \cup Picks \cup {None}]
    <2>1. [connection |-> 0, validation |-> 0] \in InFlight
      BY ReconcileAssumption DEF InFlight
    <2> QED BY <1>1, <2>1 DEF TypeOK
  <1>3. working' \subseteq Requests /\ Cardinality(working') <= Concurrency
    <2>1. Cardinality(working) < Concurrency /\ working \subseteq Requests
      BY DEF StartPick, TypeOK
    <2>2. Cardinality(working) \in Nat /\ Cardinality(working \cup {r}) \in Nat
          /\ Cardinality(working \cup {r}) <= Cardinality(working) + 1
      BY <2>1, WorkersFinite
    <2>3. Concurrency \in Nat
      BY ReconcileAssumption
    <2> QED BY <1>1, <2>1, <2>2, <2>3
  <1> QED BY <1>1, <1>2, <1>3 DEF StartPick, disk, TypeOK

LEMMA CallTypes ==
  ASSUME TypeOK, NEW r \in Requests,
         ConnectionFails(r) \/ InvalidAnswer(r) \/ OtherError(r) \/ Answer(r)
  PROVE  TypeOK'
  <1>1. calls[r] \in InFlight /\ calls \in [Requests -> InFlight \cup Picks \cup {None}]
    BY DEF ConnectionFails, InvalidAnswer, OtherError, Answer, Calling, TypeOK
  <1>2. ASSUME NEW p \in Picks, Returned(r, p) PROVE calls' \in [Requests -> InFlight \cup Picks \cup {None}]
    BY <1>1, <1>2 DEF Returned
  <1>3. calls' \in [Requests -> InFlight \cup Picks \cup {None}]
    <2>1. CASE ConnectionFails(r)
      <3>1. CASE calls[r].connection < ConnectionRetries
        <4>1. [calls[r] EXCEPT !.connection = @ + 1] \in InFlight
          BY <1>1, <3>1, ReconcileAssumption DEF InFlight
        <4> QED BY <1>1, <2>1, <3>1, <4>1 DEF ConnectionFails
      <3>2. CASE ~(calls[r].connection < ConnectionRetries)
        BY <1>2, <2>1, <3>2 DEF ConnectionFails, Picks
      <3> QED BY <3>1, <3>2
    <2>2. CASE InvalidAnswer(r)
      <3>1. CASE calls[r].validation < ValidationRetries
        <4>1. [calls[r] EXCEPT !.validation = @ + 1] \in InFlight
          BY <1>1, <3>1, ReconcileAssumption DEF InFlight
        <4> QED BY <1>1, <2>2, <3>1, <4>1 DEF InvalidAnswer
      <3>2. CASE ~(calls[r].validation < ValidationRetries)
        BY <1>2, <2>2, <3>2 DEF InvalidAnswer, Picks
      <3> QED BY <3>1, <3>2
    <2>3. CASE OtherError(r)
      BY <1>2, <2>3 DEF OtherError, Picks
    <2>4. CASE Answer(r)
      BY <1>2, <2>4 DEF Answer, Picks
    <2> QED BY <2>1, <2>2, <2>3, <2>4
  <1>4. UNCHANGED callFrame
    BY DEF ConnectionFails, InvalidAnswer, OtherError, Answer
  <1> QED BY <1>3, <1>4 DEF callFrame, disk, TypeOK

LEMMA OutcomeTypes ==
  ASSUME TypeOK, NEW r \in Requests, Deliver(r) \/ Abort(r) \/ Collect(r)
  PROVE  TypeOK'
  <1>1. working' \subseteq Requests /\ Cardinality(working') <= Concurrency
    <2>1. working' = working \/ working' = working \ {r}
      BY DEF Deliver, Abort, Collect
    <2>2. Cardinality(working) \in Nat /\ Cardinality(working \ {r}) \in Nat
          /\ Cardinality(working \ {r}) <= Cardinality(working)
      BY WorkersFinite DEF TypeOK
    <2>3. working \subseteq Requests /\ Cardinality(working) <= Concurrency /\ Concurrency \in Nat
      BY ReconcileAssumption DEF TypeOK
    <2>4. CASE working' = working
      BY <2>3, <2>4
    <2>5. CASE working' = working \ {r}
      BY <2>2, <2>3, <2>5
    <2> QED BY <2>1, <2>4, <2>5
  <1>2. CASE Deliver(r)
    <2>1. Decide(r, calls[r], None) \in Outcomes
      BY <1>2, DecideTyped DEF Deliver
    <2> QED BY <1>1, <1>2, <2>1 DEF Deliver, disk, TypeOK
  <1>3. CASE Abort(r)
    BY <1>1, <1>3, AbortedTyped DEF Abort, disk, TypeOK
  <1>4. CASE Collect(r)
    BY <1>4 DEF Collect, TypeOK
  <1> QED BY <1>2, <1>3, <1>4

LEMMA GoneTypes ==
  ASSUME TypeOK, Shape, Exit \/ Crash
  PROVE  TypeOK'
  <1>1. Gone /\ UNCHANGED <<run, disk>>
    BY DEF Exit, Crash
  <1>2. Cardinality({}) <= Concurrency
    BY FS_EmptySet, ReconcileAssumption
  <1>3. crashed' \subseteq 1..run'
    <2>1. CASE Exit
      BY <2>1 DEF Exit, TypeOK
    <2>2. CASE Crash
      BY <2>2 DEF Crash, Shape, Started, TypeOK
    <2> QED BY <2>1, <2>2
  <1> QED BY <1>1, <1>2, <1>3, BlankTyped, ReconcileAssumption DEF Gone, disk, TypeOK, Phases

LEMMA TypesKept ==
  ASSUME TypeOK, Shape, [Next]_vars
  PROVE  TypeOK'
  <1>1. CASE UNCHANGED vars
    BY <1>1 DEF vars, memory, disk, TypeOK
  <1> QED BY <1>1, MainTypes, ResolveTypes, LookupTypes, StartPickTypes, CallTypes, OutcomeTypes, GoneTypes
      DEF Next

-----------------------------------------------------------------------------
(* The shape is kept.                                                      *)

LEMMA ShapeMain ==
  ASSUME TypeOK, Shape, StartRun \/ StartApply \/ Apply \/ ApplyFails \/ Write \/ Flush
  PROVE  Shape'
  <1>1. CASE StartRun
    BY <1>1, ReconcileAssumption DEF StartRun, memory, Shape, Started, Waiting, Phased, Decided, TypeOK
  <1>2. CASE StartApply
    BY <1>2 DEF StartApply, memory, Shape, Started, Waiting, Phased, Decided
  <1>3. CASE Apply
    BY <1>3 DEF Apply, Shape, Started, Waiting, Phased, Decided
  <1>4. CASE ApplyFails \/ Write \/ Flush
    BY <1>4 DEF ApplyFails, Write, Flush, memory, Shape, Started, Waiting, Phased, Decided
  <1> QED BY <1>1, <1>2, <1>3, <1>4

LEMMA ShapeResolve ==
  ASSUME TypeOK, Shape, NEW r \in Requests, Resolve(r)
  PROVE  Shape'
  <1>1. /\ phase = "resolve" /\ outcome[r] = None /\ r \notin deferred
        /\ UNCHANGED <<phase, run, queue, working, calls, pending, applied>>
        /\ \/ deferred' = deferred \cup {r} /\ outcome' = outcome
           \/ deferred' = deferred /\ \A q \in Requests \ {r} : outcome'[q] = outcome[q]
    BY DEF Resolve, TypeOK
  <1>2. \A q \in deferred' : outcome'[q] = None
    BY <1>1 DEF Shape, Phased, TypeOK
  <1> QED BY <1>1, <1>2 DEF Shape, Started, Waiting, Phased, Decided

LEMMA ShapeLookup ==
  ASSUME TypeOK, Shape, Lookup
  PROVE  Shape'
  <1>1. /\ phase = "resolve" /\ phase' = "pick" /\ working = {} /\ working' = {} /\ applied' = applied /\ run' = run
        /\ queue' = deferred \ Hits /\ pending' = deferred \ Hits /\ deferred' = deferred
    BY DEF Lookup, Shape, Waiting, Phased
  <1>2. ASSUME NEW r \in Hits
        PROVE  /\ outcome'[r] = Decide(r, CachedRow(r).pick, CachedRow(r).activity)
               /\ outcome'[r] # None /\ CachedRow(r).pick \in Picks
    <2>1. r \in Requests
      BY DEF Hits, TypeOK
    <2>2. CachedRow(r) \in [pick : Picks, activity : Activities]
      BY <2>1, ReconcileAssumption DEF Hits, CachedRow, TypeOK
    <2>3. outcome'[r] = Decide(r, CachedRow(r).pick, CachedRow(r).activity)
      BY <2>1 DEF Lookup
    <2> QED BY <2>1, <2>2, <2>3, DecideTyped, NoneAssumption
  <1>3. ASSUME NEW r \in Requests \ Hits PROVE outcome'[r] = outcome[r]
    BY DEF Lookup
  <1>4. Waiting'
    BY <1>1, <1>3 DEF Shape, Waiting, Phased, TypeOK
  <1>5. Phased'
    BY <1>1, <1>2, <1>3 DEF Lookup, Walked, Shape, Phased
  <1>6. Decided'
    <2> SUFFICES ASSUME NEW r \in deferred, outcome'[r] # None
                 PROVE  outcome'[r].pick \in Picks /\ outcome'[r].stage = StageOf(r, outcome'[r].pick)
      BY <1>1 DEF Decided
    <2>1. r \in Requests /\ outcome[r] = None
      BY <1>1 DEF Shape, Phased, TypeOK
    <2>2. r \in Hits
      BY <1>3, <2>1
    <2>3. PICK p \in Picks, c \in {CachedRow(r).activity} : outcome'[r] = Decide(r, p, c)
      BY <1>2, <2>2
    <2>4. outcome'[r].pick = p /\ outcome'[r].stage = StageOf(r, p)
      BY <2>3 DEF Decide
    <2> QED BY <2>3, <2>4
  <1> QED BY <1>1, <1>4, <1>5, <1>6 DEF Shape, Started

LEMMA ShapePick ==
  ASSUME TypeOK, Shape, StartPick
  PROVE  Shape'
  <1>1. PICK r \in Requests : First(r, queue) /\ queue' = queue \ {r} /\ working' = working \cup {r}
    BY DEF StartPick
  <1>2. r \in queue /\ UNCHANGED <<phase, run, outcome, deferred, pending, applied>>
    BY <1>1 DEF StartPick, First
  <1> QED BY <1>1, <1>2 DEF Shape, Started, Waiting, Phased, Decided

LEMMA ShapeCall ==
  ASSUME TypeOK, Shape, NEW r \in Requests,
         ConnectionFails(r) \/ InvalidAnswer(r) \/ OtherError(r) \/ Answer(r)
  PROVE  Shape'
  BY DEF ConnectionFails, InvalidAnswer, OtherError, Answer, callFrame, Shape, Started, Waiting, Phased, Decided

LEMMA ShapeOutcome ==
  ASSUME TypeOK, Shape, NEW r \in Requests, Deliver(r) \/ Abort(r) \/ Collect(r)
  PROVE  Shape'
  <1>1. CASE Deliver(r)
    <2>1. /\ r \in working /\ calls[r] \in Picks /\ working' = working \ {r}
          /\ outcome' = [outcome EXCEPT ![r] = Decide(r, calls[r], None)]
          /\ UNCHANGED <<phase, run, deferred, queue, pending, applied>>
      BY <1>1 DEF Deliver
    <2>2. outcome'[r] = Decide(r, calls[r], None) /\ outcome'[r] # None
      BY <2>1, DecideTyped, NoneAssumption DEF TypeOK
    <2>3. \A q \in Requests \ {r} : outcome'[q] = outcome[q]
      BY <2>1 DEF TypeOK
    <2>4. phase \notin {"down", "resolve"} /\ r \in pending /\ r \in deferred /\ r \notin queue
      BY <2>1 DEF Shape, Waiting, Phased
    <2>5. Waiting'
      BY <2>1, <2>3, <2>4 DEF Shape, Waiting, TypeOK
    <2>6. Phased'
      BY <2>1, <2>2, <2>3, <2>4 DEF Shape, Phased
    <2>7. Decided'
      BY <2>1, <2>2, <2>3 DEF Shape, Decided, Decide, TypeOK
    <2> QED BY <2>1, <2>5, <2>6, <2>7 DEF Shape, Started
  <1>2. CASE Abort(r)
    <2>1. /\ r \in working /\ working' = working \ {r}
          /\ outcome' = [outcome EXCEPT ![r] = AbortedOutcome]
          /\ UNCHANGED <<phase, run, deferred, queue, pending, applied>>
      BY <1>2 DEF Abort
    <2>2. outcome'[r] = AbortedOutcome /\ outcome'[r] # None /\ outcome'[r].aborted
      BY <2>1, AbortedTyped, NoneAssumption DEF TypeOK, AbortedOutcome
    <2>3. \A q \in Requests \ {r} : outcome'[q] = outcome[q]
      BY <2>1 DEF TypeOK
    <2>4. phase \notin {"down", "resolve"} /\ r \in pending /\ r \in deferred /\ r \notin queue
      BY <2>1 DEF Shape, Waiting, Phased
    <2>5. Waiting'
      BY <2>1, <2>3, <2>4 DEF Shape, Waiting, TypeOK
    <2>6. Phased'
      BY <2>1, <2>2, <2>3, <2>4 DEF Shape, Phased
    <2>7. Decided'
      BY <2>1, <2>2, <2>3 DEF Shape, Decided, TypeOK
    <2> QED BY <2>1, <2>5, <2>6, <2>7 DEF Shape, Started
  <1>3. CASE Collect(r)
    BY <1>3 DEF Collect, Shape, Started, Waiting, Phased, Decided
  <1> QED BY <1>1, <1>2, <1>3

LEMMA ShapeGone ==
  ASSUME TypeOK, Shape, Exit \/ Crash
  PROVE  Shape'
  BY DEF Exit, Crash, Gone, Shape, Started, Waiting, Phased, Decided

LEMMA ShapeKept ==
  ASSUME TypeOK, Shape, [Next]_vars
  PROVE  Shape'
  <1>1. CASE UNCHANGED vars
    BY <1>1 DEF vars, memory, disk, Shape, Started, Waiting, Phased, Decided
  <1> QED BY <1>1, ShapeMain, ShapeResolve, ShapeLookup, ShapePick, ShapeCall, ShapeOutcome, ShapeGone
      DEF Next

LEMMA TypesAndShape == Spec => [](TypeOK /\ Shape)
  BY TypeInit, ShapeInit, TypesKept, ShapeKept, PTL DEF Spec

\* Every variable of the stage keeps its type, in every run and after every kill.
THEOREM TypeCorrect == Spec => []TypeOK
  BY TypesAndShape, PTL

-----------------------------------------------------------------------------
(* The provenance: an activity is known once, from its request's turn in    *)
(* phase 3 on, and only a kill can lose it.                                 *)

LogFiles ==
  /\ phase = "down" => prov = {}
  /\ phase # "down" => provFile \subseteq prov
  /\ phase \in {"ended", "failed"} => prov = provFile
  /\ \A a \in prov \ provFile : a.id.run = run

LogIds ==
  /\ \A a \in Known : /\ a.id.run <= run
                      /\ a.id.run = run /\ phase \notin {"down", "failed"} => a.id.request <= applied
  /\ \A a, b \in Known : a.id = b.id => a = b

LogWhole ==
  phase \in {"apply", "written", "ended"} => \A r \in Requests : r <= applied => ActivityOf(r) \in prov

LogInv == LogFiles /\ LogIds /\ LogWhole

LEMMA LogInit == Init => LogInv
  BY DEF Init, LogInv, LogFiles, LogIds, LogWhole, Known

\* In what way a step of phases 1 and 2, or of a pick nobody waits for, can
\* touch what phase 3 reads.
Quiet ==
  /\ UNCHANGED <<run, applied, prov, provFile, canonical, cache, crashed>>
  /\ \/ phase \in {"resolve", "pick"} /\ phase' \in {"resolve", "pick"}
     \/ phase = "pick" /\ phase' = "apply" /\ UNCHANGED <<outcome, deferred>>
     \/ UNCHANGED <<phase, outcome, deferred>>

LEMMA QuietSteps ==
  ASSUME TypeOK, Shape, NEW r \in Requests,
         \/ Resolve(r) \/ Lookup \/ StartPick \/ Deliver(r) \/ Abort(r) \/ Collect(r) \/ StartApply
         \/ ConnectionFails(r) \/ InvalidAnswer(r) \/ OtherError(r) \/ Answer(r)
         \/ UNCHANGED vars
  PROVE  Quiet
  <1>1. CASE Resolve(r) \/ Lookup \/ StartPick \/ Collect(r) \/ StartApply
    BY <1>1 DEF Resolve, Lookup, StartPick, Collect, StartApply, memory, disk, Quiet
  <1>2. CASE Deliver(r) \/ Abort(r)
    <2>1. phase = "pick"
      BY <1>2 DEF Deliver, Abort, Shape, Waiting, Phased, TypeOK, Phases
    <2> QED BY <1>2, <2>1 DEF Deliver, Abort, disk, Quiet
  <1>3. CASE ConnectionFails(r) \/ InvalidAnswer(r) \/ OtherError(r) \/ Answer(r)
    BY <1>3 DEF ConnectionFails, InvalidAnswer, OtherError, Answer, callFrame, disk, Quiet
  <1>4. CASE UNCHANGED vars
    BY <1>4 DEF vars, memory, disk, Quiet
  <1> QED BY <1>1, <1>2, <1>3, <1>4

\* The other steps.
Loud == StartRun \/ Apply \/ ApplyFails \/ Write \/ Flush \/ Exit \/ Crash

LEMMA QuietOrLoud ==
  ASSUME TypeOK, Shape, [Next]_vars
  PROVE  Quiet \/ Loud
  <1>1. 1 \in Requests
    BY ReconcileAssumption DEF Requests
  <1> QED BY <1>1, QuietSteps DEF Next, Loud

LEMMA LogQuiet ==
  ASSUME TypeOK, Shape, LogInv, Quiet
  PROVE  LogInv'
  <1>1. LogFiles'
    BY DEF LogInv, LogFiles, Quiet
  <1>2. LogIds'
    BY DEF LogInv, LogIds, Known, Quiet
  <1>3. LogWhole'
    <2>1. CASE phase' \in {"resolve", "pick"}
      BY <2>1 DEF LogWhole
    <2>2. CASE phase = "pick" /\ phase' = "apply"
      <3>1. applied' = 0
        BY <2>2 DEF Quiet, Shape, Phased
      <3> QED BY <3>1, ReconcileAssumption DEF LogWhole, Requests
    <2>3. CASE UNCHANGED <<phase, outcome, deferred>>
      BY <2>3 DEF LogInv, LogWhole, ActivityOf, Quiet
    <2> QED BY <2>1, <2>2, <2>3 DEF Quiet
  <1> QED BY <1>1, <1>2, <1>3 DEF LogInv

\* The next request's activity is new.
LEMMA NewActivity ==
  ASSUME TypeOK, Shape, LogInv, phase = "apply", applied < NRequests
  PROVE  /\ applied + 1 \in Requests
         /\ ActivityOf(applied + 1).id \in Activities
         /\ ActivityOf(applied + 1).id.run = run /\ ActivityOf(applied + 1).id.request = applied + 1
         /\ \A a \in Known : a.id # ActivityOf(applied + 1).id
  <1>1. applied + 1 \in Requests /\ applied \in Nat /\ run \in Nat
    BY ReconcileAssumption DEF Requests, TypeOK
  <1>2. ActivityOf(applied + 1).id = [run |-> run, request |-> applied + 1]
    BY DEF ActivityOf
  <1>3. ASSUME NEW a \in Known, a.id = [run |-> run, request |-> applied + 1] PROVE FALSE
    <2>1. a.id.run = run /\ a.id.request = applied + 1
      BY <1>3
    <2> QED BY <1>1, <2>1 DEF LogInv, LogIds
  <1> QED BY <1>1, <1>2, <1>3 DEF Activities

LEMMA LogLoud ==
  ASSUME TypeOK, Shape, LogInv, Loud
  PROVE  LogInv'
  <1>0. run \in Nat /\ applied \in Nat /\ \A a \in Known : a.id.run \in Nat /\ a.id.request \in Nat
    BY ReconcileAssumption DEF TypeOK, Known, Activities, Requests
  <1>1. CASE StartRun
    <2>1. /\ phase = "down" /\ phase' = "resolve" /\ run' = run + 1 /\ prov' = provFile /\ provFile' = provFile
          /\ prov = {} /\ applied' = applied
      BY <1>1 DEF StartRun, memory, LogInv, LogFiles
    <2> QED BY <1>0, <2>1 DEF LogInv, LogFiles, LogIds, LogWhole, Known
  <1>2. CASE Apply
    <2>1. /\ phase = "apply" /\ phase' = "apply" /\ applied < NRequests /\ applied' = applied + 1
          /\ prov' = prov \cup {ActivityOf(applied + 1)} /\ UNCHANGED <<run, outcome, provFile>>
      BY <1>2 DEF Apply
    <2>2. LogFiles'
      BY <2>1, NewActivity DEF LogInv, LogFiles
    <2>3. LogIds'
      BY <1>0, <2>1, NewActivity DEF LogInv, LogIds, Known
    <2>4. LogWhole'
      BY <1>0, <2>1 DEF LogInv, LogWhole, ActivityOf, Requests
    <2> QED BY <2>2, <2>3, <2>4 DEF LogInv
  <1>3. CASE ApplyFails
    <2>1. /\ phase = "apply" /\ phase' = "failed" /\ applied < NRequests
          /\ prov' = prov \cup {ActivityOf(applied + 1)} /\ provFile' = prov' /\ run' = run
      BY <1>3 DEF ApplyFails
    <2> QED BY <1>0, <2>1, NewActivity DEF LogInv, LogFiles, LogIds, LogWhole, Known
  <1>4. CASE Write
    BY <1>4 DEF Write, memory, LogInv, LogFiles, LogIds, LogWhole, Known, ActivityOf
  <1>5. CASE Flush
    BY <1>5 DEF Flush, memory, LogInv, LogFiles, LogIds, LogWhole, Known, ActivityOf
  <1>6. CASE Exit \/ Crash
    BY <1>6 DEF Exit, Crash, Gone, disk, LogInv, LogFiles, LogIds, LogWhole, Known
  <1> QED BY <1>1, <1>2, <1>3, <1>4, <1>5, <1>6 DEF Loud

LEMMA LogKept == TypeOK /\ Shape /\ LogInv /\ [Next]_vars => LogInv'
  BY QuietOrLoud, LogQuiet, LogLoud

\* What is known stays known, a kill apart.
LEMMA KnownKept ==
  ASSUME TypeOK, Shape, LogInv, [Next]_vars
  PROVE  /\ Known \subseteq Known' \/ Crash
         /\ crashed \subseteq crashed'
  <1>1. CASE Quiet
    BY <1>1 DEF Quiet, Known
  <1>2. CASE Loud
    BY <1>2 DEF Loud, StartRun, Apply, ApplyFails, Write, Flush, Exit, Crash, Gone, disk, LogInv, LogFiles, Known
  <1> QED BY <1>1, <1>2, QuietOrLoud

\* What a kill takes away is of its own run.
LEMMA LostByKill ==
  ASSUME LogInv, Crash
  PROVE  /\ \A a \in Known : a \in Known' \/ a.id.run \in crashed'
         /\ UNCHANGED <<cache, canonical>>
  BY DEF Crash, Gone, disk, LogInv, LogFiles, Known

-----------------------------------------------------------------------------
(* What the cache and canonical.ttl rest on.                               *)

LEMMA CacheInit == Init => CacheRowExplained
  BY DEF Init, CacheRowExplained

LEMMA CacheKept ==
  ASSUME TypeOK, Shape, LogInv, CacheRowExplained, [Next]_vars
  PROVE  CacheRowExplained'
  <1>1. CASE Crash
    <2>1. /\ \A a \in Known : a \in Known' \/ a.id.run \in crashed'
          /\ cache' = cache /\ crashed \subseteq crashed'
      BY <1>1, LostByKill DEF Crash
    <2> SUFFICES ASSUME NEW k \in Keys, cache[k] # None, cache[k].activity.run \notin crashed'
                 PROVE  \E a \in Known' : /\ a.id = cache[k].activity
                                          /\ KeyOf[a.id.request] = k
                                          /\ a.outcome.pick = cache[k].pick /\ ~a.outcome.aborted
      BY <2>1 DEF CacheRowExplained
    <2>2. PICK a \in Known : /\ a.id = cache[k].activity
                             /\ KeyOf[a.id.request] = k
                             /\ a.outcome.pick = cache[k].pick /\ ~a.outcome.aborted
      BY <2>1 DEF CacheRowExplained
    <2>3. a \in Known'
      BY <2>1, <2>2
    <2> QED BY <2>2, <2>3
  <1>2. CASE ~Crash /\ cache' = cache
    BY <1>2, KnownKept DEF CacheRowExplained
  <1>3. CASE Apply /\ Cacheable(applied + 1)
    <2> DEFINE r == applied + 1
    <2>1. /\ Known \subseteq Known' /\ crashed' = crashed /\ ActivityOf(r) \in Known'
          /\ cache' = [cache EXCEPT ![KeyOf[r]] = [pick |-> outcome[r].pick, activity |-> ActivityOf(r).id]]
      BY <1>3 DEF Apply, Known, Store
    <2>2. KeyOf[r] \in Keys /\ ~outcome[r].aborted /\ cache \in [Keys -> [pick : Picks, activity : Activities] \cup {None}]
      BY <1>3, NewActivity, ReconcileAssumption DEF Apply, Cacheable, TypeOK
    <2> SUFFICES ASSUME NEW k \in Keys, cache'[k] # None, cache'[k].activity.run \notin crashed
                 PROVE  \E a \in Known' : /\ a.id = cache'[k].activity
                                          /\ KeyOf[a.id.request] = k
                                          /\ a.outcome.pick = cache'[k].pick /\ ~a.outcome.aborted
      BY <2>1 DEF CacheRowExplained
    <2>3. CASE k = KeyOf[r]
      <3>1. cache'[k] = [pick |-> outcome[r].pick, activity |-> ActivityOf(r).id]
        BY <2>1, <2>2, <2>3
      <3>2. ActivityOf(r).id.request = r /\ ActivityOf(r).outcome = outcome[r]
        BY DEF ActivityOf
      <3> QED BY <2>1, <2>2, <2>3, <3>1, <3>2
    <2>4. CASE k # KeyOf[r]
      BY <2>1, <2>2, <2>4 DEF CacheRowExplained
    <2> QED BY <2>3, <2>4
  <1>4. cache' = cache \/ (Apply /\ Cacheable(applied + 1)) \/ Crash
    <2>1. Quiet => cache' = cache
      BY DEF Quiet
    <2>2. Loud /\ ~Crash => cache' = cache \/ (Apply /\ Cacheable(applied + 1))
      BY DEF Loud, StartRun, Apply, ApplyFails, Write, Flush, Exit, disk
    <2> QED BY <2>1, <2>2, QuietOrLoud
  <1>5. ~(Apply /\ Crash)
    BY DEF Apply, Crash, Gone
  <1> QED BY <1>1, <1>2, <1>3, <1>4, <1>5

\* A cache row repeats what its activity says the picker decided for a request
\* with that key; only a kill takes the activity away.
THEOREM CacheRowsHold == Spec => []CacheRowExplained
  <1>1. Spec => [](TypeOK /\ Shape)
    BY TypesAndShape
  <1>2. Spec => []LogInv
    BY <1>1, LogInit, LogKept, PTL DEF Spec
  <1>3. TypeOK /\ Shape /\ LogInv /\ CacheRowExplained /\ [Next]_vars => CacheRowExplained'
    BY CacheKept
  <1> QED BY <1>1, <1>2, <1>3, CacheInit, PTL DEF Spec

LEMMA BindingsKept ==
  ASSUME TypeOK, Shape, LogInv, BindingsAudited, [Next]_vars
  PROVE  BindingsAudited'
  <1>1. CASE Crash
    <2>1. /\ \A a \in Known : a \in Known' \/ a.id.run \in crashed'
          /\ canonical' = canonical /\ crashed \subseteq crashed'
      BY <1>1, LostByKill DEF Crash
    <2> SUFFICES ASSUME NEW l \in canonical, l.run \notin crashed'
                 PROVE  \E a \in Known' : /\ a.id = [run |-> l.run, request |-> l.request]
                                          /\ UriOf(a.outcome) = l.uri
      BY <2>1 DEF BindingsAudited
    <2>2. PICK a \in Known : a.id = [run |-> l.run, request |-> l.request] /\ UriOf(a.outcome) = l.uri
      BY <2>1 DEF BindingsAudited
    <2>3. a.id.run = l.run
      BY <2>2
    <2> QED BY <2>1, <2>2, <2>3
  <1>2. CASE ~Crash /\ canonical' = canonical
    BY <1>2, KnownKept DEF BindingsAudited
  <1>3. CASE Write
    <2>1. /\ Known' = Known /\ crashed' = crashed /\ phase = "apply" /\ applied = NRequests
          /\ canonical' = canonical \cup
               {[request |-> r, uri |-> UriOf(outcome[r]), run |-> run] :
                  r \in {q \in Requests : UriOf(outcome[q]) # None}}
      BY <1>3 DEF Write, memory, Known
    <2>2. ASSUME NEW r \in Requests
          PROVE  \E a \in Known : a.id = [run |-> run, request |-> r] /\ UriOf(a.outcome) = UriOf(outcome[r])
      <3>1. ActivityOf(r) \in Known
        BY <2>1, ReconcileAssumption DEF LogInv, LogWhole, Known, Requests
      <3>2. ActivityOf(r).id = [run |-> run, request |-> r] /\ ActivityOf(r).outcome = outcome[r]
        BY DEF ActivityOf
      <3> QED BY <3>1, <3>2
    <2> SUFFICES ASSUME NEW l \in canonical', l.run \notin crashed
                 PROVE  \E a \in Known : /\ a.id = [run |-> l.run, request |-> l.request]
                                         /\ UriOf(a.outcome) = l.uri
      BY <2>1 DEF BindingsAudited
    <2>3. CASE l \in canonical
      BY <2>3 DEF BindingsAudited
    <2>4. CASE \E r \in Requests : l = [request |-> r, uri |-> UriOf(outcome[r]), run |-> run]
      <3>1. PICK r \in Requests : l = [request |-> r, uri |-> UriOf(outcome[r]), run |-> run]
        BY <2>4
      <3>2. l.run = run /\ l.request = r /\ l.uri = UriOf(outcome[r])
        BY <3>1
      <3> QED BY <2>2, <3>2
    <2> QED BY <2>1, <2>3, <2>4
  <1>4. canonical' = canonical \/ Write \/ Crash
    <2>1. Quiet => canonical' = canonical
      BY DEF Quiet
    <2>2. Loud /\ ~Crash => canonical' = canonical \/ Write
      BY DEF Loud, StartRun, Apply, ApplyFails, Flush, Exit, disk
    <2> QED BY <2>1, <2>2, QuietOrLoud
  <1> QED BY <1>1, <1>2, <1>3, <1>4

\* Every link of canonical.ttl has the activity that chose it, unless its run
\* was killed.
THEOREM BindingsHold == Spec => []BindingsAudited
  <1>1. Spec => [](TypeOK /\ Shape)
    BY TypesAndShape
  <1>2. Spec => []LogInv
    BY <1>1, LogInit, LogKept, PTL DEF Spec
  <1>3. TypeOK /\ Shape /\ LogInv /\ BindingsAudited /\ [Next]_vars => BindingsAudited'
    BY BindingsKept
  <1>4. Init => BindingsAudited
    BY DEF Init, BindingsAudited
  <1> QED BY <1>1, <1>2, <1>3, <1>4, PTL DEF Spec

-----------------------------------------------------------------------------
(* Which of several picks for one key is cached.                           *)

RowOf(r) == [pick |-> outcome[r].pick, activity |-> ActivityOf(r).id]

LastSoFar(r) ==
  /\ r \in Fresh /\ r <= applied /\ KeyOf[r] # None
  /\ \A q \in Fresh : KeyOf[q] = KeyOf[r] /\ q <= applied => q <= r

WinInv == phase \in {"apply", "written", "ended"} =>
            \A r \in Requests : LastSoFar(r) => cache[KeyOf[r]] = RowOf(r)

LEMMA WinInit == Init => WinInv
  BY DEF Init, WinInv

LEMMA WinQuiet ==
  ASSUME TypeOK, Shape, WinInv, Quiet
  PROVE  WinInv'
  <1>1. CASE phase' \in {"resolve", "pick"}
    BY <1>1 DEF WinInv
  <1>2. CASE phase = "pick" /\ phase' = "apply"
    <2>1. applied' = 0
      BY <1>2 DEF Quiet, Shape, Phased
    <2> QED BY <2>1, ReconcileAssumption DEF WinInv, LastSoFar, Requests
  <1>3. CASE UNCHANGED <<phase, outcome, deferred>>
    BY <1>3 DEF WinInv, LastSoFar, RowOf, ActivityOf, Fresh, Quiet
  <1> QED BY <1>1, <1>2, <1>3 DEF Quiet

LEMMA WinApply ==
  ASSUME TypeOK, Shape, WinInv, Apply
  PROVE  WinInv'
  <1> DEFINE n == applied + 1
  <1>1. /\ phase = "apply" /\ applied \in Nat /\ n \in Requests /\ applied' = n
        /\ UNCHANGED <<run, outcome, deferred>>
        /\ IF Cacheable(n) THEN Store(n) ELSE UNCHANGED cache
    BY ReconcileAssumption DEF Apply, TypeOK, Requests
  <1>2. Fresh' = Fresh /\ \A r \in Requests : RowOf(r)' = RowOf(r)
    BY <1>1 DEF Fresh, RowOf, ActivityOf
  <1>3. Cacheable(n) <=> n \in Fresh /\ KeyOf[n] # None
    BY <1>1, PoolEmpty DEF Cacheable, Fresh
  <1>4. Cacheable(n) => cache' = [cache EXCEPT ![KeyOf[n]] = RowOf(n)]
    BY <1>1 DEF Store, RowOf
  <1>5. cache \in [Keys -> [pick : Picks, activity : Activities] \cup {None}]
    BY DEF TypeOK
  <1> SUFFICES ASSUME NEW r \in Requests, LastSoFar(r)' PROVE cache'[KeyOf[r]] = RowOf(r)
    BY <1>2 DEF WinInv
  <1>6. /\ r \in Fresh /\ r <= n /\ KeyOf[r] \in Keys
        /\ \A q \in Fresh : KeyOf[q] = KeyOf[r] /\ q <= n => q <= r
    BY <1>1, <1>2, ReconcileAssumption DEF LastSoFar
  <1>7. CASE r = n
    <2>1. Cacheable(n)
      BY <1>3, <1>6, <1>7, ReconcileAssumption
    <2> QED BY <1>4, <1>5, <1>6, <1>7, <2>1
  <1>8. CASE r # n
    <2>1. r \in Nat /\ n \in Nat /\ r <= applied /\ ~(n <= r)
      BY <1>1, <1>6, <1>8, ReconcileAssumption DEF Requests
    <2>2. LastSoFar(r)
      <3>1. ASSUME NEW q \in Fresh, KeyOf[q] = KeyOf[r], q <= applied PROVE q <= r
        <4>1. q \in Nat
          BY ReconcileAssumption DEF Fresh, TypeOK, Requests
        <4>2. q <= n
          BY <1>1, <3>1, <4>1
        <4> QED BY <1>6, <3>1, <4>2
      <3> QED BY <1>6, <2>1, <3>1, ReconcileAssumption DEF LastSoFar
    <2>3. cache[KeyOf[r]] = RowOf(r)
      BY <1>1, <2>2 DEF WinInv
    <2>4. CASE Cacheable(n)
      <3>1. n \in Fresh /\ KeyOf[n] # KeyOf[r]
        BY <1>3, <1>6, <2>1, <2>4
      <3> QED BY <1>4, <1>5, <1>6, <2>3, <2>4, <3>1
    <2>5. CASE ~Cacheable(n)
      BY <1>1, <2>3, <2>5
    <2> QED BY <2>4, <2>5
  <1> QED BY <1>7, <1>8

LEMMA WinKept ==
  ASSUME TypeOK, Shape, WinInv, [Next]_vars
  PROVE  WinInv'
  <1>1. CASE Quiet
    BY <1>1, WinQuiet
  <1>2. CASE Apply
    BY <1>2, WinApply
  <1>3. CASE Write \/ Flush
    BY <1>3 DEF Write, Flush, memory, WinInv, LastSoFar, RowOf, ActivityOf, Fresh
  <1>4. CASE StartRun \/ ApplyFails \/ Exit \/ Crash
    BY <1>4 DEF StartRun, ApplyFails, Exit, Crash, Gone, WinInv
  <1> QED BY <1>1, <1>2, <1>3, <1>4, QuietOrLoud DEF Loud

\* Whatever the workers' race, the last request in order that the picker
\* answered has the row of its key.
THEOREM LastRequestHolds == Spec => []LastRequestWins
  <1>1. Spec => [](TypeOK /\ Shape)
    BY TypesAndShape
  <1>2. Spec => []WinInv
    BY <1>1, WinInit, WinKept, PTL DEF Spec
  <1>3. TypeOK /\ Shape /\ WinInv => LastRequestWins
    <2> SUFFICES ASSUME TypeOK, Shape, WinInv, Ended, NEW r \in Fresh,
                        KeyOf[r] # None, \A q \in Fresh : KeyOf[q] = KeyOf[r] => q <= r
                 PROVE  cache[KeyOf[r]] = [pick |-> outcome[r].pick, activity |-> ActivityOf(r).id]
      BY DEF LastRequestWins
    <2>1. r \in Requests /\ applied = NRequests /\ phase \in {"written", "ended"}
      BY DEF Ended, Fresh, Shape, Phased, TypeOK
    <2>2. LastSoFar(r)
      BY <2>1, ReconcileAssumption DEF LastSoFar, Requests
    <2> QED BY <2>1, <2>2 DEF WinInv, RowOf
  <1> QED BY <1>1, <1>2, <1>3, PTL

-----------------------------------------------------------------------------
(* Replay from the cache.  An outcome that cites an activity was decided in *)
(* phase 1.5 from a row of an earlier run, and the activity says what the   *)
(* row says.                                                               *)

Cites ==
  \A r \in Requests : outcome[r] # None =>
    /\ outcome[r].cites # None =>
         r \in deferred /\ ~outcome[r].aborted /\ outcome[r].cites.run < run
    /\ r \notin deferred => outcome[r].pick = None

RowsOfTheirTime ==
  \A k \in Keys : cache[k] # None =>
    /\ cache[k].activity.run <= run
    /\ phase \in {"resolve", "pick"} => cache[k].activity.run < run
    /\ phase = "apply" /\ cache[k].activity.run = run => cache[k].activity.request <= applied

TiersLogged ==
  \A a \in Known : a.outcome.pick \in Picks /\ ~a.outcome.aborted =>
    a.outcome.stage = StageOf(a.id.request, a.outcome.pick)

RowsMatch ==
  \A k \in Keys : \A a \in Known :
    cache[k] # None /\ a.id = cache[k].activity =>
      a.outcome.pick = cache[k].pick /\ ~a.outcome.aborted

CitesMatch ==
  \A r \in Requests : \A a \in Known :
    outcome[r] # None /\ a.id = outcome[r].cites =>
      a.outcome.pick = outcome[r].pick /\ ~a.outcome.aborted

ReplayInv == Cites /\ RowsOfTheirTime /\ TiersLogged /\ RowsMatch /\ CitesMatch

LEMMA ReplayInit == Init => ReplayInv
  BY DEF Init, Blank, ReplayInv, Cites, RowsOfTheirTime, TiersLogged, RowsMatch, CitesMatch, Known

\* What the steps before phase 3 do to an outcome.
FromRow(q) == /\ phase = "resolve" /\ q \in Hits
              /\ outcome'[q] = Decide(q, CachedRow(q).pick, CachedRow(q).activity)

Anew(q) == outcome'[q].cites = None /\ (q \in deferred \/ outcome'[q].pick = None)

LEMMA OutcomeSteps ==
  ASSUME TypeOK, Shape, NEW r \in Requests,
         \/ Resolve(r) \/ Lookup \/ StartPick \/ Deliver(r) \/ Abort(r) \/ Collect(r) \/ StartApply
         \/ ConnectionFails(r) \/ InvalidAnswer(r) \/ OtherError(r) \/ Answer(r)
         \/ UNCHANGED vars
  PROVE  /\ deferred \subseteq deferred'
         /\ \A q \in Requests : outcome'[q] = outcome[q] \/ FromRow(q) \/ Anew(q)
  <1>1. CASE Resolve(r)
    <2>1. PICK found \in Lookups[r] :
            IF EarlyStage(found) = "deferred"
              THEN deferred' = deferred \cup {r} /\ UNCHANGED outcome
              ELSE /\ outcome' = [outcome EXCEPT ![r] = EarlyOutcome(EarlyStage(found))]
                   /\ UNCHANGED deferred
      BY <1>1 DEF Resolve
    <2> QED BY <2>1 DEF EarlyOutcome, Anew, TypeOK
  <1>2. CASE Lookup
    BY <1>2 DEF Lookup, FromRow
  <1>3. CASE Deliver(r)
    <2>1. r \in deferred
      BY <1>3 DEF Deliver, Shape, Waiting
    <2> QED BY <1>3, <2>1 DEF Deliver, Decide, Anew, TypeOK
  <1>4. CASE Abort(r)
    BY <1>4 DEF Abort, AbortedOutcome, Anew, TypeOK
  <1>5. CASE StartPick \/ Collect(r) \/ StartApply
    BY <1>5 DEF StartPick, Collect, StartApply, memory
  <1>6. CASE ConnectionFails(r) \/ InvalidAnswer(r) \/ OtherError(r) \/ Answer(r)
    BY <1>6 DEF ConnectionFails, InvalidAnswer, OtherError, Answer, callFrame
  <1>7. CASE UNCHANGED vars
    BY <1>7 DEF vars, memory
  <1> QED BY <1>1, <1>2, <1>3, <1>4, <1>5, <1>6, <1>7

LEMMA HitRow ==
  ASSUME TypeOK, NEW r \in Hits
  PROVE  /\ r \in deferred /\ r \in Requests /\ KeyOf[r] \in Keys
         /\ CachedRow(r) = cache[KeyOf[r]] /\ cache[KeyOf[r]] # None
         /\ cache[KeyOf[r]].activity \in Activities /\ cache[KeyOf[r]].activity # None
  <1>1. /\ r \in deferred /\ r \in Requests /\ KeyOf[r] \in Keys
        /\ CachedRow(r) = cache[KeyOf[r]] /\ cache[KeyOf[r]] # None
    BY ReconcileAssumption DEF Hits, CachedRow, TypeOK
  <1>2. cache[KeyOf[r]] \in [pick : Picks, activity : Activities]
    BY <1>1 DEF TypeOK
  <1> QED BY <1>1, <1>2, NoneAssumption

LEMMA ReplayQuiet ==
  ASSUME TypeOK, Shape, ReplayInv, NEW r \in Requests,
         \/ Resolve(r) \/ Lookup \/ StartPick \/ Deliver(r) \/ Abort(r) \/ Collect(r) \/ StartApply
         \/ ConnectionFails(r) \/ InvalidAnswer(r) \/ OtherError(r) \/ Answer(r)
         \/ UNCHANGED vars
  PROVE  ReplayInv'
  <1>1. Quiet /\ Known' = Known
    BY QuietSteps DEF Quiet, Known
  <1>2. deferred \subseteq deferred' /\ \A q \in Requests : outcome'[q] = outcome[q] \/ FromRow(q) \/ Anew(q)
    BY OutcomeSteps
  <1>3. TiersLogged' /\ RowsMatch'
    BY <1>1 DEF ReplayInv, TiersLogged, RowsMatch, Quiet
  <1>4. RowsOfTheirTime'
    <2>1. CASE phase = "pick" /\ phase' = "apply"
      <3>1. \A k \in Keys : cache[k] # None => cache[k].activity.run < run /\ cache[k].activity.run # run
        <4>1. ASSUME NEW k \in Keys, cache[k] # None PROVE cache[k].activity.run \in Nat
          BY <4>1 DEF TypeOK, Activities
        <4>2. run \in Int
          BY DEF TypeOK
        <4> QED BY <2>1, <4>1, <4>2 DEF ReplayInv, RowsOfTheirTime
      <3> QED BY <1>1, <2>1, <3>1 DEF ReplayInv, RowsOfTheirTime, Quiet
    <2>2. CASE phase \in {"resolve", "pick"} /\ phase' \in {"resolve", "pick"}
      BY <1>1, <2>2 DEF ReplayInv, RowsOfTheirTime, Quiet
    <2>3. CASE phase' = phase
      BY <1>1, <2>3 DEF ReplayInv, RowsOfTheirTime, Quiet
    <2> QED BY <1>1, <2>1, <2>2, <2>3 DEF Quiet
  <1>5. Cites'
    <2> SUFFICES ASSUME NEW q \in Requests, outcome'[q] # None
                 PROVE  /\ outcome'[q].cites # None =>
                             q \in deferred' /\ ~outcome'[q].aborted /\ outcome'[q].cites.run < run
                        /\ q \notin deferred' => outcome'[q].pick = None
      BY <1>1 DEF Cites, Quiet
    <2>1. CASE outcome'[q] = outcome[q]
      BY <1>2, <2>1 DEF ReplayInv, Cites
    <2>2. CASE FromRow(q)
      BY <1>2, <2>2, HitRow DEF FromRow, Decide, ReplayInv, RowsOfTheirTime
    <2>3. CASE Anew(q)
      BY <1>2, <2>3 DEF Anew
    <2> QED BY <1>2, <2>1, <2>2, <2>3
  <1>6. CitesMatch'
    <2> SUFFICES ASSUME NEW q \in Requests, NEW a \in Known, outcome'[q] # None, a.id = outcome'[q].cites
                 PROVE  a.outcome.pick = outcome'[q].pick /\ ~a.outcome.aborted
      BY <1>1 DEF CitesMatch
    <2>1. CASE outcome'[q] = outcome[q]
      BY <2>1 DEF ReplayInv, CitesMatch
    <2>2. CASE FromRow(q)
      BY <2>2, HitRow DEF FromRow, Decide, ReplayInv, RowsMatch
    <2>3. CASE Anew(q)
      BY <2>3, NoneAssumption DEF Anew, Known, TypeOK
    <2> QED BY <1>2, <2>1, <2>2, <2>3
  <1> QED BY <1>3, <1>4, <1>5, <1>6 DEF ReplayInv

\* The next request's activity: of this run, in the tier of its pick, and
\* cited by nobody.
LEMMA NewReplay ==
  ASSUME TypeOK, Shape, LogInv, ReplayInv, phase = "apply", applied < NRequests
  PROVE  LET n == applied + 1  a == ActivityOf(n)
         IN /\ a.outcome.pick \in Picks /\ ~a.outcome.aborted =>
                 a.outcome.stage = StageOf(a.id.request, a.outcome.pick)
            /\ \A k \in Keys : cache[k] # None => a.id # cache[k].activity
            /\ \A r \in Requests : outcome[r] # None => a.id # outcome[r].cites
  <1> DEFINE n == applied + 1
             a == ActivityOf(n)
  <1>1. n \in Requests /\ a.id \in Activities /\ a.id.run = run /\ a.id.request = n /\ a.outcome = outcome[n]
    BY NewActivity DEF ActivityOf
  <1>2. run \in Nat /\ applied \in Nat
    BY ReconcileAssumption DEF TypeOK
  <1>3. a.outcome.pick \in Picks /\ ~a.outcome.aborted => a.outcome.stage = StageOf(a.id.request, a.outcome.pick)
    <2>1. outcome[n] # None
      BY <1>1, PoolEmpty
    <2>2. n \in deferred /\ ~outcome[n].aborted => outcome[n].stage = StageOf(n, outcome[n].pick)
      BY <2>1 DEF Shape, Decided
    <2>3. n \notin deferred => outcome[n].pick = None
      BY <1>1, <2>1 DEF ReplayInv, Cites
    <2> QED BY <1>1, <2>2, <2>3, NoneAssumption
  <1>4. ASSUME NEW k \in Keys, cache[k] # None PROVE a.id # cache[k].activity
    BY <1>1, <1>2, <1>4 DEF ReplayInv, RowsOfTheirTime
  <1>5. ASSUME NEW r \in Requests, outcome[r] # None PROVE a.id # outcome[r].cites
    BY <1>1, <1>2, <1>5, NoneAssumption DEF ReplayInv, Cites
  <1> QED BY <1>3, <1>4, <1>5

LEMMA ReplayApply ==
  ASSUME TypeOK, Shape, LogInv, ReplayInv, Apply
  PROVE  ReplayInv'
  <1> DEFINE n == applied + 1
             a == ActivityOf(n)
  <1>1. /\ phase = "apply" /\ phase' = "apply" /\ applied < NRequests /\ applied' = n
        /\ Known' = Known \cup {a} /\ UNCHANGED <<run, outcome, deferred>>
        /\ IF Cacheable(n) THEN Store(n) ELSE UNCHANGED cache
    BY DEF Apply, Known
  <1>2. /\ n \in Requests /\ a.id.run = run /\ a.id.request = n /\ a.outcome = outcome[n] /\ run \in Nat
        /\ applied \in Nat /\ \A b \in Known : b.id # a.id
    BY <1>1, NewActivity, ReconcileAssumption DEF ActivityOf, TypeOK
  <1>3. /\ a.outcome.pick \in Picks /\ ~a.outcome.aborted => a.outcome.stage = StageOf(a.id.request, a.outcome.pick)
        /\ \A k \in Keys : cache[k] # None => a.id # cache[k].activity
        /\ \A r \in Requests : outcome[r] # None => a.id # outcome[r].cites
    BY <1>1, NewReplay
  <1>4. ASSUME NEW k \in Keys
        PROVE  cache'[k] = cache[k] \/ (cache'[k] = [pick |-> outcome[n].pick, activity |-> a.id] /\ ~outcome[n].aborted)
    BY <1>1 DEF Cacheable, Store, TypeOK
  <1>5. Cites'
    BY <1>1 DEF ReplayInv, Cites
  <1>6. CitesMatch'
    BY <1>1, <1>3 DEF ReplayInv, CitesMatch
  <1>7. TiersLogged'
    BY <1>1, <1>3 DEF ReplayInv, TiersLogged
  <1>8. RowsOfTheirTime'
    <2> SUFFICES ASSUME NEW k \in Keys, cache'[k] # None
                 PROVE  /\ cache'[k].activity.run <= run
                        /\ cache'[k].activity.run = run => cache'[k].activity.request <= n
      BY <1>1 DEF RowsOfTheirTime
    <2>1. CASE cache'[k] = cache[k]
      <3>1. cache[k].activity.request \in Nat
        BY <2>1, ReconcileAssumption DEF TypeOK, Activities, Requests
      <3> QED BY <1>1, <1>2, <2>1, <3>1 DEF ReplayInv, RowsOfTheirTime
    <2>2. CASE cache'[k] = [pick |-> outcome[n].pick, activity |-> a.id]
      BY <1>2, <2>2
    <2> QED BY <1>4, <2>1, <2>2
  <1>9. RowsMatch'
    <2> SUFFICES ASSUME NEW k \in Keys, NEW b \in Known', cache'[k] # None, b.id = cache'[k].activity
                 PROVE  b.outcome.pick = cache'[k].pick /\ ~b.outcome.aborted
      BY DEF RowsMatch
    <2>1. CASE cache'[k] = cache[k]
      BY <1>1, <1>3, <2>1 DEF ReplayInv, RowsMatch
    <2>2. CASE cache'[k] = [pick |-> outcome[n].pick, activity |-> a.id] /\ ~outcome[n].aborted
      BY <1>1, <1>2, <2>2
    <2> QED BY <1>4, <2>1, <2>2
  <1> QED BY <1>5, <1>6, <1>7, <1>8, <1>9 DEF ReplayInv

LEMMA ReplayFails ==
  ASSUME TypeOK, Shape, LogInv, ReplayInv, ApplyFails
  PROVE  ReplayInv'
  <1> DEFINE a == ActivityOf(applied + 1)
  <1>1. /\ phase = "apply" /\ phase' = "failed" /\ applied < NRequests /\ UNCHANGED <<run, memory, cache>>
        /\ Known' \subseteq Known \cup {a}
    BY DEF ApplyFails, Known
  <1>2. /\ a.outcome.pick \in Picks /\ ~a.outcome.aborted => a.outcome.stage = StageOf(a.id.request, a.outcome.pick)
        /\ \A k \in Keys : cache[k] # None => a.id # cache[k].activity
        /\ \A r \in Requests : outcome[r] # None => a.id # outcome[r].cites
    BY <1>1, NewReplay
  <1> QED BY <1>1, <1>2 DEF memory, ReplayInv, Cites, RowsOfTheirTime, TiersLogged, RowsMatch, CitesMatch

LEMMA ReplayKept ==
  ASSUME TypeOK, Shape, LogInv, ReplayInv, [Next]_vars
  PROVE  ReplayInv'
  <1>1. CASE StartRun
    <2>1. run \in Nat /\ run' = run + 1 /\ phase' = "resolve" /\ Known' \subseteq Known /\ UNCHANGED <<memory, cache>>
      BY <1>1, ReconcileAssumption DEF StartRun, TypeOK, Known
    <2>2. /\ \A k \in Keys : cache[k] # None => cache[k].activity.run \in Nat
          /\ \A r \in Requests : outcome[r] # None /\ outcome[r].cites # None => outcome[r].cites.run \in Nat
      BY DEF TypeOK, Activities, Outcomes
    <2> QED BY <2>1, <2>2 DEF memory, ReplayInv, Cites, RowsOfTheirTime, TiersLogged, RowsMatch, CitesMatch
  <1>2. CASE Write \/ Flush
    <2>1. /\ phase' \notin {"resolve", "pick", "apply"} /\ Known' \subseteq Known /\ UNCHANGED <<run, memory, cache>>
      BY <1>2 DEF Write, Flush, Known
    <2> QED BY <2>1 DEF memory, ReplayInv, Cites, RowsOfTheirTime, TiersLogged, RowsMatch, CitesMatch
  <1>3. CASE Exit \/ Crash
    <2>1. phase' = "down" /\ outcome' = Blank /\ Known' \subseteq Known /\ UNCHANGED <<run, cache>>
      BY <1>3 DEF Exit, Crash, Gone, disk, Known
    <2> QED BY <2>1 DEF Blank, ReplayInv, Cites, RowsOfTheirTime, TiersLogged, RowsMatch, CitesMatch
  <1>4. 1 \in Requests
    BY ReconcileAssumption DEF Requests
  <1> QED BY <1>1, <1>2, <1>3, <1>4, ReplayQuiet, ReplayApply, ReplayFails DEF Next

\* A request replayed from the cache lands in the tier, and binds the
\* authority, of the run in which the picker was asked.
THEOREM WarmReplayHolds == Spec => []WarmReplaySameTier
  <1>1. Spec => [](TypeOK /\ Shape)
    BY TypesAndShape
  <1>2. Spec => []LogInv
    BY <1>1, LogInit, LogKept, PTL DEF Spec
  <1>3. TypeOK /\ Shape /\ LogInv /\ ReplayInv /\ [Next]_vars => ReplayInv'
    BY ReplayKept
  <1>4. Spec => []ReplayInv
    BY <1>1, <1>2, <1>3, ReplayInit, PTL DEF Spec
  <1>5. TypeOK /\ Shape /\ ReplayInv => WarmReplaySameTier
    <2> SUFFICES ASSUME TypeOK, Shape, ReplayInv, NEW r \in Requests, NEW a \in Known,
                        outcome[r] # None, a.id = outcome[r].cites, a.id.request = r
                 PROVE  UriOf(outcome[r]) = UriOf(a.outcome) /\ outcome[r].stage = a.outcome.stage
      BY DEF WarmReplaySameTier
    <2>1. outcome[r].cites # None
      BY NoneAssumption DEF Known, TypeOK
    <2>2. r \in deferred /\ ~outcome[r].aborted /\ a.outcome.pick = outcome[r].pick /\ ~a.outcome.aborted
      BY <2>1 DEF ReplayInv, Cites, CitesMatch
    <2>3. outcome[r].pick \in Picks /\ outcome[r].stage = StageOf(r, outcome[r].pick)
      BY <2>2 DEF Shape, Decided
    <2>4. a.outcome.stage = StageOf(r, outcome[r].pick)
      BY <2>2, <2>3 DEF ReplayInv, TiersLogged
    <2> QED BY <2>2, <2>3, <2>4 DEF UriOf
  <1> QED BY <1>1, <1>4, <1>5, PTL
=============================================================================
