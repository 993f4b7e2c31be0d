-------------------------- MODULE JudgePairProofs --------------------------
(***************************************************************************)
(* Proofs about JudgePair, for every retry limit, backoff, timeout and     *)
(* assignment of models to tiers.                                          *)
(***************************************************************************)
EXTENDS JudgePair, TLAPS

\* The sort of a verdict: what the action proofs need of the record sets.
LEMMA VerdictFacts ==
  /\ FellThrough \in Verdicts
  /\ ValidatedDecisions \subseteq Verdicts
  /\ FellThrough.rationale = "fell_through"
  /\ \A d \in ValidatedDecisions : d.rationale = "llm"
  /\ NeedsSecondOpinion(FellThrough)
  BY DEF Verdicts, ValidatedDecisions, Decisions, FellThrough, Labels, NeedsSecondOpinion

\* Where cascade_judge is determines how many steps it has: none before the
\* first answer, one unfinished primary answer before the fallback's, and a
\* complete cascade on landing.
Shape ==
  /\ steps = <<>> \/ Len(steps) \in {1, 2}
  /\ Len(steps) >= 1 => steps[1].tier = "primary"
  /\ Len(steps) = 2 => steps[2].tier = "fallback" /\ NeedsSecondOpinion(steps[1].decision)
  /\ pc \in {"idle", "raised"} => steps = <<>> /\ events = {}
  /\ pc \in {"lookup", "loop", "calling"} =>
       steps = <<>> \/ (Len(steps) = 1 /\ NeedsSecondOpinion(steps[1].decision))
  /\ pc = "landed" => Complete(steps) /\ Len(steps) >= 1

\* What judge_pair's return does to the steps, once for all six places that
\* return.
LEMMA ReturnShape ==
  ASSUME TypeOK, Shape, pc \in {"lookup", "loop", "calling"},
         NEW d \in Verdicts, NEW hit \in BOOLEAN, Return(d, hit)
  PROVE  /\ steps' \in Seq(CascadeSteps)
         /\ Len(steps') = Len(steps) + 1 /\ Len(steps') \in {1, 2}
         /\ steps'[Len(steps')] = [tier |-> Tier, decision |-> d, hit |-> hit]
         /\ Len(steps) = 1 => steps'[1] = steps[1]
         /\ Len(steps) \in {0, 1}
         /\ Len(steps) = 0 => Tier = "primary"
         /\ Len(steps) = 1 => Tier = "fallback"
         /\ pc' \in {"landed", "lookup"}
         /\ pc' = "landed" => Complete(steps')
         /\ pc' = "lookup" => Len(steps') = 1 /\ NeedsSecondOpinion(d)
         /\ settled' \in ValidatedDecisions \cup {None}
         /\ Shape'
  <1> DEFINE s == [tier |-> Tier, decision |-> d, hit |-> hit]
  <1>1. s \in CascadeSteps
    BY DEF CascadeSteps, Tier, NextTier, Tiers
  <1>2. steps' = Append(steps, s) /\ steps \in Seq(CascadeSteps)
    BY DEF Return, TypeOK
  <1>3. /\ steps' \in Seq(CascadeSteps)
        /\ Len(steps') = Len(steps) + 1
        /\ steps'[Len(steps) + 1] = s
        /\ Len(steps) >= 1 => steps'[1] = steps[1]
    BY <1>1, <1>2
  <1>4. Len(steps) \in {0, 1} /\ (Len(steps) = 0 <=> steps = <<>>)
    BY <1>2 DEF Shape
  <1>4a. Len(steps') = Len(steps) + 1
    BY <1>3
  <1>4b. Len(steps') \in {1, 2}
    BY <1>2, <1>3, <1>4, <1>4a
  <1>5. /\ Len(steps) = 0 => Tier = "primary"
        /\ Len(steps) = 1 => Tier = "fallback"
    BY <1>4 DEF Tier, NextTier
  <1>6. /\ pc' \in {"landed", "lookup"}
        /\ pc' = "landed" => Complete(steps')
        /\ pc' = "lookup" => ~Complete(steps')
    BY DEF Return
  <1>7. pc' = "lookup" => Len(steps') = 1 /\ NeedsSecondOpinion(d)
    <2>1. s.decision = d
      OBVIOUS
    <2>3. Len(steps') = 1 => steps'[1].decision = d
      <3> SUFFICES ASSUME Len(steps') = 1 PROVE steps'[1].decision = d
        OBVIOUS
      <3>1. Len(steps) + 1 = 1
        BY <1>3
      <3> QED BY <3>1, <1>3, <2>1
    <2> QED BY <1>4b, <2>3, <1>6 DEF Complete
  <1>8. Len(steps) = 1 => NeedsSecondOpinion(steps[1].decision)
    BY <1>4 DEF Shape
  <1>9. s.tier = Tier /\ s.decision = d
    OBVIOUS
  <1>10. Shape'
    <2>2. CASE Len(steps) = 0
      BY <1>4b, <2>2, <1>3, <1>5, <1>6, <1>7, <1>9 DEF Shape
    <2>3. CASE Len(steps) = 1
      BY <1>4b, <2>3, <1>3, <1>4, <1>5, <1>6, <1>7, <1>8, <1>9 DEF Shape
    <2> QED BY <2>2, <2>3, <1>4
  <1>11. settled' \in ValidatedDecisions \cup {None}
    <2>1. ASSUME AllValidated(steps') PROVE Final(steps') \in ValidatedDecisions
      <3>1. Len(steps') \in DOMAIN steps' /\ Final(steps') = s.decision
        BY <1>3, <1>4a, <1>4b DEF Final
      <3>2. d.rationale = "llm"
        BY <2>1, <3>1, <1>9 DEF AllValidated, Final
      <3> QED BY <3>1, <3>2, <1>9, VerdictFacts DEF Verdicts
    <2> QED BY <2>1 DEF Return, TypeOK
  <1> QED BY <1>3, <1>4, <1>4a, <1>4b, <1>5, <1>6, <1>7, <1>10, <1>11

\* The model a running cascade asks, and its cache row.
LEMMA ModelFacts ==
  ASSUME TypeOK
  PROVE  /\ Tier \in Tiers /\ Model \in Models
         /\ cache[Model] \in ValidatedDecisions \cup {None}
         /\ None \notin Verdicts
  BY RetryAssumption DEF TypeOK, Tier, Model, NextTier, Tiers

\* The clock stays a number of seconds.
LEMMA SpendType ==
  ASSUME TypeOK, NEW e \in Nat, NEW p \in Nat, Spend(e, p)
  PROVE  now' \in Nat /\ lastCall' \in Nat
  BY DEF TypeOK, Spend

LEMMA BackoffType ==
  ASSUME TypeOK, conn < MaxConnectionRetries
  PROVE  Backoff[conn] \in 0..MaxBackoff /\ conn + 1 \in 0..MaxConnectionRetries
  BY RetryAssumption DEF TypeOK

LEMMA DurationType == \A e \in CallDurations : e \in Nat
  BY RetryAssumption

\* Every action keeps every variable in its sort.
LEMMA TypeStep ==
  ASSUME TypeOK, Shape, [Next]_vars
  PROVE  TypeOK'
  <1>1. CASE BeginPair
    BY <1>1, RetryAssumption DEF BeginPair, TypeOK, Locations, CallCap, CallsPerTier
  <1>2. CASE CacheHit
    <2>1. cache[Model] \in Verdicts
      BY <1>2, ModelFacts, VerdictFacts DEF CacheHit
    <2>2. /\ steps' \in Seq(CascadeSteps) /\ pc' \in Locations
          /\ settled' \in ValidatedDecisions \cup {None}
      BY <1>2, <2>1, ReturnShape DEF CacheHit, Locations
    <2> QED BY <1>2, <2>2 DEF CacheHit, TypeOK
  <1>3. CASE CacheMiss
    BY <1>3, RetryAssumption DEF CacheMiss, TypeOK, Locations
  <1>4. CASE BudgetExceeded
    <2>1. /\ steps' \in Seq(CascadeSteps) /\ pc' \in Locations
          /\ settled' \in ValidatedDecisions \cup {None}
      BY <1>4, VerdictFacts, ReturnShape DEF BudgetExceeded, Locations
    <2>2. Event("pair_budget_exceeded") \in Events
      BY ModelFacts DEF Event, Events, TypeOK
    <2> QED BY <1>4, <2>1, <2>2 DEF BudgetExceeded, TypeOK
  <1>5. CASE StartCall
    BY <1>5, RetryAssumption DEF StartCall, TypeOK, Locations, CallCap, CallsPerTier
  <1>6. ASSUME NEW e \in Nat, RetryConnection(e)
        PROVE  /\ now' \in Nat /\ lastCall' \in Nat /\ conn' \in 0..MaxConnectionRetries
               /\ pc' \in Locations /\ steps' = steps /\ settled' = settled
    <2>1. Backoff[conn] \in Nat
      BY <1>6, BackoffType, RetryAssumption DEF RetryConnection
    <2> QED BY <1>6, <2>1, SpendType, BackoffType DEF RetryConnection, Locations
  <1>7. CASE ConnectionError
    <2>1. PICK e \in CallDurations :
            \/ RetryConnection(e)
            \/ /\ conn = MaxConnectionRetries
               /\ Spend(e, 0)
               /\ Return(FellThrough, FALSE)
               /\ UNCHANGED conn
      BY <1>7 DEF ConnectionError
    <2>2. CASE RetryConnection(e)
      BY <1>6, <1>7, <2>2, DurationType DEF ConnectionError, TypeOK
    <2>3. CASE Return(FellThrough, FALSE) /\ Spend(e, 0) /\ UNCHANGED conn
      <3>1. /\ steps' \in Seq(CascadeSteps) /\ pc' \in Locations
            /\ settled' \in ValidatedDecisions \cup {None}
        BY <1>7, <2>3, VerdictFacts, ReturnShape DEF ConnectionError, Locations
      <3> QED BY <1>7, <2>3, <3>1, SpendType, DurationType DEF ConnectionError, TypeOK
    <2> QED BY <2>1, <2>2, <2>3
  <1>8. CASE Timeout
    <2>1. Event("timeout") \in Events /\ Event("give_up") \in Events
      BY ModelFacts DEF Event, Events, TypeOK
    <2>2. PICK e \in CallDurations :
            \/ RetryConnection(e) /\ events' = events \cup {Event("timeout")}
            \/ /\ Spend(e, 0)
               /\ Return(FellThrough, FALSE)
               /\ events' = events \cup {Event("timeout"), Event("give_up")}
               /\ UNCHANGED conn
      BY <1>8 DEF Timeout
    <2>3. CASE RetryConnection(e) /\ events' = events \cup {Event("timeout")}
      BY <1>6, <1>8, <2>1, <2>3, DurationType DEF Timeout, TypeOK
    <2>4. CASE /\ Spend(e, 0)
               /\ Return(FellThrough, FALSE)
               /\ events' = events \cup {Event("timeout"), Event("give_up")}
               /\ UNCHANGED conn
      <3>1. /\ steps' \in Seq(CascadeSteps) /\ pc' \in Locations
            /\ settled' \in ValidatedDecisions \cup {None}
        BY <1>8, <2>4, VerdictFacts, ReturnShape DEF Timeout, Locations
      <3>2. now' \in Nat /\ lastCall' \in Nat
        BY <2>4, SpendType, DurationType
      <3> QED BY <1>8, <2>1, <2>4, <3>1, <3>2 DEF Timeout, TypeOK
    <2> QED BY <2>2, <2>3, <2>4
  <1>9. CASE UnrecoverableError
    <2>1. now' \in Nat /\ lastCall' \in Nat
      BY <1>9, SpendType, DurationType DEF UnrecoverableError
    <2>2. /\ steps' \in Seq(CascadeSteps) /\ pc' \in Locations
          /\ settled' \in ValidatedDecisions \cup {None}
      BY <1>9, VerdictFacts, ReturnShape DEF UnrecoverableError, Locations
    <2> QED BY <1>9, <2>1, <2>2 DEF UnrecoverableError, TypeOK
  <1>10. CASE InvalidAnswer
    <2>1. now' \in Nat /\ lastCall' \in Nat
      BY <1>10, SpendType, DurationType DEF InvalidAnswer
    <2>2. CASE val < MaxValidationRetries /\ val' = val + 1 /\ pc' = "loop"
                 /\ UNCHANGED <<steps, settled>>
      BY <1>10, <2>1, <2>2, RetryAssumption DEF InvalidAnswer, TypeOK, Locations
    <2>3. CASE Return(FellThrough, FALSE) /\ UNCHANGED val
      <3>1. /\ steps' \in Seq(CascadeSteps) /\ pc' \in Locations
            /\ settled' \in ValidatedDecisions \cup {None}
        BY <1>10, <2>3, VerdictFacts, ReturnShape DEF InvalidAnswer, Locations
      <3> QED BY <1>10, <2>1, <2>3, <3>1 DEF InvalidAnswer, TypeOK
    <2> QED BY <1>10, <2>2, <2>3 DEF InvalidAnswer
  <1>11. CASE ValidAnswer
    <2>1. now' \in Nat /\ lastCall' \in Nat
      BY <1>11, SpendType, DurationType DEF ValidAnswer
    <2>2. PICK d \in ValidatedDecisions : Store(d) /\ Return(d, FALSE)
      BY <1>11 DEF ValidAnswer
    <2>3. /\ steps' \in Seq(CascadeSteps) /\ pc' \in Locations
          /\ settled' \in ValidatedDecisions \cup {None}
      BY <1>11, <2>2, VerdictFacts, ReturnShape DEF ValidAnswer, Locations
    <2>4. cache' \in [Models -> ValidatedDecisions \cup {None}]
      BY <2>2 DEF Store, TypeOK
    <2> QED BY <1>11, <2>1, <2>3, <2>4 DEF ValidAnswer, TypeOK
  <1>12. CASE ConversionError \/ Die
    <2>1. /\ cache' = cache /\ settled' = settled /\ pc' \in {"raised", "idle"}
          /\ steps' = <<>> /\ events' = {}
          /\ conn' = 0 /\ val' = 0 /\ now' = 0 /\ lastCall' = 0 /\ calls' = 0
      BY <1>12 DEF ConversionError, Die, Abandon
    <2> QED BY <2>1, RetryAssumption DEF TypeOK, Locations, CallCap, CallsPerTier
  <1>13. CASE UNCHANGED vars
    BY <1>13 DEF vars, TypeOK
  <1> QED
    BY <1>1, <1>2, <1>3, <1>4, <1>5, <1>7, <1>8, <1>9, <1>10, <1>11, <1>12, <1>13
    DEF Next, Judge

LEMMA ShapeStep ==
  ASSUME TypeOK, Shape, [Next]_vars
  PROVE  Shape'
  <1>0. FellThrough \in Verdicts
    BY VerdictFacts
  <1>1. CASE BeginPair
    BY <1>1 DEF BeginPair, Shape
  <1>2. CASE CacheHit
    <2>1. cache[Model] \in Verdicts
      BY <1>2, ModelFacts, VerdictFacts DEF CacheHit
    <2> QED BY <1>2, <2>1, ReturnShape DEF CacheHit
  <1>3. CASE CacheMiss
    BY <1>3 DEF CacheMiss, Shape
  <1>4. CASE BudgetExceeded
    BY <1>0, <1>4, ReturnShape DEF BudgetExceeded
  <1>5. CASE StartCall
    BY <1>5 DEF StartCall, Shape
  <1>6. ASSUME pc = "calling", pc' = "loop", steps' = steps
        PROVE  Shape'
    BY <1>6 DEF Shape
  <1>7. CASE ConnectionError
    BY <1>0, <1>6, <1>7, ReturnShape DEF ConnectionError, RetryConnection
  <1>8. CASE Timeout
    BY <1>0, <1>6, <1>8, ReturnShape DEF Timeout, RetryConnection
  <1>9. CASE UnrecoverableError
    BY <1>0, <1>9, ReturnShape DEF UnrecoverableError
  <1>10. CASE InvalidAnswer
    BY <1>0, <1>6, <1>10, ReturnShape DEF InvalidAnswer
  <1>11. CASE ValidAnswer
    BY <1>11, VerdictFacts, ReturnShape DEF ValidAnswer
  <1>12. CASE ConversionError \/ Die
    BY <1>12 DEF ConversionError, Die, Abandon, Shape
  <1>13. CASE UNCHANGED vars
    BY <1>13 DEF vars, Shape
  <1> QED
    BY <1>1, <1>2, <1>3, <1>4, <1>5, <1>7, <1>8, <1>9, <1>10, <1>11, <1>12, <1>13
    DEF Next, Judge

\* THE TYPE INVARIANT: every variable keeps its sort; in particular the cache
\* only ever holds validated decisions and the attempt counters stay within
\* the retry limits.
THEOREM TypeCorrect == Spec => []TypeOK
  <1>1. Init => TypeOK /\ Shape
    BY RetryAssumption DEF Init, TypeOK, Shape, Locations, CallCap, CallsPerTier
  <1>2. TypeOK /\ Shape /\ [Next]_vars => TypeOK' /\ Shape'
    BY TypeStep, ShapeStep
  <1> QED BY <1>1, <1>2, PTL DEF Spec

-----------------------------------------------------------------------------
(* The budget *)

\* A call starts only before the deadline, so the clock is at most that call and
\* one backoff beyond it when the next check is made.
Clock ==
  PairTimeout > 0 =>
    /\ now <= PairTimeout + lastCall + MaxBackoff
    /\ pc = "calling" => now <= PairTimeout

LEMMA ClockStep ==
  ASSUME TypeOK, Shape, Clock, [Next]_vars
  PROVE  Clock'
  <1> SUFFICES ASSUME PairTimeout > 0
               PROVE  /\ now' <= PairTimeout + lastCall' + MaxBackoff
                      /\ pc' = "calling" => now' <= PairTimeout
    BY DEF Clock
  <1>0. /\ PairTimeout \in Nat /\ MaxBackoff \in Nat
        /\ now \in Nat /\ lastCall \in Nat
    BY RetryAssumption DEF TypeOK
  <1>1. ASSUME now' = now, lastCall' = lastCall, pc' # "calling" \/ ~Expired
        PROVE  /\ now' <= PairTimeout + lastCall' + MaxBackoff
               /\ pc' = "calling" => now' <= PairTimeout
    BY <1>0, <1>1 DEF Clock, Expired
  <1>2. ASSUME now' = 0, lastCall' = 0
        PROVE  /\ now' <= PairTimeout + lastCall' + MaxBackoff
               /\ pc' = "calling" => now' <= PairTimeout
    BY <1>0, <1>2
  <1>3. ASSUME NEW d \in Verdicts, NEW hit \in BOOLEAN, Return(d, hit)
        PROVE  pc' # "calling"
    BY <1>3 DEF Return
  <1>4. ASSUME pc = "calling", pc' # "calling", NEW e \in Nat, NEW p \in 0..MaxBackoff,
               Spend(e, p)
        PROVE  /\ now' <= PairTimeout + lastCall' + MaxBackoff
               /\ pc' = "calling" => now' <= PairTimeout
    BY <1>0, <1>4 DEF Clock, Spend
  <1>5. 0 \in 0..MaxBackoff
    BY <1>0
  <1>6. ASSUME pc = "calling", NEW e \in Nat, RetryConnection(e)
        PROVE  /\ now' <= PairTimeout + lastCall' + MaxBackoff
               /\ pc' = "calling" => now' <= PairTimeout
    <2>1. Backoff[conn] \in 0..MaxBackoff
      BY <1>6, BackoffType DEF RetryConnection
    <2> QED BY <1>4, <1>6, <2>1 DEF RetryConnection
  <1>7. FellThrough \in Verdicts
    BY VerdictFacts
  <1>8. CASE BeginPair \/ ConversionError \/ Die
    BY <1>2, <1>8 DEF BeginPair, ConversionError, Die, Abandon
  <1>9. CASE CacheHit
    BY <1>1, <1>9 DEF CacheHit, Return
  <1>10. CASE CacheMiss
    BY <1>1, <1>10 DEF CacheMiss
  <1>11. CASE BudgetExceeded
    BY <1>1, <1>11 DEF BudgetExceeded, Return
  <1>12. CASE StartCall
    BY <1>1, <1>12 DEF StartCall
  <1>13. CASE ConnectionError
    BY <1>3, <1>4, <1>5, <1>6, <1>7, <1>13, DurationType DEF ConnectionError
  <1>14. CASE Timeout
    BY <1>3, <1>4, <1>5, <1>6, <1>7, <1>14, DurationType DEF Timeout
  <1>15. CASE UnrecoverableError
    BY <1>3, <1>4, <1>5, <1>7, <1>15, DurationType DEF UnrecoverableError
  <1>16. CASE InvalidAnswer
    BY <1>3, <1>4, <1>5, <1>7, <1>16, DurationType DEF InvalidAnswer
  <1>17. CASE ValidAnswer
    BY <1>3, <1>4, <1>5, <1>17, DurationType, VerdictFacts DEF ValidAnswer
  <1>18. CASE UNCHANGED vars
    BY <1>0, <1>18 DEF vars, Clock
  <1> QED
    BY <1>8, <1>9, <1>10, <1>11, <1>12, <1>13, <1>14, <1>15, <1>16, <1>17, <1>18
    DEF Next, Judge

\* THE BUDGET BOUND: whatever the timeouts and backoffs, and however long single
\* calls last, a pair never overruns its budget by more than the call in flight
\* when it ran out and one backoff, over both tiers together.
THEOREM BudgetBound == Spec => []OverrunBounded
  <1>1. Init => TypeOK /\ Shape /\ Clock
    BY RetryAssumption DEF Init, TypeOK, Shape, Clock, Locations, CallCap, CallsPerTier
  <1>2. TypeOK /\ Shape /\ Clock /\ [Next]_vars => TypeOK' /\ Shape' /\ Clock'
    BY TypeStep, ShapeStep, ClockStep
  <1>3. Clock => OverrunBounded
    BY DEF Clock, OverrunBounded
  <1> QED BY <1>1, <1>2, <1>3, PTL DEF Spec

\* An exceeded budget stays exceeded for the rest of the cascade, so it also
\* stops the fallback, which checks the same deadline.
BudgetSpent == \E e \in events : e.event = "pair_budget_exceeded"

Spent ==
  /\ BudgetSpent => Expired /\ pc # "calling"
  /\ pc \in {"idle", "raised"} => events = {}

LEMMA SpentStep ==
  ASSUME TypeOK, Spent, [Next]_vars
  PROVE  /\ Spent'
         /\ BudgetSpent /\ pc' \notin {"idle", "raised"} /\ pc # "landed" => calls' = calls
  <1>0. ASSUME NEW d, NEW hit, Return(d, hit)
        PROVE  pc' \in {"lookup", "landed"}
    BY <1>0 DEF Return
  <1>1. CASE BeginPair \/ ConversionError \/ Die
    BY <1>1 DEF BeginPair, ConversionError, Die, Abandon, Spent, BudgetSpent
  <1>2. CASE CacheHit
    BY <1>0, <1>2 DEF CacheHit, Spent, BudgetSpent, Expired
  <1>3. CASE CacheMiss
    BY <1>3 DEF CacheMiss, Spent, BudgetSpent, Expired
  <1>4. CASE BudgetExceeded
    BY <1>0, <1>4 DEF BudgetExceeded, Spent, BudgetSpent, Expired
  <1>5. CASE StartCall
    BY <1>5 DEF StartCall, Spent, BudgetSpent, Expired
  <1>6. ASSUME pc = "calling", pc' \in {"lookup", "landed", "loop"},
               \A e \in events' : e \in events \/ e.event # "pair_budget_exceeded"
        PROVE  Spent' /\ ~BudgetSpent
    BY <1>6 DEF Spent, BudgetSpent
  <1>7. CASE ConnectionError
    BY <1>0, <1>6, <1>7 DEF ConnectionError, RetryConnection
  <1>8. CASE Timeout
    <2>1. /\ Event("timeout").event # "pair_budget_exceeded"
          /\ Event("give_up").event # "pair_budget_exceeded"
      BY DEF Event
    <2>2. pc = "calling" /\ pc' \in {"lookup", "landed", "loop"}
      BY <1>0, <1>8 DEF Timeout, RetryConnection
    <2>3. \A e \in events' : e \in events \/ e.event # "pair_budget_exceeded"
      BY <1>8, <2>1 DEF Timeout
    <2> QED BY <1>6, <2>2, <2>3
  <1>9. CASE UnrecoverableError
    BY <1>0, <1>6, <1>9 DEF UnrecoverableError
  <1>10. CASE InvalidAnswer
    BY <1>0, <1>6, <1>10 DEF InvalidAnswer
  <1>11. CASE ValidAnswer
    BY <1>0, <1>6, <1>11 DEF ValidAnswer
  <1>12. CASE UNCHANGED vars
    BY <1>12 DEF vars, Spent, BudgetSpent, Expired
  <1> QED
    BY <1>1, <1>2, <1>3, <1>4, <1>5, <1>7, <1>8, <1>9, <1>10, <1>11, <1>12
    DEF Next, Judge

\* NO CALL AFTER THE BUDGET: once a pair has logged pair_budget_exceeded, neither
\* tier calls a model for it again in that run.
THEOREM BudgetSilences == Spec => NoCallAfterBudget
  <1>1. Init => TypeOK /\ Shape /\ Spent
    BY RetryAssumption
    DEF Init, TypeOK, Shape, Spent, BudgetSpent, Locations, CallCap, CallsPerTier
  <1>2. TypeOK /\ Shape /\ Spent /\ [Next]_vars => TypeOK' /\ Shape' /\ Spent'
    BY TypeStep, ShapeStep, SpentStep
  <1>3. TypeOK /\ Spent /\ [Next]_vars
          => [BudgetSpent /\ pc' \notin {"idle", "raised"} /\ pc # "landed" => calls' = calls]_vars
    BY SpentStep
  <1>4. (BudgetSpent /\ pc' \notin {"idle", "raised"} /\ pc # "landed" => calls' = calls)
          <=> ((\E e \in events : e.event = "pair_budget_exceeded")
                 /\ pc' \notin {"idle", "raised"} /\ pc # "landed" => calls' = calls)
    BY DEF BudgetSpent
  <1>5. TypeOK /\ Spent /\ [Next]_vars
          => [(\E e \in events : e.event = "pair_budget_exceeded")
                 /\ pc' \notin {"idle", "raised"} /\ pc # "landed" => calls' = calls]_vars
    BY <1>3, <1>4
  <1> QED BY <1>1, <1>2, <1>5, PTL DEF Spec, NoCallAfterBudget

-----------------------------------------------------------------------------
(* The number of calls *)

\* What the answered tiers may have cost, and what the running one has.
Answered == CASE Len(steps) = 0 -> 0
              [] Len(steps) = 1 -> CallsPerTier
              [] OTHER -> 2 * CallsPerTier

Running == CASE pc = "loop" -> conn + val
             [] pc = "calling" -> 1 + conn + val
             [] OTHER -> 0

Count == calls <= Answered + Running

LEMMA CountStep ==
  ASSUME TypeOK, Shape, Count, [Next]_vars
  PROVE  Count'
  <1>0. /\ MaxConnectionRetries \in Nat /\ MaxValidationRetries \in Nat
        /\ conn \in 0..MaxConnectionRetries /\ val \in 0..MaxValidationRetries
        /\ calls \in Nat /\ steps \in Seq(CascadeSteps)
        /\ CallsPerTier \in Nat /\ CallsPerTier = 1 + MaxConnectionRetries + MaxValidationRetries
    BY RetryAssumption DEF TypeOK, CallCap, CallsPerTier
  <1>1. Answered \in Nat /\ Running \in Nat
    BY <1>0 DEF Answered, Running
  <1>2. ASSUME calls' = 0, steps' = <<>>, pc' \in {"lookup", "idle", "raised"}
        PROVE  Count'
    BY <1>0, <1>2 DEF Count, Answered, Running
  \* A tier that returns has made at most CallsPerTier calls.
  <1>3. ASSUME pc \in {"lookup", "loop", "calling"}, calls' = calls,
               NEW d \in Verdicts, NEW hit \in BOOLEAN, Return(d, hit)
        PROVE  Count'
    <2>1. /\ Len(steps) \in {0, 1} /\ Len(steps') = Len(steps) + 1
          /\ Len(steps') \in {1, 2} /\ pc' \in {"landed", "lookup"}
          /\ steps' \in Seq(CascadeSteps)
      BY <1>3, ReturnShape
    <2>2. Running' = 0 /\ Running <= CallsPerTier
      BY <1>0, <2>1 DEF Running
    <2>3. CallsPerTier' = CallsPerTier
      BY DEF CallsPerTier
    <2>4. CASE Len(steps) = 0
      <3>1. Answered = 0 /\ Answered' = CallsPerTier
        BY <1>0, <2>1, <2>3, <2>4 DEF Answered
      <3> QED BY <1>0, <1>1, <1>3, <2>2, <3>1 DEF Count
    <2>5. CASE Len(steps) = 1
      <3>1. Answered = CallsPerTier /\ Answered' = 2 * CallsPerTier
        BY <1>0, <2>1, <2>3, <2>5 DEF Answered
      <3> QED BY <1>0, <1>1, <1>3, <2>2, <3>1 DEF Count
    <2> QED BY <2>1, <2>4, <2>5
  <1>4. ASSUME steps' = steps
        PROVE  Answered' = Answered
    BY <1>4 DEF Answered, CallsPerTier
  <1>5. ASSUME pc = "calling", pc' = "loop", steps' = steps, calls' = calls,
               \/ conn' = conn + 1 /\ val' = val
               \/ conn' = conn /\ val' = val + 1
        PROVE  Count'
    <2>1. Running' = Running
      BY <1>0, <1>5 DEF Running
    <2> QED BY <1>4, <1>5, <2>1 DEF Count
  <1>6. FellThrough \in Verdicts /\ ValidatedDecisions \subseteq Verdicts
    BY VerdictFacts
  <1>7. CASE BeginPair \/ ConversionError \/ Die
    BY <1>2, <1>7 DEF BeginPair, ConversionError, Die, Abandon
  <1>8. CASE CacheHit
    BY <1>3, <1>6, <1>8, ModelFacts DEF CacheHit
  <1>9. CASE CacheMiss
    <2>1. Running = 0 /\ Running' = 0
      BY <1>9 DEF CacheMiss, Running
    <2> QED BY <1>4, <1>9, <2>1 DEF CacheMiss, Count
  <1>10. CASE BudgetExceeded
    BY <1>3, <1>6, <1>10 DEF BudgetExceeded
  <1>11. CASE StartCall
    <2>1. Running' = Running + 1
      BY <1>0, <1>11 DEF StartCall, Running
    <2>2. calls' <= calls + 1 /\ calls' \in Nat
      BY <1>0, <1>11 DEF StartCall
    <2>3. Answered' = Answered
      BY <1>4, <1>11 DEF StartCall
    <2> QED BY <1>0, <1>1, <2>1, <2>2, <2>3 DEF Count
  <1>12. CASE ConnectionError
    BY <1>3, <1>5, <1>6, <1>12 DEF ConnectionError, RetryConnection
  <1>13. CASE Timeout
    BY <1>3, <1>5, <1>6, <1>13 DEF Timeout, RetryConnection
  <1>14. CASE UnrecoverableError
    BY <1>3, <1>6, <1>14 DEF UnrecoverableError
  <1>15. CASE InvalidAnswer
    BY <1>3, <1>5, <1>6, <1>15 DEF InvalidAnswer
  <1>16. CASE ValidAnswer
    BY <1>3, <1>6, <1>16 DEF ValidAnswer
  <1>17. CASE UNCHANGED vars
    <2>1. Running' = Running /\ Answered' = Answered /\ calls' = calls
      BY <1>4, <1>17 DEF vars, Running
    <2> QED BY <2>1 DEF Count
  <1> QED
    BY <1>7, <1>8, <1>9, <1>10, <1>11, <1>12, <1>13, <1>14, <1>15, <1>16, <1>17
    DEF Next, Judge

\* THE CALL BOUND: the two retry layers add up instead of multiplying; for any
\* order of failures a tier makes at most one call plus its retries.
THEOREM CallBound == Spec => []CallsBounded
  <1>1. Init => TypeOK /\ Shape /\ Count
    BY RetryAssumption
    DEF Init, TypeOK, Shape, Count, Answered, Running, Locations, CallCap, CallsPerTier
  <1>2. TypeOK /\ Shape /\ Count /\ [Next]_vars => TypeOK' /\ Shape' /\ Count'
    BY TypeStep, ShapeStep, CountStep
  <1>3. TypeOK /\ Shape /\ Count => CallsBounded
    <2> SUFFICES ASSUME TypeOK, Shape, Count PROVE CallsBounded
      OBVIOUS
    <2>0. /\ calls \in Nat /\ CallsPerTier \in Nat /\ steps \in Seq(CascadeSteps)
          /\ conn + val + 1 <= CallsPerTier /\ conn \in Nat /\ val \in Nat
      BY RetryAssumption DEF TypeOK, CallCap, CallsPerTier
    <2>1. Running \in Nat /\ Running <= CallsPerTier
      BY <2>0 DEF Running
    <2>2. CASE Len(steps) = 0
      <3>1. Answered = 0 /\ pc # "landed"
        BY <2>2 DEF Answered, Shape
      <3> QED BY <2>0, <2>1, <2>2, <3>1 DEF Count, CallsBounded
    <2>3. CASE Len(steps) = 1
      <3>1. Answered = CallsPerTier
        BY <2>0, <2>3 DEF Answered
      <3>2. pc = "landed" => Running = 0
        BY DEF Running
      <3>3. CASE pc = "landed"
        BY <2>0, <2>3, <3>1, <3>2, <3>3 DEF Count, CallsBounded
      <3>4. CASE pc # "landed"
        <4>1. CallsPerTier * (Len(steps) + 1) = CallsPerTier + CallsPerTier
          BY <2>0, <2>3
        <4> QED BY <2>0, <2>1, <3>1, <3>4, <4>1 DEF Count, CallsBounded
      <3> QED BY <3>3, <3>4
    <2>4. CASE Len(steps) = 2
      <3>1. Answered = 2 * CallsPerTier
        BY <2>0, <2>4 DEF Answered
      <3>2. pc = "landed"
        <4>1. steps # <<>> /\ Len(steps) # 1
          BY <2>4
        <4> QED BY <4>1 DEF Shape, TypeOK, Locations
      <3>3. Running = 0
        BY <3>2 DEF Running
      <3>4. CallsPerTier * Len(steps) = 2 * CallsPerTier
        BY <2>0, <2>4
      <3> QED BY <2>0, <3>1, <3>2, <3>3, <3>4 DEF Count, CallsBounded
    <2> QED BY <2>0, <2>2, <2>3, <2>4 DEF Shape
  <1> QED BY <1>1, <1>2, <1>3, PTL DEF Spec

-----------------------------------------------------------------------------
(* The cache *)

\* The loop only runs after a miss, and every validated step is the cache row
\* of its tier's model.
Memo ==
  /\ pc \in {"loop", "calling"} => cache[Model] = None
  /\ \A k \in DOMAIN steps :
       steps[k].decision.rationale = "llm" =>
         cache[ModelOf[steps[k].tier]] = steps[k].decision

\* The miss that entered the loop is what makes INSERT OR REPLACE an insert.
LEMMA WriteOnceStep ==
  ASSUME TypeOK, Memo, [Next]_vars
  PROVE  \A m \in Models : cache[m] # None => cache'[m] = cache[m]
  <1>1. CASE ValidAnswer
    <2>1. cache[Model] = None /\ Model \in Models
      BY <1>1, ModelFacts DEF ValidAnswer, Memo
    <2>2. \E d \in ValidatedDecisions : cache' = [cache EXCEPT ![Model] = d]
      BY <1>1 DEF ValidAnswer, Store
    <2> QED BY <2>1, <2>2 DEF TypeOK
  <1>2. CASE cache' = cache
    BY <1>2
  <1> QED
    BY <1>1, <1>2 DEF Next, Judge, BeginPair, CacheHit, CacheMiss, BudgetExceeded,
       StartCall, ConnectionError, Timeout, UnrecoverableError, InvalidAnswer, ConversionError, Die, Abandon, vars

LEMMA ReturnMemo ==
  ASSUME TypeOK, TypeOK', Shape, Memo, pc \in {"lookup", "loop", "calling"},
         NEW d \in Verdicts, NEW hit \in BOOLEAN, Return(d, hit),
         \A m \in Models : cache[m] # None => cache'[m] = cache[m],
         d.rationale = "llm" => cache'[Model] = d
  PROVE  Memo'
  <1>1. /\ steps' \in Seq(CascadeSteps) /\ steps \in Seq(CascadeSteps)
        /\ Len(steps') = Len(steps) + 1 /\ Len(steps') \in {1, 2}
        /\ steps'[Len(steps')] = [tier |-> Tier, decision |-> d, hit |-> hit]
        /\ Len(steps) = 1 => steps'[1] = steps[1]
        /\ Len(steps) \in {0, 1}
        /\ pc' \in {"landed", "lookup"}
    BY ReturnShape DEF TypeOK
  <1>2. SUFFICES ASSUME NEW k \in DOMAIN steps', steps'[k].decision.rationale = "llm"
                 PROVE  cache'[ModelOf[steps'[k].tier]] = steps'[k].decision
    BY <1>1 DEF Memo
  <1>3. CASE k = Len(steps')
    BY <1>1, <1>2, <1>3 DEF Model
  <1>4. CASE k # Len(steps')
    <2>0. k \in 1..Len(steps') /\ Len(steps') = 2
      BY <1>1, <1>2, <1>4
    <2>1. k = 1 /\ Len(steps) = 1 /\ 1 \in DOMAIN steps
      BY <1>1, <1>4, <2>0
    <2>2. cache[ModelOf[steps[1].tier]] = steps[1].decision
      BY <1>1, <1>2, <2>1 DEF Memo
    <2>3. steps[1] \in CascadeSteps
      BY <1>1, <2>1
    <2>4. steps[1].decision # None /\ ModelOf[steps[1].tier] \in Models
      BY <2>3, RetryAssumption DEF CascadeSteps
    <2> QED BY <1>1, <2>1, <2>2, <2>4
  <1> QED BY <1>3, <1>4

LEMMA MemoStep ==
  ASSUME TypeOK, TypeOK', Shape, Memo, [Next]_vars
  PROVE  Memo'
  <1>0. FellThrough \in Verdicts /\ FellThrough.rationale # "llm"
    BY VerdictFacts
  <1>1. \A m \in Models : cache[m] # None => cache'[m] = cache[m]
    BY WriteOnceStep
  <1>2. CASE BeginPair \/ ConversionError \/ Die
    BY <1>2 DEF BeginPair, ConversionError, Die, Abandon, Memo
  <1>3. CASE CacheHit
    <2>1. cache[Model] \in Verdicts /\ cache'[Model] = cache[Model]
      BY <1>3, ModelFacts, VerdictFacts DEF CacheHit
    <2> QED BY <1>1, <1>3, <2>1, ReturnMemo DEF CacheHit
  <1>4. CASE CacheMiss
    BY <1>4 DEF CacheMiss, Memo, Model, Tier
  <1>5. CASE BudgetExceeded
    BY <1>0, <1>1, <1>5, ReturnMemo DEF BudgetExceeded
  <1>6. CASE StartCall
    BY <1>6 DEF StartCall, Memo, Model, Tier
  <1>7. ASSUME pc = "calling", cache' = cache, steps' = steps, pc' = "loop"
        PROVE  Memo'
    BY <1>7 DEF Memo, Model, Tier
  <1>8. CASE ConnectionError
    BY <1>0, <1>1, <1>7, <1>8, ReturnMemo DEF ConnectionError, RetryConnection
  <1>9. CASE Timeout
    BY <1>0, <1>1, <1>7, <1>9, ReturnMemo DEF Timeout, RetryConnection
  <1>10. CASE UnrecoverableError
    BY <1>0, <1>1, <1>10, ReturnMemo DEF UnrecoverableError
  <1>11. CASE InvalidAnswer
    BY <1>0, <1>1, <1>7, <1>11, ReturnMemo DEF InvalidAnswer
  <1>12. CASE ValidAnswer
    <2>1. PICK d \in ValidatedDecisions : Store(d) /\ Return(d, FALSE)
      BY <1>12 DEF ValidAnswer
    <2>2. d \in Verdicts /\ cache'[Model] = d
      BY <2>1, ModelFacts, VerdictFacts DEF Store, TypeOK
    <2> QED BY <1>1, <1>12, <2>1, <2>2, ReturnMemo DEF ValidAnswer
  <1>13. CASE UNCHANGED vars
    BY <1>13 DEF vars, Memo, Model, Tier
  <1> QED
    BY <1>2, <1>3, <1>4, <1>5, <1>6, <1>8, <1>9, <1>10, <1>11, <1>12, <1>13
    DEF Next, Judge

\* A settled verdict is what the cache holds, and the cache holds enough to
\* reach it without a call.
Settled ==
  settled # None =>
    /\ cache[ModelOf["primary"]] # None
    /\ NeedsSecondOpinion(cache[ModelOf["primary"]]) =>
         cache[ModelOf["fallback"]] # None /\ settled = cache[ModelOf["fallback"]]
    /\ ~NeedsSecondOpinion(cache[ModelOf["primary"]]) =>
         settled = cache[ModelOf["primary"]]
    /\ pc \notin {"loop", "calling"}
    /\ Len(steps) >= 1 => steps[1].decision = cache[ModelOf["primary"]]
    /\ Len(steps) = 2 => steps[2].decision = cache[ModelOf["fallback"]]

\* A verdict settles on landing: its steps are then rows of the cache.
LEMMA ReturnSettles ==
  ASSUME TypeOK, TypeOK', Shape, Memo', settled = None,
         pc \in {"lookup", "loop", "calling"},
         NEW d \in Verdicts, NEW hit \in BOOLEAN, Return(d, hit)
  PROVE  Settled'
  <1>1. /\ steps' \in Seq(CascadeSteps)
        /\ Len(steps') \in {1, 2}
        /\ Shape'
        /\ pc' \in {"landed", "lookup"}
    BY ReturnShape DEF TypeOK, Shape
  <1> SUFFICES ASSUME settled' # None PROVE Settled'
    BY DEF Settled
  <1>2. Complete(steps') /\ AllValidated(steps') /\ settled' = Final(steps')
    BY DEF Return
  <1>3. /\ 1 \in DOMAIN steps' /\ Len(steps') \in DOMAIN steps'
        /\ steps'[1] \in CascadeSteps /\ steps'[Len(steps')] \in CascadeSteps
    BY <1>1
  <1>4. \A k \in DOMAIN steps' : steps'[k].decision = cache'[ModelOf[steps'[k].tier]]
    BY <1>2 DEF AllValidated, Memo
  <1>5. steps'[1].tier = "primary" /\ (Len(steps') = 2 => steps'[2].tier = "fallback")
    BY <1>1 DEF Shape
  <1>6. \A k \in DOMAIN steps' : k \in {1, Len(steps')} => steps'[k].decision # None
    BY <1>3, RetryAssumption DEF CascadeSteps
  <1>7. CASE Len(steps') = 1
    BY <1>1, <1>2, <1>3, <1>4, <1>5, <1>6, <1>7 DEF Settled, Complete, Final
  <1>8. CASE Len(steps') = 2
    <2>1. NeedsSecondOpinion(steps'[1].decision)
      BY <1>1, <1>8 DEF Shape
    <2> QED BY <1>1, <1>2, <1>3, <1>4, <1>5, <1>6, <1>8, <2>1 DEF Settled, Final
  <1> QED BY <1>1, <1>7, <1>8

LEMMA SettledStep ==
  ASSUME TypeOK, TypeOK', Shape, Memo, Memo', Settled, [Next]_vars
  PROVE  Settled'
  <1>0. FellThrough \in Verdicts
    BY VerdictFacts
  <1>1. CASE BeginPair \/ ConversionError \/ Die
    BY <1>1 DEF BeginPair, ConversionError, Die, Abandon, Settled
  <1>2. CASE CacheHit
    <2>1. cache[Model] \in Verdicts
      BY <1>2, ModelFacts, VerdictFacts DEF CacheHit
    <2>2. CASE settled = None
      BY <1>2, <2>1, <2>2, ReturnSettles DEF CacheHit
    <2>3. CASE settled # None
      <3>1. /\ settled' = settled /\ cache' = cache
            /\ steps' \in Seq(CascadeSteps)
            /\ Len(steps') = Len(steps) + 1 /\ Len(steps') \in {1, 2}
            /\ steps'[Len(steps')] = [tier |-> Tier, decision |-> cache[Model], hit |-> TRUE]
            /\ Len(steps) = 1 => steps'[1] = steps[1]
            /\ Len(steps) \in {0, 1}
            /\ Len(steps) = 0 => Tier = "primary"
            /\ Len(steps) = 1 => Tier = "fallback"
            /\ pc' \in {"landed", "lookup"}
        BY <1>2, <2>1, <2>3, ReturnShape DEF CacheHit, Return
      <3>2. steps \in Seq(CascadeSteps)
        BY DEF TypeOK
      <3>3. CASE Len(steps) = 0
        <4>1. Len(steps') = 1 /\ steps'[1].decision = cache[ModelOf["primary"]]
          BY <3>1, <3>2, <3>3 DEF Model
        <4> QED BY <2>3, <3>1, <4>1 DEF Settled
      <3>4. CASE Len(steps) = 1
        <4>1. /\ Len(steps') = 2 /\ steps'[1] = steps[1]
              /\ steps'[2].decision = cache[ModelOf["fallback"]]
          BY <3>1, <3>2, <3>4 DEF Model
        <4> QED BY <2>3, <3>1, <3>2, <3>4, <4>1 DEF Settled
      <3> QED BY <3>1, <3>3, <3>4
    <2> QED BY <2>2, <2>3
  <1>3. CASE CacheMiss
    <2>1. settled = None
      <3> SUFFICES ASSUME settled # None PROVE FALSE
        OBVIOUS
      <3>1. CASE steps = <<>>
        BY <1>3, <3>1 DEF CacheMiss, Settled, Model, Tier, NextTier
      <3>2. CASE Len(steps) = 1 /\ NeedsSecondOpinion(steps[1].decision)
        BY <1>3, <3>2 DEF CacheMiss, Settled, Model, Tier, NextTier, TypeOK
      <3> QED BY <1>3, <3>1, <3>2 DEF CacheMiss, Shape
    <2> QED BY <1>3, <2>1 DEF CacheMiss, Settled
  <1>4. CASE BudgetExceeded
    BY <1>0, <1>4, ReturnSettles DEF BudgetExceeded, Settled
  <1>5. CASE StartCall
    BY <1>5 DEF StartCall, Settled
  <1>6. ASSUME pc = "calling", settled' = settled
        PROVE  Settled'
    BY <1>6 DEF Settled
  <1>7. CASE ConnectionError
    <2>1. settled = None
      BY <1>7 DEF ConnectionError, Settled
    <2> QED BY <1>0, <1>6, <1>7, <2>1, ReturnSettles DEF ConnectionError, RetryConnection
  <1>8. CASE Timeout
    <2>1. settled = None
      BY <1>8 DEF Timeout, Settled
    <2> QED BY <1>0, <1>6, <1>8, <2>1, ReturnSettles DEF Timeout, RetryConnection
  <1>9. CASE UnrecoverableError
    BY <1>0, <1>9, ReturnSettles DEF UnrecoverableError, Settled
  <1>10. CASE InvalidAnswer
    <2>1. settled = None
      BY <1>10 DEF InvalidAnswer, Settled
    <2> QED BY <1>0, <1>6, <1>10, <2>1, ReturnSettles DEF InvalidAnswer
  <1>11. CASE ValidAnswer
    BY <1>11, VerdictFacts, ReturnSettles DEF ValidAnswer, Settled
  <1>12. CASE UNCHANGED vars
    BY <1>12 DEF vars, Settled
  <1> QED
    BY <1>1, <1>2, <1>3, <1>4, <1>5, <1>7, <1>8, <1>9, <1>10, <1>11, <1>12
    DEF Next, Judge

\* The invariant the cache theorems rest on.
CacheInv == TypeOK /\ Shape /\ Memo /\ Settled

LEMMA CacheInvInductive == Spec => []CacheInv
  <1>1. Init => CacheInv
    BY RetryAssumption
    DEF Init, CacheInv, TypeOK, Shape, Memo, Settled, Locations, CallCap, CallsPerTier
  <1>2. CacheInv /\ [Next]_vars => CacheInv'
    BY TypeStep, ShapeStep, MemoStep, SettledStep DEF CacheInv
  <1> QED BY <1>1, <1>2, PTL DEF Spec

\* SETTLED VERDICTS STAY: a pair that landed on validated answers only keeps its
\* verdict in every later run, through crashes and re-runs, and never costs
\* another LLM call; also when both tiers name one model.
THEOREM SettledVerdictsStay == Spec => []SettledStays
  <1>1. CacheInv => SettledStays
    <2> SUFFICES ASSUME CacheInv, settled # None
                 PROVE  /\ pc \notin {"loop", "calling"}
                        /\ pc = "landed" => Final(steps) = settled
      BY DEF SettledStays
    <2>1. pc \notin {"loop", "calling"}
      BY DEF CacheInv, Settled
    <2>2. ASSUME pc = "landed" PROVE Final(steps) = settled
      <3>1. CASE Len(steps) = 1
        BY <2>2, <3>1 DEF CacheInv, Shape, Settled, Complete, Final
      <3>2. CASE Len(steps) = 2
        BY <2>2, <3>2 DEF CacheInv, Shape, Settled, Final
      <3> QED BY <2>2, <3>1, <3>2 DEF CacheInv, Shape, TypeOK, Complete
    <2> QED BY <2>1, <2>2
  <1> QED BY <1>1, CacheInvInductive, PTL

\* WRITE ONCE: no step replaces a validated answer in the cache.
THEOREM CacheWriteOnce == Spec => CacheIsWriteOnce
  <1>1. CacheInv /\ [Next]_vars
          => [\A m \in Models : cache[m] # None => cache'[m] = cache[m]]_vars
    BY WriteOnceStep DEF CacheInv
  <1> QED BY <1>1, CacheInvInductive, PTL DEF Spec, CacheIsWriteOnce

-----------------------------------------------------------------------------
(* The abstract cascade *)

\* The abstract module reads the same rules.
LEMMA SameRules ==
  /\ Promise!FellThrough = FellThrough
  /\ Promise!ValidatedDecisions = ValidatedDecisions
  /\ \A s : Promise!NextTier(s) = NextTier(s)
  /\ \A s : Promise!Complete(s) <=> Complete(s)
  BY DEF Promise!FellThrough, FellThrough, Promise!ValidatedDecisions, ValidatedDecisions,
         Promise!Decisions, Decisions, Promise!Labels, Labels, Promise!NextTier, NextTier,
         Promise!Complete, Complete, Promise!NeedsSecondOpinion, NeedsSecondOpinion

\* THE CASCADE KEEPS ITS PROMISE: retries, backoffs, budgets and events are
\* invisible; every step is one tier answering from the cache, freshly, or by
\* falling through.
THEOREM CascadeImplementsPromise == Spec => PromiseSpec
  <1>1. Init => Promise!Init
    BY DEF Init, Promise!Init
  <1>2. CacheInv /\ CacheInv' /\ [Next]_vars => [Promise!Next]_Promise!cascadeVars
    <2> SUFFICES ASSUME CacheInv, CacheInv', [Next]_vars
                 PROVE  Promise!Next \/ UNCHANGED Promise!cascadeVars
      OBVIOUS
    <2> USE DEF Promise!cascadeVars
    <2>0. Model = ModelOf[NextTier(steps)]
      BY DEF Model, Tier
    <2>1. ASSUME NEW d, NEW hit, Return(d, hit)
          PROVE  Promise!Answer(d, hit)
      <3>1. (pc' \in {"lookup", "loop", "calling"}) <=> ~Complete(steps')
        BY <2>1 DEF Return
      <3>2. steps' = Append(steps, [tier |-> NextTier(steps), decision |-> d, hit |-> hit])
        BY <2>1 DEF Return, Tier
      <3>3. (pc' \in {"lookup", "loop", "calling"}) = ~Promise!Complete(steps')
        <4>1. Promise!Complete(steps') <=> Complete(steps')
          BY SameRules
        <4> QED BY <3>1, <4>1
      <3>4. Promise!NextTier(steps) = NextTier(steps)
        BY SameRules
      <3> QED BY <3>2, <3>3, <3>4, Zenon DEF Promise!Answer
    <2>2. ASSUME pc \in {"loop", "calling"}, Return(FellThrough, FALSE), cache' = cache
          PROVE  Promise!FallThrough
      BY <2>0, <2>1, <2>2, SameRules DEF CacheInv, Memo, Promise!FallThrough
    <2>15. ASSUME pc = "calling", pc' = "loop", cache' = cache, steps' = steps
           PROVE  UNCHANGED Promise!cascadeVars
      BY <2>15
    <2>3. CASE BeginPair
      BY <2>3 DEF BeginPair, Promise!Begin, Promise!Next
    <2>4. CASE CacheHit
      BY <2>0, <2>1, <2>4, SameRules DEF CacheHit, Promise!AnswerFromCache, Promise!Next
    <2>5. CASE CacheMiss
      BY <2>5 DEF CacheMiss
    <2>6. CASE BudgetExceeded
      BY <2>2, <2>6 DEF BudgetExceeded, Promise!Next
    <2>7. CASE StartCall
      BY <2>7 DEF StartCall
    <2>8. CASE ConnectionError
      BY <2>2, <2>8, <2>15 DEF ConnectionError, RetryConnection, Promise!Next
    <2>9. CASE Timeout
      BY <2>2, <2>9, <2>15 DEF Timeout, RetryConnection, Promise!Next
    <2>10. CASE UnrecoverableError
      BY <2>2, <2>10 DEF UnrecoverableError, Promise!Next
    <2>11. CASE InvalidAnswer
      BY <2>2, <2>11, <2>15 DEF InvalidAnswer, Promise!Next
    <2>12. CASE ValidAnswer
      <3>1. cache[Model] = None
        BY <2>12 DEF ValidAnswer, CacheInv, Memo
      <3>2. PICK d \in ValidatedDecisions : Store(d) /\ Return(d, FALSE)
        BY <2>12 DEF ValidAnswer
      <3>3. Promise!Answer(d, FALSE)
        BY <2>1, <3>2
      <3> QED BY <2>0, <2>12, <3>1, <3>2, <3>3, SameRules
              DEF ValidAnswer, Store, Promise!AnswerFresh, Promise!Next
    <2>13. CASE ConversionError \/ Die
      BY <2>13 DEF ConversionError, Die, Abandon, Promise!Die, Promise!Next, CacheInv, TypeOK, Locations
    <2>14. CASE UNCHANGED vars
      BY <2>14 DEF vars
    <2> QED
      BY <2>3, <2>4, <2>5, <2>6, <2>7, <2>8, <2>9, <2>10, <2>11, <2>12, <2>13, <2>14
      DEF Next, Judge
  <1> QED BY <1>1, <1>2, CacheInvInductive, PTL DEF Spec, PromiseSpec, Promise!Spec
=============================================================================
