-------------------------- MODULE JudgeBatchProofs --------------------------
(***************************************************************************)
(* Proofs about JudgeBatch, for every candidate file, chunk size and       *)
(* checkpoint interval, and any number of crashes.                         *)
(***************************************************************************)
EXTENDS JudgeBatch, FiniteSetTheorems, SequenceTheorems, TLAPS

\* What the batch assumes of the files: M5 does not replace the candidates
\* under a checkpoint, and no process dies between the two unlinks of a restart.
FilesKept ==
  /\ "reembed" \notin Operator
  /\ "restart" \in Operator => MaxCrashes = 0

-----------------------------------------------------------------------------
(* Types *)

LEMMA CandidateTypes ==
  ASSUME candidates \in CandidateFiles
  PROVE  /\ candidates.escalate \in Seq(Pairs) /\ candidates.autoMerge \in Seq(Pairs)
         /\ total \in Nat /\ Len(candidates.autoMerge) \in Nat
         /\ \A i \in 1..total : Pair(i) \in Pairs
         /\ \A i, j \in 1..total : Pair(i) = Pair(j) => i = j
  <1>1. candidates \in [escalate: Seq(Pairs), autoMerge: Seq(Pairs)]
    BY BatchAssumption
  <1>2. candidates.escalate \in Seq(Pairs) /\ candidates.autoMerge \in Seq(Pairs)
    BY <1>1
  <1>3. \A i, j \in DOMAIN candidates.escalate :
          candidates.escalate[i] = candidates.escalate[j] => i = j
    BY BatchAssumption
  <1> QED BY <1>2, <1>3 DEF total, Pair

LEMMA VerdictTypes ==
  /\ Answers \subseteq Verdicts
  /\ FellThrough \in Verdicts
  /\ [label |-> "same_work", confident |-> TRUE, rationale |-> "llm"] \in Verdicts
  BY BatchAssumption DEF Verdicts, ValidatedDecisions, Decisions, FellThrough, Labels

LEMMA StepTypes ==
  ASSUME NEW s \in Seq(CascadeSteps), NEW d \in Verdicts, NEW hit \in BOOLEAN
  PROVE  Append(s, [tier |-> NextTier(s), decision |-> d, hit |-> hit]) \in Seq(CascadeSteps)
  <1>1. [tier |-> NextTier(s), decision |-> d, hit |-> hit] \in CascadeSteps
    BY DEF CascadeSteps, NextTier, Tiers
  <1> QED BY <1>1

LEMMA EscalateRowType ==
  ASSUME TypeOK, NEW i \in DOMAIN work, i \in 1..total, Resolved(i)
  PROVE  EscalateRow(i) \in Rows
  <1>1. work[i] \in Seq(CascadeSteps) /\ Pair(i) \in Pairs
    BY CandidateTypes DEF TypeOK
  <1>2. ASSUME Complete(work[i]) PROVE Final(work[i]) \in Verdicts
    <2>1. Len(work[i]) \in DOMAIN work[i]
      BY <1>1, <1>2 DEF Complete
    <2>2. work[i][Len(work[i])] \in CascadeSteps
      BY <1>1, <2>1
    <2> QED BY <2>2 DEF Final, CascadeSteps
  <1>3. (IF Pair(i) \in Unresolvable THEN FellThrough ELSE Final(work[i])) \in Verdicts
    BY <1>2, VerdictTypes DEF Resolved
  <1> QED BY <1>1, <1>3 DEF EscalateRow, Rows

LEMMA CountedType ==
  ASSUME counters \in Counters, NEW s \in Seq(CascadeSteps)
  PROVE  Counted(s) \in Counters
  <1>1. IsFiniteSet(1..Len(s))
    BY FS_Interval
  <1>2. /\ Cardinality({k \in DOMAIN s : s[k].hit}) \in Nat
        /\ Cardinality({k \in DOMAIN s : ~s[k].hit}) \in Nat
    <2>1. {k \in DOMAIN s : s[k].hit} \subseteq 1..Len(s)
      OBVIOUS
    <2>2. {k \in DOMAIN s : ~s[k].hit} \subseteq 1..Len(s)
      OBVIOUS
    <2> QED BY <1>1, <2>1, <2>2, FS_Subset, FS_CardinalityType
  <1> QED BY <1>2 DEF Counted, Counters

\* The futures of a chunk are indices of candidates; a written row is the row
\* of one of them.
Futures ==
  /\ phase \in {"unlinked", "auto"} => DOMAIN work = {}
  /\ phase = "judge" => DOMAIN work \subseteq 1..total
  /\ written => phase = "judge" /\ drained + 1 \in DOMAIN work

LEMMA TypesInit == Init => TypeOK /\ Futures
  <1> SUFFICES ASSUME Init PROVE TypeOK /\ Futures
    OBVIOUS
  <1>1. DOMAIN work = {}
    BY DEF Init
  <1>2. candidates \in CandidateFiles /\ output \in Seq(Rows) /\ checkpoint = None
    BY DEF Init
  <1>3. cache \in [Pairs \X Tiers -> Answers \cup {None}]
    BY DEF Init
  <1>4. phase \in Phases /\ drained \in Nat /\ autoMerged \in Nat /\ written = FALSE
    BY DEF Init, Phases
  <1>5. counters \in Counters
    BY DEF Init, NoCounts, Counters
  <1>6. crashes \in 0..MaxCrashes
    BY BatchAssumption DEF Init
  <1>7. \A i \in DOMAIN work : work[i] \in Seq(CascadeSteps)
    BY <1>1
  <1> QED BY <1>1, <1>2, <1>3, <1>4, <1>5, <1>6, <1>7 DEF TypeOK, Futures, Init

LEMMA TypesStep == TypeOK /\ Futures /\ [Next]_vars => TypeOK' /\ Futures'
  <1> SUFFICES ASSUME TypeOK, Futures, [Next]_vars PROVE TypeOK' /\ Futures'
    OBVIOUS
  <1> USE DEF TypeOK, Futures
  <1>0. /\ Counters = [hits: Nat, fresh: Nat, cascaded: Nat] /\ NoCounts \in Counters
        /\ <<>> \in Seq(Rows) /\ DOMAIN <<>> = {}
    BY DEF Counters, NoCounts
  <1>fresh. ASSUME Fresh
            PROVE  /\ output' \in Seq(Rows) /\ phase' \in Phases
                   /\ drained' \in Nat /\ counters' \in Counters
    BY <1>0, <1>fresh DEF Fresh, Phases
  <1>1. CASE StartResume
    <2>1. /\ output' \in Seq(Rows) /\ phase' \in Phases
          /\ drained' \in Nat /\ counters' \in Counters
      <3>1. CASE Resumable
        BY <1>1, <3>1 DEF StartResume, Resumable, Checkpoints, Phases
      <3>2. CASE ~Resumable
        BY <1>1, <3>2, <1>fresh DEF StartResume
      <3> QED BY <3>1, <3>2
    <2> QED BY <1>0, <1>1, <2>1 DEF StartResume
  <1>2. CASE StartRestart
    BY <1>0, <1>2 DEF StartRestart, Phases
  <1>3. CASE Reembed
    BY <1>3 DEF Reembed, Phases
  <1>4. CASE UnlinkCheckpoint
    BY <1>4, <1>fresh DEF UnlinkCheckpoint, total
  <1>5. CASE WriteAutoMerge
    <2>1. AutoMergeRow(candidates.autoMerge[autoMerged + 1]) \in Rows
      <3>1. candidates.autoMerge[autoMerged + 1] \in Pairs
        BY <1>5, CandidateTypes DEF WriteAutoMerge
      <3>2. <<>> \in Seq(CascadeSteps)
        OBVIOUS
      <3> QED BY <3>1, <3>2, VerdictTypes DEF AutoMergeRow, Rows
    <2>2. output' \in Seq(Rows)
      BY <1>5, <2>1 DEF WriteAutoMerge
    <2> QED BY <1>5, <2>2 DEF WriteAutoMerge, total
  <1>6. CASE AutoMergeDone
    BY <1>6 DEF AutoMergeDone, Phases, total
  <1>7. CASE SubmitChunk
    <2>1. /\ DOMAIN work' = (drained + 1)..ChunkEnd(drained)
          /\ \A i \in DOMAIN work' : work'[i] = <<>>
      BY <1>7 DEF SubmitChunk
    <2>2. (drained + 1)..ChunkEnd(drained) \subseteq 1..total
      BY CandidateTypes, BatchAssumption DEF ChunkEnd
    <2>3. \A i \in DOMAIN work' : work'[i] \in Seq(CascadeSteps)
      <3>1. <<>> \in Seq(CascadeSteps)
        OBVIOUS
      <3> QED BY <2>1, <3>1, Zenon
    <2> QED BY <1>7, <2>1, <2>2, <2>3 DEF SubmitChunk, disk, total
  <1>8. ASSUME NEW i \in DOMAIN work, JudgeTier(i)
        PROVE  TypeOK' /\ Futures'
    <2> DEFINE k == <<Pair(i), NextTier(work[i])>>
    <2>0. phase = "judge" /\ i \in 1..total
      BY <1>8 DEF JudgeTier, Judging
    <2>1. work[i] \in Seq(CascadeSteps) /\ k \in Pairs \X Tiers
      <3>1. Pair(i) \in Pairs
        BY <2>0, CandidateTypes
      <3> QED BY <3>1 DEF NextTier, Tiers
    <2>2. ASSUME NEW d \in Verdicts, NEW hit \in BOOLEAN, Answer(i, d, hit)
          PROVE  DOMAIN work' = DOMAIN work /\ \A j \in DOMAIN work' : work'[j] \in Seq(CascadeSteps)
      BY <2>1, <2>2, StepTypes DEF Answer
    <2>3. /\ cache' \in [Pairs \X Tiers -> Answers \cup {None}]
          /\ DOMAIN work' = DOMAIN work /\ \A j \in DOMAIN work' : work'[j] \in Seq(CascadeSteps)
      <3>1. CASE AnswerFromCache(i)
        <4>1. cache[k] \in Verdicts
          BY <2>1, <3>1, VerdictTypes DEF AnswerFromCache
        <4> QED BY <2>2, <3>1, <4>1 DEF AnswerFromCache
      <3>2. CASE AnswerFresh(i)
        <4>1. PICK d \in Answers : Answer(i, d, FALSE) /\ cache' = [cache EXCEPT ![k] = d]
          BY <3>2 DEF AnswerFresh
        <4>2. d \in Verdicts
          BY VerdictTypes
        <4> QED BY <2>1, <2>2, <4>1, <4>2
      <3>3. CASE FallThrough(i)
        BY <2>2, <3>3, VerdictTypes DEF FallThrough
      <3> QED BY <1>8, <3>1, <3>2, <3>3 DEF JudgeTier
    <2> QED BY <1>8, <2>3 DEF JudgeTier, disk, total
  <1>9. CASE WriteRow
    <2>1. EscalateRow(drained + 1) \in Rows
      BY <1>9, EscalateRowType DEF WriteRow
    <2>2. output' \in Seq(Rows)
      BY <1>9, <2>1 DEF WriteRow
    <2>3. drained' = drained /\ work' = work /\ total' = total
      BY <1>9 DEF WriteRow, total
    <2> QED BY <1>9, <2>2, <2>3 DEF WriteRow
  <1>10. CASE Record
    <2>1. counters' \in Counters
      <3>1. work[drained + 1] \in Seq(CascadeSteps)
        BY <1>10 DEF Record
      <3> QED BY <1>10, <3>1, CountedType DEF Record
    <2>2. checkpoint' \in Checkpoints \cup {None}
      BY <1>10, <2>1, CandidateTypes DEF Record, Checkpoints
    <2>3. drained' \in Nat /\ work' = work /\ total' = total /\ phase' = "judge"
      BY <1>10 DEF Record, total
    <2> QED BY <1>10, <2>1, <2>2, <2>3 DEF Record
  <1>11. CASE Finish
    BY <1>11 DEF Finish, disk, Phases, total
  <1>12. CASE Crash
    <2>1. crashes' \in 0..MaxCrashes
      BY <1>12, BatchAssumption DEF Crash
    <2> QED BY <1>0, <1>12, <2>1 DEF Crash, disk, Phases, total
  <1>13. CASE UNCHANGED vars
    BY <1>13 DEF vars, total
  <1> QED BY <1>1, <1>2, <1>3, <1>4, <1>5, <1>6, <1>7, <1>8, <1>9, <1>10, <1>11, <1>12, <1>13
         DEF Next, Run

\* TYPE CORRECTNESS of the batch: rows, checkpoint and cache hold what their
\* files may hold, whatever died in between.
THEOREM TypeCorrect == Spec => []TypeOK
  <1>1. Init => TypeOK /\ Futures
    BY TypesInit
  <1>2. TypeOK /\ Futures /\ [Next]_vars => TypeOK' /\ Futures'
    BY TypesStep
  <1> QED BY <1>1, <1>2, PTL DEF Spec

-----------------------------------------------------------------------------
(* What a resume may trust *)

\* Every pair up to n has its row.
Prefix(n) == \A i \in 1..n : HasRow(i)

\* The candidate of the file's last row, 0 when that is no candidate's.
LastIndex ==
  IF output # <<>> /\ output[Len(output)].band = "escalate"
    THEN Index(output[Len(output)].pair) ELSE 0

\* A checkpoint was taken over these candidates, and rows back it.
Backed ==
  checkpoint # None =>
    /\ checkpoint.total = total /\ checkpoint.last \in 0..total
    /\ phase # "auto"
    /\ phase # "unlinked" =>
         /\ Prefix(checkpoint.last) /\ AutoMergeOnce
         /\ LastIndex \in 0..total /\ checkpoint.last <= LastIndex
    /\ phase \in {"judge", "ended"} => checkpoint.last <= drained

\* What the run in progress has accounted for is in the file.
Progress ==
  /\ phase = "unlinked" => "restart" \in Operator /\ output = <<>> /\ autoMerged = 0
  /\ phase = "auto" =>
       /\ drained = 0
       /\ Len(output) = autoMerged /\ autoMerged <= Len(candidates.autoMerge)
       /\ \A k \in 1..autoMerged : output[k] = AutoMergeRow(candidates.autoMerge[k])
  /\ phase \in {"judge", "ended"} =>
       /\ AutoMergeOnce
       /\ drained <= total /\ Prefix(drained)
       /\ LastIndex \in 0..total /\ drained <= LastIndex
       /\ written => Prefix(drained + 1) /\ drained + 1 = LastIndex
  /\ phase = "ended" => drained = total

Trusted == Backed /\ Progress /\ InputOrder

LEMMA IndexOfPair ==
  ASSUME candidates \in CandidateFiles, NEW i \in 1..total
  PROVE  Index(Pair(i)) = i
  BY CandidateTypes DEF Index

\* The predicates on the file read nothing but the file and the candidates.
LEMMA SameFile ==
  ASSUME output' = output, candidates' = candidates
  PROVE  /\ total' = total /\ LastIndex' = LastIndex
         /\ AutoMergeOnce' <=> AutoMergeOnce
         /\ InputOrder' <=> InputOrder
         /\ \A i \in Nat : HasRow(i)' <=> HasRow(i)
  BY DEF total, LastIndex, AutoMergeOnce, InputOrder, HasRow, Index, Pair

LEMMA EmptyFile ==
  ASSUME output' = <<>>
  PROVE  InputOrder'
  BY DEF InputOrder

LEMMA TrustedInit == Init => Trusted
  BY DEF Init, Trusted, Backed, Progress, InputOrder

\* A step that leaves the file, the checkpoint and the run's place alone.
LEMMA TrustedFrame ==
  ASSUME TypeOK, Trusted, phase' = phase,
         UNCHANGED <<output, candidates, checkpoint, drained, autoMerged, written>>
  PROVE  Trusted'
  <1> USE DEF TypeOK
  <1>1. \A n \in Nat : (\A i \in 1..n : HasRow(i)') <=> \A i \in 1..n : HasRow(i)
    BY SameFile
  <1>2. drained + 1 \in Nat /\ (checkpoint # None => checkpoint.last \in Nat)
    BY DEF Checkpoints
  <1>3. Backed'
    BY <1>1, <1>2, SameFile DEF Trusted, Backed, Prefix
  <1>4. Progress'
    BY <1>1, <1>2, SameFile DEF Trusted, Progress, Prefix
  <1> QED BY <1>3, <1>4, SameFile DEF Trusted

\* The row of the next candidate keeps the order and completes the prefix.
LEMMA NextRow ==
  ASSUME TypeOK, InputOrder, AutoMergeOnce, candidates' = candidates,
         NEW i \in 1..total, i <= LastIndex + 1,
         NEW row \in Rows, row.band = "escalate", row.pair = Pair(i),
         output' = Append(output, row)
  PROVE  /\ InputOrder' /\ AutoMergeOnce' /\ LastIndex' = i /\ HasRow(i)'
         /\ \A j \in Nat : HasRow(j) => HasRow(j)'
  <1> DEFINE n == Len(output)
  <1>1. /\ n \in Nat /\ Len(output') = n + 1 /\ output'[n + 1] = row
        /\ \A k \in 1..n : output'[k] = output[k]
        /\ DOMAIN output = 1..n /\ DOMAIN output' = 1..(n + 1)
    BY DEF TypeOK
  <1>2. total' = total /\ (\A p : Index(p)' = Index(p)) /\ \A j : Pair(j)' = Pair(j)
    BY DEF total, Index, Pair
  <1>3. Index(Pair(i)) = i
    BY IndexOfPair DEF TypeOK
  <1>4. LastIndex' = i
    BY <1>1, <1>2, <1>3 DEF LastIndex
  <1>5. HasRow(i)' /\ \A j \in Nat : HasRow(j) => HasRow(j)'
    BY <1>1, <1>2 DEF HasRow
  <1>6. AutoMergeOnce'
    <2>1. Len(candidates.autoMerge) \in Nat /\ Len(candidates.autoMerge) <= n
      BY CandidateTypes DEF AutoMergeOnce, TypeOK
    <2>2. \A k \in 1..(n + 1) :
            IF k <= Len(candidates.autoMerge)
              THEN output'[k] = AutoMergeRow(candidates.autoMerge[k])
              ELSE output'[k].band = "escalate"
      BY <1>1, <2>1 DEF AutoMergeOnce
    <2> QED BY <1>1, <2>1, <2>2 DEF AutoMergeOnce
  <1>7. InputOrder'
    <2> SUFFICES ASSUME NEW k \in 1..(n + 1), output'[k].band = "escalate"
                 PROVE  Index(output'[k].pair) <=
                          (IF k > 1 /\ output'[k - 1].band = "escalate"
                             THEN Index(output'[k - 1].pair) ELSE 0) + 1
      BY <1>1, <1>2 DEF InputOrder
    <2>1. CASE k = n + 1
      <3>1. Index(output'[k].pair) = i
        BY <1>1, <1>3, <2>1
      <3>2. (IF k > 1 /\ output'[k - 1].band = "escalate"
               THEN Index(output'[k - 1].pair) ELSE 0) = LastIndex
        <4>1. CASE n = 0
          BY <1>1, <2>1, <4>1 DEF LastIndex, TypeOK
        <4>2. CASE n > 0
          <5>1. output # <<>>
            BY <4>2
          <5>2. k > 1 /\ k - 1 = n
            BY <1>1, <2>1, <4>2
          <5>3. output'[n] = output[n]
            <6>1. n \in 1..n
              BY <1>1, <4>2
            <6> HIDE DEF n
            <6> QED BY <1>1, <6>1
          <5> QED BY <5>1, <5>2, <5>3 DEF LastIndex
        <4> QED BY <1>1, <4>1, <4>2
      <3> QED BY <3>1, <3>2
    <2>2. CASE k \in 1..n
      BY <1>1, <2>2 DEF InputOrder
    <2> QED BY <1>1, <2>1, <2>2
  <1> QED BY <1>4, <1>5, <1>6, <1>7

LEMMA TrustedStep ==
  ASSUME FilesKept, TypeOK, Futures, Trusted, [Next]_vars
  PROVE  Trusted'
  <1> USE DEF TypeOK
  <1>0. total \in Nat /\ Len(candidates.autoMerge) \in Nat
    BY CandidateTypes
  <1>fresh. ASSUME Fresh, checkpoint' = None, autoMerged' = 0
            PROVE  Trusted'
    BY <1>0, <1>fresh, EmptyFile DEF Fresh, Trusted, Backed, Progress
  <1>1. CASE StartResume
    <2>1. CASE Resumable
      <3>1. /\ checkpoint.last \in 0..total /\ Prefix(checkpoint.last)
            /\ AutoMergeOnce /\ LastIndex \in 0..total /\ checkpoint.last <= LastIndex
        BY <1>1, <2>1 DEF Trusted, Backed, StartResume, Resumable
      <3>2. /\ UNCHANGED <<output, candidates, checkpoint>>
            /\ phase' = "judge" /\ drained' = checkpoint.last /\ ~written'
        BY <1>1, <2>1 DEF StartResume
      <3>3. \A j \in 1..checkpoint.last : HasRow(j)'
        BY <3>1, <3>2, SameFile DEF Prefix
      <3> QED BY <3>1, <3>2, <3>3, SameFile DEF Trusted, Backed, Progress, Prefix
    <2>2. CASE ~Resumable
      BY <1>1, <2>2, <1>fresh DEF StartResume, Resumable, Trusted, Backed
    <2> QED BY <2>1, <2>2
  <1>2. CASE StartRestart
    BY <1>2, EmptyFile, SameFile DEF StartRestart, Trusted, Backed, Progress, total
  <1>3. CASE Reembed
    BY <1>3 DEF Reembed, FilesKept
  <1>4. CASE UnlinkCheckpoint
    BY <1>4, <1>fresh DEF UnlinkCheckpoint, Trusted, Progress
  <1>5. CASE WriteAutoMerge
    <2> DEFINE row == AutoMergeRow(candidates.autoMerge[autoMerged + 1])
    <2>1. /\ phase = "auto" /\ phase' = "auto" /\ checkpoint' = None /\ candidates' = candidates
          /\ drained' = 0 /\ Len(output) = autoMerged /\ autoMerged' = autoMerged + 1
          /\ autoMerged < Len(candidates.autoMerge)
          /\ \A k \in 1..autoMerged : output[k] = AutoMergeRow(candidates.autoMerge[k])
      BY <1>5 DEF WriteAutoMerge, Trusted, Backed, Progress
    <2>2. row.band = "auto-merge" /\ \A k \in 1..autoMerged : output[k].band = "auto-merge"
      BY <2>1 DEF AutoMergeRow
    <2>3. output' = Append(output, row)
      BY <1>5 DEF WriteAutoMerge
    <2>4. /\ Len(output') = autoMerged + 1 /\ DOMAIN output' = 1..(autoMerged + 1)
          /\ output'[autoMerged + 1] = row
          /\ \A k \in 1..autoMerged : output'[k] = output[k]
      BY <2>1, <2>3
    <2>5. InputOrder'
      BY <2>2, <2>4 DEF InputOrder
    <2>6. Progress'
      BY <1>0, <2>1, <2>4 DEF Progress
    <2> QED BY <2>1, <2>5, <2>6 DEF Trusted, Backed
  <1>6. CASE AutoMergeDone
    <2>1. /\ UNCHANGED <<output, candidates, checkpoint, drained, written>>
          /\ phase' = "judge" /\ checkpoint = None /\ drained = 0 /\ ~written
          /\ Len(output) = Len(candidates.autoMerge)
          /\ \A k \in 1..Len(output) : output[k] = AutoMergeRow(candidates.autoMerge[k])
      BY <1>6 DEF AutoMergeDone, Trusted, Backed, Progress, Futures
    <2>2. AutoMergeOnce
      BY <1>0, <2>1 DEF AutoMergeOnce
    <2>3. LastIndex = 0
      <3>1. \A k \in 1..Len(output) : output[k].band # "escalate"
        <4>1. \A p : AutoMergeRow(p).band = "auto-merge"
          BY DEF AutoMergeRow
        <4>2. \A k \in 1..Len(output) : output[k].band = "auto-merge"
          BY <2>1, <4>1
        <4> QED BY <4>2
      <3>2. output # <<>> => Len(output) \in 1..Len(output)
        OBVIOUS
      <3> QED BY <3>1, <3>2 DEF LastIndex
    <2> QED BY <1>0, <2>1, <2>2, <2>3, SameFile DEF Trusted, Backed, Progress, Prefix
  <1>7. CASE SubmitChunk
    BY <1>7, TrustedFrame DEF SubmitChunk, disk
  <1>8. ASSUME NEW i \in DOMAIN work, JudgeTier(i)
        PROVE  Trusted'
    BY <1>8, TrustedFrame DEF JudgeTier, disk
  <1>9. CASE WriteRow
    <2>0. PICK i \in Nat : i = drained + 1
      OBVIOUS
    <2>1. /\ phase = "judge" /\ ~written /\ i \in DOMAIN work /\ Resolved(i)
          /\ UNCHANGED <<candidates, checkpoint, phase, drained, autoMerged>>
          /\ written' = TRUE /\ output' = Append(output, EscalateRow(i))
      BY <1>9, <2>0 DEF WriteRow
    <2>2. /\ LastIndex \in 0..total /\ drained <= LastIndex
          /\ AutoMergeOnce /\ InputOrder /\ Prefix(drained)
      BY <2>1 DEF Trusted, Progress
    <2>2a. i \in 1..total /\ i <= LastIndex + 1 /\ drained \in Nat
      BY <1>0, <2>0, <2>1, <2>2 DEF Futures
    <2>3. /\ EscalateRow(i) \in Rows /\ EscalateRow(i).band = "escalate"
          /\ EscalateRow(i).pair = Pair(i)
      BY <2>1, <2>2a, EscalateRowType DEF EscalateRow
    <2>4. /\ InputOrder' /\ AutoMergeOnce' /\ LastIndex' = i /\ HasRow(i)'
          /\ \A j \in Nat : HasRow(j) => HasRow(j)'
      BY <2>1, <2>2, <2>2a, <2>3, NextRow
    <2>5. \A j \in 1..i : HasRow(j)'
      <3> SUFFICES ASSUME NEW j \in 1..i PROVE HasRow(j)'
        OBVIOUS
      <3>1. j = i \/ j \in 1..drained
        BY <2>0, <2>2a
      <3>2. j \in Nat
        BY <2>2a
      <3> QED BY <2>2, <2>4, <3>1, <3>2 DEF Prefix
    <2>6. total' = total
      BY <2>1 DEF total
    <2>7. Progress'
      BY <1>0, <2>0, <2>1, <2>2a, <2>4, <2>5, <2>6 DEF Progress, Prefix
    <2>8. Backed'
      <3> SUFFICES ASSUME checkpoint # None PROVE Backed'
        BY <2>1 DEF Backed
      <3>1. /\ checkpoint.last \in 0..total /\ checkpoint.total = total
            /\ checkpoint.last <= drained
        BY <2>1 DEF Trusted, Backed
      <3>2. \A j \in 1..checkpoint.last : HasRow(j)'
        BY <2>0, <2>2a, <2>5, <3>1
      <3> QED BY <1>0, <2>0, <2>1, <2>2a, <2>4, <2>6, <3>1, <3>2 DEF Backed, Prefix
    <2> QED BY <2>4, <2>7, <2>8 DEF Trusted
  <1>10. CASE Record
    <2>1. /\ phase = "judge" /\ written /\ ~written' /\ drained' = drained + 1
          /\ UNCHANGED <<candidates, output, phase, autoMerged>>
          /\ \/ checkpoint' = checkpoint
             \/ /\ checkpoint' # None => checkpoint'.last = drained + 1
                /\ checkpoint' # None => checkpoint'.total = total
      BY <1>10 DEF Record
    <2>2. /\ drained + 1 \in 1..total /\ Prefix(drained + 1) /\ drained + 1 = LastIndex
          /\ LastIndex \in 0..total /\ AutoMergeOnce /\ InputOrder
      BY <2>1 DEF Futures, Trusted, Progress
    <2>3. \A j \in 1..(drained + 1) : HasRow(j)'
      BY <2>1, <2>2, SameFile DEF Prefix
    <2>4. Progress'
      BY <1>0, <2>1, <2>2, <2>3, SameFile DEF Progress, Prefix
    <2>5. Backed'
      <3> SUFFICES ASSUME checkpoint' # None PROVE Backed'
        BY DEF Backed
      <3>1. /\ checkpoint'.last \in 0..(drained + 1) /\ checkpoint'.total = total
        BY <1>0, <2>1, <2>2 DEF Trusted, Backed
      <3>2. \A j \in 1..checkpoint'.last : HasRow(j)'
        BY <2>3, <3>1
      <3> QED BY <1>0, <2>1, <2>2, <3>1, <3>2, SameFile DEF Backed, Prefix
    <2> QED BY <2>1, <2>2, <2>4, <2>5, SameFile DEF Trusted
  <1>11. CASE Finish
    <2>1. /\ UNCHANGED <<output, candidates, checkpoint, drained, written>>
          /\ phase = "judge" /\ phase' = "ended" /\ ~written /\ drained >= total
      BY <1>11 DEF Finish, disk
    <2>2. /\ drained <= total /\ Prefix(drained) /\ drained <= LastIndex
          /\ LastIndex \in 0..total /\ AutoMergeOnce /\ InputOrder
      BY <2>1 DEF Trusted, Progress
    <2>3. \A j \in 1..drained : HasRow(j)'
      BY <2>1, <2>2, SameFile DEF Prefix
    <2>4. Progress'
      BY <1>0, <2>1, <2>2, <2>3, SameFile DEF Progress, Prefix
    <2>5. Backed'
      <3> SUFFICES ASSUME checkpoint # None PROVE Backed'
        BY <2>1 DEF Backed
      <3>1. checkpoint.last \in 0..total /\ checkpoint.total = total /\ checkpoint.last <= drained
            /\ checkpoint.last <= LastIndex
        BY <2>1 DEF Trusted, Backed
      <3>2. \A j \in 1..checkpoint.last : HasRow(j)'
        BY <1>0, <2>3, <3>1
      <3> QED BY <2>1, <2>2, <3>1, <3>2, SameFile DEF Backed, Prefix
    <2> QED BY <2>1, <2>2, <2>4, <2>5, SameFile DEF Trusted
  <1>12. CASE Crash
    <2>1. phase # "unlinked"
      BY <1>12, BatchAssumption DEF Crash, Trusted, Progress, FilesKept
    <2>2. UNCHANGED <<output, candidates, checkpoint>> /\ phase' = "down"
      BY <1>12 DEF Crash, disk
    <2>3. \A j \in Nat : HasRow(j) => HasRow(j)'
      BY <2>2, SameFile
    <2>4. checkpoint # None => \A j \in 1..checkpoint.last : HasRow(j)'
      BY <2>1, <2>3, <1>0 DEF Trusted, Backed, Prefix
    <2> QED BY <2>1, <2>2, <2>4, SameFile DEF Trusted, Backed, Progress, Prefix
  <1>13. CASE UNCHANGED vars
    BY <1>13, TrustedFrame DEF vars
  <1> QED BY <1>1, <1>2, <1>3, <1>4, <1>5, <1>6, <1>7, <1>8, <1>9, <1>10, <1>11, <1>12, <1>13
         DEF Next, Run

\* NO CANDIDATE IS LOST: when a run reports the end, every candidate has its
\* row, after any number of crashes at any point and of resumes and repeats.
THEOREM EveryCandidateHasItsRow ==
  ASSUME FilesKept PROVE Spec => []EveryCandidateJudged
  <1>1. Init => TypeOK /\ Futures /\ Trusted
    BY TypesInit, TrustedInit
  <1>2. TypeOK /\ Futures /\ Trusted /\ [Next]_vars => TypeOK' /\ Futures' /\ Trusted'
    BY TypesStep, TrustedStep
  <1>3. TypeOK /\ Trusted => EveryCandidateJudged
    BY DEF Trusted, Progress, Prefix, EveryCandidateJudged
  <1> QED BY <1>1, <1>2, <1>3, PTL DEF Spec

\* RESUME IS SAFE: at every point where the process may die, the pairs that a
\* checkpoint lets the next run skip have their rows, and so has the whole
\* auto-merge band.
THEOREM SkippedPairsAreWritten ==
  ASSUME "reembed" \notin Operator, "restart" \notin Operator
  PROVE  Spec => []ResumeSkipsOnlyWritten
  <1>0. FilesKept
    BY DEF FilesKept
  <1>1. Init => TypeOK /\ Futures /\ Trusted
    BY TypesInit, TrustedInit
  <1>2. TypeOK /\ Futures /\ Trusted /\ [Next]_vars => TypeOK' /\ Futures' /\ Trusted'
    BY <1>0, TypesStep, TrustedStep
  <1>3. TypeOK /\ Trusted => ResumeSkipsOnlyWritten
    BY DEF Trusted, Backed, Progress, Prefix, Resumable, ResumeSkipsOnlyWritten
  <1> QED BY <1>1, <1>2, <1>3, PTL DEF Spec

\* THE FILE STAYS IN INPUT ORDER, whatever order the threads finish in and
\* wherever a resume starts again.
THEOREM RowsInInputOrder ==
  ASSUME FilesKept PROVE Spec => []InputOrder
  <1>1. Init => TypeOK /\ Futures /\ Trusted
    BY TypesInit, TrustedInit
  <1>2. TypeOK /\ Futures /\ Trusted /\ [Next]_vars => TypeOK' /\ Futures' /\ Trusted'
    BY TypesStep, TrustedStep
  <1>3. Trusted => InputOrder
    BY DEF Trusted
  <1> QED BY <1>1, <1>2, <1>3, PTL DEF Spec

-----------------------------------------------------------------------------
(* What a crash costs *)

\* A multiple of c is never more than c away.
LEMMA MultipleAhead ==
  ASSUME NEW c \in Nat \ {0}, NEW a \in Nat
  PROVE  \E m \in (a + 1)..(a + c) : m % c = 0
  <1> DEFINE q == a \div c
  <1>1. a % c \in 0..(c - 1) /\ a = c * q + (a % c) /\ q \in Nat
    OBVIOUS
  <1>2. c * (q + 1) = c * q + c /\ (c * (q + 1)) % c = 0
    BY <1>1
  <1>3. c * q \in Nat
    BY <1>1
  <1> HIDE DEF q
  <1>4. c * (q + 1) \in (a + 1)..(a + c)
    BY <1>1, <1>2, <1>3
  <1> QED BY <1>2, <1>4

\* Where a resume would start.
Last == IF checkpoint = None THEN 0 ELSE checkpoint.last

\* The rows beyond the auto-merge band and the crashes' repeats.
Escalated == Len(output) - Len(candidates.autoMerge) - CheckpointInterval * crashes

\* A run has written no more rows than it has accounted for, and no checkpoint
\* was due since the last one.
Repeats ==
  /\ phase \in {"judge", "ended"} =>
       /\ Escalated <= drained + (IF written THEN 1 ELSE 0)
       /\ \A m \in (Last + 1)..drained : m % CheckpointInterval # 0
       /\ drained = total => Last = total
  /\ phase = "down" =>
       /\ Escalated <= total
       /\ checkpoint # None => Escalated <= Last

LEMMA RepeatTypes ==
  ASSUME TypeOK, Futures, Trusted
  PROVE  /\ Len(output) \in Nat /\ Len(candidates.autoMerge) \in Nat /\ total \in Nat
         /\ CheckpointInterval \in Nat \ {0} /\ crashes \in Nat /\ CheckpointInterval * crashes \in Nat
         /\ CheckpointInterval * (crashes + 1) = CheckpointInterval * crashes + CheckpointInterval
         /\ Escalated \in Int /\ Last \in 0..total
         /\ phase \in {"judge", "ended"} => Last <= drained /\ drained \in 0..total
         /\ phase = "auto" => Escalated <= 0 /\ Last = 0 /\ checkpoint = None
         /\ written => drained + 1 \in 1..total
  <1>1. /\ Len(output) \in Nat /\ Len(candidates.autoMerge) \in Nat /\ total \in Nat
        /\ drained \in Nat
    BY CandidateTypes DEF TypeOK
  <1>2. CheckpointInterval \in Nat \ {0} /\ crashes \in Nat
    BY BatchAssumption DEF TypeOK
  <1>3. CheckpointInterval * crashes \in Nat
    BY <1>2
  <1>4. CheckpointInterval * (crashes + 1) = CheckpointInterval * crashes + CheckpointInterval
    BY <1>2
  <1>5. Escalated \in Int
    BY <1>1, <1>3 DEF Escalated
  <1>6. Last \in 0..total
    BY <1>1 DEF Last, Trusted, Backed
  <1>7. phase \in {"judge", "ended"} => Last <= drained /\ drained \in 0..total
    BY <1>1 DEF Last, Trusted, Backed, Progress
  <1>8. phase = "auto" => Escalated <= 0 /\ Last = 0 /\ checkpoint = None
    BY <1>1, <1>3 DEF Escalated, Last, Trusted, Backed, Progress
  <1>9. written => drained + 1 \in 1..total
    BY <1>1 DEF Futures
  <1> QED BY <1>1, <1>2, <1>3, <1>4, <1>5, <1>6, <1>7, <1>8, <1>9

LEMMA RepeatsInit == Init => Repeats
  <1> SUFFICES ASSUME Init PROVE Repeats
    OBVIOUS
  <1>1. TypeOK /\ Futures /\ Trusted
    BY TypesInit, TrustedInit
  <1>2. phase = "down" /\ checkpoint = None /\ Len(output) = 0
    BY DEF Init
  <1> QED BY <1>1, <1>2, RepeatTypes DEF Repeats, Escalated

\* A step that keeps what Repeats reads.
LEMMA RepeatsFrame ==
  ASSUME Repeats, phase' = phase,
         UNCHANGED <<output, candidates, checkpoint, drained, written, crashes>>
  PROVE  Repeats'
  BY DEF Repeats, Escalated, Last, total

LEMMA RepeatsStep ==
  ASSUME FilesKept, TypeOK, Futures, Trusted, Repeats, [Next]_vars
  PROVE  Repeats'
  <1> USE RepeatTypes
  <1>1. CASE StartResume
    <2>1. CASE Resumable
      <3>1. /\ phase' = "judge" /\ drained' = Last /\ ~written' /\ checkpoint # None
            /\ UNCHANGED <<output, candidates, checkpoint, crashes>>
        BY <1>1, <2>1 DEF StartResume, Resumable, Last
      <3>2. /\ Last' = Last /\ Escalated' = Escalated /\ total' = total
        BY <3>1 DEF Last, Escalated, total
      <3>3. Escalated <= Last
        <4>1. CASE phase = "down"
          BY <3>1, <4>1 DEF Repeats
        <4>2. CASE phase = "ended"
          BY <4>2 DEF Repeats, Futures, Trusted, Progress
        <4> QED BY <1>1, <4>1, <4>2 DEF StartResume
      <3> QED BY <3>1, <3>2, <3>3 DEF Repeats
    <2>2. CASE ~Resumable
      <3>1. phase' = "auto"
        BY <1>1, <2>2 DEF StartResume, Fresh
      <3> QED BY <3>1 DEF Repeats
    <2> QED BY <2>1, <2>2
  <1>2. CASE StartRestart
    BY <1>2 DEF StartRestart, Repeats
  <1>3. CASE Reembed
    BY <1>3 DEF Reembed, FilesKept
  <1>4. CASE UnlinkCheckpoint
    BY <1>4 DEF UnlinkCheckpoint, Fresh, Repeats
  <1>5. CASE WriteAutoMerge
    BY <1>5 DEF WriteAutoMerge, Repeats
  <1>6. CASE AutoMergeDone
    <2>1. /\ phase = "auto" /\ phase' = "judge" /\ drained = 0 /\ ~written
          /\ UNCHANGED <<output, candidates, checkpoint, drained, written, crashes>>
      BY <1>6 DEF AutoMergeDone, Trusted, Progress, Futures
    <2>2. /\ Last' = Last /\ Escalated' = Escalated /\ total' = total
      BY <2>1 DEF Last, Escalated, total
    <2> QED BY <2>1, <2>2 DEF Repeats
  <1>7. CASE SubmitChunk
    BY <1>7, RepeatsFrame DEF SubmitChunk, disk
  <1>8. ASSUME NEW i \in DOMAIN work, JudgeTier(i)
        PROVE  Repeats'
    BY <1>8, RepeatsFrame DEF JudgeTier, disk
  <1>9. CASE WriteRow
    <2>1. /\ phase = "judge" /\ phase' = phase /\ ~written /\ written' = TRUE
          /\ UNCHANGED <<candidates, checkpoint, drained, crashes>>
      BY <1>9 DEF WriteRow
    <2>2. Len(output') = Len(output) + 1
      BY <1>9 DEF WriteRow, TypeOK
    <2>3. Last' = Last /\ total' = total
      BY <2>1 DEF Last, total
    <2>4. Escalated' = Escalated + 1
      <3>1. PICK p \in Nat : p = CheckpointInterval * crashes
        OBVIOUS
      <3>2. PICK a \in Nat : a = Len(candidates.autoMerge)
        OBVIOUS
      <3>3. Escalated = Len(output) - a - p /\ Escalated' = Len(output') - a - p
        BY <2>1, <3>1, <3>2 DEF Escalated
      <3>4. Len(output) \in Nat
        OBVIOUS
      <3> QED BY ONLY <2>2, <3>3, <3>4
    <2> QED BY <2>1, <2>3, <2>4 DEF Repeats
  <1>10. CASE Record
    <2>1. /\ phase = "judge" /\ phase' = phase /\ written /\ ~written'
          /\ drained' = drained + 1
          /\ UNCHANGED <<output, candidates, crashes>>
      BY <1>10 DEF Record
    <2>2. total' = total /\ Escalated' = Escalated
      BY <2>1 DEF Escalated, total
    <2>3. Escalated <= drained + 1 /\ \A m \in (Last + 1)..drained : m % CheckpointInterval # 0
      BY <2>1 DEF Repeats
    <2>4. CASE CheckpointDue(drained + 1)
      <3>1. Last' = drained + 1
        <4>1. checkpoint' = [last |-> drained + 1, total |-> total, counters |-> counters']
          BY <1>10, <2>4 DEF Record
        <4>2. checkpoint' \in Checkpoints
          BY <2>1, <4>1, TypesStep DEF Checkpoints, TypeOK
        <4> QED BY <4>1, <4>2, NoneAssumption DEF Last
      <3> QED BY <2>1, <2>2, <2>3, <3>1 DEF Repeats
    <2>5. CASE ~CheckpointDue(drained + 1)
      <3>1. Last' = Last
        BY <1>10, <2>5 DEF Record, Last
      <3>2. (drained + 1) % CheckpointInterval # 0 /\ drained + 1 # total
        BY <2>5 DEF CheckpointDue
      <3>3. ASSUME NEW m \in (Last + 1)..(drained + 1) PROVE m % CheckpointInterval # 0
        <4>1. Last \in Nat /\ drained \in Nat
          BY <2>1
        <4>2. m \in (Last + 1)..drained \/ m = drained + 1
          BY ONLY <4>1, <3>3
        <4> QED BY ONLY <2>3, <3>2, <4>2
      <3>4. \A m \in (Last' + 1)..drained' : m % CheckpointInterval # 0
        BY ONLY <2>1, <3>1, <3>3
      <3>5. Escalated' <= drained' /\ drained' # total'
        BY ONLY <2>1, <2>2, <2>3, <3>2
      <3> QED BY ONLY <2>1, <3>4, <3>5 DEF Repeats
    <2> QED BY <2>4, <2>5
  <1>11. CASE Finish
    <2>1. /\ phase = "judge" /\ phase' = "ended"
          /\ UNCHANGED <<output, candidates, checkpoint, drained, written, crashes>>
      BY <1>11 DEF Finish, disk
    <2>2. /\ Last' = Last /\ Escalated' = Escalated /\ total' = total
      BY <2>1 DEF Last, Escalated, total
    <2> QED BY <2>1, <2>2 DEF Repeats
  <1>12. CASE Crash
    <2>1. phase \in {"auto", "judge"} /\ phase' = "down"
      BY <1>12, BatchAssumption DEF Crash, Trusted, Progress, FilesKept
    <2>2. /\ UNCHANGED <<output, candidates, checkpoint>> /\ crashes' = crashes + 1
      BY <1>12 DEF Crash, disk
    <2>3. Last' = Last /\ total' = total /\ Escalated' = Escalated - CheckpointInterval
      <3>1. PICK p \in Nat : p = CheckpointInterval * crashes
        OBVIOUS
      <3>2. CheckpointInterval * (crashes + 1) = p + CheckpointInterval
        BY <3>1
      <3>3. PICK a \in Nat : a = Len(output)
        OBVIOUS
      <3>4. PICK b \in Nat : b = Len(candidates.autoMerge)
        OBVIOUS
      <3>5. Escalated = a - b - p /\ Escalated' = a - b - (p + CheckpointInterval)
        BY ONLY <2>2, <3>1, <3>2, <3>3, <3>4 DEF Escalated
      <3>6. CheckpointInterval \in Nat
        OBVIOUS
      <3>7. Escalated' = Escalated - CheckpointInterval
        BY ONLY <3>1, <3>3, <3>4, <3>5, <3>6
      <3> QED BY ONLY <2>2, <3>7 DEF Last, total
    <2>4. CASE phase = "auto"
      BY <2>1, <2>2, <2>3, <2>4 DEF Repeats
    <2>5. CASE phase = "judge"
      <3>1. /\ Escalated <= drained + (IF written THEN 1 ELSE 0)
            /\ \A m \in (Last + 1)..drained : m % CheckpointInterval # 0
        BY <2>5 DEF Repeats
      <3>2. drained + 1 <= Last + CheckpointInterval
        <4>1. PICK m \in (Last + 1)..(Last + CheckpointInterval) : m % CheckpointInterval = 0
          <5>1. Last \in Nat /\ CheckpointInterval \in Nat \ {0}
            OBVIOUS
          <5> HIDE DEF Last
          <5> QED BY <5>1, MultipleAhead
        <4>2. ~(m <= drained)
          BY <3>1, <4>1
        <4> QED BY <2>5, <4>1, <4>2
      <3>3. /\ Escalated \in Int /\ Last \in 0..total /\ total \in Nat /\ drained \in 0..total
            /\ CheckpointInterval \in Nat \ {0}
        BY <2>5
      <3>4. Escalated <= drained + 1
        BY <3>1, <3>3
      <3>5. Escalated - CheckpointInterval <= total /\ Escalated - CheckpointInterval <= Last
        BY ONLY <3>2, <3>3, <3>4
      <3>6. Escalated' <= total' /\ Escalated' <= Last'
        BY ONLY <2>3, <3>5
      <3> QED BY ONLY <2>1, <3>6 DEF Repeats
    <2> QED BY <2>1, <2>4, <2>5
  <1>13. CASE UNCHANGED vars
    BY <1>13, RepeatsFrame DEF vars
  <1> QED BY <1>1, <1>2, <1>3, <1>4, <1>5, <1>6, <1>7, <1>8, <1>9, <1>10, <1>11, <1>12, <1>13
         DEF Next, Run

\* REPEATS ARE BOUNDED: the file never has more rows than candidates, but for
\* one checkpoint interval of repeats per crash.
THEOREM CrashesRepeatLittle ==
  ASSUME FilesKept PROVE Spec => []RepeatsBounded
  <1>1. Init => TypeOK /\ Futures /\ Trusted /\ Repeats
    BY TypesInit, TrustedInit, RepeatsInit
  <1>2. TypeOK /\ Futures /\ Trusted /\ Repeats /\ [Next]_vars
          => TypeOK' /\ Futures' /\ Trusted' /\ Repeats'
    BY TypesStep, TrustedStep, RepeatsStep
  <1>3. TypeOK /\ Futures /\ Trusted /\ Repeats => RepeatsBounded
    <2> SUFFICES ASSUME TypeOK, Futures, Trusted, Repeats PROVE RepeatsBounded
      OBVIOUS
    <2>1. Escalated <= total
      <3>1. CASE phase = "unlinked"
        BY <3>1, RepeatTypes DEF Trusted, Progress, Escalated
      <3>2. CASE phase \in {"judge", "ended"}
        BY <3>2, RepeatTypes DEF Repeats
      <3>3. CASE phase \in {"down", "auto"}
        BY <3>3, RepeatTypes DEF Repeats
      <3> QED BY <3>1, <3>2, <3>3 DEF TypeOK, Phases
    <2>2. /\ Len(output) \in Nat /\ Len(candidates.autoMerge) \in Nat /\ total \in Nat
          /\ CheckpointInterval * crashes \in Nat
      BY RepeatTypes
    <2>3. PICK p \in Nat : p = CheckpointInterval * crashes
      BY <2>2
    <2>4. Len(output) - Len(candidates.autoMerge) - p <= total
      BY <2>1, <2>3 DEF Escalated
    <2>5. Len(output) <= Len(candidates.autoMerge) + total + p
      BY ONLY <2>2, <2>3, <2>4
    <2> QED BY ONLY <2>3, <2>5 DEF RepeatsBounded
  <1> QED BY <1>1, <1>2, <1>3, PTL DEF Spec

-----------------------------------------------------------------------------
(* Verdicts of repeated pairs *)

\* The steps of a cascade come in the order of its tiers.
InTierOrder(s) ==
  /\ Len(s) <= 2
  /\ Len(s) >= 1 => s[1].tier = "primary"
  /\ Len(s) = 2 => s[2].tier = "fallback" /\ NeedsSecondOpinion(s[1].decision)

\* A step of a running cascade is in the cache exactly when it was validated.
WorkExact ==
  phase = "judge" => \A i \in DOMAIN work :
    /\ Pair(i) \in Unresolvable => work[i] = <<>>
    /\ InTierOrder(work[i])
    /\ \A k \in DOMAIN work[i] :
         cache[<<Pair(i), work[i][k].tier>>] =
           IF work[i][k].decision.rationale = "llm" THEN work[i][k].decision ELSE None

\* The cache alone decides the pair ...
Firm(p) ==
  /\ cache[<<p, "primary">>] # None
  /\ NeedsSecondOpinion(cache[<<p, "primary">>]) => cache[<<p, "fallback">>] # None

\* ... with this verdict.
CachedVerdict(p) ==
  IF NeedsSecondOpinion(cache[<<p, "primary">>])
    THEN cache[<<p, "fallback">>] ELSE cache[<<p, "primary">>]

Settled(row) == row.band = "escalate" /\ row.steps # <<>> /\ AllValidated(row.steps)

\* A settled row says what the cache says, and so does every later one.
RowsExplained ==
  \A j \in DOMAIN output : Settled(output[j]) =>
    /\ output[j].pair \notin Unresolvable
    /\ Firm(output[j].pair)
    /\ \A k \in DOMAIN output :
         k >= j /\ output[k].band = "escalate" /\ output[k].pair = output[j].pair
           => output[k].decision = CachedVerdict(output[j].pair)

LEMMA CacheGrows ==
  ASSUME NEW p, Firm(p),
         \A key \in {<<p, "primary">>, <<p, "fallback">>} :
           cache[key] # None => cache'[key] = cache[key]
  PROVE  Firm(p)' /\ CachedVerdict(p)' = CachedVerdict(p)
  BY DEF Firm, CachedVerdict

\* A complete cascade of an exact run agrees with the cache.
LEMMA WorkVerdict ==
  ASSUME TypeOK, Futures, WorkExact, phase = "judge",
         NEW i \in DOMAIN work, Complete(work[i]), Pair(i) \notin Unresolvable
  PROVE  /\ Firm(Pair(i)) => Final(work[i]) = CachedVerdict(Pair(i))
         /\ AllValidated(work[i]) => Firm(Pair(i))
  <1> DEFINE s == work[i]
  <1> DEFINE p == Pair(i)
  <1>1. s \in Seq(CascadeSteps) /\ Len(s) \in {1, 2} /\ DOMAIN s = 1..Len(s)
    BY DEF TypeOK, Complete
  <1>2. /\ s[1].tier = "primary" /\ Complete(s)
        /\ Len(s) = 2 => s[2].tier = "fallback" /\ NeedsSecondOpinion(s[1].decision)
    <2>1. InTierOrder(s)
      BY DEF WorkExact
    <2> QED BY <1>1, <2>1 DEF InTierOrder
  <1>3. \A k \in 1..Len(s) :
          cache[<<p, s[k].tier>>] = IF s[k].decision.rationale = "llm" THEN s[k].decision ELSE None
    BY <1>1 DEF WorkExact
  <1>4. \A k \in 1..Len(s) : s[k].decision \in Verdicts
    <2> HIDE DEF s
    <2>1. \A k \in 1..Len(s) : s[k] \in CascadeSteps
      BY <1>1
    <2> QED BY <2>1 DEF CascadeSteps
  <1>5. None \notin Verdicts
    BY BatchAssumption
  <1> HIDE DEF s, p
  <1>6. CASE Len(s) = 1
    <2>1. cache[<<p, "primary">>] = IF s[1].decision.rationale = "llm" THEN s[1].decision ELSE None
      BY <1>2, <1>3, <1>6
    <2>2. ~NeedsSecondOpinion(s[1].decision) /\ Final(s) = s[1].decision
      BY <1>2, <1>6 DEF Complete, Final
    <2>3. s[1].decision # None
      BY <1>4, <1>5, <1>6
    <2>4. Firm(p) => Final(s) = CachedVerdict(p)
      BY <2>1, <2>2, <2>3 DEF Firm, CachedVerdict
    <2>5. AllValidated(s) => Firm(p)
      BY <1>1, <1>6, <2>1, <2>2, <2>3 DEF Firm, AllValidated
    <2> QED BY <2>4, <2>5 DEF s, p
  <1>7. CASE Len(s) = 2
    <2>1. cache[<<p, "primary">>] = IF s[1].decision.rationale = "llm" THEN s[1].decision ELSE None
      BY <1>2, <1>3, <1>7
    <2>2. cache[<<p, "fallback">>] = IF s[2].decision.rationale = "llm" THEN s[2].decision ELSE None
      BY <1>2, <1>3, <1>7
    <2>3. NeedsSecondOpinion(s[1].decision) /\ Final(s) = s[2].decision
      BY <1>2, <1>7 DEF Final
    <2>4. s[1].decision # None /\ s[2].decision # None
      BY <1>4, <1>5, <1>7
    <2>5. Firm(p) => Final(s) = CachedVerdict(p)
      BY <2>1, <2>2, <2>3, <2>4 DEF Firm, CachedVerdict
    <2>6. AllValidated(s) => Firm(p)
      BY <1>1, <1>7, <2>1, <2>2, <2>3, <2>4 DEF Firm, AllValidated
    <2> QED BY <2>5, <2>6 DEF s, p
  <1> QED BY <1>1, <1>6, <1>7

LEMMA ExplainedInit == Init => WorkExact /\ RowsExplained
  BY DEF Init, WorkExact, RowsExplained

\* Steps that judge nothing and write no row of a candidate.
LEMMA ExplainedFrame ==
  ASSUME WorkExact, RowsExplained, UNCHANGED cache, output' = output \/ output' = <<>>,
         phase' # "judge" \/ DOMAIN work' = {}
           \/ (phase = "judge" /\ UNCHANGED <<work, candidates>>)
  PROVE  WorkExact' /\ RowsExplained'
  <1>1. WorkExact'
    BY DEF WorkExact, Pair
  <1>2. RowsExplained'
    BY DEF RowsExplained, Firm, CachedVerdict
  <1> QED BY <1>1, <1>2

\* A tier answers: at most the entry of that tier changes, and it was empty.
LEMMA TierCached ==
  ASSUME TypeOK, NEW i \in DOMAIN work, JudgeTier(i), DOMAIN work \subseteq 1..total
  PROVE  \E d \in Verdicts, hit \in BOOLEAN :
           LET key == <<Pair(i), NextTier(work[i])>>
           IN /\ work' = [work EXCEPT ![i] =
                            Append(@, [tier |-> NextTier(work[i]), decision |-> d, hit |-> hit])]
              /\ cache'[key] = IF d.rationale = "llm" THEN d ELSE None
              /\ cache[key] # None => cache'[key] = cache[key]
              /\ \A other \in Pairs \X Tiers : other # key => cache'[other] = cache[other]
  <1> DEFINE key == <<Pair(i), NextTier(work[i])>>
  <1>1. key \in Pairs \X Tiers
    BY CandidateTypes DEF TypeOK, NextTier, Tiers
  <1>2. cache \in [Pairs \X Tiers -> Answers \cup {None}]
    BY DEF TypeOK
  <1>3. \A d \in Answers : d \in Verdicts /\ d.rationale = "llm"
    BY BatchAssumption DEF ValidatedDecisions, Verdicts
  <1>4. FellThrough \in Verdicts /\ FellThrough.rationale # "llm"
    BY DEF FellThrough, Verdicts
  <1>5. CASE AnswerFromCache(i)
    <2>1. cache[key] \in Answers
      BY <1>1, <1>2, <1>5 DEF AnswerFromCache
    <2>2. cache[key] \in Verdicts /\ cache[key].rationale = "llm"
      BY <1>3, <2>1
    <2> QED BY <1>5, <2>2 DEF AnswerFromCache, Answer
  <1>6. CASE AnswerFresh(i)
    <2>1. PICK d \in Answers : Answer(i, d, FALSE) /\ cache' = [cache EXCEPT ![key] = d]
      BY <1>6 DEF AnswerFresh
    <2>2. d \in Verdicts /\ d.rationale = "llm" /\ cache[key] = None
      BY <1>3, <1>6, <2>1 DEF AnswerFresh
    <2> QED BY <1>1, <1>2, <2>1, <2>2 DEF Answer
  <1>7. CASE FallThrough(i)
    BY <1>4, <1>7 DEF FallThrough, Answer
  <1> QED BY <1>5, <1>6, <1>7 DEF JudgeTier

\* The next tier of an unfinished cascade keeps the order and is a new one.
LEMMA TierOrderKept ==
  ASSUME NEW s \in Seq(CascadeSteps), InTierOrder(s), ~Complete(s),
         NEW d \in Verdicts, NEW hit \in BOOLEAN
  PROVE  /\ InTierOrder(Append(s, [tier |-> NextTier(s), decision |-> d, hit |-> hit]))
         /\ \A k \in 1..Len(s) : s[k].tier # NextTier(s) /\ s[k].tier \in Tiers
  <1> DEFINE step == [tier |-> NextTier(s), decision |-> d, hit |-> hit]
  <1>1. step.tier = NextTier(s) /\ step \in CascadeSteps
    BY DEF CascadeSteps, NextTier, Tiers
  <1> HIDE DEF step
  <1>2. CASE Len(s) = 0
    <2>1. NextTier(s) = "primary" /\ Append(s, step)[1] = step /\ Len(Append(s, step)) = 1
      BY <1>1, <1>2 DEF NextTier
    <2> QED BY <1>1, <1>2, <2>1 DEF InTierOrder, step
  <1>3. CASE Len(s) = 1
    <2>1. /\ Len(Append(s, step)) = 2
          /\ Append(s, step)[1] = s[1] /\ Append(s, step)[2] = step
      <3>1. /\ Len(Append(s, step)) = Len(s) + 1
            /\ \A k \in 1..Len(s) : Append(s, step)[k] = s[k]
            /\ Append(s, step)[Len(s) + 1] = step
        BY <1>1, AppendProperties
      <3> QED BY <1>3, <3>1
    <2>2. NextTier(s) = "fallback"
      BY <1>3 DEF NextTier
    <2>3. s[1].tier = "primary" /\ NeedsSecondOpinion(s[1].decision)
      BY <1>3 DEF InTierOrder, Complete
    <2> QED BY <1>1, <1>3, <2>1, <2>2, <2>3 DEF InTierOrder, Tiers, step
  <1>4. Len(s) \in {0, 1}
    <2>1. PICK n \in Nat : n = Len(s)
      OBVIOUS
    <2>2. n \in {0, 1}
      BY <2>1 DEF InTierOrder, Complete
    <2> QED BY <2>1, <2>2
  <1> QED BY <1>2, <1>3, <1>4

LEMMA TierExplained ==
  ASSUME TypeOK, Futures, WorkExact, RowsExplained, NEW i \in DOMAIN work, JudgeTier(i)
  PROVE  WorkExact' /\ RowsExplained'
  <1>1. /\ phase = "judge" /\ phase' = phase /\ DOMAIN work \subseteq 1..total
        /\ candidates' = candidates /\ output' = output
        /\ Pair(i) \notin Unresolvable /\ ~Complete(work[i])
    BY DEF JudgeTier, Judging, Futures, disk
  <1>2. PICK d \in Verdicts, hit \in BOOLEAN :
          LET key == <<Pair(i), NextTier(work[i])>>
          IN /\ work' = [work EXCEPT ![i] =
                           Append(@, [tier |-> NextTier(work[i]), decision |-> d, hit |-> hit])]
             /\ cache'[key] = IF d.rationale = "llm" THEN d ELSE None
             /\ cache[key] # None => cache'[key] = cache[key]
             /\ \A other \in Pairs \X Tiers : other # key => cache'[other] = cache[other]
    BY <1>1, TierCached
  <1> DEFINE s == work[i]
  <1> DEFINE t == NextTier(s)
  <1> DEFINE step == [tier |-> t, decision |-> d, hit |-> hit]
  <1>3. /\ s \in Seq(CascadeSteps) /\ step.tier = t /\ step.decision = d
        /\ InTierOrder(s) /\ t \in Tiers /\ step \in CascadeSteps
    BY <1>1 DEF TypeOK, WorkExact, NextTier, Tiers, CascadeSteps
  <1>4. work'[i] = Append(s, step) /\ DOMAIN work' = DOMAIN work
        /\ \A j \in DOMAIN work : j # i => work'[j] = work[j]
    BY <1>2
  <1>5. /\ InTierOrder(Append(s, step))
        /\ \A k \in 1..Len(s) : s[k].tier # t /\ s[k].tier \in Tiers
    <2>1. ~Complete(s)
      BY <1>1
    <2> HIDE DEF s
    <2> QED BY <1>3, <2>1, TierOrderKept
  <1>6. WorkExact'
    <2>1. \A j \in DOMAIN work : Pair(j)' = Pair(j)
      BY <1>1 DEF Pair
    <2>2. ASSUME NEW j \in DOMAIN work, j # i
          PROVE  /\ Pair(j) \in Unresolvable => work'[j] = <<>>
                 /\ InTierOrder(work'[j])
                 /\ \A k \in DOMAIN work'[j] :
                      cache'[<<Pair(j), work'[j][k].tier>>] =
                        IF work'[j][k].decision.rationale = "llm"
                          THEN work'[j][k].decision ELSE None
      <3>1. Pair(j) # Pair(i) /\ Pair(j) \in Pairs
        BY <1>1, <2>2, CandidateTypes DEF TypeOK
      <3>2. \A k \in DOMAIN work[j] : work[j][k].tier \in Tiers
        <4>1. work[j] \in Seq(CascadeSteps)
          BY DEF TypeOK
        <4>2. \A k \in DOMAIN work[j] : work[j][k] \in CascadeSteps
          BY <4>1
        <4> QED BY <4>2 DEF CascadeSteps
      <3>3. \A k \in DOMAIN work[j] :
              cache'[<<Pair(j), work[j][k].tier>>] = cache[<<Pair(j), work[j][k].tier>>]
        BY <1>2, <3>1, <3>2
      <3> QED BY <1>1, <1>4, <2>2, <3>3 DEF WorkExact
    <2>3. \A k \in DOMAIN work'[i] :
            cache'[<<Pair(i), work'[i][k].tier>>] =
              IF work'[i][k].decision.rationale = "llm" THEN work'[i][k].decision ELSE None
      <3>1. Pair(i) \in Pairs
        BY <1>1, CandidateTypes DEF TypeOK
      <3>2. ASSUME NEW k \in 1..Len(s)
            PROVE  cache'[<<Pair(i), s[k].tier>>] =
                     IF s[k].decision.rationale = "llm" THEN s[k].decision ELSE None
        <4>1. cache'[<<Pair(i), s[k].tier>>] = cache[<<Pair(i), s[k].tier>>]
          BY <1>2, <1>5, <3>1
        <4>2. k \in DOMAIN work[i]
          BY <1>3
        <4> QED BY <1>1, <4>1, <4>2 DEF WorkExact
      <3>3. cache'[<<Pair(i), step.tier>>] =
              IF step.decision.rationale = "llm" THEN step.decision ELSE None
        BY <1>2
      <3>4. \A k \in DOMAIN Append(s, step) :
              \/ k \in 1..Len(s) /\ Append(s, step)[k] = s[k]
              \/ Append(s, step)[k] = step
        <4> HIDE DEF s, step
        <4> QED BY <1>3
      <3> HIDE DEF s, step
      <3> QED BY <1>4, <3>2, <3>3, <3>4
    <2>4. Pair(i) \notin Unresolvable /\ InTierOrder(work'[i])
      BY <1>1, <1>4, <1>5
    <2>5. \A j \in DOMAIN work' :
            /\ Pair(j)' \in Unresolvable => work'[j] = <<>>
            /\ InTierOrder(work'[j])
            /\ \A k \in DOMAIN work'[j] :
                 cache'[<<Pair(j)', work'[j][k].tier>>] =
                   IF work'[j][k].decision.rationale = "llm"
                     THEN work'[j][k].decision ELSE None
      <3> SUFFICES ASSUME NEW j \in DOMAIN work
                   PROVE  /\ Pair(j) \in Unresolvable => work'[j] = <<>>
                          /\ InTierOrder(work'[j])
                          /\ \A k \in DOMAIN work'[j] :
                               cache'[<<Pair(j), work'[j][k].tier>>] =
                                 IF work'[j][k].decision.rationale = "llm"
                                   THEN work'[j][k].decision ELSE None
        BY <1>4, <2>1
      <3>1. CASE j = i
        BY <2>3, <2>4, <3>1
      <3>2. CASE j # i
        BY <2>2, <3>2
      <3> QED BY <3>1, <3>2
    <2> QED BY <2>5 DEF WorkExact, InTierOrder
  <1>7. RowsExplained'
    <2> SUFFICES ASSUME NEW j \in DOMAIN output, Settled(output[j])
                 PROVE  /\ Firm(output[j].pair)'
                        /\ CachedVerdict(output[j].pair)' = CachedVerdict(output[j].pair)
      BY <1>1 DEF RowsExplained, Settled
    <2>1. output[j].pair \in Pairs /\ Firm(output[j].pair)
      <3>1. output[j] \in Rows
        BY DEF TypeOK
      <3> QED BY <3>1 DEF Rows, RowsExplained
    <2>2. \A key \in {<<output[j].pair, "primary">>, <<output[j].pair, "fallback">>} :
            cache[key] # None => cache'[key] = cache[key]
      BY <1>2, <2>1 DEF Tiers
    <2>3. output[j].pair' = output[j].pair
      BY <1>1
    <2> HIDE DEF Settled
    <2> QED BY <2>1, <2>2, <2>3, CacheGrows
  <1> QED BY <1>6, <1>7

\* A row joins the file: its verdict agrees with the settled rows before it.
LEMMA RowExplained ==
  ASSUME TypeOK, Futures, WorkExact, RowsExplained, WriteRow
  PROVE  WorkExact' /\ RowsExplained'
  <1> DEFINE i == drained + 1
  <1> DEFINE row == EscalateRow(i)
  <1> DEFINE n == Len(output)
  <1>1. /\ phase = "judge" /\ phase' = phase /\ i \in DOMAIN work /\ Resolved(i)
        /\ UNCHANGED <<cache, work, candidates>> /\ output' = Append(output, row)
        /\ output \in Seq(Rows)
    BY DEF WriteRow, TypeOK
  <1>2. WorkExact'
    BY <1>1 DEF WorkExact, Pair
  <1>3. \A p : (Firm(p)' <=> Firm(p)) /\ CachedVerdict(p)' = CachedVerdict(p)
    BY <1>1 DEF Firm, CachedVerdict
  <1>4. /\ n \in Nat /\ Len(output') = n + 1 /\ DOMAIN output' = 1..(n + 1)
        /\ output'[n + 1] = row /\ \A k \in 1..n : output'[k] = output[k]
        /\ DOMAIN output = 1..n
    <2> HIDE DEF row
    <2> QED BY <1>1
  <1>5. /\ Pair(i) \notin Unresolvable /\ Firm(Pair(i)) => row.decision = CachedVerdict(Pair(i))
        /\ Settled(row) => Pair(i) \notin Unresolvable /\ Firm(Pair(i))
        /\ row.pair = Pair(i)
    <2>1. /\ row.pair = Pair(i) /\ row.steps = work[i]
          /\ Pair(i) \notin Unresolvable => row.decision = Final(work[i])
      BY DEF EscalateRow
    <2>2. CASE Pair(i) \in Unresolvable
      <3>1. row.steps = <<>>
        BY <1>1, <2>1, <2>2 DEF WorkExact
      <3> HIDE DEF row, i
      <3> QED BY <2>1, <2>2, <3>1 DEF Settled
    <2>3. CASE Pair(i) \notin Unresolvable
      <3>1. Complete(work[i])
        BY <1>1, <2>3 DEF Resolved
      <3> HIDE DEF row, i
      <3>2. /\ Firm(Pair(i)) => Final(work[i]) = CachedVerdict(Pair(i))
            /\ AllValidated(work[i]) => Firm(Pair(i))
        BY <1>1, <2>3, <3>1, WorkVerdict
      <3> QED BY <2>1, <2>3, <3>2 DEF Settled
    <2> QED BY <2>2, <2>3
  <1> HIDE DEF row, n, i
  <1>6. RowsExplained'
    <2> SUFFICES ASSUME NEW j \in 1..(n + 1), Settled(output'[j])
                 PROVE  /\ output'[j].pair \notin Unresolvable
                        /\ Firm(output'[j].pair)
                        /\ \A k \in 1..(n + 1) :
                             /\ k >= j /\ output'[k].band = "escalate"
                             /\ output'[k].pair = output'[j].pair
                             => output'[k].decision = CachedVerdict(output'[j].pair)
      BY <1>3, <1>4 DEF RowsExplained, Settled
    <2>1. CASE j \in 1..n
      <3>1. /\ output'[j] = output[j] /\ output[j].pair \notin Unresolvable /\ Firm(output[j].pair)
            /\ \A k \in 1..n : k >= j /\ output[k].band = "escalate" /\ output[k].pair = output[j].pair
                 => output[k].decision = CachedVerdict(output[j].pair)
        BY <1>4, <2>1 DEF RowsExplained
      <3>2. ASSUME NEW k \in 1..(n + 1), k >= j, output'[k].band = "escalate",
                   output'[k].pair = output[j].pair
            PROVE  output'[k].decision = CachedVerdict(output[j].pair)
        <4>1. CASE k \in 1..n
          BY <1>4, <3>1, <3>2, <4>1
        <4>2. CASE k = n + 1
          BY <1>4, <1>5, <3>1, <3>2, <4>2
        <4> QED BY <1>4, <4>1, <4>2
      <3> QED BY <3>1, <3>2
    <2>2. CASE j = n + 1
      <3>1. \A k \in 1..(n + 1) : k >= j => k = j
        BY <1>4, <2>2
      <3> QED BY <1>4, <1>5, <2>2, <3>1
    <2> QED BY <1>4, <2>1, <2>2
  <1> QED BY <1>2, <1>6

\* The auto-merge band is not judged, and comes before anything is.
LEMMA AutoMergeExplained ==
  ASSUME TypeOK, WorkExact, RowsExplained, WriteAutoMerge
  PROVE  WorkExact' /\ RowsExplained'
  <1> DEFINE row == AutoMergeRow(candidates.autoMerge[autoMerged + 1])
  <1>1. /\ phase' # "judge" /\ cache' = cache /\ output \in Seq(Rows)
        /\ output' = Append(output, row) /\ row.band = "auto-merge"
    BY DEF WriteAutoMerge, AutoMergeRow, TypeOK
  <1> HIDE DEF row
  <1>2. /\ DOMAIN output' = 1..(Len(output) + 1) /\ output'[Len(output) + 1] = row
        /\ \A k \in DOMAIN output : output'[k] = output[k]
    BY <1>1
  <1>3. \A k \in DOMAIN output' : output'[k].band = "escalate" =>
          k \in DOMAIN output /\ output'[k] = output[k]
    BY <1>1, <1>2
  <1>4. \A p : (Firm(p)' <=> Firm(p)) /\ CachedVerdict(p)' = CachedVerdict(p)
    BY <1>1 DEF Firm, CachedVerdict
  <1>5. RowsExplained'
    <2> SUFFICES ASSUME NEW j \in DOMAIN output', Settled(output'[j])
                 PROVE  /\ output'[j].pair \notin Unresolvable
                        /\ Firm(output'[j].pair)
                        /\ \A k \in DOMAIN output' :
                             /\ k >= j /\ output'[k].band = "escalate"
                             /\ output'[k].pair = output'[j].pair
                             => output'[k].decision = CachedVerdict(output'[j].pair)
      BY <1>4 DEF RowsExplained, Settled
    <2>1. j \in DOMAIN output /\ output'[j] = output[j]
      BY <1>3 DEF Settled
    <2> QED BY <1>3, <2>1 DEF RowsExplained
  <1> QED BY <1>1, <1>5 DEF WorkExact

LEMMA ExplainedStep ==
  ASSUME TypeOK, Futures, WorkExact, RowsExplained, [Next]_vars
  PROVE  WorkExact' /\ RowsExplained'
  <1> USE DEF disk
  <1>1. CASE StartResume
    <2>1. UNCHANGED cache /\ DOMAIN work' = {} /\ (output' = output \/ output' = <<>>)
      BY <1>1 DEF StartResume, Fresh
    <2> QED BY <2>1, ExplainedFrame
  <1>2. CASE StartRestart
    BY <1>2, ExplainedFrame DEF StartRestart
  <1>3. CASE Reembed
    BY <1>3, ExplainedFrame DEF Reembed
  <1>4. CASE UnlinkCheckpoint
    BY <1>4, ExplainedFrame DEF UnlinkCheckpoint, Fresh
  <1>5. CASE WriteAutoMerge
    BY <1>5, AutoMergeExplained
  <1>6. CASE AutoMergeDone
    BY <1>6, ExplainedFrame DEF AutoMergeDone, Futures
  <1>7. CASE SubmitChunk
    <2>1. /\ UNCHANGED <<cache, output, candidates>>
          /\ \A i \in DOMAIN work' : work'[i] = <<>>
      BY <1>7 DEF SubmitChunk
    <2>2. InTierOrder(<<>>) /\ DOMAIN <<>> = {}
      BY DEF InTierOrder
    <2>3. WorkExact'
      BY <2>1, <2>2 DEF WorkExact
    <2>4. RowsExplained'
      BY <2>1 DEF RowsExplained, Firm, CachedVerdict
    <2> QED BY <2>3, <2>4
  <1>8. ASSUME NEW i \in DOMAIN work, JudgeTier(i)
        PROVE  WorkExact' /\ RowsExplained'
    BY <1>8, TierExplained
  <1>9. CASE WriteRow
    BY <1>9, RowExplained
  <1>10. CASE Record
    BY <1>10, ExplainedFrame DEF Record
  <1>11. CASE Finish
    BY <1>11, ExplainedFrame DEF Finish
  <1>12. CASE Crash
    BY <1>12, ExplainedFrame DEF Crash
  <1>13. CASE UNCHANGED vars
    BY <1>13, ExplainedFrame DEF vars, WorkExact, Pair
  <1> QED BY <1>1, <1>2, <1>3, <1>4, <1>5, <1>6, <1>7, <1>8, <1>9, <1>10, <1>11, <1>12, <1>13
         DEF Next, Run

\* SETTLED VERDICTS STAY: whatever crashes, resumes and restarts repeat, a pair
\* that validated answers settled gets the same verdict in every later row.
THEOREM SettledVerdictsStay == Spec => []SettledRowsAgree
  <1>1. Init => TypeOK /\ Futures /\ WorkExact /\ RowsExplained
    BY TypesInit, ExplainedInit
  <1>2. TypeOK /\ Futures /\ WorkExact /\ RowsExplained /\ [Next]_vars
          => TypeOK' /\ Futures' /\ WorkExact' /\ RowsExplained'
    BY TypesStep, ExplainedStep
  <1>3. TypeOK /\ RowsExplained => SettledRowsAgree
    <2> SUFFICES ASSUME TypeOK, RowsExplained,
                        NEW j \in DOMAIN output, NEW k \in DOMAIN output, j < k,
                        output[j].band = "escalate", output[k].band = "escalate",
                        output[j].pair = output[k].pair, Settled(output[j])
                 PROVE  output[k].decision = output[j].decision
      BY DEF SettledRowsAgree, Settled
    <2>1. j \in Int /\ k \in Int
      BY DEF TypeOK
    <2>2. /\ output[j].decision = CachedVerdict(output[j].pair)
          /\ output[k].decision = CachedVerdict(output[j].pair)
      BY <2>1 DEF RowsExplained
    <2> QED BY <2>2
  <1> QED BY <1>1, <1>2, <1>3, PTL DEF Spec

-----------------------------------------------------------------------------
(* How often a candidate's row is written, and what the counters of a       *)
(* checkpoint and of a result say about the file.                          *)

(* Without a crash the rows of the escalate band are the candidates.       *)

AutoRows == Len(candidates.autoMerge)

Once ==
  /\ phase = "down" => output = <<>> /\ checkpoint = None
  /\ phase \in {"judge", "ended"} =>
       /\ Len(output) = AutoRows + drained + (IF written THEN 1 ELSE 0)
       /\ \A i \in 1..(Len(output) - AutoRows) : output[AutoRows + i].pair = Pair(i)
       /\ checkpoint # None /\ drained = total => checkpoint.last = total

LEMMA OnceInit == Init => Once
  BY DEF Init, Once

\* The row WriteRow appends is that of the next candidate.
LEMMA NextRowAppended ==
  ASSUME TypeOK, Futures, Trusted, WriteRow
  PROVE  /\ drained \in Nat /\ drained + 1 \in 1..total
         /\ EscalateRow(drained + 1) \in Rows
         /\ EscalateRow(drained + 1).band = "escalate" /\ EscalateRow(drained + 1).pair = Pair(drained + 1)
         /\ EscalateRow(drained + 1).steps = work[drained + 1]
         /\ Len(output') = Len(output) + 1 /\ output'[Len(output) + 1] = EscalateRow(drained + 1)
         /\ \A k \in 1..Len(output) : output'[k] = output[k]
  <1>1. /\ phase = "judge" /\ drained + 1 \in DOMAIN work /\ Resolved(drained + 1)
        /\ output' = Append(output, EscalateRow(drained + 1)) /\ output \in Seq(Rows)
    BY DEF WriteRow, TypeOK
  <1>2. drained + 1 \in 1..total /\ drained \in Nat
    BY <1>1 DEF Futures, TypeOK
  <1>3. EscalateRow(drained + 1) \in Rows
    BY <1>1, <1>2, EscalateRowType
  <1>4. /\ Len(output') = Len(output) + 1 /\ output'[Len(output) + 1] = EscalateRow(drained + 1)
        /\ \A k \in 1..Len(output) : output'[k] = output[k]
    BY <1>1, <1>3, AppendProperties
  <1> QED BY <1>2, <1>3, <1>4 DEF EscalateRow

LEMMA OnceStep ==
  ASSUME "reembed" \notin Operator, MaxCrashes = 0,
         TypeOK, Futures, Trusted, Once, [Next]_vars
  PROVE  Once'
  <1>0. /\ total \in Nat /\ AutoRows \in Nat /\ Len(output) \in Nat /\ drained \in Nat
        /\ (checkpoint # None => checkpoint.last \in Nat)
    BY CandidateTypes DEF AutoRows, TypeOK, Checkpoints
  <1>1. CASE StartResume
    <2>1. CASE Resumable
      <3>1. /\ phase = "ended" /\ phase' = "judge" /\ ~written' /\ drained' = checkpoint.last
            /\ UNCHANGED <<output, checkpoint, candidates>>
        BY <1>1, <2>1 DEF StartResume, Resumable, Once
      <3>2. checkpoint.last = total /\ drained = total /\ ~written
        BY <2>1, <3>1 DEF Resumable, Once, Trusted, Progress, Futures
      <3> QED BY <3>1, <3>2 DEF Once, AutoRows, total, Pair
    <2>2. CASE ~Resumable
      BY <1>1, <2>2 DEF StartResume, Fresh, Once
    <2> QED BY <2>1, <2>2
  <1>2. CASE StartRestart \/ UnlinkCheckpoint \/ WriteAutoMerge
    BY <1>2 DEF StartRestart, UnlinkCheckpoint, Fresh, WriteAutoMerge, Once
  <1>3. CASE Reembed \/ Crash
    BY <1>3, BatchAssumption DEF Reembed, Crash, TypeOK
  <1>4. CASE AutoMergeDone
    <2>1. /\ phase = "auto" /\ phase' = "judge" /\ autoMerged = AutoRows /\ checkpoint = None
          /\ Len(output) = autoMerged /\ drained = 0
          /\ UNCHANGED <<output, candidates, drained, written, checkpoint>>
      BY <1>4 DEF AutoMergeDone, Trusted, Backed, Progress, AutoRows
    <2>2. ~written
      BY <2>1 DEF Futures
    <2> QED BY <1>0, <2>1, <2>2 DEF Once, AutoRows
  <1>5. CASE SubmitChunk \/ Finish \/ UNCHANGED vars \/ \E i \in DOMAIN work : JudgeTier(i)
    <2>1. /\ UNCHANGED <<output, candidates, drained, written, checkpoint>>
          /\ phase' = phase \/ (phase = "judge" /\ phase' = "ended")
      BY <1>5 DEF SubmitChunk, Finish, JudgeTier, disk, vars
    <2> QED BY <2>1 DEF Once, AutoRows, total, Pair
  <1>6. CASE WriteRow
    <2> DEFINE row == EscalateRow(drained + 1)
    <2>1. /\ phase = "judge" /\ phase' = "judge" /\ ~written /\ written'
          /\ UNCHANGED <<candidates, drained, checkpoint>>
      BY <1>6 DEF WriteRow
    <2>2. /\ Len(output') = Len(output) + 1 /\ output'[Len(output) + 1].pair = Pair(drained + 1)
          /\ \A k \in 1..Len(output) : output'[k] = output[k]
      BY <1>6, NextRowAppended
    <2>3. /\ Len(output) = AutoRows + drained
          /\ \A i \in 1..drained : output[AutoRows + i].pair = Pair(i)
      BY <1>0, <2>1 DEF Once
    <2>4. ASSUME NEW i \in 1..(drained + 1) PROVE output'[AutoRows + i].pair = Pair(i)
      <3>1. CASE i = drained + 1
        BY <1>0, <2>2, <2>3, <3>1
      <3>2. CASE i # drained + 1
        <4>1. i \in 1..drained /\ AutoRows + i \in 1..Len(output)
          BY <1>0, <2>3, <3>2
        <4> QED BY <2>2, <2>3, <4>1
      <3> QED BY <3>1, <3>2
    <2>5. total' = total /\ AutoRows' = AutoRows /\ \A i : Pair(i)' = Pair(i)
      BY <2>1 DEF total, AutoRows, Pair
    <2>6. Len(output') = AutoRows + drained + 1 /\ Len(output') - AutoRows = drained + 1
      BY <1>0, <2>2, <2>3
    <2> QED BY <2>1, <2>4, <2>5, <2>6 DEF Once
  <1>7. CASE Record
    <2>1. /\ phase = "judge" /\ phase' = "judge" /\ written /\ ~written' /\ drained' = drained + 1
          /\ UNCHANGED <<candidates, output>>
          /\ checkpoint' = IF CheckpointDue(drained + 1)
                             THEN [last |-> drained + 1, total |-> total, counters |-> counters']
                             ELSE checkpoint
      BY <1>7 DEF Record
    <2>2. total' = total /\ AutoRows' = AutoRows /\ \A i : Pair(i)' = Pair(i)
      BY <2>1 DEF total, AutoRows, Pair
    <2>3. drained' = total => checkpoint'.last = total
      BY <2>1 DEF CheckpointDue
    <2> QED BY <1>0, <2>1, <2>2, <2>3 DEF Once
  <1> QED BY <1>1, <1>2, <1>3, <1>4, <1>5, <1>6, <1>7 DEF Next, Run

\* NO PAIR IS DECIDED TWICE while no process dies and M5 is not run again:
\* resumes and restarts alone write one row per candidate.
THEOREM DecidedOnce ==
  ASSUME "reembed" \notin Operator, MaxCrashes = 0
  PROVE  Spec => []NoPairDecidedTwice
  <1>0. FilesKept
    BY DEF FilesKept
  <1>1. Init => TypeOK /\ Futures /\ Trusted /\ Once
    BY TypesInit, TrustedInit, OnceInit
  <1>2. TypeOK /\ Futures /\ Trusted /\ Once /\ [Next]_vars => TypeOK' /\ Futures' /\ Trusted' /\ Once'
    BY <1>0, TypesStep, TrustedStep, OnceStep
  <1>3. TypeOK /\ Futures /\ Trusted /\ Once => NoPairDecidedTwice
    <2> SUFFICES ASSUME TypeOK, Futures, Trusted, Once, NEW j \in DOMAIN output, NEW k \in DOMAIN output,
                        output[j].band = "escalate", output[k].band = "escalate",
                        output[j].pair = output[k].pair
                 PROVE  j = k
      BY DEF NoPairDecidedTwice
    <2>0. /\ total \in Nat /\ AutoRows \in Nat /\ Len(output) \in Nat /\ drained \in Nat
          /\ DOMAIN output = 1..Len(output)
      BY CandidateTypes DEF AutoRows, TypeOK
    <2>1. phase \in {"judge", "ended"}
      <3>1. CASE phase \in {"down", "unlinked"}
        <4>1. output = <<>>
          BY <3>1 DEF Once, Trusted, Progress
        <4> QED BY <4>1
      <3>2. CASE phase = "auto"
        <4>1. output[j] = AutoMergeRow(candidates.autoMerge[j])
          BY <2>0, <3>2 DEF Trusted, Progress
        <4> QED BY <4>1 DEF AutoMergeRow
      <3> QED BY <3>1, <3>2 DEF TypeOK, Phases
    <2>2. ASSUME NEW l \in DOMAIN output, output[l].band = "escalate"
          PROVE  l - AutoRows \in 1..total /\ output[l].pair = Pair(l - AutoRows)
      <3>1. l > AutoRows
        <4>1. AutoMergeOnce
          BY <2>1 DEF Trusted, Progress
        <4>2. l <= AutoRows => output[l] = AutoMergeRow(candidates.autoMerge[l])
          BY <4>1 DEF AutoMergeOnce, AutoRows
        <4> QED BY <2>0, <2>2, <4>2 DEF AutoMergeRow
      <3>2. Len(output) - AutoRows <= total
        <4>1. Len(output) = AutoRows + drained + (IF written THEN 1 ELSE 0)
          BY <2>1 DEF Once
        <4>2. CASE written
          <5>1. drained + 1 \in 1..total
            BY <4>2 DEF Futures
          <5> QED BY <2>0, <4>1, <4>2, <5>1
        <4>3. CASE ~written
          <5>1. drained <= total
            BY <2>1 DEF Trusted, Progress
          <5> QED BY <2>0, <4>1, <4>3, <5>1
        <4> QED BY <4>2, <4>3
      <3>3. /\ l - AutoRows \in 1..(Len(output) - AutoRows) /\ AutoRows + (l - AutoRows) = l
            /\ l - AutoRows \in 1..total
        BY <2>0, <3>1, <3>2
      <3>4. output[AutoRows + (l - AutoRows)].pair = Pair(l - AutoRows)
        BY <2>1, <3>3 DEF Once
      <3> QED BY <3>3, <3>4
    <2>3. Pair(j - AutoRows) = Pair(k - AutoRows)
      BY <2>2
    <2>4. j - AutoRows = k - AutoRows
      BY <2>2, <2>3, CandidateTypes DEF TypeOK
    <2> QED BY <2>0, <2>4
  <1> QED BY <1>1, <1>2, <1>3, PTL DEF Spec

-----------------------------------------------------------------------------
(* The counters, in terms of a file f and the candidates e it is about.    *)

LatestIn(f, p, k) ==
  /\ k \in DOMAIN f /\ f[k].band = "escalate" /\ f[k].pair = p
  /\ \A l \in DOMAIN f : l > k => f[l].pair # p

RowIn(f, p) ==
  f[CHOOSE k \in DOMAIN f :
    /\ f[k].band = "escalate" /\ f[k].pair = p
    /\ \A l \in DOMAIN f : l > k => f[l].pair # p]

\* Each of the first n candidates has a last row, of at most two steps.
InFile(f, e, n) ==
  \A i \in 1..n : \E k \in DOMAIN f : LatestIn(f, e[i], k) /\ Len(f[k].steps) <= 2

StepsIn(f, e, n) == {x \in {<<i, k>> : i \in 1..n, k \in 1..2} : x[2] \in DOMAIN RowIn(f, e[x[1]]).steps}
HitsIn(f, e, n) == {x \in StepsIn(f, e, n) : RowIn(f, e[x[1]]).steps[x[2]].hit}
FreshIn(f, e, n) == {x \in StepsIn(f, e, n) : ~RowIn(f, e[x[1]]).steps[x[2]].hit}
CascadedIn(f, e, n) == {i \in 1..n : UsedCascade(RowIn(f, e[i]).steps)}

Tally(f, e, n) == [hits |-> Cardinality(HitsIn(f, e, n)), fresh |-> Cardinality(FreshIn(f, e, n)),
                   cascaded |-> Cardinality(CascadedIn(f, e, n))]

LEMMA LatestRow ==
  ASSUME NEW f \in Seq(Rows), NEW p, NEW k, LatestIn(f, p, k)
  PROVE  RowIn(f, p) = f[k]
  <1> DEFINE IsLast(q) == /\ f[q].band = "escalate" /\ f[q].pair = p
                          /\ \A l \in DOMAIN f : l > q => f[l].pair # p
             c == CHOOSE q \in DOMAIN f : IsLast(q)
  <1>1. k \in DOMAIN f /\ IsLast(k)
    BY DEF LatestIn
  <1>2. c \in DOMAIN f /\ IsLast(c)
    BY <1>1
  <1>3. c \in Int /\ k \in Int
    BY <1>1, <1>2
  <1>4. c = k
    BY <1>1, <1>2, <1>3
  <1> QED BY <1>4 DEF RowIn

\* A row appended for another pair does not change a pair's last row; a row
\* appended for the pair is its last.
LEMMA AppendedRow ==
  ASSUME NEW f \in Seq(Rows), NEW row \in Rows
  PROVE  /\ \A p : \A k \in DOMAIN f : LatestIn(f, p, k) /\ p # row.pair =>
              LatestIn(Append(f, row), p, k) /\ Append(f, row)[k] = f[k]
         /\ row.band = "escalate" =>
              LatestIn(Append(f, row), row.pair, Len(f) + 1) /\ Append(f, row)[Len(f) + 1] = row
  <1> DEFINE g == Append(f, row)
             n == Len(f)
  <1>1. /\ n \in Nat /\ DOMAIN f = 1..n /\ DOMAIN g = 1..(n + 1) /\ g[n + 1] = row
        /\ \A k \in 1..n : g[k] = f[k]
    OBVIOUS
  <1> HIDE DEF g, n
  <1>2. ASSUME NEW p, NEW k \in DOMAIN f, LatestIn(f, p, k), p # row.pair
        PROVE  LatestIn(g, p, k) /\ g[k] = f[k]
    <2>1. ASSUME NEW l \in 1..(n + 1), l > k PROVE g[l].pair # p
      <3>1. CASE l = n + 1
        BY <1>1, <1>2, <3>1
      <3>2. CASE l # n + 1
        <4>1. l \in 1..n
          BY <1>1, <3>2
        <4> QED BY <1>1, <1>2, <2>1, <4>1 DEF LatestIn
      <3> QED BY <3>1, <3>2
    <2> QED BY <1>1, <1>2, <2>1 DEF LatestIn
  <1>3. ASSUME row.band = "escalate" PROVE LatestIn(g, row.pair, n + 1) /\ g[n + 1] = row
    BY <1>1, <1>3 DEF LatestIn
  <1> QED BY <1>2, <1>3 DEF g, n

LEMMA InFileKept ==
  ASSUME NEW f \in Seq(Rows), NEW row \in Rows, NEW e, NEW n \in Nat,
         InFile(f, e, n), \A i \in 1..n : e[i] # row.pair
  PROVE  /\ InFile(Append(f, row), e, n)
         /\ \A i \in 1..n : RowIn(Append(f, row), e[i]) = RowIn(f, e[i])
  <1> SUFFICES ASSUME NEW i \in 1..n
               PROVE  /\ \E k \in DOMAIN Append(f, row) :
                            LatestIn(Append(f, row), e[i], k) /\ Len(Append(f, row)[k].steps) <= 2
                      /\ RowIn(Append(f, row), e[i]) = RowIn(f, e[i])
    BY DEF InFile
  <1>1. PICK k \in DOMAIN f : LatestIn(f, e[i], k) /\ Len(f[k].steps) <= 2
    BY DEF InFile
  <1>2. LatestIn(Append(f, row), e[i], k) /\ Append(f, row)[k] = f[k]
    BY <1>1, AppendedRow
  <1>3. k \in DOMAIN Append(f, row) /\ Append(f, row) \in Seq(Rows)
    BY <1>2 DEF LatestIn
  <1>4. RowIn(Append(f, row), e[i]) = Append(f, row)[k] /\ RowIn(f, e[i]) = f[k]
    BY <1>1, <1>2, <1>3, LatestRow
  <1>5. Len(Append(f, row)[k].steps) <= 2
    BY <1>1, <1>2, Zenon
  <1> HIDE DEF LatestIn
  <1>6. \E q \in DOMAIN Append(f, row) : LatestIn(Append(f, row), e[i], q) /\ Len(Append(f, row)[q].steps) <= 2
    BY <1>2, <1>3, <1>5, Zenon
  <1> QED BY <1>2, <1>4, <1>6, Zenon

LEMMA TallyKept ==
  ASSUME NEW f, NEW g, NEW e, NEW n \in Nat, \A i \in 1..n : RowIn(g, e[i]) = RowIn(f, e[i])
  PROVE  Tally(g, e, n) = Tally(f, e, n)
  <1>1. StepsIn(g, e, n) = StepsIn(f, e, n)
    BY DEF StepsIn
  <1>2. \A x \in StepsIn(f, e, n) : x[1] \in 1..n
    BY DEF StepsIn
  <1>3. HitsIn(g, e, n) = HitsIn(f, e, n) /\ FreshIn(g, e, n) = FreshIn(f, e, n)
    BY <1>1, <1>2 DEF HitsIn, FreshIn
  <1>4. CascadedIn(g, e, n) = CascadedIn(f, e, n)
    BY DEF CascadedIn
  <1> QED BY <1>3, <1>4 DEF Tally

LEMMA TallyFinite ==
  ASSUME NEW f, NEW e, NEW n \in Nat
  PROVE  /\ IsFiniteSet(HitsIn(f, e, n)) /\ IsFiniteSet(FreshIn(f, e, n)) /\ IsFiniteSet(CascadedIn(f, e, n))
  <1>1. IsFiniteSet((1..n) \X (1..2)) /\ IsFiniteSet(1..n)
    <2>1. n \in Int /\ 1 \in Int /\ 2 \in Int
      OBVIOUS
    <2>2. IsFiniteSet(1..n)
      BY <2>1, FS_Interval, Zenon
    <2>3. IsFiniteSet(1..2)
      BY <2>1, FS_Interval, Zenon
    <2> QED BY <2>2, <2>3, FS_Product
  <1>2. HitsIn(f, e, n) \subseteq (1..n) \X (1..2) /\ FreshIn(f, e, n) \subseteq (1..n) \X (1..2)
    BY DEF HitsIn, FreshIn, StepsIn
  <1>3. CascadedIn(f, e, n) \subseteq 1..n
    BY DEF CascadedIn
  <1> QED BY <1>1, <1>2, <1>3, FS_Subset

\* The steps K of the candidate m, added to a set of steps of other candidates.
StepsOf(m, K) == {<<m, k>> : k \in K}

LEMMA AddSteps ==
  ASSUME NEW S, IsFiniteSet(S), NEW m, NEW K, K \subseteq {1, 2}, S \cap StepsOf(m, K) = {}
  PROVE  Cardinality(S \cup StepsOf(m, K)) = Cardinality(S) + Cardinality(K)
  <1> DEFINE f == [k \in K |-> <<m, k>>]
             T == StepsOf(m, K)
  <1>1. IsFiniteSet(K)
    <2>1. IsFiniteSet({1})
      BY FS_Singleton
    <2>2. IsFiniteSet({1} \cup {2}) /\ {1} \cup {2} = {1, 2}
      BY <2>1, FS_AddElement, Zenon
    <2> QED BY <2>2, FS_Subset
  <1>2. f \in Surjection(K, T) /\ f \in Injection(K, T)
    BY DEF Injection, Surjection, IsInjective, StepsOf
  <1>3. IsFiniteSet(T) /\ Cardinality(T) = Cardinality(K)
    BY <1>1, <1>2, FS_Surjection
  <1>4. Cardinality(S \cup T) = Cardinality(S) + Cardinality(T) - Cardinality(S \cap T)
    BY <1>3, FS_Union
  <1>5. Cardinality(S) \in Nat /\ Cardinality(T) \in Nat /\ Cardinality({}) = 0
    BY <1>3, FS_CardinalityType, FS_EmptySet
  <1>6. S \cap T = {}
    OBVIOUS
  <1>7. Cardinality(S \cup T) = Cardinality(S) + Cardinality(K)
    <2>1. Cardinality(S \cap T) = 0
      BY <1>5, <1>6
    <2> HIDE DEF T
    <2> QED BY <1>3, <1>4, <1>5, <2>1
  <1> QED BY <1>7

\* What the next candidate's row adds to the counters.
LEMMA TallyNext ==
  ASSUME NEW f, NEW e, NEW n \in Nat, NEW s \in Seq(CascadeSteps), Len(s) <= 2, RowIn(f, e[n + 1]).steps = s
  PROVE  Tally(f, e, n + 1) =
           [hits |-> Tally(f, e, n).hits + Cardinality({k \in DOMAIN s : s[k].hit}),
            fresh |-> Tally(f, e, n).fresh + Cardinality({k \in DOMAIN s : ~s[k].hit}),
            cascaded |-> Tally(f, e, n).cascaded + (IF UsedCascade(s) THEN 1 ELSE 0)]
  <1> DEFINE H == {k \in DOMAIN s : s[k].hit}
             F == {k \in DOMAIN s : ~s[k].hit}
             m == n + 1
  <1>1. DOMAIN s \subseteq {1, 2}
    BY DEF CascadeSteps
  <1>2. n \in Nat /\ m \in Nat /\ m \notin 1..n /\ 1..m = 1..n \cup {m}
    OBVIOUS
  <1>3. StepsIn(f, e, m) = StepsIn(f, e, n) \cup {<<m, k>> : k \in DOMAIN s}
    <2>1. ASSUME NEW x \in StepsIn(f, e, m) PROVE x \in StepsIn(f, e, n) \/ x \in {<<m, k>> : k \in DOMAIN s}
      BY <1>2 DEF StepsIn
    <2>2. ASSUME NEW x \in StepsIn(f, e, n) PROVE x \in StepsIn(f, e, m)
      BY <1>2 DEF StepsIn
    <2>3. ASSUME NEW k \in DOMAIN s PROVE <<m, k>> \in StepsIn(f, e, m)
      <3>1. m \in 1..m /\ k \in 1..2
        BY <1>1, <1>2
      <3> QED BY <3>1 DEF StepsIn
    <2> QED BY <2>1, <2>2, <2>3
  <1>4. \A x \in StepsIn(f, e, n) : x[1] \in 1..n
    BY DEF StepsIn
  <1>5. HitsIn(f, e, m) = HitsIn(f, e, n) \cup {<<m, k>> : k \in H}
    BY <1>3 DEF HitsIn
  <1>6. FreshIn(f, e, m) = FreshIn(f, e, n) \cup {<<m, k>> : k \in F}
    BY <1>3 DEF FreshIn
  <1>7. CascadedIn(f, e, m) = IF UsedCascade(s) THEN CascadedIn(f, e, n) \cup {m} ELSE CascadedIn(f, e, n)
    BY <1>2 DEF CascadedIn
  <1>8. /\ H \subseteq {1, 2} /\ F \subseteq {1, 2}
        /\ \A k \in H : <<m, k>> \notin HitsIn(f, e, n)
        /\ \A k \in F : <<m, k>> \notin FreshIn(f, e, n)
        /\ m \notin CascadedIn(f, e, n)
    BY <1>1, <1>2, <1>4 DEF HitsIn, FreshIn, CascadedIn
  <1>9. /\ IsFiniteSet(HitsIn(f, e, n)) /\ IsFiniteSet(FreshIn(f, e, n)) /\ IsFiniteSet(CascadedIn(f, e, n))
    BY TallyFinite
  <1>10. Cardinality(HitsIn(f, e, m)) = Cardinality(HitsIn(f, e, n)) + Cardinality(H)
    <2>1. H \subseteq {1, 2} /\ HitsIn(f, e, n) \cap StepsOf(m, H) = {}
      BY <1>8 DEF StepsOf
    <2>2. HitsIn(f, e, m) = HitsIn(f, e, n) \cup StepsOf(m, H)
      BY <1>5 DEF StepsOf
    <2>3. IsFiniteSet(HitsIn(f, e, n))
      BY <1>9
    <2> HIDE DEF H, m
    <2>4. Cardinality(HitsIn(f, e, n) \cup StepsOf(m, H)) = Cardinality(HitsIn(f, e, n)) + Cardinality(H)
      BY <2>1, <2>3, AddSteps
    <2> QED BY <2>2, <2>4
  <1>11. Cardinality(FreshIn(f, e, m)) = Cardinality(FreshIn(f, e, n)) + Cardinality(F)
    <2>1. F \subseteq {1, 2} /\ FreshIn(f, e, n) \cap StepsOf(m, F) = {}
      BY <1>8 DEF StepsOf
    <2>2. FreshIn(f, e, m) = FreshIn(f, e, n) \cup StepsOf(m, F)
      BY <1>6 DEF StepsOf
    <2>3. IsFiniteSet(FreshIn(f, e, n))
      BY <1>9
    <2> HIDE DEF F, m
    <2>4. Cardinality(FreshIn(f, e, n) \cup StepsOf(m, F)) = Cardinality(FreshIn(f, e, n)) + Cardinality(F)
      BY <2>1, <2>3, AddSteps
    <2> QED BY <2>2, <2>4
  <1>12. Cardinality(CascadedIn(f, e, m)) = Cardinality(CascadedIn(f, e, n)) + (IF UsedCascade(s) THEN 1 ELSE 0)
    <2>1. Cardinality(CascadedIn(f, e, n)) \in Nat
      BY <1>9, FS_CardinalityType
    <2>2. Cardinality(CascadedIn(f, e, n) \cup {m}) = Cardinality(CascadedIn(f, e, n)) + 1
      BY <1>8, <1>9, FS_AddElement, Zenon
    <2> QED BY <1>7, <2>1, <2>2
  <1> QED BY <1>10, <1>11, <1>12 DEF Tally

LEMMA NoTally == ASSUME NEW f, NEW e PROVE InFile(f, e, 0) /\ Tally(f, e, 0) = NoCounts
  <1>1. HitsIn(f, e, 0) = {} /\ FreshIn(f, e, 0) = {} /\ CascadedIn(f, e, 0) = {}
    BY DEF HitsIn, FreshIn, CascadedIn, StepsIn
  <1>2. Cardinality({}) = 0
    BY FS_EmptySet
  <1> QED BY <1>1, <1>2 DEF Tally, NoCounts, InFile

\* A checkpoint's counters and the running ones describe the rows they claim;
\* a written row is the last of its pair and its cascade is over.
Counts ==
  /\ checkpoint # None /\ phase # "unlinked" =>
       /\ InFile(output, candidates.escalate, checkpoint.last)
       /\ checkpoint.counters = Tally(output, candidates.escalate, checkpoint.last)
  /\ phase = "auto" => counters = NoCounts
  /\ phase \in {"judge", "ended"} =>
       /\ InFile(output, candidates.escalate, drained)
       /\ counters = Tally(output, candidates.escalate, drained)
  /\ written =>
       /\ LatestIn(output, Pair(drained + 1), Len(output))
       /\ output[Len(output)].steps = work[drained + 1]
       /\ Len(work[drained + 1]) <= 2 /\ Resolved(drained + 1)

LEMMA CountsInit == Init => Counts
  BY DEF Init, Counts

LEMMA CountsWrite ==
  ASSUME TypeOK, Futures, Trusted, WorkExact, Counts, WriteRow
  PROVE  Counts'
  <1> DEFINE e == candidates.escalate
             row == EscalateRow(drained + 1)
  <1>1. /\ phase = "judge" /\ phase' = "judge" /\ output' = Append(output, row) /\ output \in Seq(Rows)
        /\ UNCHANGED <<candidates, checkpoint, work, drained, counters>> /\ Resolved(drained + 1)
        /\ drained + 1 \in DOMAIN work
    BY DEF WriteRow, TypeOK
  <1>2. /\ drained \in Nat /\ drained + 1 \in 1..total /\ row \in Rows /\ row.band = "escalate"
        /\ row.pair = e[drained + 1] /\ row.steps = work[drained + 1] /\ Len(output') = Len(output) + 1
    BY NextRowAppended DEF Pair
  <1>3. \A i \in 1..drained : e[i] # row.pair
    <2>1. total \in Nat /\ \A i, j \in 1..total : e[i] = e[j] => i = j
      BY CandidateTypes DEF TypeOK, Pair
    <2> QED BY <1>2, <2>1
  <1>4. ASSUME NEW n \in Nat, n <= drained, InFile(output, e, n)
        PROVE  InFile(output', e, n) /\ Tally(output', e, n) = Tally(output, e, n)
    <2>1. \A i \in 1..n : e[i] # row.pair
      BY <1>2, <1>3, <1>4
    <2> HIDE DEF row, e
    <2>2. InFile(output', e, n) /\ \A i \in 1..n : RowIn(output', e[i]) = RowIn(output, e[i])
      BY <1>1, <1>2, <1>4, <2>1, InFileKept
    <2> QED BY <2>2, TallyKept
  <1>5. checkpoint # None => checkpoint.last \in Nat /\ checkpoint.last <= drained
    BY <1>1 DEF Trusted, Backed, TypeOK, Checkpoints
  <1>6. LatestIn(output', row.pair, Len(output) + 1) /\ output'[Len(output) + 1] = row
    BY <1>1, <1>2, AppendedRow
  <1>7. Len(work[drained + 1]) <= 2
    BY <1>1 DEF WorkExact, InTierOrder
  <1>8. Resolved(drained + 1)' /\ Pair(drained + 1)' = e[drained + 1]
    BY <1>1 DEF Resolved, Pair
  <1>9. checkpoint # None => /\ InFile(output', e, checkpoint.last)
                            /\ checkpoint.counters = Tally(output', e, checkpoint.last)
    BY <1>1, <1>4, <1>5 DEF Counts
  <1>10. InFile(output', e, drained) /\ counters = Tally(output', e, drained)
    BY <1>1, <1>2, <1>4 DEF Counts
  <1> QED BY <1>1, <1>2, <1>6, <1>7, <1>8, <1>9, <1>10 DEF Counts

LEMMA CountsRecord ==
  ASSUME TypeOK, Futures, Trusted, Counts, Record
  PROVE  Counts'
  <1> DEFINE e == candidates.escalate
             s == work[drained + 1]
  <1>1. /\ phase = "judge" /\ phase' = "judge" /\ written /\ ~written' /\ drained' = drained + 1
        /\ UNCHANGED <<candidates, output>> /\ counters' = Counted(s)
        /\ \/ checkpoint' = checkpoint
           \/ checkpoint' = [last |-> drained + 1, total |-> total, counters |-> counters']
    BY DEF Record
  <1>2. drained \in Nat /\ s \in Seq(CascadeSteps) /\ output \in Seq(Rows)
    BY <1>1 DEF Futures, TypeOK
  <1>3. /\ LatestIn(output, e[drained + 1], Len(output)) /\ output[Len(output)].steps = s /\ Len(s) <= 2
    BY <1>1 DEF Counts, Pair
  <1>4. RowIn(output, e[drained + 1]).steps = s
    <2>1. RowIn(output, e[drained + 1]) = output[Len(output)]
      BY <1>2, <1>3, LatestRow
    <2> QED BY <1>3, <2>1
  <1>5. Counted(s) = Tally(output, e, drained + 1)
    <2>1. counters = Tally(output, e, drained)
      BY <1>1 DEF Counts
    <2>2. Tally(output, e, drained + 1) =
            [hits |-> Tally(output, e, drained).hits + Cardinality({k \in DOMAIN s : s[k].hit}),
             fresh |-> Tally(output, e, drained).fresh + Cardinality({k \in DOMAIN s : ~s[k].hit}),
             cascaded |-> Tally(output, e, drained).cascaded + (IF UsedCascade(s) THEN 1 ELSE 0)]
      BY <1>2, <1>3, <1>4, TallyNext
    <2> QED BY <2>1, <2>2 DEF Counted
  <1>6. InFile(output, e, drained + 1)
    <2>1. ASSUME NEW i \in 1..(drained + 1)
          PROVE  \E k \in DOMAIN output : LatestIn(output, e[i], k) /\ Len(output[k].steps) <= 2
      <3>1. CASE i = drained + 1
        <4>1. Len(output) \in DOMAIN output
          BY <1>3 DEF LatestIn
        <4> QED BY <1>3, <3>1, <4>1
      <3>2. CASE i # drained + 1
        <4>1. i \in 1..drained
          BY <1>2, <3>2
        <4> QED BY <1>1, <4>1 DEF Counts, InFile
      <3> QED BY <3>1, <3>2
    <2> QED BY <2>1 DEF InFile
  <1>7. checkpoint' # None => /\ InFile(output, e, checkpoint'.last)
                             /\ checkpoint'.counters = Tally(output, e, checkpoint'.last)
    BY <1>1, <1>5, <1>6 DEF Counts
  <1> QED BY <1>1, <1>5, <1>6, <1>7 DEF Counts

LEMMA CountsStep ==
  ASSUME FilesKept, TypeOK, Futures, Trusted, WorkExact, Counts, [Next]_vars
  PROVE  Counts'
  <1>0. checkpoint # None => phase # "auto"
    BY DEF Trusted, Backed
  <1>1. CASE StartResume
    <2>1. CASE Resumable
      <3>1. /\ phase \in {"down", "ended"} /\ phase' = "judge" /\ ~written' /\ drained' = checkpoint.last
            /\ counters' = checkpoint.counters /\ checkpoint # None /\ UNCHANGED <<output, checkpoint, candidates>>
        BY <1>1, <2>1 DEF StartResume, Resumable
      <3> QED BY <3>1 DEF Counts
    <2>2. CASE ~Resumable
      <3>1. phase' = "auto" /\ counters' = NoCounts /\ ~written' /\ checkpoint' = None
        BY <1>1, <2>2 DEF StartResume, Fresh, Resumable, Trusted, Backed
      <3> QED BY <3>1 DEF Counts
    <2> QED BY <2>1, <2>2
  <1>2. CASE StartRestart
    BY <1>2 DEF StartRestart, Counts
  <1>3. CASE Reembed
    BY <1>3 DEF Reembed, FilesKept
  <1>4. CASE UnlinkCheckpoint
    <2>1. ~written
      BY <1>4 DEF UnlinkCheckpoint, Futures
    <2> QED BY <1>4, <2>1 DEF UnlinkCheckpoint, Fresh, Counts
  <1>5. CASE WriteAutoMerge
    <2>1. ~written /\ checkpoint = None
      BY <1>0, <1>5 DEF WriteAutoMerge, Futures
    <2> QED BY <1>5, <2>1 DEF WriteAutoMerge, Counts
  <1>6. CASE AutoMergeDone
    <2>1. /\ ~written /\ checkpoint = None /\ drained = 0 /\ counters = NoCounts /\ phase' = "judge"
          /\ UNCHANGED <<output, checkpoint, candidates, drained, counters, written>>
      BY <1>0, <1>6 DEF AutoMergeDone, Futures, Trusted, Progress, Counts
    <2> QED BY <2>1, NoTally DEF Counts
  <1>7. CASE SubmitChunk \/ Finish
    <2>1. /\ ~written /\ ~written' /\ phase = "judge" /\ phase' \in {"judge", "ended"}
          /\ UNCHANGED <<output, checkpoint, candidates, drained, counters>>
      BY <1>7 DEF SubmitChunk, Finish, disk
    <2> QED BY <2>1 DEF Counts
  <1>8. ASSUME NEW i \in DOMAIN work, JudgeTier(i)
        PROVE  Counts'
    <2>1. /\ phase = "judge" /\ phase' = "judge" /\ ~Resolved(i)
          /\ UNCHANGED <<output, checkpoint, candidates, drained, counters, written>>
      BY <1>8 DEF JudgeTier, Judging, Resolved, disk
    <2>2. \A j \in DOMAIN work : j # i => work'[j] = work[j]
      BY <1>8 DEF JudgeTier, AnswerFromCache, AnswerFresh, FallThrough, Answer
    <2>3. written => work'[drained + 1] = work[drained + 1]
      BY <2>1, <2>2 DEF Counts, Futures
    <2> QED BY <2>1, <2>3 DEF Counts, Pair, Resolved
  <1>9. CASE WriteRow
    BY <1>9, CountsWrite
  <1>10. CASE Record
    BY <1>10, CountsRecord
  <1>11. CASE Crash
    <2>1. phase # "unlinked"
      BY <1>11, BatchAssumption DEF Crash, Trusted, Progress, FilesKept, TypeOK
    <2>2. UNCHANGED <<output, candidates, checkpoint>> /\ phase' = "down" /\ ~written'
      BY <1>11 DEF Crash, disk
    <2> QED BY <2>1, <2>2 DEF Counts
  <1>12. CASE UNCHANGED vars
    BY <1>12 DEF vars, Counts, Pair, Resolved
  <1> QED BY <1>1, <1>2, <1>3, <1>4, <1>5, <1>6, <1>7, <1>8, <1>9, <1>10, <1>11, <1>12 DEF Next, Run

\* THE COUNTERS DESCRIBE THE FILE: what a finished run reports, in part from a
\* checkpoint another process wrote, counts each candidate once, by its last
\* row, whatever crashed before.
THEOREM CountersDescribeTheFile ==
  ASSUME FilesKept PROVE Spec => []CountersMatchOutput
  <1>1. Init => TypeOK /\ Futures /\ Trusted /\ WorkExact /\ RowsExplained /\ Counts
    BY TypesInit, TrustedInit, ExplainedInit, CountsInit
  <1>2. TypeOK /\ Futures /\ Trusted /\ WorkExact /\ RowsExplained /\ Counts /\ [Next]_vars
          => TypeOK' /\ Futures' /\ Trusted' /\ WorkExact' /\ RowsExplained' /\ Counts'
    BY TypesStep, TrustedStep, ExplainedStep, CountsStep
  <1>3. TypeOK /\ Trusted /\ Counts => CountersMatchOutput
    <2> SUFFICES ASSUME TypeOK, Trusted, Counts, phase = "ended"
                 PROVE  CountersMatchOutput
      BY DEF CountersMatchOutput
    <2> DEFINE e == candidates.escalate
    <2>1. drained = total /\ counters = Tally(output, e, total)
      BY DEF Trusted, Progress, Counts
    <2>2. \A i : LastRow(i) = RowIn(output, e[i])
      BY DEF LastRow, RowIn, Pair
    <2>3. LastSteps = StepsIn(output, e, total)
      BY <2>2 DEF LastSteps, StepsIn
    <2>4. /\ {x \in LastSteps : LastRow(x[1]).steps[x[2]].hit} = HitsIn(output, e, total)
          /\ {x \in LastSteps : ~LastRow(x[1]).steps[x[2]].hit} = FreshIn(output, e, total)
          /\ {i \in 1..total : UsedCascade(LastRow(i).steps)} = CascadedIn(output, e, total)
      BY <2>2, <2>3 DEF HitsIn, FreshIn, CascadedIn
    <2> QED BY <2>1, <2>4 DEF CountersMatchOutput, Tally
  <1> QED BY <1>1, <1>2, <1>3, PTL DEF Spec
=============================================================================
