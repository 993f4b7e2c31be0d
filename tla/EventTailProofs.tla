-------------------------- MODULE EventTailProofs --------------------------
(***************************************************************************)
(* Proofs about EventTail, for every run, every number of processes killed *)
(* and started, and every removal.                                         *)
(***************************************************************************)
EXTENDS EventTail, FiniteSetTheorems, SequenceTheorems, WellFoundedInduction, TLAPS

-----------------------------------------------------------------------------
(* Numbers *)

\* A set of numbers that holds 0 and with each number the next holds all.
LEMMA Induction ==
  ASSUME NEW S, 0 \in S, \A n \in Nat : n \in S => n + 1 \in S
  PROVE  Nat \subseteq S
  <1> SUFFICES ASSUME Nat \ S # {} PROVE FALSE
    OBVIOUS
  <1> DEFINE T == Nat \ S
  <1>1. T \subseteq Nat /\ T # {}
    OBVIOUS
  <1> HIDE DEF T
  <1>2. PICK r \in T : \A w \in T : <<w, r>> \notin OpToRel(<, Nat)
    BY <1>1, NatLessThanWellFounded, WFMin, Zenon
  <1>3. \A w \in T : ~(w < r)
    BY <1>1, <1>2 DEF OpToRel
  <1>4. r \in Nat /\ r \notin S /\ r # 0
    BY <1>2 DEF T
  <1>5. r - 1 \in Nat /\ r - 1 < r
    BY <1>4
  <1>6. r - 1 \in S
    BY <1>3, <1>5 DEF T
  <1> QED BY <1>4, <1>5, <1>6

LEMMA GreatestIsMax ==
  ASSUME NEW S, S \subseteq Nat, NEW r \in S, \A n \in S : n <= r
  PROVE  Max(S) = r
  <1> DEFINE c == CHOOSE x \in S : \A y \in S : x >= y
  <1>1. c \in S /\ \A y \in S : c >= y
    OBVIOUS
  <1>2. c = r
    <2> HIDE DEF c
    <2>1. c \in Nat /\ r \in Nat /\ c >= r /\ c <= r
      BY <1>1
    <2> QED BY <2>1
  <1> QED BY <1>2 DEF Max

-----------------------------------------------------------------------------
(* Reading lines, one after another. *)

Parts == {"whole", "first", "rest"}
Chunk == [row : DOMAIN Script, part : Parts]
Registry == [planned : BOOLEAN, total : Nat, processed : Nat, watchdog : Nat,
             failed : BOOLEAN, ended : BOOLEAN]

LEMMA ScriptType ==
  /\ Len(Script) \in Nat /\ DOMAIN Script = 1 .. Len(Script)
  /\ \A i \in DOMAIN Script : Script[i] \in [event : Events, n : Nat]
  <1> DEFINE T == [event : Events, n : Nat]
  <1>1. Script \in Seq(T)
    BY EventTailAssumption DEF EventTailAssumption
  <1> HIDE DEF T
  <1>2. Len(Script) \in Nat /\ DOMAIN Script = 1 .. Len(Script)
    BY <1>1
  <1>3. \A i \in DOMAIN Script : Script[i] \in T
    BY <1>1
  <1> QED BY <1>2, <1>3 DEF T

LEMMA ApplyType ==
  ASSUME NEW reg \in Registry, NEW i \in DOMAIN Script
  PROVE  ApplyEvent(reg, Script[i]) \in Registry
  <1>1. Script[i] \in [event : Events, n : Nat]
    BY ScriptType
  <1>2. Script[i].n \in Nat
    BY <1>1
  <1> HIDE DEF Registry
  <1>3. /\ [reg EXCEPT !.planned = TRUE] \in Registry /\ [reg EXCEPT !.failed = TRUE] \in Registry
        /\ [reg EXCEPT !.ended = TRUE] \in Registry
    BY Zenon DEF Registry
  <1>4. /\ [reg EXCEPT !.total = Script[i].n] \in Registry /\ [reg EXCEPT !.processed = Script[i].n] \in Registry
        /\ [reg EXCEPT !.watchdog = @ + 1] \in Registry
    BY <1>2 DEF Registry
  <1> QED BY <1>3, <1>4 DEF ApplyEvent

\* The registry after the k-th line, from the one before it.
Line(reg, chunks, k) == IF Parses(chunks, k) THEN ApplyEvent(reg, Script[chunks[k].row]) ELSE reg

LEMMA LineType ==
  ASSUME NEW reg \in Registry, NEW chunks \in Seq(Chunk), NEW k \in 1 .. Len(chunks)
  PROVE  Line(reg, chunks, k) \in Registry
  <1>1. chunks[k] \in Chunk
    OBVIOUS
  <1>2. chunks[k].row \in DOMAIN Script
    BY <1>1 DEF Chunk
  <1> QED BY <1>2, ApplyType DEF Line

\* The registries while n lines are read.
Reading(g, reg, chunks, n) ==
  /\ g \in [0 .. n -> Registry] /\ g[0] = reg
  /\ \A k \in 1 .. n : g[k] = Line(g[k - 1], chunks, k)

LEMMA ReadingExists ==
  ASSUME NEW reg \in Registry, NEW chunks \in Seq(Chunk), NEW n \in Nat, n <= Len(chunks)
  PROVE  \E g : Reading(g, reg, chunks, n)
  <1> DEFINE S == {m \in Nat : m <= Len(chunks) => \E g : Reading(g, reg, chunks, m)}
  <1>1. 0 \in S
    <2>1. Reading([k \in 0 .. 0 |-> reg], reg, chunks, 0)
      BY DEF Reading
    <2> QED BY <2>1
  <1>2. ASSUME NEW m \in Nat, m \in S PROVE m + 1 \in S
    <2> SUFFICES ASSUME m + 1 <= Len(chunks) PROVE \E g : Reading(g, reg, chunks, m + 1)
      OBVIOUS
    <2>1. Len(chunks) \in Nat
      OBVIOUS
    <2>2. PICK g : Reading(g, reg, chunks, m)
      BY <1>2, <2>1
    <2> DEFINE h == [k \in 0 .. m + 1 |-> IF k = m + 1 THEN Line(g[m], chunks, m + 1) ELSE g[k]]
    <2>3. Line(g[m], chunks, m + 1) \in Registry
      BY <2>1, <2>2, LineType DEF Reading
    <2>4. h \in [0 .. m + 1 -> Registry] /\ h[0] = reg
      BY <2>2, <2>3 DEF Reading
    <2>5. ASSUME NEW k \in 1 .. m + 1 PROVE h[k] = Line(h[k - 1], chunks, k)
      <3>1. CASE k = m + 1
        BY <3>1
      <3>2. CASE k # m + 1
        <4>1. k \in 1 .. m /\ k - 1 # m + 1 /\ k - 1 \in 0 .. m + 1
          BY <3>2
        <4> QED BY <2>2, <4>1 DEF Reading
      <3> QED BY <3>1, <3>2
    <2> QED BY <2>4, <2>5 DEF Reading
  <1> HIDE DEF S
  <1>3. n \in S
    BY <1>1, <1>2, Induction
  <1> QED BY <1>3 DEF S

\* The recursion of Applied ends at the last registry.
LEMMA AppliedReads ==
  ASSUME NEW reg \in Registry, NEW chunks \in Seq(Chunk)
  PROVE  \E g : Reading(g, reg, chunks, Len(chunks)) /\ Applied(reg, chunks) = g[Len(chunks)]
  <1> DEFINE n == Len(chunks)
             Of(f) == [k \in 0 .. n |->
                         IF k = 0 THEN reg
                         ELSE IF Parses(chunks, k) THEN ApplyEvent(f[k - 1], Script[chunks[k].row])
                         ELSE f[k - 1]]
             a == CHOOSE f : f = Of(f)
  <1>0. n \in Nat
    OBVIOUS
  <1>1. PICK g : Reading(g, reg, chunks, n)
    BY <1>0, ReadingExists
  <1>2. g = Of(g)
    <2>1. ASSUME NEW k \in 0 .. n PROVE g[k] = Of(g)[k]
      BY <1>1 DEF Reading, Line
    <2>2. DOMAIN g = 0 .. n
      BY <1>1 DEF Reading
    <2> QED BY <1>1, <2>1, <2>2 DEF Reading
  <1>3. a = Of(a)
    BY <1>2
  <1>4. Applied(reg, chunks) = a[n]
    BY DEF Applied
  <1> HIDE DEF a
  <1> DEFINE S == {k \in Nat : k <= n => a[k] = g[k]}
  <1>5. 0 \in S
    BY <1>0, <1>1, <1>3 DEF Reading
  <1>6. ASSUME NEW k \in Nat, k \in S PROVE k + 1 \in S
    <2> SUFFICES ASSUME k + 1 <= n PROVE a[k + 1] = g[k + 1]
      OBVIOUS
    <2>1. a[k] = g[k] /\ k + 1 \in 1 .. n /\ k + 1 \in 0 .. n /\ k + 1 # 0 /\ (k + 1) - 1 = k
      BY <1>0, <1>6
    <2>2. a[k + 1] = Line(a[k], chunks, k + 1)
      BY <1>3, <2>1 DEF Line
    <2> QED BY <1>1, <2>1, <2>2 DEF Reading
  <1> HIDE DEF S
  <1>7. n \in S
    BY <1>0, <1>5, <1>6, Induction
  <1>8. a[n] = g[n]
    BY <1>0, <1>7 DEF S
  <1> QED BY <1>1, <1>4, <1>8

\* The lines of an event among the first n that parse.
Lines(chunks, e, n) == {j \in 1 .. n : Parses(chunks, j) /\ Script[chunks[j].row].event = e}

\* What n lines make of a registry: the last line sets a gauge, every line
\* counts in a counter.
Sums(new, reg, chunks, n) ==
  /\ new.ended <=> (reg.ended \/ Lines(chunks, "end", n) # {})
  /\ new.watchdog = reg.watchdog + Cardinality(Lines(chunks, "watchdog", n))
  /\ \/ Lines(chunks, "progress", n) = {} /\ new.processed = reg.processed
     \/ \E j \in Lines(chunks, "progress", n) :
          /\ new.processed = Script[chunks[j].row].n
          /\ \A l \in Lines(chunks, "progress", n) : l <= j

LEMMA LinesFinite ==
  ASSUME NEW chunks, NEW e, NEW n \in Nat
  PROVE  IsFiniteSet(Lines(chunks, e, n)) /\ Cardinality(Lines(chunks, e, n)) \in Nat
  <1>1. Lines(chunks, e, n) \subseteq 1 .. n
    BY DEF Lines
  <1>2. IsFiniteSet(1 .. n)
    BY FS_Interval
  <1> QED BY <1>1, <1>2, FS_Subset, FS_CardinalityType

LEMMA OneMoreLine ==
  ASSUME NEW chunks, NEW e, NEW n \in Nat
  PROVE  Lines(chunks, e, n + 1) =
           IF Parses(chunks, n + 1) /\ Script[chunks[n + 1].row].event = e
           THEN Lines(chunks, e, n) \cup {n + 1} ELSE Lines(chunks, e, n)
  BY DEF Lines

LEMMA LineSums ==
  ASSUME NEW reg \in Registry, NEW chunks \in Seq(Chunk), NEW n \in Nat, n + 1 <= Len(chunks),
         NEW old \in Registry, Sums(old, reg, chunks, n)
  PROVE  Sums(Line(old, chunks, n + 1), reg, chunks, n + 1)
  <1> DEFINE new == Line(old, chunks, n + 1)
             i == chunks[n + 1].row
             L(e) == Lines(chunks, e, n)
             M(e) == Lines(chunks, e, n + 1)
  <1>0. /\ n + 1 \in 1 .. Len(chunks) /\ i \in DOMAIN Script
    <2>1. n + 1 \in 1 .. Len(chunks)
      OBVIOUS
    <2>2. chunks[n + 1] \in Chunk
      BY <2>1
    <2> QED BY <2>1, <2>2 DEF Chunk
  <1>1. CASE ~Parses(chunks, n + 1)
    <2>1. new = old /\ M("end") = L("end") /\ M("watchdog") = L("watchdog") /\ M("progress") = L("progress")
      BY <1>1, OneMoreLine DEF Line
    <2> QED BY <2>1 DEF Sums
  <1>2. CASE Parses(chunks, n + 1)
    <2> DEFINE ev == Script[i].event
    <2>1. \A e : M(e) = IF ev = e THEN L(e) \cup {n + 1} ELSE L(e)
      BY <1>2, OneMoreLine
    <2>2. new = ApplyEvent(old, Script[i])
      BY <1>2 DEF Line
    <2>3. new \in Registry /\ Script[i] \in [event : Events, n : Nat]
      BY <1>0, <2>2, ApplyType, ScriptType
    <2>4. new.ended <=> (old.ended \/ ev = "end")
      <3>1. CASE ev = "end"
        BY <2>2, <3>1 DEF ApplyEvent, Registry
      <3>2. CASE ev # "end"
        <4>1. new.ended = old.ended
          BY <2>2, <3>2 DEF ApplyEvent, Registry
        <4> QED BY <3>2, <4>1
      <3> QED BY <3>1, <3>2
    <2>5. new.watchdog = IF ev = "watchdog" THEN old.watchdog + 1 ELSE old.watchdog
      BY <2>2 DEF ApplyEvent, Registry
    <2>6. new.processed = IF ev = "progress" THEN Script[i].n ELSE old.processed
      BY <2>2 DEF ApplyEvent, Registry
    <2>7. n + 1 \notin L("watchdog")
      BY DEF Lines
    <2> HIDE DEF new, i, L, M, ev
    <2>8. new.ended <=> (reg.ended \/ M("end") # {})
      <3>1. old.ended <=> (reg.ended \/ L("end") # {})
        BY DEF Sums, L
      <3>2. M("end") # {} <=> (L("end") # {} \/ ev = "end")
        BY <2>1
      <3> QED BY <2>4, <3>1, <3>2, Zenon
    <2>9. new.watchdog = reg.watchdog + Cardinality(M("watchdog"))
      <3>1. old.watchdog = reg.watchdog + Cardinality(L("watchdog"))
        BY DEF Sums, L
      <3>2. IsFiniteSet(L("watchdog")) /\ Cardinality(L("watchdog")) \in Nat
        BY LinesFinite DEF L
      <3>3. Cardinality(L("watchdog") \cup {n + 1}) = Cardinality(L("watchdog")) + 1
        BY <2>7, <3>2, FS_AddElement
      <3>4. reg.watchdog \in Nat
        BY DEF Registry
      <3>5. CASE ev = "watchdog"
        <4>1. M("watchdog") = L("watchdog") \cup {n + 1} /\ new.watchdog = old.watchdog + 1
          BY <2>1, <2>5, <3>5
        <4>2. Cardinality(M("watchdog")) = Cardinality(L("watchdog")) + 1
          BY <3>3, <4>1
        <4> DEFINE r == reg.watchdog
                   c == Cardinality(L("watchdog"))
        <4>3. r \in Nat /\ c \in Nat /\ old.watchdog = r + c
          BY <3>1, <3>2, <3>4
        <4> HIDE DEF r, c
        <4>4. (r + c) + 1 = r + (c + 1)
          BY <4>3
        <4>5. new.watchdog = r + (c + 1)
          BY <4>1, <4>3, <4>4
        <4> QED BY <4>2, <4>5 DEF r, c
      <3>6. CASE ev # "watchdog"
        <4>1. M("watchdog") = L("watchdog") /\ new.watchdog = old.watchdog
          BY <2>1, <2>5, <3>6
        <4> QED BY <3>1, <4>1
      <3> QED BY <3>5, <3>6
    <2>10. \/ M("progress") = {} /\ new.processed = reg.processed
           \/ \E j \in M("progress") :
                /\ new.processed = Script[chunks[j].row].n
                /\ \A l \in M("progress") : l <= j
      <3>1. CASE ev = "progress"
        <4>1. M("progress") = L("progress") \cup {n + 1}
          BY <2>1, <3>1
        <4>2. \A l \in L("progress") : l <= n + 1
          BY DEF L, Lines
        <4>3. new.processed = Script[chunks[n + 1].row].n
          BY <2>6, <3>1 DEF i
        <4>4. \A l \in M("progress") : l <= n + 1
          BY <4>1, <4>2
        <4>5. n + 1 \in M("progress")
          BY <4>1
        <4> QED BY <4>3, <4>4, <4>5
      <3>2. CASE ev # "progress"
        <4>1. M("progress") = L("progress") /\ new.processed = old.processed
          BY <2>1, <2>6, <3>2
        <4>2. \/ L("progress") = {} /\ old.processed = reg.processed
              \/ \E j \in L("progress") :
                   /\ old.processed = Script[chunks[j].row].n
                   /\ \A l \in L("progress") : l <= j
          BY DEF Sums, L
        <4> QED BY <4>1, <4>2
      <3> QED BY <3>1, <3>2
    <2> QED BY <2>8, <2>9, <2>10 DEF Sums, M, new
  <1> QED BY <1>1, <1>2

\* What reading does to the registry.
LEMMA AppliedSums ==
  ASSUME NEW reg \in Registry, NEW chunks \in Seq(Chunk)
  PROVE  /\ Applied(reg, chunks) \in Registry
         /\ Sums(Applied(reg, chunks), reg, chunks, Len(chunks))
  <1> DEFINE n == Len(chunks)
  <1>0. n \in Nat
    OBVIOUS
  <1>1. PICK g : Reading(g, reg, chunks, n) /\ Applied(reg, chunks) = g[n]
    BY AppliedReads
  <1> HIDE DEF n
  <1> DEFINE S == {k \in Nat : k <= n => Sums(g[k], reg, chunks, k)}
  <1>2. 0 \in S
    <2>1. g[0] = reg
      BY <1>1 DEF Reading
    <2>2. \A e : Lines(chunks, e, 0) = {}
      BY DEF Lines
    <2>3. Cardinality({}) = 0
      BY FS_EmptySet
    <2>4. reg.watchdog \in Nat
      BY DEF Registry
    <2>5. reg.watchdog = reg.watchdog + Cardinality(Lines(chunks, "watchdog", 0))
      <3>1. Lines(chunks, "watchdog", 0) = {}
        BY <2>2
      <3>2. \A w \in Nat : w = w + 0
        OBVIOUS
      <3> QED BY <2>3, <2>4, <3>1, <3>2, Zenon
    <2>6. Sums(reg, reg, chunks, 0)
      BY <2>2, <2>5 DEF Sums
    <2> QED BY <2>1, <2>6
  <1>3. ASSUME NEW k \in Nat, k \in S PROVE k + 1 \in S
    <2> SUFFICES ASSUME k + 1 <= n PROVE Sums(g[k + 1], reg, chunks, k + 1)
      OBVIOUS
    <2>1. Sums(g[k], reg, chunks, k) /\ k \in 0 .. n /\ k + 1 \in 1 .. n /\ (k + 1) - 1 = k
      BY <1>0, <1>3
    <2>2. g[k] \in Registry /\ g[k + 1] = Line(g[k], chunks, k + 1)
      BY <1>1, <2>1 DEF Reading
    <2> QED BY <2>1, <2>2, LineSums DEF n
  <1> HIDE DEF S
  <1>4. n \in S
    BY <1>0, <1>2, <1>3, Induction
  <1>5. Sums(g[n], reg, chunks, n)
    BY <1>0, <1>4 DEF S
  <1>6. g[n] \in Registry
    BY <1>0, <1>1 DEF Reading
  <1> QED BY <1>1, <1>5, <1>6 DEF n

-----------------------------------------------------------------------------
(* Counting rows of which no two are the same. *)

LEMMA CountedRows ==
  ASSUME NEW D, NEW count \in [D -> Nat], NEW row, NEW lines, IsFiniteSet(lines),
         \A j, k \in lines : row[j] = row[k] => j = k
  PROVE  /\ Counted(count, row, lines) \in [D -> Nat]
         /\ \A i \in D : Counted(count, row, lines)[i] =
              IF \E k \in lines : row[k] = i THEN count[i] + 1 ELSE count[i]
  <1> DEFINE of(i) == {k \in lines : row[k] = i}
  <1>1. ASSUME NEW i \in D PROVE Cardinality(of(i)) = IF \E k \in lines : row[k] = i THEN 1 ELSE 0
    <2>1. CASE \E k \in lines : row[k] = i
      <3>1. PICK k \in lines : row[k] = i
        BY <2>1
      <3>2. of(i) = {k}
        BY <3>1
      <3> QED BY <2>1, <3>2, FS_Singleton
    <2>2. CASE ~\E k \in lines : row[k] = i
      <3>1. of(i) = {}
        BY <2>2
      <3> QED BY <2>2, <3>1, FS_EmptySet
    <2> QED BY <2>1, <2>2
  <1>2. Counted(count, row, lines) = [i \in D |-> count[i] + Cardinality(of(i))]
    BY DEF Counted
  <1> HIDE DEF of
  <1>3. \A i \in D : Counted(count, row, lines)[i] =
          IF \E k \in lines : row[k] = i THEN count[i] + 1 ELSE count[i]
    <2> TAKE i \in D
    <2>1. Counted(count, row, lines)[i] = count[i] + Cardinality(of(i)) /\ count[i] \in Nat
      BY <1>2
    <2> QED BY <1>1, <2>1
  <1>4. \A i \in D : count[i] + Cardinality(of(i)) \in Nat
    BY <1>1
  <1> QED BY <1>2, <1>3, <1>4

\* A set and the image of another under a function that tells its members
\* apart, with nothing in common.
Image(f, K) == {f[k] : k \in K}

LEMMA AddImage ==
  ASSUME NEW S, IsFiniteSet(S), NEW K, IsFiniteSet(K), NEW f, DOMAIN f = K,
         \A j, k \in K : f[j] = f[k] => j = k,
         \A k \in K : f[k] \notin S
  PROVE  Cardinality(S \cup Image(f, K)) = Cardinality(S) + Cardinality(K)
  <1> DEFINE T == Image(f, K)
             h == [k \in K |-> f[k]]
  <1>1. h \in Surjection(K, T) /\ h \in Injection(K, T)
    BY DEF Injection, Surjection, IsInjective, Image
  <1>2. IsFiniteSet(T) /\ Cardinality(T) = Cardinality(K)
    BY <1>1, FS_Surjection
  <1>3. Cardinality(S \cup T) = Cardinality(S) + Cardinality(T) - Cardinality(S \cap T)
    BY <1>2, FS_Union
  <1>4. Cardinality(S) \in Nat /\ Cardinality(T) \in Nat /\ Cardinality({}) = 0
    BY <1>2, FS_CardinalityType, FS_EmptySet
  <1>5. S \cap T = {}
    BY DEF Image
  <1>6. Cardinality(S \cap T) = 0
    BY <1>4, <1>5
  <1> HIDE DEF T
  <1>7. Cardinality(S \cup T) = Cardinality(S) + Cardinality(K)
    BY <1>2, <1>3, <1>4, <1>6
  <1> QED BY <1>7 DEF T

-----------------------------------------------------------------------------
(* Types *)

TypeOK ==
  /\ sidecar \in Seq(Chunk) /\ next \in Nat /\ next >= 1 /\ half \in BOOLEAN
  /\ errors \in Seq(1 .. MaxErrors) /\ errorsOut \in 0 .. MaxErrors
  /\ exporter \in {"down", "replay", "stat", "errors", "bind", "up", "read"}
  /\ pos \in Nat /\ errPos \in Nat
  /\ registry \in Registry
  /\ seen \in [DOMAIN Script -> Nat] /\ seenErrors \in [1 .. MaxErrors -> Nat]
  /\ pidFile \in {"none", "live", "stale"} /\ argvFile \in BOOLEAN
  /\ lingering \in BOOLEAN /\ reset \in {"idle", "term", "wait"}
  /\ gap \in SUBSET Nat /\ removed \in BOOLEAN
  /\ removals \in Nat /\ deaths \in Nat /\ launches \in Nat

(* What is in the files *)

\* Rows are written in order; two chunks of one row are its two halves.
Written(chunks, to, open) ==
  /\ \A k \in DOMAIN chunks :
       \/ chunks[k].row < to
       \/ open /\ k = Len(chunks) /\ chunks[k].row = to /\ chunks[k].part = "first"
  /\ \A j, k \in DOMAIN chunks : j < k =>
       \/ chunks[j].row < chunks[k].row
       \/ chunks[j].row = chunks[k].row /\ chunks[j].part = "first" /\ chunks[k].part = "rest"

Rising(s, to) ==
  /\ \A k \in DOMAIN s : s[k] <= to
  /\ \A j, k \in DOMAIN s : j < k => s[j] < s[k]

Ordered ==
  /\ Written(sidecar, next, half) /\ Rising(errors, errorsOut)
  /\ half => next <= Len(Script) /\ sidecar # <<>>
             /\ sidecar[Len(sidecar)] = [row |-> next, part |-> "first"]

\* What lies beyond the position was written after all that was counted.
Ahead ==
  /\ \A i \in DOMAIN Script : seen[i] <= 1 /\ (seen[i] > 0 => i < next)
  /\ \A i \in DOMAIN Script, k \in DOMAIN sidecar :
       seen[i] > 0 /\ (k > pos \/ pos > Len(sidecar)) => i < sidecar[k].row
  /\ \A i \in 1 .. MaxErrors : seenErrors[i] <= 1 /\ (seenErrors[i] > 0 => i <= errorsOut)
  /\ \A i \in 1 .. MaxErrors, k \in DOMAIN errors :
       seenErrors[i] > 0 /\ (k > errPos \/ errPos > Len(errors)) => i < errors[k]
  /\ exporter = "replay" => pos = 0

\* A line behind the position that parses was counted, or lies in the gap,
\* or has two parts.
Explained ==
  /\ ~removed => pos <= Len(sidecar)
  /\ exporter \in {"replay", "stat"} => gap = {}
  /\ exporter \notin {"down", "replay"} /\ ~removed =>
       \A k \in 1 .. pos : sidecar[k].part = "whole" /\ Parses(sidecar, k) =>
         seen[sidecar[k].row] > 0 \/ k \in gap

\* The registry is what the rows counted make of an empty one.
SeenOf(e) == {i \in DOMAIN Script : seen[i] > 0 /\ Script[i].event = e}

Summed ==
  /\ registry.ended <=> SeenOf("end") # {}
  /\ registry.watchdog = Cardinality(SeenOf("watchdog"))
  /\ \/ SeenOf("progress") = {} /\ registry.processed = 0
     \/ \E i \in SeenOf("progress") :
          registry.processed = Script[i].n /\ \A j \in SeenOf("progress") : j <= i

-----------------------------------------------------------------------------
(* A read of the file from the position to its end. *)

Unread == SubSeq(sidecar, pos + 1, Len(sidecar))

LEMMA UnreadChunks ==
  ASSUME TypeOK
  PROVE  /\ Unread \in Seq(Chunk) /\ Len(Unread) \in Nat /\ DOMAIN Unread = 1 .. Len(Unread)
         /\ Len(Unread) = IF pos <= Len(sidecar) THEN Len(sidecar) - pos ELSE 0
         /\ \A k \in DOMAIN Unread :
              /\ pos + k \in DOMAIN sidecar /\ Unread[k] = sidecar[pos + k]
              /\ Unread[k] \in Chunk /\ Unread[k].row \in DOMAIN Script
  <1>1. sidecar \in Seq(Chunk) /\ Len(sidecar) \in Nat /\ pos \in Nat /\ DOMAIN sidecar = 1 .. Len(sidecar)
    BY DEF TypeOK
  <1> HIDE DEF Chunk
  <1>2. /\ Unread \in Seq(Chunk)
        /\ Len(Unread) = IF pos <= Len(sidecar) THEN Len(sidecar) - pos ELSE 0
        /\ \A k \in 1 .. Len(Unread) : Unread[k] = sidecar[pos + k]
    <2>1. pos + 1 \in Int /\ Len(sidecar) \in Int
      BY <1>1
    <2>2. \A i \in pos + 1 .. Len(sidecar) : sidecar[i] \in Chunk
      BY <1>1
    <2> DEFINE m == pos + 1
    <2>3. m \in Int /\ m = pos + 1
      BY <2>1
    <2>4. Unread = SubSeq(sidecar, m, Len(sidecar))
      BY DEF Unread
    <2> HIDE DEF m
    <2>5. /\ SubSeq(sidecar, m, Len(sidecar)) \in Seq(Chunk)
          /\ Len(SubSeq(sidecar, m, Len(sidecar))) = IF m <= Len(sidecar) THEN Len(sidecar) - m + 1 ELSE 0
          /\ \A i \in 1 .. Len(sidecar) - m + 1 : SubSeq(sidecar, m, Len(sidecar))[i] = sidecar[m + i - 1]
      BY <2>1, <2>2, <2>3, SubSeqProperties
    <2> QED BY <1>1, <2>3, <2>4, <2>5
  <1>3. Len(Unread) \in Nat /\ DOMAIN Unread = 1 .. Len(Unread)
    BY <1>2
  <1>4. ASSUME NEW k \in DOMAIN Unread
        PROVE  pos + k \in DOMAIN sidecar /\ Unread[k] = sidecar[pos + k]
    <2>1. k \in 1 .. Len(Unread)
      BY <1>3
    <2>2. pos + k \in 1 .. Len(sidecar)
      <3> DEFINE u == Len(Unread)
                 z == Len(sidecar)
      <3>1. u \in Nat /\ z \in Nat /\ u = (IF pos <= z THEN z - pos ELSE 0) /\ k \in 1 .. u
        BY <1>1, <1>2, <1>3, <2>1
      <3> HIDE DEF u, z
      <3>2. pos + k \in 1 .. z
        BY <1>1, <3>1
      <3> QED BY <3>2 DEF z
    <2> QED BY <1>1, <1>2, <2>1, <2>2
  <1>5. \A k \in DOMAIN Unread : Unread[k] \in Chunk
    BY <1>2, <1>3
  <1> QED BY <1>2, <1>3, <1>4, <1>5 DEF Chunk

\* The lines a read finds are of rows not seen before, each once, in order.
LEMMA UnreadLines ==
  ASSUME TypeOK, Ordered, Ahead
  PROVE  /\ IsFiniteSet(Parsed(Unread)) /\ Parsed(Unread) \subseteq 1 .. Len(Unread)
         /\ \A j, k \in Parsed(Unread) : j < k => Unread[j].row < Unread[k].row
         /\ \A j, k \in Parsed(Unread) : Unread[j].row = Unread[k].row => j = k
         /\ \A k \in Parsed(Unread) : /\ Unread[k].row \in DOMAIN Script /\ Unread[k].row < next
                                      /\ seen[Unread[k].row] = 0
                                      /\ \A i \in DOMAIN Script : seen[i] > 0 => i < Unread[k].row
  <1>1. Parsed(Unread) \subseteq 1 .. Len(Unread) /\ Len(Unread) \in Nat
    BY UnreadChunks DEF Parsed
  <1>2. IsFiniteSet(Parsed(Unread))
    <2>1. IsFiniteSet(1 .. Len(Unread))
      BY <1>1, FS_Interval
    <2> QED BY <1>1, <2>1, FS_Subset
  <1>3. ASSUME NEW k \in Parsed(Unread)
        PROVE  /\ pos + k \in DOMAIN sidecar /\ Unread[k] = sidecar[pos + k]
               /\ Unread[k].row \in DOMAIN Script /\ Unread[k].part \in {"whole", "rest"}
               /\ k \in Nat /\ k > 0
    BY <1>1, UnreadChunks DEF Parsed, Parses
  <1>4. pos \in Nat /\ DOMAIN Script \subseteq Nat /\ seen \in [DOMAIN Script -> Nat]
    BY ScriptType DEF TypeOK
  <1>5. ASSUME NEW j \in Parsed(Unread), NEW k \in Parsed(Unread), j < k
        PROVE  Unread[j].row < Unread[k].row
    <2>1. pos + j < pos + k
      BY <1>3, <1>4, <1>5
    <2>2. sidecar[pos + j].part # "first"
      BY <1>3
    <2> QED BY <1>3, <2>1, <2>2 DEF Ordered, Written
  <1>6. ASSUME NEW j \in Parsed(Unread), NEW k \in Parsed(Unread), Unread[j].row = Unread[k].row
        PROVE  j = k
    <2>1. j \in Nat /\ k \in Nat /\ Unread[j].row \in Nat
      BY <1>3, <1>4
    <2> QED BY <1>5, <1>6, <2>1
  <1>7. ASSUME NEW k \in Parsed(Unread)
        PROVE  /\ Unread[k].row < next
               /\ \A i \in DOMAIN Script : seen[i] > 0 => i < Unread[k].row
               /\ seen[Unread[k].row] = 0
    <2>1. sidecar[pos + k].row < next
      BY <1>3 DEF Ordered, Written
    <2>2. pos + k > pos
      BY <1>3, <1>4
    <2>3. \A i \in DOMAIN Script : seen[i] > 0 => i < Unread[k].row
      BY <1>3, <2>2 DEF Ahead
    <2>4. seen[Unread[k].row] = 0
      BY <1>3, <1>4, <2>3
    <2> QED BY <1>3, <2>1, <2>3, <2>4
  <1> QED BY <1>1, <1>2, <1>3, <1>5, <1>6, <1>7

LEMMA ReadSeen ==
  ASSUME TypeOK, Ordered, Ahead, Apply(Unread)
  PROVE  /\ seen' \in [DOMAIN Script -> Nat]
         /\ \A i \in DOMAIN Script :
              /\ seen'[i] <= 1
              /\ seen'[i] > 0 <=> seen[i] > 0 \/ i \in Rows(Unread)
  <1> DEFINE row == [k \in DOMAIN Unread |-> Unread[k].row]
             P == Parsed(Unread)
  <1>1. seen' = Counted(seen, row, P)
    BY DEF Apply
  <1>2. \A k \in P : row[k] = Unread[k].row
    BY DEF Parsed
  <1>3. \A j, k \in P : row[j] = row[k] => j = k
    BY <1>2, UnreadLines
  <1>4. IsFiniteSet(P) /\ seen \in [DOMAIN Script -> Nat]
    BY UnreadLines DEF TypeOK
  <1> HIDE DEF row, P
  <1>5. /\ seen' \in [DOMAIN Script -> Nat]
        /\ \A i \in DOMAIN Script : seen'[i] = IF \E k \in P : row[k] = i THEN seen[i] + 1 ELSE seen[i]
    BY <1>1, <1>3, <1>4, CountedRows
  <1>6. ASSUME NEW i \in DOMAIN Script
        PROVE  /\ seen'[i] <= 1
               /\ seen'[i] > 0 <=> (seen[i] > 0 \/ i \in Rows(Unread))
    <2>1. seen[i] \in Nat /\ seen[i] <= 1
      BY <1>4 DEF Ahead
    <2>2. CASE \E k \in P : row[k] = i
      <3>1. PICK k \in P : row[k] = i
        BY <2>2
      <3>2. Unread[k].row = i /\ k \in Parsed(Unread)
        BY <1>2, <3>1 DEF P
      <3>3. seen[i] = 0 /\ i \in Rows(Unread)
        BY <3>2, UnreadLines DEF Rows
      <3>4. seen'[i] = seen[i] + 1
        BY <1>5, <2>2
      <3> QED BY <3>3, <3>4
    <2>3. CASE ~\E k \in P : row[k] = i
      <3>1. i \notin Rows(Unread)
        BY <1>2, <2>3 DEF Rows, P
      <3>2. seen'[i] = seen[i]
        BY <1>5, <2>3
      <3> QED BY <2>1, <3>1, <3>2
    <2> QED BY <2>2, <2>3
  <1> QED BY <1>5, <1>6

\* The lines of an event that a read finds, and the rows seen of it.
LEMMA ReadOf ==
  ASSUME TypeOK, Ordered, Ahead, Apply(Unread), NEW e
  PROVE  /\ Lines(Unread, e, Len(Unread)) = {k \in Parsed(Unread) : Script[Unread[k].row].event = e}
         /\ SeenOf(e)' = SeenOf(e) \cup {Unread[k].row : k \in Lines(Unread, e, Len(Unread))}
  <1>1. Lines(Unread, e, Len(Unread)) = {k \in Parsed(Unread) : Script[Unread[k].row].event = e}
    BY UnreadChunks DEF Lines, Parsed
  <1>2. \A i \in DOMAIN Script : seen'[i] > 0 <=> (seen[i] > 0 \/ i \in Rows(Unread))
    BY ReadSeen
  <1>3. SeenOf(e)' = {i \in DOMAIN Script : seen'[i] > 0 /\ Script[i].event = e}
    BY DEF SeenOf
  <1>4. \A k \in Parsed(Unread) : Unread[k].row \in DOMAIN Script
    BY UnreadLines
  <1> QED BY <1>1, <1>2, <1>3, <1>4 DEF SeenOf, Rows

LEMMA SeenFinite ==
  ASSUME TypeOK, NEW e
  PROVE  IsFiniteSet(SeenOf(e)) /\ SeenOf(e) \subseteq Nat
  <1>1. SeenOf(e) \subseteq 1 .. Len(Script) /\ Len(Script) \in Nat
    BY ScriptType DEF SeenOf
  <1>2. IsFiniteSet(1 .. Len(Script))
    BY <1>1, FS_Interval
  <1> QED BY <1>1, <1>2, FS_Subset

\* Counting the new lines into the registry gives the summary of all rows seen.
LEMMA ReadSummed ==
  ASSUME TypeOK, Ordered, Ahead, Summed, Apply(Unread)
  PROVE  Summed' /\ registry' \in Registry
  <1> DEFINE n == Len(Unread)
             L(e) == Lines(Unread, e, n)
             R(e) == {Unread[k].row : k \in L(e)}
  <1>1. registry \in Registry /\ Unread \in Seq(Chunk) /\ n \in Nat
    BY UnreadChunks DEF TypeOK
  <1>2. registry' \in Registry /\ Sums(registry', registry, Unread, n)
    BY <1>1, AppliedSums DEF Apply
  <1>3. \A e : SeenOf(e)' = SeenOf(e) \cup R(e)
    BY ReadOf
  <1>4. \A e : L(e) \subseteq Parsed(Unread)
    BY ReadOf
  <1>5. registry'.ended <=> SeenOf("end")' # {}
    <2>1. registry'.ended <=> (registry.ended \/ L("end") # {})
      BY <1>2 DEF Sums
    <2>2. registry.ended <=> SeenOf("end") # {}
      BY DEF Summed
    <2>3. R("end") # {} <=> L("end") # {}
      OBVIOUS
    <2>4. SeenOf("end")' = SeenOf("end") \cup R("end")
      BY <1>3
    <2> HIDE DEF L, R
    <2>5. SeenOf("end")' # {} <=> (SeenOf("end") # {} \/ R("end") # {})
      BY <2>4
    <2> QED BY <2>1, <2>2, <2>3, <2>5, Zenon
  <1>6. registry'.watchdog = Cardinality(SeenOf("watchdog")')
    <2> DEFINE K == L("watchdog")
               S == SeenOf("watchdog")
               f == [k \in K |-> Unread[k].row]
    <2>1. IsFiniteSet(S) /\ IsFiniteSet(K)
      BY <1>1, SeenFinite, LinesFinite
    <2>2. DOMAIN f = K /\ \A k \in K : f[k] = Unread[k].row
      OBVIOUS
    <2>3. \A j, k \in K : f[j] = f[k] => j = k
      BY <1>4, <2>2, UnreadLines
    <2>4. \A k \in K : f[k] \notin S
      BY <1>4, <2>2, UnreadLines DEF SeenOf
    <2>5. SeenOf("watchdog")' = S \cup Image(f, K)
      BY <1>3, <2>2 DEF Image
    <2>6. registry'.watchdog = registry.watchdog + Cardinality(K)
      BY <1>2 DEF Sums
    <2>7. registry.watchdog = Cardinality(S)
      BY DEF Summed
    <2> HIDE DEF K, S, f, L, n
    <2>8. Cardinality(S \cup Image(f, K)) = Cardinality(S) + Cardinality(K)
      BY <2>1, <2>2, <2>3, <2>4, AddImage
    <2> QED BY <2>5, <2>6, <2>7, <2>8
  <1>7. \/ SeenOf("progress")' = {} /\ registry'.processed = 0
        \/ \E i \in SeenOf("progress")' :
             registry'.processed = Script[i].n /\ \A j \in SeenOf("progress")' : j <= i
    <2> DEFINE K == L("progress")
               S == SeenOf("progress")
    <2>1. SeenOf("progress")' = S \cup {Unread[k].row : k \in K}
      BY <1>3
    <2>2. \/ K = {} /\ registry'.processed = registry.processed
          \/ \E j \in K : registry'.processed = Script[Unread[j].row].n /\ \A l \in K : l <= j
      BY <1>2 DEF Sums
    <2>3. \/ S = {} /\ registry.processed = 0
          \/ \E i \in S : registry.processed = Script[i].n /\ \A j \in S : j <= i
      BY DEF Summed
    <2>4. K \subseteq Parsed(Unread)
      BY <1>4
    <2>5. S \subseteq {i \in DOMAIN Script : seen[i] > 0} /\ DOMAIN Script \subseteq Nat
      BY ScriptType DEF SeenOf
    <2> HIDE DEF K, S
    <2>6. CASE K = {}
      <3>1. SeenOf("progress")' = S /\ registry'.processed = registry.processed
        BY <2>1, <2>2, <2>6
      <3> QED BY <2>3, <3>1
    <2>7. CASE K # {}
      <3>1. PICK j \in K : registry'.processed = Script[Unread[j].row].n /\ \A l \in K : l <= j
        BY <2>2, <2>7
      <3>2. Unread[j].row \in SeenOf("progress")'
        BY <2>1
      <3>3. \A i \in S : i <= Unread[j].row
        BY <2>4, <2>5, UnreadLines
      <3>4. ASSUME NEW l \in K PROVE Unread[l].row <= Unread[j].row
        <4>1. l \in Parsed(Unread) /\ j \in Parsed(Unread) /\ l <= j
          BY <2>4, <3>1
        <4>2. l \in Nat /\ j \in Nat /\ Unread[l].row \in Nat /\ Unread[j].row \in Nat
          BY <2>5, <4>1, UnreadLines
        <4>3. l < j => Unread[l].row < Unread[j].row
          BY <4>1, UnreadLines
        <4> QED BY <4>1, <4>2, <4>3
      <3>5. \A i \in SeenOf("progress")' : i <= Unread[j].row
        BY <2>1, <3>3, <3>4
      <3> QED BY <3>1, <3>2, <3>5
    <2> QED BY <2>6, <2>7
  <1> QED BY <1>2, <1>5, <1>6, <1>7 DEF Summed

-----------------------------------------------------------------------------
(* The inductive invariant. *)

Inv == TypeOK /\ Ordered /\ Ahead /\ Explained /\ Summed

LEMMA First == Init => Inv
  <1> SUFFICES ASSUME Init PROVE Inv
    OBVIOUS
  <1>1. seen \in [DOMAIN Script -> Nat] /\ seenErrors \in [1 .. MaxErrors -> Nat]
    BY ScriptType DEF Init, Nothing, NoErrors
  <1>2. \A e : SeenOf(e) = {}
    BY ScriptType DEF Init, Nothing, SeenOf
  <1>3. TypeOK
    <2>1. registry \in Registry
      BY DEF Init, EmptyRegistry, Registry
    <2>2. MaxErrors \in Nat
      BY EventTailAssumption DEF EventTailAssumption
    <2>3. sidecar \in Seq(Chunk) /\ errors \in Seq(1 .. MaxErrors) /\ errorsOut \in 0 .. MaxErrors
      BY <2>2 DEF Init
    <2>4. next \in Nat /\ next >= 1 /\ pos \in Nat /\ errPos \in Nat /\ gap \in SUBSET Nat
      BY DEF Init
    <2>5. half \in BOOLEAN /\ argvFile \in BOOLEAN /\ lingering \in BOOLEAN /\ removed \in BOOLEAN
      BY DEF Init
    <2> QED BY <1>1, <2>1, <2>3, <2>4, <2>5 DEF Init, TypeOK
  <1>4. Ordered
    BY DEF Init, Ordered, Written, Rising
  <1>5. Ahead
    BY ScriptType DEF Init, Ahead, Nothing, NoErrors
  <1>6. Explained
    BY DEF Init, Explained
  <1>7. Summed
    <2>1. registry.ended = FALSE /\ registry.watchdog = 0 /\ registry.processed = 0
      BY DEF Init, EmptyRegistry
    <2>2. Cardinality({}) = 0
      BY FS_EmptySet
    <2> QED BY <1>2, <2>1, <2>2 DEF Summed
  <1> QED BY <1>3, <1>4, <1>5, <1>6, <1>7 DEF Inv

LEMMA ErrorsType == MaxErrors \in Nat
  BY EventTailAssumption DEF EventTailAssumption

\* The summary depends on the registry and the rows seen alone.
LEMMA SummedKept ==
  ASSUME Summed, UNCHANGED <<registry, seen>>
  PROVE  Summed'
  BY DEF Summed, SeenOf

-----------------------------------------------------------------------------
(* The run. *)

\* A chunk is appended for the next row.
LEMMA EmitStep ==
  ASSUME Inv, NEW part \in Parts, Emit(part), next <= Len(Script),
         \/ part = "whole" /\ ~half /\ next' = next + 1 /\ half' = half
         \/ part = "first" /\ ~half /\ next' = next /\ half' = TRUE
         \/ part = "rest" /\ half /\ next' = next + 1 /\ half' = FALSE
  PROVE  Inv'
  <1> DEFINE c == [row |-> next, part |-> part]
             n == Len(sidecar)
  <1>1. TypeOK /\ Ordered /\ Ahead /\ Explained /\ Summed
    BY DEF Inv
  <1>2. sidecar' = Append(sidecar, c) /\ UNCHANGED <<errors, errorsOut, exporter, pos, errPos, registry, seen, seenErrors,
                                                     gap, removed>>
    BY DEF Emit, tail
  <1>3. c \in Chunk /\ next \in Nat /\ n \in Nat /\ sidecar \in Seq(Chunk) /\ pos \in Nat
    BY <1>1, ScriptType DEF TypeOK, Chunk
  <1>4. /\ sidecar' \in Seq(Chunk) /\ Len(sidecar') = n + 1 /\ sidecar'[n + 1] = c
        /\ DOMAIN sidecar = 1 .. n /\ DOMAIN sidecar' = 1 .. n + 1
        /\ \A k \in 1 .. n : sidecar'[k] = sidecar[k]
    <2> HIDE DEF Chunk, c
    <2> QED BY <1>2, <1>3
  <1>5. TypeOK'
    <2>1. next' \in Nat /\ next' >= 1
      BY <1>1, <1>3 DEF TypeOK
    <2>2. half' \in BOOLEAN
      BY <1>1 DEF TypeOK
    <2> QED BY <1>1, <1>2, <1>4, <2>1, <2>2 DEF TypeOK, Emit, control, bounds
  <1> HIDE DEF n
  <1>6. /\ c.row = next /\ c.part = part
        /\ \A k \in 1 .. n : sidecar[k].row \in Nat
    <2>1. c.row = next /\ c.part = part
      OBVIOUS
    <2>2. \A k \in 1 .. n : sidecar[k] \in Chunk
      BY <1>3, <1>4
    <2> QED BY <2>1, <2>2, ScriptType DEF Chunk
  <1> HIDE DEF c, Chunk
  <1>7. \A k \in 1 .. n : \/ sidecar[k].row < next
                          \/ half /\ k = n /\ sidecar[k].row = next /\ sidecar[k].part = "first"
    BY <1>1, <1>4 DEF Ordered, Written, n
  <1>8. \A j, k \in 1 .. n : j < k =>
          \/ sidecar[j].row < sidecar[k].row
          \/ sidecar[j].row = sidecar[k].row /\ sidecar[j].part = "first" /\ sidecar[k].part = "rest"
    BY <1>1, <1>4 DEF Ordered, Written
  <1>9. Written(sidecar', next', half')
    <2>1. ASSUME NEW k \in 1 .. n + 1
          PROVE  \/ sidecar'[k].row < next'
                 \/ half' /\ k = n + 1 /\ sidecar'[k].row = next' /\ sidecar'[k].part = "first"
      <3>1. CASE k = n + 1
        BY <1>3, <1>4, <1>6, <3>1
      <3>2. CASE k # n + 1
        <4>1. k \in 1 .. n /\ sidecar'[k] = sidecar[k]
          BY <1>3, <1>4, <3>2
        <4> QED BY <1>3, <1>6, <1>7, <4>1
      <3> QED BY <3>1, <3>2
    <2>2. ASSUME NEW j \in 1 .. n + 1, NEW k \in 1 .. n + 1, j < k
          PROVE  \/ sidecar'[j].row < sidecar'[k].row
                 \/ sidecar'[j].row = sidecar'[k].row /\ sidecar'[j].part = "first" /\ sidecar'[k].part = "rest"
      <3>1. j \in 1 .. n /\ sidecar'[j] = sidecar[j]
        BY <1>3, <1>4, <2>2
      <3>2. CASE k = n + 1
        BY <1>4, <1>6, <1>7, <3>1, <3>2
      <3>3. CASE k # n + 1
        <4>1. k \in 1 .. n /\ sidecar'[k] = sidecar[k]
          BY <1>3, <1>4, <3>3
        <4> QED BY <1>8, <2>2, <3>1, <4>1
      <3> QED BY <3>2, <3>3
    <2> QED BY <1>4, <2>1, <2>2 DEF Written
  <1>10. Ordered'
    <2>1. Rising(errors', errorsOut')
      BY <1>1, <1>2 DEF Ordered
    <2>2. half' => next' <= Len(Script) /\ sidecar' # <<>> /\ sidecar'[Len(sidecar')] = [row |-> next', part |-> "first"]
      <3>1. half' => next' = next /\ part = "first"
        OBVIOUS
      <3>2. sidecar' # <<>>
        BY <1>3, <1>4
      <3> QED BY <1>4, <3>1, <3>2 DEF c
    <2> QED BY <1>9, <2>1, <2>2 DEF Ordered
  <1>11. Ahead'
    <2>1. ASSUME NEW i \in DOMAIN Script
          PROVE  seen'[i] <= 1 /\ (seen'[i] > 0 => i < next')
      BY <1>1, <1>2, <1>3, ScriptType DEF Ahead
    <2>2. ASSUME NEW i \in DOMAIN Script, NEW k \in DOMAIN sidecar', seen'[i] > 0, k > pos' \/ pos' > Len(sidecar')
          PROVE  i < sidecar'[k].row
      <3>1. CASE k = n + 1
        BY <1>1, <1>2, <1>4, <1>6, <2>2, <3>1 DEF Ahead
      <3>2. CASE k # n + 1
        <4>1. k \in DOMAIN sidecar /\ sidecar'[k] = sidecar[k] /\ (k > pos \/ pos > n)
          BY <1>2, <1>3, <1>4, <2>2, <3>2
        <4> QED BY <1>1, <1>2, <2>2, <4>1 DEF Ahead, n
      <3> QED BY <3>1, <3>2
    <2> QED BY <1>1, <1>2, <2>1, <2>2 DEF Ahead
  <1>12. Explained'
    <2>1. ~removed' => pos' <= Len(sidecar')
      BY <1>1, <1>2, <1>3, <1>4 DEF Explained, n
    <2>2. ASSUME exporter' \notin {"down", "replay"}, ~removed', NEW k \in 1 .. pos',
                 sidecar'[k].part = "whole", Parses(sidecar', k)
          PROVE  seen'[sidecar'[k].row] > 0 \/ k \in gap'
      <3>1. k \in 1 .. pos /\ pos <= n
        BY <1>1, <1>2, <2>2 DEF Explained, n
      <3>2. k \in 1 .. n /\ sidecar'[k] = sidecar[k] /\ (k # 1 => k - 1 \in 1 .. n)
        BY <1>3, <1>4, <3>1
      <3>3. Parses(sidecar, k)
        BY <1>4, <2>2, <3>2 DEF Parses, StartsLine
      <3> QED BY <1>1, <1>2, <2>2, <3>1, <3>2, <3>3 DEF Explained
    <2> QED BY <1>1, <1>2, <2>1, <2>2 DEF Explained
  <1>13. Summed'
    BY <1>1, <1>2, SummedKept
  <1> QED BY <1>5, <1>10, <1>11, <1>12, <1>13 DEF Inv

LEMMA WriterDiesStep == ASSUME Inv, WriterDies PROVE Inv'
  <1>1. TypeOK /\ Ordered /\ Ahead /\ Explained /\ Summed
    BY DEF Inv
  <1>2. /\ half /\ half' = FALSE /\ next' = next + 1 /\ next \in Nat /\ deaths' \in Nat
        /\ UNCHANGED <<sidecar, errors, errorsOut, exporter, pos, errPos, registry, seen, seenErrors, gap, removed>>
    BY <1>1 DEF WriterDies, data, tail, TypeOK
  <1>3. TypeOK'
    <2>1. next' \in Nat /\ next' >= 1
      BY <1>2
    <2> QED BY <1>1, <1>2, <2>1 DEF TypeOK, WriterDies, control
  <1>4. Ordered'
    <2>1. \A k \in DOMAIN sidecar : sidecar[k].row \in Nat
      <3>1. sidecar \in Seq(Chunk)
        BY <1>1 DEF TypeOK
      <3>2. \A k \in DOMAIN sidecar : sidecar[k] \in Chunk
        BY <3>1
      <3> QED BY <3>2, ScriptType DEF Chunk
    <2>2. Written(sidecar', next', half')
      BY <1>1, <1>2, <2>1 DEF Ordered, Written
    <2> QED BY <1>1, <1>2, <2>2 DEF Ordered
  <1>5. Ahead'
    BY <1>1, <1>2, ScriptType DEF Ahead
  <1>6. Explained'
    BY <1>1, <1>2 DEF Explained
  <1> QED BY <1>1, <1>2, <1>3, <1>4, <1>5, <1>6, SummedKept DEF Inv

LEMMA EmitErrorStep == ASSUME Inv, EmitError PROVE Inv'
  <1> DEFINE m == errorsOut + 1
             n == Len(errors)
  <1>1. TypeOK /\ Ordered /\ Ahead /\ Explained /\ Summed
    BY DEF Inv
  <1>2. /\ errorsOut' = m /\ errors' = Append(errors, m)
        /\ UNCHANGED <<sidecar, next, half, exporter, pos, errPos, registry, seen, seenErrors, gap, removed>>
    BY DEF EmitError, tail
  <1>3. m \in 1 .. MaxErrors /\ errorsOut \in Nat /\ n \in Nat /\ errors \in Seq(1 .. MaxErrors) /\ errPos \in Nat
    BY <1>1, ErrorsType DEF TypeOK, EmitError
  <1>4. /\ errors' \in Seq(1 .. MaxErrors) /\ Len(errors') = n + 1 /\ errors'[n + 1] = m
        /\ DOMAIN errors = 1 .. n /\ DOMAIN errors' = 1 .. n + 1
        /\ \A k \in 1 .. n : errors'[k] = errors[k] /\ errors[k] \in Nat
    <2> DEFINE E == 1 .. MaxErrors
    <2>1. errors \in Seq(E) /\ m \in E
      BY <1>3
    <2>2. \A x \in E : x \in Nat
      OBVIOUS
    <2> HIDE DEF m, E
    <2>3. /\ errors' \in Seq(E) /\ Len(errors') = n + 1 /\ errors'[n + 1] = m
          /\ DOMAIN errors = 1 .. n /\ DOMAIN errors' = 1 .. n + 1
          /\ \A k \in 1 .. n : errors'[k] = errors[k] /\ errors[k] \in E
      BY <1>2, <2>1
    <2> QED BY <2>2, <2>3 DEF E
  <1>5. TypeOK'
    BY <1>1, <1>2, <1>3, <1>4 DEF TypeOK, EmitError, control, bounds
  <1>6. \A k \in 1 .. n : errors[k] <= errorsOut
    BY <1>1, <1>4 DEF Ordered, Rising
  <1> HIDE DEF n
  <1>7. Rising(errors', errorsOut')
    <2>1. ASSUME NEW k \in 1 .. n + 1 PROVE errors'[k] <= m
      <3>1. CASE k = n + 1
        BY <1>3, <1>4, <3>1
      <3>2. CASE k # n + 1
        <4>1. k \in 1 .. n
          BY <1>3, <3>2
        <4> QED BY <1>3, <1>4, <1>6, <4>1
      <3> QED BY <3>1, <3>2
    <2>2. ASSUME NEW j \in 1 .. n + 1, NEW k \in 1 .. n + 1, j < k PROVE errors'[j] < errors'[k]
      <3>1. j \in 1 .. n
        BY <1>3, <2>2
      <3>2. CASE k = n + 1
        BY <1>3, <1>4, <1>6, <3>1, <3>2
      <3>3. CASE k # n + 1
        <4>1. k \in 1 .. n
          BY <1>3, <3>3
        <4> QED BY <1>1, <1>4, <2>2, <3>1, <4>1 DEF Ordered, Rising
      <3> QED BY <3>2, <3>3
    <2> QED BY <1>2, <1>4, <2>1, <2>2 DEF Rising
  <1>8. Ordered'
    BY <1>1, <1>2, <1>7 DEF Ordered
  <1>9. Ahead'
    <2>1. ASSUME NEW i \in 1 .. MaxErrors PROVE seenErrors'[i] <= 1 /\ (seenErrors'[i] > 0 => i <= errorsOut')
      BY <1>1, <1>2, <1>3 DEF Ahead
    <2>2. ASSUME NEW i \in 1 .. MaxErrors, NEW k \in DOMAIN errors', seenErrors'[i] > 0,
                 k > errPos' \/ errPos' > Len(errors')
          PROVE  i < errors'[k]
      <3>1. CASE k = n + 1
        <4>1. i <= errorsOut
          BY <1>1, <1>2, <2>2 DEF Ahead
        <4> QED BY <1>3, <1>4, <3>1, <4>1
      <3>2. CASE k # n + 1
        <4>1. k \in DOMAIN errors /\ errors'[k] = errors[k] /\ (k > errPos \/ errPos > n)
          BY <1>2, <1>3, <1>4, <2>2, <3>2
        <4> QED BY <1>1, <1>2, <2>2, <4>1 DEF Ahead, n
      <3> QED BY <3>1, <3>2
    <2> QED BY <1>1, <1>2, <2>1, <2>2 DEF Ahead
  <1>10. Explained'
    BY <1>1, <1>2 DEF Explained
  <1> QED BY <1>1, <1>2, <1>5, <1>8, <1>9, <1>10, SummedKept DEF Inv

\* Rows written to the new files are later than all that was seen.
LEMMA RemoveFilesStep == ASSUME Inv, RemoveFiles PROVE Inv'
  <1>1. TypeOK /\ Ordered /\ Ahead /\ Explained /\ Summed
    BY DEF Inv
  <1>2. /\ sidecar' = <<>> /\ errors' = <<>> /\ removed' = TRUE /\ removals' \in Nat /\ ~half
        /\ UNCHANGED <<next, half, errorsOut, exporter, pos, errPos, registry, seen, seenErrors, gap>>
    BY <1>1 DEF RemoveFiles, tail, writer, TypeOK
  <1>3. TypeOK'
    BY <1>1, <1>2 DEF TypeOK, RemoveFiles, control
  <1>4. Ordered'
    BY <1>2 DEF Ordered, Written, Rising
  <1>5. Ahead'
    BY <1>1, <1>2 DEF Ahead
  <1>6. Explained'
    BY <1>1, <1>2 DEF Explained
  <1> QED BY <1>1, <1>2, <1>3, <1>4, <1>5, <1>6, SummedKept DEF Inv

LEMMA RunStep == ASSUME Inv, Run PROVE Inv'
  <1>1. CASE EmitLine
    <2>1. next <= Len(Script) /\ ~half
      BY <1>1 DEF EmitLine
    <2>2. CASE Emit("whole") /\ next' = next + 1 /\ UNCHANGED half
      BY <2>1, <2>2, EmitStep DEF Parts
    <2>3. CASE Emit("first") /\ half' = TRUE /\ UNCHANGED next
      BY <2>1, <2>3, EmitStep DEF Parts
    <2> QED BY <1>1, <2>2, <2>3 DEF EmitLine
  <1>2. CASE EmitRest
    <2>1. half /\ Emit("rest") /\ half' = FALSE /\ next' = next + 1 /\ next <= Len(Script)
      BY <1>2 DEF EmitRest, Inv, Ordered
    <2> QED BY <2>1, EmitStep DEF Parts
  <1> QED BY <1>1, <1>2, WriterDiesStep, EmitErrorStep, RemoveFilesStep DEF Run

-----------------------------------------------------------------------------
(* The exporter. *)

\* The files are left as they are.
LEMMA OrderedKept ==
  ASSUME Ordered, UNCHANGED <<sidecar, next, half, errors, errorsOut>>
  PROVE  Ordered'
  BY DEF Ordered

\* A new exporter knows nothing.
LEMMA BeginStep ==
  ASSUME Inv, Begin, UNCHANGED <<writer, data, pidFile, argvFile, lingering, removals, deaths>>,
         reset' \in {"idle", "term", "wait"}
  PROVE  Inv'
  <1>1. TypeOK /\ Ordered
    BY DEF Inv
  <1>2. /\ UNCHANGED <<sidecar, next, half, errors, errorsOut>>
        /\ exporter' = "replay" /\ pos' = 0 /\ errPos' = 0 /\ registry' = EmptyRegistry
        /\ seen' = Nothing /\ seenErrors' = NoErrors /\ gap' = {} /\ removed' = FALSE
        /\ launches' = launches + 1
    BY DEF Begin, writer, data
  <1>3. /\ seen' \in [DOMAIN Script -> Nat] /\ seenErrors' \in [1 .. MaxErrors -> Nat]
        /\ \A i \in DOMAIN Script : seen'[i] = 0
        /\ \A i \in 1 .. MaxErrors : seenErrors'[i] = 0
    BY <1>2, ScriptType DEF Nothing, NoErrors
  <1>4. TypeOK'
    <2>1. registry' \in Registry
      BY <1>2 DEF EmptyRegistry, Registry
    <2>2. launches' \in Nat /\ pos' \in Nat /\ errPos' \in Nat /\ gap' \in SUBSET Nat
      BY <1>1, <1>2 DEF TypeOK
    <2>3. removed' \in BOOLEAN
      BY <1>2
    <2> QED BY <1>1, <1>2, <1>3, <2>1, <2>2, <2>3 DEF TypeOK
  <1>5. Ordered'
    BY <1>1, <1>2, OrderedKept
  <1>6. Ahead'
    BY <1>2, <1>3 DEF Ahead
  <1>7. Explained'
    <2>1. Len(sidecar') \in Nat
      BY <1>4 DEF TypeOK
    <2> QED BY <1>2, <2>1 DEF Explained
  <1>8. Summed'
    <2>1. \A e : SeenOf(e)' = {}
      BY <1>3 DEF SeenOf
    <2>2. Cardinality({}) = 0
      BY FS_EmptySet
    <2>3. registry'.ended = FALSE /\ registry'.watchdog = 0 /\ registry'.processed = 0
      BY <1>2 DEF EmptyRegistry
    <2> QED BY <2>1, <2>2, <2>3 DEF Summed
  <1> QED BY <1>4, <1>5, <1>6, <1>7, <1>8 DEF Inv

\* A chunk beyond the position that is a line of the file is a line of what
\* is read from there.
LEMMA LineRead ==
  ASSUME TypeOK, NEW k \in DOMAIN sidecar, k > pos, sidecar[k].part = "whole", Parses(sidecar, k)
  PROVE  sidecar[k].row \in Rows(Unread)
  <1> DEFINE j == k - pos
  <1>1. /\ pos \in Nat /\ k \in Nat /\ k <= Len(sidecar) /\ Len(sidecar) \in Nat
    BY DEF TypeOK
  <1>2. j \in DOMAIN Unread /\ pos + j = k /\ j \in Nat /\ j >= 1
    BY <1>1, UnreadChunks
  <1>3. Unread[j] = sidecar[k]
    BY <1>2, UnreadChunks
  <1>4. j # 1 => j - 1 \in DOMAIN Unread /\ pos + (j - 1) = k - 1 /\ k # 1
    BY <1>1, <1>2, UnreadChunks
  <1>5. j # 1 => Unread[j - 1] = sidecar[k - 1]
    BY <1>4, UnreadChunks
  <1>6. StartsLine(sidecar, k)
    BY DEF Parses
  <1> HIDE DEF j
  <1>7. Parses(Unread, j)
    BY <1>3, <1>4, <1>5, <1>6 DEF Parses, StartsLine
  <1> QED BY <1>2, <1>3, <1>7 DEF Rows, Parsed

\* A read takes the position to the end, and counts what it finds.
LEMMA ReadStep ==
  ASSUME Inv, Apply(Unread),
         pos' = IF pos > Len(sidecar) THEN pos ELSE Len(sidecar),
         \/ exporter = "replay" /\ exporter' = "stat"
         \/ exporter = "read" /\ exporter' = "up",
         UNCHANGED <<sidecar, next, half, errors, errorsOut, errPos, seenErrors, gap, removed>>
  PROVE  /\ (Ordered /\ Ahead /\ Explained /\ Summed)'
         /\ registry' \in Registry /\ seen' \in [DOMAIN Script -> Nat] /\ pos' \in Nat
  <1>1. TypeOK /\ Ordered /\ Ahead /\ Explained /\ Summed
    BY DEF Inv
  <1>2. /\ seen' \in [DOMAIN Script -> Nat]
        /\ \A i \in DOMAIN Script : seen'[i] <= 1 /\ (seen'[i] > 0 <=> (seen[i] > 0 \/ i \in Rows(Unread)))
    BY <1>1, ReadSeen
  <1>3. Summed' /\ registry' \in Registry
    BY <1>1, ReadSummed
  <1>4. pos \in Nat /\ Len(sidecar) \in Nat /\ DOMAIN sidecar = 1 .. Len(sidecar)
    BY <1>1 DEF TypeOK
  <1>5. \A i \in Rows(Unread) : i < next
    BY <1>1, UnreadLines DEF Rows
  <1>6. Ahead'
    <2>1. ASSUME NEW i \in DOMAIN Script PROVE seen'[i] <= 1 /\ (seen'[i] > 0 => i < next')
      BY <1>1, <1>2, <1>5 DEF Ahead
    <2>2. ASSUME NEW i \in DOMAIN Script, NEW k \in DOMAIN sidecar', seen'[i] > 0,
                 k > pos' \/ pos' > Len(sidecar')
          PROVE  i < sidecar'[k].row
      <3>1. pos > Len(sidecar)
        BY <1>4, <2>2
      <3>2. DOMAIN Unread = {}
        <4>1. ~(pos <= Len(sidecar))
          BY <1>4, <3>1
        <4>2. Len(Unread) = 0
          BY <1>1, <4>1, UnreadChunks
        <4> QED BY <1>1, <4>2, UnreadChunks
      <3>3. Rows(Unread) = {}
        BY <3>2 DEF Rows, Parsed
      <3> QED BY <1>1, <1>2, <2>2, <3>1, <3>3 DEF Ahead
    <2> QED BY <1>1, <2>1, <2>2 DEF Ahead
  <1>7. Explained'
    <2>1. ASSUME ~removed' PROVE pos' <= Len(sidecar') /\ pos <= Len(sidecar) /\ pos' = Len(sidecar)
      <3>1. pos <= Len(sidecar)
        BY <1>1, <2>1 DEF Explained
      <3> DEFINE z == Len(sidecar)
      <3>2. ~(pos > z) /\ z <= z
        <4>1. z \in Nat /\ pos \in Nat /\ pos <= z
          BY <1>4, <3>1
        <4> HIDE DEF z
        <4> QED BY <4>1
      <3>3. pos' = (IF pos > z THEN pos ELSE z) /\ Len(sidecar') = z
        BY Zenon
      <3> HIDE DEF z
      <3>4. pos' = z /\ pos' <= Len(sidecar')
        BY <3>2, <3>3, Zenon
      <3> QED BY <3>1, <3>4 DEF z
    <2>2. ASSUME ~removed', NEW k \in 1 .. pos', sidecar'[k].part = "whole", Parses(sidecar', k)
          PROVE  seen'[sidecar'[k].row] > 0 \/ k \in gap'
      <3>1. k \in DOMAIN sidecar /\ sidecar[k].row \in DOMAIN Script
        <4>1. k \in DOMAIN sidecar
          BY <1>4, <2>1, <2>2
        <4>2. sidecar[k] \in Chunk
          BY <1>1, <4>1 DEF TypeOK
        <4> QED BY <4>1, <4>2 DEF Chunk
      <3>2. CASE k > pos
        <4>1. sidecar[k].row \in Rows(Unread)
          BY <1>1, <2>2, <3>1, <3>2, LineRead
        <4> QED BY <1>2, <3>1, <4>1
      <3>3. CASE ~(k > pos)
        <4>1. k \in 1 .. pos /\ exporter = "read"
          BY <1>1, <1>4, <3>1, <3>3 DEF Ahead
        <4>2. seen[sidecar[k].row] > 0 \/ k \in gap
          BY <1>1, <2>2, <4>1 DEF Explained
        <4> QED BY <1>2, <3>1, <4>2
      <3> QED BY <3>2, <3>3
    <2> QED BY <1>1, <2>1, <2>2 DEF Explained
  <1> QED BY <1>1, <1>2, <1>3, <1>4, <1>6, <1>7, OrderedKept

LEMMA ReplayStep == ASSUME Inv, Replay PROVE Inv'
  <1>1. TypeOK /\ Ahead /\ exporter = "replay"
    BY DEF Inv, Replay
  <1>2. pos = 0 /\ sidecar \in Seq(Chunk) /\ Len(sidecar) \in Nat
    BY <1>1 DEF Ahead, TypeOK
  <1>3. Unread = sidecar
    <2>1. Len(Unread) = Len(sidecar) /\ DOMAIN Unread = 1 .. Len(sidecar) /\ DOMAIN sidecar = 1 .. Len(sidecar)
      BY <1>1, <1>2, UnreadChunks
    <2>2. \A k \in 1 .. Len(sidecar) : Unread[k] = sidecar[k]
      <3>1. \A k \in 1 .. Len(sidecar) : Unread[k] = sidecar[pos + k]
        BY <1>1, <2>1, UnreadChunks
      <3> QED BY <1>2, <3>1
    <2>3. Unread \in Seq(Chunk)
      BY <1>1, UnreadChunks
    <2> HIDE DEF Chunk
    <2> QED BY <1>2, <2>1, <2>2, <2>3, SeqEqual
  <1>4. /\ Apply(Unread) /\ exporter' = "stat"
        /\ pos' = IF pos > Len(sidecar) THEN pos ELSE Len(sidecar)
        /\ UNCHANGED <<sidecar, next, half, errors, errorsOut, errPos, seenErrors, gap, removed>>
    BY <1>2, <1>3 DEF Replay, writer, data
  <1>5. /\ (Ordered /\ Ahead /\ Explained /\ Summed)'
        /\ registry' \in Registry /\ seen' \in [DOMAIN Script -> Nat] /\ pos' \in Nat
    BY <1>1, <1>4, ReadStep
  <1>6. TypeOK'
    BY <1>1, <1>4, <1>5 DEF TypeOK, Replay, control, bounds
  <1> QED BY <1>5, <1>6 DEF Inv

LEMMA PollReadStep == ASSUME Inv, PollRead PROVE Inv'
  <1>1. TypeOK /\ Ordered /\ Ahead /\ Explained /\ Summed /\ exporter = "read"
    BY DEF Inv, PollRead
  <1>2. UNCHANGED <<sidecar, next, half, errors, errorsOut, errPos, seenErrors, gap, removed>>
    BY DEF PollRead, writer, data
  <1>3. CASE sidecar # <<>>
    <2>1. /\ Apply(Unread) /\ exporter' = "up" /\ UNCHANGED <<pidFile, argvFile>>
          /\ pos' = IF pos > Len(sidecar) THEN pos ELSE Len(sidecar)
      BY <1>3 DEF PollRead, Unread
    <2>2. /\ (Ordered /\ Ahead /\ Explained /\ Summed)'
          /\ registry' \in Registry /\ seen' \in [DOMAIN Script -> Nat] /\ pos' \in Nat
      BY <1>1, <1>2, <2>1, ReadStep
    <2>3. TypeOK'
      BY <1>1, <1>2, <2>1, <2>2 DEF TypeOK, PollRead, bounds
    <2> QED BY <2>2, <2>3 DEF Inv
  <1>4. CASE sidecar = <<>>
    <2>1. /\ exporter' = "down" /\ pidFile' = "none" /\ argvFile' = FALSE
          /\ UNCHANGED <<pos, registry, seen>>
      BY <1>4 DEF PollRead
    <2>2. TypeOK'
      BY <1>1, <1>2, <2>1 DEF TypeOK, PollRead, bounds
    <2>3. Ahead'
      BY <1>1, <1>2, <2>1 DEF Ahead
    <2>4. Explained'
      BY <1>1, <1>2, <2>1 DEF Explained
    <2> QED BY <1>1, <1>2, <2>1, <2>2, <2>3, <2>4, OrderedKept, SummedKept DEF Inv
  <1> QED BY <1>3, <1>4

LEMMA StatStep == ASSUME Inv, Stat PROVE Inv'
  <1>1. TypeOK /\ Ordered /\ Ahead /\ Explained /\ Summed /\ exporter = "stat"
    BY DEF Inv, Stat
  <1>2. /\ pos' = Len(sidecar) /\ gap' = pos + 1 .. Len(sidecar) /\ exporter' = "errors"
        /\ UNCHANGED <<sidecar, next, half, errors, errorsOut, errPos, registry, seen, seenErrors, removed>>
    BY DEF Stat, writer, data
  <1>3. pos \in Nat /\ Len(sidecar) \in Nat /\ DOMAIN sidecar = 1 .. Len(sidecar)
    BY <1>1 DEF TypeOK
  <1>4. TypeOK'
    BY <1>1, <1>2, <1>3 DEF TypeOK, Stat, control, bounds
  <1>5. Ahead'
    BY <1>1, <1>2, <1>3 DEF Ahead
  <1>6. Explained'
    <2>1. ASSUME ~removed, NEW k \in 1 .. Len(sidecar), sidecar[k].part = "whole", Parses(sidecar, k)
          PROVE  seen[sidecar[k].row] > 0 \/ k \in gap'
      <3>1. CASE k \in 1 .. pos
        BY <1>1, <2>1, <3>1 DEF Explained
      <3>2. CASE k \notin 1 .. pos
        BY <1>2, <1>3, <3>2
      <3> QED BY <3>1, <3>2
    <2> QED BY <1>2, <1>3, <2>1 DEF Explained
  <1> QED BY <1>1, <1>2, <1>4, <1>5, <1>6, OrderedKept, SummedKept DEF Inv

\* A poll moves the position only back to the start of a file that shrank.
LEMMA PollStatStep == ASSUME Inv, PollStat PROVE Inv'
  <1>1. TypeOK /\ Ordered /\ Ahead /\ Explained /\ Summed /\ exporter = "up"
    BY DEF Inv, PollStat
  <1>2. /\ pos' = From(pos, Len(sidecar)) /\ exporter' \in {"up", "read"}
        /\ UNCHANGED <<sidecar, next, half, errors, errorsOut, errPos, registry, seen, seenErrors, gap, removed>>
    BY DEF PollStat, writer, data
  <1>3. pos \in Nat /\ Len(sidecar) \in Nat /\ DOMAIN sidecar = 1 .. Len(sidecar)
    BY <1>1 DEF TypeOK
  <1>4. pos' = IF Len(sidecar) < pos THEN 0 ELSE pos
    BY <1>2 DEF From
  <1>5. TypeOK'
    <2>1. pos' \in Nat
      BY <1>3, <1>4
    <2> QED BY <1>1, <1>2, <2>1 DEF TypeOK, PollStat, control, bounds
  <1>6. Ahead'
    BY <1>1, <1>2, <1>3, <1>4 DEF Ahead
  <1>7. Explained'
    BY <1>1, <1>2, <1>3, <1>4 DEF Explained
  <1> QED BY <1>1, <1>2, <1>5, <1>6, <1>7, OrderedKept, SummedKept DEF Inv

-----------------------------------------------------------------------------
(* The error rows. *)

LEMMA ErrorsStep ==
  ASSUME TypeOK, Ordered, Ahead, ErrorsRead, UNCHANGED <<errors, errorsOut>>
  PROVE  /\ errPos' \in Nat /\ seenErrors' \in [1 .. MaxErrors -> Nat]
         /\ \A i \in 1 .. MaxErrors : seenErrors'[i] <= 1 /\ (seenErrors'[i] > 0 => i <= errorsOut)
         /\ \A i \in 1 .. MaxErrors, k \in DOMAIN errors :
              seenErrors'[i] > 0 /\ (k > errPos' \/ errPos' > Len(errors)) => i < errors[k]
  <1>1. /\ errors \in Seq(1 .. MaxErrors) /\ Len(errors) \in Nat /\ DOMAIN errors = 1 .. Len(errors)
        /\ errPos \in Nat /\ seenErrors \in [1 .. MaxErrors -> Nat]
    BY DEF TypeOK
  <1>2. CASE errors = <<>>
    <2>1. UNCHANGED <<errPos, seenErrors>>
      BY <1>2 DEF ErrorsRead
    <2> QED BY <1>1, <2>1 DEF Ahead
  <1>3. CASE errors # <<>>
    <2> DEFINE n == Len(errors)
               from == From(errPos, n)
               m == from + 1
               rows == SubSeq(errors, m, n)
               E == 1 .. MaxErrors
    <2>1. from \in Nat /\ from <= n /\ (from = errPos \/ errPos > n)
      BY <1>1 DEF From
    <2>2. errPos' = n /\ seenErrors' = Counted(seenErrors, rows, DOMAIN rows)
      BY <1>3 DEF ErrorsRead
    <2>3. m \in Int /\ n \in Int /\ m = from + 1 /\ \A i \in m .. n : errors[i] \in E
      <3>1. n \in Int /\ n = Len(errors)
        BY <1>1
      <3>2. \A i \in 1 .. Len(errors) : errors[i] \in E
        <4>1. errors \in Seq(E)
          BY <1>1
        <4> HIDE DEF E
        <4> QED BY <4>1
      <3> HIDE DEF n, from, E
      <3> QED BY <2>1, <3>1, <3>2
    <2>4. \A x \in E : x \in Nat
      OBVIOUS
    <2>5. errors \in Seq(E) /\ seenErrors \in [E -> Nat]
      BY <1>1
    <2> HIDE DEF m, E, from
    <2>6. /\ rows \in Seq(E)
          /\ Len(rows) = IF m <= n THEN n - m + 1 ELSE 0
          /\ \A i \in 1 .. n - m + 1 : rows[i] = errors[m + i - 1]
      BY <2>3, SubSeqProperties
    <2> HIDE DEF rows
    <2>7. /\ Len(rows) = n - from /\ Len(rows) \in Nat /\ DOMAIN rows = 1 .. Len(rows)
          /\ \A i \in DOMAIN rows : rows[i] = errors[from + i]
      <3> HIDE DEF n
      <3>1. n \in Nat
        BY <1>1 DEF n
      <3>2. Len(rows) = n - from /\ Len(rows) \in Nat
        BY <2>1, <2>3, <2>6, <3>1
      <3>3. DOMAIN rows = 1 .. Len(rows)
        BY <2>6
      <3>4. \A i \in 1 .. n - from : rows[i] = errors[m + i - 1] /\ m + i - 1 = from + i
        <4> TAKE i \in 1 .. n - from
        <4>1. n - m + 1 = n - from /\ i \in Nat /\ m + i - 1 = from + i
          BY <2>1, <2>3, <3>1
        <4> QED BY <2>6, <4>1
      <3> QED BY <3>2, <3>3, <3>4
    <2>8. \A i \in DOMAIN rows : /\ from + i \in 1 .. n /\ rows[i] \in E
                                 /\ from + i > errPos \/ errPos > n
      <3> TAKE i \in DOMAIN rows
      <3> DEFINE u == Len(rows)
      <3>1. u \in Nat /\ n \in Nat /\ from \in Nat /\ u = n - from /\ i \in 1 .. u
        BY <1>1, <2>1, <2>7
      <3>2. rows[i] \in E
        BY <2>6
      <3> HIDE DEF u, n
      <3>3. from + i \in 1 .. n /\ from + i > from
        BY <3>1
      <3> QED BY <2>1, <3>2, <3>3
    <2>9. \A j, k \in DOMAIN rows : rows[j] = rows[k] => j = k
      <3> TAKE j, k \in DOMAIN rows
      <3>1. j \in Nat /\ k \in Nat
        BY <2>7
      <3>2. from + j < from + k => rows[j] < rows[k]
        BY <2>7, <2>8, <1>1 DEF Ordered, Rising
      <3>3. from + k < from + j => rows[k] < rows[j]
        BY <2>7, <2>8, <1>1 DEF Ordered, Rising
      <3>4. rows[j] \in Nat /\ rows[k] \in Nat
        BY <2>4, <2>8
      <3> QED BY <2>1, <3>1, <3>2, <3>3, <3>4
    <2>10. IsFiniteSet(DOMAIN rows)
      BY <2>7, FS_Interval
    <2>11. /\ seenErrors' \in [E -> Nat]
           /\ \A i \in E : seenErrors'[i] = IF \E k \in DOMAIN rows : rows[k] = i THEN seenErrors[i] + 1
                                            ELSE seenErrors[i]
      <3> DEFINE lines == DOMAIN rows
      <3>1. IsFiniteSet(lines) /\ \A j, k \in lines : rows[j] = rows[k] => j = k
        BY <2>9, <2>10
      <3>2. seenErrors' = Counted(seenErrors, rows, lines)
        BY <2>2
      <3> HIDE DEF lines
      <3>3. /\ Counted(seenErrors, rows, lines) \in [E -> Nat]
            /\ \A i \in E : Counted(seenErrors, rows, lines)[i] =
                 IF \E k \in lines : rows[k] = i THEN seenErrors[i] + 1 ELSE seenErrors[i]
        BY <2>5, <3>1, CountedRows
      <3> QED BY <3>2, <3>3 DEF lines
    <2>12. ASSUME NEW i \in E PROVE seenErrors'[i] <= 1 /\ (seenErrors'[i] > 0 => i <= errorsOut)
      <3>1. seenErrors[i] \in Nat /\ seenErrors[i] <= 1 /\ (seenErrors[i] > 0 => i <= errorsOut)
        BY <2>5 DEF Ahead, E
      <3>2. CASE \E k \in DOMAIN rows : rows[k] = i
        <4>1. PICK k \in DOMAIN rows : rows[k] = i
          BY <3>2
        <4>2. from + k \in DOMAIN errors /\ errors[from + k] = i /\ (from + k > errPos \/ errPos > n)
          BY <1>1, <2>7, <2>8, <4>1
        <4>3. ~(seenErrors[i] > 0)
          <5>1. seenErrors[i] > 0 => i < errors[from + k]
            BY <4>2 DEF Ahead, E
          <5>2. i \in Nat
            BY <2>4
          <5> QED BY <4>2, <5>1, <5>2
        <4>4. i <= errorsOut
          BY <4>2 DEF Ordered, Rising
        <4>5. seenErrors'[i] = seenErrors[i] + 1
          BY <2>11, <3>2
        <4> QED BY <3>1, <4>3, <4>4, <4>5
      <3>3. CASE ~\E k \in DOMAIN rows : rows[k] = i
        BY <2>11, <3>1, <3>3
      <3> QED BY <3>2, <3>3
    <2> QED BY <1>1, <2>2, <2>11, <2>12 DEF E
  <1> QED BY <1>2, <1>3

LEMMA ErrorReadsStep ==
  ASSUME Inv, ErrorsRead,
         \/ exporter = "errors" /\ exporter' = "bind"
         \/ exporter = "up" /\ exporter' = "up",
         UNCHANGED <<writer, data, pos, registry, seen, control, gap, removed, bounds>>
  PROVE  Inv'
  <1>1. TypeOK /\ Ordered /\ Ahead /\ Explained /\ Summed
    BY DEF Inv
  <1>2. UNCHANGED <<sidecar, next, half, errors, errorsOut, pos, registry, seen, gap, removed>>
    BY DEF writer, data
  <1>3. /\ errPos' \in Nat /\ seenErrors' \in [1 .. MaxErrors -> Nat]
        /\ \A i \in 1 .. MaxErrors : seenErrors'[i] <= 1 /\ (seenErrors'[i] > 0 => i <= errorsOut)
        /\ \A i \in 1 .. MaxErrors, k \in DOMAIN errors :
             seenErrors'[i] > 0 /\ (k > errPos' \/ errPos' > Len(errors)) => i < errors[k]
    BY <1>1, <1>2, ErrorsStep
  <1>4. TypeOK'
    BY <1>1, <1>2, <1>3 DEF TypeOK, control, bounds
  <1>5. Ahead'
    BY <1>1, <1>2, <1>3 DEF Ahead
  <1>6. Explained'
    BY <1>1, <1>2 DEF Explained
  <1> QED BY <1>1, <1>2, <1>4, <1>5, <1>6, OrderedKept, SummedKept DEF Inv

-----------------------------------------------------------------------------
(* Everything else leaves the files and what was read of them. *)

LEMMA BesideStep ==
  ASSUME Inv, UNCHANGED <<writer, data, tail, gap, removed, bounds>>,
         exporter' = exporter \/ exporter' = "down" \/ (exporter = "bind" /\ exporter' = "up"),
         pidFile' \in {"none", "live", "stale"}, argvFile' \in BOOLEAN, lingering' \in BOOLEAN,
         reset' \in {"idle", "term", "wait"}
  PROVE  Inv'
  <1>1. TypeOK /\ Ordered /\ Ahead /\ Explained /\ Summed
    BY DEF Inv
  <1>2. /\ UNCHANGED <<sidecar, next, half, errors, errorsOut, pos, errPos, registry, seen, seenErrors, gap, removed>>
        /\ UNCHANGED <<removals, deaths, launches>>
    BY DEF writer, data, tail, bounds
  <1>3. TypeOK'
    BY <1>1, <1>2 DEF TypeOK
  <1>4. Ahead'
    BY <1>1, <1>2 DEF Ahead
  <1>5. Explained'
    BY <1>1, <1>2 DEF Explained
  <1> QED BY <1>1, <1>2, <1>3, <1>4, <1>5, OrderedKept, SummedKept DEF Inv

LEMMA Step == Inv /\ [Next]_vars => Inv'
  <1> SUFFICES ASSUME Inv, [Next]_vars PROVE Inv'
    OBVIOUS
  <1>0. TypeOK
    BY DEF Inv
  <1>1. CASE UNCHANGED vars
    BY <1>0, <1>1, BesideStep DEF vars, control, TypeOK
  <1>2. CASE Launch
    BY <1>0, <1>2, BeginStep DEF Launch, control, TypeOK
  <1>3. CASE ReplayErrors
    BY <1>3, ErrorReadsStep DEF ReplayErrors
  <1>4. CASE PollErrors
    BY <1>4, ErrorReadsStep DEF PollErrors
  <1>5. CASE Bind
    <2>1. /\ exporter' = "down" \/ (exporter = "bind" /\ exporter' = "up")
          /\ UNCHANGED <<lingering, reset>>
          /\ pidFile' \in {"none", "live", "stale"} /\ argvFile' \in BOOLEAN
      BY <1>0, <1>5 DEF Bind, TypeOK
    <2> QED BY <1>0, <1>5, <2>1, BesideStep DEF Bind, TypeOK
  <1>6. CASE ResetBegin
    BY <1>0, <1>6, BesideStep DEF ResetBegin, TypeOK
  <1>7. CASE Terminate
    BY <1>0, <1>7, BesideStep DEF Terminate, TypeOK
  <1>8. CASE Exits
    BY <1>0, <1>8, BesideStep DEF Exits, TypeOK
  <1>9. CASE Relaunch
    <2>1. CASE argvFile
      BY <1>0, <1>9, <2>1, BeginStep DEF Relaunch
    <2>2. CASE ~argvFile
      BY <1>0, <1>9, <2>2, BesideStep DEF Relaunch, TypeOK, bounds
    <2> QED BY <2>1, <2>2
  <1> QED BY <1>1, <1>2, <1>3, <1>4, <1>5, <1>6, <1>7, <1>8, <1>9, RunStep, ReplayStep, StatStep,
             PollStatStep, PollReadStep DEF Next, Serve

-----------------------------------------------------------------------------
(* The theorems. *)

LEMMA InvHolds == Spec => []Inv
  BY First, Step, PTL DEF Spec

(* TYPE CORRECTNESS of the files, the exporter and the reset.               *)
THEOREM TypeCorrect == Spec => []TypeOK
  <1>1. Inv => TypeOK
    BY DEF Inv
  <1> QED BY <1>1, InvHolds, PTL

(* No row is counted twice in one exporter's life.                          *)
THEOREM CountedOnceHolds == Spec => []CountedOnce
  <1>1. Inv => CountedOnce
    BY DEF Inv, Ahead, TypeOK, CountedOnce
  <1> QED BY <1>1, InvHolds, PTL

(* A line the exporter has passed and not counted is in the gap between the *)
(* replay and the first stat, has two parts, or the file was replaced.      *)
THEOREM MissedExplainedHolds == Spec => []MissedExplained
  <1>1. ASSUME Inv PROVE MissedExplained
    <2> SUFFICES ASSUME exporter \in {"up", "read"}, ~removed, NEW k \in 1 .. pos,
                        Parses(sidecar, k), seen[sidecar[k].row] = 0
                 PROVE  k \in gap \/ sidecar[k].part = "rest"
      BY DEF MissedExplained
    <2>1. sidecar[k].part \in {"whole", "rest"}
      BY DEF Parses
    <2>2. sidecar[k].part = "whole" => seen[sidecar[k].row] > 0 \/ k \in gap
      BY <1>1 DEF Inv, Explained
    <2> QED BY <2>1, <2>2
  <1> QED BY <1>1, InvHolds, PTL

-----------------------------------------------------------------------------
(* What `status' makes of the same file. *)

LinesOf(e) == {k \in Parsed(sidecar) : Script[sidecar[k].row].event = e}

LEMMA FileLines ==
  ASSUME TypeOK, Ordered
  PROVE  /\ Parsed(sidecar) \subseteq 1 .. Len(sidecar) /\ Len(sidecar) \in Nat
         /\ \A k \in Parsed(sidecar) : sidecar[k].row \in DOMAIN Script
         /\ \A j, k \in Parsed(sidecar) : j < k => sidecar[j].row < sidecar[k].row
  <1>1. sidecar \in Seq(Chunk) /\ Len(sidecar) \in Nat /\ DOMAIN sidecar = 1 .. Len(sidecar)
    BY DEF TypeOK
  <1>2. Parsed(sidecar) \subseteq 1 .. Len(sidecar)
    BY <1>1 DEF Parsed
  <1>3. \A k \in Parsed(sidecar) : sidecar[k].row \in DOMAIN Script
    <2>1. \A k \in Parsed(sidecar) : sidecar[k] \in Chunk
      BY <1>1, <1>2
    <2> QED BY <2>1 DEF Chunk
  <1>4. ASSUME NEW j \in Parsed(sidecar), NEW k \in Parsed(sidecar), j < k
        PROVE  sidecar[j].row < sidecar[k].row
    <2>1. sidecar[j].part # "first"
      BY DEF Parsed, Parses
    <2>2. j \in DOMAIN sidecar /\ k \in DOMAIN sidecar
      BY <1>1, <1>2
    <2> QED BY <1>4, <2>1, <2>2 DEF Ordered, Written
  <1> QED BY <1>1, <1>2, <1>3, <1>4

(* The exporter and `status' agree on every file of which the exporter has  *)
(* applied exactly the lines that parse, in however many reads.             *)
THEOREM DashboardAgreesHolds == Spec => []DashboardAgrees
  <1>1. ASSUME Inv PROVE DashboardAgrees
    <2> SUFFICES ASSUME {i \in DOMAIN seen : seen[i] > 0} = Rows(sidecar)
                 PROVE  /\ registry.processed = Collate(sidecar).processed
                        /\ registry.watchdog = Collate(sidecar).watchdog
                        /\ registry.ended = Collate(sidecar).ended
      BY Zenon DEF DashboardAgrees
    <2>1. TypeOK /\ Ordered /\ Summed
      BY <1>1 DEF Inv
    <2>2. /\ Parsed(sidecar) \subseteq 1 .. Len(sidecar) /\ Len(sidecar) \in Nat
          /\ \A k \in Parsed(sidecar) : sidecar[k].row \in DOMAIN Script
          /\ \A j, k \in Parsed(sidecar) : j < k => sidecar[j].row < sidecar[k].row
      BY <2>1, FileLines
    <2>3. \A i \in DOMAIN Script : seen[i] > 0 <=> i \in Rows(sidecar)
      <3>1. DOMAIN seen = DOMAIN Script
        BY <2>1 DEF TypeOK
      <3> QED BY <3>1
    <2>4. \A e : SeenOf(e) = {sidecar[k].row : k \in LinesOf(e)}
      BY <2>2, <2>3 DEF SeenOf, LinesOf, Rows
    <2>5. \A e : LinesOf(e) \subseteq Parsed(sidecar)
      BY DEF LinesOf
    <2>6. DOMAIN Script \subseteq Nat
      BY ScriptType
    <2>7. Collate(sidecar) =
            [processed |-> IF LinesOf("progress") = {} THEN 0
                           ELSE Script[sidecar[Max(LinesOf("progress"))].row].n,
             watchdog  |-> Cardinality(LinesOf("watchdog")),
             ended     |-> LinesOf("end") # {}]
      BY DEF Collate, LinesOf
    <2>8. registry.ended = (LinesOf("end") # {})
      <3>1. registry.ended <=> SeenOf("end") # {}
        BY <2>1 DEF Summed
      <3>2. SeenOf("end") # {} <=> LinesOf("end") # {}
        BY <2>4
      <3>3. registry.ended \in BOOLEAN
        BY <2>1 DEF TypeOK, Registry
      <3> QED BY <3>1, <3>2, <3>3, Zenon
    <2>9. registry.watchdog = Cardinality(LinesOf("watchdog"))
      <3> DEFINE K == LinesOf("watchdog")
                 f == [k \in K |-> sidecar[k].row]
      <3>1. DOMAIN f = K /\ \A k \in K : f[k] = sidecar[k].row
        OBVIOUS
      <3>2. \A j, k \in K : f[j] = f[k] => j = k
        <4> TAKE j, k \in K
        <4>1. j \in Nat /\ k \in Nat /\ sidecar[j].row \in Nat /\ sidecar[k].row \in Nat
          BY <2>2, <2>5, <2>6
        <4>2. (j < k => sidecar[j].row < sidecar[k].row) /\ (k < j => sidecar[k].row < sidecar[j].row)
          BY <2>2, <2>5
        <4> QED BY <3>1, <4>1, <4>2
      <3>3. IsFiniteSet(K)
        <4>0. 1 \in Int /\ Len(sidecar) \in Int
          BY <2>2
        <4>1. IsFiniteSet(1 .. Len(sidecar))
          BY <4>0, FS_Interval
        <4>2. K \subseteq 1 .. Len(sidecar)
          BY <2>2, <2>5
        <4> QED BY <4>1, <4>2, FS_Subset
      <3>4. SeenOf("watchdog") = {} \cup Image(f, K)
        BY <2>4, <3>1 DEF Image
      <3>5. IsFiniteSet({}) /\ Cardinality({}) = 0
        BY FS_EmptySet
      <3> DEFINE S == {}
      <3>6. IsFiniteSet(S) /\ \A k \in K : f[k] \notin S
        BY <3>5
      <3> HIDE DEF K, f, S
      <3>7. Cardinality(S \cup Image(f, K)) = Cardinality(S) + Cardinality(K)
        BY <3>1, <3>2, <3>3, <3>6, AddImage
      <3>8. Cardinality(K) \in Nat
        BY <3>3, FS_CardinalityType
      <3>9. Cardinality(SeenOf("watchdog")) = 0 + Cardinality(K)
        BY <3>4, <3>5, <3>7 DEF S
      <3>10. registry.watchdog = Cardinality(SeenOf("watchdog"))
        BY <2>1 DEF Summed
      <3> QED BY <3>8, <3>9, <3>10 DEF K
    <2>10. registry.processed = IF LinesOf("progress") = {} THEN 0
                                ELSE Script[sidecar[Max(LinesOf("progress"))].row].n
      <3> DEFINE K == LinesOf("progress")
      <3>1. \/ SeenOf("progress") = {} /\ registry.processed = 0
            \/ \E i \in SeenOf("progress") :
                 registry.processed = Script[i].n /\ \A j \in SeenOf("progress") : j <= i
        BY <2>1 DEF Summed
      <3>2. CASE K = {}
        <4>1. SeenOf("progress") = {}
          BY <2>4, <3>2
        <4> QED BY <3>1, <3>2, <4>1
      <3>3. CASE K # {}
        <4>1. SeenOf("progress") # {}
          BY <2>4, <3>3
        <4>2. PICK i \in SeenOf("progress") :
                registry.processed = Script[i].n /\ \A j \in SeenOf("progress") : j <= i
          BY <3>1, <4>1
        <4>3. PICK k \in K : i = sidecar[k].row
          BY <2>4
        <4>4. ASSUME NEW j \in K PROVE j <= k
          <5>1. sidecar[j].row <= i
            BY <2>4, <4>2
          <5>2. j \in Nat /\ k \in Nat /\ sidecar[j].row \in Nat /\ i \in Nat
            BY <2>2, <2>5, <2>6, <4>3
          <5>3. k < j => i < sidecar[j].row
            BY <2>2, <2>5, <4>3
          <5> QED BY <5>1, <5>2, <5>3
        <4>5. K \subseteq Nat
          BY <2>2, <2>5
        <4> HIDE DEF K
        <4>6. Max(K) = k
          BY <4>4, <4>5, GreatestIsMax
        <4> QED BY <3>3, <4>2, <4>3, <4>6 DEF K
      <3> QED BY <3>2, <3>3
    <2> HIDE DEF LinesOf
    <2> QED BY <2>7, <2>8, <2>9, <2>10
  <1> QED BY <1>1, InvHolds, PTL
=============================================================================
