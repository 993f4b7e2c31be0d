------------------------------ MODULE MarcDiff ------------------------------
(* marc_roundtrip/diff.py: the fields of an original record paired with    *)
(* those of the reconstructed one, and what became of each.  A record is   *)
(* [controls, fields], sequences of [tag, value] and of [tag, ind, subs,   *)
(* src, bypass].  A pair is [orig, recon], indices into the two sequences, *)
(* 0 for none.                                                             *)
EXTENDS Naturals, Sequences, FiniteSets, SequencesExt, FiniteSetsExt

\* ind and subs of an original field; it has no lineage and no bypass marker.
Original(tag, ind, subs) == [tag |-> tag, ind |-> ind, subs |-> subs, src |-> {}, bypass |-> FALSE]

\* The place of i among the members of a set of numbers, in order.
Place(S, i) == Cardinality({k \in S : k <= i})
FieldsWith(fields, tag) == {i \in DOMAIN fields : fields[i].tag = tag}
Rank(fields, i) == Place(FieldsWith(fields, fields[i].tag), i)
Subfields(f, code) == SelectSeq(f.subs, LAMBDA s : s[1] = code)
First(f, code) == IF Subfields(f, code) = <<>> THEN {} ELSE {Subfields(f, code)[1][2]}
\* A reconstructed field without the marker of the reconstruction.
Stripped(f) == [f EXCEPT !.subs = SelectSeq(@, LAMBDA s : s[2] # "FI-HELME/bffi-roundtrip")]
Pair(o, r) == [orig |-> o, recon |-> r]

-----------------------------------------------------------------------------
(* Control fields: by tag, the last one of a tag standing for all.         *)

LastWith(controls, tag) ==
  IF FieldsWith(controls, tag) = {} THEN 0 ELSE Max(FieldsWith(controls, tag))
ControlPairs(orig, recon) ==
  {Pair(LastWith(orig, tag), LastWith(recon, tag)) :
     tag \in {orig[i].tag : i \in DOMAIN orig} \cup {recon[i].tag : i \in DOMAIN recon}}

-----------------------------------------------------------------------------
(* Data fields: by lineage, what is left by tag.                           *)

\* The original field a token names: the record it is of is not looked at.
NamedBy(orig, f) ==
  {i \in DOMAIN orig : \E t \in f.src : orig[i].tag = t.tag /\ Rank(orig, i) = t.ord}

\* Every field that names it.
LineagePairsAll(orig, recon) ==
  {Pair(x[1], x[2]) : x \in {x \in (DOMAIN orig) \X (DOMAIN recon) : x[1] \in NamedBy(orig, recon[x[2]])}}

\* The first reconstructed field that names an original field has it.
LineagePairs(orig, recon) ==
  {Pair(x[1], x[2]) : x \in {x \in (DOMAIN orig) \X (DOMAIN recon) :
                              /\ x[1] \in NamedBy(orig, recon[x[2]])
                              /\ \A e \in 1..x[2] - 1 : x[1] \notin NamedBy(orig, recon[e])}}

\* The fields of S whose first $a is a.
Beginning(fields, S, a) == {i \in S : First(fields[i], "a") = a}

\* Equal $a first, each original in turn taking the first field left: the nth
\* original of an $a takes the nth reconstructed one.
SameTitlePairs(orig, recon, os, rs) ==
  {Pair(x[1], x[2]) : x \in {x \in os \X rs :
     LET a == First(orig[x[1]], "a")
     IN a # {} /\ First(recon[x[2]], "a") = a
        /\ Place(Beginning(orig, os, a), x[1]) = Place(Beginning(recon, rs, a), x[2])}}

\* Then in order, and what is left over alone.
LeftoverPairs(os, rs) ==
  LET places == {Place(os, i) : i \in os} \cup {Place(rs, i) : i \in rs}
      at(S, n) == IF \E i \in S : Place(S, i) = n THEN CHOOSE i \in S : Place(S, i) = n ELSE 0
  IN {Pair(at(os, n), at(rs, n)) : n \in places}

BucketPairs(orig, recon, os, rs) ==
  LET same == SameTitlePairs(orig, recon, os, rs)
  IN same \cup LeftoverPairs(os \ {p.orig : p \in same}, rs \ {p.recon : p \in same})

DataPairs(orig, recon) ==
  LET named == LineagePairs(orig, recon)
      os == DOMAIN orig \ {p.orig : p \in named}
      rs == DOMAIN recon \ {p.recon : p \in named}
      tags == {orig[i].tag : i \in os} \cup {recon[i].tag : i \in rs}
  IN named \cup UNION {BucketPairs(orig, recon, os \cap FieldsWith(orig, tag), rs \cap FieldsWith(recon, tag)) :
                         tag \in tags}

-----------------------------------------------------------------------------
(* What became of a field.                                                 *)

LanguageReconciled(o, r) ==
  LET rest(f) == SelectSeq(f.subs, LAMBDA s : s[1] # "a")
  IN /\ First(o, "0") # {} /\ First(o, "0") = First(r, "0")
     /\ First(o, "a") # {} /\ First(r, "a") # {} /\ First(o, "a") # First(r, "a")
     /\ rest(o) = rest(r)

Unpaired(tag, orig, skipped) ==
  IF orig = 0 THEN "added" ELSE IF tag \in skipped THEN "lost-converter-gap" ELSE "lost"

DataStatus(o, r) ==
  IF o.tag # r.tag THEN "tag-changed"
  ELSE IF r.bypass THEN "marckey-bypass"
  ELSE IF o.subs = r.subs THEN "identical"
  ELSE IF LanguageReconciled(o, r) THEN "language-reconciled" ELSE "changed"

ControlStatus(o, r) == IF o.value = r.value THEN "identical" ELSE "changed"

\* [tag, status, orig, recon, control] of every pair.
Diff(original, recon, skipped) ==
  LET fields == [i \in DOMAIN recon.fields |-> Stripped(recon.fields[i])]
      entry(p, os, rs, status(_, _), control) ==
        [tag |-> IF p.orig = 0 THEN rs[p.recon].tag ELSE os[p.orig].tag, orig |-> p.orig, recon |-> p.recon,
         control |-> control,
         status |-> IF 0 \in {p.orig, p.recon}
                    THEN Unpaired(IF p.orig = 0 THEN rs[p.recon].tag ELSE os[p.orig].tag, p.orig, skipped)
                    ELSE status(os[p.orig], rs[p.recon])]
  IN {entry(p, original.controls, recon.controls, ControlStatus, TRUE) :
        p \in ControlPairs(original.controls, recon.controls)}
     \cup {entry(p, original.fields, fields, DataStatus, FALSE) : p \in DataPairs(original.fields, fields)}

Statuses == {"identical", "lost", "added", "changed", "lost-converter-gap", "tag-changed", "marckey-bypass",
             "language-reconciled"}
Summary(diff) == [s \in Statuses |-> Cardinality({d \in diff : d.status = s})]
=============================================================================
