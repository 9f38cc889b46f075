--------------------------- MODULE SubmissionProofs ---------------------------
(***************************************************************************)
(* Proofs about Submission, for all titles, pages and settings and any     *)
(* number of attempts: which calls a node makes, what a finished node has  *)
(* left with the product, and that only notes account for a missing row.   *)
(***************************************************************************)
EXTENDS Submission, SequenceTheorems, WellFoundedInduction, TLAPS

-----------------------------------------------------------------------------
(* Numbers and sequences.                                                   *)

\* Induction, with the property as a set of numbers.
LEMMA NatInductionOverSet ==
  ASSUME NEW S, 0 \in S, \A n \in Nat : n \in S => n + 1 \in S
  PROVE  Nat \subseteq S
  <1> SUFFICES ASSUME Nat \ S # {} PROVE FALSE
    OBVIOUS
  <1>1. PICK m \in Nat \ S : \A k \in Nat \ S : <<k, m>> \notin OpToRel(<, Nat)
    BY NatLessThanWellFounded, WFMin
  <1>2. \A k \in Nat : k < m => k \in S
    BY <1>1 DEF OpToRel
  <1>3. m \in Nat /\ m # 0
    OBVIOUS
  <1>4. m - 1 \in S /\ (m - 1) + 1 = m
    <2>1. m - 1 \in Nat /\ m - 1 < m /\ (m - 1) + 1 = m
      BY <1>3
    <2> QED
      BY <1>2, <2>1
  <1>5. m \in S
    BY <1>3, <1>4
  <1> QED
    BY <1>1, <1>5

LEMMA SameLength ==
  ASSUME NEW a \in Nat, NEW b \in Nat, 1 .. a = 1 .. b
  PROVE  a = b
  <1>1. \A x \in Nat : x \in 1 .. a <=> x \in 1 .. b
    OBVIOUS
  <1>2. a # 0 => a <= b
    BY <1>1
  <1>3. b # 0 => b <= a
    BY <1>1
  <1> QED
    BY <1>2, <1>3

\* A set of positions has a last one.
LEMMA LastOf ==
  ASSUME NEW n \in Nat, NEW T \in SUBSET (1 .. n), T # {}
  PROVE  \E m \in T : \A k \in T : k <= m
  <1> DEFINE S == {b \in Nat : \A x \in T : x + b <= n}
  <1> SUFFICES ASSUME \A m \in T : \E k \in T : k > m
               PROVE  FALSE
    OBVIOUS
  <1>1. 0 \in S
    OBVIOUS
  <1>2. ASSUME NEW b \in Nat, b \in S
        PROVE  b + 1 \in S
    <2>1. ASSUME NEW x \in T
          PROVE  x + (b + 1) <= n
      <3>1. PICK y \in T : y > x
        OBVIOUS
      <3>2. y + b <= n
        BY <1>2
      <3> QED
        BY <3>1, <3>2
    <2> QED
      BY <2>1
  <1>3. n + 1 \in S
    <2> HIDE DEF S
    <2>1. Nat \subseteq S
      BY <1>1, <1>2, NatInductionOverSet
    <2> QED
      BY <2>1
  <1>4. PICK x \in T : TRUE
    OBVIOUS
  <1> QED
    BY <1>3, <1>4

\* The recursion of FlattenSeq over the first n sequences.
Flattens(f, seqs, n) ==
  f = [i \in 1 .. n |-> IF i = 1 THEN seqs[i] ELSE f[i - 1] \o seqs[i]]

LEMMA FlattenExists ==
  ASSUME NEW seqs, NEW n \in Nat
  PROVE  \E f : Flattens(f, seqs, n)
  <1> DEFINE S == {k \in Nat : \E f : Flattens(f, seqs, k)}
  <1>1. 0 \in S
    <2> DEFINE f == [i \in 1 .. 0 |-> << >>]
    <2>1. f = [i \in 1 .. 0 |-> IF i = 1 THEN seqs[i] ELSE f[i - 1] \o seqs[i]]
      OBVIOUS
    <2> QED
      BY <2>1 DEF Flattens
  <1>2. ASSUME NEW k \in Nat, k \in S
        PROVE  k + 1 \in S
    <2>1. PICK f : Flattens(f, seqs, k)
      BY <1>2
    <2> DEFINE g == [i \in 1 .. k + 1 |->
                       IF i = 1 THEN seqs[i] ELSE f[i - 1] \o seqs[i]]
    <2>2. ASSUME NEW i \in 1 .. k + 1, i # 1
          PROVE  g[i - 1] = f[i - 1]
      <3>1. i - 1 \in 1 .. k /\ i - 1 \in 1 .. k + 1
        BY <2>2
      <3>2. f[i - 1] = IF i - 1 = 1 THEN seqs[i - 1] ELSE f[(i - 1) - 1] \o seqs[i - 1]
        BY <2>1, <3>1 DEF Flattens
      <3> QED
        BY <3>1, <3>2
    <2>3. g = [i \in 1 .. k + 1 |-> IF i = 1 THEN seqs[i] ELSE g[i - 1] \o seqs[i]]
      <3> HIDE DEF g
      <3>1. g = [i \in 1 .. k + 1 |-> IF i = 1 THEN seqs[i] ELSE f[i - 1] \o seqs[i]]
        BY DEF g
      <3> QED
        BY <2>2, <3>1
    <2> HIDE DEF g
    <2>4. \E h : Flattens(h, seqs, k + 1)
      BY <2>3 DEF Flattens
    <2> QED
      BY <2>4
  <1>3. Nat \subseteq S
    <2> HIDE DEF S
    <2> QED
      BY <1>1, <1>2, NatInductionOverSet
  <1> QED
    BY <1>3

\* FlattenSeq, one sequence after another.
LEMMA FlattenTurns ==
  ASSUME NEW R, NEW seqs \in Seq(Seq(R))
  PROVE  \E part : /\ part[0] = << >>
                   /\ \A k \in 1 .. Len(seqs) : part[k] = part[k - 1] \o seqs[k]
                   /\ FlattenSeq(seqs) = part[Len(seqs)]
  <1> DEFINE n == Len(seqs)
             f == CHOOSE g : Flattens(g, seqs, n)
             part == [k \in 0 .. n |-> IF k = 0 THEN << >> ELSE f[k]]
  <1>0. n \in Nat /\ (n = 0 => seqs = << >>)
    BY EmptySeq
  <1>1. Flattens(f, seqs, n)
    BY <1>0, FlattenExists
  <1>2. n # 0 => FlattenSeq(seqs) = f[n]
    BY DEF FlattenSeq, Flattens
  <1>3. n = 0 => FlattenSeq(seqs) = << >>
    BY <1>0 DEF FlattenSeq
  <1> HIDE DEF f
  <1>4. ASSUME NEW k \in 1 .. n
        PROVE  part[k] = part[k - 1] \o seqs[k]
    <2>1. f[k] = IF k = 1 THEN seqs[k] ELSE f[k - 1] \o seqs[k]
      BY <1>1 DEF Flattens
    <2>2. seqs[k] \in Seq(R)
      BY ElementOfSeq
    <2>3. << >> \o seqs[k] = seqs[k]
      BY <2>2, ConcatEmptySeq
    <2>4. CASE k = 1
      BY <1>0, <2>1, <2>3, <2>4
    <2>5. CASE k # 1
      <3>1. k - 1 \in 0 .. n /\ k - 1 # 0 /\ k \in 0 .. n /\ k # 0
        BY <1>0, <2>5
      <3> QED
        BY <2>1, <2>5, <3>1
    <2> QED
      BY <2>4, <2>5
  <1>5. part[0] = << >> /\ FlattenSeq(seqs) = part[n]
    BY <1>0, <1>2, <1>3
  <1> HIDE DEF part
  <1> QED
    BY <1>4, <1>5

-----------------------------------------------------------------------------
(* Which calls the node makes, and in which order.                          *)

Ops(c) ==
  {op \in {"attach_evidence", "record_run", "request_review"} :
     /\ op = "attach_evidence" => c.evidence
     /\ op = "record_run" => c.outcome # None
     /\ op = "request_review" => ~shadow_mode /\ c.outcome \in REVIEW_ON}

\* The calls one candidate is due.
Due(cs, i) ==
  {[op |-> op, id |-> cs[i].discovery_id, of |-> i] :
     op \in {o \in Ops(cs[i]) : cs[i].discovery_id # None}}

LEMMA Optional ==
  ASSUME NEW R, NEW r \in R, NEW b \in BOOLEAN
  PROVE  /\ (IF b THEN <<r>> ELSE << >>) \in Seq(R)
         /\ Range(IF b THEN <<r>> ELSE << >>) = IF b THEN {r} ELSE {}
  BY DEF Range

LEMMA IdentifiedType ==
  ASSUME NEW cs \in Seq(Identified), NEW i \in DOMAIN cs
  PROVE  /\ cs[i].discovery_id \in Discoveries \cup {None}
         /\ cs[i].title \in Titles \cup {None} /\ cs[i].evidence \in BOOLEAN
         /\ i \in Nat \ {0}
  <1>1. DOMAIN cs = 1 .. Len(cs) /\ Len(cs) \in Nat
    BY LenProperties
  <1>2. cs[i] \in Identified
    BY <1>1, ElementOfSeq
  <1> QED
    BY <1>1, <1>2 DEF Identified

LEMMA ThreeRanges ==
  ASSUME NEW R, NEW s \in Seq(R), NEW t \in Seq(R), NEW u \in Seq(R)
  PROVE  Range((s \o t) \o u) = (Range(s) \cup Range(t)) \cup Range(u)
  <1>1. PICK st : st = s \o t
    OBVIOUS
  <1>2. st \in Seq(R) /\ Range(st) = Range(s) \cup Range(t)
    BY <1>1, ConcatProperties, RangeConcatenation
  <1>3. Range(st \o u) = Range(st) \cup Range(u)
    BY <1>2, RangeConcatenation
  <1> QED
    BY <1>1, <1>2, <1>3

LEMMA CallsForDue ==
  ASSUME NEW cs \in Seq(Identified), NEW i \in DOMAIN cs
  PROVE  CallsFor(cs, i) \in Seq(Requests) /\ Range(CallsFor(cs, i)) = Due(cs, i)
  <1> DEFINE id == cs[i].discovery_id
             call(op) == [op |-> op, id |-> id, of |-> i]
             e == cs[i].evidence
             o == (cs[i].outcome # None)
             r == (~shadow_mode /\ cs[i].outcome \in REVIEW_ON)
  <1>1. \A op \in {"attach_evidence", "record_run", "request_review"} :
          call(op) \in Requests
    BY IdentifiedType DEF Requests
  <1>2. CASE id = None
    <2>1. CallsFor(cs, i) = << >>
      BY <1>2 DEF CallsFor
    <2>2. Due(cs, i) = {}
      BY <1>2 DEF Due
    <2> QED
      BY <2>1, <2>2 DEF Range
  <1>3. CASE id # None
    <2>1. /\ Attach(cs, i) \in Seq(Requests)
          /\ Range(Attach(cs, i)) = IF e THEN {call("attach_evidence")} ELSE {}
      BY <1>1, Optional, IdentifiedType DEF Attach
    <2>2. /\ RecordCandidateRun(cs, i) \in Seq(Requests)
          /\ Range(RecordCandidateRun(cs, i)) = IF o THEN {call("record_run")} ELSE {}
      BY <1>1, Optional DEF RecordCandidateRun
    <2>3. /\ RequestReview(cs, i) \in Seq(Requests)
          /\ Range(RequestReview(cs, i)) = IF r THEN {call("request_review")} ELSE {}
      BY <1>1, Optional DEF RequestReview
    <2>4. CallsFor(cs, i) = (Attach(cs, i) \o RecordCandidateRun(cs, i)) \o RequestReview(cs, i)
      BY <1>3 DEF CallsFor
    <2>5. Attach(cs, i) \o RecordCandidateRun(cs, i) \in Seq(Requests)
      BY <2>1, <2>2, ConcatProperties
    <2>6. CallsFor(cs, i) \in Seq(Requests)
      BY <2>3, <2>4, <2>5, ConcatProperties
    <2>7. Range(CallsFor(cs, i)) =
            (Range(Attach(cs, i)) \cup Range(RecordCandidateRun(cs, i))) \cup Range(RequestReview(cs, i))
      BY <2>1, <2>2, <2>3, <2>4, ThreeRanges
    <2>8. Due(cs, i) = {call(op) : op \in Ops(cs[i])}
      BY <1>3 DEF Due
    <2>9. Ops(cs[i]) = (IF e THEN {"attach_evidence"} ELSE {}) \cup
                       (IF o THEN {"record_run"} ELSE {}) \cup
                       (IF r THEN {"request_review"} ELSE {})
      <3>1. \A op : op \in Ops(cs[i]) <=>
                     \/ op = "attach_evidence" /\ e
                     \/ op = "record_run" /\ o
                     \/ op = "request_review" /\ r
        BY DEF Ops
      <3> HIDE DEF e, o, r
      <3> QED
        BY <3>1
    <2>10. Due(cs, i) = (IF e THEN {call("attach_evidence")} ELSE {}) \cup
                        (IF o THEN {call("record_run")} ELSE {}) \cup
                        (IF r THEN {call("request_review")} ELSE {})
      <3> HIDE DEF e, o, r, call
      <3> QED
        BY <2>8, <2>9
    <2> HIDE DEF e, o, r, call
    <2> QED
      BY <2>1, <2>2, <2>3, <2>6, <2>7, <2>10
  <1> QED
    BY <1>2, <1>3

\* What is true of a part of the calls: the first k candidates', in order.
Covers(calls, cs, k) ==
  /\ calls \in Seq(Requests)
  /\ \A p \in 1 .. Len(calls) : \E i \in 1 .. k : calls[p] \in Due(cs, i)
  /\ \A i \in 1 .. k : \A c \in Due(cs, i) : \E p \in 1 .. Len(calls) : calls[p] = c
  /\ \A p, q \in 1 .. Len(calls) : p <= q => calls[p].of <= calls[q].of

LEMMA CoversNext ==
  ASSUME NEW cs \in Seq(Identified), NEW k \in Nat, k + 1 \in DOMAIN cs,
         NEW calls, Covers(calls, cs, k)
  PROVE  Covers(calls \o CallsFor(cs, k + 1), cs, k + 1)
  <1> DEFINE new == CallsFor(cs, k + 1)
             all == calls \o new
  <1>1. new \in Seq(Requests) /\ Range(new) = Due(cs, k + 1)
    BY CallsForDue
  <1>2. calls \in Seq(Requests) /\ Len(calls) \in Nat /\ Len(new) \in Nat
    BY <1>1, LenProperties DEF Covers
  <1>3. /\ all \in Seq(Requests)
        /\ Len(all) = Len(calls) + Len(new)
        /\ \A p \in 1 .. Len(all) :
             all[p] = IF p <= Len(calls) THEN calls[p] ELSE new[p - Len(calls)]
    BY <1>1, <1>2, ConcatProperties
  <1>4. Due(cs, k + 1) = {new[p] : p \in 1 .. Len(new)}
    BY <1>1, RangeEquality
  <1> HIDE DEF new, all
  <1>5. ASSUME NEW p \in 1 .. Len(all)
        PROVE  \/ p \in 1 .. Len(calls) /\ all[p] = calls[p]
               \/ p > Len(calls) /\ all[p] \in Due(cs, k + 1)
    <2>1. CASE p <= Len(calls)
      BY <1>2, <1>3, <2>1
    <2>2. CASE p > Len(calls)
      <3>1. p - Len(calls) \in 1 .. Len(new) /\ all[p] = new[p - Len(calls)]
        BY <1>2, <1>3, <2>2
      <3> QED
        BY <1>4, <2>2, <3>1
    <2> QED
      BY <1>2, <2>1, <2>2
  <1>6. \A p \in 1 .. Len(all) : \E i \in 1 .. k + 1 : all[p] \in Due(cs, i)
    <2> SUFFICES ASSUME NEW p \in 1 .. Len(all)
                 PROVE  \E i \in 1 .. k + 1 : all[p] \in Due(cs, i)
      OBVIOUS
    <2>1. CASE p \in 1 .. Len(calls) /\ all[p] = calls[p]
      <3>1. PICK i \in 1 .. k : calls[p] \in Due(cs, i)
        BY <2>1 DEF Covers
      <3>2. i \in 1 .. k + 1
        OBVIOUS
      <3> QED
        BY <2>1, <3>1, <3>2
    <2>2. CASE all[p] \in Due(cs, k + 1)
      <3>1. k + 1 \in 1 .. k + 1
        OBVIOUS
      <3> QED
        BY <2>2, <3>1
    <2> QED
      BY <1>5, <2>1, <2>2
  <1>7. ASSUME NEW i \in 1 .. k + 1, NEW c \in Due(cs, i)
        PROVE  \E p \in 1 .. Len(all) : all[p] = c
    <2>1. CASE i \in 1 .. k
      <3>1. PICK p \in 1 .. Len(calls) : calls[p] = c
        BY <2>1 DEF Covers
      <3>2. p \in 1 .. Len(all) /\ all[p] = c
        BY <1>2, <1>3, <3>1
      <3> QED
        BY <3>2
    <2>2. CASE i = k + 1
      <3>1. PICK p \in 1 .. Len(new) : new[p] = c
        BY <1>4, <2>2
      <3>2. PICK q : q = Len(calls) + p
        OBVIOUS
      <3>3. q \in 1 .. Len(all) /\ ~(q <= Len(calls)) /\ q - Len(calls) = p
        BY <1>2, <1>3, <3>2
      <3>4. all[q] = c
        BY <1>3, <3>1, <3>3
      <3> QED
        BY <3>3, <3>4
    <2> QED
      BY <2>1, <2>2
  <1>8. ASSUME NEW p \in 1 .. Len(all), NEW q \in 1 .. Len(all), p <= q
        PROVE  all[p].of <= all[q].of
    <2>1. \A i : \A c \in Due(cs, i) : c.of = i
      BY DEF Due
    <2>2. CASE q \in 1 .. Len(calls) /\ all[q] = calls[q]
      <3>1. p \in 1 .. Len(calls) /\ all[p] = calls[p]
        BY <1>2, <1>5, <1>8, <2>2
      <3> QED
        BY <1>8, <2>2, <3>1 DEF Covers
    <2>3. CASE all[q] \in Due(cs, k + 1)
      <3>1. all[q].of = k + 1
        BY <2>1, <2>3
      <3>2. PICK i \in 1 .. k + 1 : all[p] \in Due(cs, i)
        BY <1>6
      <3>3. all[p].of = i
        BY <2>1, <3>2
      <3> QED
        BY <3>1, <3>3
    <2> QED
      BY <1>5, <2>2, <2>3
  <1> QED
    BY <1>3, <1>6, <1>7, <1>8 DEF Covers, all, new

LEMMA CoversNone ==
  ASSUME NEW cs
  PROVE  Covers(<< >>, cs, 0)
  BY EmptySeq DEF Covers

\* The calls of the node: what every candidate is due, in the candidates'
\* order, and the parent's run last.
LEMMA CallsShape ==
  ASSUME NEW cs \in Seq(Identified)
  PROVE  /\ Calls(cs) \in Seq(Requests) /\ Len(Calls(cs)) \in Nat \ {0}
         /\ Calls(cs)[Len(Calls(cs))] = RecordParentRun
         /\ \A p \in 1 .. Len(Calls(cs)) : p # Len(Calls(cs)) =>
              \E i \in DOMAIN cs : Calls(cs)[p] \in Due(cs, i)
         /\ \A i \in DOMAIN cs : \A c \in Due(cs, i) :
              \E p \in 1 .. Len(Calls(cs)) : p # Len(Calls(cs)) /\ Calls(cs)[p] = c
         /\ \A p, q \in 1 .. Len(Calls(cs)) :
              p <= q /\ q # Len(Calls(cs)) => Calls(cs)[p].of <= Calls(cs)[q].of
  <1>1. Len(cs) \in Nat /\ DOMAIN cs = 1 .. Len(cs)
    BY LenProperties
  <1>2. PICK seqs : seqs = [i \in DOMAIN cs |-> CallsFor(cs, i)]
    OBVIOUS
  <1>3. seqs \in [1 .. Len(cs) -> Seq(Requests)]
    BY <1>1, <1>2, CallsForDue
  <1>4. seqs \in Seq(Seq(Requests)) /\ Len(seqs) = Len(cs)
    <2>1. seqs \in Seq(Seq(Requests))
      BY <1>1, <1>3, SeqDef
    <2>2. DOMAIN seqs = 1 .. Len(seqs) /\ DOMAIN seqs = 1 .. Len(cs) /\ Len(seqs) \in Nat
      BY <1>3, <2>1, LenProperties
    <2>3. 1 .. Len(seqs) = 1 .. Len(cs)
      BY <2>2
    <2>4. Len(seqs) = Len(cs)
      BY <1>1, <2>2, <2>3, SameLength
    <2> QED
      BY <2>1, <2>4
  <1>5. PICK part :
          /\ part[0] = << >>
          /\ \A k \in 1 .. Len(seqs) : part[k] = part[k - 1] \o seqs[k]
          /\ FlattenSeq(seqs) = part[Len(seqs)]
    BY <1>4, FlattenTurns
  <1> DEFINE S == {k \in Nat : k <= Len(cs) => Covers(part[k], cs, k)}
  <1>6. 0 \in S
    BY <1>5, CoversNone
  <1>7. ASSUME NEW k \in Nat, k \in S
        PROVE  k + 1 \in S
    <2> SUFFICES ASSUME k + 1 <= Len(cs)
                 PROVE  Covers(part[k + 1], cs, k + 1)
      OBVIOUS
    <2>1. Covers(part[k], cs, k)
      BY <1>1, <1>7
    <2>2. k + 1 \in DOMAIN cs /\ k + 1 \in 1 .. Len(seqs) /\ (k + 1) - 1 = k
      BY <1>1, <1>4
    <2>3. part[k + 1] = part[k] \o seqs[k + 1] /\ seqs[k + 1] = CallsFor(cs, k + 1)
      BY <1>2, <1>5, <2>2
    <2> QED
      BY <2>1, <2>2, <2>3, CoversNext
  <1>8. Covers(part[Len(cs)], cs, Len(cs))
    <2>1. Nat \subseteq S
      <3> HIDE DEF S
      <3> QED
        BY <1>6, <1>7, NatInductionOverSet
    <2>2. Len(cs) \in S
      BY <1>1, <2>1
    <2> QED
      BY <1>1, <2>2
  <1>9. PICK flat : flat = FlattenSeq(seqs)
    OBVIOUS
  <1>10. Calls(cs) = Append(flat, RecordParentRun) /\ Covers(flat, cs, Len(cs))
    BY <1>2, <1>4, <1>5, <1>8, <1>9 DEF Calls
  <1>11. PICK calls : calls = Calls(cs)
    OBVIOUS
  <1>12. RecordParentRun \in Requests
    BY DEF RecordParentRun, Requests, Discoveries
  <1>13. flat \in Seq(Requests) /\ Len(flat) \in Nat
    BY <1>10, LenProperties DEF Covers
  <1>14. /\ calls \in Seq(Requests)
         /\ Len(calls) = Len(flat) + 1
         /\ \A p \in 1 .. Len(flat) : calls[p] = flat[p]
         /\ calls[Len(flat) + 1] = RecordParentRun
    BY <1>10, <1>11, <1>12, <1>13, AppendProperties
  <1>15. \A p \in 1 .. Len(calls) : p # Len(calls) => p \in 1 .. Len(flat)
    BY <1>13, <1>14
  <1>16. \A p \in 1 .. Len(flat) : p \in 1 .. Len(calls) /\ p # Len(calls)
    BY <1>13, <1>14
  <1>17. \A p, q \in 1 .. Len(calls) :
           p <= q /\ q # Len(calls) => p \in 1 .. Len(flat) /\ q \in 1 .. Len(flat)
    BY <1>13, <1>14
  <1>18. \A p, q \in 1 .. Len(calls) :
           p <= q /\ q # Len(calls) => calls[p].of <= calls[q].of
    BY <1>10, <1>14, <1>17 DEF Covers
  <1>19. \A p \in 1 .. Len(calls) : p # Len(calls) =>
           \E i \in DOMAIN cs : calls[p] \in Due(cs, i)
    BY <1>1, <1>10, <1>14, <1>15 DEF Covers
  <1>20. \A i \in DOMAIN cs : \A c \in Due(cs, i) :
           \E p \in 1 .. Len(calls) : p # Len(calls) /\ calls[p] = c
    <2> SUFFICES ASSUME NEW i \in DOMAIN cs, NEW c \in Due(cs, i)
                 PROVE  \E p \in 1 .. Len(calls) : p # Len(calls) /\ calls[p] = c
      OBVIOUS
    <2>1. PICK p \in 1 .. Len(flat) : flat[p] = c
      BY <1>1, <1>10 DEF Covers
    <2> QED
      BY <1>14, <1>16, <2>1
  <1>21. Len(calls) \in Nat \ {0}
    BY <1>13, <1>14
  <1> QED
    BY <1>11, <1>14, <1>18, <1>19, <1>20, <1>21

\* Every call but the first is for a candidate with an id, or is the parent's.
LEMMA CallAt ==
  ASSUME NEW cs \in Seq(Identified), NEW p \in 1 .. Len(Calls(cs))
  PROVE  LET c == Calls(cs)[p] IN
         /\ c \in Requests /\ c # submit_candidates
         /\ c = RecordParentRun <=> p = Len(Calls(cs))
         /\ c # RecordParentRun =>
              /\ c.of \in DOMAIN cs
              /\ c.id = cs[c.of].discovery_id /\ c.id # None
              /\ c.op \in Ops(cs[c.of])
  <1>1. PICK c : c = Calls(cs)[p]
    OBVIOUS
  <1>2. c \in Requests
    BY <1>1, CallsShape, ElementOfSeq
  <1>3. CASE p = Len(Calls(cs))
    <2>1. c = RecordParentRun /\ c # submit_candidates
      BY <1>1, <1>3, CallsShape DEF RecordParentRun, submit_candidates
    <2> QED
      BY <1>1, <1>2, <1>3, <2>1
  <1>4. CASE p # Len(Calls(cs))
    <2>1. PICK i \in DOMAIN cs : c \in Due(cs, i)
      BY <1>1, <1>4, CallsShape
    <2>2. PICK op \in Ops(cs[i]) :
            /\ cs[i].discovery_id # None
            /\ c = [op |-> op, id |-> cs[i].discovery_id, of |-> i]
      BY <2>1 DEF Due
    <2>3. i \in Nat \ {0}
      BY IdentifiedType
    <2>4. c # RecordParentRun /\ c # submit_candidates
      BY <2>2, <2>3 DEF RecordParentRun, submit_candidates
    <2>5. c.of = i /\ c.op = op /\ c.id = cs[i].discovery_id
      BY <2>2
    <2> QED
      BY <1>1, <1>2, <1>4, <2>2, <2>4, <2>5
  <1> QED
    BY <1>3, <1>4

-----------------------------------------------------------------------------
(* Who a candidate's rows belong to.                                        *)

LEMMA PageType ==
  ASSUME Types
  PROVE  /\ page \in Seq(Identified)
         /\ \A i \in DOMAIN page : page[i].discovery_id \in {Parent, None}
         /\ Len(page) \in Nat /\ DOMAIN page = 1 .. Len(page)
  <1>1. page \in Seq(Candidate)
    BY SubmissionAssumption DEF Types
  <1>2. Candidate \subseteq Identified
    BY DEF Candidate, Identified, Discoveries
  <1>3. Len(page) \in Nat /\ DOMAIN page = 1 .. Len(page)
    BY <1>1, LenProperties
  <1>4. \A i \in DOMAIN page : page[i] \in Candidate
    BY <1>1, <1>3, ElementOfSeq
  <1> QED
    BY <1>1, <1>2, <1>3, <1>4, SeqMonotonic DEF Candidate

LEMMA OwnerType ==
  ASSUME Types, NEW i \in DOMAIN page
  PROVE  /\ Owner(i) \in Discoveries \cup {None}
         /\ page[i].discovery_id # None => Owner(i) = page[i].discovery_id /\ Owner(i) = Parent
         /\ i \in Nat \ {0}
         /\ Owner(i) \notin {None, Parent} =>
              /\ ~shadow_mode /\ i \in Pending(page) /\ page[i].title \notin rejected
              /\ Owner(i) = Identity[page[i].title]
         /\ (~shadow_mode /\ i \in Pending(page) /\ page[i].title \notin rejected) =>
              Owner(i) = Identity[page[i].title] /\ Owner(i) \notin {None, Parent}
  <1>1. /\ page[i].discovery_id \in {Parent, None}
        /\ page[i].title \in Titles \cup {None} /\ i \in Nat \ {0}
    BY PageType, IdentifiedType
  <1>2. Parent # None /\ Parent \in Discoveries
    BY SubmissionAssumption DEF Discoveries
  <1>3. \A t \in Titles : Identity[t] \in Discoveries /\ Identity[t] # None /\ Identity[t] # Parent
    BY SubmissionAssumption DEF Discoveries
  <1>4. i \in Pending(page) <=> page[i].discovery_id = None /\ page[i].title # None
    BY DEF Pending
  <1>5. CASE page[i].discovery_id # None
    <2>1. Owner(i) = page[i].discovery_id /\ page[i].discovery_id = Parent
      BY <1>1, <1>5 DEF Owner
    <2> QED
      BY <1>1, <1>2, <1>4, <1>5, <2>1
  <1>6. CASE /\ page[i].discovery_id = None
             /\ shadow_mode \/ page[i].title = None \/ page[i].title \in rejected
    <2>1. Owner(i) = None
      BY <1>6 DEF Owner
    <2> QED
      BY <1>1, <1>4, <1>6, <2>1
  <1>7. CASE /\ page[i].discovery_id = None
             /\ ~shadow_mode /\ page[i].title # None /\ page[i].title \notin rejected
    <2>1. Owner(i) = Identity[page[i].title] /\ page[i].title \in Titles
      BY <1>1, <1>7 DEF Owner
    <2> QED
      BY <1>1, <1>3, <1>4, <1>7, <2>1
  <1> QED
    BY <1>5, <1>6, <1>7

LEMMA GivenStays ==
  ASSUME UNCHANGED given
  PROVE  /\ Intended' = Intended /\ page' = page /\ shadow_mode' = shadow_mode
         /\ configured' = configured /\ rejected' = rejected
         /\ \A i : Owner(i)' = Owner(i)
         /\ \A d : Mine(d)' = Mine(d)
         /\ Owned' = Owned
  <1>1. /\ page' = page /\ shadow_mode' = shadow_mode /\ rejected' = rejected
        /\ configured' = configured
    BY DEF given
  <1>2. \A i : Owner(i)' = Owner(i)
    BY <1>1 DEF Owner
  <1>3. Owned' = Owned
    BY <1>1, <1>2 DEF Owned
  <1>4. \A d : Mine(d)' = Mine(d)
    BY <1>1, <1>2, <1>3 DEF Mine
  <1>5. \A d : RunOf(d)' = RunOf(d)
    <2> SUFFICES ASSUME NEW d PROVE RunOf(d)' = RunOf(d)
      OBVIOUS
    <2>1. Mine(d)' = Mine(d)
      BY <1>4
    <2> QED
      BY <2>1 DEF RunOf
  <1>6. Intended' = Intended
    BY <1>1, <1>2, <1>3, <1>5 DEF Intended
  <1> QED
    BY <1>1, <1>2, <1>3, <1>4, <1>6

\* The same candidates are given the same calls.
LEMMA CallsStay ==
  ASSUME UNCHANGED given
  PROVE  Calls(candidates)' = Calls(candidates')
  <1>1. shadow_mode' = shadow_mode
    BY DEF given
  <1> QED
    BY <1>1 DEF Calls, CallsFor, Attach, RecordCandidateRun, RequestReview, RecordParentRun,
                REVIEW_ON

LEMMA IntendedParts ==
  /\ Intended.discoveries = {Owner(i) : i \in Owned} \ {Parent}
  /\ Intended.evidence = {<<Owner(i), i>> : i \in {k \in Owned : page[k].evidence}}
  /\ Intended.reviews =
       IF shadow_mode THEN {}
       ELSE {Owner(i) : i \in {k \in Owned : page[k].outcome \in REVIEW_ON}}
  /\ Intended.runs = [d \in Discoveries |-> RunOf(d)]
  BY DEF Intended

-----------------------------------------------------------------------------
(* The calls of a node that is running.                                     *)

LEMMA HeadOfTodo ==
  ASSUME SubmissionInv, phase = "calling"
  PROVE  \/ AtFirstCall /\ Head(todo) = submit_candidates
         \/ \E k \in 0 .. Len(Calls(candidates)) - 1 :
              /\ Past(k)
              /\ Head(todo) = Calls(candidates)[k + 1]
              /\ Tail(todo) = SubSeq(Calls(candidates), (k + 1) + 1, Len(Calls(candidates)))
              /\ Head(todo) # submit_candidates
              /\ Head(todo) = RecordParentRun <=> k + 1 = Len(Calls(candidates))
  <1>1. CASE AtFirstCall
    BY <1>1 DEF AtFirstCall
  <1>2. ASSUME NEW k \in 0 .. Len(Calls(candidates)) - 1, Past(k)
        PROVE  /\ Head(todo) = Calls(candidates)[k + 1]
               /\ Tail(todo) = SubSeq(Calls(candidates), (k + 1) + 1, Len(Calls(candidates)))
               /\ Head(todo) # submit_candidates
               /\ Head(todo) = RecordParentRun <=> k + 1 = Len(Calls(candidates))
    <2>1. PICK calls : calls = Calls(candidates)
      OBVIOUS
    <2>2. candidates \in Seq(Identified)
      BY DEF SubmissionInv, Ids
    <2>3. calls \in Seq(Requests) /\ Len(calls) \in Nat \ {0}
      BY <2>1, <2>2, CallsShape
    <2>4. k + 1 \in 1 .. Len(calls) /\ Len(calls) \in k + 1 .. Len(calls)
      BY <2>1, <2>3
    <2>5. todo = SubSeq(calls, k + 1, Len(calls))
      BY <1>2, <2>1 DEF Past
    <2>6. Head(todo) = calls[k + 1] /\ Tail(todo) = SubSeq(calls, (k + 1) + 1, Len(calls))
      BY <2>3, <2>4, <2>5, HeadTailOfSubSeq
    <2>7. calls[k + 1] # submit_candidates
      BY <2>1, <2>2, <2>4, CallAt
    <2>8. calls[k + 1] = RecordParentRun <=> k + 1 = Len(calls)
      BY <2>1, <2>2, <2>4, CallAt
    <2> QED
      BY <2>1, <2>6, <2>7, <2>8
  <1>3. AtFirstCall \/ \E k \in 0 .. Len(Calls(candidates)) - 1 : Past(k)
    BY DEF SubmissionInv
  <1> QED
    BY <1>1, <1>2, <1>3

\* A candidate with an id has its owner's, and keeps its evidence and outcome.
LEMMA CallIsMeant ==
  ASSUME Types, Ids, NEW p \in 1 .. Len(Calls(candidates)), NEW c,
         c = Calls(candidates)[p], c # RecordParentRun
  PROVE  /\ c.of \in Owned /\ c.id = Owner(c.of) /\ c.id \in Discoveries
         /\ c.op \in {"attach_evidence", "record_run", "request_review"}
         /\ c.op = "attach_evidence" => page[c.of].evidence
         /\ c.op = "record_run" => page[c.of].outcome # None
         /\ c.op = "request_review" => ~shadow_mode /\ page[c.of].outcome \in REVIEW_ON
  <1>1. /\ c.of \in DOMAIN candidates
        /\ c.id = candidates[c.of].discovery_id /\ c.id # None
        /\ c.op \in Ops(candidates[c.of])
    BY CallAt DEF Ids
  <1>2. PICK i : i = c.of
    OBVIOUS
  <1>3. /\ i \in DOMAIN page /\ candidates[i].evidence = page[i].evidence
        /\ candidates[i].outcome = page[i].outcome
        /\ candidates[i].discovery_id \in {None, Owner(i)}
    BY <1>1, <1>2 DEF Ids
  <1>4. c.id = Owner(i) /\ i \in Owned
    BY <1>1, <1>2, <1>3 DEF Owned
  <1>5. c.id \in Discoveries
    BY <1>1, <1>3, <1>4, OwnerType
  <1> QED
    BY <1>1, <1>2, <1>3, <1>4, <1>5 DEF Ops

-----------------------------------------------------------------------------
(* One call, whatever becomes of it.                                        *)

\* What one call adds to the rows.
LEMMA WrittenRows ==
  ASSUME Types, NEW c, NEW rows, rows = Written(product, c)
  PROVE  /\ c.op = "submit_candidates" => rows = [product EXCEPT !.discoveries = @ \cup
              {Identity[page[i].title] : i \in {k \in Pending(page) : page[k].title \notin rejected}}]
         /\ c.op = "attach_evidence" =>
              rows = [product EXCEPT !.evidence = @ \cup {<<c.id, c.of>>}]
         /\ c.op = "request_review" =>
              rows = [product EXCEPT !.reviews = @ \cup {c.id}]
         /\ c.op = "record_run" => rows = [product EXCEPT !.runs[c.id] = c.of]
  BY DEF Written

RowsType(rows) ==
  /\ rows = [discoveries |-> rows.discoveries, evidence |-> rows.evidence,
             reviews |-> rows.reviews, runs |-> rows.runs]
  /\ rows.runs \in [Discoveries -> {None} \cup Nat]

Meant(rows) ==
  /\ rows.discoveries \subseteq Intended.discoveries
  /\ rows.evidence \subseteq Intended.evidence
  /\ rows.reviews \subseteq Intended.reviews
  /\ \A d \in Discoveries :
       rows.runs[d] \in {None} \cup (IF d = Parent THEN {0} ELSE {}) \cup Mine(d)

LEMMA SubmitMeant ==
  ASSUME Types, OnlyMeant, ~shadow_mode, NEW rows,
         rows = Written(product, submit_candidates)
  PROVE  /\ RowsType(rows) /\ Meant(rows)
         /\ Intended.discoveries \subseteq rows.discoveries
  <1> DEFINE taken == {Identity[page[i].title] :
                         i \in {k \in Pending(page) : page[k].title \notin rejected}}
  <1>1. rows = [product EXCEPT !.discoveries = @ \cup taken]
    <2>1. PICK c : c = submit_candidates
      OBVIOUS
    <2>2. c.op = "submit_candidates" /\ rows = Written(product, c)
      BY <2>1 DEF submit_candidates
    <2> HIDE DEF taken
    <2>3. rows = [product EXCEPT !.discoveries = @ \cup taken]
      BY <2>2, WrittenRows DEF taken
    <2> QED
      BY <2>3
  <1>2. taken = Intended.discoveries
    <2>1. ASSUME NEW i \in Pending(page), page[i].title \notin rejected
          PROVE  Identity[page[i].title] \in Intended.discoveries
      <3>1. i \in DOMAIN page
        BY DEF Pending
      <3>2. Owner(i) = Identity[page[i].title] /\ Owner(i) \notin {None, Parent}
        BY <2>1, <3>1, OwnerType
      <3>3. i \in Owned
        BY <3>1, <3>2 DEF Owned
      <3> QED
        BY <3>2, <3>3, IntendedParts
    <2>2. ASSUME NEW d \in Intended.discoveries
          PROVE  d \in taken
      <3>1. PICK i \in Owned : d = Owner(i) /\ d # Parent
        BY IntendedParts
      <3>2. i \in DOMAIN page /\ Owner(i) # None
        BY DEF Owned
      <3>3. i \in Pending(page) /\ page[i].title \notin rejected /\ d = Identity[page[i].title]
        BY <3>1, <3>2, OwnerType
      <3> QED
        BY <3>3
    <2> QED
      BY <2>1, <2>2
  <1> HIDE DEF taken
  <1>3. /\ rows.discoveries = product.discoveries \cup taken
        /\ rows.evidence = product.evidence /\ rows.reviews = product.reviews
        /\ rows.runs = product.runs
        /\ rows = [discoveries |-> product.discoveries \cup taken, evidence |-> product.evidence,
                   reviews |-> product.reviews, runs |-> product.runs]
    BY <1>1 DEF Types
  <1>4. RowsType(rows)
    BY <1>3 DEF RowsType, Types
  <1>5. Meant(rows)
    BY <1>2, <1>3 DEF Meant, OnlyMeant
  <1> QED
    BY <1>2, <1>3, <1>4, <1>5

\* The rows after one of the other calls: one more, or a run's owner.
LEMMA CallMeant ==
  ASSUME Types, OnlyMeant, Ids, NEW p \in 1 .. Len(Calls(candidates)), NEW c,
         c = Calls(candidates)[p], NEW rows, rows = Written(product, c)
  PROVE  /\ RowsType(rows) /\ Meant(rows)
         /\ rows.discoveries = product.discoveries
         /\ product.evidence \subseteq rows.evidence
         /\ product.reviews \subseteq rows.reviews
         /\ c.op = "attach_evidence" => <<c.id, c.of>> \in rows.evidence
         /\ c.op = "request_review" => c.id \in rows.reviews
         /\ c.op = "record_run" => rows.runs[c.id] = c.of
         /\ \A d \in Discoveries : ~Records(c, d) => rows.runs[d] = product.runs[d]
  <1> USE DEF Records
  <1>1. c.id \in Discoveries /\ c.op \in {"attach_evidence", "record_run", "request_review"}
    <2>1. CASE c = RecordParentRun
      BY <2>1 DEF RecordParentRun, Discoveries
    <2>2. CASE c # RecordParentRun
      BY <2>2, CallIsMeant
    <2> QED
      BY <2>1, <2>2
  <1>2. CASE c.op = "attach_evidence"
    <2>1. c # RecordParentRun
      BY <1>2 DEF RecordParentRun
    <2>2. c.of \in Owned /\ c.id = Owner(c.of) /\ page[c.of].evidence
      BY <1>2, <2>1, CallIsMeant
    <2>3. <<c.id, c.of>> \in Intended.evidence
      BY <2>2, IntendedParts
    <2>4. rows = [product EXCEPT !.evidence = @ \cup {<<c.id, c.of>>}]
      BY <1>2, WrittenRows
    <2>5. /\ rows.discoveries = product.discoveries /\ rows.reviews = product.reviews
          /\ rows.runs = product.runs /\ rows.evidence = product.evidence \cup {<<c.id, c.of>>}
          /\ RowsType(rows)
      BY <2>4 DEF Types, RowsType
    <2>6. Meant(rows)
      BY <2>3, <2>5 DEF OnlyMeant, Meant
    <2> QED
      BY <1>2, <2>5, <2>6
  <1>3. CASE c.op = "request_review"
    <2>1. c # RecordParentRun
      BY <1>3 DEF RecordParentRun
    <2>2. /\ c.of \in Owned /\ c.id = Owner(c.of)
          /\ ~shadow_mode /\ page[c.of].outcome \in REVIEW_ON
      BY <1>3, <2>1, CallIsMeant
    <2>3. c.id \in Intended.reviews
      BY <2>2, IntendedParts
    <2>4. rows = [product EXCEPT !.reviews = @ \cup {c.id}]
      BY <1>3, WrittenRows
    <2>5. /\ rows.discoveries = product.discoveries /\ rows.evidence = product.evidence
          /\ rows.runs = product.runs /\ rows.reviews = product.reviews \cup {c.id}
          /\ RowsType(rows)
      BY <2>4 DEF Types, RowsType
    <2>6. Meant(rows)
      BY <2>3, <2>5 DEF OnlyMeant, Meant
    <2> QED
      BY <1>3, <2>5, <2>6
  <1>4. CASE c.op = "record_run"
    <2>1. c.of \in (IF c.id = Parent THEN {0} ELSE {}) \cup Mine(c.id)
      <3>1. CASE c = RecordParentRun
        BY <3>1 DEF RecordParentRun
      <3>2. CASE c # RecordParentRun
        BY <1>4, <3>2, CallIsMeant DEF Mine
      <3> QED
        BY <3>1, <3>2
    <2>2. rows = [product EXCEPT !.runs[c.id] = c.of]
      BY <1>4, WrittenRows
    <2>3. /\ rows.discoveries = product.discoveries /\ rows.evidence = product.evidence
          /\ rows.reviews = product.reviews
          /\ rows.runs = [product.runs EXCEPT ![c.id] = c.of]
      BY <2>2 DEF Types
    <2>4. RowsType(rows)
      <3>1. c.of \in Nat
        <4>1. c \in Requests
          BY CallAt DEF Ids
        <4> QED
          BY <4>1 DEF Requests
      <3>2. rows.runs \in [Discoveries -> {None} \cup Nat]
        BY <1>1, <2>3, <3>1 DEF Types
      <3> QED
        BY <2>2, <3>2 DEF Types, RowsType
    <2>5. /\ rows.runs[c.id] = c.of
          /\ \A d \in Discoveries : d # c.id => rows.runs[d] = product.runs[d]
      BY <1>1, <2>3 DEF Types
    <2>6. Meant(rows)
      BY <2>1, <2>3, <2>5 DEF OnlyMeant, Meant
    <2> QED
      BY <1>4, <2>3, <2>4, <2>5, <2>6
  <1> QED
    BY <1>1, <1>2, <1>3, <1>4

\* The call in flight, taken or not, leaves only rows that are meant.
LEMMA InFlight ==
  ASSUME SubmissionInv, phase = "calling", NEW rows,
         rows \in {product, Written(product, Head(todo))}
  PROVE  RowsType(rows) /\ Meant(rows)
  <1>0. Types /\ OnlyMeant /\ Ids
    BY DEF SubmissionInv
  <1>1. CASE rows = product
    BY <1>0, <1>1 DEF RowsType, Types, Meant, OnlyMeant
  <1>2. CASE rows = Written(product, Head(todo))
    <2>1. CASE AtFirstCall /\ Head(todo) = submit_candidates
      BY <1>0, <1>2, <2>1, SubmitMeant DEF AtFirstCall
    <2>2. ASSUME NEW k \in 0 .. Len(Calls(candidates)) - 1,
                 Head(todo) = Calls(candidates)[k + 1]
          PROVE  RowsType(rows) /\ Meant(rows)
      <3>1. Len(Calls(candidates)) \in Nat
        BY <1>0, CallsShape DEF Ids
      <3>2. k + 1 \in 1 .. Len(Calls(candidates))
        BY <3>1
      <3> QED
        BY <1>0, <1>2, <2>2, <3>2, CallMeant
    <2> QED
      BY <2>1, <2>2, HeadOfTodo
  <1> QED
    BY <1>1, <1>2

\* One more of the calls is behind, taken or noted.
LEMMA OneMoreDone ==
  ASSUME Types, OnlyMeant, Ids, NEW calls, calls = Calls(candidates),
         NEW k \in 0 .. Len(calls) - 1, DoneTo(calls, k),
         UNCHANGED <<given, candidates>>, noted \subseteq noted',
         product' \in {product, Written(product, calls[k + 1])},
         product' = Written(product, calls[k + 1]) \/ calls[k + 1] \in noted'
  PROVE  DoneTo(calls, k + 1)'
  <1>1. PICK c : c = calls[k + 1]
    OBVIOUS
  <1>2. Len(calls) \in Nat /\ calls \in Seq(Requests)
    BY CallsShape DEF Ids
  <1>3. k \in Nat /\ k + 1 \in 1 .. Len(calls)
    BY <1>2
  <1>4. c \in noted' \/ product' = Written(product, c)
    BY <1>1
  <1>5. PICK rows : rows = Written(product, c)
    OBVIOUS
  <1>6. /\ rows.discoveries = product.discoveries
        /\ product.evidence \subseteq rows.evidence
        /\ product.reviews \subseteq rows.reviews
        /\ c.op = "attach_evidence" => <<c.id, c.of>> \in rows.evidence
        /\ c.op = "request_review" => c.id \in rows.reviews
        /\ c.op = "record_run" => rows.runs[c.id] = c.of
        /\ \A d \in Discoveries : ~Records(c, d) => rows.runs[d] = product.runs[d]
    BY <1>1, <1>3, <1>5, CallMeant
  <1>7. /\ product.evidence \subseteq product'.evidence
        /\ product.reviews \subseteq product'.reviews
        /\ \A d \in Discoveries : ~Records(c, d) => product'.runs[d] = product.runs[d]
    BY <1>1, <1>5, <1>6
  <1> SUFFICES ASSUME NEW p \in 1 .. k + 1
               PROVE  /\ calls[p].op = "attach_evidence" =>
                           \/ calls[p] \in noted'
                           \/ <<calls[p].id, calls[p].of>> \in product'.evidence
                      /\ calls[p].op = "request_review" =>
                           calls[p] \in noted' \/ calls[p].id \in product'.reviews
                      /\ (/\ calls[p].op = "record_run"
                          /\ \A q \in p + 1 .. k + 1 : ~Records(calls[q], calls[p].id)) =>
                           \/ product'.runs[calls[p].id] = calls[p].of
                           \/ \E n \in noted' : Records(n, calls[p].id)
    BY DEF DoneTo
  <1>8. CASE p = k + 1
    <2>1. calls[p] = c
      BY <1>1, <1>8
    <2>2. CASE c \in noted'
      BY <2>1, <2>2 DEF Records
    <2>3. CASE product' = rows
      BY <1>6, <2>1, <2>3
    <2> QED
      BY <1>4, <1>5, <2>2, <2>3
  <1>9. CASE p # k + 1
    <2>1. p \in 1 .. k /\ p \in 1 .. Len(calls)
      BY <1>2, <1>3, <1>9
    <2>2. calls[p].op = "attach_evidence" =>
            calls[p] \in noted \/ <<calls[p].id, calls[p].of>> \in product.evidence
      BY <2>1 DEF DoneTo
    <2>3. calls[p].op = "request_review" =>
            calls[p] \in noted \/ calls[p].id \in product.reviews
      BY <2>1 DEF DoneTo
    <2>4. ASSUME calls[p].op = "record_run",
                 \A q \in p + 1 .. k + 1 : ~Records(calls[q], calls[p].id)
          PROVE  \/ product'.runs[calls[p].id] = calls[p].of
                 \/ \E n \in noted' : Records(n, calls[p].id)
      <3>1. \A q \in p + 1 .. k : q \in p + 1 .. k + 1
        BY <1>3, <2>1
      <3>2. \/ product.runs[calls[p].id] = calls[p].of
            \/ \E n \in noted : Records(n, calls[p].id)
        BY <2>1, <2>4, <3>1 DEF DoneTo
      <3>3. k + 1 \in p + 1 .. k + 1
        BY <1>3, <2>1
      <3>4. ~Records(c, calls[p].id)
        BY <1>1, <2>4, <3>3
      <3>5. calls[p].id \in Discoveries
        <4>1. CASE calls[p] = RecordParentRun
          BY <4>1 DEF RecordParentRun, Discoveries
        <4>2. CASE calls[p] # RecordParentRun
          BY <2>1, <4>2, CallIsMeant
        <4> QED
          BY <4>1, <4>2
      <3> QED
        BY <1>7, <3>2, <3>4, <3>5
    <2> QED
      BY <1>7, <2>2, <2>3, <2>4
  <1> QED
    BY <1>8, <1>9


-----------------------------------------------------------------------------
(* The actions.                                                             *)

LEMMA InvInit == Init => SubmissionInv
  <1> SUFFICES ASSUME Init PROVE SubmissionInv
    OBVIOUS
  <1>1. Types
    BY DEF Init, Types, NoRows
  <1>2. OnlyMeant
    BY DEF Init, OnlyMeant, NoRows
  <1>3. Ids
    BY <1>1, PageType, OwnerType DEF Init, Ids
  <1> QED
    BY <1>1, <1>2, <1>3 DEF Init, SubmissionInv

\* What holds of the rows, the page and the settings goes on to hold.
LEMMA RowsStay ==
  ASSUME Types, UNCHANGED given, RowsType(product'), Meant(product'),
         phase' \in {"start", "calling", "abandoned", "done", "saved"}
  PROVE  Types' /\ OnlyMeant'
  <1>1. /\ Intended' = Intended /\ \A d : Mine(d)' = Mine(d)
        /\ page' = page /\ shadow_mode' = shadow_mode /\ configured' = configured
        /\ rejected' = rejected
    BY GivenStays
  <1>2. Types'
    BY <1>1 DEF Types, RowsType
  <1>3. OnlyMeant'
    BY <1>1 DEF OnlyMeant, Meant
  <1> QED
    BY <1>2, <1>3

LEMMA RowsNow ==
  ASSUME Types, OnlyMeant
  PROVE  RowsType(product) /\ Meant(product)
  BY DEF Types, OnlyMeant, RowsType, Meant

LEMMA IdsStay ==
  ASSUME Ids, UNCHANGED given, candidates' = candidates
  PROVE  Ids'
  <1>1. page' = page /\ \A i : Owner(i)' = Owner(i)
    BY GivenStays
  <1> QED
    BY <1>1 DEF Ids

LEMMA IdsOfPage ==
  ASSUME Types, UNCHANGED given, candidates' = page
  PROVE  Ids'
  <1>1. page' = page /\ \A i : Owner(i)' = Owner(i)
    BY GivenStays
  <1>2. page \in Seq(Identified)
        /\ \A i \in DOMAIN page : page[i].discovery_id \in {None, Owner(i)}
    BY PageType, OwnerType
  <1> QED
    BY <1>1, <1>2 DEF Ids

LEMMA InvStarts == SubmissionInv /\ Starts => SubmissionInv'
  <1> SUFFICES ASSUME SubmissionInv, Starts PROVE SubmissionInv'
    OBVIOUS
  <1>1. /\ Types /\ OnlyMeant /\ Ids /\ candidates = page /\ noted = {}
        /\ UNCHANGED <<given, product, candidates>>
    BY DEF SubmissionInv, Starts
  <1>2. phase' \in {"calling", "done"}
    BY DEF Starts
  <1>3. Types' /\ OnlyMeant' /\ Ids'
    BY <1>1, <1>2, RowsNow, RowsStay, IdsStay
  <1>4. CASE ~configured
    BY <1>3, <1>4 DEF Starts, SubmissionInv
  <1>5. CASE configured
    <2>1. /\ phase' = "calling" /\ noted' = {}
          /\ todo' = IF ~shadow_mode /\ Pending(candidates) # {}
                     THEN <<submit_candidates>> ELSE Calls(candidates)
      BY <1>1, <1>5 DEF Starts
    <2>2. CASE ~shadow_mode /\ Pending(candidates) # {}
      <3>1. AtFirstCall'
        BY <1>1, <2>1, <2>2, GivenStays DEF AtFirstCall
      <3> QED
        BY <1>3, <2>1, <3>1 DEF SubmissionInv
    <2>3. CASE shadow_mode \/ Pending(candidates) = {}
      <3>1. ASSUME NEW i \in DOMAIN page
            PROVE  Owner(i) \in {None, Parent} /\ candidates[i].discovery_id = Owner(i)
        <4>1. Owner(i) \in {None, Parent}
          BY <1>1, <2>3, OwnerType
        <4>2. page[i].discovery_id = None => i \notin Pending(page) \/ shadow_mode
          BY <1>1, <2>3
        <4>3. page[i].discovery_id = None => Owner(i) = None
          BY <4>2 DEF Owner, Pending
        <4>4. page[i].discovery_id # None => Owner(i) = page[i].discovery_id
          BY <1>1, OwnerType
        <4> QED
          BY <1>1, <4>1, <4>3, <4>4
      <3>2. Intended.discoveries = {}
        BY <3>1, IntendedParts DEF Owned
      <3>3. Known'
        BY <1>1, <3>1, <3>2, GivenStays DEF Known
      <3>4. PICK calls : calls = Calls(candidates)
        OBVIOUS
      <3>5. Calls(candidates)' = calls
        BY <1>1, <3>4, CallsStay
      <3>6. calls \in Seq(Requests) /\ Len(calls) \in Nat \ {0}
        BY <1>1, <3>4, CallsShape DEF Ids
      <3>7. todo' = SubSeq(calls, 0 + 1, Len(calls))
        BY <2>1, <2>3, <3>4, <3>6, SubSeqFull
      <3>8. DoneTo(calls, 0)'
        BY DEF DoneTo
      <3>9. Past(0)'
        BY <3>3, <3>5, <3>7, <3>8 DEF Past
      <3>10. 0 \in 0 .. Len(calls) - 1
        BY <3>6
      <3>11. (\E k \in 0 .. Len(Calls(candidates)) - 1 : Past(k))'
        BY <3>5, <3>9, <3>10
      <3> QED
        BY <1>3, <2>1, <3>11 DEF SubmissionInv
    <2> QED
      BY <2>2, <2>3
  <1> QED
    BY <1>4, <1>5

\* The first call, taken: every candidate that can have an id has it.
LEMMA InvFirstTaken ==
  ASSUME SubmissionInv, Taken, AtFirstCall, Head(todo) = submit_candidates
  PROVE  SubmissionInv'
  <1>1. /\ Types /\ OnlyMeant /\ Ids /\ ~shadow_mode /\ candidates = page
        /\ UNCHANGED given /\ product' = Written(product, submit_candidates)
        /\ candidates' = Answered(candidates) /\ todo' = Calls(candidates') /\ phase' = "calling"
    BY DEF SubmissionInv, AtFirstCall, Taken, Proceeds, submit_candidates, RecordParentRun
  <1>2. RowsType(product') /\ Meant(product') /\ Intended.discoveries \subseteq product'.discoveries
    BY <1>1, SubmitMeant
  <1>3. Types' /\ OnlyMeant'
    BY <1>1, <1>2, RowsStay
  <1>4. /\ page \in Seq(Identified) /\ Len(page) \in Nat /\ DOMAIN page = 1 .. Len(page)
        /\ \A i \in DOMAIN page : page[i] \in Identified
    BY <1>1, PageType, ElementOfSeq
  <1>5. candidates' = [i \in DOMAIN page |->
          IF i \in Pending(page) /\ page[i].title \notin rejected
          THEN [page[i] EXCEPT !.discovery_id = Identity[page[i].title]] ELSE page[i]]
    BY <1>1 DEF Answered
  <1>6. ASSUME NEW i \in DOMAIN page
        PROVE  /\ candidates'[i] \in Identified
               /\ candidates'[i].evidence = page[i].evidence
               /\ candidates'[i].outcome = page[i].outcome
               /\ candidates'[i].discovery_id = Owner(i)
    <2>1. CASE i \in Pending(page) /\ page[i].title \notin rejected
      <3>1. candidates'[i] = [page[i] EXCEPT !.discovery_id = Owner(i)]
        BY <1>1, <1>5, <2>1, OwnerType
      <3>2. Owner(i) \in Discoveries \cup {None}
        BY <1>1, OwnerType
      <3> QED
        BY <1>4, <3>1, <3>2 DEF Identified
    <2>2. CASE ~(i \in Pending(page) /\ page[i].title \notin rejected)
      <3>1. candidates'[i] = page[i]
        BY <1>5, <2>2
      <3>2. page[i].discovery_id = None => Owner(i) = None
        BY <2>2 DEF Owner, Pending
      <3>3. page[i].discovery_id # None => Owner(i) = page[i].discovery_id
        BY <1>1, OwnerType
      <3> QED
        BY <1>4, <3>1, <3>2, <3>3
    <2> QED
      BY <2>1, <2>2
  <1>7. DOMAIN candidates' = DOMAIN page /\ candidates' \in Seq(Identified)
    <2>1. candidates' \in [1 .. Len(page) -> Identified]
      BY <1>4, <1>5, <1>6
    <2>2. candidates' \in Seq(Identified)
      BY <1>4, <2>1, SeqDef
    <2> QED
      BY <1>5, <2>2
  <1>8. Ids'
    BY <1>1, <1>6, <1>7, GivenStays DEF Ids
  <1>9. Known'
    BY <1>1, <1>2, <1>6, GivenStays DEF Known
  <1>10. PICK calls : calls = Calls(candidates')
    OBVIOUS
  <1>11. Calls(candidates)' = calls
    BY <1>1, <1>10, CallsStay
  <1>12. calls \in Seq(Requests) /\ Len(calls) \in Nat \ {0}
    BY <1>7, <1>10, CallsShape
  <1>13. todo' = SubSeq(calls, 0 + 1, Len(calls))
    BY <1>1, <1>10, <1>12, SubSeqFull
  <1>14. DoneTo(calls, 0)'
    BY DEF DoneTo
  <1>15. Past(0)'
    BY <1>9, <1>11, <1>13, <1>14 DEF Past
  <1>16. 0 \in 0 .. Len(calls) - 1
    BY <1>12
  <1>17. (\E k \in 0 .. Len(Calls(candidates)) - 1 : Past(k))'
    BY <1>11, <1>15, <1>16
  <1> QED
    BY <1>1, <1>3, <1>8, <1>17 DEF SubmissionInv

\* The first call, noted: the others go by the ids of the page.
LEMMA InvFirstNoted ==
  ASSUME SubmissionInv, Noted, AtFirstCall, Head(todo) = submit_candidates
  PROVE  SubmissionInv'
  <1>1. /\ Types /\ OnlyMeant /\ Ids /\ phase = "calling"
        /\ UNCHANGED given /\ product' \in {product, Written(product, Head(todo))}
        /\ candidates' = candidates /\ todo' = Calls(candidates) /\ phase' = "calling"
        /\ submit_candidates \in noted'
    BY DEF SubmissionInv, AtFirstCall, Noted, Proceeds, submit_candidates, RecordParentRun
  <1>2. Types' /\ OnlyMeant'
    BY <1>1, InFlight, RowsStay
  <1>3. Ids' /\ Known'
    BY <1>1, IdsStay DEF Known
  <1>4. PICK calls : calls = Calls(candidates)
    OBVIOUS
  <1>5. Calls(candidates)' = calls
    BY <1>1, <1>4, CallsStay
  <1>6. calls \in Seq(Requests) /\ Len(calls) \in Nat \ {0}
    BY <1>1, <1>4, CallsShape DEF Ids
  <1>7. todo' = SubSeq(calls, 0 + 1, Len(calls))
    BY <1>1, <1>4, <1>6, SubSeqFull
  <1>8. DoneTo(calls, 0)'
    BY DEF DoneTo
  <1>9. Past(0)'
    BY <1>3, <1>5, <1>7, <1>8 DEF Past
  <1>10. 0 \in 0 .. Len(calls) - 1
    BY <1>6
  <1>11. (\E k \in 0 .. Len(Calls(candidates)) - 1 : Past(k))'
    BY <1>5, <1>9, <1>10
  <1> QED
    BY <1>1, <1>2, <1>3, <1>11 DEF SubmissionInv

\* A later call, taken or noted.
LEMMA InvLaterCall ==
  ASSUME SubmissionInv, phase = "calling", UNCHANGED <<given, candidates>>,
         NEW k \in 0 .. Len(Calls(candidates)) - 1, Past(k),
         Head(todo) = Calls(candidates)[k + 1],
         Tail(todo) = SubSeq(Calls(candidates), (k + 1) + 1, Len(Calls(candidates))),
         Head(todo) = RecordParentRun <=> k + 1 = Len(Calls(candidates)),
         todo' = Tail(todo),
         phase' = IF Head(todo) = RecordParentRun THEN "done" ELSE "calling",
         noted \subseteq noted', product' \in {product, Written(product, Head(todo))},
         product' = Written(product, Head(todo)) \/ Head(todo) \in noted'
  PROVE  SubmissionInv'
  <1>1. Types /\ OnlyMeant /\ Ids
    BY DEF SubmissionInv
  <1>2. Types' /\ OnlyMeant' /\ Ids'
    BY <1>1, InFlight, RowsStay, IdsStay
  <1>3. PICK calls : calls = Calls(candidates)
    OBVIOUS
  <1>4. Calls(candidates)' = calls
    BY <1>3, CallsStay
  <1>5. Len(calls) \in Nat \ {0} /\ k \in 0 .. Len(calls) - 1 /\ k + 1 \in 1 .. Len(calls)
    <2>1. Len(calls) \in Nat \ {0}
      BY <1>1, <1>3, CallsShape DEF Ids
    <2> QED
      BY <1>3, <2>1
  <1>6. DoneTo(calls, k) /\ Known
    BY <1>3 DEF Past
  <1>7. DoneTo(calls, k + 1)'
    BY <1>1, <1>3, <1>5, <1>6, OneMoreDone
  <1>8. product'.discoveries = product.discoveries
    <2>1. PICK rows : rows = Written(product, calls[k + 1])
      OBVIOUS
    <2>2. rows.discoveries = product.discoveries
      BY <1>1, <1>3, <1>5, <2>1, CallMeant
    <2>3. product' = product \/ product' = rows
      BY <1>3, <2>1
    <2> QED
      BY <2>2, <2>3
  <1>9. Known'
    BY <1>6, <1>8, GivenStays DEF Known
  <1>10. todo' = SubSeq(calls, (k + 1) + 1, Len(calls))
    BY <1>3
  <1>11. Past(k + 1)'
    BY <1>4, <1>7, <1>9, <1>10 DEF Past
  <1>12. CASE k + 1 = Len(calls)
    <2>1. phase' = "done"
      BY <1>3, <1>12
    <2>2. Past(Len(Calls(candidates)))'
      BY <1>4, <1>11, <1>12
    <2> QED
      BY <1>2, <2>1, <2>2 DEF SubmissionInv
  <1>13. CASE k + 1 # Len(calls)
    <2>1. phase' = "calling"
      BY <1>3, <1>13
    <2>2. k + 1 \in 0 .. Len(calls) - 1
      BY <1>5, <1>13
    <2>3. (\E n \in 0 .. Len(Calls(candidates)) - 1 : Past(n))'
      BY <1>4, <1>11, <2>2
    <2> QED
      BY <1>2, <2>1, <2>3 DEF SubmissionInv
  <1> QED
    BY <1>12, <1>13

LEMMA InvTaken == SubmissionInv /\ Taken => SubmissionInv'
  <1> SUFFICES ASSUME SubmissionInv, Taken PROVE SubmissionInv'
    OBVIOUS
  <1>1. phase = "calling"
    BY DEF Taken
  <1>2. CASE AtFirstCall /\ Head(todo) = submit_candidates
    BY <1>2, InvFirstTaken
  <1>3. ASSUME NEW k \in 0 .. Len(Calls(candidates)) - 1, Past(k),
               Head(todo) = Calls(candidates)[k + 1],
               Tail(todo) = SubSeq(Calls(candidates), (k + 1) + 1, Len(Calls(candidates))),
               Head(todo) # submit_candidates,
               Head(todo) = RecordParentRun <=> k + 1 = Len(Calls(candidates))
        PROVE  SubmissionInv'
    <2>1. /\ UNCHANGED <<given, candidates>> /\ todo' = Tail(todo)
          /\ phase' = IF Head(todo) = RecordParentRun THEN "done" ELSE "calling"
          /\ noted' = noted /\ product' = Written(product, Head(todo))
      BY <1>3 DEF Taken, Proceeds
    <2> QED
      BY <1>1, <1>3, <2>1, InvLaterCall
  <1> QED
    BY <1>1, <1>2, <1>3, HeadOfTodo

LEMMA InvNoted == SubmissionInv /\ Noted => SubmissionInv'
  <1> SUFFICES ASSUME SubmissionInv, Noted PROVE SubmissionInv'
    OBVIOUS
  <1>1. phase = "calling"
    BY DEF Noted
  <1>2. CASE AtFirstCall /\ Head(todo) = submit_candidates
    BY <1>2, InvFirstNoted
  <1>3. ASSUME NEW k \in 0 .. Len(Calls(candidates)) - 1, Past(k),
               Head(todo) = Calls(candidates)[k + 1],
               Tail(todo) = SubSeq(Calls(candidates), (k + 1) + 1, Len(Calls(candidates))),
               Head(todo) # submit_candidates,
               Head(todo) = RecordParentRun <=> k + 1 = Len(Calls(candidates))
        PROVE  SubmissionInv'
    <2>1. /\ UNCHANGED <<given, candidates>> /\ todo' = Tail(todo)
          /\ phase' = IF Head(todo) = RecordParentRun THEN "done" ELSE "calling"
          /\ noted \subseteq noted' /\ product' \in {product, Written(product, Head(todo))}
          /\ Head(todo) \in noted'
      BY <1>3 DEF Noted, Proceeds
    <2> QED
      BY <1>1, <1>3, <2>1, InvLaterCall
  <1> QED
    BY <1>1, <1>2, <1>3, HeadOfTodo

\* The node left, ended or saved: the rows stay as they are.
LEMMA InvAbandoned == SubmissionInv /\ Abandoned => SubmissionInv'
  <1> SUFFICES ASSUME SubmissionInv, Abandoned PROVE SubmissionInv'
    OBVIOUS
  <1>1. /\ Types /\ OnlyMeant /\ Ids /\ phase' = "abandoned"
        /\ UNCHANGED <<given, candidates>>
    BY DEF SubmissionInv, Abandoned
  <1>2. RowsType(product') /\ Meant(product')
    BY InFlight DEF Abandoned
  <1> QED
    BY <1>1, <1>2, RowsStay, IdsStay DEF SubmissionInv

LEMMA InvUnsaved == SubmissionInv /\ Unsaved => SubmissionInv'
  <1> SUFFICES ASSUME SubmissionInv, Unsaved PROVE SubmissionInv'
    OBVIOUS
  <1>1. /\ Types /\ OnlyMeant /\ Ids /\ phase' = "abandoned"
        /\ UNCHANGED <<given, candidates, product>>
    BY DEF SubmissionInv, Unsaved
  <1> QED
    BY <1>1, RowsNow, RowsStay, IdsStay DEF SubmissionInv

LEMMA InvSaved == SubmissionInv /\ Saved => SubmissionInv'
  <1> SUFFICES ASSUME SubmissionInv, Saved PROVE SubmissionInv'
    OBVIOUS
  <1>1. /\ Types /\ OnlyMeant /\ Ids /\ phase = "done" /\ phase' = "saved"
        /\ UNCHANGED <<given, candidates, product, todo, noted>>
        /\ submit_candidates \in noted \/ Past(Len(Calls(candidates)))
    BY DEF SubmissionInv, Saved
  <1>2. Types' /\ OnlyMeant' /\ Ids'
    BY <1>1, RowsNow, RowsStay, IdsStay
  <1>3. PICK calls : calls = Calls(candidates)
    OBVIOUS
  <1>4. Calls(candidates)' = calls
    BY <1>1, <1>3, CallsStay
  <1>5. Past(Len(calls)) => Past(Len(calls))'
    BY <1>1, <1>3, <1>4, GivenStays DEF Past, Known, DoneTo, Records
  <1>6. (submit_candidates \in noted \/ Past(Len(Calls(candidates))))'
    BY <1>1, <1>3, <1>4, <1>5
  <1> QED
    BY <1>1, <1>2, <1>6 DEF SubmissionInv

\* The next attempt takes the page as it was checkpointed.
LEMMA InvResumes == SubmissionInv /\ Resumes => SubmissionInv'
  <1> SUFFICES ASSUME SubmissionInv, Resumes PROVE SubmissionInv'
    OBVIOUS
  <1>1. /\ Types /\ OnlyMeant /\ phase' = "start" /\ noted' = {} /\ candidates' = page
        /\ UNCHANGED <<given, product>>
    BY DEF SubmissionInv, Resumes
  <1>2. Types' /\ OnlyMeant' /\ Ids'
    BY <1>1, RowsNow, RowsStay, IdsOfPage
  <1> QED
    BY <1>1, <1>2, GivenStays DEF SubmissionInv

LEMMA InvStutter == SubmissionInv /\ UNCHANGED svars => SubmissionInv'
  <1> SUFFICES ASSUME SubmissionInv, UNCHANGED svars PROVE SubmissionInv'
    OBVIOUS
  <1>1. /\ UNCHANGED <<given, product, candidates, todo, noted, phase>>
        /\ phase' = phase
    BY DEF svars, given
  <1>2. Types' /\ OnlyMeant' /\ Ids'
    BY <1>1, RowsNow, RowsStay, IdsStay DEF SubmissionInv, Types
  <1>3. PICK calls : calls = Calls(candidates)
    OBVIOUS
  <1>4. Calls(candidates)' = calls
    BY <1>1, <1>3, CallsStay
  <1>5. \A k : Past(k) => Past(k)'
    BY <1>1, <1>3, <1>4, GivenStays DEF Past, Known, DoneTo, Records
  <1>6. AtFirstCall => AtFirstCall'
    BY <1>1, GivenStays DEF AtFirstCall
  <1>7. phase = "calling" =>
          (AtFirstCall \/ \E k \in 0 .. Len(Calls(candidates)) - 1 : Past(k))'
    BY <1>3, <1>4, <1>5, <1>6 DEF SubmissionInv
  <1>8. phase \in {"done", "saved"} =>
          (submit_candidates \in noted \/ Past(Len(Calls(candidates))))'
    BY <1>1, <1>3, <1>4, <1>5 DEF SubmissionInv
  <1>9. phase = "start" => (candidates = page /\ noted = {})'
    BY <1>1, GivenStays DEF SubmissionInv
  <1> QED
    BY <1>1, <1>2, <1>7, <1>8, <1>9 DEF SubmissionInv

LEMMA InvNext == SubmissionInv /\ [Next]_svars => SubmissionInv'
  BY InvStarts, InvTaken, InvNoted, InvAbandoned, InvUnsaved, InvSaved, InvResumes, InvStutter
     DEF Next

-----------------------------------------------------------------------------
(* What a node that ended has left.                                         *)

LEMMA MaxIs ==
  ASSUME NEW n \in Nat, NEW T \in SUBSET (1 .. n), NEW m \in T, \A k \in T : k <= m
  PROVE  Max(T) = m
  <1>1. \A x \in T : (\A y \in T : x >= y) => x = m
    OBVIOUS
  <1>2. \A y \in T : m >= y
    OBVIOUS
  <1> QED
    BY <1>1, <1>2 DEF Max

\* With every id known, whatever a candidate is due has been called for.
LEMMA DueIsCalled ==
  ASSUME Types, Ids, NEW i \in Owned, candidates[i].discovery_id = Owner(i),
         NEW op \in {"attach_evidence", "record_run", "request_review"},
         op = "attach_evidence" => page[i].evidence,
         op = "record_run" => page[i].outcome # None,
         op = "request_review" => ~shadow_mode /\ page[i].outcome \in REVIEW_ON
  PROVE  \E p \in 1 .. Len(Calls(candidates)) :
           /\ p # Len(Calls(candidates))
           /\ Calls(candidates)[p] = [op |-> op, id |-> Owner(i), of |-> i]
  <1>1. i \in DOMAIN page /\ Owner(i) # None
    BY DEF Owned
  <1>2. op \in Ops(candidates[i]) /\ candidates[i].discovery_id # None
    BY <1>1 DEF Ops, Ids
  <1>3. [op |-> op, id |-> Owner(i), of |-> i] \in Due(candidates, i)
    BY <1>2 DEF Due
  <1>4. i \in DOMAIN candidates /\ candidates \in Seq(Identified)
    BY <1>1 DEF Ids
  <1> QED
    BY <1>3, <1>4, CallsShape

\* The last of the recorded runs of a discovery is the one intended.
LEMMA LastRunIsIntended ==
  ASSUME Types, OnlyMeant, Ids, NEW d \in Discoveries,
         \A i \in DOMAIN page : candidates[i].discovery_id = Owner(i),
         DoneTo(Calls(candidates), Len(Calls(candidates))),
         ~ \E n \in noted : Records(n, d)
  PROVE  product.runs[d] = RunOf(d)
  <1>1. PICK calls : calls = Calls(candidates)
    OBVIOUS
  <1>2. /\ calls \in Seq(Requests) /\ Len(calls) \in Nat \ {0}
        /\ calls[Len(calls)] = RecordParentRun
        /\ \A p, q \in 1 .. Len(calls) : p <= q /\ q # Len(calls) => calls[p].of <= calls[q].of
    BY <1>1, CallsShape DEF Ids
  <1>3. ASSUME NEW p \in 1 .. Len(calls), Records(calls[p], d),
               \A q \in p + 1 .. Len(calls) : ~Records(calls[q], d)
        PROVE  product.runs[d] = calls[p].of
    BY <1>1, <1>3 DEF DoneTo, Records
  <1>4. CASE d = Parent
    <2>1. Len(calls) \in 1 .. Len(calls) /\ Records(calls[Len(calls)], d)
      BY <1>2, <1>4 DEF Records, RecordParentRun
    <2>2. \A q \in Len(calls) + 1 .. Len(calls) : ~Records(calls[q], d)
      BY <1>2
    <2>3. product.runs[d] = 0
      BY <1>2, <1>3, <2>1, <2>2 DEF RecordParentRun
    <2> QED
      BY <1>4, <2>3 DEF RunOf
  <1>5. CASE d # Parent /\ Mine(d) = {}
    BY <1>5 DEF OnlyMeant, RunOf
  <1>6. CASE d # Parent /\ Mine(d) # {}
    <2>1. Mine(d) \in SUBSET (1 .. Len(page)) /\ Len(page) \in Nat
      BY PageType DEF Mine, Owned
    <2>2. PICK m \in Mine(d) : \A k \in Mine(d) : k <= m
      BY <1>6, <2>1, LastOf
    <2>3. m \in Owned /\ Owner(m) = d /\ page[m].outcome # None /\ m \in DOMAIN page
      BY DEF Mine, Owned
    <2>4. PICK p \in 1 .. Len(calls) :
            p # Len(calls) /\ calls[p] = [op |-> "record_run", id |-> Owner(m), of |-> m]
      BY <1>1, <2>3, DueIsCalled
    <2>5. PICK T : T = {q \in 1 .. Len(calls) : Records(calls[q], d)}
      OBVIOUS
    <2>6. p \in T /\ T \in SUBSET (1 .. Len(calls))
      BY <2>3, <2>4, <2>5 DEF Records
    <2>7. PICK last \in T : \A q \in T : q <= last
      BY <1>2, <2>6, LastOf
    <2>8. last \in 1 .. Len(calls) /\ Records(calls[last], d)
      BY <2>5
    <2>9. \A q \in last + 1 .. Len(calls) : ~Records(calls[q], d)
      <3> SUFFICES ASSUME NEW q \in last + 1 .. Len(calls), Records(calls[q], d)
                   PROVE  FALSE
        OBVIOUS
      <3>1. q \in 1 .. Len(calls) /\ q > last
        BY <1>2, <2>8
      <3>2. q \in T
        BY <2>5, <3>1
      <3> QED
        BY <2>7, <2>8, <3>1, <3>2
    <2>10. product.runs[d] = calls[last].of
      BY <1>3, <2>8, <2>9
    <2>11. calls[last] # RecordParentRun
      BY <1>6, <2>8 DEF Records, RecordParentRun
    <2>12. last # Len(calls)
      BY <1>2, <2>11
    <2>13. calls[last].of \in Mine(d)
      <3>1. PICK c : c = calls[last]
        OBVIOUS
      <3>2. c.op = "record_run" /\ c.id = d /\ c # RecordParentRun
        BY <2>8, <2>11, <3>1 DEF Records
      <3>3. c.of \in Owned /\ c.id = Owner(c.of) /\ page[c.of].outcome # None
        BY <1>1, <2>8, <3>1, <3>2, CallIsMeant
      <3> QED
        BY <3>1, <3>2, <3>3 DEF Mine
    <2>14. m <= calls[last].of
      <3>1. p <= last
        BY <2>6, <2>7
      <3>2. calls[p].of <= calls[last].of
        BY <1>2, <2>8, <2>12, <3>1
      <3>3. calls[p].of = m
        BY <2>4
      <3> QED
        BY <3>2, <3>3
    <2>15. calls[last].of = m
      BY <2>1, <2>2, <2>13, <2>14
    <2>16. Max(Mine(d)) = m
      BY <2>1, <2>2, MaxIs
    <2> QED
      BY <1>6, <2>10, <2>15, <2>16 DEF RunOf
  <1> QED
    BY <1>4, <1>5, <1>6

LEMMA InvMissing == SubmissionInv => MissingIsNoted
  <1> SUFFICES ASSUME SubmissionInv, phase \in {"done", "saved"}, submit_candidates \notin noted
               PROVE  /\ Intended.discoveries \subseteq product.discoveries
                      /\ \A row \in Intended.evidence \ product.evidence :
                           \E n \in noted : n.op = "attach_evidence" /\ n.id = row[1] /\ n.of = row[2]
                      /\ \A d \in Intended.reviews \ product.reviews :
                           \E n \in noted : n.op = "request_review" /\ n.id = d
                      /\ \A d \in Discoveries : product.runs[d] # Intended.runs[d] =>
                           \E n \in noted : n.op = "record_run" /\ n.id = d
    BY DEF MissingIsNoted
  <1>1. Types /\ OnlyMeant /\ Ids /\ Past(Len(Calls(candidates)))
    BY DEF SubmissionInv
  <1>2. /\ Intended.discoveries \subseteq product.discoveries
        /\ \A i \in DOMAIN page : candidates[i].discovery_id = Owner(i)
        /\ DoneTo(Calls(candidates), Len(Calls(candidates)))
    BY <1>1 DEF Past, Known
  <1>3. ASSUME NEW row \in Intended.evidence \ product.evidence
        PROVE  \E n \in noted : n.op = "attach_evidence" /\ n.id = row[1] /\ n.of = row[2]
    <2>1. PICK i \in Owned : page[i].evidence /\ row = <<Owner(i), i>>
      BY IntendedParts
    <2>2. i \in DOMAIN page
      BY DEF Owned
    <2>3. PICK p \in 1 .. Len(Calls(candidates)) :
            Calls(candidates)[p] = [op |-> "attach_evidence", id |-> Owner(i), of |-> i]
      BY <1>1, <1>2, <2>1, <2>2, DueIsCalled
    <2>4. PICK n : n = Calls(candidates)[p]
      OBVIOUS
    <2>5. n.op = "attach_evidence" /\ n.id = Owner(i) /\ n.of = i
      BY <2>3, <2>4
    <2>6. n \in noted \/ <<n.id, n.of>> \in product.evidence
      BY <1>2, <2>4, <2>5 DEF DoneTo
    <2> QED
      BY <2>1, <2>5, <2>6
  <1>4. ASSUME NEW d \in Intended.reviews \ product.reviews
        PROVE  \E n \in noted : n.op = "request_review" /\ n.id = d
    <2>1. PICK i \in Owned : ~shadow_mode /\ page[i].outcome \in REVIEW_ON /\ d = Owner(i)
      BY IntendedParts
    <2>2. i \in DOMAIN page
      BY DEF Owned
    <2>3. PICK p \in 1 .. Len(Calls(candidates)) :
            Calls(candidates)[p] = [op |-> "request_review", id |-> Owner(i), of |-> i]
      BY <1>1, <1>2, <2>1, <2>2, DueIsCalled
    <2>4. PICK n : n = Calls(candidates)[p]
      OBVIOUS
    <2>5. n.op = "request_review" /\ n.id = Owner(i)
      BY <2>3, <2>4
    <2>6. n \in noted \/ n.id \in product.reviews
      BY <1>2, <2>4, <2>5 DEF DoneTo
    <2> QED
      BY <2>1, <2>5, <2>6
  <1>5. ASSUME NEW d \in Discoveries, product.runs[d] # Intended.runs[d]
        PROVE  \E n \in noted : n.op = "record_run" /\ n.id = d
    <2>1. Intended.runs[d] = RunOf(d)
      BY IntendedParts
    <2> QED
      BY <1>1, <1>2, <1>5, <2>1, LastRunIsIntended DEF Records
  <1> QED
    BY <1>2, <1>3, <1>4, <1>5

LEMMA InvExactly == SubmissionInv => ExactlyOnce
  <1> SUFFICES ASSUME SubmissionInv, phase \in {"done", "saved"}, noted = {}
               PROVE  product = Intended
    BY DEF ExactlyOnce
  <1>1. Types /\ OnlyMeant
    BY DEF SubmissionInv
  <1>2. /\ Intended.discoveries \subseteq product.discoveries
        /\ \A row \in Intended.evidence : row \in product.evidence
        /\ \A d \in Intended.reviews : d \in product.reviews
        /\ \A d \in Discoveries : product.runs[d] = Intended.runs[d]
    BY InvMissing DEF MissingIsNoted
  <1>3. /\ product.discoveries = Intended.discoveries
        /\ product.evidence = Intended.evidence
        /\ product.reviews = Intended.reviews
    BY <1>1, <1>2 DEF OnlyMeant
  <1>4. product.runs = Intended.runs
    <2>1. product.runs = [d \in Discoveries |-> product.runs[d]]
      BY <1>1 DEF Types
    <2>2. Intended.runs = [d \in Discoveries |-> Intended.runs[d]]
      BY IntendedParts
    <2> QED
      BY <1>2, <2>1, <2>2
  <1>5. Intended = [discoveries |-> Intended.discoveries, evidence |-> Intended.evidence,
                    reviews |-> Intended.reviews, runs |-> Intended.runs]
    BY DEF Intended
  <1>6. product = [discoveries |-> product.discoveries, evidence |-> product.evidence,
                   reviews |-> product.reviews, runs |-> product.runs]
    BY <1>1 DEF Types
  <1> QED
    BY <1>3, <1>4, <1>5, <1>6

-----------------------------------------------------------------------------
(* The theorems.                                                            *)

\* What every execution of the node keeps true, whatever the calls return and
\* wherever the process dies: SubmissionInv is inductive.
THEOREM SubmissionInvariant == Spec => []SubmissionInv
  BY InvInit, InvNext, PTL DEF Spec

\* At no moment, for any page and any setting, does the product hold a row that
\* is not meant for it; in shadow mode none but evidence and runs of the parent
\* (submit_to_product).
THEOREM NothingUnintendedEver == Spec => []NothingUnintended
  <1>1. SubmissionInv => NothingUnintended
    BY DEF SubmissionInv, OnlyMeant, NothingUnintended, Mine
  <1> QED
    BY <1>1, SubmissionInvariant, PTL

\* A node that ends has noted every call whose row is missing; no failure of a
\* call among many is lost (submit_to_product's notes).
THEOREM MissingIsAlwaysNoted == Spec => []MissingIsNoted
  BY InvMissing, SubmissionInvariant, PTL

\* An execution that noted nothing leaves the product exactly as one undisturbed
\* execution does, however many were cut off before it and whatever of theirs
\* was written.
THEOREM SubmittedExactlyOnce == Spec => []ExactlyOnce
  BY InvExactly, SubmissionInvariant, PTL

=============================================================================
