---------------------------- MODULE WorkflowProofs ----------------------------
(***************************************************************************)
(* Proofs about Workflow, for all awards, pages, answers and interruptions: *)
(* what an outcome rests on, what an attempt resumes, and what the loop    *)
(* over the candidates leaves behind.                                      *)
(***************************************************************************)
EXTENDS Workflow, SequenceTheorems, FiniteSetTheorems, WellFoundedInduction, TLAPS

-----------------------------------------------------------------------------
(* The order of the nodes, and the parts of a state.                        *)

LEMMA Positions ==
  /\ DOMAIN Position =
       {"load_discovery", "fetch_source", "classify_page", "split_candidates",
        "single_candidate", "dedupe_candidates", "extract_facts",
        "find_official_source", "fetch_official", "compare_evidence",
        "extract_eligibility", "decide", "submit_to_product", "END"}
  /\ Position["load_discovery"] = 1 /\ Position["fetch_source"] = 2
  /\ Position["classify_page"] = 3 /\ Position["split_candidates"] = 4
  /\ Position["single_candidate"] = 4 /\ Position["dedupe_candidates"] = 5
  /\ Position["extract_facts"] = 6 /\ Position["find_official_source"] = 7
  /\ Position["fetch_official"] = 8 /\ Position["compare_evidence"] = 9
  /\ Position["extract_eligibility"] = 10 /\ Position["decide"] = 11
  /\ Position["submit_to_product"] = 12 /\ Position["END"] = 13
  BY DEF Position

LEMMA PositionInNat ==
  ASSUME NEW node \in DOMAIN Position
  PROVE  Position[node] \in 1 .. 13
  BY Positions

LEMMA StateType ==
  ASSUME NEW s \in State
  PROVE  /\ s.next \in DOMAIN Position
         /\ s.authoritative \in BOOLEAN /\ s.page_usable \in BOOLEAN
         /\ s.page_type \in PageType \cup {"none"}
         /\ s.candidates \in Seq(Candidate)
         /\ s.outcome \in AgentOutcome \cup {"none"}
         /\ Len(s.candidates) \in Nat
         /\ DOMAIN s.candidates = 1 .. Len(s.candidates)
         /\ \A i \in DOMAIN s.candidates : s.candidates[i] \in Candidate
  <1>1. s.candidates \in Seq(Candidate)
    BY DEF State
  <1> QED
    BY <1>1, LenProperties, ElementOfSeq DEF State

LEMMA CandidateType ==
  ASSUME NEW c \in Candidate
  PROVE  /\ c.key \in Keys /\ c.link \in Link
         /\ c.official_url \in BOOLEAN /\ c.official_page_fetched \in BOOLEAN
         /\ c.amount_agrees \in Agreement /\ c.deadline_agrees \in Agreement
         /\ c.contradictions \in BOOLEAN /\ c.eligibility_rules \in BOOLEAN
         /\ c.evidence \subseteq Claim
         /\ c.outcome \in AgentOutcome \cup {"none"}
  BY DEF Candidate

LEMMA TruthType ==
  ASSUME truth \in Truths, NEW key \in Keys
  PROVE  truth[key] \in Truth
  BY WorkflowAssumption

\* An outcome not yet given claims nothing.
LEMMA NoOutcome ==
  ASSUME NEW c, c.outcome = "none"
  PROVE  Supported(c)
  BY DEF Supported

LEMMA NoJobOutcome ==
  ASSUME NEW s, s.outcome = "none"
  PROVE  JobSupported(s)
  BY DEF JobSupported

-----------------------------------------------------------------------------
(* What a loop over a sequence computes, by induction over its turns.       *)

\* Induction, with the property as a set of numbers.
LEMMA NatInductionOverSet ==
  ASSUME NEW S, 0 \in S, \A n \in Nat : n \in S => n + 1 \in S
  PROVE  Nat \subseteq S
  <1> SUFFICES ASSUME Nat \ S # {} PROVE FALSE
    OBVIOUS
  <1>1. PICK m \in Nat \ S : \A k \in Nat \ S : <<k, m>> \notin OpToRel(<, Nat)
    BY NatLessThanWellFounded, WFMin
  <1>2. \A k \in Nat : k < m => k \in S
    BY <1>1 DEF OpToRel
  <1>3. m \in Nat /\ m # 0
    OBVIOUS
  <1>4. m - 1 \in S /\ (m - 1) + 1 = m
    <2>1. m - 1 \in Nat /\ m - 1 < m /\ (m - 1) + 1 = m
      BY <1>3
    <2> QED
      BY <1>2, <2>1
  <1>5. m \in S
    BY <1>3, <1>4
  <1> QED
    BY <1>1, <1>5

LEMMA MaxOf ==
  ASSUME NEW n \in Nat, NEW T \in SUBSET (1 .. n + 1), n + 1 \in T
  PROVE  Max(T) = n + 1
  <1>1. \A x \in T : (\A y \in T : x >= y) => x = n + 1
    OBVIOUS
  <1>2. \A y \in T : n + 1 >= y
    OBVIOUS
  <1> QED
    BY <1>1, <1>2 DEF Max

\* The recursion of a fold over the first n elements of s.
Unfolds(f, s, n) ==
  f = [T \in SUBSET (1 .. n) |->
         IF T = {} THEN << >> ELSE merge(f[T \ {Max(T)}], s[Max(T)])]

LEMMA FoldExists ==
  ASSUME NEW s, NEW n \in Nat
  PROVE  \E f : Unfolds(f, s, n)
  <1> DEFINE S == {k \in Nat : \E f : Unfolds(f, s, k)}
  <1>1. 0 \in S
    <2> DEFINE f == [T \in SUBSET (1 .. 0) |-> << >>]
    <2>1. \A T \in SUBSET (1 .. 0) : T = {}
      OBVIOUS
    <2>2. f = [T \in SUBSET (1 .. 0) |->
                 IF T = {} THEN << >> ELSE merge(f[T \ {Max(T)}], s[Max(T)])]
      BY <2>1
    <2> QED
      BY <2>2 DEF Unfolds
  <1>2. ASSUME NEW k \in Nat, k \in S
        PROVE  k + 1 \in S
    <2>1. PICK f : Unfolds(f, s, k)
      BY <1>2
    <2> DEFINE g == [T \in SUBSET (1 .. k + 1) |->
                       IF k + 1 \in T THEN merge(f[T \ {k + 1}], s[k + 1]) ELSE f[T]]
    <2>2. ASSUME NEW T \in SUBSET (1 .. k + 1)
          PROVE  g[T] = IF T = {} THEN << >> ELSE merge(g[T \ {Max(T)}], s[Max(T)])
      <3>1. CASE k + 1 \in T
        <4>1. Max(T) = k + 1
          BY <3>1, MaxOf
        <4>2. T \ {k + 1} \in SUBSET (1 .. k + 1) /\ k + 1 \notin T \ {k + 1}
          OBVIOUS
        <4>3. g[T \ {k + 1}] = f[T \ {k + 1}]
          BY <4>2
        <4>4. g[T] = merge(f[T \ {k + 1}], s[k + 1])
          BY <3>1
        <4> QED
          BY <3>1, <4>1, <4>3, <4>4
      <3>2. CASE k + 1 \notin T
        <4>1. T \in SUBSET (1 .. k)
          BY <3>2
        <4>2. CASE T = {}
          BY <3>2, <4>1, <4>2, <2>1 DEF Unfolds
        <4>3. CASE T # {}
          <5> DEFINE U == T \ {Max(T)}
          <5>1. U \in SUBSET (1 .. k) /\ k + 1 \notin U /\ U \in SUBSET (1 .. k + 1)
            BY <4>1, <3>2
          <5>2. g[U] = f[U] /\ g[T] = f[T]
            BY <5>1, <3>2
          <5>3. f[T] = merge(f[U], s[Max(T)])
            BY <4>1, <4>3, <2>1 DEF Unfolds
          <5> QED
            BY <4>3, <5>2, <5>3
        <4> QED
          BY <4>2, <4>3
      <3> QED
        BY <3>1, <3>2
    <2> HIDE DEF g
    <2>3. g = [T \in SUBSET (1 .. k + 1) |->
                 IF T = {} THEN << >> ELSE merge(g[T \ {Max(T)}], s[Max(T)])]
      <3>1. g = [T \in SUBSET (1 .. k + 1) |-> g[T]]
        BY DEF g
      <3> QED
        BY <2>2, <3>1
    <2>4. Unfolds(g, s, k + 1)
      BY <2>3 DEF Unfolds
    <2>5. k + 1 \in Nat /\ \E h : Unfolds(h, s, k + 1)
      BY <2>4
    <2> QED
      BY <2>5
  <1>3. Nat \subseteq S
    <2> HIDE DEF S
    <2> QED
      BY <1>1, <1>2, NatInductionOverSet
  <1> QED
    BY <1>3

\* The loop over a list of candidates: one turn after another.
LEMMA FoldTurns ==
  ASSUME NEW s, NEW n \in Nat, DOMAIN s = 1 .. n
  PROVE  \E turn : /\ turn[0] = << >>
                   /\ \A k \in 1 .. n : turn[k] = merge(turn[k - 1], s[k])
                   /\ FoldLeft(merge, << >>, s) = turn[n]
  <1> DEFINE f == CHOOSE g : Unfolds(g, s, n)
  <1>1. Unfolds(f, s, n)
    BY FoldExists
  <1>2. FoldLeft(merge, << >>, s) = f[1 .. n]
    BY DEF FoldLeft, MapThenFoldSet, Unfolds
  <1> HIDE DEF f
  <1> DEFINE turn == [k \in 0 .. n |-> f[1 .. k]]
  <1>3. turn[0] = << >>
    BY <1>1 DEF Unfolds
  <1>4. ASSUME NEW k \in 1 .. n
        PROVE  turn[k] = merge(turn[k - 1], s[k])
    <2>1. PICK m \in Nat : m = k - 1 /\ k = m + 1 /\ m + 1 \in 1 .. k
      OBVIOUS
    <2>2. Max(1 .. k) = k
      BY <2>1, MaxOf
    <2>3. (1 .. k) \ {k} = 1 .. k - 1 /\ 1 .. k \in SUBSET (1 .. n) /\ 1 .. k # {}
      OBVIOUS
    <2>4. f[1 .. k] = merge(f[(1 .. k) \ {Max(1 .. k)}], s[Max(1 .. k)])
      BY <1>1, <2>3 DEF Unfolds
    <2>5. f[1 .. k] = merge(f[1 .. k - 1], s[k])
      BY <2>2, <2>3, <2>4
    <2> QED
      BY <2>5
  <1>5. FoldLeft(merge, << >>, s) = turn[n]
    BY <1>2
  <1> HIDE DEF turn
  <1> QED
    BY <1>3, <1>4, <1>5

LEMMA MinOf ==
  ASSUME NEW S \in SUBSET Nat, NEW b \in S, \A x \in S : b <= x
  PROVE  Min(S) = b
  <1>1. \A x \in S : (\A y \in S : x <= y) => x = b
    OBVIOUS
  <1> QED
    BY <1>1 DEF Min

-----------------------------------------------------------------------------
(* What merging the first n candidates of s leaves.                         *)

First(s, p) == \A k \in 1 .. p - 1 : s[k].key # s[p].key

\* Of the first n that name an award, s[b] is the one that is kept.
IsBest(s, n, b) ==
  \A k \in 1 .. n :
    s[k].key = s[b].key =>
      IF s[b].link = "none" THEN s[k].link = "none" /\ b <= k
      ELSE s[k].link = "none" \/ b <= k

Merged(m, s, n) ==
  /\ m \in Seq(Candidate) /\ Len(m) <= n
  /\ \A i, j \in DOMAIN m : m[i].key = m[j].key => i = j
  /\ \A k \in 1 .. n : \E i \in DOMAIN m : m[i].key = s[k].key
  /\ \A i \in DOMAIN m : \E b \in 1 .. n : m[i] = s[b] /\ IsBest(s, n, b)
  /\ \A i \in DOMAIN m : \E p \in 1 .. n : First(s, p) /\ s[p].key = m[i].key
  /\ \A i, j \in DOMAIN m : \A p, q \in 1 .. n :
       i < j /\ First(s, p) /\ First(s, q) /\ s[p].key = m[i].key /\ s[q].key = m[j].key
         => p < q

\* A candidate whose award is there already: it replaces or is dropped.
LEMMA MergedDuplicate ==
  ASSUME NEW s \in Seq(Candidate), NEW n \in Nat, n + 1 <= Len(s), NEW m, Merged(m, s, n),
         NEW d \in DOMAIN m, m[d].key = s[n + 1].key
  PROVE  Merged(merge(m, s[n + 1]), s, n + 1)
  <1> DEFINE c == s[n + 1]
             r == merge(m, c)
  <1>1. /\ m \in Seq(Candidate) /\ Len(m) \in Nat /\ DOMAIN m = 1 .. Len(m)
        /\ \A i \in DOMAIN m : m[i] \in Candidate
    BY LenProperties, ElementOfSeq DEF Merged
  <1>2. c \in Candidate /\ Len(s) \in Nat /\ DOMAIN s = 1 .. Len(s) /\ n + 1 \in 1 .. n + 1
    BY LenProperties, ElementOfSeq
  <1>3. r = [i \in DOMAIN m |->
               IF /\ m[i].key = c.key
                  /\ m[i].link = "none" /\ c.link # "none"
               THEN c ELSE m[i]]
    BY DEF merge
  <1> HIDE DEF r, c
  <1>4. r \in Seq(Candidate) /\ Len(r) = Len(m) /\ DOMAIN r = DOMAIN m
    <2>1. r \in [1 .. Len(m) -> Candidate]
      BY <1>1, <1>2, <1>3
    <2> QED
      BY <1>1, <2>1, LenProperties
  <1>5. \A i \in DOMAIN m : r[i].key = m[i].key
    BY <1>3
  <1>6. \A i, j \in DOMAIN r : r[i].key = r[j].key => i = j
    BY <1>4, <1>5 DEF Merged
  <1>7. ASSUME NEW k \in 1 .. n + 1
        PROVE  \E i \in DOMAIN r : r[i].key = s[k].key
    <2>1. CASE k = n + 1
      BY <2>1, <1>4, <1>5
    <2>2. CASE k \in 1 .. n
      BY <2>2, <1>4, <1>5 DEF Merged
    <2> QED
      BY <2>1, <2>2
  <1>8. ASSUME NEW i \in DOMAIN r
        PROVE  \E b \in 1 .. n + 1 : r[i] = s[b] /\ IsBest(s, n + 1, b)
    <2>1. PICK b \in 1 .. n : m[i] = s[b] /\ IsBest(s, n, b)
      BY <1>4 DEF Merged
    <2>2. CASE m[i].key = c.key /\ m[i].link = "none" /\ c.link # "none"
      <3>1. r[i] = c
        BY <1>3, <1>4, <2>2
      <3>2. \A k \in 1 .. n : s[k].key = c.key => s[k].link = "none"
        BY <2>1, <2>2 DEF IsBest
      <3>3. IsBest(s, n + 1, n + 1)
        BY <2>2, <3>2 DEF IsBest, c
      <3> QED
        BY <1>2, <3>1, <3>3 DEF c
    <2>3. CASE ~(m[i].key = c.key /\ m[i].link = "none" /\ c.link # "none")
      <3>1. r[i] = s[b] /\ b \in 1 .. n + 1
        BY <1>3, <1>4, <2>1, <2>3
      <3>2. IsBest(s, n + 1, b)
        BY <2>1, <2>3 DEF IsBest, c
      <3> QED
        BY <3>1, <3>2
    <2> QED
      BY <2>2, <2>3
  <1>9. \A i \in DOMAIN r : \E p \in 1 .. n + 1 : First(s, p) /\ s[p].key = r[i].key
    BY <1>4, <1>5 DEF Merged
  <1>10. ~First(s, n + 1)
    <2>1. PICK b \in 1 .. n : m[d] = s[b]
      BY DEF Merged
    <2> QED
      BY <2>1 DEF First
  <1>11. ASSUME NEW i \in DOMAIN r, NEW j \in DOMAIN r, NEW p \in 1 .. n + 1, NEW q \in 1 .. n + 1,
                i < j, First(s, p), First(s, q), s[p].key = r[i].key, s[q].key = r[j].key
         PROVE  p < q
    <2>1. p \in 1 .. n /\ q \in 1 .. n
      BY <1>10, <1>11
    <2> QED
      BY <1>4, <1>5, <1>11, <2>1 DEF Merged
  <1>12. Merged(r, s, n + 1)
    BY <1>1, <1>4, <1>6, <1>7, <1>8, <1>9, <1>11 DEF Merged
  <1> QED
    BY <1>12 DEF r, c

\* A candidate whose award is new: it goes to the end.
LEMMA MergedNew ==
  ASSUME NEW s \in Seq(Candidate), NEW n \in Nat, n + 1 <= Len(s), NEW m, Merged(m, s, n),
         \A i \in DOMAIN m : m[i].key # s[n + 1].key
  PROVE  Merged(merge(m, s[n + 1]), s, n + 1)
  <1> DEFINE c == s[n + 1]
             r == merge(m, c)
             l == Len(m)
  <1>1. /\ m \in Seq(Candidate) /\ l \in Nat /\ DOMAIN m = 1 .. l /\ l <= n
        /\ \A i \in DOMAIN m : m[i] \in Candidate
    BY LenProperties, ElementOfSeq DEF Merged
  <1>2. c \in Candidate /\ Len(s) \in Nat /\ DOMAIN s = 1 .. Len(s) /\ n + 1 \in 1 .. n + 1
    BY LenProperties, ElementOfSeq
  <1>3. r = Append(m, c)
    BY DEF merge
  <1> HIDE DEF r, c
  <1>4. /\ r \in Seq(Candidate) /\ Len(r) = l + 1 /\ DOMAIN r = 1 .. l + 1
        /\ r[l + 1] = c /\ \A i \in DOMAIN m : r[i] = m[i]
    BY <1>1, <1>2, <1>3, AppendProperties, LenProperties
  <1> HIDE DEF l
  <1>5. l + 1 \in DOMAIN r /\ \A i \in DOMAIN r : i \in DOMAIN m \/ i = l + 1
    BY <1>1, <1>4
  <1>6. \A k \in 1 .. n : s[k].key # c.key
    BY DEF Merged, c
  <1>7. \A i \in DOMAIN m : m[i].key # c.key
    BY DEF c
  <1>8. \A i, j \in DOMAIN r : r[i].key = r[j].key => i = j
    <2> SUFFICES ASSUME NEW i \in DOMAIN r, NEW j \in DOMAIN r, r[i].key = r[j].key
                 PROVE  i = j
      OBVIOUS
    <2>1. CASE i = l + 1 /\ j = l + 1
      BY <2>1
    <2>2. CASE i \in DOMAIN m /\ j \in DOMAIN m
      <3>1. m[i].key = m[j].key
        BY <1>4, <2>2
      <3> QED
        BY <2>2, <3>1 DEF Merged
    <2>3. CASE i = l + 1 /\ j \in DOMAIN m
      BY <1>4, <1>7, <2>3
    <2>4. CASE i \in DOMAIN m /\ j = l + 1
      BY <1>4, <1>7, <2>4
    <2> QED
      BY <1>5, <2>1, <2>2, <2>3, <2>4
  <1>9. ASSUME NEW k \in 1 .. n + 1
        PROVE  \E i \in DOMAIN r : r[i].key = s[k].key
    <2>1. CASE k = n + 1
      BY <2>1, <1>4, <1>5 DEF c
    <2>2. CASE k \in 1 .. n
      <3>1. PICK i \in DOMAIN m : m[i].key = s[k].key
        BY <2>2 DEF Merged
      <3> QED
        BY <1>1, <1>4, <3>1
    <2> QED
      BY <2>1, <2>2
  <1>10. ASSUME NEW i \in DOMAIN r
         PROVE  \E b \in 1 .. n + 1 : r[i] = s[b] /\ IsBest(s, n + 1, b)
    <2>1. CASE i = l + 1
      <3>1. IsBest(s, n + 1, n + 1)
        BY <1>6 DEF IsBest, c
      <3> QED
        BY <1>2, <1>4, <2>1, <3>1 DEF c
    <2>2. CASE i \in DOMAIN m
      <3>1. PICK b \in 1 .. n : m[i] = s[b] /\ IsBest(s, n, b)
        BY <2>2 DEF Merged
      <3>2. IsBest(s, n + 1, b)
        BY <1>6, <3>1 DEF IsBest, c
      <3> QED
        BY <1>4, <2>2, <3>1, <3>2
    <2> QED
      BY <1>5, <2>1, <2>2
  <1>11. First(s, n + 1)
    BY <1>6 DEF First, c
  <1>12. ASSUME NEW i \in DOMAIN r
         PROVE  \E p \in 1 .. n + 1 : First(s, p) /\ s[p].key = r[i].key
    <2>1. CASE i = l + 1
      BY <1>2, <1>4, <1>11, <2>1 DEF c
    <2>2. CASE i \in DOMAIN m
      <3>1. PICK p \in 1 .. n : First(s, p) /\ s[p].key = m[i].key
        BY <2>2 DEF Merged
      <3>2. p \in 1 .. n + 1 /\ s[p].key = r[i].key
        BY <1>4, <2>2, <3>1
      <3> QED
        BY <3>1, <3>2
    <2> QED
      BY <1>5, <2>1, <2>2
  <1>13. ASSUME NEW i \in DOMAIN r, NEW j \in DOMAIN r, NEW p \in 1 .. n + 1, NEW q \in 1 .. n + 1,
                i < j, First(s, p), First(s, q), s[p].key = r[i].key, s[q].key = r[j].key
         PROVE  p < q
    <2>1. i \in DOMAIN m
      BY <1>1, <1>4, <1>13
    <2>2. p \in 1 .. n
      <3>1. p # n + 1
        BY <1>4, <1>7, <1>13, <2>1 DEF c
      <3> QED
        BY <3>1
    <2>3. CASE j = l + 1
      <3>1. q = n + 1
        BY <1>4, <1>6, <1>13, <2>3
      <3> QED
        BY <2>2, <3>1
    <2>4. CASE j \in DOMAIN m
      <3>1. q \in 1 .. n
        <4>1. q # n + 1
          BY <1>4, <1>7, <1>13, <2>4 DEF c
        <4> QED
          BY <4>1
      <3> QED
        BY <1>4, <1>13, <2>1, <2>2, <2>4, <3>1 DEF Merged
    <2> QED
      BY <1>5, <2>3, <2>4
  <1>14. Len(r) <= n + 1
    BY <1>1, <1>4
  <1>15. Merged(r, s, n + 1)
    BY <1>4, <1>8, <1>9, <1>10, <1>12, <1>13, <1>14 DEF Merged
  <1> QED
    BY <1>15 DEF r, c

\* After the whole loop.
LEMMA MergedAll ==
  ASSUME NEW s \in Seq(Candidate)
  PROVE  Merged(FoldLeft(merge, << >>, s), s, Len(s))
  <1> DEFINE n == Len(s)
  <1>1. n \in Nat /\ DOMAIN s = 1 .. n
    BY LenProperties
  <1> HIDE DEF n
  <1>2. PICK turn : /\ turn[0] = << >>
                    /\ \A k \in 1 .. n : turn[k] = merge(turn[k - 1], s[k])
                    /\ FoldLeft(merge, << >>, s) = turn[n]
    BY <1>1, FoldTurns
  <1> DEFINE S == {k \in Nat : k <= n => Merged(turn[k], s, k)}
  <1>3. 0 \in S
    <2>1. << >> \in Seq(Candidate) /\ Len(<< >>) = 0 /\ DOMAIN << >> = {}
      OBVIOUS
    <2>2. Merged(<< >>, s, 0)
      BY <2>1 DEF Merged
    <2> QED
      BY <1>2, <2>2
  <1>4. ASSUME NEW k \in Nat, k \in S
        PROVE  k + 1 \in S
    <2> SUFFICES ASSUME k + 1 <= n PROVE Merged(turn[k + 1], s, k + 1)
      BY <1>4
    <2>1. Merged(turn[k], s, k)
      BY <1>1, <1>4
    <2>2. turn[k + 1] = merge(turn[k], s[k + 1])
      <3>1. k + 1 \in 1 .. n /\ (k + 1) - 1 = k
        BY <1>1
      <3> QED
        BY <1>2, <3>1
    <2>3. k + 1 <= Len(s)
      BY DEF n
    <2> QED
      BY <2>1, <2>2, <2>3, MergedDuplicate, MergedNew
  <1>5. Nat \subseteq S
    <2> HIDE DEF S
    <2> QED
      BY <1>3, <1>4, NatInductionOverSet
  <1>6. Merged(turn[n], s, n)
    BY <1>1, <1>5
  <1> QED
    BY <1>2, <1>6 DEF n

-----------------------------------------------------------------------------
(* What a good state of the graph is does not change while it is kept.      *)

LEMMA MemStays ==
  ASSUME truth' = truth, NEW s, GraphGood(s), mem' = s
  PROVE  GraphGood(mem)'
  <1>1. mem' \in State /\ Capped(mem)'
    BY DEF GraphGood, Capped
  <1>2. Progressed(mem)'
    BY DEF GraphGood, Progressed, NoneExpected, Uncompared
  <1>3. \A i \in DOMAIN mem'.candidates : Faithful(mem.candidates[i])'
    BY DEF GraphGood, Faithful
  <1>4. \A i \in DOMAIN mem'.candidates : Supported(mem.candidates[i])'
    BY DEF GraphGood, Supported, Agrees, Differs
  <1>5. JobSupported(mem)'
    <2>1. Awards(mem)' = Awards(s)
      BY DEF Awards
    <2>2. JobSupported(s)
      BY DEF GraphGood
    <2> QED
      BY <2>1, <2>2 DEF JobSupported, Agrees, Differs
  <1> QED
    BY <1>1, <1>2, <1>3, <1>4, <1>5 DEF GraphGood

LEMMA SavedStays ==
  ASSUME truth' = truth, NEW s, GraphGood(s), saved' = s
  PROVE  GraphGood(saved)'
  <1>1. saved' \in State /\ Capped(saved)'
    BY DEF GraphGood, Capped
  <1>2. Progressed(saved)'
    BY DEF GraphGood, Progressed, NoneExpected, Uncompared
  <1>3. \A i \in DOMAIN saved'.candidates : Faithful(saved.candidates[i])'
    BY DEF GraphGood, Faithful
  <1>4. \A i \in DOMAIN saved'.candidates : Supported(saved.candidates[i])'
    BY DEF GraphGood, Supported, Agrees, Differs
  <1>5. JobSupported(saved)'
    <2>1. Awards(saved)' = Awards(s)
      BY DEF Awards
    <2>2. JobSupported(s)
      BY DEF GraphGood
    <2> QED
      BY <2>1, <2>2 DEF JobSupported, Agrees, Differs
  <1> QED
    BY <1>1, <1>2, <1>3, <1>4, <1>5 DEF GraphGood

\* Nothing done yet is a good part of any batch.
LEMMA NoWork ==
  ASSUME work' = << >>, GraphGood(mem)'
  PROVE  WorkGood'
  <1>1. mem'.candidates \in Seq(Candidate)
    BY DEF GraphGood, State
  <1>2. Len(mem'.candidates) \in Nat
    BY <1>1, LenProperties
  <1>3. work' \in Seq(Candidate) /\ Len(work') = 0
    OBVIOUS
  <1>4. DOMAIN work' = {}
    OBVIOUS
  <1> QED
    BY <1>2, <1>3, <1>4 DEF WorkGood

\* Between nodes no text is in hand.
LEMMA NoTextInHand ==
  ASSUME official_text' \subseteq Keys, TextsConsumed', work' = << >>, reading' = FALSE
  PROVE  TextGood'
  <1>1. DOMAIN work' = {}
    OBVIOUS
  <1> QED
    BY <1>1 DEF TextGood

\* What the graph and its checkpoint have come to are positions.
LEMMA PositionsOfGraph ==
  ASSUME WorkflowInv
  PROVE  Position[mem.next] \in 1 .. 13 /\ Position[saved.next] \in 1 .. 13
  BY StateType, PositionInNat DEF GraphGood, WorkflowInv

\* States with the same keys are of the same awards.
LEMMA SameAwards ==
  ASSUME NEW r, NEW s, KeysOf(r) = KeysOf(s)
  PROVE  Awards(r) = Awards(s)
  <1>1. Awards(r) = {KeysOf(r)[i] : i \in DOMAIN KeysOf(r)}
    BY DEF Awards, KeysOf
  <1>2. Awards(s) = {KeysOf(s)[i] : i \in DOMAIN KeysOf(s)}
    BY DEF Awards, KeysOf
  <1> QED
    BY <1>1, <1>2

-----------------------------------------------------------------------------
(* The moves of a job between attempts.                                     *)

LEMMA InitialGood == GraphGood(initial_state)
  <1> DEFINE s == initial_state
  <1>1. /\ s.next = "load_discovery" /\ s.authoritative = FALSE /\ s.page_usable = TRUE
        /\ s.page_type = "none" /\ s.candidates = << >> /\ s.outcome = "none"
    BY DEF initial_state
  <1>2. s \in State
    BY Positions DEF initial_state, State, PageType, AgentOutcome
  <1> HIDE DEF s
  <1>3. DOMAIN s.candidates = {} /\ Len(s.candidates) = 0
    BY <1>1
  <1>4. Capped(s)
    BY <1>3, WorkflowAssumption DEF Capped
  <1>5. Progressed(s)
    BY <1>1, <1>3 DEF Progressed
  <1>6. GraphGood(s)
    BY <1>1, <1>2, <1>3, <1>4, <1>5, NoJobOutcome DEF GraphGood
  <1> QED
    BY <1>6 DEF s

LEMMA InvInit == Init => WorkflowInv
  <1> SUFFICES ASSUME Init PROVE WorkflowInv
    OBVIOUS
  <1>1. GraphGood(mem) /\ GraphGood(saved)
    BY InitialGood DEF Init
  <1>2. WorkGood
    <2>1. Len(mem.candidates) = 0
      BY DEF Init, initial_state
    <2> QED
      BY <2>1 DEF Init, WorkGood
  <1>3. TextGood
    <2>1. Awards(mem) = {}
      BY DEF Init, initial_state, Awards
    <2> QED
      BY <2>1 DEF Init, TextGood, TextsConsumed
  <1>4. SavedBehind
    <2>1. Position[mem.next] = 1
      BY Positions DEF Init, initial_state
    <2> QED
      BY <2>1, Positions DEF Init, SavedBehind
  <1> QED
    BY <1>1, <1>2, <1>3, <1>4, WorkflowAssumption DEF Init, WorkflowInv, JobState

LEMMA InvStart == WorkflowInv /\ Start => WorkflowInv'
  <1> SUFFICES ASSUME WorkflowInv, Start PROVE WorkflowInv'
    OBVIOUS
  <1>1. PICK s : s = saved
    OBVIOUS
  <1>2. GraphGood(s) /\ mem' = s /\ saved' = s
    BY <1>1 DEF WorkflowInv, Start
  <1>3. GraphGood(mem)' /\ GraphGood(saved)'
    BY <1>2, MemStays, SavedStays DEF Start
  <1>4. WorkGood'
    BY <1>3, NoWork DEF Start
  <1>5. TextsConsumed'
    <2> SUFFICES ASSUME Position[mem'.next] > Position["compare_evidence"]
                 PROVE  official_text \cap Awards(mem') = {}
      BY DEF TextsConsumed, Start, Awards
    <2>1. mem' = saved
      BY <1>1, <1>2
    <2>2. Position[mem.next] > Position["compare_evidence"] /\ KeysOf(saved) = KeysOf(mem)
      BY <2>1, PositionsOfGraph, Positions DEF WorkflowInv, SavedBehind
    <2>3. Awards(mem') = Awards(mem)
      BY <2>1, <2>2, SameAwards
    <2> QED
      BY <2>2, <2>3 DEF WorkflowInv, TextGood, TextsConsumed
  <1>6. TextGood'
    BY <1>5, NoTextInHand DEF WorkflowInv, TextGood, Start
  <1>7. SavedBehind'
    <2>1. Position[s.next] \in 1 .. 13
      BY <1>2, StateType, PositionInNat DEF GraphGood
    <2> QED
      BY <1>2, <2>1 DEF SavedBehind, KeysOf
  <1> QED
    BY <1>3, <1>4, <1>6, <1>7 DEF WorkflowInv, Start, claim, JobState

LEMMA InvCrash == WorkflowInv /\ Crash => WorkflowInv'
  <1> SUFFICES ASSUME WorkflowInv, Crash PROVE WorkflowInv'
    OBVIOUS
  <1>1. PICK s : s = saved
    OBVIOUS
  <1>2. GraphGood(s) /\ mem' = s /\ saved' = s
    BY <1>1 DEF WorkflowInv, Crash
  <1>3. GraphGood(mem)' /\ GraphGood(saved)'
    BY <1>2, MemStays, SavedStays DEF Crash
  <1>4. WorkGood'
    BY <1>3, NoWork DEF Crash
  <1>5. TextGood'
    BY NoTextInHand DEF TextsConsumed, Crash
  <1>6. SavedBehind'
    <2>1. Position[s.next] \in 1 .. 13
      BY <1>2, StateType, PositionInNat DEF GraphGood
    <2> QED
      BY <1>2, <2>1 DEF SavedBehind, KeysOf
  <1>7. phase' \in JobState /\ faults' \in 0 .. MaxFaults /\ attempts' \in Nat
    <2>1. phase' \in JobState /\ attempts' \in Nat
      BY DEF WorkflowInv, Crash, JobState
    <2>2. faults \in 0 .. MaxFaults /\ faults < MaxFaults /\ faults' = faults + 1
      BY DEF WorkflowInv, Crash, Fault
    <2> QED
      BY <2>1, <2>2, WorkflowAssumption
  <1> QED
    BY <1>3, <1>4, <1>5, <1>6, <1>7 DEF WorkflowInv, Crash

\* However an attempt ends without its process, what it did stays in memory.
LEMMA InvSaved ==
  ASSUME WorkflowInv, saved' \in {saved, mem}, UNCHANGED <<truth, mem, official_text, unread>>,
         work' = << >>, reading' = FALSE,
         phase' \in JobState, attempts' \in Nat, faults' \in 0 .. MaxFaults
  PROVE  WorkflowInv'
  <1>1. PICK s : s = mem
    OBVIOUS
  <1>2. PICK z : z = saved'
    OBVIOUS
  <1>3. GraphGood(s) /\ GraphGood(z) /\ mem' = s /\ saved' = z
    BY <1>1, <1>2 DEF WorkflowInv
  <1>4. GraphGood(mem)' /\ GraphGood(saved)'
    BY <1>3, MemStays, SavedStays
  <1>5. WorkGood'
    BY <1>4, NoWork
  <1>6. TextGood'
    <2>1. TextsConsumed' /\ official_text' \subseteq Keys
      BY DEF WorkflowInv, TextGood, TextsConsumed, Awards
    <2> QED
      BY <2>1, NoTextInHand
  <1>7. SavedBehind'
    <2>1. CASE saved' = saved
      BY <2>1 DEF WorkflowInv, SavedBehind, KeysOf
    <2>2. CASE saved' = mem
      <3>1. Position[mem.next] \in 1 .. 13
        BY PositionsOfGraph
      <3> QED
        BY <2>2, <3>1 DEF SavedBehind, KeysOf
    <2> QED
      BY <2>1, <2>2
  <1> QED
    BY <1>4, <1>5, <1>6, <1>7 DEF WorkflowInv

LEMMA InvAbort == WorkflowInv /\ Abort => WorkflowInv'
  <1> SUFFICES ASSUME WorkflowInv, Abort PROVE WorkflowInv'
    OBVIOUS
  <1>1. faults' \in 0 .. MaxFaults
    <2>1. faults \in 0 .. MaxFaults /\ faults < MaxFaults /\ faults' = faults + 1
      BY DEF WorkflowInv, Abort, Fault
    <2> QED
      BY <2>1, WorkflowAssumption
  <1>2. phase' \in JobState
    BY DEF Abort, fail, JobState
  <1> QED
    BY <1>1, <1>2, InvSaved DEF Abort, WorkflowInv

\* Once the graph has returned, saving its result changes nothing else.
LEMMA InvClosed ==
  ASSUME WorkflowInv, At("END"), saved' = mem,
         UNCHANGED <<truth, mem, work, reading, official_text, unread>>,
         phase' \in JobState, attempts' \in Nat, faults' \in 0 .. MaxFaults
  PROVE  WorkflowInv'
  <1>1. PICK s : s = mem
    OBVIOUS
  <1>2. GraphGood(s) /\ mem' = s /\ saved' = s
    BY <1>1 DEF WorkflowInv
  <1>3. GraphGood(mem)' /\ GraphGood(saved)'
    BY <1>2, MemStays, SavedStays
  <1>4. WorkGood'
    BY DEF WorkflowInv, WorkGood, Faithful, Uncompared
  <1>5. TextGood'
    BY DEF WorkflowInv, TextGood, TextsConsumed, Awards, At
  <1>6. SavedBehind'
    <2>1. Position[s.next] \in 1 .. 13
      BY <1>2, StateType, PositionInNat DEF GraphGood
    <2> QED
      BY <1>2, <2>1 DEF SavedBehind, KeysOf
  <1> QED
    BY <1>3, <1>4, <1>5, <1>6 DEF WorkflowInv

LEMMA InvComplete == WorkflowInv /\ Complete => WorkflowInv'
  <1> SUFFICES ASSUME WorkflowInv, Complete PROVE WorkflowInv'
    OBVIOUS
  <1>1. phase' \in JobState
    BY DEF Complete, succeed, JobState
  <1> QED
    BY <1>1, InvClosed DEF Complete, WorkflowInv

LEMMA InvCloseLost == WorkflowInv /\ CloseLost => WorkflowInv'
  <1> SUFFICES ASSUME WorkflowInv, CloseLost PROVE WorkflowInv'
    OBVIOUS
  <1>1. faults' \in 0 .. MaxFaults
    <2>1. faults \in 0 .. MaxFaults /\ faults < MaxFaults /\ faults' = faults + 1
      BY DEF WorkflowInv, CloseLost, Fault
    <2> QED
      BY <2>1, WorkflowAssumption
  <1>2. phase' \in JobState
    BY DEF CloseLost, JobState
  <1> QED
    BY <1>1, <1>2, InvClosed DEF CloseLost, WorkflowInv

-----------------------------------------------------------------------------
(* A node returns a good state, further on and with the same batch once it  *)
(* is formed.                                                               *)

\* What is written is what was there, what the graph has reached, or what the
\* node returns.
Onward ==
  \/ saved' \in {saved, mem}
  \/ /\ saved' = mem'
     /\ Position[mem'.next] > Position[mem.next]
     /\ Position[mem.next] > Position["dedupe_candidates"] => KeysOf(mem') = KeysOf(mem)

LEMMA FinishKeeps ==
  ASSUME WorkflowInv, phase = "running", NEW r, Finish(r), GraphGood(r),
         Position[r.next] > Position[mem.next],
         Position[mem.next] > Position["dedupe_candidates"] => KeysOf(r) = KeysOf(mem),
         official_text' \subseteq Keys, unread' \subseteq Keys,
         Position[r.next] > Position["compare_evidence"] => official_text' \cap Awards(r) = {}
  PROVE  WorkflowInv' /\ Onward
  <1>1. /\ truth' = truth /\ mem' = r /\ saved' \in {saved, r}
        /\ work' = << >> /\ reading' = FALSE
        /\ phase' = phase /\ attempts' = attempts /\ faults' = faults
    BY DEF Finish
  <1>2. GraphGood(mem)'
    BY <1>1, MemStays
  <1>3. GraphGood(saved)'
    <2>1. PICK s : s = saved
      OBVIOUS
    <2>2. GraphGood(s)
      BY <2>1 DEF WorkflowInv
    <2> QED
      BY <1>1, <2>1, <2>2, SavedStays
  <1>4. WorkGood'
    BY <1>1, <1>2, NoWork
  <1>5. TextGood'
    <2>1. TextsConsumed'
      BY <1>1 DEF TextsConsumed, Awards
    <2> QED
      BY <1>1, <2>1, NoTextInHand
  <1>6. SavedBehind'
    <2>1. /\ Position[r.next] \in 1 .. 13 /\ Position[mem.next] \in 1 .. 13
          /\ Position[saved.next] \in 1 .. 13
      BY StateType, PositionInNat DEF GraphGood, WorkflowInv
    <2>2. CASE saved' = r
      BY <1>1, <2>1, <2>2 DEF SavedBehind, KeysOf
    <2>3. CASE saved' = saved
      <3>1. Position[saved'.next] <= Position[mem'.next]
        BY <1>1, <2>1, <2>3 DEF WorkflowInv, SavedBehind
      <3>2. ASSUME Position[saved'.next] > Position["dedupe_candidates"]
            PROVE  KeysOf(saved') = KeysOf(mem')
        <4>1. Position[saved.next] > 5 /\ Position[mem.next] > 5
          BY <2>1, <2>3, <3>2, Positions DEF WorkflowInv, SavedBehind
        <4>2. KeysOf(saved) = KeysOf(mem) /\ KeysOf(r) = KeysOf(mem)
          BY <4>1, Positions DEF WorkflowInv, SavedBehind
        <4> QED
          BY <1>1, <2>3, <4>2
      <3> QED
        BY <3>1, <3>2 DEF SavedBehind, KeysOf
    <2> QED
      BY <1>1, <2>2, <2>3
  <1>7. Onward
    <2>1. saved' = saved \/ saved' = mem'
      BY <1>1
    <2>2. /\ Position[mem'.next] > Position[mem.next]
          /\ Position[mem.next] > Position["dedupe_candidates"] => KeysOf(mem') = KeysOf(mem)
      BY <1>1
    <2> QED
      BY <2>1, <2>2 DEF Onward
  <1> QED
    BY <1>1, <1>2, <1>3, <1>4, <1>5, <1>6, <1>7 DEF WorkflowInv

\* Only the end of the comparison has to show that no text of its batch is
\* left: before it any may be, and after it the batch is the same.
LEMMA ReturnsKeeps ==
  ASSUME WorkflowInv, NEW r, Returns(r), GraphGood(r), phase = "running",
         Position[r.next] > Position[mem.next],
         Position[mem.next] > Position["dedupe_candidates"] => KeysOf(r) = KeysOf(mem),
         \/ Position[r.next] <= Position["compare_evidence"]
         \/ Position[mem.next] > Position["compare_evidence"]
         \/ r.candidates = << >>
  PROVE  WorkflowInv' /\ Onward
  <1>1. official_text' = official_text /\ unread' = unread /\ Finish(r)
    BY DEF Returns
  <1>2. ASSUME Position[r.next] > Position["compare_evidence"]
        PROVE  official_text \cap Awards(r) = {}
    <2>1. /\ Position[r.next] \in 1 .. 13 /\ Position[mem.next] \in 1 .. 13
      BY StateType, PositionInNat, PositionsOfGraph DEF GraphGood
    <2>2. CASE Position[mem.next] > Position["compare_evidence"]
      <3>1. Position[mem.next] > Position["dedupe_candidates"]
        BY <2>1, <2>2, Positions
      <3>2. Awards(r) = Awards(mem)
        BY <3>1, SameAwards
      <3> QED
        BY <2>2, <3>2 DEF WorkflowInv, TextGood, TextsConsumed
    <2>3. CASE r.candidates = << >>
      BY <2>3 DEF Awards
    <2>4. ~(Position[r.next] <= Position["compare_evidence"])
      BY <1>2, <2>1, Positions
    <2> QED
      BY <2>2, <2>3, <2>4
  <1> QED
    BY <1>1, <1>2, FinishKeeps DEF WorkflowInv, TextGood

-----------------------------------------------------------------------------
(* Up to the split there are no candidates.                                 *)

LEMMA NoCandidates ==
  ASSUME NEW r \in State, r.candidates = << >>, r.outcome = "none",
         r.next \in {"classify_page", "split_candidates", "single_candidate"} => r.page_usable,
         r.next \in {"split_candidates", "single_candidate"} =>
           r.page_type # "not_a_scholarship"
  PROVE  GraphGood(r)
  <1>1. DOMAIN r.candidates = {} /\ Len(r.candidates) = 0
    OBVIOUS
  <1>2. Capped(r)
    BY <1>1, WorkflowAssumption DEF Capped
  <1>3. Progressed(r)
    BY <1>1 DEF Progressed
  <1> QED
    BY <1>1, <1>2, <1>3, NoJobOutcome DEF GraphGood

LEMMA BeforeSplit ==
  ASSUME GraphGood(mem), mem.next \in {"load_discovery", "fetch_source", "classify_page"}
  PROVE  mem \in State /\ mem.candidates = << >> /\ mem.outcome = "none"
  <1>1. Position[mem.next] <= Position["split_candidates"] /\
        Position[mem.next] <= Position["decide"]
    BY Positions
  <1> QED
    BY <1>1 DEF GraphGood, Progressed, NoneExpected

LEMMA InvLoadDiscovery == WorkflowInv /\ load_discovery => WorkflowInv' /\ Onward
  <1> SUFFICES ASSUME WorkflowInv, load_discovery PROVE WorkflowInv' /\ Onward
    OBVIOUS
  <1>1. mem \in State /\ mem.candidates = << >> /\ mem.outcome = "none"
    BY BeforeSplit DEF load_discovery, At, WorkflowInv
  <1>2. PICK authoritative \in BOOLEAN :
          Returns([mem EXCEPT !.authoritative = authoritative, !.next = "fetch_source"])
    BY DEF load_discovery
  <1>3. PICK r : r = [mem EXCEPT !.authoritative = authoritative, !.next = "fetch_source"]
    OBVIOUS
  <1>4. r \in State /\ r.candidates = << >> /\ r.outcome = "none" /\ r.next = "fetch_source"
    BY <1>1, <1>3, Positions DEF State
  <1>5. GraphGood(r)
    BY <1>4, NoCandidates
  <1>6. Position[r.next] = 2 /\ Position[mem.next] = 1 /\ phase = "running"
    BY <1>4, Positions DEF load_discovery, At
  <1>7. Returns(r)
    BY <1>2, <1>3
  <1> QED
    BY <1>5, <1>6, <1>7, Positions, ReturnsKeeps

LEMMA InvFetchSource == WorkflowInv /\ fetch_source => WorkflowInv' /\ Onward
  <1> SUFFICES ASSUME WorkflowInv, fetch_source PROVE WorkflowInv' /\ Onward
    OBVIOUS
  <1>1. mem \in State /\ mem.candidates = << >> /\ mem.outcome = "none"
    BY BeforeSplit DEF fetch_source, At, WorkflowInv
  <1>2. PICK usable \in BOOLEAN :
          Returns([mem EXCEPT !.page_usable = usable, !.next = route_after_fetch(usable)])
    BY DEF fetch_source
  <1>3. PICK r : r = [mem EXCEPT !.page_usable = usable, !.next = route_after_fetch(usable)]
    OBVIOUS
  <1>4. /\ r \in State /\ r.candidates = << >> /\ r.outcome = "none"
        /\ r.next \in {"classify_page", "decide"}
        /\ r.next = "classify_page" => r.page_usable
    BY <1>1, <1>3, Positions DEF State, route_after_fetch
  <1>5. GraphGood(r)
    BY <1>4, NoCandidates
  <1>6. Position[r.next] > Position[mem.next] /\ Position[mem.next] = 2 /\ phase = "running"
    BY <1>4, Positions DEF fetch_source, At
  <1>7. Returns(r)
    BY <1>2, <1>3
  <1> QED
    BY <1>4, <1>5, <1>6, <1>7, Positions, ReturnsKeeps

LEMMA InvClassifyPage == WorkflowInv /\ classify_page => WorkflowInv' /\ Onward
  <1> SUFFICES ASSUME WorkflowInv, classify_page PROVE WorkflowInv' /\ Onward
    OBVIOUS
  <1>1. mem \in State /\ mem.candidates = << >> /\ mem.outcome = "none" /\ mem.page_usable
    BY BeforeSplit DEF classify_page, At, WorkflowInv, GraphGood, Progressed
  <1>2. PICK page_type \in PageType :
          Returns([mem EXCEPT !.page_type = page_type,
                              !.next = route_after_classification(page_type)])
    BY DEF classify_page
  <1>3. PICK r : r = [mem EXCEPT !.page_type = page_type,
                                 !.next = route_after_classification(page_type)]
    OBVIOUS
  <1>4. /\ route_after_classification(page_type) \in
             {"decide", "split_candidates", "single_candidate"}
        /\ route_after_classification(page_type) # "decide" => page_type # "not_a_scholarship"
    BY DEF route_after_classification
  <1>5. /\ r \in State /\ r.candidates = << >> /\ r.outcome = "none" /\ r.page_usable
        /\ r.page_type = page_type /\ r.next = route_after_classification(page_type)
    BY <1>1, <1>3, <1>4, Positions DEF State
  <1>6. GraphGood(r)
    BY <1>4, <1>5, NoCandidates
  <1>7. Position[r.next] > Position[mem.next] /\ Position[mem.next] = 3 /\ phase = "running"
    BY <1>4, <1>5, Positions DEF classify_page, At
  <1>8. Returns(r)
    BY <1>2, <1>3
  <1> QED
    BY <1>5, <1>6, <1>7, <1>8, Positions, ReturnsKeeps

\* A new candidate carries nothing yet.
LEMMA NewCandidate ==
  ASSUME NEW item \in Item
  PROVE  LET c == _new_candidate(item)
         IN  c \in Candidate /\ Faithful(c) /\ Uncompared(c) /\ c.outcome = "none"
  <1>1. item.key \in Keys /\ item.link \in Link
    BY DEF Item
  <1>2. _new_candidate(item) \in Candidate
    BY <1>1 DEF _new_candidate, Candidate, Agreement, Claim
  <1>3. Uncompared(_new_candidate(item)) /\ _new_candidate(item).outcome = "none"
    BY DEF _new_candidate, Uncompared
  <1>4. Faithful(_new_candidate(item))
    BY DEF _new_candidate, Faithful
  <1> QED
    BY <1>2, <1>3, <1>4

LEMMA InvSplit ==
  ASSUME WorkflowInv, phase = "running", mem.next \in {"single_candidate", "split_candidates"},
         NEW items \in Seq(Item), Split(items),
         Len(items) <= IF MaxCandidates = 0 THEN 1 ELSE MaxCandidates
  PROVE  WorkflowInv' /\ Onward
  <1> DEFINE candidates == [i \in DOMAIN items |-> _new_candidate(items[i])]
  <1>1. PICK r : r = [mem EXCEPT !.candidates = candidates, !.next = "dedupe_candidates"]
    OBVIOUS
  <1>2. Returns(r)
    BY <1>1 DEF Split
  <1>3. Len(items) \in Nat /\ DOMAIN items = 1 .. Len(items)
        /\ \A i \in DOMAIN items : items[i] \in Item
    BY LenProperties, ElementOfSeq
  <1>4. \A i \in DOMAIN candidates :
          /\ candidates[i] \in Candidate /\ Faithful(candidates[i])
          /\ Uncompared(candidates[i]) /\ candidates[i].outcome = "none"
    BY <1>3, NewCandidate
  <1>5. candidates \in Seq(Candidate) /\ Len(candidates) = Len(items)
    <2>1. candidates \in [1 .. Len(items) -> Candidate]
      BY <1>3, <1>4
    <2> QED
      BY <1>3, <2>1, LenProperties
  <1> HIDE DEF candidates
  <1>6. mem \in State /\ mem.page_usable /\ mem.page_type # "not_a_scholarship"
        /\ mem.outcome = "none"
    BY Positions DEF WorkflowInv, GraphGood, Progressed
  <1>7. /\ r \in State /\ r.next = "dedupe_candidates" /\ r.candidates = candidates
        /\ r.page_usable /\ r.page_type # "not_a_scholarship" /\ r.outcome = "none"
    BY <1>1, <1>5, <1>6, Positions DEF State
  <1>8. Capped(r)
    BY <1>5, <1>7 DEF Capped
  <1>9. Progressed(r)
    BY <1>4, <1>7, Positions DEF Progressed, NoneExpected
  <1>10. GraphGood(r)
    BY <1>4, <1>7, <1>8, <1>9, NoOutcome, NoJobOutcome DEF GraphGood
  <1>11. Position[r.next] = 5 /\ Position[mem.next] = 4
    BY <1>7, Positions
  <1> QED
    BY <1>2, <1>10, <1>11, Positions, ReturnsKeeps

LEMMA InvOneCandidate ==
  ASSUME WorkflowInv, phase = "running", mem.next \in {"single_candidate", "split_candidates"},
         OneCandidate
  PROVE  WorkflowInv' /\ Onward
  <1>1. PICK key \in Keys : Split(<<[key |-> key, link |-> "self"]>>)
    BY DEF OneCandidate
  <1>2. PICK items : items = <<[key |-> key, link |-> "self"]>>
    OBVIOUS
  <1>3. items \in Seq(Item) /\ Len(items) = 1
    BY <1>2 DEF Item, Link
  <1>4. Len(items) <= IF MaxCandidates = 0 THEN 1 ELSE MaxCandidates
    BY <1>3, WorkflowAssumption
  <1> QED
    BY <1>1, <1>2, <1>3, <1>4, InvSplit

LEMMA InvSingleCandidate == WorkflowInv /\ single_candidate => WorkflowInv' /\ Onward
  BY InvOneCandidate DEF single_candidate, At

LEMMA InvSplitCandidates == WorkflowInv /\ split_candidates => WorkflowInv' /\ Onward
  <1> SUFFICES ASSUME WorkflowInv, split_candidates PROVE WorkflowInv' /\ Onward
    OBVIOUS
  <1>1. phase = "running" /\ mem.next = "split_candidates"
    BY DEF split_candidates, At
  <1>2. CASE OneCandidate
    BY <1>1, <1>2, InvOneCandidate
  <1>3. ASSUME NEW page \in Pages, Split(Truncated(page))
        PROVE  WorkflowInv' /\ Onward
    <2>1. page \in Seq(Item) /\ Len(page) \in Nat
      BY WorkflowAssumption, LenProperties
    <2> DEFINE n == IF Len(page) < MaxCandidates THEN Len(page) ELSE MaxCandidates
    <2>2. n \in Nat /\ n <= Len(page) /\ n <= MaxCandidates
      BY <2>1, WorkflowAssumption
    <2>3. Truncated(page) = SubSeq(page, 1, n)
      BY DEF Truncated
    <2> HIDE DEF n
    <2>4. Truncated(page) \in Seq(Item) /\ Len(Truncated(page)) = n
      BY <2>1, <2>2, <2>3, SubSeqProperties
    <2>5. Len(Truncated(page)) <= IF MaxCandidates = 0 THEN 1 ELSE MaxCandidates
      BY <2>2, <2>4, WorkflowAssumption
    <2> QED
      BY <1>1, <1>3, <2>4, <2>5, InvSplit
  <1> QED
    BY <1>2, <1>3 DEF split_candidates

-----------------------------------------------------------------------------
(* From the batch to its outcomes.                                          *)

\* Nothing is claimed as long as no outcome is given.
LEMMA Undecided ==
  ASSUME GraphGood(mem), NEW r \in State,
         r.page_usable = mem.page_usable, r.page_type = mem.page_type, r.outcome = "none",
         Position[mem.next] > 4, Position[r.next] > Position[mem.next],
         Len(r.candidates) <= Len(mem.candidates),
         \A i \in DOMAIN r.candidates :
           /\ Faithful(r.candidates[i]) /\ r.candidates[i].outcome = "none"
           /\ Position[r.next] <= Position["compare_evidence"] => Uncompared(r.candidates[i])
  PROVE  GraphGood(r)
  <1>1. mem \in State /\ Capped(mem) /\ (NoneExpected(mem) => mem.candidates = << >>)
    BY DEF GraphGood, Progressed
  <1>2. /\ Len(mem.candidates) \in Nat /\ Len(r.candidates) \in Nat
        /\ Position[r.next] \in 1 .. 13 /\ Position[mem.next] \in 1 .. 13
        /\ r.candidates \in Seq(Candidate)
    BY <1>1, StateType, PositionInNat
  <1>3. Capped(r)
    BY <1>1, <1>2, WorkflowAssumption DEF Capped
  <1>4. NoneExpected(r) => r.candidates = << >>
    <2> SUFFICES ASSUME NoneExpected(r) PROVE r.candidates = << >>
      OBVIOUS
    <2>1. NoneExpected(mem)
      BY <1>2, Positions DEF NoneExpected
    <2>2. Len(mem.candidates) = 0
      BY <1>1, <2>1
    <2> QED
      BY <1>2, <2>2, EmptySeq
  <1>5. r.next \notin {"classify_page", "split_candidates", "single_candidate"}
    BY <1>2, Positions
  <1>6. Progressed(r)
    BY <1>4, <1>5 DEF Progressed
  <1> QED
    BY <1>3, <1>6, NoOutcome, NoJobOutcome DEF GraphGood

\* What an undecided state gives for the lemma above.
LEMMA SoFar ==
  ASSUME WorkflowInv, Position[mem.next] <= Position["decide"]
  PROVE  /\ mem \in State /\ mem.outcome = "none" /\ GraphGood(mem)
         /\ mem.candidates \in Seq(Candidate) /\ Len(mem.candidates) \in Nat
         /\ DOMAIN mem.candidates = 1 .. Len(mem.candidates)
         /\ \A i \in DOMAIN mem.candidates :
              /\ mem.candidates[i] \in Candidate
              /\ Faithful(mem.candidates[i]) /\ mem.candidates[i].outcome = "none"
              /\ Position[mem.next] <= Position["compare_evidence"] =>
                   Uncompared(mem.candidates[i])
  <1>1. mem \in State
    BY DEF WorkflowInv, GraphGood
  <1>2. mem.outcome = "none" /\ \A i \in DOMAIN mem.candidates : mem.candidates[i].outcome = "none"
    BY DEF WorkflowInv, GraphGood, Progressed
  <1>3. \A i \in DOMAIN mem.candidates :
          /\ Faithful(mem.candidates[i])
          /\ Position[mem.next] <= Position["compare_evidence"] => Uncompared(mem.candidates[i])
    BY DEF WorkflowInv, GraphGood, Progressed
  <1> QED
    BY <1>1, <1>2, <1>3, StateType DEF WorkflowInv

LEMMA InvDedupe == WorkflowInv /\ dedupe_candidates => WorkflowInv' /\ Onward
  <1> SUFFICES ASSUME WorkflowInv, dedupe_candidates PROVE WorkflowInv' /\ Onward
    OBVIOUS
  <1>1. mem.next = "dedupe_candidates" /\ phase = "running" /\ Position[mem.next] = 5
    BY Positions DEF dedupe_candidates, At
  <1>2. /\ mem \in State /\ mem.outcome = "none" /\ GraphGood(mem)
        /\ mem.candidates \in Seq(Candidate) /\ Len(mem.candidates) \in Nat
        /\ DOMAIN mem.candidates = 1 .. Len(mem.candidates)
        /\ \A i \in DOMAIN mem.candidates :
             /\ Faithful(mem.candidates[i]) /\ mem.candidates[i].outcome = "none"
             /\ Uncompared(mem.candidates[i])
    BY <1>1, Positions, SoFar
  <1> DEFINE merged == FoldLeft(merge, << >>, mem.candidates)
  <1>3. Merged(merged, mem.candidates, Len(mem.candidates))
    BY <1>2, MergedAll
  <1>4. PICK r : r = [mem EXCEPT !.candidates = merged, !.next = "extract_facts"]
    OBVIOUS
  <1>5. Returns(r)
    BY <1>4 DEF dedupe_candidates
  <1> HIDE DEF merged
  <1>6. /\ merged \in Seq(Candidate) /\ Len(merged) <= Len(mem.candidates)
        /\ \A i \in DOMAIN merged : \E b \in DOMAIN mem.candidates : merged[i] = mem.candidates[b]
    BY <1>2, <1>3 DEF Merged
  <1>7. /\ r \in State /\ r.next = "extract_facts" /\ r.candidates = merged
        /\ r.page_usable = mem.page_usable /\ r.page_type = mem.page_type /\ r.outcome = "none"
    BY <1>2, <1>4, <1>6, Positions DEF State
  <1>8. \A i \in DOMAIN r.candidates :
          /\ Faithful(r.candidates[i]) /\ r.candidates[i].outcome = "none"
          /\ Uncompared(r.candidates[i])
    BY <1>2, <1>6, <1>7
  <1>9. GraphGood(r)
    BY <1>1, <1>2, <1>6, <1>7, <1>8, Positions, Undecided
  <1> QED
    BY <1>1, <1>5, <1>7, <1>9, Positions, ReturnsKeeps

LEMMA InvExtractFacts == WorkflowInv /\ extract_facts => WorkflowInv' /\ Onward
  <1> SUFFICES ASSUME WorkflowInv, extract_facts PROVE WorkflowInv' /\ Onward
    OBVIOUS
  <1>1. mem.next = "extract_facts" /\ phase = "running" /\ Position[mem.next] = 6
    BY Positions DEF extract_facts, At
  <1>2. PICK r : r = [mem EXCEPT !.next = "find_official_source"]
    OBVIOUS
  <1>3. Returns(r)
    BY <1>2 DEF extract_facts
  <1>4. /\ mem \in State /\ mem.outcome = "none" /\ GraphGood(mem)
        /\ Len(mem.candidates) \in Nat
        /\ \A i \in DOMAIN mem.candidates :
             /\ Faithful(mem.candidates[i]) /\ mem.candidates[i].outcome = "none"
             /\ Uncompared(mem.candidates[i])
    BY <1>1, Positions, SoFar
  <1>5. /\ r \in State /\ r.next = "find_official_source" /\ r.candidates = mem.candidates
        /\ r.page_usable = mem.page_usable /\ r.page_type = mem.page_type /\ r.outcome = "none"
    BY <1>2, <1>4, Positions DEF State
  <1>6. GraphGood(r)
    BY <1>1, <1>4, <1>5, Positions, Undecided
  <1>7. KeysOf(r) = KeysOf(mem)
    BY <1>5 DEF KeysOf
  <1> QED
    BY <1>1, <1>3, <1>5, <1>6, <1>7, Positions, ReturnsKeeps

LEMMA SameKeys ==
  ASSUME NEW r, NEW s, DOMAIN r.candidates = DOMAIN s.candidates,
         \A i \in DOMAIN s.candidates : r.candidates[i].key = s.candidates[i].key
  PROVE  KeysOf(r) = KeysOf(s)
  BY DEF KeysOf

LEMMA InvFindOfficialSource == WorkflowInv /\ find_official_source => WorkflowInv' /\ Onward
  <1> SUFFICES ASSUME WorkflowInv, find_official_source PROVE WorkflowInv' /\ Onward
    OBVIOUS
  <1>1. mem.next = "find_official_source" /\ phase = "running" /\ Position[mem.next] = 7
    BY Positions DEF find_official_source, At
  <1>2. PICK found :
          Returns([mem EXCEPT
            !.candidates = [i \in DOMAIN @ |->
               [@[i] EXCEPT !.official_url = LinkCounts(mem.candidates[i]) \/ i \in found]],
            !.next = "fetch_official"])
    BY DEF find_official_source
  <1> DEFINE looked == [i \in DOMAIN mem.candidates |->
                          [mem.candidates[i] EXCEPT
                             !.official_url = LinkCounts(mem.candidates[i]) \/ i \in found]]
  <1>3. PICK r : r = [mem EXCEPT !.candidates = looked, !.next = "fetch_official"]
    OBVIOUS
  <1>4. Returns(r)
    BY <1>2, <1>3
  <1>5. /\ mem \in State /\ mem.outcome = "none" /\ GraphGood(mem)
        /\ Len(mem.candidates) \in Nat
        /\ DOMAIN mem.candidates = 1 .. Len(mem.candidates)
        /\ \A i \in DOMAIN mem.candidates :
             /\ mem.candidates[i] \in Candidate
             /\ Faithful(mem.candidates[i]) /\ mem.candidates[i].outcome = "none"
             /\ Uncompared(mem.candidates[i])
    BY <1>1, Positions, SoFar
  <1>6. ASSUME NEW i \in DOMAIN mem.candidates
        PROVE  /\ looked[i] \in Candidate /\ looked[i].key = mem.candidates[i].key
               /\ Faithful(looked[i]) /\ looked[i].outcome = "none" /\ Uncompared(looked[i])
    <2>1. (LinkCounts(mem.candidates[i]) \/ i \in found) \in BOOLEAN
      OBVIOUS
    <2>2. PICK c : c = mem.candidates[i]
      OBVIOUS
    <2>3. PICK url \in BOOLEAN :
            c = mem.candidates[i] /\ looked[i] = [c EXCEPT !.official_url = url]
      BY <2>1, <2>2
    <2>4. c \in Candidate /\ Faithful(c) /\ c.outcome = "none" /\ Uncompared(c)
      BY <1>5, <2>2
    <2> HIDE DEF looked
    <2>5. looked[i] \in Candidate /\ looked[i].key = c.key /\ looked[i].outcome = "none"
      BY <2>3, <2>4 DEF Candidate
    <2>6. Faithful(looked[i]) /\ Uncompared(looked[i])
      BY <2>3, <2>4 DEF Faithful, Uncompared, Candidate
    <2> QED
      BY <2>3, <2>5, <2>6
  <1>7. DOMAIN looked = DOMAIN mem.candidates
    OBVIOUS
  <1>8. looked \in [1 .. Len(mem.candidates) -> Candidate]
    BY <1>5, <1>6
  <1> HIDE DEF looked
  <1>9. looked \in Seq(Candidate) /\ Len(looked) = Len(mem.candidates)
    BY <1>5, <1>8, LenProperties
  <1>10. /\ r \in State /\ r.next = "fetch_official" /\ r.candidates = looked
         /\ r.page_usable = mem.page_usable /\ r.page_type = mem.page_type /\ r.outcome = "none"
    BY <1>3, <1>5, <1>9, Positions DEF State
  <1>11. GraphGood(r)
    <2>1. \A i \in DOMAIN r.candidates :
            /\ Faithful(r.candidates[i]) /\ r.candidates[i].outcome = "none"
            /\ Uncompared(r.candidates[i])
      BY <1>6, <1>7, <1>10
    <2>2. Len(r.candidates) <= Len(mem.candidates) /\ Position[r.next] = 8
      BY <1>5, <1>9, <1>10, Positions
    <2> QED
      BY <1>1, <1>5, <1>10, <2>1, <2>2, Positions, Undecided
  <1>12. KeysOf(r) = KeysOf(mem)
    BY <1>6, <1>7, <1>10, SameKeys
  <1> QED
    BY <1>1, <1>4, <1>10, <1>11, <1>12, Positions, ReturnsKeeps

\* A loop has done one more candidate.
LEMMA OneMore ==
  ASSUME WorkflowInv, Len(work) < Len(mem.candidates), NEW c,
         work' = Append(work, c), UNCHANGED <<truth, mem>>,
         c \in Candidate, c.key = Reached.key, Faithful(c), c.outcome = "none",
         mem.next # "compare_evidence" => Uncompared(c)
  PROVE  /\ WorkGood'
         /\ work' \in Seq(Candidate) /\ Len(work') = Len(work) + 1
         /\ DOMAIN work = 1 .. Len(work) /\ DOMAIN work' = 1 .. Len(work) + 1
         /\ Len(work) \in Nat
         /\ work'[Len(work) + 1] = c
         /\ \A i \in DOMAIN work : work'[i] = work[i]
  <1>1. /\ work \in Seq(Candidate) /\ Len(work) \in Nat /\ DOMAIN work = 1 .. Len(work)
        /\ mem.candidates \in Seq(Candidate) /\ Len(mem.candidates) \in Nat
    BY LenProperties DEF WorkflowInv, WorkGood, GraphGood, State
  <1>2. /\ work' \in Seq(Candidate) /\ Len(work') = Len(work) + 1
        /\ DOMAIN work' = 1 .. Len(work) + 1
        /\ work'[Len(work) + 1] = c
        /\ \A i \in DOMAIN work : work'[i] = work[i]
    BY <1>1, AppendProperties, LenProperties
  <1>3. ASSUME NEW i \in DOMAIN work'
        PROVE  /\ work'[i].key = mem'.candidates[i].key
               /\ Faithful(work[i])'
               /\ work'[i].outcome = "none"
               /\ mem'.next # "compare_evidence" => Uncompared(work[i])'
    <2>1. CASE i = Len(work) + 1
      BY <1>2, <2>1 DEF Reached, Faithful, Uncompared
    <2>2. CASE i \in DOMAIN work
      BY <1>2, <2>2 DEF WorkflowInv, WorkGood, Faithful, Uncompared
    <2> QED
      BY <1>1, <1>2, <2>1, <2>2
  <1>4. WorkGood'
    BY <1>1, <1>2, <1>3 DEF WorkGood
  <1> QED
    BY <1>1, <1>2, <1>4

\* The candidate a loop has reached is one of the batch.
LEMMA ReachedOne ==
  ASSUME WorkflowInv, Len(work) < Len(mem.candidates), Position[mem.next] <= Position["decide"]
  PROVE  /\ Len(work) + 1 \in DOMAIN mem.candidates
         /\ Reached \in Candidate /\ Faithful(Reached) /\ Reached.outcome = "none"
         /\ Position[mem.next] <= Position["compare_evidence"] => Uncompared(Reached)
         /\ Reached.key \in Awards(mem) /\ Reached.key \in Keys
  <1>1. Len(work) \in Nat /\ Len(mem.candidates) \in Nat
        /\ DOMAIN mem.candidates = 1 .. Len(mem.candidates)
    BY SoFar, LenProperties DEF WorkflowInv, WorkGood
  <1>2. Len(work) + 1 \in DOMAIN mem.candidates
    BY <1>1
  <1>3. /\ Reached \in Candidate /\ Faithful(Reached) /\ Reached.outcome = "none"
        /\ Position[mem.next] <= Position["compare_evidence"] => Uncompared(Reached)
    BY <1>2, SoFar DEF Reached
  <1>4. Reached.key \in Awards(mem)
    BY <1>2 DEF Awards, Reached
  <1> QED
    BY <1>2, <1>3, <1>4, CandidateType

\* What a loop leaves alone.
LEMMA InLoop ==
  ASSUME WorkflowInv, UNCHANGED <<truth, phase, attempts, saved, mem, faults>>,
         unread' \subseteq Keys, WorkGood', TextGood'
  PROVE  WorkflowInv'
  <1>1. PICK s : s = mem
    OBVIOUS
  <1>2. PICK z : z = saved
    OBVIOUS
  <1>3. GraphGood(s) /\ GraphGood(z) /\ mem' = s /\ saved' = z /\ truth' = truth
    BY <1>1, <1>2 DEF WorkflowInv
  <1>4. GraphGood(mem)' /\ GraphGood(saved)'
    BY <1>3, MemStays, SavedStays
  <1>5. SavedBehind'
    BY DEF WorkflowInv, SavedBehind, KeysOf
  <1> QED
    BY <1>4, <1>5 DEF WorkflowInv

LEMMA InvFetch ==
  ASSUME WorkflowInv, Looping("fetch_official"), Fetch
  PROVE  WorkflowInv'
  <1>1. /\ mem.next = "fetch_official" /\ phase = "running" /\ Len(work) < Len(mem.candidates)
        /\ UNCHANGED <<truth, phase, attempts, saved, mem, reading, faults>>
    BY DEF Looping, At, Fetch
  <1>2. Position[mem.next] <= Position["decide"]
        /\ Position[mem.next] <= Position["compare_evidence"]
    BY <1>1, Positions
  <1>3. PICK c : c \in {Reached, [Reached EXCEPT !.official_page_fetched = TRUE,
                                                 !.evidence = @ \cup {"source"}]}
                 /\ work' = Append(work, c)
    BY DEF Fetch
  <1>4. /\ Reached \in Candidate /\ Faithful(Reached) /\ Reached.outcome = "none"
        /\ Uncompared(Reached) /\ Reached.key \in Awards(mem) /\ Reached.key \in Keys
    BY <1>1, <1>2, ReachedOne
  <1>5. /\ c \in Candidate /\ c.key = Reached.key /\ Faithful(c) /\ c.outcome = "none"
        /\ Uncompared(c)
    <2>1. PICK reached : reached = Reached
      OBVIOUS
    <2>2. CASE c = Reached
      BY <1>4, <2>2
    <2>3. CASE c = [reached EXCEPT !.official_page_fetched = TRUE,
                                   !.evidence = @ \cup {"source"}]
      <3>1. reached \in Candidate /\ Faithful(reached) /\ Uncompared(reached)
            /\ reached.outcome = "none"
        BY <1>4, <2>1
      <3>2. c \in Candidate /\ c.key = reached.key /\ c.outcome = "none"
        BY <2>3, <3>1 DEF Candidate, Claim
      <3>3. Faithful(c) /\ Uncompared(c)
        BY <2>3, <3>1 DEF Faithful, Uncompared, Candidate
      <3> QED
        BY <2>1, <3>2, <3>3
    <2> QED
      BY <1>3, <2>1, <2>2, <2>3
  <1>6. WorkGood'
    BY <1>1, <1>3, <1>5, OneMore
  <1>7. official_text' \subseteq official_text \cup {Reached.key}
    BY DEF Fetch
  <1>8. TextGood'
    <2>1. official_text' \subseteq Keys /\ TextsConsumed'
      BY <1>1, <1>2, <1>4, <1>7, Positions DEF WorkflowInv, TextGood, TextsConsumed
    <2>2. reading' = FALSE /\ mem'.next = "fetch_official" /\ phase' = "running"
      BY <1>1 DEF WorkflowInv, TextGood
    <2> QED
      BY <2>1, <2>2 DEF TextGood
  <1>9. unread' \subseteq Keys
    BY <1>4 DEF Fetch, WorkflowInv
  <1> QED
    BY <1>1, <1>6, <1>8, <1>9, InLoop

\* All candidates are done, each with the award it had.
LEMMA WholeWork ==
  ASSUME WorkflowInv, Len(work) = Len(mem.candidates)
  PROVE  /\ work \in Seq(Candidate) /\ Len(work) \in Nat
         /\ DOMAIN work = DOMAIN mem.candidates /\ DOMAIN work = 1 .. Len(work)
         /\ \A i \in DOMAIN work :
              /\ work[i].key = mem.candidates[i].key
              /\ Faithful(work[i]) /\ work[i].outcome = "none"
              /\ mem.next # "compare_evidence" => Uncompared(work[i])
  <1>1. /\ work \in Seq(Candidate) /\ Len(work) \in Nat /\ DOMAIN work = 1 .. Len(work)
        /\ DOMAIN mem.candidates = 1 .. Len(mem.candidates)
    BY LenProperties DEF WorkflowInv, WorkGood, GraphGood, State
  <1> QED
    BY <1>1 DEF WorkflowInv, WorkGood

LEMMA InvFetchEnds ==
  ASSUME WorkflowInv, LoopEnds("fetch_official", "compare_evidence")
  PROVE  WorkflowInv' /\ Onward
  <1>1. /\ mem.next = "fetch_official" /\ phase = "running" /\ Position[mem.next] = 8
        /\ Len(work) = Len(mem.candidates)
    BY Positions DEF LoopEnds, At
  <1>2. PICK r : r = [mem EXCEPT !.candidates = work, !.next = "compare_evidence"]
    OBVIOUS
  <1>3. Returns(r)
    BY <1>2 DEF LoopEnds
  <1>4. mem \in State /\ mem.outcome = "none" /\ GraphGood(mem)
    BY <1>1, Positions, SoFar
  <1>5. /\ work \in Seq(Candidate) /\ Len(work) \in Nat
        /\ DOMAIN work = DOMAIN mem.candidates
        /\ \A i \in DOMAIN work :
             /\ work[i].key = mem.candidates[i].key
             /\ Faithful(work[i]) /\ work[i].outcome = "none" /\ Uncompared(work[i])
    BY <1>1, WholeWork
  <1>6. /\ r \in State /\ r.next = "compare_evidence" /\ r.candidates = work
        /\ r.page_usable = mem.page_usable /\ r.page_type = mem.page_type /\ r.outcome = "none"
    BY <1>2, <1>4, <1>5, Positions DEF State
  <1>7. GraphGood(r)
    <2>1. Len(r.candidates) <= Len(mem.candidates) /\ Position[r.next] = 9
      BY <1>1, <1>5, <1>6, Positions
    <2> QED
      BY <1>1, <1>4, <1>5, <1>6, <2>1, Positions, Undecided
  <1>8. KeysOf(r) = KeysOf(mem)
    BY <1>5, <1>6, SameKeys
  <1>9. Position[r.next] = 9
    BY <1>6, Positions
  <1> QED
    BY <1>1, <1>3, <1>7, <1>8, <1>9, Positions, ReturnsKeeps

-----------------------------------------------------------------------------
(* Comparing a candidate with its page.                                     *)

LEMMA InvPopText ==
  ASSUME WorkflowInv, Looping("compare_evidence"), ~reading, PopText
  PROVE  WorkflowInv'
  <1>1. /\ mem.next = "compare_evidence" /\ phase = "running" /\ Len(work) < Len(mem.candidates)
        /\ UNCHANGED <<truth, phase, attempts, saved, mem, faults>>
        /\ official_text' = official_text \ {Reached.key}
        /\ reading' \in BOOLEAN /\ unread' \subseteq Keys
    BY DEF Looping, At, PopText, WorkflowInv
  <1>2. official_text' \subseteq Keys /\ TextsConsumed'
    BY <1>1 DEF WorkflowInv, TextGood, TextsConsumed, Awards
  <1>3. \A i \in DOMAIN work : work[i].key \notin official_text'
    BY <1>1 DEF WorkflowInv, TextGood
  <1>4. CASE reading'
    <2>1. work' = work
      BY <1>4 DEF PopText
    <2>2. WorkGood'
      BY <1>1, <2>1 DEF WorkflowInv, WorkGood, Faithful, Uncompared
    <2>3. TextGood'
      BY <1>1, <1>2, <1>3, <2>1 DEF TextGood, Reached
    <2> QED
      BY <1>1, <2>2, <2>3, InLoop
  <1>5. CASE ~reading'
    <2>1. work' = Append(work, Reached)
      BY <1>5 DEF PopText
    <2>2. Position[mem.next] <= Position["decide"]
      BY <1>1, Positions
    <2>3. Reached \in Candidate /\ Faithful(Reached) /\ Reached.outcome = "none"
      BY <1>1, <2>2, ReachedOne
    <2>4. PICK c : c = Reached
      OBVIOUS
    <2>5. /\ WorkGood'
          /\ DOMAIN work = 1 .. Len(work) /\ DOMAIN work' = 1 .. Len(work) + 1
          /\ Len(work) \in Nat
          /\ work'[Len(work) + 1] = c
          /\ \A i \in DOMAIN work : work'[i] = work[i]
      BY <1>1, <2>1, <2>3, <2>4, OneMore
    <2>6. \A i \in DOMAIN work' : work'[i].key \notin official_text'
      <3>1. \A i \in DOMAIN work' : i \in DOMAIN work \/ i = Len(work) + 1
        BY <2>5
      <3> QED
        BY <1>1, <1>3, <2>4, <2>5, <3>1
    <2>7. TextGood'
      BY <1>1, <1>2, <1>5, <2>6 DEF TextGood
    <2> QED
      BY <1>1, <2>5, <2>7, InLoop
  <1> QED
    BY <1>4, <1>5

\* The verdicts are the page's, or unknown; evidence needs agreement.
LEMMA Settled ==
  ASSUME truth \in Truths, NEW c \in Candidate, Faithful(c), Uncompared(c),
         c.outcome = "none", NEW answer
  PROVE  LET d    == _settle_agreement(c, answer)
             page == truth[c.key]
         IN  /\ d \in Candidate /\ d.key = c.key /\ d.outcome = "none" /\ Faithful(d)
             /\ d.official_url = c.official_url
             /\ d.official_page_fetched = c.official_page_fetched
             /\ d.eligibility_rules = c.eligibility_rules
             /\ answer = "completed" =>
                  /\ d.amount_agrees = page.funding /\ d.deadline_agrees = page.deadline
                  /\ d.contradictions = page.flagged
                  /\ d.evidence = c.evidence \cup
                       {path \in REQUIRED_CLAIMS : page[path] = "agrees"}
  <1> DEFINE page == truth[c.key]
             v == [path \in REQUIRED_CLAIMS |-> Verdict(page, path, answer)]
             d == _settle_agreement(c, answer)
  <1>1. c.key \in Keys /\ c.evidence \subseteq {"source"} /\ c.eligibility_rules \in BOOLEAN
        /\ page \in Truth
    BY CandidateType, TruthType DEF Uncompared
  <1>2. page.funding \in Agreement /\ page.deadline \in Agreement /\ page.flagged \in BOOLEAN
    BY <1>1 DEF Truth
  <1>3. /\ v["funding"] \in {"unknown", page.funding}
        /\ v["deadline"] \in {"unknown", page.deadline}
        /\ answer = "completed" => \A path \in REQUIRED_CLAIMS : v[path] = page[path]
    BY DEF Verdict, REQUIRED_CLAIMS
  <1>4. d = [c EXCEPT
               !.amount_agrees = v["funding"],
               !.deadline_agrees = v["deadline"],
               !.contradictions = answer = "completed" /\ page.flagged,
               !.evidence = c.evidence \cup {path \in REQUIRED_CLAIMS : v[path] = "agrees"}]
    BY DEF _settle_agreement, PageRead
  <1> DEFINE agreed == {path \in REQUIRED_CLAIMS : v[path] = "agrees"}
  <1>5. /\ agreed \subseteq REQUIRED_CLAIMS
        /\ "funding" \in agreed => v["funding"] = "agrees"
        /\ "deadline" \in agreed => v["deadline"] = "agrees"
        /\ answer = "completed" =>
             agreed = {path \in REQUIRED_CLAIMS : page[path] = "agrees"}
    BY <1>3
  <1>6. PICK flagged \in BOOLEAN :
          flagged = (answer = "completed" /\ page.flagged)
    OBVIOUS
  <1>7. d = [c EXCEPT !.amount_agrees = v["funding"], !.deadline_agrees = v["deadline"],
                      !.contradictions = flagged, !.evidence = c.evidence \cup agreed]
    BY <1>4, <1>6
  <1>8. v["funding"] \in Agreement /\ v["deadline"] \in Agreement
    BY <1>2, <1>3 DEF Agreement
  <1> HIDE DEF v, d, agreed
  <1>9. /\ d.amount_agrees = v["funding"] /\ d.deadline_agrees = v["deadline"]
        /\ d.contradictions = flagged /\ d.evidence = c.evidence \cup agreed
        /\ d.key = c.key /\ d.outcome = "none"
        /\ d.official_url = c.official_url
        /\ d.official_page_fetched = c.official_page_fetched
        /\ d.eligibility_rules = c.eligibility_rules
    BY <1>7 DEF Candidate
  <1>10. d \in Candidate
    BY <1>1, <1>5, <1>7, <1>8 DEF Candidate, Claim, REQUIRED_CLAIMS
  <1> HIDE DEF page
  <1>11. Faithful(d)
    <2>1. c.eligibility_rules => page.rules
      BY DEF Faithful, page
    <2> QED
      BY <1>1, <1>3, <1>5, <1>9, <2>1 DEF Faithful, page
  <1>12. answer = "completed" =>
           /\ d.amount_agrees = page.funding /\ d.deadline_agrees = page.deadline
           /\ d.contradictions = page.flagged
           /\ d.evidence = c.evidence \cup
                {path \in REQUIRED_CLAIMS : page[path] = "agrees"}
    BY <1>2, <1>3, <1>5, <1>6, <1>9 DEF REQUIRED_CLAIMS
  <1> QED
    BY <1>9, <1>10, <1>11, <1>12 DEF d, page

LEMMA InvCompare ==
  ASSUME WorkflowInv, Looping("compare_evidence"), reading, Compare
  PROVE  WorkflowInv'
  <1>1. /\ mem.next = "compare_evidence" /\ phase = "running" /\ Len(work) < Len(mem.candidates)
        /\ UNCHANGED <<truth, phase, attempts, saved, mem, official_text, faults>>
        /\ reading' = FALSE
    BY DEF Looping, At, Compare
  <1>2. PICK answer \in Answers : work' = Append(work, _settle_agreement(Reached, answer))
    BY DEF Compare
  <1>3. Position[mem.next] <= Position["decide"]
        /\ Position[mem.next] <= Position["compare_evidence"]
    BY <1>1, Positions
  <1>4. PICK reached : reached = Reached
    OBVIOUS
  <1>5. reached \in Candidate /\ Faithful(reached) /\ reached.outcome = "none"
        /\ Uncompared(reached)
    BY <1>1, <1>3, <1>4, ReachedOne
  <1>6. PICK c : c = _settle_agreement(reached, answer)
    OBVIOUS
  <1>7. c \in Candidate /\ c.key = reached.key /\ c.outcome = "none" /\ Faithful(c)
    BY <1>5, <1>6, Settled DEF WorkflowInv
  <1>8. /\ WorkGood'
        /\ DOMAIN work = 1 .. Len(work) /\ DOMAIN work' = 1 .. Len(work) + 1
        /\ Len(work) \in Nat
        /\ work'[Len(work) + 1] = c
        /\ \A i \in DOMAIN work : work'[i] = work[i]
    BY <1>1, <1>2, <1>4, <1>6, <1>7, OneMore
  <1>9. Reached.key \notin official_text /\ \A i \in DOMAIN work : work[i].key \notin official_text
    BY <1>1 DEF WorkflowInv, TextGood
  <1>10. \A i \in DOMAIN work' : work'[i].key \notin official_text'
    <2>1. \A i \in DOMAIN work' : i \in DOMAIN work \/ i = Len(work) + 1
      BY <1>8
    <2> QED
      BY <1>1, <1>4, <1>7, <1>8, <1>9, <2>1
  <1>11. TextGood'
    BY <1>1, <1>10 DEF WorkflowInv, TextGood, TextsConsumed, Awards
  <1>12. unread' \subseteq Keys
    BY <1>4, <1>5, CandidateType DEF Compare, WorkflowInv
  <1> QED
    BY <1>1, <1>8, <1>11, <1>12, InLoop

\* With every candidate compared no text of the batch is left.
LEMMA InvCompareEnds ==
  ASSUME WorkflowInv, LoopEnds("compare_evidence", "extract_eligibility")
  PROVE  WorkflowInv' /\ Onward
  <1>1. /\ mem.next = "compare_evidence" /\ phase = "running" /\ Position[mem.next] = 9
        /\ Len(work) = Len(mem.candidates)
    BY Positions DEF LoopEnds, At
  <1>2. PICK r : r = [mem EXCEPT !.candidates = work, !.next = "extract_eligibility"]
    OBVIOUS
  <1>3. Returns(r)
    BY <1>2 DEF LoopEnds
  <1>4. mem \in State /\ mem.outcome = "none" /\ GraphGood(mem)
    BY <1>1, Positions, SoFar
  <1>5. /\ work \in Seq(Candidate) /\ Len(work) \in Nat
        /\ DOMAIN work = DOMAIN mem.candidates
        /\ \A i \in DOMAIN work :
             /\ work[i].key = mem.candidates[i].key
             /\ Faithful(work[i]) /\ work[i].outcome = "none"
    BY <1>1, WholeWork
  <1>6. /\ r \in State /\ r.next = "extract_eligibility" /\ r.candidates = work
        /\ r.page_usable = mem.page_usable /\ r.page_type = mem.page_type /\ r.outcome = "none"
    BY <1>2, <1>4, <1>5, Positions DEF State
  <1>7. GraphGood(r)
    <2>1. Len(r.candidates) <= Len(mem.candidates) /\ Position[r.next] = 10
      BY <1>1, <1>5, <1>6, Positions
    <2>2. ~(Position[r.next] <= Position["compare_evidence"])
      BY <2>1, Positions
    <2> QED
      BY <1>1, <1>4, <1>5, <1>6, <2>1, <2>2, Positions, Undecided
  <1>8. KeysOf(r) = KeysOf(mem)
    BY <1>5, <1>6, SameKeys
  <1>9. official_text \cap Awards(r) = {}
    <2>1. \A i \in DOMAIN work : work[i].key \notin official_text
      BY <1>1 DEF WorkflowInv, TextGood
    <2> QED
      BY <1>6, <2>1 DEF Awards
  <1>10. /\ Position[r.next] > Position[mem.next] /\ Finish(r)
         /\ official_text' = official_text /\ unread' = unread
    BY <1>1, <1>3, <1>6, Positions DEF Returns
  <1> QED
    BY <1>1, <1>7, <1>8, <1>9, <1>10, FinishKeeps DEF WorkflowInv, TextGood

-----------------------------------------------------------------------------
(* The rules of an award, and the outcomes.                                 *)

LEMMA InvExtractEligibility == WorkflowInv /\ extract_eligibility => WorkflowInv' /\ Onward
  <1> SUFFICES ASSUME WorkflowInv, extract_eligibility PROVE WorkflowInv' /\ Onward
    OBVIOUS
  <1>1. mem.next = "extract_eligibility" /\ phase = "running" /\ Position[mem.next] = 10
    BY Positions DEF extract_eligibility, At
  <1>2. PICK answers \in [DOMAIN mem.candidates -> Answers] :
          /\ Finish([mem EXCEPT
               !.candidates = [i \in DOMAIN @ |->
                  [@[i] EXCEPT !.eligibility_rules =
                     answers[i] = "completed" /\ truth[mem.candidates[i].key].rules]],
               !.next = "decide"])
          /\ unread' = unread \cup
               {mem.candidates[i].key : i \in {n \in DOMAIN answers : answers[n] # "completed"}}
    BY DEF extract_eligibility
  <1> DEFINE ruled == [i \in DOMAIN mem.candidates |->
                         [mem.candidates[i] EXCEPT !.eligibility_rules =
                            answers[i] = "completed" /\ truth[mem.candidates[i].key].rules]]
  <1>3. PICK r : r = [mem EXCEPT !.candidates = ruled, !.next = "decide"]
    OBVIOUS
  <1>4. Finish(r) /\ official_text' = official_text
    BY <1>2, <1>3 DEF extract_eligibility
  <1>5. /\ mem \in State /\ mem.outcome = "none" /\ GraphGood(mem)
        /\ Len(mem.candidates) \in Nat
        /\ DOMAIN mem.candidates = 1 .. Len(mem.candidates)
        /\ \A i \in DOMAIN mem.candidates :
             /\ mem.candidates[i] \in Candidate
             /\ Faithful(mem.candidates[i]) /\ mem.candidates[i].outcome = "none"
    BY <1>1, Positions, SoFar
  <1>6. ASSUME NEW i \in DOMAIN mem.candidates
        PROVE  /\ ruled[i] \in Candidate /\ ruled[i].key = mem.candidates[i].key
               /\ Faithful(ruled[i]) /\ ruled[i].outcome = "none"
    <2>1. PICK c : c = mem.candidates[i]
      OBVIOUS
    <2>2. PICK rules \in BOOLEAN :
            rules = (answers[i] = "completed" /\ truth[c.key].rules)
      OBVIOUS
    <2>3. ruled[i] = [c EXCEPT !.eligibility_rules = rules]
      BY <2>1, <2>2
    <2>4. c \in Candidate /\ Faithful(c) /\ c.outcome = "none"
      BY <1>5, <2>1
    <2> HIDE DEF ruled
    <2>5. ruled[i] \in Candidate /\ ruled[i].key = c.key /\ ruled[i].outcome = "none"
      BY <2>3, <2>4 DEF Candidate
    <2>6. Faithful(ruled[i])
      BY <2>2, <2>3, <2>4 DEF Faithful, Candidate
    <2> QED
      BY <2>1, <2>5, <2>6
  <1>7. DOMAIN ruled = DOMAIN mem.candidates
    OBVIOUS
  <1>8. ruled \in [1 .. Len(mem.candidates) -> Candidate]
    BY <1>5, <1>6
  <1> HIDE DEF ruled
  <1>9. ruled \in Seq(Candidate) /\ Len(ruled) = Len(mem.candidates)
    BY <1>5, <1>8, LenProperties
  <1>10. /\ r \in State /\ r.next = "decide" /\ r.candidates = ruled
         /\ r.page_usable = mem.page_usable /\ r.page_type = mem.page_type /\ r.outcome = "none"
    BY <1>3, <1>5, <1>9, Positions DEF State
  <1>11. GraphGood(r)
    <2>1. \A i \in DOMAIN r.candidates :
            Faithful(r.candidates[i]) /\ r.candidates[i].outcome = "none"
      BY <1>6, <1>7, <1>10
    <2>2. Len(r.candidates) <= Len(mem.candidates) /\ Position[r.next] = 11
      BY <1>5, <1>9, <1>10, Positions
    <2>3. ~(Position[r.next] <= Position["compare_evidence"])
      BY <2>2, Positions
    <2>4. \A i \in DOMAIN r.candidates :
            /\ Faithful(r.candidates[i]) /\ r.candidates[i].outcome = "none"
            /\ Position[r.next] <= Position["compare_evidence"] => Uncompared(r.candidates[i])
      BY <2>1, <2>3
    <2>5. Position[mem.next] > 4 /\ Position[r.next] > Position[mem.next]
      BY <1>1, <2>2
    <2> QED
      BY <1>5, <1>10, <2>2, <2>4, <2>5, Undecided
  <1>12. KeysOf(r) = KeysOf(mem)
    BY <1>6, <1>7, <1>10, SameKeys
  <1>13. unread' \subseteq Keys
    <2>1. \A i \in DOMAIN mem.candidates : mem.candidates[i].key \in Keys
      BY <1>5, CandidateType
    <2>2. DOMAIN answers = DOMAIN mem.candidates
      BY <1>2
    <2> QED
      BY <1>2, <2>1, <2>2 DEF WorkflowInv
  <1>14. official_text \cap Awards(r) = {} /\ official_text \subseteq Keys
    <2>1. Awards(r) = Awards(mem)
      BY <1>12, SameAwards
    <2> QED
      BY <1>1, <2>1, Positions DEF WorkflowInv, TextGood, TextsConsumed
  <1>15. Position[r.next] = 11
    BY <1>10, Positions
  <1> QED
    BY <1>1, <1>4, <1>11, <1>12, <1>13, <1>14, <1>15, FinishKeeps

\* The policy claims only what the evidence covers.
LEMMA PolicySupported ==
  ASSUME NEW c \in Candidate, Faithful(c)
  PROVE  /\ decide_outcome(c) \in AgentOutcome
         /\ decide_outcome(c) = "REJECT_RECOMMENDED" => Differs(c.key)
         /\ decide_outcome(c) = "REVIEW_REQUIRED" => Agrees(c.key)
         /\ decide_outcome(c) = "AUTO_CHECK_ELIGIBLE" => Agrees(c.key) /\ truth[c.key].rules
  <1>1. decide_outcome(c) \in AgentOutcome
    BY DEF decide_outcome, AgentOutcome
  <1>2. Contradicted(c) => Differs(c.key)
    BY DEF Contradicted, Differs, Faithful
  <1>3. ~Incomplete(c) => Agrees(c.key)
    <2> SUFFICES ASSUME ~Incomplete(c) PROVE Agrees(c.key)
      OBVIOUS
    <2>1. "funding" \in c.evidence /\ "deadline" \in c.evidence
      BY DEF Incomplete, _missing_claims, REQUIRED_CLAIMS
    <2> QED
      BY <2>1 DEF Faithful, Agrees
  <1>4. Corroborated(c) => truth[c.key].rules
    BY DEF Corroborated, Faithful
  <1> QED
    BY <1>1, <1>2, <1>3, <1>4 DEF decide_outcome

\* The job's outcome is a candidate's, and the one that asks most of a human.
LEMMA RollUp ==
  ASSUME NEW candidates, candidates # << >>, DOMAIN candidates # {},
         \A i \in DOMAIN candidates : candidates[i].outcome \in AgentOutcome
  PROVE  /\ \E i \in DOMAIN candidates : roll_up(candidates) = candidates[i].outcome
         /\ roll_up(candidates) = "AUTO_CHECK_ELIGIBLE" =>
              \A i \in DOMAIN candidates : candidates[i].outcome = "AUTO_CHECK_ELIGIBLE"
  <1> DEFINE ranks == {i \in DOMAIN Attention :
                         \E k \in DOMAIN candidates : candidates[k].outcome = Attention[i]}
  <1>1. /\ DOMAIN Attention = 1 .. 4
        /\ Attention[1] = "REVIEW_REQUIRED" /\ Attention[2] = "REJECT_RECOMMENDED"
        /\ Attention[3] = "MORE_EVIDENCE_REQUIRED" /\ Attention[4] = "AUTO_CHECK_ELIGIBLE"
    BY DEF Attention
  <1>2. \A k \in DOMAIN candidates : \E i \in ranks : candidates[k].outcome = Attention[i]
    BY <1>1 DEF AgentOutcome
  <1>3. roll_up(candidates) = Attention[Min(ranks)]
    BY DEF roll_up
  <1>4. ranks \subseteq 1 .. 4 /\ ranks # {}
    BY <1>1, <1>2
  <1>5. \A i \in ranks : \E k \in DOMAIN candidates : candidates[k].outcome = Attention[i]
    OBVIOUS
  <1> HIDE DEF ranks
  <1>6. PICK least \in ranks : \A i \in ranks : least <= i
    <2>1. CASE 1 \in ranks
      BY <1>4, <2>1
    <2>2. CASE 1 \notin ranks /\ 2 \in ranks
      BY <1>4, <2>2
    <2>3. CASE 1 \notin ranks /\ 2 \notin ranks /\ 3 \in ranks
      BY <1>4, <2>3
    <2>4. CASE 1 \notin ranks /\ 2 \notin ranks /\ 3 \notin ranks
      <3>1. \A i \in ranks : i = 4
        BY <1>4, <2>4
      <3>2. 4 \in ranks
        BY <1>4, <3>1
      <3> QED
        BY <3>1, <3>2
    <2> QED
      BY <2>1, <2>2, <2>3, <2>4
  <1>7. Min(ranks) = least
    <2>1. ranks \in SUBSET Nat
      BY <1>4
    <2> QED
      BY <1>6, <2>1, MinOf
  <1>8. \E i \in DOMAIN candidates : roll_up(candidates) = candidates[i].outcome
    BY <1>3, <1>5, <1>6, <1>7
  <1>9. ASSUME roll_up(candidates) = "AUTO_CHECK_ELIGIBLE", NEW k \in DOMAIN candidates
        PROVE  candidates[k].outcome = "AUTO_CHECK_ELIGIBLE"
    <2>1. least = 4
      BY <1>1, <1>3, <1>4, <1>6, <1>7, <1>9
    <2>2. \A i \in ranks : i = 4
      BY <1>4, <1>6, <2>1
    <2> QED
      BY <1>1, <1>2, <2>2
  <1> QED
    BY <1>8, <1>9

\* What decide leaves, whatever the job is settled by.
LEMMA InvDecide == WorkflowInv /\ decide => WorkflowInv' /\ Onward
  <1> SUFFICES ASSUME WorkflowInv, decide PROVE WorkflowInv' /\ Onward
    OBVIOUS
  <1>1. mem.next = "decide" /\ phase = "running" /\ Position[mem.next] = 11
    BY Positions DEF decide, At
  <1> DEFINE settled == IF ~mem.page_usable THEN "MORE_EVIDENCE_REQUIRED"
                        ELSE outcome_for_page_type(mem.page_type)
             Or(outcome) == IF settled = "none" THEN outcome ELSE settled
             decided == [i \in DOMAIN mem.candidates |->
                           [mem.candidates[i] EXCEPT
                              !.outcome = Or(decide_outcome(mem.candidates[i]))]]
  <1>2. PICK r : r = [mem EXCEPT !.candidates = decided, !.outcome = Or(roll_up(decided)),
                                 !.next = "submit_to_product"]
    OBVIOUS
  <1>3. Returns(r)
    BY <1>2 DEF decide
  <1>4. /\ mem \in State /\ GraphGood(mem) /\ Len(mem.candidates) \in Nat
        /\ mem.candidates \in Seq(Candidate)
        /\ DOMAIN mem.candidates = 1 .. Len(mem.candidates)
        /\ \A i \in DOMAIN mem.candidates :
             mem.candidates[i] \in Candidate /\ Faithful(mem.candidates[i])
    BY <1>1, Positions, SoFar
  <1>5. /\ ~mem.page_usable \/ mem.page_type = "not_a_scholarship" => mem.candidates = << >>
        /\ settled \in AgentOutcome \cup {"none"}
        /\ settled # "none" => ~mem.page_usable \/ mem.page_type = "not_a_scholarship"
        /\ settled = "REJECT_RECOMMENDED" =>
             mem.page_usable /\ mem.page_type = "not_a_scholarship"
        /\ settled # "AUTO_CHECK_ELIGIBLE"
    <2>1. ~mem.page_usable \/ mem.page_type = "not_a_scholarship" => mem.candidates = << >>
      BY DEF WorkflowInv, GraphGood, Progressed, NoneExpected
    <2> QED
      BY <1>4, <2>1, StateType DEF outcome_for_page_type, AgentOutcome
  <1>6. ASSUME NEW i \in DOMAIN mem.candidates
        PROVE  /\ decided[i] \in Candidate /\ decided[i].key = mem.candidates[i].key
               /\ decided[i].outcome = decide_outcome(mem.candidates[i])
               /\ decided[i].outcome \in AgentOutcome
               /\ Faithful(decided[i]) /\ Supported(decided[i])
    <2>1. PICK c : c = mem.candidates[i]
      OBVIOUS
    <2>2. c \in Candidate /\ Faithful(c)
      BY <1>4, <2>1
    <2>3. settled = "none"
      <3>1. DOMAIN mem.candidates # {}
        OBVIOUS
      <3>2. mem.candidates # << >>
        BY <3>1
      <3> QED
        BY <1>5, <3>2
    <2>4. decided[i] = [c EXCEPT !.outcome = decide_outcome(c)]
      BY <2>1, <2>3
    <2> HIDE DEF settled, decided
    <2>5. decide_outcome(c) \in AgentOutcome
      BY <2>2, PolicySupported
    <2>6. decided[i] \in Candidate /\ decided[i].key = c.key
          /\ decided[i].outcome = decide_outcome(c)
      BY <2>2, <2>4, <2>5 DEF Candidate
    <2>7. Faithful(decided[i])
      BY <2>2, <2>4 DEF Faithful, Candidate
    <2>8. Supported(decided[i])
      BY <2>2, <2>6, PolicySupported DEF Supported
    <2> QED
      BY <2>1, <2>5, <2>6, <2>7, <2>8
  <1>7. DOMAIN decided = DOMAIN mem.candidates
    OBVIOUS
  <1>8. decided \in [1 .. Len(mem.candidates) -> Candidate]
    BY <1>4, <1>6
  <1> DEFINE outcome == Or(roll_up(decided))
  <1>9. r = [mem EXCEPT !.candidates = decided, !.outcome = outcome,
                        !.next = "submit_to_product"]
    BY <1>2
  <1> HIDE DEF decided
  <1>10. decided \in Seq(Candidate) /\ Len(decided) = Len(mem.candidates)
    BY <1>4, <1>8, LenProperties
  <1>11. decided = << >> => roll_up(decided) = "MORE_EVIDENCE_REQUIRED"
    BY DEF roll_up
  <1>12. decided # << >> =>
           /\ DOMAIN decided # {}
           /\ \E i \in DOMAIN decided : roll_up(decided) = decided[i].outcome
           /\ roll_up(decided) = "AUTO_CHECK_ELIGIBLE" =>
                \A i \in DOMAIN decided : decided[i].outcome = "AUTO_CHECK_ELIGIBLE"
    <2>1. decided # << >> => DOMAIN decided # {}
      <3>1. Len(decided) = 0 => decided = << >>
        BY <1>10, EmptySeq
      <3>2. Len(decided) \in Nat /\ DOMAIN decided = 1 .. Len(decided)
        BY <1>10, LenProperties
      <3>3. Len(decided) # 0 => 1 \in DOMAIN decided
        BY <3>2
      <3> QED
        BY <3>1, <3>3
    <2>2. \A i \in DOMAIN decided : decided[i].outcome \in AgentOutcome
      BY <1>6, <1>7
    <2> QED
      BY <2>1, <2>2, RollUp
  <1>13. outcome \in AgentOutcome
    <2>1. roll_up(decided) \in AgentOutcome
      BY <1>6, <1>7, <1>11, <1>12 DEF AgentOutcome
    <2> QED
      BY <1>5, <2>1
  <1>14. outcome \in {settled, roll_up(decided)} /\ (outcome = settled \/ settled = "none")
    OBVIOUS
  <1> HIDE DEF settled, outcome, Or
  <1>15. /\ r \in State /\ r.next = "submit_to_product" /\ r.candidates = decided
         /\ r.page_usable = mem.page_usable /\ r.page_type = mem.page_type
         /\ r.outcome = outcome
    BY <1>4, <1>9, <1>10, <1>13, Positions DEF State
  <1>16. JobSupported(r)
    <2>1. CASE r.outcome = "AUTO_CHECK_ELIGIBLE"
      <3>1. roll_up(decided) = "AUTO_CHECK_ELIGIBLE" /\ decided # << >>
        BY <1>5, <1>11, <1>14, <1>15, <2>1
      <3>2. DOMAIN decided # {} /\ \A i \in DOMAIN decided :
              Agrees(decided[i].key) /\ truth[decided[i].key].rules
        BY <1>6, <1>7, <1>12, <3>1 DEF Supported
      <3>3. Awards(r) # {} /\ \A key \in Awards(r) : Agrees(key) /\ truth[key].rules
        BY <1>15, <3>2 DEF Awards
      <3> QED
        BY <2>1, <3>3 DEF JobSupported
    <2>2. CASE r.outcome = "REJECT_RECOMMENDED"
      <3>1. CASE settled = "REJECT_RECOMMENDED"
        BY <1>5, <1>15, <2>2, <3>1 DEF JobSupported
      <3>2. CASE settled # "REJECT_RECOMMENDED"
        <4>1. settled = "none" /\ roll_up(decided) = "REJECT_RECOMMENDED" /\ decided # << >>
          BY <1>11, <1>14, <1>15, <2>2, <3>2
        <4>2. PICK i \in DOMAIN decided : decided[i].outcome = "REJECT_RECOMMENDED"
          BY <1>12, <4>1
        <4>3. Differs(decided[i].key) /\ decided[i].key \in Awards(r)
          BY <1>6, <1>7, <1>15, <4>2 DEF Supported, Awards
        <4>4. mem.page_usable
          <5>1. mem.candidates # << >>
            BY <1>7, <4>2
          <5> QED
            BY <1>5, <5>1
        <4> QED
          BY <1>15, <2>2, <4>3, <4>4 DEF JobSupported
      <3> QED
        BY <3>1, <3>2
    <2> QED
      BY <2>1, <2>2 DEF JobSupported
  <1>17. Capped(r)
    BY <1>10, <1>15 DEF WorkflowInv, GraphGood, Capped
  <1>18. Progressed(r)
    <2>1. Position[r.next] = 12
      BY <1>15, Positions
    <2>2. NoneExpected(r) => r.candidates = << >>
      <3> SUFFICES ASSUME NoneExpected(r) PROVE r.candidates = << >>
        OBVIOUS
      <3>1. mem.candidates = << >>
        BY <1>5, <1>15, <2>1, Positions DEF NoneExpected
      <3>2. Len(decided) = 0
        BY <1>10, <3>1
      <3> QED
        BY <1>10, <1>15, <3>2, EmptySeq
    <2> QED
      BY <1>15, <2>1, <2>2, Positions DEF Progressed
  <1>19. GraphGood(r)
    BY <1>6, <1>7, <1>15, <1>16, <1>17, <1>18 DEF GraphGood
  <1>20. KeysOf(r) = KeysOf(mem)
    BY <1>6, <1>7, <1>15, SameKeys
  <1> QED
    BY <1>1, <1>3, <1>15, <1>19, <1>20, Positions, ReturnsKeeps

LEMMA InvSubmit == WorkflowInv /\ submit_to_product => WorkflowInv' /\ Onward
  <1> SUFFICES ASSUME WorkflowInv, submit_to_product PROVE WorkflowInv' /\ Onward
    OBVIOUS
  <1>1. mem.next = "submit_to_product" /\ phase = "running" /\ Position[mem.next] = 12
    BY Positions DEF submit_to_product, At
  <1>2. PICK r : r = [mem EXCEPT !.next = "END"]
    OBVIOUS
  <1>3. Returns(r)
    BY <1>2 DEF submit_to_product
  <1>4. GraphGood(mem) /\ mem \in State
    BY DEF WorkflowInv, GraphGood
  <1>5. /\ r \in State /\ r.next = "END" /\ r.candidates = mem.candidates
        /\ r.page_usable = mem.page_usable /\ r.page_type = mem.page_type
        /\ r.outcome = mem.outcome /\ Position[r.next] = 13
    BY <1>2, <1>4, Positions DEF State
  <1>6. Progressed(r)
    <2>1. NoneExpected(r) => NoneExpected(mem)
      BY <1>1, <1>5, Positions DEF NoneExpected
    <2> QED
      BY <1>4, <1>5, <2>1, Positions DEF GraphGood, Progressed
  <1>7. JobSupported(r) /\ Capped(r)
    BY <1>4, <1>5 DEF GraphGood, JobSupported, Awards, Capped
  <1>8. GraphGood(r)
    BY <1>4, <1>5, <1>6, <1>7 DEF GraphGood
  <1>9. KeysOf(r) = KeysOf(mem)
    BY <1>5 DEF KeysOf
  <1> QED
    BY <1>1, <1>3, <1>5, <1>8, <1>9, Positions, ReturnsKeeps

-----------------------------------------------------------------------------
(* The invariant, and what follows from it.                                 *)

LEMMA InvStutter == WorkflowInv /\ UNCHANGED wvars => WorkflowInv'
  <1> SUFFICES ASSUME WorkflowInv, UNCHANGED wvars PROVE WorkflowInv'
    OBVIOUS
  <1>1. UNCHANGED <<truth, phase, attempts, saved, mem, work, reading, official_text, unread,
                    faults>>
    BY DEF wvars
  <1>2. WorkGood' /\ TextGood'
    BY <1>1 DEF WorkflowInv, WorkGood, TextGood, TextsConsumed, Awards, Reached,
       Faithful, Uncompared
  <1> QED
    BY <1>1, <1>2, InLoop DEF WorkflowInv

LEMMA InvNext == WorkflowInv /\ [Next]_wvars => WorkflowInv' /\ Onward
  <1> SUFFICES ASSUME WorkflowInv, [Next]_wvars PROVE WorkflowInv' /\ Onward
    OBVIOUS
  <1>1. CASE Start \/ Complete \/ Abort \/ CloseLost \/ Crash
    <2>1. Onward
      BY <1>1 DEF Start, Complete, Abort, CloseLost, Crash, Onward
    <2> QED
      BY <1>1, <2>1, InvStart, InvComplete, InvAbort, InvCloseLost, InvCrash
  <1>2. CASE load_discovery \/ fetch_source \/ classify_page
    BY <1>2, InvLoadDiscovery, InvFetchSource, InvClassifyPage
  <1>3. CASE single_candidate \/ split_candidates \/ dedupe_candidates
    BY <1>3, InvSingleCandidate, InvSplitCandidates, InvDedupe
  <1>4. CASE extract_facts \/ find_official_source
    BY <1>4, InvExtractFacts, InvFindOfficialSource
  <1>5. CASE fetch_official
    <2>1. CASE Looping("fetch_official") /\ Fetch
      <3>1. Onward
        BY <2>1 DEF Fetch, Onward
      <3> QED
        BY <2>1, <3>1, InvFetch
    <2>2. CASE LoopEnds("fetch_official", "compare_evidence")
      BY <2>2, InvFetchEnds
    <2> QED
      BY <1>5, <2>1, <2>2 DEF fetch_official
  <1>6. CASE compare_evidence
    <2>1. CASE Looping("compare_evidence") /\ ~reading /\ PopText
      <3>1. Onward
        BY <2>1 DEF PopText, Onward
      <3> QED
        BY <2>1, <3>1, InvPopText
    <2>2. CASE Looping("compare_evidence") /\ reading /\ Compare
      <3>1. Onward
        BY <2>2 DEF Compare, Onward
      <3> QED
        BY <2>2, <3>1, InvCompare
    <2>3. CASE LoopEnds("compare_evidence", "extract_eligibility")
      BY <2>3, InvCompareEnds
    <2> QED
      BY <1>6, <2>1, <2>2, <2>3 DEF compare_evidence
  <1>7. CASE extract_eligibility \/ decide \/ submit_to_product
    BY <1>7, InvExtractEligibility, InvDecide, InvSubmit
  <1>8. CASE UNCHANGED wvars
    <2>1. Onward
      BY <1>8 DEF wvars, Onward
    <2> QED
      BY <1>8, <2>1, InvStutter
  <1> QED
    BY <1>1, <1>2, <1>3, <1>4, <1>5, <1>6, <1>7, <1>8 DEF Next, Step

\* Whatever pages say, models answer and attempts are interrupted: the graph
\* and what is saved of it are good, and the second is behind the first.
THEOREM WorkflowInvariant == Spec => []WorkflowInv
  BY InvInit, InvNext, PTL DEF Spec

\* Types, and the cap on what one page may cost.
THEOREM WorkflowTypesCorrect == Spec => []WorkflowTypeOK
  <1>1. WorkflowInv => WorkflowTypeOK
    BY DEF WorkflowInv, WorkflowTypeOK, GraphGood, Capped, WorkGood, TextGood
  <1> QED
    BY <1>1, WorkflowInvariant, PTL

\* No outcome of a candidate claims what its award's page does not bear out.
THEOREM OutcomesSupported == Spec => []OutcomeSupported
  <1>1. WorkflowInv => OutcomeSupported
    BY DEF WorkflowInv, GraphGood, OutcomeSupported
  <1> QED
    BY <1>1, WorkflowInvariant, PTL

\* Neither does the job's.
THEOREM JobOutcomesSupported == Spec => []JobOutcomeSupported
  <1>1. WorkflowInv => JobOutcomeSupported
    BY DEF WorkflowInv, GraphGood, JobOutcomeSupported
  <1> QED
    BY <1>1, WorkflowInvariant, PTL

\* Once compared, no award of the batch has a text left in the process, however
\* many attempts were made and whatever each could fetch.
THEOREM ComparisonTakesTexts == Spec => []TextsConsumed
  <1>1. WorkflowInv => TextsConsumed
    BY DEF WorkflowInv, TextGood
  <1> QED
    BY <1>1, WorkflowInvariant, PTL

\* No attempt repeats a node whose checkpoint was written.
THEOREM CheckpointsGoForward == Spec => NoWorkRedone
  <1>1. WorkflowInv /\ [Next]_wvars => [Position[saved'.next] >= Position[saved.next]]_wvars
    <2> SUFFICES ASSUME WorkflowInv, [Next]_wvars
                 PROVE  Position[saved'.next] >= Position[saved.next]
      OBVIOUS
    <2>1. Onward /\ Position[saved.next] <= Position[mem.next]
      BY InvNext DEF WorkflowInv, SavedBehind
    <2>2. Position[mem.next] \in 1 .. 13 /\ Position[saved.next] \in 1 .. 13
          /\ Position[mem'.next] \in 1 .. 13
      BY InvNext, PositionsOfGraph, StateType, PositionInNat DEF WorkflowInv, GraphGood
    <2> QED
      BY <2>1, <2>2 DEF Onward
  <1> QED
    BY <1>1, WorkflowInvariant, PTL DEF Spec, NoWorkRedone

\* Once formed, the batch is the one of every later checkpoint.
THEOREM BatchIsKept == Spec => BatchKept
  <1>1. WorkflowInv /\ [Next]_wvars =>
          [Position[saved.next] > Position["dedupe_candidates"] =>
             KeysOf(saved') = KeysOf(saved)]_wvars
    <2> SUFFICES ASSUME WorkflowInv, [Next]_wvars,
                        Position[saved.next] > Position["dedupe_candidates"]
                 PROVE  KeysOf(saved') = KeysOf(saved)
      OBVIOUS
    <2>1. Onward /\ Position[saved.next] <= Position[mem.next] /\ KeysOf(saved) = KeysOf(mem)
      BY InvNext DEF WorkflowInv, SavedBehind
    <2>2. Position[mem.next] > Position["dedupe_candidates"]
      BY <2>1, PositionsOfGraph, Positions
    <2> QED
      BY <2>1, <2>2 DEF Onward
  <1> QED
    BY <1>1, WorkflowInvariant, PTL DEF Spec, BatchKept

-----------------------------------------------------------------------------
(* Merging, in the terms of the property.                                   *)

LEMMA MergedKeeps ==
  ASSUME NEW before \in Seq(Candidate), NEW after, Merged(after, before, Len(before))
  PROVE  KeepsAwards(before, after)
  <1> DEFINE n == Len(before)
             Same(key)   == {i \in DOMAIN before : before[i].key = key}
             Linked(key) == {i \in Same(key) : before[i].link # "none"}
             Best(key)   == IF Linked(key) = {} THEN Min(Same(key)) ELSE Min(Linked(key))
  <1>1. n \in Nat /\ DOMAIN before = 1 .. n
    BY LenProperties
  <1>2. \A key : Same(key) \in SUBSET Nat /\ Linked(key) \in SUBSET Nat
    BY <1>1
  <1>3. \A i, j \in DOMAIN after : after[i].key = after[j].key => i = j
    BY DEF Merged
  <1>4. {before[i].key : i \in DOMAIN before} = {after[i].key : i \in DOMAIN after}
    <2>1. \A k \in DOMAIN before : \E i \in DOMAIN after : after[i].key = before[k].key
      BY <1>1 DEF Merged
    <2>2. \A i \in DOMAIN after : \E k \in DOMAIN before : after[i].key = before[k].key
      BY <1>1 DEF Merged
    <2> QED
      BY <2>1, <2>2
  <1>5. ASSUME NEW i \in DOMAIN after
        PROVE  after[i] = before[Best(after[i].key)]
    <2>1. PICK b \in 1 .. n : after[i] = before[b] /\ IsBest(before, n, b)
      BY DEF Merged
    <2> DEFINE key == after[i].key
    <2>2. b \in Same(key)
      BY <1>1, <2>1
    <2>3. CASE before[b].link = "none"
      <3>1. \A k \in Same(key) : before[k].link = "none" /\ b <= k
        BY <1>1, <2>1, <2>3 DEF IsBest
      <3>2. Linked(key) = {}
        BY <3>1
      <3>3. Min(Same(key)) = b
        <4> HIDE DEF Same
        <4> QED
          BY <1>2, <2>2, <3>1, MinOf
      <3> QED
        BY <2>1, <3>2, <3>3
    <2>4. CASE before[b].link # "none"
      <3>1. \A k \in Linked(key) : b <= k
        BY <1>1, <2>1, <2>4 DEF IsBest
      <3>2. b \in Linked(key)
        BY <2>2, <2>4
      <3>3. Min(Linked(key)) = b
        <4> HIDE DEF Linked
        <4> QED
          BY <1>2, <3>1, <3>2, MinOf
      <3> QED
        BY <2>1, <3>2, <3>3
    <2> QED
      BY <2>3, <2>4
  <1>6. ASSUME NEW p \in 1 .. n, First(before, p)
        PROVE  Min(Same(before[p].key)) = p
    <2>1. p \in Same(before[p].key)
      BY <1>1
    <2>2. \A k \in Same(before[p].key) : p <= k
      <3> SUFFICES ASSUME NEW k \in 1 .. n, before[k].key = before[p].key, k < p
                   PROVE  FALSE
        BY <1>1
      <3>1. k \in 1 .. p - 1
        OBVIOUS
      <3> QED
        BY <1>6, <3>1 DEF First
    <2> HIDE DEF Same
    <2> QED
      BY <1>2, <2>1, <2>2, MinOf
  <1>7. ASSUME NEW i \in DOMAIN after, NEW j \in DOMAIN after, i < j
        PROVE  Min(Same(after[i].key)) < Min(Same(after[j].key))
    <2>1. PICK p \in 1 .. n : First(before, p) /\ before[p].key = after[i].key
      BY DEF Merged
    <2>2. PICK q \in 1 .. n : First(before, q) /\ before[q].key = after[j].key
      BY DEF Merged
    <2>3. p < q
      BY <1>7, <2>1, <2>2 DEF Merged
    <2>4. Min(Same(after[i].key)) = p /\ Min(Same(after[j].key)) = q
      BY <1>6, <2>1, <2>2
    <2> QED
      BY <2>3, <2>4
  <1> QED
    BY <1>3, <1>4, <1>5, <1>7 DEF KeepsAwards

\* Only dedupe_candidates takes the graph from there to extract_facts.
LEMMA OnlyDedupe ==
  ASSUME WorkflowInv, [Next]_wvars, At("dedupe_candidates"), mem'.next = "extract_facts"
  PROVE  dedupe_candidates
  <1>1. phase = "running" /\ mem.next = "dedupe_candidates"
    BY DEF At
  <1>2. CASE Crash
    <2>1. Position[saved.next] = 6
      BY <1>2, Positions DEF Crash
    <2> QED
      BY <1>1, <2>1, Positions DEF WorkflowInv, SavedBehind
  <1>3. CASE Start \/ Complete \/ Abort \/ CloseLost \/ UNCHANGED wvars
    BY <1>1, <1>3 DEF Start, CLAIMABLE_STATES, Complete, At, Abort, CloseLost, wvars
  <1>4. CASE load_discovery \/ fetch_source \/ classify_page \/ single_candidate
             \/ split_candidates \/ extract_facts \/ find_official_source
    BY <1>1, <1>4 DEF load_discovery, fetch_source, classify_page, single_candidate,
       split_candidates, extract_facts, find_official_source, At
  <1>5. CASE fetch_official \/ compare_evidence \/ extract_eligibility \/ decide
             \/ submit_to_product
    BY <1>1, <1>5 DEF fetch_official, compare_evidence, extract_eligibility, decide,
       submit_to_product, Looping, LoopEnds, At
  <1> QED
    BY <1>2, <1>3, <1>4, <1>5 DEF Next, Step

\* Merging loses no award, leaves each once and in its place, and keeps of each
\* the first with a link, or the first.
THEOREM MergingKeepsAwards == Spec => MergeKeepsAwards
  <1>1. WorkflowInv /\ [Next]_wvars =>
          [At("dedupe_candidates") /\ mem'.next = "extract_facts" =>
             KeepsAwards(mem.candidates, mem'.candidates)]_wvars
    <2> SUFFICES ASSUME WorkflowInv, [Next]_wvars, At("dedupe_candidates"),
                        mem'.next = "extract_facts"
                 PROVE  KeepsAwards(mem.candidates, mem'.candidates)
      OBVIOUS
    <2>1. PICK before : before = mem.candidates
      OBVIOUS
    <2>2. PICK after : after = FoldLeft(merge, << >>, before)
      OBVIOUS
    <2>3. mem \in State /\ before \in Seq(Candidate)
      BY <2>1 DEF WorkflowInv, GraphGood, State
    <2>4. mem'.candidates = after
      BY <2>1, <2>2, <2>3, OnlyDedupe DEF dedupe_candidates, Returns, Finish, State
    <2>5. KeepsAwards(before, after)
      BY <2>2, <2>3, MergedAll, MergedKeeps
    <2> QED
      BY <2>1, <2>4, <2>5
  <1> QED
    BY <1>1, WorkflowInvariant, PTL DEF Spec, MergeKeepsAwards

-----------------------------------------------------------------------------
(* Runs that nothing interrupts.                                            *)

\* What the invariant asks of a state that a node returns.
LEMMA ExactFinish ==
  ASSUME NEW r, Finish(r), phase = "running", unread \subseteq unread',
         Position[r.next] > Position["dedupe_candidates"] => Distinct(r.candidates),
         Position[r.next] <= Position["fetch_official"] =>
           \A i \in DOMAIN r.candidates :
             r.candidates[i].evidence = {} /\ ~r.candidates[i].official_page_fetched,
         r.next = "compare_evidence" =>
           \A i \in DOMAIN r.candidates :
             /\ Sourced(r.candidates[i])
             /\ r.candidates[i].official_page_fetched /\ r.candidates[i].key \notin unread' =>
                  r.candidates[i].key \in official_text',
         r.next \in {"extract_eligibility", "decide"} =>
           \A i \in DOMAIN r.candidates : Read(r.candidates[i]),
         r.next = "decide" =>
           \A i \in DOMAIN r.candidates : r.candidates[i].key \notin unread' =>
             r.candidates[i].eligibility_rules = truth[r.candidates[i].key].rules,
         Position[r.next] > Position["decide"] =>
           \A i \in DOMAIN r.candidates : r.candidates[i].key \notin unread' =>
             r.candidates[i].outcome = Deserved(r.candidates[i])
  PROVE  ExactInv'
  <1>1. mem' = r /\ truth' = truth /\ phase' = "running" /\ DOMAIN work' = {}
    BY DEF Finish
  <1>2. Position[mem'.next] > Position["dedupe_candidates"] => Distinct(mem.candidates)'
    BY <1>1 DEF Distinct
  <1>3. mem'.next = "compare_evidence" =>
          \A i \in DOMAIN mem'.candidates :
            Sourced(mem.candidates[i])' /\ HasText(mem.candidates[i])'
    BY <1>1 DEF Sourced, HasText
  <1>4. mem'.next \in {"extract_eligibility", "decide"} =>
          \A i \in DOMAIN mem'.candidates : Read(mem.candidates[i])'
    BY <1>1 DEF Read
  <1>5. Exact'
    BY <1>1 DEF Exact, Deserved, Differs, Agrees
  <1> QED
    BY <1>1, <1>2, <1>3, <1>4, <1>5 DEF ExactInv

\* Without candidates there is nothing to get wrong.
LEMMA ExactEmpty ==
  ASSUME NEW r, Returns(r), phase = "running", r.candidates = << >>
  PROVE  ExactInv'
  <1>1. DOMAIN r.candidates = {}
    OBVIOUS
  <1>2. Distinct(r.candidates)
    BY <1>1 DEF Distinct
  <1> QED
    BY <1>1, <1>2, ExactFinish DEF Returns

LEMMA ExactBeforeSplit ==
  ASSUME WorkflowInv, load_discovery \/ fetch_source \/ classify_page
  PROVE  ExactInv'
  <1>1. mem \in State /\ mem.candidates = << >> /\ phase = "running"
    BY BeforeSplit DEF WorkflowInv, load_discovery, fetch_source, classify_page, At
  <1>2. PICK r : r = mem'
    OBVIOUS
  <1>3. Returns(r) /\ r.candidates = mem.candidates
    BY <1>1, <1>2 DEF load_discovery, fetch_source, classify_page, Returns, Finish, State
  <1> QED
    BY <1>1, <1>3, ExactEmpty

LEMMA ExactSplit ==
  ASSUME WorkflowInv, single_candidate \/ split_candidates
  PROVE  ExactInv'
  <1>1. mem \in State /\ phase = "running"
    BY DEF WorkflowInv, GraphGood, single_candidate, split_candidates, At
  <1>2. PICK items : Split(items)
    BY DEF single_candidate, split_candidates, OneCandidate
  <1> DEFINE candidates == [i \in DOMAIN items |-> _new_candidate(items[i])]
  <1>3. PICK r : r = [mem EXCEPT !.candidates = candidates, !.next = "dedupe_candidates"]
    OBVIOUS
  <1>4. Finish(r) /\ unread' = unread
    BY <1>2, <1>3 DEF Split, Returns
  <1>5. \A i \in DOMAIN candidates :
          candidates[i].evidence = {} /\ ~candidates[i].official_page_fetched
    BY DEF _new_candidate
  <1> HIDE DEF candidates
  <1>6. r.candidates = candidates /\ r.next = "dedupe_candidates"
    BY <1>1, <1>3 DEF State
  <1>7. Position[r.next] = 5
    BY <1>6, Positions
  <1> QED
    BY <1>1, <1>4, <1>5, <1>6, <1>7, Positions, ExactFinish

\* Before the fetch nothing is recorded of a page.
LEMMA NothingRecorded ==
  ASSUME ExactInv, Position[mem.next] <= Position["fetch_official"], NEW i \in DOMAIN mem.candidates
  PROVE  mem.candidates[i].evidence = {} /\ ~mem.candidates[i].official_page_fetched
  BY DEF ExactInv

LEMMA ExactDedupe ==
  ASSUME WorkflowInv, ExactInv, dedupe_candidates
  PROVE  ExactInv'
  <1>1. mem.next = "dedupe_candidates" /\ phase = "running" /\ Position[mem.next] = 5
        /\ mem \in State
    BY Positions DEF dedupe_candidates, At, WorkflowInv, GraphGood
  <1>2. mem.candidates \in Seq(Candidate) /\ Len(mem.candidates) \in Nat
        /\ DOMAIN mem.candidates = 1 .. Len(mem.candidates)
    BY <1>1, StateType
  <1> DEFINE merged == FoldLeft(merge, << >>, mem.candidates)
  <1>3. Merged(merged, mem.candidates, Len(mem.candidates))
    BY <1>2, MergedAll
  <1>4. PICK r : r = [mem EXCEPT !.candidates = merged, !.next = "extract_facts"]
    OBVIOUS
  <1>5. Finish(r) /\ unread' = unread
    BY <1>4 DEF dedupe_candidates, Returns
  <1> HIDE DEF merged
  <1>6. /\ Distinct(merged)
        /\ \A i \in DOMAIN merged : \E b \in DOMAIN mem.candidates : merged[i] = mem.candidates[b]
    BY <1>2, <1>3 DEF Merged, Distinct
  <1>7. r.candidates = merged /\ r.next = "extract_facts"
    BY <1>1, <1>4 DEF State
  <1>8. \A i \in DOMAIN merged : merged[i].evidence = {} /\ ~merged[i].official_page_fetched
    BY <1>1, <1>6, Positions, NothingRecorded
  <1>9. Position[r.next] = 6
    BY <1>7, Positions
  <1> QED
    BY <1>1, <1>5, <1>6, <1>7, <1>8, <1>9, Positions, ExactFinish

\* The awards of a batch stay distinct as long as their keys stay.
LEMMA DistinctStays ==
  ASSUME ExactInv, Position[mem.next] > Position["dedupe_candidates"],
         NEW candidates, DOMAIN candidates = DOMAIN mem.candidates,
         \A i \in DOMAIN mem.candidates : candidates[i].key = mem.candidates[i].key
  PROVE  Distinct(candidates)
  BY DEF ExactInv, Distinct

LEMMA ExactExtractFacts ==
  ASSUME WorkflowInv, ExactInv, extract_facts
  PROVE  ExactInv'
  <1>1. mem.next = "extract_facts" /\ phase = "running" /\ Position[mem.next] = 6
        /\ mem \in State
    BY Positions DEF extract_facts, At, WorkflowInv, GraphGood
  <1>2. PICK r : r = [mem EXCEPT !.next = "find_official_source"]
    OBVIOUS
  <1>3. Finish(r) /\ unread' = unread /\ r.candidates = mem.candidates
        /\ r.next = "find_official_source"
    BY <1>1, <1>2 DEF extract_facts, Returns, State
  <1>4. Distinct(r.candidates)
    BY <1>1, <1>3, Positions, DistinctStays
  <1>5. \A i \in DOMAIN r.candidates :
          r.candidates[i].evidence = {} /\ ~r.candidates[i].official_page_fetched
    BY <1>1, <1>3, Positions, NothingRecorded
  <1>6. Position[r.next] = 7
    BY <1>3, Positions
  <1> QED
    BY <1>1, <1>3, <1>4, <1>5, <1>6, Positions, ExactFinish

LEMMA ExactFindOfficialSource ==
  ASSUME WorkflowInv, ExactInv, find_official_source
  PROVE  ExactInv'
  <1>1. mem.next = "find_official_source" /\ phase = "running" /\ Position[mem.next] = 7
        /\ mem \in State
    BY Positions DEF find_official_source, At, WorkflowInv, GraphGood
  <1>2. PICK found :
          Returns([mem EXCEPT
            !.candidates = [i \in DOMAIN @ |->
               [@[i] EXCEPT !.official_url = LinkCounts(mem.candidates[i]) \/ i \in found]],
            !.next = "fetch_official"])
    BY DEF find_official_source
  <1> DEFINE looked == [i \in DOMAIN mem.candidates |->
                          [mem.candidates[i] EXCEPT
                             !.official_url = LinkCounts(mem.candidates[i]) \/ i \in found]]
  <1>3. PICK r : r = [mem EXCEPT !.candidates = looked, !.next = "fetch_official"]
    OBVIOUS
  <1>4. Finish(r) /\ unread' = unread
    BY <1>2, <1>3 DEF Returns
  <1>5. \A i \in DOMAIN mem.candidates :
          /\ looked[i].key = mem.candidates[i].key
          /\ looked[i].evidence = {} /\ ~looked[i].official_page_fetched
    <2>1. \A i \in DOMAIN mem.candidates : mem.candidates[i] \in Candidate
      BY <1>1, StateType
    <2> QED
      BY <1>1, <2>1, Positions, NothingRecorded DEF Candidate
  <1>6. DOMAIN looked = DOMAIN mem.candidates
    OBVIOUS
  <1> HIDE DEF looked
  <1>7. Distinct(looked)
    BY <1>1, <1>5, <1>6, Positions, DistinctStays
  <1>8. r.candidates = looked /\ r.next = "fetch_official"
    BY <1>1, <1>3 DEF State
  <1>9. Position[r.next] = 8
    BY <1>8, Positions
  <1> QED
    BY <1>1, <1>4, <1>5, <1>6, <1>7, <1>8, <1>9, Positions, ExactFinish

\* One turn of the loop that fetches: a page that has a text leaves it.
LEMMA ExactFetch ==
  ASSUME WorkflowInv, ExactInv, Looping("fetch_official"), Fetch
  PROVE  ExactInv'
  <1>1. /\ mem.next = "fetch_official" /\ phase = "running" /\ Len(work) < Len(mem.candidates)
        /\ UNCHANGED <<truth, phase, attempts, saved, mem, reading, faults>>
    BY DEF Looping, At, Fetch
  <1>2. Position[mem.next] = 8 /\ Position[mem.next] <= Position["decide"]
        /\ Position[mem.next] <= Position["fetch_official"]
    BY <1>1, Positions
  <1>3. /\ Reached \in Candidate /\ Len(work) + 1 \in DOMAIN mem.candidates
        /\ Reached.evidence = {} /\ ~Reached.official_page_fetched
    <2>1. Reached \in Candidate /\ Len(work) + 1 \in DOMAIN mem.candidates
      BY <1>1, <1>2, ReachedOne
    <2> QED
      BY <1>2, <2>1, NothingRecorded DEF Reached
  <1>4. PICK reached : reached = Reached
    OBVIOUS
  <1>5. PICK c : /\ work' = Append(work, c) /\ Sourced(c)
                 /\ c.official_page_fetched /\ c.key \notin unread' => c.key \in official_text'
    <2>1. CASE /\ ~Reached.official_url \/ "failed" \in Fetches
               /\ work' = Append(work, Reached)
      BY <1>3, <2>1 DEF Sourced
    <2>2. CASE /\ Reached.official_url
               /\ work' = Append(work, [Reached EXCEPT !.official_page_fetched = TRUE,
                                                       !.evidence = @ \cup {"source"}])
               /\ Reached.key \in official_text' \/ Reached.key \in unread'
      <3>1. PICK c : c = [reached EXCEPT !.official_page_fetched = TRUE,
                                         !.evidence = @ \cup {"source"}]
        OBVIOUS
      <3>2. c.official_url /\ c.evidence = {"source"} /\ c.key = Reached.key
        BY <1>3, <1>4, <2>2, <3>1 DEF Candidate
      <3>3. work' = Append(work, c)
        BY <1>4, <2>2, <3>1
      <3> QED
        BY <2>2, <3>2, <3>3 DEF Sourced
    <2> QED
      BY <2>1, <2>2 DEF Fetch
  <1>6. unread \subseteq unread' /\ \A key \in official_text \ unread' : key \in official_text'
    BY DEF Fetch
  <1>7. \A i \in DOMAIN work' : Sourced(work'[i]) /\
          (work'[i].official_page_fetched /\ work'[i].key \notin unread' =>
             work'[i].key \in official_text')
    <2>1. work \in Seq(Candidate) /\ Len(work) \in Nat /\ DOMAIN work = 1 .. Len(work)
      BY LenProperties DEF WorkflowInv, WorkGood
    <2>2. /\ DOMAIN work' = 1 .. Len(work) + 1
          /\ work'[Len(work) + 1] = c
          /\ \A i \in DOMAIN work : work'[i] = work[i]
      BY <1>5, <2>1
    <2>3. \A i \in DOMAIN work : Sourced(work[i]) /\
            (work[i].official_page_fetched /\ work[i].key \notin unread =>
               work[i].key \in official_text)
      BY <1>1 DEF ExactInv, HasText
    <2>4. \A i \in DOMAIN work' : i \in DOMAIN work \/ i = Len(work) + 1
      BY <2>1, <2>2
    <2> QED
      BY <1>5, <1>6, <2>2, <2>3, <2>4
  <1>8. Distinct(mem.candidates)' /\ \A i \in DOMAIN mem'.candidates :
          mem'.candidates[i].evidence = {} /\ ~mem'.candidates[i].official_page_fetched
    BY <1>1, <1>2, Positions DEF ExactInv, Distinct
  <1>9. Exact'
    BY <1>1, <1>2, Positions DEF Exact
  <1>10. \A i \in DOMAIN work' : Sourced(work[i])' /\ HasText(work[i])'
    BY <1>7 DEF Sourced, HasText
  <1> QED
    BY <1>1, <1>8, <1>9, <1>10 DEF ExactInv

LEMMA ExactFetchEnds ==
  ASSUME WorkflowInv, ExactInv, LoopEnds("fetch_official", "compare_evidence")
  PROVE  ExactInv'
  <1>1. /\ mem.next = "fetch_official" /\ phase = "running" /\ Position[mem.next] = 8
        /\ Len(work) = Len(mem.candidates) /\ mem \in State
    BY Positions DEF LoopEnds, At, WorkflowInv, GraphGood
  <1>2. PICK r : r = [mem EXCEPT !.candidates = work, !.next = "compare_evidence"]
    OBVIOUS
  <1>3. Finish(r) /\ official_text' = official_text /\ unread' = unread
    BY <1>2 DEF LoopEnds, Returns
  <1>4. r.candidates = work /\ r.next = "compare_evidence"
    BY <1>1, <1>2 DEF State
  <1>5. DOMAIN work = DOMAIN mem.candidates
        /\ \A i \in DOMAIN work : work[i].key = mem.candidates[i].key
    BY <1>1, WholeWork
  <1>6. Distinct(work)
    BY <1>1, <1>5, Positions, DistinctStays
  <1>7. \A i \in DOMAIN work : Sourced(work[i])
          /\ (work[i].official_page_fetched /\ work[i].key \notin unread' =>
                work[i].key \in official_text')
    BY <1>1, <1>3 DEF ExactInv, HasText
  <1>8. Position[r.next] = 9
    BY <1>4, Positions
  <1> QED
    BY <1>1, <1>3, <1>4, <1>6, <1>7, <1>8, Positions, ExactFinish

\* What the invariant asks inside the loop that compares.
LEMMA ExactComparing ==
  ASSUME WorkflowInv, ExactInv, mem.next = "compare_evidence", phase = "running",
         UNCHANGED <<truth, phase, mem>>, unread \subseteq unread',
         \A i \in DOMAIN mem.candidates :
           i > Len(work') /\ ~(reading' /\ i = Len(work') + 1) =>
             (mem.candidates[i].official_page_fetched /\ mem.candidates[i].key \notin unread' =>
                mem.candidates[i].key \in official_text'),
         \A i \in DOMAIN work' : work'[i].key \in unread' \/ Read(work'[i])
  PROVE  ExactInv'
  <1>1. Position[mem.next] = 9
    BY Positions
  <1>2. Distinct(mem.candidates)'
    BY <1>1, Positions DEF ExactInv, Distinct
  <1>3. \A i \in DOMAIN mem'.candidates :
          /\ Sourced(mem.candidates[i])'
          /\ i > Len(work') /\ ~(reading' /\ i = Len(work') + 1) => HasText(mem.candidates[i])'
    BY DEF ExactInv, Sourced, HasText
  <1>4. \A i \in DOMAIN work' : Read(work[i])'
    BY DEF Read
  <1>5. Exact'
    BY <1>1, Positions DEF Exact
  <1> QED
    BY <1>1, <1>2, <1>3, <1>4, <1>5, Positions DEF ExactInv

\* A text that is not there was never fetched or its page has none; a text that
\* is popped is that of no other candidate.
LEMMA ExactPopText ==
  ASSUME WorkflowInv, ExactInv, Looping("compare_evidence"), ~reading, PopText
  PROVE  ExactInv'
  <1>1. /\ mem.next = "compare_evidence" /\ phase = "running" /\ Len(work) < Len(mem.candidates)
        /\ UNCHANGED <<truth, phase, attempts, saved, mem, unread, faults>>
        /\ official_text' = official_text \ {Reached.key}
        /\ reading' = (Reached.official_page_fetched /\ Reached.key \in official_text)
        /\ work' = IF reading' THEN work ELSE Append(work, Reached)
    BY DEF Looping, At, PopText
  <1>2. /\ work \in Seq(Candidate) /\ Len(work) \in Nat /\ DOMAIN work = 1 .. Len(work)
        /\ DOMAIN mem.candidates = 1 .. Len(mem.candidates) /\ Len(mem.candidates) \in Nat
        /\ \A i \in DOMAIN mem.candidates : mem.candidates[i] \in Candidate
    BY LenProperties, StateType DEF WorkflowInv, WorkGood, GraphGood
  <1> DEFINE next == Len(work) + 1
  <1>3. next \in DOMAIN mem.candidates /\ Reached = mem.candidates[next] /\ Reached \in Candidate
    BY <1>1, <1>2 DEF Reached
  <1>4. \A i \in DOMAIN mem.candidates : i >= next =>
          (mem.candidates[i].official_page_fetched /\ mem.candidates[i].key \notin unread =>
             mem.candidates[i].key \in official_text)
    BY <1>1, <1>2 DEF ExactInv, HasText
  <1>5. \A i \in DOMAIN mem.candidates : i > next =>
          (mem.candidates[i].official_page_fetched /\ mem.candidates[i].key \notin unread =>
             mem.candidates[i].key \in official_text')
    <2>1. \A i \in DOMAIN mem.candidates : i > next => mem.candidates[i].key # Reached.key
      <3>1. Position[mem.next] > Position["dedupe_candidates"]
        BY <1>1, Positions
      <3>2. Distinct(mem.candidates)
        BY <3>1 DEF ExactInv
      <3> QED
        BY <1>2, <1>3, <3>2 DEF Distinct
    <2> QED
      BY <1>1, <1>2, <1>4, <2>1
  <1>6. \A i \in DOMAIN work : Read(work[i])
    BY <1>1 DEF ExactInv
  <1> HIDE DEF next
  <1>7. CASE reading'
    <2>1. work' = work
      BY <1>1, <1>7
    <2>2. \A i \in DOMAIN mem.candidates :
            i > Len(work') /\ ~(reading' /\ i = Len(work') + 1) => i > next
      BY <1>2, <1>7, <2>1 DEF next
    <2> QED
      BY <1>1, <1>5, <1>6, <2>1, <2>2, ExactComparing
  <1>8. CASE ~reading'
    <2>1. work' = Append(work, Reached)
      BY <1>1, <1>8
    <2>2. ~(Reached.official_page_fetched /\ Reached.key \notin unread)
      <3>1. Reached.official_page_fetched /\ Reached.key \notin unread =>
              Reached.key \in official_text
        BY <1>2, <1>3, <1>4 DEF next
      <3> QED
        BY <1>1, <1>8, <3>1
    <2>3. /\ DOMAIN work' = 1 .. next /\ Len(work') = next /\ work'[next] = Reached
          /\ \A i \in DOMAIN work : work'[i] = work[i]
      <3>1. PICK c \in Candidate : c = Reached /\ work' = Append(work, c)
        BY <1>3, <2>1
      <3> QED
        BY <1>2, <3>1, AppendProperties DEF next
    <2>4. Read(Reached)
      BY <2>2 DEF Read
    <2>5. \A i \in DOMAIN work' : Read(work'[i])
      <3>1. \A i \in DOMAIN work' : i \in DOMAIN work \/ i = next
        BY <1>2, <2>3 DEF next
      <3> QED
        BY <1>6, <2>3, <2>4, <3>1
    <2> QED
      BY <1>1, <1>5, <2>3, <2>5, ExactComparing
  <1> QED
    BY <1>7, <1>8

LEMMA ExactCompare ==
  ASSUME WorkflowInv, ExactInv, Looping("compare_evidence"), reading, Compare
  PROVE  ExactInv'
  <1>0. PICK answer \in Answers :
          /\ work' = Append(work, _settle_agreement(Reached, answer))
          /\ unread' = IF answer = "completed" THEN unread ELSE unread \cup {Reached.key}
    BY DEF Compare
  <1>1. /\ mem.next = "compare_evidence" /\ phase = "running" /\ Len(work) < Len(mem.candidates)
        /\ UNCHANGED <<truth, phase, attempts, saved, mem, official_text, faults>>
        /\ reading' = FALSE
        /\ work' = Append(work, _settle_agreement(Reached, answer))
        /\ unread \subseteq unread'
    BY <1>0 DEF Looping, At, Compare
  <1>2. Position[mem.next] <= Position["decide"]
        /\ Position[mem.next] <= Position["compare_evidence"]
    BY <1>1, Positions
  <1>3. PICK reached : reached = Reached
    OBVIOUS
  <1>4. /\ reached \in Candidate /\ Faithful(reached) /\ reached.outcome = "none"
        /\ Uncompared(reached) /\ Len(work) + 1 \in DOMAIN mem.candidates
    BY <1>1, <1>2, <1>3, ReachedOne
  <1>5. PICK c : c = _settle_agreement(reached, answer)
    OBVIOUS
  <1>6. c \in Candidate /\ (c.key \in unread' \/ Read(c))
    <2>1. reached.official_page_fetched => reached.official_url /\ reached.evidence = {"source"}
      BY <1>1, <1>3, <1>4 DEF ExactInv, Sourced, Reached
    <2>2. /\ c \in Candidate /\ c.key = reached.key
          /\ c.official_url = reached.official_url
          /\ c.official_page_fetched = reached.official_page_fetched
          /\ answer = "completed" =>
               /\ c.amount_agrees = truth[reached.key].funding
               /\ c.deadline_agrees = truth[reached.key].deadline
               /\ c.contradictions = truth[reached.key].flagged
               /\ c.evidence = reached.evidence \cup
                    {path \in REQUIRED_CLAIMS : truth[reached.key][path] = "agrees"}
      BY <1>4, <1>5, Settled DEF WorkflowInv
    <2>3. CASE answer = "completed"
      BY <2>1, <2>2, <2>3 DEF Read
    <2>4. CASE answer # "completed"
      BY <1>0, <1>3, <2>2, <2>4
    <2> QED
      BY <2>3, <2>4
  <1>7. work \in Seq(Candidate) /\ Len(work) \in Nat /\ DOMAIN work = 1 .. Len(work)
    BY LenProperties DEF WorkflowInv, WorkGood
  <1>8. /\ DOMAIN work' = 1 .. Len(work) + 1 /\ Len(work') = Len(work) + 1
        /\ work'[Len(work) + 1] = c
        /\ \A i \in DOMAIN work : work'[i] = work[i]
    BY <1>1, <1>3, <1>5, <1>6, <1>7, AppendProperties
  <1>9. \A i \in DOMAIN work' : work'[i].key \in unread' \/ Read(work'[i])
    <2>1. \A i \in DOMAIN work : Read(work[i])
      BY <1>1 DEF ExactInv
    <2>2. \A i \in DOMAIN work' : i \in DOMAIN work \/ i = Len(work) + 1
      BY <1>7, <1>8
    <2> QED
      BY <1>6, <1>8, <2>1, <2>2
  <1>10. \A i \in DOMAIN mem.candidates : i > Len(work') =>
           (mem.candidates[i].official_page_fetched /\ mem.candidates[i].key \notin unread' =>
              mem.candidates[i].key \in official_text')
    <2>1. \A i \in DOMAIN mem.candidates : i \in Nat
      BY StateType DEF WorkflowInv, GraphGood
    <2>2. \A i \in DOMAIN mem.candidates : i > Len(work') =>
            i > Len(work) /\ ~(i = Len(work) + 1)
      BY <1>7, <1>8, <2>1
    <2> QED
      BY <1>1, <2>2 DEF ExactInv, HasText
  <1> QED
    BY <1>1, <1>9, <1>10, ExactComparing

LEMMA ExactCompareEnds ==
  ASSUME WorkflowInv, ExactInv, LoopEnds("compare_evidence", "extract_eligibility")
  PROVE  ExactInv'
  <1>1. /\ mem.next = "compare_evidence" /\ phase = "running" /\ Position[mem.next] = 9
        /\ Len(work) = Len(mem.candidates) /\ mem \in State
    BY Positions DEF LoopEnds, At, WorkflowInv, GraphGood
  <1>2. PICK r : r = [mem EXCEPT !.candidates = work, !.next = "extract_eligibility"]
    OBVIOUS
  <1>3. Finish(r) /\ unread' = unread
    BY <1>2 DEF LoopEnds, Returns
  <1>4. r.candidates = work /\ r.next = "extract_eligibility"
    BY <1>1, <1>2 DEF State
  <1>5. DOMAIN work = DOMAIN mem.candidates
        /\ \A i \in DOMAIN work : work[i].key = mem.candidates[i].key
    BY <1>1, WholeWork
  <1>6. Distinct(work)
    BY <1>1, <1>5, Positions, DistinctStays
  <1>7. \A i \in DOMAIN work : Read(work[i])
    BY <1>1 DEF ExactInv
  <1>8. Position[r.next] = 10
    BY <1>4, Positions
  <1> QED
    BY <1>1, <1>3, <1>4, <1>6, <1>7, <1>8, Positions, ExactFinish

LEMMA ExactEligibility ==
  ASSUME WorkflowInv, ExactInv, extract_eligibility
  PROVE  ExactInv'
  <1>1. mem.next = "extract_eligibility" /\ phase = "running" /\ Position[mem.next] = 10
        /\ mem \in State
    BY Positions DEF extract_eligibility, At, WorkflowInv, GraphGood
  <1>2. PICK answers \in [DOMAIN mem.candidates -> Answers] :
          /\ Finish([mem EXCEPT
               !.candidates = [i \in DOMAIN @ |->
                  [@[i] EXCEPT !.eligibility_rules =
                     answers[i] = "completed" /\ truth[mem.candidates[i].key].rules]],
               !.next = "decide"])
          /\ unread' = unread \cup
               {mem.candidates[i].key : i \in {n \in DOMAIN answers : answers[n] # "completed"}}
    BY DEF extract_eligibility
  <1> DEFINE ruled == [i \in DOMAIN mem.candidates |->
                         [mem.candidates[i] EXCEPT !.eligibility_rules =
                            answers[i] = "completed" /\ truth[mem.candidates[i].key].rules]]
  <1>3. PICK r : r = [mem EXCEPT !.candidates = ruled, !.next = "decide"]
    OBVIOUS
  <1>4. Finish(r) /\ unread \subseteq unread'
    BY <1>2, <1>3
  <1>5. ASSUME NEW i \in DOMAIN mem.candidates
        PROVE  /\ ruled[i].key = mem.candidates[i].key /\ Read(ruled[i])
               /\ ruled[i].key \notin unread' =>
                    ruled[i].eligibility_rules = truth[ruled[i].key].rules
    <2>1. PICK c : c = mem.candidates[i]
      OBVIOUS
    <2>2. c \in Candidate /\ c.key \in Keys /\ Read(c)
      BY <1>1, <2>1, StateType, CandidateType DEF ExactInv
    <2>3. truth[c.key].rules \in BOOLEAN
      BY <2>2, TruthType DEF WorkflowInv, Truth
    <2>4. PICK rules \in BOOLEAN :
            rules = (answers[i] = "completed" /\ truth[c.key].rules)
      OBVIOUS
    <2>5. ruled[i] = [c EXCEPT !.eligibility_rules = rules]
      BY <2>1, <2>4
    <2>6. c.key \notin unread' => answers[i] = "completed"
      <3>1. DOMAIN answers = DOMAIN mem.candidates
        BY <1>2
      <3> QED
        BY <1>2, <2>1, <3>1
    <2> HIDE DEF ruled
    <2>7. ruled[i].key = c.key /\ ruled[i].eligibility_rules = rules /\ Read(ruled[i])
      BY <2>2, <2>5 DEF Candidate, Read
    <2>8. answers[i] = "completed" => rules = truth[c.key].rules
      BY <2>3, <2>4
    <2> QED
      BY <2>1, <2>6, <2>7, <2>8
  <1>6. DOMAIN ruled = DOMAIN mem.candidates
    OBVIOUS
  <1> HIDE DEF ruled
  <1>7. r.candidates = ruled /\ r.next = "decide"
    BY <1>1, <1>3 DEF State
  <1>8. Distinct(ruled)
    BY <1>1, <1>5, <1>6, Positions, DistinctStays
  <1>9. Position[r.next] = 11
    BY <1>7, Positions
  <1> QED
    BY <1>1, <1>4, <1>5, <1>6, <1>7, <1>8, <1>9, Positions, ExactFinish

\* The policy gives an award that has been read what it deserves.
LEMMA PolicyExact ==
  ASSUME NEW c \in Candidate, truth \in Truths, Read(c), c.key \notin unread,
         c.eligibility_rules = truth[c.key].rules
  PROVE  decide_outcome(c) = Deserved(c)
  <1> DEFINE page == truth[c.key]
  <1>1. page.funding \in Agreement /\ page.deadline \in Agreement /\ page.flagged \in BOOLEAN
        /\ page.rules \in BOOLEAN /\ c.official_page_fetched \in BOOLEAN
    BY CandidateType, TruthType DEF Truth
  <1>2. CASE ~c.official_page_fetched
    BY <1>2 DEF decide_outcome, Deserved, Contradicted, Incomplete
  <1>3. CASE c.official_page_fetched
    <2>1. /\ c.official_url /\ c.amount_agrees = page.funding /\ c.deadline_agrees = page.deadline
          /\ c.contradictions = page.flagged
          /\ c.evidence = {"source"} \cup {path \in REQUIRED_CLAIMS : page[path] = "agrees"}
      BY <1>3 DEF Read
    <2>2. Contradicted(c) <=> Differs(c.key)
      BY <1>3, <2>1 DEF Contradicted, Differs
    <2>3. Incomplete(c) <=> ~Agrees(c.key)
      BY <1>3, <2>1 DEF Incomplete, _missing_claims, Agrees, REQUIRED_CLAIMS
    <2>4. Corroborated(c) <=> Agrees(c.key) /\ ~page.flagged /\ page.rules
      BY <2>1 DEF Corroborated, Agrees
    <2>5. ~(Agrees(c.key) /\ Differs(c.key))
      BY DEF Agrees, Differs
    <2>6. Deserved(c) = IF Differs(c.key) THEN "REJECT_RECOMMENDED"
                        ELSE IF Agrees(c.key)
                             THEN IF page.flagged \/ ~page.rules THEN "REVIEW_REQUIRED"
                                  ELSE "AUTO_CHECK_ELIGIBLE"
                             ELSE "MORE_EVIDENCE_REQUIRED"
      BY <1>3, <2>5 DEF Deserved
    <2> QED
      BY <2>2, <2>3, <2>4, <2>5, <2>6 DEF decide_outcome
  <1> QED
    BY <1>1, <1>2, <1>3

LEMMA ExactDecide ==
  ASSUME WorkflowInv, ExactInv, decide
  PROVE  ExactInv'
  <1>1. mem.next = "decide" /\ phase = "running" /\ Position[mem.next] = 11 /\ mem \in State
    BY Positions DEF decide, At, WorkflowInv, GraphGood
  <1> DEFINE settled == IF ~mem.page_usable THEN "MORE_EVIDENCE_REQUIRED"
                        ELSE outcome_for_page_type(mem.page_type)
             Or(outcome) == IF settled = "none" THEN outcome ELSE settled
             decided == [i \in DOMAIN mem.candidates |->
                           [mem.candidates[i] EXCEPT
                              !.outcome = Or(decide_outcome(mem.candidates[i]))]]
  <1>2. PICK r : r = [mem EXCEPT !.candidates = decided, !.outcome = Or(roll_up(decided)),
                                 !.next = "submit_to_product"]
    OBVIOUS
  <1>3. Finish(r) /\ unread' = unread
    BY <1>2 DEF decide, Returns
  <1>4. ASSUME NEW i \in DOMAIN mem.candidates
        PROVE  /\ decided[i].key = mem.candidates[i].key
               /\ decided[i].key \notin unread => decided[i].outcome = Deserved(decided[i])
    <2>1. settled = "none"
      <3>1. mem.candidates # << >>
        <4>1. DOMAIN mem.candidates # {}
          OBVIOUS
        <4> QED
          BY <4>1
      <3>2. mem.page_usable /\ mem.page_type # "not_a_scholarship"
        BY <3>1 DEF WorkflowInv, GraphGood, Progressed, NoneExpected
      <3> QED
        BY <3>2 DEF outcome_for_page_type
    <2>2. PICK c : c = mem.candidates[i]
      OBVIOUS
    <2>3. /\ c \in Candidate /\ Read(c)
          /\ c.key \notin unread => c.eligibility_rules = truth[c.key].rules
      BY <1>1, <2>2, StateType DEF ExactInv
    <2>4. decided[i] = [c EXCEPT !.outcome = decide_outcome(c)]
      BY <2>1, <2>2
    <2> HIDE DEF settled, decided
    <2>5. /\ decided[i].key = c.key /\ decided[i].outcome = decide_outcome(c)
          /\ decided[i].official_page_fetched = c.official_page_fetched
      BY <2>3, <2>4 DEF Candidate
    <2>6. Deserved(decided[i]) = Deserved(c)
      BY <2>5 DEF Deserved
    <2>7. c.key \notin unread => decide_outcome(c) = Deserved(c)
      BY <2>3, PolicyExact DEF WorkflowInv
    <2> QED
      BY <2>2, <2>5, <2>6, <2>7
  <1>5. DOMAIN decided = DOMAIN mem.candidates
    OBVIOUS
  <1> HIDE DEF settled, decided, Or
  <1>6. r.candidates = decided /\ r.next = "submit_to_product"
    BY <1>1, <1>2 DEF State
  <1>7. Distinct(decided)
    BY <1>1, <1>4, <1>5, Positions, DistinctStays
  <1>8. Position[r.next] = 12
    BY <1>6, Positions
  <1> QED
    BY <1>1, <1>3, <1>4, <1>5, <1>6, <1>7, <1>8, Positions, ExactFinish

LEMMA ExactSubmit ==
  ASSUME WorkflowInv, ExactInv, submit_to_product
  PROVE  ExactInv'
  <1>1. mem.next = "submit_to_product" /\ phase = "running" /\ Position[mem.next] = 12
        /\ mem \in State
    BY Positions DEF submit_to_product, At, WorkflowInv, GraphGood
  <1>2. PICK r : r = [mem EXCEPT !.next = "END"]
    OBVIOUS
  <1>3. Finish(r) /\ unread' = unread /\ r.candidates = mem.candidates /\ r.next = "END"
    BY <1>1, <1>2 DEF submit_to_product, Returns, State
  <1>4. Distinct(r.candidates)
    BY <1>1, <1>3, Positions, DistinctStays
  <1>5. \A i \in DOMAIN r.candidates : r.candidates[i].key \notin unread =>
          r.candidates[i].outcome = Deserved(r.candidates[i])
    BY <1>1, <1>3, Positions DEF ExactInv, Exact
  <1>6. Position[r.next] = 13
    BY <1>3, Positions
  <1> QED
    BY <1>1, <1>3, <1>4, <1>5, <1>6, Positions, ExactFinish

LEMMA ExactInit == Init => ExactInv
  <1> SUFFICES ASSUME Init PROVE ExactInv
    OBVIOUS
  <1>1. mem = initial_state /\ mem.next = "load_discovery" /\ DOMAIN mem.candidates = {}
    BY DEF Init, initial_state
  <1>2. Position[mem.next] = 1
    BY <1>1, Positions
  <1> QED
    BY <1>1, <1>2, Positions DEF Init, ExactInv, Exact

\* The first attempt is the only one.
LEMMA ExactStart ==
  ASSUME WorkflowInv, ExactInv, Start
  PROVE  ExactInv'
  <1>1. phase' = "running" /\ mem' = initial_state
    BY DEF Start, ExactInv, CLAIMABLE_STATES, claim
  <1>2. mem'.next = "load_discovery" /\ DOMAIN mem'.candidates = {}
    BY <1>1 DEF initial_state
  <1>3. Position[mem'.next] = 1
    BY <1>2, Positions
  <1>4. Exact'
    BY <1>2 DEF Exact
  <1> QED
    BY <1>1, <1>2, <1>3, <1>4, Positions DEF ExactInv

LEMMA ExactStays ==
  ASSUME ExactInv, UNCHANGED <<truth, mem, work, reading, official_text, unread>>,
         \/ phase' = "completed"
         \/ UNCHANGED <<phase, saved>>
  PROVE  ExactInv'
  <1>1. Exact'
    BY DEF ExactInv, Exact, Deserved, Differs, Agrees
  <1>2. Position[mem'.next] > Position["dedupe_candidates"] => Distinct(mem.candidates)'
    BY DEF ExactInv, Distinct
  <1>3. mem'.next = "fetch_official" =>
          \A i \in DOMAIN work' : Sourced(work[i])' /\ HasText(work[i])'
    BY DEF ExactInv, Sourced, HasText
  <1>4. mem'.next = "compare_evidence" =>
          /\ \A i \in DOMAIN mem'.candidates :
               /\ Sourced(mem.candidates[i])'
               /\ i > Len(work') /\ ~(reading' /\ i = Len(work') + 1) =>
                    HasText(mem.candidates[i])'
          /\ \A i \in DOMAIN work' : Read(work[i])'
    BY DEF ExactInv, Sourced, HasText, Read
  <1>5. mem'.next \in {"extract_eligibility", "decide"} =>
          \A i \in DOMAIN mem'.candidates : Read(mem.candidates[i])'
    BY DEF ExactInv, Read
  <1>6. /\ phase' \in {"queued", "running", "completed"}
        /\ phase' = "queued" =>
             saved' = initial_state /\ mem' = initial_state /\ official_text' = {}
        /\ Position[mem'.next] <= Position["fetch_official"] =>
             \A i \in DOMAIN mem'.candidates :
               mem'.candidates[i].evidence = {} /\ ~mem'.candidates[i].official_page_fetched
        /\ mem'.next = "decide" =>
             \A i \in DOMAIN mem'.candidates : mem'.candidates[i].key \notin unread' =>
               mem'.candidates[i].eligibility_rules = truth'[mem'.candidates[i].key].rules
    BY DEF ExactInv
  <1> QED
    BY <1>1, <1>2, <1>3, <1>4, <1>5, <1>6 DEF ExactInv, initial_state

\* Interruptions are counted, and no other step changes their number.
LEMMA FaultsCounted ==
  ASSUME WorkflowInv, [Next]_wvars, faults' = 0
  PROVE  faults = 0 /\ ~Fault
  <1>1. faults \in Nat
    BY WorkflowAssumption DEF WorkflowInv
  <1>2. ~Fault
    BY <1>1 DEF Fault
  <1>3. ~(Abort \/ CloseLost \/ Crash)
    BY <1>2 DEF Abort, CloseLost, Crash
  <1>4. CASE Start \/ Complete \/ UNCHANGED wvars
    BY <1>2, <1>4 DEF Start, Complete, wvars
  <1>5. CASE fetch_official \/ compare_evidence
    BY <1>2, <1>5 DEF fetch_official, compare_evidence, Fetch, PopText, Compare, LoopEnds,
       Returns, Finish
  <1>6. CASE \E r : Finish(r)
    BY <1>2, <1>6 DEF Finish
  <1>7. CASE \/ load_discovery \/ fetch_source \/ classify_page \/ single_candidate
             \/ split_candidates \/ dedupe_candidates \/ extract_facts
             \/ find_official_source \/ extract_eligibility \/ decide \/ submit_to_product
    <2>1. \E r : Finish(r)
      BY <1>7 DEF load_discovery, fetch_source, classify_page, single_candidate,
         split_candidates, OneCandidate, Split, dedupe_candidates, extract_facts,
         find_official_source, extract_eligibility, decide, submit_to_product, Returns
    <2> QED
      BY <1>6, <2>1
  <1> QED
    BY <1>3, <1>4, <1>5, <1>7 DEF Next, Step

LEMMA ExactNext ==
  ASSUME WorkflowInv, ExactInv, ~Fault, [Next]_wvars
  PROVE  ExactInv'
  <1>1. ~(Abort \/ CloseLost \/ Crash)
    BY DEF Abort, CloseLost, Crash
  <1>2. CASE Start
    BY <1>2, ExactStart
  <1>3. CASE Complete
    <2>1. /\ phase' = "completed"
          /\ UNCHANGED <<truth, mem, work, reading, official_text, unread>>
      BY <1>3 DEF Complete, succeed
    <2> QED
      BY <2>1, ExactStays
  <1>4. CASE load_discovery \/ fetch_source \/ classify_page
    BY <1>4, ExactBeforeSplit
  <1>5. CASE single_candidate \/ split_candidates
    BY <1>5, ExactSplit
  <1>6. CASE dedupe_candidates \/ extract_facts \/ find_official_source
    BY <1>6, ExactDedupe, ExactExtractFacts, ExactFindOfficialSource
  <1>7. CASE fetch_official
    BY <1>7, ExactFetch, ExactFetchEnds DEF fetch_official
  <1>8. CASE compare_evidence
    BY <1>8, ExactPopText, ExactCompare, ExactCompareEnds DEF compare_evidence
  <1>9. CASE extract_eligibility \/ decide \/ submit_to_product
    BY <1>9, ExactEligibility, ExactDecide, ExactSubmit
  <1>10. CASE UNCHANGED wvars
    <2>1. UNCHANGED <<truth, phase, saved, mem, work, reading, official_text, unread>>
      BY <1>10 DEF wvars
    <2> QED
      BY <2>1, ExactStays
  <1> QED
    BY <1>1, <1>2, <1>3, <1>4, <1>5, <1>6, <1>7, <1>8, <1>9, <1>10 DEF Next, Step

\* As long as nothing interrupts the run, every award whose page has a text and
\* about which the model answers gets the outcome that page deserves, whatever
\* becomes of the others.
THEOREM OutcomesExact == Spec => []ExactOutcome
  <1> DEFINE Inv == faults = 0 => ExactInv
  <1>1. Init => Inv
    BY ExactInit
  <1>2. WorkflowInv /\ Inv /\ [Next]_wvars => Inv'
    <2> SUFFICES ASSUME WorkflowInv, Inv, [Next]_wvars, faults' = 0 PROVE ExactInv'
      OBVIOUS
    <2> QED
      BY FaultsCounted, ExactNext
  <1>3. Inv => ExactOutcome
    BY DEF ExactInv, ExactOutcome
  <1> QED
    BY <1>1, <1>2, <1>3, WorkflowInvariant, PTL DEF Spec
===============================================================================
