------------------------ MODULE OfficialSourceProofs ------------------------
(***************************************************************************)
(* Proofs about OfficialSource, for every title and host and rankings of   *)
(* any length: what a search may be believed to have found.                *)
(***************************************************************************)
EXTENDS OfficialSource, SequenceTheorems, WellFoundedInduction, TLAPS

\* The first of a set of positions is one of them.
LEMMA FirstIs ==
  ASSUME NEW n \in Nat, NEW T \in SUBSET (1 .. n), T # {}
  PROVE  FirstWhere(T) \in T /\ \A k \in T : FirstWhere(T) <= k
  <1>1. T \in SUBSET Nat
    OBVIOUS
  <1>2. PICK m \in T : \A k \in T : <<k, m>> \notin OpToRel(<, Nat)
    BY <1>1, NatLessThanWellFounded, WFMin
  <1>3. \A k \in T : ~(k < m)
    BY <1>1, <1>2 DEF OpToRel
  <1>4. \A k \in T : m <= k
    BY <1>1, <1>3
  <1> QED
    BY <1>4 DEF FirstWhere

LEMMA FoundType ==
  ASSUME NEW found \in SearchResults
  PROVE  /\ \E n \in Nat : DOMAIN found = 1 .. n
         /\ \A i \in DOMAIN found : found[i] \in Hosts
         /\ found = << >> <=> DOMAIN found = {}
  <1>1. PICK n \in 0 .. MaxResults : found \in [1 .. n -> Hosts]
    BY DEF SearchResults
  <1>2. n \in Nat /\ DOMAIN found = 1 .. n
    BY <1>1, OfficialSourceAssumption
  <1>3. found \in Seq(Hosts)
    BY <1>1, <1>2, SeqDef
  <1>4. Len(found) \in Nat /\ DOMAIN found = 1 .. Len(found)
    BY <1>3, LenProperties
  <1>5. found = << >> <=> Len(found) = 0
    BY <1>3, EmptySeq
  <1> QED
    BY <1>1, <1>2, <1>4, <1>5

\* What pick_official returns: nothing when no usable result carries the award's
\* name; else a usable result that carries it or is a public body, with nothing
\* usable of either kind ranked above it.
LEMMA Picked ==
  ASSUME NEW words, NEW found \in SearchResults
  PROVE  /\ NamedOf(words, found) = {} => pick_official(words, found) = None
         /\ NamedOf(words, found) # {} =>
              \E i \in UsableOf(found) :
                /\ pick_official(words, found) = found[i]
                /\ i \in NamedOf(words, found) \/ is_public_body(found[i])
                /\ \A k \in NamedOf(words, found) : i <= k
                /\ \A k \in UsableOf(found) : is_public_body(found[k]) => i <= k
  <1> DEFINE named == NamedOf(words, found)
             above == {i \in UsableOf(found) : is_public_body(found[i])
                                               /\ i < FirstWhere(named)}
  <1>1. PICK n \in Nat : DOMAIN found = 1 .. n
    BY FoundType
  <1>2. UsableOf(found) \in SUBSET (1 .. n) /\ named \in SUBSET UsableOf(found)
    BY <1>1 DEF UsableOf, NamedOf
  <1>3. pick_official(words, found) =
          IF named = {} THEN None ELSE found[FirstWhere(IF above # {} THEN above ELSE named)]
    BY DEF pick_official
  <1>4. ASSUME named # {}
        PROVE  \E i \in UsableOf(found) :
                 /\ pick_official(words, found) = found[i]
                 /\ i \in named \/ is_public_body(found[i])
                 /\ \A k \in named : i <= k
                 /\ \A k \in UsableOf(found) : is_public_body(found[k]) => i <= k
    <2>1. PICK f : f = FirstWhere(named) /\ f \in named /\ \A k \in named : f <= k
      BY <1>2, <1>4, FirstIs
    <2>2. PICK A : A = above
      OBVIOUS
    <2>3. A = {i \in UsableOf(found) : is_public_body(found[i]) /\ i < f}
      BY <2>1, <2>2
    <2>4. pick_official(words, found) = found[FirstWhere(IF A # {} THEN A ELSE named)]
      BY <1>3, <1>4, <2>2
    <2> HIDE DEF named, above
    <2>5. f \in Nat /\ f \in UsableOf(found) /\ UsableOf(found) \subseteq Nat
      BY <1>2, <2>1
    <2>6. CASE A = {}
      <3>1. pick_official(words, found) = found[f]
        BY <2>1, <2>4, <2>6
      <3>2. \A k \in UsableOf(found) : is_public_body(found[k]) => ~(k < f)
        BY <2>3, <2>6
      <3> QED
        BY <2>1, <2>5, <3>1, <3>2
    <2>7. CASE A # {}
      <3>1. A \in SUBSET (1 .. n)
        BY <1>2, <2>3
      <3>2. PICK a : a = FirstWhere(A) /\ a \in A /\ \A k \in A : a <= k
        BY <2>7, <3>1, FirstIs
      <3>3. pick_official(words, found) = found[a]
        BY <2>4, <2>7, <3>2
      <3>4. a \in UsableOf(found) /\ is_public_body(found[a]) /\ a < f /\ a \in Nat
        BY <2>3, <2>5, <3>2
      <3>5. \A k \in UsableOf(found) : is_public_body(found[k]) => a <= k
        <4> SUFFICES ASSUME NEW k \in UsableOf(found), is_public_body(found[k])
                     PROVE  a <= k
          OBVIOUS
        <4>1. CASE k < f
          BY <2>3, <3>2, <4>1
        <4>2. CASE ~(k < f)
          BY <2>5, <3>4, <4>2
        <4> QED
          BY <4>1, <4>2
      <3>6. \A k \in named : a <= k
        BY <1>2, <2>1, <2>5, <3>4
      <3> QED
        BY <3>3, <3>4, <3>5, <3>6
    <2> QED
      BY <2>6, <2>7
  <1> QED
    BY <1>3, <1>4

-----------------------------------------------------------------------------
(* The states of the search.                                                *)

\* The official page is what the results justify, or the candidate's own link.
SourceInv ==
  /\ title \in Titles
  /\ results \in SearchResults
  /\ \/ results = << >> /\ official_url = None
     \/ results = << >> /\ official_url = "link" /\ LinkCounts
     \/ official_url = pick_official(title, results)

LEMMA NoResults == << >> \in SearchResults
  <1>1. << >> \in [1 .. 0 -> Hosts] /\ 0 \in 0 .. MaxResults
    BY OfficialSourceAssumption
  <1> QED
    BY <1>1 DEF SearchResults

LEMMA SourceInit == Init => SourceInv
  BY NoResults DEF Init, SourceInv

LEMMA SourceNext == SourceInv /\ [Next]_ovars => SourceInv'
  <1> SUFFICES ASSUME SourceInv, [Next]_ovars PROVE SourceInv'
    OBVIOUS
  <1>1. CASE find_official_source
    BY <1>1 DEF find_official_source, SourceInv, LinkCounts
  <1>2. CASE _search_for_official
    <2>1. PICK found \in SearchResults :
            results' = found /\ official_url' = pick_official(title, found) /\ title' = title
      BY <1>2 DEF _search_for_official
    <2> QED
      BY <2>1 DEF SourceInv
  <1>3. CASE UNCHANGED ovars
    BY <1>3 DEF ovars, SourceInv, LinkCounts
  <1> QED
    BY <1>1, <1>2, <1>3 DEF Next

-----------------------------------------------------------------------------
(* The theorems.                                                            *)

\* An official page is one the last results justify, or the candidate's own
\* link where that may count (find_official_source).
THEOREM SourceInvariant == Spec => []SourceInv
  BY SourceInit, SourceNext, PTL DEF Spec

LEMMA InvAcceptance == SourceInv => AcceptanceUntouched
  <1> SUFFICES ASSUME SourceInv PROVE AcceptanceUntouched
    OBVIOUS
  <1> DEFINE at == {i \in DOMAIN results : results[i] = official_url}
             justified == {i \in DOMAIN results : Usable(results[i]) /\ Named(title, results[i])}
  <1>1. results \in SearchResults
    BY DEF SourceInv
  <1>2. justified = NamedOf(title, results)
    BY DEF NamedOf, UsableOf
  <1>3. PICK n \in Nat : DOMAIN results = 1 .. n
    BY <1>1, FoundType
  <1>4. CASE official_url = pick_official(title, results)
    <2>1. CASE justified = {}
      <3>1. official_url = None
        BY <1>1, <1>2, <1>4, <2>1, Picked
      <3>2. official_url \notin Hosts
        BY <3>1, OfficialSourceAssumption
      <3> QED
        BY <2>1, <3>1, <3>2 DEF AcceptanceUntouched
    <2>2. CASE justified # {}
      <3>1. PICK i \in UsableOf(results) :
              /\ official_url = results[i]
              /\ \A k \in NamedOf(title, results) : i <= k
              /\ \A k \in UsableOf(results) : is_public_body(results[k]) => i <= k
        BY <1>1, <1>2, <1>4, <2>2, Picked
      <3>2. i \in DOMAIN results /\ official_url \in Hosts /\ i \in Nat
        BY <1>1, <1>3, <3>1, FoundType DEF UsableOf
      <3>3. official_url # None /\ i \in at
        BY <3>1, <3>2, OfficialSourceAssumption
      <3>4. \A k \in 1 .. (i - 1) : ~(Usable(results[k]) /\ is_public_body(results[k]))
        <4> SUFFICES ASSUME NEW k \in 1 .. (i - 1), Usable(results[k]), is_public_body(results[k])
                     PROVE  FALSE
          OBVIOUS
        <4>1. k \in DOMAIN results /\ ~(i <= k)
          BY <1>3, <3>2
        <4>2. k \in UsableOf(results)
          BY <4>1 DEF UsableOf
        <4> QED
          BY <3>1, <4>1, <4>2
      <3>5. \A k \in justified : i <= k
        BY <1>2, <3>1
      <3> QED
        BY <2>2, <3>3, <3>4, <3>5 DEF AcceptanceUntouched
    <2> QED
      BY <2>1, <2>2
  <1>5. CASE results = << >> /\ official_url \in {None, "link"}
    <2>1. official_url \notin Hosts
      BY <1>5, OfficialSourceAssumption
    <2> QED
      BY <1>5, <2>1 DEF AcceptanceUntouched
  <1> QED
    BY <1>4, <1>5 DEF SourceInv

\* Whatever a search answers, it is believed exactly when a usable domain
\* carries the award's own name, and a page preferred to that one is only ever
\* a usable public body's ranked above it (pick_official).
THEOREM AcceptanceIsUntouched == Spec => []AcceptanceUntouched
  BY InvAcceptance, SourceInvariant, PTL

\* What is chosen from a search is usable.
LEMMA PickedUsable ==
  ASSUME NEW words, NEW found \in SearchResults, pick_official(words, found) # None
  PROVE  Usable(pick_official(words, found)) /\ pick_official(words, found) \in Hosts
  BY Picked, FoundType DEF UsableOf

LEMMA LabelsOf ==
  ASSUME NEW host \in Hosts \cup {Source}, NEW i \in DOMAIN Front(host),
         host[i] \notin NonDistinctiveLabels
  PROVE  host[i] \in host_labels(host)
  <1>1. host \in Seq(ToSet(host))
    BY OfficialSourceAssumption
  <1>2. Len(host) \in Nat
    BY <1>1, LenProperties
  <1>3. Front(host) = SubSeq(host, 1, Len(host) - 1)
    BY DEF Front
  <1>4. \A k \in 1 .. Len(host) - 1 : host[k] \in ToSet(host)
    BY <1>1, <1>2, ElementOfSeq
  <1>5. /\ Front(host) \in Seq(ToSet(host))
        /\ Len(Front(host)) = IF 1 <= Len(host) - 1 THEN Len(host) - 1 ELSE 0
        /\ \A k \in 1 .. Len(host) - 1 : Front(host)[k] = host[k]
    BY <1>2, <1>3, <1>4, SubSeqProperties
  <1>6. DOMAIN Front(host) = 1 .. Len(Front(host))
    BY <1>5, LenProperties
  <1>7. i \in 1 .. Len(host) - 1 /\ ~(Len(host) < 2)
    BY <1>2, <1>5, <1>6
  <1>8. host[i] \in ToSet(Front(host))
    BY <1>5, <1>7 DEF ToSet
  <1> QED
    BY <1>7, <1>8 DEF host_labels

LEMMA InvSecondDocument == SourceInv => SecondDocument
  <1> SUFFICES ASSUME SourceInv PROVE SecondDocument
    OBVIOUS
  <1>1. ASSUME official_url \in Hosts, NEW i \in DOMAIN Front(official_url),
               official_url[i] \in Organisations, NEW k \in DOMAIN Front(Source),
               Source[k] = official_url[i]
        PROVE  FALSE
    <2>1. official_url # None /\ official_url # "link"
      BY <1>1, OfficialSourceAssumption
    <2>2. Usable(official_url)
      BY <2>1, PickedUsable DEF SourceInv
    <2>3. official_url[i] \notin NonDistinctiveLabels
      BY <1>1, OfficialSourceAssumption
    <2>4. official_url[i] \in host_labels(official_url)
      BY <1>1, <2>3, LabelsOf
    <2>5. Source[k] \in host_labels(Source)
      BY <1>1, <2>3, LabelsOf
    <2> QED
      BY <1>1, <2>2, <2>4, <2>5 DEF Usable
  <1>2. ASSUME official_url = "link"
        PROVE  LinkCounts
    <2>1. official_url # None /\ official_url \notin Hosts
      BY <1>2, OfficialSourceAssumption
    <2>2. official_url # pick_official(title, results)
      BY <2>1, PickedUsable DEF SourceInv
    <2> QED
      BY <2>1, <2>2 DEF SourceInv
  <1> QED
    BY <1>1, <1>2 DEF SecondDocument, LinkCounts

\* Wherever a search or a link leads, the page that is to corroborate a
\* discovery shares no label that names an organisation with the page's own
\* host, and an own link inside the source's domain counts only from an
\* authoritative source.
THEOREM SecondDocumentApart == Spec => []SecondDocument
  BY InvSecondDocument, SourceInvariant, PTL

LEMMA InvStrangers == SourceInv => StrangersStayOut
  <1> SUFFICES ASSUME SourceInv, official_url \in Strangers PROVE FALSE
    BY DEF StrangersStayOut
  <1>1. official_url # None /\ official_url # "link"
    BY OfficialSourceAssumption
  <1>2. official_url = pick_official(title, results) /\ results \in SearchResults /\ title \in Titles
    BY <1>1 DEF SourceInv
  <1>3. PICK i \in UsableOf(results) :
          /\ official_url = results[i]
          /\ i \in NamedOf(title, results) \/ is_public_body(results[i])
    BY <1>1, <1>2, Picked
  <1>4. ~is_public_body(results[i])
    BY <1>3, StrangersAssumption
  <1>5. Named(title, official_url)
    BY <1>3, <1>4 DEF NamedOf
  <1>6. PICK word \in distinctive_words(title), label \in host_labels(official_url) :
          names_match(word, label)
    BY <1>5 DEF Named
  <1>7. word \in title /\ word \notin GenericTitleWords
    BY DEF distinctive_words
  <1> QED
    BY <1>2, <1>6, <1>7, StrangersAssumption

\* A host that is no award's, and shares with awards only words every award has
\* or names too short to say anything, is never taken for the provider, in any
\* company and at any rank (distinctive_words, names_match, pick_official).
THEOREM StrangersAlwaysStayOut == Spec => []StrangersStayOut
  BY InvStrangers, SourceInvariant, PTL

=============================================================================
