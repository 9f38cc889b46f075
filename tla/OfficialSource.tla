--------------------------- MODULE OfficialSource ---------------------------
(***************************************************************************)
(* usecases/scholarship_finder/official_source.py, and its use in nodes.py *)
(* to find one candidate's official page: the candidate's own link when it *)
(* may count, else a web search that is believed only when an award's own  *)
(* name appears in a domain.                                               *)
(*                                                                         *)
(* A name, of a title's words and of a host's labels alike, is a sequence  *)
(* of parts, so that one may be a prefix of another; a host is a sequence  *)
(* of labels.  fold, lower and the splitting of text are left out: a title *)
(* is the set of its folded words.                                         *)
(***************************************************************************)
EXTENDS Naturals, SequencesExt

CONSTANTS
  Source,         \* the host of the discovery's own page
  Titles,         \* the titles a candidate may have
  Hosts,          \* the hosts a search may find
  MaxResults,     \* search_result_limit
  GenericTitleWords, NonDistinctiveLabels,
  PublicBodyLabels, PublicBodyTLDs,
  EuropaEU,       \* the two labels of europa.eu
  ShortNames,     \* names below _MIN_MATCH_CHARS
  Strangers,      \* hosts that are no award's, and
  Organisations,  \* labels that name one: what the properties judge by
  None

ASSUME OfficialSourceAssumption ==
  /\ MaxResults \in Nat
  /\ None \notin Hosts \cup Strangers /\ "link" \notin Hosts \cup Strangers /\ None # "link"
  /\ \A host \in Hosts \cup {Source} : host \in Seq(ToSet(host))
  /\ Organisations \cap NonDistinctiveLabels = {}

\* Where a candidate's own link leads: nowhere, to a URL without a host, to the
\* discovery's own page, elsewhere on the source's domain, or away from it.
Link == {"none", "hostless", "own_page", "inside", "away"}

\* What a search may find: pages of the hosts, one of which is the source's.
SearchResults == UNION {[1..n -> Hosts] : n \in 0..MaxResults}

VARIABLES
  authoritative,  \* whether the source's grade is in AUTHORITATIVE_GRADES
  title, link,    \* of the candidate
  searching,      \* whether the search has still to answer
  results,        \* what it found
  official_url    \* the host of the official page, "link" for the own link

ovars == <<authoritative, title, link, searching, results, official_url>>

Init ==
  /\ authoritative \in BOOLEAN
  /\ title \in Titles
  /\ link \in Link
  /\ searching = FALSE
  /\ results = <<>>
  /\ official_url = None

-----------------------------------------------------------------------------
(* official_source.py *)

is_public_body(host) ==
  /\ Len(host) >= 2
  /\ \/ Last(host) \in PublicBodyTLDs
     \/ Last(host) = EuropaEU[2] /\ IsSuffix(EuropaEU[1], host[Len(host) - 1])
     \/ \E i \in 2..(Len(host) - 1) : host[i] \in PublicBodyLabels

\* The last label is the registry's; of the others, those that name somebody.
host_labels(host) ==
  IF Len(host) < 2 THEN {} ELSE ToSet(Front(host)) \ NonDistinctiveLabels

\* Seeded fault: no stoplist.
distinctive_words_all(words) == words \ ShortNames

distinctive_words(words) == words \ (ShortNames \cup GenericTitleWords)

\* One is a prefix of the other, and neither is too short to say anything.
names_match(word, label) ==
  /\ word \notin ShortNames /\ label \notin ShortNames
  /\ IsPrefix(word, label) \/ IsPrefix(label, word)

\* Seeded fault: only the source's own host is refused, not its domain.
Usable_by_host(host) == host # Source /\ host_labels(host) # {}

\* A host that is nobody's, or the source's, is never chosen.
Usable(host) ==
  /\ host # Source
  /\ host_labels(host) # {}
  /\ host_labels(host) \cap host_labels(Source) = {}

Named(words, host) ==
  \E word \in distinctive_words(words), label \in host_labels(host) :
    names_match(word, label)

\* Who the strangers are: no public body, and no award shares more with their
\* names than words of every award.
ASSUME StrangersAssumption ==
  \A host \in Strangers :
    /\ ~is_public_body(host)
    /\ \A words \in Titles : \A word \in words, label \in host_labels(host) :
         names_match(word, label) => word \in GenericTitleWords

FirstWhere(positions) == CHOOSE i \in positions : \A k \in positions : i <= k

UsableOf(found) == {i \in DOMAIN found : Usable(found[i])}

NamedOf(words, found) == {i \in UsableOf(found) : Named(words, found[i])}

\* Seeded fault: a public body is preferred wherever it is ranked.
pick_official_body_anywhere(words, found) ==
  LET named == NamedOf(words, found)
      bodies == {i \in UsableOf(found) : is_public_body(found[i])}
  IN IF named = {} THEN None
     ELSE found[FirstWhere(IF bodies # {} THEN bodies ELSE named)]

\* The first usable result whose domain names the award, or the first public
\* body ranked above that one; none when no domain names it.
pick_official(words, found) ==
  LET named == NamedOf(words, found)
      above == {i \in UsableOf(found) : is_public_body(found[i])
                                        /\ i < FirstWhere(named)}
  IN IF named = {} THEN None
     ELSE found[FirstWhere(IF above # {} THEN above ELSE named)]

-----------------------------------------------------------------------------
(* find_official_source, for one candidate *)

LinkCounts == link = "away" \/ (link = "inside" /\ authoritative)

\* A link without a host is passed over, and not searched for either.
find_official_source ==
  /\ official_url = None /\ ~searching /\ results = <<>>
  /\ \/ LinkCounts /\ official_url' = "link" /\ UNCHANGED searching
     \/ /\ ~LinkCounts /\ link # "hostless"
        /\ searching' = TRUE
        /\ UNCHANGED official_url
  /\ UNCHANGED <<authoritative, title, link, results>>

\* The search answers; no answer of any kind is no results.
_search_for_official ==
  /\ searching
  /\ searching' = FALSE
  /\ \E found \in SearchResults :
       /\ results' = found
       /\ official_url' = pick_official(title, found)
  /\ UNCHANGED <<authoritative, title, link>>

Next == find_official_source \/ _search_for_official

Spec == Init /\ [][Next]_ovars

-----------------------------------------------------------------------------
(* Properties *)

\* The stoplists hold (official_source.py:15, 112): a domain that has only the
\* words of every award in it, or shares a few letters with a name, is never
\* taken for the provider, in whatever company and rank it is found.
StrangersStayOut == official_url \notin Strangers

\* What is to corroborate a discovery lies outside its own domain: a page on a
\* sibling host of the source is not a second document.  Only an
\* authoritative source's own links are trusted further.
SecondDocument ==
  /\ official_url \in Hosts =>
       \A i \in DOMAIN Front(official_url) : official_url[i] \in Organisations
          => \A k \in DOMAIN Front(Source) : Source[k] # official_url[i]
  /\ official_url = "link" => link # "own_page" /\ (link = "inside" => authoritative)

\* Preferring public bodies leaves acceptance untouched (official_source.py:239):
\* a search is believed exactly when some usable result is named after the
\* award, and what is chosen is never ranked below the best of those; a result
\* that is passed over for it is neither named nor a public body.  This is what
\* the code does where its comments disagree: see OnlyNamed.
AcceptanceUntouched ==
  LET at == {i \in DOMAIN results : results[i] = official_url}
      justified == {i \in DOMAIN results : Usable(results[i]) /\ Named(title, results[i])}
  IN /\ results # <<>> => (official_url = None <=> justified = {})
     /\ official_url \in Hosts =>
          \E i \in at :
            /\ \A k \in justified : i <= k
            /\ \A k \in 1..(i - 1) : ~(Usable(results[k]) /\ is_public_body(results[k]))

\* A page is believed for the award's name in its domain: being a public body
\* reorders those that carry it and never admits one that does not
\* (official_source.py:118, 202).  The code breaks it.
OnlyNamed == official_url \in Hosts => Named(title, official_url)
=============================================================================
