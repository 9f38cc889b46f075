----------------------------- MODULE Submission -----------------------------
(***************************************************************************)
(* usecases/scholarship_finder/submission.py and the writing half of       *)
(* integrations/scholarship_finder.py: the last node hands a finished      *)
(* analysis to the product, one call after another.  A call may be         *)
(* refused, which is noted, or fail in transport, which leaves the node;   *)
(* either may happen with the product's row written or not, and the        *)
(* process may die between any two calls.  The node is then run again from *)
(* the checkpoint before it, where no candidate has the id a discovery     *)
(* created meanwhile was given.  What a new process reads of the settings  *)
(* is taken to be what the old one read: SHADOW_MODE does not change while *)
(* a job is being submitted.                                               *)
(*                                                                         *)
(* The product is external: its rows, and that it writes each under a key, *)
(* are taken from what the client says of the calls.  Texts of notes and   *)
(* payloads are left out: a run's row keeps whose record it is.            *)
(***************************************************************************)
EXTENDS Naturals, SequencesExt, FiniteSetsExt

CONSTANTS
  Parent,         \* the discovery the job is about
  Titles,
  Identity,       \* Identity[t]: the discovery the product knows title t by
  Pages,          \* the candidates a finished analysis may have
  None,
  MaxAttempts     \* executions of the node

Discoveries == {Identity[t] : t \in Titles} \cup {Parent}

\* What submission reads of a Candidate; a candidate of an individual page has
\* the parent's id from the start.
Candidate ==
  [title : Titles \cup {None}, discovery_id : {Parent, None},
   evidence : BOOLEAN, outcome : {"REVIEW_REQUIRED", "REJECT_RECOMMENDED", None}]

ASSUME SubmissionAssumption ==
  /\ None \notin Discoveries \cup Titles
  /\ Parent \notin {Identity[t] : t \in Titles}
  /\ Pages \subseteq Seq(Candidate)
  /\ MaxAttempts \in Nat \ {0}

REVIEW_ON == {"REVIEW_REQUIRED"}

VARIABLES
  shadow_mode, configured,  \* settings of the service
  page,           \* the candidates as checkpointed before the node
  rejected,       \* the titles the product would not take
  product,        \* the product's rows
  candidates,     \* the node's own copy
  todo,           \* the calls it has still to make
  noted,          \* the calls it has noted as failed
  phase, attempts

svars == <<shadow_mode, configured, page, rejected, product, candidates, todo,
           noted, phase, attempts>>
given == <<shadow_mode, configured, page, rejected>>

NoRows == [discoveries |-> {}, evidence |-> {}, reviews |-> {},
           runs |-> [d \in Discoveries |-> None]]

Init ==
  /\ shadow_mode \in BOOLEAN
  /\ configured \in BOOLEAN
  /\ page \in Pages
  /\ rejected \in SUBSET Titles
  /\ product = NoRows
  /\ candidates = page
  /\ todo = <<>>
  /\ noted = {}
  /\ phase = "start"
  /\ attempts = 1

-----------------------------------------------------------------------------
(* The calls *)

\* The candidates a discovery is asked for.
Pending(cs) == {i \in DOMAIN cs : cs[i].discovery_id = None /\ cs[i].title # None}

submit_candidates == [op |-> "submit_candidates", id |-> None, of |-> 0]

Attach(cs, i) ==
  IF cs[i].evidence
  THEN <<[op |-> "attach_evidence", id |-> cs[i].discovery_id, of |-> i]>> ELSE <<>>

RecordCandidateRun(cs, i) ==
  IF cs[i].outcome # None
  THEN <<[op |-> "record_run", id |-> cs[i].discovery_id, of |-> i]>> ELSE <<>>

\* Seeded fault: every recommendation opens a review.
RequestReviewAlways(cs, i) ==
  IF ~shadow_mode
  THEN <<[op |-> "request_review", id |-> cs[i].discovery_id, of |-> i]>> ELSE <<>>

RequestReview(cs, i) ==
  IF ~shadow_mode /\ cs[i].outcome \in REVIEW_ON
  THEN <<[op |-> "request_review", id |-> cs[i].discovery_id, of |-> i]>> ELSE <<>>

\* The parent's own run carries the whole breakdown and names no candidate.
RecordParentRun == [op |-> "record_run", id |-> Parent, of |-> 0]

CallsFor(cs, i) ==
  IF cs[i].discovery_id = None THEN <<>>
  ELSE Attach(cs, i) \o RecordCandidateRun(cs, i) \o RequestReview(cs, i)

\* What the node does once it knows the candidates' ids.
Calls(cs) ==
  Append(FlattenSeq([i \in DOMAIN cs |-> CallsFor(cs, i)]), RecordParentRun)

\* What the product makes of a call it takes.
Written(rows, request) ==
  CASE request.op = "submit_candidates" ->
         [rows EXCEPT !.discoveries = @ \cup
            {Identity[page[i].title] : i \in {k \in Pending(page) : page[k].title \notin rejected}}]
    [] request.op = "attach_evidence" ->
         [rows EXCEPT !.evidence = @ \cup {<<request.id, request.of>>}]
    [] request.op = "request_review" -> [rows EXCEPT !.reviews = @ \cup {request.id}]
    [] request.op = "record_run" -> [rows EXCEPT !.runs[request.id] = request.of]

\* Seeded fault: only what was created just now gives a candidate its id.
AnsweredCreated(cs) ==
  [i \in DOMAIN cs |->
     IF i \in Pending(cs) /\ cs[i].title \notin rejected
        /\ Identity[cs[i].title] \notin product.discoveries
     THEN [cs[i] EXCEPT !.discovery_id = Identity[cs[i].title]] ELSE cs[i]]

\* The answer names an id for every title taken, duplicates included.
Answered(cs) ==
  [i \in DOMAIN cs |->
     IF i \in Pending(cs) /\ cs[i].title \notin rejected
     THEN [cs[i] EXCEPT !.discovery_id = Identity[cs[i].title]] ELSE cs[i]]

-----------------------------------------------------------------------------
(* The node *)

\* submit_to_product begins.  Without a configured client it returns at once.
Starts ==
  /\ phase = "start"
  /\ \/ /\ ~configured
        /\ phase' = "done"
        /\ noted' = {submit_candidates}
        /\ UNCHANGED todo
     \/ /\ configured
        /\ phase' = "calling"
        /\ todo' = IF ~shadow_mode /\ Pending(candidates) # {}
                   THEN <<submit_candidates>> ELSE Calls(candidates)
        /\ UNCHANGED noted
  /\ UNCHANGED <<given, product, candidates, attempts>>

\* The calls that remain after the first, with or without an answer to it.
Proceeds(cs) ==
  /\ candidates' = cs
  /\ todo' = IF Head(todo) = submit_candidates THEN Calls(cs) ELSE Tail(todo)
  /\ phase' = IF Head(todo) = RecordParentRun THEN "done" ELSE "calling"
  /\ UNCHANGED <<given, attempts>>

Taken ==
  /\ phase = "calling"
  /\ product' = Written(product, Head(todo))
  /\ Proceeds(IF Head(todo) = submit_candidates THEN Answered(candidates) ELSE candidates)
  /\ UNCHANGED noted

\* Seeded fault: the error is swallowed.
NotedSilently ==
  /\ phase = "calling"
  /\ product' \in {product, Written(product, Head(todo))}
  /\ Proceeds(candidates)
  /\ UNCHANGED noted

\* A ScholarshipFinderError: an error status, or a body that is no object.  A
\* gateway may say so of a call the product has taken.
Noted ==
  /\ phase = "calling"
  /\ product' \in {product, Written(product, Head(todo))}
  /\ noted' = noted \cup {Head(todo)}
  /\ Proceeds(candidates)

\* Any other error leaves the node, and so does the death of the process, the
\* answer to the call in flight lost with it.
Abandoned ==
  /\ phase = "calling"
  /\ product' \in {product, Written(product, Head(todo))}
  /\ phase' = "abandoned"
  /\ UNCHANGED <<given, candidates, todo, noted, attempts>>

\* The process dies after the last call and before the checkpoint.
Unsaved ==
  /\ phase = "done"
  /\ phase' = "abandoned"
  /\ UNCHANGED <<given, product, candidates, todo, noted, attempts>>

Saved ==
  /\ phase = "done"
  /\ phase' = "saved"
  /\ UNCHANGED <<given, product, candidates, todo, noted, attempts>>

\* The next attempt of the job resumes before the node.
Resumes ==
  /\ phase = "abandoned"
  /\ attempts < MaxAttempts
  /\ attempts' = attempts + 1
  /\ candidates' = page
  /\ todo' = <<>>
  /\ noted' = {}
  /\ phase' = "start"
  /\ UNCHANGED <<given, product>>

Next == Starts \/ Taken \/ Noted \/ Abandoned \/ Unsaved \/ Saved \/ Resumes

Spec == Init /\ [][Next]_svars

-----------------------------------------------------------------------------
(* Properties *)

\* The discovery a candidate ends up with, whatever was done to get there.
Owner(i) ==
  IF page[i].discovery_id # None THEN page[i].discovery_id
  ELSE IF shadow_mode \/ page[i].title = None \/ page[i].title \in rejected THEN None
  ELSE Identity[page[i].title]

Owned == {i \in DOMAIN page : Owner(i) # None}

\* The candidates whose outcome is recorded on a discovery.
Mine(d) == {i \in Owned : Owner(i) = d /\ page[i].outcome # None}

\* Whose record the run of a discovery is, in the end: the last candidate's
\* that shares it, and the page's for the parent.
RunOf(d) ==
  IF d = Parent THEN 0 ELSE IF Mine(d) = {} THEN None ELSE Max(Mine(d))

\* The rows of one undisturbed execution.
Intended ==
  [discoveries |-> {Owner(i) : i \in Owned} \ {Parent},
   evidence |-> {<<Owner(i), i>> : i \in {k \in Owned : page[k].evidence}},
   reviews |-> IF shadow_mode THEN {}
               ELSE {Owner(i) : i \in {k \in Owned : page[k].outcome \in REVIEW_ON}},
   runs |-> [d \in Discoveries |-> RunOf(d)]]

\* After any number of crashes, transport errors, lost answers and repeated
\* calls, an execution that noted no failure leaves the product exactly as one
\* undisturbed execution does (integrations/scholarship_finder.py:114).
ExactlyOnce == (phase \in {"done", "saved"} /\ noted = {}) => product = Intended

\* At no moment does the product hold a row that is not meant for it: in
\* shadow mode nothing its own pipeline can see (submission.py:11).
NothingUnintended ==
  /\ product.discoveries \subseteq Intended.discoveries
  /\ product.evidence \subseteq Intended.evidence
  /\ product.reviews \subseteq Intended.reviews
  /\ \A d \in Discoveries :
       product.runs[d] \in {None} \cup (IF d = Parent THEN {0} ELSE {})
                            \cup {i \in Owned : Owner(i) = d}

\* Every row that is missing when the node ends is accounted for by a note
\* (submission.py:91).
MissingIsNoted ==
  phase \in {"done", "saved"} =>
    \/ submit_candidates \in noted
    \/ /\ Intended.discoveries \subseteq product.discoveries
       /\ \A row \in Intended.evidence \ product.evidence :
            \E n \in noted : n.op = "attach_evidence" /\ n.id = row[1] /\ n.of = row[2]
       /\ \A d \in Intended.reviews \ product.reviews :
            \E n \in noted : n.op = "request_review" /\ n.id = d
       /\ \A d \in Discoveries : product.runs[d] # Intended.runs[d] =>
            \E n \in noted : n.op = "record_run" /\ n.id = d

-----------------------------------------------------------------------------
(* Why: the inductive invariant *)

\* A Candidate once the product has answered.
Identified ==
  [title : Titles \cup {None}, discovery_id : Discoveries \cup {None},
   evidence : BOOLEAN, outcome : {"REVIEW_REQUIRED", "REJECT_RECOMMENDED", None}]

Requests ==
  [op : {"submit_candidates", "attach_evidence", "record_run", "request_review"},
   id : Discoveries \cup {None}, of : Nat]

Types ==
  /\ shadow_mode \in BOOLEAN /\ configured \in BOOLEAN
  /\ page \in Pages /\ rejected \subseteq Titles
  /\ product = [discoveries |-> product.discoveries, evidence |-> product.evidence,
                reviews |-> product.reviews, runs |-> product.runs]
  /\ product.runs \in [Discoveries -> {None} \cup Nat]
  /\ phase \in {"start", "calling", "abandoned", "done", "saved"}

\* NothingUnintended, and a run is only ever a candidate's with an outcome.
OnlyMeant ==
  /\ product.discoveries \subseteq Intended.discoveries
  /\ product.evidence \subseteq Intended.evidence
  /\ product.reviews \subseteq Intended.reviews
  /\ \A d \in Discoveries :
       product.runs[d] \in {None} \cup (IF d = Parent THEN {0} ELSE {}) \cup Mine(d)

\* The node's copy differs from the page only in ids, and an id it has is the
\* one the candidate is owed.
Ids ==
  /\ candidates \in Seq(Identified) /\ DOMAIN candidates = DOMAIN page
  /\ \A i \in DOMAIN page :
       /\ candidates[i].evidence = page[i].evidence
       /\ candidates[i].outcome = page[i].outcome
       /\ candidates[i].discovery_id \in {None, Owner(i)}

\* Past the first call: every id is known, or that call is noted.
Known ==
  \/ submit_candidates \in noted
  \/ /\ Intended.discoveries \subseteq product.discoveries
     /\ \A i \in DOMAIN page : candidates[i].discovery_id = Owner(i)

Records(request, d) == request.op = "record_run" /\ request.id = d

\* What the first k of the node's calls have left: each is noted or its row is
\* there, and a run's row is the latest call's for that discovery.
DoneTo(calls, k) ==
  \A p \in 1 .. k :
    /\ calls[p].op = "attach_evidence" =>
         calls[p] \in noted \/ <<calls[p].id, calls[p].of>> \in product.evidence
    /\ calls[p].op = "request_review" =>
         calls[p] \in noted \/ calls[p].id \in product.reviews
    /\ (/\ calls[p].op = "record_run"
        /\ \A q \in p + 1 .. k : ~Records(calls[q], calls[p].id)) =>
         \/ product.runs[calls[p].id] = calls[p].of
         \/ \E n \in noted : Records(n, calls[p].id)

AtFirstCall ==
  /\ todo = <<submit_candidates>> /\ noted = {}
  /\ ~shadow_mode /\ candidates = page

\* Past the first call, with k of the others made.
Past(k) ==
  /\ Known
  /\ DoneTo(Calls(candidates), k)
  /\ todo = SubSeq(Calls(candidates), k + 1, Len(Calls(candidates)))

SubmissionInv ==
  /\ Types /\ OnlyMeant /\ Ids
  /\ phase = "start" => candidates = page /\ noted = {}
  /\ phase = "calling" =>
       AtFirstCall \/ \E k \in 0 .. Len(Calls(candidates)) - 1 : Past(k)
  /\ phase \in {"done", "saved"} =>
       submit_candidates \in noted \/ Past(Len(Calls(candidates)))

=============================================================================
