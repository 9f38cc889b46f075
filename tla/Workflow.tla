------------------------------ MODULE Workflow ------------------------------
(***************************************************************************)
(* The scholarship verification workflow (usecases/scholarship_finder:     *)
(* graph.py, nodes.py) as runtime/graph_runner.py runs it for one job:     *)
(* attempt after attempt, each resuming the checkpoints of the one before. *)
(*                                                                         *)
(* A node changes the graph's state only when it returns, so a node is one *)
(* action, except the two that touch _official_text, which is outside that *)
(* state: they take one candidate at a time.                               *)
(*                                                                         *)
(* What pages say and models answer is the environment's choice.  One      *)
(* attempt runs at a time: JobQueue is what the runtime promises.          *)
(***************************************************************************)
EXTENDS Retries, Policies, SequencesExt

CONSTANTS
  Keys,           \* identity keys of awards
  Pages,          \* the lists a model may split a page into: sequences of Item
  Truths,         \* what the official pages may say: each award's Truth
  Answers,        \* how model calls about one candidate may end
  Fetches,        \* how the fetch of an official page may end
  MaxCandidates,  \* MAX_CANDIDATES_PER_PAGE
  MaxFaults       \* interruptions of any kind in a behaviour (a bound)

\* Where a candidate's own link leads: it has none, to the page it was found
\* on, to that page's domain, to another domain, or to no host at all.
Link == {"none", "self", "inside", "away", "hostless"}

Item == [key: Keys, link: Link]

\* What comparing an award's reported facts with its official page gives: a
\* verdict per claim, the claims whose values only the model can locate,
\* whether the model flags a contradiction, and whether there are rules.  What
\* a model that answers says of a page is taken to be what the page says.
Truth == [funding: Agreement, deadline: Agreement,
          located: SUBSET REQUIRED_CLAIMS, flagged: BOOLEAN, rules: BOOLEAN]

ASSUME WorkflowAssumption ==
  /\ Keys # {}
  /\ Pages \subseteq Seq(Item)
  /\ Truths \subseteq [Keys -> Truth]
  /\ Answers \subseteq {"completed", "unavailable"}
  /\ Fetches \subseteq {"fetched", "empty", "failed"}
  /\ MaxCandidates \in Nat
  /\ MaxFaults \in Nat

\* The nodes in the order in which they can run.
Position ==
  [load_discovery |-> 1, fetch_source |-> 2, classify_page |-> 3,
   split_candidates |-> 4, single_candidate |-> 4, dedupe_candidates |-> 5,
   extract_facts |-> 6, find_official_source |-> 7, fetch_official |-> 8,
   compare_evidence |-> 9, extract_eligibility |-> 10, decide |-> 11,
   submit_to_product |-> 12, END |-> 13]

Node == DOMAIN Position \ {"END"}

Candidate ==
  [key: Keys, link: Link, official_url: BOOLEAN, official_page_fetched: BOOLEAN,
   amount_agrees: Agreement, deadline_agrees: Agreement,
   contradictions: BOOLEAN, eligibility_rules: BOOLEAN,
   evidence: SUBSET Claim, outcome: AgentOutcome \cup {"none"}]

\* The graph's state, and the node it is to run next.
State ==
  [next: DOMAIN Position, authoritative: BOOLEAN, page_usable: BOOLEAN,
   page_type: PageType \cup {"none"}, candidates: Seq(Candidate),
   outcome: AgentOutcome \cup {"none"}]

initial_state ==
  [next |-> "load_discovery", authoritative |-> FALSE, page_usable |-> TRUE,
   page_type |-> "none", candidates |-> << >>, outcome |-> "none"]

VARIABLES
  truth,          \* what the official page of each award says
  phase,          \* agent_jobs.state
  attempts,       \* agent_jobs.attempts
  saved,          \* the newest checkpoint of the job's thread
  mem,            \* the graph's state in the running attempt
  work,           \* the candidates the running node is done with
  reading,        \* the running node holds the text of the next candidate's page
  official_text,  \* _official_text: the keys it holds a text for
  unread,         \* for checking: awards whose page was fetched without a text
                  \* or about which a model call was not answered
  faults

wvars == <<truth, phase, attempts, saved, mem, work, reading, official_text, unread, faults>>

-----------------------------------------------------------------------------
Init ==
  /\ truth \in Truths
  /\ phase = "queued"
  /\ attempts = 0
  /\ saved = initial_state
  /\ mem = initial_state
  /\ work = << >>
  /\ reading = FALSE
  /\ official_text = {}
  /\ unread = {}
  /\ faults = 0

At(node) == phase = "running" /\ mem.next = node

\* A node returns.  Its checkpoint is written while the next node runs, so
\* until the run ends the newest one may be older than the graph's state.
Finish(result) ==
  /\ mem' = result
  /\ saved' \in {saved, result}
  /\ work' = << >>
  /\ reading' = FALSE
  /\ UNCHANGED <<truth, phase, attempts, faults>>

Returns(result) == Finish(result) /\ UNCHANGED <<official_text, unread>>

\* Seeded fault: the graph is given its input again, which starts it over.
StartOver ==
  /\ phase \in CLAIMABLE_STATES
  /\ phase' = claim(attempts).state
  /\ attempts' = claim(attempts).attempts
  /\ mem' = initial_state
  /\ work' = << >>
  /\ reading' = FALSE
  /\ UNCHANGED <<truth, saved, official_text, unread, faults>>

\* Seeded fault: a rescheduled job is not picked up.
StartQueued ==
  /\ phase = "queued"
  /\ phase' = claim(attempts).state
  /\ attempts' = claim(attempts).attempts
  /\ mem' = saved
  /\ work' = << >>
  /\ reading' = FALSE
  /\ UNCHANGED <<truth, saved, official_text, unread, faults>>

\* An attempt begins where the newest checkpoint of the thread stands.
Start ==
  /\ phase \in CLAIMABLE_STATES
  /\ phase' = claim(attempts).state
  /\ attempts' = claim(attempts).attempts
  /\ mem' = saved
  /\ work' = << >>
  /\ reading' = FALSE
  /\ UNCHANGED <<truth, saved, official_text, unread, faults>>

-----------------------------------------------------------------------------
load_discovery ==
  /\ At("load_discovery")
  /\ \E authoritative \in BOOLEAN :
       Returns([mem EXCEPT !.authoritative = authoritative, !.next = "fetch_source"])

route_after_fetch(usable) == IF usable THEN "classify_page" ELSE "decide"

fetch_source ==
  /\ At("fetch_source")
  /\ \E usable \in BOOLEAN :
       Returns([mem EXCEPT !.page_usable = usable, !.next = route_after_fetch(usable)])

route_after_classification(page_type) ==
  CASE page_type = "not_a_scholarship" -> "decide"
    [] page_type = "list" -> "split_candidates"
    [] OTHER -> "single_candidate"

\* An answer that is missing or unknown falls back to "individual", which is
\* one of the page types an answer may name.
classify_page ==
  /\ At("classify_page")
  /\ \E page_type \in PageType :
       Returns([mem EXCEPT !.page_type = page_type,
                           !.next = route_after_classification(page_type)])

_new_candidate(item) ==
  [key |-> item.key, link |-> item.link,
   official_url |-> FALSE, official_page_fetched |-> FALSE,
   amount_agrees |-> "unknown", deadline_agrees |-> "unknown",
   contradictions |-> FALSE, eligibility_rules |-> FALSE,
   evidence |-> {}, outcome |-> "none"]

Split(items) ==
  Returns([mem EXCEPT !.candidates = [i \in DOMAIN items |-> _new_candidate(items[i])],
                      !.next = "dedupe_candidates"])

\* The discovery itself: its link is the page it was found on.
OneCandidate == \E key \in Keys : Split(<<[key |-> key, link |-> "self"]>>)

single_candidate == At("single_candidate") /\ OneCandidate

\* Seeded fault: the cap lets one candidate more through.
TruncatedLate(page) ==
  IF Len(page) <= MaxCandidates + 1 THEN page ELSE SubSeq(page, 1, MaxCandidates)

Truncated(page) == SubSeq(page, 1, IF Len(page) < MaxCandidates THEN Len(page) ELSE MaxCandidates)

\* Without an answer the page is treated as one candidate.
split_candidates ==
  /\ At("split_candidates")
  /\ (\E page \in Pages : Split(Truncated(page))) \/ OneCandidate

\* Seeded fault: the later of two candidates with one key is kept.
merge_later(seen, candidate) ==
  IF \E i \in DOMAIN seen : seen[i].key = candidate.key
  THEN [i \in DOMAIN seen |-> IF seen[i].key = candidate.key THEN candidate ELSE seen[i]]
  ELSE Append(seen, candidate)

\* One turn of the loop over the candidates.  Of two with one key the earlier
\* is kept, in its place, unless only the later has a link of its own.
merge(seen, candidate) ==
  IF \E i \in DOMAIN seen : seen[i].key = candidate.key
  THEN [i \in DOMAIN seen |->
          IF /\ seen[i].key = candidate.key
             /\ seen[i].link = "none" /\ candidate.link # "none"
          THEN candidate ELSE seen[i]]
  ELSE Append(seen, candidate)

dedupe_candidates ==
  /\ At("dedupe_candidates")
  /\ Returns([mem EXCEPT !.candidates = FoldLeft(merge, << >>, @),
                         !.next = "extract_facts"])

\* The facts read here are what compare_evidence holds against the page;
\* truth says how that comparison ends.
extract_facts ==
  /\ At("extract_facts")
  /\ Returns([mem EXCEPT !.next = "find_official_source"])

-----------------------------------------------------------------------------
\* A link counts when it leaves the source's domain, or stays on that of an
\* authoritative source without being the page itself.
LinkCounts(candidate) ==
  \/ candidate.link = "away"
  \/ candidate.link = "inside" /\ mem.authoritative

\* A link without a host is left alone: it neither counts nor is searched for.
Searched(candidate) == ~LinkCounts(candidate) /\ candidate.link # "hostless"

\* The web search names an official page for some of the rest.
find_official_source ==
  /\ At("find_official_source")
  /\ \E found \in SUBSET {i \in DOMAIN mem.candidates : Searched(mem.candidates[i])} :
       Returns([mem EXCEPT
         !.candidates = [i \in DOMAIN @ |->
            [@[i] EXCEPT !.official_url = LinkCounts(mem.candidates[i]) \/ i \in found]],
         !.next = "fetch_official"])

\* The candidate a loop over the candidates has reached.
Reached == mem.candidates[Len(work) + 1]

Looping(node) == At(node) /\ Len(work) < Len(mem.candidates)

\* The official page of the candidate reached is fetched, perhaps without any
\* text, or it is not and the candidate goes on without.
Fetch ==
  /\ \/ /\ ~Reached.official_url \/ "failed" \in Fetches
        /\ work' = Append(work, Reached)
        /\ UNCHANGED <<official_text, unread>>
     \/ /\ Reached.official_url
        /\ work' = Append(work, [Reached EXCEPT !.official_page_fetched = TRUE,
                                                !.evidence = @ \cup {"source"}])
        /\ \/ /\ "fetched" \in Fetches
              /\ official_text' = official_text \cup {Reached.key}
              /\ UNCHANGED unread
           \/ /\ "empty" \in Fetches
              /\ official_text' = official_text \ {Reached.key}
              /\ unread' = unread \cup {Reached.key}
  /\ UNCHANGED <<truth, phase, attempts, saved, mem, reading, faults>>

\* Seeded fault: candidates whose page could not be fetched are left out.
LoopEndsDropping(node, next) ==
  /\ At(node)
  /\ Len(work) = Len(mem.candidates)
  /\ Returns([mem EXCEPT !.next = next,
       !.candidates = SelectSeq(work, LAMBDA c : c.official_url => c.official_page_fetched)])

\* All candidates are done: the node returns them.
LoopEnds(node, next) ==
  /\ At(node)
  /\ Len(work) = Len(mem.candidates)
  /\ Returns([mem EXCEPT !.candidates = work, !.next = next])

fetch_official ==
  \/ Looping("fetch_official") /\ Fetch
  \/ LoopEnds("fetch_official", "compare_evidence")

-----------------------------------------------------------------------------
\* Seeded fault: the text of a page that was not fetched is left in place.
PopIfFetched ==
  LET present == Reached.official_page_fetched /\ Reached.key \in official_text
  IN  /\ reading' = present
      /\ work' = IF present THEN work ELSE Append(work, Reached)
      /\ official_text' = IF present THEN official_text \ {Reached.key} ELSE official_text
      /\ UNCHANGED <<truth, phase, attempts, saved, mem, unread, faults>>

\* The text is taken out of the dictionary whatever the candidate looks like;
\* without a page or its text there is nothing to compare.
PopText ==
  LET present == Reached.official_page_fetched /\ Reached.key \in official_text
  IN  /\ reading' = present
      /\ work' = IF present THEN work ELSE Append(work, Reached)
      /\ official_text' = official_text \ {Reached.key}
      /\ UNCHANGED <<truth, phase, attempts, saved, mem, unread, faults>>

\* Seeded fault: the dictionary is keyed by the job alone.
PageReadLast(candidate) ==
  LET fetched == SelectSeq(mem.candidates, LAMBDA c : c.official_page_fetched)
  IN  truth[Last(fetched).key]

\* The page a candidate's facts are held against.
PageRead(candidate) == truth[candidate.key]

\* Values the extractor cannot read on both sides count if the model located
\* them; otherwise there is nothing to compare, which is not a difference.
Verdict(page, path, answer) ==
  IF path \in page.located /\ answer # "completed" THEN "unknown" ELSE page[path]

_settle_agreement(candidate, answer) ==
  LET verdicts == [path \in REQUIRED_CLAIMS |-> Verdict(PageRead(candidate), path, answer)]
  IN  [candidate EXCEPT
         !.amount_agrees = verdicts["funding"],
         !.deadline_agrees = verdicts["deadline"],
         !.contradictions = answer = "completed" /\ PageRead(candidate).flagged,
         !.evidence = @ \cup {path \in REQUIRED_CLAIMS : verdicts[path] = "agrees"}]

\* The model has answered, or could not.
Compare ==
  \E answer \in Answers :
    /\ work' = Append(work, _settle_agreement(Reached, answer))
    /\ unread' = IF answer = "completed" THEN unread ELSE unread \cup {Reached.key}
    /\ reading' = FALSE
    /\ UNCHANGED <<truth, phase, attempts, saved, mem, official_text, faults>>

compare_evidence ==
  \/ Looping("compare_evidence") /\ ~reading /\ PopText
  \/ Looping("compare_evidence") /\ reading /\ Compare
  \/ LoopEnds("compare_evidence", "extract_eligibility")

\* A candidate without an answer keeps an empty list of rules.
extract_eligibility ==
  /\ At("extract_eligibility")
  /\ \E answers \in [DOMAIN mem.candidates -> Answers] :
       /\ Finish([mem EXCEPT
            !.candidates = [i \in DOMAIN @ |->
               [@[i] EXCEPT !.eligibility_rules =
                  answers[i] = "completed" /\ truth[mem.candidates[i].key].rules]],
            !.next = "decide"])
       /\ unread' = unread \cup
            {mem.candidates[i].key : i \in {n \in DOMAIN answers : answers[n] # "completed"}}
  /\ UNCHANGED official_text

\* One outcome for every candidate and one for the job.  A page nobody could
\* read comes first, then a page type that settles it.
decide ==
  /\ At("decide")
  /\ LET settled == IF ~mem.page_usable THEN "MORE_EVIDENCE_REQUIRED"
                    ELSE outcome_for_page_type(mem.page_type)
         Or(outcome) == IF settled = "none" THEN outcome ELSE settled
         decided == [i \in DOMAIN mem.candidates |->
                       [mem.candidates[i] EXCEPT !.outcome = Or(decide_outcome(mem.candidates[i]))]]
     IN  Returns([mem EXCEPT !.candidates = decided, !.outcome = Or(roll_up(decided)),
                             !.next = "submit_to_product"])

\* What the product is sent and answers changes nothing that is kept here.
submit_to_product ==
  /\ At("submit_to_product")
  /\ Returns([mem EXCEPT !.next = "END"])

\* The graph has returned: its result and the outcome are committed.
Complete ==
  /\ At("END")
  /\ phase' = succeed(attempts).state
  /\ saved' = mem
  /\ UNCHANGED <<truth, attempts, mem, work, reading, official_text, unread, faults>>

-----------------------------------------------------------------------------
Fault == phase \notin TERMINAL_STATES /\ faults < MaxFaults /\ faults' = faults + 1

\* The attempt's time is up, or the running node raises, and the checkpoints of
\* earlier nodes have been written by the time the graph has raised; or it
\* raises because such a write failed, also after the last node.  Errors are
\* classified by name and number, so any of these may be permanent.
Abort ==
  /\ Fault
  /\ phase = "running"
  /\ \E error_class \in ErrorClass : phase' = fail(attempts, error_class).state
  /\ saved' \in {saved, mem}
  /\ work' = << >>
  /\ reading' = FALSE
  /\ UNCHANGED <<truth, attempts, mem, official_text, unread>>

\* The transaction that records the outcome fails: the lease lapses and the
\* job is queued again.
CloseLost ==
  /\ Fault
  /\ At("END")
  /\ phase' = "retry_wait"
  /\ saved' = mem
  /\ UNCHANGED <<truth, attempts, mem, work, reading, official_text, unread>>

\* The process dies: its memory is gone (mem is set to what the next attempt
\* loads) and a running job is queued again.
Crash ==
  /\ Fault
  /\ phase' = IF phase = "running" THEN "retry_wait" ELSE phase
  /\ mem' = saved
  /\ work' = << >>
  /\ reading' = FALSE
  /\ official_text' = {}
  /\ UNCHANGED <<truth, attempts, saved, unread>>

Step ==
  \/ Start \/ load_discovery \/ fetch_source \/ classify_page
  \/ single_candidate \/ split_candidates \/ dedupe_candidates \/ extract_facts
  \/ find_official_source \/ fetch_official \/ compare_evidence
  \/ extract_eligibility \/ decide \/ submit_to_product \/ Complete

Next == Step \/ Abort \/ CloseLost \/ Crash

Spec == Init /\ [][Next]_wvars

FairSpec == Spec /\ WF_wvars(Step)

-----------------------------------------------------------------------------
\* Every variable has its type, and no page costs more than MaxCandidates
\* candidates (nodes.MAX_CANDIDATES_PER_PAGE).
WorkflowTypeOK ==
  /\ truth \in Truths
  /\ phase \in JobState /\ attempts \in Nat /\ faults \in 0 .. MaxFaults
  /\ saved \in State /\ mem \in State
  /\ work \in Seq(Candidate) /\ Len(work) <= Len(mem.candidates)
  /\ Len(mem.candidates) <= IF MaxCandidates = 0 THEN 1 ELSE MaxCandidates
  /\ reading \in BOOLEAN
  /\ official_text \subseteq Keys /\ unread \subseteq Keys

Agrees(key)  == truth[key].funding = "agrees" /\ truth[key].deadline = "agrees"
Differs(key) == "differs" \in {truth[key].funding, truth[key].deadline}

\* What an award deserves once everything about it has been read.
Deserved(candidate) ==
  LET page == truth[candidate.key]
  IN  CASE ~candidate.official_page_fetched -> "MORE_EVIDENCE_REQUIRED"
        [] candidate.official_page_fetched /\ Differs(candidate.key) -> "REJECT_RECOMMENDED"
        [] candidate.official_page_fetched /\ Agrees(candidate.key) ->
             IF page.flagged \/ ~page.rules THEN "REVIEW_REQUIRED" ELSE "AUTO_CHECK_ELIGIBLE"
        [] OTHER -> "MORE_EVIDENCE_REQUIRED"

\* Every award whose page had a text and about which the model answered has
\* the outcome that page deserves.
Exact ==
  \A i \in DOMAIN mem.candidates :
    Position[mem.next] > Position["decide"] /\ mem.candidates[i].key \notin unread =>
      mem.candidates[i].outcome = Deserved(mem.candidates[i])

\* A run that nothing interrupts gives every award the outcome its official
\* page deserves, whatever becomes of the other awards of the batch
\* (nodes.compare_evidence to nodes.decide).
ExactOutcome == faults = 0 => Exact

\* So does a run that was interrupted: losing the page texts is made good by
\* fetching the pages again (the comment at nodes._official_text).  The code
\* breaks it.
ResumeHarmless == Exact

Supported(candidate) ==
  LET key == candidate.key
  IN  CASE candidate.outcome = "REJECT_RECOMMENDED"  -> Differs(key)
        [] candidate.outcome = "REVIEW_REQUIRED"     -> Agrees(key)
        [] candidate.outcome = "AUTO_CHECK_ELIGIBLE" -> Agrees(key) /\ truth[key].rules
        [] OTHER -> TRUE

\* Whatever is interrupted, unfetched or unanswered, no outcome claims what
\* the award's own page does not bear out (nodes.compare_evidence,
\* policies.decide_outcome).  A review is asked for only of an award that
\* agrees on both claims.
OutcomeSupported == \A i \in DOMAIN mem.candidates : Supported(mem.candidates[i])

Awards(state) == {state.candidates[i].key : i \in DOMAIN state.candidates}

JobSupported(state) ==
  CASE state.outcome = "AUTO_CHECK_ELIGIBLE" ->
         Awards(state) # {} /\ \A key \in Awards(state) : Agrees(key) /\ truth[key].rules
    [] state.outcome = "REJECT_RECOMMENDED" ->
         state.page_usable /\ (state.page_type = "not_a_scholarship"
                               \/ \E key \in Awards(state) : Differs(key))
    [] OTHER -> TRUE

\* The job's outcome does not hide a candidate's (policies.roll_up): it is
\* auto-checked only if all its awards are borne out, and rejected only for
\* what a page says that was read.
JobOutcomeSupported == JobSupported(mem)

\* The comparison takes the text of every award of its batch out of the
\* process (nodes._official_text), also when a second attempt could not fetch
\* what the first one did.  What is left then belongs to awards the batch does
\* not have; a job given up before keeps its texts for good.
TextsConsumed ==
  Position[mem.next] > Position["compare_evidence"] => official_text \cap Awards(mem) = {}

\* A job whose analysis is done and checkpointed is not given up on
\* (submission.submit_to_product's contract).  The code breaks it.
AnalysisKept == phase = "failed_review" => saved.outcome = "none"

\* The thread's newest checkpoint never goes back: no attempt repeats a node
\* whose checkpoint was written (graph_runner._run_graph's resume).
NoWorkRedone == [][Position[saved'.next] >= Position[saved.next]]_wvars

KeysOf(state) == [i \in DOMAIN state.candidates |-> state.candidates[i].key]

\* Once the batch is formed no failure of one candidate, no crash and no
\* retry drops, adds or reorders a candidate (nodes.py's second rule).
BatchKept ==
  [][Position[saved.next] > Position["dedupe_candidates"] => KeysOf(saved') = KeysOf(saved)]_wvars

KeepsAwards(before, after) ==
  LET Same(key)   == {i \in DOMAIN before : before[i].key = key}
      Linked(key) == {i \in Same(key) : before[i].link # "none"}
      Best(key)   == IF Linked(key) = {} THEN Min(Same(key)) ELSE Min(Linked(key))
  IN  /\ \A i, j \in DOMAIN after : after[i].key = after[j].key => i = j
      /\ {before[i].key : i \in DOMAIN before} = {after[i].key : i \in DOMAIN after}
      /\ \A i \in DOMAIN after : after[i] = before[Best(after[i].key)]
      /\ \A i, j \in DOMAIN after :
           i < j => Min(Same(after[i].key)) < Min(Same(after[j].key))

\* Merging loses no award, leaves each once, and prefers the first of those
\* that have a link to the first of all (nodes.dedupe_candidates).
MergeKeepsAwards ==
  [][At("dedupe_candidates") /\ mem'.next = "extract_facts" =>
       KeepsAwards(mem.candidates, mem'.candidates)]_wvars

\* Every run ends, with a result or parked for a human.
RunEnds == <>(phase \in TERMINAL_STATES)

-----------------------------------------------------------------------------
(* Why: the inductive invariants.  Those about a state of the graph hold of *)
(* mem and of saved alike, since an attempt resumes what was saved.         *)

Capped(state) ==
  Len(state.candidates) <= IF MaxCandidates = 0 THEN 1 ELSE MaxCandidates

\* Whatever a candidate carries was read off its own award's page.
Faithful(candidate) ==
  LET page == truth[candidate.key]
  IN  /\ candidate.amount_agrees \in {"unknown", page.funding}
      /\ candidate.deadline_agrees \in {"unknown", page.deadline}
      /\ "funding" \in candidate.evidence => candidate.amount_agrees = "agrees"
      /\ "deadline" \in candidate.evidence => candidate.deadline_agrees = "agrees"
      /\ candidate.eligibility_rules => page.rules

Uncompared(candidate) ==
  /\ candidate.amount_agrees = "unknown" /\ candidate.deadline_agrees = "unknown"
  /\ candidate.evidence \subseteq {"source"}

\* Candidates come only from a page that was read and may hold some.
NoneExpected(state) ==
  \/ Position[state.next] <= Position["split_candidates"]
  \/ ~state.page_usable
  \/ state.page_type = "not_a_scholarship"

\* How far a state has come, and what it may hold by then.
Progressed(state) ==
  /\ NoneExpected(state) => state.candidates = << >>
  /\ state.next \in {"classify_page", "split_candidates", "single_candidate"} =>
       state.page_usable
  /\ state.next \in {"split_candidates", "single_candidate"} =>
       state.page_type # "not_a_scholarship"
  /\ Position[state.next] <= Position["compare_evidence"] =>
       \A i \in DOMAIN state.candidates : Uncompared(state.candidates[i])
  /\ Position[state.next] <= Position["decide"] =>
       /\ state.outcome = "none"
       /\ \A i \in DOMAIN state.candidates : state.candidates[i].outcome = "none"

GraphGood(state) ==
  /\ state \in State
  /\ Capped(state)
  /\ Progressed(state)
  /\ \A i \in DOMAIN state.candidates :
       Faithful(state.candidates[i]) /\ Supported(state.candidates[i])
  /\ JobSupported(state)

\* What a loop over the candidates has done so far is a copy of its part.
WorkGood ==
  /\ work \in Seq(Candidate) /\ Len(work) <= Len(mem.candidates)
  /\ \A i \in DOMAIN work :
       /\ work[i].key = mem.candidates[i].key
       /\ Faithful(work[i])
       /\ work[i].outcome = "none"
       /\ mem.next # "compare_evidence" => Uncompared(work[i])

\* A text that was popped is gone.
TextGood ==
  /\ official_text \subseteq Keys
  /\ TextsConsumed
  /\ reading \in BOOLEAN
  /\ reading => mem.next = "compare_evidence" /\ Len(work) < Len(mem.candidates)
                /\ Reached.key \notin official_text
  /\ mem.next = "compare_evidence" =>
       \A i \in DOMAIN work : work[i].key \notin official_text

\* The newest checkpoint is behind the graph, by the same batch.
SavedBehind ==
  /\ Position[saved.next] <= Position[mem.next]
  /\ Position[saved.next] > Position["dedupe_candidates"] => KeysOf(saved) = KeysOf(mem)

WorkflowInv ==
  /\ truth \in Truths
  /\ phase \in JobState /\ attempts \in Nat /\ faults \in 0 .. MaxFaults
  /\ unread \subseteq Keys
  /\ GraphGood(mem) /\ GraphGood(saved)
  /\ WorkGood
  /\ TextGood
  /\ SavedBehind

\* For runs that nothing interrupts.  A page that was fetched is recorded as a
\* source, and nothing else is yet.
Sourced(candidate) ==
  candidate.official_page_fetched =>
    candidate.official_url /\ candidate.evidence = {"source"}

\* Everything its page says of a candidate has been read.
Read(candidate) ==
  LET page == truth[candidate.key]
  IN  candidate.official_page_fetched /\ candidate.key \notin unread =>
        /\ candidate.official_url
        /\ candidate.amount_agrees = page.funding
        /\ candidate.deadline_agrees = page.deadline
        /\ candidate.contradictions = page.flagged
        /\ candidate.evidence =
             {"source"} \cup {path \in REQUIRED_CLAIMS : page[path] = "agrees"}

HasText(candidate) ==
  candidate.official_page_fetched /\ candidate.key \notin unread =>
    candidate.key \in official_text

Distinct(candidates) ==
  \A i, j \in DOMAIN candidates : candidates[i].key = candidates[j].key => i = j

ExactInv ==
  /\ phase \in {"queued", "running", "completed"}
  /\ phase = "queued" => saved = initial_state /\ mem = initial_state /\ official_text = {}
  /\ Position[mem.next] > Position["dedupe_candidates"] => Distinct(mem.candidates)
  /\ Position[mem.next] <= Position["fetch_official"] =>
       \A i \in DOMAIN mem.candidates :
         mem.candidates[i].evidence = {} /\ ~mem.candidates[i].official_page_fetched
  /\ mem.next = "fetch_official" =>
       \A i \in DOMAIN work : Sourced(work[i]) /\ HasText(work[i])
  /\ mem.next = "compare_evidence" =>
       /\ \A i \in DOMAIN mem.candidates :
            /\ Sourced(mem.candidates[i])
            /\ i > Len(work) /\ ~(reading /\ i = Len(work) + 1) => HasText(mem.candidates[i])
       /\ \A i \in DOMAIN work : Read(work[i])
  /\ mem.next \in {"extract_eligibility", "decide"} =>
       \A i \in DOMAIN mem.candidates : Read(mem.candidates[i])
  /\ mem.next = "decide" =>
       \A i \in DOMAIN mem.candidates :
         mem.candidates[i].key \notin unread =>
           mem.candidates[i].eligibility_rules = truth[mem.candidates[i].key].rules
  /\ Exact
=============================================================================
