------------------------------ MODULE Policies ------------------------------
(***************************************************************************)
(* usecases/scholarship_finder/policies.py: what the agent recommends,     *)
(* as pure operators over a candidate.  Reasons, which are text, are left  *)
(* out.                                                                    *)
(*                                                                         *)
(* Of a candidate only what an outcome can depend on is kept: evidence is  *)
(* the set of claims it covers, contradictions and eligibility_rules are   *)
(* whether there are any, official_url is whether it is set.               *)
(***************************************************************************)
EXTENDS Naturals, Sequences, FiniteSetsExt

PageType == {"individual", "list", "aggregator", "not_a_scholarship"}

AgentOutcome == {"REVIEW_REQUIRED", "MORE_EVIDENCE_REQUIRED",
                 "AUTO_CHECK_ELIGIBLE", "REJECT_RECOMMENDED"}

\* True, False and None of amount_agrees and deadline_agrees.
Agreement == {"agrees", "differs", "unknown"}

\* The first segment of a claim_path.
Claim == {"source", "funding", "deadline"}

REQUIRED_CLAIMS == {"funding", "deadline"}

_missing_claims(candidate) == REQUIRED_CLAIMS \ candidate.evidence

Contradicted(candidate) ==
  /\ candidate.official_page_fetched
  /\ "differs" \in {candidate.amount_agrees, candidate.deadline_agrees}

Incomplete(candidate) ==
  \/ ~candidate.official_url
  \/ ~candidate.official_page_fetched
  \/ candidate.evidence = {}
  \/ _missing_claims(candidate) # {}

Corroborated(candidate) ==
  /\ candidate.amount_agrees = "agrees"
  /\ candidate.deadline_agrees = "agrees"
  /\ ~candidate.contradictions
  /\ candidate.eligibility_rules

\* Seeded fault: a gap is looked for before a contradiction.
decide_outcome_gaps_first(candidate) ==
  IF Incomplete(candidate) THEN "MORE_EVIDENCE_REQUIRED"
  ELSE IF Contradicted(candidate) THEN "REJECT_RECOMMENDED"
  ELSE IF Corroborated(candidate) THEN "AUTO_CHECK_ELIGIBLE"
  ELSE "REVIEW_REQUIRED"

\* Most conclusive first.
decide_outcome(candidate) ==
  IF Contradicted(candidate) THEN "REJECT_RECOMMENDED"
  ELSE IF Incomplete(candidate) THEN "MORE_EVIDENCE_REQUIRED"
  ELSE IF Corroborated(candidate) THEN "AUTO_CHECK_ELIGIBLE"
  ELSE "REVIEW_REQUIRED"

\* The page types no candidate can come from.
outcome_for_page_type(page_type) ==
  IF page_type = "not_a_scholarship" THEN "REJECT_RECOMMENDED" ELSE "none"

\* The outcomes in the order in which one of them decides for the job.
Attention == << "REVIEW_REQUIRED", "REJECT_RECOMMENDED",
                "MORE_EVIDENCE_REQUIRED", "AUTO_CHECK_ELIGIBLE" >>

\* Seeded fault: the best outcome of a candidate decides for the job.
roll_up_best(candidates) ==
  LET ranks == {i \in DOMAIN Attention :
                  \E k \in DOMAIN candidates : candidates[k].outcome = Attention[i]}
  IN  IF candidates = << >> THEN "MORE_EVIDENCE_REQUIRED" ELSE Attention[Max(ranks)]

\* One outcome for the whole job: the one that asks most of a human wins.
roll_up(candidates) ==
  LET ranks == {i \in DOMAIN Attention :
                  \E k \in DOMAIN candidates : candidates[k].outcome = Attention[i]}
  IN  IF candidates = << >> THEN "MORE_EVIDENCE_REQUIRED" ELSE Attention[Min(ranks)]
=============================================================================
