---------------------------- MODULE MCSubmission ----------------------------
(* Instances of Submission for TLC. *)
EXTENDS Submission, TLC

CONSTANTS t1, t2, t3, d1, d2

\* The product knows the awards t1 and t3 as one discovery.
MCIdentity == (t1 :> d1) @@ (t2 :> d2) @@ (t3 :> d1)

Reported(title, id, evidence, outcome) ==
  [title |-> title, discovery_id |-> id, evidence |-> evidence, outcome |-> outcome]

\* Individual pages, and lists: two awards, two under one discovery, and one
\* without a title beside one without evidence.
MCPages ==
  {<<Reported(t1, Parent, TRUE, "REVIEW_REQUIRED")>>,
   <<Reported(t1, Parent, FALSE, "REJECT_RECOMMENDED")>>,
   <<>>,
   <<Reported(t1, None, TRUE, "REVIEW_REQUIRED"), Reported(t2, None, TRUE, "REJECT_RECOMMENDED")>>,
   <<Reported(t1, None, TRUE, "REJECT_RECOMMENDED"), Reported(t3, None, TRUE, "REVIEW_REQUIRED")>>,
   <<Reported(None, None, TRUE, "REVIEW_REQUIRED"), Reported(t2, None, FALSE, None)>>}

=============================================================================
