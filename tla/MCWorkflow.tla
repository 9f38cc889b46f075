----------------------------- MODULE MCWorkflow -----------------------------
(***************************************************************************)
(* Workflow on small instances: two awards, a list page that names one of  *)
(* them twice, and one page per verdict that decides differently.          *)
(***************************************************************************)
EXTENDS Workflow

CONSTANTS a, b

Entry(key, link) == [key |-> key, link |-> link]

\* Empty, one entry per kind of link, duplicates with and without a link in
\* either order, and lists at and above the cap of three.
MCPages ==
  { << >>,
    << Entry(a, "away"), Entry(b, "inside") >>,
    << Entry(a, "none"), Entry(a, "away") >>,
    << Entry(a, "away"), Entry(a, "none") >>,
    << Entry(a, "none"), Entry(b, "hostless"), Entry(a, "away") >>,
    << Entry(a, "inside"), Entry(b, "away"), Entry(a, "away"), Entry(b, "none") >> }

Page(funding, deadline, located, flagged, rules) ==
  [funding |-> funding, deadline |-> deadline, located |-> located,
   flagged |-> flagged, rules |-> rules]

Corroborating == Page("agrees", "agrees", {}, FALSE, TRUE)
Doubtful      == Page("agrees", "agrees", {"deadline"}, TRUE, TRUE)
WithoutRules  == Page("agrees", "agrees", {"funding", "deadline"}, FALSE, FALSE)
Contradicting == Page("agrees", "differs", {}, FALSE, TRUE)
ModelSays     == Page("differs", "unknown", {"funding"}, TRUE, TRUE)
Silent        == Page("agrees", "unknown", {}, FALSE, TRUE)

Both(one, other) == (a :> one) @@ (b :> other)

\* Every kind of page, beside one of another verdict, and two awards that may
\* both be auto-checked.
MCTruths ==
  { Both(Corroborating, Corroborating), Both(Doubtful, Contradicting),
    Both(WithoutRules, ModelSays), Both(Silent, Corroborating),
    Both(Contradicting, Doubtful) }

\* One list of two awards that are both fetched.
OneList == { << Entry(a, "away"), Entry(b, "away") >> }
=============================================================================
