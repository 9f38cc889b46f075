------------------------------ MODULE JobQueue ------------------------------
(***************************************************************************)
(* What the job runtime promises its callers, with leases, heartbeats,     *)
(* timers and the database taken away: a submitted job is worked on by at  *)
(* most one runner at a time, only the runner working on it can conclude   *)
(* it, and it is concluded once.  A runner may let go of a job without a   *)
(* verdict (a retry, or its death), and the job can then be begun again.   *)
(* AgentJobs implements this specification while heartbeats keep up.       *)
(***************************************************************************)
EXTENDS Naturals

CONSTANTS Jobs, Runners, None

VARIABLES
  holder,     \* the runner working on a job, or None
  verdict,    \* "none", or how the job was concluded
  begun       \* how many attempts at the job have begun

queueVars == <<holder, verdict, begun>>

Verdict == {"completed", "failed_review"}

QueueTypeOK ==
  /\ holder  \in [Jobs -> Runners \cup {None}]
  /\ verdict \in [Jobs -> Verdict \cup {"none"}]
  /\ begun   \in [Jobs -> Nat]

Init ==
  /\ holder  = [j \in Jobs |-> None]
  /\ verdict = [j \in Jobs |-> "none"]
  /\ begun   = [j \in Jobs |-> 0]

\* A free runner takes a free, undecided job.
Begin(r, j) ==
  /\ verdict[j] = "none"
  /\ holder[j] = None
  /\ \A k \in Jobs : holder[k] # r
  /\ holder' = [holder EXCEPT ![j] = r]
  /\ begun'  = [begun EXCEPT ![j] = @ + 1]
  /\ UNCHANGED verdict

\* An attempt is counted whose runner never learns that it has the job.
BeginLost(j) ==
  /\ verdict[j] = "none"
  /\ holder[j] = None
  /\ begun' = [begun EXCEPT ![j] = @ + 1]
  /\ UNCHANGED <<holder, verdict>>

\* The runner holding a job decides it.
Conclude(j, v) ==
  /\ holder[j] # None
  /\ holder'  = [holder EXCEPT ![j] = None]
  /\ verdict' = [verdict EXCEPT ![j] = v]
  /\ UNCHANGED begun

\* Jobs are let go without a verdict: one job for a retry, all of them when
\* the process dies.
Release(S) ==
  /\ holder' = [j \in Jobs |-> IF j \in S THEN None ELSE holder[j]]
  /\ UNCHANGED <<verdict, begun>>

Next ==
  \/ \E r \in Runners, j \in Jobs : Begin(r, j)
  \/ \E j \in Jobs : BeginLost(j)
  \/ \E j \in Jobs, v \in Verdict : Conclude(j, v)
  \/ \E S \in SUBSET Jobs : Release(S)

Spec == Init /\ [][Next]_queueVars
=============================================================================
