----------------------------- MODULE AgentJobs -----------------------------
(***************************************************************************)
(* The life of a job in the agent service: submission (api/jobs.py), one   *)
(* execution of it (runtime/graph_runner.py), the recovery sweeper         *)
(* (runtime/sweeper.py) and the rows all of them write (infra/jobs.py,     *)
(* infra/models.py).                                                       *)
(*                                                                         *)
(* One process runs everything: a background task per accepted job, the    *)
(* sweeper loop, and the run-due requests, which are sweeper passes.  Each *)
(* database transaction is one action: the row locks (FOR UPDATE) and the  *)
(* unique indexes make it atomic.  Between two transactions of a coroutine *)
(* any other may run, time may pass, and the process may die.              *)
(*                                                                         *)
(* What the workflow graph computes is not here: an attempt's graph        *)
(* returns, or raises an error of either class.                            *)
(***************************************************************************)
EXTENDS Retries, Sequences, FiniteSets

CONSTANTS
  Jobs,           \* job ids, ordered as the uuid7 primary key orders them;
                  \* one per idempotency key
  Loop,           \* the task of run_sweeper
  Drains,         \* requests to POST /jobs/run-due
  Batch,          \* settings.job_sweep_batch_limit
  MinHeartbeat,   \* _MIN_HEARTBEAT_SECONDS, in ticks
  MaxMissed,      \* consecutive renewals a run may fail to make (a bound)
  MaxFaults       \* faults of any kind in a behaviour (a bound)

Sweepers == {Loop} \cup Drains

\* The background task that submit_job spawns for job j is named j.
Runners == Jobs \cup Sweepers

ASSUME JobsAssumption ==
  /\ Jobs \subseteq Nat
  /\ Jobs \cap Sweepers = {}
  /\ None \notin Runners
  /\ Batch \in Nat \ {0}
  /\ MinHeartbeat \in Nat \ {0}
  /\ MaxMissed \in Nat
  /\ MaxFaults \in Nat

_HEARTBEAT_DIVISOR == 3

\* Seeded fault: the lease is renewed at half its length.
IntervalHalf == (LeaseTicks + 1) \div 2

\* Ticks between two renewals of a lease, as _heartbeat computes it.
Interval ==
  IF LeaseTicks \div _HEARTBEAT_DIVISOR > MinHeartbeat
  THEN LeaseTicks \div _HEARTBEAT_DIVISOR ELSE MinHeartbeat

\* A lease outlasts the renewals a run may miss.  The safety properties of
\* exclusive execution hold under this condition and fail without it.
HeartbeatMargin == (MaxMissed + 1) * Interval < LeaseTicks

VARIABLES
  job,        \* agent_jobs: the row of each job
  history,    \* agent_job_attempts: outcome of attempt 1, 2, ... of each job
  output,     \* agent_outputs: the jobs whose "workflow" row was written
  pc,         \* where each runner is
  run,        \* the attempt a live runner carries, or None
  queue,      \* ids a sweeper pass selected and has not executed yet
  faults      \* faults so far

vars == <<job, history, output, pc, run, queue, faults>>

AbsentJob ==
  [state |-> "absent", attempts |-> 0,
   next_attempt_at |-> None, lease_expires_at |-> None]

\* An attempt row whose outcome_state is still NULL.
Open == "open"
Outcome == {Open, "completed", "failed_review", "retry_wait"}

\* A live runner is inside execute_job with its claim committed: the graph is
\* running, its error is being recorded (the runner's place is the error's
\* class), or its result is.  The heartbeat task lives until the graph
\* returned or its error was recorded: the finally clause that cancels it
\* comes after the except clause.
Renewing == {"running"} \cup ErrorClass
Closing  == {"recording", "committing"} \cup ErrorClass
Live     == Renewing \cup Closing

Place == {"unsubmitted", "spawned", "done",
          "asleep", "reclaimed", "draining"} \cup Live

\* The attempt a live runner carries: its snapshot, the ticks until its next
\* renewal (or, with the heartbeat cancelled, until its closing transaction
\* is late), and the renewals missed in a row.
Attempt == [job: Jobs, number: Nat, beat: Nat, missed: Nat]

ASSUME NoneAssumption == None \notin Attempt

LiveOn(j) == {r \in Runners : pc[r] \in Live /\ run[r].job = j}

Due == {j \in Jobs : is_due(job[j].state, job[j].next_attempt_at)}

\* Seeded fault: the sweeper takes every running job for an abandoned one.
StaleAnyRunning == {j \in Jobs : job[j].state = "running"}

Stale == {j \in Jobs : /\ job[j].state = "running"
                       /\ is_lease_expired(job[j].lease_expires_at)}

\* ORDER BY job_id LIMIT n
First(S, n) == {j \in S : Cardinality({k \in S : k < j}) < n}

\* Where a runner goes when its execute_job ends, however it ends.
Rest(r) == IF r \in Jobs THEN "done" ELSE "draining"

\* Seeded fault: execute_job ends without cancelling its heartbeat.
LeaveHeartbeat(r) ==
  /\ pc' = [pc EXCEPT ![r] = Rest(r)]
  /\ UNCHANGED run

\* A live runner's execute_job ends.
Leave(r) ==
  /\ pc' = [pc EXCEPT ![r] = Rest(r)]
  /\ run' = [run EXCEPT ![r] = None]

Fault ==
  /\ faults < MaxFaults
  /\ faults' = faults + 1

-----------------------------------------------------------------------------
(* infra/jobs.py: what one statement writes *)

apply_transition(j, transition) == job' = [job EXCEPT ![j] = transition]

\* Seeded fault: an attempt is counted without its row.
start_attempt_unwritten(j) == UNCHANGED history

start_attempt(j) == history' = [history EXCEPT ![j] = Append(@, Open)]

\* Seeded fault: the row finished is the job's current attempt, not one's own.
finish_current_attempt(j, number, outcome) ==
  history' = [history EXCEPT ![j][job[j].attempts] = outcome]

\* Seeded fault: a success does not finish its attempt.
finish_failed_attempt(j, number, outcome) ==
  IF outcome = "completed" THEN UNCHANGED history
  ELSE history' = [history EXCEPT ![j][number] = outcome]

finish_attempt(j, number, outcome) ==
  history' = [history EXCEPT ![j][number] = outcome]

\* renew_lease extends the lease of the job's row if that row is running,
\* whichever attempt it is running for.
renew_lease(j) ==
  job' = IF job[j].state = "running"
         THEN [job EXCEPT ![j].lease_expires_at = LeaseTicks]
         ELSE job

\* Seeded fault: a reclaimed row keeps its lapsed lease.
ReclaimedWithLease(row) ==
  [row EXCEPT !.state = "retry_wait", !.next_attempt_at = 0]

\* Seeded fault: the interrupted attempt is not counted.
ReclaimedUncounted(row) ==
  [row EXCEPT !.state = "retry_wait", !.attempts = @ - 1,
              !.lease_expires_at = None, !.next_attempt_at = 0]

\* A row that reclaim_expired_leases returns to the queue, due now.
Reclaimed(row) ==
  [row EXCEPT !.state = "retry_wait",
              !.lease_expires_at = None, !.next_attempt_at = 0]

-----------------------------------------------------------------------------
Init ==
  /\ job     = [j \in Jobs |-> AbsentJob]
  /\ history = [j \in Jobs |-> << >>]
  /\ output  = {}
  /\ pc      = [r \in Runners |-> IF r \in Jobs THEN "unsubmitted" ELSE "asleep"]
  /\ run     = [r \in Runners |-> None]
  /\ queue   = [r \in Runners |-> {}]
  /\ faults  = 0

-----------------------------------------------------------------------------
(* Submission *)

\* submit_job: the row is committed, then its background task is spawned.  A
\* redelivery conflicts on the idempotency key, inserts nothing and spawns
\* nothing, so it is a stuttering step.
Submit(j) ==
  /\ job[j].state = "absent"
  /\ job' = [job EXCEPT ![j].state = "queued"]
  /\ pc' = [pc EXCEPT ![j] = "spawned"]
  /\ UNCHANGED <<history, output, run, queue, faults>>

-----------------------------------------------------------------------------
(* execute_job: the claim *)

\* Runner r is about to run the first transaction of execute_job(j).
Entering(r, j) ==
  \/ /\ pc[r] = "spawned"
     /\ j = r
  \/ /\ pc[r] = "draining"
     /\ j \in queue[r]
     /\ \A k \in queue[r] : j <= k

\* The UNIQUE (job_id, attempt_number) row the next claim would insert exists.
NumberTaken(j) == claim(job[j].attempts).attempts \in DOMAIN history[j]

\* What claim_job and start_attempt write, and commit together.
TakeRow(j) ==
  /\ j \in Due
  /\ ~NumberTaken(j)
  /\ apply_transition(j, claim(job[j].attempts))
  /\ start_attempt(j)

ClaimJob(r, j) ==
  /\ Entering(r, j)
  /\ TakeRow(j)
  /\ pc' = [pc EXCEPT ![r] = "running"]
  /\ run' = [run EXCEPT ![r] =
               [job |-> j, number |-> claim(job[j].attempts).attempts,
                beat |-> Interval, missed |-> 0]]
  /\ queue' = [queue EXCEPT ![r] = @ \ {j}]
  /\ UNCHANGED <<output, faults>>

\* execute_job(j) ends without running anything.
GiveUp(r, j) ==
  /\ Entering(r, j)
  /\ pc' = [pc EXCEPT ![r] = Rest(r)]
  /\ queue' = [queue EXCEPT ![r] = @ \ {j}]
  /\ UNCHANGED <<output, run>>

\* Another worker holds the job, or it is already terminal.
ClaimRefused(r, j) ==
  /\ j \notin Due
  /\ GiveUp(r, j)
  /\ UNCHANGED <<job, history, faults>>

\* The attempt row violates its unique constraint: the transaction rolls back
\* and the IntegrityError leaves execute_job.
ClaimCollides(r, j) ==
  /\ j \in Due
  /\ NumberTaken(j)
  /\ GiveUp(r, j)
  /\ UNCHANGED <<job, history, faults>>

\* A database error in the claim transaction leaves execute_job.  When it is
\* the answer to the commit that is lost, the rows may have been written.
ClaimLost(r, j) ==
  /\ GiveUp(r, j)
  /\ Fault
  /\ TakeRow(j) \/ UNCHANGED <<job, history>>

-----------------------------------------------------------------------------
(* execute_job: the heartbeat *)

\* Runner r waits another interval, with so many renewals missed in a row.
NextBeat(r, missed) == [run[r] EXCEPT !.beat = Interval, !.missed = missed]

Heartbeat(r) ==
  /\ pc[r] \in Renewing
  /\ run[r].beat = 0
  /\ renew_lease(run[r].job)
  /\ run' = [run EXCEPT ![r] = NextBeat(r, 0)]
  /\ UNCHANGED <<history, output, pc, queue, faults>>

\* A renewal fails, or a closing transaction takes an interval longer.
Miss(r) ==
  /\ pc[r] \in Live
  /\ run[r].beat = 0
  /\ run[r].missed < MaxMissed
  /\ Fault
  /\ run' = [run EXCEPT ![r] = NextBeat(r, run[r].missed + 1)]
  /\ UNCHANGED <<job, history, output, pc, queue>>

-----------------------------------------------------------------------------
(* execute_job: the graph and what is written after it *)

\* Seeded fault: the transition is committed before the output is.
GraphEndsUnrecorded(r) ==
  /\ pc[r] = "running"
  /\ \E next \in {"committing"} \cup ErrorClass : pc' = [pc EXCEPT ![r] = next]
  /\ UNCHANGED <<job, history, output, run, queue, faults>>

\* The graph returns, or raises an error of one of the two classes.
GraphEnds(r) ==
  /\ pc[r] = "running"
  /\ \E next \in {"recording"} \cup ErrorClass : pc' = [pc EXCEPT ![r] = next]
  /\ UNCHANGED <<job, history, output, run, queue, faults>>

\* _record_output commits on its own, before the transition.
RecordOutput(r) ==
  /\ pc[r] = "recording"
  /\ output' = output \cup {run[r].job}
  /\ pc' = [pc EXCEPT ![r] = "committing"]
  /\ UNCHANGED <<job, history, run, queue, faults>>

\* apply_transition and finish_attempt commit together, and execute_job
\* returns.  Neither looks at the state the row has by now, nor at which
\* attempt it is running for.
Conclude(r, transition) ==
  /\ apply_transition(run[r].job, transition)
  /\ finish_attempt(run[r].job, run[r].number, transition.state)
  /\ Leave(r)
  /\ UNCHANGED <<output, queue, faults>>

Succeed(r) ==
  /\ pc[r] = "committing"
  /\ Conclude(r, succeed(run[r].number))

\* _record_failure; its agent_errors row is part of the same transaction.
RecordFailure(r) ==
  /\ pc[r] \in ErrorClass
  /\ Conclude(r, fail(run[r].number, pc[r]))

\* A closing transaction fails with a database error, which leaves
\* execute_job: the job stays running with nobody renewing its lease.
CloseLost(r) ==
  /\ pc[r] \in Closing
  /\ Fault
  /\ Leave(r)
  /\ UNCHANGED <<job, history, output, queue>>

-----------------------------------------------------------------------------
(* sweep_once *)

\* reclaim_expired_leases, in a transaction of its own.
ReclaimExpired(s) ==
  /\ pc[s] = "asleep"
  /\ job' = [j \in Jobs |->
               IF j \in First(Stale, Batch) THEN Reclaimed(job[j]) ELSE job[j]]
  /\ pc' = [pc EXCEPT ![s] = "reclaimed"]
  /\ UNCHANGED <<history, output, run, queue, faults>>

\* due_job_ids: the locks are released before anything runs.
SelectDue(s) ==
  /\ pc[s] = "reclaimed"
  /\ queue' = [queue EXCEPT ![s] = First(Due, Batch)]
  /\ pc' = [pc EXCEPT ![s] = "draining"]
  /\ UNCHANGED <<job, history, output, run, faults>>

EndPass(s) ==
  /\ pc[s] = "draining"
  /\ queue[s] = {}
  /\ pc' = [pc EXCEPT ![s] = "asleep"]
  /\ UNCHANGED <<job, history, output, run, queue, faults>>

\* A database error in one of the pass's own transactions: the loop logs it
\* and sleeps until its next pass.
PassLost(s) ==
  /\ pc[s] = "reclaimed"
  /\ Fault
  /\ pc' = [pc EXCEPT ![s] = "asleep"]
  /\ UNCHANGED <<job, history, output, run, queue>>

-----------------------------------------------------------------------------
(* Time and death *)

Before(timestamp) == IF timestamp \in Nat \ {0} THEN timestamp - 1 ELSE timestamp

Later(row) ==
  [row EXCEPT !.next_attempt_at = Before(@), !.lease_expires_at = Before(@)]

\* Time passes.  A runner acts on its deadline or misses it before the next
\* tick.
Tick ==
  /\ \A r \in Runners : pc[r] \in Live => run[r].beat > 0
  /\ job' = [j \in Jobs |-> Later(job[j])]
  /\ run' = [r \in Runners |->
               IF pc[r] \in Live THEN [run[r] EXCEPT !.beat = @ - 1] ELSE run[r]]
  /\ UNCHANGED <<history, output, pc, queue, faults>>

\* The process stops, and with it every coroutine and heartbeat.  Only the
\* rows survive; a shutdown cancels the same tasks at the same places.
Crash ==
  /\ Fault
  /\ pc' = [r \in Runners |->
              IF r \in Sweepers THEN "asleep"
              ELSE IF pc[r] = "unsubmitted" THEN "unsubmitted" ELSE "done"]
  /\ run' = [r \in Runners |-> None]
  /\ queue' = [r \in Runners |-> {}]
  /\ UNCHANGED <<job, history, output>>

-----------------------------------------------------------------------------
\* What a runner does once it is in execute_job, or in a pass that began.
Advance(r) ==
  \/ \E j \in Jobs : ClaimJob(r, j) \/ ClaimRefused(r, j) \/ ClaimCollides(r, j)
  \/ GraphEnds(r)
  \/ RecordOutput(r)
  \/ Succeed(r)
  \/ RecordFailure(r)

AdvancePass(s) == SelectDue(s) \/ EndPass(s)

Faulty ==
  \/ \E r \in Runners, j \in Jobs : ClaimLost(r, j)
  \/ \E r \in Runners : Miss(r) \/ CloseLost(r)
  \/ \E s \in Sweepers : PassLost(s)
  \/ Crash

Next ==
  \/ \E j \in Jobs : Submit(j)
  \/ \E r \in Runners : Advance(r) \/ Heartbeat(r)
  \/ \E s \in Sweepers : ReclaimExpired(s) \/ AdvancePass(s)
  \/ Tick
  \/ Faulty

Spec == Init /\ [][Next]_vars

\* A coroutine that can take a step takes it; a graph ends (its timeout sees
\* to that); the sweeper loop keeps making passes; time passes.  Nothing
\* makes a client submit a job or an operator drain the queue, and nothing
\* makes a fault happen.
Fairness ==
  /\ \A r \in Runners : WF_vars(Advance(r)) /\ WF_vars(Heartbeat(r))
  /\ \A s \in Sweepers : WF_vars(AdvancePass(s))
  /\ WF_vars(ReclaimExpired(Loop))
  /\ WF_vars(Tick)

FairSpec == Spec /\ Fairness

-----------------------------------------------------------------------------
(* Properties *)

\* Type invariant.
TypeOK ==
  /\ job     \in [Jobs -> JobTransition \cup {AbsentJob}]
  /\ history \in [Jobs -> Seq(Outcome)]
  /\ output  \subseteq Jobs
  /\ pc      \in [Runners -> Place]
  /\ run     \in [Runners -> Attempt \cup {None}]
  /\ \A r \in Runners : pc[r] \in Live <=> run[r] # None
  /\ queue   \in [Runners -> SUBSET Jobs]
  /\ faults  \in 0 .. MaxFaults

\* A row has a lease exactly while it is running, whoever wrote it last: the
\* sweeper can always tell whether a running row was abandoned, and a row
\* waiting for its next attempt is never held back by an old lease.
LeaseIffRunning ==
  \A j \in Jobs : job[j].state = "running" <=> job[j].lease_expires_at # None

\* A job is completed only after its result row was written: nobody reads
\* "completed" and then finds no output, wherever the process dies.
CompletedWasRecorded ==
  \A j \in Jobs : job[j].state = "completed" => j \in output

\* The counter of a row never runs ahead of its attempt rows, so every
\* attempt that was counted can be looked up.
AttemptsHaveRows ==
  \A j \in Jobs : job[j].attempts <= Len(history[j])

\* The outcome of an attempt is written at most once: no coroutine, however
\* late, rewrites what another wrote about an attempt.
OutcomeWrittenOnce ==
  [][\A j \in Jobs : \A n \in DOMAIN history[j] :
       history[j][n] # Open => history'[j][n] = history[j][n]]_vars

\* An attempt a runner carries has a row to record its outcome in.
AttemptHasRow ==
  \A r \in Runners : pc[r] \in Live =>
    run[r].number \in 1 .. Len(history[run[r].job])

\* A job has a background task, or had one, exactly when it has a row, and
\* attempts only when it has a row.
TaskPerRow ==
  \A j \in Jobs :
    /\ job[j].state = "absent" <=> pc[j] = "unsubmitted"
    /\ job[j].state = "absent" => Len(history[j]) = 0

\* A runner about to complete its job has written the job's output.
CommitFollowsOutput ==
  \A r \in Runners : pc[r] = "committing" => run[r].job \in output

\* What holds of the rows however many renewals are missed: the inductive
\* invariant of the properties above.
RowsInv ==
  /\ TypeOK
  /\ TaskPerRow
  /\ AttemptHasRow
  /\ AttemptsHaveRows
  /\ LeaseIffRunning
  /\ CompletedWasRecorded
  /\ CommitFollowsOutput

\* While renewals keep up (HeartbeatMargin), the row of a job a runner works
\* on stays running, for that runner's attempt, under a lease that has not
\* lapsed: the sweeper leaves a job that is still being renewed alone.
WorkerHoldsLease ==
  \A r \in Runners : pc[r] \in Live =>
    LET row == job[run[r].job]
    IN  /\ row.state = "running"
        /\ row.attempts = run[r].number
        /\ ~is_lease_expired(row.lease_expires_at)

\* Two workers never process the same job at the same time, across the
\* background task, the sweeper, run-due requests, crashes and retries.
OneWorkerPerJob ==
  \A r, q \in Runners :
    pc[r] \in Live /\ pc[q] \in Live /\ run[r].job = run[q].job => r = q

\* A due job can always be claimed: the attempt number its next claim takes
\* is free, so the unique constraint never turns a claim away.
ClaimNeverCollides == \A j \in Due : ~NumberTaken(j)

\* How a job ended is what its last attempt recorded, and no earlier attempt
\* recorded an end: the attempt history explains the state of the job.
LastAttemptDecides ==
  \A j \in Jobs :
    /\ job[j].attempts = Len(history[j])
    /\ \A n \in DOMAIN history[j] :
         history[j][n] \in TERMINAL_STATES
           => n = Len(history[j]) /\ history[j][n] = job[j].state
    /\ job[j].state \in TERMINAL_STATES
         => Len(history[j]) > 0 /\ history[j][Len(history[j])] = job[j].state

\* A job takes more than the configured number of attempts only because of
\* faults, one attempt for each: without them the cap is exact.
AttemptsBudget ==
  \A j \in Jobs : job[j].attempts <= MaxAttempts + faults

\* The lease of a live runner's job outlasts the ticks to its next renewal and
\* every renewal it may still miss after that.
LeaseCoversMisses ==
  \A r \in Runners : pc[r] \in Live =>
    LET row == job[run[r].job]
    IN  /\ row.state = "running"
        /\ row.attempts = run[r].number
        /\ run[r].missed <= MaxMissed
        /\ row.lease_expires_at \in Nat
        /\ row.lease_expires_at
             > run[r].beat + (MaxMissed - run[r].missed) * Interval

\* A row has a next attempt scheduled exactly while it waits for one.
WaitIffRetry ==
  \A j \in Jobs : job[j].state = "retry_wait" <=> job[j].next_attempt_at # None

\* A job that can be attempted again, or that nobody is working on, has used
\* less than its budget.
BudgetLeft ==
  \A j \in Jobs :
    \/ job[j].state \in CLAIMABLE_STATES \cup {"absent"}
    \/ job[j].state = "running" /\ LiveOn(j) = {}
    => job[j].attempts < MaxAttempts + faults

\* The inductive invariant of exclusive execution, under HeartbeatMargin.
ExclusiveInv ==
  /\ RowsInv
  /\ LeaseCoversMisses
  /\ OneWorkerPerJob
  /\ LastAttemptDecides
  /\ WaitIffRetry
  /\ AttemptsBudget
  /\ BudgetLeft

\* A row that reached a terminal state is never written again.
TerminalIsFinal ==
  [][\A j \in Jobs : job[j].state \in TERMINAL_STATES => job'[j] = job[j]]_vars

\* Every accepted job ends in a terminal state, whatever crashes, lost
\* transactions and missed renewals happen on the way, as long as they stop.
EventuallyTerminal ==
  \A j \in Jobs : job[j].state # "absent" ~> job[j].state \in TERMINAL_STATES

-----------------------------------------------------------------------------
(* Refinement *)

HolderOf(j) == IF LiveOn(j) = {} THEN None ELSE CHOOSE r \in Runners : r \in LiveOn(j)

VerdictOn(j) == IF job[j].state \in TERMINAL_STATES THEN job[j].state ELSE "none"

Queue == INSTANCE JobQueue WITH
  holder  <- [j \in Jobs |-> HolderOf(j)],
  verdict <- [j \in Jobs |-> VerdictOn(j)],
  begun   <- [j \in Jobs |-> Len(history[j])]

\* The runtime keeps the promise of JobQueue: one worker at a time, and one
\* verdict, given by the worker that holds the job.
ImplementsJobQueue == Queue!Spec
=============================================================================
