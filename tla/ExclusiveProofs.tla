-------------------------- MODULE ExclusiveProofs --------------------------
(***************************************************************************)
(* Exclusive execution, proved: while a lease outlasts the renewals a run  *)
(* may miss (HeartbeatMargin), one worker at a time runs a job, its        *)
(* outcome is final, and its attempts are bounded.                         *)
(***************************************************************************)
EXTENDS AgentJobsProofs

\* What ExclusiveInv says of one row.
GoodRow(j) ==
  /\ job[j].attempts = Len(history[j])
  /\ \A n \in DOMAIN history[j] :
       history[j][n] \in TERMINAL_STATES
         => n = Len(history[j]) /\ history[j][n] = job[j].state
  /\ job[j].state \in TERMINAL_STATES
       => Len(history[j]) > 0 /\ history[j][Len(history[j])] = job[j].state
  /\ job[j].state = "retry_wait" <=> job[j].next_attempt_at # None
  /\ job[j].attempts <= MaxAttempts + faults
  /\ \/ job[j].state \in CLAIMABLE_STATES \cup {"absent"}
     \/ job[j].state = "running" /\ LiveOn(j) = {}
     => job[j].attempts < MaxAttempts + faults

\* What it says of one live runner.
GoodRunner(r) ==
  LET row == job[run[r].job]
  IN  /\ row.state = "running"
      /\ row.attempts = run[r].number
      /\ run[r].missed <= MaxMissed
      /\ row.lease_expires_at \in Nat
      /\ row.lease_expires_at > run[r].beat + (MaxMissed - run[r].missed) * Interval

Good ==
  /\ \A j \in Jobs : GoodRow(j)
  /\ \A r \in Runners : pc[r] \in Live => GoodRunner(r)
  /\ OneWorkerPerJob

\* The inductive invariant, taken apart.
LEMMA ExclusiveIsGood == ExclusiveInv <=> RowsInv /\ Good
  BY DEF ExclusiveInv, Good, GoodRow, GoodRunner, LeaseCoversMisses, LastAttemptDecides,
         WaitIffRetry, AttemptsBudget, BudgetLeft

\* The arithmetic of renewals.
LEMMA ProductType == ASSUME NEW a \in Nat, NEW b \in Nat PROVE a * b \in Nat
  OBVIOUS

LEMMA OneLess ==
  ASSUME NEW a \in Int, NEW b \in Int, NEW i \in Int
  PROVE  (a - b) * i = i + (a - (b + 1)) * i
  OBVIOUS

LEMMA Renewals ==
  ASSUME NEW m \in Nat, m <= MaxMissed
  PROVE  /\ (MaxMissed - m) * Interval \in Nat
         /\ (MaxMissed - m) * Interval = Interval + (MaxMissed - (m + 1)) * Interval
  <1>1. Interval \in Nat /\ MaxMissed \in Nat
    BY IntervalType, JobsAssumption
  <1>2. MaxMissed - m \in Nat
    BY <1>1
  <1> QED
    BY <1>1, <1>2, ProductType, OneLess

LEMMA FreshLease ==
  ASSUME HeartbeatMargin
  PROVE  LeaseTicks > Interval + (MaxMissed - 0) * Interval
  <1>1. Interval \in Nat /\ MaxMissed \in Nat /\ LeaseTicks \in Nat
    BY IntervalType, JobsAssumption, RetriesAssumption
  <1> QED
    BY <1>1 DEF HeartbeatMargin

\* The row of a job somebody works on.
LEMMA WorkedRow ==
  ASSUME RowsInv, Good, NEW r \in Runners, pc[r] \in Live
  PROVE  LET j == run[r].job
         IN  /\ j \in Jobs
             /\ job[j] \in JobTransition
             /\ job[j].state = "running"
             /\ run[r].number = job[j].attempts
             /\ run[r].number = Len(history[j])
             /\ ~is_lease_expired(job[j].lease_expires_at)
             /\ \A q \in Runners : pc[q] \in Live /\ run[q].job = j => q = r
  <1> DEFINE j == run[r].job
  <1>1. /\ run[r] \in Attempt /\ j \in Jobs
        /\ run[r].beat \in Nat /\ run[r].missed \in Nat
    BY LiveRun
  <1>2. GoodRunner(r) /\ GoodRow(j)
    BY <1>1 DEF Good
  <1>3. (MaxMissed - run[r].missed) * Interval \in Nat
    BY <1>1, <1>2, Renewals DEF GoodRunner
  <1>4. job[j].lease_expires_at \in Nat \ {0}
    BY <1>1, <1>2, <1>3 DEF GoodRunner
  <1>5. ~is_lease_expired(job[j].lease_expires_at)
    BY <1>4, RetriesAssumption DEF is_lease_expired
  <1>6. job[j] \in JobTransition
    BY <1>1, <1>2, PresentRow DEF GoodRunner, RowsInv
  <1> QED
    BY <1>1, <1>2, <1>5, <1>6 DEF GoodRunner, GoodRow, Good, OneWorkerPerJob

\* A row that a step leaves alone stays good, unless its last worker leaves
\* it without a fault.
LEMMA KeptRow ==
  ASSUME RowsInv, Good, NEW j \in Jobs,
         job'[j] = job[j], history'[j] = history[j],
         faults' \in Nat,
         \/ faults' = faults /\ (LiveOn(j)' = {} => LiveOn(j) = {})
         \/ faults' = faults + 1
  PROVE  GoodRow(j)'
  <1>1. GoodRow(j)
    BY DEF Good
  <1>2. faults \in Nat /\ MaxAttempts \in Nat /\ job[j].attempts \in Nat
    BY RetriesAssumption DEF RowsInv, TypeOK, JobTransition, AbsentJob
  <1>3. job'[j].attempts <= MaxAttempts + faults'
    BY <1>1, <1>2 DEF GoodRow
  <1>4. \/ job'[j].state \in CLAIMABLE_STATES \cup {"absent"}
        \/ job'[j].state = "running" /\ LiveOn(j)' = {}
        => job'[j].attempts < MaxAttempts + faults'
    <2>1. CASE faults' = faults + 1
      BY <1>1, <1>2, <2>1 DEF GoodRow
    <2>2. CASE faults' = faults /\ (LiveOn(j)' = {} => LiveOn(j) = {})
      BY <1>1, <2>2 DEF GoodRow
    <2> QED
      BY <2>1, <2>2
  <1> QED
    BY <1>1, <1>3, <1>4 DEF GoodRow

\* The runners a step leaves alone stay good.
LEMMA KeptRunner ==
  ASSUME Good, NEW r \in Runners, pc[r] \in Live,
         run'[r] = run[r], job'[run[r].job] = job[run[r].job]
  PROVE  GoodRunner(r)'
  BY DEF Good, GoodRunner

\* A step that writes no row and starts no runner.
LEMMA GoodNeutral ==
  ASSUME RowsInv, Good, UNCHANGED <<job, history>>, faults' \in Nat,
         \A r \in Runners : pc'[r] \in Live => pc[r] \in Live /\ run'[r] = run[r],
         \/ faults' = faults /\ \A r \in Runners : pc[r] \in Live => pc'[r] \in Live
         \/ faults' = faults + 1
  PROVE  Good'
  <1>1. \A j \in Jobs : GoodRow(j)'
    <2> SUFFICES ASSUME NEW j \in Jobs PROVE GoodRow(j)'
      OBVIOUS
    <2>1. CASE faults' = faults + 1
      BY <2>1, KeptRow
    <2>2. CASE faults' = faults /\ \A r \in Runners : pc[r] \in Live => pc'[r] \in Live
      <3>1. LiveOn(j)' = {} => LiveOn(j) = {}
        BY <2>2 DEF LiveOn
      <3> QED
        BY <2>2, <3>1, KeptRow
    <2> QED
      BY <2>1, <2>2
  <1>2. \A r \in Runners : pc'[r] \in Live => GoodRunner(r)'
    BY KeptRunner
  <1>3. OneWorkerPerJob'
    BY DEF Good, OneWorkerPerJob
  <1> QED
    BY <1>1, <1>2, <1>3 DEF Good

-----------------------------------------------------------------------------
(* One lemma per action *)



LEMMA GoodInit == Init => Good
  <1> SUFFICES ASSUME Init PROVE Good
    OBVIOUS
  <1>1. \A r \in Runners : pc[r] \notin Live
    BY DEF Init, Live, Renewing, Closing, ErrorClass
  <1>2. \A j \in Jobs : job[j] = AbsentJob /\ history[j] = << >> /\ faults = 0
    BY DEF Init
  <1>3. \A j \in Jobs : GoodRow(j)
    BY <1>2, RetriesAssumption DEF GoodRow, AbsentJob, TERMINAL_STATES, CLAIMABLE_STATES
  <1> QED
    BY <1>1, <1>3 DEF Good, OneWorkerPerJob

LEMMA GoodSubmit ==
  ASSUME RowsInv, Good, NEW j \in Jobs, Submit(j)
  PROVE  Good'
  <1>1. job[j] = AbsentJob /\ pc[j] = "unsubmitted" /\ Len(history[j]) = 0
    BY DEF RowsInv, TypeOK, TaskPerRow, Submit, JobTransition, JobState
  <1>2. /\ job'[j] = [AbsentJob EXCEPT !.state = "queued"]
        /\ \A k \in Jobs : k # j => job'[k] = job[k]
        /\ UNCHANGED <<history, run, faults>>
    BY <1>1 DEF RowsInv, TypeOK, Submit
  <1>3. "unsubmitted" \notin Live /\ "spawned" \notin Live
    BY DEF Live, Renewing, Closing, ErrorClass
  <1>4. \A r \in Runners : pc'[r] \in Live <=> pc[r] \in Live
    BY <1>1, <1>3 DEF RowsInv, TypeOK, Submit
  <1>5. \A k \in Jobs : LiveOn(k)' = LiveOn(k)
    BY <1>2, <1>4 DEF LiveOn
  <1>6. faults \in Nat /\ history[j] = << >>
    BY <1>1, JobsAssumption DEF RowsInv, TypeOK
  <1>7. GoodRow(j)'
    BY <1>2, <1>6, RetriesAssumption
    DEF GoodRow, AbsentJob, TERMINAL_STATES, CLAIMABLE_STATES
  <1>8. \A k \in Jobs : k # j => GoodRow(k)'
    BY <1>2, <1>5, <1>6, KeptRow
  <1>9. \A r \in Runners : pc'[r] \in Live => GoodRunner(r)'
    <2> SUFFICES ASSUME NEW r \in Runners, pc'[r] \in Live PROVE GoodRunner(r)'
      OBVIOUS
    <2>1. run[r].job \in Jobs /\ job[run[r].job].state = "running"
      BY <1>4, WorkedRow
    <2>2. job'[run[r].job] = job[run[r].job]
      BY <1>1, <1>2, <2>1 DEF AbsentJob
    <2> QED
      BY <1>2, <1>4, <2>2, KeptRunner
  <1>10. OneWorkerPerJob'
    BY <1>2, <1>4 DEF Good, OneWorkerPerJob
  <1> QED
    BY <1>7, <1>8, <1>9, <1>10 DEF Good

\* What a claim makes of its row: the row is good whoever is live on it, as
\* long as somebody is or the claim counts as a fault.
LEMMA GoodTake ==
  ASSUME RowsInv, Good, NEW j \in Jobs, TakeRow(j), faults' \in Nat,
         \/ faults' = faults /\ LiveOn(j)' # {}
         \/ faults' = faults + 1
  PROVE  /\ GoodRow(j)'
         /\ LiveOn(j) = {}
         /\ job'[j] = claim(job[j].attempts)
         /\ \A k \in Jobs : k # j => job'[k] = job[k] /\ history'[k] = history[k]
  <1>1. TypeOK
    BY DEF RowsInv
  <1>2. /\ job[j] \in JobTransition
        /\ job[j].state \in CLAIMABLE_STATES
        /\ job' = [job EXCEPT ![j] = claim(job[j].attempts)]
        /\ history' = [history EXCEPT ![j] = Append(history[j], Open)]
    BY <1>1, TakeRowType
  <1>3. /\ job'[j] = claim(job[j].attempts)
        /\ history'[j] = Append(history[j], Open)
        /\ \A k \in Jobs : k # j => job'[k] = job[k] /\ history'[k] = history[k]
    BY <1>1, <1>2 DEF TypeOK
  <1>4. LiveOn(j) = {}
    BY <1>2, WorkedRow DEF LiveOn, CLAIMABLE_STATES
  <1>5. GoodRow(j) /\ history[j] \in Seq(Outcome) /\ faults \in Nat
    BY <1>1 DEF Good, TypeOK
  <1>6. job[j].attempts \in Nat /\ job[j].attempts < MaxAttempts + faults
    BY <1>2, <1>5 DEF GoodRow, JobTransition
  <1>7. /\ job'[j].state = "running"
        /\ job'[j].attempts = job[j].attempts + 1
        /\ job'[j].next_attempt_at = None
    BY <1>3 DEF claim
  <1>8. Len(history'[j]) = Len(history[j]) + 1 /\ Len(history[j]) \in Nat
    BY <1>3, <1>5
  <1>9. \A n \in DOMAIN history'[j] : history'[j][n] \notin TERMINAL_STATES
    <2> SUFFICES ASSUME NEW n \in DOMAIN history'[j]
                 PROVE  history'[j][n] \notin TERMINAL_STATES
      OBVIOUS
    <2>1. n \in 1 .. Len(history[j]) \/ n = Len(history[j]) + 1
      BY <1>3, <1>5
    <2>2. CASE n \in 1 .. Len(history[j])
      <3>1. history'[j][n] = history[j][n] /\ n \in DOMAIN history[j]
        BY <1>3, <1>5, <2>2
      <3> QED
        BY <1>2, <1>5, <3>1 DEF GoodRow, CLAIMABLE_STATES, TERMINAL_STATES
    <2>3. CASE n = Len(history[j]) + 1
      BY <1>3, <1>5, <2>3 DEF Open, TERMINAL_STATES
    <2> QED
      BY <2>1, <2>2, <2>3
  <1>10. job'[j].attempts <= MaxAttempts + faults'
    BY <1>5, <1>6, <1>7, RetriesAssumption
  <1>11. LiveOn(j)' = {} => job'[j].attempts < MaxAttempts + faults'
    BY <1>5, <1>6, <1>7, RetriesAssumption
  <1>12. job'[j].attempts = Len(history'[j])
    BY <1>5, <1>7, <1>8 DEF GoodRow
  <1>13. GoodRow(j)'
    BY <1>7, <1>9, <1>10, <1>11, <1>12 DEF GoodRow, TERMINAL_STATES, CLAIMABLE_STATES
  <1> QED
    BY <1>3, <1>4, <1>13

LEMMA GoodClaimJob ==
  ASSUME RowsInv, Good, HeartbeatMargin, NEW r \in Runners, NEW j \in Jobs, ClaimJob(r, j)
  PROVE  Good'
  <1> DEFINE attempt == [job |-> j, number |-> claim(job[j].attempts).attempts,
                         beat |-> Interval, missed |-> 0]
  <1>1. /\ pc[r] \notin Live
        /\ TakeRow(j)
        /\ pc'[r] = "running" /\ run'[r] = attempt
        /\ \A q \in Runners : q # r => pc'[q] = pc[q] /\ run'[q] = run[q]
        /\ faults' = faults /\ faults' \in Nat
    BY EnteringPlaces, JobsAssumption DEF ClaimJob, RowsInv, TypeOK
  <1>2. "running" \in Live
    BY DEF Live, Renewing
  <1>3. r \in LiveOn(j)'
    BY <1>1, <1>2 DEF LiveOn
  <1>4. /\ GoodRow(j)'
        /\ LiveOn(j) = {}
        /\ job'[j] = claim(job[j].attempts)
        /\ \A k \in Jobs : k # j => job'[k] = job[k] /\ history'[k] = history[k]
    BY <1>1, <1>3, GoodTake
  <1>5. \A k \in Jobs : k # j => GoodRow(k)'
    <2> SUFFICES ASSUME NEW k \in Jobs, k # j PROVE GoodRow(k)'
      OBVIOUS
    <2>1. LiveOn(k)' = {} => LiveOn(k) = {}
      BY <1>1 DEF LiveOn
    <2> QED
      BY <1>1, <1>4, <2>1, KeptRow
  <1>6. \A q \in Runners : q # r /\ pc'[q] \in Live => pc[q] \in Live /\ run[q].job \in Jobs \ {j}
    <2> SUFFICES ASSUME NEW q \in Runners, q # r, pc'[q] \in Live
                 PROVE  pc[q] \in Live /\ run[q].job \in Jobs \ {j}
      OBVIOUS
    <2>1. pc[q] \in Live /\ run[q].job \in Jobs
      BY <1>1, LiveRun
    <2> QED
      BY <1>4, <2>1 DEF LiveOn
  <1>7. GoodRunner(r)'
    <2>1. /\ job'[j].state = "running"
          /\ job'[j].attempts = run'[r].number
          /\ job'[j].lease_expires_at = LeaseTicks
      BY <1>1, <1>4 DEF claim
    <2>2. run'[r].job = j /\ run'[r].beat = Interval /\ run'[r].missed = 0
      BY <1>1
    <2>3. LeaseTicks > Interval + (MaxMissed - 0) * Interval
      BY FreshLease
    <2> QED
      BY <2>1, <2>2, <2>3, RetriesAssumption, JobsAssumption DEF GoodRunner
  <1>8. \A q \in Runners : pc'[q] \in Live => GoodRunner(q)'
    <2> SUFFICES ASSUME NEW q \in Runners, q # r, pc'[q] \in Live PROVE GoodRunner(q)'
      BY <1>7
    <2>1. pc[q] \in Live /\ run'[q] = run[q] /\ job'[run[q].job] = job[run[q].job]
      BY <1>1, <1>4, <1>6
    <2> QED
      BY <2>1, KeptRunner
  <1>9. OneWorkerPerJob'
    BY <1>1, <1>6 DEF Good, OneWorkerPerJob
  <1> QED
    BY <1>4, <1>5, <1>8, <1>9 DEF Good

LEMMA GoodClaimLost ==
  ASSUME RowsInv, Good, NEW r \in Runners, NEW j \in Jobs, ClaimLost(r, j), TakeRow(j)
  PROVE  Good'
  <1>1. TypeOK /\ GiveUp(r, j) /\ faults' = faults + 1 /\ faults' \in Nat
    BY JobsAssumption DEF RowsInv, TypeOK, ClaimLost, Fault
  <1>2. \A q \in Runners : pc'[q] \in Live => pc[q] \in Live /\ run'[q] = run[q]
    BY <1>1, GiveUpType
  <1>3. /\ GoodRow(j)'
        /\ LiveOn(j) = {}
        /\ \A k \in Jobs : k # j => job'[k] = job[k] /\ history'[k] = history[k]
    BY <1>1, GoodTake
  <1>4. \A k \in Jobs : k # j => GoodRow(k)'
    BY <1>1, <1>3, KeptRow
  <1>5. \A q \in Runners : pc'[q] \in Live => GoodRunner(q)'
    <2> SUFFICES ASSUME NEW q \in Runners, pc'[q] \in Live PROVE GoodRunner(q)'
      OBVIOUS
    <2>1. pc[q] \in Live /\ run'[q] = run[q] /\ run[q].job \in Jobs
      BY <1>2, LiveRun
    <2>2. run[q].job # j
      BY <1>3, <2>1 DEF LiveOn
    <2> QED
      BY <1>3, <2>1, <2>2, KeptRunner
  <1>6. OneWorkerPerJob'
    BY <1>2 DEF Good, OneWorkerPerJob
  <1> QED
    BY <1>3, <1>4, <1>5, <1>6 DEF Good

\* A claim that did not take the row, and every other step that only moves
\* runners.
LEMMA GoodGiveUp ==
  ASSUME RowsInv, Good, NEW r \in Runners, NEW j \in Jobs, GiveUp(r, j),
         UNCHANGED <<job, history>>, faults' \in Nat,
         faults' = faults \/ faults' = faults + 1
  PROVE  Good'
  <1>1. TypeOK /\ pc[r] \notin Live
    BY EnteringPlaces DEF RowsInv, GiveUp
  <1>2. \A q \in Runners : pc'[q] \in Live => pc[q] \in Live /\ run'[q] = run[q]
    BY <1>1, GiveUpType
  <1>3. \A q \in Runners : pc[q] \in Live => pc'[q] \in Live
    BY <1>1 DEF GiveUp, TypeOK
  <1> QED
    BY <1>2, <1>3, GoodNeutral

LEMMA GoodHeartbeat ==
  ASSUME RowsInv, Good, HeartbeatMargin, NEW r \in Runners, Heartbeat(r)
  PROVE  Good'
  <1> DEFINE j == run[r].job
  <1>1. pc[r] \in Live /\ run[r].beat = 0
    BY DEF Heartbeat, Live
  <1>2. /\ j \in Jobs
        /\ job[j] \in JobTransition
        /\ job[j].state = "running"
        /\ \A q \in Runners : pc[q] \in Live /\ run[q].job = j => q = r
    BY <1>1, WorkedRow
  <1>3. /\ job' = [job EXCEPT ![j].lease_expires_at = LeaseTicks]
        /\ run' = [run EXCEPT ![r] = NextBeat(r, 0)]
        /\ UNCHANGED <<history, pc, faults>>
    BY <1>2 DEF Heartbeat, renew_lease
  <1>4. /\ job'[j].state = job[j].state
        /\ job'[j].attempts = job[j].attempts
        /\ job'[j].next_attempt_at = job[j].next_attempt_at
        /\ job'[j].lease_expires_at = LeaseTicks
        /\ \A k \in Jobs : k # j => job'[k] = job[k]
    BY <1>2, <1>3 DEF RowsInv, TypeOK, JobTransition
  <1>5. /\ run[r] \in Attempt
        /\ NextBeat(r, 0).job = j
        /\ NextBeat(r, 0).number = run[r].number
        /\ NextBeat(r, 0).beat = Interval
        /\ NextBeat(r, 0).missed = 0
    BY <1>1, LiveRun, NextBeatType
  <1>6. /\ run'[r] = NextBeat(r, 0)
        /\ \A q \in Runners : q # r => run'[q] = run[q]
    BY <1>3 DEF RowsInv, TypeOK
  <1>7. \A q \in Runners : run'[q].job = run[q].job
    BY <1>5, <1>6
  <1>8. \A k \in Jobs : LiveOn(k)' = LiveOn(k)
    BY <1>3, <1>7 DEF LiveOn
  <1>9. \A k \in Jobs : GoodRow(k)'
    <2> SUFFICES ASSUME NEW k \in Jobs PROVE GoodRow(k)'
      OBVIOUS
    <2>1. CASE k # j
      <3>1. faults' \in Nat
        BY <1>3, JobsAssumption DEF RowsInv, TypeOK
      <3> QED
        BY <1>3, <1>4, <1>8, <2>1, <3>1, KeptRow
    <2>2. CASE k = j
      BY <1>2, <1>3, <1>4, <1>8, <2>2 DEF Good, GoodRow
    <2> QED
      BY <2>1, <2>2
  <1>10. GoodRunner(r)'
    <2>1. GoodRunner(r)
      BY <1>1 DEF Good
    <2>2. LeaseTicks > Interval + (MaxMissed - 0) * Interval
      BY FreshLease
    <2> QED
      BY <1>2, <1>4, <1>5, <1>6, <2>1, <2>2, RetriesAssumption, JobsAssumption DEF GoodRunner
  <1>11. \A q \in Runners : pc'[q] \in Live => GoodRunner(q)'
    <2> SUFFICES ASSUME NEW q \in Runners, q # r, pc[q] \in Live PROVE GoodRunner(q)'
      BY <1>3, <1>10
    <2>1. run[q].job \in Jobs /\ run[q].job # j
      BY <1>2, LiveRun
    <2> QED
      BY <1>4, <1>6, <2>1, KeptRunner
  <1>12. OneWorkerPerJob'
    BY <1>3, <1>7 DEF Good, OneWorkerPerJob
  <1> QED
    BY <1>9, <1>11, <1>12 DEF Good

LEMMA GoodMiss ==
  ASSUME RowsInv, Good, NEW r \in Runners, Miss(r)
  PROVE  Good'
  <1> DEFINE m == run[r].missed + 1
  <1>1. /\ pc[r] \in Live /\ run[r].beat = 0 /\ run[r].missed < MaxMissed
        /\ faults' = faults + 1 /\ faults' \in Nat
        /\ run' = [run EXCEPT ![r] = NextBeat(r, m)]
        /\ UNCHANGED <<job, history, pc>>
    BY JobsAssumption DEF Miss, Fault, RowsInv, TypeOK
  <1>2. run[r] \in Attempt /\ run[r].missed \in Nat /\ m \in Nat
    BY <1>1, LiveRun
  <1>3. /\ NextBeat(r, m).job = run[r].job
        /\ NextBeat(r, m).number = run[r].number
        /\ NextBeat(r, m).beat = Interval
        /\ NextBeat(r, m).missed = m
    BY <1>2, NextBeatType
  <1>4. /\ run'[r] = NextBeat(r, m)
        /\ \A q \in Runners : q # r => run'[q] = run[q]
    BY <1>1 DEF RowsInv, TypeOK
  <1>5. \A j \in Jobs : GoodRow(j)'
    BY <1>1, KeptRow
  <1>6. GoodRunner(r)'
    <2>1. GoodRunner(r)
      BY <1>1 DEF Good
    <2>2. (MaxMissed - run[r].missed) * Interval = Interval + (MaxMissed - m) * Interval
      BY <1>1, <1>2, Renewals, JobsAssumption
    <2>3. (MaxMissed - m) * Interval \in Nat
      BY <1>1, <1>2, Renewals, JobsAssumption
    <2>4. job[run[r].job].lease_expires_at > Interval + (MaxMissed - m) * Interval
      BY <1>1, <2>1, <2>2, <2>3, IntervalType DEF GoodRunner
    <2>5. m <= MaxMissed
      BY <1>1, <1>2, JobsAssumption
    <2> QED
      BY <1>1, <1>3, <1>4, <2>1, <2>4, <2>5 DEF GoodRunner
  <1>7. \A q \in Runners : pc'[q] \in Live => GoodRunner(q)'
    <2> SUFFICES ASSUME NEW q \in Runners, q # r, pc[q] \in Live PROVE GoodRunner(q)'
      BY <1>1, <1>6
    <2> QED
      BY <1>1, <1>4, KeptRunner
  <1>8. OneWorkerPerJob'
    BY <1>1, <1>3, <1>4 DEF Good, OneWorkerPerJob
  <1> QED
    BY <1>5, <1>7, <1>8 DEF Good

\* The graph ends or its result is written: the runner moves between live
\* places.
LEMMA GoodProgress ==
  ASSUME RowsInv, Good, NEW r \in Runners, GraphEnds(r) \/ RecordOutput(r)
  PROVE  Good'
  <1>1. /\ UNCHANGED <<job, history, run, faults>> /\ faults' \in Nat
        /\ pc[r] \in Live /\ pc'[r] \in Live
        /\ \A q \in Runners : q # r => pc'[q] = pc[q]
    BY JobsAssumption
    DEF GraphEnds, RecordOutput, RowsInv, TypeOK, Live, Renewing, Closing, ErrorClass
  <1>2. \A q \in Runners : pc'[q] \in Live <=> pc[q] \in Live
    BY <1>1
  <1> QED
    BY <1>1, <1>2, GoodNeutral

\* The history of a running job has no end in it; recording one makes it the
\* last, and leaves the row a good one.
LEMMA GoodConcluded ==
  ASSUME RowsInv, Good, NEW r \in Runners, Succeed(r) \/ RecordFailure(r)
  PROVE  Good'
  <1>0. PICK j \in Jobs, n \in Nat \ {0} : j = run[r].job /\ n = run[r].number
    BY Concluding, LiveRun
  <1>1. PICK t \in JobTransition :
           /\ pc[r] \in Live
           /\ Conclude(r, t)
           /\ t = succeed(n) \/ \E c \in ErrorClass : t = fail(n, c)
    BY <1>0, Concluding
  <1>2. /\ j \in Jobs
        /\ job[j] \in JobTransition
        /\ job[j].state = "running"
        /\ n = job[j].attempts
        /\ n = Len(history[j])
        /\ \A q \in Runners : pc[q] \in Live /\ run[q].job = j => q = r
    BY <1>0, <1>1, WorkedRow
  <1>3. n \in Nat \ {0} /\ n \in 1 .. Len(history[j]) /\ history[j] \in Seq(Outcome)
    BY <1>0, <1>1, LiveRun
  <1>4. /\ t.attempts = n
        /\ t.state \in {"completed", "failed_review", "retry_wait"}
        /\ t.state = "retry_wait" <=> t.next_attempt_at # None
        /\ t.state = "retry_wait" => n < MaxAttempts
    BY <1>1, <1>3, Transitions
  <1>5. /\ job'[j] = t
        /\ history'[j] = [history[j] EXCEPT ![n] = t.state]
        /\ \A k \in Jobs : k # j => job'[k] = job[k] /\ history'[k] = history[k]
        /\ faults' = faults /\ faults' \in Nat
    BY <1>0, <1>1, <1>2, JobsAssumption
    DEF Conclude, apply_transition, finish_attempt, RowsInv, TypeOK
  <1>6. /\ pc'[r] \notin Live
        /\ \A q \in Runners : q # r => pc'[q] = pc[q] /\ run'[q] = run[q]
    BY <1>1
    DEF Conclude, Leave, Rest, RowsInv, TypeOK, Live, Renewing, Closing, ErrorClass
  <1>7. /\ Len(history'[j]) = n
        /\ DOMAIN history'[j] = 1 .. n
        /\ history'[j][n] = t.state
        /\ \A i \in 1 .. n : i # n => history'[j][i] = history[j][i]
    BY <1>2, <1>3, <1>5
  <1>8. GoodRow(j)'
    <2>1. GoodRow(j) /\ faults \in Nat
      BY <1>2, <1>5 DEF Good
    <2>2. \A i \in 1 .. n : i # n => history[j][i] \notin TERMINAL_STATES
      BY <1>2, <1>3, <2>1 DEF GoodRow
    <2>3. job'[j].attempts = Len(history'[j])
      BY <1>4, <1>5, <1>7
    <2>4. \A i \in DOMAIN history'[j] :
            history'[j][i] \in TERMINAL_STATES
              => i = Len(history'[j]) /\ history'[j][i] = job'[j].state
      BY <1>5, <1>7, <2>2
    <2>5. job'[j].state \in TERMINAL_STATES
            => Len(history'[j]) > 0 /\ history'[j][Len(history'[j])] = job'[j].state
      BY <1>3, <1>5, <1>7
    <2>6. job'[j].attempts <= MaxAttempts + faults'
      BY <1>2, <1>4, <1>5, <2>1 DEF GoodRow
    <2>7. job'[j].state = "retry_wait" => job'[j].attempts < MaxAttempts + faults'
      BY <1>3, <1>4, <1>5, <2>1, RetriesAssumption
    <2>8. \/ job'[j].state \in CLAIMABLE_STATES \cup {"absent"}
          \/ job'[j].state = "running" /\ LiveOn(j)' = {}
          => job'[j].attempts < MaxAttempts + faults'
      <3>1. job'[j].state \in CLAIMABLE_STATES \cup {"absent", "running"}
              => job'[j].state = "retry_wait"
        BY <1>4, <1>5 DEF CLAIMABLE_STATES
      <3> QED
        BY <2>7, <3>1
    <2>9. job'[j].state = "retry_wait" <=> job'[j].next_attempt_at # None
      BY <1>4, <1>5
    <2> QED
      BY <2>3, <2>4, <2>5, <2>6, <2>8, <2>9 DEF GoodRow
  <1>9. \A k \in Jobs : k # j => GoodRow(k)'
    <2> SUFFICES ASSUME NEW k \in Jobs, k # j PROVE GoodRow(k)'
      OBVIOUS
    <2>1. LiveOn(k)' = {} => LiveOn(k) = {}
      BY <1>0, <1>6 DEF LiveOn
    <2> QED
      BY <1>5, <2>1, KeptRow
  <1>10. \A q \in Runners : pc'[q] \in Live => GoodRunner(q)'
    <2> SUFFICES ASSUME NEW q \in Runners, pc'[q] \in Live PROVE GoodRunner(q)'
      OBVIOUS
    <2>1. q # r /\ pc[q] \in Live /\ run'[q] = run[q]
      BY <1>6
    <2>2. run[q].job \in Jobs
      BY <2>1, LiveRun
    <2>3. run[q].job # j
      BY <1>2, <2>1
    <2> QED
      BY <1>5, <2>1, <2>2, <2>3, KeptRunner
  <1>11. OneWorkerPerJob'
    <2>1. \A q \in Runners : pc'[q] \in Live => pc[q] \in Live /\ run'[q] = run[q]
      BY <1>6
    <2> QED
      BY <2>1 DEF Good, OneWorkerPerJob
  <1> QED
    BY <1>8, <1>9, <1>10, <1>11 DEF Good

LEMMA GoodCloseLost ==
  ASSUME RowsInv, Good, NEW r \in Runners, CloseLost(r)
  PROVE  Good'
  <1>1. /\ UNCHANGED <<job, history>>
        /\ faults' = faults + 1 /\ faults' \in Nat
        /\ pc'[r] \notin Live
        /\ \A q \in Runners : q # r => pc'[q] = pc[q] /\ run'[q] = run[q]
    BY JobsAssumption
    DEF CloseLost, Fault, Leave, Rest, RowsInv, TypeOK, Live, Renewing, Closing, ErrorClass
  <1> QED
    BY <1>1, GoodNeutral

\* The sweeper reclaims only rows nobody is live on.
LEMMA GoodReclaim ==
  ASSUME RowsInv, Good, NEW s \in Sweepers, ReclaimExpired(s)
  PROVE  Good'
  <1>1. TypeOK /\ UNCHANGED <<history, run, faults>> /\ faults' \in Nat
    BY JobsAssumption DEF RowsInv, TypeOK, ReclaimExpired
  <1>2. \A j \in Jobs :
          \/ job'[j] = job[j]
          \/ /\ job'[j] = Reclaimed(job[j])
             /\ j \in First(Stale, Batch)
    BY <1>1, ReclaimRows
  <1>3. \A q \in Runners : pc'[q] \in Live <=> pc[q] \in Live
    BY <1>1, PassPlaces DEF ReclaimExpired
  <1>4. \A j \in Jobs : LiveOn(j)' = LiveOn(j)
    BY <1>1, <1>3 DEF LiveOn
  <1>5. \A j \in First(Stale, Batch) :
          j \in Jobs =>
            /\ LiveOn(j) = {}
            /\ job[j].state = "running"
            /\ Reclaimed(job[j]).state = "retry_wait"
            /\ Reclaimed(job[j]).attempts = job[j].attempts
            /\ Reclaimed(job[j]).next_attempt_at # None
    <2> SUFFICES ASSUME NEW j \in First(Stale, Batch), j \in Jobs
                 PROVE  /\ LiveOn(j) = {}
                        /\ job[j].state = "running"
                        /\ Reclaimed(job[j]).state = "retry_wait"
                        /\ Reclaimed(job[j]).attempts = job[j].attempts
                        /\ Reclaimed(job[j]).next_attempt_at # None
      OBVIOUS
    <2>1. /\ job[j].state = "running"
          /\ is_lease_expired(job[j].lease_expires_at)
          /\ Reclaimed(job[j]).state = "retry_wait"
          /\ Reclaimed(job[j]).attempts = job[j].attempts
          /\ Reclaimed(job[j]).next_attempt_at = 0
      BY <1>1, ReclaimedRow
    <2>2. LiveOn(j) = {}
      BY <2>1, WorkedRow DEF LiveOn
    <2> QED
      BY <2>1, <2>2, RetriesAssumption
  <1>6. \A j \in Jobs : GoodRow(j)'
    <2> SUFFICES ASSUME NEW j \in Jobs PROVE GoodRow(j)'
      OBVIOUS
    <2>1. CASE job'[j] = job[j]
      BY <1>1, <1>4, <2>1, KeptRow
    <2>2. CASE job'[j] = Reclaimed(job[j]) /\ j \in First(Stale, Batch)
      <3>1. GoodRow(j) /\ LiveOn(j) = {} /\ job[j].state = "running"
        BY <1>5, <2>2 DEF Good
      <3>2. /\ job'[j].state = "retry_wait"
            /\ job'[j].attempts = job[j].attempts
            /\ job'[j].next_attempt_at # None
        BY <1>5, <2>2
      <3>3. job[j].attempts < MaxAttempts + faults
        BY <3>1 DEF GoodRow
      <3> QED
        BY <1>1, <3>1, <3>2, <3>3 DEF GoodRow, TERMINAL_STATES
    <2> QED
      BY <1>2, <2>1, <2>2
  <1>7. \A q \in Runners : pc'[q] \in Live => GoodRunner(q)'
    <2> SUFFICES ASSUME NEW q \in Runners, pc[q] \in Live PROVE GoodRunner(q)'
      BY <1>3
    <2>1. run[q].job \in Jobs
      BY LiveRun
    <2>2. job'[run[q].job] = job[run[q].job]
      BY <1>2, <1>5, <2>1 DEF LiveOn
    <2> QED
      BY <1>1, <2>2, KeptRunner
  <1>8. OneWorkerPerJob'
    BY <1>1, <1>3 DEF Good, OneWorkerPerJob
  <1> QED
    BY <1>6, <1>7, <1>8 DEF Good

LEMMA GoodPass ==
  ASSUME RowsInv, Good, NEW s \in Sweepers, SelectDue(s) \/ EndPass(s) \/ PassLost(s)
  PROVE  Good'
  <1>1. /\ UNCHANGED <<job, history, run>>
        /\ faults' = faults \/ faults' = faults + 1
        /\ faults' \in Nat
    BY JobsAssumption DEF RowsInv, TypeOK, SelectDue, EndPass, PassLost, Fault
  <1>2. \A q \in Runners : pc'[q] \in Live <=> pc[q] \in Live
    BY PassPlaces DEF RowsInv, SelectDue, EndPass, PassLost
  <1> QED
    BY <1>1, <1>2, GoodNeutral

LEMMA GoodCrash ==
  ASSUME RowsInv, Good, Crash
  PROVE  Good'
  <1>1. /\ UNCHANGED <<job, history>>
        /\ faults' = faults + 1 /\ faults' \in Nat
    BY JobsAssumption DEF RowsInv, TypeOK, Crash, Fault
  <1>2. \A q \in Runners : pc'[q] \notin Live
    BY DEF Crash, Live, Renewing, Closing, ErrorClass
  <1> QED
    BY <1>1, <1>2, GoodNeutral

\* A tick takes one off a lease and one off the wait for its renewal.
LEMMA GoodTick ==
  ASSUME RowsInv, Good, Tick
  PROVE  Good'
  <1>1. /\ UNCHANGED <<history, pc, faults>> /\ faults' \in Nat
        /\ \A r \in Runners : pc[r] \in Live => run[r].beat > 0
        /\ \A r \in Runners : pc[r] \in Live => run'[r] = [run[r] EXCEPT !.beat = @ - 1]
        /\ \A j \in Jobs : job'[j] = Later(job[j])
    BY JobsAssumption DEF Tick, RowsInv, TypeOK
  <1>2. \A j \in Jobs :
          /\ job'[j].state = job[j].state
          /\ job'[j].attempts = job[j].attempts
          /\ job'[j].next_attempt_at # None <=> job[j].next_attempt_at # None
          /\ job'[j].lease_expires_at = Before(job[j].lease_expires_at)
    <2> SUFFICES ASSUME NEW j \in Jobs
                 PROVE  /\ job'[j].state = job[j].state
                        /\ job'[j].attempts = job[j].attempts
                        /\ job'[j].next_attempt_at # None <=> job[j].next_attempt_at # None
                        /\ job'[j].lease_expires_at = Before(job[j].lease_expires_at)
      OBVIOUS
    <2>1. job[j] \in JobTransition \cup {AbsentJob}
      BY DEF RowsInv, TypeOK
    <2> QED
      BY <1>1, <2>1, TickFields
  <1>3. \A r \in Runners : pc[r] \in Live =>
          /\ run'[r].job = run[r].job
          /\ run'[r].number = run[r].number
          /\ run'[r].missed = run[r].missed
          /\ run'[r].beat = run[r].beat - 1
    <2> SUFFICES ASSUME NEW r \in Runners, pc[r] \in Live
                 PROVE  /\ run'[r].job = run[r].job
                        /\ run'[r].number = run[r].number
                        /\ run'[r].missed = run[r].missed
                        /\ run'[r].beat = run[r].beat - 1
      OBVIOUS
    <2>1. run[r] \in Attempt
      BY LiveRun
    <2> QED
      BY <1>1, <2>1 DEF Attempt
  <1>4. \A j \in Jobs : LiveOn(j)' = LiveOn(j)
    BY <1>1, <1>3 DEF LiveOn
  <1>5. \A j \in Jobs : GoodRow(j)'
    <2> SUFFICES ASSUME NEW j \in Jobs PROVE GoodRow(j)'
      OBVIOUS
    <2>1. GoodRow(j)
      BY DEF Good
    <2> QED
      BY <1>1, <1>2, <1>4, <2>1 DEF GoodRow
  <1>6. \A r \in Runners : pc'[r] \in Live => GoodRunner(r)'
    <2> SUFFICES ASSUME NEW r \in Runners, pc[r] \in Live PROVE GoodRunner(r)'
      BY <1>1
    <2>1. GoodRunner(r) /\ run[r].job \in Jobs /\ run[r].missed \in Nat /\ run[r].beat \in Nat
      BY LiveRun DEF Good
    <2>2. run[r].missed <= MaxMissed
      BY <2>1 DEF GoodRunner
    <2>3. (MaxMissed - run[r].missed) * Interval \in Nat
      BY <2>1, <2>2, Renewals
    <2> DEFINE lease == job[run[r].job].lease_expires_at
    <2>4. lease \in Nat /\ lease > run[r].beat + (MaxMissed - run[r].missed) * Interval
      BY <2>1 DEF GoodRunner
    <2>5. lease \in Nat \ {0}
      BY <2>1, <2>3, <2>4
    <2>6. job'[run[r].job].lease_expires_at = lease - 1
      BY <1>2, <2>1, <2>5 DEF Before
    <2>7. lease - 1 > (run[r].beat - 1) + (MaxMissed - run[r].missed) * Interval
      BY <2>1, <2>3, <2>4
    <2> QED
      BY <1>2, <1>3, <2>1, <2>2, <2>5, <2>6, <2>7 DEF GoodRunner
  <1>7. OneWorkerPerJob'
    BY <1>1, <1>3 DEF Good, OneWorkerPerJob
  <1> QED
    BY <1>5, <1>6, <1>7 DEF Good

LEMMA GoodStep ==
  ASSUME HeartbeatMargin, RowsInv, Good, [Next]_vars
  PROVE  Good'
  <1>0. faults \in Nat
    BY JobsAssumption DEF RowsInv, TypeOK
  <1>1. ASSUME NEW j \in Jobs, Submit(j) PROVE Good'
    BY <1>1, GoodSubmit
  <1>2. ASSUME NEW r \in Runners, NEW j \in Jobs, ClaimJob(r, j) PROVE Good'
    BY <1>2, GoodClaimJob
  <1>3. ASSUME NEW r \in Runners, NEW j \in Jobs,
               ClaimRefused(r, j) \/ ClaimCollides(r, j)
        PROVE  Good'
    <2>1. /\ GiveUp(r, j)
          /\ UNCHANGED <<job, history>>
          /\ faults' = faults
      BY <1>3 DEF ClaimRefused, ClaimCollides
    <2> QED
      BY <1>0, <2>1, GoodGiveUp
  <1>4. ASSUME NEW r \in Runners, NEW j \in Jobs, ClaimLost(r, j) PROVE Good'
    <2>1. GiveUp(r, j) /\ faults' = faults + 1 /\ faults' \in Nat
      BY <1>0, <1>4 DEF ClaimLost, Fault
    <2>2. CASE TakeRow(j)
      BY <1>4, <2>2, GoodClaimLost
    <2>3. CASE UNCHANGED <<job, history>>
      BY <2>1, <2>3, GoodGiveUp
    <2> QED
      BY <1>4, <2>2, <2>3 DEF ClaimLost
  <1>5. ASSUME NEW r \in Runners,
               GraphEnds(r) \/ RecordOutput(r) \/ Succeed(r) \/ RecordFailure(r)
        PROVE  Good'
    BY <1>5, GoodProgress, GoodConcluded
  <1>6. ASSUME NEW r \in Runners, Heartbeat(r) \/ Miss(r) \/ CloseLost(r) PROVE Good'
    BY <1>6, GoodHeartbeat, GoodMiss, GoodCloseLost
  <1>7. ASSUME NEW s \in Sweepers,
               ReclaimExpired(s) \/ SelectDue(s) \/ EndPass(s) \/ PassLost(s)
        PROVE  Good'
    BY <1>7, GoodReclaim, GoodPass
  <1>8. CASE Tick \/ Crash
    BY <1>8, GoodTick, GoodCrash
  <1>9. CASE UNCHANGED vars
    BY <1>0, <1>9, GoodNeutral DEF vars
  <1> QED
    BY <1>1, <1>2, <1>3, <1>4, <1>5, <1>6, <1>7, <1>8, <1>9
    DEF Next, Advance, AdvancePass, Faulty

\* What is inductive under HeartbeatMargin.
LEMMA GoodInvariant == ASSUME HeartbeatMargin PROVE Spec => [](RowsInv /\ Good)
  <1>1. Init => RowsInv /\ Good
    BY RowsInit, GoodInit
  <1>2. (RowsInv /\ Good) /\ [Next]_vars => (RowsInv /\ Good)'
    BY RowsStep, GoodStep
  <1> QED
    BY <1>1, <1>2, PTL DEF Spec

\* While a lease outlasts the renewals a run may miss, exclusive execution
\* holds with everything it rests on.
THEOREM ExclusiveExecution == ASSUME HeartbeatMargin PROVE Spec => []ExclusiveInv
  <1>1. RowsInv /\ Good => ExclusiveInv
    BY ExclusiveIsGood
  <1> QED
    BY <1>1, GoodInvariant, PTL

\* Two workers never process the same job at the same time.
THEOREM OneWorker == ASSUME HeartbeatMargin PROVE Spec => []OneWorkerPerJob
  <1>1. RowsInv /\ Good => OneWorkerPerJob
    BY DEF Good
  <1> QED
    BY <1>1, GoodInvariant, PTL

\* The sweeper leaves a job alone whose worker is alive.
THEOREM LeaseHeld == ASSUME HeartbeatMargin PROVE Spec => []WorkerHoldsLease
  <1>1. RowsInv /\ Good => WorkerHoldsLease
    BY WorkedRow DEF WorkerHoldsLease
  <1> QED
    BY <1>1, GoodInvariant, PTL

\* The attempt number the next claim takes is free.
THEOREM ClaimsGoThrough == ASSUME HeartbeatMargin PROVE Spec => []ClaimNeverCollides
  <1>1. RowsInv /\ Good => ClaimNeverCollides
    <2> SUFFICES ASSUME RowsInv, Good, NEW j \in Due PROVE ~NumberTaken(j)
      BY DEF ClaimNeverCollides
    <2>1. j \in Jobs /\ GoodRow(j) /\ history[j] \in Seq(Outcome)
      BY DEF Due, Good, RowsInv, TypeOK
    <2>2. claim(job[j].attempts).attempts = Len(history[j]) + 1
      BY <2>1 DEF claim, GoodRow
    <2> QED
      BY <2>1, <2>2 DEF NumberTaken
  <1> QED
    BY <1>1, GoodInvariant, PTL

\* How a job ended is what its last attempt recorded.
THEOREM HistoryExplains == ASSUME HeartbeatMargin PROVE Spec => []LastAttemptDecides
  <1>1. RowsInv /\ Good => LastAttemptDecides
    BY DEF Good, GoodRow, LastAttemptDecides
  <1> QED
    BY <1>1, GoodInvariant, PTL

\* Attempts above the cap are paid for with faults.
THEOREM AttemptsBounded == ASSUME HeartbeatMargin PROVE Spec => []AttemptsBudget
  <1>1. RowsInv /\ Good => AttemptsBudget
    BY DEF Good, GoodRow, AttemptsBudget
  <1> QED
    BY <1>1, GoodInvariant, PTL

-----------------------------------------------------------------------------
(* The outcome of a job is final *)

\* A finished row waits for nothing, so time does not change it either.
LEMMA TickKeepsEnd ==
  ASSUME RowsInv, Good, Tick, NEW j \in Jobs, job[j].state \in TERMINAL_STATES
  PROVE  job'[j] = job[j]
  <1>1. GoodRow(j) /\ job[j] \in JobTransition
    BY PresentRow DEF Good, RowsInv, TERMINAL_STATES
  <1>2. job[j].next_attempt_at = None /\ job[j].lease_expires_at = None
    BY <1>1 DEF GoodRow, RowsInv, LeaseIffRunning, TERMINAL_STATES
  <1>3. Before(None) = None
    BY RetriesAssumption DEF Before
  <1>4. Later(job[j]) = job[j]
    BY <1>1, <1>2, <1>3 DEF Later, JobTransition
  <1> QED
    BY <1>4 DEF Tick

LEMMA EndKept ==
  ASSUME RowsInv, Good, [Next]_vars, NEW j \in Jobs, job[j].state \in TERMINAL_STATES
  PROVE  job'[j] = job[j]
  <1>0. TypeOK /\ job[j].state \notin CLAIMABLE_STATES \cup {"absent", "running"}
    BY DEF RowsInv, TERMINAL_STATES, CLAIMABLE_STATES
  <1>1. ASSUME NEW k \in Jobs, Submit(k) PROVE job'[j] = job[j]
    BY <1>0, <1>1 DEF Submit, TypeOK
  <1>2. ASSUME NEW k \in Jobs, TakeRow(k) PROVE job'[j] = job[j]
    BY <1>0, <1>2, TakeRowType DEF TypeOK
  <1>3. ASSUME NEW r \in Runners, NEW k \in Jobs,
               ClaimJob(r, k) \/ ClaimRefused(r, k) \/ ClaimCollides(r, k) \/ ClaimLost(r, k)
        PROVE  job'[j] = job[j]
    BY <1>2, <1>3 DEF ClaimJob, ClaimRefused, ClaimCollides, ClaimLost
  <1>4. ASSUME NEW r \in Runners, Succeed(r) \/ RecordFailure(r) PROVE job'[j] = job[j]
    <2>1. PICK t \in JobTransition : pc[r] \in Live /\ Conclude(r, t)
      BY <1>4, Concluding
    <2>2. run[r].job \in Jobs /\ job[run[r].job].state = "running"
      BY <2>1, WorkedRow
    <2> QED
      BY <1>0, <2>1, <2>2 DEF Conclude, apply_transition, TypeOK
  <1>5. ASSUME NEW r \in Runners, Heartbeat(r) PROVE job'[j] = job[j]
    BY <1>0, <1>5 DEF Heartbeat, renew_lease, TypeOK
  <1>6. ASSUME NEW r \in Runners,
               GraphEnds(r) \/ RecordOutput(r) \/ Miss(r) \/ CloseLost(r)
        PROVE  job'[j] = job[j]
    BY <1>6 DEF GraphEnds, RecordOutput, Miss, CloseLost
  <1>7. ASSUME NEW s \in Sweepers, ReclaimExpired(s) PROVE job'[j] = job[j]
    BY <1>0, <1>7, ReclaimRows, ReclaimedRow
  <1>8. ASSUME NEW s \in Sweepers, SelectDue(s) \/ EndPass(s) \/ PassLost(s)
        PROVE  job'[j] = job[j]
    BY <1>8 DEF SelectDue, EndPass, PassLost
  <1>9. CASE Tick \/ Crash \/ UNCHANGED vars
    BY <1>9, TickKeepsEnd DEF Crash, vars
  <1> QED
    BY <1>1, <1>3, <1>4, <1>5, <1>6, <1>7, <1>8, <1>9
    DEF Next, Advance, AdvancePass, Faulty

\* A row that reached a terminal state is never written again.
THEOREM OutcomeIsFinal == ASSUME HeartbeatMargin PROVE Spec => TerminalIsFinal
  <1>1. (RowsInv /\ Good) /\ [Next]_vars
          => [\A j \in Jobs : job[j].state \in TERMINAL_STATES => job'[j] = job[j]]_vars
    BY EndKept
  <1> QED
    BY <1>1, GoodInvariant, PTL DEF Spec, TerminalIsFinal
=============================================================================
