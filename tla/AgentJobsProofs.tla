-------------------------- MODULE AgentJobsProofs --------------------------
(***************************************************************************)
(* Proofs about AgentJobs, for every set of jobs and sweepers, every lease *)
(* length and cap, and every number of faults.                             *)
(***************************************************************************)
EXTENDS AgentJobs, SequenceTheorems, WellFoundedInduction, TLAPS

\* The renewal interval is a positive number of ticks.
LEMMA IntervalType == Interval \in Nat \ {0}
  <1>1. LeaseTicks \div 3 \in Nat
    BY RetriesAssumption
  <1> QED
    BY <1>1, JobsAssumption DEF Interval, _HEARTBEAT_DIVISOR

\* Induction, with the property as a set of numbers.
LEMMA NatInductionOverSet ==
  ASSUME NEW S, 0 \in S, \A n \in Nat : n \in S => n + 1 \in S
  PROVE  Nat \subseteq S
  <1> SUFFICES ASSUME Nat \ S # {} PROVE FALSE
    OBVIOUS
  <1>1. PICK m \in Nat \ S : \A k \in Nat \ S : <<k, m>> \notin OpToRel(<, Nat)
    BY NatLessThanWellFounded, WFMin
  <1>2. \A k \in Nat : k < m => k \in S
    BY <1>1 DEF OpToRel
  <1>3. m \in Nat /\ m # 0
    OBVIOUS
  <1>4. m - 1 \in S /\ (m - 1) + 1 = m
    <2>1. m - 1 \in Nat /\ m - 1 < m /\ (m - 1) + 1 = m
      BY <1>3
    <2> QED
      BY <1>2, <2>1
  <1>5. m \in S
    BY <1>3, <1>4
  <1> QED
    BY <1>1, <1>5

\* The recursion of backoff_seconds over the first n attempts.
Doubles(f, n) == f = [k \in 1 .. n |-> IF k = 1 THEN BaseBackoff ELSE 2 * f[k - 1]]

LEMMA DoublingExists ==
  ASSUME NEW n \in Nat
  PROVE  \E f : Doubles(f, n)
  <1> DEFINE S == {k \in Nat : \E f : Doubles(f, k)}
  <1>1. 0 \in S
    <2> DEFINE f == [k \in 1 .. 0 |-> 0]
    <2>1. f = [k \in 1 .. 0 |-> IF k = 1 THEN BaseBackoff ELSE 2 * f[k - 1]]
      OBVIOUS
    <2> QED
      BY <2>1 DEF Doubles
  <1>2. ASSUME NEW m \in Nat, m \in S
        PROVE  m + 1 \in S
    <2>1. PICK f : Doubles(f, m)
      BY <1>2
    <2> DEFINE g == [k \in 1 .. m + 1 |-> IF k = 1 THEN BaseBackoff ELSE 2 * f[k - 1]]
    <2>2. ASSUME NEW k \in 1 .. m + 1, k # 1
          PROVE  g[k - 1] = f[k - 1]
      <3>1. k - 1 \in 1 .. m /\ k - 1 \in 1 .. m + 1
        BY <2>2
      <3>2. f[k - 1] = IF k - 1 = 1 THEN BaseBackoff ELSE 2 * f[(k - 1) - 1]
        BY <2>1, <3>1 DEF Doubles
      <3> QED
        BY <3>1, <3>2
    <2>3. g = [k \in 1 .. m + 1 |-> IF k = 1 THEN BaseBackoff ELSE 2 * g[k - 1]]
      <3> HIDE DEF g
      <3>1. g = [k \in 1 .. m + 1 |-> IF k = 1 THEN BaseBackoff ELSE 2 * f[k - 1]]
        BY DEF g
      <3> QED
        BY <2>2, <3>1
    <2> HIDE DEF g
    <2>4. \E h : Doubles(h, m + 1)
      BY <2>3 DEF Doubles
    <2> QED
      BY <2>4
  <1>3. Nat \subseteq S
    <2> HIDE DEF S
    <2> QED
      BY <1>1, <1>2, NatInductionOverSet
  <1> QED
    BY <1>3

\* Whatever number of attempts has failed, the wait before the next is a number
\* of ticks and at most the maximum (backoff_seconds).
LEMMA BackoffType ==
  ASSUME NEW n \in Nat \ {0}
  PROVE  backoff_seconds(n) \in Nat /\ backoff_seconds(n) <= MaxBackoff
  <1> DEFINE f == CHOOSE g : Doubles(g, n)
             S == {k \in Nat : k \in 1 .. n => f[k] \in Nat}
  <1>1. Doubles(f, n)
    BY DoublingExists
  <1>2. backoff_seconds(n) = IF f[n] < MaxBackoff THEN f[n] ELSE MaxBackoff
    BY DEF backoff_seconds, Doubles
  <1> HIDE DEF f
  <1>3. 0 \in S
    OBVIOUS
  <1>4. ASSUME NEW k \in Nat, k \in S
        PROVE  k + 1 \in S
    <2> SUFFICES ASSUME k + 1 \in 1 .. n
                 PROVE  f[k + 1] \in Nat
      OBVIOUS
    <2>1. f[k + 1] = IF k + 1 = 1 THEN BaseBackoff ELSE 2 * f[(k + 1) - 1]
      BY <1>1 DEF Doubles
    <2>2. CASE k = 0
      BY <2>1, <2>2, RetriesAssumption
    <2>3. CASE k # 0
      <3>1. f[k] \in Nat /\ (k + 1) - 1 = k /\ k + 1 # 1
        BY <1>4, <2>3
      <3> QED
        BY <2>1, <3>1
    <2> QED
      BY <2>2, <2>3
  <1>5. f[n] \in Nat
    <2>1. Nat \subseteq S
      <3> HIDE DEF S
      <3> QED
        BY <1>3, <1>4, NatInductionOverSet
    <2>2. n \in S
      BY <2>1
    <2> QED
      BY <2>2
  <1> QED
    BY <1>2, <1>5, RetriesAssumption

\* fail() returns a well-formed row, and schedules a retry only below the cap.
LEMMA FailType ==
  ASSUME NEW n \in Nat \ {0}, NEW c \in ErrorClass
  PROVE  /\ fail(n, c) \in JobTransition
         /\ fail(n, c).attempts = n
         /\ fail(n, c).lease_expires_at = None
         /\ \/ /\ fail(n, c).state = "failed_review"
               /\ fail(n, c).next_attempt_at = None
            \/ /\ fail(n, c).state = "retry_wait"
               /\ fail(n, c).next_attempt_at \in Nat
               /\ n < MaxAttempts
  <1>1. CASE c = "permanent" \/ n >= MaxAttempts
    BY <1>1 DEF fail, JobTransition, JobState, Timestamp
  <1>2. CASE ~(c = "permanent" \/ n >= MaxAttempts)
    <2>1. n \in 1 .. MaxAttempts /\ n < MaxAttempts
      BY <1>2, RetriesAssumption
    <2>2. backoff_seconds(n) \in Nat
      BY BackoffType
    <2> QED
      BY <1>2, <2>1, <2>2 DEF fail, JobTransition, JobState, Timestamp
  <1> QED
    BY <1>1, <1>2

\* The ids a transaction picks are ids of the rows it picks from.
LEMMA FirstSubset == ASSUME NEW S, NEW n PROVE First(S, n) \subseteq S
  BY DEF First

\* One tick of a column that may be NULL.
LEMMA BeforeType ==
  ASSUME NEW t \in Timestamp
  PROVE  /\ Before(t) \in Timestamp
         /\ Before(t) = None <=> t = None
         /\ t \in Nat \ {0} => Before(t) = t - 1
  BY RetriesAssumption DEF Before, Timestamp

-----------------------------------------------------------------------------
(* Type correctness *)

\* Every row is well formed after one tick.
LEMMA TickRow ==
  ASSUME NEW row \in JobTransition \cup {AbsentJob}
  PROVE  Later(row) \in JobTransition \cup {AbsentJob}
  <1>1. CASE row \in JobTransition
    <2>1. Before(row.next_attempt_at) \in Timestamp
      BY <1>1, BeforeType DEF JobTransition
    <2>2. Before(row.lease_expires_at) \in Timestamp
      BY <1>1, BeforeType DEF JobTransition
    <2> QED
      BY <1>1, <2>1, <2>2 DEF Later, JobTransition
  <1>2. CASE row = AbsentJob
    <2>1. Before(None) = None
      BY RetriesAssumption DEF Before
    <2> DEFINE Absent == [state: {"absent"}, attempts: {0},
                          next_attempt_at: {None}, lease_expires_at: {None}]
    <2>2. row \in Absent
      BY <1>2 DEF AbsentJob
    <2>3. Later(row) \in Absent
      BY <2>1, <2>2 DEF Later
    <2>4. \A x \in Absent : x = AbsentJob
      BY DEF AbsentJob
    <2> HIDE DEF Absent
    <2> QED
      BY <2>3, <2>4
  <1> QED
    BY <1>1, <1>2

\* A tick changes neither the state nor the counter of a row, nor whether its
\* timestamps are set.
LEMMA TickFields ==
  ASSUME NEW row \in JobTransition \cup {AbsentJob}
  PROVE  /\ Later(row).state = row.state
         /\ Later(row).attempts = row.attempts
         /\ Later(row).next_attempt_at = Before(row.next_attempt_at)
         /\ Later(row).lease_expires_at = Before(row.lease_expires_at)
         /\ Later(row).next_attempt_at # None <=> row.next_attempt_at # None
         /\ Later(row).lease_expires_at # None <=> row.lease_expires_at # None
  <1>1. row.next_attempt_at \in Timestamp /\ row.lease_expires_at \in Timestamp
    BY DEF JobTransition, AbsentJob, Timestamp
  <1>2. /\ Before(row.next_attempt_at) = None <=> row.next_attempt_at = None
        /\ Before(row.lease_expires_at) = None <=> row.lease_expires_at = None
    BY <1>1, BeforeType
  <1> QED
    BY <1>2 DEF Later, JobTransition, AbsentJob

\* A row that is not absent is a transition's result.
LEMMA PresentRow ==
  ASSUME TypeOK, NEW j \in Jobs, job[j].state # "absent"
  PROVE  job[j] \in JobTransition
  BY DEF TypeOK, AbsentJob

\* The row and the attempt row a claim writes.
LEMMA TakeRowType ==
  ASSUME TypeOK, NEW j \in Jobs, TakeRow(j)
  PROVE  /\ job[j] \in JobTransition
         /\ job[j].state \in CLAIMABLE_STATES
         /\ job' = [job EXCEPT ![j] = claim(job[j].attempts)]
         /\ claim(job[j].attempts) \in JobTransition
         /\ history' = [history EXCEPT ![j] = Append(history[j], Open)]
         /\ Append(history[j], Open) \in Seq(Outcome)
         /\ Len(Append(history[j], Open)) = Len(history[j]) + 1
         /\ job' \in [Jobs -> JobTransition \cup {AbsentJob}]
         /\ history' \in [Jobs -> Seq(Outcome)]
  <1>1. job[j].state \in CLAIMABLE_STATES
    BY DEF TakeRow, Due, is_due
  <1>2. job[j] \in JobTransition
    BY <1>1, PresentRow DEF CLAIMABLE_STATES
  <1>3. claim(job[j].attempts) \in JobTransition
    BY <1>2, RetriesAssumption DEF claim, JobTransition, JobState, Timestamp
  <1>4. history[j] \in Seq(Outcome) /\ Open \in Outcome
    BY DEF TypeOK, Outcome
  <1>5. /\ Append(history[j], Open) \in Seq(Outcome)
        /\ Len(Append(history[j], Open)) = Len(history[j]) + 1
    BY <1>4
  <1>6. /\ job' = [job EXCEPT ![j] = claim(job[j].attempts)]
        /\ history' = [history EXCEPT ![j] = Append(history[j], Open)]
    BY DEF TakeRow, apply_transition, start_attempt
  <1>7. /\ job' \in [Jobs -> JobTransition \cup {AbsentJob}]
        /\ history' \in [Jobs -> Seq(Outcome)]
    BY <1>3, <1>5, <1>6 DEF TypeOK
  <1> QED
    BY <1>1, <1>2, <1>3, <1>5, <1>6, <1>7

\* What a runner carries while it is live.
LEMMA LiveRun ==
  ASSUME RowsInv, NEW r \in Runners, pc[r] \in Live
  PROVE  /\ run[r] \in Attempt
         /\ run[r].job \in Jobs
         /\ run[r].number \in Nat \ {0}
         /\ run[r].number \in 1 .. Len(history[run[r].job])
         /\ run[r].beat \in Nat /\ run[r].missed \in Nat
         /\ history[run[r].job] \in Seq(Outcome)
  <1>1. run[r] \in Attempt
    BY RetriesAssumption DEF RowsInv, TypeOK
  <1>2. run[r].number \in 1 .. Len(history[run[r].job])
    BY DEF RowsInv, AttemptHasRow
  <1> QED
    BY <1>1, <1>2 DEF RowsInv, TypeOK, Attempt

\* What NextBeat changes of an attempt.
LEMMA NextBeatType ==
  ASSUME NEW r \in Runners, run[r] \in Attempt, NEW m \in Nat
  PROVE  /\ NextBeat(r, m) \in Attempt
         /\ NextBeat(r, m).job = run[r].job
         /\ NextBeat(r, m).number = run[r].number
         /\ NextBeat(r, m).beat = Interval
         /\ NextBeat(r, m).missed = m
  BY IntervalType DEF NextBeat, Attempt

-----------------------------------------------------------------------------
(* RowsInv is inductive: one lemma per action that writes a row *)

LEMMA RowsInit == Init => RowsInv
  <1> SUFFICES ASSUME Init PROVE RowsInv
    OBVIOUS
  <1>1. TypeOK
    <2>1. \A r \in Runners : pc[r] \notin Live
      BY JobsAssumption DEF Init, Live, Renewing, Closing, ErrorClass
    <2>2. << >> \in Seq(Outcome)
      OBVIOUS
    <2> QED
      BY <2>1, <2>2, JobsAssumption DEF Init, TypeOK, Place
  <1>2. \A r \in Runners : pc[r] \notin Live /\ pc[r] # "committing"
    BY DEF Init, Live, Renewing, Closing, ErrorClass
  <1>4. \A j \in Jobs : pc[j] = "unsubmitted"
    BY DEF Init, Runners
  <1>3. \A j \in Jobs : job[j] = AbsentJob /\ Len(history[j]) = 0
    BY DEF Init
  <1> QED
    BY <1>1, <1>2, <1>3, <1>4
    DEF RowsInv, AttemptHasRow, AttemptsHaveRows, LeaseIffRunning, TaskPerRow,
        CompletedWasRecorded, CommitFollowsOutput, AbsentJob, Init

LEMMA RowsSubmit ==
  ASSUME RowsInv, NEW j \in Jobs, Submit(j)
  PROVE  RowsInv'
  <1>1. job[j] = AbsentJob
    BY DEF RowsInv, TypeOK, Submit, JobTransition, JobState
  <1>2. /\ job'[j] \in JobTransition
        /\ job'[j].state = "queued"
        /\ job'[j].attempts = 0
        /\ job'[j].lease_expires_at = None
    BY <1>1 DEF RowsInv, TypeOK, Submit, AbsentJob, JobTransition, JobState, Timestamp
  <1>3. \A k \in Jobs : k # j => job'[k] = job[k] /\ pc'[k] = pc[k]
    BY DEF RowsInv, TypeOK, Submit
  <1>4. /\ pc[j] = "unsubmitted"
        /\ pc'[j] = "spawned"
        /\ \A r \in Runners : r # j => pc'[r] = pc[r]
    BY <1>1 DEF RowsInv, TypeOK, TaskPerRow, AbsentJob, Submit, Runners
  <1>5. "unsubmitted" \notin Live /\ "spawned" \notin Live \cup {"committing"}
    BY DEF Live, Renewing, Closing, ErrorClass
  <1>6. \A r \in Runners : pc'[r] \in Live <=> pc[r] \in Live
    BY <1>4, <1>5
  <1>7. TypeOK'
    <2>1. job' \in [Jobs -> JobTransition \cup {AbsentJob}]
      BY <1>2, <1>3 DEF RowsInv, TypeOK, Submit
    <2>2. pc' \in [Runners -> Place]
      BY DEF RowsInv, TypeOK, Submit, Place
    <2> QED
      BY <1>6, <2>1, <2>2 DEF RowsInv, TypeOK, Submit
  <1>8. TaskPerRow' /\ LeaseIffRunning' /\ CompletedWasRecorded'
    BY <1>2, <1>3, <1>4
    DEF RowsInv, TaskPerRow, LeaseIffRunning, CompletedWasRecorded, Submit
  <1>9. AttemptsHaveRows'
    <2>1. Len(history[j]) \in Nat
      BY DEF RowsInv, TypeOK
    <2> QED
      BY <1>2, <1>3, <2>1 DEF RowsInv, AttemptsHaveRows, Submit
  <1>10. AttemptHasRow' /\ CommitFollowsOutput'
    BY <1>4, <1>5, <1>6 DEF RowsInv, AttemptHasRow, CommitFollowsOutput, Submit
  <1> QED
    BY <1>7, <1>8, <1>9, <1>10 DEF RowsInv

\* A step that writes no row keeps what holds of the rows.
LEMMA RowsNeutral ==
  ASSUME RowsInv, TypeOK', UNCHANGED <<job, history>>, output \subseteq output',
         \A k \in Jobs : pc'[k] = "unsubmitted" <=> pc[k] = "unsubmitted",
         \A r \in Runners : pc'[r] \in Live =>
           /\ pc[r] \in Live
           /\ run'[r].job = run[r].job
           /\ run'[r].number = run[r].number,
         CommitFollowsOutput'
  PROVE  RowsInv'
  <1>1. AttemptHasRow'
    BY DEF RowsInv, AttemptHasRow
  <1>2. TaskPerRow' /\ AttemptsHaveRows' /\ LeaseIffRunning' /\ CompletedWasRecorded'
    BY DEF RowsInv, TaskPerRow, AttemptsHaveRows, LeaseIffRunning, CompletedWasRecorded
  <1> QED
    BY <1>1, <1>2 DEF RowsInv

\* What a claim does to the rows, whether or not its runner learns of it.
LEMMA RowsTake ==
  ASSUME RowsInv, NEW j \in Jobs, TakeRow(j), UNCHANGED output,
         \A k \in Jobs : pc'[k] = "unsubmitted" <=> pc[k] = "unsubmitted"
  PROVE  /\ TaskPerRow' /\ AttemptsHaveRows' /\ LeaseIffRunning'
         /\ CompletedWasRecorded'
         /\ \A k \in Jobs : Len(history'[k]) >= Len(history[k])
         /\ job[j].attempts + 1 \in 1 .. Len(history'[j])
  <1>1. TypeOK
    BY DEF RowsInv
  <1>2. /\ job[j] \in JobTransition
        /\ job[j].state \in CLAIMABLE_STATES
        /\ job' = [job EXCEPT ![j] = claim(job[j].attempts)]
        /\ history' = [history EXCEPT ![j] = Append(history[j], Open)]
        /\ Len(Append(history[j], Open)) = Len(history[j]) + 1
    BY <1>1, TakeRowType
  <1>3. /\ job'[j] = claim(job[j].attempts)
        /\ history'[j] = Append(history[j], Open)
        /\ \A k \in Jobs : k # j => job'[k] = job[k] /\ history'[k] = history[k]
    BY <1>1, <1>2 DEF TypeOK
  <1>4. \A k \in Jobs : Len(history[k]) \in Nat
    BY <1>1 DEF TypeOK
  <1>5. job[j].attempts \in Nat /\ job[j].attempts <= Len(history[j])
    BY <1>2 DEF RowsInv, AttemptsHaveRows, JobTransition
  <1>6. /\ job'[j].state = "running"
        /\ job'[j].attempts = job[j].attempts + 1
        /\ job'[j].lease_expires_at # None
    BY <1>3, RetriesAssumption DEF claim
  <1>7. TaskPerRow' /\ LeaseIffRunning' /\ CompletedWasRecorded'
    BY <1>2, <1>3, <1>6
    DEF RowsInv, TaskPerRow, LeaseIffRunning, CompletedWasRecorded, CLAIMABLE_STATES
  <1>8. AttemptsHaveRows'
    <2> SUFFICES ASSUME NEW k \in Jobs PROVE job'[k].attempts <= Len(history'[k])
      BY DEF AttemptsHaveRows
    <2>1. CASE k = j
      BY <1>2, <1>3, <1>4, <1>5, <1>6, <2>1
    <2>2. CASE k # j
      BY <1>3, <2>2 DEF RowsInv, AttemptsHaveRows
    <2> QED
      BY <2>1, <2>2
  <1>9. /\ \A k \in Jobs : Len(history'[k]) >= Len(history[k])
        /\ job[j].attempts + 1 \in 1 .. Len(history'[j])
    BY <1>2, <1>3, <1>4, <1>5
  <1> QED
    BY <1>7, <1>8, <1>9

\* Where a runner that enters execute_job is, and where it goes.
LEMMA EnteringPlaces ==
  ASSUME NEW r \in Runners, NEW j \in Jobs, Entering(r, j)
  PROVE  /\ pc[r] \in {"spawned", "draining"}
         /\ pc[r] \notin Live
         /\ Rest(r) \in {"done", "draining"}
         /\ Rest(r) \notin Live /\ Rest(r) \in Place
  BY DEF Entering, Rest, Live, Renewing, Closing, ErrorClass, Place

\* Ending execute_job without a claim leaves the runners well formed.
LEMMA GiveUpType ==
  ASSUME TypeOK, NEW r \in Runners, NEW j \in Jobs, GiveUp(r, j)
  PROVE  /\ output' \subseteq Jobs
         /\ pc' \in [Runners -> Place]
         /\ run' \in [Runners -> Attempt \cup {None}]
         /\ queue' \in [Runners -> SUBSET Jobs]
         /\ \A q \in Runners : pc'[q] \in Live <=> run'[q] # None
         /\ \A q \in Runners : pc'[q] \in Live => pc'[q] = pc[q] /\ run'[q] = run[q]
         /\ \A k \in Jobs : pc'[k] = "unsubmitted" <=> pc[k] = "unsubmitted"
  <1>1. Entering(r, j)
    BY DEF GiveUp
  <1>2. /\ pc[r] \in {"spawned", "draining"} /\ pc[r] \notin Live
        /\ Rest(r) \in {"done", "draining"} /\ Rest(r) \notin Live /\ Rest(r) \in Place
    BY <1>1, EnteringPlaces
  <1>3. pc'[r] = Rest(r) /\ \A q \in Runners : q # r => pc'[q] = pc[q]
    BY DEF TypeOK, GiveUp
  <1>4. pc' \in [Runners -> Place]
    BY <1>2 DEF TypeOK, GiveUp
  <1>5. queue' \in [Runners -> SUBSET Jobs]
    BY DEF TypeOK, GiveUp
  <1>6. \A q \in Runners : pc'[q] \in Live <=> run'[q] # None
    BY <1>2, <1>3 DEF TypeOK, GiveUp
  <1>7. \A k \in Jobs : pc'[k] = "unsubmitted" <=> pc[k] = "unsubmitted"
    BY <1>2, <1>3 DEF Runners
  <1> QED
    BY <1>2, <1>3, <1>4, <1>5, <1>6, <1>7 DEF TypeOK, GiveUp

LEMMA RowsGiveUp ==
  ASSUME RowsInv, NEW r \in Runners, NEW j \in Jobs, GiveUp(r, j),
         UNCHANGED <<job, history>>, faults' \in 0 .. MaxFaults
  PROVE  RowsInv'
  <1>1. TypeOK
    BY DEF RowsInv
  <1>2. /\ output' \subseteq Jobs
        /\ pc' \in [Runners -> Place]
        /\ run' \in [Runners -> Attempt \cup {None}]
        /\ queue' \in [Runners -> SUBSET Jobs]
        /\ \A q \in Runners : pc'[q] \in Live <=> run'[q] # None
        /\ \A q \in Runners : pc'[q] \in Live => pc'[q] = pc[q] /\ run'[q] = run[q]
        /\ \A k \in Jobs : pc'[k] = "unsubmitted" <=> pc[k] = "unsubmitted"
    BY <1>1, GiveUpType
  <1>3. TypeOK'
    BY <1>1, <1>2 DEF TypeOK
  <1>4. output' = output /\ CommitFollowsOutput'
    BY <1>2 DEF RowsInv, CommitFollowsOutput, GiveUp, Live, Closing
  <1> QED
    BY <1>2, <1>3, <1>4, RowsNeutral

LEMMA RowsClaimLost ==
  ASSUME RowsInv, NEW r \in Runners, NEW j \in Jobs, GiveUp(r, j),
         TakeRow(j), faults' \in 0 .. MaxFaults
  PROVE  RowsInv'
  <1>1. TypeOK
    BY DEF RowsInv
  <1>2. /\ output' \subseteq Jobs
        /\ pc' \in [Runners -> Place]
        /\ run' \in [Runners -> Attempt \cup {None}]
        /\ queue' \in [Runners -> SUBSET Jobs]
        /\ \A q \in Runners : pc'[q] \in Live <=> run'[q] # None
        /\ \A q \in Runners : pc'[q] \in Live => pc'[q] = pc[q] /\ run'[q] = run[q]
        /\ \A k \in Jobs : pc'[k] = "unsubmitted" <=> pc[k] = "unsubmitted"
    BY <1>1, GiveUpType
  <1>3. TypeOK'
    <2>1. /\ job' \in [Jobs -> JobTransition \cup {AbsentJob}]
          /\ history' \in [Jobs -> Seq(Outcome)]
      BY <1>1, TakeRowType
    <2> QED
      BY <1>2, <2>1 DEF TypeOK
  <1>4. output' = output
    BY DEF GiveUp
  <1>5. /\ TaskPerRow' /\ AttemptsHaveRows' /\ LeaseIffRunning' /\ CompletedWasRecorded'
        /\ \A k \in Jobs : Len(history'[k]) >= Len(history[k])
    BY <1>2, <1>4, RowsTake
  <1>6. CommitFollowsOutput'
    BY <1>2, <1>4 DEF RowsInv, CommitFollowsOutput, Live, Closing
  <1>7. AttemptHasRow'
    <2> SUFFICES ASSUME NEW q \in Runners, pc'[q] \in Live
                 PROVE  run'[q].number \in 1 .. Len(history'[run'[q].job])
      BY DEF AttemptHasRow
    <2>1. pc[q] \in Live /\ run'[q] = run[q]
      BY <1>2
    <2>2. /\ run[q].job \in Jobs
          /\ run[q].number \in 1 .. Len(history[run[q].job])
          /\ history[run[q].job] \in Seq(Outcome)
      BY <2>1, LiveRun
    <2>3. history'[run[q].job] \in Seq(Outcome)
      BY <1>3, <2>2 DEF TypeOK
    <2> QED
      BY <1>5, <2>1, <2>2, <2>3
  <1> QED
    BY <1>3, <1>5, <1>6, <1>7 DEF RowsInv

LEMMA RowsClaimJob ==
  ASSUME RowsInv, NEW r \in Runners, NEW j \in Jobs, ClaimJob(r, j)
  PROVE  RowsInv'
  <1> DEFINE carried == [job |-> j, number |-> job[j].attempts + 1,
                         beat |-> Interval, missed |-> 0]
  <1>1. TypeOK /\ Entering(r, j) /\ TakeRow(j) /\ output' = output
    BY DEF RowsInv, ClaimJob
  <1>2. /\ job[j] \in JobTransition
        /\ job' \in [Jobs -> JobTransition \cup {AbsentJob}]
        /\ history' \in [Jobs -> Seq(Outcome)]
    BY <1>1, TakeRowType
  <1>3. carried \in Attempt
    BY <1>2, IntervalType DEF Attempt, JobTransition
  <1>4. /\ pc[r] \in {"spawned", "draining"} /\ pc[r] \notin Live
        /\ pc'[r] = "running" /\ run'[r] = carried
        /\ \A q \in Runners : q # r => pc'[q] = pc[q] /\ run'[q] = run[q]
    BY <1>1, EnteringPlaces DEF TypeOK, ClaimJob, claim
  <1>5. "running" \in Live /\ "running" \in Place /\ "running" # "committing"
    BY DEF Live, Renewing, Place
  <1>6. \A k \in Jobs : pc'[k] = "unsubmitted" <=> pc[k] = "unsubmitted"
    BY <1>4 DEF Runners
  <1>7. /\ TaskPerRow' /\ AttemptsHaveRows' /\ LeaseIffRunning' /\ CompletedWasRecorded'
        /\ \A k \in Jobs : Len(history'[k]) >= Len(history[k])
        /\ job[j].attempts + 1 \in 1 .. Len(history'[j])
    BY <1>1, <1>6, RowsTake
  <1>8. TypeOK'
    <2>1. run' \in [Runners -> Attempt \cup {None}]
      BY <1>1, <1>3 DEF TypeOK, ClaimJob, claim
    <2>2. pc' \in [Runners -> Place]
      BY <1>1, <1>5 DEF TypeOK, ClaimJob
    <2>3. carried # None
      BY <1>3, NoneAssumption
    <2>4. \A q \in Runners : pc'[q] \in Live <=> run'[q] # None
      BY <1>1, <1>4, <1>5, <2>3 DEF TypeOK
    <2>5. queue' \in [Runners -> SUBSET Jobs]
      BY <1>1 DEF TypeOK, ClaimJob
    <2> QED
      BY <1>1, <1>2, <2>1, <2>2, <2>4, <2>5 DEF TypeOK, ClaimJob
  <1>9. CommitFollowsOutput'
    BY <1>1, <1>4, <1>5 DEF RowsInv, CommitFollowsOutput
  <1>10. AttemptHasRow'
    <2> SUFFICES ASSUME NEW q \in Runners, pc'[q] \in Live
                 PROVE  run'[q].number \in 1 .. Len(history'[run'[q].job])
      BY DEF AttemptHasRow
    <2>1. CASE q = r
      BY <1>4, <1>7, <2>1
    <2>2. CASE q # r
      <3>1. pc[q] \in Live /\ run'[q] = run[q]
        BY <1>4, <2>2
      <3>2. /\ run[q].job \in Jobs
            /\ run[q].number \in 1 .. Len(history[run[q].job])
            /\ history[run[q].job] \in Seq(Outcome)
        BY <3>1, LiveRun
      <3>3. history'[run[q].job] \in Seq(Outcome)
        BY <1>2, <3>2
      <3> QED
        BY <1>7, <3>1, <3>2, <3>3
    <2> QED
      BY <2>1, <2>2
  <1> QED
    BY <1>7, <1>8, <1>9, <1>10 DEF RowsInv

LEMMA RowsHeartbeat ==
  ASSUME RowsInv, NEW r \in Runners, Heartbeat(r)
  PROVE  RowsInv'
  <1>1. TypeOK /\ pc[r] \in Live
    BY DEF RowsInv, Heartbeat, Live
  <1>2. run[r] \in Attempt /\ run[r].job \in Jobs
    BY <1>1, LiveRun
  <1>3. /\ NextBeat(r, 0) \in Attempt /\ run' = [run EXCEPT ![r] = NextBeat(r, 0)]
        /\ NextBeat(r, 0).job = run[r].job /\ NextBeat(r, 0).number = run[r].number
    BY <1>2, NextBeatType DEF Heartbeat
  <1>4. \A q \in Runners : pc[q] \in Live => /\ run'[q].job = run[q].job
                                          /\ run'[q].number = run[q].number
    BY <1>1, <1>3 DEF TypeOK
  <1>5. \A q \in Runners : pc[q] \in Live <=> run'[q] # None
    BY <1>1, <1>3, NoneAssumption DEF TypeOK
  <1>6. job' \in [Jobs -> JobTransition \cup {AbsentJob}]
    <2>1. CASE job[run[r].job].state = "running"
      <3>1. job[run[r].job] \in JobTransition
        BY <1>1, <1>2, <2>1, PresentRow
      <3>2. [job[run[r].job] EXCEPT !.lease_expires_at = LeaseTicks] \in JobTransition
        BY <3>1, RetriesAssumption DEF JobTransition, Timestamp
      <3>3. job' = [job EXCEPT ![run[r].job] =
                      [job[run[r].job] EXCEPT !.lease_expires_at = LeaseTicks]]
        BY <2>1 DEF Heartbeat, renew_lease
      <3> QED
        BY <1>1, <1>2, <3>2, <3>3 DEF TypeOK
    <2>2. CASE job[run[r].job].state # "running"
      BY <1>1, <2>2 DEF TypeOK, Heartbeat, renew_lease
    <2> QED
      BY <2>1, <2>2
  <1>7. \A k \in Jobs :
          /\ job'[k].state = job[k].state
          /\ job'[k].attempts = job[k].attempts
          /\ job'[k].lease_expires_at # None <=> job[k].lease_expires_at # None
    <2> SUFFICES ASSUME NEW k \in Jobs
                 PROVE  /\ job'[k].state = job[k].state
                        /\ job'[k].attempts = job[k].attempts
                        /\ job'[k].lease_expires_at # None <=> job[k].lease_expires_at # None
      OBVIOUS
    <2>1. CASE job'[k] = job[k]
      BY <2>1
    <2>2. CASE job'[k] # job[k]
      <3>1. k = run[r].job /\ job[k].state = "running"
        BY <1>1, <1>2, <2>2 DEF TypeOK, Heartbeat, renew_lease
      <3>2. job[k] \in JobTransition /\ job[k].lease_expires_at # None
        BY <1>1, <3>1, PresentRow DEF RowsInv, LeaseIffRunning
      <3>3. job'[k] = [job[k] EXCEPT !.lease_expires_at = LeaseTicks]
        BY <1>1, <3>1 DEF TypeOK, Heartbeat, renew_lease
      <3> QED
        BY <3>2, <3>3, RetriesAssumption DEF JobTransition
    <2> QED
      BY <2>1, <2>2
  <1>8. TypeOK'
    <2>1. run' \in [Runners -> Attempt \cup {None}]
      BY <1>1, <1>3 DEF TypeOK
    <2> QED
      BY <1>1, <1>5, <1>6, <2>1 DEF TypeOK, Heartbeat
  <1>9. AttemptHasRow'
    BY <1>4 DEF RowsInv, AttemptHasRow, Heartbeat
  <1>10. CommitFollowsOutput'
    <2>1. "committing" \in Live /\ UNCHANGED <<pc, output>>
      BY DEF Live, Closing, Heartbeat
    <2> QED
      BY <1>4, <2>1 DEF RowsInv, CommitFollowsOutput
  <1>11. TaskPerRow' /\ AttemptsHaveRows' /\ LeaseIffRunning' /\ CompletedWasRecorded'
    BY <1>7
    DEF RowsInv, TaskPerRow, AttemptsHaveRows, LeaseIffRunning, CompletedWasRecorded,
        Heartbeat
  <1> QED
    BY <1>8, <1>9, <1>10, <1>11 DEF RowsInv

LEMMA RowsMiss ==
  ASSUME RowsInv, NEW r \in Runners, Miss(r)
  PROVE  RowsInv'
  <1>1. TypeOK /\ pc[r] \in Live
    BY DEF RowsInv, Miss
  <1>2. run[r] \in Attempt
    BY <1>1, LiveRun
  <1> DEFINE carried == NextBeat(r, run[r].missed + 1)
  <1>3. /\ carried \in Attempt /\ run' = [run EXCEPT ![r] = carried]
        /\ carried.job = run[r].job /\ carried.number = run[r].number
    <2>1. run[r].missed + 1 \in Nat
      BY <1>2 DEF Attempt
    <2> QED
      BY <1>2, <2>1, NextBeatType DEF Miss
  <1> HIDE DEF carried
  <1>4. \A q \in Runners : pc[q] \in Live => /\ run'[q].job = run[q].job
                                          /\ run'[q].number = run[q].number
    BY <1>1, <1>3 DEF TypeOK
  <1>5. TypeOK'
    <2>1. run' \in [Runners -> Attempt \cup {None}]
      BY <1>1, <1>3 DEF TypeOK
    <2>2. \A q \in Runners : pc[q] \in Live <=> run'[q] # None
      BY <1>1, <1>3, NoneAssumption DEF TypeOK
    <2>3. faults' \in 0 .. MaxFaults
      BY <1>1, JobsAssumption DEF TypeOK, Miss, Fault
    <2> QED
      BY <1>1, <2>1, <2>2, <2>3 DEF TypeOK, Miss
  <1>6. CommitFollowsOutput'
    <2>1. "committing" \in Live /\ UNCHANGED <<pc, output>>
      BY DEF Live, Closing, Miss
    <2> QED
      BY <1>4, <2>1 DEF RowsInv, CommitFollowsOutput
  <1>7. UNCHANGED <<job, history, output, pc>>
    BY DEF Miss
  <1> QED
    BY <1>4, <1>5, <1>6, <1>7, RowsNeutral

LEMMA RowsGraphEnds ==
  ASSUME RowsInv, NEW r \in Runners, GraphEnds(r)
  PROVE  RowsInv'
  <1>1. TypeOK /\ r \in Runners /\ pc[r] = "running"
    BY DEF RowsInv, GraphEnds
  <1>2. PICK next \in {"recording"} \cup ErrorClass : pc' = [pc EXCEPT ![r] = next]
    BY DEF GraphEnds
  <1>3. /\ next \in Live /\ next \in Place /\ next # "committing" /\ next # "unsubmitted"
        /\ pc[r] \in Live /\ pc[r] # "unsubmitted"
    BY <1>1 DEF Live, Closing, Renewing, Place, ErrorClass
  <1>4. pc'[r] = next /\ \A q \in Runners : q # r => pc'[q] = pc[q]
    BY <1>1, <1>2 DEF TypeOK
  <1>5. TypeOK'
    BY <1>1, <1>2, <1>3, <1>4 DEF TypeOK, GraphEnds
  <1>6. CommitFollowsOutput'
    BY <1>3, <1>4 DEF RowsInv, CommitFollowsOutput, GraphEnds
  <1> QED
    BY <1>3, <1>4, <1>5, <1>6, RowsNeutral DEF GraphEnds, Runners

LEMMA RowsRecordOutput ==
  ASSUME RowsInv, NEW r \in Runners, RecordOutput(r)
  PROVE  RowsInv'
  <1>1. TypeOK /\ pc[r] = "recording"
    BY DEF RowsInv, RecordOutput
  <1>2. /\ pc[r] \in Live /\ "committing" \in Live /\ "committing" \in Place
    BY <1>1 DEF Live, Closing, Place
  <1>3. run[r].job \in Jobs
    BY <1>2, LiveRun
  <1>4. pc'[r] = "committing" /\ \A q \in Runners : q # r => pc'[q] = pc[q]
    BY <1>1 DEF TypeOK, RecordOutput
  <1>5. TypeOK'
    BY <1>1, <1>2, <1>3, <1>4 DEF TypeOK, RecordOutput
  <1>6. CommitFollowsOutput'
    BY <1>4 DEF RowsInv, CommitFollowsOutput, RecordOutput
  <1> QED
    BY <1>1, <1>2, <1>4, <1>5, <1>6, RowsNeutral DEF RecordOutput, Runners

\* What leaving execute_job does to the runners.
LEMMA LeaveType ==
  ASSUME TypeOK, NEW r \in Runners, pc[r] \in Live, Leave(r)
  PROVE  /\ pc' \in [Runners -> Place]
         /\ run' \in [Runners -> Attempt \cup {None}]
         /\ pc'[r] \notin Live
         /\ \A q \in Runners : q # r => pc'[q] = pc[q] /\ run'[q] = run[q]
         /\ \A q \in Runners : pc'[q] \in Live <=> run'[q] # None
         /\ \A k \in Jobs : pc'[k] = "unsubmitted" <=> pc[k] = "unsubmitted"
  <1>1. Rest(r) \in Place /\ Rest(r) \notin Live /\ Rest(r) # "unsubmitted"
    BY DEF Rest, Place, Live, Renewing, Closing, ErrorClass
  <1>2. pc[r] # "unsubmitted"
    BY DEF Live, Renewing, Closing, ErrorClass
  <1>3. /\ pc'[r] = Rest(r) /\ run'[r] = None
        /\ \A q \in Runners : q # r => pc'[q] = pc[q] /\ run'[q] = run[q]
    BY DEF TypeOK, Leave
  <1>4. pc' \in [Runners -> Place] /\ run' \in [Runners -> Attempt \cup {None}]
    BY <1>1 DEF TypeOK, Leave
  <1> QED
    BY <1>1, <1>2, <1>3, <1>4 DEF TypeOK, Runners

LEMMA RowsCloseLost ==
  ASSUME RowsInv, NEW r \in Runners, CloseLost(r)
  PROVE  RowsInv'
  <1>1. TypeOK /\ pc[r] \in Live /\ Leave(r)
    BY DEF RowsInv, CloseLost, Live
  <1>2. /\ pc' \in [Runners -> Place]
        /\ run' \in [Runners -> Attempt \cup {None}]
        /\ pc'[r] \notin Live
        /\ \A q \in Runners : q # r => pc'[q] = pc[q] /\ run'[q] = run[q]
        /\ \A q \in Runners : pc'[q] \in Live <=> run'[q] # None
        /\ \A k \in Jobs : pc'[k] = "unsubmitted" <=> pc[k] = "unsubmitted"
    BY <1>1, LeaveType
  <1>3. faults' \in 0 .. MaxFaults
    BY <1>1, JobsAssumption DEF TypeOK, CloseLost, Fault
  <1>4. TypeOK'
    BY <1>1, <1>2, <1>3 DEF TypeOK, CloseLost
  <1>5. CommitFollowsOutput'
    BY <1>2 DEF RowsInv, CommitFollowsOutput, CloseLost, Live, Closing
  <1> QED
    BY <1>2, <1>4, <1>5, RowsNeutral DEF CloseLost

\* Both ways to conclude an attempt write a row without a lease, of an
\* attempt number that has a row, and "completed" only with the output there.
LEMMA RowsConclude ==
  ASSUME RowsInv, NEW r \in Runners, pc[r] \in Live,
         NEW t \in JobTransition, Conclude(r, t),
         t.state \in Outcome, t.state # "running", t.lease_expires_at = None,
         t.attempts = run[r].number,
         t.state = "completed" => run[r].job \in output
  PROVE  RowsInv'
  <1> DEFINE j == run[r].job
             n == run[r].number
  <1>1. TypeOK /\ Leave(r) /\ output' = output
    BY DEF RowsInv, Conclude
  <1>2. /\ j \in Jobs /\ n \in Nat \ {0}
        /\ n \in 1 .. Len(history[j]) /\ history[j] \in Seq(Outcome)
    BY LiveRun
  <1>3. /\ pc' \in [Runners -> Place]
        /\ run' \in [Runners -> Attempt \cup {None}]
        /\ pc'[r] \notin Live
        /\ \A q \in Runners : q # r => pc'[q] = pc[q] /\ run'[q] = run[q]
        /\ \A q \in Runners : pc'[q] \in Live <=> run'[q] # None
        /\ \A k \in Jobs : pc'[k] = "unsubmitted" <=> pc[k] = "unsubmitted"
    BY <1>1, LeaveType
  <1> DEFINE finished == [history[j] EXCEPT ![n] = t.state]
  <1>4. finished \in Seq(Outcome) /\ Len(finished) = Len(history[j])
    BY <1>2, ExceptSeq
  <1>5. job' = [job EXCEPT ![j] = t] /\ history' = [history EXCEPT ![j] = finished]
    BY DEF Conclude, apply_transition, finish_attempt
  <1> HIDE DEF j, n, finished
  <1>6. /\ job'[j] = t /\ history'[j] = finished
        /\ \A k \in Jobs : k # j => job'[k] = job[k] /\ history'[k] = history[k]
    BY <1>1, <1>2, <1>5 DEF TypeOK
  <1>7. TypeOK'
    BY <1>1, <1>2, <1>3, <1>4, <1>5 DEF TypeOK, Conclude
  <1>8. \A k \in Jobs : Len(history'[k]) = Len(history[k])
    BY <1>4, <1>6
  <1>9. job[j].state # "absent"
    BY <1>2 DEF RowsInv, TaskPerRow
  <1>10. TaskPerRow' /\ LeaseIffRunning'
    <2>1. \A k \in Jobs : job'[k].state = "absent" <=> job[k].state = "absent"
      <3>1. job'[j].state # "absent"
        BY <1>6 DEF Outcome, Open
      <3>2. SUFFICES ASSUME NEW k \in Jobs
                     PROVE  job'[k].state = "absent" <=> job[k].state = "absent"
        OBVIOUS
      <3>3. CASE k = j
        BY <1>9, <3>1, <3>3
      <3>4. CASE k # j
        BY <1>6, <3>4
      <3> QED
        BY <3>3, <3>4
    <2>2. TaskPerRow'
      BY <1>3, <1>8, <2>1 DEF RowsInv, TaskPerRow
    <2>3. LeaseIffRunning'
      BY <1>6 DEF RowsInv, LeaseIffRunning
    <2> QED
      BY <2>2, <2>3
  <1>11. AttemptsHaveRows'
    <2> SUFFICES ASSUME NEW k \in Jobs PROVE job'[k].attempts <= Len(history'[k])
      BY DEF AttemptsHaveRows
    <2>1. CASE k = j
      BY <1>2, <1>6, <1>8, <2>1 DEF n
    <2>2. CASE k # j
      BY <1>6, <2>2 DEF RowsInv, AttemptsHaveRows
    <2> QED
      BY <2>1, <2>2
  <1>12. CompletedWasRecorded'
    BY <1>1, <1>6 DEF RowsInv, CompletedWasRecorded, j
  <1>13. \A q \in Runners : pc'[q] \in Live => pc[q] \in Live /\ pc'[q] = pc[q] /\ run'[q] = run[q]
    BY <1>3
  <1>14. AttemptHasRow'
    <2> SUFFICES ASSUME NEW q \in Runners, pc'[q] \in Live
                 PROVE  run'[q].number \in 1 .. Len(history'[run'[q].job])
      BY DEF AttemptHasRow
    <2>1. pc[q] \in Live /\ run'[q] = run[q]
      BY <1>13
    <2>2. run[q].job \in Jobs /\ run[q].number \in 1 .. Len(history[run[q].job])
      BY <2>1, LiveRun
    <2> QED
      BY <1>8, <2>1, <2>2
  <1>15. CommitFollowsOutput'
    BY <1>1, <1>13 DEF RowsInv, CommitFollowsOutput, Live, Closing
  <1> QED
    BY <1>7, <1>10, <1>11, <1>12, <1>14, <1>15 DEF RowsInv

\* The two transitions a runner can conclude its attempt with.
LEMMA Transitions ==
  ASSUME NEW n \in Nat \ {0}, NEW t,
         t = succeed(n) \/ \E c \in ErrorClass : t = fail(n, c)
  PROVE  /\ t \in JobTransition
         /\ t.attempts = n
         /\ t.lease_expires_at = None
         /\ t.state \in {"completed", "failed_review", "retry_wait"}
         /\ t.state = "completed" => t = succeed(n)
         /\ t.state = "retry_wait" <=> t.next_attempt_at # None
         /\ t.state = "retry_wait" => n < MaxAttempts
  <1>1. CASE t = succeed(n)
    BY <1>1 DEF succeed, JobTransition, JobState, Timestamp
  <1>2. CASE \E c \in ErrorClass : t = fail(n, c)
    <2>1. PICK c \in ErrorClass : t = fail(n, c)
      BY <1>2
    <2> QED
      BY <2>1, FailType, RetriesAssumption
  <1> QED
    BY <1>1, <1>2

\* A runner that concludes its attempt does so with one of them.
LEMMA Concluding ==
  ASSUME RowsInv, NEW r \in Runners, Succeed(r) \/ RecordFailure(r)
  PROVE  \E t \in JobTransition :
           /\ pc[r] \in Live
           /\ Conclude(r, t)
           /\ t = succeed(run[r].number) \/ \E c \in ErrorClass : t = fail(run[r].number, c)
           /\ t.state = "completed" => pc[r] = "committing"
  <1>1. pc[r] \in Live
    BY DEF Succeed, RecordFailure, Live, Closing
  <1>2. run[r].number \in Nat \ {0}
    BY <1>1, LiveRun
  <1>3. CASE Succeed(r)
    BY <1>1, <1>2, <1>3, Transitions DEF Succeed
  <1>4. CASE RecordFailure(r)
    <2>1. fail(run[r].number, pc[r]) \in JobTransition
      BY <1>2, <1>4, FailType DEF RecordFailure
    <2>2. fail(run[r].number, pc[r]).state # "completed"
      BY <1>2, <1>4, FailType DEF RecordFailure
    <2> QED
      BY <1>1, <1>4, <2>1, <2>2 DEF RecordFailure
  <1> QED
    BY <1>3, <1>4

LEMMA RowsConcluded ==
  ASSUME RowsInv, NEW r \in Runners, Succeed(r) \/ RecordFailure(r)
  PROVE  RowsInv'
  <1>1. PICK t \in JobTransition :
           /\ pc[r] \in Live
           /\ Conclude(r, t)
           /\ t = succeed(run[r].number) \/ \E c \in ErrorClass : t = fail(run[r].number, c)
           /\ t.state = "completed" => pc[r] = "committing"
    BY Concluding
  <1>2. run[r].number \in Nat \ {0}
    BY <1>1, LiveRun
  <1>3. /\ t.attempts = run[r].number
        /\ t.lease_expires_at = None
        /\ t.state \in {"completed", "failed_review", "retry_wait"}
    BY <1>1, <1>2, Transitions
  <1>4. t.state \in Outcome /\ t.state # "running"
    BY <1>3 DEF Outcome
  <1>5. t.state = "completed" => run[r].job \in output
    BY <1>1 DEF RowsInv, CommitFollowsOutput
  <1> QED
    BY <1>1, <1>3, <1>4, <1>5, RowsConclude

\* What a reclaimed row is.
LEMMA ReclaimedRow ==
  ASSUME TypeOK, NEW j \in Jobs, j \in First(Stale, Batch)
  PROVE  /\ job[j].state = "running"
         /\ job[j] \in JobTransition
         /\ is_lease_expired(job[j].lease_expires_at)
         /\ Reclaimed(job[j]) \in JobTransition
         /\ Reclaimed(job[j]).state = "retry_wait"
         /\ Reclaimed(job[j]).attempts = job[j].attempts
         /\ Reclaimed(job[j]).lease_expires_at = None
         /\ Reclaimed(job[j]).next_attempt_at = 0
  <1>1. j \in Stale
    BY FirstSubset
  <1>2. job[j].state = "running" /\ is_lease_expired(job[j].lease_expires_at)
    BY <1>1 DEF Stale
  <1>3. job[j] \in JobTransition
    BY <1>2, PresentRow
  <1> QED
    BY <1>2, <1>3 DEF Reclaimed, JobTransition, JobState, Timestamp

\* What a sweep writes, row by row.
LEMMA ReclaimRows ==
  ASSUME TypeOK, NEW s \in Sweepers, ReclaimExpired(s)
  PROVE  \A j \in Jobs :
           \/ job'[j] = job[j]
           \/ /\ job'[j] = Reclaimed(job[j])
              /\ j \in First(Stale, Batch)
  BY DEF TypeOK, ReclaimExpired

\* A sweeper's own steps move it among places outside execute_job.
LEMMA PassPlaces ==
  ASSUME TypeOK, NEW s \in Sweepers, NEW p \in {"asleep", "reclaimed", "draining"},
         pc[s] \in {"asleep", "reclaimed", "draining"},
         pc' = [pc EXCEPT ![s] = p], run' = run
  PROVE  /\ pc' \in [Runners -> Place]
         /\ \A q \in Runners : pc'[q] \in Live <=> pc[q] \in Live
         /\ \A q \in Runners : pc'[q] \in Live => pc'[q] = pc[q]
         /\ \A q \in Runners : pc'[q] \in Live <=> run'[q] # None
         /\ \A k \in Jobs : pc'[k] = "unsubmitted" <=> pc[k] = "unsubmitted"
  <1>1. s \in Runners /\ s \notin Jobs
    BY JobsAssumption DEF Runners
  <1>2. p \in Place /\ p \notin Live /\ pc[s] \notin Live
    BY DEF Place, Live, Renewing, Closing, ErrorClass
  <1>3. pc'[s] = p /\ \A q \in Runners : q # s => pc'[q] = pc[q]
    BY <1>1 DEF TypeOK
  <1>4. \A q \in Runners : pc'[q] \in Live <=> pc[q] \in Live
    BY <1>2, <1>3
  <1> QED
    BY <1>1, <1>2, <1>3, <1>4 DEF TypeOK, Runners

LEMMA RowsReclaim ==
  ASSUME RowsInv, NEW s \in Sweepers, ReclaimExpired(s)
  PROVE  RowsInv'
  <1>1. TypeOK
    BY DEF RowsInv
  <1>2. \A j \in Jobs :
          \/ job'[j] = job[j]
          \/ /\ job'[j] = Reclaimed(job[j])
             /\ j \in First(Stale, Batch)
    BY <1>1, ReclaimRows
  <1>3. /\ pc' \in [Runners -> Place]
        /\ \A q \in Runners : pc'[q] \in Live => pc'[q] = pc[q]
        /\ \A q \in Runners : pc'[q] \in Live <=> run'[q] # None
        /\ \A k \in Jobs : pc'[k] = "unsubmitted" <=> pc[k] = "unsubmitted"
    BY <1>1, PassPlaces DEF ReclaimExpired
  <1>4. \A j \in Jobs :
          /\ job'[j] \in JobTransition \cup {AbsentJob}
          /\ job'[j].attempts = job[j].attempts
          /\ job'[j].state = "absent" <=> job[j].state = "absent"
          /\ job'[j].state = "running" <=> job'[j].lease_expires_at # None
          /\ job'[j].state = "completed" => job[j].state = "completed"
    <2> SUFFICES ASSUME NEW j \in Jobs
                 PROVE  /\ job'[j] \in JobTransition \cup {AbsentJob}
                        /\ job'[j].attempts = job[j].attempts
                        /\ job'[j].state = "absent" <=> job[j].state = "absent"
                        /\ job'[j].state = "running" <=> job'[j].lease_expires_at # None
                        /\ job'[j].state = "completed" => job[j].state = "completed"
      OBVIOUS
    <2>1. CASE job'[j] = job[j]
      BY <1>1, <2>1 DEF RowsInv, TypeOK, LeaseIffRunning
    <2>2. CASE job'[j] = Reclaimed(job[j]) /\ j \in First(Stale, Batch)
      BY <1>1, <2>2, ReclaimedRow
    <2> QED
      BY <1>2, <2>1, <2>2
  <1>5. TypeOK'
    <2>1. job' \in [Jobs -> JobTransition \cup {AbsentJob}]
      BY <1>4 DEF ReclaimExpired
    <2> QED
      BY <1>1, <1>3, <2>1 DEF TypeOK, ReclaimExpired
  <1>6. TaskPerRow' /\ AttemptsHaveRows' /\ LeaseIffRunning' /\ CompletedWasRecorded'
    BY <1>3, <1>4
    DEF RowsInv, TaskPerRow, AttemptsHaveRows, LeaseIffRunning, CompletedWasRecorded,
        ReclaimExpired
  <1>7. AttemptHasRow' /\ CommitFollowsOutput'
    BY <1>3 DEF RowsInv, AttemptHasRow, CommitFollowsOutput, ReclaimExpired, Live, Closing
  <1> QED
    BY <1>5, <1>6, <1>7 DEF RowsInv

LEMMA RowsPass ==
  ASSUME RowsInv, NEW s \in Sweepers, SelectDue(s) \/ EndPass(s) \/ PassLost(s)
  PROVE  RowsInv'
  <1>1. TypeOK
    BY DEF RowsInv
  <1>2. /\ pc' \in [Runners -> Place]
        /\ \A q \in Runners : pc'[q] \in Live <=> pc[q] \in Live
        /\ \A q \in Runners : pc'[q] \in Live => pc'[q] = pc[q]
        /\ \A q \in Runners : pc'[q] \in Live <=> run'[q] # None
        /\ \A k \in Jobs : pc'[k] = "unsubmitted" <=> pc[k] = "unsubmitted"
    BY <1>1, PassPlaces DEF SelectDue, EndPass, PassLost
  <1>3. UNCHANGED <<job, history, output, run>>
    BY DEF SelectDue, EndPass, PassLost
  <1>4. queue' \in [Runners -> SUBSET Jobs]
    <2>1. CASE SelectDue(s)
      <3>1. First(Due, Batch) \subseteq Jobs
        BY DEF First, Due
      <3> QED
        BY <1>1, <2>1, <3>1 DEF TypeOK, SelectDue
    <2>2. CASE EndPass(s) \/ PassLost(s)
      BY <1>1, <2>2 DEF TypeOK, EndPass, PassLost
    <2> QED
      BY <2>1, <2>2
  <1>5. faults' \in 0 .. MaxFaults
    BY <1>1, JobsAssumption DEF TypeOK, SelectDue, EndPass, PassLost, Fault
  <1>6. TypeOK'
    BY <1>1, <1>2, <1>3, <1>4, <1>5 DEF TypeOK
  <1>7. CommitFollowsOutput'
    BY <1>2, <1>3 DEF RowsInv, CommitFollowsOutput, Live, Closing
  <1> QED
    BY <1>2, <1>3, <1>6, <1>7, RowsNeutral

LEMMA RowsTick ==
  ASSUME RowsInv, Tick
  PROVE  RowsInv'
  <1>1. TypeOK
    BY DEF RowsInv
  <1>2. \A j \in Jobs : job'[j] = Later(job[j])
    BY DEF Tick
  <1>3. job' \in [Jobs -> JobTransition \cup {AbsentJob}]
    <2>1. \A j \in Jobs : job[j] \in JobTransition \cup {AbsentJob}
      BY <1>1 DEF TypeOK
    <2>2. \A j \in Jobs : job'[j] \in JobTransition \cup {AbsentJob}
      BY <1>2, <2>1, TickRow
    <2> QED
      BY <2>2 DEF Tick
  <1>4. \A j \in Jobs :
          /\ job'[j].state = job[j].state
          /\ job'[j].attempts = job[j].attempts
          /\ job'[j].lease_expires_at # None <=> job[j].lease_expires_at # None
    <2> SUFFICES ASSUME NEW j \in Jobs
                 PROVE  /\ job'[j].state = job[j].state
                        /\ job'[j].attempts = job[j].attempts
                        /\ job'[j].lease_expires_at # None <=> job[j].lease_expires_at # None
      OBVIOUS
    <2>1. job[j] \in JobTransition \cup {AbsentJob}
      BY <1>1 DEF TypeOK
    <2> QED
      BY <1>2, <2>1, TickFields
  <1>5. \A q \in Runners :
          /\ pc[q] \in Live => /\ run'[q] \in Attempt
                              /\ run'[q].job = run[q].job
                              /\ run'[q].number = run[q].number
          /\ pc[q] \notin Live => run'[q] = None
    <2> SUFFICES ASSUME NEW q \in Runners, pc[q] \in Live
                 PROVE  /\ run'[q] \in Attempt
                        /\ run'[q].job = run[q].job
                        /\ run'[q].number = run[q].number
      BY <1>1 DEF Tick, TypeOK
    <2>1. run[q] \in Attempt /\ run[q].beat > 0
      BY LiveRun DEF Tick
    <2>2. run'[q] = [run[q] EXCEPT !.beat = @ - 1]
      BY DEF Tick
    <2> QED
      BY <2>1, <2>2 DEF Attempt
  <1>6. TypeOK'
    <2>1. run' \in [Runners -> Attempt \cup {None}]
      BY <1>5 DEF Tick
    <2>2. \A q \in Runners : pc[q] \in Live <=> run'[q] # None
      BY <1>5, NoneAssumption
    <2> QED
      BY <1>1, <1>3, <2>1, <2>2 DEF TypeOK, Tick
  <1>7. UNCHANGED <<history, output, pc>>
    BY DEF Tick
  <1>8. TaskPerRow' /\ AttemptsHaveRows' /\ LeaseIffRunning' /\ CompletedWasRecorded'
    BY <1>4, <1>7
    DEF RowsInv, TaskPerRow, AttemptsHaveRows, LeaseIffRunning, CompletedWasRecorded
  <1>9. AttemptHasRow' /\ CommitFollowsOutput'
    BY <1>5, <1>7 DEF RowsInv, AttemptHasRow, CommitFollowsOutput, Live, Closing
  <1> QED
    BY <1>6, <1>8, <1>9 DEF RowsInv

LEMMA RowsCrash ==
  ASSUME RowsInv, Crash
  PROVE  RowsInv'
  <1>1. TypeOK
    BY DEF RowsInv
  <1>2. \A q \in Runners : pc'[q] \in {"asleep", "unsubmitted", "done"}
    BY DEF Crash
  <1>3. \A q \in Runners : /\ pc'[q] \notin Live /\ pc'[q] # "committing"
                          /\ run'[q] = None /\ pc'[q] \in Place
    BY <1>2 DEF Crash, Live, Renewing, Closing, ErrorClass, Place
  <1>4. \A k \in Jobs : pc'[k] = "unsubmitted" <=> pc[k] = "unsubmitted"
    BY JobsAssumption DEF Crash, Runners
  <1>5. faults' \in 0 .. MaxFaults
    BY <1>1, JobsAssumption DEF TypeOK, Crash, Fault
  <1>6. /\ run' \in [Runners -> Attempt \cup {None}]
        /\ pc' \in [Runners -> Place]
        /\ queue' \in [Runners -> SUBSET Jobs]
    BY <1>3 DEF Crash
  <1>7. TypeOK'
    BY <1>1, <1>3, <1>5, <1>6 DEF TypeOK, Crash
  <1>8. CommitFollowsOutput'
    BY <1>3 DEF CommitFollowsOutput
  <1> QED
    BY <1>3, <1>4, <1>7, <1>8, RowsNeutral DEF Crash

LEMMA RowsStep ==
  ASSUME RowsInv, [Next]_vars
  PROVE  RowsInv'
  <1>1. ASSUME NEW j \in Jobs, Submit(j) PROVE RowsInv'
    BY <1>1, RowsSubmit
  <1>2. ASSUME NEW r \in Runners, NEW j \in Jobs, ClaimJob(r, j) PROVE RowsInv'
    BY <1>2, RowsClaimJob
  <1>3. ASSUME NEW r \in Runners, NEW j \in Jobs,
               ClaimRefused(r, j) \/ ClaimCollides(r, j)
        PROVE  RowsInv'
    <2>1. /\ GiveUp(r, j)
          /\ UNCHANGED <<job, history>>
          /\ faults' = faults
      BY <1>3 DEF ClaimRefused, ClaimCollides
    <2>2. faults' \in 0 .. MaxFaults
      BY <2>1 DEF RowsInv, TypeOK
    <2> QED
      BY <2>1, <2>2, RowsGiveUp
  <1>4. ASSUME NEW r \in Runners, NEW j \in Jobs, ClaimLost(r, j) PROVE RowsInv'
    <2>1. faults' \in 0 .. MaxFaults
      BY <1>4, JobsAssumption DEF ClaimLost, Fault, RowsInv, TypeOK
    <2> QED
      BY <1>4, <2>1, RowsGiveUp, RowsClaimLost DEF ClaimLost
  <1>5. ASSUME NEW r \in Runners,
               GraphEnds(r) \/ RecordOutput(r) \/ Succeed(r) \/ RecordFailure(r)
        PROVE  RowsInv'
    BY <1>5, RowsGraphEnds, RowsRecordOutput, RowsConcluded
  <1>6. ASSUME NEW r \in Runners, Heartbeat(r) \/ Miss(r) \/ CloseLost(r) PROVE RowsInv'
    BY <1>6, RowsHeartbeat, RowsMiss, RowsCloseLost
  <1>7. ASSUME NEW s \in Sweepers,
               ReclaimExpired(s) \/ SelectDue(s) \/ EndPass(s) \/ PassLost(s)
        PROVE  RowsInv'
    BY <1>7, RowsReclaim, RowsPass
  <1>8. CASE Tick \/ Crash
    BY <1>8, RowsTick, RowsCrash
  <1>9. CASE UNCHANGED vars
    BY <1>9
    DEF vars, RowsInv, TypeOK, TaskPerRow, AttemptHasRow, AttemptsHaveRows,
        LeaseIffRunning, CompletedWasRecorded, CommitFollowsOutput
  <1> QED
    BY <1>1, <1>2, <1>3, <1>4, <1>5, <1>6, <1>7, <1>8, <1>9
    DEF Next, Advance, AdvancePass, Faulty

\* The rows stay well formed and consistent with each other (RowsInv), however
\* many renewals are missed.
THEOREM RowsInvariant == Spec => []RowsInv
  <1>1. Init => RowsInv
    BY RowsInit
  <1>2. RowsInv /\ [Next]_vars => RowsInv'
    BY RowsStep
  <1> QED
    BY <1>1, <1>2, PTL DEF Spec

\* Type correctness of the job runtime.
THEOREM TypeCorrect == Spec => []TypeOK
  <1>1. RowsInv => TypeOK
    BY DEF RowsInv
  <1> QED
    BY <1>1, RowsInvariant, PTL

\* A row has a lease exactly while it is running.
THEOREM LeaseWhileRunning == Spec => []LeaseIffRunning
  <1>1. RowsInv => LeaseIffRunning
    BY DEF RowsInv
  <1> QED
    BY <1>1, RowsInvariant, PTL

\* A completed job has its output row.
THEOREM CompletedHasOutput == Spec => []CompletedWasRecorded
  <1>1. RowsInv => CompletedWasRecorded
    BY DEF RowsInv
  <1> QED
    BY <1>1, RowsInvariant, PTL

\* Every attempt number a job can be at has its row.
THEOREM AttemptNumbersHaveRows == Spec => []AttemptsHaveRows
  <1>1. RowsInv => AttemptsHaveRows
    BY DEF RowsInv
  <1> QED
    BY <1>1, RowsInvariant, PTL

-----------------------------------------------------------------------------
(* The outcome of an attempt is written once, however late its worker is:  *)
(* no margin of the heartbeat is assumed.                                  *)

\* A live runner's attempt has no outcome yet, and no other runner has it.
OwnAttempt ==
  /\ \A r \in Runners : pc[r] \in Live => history[run[r].job][run[r].number] = Open
  /\ \A r, q \in Runners :
       /\ pc[r] \in Live
       /\ pc[q] \in Live
       /\ run[r].job = run[q].job
       /\ run[r].number = run[q].number
       => r = q

\* What a step does to outcomes already written.
Kept ==
  \A j \in Jobs : \A n \in DOMAIN history[j] :
    history[j][n] # Open => history'[j][n] = history[j][n]

LEMMA OwnInit == Init => OwnAttempt
  BY DEF Init, OwnAttempt, Live, Renewing, Closing, ErrorClass

\* A claim adds a row behind all others.
LEMMA TakeAppends ==
  ASSUME RowsInv, NEW j \in Jobs, TakeRow(j)
  PROVE  /\ claim(job[j].attempts).attempts = Len(history[j]) + 1
         /\ Len(history[j]) \in Nat
         /\ history'[j][Len(history[j]) + 1] = Open
         /\ \A k \in Jobs : \A n \in 1 .. Len(history[k]) :
              history'[k][n] = history[k][n]
         /\ Kept
  <1>1. /\ history \in [Jobs -> Seq(Outcome)]
        /\ history' = [history EXCEPT ![j] = Append(history[j], Open)]
        /\ job[j].attempts \in Nat
    BY TakeRowType DEF RowsInv, TypeOK, JobTransition
  <1>2. job[j].attempts <= Len(history[j]) /\ Len(history[j]) \in Nat
    BY <1>1 DEF RowsInv, AttemptsHaveRows
  <1>3. job[j].attempts + 1 \notin 1 .. Len(history[j])
    BY <1>1 DEF TakeRow, NumberTaken, claim
  <1>4. claim(job[j].attempts).attempts = Len(history[j]) + 1
    BY <1>1, <1>2, <1>3 DEF claim
  <1>5. /\ history'[j][Len(history[j]) + 1] = Open
        /\ \A n \in 1 .. Len(history[j]) : history'[j][n] = history[j][n]
        /\ \A k \in Jobs : k # j => history'[k] = history[k]
    BY <1>1, <1>2 DEF Outcome, Open
  <1>6. \A k \in Jobs : DOMAIN history[k] = 1 .. Len(history[k])
    BY <1>1
  <1> QED
    BY <1>2, <1>4, <1>5, <1>6 DEF Kept

LEMMA OwnNeutral ==
  ASSUME OwnAttempt, history' = history,
         \A r \in Runners : pc'[r] \in Live =>
           /\ pc[r] \in Live
           /\ run'[r].job = run[r].job
           /\ run'[r].number = run[r].number
  PROVE  OwnAttempt' /\ Kept
  BY DEF OwnAttempt, Kept

LEMMA OwnClaimJob ==
  ASSUME RowsInv, OwnAttempt, NEW r \in Runners, NEW j \in Jobs, ClaimJob(r, j)
  PROVE  OwnAttempt' /\ Kept
  <1>1. /\ TakeRow(j)
        /\ run'[r].job = j
        /\ run'[r].number = claim(job[j].attempts).attempts
        /\ \A q \in Runners : q # r => pc'[q] = pc[q] /\ run'[q] = run[q]
    BY DEF ClaimJob, RowsInv, TypeOK
  <1>2. \A q \in Runners : pc[q] \in Live =>
          /\ run[q].job \in Jobs
          /\ run[q].number \in 1 .. Len(history[run[q].job])
    BY LiveRun
  <1>3. /\ run'[r].number = Len(history[j]) + 1
        /\ Len(history[j]) \in Nat
        /\ history'[j][Len(history[j]) + 1] = Open
        /\ \A k \in Jobs : \A n \in 1 .. Len(history[k]) :
             history'[k][n] = history[k][n]
        /\ Kept
    BY <1>1, TakeAppends
  <1>4. \A q \in Runners : pc'[q] \in Live =>
          history'[run'[q].job][run'[q].number] = Open
    BY <1>1, <1>2, <1>3 DEF OwnAttempt
  <1>5. \A q \in Runners : q # r /\ pc[q] \in Live =>
          run[q].job # j \/ run[q].number # Len(history[j]) + 1
    BY <1>2, <1>3
  <1> QED
    BY <1>1, <1>3, <1>4, <1>5 DEF OwnAttempt

LEMMA OwnClaimLost ==
  ASSUME RowsInv, OwnAttempt, NEW r \in Runners, NEW j \in Jobs,
         ClaimLost(r, j), TakeRow(j)
  PROVE  OwnAttempt' /\ Kept
  <1>1. /\ run' = run
        /\ \A q \in Runners : pc'[q] \in Live => pc[q] \in Live
    BY EnteringPlaces DEF ClaimLost, GiveUp, RowsInv, TypeOK
  <1>2. \A q \in Runners : pc[q] \in Live =>
          /\ run[q].job \in Jobs
          /\ run[q].number \in 1 .. Len(history[run[q].job])
    BY LiveRun
  <1>3. /\ \A k \in Jobs : \A n \in 1 .. Len(history[k]) :
             history'[k][n] = history[k][n]
        /\ Kept
    BY TakeAppends
  <1> QED
    BY <1>1, <1>2, <1>3 DEF OwnAttempt

\* A runner that ends its attempt writes the outcome of that attempt only.
LEMMA OwnConcluded ==
  ASSUME RowsInv, OwnAttempt, NEW r \in Runners, Succeed(r) \/ RecordFailure(r)
  PROVE  OwnAttempt' /\ Kept
  <1>1. PICK t \in JobTransition : pc[r] \in Live /\ Conclude(r, t)
    BY Concluding
  <1>2. PICK j \in Jobs, n \in Nat \ {0} : j = run[r].job /\ n = run[r].number
    BY <1>1, LiveRun
  <1>3. /\ TypeOK
        /\ history' = [history EXCEPT ![j][n] = t.state]
        /\ Leave(r)
    BY <1>1, <1>2 DEF RowsInv, Conclude, finish_attempt
  <1>4. /\ pc'[r] \notin Live
        /\ \A q \in Runners : q # r => pc'[q] = pc[q] /\ run'[q] = run[q]
    BY <1>1, <1>3, LeaveType
  <1>5. /\ \A k \in Jobs : k # j => history'[k] = history[k]
        /\ \A i \in DOMAIN history[j] : i # n => history'[j][i] = history[j][i]
    BY <1>3 DEF TypeOK
  <1>6. history[j][n] = Open
    BY <1>1, <1>2 DEF OwnAttempt
  <1>7. \A q \in Runners : pc[q] \in Live => run[q].number \in DOMAIN history[run[q].job]
    BY <1>3, LiveRun DEF TypeOK
  <1>8. Kept
    BY <1>5, <1>6 DEF Kept
  <1>9. \A q \in Runners : pc'[q] \in Live =>
          history'[run'[q].job][run'[q].number] = Open
    <2> SUFFICES ASSUME NEW q \in Runners, pc'[q] \in Live
                 PROVE  history'[run[q].job][run[q].number] = Open
      BY <1>4
    <2>1. q # r /\ pc[q] \in Live
      BY <1>4
    <2>2. run[q].job # j \/ run[q].number # n
      BY <1>1, <1>2, <2>1 DEF OwnAttempt
    <2>3. history[run[q].job][run[q].number] = Open
      BY <2>1 DEF OwnAttempt
    <2>4. run[q].job \in Jobs
      BY <2>1, LiveRun
    <2> QED
      BY <1>5, <1>7, <2>1, <2>2, <2>3, <2>4
  <1> QED
    BY <1>4, <1>8, <1>9 DEF OwnAttempt

LEMMA OwnStep ==
  ASSUME RowsInv, OwnAttempt, [Next]_vars
  PROVE  OwnAttempt' /\ Kept
  <1>0. TypeOK
    BY DEF RowsInv
  <1>1. ASSUME NEW j \in Jobs, Submit(j) PROVE OwnAttempt' /\ Kept
    <2>1. pc' = [pc EXCEPT ![j] = "spawned"] /\ run' = run /\ history' = history
      BY <1>1 DEF Submit
    <2> QED
      BY <1>0, <2>1, OwnNeutral DEF TypeOK, Live, Renewing, Closing, ErrorClass
  <1>2. ASSUME NEW r \in Runners, NEW j \in Jobs, ClaimJob(r, j) PROVE OwnAttempt' /\ Kept
    BY <1>2, OwnClaimJob
  <1>3. ASSUME NEW r \in Runners, NEW j \in Jobs,
               ClaimRefused(r, j) \/ ClaimCollides(r, j) \/ ClaimLost(r, j)
        PROVE  OwnAttempt' /\ Kept
    <2>1. /\ run' = run
          /\ \A q \in Runners : pc'[q] \in Live => pc[q] \in Live
      BY <1>0, <1>3, EnteringPlaces
      DEF ClaimRefused, ClaimCollides, ClaimLost, GiveUp, TypeOK
    <2>2. CASE history' = history
      BY <2>1, <2>2, OwnNeutral
    <2>3. CASE ClaimLost(r, j) /\ TakeRow(j)
      BY <2>3, OwnClaimLost
    <2> QED
      BY <1>3, <2>2, <2>3 DEF ClaimRefused, ClaimCollides, ClaimLost
  <1>4. ASSUME NEW r \in Runners, Succeed(r) \/ RecordFailure(r) PROVE OwnAttempt' /\ Kept
    BY <1>4, OwnConcluded
  <1>5. ASSUME NEW r \in Runners, Heartbeat(r) \/ Miss(r) PROVE OwnAttempt' /\ Kept
    <2>1. pc[r] \in Live /\ run[r] \in Attempt
      BY <1>5, LiveRun DEF Heartbeat, Miss, Live
    <2>2. /\ pc' = pc /\ history' = history
          /\ \E m \in Nat : run' = [run EXCEPT ![r] = NextBeat(r, m)]
      BY <1>5, <2>1 DEF Heartbeat, Miss, Attempt
    <2>3. \A q \in Runners : pc[q] \in Live =>
            run'[q].job = run[q].job /\ run'[q].number = run[q].number
      BY <1>0, <2>1, <2>2, NextBeatType DEF TypeOK
    <2> QED
      BY <2>2, <2>3, OwnNeutral
  <1>6. ASSUME NEW r \in Runners, GraphEnds(r) \/ RecordOutput(r) PROVE OwnAttempt' /\ Kept
    <2>1. /\ UNCHANGED <<history, run>>
          /\ \A q \in Runners : pc'[q] \in Live => pc[q] \in Live
      BY <1>0, <1>6
      DEF GraphEnds, RecordOutput, TypeOK, Live, Renewing, Closing, ErrorClass
    <2> QED
      BY <2>1, OwnNeutral
  <1>7. ASSUME NEW r \in Runners, CloseLost(r) PROVE OwnAttempt' /\ Kept
    <2>1. pc[r] \in Live /\ Leave(r) /\ history' = history
      BY <1>7 DEF CloseLost, Live
    <2>2. /\ pc'[r] \notin Live
          /\ \A q \in Runners : q # r => pc'[q] = pc[q] /\ run'[q] = run[q]
      BY <1>0, <2>1, LeaveType
    <2> QED
      BY <2>1, <2>2, OwnNeutral
  <1>8. ASSUME NEW s \in Sweepers,
               ReclaimExpired(s) \/ SelectDue(s) \/ EndPass(s) \/ PassLost(s)
        PROVE  OwnAttempt' /\ Kept
    <2>1. /\ UNCHANGED <<history, run>>
          /\ \A q \in Runners : pc'[q] \in Live <=> pc[q] \in Live
      BY <1>0, <1>8, PassPlaces DEF ReclaimExpired, SelectDue, EndPass, PassLost
    <2> QED
      BY <2>1, OwnNeutral
  <1>9. ASSUME Tick PROVE OwnAttempt' /\ Kept
    <2>1. /\ UNCHANGED <<history, pc>>
          /\ \A q \in Runners : pc[q] \in Live => run'[q] = [run[q] EXCEPT !.beat = @ - 1]
      BY <1>9 DEF Tick
    <2>2. ASSUME NEW q \in Runners, pc[q] \in Live
          PROVE  run'[q].job = run[q].job /\ run'[q].number = run[q].number
      <3>1. run[q] \in Attempt
        BY <2>2, LiveRun
      <3> QED
        BY <2>1, <2>2, <3>1 DEF Attempt
    <2> QED
      BY <2>1, <2>2, OwnNeutral
  <1>10. ASSUME Crash PROVE OwnAttempt' /\ Kept
    <2>1. history' = history /\ \A q \in Runners : pc'[q] \notin Live
      BY <1>10 DEF Crash, Live, Renewing, Closing, ErrorClass
    <2> QED
      BY <2>1, OwnNeutral
  <1>11. ASSUME UNCHANGED vars PROVE OwnAttempt' /\ Kept
    BY <1>11, OwnNeutral DEF vars
  <1> QED
    BY <1>1, <1>2, <1>3, <1>4, <1>5, <1>6, <1>7, <1>8, <1>9, <1>10, <1>11
    DEF Next, Advance, AdvancePass, Faulty

\* No coroutine, however late, rewrites what was recorded of an attempt, and
\* the outcome a runner records is its own: whether or not leases lapse.
THEOREM OutcomesStay == Spec => OutcomeWrittenOnce
  <1>1. Init => RowsInv /\ OwnAttempt
    BY RowsInit, OwnInit
  <1>2. (RowsInv /\ OwnAttempt) /\ [Next]_vars => (RowsInv /\ OwnAttempt)'
    BY RowsStep, OwnStep
  <1>3. (RowsInv /\ OwnAttempt) /\ [Next]_vars =>
          [\A j \in Jobs : \A n \in DOMAIN history[j] :
             history[j][n] # Open => history'[j][n] = history[j][n]]_vars
    BY OwnStep DEF Kept
  <1> QED
    BY <1>1, <1>2, <1>3, PTL DEF Spec, OutcomeWrittenOnce
=============================================================================
