-------------------------- MODULE RefinementProofs --------------------------
(***************************************************************************)
(* The job runtime implements JobQueue while heartbeats keep up.           *)
(***************************************************************************)
EXTENDS ExclusiveProofs

-----------------------------------------------------------------------------
(* The mapped state *)

\* A job is held by the runner that works on it, before and after a step.
LEMMA Held ==
  ASSUME Good, NEW j \in Jobs
  PROVE  /\ LiveOn(j) = {} => HolderOf(j) = None
         /\ \A r \in LiveOn(j) : HolderOf(j) = r
  <1>1. ASSUME NEW r \in LiveOn(j) PROVE HolderOf(j) = r
    <2>1. LiveOn(j) = {r}
      BY <1>1 DEF Good, OneWorkerPerJob, LiveOn
    <2>2. r \in Runners
      BY <1>1 DEF LiveOn
    <2> QED
      BY <2>1, <2>2 DEF HolderOf
  <1> QED
    BY <1>1 DEF HolderOf

LEMMA HeldNext ==
  ASSUME Good', NEW j \in Jobs
  PROVE  /\ LiveOn(j)' = {} => HolderOf(j)' = None
         /\ \A r \in LiveOn(j)' : HolderOf(j)' = r
  <1>1. ASSUME NEW r \in LiveOn(j)' PROVE HolderOf(j)' = r
    <2>1. LiveOn(j)' = {r}
      BY <1>1 DEF Good, OneWorkerPerJob, LiveOn
    <2>2. r \in Runners
      BY <1>1 DEF LiveOn
    <2> QED
      BY <2>1, <2>2 DEF HolderOf
  <1> QED
    BY <1>1 DEF HolderOf

LEMMA SameHolder ==
  ASSUME Good, Good', NEW j \in Jobs, LiveOn(j)' = LiveOn(j)
  PROVE  HolderOf(j)' = HolderOf(j)
  BY Held, HeldNext

\* A runner at rest holds nothing.
LEMMA IdleHoldsNothing ==
  ASSUME Good, NEW r \in Runners, pc[r] \notin Live, NEW j \in Jobs
  PROVE  HolderOf(j) # r
  <1>1. r \notin LiveOn(j) /\ None # r
    BY JobsAssumption DEF LiveOn
  <1>2. CASE LiveOn(j) = {}
    BY <1>1, <1>2, Held
  <1>3. CASE LiveOn(j) # {}
    BY <1>1, <1>3, Held
  <1> QED
    BY <1>2, <1>3

\* Steps that change neither who works on what, nor a verdict, nor the number
\* of attempts.
LEMMA Stutters ==
  ASSUME Good, Good',
         \A j \in Jobs : LiveOn(j)' = LiveOn(j),
         \A j \in Jobs : VerdictOn(j)' = VerdictOn(j),
         history' = history
  PROVE  UNCHANGED Queue!queueVars
  <1>1. \A j \in Jobs : HolderOf(j)' = HolderOf(j)
    BY SameHolder
  <1> QED
    BY <1>1 DEF Queue!queueVars

\* Jobs that lose their worker are let go.
LEMMA Releases ==
  ASSUME Good, Good', NEW S \in SUBSET Jobs,
         \A j \in S : LiveOn(j)' = {},
         \A j \in Jobs \ S : LiveOn(j)' = LiveOn(j),
         \A j \in Jobs : VerdictOn(j)' = VerdictOn(j),
         \A j \in Jobs : Len(history'[j]) = Len(history[j])
  PROVE  Queue!Release(S)
  <1>1. \A j \in Jobs : HolderOf(j)' = IF j \in S THEN None ELSE HolderOf(j)
    <2> SUFFICES ASSUME NEW j \in Jobs
                 PROVE  HolderOf(j)' = IF j \in S THEN None ELSE HolderOf(j)
      OBVIOUS
    <2>1. CASE j \in S
      BY <2>1, HeldNext
    <2>2. CASE j \notin S
      BY <2>2, SameHolder
    <2> QED
      BY <2>1, <2>2
  <1> QED
    BY <1>1 DEF Queue!Release

LEMMA QueueInit == Init => Queue!Init
  <1> SUFFICES ASSUME Init PROVE Queue!Init
    OBVIOUS
  <1>1. \A j \in Jobs : LiveOn(j) = {}
    BY DEF Init, LiveOn, Live, Renewing, Closing, ErrorClass
  <1>2. \A j \in Jobs : HolderOf(j) = None /\ VerdictOn(j) = "none" /\ Len(history[j]) = 0
    BY <1>1 DEF Init, HolderOf, VerdictOn, AbsentJob, TERMINAL_STATES
  <1> QED
    BY <1>2 DEF Queue!Init

-----------------------------------------------------------------------------
(* The steps *)

\* A claim that commits begins the job for its runner.
LEMMA ClaimBegins ==
  ASSUME RowsInv, Good, Good', NEW r \in Runners, NEW j \in Jobs, ClaimJob(r, j)
  PROVE  Queue!Begin(r, j)
  <1>1. /\ TypeOK /\ TakeRow(j)
        /\ pc[r] \notin Live
        /\ pc'[r] \in Live
        /\ run'[r].job = j
        /\ \A q \in Runners : q # r => pc'[q] = pc[q] /\ run'[q] = run[q]
    BY EnteringPlaces DEF RowsInv, TypeOK, ClaimJob, Live, Renewing
  <1>2. /\ job[j].state \in CLAIMABLE_STATES
        /\ job' = [job EXCEPT ![j] = claim(job[j].attempts)]
        /\ history' = [history EXCEPT ![j] = Append(history[j], Open)]
        /\ claim(job[j].attempts).state = "running"
    BY <1>1, TakeRowType DEF claim
  <1>3. LiveOn(j) = {}
    <2>1. \A q \in LiveOn(j) : job[j].state = "running"
      BY WorkedRow DEF LiveOn
    <2> QED
      BY <1>2, <2>1 DEF CLAIMABLE_STATES
  <1>4. r \in LiveOn(j)'
    BY <1>1 DEF LiveOn
  <1>5. \A k \in Jobs : k # j => LiveOn(k)' = LiveOn(k)
    BY <1>1 DEF LiveOn
  <1>6. /\ HolderOf(j) = None
        /\ HolderOf(j)' = r
        /\ \A k \in Jobs : k # j => HolderOf(k)' = HolderOf(k)
        /\ \A k \in Jobs : HolderOf(k) # r
    BY <1>1, <1>3, <1>4, <1>5, Held, HeldNext, SameHolder, IdleHoldsNothing
  <1>7. /\ VerdictOn(j) = "none"
        /\ \A k \in Jobs : VerdictOn(k)' = VerdictOn(k)
    BY <1>1, <1>2 DEF VerdictOn, TypeOK, TERMINAL_STATES, CLAIMABLE_STATES
  <1>8. /\ Len(history'[j]) = Len(history[j]) + 1
        /\ \A k \in Jobs : k # j => Len(history'[k]) = Len(history[k])
    BY <1>1, <1>2 DEF TypeOK
  <1> QED
    BY <1>6, <1>7, <1>8 DEF Queue!Begin

\* A claim that commits unseen is an attempt nobody works on.
LEMMA LostClaimBegins ==
  ASSUME RowsInv, Good, Good', NEW r \in Runners, NEW j \in Jobs,
         ClaimLost(r, j), TakeRow(j)
  PROVE  Queue!BeginLost(j)
  <1>1. /\ TypeOK
        /\ pc[r] \notin Live
        /\ pc'[r] \notin Live
        /\ run' = run
        /\ \A q \in Runners : q # r => pc'[q] = pc[q]
    BY EnteringPlaces DEF RowsInv, TypeOK, ClaimLost, GiveUp
  <1>2. /\ job[j].state \in CLAIMABLE_STATES
        /\ job' = [job EXCEPT ![j] = claim(job[j].attempts)]
        /\ history' = [history EXCEPT ![j] = Append(history[j], Open)]
        /\ claim(job[j].attempts).state = "running"
    BY <1>1, TakeRowType DEF claim
  <1>3. LiveOn(j) = {}
    <2>1. \A q \in LiveOn(j) : job[j].state = "running"
      BY WorkedRow DEF LiveOn
    <2> QED
      BY <1>2, <2>1 DEF CLAIMABLE_STATES
  <1>4. \A k \in Jobs : LiveOn(k)' = LiveOn(k)
    BY <1>1 DEF LiveOn
  <1>5. HolderOf(j) = None /\ \A k \in Jobs : HolderOf(k)' = HolderOf(k)
    BY <1>3, <1>4, Held, SameHolder
  <1>6. /\ VerdictOn(j) = "none"
        /\ \A k \in Jobs : VerdictOn(k)' = VerdictOn(k)
    BY <1>1, <1>2 DEF VerdictOn, TypeOK, TERMINAL_STATES, CLAIMABLE_STATES
  <1>7. /\ Len(history'[j]) = Len(history[j]) + 1
        /\ \A k \in Jobs : k # j => Len(history'[k]) = Len(history[k])
    BY <1>1, <1>2 DEF TypeOK
  <1> QED
    BY <1>5, <1>6, <1>7 DEF Queue!BeginLost

\* Recording a result or a failure decides the job, or lets it go for a retry.
LEMMA ConcludedDecides ==
  ASSUME RowsInv, Good, Good', NEW r \in Runners, Succeed(r) \/ RecordFailure(r)
  PROVE  Queue!Next
  <1>1. PICK j \in Jobs, n \in Nat \ {0} :
          j = run[r].job /\ n = run[r].number /\ n \in 1 .. Len(history[j])
    BY Concluding, LiveRun
  <1>2. PICK t \in JobTransition :
          /\ pc[r] \in Live
          /\ Conclude(r, t)
          /\ t = succeed(run[r].number) \/ \E c \in ErrorClass : t = fail(run[r].number, c)
    BY Concluding
  <1>3. t.state \in {"completed", "failed_review", "retry_wait"}
    BY <1>1, <1>2, Transitions
  <1>4. /\ TypeOK
        /\ job' = [job EXCEPT ![j] = t]
        /\ history' = [history EXCEPT ![j][n] = t.state]
        /\ Leave(r)
    BY <1>1, <1>2 DEF RowsInv, Conclude, apply_transition, finish_attempt
  <1>5. /\ pc'[r] \notin Live
        /\ \A q \in Runners : q # r => pc'[q] = pc[q] /\ run'[q] = run[q]
    BY <1>2, <1>4, LeaveType
  <1>6. r \in LiveOn(j)
    BY <1>1, <1>2 DEF LiveOn
  <1>7. LiveOn(j)' = {}
    BY <1>1, <1>2, <1>5, <1>6 DEF LiveOn, Good, OneWorkerPerJob
  <1>8. \A k \in Jobs : k # j => LiveOn(k)' = LiveOn(k)
    BY <1>1, <1>5 DEF LiveOn
  <1>9. /\ HolderOf(j) = r /\ r # None
        /\ HolderOf(j)' = None
        /\ \A k \in Jobs : k # j => HolderOf(k)' = HolderOf(k)
    BY <1>6, <1>7, <1>8, JobsAssumption, Held, HeldNext, SameHolder
  <1>10. \A k \in Jobs : Len(history'[k]) = Len(history[k])
    BY <1>1, <1>4 DEF TypeOK
  <1>11. job'[j] = t /\ \A k \in Jobs : k # j => job'[k] = job[k]
    BY <1>4 DEF TypeOK
  <1>12. VerdictOn(j) = "none"
    BY <1>1, <1>2, WorkedRow DEF VerdictOn, TERMINAL_STATES
  <1>13. CASE t.state = "retry_wait"
    <2>1. \A k \in Jobs : VerdictOn(k)' = VerdictOn(k)
      BY <1>11, <1>12, <1>13 DEF VerdictOn, TERMINAL_STATES
    <2>2. Queue!Release({j})
      BY <1>7, <1>8, <1>10, <2>1, Releases
    <2> QED
      BY <2>2 DEF Queue!Next
  <1>14. CASE t.state \in {"completed", "failed_review"}
    <2>1. /\ VerdictOn(j)' = t.state
          /\ \A k \in Jobs : k # j => VerdictOn(k)' = VerdictOn(k)
      BY <1>11, <1>14 DEF VerdictOn, TERMINAL_STATES
    <2>2. Queue!Conclude(j, t.state)
      BY <1>9, <1>10, <2>1 DEF Queue!Conclude
    <2> QED
      BY <1>14, <2>2 DEF Queue!Next, Queue!Verdict
  <1> QED
    BY <1>3, <1>13, <1>14

\* Submissions, the work inside an attempt, the sweeper and time are invisible.
LEMMA Invisible ==
  ASSUME RowsInv, Good, Good',
         \/ \E j \in Jobs : Submit(j)
         \/ \E r \in Runners, j \in Jobs : GiveUp(r, j) /\ UNCHANGED <<job, history>>
         \/ \E r \in Runners :
              Heartbeat(r) \/ Miss(r) \/ GraphEnds(r) \/ RecordOutput(r)
         \/ \E s \in Sweepers :
              ReclaimExpired(s) \/ SelectDue(s) \/ EndPass(s) \/ PassLost(s)
         \/ Tick
         \/ UNCHANGED vars
  PROVE  UNCHANGED Queue!queueVars
  <1>0. TypeOK
    BY DEF RowsInv
  <1> DEFINE Same == /\ \A j \in Jobs : LiveOn(j)' = LiveOn(j)
                     /\ \A j \in Jobs : VerdictOn(j)' = VerdictOn(j)
                     /\ history' = history
  <1>1. ASSUME NEW j \in Jobs, Submit(j) PROVE Same
    <2>1. \A q \in Runners : /\ pc'[q] \in Live <=> pc[q] \in Live
                             /\ run'[q] = run[q]
      <3>1. pc[j] = "unsubmitted" /\ pc' = [pc EXCEPT ![j] = "spawned"] /\ run' = run
        BY <1>1 DEF Submit, RowsInv, TaskPerRow
      <3> QED
        BY <1>0, <3>1 DEF TypeOK, Live, Renewing, Closing, ErrorClass
    <2>2. \A k \in Jobs : VerdictOn(k)' = VerdictOn(k)
      BY <1>0, <1>1 DEF Submit, TypeOK, JobTransition, AbsentJob, VerdictOn, TERMINAL_STATES
    <2> QED
      BY <1>1, <2>1, <2>2 DEF LiveOn, Submit
  <1>2. ASSUME NEW r \in Runners, NEW j \in Jobs, GiveUp(r, j), UNCHANGED <<job, history>>
        PROVE  Same
    <2>1. \A q \in Runners : /\ pc'[q] \in Live <=> pc[q] \in Live
                             /\ run'[q] = run[q]
      BY <1>0, <1>2, EnteringPlaces DEF GiveUp, TypeOK
    <2> QED
      BY <1>2, <2>1 DEF LiveOn, VerdictOn
  <1>3. ASSUME NEW r \in Runners, Heartbeat(r) \/ Miss(r) PROVE Same
    <2>1. pc[r] \in Live /\ run[r] \in Attempt /\ run[r].job \in Jobs
      BY <1>3, LiveRun DEF Heartbeat, Miss, Live
    <2>2. /\ pc' = pc /\ history' = history
          /\ \E m \in Nat : run' = [run EXCEPT ![r] = NextBeat(r, m)]
      BY <1>3, <2>1 DEF Heartbeat, Miss, Attempt
    <2>3. \A q \in Runners : pc[q] \in Live => run'[q].job = run[q].job
      BY <1>0, <2>1, <2>2, NextBeatType DEF TypeOK
    <2>4. \A k \in Jobs : job'[k].state = job[k].state
      <3>1. CASE job' = job
        BY <3>1
      <3>2. CASE job' = [job EXCEPT ![run[r].job].lease_expires_at = LeaseTicks]
        <4>1. \A k \in Jobs : job[k] \in JobTransition \cup {AbsentJob} /\ job \in [Jobs -> JobTransition \cup {AbsentJob}]
          BY <1>0 DEF TypeOK
        <4> QED
          BY <2>1, <3>2, <4>1 DEF JobTransition, AbsentJob
      <3>3. job' = job \/ job' = [job EXCEPT ![run[r].job].lease_expires_at = LeaseTicks]
        BY <1>3 DEF Heartbeat, Miss, renew_lease
      <3> QED
        BY <3>1, <3>2, <3>3
    <2> QED
      BY <2>2, <2>3, <2>4 DEF LiveOn, VerdictOn
  <1>4. ASSUME NEW r \in Runners, GraphEnds(r) \/ RecordOutput(r) PROVE Same
    <2>1. /\ UNCHANGED <<job, history, run>>
          /\ \A q \in Runners : pc'[q] \in Live <=> pc[q] \in Live
      BY <1>0, <1>4
      DEF GraphEnds, RecordOutput, TypeOK, Live, Renewing, Closing, ErrorClass
    <2> QED
      BY <2>1 DEF LiveOn, VerdictOn
  <1>5. ASSUME NEW s \in Sweepers, ReclaimExpired(s) PROVE Same
    <2>1. /\ UNCHANGED <<history, run>>
          /\ \A q \in Runners : pc'[q] \in Live <=> pc[q] \in Live
      BY <1>0, <1>5, PassPlaces DEF ReclaimExpired
    <2>2. ASSUME NEW j \in Jobs PROVE VerdictOn(j)' = VerdictOn(j)
      <3>1. CASE job'[j] = job[j]
        BY <3>1 DEF VerdictOn
      <3>2. CASE job'[j] = Reclaimed(job[j]) /\ j \in First(Stale, Batch)
        <4>1. job[j].state = "running" /\ job'[j].state = "retry_wait"
          BY <1>0, <3>2, ReclaimedRow
        <4> QED
          BY <4>1 DEF VerdictOn, TERMINAL_STATES
      <3> QED
        BY <1>0, <1>5, <3>1, <3>2, ReclaimRows
    <2> QED
      BY <2>1, <2>2 DEF LiveOn
  <1>6. ASSUME NEW s \in Sweepers, SelectDue(s) \/ EndPass(s) \/ PassLost(s) PROVE Same
    <2>1. /\ UNCHANGED <<job, history, run>>
          /\ \A q \in Runners : pc'[q] \in Live <=> pc[q] \in Live
      BY <1>0, <1>6, PassPlaces DEF SelectDue, EndPass, PassLost
    <2> QED
      BY <2>1 DEF LiveOn, VerdictOn
  <1>7. ASSUME Tick PROVE Same
    <2>1. /\ UNCHANGED <<history, pc>>
          /\ \A q \in Runners : pc[q] \in Live => run'[q] = [run[q] EXCEPT !.beat = @ - 1]
          /\ \A j \in Jobs : job'[j] = Later(job[j])
      BY <1>7 DEF Tick
    <2>2. \A q \in Runners : pc[q] \in Live => run'[q].job = run[q].job
      <3> SUFFICES ASSUME NEW q \in Runners, pc[q] \in Live PROVE run'[q].job = run[q].job
        OBVIOUS
      <3>1. run[q] \in Attempt
        BY LiveRun
      <3> QED
        BY <2>1, <3>1 DEF Attempt
    <2>3. \A j \in Jobs : job'[j].state = job[j].state
      BY <1>0, <2>1, TickFields DEF TypeOK
    <2> QED
      BY <2>1, <2>2, <2>3 DEF LiveOn, VerdictOn
  <1>8. ASSUME UNCHANGED vars PROVE Same
    BY <1>8 DEF vars, LiveOn, VerdictOn
  <1>9. Same
    BY <1>1, <1>2, <1>3, <1>4, <1>5, <1>6, <1>7, <1>8
  <1> QED
    BY <1>9, Stutters

\* A lost closing transaction and the death of the process let jobs go.
LEMMA FaultsRelease ==
  ASSUME RowsInv, Good, Good', Crash \/ \E r \in Runners : CloseLost(r)
  PROVE  Queue!Next
  <1>1. CASE Crash
    <2>1. \A j \in Jobs : LiveOn(j)' = {}
      BY <1>1 DEF Crash, LiveOn, Live, Renewing, Closing, ErrorClass
    <2>2. \A j \in Jobs : VerdictOn(j)' = VerdictOn(j) /\ Len(history'[j]) = Len(history[j])
      BY <1>1 DEF Crash, VerdictOn
    <2>3. Queue!Release(Jobs)
      BY <2>1, <2>2, Releases
    <2> QED
      BY <2>3 DEF Queue!Next
  <1>2. ASSUME NEW r \in Runners, CloseLost(r) PROVE Queue!Next
    <2>1. pc[r] \in Live /\ Leave(r) /\ TypeOK
      BY <1>2 DEF CloseLost, Live, RowsInv
    <2>2. PICK j \in Jobs : j = run[r].job
      BY <2>1, LiveRun
    <2>3. /\ pc'[r] \notin Live
          /\ \A q \in Runners : q # r => pc'[q] = pc[q] /\ run'[q] = run[q]
      BY <2>1, LeaveType
    <2>4. LiveOn(j)' = {}
      BY <2>1, <2>2, <2>3 DEF LiveOn, Good, OneWorkerPerJob
    <2>5. \A k \in Jobs \ {j} : LiveOn(k)' = LiveOn(k)
      BY <2>2, <2>3 DEF LiveOn
    <2>6. \A k \in Jobs : VerdictOn(k)' = VerdictOn(k) /\ Len(history'[k]) = Len(history[k])
      BY <1>2 DEF CloseLost, VerdictOn
    <2>7. Queue!Release({j})
      BY <2>4, <2>5, <2>6, Releases
    <2> QED
      BY <2>7 DEF Queue!Next
  <1> QED
    BY <1>1, <1>2

LEMMA QueueStep ==
  ASSUME RowsInv, Good, Good', [Next]_vars
  PROVE  [Queue!Next]_(Queue!queueVars)
  <1>1. ASSUME NEW r \in Runners, NEW j \in Jobs, ClaimJob(r, j) PROVE Queue!Next
    <2>1. Queue!Begin(r, j)
      BY <1>1, ClaimBegins
    <2> QED
      BY <2>1 DEF Queue!Next
  <1>2. ASSUME NEW r \in Runners, NEW j \in Jobs, ClaimRefused(r, j) \/ ClaimCollides(r, j)
        PROVE  UNCHANGED Queue!queueVars
    <2>1. GiveUp(r, j) /\ UNCHANGED <<job, history>>
      BY <1>2 DEF ClaimRefused, ClaimCollides
    <2> QED
      BY <2>1, Invisible
  <1>3. ASSUME NEW r \in Runners, NEW j \in Jobs, ClaimLost(r, j)
        PROVE  [Queue!Next]_(Queue!queueVars)
    <2>1. CASE TakeRow(j)
      <3>1. Queue!BeginLost(j)
        BY <1>3, <2>1, LostClaimBegins
      <3> QED
        BY <3>1 DEF Queue!Next
    <2>2. CASE UNCHANGED <<job, history>>
      <3>1. GiveUp(r, j)
        BY <1>3 DEF ClaimLost
      <3> QED
        BY <2>2, <3>1, Invisible
    <2> QED
      BY <1>3, <2>1, <2>2 DEF ClaimLost
  <1>4. ASSUME NEW r \in Runners, Succeed(r) \/ RecordFailure(r) PROVE Queue!Next
    BY <1>4, ConcludedDecides
  <1>5. CASE Crash \/ \E r \in Runners : CloseLost(r)
    BY <1>5, FaultsRelease
  <1>6. CASE \/ \E j \in Jobs : Submit(j)
             \/ \E r \in Runners :
                  Heartbeat(r) \/ Miss(r) \/ GraphEnds(r) \/ RecordOutput(r)
             \/ \E s \in Sweepers :
                  ReclaimExpired(s) \/ SelectDue(s) \/ EndPass(s) \/ PassLost(s)
             \/ Tick
             \/ UNCHANGED vars
    BY <1>6, Invisible
  <1> QED
    BY <1>1, <1>2, <1>3, <1>4, <1>5, <1>6 DEF Next, Advance, AdvancePass, Faulty

\* While a lease outlasts the renewals a run may miss, every behaviour of the
\* runtime is one of the abstract queue: one worker at a time, one verdict.
THEOREM RuntimeIsQueue == ASSUME HeartbeatMargin PROVE Spec => ImplementsJobQueue
  <1>1. Init => Queue!Init
    BY QueueInit
  <1>2. (RowsInv /\ Good) /\ (RowsInv /\ Good)' /\ [Next]_vars
          => [Queue!Next]_(Queue!queueVars)
    BY QueueStep
  <1> QED
    BY <1>1, <1>2, GoodInvariant, PTL DEF Spec, ImplementsJobQueue, Queue!Spec
=============================================================================
