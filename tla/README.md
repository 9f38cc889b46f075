# Verification of the Edufurther agent service

TLA+ modules, TLC configurations and TLAPS proofs about the agent service in
`src/src/app`: the runtime that accepts jobs, runs a workflow for each and keeps
them alive through restarts. Paths below are relative to `src/src/app` unless they
start with `src/`.

## 1. Inventory of the system

One FastAPI process with an asyncio loop, one PostgreSQL database, no external
queue.

| Component | State it keeps | Operations | Talks to |
|---|---|---|---|
| Job state machine, `runtime/retries.py` | none (pure) | `claim`, `succeed`, `fail`, `is_due`, `is_lease_expired`, `backoff_seconds`, `classify_error` | called by store and runner |
| Job store, `infra/jobs.py`, `infra/models.py` | rows of `agent_jobs`, `agent_job_attempts`, `agent_outputs`, `agent_errors` | `enqueue_job`, `claim_job`, `due_job_ids`, `reclaim_expired_leases`, `renew_lease`, `apply_transition`, `start_attempt`, `finish_attempt`, `record_error` | PostgreSQL row locks and unique indexes arbitrate |
| Job runner, `runtime/graph_runner.py` | per call: a snapshot of the claimed row, a heartbeat task | `execute_job`, `_heartbeat`, `_run_graph`, `_record_output`, `_record_failure` | store, checkpointer, workflow graph |
| Sweeper, `runtime/sweeper.py` | ids selected by the pass | `sweep_once`, `run_sweeper` | store, `execute_job` |
| Submission API, `api/jobs.py` | set of background tasks | `submit_job`, `run_due_jobs`, `read_job` | store, runner, sweeper |
| Process lifecycle, `main.py` | stop event, sweeper task | `lifespan` | sweeper, checkpointer |
| Checkpointer, `runtime/checkpoints.py` | process-wide pool and saver | `get_checkpointer`, `close_checkpointer` | PostgreSQL |
| Verification workflow, `usecases/scholarship_finder/{graph,nodes,state,schemas}.py` | graph state (checkpointed after every node), the text of official pages (in the process only) | thirteen nodes, two routing functions | AI router, product API, retrieval tools |
| Outcome policy, `policies.py`, `fact_matching.py` | none (pure) | `decide_outcome`, `roll_up`, `amounts_match`, `deadlines_match` | called by `decide`, `compare_evidence` |
| Official source search, `official_source.py`, `normalization.py`, `extraction.py` | none (pure) | `pick_official`, `normalize_discovery` | called by the nodes |
| Submission to the product, `submission.py`, `integrations/scholarship_finder.py` | none of its own | `submit_to_product` and its five product calls | product API |
| Retrieval tools, `tools/{retrieval,budget,throttle,base,registry,search}.py` | calls used per provider and month (a row), last request per host (in the process) | `fetch_page`, `fetch_official_page`, `reserve_call`, `host_pace` | fetchers, PostgreSQL |
| Fetchers, `tools/{direct_fetch,jina,urls}.py` | none | HTTP requests behind a URL guard | the network |
| AI router client, `integrations/ai_router.py` | none | `execute` | the AI router |
| Probe, reporting, configuration, migrations, scripts | none of the program's own | read-only or start-up code | |

How they interact: a submission commits a row and spawns `execute_job` as a
background task. `execute_job` claims the row (a lease and an attempt row in one
transaction), starts a heartbeat that renews the lease, runs the graph, commits the
result, then commits the outcome. Independently the sweeper returns running rows
with lapsed leases to the queue, selects due rows and executes them one by one;
`POST /jobs/run-due` does the same on request. Nothing but the database row
connects these coroutines.

What is hard: every `await` between two transactions lets any other coroutine in;
a lease may lapse under a worker that is alive; a worker writes what it knew when
it claimed; the process may die between any two transactions; a commit's answer
may be lost; retries, reclaims and late results meet on one row.

What makes each component correct:

* state machine: backoff and cap are respected, terminal states are not due;
* store, runner, sweeper: one worker at a time per job; an outcome is final and
  agrees with the attempt history; no accepted job is lost; attempts are bounded;
* workflow: a resumed run reaches what an uninterrupted one would; a page nobody
  could read never leads to a rejection; each candidate gets one outcome;
* submission: nothing is written to the product in shadow mode but run records
  and evidence; a repeated submission does not duplicate;
* retrieval: a refused URL never reaches any fetcher; the budget is never
  exceeded; the fetches of one host's pages are spaced;
* checkpointer: one pool at a time is made or open; no saver is given out before its
  tables exist or after it was closed, and none is closed under a run before shutdown.

## 2. Modules

| Module | Models | Kind |
|---|---|---|
| `Retries` | `runtime/retries.py` | operators |
| `AgentJobs` | `api/jobs.py`, `runtime/graph_runner.py`, `runtime/sweeper.py`, `infra/jobs.py`, the tables they write | state machine, properties, refinement mapping |
| `JobQueue` | what the runtime promises, without leases and time | abstract specification |
| `MCAgentJobs` | small instances | model checking |
| `Policies` | `policies.py`, the enumerations of `schemas.py` | operators |
| `Workflow` | `graph.py`, `nodes.py`, and `_run_graph`'s resumption | state machine, properties |
| `MCWorkflow` | small instances | model checking |
| `Retrieval` | `tools/retrieval.py`, `tools/budget.py`, `tools/throttle.py`, the control of `tools/direct_fetch.py`, `tools/jina.py`, `tools/search.py` | state machine, properties, refinement mapping |
| `Pacing` | what `tools/throttle.py` promises a host | abstract specification |
| `MCRetrieval` | small instances | model checking |
| `Submission` | `submission.py`, the writing half of `integrations/scholarship_finder.py` | state machine, properties |
| `MCSubmission` | a small instance | model checking |
| `Checkpointer` | `runtime/checkpoints.py`, the lifespan of `main.py` | state machine, properties |
| `MCCheckpointer` | a small instance | model checking |
| `OfficialSource` | `official_source.py`, `find_official_source` of `nodes.py` for one candidate | operators, state machine |
| `MCOfficialSource` | a small instance | model checking |
| `AgentJobsProofs` | rows and types of `AgentJobs`; attempt rows are written once; the backoff | theorems |
| `ExclusiveProofs` | exclusive execution, extends `AgentJobsProofs` | theorems |
| `RefinementProofs` | `AgentJobs` implements `JobQueue`, extends `ExclusiveProofs` | theorem |
| `RetrievalProofs` | guard, fallback, budget of `Retrieval`; it implements `Pacing` | theorems |
| `CheckpointerProofs` | one pool, its saver given out open and with its tables | theorems |
| `WorkflowProofs` | outcomes, checkpoints, texts and merging of `Workflow` | theorems |
| `SubmissionProofs` | what `Submission` leaves with the product | theorems |
| `OfficialSourceProofs` | what `OfficialSource` may choose | theorems |

### The job runtime: state and code

A row of `agent_jobs` is the record the code calls `JobTransition`; a timestamp
column is the number of ticks left until it, so that "`<= now`" is "0". `history[j]`
is the sequence of `outcome_state`s of the job's attempt rows: the attempt number is
the index, which is faithful because a new number is never more than one above the
number of rows (`AttemptsHaveRows`). `output` holds the jobs with an
`agent_outputs` row. `pc[r]` is where a coroutine is between two transactions, and
`run[r]` the snapshot it carries with the clock of its heartbeat. `queue[s]` is the
`job_ids` list of a sweeper pass. A job's background task has the job's name.

| Action | Code |
|---|---|
| `Submit` | `submit_job`: commit, then spawn. A redelivery conflicts on the idempotency key and is a stuttering step. A crash between the two is `Submit` then `Crash`. |
| `ClaimJob`, `ClaimRefused`, `ClaimCollides`, `ClaimLost` | the first transaction of `execute_job`: won, refused, rolled back by the unique constraint, failed or committed with its answer lost |
| `Heartbeat`, `Miss` | one turn of `_heartbeat`'s loop, or a renewal that failed; `Miss` also stands for a closing transaction that takes as long |
| `GraphEnds` | `_run_graph` returns or raises, of either class |
| `RecordOutput`, `Succeed` | `_record_output`, then the transaction that completes the job |
| `RecordFailure` | `_record_failure` |
| `CloseLost` | a database error in one of these three transactions, which leaves `execute_job` |
| `ReclaimExpired`, `SelectDue`, `EndPass`, `PassLost` | the transactions of `sweep_once`, its end, and an error the loop logs |
| `Tick` | time passes; every deadline is kept or counted as missed |
| `Crash` | the process stops and starts again; only rows survive |

One transaction is one action: `FOR UPDATE` and the unique indexes serialize the
transactions on a row. `SKIP LOCKED` skips rows whose transaction is under way and
therefore never matters here. There is one process (`core/config.py:121`, "One
replica today"), so a crash ends every coroutine; the modules would need a set of
processes for more. Wording, logging, `last_error`, `agent_errors` (written in the
outcome's own transaction) and the states nothing sets (`waiting_review`,
`cancelled`) are left out. The limits of a run-due request and of the loop's pass
are one constant, `Batch`.

### The workflow: state and code

`Workflow` follows one job. `mem` is the graph's state in the running attempt with
the node it is to run next, `saved` the newest checkpoint of the thread, and
`official_text` the dictionary `_official_text`, as the keys it holds a text for.
Each node is the action of its name; the two that touch the dictionary, and so
change something before they return, take one candidate at a time (`work` is what
their loop is done with, `reading` that a text has been popped and the model is
being asked). `truth` is drawn once and never read by a decision: it says, per
award, how a comparison with its official page would end, so that properties can
hold outcomes against it. `unread` is read by no decision either: it has the awards
whose page had no text or about which a model call was not answered. What a completed
answer says of a page is assumed to be what the page says; the code takes whatever
strings the comparing model returns as the located values (`nodes.py:778`), so a model
that makes them up is outside every property here.

| Action | Code |
|---|---|
| `Start` | the claim, then `_run_graph`: an existing thread is resumed with `None`, so the attempt begins at `saved` |
| `load_discovery` ... `submit_to_product` | the node of that name and the edge out of it |
| `Complete` | the graph has returned; result and outcome are committed |
| `Abort` | the node raises, a checkpoint cannot be written (then `saved` stays behind), or `asyncio.timeout` ends the attempt; the error is of either class, since unknown ones count as permanent (`runtime/retries.py:191`), and `fail()` decides between retry and `failed_review` |
| `CloseLost` | the closing transaction fails and the sweeper reclaims the job |
| `Crash` | the process dies: `mem` and `official_text` are gone |

A checkpoint is written while the next node runs, so `saved` may lag behind `mem`
until the attempt ends; when the graph raises, pending writes are awaited first, and
may be what failed.
`AgentJobs` and `Workflow` meet at `_run_graph`: in `AgentJobs` the graph merely
ends, in `Workflow` attempts follow one another, which is what `JobQueue` promises.
`single_candidate` and `split_candidates` may pick any key and any list of `Pages`;
a candidate's link keeps only where it leads. `fact_matching` is its three verdicts.
Excerpts are not modelled: whether eligibility rules are found is `truth`'s.

### Retrieval: state and code

Each caller is a coroutine that makes one call at a time: `fetch_page`,
`fetch_official_page` or `search_web`. `call[c]` is that call with the place where
it is suspended, `calls_used` the rows of `agent_research_usage`, and `holder`,
`waiting` and `since` the lock of a host, its waiters and `last[0]` as ticks. A step
runs from one `await` to the next, so everything a handler does between two of them
(a fallback to the other fetcher included) is in one action: the operators `TryJina`,
`FetchPageDirect`, `GotDirect`, `GotJina`, `WithoutJina` say how a call goes on and
are shared by the actions that get there.

| Action | Code |
|---|---|
| `Begin` | the three entry points up to their first await: the URL guard, then the switches |
| `TakesLock`, `SendsDirect` | `host_pace`: the lock in the order of its waiters, the rest of the interval, then `fetch_source` validates again and sends |
| `Redirected`, `DirectEnds` | the redirect that is followed, to any host; the page, the refusal or the failure the fetch ends with, and the stamp on the way out |
| `Reserve` | the transaction of `reserve_call`, or its failure, before or after its commit |
| `AsksJina`, `JinaAnswers` | the request to reader or search; its answer, an error that is taken for none, or one that leaves the tool |
| `Cancelled` | the job's time limit cancels the coroutine wherever it is suspended |
| `Tick`, `NewMonth` | the interval passes, the period key changes |
| `Reconfigure`, `Restart` | an operator changes what is configured; a new process reads it. Until then the process goes by `settings`, what `get_settings` cached |

Of a body only its length counts. The guard's verdict on a URL is its class, but a
name is looked up at every validation and any lookup may fail. `jina_sent`,
`reached`, `best` and `asked` are read by no action: they say what a call did, and
`asked` at which host its direct request is under way.

`Pacing` is about whole fetches, because that is what the lock spans: a fetch has its
turn at the host of the URL it was asked for (`tools/retrieval.py:130`), and keeps it
over the one redirect it follows ("one page from the origin's point of view",
`tools/retrieval.py:124`). The redirect may lead to another host
(`tools/direct_fetch.py:180`), for which no turn is taken, possibly while that host is
busy with another fetch. `Pacing` has this as its action `Redirected`, and promises a
host nothing about requests that come to it this way.

### Submission: state and code

`Submission` is `Workflow`'s last node, call by call. `candidates` is the node's
copy of the checkpointed `page`, `todo` the calls it has still to make, `noted` the
failures it wrote into the candidates' notes, `product` the rows at the other end.

| Action | Code |
|---|---|
| `Starts` | the node begins; without a configured client it returns at once |
| `Taken` | a call is answered; the answer to the first gives candidates their ids |
| `Noted` | a `ScholarshipFinderError`, which is noted, with or without the row written |
| `Abandoned`, `Unsaved` | any other error, a lost answer or the death of the process; after the last call too |
| `Saved` | the checkpoint after the node |
| `Resumes` | the job's next attempt runs the node again from the checkpoint before it |

The settings (`shadow_mode`, `configured`) are drawn once, so an attempt after a
restart is assumed to have those of the attempt before; the code reads them again in
every process (`submission.py:98`), and a job during which an operator flips
`SHADOW_MODE` is not in the model.

That the product keys what it writes (one discovery per identity, one run per
discovery) is external; it is what the client's docstrings say
(`integrations/scholarship_finder.py:114`).

### Checkpointer: state and code

`_pool` and `_saver` are the globals; `lock` and `queue` the `asyncio.Lock` and its
waiters; `status[p]` what became of the p-th pool. `Gets` is the test outside the
lock, `Enters` the one inside with the creation of the pool, `Opens` and `SetsUp` the
two awaits under the lock, each of which may raise; `Finishes` ends a run; `Shutdown`
cancels the sweeper, `Closes` and `Closed` are `close_checkpointer` around its await.
Background jobs are neither cancelled nor awaited at shutdown, so they go on.

### Official source: state and code

One candidate: its link may count, or a search is made and `pick_official` chooses
from what it finds. Names are sequences of parts, so that one may be a prefix of
another, and hosts are sequences of labels; folding and splitting text are left out.

## 3. Runs

Bounds, and why they are enough. `LeaseTicks` 3 with an interval of 1 is the code's
ratio (900 s and 300 s). `MaxAttempts` 2 has a first, a retried and an exhausting
attempt. Two jobs and `Batch` 1 make the batch limit bite. `MaxFaults` bounds faults
of all kinds together: two are enough to let a lease lapse under a live worker where
it can, three to make two late workers collide. Job ids are numbers because the
sweeper orders by them, so only run-due requests are symmetric. Nothing bounds time:
timers stop at 0.

| Run | Instance | Shows |
|---|---|---|
| `healthy` | 2 jobs, loop, 1 missed renewal tolerated, 2 faults, fair | exclusive execution: `WorkerHoldsLease`, `OneWorkerPerJob`, `ClaimNeverCollides`, `LastAttemptDecides`, `AttemptsBudget`, `TerminalIsFinal`; every accepted job ends (`EventuallyTerminal`); the runtime implements `JobQueue` |
| `lapsed_leases` | 1 job, loop and 2 run-due requests, 2 misses against a lease of 3, 3 faults | what survives lapsed leases: `LeaseIffRunning`, `CompletedWasRecorded`, `AttemptsHaveRows`, `OutcomeWrittenOnce` |
| `lapsed_wedge` | violation of `EventuallyTerminal` | a late worker leaves a job no claim can take |
| `workflow` | 6 lists, 6 kinds of page in 5 pairs, 2 faults (failed checkpoint writes included), calls unanswered, pages missing or empty, fair | until the first fault each award gets the outcome its page deserves (`ExactOutcome`); throughout `OutcomeSupported`, `JobOutcomeSupported`, `TextsConsumed`, `MergeKeepsAwards`, `NoWorkRedone`, `BatchKept`, `RunEnds`, and `WorkflowTypeOK` with the cap |
| `resumed_run` | violation of `ResumeHarmless` | an interrupted run loses the comparison |
| `analysis_lost` | violation of `AnalysisKept` | a finished analysis in a job that is given up on |
| `retrieval` | 2 callers, 2 calls, 3 URLs on 2 hosts, 3 settings, 2 months, 1 change of configuration and restart, fair | guard, switches and budget in every order (`RequestsAllowed`, `RefusalIsFinal`, `EveryCallCharged`, `BudgetKept`), the fallback's choice (`KeepsTheLonger`), `ImplementsPacing`, and that every call ends |
| `frozen_switches` | violation of `SwitchTakesEffect` | a tool that was switched off is used until the process restarts |
| `submission` | 6 pages, 3 titles two of which are one discovery, both modes, 3 executions | `ExactlyOnce`, `NothingUnintended`, `MissingIsNoted` |
| `checkpointer` | lifespan, sweeper, 2 jobs, 4 pools, fair | `OnePool`, `SaverIsReady`, `GivenOpen`, `EveryGetReturns` |
| `official_source` | 9 hosts in rankings of up to 3, 4 titles, every link and grade | `StrangersStayOut`, `SecondDocument`, `AcceptanceUntouched` |
| `unnamed_body` | violation of `OnlyNamed` | a page is chosen for being a public body's, without the award's name |

Exclusive execution depends on `HeartbeatMargin`: (missed renewals + 1) * interval <
lease. With the interval at a third of the lease the code tolerates one missed
renewal, not the two its comment names (`runtime/graph_runner.py:36`): the third
renewal comes when the lease has lapsed. `lapsed_wedge` shows the worst that follows,
since `apply_transition` (`infra/jobs.py:195`) checks neither the row's state nor the
attempt: a late failure puts a finished attempt's job back in the queue with a counter
behind its history. `AttemptsBudget` states the bound that holds of attempts: the cap
and one for each fault, because a reclaimed row is due again whatever its count is
(`runtime/sweeper.py`, `infra/jobs.py:reclaim_expired_leases`). Deadlock is checked in
every run of `AgentJobs`: a tick is always possible or a runner has something to do.

The workflow's bounds: two awards and lists of up to four entries contain every
kind of link, duplicates with and without a link in both orders, and one list above
the cap of three. The kinds of page give each branch of `decide_outcome` a candidate
that can be reached, and the pairs set each beside one of another verdict, so that a
verdict or a text that went to the wrong award would show. Two faults let an attempt be interrupted, resumed and
interrupted again, or a second fetch fail where the first succeeded. Deadlock is
not checked because a job that has ended takes no step; `RunEnds` says it gets there.

`ExactOutcome` is about the part of each behaviour before its first fault, and there
about every award that is not `unread`, whatever becomes of the others of its batch.
The same conclusion without that premise, `ResumeHarmless`, fails with one fault: pages
fetched before an interruption are not fetched again, their text is gone, and the
awards end as `MORE_EVIDENCE_REQUIRED` (`nodes.py:671`). `OutcomeSupported` is what remains: an
interruption costs evidence and never invents any. It also says that a review is
recommended only of an award that agrees on both claims: evidence for a claim is
added exactly when it agrees, so the last branch of `decide_outcome`, "the default",
is never reached through the workflow. And an award is auto-checked although the
comparing model did not answer, if the extractor read both values: then nobody
looked for contradictions.

`TextsConsumed` says that the comparison takes every text of its batch out of the
process, also where a second attempt could not fetch what the first one did. It does
not say that none is ever left behind. A job that ends in `failed_review` at
`fetch_official` or `compare_evidence` leaves its texts in `_official_text` for as long
as the process lives, and so do awards a list no longer has when it was split anew
after a checkpoint could not be written. No document promises otherwise, so no property
does. `MergeKeepsAwards` identifies an award with its key; that two awards with an
empty key are merged into one is not what it looks at.

The bounds of `retrieval`: two callers and a limit of one contend for a month's last
call, and for a host's lock; two calls in all let one caller follow another that was
cancelled; the second month and the second process see counts and settings that
changed; an interval of one tick is over or not; bodies are empty, thin or usable. Of
the three URLs, one is approved, one public on another host, one private: every verdict
of the guard occurs for every kind of call, and a redirect may leave the host for one
that another caller has its turn at. The run has 902 557 states.

`RequestsAllowed` is about the switches the process has read. `README.md:198`,
`docs/operations-runbook.md:142` and `tools/registry.py:9` promise more, that a flipped
switch takes effect on the next call without a deploy; `get_settings` is cached for the
life of the process (`core/config.py:166`), and `frozen_switches` shows a call that uses
a tool an operator has switched off before. The test of that promise changes the cached
object itself (`src/tests/test_tool_registry.py:49`), which no operator can.

`submission` has individual pages and lists, awards the product takes for one
discovery, one without a title, one without evidence and any set of titles the
product refuses. The third execution repeats calls after two that broke off anywhere, with
the rows of the call in flight written or not. `ExactlyOnce` says that an execution without
a note has left exactly the rows of one undisturbed execution; it needs the answer to
`submit_candidates` to name duplicates, as its docstring promises.

`checkpointer` needs four pools: one that fails to open, one whose setup fails, one
that is published and one a job makes after the shutdown. A setup that fails leaves
its pool open with nothing to close it (`leaked`), and a job that asks after
`close_checkpointer` opens a pool nobody closes; no document says otherwise, so no
property does. `GivenOpen` has one exception, which the code has too: while `_pool.close()`
is awaited at shutdown the globals still name the saver that is being closed.

`official_source` has a host for each rule: the source, its sibling, an aggregator
with only generic words, one that shares three letters with a name, public bodies
by label and by `europa.eu`, hosts named after an award, a host that is nobody's.
`AcceptanceUntouched` is the preference for public bodies as the comment at
`official_source.py:239` describes it. Two other sentences say something else: that the
labels are "used only to *reorder* results that already passed the naming test - never
to admit one that did not" (`official_source.py:117`), and that "a better-ranked but
unnamed result never wins" (`:202`). `OnlyNamed` states those, and `unnamed_body` shows
it violated: a public body ranked above the first named result wins without being named
(`:247`).

Fairness of the runtime (`FairSpec` of `AgentJobs`): a coroutine that can step does
(the event loop is fair, and `asyncio.timeout` ends every graph); the heartbeat runs
while its task lives; the sweeper loop goes on after any error
(`runtime/sweeper.py:85`); time passes. Of the workflow (`FairSpec` of `Workflow`):
the running node takes its next step, since every call has a timeout, and a job that
is due is claimed. Of the tools (`FairSpec` of `Retrieval`): time passes and each
suspended call goes on, because every request and transaction has a timeout and
`asyncio.Lock` serves its waiters in order; neither a cancellation nor a restart is
assumed. Of the checkpointer: opening is bounded by its own timeout, setup by the
database's answer, and the lock serves its waiters in order. Nothing is assumed of
clients, operators or faults, except that faults are finite in number.

## 4. Proofs

For every set of jobs, run-due requests, lease length, cap and number of faults:

* **Rows** (`AgentJobsProofs`: `RowsInvariant`, `TypeCorrect`, `LeaseWhileRunning`,
  `CompletedHasOutput`, `AttemptNumbersHaveRows`). `RowsInv` is inductive whether or
  not leases lapse. Types alone are not inductive: an outcome is written at index
  `run[r].number` of a history, so the index has to exist (`AttemptHasRow`), and it
  exists because the row's counter never runs ahead of the history
  (`AttemptsHaveRows`).
* **History** (`AgentJobsProofs`: `OutcomesStay`). No recorded outcome is rewritten,
  also when two workers run one job: two runners never carry the same attempt number
  of a job, because the number is taken together with its row, and a runner that
  carries an attempt has not yet written its outcome.
* **Exclusive execution** (`ExclusiveProofs`), from `HeartbeatMargin`, the assumption
  that (missed renewals + 1) * interval < lease. `ExclusiveInv` is inductive. Its core
  is `LeaseCoversMisses`: the row's lease always exceeds the time its runner may take
  until its last permitted renewal, so a lapsed lease belongs to nobody. With
  `WaitIffRetry` (a scheduled time exists only in `retry_wait`) and `BudgetLeft`
  (attempts against cap and faults) it gives `OneWorker`, `LeaseHeld`,
  `ClaimsGoThrough`, `HistoryExplains`, `AttemptsBounded` and `OutcomeIsFinal`.
  `lapsed_wedge` shows an instance where the margin is missing.
* **Refinement** (`RefinementProofs`: `RuntimeIsQueue`), from the same assumption. A
  job's holder is the runner whose `pc` says that it carries the job, which
  `OneWorkerPerJob` makes a function; every action is shown to be a `Begin`, a
  `BeginLost`, a `Conclude`, a `Release` or a step that the abstraction does not see.
* **Retrieval** (`RetrievalProofs`), for every finite set of callers and every set of
  hosts, URLs and settings. `CallInv` is inductive: of each call it relates where it
  is suspended to what it was given and has asked. `Vetted` (a call under way passed
  the guard and is at a tool that is on) gives `OnlyAllowed`; `NotRouted` (until
  `fetch_page` is at Jina it has not asked, and the failure it carries there is never
  a refusal) gives `RefusalStands`; `HoldsLongest` gives `LongerIsKept`. A restart
  changes the settings, and ends all calls with them. `AllCharged` needs the grants
  counted: requests made, and callers between grant and request (`GrantsCounted`, with
  the cardinality of the set of those), never exceed the count; a cancellation only
  takes a caller away. `BudgetHolds` is a property of each step. `HostsArePaced` maps
  the fetch of a host's page that is under way, whose fetch it is and where its request
  has got to, to `fetching` and `asked`, and `last[0]` to `quiet`; its core is
  `TurnHasLock`, that a caller between its turn and the end of its fetch holds the lock
  of the host of its URL, and `AskedWhileFetching`, that no request is under way
  otherwise. It says nothing of the host a redirect leads to, as `Pacing` does not.
* **Checkpointer** (`CheckpointerProofs`: `PoolIsOne`, `SaverIsGivenOpen`,
  `SaverHasTables`), for every set of background jobs. `CheckpointerInv` is inductive:
  the lock is held exactly by whoever makes or closes a pool (`LockHolder`), and while
  one is being made none is published (`Creating`, the test inside the lock); every
  pool is its creator's, published, or over (`PoolOwned`, `Published`); whoever has a
  saver has the published one, or had it at shutdown (`HasPublished`).

* **Workflow** (`WorkflowProofs`), for every set of awards, pages, truths, answers,
  fetches and faults. `WorkflowInv` is inductive. What it says of a state of the graph
  (`GraphGood`) holds of the running state and of the checkpoint alike, because an
  attempt resumes exactly what was saved: a list has no more candidates than the cap
  (`Capped`), each candidate's verdicts are its page's or unknown and its evidence
  follows them (`Faithful`), none has a verdict before `compare_evidence` or an outcome
  before `decide` (`Uncompared`, `NoneExpected`). `WorkGood` says the same of the half
  of a list that a loop has behind it, `TextGood` where texts can be, `SavedBehind` that
  the checkpoint is never ahead of the running state. It gives `WorkflowTypesCorrect`,
  `OutcomesSupported`, `JobOutcomesSupported`, `ComparisonTakesTexts`,
  `CheckpointsGoForward` and `BatchIsKept`. `OutcomesExact` is about the states no fault
  has touched, for any number of awards and candidates; whether faults may follow does
  not matter. `faults = 0 => ExactInv` is inductive beside the first, since a fault is
  never taken back (`FaultsCounted`): no award is listed twice once duplicates are merged
  (`Distinct`), or two candidates would share one text, and until the comparison the text
  of every fetched page that had one is in hand (`HasText`), which is what a crash takes
  away. `resumed_run` shows the conclusion false once there was a fault.
* **Merging** (`MergingKeepsAwards`). `dedupe_candidates` is a fold. `FoldTurns` unfolds
  it into one turn per candidate, and an induction over the turns shows that each award
  is there once, in the order of its first appearance, as its first version with a link
  or else its first (`MergedAll`).
* **Submission** (`SubmissionProofs`), for every page, setting, set of titles the
  product refuses and number of executions. Neither `ExactlyOnce` nor `MissingIsNoted`
  says anything before the node ends; `SubmissionInv` says what holds of the first `k`
  calls (`DoneTo`): each is noted or its row is there, and a discovery's run is the
  latest of those calls', whatever an execution that broke off left in the row. Rows
  are only ever meant ones (`OnlyMeant`), because an id a candidate has is its owner's
  (`Ids`), and past the first call every id is known or that call is noted (`Known`).
  That the list of calls misses no candidate and has them in order, the parent last, is
  an induction over `FlattenSeq` (`CallsShape`); `LastRunIsIntended` takes from it that
  the last run recorded for a discovery is the intended one, also where two candidates
  share it.
* **Official source** (`OfficialSourceProofs`: `AcceptanceIsUntouched`,
  `SecondDocumentApart`, `StrangersAlwaysStayOut`), for rankings of any length: what
  `pick_official` returns is characterised once (`Picked`), from which the three follow.
  Who the strangers are is `StrangersAssumption`: no public body, and no name in common
  with an award but generic words.

Induction. The library's induction theorems take an operator as a parameter, which
the provers cannot instantiate. `NatInductionOverSet` states the property as a set of
numbers instead and follows from the well-foundedness of `<`; with it the proofs show
that the functions behind `FoldLeft`, `FlattenSeq` and `backoff_seconds` exist and
what they compute. It is repeated in the three modules that use it.

Assumptions: those of the modules (`RetriesAssumption`, `JobsAssumption`,
`NoneAssumption`, `WorkflowAssumption`, `RetrievalAssumption`, `SubmissionAssumption`,
`CheckpointerAssumption`, `OfficialSourceAssumption`, `StrangersAssumption`), which
give constants their types and keep apart what the code keeps apart. `Submission`'s
says that the product never knows an award by the id of the page it was found on.
That backoff delays are numbers, and never above the maximum, is `BackoffType`. No
theorem assumes that faults are few.

Every safety property and every step property that a passing run checks has its
theorem. Only model-checked: liveness (`EventuallyTerminal`, `RunEnds`,
`EveryCallEnds`, `EveryGetReturns`), which is outside the prover, and what the five
violation runs refute.

## 5. Plan

In order:

1. An abstract specification of a submission: the intended rows appear in any order,
   and at the end all but the noted ones are there; `Submission` shown to implement it
   from `SubmissionInv`.
2. An abstract specification of the checkpointer: one saver for one life of the
   process, given out and closed; `Checkpointer` shown to implement it.

## 6. Not modelled

`PROJECT.json` lists every component with its status. HTTP, SQL and model calls are
outcomes an action chooses. Not modelled, because they keep no state a property here
is about: text processing (prompts, normalization, extraction, the writing and
resolving of URLs, the parsing of amounts and dates), the AI router client (one
request and its error mapping), the probe, read-only reporting, configuration,
migrations and the batch script. The rows of `agent_tool_calls` are the final status
of a call of `Retrieval`; nothing reads them back.
