------------------------------ MODULE Retries ------------------------------
(***************************************************************************)
(* runtime/retries.py: the pure job state machine.  Every function of the  *)
(* file takes a job's columns and returns the columns to write; none of    *)
(* them reads or writes the database.                                      *)
(*                                                                         *)
(* A timestamp column is kept as the number of ticks left until it, so     *)
(* that "timestamp <= now" is "0 ticks left" and no clock value is needed. *)
(* NULL is None.  Error texts (last_error, its truncation) are left out.   *)
(***************************************************************************)
EXTENDS Integers

CONSTANTS
  MaxAttempts,    \* settings.job_max_attempts
  LeaseTicks,     \* settings.job_lease_seconds
  BaseBackoff,    \* BASE_BACKOFF_SECONDS
  MaxBackoff,     \* MAX_BACKOFF_SECONDS
  None            \* NULL

JobState == {"queued", "running", "retry_wait", "waiting_review",
             "completed", "failed_review", "cancelled"}

TERMINAL_STATES  == {"completed", "failed_review", "cancelled"}
CLAIMABLE_STATES == {"queued", "retry_wait"}

ErrorClass == {"retryable", "permanent"}

Timestamp == Nat \cup {None}

JobTransition ==
  [state: JobState, attempts: Nat,
   next_attempt_at: Timestamp, lease_expires_at: Timestamp]

-----------------------------------------------------------------------------
backoff_seconds(attempts) ==
  IF attempts < 1 THEN BaseBackoff
  ELSE LET doubled[n \in 1 .. attempts] ==
             IF n = 1 THEN BaseBackoff ELSE 2 * doubled[n - 1]
       IN  IF doubled[attempts] < MaxBackoff THEN doubled[attempts] ELSE MaxBackoff

\* Seeded fault: only a row without a lease counts as abandoned.
is_lease_missing(lease_expires_at) == lease_expires_at = None

is_lease_expired(lease_expires_at) == lease_expires_at \in {None, 0}

\* Seeded fault: a running job can be claimed again.
is_due_while_running(state, next_attempt_at) ==
  /\ state \in CLAIMABLE_STATES \cup {"running"}
  /\ next_attempt_at \in {None, 0}

\* Seeded fault: only the time is looked at, so a finished job is due.
is_due_by_time(state, next_attempt_at) ==
  /\ state # "absent" /\ state # "running"
  /\ next_attempt_at \in {None, 0}

is_due(state, next_attempt_at) ==
  /\ state \in CLAIMABLE_STATES
  /\ next_attempt_at \in {None, 0}

\* The transition claim() returns for a job that is due.
claim(attempts) ==
  [state |-> "running", attempts |-> attempts + 1,
   next_attempt_at |-> None, lease_expires_at |-> LeaseTicks]

succeed(attempts) ==
  [state |-> "completed", attempts |-> attempts,
   next_attempt_at |-> None, lease_expires_at |-> None]

\* Seeded fault: the exhaustion test is off, so only a permanent error parks.
failWithoutCap(attempts, error_class) ==
  [state |-> IF error_class = "permanent" THEN "failed_review" ELSE "retry_wait",
   attempts |-> attempts,
   next_attempt_at |-> IF error_class = "permanent" THEN None ELSE BaseBackoff,
   lease_expires_at |-> None]

fail(attempts, error_class) ==
  LET parked == error_class = "permanent" \/ attempts >= MaxAttempts
  IN  [state |-> IF parked THEN "failed_review" ELSE "retry_wait",
       attempts |-> attempts,
       next_attempt_at |-> IF parked THEN None ELSE backoff_seconds(attempts),
       lease_expires_at |-> None]

-----------------------------------------------------------------------------
ASSUME RetriesAssumption ==
  /\ MaxAttempts \in Nat \ {0}
  /\ LeaseTicks \in Nat \ {0}
  /\ BaseBackoff \in Nat
  /\ MaxBackoff \in Nat
  /\ None \notin Nat

=============================================================================
