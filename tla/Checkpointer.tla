---------------------------- MODULE Checkpointer ----------------------------
(***************************************************************************)
(* runtime/checkpoints.py and the lifespan of main.py: the process-wide    *)
(* saver, created by whichever coroutine needs it first and closed when    *)
(* the application stops, while background jobs may still be using it.     *)
(*                                                                         *)
(* A step runs from one await to the next.  The connection pools created   *)
(* are numbered; a saver is named by the number of its pool.               *)
(***************************************************************************)
EXTENDS Naturals, Sequences

CONSTANTS
  Tasks,          \* background jobs: neither awaited nor cancelled at shutdown
  Main,           \* the application's lifespan
  Sweeper,        \* the sweeper's task, cancelled at shutdown
  None,
  MaxPools        \* pools created: bounds the model

Coroutines == Tasks \cup {Main, Sweeper}

Pools == 1..MaxPools

ASSUME CheckpointerAssumption ==
  /\ Main \notin Tasks /\ Sweeper \notin Tasks /\ Main # Sweeper
  /\ None \notin Coroutines /\ None \notin Nat
  /\ MaxPools \in Nat

VARIABLES
  _pool, _saver,  \* the module's globals
  lock, queue,    \* _lock: who holds it, who waits for it in order
  at,             \* at[c]: where coroutine c is suspended
  got,            \* got[c]: the pool c creates, or of the saver it was given
  status,         \* status[p]: of the p-th pool
  created, shutdown

cvars == <<_pool, _saver, lock, queue, at, got, status, created, shutdown>>

Init ==
  /\ _pool = None /\ _saver = None
  /\ lock = None /\ queue = <<>>
  /\ at = [c \in Coroutines |-> "idle"]
  /\ got = [c \in Coroutines |-> None]
  /\ status = [p \in Pools |-> "none"]
  /\ created = 0
  /\ shutdown = FALSE

\* Each coroutine is in one of
\*   idle, waiting (for the lock), opening, setup (holding it), has (a saver),
\*   failed (get_checkpointer raised), closing (close_checkpointer), down.
Places == {"idle", "waiting", "opening", "setup", "has", "failed", "closing", "down"}

Moves(c, place) == at' = [at EXCEPT ![c] = place]

\* The lifespan asks once, when it starts; the sweeper runs until shutdown.
MayGet(c) ==
  /\ at[c] \in {"idle", "failed"}
  /\ c = Main => at[c] = "idle" /\ ~shutdown
  /\ c = Sweeper => at[Main] \in {"has", "failed"} /\ ~shutdown
  /\ c \in Tasks => at[Main] # "idle"

\* get_checkpointer, up to its first await: the test outside the lock.
Gets(c) ==
  /\ MayGet(c)
  /\ \/ /\ _saver # None
        /\ Moves(c, "has")
        /\ got' = [got EXCEPT ![c] = _saver]
        /\ UNCHANGED queue
     \/ /\ _saver = None
        /\ Moves(c, "waiting")
        /\ queue' = Append(queue, c)
        /\ UNCHANGED got
  /\ UNCHANGED <<_pool, _saver, lock, status, created, shutdown>>

\* Seeded fault: what was tested outside the lock is not tested again.
EntersUntested(c) ==
  /\ at[c] = "waiting" /\ lock = None /\ Head(queue) = c
  /\ queue' = Tail(queue)
  /\ created < MaxPools
  /\ created' = created + 1
  /\ lock' = c
  /\ Moves(c, "opening")
  /\ got' = [got EXCEPT ![c] = created + 1]
  /\ status' = [status EXCEPT ![created + 1] = "opening"]
  /\ UNCHANGED <<_pool, _saver, shutdown>>

\* The lock is taken and the saver tested again: returned, or a pool created.
Enters(c) ==
  /\ at[c] = "waiting" /\ lock = None /\ Head(queue) = c
  /\ queue' = Tail(queue)
  /\ \/ /\ _saver # None
        /\ Moves(c, "has")
        /\ got' = [got EXCEPT ![c] = _saver]
        /\ UNCHANGED <<lock, status, created>>
     \/ /\ _saver = None
        /\ created < MaxPools
        /\ created' = created + 1
        /\ lock' = c
        /\ Moves(c, "opening")
        /\ got' = [got EXCEPT ![c] = created + 1]
        /\ status' = [status EXCEPT ![created + 1] = "opening"]
  /\ UNCHANGED <<_pool, _saver, shutdown>>

\* Seeded fault: the lock is not released on the way out.
RaisesHolding(c) ==
  /\ Moves(c, "failed")
  /\ got' = [got EXCEPT ![c] = None]
  /\ UNCHANGED lock

\* Leaves get_checkpointer with an exception: the lock is released.
Raises(c) ==
  /\ lock' = None
  /\ Moves(c, "failed")
  /\ got' = [got EXCEPT ![c] = None]

\* Seeded fault: the saver is published before its tables exist.
OpensPublished(c) ==
  /\ at[c] = "opening"
  /\ status' = [status EXCEPT ![got[c]] = "open"]
  /\ Moves(c, "setup")
  /\ _pool' = got[c] /\ _saver' = got[c]
  /\ UNCHANGED <<lock, got, queue, created, shutdown>>

\* pool.open waits for a first connection; when none comes in time the pool
\* closes itself and raises.
Opens(c) ==
  /\ at[c] = "opening"
  /\ \/ /\ status' = [status EXCEPT ![got[c]] = "open"]
        /\ Moves(c, "setup")
        /\ UNCHANGED <<lock, got>>
     \/ /\ status' = [status EXCEPT ![got[c]] = "closed"]
        /\ Raises(c)
  /\ UNCHANGED <<_pool, _saver, queue, created, shutdown>>

\* saver.setup creates the tables, then pool and saver are published.  When it
\* fails nothing refers to the pool any more, and nothing closes it.
SetsUp(c) ==
  /\ at[c] = "setup"
  /\ \/ /\ status' = [status EXCEPT ![got[c]] = "ready"]
        /\ _pool' = got[c] /\ _saver' = got[c]
        /\ lock' = None
        /\ Moves(c, "has")
        /\ UNCHANGED got
     \/ /\ status' = [status EXCEPT ![got[c]] = "leaked"]
        /\ Raises(c)
        /\ UNCHANGED <<_pool, _saver>>
  /\ UNCHANGED <<queue, created, shutdown>>

\* A run is over and its coroutine done with the saver.
Finishes(c) ==
  /\ c # Main
  /\ at[c] = "has"
  /\ Moves(c, "idle")
  /\ got' = [got EXCEPT ![c] = None]
  /\ UNCHANGED <<_pool, _saver, lock, queue, status, created, shutdown>>

\* The application stops: the sweeper is cancelled wherever it is suspended.
Shutdown ==
  /\ at[Main] \in {"has", "failed"}
  /\ ~shutdown
  /\ shutdown' = TRUE
  /\ at' = [at EXCEPT ![Sweeper] = "down", ![Main] = "waiting"]
  /\ queue' = Append(SelectSeq(queue, LAMBDA c : c # Sweeper), Main)
  /\ got' = [got EXCEPT ![Sweeper] = None, ![Main] = None]
  /\ lock' = IF lock = Sweeper THEN None ELSE lock
  /\ status' = IF lock = Sweeper THEN [status EXCEPT ![got[Sweeper]] = "leaked"] ELSE status
  /\ UNCHANGED <<_pool, _saver, created>>

\* close_checkpointer, once it has the lock.
Closes ==
  /\ at[Main] = "waiting" /\ shutdown /\ lock = None /\ Head(queue) = Main
  /\ queue' = Tail(queue)
  /\ lock' = Main
  /\ Moves(Main, "closing")
  /\ status' = IF _pool = None THEN status ELSE [status EXCEPT ![_pool] = "closed"]
  /\ UNCHANGED <<_pool, _saver, got, created, shutdown>>

\* Seeded fault: the pool is forgotten, the saver built on it is not.
ClosedKeepingSaver ==
  /\ at[Main] = "closing"
  /\ _pool' = None
  /\ lock' = None
  /\ Moves(Main, "down")
  /\ UNCHANGED <<_saver, queue, got, status, created, shutdown>>

\* pool.close has returned; only now the globals are cleared.
Closed ==
  /\ at[Main] = "closing"
  /\ _pool' = None /\ _saver' = None
  /\ lock' = None
  /\ Moves(Main, "down")
  /\ UNCHANGED <<queue, got, status, created, shutdown>>

Step(c) ==
  \/ Gets(c)
  \/ (c # Main \/ ~shutdown) /\ Enters(c)
  \/ Opens(c)
  \/ SetsUp(c)
  \/ Finishes(c)

Next == (\E c \in Coroutines : Step(c)) \/ Shutdown \/ Closes \/ Closed

Spec == Init /\ [][Next]_cvars

\* Opening is bounded by CONNECT_TIMEOUT_SECONDS, setup by the database's
\* answer, and the lock serves its waiters in order.
FairSpec ==
  /\ Spec
  /\ \A c \in Coroutines :
       WF_cvars(((c # Main \/ ~shutdown) /\ Enters(c)) \/ Opens(c) \/ SetsUp(c))
  /\ WF_cvars(Closes) /\ WF_cvars(Closed)

-----------------------------------------------------------------------------
(* Properties *)

CheckpointerTypeOK ==
  /\ _pool \in Pools \cup {None} /\ _saver \in Pools \cup {None}
  /\ lock \in Coroutines \cup {None}
  /\ at \in [Coroutines -> Places]
  /\ got \in [Coroutines -> Pools \cup {None}]
  /\ status \in [Pools -> {"none", "opening", "open", "ready", "closed", "leaked"}]
  /\ created \in 0..MaxPools
  /\ shutdown \in BOOLEAN
  /\ _pool = _saver

\* Whoever asks first and however many ask meanwhile, there is one pool at a
\* time: beside the one published, or being made, any other is closed or was
\* left behind by a setup that failed.
OnePool ==
  \A p, q \in Pools :
    (status[p] \in {"opening", "open", "ready"} /\ status[q] \in {"opening", "open", "ready"})
      => p = q

SaverReady(c) == status[got[c]] = "ready" \/ (shutdown /\ status[got[c]] = "closed")

\* A saver is never given out before its tables exist, and until the
\* application stops it stays open under the runs that use it.
SaverIsReady == \A c \in Coroutines : at[c] = "has" => SaverReady(c)

\* No saver is given out that was closed before, not even to a job that asks
\* after the application has stopped; only while the pool is closing may it
\* still be (close_checkpointer clears the globals after its await).
GivenOpen ==
  [][\A c \in Coroutines :
       at[c] # "has" /\ at'[c] = "has" =>
         status'[got'[c]] = "ready" \/ at[Main] = "closing"]_cvars

\* Every coroutine that asks gets a saver or an exception: no failure keeps
\* the lock.
EveryGetReturns ==
  \A c \in Coroutines :
    (at[c] = "waiting") ~> (at[c] \in {"has", "failed", "down"} \/ created = MaxPools)

-----------------------------------------------------------------------------
(* Why: the inductive invariant *)

\* The lock is held by whoever creates a pool or closes the published one.
LockHolder ==
  /\ \A c \in Coroutines : at[c] \in {"opening", "setup", "closing"} <=> lock = c
  /\ at[Main] = "closing" => shutdown
  /\ \A c \in Coroutines \ {Main} : at[c] # "closing"

\* A pool is created only while none is published, and is its creator's own
\* until it is ready.
Creating ==
  \A c \in Coroutines : at[c] \in {"opening", "setup"} =>
    /\ _saver = None
    /\ got[c] \in 1..created
    /\ status[got[c]] = IF at[c] = "opening" THEN "opening" ELSE "open"

\* Every pool is accounted for: not created, its creator's, or published.
PoolOwned ==
  \A p \in Pools :
    /\ p > created <=> status[p] = "none"
    /\ status[p] \in {"opening", "open"} =>
         lock # None /\ at[lock] \in {"opening", "setup"} /\ got[lock] = p
    /\ status[p] = "ready" => _saver = p

\* What is published is ready, but for the time it takes to close it.
Published ==
  _saver # None =>
    status[_saver] = IF at[Main] = "closing" THEN "closed" ELSE "ready"

\* Whoever has a saver has the one that is published, or was at shutdown.
HasPublished ==
  \A c \in Coroutines : at[c] = "has" =>
    /\ got[c] # None
    /\ SaverReady(c)
    /\ got[c] = _saver \/ shutdown

CheckpointerInv ==
  /\ CheckpointerTypeOK
  /\ LockHolder
  /\ Creating
  /\ PoolOwned
  /\ Published
  /\ HasPublished

=============================================================================
