------------------------- MODULE CheckpointerProofs -------------------------
(***************************************************************************)
(* Proofs about Checkpointer, for every set of background jobs and however *)
(* many pools are created: the lock makes creation exclusive, and what is  *)
(* created is published only when it is ready.                             *)
(***************************************************************************)
EXTENDS Checkpointer, TLAPS

USE CheckpointerAssumption DEF Coroutines, Pools, Places

\* The module's globals are empty and nobody has asked.
LEMMA InvInit == Init => CheckpointerInv
  <1> SUFFICES ASSUME Init PROVE CheckpointerInv
    OBVIOUS
  <1>1. CheckpointerTypeOK
    <2>1. at \in [Coroutines -> Places] /\ got \in [Coroutines -> Pools \cup {None}]
      BY DEF Init
    <2>2. status \in [Pools -> {"none", "opening", "open", "ready", "closed", "leaked"}]
      BY DEF Init
    <2>3. created \in 0..MaxPools
      BY DEF Init
    <2> QED
      BY <2>1, <2>2, <2>3 DEF Init, CheckpointerTypeOK
  <1>2. LockHolder
    BY DEF Init, LockHolder
  <1>3. Creating
    BY DEF Init, Creating
  <1>4. PoolOwned
    BY DEF Init, PoolOwned
  <1>5. Published
    BY DEF Init, Published
  <1>6. HasPublished
    BY DEF Init, HasPublished, SaverReady
  <1> QED
    BY <1>1, <1>2, <1>3, <1>4, <1>5, <1>6 DEF CheckpointerInv

\* Asking changes nothing but where the caller is.
LEMMA InvGets ==
  ASSUME CheckpointerInv, NEW c \in Coroutines, Gets(c)
  PROVE  CheckpointerInv'
  <1>1. CheckpointerTypeOK'
    BY DEF CheckpointerInv, Gets, MayGet, Moves, CheckpointerTypeOK, Creating
  <1>2. LockHolder'
    BY DEF CheckpointerInv, Gets, MayGet, Moves, CheckpointerTypeOK, LockHolder
  <1>3. Creating'
    BY DEF CheckpointerInv, Gets, MayGet, Moves, CheckpointerTypeOK, Creating,
       LockHolder, PoolOwned, Published
  <1>4. PoolOwned'
    BY DEF CheckpointerInv, Gets, MayGet, Moves, CheckpointerTypeOK, PoolOwned,
       LockHolder, Creating, Published
  <1>5. Published'
    BY DEF CheckpointerInv, Gets, MayGet, Moves, CheckpointerTypeOK, Published,
       LockHolder, Creating, PoolOwned
  <1>6. HasPublished'
    BY DEF CheckpointerInv, Gets, MayGet, Moves, CheckpointerTypeOK, HasPublished,
       SaverReady, Creating, LockHolder, Published, PoolOwned
  <1> QED
    BY <1>1, <1>2, <1>3, <1>4, <1>5, <1>6 DEF CheckpointerInv

\* Under the lock a pool is created only when none is published.
LEMMA InvEnters ==
  ASSUME CheckpointerInv, NEW c \in Coroutines, Enters(c)
  PROVE  CheckpointerInv'
  <1>1. CheckpointerTypeOK'
    BY DEF CheckpointerInv, Enters, Moves, CheckpointerTypeOK, Creating
  <1>2. LockHolder'
    BY DEF CheckpointerInv, Enters, Moves, CheckpointerTypeOK, LockHolder
  <1>3. Creating'
    BY DEF CheckpointerInv, Enters, Moves, CheckpointerTypeOK, Creating, LockHolder,
       PoolOwned, Published
  <1>4. PoolOwned'
    BY DEF CheckpointerInv, Enters, Moves, CheckpointerTypeOK, PoolOwned, LockHolder,
       Creating, Published
  <1>5. Published'
    BY DEF CheckpointerInv, Enters, Moves, CheckpointerTypeOK, Published, LockHolder,
       Creating, PoolOwned
  <1>6. HasPublished'
    BY DEF CheckpointerInv, Enters, Moves, CheckpointerTypeOK, HasPublished, SaverReady,
       Creating, LockHolder, Published, PoolOwned
  <1> QED
    BY <1>1, <1>2, <1>3, <1>4, <1>5, <1>6 DEF CheckpointerInv

\* The pool that opens or fails to is the lock holder's.
LEMMA InvOpens ==
  ASSUME CheckpointerInv, NEW c \in Coroutines, Opens(c)
  PROVE  CheckpointerInv'
  <1>1. CheckpointerTypeOK'
    BY DEF CheckpointerInv, Opens, Raises, Moves, CheckpointerTypeOK, Creating
  <1>2. LockHolder'
    BY DEF CheckpointerInv, Opens, Raises, Moves, CheckpointerTypeOK, LockHolder
  <1>3. Creating'
    BY DEF CheckpointerInv, Opens, Raises, Moves, CheckpointerTypeOK, Creating,
       LockHolder, PoolOwned, Published
  <1>4. PoolOwned'
    BY DEF CheckpointerInv, Opens, Raises, Moves, CheckpointerTypeOK, PoolOwned,
       LockHolder, Creating, Published
  <1>5. Published'
    BY DEF CheckpointerInv, Opens, Raises, Moves, CheckpointerTypeOK, Published,
       LockHolder, Creating, PoolOwned
  <1>6. HasPublished'
    BY DEF CheckpointerInv, Opens, Raises, Moves, CheckpointerTypeOK, HasPublished,
       SaverReady, Creating, LockHolder, Published, PoolOwned
  <1> QED
    BY <1>1, <1>2, <1>3, <1>4, <1>5, <1>6 DEF CheckpointerInv

\* What is published is the lock holder's pool, made ready.
LEMMA InvSetsUp ==
  ASSUME CheckpointerInv, NEW c \in Coroutines, SetsUp(c)
  PROVE  CheckpointerInv'
  <1>1. CheckpointerTypeOK'
    BY DEF CheckpointerInv, SetsUp, Raises, Moves, CheckpointerTypeOK, Creating
  <1>2. LockHolder'
    BY DEF CheckpointerInv, SetsUp, Raises, Moves, CheckpointerTypeOK, LockHolder
  <1>3. Creating'
    BY DEF CheckpointerInv, SetsUp, Raises, Moves, CheckpointerTypeOK, Creating,
       LockHolder, PoolOwned, Published
  <1>4. PoolOwned'
    BY DEF CheckpointerInv, SetsUp, Raises, Moves, CheckpointerTypeOK, PoolOwned,
       LockHolder, Creating, Published
  <1>5. Published'
    BY DEF CheckpointerInv, SetsUp, Raises, Moves, CheckpointerTypeOK, Published,
       LockHolder, Creating, PoolOwned
  <1>6. HasPublished'
    BY DEF CheckpointerInv, SetsUp, Raises, Moves, CheckpointerTypeOK, HasPublished,
       SaverReady, Creating, LockHolder, Published, PoolOwned
  <1> QED
    BY <1>1, <1>2, <1>3, <1>4, <1>5, <1>6 DEF CheckpointerInv

\* A coroutine gives its saver back.
LEMMA InvFinishes ==
  ASSUME CheckpointerInv, NEW c \in Coroutines, Finishes(c)
  PROVE  CheckpointerInv'
  <1>1. CheckpointerTypeOK'
    BY DEF CheckpointerInv, Finishes, Moves, CheckpointerTypeOK, Creating
  <1>2. LockHolder'
    BY DEF CheckpointerInv, Finishes, Moves, CheckpointerTypeOK, LockHolder
  <1>3. Creating'
    BY DEF CheckpointerInv, Finishes, Moves, CheckpointerTypeOK, Creating, LockHolder,
       PoolOwned, Published
  <1>4. PoolOwned'
    BY DEF CheckpointerInv, Finishes, Moves, CheckpointerTypeOK, PoolOwned, LockHolder,
       Creating, Published
  <1>5. Published'
    BY DEF CheckpointerInv, Finishes, Moves, CheckpointerTypeOK, Published, LockHolder,
       Creating, PoolOwned
  <1>6. HasPublished'
    BY DEF CheckpointerInv, Finishes, Moves, CheckpointerTypeOK, HasPublished,
       SaverReady, Creating, LockHolder, Published, PoolOwned
  <1> QED
    BY <1>1, <1>2, <1>3, <1>4, <1>5, <1>6 DEF CheckpointerInv

\* A sweeper cancelled under the lock leaves its pool behind.
LEMMA InvShutdown ==
  ASSUME CheckpointerInv, Shutdown
  PROVE  CheckpointerInv'
  <1>1. CheckpointerTypeOK'
    BY DEF CheckpointerInv, Shutdown, CheckpointerTypeOK, Creating
  <1>2. LockHolder'
    BY DEF CheckpointerInv, Shutdown, CheckpointerTypeOK, LockHolder
  <1>3. Creating'
    BY DEF CheckpointerInv, Shutdown, CheckpointerTypeOK, Creating, LockHolder,
       PoolOwned, Published
  <1>4. PoolOwned'
    BY DEF CheckpointerInv, Shutdown, CheckpointerTypeOK, PoolOwned, LockHolder,
       Creating, Published
  <1>5. Published'
    BY DEF CheckpointerInv, Shutdown, CheckpointerTypeOK, Published, LockHolder,
       Creating, PoolOwned
  <1>6. HasPublished'
    BY DEF CheckpointerInv, Shutdown, CheckpointerTypeOK, HasPublished, SaverReady,
       Creating, LockHolder, Published, PoolOwned
  <1> QED
    BY <1>1, <1>2, <1>3, <1>4, <1>5, <1>6 DEF CheckpointerInv

\* Only the published pool is closed.
LEMMA InvCloses ==
  ASSUME CheckpointerInv, Closes
  PROVE  CheckpointerInv'
  <1>1. CheckpointerTypeOK'
    BY DEF CheckpointerInv, Closes, Moves, CheckpointerTypeOK, Creating
  <1>2. LockHolder'
    BY DEF CheckpointerInv, Closes, Moves, CheckpointerTypeOK, LockHolder
  <1>3. Creating'
    BY DEF CheckpointerInv, Closes, Moves, CheckpointerTypeOK, Creating, LockHolder,
       PoolOwned, Published
  <1>4. PoolOwned'
    BY DEF CheckpointerInv, Closes, Moves, CheckpointerTypeOK, PoolOwned, LockHolder,
       Creating, Published
  <1>5. Published'
    BY DEF CheckpointerInv, Closes, Moves, CheckpointerTypeOK, Published, LockHolder,
       Creating, PoolOwned
  <1>6. HasPublished'
    BY DEF CheckpointerInv, Closes, Moves, CheckpointerTypeOK, HasPublished, SaverReady,
       Creating, LockHolder, Published, PoolOwned
  <1> QED
    BY <1>1, <1>2, <1>3, <1>4, <1>5, <1>6 DEF CheckpointerInv

\* The globals are cleared under the lock.
LEMMA InvClosed ==
  ASSUME CheckpointerInv, Closed
  PROVE  CheckpointerInv'
  <1>1. CheckpointerTypeOK'
    BY DEF CheckpointerInv, Closed, Moves, CheckpointerTypeOK, Creating
  <1>2. LockHolder'
    BY DEF CheckpointerInv, Closed, Moves, CheckpointerTypeOK, LockHolder
  <1>3. Creating'
    BY DEF CheckpointerInv, Closed, Moves, CheckpointerTypeOK, Creating, LockHolder,
       PoolOwned, Published
  <1>4. PoolOwned'
    BY DEF CheckpointerInv, Closed, Moves, CheckpointerTypeOK, PoolOwned, LockHolder,
       Creating, Published
  <1>5. Published'
    BY DEF CheckpointerInv, Closed, Moves, CheckpointerTypeOK, Published, LockHolder,
       Creating, PoolOwned
  <1>6. HasPublished'
    BY DEF CheckpointerInv, Closed, Moves, CheckpointerTypeOK, HasPublished, SaverReady,
       Creating, LockHolder, Published, PoolOwned
  <1> QED
    BY <1>1, <1>2, <1>3, <1>4, <1>5, <1>6 DEF CheckpointerInv

\* Every step keeps the invariant.
LEMMA InvStep == CheckpointerInv /\ [Next]_cvars => CheckpointerInv'
  <1> SUFFICES ASSUME CheckpointerInv, [Next]_cvars
               PROVE  CheckpointerInv'
    OBVIOUS
  <1>1. CASE \E c \in Coroutines : Step(c)
    <2> PICK c \in Coroutines : Step(c)
      BY <1>1
    <2> QED
      BY InvGets, InvEnters, InvOpens, InvSetsUp, InvFinishes DEF Step
  <1>2. CASE Shutdown \/ Closes \/ Closed
    BY <1>2, InvShutdown, InvCloses, InvClosed
  <1>3. CASE UNCHANGED cvars
    BY <1>3 DEF cvars, CheckpointerInv, CheckpointerTypeOK, LockHolder, Creating,
       PoolOwned,
                Published, HasPublished, SaverReady
  <1> QED
    BY <1>1, <1>2, <1>3 DEF Next

\* The invariant, for every set of jobs and every number of pools.
THEOREM SaverInvariant == Spec => []CheckpointerInv
  <1> QED
    BY InvInit, InvStep, PTL DEF Spec

\* However many coroutines ask at once, there is one pool at a time
\* (get_checkpointer's second test, under the lock).
THEOREM PoolIsOne == Spec => []OnePool
  <1>1. CheckpointerInv => OnePool
    BY DEF CheckpointerInv, CheckpointerTypeOK, PoolOwned, Published, Creating, OnePool
  <1> QED
    BY <1>1, SaverInvariant, PTL

\* No coroutine is given a saver without its tables, or loses its pool before
\* the application stops.
THEOREM SaverHasTables == Spec => []SaverIsReady
  <1>1. CheckpointerInv => SaverIsReady
    BY DEF CheckpointerInv, HasPublished, SaverIsReady
  <1> QED
    BY <1>1, SaverInvariant, PTL

\* Whoever is given a saver is given an open one, but for the time the pool
\* takes to close.
THEOREM SaverIsGivenOpen == Spec => GivenOpen
  <1> DEFINE Given(c) == at[c] # "has" /\ at'[c] = "has"
             Open(c)  == status'[got'[c]] = "ready" \/ at[Main] = "closing"
  <1>1. ASSUME CheckpointerInv, Next, NEW c \in Coroutines, Given(c)
        PROVE  Open(c)
    <2>1. CheckpointerTypeOK /\ at \in [Coroutines -> Places]
      BY <1>1 DEF CheckpointerInv, CheckpointerTypeOK
    <2>2. _saver # None /\ at[Main] # "closing" => status[_saver] = "ready"
      BY <1>1 DEF CheckpointerInv, Published
    <2>3. ASSUME NEW d \in Coroutines, Gets(d)
          PROVE  Open(c)
      BY <1>1, <2>1, <2>2, <2>3 DEF Gets, Moves, CheckpointerTypeOK
    <2>4. ASSUME NEW d \in Coroutines, Enters(d)
          PROVE  Open(c)
      BY <1>1, <2>1, <2>2, <2>4 DEF Enters, Moves, CheckpointerTypeOK
    <2>5. ASSUME NEW d \in Coroutines, SetsUp(d)
          PROVE  Open(c)
      <3>1. got[d] \in Pools
        BY <1>1, <2>1, <2>5 DEF CheckpointerInv, CheckpointerTypeOK, Creating, SetsUp
      <3> QED
        BY <1>1, <2>1, <2>5, <3>1 DEF SetsUp, Raises, Moves, CheckpointerTypeOK
    <2>6. CASE \/ \E d \in Coroutines : Opens(d) \/ Finishes(d)
               \/ Shutdown \/ Closes \/ Closed
      BY <1>1, <2>1, <2>6 DEF Opens, Finishes, Raises, Moves, Shutdown, Closes, Closed
    <2> QED
      BY <1>1, <2>3, <2>4, <2>5, <2>6 DEF Next, Step
  <1>2. CheckpointerInv /\ [Next]_cvars =>
          [\A c \in Coroutines : Given(c) => Open(c)]_cvars
    BY <1>1
  <1> QED
    BY <1>2, SaverInvariant, PTL DEF Spec, GivenOpen
=============================================================================
