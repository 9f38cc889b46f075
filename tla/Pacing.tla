------------------------------- MODULE Pacing -------------------------------
(***************************************************************************)
(* What tools/throttle.py promises an origin: one process fetches pages of *)
(* one host one at a time, and begins a fetch only when Interval ticks     *)
(* have passed since the one before it ended.  A fetch that is redirected  *)
(* goes on at any host, its own or another, and keeps the turn it has: of  *)
(* requests that reach a host by redirects from others nothing is promised.*)
(***************************************************************************)
EXTENDS Naturals

CONSTANTS
  Hosts,
  Fetchers,       \* coroutines that fetch pages
  Interval,       \* fetch_min_host_interval_seconds, in ticks
  None

VARIABLES
  fetching,       \* fetching[h]: whose fetch of a page of h is under way
  asked,          \* asked[c]: the host that c's request is under way to
  quiet           \* quiet[h]: ticks since a fetch from h ended, up to Interval

pvars == <<fetching, asked, quiet>>

Init ==
  /\ fetching = [h \in Hosts |-> {}]
  /\ asked = [c \in Fetchers |-> None]
  /\ quiet = [h \in Hosts |-> Interval]

Fetch(c, h) ==
  /\ fetching[h] = {}
  /\ quiet[h] = Interval
  /\ fetching' = [fetching EXCEPT ![h] = {c}]
  /\ asked' = [asked EXCEPT ![c] = h]
  /\ UNCHANGED quiet

\* Nothing is asked of the host that a redirect leads to.
Redirected(c, h) ==
  /\ \E g \in Hosts : c \in fetching[g]
  /\ asked' = [asked EXCEPT ![c] = h]
  /\ UNCHANGED <<fetching, quiet>>

\* A turn ends: the page came, the fetch failed or was given up, or no request
\* was sent after all.
TurnEnds(h) ==
  /\ fetching' = [fetching EXCEPT ![h] = {}]
  /\ asked' = [c \in Fetchers |-> IF c \in fetching[h] THEN None ELSE asked[c]]
  /\ quiet' = [quiet EXCEPT ![h] = 0]

Longer(ticks) == IF ticks < Interval THEN ticks + 1 ELSE ticks

Tick ==
  /\ quiet' = [h \in Hosts |-> Longer(quiet[h])]
  /\ UNCHANGED <<fetching, asked>>

\* The promise is made per process: a new one knows of no earlier fetch.
Restart ==
  /\ fetching' = [h \in Hosts |-> {}]
  /\ asked' = [c \in Fetchers |-> None]
  /\ quiet' = [h \in Hosts |-> Interval]

Next ==
  \/ \E c \in Fetchers, h \in Hosts : Fetch(c, h) \/ Redirected(c, h)
  \/ \E h \in Hosts : TurnEnds(h)
  \/ Tick
  \/ Restart

Spec == Init /\ [][Next]_pvars

=============================================================================
