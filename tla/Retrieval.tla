----------------------------- MODULE Retrieval -----------------------------
(***************************************************************************)
(* tools/: how the coroutines of one process obtain pages and search       *)
(* results.  fetch_page, fetch_official_page and search_web, with the URL  *)
(* guard, the kill switches, the monthly budget of the Jina key (reader    *)
(* and search share it) and the pacing of direct requests per host.        *)
(*                                                                         *)
(* A step runs from one await to the next.  Of a body only its length      *)
(* counts, on a scale where MIN_USABLE_BODY_CHARS separates a page from a  *)
(* stub.  The guard's verdict on a URL is its class, but a name is looked  *)
(* up anew at every validation and any lookup may fail.                    *)
(*                                                                         *)
(* A direct fetch has its turn at the host of the URL it was asked for.  A *)
(* redirect may lead to another host, for which no turn is taken.          *)
(***************************************************************************)
EXTENDS Naturals, Sequences, FiniteSets, TLC

CONSTANTS
  Callers,        \* coroutines, each making one call at a time
  Hosts,
  Urls,
  Host,           \* Host[u]: the host of u
  Class,          \* Class[u]: "approved", "public" or "private"
  Configs,        \* the settings an operator may configure
  Changes,        \* the changes of them tried: pairs of Configs (a bound)
  Lengths, MIN_USABLE_BODY_CHARS,
  Interval,       \* fetch_min_host_interval_seconds, in ticks
  None,
  MaxCalls, MaxPeriod, MaxRestarts    \* bounds of the model

Kinds == {"fetch_page", "fetch_official_page", "search_web"}

DIRECT_FETCH == "direct_fetch"
JINA == "jina"
JINA_SEARCH == "jina_search"
Tools == {DIRECT_FETCH, JINA, JINA_SEARCH}

Periods == 1..MaxPeriod

ASSUME RetrievalAssumption ==
  /\ None \notin Callers
  /\ IsFiniteSet(Callers)
  /\ None \notin Urls
  /\ Host \in [Urls -> Hosts]
  /\ Class \in [Urls -> {"approved", "public", "private"}]
  /\ Configs \subseteq [key : BOOLEAN, disabled : SUBSET Tools, limit : Nat]
  /\ Configs # {} /\ Changes \subseteq Configs \X Configs
  /\ Lengths \subseteq Nat
  /\ MIN_USABLE_BODY_CHARS \in Nat
  /\ Interval \in Nat \ {0}
  /\ MaxPeriod \in Nat \ {0}
  /\ MaxCalls \in Nat /\ MaxRestarts \in Nat

\* 202 stands for every status that is neither a page nor an error.
Statuses == {200, 202, 404}

RetrievedPage == [status_code : Statuses, length : Lengths]

NoPage == [status_code |-> 0, length |-> 0]

ToolStatus == {"ok", "error", "disabled", "refused"}

\* Where a call is suspended: waiting for the host's lock, holding it through
\* the rest of the interval, for the answer of a direct request or of the one
\* redirect it may follow, for the budget's transaction, before and after the
\* request to Jina.
Places == {"idle", "pace", "turn", "direct", "hop", "reserve", "granted",
           "jina", "ended"}

CallRecord ==
  [kind : Kinds, url : Urls \cup {None}, at : Places, period : Periods,
   page : RetrievedPage \cup {NoPage},
   failure : {"none"} \cup ToolStatus, status : ToolStatus]

\* A call as it is made, with nothing fetched and nothing failed yet.
Fresh(kind, url) ==
  [kind |-> kind, url |-> url, at |-> "idle", period |-> 1, page |-> NoPage,
   failure |-> "none", status |-> "ok"]

Idle == Fresh("fetch_page", None)

VARIABLES
  settings,       \* get_settings(): read once per process, and cached
  configured,     \* the settings a new process would read
  month,          \* the current calendar month
  calls_used,     \* rows of agent_research_usage, by period_key
  call,           \* call[c]: the call c makes, or made last
  holder,         \* holder[h]: who holds the lock of h
  waiting,        \* waiting[h]: who waits for it, in order
  since,          \* since[h]: ticks since last[0], up to Interval
  asked,          \* asked[c]: the host c's direct request is under way to
  begun, restarts,\* counters of the bounds
  jina_sent,      \* checking only: requests to Jina, by the period charged
  reached,        \* checking only: what each call asked and of whom
  best            \* checking only: the longest 200 body each call was given

rvars == <<settings, configured, month, calls_used, call, holder, waiting, since,
           asked, begun, restarts, jina_sent, reached, best>>
pacing == <<holder, waiting, since, asked>>
world == <<settings, configured, month, begun, restarts>>

Init ==
  /\ settings \in Configs
  /\ configured = settings
  /\ month = 1
  /\ calls_used = [p \in Periods |-> 0]
  /\ call = [c \in Callers |-> Idle]
  /\ holder = [h \in Hosts |-> None]
  /\ waiting = [h \in Hosts |-> <<>>]
  /\ since = [h \in Hosts |-> Interval]
  /\ asked = [c \in Callers |-> None]
  /\ begun = 0
  /\ restarts = 0
  /\ jina_sent = [p \in Periods |-> 0]
  /\ reached = [c \in Callers |-> {}]
  /\ best = [c \in Callers |-> 0]

-----------------------------------------------------------------------------
(* Guard, switches, budget *)

\* Only official pages are fetched with allow_any_public_domain.
validate_source_url(kind, url) ==
  \/ Class[url] = "approved"
  \/ Class[url] = "public" /\ kind = "fetch_official_page"

\* Asked at every use, but of the settings this process has read.
is_enabled(tool) == tool \notin settings.disabled

JinaTool(kind) == IF kind = "search_web" THEN JINA_SEARCH ELSE JINA

\* An unconfigured key means no Jina, whatever the switches say.
MayAskJina(kind) == settings.key /\ is_enabled(JinaTool(kind))

\* Seeded fault: the WHERE alone, which does not see a period's first insert.
reserve_call_unguarded(used, limit) == used = 0 \/ used < limit

\* Whether the upsert of reserve_call lands: its WHERE guards the update of an
\* existing row only, so a limit of zero is refused before it.
reserve_call(used, limit) == limit > 0 /\ used < limit

-----------------------------------------------------------------------------
(* How a call goes on.  Each of these determines call' and waiting'. *)

Goes(c, r) ==
  /\ call' = [call EXCEPT ![c] = r]
  /\ UNCHANGED waiting

\* observe: what a call that returned or raised is recorded as.
Ended(r, status, page) ==
  [kind |-> r.kind, url |-> r.url, at |-> "ended", period |-> 1, page |-> page,
   failure |-> "none", status |-> status]

Ends(c, r, status, page) == Goes(c, Ended(r, status, page))

\* An error of any other kind leaves the tool, whatever else it might try.
OtherError(c) == Ends(c, call[c], "error", NoPage)

\* host_pace: the lock's waiters are served in order.
JoinsQueue(c, r) ==
  /\ call' = [call EXCEPT ![c] = [r EXCEPT !.at = "pace"]]
  /\ waiting' = [waiting EXCEPT ![Host[r.url]] = Append(@, c)]

\* fetch_page without Jina: the direct page after all, or the direct failure.
Settles(c, r) ==
  IF r.failure = "none" THEN Ends(c, r, "ok", r.page)
  ELSE Ends(c, r, r.failure, NoPage)

OfficialDirect(c, r) ==
  IF is_enabled(DIRECT_FETCH) THEN JoinsQueue(c, r)
  ELSE Ends(c, r, "disabled", NoPage)

\* _try_jina returned None, or search_web has no results.
WithoutJina(c, r, status) ==
  CASE r.kind = "fetch_page" -> Settles(c, r)
    [] r.kind = "fetch_official_page" -> OfficialDirect(c, r)
    [] r.kind = "search_web" -> Ends(c, r, status, NoPage)

\* Seeded fault: the budget bounds the reader only.
TryJinaSearchUncharged(c, r) ==
  IF MayAskJina(r.kind)
  THEN Goes(c, [r EXCEPT !.at = IF r.kind = "search_web" THEN "granted" ELSE "reserve",
                         !.period = month])
  ELSE WithoutJina(c, r, "refused")

\* Seeded fault: the call is charged to the month after.
TryJinaNextMonth(c, r) ==
  IF MayAskJina(r.kind)
  THEN Goes(c, [r EXCEPT !.at = "reserve", !.period = month + 1])
  ELSE WithoutJina(c, r, "refused")

\* The period is named before the transaction that charges it.
TryJina(c, r) ==
  IF MayAskJina(r.kind)
  THEN Goes(c, [r EXCEPT !.at = "reserve", !.period = month])
  ELSE WithoutJina(c, r, "refused")

FetchPageDirect(c, r) ==
  IF is_enabled(DIRECT_FETCH) THEN JoinsQueue(c, r)
  ELSE TryJina(c, [r EXCEPT !.failure = "disabled"])

\* Seeded fault: the fallback takes a refusal for one more failure.
RefusedDirectRouted(c) ==
  IF call[c].kind = "fetch_page"
  THEN TryJina(c, [call[c] EXCEPT !.failure = "refused"])
  ELSE Ends(c, call[c], "refused", NoPage)

\* A ValueError of fetch_source is never a reason to try another route.
RefusedDirect(c) == Ends(c, call[c], "refused", NoPage)

\* The direct fetch gave a page.
GotDirect(c, page) ==
  LET r == [call[c] EXCEPT !.page = page] IN
  IF r.kind = "fetch_page"
  THEN IF page.status_code # 200 \/ page.length < MIN_USABLE_BODY_CHARS
       THEN TryJina(c, r)
       ELSE Ends(c, r, "ok", page)
  ELSE IF page.status_code >= 400
       THEN Ends(c, r, "error", NoPage)
       ELSE Ends(c, r, "ok", page)

\* The direct fetch failed in transport.
FailedDirect(c) ==
  IF call[c].kind = "fetch_page"
  THEN TryJina(c, [call[c] EXCEPT !.failure = "error"])
  ELSE Ends(c, call[c], "error", NoPage)

\* Seeded fault: whatever Jina returned is taken.
DidBetterAlways(r, page) == TRUE

\* Whether a Jina render replaces what fetch_page holds.
DidBetter(r, page) ==
  \/ r.failure # "none"
  \/ r.page.status_code # 200
  \/ page.length > r.page.length

GotJina(c, page) ==
  LET r == call[c] IN
  CASE r.kind = "fetch_page" ->
         IF DidBetter(r, page) THEN Ends(c, r, "ok", page) ELSE Settles(c, r)
    [] r.kind = "fetch_official_page" ->
         IF page.length < MIN_USABLE_BODY_CHARS THEN OfficialDirect(c, r)
         ELSE Ends(c, r, "ok", page)
    [] r.kind = "search_web" -> Ends(c, r, "ok", NoPage)

-----------------------------------------------------------------------------
(* Calls *)

Requests(c, fetcher, url) ==
  reached' = [reached EXCEPT ![c] = @ \cup {<<fetcher, url>>}]

\* Seeded fault: the kill switch is looked at before the URL is.
FetchesUnvetted(c, r) ==
  IF r.kind = "fetch_page" /\ ~is_enabled(DIRECT_FETCH)
  THEN TryJina(c, [r EXCEPT !.failure = "disabled"])
  ELSE /\ validate_source_url(r.kind, r.url)
       /\ IF r.kind = "fetch_page" THEN FetchPageDirect(c, r) ELSE TryJina(c, r)

\* fetch_page and fetch_official_page validate the URL before any tool is
\* chosen; the lookup of an allowed name may fail too.
Fetches(c, r) ==
  \/ Ends(c, r, "refused", NoPage)
  \/ /\ validate_source_url(r.kind, r.url)
     /\ IF r.kind = "fetch_page" THEN FetchPageDirect(c, r) ELSE TryJina(c, r)

\* A call is made.  A query has no URL.
Begin(c) ==
  /\ call[c].at \in {"idle", "ended"}
  /\ begun < MaxCalls
  /\ \/ TryJina(c, Fresh("search_web", None))
     \/ \E kind \in Kinds \ {"search_web"}, url \in Urls :
          Fetches(c, Fresh(kind, url))
  /\ begun' = begun + 1
  /\ reached' = [reached EXCEPT ![c] = {}]
  /\ best' = [best EXCEPT ![c] = 0]
  /\ UNCHANGED <<settings, configured, month, calls_used, holder, since, asked,
                 restarts, jina_sent>>

\* Seeded fault: callers are spaced, but not kept apart.
TakesLockUnserialized(c) ==
  LET h == Host[call[c].url] IN
  /\ call[c].at = "pace"
  /\ Head(waiting[h]) = c
  /\ holder' = [holder EXCEPT ![h] = c]
  /\ waiting' = [waiting EXCEPT ![h] = Tail(@)]
  /\ call' = [call EXCEPT ![c].at = "turn"]
  /\ UNCHANGED <<world, calls_used, since, asked, jina_sent, reached, best>>

\* The first waiter takes the lock of its host.
TakesLock(c) ==
  LET h == Host[call[c].url] IN
  /\ call[c].at = "pace"
  /\ holder[h] = None
  /\ Head(waiting[h]) = c
  /\ holder' = [holder EXCEPT ![h] = c]
  /\ waiting' = [waiting EXCEPT ![h] = Tail(@)]
  /\ call' = [call EXCEPT ![c].at = "turn"]
  /\ UNCHANGED <<world, calls_used, since, asked, jina_sent, reached, best>>

\* The way out of host_pace: the time is stamped and the lock released.
Leaves(c) ==
  LET h == Host[call[c].url] IN
  /\ since' = [since EXCEPT ![h] = 0]
  /\ holder' = [holder EXCEPT ![h] = None]

\* The interval has passed.  fetch_source validates the URL once more, then
\* the request is sent.
SendsDirect(c) ==
  /\ call[c].at = "turn"
  /\ since[Host[call[c].url]] = Interval
  /\ \/ /\ Goes(c, [call[c] EXCEPT !.at = "direct"])
        /\ Requests(c, "direct", call[c].url)
        /\ asked' = [asked EXCEPT ![c] = Host[call[c].url]]
        /\ UNCHANGED <<holder, since>>
     \/ /\ Leaves(c)
        /\ RefusedDirect(c)
        /\ UNCHANGED <<reached, asked>>
  /\ UNCHANGED <<world, calls_used, jina_sent, best>>

\* The one redirect that is followed, to a URL vetted like the first.  It may
\* be another host's, whose turn is not waited for.
Redirected(c) ==
  /\ call[c].at = "direct"
  /\ \E url \in Urls :
       /\ validate_source_url(call[c].kind, url)
       /\ Goes(c, [call[c] EXCEPT !.at = "hop"])
       /\ Requests(c, "direct", url)
       /\ asked' = [asked EXCEPT ![c] = Host[url]]
  /\ UNCHANGED <<world, calls_used, holder, since, jina_sent, best>>

\* The direct fetch is over: a redirect without a destination or to one the
\* guard refuses, a body over the limit, a transport failure, another error,
\* or a page.
DirectEnds(c) ==
  /\ call[c].at \in {"direct", "hop"}
  /\ Leaves(c)
  /\ asked' = [asked EXCEPT ![c] = None]
  /\ \/ RefusedDirect(c) /\ UNCHANGED best
     \/ FailedDirect(c) /\ UNCHANGED best
     \/ OtherError(c) /\ UNCHANGED best
     \/ \E status \in Statuses, length \in Lengths :
          /\ GotDirect(c, [status_code |-> status, length |-> length])
          /\ best' = [best EXCEPT ![c] = IF status = 200 THEN length ELSE @]
  /\ UNCHANGED <<world, calls_used, jina_sent, reached>>

Charged(c) == [calls_used EXCEPT ![call[c].period] = @ + 1]

\* One transaction decides and counts.  When it fails its caller sees the
\* exception, whether or not the count was committed.
Reserve(c) ==
  /\ call[c].at = "reserve"
  /\ LET lands == reserve_call(calls_used[call[c].period], settings.limit) IN
     \/ /\ lands
        /\ calls_used' = Charged(c)
        /\ Goes(c, [call[c] EXCEPT !.at = "granted"])
     \/ /\ ~lands
        /\ WithoutJina(c, call[c], "refused")
        /\ UNCHANGED calls_used
     \/ /\ calls_used' \in {calls_used} \cup (IF lands THEN {Charged(c)} ELSE {})
        /\ OtherError(c)
  /\ UNCHANGED <<world, holder, since, asked, jina_sent, reached, best>>

AsksJina(c) ==
  /\ call[c].at = "granted"
  /\ Goes(c, [call[c] EXCEPT !.at = "jina"])
  /\ jina_sent' = [jina_sent EXCEPT ![call[c].period] = @ + 1]
  /\ Requests(c, JinaTool(call[c].kind), call[c].url)
  /\ UNCHANGED <<world, calls_used, holder, since, asked, best>>

\* fetch_via_jina and search_via_jina: an answer, an error that callers take
\* for none, or one that they do not expect.
JinaAnswers(c) ==
  /\ call[c].at = "jina"
  /\ \/ WithoutJina(c, call[c], "error") /\ UNCHANGED best
     \/ OtherError(c) /\ UNCHANGED best
     \/ \E length \in Lengths :
          /\ GotJina(c, [status_code |-> 200, length |-> length])
          /\ best' = [best EXCEPT ![c] = IF length > @ THEN length ELSE @]
  /\ UNCHANGED <<world, calls_used, holder, since, asked, jina_sent, reached>>

\* Seeded fault: a caller cancelled in its sleep keeps the lock.
LetsGoHeld(c) ==
  IF call[c].at \in {"direct", "hop"} THEN Leaves(c) ELSE UNCHANGED <<holder, since>>

\* What a cancelled caller leaves of its host's pacing: the time is stamped
\* once the interval was waited out, and the lock is released in any case.
LetsGo(c) ==
  CASE call[c].at \in {"direct", "hop"} -> Leaves(c)
    [] call[c].at = "turn" ->
         holder' = [holder EXCEPT ![Host[call[c].url]] = None] /\ UNCHANGED since
    [] OTHER -> UNCHANGED <<holder, since>>

\* The job's time limit cancels the call wherever it is suspended.  observe
\* does not catch that, so its record keeps the status it was made with.
Cancelled(c) ==
  /\ call[c].at \notin {"idle", "ended"}
  /\ call' = [call EXCEPT ![c] = Ended(@, "ok", NoPage)]
  /\ waiting' = IF call[c].at = "pace"
                THEN [waiting EXCEPT ![Host[call[c].url]] = SelectSeq(@, LAMBDA w : w # c)]
                ELSE waiting
  /\ LetsGo(c)
  /\ asked' = [asked EXCEPT ![c] = None]
  /\ \/ UNCHANGED calls_used
     \/ /\ call[c].at = "reserve"
        /\ reserve_call(calls_used[call[c].period], settings.limit)
        /\ calls_used' = Charged(c)
  /\ UNCHANGED <<world, jina_sent, reached, best>>

Longer(ticks) == IF ticks < Interval THEN ticks + 1 ELSE ticks

Tick ==
  /\ \E h \in Hosts : since[h] < Interval
  /\ since' = [h \in Hosts |-> Longer(since[h])]
  /\ UNCHANGED <<world, calls_used, call, holder, waiting, asked, jina_sent, reached, best>>

NewMonth ==
  /\ month < MaxPeriod
  /\ month' = month + 1
  /\ UNCHANGED <<settings, configured, calls_used, call, pacing, begun, restarts,
                 jina_sent, reached, best>>

\* An operator changes the configuration, which the process does not see.
\* (Bounds: one change before each restart, and none after the last.)
Reconfigure ==
  /\ restarts < MaxRestarts
  /\ configured = settings
  /\ \E change \in Changes : change[1] = configured /\ configured' = change[2]
  /\ UNCHANGED <<settings, month, calls_used, call, pacing, begun, restarts,
                 jina_sent, reached, best>>

\* The process dies and another starts, with the settings configured by then;
\* the rows of agent_research_usage are all that is left.
Restart ==
  /\ restarts < MaxRestarts
  /\ restarts' = restarts + 1
  /\ settings' = configured
  /\ call' = [c \in Callers |-> Idle]
  /\ holder' = [h \in Hosts |-> None]
  /\ waiting' = [h \in Hosts |-> <<>>]
  /\ since' = [h \in Hosts |-> Interval]
  /\ asked' = [c \in Callers |-> None]
  /\ reached' = [c \in Callers |-> {}]
  /\ best' = [c \in Callers |-> 0]
  /\ UNCHANGED <<configured, month, calls_used, begun, jina_sent>>

Step(c) ==
  \/ TakesLock(c)
  \/ SendsDirect(c)
  \/ Redirected(c) \/ DirectEnds(c)
  \/ Reserve(c)
  \/ AsksJina(c)
  \/ JinaAnswers(c)

Next ==
  \/ \E c \in Callers : Begin(c) \/ Step(c) \/ Cancelled(c)
  \/ Tick
  \/ NewMonth
  \/ Reconfigure
  \/ Restart

Spec == Init /\ [][Next]_rvars

\* Every await ends: each external call has a timeout, asyncio.Lock serves its
\* waiters in order, and the event loop runs whatever is ready.
FairSpec == Spec /\ WF_rvars(Tick) /\ \A c \in Callers : WF_rvars(Step(c))

-----------------------------------------------------------------------------
(* Properties *)

RetrievalTypeOK ==
  /\ settings \in Configs /\ configured \in Configs
  /\ month \in Periods
  /\ calls_used \in [Periods -> Nat]
  /\ call \in [Callers -> CallRecord]
  /\ holder \in [Hosts -> Callers \cup {None}]
  /\ DOMAIN waiting = Hosts
  /\ since \in [Hosts -> 0..Interval]
  /\ asked \in [Callers -> Hosts \cup {None}]
  /\ begun \in Nat /\ restarts \in Nat
  /\ jina_sent \in [Periods -> Nat]
  /\ reached \in [Callers -> SUBSET ((Tools \cup {"direct"}) \X (Urls \cup {None}))]
  /\ best \in [Callers -> Nat]

MayRequest(kind, request) ==
  /\ request[1] = "direct" => is_enabled(DIRECT_FETCH)
  /\ request[1] # "direct" => settings.key /\ is_enabled(request[1])
  /\ request[1] # JINA_SEARCH => validate_source_url(kind, request[2])

Allowed(c) == \A request \in reached[c] : MayRequest(call[c].kind, request)

\* Whatever order guard, switches and fallbacks run in, nothing is ever asked
\* for that the guard refuses this call, and no tool is used that the settings
\* this process has read switch off or, for Jina, give no key (retrieval.py,
\* the module's docstring).  What an operator has configured since is another
\* matter: see SwitchTakesEffect.
RequestsAllowed == \A c \in Callers : Allowed(c)

\* A refusal met while fetching a page, at a redirect or at the size limit
\* too, is not routed around: Jina was not asked (retrieval.py:12).
RefusalIsFinal ==
  \A c \in Callers :
    (/\ call[c].kind = "fetch_page"
     /\ call[c].at = "ended"
     /\ call[c].status = "refused") => <<JINA, call[c].url>> \notin reached[c]

\* fetch_page never trades a page for a shorter one (retrieval.py:199).
KeepsTheLonger ==
  \A c \in Callers :
    (call[c].kind = "fetch_page" /\ call[c].at = "ended" /\ call[c].page.status_code = 200)
      => call[c].page.length >= best[c]

\* A kill switch takes effect without a restart, when a call next comes to the
\* tool (registry.py:9).  The code breaks it: it looks at settings that are
\* cached for the life of the process (config.py:166).
SwitchTakesEffect ==
  [][\A c \in Callers :
       /\ call[c].at # "pace" /\ call'[c].at = "pace" =>
            DIRECT_FETCH \notin configured.disabled
       /\ call[c].at # "reserve" /\ call'[c].at = "reserve" =>
            JinaTool(call'[c].kind) \notin configured.disabled]_rvars

\* Every request to Jina, by reader or search, was charged to its period
\* beforehand, whoever was cancelled or died in between (budget.py:42).
EveryCallCharged == \A p \in Periods : jina_sent[p] <= calls_used[p]

\* Callers at the last call of a month, a limit of zero and a change of month
\* included: no count passes the limit in force, and none goes back.
BudgetKept ==
  [][\A p \in Periods :
       \/ calls_used'[p] = calls_used[p]
       \/ calls_used'[p] = calls_used[p] + 1 /\ calls_used'[p] <= settings.limit]_rvars

\* Whose direct fetch of a page of h is under way.
FetchingFrom(h) ==
  {c \in Callers : call[c].url # None /\ call[c].at \in {"direct", "hop"}
                    /\ Host[call[c].url] = h}

Paced == INSTANCE Pacing WITH
  Fetchers <- Callers,
  fetching <- [h \in Hosts |-> FetchingFrom(h)],
  quiet <- since

\* However its coroutines interleave and whichever of them are cancelled, the
\* process fetches the pages of a host one at a time, an interval apart: the
\* whole fetch takes the turn, a redirect included (retrieval.py:130).  A host
\* is promised nothing about requests that redirects elsewhere lead to it.
ImplementsPacing == Paced!Spec

\* Every call comes to an end: no lock is left behind by a call that failed or
\* was cancelled.
EveryCallEnds ==
  \A c \in Callers :
    (call[c].at \notin {"idle", "ended"}) ~> (call[c].at \in {"idle", "ended"})

-----------------------------------------------------------------------------
(* Why: the inductive invariants *)

AtOrigin == {"pace", "turn", "direct", "hop"}
AtJina == {"reserve", "granted", "jina"}

\* A call in progress passed the guard and is at a tool that is switched on.
Vetted(c) ==
  LET r == call[c] IN
  /\ r.kind # "search_web" /\ r.at \notin {"idle", "ended"} =>
       r.url \in Urls /\ validate_source_url(r.kind, r.url)
  /\ r.at \in AtOrigin => r.kind # "search_web" /\ is_enabled(DIRECT_FETCH)
  /\ r.at \in AtJina => MayAskJina(r.kind)

\* While a page is being fetched Jina has not been asked yet, and no failure
\* that is carried to it is a refusal.
NotRouted(c) ==
  LET r == call[c] IN
  r.kind = "fetch_page" =>
    /\ r.failure # "refused"
    /\ r.at # "jina" /\ (r.at = "ended" => r.status = "refused")
         => <<JINA, r.url>> \notin reached[c]

\* What fetch_page holds is the longest page it was given, if any.
HoldsLongest(c) ==
  LET r == call[c] IN
  r.kind = "fetch_page" =>
    /\ r.at \in AtOrigin => r.failure = "none" /\ r.page = NoPage
    /\ r.failure # "none" => r.page.status_code # 200
    /\ IF r.page.status_code = 200 THEN r.page.length >= best[c]
       ELSE r.at # "ended" => best[c] = 0

CallGood(c) == Allowed(c) /\ Vetted(c) /\ NotRouted(c) /\ HoldsLongest(c)

CallInv == RetrievalTypeOK /\ \A c \in Callers : CallGood(c)

\* Whoever is between its turn and the end of its request has the host's lock.
TurnHasLock ==
  \A c \in Callers :
    call[c].at \in {"turn", "direct", "hop"} => holder[Host[call[c].url]] = c

\* No host is asked anything for a call that is not fetching.
AskedWhileFetching ==
  \A c \in Callers : call[c].at \notin {"direct", "hop"} => asked[c] = None

\* Callers that were granted a call of period p and have not made it yet.
Granted(p) == {c \in Callers : call[c].at = "granted" /\ call[c].period = p}

\* The count covers the requests made and those that may still be made.
GrantsCounted ==
  \A p \in Periods : jina_sent[p] + Cardinality(Granted(p)) <= calls_used[p]

=============================================================================
