-------------------------- MODULE RetrievalProofs --------------------------
(***************************************************************************)
(* Proofs about Retrieval, for every number of callers, hosts, URLs and    *)
(* settings, for any interval, and however many calls are made.            *)
(***************************************************************************)
EXTENDS Retrieval, FiniteSetTheorems, TLAPS

\* The hosts that requests may be under way to.
HostAsked == [Callers -> Hosts \cup {None}]

USE RetrievalAssumption DEF Periods, HostAsked

-----------------------------------------------------------------------------
(* How a call goes on *)

\* c's record is replaced, that of the others kept.
OnlyCall(c) == call' = [call EXCEPT ![c] = call'[c]]

Replaced(c, r) ==
  /\ OnlyCall(c)
  /\ call'[c] \in CallRecord
  /\ call'[c].kind = r.kind
  /\ call'[c].url = r.url

\* The three ways a call with record r goes on when it is not refused.
GoesOn(c, r) ==
  /\ Replaced(c, r)
  /\ DOMAIN waiting' = Hosts
  /\ \/ /\ call'[c].at = "reserve"
        /\ MayAskJina(r.kind)
        /\ call'[c].period = month
        /\ call'[c].page = r.page
        /\ call'[c].failure = r.failure
        /\ call'[c].status = r.status
     \/ /\ call'[c].at = "pace"
        /\ r.kind # "search_web"
        /\ r.kind = "fetch_page" => r.page = NoPage /\ r.failure = "none"
        /\ is_enabled(DIRECT_FETCH)
        /\ call'[c].page = r.page
        /\ call'[c].failure = r.failure
        /\ call'[c].status = r.status
     \/ /\ call'[c].at = "ended"
        /\ call'[c].failure = "none"
        /\ r.kind = "fetch_page" =>
             call'[c].status # "refused" /\ call'[c].page \in {r.page, NoPage}

\* A new call's record.
LEMMA FreshType ==
  ASSUME NEW kind \in Kinds, NEW url \in Urls \cup {None}
  PROVE  /\ Fresh(kind, url) \in CallRecord
         /\ Fresh(kind, url).kind = kind
         /\ Fresh(kind, url).url = url
         /\ Fresh(kind, url).at = "idle"
         /\ Fresh(kind, url).page = NoPage
         /\ Fresh(kind, url).failure = "none"
  BY DEF Fresh, CallRecord, Places, ToolStatus

\* Ending a call resets all but what it was and how it ended.
LEMMA EndedType ==
  ASSUME RetrievalTypeOK, NEW c \in Callers, NEW r \in CallRecord,
         NEW status \in ToolStatus, NEW page \in RetrievedPage \cup {NoPage},
         call'[c] = Ended(r, status, page), OnlyCall(c)
  PROVE  /\ Replaced(c, r)
         /\ call'[c].at = "ended"
         /\ call'[c].status = status
         /\ call'[c].page = page
         /\ call'[c].failure = "none"
  <1>2. Ended(r, status, page) \in CallRecord
    BY DEF Ended, CallRecord, Places, ToolStatus
  <1>3. /\ Ended(r, status, page).kind = r.kind
        /\ Ended(r, status, page).url = r.url
        /\ Ended(r, status, page).at = "ended"
        /\ Ended(r, status, page).status = status
        /\ Ended(r, status, page).page = page
        /\ Ended(r, status, page).failure = "none"
    BY DEF Ended
  <1> QED
    BY <1>2, <1>3 DEF Replaced

LEMMA EndsType ==
  ASSUME RetrievalTypeOK, NEW c \in Callers, NEW r \in CallRecord,
         NEW status \in ToolStatus, NEW page \in RetrievedPage \cup {NoPage},
         Ends(c, r, status, page)
  PROVE  /\ Replaced(c, r)
         /\ DOMAIN waiting' = Hosts
         /\ call'[c].at = "ended"
         /\ call'[c].status = status
         /\ call'[c].page = page
         /\ call'[c].failure = "none"
  <1>1. call' = [call EXCEPT ![c] = Ended(r, status, page)]
    BY DEF Ends, Goes
  <1>2. DOMAIN waiting' = Hosts
    BY DEF Ends, Goes, RetrievalTypeOK
  <1>3. call'[c] = Ended(r, status, page)
    BY <1>1 DEF RetrievalTypeOK
  <1>4. OnlyCall(c)
    BY <1>1, <1>3 DEF OnlyCall
  <1> QED
    BY <1>2, <1>3, <1>4, EndedType

\* Joining a host's queue changes where the call is.
LEMMA JoinsType ==
  ASSUME RetrievalTypeOK, NEW c \in Callers, NEW r \in CallRecord,
         r.kind # "search_web",
         r.kind = "fetch_page" => r.page = NoPage /\ r.failure = "none",
         is_enabled(DIRECT_FETCH), JoinsQueue(c, r)
  PROVE  GoesOn(c, r)
  <1> DEFINE n == [r EXCEPT !.at = "pace"]
  <1>1. call' = [call EXCEPT ![c] = n]
    BY DEF JoinsQueue
  <1>2. call'[c] = n
    BY <1>1 DEF RetrievalTypeOK
  <1>3. DOMAIN waiting' = Hosts
    BY DEF RetrievalTypeOK, JoinsQueue
  <1>4. /\ n \in CallRecord
        /\ n.kind = r.kind /\ n.url = r.url /\ n.at = "pace"
        /\ n.page = r.page /\ n.failure = r.failure /\ n.status = r.status
    BY DEF CallRecord, Places
  <1> HIDE DEF n
  <1>5. OnlyCall(c)
    BY <1>1, <1>2 DEF OnlyCall
  <1>6. Replaced(c, r)
    BY <1>2, <1>4, <1>5 DEF Replaced
  <1> QED
    BY <1>2, <1>3, <1>4, <1>6 DEF GoesOn

\* fetch_page without Jina ends with the page it has, or its failure.
LEMMA SettlesType ==
  ASSUME RetrievalTypeOK, NEW c \in Callers, NEW r \in CallRecord,
         r.failure # "refused", Settles(c, r)
  PROVE  GoesOn(c, r) /\ call'[c].at = "ended"
  <1>1. CASE r.failure = "none"
    <2>1. Ends(c, r, "ok", r.page)
      BY <1>1 DEF Settles
    <2>2. "ok" \in ToolStatus /\ r.page \in RetrievedPage \cup {NoPage}
      BY DEF ToolStatus, CallRecord
    <2>3. /\ Replaced(c, r) /\ DOMAIN waiting' = Hosts
          /\ call'[c].at = "ended" /\ call'[c].status = "ok"
          /\ call'[c].page = r.page /\ call'[c].failure = "none"
      BY <2>1, <2>2, EndsType
    <2> QED
      BY <2>3 DEF GoesOn
  <1>2. CASE r.failure # "none"
    <2>1. Ends(c, r, r.failure, NoPage)
      BY <1>2 DEF Settles
    <2>2. r.failure \in ToolStatus
      BY <1>2 DEF CallRecord
    <2>3. /\ Replaced(c, r) /\ DOMAIN waiting' = Hosts
          /\ call'[c].at = "ended" /\ call'[c].status = r.failure
          /\ call'[c].page = NoPage /\ call'[c].failure = "none"
      BY <2>1, <2>2, EndsType
    <2> QED
      BY <2>3 DEF GoesOn
  <1> QED
    BY <1>1, <1>2

\* The direct fallback of an official page.
LEMMA OfficialType ==
  ASSUME RetrievalTypeOK, NEW c \in Callers, NEW r \in CallRecord,
         r.kind = "fetch_official_page", OfficialDirect(c, r)
  PROVE  GoesOn(c, r)
  <1>1. CASE is_enabled(DIRECT_FETCH)
    BY <1>1, JoinsType DEF OfficialDirect
  <1>2. CASE ~is_enabled(DIRECT_FETCH)
    <2>1. Ends(c, r, "disabled", NoPage)
      BY <1>2 DEF OfficialDirect
    <2>2. "disabled" \in ToolStatus
      BY DEF ToolStatus
    <2> QED
      BY <2>1, <2>2, EndsType DEF GoesOn
  <1> QED
    BY <1>1, <1>2

\* No answer from Jina.
LEMMA WithoutJinaType ==
  ASSUME RetrievalTypeOK, NEW c \in Callers, NEW r \in CallRecord,
         r.kind = "fetch_page" => r.failure # "refused",
         NEW status \in ToolStatus, WithoutJina(c, r, status)
  PROVE  /\ GoesOn(c, r)
         /\ r.kind = "fetch_page" => call'[c].at = "ended"
  <1>1. CASE r.kind = "fetch_page"
    BY <1>1, SettlesType DEF WithoutJina
  <1>2. CASE r.kind = "fetch_official_page"
    BY <1>2, OfficialType DEF WithoutJina
  <1>3. CASE r.kind = "search_web"
    <2>1. Ends(c, r, status, NoPage)
      BY <1>3 DEF WithoutJina
    <2> QED
      BY <1>3, <2>1, EndsType DEF GoesOn
  <1> QED
    BY <1>1, <1>2, <1>3 DEF CallRecord, Kinds

\* Jina is asked, or passed over.
LEMMA TryJinaType ==
  ASSUME RetrievalTypeOK, NEW c \in Callers, NEW r \in CallRecord,
         r.kind = "fetch_page" => r.failure # "refused", TryJina(c, r)
  PROVE  GoesOn(c, r)
  <1>1. CASE MayAskJina(r.kind)
    <2> DEFINE n == [r EXCEPT !.at = "reserve", !.period = month]
    <2>1. call' = [call EXCEPT ![c] = n] /\ waiting' = waiting
      BY <1>1 DEF TryJina, Goes
    <2>2. call'[c] = n
      BY <2>1 DEF RetrievalTypeOK
    <2>3. n \in CallRecord
      BY DEF CallRecord, Places, RetrievalTypeOK
    <2>4. /\ n.kind = r.kind /\ n.url = r.url /\ n.at = "reserve" /\ n.period = month
          /\ n.page = r.page /\ n.failure = r.failure /\ n.status = r.status
      BY DEF CallRecord
    <2> HIDE DEF n
    <2>5. OnlyCall(c)
      BY <2>1, <2>2 DEF OnlyCall
    <2>6. Replaced(c, r)
      BY <2>2, <2>3, <2>4, <2>5 DEF Replaced
    <2>7. DOMAIN waiting' = Hosts
      BY <2>1 DEF RetrievalTypeOK
    <2> QED
      BY <1>1, <2>2, <2>4, <2>6, <2>7 DEF GoesOn
  <1>2. CASE ~MayAskJina(r.kind)
    <2>1. WithoutJina(c, r, "refused") /\ "refused" \in ToolStatus
      BY <1>2 DEF TryJina, ToolStatus
    <2> QED
      BY <2>1, WithoutJinaType
  <1> QED
    BY <1>1, <1>2

-----------------------------------------------------------------------------
(* What is kept of every call *)

Kept(c) == call[c] = call'[c] /\ reached'[c] = reached[c] /\ best'[c] = best[c]

\* A call that nothing happens to stays as good as it was.
LEMMA KeptGood ==
  ASSUME NEW c \in Callers, CallGood(c), Kept(c), settings' = settings
  PROVE  CallGood(c)'
  BY DEF CallGood, Kept, Allowed, MayRequest, Vetted, NotRouted, HoldsLongest, is_enabled,
         validate_source_url, MayAskJina

\* What fetch_page needs of the record it goes on with.
PageKept(c, r) ==
  /\ r.failure # "refused"
  /\ r.failure # "none" => r.page.status_code # 200
  /\ IF r.page.status_code = 200 THEN r.page.length >= best'[c]
     ELSE call'[c].at # "ended" => best'[c] = 0
  /\ call'[c].at = "ended" \/ <<JINA, r.url>> \notin reached'[c]

\* A call that goes on from a record as good as its own was.
LEMMA GoesOnGood ==
  ASSUME settings' = settings,
         NEW c \in Callers, NEW r \in CallRecord, GoesOn(c, r),
         r.kind # "search_web" => r.url \in Urls /\ validate_source_url(r.kind, r.url),
         \A request \in reached'[c] : MayRequest(r.kind, request),
         r.kind = "fetch_page" => PageKept(c, r)
  PROVE  CallGood(c)'
  <1>1. call'[c].kind = r.kind /\ call'[c].url = r.url
    BY DEF GoesOn, Replaced
  <1>2. Allowed(c)'
    BY <1>1 DEF Allowed, MayRequest, is_enabled, validate_source_url
  <1>3. Vetted(c)'
    BY <1>1 DEF Vetted, GoesOn, AtOrigin, AtJina, is_enabled, validate_source_url, MayAskJina
  <1>4. NotRouted(c)'
    BY <1>1 DEF NotRouted, GoesOn, PageKept
  <1>5. HoldsLongest(c)'
    BY <1>1 DEF HoldsLongest, GoesOn, PageKept, AtOrigin, NoPage
  <1> QED
    BY <1>2, <1>3, <1>4, <1>5 DEF CallGood

\* A call that ends refused, or without a page.
LEMMA EndsGood ==
  ASSUME settings' = settings,
         NEW c \in Callers, NEW r \in CallRecord, Replaced(c, r),
         call'[c].at = "ended", call'[c].page = NoPage, call'[c].failure = "none",
         \A request \in reached'[c] : MayRequest(r.kind, request),
         (r.kind = "fetch_page" /\ call'[c].status = "refused")
           => <<JINA, r.url>> \notin reached'[c]
  PROVE  CallGood(c)'
  <1>1. call'[c].kind = r.kind /\ call'[c].url = r.url
    BY DEF Replaced
  <1>2. Allowed(c)'
    BY <1>1 DEF Allowed, MayRequest, is_enabled, validate_source_url
  <1>3. Vetted(c)'
    BY <1>1 DEF Vetted, AtOrigin, AtJina
  <1>4. NotRouted(c)'
    BY <1>1 DEF NotRouted
  <1>5. HoldsLongest(c)'
    BY <1>1 DEF HoldsLongest, AtOrigin, NoPage
  <1> QED
    BY <1>2, <1>3, <1>4, <1>5 DEF CallGood
-----------------------------------------------------------------------------
(* The steps of one call *)

\* The part of the type that is not the calls', kept by what a step touches.
LEMMA TypeAfter ==
  ASSUME RetrievalTypeOK, NEW c \in Callers,
         OnlyCall(c), call'[c] \in CallRecord,
         settings' = settings, configured' = configured, month' = month,
         DOMAIN waiting' = Hosts,
         holder' \in [Hosts -> Callers \cup {None}],
         since' \in [Hosts -> 0..Interval],
         asked' \in HostAsked,
         begun' \in Nat, restarts' \in Nat,
         calls_used' \in [Periods -> Nat], jina_sent' \in [Periods -> Nat],
         reached' \in [Callers -> SUBSET ((Tools \cup {"direct"}) \X (Urls \cup {None}))],
         best' \in [Callers -> Nat]
  PROVE  RetrievalTypeOK'
  BY DEF RetrievalTypeOK, OnlyCall

\* A step of one call is good when it leaves that call good.
LEMMA OneCall ==
  ASSUME CallInv, NEW c \in Callers, RetrievalTypeOK', CallGood(c)', settings' = settings,
         \A d \in Callers \ {c} : Kept(d)
  PROVE  CallInv'
  <1>1. \A d \in Callers \ {c} : CallGood(d)'
    BY KeptGood DEF CallInv
  <1> QED
    BY <1>1 DEF CallInv

LEMMA BeginGood ==
  ASSUME CallInv, NEW c \in Callers, Begin(c)
  PROVE  CallInv'
  <1> USE DEF CallInv
  <1>0. /\ settings' = settings /\ configured' = configured
        /\ month' = month /\ calls_used' = calls_used
        /\ holder' = holder /\ since' = since /\ asked' = asked /\ restarts' = restarts
        /\ jina_sent' = jina_sent /\ begun' = begun + 1
        /\ reached' = [reached EXCEPT ![c] = {}] /\ best' = [best EXCEPT ![c] = 0]
    BY DEF Begin
  <1>1. reached'[c] = {} /\ best'[c] = 0
    BY <1>0 DEF RetrievalTypeOK
  <1>2. ASSUME NEW r \in CallRecord, Replaced(c, r), DOMAIN waiting' = Hosts
        PROVE  RetrievalTypeOK' /\ \A d \in Callers \ {c} : Kept(d)
    <2>1. OnlyCall(c) /\ call'[c] \in CallRecord
      BY <1>2 DEF Replaced
    <2>2. RetrievalTypeOK'
      <3>1. /\ holder' \in [Hosts -> Callers \cup {None}] /\ since' \in [Hosts -> 0..Interval]
            /\ asked' \in HostAsked
            /\ calls_used' \in [Periods -> Nat] /\ jina_sent' \in [Periods -> Nat]
            /\ begun' \in Nat /\ restarts' \in Nat
        BY <1>0 DEF RetrievalTypeOK
      <3>2. /\ reached' \in [Callers -> SUBSET ((Tools \cup {"direct"}) \X (Urls \cup {None}))]
            /\ best' \in [Callers -> Nat]
        BY <1>0 DEF RetrievalTypeOK
      <3> QED
        BY <1>0, <1>2, <2>1, <3>1, <3>2, TypeAfter
    <2>3. \A d \in Callers \ {c} : Kept(d)
      BY <1>0, <2>1 DEF Kept, RetrievalTypeOK, OnlyCall
    <2> QED
      BY <2>2, <2>3
  <1>3. ASSUME NEW r \in CallRecord, GoesOn(c, r),
               r.kind # "search_web" => r.url \in Urls /\ validate_source_url(r.kind, r.url),
               r.failure # "refused", r.page = NoPage
        PROVE  CallInv'
    <2>1. RetrievalTypeOK' /\ \A d \in Callers \ {c} : Kept(d)
      BY <1>2, <1>3 DEF GoesOn
    <2>2. r.page.status_code = 0
      BY <1>3 DEF NoPage
    <2>3. \A request \in reached'[c] : MayRequest(r.kind, request)
      BY <1>1
    <2>4. r.kind = "fetch_page" => PageKept(c, r)
      BY <1>1, <1>3, <2>2 DEF PageKept
    <2>5. CallGood(c)'
      BY <1>0, <1>3, <2>1, <2>3, <2>4, GoesOnGood
    <2> QED
      BY <1>0, <2>1, <2>5, OneCall
  <1>4. CASE TryJina(c, Fresh("search_web", None))
    <2>1. Fresh("search_web", None) \in CallRecord /\ Fresh("search_web", None).kind = "search_web"
          /\ Fresh("search_web", None).failure = "none" /\ Fresh("search_web", None).page = NoPage
      BY FreshType DEF Kinds
    <2>2. GoesOn(c, Fresh("search_web", None))
      BY <1>4, <2>1, TryJinaType
    <2> QED
      BY <1>3, <2>1, <2>2
  <1>5. ASSUME NEW kind \in Kinds \ {"search_web"}, NEW url \in Urls, Fetches(c, Fresh(kind, url))
        PROVE  CallInv'
    <2> DEFINE r == Fresh(kind, url)
    <2>1. /\ r \in CallRecord /\ r.kind = kind /\ r.url = url
          /\ r.page = NoPage /\ r.failure = "none"
      BY FreshType
    <2>2. Fetches(c, r)
      BY <1>5
    <2> HIDE DEF r
    <2>3. CASE Ends(c, r, "refused", NoPage)
      <3>1. /\ Replaced(c, r) /\ DOMAIN waiting' = Hosts
            /\ call'[c].at = "ended" /\ call'[c].page = NoPage /\ call'[c].failure = "none"
        BY <2>1, <2>3, EndsType DEF ToolStatus
      <3>2. CallGood(c)'
        BY <1>0, <1>1, <2>1, <3>1, EndsGood
      <3>3. RetrievalTypeOK' /\ \A d \in Callers \ {c} : Kept(d)
        BY <1>2, <2>1, <3>1
      <3> QED
        BY <1>0, <3>2, <3>3, OneCall
    <2>4. CASE /\ validate_source_url(r.kind, r.url)
               /\ IF r.kind = "fetch_page" THEN FetchPageDirect(c, r) ELSE TryJina(c, r)
      <3>1. CASE r.kind = "fetch_page" /\ is_enabled(DIRECT_FETCH)
        <4>1. GoesOn(c, r)
          BY <2>1, <2>4, <3>1, JoinsType DEF FetchPageDirect
        <4> QED
          BY <1>3, <2>1, <2>4, <4>1
      <3>2. CASE r.kind = "fetch_page" /\ ~is_enabled(DIRECT_FETCH)
        <4> DEFINE n == [r EXCEPT !.failure = "disabled"]
        <4>1. /\ n \in CallRecord /\ n.kind = r.kind /\ n.url = r.url
              /\ n.page = NoPage /\ n.failure = "disabled"
          BY <2>1 DEF CallRecord, ToolStatus
        <4>2. TryJina(c, n)
          BY <2>4, <3>2 DEF FetchPageDirect
        <4> HIDE DEF n
        <4>3. GoesOn(c, n)
          BY <4>1, <4>2, TryJinaType
        <4> QED
          BY <1>3, <2>1, <2>4, <4>1, <4>3
      <3>3. CASE r.kind # "fetch_page"
        <4>1. GoesOn(c, r)
          BY <2>1, <2>4, <3>3, TryJinaType
        <4> QED
          BY <1>3, <2>1, <2>4, <4>1
      <3> QED
        BY <3>1, <3>2, <3>3
    <2> QED
      BY <2>2, <2>3, <2>4 DEF Fetches
  <1> QED
    BY <1>4, <1>5 DEF Begin

\* The same for a call in progress: nothing but the call, the pacing of its
\* host and the counts may change.
LEMMA StepGood ==
  ASSUME CallInv, NEW c \in Callers, OnlyCall(c), call'[c] \in CallRecord,
         UNCHANGED world, DOMAIN waiting' = Hosts,
         holder' \in [Hosts -> Callers \cup {None}],
         since' \in [Hosts -> 0..Interval],
         asked' \in HostAsked,
         calls_used' \in [Periods -> Nat], jina_sent' \in [Periods -> Nat],
         reached' \in [Callers -> SUBSET ((Tools \cup {"direct"}) \X (Urls \cup {None}))],
         best' \in [Callers -> Nat],
         \A d \in Callers \ {c} : reached'[d] = reached[d] /\ best'[d] = best[d],
         CallGood(c)'
  PROVE  CallInv'
  <1>1. RetrievalTypeOK'
    <2>1. /\ settings' = settings /\ configured' = configured /\ month' = month
          /\ begun' \in Nat /\ restarts' \in Nat /\ RetrievalTypeOK
      BY DEF world, CallInv, RetrievalTypeOK
    <2> QED
      BY <2>1, TypeAfter
  <1>2. \A d \in Callers \ {c} : Kept(d)
    BY DEF Kept, OnlyCall, CallInv, RetrievalTypeOK
  <1> QED
    BY <1>1, <1>2, OneCall DEF world

\* Only the call changes its place.
LEMMA MovesType ==
  ASSUME RetrievalTypeOK, NEW c \in Callers, NEW place \in Places,
         call' = [call EXCEPT ![c].at = place]
  PROVE  /\ OnlyCall(c)
         /\ call'[c] \in CallRecord
         /\ call'[c].at = place
         /\ call'[c].kind = call[c].kind /\ call'[c].url = call[c].url
         /\ call'[c].page = call[c].page /\ call'[c].failure = call[c].failure
         /\ call'[c].status = call[c].status /\ call'[c].period = call[c].period
  <1> DEFINE n == [call[c] EXCEPT !.at = place]
  <1>1. call' = [call EXCEPT ![c] = n]
    OBVIOUS
  <1>2. call'[c] = n
    BY <1>1 DEF RetrievalTypeOK
  <1>3. call[c] \in CallRecord
    BY DEF RetrievalTypeOK
  <1>4. /\ n \in CallRecord /\ n.at = place
        /\ n.kind = call[c].kind /\ n.url = call[c].url
        /\ n.page = call[c].page /\ n.failure = call[c].failure
        /\ n.status = call[c].status /\ n.period = call[c].period
    BY <1>3 DEF CallRecord
  <1> HIDE DEF n
  <1>5. OnlyCall(c)
    BY <1>1, <1>2 DEF OnlyCall
  <1> QED
    BY <1>2, <1>4, <1>5

LEMMA TakesLockGood ==
  ASSUME CallInv, NEW c \in Callers, TakesLock(c)
  PROVE  CallInv'
  <1> USE DEF CallInv
  <1>1. call' = [call EXCEPT ![c].at = "turn"] /\ "turn" \in Places /\ call[c].at = "pace"
    BY DEF TakesLock, Places
  <1>2. /\ UNCHANGED world /\ since' = since /\ asked' = asked /\ calls_used' = calls_used
        /\ jina_sent' = jina_sent /\ reached' = reached /\ best' = best
    BY DEF TakesLock
  <1>3. DOMAIN waiting' = Hosts /\ holder' \in [Hosts -> Callers \cup {None}]
    BY DEF TakesLock, RetrievalTypeOK
  <1>4. /\ OnlyCall(c) /\ call'[c] \in CallRecord
        /\ call'[c].at = "turn" /\ call'[c].kind = call[c].kind /\ call'[c].url = call[c].url
        /\ call'[c].page = call[c].page /\ call'[c].failure = call[c].failure
        /\ call'[c].status = call[c].status /\ call'[c].period = call[c].period
    BY <1>1, MovesType
  <1>5. CallGood(c)'
    <2>1. CallGood(c) /\ settings' = settings
      BY <1>2 DEF world
    <2> QED
      BY <1>1, <1>2, <1>4, <2>1 DEF CallGood, Allowed, MayRequest, Vetted, NotRouted, HoldsLongest,
         AtOrigin, AtJina, is_enabled, validate_source_url, MayAskJina
  <1> QED
    BY <1>2, <1>3, <1>4, <1>5, StepGood DEF RetrievalTypeOK

\* What a request adds to reached.
LEMMA RequestsType ==
  ASSUME RetrievalTypeOK, NEW c \in Callers, NEW fetcher \in Tools \cup {"direct"},
         NEW url \in Urls \cup {None}, Requests(c, fetcher, url)
  PROVE  /\ reached' \in [Callers -> SUBSET ((Tools \cup {"direct"}) \X (Urls \cup {None}))]
         /\ reached'[c] = reached[c] \cup {<<fetcher, url>>}
         /\ \A d \in Callers \ {c} : reached'[d] = reached[d]
  BY DEF RetrievalTypeOK, Requests

\* The way out of host_pace.
LEMMA LeavesType ==
  ASSUME RetrievalTypeOK, NEW c \in Callers, Leaves(c)
  PROVE  /\ holder' \in [Hosts -> Callers \cup {None}]
         /\ since' \in [Hosts -> 0..Interval]
  <1> DEFINE h == Host[call[c].url]
  <1>1. holder' = [holder EXCEPT ![h] = None] /\ since' = [since EXCEPT ![h] = 0]
    BY DEF Leaves
  <1>2. 0 \in 0..Interval
    OBVIOUS
  <1> QED
    BY <1>1, <1>2 DEF RetrievalTypeOK

\* A call refused at the origin is recorded so, and Jina is not asked.
LEMMA RefusedGood ==
  ASSUME CallInv, NEW c \in Callers, RefusedDirect(c), call[c].at \in AtOrigin,
         UNCHANGED <<world, calls_used, jina_sent, reached, best>>,
         holder' \in [Hosts -> Callers \cup {None}], since' \in [Hosts -> 0..Interval],
         asked' \in HostAsked
  PROVE  CallInv'
  <1> USE DEF CallInv
  <1>1. call[c] \in CallRecord /\ "refused" \in ToolStatus
    BY DEF RetrievalTypeOK, ToolStatus
  <1>2. /\ Replaced(c, call[c]) /\ DOMAIN waiting' = Hosts
        /\ call'[c].at = "ended" /\ call'[c].page = NoPage /\ call'[c].failure = "none"
    BY <1>1, EndsType DEF RefusedDirect
  <1>3. CallGood(c) /\ settings' = settings /\ reached' = reached
    BY DEF world
  <1>4. \A request \in reached'[c] : MayRequest(call[c].kind, request)
    BY <1>3 DEF CallGood, Allowed
  <1>5. call[c].kind = "fetch_page" => <<JINA, call[c].url>> \notin reached'[c]
    BY <1>3 DEF CallGood, NotRouted, AtOrigin
  <1>6. CallGood(c)'
    BY <1>1, <1>2, <1>3, <1>4, <1>5, EndsGood
  <1> QED
    BY <1>2, <1>6, StepGood DEF Replaced, RetrievalTypeOK

\* A request to the origin, or to where it redirects, that the guard allows.
LEMMA AsksOriginGood ==
  ASSUME CallInv, NEW c \in Callers, NEW place \in {"direct", "hop"}, NEW url \in Urls,
         call[c].at \in AtOrigin, validate_source_url(call[c].kind, url),
         Goes(c, [call[c] EXCEPT !.at = place]), Requests(c, "direct", url),
         asked' \in HostAsked,
         UNCHANGED <<world, calls_used, holder, since, jina_sent, best>>
  PROVE  CallInv'
  <1> USE DEF CallInv
  <1>1. call' = [call EXCEPT ![c].at = place] /\ place \in Places /\ waiting' = waiting
    BY DEF Goes, Places
  <1>2. /\ OnlyCall(c) /\ call'[c] \in CallRecord
        /\ call'[c].at = place /\ call'[c].kind = call[c].kind /\ call'[c].url = call[c].url
        /\ call'[c].page = call[c].page /\ call'[c].failure = call[c].failure
        /\ call'[c].status = call[c].status
    BY <1>1, MovesType
  <1>3. /\ reached' \in [Callers -> SUBSET ((Tools \cup {"direct"}) \X (Urls \cup {None}))]
        /\ reached'[c] = reached[c] \cup {<<"direct", url>>}
        /\ \A d \in Callers \ {c} : reached'[d] = reached[d]
    BY RequestsType
  <1>4. CallGood(c) /\ settings' = settings /\ best' = best
    BY DEF world
  <1>5. Allowed(c)'
    <2>1. is_enabled(DIRECT_FETCH)
      BY <1>4 DEF CallGood, Vetted
    <2>2. MayRequest(call[c].kind, <<"direct", url>>)
      BY <2>1 DEF MayRequest
    <2>3. \A request \in reached'[c] : MayRequest(call[c].kind, request)
      BY <1>3, <1>4, <2>2 DEF CallGood, Allowed
    <2> QED
      BY <1>2, <1>4, <2>3 DEF Allowed, MayRequest, is_enabled, validate_source_url
  <1>6. Vetted(c)'
    BY <1>2, <1>4 DEF CallGood, Vetted, AtOrigin, AtJina, is_enabled, validate_source_url
  <1>7. NotRouted(c)'
    <2>1. <<JINA, call[c].url>> # <<"direct", url>>
      BY DEF JINA
    <2> QED
      BY <1>2, <1>3, <1>4, <2>1 DEF CallGood, NotRouted, AtOrigin
  <1>8. HoldsLongest(c)'
    BY <1>2, <1>4 DEF CallGood, HoldsLongest, AtOrigin
  <1>9. CallGood(c)'
    BY <1>5, <1>6, <1>7, <1>8 DEF CallGood
  <1> QED
    BY <1>1, <1>2, <1>3, <1>4, <1>9, StepGood DEF RetrievalTypeOK

LEMMA SendsDirectGood ==
  ASSUME CallInv, NEW c \in Callers, SendsDirect(c)
  PROVE  CallInv'
  <1>0. call[c].at \in AtOrigin /\ CallGood(c) /\ RetrievalTypeOK
    BY DEF SendsDirect, AtOrigin, CallInv
  <1>1. CASE /\ Goes(c, [call[c] EXCEPT !.at = "direct"])
             /\ Requests(c, "direct", call[c].url) /\ UNCHANGED <<holder, since>>
             /\ asked' = [asked EXCEPT ![c] = Host[call[c].url]]
    <2>1. call[c].url \in Urls /\ validate_source_url(call[c].kind, call[c].url)
      BY <1>0 DEF CallGood, Vetted, AtOrigin
    <2>2. UNCHANGED <<world, calls_used, holder, since, jina_sent, best>>
      BY <1>1 DEF SendsDirect
    <2>3. asked' \in HostAsked
      BY <1>0, <1>1, <2>1 DEF RetrievalTypeOK
    <2> QED
      BY <1>0, <1>1, <2>1, <2>2, <2>3, AsksOriginGood
  <1>2. CASE Leaves(c) /\ RefusedDirect(c) /\ UNCHANGED <<reached, asked>>
    <2>1. UNCHANGED <<world, calls_used, jina_sent, reached, best>> /\ asked' \in HostAsked
      BY <1>0, <1>2 DEF SendsDirect, RetrievalTypeOK
    <2> QED
      BY <1>0, <1>2, <2>1, LeavesType, RefusedGood
  <1> QED
    BY <1>1, <1>2 DEF SendsDirect

LEMMA RedirectedGood ==
  ASSUME CallInv, NEW c \in Callers, Redirected(c)
  PROVE  CallInv'
  <1>1. PICK url \in Urls :
          /\ validate_source_url(call[c].kind, url)
          /\ Goes(c, [call[c] EXCEPT !.at = "hop"])
          /\ Requests(c, "direct", url)
          /\ asked' = [asked EXCEPT ![c] = Host[url]]
    BY DEF Redirected
  <1>2. asked' \in HostAsked
    BY <1>1 DEF CallInv, RetrievalTypeOK
  <1>3. call[c].at \in AtOrigin /\ UNCHANGED <<world, calls_used, holder, since, jina_sent, best>>
    BY DEF Redirected, AtOrigin
  <1> QED
    BY <1>1, <1>2, <1>3, AsksOriginGood

\* A call that goes on, having asked for nothing more.
LEMMA ContinuesGood ==
  ASSUME CallInv, NEW c \in Callers, NEW r \in CallRecord, GoesOn(c, r),
         UNCHANGED <<world, jina_sent, reached>>,
         holder' \in [Hosts -> Callers \cup {None}], since' \in [Hosts -> 0..Interval],
         asked' \in HostAsked,
         calls_used' \in [Periods -> Nat], best' \in [Callers -> Nat],
         \A d \in Callers \ {c} : best'[d] = best[d],
         call[c].at \notin {"idle", "ended"},
         r.kind = call[c].kind, r.url = call[c].url,
         r.kind = "fetch_page" => PageKept(c, r)
  PROVE  CallInv'
  <1> USE DEF CallInv
  <1>1. CallGood(c) /\ settings' = settings /\ reached' = reached
    BY DEF world
  <1>2. r.kind # "search_web" => r.url \in Urls /\ validate_source_url(r.kind, r.url)
    BY <1>1 DEF CallGood, Vetted
  <1>3. \A request \in reached'[c] : MayRequest(r.kind, request)
    BY <1>1 DEF CallGood, Allowed
  <1>4. CallGood(c)'
    BY <1>1, <1>2, <1>3, GoesOnGood
  <1>5. OnlyCall(c) /\ call'[c] \in CallRecord /\ DOMAIN waiting' = Hosts
    BY DEF GoesOn, Replaced
  <1>6. jina_sent' \in [Periods -> Nat]
        /\ reached' \in [Callers -> SUBSET ((Tools \cup {"direct"}) \X (Urls \cup {None}))]
    BY <1>1 DEF RetrievalTypeOK
  <1> QED
    BY <1>1, <1>4, <1>5, <1>6, StepGood

\* A call that ends without a page and not refused, having asked for nothing more.
LEMMA EndsEmptyGood ==
  ASSUME CallInv, NEW c \in Callers, Replaced(c, call[c]), DOMAIN waiting' = Hosts,
         call'[c].at = "ended", call'[c].page = NoPage, call'[c].failure = "none",
         call'[c].status # "refused",
         UNCHANGED <<world, jina_sent, reached, best>>,
         holder' \in [Hosts -> Callers \cup {None}], since' \in [Hosts -> 0..Interval],
         asked' \in HostAsked,
         calls_used' \in [Periods -> Nat]
  PROVE  CallInv'
  <1> USE DEF CallInv
  <1>1. CallGood(c) /\ settings' = settings /\ reached' = reached /\ call[c] \in CallRecord
    BY DEF world, RetrievalTypeOK
  <1>2. \A request \in reached'[c] : MayRequest(call[c].kind, request)
    BY <1>1 DEF CallGood, Allowed
  <1>3. CallGood(c)'
    BY <1>1, <1>2, EndsGood
  <1>4. OnlyCall(c) /\ call'[c] \in CallRecord
    BY DEF Replaced
  <1>5. /\ jina_sent' \in [Periods -> Nat] /\ best' \in [Callers -> Nat] /\ best' = best
        /\ reached' \in [Callers -> SUBSET ((Tools \cup {"direct"}) \X (Urls \cup {None}))]
    BY <1>1 DEF RetrievalTypeOK
  <1> QED
    BY <1>1, <1>3, <1>4, <1>5, StepGood

LEMMA DirectEndsGood ==
  ASSUME CallInv, NEW c \in Callers, DirectEnds(c)
  PROVE  CallInv'
  <1> USE DEF CallInv
  <1>1. /\ call[c].at \in {"direct", "hop"} /\ call[c].at \in AtOrigin
        /\ Leaves(c) /\ UNCHANGED <<world, calls_used, jina_sent, reached>>
        /\ asked' = [asked EXCEPT ![c] = None]
    BY DEF DirectEnds, AtOrigin
  <1>2. /\ asked' \in HostAsked
        /\ holder' \in [Hosts -> Callers \cup {None}] /\ since' \in [Hosts -> 0..Interval]
        /\ calls_used' \in [Periods -> Nat]
    BY <1>1, LeavesType DEF RetrievalTypeOK
  <1>3. CallGood(c) /\ call[c] \in CallRecord
    BY DEF RetrievalTypeOK
  <1>4. call[c].kind = "fetch_page" =>
          /\ call[c].page.status_code # 200 /\ best[c] = 0
          /\ call[c].failure = "none"
          /\ <<JINA, call[c].url>> \notin reached[c]
    BY <1>1, <1>3 DEF CallGood, NotRouted, HoldsLongest, AtOrigin, NoPage
  <1>5. CASE RefusedDirect(c) /\ UNCHANGED best
    BY <1>1, <1>2, <1>5, RefusedGood
  <1>6. CASE FailedDirect(c) /\ UNCHANGED best
    <2>1. CASE call[c].kind = "fetch_page"
      <3> DEFINE r == [call[c] EXCEPT !.failure = "error"]
      <3>1. /\ r \in CallRecord /\ r.kind = call[c].kind /\ r.url = call[c].url
            /\ r.page = call[c].page /\ r.failure = "error"
        BY <1>3 DEF CallRecord, ToolStatus
      <3>2. TryJina(c, r)
        BY <1>6, <2>1 DEF FailedDirect
      <3> HIDE DEF r
      <3>3. GoesOn(c, r)
        BY <3>1, <3>2, TryJinaType
      <3>4. PageKept(c, r)
        BY <1>1, <1>4, <1>6, <2>1, <3>1 DEF PageKept
      <3>5. best' \in [Callers -> Nat] /\ best' = best
        BY <1>6 DEF RetrievalTypeOK
      <3> QED
        BY <1>1, <1>2, <3>1, <3>3, <3>4, <3>5, ContinuesGood
    <2>2. CASE call[c].kind # "fetch_page"
      <3>1. Ends(c, call[c], "error", NoPage) /\ "error" \in ToolStatus
        BY <1>6, <2>2 DEF FailedDirect, ToolStatus
      <3>2. /\ Replaced(c, call[c]) /\ DOMAIN waiting' = Hosts
            /\ call'[c].at = "ended" /\ call'[c].page = NoPage /\ call'[c].failure = "none"
            /\ call'[c].status = "error"
        BY <1>3, <3>1, EndsType
      <3> QED
        BY <1>1, <1>2, <1>6, <3>2, EndsEmptyGood
    <2> QED
      BY <2>1, <2>2
  <1>8. CASE OtherError(c) /\ UNCHANGED best
    <2>1. "error" \in ToolStatus
      BY DEF ToolStatus
    <2>2. /\ Replaced(c, call[c]) /\ DOMAIN waiting' = Hosts
          /\ call'[c].at = "ended" /\ call'[c].page = NoPage /\ call'[c].failure = "none"
          /\ call'[c].status = "error"
      BY <1>3, <1>8, <2>1, EndsType DEF OtherError
    <2> QED
      BY <1>1, <1>2, <1>8, <2>2, EndsEmptyGood
  <1>7. ASSUME NEW status \in Statuses, NEW length \in Lengths,
               GotDirect(c, [status_code |-> status, length |-> length]),
               best' = [best EXCEPT ![c] = IF status = 200 THEN length ELSE @]
        PROVE  CallInv'
    <2> DEFINE page == [status_code |-> status, length |-> length]
               r == [call[c] EXCEPT !.page = page]
    <2>1. page \in RetrievedPage /\ page.status_code = status /\ page.length = length
      BY DEF RetrievedPage
    <2>2. GotDirect(c, page)
      BY <1>7
    <2> HIDE DEF page
    <2>3. /\ r \in CallRecord /\ r.kind = call[c].kind /\ r.url = call[c].url
          /\ r.page = page /\ r.failure = call[c].failure
      BY <1>3, <2>1 DEF CallRecord
    <2>4. \/ r.kind = "fetch_page" /\ TryJina(c, r)
          \/ Ends(c, r, "ok", page)
          \/ r.kind # "fetch_page" /\ Ends(c, r, "error", NoPage)
      BY <2>2, <2>3 DEF GotDirect
    <2> HIDE DEF r
    <2>5. length \in Nat
      OBVIOUS
    <2>6. /\ best' \in [Callers -> Nat]
          /\ best'[c] = IF status = 200 THEN length ELSE best[c]
          /\ \A d \in Callers \ {c} : best'[d] = best[d]
      BY <1>7, <2>5 DEF RetrievalTypeOK
    <2>7. CASE r.kind = "fetch_page" /\ TryJina(c, r)
      <3>1. GoesOn(c, r)
        BY <1>4, <2>3, <2>7, TryJinaType
      <3>2. PageKept(c, r)
        BY <1>1, <1>4, <2>1, <2>3, <2>5, <2>6, <2>7 DEF PageKept
      <3> QED
        BY <1>1, <1>2, <2>3, <2>6, <3>1, <3>2, ContinuesGood
    <2>8. CASE Ends(c, r, "ok", page)
      <3>1. "ok" \in ToolStatus
        BY DEF ToolStatus
      <3>2. /\ Replaced(c, r) /\ DOMAIN waiting' = Hosts
            /\ call'[c].at = "ended" /\ call'[c].page = page /\ call'[c].failure = "none"
            /\ call'[c].status = "ok"
        BY <2>1, <2>3, <2>8, <3>1, EndsType
      <3>3. GoesOn(c, r)
        BY <2>3, <3>2 DEF GoesOn
      <3>4. r.kind = "fetch_page" => PageKept(c, r)
        BY <1>1, <1>4, <2>1, <2>3, <2>5, <2>6, <3>2 DEF PageKept
      <3> QED
        BY <1>1, <1>2, <2>3, <2>6, <3>3, <3>4, ContinuesGood
    <2>9. CASE r.kind # "fetch_page" /\ Ends(c, r, "error", NoPage)
      <3>1. "error" \in ToolStatus
        BY DEF ToolStatus
      <3>2. /\ Replaced(c, r) /\ DOMAIN waiting' = Hosts
            /\ call'[c].at = "ended" /\ call'[c].page = NoPage /\ call'[c].failure = "none"
            /\ call'[c].status = "error"
        BY <2>3, <2>9, <3>1, EndsType
      <3>3. GoesOn(c, r)
        BY <2>9, <3>2 DEF GoesOn
      <3> QED
        BY <1>1, <1>2, <2>3, <2>6, <2>9, <3>3, ContinuesGood
    <2> QED
      BY <2>4, <2>7, <2>8, <2>9
  <1> QED
    BY <1>5, <1>6, <1>7, <1>8 DEF DirectEnds

\* What a charge does to the counts.
LEMMA ChargedType ==
  ASSUME RetrievalTypeOK, NEW c \in Callers, calls_used' \in {calls_used, Charged(c)}
  PROVE  calls_used' \in [Periods -> Nat]
  <1>1. CASE calls_used' = calls_used
    BY <1>1 DEF RetrievalTypeOK
  <1>2. CASE calls_used' = Charged(c)
    <2>1. call[c].period \in Periods
      BY DEF RetrievalTypeOK, CallRecord
    <2>2. calls_used[call[c].period] + 1 \in Nat
      BY <2>1 DEF RetrievalTypeOK
    <2>3. calls_used' = [calls_used EXCEPT ![call[c].period] = calls_used[call[c].period] + 1]
      BY <1>2 DEF Charged
    <2> QED
      BY <2>2, <2>3 DEF RetrievalTypeOK
  <1> QED
    BY <1>1, <1>2

LEMMA ReserveGood ==
  ASSUME CallInv, NEW c \in Callers, Reserve(c)
  PROVE  CallInv'
  <1> USE DEF CallInv
  <1>1. /\ call[c].at = "reserve"
        /\ UNCHANGED <<world, holder, since, asked, jina_sent, reached, best>>
        /\ calls_used' \in {calls_used, Charged(c)}
    BY DEF Reserve
  <1>2. /\ calls_used' \in [Periods -> Nat] /\ holder' \in [Hosts -> Callers \cup {None}]
        /\ since' \in [Hosts -> 0..Interval] /\ best' \in [Callers -> Nat]
        /\ asked' \in HostAsked
    BY <1>1, ChargedType DEF RetrievalTypeOK
  <1>3. CallGood(c) /\ call[c] \in CallRecord
    BY DEF RetrievalTypeOK
  <1>4. CASE Goes(c, [call[c] EXCEPT !.at = "granted"])
    <2>1. call' = [call EXCEPT ![c].at = "granted"] /\ "granted" \in Places /\ waiting' = waiting
      BY <1>4 DEF Goes, Places
    <2>2. /\ OnlyCall(c) /\ call'[c] \in CallRecord
          /\ call'[c].at = "granted" /\ call'[c].kind = call[c].kind /\ call'[c].url = call[c].url
          /\ call'[c].page = call[c].page /\ call'[c].failure = call[c].failure
          /\ call'[c].status = call[c].status
      BY <2>1, MovesType
    <2>3. settings' = settings /\ reached' = reached /\ best' = best
      BY <1>1 DEF world
    <2>4. CallGood(c)'
      BY <1>1, <1>3, <2>2, <2>3 DEF CallGood, Allowed, MayRequest, Vetted, NotRouted, HoldsLongest,
         AtOrigin, AtJina, is_enabled, validate_source_url, MayAskJina
    <2>5. DOMAIN waiting' = Hosts /\ jina_sent' \in [Periods -> Nat]
          /\ reached' \in [Callers -> SUBSET ((Tools \cup {"direct"}) \X (Urls \cup {None}))]
      BY <1>1, <2>1 DEF RetrievalTypeOK
    <2> QED
      BY <1>1, <1>2, <2>2, <2>3, <2>4, <2>5, StepGood
  <1>5. CASE WithoutJina(c, call[c], "refused")
    <2>1. call[c].kind = "fetch_page" => call[c].failure # "refused"
      BY <1>3 DEF CallGood, NotRouted
    <2>2. "refused" \in ToolStatus
      BY DEF ToolStatus
    <2>3. GoesOn(c, call[c]) /\ (call[c].kind = "fetch_page" => call'[c].at = "ended")
      BY <1>3, <1>5, <2>1, <2>2, WithoutJinaType
    <2>4. call[c].kind = "fetch_page" => PageKept(c, call[c])
      BY <1>1, <1>3, <2>3 DEF CallGood, NotRouted, HoldsLongest, PageKept
    <2> QED
      BY <1>1, <1>2, <1>3, <2>3, <2>4, ContinuesGood
  <1>6. CASE OtherError(c)
    <2>1. "error" \in ToolStatus
      BY DEF ToolStatus
    <2>2. /\ Replaced(c, call[c]) /\ DOMAIN waiting' = Hosts
          /\ call'[c].at = "ended" /\ call'[c].page = NoPage /\ call'[c].failure = "none"
          /\ call'[c].status = "error"
      BY <1>3, <1>6, <2>1, EndsType DEF OtherError
    <2> QED
      BY <1>1, <1>2, <2>2, EndsEmptyGood
  <1> QED
    BY <1>4, <1>5, <1>6 DEF Reserve

LEMMA AsksJinaGood ==
  ASSUME CallInv, NEW c \in Callers, AsksJina(c)
  PROVE  CallInv'
  <1> USE DEF CallInv
  <1> DEFINE tool == JinaTool(call[c].kind)
  <1>1. /\ call[c].at = "granted" /\ UNCHANGED <<world, calls_used, holder, since, asked, best>>
        /\ jina_sent' = [jina_sent EXCEPT ![call[c].period] = @ + 1]
        /\ Requests(c, tool, call[c].url)
    BY DEF AsksJina
  <1>2. call' = [call EXCEPT ![c].at = "jina"] /\ "jina" \in Places /\ waiting' = waiting
    BY DEF AsksJina, Goes, Places
  <1>3. /\ OnlyCall(c) /\ call'[c] \in CallRecord
        /\ call'[c].at = "jina" /\ call'[c].kind = call[c].kind /\ call'[c].url = call[c].url
        /\ call'[c].page = call[c].page /\ call'[c].failure = call[c].failure
        /\ call'[c].status = call[c].status
    BY <1>2, MovesType
  <1>4. tool \in Tools \cup {"direct"} /\ tool # "direct"
    BY DEF JinaTool, Tools, JINA, JINA_SEARCH
  <1>5. CallGood(c) /\ call[c] \in CallRecord /\ call[c].url \in Urls \cup {None}
    BY DEF RetrievalTypeOK, CallRecord
  <1>6. /\ reached' \in [Callers -> SUBSET ((Tools \cup {"direct"}) \X (Urls \cup {None}))]
        /\ reached'[c] = reached[c] \cup {<<tool, call[c].url>>}
        /\ \A d \in Callers \ {c} : reached'[d] = reached[d]
    BY <1>1, <1>4, <1>5, RequestsType
  <1>7. settings' = settings /\ best' = best
    BY <1>1 DEF world
  <1>8. Allowed(c)'
    <2>1. settings.key /\ is_enabled(tool)
      BY <1>1, <1>5 DEF CallGood, Vetted, AtJina, MayAskJina
    <2>2. tool # JINA_SEARCH => validate_source_url(call[c].kind, call[c].url)
      BY <1>1, <1>5 DEF CallGood, Vetted, JinaTool
    <2>3. MayRequest(call[c].kind, <<tool, call[c].url>>)
      BY <1>4, <2>1, <2>2 DEF MayRequest
    <2>4. \A request \in reached'[c] : MayRequest(call[c].kind, request)
      BY <1>5, <1>6, <2>3 DEF CallGood, Allowed
    <2> QED
      BY <1>3, <1>7, <2>4 DEF Allowed, MayRequest, is_enabled, validate_source_url
  <1>9. Vetted(c)'
    <2>1. MayAskJina(call[c].kind)
      BY <1>1, <1>5 DEF CallGood, Vetted, AtJina
    <2>2. MayAskJina(call[c].kind)'
      BY <1>3, <1>7, <2>1 DEF MayAskJina, is_enabled
    <2>3. call[c].kind # "search_web" =>
            call[c].url \in Urls /\ validate_source_url(call[c].kind, call[c].url)
      BY <1>1, <1>5 DEF CallGood, Vetted
    <2> QED
      BY <1>3, <2>2, <2>3 DEF Vetted, AtOrigin, AtJina, validate_source_url
  <1>10. NotRouted(c)'
    BY <1>1, <1>3, <1>5 DEF CallGood, NotRouted
  <1>11. HoldsLongest(c)'
    BY <1>1, <1>3, <1>5, <1>7 DEF CallGood, HoldsLongest, AtOrigin
  <1>12. CallGood(c)'
    BY <1>8, <1>9, <1>10, <1>11 DEF CallGood
  <1>13. jina_sent' \in [Periods -> Nat]
    <2>1. call[c].period \in Periods
      BY DEF RetrievalTypeOK, CallRecord
    <2>2. jina_sent[call[c].period] + 1 \in Nat
      BY <2>1 DEF RetrievalTypeOK
    <2> QED
      BY <1>1, <2>2 DEF RetrievalTypeOK
  <1>14. /\ DOMAIN waiting' = Hosts
         /\ calls_used' \in [Periods -> Nat] /\ best' \in [Callers -> Nat]
         /\ holder' \in [Hosts -> Callers \cup {None}] /\ since' \in [Hosts -> 0..Interval]
         /\ asked' \in HostAsked
    BY <1>1, <1>2 DEF RetrievalTypeOK
  <1> QED
    BY <1>1, <1>3, <1>6, <1>7, <1>12, <1>13, <1>14, StepGood

\* A page that was received has a length.
LEMMA PageLength ==
  ASSUME NEW page \in RetrievedPage \cup {NoPage}, page.status_code = 200
  PROVE  page.length \in Nat
  <1>1. page # NoPage
    BY DEF NoPage
  <1>2. page \in RetrievedPage
    BY <1>1
  <1>3. page.length \in Lengths
    BY <1>2 DEF RetrievedPage
  <1>4. \A n \in Lengths : n \in Nat
    BY RetrievalAssumption
  <1> QED
    BY ONLY <1>3, <1>4

LEMMA JinaAnswersGood ==
  ASSUME CallInv, NEW c \in Callers, JinaAnswers(c)
  PROVE  CallInv'
  <1> USE DEF CallInv
  <1>1. /\ call[c].at = "jina"
        /\ UNCHANGED <<world, calls_used, holder, since, asked, jina_sent, reached>>
    BY DEF JinaAnswers
  <1>2. /\ asked' \in HostAsked
        /\ calls_used' \in [Periods -> Nat] /\ holder' \in [Hosts -> Callers \cup {None}]
        /\ since' \in [Hosts -> 0..Interval]
    BY <1>1 DEF RetrievalTypeOK
  <1>3. CallGood(c) /\ call[c] \in CallRecord
    BY DEF RetrievalTypeOK
  <1>4. call[c].kind = "fetch_page" =>
          /\ call[c].failure # "refused"
          /\ call[c].failure # "none" => call[c].page.status_code # 200
          /\ IF call[c].page.status_code = 200 THEN call[c].page.length >= best[c]
             ELSE best[c] = 0
    BY <1>1, <1>3 DEF CallGood, NotRouted, HoldsLongest
  <1>5. call[c].page \in RetrievedPage \cup {NoPage}
    BY <1>3 DEF CallRecord
  <1>6. CASE WithoutJina(c, call[c], "error") /\ UNCHANGED best
    <2>1. "error" \in ToolStatus
      BY DEF ToolStatus
    <2>2. GoesOn(c, call[c]) /\ (call[c].kind = "fetch_page" => call'[c].at = "ended")
      BY <1>3, <1>4, <1>6, <2>1, WithoutJinaType
    <2>3. call[c].kind = "fetch_page" => PageKept(c, call[c])
      BY <1>4, <1>6, <2>2 DEF PageKept
    <2>4. best' \in [Callers -> Nat] /\ best' = best
      BY <1>6 DEF RetrievalTypeOK
    <2> QED
      BY <1>1, <1>2, <1>3, <2>2, <2>3, <2>4, ContinuesGood
  <1>8. CASE OtherError(c) /\ UNCHANGED best
    <2>1. "error" \in ToolStatus
      BY DEF ToolStatus
    <2>2. /\ Replaced(c, call[c]) /\ DOMAIN waiting' = Hosts
          /\ call'[c].at = "ended" /\ call'[c].page = NoPage /\ call'[c].failure = "none"
          /\ call'[c].status = "error"
      BY <1>3, <1>8, <2>1, EndsType DEF OtherError
    <2> QED
      BY <1>1, <1>2, <1>8, <2>2, EndsEmptyGood
  <1>7. ASSUME NEW length \in Lengths,
               GotJina(c, [status_code |-> 200, length |-> length]),
               best' = [best EXCEPT ![c] = IF length > @ THEN length ELSE @]
        PROVE  CallInv'
    <2> DEFINE page == [status_code |-> 200, length |-> length]
    <2>1. page \in RetrievedPage /\ page.status_code = 200 /\ page.length = length
          /\ length \in Nat
      BY DEF RetrievedPage, Statuses
    <2>2. GotJina(c, page)
      BY <1>7
    <2> HIDE DEF page
    <2>3. best[c] \in Nat
      BY DEF RetrievalTypeOK
    <2>4. /\ best' \in [Callers -> Nat]
          /\ best'[c] = IF length > best[c] THEN length ELSE best[c]
          /\ \A d \in Callers \ {c} : best'[d] = best[d]
      BY <1>7, <2>1, <2>3 DEF RetrievalTypeOK
    <2>5. CASE call[c].kind = "fetch_page" /\ DidBetter(call[c], page)
      <3>1. Ends(c, call[c], "ok", page) /\ "ok" \in ToolStatus
        BY <2>2, <2>5 DEF GotJina, ToolStatus
      <3> DEFINE r == [call[c] EXCEPT !.page = page, !.failure = "none"]
      <3>2. /\ r \in CallRecord /\ r.kind = call[c].kind /\ r.url = call[c].url
            /\ r.page = page /\ r.failure = "none"
        BY <1>3, <2>1 DEF CallRecord
      <3> HIDE DEF r
      <3>3. /\ Replaced(c, call[c]) /\ DOMAIN waiting' = Hosts
            /\ call'[c].at = "ended" /\ call'[c].page = page /\ call'[c].failure = "none"
            /\ call'[c].status = "ok"
        BY <1>3, <2>1, <3>1, EndsType
      <3>4. GoesOn(c, r)
        BY <3>2, <3>3 DEF GoesOn, Replaced
      <3>5. page.length >= best'[c]
        <4>1. CASE call[c].page.status_code # 200
          <5>1. best[c] = 0
            BY <1>4, <2>5, <4>1
          <5>2. best'[c] = IF length > 0 THEN length ELSE 0
            BY <2>4, <5>1
          <5> QED
            BY <2>1, <5>2
        <4>2. CASE call[c].page.status_code = 200
          <5>1. call[c].page.length \in Nat
            BY <1>5, <4>2, PageLength
          <5>2. call[c].failure = "none" /\ call[c].page.length >= best[c]
            BY <1>4, <2>5, <4>2
          <5>3. page.length > call[c].page.length
            BY <2>5, <4>2, <5>2 DEF DidBetter
          <5> QED
            BY <2>1, <2>3, <2>4, <5>1, <5>2, <5>3
        <4> QED
          BY <4>1, <4>2
      <3>6. PageKept(c, r)
        BY <2>1, <3>2, <3>3, <3>5 DEF PageKept
      <3> QED
        BY <1>1, <1>2, <2>4, <3>2, <3>4, <3>6, ContinuesGood
    <2>6. CASE call[c].kind = "fetch_page" /\ ~DidBetter(call[c], page)
      <3>1. Settles(c, call[c])
        BY <2>2, <2>6 DEF GotJina
      <3>2. GoesOn(c, call[c]) /\ call'[c].at = "ended"
        BY <1>3, <1>4, <2>6, <3>1, SettlesType
      <3>3. PageKept(c, call[c])
        <4>1. call[c].failure = "none" /\ call[c].page.status_code = 200
              /\ ~(page.length > call[c].page.length)
          BY <2>6 DEF DidBetter
        <4>2. call[c].page.length \in Nat
          BY <1>5, <4>1, PageLength
        <4>3. call[c].page.length >= best'[c]
          BY <1>4, <2>1, <2>3, <2>4, <2>6, <4>1, <4>2
        <4> QED
          BY <3>2, <4>1, <4>3 DEF PageKept
      <3> QED
        BY <1>1, <1>2, <1>3, <2>4, <3>2, <3>3, ContinuesGood
    <2>7. CASE call[c].kind = "fetch_official_page"
      <3>1. OfficialDirect(c, call[c]) \/ Ends(c, call[c], "ok", page)
        BY <2>2, <2>7 DEF GotJina
      <3>2. GoesOn(c, call[c])
        <4>1. CASE OfficialDirect(c, call[c])
          BY <1>3, <2>7, <4>1, OfficialType
        <4>2. CASE Ends(c, call[c], "ok", page)
          <5>1. "ok" \in ToolStatus
            BY DEF ToolStatus
          <5>2. /\ Replaced(c, call[c]) /\ DOMAIN waiting' = Hosts
                /\ call'[c].at = "ended" /\ call'[c].failure = "none"
            BY <1>3, <2>1, <4>2, <5>1, EndsType
          <5> QED
            BY <2>7, <5>2 DEF GoesOn
        <4> QED
          BY <3>1, <4>1, <4>2
      <3> QED
        BY <1>1, <1>2, <1>3, <2>4, <2>7, <3>2, ContinuesGood
    <2>8. CASE call[c].kind = "search_web"
      <3>1. Ends(c, call[c], "ok", NoPage)
        BY <2>2, <2>8 DEF GotJina
      <3>2. GoesOn(c, call[c])
        BY <1>3, <2>8, <3>1, EndsType DEF GoesOn, ToolStatus
      <3> QED
        BY <1>1, <1>2, <1>3, <2>4, <2>8, <3>2, ContinuesGood
    <2> QED
      BY <1>3, <2>5, <2>6, <2>7, <2>8 DEF CallRecord, Kinds
  <1> QED
    BY <1>6, <1>7, <1>8 DEF JinaAnswers

LEMMA CancelledGood ==
  ASSUME CallInv, NEW c \in Callers, Cancelled(c)
  PROVE  CallInv'
  <1> USE DEF CallInv
  <1>1. /\ call' = [call EXCEPT ![c] = Ended(call[c], "ok", NoPage)]
        /\ LetsGo(c) /\ UNCHANGED <<world, jina_sent, reached, best>>
        /\ asked' = [asked EXCEPT ![c] = None]
        /\ calls_used' \in {calls_used, Charged(c)}
    BY DEF Cancelled
  <1>2. call'[c] = Ended(call[c], "ok", NoPage) /\ call[c] \in CallRecord
    BY <1>1 DEF RetrievalTypeOK
  <1>3. OnlyCall(c)
    BY <1>1, <1>2 DEF OnlyCall
  <1>4. /\ Replaced(c, call[c])
        /\ call'[c].at = "ended" /\ call'[c].page = NoPage /\ call'[c].failure = "none"
        /\ call'[c].status = "ok"
    BY <1>2, <1>3, EndedType DEF ToolStatus
  <1>5. DOMAIN waiting' = Hosts
    BY DEF Cancelled, RetrievalTypeOK
  <1>6. holder' \in [Hosts -> Callers \cup {None}] /\ since' \in [Hosts -> 0..Interval]
    <2>1. CASE Leaves(c)
      BY <2>1, LeavesType
    <2>2. CASE holder' = [holder EXCEPT ![Host[call[c].url]] = None] /\ UNCHANGED since
      BY <2>2 DEF RetrievalTypeOK
    <2>3. CASE UNCHANGED <<holder, since>>
      BY <2>3 DEF RetrievalTypeOK
    <2> QED
      BY <1>1, <2>1, <2>2, <2>3 DEF LetsGo
  <1>7. asked' \in HostAsked
    BY <1>1 DEF RetrievalTypeOK
  <1> QED
    BY <1>1, <1>4, <1>5, <1>6, <1>7, ChargedType, EndsEmptyGood

-----------------------------------------------------------------------------
(* The invariant *)

LEMMA InitGood == Init => CallInv
  <1> SUFFICES ASSUME Init PROVE CallInv
    OBVIOUS
  <1>1. Idle \in CallRecord /\ Idle.at = "idle" /\ Idle.page = NoPage /\ Idle.failure = "none"
    BY FreshType DEF Idle, Kinds
  <1>2. RetrievalTypeOK
    BY <1>1 DEF Init, RetrievalTypeOK
  <1>3. ASSUME NEW c \in Callers PROVE CallGood(c)
    <2>1. call[c] = Idle /\ reached[c] = {} /\ best[c] = 0
      BY DEF Init
    <2>2. Idle.page.status_code # 200
      BY <1>1 DEF NoPage
    <2> QED
      BY <1>1, <2>1, <2>2
      DEF CallGood, Allowed, Vetted, NotRouted, HoldsLongest, AtOrigin, AtJina
  <1> QED
    BY <1>2, <1>3 DEF CallInv

LEMMA RestartGood ==
  ASSUME CallInv, Restart
  PROVE  CallInv'
  <1>1. Idle \in CallRecord /\ Idle.at = "idle" /\ Idle.page = NoPage /\ Idle.failure = "none"
    BY FreshType DEF Idle, Kinds
  <1>2. RetrievalTypeOK'
    BY <1>1 DEF Restart, CallInv, RetrievalTypeOK
  <1>3. ASSUME NEW c \in Callers PROVE CallGood(c)'
    <2>1. call'[c] = Idle /\ reached'[c] = {} /\ best'[c] = 0
      BY DEF Restart
    <2>2. Idle.page.status_code # 200
      BY <1>1 DEF NoPage
    <2> QED
      BY <1>1, <2>1, <2>2
      DEF CallGood, Allowed, Vetted, NotRouted, HoldsLongest, AtOrigin, AtJina
  <1> QED
    BY <1>2, <1>3 DEF CallInv

\* Time passes, and nothing happens to any call.
LEMMA QuietGood ==
  ASSUME CallInv, settings' = settings, call' = call, reached' = reached, best' = best,
         RetrievalTypeOK'
  PROVE  CallInv'
  BY KeptGood DEF CallInv, Kept

LEMMA TickGood ==
  ASSUME CallInv, Tick
  PROVE  CallInv'
  <1>1. \A h \in Hosts : since[h] \in 0..Interval
    BY DEF CallInv, RetrievalTypeOK
  <1>2. \A h \in Hosts : Longer(since[h]) \in 0..Interval
    BY <1>1 DEF Longer
  <1>3. since' \in [Hosts -> 0..Interval]
    BY <1>2 DEF Tick
  <1>4. RetrievalTypeOK'
    BY <1>3 DEF Tick, world, CallInv, RetrievalTypeOK
  <1> QED
    BY <1>4, QuietGood DEF Tick, world

LEMMA NewMonthGood ==
  ASSUME CallInv, NewMonth
  PROVE  CallInv'
  <1>1. month' \in Periods
    BY DEF NewMonth, CallInv, RetrievalTypeOK
  <1>2. RetrievalTypeOK'
    BY <1>1 DEF NewMonth, pacing, CallInv, RetrievalTypeOK
  <1> QED
    BY <1>2, QuietGood DEF NewMonth

LEMMA ReconfigureGood ==
  ASSUME CallInv, Reconfigure
  PROVE  CallInv'
  <1>1. configured' \in Configs
    BY DEF Reconfigure
  <1>2. RetrievalTypeOK'
    BY <1>1 DEF Reconfigure, pacing, CallInv, RetrievalTypeOK
  <1> QED
    BY <1>2, QuietGood DEF Reconfigure

LEMMA StutterGood ==
  ASSUME CallInv, UNCHANGED rvars
  PROVE  CallInv'
  <1>1. RetrievalTypeOK'
    BY DEF rvars, CallInv, RetrievalTypeOK
  <1> QED
    BY <1>1, QuietGood DEF rvars

LEMMA NextGood == CallInv /\ [Next]_rvars => CallInv'
  <1> SUFFICES ASSUME CallInv, [Next]_rvars PROVE CallInv'
    OBVIOUS
  <1>1. ASSUME NEW c \in Callers, Begin(c) \/ Step(c) \/ Cancelled(c) PROVE CallInv'
    BY <1>1, BeginGood, TakesLockGood, SendsDirectGood, RedirectedGood, DirectEndsGood,
       ReserveGood, AsksJinaGood, JinaAnswersGood, CancelledGood DEF Step
  <1> QED
    BY <1>1, TickGood, NewMonthGood, ReconfigureGood, RestartGood, StutterGood DEF Next

\* The inductive invariant: every call in progress passed the guard, is at a
\* tool that is switched on, and holds the longest page it was given.
THEOREM CallInvariant == Spec => []CallInv
  BY InitGood, NextGood, PTL DEF Spec

\* Every variable of the retrieval tools keeps its type.
THEOREM RetrievalTypeCorrect == Spec => []RetrievalTypeOK
  <1>1. CallInv => RetrievalTypeOK
    BY DEF CallInv
  <1> QED
    BY <1>1, CallInvariant, PTL

\* Nothing is asked for that the guard refuses, and of no tool that is switched
\* off, whatever the settings, URLs, hosts and number of callers.
THEOREM OnlyAllowed == Spec => []RequestsAllowed
  <1>1. CallInv => RequestsAllowed
    BY DEF CallInv, CallGood, RequestsAllowed
  <1> QED
    BY <1>1, CallInvariant, PTL

\* A refusal is never routed around through Jina.
THEOREM RefusalStands == Spec => []RefusalIsFinal
  <1>1. CallInv => RefusalIsFinal
    BY DEF CallInv, CallGood, NotRouted, RefusalIsFinal
  <1> QED
    BY <1>1, CallInvariant, PTL

\* A page is never traded for a shorter one.
THEOREM LongerIsKept == Spec => []KeepsTheLonger
  <1>1. CallInv => KeepsTheLonger
    BY DEF CallInv, CallGood, HoldsLongest, KeepsTheLonger
  <1> QED
    BY <1>1, CallInvariant, PTL

-----------------------------------------------------------------------------
(* The budget *)

\* A charge is one call more, within the limit.
LEMMA ChargeWithinLimit ==
  ASSUME RetrievalTypeOK, NEW c \in Callers,
         calls_used' = Charged(c),
         reserve_call(calls_used[call[c].period], settings.limit),
         NEW p \in Periods
  PROVE  \/ calls_used'[p] = calls_used[p]
         \/ calls_used'[p] = calls_used[p] + 1 /\ calls_used'[p] <= settings.limit
  <1>1. call[c].period \in Periods /\ settings.limit \in Nat /\ calls_used[p] \in Nat
    BY DEF RetrievalTypeOK, CallRecord
  <1>2. calls_used' = [calls_used EXCEPT ![call[c].period] = calls_used[call[c].period] + 1]
    BY DEF Charged
  <1>3. CASE p = call[c].period
    <2>1. calls_used'[p] = calls_used[p] + 1
      BY <1>2, <1>3 DEF RetrievalTypeOK
    <2>2. calls_used[p] < settings.limit
      BY <1>3 DEF reserve_call
    <2> QED
      BY <1>1, <2>1, <2>2
  <1>4. CASE p # call[c].period
    BY <1>2, <1>4 DEF RetrievalTypeOK
  <1> QED
    BY <1>3, <1>4

\* Whatever happens, the counts stay or a reservation lands.
LEMMA ChargesLand ==
  ASSUME RetrievalTypeOK, [Next]_rvars
  PROVE  \/ calls_used' = calls_used
         \/ \E c \in Callers : /\ calls_used' = Charged(c)
                               /\ reserve_call(calls_used[call[c].period], settings.limit)
  <1>1. ASSUME NEW c \in Callers, Reserve(c)
        PROVE  \/ calls_used' = calls_used
               \/ /\ calls_used' = Charged(c)
                  /\ reserve_call(calls_used[call[c].period], settings.limit)
    BY <1>1 DEF Reserve
  <1>2. ASSUME NEW c \in Callers, Cancelled(c)
        PROVE  \/ calls_used' = calls_used
               \/ /\ calls_used' = Charged(c)
                  /\ reserve_call(calls_used[call[c].period], settings.limit)
    BY <1>2 DEF Cancelled
  <1>3. ASSUME NEW c \in Callers, Begin(c) \/ TakesLock(c) \/ SendsDirect(c) \/ Redirected(c)
                 \/ DirectEnds(c) \/ AsksJina(c) \/ JinaAnswers(c)
        PROVE  calls_used' = calls_used
    BY <1>3 DEF Begin, TakesLock, SendsDirect, Redirected, DirectEnds, AsksJina, JinaAnswers
  <1>4. Tick \/ NewMonth \/ Reconfigure \/ Restart \/ UNCHANGED rvars =>
          calls_used' = calls_used
    BY DEF Tick, NewMonth, Reconfigure, Restart, rvars
  <1> QED
    BY <1>1, <1>2, <1>3, <1>4 DEF Next, Step

\* For every limit, number of callers and sequence of months: no count passes
\* the limit in force when it is raised, and none is lowered.
THEOREM BudgetHolds == Spec => BudgetKept
  <1> DEFINE Within(p) ==
        \/ calls_used'[p] = calls_used[p]
        \/ calls_used'[p] = calls_used[p] + 1 /\ calls_used'[p] <= settings.limit
  <1>1. RetrievalTypeOK /\ [Next]_rvars => [\A p \in Periods : Within(p)]_rvars
    <2> SUFFICES ASSUME RetrievalTypeOK, [Next]_rvars, NEW p \in Periods PROVE Within(p)
      OBVIOUS
    <2> QED
      BY ChargesLand, ChargeWithinLimit
  <1> QED
    BY <1>1, RetrievalTypeCorrect, PTL DEF Spec, BudgetKept

-----------------------------------------------------------------------------
(* Where a call goes on *)

Away(c) == OnlyCall(c) /\ call'[c].at \in {"reserve", "pace", "ended"}

LEMMA GoesAway ==
  ASSUME RetrievalTypeOK, NEW c \in Callers, NEW r, Goes(c, r),
         r.at \in {"reserve", "pace", "ended"}
  PROVE  Away(c)
  <1>1. call'[c] = r
    BY DEF Goes, RetrievalTypeOK
  <1> QED
    BY <1>1 DEF Goes, Away, OnlyCall

LEMMA EndsAway ==
  ASSUME RetrievalTypeOK, NEW c \in Callers, NEW r, NEW status, NEW page,
         Ends(c, r, status, page)
  PROVE  Away(c)
  <1>1. Ended(r, status, page).at = "ended"
    BY DEF Ended
  <1> QED
    BY <1>1, GoesAway DEF Ends

LEMMA JoinsAway ==
  ASSUME RetrievalTypeOK, NEW c \in Callers, NEW r \in CallRecord, JoinsQueue(c, r)
  PROVE  Away(c)
  <1> DEFINE n == [r EXCEPT !.at = "pace"]
  <1>1. n.at = "pace"
    BY DEF CallRecord
  <1>2. call' = [call EXCEPT ![c] = n]
    BY DEF JoinsQueue
  <1> HIDE DEF n
  <1>3. call'[c] = n
    BY <1>2 DEF RetrievalTypeOK
  <1> QED
    BY <1>1, <1>2, <1>3 DEF Away, OnlyCall

LEMMA WithoutJinaAway ==
  ASSUME RetrievalTypeOK, NEW c \in Callers, NEW r \in CallRecord, NEW status,
         WithoutJina(c, r, status)
  PROVE  Away(c)
  <1>1. \/ Ends(c, r, "ok", r.page) \/ Ends(c, r, r.failure, NoPage)
        \/ JoinsQueue(c, r) \/ Ends(c, r, "disabled", NoPage) \/ Ends(c, r, status, NoPage)
    BY DEF WithoutJina, Settles, OfficialDirect, CallRecord, Kinds
  <1> QED
    BY <1>1, EndsAway, JoinsAway

LEMMA TryJinaAway ==
  ASSUME RetrievalTypeOK, NEW c \in Callers, NEW r \in CallRecord, TryJina(c, r)
  PROVE  Away(c)
  <1>1. CASE MayAskJina(r.kind)
    <2> DEFINE n == [r EXCEPT !.at = "reserve", !.period = month]
    <2>1. n.at = "reserve"
      BY DEF CallRecord
    <2>2. Goes(c, n)
      BY <1>1 DEF TryJina
    <2> HIDE DEF n
    <2> QED
      BY <2>1, <2>2, GoesAway
  <1>2. CASE ~MayAskJina(r.kind)
    BY <1>2, WithoutJinaAway DEF TryJina
  <1> QED
    BY <1>1, <1>2

LEMMA BeginAway ==
  ASSUME RetrievalTypeOK, NEW c \in Callers, Begin(c)
  PROVE  Away(c)
  <1>1. CASE TryJina(c, Fresh("search_web", None))
    <2>1. Fresh("search_web", None) \in CallRecord
      BY FreshType DEF Kinds
    <2> QED
      BY <1>1, <2>1, TryJinaAway
  <1>2. ASSUME NEW kind \in Kinds \ {"search_web"}, NEW url \in Urls, Fetches(c, Fresh(kind, url))
        PROVE  Away(c)
    <2> DEFINE r == Fresh(kind, url)
    <2>1. r \in CallRecord
      BY FreshType
    <2>2. Fetches(c, r)
      BY <1>2
    <2> HIDE DEF r
    <2> DEFINE n == [r EXCEPT !.failure = "disabled"]
    <2>3. n \in CallRecord
      BY <2>1 DEF CallRecord, ToolStatus
    <2>4. Ends(c, r, "refused", NoPage) \/ JoinsQueue(c, r) \/ TryJina(c, n) \/ TryJina(c, r)
      BY <2>2 DEF Fetches, FetchPageDirect
    <2> HIDE DEF n
    <2> QED
      BY <2>1, <2>3, <2>4, EndsAway, JoinsAway, TryJinaAway
  <1> QED
    BY <1>1, <1>2 DEF Begin

LEMMA DirectEndsAway ==
  ASSUME RetrievalTypeOK, NEW c \in Callers, DirectEnds(c)
  PROVE  Away(c)
  <1>1. call[c] \in CallRecord
    BY DEF RetrievalTypeOK
  <1>2. CASE RefusedDirect(c)
    BY <1>2, EndsAway DEF RefusedDirect
  <1>3. CASE FailedDirect(c)
    <2> DEFINE r == [call[c] EXCEPT !.failure = "error"]
    <2>1. r \in CallRecord
      BY <1>1 DEF CallRecord, ToolStatus
    <2>2. TryJina(c, r) \/ Ends(c, call[c], "error", NoPage)
      BY <1>3 DEF FailedDirect
    <2> HIDE DEF r
    <2> QED
      BY <2>1, <2>2, TryJinaAway, EndsAway
  <1>4. ASSUME NEW status \in Statuses, NEW length \in Lengths,
               GotDirect(c, [status_code |-> status, length |-> length])
        PROVE  Away(c)
    <2> DEFINE page == [status_code |-> status, length |-> length]
               r == [call[c] EXCEPT !.page = page]
    <2>1. page \in RetrievedPage /\ GotDirect(c, page)
      BY <1>4 DEF RetrievedPage
    <2> HIDE DEF page
    <2>2. r \in CallRecord
      BY <1>1, <2>1 DEF CallRecord
    <2>3. TryJina(c, r) \/ Ends(c, r, "ok", page) \/ Ends(c, r, "error", NoPage)
      BY <2>1 DEF GotDirect
    <2> HIDE DEF r
    <2> QED
      BY <2>2, <2>3, TryJinaAway, EndsAway
  <1> QED
    BY <1>2, <1>3, <1>4, EndsAway DEF DirectEnds, OtherError

LEMMA JinaAnswersAway ==
  ASSUME RetrievalTypeOK, NEW c \in Callers, JinaAnswers(c)
  PROVE  Away(c)
  <1>1. call[c] \in CallRecord
    BY DEF RetrievalTypeOK
  <1>2. CASE WithoutJina(c, call[c], "error")
    BY <1>1, <1>2, WithoutJinaAway
  <1>3. ASSUME NEW length \in Lengths, GotJina(c, [status_code |-> 200, length |-> length])
        PROVE  Away(c)
    <2> DEFINE page == [status_code |-> 200, length |-> length]
    <2>1. GotJina(c, page)
      BY <1>3
    <2> HIDE DEF page
    <2>2. \/ Ends(c, call[c], "ok", page) \/ Ends(c, call[c], "ok", NoPage)
          \/ Settles(c, call[c]) \/ OfficialDirect(c, call[c])
      BY <1>1, <2>1 DEF GotJina, CallRecord, Kinds
    <2>3. \/ Ends(c, call[c], "ok", page) \/ Ends(c, call[c], "ok", NoPage)
          \/ Ends(c, call[c], "ok", call[c].page) \/ Ends(c, call[c], call[c].failure, NoPage)
          \/ JoinsQueue(c, call[c]) \/ Ends(c, call[c], "disabled", NoPage)
      BY <2>2 DEF Settles, OfficialDirect
    <2> QED
      BY <1>1, <2>3, EndsAway, JoinsAway
  <1> QED
    BY <1>2, <1>3, EndsAway DEF JinaAnswers, OtherError

LEMMA CancelledAway ==
  ASSUME RetrievalTypeOK, NEW c \in Callers, Cancelled(c)
  PROVE  Away(c)
  <1>1. call' = [call EXCEPT ![c] = Ended(call[c], "ok", NoPage)]
    BY DEF Cancelled
  <1>2. call'[c] = Ended(call[c], "ok", NoPage)
    BY <1>1 DEF RetrievalTypeOK
  <1>3. Ended(call[c], "ok", NoPage).at = "ended"
    BY DEF Ended
  <1>4. OnlyCall(c)
    BY <1>1, <1>2 DEF OnlyCall
  <1> QED
    BY <1>2, <1>3, <1>4 DEF Away

-----------------------------------------------------------------------------
(* Every call to Jina is charged *)

\* A step by which nobody is granted a call can only take grants back.
NoGrant ==
  \A c \in Callers :
    call'[c].at = "granted" => call[c].at = "granted" /\ call'[c].period = call[c].period

LEMMA AwayGrantsNone ==
  ASSUME RetrievalTypeOK, NEW c \in Callers, Away(c)
  PROVE  NoGrant
  BY DEF NoGrant, Away, OnlyCall, RetrievalTypeOK

LEMMA GrantedFinite ==
  ASSUME NEW p \in Periods
  PROVE  /\ IsFiniteSet(Granted(p)) /\ Cardinality(Granted(p)) \in Nat
         /\ IsFiniteSet(Granted(p)') /\ Cardinality(Granted(p)') \in Nat
  <1>1. Granted(p) \subseteq Callers /\ Granted(p)' \subseteq Callers
    BY DEF Granted
  <1> QED
    BY <1>1, FS_Subset, FS_CardinalityType

\* Charges and requests apart, the balance can only get better.
LEMMA NoGrantKeeps ==
  ASSUME RetrievalTypeOK, RetrievalTypeOK', GrantsCounted, NoGrant, jina_sent' = jina_sent,
         \A p \in Periods : calls_used'[p] >= calls_used[p]
  PROVE  GrantsCounted'
  <1> SUFFICES ASSUME NEW p \in Periods
               PROVE  jina_sent'[p] + Cardinality(Granted(p)') <= calls_used'[p]
    BY DEF GrantsCounted
  <1>1. Granted(p)' \subseteq Granted(p)
    BY DEF Granted, NoGrant
  <1>2. Cardinality(Granted(p)') <= Cardinality(Granted(p))
    BY <1>1, GrantedFinite, FS_Subset
  <1>3. /\ jina_sent[p] \in Nat /\ calls_used[p] \in Nat /\ calls_used'[p] \in Nat
        /\ Cardinality(Granted(p)) \in Nat /\ Cardinality(Granted(p)') \in Nat
    BY GrantedFinite DEF RetrievalTypeOK
  <1>4. jina_sent[p] + Cardinality(Granted(p)) <= calls_used[p]
    BY DEF GrantsCounted
  <1>5. jina_sent'[p] = jina_sent[p] /\ calls_used'[p] >= calls_used[p]
    OBVIOUS
  <1> QED
    BY <1>2, <1>3, <1>4, <1>5

\* A grant is charged.
LEMMA GrantKeeps ==
  ASSUME RetrievalTypeOK, RetrievalTypeOK', GrantsCounted, NEW c \in Callers,
         call[c].at = "reserve", calls_used' = Charged(c), jina_sent' = jina_sent,
         Goes(c, [call[c] EXCEPT !.at = "granted"])
  PROVE  GrantsCounted'
  <1> SUFFICES ASSUME NEW p \in Periods
               PROVE  jina_sent'[p] + Cardinality(Granted(p)') <= calls_used'[p]
    BY DEF GrantsCounted
  <1>1. call' = [call EXCEPT ![c].at = "granted"] /\ "granted" \in Places
    BY DEF Goes, Places
  <1>2. OnlyCall(c) /\ call'[c].at = "granted" /\ call'[c].period = call[c].period
    BY <1>1, MovesType
  <1>3. \A d \in Callers \ {c} : call'[d] = call[d]
    BY <1>2 DEF OnlyCall, RetrievalTypeOK
  <1>4. /\ jina_sent[p] \in Nat /\ calls_used[p] \in Nat
        /\ Cardinality(Granted(p)) \in Nat /\ IsFiniteSet(Granted(p))
    BY GrantedFinite DEF RetrievalTypeOK
  <1>5. jina_sent[p] + Cardinality(Granted(p)) <= calls_used[p] /\ jina_sent'[p] = jina_sent[p]
    BY DEF GrantsCounted
  <1>6. calls_used' = [calls_used EXCEPT ![call[c].period] = calls_used[call[c].period] + 1]
    BY DEF Charged
  <1>7. CASE p = call[c].period
    <2>1. Granted(p)' = Granted(p) \cup {c} /\ c \notin Granted(p)
      BY <1>2, <1>3, <1>7 DEF Granted
    <2>2. Cardinality(Granted(p)') = Cardinality(Granted(p)) + 1
      BY <1>4, <2>1, FS_AddElement
    <2>3. calls_used'[p] = calls_used[p] + 1
      BY <1>6, <1>7 DEF RetrievalTypeOK
    <2> QED
      BY <1>4, <1>5, <2>2, <2>3
  <1>8. CASE p # call[c].period
    <2>1. Granted(p)' = Granted(p)
      BY <1>2, <1>3, <1>8 DEF Granted
    <2>2. calls_used'[p] = calls_used[p]
      BY <1>6, <1>8 DEF RetrievalTypeOK
    <2> QED
      BY <1>5, <2>1, <2>2
  <1> QED
    BY <1>7, <1>8

\* A request uses its grant up.
LEMMA RequestKeeps ==
  ASSUME RetrievalTypeOK, GrantsCounted, NEW c \in Callers, AsksJina(c)
  PROVE  GrantsCounted'
  <1> SUFFICES ASSUME NEW p \in Periods
               PROVE  jina_sent'[p] + Cardinality(Granted(p)') <= calls_used'[p]
    BY DEF GrantsCounted
  <1>1. /\ call' = [call EXCEPT ![c].at = "jina"] /\ "jina" \in Places
        /\ call[c].at = "granted" /\ calls_used' = calls_used
        /\ jina_sent' = [jina_sent EXCEPT ![call[c].period] = jina_sent[call[c].period] + 1]
    BY DEF AsksJina, Goes, Places
  <1>2. OnlyCall(c) /\ call'[c].at = "jina"
    BY <1>1, MovesType
  <1>3. \A d \in Callers \ {c} : call'[d] = call[d]
    BY <1>2 DEF OnlyCall, RetrievalTypeOK
  <1>4. /\ jina_sent[p] \in Nat /\ calls_used[p] \in Nat
        /\ Cardinality(Granted(p)) \in Nat /\ IsFiniteSet(Granted(p))
    BY GrantedFinite DEF RetrievalTypeOK
  <1>5. jina_sent[p] + Cardinality(Granted(p)) <= calls_used[p] /\ calls_used'[p] = calls_used[p]
    BY <1>1 DEF GrantsCounted
  <1>6. CASE p = call[c].period
    <2>1. Granted(p)' = Granted(p) \ {c} /\ c \in Granted(p)
      BY <1>1, <1>2, <1>3, <1>6 DEF Granted
    <2>2. Cardinality(Granted(p) \ {c}) = Cardinality(Granted(p)) - 1
      <3>1. IsFiniteSet(Granted(p)) /\ c \in Granted(p)
        BY <1>4, <2>1
      <3> QED
        BY <3>1, FS_RemoveElement
    <2>3. Cardinality(Granted(p)') = Cardinality(Granted(p)) - 1
      BY <2>1, <2>2
    <2>4. jina_sent'[p] = jina_sent[p] + 1
      BY <1>1, <1>6 DEF RetrievalTypeOK
    <2> QED
      BY <1>4, <1>5, <2>3, <2>4
  <1>7. CASE p # call[c].period
    <2>1. Granted(p)' = Granted(p)
      BY <1>1, <1>2, <1>3, <1>7 DEF Granted
    <2>2. jina_sent'[p] = jina_sent[p]
      BY <1>1, <1>7 DEF RetrievalTypeOK
    <2> QED
      BY <1>5, <2>1, <2>2
  <1> QED
    BY <1>6, <1>7

LEMMA NeverLowered ==
  ASSUME RetrievalTypeOK, [Next]_rvars, NEW p \in Periods
  PROVE  calls_used'[p] >= calls_used[p]
  <1>1. calls_used'[p] = calls_used[p] \/ calls_used'[p] = calls_used[p] + 1
    BY ChargesLand, ChargeWithinLimit
  <1>2. calls_used[p] \in Nat
    BY DEF RetrievalTypeOK
  <1> QED
    BY <1>1, <1>2

LEMMA GrantsStep ==
  ASSUME CallInv, CallInv', GrantsCounted, [Next]_rvars
  PROVE  GrantsCounted'
  <1>0. RetrievalTypeOK /\ RetrievalTypeOK' /\ \A p \in Periods : calls_used'[p] >= calls_used[p]
    BY NeverLowered DEF CallInv
  <1>1. ASSUME NoGrant, jina_sent' = jina_sent PROVE GrantsCounted'
    BY <1>0, <1>1, NoGrantKeeps
  <1>2. ASSUME NEW c \in Callers, Away(c), jina_sent' = jina_sent PROVE GrantsCounted'
    BY <1>0, <1>1, <1>2, AwayGrantsNone
  <1>3. ASSUME NEW c \in Callers, Begin(c) PROVE GrantsCounted'
    BY <1>0, <1>2, <1>3, BeginAway DEF Begin
  <1>4. ASSUME NEW c \in Callers, DirectEnds(c) PROVE GrantsCounted'
    BY <1>0, <1>2, <1>4, DirectEndsAway DEF DirectEnds
  <1>5. ASSUME NEW c \in Callers, JinaAnswers(c) PROVE GrantsCounted'
    BY <1>0, <1>2, <1>5, JinaAnswersAway DEF JinaAnswers
  <1>6. ASSUME NEW c \in Callers, Cancelled(c) PROVE GrantsCounted'
    BY <1>0, <1>2, <1>6, CancelledAway DEF Cancelled
  <1>7. ASSUME NEW c \in Callers, TakesLock(c) PROVE GrantsCounted'
    <2>1. call' = [call EXCEPT ![c].at = "turn"] /\ "turn" \in Places /\ jina_sent' = jina_sent
      BY <1>7 DEF TakesLock, Places
    <2>2. OnlyCall(c) /\ call'[c].at = "turn"
      BY <1>0, <2>1, MovesType
    <2>3. NoGrant
      BY <1>0, <2>2 DEF NoGrant, OnlyCall, RetrievalTypeOK
    <2> QED
      BY <1>1, <2>1, <2>3
  <1>8. ASSUME NEW c \in Callers, NEW place \in {"direct", "hop"},
               Goes(c, [call[c] EXCEPT !.at = place]), jina_sent' = jina_sent
        PROVE  GrantsCounted'
    <2>1. call' = [call EXCEPT ![c].at = place] /\ place \in Places
      BY <1>8 DEF Goes, Places
    <2>2. OnlyCall(c) /\ call'[c].at = place
      BY <1>0, <2>1, MovesType
    <2>3. NoGrant
      BY <1>0, <2>2 DEF NoGrant, OnlyCall, RetrievalTypeOK
    <2> QED
      BY <1>1, <1>8, <2>3
  <1>9. ASSUME NEW c \in Callers, SendsDirect(c) PROVE GrantsCounted'
    <2>1. jina_sent' = jina_sent
      BY <1>9 DEF SendsDirect
    <2>2. CASE Goes(c, [call[c] EXCEPT !.at = "direct"])
      BY <1>8, <2>1, <2>2
    <2>3. CASE RefusedDirect(c)
      BY <1>0, <1>2, <2>1, <2>3, EndsAway DEF RefusedDirect
    <2> QED
      BY <1>9, <2>2, <2>3 DEF SendsDirect
  <1>10. ASSUME NEW c \in Callers, Redirected(c) PROVE GrantsCounted'
    BY <1>8, <1>10 DEF Redirected
  <1>11. ASSUME NEW c \in Callers, Reserve(c) PROVE GrantsCounted'
    <2>1. jina_sent' = jina_sent /\ call[c].at = "reserve" /\ call[c] \in CallRecord
      BY <1>0, <1>11 DEF Reserve, RetrievalTypeOK
    <2>2. CASE calls_used' = Charged(c) /\ Goes(c, [call[c] EXCEPT !.at = "granted"])
      BY <1>0, <2>1, <2>2, GrantKeeps
    <2>3. CASE WithoutJina(c, call[c], "refused")
      BY <1>0, <1>2, <2>1, <2>3, WithoutJinaAway
    <2>4. CASE OtherError(c)
      BY <1>0, <1>2, <2>1, <2>4, EndsAway DEF OtherError
    <2> QED
      BY <1>11, <2>2, <2>3, <2>4 DEF Reserve
  <1>12. ASSUME NEW c \in Callers, AsksJina(c) PROVE GrantsCounted'
    BY <1>0, <1>12, RequestKeeps
  <1>13. ASSUME Tick \/ NewMonth \/ Reconfigure \/ UNCHANGED rvars PROVE GrantsCounted'
    <2>1. call' = call /\ jina_sent' = jina_sent
      BY <1>13 DEF Tick, NewMonth, Reconfigure, rvars
    <2>2. NoGrant
      BY <2>1 DEF NoGrant
    <2> QED
      BY <1>1, <2>1, <2>2
  <1>14. ASSUME Restart PROVE GrantsCounted'
    <2>1. call' = [c \in Callers |-> Idle] /\ jina_sent' = jina_sent
      BY <1>14 DEF Restart
    <2>2. Idle.at = "idle"
      BY DEF Idle, Fresh
    <2>3. NoGrant
      BY <2>1, <2>2 DEF NoGrant
    <2> QED
      BY <1>1, <2>1, <2>3
  <1> QED
    BY <1>3, <1>4, <1>5, <1>6, <1>7, <1>9, <1>10, <1>11, <1>12, <1>13, <1>14 DEF Next, Step

\* For any number of callers: every request to Jina was charged beforehand.
THEOREM AllCharged == Spec => []EveryCallCharged
  <1>1. Init => GrantsCounted
    <2> SUFFICES ASSUME Init, NEW p \in Periods
                 PROVE  jina_sent[p] + Cardinality(Granted(p)) <= calls_used[p]
      BY DEF GrantsCounted
    <2>1. Idle.at = "idle"
      BY DEF Idle, Fresh
    <2>2. Granted(p) = {}
      BY <2>1 DEF Init, Granted
    <2>3. Cardinality(Granted(p)) = 0
      BY <2>2, FS_EmptySet
    <2> QED
      BY <2>3 DEF Init
  <1>2. CallInv /\ CallInv' /\ GrantsCounted /\ [Next]_rvars => GrantsCounted'
    BY GrantsStep
  <1>3. CallInv /\ GrantsCounted => EveryCallCharged
    <2> SUFFICES ASSUME CallInv, GrantsCounted, NEW p \in Periods
                 PROVE  jina_sent[p] <= calls_used[p]
      BY DEF EveryCallCharged
    <2>1. /\ jina_sent[p] \in Nat /\ calls_used[p] \in Nat /\ Cardinality(Granted(p)) \in Nat
          /\ jina_sent[p] + Cardinality(Granted(p)) <= calls_used[p]
      BY GrantedFinite DEF CallInv, RetrievalTypeOK, GrantsCounted
    <2> QED
      BY <2>1
  <1> QED
    BY <1>1, <1>2, <1>3, CallInvariant, PTL DEF Spec

-----------------------------------------------------------------------------
(* Pacing *)

\* Who is between its turn and the end of its request has a host.
LEMMA SenderHasHost ==
  ASSUME CallInv, NEW c \in Callers, call[c].at \in AtOrigin
  PROVE  call[c].url \in Urls /\ Host[call[c].url] \in Hosts /\ call[c].url # None
  <1>1. call[c].url \in Urls
    BY DEF CallInv, CallGood, Vetted, AtOrigin
  <1> QED
    BY <1>1

\* Nobody else is between its turn and the end of its request at that host.
LEMMA AloneAtHost ==
  ASSUME CallInv, TurnHasLock, NEW c \in Callers, NEW d \in Callers \ {c},
         call[c].at \in {"turn", "direct", "hop"}, call[d].at \in {"turn", "direct", "hop"}
  PROVE  Host[call[d].url] # Host[call[c].url]
  BY DEF TurnHasLock

\* The lock, kept by a step after which the caller has nothing to do with it.
LEMMA AwayKeepsLocks ==
  ASSUME CallInv, TurnHasLock, NEW c \in Callers, Away(c),
         \/ holder' = holder
         \/ /\ holder' = [holder EXCEPT ![Host[call[c].url]] = None]
            /\ call[c].at \in {"turn", "direct", "hop"}
  PROVE  TurnHasLock'
  <1> SUFFICES ASSUME NEW d \in Callers, call'[d].at \in {"turn", "direct", "hop"}
               PROVE  holder'[Host[call'[d].url]] = d
    BY DEF TurnHasLock
  <1>1. d # c
    BY DEF Away
  <1>2. call'[d] = call[d]
    BY <1>1 DEF Away, OnlyCall, CallInv, RetrievalTypeOK
  <1>3. holder[Host[call[d].url]] = d /\ Host[call[d].url] \in Hosts
    BY <1>2, SenderHasHost DEF TurnHasLock, AtOrigin
  <1>4. CASE holder' = holder
    BY <1>2, <1>3, <1>4
  <1>5. CASE /\ holder' = [holder EXCEPT ![Host[call[c].url]] = None]
             /\ call[c].at \in {"turn", "direct", "hop"}
    <2>1. Host[call[d].url] # Host[call[c].url]
      BY <1>1, <1>2, <1>5, AloneAtHost
    <2> QED
      BY <1>2, <1>3, <1>5, <2>1 DEF CallInv, RetrievalTypeOK
  <1> QED
    BY <1>4, <1>5

\* A lock holder that moves on keeps its lock.
LEMMA HolderKeepsLocks ==
  ASSUME CallInv, TurnHasLock, NEW c \in Callers, NEW place \in Places,
         call[c].at \in {"turn", "direct", "hop"} \/ place \notin {"turn", "direct", "hop"},
         call' = [call EXCEPT ![c].at = place], holder' = holder
  PROVE  TurnHasLock'
  <1> SUFFICES ASSUME NEW d \in Callers, call'[d].at \in {"turn", "direct", "hop"}
               PROVE  holder'[Host[call'[d].url]] = d
    BY DEF TurnHasLock
  <1>1. OnlyCall(c) /\ call'[c].at = place /\ call'[c].url = call[c].url
    BY MovesType DEF CallInv
  <1>2. d # c => call'[d] = call[d]
    BY <1>1 DEF OnlyCall, CallInv, RetrievalTypeOK
  <1>3. call[d].at \in {"turn", "direct", "hop"} /\ call'[d].url = call[d].url
    BY <1>1, <1>2
  <1> QED
    BY <1>3 DEF TurnHasLock

LEMMA TakesLockLocks ==
  ASSUME CallInv, TurnHasLock, NEW c \in Callers, TakesLock(c)
  PROVE  TurnHasLock'
  <1> SUFFICES ASSUME NEW d \in Callers, call'[d].at \in {"turn", "direct", "hop"}
               PROVE  holder'[Host[call'[d].url]] = d
    BY DEF TurnHasLock
  <1>1. /\ call' = [call EXCEPT ![c].at = "turn"] /\ "turn" \in Places
        /\ call[c].at = "pace" /\ holder[Host[call[c].url]] = None
        /\ holder' = [holder EXCEPT ![Host[call[c].url]] = c]
    BY DEF TakesLock, Places
  <1>2. OnlyCall(c) /\ call'[c].url = call[c].url
    BY <1>1, MovesType DEF CallInv
  <1>3. Host[call[c].url] \in Hosts
    BY <1>1, SenderHasHost DEF AtOrigin
  <1>4. CASE d = c
    BY <1>1, <1>2, <1>3, <1>4 DEF CallInv, RetrievalTypeOK
  <1>5. CASE d # c
    <2>1. call'[d] = call[d]
      BY <1>2, <1>5 DEF OnlyCall, CallInv, RetrievalTypeOK
    <2>2. holder[Host[call[d].url]] = d /\ Host[call[d].url] \in Hosts
      BY <2>1, SenderHasHost DEF TurnHasLock, AtOrigin
    <2>3. Host[call[d].url] # Host[call[c].url]
      BY <1>1, <2>2
    <2> QED
      BY <1>1, <2>1, <2>2, <2>3 DEF CallInv, RetrievalTypeOK
  <1> QED
    BY <1>4, <1>5

LEMMA LocksStep ==
  ASSUME CallInv, TurnHasLock, [Next]_rvars
  PROVE  TurnHasLock'
  <1>0. RetrievalTypeOK
    BY DEF CallInv
  <1>1. ASSUME NEW c \in Callers, Begin(c) PROVE TurnHasLock'
    BY <1>0, <1>1, BeginAway, AwayKeepsLocks DEF Begin
  <1>2. ASSUME NEW c \in Callers, JinaAnswers(c) PROVE TurnHasLock'
    BY <1>0, <1>2, JinaAnswersAway, AwayKeepsLocks DEF JinaAnswers
  <1>3. ASSUME NEW c \in Callers, DirectEnds(c) PROVE TurnHasLock'
    <2>1. /\ holder' = [holder EXCEPT ![Host[call[c].url]] = None]
          /\ call[c].at \in {"turn", "direct", "hop"}
      BY <1>3 DEF DirectEnds, Leaves
    <2> QED
      BY <1>0, <1>3, <2>1, DirectEndsAway, AwayKeepsLocks
  <1>4. ASSUME NEW c \in Callers, Cancelled(c) PROVE TurnHasLock'
    <2>1. \/ holder' = holder
          \/ /\ holder' = [holder EXCEPT ![Host[call[c].url]] = None]
             /\ call[c].at \in {"turn", "direct", "hop"}
      BY <1>4 DEF Cancelled, LetsGo, Leaves
    <2> QED
      BY <1>0, <1>4, <2>1, CancelledAway, AwayKeepsLocks
  <1>5. ASSUME NEW c \in Callers, TakesLock(c) PROVE TurnHasLock'
    BY <1>5, TakesLockLocks
  <1>6. ASSUME NEW c \in Callers, SendsDirect(c) PROVE TurnHasLock'
    <2>1. call[c].at = "turn"
      BY <1>6 DEF SendsDirect
    <2>2. CASE Goes(c, [call[c] EXCEPT !.at = "direct"]) /\ UNCHANGED <<holder, since>>
      <3>1. call' = [call EXCEPT ![c].at = "direct"] /\ "direct" \in Places /\ holder' = holder
        BY <2>2 DEF Goes, Places
      <3> QED
        BY <2>1, <3>1, HolderKeepsLocks
    <2>3. CASE Leaves(c) /\ RefusedDirect(c)
      <3>1. /\ holder' = [holder EXCEPT ![Host[call[c].url]] = None]
            /\ Ends(c, call[c], "refused", NoPage)
        BY <2>3 DEF Leaves, RefusedDirect
      <3> QED
        BY <1>0, <2>1, <3>1, EndsAway, AwayKeepsLocks
    <2> QED
      BY <1>6, <2>2, <2>3 DEF SendsDirect
  <1>7. ASSUME NEW c \in Callers, Redirected(c) PROVE TurnHasLock'
    <2>1. /\ call[c].at = "direct" /\ holder' = holder
          /\ call' = [call EXCEPT ![c].at = "hop"] /\ "hop" \in Places
      BY <1>7 DEF Redirected, Goes, Places
    <2> QED
      BY <2>1, HolderKeepsLocks
  <1>8. ASSUME NEW c \in Callers, AsksJina(c) PROVE TurnHasLock'
    <2>1. /\ holder' = holder
          /\ call' = [call EXCEPT ![c].at = "jina"] /\ "jina" \in Places
      BY <1>8 DEF AsksJina, Goes, Places
    <2> QED
      BY <2>1, HolderKeepsLocks
  <1>9. ASSUME NEW c \in Callers, Reserve(c) PROVE TurnHasLock'
    <2>1. holder' = holder /\ call[c] \in CallRecord
      BY <1>0, <1>9 DEF Reserve, RetrievalTypeOK
    <2>2. CASE Goes(c, [call[c] EXCEPT !.at = "granted"])
      <3>1. call' = [call EXCEPT ![c].at = "granted"] /\ "granted" \in Places
        BY <2>2 DEF Goes, Places
      <3> QED
        BY <2>1, <3>1, HolderKeepsLocks
    <2>3. CASE WithoutJina(c, call[c], "refused")
      BY <1>0, <2>1, <2>3, WithoutJinaAway, AwayKeepsLocks
    <2>4. CASE OtherError(c)
      BY <1>0, <2>1, <2>4, EndsAway, AwayKeepsLocks DEF OtherError
    <2> QED
      BY <1>9, <2>2, <2>3, <2>4 DEF Reserve
  <1>10. ASSUME Tick \/ NewMonth \/ Reconfigure \/ UNCHANGED rvars PROVE TurnHasLock'
    BY <1>10 DEF Tick, NewMonth, Reconfigure, pacing, rvars, TurnHasLock
  <1>11. ASSUME Restart PROVE TurnHasLock'
    <2>1. call' = [c \in Callers |-> Idle] /\ Idle.at = "idle"
      BY <1>11 DEF Restart, Idle, Fresh
    <2> QED
      BY <2>1 DEF TurnHasLock
  <1> QED
    BY <1>1, <1>2, <1>3, <1>4, <1>5, <1>6, <1>7, <1>8, <1>9, <1>10, <1>11 DEF Next, Step

\* A caller that goes on elsewhere asks nothing of a host any more.
LEMMA AwayAsked ==
  ASSUME RetrievalTypeOK, AskedWhileFetching, NEW c \in Callers, Away(c),
         \/ asked' = asked /\ call[c].at \notin {"direct", "hop"}
         \/ asked' = [asked EXCEPT ![c] = None]
  PROVE  AskedWhileFetching'
  <1>1. \A d \in Callers \ {c} : call'[d] = call[d]
    BY DEF Away, OnlyCall, RetrievalTypeOK
  <1>2. asked'[c] = None /\ \A d \in Callers \ {c} : asked'[d] = asked[d]
    BY DEF AskedWhileFetching, RetrievalTypeOK
  <1> QED
    BY <1>1, <1>2 DEF AskedWhileFetching

\* A caller that moves on asks nothing of a host but while it fetches.
LEMMA MoveAsked ==
  ASSUME RetrievalTypeOK, AskedWhileFetching, NEW c \in Callers, NEW place \in Places,
         call' = [call EXCEPT ![c].at = place],
         \/ place \in {"direct", "hop"} /\ \E h \in Hosts : asked' = [asked EXCEPT ![c] = h]
         \/ call[c].at \notin {"direct", "hop"} /\ asked' = asked
  PROVE  AskedWhileFetching'
  <1>1. OnlyCall(c) /\ call'[c].at = place
    BY MovesType
  <1>2. \A d \in Callers \ {c} : call'[d] = call[d] /\ asked'[d] = asked[d]
    BY <1>1 DEF OnlyCall, RetrievalTypeOK
  <1>3. call'[c].at \notin {"direct", "hop"} => asked'[c] = None
    BY <1>1 DEF AskedWhileFetching
  <1> QED
    BY <1>2, <1>3 DEF AskedWhileFetching

LEMMA AskedStep ==
  ASSUME CallInv, AskedWhileFetching, [Next]_rvars
  PROVE  AskedWhileFetching'
  <1>0. RetrievalTypeOK
    BY DEF CallInv
  <1>1. ASSUME NEW c \in Callers, Begin(c) PROVE AskedWhileFetching'
    BY <1>0, <1>1, BeginAway, AwayAsked DEF Begin
  <1>2. ASSUME NEW c \in Callers, JinaAnswers(c) PROVE AskedWhileFetching'
    BY <1>0, <1>2, JinaAnswersAway, AwayAsked DEF JinaAnswers
  <1>3. ASSUME NEW c \in Callers, DirectEnds(c) PROVE AskedWhileFetching'
    BY <1>0, <1>3, DirectEndsAway, AwayAsked DEF DirectEnds
  <1>4. ASSUME NEW c \in Callers, Cancelled(c) PROVE AskedWhileFetching'
    BY <1>0, <1>4, CancelledAway, AwayAsked DEF Cancelled
  <1>5. ASSUME NEW c \in Callers, TakesLock(c) PROVE AskedWhileFetching'
    <2>1. /\ call' = [call EXCEPT ![c].at = "turn"] /\ "turn" \in Places
          /\ call[c].at = "pace" /\ asked' = asked
      BY <1>5 DEF TakesLock, Places
    <2> QED
      BY <1>0, <2>1, MoveAsked
  <1>6. ASSUME NEW c \in Callers, SendsDirect(c) PROVE AskedWhileFetching'
    <2>1. call[c].at = "turn" /\ Host[call[c].url] \in Hosts
      BY <1>6, SenderHasHost DEF SendsDirect, AtOrigin
    <2>2. CASE /\ Goes(c, [call[c] EXCEPT !.at = "direct"])
               /\ asked' = [asked EXCEPT ![c] = Host[call[c].url]]
      <3>1. call' = [call EXCEPT ![c].at = "direct"] /\ "direct" \in Places
        BY <2>2 DEF Goes, Places
      <3> QED
        BY <1>0, <2>1, <2>2, <3>1, MoveAsked
    <2>3. CASE RefusedDirect(c) /\ asked' = asked
      <3>1. Away(c)
        BY <1>0, <2>3, EndsAway DEF RefusedDirect
      <3> QED
        BY <1>0, <2>1, <2>3, <3>1, AwayAsked
    <2> QED
      BY <1>6, <2>2, <2>3 DEF SendsDirect
  <1>7. ASSUME NEW c \in Callers, Redirected(c) PROVE AskedWhileFetching'
    <2>1. call' = [call EXCEPT ![c].at = "hop"] /\ "hop" \in Places
      BY <1>7 DEF Redirected, Goes, Places
    <2>2. PICK url \in Urls : asked' = [asked EXCEPT ![c] = Host[url]]
      BY <1>7 DEF Redirected
    <2>3. Host[url] \in Hosts
      OBVIOUS
    <2> QED
      BY <1>0, <2>1, <2>2, <2>3, MoveAsked
  <1>8. ASSUME NEW c \in Callers, AsksJina(c) PROVE AskedWhileFetching'
    <2>1. /\ call' = [call EXCEPT ![c].at = "jina"] /\ "jina" \in Places
          /\ call[c].at = "granted" /\ asked' = asked
      BY <1>8 DEF AsksJina, Goes, Places
    <2> QED
      BY <1>0, <2>1, MoveAsked
  <1>9. ASSUME NEW c \in Callers, Reserve(c) PROVE AskedWhileFetching'
    <2>1. asked' = asked /\ call[c].at = "reserve" /\ call[c] \in CallRecord
      BY <1>0, <1>9 DEF Reserve, RetrievalTypeOK
    <2>2. CASE Goes(c, [call[c] EXCEPT !.at = "granted"])
      <3>1. call' = [call EXCEPT ![c].at = "granted"] /\ "granted" \in Places
        BY <2>2 DEF Goes, Places
      <3> QED
        BY <1>0, <2>1, <3>1, MoveAsked
    <2>3. CASE WithoutJina(c, call[c], "refused")
      BY <1>0, <2>1, <2>3, WithoutJinaAway, AwayAsked
    <2>4. CASE OtherError(c)
      BY <1>0, <2>1, <2>4, EndsAway, AwayAsked DEF OtherError
    <2> QED
      BY <1>9, <2>2, <2>3, <2>4 DEF Reserve
  <1>10. ASSUME Tick \/ NewMonth \/ Reconfigure \/ UNCHANGED rvars PROVE AskedWhileFetching'
    BY <1>10 DEF Tick, NewMonth, Reconfigure, pacing, rvars, AskedWhileFetching
  <1>11. ASSUME Restart PROVE AskedWhileFetching'
    BY <1>11 DEF Restart, AskedWhileFetching
  <1> QED
    BY <1>1, <1>2, <1>3, <1>4, <1>5, <1>6, <1>7, <1>8, <1>9, <1>10, <1>11 DEF Next, Step

\* Steps that neither begin nor end a fetch change none.
LEMMA SameFetches ==
  ASSUME \A d \in Callers :
           /\ call'[d].at \in {"direct", "hop"} <=> call[d].at \in {"direct", "hop"}
           /\ call[d].at \in {"direct", "hop"} => call'[d].url = call[d].url
  PROVE  \A h \in Hosts : FetchingFrom(h)' = FetchingFrom(h)
  BY DEF FetchingFrom

\* Nor do they show, when they touch neither the clock of a host nor what is
\* asked of it.
LEMMA SamePacing ==
  ASSUME \A h \in Hosts : FetchingFrom(h)' = FetchingFrom(h), since' = since, asked' = asked
  PROVE  UNCHANGED Paced!pvars
  BY DEF Paced!pvars

\* A caller that goes on elsewhere and was not fetching changes no fetch.
LEMMA AwayStutters ==
  ASSUME RetrievalTypeOK, AskedWhileFetching, NEW c \in Callers, Away(c), since' = since,
         asked' \in {asked, [asked EXCEPT ![c] = None]},
         call[c].at \notin {"direct", "hop"}
  PROVE  UNCHANGED Paced!pvars
  <1>1. \A d \in Callers \ {c} : call'[d] = call[d]
    BY DEF Away, OnlyCall, RetrievalTypeOK
  <1>2. \A h \in Hosts : FetchingFrom(h)' = FetchingFrom(h)
    BY <1>1, SameFetches DEF Away
  <1>3. asked' = asked
    BY DEF AskedWhileFetching, RetrievalTypeOK
  <1> QED
    BY <1>2, <1>3, SamePacing

\* Of the callers that have their turn at a host, one fetches.
LEMMA OnlyFetcher ==
  ASSUME CallInv, TurnHasLock, NEW c \in Callers, call[c].at \in {"turn", "direct", "hop"}
  PROVE  FetchingFrom(Host[call[c].url]) =
           IF call[c].at \in {"direct", "hop"} THEN {c} ELSE {}
  <1>1. call[c].url # None
    BY SenderHasHost DEF AtOrigin
  <1>2. \A d \in Callers \ {c} : d \notin FetchingFrom(Host[call[c].url])
    BY AloneAtHost DEF FetchingFrom
  <1>3. c \in FetchingFrom(Host[call[c].url]) <=> call[c].at \in {"direct", "hop"}
    BY <1>1 DEF FetchingFrom
  <1>4. FetchingFrom(Host[call[c].url]) \subseteq Callers
    BY DEF FetchingFrom
  <1> QED
    BY <1>2, <1>3, <1>4

\* What the others fetch, and what is fetched of other hosts, stays.
LEMMA OtherHosts ==
  ASSUME CallInv, NEW c \in Callers, OnlyCall(c), NEW h \in Hosts, Host[call[c].url] = h,
         call'[c].at \in {"direct", "hop"} => call'[c].url = call[c].url
  PROVE  \A g \in Hosts \ {h} : FetchingFrom(g)' = FetchingFrom(g)
  <1>1. \A d \in Callers \ {c} : call'[d] = call[d]
    BY DEF OnlyCall, CallInv, RetrievalTypeOK
  <1> SUFFICES ASSUME NEW g \in Hosts \ {h} PROVE FetchingFrom(g)' = FetchingFrom(g)
    OBVIOUS
  <1>2. c \notin FetchingFrom(g) /\ c \notin FetchingFrom(g)'
    BY DEF FetchingFrom
  <1>3. ASSUME NEW d \in Callers PROVE d \in FetchingFrom(g)' <=> d \in FetchingFrom(g)
    BY <1>1, <1>2 DEF FetchingFrom
  <1> QED
    BY <1>3 DEF FetchingFrom

\* A turn ends.
LEMMA AwayEndsTurn ==
  ASSUME CallInv, TurnHasLock, AskedWhileFetching, NEW c \in Callers, Away(c), Leaves(c),
         call[c].at \in {"turn", "direct", "hop"},
         \/ asked' = [asked EXCEPT ![c] = None]
         \/ asked' = asked /\ call[c].at = "turn"
  PROVE  Paced!Next
  <1>1. PICK h \in Hosts : h = Host[call[c].url]
    BY SenderHasHost DEF AtOrigin
  <1>2. FetchingFrom(h) = IF call[c].at \in {"direct", "hop"} THEN {c} ELSE {}
    BY <1>1, OnlyFetcher
  <1>3. FetchingFrom(h)' = {}
    <2>1. \A d \in Callers \ {c} : call'[d] = call[d]
      BY DEF Away, OnlyCall, CallInv, RetrievalTypeOK
    <2>2. \A d \in Callers \ {c} : d \notin FetchingFrom(h)'
      BY <1>1, <2>1, AloneAtHost DEF FetchingFrom
    <2>3. c \notin FetchingFrom(h)'
      BY DEF Away, FetchingFrom
    <2> QED
      BY <2>2, <2>3 DEF FetchingFrom
  <1>4. \A g \in Hosts \ {h} : FetchingFrom(g)' = FetchingFrom(g)
    BY <1>1, OtherHosts DEF Away
  <1>5. [g \in Hosts |-> FetchingFrom(g)'] = [[g \in Hosts |-> FetchingFrom(g)] EXCEPT ![h] = {}]
    BY <1>3, <1>4
  <1>6. asked' = [d \in Callers |-> IF d \in FetchingFrom(h) THEN None ELSE asked[d]]
    <2>1. asked \in [Callers -> Hosts \cup {None}]
      BY DEF CallInv, RetrievalTypeOK
    <2>2. call[c].at = "turn" => asked[c] = None
      BY DEF AskedWhileFetching
    <2>3. asked' = [asked EXCEPT ![c] = None]
      BY <2>1, <2>2
    <2>4. \A d \in Callers : asked'[d] = IF d \in FetchingFrom(h) THEN None ELSE asked[d]
      BY <1>2, <2>1, <2>2, <2>3
    <2> QED
      BY <2>1, <2>3, <2>4
  <1>7. [g \in Hosts |-> FetchingFrom(g)][h] = FetchingFrom(h)
    OBVIOUS
  <1>8. since' = [since EXCEPT ![h] = 0]
    BY <1>1 DEF Leaves
  <1>9. Paced!TurnEnds(h)
    BY <1>5, <1>6, <1>7, <1>8 DEF Paced!TurnEnds
  <1> QED
    BY <1>9 DEF Paced!Next

\* A fetch begins: nobody else fetches there, and the host had its rest.
LEMMA SendsFetch ==
  ASSUME CallInv, TurnHasLock, NEW c \in Callers, SendsDirect(c),
         Goes(c, [call[c] EXCEPT !.at = "direct"]), since' = since,
         asked' = [asked EXCEPT ![c] = Host[call[c].url]]
  PROVE  Paced!Next
  <1>0. call[c].at = "turn" /\ since[Host[call[c].url]] = Interval
    BY DEF SendsDirect
  <1>1. PICK h \in Hosts : h = Host[call[c].url] /\ call[c].url # None
    BY <1>0, SenderHasHost DEF AtOrigin
  <1>2. call' = [call EXCEPT ![c].at = "direct"] /\ "direct" \in Places
    BY DEF Goes, Places
  <1>3. OnlyCall(c) /\ call'[c].at = "direct" /\ call'[c].url = call[c].url
    BY <1>2, MovesType DEF CallInv
  <1>4. FetchingFrom(h) = {}
    BY <1>0, <1>1, OnlyFetcher
  <1>5. FetchingFrom(h)' = {c}
    <2>1. \A d \in Callers \ {c} : call'[d] = call[d]
      BY <1>3 DEF OnlyCall, CallInv, RetrievalTypeOK
    <2>2. \A d \in Callers \ {c} : d \notin FetchingFrom(h)'
      BY <1>4, <2>1 DEF FetchingFrom
    <2>3. c \in FetchingFrom(h)'
      BY <1>1, <1>3 DEF FetchingFrom
    <2> QED
      BY <2>2, <2>3 DEF FetchingFrom
  <1>6. \A g \in Hosts \ {h} : FetchingFrom(g)' = FetchingFrom(g)
    BY <1>1, <1>3, OtherHosts
  <1>7. [g \in Hosts |-> FetchingFrom(g)'] = [[g \in Hosts |-> FetchingFrom(g)] EXCEPT ![h] = {c}]
    BY <1>5, <1>6
  <1>8. [g \in Hosts |-> FetchingFrom(g)][h] = {}
    BY <1>4
  <1>9. Paced!Fetch(c, h)
    BY <1>0, <1>1, <1>7, <1>8 DEF Paced!Fetch
  <1> QED
    BY <1>9 DEF Paced!Next

\* A redirect changes whom a fetch asks, and not whose pages are fetched.
LEMMA RedirectPaced ==
  ASSUME CallInv, NEW c \in Callers, Redirected(c)
  PROVE  Paced!Next
  <1>1. /\ call[c].at = "direct" /\ since' = since
        /\ call' = [call EXCEPT ![c].at = "hop"] /\ "hop" \in Places
    BY DEF Redirected, Goes, Places
  <1>2. PICK h \in Hosts : asked' = [asked EXCEPT ![c] = h]
    BY DEF Redirected
  <1>3. OnlyCall(c) /\ call'[c].at = "hop" /\ call'[c].url = call[c].url
    BY <1>1, MovesType DEF CallInv
  <1>4. \A d \in Callers \ {c} : call'[d] = call[d]
    BY <1>3 DEF OnlyCall, CallInv, RetrievalTypeOK
  <1>5. \A g \in Hosts : FetchingFrom(g)' = FetchingFrom(g)
    BY <1>1, <1>3, <1>4, SameFetches
  <1>6. \E g \in Hosts : c \in [k \in Hosts |-> FetchingFrom(k)][g]
    BY <1>1, SenderHasHost DEF AtOrigin, FetchingFrom
  <1>7. Paced!Redirected(c, h)
    BY <1>1, <1>2, <1>5, <1>6 DEF Paced!Redirected
  <1> QED
    BY <1>7 DEF Paced!Next

\* A caller that moves and neither was fetching nor will be.
LEMMA MoveStutters ==
  ASSUME RetrievalTypeOK, NEW c \in Callers, NEW place \in Places,
         call[c].at \notin {"direct", "hop"}, place \notin {"direct", "hop"},
         call' = [call EXCEPT ![c].at = place], since' = since, asked' = asked
  PROVE  UNCHANGED Paced!pvars
  <1>1. OnlyCall(c) /\ call'[c].at = place /\ call'[c].url = call[c].url
    BY MovesType
  <1>2. \A d \in Callers \ {c} : call'[d] = call[d]
    BY <1>1 DEF OnlyCall, RetrievalTypeOK
  <1> QED
    BY <1>1, <1>2, SameFetches, SamePacing

LEMMA TickPaced ==
  ASSUME Tick
  PROVE  Paced!Next
  <1>1. since' = [h \in Hosts |-> Longer(since[h])] /\ call' = call /\ asked' = asked
    BY DEF Tick
  <1>2. \A h \in Hosts : FetchingFrom(h)' = FetchingFrom(h)
    BY <1>1 DEF FetchingFrom
  <1>3. \A h \in Hosts : Longer(since[h]) = Paced!Longer(since[h])
    BY DEF Longer, Paced!Longer
  <1>4. Paced!Tick
    BY <1>1, <1>2, <1>3 DEF Paced!Tick
  <1> QED
    BY <1>4 DEF Paced!Next

LEMMA RestartPaced ==
  ASSUME Restart
  PROVE  Paced!Next
  <1>1. /\ since' = [h \in Hosts |-> Interval] /\ asked' = [c \in Callers |-> None]
        /\ call' = [c \in Callers |-> Idle] /\ Idle.at = "idle"
    BY DEF Restart, Idle, Fresh
  <1>2. \A h \in Hosts : FetchingFrom(h)' = {}
    BY <1>1 DEF FetchingFrom
  <1>3. Paced!Restart
    BY <1>1, <1>2 DEF Paced!Restart
  <1> QED
    BY <1>3 DEF Paced!Next

\* Every step of the tools is a step of Pacing, or changes nothing in it.
LEMMA PacedStep ==
  ASSUME CallInv, TurnHasLock, AskedWhileFetching, [Next]_rvars
  PROVE  [Paced!Next]_(Paced!pvars)
  <1>0. RetrievalTypeOK
    BY DEF CallInv
  <1>1. ASSUME NEW c \in Callers, Begin(c) PROVE UNCHANGED Paced!pvars
    <2>1. since' = since /\ asked' = asked /\ call[c].at \notin {"direct", "hop"}
      BY <1>1 DEF Begin
    <2> QED
      BY <1>0, <1>1, <2>1, BeginAway, AwayStutters
  <1>2. ASSUME NEW c \in Callers, JinaAnswers(c) PROVE UNCHANGED Paced!pvars
    <2>1. since' = since /\ asked' = asked /\ call[c].at \notin {"direct", "hop"}
      BY <1>2 DEF JinaAnswers
    <2> QED
      BY <1>0, <1>2, <2>1, JinaAnswersAway, AwayStutters
  <1>3. ASSUME NEW c \in Callers, DirectEnds(c) PROVE Paced!Next
    <2>1. /\ Leaves(c) /\ call[c].at \in {"turn", "direct", "hop"}
          /\ asked' = [asked EXCEPT ![c] = None]
      BY <1>3 DEF DirectEnds
    <2> QED
      BY <1>0, <1>3, <2>1, DirectEndsAway, AwayEndsTurn
  <1>4. ASSUME NEW c \in Callers, Cancelled(c) PROVE Paced!Next \/ UNCHANGED Paced!pvars
    <2>1. Away(c) /\ asked' = [asked EXCEPT ![c] = None]
      BY <1>0, <1>4, CancelledAway DEF Cancelled
    <2>2. CASE call[c].at \in {"direct", "hop"}
      <3>1. Leaves(c)
        BY <1>4, <2>2 DEF Cancelled, LetsGo
      <3> QED
        BY <2>1, <2>2, <3>1, AwayEndsTurn
    <2>3. CASE call[c].at \notin {"direct", "hop"}
      <3>1. since' = since
        BY <1>4, <2>3 DEF Cancelled, LetsGo
      <3> QED
        BY <1>0, <2>1, <2>3, <3>1, AwayStutters
    <2> QED
      BY <2>2, <2>3
  <1>5. ASSUME NEW c \in Callers, TakesLock(c) PROVE UNCHANGED Paced!pvars
    <2>1. /\ since' = since /\ asked' = asked /\ call[c].at = "pace"
          /\ call' = [call EXCEPT ![c].at = "turn"] /\ "turn" \in Places
      BY <1>5 DEF TakesLock, Places
    <2> QED
      BY <1>0, <2>1, MoveStutters
  <1>6. ASSUME NEW c \in Callers, SendsDirect(c) PROVE Paced!Next
    <2>1. CASE /\ Goes(c, [call[c] EXCEPT !.at = "direct"]) /\ UNCHANGED <<holder, since>>
               /\ asked' = [asked EXCEPT ![c] = Host[call[c].url]]
      BY <1>6, <2>1, SendsFetch
    <2>2. CASE Leaves(c) /\ RefusedDirect(c) /\ asked' = asked
      <3>1. call[c].at = "turn" /\ Ends(c, call[c], "refused", NoPage)
        BY <1>6, <2>2 DEF SendsDirect, RefusedDirect
      <3>2. Away(c)
        BY <1>0, <3>1, EndsAway
      <3> QED
        BY <2>2, <3>1, <3>2, AwayEndsTurn
    <2> QED
      BY <1>6, <2>1, <2>2 DEF SendsDirect
  <1>7. ASSUME NEW c \in Callers, Redirected(c) PROVE Paced!Next
    BY <1>7, RedirectPaced
  <1>8. ASSUME NEW c \in Callers, AsksJina(c) PROVE UNCHANGED Paced!pvars
    <2>1. /\ since' = since /\ asked' = asked /\ call[c].at = "granted"
          /\ call' = [call EXCEPT ![c].at = "jina"] /\ "jina" \in Places
      BY <1>8 DEF AsksJina, Goes, Places
    <2> QED
      BY <1>0, <2>1, MoveStutters
  <1>9. ASSUME NEW c \in Callers, Reserve(c) PROVE UNCHANGED Paced!pvars
    <2>1. /\ since' = since /\ asked' = asked
          /\ call[c].at = "reserve" /\ call[c] \in CallRecord
      BY <1>0, <1>9 DEF Reserve, RetrievalTypeOK
    <2>2. CASE Goes(c, [call[c] EXCEPT !.at = "granted"])
      <3>1. call' = [call EXCEPT ![c].at = "granted"] /\ "granted" \in Places
        BY <2>2 DEF Goes, Places
      <3> QED
        BY <1>0, <2>1, <3>1, MoveStutters
    <2>3. CASE WithoutJina(c, call[c], "refused")
      BY <1>0, <2>1, <2>3, WithoutJinaAway, AwayStutters
    <2>4. CASE OtherError(c)
      BY <1>0, <2>1, <2>4, EndsAway, AwayStutters DEF OtherError
    <2> QED
      BY <1>9, <2>2, <2>3, <2>4 DEF Reserve
  <1>10. ASSUME NewMonth \/ Reconfigure \/ UNCHANGED rvars PROVE UNCHANGED Paced!pvars
    <2>1. since' = since /\ call' = call /\ asked' = asked
      BY <1>10 DEF NewMonth, Reconfigure, pacing, rvars
    <2> QED
      BY <2>1, SameFetches, SamePacing
  <1> QED
    BY <1>1, <1>2, <1>3, <1>4, <1>5, <1>6, <1>7, <1>8, <1>9, <1>10, TickPaced, RestartPaced
    DEF Next, Step

\* For any number of callers and hosts, wherever redirects lead and whoever is
\* cancelled: the pages of one host are fetched one at a time, each redirect
\* within the turn of the fetch it belongs to, and an interval apart.
THEOREM HostsArePaced == Spec => ImplementsPacing
  <1>1. Init => TurnHasLock /\ AskedWhileFetching /\ Paced!Init
    <2> SUFFICES ASSUME Init PROVE TurnHasLock /\ AskedWhileFetching /\ Paced!Init
      OBVIOUS
    <2>1. /\ call = [c \in Callers |-> Idle] /\ Idle.at = "idle"
          /\ since = [h \in Hosts |-> Interval] /\ asked = [c \in Callers |-> None]
      BY DEF Init, Idle, Fresh
    <2>2. TurnHasLock /\ AskedWhileFetching
      BY <2>1 DEF TurnHasLock, AskedWhileFetching
    <2>3. \A h \in Hosts : FetchingFrom(h) = {}
      BY <2>1 DEF FetchingFrom
    <2>4. Paced!Init
      BY <2>1, <2>3 DEF Paced!Init
    <2> QED
      BY <2>2, <2>4
  <1>2. CallInv /\ TurnHasLock /\ [Next]_rvars => TurnHasLock'
    BY LocksStep
  <1>3. CallInv /\ AskedWhileFetching /\ [Next]_rvars => AskedWhileFetching'
    BY AskedStep
  <1>4. CallInv /\ TurnHasLock /\ AskedWhileFetching /\ [Next]_rvars =>
          [Paced!Next]_(Paced!pvars)
    BY PacedStep
  <1> QED
    BY <1>1, <1>2, <1>3, <1>4, CallInvariant, PTL DEF Spec, ImplementsPacing, Paced!Spec
=============================================================================
