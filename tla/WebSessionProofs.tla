-------------------------- MODULE WebSessionProofs --------------------------
(* Sign-in and view-as in a browser, for any number of tabs and calls.     *)
EXTENDS WebSession, TLAPS

Issuable == Pairs \cup {0}

PairState == [state : {"unissued", "live", "spent"}, user : People \cup {"nobody"},
              view : BOOLEAN]
RefreshState == [pc : {"none", "sent", "granted"}, token : Issuable, got : Issuable]
PageState == [session : Issuable, viewing : BOOLEAN, leaving : BOOLEAN,
              refresh : RefreshState, asked : Nat]
CallState == [pc : {"none", "sent", "waits", "retried", "relogin"},
              kind : {"me", "view", "password"}, pair : Issuable]

WebTypeOK ==
  /\ pair \in [Pairs -> PairState]
  /\ stored \in Issuable /\ backup \in Issuable
  /\ page \in [WebTabs -> PageState]
  /\ call \in [WebTabs -> [WebCalls -> CallState]]
  /\ unmarked \in BOOLEAN

(* Every pair the browser holds or waits for was issued, so issuing another*)
(* changes none of them; pr is the panel's pairs, now or after a step.     *)
Known(pr, n) == n = 0 \/ pr[n].state # "unissued"

RefreshKnown(pr, r) ==
  /\ Known(pr, r.token) /\ Known(pr, r.got)
  /\ r.pc = "granted" => r.got # 0
  /\ r.pc = "sent" => r.token # 0

PageKnown(pr, p) == Known(pr, p.session) /\ RefreshKnown(pr, p.refresh)

CallKnown(pr, r) == Known(pr, r.pair) /\ (r.pc # "none" => r.pair # 0)

OnlyIssuedHeld ==
  /\ Known(pair, stored) /\ Known(pair, backup)
  /\ \A t \in WebTabs : PageKnown(pair, page[t])
  /\ \A t \in WebTabs, c \in WebCalls : CallKnown(pair, call[t][c])

\* A tab with no refresh under way has presented nothing of its session.
PresentedOnce ==
  \A t \in WebTabs :
    /\ page[t].asked <= 1
    /\ page[t].refresh.pc = "none" => page[t].asked = 0

\* As long as every viewed session shows, none is stashed.
StashInv == unmarked \/ (ViewingShows /\ (backup # 0 => ~pair[backup].view))

WebIInv == WebTypeOK /\ OnlyIssuedHeld /\ PresentedOnce /\ StashInv

-----------------------------------------------------------------------------
\* What is known of a pair stays: it stays issued, for viewing or not.
PairsKept ==
  \A n \in Pairs : pair[n].state # "unissued" =>
    pair'[n].state # "unissued" /\ pair'[n].view = pair[n].view

PairsStep == pair' \in [Pairs -> PairState] /\ PairsKept

LEMMA SamePairs ==
  ASSUME WebTypeOK, pair' = pair
  PROVE  PairsStep
  BY DEF WebTypeOK, PairsStep, PairsKept

LEMMA IssuedKeeps ==
  ASSUME WebTypeOK, NEW n \in Pairs, NEW u \in People \cup {"nobody"},
         NEW view \in BOOLEAN, Issued(n, u, view)
  PROVE  /\ PairsStep
         /\ n \in Issuable /\ n # 0 /\ Known(pair', n) /\ pair'[n].view = view
  BY DEF WebTypeOK, PairState, Pairs, Issued, PairsStep, PairsKept, Known, Issuable

LEMMA KnownStays ==
  ASSUME PairsStep, NEW n \in Issuable, Known(pair, n)
  PROVE  Known(pair', n) /\ (n # 0 => pair'[n].view = pair[n].view)
  BY DEF PairsStep, PairsKept, Known, Issuable, Pairs

LEMMA RefreshStays ==
  ASSUME PairsStep, NEW r \in RefreshState, RefreshKnown(pair, r)
  PROVE  RefreshKnown(pair', r)
  <1>1. r.token \in Issuable /\ r.got \in Issuable
    BY DEF RefreshState
  <1>2. QED
    BY <1>1, KnownStays DEF RefreshKnown

LEMMA PageStays ==
  ASSUME PairsStep, NEW p \in PageState, PageKnown(pair, p)
  PROVE  PageKnown(pair', p)
  <1>1. p.session \in Issuable /\ p.refresh \in RefreshState
    BY DEF PageState
  <1>2. QED
    BY <1>1, KnownStays, RefreshStays DEF PageKnown

LEMMA CallStays ==
  ASSUME PairsStep, NEW r \in CallState, CallKnown(pair, r)
  PROVE  CallKnown(pair', r)
  <1>1. r.pair \in Issuable
    BY DEF CallState
  <1>2. QED
    BY <1>1, KnownStays DEF CallKnown

-----------------------------------------------------------------------------
(* A step of one tab replaces its page, one of its requests or all of them.*)
PagesStep == /\ page' \in [WebTabs -> PageState]
             /\ \A s \in WebTabs : PageKnown(pair', page'[s])

CallsStep == /\ call' \in [WebTabs -> [WebCalls -> CallState]]
             /\ \A s \in WebTabs, d \in WebCalls : CallKnown(pair', call'[s][d])

LEMMA SamePages ==
  ASSUME WebTypeOK, OnlyIssuedHeld, PairsStep, page' = page
  PROVE  PagesStep
  BY PageStays DEF WebTypeOK, OnlyIssuedHeld, PagesStep

LEMMA PageSet ==
  ASSUME WebTypeOK, OnlyIssuedHeld, PairsStep, NEW t \in WebTabs,
         NEW p \in PageState, PageKnown(pair', p), page' = [page EXCEPT ![t] = p]
  PROVE  PagesStep
  <1>1. page \in [WebTabs -> PageState]
    BY DEF WebTypeOK
  <1>2. ASSUME NEW s \in WebTabs PROVE PageKnown(pair', page'[s])
    <2>1. CASE s = t
      BY <1>1, <2>1
    <2>2. CASE s # t
      <3>1. page'[s] = page[s] /\ page[s] \in PageState /\ PageKnown(pair, page[s])
        BY <1>1, <2>2 DEF OnlyIssuedHeld
      <3>2. QED
        BY <3>1, PageStays
    <2>3. QED
      BY <2>1, <2>2
  <1>3. QED
    BY <1>1, <1>2 DEF PagesStep

LEMMA SameCalls ==
  ASSUME WebTypeOK, OnlyIssuedHeld, PairsStep, call' = call
  PROVE  CallsStep
  <1>1. ASSUME NEW s \in WebTabs, NEW d \in WebCalls PROVE CallKnown(pair', call'[s][d])
    <2>1. call[s][d] \in CallState /\ CallKnown(pair, call[s][d])
      BY DEF WebTypeOK, OnlyIssuedHeld
    <2>2. QED
      BY <2>1, CallStays
  <1>2. QED
    BY <1>1 DEF WebTypeOK, CallsStep

LEMMA CallsSet ==
  ASSUME WebTypeOK, OnlyIssuedHeld, PairsStep, NEW t \in WebTabs,
         NEW f \in [WebCalls -> CallState], \A c \in WebCalls : CallKnown(pair', f[c]),
         call' = [call EXCEPT ![t] = f]
  PROVE  CallsStep
  <1>1. call \in [WebTabs -> [WebCalls -> CallState]]
    BY DEF WebTypeOK
  <1>2. ASSUME NEW s \in WebTabs, NEW d \in WebCalls PROVE CallKnown(pair', call'[s][d])
    <2>1. CASE s = t
      BY <1>1, <2>1
    <2>2. CASE s # t
      <3>1. call'[s] = call[s]
        BY <1>1, <2>2
      <3>2. call[s][d] \in CallState /\ CallKnown(pair, call[s][d])
        BY <1>1 DEF OnlyIssuedHeld
      <3>3. QED
        BY <3>1, <3>2, CallStays
    <2>3. QED
      BY <2>1, <2>2
  <1>3. QED
    BY <1>1, <1>2 DEF CallsStep

LEMMA CallSet ==
  ASSUME WebTypeOK, OnlyIssuedHeld, PairsStep, NEW t \in WebTabs, NEW c \in WebCalls,
         NEW r \in CallState, CallKnown(pair', r), call' = [call EXCEPT ![t][c] = r]
  PROVE  CallsStep
  <1> DEFINE f == [call[t] EXCEPT ![c] = r]
  <1>1. call[t] \in [WebCalls -> CallState]
    BY DEF WebTypeOK
  <1>2. f \in [WebCalls -> CallState] /\ call' = [call EXCEPT ![t] = f]
    BY <1>1
  <1>3. ASSUME NEW d \in WebCalls PROVE CallKnown(pair', f[d])
    <2>1. CASE d = c
      BY <1>1, <2>1
    <2>2. CASE d # c
      <3>1. f[d] = call[t][d] /\ call[t][d] \in CallState /\ CallKnown(pair, call[t][d])
        BY <1>1, <2>2 DEF OnlyIssuedHeld
      <3>2. QED
        BY <3>1, CallStays
    <2>3. QED
      BY <2>1, <2>2
  <1> HIDE DEF f
  <1>4. QED
    BY <1>2, <1>3, CallsSet

LEMMA Noted ==
  ASSUME WebTypeOK, Remember
  PROVE  unmarked' \in BOOLEAN
  BY DEF Remember

\* A tab that shows what it views, or views nothing, disturbs no other.
LEMMA ViewingStays ==
  ASSUME WebTypeOK, OnlyIssuedHeld, PairsStep, ViewingShows, NEW t \in WebTabs,
         NEW p \in PageState, page' = [page EXCEPT ![t] = p],
         p.session # 0 /\ pair'[p.session].view => p.viewing
  PROVE  ViewingShows'
  <1>1. page \in [WebTabs -> PageState]
    BY DEF WebTypeOK
  <1>2. ASSUME NEW s \in WebTabs, page'[s].session # 0, pair'[page'[s].session].view
        PROVE  page'[s].viewing
    <2>1. CASE s = t
      BY <1>1, <1>2, <2>1
    <2>2. CASE s # t
      <3>1. page'[s] = page[s] /\ page[s].session \in Issuable
        BY <1>1, <2>2 DEF PageState
      <3>2. Known(pair, page[s].session)
        BY DEF OnlyIssuedHeld, PageKnown
      <3>3. QED
        BY <1>2, <3>1, <3>2, KnownStays DEF ViewingShows, Session
    <2>3. QED
      BY <2>1, <2>2
  <1>3. QED
    BY <1>2 DEF ViewingShows, Session

-----------------------------------------------------------------------------
(* Every action keeps the invariant.                                       *)

LEMMA RequestStep ==
  ASSUME WebIInv, NEW t \in WebTabs, NEW c \in WebCalls,
         NEW kind \in {"me", "view", "password"},
         Request(t, c, kind)
  PROVE  WebIInv'
  <1> USE DEF WebIInv
  <1>1. PairsStep
    BY SamePairs DEF Request, books
  <1>2. PagesStep
    BY <1>1, SamePages DEF Request, books
  <1>3. CallsStep
    <2> DEFINE r == [pc |-> "sent", kind |-> kind, pair |-> Session(t)]
    <2>1. call[t][c] \in CallState /\ CallKnown(pair', call[t][c])
      BY <1>1, CallStays DEF WebTypeOK, OnlyIssuedHeld
    <2>2. r \in CallState /\ CallKnown(pair', r)
      BY <2>1, KnownStays, <1>1 DEF Request, Mounted, CallState, CallKnown, Known,
        Issuable, WebTypeOK, OnlyIssuedHeld, PageKnown, PageState, Session
    <2>3. call' = [call EXCEPT ![t][c] = r]
      BY <2>1 DEF Request, Mounted, WebTypeOK
    <2> HIDE DEF r
    <2>4. QED
      BY <1>1, <2>2, <2>3, CallSet
  <1>4. /\ stored' \in Issuable /\ Known(pair', stored')
        /\ backup' \in Issuable /\ Known(pair', backup')
        /\ unmarked' \in BOOLEAN
    BY <1>1, KnownStays DEF Request, books, Remember, WebTypeOK, OnlyIssuedHeld,
      PageKnown, Known, PageState, RefreshState, Issuable, Pairs, Session
  <1>5. PresentedOnce'
    BY DEF Request, PresentedOnce, WebTypeOK, PageState, RefreshState, Issuable, Pairs,
      Session, books
  <1>6. StashInv'
    BY <1>1, KnownStays DEF Request, StashInv, ViewingShows, books, Remember, WebTypeOK,
      OnlyIssuedHeld, PageKnown, PageState, RefreshState, Issuable, Pairs, Session
  <1>7. QED
    BY <1>1, <1>2, <1>3, <1>4, <1>5, <1>6
       DEF WebTypeOK, OnlyIssuedHeld, PairsStep, PagesStep, CallsStep

LEMMA AwaitRefreshStep ==
  ASSUME WebIInv, NEW t \in WebTabs, NEW c \in WebCalls, AwaitRefresh(t, c)
  PROVE  WebIInv'
  <1> USE DEF WebIInv
  <1>1. PairsStep
    BY SamePairs DEF AwaitRefresh, books
  <1>2. PagesStep
    <2> DEFINE p == IF page[t].refresh = NoRefresh THEN Presented(page[t]) ELSE page[t]
    <2>1. page[t] \in PageState /\ PageKnown(pair', page[t])
      BY <1>1, PageStays DEF WebTypeOK, OnlyIssuedHeld
    <2>2. Presented(page[t]) \in PageState /\ PageKnown(pair', Presented(page[t]))
      <3>1. /\ page[t].session \in Issuable /\ page[t].session # 0
            /\ page[t].asked \in Nat /\ Known(pair', page[t].session)
        BY <2>1 DEF AwaitRefresh, PageState, PageKnown, Session
      <3> DEFINE r == [pc |-> "sent", token |-> page[t].session, got |-> 0]
      <3>2. r \in RefreshState /\ RefreshKnown(pair', r)
        BY <3>1 DEF RefreshState, RefreshKnown, Known, Issuable
      <3>3. Presented(page[t]) = [page[t] EXCEPT !.refresh = r, !.asked = @ + 1]
        BY DEF Presented
      <3> HIDE DEF r
      <3>4. QED
        <4>1. page[t].asked + 1 \in Nat
          BY <3>1
        <4>2. Presented(page[t]) \in PageState
          BY <2>1, <3>2, <3>3, <4>1 DEF PageState
        <4>3. /\ Presented(page[t]).session = page[t].session
              /\ Presented(page[t]).refresh = r
          BY <2>1, <3>3 DEF PageState
        <4>4. QED
          BY <2>1, <3>1, <3>2, <4>2, <4>3 DEF PageKnown
    <2>3. p \in PageState /\ PageKnown(pair', p)
      BY <2>1, <2>2
    <2>4. page' = [page EXCEPT ![t] = p]
      BY <2>1 DEF AwaitRefresh, WebTypeOK
    <2> HIDE DEF p
    <2>5. QED
      BY <1>1, <2>3, <2>4, PageSet
  <1>3. CallsStep
    <2> DEFINE r == [call[t][c] EXCEPT !.pc = "waits"]
    <2>1. call[t][c] \in CallState /\ CallKnown(pair', call[t][c])
      BY <1>1, CallStays DEF WebTypeOK, OnlyIssuedHeld
    <2>2. r \in CallState /\ CallKnown(pair', r)
      BY <2>1 DEF AwaitRefresh, Refused, Presented, NoRefresh, CallState, CallKnown,
        Known, Issuable, WebTypeOK, OnlyIssuedHeld
    <2>3. call' = [call EXCEPT ![t][c] = r]
      BY <2>1 DEF AwaitRefresh, Refused, Presented, NoRefresh, WebTypeOK
    <2> HIDE DEF r
    <2>4. QED
      BY <1>1, <2>2, <2>3, CallSet
  <1>4. /\ stored' \in Issuable /\ Known(pair', stored')
        /\ backup' \in Issuable /\ Known(pair', backup')
        /\ unmarked' \in BOOLEAN
    BY <1>1, KnownStays DEF AwaitRefresh, Refused, Presented, NoRefresh, books,
      Remember, WebTypeOK, OnlyIssuedHeld, PageKnown, Known, PageState, RefreshState,
      Issuable, Pairs, Session
  <1>5. PresentedOnce'
    BY DEF AwaitRefresh, Refused, Presented, NoRefresh, PresentedOnce, WebTypeOK,
      PageState, RefreshState, Issuable, Pairs, Session, books
  <1>6. StashInv'
    BY <1>1, KnownStays DEF AwaitRefresh, Refused, Presented, NoRefresh, StashInv,
      ViewingShows, books, Remember, WebTypeOK, OnlyIssuedHeld, PageKnown, PageState,
      RefreshState, Issuable, Pairs, Session
  <1>7. QED
    BY <1>1, <1>2, <1>3, <1>4, <1>5, <1>6
       DEF WebTypeOK, OnlyIssuedHeld, PairsStep, PagesStep, CallsStep

LEMMA CallFailedStep ==
  ASSUME WebIInv, NEW t \in WebTabs, NEW c \in WebCalls, CallFailed(t, c)
  PROVE  WebIInv'
  <1> USE DEF WebIInv
  <1>1. PairsStep
    BY SamePairs DEF CallFailed, books
  <1>2. PagesStep
    BY <1>1, SamePages DEF CallFailed, books
  <1>3. CallsStep
    <2> DEFINE r == NoCall
    <2>1. call[t][c] \in CallState /\ CallKnown(pair', call[t][c])
      BY <1>1, CallStays DEF WebTypeOK, OnlyIssuedHeld
    <2>2. r \in CallState /\ CallKnown(pair', r)
      BY <2>1 DEF CallFailed, NoCall, CallState, CallKnown, Known, Issuable, WebTypeOK,
        OnlyIssuedHeld
    <2>3. call' = [call EXCEPT ![t][c] = r]
      BY <2>1 DEF CallFailed, NoCall, WebTypeOK
    <2> HIDE DEF r
    <2>4. QED
      BY <1>1, <2>2, <2>3, CallSet
  <1>4. /\ stored' \in Issuable /\ Known(pair', stored')
        /\ backup' \in Issuable /\ Known(pair', backup')
        /\ unmarked' \in BOOLEAN
    BY <1>1, KnownStays DEF CallFailed, NoCall, books, Remember, WebTypeOK,
      OnlyIssuedHeld, PageKnown, Known, PageState, RefreshState, Issuable, Pairs,
      Session
  <1>5. PresentedOnce'
    BY DEF CallFailed, NoCall, PresentedOnce, WebTypeOK, PageState, RefreshState,
      Issuable, Pairs, Session, books
  <1>6. StashInv'
    BY <1>1, KnownStays DEF CallFailed, NoCall, StashInv, ViewingShows, books, Remember,
      WebTypeOK, OnlyIssuedHeld, PageKnown, PageState, RefreshState, Issuable, Pairs,
      Session
  <1>7. QED
    BY <1>1, <1>2, <1>3, <1>4, <1>5, <1>6
       DEF WebTypeOK, OnlyIssuedHeld, PairsStep, PagesStep, CallsStep

LEMMA UserUpdatedStep ==
  ASSUME WebIInv, NEW t \in WebTabs, NEW c \in WebCalls, UserUpdated(t, c)
  PROVE  WebIInv'
  <1> USE DEF WebIInv
  <1>1. PairsStep
    BY SamePairs DEF UserUpdated, books
  <1>2. PagesStep
    BY <1>1, SamePages DEF UserUpdated, books
  <1>3. CallsStep
    <2> DEFINE r == NoCall
    <2>1. call[t][c] \in CallState /\ CallKnown(pair', call[t][c])
      BY <1>1, CallStays DEF WebTypeOK, OnlyIssuedHeld
    <2>2. r \in CallState /\ CallKnown(pair', r)
      BY <2>1 DEF UserUpdated, NoCall, Mounted, CallState, CallKnown, Known, Issuable,
        WebTypeOK, OnlyIssuedHeld
    <2>3. call' = [call EXCEPT ![t][c] = r]
      BY <2>1 DEF UserUpdated, NoCall, Mounted, WebTypeOK
    <2> HIDE DEF r
    <2>4. QED
      BY <1>1, <2>2, <2>3, CallSet
  <1>4. /\ stored' \in Issuable /\ Known(pair', stored')
        /\ backup' \in Issuable /\ Known(pair', backup')
        /\ unmarked' \in BOOLEAN
    BY <1>1, KnownStays DEF UserUpdated, NoCall, Mounted, books, Remember, WebTypeOK,
      OnlyIssuedHeld, PageKnown, Known, PageState, RefreshState, Issuable, Pairs,
      Session
  <1>5. PresentedOnce'
    BY DEF UserUpdated, NoCall, Mounted, PresentedOnce, WebTypeOK, PageState,
      RefreshState, Issuable, Pairs, Session, books
  <1>6. StashInv'
    BY <1>1, KnownStays DEF UserUpdated, NoCall, Mounted, StashInv, ViewingShows, books,
      Remember, WebTypeOK, OnlyIssuedHeld, PageKnown, PageState, RefreshState, Issuable,
      Pairs, Session
  <1>7. QED
    BY <1>1, <1>2, <1>3, <1>4, <1>5, <1>6
       DEF WebTypeOK, OnlyIssuedHeld, PairsStep, PagesStep, CallsStep

LEMMA AnsweredStep ==
  ASSUME WebIInv, NEW t \in WebTabs, NEW c \in WebCalls, Answered(t, c)
  PROVE  WebIInv'
  <1> USE DEF WebIInv
  <1>1. PairsStep
    BY SamePairs DEF Answered, books
  <1>2. PagesStep
    BY <1>1, SamePages DEF Answered, books
  <1>3. CallsStep
    <2> DEFINE r == NoCall
    <2>1. call[t][c] \in CallState /\ CallKnown(pair', call[t][c])
      BY <1>1, CallStays DEF WebTypeOK, OnlyIssuedHeld
    <2>2. r \in CallState /\ CallKnown(pair', r)
      BY <2>1 DEF Answered, NoCall, CallState, CallKnown, Known, Issuable, WebTypeOK,
        OnlyIssuedHeld
    <2>3. call' = [call EXCEPT ![t][c] = r]
      BY <2>1 DEF Answered, NoCall, WebTypeOK
    <2> HIDE DEF r
    <2>4. QED
      BY <1>1, <2>2, <2>3, CallSet
  <1>4. /\ stored' \in Issuable /\ Known(pair', stored')
        /\ backup' \in Issuable /\ Known(pair', backup')
        /\ unmarked' \in BOOLEAN
    BY <1>1, KnownStays DEF Answered, NoCall, books, Remember, WebTypeOK,
      OnlyIssuedHeld, PageKnown, Known, PageState, RefreshState, Issuable, Pairs,
      Session
  <1>5. PresentedOnce'
    BY DEF Answered, NoCall, PresentedOnce, WebTypeOK, PageState, RefreshState,
      Issuable, Pairs, Session, books
  <1>6. StashInv'
    BY <1>1, KnownStays DEF Answered, NoCall, StashInv, ViewingShows, books, Remember,
      WebTypeOK, OnlyIssuedHeld, PageKnown, PageState, RefreshState, Issuable, Pairs,
      Session
  <1>7. QED
    BY <1>1, <1>2, <1>3, <1>4, <1>5, <1>6
       DEF WebTypeOK, OnlyIssuedHeld, PairsStep, PagesStep, CallsStep

LEMMA PasswordChangedStep ==
  ASSUME WebIInv, NEW t \in WebTabs, NEW c \in WebCalls, PasswordChanged(t, c)
  PROVE  WebIInv'
  <1> USE DEF WebIInv
  <1>1. PairsStep
    BY DEF PasswordChanged, PairsStep, PairsKept, WebTypeOK, PairState, UserOf
  <1>2. PagesStep
    BY <1>1, SamePages DEF PasswordChanged, books
  <1>3. CallsStep
    <2> DEFINE r == [call[t][c] EXCEPT !.pc = "relogin"]
    <2>1. call[t][c] \in CallState /\ CallKnown(pair', call[t][c])
      BY <1>1, CallStays DEF WebTypeOK, OnlyIssuedHeld
    <2>2. r \in CallState /\ CallKnown(pair', r)
      BY <2>1 DEF PasswordChanged, Accepted, CallState, CallKnown, Known, Issuable,
        WebTypeOK, OnlyIssuedHeld
    <2>3. call' = [call EXCEPT ![t][c] = r]
      BY <2>1 DEF PasswordChanged, Accepted, WebTypeOK
    <2> HIDE DEF r
    <2>4. QED
      BY <1>1, <2>2, <2>3, CallSet
  <1>4. /\ stored' \in Issuable /\ Known(pair', stored')
        /\ backup' \in Issuable /\ Known(pair', backup')
        /\ unmarked' \in BOOLEAN
    BY <1>1, KnownStays DEF PasswordChanged, Accepted, books, Remember, WebTypeOK,
      OnlyIssuedHeld, PageKnown, Known, PageState, RefreshState, Issuable, Pairs,
      Session
  <1>5. PresentedOnce'
    BY DEF PasswordChanged, Accepted, PresentedOnce, WebTypeOK, PageState, RefreshState,
      Issuable, Pairs, Session, books
  <1>6. StashInv'
    BY <1>1, KnownStays DEF PasswordChanged, Accepted, StashInv, ViewingShows, books,
      Remember, WebTypeOK, OnlyIssuedHeld, PageKnown, PageState, RefreshState, Issuable,
      Pairs, Session
  <1>7. QED
    BY <1>1, <1>2, <1>3, <1>4, <1>5, <1>6
       DEF WebTypeOK, OnlyIssuedHeld, PairsStep, PagesStep, CallsStep

LEMMA ReloginStep ==
  ASSUME WebIInv, NEW t \in WebTabs, NEW c \in WebCalls, NEW n \in Pairs, Relogin(t, c, n)
  PROVE  WebIInv'
  <1> USE DEF WebIInv
  <1>0. /\ PairsStep /\ n \in Issuable /\ n # 0 /\ Known(pair', n)
        /\ pair'[n].view = FALSE
    <2>1. call[t][c] \in CallState /\ call[t][c].pair \in Pairs
      BY DEF Relogin, WebTypeOK, OnlyIssuedHeld, CallKnown, CallState, Issuable, Pairs
    <2>2. UserOf(call[t][c].pair) \in People \cup {"nobody"}
      BY <2>1 DEF UserOf, WebTypeOK, PairState
    <2>3. QED
      BY <2>2, IssuedKeeps DEF Relogin
  <1>1. PairsStep
    BY <1>0
  <1>2. PagesStep
    <2> DEFINE p == [page[t] EXCEPT !.session = n, !.asked = 0]
    <2>1. page[t] \in PageState /\ PageKnown(pair', page[t])
      BY <1>1, PageStays DEF WebTypeOK, OnlyIssuedHeld
    <2>2. p \in PageState /\ PageKnown(pair', p)
      BY <2>1, <1>0 DEF Relogin, SetSession, NoCall, Accepted, PageState, RefreshState,
        Issuable, Pairs, Session, PageKnown, RefreshKnown, Known, WebTypeOK,
        OnlyIssuedHeld
    <2>3. page' = [page EXCEPT ![t] = p]
      BY <2>1 DEF Relogin, SetSession, NoCall, WebTypeOK
    <2> HIDE DEF p
    <2>4. QED
      BY <1>1, <2>2, <2>3, PageSet
  <1>3. CallsStep
    <2> DEFINE r == NoCall
    <2>1. call[t][c] \in CallState /\ CallKnown(pair', call[t][c])
      BY <1>1, CallStays DEF WebTypeOK, OnlyIssuedHeld
    <2>2. r \in CallState /\ CallKnown(pair', r)
      BY <2>1 DEF Relogin, SetSession, NoCall, CallState, CallKnown, Known, Issuable,
        WebTypeOK, OnlyIssuedHeld
    <2>3. call' = [call EXCEPT ![t][c] = r]
      BY <2>1 DEF Relogin, SetSession, NoCall, WebTypeOK
    <2> HIDE DEF r
    <2>4. QED
      BY <1>1, <2>2, <2>3, CallSet
  <1>4. /\ stored' \in Issuable /\ Known(pair', stored')
        /\ backup' \in Issuable /\ Known(pair', backup')
        /\ unmarked' \in BOOLEAN
    BY <1>1, KnownStays, <1>0 DEF Relogin, SetSession, NoCall, books, Remember,
      WebTypeOK, OnlyIssuedHeld, PageKnown, Known, PageState, RefreshState, Issuable,
      Pairs, Session
  <1>5. PresentedOnce'
    BY DEF Relogin, SetSession, NoCall, PresentedOnce, WebTypeOK, PageState,
      RefreshState, Issuable, Pairs, Session, books
  <1>6. StashInv'
    BY <1>1, KnownStays, <1>0 DEF Relogin, SetSession, NoCall, StashInv, ViewingShows,
      books, Remember, WebTypeOK, OnlyIssuedHeld, PageKnown, PageState, RefreshState,
      Issuable, Pairs, Session
  <1>7. QED
    BY <1>1, <1>2, <1>3, <1>4, <1>5, <1>6
       DEF WebTypeOK, OnlyIssuedHeld, PairsStep, PagesStep, CallsStep

LEMMA BeginImpersonationStep ==
  ASSUME WebIInv, NEW t \in WebTabs, NEW c \in WebCalls, NEW n \in Pairs, NEW u \in People,
         BeginImpersonation(t, c, n, u)
  PROVE  WebIInv'
  <1> USE DEF WebIInv
  <1>0. /\ PairsStep /\ n \in Issuable /\ n # 0 /\ Known(pair', n)
        /\ pair'[n].view = TRUE
    BY IssuedKeeps DEF BeginImpersonation
  <1>1. PairsStep
    BY <1>0
  <1>2. PagesStep
    <2> DEFINE p == [page[t] EXCEPT !.session = n, !.viewing = TRUE, !.leaving = TRUE,
                                !.asked = 0]
    <2>1. page[t] \in PageState /\ PageKnown(pair', page[t])
      BY <1>1, PageStays DEF WebTypeOK, OnlyIssuedHeld
    <2>2. p \in PageState /\ PageKnown(pair', p)
      BY <2>1, <1>0 DEF BeginImpersonation, Viewing, NoCall, Accepted, PageState,
        RefreshState, Issuable, Pairs, Session, PageKnown, RefreshKnown, Known,
        WebTypeOK, OnlyIssuedHeld
    <2>3. page' = [page EXCEPT ![t] = p]
      BY <2>1 DEF BeginImpersonation, Viewing, NoCall, WebTypeOK
    <2> HIDE DEF p
    <2>4. QED
      BY <1>1, <2>2, <2>3, PageSet
  <1>3. CallsStep
    <2> DEFINE r == NoCall
    <2>1. call[t][c] \in CallState /\ CallKnown(pair', call[t][c])
      BY <1>1, CallStays DEF WebTypeOK, OnlyIssuedHeld
    <2>2. r \in CallState /\ CallKnown(pair', r)
      BY <2>1 DEF BeginImpersonation, Viewing, NoCall, CallState, CallKnown, Known,
        Issuable, WebTypeOK, OnlyIssuedHeld
    <2>3. call' = [call EXCEPT ![t][c] = r]
      BY <2>1 DEF BeginImpersonation, Viewing, NoCall, WebTypeOK
    <2> HIDE DEF r
    <2>4. QED
      BY <1>1, <2>2, <2>3, CallSet
  <1>4. /\ stored' \in Issuable /\ Known(pair', stored')
        /\ backup' \in Issuable /\ Known(pair', backup')
        /\ unmarked' \in BOOLEAN
    BY <1>1, KnownStays, <1>0 DEF BeginImpersonation, Viewing, NoCall, books, Remember,
      WebTypeOK, OnlyIssuedHeld, PageKnown, Known, PageState, RefreshState, Issuable,
      Pairs, Session
  <1>5. PresentedOnce'
    BY DEF BeginImpersonation, Viewing, NoCall, PresentedOnce, WebTypeOK, PageState,
      RefreshState, Issuable, Pairs, Session, books
  <1>6. StashInv'
    <2> DEFINE p == [page[t] EXCEPT !.session = n, !.viewing = TRUE, !.leaving = TRUE,
                                !.asked = 0]
    <2>1. page[t] \in PageState /\ Known(pair, page[t].session)
      BY DEF WebTypeOK, OnlyIssuedHeld, PageKnown
    <2>2. p \in PageState /\ p.viewing /\ page' = [page EXCEPT ![t] = p]
      BY <2>1, <1>0 DEF BeginImpersonation, Viewing, PageState, WebTypeOK
    <2>3. unmarked' = unmarked /\ backup' \in {page[t].session, backup}
          /\ (backup' # backup => ~page[t].viewing /\ page[t].session # 0)
      BY DEF BeginImpersonation, books, Session
    <2>4. CASE ViewingShows /\ ~unmarked
      <3> HIDE DEF p
      <3>1. ViewingShows'
        BY <1>1, <2>2, <2>4, ViewingStays
      <3>2. backup # 0 => ~pair'[backup].view
        BY <1>1, <2>4, KnownStays DEF StashInv, WebTypeOK, OnlyIssuedHeld
      <3>3. page[t].session # 0 /\ ~page[t].viewing => ~pair'[page[t].session].view
        BY <1>1, <2>1, <2>4, KnownStays DEF PageState, ViewingShows, Session
      <3>4. QED
        BY <2>3, <3>1, <3>2, <3>3 DEF StashInv
    <2>5. CASE unmarked
      BY <2>3, <2>5 DEF StashInv
    <2>6. QED
      BY <2>4, <2>5 DEF StashInv
  <1>7. QED
    BY <1>1, <1>2, <1>3, <1>4, <1>5, <1>6
       DEF WebTypeOK, OnlyIssuedHeld, PairsStep, PagesStep, CallsStep

LEMMA StashFailsStep ==
  ASSUME WebIInv, NEW t \in WebTabs, NEW c \in WebCalls, NEW n \in Pairs, NEW u \in People,
         StashFails(t, c, n, u)
  PROVE  WebIInv'
  <1> USE DEF WebIInv
  <1>0. /\ PairsStep /\ n \in Issuable /\ n # 0 /\ Known(pair', n)
        /\ pair'[n].view = TRUE
    BY IssuedKeeps DEF StashFails
  <1>1. PairsStep
    BY <1>0
  <1>2. PagesStep
    <2> DEFINE p == [page[t] EXCEPT !.leaving = TRUE]
    <2>1. page[t] \in PageState /\ PageKnown(pair', page[t])
      BY <1>1, PageStays DEF WebTypeOK, OnlyIssuedHeld
    <2>2. p \in PageState /\ PageKnown(pair', p)
      BY <2>1, <1>0 DEF StashFails, NoCall, Accepted, PageState, RefreshState, Issuable,
        Pairs, Session, PageKnown, RefreshKnown, Known, WebTypeOK, OnlyIssuedHeld
    <2>3. page' = [page EXCEPT ![t] = p]
      BY <2>1 DEF StashFails, NoCall, WebTypeOK
    <2> HIDE DEF p
    <2>4. QED
      BY <1>1, <2>2, <2>3, PageSet
  <1>3. CallsStep
    <2> DEFINE r == NoCall
    <2>1. call[t][c] \in CallState /\ CallKnown(pair', call[t][c])
      BY <1>1, CallStays DEF WebTypeOK, OnlyIssuedHeld
    <2>2. r \in CallState /\ CallKnown(pair', r)
      BY <2>1 DEF StashFails, NoCall, CallState, CallKnown, Known, Issuable, WebTypeOK,
        OnlyIssuedHeld
    <2>3. call' = [call EXCEPT ![t][c] = r]
      BY <2>1 DEF StashFails, NoCall, WebTypeOK
    <2> HIDE DEF r
    <2>4. QED
      BY <1>1, <2>2, <2>3, CallSet
  <1>4. /\ stored' \in Issuable /\ Known(pair', stored')
        /\ backup' \in Issuable /\ Known(pair', backup')
        /\ unmarked' \in BOOLEAN
    BY <1>1, KnownStays, <1>0 DEF StashFails, NoCall, books, Remember, WebTypeOK,
      OnlyIssuedHeld, PageKnown, Known, PageState, RefreshState, Issuable, Pairs,
      Session
  <1>5. PresentedOnce'
    BY DEF StashFails, NoCall, PresentedOnce, WebTypeOK, PageState, RefreshState,
      Issuable, Pairs, Session, books
  <1>6. StashInv'
    <2> DEFINE p == [page[t] EXCEPT !.leaving = TRUE]
    <2>1. page[t] \in PageState /\ Known(pair, page[t].session)
      BY DEF WebTypeOK, OnlyIssuedHeld, PageKnown
    <2>2. p \in PageState /\ page' = [page EXCEPT ![t] = p]
      BY <2>1, <1>0 DEF StashFails, NoCall, PageState, WebTypeOK
    <2>3. CASE ViewingShows
      <3>1. p.session # 0 /\ pair'[p.session].view => p.viewing
        BY <1>0, <2>1, <2>3, KnownStays DEF PageState, ViewingShows, Session
      <3> HIDE DEF p
      <3>2. ViewingShows'
        BY <1>1, <2>2, <2>3, <3>1, ViewingStays
      <3>3. backup' = backup /\ unmarked' = unmarked
        BY DEF StashFails, NoCall, books
      <3>4. QED
        BY <1>1, <3>2, <3>3, KnownStays DEF StashInv, WebTypeOK, OnlyIssuedHeld
    <2>4. CASE ~ViewingShows
      BY <2>4 DEF StashInv, StashFails, NoCall, books
    <2>5. QED
      BY <2>3, <2>4
  <1>7. QED
    BY <1>1, <1>2, <1>3, <1>4, <1>5, <1>6
       DEF WebTypeOK, OnlyIssuedHeld, PairsStep, PagesStep, CallsStep

LEMMA RefreshServedStep ==
  ASSUME WebIInv, NEW t \in WebTabs, NEW n \in Pairs, RefreshServed(t, n)
  PROVE  WebIInv'
  <1> USE DEF WebIInv
  <1>1. PairsStep
    <2>1. page[t].refresh.token \in Pairs
      BY DEF RefreshServed, WebTypeOK, OnlyIssuedHeld, PageKnown, RefreshKnown, PageState,
             RefreshState, Issuable, Pairs
    <2> DEFINE old == page[t].refresh.token
    <2>2. /\ old \in Pairs /\ old # n /\ pair[old] \in PairState
          /\ pair' = [pair EXCEPT ![old] = [pair[old] EXCEPT !.state = "spent"],
                ![n] = [state |-> "live", user |-> pair[old].user, view |-> pair[old].view]]
      BY <2>1 DEF RefreshServed, WebTypeOK, UserOf
    <2> HIDE DEF old
    <2>3. /\ [pair[old] EXCEPT !.state = "spent"] \in PairState
          /\ [pair[old] EXCEPT !.state = "spent"].view = pair[old].view
          /\ [state |-> "live", user |-> pair[old].user, view |-> pair[old].view] \in PairState
      BY <2>2 DEF PairState
    <2>4. /\ pair' \in [Pairs -> PairState]
          /\ pair'[old] = [pair[old] EXCEPT !.state = "spent"]
          /\ \A m \in Pairs \ {old, n} : pair'[m] = pair[m]
      BY <2>2, <2>3 DEF WebTypeOK
    <2>5. pair[n].state = "unissued" /\ pair'[old].state = "spent"
      BY <2>2, <2>4 DEF RefreshServed, PairState
    <2>6. QED
      BY <2>3, <2>4, <2>5 DEF PairsStep, PairsKept
  <1>2. PagesStep
    <2> DEFINE p == [page[t] EXCEPT !.refresh.pc = "granted", !.refresh.got = n]
    <2>1. page[t] \in PageState /\ PageKnown(pair', page[t])
      BY <1>1, PageStays DEF WebTypeOK, OnlyIssuedHeld
    <2>2. n \in Issuable /\ n # 0 /\ pair'[n].state = "live"
      BY DEF RefreshServed, WebTypeOK, PairState, Issuable, Pairs
    <2>3. p \in PageState /\ PageKnown(pair', p)
      BY <2>1, <2>2 DEF PageState, RefreshState, PageKnown, RefreshKnown, Known
    <2>4. page' = [page EXCEPT ![t] = p]
      BY <2>1 DEF RefreshServed, WebTypeOK, PageState, RefreshState
    <2> HIDE DEF p
    <2>5. QED
      BY <1>1, <2>3, <2>4, PageSet
  <1>3. CallsStep
    BY <1>1, SameCalls DEF RefreshServed, books
  <1>4. /\ stored' \in Issuable /\ Known(pair', stored')
        /\ backup' \in Issuable /\ Known(pair', backup')
        /\ unmarked' \in BOOLEAN
    BY <1>1, KnownStays DEF RefreshServed, books, Remember, WebTypeOK, OnlyIssuedHeld,
      PageKnown, Known, PageState, RefreshState, Issuable, Pairs, Session
  <1>5. PresentedOnce'
    BY DEF RefreshServed, PresentedOnce, WebTypeOK, PageState, RefreshState, Issuable,
      Pairs, Session, books
  <1>6. StashInv'
    <2> DEFINE p == [page[t] EXCEPT !.refresh.pc = "granted", !.refresh.got = n]
    <2>1. page[t] \in PageState /\ Known(pair, page[t].session)
      BY DEF WebTypeOK, OnlyIssuedHeld, PageKnown
    <2>2. p \in PageState /\ p.session = page[t].session /\ p.viewing = page[t].viewing
      BY <2>1 DEF PageState, RefreshState, Issuable
    <2>3. page' = [page EXCEPT ![t] = p]
      BY <2>1 DEF RefreshServed, WebTypeOK, PageState, RefreshState
    <2>4. unmarked' = unmarked /\ backup' = backup
      BY DEF RefreshServed, books
    <2> HIDE DEF p
    <2>5. CASE ViewingShows /\ ~unmarked
      <3>1. p.session # 0 /\ pair'[p.session].view => p.viewing
        BY <1>1, <2>1, <2>2, <2>5, KnownStays DEF PageState, ViewingShows, Session
      <3>2. ViewingShows'
        BY <1>1, <2>2, <2>3, <2>5, <3>1, ViewingStays
      <3>3. QED
        BY <1>1, <2>4, <2>5, <3>2, KnownStays DEF StashInv, WebTypeOK, OnlyIssuedHeld
    <2>6. CASE unmarked
      BY <2>4, <2>6 DEF StashInv
    <2>7. QED
      BY <2>5, <2>6 DEF StashInv
  <1>7. QED
    BY <1>1, <1>2, <1>3, <1>4, <1>5, <1>6
       DEF WebTypeOK, OnlyIssuedHeld, PairsStep, PagesStep, CallsStep

LEMMA RefreshGrantedStep ==
  ASSUME WebIInv, NEW t \in WebTabs, RefreshGranted(t)
  PROVE  WebIInv'
  <1> USE DEF WebIInv
  <1>1. PairsStep
    BY SamePairs DEF RefreshGranted, books
  <1>2. PagesStep
    <2> DEFINE p == [page[t] EXCEPT !.session = page[t].refresh.got, !.refresh = NoRefresh,
                                !.asked = 0]
    <2>1. page[t] \in PageState /\ PageKnown(pair', page[t])
      BY <1>1, PageStays DEF WebTypeOK, OnlyIssuedHeld
    <2>2. p \in PageState /\ PageKnown(pair', p)
      BY <2>1 DEF RefreshGranted, NoRefresh, Accepted, PageState, RefreshState,
        Issuable, Pairs, Session, PageKnown, RefreshKnown, Known, WebTypeOK,
        OnlyIssuedHeld
    <2>3. page' = [page EXCEPT ![t] = p]
      BY <2>1 DEF RefreshGranted, NoRefresh, WebTypeOK
    <2> HIDE DEF p
    <2>4. QED
      BY <1>1, <2>2, <2>3, PageSet
  <1>3. CallsStep
    <2> DEFINE n == page[t].refresh.got
    <2>0. n \in Issuable /\ n # 0 /\ Known(pair', n)
      BY DEF RefreshGranted, WebTypeOK, OnlyIssuedHeld, PageKnown, RefreshKnown, PageState,
             RefreshState
    <2> HIDE DEF n
    <2> DEFINE f == [c \in WebCalls |->
                      IF call[t][c].pc = "waits"
                      THEN [call[t][c] EXCEPT !.pc = "retried", !.pair = n] ELSE call[t][c]]
    <2>1. \A c \in WebCalls : call[t][c] \in CallState /\ CallKnown(pair', call[t][c])
      BY <1>1, CallStays DEF WebTypeOK, OnlyIssuedHeld
    <2>2. \A c \in WebCalls : f[c] \in CallState /\ CallKnown(pair', f[c])
      BY <2>1, <2>0 DEF NoCall, CallState, CallKnown, Known, Issuable
    <2>3. f \in [WebCalls -> CallState] /\ call' = [call EXCEPT ![t] = f]
      BY <2>2 DEF RefreshGranted, NoRefresh, n, WebTypeOK
    <2> HIDE DEF f
    <2>4. QED
      BY <1>1, <2>2, <2>3, CallsSet
  <1>4. /\ stored' \in Issuable /\ Known(pair', stored')
        /\ backup' \in Issuable /\ Known(pair', backup')
        /\ unmarked' \in BOOLEAN
    BY <1>1, KnownStays, Noted DEF RefreshGranted, WebTypeOK, OnlyIssuedHeld, PageKnown,
       RefreshKnown, PageState, RefreshState
  <1>5. PresentedOnce'
    <2>1. page \in [WebTabs -> PageState]
      BY DEF WebTypeOK
    <2>2. page' = [page EXCEPT ![t].session = page[t].refresh.got, ![t].refresh = NoRefresh,
                              ![t].asked = 0]
      BY DEF RefreshGranted
    <2>3. page'[t].asked = 0 /\ \A s \in WebTabs \ {t} : page'[s] = page[s]
      BY <2>1, <2>2 DEF PageState
    <2>4. QED
      BY <2>3 DEF PresentedOnce
  <1>6. StashInv'
    BY <1>1, KnownStays DEF RefreshGranted, NoRefresh, StashInv, ViewingShows, books,
      Remember, WebTypeOK, OnlyIssuedHeld, PageKnown, PageState, RefreshState, Issuable,
      Pairs, Session
  <1>7. QED
    BY <1>1, <1>2, <1>3, <1>4, <1>5, <1>6
       DEF WebTypeOK, OnlyIssuedHeld, PairsStep, PagesStep, CallsStep

LEMMA RefreshFailedStep ==
  ASSUME WebIInv, NEW t \in WebTabs, RefreshFailed(t)
  PROVE  WebIInv'
  <1> USE DEF WebIInv
  <1>1. PairsStep
    BY SamePairs DEF RefreshFailed, books
  <1>2. PagesStep
    <2> DEFINE p == Cleared(page[t])
    <2>1. page[t] \in PageState /\ PageKnown(pair', page[t])
      BY <1>1, PageStays DEF WebTypeOK, OnlyIssuedHeld
    <2>2. p \in PageState /\ PageKnown(pair', p)
      BY <2>1 DEF RefreshFailed, Cleared, NoRefresh, Accepted, PageState, RefreshState,
        Issuable, Pairs, Session, PageKnown, RefreshKnown, Known, WebTypeOK,
        OnlyIssuedHeld
    <2>3. page' = [page EXCEPT ![t] = p]
      BY <2>1 DEF RefreshFailed, Cleared, NoRefresh, WebTypeOK
    <2> HIDE DEF p
    <2>4. QED
      BY <1>1, <2>2, <2>3, PageSet
  <1>3. CallsStep
    <2> DEFINE f == [c \in WebCalls |->
                      IF call[t][c].pc = "waits" THEN NoCall ELSE call[t][c]]
    <2>1. \A c \in WebCalls : call[t][c] \in CallState /\ CallKnown(pair', call[t][c])
      BY <1>1, CallStays DEF WebTypeOK, OnlyIssuedHeld
    <2>2. \A c \in WebCalls : f[c] \in CallState /\ CallKnown(pair', f[c])
      BY <2>1 DEF NoCall, CallState, CallKnown, Known, Issuable
    <2>3. f \in [WebCalls -> CallState] /\ call' = [call EXCEPT ![t] = f]
      BY <2>2 DEF RefreshFailed, WebTypeOK
    <2> HIDE DEF f
    <2>4. QED
      BY <1>1, <2>2, <2>3, CallsSet
  <1>4. /\ stored' \in Issuable /\ Known(pair', stored')
        /\ backup' \in Issuable /\ Known(pair', backup')
        /\ unmarked' \in BOOLEAN
    BY <1>1, KnownStays DEF RefreshFailed, Cleared, NoRefresh, books, Remember,
      WebTypeOK, OnlyIssuedHeld, PageKnown, Known, PageState, RefreshState, Issuable,
      Pairs, Session
  <1>5. PresentedOnce'
    BY DEF RefreshFailed, Cleared, NoRefresh, PresentedOnce, WebTypeOK, PageState,
      RefreshState, Issuable, Pairs, Session, books
  <1>6. StashInv'
    BY <1>1, KnownStays DEF RefreshFailed, Cleared, NoRefresh, StashInv, ViewingShows,
      books, Remember, WebTypeOK, OnlyIssuedHeld, PageKnown, PageState, RefreshState,
      Issuable, Pairs, Session
  <1>7. QED
    BY <1>1, <1>2, <1>3, <1>4, <1>5, <1>6
       DEF WebTypeOK, OnlyIssuedHeld, PairsStep, PagesStep, CallsStep

LEMMA SignInStep ==
  ASSUME WebIInv, NEW t \in WebTabs, NEW n \in Pairs, NEW u \in People, SignIn(t, n, u)
  PROVE  WebIInv'
  <1> USE DEF WebIInv
  <1>0. /\ PairsStep /\ n \in Issuable /\ n # 0 /\ Known(pair', n)
        /\ pair'[n].view = FALSE
    BY IssuedKeeps DEF SignIn
  <1>1. PairsStep
    BY <1>0
  <1>2. PagesStep
    <2> DEFINE p == [page[t] EXCEPT !.session = n, !.asked = 0]
    <2>1. page[t] \in PageState /\ PageKnown(pair', page[t])
      BY <1>1, PageStays DEF WebTypeOK, OnlyIssuedHeld
    <2>2. p \in PageState /\ PageKnown(pair', p)
      BY <2>1, <1>0 DEF SignIn, SetSession, Accepted, PageState, RefreshState, Issuable,
        Pairs, Session, PageKnown, RefreshKnown, Known, WebTypeOK, OnlyIssuedHeld
    <2>3. page' = [page EXCEPT ![t] = p]
      BY <2>1 DEF SignIn, SetSession, WebTypeOK
    <2> HIDE DEF p
    <2>4. QED
      BY <1>1, <2>2, <2>3, PageSet
  <1>3. CallsStep
    BY <1>1, SameCalls DEF SignIn, books
  <1>4. /\ stored' \in Issuable /\ Known(pair', stored')
        /\ backup' \in Issuable /\ Known(pair', backup')
        /\ unmarked' \in BOOLEAN
    BY <1>1, KnownStays, <1>0 DEF SignIn, SetSession, books, Remember, WebTypeOK,
      OnlyIssuedHeld, PageKnown, Known, PageState, RefreshState, Issuable, Pairs,
      Session
  <1>5. PresentedOnce'
    BY DEF SignIn, SetSession, PresentedOnce, WebTypeOK, PageState, RefreshState,
      Issuable, Pairs, Session, books
  <1>6. StashInv'
    <2> DEFINE p == [page[t] EXCEPT !.session = n, !.asked = 0]
    <2>1. page[t] \in PageState /\ Known(pair, page[t].session)
      BY DEF WebTypeOK, OnlyIssuedHeld, PageKnown
    <2>2. p \in PageState /\ page' = [page EXCEPT ![t] = p]
      BY <2>1, <1>0 DEF SignIn, SetSession, PageState, WebTypeOK
    <2>3. CASE ViewingShows
      <3>1. p.session # 0 /\ pair'[p.session].view => p.viewing
        BY <1>0, <2>1, <2>3, KnownStays DEF PageState, ViewingShows, Session
      <3> HIDE DEF p
      <3>2. ViewingShows'
        BY <1>1, <2>2, <2>3, <3>1, ViewingStays
      <3>3. backup' = backup /\ unmarked' = unmarked
        BY DEF SignIn, SetSession, books
      <3>4. QED
        BY <1>1, <3>2, <3>3, KnownStays DEF StashInv, WebTypeOK, OnlyIssuedHeld
    <2>4. CASE ~ViewingShows
      BY <2>4 DEF StashInv, SignIn, SetSession, books
    <2>5. QED
      BY <2>3, <2>4
  <1>7. QED
    BY <1>1, <1>2, <1>3, <1>4, <1>5, <1>6
       DEF WebTypeOK, OnlyIssuedHeld, PairsStep, PagesStep, CallsStep

LEMMA EndImpersonationStep ==
  ASSUME WebIInv, NEW t \in WebTabs, EndImpersonation(t)
  PROVE  WebIInv'
  <1> USE DEF WebIInv
  <1>1. PairsStep
    BY SamePairs DEF EndImpersonation, books
  <1>2. PagesStep
    <2> DEFINE p == [page[t] EXCEPT !.session = IF backup # 0 THEN backup ELSE @,
                                !.viewing = FALSE, !.leaving = TRUE, !.asked = 0]
    <2>1. page[t] \in PageState /\ PageKnown(pair', page[t])
      BY <1>1, PageStays DEF WebTypeOK, OnlyIssuedHeld
    <2>2. p \in PageState /\ PageKnown(pair', p)
      BY <2>1, KnownStays DEF EndImpersonation, Accepted, PageState, RefreshState,
        Issuable, Pairs, Session, PageKnown, RefreshKnown, Known, WebTypeOK,
        OnlyIssuedHeld
    <2>3. page' = [page EXCEPT ![t] = p]
      BY <2>1 DEF EndImpersonation, WebTypeOK
    <2> HIDE DEF p
    <2>4. QED
      BY <1>1, <2>2, <2>3, PageSet
  <1>3. CallsStep
    BY <1>1, SameCalls DEF EndImpersonation, books
  <1>4. /\ stored' \in Issuable /\ Known(pair', stored')
        /\ backup' \in Issuable /\ Known(pair', backup')
        /\ unmarked' \in BOOLEAN
    BY <1>1, KnownStays, Noted DEF EndImpersonation, books, Remember, WebTypeOK,
      OnlyIssuedHeld, PageKnown, Known, PageState, RefreshState, Issuable, Pairs,
      Session
  <1>5. PresentedOnce'
    BY DEF EndImpersonation, PresentedOnce, WebTypeOK, PageState, RefreshState,
      Issuable, Pairs, Session, books
  <1>6. StashInv'
    BY <1>1, KnownStays DEF EndImpersonation, StashInv, ViewingShows, books, Remember,
      WebTypeOK, OnlyIssuedHeld, PageKnown, PageState, RefreshState, Issuable, Pairs,
      Session
  <1>7. QED
    BY <1>1, <1>2, <1>3, <1>4, <1>5, <1>6
       DEF WebTypeOK, OnlyIssuedHeld, PairsStep, PagesStep, CallsStep

LEMMA LogoutStep ==
  ASSUME WebIInv, NEW t \in WebTabs, Logout(t)
  PROVE  WebIInv'
  <1> USE DEF WebIInv
  <1>1. PairsStep
    <2>1. Session(t) \in Pairs
      BY DEF Logout, Mounted, Session, WebTypeOK, PageState, Issuable, Pairs
    <2>2. CASE UNCHANGED pair
      BY <2>2, SamePairs
    <2>3. CASE pair' = [pair EXCEPT ![Session(t)].state = "spent"]
      BY <2>1, <2>3 DEF PairsStep, PairsKept, WebTypeOK, PairState
    <2>4. QED
      BY <2>2, <2>3 DEF Logout
  <1>2. PagesStep
    <2> DEFINE p == [page[t] EXCEPT !.session = 0, !.viewing = FALSE, !.asked = 0]
    <2>1. page[t] \in PageState /\ PageKnown(pair', page[t])
      BY <1>1, PageStays DEF WebTypeOK, OnlyIssuedHeld
    <2>2. p \in PageState /\ PageKnown(pair', p)
      BY <2>1 DEF Logout, Accepted, PageState, RefreshState, Issuable, Pairs, Session,
        PageKnown, RefreshKnown, Known, WebTypeOK, OnlyIssuedHeld
    <2>3. page' = [page EXCEPT ![t] = p]
      BY <2>1 DEF Logout, WebTypeOK
    <2> HIDE DEF p
    <2>4. QED
      BY <1>1, <2>2, <2>3, PageSet
  <1>3. CallsStep
    BY <1>1, SameCalls DEF Logout, books
  <1>4. /\ stored' \in Issuable /\ Known(pair', stored')
        /\ backup' \in Issuable /\ Known(pair', backup')
        /\ unmarked' \in BOOLEAN
    BY <1>1, KnownStays DEF Logout, books, Remember, WebTypeOK, OnlyIssuedHeld,
      PageKnown, Known, PageState, RefreshState, Issuable, Pairs, Session
  <1>5. PresentedOnce'
    BY DEF Logout, PresentedOnce, WebTypeOK, PageState, RefreshState, Issuable, Pairs,
      Session, books
  <1>6. StashInv'
    BY <1>1, KnownStays DEF Logout, StashInv, ViewingShows, books, Remember, WebTypeOK,
      OnlyIssuedHeld, PageKnown, PageState, RefreshState, Issuable, Pairs, Session
  <1>7. QED
    BY <1>1, <1>2, <1>3, <1>4, <1>5, <1>6
       DEF WebTypeOK, OnlyIssuedHeld, PairsStep, PagesStep, CallsStep

LEMMA LoadStep ==
  ASSUME WebIInv, NEW t \in WebTabs, Load(t)
  PROVE  WebIInv'
  <1> USE DEF WebIInv
  <1>1. PairsStep
    BY SamePairs DEF Load, books
  <1>2. PagesStep
    <2> DEFINE p == [Blank EXCEPT !.session = stored, !.viewing = backup # 0]
    <2>1. page[t] \in PageState /\ PageKnown(pair', page[t])
      BY <1>1, PageStays DEF WebTypeOK, OnlyIssuedHeld
    <2>2. p \in PageState /\ PageKnown(pair', p)
      BY <2>1 DEF Load, Blank, NoRefresh, Accepted, PageState, RefreshState, Issuable,
        Pairs, Session, PageKnown, RefreshKnown, Known, WebTypeOK, OnlyIssuedHeld
    <2>3. page' = [page EXCEPT ![t] = p]
      BY <2>1 DEF Load, Blank, NoRefresh, WebTypeOK
    <2> HIDE DEF p
    <2>4. QED
      BY <1>1, <2>2, <2>3, PageSet
  <1>3. CallsStep
    <2> DEFINE f == [c \in WebCalls |-> NoCall]
    <2>1. \A c \in WebCalls : call[t][c] \in CallState /\ CallKnown(pair', call[t][c])
      BY <1>1, CallStays DEF WebTypeOK, OnlyIssuedHeld
    <2>2. \A c \in WebCalls : f[c] \in CallState /\ CallKnown(pair', f[c])
      BY <2>1 DEF NoCall, CallState, CallKnown, Known, Issuable
    <2>3. f \in [WebCalls -> CallState] /\ call' = [call EXCEPT ![t] = f]
      BY <2>2 DEF Load, WebTypeOK
    <2> HIDE DEF f
    <2>4. QED
      BY <1>1, <2>2, <2>3, CallsSet
  <1>4. /\ stored' \in Issuable /\ Known(pair', stored')
        /\ backup' \in Issuable /\ Known(pair', backup')
        /\ unmarked' \in BOOLEAN
    BY <1>1, KnownStays, Noted DEF Load, Blank, NoRefresh, books, Remember, WebTypeOK,
      OnlyIssuedHeld, PageKnown, Known, PageState, RefreshState, Issuable, Pairs,
      Session
  <1>5. PresentedOnce'
    BY DEF Load, Blank, NoRefresh, PresentedOnce, WebTypeOK, PageState, RefreshState,
      Issuable, Pairs, Session, books
  <1>6. StashInv'
    BY <1>1, KnownStays DEF Load, Blank, NoRefresh, StashInv, ViewingShows, books,
      Remember, WebTypeOK, OnlyIssuedHeld, PageKnown, PageState, RefreshState, Issuable,
      Pairs, Session
  <1>7. QED
    BY <1>1, <1>2, <1>3, <1>4, <1>5, <1>6
       DEF WebTypeOK, OnlyIssuedHeld, PairsStep, PagesStep, CallsStep

LEMMA InitWebIInv ==
  ASSUME WebSessionInit
  PROVE  WebIInv
  <1>1. /\ pair = [n \in Pairs |-> Unissued] /\ stored = 0 /\ backup = 0
        /\ page = [t \in WebTabs |-> Blank] /\ unmarked = FALSE
        /\ call = [t \in WebTabs |-> [c \in WebCalls |-> NoCall]]
    BY DEF WebSessionInit
  <1>2. Unissued \in PairState /\ NoCall \in CallState
    BY DEF Unissued, PairState, NoCall, CallState, Issuable
  <1>3. NoRefresh \in RefreshState /\ RefreshKnown(pair, NoRefresh)
    BY DEF NoRefresh, RefreshState, RefreshKnown, Known, Issuable
  <1>4. Blank \in PageState /\ PageKnown(pair, Blank)
    BY <1>3 DEF Blank, PageState, PageKnown, Known, Issuable
  <1>5. WebTypeOK
    BY <1>1, <1>2, <1>4 DEF WebTypeOK, Issuable
  <1>6. OnlyIssuedHeld
    BY <1>1, <1>4 DEF OnlyIssuedHeld, Known, CallKnown, NoCall
  <1>7. PresentedOnce
    <2>1. \A t \in WebTabs : page[t].asked = 0
      BY <1>1 DEF Blank
    <2>2. 0 <= 1
      OBVIOUS
    <2>3. QED
      BY <2>1, <2>2, Zenon DEF PresentedOnce
  <1>8. StashInv
    BY <1>1 DEF StashInv, ViewingShows, Session, Blank
  <1>9. QED
    BY <1>5, <1>6, <1>7, <1>8 DEF WebIInv

(* Every step keeps the invariant.                                         *)
LEMMA WebInvariance ==
  ASSUME WebIInv, [WebSessionNext]_webSessionVars
  PROVE  WebIInv'
  <1>1. ASSUME NEW t \in WebTabs, TabStep(t)
        PROVE  WebIInv'
    <2>1. ASSUME NEW c \in WebCalls, NEW kind \in {"me", "view", "password"},
                 Request(t, c, kind)
          PROVE  WebIInv'
      BY <2>1, RequestStep
    <2>2. ASSUME NEW c \in WebCalls,
                 \/ AwaitRefresh(t, c) \/ CallFailed(t, c) \/ UserUpdated(t, c)
                 \/ Answered(t, c) \/ PasswordChanged(t, c)
          PROVE  WebIInv'
      BY <2>2, AwaitRefreshStep, CallFailedStep, UserUpdatedStep, AnsweredStep,
         PasswordChangedStep
    <2>3. ASSUME NEW c \in WebCalls, NEW n \in Pairs, Relogin(t, c, n)
          PROVE  WebIInv'
      BY <2>3, ReloginStep
    <2>4. ASSUME NEW c \in WebCalls, NEW n \in Pairs, NEW u \in People,
                 BeginImpersonation(t, c, n, u) \/ StashFails(t, c, n, u)
          PROVE  WebIInv'
      BY <2>4, BeginImpersonationStep, StashFailsStep
    <2>5. ASSUME NEW n \in Pairs, RefreshServed(t, n)
          PROVE  WebIInv'
      BY <2>5, RefreshServedStep
    <2>6. ASSUME RefreshGranted(t) \/ RefreshFailed(t)
          PROVE  WebIInv'
      BY <2>6, RefreshGrantedStep, RefreshFailedStep
    <2>7. ASSUME NEW n \in Pairs, NEW u \in People, SignIn(t, n, u)
          PROVE  WebIInv'
      BY <2>7, SignInStep
    <2>8. ASSUME EndImpersonation(t) \/ Logout(t) \/ Load(t)
          PROVE  WebIInv'
      BY <2>8, EndImpersonationStep, LogoutStep, LoadStep
    <2>9. QED
      BY <1>1, <2>1, <2>2, <2>3, <2>4, <2>5, <2>6, <2>7, <2>8 DEF TabStep
  <1>2. CASE UNCHANGED webSessionVars
    BY <1>2 DEF webSessionVars, books, WebIInv, WebTypeOK, OnlyIssuedHeld, PresentedOnce,
       StashInv, ViewingShows, Session, PageKnown, RefreshKnown, CallKnown, Known
  <1>3. QED
    BY <1>1, <1>2 DEF WebSessionNext

LEMMA WebInductive ==
  WebSessionSpec => []WebIInv
  <1>1. WebSessionInit => WebIInv
    BY InitWebIInv
  <1>2. WebIInv /\ [WebSessionNext]_webSessionVars => WebIInv'
    BY WebInvariance
  <1>3. QED
    BY <1>1, <1>2, PTL DEF WebSessionSpec

(* refreshAccessToken: whatever the tabs send and load, a tab presents the *)
(* refresh token of the session it holds at most once.                     *)
THEOREM PresentsOnce == WebSessionSpec => []RefreshOnce
  <1>1. WebIInv => RefreshOnce
    BY DEF WebIInv, PresentedOnce, RefreshOnce
  <1>2. QED
    BY <1>1, WebInductive, PTL

(* beginImpersonation: for any number of tabs, what is stashed is a session *)
(* somebody signed in to, as long as every viewed session showed.          *)
THEOREM StashHonest == WebSessionSpec => []StashIsOwn
  <1>1. WebIInv => StashIsOwn
    BY DEF WebIInv, StashInv, StashIsOwn
  <1>2. QED
    BY <1>1, WebInductive, PTL
=============================================================================
