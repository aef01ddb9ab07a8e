--------------------------- MODULE HubTokenProofs ---------------------------
(***************************************************************************)
(* Proofs about HubToken, for any number of callers and any times for      *)
(* which TTL and two HTTP timeouts fit into the lifetime of a token.       *)
(***************************************************************************)
EXTENDS HubToken, TLAPS

\* Whoever is between Lock and Unlock holds the mutex.
Held == \A c \in Callers : call[c].pc \in LoggingIn \cup {"check"} => mutex = c

\* A login is under way only while the cached token is stale.
Stale == \A c \in Callers : call[c].pc \in LoggingIn => ~Fresh

\* The clock has not passed the timeout of an HTTP call, and the stamp of an
\* answer lies within its login.
Timely ==
    \A c \in Callers :
        /\ call[c].pc \in Waiting => call[c].since =< now /\ now =< call[c].since + Timeout
        /\ call[c].pc = "answered" => call[c].since =< call[c].issued /\ call[c].issued =< now

\* What a late answer can add to the life of a token, in the cache and in use.
Margin ==
    /\ token # None => token.expiry =< token.issued + Timeout + TTL
    /\ \A c \in Callers : call[c].pc = "use" => call[c].since < call[c].issued + Timeout + TTL

\* The inductive invariant: ValidInFlight is Margin and Timely with
\* MarginAssumption, OneLoginWhenStale is Held and Stale.
TInv == TTypeOK /\ Held /\ Stale /\ Timely /\ Margin

-----------------------------------------------------------------------------

\* Nobody has called and no token is cached.
LEMMA TInitInv == TInit => TInv
  BY NoneAssumption, TimesAssumption
  DEF TInit, TInv, TTypeOK, Held, Stale, Timely, Margin, Idle, Fresh, Waiting, LoggingIn, Token

\* The clock moves only as far as the calls under way allow, and never makes a
\* stale token fresh.
LEMMA TickInv == TInv /\ Tick => TInv'
  BY TimesAssumption
  DEF TInv, TTypeOK, Held, Stale, Timely, Margin, Fresh, Waiting, LoggingIn, Token, Tick

\* A caller queues for the mutex or takes it.
LEMMA LockInv ==
    ASSUME NEW c \in Callers, TInv, Want(c) \/ Lock(c)
    PROVE  TInv'
  BY NoneAssumption
  DEF TInv, TTypeOK, Held, Stale, Timely, Margin, Fresh, Waiting, LoggingIn, Token, Want, Lock

\* The steps of accessToken with the mutex, and the end of the call it was for.
LEMMA ProceedInv ==
    ASSUME NEW c \in Callers, TInv, Proceed(c)
    PROVE  TInv'
  <1> USE NoneAssumption, TimesAssumption
      DEF TInv, TTypeOK, Held, Stale, Timely, Margin, Fresh, Waiting, LoggingIn, Token
  <1>1. CASE UseCached(c)
    BY <1>1 DEF UseCached, Use
  <1>2. CASE StartLogin(c)
    <2>1. UNCHANGED <<now, token, mutex>> /\ call[c].pc = "check" /\ ~Fresh
      BY <1>2 DEF StartLogin
    <2>2. /\ \A d \in Callers \ {c} : call'[d] = call[d]
          /\ call'[c].pc = "login" /\ call'[c].since = now
      BY <1>2 DEF StartLogin
    <2>3. TTypeOK'
      BY <1>2 DEF StartLogin
    <2> QED
      BY <2>1, <2>2, <2>3
  <1>3. CASE HubIssues(c)
    <2>1. UNCHANGED <<now, token, mutex>> /\ call[c].pc = "login"
      BY <1>3 DEF HubIssues
    <2>2. /\ \A d \in Callers \ {c} : call'[d] = call[d]
          /\ call'[c].pc = "answered" /\ call'[c].issued = now /\ call'[c].since = call[c].since
      BY <1>3 DEF HubIssues
    <2>3. TTypeOK'
      BY <1>3 DEF HubIssues
    <2> QED
      BY <2>1, <2>2, <2>3
  <1>4. CASE StoreToken(c)
    BY <1>4 DEF StoreToken, Use
  <1>5. CASE LoginFails(c)
    BY <1>5 DEF LoginFails, Idle
  <1>6. CASE CallEnds(c)
    BY <1>6 DEF CallEnds, Idle
  <1> QED
    BY <1>1, <1>2, <1>3, <1>4, <1>5, <1>6 DEF Proceed

\* The invariant is inductive.
THEOREM TokenInvariant == TSpec => []TInv
  <1>1. TInv /\ [TNext]_tVars => TInv'
    <2> SUFFICES ASSUME TInv, [TNext]_tVars PROVE TInv'
      OBVIOUS
    <2>1. CASE Tick
      BY <2>1, TickInv
    <2>2. ASSUME NEW c \in Callers, Want(c) \/ Lock(c) PROVE TInv'
      BY <2>2, LockInv
    <2>3. ASSUME NEW c \in Callers, Proceed(c) PROVE TInv'
      BY <2>3, ProceedInv
    <2>4. CASE UNCHANGED tVars
      BY <2>4 DEF tVars, TInv, TTypeOK, Held, Stale, Timely, Margin, Fresh
    <2> QED
      BY <2>1, <2>2, <2>3, <2>4 DEF TNext
  <1> QED
    BY <1>1, TInitInv, PTL DEF TSpec

\* The variables of the token cache keep their types.
THEOREM TokenTypeCorrect == TSpec => []TTypeOK
  BY TokenInvariant, PTL DEF TInv

\* No token expires between the check of the cache and the hub, for every
\* tokenTTL that leaves two HTTP timeouts of its lifetime.
THEOREM TokenValidInFlight == TSpec => []ValidInFlight
  <1>1. TInv => ValidInFlight
    BY TimesAssumption, MarginAssumption
    DEF TInv, TTypeOK, Timely, Margin, Waiting, ValidInFlight
  <1> QED
    BY <1>1, TokenInvariant, PTL

\* Logins to Docker Hub are one at a time and only for a stale token.
THEOREM TokenOneLogin == TSpec => []OneLoginWhenStale
  <1>1. TInv => OneLoginWhenStale
    BY DEF TInv, Held, Stale, OneLoginWhenStale
  <1> QED
    BY <1>1, TokenInvariant, PTL
=============================================================================
