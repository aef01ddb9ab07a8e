------------------------------ MODULE HubToken ------------------------------
(***************************************************************************)
(* accessToken of the Docker Hub client: one token, cached under a mutex   *)
(* that is held while the client logs in, and used by every request to the *)
(* hub after the mutex is released. Time is counted in units of the        *)
(* model's choice.                                                         *)
(*                                                                         *)
(* Docker Hub is external: it stamps a token when it issues it and takes   *)
(* it for Lifetime from then on.                                           *)
(***************************************************************************)
EXTENDS Naturals

CONSTANTS
    Callers,    \* requests that need the token
    TTL,        \* tokenTTL
    Lifetime,   \* how long the hub takes a token for valid
    Timeout,    \* the timeout of the HTTP client
    MaxTime,    \* bound on the clock, for TLC
    None        \* no caller, no token

\* 25 min and 15 s in the code, 30 min at the hub.
ASSUME TimesAssumption ==
    TTL \in Nat \ {0} /\ Lifetime \in Nat /\ Timeout \in Nat /\ MaxTime \in Nat
ASSUME MarginAssumption == TTL + 2 * Timeout =< Lifetime
ASSUME NoneAssumption == None \notin Callers

VARIABLES
    now,     \* the clock
    token,   \* the cached token: when it was issued and expires, or None
    mutex,   \* who holds the client's mutex
    call     \* per caller: where it is, the token it has, when its HTTP call began

tVars == <<now, token, mutex, call>>

Token == [issued : Nat, expiry : Nat]
Idle == [pc |-> "idle", issued |-> 0, since |-> 0]

\* States of a caller with an HTTP call under way, which Timeout bounds.
Waiting == {"login", "answered", "use"}
LoggingIn == {"login", "answered"}

Fresh == token # None /\ now < token.expiry

TInit ==
    /\ now = 0
    /\ token = None
    /\ mutex = None
    /\ call = [c \in Callers |-> Idle]

\* An HTTP call that began Timeout ago has ended before the clock goes on.
Tick ==
    /\ now < MaxTime
    /\ \A c \in Callers : call[c].pc \in Waiting => now < call[c].since + Timeout
    /\ now' = now + 1
    /\ UNCHANGED <<token, mutex, call>>

-----------------------------------------------------------------------------
(* accessToken                                                             *)

Want(c) ==
    /\ call[c].pc = "idle"
    /\ call' = [call EXCEPT ![c].pc = "lock"]
    /\ UNCHANGED <<now, token, mutex>>

Lock(c) ==
    /\ call[c].pc = "lock"
    /\ mutex = None
    /\ mutex' = c
    /\ call' = [call EXCEPT ![c].pc = "check"]
    /\ UNCHANGED <<now, token>>

\* The token goes to a request that begins now; the deferred Unlock runs.
Use(c, issued) ==
    /\ call' = [call EXCEPT ![c] = [pc |-> "use", issued |-> issued, since |-> now]]
    /\ mutex' = None

UseCached(c) ==
    /\ call[c].pc = "check"
    /\ Fresh
    /\ Use(c, token.issued)
    /\ UNCHANGED <<now, token>>

\* Mutant: every request logs in.
StartLoginAlways(c) ==
    /\ call[c].pc = "check"
    /\ call' = [call EXCEPT ![c].pc = "login", ![c].since = now]
    /\ UNCHANGED <<now, token, mutex>>

StartLogin(c) ==
    /\ call[c].pc = "check"
    /\ ~Fresh
    /\ call' = [call EXCEPT ![c].pc = "login", ![c].since = now]
    /\ UNCHANGED <<now, token, mutex>>

\* The hub issues a token; its answer is on the way.
HubIssues(c) ==
    /\ call[c].pc = "login"
    /\ call' = [call EXCEPT ![c].pc = "answered", ![c].issued = now]
    /\ UNCHANGED <<now, token, mutex>>

\* Mutant: the cached token is good for its whole lifetime.
StoreTokenForLife(c) ==
    /\ call[c].pc = "answered"
    /\ token' = [issued |-> call[c].issued, expiry |-> now + Lifetime]
    /\ Use(c, call[c].issued)
    /\ UNCHANGED now

\* The expiry counts from the arrival of the answer, not from the stamp.
StoreToken(c) ==
    /\ call[c].pc = "answered"
    /\ token' = [issued |-> call[c].issued, expiry |-> now + TTL]
    /\ Use(c, call[c].issued)
    /\ UNCHANGED now

\* Mutant: a failed login returns with the mutex locked.
LoginFailsLocked(c) ==
    /\ call[c].pc \in LoggingIn
    /\ call' = [call EXCEPT ![c] = Idle]
    /\ UNCHANGED <<now, token, mutex>>

\* Refused, timed out, cancelled, unreadable or empty.
LoginFails(c) ==
    /\ call[c].pc \in LoggingIn
    /\ call' = [call EXCEPT ![c] = Idle]
    /\ mutex' = None
    /\ UNCHANGED <<now, token>>

\* createRepository or deleteRepository ends, in whatever way.
CallEnds(c) ==
    /\ call[c].pc = "use"
    /\ call' = [call EXCEPT ![c] = Idle]
    /\ UNCHANGED <<now, token, mutex>>

-----------------------------------------------------------------------------

\* What the process and the hub do by themselves once a caller wants a token.
Proceed(c) ==
    \/ UseCached(c) \/ StartLogin(c) \/ HubIssues(c) \/ StoreToken(c)
    \/ LoginFails(c) \/ CallEnds(c)

TNext == Tick \/ \E c \in Callers : Want(c) \/ Lock(c) \/ Proceed(c)

TSpec == TInit /\ [][TNext]_tVars

\* Goroutines are scheduled and HTTP calls end by their timeout; sync.Mutex goes
\* over to strict hand-over when a goroutine has waited for a millisecond, so a
\* caller for whom it is free again and again gets it.
TFairness == \A c \in Callers : WF_tVars(Proceed(c)) /\ SF_tVars(Lock(c))

TLiveSpec == TSpec /\ TFairness

-----------------------------------------------------------------------------
(* Properties                                                              *)

\* Every variable stays in its domain.
TTypeOK ==
    /\ now \in Nat
    /\ token \in Token \cup {None}
    /\ mutex \in Callers \cup {None}
    /\ call \in [Callers -> [pc : {"idle", "lock", "check"} \cup Waiting,
                              issued : Nat, since : Nat]]

\* What client.go promises of tokenTTL ("refresh earlier to avoid edge expiry"):
\* a token is still valid whenever the hub may receive the request that bears
\* it, although the expiry is reckoned from a late answer and the token is used
\* up to a request's time after it was checked.
ValidInFlight ==
    \A c \in Callers : call[c].pc = "use" => now < call[c].issued + Lifetime

\* One login at a time, and none while the cached token is fresh: callers who
\* waited for the mutex take the token the first of them obtained.
OneLoginWhenStale ==
    \A c \in Callers : call[c].pc \in LoggingIn =>
        /\ ~Fresh
        /\ \A d \in Callers : call[d].pc \in LoggingIn => d = c

\* Every request that wants the token gets through accessToken, whoever else
\* logs in, fails or times out before it.
EveryCallerProceeds ==
    \A c \in Callers : call[c].pc = "lock" ~> call[c].pc \in {"use", "login"}
=============================================================================
