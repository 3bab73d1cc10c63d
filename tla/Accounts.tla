------------------------------ MODULE Accounts ------------------------------
(***************************************************************************)
(* Account security: logins that count their failures and lock the         *)
(* account, password changes, and the one-time tokens that reset a         *)
(* password or verify an address. Requests interleave at READ COMMITTED:   *)
(* what is read without a lock may be old when it is used.                 *)
(***************************************************************************)
EXTENDS Integers, FiniteSets, Sequences, FiniteSetsExt

CONSTANTS Owners,          \* accounts
          Passwords,       \* passwords that pass the policy
          Tokens,          \* ids of one-time tokens, in the order of their creation
          Callers,         \* requests served at the same time
          DelayThreshold,  \* failures that start the delay lock
          ShortThreshold,  \* failures that start the short lock
          DelayLock, ShortLock, MaximumLock,
          Window,          \* account_lockout_window_seconds
          HistoryDepth,    \* password_history_depth
          TokenLifetime,
          RequireVerified, \* auth_require_verified_email
          Horizon,         \* bound of the clock
          Nobody           \* no lock, no request

\* What the settings ask of the thresholds and the durations. That powers of
\* two are positive is a fact of arithmetic.
ASSUME AccountsAssumption ==
    /\ Tokens \subseteq Nat
    /\ {DelayThreshold, ShortThreshold, DelayLock, ShortLock, MaximumLock,
        Window, HistoryDepth, TokenLifetime, Horizon} \subseteq Nat
    /\ 1 < DelayThreshold /\ DelayThreshold < ShortThreshold
    /\ 0 < DelayLock /\ DelayLock <= ShortLock /\ ShortLock <= MaximumLock
    /\ \A n \in 0..Horizon : 2 ^ n > 0
    /\ IsFiniteSet(Callers)
    /\ Nobody \notin Nat

Kinds == {"reset", "verify"}

VARIABLES account,   \* the rows of identity_users
          history,   \* earlier passwords of each account, newest first
          attempts,  \* the rows of identity_login_attempts
          token,     \* reset and verification tokens
          now,       \* every login has an instant of its own
          caller,    \* what each request is doing
          uses,      \* history: how often each token took effect
          lockedAt   \* history: the last login that set a lock, by account

accountVars == <<account, history, attempts, token, now, caller, uses, lockedAt>>

AccountRow == [password : Passwords, verified : BOOLEAN, locked : BOOLEAN,
            until : Nat \cup {Nobody}]
AttemptRow == [owner : Owners, at : Nat, success : BOOLEAN]
TokenRow == [kind : Kinds, owner : Owners, expires : Nat,
          state : {"unborn", "unused", "used", "deleted"}]

\* A start at an instant, with all tokens to come or none left.
AccountsFrom(start, tokens) ==
    /\ account \in [Owners -> [password : Passwords, verified : {FALSE},
                               locked : {FALSE}, until : {Nobody}]]
    /\ history = [u \in Owners |-> <<>>]
    /\ attempts = {}
    /\ token \in [Tokens -> [kind : {"reset"}, owner : Owners, expires : {0},
                             state : {tokens}]]
    /\ now = start
    /\ caller = [r \in Callers |-> Nobody]
    /\ uses = [t \in Tokens |-> 0]
    /\ lockedAt = [u \in Owners |-> 0]

InitAccounts == AccountsFrom(0, "unborn")

Working(r) == caller[r] # Nobody
Doing(r, step) == Working(r) /\ caller[r].step = step
Answer(r) == caller' = [caller EXCEPT ![r] = Nobody]

\* Rows held by a request until it commits. `user` is FOR UPDATE or an UPDATE
\* of the account's row, `tokens` are token rows.
HeldUsers(r) == IF Working(r) THEN caller[r].users ELSE {}
HeldTokens(r) == IF Working(r) THEN caller[r].tokens ELSE {}
UserFree(r, u) == \A q \in Callers \ {r} : u \notin HeldUsers(q)
TokensFree(r, S) == \A q \in Callers \ {r} : HeldTokens(q) \cap S = {}

-----------------------------------------------------------------------------
(* Login and lockout *)

LockActive(a, at) == a.locked /\ a.until > at
LockOver(a, at) == a.locked /\ a.until <= at

\* count_recent_failures: failures inside the window and after the last
\* success in it, and the one this login adds.
Recent(u, at) == {a \in attempts : a.owner = u /\ a.at >= at - Window}
Boundary(u, at) ==
    Max({at - Window} \cup {a.at : a \in {b \in Recent(u, at) : b.success}})
Failures(u, at) == {a \in Recent(u, at) : ~a.success /\ a.at > Boundary(u, at)}

LockDurationLate(failures) == IF failures <= DelayThreshold THEN 0 ELSE DelayLock

\* _duration: nothing, the delay, then the short lock doubled every
\* ShortThreshold failures, never above the maximum.
LockDuration(failures) ==
    IF failures < DelayThreshold THEN 0
    ELSE IF failures < ShortThreshold THEN DelayLock
    ELSE LET step == (failures - ShortThreshold) \div ShortThreshold
             doubled == ShortLock * 2 ^ step
         IN  IF doubled < MaximumLock THEN doubled ELSE MaximumLock

\* get_by_email: the account is read without a lock.
BeginLogin(r, u, p) ==
    /\ ~Working(r) /\ now < Horizon
    /\ now' = now + 1
    /\ caller' = [caller EXCEPT ![r] =
         [step |-> "login", owner |-> u, password |-> p, seen |-> account[u],
          at |-> now + 1, lock |-> 0, users |-> {}, tokens |-> {}]]
    /\ UNCHANGED <<account, history, attempts, token, uses, lockedAt>>

Succeeds(r) ==
    /\ caller[r].password = caller[r].seen.password
    /\ ~LockActive(caller[r].seen, caller[r].at)
    /\ RequireVerified => caller[r].seen.verified

\* before_attempt lifts the lock that was seen to be over (unlock asks only
\* that the row is locked still), then the failures are counted.
CountFailures(r) ==
    LET u == caller[r].owner
        lift == LockOver(caller[r].seen, caller[r].at)
    IN  /\ Doing(r, "login")
        /\ lift => UserFree(r, u)
        /\ caller' = [caller EXCEPT
             ![r].step = "attempted",
             ![r].users = IF lift /\ account[u].locked THEN {u} ELSE {},
             ![r].lock = IF Succeeds(r) THEN 0
                         ELSE LockDuration(Cardinality(Failures(u, caller[r].at))
                                + IF caller[r].at > Boundary(u, caller[r].at) THEN 1 ELSE 0)]
        /\ UNCHANGED <<account, history, attempts, token, now, uses, lockedAt>>

\* The attempt, the lifted lock and the new one are committed together; the
\* error of a failed login is raised after the commit.
FinishLogin(r) ==
    LET u == caller[r].owner
        lifted == IF u \in caller[r].users
                  THEN [account[u] EXCEPT !.locked = FALSE, !.until = Nobody]
                  ELSE account[u]
    IN  /\ Doing(r, "attempted")
        /\ caller[r].lock > 0 => UserFree(r, u)
        /\ attempts' = attempts \cup
             {[owner |-> u, at |-> caller[r].at, success |-> Succeeds(r)]}
        /\ account' = [account EXCEPT ![u] =
             IF caller[r].lock > 0
             THEN [lifted EXCEPT !.locked = TRUE, !.until = caller[r].at + caller[r].lock]
             ELSE lifted]
        /\ lockedAt' = [lockedAt EXCEPT ![u] =
             IF caller[r].lock > 0 /\ caller[r].at > @ THEN caller[r].at ELSE @]
        /\ Answer(r)
        /\ UNCHANGED <<history, token, now, uses>>

-----------------------------------------------------------------------------
(* Passwords *)

RecentPasswords(u) ==
    {history[u][i] : i \in {j \in DOMAIN history[u] : j <= HistoryDepth}}
\* _validate_candidate
Acceptable(u, new) == new # account[u].password /\ new \notin RecentPasswords(u)

Replace(u, new) ==
    /\ account' = [account EXCEPT ![u].password = new]
    /\ history' = [history EXCEPT ![u] = <<account[u].password>> \o @]

\* The account is locked, then read and changed: one step under its lock.
ChangePassword(u, old, new) ==
    /\ \A r \in Callers : u \notin HeldUsers(r)
    /\ old = account[u].password
    /\ Acceptable(u, new)
    /\ Replace(u, new)
    /\ UNCHANGED <<attempts, token, now, caller, uses, lockedAt>>

-----------------------------------------------------------------------------
(* One-time tokens *)

Unused(k, u) ==
    {t \in Tokens : token[t].state = "unused" /\ token[t].kind = k /\ token[t].owner = u}
Spent(S) == [t \in Tokens |-> IF t \in S THEN [token[t] EXCEPT !.state = "used"]
                                         ELSE token[t]]
\* uuid7 keys grow with time.
FreshToken(t) == token[t].state = "unborn" /\ \A s \in Tokens : s < t => token[s].state # "unborn"
Usable(t) == token[t].state = "unused" /\ token[t].expires > now

Request(r, step, u, kind, tokens) ==
    caller' = [caller EXCEPT ![r] =
        [step |-> step, owner |-> u, kind |-> kind, using |-> Nobody,
         users |-> {}, tokens |-> tokens]]

\* request_password_reset and request_email_verification: the tokens not used
\* yet are invalidated in one statement ...
BeginRequest(r, k, u) ==
    /\ ~Working(r)
    /\ k = "verify" => ~account[u].verified
    /\ TokensFree(r, Unused(k, u))
    /\ Request(r, "request", u, k, Unused(k, u))
    /\ UNCHANGED <<account, history, attempts, token, now, uses, lockedAt>>

\* ... and a new one is added; its foreign key waits for a locked account.
FinishRequest(r) ==
    /\ Doing(r, "request")
    /\ UserFree(r, caller[r].owner)
    /\ \E t \in Tokens :
         /\ FreshToken(t)
         /\ token' = [Spent(caller[r].tokens) EXCEPT ![t] =
              [kind |-> caller[r].kind, owner |-> caller[r].owner,
               expires |-> now + TokenLifetime, state |-> "unused"]]
    /\ Answer(r)
    /\ UNCHANGED <<account, history, attempts, now, uses, lockedAt>>

\* reset_password and verify_email read the token without a lock.
ReadToken(r, t) ==
    /\ ~Working(r) /\ Usable(t)
    /\ caller' = [caller EXCEPT ![r] =
         [step |-> token[t].kind, owner |-> token[t].owner,
          kind |-> token[t].kind, using |-> t, users |-> {}, tokens |-> {}]]
    /\ UNCHANGED <<account, history, attempts, token, now, uses, lockedAt>>

\* reset_password locks the account before it consumes the token.
LockAccount(r) ==
    /\ Doing(r, "reset")
    /\ UserFree(r, caller[r].owner)
    /\ caller' = [caller EXCEPT ![r].step = "locked", ![r].users = {caller[r].owner}]
    /\ UNCHANGED <<account, history, attempts, token, now, uses, lockedAt>>

ConsumedUnasked(r) == token[caller[r].using].expires > now

\* consume: the UPDATE asks again that the token is unused and not expired.
Consumed(r) == Usable(caller[r].using)
Taken(r) == uses' = [uses EXCEPT ![caller[r].using] = @ + 1]

FinishReset(r, new) ==
    LET u == caller[r].owner
        others == Unused("reset", u)
    IN  /\ Doing(r, "locked")
        /\ TokensFree(r, others \cup {caller[r].using})
        /\ Consumed(r) /\ Acceptable(u, new)
        /\ Replace(u, new)
        /\ token' = Spent(others \cup {caller[r].using})
        /\ Taken(r) /\ Answer(r)
        /\ UNCHANGED <<attempts, now, lockedAt>>

FinishVerify(r) ==
    LET u == caller[r].owner
        others == Unused("verify", u)
    IN  /\ Doing(r, "verify")
        /\ TokensFree(r, others \cup {caller[r].using})
        /\ UserFree(r, u)
        /\ Consumed(r)
        /\ account' = [account EXCEPT ![u].verified = TRUE]
        /\ token' = Spent(others \cup {caller[r].using})
        /\ Taken(r) /\ Answer(r)
        /\ UNCHANGED <<history, attempts, now, lockedAt>>

\* The token was consumed or has expired meanwhile, or the new password is
\* refused: nothing is written.
Refuse(r) ==
    /\ \/ Doing(r, "locked")
       \/ Doing(r, "verify") /\ ~Consumed(r)
    /\ Answer(r)
    /\ UNCHANGED <<account, history, attempts, token, now, uses, lockedAt>>

\* A request for a new token holds the old ones and waits for the account, a
\* reset holds the account and waits for the token: PostgreSQL ends one.
AbortTokenDeadlock(r) ==
    /\ \E q \in Callers \ {r} :
         \E a, b \in {q, r} :
            /\ Doing(a, "request") /\ caller[a].kind = "reset"
            /\ ~UserFree(a, caller[a].owner)
            /\ Doing(b, "locked") /\ caller[b].owner = caller[a].owner
            /\ ~TokensFree(b, Unused("reset", caller[b].owner) \cup {caller[b].using})
    /\ Doing(r, "request") \/ Doing(r, "locked")
    /\ Answer(r)
    /\ UNCHANGED <<account, history, attempts, token, now, uses, lockedAt>>

-----------------------------------------------------------------------------
\* AccountSecurityCleanupService.run on one row at a time: an expired token is
\* deleted, a lock that is over is lifted unless its row is locked.
CleanupToken(t) ==
    /\ token[t].state \in {"unused", "used"} /\ token[t].expires <= now
    /\ \A r \in Callers : t \notin HeldTokens(r)
    /\ token' = [token EXCEPT ![t].state = "deleted"]
    /\ UNCHANGED <<account, history, attempts, now, caller, uses, lockedAt>>

CleanupLock(u) ==
    /\ LockOver(account[u], now)
    /\ \A r \in Callers : u \notin HeldUsers(r)
    /\ account' = [account EXCEPT ![u].locked = FALSE, ![u].until = Nobody]
    /\ UNCHANGED <<history, attempts, token, now, caller, uses, lockedAt>>

Pass ==
    /\ now < Horizon
    /\ now' = now + 1
    /\ UNCHANGED <<account, history, attempts, token, caller, uses, lockedAt>>

CallerStep(r) ==
    \/ CountFailures(r) \/ FinishLogin(r)
    \/ FinishRequest(r) \/ LockAccount(r) \/ FinishVerify(r) \/ Refuse(r)
    \/ AbortTokenDeadlock(r)
    \/ \E p \in Passwords : FinishReset(r, p)

CallerStart(r) ==
    \/ \E u \in Owners, p \in Passwords : BeginLogin(r, u, p)
    \/ \E u \in Owners, k \in Kinds : BeginRequest(r, k, u)
    \/ \E t \in Tokens : ReadToken(r, t)

NextAccounts ==
    \/ \E r \in Callers : CallerStart(r) \/ CallerStep(r)
    \/ \E u \in Owners : \/ CleanupLock(u)
                         \/ \E p, q \in Passwords : ChangePassword(u, p, q)
    \/ \E t \in Tokens : CleanupToken(t)
    \/ Pass

AccountsSpec == InitAccounts /\ [][NextAccounts]_accountVars

-----------------------------------------------------------------------------
(* Properties *)

\* A token changes at most one password or verifies at most one address, also
\* when several requests read it unused at the same time.
TokenWorksOnce == \A t \in Tokens : uses[t] <= 1

\* Failures counted side by side do not see each other, but they cannot outrun
\* the lockout for long: once no login is under way, DelayThreshold failures
\* and one per further request have set a lock since the last success.
LockoutLagsAtMost ==
    \A u \in Owners :
        /\ \A r \in Callers : ~Doing(r, "login") /\ ~Doing(r, "attempted")
        /\ Cardinality(Failures(u, now)) >= DelayThreshold + Cardinality(Callers) - 1
        => lockedAt[u] > Boundary(u, now)
=============================================================================
