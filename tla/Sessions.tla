------------------------------ MODULE Sessions ------------------------------
(***************************************************************************)
(* Refresh sessions of the identity module: a login opens a family of      *)
(* sessions, each refresh replaces the newest of them by a child, and      *)
(* logouts, password changes, replayed tokens and clean-ups revoke them.   *)
(* Every request is a transaction at READ COMMITTED: a bulk UPDATE fixes   *)
(* the rows it looks for when it starts, then locks them one by one and    *)
(* looks at each again under its lock.                                     *)
(***************************************************************************)
EXTENDS Integers, FiniteSets

CONSTANTS Users,        \* accounts
          Sids,         \* session ids, in the order of their creation (uuid7); a
                        \* session's refresh token stands for its id
          Requests,     \* requests served at the same time
          Lifetime,     \* auth_refresh_token_lifetime_days
          Retention,    \* how long cleanup keeps an expired session
          Batch,        \* rows of one cleanup statement
          MaxTime,      \* bound of the clock
          None          \* no parent, no request

ASSUME SessionsAssumption ==
    /\ Sids \subseteq Nat
    /\ {Lifetime, Retention, Batch, MaxTime} \subseteq Nat
    /\ None \notin Sids

VARIABLES sessions,     \* the rows of identity_refresh_sessions
          eligible,     \* whether each account may use its sessions
          clock,
          request       \* what each request is doing

vars == <<sessions, eligible, clock, request>>

Logouts == {"logout", "logout_all"}
Bulks == {"reuse", "ineligible", "others", "reset", "one"} \cup Logouts

Row == [user : Users, family : Sids, parent : Sids \cup {None},
        expires : Nat,
        state : {"unborn", "active", "revoked", "deleted"}]

Exists(s) == sessions[s].state \in {"active", "revoked"}
Active(s) == sessions[s].state = "active"
Fresh(s) == /\ sessions[s].state = "unborn"
            /\ \A t \in Sids : t < s => sessions[t].state # "unborn"

\* What authenticate_access_token accepts: a session neither revoked nor
\* expired of an eligible account.
Live(s) == Active(s) /\ sessions[s].expires > clock /\ eligible[sessions[s].user]

Busy(r) == request[r] # None
Held(r) == IF Busy(r) THEN request[r].held ELSE {}
NeverLocked(s) == FALSE
LockedRow(s) == \E r \in Requests : s \in Held(r)
LockedByOther(r, s) == \E q \in Requests \ {r} : s \in Held(q)

TypeOK ==
    /\ sessions \in [Sids -> Row]
    /\ eligible \in [Users -> BOOLEAN]
    /\ clock \in Nat
    /\ \A r \in Requests : Busy(r) =>
         request[r] \in [op : Bulks \cup {"refresh"}, sid : Sids \cup {None},
                         read : {"active", "revoked", "none"}, asked : SUBSET Sids,
                         todo : SUBSET Sids, held : SUBSET Sids]

Init ==
    /\ \E u \in Users :
         sessions = [s \in Sids |-> [user |-> u, family |-> s, parent |-> None,
                                     expires |-> 0, state |-> "unborn"]]
    /\ eligible = [u \in Users |-> TRUE]
    /\ clock = 0
    /\ request = [r \in Requests |-> None]

-----------------------------------------------------------------------------
(* Login and refresh *)

\* A login of an eligible account opens a family of its own.
Login(u) ==
    /\ eligible[u]
    /\ \E s \in Sids :
         /\ Fresh(s)
         /\ sessions' = [sessions EXCEPT ![s] =
              [user |-> u, family |-> s, parent |-> None,
               expires |-> clock + Lifetime, state |-> "active"]]
    /\ UNCHANGED <<eligible, clock, request>>

\* get_by_token_hash(for_update): the row is locked, then read.
BeginRefresh(r, t) ==
    /\ ~Busy(r) /\ Exists(t) /\ ~LockedRow(t)
    /\ request' = [request EXCEPT ![r] =
         [op |-> "refresh", sid |-> t, read |-> sessions[t].state,
          asked |-> {}, todo |-> {}, held |-> {t}]]
    /\ UNCHANGED <<sessions, eligible, clock>>

Token(r) == sessions[request[r].sid]
Refreshing(r) == Busy(r) /\ request[r].op = "refresh"

\* The child of a session keeps its family and its expiry.
Child(r, state) ==
    [Token(r) EXCEPT !.parent = request[r].sid, !.state = state]

Revoked(S) == [s \in Sids |-> IF s \in S THEN [sessions[s] EXCEPT !.state = "revoked"]
                                         ELSE sessions[s]]

Release(r) == request' = [request EXCEPT ![r] = None]

Rotate(r) ==
    /\ Refreshing(r)
    /\ request[r].read = "active"
    /\ Token(r).expires > clock
    /\ eligible[Token(r).user]
    /\ \E c \in Sids :
         /\ Fresh(c)
         /\ sessions' = [Revoked({request[r].sid}) EXCEPT ![c] = Child(r, "active")]
    /\ Release(r)
    /\ UNCHANGED <<eligible, clock>>

RefreshExpired(r) ==
    /\ Refreshing(r)
    /\ request[r].read = "active"
    /\ Token(r).expires <= clock
    /\ sessions' = Revoked({request[r].sid})
    /\ Release(r)
    /\ UNCHANGED <<eligible, clock>>

-----------------------------------------------------------------------------
(* Bulk revocations *)

OfUser(u) == {s \in Sids : Active(s) /\ sessions[s].user = u}
OfFamily(f) == {s \in Sids : Active(s) /\ sessions[s].family = f}

\* The statement starts: its snapshot holds the rows of `scope`.
Bulk(r, op, sid, scope, held) ==
    request' = [request EXCEPT ![r] =
        [op |-> op, sid |-> sid, read |-> "none",
         asked |-> scope, todo |-> scope, held |-> held]]

\* A token that was already rotated or revoked ends its whole family.
RefreshReused(r) ==
    /\ Refreshing(r)
    /\ request[r].read = "revoked"
    /\ Bulk(r, "reuse", request[r].sid, OfFamily(Token(r).family),
            {request[r].sid})
    /\ UNCHANGED <<sessions, eligible, clock>>

\* A refresh of an account that lost its right rotates, then revokes
\* everything the account has, the new child included.
RefreshIneligible(r) ==
    /\ Refreshing(r)
    /\ request[r].read = "active"
    /\ Token(r).expires > clock
    /\ ~eligible[Token(r).user]
    /\ Bulk(r, "ineligible", request[r].sid,
            OfUser(Token(r).user) \ {request[r].sid}, {request[r].sid})
    /\ UNCHANGED <<sessions, eligible, clock>>

\* revoke_others: the sessions route and a password change.
RevokeOthers(r, cur) ==
    /\ ~Busy(r) /\ Live(cur)
    /\ Bulk(r, "others", None,
            {s \in OfUser(sessions[cur].user) \ {cur} : sessions[s].expires > clock}, {})
    /\ UNCHANGED <<sessions, eligible, clock>>

\* One session of the account other than the one used; it is read unlocked.
RevokeOne(r, cur, s) ==
    /\ ~Busy(r) /\ Live(cur) /\ s # cur
    /\ Active(s) /\ sessions[s].user = sessions[cur].user
    /\ Bulk(r, "one", None, {s}, {})
    /\ UNCHANGED <<sessions, eligible, clock>>

\* A completed password reset (see Accounts) revokes everything.
ResetPassword(r, u) ==
    /\ ~Busy(r)
    /\ Bulk(r, "reset", None, OfUser(u), {})
    /\ UNCHANGED <<sessions, eligible, clock>>

Logout(r, cur) ==
    /\ ~Busy(r) /\ Live(cur)
    /\ Bulk(r, "logout", None, {cur}, {})
    /\ UNCHANGED <<sessions, eligible, clock>>

LogoutAll(r, cur) ==
    /\ ~Busy(r) /\ Live(cur)
    /\ Bulk(r, "logout_all", None, OfUser(sessions[cur].user), {})
    /\ UNCHANGED <<sessions, eligible, clock>>

Revoking(r) == Busy(r) /\ request[r].op \in Bulks

LockNextSkipping(r) ==
    /\ Revoking(r)
    /\ \E s \in request[r].todo :
         request' = [request EXCEPT
              ![r].todo = @ \ {s},
              ![r].held = IF Active(s) /\ ~LockedByOther(r, s) THEN @ \cup {s} ELSE @]
    /\ UNCHANGED <<sessions, eligible, clock>>

\* The next row of the statement is locked and looked at again.
LockNext(r) ==
    /\ Revoking(r)
    /\ \E s \in request[r].todo :
         /\ ~LockedByOther(r, s)
         /\ request' = [request EXCEPT
              ![r].todo = @ \ {s},
              ![r].held = IF Active(s) THEN @ \cup {s} ELSE @]
    /\ UNCHANGED <<sessions, eligible, clock>>

Done(r) == Revoking(r) /\ request[r].todo = {}

\* The routes whose dependency commits, and a refresh, which owns its
\* transaction.
Commit(r) ==
    /\ Done(r)
    /\ request[r].op \notin Logouts \cup {"ineligible"}
    /\ sessions' = Revoked(request[r].held)
    /\ Release(r)
    /\ UNCHANGED <<eligible, clock>>

CommitIneligible(r) ==
    /\ Done(r)
    /\ request[r].op = "ineligible"
    /\ \E c \in Sids :
         /\ Fresh(c)
         /\ sessions' = [Revoked(request[r].held) EXCEPT ![c] = Child(r, "revoked")]
    /\ Release(r)
    /\ UNCHANGED <<eligible, clock>>

\* The logout routes authenticate on the session they then use: it is in a
\* transaction already, `_transaction` only opens a savepoint in it, nothing
\* commits the transaction, and closing the session rolls it back.
AnswerLogout(r) ==
    /\ Done(r)
    /\ request[r].op \in Logouts
    /\ Release(r)
    /\ UNCHANGED <<sessions, eligible, clock>>

\* A set of requests each waiting for a row another of them holds.
Deadlocked(D) ==
    \A r \in D : /\ Revoking(r)
                 /\ request[r].todo # {}
                 /\ \A s \in request[r].todo : \E q \in D \ {r} : s \in Held(q)

\* PostgreSQL ends one of them: its transaction is rolled back.
AbortDeadlock(r) ==
    /\ \E D \in SUBSET Requests : r \in D /\ Deadlocked(D)
    /\ Release(r)
    /\ UNCHANGED <<sessions, eligible, clock>>

-----------------------------------------------------------------------------
(* Clean-up, and what happens around the sessions *)

\* The batches of at most Batch rows of S, oldest first.
Oldest(S) ==
    {T \in SUBSET S :
        /\ Cardinality(T) = IF Cardinality(S) < Batch THEN Cardinality(S) ELSE Batch
        /\ \A t \in T, s \in S \ T : sessions[t].expires <= sessions[s].expires}

HasChild(s) == \E c \in Sids : Exists(c) /\ sessions[c].parent = s

\* SessionCleanupService.run: revoke what expired, then delete what has been
\* over for the retention; rows locked by others are skipped.
Cleanup ==
    /\ \E R \in Oldest({s \in Sids : /\ Active(s) /\ ~LockedRow(s)
                                     /\ sessions[s].expires <= clock}) :
       \E D \in Oldest({s \in Sids : /\ sessions[s].state = "revoked" \/ s \in R
                                     /\ ~LockedRow(s)
                                     /\ sessions[s].expires <= clock - Retention
                                     /\ ~HasChild(s)}) :
         /\ R \cup D # {}
         /\ sessions' = [s \in Sids |->
              IF s \in D THEN [sessions[s] EXCEPT !.state = "deleted"]
              ELSE Revoked(R)[s]]
    /\ UNCHANGED <<eligible, clock, request>>

\* A lock, a deactivation or a verification elsewhere (see Accounts).
ChangeEligibility(u) ==
    /\ eligible' = [eligible EXCEPT ![u] = ~@]
    /\ UNCHANGED <<sessions, clock, request>>

Tick ==
    /\ clock < MaxTime
    /\ clock' = clock + 1
    /\ UNCHANGED <<sessions, eligible, request>>

Step(r) ==
    \/ Rotate(r) \/ RefreshExpired(r) \/ RefreshReused(r) \/ RefreshIneligible(r)
    \/ LockNext(r) \/ Commit(r) \/ CommitIneligible(r) \/ AnswerLogout(r)
    \/ AbortDeadlock(r)

Start(r) ==
    \/ \E s \in Sids :
        \/ BeginRefresh(r, s) \/ RevokeOthers(r, s)
        \/ Logout(r, s) \/ LogoutAll(r, s)
        \/ \E t \in Sids : RevokeOne(r, s, t)
    \/ \E u \in Users : ResetPassword(r, u)

Next ==
    \/ \E r \in Requests : Start(r) \/ Step(r)
    \/ \E u \in Users : ChangeEligibility(u) \/ Login(u)
    \/ Cleanup
    \/ Tick

SessionsSpec == Init /\ [][Next]_vars

-----------------------------------------------------------------------------
(* Properties *)

\* Of the sessions of one family at most one is usable, whatever refreshes of
\* the same token, replays and revocations run at the same time: a refresh
\* token buys one successor (SessionService.rotate).
OneLivePerFamily ==
    \A s, t \in Sids :
        Active(s) /\ Active(t) /\ sessions[s].family = sessions[t].family => s = t

\* Every session that a revocation found when its statement started is over
\* when the revocation commits, also when a refresh was rotating it at that
\* moment. (The child such a refresh commits meanwhile is not among them.)
RevocationCovers ==
    [][\A r \in Requests :
         Done(r) /\ request[r].op \notin Logouts /\ request'[r] = None
             => \A s \in request[r].asked : ~Active(s)']_vars

\* What POST /auth/logout and /auth/logout-all promise: the sessions they
\* answer for are revoked.
LogoutRevokes ==
    [][\A r \in Requests :
         Done(r) /\ request[r].op \in Logouts /\ request'[r] = None
             => \A s \in request[r].asked : ~Active(s)']_vars
=============================================================================
