---------------------------- MODULE Memberships ----------------------------
(***************************************************************************)
(* The members of a store.  An invitation first looks for an open          *)
(* membership of the user and then inserts its row; accepting first looks  *)
(* at the expiry and then updates the row.  Every other change is one      *)
(* UPDATE that compares status and version.                                *)
(***************************************************************************)
EXTENDS Integers, FiniteSets

CONSTANTS MemberIds,     \* natural numbers: membership rows in order of insertion
          People,        \* users other than the owner
          Visitors,      \* requests between their statements
          MaxChanged,    \* bound on the version a role change or a suspension starts from
          NoMember

VARIABLES member,        \* committed store_memberships rows
          visit,         \* what each request has read, and the rows it holds
          ownerRow,      \* the owner's own row has been added
          storeOpen,     \* the store is not deleted
          overdue,       \* pending rows past invitation_expires_at
          removedUpTo    \* history: newest row when a member was last removed

memberVars == <<member, visit, ownerRow, storeOpen, overdue, removedUpTo>>

\* `crossed` is history: another membership of the user was opened between
\* the check and the insertion.  Roles other than owner grant the same access.
MemberRow == [user : People,
              status : {"pending", "active", "declined", "suspended", "removed", "expired"},
              crossed : BOOLEAN, version : Nat]

ASSUME MembersAssumption ==
    /\ IsFiniteSet(MemberIds) /\ MemberIds = 1..Cardinality(MemberIds)
    /\ NoMember \notin MemberRow

OpenStatuses == {"pending", "active", "suspended"}
LiveStatuses == {"active", "suspended"}
RowsOf(u, statuses) ==
    {m \in MemberIds : member[m] # NoMember /\ member[m].user = u /\ member[m].status \in statuses}
Unused == {m \in MemberIds : member[m] = NoMember}
Newest == Cardinality(MemberIds \ Unused)

MembersInit ==
    /\ member = [m \in MemberIds |-> NoMember]
    /\ visit = [v \in Visitors |-> NoMember]
    /\ ownerRow = FALSE
    /\ storeOpen = TRUE
    /\ overdue = {}
    /\ removedUpTo = [u \in People |-> 0]

Changed(m, status) == member' = [member EXCEPT ![m].status = status, ![m].version = @ + 1]
Leave(v) == visit' = [visit EXCEPT ![v] = NoMember]

-----------------------------------------------------------------------------
(* invite                                                                    *)

FindOpenActive(u) == RowsOf(u, {"pending", "active"})
FindOpen(u) == RowsOf(u, OpenStatuses)

\* expire_pending comes first: its rows are held until the invitation commits.
Expired(m) == m \in overdue /\ member[m] # NoMember /\ member[m].status = "pending"
Expiring == {m \in MemberIds : Expired(m)}
HeldRow(m) == \E v \in Visitors : visit[v] # NoMember /\ m \in visit[v].expires

BeginInvite(v, u) ==
    /\ storeOpen /\ visit[v] = NoMember /\ Unused # {}
    /\ \A m \in Expiring : ~HeldRow(m)
    /\ FindOpen(u) \subseteq Expiring
    /\ visit' = [visit EXCEPT ![v] =
         [op |-> "invite", user |-> u, row |-> 0, version |-> 0, expires |-> Expiring,
          clear |-> RowsOf(u, OpenStatuses) \subseteq Expiring]]
    /\ UNCHANGED <<member, ownerRow, storeOpen, overdue, removedUpTo>>

\* One pending row of a user: another invitation in between is an integrity
\* error.  A membership accepted in between is not.
Invite(v) ==
    /\ visit[v] # NoMember /\ visit[v].op = "invite" /\ Unused # {}
    /\ LET u == visit[v].user
           others == FindOpen(u) \ visit[v].expires
           new == Newest + 1
       IN  /\ \A m \in others : member[m].status # "pending"
           /\ member' = [m \in MemberIds |->
                IF m = new THEN [user |-> u, status |-> "pending", version |-> 1,
                                 crossed |-> visit[v].clear /\ others # {}]
                ELSE IF m \in visit[v].expires
                     THEN [member[m] EXCEPT !.status = "expired", !.version = @ + 1]
                     ELSE member[m]]
    /\ ownerRow' = TRUE
    /\ Leave(v)
    /\ UNCHANGED <<storeOpen, overdue, removedUpTo>>

-----------------------------------------------------------------------------
(* accept and decline, by the user invited                                   *)

BeginAccept(v, m) ==
    /\ storeOpen /\ visit[v] = NoMember
    /\ member[m] # NoMember /\ m \notin overdue
    /\ visit' = [visit EXCEPT ![v] =
         [op |-> "accept", user |-> member[m].user, row |-> m, version |-> member[m].version,
          expires |-> {}, clear |-> FALSE]]
    /\ UNCHANGED <<member, ownerRow, storeOpen, overdue, removedUpTo>>

\* The transition compares status and version; one live row of a user.
Accept(v) ==
    /\ visit[v] # NoMember /\ visit[v].op = "accept"
    /\ LET m == visit[v].row IN
       /\ ~HeldRow(m)
       /\ member[m].status = "pending" /\ member[m].version = visit[v].version
       /\ RowsOf(member[m].user, LiveStatuses) = {}
       /\ Changed(m, "active")
    /\ Leave(v)
    /\ UNCHANGED <<ownerRow, storeOpen, overdue, removedUpTo>>

Decline(m) ==
    /\ storeOpen /\ member[m] # NoMember /\ member[m].status = "pending" /\ ~HeldRow(m)
    /\ Changed(m, "declined")
    /\ UNCHANGED <<visit, ownerRow, storeOpen, overdue, removedUpTo>>

-----------------------------------------------------------------------------
(* The owner: suspend, reactivate, change the role, remove, list             *)

Suspend(m) ==
    /\ storeOpen /\ member[m] # NoMember /\ member[m].status = "active"
    /\ member[m].version < MaxChanged
    /\ Changed(m, "suspended")
    /\ UNCHANGED <<visit, ownerRow, storeOpen, overdue, removedUpTo>>

Reactivate(m) ==
    /\ storeOpen /\ member[m] # NoMember /\ member[m].status = "suspended"
    /\ Changed(m, "active")
    /\ UNCHANGED <<visit, ownerRow, storeOpen, overdue, removedUpTo>>

UpdateRole(m) ==
    /\ storeOpen /\ member[m] # NoMember /\ member[m].status \in OpenStatuses
    /\ member[m].version < MaxChanged /\ ~HeldRow(m)
    /\ Changed(m, member[m].status)
    /\ UNCHANGED <<visit, ownerRow, storeOpen, overdue, removedUpTo>>

Remove(m) ==
    /\ storeOpen /\ member[m] # NoMember /\ member[m].status \in OpenStatuses /\ ~HeldRow(m)
    /\ Changed(m, "removed")
    /\ removedUpTo' = [removedUpTo EXCEPT ![member[m].user] =
         IF member[m].status \in LiveStatuses THEN Newest ELSE @]
    /\ UNCHANGED <<visit, ownerRow, storeOpen, overdue>>

\* list adds the owner's row and expires what is overdue.
ListMembers ==
    /\ storeOpen /\ \A m \in Expiring : ~HeldRow(m)
    /\ ownerRow' = TRUE
    /\ member' = [m \in MemberIds |->
         IF m \in Expiring THEN [member[m] EXCEPT !.status = "expired", !.version = @ + 1]
         ELSE member[m]]
    /\ UNCHANGED <<visit, storeOpen, overdue, removedUpTo>>

-----------------------------------------------------------------------------
\* A request that fails changes nothing, also not the expiry an acceptance
\* that came too late has written.
Give(v) ==
    /\ visit[v] # NoMember
    /\ Leave(v)
    /\ UNCHANGED <<member, ownerRow, storeOpen, overdue, removedUpTo>>

WeekPasses(m) ==
    /\ member[m] # NoMember /\ member[m].status = "pending" /\ m \notin overdue
    /\ overdue' = overdue \cup {m}
    /\ UNCHANGED <<member, visit, ownerRow, storeOpen, removedUpTo>>

DeleteStore ==
    /\ storeOpen /\ storeOpen' = FALSE
    /\ UNCHANGED <<member, visit, ownerRow, overdue, removedUpTo>>

MembersNext ==
    \/ \E v \in Visitors : \/ Invite(v) \/ Accept(v) \/ Give(v)
                           \/ \E u \in People : BeginInvite(v, u)
                           \/ \E m \in MemberIds : BeginAccept(v, m)
    \/ \E m \in MemberIds : Decline(m) \/ Suspend(m) \/ Reactivate(m) \/ UpdateRole(m)
                               \/ Remove(m) \/ WeekPasses(m)
    \/ ListMembers \/ DeleteStore

MembersSpec == MembersInit /\ [][MembersNext]_memberVars

-----------------------------------------------------------------------------
\* Once the owner has removed a member, the user has access again only
\* through an invitation made after the removal: none is left open from
\* before, unless its insertion crossed the acceptance of another one.
RemovalSticks ==
    \A m \in MemberIds :
        member[m] # NoMember /\ member[m].status = "active" /\ ~member[m].crossed
        => m > removedUpTo[member[m].user]
=============================================================================
