----------------------------- MODULE MCWorkers ------------------------------
(***************************************************************************)
(* The consumer of the outbox and the row locks of the requests of a store *)
(* share no state: one run checks both, `part` saying which one a          *)
(* behaviour is about.  Where it is about the locks no event is ever there *)
(* and the fairness of the consumer asks for nothing.                      *)
(***************************************************************************)
EXTENDS Notifications, RowLocks

CONSTANTS i1, i2

VARIABLE part

workersVars == <<part, outboxVars, lockVars>>

MCRank == [i \in Items |-> IF i = i1 THEN 1 ELSE 2]

MCInit == OutboxInit /\ LocksInit /\ part \in {"outbox", "locks"}

MCNext ==
    \/ part = "outbox" /\ OutboxNext /\ UNCHANGED <<part, lockVars>>
    \/ part = "locks" /\ LocksNext /\ UNCHANGED <<part, outboxVars>>

MCSpec == MCInit /\ [][MCNext]_workersVars /\ OutboxFairness
=============================================================================
