----------------------------- MODULE Analytics ------------------------------
(***************************************************************************)
(* The analytics of one store.  The event of a request is projected in its *)
(* own transaction: the metric event is inserted, the members or the bytes *)
(* are counted again, and the row of the day is inserted or, when there is *)
(* one, updated.  An owner reads the sums of a period.                     *)
(***************************************************************************)
EXTENDS Integers, FiniteSetsExt

CONSTANTS Recorders,     \* requests in progress at the same time
          MetricDays,    \* bound: the days, 1 to this
          MaxFacts,      \* bound on the requests ever begun
          NoDay

ASSUME DaysAssumption == MetricDays \in Nat \ {0} /\ MaxFacts \in Nat

VARIABLES today,          \* the clock
          begun,         \* how many requests there have been
          source,        \* the active members and the bytes of active media, committed
          facts,         \* how many store_metric_events there are of each type and day
          daily,         \* store_daily_metrics: one row for each day, or none
          recording      \* the transaction of each request

analyticsVars == <<today, begun, source, facts, daily, recording>>

Days == 1..MetricDays

\* The metric of each event, and how the event changes what is counted.
EventMetrics ==
    [verified |-> "verification_approval", invited |-> "staff_invitation",
     accepted |-> "staff_acceptance", uploaded |-> "media_upload",
     deleted |-> "media_deleted", suspended |-> "none", reactivated |-> "none"]

Effect(event) ==
    CASE event \in {"accepted", "reactivated"} -> [members |-> 1, bytes |-> 0]
      [] event = "suspended" -> [members |-> -1, bytes |-> 0]
      [] event = "uploaded" -> [members |-> 0, bytes |-> 1]
      [] event = "deleted" -> [members |-> 0, bytes |-> -1]
      [] OTHER -> [members |-> 0, bytes |-> 0]

Metrics == {EventMetrics[e] : e \in DOMAIN EventMetrics} \ {"none"}

\* The metrics that have a counter in the row of the day.
Counters == Metrics \ {"media_deleted"}

\* The metrics that refresh the members, and those that refresh the bytes.
OfMembers(event) == event \in {"invited", "accepted", "suspended", "reactivated"}
OfBytes(event) == event \in {"uploaded", "deleted"}

DailyRow == [count : [Counters -> Nat], members : Nat, bytes : Nat, version : Nat \ {0}]
NotRecording == [at |-> "idle"]

ASSUME NoDayAssumption == NoDay \notin DailyRow

InitAnalytics ==
    /\ today = 1 /\ begun = 0
    /\ source = [members |-> 1, bytes |-> 0]
    /\ facts = [m \in Metrics |-> [d \in Days |-> 0]]
    /\ daily = [d \in Days |-> NoDay]
    /\ recording = [r \in Recorders |-> NotRecording]

-----------------------------------------------------------------------------
(* A request                                                                 *)

\* The request has changed its own rows and made its event, of today.
BeginRecording(r, event) ==
    /\ recording[r] = NotRecording /\ begun < MaxFacts
    /\ source.members + Effect(event).members >= 0
    /\ source.bytes + Effect(event).bytes >= 0
    /\ begun' = begun + 1
    /\ recording' = [recording EXCEPT ![r] = [at |-> "counting", event |-> event, day |-> today]]
    /\ UNCHANGED <<today, source, facts, daily>>

Both(a, b) == [members |-> a.members + b.members, bytes |-> a.bytes + b.bytes]

\* active_members, active_storage_bytes: what is committed and the request's
\* own change.  A number that another request has brought to zero meanwhile is
\* not counted down again: the change fails on the row it removes.
CountSource(r) ==
    /\ recording[r].at = "counting"
    /\ LET tx == recording[r]
           counted == Both(source, Effect(tx.event))
       IN  /\ counted.members >= 0 /\ counted.bytes >= 0
           /\ recording' = [recording EXCEPT ![r] =
                 [at |-> "applying", event |-> tx.event, day |-> tx.day, counted |-> counted]]
    /\ UNCHANGED <<today, begun, source, facts, daily>>

DayAlwaysFree(d) == TRUE
\* The row of a day belongs to the transaction that has written it.
DayFree(d) == \A r \in Recorders : recording[r].at = "applied" => recording[r].day # d

Increment(event) == [m \in Counters |-> IF m = EventMetrics[event] THEN 1 ELSE 0]

\* A new row has zero for what was not counted.
NewRow(tx) ==
    [count |-> Increment(tx.event),
     members |-> IF OfMembers(tx.event) THEN tx.counted.members ELSE 0,
     bytes |-> IF OfBytes(tx.event) THEN tx.counted.bytes ELSE 0,
     version |-> 1]

ChangedRow(row, tx) ==
    [count |-> [m \in Counters |-> row.count[m] + Increment(tx.event)[m]],
     members |-> IF OfMembers(tx.event) THEN tx.counted.members ELSE row.members,
     bytes |-> IF OfBytes(tx.event) THEN tx.counted.bytes ELSE row.bytes,
     version |-> row.version + 1]

\* apply_daily: the insertion waits for a row another transaction has inserted,
\* the update for one it has changed.
ApplyDaily(r) ==
    /\ recording[r].at = "applying" /\ DayFree(recording[r].day)
    /\ LET tx == recording[r]
           row == daily[tx.day]
       IN  recording' = [recording EXCEPT ![r] =
             [at |-> "applied", event |-> tx.event, day |-> tx.day,
              row |-> IF row = NoDay THEN NewRow(tx) ELSE ChangedRow(row, tx)]]
    /\ UNCHANGED <<today, begun, source, facts, daily>>

CommitRecording(r) ==
    /\ recording[r].at = "applied"
    /\ LET tx == recording[r]
           metric == EventMetrics[tx.event]
       IN  /\ source' = Both(source, Effect(tx.event))
           /\ source'.members >= 0 /\ source'.bytes >= 0
           /\ daily' = [daily EXCEPT ![tx.day] = tx.row]
           /\ facts' = IF metric = "none" THEN facts ELSE [facts EXCEPT ![metric][tx.day] = facts[metric][tx.day] + 1]
    /\ recording' = [recording EXCEPT ![r] = NotRecording]
    /\ UNCHANGED <<today, begun>>

\* The change, its metric event and the day are undone together.
RollBackRecording(r) ==
    /\ recording[r] # NotRecording
    /\ recording' = [recording EXCEPT ![r] = NotRecording]
    /\ UNCHANGED <<today, begun, source, facts, daily>>

DayPasses ==
    /\ today < MetricDays
    /\ today' = today + 1
    /\ UNCHANGED <<begun, source, facts, daily, recording>>

-----------------------------------------------------------------------------
(* The owner's report                                                        *)

Recorded(first, last) == {d \in first..last : daily[d] # NoDay}
Latest(days) == daily[CHOOSE d \in days : \A e \in days : e <= d]

\* list_daily and summarize: the sums of a period, and the snapshots of its
\* latest row.
Summary(first, last) ==
    LET days == Recorded(first, last) IN
    [count |-> [m \in Counters |-> SumFunctionOnSet([d \in days |-> daily[d].count[m]], days)],
     members |-> IF days = {} THEN 0 ELSE Latest(days).members,
     bytes |-> IF days = {} THEN 0 ELSE Latest(days).bytes]

NextAnalytics ==
    \/ DayPasses
    \/ \E r \in Recorders :
         \/ \E event \in DOMAIN EventMetrics : BeginRecording(r, event)
         \/ CountSource(r) \/ ApplyDaily(r) \/ CommitRecording(r) \/ RollBackRecording(r)

AnalyticsSpec == InitAnalytics /\ [][NextAnalytics]_analyticsVars

-----------------------------------------------------------------------------
\* However requests meet at the row of a day, the counters the owner reads of
\* any period are the numbers of its metric events: none is lost, counted twice
\* or on another day, and none of a request that was rolled back is counted.
CountersMatchFacts ==
    \A first \in Days : \A last \in first..MetricDays :
        LET count == Summary(first, last).count IN
        \A m \in Counters : count[m] = SumFunctionOnSet(facts[m], first..last)
=============================================================================
