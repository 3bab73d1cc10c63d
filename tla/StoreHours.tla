----------------------------- MODULE StoreHours -----------------------------
(***************************************************************************)
(* The operating hours of one store: rules that open or close it on a day  *)
(* of the week, the requests that change them, and the computation of the  *)
(* status and of the next opening and closing from the rules.  Time is cut *)
(* into slots; a week has DaysOfWeek days of SlotsPerDay slots each, all   *)
(* in the wall clock of one timezone.                                      *)
(***************************************************************************)
EXTENDS Integers, FiniteSets

CONSTANTS RuleIds,        \* natural numbers, in the order rules are added
          Editors,        \* requests in progress at the same time
          Candidates,     \* the rules a client asks for
          DaysOfWeek, SlotsPerDay,
          Horizon,        \* bound on the clock, in slots
          NoRule, NoTime

\* 0 is the target of a request that adds a rule.
ASSUME RuleIdsAssumption == RuleIds \subseteq Nat \ {0}
ASSUME CalendarAssumption ==
    /\ DaysOfWeek \in Nat \ {0} /\ SlotsPerDay \in Nat \ {0} /\ NoTime \notin Int
    /\ \A c \in Candidates : {c.from, c.until} \subseteq Nat \cup {NoTime}

VARIABLES rules,          \* committed store_operating_hours rows
          editing,        \* requests that hold the advisory lock of their candidate
          hoursNow

hoursVars == <<rules, editing, hoursNow>>

Least(S) == CHOOSE x \in S : \A y \in S : x <= y

-----------------------------------------------------------------------------
(* Validation                                                                *)

Times == 0..(SlotsPerDay - 1)

ValidMode(c) ==
    /\ ~(c.isClosed /\ c.is24Hours)
    /\ IF c.isClosed \/ c.is24Hours THEN c.opens = NoTime /\ c.closes = NoTime
       ELSE c.opens \in Times /\ c.closes \in Times /\ c.opens < c.closes

ValidPeriod(c) ==
    IF c.from = NoTime \/ c.until = NoTime THEN c.from = c.until ELSE c.from < c.until

Valid(c) == c.day \in 0..(DaysOfWeek - 1) /\ c.priority >= 0 /\ ValidMode(c) /\ ValidPeriod(c)

PeriodsOverlap(a, b) ==
    (a.from # NoTime /\ b.from # NoTime) => a.from < b.until /\ b.from < a.until

RulesOverlap(a, b) ==
    /\ PeriodsOverlap(a, b)
    /\ \/ a.isClosed \/ a.is24Hours \/ b.isClosed \/ b.is24Hours
       \/ a.opens < b.closes /\ b.opens < a.closes

-----------------------------------------------------------------------------
(* The rows                                                                  *)

Live(i) == rules[i] # NoRule /\ ~rules[i].deleted
Unexpired(i) == Live(i) /\ (rules[i].until = NoTime \/ rules[i].until > hoursNow)
SameScope(a, b) == a.day = b.day /\ a.priority = b.priority
Row(c, n) ==
    [day |-> c.day, timezone |-> c.timezone, opens |-> c.opens, closes |-> c.closes,
     isClosed |-> c.isClosed, is24Hours |-> c.is24Hours, from |-> c.from, until |-> c.until,
     priority |-> c.priority, deleted |-> FALSE, version |-> n]

HoursInit ==
    /\ rules = [i \in RuleIds |-> NoRule]
    /\ editing = [r \in Editors |-> NoRule]
    /\ hoursNow = 0

\* _validate_against_store, under the lock: the zone against every unexpired
\* rule, the times against every rule of the scope.
Accepts(c, except) ==
    /\ \A i \in RuleIds \ except : Unexpired(i) => rules[i].timezone = c.timezone
    /\ \A i \in RuleIds \ except : Live(i) /\ SameScope(rules[i], c) => ~RulesOverlap(rules[i], c)

LockFreeOfTimes(c) ==
    \A q \in Editors : editing[q] # NoRule =>
        ~(SameScope(editing[q].candidate, c) /\ editing[q].candidate.opens = c.opens)

\* lock_scope: the advisory lock of a store, a day and a priority.
LockFree(c) == \A q \in Editors : editing[q] # NoRule => ~SameScope(editing[q].candidate, c)

Begin(r, c, target, version) ==
    /\ editing[r] = NoRule /\ Valid(c)
    /\ LockFree(c)
    /\ Accepts(c, {target})
    /\ editing' = [editing EXCEPT ![r] = [candidate |-> c, target |-> target, version |-> version]]
    /\ UNCHANGED <<rules, hoursNow>>

\* create: the rule is added under the next identifier.
Free == {i \in RuleIds : rules[i] = NoRule}
Creating == {q \in Editors : editing[q] # NoRule /\ editing[q].target = 0}
BeginCreate(r, c) == Cardinality(Creating) < Cardinality(Free) /\ Begin(r, c, 0, 0)

\* update: the fields are merged into the rule read before the lock; the
\* version is the one the client names.
BeginUpdate(r, i, c) == Live(i) /\ rules[i].version < 2 /\ Begin(r, c, i, rules[i].version)

FinishCreate(r) ==
    /\ editing[r] # NoRule /\ editing[r].target = 0
    /\ rules' = [rules EXCEPT ![Least(Free)] = Row(editing[r].candidate, 1)]
    /\ editing' = [editing EXCEPT ![r] = NoRule]
    /\ UNCHANGED hoursNow

FinishUpdate(r) ==
    /\ editing[r] # NoRule /\ editing[r].target # 0
    /\ LET i == editing[r].target IN
       rules' = IF Live(i) /\ rules[i].version = editing[r].version
                THEN [rules EXCEPT ![i] = Row(editing[r].candidate, @.version + 1)]
                ELSE rules
    /\ editing' = [editing EXCEPT ![r] = NoRule]
    /\ UNCHANGED hoursNow

\* soft_delete compares the version read in the same request and takes no
\* advisory lock.
Delete(i) ==
    /\ Live(i)
    /\ rules' = [rules EXCEPT ![i].deleted = TRUE]
    /\ UNCHANGED <<editing, hoursNow>>

\* The transaction fails after it took the lock.
Abandon(r) ==
    /\ editing[r] # NoRule
    /\ editing' = [editing EXCEPT ![r] = NoRule]
    /\ UNCHANGED <<rules, hoursNow>>

HoursTick ==
    /\ hoursNow < Horizon
    /\ hoursNow' = hoursNow + 1
    /\ UNCHANGED <<rules, editing>>

HoursNext ==
    \/ HoursTick
    \/ \E r \in Editors : \/ FinishCreate(r) \/ FinishUpdate(r) \/ Abandon(r)
                          \/ \E c \in Candidates : BeginCreate(r, c)
                          \/ \E i \in RuleIds, c \in Candidates : BeginUpdate(r, i, c)
    \/ \E i \in RuleIds : Delete(i)

HoursSpec == HoursInit /\ [][HoursNext]_hoursVars

-----------------------------------------------------------------------------
(* status: computed from the unexpired rules, for any instant                *)

Known == {i \in RuleIds : Unexpired(i)}
DayOf(t) == (t \div SlotsPerDay) % DaysOfWeek
TimeOf(t) == t % SlotsPerDay

Effective(i, t) == rules[i].from # NoTime => rules[i].from <= t /\ t < rules[i].until
Temporary(i) == rules[i].from # NoTime

\* _resolve: temporary rules before recurring ones, then the highest priority.
Resolve(t) ==
    LET eligible == {i \in Known : rules[i].day = DayOf(t) /\ Effective(i, t)}
        overrides == {i \in eligible : Temporary(i)}
        pool == IF overrides # {} THEN overrides ELSE eligible
    IN  {i \in pool : \A j \in pool : rules[j].priority <= rules[i].priority}

\* _open_details: a closed or all-day rule never shares its scope, so the
\* order of the intervals does not matter.
OpenAt(t) ==
    \E i \in Resolve(t) :
        /\ ~rules[i].isClosed
        /\ rules[i].is24Hours \/ (rules[i].opens <= TimeOf(t) /\ TimeOf(t) < rules[i].closes)

Opens(t) == ~OpenAt(t - 1) /\ OpenAt(t)
Closes(t) == OpenAt(t - 1) /\ ~OpenAt(t)

\* _next_transitions looks 14 days ahead, two weeks and the day it starts on.
Fortnight == 0..(2 * DaysOfWeek)
Today == hoursNow \div SlotsPerDay

Dates(i) == {d \in Fortnight : rules[i].day = (Today + d) % DaysOfWeek}
Daily(i) == {(Today + d) * SlotsPerDay + time :
                d \in Dates(i), time \in {rules[i].opens, rules[i].closes} \ {NoTime}}
Once(i) == {rules[i].from, rules[i].until} \ {NoTime}

BoundariesOfDays == {t \in UNION {Daily(i) : i \in Known} : t > hoursNow}
Boundaries == {t \in UNION {Daily(i) \cup Once(i) : i \in Known} : t > hoursNow}

EarliestOf(S) == IF S = {} THEN NoTime ELSE Least(S)
NextOpening == EarliestOf({t \in Boundaries : Opens(t)})
NextClosing == EarliestOf({t \in Boundaries : Closes(t)})

-----------------------------------------------------------------------------
\* Two live rules of a day and a priority never overlap, whatever requests
\* run at the same time: the advisory lock is taken before the rows are read.
NoOverlap ==
    \A i, j \in RuleIds :
        i # j /\ Live(i) /\ Live(j) /\ SameScope(rules[i], rules[j]) => ~RulesOverlap(rules[i], rules[j])

\* The instants at which the store really opens or closes in the two weeks
\* that follow, found by looking at every slot.
Ahead == (hoursNow + 1)..((Today + 2 * DaysOfWeek) * SlotsPerDay)
Midnight(t) == TimeOf(t) = 0

\* The first of these instants; a temporary rule may bring a later one about.
FirstOf(answer, instants) ==
    IF instants = {} THEN answer \notin Ahead ELSE answer = Least(instants)

\* The next opening and the next closing the status reports are the first
\* the rules bring about, as long as none comes with the change of the day:
\* comparing the two sides of each boundary, through overrides, priorities
\* and expiring rules, misses nothing else.
TransitionsExact ==
    LET openings == {t \in Ahead : Opens(t)}
        closings == {t \in Ahead : Closes(t)}
    IN  /\ (\A t \in openings : ~Midnight(t)) => FirstOf(NextOpening, openings)
        /\ (\A t \in closings : ~Midnight(t)) => FirstOf(NextClosing, closings)
=============================================================================
