------------------------------ MODULE MCStores ------------------------------
(***************************************************************************)
(* The six parts of the stores module share no state: one run checks all  *)
(* of them, `part` saying which one a behaviour is about.                  *)
(***************************************************************************)
EXTENDS Stores, Memberships, StoreMedia, StoreHours, Search, Analytics, TLC

VARIABLE part

storesVars == <<part, storeVars, memberVars, mediaVars, hoursVars, searchVars, analyticsVars>>

MCInit ==
    /\ StoresInit /\ MembersInit /\ MediaInit /\ HoursInit /\ InitSearch /\ InitAnalytics
    /\ part \in {"stores", "members", "media", "hours", "search", "analytics"}

MCNext ==
    \/ /\ part = "stores" /\ StoresNext
       /\ UNCHANGED <<part, memberVars, mediaVars, hoursVars, searchVars, analyticsVars>>
    \/ /\ part = "members" /\ MembersNext
       /\ UNCHANGED <<part, storeVars, mediaVars, hoursVars, searchVars, analyticsVars>>
    \/ /\ part = "media" /\ MediaNext
       /\ UNCHANGED <<part, storeVars, memberVars, hoursVars, searchVars, analyticsVars>>
    \/ /\ part = "hours" /\ HoursNext
       /\ UNCHANGED <<part, storeVars, memberVars, mediaVars, searchVars, analyticsVars>>
    \/ /\ part = "search" /\ NextSearch
       /\ UNCHANGED <<part, storeVars, memberVars, mediaVars, hoursVars, analyticsVars>>
    \/ /\ part = "analytics" /\ NextAnalytics
       /\ UNCHANGED <<part, storeVars, memberVars, mediaVars, hoursVars, searchVars>>

MCSpec == MCInit /\ [][MCNext]_storesVars

\* The requests of the parts are the same model values, and so are the
\* administrators, the people invited and the workers of the index.
Symmetry == Permutations(Submitters) \cup Permutations(Administrators)

Rule(day, zone, times, kind, period, priority) ==
    [day |-> day, timezone |-> zone, opens |-> times[1], closes |-> times[2],
     isClosed |-> kind = "closed", is24Hours |-> kind = "24 hours",
     from |-> period[1], until |-> period[2], priority |-> priority]

\* Recurring and temporary rules that split a day, override or close it, in
\* two timezones, and one that is not valid.
MCCandidates ==
    LET never == <<NoTime, NoTime>> IN
    {Rule(0, "kolkata", <<0, 1>>, "interval", never, 0),
     Rule(0, "kolkata", <<1, 2>>, "interval", never, 0),
     Rule(0, "kolkata", <<2, 1>>, "interval", never, 0),
     Rule(0, "kolkata", never, "24 hours", never, 1),
     Rule(1, "kolkata", never, "closed", <<3, 5>>, 0),
     Rule(1, "utc", <<0, 2>>, "interval", <<1, 3>>, 0),
     Rule(1, "utc", <<0, 2>>, "interval", <<4, 8>>, 0)}
=============================================================================
