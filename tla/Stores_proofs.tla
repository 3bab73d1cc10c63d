--------------------------- MODULE Stores_proofs ---------------------------
(***************************************************************************)
(* Proofs about a store, its members, its opening hours, its images, the   *)
(* search index and the counters of its days, for any number of requests   *)
(* that interleave and, for the images, crash or are refused by the        *)
(* storage at any call.                                                    *)
(***************************************************************************)
EXTENDS Stores, Memberships, StoreHours, StoreMedia, Search, Analytics, SumTheorems

-----------------------------------------------------------------------------
(* Stores and verifications.  A verification's version tells its evidence: *)
(* whoever names the version it was shown decides on what it was shown.    *)
(* The two rows agree because a request holds the verification row from    *)
(* its UPDATE to its commit, and moves the store from the one status the    *)
(* verification it changes can belong to.                                  *)

Ops == {"submit", "in_review", "approved", "rejected"}
Decisions == {"approved", "rejected"}
StatusOf(op) == IF op = "submit" THEN "submitted" ELSE op

ProcessRow ==
    [at : {"idle", "reading", "adding", "writing", "moving"}, op : Ops \cup {"none"},
     store : StoreIds \cup {NoStore}, actor : Administrators \cup {NoStore},
     before : StoreRow \cup VerificationRow \cup {NoStore},
     row : VerificationRow \cup {NoStore}, shown : Evidence \cup {NoStore}]
SeenRow == [store : StoreIds, evidence : Evidence, version : Nat]

StoresTyped ==
    /\ store \in [StoreIds -> StoreRow \cup {NoStore}]
    /\ verification \in [StoreIds -> VerificationRow \cup {NoStore}]
    /\ process \in [Submitters -> ProcessRow]
    /\ seen \in [Administrators -> SeenRow \cup {NoStore}]

Story(s) ==
    \/ store[s] = NoStore /\ verification[s] = NoStore
    \/ /\ store[s] # NoStore
       /\ \/ store[s].status = "closed"
          \/ store[s].status = "draft" /\ store[s].verified = "unverified" /\ verification[s] = NoStore
          \/ /\ store[s].status = "draft" /\ store[s].verified = "rejected"
             /\ verification[s] # NoStore /\ verification[s].status = "rejected"
          \/ /\ store[s].status = "pending_review" /\ store[s].verified = "pending"
             /\ verification[s] # NoStore /\ verification[s].status \in {"submitted", "in_review"}
          \/ /\ store[s].status = "active" /\ store[s].verified = "verified"
             /\ verification[s] # NoStore /\ verification[s].status = "approved"

\* A version that is still the row's has the evidence that was shown with it.
ShownWith(s, version, evidence) ==
    /\ verification[s] # NoStore
    /\ version <= verification[s].version
    /\ version = verification[s].version => verification[s].evidence = evidence

SeenTrue ==
    \A a \in Administrators :
        seen[a] # NoStore => ShownWith(seen[a].store, seen[a].version, seen[a].evidence)

\* A request after its first statement.
Submission(p) ==
    /\ p.store \in StoreIds /\ store[p.store] # NoStore
    /\ p.op \in Ops /\ p.row \in VerificationRow /\ p.row.status = StatusOf(p.op)

WritingTrue(p) ==
    /\ p.before \in VerificationRow /\ verification[p.store] # NoStore
    /\ p.op = "submit" => p.row.version = p.before.version + 1
    /\ p.op = "in_review" => p.before.status \in {"submitted", "in_review"}
    /\ p.op \in Decisions => ShownWith(p.store, p.before.version, p.shown)

MovingTrue(p) ==
    \/ verification[p.store] = NoStore /\ p.op = "submit"
    \/ /\ verification[p.store] # NoStore /\ p.row.version = verification[p.store].version + 1
       /\ p.op # "submit" => p.row.evidence = verification[p.store].evidence
       /\ p.op = "in_review" => verification[p.store].status \in {"submitted", "in_review"}
       /\ p.op \in Decisions => p.row.evidence = p.shown

ProcessTrue(p) ==
    /\ p.at # "idle" => Submission(p)
    /\ p.at \in {"reading", "adding"} => p.op = "submit"
    /\ p.at = "writing" => WritingTrue(p)
    /\ p.at = "moving" => MovingTrue(p)

HeldOnce ==
    \A p, q \in Submitters :
        process[p].at = "moving" /\ process[q].at = "moving" /\ process[p].store = process[q].store
        => p = q

StoresInv ==
    /\ StoresTyped
    /\ \A s \in StoreIds : Story(s)
    /\ SeenTrue
    /\ \A q \in Submitters : ProcessTrue(process[q])
    /\ HeldOnce

\* A request that ends.
LEMMA WaitingTrue ==
    Waiting \in ProcessRow /\ ProcessTrue(Waiting) /\ Waiting.at = "idle"
BY DEF Waiting, ProcessRow, ProcessTrue, Submission, WritingTrue, MovingTrue

\* One request takes a step that leaves the committed rows.
LEMMA RequestSteps ==
    ASSUME StoresInv, store' = store, verification' = verification, seen' = seen,
           NEW q \in Submitters, process' = [process EXCEPT ![q] = process'[q]],
           process'[q] \in ProcessRow, ProcessTrue(process'[q]),
           process'[q].at = "moving" =>
             \A p \in Submitters : p # q /\ process[p].at = "moving" => process[p].store # process'[q].store
    PROVE  StoresInv'
<1>1. \A p \in Submitters : p # q => process'[p] = process[p]
  BY DEF StoresInv, StoresTyped
<1>2. StoresTyped'
  BY DEF StoresInv, StoresTyped
<1>3. \A s \in StoreIds : Story(s)'
  BY DEF StoresInv, Story
<1>4. SeenTrue'
  BY DEF StoresInv, SeenTrue, ShownWith
<1>5. \A p \in Submitters : ProcessTrue(process[p])'
  <2> TAKE p \in Submitters
  <2>1. ProcessTrue(process'[p])
    BY <1>1 DEF StoresInv
  <2> QED BY <2>1 DEF ProcessTrue, Submission, WritingTrue, MovingTrue, ShownWith
<1>6. HeldOnce'
  BY <1>1 DEF StoresInv, HeldOnce
<1> QED BY <1>2, <1>3, <1>4, <1>5, <1>6 DEF StoresInv

LEMMA RequestEnds ==
    ASSUME StoresInv, store' = store, verification' = verification, seen' = seen,
           NEW q \in Submitters, process' = [process EXCEPT ![q] = Waiting]
    PROVE  StoresInv'
<1>1. process'[q] = Waiting
  BY DEF StoresInv, StoresTyped
<1> QED BY <1>1, WaitingTrue, RequestSteps

\* A store changes on its own: it is edited or closed, or it is new.
LEMMA StoreChanges ==
    ASSUME StoresInv, verification' = verification, seen' = seen, process' = process,
           store' \in [StoreIds -> StoreRow \cup {NoStore}],
           \A s \in StoreIds : store[s] # NoStore => store'[s] # NoStore,
           \A s \in StoreIds : Story(s)'
    PROVE  StoresInv'
<1>1. StoresTyped'
  BY DEF StoresInv, StoresTyped
<1>2. SeenTrue'
  BY DEF StoresInv, SeenTrue, ShownWith
<1>3. \A p \in Submitters : ProcessTrue(process[p])'
  BY DEF StoresInv, ProcessTrue, Submission, WritingTrue, MovingTrue, ShownWith
<1>4. HeldOnce'
  BY DEF StoresInv, HeldOnce
<1> QED BY <1>1, <1>2, <1>3, <1>4 DEF StoresInv

-----------------------------------------------------------------------------

LEMMA CreateHolds ==
    ASSUME StoresInv, NEW s \in StoreIds, CreateStore(s)
    PROVE  StoresInv'
<1> DEFINE row == [status |-> "draft", verified |-> "unverified", version |-> 1]
<1>1. row \in StoreRow /\ row.status = "draft" /\ row.verified = "unverified"
  BY DEF StoreRow, StoreStatus, VerificationStatus
<1>2. row # NoStore
  BY <1>1, NoStoreAssumption
<1>3. /\ store[s] = NoStore /\ store' = [store EXCEPT ![s] = row]
      /\ verification' = verification /\ seen' = seen /\ process' = process
  BY DEF CreateStore
<1> HIDE DEF row
<1>4. store'[s] = row /\ \A i \in StoreIds : i # s => store'[i] = store[i]
  BY <1>3 DEF StoresInv, StoresTyped
<1>5. store' \in [StoreIds -> StoreRow \cup {NoStore}]
  BY <1>1, <1>3 DEF StoresInv, StoresTyped
<1>6. \A i \in StoreIds : Story(i)'
  <2> TAKE i \in StoreIds
  <2>1. Story(i)
    BY DEF StoresInv
  <2> QED BY <1>1, <1>2, <1>3, <1>4, <2>1 DEF Story
<1> QED BY <1>2, <1>3, <1>4, <1>5, <1>6, StoreChanges

LEMMA UpdateHolds ==
    ASSUME StoresInv, NEW s \in StoreIds, NEW v \in 1..MaxEdited, UpdateStore(s, v)
    PROVE  StoresInv'
<1> DEFINE row == [store[s] EXCEPT !.version = store[s].version + 1]
<1>0. store[s] \in StoreRow /\ store[s] # NoStore
  BY DEF UpdateStore, Existing, StoresInv, StoresTyped
<1>1. row \in StoreRow /\ row.status = store[s].status /\ row.verified = store[s].verified
  BY <1>0 DEF StoreRow
<1>2. /\ store' = [store EXCEPT ![s] = row]
      /\ verification' = verification /\ seen' = seen /\ process' = process
  BY DEF UpdateStore
<1> HIDE DEF row
<1>3. row # NoStore
  BY <1>1, NoStoreAssumption
<1>4. store'[s] = row /\ \A i \in StoreIds : i # s => store'[i] = store[i]
  BY <1>2 DEF StoresInv, StoresTyped
<1>5. store' \in [StoreIds -> StoreRow \cup {NoStore}]
  BY <1>1, <1>2 DEF StoresInv, StoresTyped
<1>6. \A i \in StoreIds : Story(i)'
  <2> TAKE i \in StoreIds
  <2>1. Story(i)
    BY DEF StoresInv
  <2> QED BY <1>0, <1>1, <1>2, <1>3, <1>4, <2>1 DEF Story
<1> QED BY <1>2, <1>3, <1>4, <1>5, <1>6, StoreChanges

LEMMA CloseHolds ==
    ASSUME StoresInv, NEW s \in StoreIds, CloseStore(s)
    PROVE  StoresInv'
<1> DEFINE row == [store[s] EXCEPT !.status = "closed", !.version = store[s].version + 1]
<1>0. store[s] \in StoreRow /\ store[s] # NoStore
  BY DEF CloseStore, Existing, StoresInv, StoresTyped
<1>1. row \in StoreRow /\ row.status = "closed"
  <2>1. store[s].version + 1 \in Nat /\ "closed" \in StoreStatus
    BY <1>0 DEF StoreRow, StoreStatus
  <2>2. row \in StoreRow
    BY <1>0, <2>1 DEF StoreRow
  <2> QED BY <1>0, <2>2 DEF StoreRow
<1>2. /\ store' = [store EXCEPT ![s] = row]
      /\ verification' = verification /\ seen' = seen /\ process' = process
  BY DEF CloseStore
<1> HIDE DEF row
<1>3. row # NoStore
  BY <1>1, NoStoreAssumption
<1>4. store'[s] = row /\ \A i \in StoreIds : i # s => store'[i] = store[i]
  BY <1>2 DEF StoresInv, StoresTyped
<1>5. store' \in [StoreIds -> StoreRow \cup {NoStore}]
  BY <1>1, <1>2 DEF StoresInv, StoresTyped
<1>6. \A i \in StoreIds : Story(i)'
  <2> TAKE i \in StoreIds
  <2>1. Story(i)
    BY DEF StoresInv
  <2> QED BY <1>1, <1>2, <1>3, <1>4, <2>1 DEF Story
<1> QED BY <1>2, <1>3, <1>4, <1>5, <1>6, StoreChanges

LEMMA BeginSubmitHolds ==
    ASSUME StoresInv, NEW q \in Submitters, NEW s \in StoreIds, NEW e \in Evidence, BeginSubmit(q, s, e)
    PROVE  StoresInv'
<1> DEFINE v == [status |-> "submitted", evidence |-> e, reviewer |-> NoStore, version |-> 1]
           p == [at |-> "reading", op |-> "submit", store |-> s, actor |-> NoStore, before |-> store[s],
                 shown |-> NoStore, row |-> v]
<1>1. v \in VerificationRow /\ v.status = "submitted"
  BY DEF VerificationRow
<1>2. store[s] \in StoreRow /\ store[s] # NoStore
  BY DEF BeginSubmit, Existing, StoresInv, StoresTyped
<1>3. process' = [process EXCEPT ![q] = p] /\ store' = store /\ verification' = verification /\ seen' = seen
  BY DEF BeginSubmit
<1> HIDE DEF v
<1>4. p \in ProcessRow /\ p.at = "reading" /\ p.op = "submit" /\ p.store = s /\ p.row = v
  BY <1>1, <1>2 DEF ProcessRow, Ops
<1> HIDE DEF p
<1>5. ProcessTrue(p)
  BY <1>1, <1>2, <1>4 DEF ProcessTrue, Submission, Ops, StatusOf
<1>6. process'[q] = p
  BY <1>3 DEF StoresInv, StoresTyped
<1> QED BY <1>3, <1>4, <1>5, <1>6, RequestSteps

LEMMA ReadHolds ==
    ASSUME StoresInv, NEW q \in Submitters, ReadVerification(q)
    PROVE  StoresInv'
<1> PICK p \in ProcessRow : p = process[q]
  BY DEF StoresInv, StoresTyped
<1> PICK current : current = verification[p.store]
  OBVIOUS
<1>1. /\ p.at = "reading" /\ p.op = "submit" /\ Submission(p)
      /\ store' = store /\ verification' = verification /\ seen' = seen
  BY DEF ReadVerification, StoresInv, ProcessTrue
<1>2. \/ process' = [process EXCEPT ![q] = [p EXCEPT !.at = "adding"]]
      \/ /\ current # NoStore /\ current.status = "rejected"
         /\ process' = [process EXCEPT ![q].at = "writing", ![q].before = current,
                                       ![q].row.version = current.version + 1]
      \/ process' = [process EXCEPT ![q] = Waiting]
  BY DEF ReadVerification
<1>3. CASE process' = [process EXCEPT ![q] = [p EXCEPT !.at = "adding"]]
  <2> DEFINE r == [p EXCEPT !.at = "adding"]
  <2>1. r \in ProcessRow /\ r.at = "adding" /\ r.op = p.op /\ r.store = p.store /\ r.row = p.row
    BY DEF ProcessRow
  <2> HIDE DEF r
  <2>2. ProcessTrue(r)
    BY <1>1, <2>1 DEF ProcessTrue, Submission
  <2>3. process'[q] = r
    BY <1>3 DEF StoresInv, StoresTyped, r
  <2> QED BY <1>1, <1>3, <2>1, <2>2, <2>3, RequestSteps DEF r
<1>4. CASE /\ current # NoStore /\ current.status = "rejected"
           /\ process' = [process EXCEPT ![q].at = "writing", ![q].before = current,
                                         ![q].row.version = current.version + 1]
  <2>1. current \in VerificationRow /\ current.version + 1 \in Nat
    BY <1>1, <1>4 DEF StoresInv, StoresTyped, Submission, VerificationRow
  <2> DEFINE v == [p.row EXCEPT !.version = current.version + 1]
             r == [[[p EXCEPT !.at = "writing"] EXCEPT !.before = current] EXCEPT !.row = v]
  <2>2. v \in VerificationRow /\ v.version = current.version + 1 /\ v.status = p.row.status
    BY <1>1, <2>1 DEF Submission, VerificationRow
  <2>3. process' = [process EXCEPT ![q] = r]
    BY <1>4
  <2> HIDE DEF v
  <2>4. r \in ProcessRow
    BY <2>1, <2>2 DEF ProcessRow
  <2>5. r.at = "writing" /\ r.op = p.op /\ r.store = p.store /\ r.row = v /\ r.before = current
    BY DEF ProcessRow
  <2> HIDE DEF r
  <2>6. ProcessTrue(r)
    BY <1>1, <1>4, <2>1, <2>2, <2>5 DEF ProcessTrue, Submission, WritingTrue, Decisions
  <2>7. process'[q] = r
    BY <2>3 DEF StoresInv, StoresTyped
  <2> QED BY <1>1, <2>3, <2>4, <2>5, <2>6, <2>7, RequestSteps
<1>5. CASE process' = [process EXCEPT ![q] = Waiting]
  BY <1>1, <1>5, RequestEnds
<1> QED BY <1>2, <1>3, <1>4, <1>5

LEMMA AddHolds ==
    ASSUME StoresInv, NEW q \in Submitters, AddVerification(q)
    PROVE  StoresInv'
<1> PICK p \in ProcessRow : p = process[q]
  BY DEF StoresInv, StoresTyped
<1>1. /\ p.at = "adding" /\ p.op = "submit" /\ Submission(p) /\ HeldBy(p.store) = {}
      /\ store' = store /\ verification' = verification /\ seen' = seen
  BY DEF AddVerification, StoresInv, ProcessTrue
<1>2. CASE verification[p.store] = NoStore
  <2> DEFINE r == [p EXCEPT !.at = "moving"]
  <2>1. r \in ProcessRow /\ r.at = "moving" /\ r.op = p.op /\ r.store = p.store /\ r.row = p.row
    BY DEF ProcessRow
  <2>2. process' = [process EXCEPT ![q] = r]
    BY <1>2 DEF AddVerification, To
  <2> HIDE DEF r
  <2>3. ProcessTrue(r)
    BY <1>1, <1>2, <2>1 DEF ProcessTrue, Submission, MovingTrue
  <2>4. process'[q] = r
    BY <2>2 DEF StoresInv, StoresTyped
  <2>5. \A o \in Submitters : process[o].at = "moving" => process[o].store # p.store
    BY <1>1 DEF HeldBy
  <2> QED BY <1>1, <2>1, <2>2, <2>3, <2>4, <2>5, RequestSteps
<1>3. CASE verification[p.store] # NoStore
  BY <1>1, <1>3, RequestEnds DEF AddVerification, Fail
<1> QED BY <1>2, <1>3

LEMMA DecideHolds ==
    ASSUME StoresInv, NEW q \in Submitters, NEW a \in Administrators, NEW verdict \in Ops \ {"submit"},
           Found(a), Decide(q, a, verdict),
           verdict = "in_review" => StatusFor(a) \in {"submitted", "in_review"}
    PROVE  StoresInv'
<1> PICK s \in StoreIds : s = seen[a].store
  BY DEF Found, StoresInv, StoresTyped, SeenRow
<1>1. seen[a] \in SeenRow /\ ShownWith(s, seen[a].version, seen[a].evidence) /\ store[s] # NoStore
  BY DEF Found, Existing, StoresInv, StoresTyped, SeenTrue
<1> PICK current \in VerificationRow : current = verification[s]
  BY <1>1 DEF ShownWith, StoresInv, StoresTyped
<1> PICK n \in Nat : n = seen[a].version
  BY <1>1 DEF SeenRow
<1> PICK e \in Evidence : e = seen[a].evidence
  BY <1>1 DEF SeenRow
<1> DEFINE b == [current EXCEPT !.version = n]
           v == [current EXCEPT !.status = verdict, !.reviewer = a, !.version = n + 1]
           r == [at |-> "writing", op |-> verdict, store |-> s, actor |-> a,
                 shown |-> e, before |-> b, row |-> v]
<1>2. b \in VerificationRow /\ b.version = n /\ b.status = current.status
  BY DEF VerificationRow
<1>3. v \in VerificationRow /\ v.status = verdict
  <2>1. verdict \in {"submitted", "in_review", "approved", "rejected"} /\ n + 1 \in Nat
    BY DEF Ops
  <2>2. v \in VerificationRow
    BY <2>1 DEF VerificationRow
  <2> QED BY <2>2 DEF VerificationRow
<1>4. /\ process' = [process EXCEPT ![q] = r]
      /\ store' = store /\ verification' = verification /\ seen' = seen
  BY DEF Decide
<1>5. verdict = "in_review" => current.status \in {"submitted", "in_review"}
  BY DEF StatusFor
<1> HIDE DEF b, v
<1>6. r \in ProcessRow
  BY <1>2, <1>3 DEF ProcessRow
<1>7. /\ r.at = "writing" /\ r.op = verdict /\ r.store = s /\ r.row = v /\ r.before = b /\ r.shown = e
  OBVIOUS
<1> HIDE DEF r
<1>8. Submission(r)
  BY <1>1, <1>3, <1>7 DEF Submission, StatusOf
<1>9. WritingTrue(r)
  BY <1>1, <1>2, <1>5, <1>7 DEF WritingTrue, ShownWith
<1>10. ProcessTrue(r)
  BY <1>7, <1>8, <1>9 DEF ProcessTrue
<1>11. process'[q] = r
  BY <1>4 DEF StoresInv, StoresTyped
<1> QED BY <1>4, <1>6, <1>7, <1>10, <1>11, RequestSteps

LEMMA WriteHolds ==
    ASSUME StoresInv, NEW q \in Submitters, WriteVerification(q)
    PROVE  StoresInv'
<1> PICK p \in ProcessRow : p = process[q]
  BY DEF StoresInv, StoresTyped
<1>1. /\ p.at = "writing" /\ Submission(p) /\ WritingTrue(p) /\ HeldBy(p.store) = {}
      /\ store' = store /\ verification' = verification /\ seen' = seen
  BY DEF WriteVerification, StoresInv, ProcessTrue
<1> PICK current \in VerificationRow : current = verification[p.store]
  BY <1>1 DEF Submission, WritingTrue, StoresInv, StoresTyped
<1>2. CASE Unchanged(current, p.before)
  <2> DEFINE v == IF p.op = "submit" THEN p.row
                  ELSE [p.row EXCEPT !.evidence = current.evidence, !.version = current.version + 1]
             r == [[p EXCEPT !.at = "moving"] EXCEPT !.row = v]
  <2>1. current.version + 1 \in Nat /\ current.evidence \in Evidence /\ p.row \in VerificationRow
    BY <1>1 DEF Submission, VerificationRow
  <2>2. v \in VerificationRow /\ v.status = p.row.status
    <3>1. CASE p.op = "submit"
      BY <2>1, <3>1
    <3>2. CASE p.op # "submit"
      <4>1. v = [p.row EXCEPT !.evidence = current.evidence, !.version = current.version + 1]
        BY <3>2
      <4> HIDE DEF v
      <4>2. v \in VerificationRow
        BY <2>1, <4>1 DEF VerificationRow
      <4> QED BY <2>1, <4>1, <4>2 DEF VerificationRow
    <3> QED BY <3>1, <3>2
  <2>3. v.version = current.version + 1
    <3>1. CASE p.op = "submit"
      BY <1>1, <1>2, <3>1 DEF WritingTrue, Unchanged
    <3>2. CASE p.op # "submit"
      BY <2>1, <3>2 DEF VerificationRow
    <3> QED BY <3>1, <3>2
  <2>4. p.op # "submit" => v.evidence = current.evidence
    BY <2>1 DEF VerificationRow
  <2>5. process' = [process EXCEPT ![q] = r]
    BY <1>2 DEF WriteVerification
  <2> HIDE DEF v
  <2>6. r \in ProcessRow
    BY <2>2 DEF ProcessRow
  <2>7. r.at = "moving" /\ r.op = p.op /\ r.store = p.store /\ r.row = v /\ r.shown = p.shown
    BY DEF ProcessRow
  <2> HIDE DEF r
  <2>8. Submission(r)
    BY <1>1, <2>2, <2>7 DEF Submission
  <2>9. MovingTrue(r)
    <3>1. verification[r.store] # NoStore /\ r.row.version = verification[r.store].version + 1
      BY <1>1, <2>3, <2>7 DEF WritingTrue
    <3>2. r.op # "submit" => r.row.evidence = verification[r.store].evidence
      BY <2>4, <2>7
    <3>3. r.op = "in_review" => verification[r.store].status \in {"submitted", "in_review"}
      BY <1>1, <1>2, <2>7 DEF WritingTrue, Unchanged
    <3>4. r.op \in Decisions => r.row.evidence = r.shown
      BY <1>1, <1>2, <2>4, <2>7 DEF WritingTrue, ShownWith, Unchanged, Decisions
    <3> QED BY <3>1, <3>2, <3>3, <3>4 DEF MovingTrue
  <2>10. ProcessTrue(r)
    BY <2>7, <2>8, <2>9 DEF ProcessTrue
  <2>11. process'[q] = r
    BY <2>5 DEF StoresInv, StoresTyped
  <2>12. \A o \in Submitters : process[o].at = "moving" => process[o].store # p.store
    BY <1>1 DEF HeldBy
  <2> QED BY <1>1, <2>5, <2>6, <2>7, <2>10, <2>11, <2>12, RequestSteps
<1>3. CASE ~Unchanged(current, p.before)
  BY <1>1, <1>3, RequestEnds DEF WriteVerification
<1> QED BY <1>2, <1>3

\* A request commits the verification it holds, and what it does to the store.
LEMMA SubmissionCommits ==
    ASSUME StoresInv, NEW q \in Submitters, NEW s \in StoreIds,
           process[q].at = "moving", process[q].store = s,
           verification' = [verification EXCEPT ![s] = process[q].row],
           process' = [process EXCEPT ![q] = Waiting], seen' = seen,
           store' \in [StoreIds -> StoreRow \cup {NoStore}], store'[s] # NoStore,
           \A i \in StoreIds : i # s => store'[i] = store[i],
           Story(s)'
    PROVE  StoresInv'
<1> PICK p \in ProcessRow : p = process[q]
  BY DEF StoresInv, StoresTyped
<1>1. p.row \in VerificationRow /\ p.row # NoStore /\ MovingTrue(p) /\ p.store = s
  BY NoStoreAssumption DEF StoresInv, ProcessTrue, Submission
<1>2. verification'[s] = p.row /\ \A i \in StoreIds : i # s => verification'[i] = verification[i]
  BY DEF StoresInv, StoresTyped
<1>3. process'[q] = Waiting /\ \A o \in Submitters : o # q => process'[o] = process[o]
  BY DEF StoresInv, StoresTyped
<1>4. StoresTyped'
  BY <1>1, WaitingTrue DEF StoresInv, StoresTyped
<1>5. \A i \in StoreIds : Story(i)'
  <2> TAKE i \in StoreIds
  <2>1. CASE i # s
    BY <1>2, <2>1 DEF StoresInv, Story
  <2> QED BY <2>1
<1>6. \A version \in Nat : \A evidence : \A i \in StoreIds :
        ShownWith(i, version, evidence) => ShownWith(i, version, evidence)'
  <2> TAKE version \in Nat
  <2> TAKE evidence
  <2> TAKE i \in StoreIds
  <2> HAVE ShownWith(i, version, evidence)
  <2>1. CASE i # s
    BY <1>2, <2>1 DEF ShownWith
  <2>2. CASE i = s
    <3>1. p.row.version = verification[s].version + 1 /\ version <= verification[s].version
      BY <1>1, <2>2 DEF ShownWith, MovingTrue
    <3>2. verification[s].version \in Nat
      BY <2>2 DEF ShownWith, StoresInv, StoresTyped, VerificationRow
    <3>3. version <= p.row.version /\ version # p.row.version
      BY <3>1, <3>2
    <3> QED BY <1>1, <1>2, <2>2, <3>3 DEF ShownWith
  <2> QED BY <2>1, <2>2
<1>7. SeenTrue'
  <2> SUFFICES ASSUME NEW a \in Administrators, seen[a] # NoStore
               PROVE  ShownWith(seen[a].store, seen[a].version, seen[a].evidence)'
    BY DEF SeenTrue
  <2>1. seen[a].store \in StoreIds /\ seen[a].version \in Nat
    BY DEF StoresInv, StoresTyped, SeenRow
  <2>2. ShownWith(seen[a].store, seen[a].version, seen[a].evidence)
    BY DEF StoresInv, SeenTrue
  <2> QED BY <1>6, <2>1, <2>2 DEF ShownWith
<1>8. ASSUME NEW o \in Submitters PROVE ProcessTrue(process[o])'
  <2>1. CASE o = q
    BY <1>3, <2>1 DEF ProcessTrue, Waiting
  <2>2. CASE o # q
    <3> PICK r \in ProcessRow : r = process[o]
      BY DEF StoresInv, StoresTyped
    <3>1. ProcessTrue(r) /\ process'[o] = r
      BY <1>3, <2>2 DEF StoresInv
    <3>2. r.at # "idle" => r.store \in StoreIds /\ store'[r.store] # NoStore
      BY <3>1 DEF ProcessTrue, Submission
    <3>3. r.at = "moving" => r.store # s
      BY <2>2 DEF StoresInv, HeldOnce
    <3>4. ASSUME r.at = "writing"
          PROVE  /\ r.before \in VerificationRow /\ verification'[r.store] # NoStore
                 /\ r.op = "submit" => r.row.version = r.before.version + 1
                 /\ r.op = "in_review" => r.before.status \in {"submitted", "in_review"}
                 /\ r.op \in Decisions => ShownWith(r.store, r.before.version, r.shown)'
      <4>1. WritingTrue(r)
        BY <3>1, <3>4 DEF ProcessTrue
      <4>2. r.before.version \in Nat
        BY <4>1 DEF WritingTrue, VerificationRow
      <4>3. verification'[r.store] # NoStore
        BY <1>1, <1>2, <3>2, <3>4, <4>1 DEF WritingTrue
      <4>4. r.op \in Decisions => ShownWith(r.store, r.before.version, r.shown)'
        BY <1>6, <3>2, <3>4, <4>1, <4>2 DEF WritingTrue
      <4> QED BY <4>1, <4>3, <4>4 DEF WritingTrue
    <3>5. r.at = "writing" => WritingTrue(process[o])'
      BY <3>1, <3>4 DEF WritingTrue, ShownWith
    <3>6. r.at = "moving" => MovingTrue(process[o])'
      BY <1>2, <3>1, <3>2, <3>3 DEF ProcessTrue, MovingTrue
    <3> QED BY <3>1, <3>2, <3>5, <3>6 DEF ProcessTrue, Submission
  <2> QED BY <2>1, <2>2
<1>9. HeldOnce'
  BY <1>3 DEF StoresInv, HeldOnce, Waiting
<1> QED BY <1>4, <1>5, <1>7, <1>8, <1>9 DEF StoresInv

LEMMA MoveHolds ==
    ASSUME StoresInv, NEW q \in Submitters, MoveStore(q)
    PROVE  StoresInv'
<1> PICK p \in ProcessRow : p = process[q]
  BY DEF StoresInv, StoresTyped
<1>1. p.at = "moving" /\ p.op \in Ops \ {"in_review"} /\ Submission(p)
  BY DEF MoveStore, StoresInv, ProcessTrue, Submission
<1> PICK s \in StoreIds : s = p.store
  BY <1>1 DEF Submission
<1> DEFINE row == [status |-> Moves[p.op].status, verified |-> Moves[p.op].verified,
                   version |-> store[s].version + 1]
<1>2. /\ store' = [store EXCEPT ![s] = row]
      /\ verification' = [verification EXCEPT ![s] = p.row]
      /\ process' = [process EXCEPT ![q] = Waiting] /\ seen' = seen
  BY DEF MoveStore, Fail
<1>3. \/ p.op = "submit" /\ row.status = "pending_review" /\ row.verified = "pending"
      \/ p.op = "approved" /\ row.status = "active" /\ row.verified = "verified"
      \/ p.op = "rejected" /\ row.status = "draft" /\ row.verified = "rejected"
  BY <1>1 DEF Ops, Moves
<1>4. row \in StoreRow
  <2>1. store[s].version + 1 \in Nat
    BY <1>1 DEF Submission, StoresInv, StoresTyped, StoreRow
  <2> QED BY <1>3, <2>1 DEF StoreRow, StoreStatus, VerificationStatus
<1> HIDE DEF row
<1>5. row # NoStore /\ p.row # NoStore /\ p.row.status = StatusOf(p.op)
  BY <1>1, <1>4, NoStoreAssumption DEF Submission
<1>6. /\ store'[s] = row /\ \A i \in StoreIds : i # s => store'[i] = store[i]
      /\ store' \in [StoreIds -> StoreRow \cup {NoStore}]
      /\ verification'[s] = p.row
  BY <1>2, <1>4 DEF StoresInv, StoresTyped
<1>7. Story(s)'
  BY <1>3, <1>5, <1>6 DEF Story, StatusOf
<1> QED BY <1>1, <1>2, <1>5, <1>6, <1>7, SubmissionCommits

LEMMA CommitReviewHolds ==
    ASSUME StoresInv, NEW q \in Submitters, CommitReview(q)
    PROVE  StoresInv'
<1> PICK p \in ProcessRow : p = process[q]
  BY DEF StoresInv, StoresTyped
<1>1. p.at = "moving" /\ p.op = "in_review" /\ Submission(p) /\ MovingTrue(p)
  BY DEF CommitReview, StoresInv, ProcessTrue
<1> PICK s \in StoreIds : s = p.store
  BY <1>1 DEF Submission
<1>2. /\ verification' = [verification EXCEPT ![s] = p.row]
      /\ process' = [process EXCEPT ![q] = Waiting] /\ seen' = seen /\ store' = store
  BY DEF CommitReview, Fail
<1>3. p.row # NoStore /\ p.row.status = "in_review" /\ store[s] # NoStore
  BY <1>1, NoStoreAssumption DEF Submission, StatusOf
<1>4. verification'[s] = p.row
  BY <1>2 DEF StoresInv, StoresTyped
<1>5. verification[s] # NoStore /\ verification[s].status \in {"submitted", "in_review"} /\ Story(s)
  BY <1>1 DEF MovingTrue, StoresInv
<1>6. Story(s)'
  BY <1>2, <1>3, <1>4, <1>5 DEF Story
<1> QED BY <1>1, <1>2, <1>3, <1>6, SubmissionCommits DEF StoresInv, StoresTyped

LEMMA LookHolds ==
    ASSUME StoresInv, NEW a \in Administrators, NEW s \in StoreIds, Look(a, s)
    PROVE  StoresInv'
<1> PICK current \in VerificationRow : current = verification[s]
  BY DEF Look, StoresInv, StoresTyped
<1> DEFINE v == [store |-> s, evidence |-> current.evidence, version |-> current.version]
<1>1. v \in SeenRow /\ v.store = s /\ v.evidence = current.evidence /\ v.version = current.version
  BY DEF SeenRow, VerificationRow
<1>2. /\ seen' = [seen EXCEPT ![a] = v] /\ verification[s] # NoStore
      /\ store' = store /\ verification' = verification /\ process' = process
  BY DEF Look
<1> HIDE DEF v
<1>3. seen'[a] = v /\ \A b \in Administrators : b # a => seen'[b] = seen[b]
  BY <1>2 DEF StoresInv, StoresTyped
<1>4. StoresTyped'
  BY <1>1, <1>2 DEF StoresInv, StoresTyped
<1>5. SeenTrue'
  <2>1. current.version \in Nat
    BY DEF VerificationRow
  <2> QED BY <1>1, <1>2, <1>3, <2>1 DEF StoresInv, SeenTrue, ShownWith
<1>6. (\A i \in StoreIds : Story(i)') /\ HeldOnce'
  BY <1>2 DEF StoresInv, Story, HeldOnce
<1>7. \A o \in Submitters : ProcessTrue(process[o])'
  BY <1>2 DEF StoresInv, ProcessTrue, Submission, WritingTrue, MovingTrue, ShownWith
<1> QED BY <1>4, <1>5, <1>6, <1>7 DEF StoresInv

THEOREM StoresInductive == StoresSpec => []StoresInv
<1>1. StoresInit => StoresInv
  <2> SUFFICES ASSUME StoresInit PROVE StoresInv
    OBVIOUS
  <2>1. StoresTyped
    BY WaitingTrue DEF StoresInit, StoresTyped
  <2>2. (\A s \in StoreIds : Story(s)) /\ SeenTrue
    BY DEF StoresInit, Story, SeenTrue
  <2>3. \A q \in Submitters : ProcessTrue(process[q]) /\ process[q].at = "idle"
    BY WaitingTrue DEF StoresInit
  <2> QED BY <2>1, <2>2, <2>3 DEF StoresInv, HeldOnce
<1>2. StoresInv /\ [StoresNext]_storeVars => StoresInv'
  <2> SUFFICES ASSUME StoresInv, [StoresNext]_storeVars PROVE StoresInv'
    OBVIOUS
  <2>1. ASSUME NEW s \in StoreIds, CreateStore(s) PROVE StoresInv'
    BY <2>1, CreateHolds
  <2>2. ASSUME NEW s \in StoreIds, CloseStore(s) PROVE StoresInv'
    BY <2>2, CloseHolds
  <2>3. ASSUME NEW s \in StoreIds, NEW v \in 1..MaxEdited, UpdateStore(s, v) PROVE StoresInv'
    BY <2>3, UpdateHolds
  <2>4. ASSUME NEW s \in StoreIds, NEW a \in Administrators, Look(a, s) PROVE StoresInv'
    BY <2>4, LookHolds
  <2>5. ASSUME NEW s \in StoreIds, NEW q \in Submitters, NEW e \in Evidence, BeginSubmit(q, s, e)
        PROVE  StoresInv'
    BY <2>5, BeginSubmitHolds
  <2>6. ASSUME NEW q \in Submitters, ReadVerification(q) PROVE StoresInv'
    BY <2>6, ReadHolds
  <2>7. ASSUME NEW q \in Submitters, AddVerification(q) PROVE StoresInv'
    BY <2>7, AddHolds
  <2>8. ASSUME NEW q \in Submitters, WriteVerification(q) PROVE StoresInv'
    BY <2>8, WriteHolds
  <2>9. ASSUME NEW q \in Submitters, MoveStore(q) PROVE StoresInv'
    BY <2>9, MoveHolds
  <2>10. ASSUME NEW q \in Submitters, CommitReview(q) PROVE StoresInv'
    BY <2>10, CommitReviewHolds
  <2>11. ASSUME NEW q \in Submitters, Undone(q) PROVE StoresInv'
    BY <2>11, RequestEnds DEF Undone, Fail
  <2>12. ASSUME NEW q \in Submitters, NEW a \in Administrators, Review(q, a) \/ Approve(q, a) \/ Reject(q, a)
         PROVE  StoresInv'
    BY <2>12, DecideHolds DEF Review, Approve, Reject, Ops
  <2>13. CASE UNCHANGED storeVars
    BY <2>13, StoreChanges DEF StoresInv, StoresTyped, Story, storeVars
  <2> QED
    BY <2>1, <2>2, <2>3, <2>4, <2>5, <2>6, <2>7, <2>8, <2>9, <2>10, <2>11, <2>12, <2>13 DEF StoresNext
<1> QED BY <1>1, <1>2, PTL DEF StoresSpec

\* The rows of a store and of its verification tell the same story.
THEOREM RowsAgreeHolds == StoresSpec => []RowsAgree
<1>1. StoresInv => RowsAgree
  BY DEF StoresInv, Story, RowsAgree, StoresTyped, StoreRow, StoreStatus
<1> QED BY <1>1, StoresInductive, PTL

\* No evidence is approved or rejected that the administrator was not shown.
THEOREM DecidedAsShownHolds == StoresSpec => []DecidedAsShown
<1>1. StoresInv => DecidedAsShown
  BY DEF StoresInv, ProcessTrue, MovingTrue, Decisions, DecidedAsShown
<1> QED BY <1>1, StoresInductive, PTL

-----------------------------------------------------------------------------
(* Memberships.  A removal covers every row of the user up to the newest;  *)
(* what it must not leave behind is an open invitation.  None is left,     *)
(* because a user has one pending row and one live row at most, and a      *)
(* pending row beside a live one was inserted after the live one had been  *)
(* accepted behind its back.                                               *)

PendingRow(m) == member[m] # NoMember /\ member[m].status = "pending"
LiveRow(m) == member[m] # NoMember /\ member[m].status \in LiveStatuses

OnePending ==
    \A m, p \in MemberIds :
        PendingRow(m) /\ PendingRow(p) /\ member[m].user = member[p].user => m = p

OneLive ==
    \A m, p \in MemberIds :
        LiveRow(m) /\ LiveRow(p) /\ member[m].user = member[p].user => m = p

PendingBesideLive ==
    \A m, p \in MemberIds :
        LiveRow(m) /\ PendingRow(p) /\ member[m].user = member[p].user => member[p].crossed

OpenIsNewer ==
    \A m \in MemberIds :
        (PendingRow(m) \/ LiveRow(m)) /\ ~member[m].crossed => m > removedUpTo[member[m].user]

Used == {m \in MemberIds : member[m] # NoMember}

MembersTyped ==
    /\ member \in [MemberIds -> {NoMember} \cup MemberRow]
    /\ removedUpTo \in [People -> Nat]
    /\ \E k \in Nat : Used = 1..k /\ \A u \in People : removedUpTo[u] <= k
    /\ visit = [v \in Visitors |-> visit[v]]
    /\ \A v \in Visitors :
          visit[v] # NoMember => /\ visit[v].op = "invite" => /\ visit[v].user \in People
                                                             /\ visit[v].clear
                                                             /\ visit[v].expires \subseteq Used
                                 /\ visit[v].op = "accept" => visit[v].row \in Used

MembersInv ==
    /\ MembersTyped
    /\ OnePending
    /\ OneLive
    /\ PendingBesideLive
    /\ OpenIsNewer

\* Rows are numbered without gaps.
LEMMA NewestUsed ==
    ASSUME NEW k \in Nat, Used = 1..k
    PROVE  Newest = k
<1>1. MemberIds \ Unused = Used
  BY DEF Unused, Used
<1>2. Cardinality(1..k) = k
  BY FS_Interval
<1> QED BY <1>1, <1>2 DEF Newest

Statuses == {"pending", "active", "declined", "suspended", "removed", "expired"}

ChangedTo(old, status) == [old EXCEPT !.status = status, !.version = @ + 1]

LEMMA RowChanged ==
    ASSUME NEW old \in MemberRow, NEW status \in Statuses
    PROVE  /\ ChangedTo(old, status) \in MemberRow /\ ChangedTo(old, status) # NoMember
           /\ ChangedTo(old, status).status = status
           /\ ChangedTo(old, status).user = old.user
           /\ ChangedTo(old, status).crossed = old.crossed
<1>1. old.version + 1 \in Nat
  BY DEF MemberRow
<1>2. ChangedTo(old, status) \in MemberRow
  BY <1>1 DEF MemberRow, Statuses, ChangedTo
<1>3. /\ ChangedTo(old, status).status = status /\ ChangedTo(old, status).user = old.user
      /\ ChangedTo(old, status).crossed = old.crossed
  BY DEF MemberRow, ChangedTo
<1> QED BY <1>2, <1>3, MembersAssumption

\* What a change of a row's status writes.
LEMMA MemberRowChanged ==
    ASSUME MembersTyped, NEW m \in MemberIds, member[m] # NoMember, NEW status, Changed(m, status),
           status \in Statuses
    PROVE  /\ member' \in [MemberIds -> {NoMember} \cup MemberRow]
           /\ member'[m] # NoMember /\ member'[m].status = status
           /\ member'[m].user = member[m].user /\ member'[m].crossed = member[m].crossed
           /\ \A i \in MemberIds : i # m => member'[i] = member[i]
           /\ Used' = Used
<1> DEFINE row == ChangedTo(member[m], status)
<1>1. member[m] \in MemberRow
  BY DEF MembersTyped
<1>4. member' = [member EXCEPT ![m] = row]
  BY DEF Changed, ChangedTo
<1>3. /\ row \in MemberRow /\ row # NoMember
      /\ row.status = status /\ row.user = member[m].user /\ row.crossed = member[m].crossed
  BY <1>1, RowChanged
<1> HIDE DEF row
<1>5. /\ member'[m] = row /\ row # NoMember
      /\ \A i \in MemberIds : i # m => member'[i] = member[i]
      /\ member' \in [MemberIds -> {NoMember} \cup MemberRow]
  BY <1>3, <1>4 DEF MembersTyped
<1>6. Used' = Used
  BY <1>5 DEF Used
<1> QED BY <1>3, <1>5, <1>6

\* The user and the history of a row never change, and the row does not open.
NoneOpens ==
    \A i \in MemberIds :
        /\ PendingRow(i)' => PendingRow(i)
        /\ LiveRow(i)' => LiveRow(i)
        /\ PendingRow(i)' \/ LiveRow(i)' =>
               member'[i].user = member[i].user /\ member'[i].crossed = member[i].crossed

LEMMA NoRowOpens ==
    ASSUME MembersInv, MembersTyped', NoneOpens, removedUpTo' = removedUpTo
    PROVE  MembersInv'
<1> USE DEF MembersInv, NoneOpens
<1>1. OnePending'
  BY DEF OnePending
<1>2. OneLive'
  BY DEF OneLive
<1>3. PendingBesideLive'
  BY DEF PendingBesideLive
<1>4. OpenIsNewer'
  BY DEF OpenIsNewer
<1> QED BY <1>1, <1>2, <1>3, <1>4

LEMMA StatusKeptOpen ==
    ASSUME MembersInv, NEW m \in MemberIds, member[m] # NoMember, NEW status, Changed(m, status),
           status \in Statuses,
           status = "pending" => PendingRow(m), status \in LiveStatuses => LiveRow(m),
           visit' = visit, removedUpTo' = removedUpTo
    PROVE  MembersInv'
<1>1. /\ member' \in [MemberIds -> {NoMember} \cup MemberRow]
      /\ member'[m] # NoMember /\ member'[m].status = status
      /\ member'[m].user = member[m].user /\ member'[m].crossed = member[m].crossed
      /\ \A i \in MemberIds : i # m => member'[i] = member[i]
      /\ Used' = Used
  BY MemberRowChanged DEF MembersInv
<1>2. MembersTyped'
  BY <1>1 DEF MembersInv, MembersTyped
<1>3. NoneOpens
  <2> USE DEF NoneOpens
  <2> TAKE i \in MemberIds
  <2>1. CASE i = m
    BY <1>1, <2>1 DEF PendingRow, LiveRow
  <2>2. CASE i # m
    BY <1>1, <2>2 DEF PendingRow, LiveRow
  <2> QED BY <2>1, <2>2
<1> QED BY <1>2, <1>3, NoRowOpens

LEMMA ListHolds ==
    ASSUME MembersInv, ListMembers
    PROVE  MembersInv'
<1>1. \A i \in MemberIds : i \notin Expiring => member'[i] = member[i]
  BY DEF ListMembers
<1>2. \A i \in Expiring : i \in MemberIds /\ member[i] # NoMember
  BY DEF Expiring, Expired
<1>3. \A i \in Expiring : /\ member'[i] \in MemberRow /\ member'[i] # NoMember
                          /\ member'[i].status = "expired"
  <2> TAKE i \in Expiring
  <2>1. member'[i] = ChangedTo(member[i], "expired")
    BY <1>2 DEF ListMembers, ChangedTo
  <2>2. member[i] \in MemberRow /\ "expired" \in Statuses
    BY <1>2 DEF MembersInv, MembersTyped, Statuses
  <2> QED BY <2>1, <2>2, RowChanged
<1>4. member' = [i \in MemberIds |-> member'[i]]
  BY DEF ListMembers
<1>5. member' \in [MemberIds -> {NoMember} \cup MemberRow] /\ Used' = Used
  <2>1. \A i \in MemberIds : member'[i] \in {NoMember} \cup MemberRow
    BY <1>1, <1>3 DEF MembersInv, MembersTyped
  <2>2. \A i \in MemberIds : member'[i] = NoMember <=> member[i] = NoMember
    BY <1>1, <1>2, <1>3
  <2> QED BY <1>4, <2>1, <2>2 DEF Used
<1>6. MembersTyped'
  BY <1>5 DEF MembersInv, MembersTyped, ListMembers
<1>7. NoneOpens
  BY <1>1, <1>3 DEF NoneOpens, PendingRow, LiveRow, LiveStatuses
<1> QED BY <1>6, <1>7, NoRowOpens DEF ListMembers

LEMMA AcceptHolds ==
    ASSUME MembersInv, NEW v \in Visitors, Accept(v)
    PROVE  MembersInv'
<1> PICK m \in MemberIds : m = visit[v].row /\ member[m] # NoMember
  BY DEF Accept, MembersInv, MembersTyped, Used
<1>1. /\ member[m].status = "pending" /\ RowsOf(member[m].user, LiveStatuses) = {}
      /\ Changed(m, "active") /\ removedUpTo' = removedUpTo
      /\ visit' = [visit EXCEPT ![v] = NoMember]
  BY DEF Accept, Leave
<1>2. /\ member' \in [MemberIds -> {NoMember} \cup MemberRow]
      /\ member'[m] # NoMember /\ member'[m].status = "active"
      /\ member'[m].user = member[m].user /\ member'[m].crossed = member[m].crossed
      /\ \A i \in MemberIds : i # m => member'[i] = member[i]
      /\ Used' = Used
  <2>1. "active" \in Statuses /\ MembersTyped
    BY DEF Statuses, MembersInv
  <2> QED BY <1>1, <2>1, MemberRowChanged
<1>3. MembersTyped'
  <2>1. \A u \in Visitors : visit'[u] # NoMember => visit'[u] = visit[u]
    BY <1>1 DEF MembersInv, MembersTyped
  <2>2. visit' = [u \in Visitors |-> visit'[u]]
    BY <1>1 DEF MembersInv, MembersTyped
  <2> QED BY <1>1, <1>2, <2>1, <2>2 DEF MembersInv, MembersTyped
<1>4. /\ PendingRow(m) /\ ~PendingRow(m)' /\ LiveRow(m)'
      /\ \A i \in MemberIds : i # m => /\ PendingRow(i)' <=> PendingRow(i)
                                       /\ LiveRow(i)' <=> LiveRow(i)
  BY <1>1, <1>2 DEF PendingRow, LiveRow, LiveStatuses
<1>5. \A i \in MemberIds : LiveRow(i) => member[i].user # member[m].user
  BY <1>1 DEF RowsOf, LiveRow
<1>6. \A i \in MemberIds : member'[i].user = member[i].user /\ member'[i].crossed = member[i].crossed
  BY <1>2
<1>7. OnePending'
  BY <1>4, <1>6 DEF MembersInv, OnePending
<1>8. OneLive'
  BY <1>4, <1>5, <1>6 DEF MembersInv, OneLive
<1>9. PendingBesideLive'
  BY <1>4, <1>6 DEF MembersInv, PendingBesideLive, OnePending
<1>10. OpenIsNewer'
  BY <1>1, <1>4, <1>6 DEF MembersInv, OpenIsNewer
<1> QED BY <1>3, <1>7, <1>8, <1>9, <1>10 DEF MembersInv

LEMMA RemoveHolds ==
    ASSUME MembersInv, NEW m \in MemberIds, Remove(m)
    PROVE  MembersInv'
<1>1. /\ member[m] # NoMember /\ member[m].status \in OpenStatuses /\ Changed(m, "removed")
      /\ removedUpTo' = [removedUpTo EXCEPT ![member[m].user] =
                           IF member[m].status \in LiveStatuses THEN Newest ELSE @]
      /\ visit' = visit
  BY DEF Remove
<1>2. /\ member' \in [MemberIds -> {NoMember} \cup MemberRow]
      /\ member'[m] # NoMember /\ member'[m].status = "removed"
      /\ member'[m].user = member[m].user /\ member'[m].crossed = member[m].crossed
      /\ \A i \in MemberIds : i # m => member'[i] = member[i]
      /\ Used' = Used
  <2>1. "removed" \in Statuses /\ MembersTyped
    BY DEF Statuses, MembersInv
  <2> QED BY <1>1, <2>1, MemberRowChanged
<1>3. PICK k \in Nat : Used = 1..k /\ (\A u \in People : removedUpTo[u] <= k) /\ Newest = k
  BY NewestUsed DEF MembersInv, MembersTyped
<1>4. PICK u \in People : u = member[m].user
  BY <1>1 DEF MembersInv, MembersTyped, MemberRow
<1>5. /\ removedUpTo' \in [People -> Nat]
      /\ \A p \in People : p # u => removedUpTo'[p] = removedUpTo[p]
      /\ removedUpTo'[u] = IF member[m].status \in LiveStatuses THEN k ELSE removedUpTo[u]
  BY <1>1, <1>3, <1>4 DEF MembersInv, MembersTyped
<1>6. MembersTyped'
  BY <1>1, <1>2, <1>3, <1>5 DEF MembersInv, MembersTyped
<1>7. /\ ~PendingRow(m)' /\ ~LiveRow(m)'
      /\ \A i \in MemberIds : i # m => /\ PendingRow(i)' <=> PendingRow(i)
                                       /\ LiveRow(i)' <=> LiveRow(i)
  BY <1>2 DEF PendingRow, LiveRow, LiveStatuses
<1>8. \A i \in MemberIds : member'[i].user = member[i].user /\ member'[i].crossed = member[i].crossed
  BY <1>2
<1>9. OnePending' /\ OneLive' /\ PendingBesideLive'
  BY <1>7, <1>8 DEF MembersInv, OnePending, OneLive, PendingBesideLive
<1>10. OpenIsNewer'
  <2> SUFFICES ASSUME NEW i \in MemberIds, (PendingRow(i) \/ LiveRow(i))', ~member'[i].crossed
               PROVE  i > removedUpTo'[member'[i].user]
    BY DEF OpenIsNewer
  <2>1. i # m /\ (PendingRow(i) \/ LiveRow(i)) /\ ~member[i].crossed
    BY <1>7, <1>8
  <2>2. i > removedUpTo[member[i].user]
    BY <2>1 DEF MembersInv, OpenIsNewer
  <2>3. member[i].user \in People
    BY <2>1 DEF PendingRow, LiveRow, MembersInv, MembersTyped, MemberRow
  <2>4. CASE member[i].user # u
    BY <1>5, <1>8, <2>2, <2>3, <2>4
  <2>5. CASE member[i].user = u
    <3>1. ~LiveRow(m)
      BY <1>4, <2>1, <2>5 DEF MembersInv, OneLive, PendingBesideLive
    <3>2. member[m].status \notin LiveStatuses
      BY <1>1, <3>1 DEF LiveRow
    <3> QED BY <1>5, <1>8, <2>2, <2>5, <3>2
  <2> QED BY <2>4, <2>5
<1> QED BY <1>6, <1>9, <1>10 DEF MembersInv

LEMMA InviteHolds ==
    ASSUME MembersInv, NEW v \in Visitors, Invite(v)
    PROVE  MembersInv'
<1> DEFINE others == FindOpen(visit[v].user) \ visit[v].expires
<1>1. PICK k \in Nat : Used = 1..k /\ (\A p \in People : removedUpTo[p] <= k) /\ Newest = k
  BY NewestUsed DEF MembersInv, MembersTyped
<1>2. PICK u \in People : u = visit[v].user
  BY DEF Invite, MembersInv, MembersTyped
<1>3. PICK new : new = k + 1
  OBVIOUS
<1>4. new \in MemberIds /\ new \notin Used /\ Used \cup {new} = 1..(k + 1)
  <2>1. PICK n \in Nat : MemberIds = 1..n
    BY MembersAssumption, FS_CardinalityType
  <2>2. PICK i \in MemberIds : i \notin Used
    BY DEF Invite, Unused, Used
  <2>3. new <= n
    BY <1>1, <1>3, <2>1, <2>2
  <2> QED BY <1>1, <1>3, <2>1, <2>3
<1>5. visit[v].clear /\ visit[v].expires \subseteq Used
  BY DEF Invite, MembersInv, MembersTyped
<1>6. /\ \A i \in others : member[i].status # "pending"
      /\ member' = [i \in MemberIds |->
            IF i = new THEN [user |-> u, status |-> "pending", version |-> 1, crossed |-> others # {}]
            ELSE IF i \in visit[v].expires THEN ChangedTo(member[i], "expired")
            ELSE member[i]]
      /\ visit' = [visit EXCEPT ![v] = NoMember] /\ removedUpTo' = removedUpTo
  BY <1>1, <1>2, <1>3, <1>5 DEF Invite, Leave, ChangedTo
<1> HIDE DEF others
<1>7. /\ member'[new] \in MemberRow /\ member'[new] # NoMember
      /\ member'[new].user = u /\ member'[new].status = "pending"
      /\ member'[new].crossed <=> others # {}
  <2>1. member'[new] = [user |-> u, status |-> "pending", version |-> 1, crossed |-> others # {}]
    BY <1>4, <1>6
  <2>2. member'[new] \in MemberRow
    BY <2>1 DEF MemberRow
  <2>3. member'[new] # NoMember
    BY <2>2, MembersAssumption
  <2>4. member'[new].user = u /\ member'[new].status = "pending"
    BY <2>1
  <2>5. member'[new].crossed <=> others # {}
    <3>1. PICK b \in BOOLEAN : b <=> others # {}
      OBVIOUS
    <3>2. member'[new] = [user |-> u, status |-> "pending", version |-> 1, crossed |-> b]
      BY <2>1, <3>1
    <3>3. member'[new].crossed = b
      BY <3>2
    <3> QED BY <3>1, <3>3
  <2> QED BY <2>2, <2>3, <2>4, <2>5
<1>8. \A i \in MemberIds : i # new /\ i \notin visit[v].expires => member'[i] = member[i]
  BY <1>6
<1>9. ASSUME NEW i \in MemberIds, i # new, i \in visit[v].expires
      PROVE  member'[i] \in MemberRow /\ member'[i] # NoMember /\ member'[i].status = "expired"
  <2>1. member'[i] = ChangedTo(member[i], "expired")
    BY <1>6, <1>9
  <2>2. member[i] \in MemberRow /\ "expired" \in Statuses
    BY <1>5, <1>9 DEF MembersInv, MembersTyped, Used, Statuses
  <2> QED BY <2>1, <2>2, RowChanged
<1>10. member' \in [MemberIds -> {NoMember} \cup MemberRow] /\ Used' = Used \cup {new}
  <2>1. \A i \in MemberIds : member'[i] \in {NoMember} \cup MemberRow
    BY <1>7, <1>8, <1>9 DEF MembersInv, MembersTyped
  <2>2. \A i \in MemberIds : i # new => (member'[i] = NoMember <=> member[i] = NoMember)
    BY <1>5, <1>8, <1>9 DEF Used
  <2>3. member' = [i \in MemberIds |-> member'[i]]
    BY <1>6
  <2>4. \A i \in MemberIds : i \in Used' <=> i \in Used \cup {new}
    BY <1>7, <2>2 DEF Used
  <2>5. Used' \subseteq MemberIds /\ Used \subseteq MemberIds
    BY DEF Used
  <2> QED BY <1>4, <2>1, <2>3, <2>4, <2>5
<1>11. MembersTyped'
  <2>1. \E n \in Nat : Used' = 1..n /\ \A p \in People : removedUpTo'[p] <= n
    <3>1. k + 1 \in Nat /\ Used' = 1..(k + 1)
      BY <1>4, <1>10
    <3>2. \A p \in People : removedUpTo'[p] <= k + 1
      BY <1>1, <1>6 DEF MembersInv, MembersTyped
    <3> QED BY <3>1, <3>2
  <2>2. \A p \in Visitors : visit'[p] # NoMember => visit'[p] = visit[p]
    BY <1>6 DEF MembersInv, MembersTyped
  <2>3. visit' = [p \in Visitors |-> visit'[p]]
    BY <1>6 DEF MembersInv, MembersTyped
  <2>4. Used \subseteq Used'
    BY <1>10
  <2> HIDE DEF Used
  <2> QED BY <1>6, <1>10, <2>1, <2>2, <2>3, <2>4 DEF MembersInv, MembersTyped
<1>12. /\ PendingRow(new)' /\ ~LiveRow(new)'
       /\ \A i \in MemberIds : i # new /\ (PendingRow(i)' \/ LiveRow(i)') =>
             /\ i \notin visit[v].expires /\ member'[i] = member[i]
             /\ PendingRow(i)' <=> PendingRow(i)
             /\ LiveRow(i)' <=> LiveRow(i)
  BY <1>7, <1>8, <1>9 DEF PendingRow, LiveRow, LiveStatuses
<1>13. \A i \in MemberIds : i # new /\ member[i].user = u /\ (PendingRow(i)' \/ LiveRow(i)') => i \in others
  BY <1>2, <1>12 DEF others, FindOpen, RowsOf, OpenStatuses, PendingRow, LiveRow, LiveStatuses
<1>14. OnePending'
  <2>1. \A i \in MemberIds : i # new /\ PendingRow(i)' => member'[i].user # u
    BY <1>6, <1>12, <1>13 DEF PendingRow
  <2> QED BY <1>7, <1>12, <2>1 DEF MembersInv, OnePending
<1>15. OneLive'
  BY <1>12 DEF MembersInv, OneLive
<1>16. PendingBesideLive'
  BY <1>7, <1>12, <1>13 DEF MembersInv, PendingBesideLive
<1>17. OpenIsNewer'
  <2>1. new > removedUpTo'[u]
    BY <1>1, <1>3, <1>6 DEF MembersInv, MembersTyped
  <2> QED BY <1>6, <1>7, <1>12, <2>1 DEF MembersInv, OpenIsNewer
<1> QED BY <1>11, <1>14, <1>15, <1>16, <1>17 DEF MembersInv

LEMMA VisitBegins ==
    ASSUME MembersInv, NEW v \in Visitors, member' = member, removedUpTo' = removedUpTo,
           visit' = [visit EXCEPT ![v] = visit'[v]],
           visit'[v] # NoMember =>
             /\ visit'[v].op = "invite" => /\ visit'[v].user \in People /\ visit'[v].clear
                                           /\ visit'[v].expires \subseteq Used
             /\ visit'[v].op = "accept" => visit'[v].row \in Used
    PROVE  MembersInv'
<1>1. \A p \in Visitors : p # v => visit'[p] = visit[p]
  BY DEF MembersInv, MembersTyped
<1>2. visit' = [p \in Visitors |-> visit'[p]]
  BY DEF MembersInv, MembersTyped
<1>3. MembersTyped'
  BY <1>1, <1>2 DEF MembersInv, MembersTyped, Used
<1>4. NoneOpens
  BY DEF NoneOpens, PendingRow, LiveRow
<1> QED BY <1>3, <1>4, NoRowOpens

THEOREM MembersInductive == MembersSpec => []MembersInv
<1>1. MembersInit => MembersInv
  <2> SUFFICES ASSUME MembersInit PROVE MembersInv
    OBVIOUS
  <2>1. Used = 1..0 /\ \A u \in People : removedUpTo[u] <= 0
    BY DEF MembersInit, Used
  <2>2. MembersTyped
    BY <2>1 DEF MembersInit, MembersTyped
  <2>3. \A m \in MemberIds : ~PendingRow(m) /\ ~LiveRow(m)
    BY DEF MembersInit, PendingRow, LiveRow
  <2> QED BY <2>2, <2>3 DEF MembersInv, OnePending, OneLive, PendingBesideLive, OpenIsNewer
<1>2. MembersInv /\ [MembersNext]_memberVars => MembersInv'
  <2> SUFFICES ASSUME MembersInv, [MembersNext]_memberVars PROVE MembersInv'
    OBVIOUS
  <2>1. ASSUME NEW v \in Visitors, Invite(v) PROVE MembersInv'
    BY <2>1, InviteHolds
  <2>2. ASSUME NEW v \in Visitors, Accept(v) PROVE MembersInv'
    BY <2>2, AcceptHolds
  <2>3. ASSUME NEW v \in Visitors, Give(v) PROVE MembersInv'
    <3>1. visit'[v] = NoMember
      BY <2>3 DEF Give, Leave, MembersInv, MembersTyped
    <3> QED BY <2>3, <3>1, VisitBegins DEF Give, Leave
  <2>4. ASSUME NEW v \in Visitors, NEW u \in People, BeginInvite(v, u) PROVE MembersInv'
    <3>1. /\ visit'[v] = [op |-> "invite", user |-> u, row |-> 0, version |-> 0, expires |-> Expiring,
                          clear |-> RowsOf(u, OpenStatuses) \subseteq Expiring]
          /\ visit' = [visit EXCEPT ![v] = visit'[v]]
          /\ RowsOf(u, OpenStatuses) \subseteq Expiring
          /\ member' = member /\ removedUpTo' = removedUpTo
      BY <2>4 DEF BeginInvite, FindOpen, MembersInv, MembersTyped
    <3>2. Expiring \subseteq Used
      BY DEF Expiring, Expired, Used
    <3>3. /\ visit'[v].op = "invite" /\ visit'[v].user \in People /\ visit'[v].expires \subseteq Used
      BY <3>1, <3>2
    <3>4. visit'[v].clear
      <4>1. PICK b \in BOOLEAN : b <=> RowsOf(u, OpenStatuses) \subseteq Expiring
        OBVIOUS
      <4>2. visit'[v] = [op |-> "invite", user |-> u, row |-> 0, version |-> 0, expires |-> Expiring,
                         clear |-> b]
        BY <3>1, <4>1
      <4>3. visit'[v].clear = b
        BY <4>2
      <4> QED BY <3>1, <4>1, <4>3
    <3>5. /\ visit'[v].op = "invite" => /\ visit'[v].user \in People /\ visit'[v].clear
                                        /\ visit'[v].expires \subseteq Used
          /\ visit'[v].op = "accept" => visit'[v].row \in Used
      BY <3>3, <3>4
    <3> QED BY <3>1, <3>5, VisitBegins
  <2>5. ASSUME NEW v \in Visitors, NEW m \in MemberIds, BeginAccept(v, m) PROVE MembersInv'
    <3>1. /\ visit'[v] = [op |-> "accept", user |-> member[m].user, row |-> m,
                          version |-> member[m].version, expires |-> {}, clear |-> FALSE]
          /\ visit' = [visit EXCEPT ![v] = visit'[v]]
          /\ member' = member /\ removedUpTo' = removedUpTo
      BY <2>5 DEF BeginAccept, MembersInv, MembersTyped
    <3>2. m \in Used
      BY <2>5 DEF BeginAccept, Used
    <3> QED BY <3>1, <3>2, VisitBegins
  <2>6. ASSUME NEW m \in MemberIds, Decline(m) PROVE MembersInv'
    BY <2>6, StatusKeptOpen DEF Decline, Statuses, LiveStatuses
  <2>7. ASSUME NEW m \in MemberIds, Suspend(m) PROVE MembersInv'
    BY <2>7, StatusKeptOpen DEF Suspend, Statuses, LiveStatuses, LiveRow
  <2>8. ASSUME NEW m \in MemberIds, Reactivate(m) PROVE MembersInv'
    BY <2>8, StatusKeptOpen DEF Reactivate, Statuses, LiveStatuses, LiveRow
  <2>9. ASSUME NEW m \in MemberIds, UpdateRole(m) PROVE MembersInv'
    <3>1. member[m].status \in Statuses /\ Changed(m, member[m].status) /\ member[m] # NoMember
          /\ visit' = visit /\ removedUpTo' = removedUpTo
      BY <2>9 DEF UpdateRole, OpenStatuses, Statuses
    <3> QED BY <3>1, StatusKeptOpen DEF PendingRow, LiveRow
  <2>10. ASSUME NEW m \in MemberIds, Remove(m) PROVE MembersInv'
    BY <2>10, RemoveHolds
  <2>11. ASSUME member' = member, visit' = visit, removedUpTo' = removedUpTo PROVE MembersInv'
    <3>1. MembersTyped'
      BY <2>11 DEF MembersInv, MembersTyped, Used
    <3>2. NoneOpens
      BY <2>11 DEF NoneOpens, PendingRow, LiveRow
    <3> QED BY <2>11, <3>1, <3>2, NoRowOpens
  <2>12. ASSUME NEW m \in MemberIds, WeekPasses(m) PROVE MembersInv'
    BY <2>11, <2>12 DEF WeekPasses
  <2>13. ASSUME DeleteStore \/ UNCHANGED memberVars PROVE MembersInv'
    BY <2>11, <2>13 DEF DeleteStore, memberVars
  <2>14. ASSUME ListMembers PROVE MembersInv'
    BY <2>14, ListHolds
  <2> QED
    BY <2>1, <2>2, <2>3, <2>4, <2>5, <2>6, <2>7, <2>8, <2>9, <2>10, <2>12, <2>13, <2>14 DEF MembersNext
<1> QED BY <1>1, <1>2, PTL DEF MembersSpec

\* A removed member has access again only through an invitation made after the
\* removal, unless two invitations crossed.
THEOREM RemovalSticksHolds == MembersSpec => []RemovalSticks
<1>1. MembersInv => RemovalSticks
  BY DEF MembersInv, OpenIsNewer, RemovalSticks, LiveRow, LiveStatuses
<1> QED BY <1>1, MembersInductive, PTL

-----------------------------------------------------------------------------
(* Operating hours.  A request reads the rules after it has the lock of a  *)
(* day and a priority, so what it found free of overlaps stays so: whoever *)
(* else may write a rule of the scope in between would need the same lock. *)

\* A row is in the scope, and overlaps the rules, of its candidate.
LEMMA RowAsCandidate ==
    ASSUME NEW c, NEW n, NEW o
    PROVE  /\ SameScope(Row(c, n), o) <=> SameScope(c, o)
           /\ RulesOverlap(Row(c, n), o) <=> RulesOverlap(c, o)
BY DEF Row, RulesOverlap, PeriodsOverlap, SameScope

LEMMA OverlapSymmetric ==
    ASSUME NEW a, NEW b
    PROVE  (RulesOverlap(a, b) <=> RulesOverlap(b, a)) /\ (SameScope(a, b) <=> SameScope(b, a))
BY DEF RulesOverlap, PeriodsOverlap, SameScope

\* No live rule but the target of the request overlaps its candidate.
StillAccepted(q) ==
    \A i \in RuleIds \ {editing[q].target} :
        Live(i) /\ SameScope(rules[i], editing[q].candidate)
        => ~RulesOverlap(rules[i], editing[q].candidate)

ScopesLocked ==
    \A p, q \in Editors :
        p # q /\ editing[p] # NoRule /\ editing[q] # NoRule
        => ~SameScope(editing[p].candidate, editing[q].candidate)

HoursInv ==
    /\ rules = [i \in RuleIds |-> rules[i]]
    /\ editing = [q \in Editors |-> editing[q]]
    /\ NoOverlap
    /\ ScopesLocked
    /\ \A q \in Editors : editing[q] # NoRule => StillAccepted(q)

\* The row a request writes, at its target or under a new identifier.
LEMMA RuleWritten ==
    ASSUME HoursInv, NEW r \in Editors, editing[r] # NoRule, NEW k, NEW n,
           editing[r].target = k \/ editing[r].target = 0,
           rules' = [rules EXCEPT ![k] = Row(editing[r].candidate, n)],
           editing' = [editing EXCEPT ![r] = NoRule]
    PROVE  HoursInv'
<1> DEFINE c == editing[r].candidate
<1>1. \A i \in RuleIds : i # k => rules'[i] = rules[i]
  BY DEF HoursInv
<1>2. k \in RuleIds => rules'[k] = Row(c, n)
  BY DEF HoursInv
<1>3. editing'[r] = NoRule /\ \A q \in Editors : q # r => editing'[q] = editing[q]
  BY DEF HoursInv
<1>4. \A i \in RuleIds : i # k /\ Live(i) /\ SameScope(rules[i], c) => ~RulesOverlap(rules[i], c)
  <2>1. 0 \notin RuleIds
    BY RuleIdsAssumption
  <2> QED BY <2>1 DEF HoursInv, StillAccepted
<1>5. NoOverlap'
  <2> SUFFICES ASSUME NEW i \in RuleIds, NEW j \in RuleIds, i # j, Live(i)', Live(j)',
                      SameScope(rules'[i], rules'[j])
               PROVE  ~RulesOverlap(rules'[i], rules'[j])
    BY DEF NoOverlap
  <2>1. CASE i # k /\ j # k
    BY <1>1, <2>1 DEF HoursInv, NoOverlap, Live
  <2>2. CASE i = k
    <3>1. Live(j) /\ rules'[j] = rules[j] /\ rules'[i] = Row(c, n)
      BY <1>1, <1>2, <2>2 DEF Live
    <3>2. SameScope(rules[j], c) /\ j # k
      BY <2>2, <3>1, RowAsCandidate, OverlapSymmetric
    <3> QED BY <1>4, <3>1, <3>2, RowAsCandidate, OverlapSymmetric
  <2>3. CASE j = k
    <3>1. Live(i) /\ rules'[i] = rules[i] /\ rules'[j] = Row(c, n)
      BY <1>1, <1>2, <2>3 DEF Live
    <3>2. SameScope(rules[i], c) /\ i # k
      BY <2>3, <3>1, RowAsCandidate, OverlapSymmetric
    <3> QED BY <1>4, <3>1, <3>2, RowAsCandidate, OverlapSymmetric
  <2> QED BY <2>1, <2>2, <2>3
<1>6. ScopesLocked'
  BY <1>3 DEF HoursInv, ScopesLocked
<1>7. ASSUME NEW q \in Editors, editing'[q] # NoRule PROVE StillAccepted(q)'
  <2>1. q # r /\ editing'[q] = editing[q] /\ editing[q] # NoRule
    BY <1>3, <1>7
  <2> SUFFICES ASSUME NEW i \in RuleIds \ {editing[q].target}, Live(i)',
                      SameScope(rules'[i], editing[q].candidate)
               PROVE  ~RulesOverlap(rules'[i], editing[q].candidate)
    BY <2>1 DEF StillAccepted
  <2>2. CASE i # k
    BY <1>1, <2>1, <2>2 DEF HoursInv, StillAccepted, Live
  <2>3. CASE i = k
    <3>1. SameScope(c, editing[q].candidate)
      BY <1>2, <2>3, RowAsCandidate
    <3> QED BY <2>1, <3>1 DEF HoursInv, ScopesLocked
  <2> QED BY <2>2, <2>3
<1>8. rules' = [i \in RuleIds |-> rules'[i]] /\ editing' = [q \in Editors |-> editing'[q]]
  BY DEF HoursInv
<1> QED BY <1>5, <1>6, <1>7, <1>8 DEF HoursInv

\* Rules that only go, and requests that only end.
LEMMA RulesDwindle ==
    ASSUME HoursInv,
           rules' = [i \in RuleIds |-> rules'[i]], editing' = [q \in Editors |-> editing'[q]],
           \A i \in RuleIds : Live(i)' => rules'[i] = rules[i],
           \A q \in Editors : editing'[q] # NoRule => editing'[q] = editing[q]
    PROVE  HoursInv'
<1>1. NoOverlap'
  BY DEF HoursInv, NoOverlap, Live
<1>2. ScopesLocked'
  BY DEF HoursInv, ScopesLocked
<1>3. \A q \in Editors : editing'[q] # NoRule => StillAccepted(q)'
  BY DEF HoursInv, StillAccepted, Live
<1> QED BY <1>1, <1>2, <1>3 DEF HoursInv

LEMMA RequestBegins ==
    ASSUME HoursInv, NEW r \in Editors, NEW c, NEW target, NEW version, Begin(r, c, target, version)
    PROVE  HoursInv'
<1>1. /\ rules' = rules /\ LockFree(c) /\ Accepts(c, {target})
      /\ editing'[r] = [candidate |-> c, target |-> target, version |-> version]
      /\ \A q \in Editors : q # r => editing'[q] = editing[q]
      /\ editing' = [q \in Editors |-> editing'[q]]
  BY DEF Begin, HoursInv
<1>2. NoOverlap'
  BY <1>1 DEF HoursInv, NoOverlap, Live
<1>3. ScopesLocked'
  <2>1. \A q \in Editors : q # r /\ editing[q] # NoRule
          => ~SameScope(editing[q].candidate, c) /\ ~SameScope(c, editing[q].candidate)
    BY <1>1, OverlapSymmetric DEF LockFree
  <2> QED BY <1>1, <2>1 DEF HoursInv, ScopesLocked
<1>4. \A q \in Editors : editing'[q] # NoRule => StillAccepted(q)'
  BY <1>1 DEF HoursInv, StillAccepted, Live, Accepts
<1> QED BY <1>1, <1>2, <1>3, <1>4 DEF HoursInv

THEOREM HoursInductive == HoursSpec => []HoursInv
<1>1. HoursInit => HoursInv
  BY DEF HoursInit, HoursInv, NoOverlap, Live, ScopesLocked
<1>2. HoursInv /\ [HoursNext]_hoursVars => HoursInv'
  <2> SUFFICES ASSUME HoursInv, [HoursNext]_hoursVars PROVE HoursInv'
    OBVIOUS
  <2>1. ASSUME HoursTick \/ UNCHANGED hoursVars PROVE HoursInv'
    BY <2>1, RulesDwindle DEF HoursInv, HoursTick, hoursVars
  <2>2. ASSUME NEW r \in Editors, FinishCreate(r) PROVE HoursInv'
    BY <2>2, RuleWritten DEF FinishCreate
  <2>3. ASSUME NEW r \in Editors, FinishUpdate(r) PROVE HoursInv'
    <3> DEFINE i == editing[r].target
    <3>1. CASE Live(i) /\ rules[i].version = editing[r].version
      <4>1. rules' = [rules EXCEPT ![i] = Row(editing[r].candidate, rules[i].version + 1)]
        BY <2>3, <3>1 DEF FinishUpdate
      <4> QED BY <2>3, <4>1, RuleWritten DEF FinishUpdate
    <3>2. CASE ~(Live(i) /\ rules[i].version = editing[r].version)
      <4>1. rules' = rules /\ editing' = [editing EXCEPT ![r] = NoRule]
        BY <2>3, <3>2 DEF FinishUpdate
      <4> QED BY <4>1, RulesDwindle DEF HoursInv
    <3> QED BY <3>1, <3>2
  <2>4. ASSUME NEW r \in Editors, Abandon(r) PROVE HoursInv'
    BY <2>4, RulesDwindle DEF HoursInv, Abandon
  <2>5. ASSUME NEW r \in Editors, NEW c \in Candidates, BeginCreate(r, c) PROVE HoursInv'
    BY <2>5, RequestBegins DEF BeginCreate
  <2>6. ASSUME NEW r \in Editors, NEW i \in RuleIds, NEW c \in Candidates, BeginUpdate(r, i, c)
        PROVE  HoursInv'
    BY <2>6, RequestBegins DEF BeginUpdate
  <2>7. ASSUME NEW i \in RuleIds, Delete(i) PROVE HoursInv'
    <3>1. /\ rules'[i] = [rules[i] EXCEPT !.deleted = TRUE]
          /\ \A j \in RuleIds : j # i => rules'[j] = rules[j]
          /\ rules' = [j \in RuleIds |-> rules'[j]] /\ editing' = editing
      BY <2>7 DEF Delete, HoursInv
    <3> QED BY <2>7, <3>1, RulesDwindle DEF HoursInv, Delete, Live
  <2> QED
    BY <2>1, <2>2, <2>3, <2>4, <2>5, <2>6, <2>7 DEF HoursNext
<1> QED BY <1>1, <1>2, PTL DEF HoursSpec

\* Two live rules of a day and a priority never overlap, whatever requests add
\* and change rules at the same time.
THEOREM NoOverlapHolds == HoursSpec => []NoOverlap
<1>1. HoursInv => NoOverlap
  BY DEF HoursInv
<1> QED BY <1>1, HoursInductive, PTL

-----------------------------------------------------------------------------
(* The next opening and the next closing.  Only the rules that were        *)
(* validated when they were written are resolved.                          *)

\* What validation leaves of a rule.
RuleValid(c) ==
    /\ {c.from, c.until} \subseteq Nat \cup {NoTime}
    /\ c.from = NoTime <=> c.until = NoTime
    /\ {c.opens, c.closes} \subseteq Times \cup {NoTime}
    /\ c.isClosed \/ c.is24Hours \/ (c.opens \in Times /\ c.closes \in Times)

RulesValid ==
    /\ hoursNow \in Nat
    /\ rules = [i \in RuleIds |-> rules[i]] /\ editing = [q \in Editors |-> editing[q]]
    /\ \A i \in RuleIds : rules[i] # NoRule => RuleValid(rules[i])
    /\ \A q \in Editors : editing[q] # NoRule => RuleValid(editing[q].candidate)

THEOREM RulesStayValid == HoursSpec => []RulesValid
<1>1. HoursInit => RulesValid
  BY DEF HoursInit, RulesValid
<1>2. RulesValid /\ [HoursNext]_hoursVars => RulesValid'
  <2> SUFFICES ASSUME RulesValid, [HoursNext]_hoursVars PROVE RulesValid'
    OBVIOUS
  <2>1. ASSUME HoursTick \/ UNCHANGED hoursVars PROVE RulesValid'
    BY <2>1 DEF RulesValid, HoursTick, hoursVars
  <2>2. ASSUME NEW r \in Editors, editing[r] # NoRule, NEW k, NEW n,
               rules' = [rules EXCEPT ![k] = Row(editing[r].candidate, n)],
               editing' = [editing EXCEPT ![r] = NoRule], hoursNow' = hoursNow
        PROVE  RulesValid'
    <3> DEFINE row == Row(editing[r].candidate, n)
    <3>1. RuleValid(row)
      BY <2>2 DEF RulesValid, RuleValid, Row
    <3> HIDE DEF row
    <3>2. rules' = [rules EXCEPT ![k] = row]
      BY <2>2 DEF row
    <3>3. /\ \A i \in RuleIds : rules'[i] = rules[i] \/ rules'[i] = row
          /\ \A q \in Editors : editing'[q] = NoRule \/ editing'[q] = editing[q]
          /\ rules' = [i \in RuleIds |-> rules'[i]] /\ editing' = [q \in Editors |-> editing'[q]]
      BY <2>2, <3>2 DEF RulesValid
    <3> QED BY <2>2, <3>1, <3>3 DEF RulesValid
  <2>3. ASSUME NEW r \in Editors, FinishCreate(r) PROVE RulesValid'
    BY <2>2, <2>3 DEF FinishCreate
  <2>4. ASSUME NEW r \in Editors, FinishUpdate(r) PROVE RulesValid'
    <3> DEFINE i == editing[r].target
    <3>1. CASE Live(i) /\ rules[i].version = editing[r].version
      <4>1. rules' = [rules EXCEPT ![i] = Row(editing[r].candidate, rules[i].version + 1)]
        BY <2>4, <3>1 DEF FinishUpdate
      <4> QED BY <2>2, <2>4, <4>1 DEF FinishUpdate
    <3>2. CASE ~(Live(i) /\ rules[i].version = editing[r].version)
      <4>1. rules' = rules /\ editing' = [editing EXCEPT ![r] = NoRule] /\ hoursNow' = hoursNow
        BY <2>4, <3>2 DEF FinishUpdate
      <4> QED BY <4>1 DEF RulesValid
    <3> QED BY <3>1, <3>2
  <2>5. ASSUME NEW r \in Editors, Abandon(r) PROVE RulesValid'
    BY <2>5 DEF RulesValid, Abandon
  <2>6. ASSUME NEW r \in Editors, NEW c \in Candidates, NEW target, NEW version,
               Begin(r, c, target, version)
        PROVE  RulesValid'
    <3>1. RuleValid(c)
      BY <2>6, CalendarAssumption DEF Begin, Valid, ValidMode, ValidPeriod, RuleValid
    <3>2. /\ rules' = rules /\ hoursNow' = hoursNow
          /\ editing' = [q \in Editors |-> editing'[q]]
          /\ editing'[r].candidate = c /\ \A q \in Editors : q # r => editing'[q] = editing[q]
      BY <2>6 DEF Begin, RulesValid
    <3> QED BY <3>1, <3>2 DEF RulesValid
  <2>7. ASSUME NEW r \in Editors, NEW c \in Candidates, BeginCreate(r, c) PROVE RulesValid'
    BY <2>6, <2>7 DEF BeginCreate
  <2>8. ASSUME NEW r \in Editors, NEW i \in RuleIds, NEW c \in Candidates, BeginUpdate(r, i, c)
        PROVE  RulesValid'
    BY <2>6, <2>8 DEF BeginUpdate
  <2>9. ASSUME NEW i \in RuleIds, Delete(i) PROVE RulesValid'
    <3> DEFINE row == [rules[i] EXCEPT !.deleted = TRUE]
    <3>1. rules[i] # NoRule /\ RuleValid(rules[i])
      BY <2>9 DEF Delete, Live, RulesValid
    <3>2. RuleValid(row)
      BY <3>1 DEF RuleValid
    <3> HIDE DEF row
    <3>3. /\ rules'[i] = row /\ \A j \in RuleIds : j # i => rules'[j] = rules[j]
          /\ rules' = [j \in RuleIds |-> rules'[j]] /\ editing' = editing /\ hoursNow' = hoursNow
      BY <2>9 DEF Delete, RulesValid, row
    <3> QED BY <3>2, <3>3 DEF RulesValid
  <2> QED
    BY <2>1, <2>3, <2>4, <2>5, <2>7, <2>8, <2>9 DEF HoursNext
<1> QED BY <1>1, <1>2, PTL DEF HoursSpec

-----------------------------------------------------------------------------
(* Slots and days                                                            *)

\* Two slots that differ by less than the days between them are of one day.
LEMMA DayUnique ==
    ASSUME NEW S \in Nat \ {0}, NEW a \in Int, NEW b \in Int,
           NEW x \in 0..(S - 1), NEW y \in 0..(S - 1), S * a + x = S * b + y
    PROVE  a = b /\ x = y
<1>1. S * (a - b) = y - x
  OBVIOUS
<1>2. CASE a > b
  <2>1. PICK d \in Nat : d = a - b - 1
    BY <1>2
  <2>2. S * (a - b) = S * d + S /\ S * d >= 0
    BY <2>1
  <2> QED BY <1>1, <2>2
<1>3. CASE b > a
  <2>1. PICK d \in Nat : d = b - a - 1
    BY <1>3
  <2>2. S * (a - b) = -(S * d) - S /\ S * d >= 0
    BY <2>1
  <2> QED BY <1>1, <2>2
<1>4. CASE a = b
  BY <1>1, <1>4
<1> QED BY <1>2, <1>3, <1>4

\* The slot before one that does not begin a day is of the same day.
LEMMA SameDay ==
    ASSUME NEW t \in Nat, TimeOf(t) # 0
    PROVE  /\ t - 1 \in Nat /\ TimeOf(t) \in Times /\ TimeOf(t) \in Nat
           /\ (t - 1) \div SlotsPerDay = t \div SlotsPerDay
           /\ TimeOf(t - 1) = TimeOf(t) - 1
<1> DEFINE S == SlotsPerDay
           q == t \div S
           r == t % S
           p == (t - 1) \div S
           s == (t - 1) % S
<1>1. S \in Nat \ {0}
  BY CalendarAssumption
<1>2. q \in Nat /\ r \in 0..(S - 1) /\ t = S * q + r
  BY <1>1
<1>3. r # 0 /\ t # 0
  <2>1. r # 0
    BY DEF TimeOf
  <2> HIDE DEF S, q, r
  <2>2. S * q \in Nat
    BY <1>1, <1>2
  <2> QED BY <1>1, <1>2, <2>1, <2>2
<1>4. p \in Nat /\ s \in 0..(S - 1) /\ t - 1 = S * p + s
  BY <1>1, <1>3
<1>5. S * q + (r - 1) = S * p + s /\ r - 1 \in 0..(S - 1)
  <2> HIDE DEF S, q, r, p, s
  <2>1. S * q \in Int /\ S * p \in Int
    BY <1>1, <1>2, <1>4
  <2> QED BY <1>1, <1>2, <1>3, <1>4, <2>1
<1>6. q = p /\ r - 1 = s
  <2> HIDE DEF S, q, r, p, s
  <2> QED BY <1>1, <1>2, <1>4, <1>5, DayUnique
<1> QED BY <1>2, <1>3, <1>6 DEF TimeOf, Times

\* A slot of the days ahead is of a day that is looked at.
LEMMA DayAhead ==
    ASSUME RulesValid, NEW t \in Ahead
    PROVE  /\ t \in Nat /\ t > hoursNow /\ Today \in Nat
           /\ \E d \in Fortnight : t \div SlotsPerDay = Today + d
<1> DEFINE S == SlotsPerDay
           q == t \div S
           r == t % S
           D == 2 * DaysOfWeek
<1>1. S \in Nat \ {0} /\ D \in Nat /\ hoursNow \in Nat
  BY CalendarAssumption DEF RulesValid
<1>2. Today \in Nat /\ hoursNow >= S * Today
  BY <1>1 DEF Today
<1>3. t \in Nat /\ t > hoursNow /\ t <= (Today + D) * S
  BY <1>1, <1>2 DEF Ahead
<1>4. q \in Nat /\ r \in 0..(S - 1) /\ t = S * q + r
  BY <1>1, <1>3
<1> HIDE DEF S, q, r, D
<1>5. q >= Today
  <2> SUFFICES ASSUME q < Today PROVE FALSE
    BY <1>2, <1>4
  <2>1. PICK d \in Nat : Today = q + 1 + d
    BY <1>2, <1>4
  <2>2. S * Today = S * q + S + S * d /\ S * d >= 0
    BY <1>1, <1>4, <2>1
  <2> QED BY <1>1, <1>2, <1>3, <1>4, <2>2
<1>6. q <= Today + D
  <2> SUFFICES ASSUME q > Today + D PROVE FALSE
    BY <1>1, <1>2, <1>4
  <2>1. PICK d \in Nat : q = Today + D + 1 + d
    BY <1>1, <1>2, <1>4
  <2>2. S * q = (Today + D) * S + S + S * d /\ S * d >= 0
    BY <1>1, <1>2, <2>1
  <2> QED BY <1>1, <1>2, <1>3, <1>4, <2>2
<1>7. q - Today \in Fortnight /\ q = Today + (q - Today)
  BY <1>1, <1>2, <1>4, <1>5, <1>6 DEF Fortnight, D
<1> QED BY <1>2, <1>3, <1>7 DEF q, S

-----------------------------------------------------------------------------
(* Transitions                                                               *)

\* Between boundaries, and within a day, the store stays as it is.
LEMMA OnlyBoundariesMatter ==
    ASSUME RulesValid, NEW t \in Ahead, ~Midnight(t), t \notin Boundaries
    PROVE  OpenAt(t) <=> OpenAt(t - 1)
<1>1. /\ t \in Nat /\ t > hoursNow /\ Today \in Nat
      /\ \E d \in Fortnight : t \div SlotsPerDay = Today + d
  BY DayAhead
<1>2. /\ t - 1 \in Nat /\ TimeOf(t) \in Times /\ TimeOf(t) \in Nat
      /\ (t - 1) \div SlotsPerDay = t \div SlotsPerDay
      /\ TimeOf(t - 1) = TimeOf(t) - 1
  BY <1>1, SameDay DEF Midnight
<1>3. \A i \in Known : t \notin Daily(i) /\ t \notin Once(i)
  BY <1>1 DEF Boundaries
<1>4. \A i \in Known : i \in RuleIds /\ rules[i] # NoRule /\ RuleValid(rules[i])
  BY DEF Known, Unexpired, Live, RulesValid
<1>5. DayOf(t) = DayOf(t - 1)
  BY <1>2 DEF DayOf
<1>6. ASSUME NEW i \in Known PROVE Effective(i, t) <=> Effective(i, t - 1)
  <2>1. /\ rules[i].from \in Nat \cup {NoTime} /\ rules[i].until \in Nat \cup {NoTime}
        /\ rules[i].from = NoTime <=> rules[i].until = NoTime
    BY <1>4 DEF RuleValid
  <2>2. t \notin {rules[i].from, rules[i].until} \ {NoTime}
    BY <1>3 DEF Once
  <2>3. CASE rules[i].from # NoTime
    <3>1. /\ rules[i].from \in Nat /\ rules[i].until \in Nat
          /\ t # rules[i].from /\ t # rules[i].until
      BY <2>1, <2>2, <2>3
    <3> QED BY <1>1, <1>2, <2>3, <3>1 DEF Effective
  <2>4. CASE rules[i].from = NoTime
    BY <2>4 DEF Effective
  <2> QED BY <2>3, <2>4
<1>7. Resolve(t) = Resolve(t - 1)
  <2>1. {i \in Known : rules[i].day = DayOf(t) /\ Effective(i, t)}
          = {i \in Known : rules[i].day = DayOf(t - 1) /\ Effective(i, t - 1)}
    BY <1>5, <1>6
  <2> QED BY <2>1 DEF Resolve
<1>8. ASSUME NEW i \in Resolve(t)
      PROVE  /\ i \in Known /\ rules[i].day = DayOf(t)
             /\ ~rules[i].isClosed /\ ~rules[i].is24Hours =>
                  /\ rules[i].opens \in Nat /\ rules[i].closes \in Nat
                  /\ TimeOf(t) # rules[i].opens /\ TimeOf(t) # rules[i].closes
  <2>1. i \in Known /\ rules[i].day = DayOf(t)
    BY DEF Resolve
  <2>2. PICK d \in Dates(i) : t \div SlotsPerDay = Today + d
    <3>1. PICK d \in Fortnight : t \div SlotsPerDay = Today + d
      BY <1>1
    <3>2. d \in Dates(i)
      BY <2>1, <3>1 DEF Dates, DayOf
    <3> QED BY <3>1, <3>2
  <2>3. t = (Today + d) * SlotsPerDay + TimeOf(t)
    <3>1. SlotsPerDay \in Nat \ {0}
      BY CalendarAssumption
    <3>2. t = SlotsPerDay * (t \div SlotsPerDay) + (t % SlotsPerDay)
      BY <1>1, <3>1
    <3>3. t = SlotsPerDay * (Today + d) + TimeOf(t)
      BY <2>2, <3>2 DEF TimeOf
    <3>4. Today + d \in Nat
      BY <1>1, <2>2 DEF Dates, Fortnight
    <3> QED BY <1>2, <3>1, <3>3, <3>4
  <2>4. TimeOf(t) \notin {rules[i].opens, rules[i].closes} \ {NoTime}
    BY <1>3, <2>1, <2>2, <2>3 DEF Daily
  <2>5. TimeOf(t) # NoTime
    BY <1>2, CalendarAssumption
  <2>6. ~rules[i].isClosed /\ ~rules[i].is24Hours =>
           rules[i].opens \in Nat /\ rules[i].closes \in Nat
    BY <1>4, <2>1, CalendarAssumption DEF RuleValid, Times
  <2> QED BY <2>1, <2>4, <2>5, <2>6
<1>9. ASSUME NEW i \in Resolve(t)
      PROVE  (/\ ~rules[i].isClosed
              /\ rules[i].is24Hours \/ (rules[i].opens <= TimeOf(t) /\ TimeOf(t) < rules[i].closes))
             <=> (/\ ~rules[i].isClosed
                  /\ rules[i].is24Hours \/ (/\ rules[i].opens <= TimeOf(t - 1)
                                            /\ TimeOf(t - 1) < rules[i].closes))
  <2>1. CASE rules[i].isClosed \/ rules[i].is24Hours
    BY <2>1
  <2>2. CASE ~rules[i].isClosed /\ ~rules[i].is24Hours
    BY <1>2, <1>8, <2>2
  <2> QED BY <2>1, <2>2
<1> QED BY <1>7, <1>9 DEF OpenAt

LEMMA LeastMember ==
    ASSUME NEW S \in SUBSET Nat, S # {}
    PROVE  Least(S) \in S /\ \A y \in S : Least(S) <= y
<1>1. IsWellFoundedOn(OpToRel(<, Nat), Nat)
  BY NatLessThanWellFounded
<1>2. PICK x \in S : \A y \in S : ~ (<<y, x>> \in OpToRel(<, Nat))
  BY <1>1, WFMin
<1>3. \A y \in S : x <= y
  <2> SUFFICES ASSUME NEW y \in S, y < x PROVE FALSE
    OBVIOUS
  <2>1. <<y, x>> \in OpToRel(<, Nat)
    BY DEF OpToRel
  <2> QED BY <1>2, <2>1
<1> QED BY <1>3 DEF Least

\* Boundaries are instants to come.
LEMMA BoundariesAreLater ==
    ASSUME RulesValid
    PROVE  Boundaries \in SUBSET Nat /\ \A t \in Boundaries : t > hoursNow
<1> SUFFICES ASSUME NEW t \in Boundaries PROVE t \in Nat /\ t > hoursNow
  OBVIOUS
<1>1. PICK i \in Known : t \in Daily(i) \cup Once(i)
  BY DEF Boundaries
<1>2. t > hoursNow
  BY DEF Boundaries
<1>3. i \in RuleIds /\ rules[i] # NoRule /\ RuleValid(rules[i])
  BY DEF Known, Unexpired, Live, RulesValid
<1>4. CASE t \in Once(i)
  BY <1>2, <1>3, <1>4 DEF Once, RuleValid
<1>5. CASE t \in Daily(i)
  <2>1. PICK d \in Dates(i), time \in {rules[i].opens, rules[i].closes} \ {NoTime} :
           t = (Today + d) * SlotsPerDay + time
    BY <1>5 DEF Daily
  <2>2. time \in Nat
    BY <1>3, <2>1 DEF RuleValid, Times
  <2>3. SlotsPerDay \in Nat /\ Today \in Nat /\ Today + d \in Nat
    <3>1. hoursNow \in Nat /\ SlotsPerDay \in Nat \ {0}
      BY CalendarAssumption DEF RulesValid
    <3>2. Today \in Nat
      BY <3>1 DEF Today
    <3> QED BY <2>1, <3>1, <3>2 DEF Dates, Fortnight
  <2>4. (Today + d) * SlotsPerDay \in Nat
    BY <2>3
  <2> QED BY <1>2, <2>1, <2>2, <2>4
<1> QED BY <1>1, <1>4, <1>5

\* Of the boundaries at which the store does something, the first is the first
\* instant ahead at which it does, when it never does so at midnight.
LEMMA FirstBoundary ==
    ASSUME RulesValid, NEW S \in SUBSET Int,
           \A t \in S \cap Ahead : ~Midnight(t) => t \in Boundaries,
           \A t \in S \cap Ahead : ~Midnight(t)
    PROVE  FirstOf(EarliestOf(S \cap Boundaries), S \cap Ahead)
<1> DEFINE found == S \cap Boundaries
           instants == S \cap Ahead
<1>1. found \in SUBSET Nat /\ \A t \in found : t > hoursNow
  BY BoundariesAreLater
<1>2. instants \in SUBSET Nat /\ instants \subseteq found
  BY DayAhead
<1>3. CASE instants = {}
  <2>1. CASE found = {}
    BY <1>3, <2>1, CalendarAssumption DEF FirstOf, EarliestOf, Ahead
  <2>2. CASE found # {}
    <3>1. Least(found) \in found
      BY <1>1, <2>2, LeastMember
    <3>2. Least(found) \notin Ahead
      BY <1>3, <3>1
    <3> QED BY <1>3, <2>2, <3>2 DEF FirstOf, EarliestOf
  <2> QED BY <2>1, <2>2
<1>4. CASE instants # {}
  <2>1. Least(instants) \in instants /\ Least(instants) \in Nat
        /\ \A y \in instants : Least(instants) <= y
    BY <1>2, <1>4, LeastMember
  <2>2. found # {} /\ Least(found) \in found /\ Least(found) \in Nat
        /\ \A y \in found : Least(found) <= y
    BY <1>1, <1>2, <1>4, LeastMember
  <2>3. Least(found) <= Least(instants) /\ Least(found) > hoursNow
    BY <1>1, <1>2, <2>1, <2>2
  <2>4. Least(found) \in Ahead
    <3>1. hoursNow \in Nat /\ SlotsPerDay \in Nat \ {0} /\ DaysOfWeek \in Nat
      BY CalendarAssumption DEF RulesValid
    <3>2. Today \in Nat
      BY <3>1 DEF Today
    <3>3. (Today + 2 * DaysOfWeek) * SlotsPerDay \in Nat
      BY <3>1, <3>2
    <3>4. Least(instants) \in (hoursNow + 1)..((Today + 2 * DaysOfWeek) * SlotsPerDay)
      BY <2>1 DEF Ahead
    <3> QED BY <2>2, <2>3, <3>1, <3>3, <3>4 DEF Ahead
  <2>5. Least(found) = Least(instants)
    BY <2>1, <2>2, <2>3, <2>4
  <2> QED BY <1>4, <2>2, <2>5 DEF FirstOf, EarliestOf
<1> QED BY <1>3, <1>4

\* The next opening and the next closing of the status are the first that the
\* rules bring about, unless one comes with the change of the day.
THEOREM TransitionsExactHolds == HoursSpec => []TransitionsExact
<1>1. RulesValid => TransitionsExact
  <2> SUFFICES ASSUME RulesValid PROVE TransitionsExact
    OBVIOUS
  <2> DEFINE AtOpening == {t \in Int : Opens(t)}
             AtClosing == {t \in Int : Closes(t)}
  <2>1. Ahead \subseteq Int /\ Boundaries \subseteq Int
    BY BoundariesAreLater DEF Ahead
  <2>2. /\ {t \in Ahead : Opens(t)} = AtOpening \cap Ahead
        /\ {t \in Ahead : Closes(t)} = AtClosing \cap Ahead
        /\ {t \in Boundaries : Opens(t)} = AtOpening \cap Boundaries
        /\ {t \in Boundaries : Closes(t)} = AtClosing \cap Boundaries
    BY <2>1
  <2>3. \A t \in Ahead : ~Midnight(t) /\ (Opens(t) \/ Closes(t)) => t \in Boundaries
    BY OnlyBoundariesMatter DEF Opens, Closes
  <2>4. ASSUME \A t \in AtOpening \cap Ahead : ~Midnight(t)
        PROVE  FirstOf(EarliestOf(AtOpening \cap Boundaries), AtOpening \cap Ahead)
    <3>1. AtOpening \in SUBSET Int /\ \A t \in AtOpening \cap Ahead : ~Midnight(t) => t \in Boundaries
      BY <2>3
    <3> HIDE DEF AtOpening
    <3> QED BY <2>4, <3>1, FirstBoundary
  <2>5. ASSUME \A t \in AtClosing \cap Ahead : ~Midnight(t)
        PROVE  FirstOf(EarliestOf(AtClosing \cap Boundaries), AtClosing \cap Ahead)
    <3>1. AtClosing \in SUBSET Int /\ \A t \in AtClosing \cap Ahead : ~Midnight(t) => t \in Boundaries
      BY <2>3
    <3> HIDE DEF AtClosing
    <3> QED BY <2>5, <3>1, FirstBoundary
  <2> HIDE DEF AtOpening, AtClosing
  <2>6. /\ NextOpening = EarliestOf(AtOpening \cap Boundaries)
        /\ NextClosing = EarliestOf(AtClosing \cap Boundaries)
    BY <2>2 DEF NextOpening, NextClosing
  <2> QED BY <2>2, <2>4, <2>5, <2>6 DEF TransitionsExact
<1> QED BY <1>1, RulesStayValid, PTL

-----------------------------------------------------------------------------
(* Images.  The bytes of a live row are there because a request deletes    *)
(* the last copy of them only before the row exists or after it is         *)
(* deleted; only a commit that succeeded without an answer is undone under *)
(* a committed row.  And a new logo archives every active one because the  *)
(* insertion waits for others and counts what its own UPDATE missed.       *)

UploadStages == {"putting", "replacing", "archiving", "inserting", "undoing"}
DeleteStages == {"copying", "removing", "marking", "purging", "restoring", "clearing"}
RequestRow ==
    [at : {"idle", "committing"} \cup UploadStages \cup DeleteStages,
     image : Images \cup {NoMedia}, row : MediaRow \cup {NoMedia},
     seen : SUBSET Images, locks : SUBSET Images]

MediaTyped ==
    /\ media \in [Images -> MediaRow \cup {NoMedia}]
    /\ objects \subseteq Images \X ({"key"} \cup Uploaders)
    /\ request \in [Uploaders -> RequestRow]
    /\ unanswered \subseteq Images

\* What a request is about, and the stages in which.
About(p) ==
    /\ p.at = "idle" => p = Resting
    /\ p.at # "idle" => p.image \in Images /\ p.row \in MediaRow
    /\ p.at \in UploadStages => p.row.status = "active"
    /\ p.at \in {"replacing", "archiving"} => p.row.type \in Singles
    /\ p.at \in DeleteStages => p.row.status = "deleted"
    /\ p.at = "committing" => p.row.status \in {"active", "deleted"}
    /\ p.at \notin {"inserting", "committing"} => p.locks = {}

Inserted(p) == p.at = "committing" /\ p.row.status = "active"
Marked(p) == p.at = "committing" /\ p.row.status = "deleted"
Uploads(p) == p.at \in {"putting", "replacing", "archiving", "inserting"} \/ Inserted(p)
Deletes(p) == p.at \in DeleteStages \/ Marked(p)

\* An upload before its commit is the only request about its image, which has
\* no row yet; its bytes are there from the first call on.
UploadTrue(q) ==
    LET p == request[q] IN
    /\ Uploads(p) => /\ media[p.image] = NoMedia
                     /\ \A o \in Uploaders : o # q => request[o].image # p.image
    /\ Uploads(p) /\ p.at # "putting" => <<p.image, "key">> \in objects
    /\ p.at = "undoing" => media[p.image] = NoMedia \/ p.image \in unanswered

\* A deletion has its tombstone from the copy to the end.
DeleteTrue(q) ==
    LET p == request[q] IN
    /\ Deletes(p) => media[p.image] # NoMedia /\ media[p.image].type = p.row.type
    /\ p.at = "copying" => <<p.image, q>> \notin objects
    /\ p.at \in {"removing", "marking", "restoring", "clearing"} \/ Marked(p)
         => <<p.image, q>> \in objects
    /\ Marked(p) => NotDeleted(p.image) /\ p.locks = {p.image}
    /\ p.at = "purging" => media[p.image].status = "deleted"

\* The rows an upload has archived are the active rows of its type, and once
\* it is inserted, all of them.
LocksTrue(q) ==
    LET p == request[q] IN
    /\ p.at = "inserting" =>
         /\ p.locks \subseteq ActiveOf(p.row.type)
         /\ p.row.type \notin Singles => p.locks = {}
    /\ Inserted(p) =>
         /\ p.image \in p.locks
         /\ p.locks \ {p.image} = IF p.row.type \in Singles THEN ActiveOf(p.row.type) ELSE {}

LockedOnce ==
    \A p, q \in Uploaders : p # q => request[p].locks \cap request[q].locks = {}

InsertedOnce ==
    \A p, q \in Uploaders :
        /\ Inserted(request[p]) /\ Inserted(request[q])
        /\ request[p].row.type = request[q].row.type /\ request[p].row.type \in Singles
        => p = q

\* Bytes no request is about to delete: the original, or a tombstone that is
\* neither a copy of it yet nor being cleared.
Solid(i) ==
    \/ <<i, "key">> \in objects
    \/ \E q \in Uploaders : /\ <<i, q>> \in objects
                            /\ ~(request[q].image = i /\ request[q].at \in {"removing", "clearing"})

BytesOfRows == \A i \in Images : NotDeleted(i) /\ i \notin unanswered => Solid(i)

MediaInv ==
    /\ MediaTyped
    /\ \A q \in Uploaders : About(request[q]) /\ UploadTrue(q) /\ DeleteTrue(q) /\ LocksTrue(q)
    /\ LockedOnce
    /\ InsertedOnce
    /\ BytesOfRows

-----------------------------------------------------------------------------
Stages == {"idle", "committing"} \cup UploadStages \cup DeleteStages

\* A request that moves on: its fields.
LEMMA MovesTyped ==
    ASSUME NEW rec \in RequestRow, NEW s \in Stages
    PROVE  /\ [rec EXCEPT !.at = s] \in RequestRow
           /\ [rec EXCEPT !.at = s].at = s
           /\ [rec EXCEPT !.at = s].image = rec.image
           /\ [rec EXCEPT !.at = s].row = rec.row
           /\ [rec EXCEPT !.at = s].locks = rec.locks
BY DEF RequestRow, Stages

LEMMA RestingTyped ==
    /\ Resting \in RequestRow
    /\ Resting.at = "idle" /\ Resting.locks = {} /\ Resting.image = NoMedia
BY DEF RequestRow, Resting

\* A request of the table has the type of a row, and its stage.
LEMMA RequestTyped ==
    ASSUME MediaInv, NEW q \in Uploaders
    PROVE  /\ request[q] \in RequestRow
           /\ About(request[q]) /\ UploadTrue(q) /\ DeleteTrue(q) /\ LocksTrue(q)
BY DEF MediaInv, MediaTyped

\* What an action that leaves the rows alone has to show of its own request.
LEMMA RowsUntouched ==
    ASSUME MediaInv, NEW r \in Uploaders,
           media' = media, unanswered' = unanswered,
           request' \in [Uploaders -> RequestRow],
           objects' \subseteq Images \X ({"key"} \cup Uploaders),
           \A q \in Uploaders : q # r => request'[q] = request[q],
           \/ request'[r].image \in {request[r].image, NoMedia}
           \/ media[request'[r].image] # NoMedia
           \/ \A q \in Uploaders : q # r => request[q].image # request'[r].image,
           \A i \in Images, q \in Uploaders : q # r => (<<i, q>> \in objects' <=> <<i, q>> \in objects),
           \A i \in Images : i # request[r].image
                               => (<<i, "key">> \in objects' <=> <<i, "key">> \in objects),
           \A q \in Uploaders : q # r => request'[r].locks \cap request[q].locks = {},
           Inserted(request'[r]) =>
             \A q \in Uploaders : /\ q # r /\ Inserted(request[q])
                                  /\ request[q].row.type = request'[r].row.type
                                  => request[q].row.type \notin Singles,
           About(request'[r]), UploadTrue(r)', DeleteTrue(r)', LocksTrue(r)',
           BytesOfRows'
    PROVE  MediaInv'
<1>1. MediaTyped' BY DEF MediaInv, MediaTyped
<1>2. ASSUME NEW q \in Uploaders, q # r
      PROVE  About(request[q])' /\ UploadTrue(q)' /\ DeleteTrue(q)' /\ LocksTrue(q)'
  <2>1. request'[q] = request[q] /\ request[q] \in RequestRow
    BY <1>2, RequestTyped
  <2>2. About(request[q]) /\ UploadTrue(q) /\ DeleteTrue(q) /\ LocksTrue(q) BY RequestTyped
  <2>3. About(request[q])' BY <2>1, <2>2
  <2>4. request[q].at # "idle" => request[q].image \in Images BY <2>2 DEF About
  <2>5. UploadTrue(q)'
    <3>1. Uploads(request[q]) => request[q].at # "idle" /\ request[q].image \in Images
      BY <2>4 DEF Uploads, Inserted
    <3>2. ASSUME Uploads(request[q]), NEW o \in Uploaders, o # q
          PROVE  request'[o].image # request[q].image
      BY <1>2, <2>2, <3>1, <3>2, MediaAssumption DEF UploadTrue
    <3>3. Uploads(request[q]) => request[r].image # request[q].image
      BY <1>2, <2>2 DEF UploadTrue
    <3>4. QED BY <2>1, <2>2, <3>1, <3>2, <3>3 DEF UploadTrue
  <2>6. DeleteTrue(q)'
    <3>1. Deletes(request[q]) => request[q].image \in Images
      BY <2>4 DEF Deletes, Marked, DeleteStages
    <3>2. Deletes(request[q]) =>
            (<<request[q].image, q>> \in objects' <=> <<request[q].image, q>> \in objects)
      BY <1>2, <3>1
    <3>3. QED BY <2>1, <2>2, <3>1, <3>2 DEF DeleteTrue, Deletes, Marked, DeleteStages, NotDeleted
  <2>7. LocksTrue(q)' BY <2>1, <2>2 DEF LocksTrue, ActiveOf, NotDeleted, Inserted
  <2>8. QED BY <2>3, <2>5, <2>6, <2>7
<1>3. \A q \in Uploaders : About(request[q])' /\ UploadTrue(q)' /\ DeleteTrue(q)' /\ LocksTrue(q)'
  BY <1>2
<1>4. LockedOnce' BY DEF MediaInv, LockedOnce
<1>5. InsertedOnce'
  <2>1. ASSUME NEW p \in Uploaders, NEW q \in Uploaders, p # q,
               Inserted(request'[p]), Inserted(request'[q]),
               request'[p].row.type = request'[q].row.type, request'[p].row.type \in Singles
        PROVE  FALSE
    BY <2>1 DEF MediaInv, InsertedOnce
  <2>2. QED BY <2>1 DEF InsertedOnce, Inserted
<1>6. QED BY <1>1, <1>3, <1>4, <1>5 DEF MediaInv

\* A request's step in the table of requests.
LEMMA StepTyped ==
    ASSUME MediaInv, NEW r \in Uploaders, NEW rec \in RequestRow,
           request' = [request EXCEPT ![r] = rec]
    PROVE  /\ request' \in [Uploaders -> RequestRow]
           /\ request'[r] = rec
           /\ \A q \in Uploaders : q # r => request'[q] = request[q]
BY DEF MediaInv, MediaTyped

\* Bytes that were there stay when no object goes and no tombstone starts to
\* be removed without the original beside it.
LEMMA BytesStay ==
    ASSUME MediaInv, NEW r \in Uploaders,
           media' = media, unanswered' = unanswered, objects \subseteq objects',
           \A q \in Uploaders : q # r => request'[q] = request[q],
           \/ request'[r].at \notin {"removing", "clearing"}
           \/ <<request'[r].image, "key">> \in objects'
    PROVE  BytesOfRows'
<1>1. ASSUME NEW i \in Images, NotDeleted(i)', i \notin unanswered' PROVE Solid(i)'
  <2>1. Solid(i) BY <1>1 DEF MediaInv, BytesOfRows, NotDeleted
  <2>2. QED BY <2>1 DEF Solid
<1>2. QED BY <1>1 DEF BytesOfRows

LEMMA StartUploadHolds ==
    ASSUME MediaInv, NEW r \in Uploaders, NEW i \in Images,
           NEW t \in MediaTypes, NEW c \in Checksums, StartUpload(r, i, t, c)
    PROVE  MediaInv'
<1> DEFINE row == [type |-> t, status |-> "active", checksum |-> c, version |-> 1]
           rec == [at |-> "putting", image |-> i, seen |-> {}, locks |-> {}, row |-> row]
<1>1. row \in MediaRow /\ row.status = "active" BY DEF MediaRow
<1>2. /\ rec \in RequestRow /\ rec.at = "putting" /\ rec.image = i /\ rec.locks = {}
      /\ rec.row = row
  BY <1>1 DEF RequestRow, UploadStages
<1>3. request' = [request EXCEPT ![r] = rec] BY DEF StartUpload
<1>4. /\ UNCHANGED <<media, objects, unanswered>> /\ i \in FreshImages /\ At(r, "idle")
  BY DEF StartUpload
<1> HIDE DEF row, rec
<1>5. /\ request' \in [Uploaders -> RequestRow] /\ request'[r] = rec
      /\ \A q \in Uploaders : q # r => request'[q] = request[q]
  BY <1>2, <1>3, StepTyped
<1>6. /\ media[i] = NoMedia /\ \A q \in Uploaders : request[q].image # i
      BY <1>4 DEF FreshImages
<1>7. BytesOfRows' BY <1>2, <1>4, <1>5, BytesStay
<1>8. About(request'[r])
  BY <1>1, <1>2, <1>5 DEF About, UploadStages, DeleteStages
<1>9. UploadTrue(r)' BY <1>2, <1>4, <1>5, <1>6 DEF UploadTrue, Uploads, Inserted
<1>10. DeleteTrue(r)' BY <1>2, <1>5 DEF DeleteTrue, Deletes, Marked, DeleteStages
<1>11. LocksTrue(r)' BY <1>2, <1>5 DEF LocksTrue, Inserted
<1>12. ~Inserted(request'[r]) BY <1>2, <1>5 DEF Inserted
<1>13. objects' \subseteq Images \X ({"key"} \cup Uploaders) BY <1>4 DEF MediaInv, MediaTyped
<1>14. request'[r].locks = {} BY <1>2, <1>5
<1>15. \A q \in Uploaders : q # r => request[q].image # request'[r].image BY <1>2, <1>5, <1>6
<1>16. QED BY <1>4, <1>5, <1>7, <1>8, <1>9, <1>10, <1>11, <1>12, <1>13, <1>14, <1>15, RowsUntouched

\* A step to another stage of the same request that changes no row.
LEMMA StageMoves ==
    ASSUME MediaInv, NEW r \in Uploaders, NEW s \in Stages,
           request[r].at # "idle", s # "idle",
           request' = [request EXCEPT ![r].at = s]
    PROVE  /\ request' \in [Uploaders -> RequestRow]
           /\ \A q \in Uploaders : q # r => request'[q] = request[q]
           /\ request'[r].at = s /\ request'[r].image = request[r].image
           /\ request'[r].row = request[r].row /\ request'[r].locks = request[r].locks
           /\ request[r].image \in Images /\ request[r].row \in MediaRow
           /\ request'[r] \in RequestRow
<1> DEFINE rec == [request[r] EXCEPT !.at = s]
<1>1. request[r] \in RequestRow /\ About(request[r]) BY RequestTyped
<1>2. /\ rec \in RequestRow /\ rec.at = s /\ rec.image = request[r].image
      /\ rec.row = request[r].row /\ rec.locks = request[r].locks
  BY <1>1, MovesTyped
<1>3. request' = [request EXCEPT ![r] = rec] OBVIOUS
<1> HIDE DEF rec
<1>4. QED BY <1>1, <1>2, <1>3, StepTyped DEF About

LEMMA PutHolds ==
    ASSUME MediaInv, NEW r \in Uploaders, Put(r)
    PROVE  MediaInv'
<1> DEFINE s == IF request[r].row.type \in Singles THEN "replacing" ELSE "inserting"
<1>1. /\ UNCHANGED <<media, unanswered>> /\ At(r, "putting")
      /\ objects' = objects \cup {Original(r)}
  BY DEF Put
<1>2. request' = [request EXCEPT ![r].at = s] BY DEF Put, Goto
<1>3. /\ s \in Stages /\ s \in {"replacing", "inserting"}
      /\ s = "replacing" => request[r].row.type \in Singles
  BY DEF Stages, UploadStages
<1> HIDE DEF s
<1>4. /\ request' \in [Uploaders -> RequestRow]
      /\ \A q \in Uploaders : q # r => request'[q] = request[q]
      /\ request'[r].at = s /\ request'[r].image = request[r].image
      /\ request'[r].row = request[r].row /\ request'[r].locks = request[r].locks
      /\ request[r].image \in Images /\ request[r].row \in MediaRow
  BY <1>1, <1>2, <1>3, StageMoves DEF At
<1>5. About(request[r]) /\ UploadTrue(r) /\ DeleteTrue(r) /\ LocksTrue(r) BY RequestTyped
<1>6. request[r].row.status = "active" /\ request[r].locks = {}
  BY <1>1, <1>5 DEF About, At, UploadStages
<1>7. BytesOfRows' BY <1>1, <1>3, <1>4, BytesStay
<1>8. About(request'[r]) BY <1>3, <1>4, <1>6 DEF About, UploadStages, DeleteStages
<1>9. <<request[r].image, "key">> \in objects' BY <1>1 DEF Original
<1>10. UploadTrue(r)' BY <1>1, <1>3, <1>4, <1>5, <1>9 DEF UploadTrue, Uploads, Inserted, At
<1>11. DeleteTrue(r)' BY <1>3, <1>4 DEF DeleteTrue, Deletes, Marked, DeleteStages
<1>12. LocksTrue(r)' BY <1>3, <1>4, <1>6 DEF LocksTrue, Inserted
<1>13. ~Inserted(request'[r]) BY <1>3, <1>4 DEF Inserted
<1>14. /\ objects' \subseteq Images \X ({"key"} \cup Uploaders)
       /\ \A i \in Images, q \in Uploaders : <<i, q>> \in objects' <=> <<i, q>> \in objects
       /\ \A i \in Images : i # request[r].image
                              => (<<i, "key">> \in objects' <=> <<i, "key">> \in objects)
  BY <1>1, <1>4, MediaAssumption DEF MediaInv, MediaTyped, Original
<1>15. QED BY <1>1, <1>4, <1>6, <1>7, <1>8, <1>10, <1>11, <1>12, <1>13, <1>14, RowsUntouched

\* The same with the locks it takes or lets go.
LEMMA LocksMove ==
    ASSUME MediaInv, NEW r \in Uploaders, NEW s \in Stages, NEW L \in SUBSET Images,
           request[r].at # "idle", s # "idle",
           request' = [request EXCEPT ![r].at = s, ![r].locks = L]
    PROVE  /\ request' \in [Uploaders -> RequestRow]
           /\ \A q \in Uploaders : q # r => request'[q] = request[q]
           /\ request'[r].at = s /\ request'[r].image = request[r].image
           /\ request'[r].row = request[r].row /\ request'[r].locks = L
           /\ request[r].image \in Images /\ request[r].row \in MediaRow
<1> DEFINE rec == [request[r] EXCEPT !.at = s, !.locks = L]
<1>1. request[r] \in RequestRow /\ About(request[r]) BY RequestTyped
<1>2. /\ rec \in RequestRow /\ rec.at = s /\ rec.image = request[r].image
      /\ rec.row = request[r].row /\ rec.locks = L
  BY <1>1 DEF RequestRow, Stages
<1>3. request' = [request EXCEPT ![r] = rec] BY DEF MediaInv, MediaTyped
<1> HIDE DEF rec
<1>4. QED BY <1>1, <1>2, <1>3, StepTyped DEF About

LEMMA ReadActiveHolds ==
    ASSUME MediaInv, NEW r \in Uploaders, ReadActive(r)
    PROVE  MediaInv'
<1> DEFINE rec == [request[r] EXCEPT !.at = "archiving", !.seen = ActiveOf(request[r].row.type)]
<1>1. UNCHANGED <<media, objects, unanswered>> /\ request[r].at = "replacing"
  BY DEF ReadActive, At
<1>2. request[r] \in RequestRow /\ ActiveOf(request[r].row.type) \in SUBSET Images
  BY RequestTyped DEF ActiveOf
<1>3. /\ rec \in RequestRow /\ rec.at = "archiving" /\ rec.image = request[r].image
      /\ rec.row = request[r].row /\ rec.locks = request[r].locks
  BY <1>2 DEF RequestRow, UploadStages
<1>4. request' = [request EXCEPT ![r] = rec] BY DEF ReadActive, MediaInv, MediaTyped
<1> HIDE DEF rec
<1>5. /\ request' \in [Uploaders -> RequestRow] /\ request'[r] = rec
      /\ \A q \in Uploaders : q # r => request'[q] = request[q]
  BY <1>3, <1>4, StepTyped
<1>6. About(request[r]) /\ UploadTrue(r) /\ DeleteTrue(r) /\ LocksTrue(r) BY RequestTyped
<1>7. request[r].locks = {} /\ request[r].row.status = "active"
  BY <1>1, <1>6 DEF About, UploadStages
<1>8. BytesOfRows' BY <1>1, <1>3, <1>5, BytesStay
<1>9. About(request'[r]) BY <1>1, <1>3, <1>5, <1>6, <1>7 DEF About, UploadStages, DeleteStages
<1>10. UploadTrue(r)' BY <1>1, <1>3, <1>5, <1>6 DEF UploadTrue, Uploads, Inserted
<1>11. DeleteTrue(r)' BY <1>3, <1>5 DEF DeleteTrue, Deletes, Marked, DeleteStages
<1>12. LocksTrue(r)' BY <1>3, <1>5, <1>7 DEF LocksTrue, Inserted
<1>13. ~Inserted(request'[r]) BY <1>3, <1>5 DEF Inserted
<1>14. objects' \subseteq Images \X ({"key"} \cup Uploaders) BY <1>1 DEF MediaInv, MediaTyped
<1>15. request'[r].locks = {} /\ request'[r].image = request[r].image BY <1>3, <1>5, <1>7
<1>16. QED BY <1>1, <1>5, <1>8, <1>9, <1>10, <1>11, <1>12, <1>13, <1>14, <1>15, RowsUntouched

\* An UPDATE that waited for the rows it saw holds rows nobody else holds.
LEMMA ArchiveActiveHolds ==
    ASSUME MediaInv, NEW r \in Uploaders, ArchiveActive(r)
    PROVE  MediaInv'
<1> DEFINE L == request[r].seen \cap ActiveOf(request[r].row.type)
<1>1. /\ UNCHANGED <<media, objects, unanswered>> /\ request[r].at = "archiving"
      /\ \A i \in request[r].seen : LockedBy(i) = {}
  BY DEF ArchiveActive, At
<1>2. L \in SUBSET Images /\ L \subseteq ActiveOf(request[r].row.type) BY DEF ActiveOf
<1>3. \A q \in Uploaders : L \cap request[q].locks = {} BY <1>1 DEF LockedBy
<1>4. request' = [request EXCEPT ![r].at = "inserting", ![r].locks = L] BY DEF ArchiveActive
<1>5. "inserting" \in Stages BY DEF Stages, UploadStages
<1> HIDE DEF L
<1>6. /\ request' \in [Uploaders -> RequestRow]
      /\ \A q \in Uploaders : q # r => request'[q] = request[q]
      /\ request'[r].at = "inserting" /\ request'[r].image = request[r].image
      /\ request'[r].row = request[r].row /\ request'[r].locks = L
      /\ request[r].image \in Images /\ request[r].row \in MediaRow
  BY <1>1, <1>2, <1>4, <1>5, LocksMove
<1>7. About(request[r]) /\ UploadTrue(r) BY RequestTyped
<1>8. request[r].row.status = "active" /\ request[r].row.type \in Singles BY <1>1, <1>7 DEF About, UploadStages
<1>9. BytesOfRows' BY <1>1, <1>6, BytesStay
<1>10. About(request'[r]) BY <1>6, <1>8 DEF About, UploadStages, DeleteStages
<1>11. UploadTrue(r)' BY <1>1, <1>6, <1>7 DEF UploadTrue, Uploads, Inserted
<1>12. DeleteTrue(r)' BY <1>6 DEF DeleteTrue, Deletes, Marked, DeleteStages
<1>13. LocksTrue(r)' BY <1>1, <1>2, <1>6, <1>8 DEF LocksTrue, Inserted, ActiveOf, NotDeleted
<1>14. ~Inserted(request'[r]) BY <1>6 DEF Inserted
<1>15. objects' \subseteq Images \X ({"key"} \cup Uploaders) BY <1>1 DEF MediaInv, MediaTyped
<1>16. QED BY <1>1, <1>3, <1>6, <1>9, <1>10, <1>11, <1>12, <1>13, <1>14, <1>15, RowsUntouched

\* A request that ends leaves nothing to be true of it.
LEMMA EndsTrue ==
    ASSUME MediaInv, NEW r \in Uploaders, End(r)
    PROVE  /\ request' \in [Uploaders -> RequestRow]
           /\ \A q \in Uploaders : q # r => request'[q] = request[q]
           /\ request'[r] = Resting
           /\ request'[r].at = "idle" /\ request'[r].image = NoMedia /\ request'[r].locks = {}
           /\ ~Inserted(request'[r])
           /\ About(request'[r]) /\ UploadTrue(r)' /\ DeleteTrue(r)' /\ LocksTrue(r)'
<1>1. /\ request' \in [Uploaders -> RequestRow] /\ request'[r] = Resting
      /\ \A q \in Uploaders : q # r => request'[q] = request[q]
  BY RestingTyped, StepTyped DEF End
<1>2. request'[r].at = "idle" /\ request'[r].image = NoMedia /\ request'[r].locks = {}
  BY <1>1, RestingTyped
<1>3. ~Inserted(request'[r]) BY <1>2 DEF Inserted
<1>4. About(request'[r]) BY <1>1, <1>2 DEF About, UploadStages, DeleteStages
<1>5. UploadTrue(r)' BY <1>2 DEF UploadTrue, Uploads, Inserted
<1>6. DeleteTrue(r)' BY <1>2 DEF DeleteTrue, Deletes, Marked, DeleteStages
<1>7. LocksTrue(r)' BY <1>2 DEF LocksTrue, Inserted
<1>8. QED BY <1>1, <1>2, <1>3, <1>4, <1>5, <1>6, <1>7

\* The images a transaction holds have rows, or it is inserting them.
LEMMA HeldHaveRows ==
    ASSUME MediaInv, NEW q \in Uploaders, NEW i \in request[q].locks
    PROVE  media[i] # NoMedia \/ i = request[q].image
<1>1. request[q] \in RequestRow /\ About(request[q]) /\ DeleteTrue(q) /\ LocksTrue(q)
  BY RequestTyped
<1>2. request[q].at = "inserting" \/ Inserted(request[q]) \/ Marked(request[q])
  BY <1>1 DEF About, Inserted, Marked
<1>3. QED BY <1>1, <1>2 DEF LocksTrue, DeleteTrue, ActiveOf, NotDeleted

\* An insertion the unique indexes let pass has archived every active image of
\* its single type, and no other insertion is beside it.
LEMMA InsertHolds ==
    ASSUME MediaInv, NEW r \in Uploaders, Insert(r)
    PROVE  MediaInv'
<1>1. UNCHANGED <<media, objects, unanswered>> /\ request[r].at = "inserting"
  BY DEF Insert, At
<1>2. request[r] \in RequestRow /\ About(request[r]) /\ UploadTrue(r) /\ LocksTrue(r)
  BY RequestTyped
<1>3. /\ request[r].row.status = "active" /\ request[r].image \in Images
      /\ request[r].locks \in SUBSET Images
  BY <1>1, <1>2 DEF About, UploadStages, RequestRow
<1>4. media[request[r].image] = NoMedia
      /\ \A o \in Uploaders : o # r => request[o].image # request[r].image
  BY <1>1, <1>2 DEF UploadTrue, Uploads
<1>5. objects' \subseteq Images \X ({"key"} \cup Uploaders) BY <1>1 DEF MediaInv, MediaTyped
<1>6. CASE \E i \in Images : Clashes(r, i)
  <2>1. request' = [request EXCEPT ![r].at = "undoing", ![r].locks = {}] BY <1>6 DEF Insert
  <2>2. "undoing" \in Stages /\ {} \in SUBSET Images BY DEF Stages, UploadStages
  <2>3. /\ request' \in [Uploaders -> RequestRow]
        /\ \A q \in Uploaders : q # r => request'[q] = request[q]
        /\ request'[r].at = "undoing" /\ request'[r].image = request[r].image
        /\ request'[r].row = request[r].row /\ request'[r].locks = {}
        /\ request[r].image \in Images /\ request[r].row \in MediaRow
    BY <1>1, <2>1, <2>2, LocksMove
  <2>4. BytesOfRows' BY <1>1, <2>3, BytesStay
  <2>5. About(request'[r]) BY <1>3, <2>3 DEF About, UploadStages, DeleteStages
  <2>6. UploadTrue(r)' BY <1>1, <1>4, <2>3 DEF UploadTrue, Uploads, Inserted
  <2>7. DeleteTrue(r)' BY <2>3 DEF DeleteTrue, Deletes, Marked, DeleteStages
  <2>8. LocksTrue(r)' /\ ~Inserted(request'[r]) BY <2>3 DEF LocksTrue, Inserted
  <2>9. QED BY <1>1, <1>5, <2>3, <2>4, <2>5, <2>6, <2>7, <2>8, RowsUntouched
<1>7. CASE ~\E i \in Images : Clashes(r, i)
  <2> DEFINE L == request[r].locks \cup {request[r].image}
  <2>1. request' = [request EXCEPT ![r].at = "committing", ![r].locks = L]
    BY <1>7 DEF Insert, MediaInv, MediaTyped
  <2>2. "committing" \in Stages /\ L \in SUBSET Images BY <1>3 DEF Stages
  <2>3. L = request[r].locks \cup {request[r].image} OBVIOUS
  <2> HIDE DEF L
  <2>4. /\ request' \in [Uploaders -> RequestRow]
        /\ \A q \in Uploaders : q # r => request'[q] = request[q]
        /\ request'[r].at = "committing" /\ request'[r].image = request[r].image
        /\ request'[r].row = request[r].row /\ request'[r].locks = L
        /\ request[r].image \in Images /\ request[r].row \in MediaRow
    BY <1>1, <2>1, <2>2, LocksMove
  <2>5. BytesOfRows' BY <1>1, <2>4, BytesStay
  <2>6. About(request'[r]) BY <1>3, <2>4 DEF About, UploadStages, DeleteStages
  <2>7. UploadTrue(r)'
    <3>1. \A o \in Uploaders : o # r => request'[o].image # request[r].image BY <1>4, <2>4
    <3>2. QED BY <1>1, <1>2, <1>4, <2>4, <3>1 DEF UploadTrue, Uploads, Inserted
  <2>8. DeleteTrue(r)' BY <1>3, <2>4 DEF DeleteTrue, Deletes, Marked, DeleteStages
  <2>9. LocksTrue(r)'
    <3>1. request[r].locks \subseteq ActiveOf(request[r].row.type)
          /\ (request[r].row.type \notin Singles => request[r].locks = {})
      BY <1>1, <1>2 DEF LocksTrue
    <3>2. request[r].image \notin request[r].locks BY <1>4, <3>1 DEF ActiveOf, NotDeleted
    <3>3. L \ {request[r].image} = request[r].locks BY <2>3, <3>2
    <3>4. request[r].row.type \in Singles =>
            ActiveOf(request[r].row.type) \subseteq request[r].locks
      BY <1>7 DEF Clashes, ActiveOf
    <3>5. ActiveOf(request[r].row.type)' = ActiveOf(request[r].row.type)
      BY <1>1, <2>4 DEF ActiveOf, NotDeleted
    <3>6. QED BY <2>3, <2>4, <3>1, <3>3, <3>4, <3>5 DEF LocksTrue
  <2>10. \A q \in Uploaders : q # r => request'[r].locks \cap request[q].locks = {}
    <3>1. ASSUME NEW q \in Uploaders, q # r PROVE request[r].image \notin request[q].locks
      BY <1>4, <3>1, HeldHaveRows
    <3>2. \A q \in Uploaders : q # r => request[r].locks \cap request[q].locks = {}
      BY DEF MediaInv, LockedOnce
    <3>3. QED BY <2>3, <2>4, <3>1, <3>2
  <2>11. \A q \in Uploaders : /\ q # r /\ Inserted(request[q])
                              /\ request[q].row.type = request'[r].row.type
                              => request[q].row.type \notin Singles
    <3>1. \A q \in Uploaders : ~WaitsFor(r, q) BY DEF Insert
    <3>2. \A q \in Uploaders : Inserted(request[q]) => request[q].image \in request[q].locks
      BY RequestTyped DEF LocksTrue
    <3>3. QED BY <2>4, <3>1, <3>2 DEF WaitsFor, Inserted
  <2>12. QED BY <1>1, <1>5, <2>4, <2>5, <2>6, <2>7, <2>8, <2>9, <2>10, <2>11, RowsUntouched
<1>8. QED BY <1>6, <1>7

-----------------------------------------------------------------------------
\* A row with another status and the next version.
LEMMA NextRow ==
    ASSUME NEW old \in MediaRow, NEW s \in {"active", "archived", "deleted"}
    PROVE  /\ [old EXCEPT !.status = s, !.version = @ + 1] \in MediaRow
           /\ [old EXCEPT !.status = s, !.version = @ + 1].status = s
           /\ [old EXCEPT !.status = s, !.version = @ + 1].type = old.type
<1>1. old.version + 1 \in Nat BY DEF MediaRow
<1>2. [old EXCEPT !.status = s, !.version = old.version + 1] \in MediaRow BY <1>1 DEF MediaRow
<1>3. QED BY <1>2 DEF MediaRow

LEMMA StartDeleteHolds ==
    ASSUME MediaInv, NEW r \in Uploaders, NEW i \in Images, StartDelete(r, i)
    PROVE  MediaInv'
<1> DEFINE row == [media[i] EXCEPT !.status = "deleted", !.version = @ + 1]
           rec == [at |-> "copying", image |-> i, seen |-> {}, locks |-> {}, row |-> row]
<1>1. /\ UNCHANGED <<media, objects, unanswered>> /\ request[r].at = "idle"
      /\ media[i] # NoMedia /\ <<i, r>> \notin objects
  BY DEF StartDelete, At, NotDeleted
<1>2. media[i] \in MediaRow BY <1>1 DEF MediaInv, MediaTyped
<1>3. row \in MediaRow /\ row.status = "deleted" /\ row.type = media[i].type
  BY <1>2, NextRow
<1>4. request' = [request EXCEPT ![r] = rec] BY DEF StartDelete
<1> HIDE DEF row
<1>5. /\ rec \in RequestRow /\ rec.at = "copying" /\ rec.image = i /\ rec.locks = {}
      /\ rec.row = row
  BY <1>3 DEF RequestRow, DeleteStages
<1> HIDE DEF rec
<1>6. /\ request' \in [Uploaders -> RequestRow] /\ request'[r] = rec
      /\ \A q \in Uploaders : q # r => request'[q] = request[q]
  BY <1>4, <1>5, StepTyped
<1>7. BytesOfRows' BY <1>1, <1>5, <1>6, BytesStay
<1>8. About(request'[r]) BY <1>3, <1>5, <1>6 DEF About, UploadStages, DeleteStages
<1>9. UploadTrue(r)' BY <1>5, <1>6 DEF UploadTrue, Uploads, Inserted
<1>10. DeleteTrue(r)' BY <1>1, <1>3, <1>5, <1>6 DEF DeleteTrue, Deletes, Marked, DeleteStages
<1>11. LocksTrue(r)' /\ ~Inserted(request'[r]) BY <1>5, <1>6 DEF LocksTrue, Inserted
<1>12. objects' \subseteq Images \X ({"key"} \cup Uploaders) BY <1>1 DEF MediaInv, MediaTyped
<1>13. request'[r].locks = {} /\ media[request'[r].image] # NoMedia BY <1>1, <1>5, <1>6
<1>14. QED BY <1>1, <1>6, <1>7, <1>8, <1>9, <1>10, <1>11, <1>12, <1>13, RowsUntouched

LEMMA CopyHolds ==
    ASSUME MediaInv, NEW r \in Uploaders, Copy(r)
    PROVE  MediaInv'
<1>1. /\ UNCHANGED <<media, unanswered>> /\ request[r].at = "copying"
      /\ objects' = objects \cup {<<request[r].image, r>>}
      /\ <<request[r].image, "key">> \in objects
      /\ request' = [request EXCEPT ![r].at = "removing"]
  BY DEF Copy, At, Goto, Tombstone, Original
<1>2. "removing" \in Stages BY DEF Stages, DeleteStages
<1>3. /\ request' \in [Uploaders -> RequestRow]
      /\ \A q \in Uploaders : q # r => request'[q] = request[q]
      /\ request'[r].at = "removing" /\ request'[r].image = request[r].image
      /\ request'[r].row = request[r].row /\ request'[r].locks = request[r].locks
      /\ request[r].image \in Images /\ request[r].row \in MediaRow
  BY <1>1, <1>2, StageMoves
<1>4. About(request[r]) /\ DeleteTrue(r) BY RequestTyped
<1>5. request[r].row.status = "deleted" /\ request[r].locks = {}
  BY <1>1, <1>4 DEF About, DeleteStages
<1>6. BytesOfRows' BY <1>1, <1>3, BytesStay
<1>7. About(request'[r]) BY <1>3, <1>5 DEF About, UploadStages, DeleteStages
<1>8. UploadTrue(r)' BY <1>3 DEF UploadTrue, Uploads, Inserted
<1>9. DeleteTrue(r)' BY <1>1, <1>3, <1>4 DEF DeleteTrue, Deletes, Marked, DeleteStages
<1>10. LocksTrue(r)' /\ ~Inserted(request'[r]) BY <1>3 DEF LocksTrue, Inserted
<1>11. /\ objects' \subseteq Images \X ({"key"} \cup Uploaders)
       /\ \A j \in Images, q \in Uploaders : q # r => (<<j, q>> \in objects' <=> <<j, q>> \in objects)
       /\ \A j \in Images : <<j, "key">> \in objects' <=> <<j, "key">> \in objects
  BY <1>1, <1>3, MediaAssumption DEF MediaInv, MediaTyped
<1>12. QED BY <1>1, <1>3, <1>5, <1>6, <1>7, <1>8, <1>9, <1>10, <1>11, RowsUntouched

\* A request that ends and leaves the rows alone.
LEMMA EndHolds ==
    ASSUME MediaInv, NEW r \in Uploaders, End(r), UNCHANGED <<media, unanswered>>,
           objects' \subseteq Images \X ({"key"} \cup Uploaders),
           \A i \in Images, q \in Uploaders : q # r => (<<i, q>> \in objects' <=> <<i, q>> \in objects),
           \A i \in Images : i # request[r].image
                               => (<<i, "key">> \in objects' <=> <<i, "key">> \in objects),
           BytesOfRows'
    PROVE  MediaInv'
BY EndsTrue, RowsUntouched

\* Deletion of the original: the tombstone has the bytes.
LEMMA RemoveSourceHolds ==
    ASSUME MediaInv, NEW r \in Uploaders, RemoveSource(r)
    PROVE  MediaInv'
<1>1. /\ UNCHANGED <<media, unanswered>> /\ request[r].at = "removing"
      /\ objects' = objects \ {<<request[r].image, "key">>}
      /\ request' = [request EXCEPT ![r].at = "marking"]
  BY DEF RemoveSource, At, Goto, Original
<1>2. "marking" \in Stages BY DEF Stages, DeleteStages
<1>3. /\ request' \in [Uploaders -> RequestRow]
      /\ \A q \in Uploaders : q # r => request'[q] = request[q]
      /\ request'[r].at = "marking" /\ request'[r].image = request[r].image
      /\ request'[r].row = request[r].row /\ request'[r].locks = request[r].locks
      /\ request[r].image \in Images /\ request[r].row \in MediaRow
  BY <1>1, <1>2, StageMoves
<1>4. About(request[r]) /\ DeleteTrue(r) BY RequestTyped
<1>5. request[r].row.status = "deleted" /\ request[r].locks = {}
  BY <1>1, <1>4 DEF About, DeleteStages
<1>6. /\ objects' \subseteq Images \X ({"key"} \cup Uploaders)
      /\ \A j \in Images, q \in Uploaders : <<j, q>> \in objects' <=> <<j, q>> \in objects
      /\ \A j \in Images : j # request[r].image => (<<j, "key">> \in objects' <=> <<j, "key">> \in objects)
  BY <1>1, <1>3, MediaAssumption DEF MediaInv, MediaTyped
<1>7. <<request[r].image, r>> \in objects BY <1>1, <1>4 DEF DeleteTrue
<1>8. BytesOfRows'
  <2>1. ASSUME NEW i \in Images, NotDeleted(i)', i \notin unanswered' PROVE Solid(i)'
    <3>1. Solid(i) BY <1>1, <2>1 DEF MediaInv, BytesOfRows, NotDeleted
    <3>2. CASE i = request[r].image
      <4>1. <<i, r>> \in objects' BY <1>3, <1>6, <1>7, <3>2
      <4>2. QED BY <1>3, <4>1 DEF Solid
    <3>3. CASE i # request[r].image BY <1>3, <1>6, <3>1, <3>3 DEF Solid
    <3>4. QED BY <3>2, <3>3
  <2>2. QED BY <2>1 DEF BytesOfRows
<1>9. About(request'[r]) BY <1>3, <1>5 DEF About, UploadStages, DeleteStages
<1>10. UploadTrue(r)' BY <1>3 DEF UploadTrue, Uploads, Inserted
<1>11. DeleteTrue(r)'
  BY <1>1, <1>3, <1>4, <1>6, <1>7 DEF DeleteTrue, Deletes, Marked, DeleteStages
<1>12. LocksTrue(r)' /\ ~Inserted(request'[r]) BY <1>3 DEF LocksTrue, Inserted
<1>13. QED BY <1>1, <1>3, <1>5, <1>6, <1>8, <1>9, <1>10, <1>11, <1>12, RowsUntouched

LEMMA SoftDeleteHolds ==
    ASSUME MediaInv, NEW r \in Uploaders, SoftDelete(r)
    PROVE  MediaInv'
<1> DEFINE i == request[r].image
<1>1. /\ UNCHANGED <<media, objects, unanswered>> /\ request[r].at = "marking"
      /\ LockedBy(i) = {}
  BY DEF SoftDelete, At
<1>2. request[r] \in RequestRow /\ About(request[r]) /\ DeleteTrue(r) BY RequestTyped
<1>3. /\ request[r].row.status = "deleted" /\ request[r].locks = {} /\ i \in Images
      /\ <<i, r>> \in objects
  BY <1>1, <1>2 DEF About, DeleteStages, DeleteTrue
<1>4. objects' \subseteq Images \X ({"key"} \cup Uploaders) BY <1>1 DEF MediaInv, MediaTyped
<1>5. CASE request' = [request EXCEPT ![r].at = "restoring"]
  <2>1. "restoring" \in Stages BY DEF Stages, DeleteStages
  <2>2. /\ request' \in [Uploaders -> RequestRow]
        /\ \A q \in Uploaders : q # r => request'[q] = request[q]
        /\ request'[r].at = "restoring" /\ request'[r].image = i
        /\ request'[r].row = request[r].row /\ request'[r].locks = {}
        /\ request[r].image \in Images /\ request[r].row \in MediaRow
    BY <1>1, <1>3, <1>5, <2>1, StageMoves
  <2>3. BytesOfRows' BY <1>1, <2>2, BytesStay
  <2>4. About(request'[r]) BY <1>3, <2>2 DEF About, UploadStages, DeleteStages
  <2>5. UploadTrue(r)' BY <2>2 DEF UploadTrue, Uploads, Inserted
  <2>6. DeleteTrue(r)'
    BY <1>1, <1>2, <1>3, <2>2 DEF DeleteTrue, Deletes, Marked, DeleteStages
  <2>7. LocksTrue(r)' /\ ~Inserted(request'[r]) BY <2>2 DEF LocksTrue, Inserted
  <2>8. QED BY <1>1, <1>4, <2>2, <2>3, <2>4, <2>5, <2>6, <2>7, RowsUntouched
<1>6. CASE NotDeleted(i) /\ request' = [request EXCEPT ![r].at = "committing", ![r].locks = {i}]
  <2>1. "committing" \in Stages /\ {i} \in SUBSET Images BY <1>3 DEF Stages
  <2>2. /\ request' \in [Uploaders -> RequestRow]
        /\ \A q \in Uploaders : q # r => request'[q] = request[q]
        /\ request'[r].at = "committing" /\ request'[r].image = i
        /\ request'[r].row = request[r].row /\ request'[r].locks = {i}
        /\ request[r].image \in Images /\ request[r].row \in MediaRow
    BY <1>1, <1>3, <1>6, <2>1, LocksMove
  <2>3. BytesOfRows' BY <1>1, <2>2, BytesStay
  <2>4. About(request'[r]) BY <1>3, <2>2 DEF About, UploadStages, DeleteStages
  <2>5. UploadTrue(r)' BY <1>3, <2>2 DEF UploadTrue, Uploads, Inserted
  <2>6. DeleteTrue(r)'
    BY <1>1, <1>2, <1>3, <1>6, <2>2 DEF DeleteTrue, Deletes, Marked, DeleteStages, NotDeleted
  <2>7. LocksTrue(r)' /\ ~Inserted(request'[r]) BY <1>3, <2>2 DEF LocksTrue, Inserted
  <2>8. \A q \in Uploaders : request'[r].locks \cap request[q].locks = {}
    BY <1>1, <2>2 DEF LockedBy
  <2>9. QED BY <1>1, <1>4, <2>2, <2>3, <2>4, <2>5, <2>6, <2>7, <2>8, RowsUntouched
<1>7. QED BY <1>5, <1>6 DEF SoftDelete

-----------------------------------------------------------------------------
\* What a request removes from the bucket: its tombstone or its original.
LEMMA Removes ==
    ASSUME MediaInv, NEW r \in Uploaders, NEW k \in {"key", r},
           objects' = objects \ {<<request[r].image, k>>}
    PROVE  /\ objects' \subseteq Images \X ({"key"} \cup Uploaders)
           /\ \A i \in Images, q \in Uploaders : q # r => (<<i, q>> \in objects' <=> <<i, q>> \in objects)
           /\ \A i \in Images : i # request[r].image
                                  => (<<i, "key">> \in objects' <=> <<i, "key">> \in objects)
           /\ \A i \in Images : i # request[r].image => (<<i, r>> \in objects' <=> <<i, r>> \in objects)
           /\ k = "key" => \A i \in Images : <<i, r>> \in objects' <=> <<i, r>> \in objects
           /\ k = r => \A i \in Images : <<i, "key">> \in objects' <=> <<i, "key">> \in objects
BY MediaAssumption DEF MediaInv, MediaTyped

\* The bytes of the other images are not touched by a request that ends.
LEMMA OthersStay ==
    ASSUME MediaInv, NEW r \in Uploaders, End(r), UNCHANGED <<media, unanswered>>,
           \A i \in Images, q \in Uploaders : q # r => (<<i, q>> \in objects' <=> <<i, q>> \in objects),
           \A i \in Images : i # request[r].image
                               => (<<i, "key">> \in objects' <=> <<i, "key">> \in objects),
           \A i \in Images : i # request[r].image => (<<i, r>> \in objects' <=> <<i, r>> \in objects),
           NEW i \in Images, i # request[r].image, Solid(i)
    PROVE  Solid(i)'
BY EndsTrue DEF Solid

LEMMA PurgeHolds ==
    ASSUME MediaInv, NEW r \in Uploaders, Purge(r)
    PROVE  MediaInv'
<1>1. /\ UNCHANGED <<media, unanswered>> /\ request[r].at = "purging" /\ End(r)
      /\ objects' = objects \ {<<request[r].image, r>>}
  BY DEF Purge, At, Tombstone
<1>2. /\ objects' \subseteq Images \X ({"key"} \cup Uploaders)
      /\ \A i \in Images, q \in Uploaders : q # r => (<<i, q>> \in objects' <=> <<i, q>> \in objects)
      /\ \A i \in Images : i # request[r].image
                             => (<<i, "key">> \in objects' <=> <<i, "key">> \in objects)
      /\ \A i \in Images : i # request[r].image => (<<i, r>> \in objects' <=> <<i, r>> \in objects)
  BY <1>1, Removes
<1>3. media[request[r].image].status = "deleted" BY <1>1, RequestTyped DEF DeleteTrue
<1>4. BytesOfRows'
  <2>1. ASSUME NEW i \in Images, NotDeleted(i)', i \notin unanswered' PROVE Solid(i)'
    <3>1. Solid(i) /\ i # request[r].image BY <1>1, <1>3, <2>1 DEF MediaInv, BytesOfRows, NotDeleted
    <3>2. QED BY <1>1, <1>2, <3>1, OthersStay
  <2>2. QED BY <2>1 DEF BytesOfRows
<1>5. QED BY <1>1, <1>2, <1>4, EndHolds

LEMMA RestoreClearHolds ==
    ASSUME MediaInv, NEW r \in Uploaders, request[r].at \in {"clearing", "removing"},
           End(r), UNCHANGED <<media, unanswered>>,
           objects' = objects \ {<<request[r].image, r>>}
    PROVE  MediaInv'
<1>2. /\ objects' \subseteq Images \X ({"key"} \cup Uploaders)
      /\ \A i \in Images, q \in Uploaders : q # r => (<<i, q>> \in objects' <=> <<i, q>> \in objects)
      /\ \A i \in Images : <<i, "key">> \in objects' <=> <<i, "key">> \in objects
      /\ \A i \in Images : i # request[r].image => (<<i, r>> \in objects' <=> <<i, r>> \in objects)
  BY Removes
<1>3. BytesOfRows'
  <2>1. ASSUME NEW i \in Images, NotDeleted(i)', i \notin unanswered' PROVE Solid(i)'
    <3>1. Solid(i) BY <2>1 DEF MediaInv, BytesOfRows, NotDeleted
    <3>2. CASE i # request[r].image BY <1>2, <3>1, <3>2, OthersStay
    <3>3. CASE i = request[r].image
      <4>1. \/ <<i, "key">> \in objects
            \/ \E q \in Uploaders :
                 /\ q # r /\ <<i, q>> \in objects
                 /\ ~(request[q].image = i /\ request[q].at \in {"removing", "clearing"})
        BY <3>1, <3>3 DEF Solid
      <4>2. QED BY <1>2, <4>1, EndsTrue DEF Solid
    <3>4. QED BY <3>2, <3>3
  <2>2. QED BY <2>1 DEF BytesOfRows
<1>4. QED BY <1>2, <1>3, EndHolds

\* The copy back stays undeleted and the tombstone is gone, or the other way round.
LEMMA DeletionRefusedHolds ==
    ASSUME MediaInv, NEW r \in Uploaders, DeletionRefused(r)
    PROVE  MediaInv'
<1>1. UNCHANGED <<media, unanswered>> /\ End(r) BY DEF DeletionRefused
<1>2. CASE request[r].at = "removing" /\ objects' = objects \ {<<request[r].image, r>>}
  BY <1>1, <1>2, RestoreClearHolds
<1>3. CASE request[r].at = "clearing" /\ objects' = objects \ {<<request[r].image, "key">>}
  <2>1. /\ objects' \subseteq Images \X ({"key"} \cup Uploaders)
        /\ \A i \in Images, q \in Uploaders : q # r => (<<i, q>> \in objects' <=> <<i, q>> \in objects)
        /\ \A i \in Images : i # request[r].image
                               => (<<i, "key">> \in objects' <=> <<i, "key">> \in objects)
        /\ \A i \in Images : <<i, r>> \in objects' <=> <<i, r>> \in objects
    BY <1>3, Removes
  <2>2. <<request[r].image, r>> \in objects BY <1>3, RequestTyped DEF DeleteTrue
  <2>3. BytesOfRows'
    <3>1. ASSUME NEW i \in Images, NotDeleted(i)', i \notin unanswered' PROVE Solid(i)'
      <4>1. Solid(i) BY <1>1, <3>1 DEF MediaInv, BytesOfRows, NotDeleted
      <4>2. CASE i # request[r].image BY <1>1, <2>1, <4>1, <4>2, OthersStay
      <4>3. CASE i = request[r].image BY <1>1, <2>1, <2>2, <4>3, EndsTrue DEF Solid
      <4>4. QED BY <4>2, <4>3
    <3>2. QED BY <3>1 DEF BytesOfRows
  <2>4. QED BY <1>1, <2>1, <2>3, EndHolds
<1>4. QED BY <1>2, <1>3 DEF DeletionRefused, At, Tombstone, Original

LEMMA UndoUploadHolds ==
    ASSUME MediaInv, NEW r \in Uploaders, UndoUpload(r)
    PROVE  MediaInv'
<1>1. /\ UNCHANGED <<media, unanswered>> /\ request[r].at = "undoing" /\ End(r)
      /\ objects' = objects \ {<<request[r].image, "key">>}
  BY DEF UndoUpload, At, Original
<1>2. /\ objects' \subseteq Images \X ({"key"} \cup Uploaders)
      /\ \A i \in Images, q \in Uploaders : q # r => (<<i, q>> \in objects' <=> <<i, q>> \in objects)
      /\ \A i \in Images : i # request[r].image
                             => (<<i, "key">> \in objects' <=> <<i, "key">> \in objects)
      /\ \A i \in Images : i # request[r].image => (<<i, r>> \in objects' <=> <<i, r>> \in objects)
  BY <1>1, Removes
<1>3. media[request[r].image] = NoMedia \/ request[r].image \in unanswered
  BY <1>1, RequestTyped DEF UploadTrue
<1>4. BytesOfRows'
  <2>1. ASSUME NEW i \in Images, NotDeleted(i)', i \notin unanswered' PROVE Solid(i)'
    <3>1. Solid(i) /\ i # request[r].image BY <1>1, <1>3, <2>1 DEF MediaInv, BytesOfRows, NotDeleted
    <3>2. QED BY <1>1, <1>2, <3>1, OthersStay
  <2>2. QED BY <2>1 DEF BytesOfRows
<1>5. QED BY <1>1, <1>2, <1>4, EndHolds

\* An end that touches nothing: a crash, a copy of an object that is gone.
LEMMA PlainEndHolds ==
    ASSUME MediaInv, NEW r \in Uploaders, End(r), UNCHANGED <<media, objects, unanswered>>
    PROVE  MediaInv'
<1>1. objects' \subseteq Images \X ({"key"} \cup Uploaders) BY DEF MediaInv, MediaTyped
<1>2. BytesOfRows' BY EndsTrue, BytesStay
<1>3. QED BY <1>1, <1>2, EndHolds

LEMMA RestoreCopyHolds ==
    ASSUME MediaInv, NEW r \in Uploaders, RestoreCopy(r)
    PROVE  MediaInv'
<1>1. UNCHANGED <<media, unanswered>> /\ request[r].at = "restoring" BY DEF RestoreCopy, At
<1>2. CASE End(r) /\ UNCHANGED objects BY <1>1, <1>2, PlainEndHolds
<1>3. CASE /\ <<request[r].image, r>> \in objects
           /\ objects' = objects \cup {<<request[r].image, "key">>}
           /\ request' = [request EXCEPT ![r].at = "clearing"]
  <2>1. "clearing" \in Stages BY DEF Stages, DeleteStages
  <2>2. /\ request' \in [Uploaders -> RequestRow]
        /\ \A q \in Uploaders : q # r => request'[q] = request[q]
        /\ request'[r].at = "clearing" /\ request'[r].image = request[r].image
        /\ request'[r].row = request[r].row /\ request'[r].locks = request[r].locks
        /\ request[r].image \in Images /\ request[r].row \in MediaRow
    BY <1>1, <1>3, <2>1, StageMoves
  <2>3. About(request[r]) /\ DeleteTrue(r) BY RequestTyped
  <2>4. request[r].row.status = "deleted" /\ request[r].locks = {}
    BY <1>1, <2>3 DEF About, DeleteStages
  <2>5. BytesOfRows'
    <3>1. objects \subseteq objects' /\ <<request'[r].image, "key">> \in objects' BY <1>3, <2>2
    <3>2. QED BY <1>1, <2>2, <3>1, BytesStay
  <2>6. About(request'[r]) BY <2>2, <2>4 DEF About, UploadStages, DeleteStages
  <2>7. UploadTrue(r)' BY <2>2 DEF UploadTrue, Uploads, Inserted
  <2>8. DeleteTrue(r)'
    BY <1>1, <1>3, <2>2, <2>3 DEF DeleteTrue, Deletes, Marked, DeleteStages
  <2>9. LocksTrue(r)' /\ ~Inserted(request'[r]) BY <2>2 DEF LocksTrue, Inserted
  <2>10. /\ objects' \subseteq Images \X ({"key"} \cup Uploaders)
         /\ \A j \in Images, q \in Uploaders : <<j, q>> \in objects' <=> <<j, q>> \in objects
         /\ \A j \in Images : j # request[r].image => (<<j, "key">> \in objects' <=> <<j, "key">> \in objects)
    BY <1>3, <2>2, MediaAssumption DEF MediaInv, MediaTyped
  <2>11. QED BY <1>1, <2>2, <2>4, <2>5, <2>6, <2>7, <2>8, <2>9, <2>10, RowsUntouched
<1>4. QED BY <1>2, <1>3 DEF RestoreCopy, Goto, Tombstone, Original

LEMMA CommitFailsHolds ==
    ASSUME MediaInv, NEW r \in Uploaders, CommitFails(r)
    PROVE  MediaInv'
<1> DEFINE s == Undo(r)
<1>1. /\ UNCHANGED <<media, objects, unanswered>> /\ request[r].at = "committing"
      /\ request' = [request EXCEPT ![r].at = s, ![r].locks = {}]
  BY DEF CommitFails, At
<1>2. /\ s \in Stages /\ {} \in SUBSET Images
      /\ IF request[r].row.status = "deleted" THEN s = "restoring" ELSE s = "undoing"
  BY DEF Undo, Deleting, Stages, UploadStages, DeleteStages
<1> HIDE DEF s
<1>3. /\ request' \in [Uploaders -> RequestRow]
      /\ \A q \in Uploaders : q # r => request'[q] = request[q]
      /\ request'[r].at = s /\ request'[r].image = request[r].image
      /\ request'[r].row = request[r].row /\ request'[r].locks = {}
      /\ request[r].image \in Images /\ request[r].row \in MediaRow
  BY <1>1, <1>2, LocksMove
<1>4. About(request[r]) /\ UploadTrue(r) /\ DeleteTrue(r) BY RequestTyped
<1>5. request[r].row.status \in {"active", "deleted"} BY <1>1, <1>4 DEF About
<1>6. objects' \subseteq Images \X ({"key"} \cup Uploaders) BY <1>1 DEF MediaInv, MediaTyped
<1>7. BytesOfRows' BY <1>1, <1>2, <1>3, BytesStay
<1>8. About(request'[r]) BY <1>2, <1>3, <1>5 DEF About, UploadStages, DeleteStages
<1>9. UploadTrue(r)'
  BY <1>1, <1>2, <1>3, <1>4, <1>5 DEF UploadTrue, Uploads, Inserted
<1>10. DeleteTrue(r)'
  BY <1>1, <1>2, <1>3, <1>4, <1>5 DEF DeleteTrue, Deletes, Marked, DeleteStages
<1>11. LocksTrue(r)' /\ ~Inserted(request'[r]) BY <1>2, <1>3 DEF LocksTrue, Inserted
<1>12. QED BY <1>1, <1>3, <1>6, <1>7, <1>8, <1>9, <1>10, <1>11, RowsUntouched

-----------------------------------------------------------------------------
\* A transaction that commits writes its own row and archives those it holds:
\* an upload the active images of its single type, a deletion none.
LEMMA CommitWrites ==
    ASSUME MediaInv, NEW r \in Uploaders, request[r].at = "committing", media' = Written(r)
    PROVE  /\ media' \in [Images -> MediaRow \cup {NoMedia}]
           /\ request[r].image \in Images /\ request[r].row \in MediaRow
           /\ request[r].row.status \in {"active", "deleted"}
           /\ media'[request[r].image] = request[r].row
           /\ request[r].row.status = "active" => media[request[r].image] = NoMedia
           /\ request[r].row.status = "deleted" =>
                /\ NotDeleted(request[r].image) /\ request[r].locks = {request[r].image}
                /\ media[request[r].image].type = request[r].row.type
           /\ \A i \in request[r].locks \ {request[r].image} :
                /\ i \in ActiveOf(request[r].row.type) /\ request[r].row.type \in Singles
                /\ request[r].row.status = "active"
                /\ media'[i] \in MediaRow /\ media'[i].status = "archived"
                /\ media'[i].type = media[i].type
           /\ \A i \in Images : i \notin request[r].locks => media'[i] = media[i]
           /\ request[r].image \in request[r].locks
<1>1. request[r] \in RequestRow /\ About(request[r]) /\ UploadTrue(r) /\ DeleteTrue(r) /\ LocksTrue(r)
  BY RequestTyped
<1>2. /\ request[r].image \in Images /\ request[r].row \in MediaRow
      /\ request[r].row.status \in {"active", "deleted"} /\ request[r].locks \subseteq Images
  BY <1>1 DEF About, RequestRow
<1>3. request[r].row.status = "active" =>
        /\ media[request[r].image] = NoMedia /\ request[r].image \in request[r].locks
        /\ request[r].locks \ {request[r].image}
             = IF request[r].row.type \in Singles THEN ActiveOf(request[r].row.type) ELSE {}
  BY <1>1 DEF UploadTrue, LocksTrue, Uploads, Inserted
<1>4. request[r].row.status = "deleted" =>
        /\ NotDeleted(request[r].image) /\ request[r].locks = {request[r].image}
        /\ media[request[r].image].type = request[r].row.type
  BY <1>1 DEF DeleteTrue, Deletes, Marked
<1>5. ASSUME NEW i \in request[r].locks \ {request[r].image}
      PROVE  /\ i \in ActiveOf(request[r].row.type) /\ request[r].row.type \in Singles
             /\ request[r].row.status = "active"
             /\ media'[i] \in MediaRow /\ media'[i].status = "archived"
             /\ media'[i].type = media[i].type
  <2>1. request[r].row.status = "active" /\ request[r].row.type \in Singles
        /\ i \in ActiveOf(request[r].row.type)
    BY <1>2, <1>3, <1>4, <1>5
  <2>2. media[i] \in MediaRow BY <2>1 DEF ActiveOf, NotDeleted, MediaInv, MediaTyped
  <2>3. media'[i] = [media[i] EXCEPT !.status = "archived", !.version = @ + 1]
    BY <1>2, <1>5 DEF Written
  <2>4. QED BY <2>1, <2>2, <2>3, NextRow
<1>6. request[r].image \in request[r].locks BY <1>2, <1>3, <1>4
<1>7. /\ media'[request[r].image] = request[r].row
      /\ \A i \in Images : i \notin request[r].locks => media'[i] = media[i]
  BY <1>2, <1>6 DEF Written
<1>8. media' \in [Images -> MediaRow \cup {NoMedia}]
  <2>1. \A i \in Images : media[i] \in MediaRow \cup {NoMedia} BY DEF MediaInv, MediaTyped
  <2>2. \A i \in Images : media'[i] \in MediaRow \cup {NoMedia} BY <1>2, <1>5, <1>7, <2>1
  <2>3. media' = [i \in Images |-> media'[i]] BY DEF Written
  <2>4. QED BY <2>2, <2>3
<1>9. QED BY <1>2, <1>3, <1>4, <1>5, <1>6, <1>7, <1>8

\* The end of a transaction that committed, with or without an answer.
LEMMA CommittedHolds ==
    ASSUME MediaInv, NEW r \in Uploaders, request[r].at = "committing", media' = Written(r),
           objects' = objects, unanswered \subseteq unanswered', unanswered' \subseteq Images,
           request' \in [Uploaders -> RequestRow],
           \A q \in Uploaders : q # r => request'[q] = request[q],
           request'[r].at \in {"idle", "purging", "restoring", "undoing"},
           request'[r].image \in {request[r].image, NoMedia}, request'[r].locks = {},
           About(request'[r]), UploadTrue(r)', DeleteTrue(r)', LocksTrue(r)'
    PROVE  MediaInv'
<1> DEFINE x == request[r].image
           t == request[r].row.type
<1>1. /\ media' \in [Images -> MediaRow \cup {NoMedia}]
      /\ x \in Images /\ request[r].row \in MediaRow
      /\ request[r].row.status \in {"active", "deleted"}
      /\ media'[x] = request[r].row
      /\ request[r].row.status = "active" => media[x] = NoMedia
      /\ request[r].row.status = "deleted" =>
           /\ NotDeleted(x) /\ request[r].locks = {x} /\ media[x].type = t
      /\ \A i \in request[r].locks \ {x} :
           /\ i \in ActiveOf(t) /\ t \in Singles /\ request[r].row.status = "active"
           /\ media'[i] \in MediaRow /\ media'[i].status = "archived"
           /\ media'[i].type = media[i].type
      /\ \A i \in Images : i \notin request[r].locks => media'[i] = media[i]
      /\ x \in request[r].locks
  BY CommitWrites
<1>2. MediaTyped' BY <1>1 DEF MediaInv, MediaTyped
<1>3. request[r] \in RequestRow /\ UploadTrue(r) /\ DeleteTrue(r) /\ LocksTrue(r) BY RequestTyped
\* Rows stay rows of their type.
<1>4. ASSUME NEW i \in Images, media[i] # NoMedia
      PROVE  media'[i] # NoMedia /\ media'[i].type = media[i].type
             /\ (media[i].status = "deleted" => media'[i].status = "deleted")
  <2>1. media[i] \in MediaRow BY <1>4 DEF MediaInv, MediaTyped
  <2>2. CASE i \notin request[r].locks BY <1>1, <1>4, <2>2
  <2>3. CASE i \in request[r].locks \ {x} BY <1>1, <2>1, <2>3, MediaAssumption DEF ActiveOf, NotDeleted
  <2>4. CASE i = x
    <3>1. request[r].row.status = "deleted" BY <1>1, <1>4, <2>4
    <3>2. QED BY <1>1, <2>4, <3>1, MediaAssumption
  <2>5. QED BY <2>2, <2>3, <2>4
\* The requests beside it hold none of its rows.
<1>5. ASSUME NEW q \in Uploaders, q # r
      PROVE  About(request[q])' /\ UploadTrue(q)' /\ DeleteTrue(q)' /\ LocksTrue(q)'
  <2>1. request'[q] = request[q] /\ request[q] \in RequestRow
        /\ About(request[q]) /\ UploadTrue(q) /\ DeleteTrue(q) /\ LocksTrue(q)
    BY <1>5, RequestTyped
  <2>2. request[q].at # "idle" => request[q].image \in Images BY <2>1 DEF About
  <2>3. request[q].locks \cap request[r].locks = {} BY <1>5 DEF MediaInv, LockedOnce
  <2>4. x # request[q].image \/ request[r].row.status = "deleted"
    BY <1>1, <1>3, <1>5 DEF UploadTrue, Uploads, Inserted
  <2>5. About(request[q])' BY <2>1
  <2>6. UploadTrue(q)'
    <3>1. ASSUME request[q].at # "idle", media[request[q].image] = NoMedia
          PROVE  media'[request[q].image] = NoMedia
      <4>1. request[q].image \notin request[r].locks
        BY <1>1, <2>2, <2>4, <3>1 DEF ActiveOf, NotDeleted
      <4>2. QED BY <1>1, <2>2, <3>1, <4>1
    <3>2. ASSUME Uploads(request[q]), NEW o \in Uploaders, o # q
          PROVE  request'[o].image # request[q].image
      BY <1>5, <2>1, <2>2, <3>2, MediaAssumption DEF UploadTrue, Uploads, Inserted
    <3>3. QED BY <2>1, <3>1, <3>2 DEF UploadTrue, Uploads, Inserted
  <2>7. DeleteTrue(q)'
    <3>1. Deletes(request[q]) =>
            media'[request[q].image] # NoMedia /\ media'[request[q].image].type = request[q].row.type
      BY <1>4, <2>1, <2>2 DEF DeleteTrue, Deletes, Marked, DeleteStages
    <3>2. request[q].at = "purging" => media'[request[q].image].status = "deleted"
      BY <1>4, <2>1, <2>2 DEF DeleteTrue, Deletes, DeleteStages
    <3>3. Marked(request[q]) =>
            media'[request[q].image] # NoMedia /\ media'[request[q].image].status # "deleted"
      BY <1>1, <2>1, <2>2, <2>3 DEF DeleteTrue, Marked, NotDeleted
    <3>4. QED BY <2>1, <3>1, <3>2, <3>3 DEF DeleteTrue, Deletes, Marked, NotDeleted
  <2>8. LocksTrue(q)'
    <3>1. \A i \in request[q].locks : i \in Images => media'[i] = media[i] BY <1>1, <2>3
    <3>2. request[q].locks \subseteq Images BY <2>1 DEF RequestRow
    <3>3. request[q].at = "inserting" => request[q].locks \subseteq ActiveOf(request[q].row.type)'
      BY <2>1, <3>1, <3>2 DEF LocksTrue, ActiveOf, NotDeleted
    <3>4. ASSUME Inserted(request[q]), request[q].row.type \in Singles
          PROVE  ActiveOf(request[q].row.type)' = ActiveOf(request[q].row.type)
      <4> DEFINE u == request[q].row.type
      <4>1. ActiveOf(u) = request[q].locks \ {request[q].image}
        BY <2>1, <3>4 DEF LocksTrue
      <4>2. request[r].row.status = "active" => t # u
        BY <1>5, <3>4 DEF MediaInv, InsertedOnce, Inserted
      <4>3. ASSUME NEW i \in Images PROVE i \in ActiveOf(u)' <=> i \in ActiveOf(u)
        <5>1. CASE i \notin request[r].locks BY <1>1, <2>1, <5>1 DEF ActiveOf, NotDeleted
        <5>2. CASE i \in request[r].locks
          <6>1. i \notin ActiveOf(u) BY <2>3, <4>1, <5>2
          <6>2. CASE i = x
            <7>1. ~(request[r].row.status = "active" /\ t = u) BY <4>2
            <7>2. QED BY <1>1, <2>1, <6>1, <6>2, <7>1 DEF ActiveOf, NotDeleted
          <6>3. CASE i # x BY <1>1, <2>1, <5>2, <6>1, <6>3 DEF ActiveOf, NotDeleted
          <6>4. QED BY <6>2, <6>3
        <5>3. QED BY <5>1, <5>2
      <4>4. QED BY <2>1, <4>3 DEF ActiveOf
    <3>5. QED BY <2>1, <3>3, <3>4 DEF LocksTrue, Inserted
  <2>9. QED BY <2>5, <2>6, <2>7, <2>8
<1>6. LockedOnce' BY DEF MediaInv, LockedOnce
<1>7. InsertedOnce'
  <2>1. ~Inserted(request'[r]) BY DEF Inserted
  <2>2. QED BY <2>1 DEF MediaInv, InsertedOnce, Inserted
<1>8. BytesOfRows'
  <2>1. ASSUME NEW i \in Images, NotDeleted(i)', i \notin unanswered' PROVE Solid(i)'
    <3>1. Solid(i)
      <4>1. CASE NotDeleted(i) BY <2>1, <4>1 DEF MediaInv, BytesOfRows
      <4>2. CASE ~NotDeleted(i)
        <5>1. i = x /\ request[r].row.status = "active"
          BY <1>1, <2>1, <4>2 DEF NotDeleted, ActiveOf
        <5>2. QED BY <1>3, <5>1 DEF Solid, UploadTrue, Uploads, Inserted
      <4>3. QED BY <4>1, <4>2
    <3>2. QED BY <3>1 DEF Solid
  <2>2. QED BY <2>1 DEF BytesOfRows
<1>9. QED BY <1>2, <1>5, <1>6, <1>7, <1>8 DEF MediaInv

LEMMA CommitHolds ==
    ASSUME MediaInv, NEW r \in Uploaders, Commit(r)
    PROVE  MediaInv'
<1>1. /\ UNCHANGED <<objects, unanswered>> /\ request[r].at = "committing"
      /\ media' = Written(r)
  BY DEF Commit, At
<1>2. unanswered' \subseteq Images BY <1>1 DEF MediaInv, MediaTyped
<1>3. CASE request[r].row.status = "deleted"
  <2>1. request' = [request EXCEPT ![r].at = "purging", ![r].locks = {}]
    BY <1>3 DEF Commit, Deleting
  <2>2. "purging" \in Stages /\ {} \in SUBSET Images BY DEF Stages, DeleteStages
  <2>3. /\ request' \in [Uploaders -> RequestRow]
        /\ \A q \in Uploaders : q # r => request'[q] = request[q]
        /\ request'[r].at = "purging" /\ request'[r].image = request[r].image
        /\ request'[r].row = request[r].row /\ request'[r].locks = {}
        /\ request[r].image \in Images /\ request[r].row \in MediaRow
    BY <1>1, <2>1, <2>2, LocksMove
  <2>4. media'[request[r].image] = request[r].row BY <1>1, CommitWrites
  <2>5. About(request'[r]) BY <1>3, <2>3 DEF About, UploadStages, DeleteStages
  <2>6. UploadTrue(r)' BY <2>3 DEF UploadTrue, Uploads, Inserted
  <2>7. DeleteTrue(r)'
    BY <1>3, <2>3, <2>4, MediaAssumption DEF DeleteTrue, Deletes, Marked, DeleteStages
  <2>8. LocksTrue(r)' BY <2>3 DEF LocksTrue, Inserted
  <2>9. QED BY <1>1, <1>2, <2>3, <2>5, <2>6, <2>7, <2>8, CommittedHolds
<1>4. CASE request[r].row.status # "deleted"
  <2>1. End(r) BY <1>4 DEF Commit, Deleting, End
  <2>2. QED BY <1>1, <1>2, <2>1, EndsTrue, CommittedHolds
<1>5. QED BY <1>3, <1>4

LEMMA CommitUnansweredHolds ==
    ASSUME MediaInv, NEW r \in Uploaders, CommitUnanswered(r)
    PROVE  MediaInv'
<1> DEFINE s == Undo(r)
<1>1. /\ UNCHANGED objects /\ request[r].at = "committing" /\ media' = Written(r)
      /\ request' = [request EXCEPT ![r].at = s, ![r].locks = {}]
      /\ unanswered' = unanswered \cup {request[r].image}
  BY DEF CommitUnanswered, At
<1>2. /\ s \in Stages /\ {} \in SUBSET Images
      /\ IF request[r].row.status = "deleted" THEN s = "restoring" ELSE s = "undoing"
  BY DEF Undo, Deleting, Stages, UploadStages, DeleteStages
<1> HIDE DEF s
<1>3. /\ request' \in [Uploaders -> RequestRow]
      /\ \A q \in Uploaders : q # r => request'[q] = request[q]
      /\ request'[r].at = s /\ request'[r].image = request[r].image
      /\ request'[r].row = request[r].row /\ request'[r].locks = {}
      /\ request[r].image \in Images /\ request[r].row \in MediaRow
  BY <1>1, <1>2, LocksMove
<1>4. unanswered' \subseteq Images /\ request[r].image \in unanswered'
  BY <1>1, <1>3 DEF MediaInv, MediaTyped
<1>5. About(request[r]) /\ DeleteTrue(r) BY RequestTyped
<1>6. request[r].row.status \in {"active", "deleted"} /\ media'[request[r].image] = request[r].row
  BY <1>1, CommitWrites
<1>7. About(request'[r]) BY <1>2, <1>3, <1>6 DEF About, UploadStages, DeleteStages
<1>8. UploadTrue(r)' BY <1>2, <1>3, <1>4 DEF UploadTrue, Uploads, Inserted
<1>9. DeleteTrue(r)'
  <2>1. request[r].row.status = "deleted" => <<request[r].image, r>> \in objects'
    BY <1>1, <1>5 DEF DeleteTrue, Marked
  <2>2. media'[request[r].image] # NoMedia BY <1>3, <1>6, MediaAssumption
  <2>3. QED BY <1>2, <1>3, <1>6, <2>1, <2>2 DEF DeleteTrue, Deletes, Marked, DeleteStages
<1>10. LocksTrue(r)' BY <1>2, <1>3 DEF LocksTrue, Inserted
<1>11. QED BY <1>1, <1>2, <1>3, <1>4, <1>7, <1>8, <1>9, <1>10, CommittedHolds

\* Updates and reorderings change versions only.
LEMMA EditHolds ==
    ASSUME MediaInv, NEW S \in SUBSET Images, Edit(S)
    PROVE  MediaInv'
<1>1. UNCHANGED <<objects, request, unanswered>> BY DEF Edit
<1>2. ASSUME NEW i \in Images
      PROVE  /\ media'[i] \in MediaRow \cup {NoMedia}
             /\ media'[i] = NoMedia <=> media[i] = NoMedia
             /\ media'[i] # NoMedia => /\ media'[i].type = media[i].type
                                       /\ media'[i].status = media[i].status
  <2>1. media[i] \in MediaRow \cup {NoMedia} BY DEF MediaInv, MediaTyped
  <2>2. CASE i \notin S BY <2>1, <2>2 DEF Edit
  <2>3. CASE i \in S
    <3>1. media[i] \in MediaRow /\ media'[i] = [media[i] EXCEPT !.version = @ + 1]
      BY <2>1, <2>3 DEF Edit, NotDeleted
    <3>2. media[i].version + 1 \in Nat BY <3>1 DEF MediaRow
    <3>3. media'[i] \in MediaRow /\ media'[i].type = media[i].type
          /\ media'[i].status = media[i].status
      BY <3>1, <3>2 DEF MediaRow
    <3>4. QED BY <3>1, <3>3, MediaAssumption
  <2>4. QED BY <2>2, <2>3
<1>3. media' \in [Images -> MediaRow \cup {NoMedia}]
  <2>1. media' = [i \in Images |-> media'[i]] BY DEF Edit
  <2>2. \A i \in Images : media'[i] \in MediaRow \cup {NoMedia} BY <1>2
  <2>3. QED BY <2>1, <2>2
<1>4. \A i \in Images : NotDeleted(i)' <=> NotDeleted(i) BY <1>2 DEF NotDeleted
<1>5. ASSUME NEW t \in MediaTypes PROVE ActiveOf(t)' = ActiveOf(t)
  BY <1>2, <1>4 DEF ActiveOf, NotDeleted
<1>6. ASSUME NEW q \in Uploaders
      PROVE  About(request[q])' /\ UploadTrue(q)' /\ DeleteTrue(q)' /\ LocksTrue(q)'
  <2>1. request[q] \in RequestRow
        /\ About(request[q]) /\ UploadTrue(q) /\ DeleteTrue(q) /\ LocksTrue(q)
    BY RequestTyped
  <2>2. request[q].at # "idle" => request[q].image \in Images /\ request[q].row.type \in MediaTypes
    BY <2>1 DEF About, MediaRow
  <2>3. About(request[q])' BY <1>1, <2>1
  <2>4. UploadTrue(q)' BY <1>1, <1>2, <2>1, <2>2 DEF UploadTrue, Uploads, Inserted
  <2>5. DeleteTrue(q)'
    BY <1>1, <1>2, <1>4, <2>1, <2>2 DEF DeleteTrue, Deletes, Marked, DeleteStages
  <2>6. LocksTrue(q)' BY <1>1, <1>5, <2>1, <2>2 DEF LocksTrue, Inserted
  <2>7. QED BY <2>3, <2>4, <2>5, <2>6
<1>7. LockedOnce' /\ InsertedOnce' BY <1>1 DEF MediaInv, LockedOnce, InsertedOnce, Inserted
<1>8. BytesOfRows' BY <1>1, <1>4 DEF MediaInv, BytesOfRows, Solid
<1>9. MediaTyped' BY <1>1, <1>3 DEF MediaInv, MediaTyped
<1>10. QED BY <1>6, <1>7, <1>8, <1>9 DEF MediaInv

\* The inductive invariant: through crashes, refused calls and concurrent
\* requests, the bytes of a live row whose commit was answered are there, and
\* an inserted logo has archived every active one.
THEOREM MediaInductive == MediaSpec => []MediaInv
<1>1. ASSUME MediaInit PROVE MediaInv
  <2>1. PICK t \in Singles :
          media = [i \in Images |-> IF i = 1
                    THEN [type |-> t, status |-> "active", version |-> 1,
                          checksum |-> CHOOSE c \in Checksums : TRUE]
                    ELSE NoMedia]
    BY <1>1 DEF MediaInit
  <2>2. (CHOOSE c \in Checksums : TRUE) \in Checksums BY MediaAssumption
  <2>3. [type |-> t, status |-> "active", version |-> 1,
         checksum |-> CHOOSE c \in Checksums : TRUE] \in MediaRow
    BY <2>2, MediaAssumption DEF MediaRow
  <2>4. media \in [Images -> MediaRow \cup {NoMedia}] BY <2>1, <2>3
  <2>5. /\ objects = {<<i, "key">> : i \in {j \in Images : media[j] # NoMedia}}
        /\ request = [r \in Uploaders |-> Resting] /\ unanswered = {}
    BY <1>1 DEF MediaInit
  <2>6. MediaTyped BY <2>4, <2>5, RestingTyped DEF MediaTyped
  <2>7. ASSUME NEW q \in Uploaders
        PROVE  About(request[q]) /\ UploadTrue(q) /\ DeleteTrue(q) /\ LocksTrue(q)
    <3>1. request[q] = Resting /\ request[q].at = "idle" /\ request[q].locks = {}
      BY <2>5, RestingTyped
    <3>2. About(request[q]) BY <3>1 DEF About, UploadStages, DeleteStages
    <3>3. UploadTrue(q) BY <3>1 DEF UploadTrue, Uploads, Inserted
    <3>4. DeleteTrue(q) BY <3>1 DEF DeleteTrue, Deletes, Marked, DeleteStages
    <3>5. LocksTrue(q) BY <3>1 DEF LocksTrue, Inserted
    <3>6. QED BY <3>2, <3>3, <3>4, <3>5
  <2>8. \A q \in Uploaders : request[q].at = "idle" /\ request[q].locks = {}
    BY <2>5, RestingTyped
  <2>9. LockedOnce /\ InsertedOnce BY <2>8 DEF LockedOnce, InsertedOnce, Inserted
  <2>10. BytesOfRows BY <2>5 DEF BytesOfRows, Solid, NotDeleted
  <2>11. QED BY <2>6, <2>7, <2>9, <2>10 DEF MediaInv
<1>2. ASSUME MediaInv, [MediaNext]_mediaVars PROVE MediaInv'
  \* A stutter is an update of no row.
  <2>1. CASE UNCHANGED mediaVars
    <3>1. Edit({}) BY <1>2, <2>1 DEF Edit, mediaVars, MediaInv, MediaTyped
    <3>2. QED BY <1>2, <3>1, EditHolds
  <2>2. ASSUME NEW r \in Uploaders, NEW i \in Images, StartDelete(r, i) PROVE MediaInv'
    BY <1>2, <2>2, StartDeleteHolds
  <2>3. ASSUME NEW r \in Uploaders, NEW i \in Images, NEW t \in MediaTypes, NEW c \in Checksums,
               StartUpload(r, i, t, c)
        PROVE  MediaInv'
    BY <1>2, <2>3, StartUploadHolds
  <2>4. ASSUME NEW r \in Uploaders,
               Put(r) \/ ReadActive(r) \/ ArchiveActive(r) \/ Insert(r)
        PROVE  MediaInv'
    BY <1>2, <2>4, PutHolds, ReadActiveHolds, ArchiveActiveHolds, InsertHolds
  <2>5. ASSUME NEW r \in Uploaders, Copy(r) \/ RemoveSource(r) \/ SoftDelete(r) PROVE MediaInv'
    BY <1>2, <2>5, CopyHolds, RemoveSourceHolds, SoftDeleteHolds
  <2>6. ASSUME NEW r \in Uploaders, CopyMissing(r) \/ Crash(r) PROVE MediaInv'
    BY <1>2, <2>6, PlainEndHolds DEF CopyMissing, Crash
  <2>7. ASSUME NEW r \in Uploaders, Commit(r) \/ CommitFails(r) \/ CommitUnanswered(r)
        PROVE  MediaInv'
    BY <1>2, <2>7, CommitHolds, CommitFailsHolds, CommitUnansweredHolds
  <2>8. ASSUME NEW r \in Uploaders, RestoreClear(r) PROVE MediaInv'
    BY <1>2, <2>8, RestoreClearHolds DEF RestoreClear, At, Tombstone
  <2>9. ASSUME NEW r \in Uploaders, Purge(r) \/ RestoreCopy(r) \/ UndoUpload(r) \/ DeletionRefused(r)
        PROVE  MediaInv'
    BY <1>2, <2>9, PurgeHolds, RestoreCopyHolds, UndoUploadHolds, DeletionRefusedHolds
  <2>10. ASSUME NEW i \in Images, Update(i) PROVE MediaInv'
    BY <1>2, <2>10, EditHolds DEF Update
  <2>11. ASSUME NEW S \in SUBSET Images, Reorder(S) PROVE MediaInv'
    BY <1>2, <2>11, EditHolds DEF Reorder
  <2>12. QED BY <1>2, <2>1, <2>2, <2>3, <2>4, <2>5, <2>6, <2>7, <2>8, <2>9, <2>10, <2>11 DEF MediaNext
<1>3. QED BY <1>1, <1>2, PTL DEF MediaSpec

-----------------------------------------------------------------------------
\* The refinement: what the shelf shows of a row, and the images with bytes.
Entry(row) == IF row = NoMedia THEN NoMedia ELSE [type |-> row.type, status |-> row.status]
ShelfOf == [i \in Images |-> IF media[i] = NoMedia THEN NoMedia
                             ELSE [type |-> media[i].type, status |-> media[i].status]]
KeptOf == {i \in Images : i \in unanswered \/ \E k \in objects : k[1] = i}

LEMMA ShelfEntry ==
    ASSUME NEW i \in Images
    PROVE  ShelfOf[i] = Entry(media[i])
BY DEF ShelfOf, Entry

LEMMA ShelfShows ==
    ASSUME MediaInv, NEW i \in Images
    PROVE  /\ ShelfOf[i] = NoMedia <=> media[i] = NoMedia
           /\ Shelf!Shown(i) <=> NotDeleted(i)
           /\ \A t \in MediaTypes : i \in Shelf!Active(t) <=> i \in ActiveOf(t)
<1>1. media[i] \in MediaRow \cup {NoMedia} BY DEF MediaInv, MediaTyped
<1>2. media[i] # NoMedia => [type |-> media[i].type, status |-> media[i].status] # NoMedia
  BY <1>1, MediaAssumption DEF MediaRow
<1>3. ShelfOf[i] = NoMedia <=> media[i] = NoMedia BY <1>2 DEF ShelfOf
<1>4. Shelf!Shown(i) <=> NotDeleted(i) BY <1>2 DEF Shelf!Shown, NotDeleted
<1>5. ASSUME NEW t \in MediaTypes PROVE i \in Shelf!Active(t) <=> i \in ActiveOf(t)
  <2>1. [type |-> t, status |-> "active"] # NoMedia BY MediaAssumption
  <2>2. CASE media[i] = NoMedia BY <2>1, <2>2 DEF Shelf!Active, ActiveOf, NotDeleted
  <2>3. CASE media[i] # NoMedia BY <1>2, <2>3 DEF Shelf!Active, ActiveOf, NotDeleted
  <2>4. QED BY <2>2, <2>3
<1>6. QED BY <1>3, <1>4, <1>5

\* The bytes of an image are its original and its tombstones.
LEMMA KeptBytes ==
    ASSUME MediaInv, NEW i \in Images
    PROVE  i \in KeptOf <=> \/ i \in unanswered
                            \/ \E n \in {"key"} \cup Uploaders : <<i, n>> \in objects
<1>1. ASSUME NEW k \in objects, k[1] = i PROVE \E n \in {"key"} \cup Uploaders : <<i, n>> \in objects
  <2>1. k \in Images \X ({"key"} \cup Uploaders) BY DEF MediaInv, MediaTyped
  <2>2. k = <<i, k[2]>> /\ k[2] \in {"key"} \cup Uploaders BY <1>1, <2>1
  <2>3. QED BY <1>1, <2>2
<1>2. ASSUME NEW n \in {"key"} \cup Uploaders, <<i, n>> \in objects PROVE \E k \in objects : k[1] = i
  <2>1. <<i, n>>[1] = i OBVIOUS
  <2>2. QED BY <1>2, <2>1
<1>3. QED BY <1>1, <1>2 DEF KeptOf

\* A live image has its bytes, whoever still works on it.
LEMMA LiveIsKept ==
    ASSUME MediaInv, NEW i \in Images, NotDeleted(i)
    PROVE  i \in KeptOf
BY KeptBytes DEF MediaInv, BytesOfRows, Solid

\* The invariant in the next state gives the same there.
LEMMA KeptBytesNext ==
    ASSUME MediaInv', NEW i \in Images
    PROVE  /\ i \in KeptOf' <=> \/ i \in unanswered'
                                \/ \E n \in {"key"} \cup Uploaders : <<i, n>> \in objects'
           /\ NotDeleted(i)' => i \in KeptOf'
<1>1. ASSUME NEW k \in objects', k[1] = i PROVE \E n \in {"key"} \cup Uploaders : <<i, n>> \in objects'
  <2>1. k \in Images \X ({"key"} \cup Uploaders) BY DEF MediaInv, MediaTyped
  <2>2. k = <<i, k[2]>> /\ k[2] \in {"key"} \cup Uploaders BY <1>1, <2>1
  <2>3. QED BY <1>1, <2>2
<1>2. ASSUME NEW n \in {"key"} \cup Uploaders, <<i, n>> \in objects' PROVE \E k \in objects' : k[1] = i
  <2>1. <<i, n>>[1] = i OBVIOUS
  <2>2. QED BY <1>2, <2>1
<1>3. i \in KeptOf' <=> \/ i \in unanswered'
                        \/ \E n \in {"key"} \cup Uploaders : <<i, n>> \in objects'
  BY <1>1, <1>2 DEF KeptOf
<1>4. QED BY <1>3 DEF MediaInv, BytesOfRows, Solid

\* A step that leaves type and status of the rows, and the images with bytes.
LEMMA ShelfStutters ==
    ASSUME MediaInv, MediaInv', \A i \in Images : Entry(media'[i]) = Entry(media[i]),
           \A i \in Images : i \in KeptOf' <=> i \in KeptOf
    PROVE  UNCHANGED Shelf!shelfVars
<1>1. ShelfOf' = ShelfOf BY DEF ShelfOf, Entry
<1>2. KeptOf' = KeptOf BY DEF KeptOf
<1>3. QED BY <1>1, <1>2 DEF Shelf!shelfVars, ShelfOf, KeptOf

\* Whatever a request deletes from the bucket, the last bytes of an image go
\* only when nothing shows it.
LEMMA RemovalForgets ==
    ASSUME MediaInv, MediaInv', UNCHANGED <<media, unanswered>>,
           NEW x \in Images, NEW n \in {"key"} \cup Uploaders, objects' = objects \ {<<x, n>>}
    PROVE  [Shelf!ShelfNext]_(Shelf!shelfVars)
<1>1. \A i \in Images : i # x => (i \in KeptOf' <=> i \in KeptOf)
  BY KeptBytes, KeptBytesNext
<1>2. x \in KeptOf' => x \in KeptOf BY KeptBytes, KeptBytesNext
<1>3. CASE x \in KeptOf' \/ x \notin KeptOf
  <2>1. \A i \in Images : i \in KeptOf' <=> i \in KeptOf BY <1>1, <1>2, <1>3
  <2>2. QED BY <2>1, ShelfStutters
<1>4. CASE x \notin KeptOf' /\ x \in KeptOf
  <2>1. ~NotDeleted(x) BY <1>4, KeptBytesNext DEF NotDeleted
  <2>2. ~Shelf!Shown(x) BY <2>1, ShelfShows
  <2>3. KeptOf' = KeptOf \ {x} BY <1>1, <1>4 DEF KeptOf
  <2>4. ShelfOf' = ShelfOf BY DEF ShelfOf
  <2>5. Shelf!Forget(x) BY <1>4, <2>2, <2>3, <2>4 DEF Shelf!Forget, KeptOf, ShelfOf
  <2>6. QED BY <2>5 DEF Shelf!ShelfNext
<1>5. QED BY <1>3, <1>4

\* Nothing the shelf shows changes when rows, bytes and answers stay.
LEMMA NothingShows ==
    ASSUME MediaInv, MediaInv', UNCHANGED <<media, objects, unanswered>>
    PROVE  [Shelf!ShelfNext]_(Shelf!shelfVars)
<1>1. \A i \in Images : i \in KeptOf' <=> i \in KeptOf BY DEF KeptOf
<1>2. QED BY <1>1, ShelfStutters

\* The first call of an upload brings bytes no row refers to yet; a copy of an
\* object is not seen.
LEMMA AdditionKeeps ==
    ASSUME MediaInv, MediaInv', UNCHANGED <<media, unanswered>>,
           NEW x \in Images, NEW n \in {"key"} \cup Uploaders, objects' = objects \cup {<<x, n>>},
           media[x] = NoMedia \/ x \in KeptOf
    PROVE  [Shelf!ShelfNext]_(Shelf!shelfVars)
<1>1. \A i \in Images : i # x => (i \in KeptOf' <=> i \in KeptOf)
  BY KeptBytes, KeptBytesNext
<1>2. x \in KeptOf' BY KeptBytesNext
<1>3. CASE x \in KeptOf
  <2>1. \A i \in Images : i \in KeptOf' <=> i \in KeptOf BY <1>1, <1>2, <1>3
  <2>2. QED BY <2>1, ShelfStutters
<1>4. CASE x \notin KeptOf
  <2>1. ShelfOf[x] = NoMedia BY <1>4, ShelfShows
  <2>2. KeptOf' = KeptOf \cup {x} BY <1>1, <1>2 DEF KeptOf
  <2>3. ShelfOf' = ShelfOf BY DEF ShelfOf
  <2>4. Shelf!Keep(x) BY <1>4, <2>1, <2>2, <2>3 DEF Shelf!Keep, KeptOf, ShelfOf
  <2>5. QED BY <2>4 DEF Shelf!ShelfNext
<1>5. QED BY <1>3, <1>4

LEMMA ShelfSteps ==
    ASSUME NEW i \in Images, NEW t \in MediaTypes, Shelf!Publish(i, t) \/ Shelf!Withdraw(i)
    PROVE  [Shelf!ShelfNext]_(Shelf!shelfVars)
BY DEF Shelf!ShelfNext

\* A commit publishes the new image and archives the active ones of its single
\* type in one step, or withdraws the deleted one.
LEMMA CommitPublishes ==
    ASSUME MediaInv, MediaInv', NEW r \in Uploaders, request[r].at = "committing",
           media' = Written(r), objects' = objects,
           unanswered' \in {unanswered, unanswered \cup {request[r].image}}
    PROVE  [Shelf!ShelfNext]_(Shelf!shelfVars)
<1> DEFINE x == request[r].image
           t == request[r].row.type
<1>1. /\ media' \in [Images -> MediaRow \cup {NoMedia}]
      /\ x \in Images /\ request[r].row \in MediaRow
      /\ request[r].row.status \in {"active", "deleted"}
      /\ media'[x] = request[r].row
      /\ request[r].row.status = "active" => media[x] = NoMedia
      /\ request[r].row.status = "deleted" =>
           /\ NotDeleted(x) /\ request[r].locks = {x} /\ media[x].type = t
      /\ \A i \in request[r].locks \ {x} :
           /\ i \in ActiveOf(t) /\ t \in Singles /\ request[r].row.status = "active"
           /\ media'[i] \in MediaRow /\ media'[i].status = "archived"
           /\ media'[i].type = media[i].type
      /\ \A i \in Images : i \notin request[r].locks => media'[i] = media[i]
      /\ x \in request[r].locks
  BY CommitWrites
<1>2. request[r] \in RequestRow /\ UploadTrue(r) /\ DeleteTrue(r) /\ LocksTrue(r) BY RequestTyped
<1>3. x \in KeptOf
  <2>1. request[r].row.status = "active" => <<x, "key">> \in objects
    BY <1>2 DEF UploadTrue, Uploads, Inserted
  <2>2. request[r].row.status = "deleted" => <<x, r>> \in objects
    BY <1>2 DEF DeleteTrue, Marked
  <2>3. QED BY <1>1, <2>1, <2>2, KeptBytes
<1>4. \A i \in Images : i \in KeptOf' <=> i \in KeptOf
  BY <1>1, <1>3, KeptBytes, KeptBytesNext
<1>5. KeptOf' = KeptOf BY <1>4 DEF KeptOf
<1>6. t \in MediaTypes BY <1>1 DEF MediaRow
<1>7. \A i \in Images : ShelfOf'[i] = Entry(media'[i]) BY DEF ShelfOf, Entry
<1>11. PICK i \in Images : i = x BY <1>1
<1>12. PICK u \in MediaTypes : u = t BY <1>6
<1>8. CASE request[r].row.status = "active"
  <2>1. /\ t \in Singles => ActiveOf(t) \subseteq request[r].locks \ {x}
        /\ t \notin Singles => request[r].locks = {x}
    BY <1>1, <1>2, <1>8 DEF LocksTrue, Inserted
  <2>2. media'[x] # NoMedia BY <1>1, MediaAssumption
  <2>3. ShelfOf'[x] = [type |-> t, status |-> "active"] BY <1>1, <1>7, <1>8, <2>2 DEF Entry
  <2>4. ASSUME NEW j \in Images, j # x
        PROVE  ShelfOf'[j] = IF t \in Singles /\ j \in Shelf!Active(t)
                             THEN [ShelfOf[j] EXCEPT !.status = "archived"] ELSE ShelfOf[j]
    <3>1. CASE t \in Singles /\ j \in ActiveOf(t)
      <4>1. j \in request[r].locks \ {x} BY <2>1, <3>1
      <4>2. media'[j] \in MediaRow /\ media'[j].status = "archived"
            /\ media'[j].type = media[j].type /\ media[j] # NoMedia
        BY <1>1, <3>1, <4>1 DEF ActiveOf, NotDeleted
      <4>3. media'[j] # NoMedia BY <4>2, MediaAssumption
      <4>4. ShelfOf'[j] = [type |-> media[j].type, status |-> "archived"]
        BY <1>7, <4>2, <4>3 DEF Entry
      <4>5. ShelfOf[j] = [type |-> media[j].type, status |-> media[j].status]
        BY <4>2, ShelfEntry DEF Entry
      <4>6. [ShelfOf[j] EXCEPT !.status = "archived"] = [type |-> media[j].type, status |-> "archived"]
        BY <4>5
      <4>7. j \in Shelf!Active(t) BY <1>6, <3>1, ShelfShows
      <4>8. QED BY <3>1, <4>4, <4>6, <4>7
    <3>2. CASE ~(t \in Singles /\ j \in ActiveOf(t))
      <4>1. j \notin request[r].locks BY <1>1, <2>4, <3>2
      <4>2. ShelfOf'[j] = ShelfOf[j] BY <1>1, <1>7, <4>1, ShelfEntry
      <4>3. ~(t \in Singles /\ j \in Shelf!Active(t)) BY <1>6, <3>2, ShelfShows
      <4>4. QED BY <4>2, <4>3
    <3>3. QED BY <3>1, <3>2
  <2>5. ShelfOf' = [j \in Images |->
           IF j = x THEN [type |-> t, status |-> "active"]
           ELSE IF t \in Singles /\ j \in Shelf!Active(t)
                THEN [ShelfOf[j] EXCEPT !.status = "archived"]
                ELSE ShelfOf[j]]
    <3>1. ShelfOf' = [j \in Images |-> ShelfOf'[j]] BY DEF ShelfOf
    <3>2. QED BY <2>3, <2>4, <3>1
  <2>6. ShelfOf[x] = NoMedia BY <1>1, <1>8, ShelfShows
  <2>7. Shelf!Publish(i, u)
    BY <1>3, <1>5, <1>11, <1>12, <2>5, <2>6 DEF Shelf!Publish, ShelfOf, KeptOf
  <2>8. QED BY <2>7, ShelfSteps
<1>9. CASE request[r].row.status = "deleted"
  <2>1. NotDeleted(x) /\ request[r].locks = {x} /\ media[x].type = t BY <1>1, <1>9
  <2>2. media'[x] # NoMedia BY <1>1, MediaAssumption
  <2>3. ShelfOf'[x] = [type |-> t, status |-> "deleted"] BY <1>1, <1>7, <1>9, <2>2 DEF Entry
  <2>4. ShelfOf[x] = [type |-> t, status |-> media[x].status]
    BY <1>1, <2>1, ShelfEntry DEF Entry, NotDeleted
  <2>5. \A j \in Images : j # x => ShelfOf'[j] = ShelfOf[j] BY <1>1, <1>7, <2>1, ShelfEntry
  <2>6. [ShelfOf[x] EXCEPT !.status = "deleted"] = [type |-> t, status |-> "deleted"] BY <2>4
  <2>7. ShelfOf' = [ShelfOf EXCEPT ![x].status = "deleted"]
    <3>1. ShelfOf' = [j \in Images |-> ShelfOf'[j]] /\ ShelfOf = [j \in Images |-> ShelfOf[j]]
      BY DEF ShelfOf
    <3>2. QED BY <1>1, <2>3, <2>5, <2>6, <3>1
  <2>8. Shelf!Shown(x) BY <1>1, <2>1, ShelfShows
  <2>9. Shelf!Shown(i) BY <1>11, <2>8
  <2>10. Shelf!Withdraw(i) BY <1>5, <1>11, <2>7, <2>9 DEF Shelf!Withdraw, ShelfOf, KeptOf
  <2>11. QED BY <1>12, <2>10, ShelfSteps
<1>10. QED BY <1>1, <1>8, <1>9

\* A step of the requests is a step of the shelf or nothing it shows.
LEMMA ShelfStep ==
    ASSUME MediaInv, MediaInv', [MediaNext]_mediaVars
    PROVE  [Shelf!ShelfNext]_(Shelf!shelfVars)
<1>1. ASSUME NEW r \in Uploaders, UNCHANGED <<media, objects, unanswered>>
      PROVE  [Shelf!ShelfNext]_(Shelf!shelfVars)
  BY <1>1, NothingShows
<1>2. ASSUME UNCHANGED mediaVars PROVE [Shelf!ShelfNext]_(Shelf!shelfVars)
  BY <1>2, NothingShows DEF mediaVars
<1>3. ASSUME NEW r \in Uploaders, request[r].at # "idle"
      PROVE  request[r].image \in Images
  BY <1>3, RequestTyped DEF About
<1>4. ASSUME NEW r \in Uploaders, NEW i \in Images, NEW t \in MediaTypes, NEW c \in Checksums,
             StartDelete(r, i) \/ StartUpload(r, i, t, c)
      PROVE  [Shelf!ShelfNext]_(Shelf!shelfVars)
  BY <1>1, <1>4 DEF StartDelete, StartUpload
<1>5. ASSUME NEW r \in Uploaders,
             \/ ReadActive(r) \/ ArchiveActive(r) \/ Insert(r) \/ CopyMissing(r)
             \/ SoftDelete(r) \/ CommitFails(r) \/ Crash(r)
      PROVE  [Shelf!ShelfNext]_(Shelf!shelfVars)
  BY <1>1, <1>5 DEF ReadActive, ArchiveActive, Insert, CopyMissing, SoftDelete, CommitFails, Crash
<1>6. ASSUME NEW r \in Uploaders, Put(r) PROVE [Shelf!ShelfNext]_(Shelf!shelfVars)
  <2>1. /\ UNCHANGED <<media, unanswered>> /\ request[r].at = "putting"
        /\ objects' = objects \cup {<<request[r].image, "key">>}
    BY <1>6 DEF Put, At, Original
  <2>2. media[request[r].image] = NoMedia BY <2>1, RequestTyped DEF UploadTrue, Uploads
  <2>3. QED BY <1>3, <2>1, <2>2, AdditionKeeps
<1>7. ASSUME NEW r \in Uploaders, Copy(r) PROVE [Shelf!ShelfNext]_(Shelf!shelfVars)
  <2>1. /\ UNCHANGED <<media, unanswered>> /\ request[r].at = "copying"
        /\ objects' = objects \cup {<<request[r].image, r>>}
        /\ <<request[r].image, "key">> \in objects
    BY <1>7 DEF Copy, At, Original, Tombstone
  <2>2. request[r].image \in Images /\ request[r].image \in KeptOf BY <1>3, <2>1, KeptBytes
  <2>3. QED BY <2>1, <2>2, AdditionKeeps
<1>8. ASSUME NEW r \in Uploaders, RestoreCopy(r) PROVE [Shelf!ShelfNext]_(Shelf!shelfVars)
  <2>1. UNCHANGED <<media, unanswered>> /\ request[r].at = "restoring" BY <1>8 DEF RestoreCopy, At
  <2>2. CASE UNCHANGED objects BY <1>1, <2>1, <2>2
  <2>3. CASE /\ <<request[r].image, r>> \in objects
             /\ objects' = objects \cup {<<request[r].image, "key">>}
    <3>1. request[r].image \in Images /\ request[r].image \in KeptOf BY <1>3, <2>1, <2>3, KeptBytes
    <3>2. QED BY <2>1, <2>3, <3>1, AdditionKeeps
  <2>4. QED BY <1>8, <2>2, <2>3 DEF RestoreCopy, Original, Tombstone
<1>9. ASSUME NEW r \in Uploaders,
             \/ RemoveSource(r) \/ Purge(r) \/ RestoreClear(r) \/ UndoUpload(r) \/ DeletionRefused(r)
      PROVE  [Shelf!ShelfNext]_(Shelf!shelfVars)
  <2>1. UNCHANGED <<media, unanswered>> /\ request[r].at # "idle"
    BY <1>9 DEF RemoveSource, Purge, RestoreClear, UndoUpload, DeletionRefused, At
  <2>2. \/ objects' = objects \ {<<request[r].image, r>>}
        \/ objects' = objects \ {<<request[r].image, "key">>}
    BY <1>9 DEF RemoveSource, Purge, RestoreClear, UndoUpload, DeletionRefused, Original, Tombstone
  <2>3. QED BY <1>3, <2>1, <2>2, RemovalForgets
<1>10. ASSUME NEW r \in Uploaders, Commit(r) \/ CommitUnanswered(r)
       PROVE  [Shelf!ShelfNext]_(Shelf!shelfVars)
  BY <1>10, CommitPublishes DEF Commit, CommitUnanswered, At
<1>11. ASSUME NEW S \in SUBSET Images, Edit(S) PROVE [Shelf!ShelfNext]_(Shelf!shelfVars)
  <2>1. ASSUME NEW i \in Images PROVE Entry(media'[i]) = Entry(media[i])
    <3>1. media[i] \in MediaRow \cup {NoMedia} /\ media'[i] \in MediaRow \cup {NoMedia}
      BY DEF MediaInv, MediaTyped
    <3>2. CASE i \notin S BY <1>11, <3>2 DEF Edit
    <3>3. CASE i \in S
      <4>1. media[i] \in MediaRow /\ media'[i] = [media[i] EXCEPT !.version = @ + 1]
        BY <1>11, <3>1, <3>3 DEF Edit, NotDeleted
      <4>2. media[i].version + 1 \in Nat BY <4>1 DEF MediaRow
      <4>3. media'[i] \in MediaRow /\ media'[i].type = media[i].type
            /\ media'[i].status = media[i].status
        BY <4>1, <4>2 DEF MediaRow
      <4>4. QED BY <4>1, <4>3, MediaAssumption DEF Entry
    <3>4. QED BY <3>2, <3>3
  <2>2. \A i \in Images : i \in KeptOf' <=> i \in KeptOf BY <1>11 DEF Edit, KeptOf
  <2>3. QED BY <2>1, <2>2, ShelfStutters
<1>12. ASSUME NEW i \in Images, Update(i) PROVE [Shelf!ShelfNext]_(Shelf!shelfVars)
  BY <1>11, <1>12 DEF Update
<1>13. ASSUME NEW S \in SUBSET Images, Reorder(S) PROVE [Shelf!ShelfNext]_(Shelf!shelfVars)
  BY <1>11, <1>13 DEF Reorder
<1>14. ASSUME NEW r \in Uploaders, NEW i \in Images, StartDelete(r, i)
       PROVE  [Shelf!ShelfNext]_(Shelf!shelfVars)
  BY <1>1, <1>14 DEF StartDelete
<1>15. QED BY <1>2, <1>4, <1>5, <1>6, <1>7, <1>8, <1>9, <1>10, <1>12, <1>13, <1>14 DEF MediaNext

\* At the start one logo is published, with its bytes.
LEMMA ShelfStarts ==
    ASSUME MediaInit
    PROVE  Shelf!ShelfInit
<1>1. PICK t \in Singles :
        media = [i \in Images |-> IF i = 1
                  THEN [type |-> t, status |-> "active", version |-> 1,
                        checksum |-> CHOOSE c \in Checksums : TRUE]
                  ELSE NoMedia]
  BY DEF MediaInit
<1>2. objects = {<<i, "key">> : i \in {j \in Images : media[j] # NoMedia}} /\ unanswered = {}
  BY DEF MediaInit
<1>3. (CHOOSE c \in Checksums : TRUE) \in Checksums BY MediaAssumption
<1>4. [type |-> t, status |-> "active", version |-> 1,
       checksum |-> CHOOSE c \in Checksums : TRUE] \in MediaRow
  BY <1>3, MediaAssumption DEF MediaRow
<1>5. [type |-> t, status |-> "active", version |-> 1,
       checksum |-> CHOOSE c \in Checksums : TRUE] # NoMedia
  BY <1>4, MediaAssumption
<1>6. \A i \in Images : media[i] = NoMedia \/ (i = 1 /\ media[i].type = t /\ media[i].status = "active")
  BY <1>1
<1>7. t \in MediaTypes BY MediaAssumption
<1>8. \A i \in Images : ShelfOf[i] = IF media[i] = NoMedia THEN NoMedia
                                     ELSE [type |-> t, status |-> "active"]
  BY <1>6 DEF ShelfOf
<1>9. ShelfOf \in [Images -> {NoMedia} \cup [type : MediaTypes, status : {"active"}]]
  <2>1. [type |-> t, status |-> "active"] \in [type : MediaTypes, status : {"active"}] BY <1>7
  <2>2. ShelfOf = [i \in Images |-> ShelfOf[i]] BY DEF ShelfOf
  <2>3. QED BY <1>8, <2>1, <2>2
<1>10. [type |-> t, status |-> "active"] # NoMedia
       /\ [type |-> t, status |-> "active"].status # "deleted"
  BY <1>7, MediaAssumption
<1>11. \A i \in Images : Shelf!Shown(i) <=> media[i] # NoMedia
  BY <1>8, <1>10 DEF Shelf!Shown, ShelfOf
<1>12. \A i \in Images : i \in KeptOf <=> media[i] # NoMedia
  <2>1. ASSUME NEW i \in Images, media[i] # NoMedia PROVE \E k \in objects : k[1] = i
    <3>1. <<i, "key">> \in objects /\ <<i, "key">>[1] = i BY <1>2, <2>1
    <3>2. QED BY <3>1
  <2>2. ASSUME NEW i \in Images, NEW k \in objects, k[1] = i PROVE media[i] # NoMedia
    BY <1>2, <2>2
  <2>3. QED BY <1>2, <2>1, <2>2 DEF KeptOf
<1>13. KeptOf = {i \in Images : Shelf!Shown(i)} BY <1>11, <1>12 DEF KeptOf
<1>14. ASSUME NEW u \in Singles, NEW i \in Shelf!Active(u), NEW j \in Shelf!Active(u) PROVE i = j
  <2>1. i \in Images /\ j \in Images BY DEF Shelf!Active
  <2>2. ShelfOf[i] # NoMedia /\ ShelfOf[j] # NoMedia
    <3>1. [type |-> u, status |-> "active"] # NoMedia BY MediaAssumption
    <3>2. QED BY <2>1, <3>1 DEF Shelf!Active, ShelfOf
  <2>3. media[i] # NoMedia /\ media[j] # NoMedia BY <1>8, <2>1, <2>2
  <2>4. QED BY <1>6, <2>1, <2>3
<1>15. QED BY <1>9, <1>13, <1>14 DEF Shelf!ShelfInit, ShelfOf, KeptOf

\* The storage transactions implement the shelf they promise: bytes exist
\* before a row refers to them and as long as it is live, and a new logo
\* archives the one before it in the same step.
THEOREM MediaImplementsShelf == MediaSpec => ImplementsShelf
<1>1. MediaSpec => []MediaInv BY MediaInductive
<1>2. MediaInit => Shelf!ShelfInit BY ShelfStarts
<1>3. MediaInv /\ MediaInv' /\ [MediaNext]_mediaVars => [Shelf!ShelfNext]_(Shelf!shelfVars)
  BY ShelfStep
<1>4. QED BY <1>1, <1>2, <1>3, PTL DEF MediaSpec, ImplementsShelf, Shelf!ShelfSpec
-----------------------------------------------------------------------------
(* The search index.  A request that changes what a store shows holds the  *)
(* row until it has committed, and whoever reads the row waits for it: what *)
(* an indexer has read of a store is at most as new as the row, and only   *)
(* reads of an approved store put it into the index.                       *)

\* An administrator has approved the store.
Approved(s) == front[s].status \in {"active", "closed"}

Reads == UNION {[D -> Nat] : D \in SUBSET Fronts}
Workings ==
    [at : {"configuring", "reading", "done"}, task : Tasks, todo : SUBSET (Fronts \cup {NoDocument}),
     read : Reads]

SearchTyped ==
    /\ front \in [Fronts -> [status : OpenStatus \cup {"none", "closed"}, hours : BOOLEAN,
                             revision : Nat]]
    /\ writing \in [Writers -> {NotWriting} \cup [event : Events, store : Fronts]]
    /\ indexing \in [Indexers -> {NotIndexing} \cup Workings]

\* The request holds the row of its store.
Holds(w) == writing[w] # NotWriting /\ writing[w].event # "store.media"

\* A change that holds the row of its store is the only one.
RowHeldOnce ==
    \A v \in Writers : \A w \in Writers \ {v} :
        Holds(v) /\ Holds(w) => writing[v].store # writing[w].store

\* The status it starts from is there until it commits.
HeldStatus == \A w \in Writers : Holds(w) => front[writing[w].store].status \in From(writing[w].event)

\* A worker holds what it has read of approved stores only.
ReadApproved == \A k \in Indexers : \A s \in Fronts : s \in DOMAIN indexing[k].read => Approved(s)

SearchInv == SearchTyped /\ RowHeldOnce /\ HeldStatus /\ ReadApproved /\ OnlyApproved

-----------------------------------------------------------------------------
LEMMA NothingReadTyped == NothingRead \in Reads /\ DOMAIN NothingRead = {}
<1>1. {} \in SUBSET Fronts /\ NothingRead \in [{} -> Nat]
  BY DEF NothingRead
<1> QED BY <1>1 DEF Reads, NothingRead

LEMMA NotIndexingReads == NotIndexing.at = "idle" /\ DOMAIN NotIndexing.read = {}
BY NothingReadTyped DEF NotIndexing

LEMMA WorkingFields ==
    ASSUME SearchTyped, NEW k \in Indexers, indexing[k] # NotIndexing
    PROVE  indexing[k] \in Workings
BY DEF SearchTyped

LEMMA SearchInitInv == InitSearch => SearchInv
<1> SUFFICES ASSUME InitSearch PROVE SearchInv
  OBVIOUS
<1>1. SearchTyped
  BY DEF InitSearch, SearchTyped
<1>2. RowHeldOnce /\ HeldStatus
  BY DEF InitSearch, RowHeldOnce, HeldStatus, Holds
<1>3. ReadApproved
  BY NotIndexingReads DEF InitSearch, ReadApproved
<1>4. OnlyApproved
  BY DEF InitSearch, OnlyApproved, Findable
<1> QED BY <1>1, <1>2, <1>3, <1>4 DEF SearchInv

\* Neither a change that begins nor one that is undone shows.
LEMMA WritingMoves ==
    ASSUME SearchInv, writing' \in [Writers -> {NotWriting} \cup [event : Events, store : Fronts]],
           RowHeldOnce', HeldStatus', UNCHANGED <<front, indexing, document>>
    PROVE  SearchInv'
BY DEF SearchInv, SearchTyped, ReadApproved, Approved, OnlyApproved, Findable

LEMMA WriteInv ==
    ASSUME SearchInv, NEW w \in Writers, NEW s \in Fronts, NEW event \in Events, Write(w, s, event)
    PROVE  SearchInv'
<1> DEFINE tx == [event |-> event, store |-> s]
<1>1. writing' = [writing EXCEPT ![w] = tx] /\ UNCHANGED <<front, indexing, document>>
  BY DEF Write
<1>2. tx \in [event : Events, store : Fronts] /\ tx.event = event /\ tx.store = s
  OBVIOUS
<1> HIDE DEF tx
<1>3. writing' \in [Writers -> {NotWriting} \cup [event : Events, store : Fronts]]
  BY <1>1, <1>2 DEF SearchInv, SearchTyped
<1>4. writing'[w] = tx /\ \A v \in Writers \ {w} : writing'[v] = writing[v]
  BY <1>1 DEF SearchInv, SearchTyped
<1>5. event # "store.media" => \A v \in Writers : Holds(v) => writing[v].store # s
  BY DEF Write, RowHeld, Holds
<1>6. RowHeldOnce'
  BY <1>2, <1>4, <1>5 DEF SearchInv, RowHeldOnce, Holds
<1>7. HeldStatus'
  <2>1. front[s].status \in From(event)
    BY DEF Write
  <2> QED BY <1>1, <1>2, <1>4, <2>1 DEF SearchInv, HeldStatus, Holds
<1> QED BY <1>1, <1>3, <1>6, <1>7, WritingMoves

LEMMA RollBackWriteInv ==
    ASSUME SearchInv, NEW w \in Writers, RollBackWrite(w)
    PROVE  SearchInv'
<1>1. writing' = [writing EXCEPT ![w] = NotWriting] /\ UNCHANGED <<front, indexing, document>>
  BY DEF RollBackWrite
<1>2. writing' \in [Writers -> {NotWriting} \cup [event : Events, store : Fronts]]
  BY <1>1 DEF SearchInv, SearchTyped
<1>3. writing'[w] = NotWriting /\ \A v \in Writers \ {w} : writing'[v] = writing[v]
  BY <1>1 DEF SearchInv, SearchTyped
<1>4. RowHeldOnce' /\ HeldStatus'
  BY <1>1, <1>3 DEF SearchInv, RowHeldOnce, HeldStatus, Holds
<1> QED BY <1>1, <1>2, <1>4, WritingMoves

\* What an event makes of a status.
LEMMA AfterTyped ==
    ASSUME NEW event \in Events, NEW status \in OpenStatus \cup {"none", "closed"}
    PROVE  After(event, status) \in OpenStatus \cup {"none", "closed"}
BY DEF After, OpenStatus

\* No change takes the approval away: an image changes nothing, and any other
\* change starts from a status from which no event leads back.
LEMMA ApprovalStays ==
    ASSUME NEW event \in Events, NEW status \in {"active", "closed"},
           event = "store.media" \/ status \in From(event)
    PROVE  After(event, status) \in {"active", "closed"}
BY DEF After, From, OpenStatus

LEMMA CommitWriteInv ==
    ASSUME SearchInv, NEW w \in Writers, CommitWrite(w)
    PROVE  SearchInv'
<1> DEFINE s == writing[w].store
           event == writing[w].event
<1>1. s \in Fronts /\ event \in Events /\ writing[w] # NotWriting
  BY DEF CommitWrite, SearchInv, SearchTyped
<1>2. PICK withRules \in BOOLEAN :
        front' = [front EXCEPT ![s] = [status |-> After(event, front[s].status), hours |-> withRules,
                                       revision |-> front[s].revision + 1]]
  BY DEF CommitWrite
<1>3. writing' = [writing EXCEPT ![w] = NotWriting] /\ UNCHANGED <<indexing, document>>
  BY DEF CommitWrite
<1>4. front[s] \in [status : OpenStatus \cup {"none", "closed"}, hours : BOOLEAN, revision : Nat]
  BY <1>1 DEF SearchInv, SearchTyped
<1>5. After(event, front[s].status) \in OpenStatus \cup {"none", "closed"}
  BY <1>1, <1>4, AfterTyped
<1>6. writing'[w] = NotWriting /\ \A v \in Writers \ {w} : writing'[v] = writing[v]
  BY <1>3 DEF SearchInv, SearchTyped
<1>7. /\ front'[s].status = After(event, front[s].status)
      /\ \A x \in Fronts \ {s} : front'[x] = front[x]
  BY <1>1, <1>2 DEF SearchInv, SearchTyped
<1>8. event = "store.media" => After(event, front[s].status) = front[s].status
  BY DEF After
<1>9. Approved(s) => front'[s].status \in {"active", "closed"}
  <2>1. event = "store.media" \/ front[s].status \in From(event)
    BY <1>1 DEF SearchInv, HeldStatus, Holds
  <2> QED BY <1>1, <1>7, <2>1, ApprovalStays DEF Approved
<1>10. SearchTyped'
  <2> DEFINE row == [status |-> After(event, front[s].status), hours |-> withRules,
                     revision |-> front[s].revision + 1]
  <2>1. row \in [status : OpenStatus \cup {"none", "closed"}, hours : BOOLEAN, revision : Nat]
    BY <1>4, <1>5
  <2>2. front' = [front EXCEPT ![s] = row]
    BY <1>2
  <2> HIDE DEF row
  <2>3. front' \in [Fronts -> [status : OpenStatus \cup {"none", "closed"}, hours : BOOLEAN,
                              revision : Nat]]
    BY <2>1, <2>2 DEF SearchInv, SearchTyped
  <2>4. writing' \in [Writers -> {NotWriting} \cup [event : Events, store : Fronts]]
    BY <1>3 DEF SearchInv, SearchTyped
  <2> QED BY <1>3, <2>3, <2>4 DEF SearchInv, SearchTyped
<1>11. RowHeldOnce'
  BY <1>6 DEF SearchInv, RowHeldOnce, Holds
<1>12. HeldStatus'
  <2> SUFFICES ASSUME NEW v \in Writers, writing'[v] # NotWriting, writing'[v].event # "store.media"
               PROVE  front'[writing'[v].store].status \in From(writing'[v].event)
    BY DEF HeldStatus, Holds
  <2>1. v # w /\ writing'[v] = writing[v] /\ Holds(v)
    BY <1>6 DEF Holds
  <2>2. writing[v].store \in Fronts /\ front[writing[v].store].status \in From(writing[v].event)
    BY <2>1 DEF SearchInv, SearchTyped, HeldStatus, Holds
  <2>3. CASE writing[v].store = s
    <3>1. event = "store.media"
      BY <1>1, <2>1, <2>3 DEF SearchInv, RowHeldOnce, Holds
    <3> QED BY <1>7, <1>8, <2>1, <2>2, <2>3, <3>1
  <2>4. CASE writing[v].store # s
    BY <1>7, <2>1, <2>2, <2>4
  <2> QED BY <2>3, <2>4
<1>13. \A x \in Fronts : Approved(x) => front'[x].status \in {"active", "closed"}
  BY <1>7, <1>9 DEF Approved
<1>14. ReadApproved' /\ OnlyApproved'
  BY <1>3, <1>13 DEF SearchInv, ReadApproved, OnlyApproved, Findable, Approved
<1> QED BY <1>10, <1>11, <1>12, <1>14 DEF SearchInv

\* The steps of a worker leave stores and requests as they are.
LEMMA IndexingMoves ==
    ASSUME SearchInv, UNCHANGED <<front, writing>>,
           indexing' \in [Indexers -> {NotIndexing} \cup Workings],
           \A k \in Indexers : \A s \in Fronts : s \in DOMAIN indexing'[k].read => Approved(s),
           \A s \in Fronts : document'[s] # NoDocument => Approved(s)
    PROVE  SearchInv'
BY DEF SearchInv, SearchTyped, RowHeldOnce, HeldStatus, Holds, ReadApproved, Approved, OnlyApproved,
       Findable

LEMMA DocumentsApproved ==
    ASSUME SearchInv
    PROVE  \A s \in Fronts : document[s] # NoDocument => Approved(s)
BY DEF SearchInv, OnlyApproved, Findable, Approved

\* One worker moves and has read nothing it had not, or of approved stores.
LEMMA OneMoves ==
    ASSUME SearchInv, NEW k \in Indexers, NEW work \in {NotIndexing} \cup Workings,
           indexing' = [indexing EXCEPT ![k] = work], UNCHANGED <<front, writing>>,
           \A s \in Fronts : s \in DOMAIN work.read => Approved(s),
           \A s \in Fronts : document'[s] # NoDocument => Approved(s)
    PROVE  SearchInv'
<1>1. indexing' \in [Indexers -> {NotIndexing} \cup Workings]
  BY DEF SearchInv, SearchTyped
<1>2. indexing'[k] = work /\ \A j \in Indexers \ {k} : indexing'[j] = indexing[j]
  BY DEF SearchInv, SearchTyped
<1>3. \A j \in Indexers : \A s \in Fronts : s \in DOMAIN indexing'[j].read => Approved(s)
  BY <1>2 DEF SearchInv, ReadApproved
<1> QED BY <1>1, <1>3, IndexingMoves

LEMMA TakeInv ==
    ASSUME SearchInv, NEW k \in Indexers, NEW t \in Tasks, Take(k, t)
    PROVE  SearchInv'
<1> DEFINE work == [indexing[k] EXCEPT !.at = "configuring", !.task = t]
<1>1. indexing' = [indexing EXCEPT ![k] = work] /\ UNCHANGED <<front, writing, document>>
  BY DEF Take
<1>2. indexing[k] \in [at : {"idle"}, task : {NoDocument}, todo : SUBSET (Fronts \cup {NoDocument}),
                       read : {NothingRead}]
  BY DEF Take, NotIndexing
<1>3. work \in Workings /\ work.read = NothingRead
  BY <1>2, NothingReadTyped DEF Workings
<1>4. \A s \in Fronts : s \in DOMAIN work.read => Approved(s)
  BY <1>3, NothingReadTyped
<1> HIDE DEF work
<1> QED BY <1>1, <1>3, <1>4, OneMoves, DocumentsApproved

LEMMA ConfigureInv ==
    ASSUME SearchInv, NEW k \in Indexers, Configure(k)
    PROVE  SearchInv'
<1> DEFINE todo == IF indexing[k].task.op = "rebuild" THEN {s \in Fronts : front[s].status \in OpenStatus}
                   ELSE {indexing[k].task.store}
           work == [indexing[k] EXCEPT !.at = "reading", !.todo = todo]
<1>1. indexing[k] \in Workings
  BY NotIndexingReads, WorkingFields DEF Configure, SearchInv
<1>2. todo \in SUBSET (Fronts \cup {NoDocument})
  <2>1. indexing[k].task \in Tasks
    BY <1>1 DEF Workings
  <2>2. indexing[k].task.store \in Fronts \cup {NoDocument}
    BY <2>1 DEF Tasks
  <2> QED BY <2>2
<1>3. indexing' = [indexing EXCEPT ![k] = work] /\ UNCHANGED <<front, writing, document>>
  BY DEF Configure
<1> HIDE DEF todo
<1>4. work \in Workings /\ work.read = indexing[k].read
  BY <1>1, <1>2 DEF Workings
<1>5. \A s \in Fronts : s \in DOMAIN work.read => Approved(s)
  BY <1>4 DEF SearchInv, ReadApproved
<1> HIDE DEF work
<1> QED BY <1>3, <1>4, <1>5, OneMoves, DocumentsApproved

LEMMA ReadStoreInv ==
    ASSUME SearchInv, NEW k \in Indexers, NEW s \in Fronts, ReadStore(k, s)
    PROVE  SearchInv'
<1> DEFINE old == indexing[k].read
           new == [x \in DOMAIN old \cup {s} |-> IF x = s THEN front[s].revision ELSE old[x]]
           read == IF Eligible(s) THEN new ELSE old
           work == [indexing[k] EXCEPT !.todo = indexing[k].todo \ {s}, !.read = read]
<1>1. indexing[k] \in Workings
  BY NotIndexingReads, WorkingFields DEF ReadStore, SearchInv
<1>2. old \in Reads
  BY <1>1 DEF Workings
<1>3. new \in Reads
  <2>1. PICK D \in SUBSET Fronts : old \in [D -> Nat]
    BY <1>2 DEF Reads
  <2>2. front[s].revision \in Nat
    BY DEF SearchInv, SearchTyped
  <2>3. D \cup {s} \in SUBSET Fronts /\ new \in [D \cup {s} -> Nat]
    BY <2>1, <2>2
  <2> HIDE DEF new
  <2> QED BY <2>3 DEF Reads
<1>4. DOMAIN new = DOMAIN old \cup {s}
  OBVIOUS
<1>5. indexing' = [indexing EXCEPT ![k] = work] /\ UNCHANGED <<front, writing, document>>
  BY DEF ReadStore
<1> HIDE DEF new
<1>6. read \in Reads /\ \A x \in DOMAIN read : x \in DOMAIN old \/ (x = s /\ Approved(s))
  BY <1>2, <1>3, <1>4 DEF Eligible, Approved
<1> HIDE DEF read
<1>7. work \in Workings /\ work.read = read
  BY <1>1, <1>6 DEF Workings
<1>8. \A x \in Fronts : x \in DOMAIN work.read => Approved(x)
  BY <1>6, <1>7 DEF SearchInv, ReadApproved
<1> HIDE DEF work
<1> QED BY <1>5, <1>7, <1>8, OneMoves, DocumentsApproved

LEMMA WriteIndexInv ==
    ASSUME SearchInv, NEW k \in Indexers, WriteIndex(k)
    PROVE  SearchInv'
<1> DEFINE work == [indexing[k] EXCEPT !.at = "done", !.read = NothingRead]
<1>1. indexing[k] \in Workings
  BY NotIndexingReads, WorkingFields DEF WriteIndex, SearchInv
<1>2. indexing' = [indexing EXCEPT ![k] = work] /\ UNCHANGED <<front, writing>>
  BY DEF WriteIndex
<1>3. work \in Workings /\ work.read = NothingRead
  BY <1>1, NothingReadTyped DEF Workings
<1>4. \A s \in Fronts : s \in DOMAIN work.read => Approved(s)
  BY <1>3, NothingReadTyped
<1>5. \A s \in Fronts : document'[s] # NoDocument => Approved(s)
  <2> TAKE s \in Fronts
  <2> HAVE document'[s] # NoDocument
  <2>1. document' = Indexed(k)
    BY DEF WriteIndex
  <2>2. s \in DOMAIN indexing[k].read \/ document[s] # NoDocument
    BY <2>1 DEF Indexed
  <2> QED BY <2>2, DocumentsApproved DEF SearchInv, ReadApproved
<1> HIDE DEF work
<1> QED BY <1>2, <1>3, <1>4, <1>5, OneMoves

\* A worker that is done, fails or is lost.
LEMMA StopsInv ==
    ASSUME SearchInv, NEW k \in Indexers, Acknowledge(k) \/ ProviderFails(k) \/ WorkerLost(k)
    PROVE  SearchInv'
<1>1. indexing' = [indexing EXCEPT ![k] = NotIndexing] /\ UNCHANGED <<front, writing, document>>
  BY DEF Acknowledge, ProviderFails, WorkerLost
<1> QED BY <1>1, NotIndexingReads, OneMoves, DocumentsApproved

LEMMA AskInv ==
    ASSUME SearchInv, UNCHANGED <<front, writing, indexing, document>>
    PROVE  SearchInv'
BY DEF SearchInv, SearchTyped, RowHeldOnce, HeldStatus, Holds, ReadApproved, Approved, OnlyApproved,
       Findable

LEMMA SearchNextInv == SearchInv /\ [NextSearch]_searchVars => SearchInv'
<1> SUFFICES ASSUME SearchInv, [NextSearch]_searchVars PROVE SearchInv'
  OBVIOUS
<1>1. ASSUME NEW w \in Writers, CommitWrite(w) \/ RollBackWrite(w) PROVE SearchInv'
  BY <1>1, CommitWriteInv, RollBackWriteInv
<1>2. ASSUME NEW w \in Writers, NEW s \in Fronts, NEW event \in Events, Write(w, s, event)
      PROVE  SearchInv'
  BY <1>2, WriteInv
<1>3. CASE AskRebuild
  BY <1>3, AskInv DEF AskRebuild
<1>4. ASSUME NEW s \in Fronts, AskStatus(s) PROVE SearchInv'
  BY <1>4, AskInv DEF AskStatus
<1>5. ASSUME NEW k \in Indexers, NEW t \in Tasks, Take(k, t) PROVE SearchInv'
  BY <1>5, TakeInv
<1>6. ASSUME NEW k \in Indexers, NEW s \in Fronts, ReadStore(k, s) PROVE SearchInv'
  BY <1>6, ReadStoreInv
<1>7. ASSUME NEW k \in Indexers, Configure(k) PROVE SearchInv'
  BY <1>7, ConfigureInv
<1>8. ASSUME NEW k \in Indexers, WriteIndex(k) PROVE SearchInv'
  BY <1>8, WriteIndexInv
<1>9. ASSUME NEW k \in Indexers, Acknowledge(k) \/ ProviderFails(k) \/ WorkerLost(k) PROVE SearchInv'
  BY <1>9, StopsInv
<1>10. CASE UNCHANGED searchVars
  BY <1>10, AskInv DEF searchVars
<1> QED BY <1>1, <1>2, <1>3, <1>4, <1>5, <1>6, <1>7, <1>8, <1>9, <1>10 DEF NextSearch

THEOREM SearchInductive == SearchSpec => []SearchInv
BY SearchInitInv, SearchNextInv, PTL DEF SearchSpec

THEOREM OnlyApprovedHolds == SearchSpec => []OnlyApproved
<1>1. SearchInv => OnlyApproved
  BY DEF SearchInv
<1> QED BY SearchInductive, <1>1, PTL

-----------------------------------------------------------------------------
(* The counters of a day.  A recorder holds the row of its day from the    *)
(* first write to the commit, so the row and the facts advance together.   *)

Recordings ==
    {NotRecording}
      \cup [at : {"counting"}, event : DOMAIN EventMetrics, day : Days]
      \cup [at : {"applying"}, event : DOMAIN EventMetrics, day : Days,
            counted : [members : Nat, bytes : Nat]]
      \cup [at : {"applied"}, event : DOMAIN EventMetrics, day : Days, row : DailyRow]

AnalyticsTyped ==
    /\ today \in Days
    /\ source \in [members : Nat, bytes : Nat]
    /\ facts \in [Metrics -> [Days -> Nat]]
    /\ daily \in [Days -> DailyRow \cup {NoDay}]
    /\ recording \in [Recorders -> Recordings]

\* The row of a day is written by one transaction at a time.
DayWrittenOnce ==
    \A r \in Recorders : \A q \in Recorders \ {r} :
        recording[r].at = "applied" /\ recording[q].at = "applied" =>
            recording[r].day # recording[q].day

\* What the row of a day counts: nothing when there is none.
CountedOf(d, m) == IF daily[d] = NoDay THEN 0 ELSE daily[d].count[m]

\* A row that waits to be committed is the present one with the event added.
WrittenOnLatest ==
    \A r \in Recorders : recording[r].at = "applied" =>
        \A m \in Counters :
            recording[r].row.count[m] =
                CountedOf(recording[r].day, m) + Increment(recording[r].event)[m]

\* Each counter of each day is the number of its events.
DaysExact == \A m \in Counters, d \in Days : facts[m][d] = CountedOf(d, m)

AnalyticsInv == AnalyticsTyped /\ DayWrittenOnce /\ WrittenOnLatest /\ DaysExact

-----------------------------------------------------------------------------
\* What an event does to the source is a whole number.
LEMMA EffectTyped ==
    ASSUME NEW event
    PROVE  Effect(event) \in [members : Int, bytes : Int]
BY DEF Effect

LEMMA MetricTyped ==
    ASSUME NEW event \in DOMAIN EventMetrics
    PROVE  EventMetrics[event] = "none" \/ EventMetrics[event] \in Metrics
BY DEF Metrics

LEMMA CountersAreMetrics == Counters \subseteq Metrics /\ "none" \notin Counters
BY DEF Counters, Metrics

LEMMA IncrementTyped ==
    ASSUME NEW event
    PROVE  Increment(event) \in [Counters -> Nat]
BY DEF Increment

\* The fields of a recording.
LEMMA RecordingFields ==
    ASSUME NEW tx \in Recordings
    PROVE  /\ tx # NotRecording => tx.event \in DOMAIN EventMetrics /\ tx.day \in Days
           /\ tx.at = "applying" => tx.counted \in [members : Nat, bytes : Nat]
           /\ tx.at = "applied" => tx.row \in DailyRow
           /\ tx = NotRecording <=> tx.at = "idle"
           /\ tx.at \in {"counting", "applying", "applied"} => tx # NotRecording
BY DEF Recordings, NotRecording

LEMMA NewRowTyped ==
    ASSUME NEW tx, tx.counted \in [members : Nat, bytes : Nat]
    PROVE  NewRow(tx) \in DailyRow /\ NewRow(tx).count = Increment(tx.event)
BY IncrementTyped DEF NewRow, DailyRow

LEMMA ChangedRowTyped ==
    ASSUME NEW tx, tx.counted \in [members : Nat, bytes : Nat], NEW row \in DailyRow
    PROVE  /\ ChangedRow(row, tx) \in DailyRow
           /\ \A m \in Counters : ChangedRow(row, tx).count[m] = row.count[m] + Increment(tx.event)[m]
<1>1. Increment(tx.event) \in [Counters -> Nat] /\ row.count \in [Counters -> Nat]
  BY IncrementTyped DEF DailyRow
<1>2. [m \in Counters |-> row.count[m] + Increment(tx.event)[m]] \in [Counters -> Nat]
  BY <1>1
<1>3. row.members \in Nat /\ row.bytes \in Nat /\ row.version + 1 \in Nat \ {0}
  BY DEF DailyRow
<1> QED BY <1>2, <1>3 DEF ChangedRow, DailyRow

-----------------------------------------------------------------------------
LEMMA AnalyticsInitInv == InitAnalytics => AnalyticsInv
<1> SUFFICES ASSUME InitAnalytics PROVE AnalyticsInv
  OBVIOUS
<1>1. 1 \in Days
  BY DaysAssumption DEF Days
<1>2. facts \in [Metrics -> [Days -> Nat]]
  <2>1. [d \in Days |-> 0] \in [Days -> Nat]
    OBVIOUS
  <2> QED BY <2>1 DEF InitAnalytics
<1>3. AnalyticsTyped
  BY <1>1, <1>2 DEF InitAnalytics, AnalyticsTyped, Recordings
<1>4. DayWrittenOnce /\ WrittenOnLatest
  BY DEF InitAnalytics, DayWrittenOnce, WrittenOnLatest, NotRecording
<1>5. DaysExact
  BY CountersAreMetrics DEF InitAnalytics, DaysExact, CountedOf
<1> QED BY <1>3, <1>4, <1>5 DEF AnalyticsInv

\* A step that only moves one recording to a place that has written no row.
LEMMA RecordingMoves ==
    ASSUME AnalyticsInv, NEW r \in Recorders, NEW tx \in Recordings, tx.at # "applied",
           recording' = [recording EXCEPT ![r] = tx],
           UNCHANGED <<today, source, facts, daily>>
    PROVE  AnalyticsInv'
<1>1. AnalyticsTyped'
  BY DEF AnalyticsInv, AnalyticsTyped
<1>2. recording'[r] = tx /\ \A q \in Recorders \ {r} : recording'[q] = recording[q]
  BY DEF AnalyticsInv, AnalyticsTyped
<1>3. DayWrittenOnce'
  BY <1>2 DEF AnalyticsInv, DayWrittenOnce
<1>4. WrittenOnLatest'
  BY <1>2 DEF AnalyticsInv, WrittenOnLatest, CountedOf
<1>5. DaysExact'
  BY DEF AnalyticsInv, DaysExact, CountedOf
<1> QED BY <1>1, <1>3, <1>4, <1>5 DEF AnalyticsInv

LEMMA BeginRecordingInv ==
    ASSUME AnalyticsInv, NEW r \in Recorders, NEW event \in DOMAIN EventMetrics, BeginRecording(r, event)
    PROVE  AnalyticsInv'
<1> DEFINE tx == [at |-> "counting", event |-> event, day |-> today]
<1>1. tx \in Recordings /\ tx.at # "applied"
  BY DEF Recordings, AnalyticsInv, AnalyticsTyped
<1>2. recording' = [recording EXCEPT ![r] = tx] /\ UNCHANGED <<today, source, facts, daily>>
  BY DEF BeginRecording
<1> HIDE DEF tx
<1> QED BY <1>1, <1>2, RecordingMoves

LEMMA CountSourceInv ==
    ASSUME AnalyticsInv, NEW r \in Recorders, CountSource(r)
    PROVE  AnalyticsInv'
<1> DEFINE event == recording[r].event
           counted == Both(source, Effect(event))
           tx == [at |-> "applying", event |-> event, day |-> recording[r].day, counted |-> counted]
<1>1. event \in DOMAIN EventMetrics /\ recording[r].day \in Days
  BY RecordingFields DEF AnalyticsInv, AnalyticsTyped, CountSource
<1>2. counted \in [members : Nat, bytes : Nat]
  BY EffectTyped DEF AnalyticsInv, AnalyticsTyped, CountSource, Both
<1>3. recording' = [recording EXCEPT ![r] = tx] /\ UNCHANGED <<today, source, facts, daily>>
  BY DEF CountSource
<1>4. tx \in Recordings /\ tx.at # "applied"
  <2> HIDE DEF event, counted
  <2> QED BY <1>1, <1>2 DEF Recordings
<1> HIDE DEF tx
<1> QED BY <1>3, <1>4, RecordingMoves

LEMMA ApplyDailyInv ==
    ASSUME AnalyticsInv, NEW r \in Recorders, ApplyDaily(r)
    PROVE  AnalyticsInv'
<1> DEFINE tx == recording[r]
           row == IF daily[tx.day] = NoDay THEN NewRow(tx) ELSE ChangedRow(daily[tx.day], tx)
           new == [at |-> "applied", event |-> tx.event, day |-> tx.day, row |-> row]
<1>1. /\ tx.event \in DOMAIN EventMetrics /\ tx.day \in Days
      /\ tx.counted \in [members : Nat, bytes : Nat]
  BY RecordingFields DEF AnalyticsInv, AnalyticsTyped, ApplyDaily
<1>2. recording' = [recording EXCEPT ![r] = new] /\ UNCHANGED <<today, source, facts, daily>>
  BY DEF ApplyDaily
<1>3. row \in DailyRow /\ \A m \in Counters : row.count[m] = CountedOf(tx.day, m) + Increment(tx.event)[m]
  <2>1. CASE daily[tx.day] = NoDay
    <3>1. row \in DailyRow /\ row.count = Increment(tx.event)
      BY <1>1, <2>1, NewRowTyped
    <3>2. \A m \in Counters : Increment(tx.event)[m] \in Nat
      BY IncrementTyped
    <3> HIDE DEF row
    <3> QED BY <2>1, <3>1, <3>2 DEF CountedOf
  <2>2. CASE daily[tx.day] # NoDay
    <3>1. daily[tx.day] \in DailyRow
      BY <1>1, <2>2 DEF AnalyticsInv, AnalyticsTyped
    <3> QED BY <1>1, <2>2, <3>1, ChangedRowTyped DEF CountedOf
  <2> QED BY <2>1, <2>2
<1>4. \A q \in Recorders : recording[q].at = "applied" => recording[q].day # tx.day
  BY DEF ApplyDaily, DayFree
<1> HIDE DEF row
<1>5. new \in Recordings
  BY <1>1, <1>3 DEF Recordings
<1>6. AnalyticsTyped'
  BY <1>2, <1>5 DEF AnalyticsInv, AnalyticsTyped
<1>7. recording'[r] = new /\ \A q \in Recorders \ {r} : recording'[q] = recording[q]
  BY <1>2 DEF AnalyticsInv, AnalyticsTyped
<1>8. new.day = tx.day /\ new.event = tx.event /\ new.row = row
  OBVIOUS
<1> HIDE DEF new, tx
<1>9. DayWrittenOnce'
  BY <1>4, <1>7, <1>8 DEF AnalyticsInv, DayWrittenOnce
<1>10. WrittenOnLatest'
  BY <1>2, <1>3, <1>7, <1>8 DEF AnalyticsInv, WrittenOnLatest, CountedOf
<1>11. DaysExact'
  BY <1>2 DEF AnalyticsInv, DaysExact, CountedOf
<1> QED BY <1>6, <1>9, <1>10, <1>11 DEF AnalyticsInv

LEMMA CommitRecordingInv ==
    ASSUME AnalyticsInv, NEW r \in Recorders, CommitRecording(r)
    PROVE  AnalyticsInv'
<1> DEFINE tx == recording[r]
           metric == EventMetrics[tx.event]
<1>1. tx.event \in DOMAIN EventMetrics /\ tx.day \in Days /\ tx.row \in DailyRow
  BY RecordingFields DEF AnalyticsInv, AnalyticsTyped, CommitRecording
<1>2. /\ daily' = [daily EXCEPT ![tx.day] = tx.row]
      /\ recording' = [recording EXCEPT ![r] = NotRecording]
      /\ today' = today
      /\ facts' = IF metric = "none" THEN facts
                  ELSE [facts EXCEPT ![metric][tx.day] = facts[metric][tx.day] + 1]
      /\ tx.at = "applied"
  BY DEF CommitRecording
<1>3. source' \in [members : Nat, bytes : Nat]
  <2>1. source' = Both(source, Effect(tx.event)) /\ source'.members >= 0 /\ source'.bytes >= 0
    BY DEF CommitRecording
  <2> QED BY <2>1, EffectTyped DEF AnalyticsInv, AnalyticsTyped, Both
<1>4. metric = "none" \/ metric \in Metrics
  BY <1>1, MetricTyped
<1>5. tx.row # NoDay
  BY <1>1, NoDayAssumption
<1>6. \A m \in Counters : tx.row.count[m] = CountedOf(tx.day, m) + Increment(tx.event)[m]
  BY <1>2 DEF AnalyticsInv, WrittenOnLatest
<1>7. \A m \in Counters : Increment(tx.event)[m] = IF m = metric THEN 1 ELSE 0
  BY DEF Increment
<1>8. facts \in [Metrics -> [Days -> Nat]] /\ daily \in [Days -> DailyRow \cup {NoDay}]
  BY DEF AnalyticsInv, AnalyticsTyped
<1> HIDE DEF metric
<1>9. facts' \in [Metrics -> [Days -> Nat]]
  <2>1. CASE metric = "none"
    BY <1>2, <1>8, <2>1
  <2>2. CASE metric # "none"
    <3>1. metric \in Metrics /\ facts[metric] \in [Days -> Nat]
      BY <1>4, <1>8, <2>2
    <3> DEFINE row == [facts[metric] EXCEPT ![tx.day] = facts[metric][tx.day] + 1]
    <3>2. row \in [Days -> Nat]
      <4>1. facts[metric][tx.day] + 1 \in Nat
        BY <1>1, <3>1
      <4> QED BY <3>1, <4>1
    <3>3. facts' = [facts EXCEPT ![metric] = row]
      BY <1>2, <2>2
    <3> HIDE DEF row
    <3> QED BY <1>8, <3>2, <3>3
  <2> QED BY <2>1, <2>2
<1>10. \A m \in Counters, d \in Days :
         facts'[m][d] = facts[m][d] + IF d = tx.day /\ m = metric THEN 1 ELSE 0
  <2> TAKE m \in Counters, d \in Days
  <2>1. m \in Metrics /\ m # "none"
    BY CountersAreMetrics
  <2>2. facts[m][d] \in Nat
    BY <1>8, <2>1
  <2>3. CASE metric = "none"
    BY <1>2, <2>1, <2>2, <2>3
  <2>4. CASE metric # "none"
    BY <1>1, <1>2, <1>4, <1>8, <2>1, <2>2, <2>4
  <2> QED BY <2>3, <2>4
<1> HIDE DEF tx
<1>11. daily'[tx.day] = tx.row /\ \A d \in Days \ {tx.day} : daily'[d] = daily[d]
  BY <1>1, <1>2, <1>8
<1>12. AnalyticsTyped'
  <2>1. NotRecording \in Recordings
    BY DEF Recordings
  <2>2. recording' \in [Recorders -> Recordings]
    BY <1>2, <2>1 DEF AnalyticsInv, AnalyticsTyped
  <2>3. daily' \in [Days -> DailyRow \cup {NoDay}]
    BY <1>1, <1>2, <1>8
  <2> QED BY <1>2, <1>3, <1>9, <2>2, <2>3 DEF AnalyticsInv, AnalyticsTyped
<1>13. recording'[r] = NotRecording /\ \A q \in Recorders \ {r} : recording'[q] = recording[q]
  BY <1>2 DEF AnalyticsInv, AnalyticsTyped
<1>14. NotRecording.at # "applied"
  BY DEF NotRecording
<1>15. DayWrittenOnce'
  BY <1>13, <1>14 DEF AnalyticsInv, DayWrittenOnce
<1>16. \A q \in Recorders : recording'[q].at = "applied" =>
         /\ recording'[q] = recording[q] /\ recording[q].at = "applied"
         /\ recording[q].day # tx.day /\ recording[q].day \in Days
  <2> TAKE q \in Recorders
  <2> HAVE recording'[q].at = "applied"
  <2>1. q # r /\ recording'[q] = recording[q]
    BY <1>13, <1>14
  <2>2. recording[q].day # tx.day
    BY <1>2, <2>1 DEF AnalyticsInv, DayWrittenOnce, tx
  <2>3. recording[q].day \in Days
    BY <2>1, RecordingFields DEF AnalyticsInv, AnalyticsTyped
  <2> QED BY <2>1, <2>2, <2>3
<1>17. WrittenOnLatest'
  <2> SUFFICES ASSUME NEW q \in Recorders, recording'[q].at = "applied", NEW m \in Counters
               PROVE  recording'[q].row.count[m] =
                        (IF daily'[recording'[q].day] = NoDay THEN 0
                         ELSE daily'[recording'[q].day].count[m]) + Increment(recording'[q].event)[m]
    BY DEF WrittenOnLatest, CountedOf
  <2>1. recording'[q] = recording[q] /\ recording[q].at = "applied"
    BY <1>16
  <2>2. daily'[recording[q].day] = daily[recording[q].day]
    BY <1>11, <1>16
  <2>3. recording[q].row.count[m] = CountedOf(recording[q].day, m) + Increment(recording[q].event)[m]
    BY <2>1 DEF AnalyticsInv, WrittenOnLatest
  <2> QED BY <2>1, <2>2, <2>3 DEF CountedOf
<1>18. DaysExact'
  <2> SUFFICES ASSUME NEW m \in Counters, NEW d \in Days
               PROVE  facts'[m][d] = IF daily'[d] = NoDay THEN 0 ELSE daily'[d].count[m]
    BY DEF DaysExact, CountedOf
  <2>1. facts[m][d] = CountedOf(d, m) /\ facts[m][d] \in Nat
    BY <1>8, CountersAreMetrics DEF AnalyticsInv, DaysExact
  <2>2. CASE d = tx.day
    BY <1>5, <1>6, <1>7, <1>10, <1>11, <2>1, <2>2
  <2>3. CASE d # tx.day
    BY <1>10, <1>11, <2>1, <2>3 DEF CountedOf
  <2> QED BY <2>2, <2>3
<1> QED BY <1>12, <1>15, <1>17, <1>18 DEF AnalyticsInv

LEMMA RollBackRecordingInv ==
    ASSUME AnalyticsInv, NEW r \in Recorders, RollBackRecording(r)
    PROVE  AnalyticsInv'
<1>1. NotRecording \in Recordings /\ NotRecording.at # "applied"
  BY DEF Recordings, NotRecording
<1> QED BY <1>1, RecordingMoves DEF RollBackRecording

LEMMA DayPassesInv ==
    ASSUME AnalyticsInv, DayPasses
    PROVE  AnalyticsInv'
<1>1. today' \in Days
  BY DaysAssumption DEF DayPasses, Days, AnalyticsInv, AnalyticsTyped
<1> QED BY <1>1 DEF DayPasses, AnalyticsInv, AnalyticsTyped, DayWrittenOnce, WrittenOnLatest,
           DaysExact, CountedOf

LEMMA AnalyticsNextInv == AnalyticsInv /\ [NextAnalytics]_analyticsVars => AnalyticsInv'
<1> SUFFICES ASSUME AnalyticsInv, [NextAnalytics]_analyticsVars PROVE AnalyticsInv'
  OBVIOUS
<1>1. CASE DayPasses
  BY <1>1, DayPassesInv
<1>2. ASSUME NEW r \in Recorders, NEW event \in DOMAIN EventMetrics, BeginRecording(r, event)
      PROVE  AnalyticsInv'
  BY <1>2, BeginRecordingInv
<1>3. ASSUME NEW r \in Recorders, CountSource(r) PROVE AnalyticsInv'
  BY <1>3, CountSourceInv
<1>4. ASSUME NEW r \in Recorders, ApplyDaily(r) PROVE AnalyticsInv'
  BY <1>4, ApplyDailyInv
<1>5. ASSUME NEW r \in Recorders, CommitRecording(r) PROVE AnalyticsInv'
  BY <1>5, CommitRecordingInv
<1>6. ASSUME NEW r \in Recorders, RollBackRecording(r) PROVE AnalyticsInv'
  BY <1>6, RollBackRecordingInv
<1>7. CASE UNCHANGED analyticsVars
  BY <1>7 DEF analyticsVars, AnalyticsInv, AnalyticsTyped, DayWrittenOnce, WrittenOnLatest,
     DaysExact, CountedOf
<1> QED BY <1>1, <1>2, <1>3, <1>4, <1>5, <1>6, <1>7 DEF NextAnalytics

THEOREM AnalyticsInductive == AnalyticsSpec => []AnalyticsInv
BY AnalyticsInitInv, AnalyticsNextInv, PTL DEF AnalyticsSpec

\* The sum over the days that have a row is the sum over all days of the
\* period, because the others have no events.
LEMMA PeriodExact ==
    ASSUME AnalyticsInv, NEW first \in Days, NEW last \in first..MetricDays, NEW m \in Counters
    PROVE  Summary(first, last).count[m] = SumFunctionOnSet(facts[m], first..last)
<1> DEFINE period == first..last
           days == Recorded(first, last)
           f == [d \in days |-> daily[d].count[m]]
<1>1. first \in Int /\ last \in Int /\ MetricDays \in Int /\ period \subseteq Days
  BY DaysAssumption DEF Days
<1>2. IsFiniteSet(period)
  BY <1>1, FS_Interval
<1>3. days \in SUBSET period /\ IsFiniteSet(days)
  <2>1. days \in SUBSET period
    BY DEF Recorded
  <2> QED BY <1>2, <2>1, FS_Subset
<1>4. \A d \in period : facts[m][d] \in Int
  BY <1>1, CountersAreMetrics DEF AnalyticsInv, AnalyticsTyped
<1>5. \A d \in days : daily[d] # NoDay
  BY DEF Recorded
<1>6. \A d \in days : facts[m][d] \in Int /\ f[d] = facts[m][d]
  BY <1>1, <1>3, <1>4, <1>5 DEF AnalyticsInv, DaysExact, CountedOf
<1>7. \A d \in period \ days : facts[m][d] = 0
  BY <1>1 DEF AnalyticsInv, DaysExact, CountedOf, Recorded
<1>8. Summary(first, last).count[m] = SumFunctionOnSet(f, days)
  BY DEF Summary
<1> HIDE DEF period, days, f
<1>9. SumFunctionOnSet(f, days) = SumFunctionOnSet(facts[m], days)
  BY <1>3, <1>6, SumsAgree
<1>10. SumFunctionOnSet(facts[m], days) = SumFunctionOnSet(facts[m], period)
  BY <1>2, <1>3, <1>4, <1>7, SumOfPart
<1> QED BY <1>8, <1>9, <1>10 DEF period

THEOREM CountersMatchFactsHolds == AnalyticsSpec => []CountersMatchFacts
<1>1. AnalyticsInv => CountersMatchFacts
  BY PeriodExact DEF CountersMatchFacts
<1> QED BY AnalyticsInductive, <1>1, PTL
=============================================================================
