----------------------------- MODULE MediaShelf -----------------------------
(***************************************************************************)
(* What the images of a store promise, without storage transactions: the   *)
(* bytes of an image are kept before it is published and as long as it is  *)
(* shown, and a new logo or banner archives the one before it in the same  *)
(* step.                                                                   *)
(***************************************************************************)
CONSTANTS Images,
          MediaTypes,
          Singles,      \* the types a store has at most one active image of
          Absent

VARIABLES shelf,        \* the images published: their type and status
          kept          \* the images whose bytes exist

shelfVars == <<shelf, kept>>

Shown(i) == shelf[i] # Absent /\ shelf[i].status # "deleted"
Active(t) == {i \in Images : shelf[i] = [type |-> t, status |-> "active"]}

ShelfInit ==
    /\ shelf \in [Images -> {Absent} \cup [type : MediaTypes, status : {"active"}]]
    /\ kept = {i \in Images : Shown(i)}
    /\ \A t \in Singles : \A i, j \in Active(t) : i = j

Keep(i) ==
    /\ shelf[i] = Absent /\ i \notin kept
    /\ kept' = kept \cup {i}
    /\ UNCHANGED shelf

Publish(i, t) ==
    /\ shelf[i] = Absent /\ i \in kept
    /\ shelf' = [j \in Images |->
         IF j = i THEN [type |-> t, status |-> "active"]
         ELSE IF t \in Singles /\ j \in Active(t) THEN [shelf[j] EXCEPT !.status = "archived"]
         ELSE shelf[j]]
    /\ UNCHANGED kept

Withdraw(i) ==
    /\ Shown(i)
    /\ shelf' = [shelf EXCEPT ![i].status = "deleted"]
    /\ UNCHANGED kept

Forget(i) ==
    /\ i \in kept /\ ~Shown(i)
    /\ kept' = kept \ {i}
    /\ UNCHANGED shelf

ShelfNext == \E i \in Images : \/ Keep(i) \/ Withdraw(i) \/ Forget(i)
                               \/ \E t \in MediaTypes : Publish(i, t)

ShelfSpec == ShelfInit /\ [][ShelfNext]_shelfVars
=============================================================================
