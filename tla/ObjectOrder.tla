---------------------------- MODULE ObjectOrder ----------------------------
(***************************************************************************)
(* What an ordered collection promises (the doc of OrderedCollection): a   *)
(* set of objects and the order in which they were added; an object can be *)
(* replaced by another in its place.  The order is the set of the pairs of *)
(* an object and one that comes after it.                                  *)
(***************************************************************************)
EXTENDS Sequences

CONSTANTS
    Objects,  \* objects of the collection's type
    Alien,    \* an object of another type
    Lists     \* the sequences a caller may pass to a method

VARIABLES
    members, before,
    pending,  \* what the call under way has still to add
    fired     \* the event of the latest change: its name and its object

vars == <<members, before, pending, fired>>

NoEvent == <<>>

\* A call that adds begins.
AddCall(list) ==
    /\ pending = <<>>
    /\ pending' = list
    /\ fired' = NoEvent
    /\ UNCHANGED <<members, before>>

\* Its next object is put last, unless it is in the collection.
AddOne ==
    /\ pending # <<>>
    /\ Head(pending) \in Objects
    /\ pending' = Tail(pending)
    /\ IF Head(pending) \in members
       THEN fired' = NoEvent /\ UNCHANGED <<members, before>>
       ELSE /\ members' = members \cup {Head(pending)}
            /\ before' = before \cup (members \X {Head(pending)})
            /\ fired' = <<"add", Head(pending)>>

\* An object of another type ends the call; what was added stays.
AddRaises ==
    /\ pending # <<>>
    /\ Head(pending) \notin Objects
    /\ pending' = <<>>
    /\ fired' = NoEvent
    /\ UNCHANGED <<members, before>>

Remove(e) ==
    /\ pending = <<>>
    /\ e \in members
    /\ members' = members \ {e}
    /\ before' = {p \in before : p[1] # e /\ p[2] # e}
    /\ fired' = <<"remove", e>>
    /\ UNCHANGED pending

InPlace(old, new, x) == IF x = old THEN new ELSE x

\* The new object has the place of the old one.
Replace(old, new) ==
    /\ pending = <<>>
    /\ old \in members
    /\ new \notin members \ {old}
    /\ members' = (members \ {old}) \cup {new}
    /\ before' = {<<InPlace(old, new, p[1]), InPlace(old, new, p[2])>> :
                     p \in before}
    /\ fired' = <<"replace", new>>
    /\ UNCHANGED pending

\* The objects of the list take the place of all there were.
Renew(list) ==
    /\ pending = <<>>
    /\ pending' = list
    /\ members' = {}
    /\ before' = {}
    /\ fired' = NoEvent

\* A call that raises or changes nothing a reader can see.
NoChange ==
    /\ pending = <<>>
    /\ fired' = NoEvent
    /\ UNCHANGED <<members, before, pending>>

\* Ordered: the order is a strict total order of the members: whatever is
\* added, removed or replaced, of two members one comes first.
Ordered ==
    /\ before \subseteq members \X members
    /\ \A x \in members : <<x, x>> \notin before
    /\ \A x, y \in members :
          x # y => <<x, y>> \in before \/ <<y, x>> \in before
    /\ \A x, y, z \in members :
          <<x, y>> \in before /\ <<y, z>> \in before => <<x, z>> \in before

Init ==
    /\ members \in SUBSET Objects
    /\ before \in SUBSET (members \X members)
    /\ Ordered
    /\ pending = <<>>
    /\ fired = NoEvent

Next ==
    \/ \E list \in Lists : AddCall(list) \/ Renew(list)
    \/ AddOne
    \/ AddRaises
    \/ \E e \in Objects : Remove(e)
    \/ \E old, new \in Objects : Replace(old, new)
    \/ NoChange

Spec == Init /\ [][Next]_vars

=============================================================================
