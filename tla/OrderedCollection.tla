------------------------- MODULE OrderedCollection -------------------------
(***************************************************************************)
(* The calls of gnome.utilities.orderedcollection.OrderedCollection, which *)
(* holds the movers, weatherers, outputters, environment objects and       *)
(* spills of a model, and the events its registered callbacks see.         *)
(*                                                                         *)
(* A call that adds a list is one action per object, because a callback    *)
(* runs after each of them; the caller has no turn until the list is done. *)
(***************************************************************************)
EXTENDS Collections

CONSTANTS
    Alien,      \* an object of another type
    Lists,      \* the lists a caller passes to add, update and the constructor
    Caller,     \* what the caller does beyond the plain use (CallerHabits)
    SlotBound   \* bound of the model: no call makes the list longer

\* "reuse"  replaces an object by another one that is in the collection
CallerHabits == {"reuse"}

ASSUME CallAssumption ==
    /\ Alien \notin Objects
    /\ Lists \subseteq Seq(Objects \cup {Alien})
    /\ Caller \subseteq CallerHabits
    /\ SlotBound \in Nat

VARIABLES
    coll,     \* the collection
    pending,  \* what the call under way has still to add
    fired     \* the event of the latest change: its name and its object

vars == <<coll, pending, fired>>

NoEvent == <<>>

Idle == pending = <<>>

\* add, append and += : one object is a list of one.
AddCall(list) ==
    /\ Idle
    /\ Len(coll.elems) + Len(list) <= SlotBound
    /\ pending' = list
    /\ fired' = NoEvent
    /\ UNCHANGED coll

\* The event is fired only if the object was not in the collection.
AddOne ==
    /\ pending # <<>>
    /\ Head(pending) \in Objects
    /\ coll' = Added(coll, Head(pending))
    /\ pending' = Tail(pending)
    /\ fired' = IF Head(pending) \in Members(coll) THEN NoEvent
                ELSE <<"add", Head(pending)>>

\* TypeError in the middle of the list: the objects before it stay.
AddRaises ==
    /\ pending # <<>>
    /\ Head(pending) \notin Objects
    /\ pending' = <<>>
    /\ fired' = NoEvent
    /\ UNCHANGED coll

Take(e) ==
    /\ coll' = Removed(coll, e)
    /\ fired' = <<"remove", e>>
    /\ UNCHANGED pending

\* remove and del by id.
Remove(e) ==
    /\ Idle
    /\ e \in Members(coll)
    /\ Take(e)

\* remove and del by position: an integer goes through get().
RemoveAt(k) ==
    /\ Idle
    /\ k \in 1 .. Cardinality(Members(coll))
    /\ Take(Nth(coll, k))

Put(old, slot, new) ==
    /\ new \notin Members(coll) \ {old} \/ "reuse" \in Caller
    /\ coll' = Replaced(coll, old, slot, new)
    /\ fired' = <<"replace", new>>
    /\ UNCHANGED pending

\* replace and [] = by id.
Replace(old, new) ==
    /\ Idle
    /\ old \in Members(coll)
    /\ Put(old, coll.index[old], new)

Raises ==
    /\ fired' = NoEvent
    /\ UNCHANGED <<coll, pending>>

\* replace and [] = by integer: the integer is a slot.  A hole has no id in
\* the dictionary: KeyError.
ReplaceAt(slot, new) ==
    /\ Idle
    /\ slot \in DOMAIN coll.elems
    /\ IF coll.elems[slot] \in Members(coll)
       THEN Put(coll.elems[slot], slot, new)
       ELSE Raises

Remake ==
    /\ Idle
    /\ coll' = Remade(coll)
    /\ fired' = NoEvent
    /\ UNCHANGED pending

\* clear() and update(), which checks the list, clears, and adds it: no
\* event tells of what was cleared.
Update(list) ==
    /\ Idle
    /\ \A i \in DOMAIN list : list[i] \in Objects
    /\ coll' = Cleared
    /\ pending' = list
    /\ fired' = NoEvent

\* The constructor is given a list without repetitions.
Init ==
    /\ \E list \in Lists :
          /\ \A i \in DOMAIN list : list[i] \in Objects
          /\ \A i, j \in DOMAIN list : list[i] = list[j] => i = j
          /\ coll = Holding(list)
    /\ pending = <<>>
    /\ fired = NoEvent

Next ==
    \/ \E list \in Lists : AddCall(list) \/ Update(list)
    \/ AddOne
    \/ AddRaises
    \/ \E e \in Objects : Remove(e)
    \/ \E k \in 1 .. SlotBound : RemoveAt(k)
    \/ \E old, new \in Objects : Replace(old, new)
    \/ \E slot \in 1 .. SlotBound, new \in Objects : ReplaceAt(slot, new)
    \/ Remake

Spec == Init /\ [][Next]_vars

-----------------------------------------------------------------------------
(* Properties                                                              *)

\* Every variable has its type.
TypeOK ==
    /\ IsCollection(coll)
    /\ pending \in Seq(Objects \cup {Alien})
    /\ fired \in {NoEvent} \cup ({"add", "remove", "replace"} \X Objects)

\* IndexAgrees: the list and the dictionary of the collection stay in step
\* whatever is added, removed by id or position, replaced by id or slot, and
\* whenever remake() closes the holes.
IndexAgrees == InStep(coll)

\* ValuesAreMembers: values() lists the objects that iteration visits, as
\* its doc says ("return list of items contained in collection").
ValuesAreMembers == Values(coll) = Iterated(coll)

\* KeepsOrder: the collection implements the abstract order of objects, as
\* iteration shows it, with the same events: an object keeps its place
\* through all the holes that removals leave and remake() closes.
Order == INSTANCE ObjectOrder
         WITH members <- Iterated(coll), before <- Precedence(coll)

KeepsOrder == Order!Spec
=============================================================================
