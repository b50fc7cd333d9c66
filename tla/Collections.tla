---------------------------- MODULE Collections ----------------------------
(***************************************************************************)
(* The data of a gnome.utilities.orderedcollection.OrderedCollection and   *)
(* what its methods do to it.  A removed object leaves a hole in the list, *)
(* so that the slots of the others stay valid; only remake() closes holes. *)
(*                                                                         *)
(* An object is its own id.  Slots and positions are counted from 1: slot  *)
(* s is the code's _elems[s - 1], position k what the code calls index k-1.*)
(***************************************************************************)
EXTENDS Integers, Sequences, FiniteSets

CONSTANTS Objects, Hole

ASSUME HoleAssumption == Hole \notin Objects

\* A collection: its list of slots and its dictionary from id to slot.
IsCollection(c) ==
    /\ c = [elems |-> c.elems, index |-> c.index]
    /\ c.elems \in Seq(Objects \cup {Hole})
    /\ DOMAIN c.index \subseteq Objects
    /\ c.index = [x \in DOMAIN c.index |-> c.index[x]]
    /\ \A x \in DOMAIN c.index : c.index[x] \in DOMAIN c.elems

Members(c) == DOMAIN c.index

Filled(c) == {s \in DOMAIN c.elems : c.elems[s] # Hole}

\* The dictionary leads every id to the slot of its object, and every
\* filled slot is some member's.
InStep(c) ==
    /\ \A x \in Members(c) : c.elems[c.index[x]] = x
    /\ \A s \in Filled(c) :
          c.elems[s] \in Members(c) /\ c.index[c.elems[s]] = s

\* The dictionary of a list of objects: of equal ones the last counts.
Numbered(list) ==
    [x \in {list[s] : s \in DOMAIN list} |->
        CHOOSE s \in DOMAIN list :
            /\ list[s] = x
            /\ \A r \in DOMAIN list : list[r] = x => r <= s]

\* The constructor with a list of objects.
Holding(list) == [elems |-> list, index |-> Numbered(list)]

\* clear().
Cleared == Holding(<<>>)

\* A faulty variant: the slot of a removed object is used again.
AddedInHole(c, e) ==
    LET holes == {s \in DOMAIN c.elems : c.elems[s] = Hole}
        slot  == IF holes = {} THEN Len(c.elems) + 1
                 ELSE CHOOSE s \in holes : TRUE
    IN  IF e \in Members(c) THEN c
        ELSE [elems |-> IF holes = {} THEN Append(c.elems, e)
                        ELSE [c.elems EXCEPT ![slot] = e],
              index |-> [x \in Members(c) \cup {e} |->
                            IF x = e THEN slot ELSE c.index[x]]]

\* add of one object: an object that is in the collection is ignored.
Added(c, e) ==
    IF e \in Members(c) THEN c
    ELSE [elems |-> Append(c.elems, e),
          index |-> [x \in Members(c) \cup {e} |->
                        IF x = e THEN Len(c.elems) + 1 ELSE c.index[x]]]

\* remove of a member.
Removed(c, e) ==
    [elems |-> [c.elems EXCEPT ![c.index[e]] = Hole],
     index |-> [x \in Members(c) \ {e} |-> c.index[x]]]

\* A faulty variant: the old id is still a key.
ReplacedKeepsKey(c, old, slot, new) ==
    [elems |-> [c.elems EXCEPT ![slot] = new],
     index |-> [x \in Members(c) \cup {new} |->
                   IF x = new THEN slot ELSE c.index[x]]]

\* replace of the member old by new, written to the given slot.
Replaced(c, old, slot, new) ==
    [elems |-> [c.elems EXCEPT ![slot] = new],
     index |-> [x \in (Members(c) \ {old}) \cup {new} |->
                   IF x = new THEN slot ELSE c.index[x]]]

\* The slot a filled slot moves to when the holes before it are closed.
SlotAfter(c, s) == Cardinality({r \in Filled(c) : r <= s})

Closed(c) ==
    [k \in 1 .. Cardinality(Filled(c)) |->
        c.elems[CHOOSE s \in Filled(c) : SlotAfter(c, s) = k]]

\* remake: if there are holes they are closed and the objects numbered anew.
Remade(c) == IF Filled(c) = DOMAIN c.elems THEN c ELSE Holding(Closed(c))

-----------------------------------------------------------------------------
(* What a reader of the collection sees                                    *)

\* index(): the position of a member's slot among the sorted slots.
IndexOf(c, e) ==
    Cardinality({x \in Members(c) : c.index[x] <= c.index[e]})

\* get() with an integer: the object in the k-th of the sorted slots.
Nth(c, k) ==
    c.elems[c.index[CHOOSE x \in Members(c) : IndexOf(c, x) = k]]

\* values(): every slot that is not a hole.
Values(c) == {c.elems[s] : s \in Filled(c)}

\* __iter__: the objects in the indexed slots, each with those before it.
Iterated(c) == {c.elems[c.index[x]] : x \in Members(c)}
Precedence(c) ==
    {<<c.elems[c.index[p[1]]], c.elems[c.index[p[2]]]>> :
        p \in {q \in Members(c) \X Members(c) : c.index[q[1]] < c.index[q[2]]}}
=============================================================================
