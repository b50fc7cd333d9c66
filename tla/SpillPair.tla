----------------------------- MODULE SpillPair -----------------------------
(***************************************************************************)
(* The two spill collections of a SpillContainerPair, each an              *)
(* OrderedCollection with its own holes: every call on the pair that       *)
(* changes the forecast spills must do the same to their uncertain copies. *)
(* SpillContainers describes the same calls on lists without holes.        *)
(*                                                                         *)
(* A copy is an object of its own.  Slots never change here, and so it is  *)
(* known by the spill it was made of and the slot it was put in.           *)
(***************************************************************************)
EXTENDS Collections

CONSTANTS
    Spills,       \* the spills a caller has at hand
    PairCaller,   \* what the caller does beyond the plain use (PairHabits)
    PairBound     \* bound of the model: the length of a list of slots

\* "swap"   replaces a spill after another was removed
\* "again"  adds a spill, or one of a pair, that is in its collection
\* "reuse"  replaces a spill by another one that is in the collection
PairHabits == {"swap", "again", "reuse"}

ASSUME PairAssumption ==
    /\ PairCaller \subseteq PairHabits
    /\ PairBound \in Nat
    /\ Spills \subseteq Objects
    /\ Spills \X (1 .. PairBound) \subseteq Objects

VARIABLES
    uncertain,
    spills,    \* of the forecast container
    u_spills   \* of the uncertain container

PairVars == <<uncertain, spills, u_spills>>

\* Iteration, as a list.
InOrder(c) == [k \in 1 .. Cardinality(Members(c)) |-> Nth(c, k)]

\* The spills that copies were made of.
MadeOf(copies) == [k \in DOMAIN copies |-> copies[k][1]]

\* SpillContainer.uncertain_copy: a new collection, without holes.
Copies(c) == Holding([k \in 1 .. Cardinality(Members(c)) |-> <<Nth(c, k), k>>])

\* Spill.uncertain_copy, and where it will be.
NewCopy(s) == <<s, Len(u_spills.elems) + 1>>

Room(c) == Len(c.elems) < PairBound

\* A faulty variant: no copy is made.
AddForecastOnly(s) ==
    /\ s \notin Members(spills)
    /\ Room(spills)
    /\ spills' = Added(spills, s)
    /\ UNCHANGED <<uncertain, u_spills>>

\* add of one spill, or of a tuple of one in a model that is not uncertain.
\* A spill that is in the collection is ignored; its copy is new.
AddSpill(s) ==
    /\ s \notin Members(spills) \/ ~uncertain \/ "again" \in PairCaller
    /\ Room(spills) /\ (uncertain => Room(u_spills))
    /\ spills' = Added(spills, s)
    /\ u_spills' = IF uncertain THEN Added(u_spills, NewCopy(s)) ELSE u_spills
    /\ UNCHANGED uncertain

\* add of a tuple of a spill and its copy, as when they are restored from a
\* save file: each is ignored when it is in its collection.
AddPair(s, u) ==
    /\ uncertain
    /\ (s \in Members(spills) <=> u \in Members(u_spills)) \/ "again" \in PairCaller
    /\ Room(spills) /\ Room(u_spills)
    /\ spills' = Added(spills, s)
    /\ u_spills' = Added(u_spills, u)
    /\ UNCHANGED uncertain

\* The copy is found at the position of the spill.
CopyOf(s) == Nth(u_spills, IndexOf(spills, s))

\* remove, by id or position: the copy first.  At a position where there is
\* none IndexError leaves both as they were.
RemoveSpill(s) ==
    /\ s \in Members(spills)
    /\ uncertain => IndexOf(spills, s) <= Cardinality(Members(u_spills))
    /\ u_spills' = IF uncertain THEN Removed(u_spills, CopyOf(s)) ELSE u_spills
    /\ spills' = Removed(spills, s)
    /\ UNCHANGED uncertain

\* [] = by id: the copy is replaced by integer, that is, by slot, which is
\* the position of the new spill.  In a hole KeyError leaves the copies as
\* they were, and so does IndexError beyond the list.
SetSpill(old, new) ==
    /\ old \in Members(spills)
    /\ new \notin Members(spills) \ {old} \/ "reuse" \in PairCaller
    /\ "swap" \in PairCaller \/ ~uncertain \/ Filled(u_spills) = DOMAIN u_spills.elems
    /\ spills' = Replaced(spills, old, spills.index[old], new)
    /\ LET slot == IndexOf(spills', new)
       IN  u_spills' = IF uncertain /\ slot \in Filled(u_spills)
                       THEN Replaced(u_spills, u_spills.elems[slot], slot, <<new, slot>>)
                       ELSE u_spills
    /\ UNCHANGED uncertain

\* clear, of both.
ClearSpills ==
    /\ spills' = Cleared
    /\ u_spills' = Cleared
    /\ UNCHANGED uncertain

\* uncertain.setter: the copies are made or dropped.
SetUncertain(b) ==
    /\ b # uncertain
    /\ uncertain' = b
    /\ u_spills' = IF b THEN Copies(spills) ELSE Cleared
    /\ UNCHANGED spills

\* rewind: the copies are made anew if the collections differ.
RewindCopies ==
    /\ u_spills' = IF uncertain /\ InOrder(spills) # MadeOf(InOrder(u_spills))
                   THEN Copies(spills) ELSE u_spills
    /\ UNCHANGED <<uncertain, spills>>

PairInit ==
    /\ uncertain \in BOOLEAN
    /\ spills = Cleared
    /\ u_spills = Cleared

PairNext ==
    \/ \E s \in Spills : AddSpill(s) \/ RemoveSpill(s)
    \/ \E s \in Spills : \E u \in Members(u_spills) \cup {NewCopy(s)} : AddPair(s, u)
    \/ \E old, new \in Spills : SetSpill(old, new)
    \/ ClearSpills
    \/ \E b \in BOOLEAN : SetUncertain(b)
    \/ RewindCopies

PairSpec == PairInit /\ [][PairNext]_PairVars

-----------------------------------------------------------------------------
(* Properties                                                              *)

\* CopiesInStep: in an uncertain model the k-th copy is one of the k-th
\* spill and there are as many of them (__len__: "will contain the same
\* number of spills"), although the two collections have their holes in
\* different places: remove, spill_num and spill_by_index all find a copy by
\* its position.  Between two rewinds nothing but these calls keeps it so;
\* a caller who adds a spill a second time ("again") breaks it.
CopiesInStep == uncertain => MadeOf(InOrder(u_spills)) = InOrder(spills)
=============================================================================
