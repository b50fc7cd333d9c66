-------------------------- MODULE SpillContainers --------------------------
(***************************************************************************)
(* The spill containers of a model (spill_container.py) and the part of    *)
(* Spill (spill/spill.py) they drive: the pair of a forecast container     *)
(* and, when the model is uncertain, an uncertain one that holds copies of *)
(* the same spills; the data arrays of the elements; their release, move,  *)
(* beaching and removal; rewind and preparation for a run.                 *)
(*                                                                         *)
(* This module has no state of its own: ModelRun keeps a container record  *)
(* per container and applies these operators to it.                        *)
(*                                                                         *)
(* A container record has                                                  *)
(*   spills        the ordered collection of spills                        *)
(*   on            Spill.on of each spill object                           *)
(*   prepared      0, or the time step the release was prepared for        *)
(*   num_released  Spill._num_released                                     *)
(*   elements      the data arrays, one record per element                 *)
(*   beached, off_maps   the entries of mass_balance, in elements: every   *)
(*                 element of this model carries one unit of mass          *)
(*   gone          history: the elements the run has taken off the map     *)
(* An element has the array entries id, spill_num, status and age, and the *)
(* history entries owner and ord: it is the ord-th element of spill owner. *)
(* The arrays are kept in release order, so a set of elements with         *)
(* increasing ids stands for them.                                         *)
(*                                                                         *)
(* beached and off_maps are booked by the map's beach_elements: what is    *)
(* said of them here is RasterMap's doing; a plain GnomeMap books nothing. *)
(***************************************************************************)
EXTENDS ReleaseSchedule, Sequences, FiniteSets, SequencesExt

CONSTANTS
    Spills,     \* spill objects: those a caller has at hand, and copies
    SpillOf,    \* the spill each of them is a copy of, or else itself
    ReleaseOf,  \* the Release of each spill
    Refloats    \* refloat_halflife >= 0: beached elements may refloat

ASSUME ReleaseAssumption == \A s \in Spills : IsRelease(ReleaseOf[s])

Originals == {s \in Spills : SpillOf[s] = s}

\* Spill.uncertain_copy: a deepcopy, which is another object with an id of
\* its own.
IsCopy(u, s) == u \notin Originals /\ SpillOf[u] = SpillOf[s]

ASSUME CopyAssumption ==
    /\ \A s \in Spills : /\ SpillOf[s] \in Originals
                         /\ ReleaseOf[s] = ReleaseOf[SpillOf[s]]
    /\ \A s \in Originals : \E u \in Spills : IsCopy(u, s)
ASSUME RefloatsAssumption == Refloats \in BOOLEAN

Containers == {"forecast", "uncertain"}

Elements ==
    [id : Nat, owner : Spills, ord : Nat \ {0}, spill_num : Nat,
     status : {"in_water", "on_land"}, age : Nat]

FiniteSubsets(S) == {T \in SUBSET S : IsFiniteSet(T)}

ContainerStates ==
    [spills : Seq(Spills), on : [Spills -> BOOLEAN],
     prepared : [Spills -> Nat], num_released : [Spills -> Nat],
     elements : FiniteSubsets(Elements), beached : Nat, off_maps : Nat,
     gone : FiniteSubsets(Spills \X Nat)]

Members(k) == Range(k.spills)

\* SpillContainer(): no spills, empty arrays.  A spill object is created
\* with on = True; off spills come from the model's SwitchSpill.
EmptyContainer ==
    [spills |-> <<>>, on |-> [s \in Spills |-> TRUE],
     prepared |-> [s \in Spills |-> 0],
     num_released |-> [s \in Spills |-> 0],
     elements |-> {}, beached |-> 0, off_maps |-> 0, gone |-> {}]

-----------------------------------------------------------------------------
(* Release of elements                                                     *)

\* A faulty variant: counts the total again instead of the difference.
ExpectedReleaseTwice(k, s, current_time, dt) ==
    LET expected ==
            NumElementsAfterTime(ReleaseOf[s], k.prepared[s], current_time, dt)
    IN  IF k.on[s] THEN k.num_released[s] + expected ELSE k.num_released[s]

\* The number of elements spill s should have produced by current_time + dt:
\* Spill.release_elements never takes elements back.
ExpectedRelease(k, s, current_time, dt) ==
    LET expected ==
            NumElementsAfterTime(ReleaseOf[s], k.prepared[s], current_time, dt)
    IN  IF k.on[s] /\ expected > k.num_released[s]
        THEN expected ELSE k.num_released[s]

\* The elements one call of release_elements appends: pairs of the position
\* of the spill in the collection and the ordinal of the element in it.
Batch(k, current_time, dt) ==
    UNION {{i} \X ((k.num_released[k.spills[i]] + 1)
                      .. ExpectedRelease(k, k.spills[i], current_time, dt))
           : i \in DOMAIN k.spills}

\* The elements of a batch appended before p: spill by spill, then in order.
Earlier(batch, p) ==
    {q \in batch : q[1] < p[1] \/ (q[1] = p[1] /\ q[2] < p[2])}

\* A faulty variant: spill_num counts from one.
NewElementsFromOne(k, current_time, dt, next_id) ==
    LET batch == Batch(k, current_time, dt)
    IN  {[id        |-> next_id + Cardinality(Earlier(batch, p)),
          owner     |-> k.spills[p[1]],
          ord       |-> p[2],
          spill_num |-> p[1],
          status    |-> "in_water",
          age       |-> 0] : p \in batch}

\* Ids continue from next_id, the initial_value of the 'id' array type.
NewElements(k, current_time, dt, next_id) ==
    LET batch == Batch(k, current_time, dt)
    IN  {[id        |-> next_id + Cardinality(Earlier(batch, p)),
          owner     |-> k.spills[p[1]],
          ord       |-> p[2],
          spill_num |-> p[1] - 1,
          status    |-> "in_water",
          age       |-> 0] : p \in batch}

\* SpillContainer.release_elements
ReleaseElements(k, current_time, dt, next_id) ==
    [k EXCEPT
       !.elements = @ \cup NewElements(k, current_time, dt, next_id),
       !.num_released =
           [s \in Spills |-> IF s \in Members(k)
                             THEN ExpectedRelease(k, s, current_time, dt)
                             ELSE @[s]]]

NumNew(k, current_time, dt) == Cardinality(Batch(k, current_time, dt))

\* Model.release_elements: the forecast container first.  The 'id' array
\* type is one object for both containers (default_array_types.copy()), so
\* the uncertain ids go on where the forecast ids stop.
ReleasePair(pair, current_time, dt, next_id) ==
    [c \in Containers |->
        ReleaseElements(pair[c], current_time, dt,
            IF c = "forecast" THEN next_id
            ELSE next_id + NumNew(pair["forecast"], current_time, dt))]

\* A faulty variant: the next id is the number of elements in the arrays.
NextIdAfterCount(pair, current_time, dt, next_id) ==
    Cardinality(pair["forecast"].elements) + NumNew(pair["forecast"], current_time, dt)
        + NumNew(pair["uncertain"], current_time, dt)

\* The last id of the arrays plus one, of the container that was last.
NextIdAfter(pair, current_time, dt, next_id) ==
    next_id + NumNew(pair["forecast"], current_time, dt)
            + NumNew(pair["uncertain"], current_time, dt)

-----------------------------------------------------------------------------
(* One model step: refloat, move, beach, remove, age                       *)

\* Where one step of refloating, moving and beaching can leave an element.
\* Movers do not move a beached element that does not refloat.
Outcomes(e) ==
    IF e.status = "on_land" /\ ~Refloats THEN {"on_land"}
    ELSE {"in_water", "on_land", "off_maps"}

MoveOutcomes(k) ==
    {f \in [k.elements -> {"in_water", "on_land", "off_maps"}] :
        \A e \in k.elements : f[e] \in Outcomes(e)}

\* The map's beach_elements: who ends the move on land, who off the map.
OnLand(k, f)  == {e \in k.elements : f[e] = "on_land"}
OffMaps(k, f) == {e \in k.elements : f[e] = "off_maps"}

\* Two faulty variants: elements off the map stay; beached ones leave too.
RemainingAll(k, f) == {[e EXCEPT !.status = f[e]] : e \in k.elements}

RemainingAfloat(k, f) ==
    {[e EXCEPT !.status = f[e]] :
        e \in k.elements \ (OffMaps(k, f) \cup OnLand(k, f))}

\* SpillContainer.model_step_is_done: the elements that move_elements marked
\* to_be_removed, those off the map, leave the arrays.
Remaining(k, f) ==
    {[e EXCEPT !.status = f[e]] : e \in k.elements \ OffMaps(k, f)}

\* A faulty variant: a beached element does not age.
AgedAfloat(elements, ts) ==
    {[e EXCEPT !.age = IF e.status = "in_water" THEN @ + ts ELSE @] :
        e \in elements}

\* The tail of Model.step_is_done.
Aged(elements, ts) == {[e EXCEPT !.age = @ + ts] : e \in elements}

\* A faulty variant: off_maps is that of the last step.
StepContainerForgets(k, f, ts) ==
    [k EXCEPT
       !.elements = Aged(Remaining(k, f), ts),
       !.gone     = @ \cup {<<e.owner, e.ord>> : e \in OffMaps(k, f)},
       !.beached  = IF k.elements = {} THEN @ ELSE Cardinality(OnLand(k, f)),
       !.off_maps = Cardinality(OffMaps(k, f))]

\* What one step does to a container between its two releases.  The map
\* brings the mass balance up to date unless the container is empty.
StepContainer(k, f, ts) ==
    [k EXCEPT
       !.elements = Aged(Remaining(k, f), ts),
       !.gone     = @ \cup {<<e.owner, e.ord>> : e \in OffMaps(k, f)},
       !.beached  = IF k.elements = {} THEN @ ELSE Cardinality(OnLand(k, f)),
       !.off_maps = @ + Cardinality(OffMaps(k, f))]

StepPair(pair, f, g, ts) ==
    [c \in Containers |->
        StepContainer(pair[c], IF c = "forecast" THEN f ELSE g, ts)]

-----------------------------------------------------------------------------
(* Rewind and preparation                                                  *)

\* A faulty variant: the arrays are emptied, the counts go on.
RewindContainerCounts(k) ==
    [k EXCEPT !.elements = {}, !.beached = 0, !.off_maps = 0, !.gone = {}]

\* SpillContainer.rewind: every spill in the collection, the arrays and the
\* mass balance.  A spill outside the collection is not reached.
RewindContainer(k) ==
    [k EXCEPT
       !.num_released = [s \in Spills |-> IF s \in Members(k) THEN 0 ELSE @[s]],
       !.prepared     = [s \in Spills |-> IF s \in Members(k) THEN 0 ELSE @[s]],
       !.elements = {}, !.beached = 0, !.off_maps = 0, !.gone = {}]

CopyOf(s) == CHOOSE u \in Spills : IsCopy(u, s)

\* SpillContainer.uncertain_copy: a copy of every spill, empty arrays.
UncertainCopy(k) ==
    LET copies == [i \in DOMAIN k.spills |-> CopyOf(k.spills[i])]
        C == Range(copies)
    IN  [EmptyContainer EXCEPT
           !.spills       = copies,
           !.on           = [u \in Spills |-> IF u \in C THEN k.on[SpillOf[u]] ELSE @[u]],
           !.prepared     = [u \in Spills |-> IF u \in C
                                              THEN k.prepared[SpillOf[u]] ELSE @[u]],
           !.num_released = [u \in Spills |-> IF u \in C
                                              THEN k.num_released[SpillOf[u]] ELSE @[u]]]

\* Spills are equal when what is saved of them is; their ids are not.
SameSpills(k, m) ==
    /\ Len(k.spills) = Len(m.spills)
    /\ \A i \in DOMAIN k.spills :
          /\ SpillOf[m.spills[i]] = SpillOf[k.spills[i]]
          /\ k.on[k.spills[i]] = m.on[m.spills[i]]

\* SpillContainerPair.rewind: the uncertain container is copied afresh when
\* its spills no longer equal the forecast ones.
RewindPair(pair, uncertain) ==
    LET forecast == RewindContainer(pair["forecast"])
        other    == RewindContainer(pair["uncertain"])
    IN  [c \in Containers |->
            IF c = "forecast" THEN forecast
            ELSE IF ~uncertain THEN EmptyContainer
            ELSE IF SameSpills(forecast, other) THEN other
            ELSE UncertainCopy(forecast)]

\* SpillContainer.prepare_for_model_run when every release can be prepared:
\* all arrays start empty, the mass balance at zero.  Spill._num_released
\* is not touched.
PrepareContainer(k, ts) ==
    [k EXCEPT
       !.prepared = [s \in Spills |-> IF s \in Members(k) THEN ts ELSE @[s]],
       !.elements = {}, !.beached = 0, !.off_maps = 0]

Unpreparable(k, ts) ==
    {i \in DOMAIN k.spills : ~EnoughElements(ReleaseOf[k.spills[i]], ts)}

\* The same call when a release has too few elements: the releases before
\* it stay prepared, it has been rewound, and ValueError leaves the rest as
\* it was.
PrepareRaises(k, ts) ==
    LET bad == CHOOSE i \in Unpreparable(k, ts) :
                   \A j \in Unpreparable(k, ts) : i <= j
    IN  [k EXCEPT !.prepared =
            [s \in Spills |->
                IF \E i \in 1..(bad - 1) : k.spills[i] = s THEN ts
                ELSE IF s = k.spills[bad] THEN 0
                ELSE @[s]]]

-----------------------------------------------------------------------------
(* Adding and removing spills                                              *)

\* OrderedCollection.add: a spill that is in the collection is ignored.
WithSpill(k, s) ==
    IF s \in Members(k) THEN k ELSE [k EXCEPT !.spills = Append(@, s)]

\* A faulty variant: the spill is added to the forecast container only.
AddToForecast(pair, uncertain, s) ==
    [pair EXCEPT !["forecast"] = WithSpill(@, s)]

\* A new copy: its name is none of those in the container.
NewCopies(k, s) == {u \in Spills \ Members(k) : IsCopy(u, s)}

\* SpillContainerPair.add of one spill.  The copy is new and always joins
\* the uncertain container, whether or not the spill was in the forecast
\* one before.
AddToPair(pair, uncertain, s) ==
    LET forecast == WithSpill(pair["forecast"], s)
        u == CHOOSE v \in NewCopies(pair["uncertain"], s) : TRUE
    IN  [c \in Containers |->
            IF c = "forecast" THEN forecast
            ELSE IF ~uncertain THEN pair["uncertain"]
            ELSE [pair["uncertain"] EXCEPT
                    !.spills          = Append(@, u),
                    !.on[u]           = forecast.on[s],
                    !.prepared[u]     = forecast.prepared[s],
                    !.num_released[u] = forecast.num_released[s]]]

\* SpillContainerPair.remove of the i-th spill: the copy at its position in
\* the uncertain container goes with it.  Elements stay in the arrays.
RemoveFromPair(pair, uncertain, i) ==
    LET u == pair["uncertain"].spills[i]
    IN  [c \in Containers |->
            IF c = "forecast"
            THEN [pair["forecast"] EXCEPT !.spills = RemoveAt(@, i)]
            ELSE IF ~uncertain THEN pair["uncertain"]
            ELSE [pair["uncertain"] EXCEPT
                    !.spills = RemoveAt(@, i),
                    !.on[u] = TRUE, !.prepared[u] = 0, !.num_released[u] = 0]]
=============================================================================
