---------------------------- MODULE HandleTable ----------------------------
(***************************************************************************)
(* The handles of the C++ library, MemUtils.cpp: a handle is the address   *)
(* of a place in a table of master pointers, which holds the address of    *)
(* the block.  Every list, grid and time series of the movers hangs on     *)
(* one.  A place that holds 0 is free; ten free places are kept in a cache *)
(* and found again by a scan of the table when it is empty.  When the      *)
(* table is full a new one is made and the old one is forgotten, its       *)
(* handles staying in use.                                                 *)
(*                                                                         *)
(* A block is abstracted to the owner it was allocated for, a place to its *)
(* table and index.  The cache is an array with holes, as in the code: a   *)
(* place could be in it twice.                                             *)
(***************************************************************************)
EXTENDS Ranks

CONSTANTS
    Owners,       \* the pointers of the program that may hold a handle
    TableSize,    \* kNumToAllocate, 6000
    CacheSize,    \* the length of freeMasterPointers, 10
    MaxTables     \* bound: how often the table is made

ASSUME HandleAssumption ==
    /\ TableSize \in Nat /\ CacheSize \in Nat \ {0}
    /\ CacheSize <= TableSize
    /\ MaxTables \in Nat

Places == (1 .. MaxTables) \X (1 .. TableSize)
Null   == <<0, 0>>          \* a null handle, an empty slot of the cache
Free   == "free"            \* a master pointer that is 0

ASSUME OwnersAssumption == Free \notin Owners

VARIABLES
    tables,   \* how many tables were made; masterPointers is the last
    block,    \* per place: whose block it points to, or Free
    cache,    \* freeMasterPointers
    handle    \* per owner: the handle it holds, or Null

TableVars == <<tables, block, cache, handle>>

Slots == 1 .. CacheSize

TableInit ==
    /\ tables = 0
    /\ block = [p \in Places |-> Free]
    /\ cache = [s \in Slots |-> Null]
    /\ handle = [o \in Owners |-> Null]

-----------------------------------------------------------------------------
FreeIndices(k) == {i \in 1 .. TableSize : k # 0 /\ block[<<k, i>>] = Free}

\* The first slot of the cache with that content, if there is one.
With(c, p)    == {s \in Slots : c[s] = p}
FirstWith(S)  == NthOf(S, 1)

Uncached(c, p) == IF With(c, p) = {} THEN c ELSE [c EXCEPT ![FirstWith(With(c, p))] = Null]

\* The scan of the table: the first ten free places.
Refilled == [s \in Slots |-> IF s <= Cardinality(FreeIndices(tables))
                             THEN <<tables, NthOf(FreeIndices(tables), s)>> ELSE Null]

\* _InitAllHandles: the first ten places of the new table.
FirstPlaces(k) == [s \in Slots |-> <<k, s>>]

\* A faulty variant: the place stays in the cache.
GrantCached(o, p, c, k) ==
    /\ tables' = k /\ cache' = c
    /\ block' = [block EXCEPT ![p] = o]
    /\ handle' = [handle EXCEPT ![o] = p]

\* The block is allocated and its place is no longer in the cache; or
\* memory is short and the caller gets a null handle.
Grant(o, p, c, k) ==
    /\ tables' = k
    /\ \/ /\ block' = [block EXCEPT ![p] = o]
          /\ handle' = [handle EXCEPT ![o] = p]
          /\ cache' = Uncached(c, p)
       \/ cache' = c /\ UNCHANGED <<block, handle>>

\* _NewHandle, _HandToHand
NewHandle(o) ==
    /\ handle[o] = Null
    /\ IF With(cache, Null) # Slots
       THEN Grant(o, cache[FirstWith(Slots \ With(cache, Null))], cache, tables)
       ELSE IF FreeIndices(tables) # {}
       THEN Grant(o, Refilled[1], Refilled, tables)
       ELSE /\ tables < MaxTables
            /\ Grant(o, <<tables + 1, 1>>, FirstPlaces(tables + 1), tables + 1)

\* _DisposeHandleReally: the block is freed, its place cached if there is
\* room.  Every owner in the library then clears its pointer, and none
\* disposes of a handle twice.
DisposeHandle(o) ==
    /\ handle[o] # Null
    /\ block' = [block EXCEPT ![handle[o]] = Free]
    /\ handle' = [handle EXCEPT ![o] = Null]
    /\ cache' = IF With(cache, Null) = {} THEN cache
                ELSE [cache EXCEPT ![FirstWith(With(cache, Null))] = handle[o]]
    /\ UNCHANGED tables

TableNext == \E o \in Owners : NewHandle(o) \/ DisposeHandle(o)

TableSpec == TableInit /\ [][TableNext]_TableVars

-----------------------------------------------------------------------------
(* Properties.                                                             *)

\* A handle leads to its owner's block for as long as the owner holds it: no
\* sequence of allocations and disposals, full caches, scans, failures and
\* new tables hands a place out twice.
OwnersKeepTheirBlocks ==
    \A o \in Owners : handle[o] # Null => block[handle[o]] = o

=============================================================================
