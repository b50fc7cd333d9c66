------------------------ MODULE MCOrderedCollection ------------------------
(* A finite instance: every list of at most two objects, some of the wrong
   type. *)
EXTENDS OrderedCollection

ShortLists == UNION {[1 .. n -> Objects \cup {Alien}] : n \in 0 .. 2}
=============================================================================
