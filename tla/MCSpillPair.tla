---------------------------- MODULE MCSpillPair ----------------------------
(* A finite instance: the spills, and a copy of each for every slot. *)
EXTENDS SpillPair

PairObjects == Spills \cup (Spills \X (1 .. PairBound))
=============================================================================
