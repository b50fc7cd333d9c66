----------------------------- MODULE MCModelRun ----------------------------
(***************************************************************************)
(* Instances of ModelRun for TLC: the releases, and the caller's choices.  *)
(***************************************************************************)
EXTENDS ModelRun

CONSTANTS s1, s2, s3, c1, c2, c3

\* s1 takes two steps of two seconds, s2 is instantaneous, and starts at the
\* second step; s3 has fewer elements than release steps.
Release1 == [begin |-> 0, end |-> 4, n |-> 2, perStep |-> FALSE]
Release2 == [begin |-> 2, end |-> 2, n |-> 2, perStep |-> FALSE]
Release3 == [begin |-> 0, end |-> 4, n |-> 1, perStep |-> FALSE]

\* One copy of each spill at a time.
MCSpillOf ==
    [s \in Spills |-> IF s \in {s1, c1} THEN s1
                      ELSE IF s \in {s2, c2} THEN s2 ELSE s3]

MCReleaseOf ==
    [s \in Spills |-> IF s \in {s1, c1} THEN Release1
                      ELSE IF s \in {s2, c2} THEN Release2 ELSE Release3]
=============================================================================
