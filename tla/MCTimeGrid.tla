----------------------------- MODULE MCTimeGrid -----------------------------
(***************************************************************************)
(* Grids and callers on which TLC checks TimeGrid: a constant current, one *)
(* file, files that touch, files with gaps, files of one time, files of    *)
(* different lengths.                                                      *)
(***************************************************************************)
EXTENDS TimeGrid

OneFile   == {<< <<2>> >>, << <<2, 4>> >>, << <<2, 5, 7, 10>> >>}
Touching  == {<< <<2, 4>>, <<4, 6, 8>> >>, << <<2, 4, 6>>, <<6, 8, 10>> >>,
              << <<2, 4>>, <<4, 6>>, <<6, 8, 10>> >>}
WithGaps  == {<< <<2, 4>>, <<6, 8>> >>, << <<2, 5>>, <<6, 8>>, <<11, 13>> >>}
OneTimes  == {<< <<2>>, <<4>>, <<7, 9>> >>, << <<2, 4>>, <<6>>, <<8, 10>> >>,
              << <<2, 4>>, <<6, 8>>, <<10>> >>}

Caller(files, extrapolate, method, faults, rewinds, start) ==
    [files |-> files, extrapolate |-> extrapolate, method |-> method,
     faults |-> faults, rewinds |-> rewinds, start |-> start]

\* One file, no extrapolation: any caller, at any time.
AnyCaller == {Caller(f, FALSE, m, flt, TRUE, t) :
    f \in OneFile, m \in {"euler", "rk4"}, flt \in BOOLEAN, t \in 0 .. 5}

\* Otherwise: forward in time, and not into a gap with an empty end slot.
Forward == {Caller(f, x, "euler", FALSE, FALSE, t) :
    f \in OneFile \cup Touching \cup WithGaps, x \in BOOLEAN, t \in 0 .. 3}
ForwardOneTimes == {Caller(f, x, "euler", FALSE, FALSE, t) :
    f \in OneTimes, x \in BOOLEAN, t \in {0, 2}}

ForwardOneFile == {Caller(f, TRUE, m, flt, FALSE, t) :
    f \in OneFile, m \in {"euler", "rk4"}, flt \in BOOLEAN, t \in 0 .. 5}

\* Files that touch and cannot be read at times, from within the data.
ForwardFaults == {Caller(f, x, "euler", TRUE, FALSE, t) :
    f \in Touching, x \in BOOLEAN, t \in {2, 3}}

\* The velocities of an RK4 move go into the next file and come back.
BackIntoFile == {Caller(<< <<2, 4, 6>>, <<6, 8, 10>> >>, FALSE, "rk4", FALSE, FALSE, 3)}

SafeSetups == AnyCaller \cup Forward \cup ForwardOneTimes \cup ForwardOneFile
              \cup ForwardFaults
=============================================================================
