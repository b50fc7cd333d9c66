----------------------------- MODULE MCCleanUp -----------------------------
(***************************************************************************)
(* An instance of CleanUp for TLC.                                         *)
(***************************************************************************)
EXTENDS CleanUp, FiniteSetsExt

Off == [on |-> FALSE, start |-> 0, stop |-> 1, rate |-> 0, rest |-> 0]
On(start, stop, rate, rest) ==
    [on |-> TRUE, start |-> start, stop |-> stop, rate |-> rate, rest |-> rest]

\* Windows that start before the run, at a step, between two steps, that end
\* on the grid and off it, after the run, and inside a single step.
Windows == {<<-1, 3>>, <<0, 4>>, <<1, 3>>, <<1, 6>>, <<4, 5>>}
InOneStep == <<1, 2>>

Run(time_step, substeps, d, s, b) ==
    [time_step |-> time_step, weathering_substeps |-> substeps,
     plan |-> [disperse |-> d, skim |-> s, burn |-> b]]

\* One operation alone in every window; two and three that compete.
MCSetups ==
    {Run(ts, sub, Off, On(w[1], w[2], 1, 0), Off) :
        ts \in {2}, sub \in {1, 2}, w \in Windows}
    \cup {Run(3, 1, On(w[1], w[2], 1, 0), Off, Off) : w \in Windows \cup {InOneStep}}
    \cup {Run(5, 2, Off, Off, On(w[1], w[2], 1, 1)) : w \in Windows}
    \cup {Run(2, 1, On(2, 5, 1, 0), On(0, 3, 1, 0), On(w[1], w[2], 1, 1)) :
             w \in Windows}

\* The sub-steps of a step fill it exactly and none is empty, for every number
\* of them and every step of up to 20 seconds.
ASSUME SubStepsFillStep ==
    \A time_step \in 1 .. 20 : \A n \in 1 .. time_step :
        LET ss == SubSteps([time_step |-> time_step, weathering_substeps |-> n])
        IN  /\ MapThenSumSet(LAMBDA i : ss[i], DOMAIN ss) = time_step
            /\ \A i \in DOMAIN ss : ss[i] > 0
=============================================================================
