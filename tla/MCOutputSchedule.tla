------------------------- MODULE MCOutputSchedule --------------------------
(* Finite instances of OutputSchedule.  Times are in seconds. *)
EXTENDS OutputSchedule

Configs(Every, From, Zero, Last) ==
    [every : Every, from : From, zero : Zero, last : Last]

\* Periods shorter than, equal to, not a multiple of and longer than a step;
\* an output start before the run, on a step, between steps and at its end.
LiveConfigs ==
    {c \in Configs({None, 600, 2000},
                   {None, -300, 0, 900, 1000}, BOOLEAN, BOOLEAN) :
        c.every = None => c.zero}
=============================================================================
