------------------------------- MODULE MCPulse -------------------------------
(* Model-checking instance of PulseRuns: one schedule of each kind, two dates. *)
EXTENDS PulseRuns

Sch(kind, at, arg) == [kind |-> kind, at |-> at, arg |-> arg]
MCSchedules == {Sch("daily", 1, 0), Sch("weekly", 0, 1), Sch("interval", 0, 1),
                Sch("once", 1, 0), Sch("once", 0, 1)}
MCGaps == {<<2, 0>>}
=============================================================================
