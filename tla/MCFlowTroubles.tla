--------------------------- MODULE MCFlowTroubles ---------------------------
\* The whole service with every kind of trouble - a webhook delivered twice, a
\* failed or broken call, a failed write, a crash - but only a few of them in one
\* behaviour.  A step that meets no trouble is always among those that fairness
\* asks for, so in the run with liveness the constraints take nothing from it.
EXTENDS MCTicketFlow

CONSTANT MaxTroubles   \* most troubles of all kinds together (bound)

Troubles == dups + faults + dbFaults + crashes
FewTroubles == Troubles <= MaxTroubles

\* Troubles, or a third event; one trouble after a third event only while no request
\* runs, for the workers alone.
FewOfBoth == Troubles = 0 \/ events <= 2 \/ (Troubles = 1 /\ Busy = {})

\* The two assignees of the group are interchangeable, and no shift changes in this
\* instance: if only one of them is on shift, let it be a1.
FirstOnShift == <<g1, a2>> \in onShift => <<g1, a1>> \in onShift
=============================================================================
