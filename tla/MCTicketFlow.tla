---------------------------- MODULE MCTicketFlow ----------------------------
\* Instances of TicketFlow: constants that a cfg cannot write down.
EXTENDS Claims, TLC

CONSTANTS i1, i2, g1, g2, a1, a2, a3

OneGroup == (g1 :> {a1, a2})
TwoGroups == (g1 :> {a1}) @@ (g2 :> {a2})
LimitOne == [s \in Slots |-> 1]
LimitTwo == [s \in Slots |-> 2]
AllToG1 == [i \in Issues |-> g1]
OneEach == (i1 :> g1) @@ (i2 :> g2)
Items == Issues \X Slots

\* Everybody is resolved to one name; or a payload may also give an id that the
\* configuration does not list, and that stays what it is.
ByLogin == [p \in People |-> {p}]
ByLoginOrId == [p \in People |-> IF p = NoOne THEN {p} ELSE {p, a3}]

\* Issues with one route, assignees of one group and requests are interchangeable.
FlowSymmetry ==
  Permutations(Issues) \cup Permutations(Assignees) \cup Permutations(Handlers)

\* The same for the runs with liveness, where TLC takes no symmetry set: let i1 be the
\* ticket created first.
FirstCreated == issue[i2].st # "none" => issue[i1].st # "none"

\* Users do nothing but create tickets and leave the choice of the assignee to the
\* service.
OnlyNewTickets == \A m \in inbox : m.kind = "plain" /\ m.to = NoOne
=============================================================================
