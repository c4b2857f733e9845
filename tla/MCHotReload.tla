----------------------------- MODULE MCHotReload ------------------------------
\* HotReload on a small instance: two good files of different groups and rules,
\* one whose rule names a group it does not have, and one ticket for each of
\* the first two rules.
EXTENDS HotReload

CONSTANTS g1, g2, q1, q2, comp, tag

Rule(q, cs, ts, g) == [queue |-> q, components |-> cs, tags |-> ts, target |-> g]
File(rs, gs) == [yaml |-> TRUE, rules |-> rs, groups |-> gs]

MCContents ==
  { File(<<Rule(q1, {comp}, {}, g1), Rule(Any, {}, {tag}, g2)>>, {g1, g2}),
    File(<<Rule(q1, {}, {}, g2)>>, {g2}),
    File(<<Rule(Any, {}, {}, g1)>>, {g2}) }

MCTickets ==
  { [queue |-> q1, components |-> {comp}, tags |-> {}],
    [queue |-> q2, components |-> {}, tags |-> {tag}] }
===============================================================================
