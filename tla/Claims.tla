------------------------------- MODULE Claims -------------------------------
(***************************************************************************)
(* What README.md and the comments say of the running service where the    *)
(* code does something else.  Each property is refuted by a run of its own *)
(* that allows just what it takes.                                         *)
(***************************************************************************)
EXTENDS TicketFlow

\* The service, not a user, gives issue i to a in this step.
ServiceGives(i, a) ==
  /\ events' = events
  /\ issue[i].who # a
  /\ issue'[i].who = a

\* README.md:12: who already has the maximum of tickets is left alone.  Stated
\* for what the service itself has on its books when it calls the Tracker.
WipLimitRespected ==
  [][\A i \in Issues, a \in Assignees :
       ServiceGives(i, a) =>
         \E g \in Groups : /\ a \in Members[g]
                           /\ Cardinality(Tracked(<<g, a>>)) < Limit[<<g, a>>]]_vars

\* README.md:13: as soon as somebody frees a slot or comes on shift, the waiting
\* ticket goes out.  Stated weakly: if a group has somebody free for good, none of
\* its tickets waits for ever.
FreeGroupServed ==
  \A g \in Groups :
    <>[](g \in groups /\ Candidates(g) # {}) =>
      \A i \in Issues :
        (\E r \in pending : r.key = i /\ r.group = g) ~> ~IsPending(i)

\* README.md:14: after a network failure, a 429 or a 5xx the event goes to the dead
\* letter queue.  Stated for requests that run to their end.
TransientErrorQueued ==
  [][\A h \in Handlers :
       (At(h, "failed") /\ handler[h].err \in {"net", "429", "5xx"}
          /\ handler'[h] = Idle /\ crashes' = crashes /\ faults' = faults)
         => \E n \in RowIds : dlqStatus'[n] = "pending" /\ dlqItem'[n][1] = Key(h)]_vars

\* pending_processor.go:215, "Pending ticket not found in Tracker (404)": a ticket
\* is discarded because the Tracker does not know it or its group is gone.
DiscardMeansUnknown == PAt("discard") => pworker.err \in {"404", "none"}
=============================================================================
