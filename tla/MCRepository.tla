---------------------------- MODULE MCRepository ----------------------------
\* The two tables of repository.go that need no other, side by side on a small
\* instance: the first state says which of them the behaviour is about, and the
\* other one is left alone.
EXTENDS LoadLedger, PendingQueue, TLC

VARIABLE table

tablesVars == <<table, ledgerVars, pendingVars>>

Init ==
  /\ table \in {"ledger", "pending"}
  /\ LedgerInit
  /\ PendingInit

Next ==
  \/ table = "ledger" /\ LedgerNext /\ UNCHANGED <<table, pendingVars>>
  \/ table = "pending" /\ PendingNext /\ UNCHANGED <<table, ledgerVars>>

Spec == Init /\ [][Next]_tablesVars

TablesSymmetry ==
  Permutations(Issues) \cup Permutations(Groups) \cup Permutations(Assignees)
=============================================================================
