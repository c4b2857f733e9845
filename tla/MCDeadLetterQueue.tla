-------------------------- MODULE MCDeadLetterQueue --------------------------
\* DeadLetterQueue on a small instance: more rows than fit into a batch, with
\* crashes and failed writes.  What a row holds does not matter here.
EXTENDS DeadLetterQueue
=============================================================================
