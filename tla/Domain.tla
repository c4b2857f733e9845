------------------------------- MODULE Domain -------------------------------
(***************************************************************************)
(* The names every module of the project speaks about, and the part of the *)
(* configuration (config.yaml) that decides who may get which ticket.      *)
(***************************************************************************)
EXTENDS Integers, FiniteSets

CONSTANTS
  Issues,      \* issue keys
  Groups,      \* group ids that routing rules and queue rows may name
  Assignees    \* canonical logins, and what people no group lists are called

ASSUME DomainAssumption ==
  /\ IsFiniteSet(Issues)
  /\ IsFiniteSet(Groups)
  /\ IsFiniteSet(Assignees)

\* A counter, a row or a retry belongs to an assignee of a group.
Slots == Groups \X Assignees
=============================================================================
