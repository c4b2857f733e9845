----------------------------- MODULE TrackerCall -----------------------------
(***************************************************************************)
(* What a call of the Tracker promises to the code that makes it, whatever *)
(* the network does: it ends with a result; success means that the change  *)
(* asked for was carried out; an error means nothing - the change may have *)
(* been carried out, several times, and may still be after the error.      *)
(* TrackerClient shows that Execute keeps this promise and no better one.  *)
(***************************************************************************)
EXTENDS Naturals

CONSTANTS
  Calls,         \* calls of Execute, by any goroutines, at the same time
  MaxEffects     \* how often one call may carry out its change

VARIABLES
  result,        \* what the caller sees of each call
  effects        \* how often the change of each call was carried out

callVars == <<result, effects>>

Init ==
  /\ result = [c \in Calls |-> "none"]
  /\ effects = [c \in Calls |-> 0]

Begin(c) ==
  /\ result[c] = "none"
  /\ result' = [result EXCEPT ![c] = "open"]
  /\ UNCHANGED effects

\* Also after the call has ended: a request may be on its way for long.
CarryOut(c) ==
  /\ result[c] # "none"
  /\ effects[c] < MaxEffects
  /\ effects' = [effects EXCEPT ![c] = @ + 1]
  /\ UNCHANGED result

Succeed(c) ==
  /\ result[c] = "open"
  /\ effects[c] > 0
  /\ result' = [result EXCEPT ![c] = "ok"]
  /\ UNCHANGED effects

\* Any set of calls: the process dies with all the calls it is making.
Fail(cs) ==
  /\ \A c \in cs : result[c] = "open"
  /\ result' = [c \in Calls |-> IF c \in cs THEN "failed" ELSE result[c]]
  /\ UNCHANGED effects

\* A call that is over and done with; its name is free for another call.
Forget(c) ==
  /\ result[c] \in {"ok", "failed"}
  /\ result' = [result EXCEPT ![c] = "none"]
  /\ effects' = [effects EXCEPT ![c] = 0]

Next ==
  \/ \E c \in Calls : Begin(c) \/ CarryOut(c) \/ Succeed(c) \/ Forget(c)
  \/ \E cs \in SUBSET Calls : Fail(cs)

Spec == Init /\ [][Next]_callVars
=============================================================================
