----------------------------- MODULE BugReporter -----------------------------
(***************************************************************************)
(* internal/service/bug_reporter.go: errors of the service become issues   *)
(* of a queue of their own, one per fingerprint.  Reports run in           *)
(* goroutines of their own (hook.go:47, webhook_handler.go:393); each      *)
(* searches for an open issue and creates one through TrackerClient.  The  *)
(* search changes nothing, so of its call only the answer is kept.         *)
(***************************************************************************)
EXTENDS TrackerClient

CONSTANTS
  Errors,        \* fingerprints
  NoError,       \* what a goroutine that has not reported yet reports
  Ttl,           \* cacheTTL, in steps of the clock
  MaxBugs,       \* most open issues of a fingerprint (bound)
  MaxLost,       \* most connections that break, answers that lie, deadlines (bound)
  MaxDeaths      \* most restarts (bound)

\* A reporter makes one creation at a time; it is named by its call.
Reporters == Calls

ASSUME ReporterAssumption ==
  /\ NoError \notin Errors
  /\ {Ttl, MaxBugs} \subseteq Nat \ {0} /\ {MaxLost, MaxDeaths} \subseteq Nat

VARIABLES
  phase,         \* "rest", "search" or "create"
  about,         \* the fingerprint a reporter works on, or worked on last
  blind,         \* the search of the reporter failed
  age,           \* recentBugs: time since the mark; Ttl when there is none
  bugs,          \* Tracker: open issues with the tag of a fingerprint
  stray,         \* ghost: one of them was created after its call had ended
  lost, deaths

reporterVars == <<phase, about, blind, age, bugs, stray, lost, deaths>>
vars == <<clientVars, reporterVars>>

Init ==
  /\ ClientInit
  /\ phase = [r \in Reporters |-> "rest"]
  /\ about = [r \in Reporters |-> NoError]
  /\ blind = [r \in Reporters |-> FALSE]
  /\ age = [f \in Errors |-> Ttl]
  /\ bugs = [f \in Errors |-> 0]
  /\ stray = [f \in Errors |-> FALSE]
  /\ lost = 0 /\ deaths = 0

-----------------------------------------------------------------------------
StartReport(r, f) ==
  /\ phase[r] = "rest" /\ stage[r] = "none"
  /\ phase' = [phase EXCEPT ![r] = "search"]
  /\ about' = [about EXCEPT ![r] = f]
  /\ UNCHANGED <<clientVars, blind, bugs, stray, lost, deaths>>

\* Mutated forms of Report: an occurrence that is suppressed renews the mark; the
\* mark is not set together with the check.
ReportSliding(r, f) ==
  /\ age' = [age EXCEPT ![f] = 0]
  /\ \/ age[f] = Ttl /\ StartReport(r, f)
     \/ age[f] < Ttl /\ UNCHANGED <<clientVars, phase, about, blind, bugs, stray, lost, deaths>>

ReportUnmarked(r, f) ==
  /\ age[f] = Ttl
  /\ UNCHANGED age
  /\ StartReport(r, f)

\* ReportError up to the search, under cacheMu: a fresh mark ends it (a step
\* that changes nothing), otherwise the mark is set before anything is reported.
Report(r, f) ==
  /\ age[f] = Ttl
  /\ age' = [age EXCEPT ![f] = 0]
  /\ StartReport(r, f)

\* An open issue ends the report; a search that failed does not.
Search(r) ==
  /\ phase[r] = "search"
  /\ \E fails \in BOOLEAN :
       /\ fails => lost < MaxLost
       /\ lost' = IF fails THEN lost + 1 ELSE lost
       /\ \/ /\ ~fails /\ bugs[about[r]] > 0
             /\ phase' = [phase EXCEPT ![r] = "rest"]
             /\ UNCHANGED <<clientVars, blind>>
          \/ /\ fails \/ bugs[about[r]] = 0
             /\ phase' = [phase EXCEPT ![r] = "create"]
             /\ blind' = [blind EXCEPT ![r] = fails]
             /\ Begin(r)
  /\ UNCHANGED <<about, age, bugs, stray, deaths>>

\* A creation that failed is logged; the mark stays.
Finish(r) ==
  /\ phase[r] = "create" /\ stage[r] = "done"
  /\ phase' = [phase EXCEPT ![r] = "rest"]
  /\ blind' = [blind EXCEPT ![r] = FALSE]
  /\ UNCHANGED <<clientVars, about, age, bugs, stray, lost, deaths>>

\* The name of a call that nothing is left of.
Recycle(r) ==
  /\ phase[r] = "rest"
  /\ Forget(r)
  /\ UNCHANGED reporterVars

ReporterStep(r) ==
  Search(r) \/ Finish(r) \/ Recycle(r) \/ (Running(r) /\ UNCHANGED reporterVars)

-----------------------------------------------------------------------------
\* A creation is carried out and answered.
Created(r) ==
  \E a \in Replies :
    /\ Serve(r, a)
    /\ bugs[about[r]] < MaxBugs
    /\ bugs' = [bugs EXCEPT ![about[r]] = @ + 1]
    /\ a # "2xx" => lost < MaxLost
    /\ lost' = IF a = "2xx" THEN lost ELSE lost + 1
    /\ UNCHANGED <<phase, about, blind, age, stray, deaths>>

Refused(r) == \E a \in Replies : Refuse(r, a) /\ UNCHANGED reporterVars

\* A connection breaks, or the time limit of net/http strikes.
Breaks(r) ==
  /\ lost < MaxLost
  /\ lost' = lost + 1
  /\ ConnectionFails(r)
  /\ UNCHANGED <<phase, about, blind, age, bugs, stray, deaths>>

\* The deadline of hook.go:36 has passed.
GivenUp(r) ==
  /\ stage[r] \in {"sent", "answered"} /\ cancelled[r]
  /\ ConnectionFails(r)
  /\ UNCHANGED reporterVars

\* A creation arrives after its call has given it up.
Late(r) ==
  \/ /\ ServeLate(r)
     /\ bugs[about[r]] < MaxBugs
     /\ bugs' = [bugs EXCEPT ![about[r]] = @ + 1]
     /\ stray' = [stray EXCEPT ![about[r]] = TRUE]
     /\ UNCHANGED <<phase, about, blind, age, lost, deaths>>
  \/ LoseLate(r) /\ UNCHANGED reporterVars

Deadline(r) ==
  /\ lost < MaxLost
  /\ lost' = lost + 1
  /\ Cancel({r})
  /\ UNCHANGED <<phase, about, blind, age, bugs, stray, deaths>>

\* A human resolves the issues of a fingerprint.
Resolve(f) ==
  /\ bugs[f] > 0
  /\ bugs' = [bugs EXCEPT ![f] = 0]
  /\ stray' = [stray EXCEPT ![f] = FALSE]
  /\ UNCHANGED <<clientVars, phase, about, blind, age, lost, deaths>>

\* Time passes in steps much longer than a report takes.
Tick ==
  /\ \A r \in Reporters : phase[r] = "rest"
  /\ age' = [f \in Errors |-> IF age[f] < Ttl THEN age[f] + 1 ELSE Ttl]
  /\ UNCHANGED <<clientVars, phase, about, blind, bugs, stray, lost, deaths>>

\* The marks are in memory only.
Restart ==
  /\ deaths < MaxDeaths
  /\ deaths' = deaths + 1
  /\ ProcessDies
  /\ phase' = [r \in Reporters |-> "rest"]
  /\ blind' = [r \in Reporters |-> FALSE]
  /\ age' = [f \in Errors |-> Ttl]
  /\ UNCHANGED <<about, bugs, stray, lost>>

AnswerStep(r) == Created(r) \/ Refused(r) \/ GivenUp(r)

Next ==
  \/ \E r \in Reporters :
       \/ \E f \in Errors : Report(r, f)
       \/ ReporterStep(r) \/ AnswerStep(r)
       \/ Breaks(r) \/ Late(r) \/ Deadline(r)
  \/ \E f \in Errors : Resolve(f)
  \/ Tick \/ Restart

\* Goroutines run, the time limit of net/http ends every request, and nothing
\* stays on the wire for ever.  The errors keep occurring and time passes.
Fairness ==
  /\ \A r \in Reporters :
       WF_vars(ReporterStep(r)) /\ WF_vars(AnswerStep(r)) /\ WF_vars(Late(r))
  /\ \A f \in Errors : WF_vars(\E r \in Reporters : Report(r, f))
  /\ WF_vars(Tick)

Spec == Init /\ [][Next]_vars /\ Fairness

-----------------------------------------------------------------------------
ReporterTypeOK ==
  /\ ClientTypeOK
  /\ phase \in [Reporters -> {"rest", "search", "create"}]
  /\ about \in [Reporters -> Errors \cup {NoError}]
  /\ blind \in [Reporters -> BOOLEAN]
  /\ age \in [Errors -> 0..Ttl]
  /\ bugs \in [Errors -> 0..MaxBugs]
  /\ stray \in [Errors -> BOOLEAN]
  /\ lost \in 0..MaxLost /\ deaths \in 0..MaxDeaths

\* bug_reporter.go:94 "prevent duplicate open issues": a second issue for a
\* fingerprint is opened only by a creation that was repeated after one that had
\* been carried out, that arrived after its call had ended (or found one that
\* did), or whose search had failed - never because two errors came at once or
\* the service was restarted.
DuplicatesExplained ==
  [][\A f \in Errors :
       (bugs[f] > 0 /\ bugs'[f] > bugs[f]) =>
         \/ stray'[f]
         \/ \E r \in Reporters :
              about[r] = f /\ phase[r] = "create" /\ (effects[r] > 0 \/ blind[r])]_vars

\* The mark that is set before the issue is created (bug_reporter.go:91) delays a
\* report that failed and does not lose it: if the error keeps occurring and the
\* Tracker at some time stops refusing, an issue is opened, again each time it is
\* resolved.
RecurringErrorFiled ==
  <>[][\A r \in Reporters : ~Refused(r)]_vars => \A f \in Errors : []<>(bugs[f] > 0)
=============================================================================
