-------------------------- MODULE BugReporterProofs --------------------------
(***************************************************************************)
(* The bug reporter, for any number of goroutines and fingerprints, any    *)
(* number of retries, losses and restarts: it uses the client of the       *)
(* Tracker as a client may be used, so what is proved of the client holds  *)
(* of its calls, and a second issue for a fingerprint has one of the       *)
(* causes that DuplicatesExplained names.                                  *)
(***************************************************************************)
EXTENDS BugReporter, TrackerClientProofs

AtWork(r) == phase[r] # "rest"

\* A reporter makes its call after the search and only then.
StageFits ==
  \A r \in Reporters :
    /\ stage[r] \notin {"none", "done"} => phase[r] = "create"
    /\ phase[r] = "search" => stage[r] = "none"

\* Who reports, or may still have a request on the wire, reports something.
Named == \A r \in Reporters : AtWork(r) \/ stage[r] # "none" => about[r] \in Errors

\* The mark set under cacheMu keeps all others away while its report lasts.
Marked == \A r \in Reporters : AtWork(r) => age[about[r]] < Ttl

Alone == \A r, q \in Reporters : AtWork(r) /\ AtWork(q) /\ about[r] = about[q] => r = q

\* What the search of a reporter found is still so until it creates an issue
\* itself, strays apart.
Looked ==
  \A r \in Reporters :
    phase[r] = "create" /\ ~blind[r] /\ effects[r] = 0 =>
      bugs[about[r]] = 0 \/ stray[about[r]]

ReportInv ==
  ReporterTypeOK /\ StageFits /\ Named /\ Marked /\ Alone /\ Looked

ReporterInv == IInv /\ ReportInv

-----------------------------------------------------------------------------
\* Every step of a reporter and of its surroundings is one of the client's, or none.
LEMMA StepsOfClient == [Next]_vars => [ClientNext]_clientVars
<1> SUFFICES ASSUME [Next]_vars PROVE [ClientNext]_clientVars
  OBVIOUS
<1>1. CASE UNCHANGED vars
  BY <1>1 DEF vars
<1>2. ASSUME NEW r \in Reporters
      PROVE  /\ \A f \in Errors : Report(r, f) => UNCHANGED clientVars
             /\ ReporterStep(r) => [ClientNext]_clientVars
             /\ AnswerStep(r) \/ Breaks(r) \/ Late(r) => Wire(r)
             /\ Deadline(r) => Cancel({r})
  <2>1. \A f \in Errors : Report(r, f) => UNCHANGED clientVars
    BY DEF Report, StartReport
  <2>2. ReporterStep(r) => [ClientNext]_clientVars
    BY DEF ReporterStep, Search, Finish, Recycle, ClientNext, Reporters
  <2>3. AnswerStep(r) \/ Breaks(r) \/ Late(r) => Wire(r)
    BY DEF AnswerStep, Created, Refused, GivenUp, Breaks, Late, Wire
  <2> QED
    BY <2>1, <2>2, <2>3 DEF Deadline
<1>3. ASSUME NEW r \in Reporters,
             \/ \E f \in Errors : Report(r, f)
             \/ ReporterStep(r) \/ AnswerStep(r) \/ Breaks(r) \/ Late(r)
      PROVE  [ClientNext]_clientVars
  BY <1>2, <1>3 DEF ClientNext, Reporters
<1>4. ASSUME NEW r \in Reporters, Deadline(r)
      PROVE  [ClientNext]_clientVars
  <2>1. {r} \in SUBSET Calls
    BY DEF Reporters
  <2> QED
    BY <1>2, <1>4, <2>1 DEF ClientNext
<1>5. CASE (\E f \in Errors : Resolve(f)) \/ Tick
  BY <1>5 DEF Resolve, Tick
<1>6. CASE Restart
  BY <1>6 DEF Restart, ClientNext
<1> QED
  BY <1>1, <1>3, <1>4, <1>5, <1>6 DEF Next

LEMMA ReporterIsClient == Spec => ClientSpec
<1>1. Init => ClientInit
  BY DEF Init
<1> QED
  BY <1>1, StepsOfClient, PTL DEF Spec, ClientSpec

-----------------------------------------------------------------------------
\* What a running or a broken call does to its stage.
LEMMA CallMoves ==
  ASSUME IInv, NEW c \in Calls, Running(c) \/ ConnectionFails(c)
  PROVE  /\ stage[c] \notin {"none", "done"}
         /\ stage'[c] # "none"
         /\ \A d \in Calls \ {c} : stage'[d] = stage[d]
         /\ effects' = effects
<1>1. ASSUME NEW s, s # "none", stage' = [stage EXCEPT ![c] = s]
      PROVE  stage'[c] # "none" /\ \A d \in Calls \ {c} : stage'[d] = stage[d]
  BY <1>1 DEF IInv, ClientTypeOK
<1>2. \A what : Return(c, what) => stage' = [stage EXCEPT ![c] = "done"]
  BY DEF Return
<1>3. \A err, d : RetryOrReturn(c, err, d) =>
        \E s \in {"check", "done"} : stage' = [stage EXCEPT ![c] = s]
  BY <1>2 DEF RetryOrReturn
<1>4. \E s \in {"check", "pause", "send", "sent", "done"} : stage' = [stage EXCEPT ![c] = s]
  <2>1. CASE Check(c) \/ Pause(c) \/ Send(c)
    BY <1>2, <2>1 DEF Check, Pause, Send
  <2>2. CASE Receive(c)
    BY <1>2, <1>3, <2>2 DEF Receive
  <2>3. CASE ConnectionFails(c)
    BY <1>2, <1>3, <2>3 DEF ConnectionFails
  <2> QED
    BY <2>1, <2>2, <2>3 DEF Running
<1>5. stage[c] \notin {"none", "done"} /\ effects' = effects
  BY DEF Running, Check, Pause, Send, Receive, ConnectionFails
<1> QED
  BY <1>1, <1>4, <1>5

\* A call goes on while the reporters stand still.
LEMMA CallGoesOn ==
  ASSUME ReporterInv, ClientTypeOK', NEW r \in Reporters,
         stage[r] \notin {"none", "done"}, stage'[r] # "none",
         \A q \in Reporters \ {r} : stage'[q] = stage[q],
         effects' = effects,
         UNCHANGED <<phase, about, blind, age, bugs, stray, deaths>>, lost' \in 0..MaxLost
  PROVE  ReportInv'
<1>1. ReporterTypeOK'
  BY DEF ReporterInv, ReportInv, ReporterTypeOK
<1>2. StageFits' /\ Named'
  BY DEF ReporterInv, ReportInv, StageFits, Named, AtWork
<1>3. Marked' /\ Alone' /\ Looked'
  BY DEF ReporterInv, ReportInv, Marked, Alone, Looked, AtWork
<1> QED
  BY <1>1, <1>2, <1>3 DEF ReportInv

LEMMA LostBounded ==
  ASSUME lost \in 0..MaxLost, lost' = lost \/ (lost < MaxLost /\ lost' = lost + 1)
  PROVE  lost' \in 0..MaxLost
BY ReporterAssumption

-----------------------------------------------------------------------------
LEMMA ReportKeeps ==
  ASSUME ReporterInv, ClientTypeOK', NEW r \in Reporters, NEW f \in Errors, Report(r, f)
  PROVE  ReportInv'
<1> USE ReporterAssumption DEF ReporterInv, ReportInv
<1>1. /\ phase' = [phase EXCEPT ![r] = "search"] /\ about' = [about EXCEPT ![r] = f]
      /\ age' = [age EXCEPT ![f] = 0] /\ stage' = stage /\ effects' = effects
      /\ UNCHANGED <<blind, bugs, stray, lost, deaths>>
      /\ phase[r] = "rest" /\ stage[r] = "none" /\ age[f] = Ttl
  BY DEF Report, StartReport, clientVars
<1>2. ReporterTypeOK'
  BY <1>1 DEF ReporterTypeOK
<1>3. \A q \in Reporters : AtWork(q)' <=> AtWork(q) \/ q = r
  BY <1>1 DEF AtWork, ReporterTypeOK
<1>4. \A q \in Reporters : about'[q] = IF q = r THEN f ELSE about[q]
  BY <1>1 DEF ReporterTypeOK
<1>5. \A q \in Reporters : AtWork(q) => about[q] # f /\ about[q] \in Errors
  BY <1>1 DEF Marked, Named
<1>6. StageFits' /\ Named'
  BY <1>1, <1>3, <1>4, <1>5 DEF StageFits, Named, ReporterTypeOK
<1>7. Alone'
  BY <1>3, <1>4, <1>5 DEF Alone
<1>8. Marked'
  BY <1>1, <1>3, <1>4, <1>5 DEF Marked, ReporterTypeOK
<1>9. Looked'
  BY <1>1, <1>4 DEF Looked, ReporterTypeOK
<1> QED
  BY <1>2, <1>6, <1>7, <1>8, <1>9

LEMMA SearchKeeps ==
  ASSUME ReporterInv, ClientTypeOK', NEW r \in Reporters, Search(r)
  PROVE  ReportInv'
<1> USE DEF ReporterInv, ReportInv
<1>1. /\ phase[r] = "search" /\ stage[r] = "none"
      /\ lost' \in 0..MaxLost /\ effects' = effects
      /\ UNCHANGED <<about, age, bugs, stray, deaths>>
  BY LostBounded DEF Search, StageFits, ReporterTypeOK, Begin, clientVars
<1>2. CASE phase' = [phase EXCEPT ![r] = "rest"] /\ UNCHANGED <<clientVars, blind>>
  <2>1. ReporterTypeOK'
    BY <1>1, <1>2 DEF ReporterTypeOK
  <2>2. stage' = stage /\ \A q \in Reporters : phase'[q] = IF q = r THEN "rest" ELSE phase[q]
    BY <1>2 DEF clientVars, ReporterTypeOK
  <2>3. StageFits' /\ Named'
    BY <1>1, <2>2 DEF StageFits, Named, AtWork
  <2>4. Marked' /\ Alone' /\ Looked'
    BY <1>1, <1>2, <2>2 DEF Marked, Alone, Looked, AtWork
  <2> QED
    BY <2>1, <2>3, <2>4
<1>3. ASSUME NEW fails \in BOOLEAN, fails \/ bugs[about[r]] = 0, Begin(r),
             phase' = [phase EXCEPT ![r] = "create"], blind' = [blind EXCEPT ![r] = fails]
      PROVE  ReportInv'
  <2>1. ReporterTypeOK'
    BY <1>1, <1>3 DEF ReporterTypeOK
  <2>2. \A q \in Reporters : /\ phase'[q] = IF q = r THEN "create" ELSE phase[q]
                             /\ blind'[q] = IF q = r THEN fails ELSE blind[q]
                             /\ stage'[q] = IF q = r THEN "check" ELSE stage[q]
    BY <1>3 DEF Begin, ReporterTypeOK, ClientTypeOK, Reporters
  <2>3. StageFits' /\ Named'
    BY <1>1, <2>2 DEF StageFits, Named, AtWork
  <2>4. Marked' /\ Alone'
    BY <1>1, <2>2 DEF Marked, Alone, AtWork
  <2>5. Looked'
    BY <1>1, <1>3, <2>2 DEF Looked
  <2> QED
    BY <2>1, <2>3, <2>4, <2>5
<1> QED
  BY <1>2, <1>3 DEF Search

LEMMA FinishKeeps ==
  ASSUME ReporterInv, ClientTypeOK', NEW r \in Reporters, Finish(r)
  PROVE  ReportInv'
<1> USE DEF ReporterInv, ReportInv
<1>1. ReporterTypeOK'
  BY DEF Finish, ReporterTypeOK
<1>2. /\ \A q \in Reporters : /\ phase'[q] = IF q = r THEN "rest" ELSE phase[q]
                              /\ blind'[q] = IF q = r THEN FALSE ELSE blind[q]
      /\ stage[r] = "done" /\ phase[r] = "create"
      /\ UNCHANGED <<stage, effects, about, age, bugs, stray>>
  BY DEF Finish, clientVars, ReporterTypeOK
<1>3. StageFits' /\ Named'
  BY <1>2 DEF StageFits, Named, AtWork
<1>4. Marked' /\ Alone' /\ Looked'
  BY <1>2 DEF Marked, Alone, Looked, AtWork
<1> QED
  BY <1>1, <1>3, <1>4

LEMMA RecycleKeeps ==
  ASSUME ReporterInv, ClientTypeOK', NEW r \in Reporters, Recycle(r)
  PROVE  ReportInv'
<1> USE DEF ReporterInv, ReportInv
<1>1. /\ \A q \in Reporters : q # r => stage'[q] = stage[q] /\ effects'[q] = effects[q]
      /\ stage'[r] = "none" /\ phase[r] = "rest"
      /\ UNCHANGED reporterVars
  BY DEF Recycle, Forget, ReporterTypeOK, ClientTypeOK, Reporters
<1>2. ReporterTypeOK'
  BY <1>1 DEF ReporterTypeOK, reporterVars
<1>3. StageFits' /\ Named'
  BY <1>1 DEF StageFits, Named, AtWork, reporterVars
<1>4. Marked' /\ Alone' /\ Looked'
  BY <1>1 DEF Marked, Alone, Looked, AtWork, reporterVars
<1> QED
  BY <1>2, <1>3, <1>4

\* A creation is carried out: its reporter is the only one at work on the
\* fingerprint, and knows of it from now on.
LEMMA CreatedKeeps ==
  ASSUME ReporterInv, ClientTypeOK', NEW r \in Reporters, Created(r)
  PROVE  ReportInv'
<1> USE DEF ReporterInv, ReportInv
<1>1. PICK a \in Replies :
        /\ Serve(r, a) /\ (a # "2xx" => lost < MaxLost)
        /\ lost' = IF a = "2xx" THEN lost ELSE lost + 1
  BY DEF Created
<1>2. /\ stage[r] = "sent" /\ phase[r] = "create" /\ about[r] \in Errors
      /\ \A q \in Reporters : stage'[q] = IF q = r THEN "answered" ELSE stage[q]
      /\ \A q \in Reporters : effects'[q] = IF q = r THEN effects[r] + 1 ELSE effects[q]
  BY <1>1 DEF Serve, StageFits, Named, AtWork, ReporterTypeOK, ClientTypeOK, Reporters
<1>3. /\ bugs[about[r]] < MaxBugs /\ bugs' = [bugs EXCEPT ![about[r]] = @ + 1]
      /\ UNCHANGED <<phase, about, blind, age, stray, deaths>>
  BY DEF Created
<1>4. ReporterTypeOK'
  <2>1. lost' \in 0..MaxLost
    BY <1>1, LostBounded DEF ReporterTypeOK
  <2>2. bugs' \in [Errors -> 0..MaxBugs]
    BY <1>2, <1>3, ReporterAssumption DEF ReporterTypeOK
  <2> QED
    BY <1>3, <2>1, <2>2 DEF ReporterTypeOK
<1>5. StageFits' /\ Named'
  BY <1>2, <1>3 DEF StageFits, Named, AtWork
<1>6. Marked' /\ Alone'
  BY <1>3 DEF Marked, Alone, AtWork
<1>7. Looked'
  <2> SUFFICES ASSUME NEW q \in Reporters, phase'[q] = "create", ~blind'[q], effects'[q] = 0
               PROVE  bugs'[about'[q]] = 0 \/ stray'[about'[q]]
    BY DEF Looked
  <2>1. q # r
    BY <1>2 DEF ReporterTypeOK, ClientTypeOK, Reporters
  <2>2. about[q] # about[r] /\ about[q] \in Errors
    BY <1>2, <1>3, <2>1 DEF Alone, Named, AtWork
  <2>3. bugs'[about[q]] = bugs[about[q]]
    BY <1>3, <2>2 DEF ReporterTypeOK
  <2> QED
    BY <1>2, <1>3, <2>1, <2>3 DEF Looked
<1> QED
  BY <1>4, <1>5, <1>6, <1>7

LEMMA RefusedKeeps ==
  ASSUME ReporterInv, ClientTypeOK', NEW r \in Reporters, Refused(r)
  PROVE  ReportInv'
<1>1. /\ stage[r] = "sent" /\ stage'[r] = "answered" /\ effects' = effects
      /\ \A q \in Reporters \ {r} : stage'[q] = stage[q]
      /\ UNCHANGED reporterVars
  BY DEF Refused, Refuse, ReporterInv, IInv, ClientTypeOK, Reporters
<1> QED
  BY <1>1, CallGoesOn DEF reporterVars, ReporterInv, ReportInv, ReporterTypeOK

\* A creation that nobody waited for leaves its trace in stray.
LEMMA LateKeeps ==
  ASSUME ReporterInv, ClientTypeOK', NEW r \in Reporters, Late(r)
  PROVE  ReportInv'
<1> USE DEF ReporterInv, ReportInv
<1>1. stage' = stage /\ UNCHANGED <<phase, about, blind, age, lost, deaths>>
  BY DEF Late, ServeLate, LoseLate, reporterVars
<1>2. about[r] \in Errors
  <2>1. stage[r] # "none"
    BY DEF Late, ServeLate, LoseLate, IInv, CallInv, WithinAttempts, ClientTypeOK, Reporters
  <2> QED
    BY <2>1 DEF Named
<1>3. StageFits' /\ Named' /\ Marked' /\ Alone'
  BY <1>1 DEF StageFits, Named, Marked, Alone, AtWork
<1>4. CASE LoseLate(r) /\ UNCHANGED reporterVars
  BY <1>3, <1>4 DEF LoseLate, reporterVars, ReporterTypeOK, Looked
<1>5. CASE /\ ServeLate(r)
           /\ bugs[about[r]] < MaxBugs
           /\ bugs' = [bugs EXCEPT ![about[r]] = @ + 1]
           /\ stray' = [stray EXCEPT ![about[r]] = TRUE]
  <2>1. bugs' \in [Errors -> 0..MaxBugs] /\ stray' \in [Errors -> BOOLEAN]
    BY <1>2, <1>5, ReporterAssumption DEF ReporterTypeOK
  <2>2. ReporterTypeOK'
    BY <1>1, <2>1 DEF ReporterTypeOK
  <2>3. Looked'
    <3> SUFFICES ASSUME NEW q \in Reporters, phase'[q] = "create", ~blind'[q], effects'[q] = 0
                 PROVE  bugs'[about'[q]] = 0 \/ stray'[about'[q]]
      BY DEF Looked
    <3>1. about[q] \in Errors
      BY <1>1 DEF Named, AtWork
    <3>2. CASE about[q] = about[r]
      BY <1>1, <1>5, <3>1, <3>2 DEF ReporterTypeOK
    <3>3. CASE about[q] # about[r]
      <4>1. effects[q] = 0
        BY <1>5, <3>3 DEF ServeLate, ReporterTypeOK, ClientTypeOK, Reporters
      <4> QED
        BY <1>1, <1>5, <3>1, <3>3, <4>1 DEF Looked, ReporterTypeOK
    <3> QED
      BY <3>2, <3>3
  <2> QED
    BY <1>3, <2>2, <2>3
<1> QED
  BY <1>4, <1>5 DEF Late

LEMMA DeadlineKeeps ==
  ASSUME ReporterInv, ClientTypeOK', NEW r \in Reporters, Deadline(r)
  PROVE  ReportInv'
<1> USE DEF ReporterInv, ReportInv
<1>1. /\ stage' = stage /\ effects' = effects
      /\ UNCHANGED <<phase, about, blind, age, bugs, stray, deaths>>
  BY DEF Deadline, Cancel
<1>2. lost' \in 0..MaxLost
  BY LostBounded DEF Deadline, ReporterTypeOK
<1> QED
  BY <1>1, <1>2 DEF ReporterTypeOK, StageFits, Named, Marked, Alone, Looked, AtWork

LEMMA ResolveKeeps ==
  ASSUME ReporterInv, ClientTypeOK', NEW f \in Errors, Resolve(f)
  PROVE  ReportInv'
<1> USE DEF ReporterInv, ReportInv
<1>1. /\ stage' = stage /\ effects' = effects
      /\ UNCHANGED <<phase, about, blind, age, lost, deaths>>
      /\ bugs' = [bugs EXCEPT ![f] = 0] /\ stray' = [stray EXCEPT ![f] = FALSE]
  BY DEF Resolve, clientVars
<1>2. ReporterTypeOK'
  BY <1>1, ReporterAssumption DEF ReporterTypeOK
<1>3. StageFits' /\ Named' /\ Marked' /\ Alone'
  BY <1>1 DEF StageFits, Named, Marked, Alone, AtWork
<1>4. Looked'
  BY <1>1 DEF Looked, Named, AtWork, ReporterTypeOK
<1> QED
  BY <1>2, <1>3, <1>4

LEMMA TickKeeps ==
  ASSUME ReporterInv, ClientTypeOK', Tick
  PROVE  ReportInv'
<1> USE DEF ReporterInv, ReportInv
<1>1. /\ stage' = stage /\ effects' = effects
      /\ UNCHANGED <<phase, about, blind, bugs, stray, lost, deaths>>
      /\ \A r \in Reporters : ~AtWork(r)
  BY DEF Tick, clientVars, AtWork
<1>2. age' \in [Errors -> 0..Ttl]
  BY ReporterAssumption DEF Tick, ReporterTypeOK
<1> QED
  BY <1>1, <1>2 DEF ReporterTypeOK, StageFits, Named, Marked, Alone, Looked, AtWork

LEMMA RestartKeeps ==
  ASSUME ReporterInv, ClientTypeOK', Restart
  PROVE  ReportInv'
<1> USE DEF ReporterInv, ReportInv
<1>1. /\ \A r \in Reporters : phase'[r] = "rest"
      /\ \A r \in Reporters : stage'[r] = IF stage[r] \in {"none", "done"} THEN stage[r] ELSE "done"
      /\ UNCHANGED <<about, bugs, stray, lost>>
  BY DEF Restart, ProcessDies, Reporters
<1>2. ReporterTypeOK'
  BY <1>1, ReporterAssumption DEF Restart, ReporterTypeOK
<1>3. StageFits' /\ Named'
  BY <1>1 DEF StageFits, Named, AtWork
<1>4. Marked' /\ Alone' /\ Looked'
  BY <1>1 DEF Marked, Alone, Looked, AtWork
<1> QED
  BY <1>2, <1>3, <1>4

-----------------------------------------------------------------------------
LEMMA ReporterStepInv == ReporterInv /\ [Next]_vars => ReporterInv'
<1> SUFFICES ASSUME ReporterInv, [Next]_vars PROVE ReporterInv'
  OBVIOUS
<1>1. IInv' /\ ClientTypeOK'
  BY StepsOfClient, ClientStepInv DEF ReporterInv, IInv
<1>2. CASE UNCHANGED vars
  BY <1>1, <1>2 DEF vars, reporterVars, clientVars, ReporterInv, ReportInv, ReporterTypeOK,
                    StageFits, Named, Marked, Alone, Looked, AtWork
<1>3. ASSUME NEW r \in Reporters,
             Breaks(r) \/ GivenUp(r) \/ (Running(r) /\ UNCHANGED reporterVars)
      PROVE  ReportInv'
  <2>1. Running(r) \/ ConnectionFails(r)
    BY <1>3 DEF Breaks, GivenUp
  <2>2. lost' \in 0..MaxLost /\ UNCHANGED <<phase, about, blind, age, bugs, stray, deaths>>
    BY <1>3, LostBounded DEF Breaks, GivenUp, reporterVars, ReporterInv, ReportInv, ReporterTypeOK
  <2> QED
    BY <1>1, <2>1, <2>2, CallMoves, CallGoesOn DEF ReporterInv, Reporters
<1>4. ASSUME NEW r \in Reporters, ReporterStep(r) \/ AnswerStep(r)
      PROVE  ReportInv'
  BY <1>1, <1>3, <1>4, SearchKeeps, FinishKeeps, RecycleKeeps, CreatedKeeps, RefusedKeeps
     DEF ReporterStep, AnswerStep
<1>5. ReportInv'
  BY <1>1, <1>2, <1>3, <1>4, ReportKeeps, LateKeeps, DeadlineKeeps, ResolveKeeps, TickKeeps,
     RestartKeeps DEF Next, ReporterInv
<1> QED
  BY <1>1, <1>5 DEF ReporterInv

LEMMA ReporterInitInv == Init => ReporterInv
<1> SUFFICES ASSUME Init PROVE ReporterInv
  OBVIOUS
<1>1. IInv
  BY ClientInitInv DEF Init
<1>2. ReporterTypeOK
  BY <1>1, ReporterAssumption DEF Init, ReporterTypeOK, IInv
<1>3. StageFits /\ Named /\ Marked /\ Alone /\ Looked
  BY DEF Init, ClientInit, StageFits, Named, Marked, Alone, Looked, AtWork, Reporters
<1> QED
  BY <1>1, <1>2, <1>3 DEF ReporterInv, ReportInv

LEMMA ReporterInvariant == Spec => []ReporterInv
BY ReporterInitInv, ReporterStepInv, PTL DEF Spec

\* Types of the reporter and of the calls it makes.
THEOREM ReporterTyped == Spec => []ReporterTypeOK
BY ReporterInvariant, PTL DEF ReporterInv, ReportInv

\* The reporter's creations are calls of Execute, so they keep its promise and its
\* pauses, with several goroutines at once, deadlines and restarts.
THEOREM ReporterCallsAsPromised == Spec => CallImplemented /\ []WaitsAsAsked
BY ReporterIsClient, ExecuteKeepsPromise, PausesAsAsked, PTL

\* bug_reporter.go:94: a second open issue for a fingerprint comes of a repeated
\* creation, one that arrived late, or a search that failed - never of two errors at
\* once or of a restart.
THEOREM DuplicatesHaveCauses == Spec => DuplicatesExplained
<1> DEFINE Explained ==
      \A f \in Errors :
        (bugs[f] > 0 /\ bugs'[f] > bugs[f]) =>
          \/ stray'[f]
          \/ \E r \in Reporters :
               about[r] = f /\ phase[r] = "create" /\ (effects[r] > 0 \/ blind[r])
<1>1. ReporterInv /\ [Next]_vars => [Explained]_vars
  <2> SUFFICES ASSUME ReporterInv, [Next]_vars, NEW f \in Errors, bugs[f] > 0, bugs'[f] > bugs[f]
               PROVE  \/ stray'[f]
                      \/ \E r \in Reporters :
                           about[r] = f /\ phase[r] = "create" /\ (effects[r] > 0 \/ blind[r])
    OBVIOUS
  <2>1. bugs[f] \in Nat
    BY ReporterAssumption DEF ReporterInv, ReportInv, ReporterTypeOK
  <2>2. ASSUME bugs'[f] = bugs[f]
        PROVE  FALSE
    BY <2>1, <2>2
  <2>3. ASSUME NEW r \in Reporters, Created(r)
        PROVE  \/ stray'[f]
               \/ about[r] = f /\ phase[r] = "create" /\ (effects[r] > 0 \/ blind[r])
    <3>1. /\ stage[r] = "sent" /\ stray' = stray
          /\ bugs' = [bugs EXCEPT ![about[r]] = @ + 1]
      BY <2>3 DEF Created, Serve
    <3>2. about[r] = f
      BY <2>2, <3>1 DEF ReporterInv, ReportInv, ReporterTypeOK
    <3>3. phase[r] = "create"
      BY <3>1 DEF ReporterInv, ReportInv, StageFits
    <3>4. effects[r] = 0 \/ effects[r] > 0
      BY DEF ReporterInv, IInv, ClientTypeOK, Reporters
    <3> QED
      BY <2>1, <3>1, <3>2, <3>3, <3>4 DEF ReporterInv, ReportInv, Looked
  <2>4. ASSUME NEW r \in Reporters, Late(r)
        PROVE  stray'[f]
    <3>1. /\ bugs' = [bugs EXCEPT ![about[r]] = @ + 1]
          /\ stray' = [stray EXCEPT ![about[r]] = TRUE]
      BY <2>2, <2>4 DEF Late, reporterVars
    <3>2. about[r] = f
      BY <2>2, <3>1 DEF ReporterInv, ReportInv, ReporterTypeOK
    <3> QED
      BY <3>1, <3>2 DEF ReporterInv, ReportInv, ReporterTypeOK
  <2>5. ASSUME NEW r \in Reporters,
               \/ \E e \in Errors : Report(r, e)
               \/ ReporterStep(r) \/ Refused(r) \/ GivenUp(r) \/ Breaks(r) \/ Deadline(r)
        PROVE  FALSE
    BY <2>2, <2>5 DEF Report, StartReport, ReporterStep, Search, Finish, Recycle, Refused,
                      GivenUp, Breaks, Deadline, reporterVars
  <2>6. ASSUME NEW e \in Errors, Resolve(e)
        PROVE  FALSE
    BY <2>1, <2>2, <2>6 DEF Resolve, ReporterInv, ReportInv, ReporterTypeOK
  <2>7. CASE Tick \/ Restart \/ UNCHANGED vars
    BY <2>2, <2>7 DEF Tick, Restart, vars, reporterVars
  <2> QED
    BY <2>3, <2>4, <2>5, <2>6, <2>7 DEF Next, AnswerStep
<1> QED
  BY <1>1, ReporterInvariant, PTL DEF Spec, DuplicatesExplained
=============================================================================
