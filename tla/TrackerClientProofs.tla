------------------------- MODULE TrackerClientProofs -------------------------
(***************************************************************************)
(* Execute keeps the promise of TrackerCall, for any number of calls, any  *)
(* number of retries and any Retry-After, and pauses as the Tracker asked. *)
(***************************************************************************)
EXTENDS TrackerClient, TLAPS

\* The requests of a call that were carried out or may still be carried out are
\* not more than the attempts it has made.
WithinAttempts(c) ==
  LET out == effects[c] + adrift[c] IN
  /\ stage[c] = "none" => out = 0
  /\ stage[c] \in {"check", "pause", "send"} => out <= attempt[c]
  /\ stage[c] = "sent" => out <= attempt[c]
  /\ stage[c] = "answered" => out <= attempt[c] + 1
  /\ stage[c] = "done" => out <= MaxRetries + 1

\* An answer that says "done" is about a change that was carried out.
Truthful(c) == stage[c] = "answered" /\ reply[c] = "2xx" => effects[c] > 0

\* The next pause is the one the last answer asked for.
BackoffFresh(c) ==
  /\ stage[c] = "none" => attempt[c] = 0
  /\ stage[c] \in {"none", "check"} => nextBackoff[c] = told[c]
  /\ stage[c] \in {"sent", "answered", "done"} => nextBackoff[c] = 0
  /\ stage[c] = "done" => attempt[c] = 0 /\ told[c] = 0
  /\ stage[c] = "pause" =>
       backoff[c] = IF told[c] > 0 THEN told[c] ELSE Exponential(attempt[c])

CallInv(c) == WithinAttempts(c) /\ Truthful(c) /\ BackoffFresh(c)

IInv == ClientTypeOK /\ \A c \in Calls : CallInv(c)

LEMMA ClientInitInv == ClientInit => IInv
BY ClientAssumption
   DEF ClientInit, IInv, ClientTypeOK, CallInv, WithinAttempts, Truthful, BackoffFresh,
       Stages, Outcomes

\* A step of one call leaves the others alone.
Same(d) ==
  /\ stage'[d] = stage[d] /\ nextBackoff'[d] = nextBackoff[d]
  /\ attempt'[d] = attempt[d] /\ told'[d] = told[d]
  /\ backoff'[d] = backoff[d] /\ reply'[d] = reply[d]
  /\ effects'[d] = effects[d] /\ adrift'[d] = adrift[d]

LEMMA OneCall ==
  ASSUME IInv, ClientTypeOK', NEW c \in Calls, CallInv(c)',
         \A d \in Calls : d # c => Same(d)
  PROVE  IInv'
<1>1. ASSUME NEW d \in Calls, d # c PROVE CallInv(d)'
  BY <1>1 DEF IInv, Same, CallInv, WithinAttempts, Truthful, BackoffFresh
<1> QED
  BY <1>1 DEF IInv

-----------------------------------------------------------------------------
\* The two ends of an attempt that failed.
LEMMA ReturnInv ==
  ASSUME IInv, NEW c \in Calls, NEW what \in Outcomes, Return(c, what),
         UNCHANGED <<cancelled, effects>>,
         adrift' \in [Calls -> Nat],
         adrift'[c] + effects[c] <= MaxRetries + 1,
         \A d \in Calls : d # c => adrift'[d] = adrift[d]
  PROVE  IInv'
<1> USE ClientAssumption DEF IInv
<1>1. ClientTypeOK'
  <2>1. stage' \in [Calls -> Stages] /\ outcome' \in [Calls -> Outcomes]
    BY DEF Return, ClientTypeOK, Stages
  <2>2. attempt' \in [Calls -> 0..MaxRetries]
    BY DEF Return, ClientTypeOK
  <2>3. /\ nextBackoff' \in [Calls -> RetryAfters \cup {0}]
        /\ told' \in [Calls -> RetryAfters \cup {0}]
    BY DEF Return, ClientTypeOK
  <2>4. backoff' \in [Calls -> RetryAfters \cup {0} \cup {Exponential(n) : n \in 1..MaxRetries}]
    BY DEF Return, ClientTypeOK
  <2>5. reply' \in [Calls -> Replies \cup {NoReply}]
    BY DEF Return, ClientTypeOK
  <2> QED
    BY <2>1, <2>2, <2>3, <2>4, <2>5 DEF ClientTypeOK
<1>2. CallInv(c)'
  <2>1. /\ stage'[c] = "done" /\ nextBackoff'[c] = 0
        /\ attempt'[c] = 0 /\ told'[c] = 0
    BY DEF Return, ClientTypeOK
  <2>2. WithinAttempts(c)'
    BY <2>1 DEF ClientTypeOK, WithinAttempts
  <2> QED
    BY <2>1, <2>2 DEF CallInv, Truthful, BackoffFresh
<1>3. \A d \in Calls : d # c => Same(d)
  BY DEF Return, ClientTypeOK, Same
<1> QED
  BY <1>1, <1>2, <1>3, OneCall

LEMMA RetryInv ==
  ASSUME IInv, NEW c \in Calls, NEW err \in {"5xx", "429", "net"},
         NEW d \in RetryAfters \cup {0}, err # "429" => d = 0,
         stage[c] \in {"sent", "answered"},
         RetryOrReturn(c, err, d),
         UNCHANGED <<cancelled, effects>>,
         adrift' \in [Calls -> Nat],
         adrift'[c] + effects[c] <= attempt[c] + 1,
         \A e \in Calls : e # c => adrift'[e] = adrift[e]
  PROVE  IInv'
<1> USE ClientAssumption
<1>0. attempt[c] \in 0..MaxRetries /\ effects[c] \in Nat /\ adrift'[c] \in Nat
  BY DEF IInv, ClientTypeOK
<1>1. CASE attempt[c] = MaxRetries /\ Return(c, err)
  BY <1>0, <1>1, ReturnInv DEF Outcomes
<1>2. CASE attempt[c] < MaxRetries /\ ~Return(c, err)
  <2>1. /\ attempt' = [attempt EXCEPT ![c] = @ + 1]
        /\ nextBackoff' = [nextBackoff EXCEPT ![c] = IF err = "429" THEN d ELSE @]
        /\ told' = [told EXCEPT ![c] = d]
        /\ stage' = [stage EXCEPT ![c] = "check"]
        /\ reply' = [reply EXCEPT ![c] = NoReply]
        /\ UNCHANGED <<backoff, outcome>>
    BY <1>0, <1>2 DEF RetryOrReturn
  <2>2. nextBackoff[c] = 0
    BY DEF IInv, CallInv, BackoffFresh
  <2>3. ClientTypeOK'
    <3>1. stage' \in [Calls -> Stages] /\ reply' \in [Calls -> Replies \cup {NoReply}]
      BY <2>1 DEF IInv, ClientTypeOK, Stages
    <3>2. attempt' \in [Calls -> 0..MaxRetries]
      BY <2>1, <1>0, <1>2 DEF IInv, ClientTypeOK
    <3>3. /\ nextBackoff' \in [Calls -> RetryAfters \cup {0}]
          /\ told' \in [Calls -> RetryAfters \cup {0}]
      BY <2>1 DEF IInv, ClientTypeOK
    <3> QED
      BY <2>1, <3>1, <3>2, <3>3 DEF IInv, ClientTypeOK
  <2>4. CallInv(c)'
    <3>1. /\ stage'[c] = "check" /\ attempt'[c] = attempt[c] + 1
          /\ nextBackoff'[c] = told'[c]
      BY <2>1, <2>2 DEF IInv, ClientTypeOK
    <3>2. WithinAttempts(c)'
      BY <1>0, <3>1 DEF WithinAttempts
    <3> QED
      BY <3>1, <3>2 DEF CallInv, Truthful, BackoffFresh
  <2>5. \A e \in Calls : e # c => Same(e)
    BY <2>1 DEF IInv, ClientTypeOK, Same
  <2> QED
    BY <2>3, <2>4, <2>5, OneCall
<1>3. CASE Return(c, err) /\ attempt[c] < MaxRetries
  BY <1>0, <1>3, ReturnInv DEF Outcomes
<1> QED
  BY <1>0, <1>1, <1>2, <1>3 DEF RetryOrReturn

-----------------------------------------------------------------------------
\* An attempt is made.
LEMMA RunningInv == ASSUME IInv, NEW c \in Calls, Running(c) PROVE IInv'
<1> USE ClientAssumption
<1>0. /\ attempt[c] \in 0..MaxRetries /\ effects[c] \in Nat /\ adrift[c] \in Nat
      /\ CallInv(c)
  BY DEF IInv, ClientTypeOK
<1>1. CASE Check(c)
  <2>1. CASE cancelled[c] /\ Return(c, "ctx")
    BY <1>0, <1>1, <2>1, ReturnInv DEF Check, Outcomes, CallInv, WithinAttempts, IInv, ClientTypeOK
  <2>2. CASE stage' = [stage EXCEPT ![c] = "send"] /\ UNCHANGED <<loopVars, outcome, reply>>
    <3>1. ClientTypeOK'
      BY <1>1, <2>2 DEF Check, IInv, ClientTypeOK, Stages, loopVars
    <3>2. CallInv(c)'
      BY <1>0, <1>1, <2>2 DEF Check, IInv, ClientTypeOK, loopVars, CallInv, WithinAttempts,
                              Truthful, BackoffFresh
    <3>3. \A d \in Calls : d # c => Same(d)
      BY <1>1, <2>2 DEF Check, IInv, ClientTypeOK, loopVars, Same
    <3> QED
      BY <3>1, <3>2, <3>3, OneCall
  <2>3. CASE /\ attempt[c] > 0
             /\ stage' = [stage EXCEPT ![c] = "pause"]
             /\ backoff' = [backoff EXCEPT ![c] =
                  IF nextBackoff[c] > 0 THEN nextBackoff[c] ELSE Exponential(attempt[c])]
             /\ UNCHANGED <<attempt, nextBackoff, told, outcome, reply>>
    <3>0. (IF nextBackoff[c] > 0 THEN nextBackoff[c] ELSE Exponential(attempt[c]))
            \in RetryAfters \cup {0} \cup {Exponential(n) : n \in 1..MaxRetries}
      <4>1. nextBackoff[c] \in RetryAfters \cup {0}
        BY DEF IInv, ClientTypeOK
      <4>2. attempt[c] \in 1..MaxRetries
        BY <1>0, <2>3
      <4> QED
        BY <4>1, <4>2
    <3>1. ClientTypeOK'
      <4>1. backoff' \in [Calls -> RetryAfters \cup {0} \cup {Exponential(n) : n \in 1..MaxRetries}]
        BY <2>3, <3>0 DEF IInv, ClientTypeOK
      <4> QED
        BY <1>1, <2>3, <4>1 DEF Check, IInv, ClientTypeOK, Stages
    <3>2. CallInv(c)'
      <4>1. /\ stage'[c] = "pause" /\ nextBackoff[c] = told[c] /\ told'[c] = told[c]
            /\ backoff'[c] = IF nextBackoff[c] > 0 THEN nextBackoff[c] ELSE Exponential(attempt[c])
            /\ attempt'[c] = attempt[c] /\ effects'[c] = effects[c] /\ adrift'[c] = adrift[c]
        BY <1>0, <1>1, <2>3 DEF Check, IInv, ClientTypeOK, CallInv, BackoffFresh
      <4> QED
        BY <1>0, <1>1, <4>1 DEF Check, CallInv, WithinAttempts, Truthful, BackoffFresh
    <3>3. \A d \in Calls : d # c => Same(d)
      BY <1>1, <2>3 DEF Check, IInv, ClientTypeOK, Same
    <3> QED
      BY <3>1, <3>2, <3>3, OneCall
  <2> QED
    BY <1>1, <2>1, <2>2, <2>3 DEF Check
<1>2. CASE Pause(c)
  <2>1. CASE cancelled[c] /\ Return(c, "ctx")
    BY <1>0, <1>2, <2>1, ReturnInv DEF Pause, Outcomes, CallInv, WithinAttempts, IInv, ClientTypeOK
  <2>2. CASE /\ stage' = [stage EXCEPT ![c] = "send"]
             /\ backoff' = [backoff EXCEPT ![c] = 0]
             /\ UNCHANGED <<attempt, nextBackoff, told, outcome, reply>>
    <3>1. ClientTypeOK'
      <4>1. backoff' \in [Calls -> RetryAfters \cup {0} \cup {Exponential(n) : n \in 1..MaxRetries}]
        BY <2>2 DEF IInv, ClientTypeOK
      <4> QED
        BY <1>2, <2>2, <4>1 DEF Pause, IInv, ClientTypeOK, Stages
    <3>2. CallInv(c)'
      BY <1>0, <1>2, <2>2 DEF Pause, IInv, ClientTypeOK, CallInv, WithinAttempts, Truthful,
                              BackoffFresh
    <3>3. \A d \in Calls : d # c => Same(d)
      BY <1>2, <2>2 DEF Pause, IInv, ClientTypeOK, Same
    <3> QED
      BY <3>1, <3>2, <3>3, OneCall
  <2> QED
    BY <1>2, <2>1, <2>2 DEF Pause
<1>3. CASE Send(c)
  <2>1. CASE cancelled[c] /\ Return(c, "ctx")
    BY <1>0, <1>3, <2>1, ReturnInv DEF Send, Outcomes, CallInv, WithinAttempts, IInv, ClientTypeOK
  <2>2. CASE /\ nextBackoff' = [nextBackoff EXCEPT ![c] = 0]
             /\ stage' = [stage EXCEPT ![c] = "sent"]
             /\ UNCHANGED <<attempt, backoff, told, outcome, reply>>
    <3>1. ClientTypeOK'
      BY <1>3, <2>2 DEF Send, IInv, ClientTypeOK, Stages
    <3>2. CallInv(c)'
      BY <1>0, <1>3, <2>2 DEF Send, IInv, ClientTypeOK, CallInv, WithinAttempts, Truthful,
                              BackoffFresh
    <3>3. \A d \in Calls : d # c => Same(d)
      BY <1>3, <2>2 DEF Send, IInv, ClientTypeOK, Same
    <3> QED
      BY <3>1, <3>2, <3>3, OneCall
  <2> QED
    BY <1>3, <2>1, <2>2 DEF Send
<1>4. CASE Receive(c)
  <2>0. effects[c] + adrift[c] <= attempt[c] + 1
    BY <1>0, <1>4 DEF Receive, CallInv, WithinAttempts
  <2>1. ASSUME NEW what \in Outcomes, Return(c, what) PROVE IInv'
    BY <1>0, <1>4, <2>0, <2>1, ReturnInv DEF Receive, IInv, ClientTypeOK
  <2>2. ASSUME RetryOrReturn(c, "5xx", 0) PROVE IInv'
    BY <1>0, <1>4, <2>0, <2>2, RetryInv DEF Receive, IInv, ClientTypeOK
  <2>3. ASSUME NEW d \in RetryAfters, RetryOrReturn(c, "429", d) PROVE IInv'
    BY <1>0, <1>4, <2>0, <2>3, RetryInv DEF Receive, IInv, ClientTypeOK
  <2> QED
    BY <1>4, <2>1, <2>2, <2>3 DEF Receive, Outcomes
<1> QED
  BY <1>1, <1>2, <1>3, <1>4 DEF Running

\* The network and the Tracker.
LEMMA WireInv == ASSUME IInv, NEW c \in Calls, Wire(c) PROVE IInv'
<1> USE ClientAssumption
<1>0. /\ attempt[c] \in 0..MaxRetries /\ effects[c] \in Nat /\ adrift[c] \in Nat
      /\ CallInv(c)
  BY DEF IInv, ClientTypeOK
<1>1. ASSUME NEW r \in Replies, Serve(c, r) PROVE IInv'
  <2>1. ClientTypeOK'
    BY <1>1 DEF Serve, IInv, ClientTypeOK, Stages, loopVars
  <2>2. CallInv(c)'
    BY <1>0, <1>1 DEF Serve, IInv, ClientTypeOK, loopVars, CallInv, WithinAttempts, Truthful,
                      BackoffFresh
  <2>3. \A d \in Calls : d # c => Same(d)
    BY <1>1 DEF Serve, IInv, ClientTypeOK, loopVars, Same
  <2> QED
    BY <2>1, <2>2, <2>3, OneCall
<1>2. ASSUME NEW r \in Replies, Refuse(c, r) PROVE IInv'
  <2>1. ClientTypeOK'
    BY <1>2 DEF Refuse, IInv, ClientTypeOK, Stages, loopVars
  <2>2. CallInv(c)'
    BY <1>0, <1>2 DEF Refuse, IInv, ClientTypeOK, loopVars, CallInv, WithinAttempts, Truthful,
                      BackoffFresh
  <2>3. \A d \in Calls : d # c => Same(d)
    BY <1>2 DEF Refuse, IInv, ClientTypeOK, loopVars, Same
  <2> QED
    BY <2>1, <2>2, <2>3, OneCall
<1>3. CASE ConnectionFails(c)
  <2>1. /\ adrift' \in [Calls -> Nat]
        /\ adrift'[c] + effects[c] <= attempt[c] + 1
        /\ \A d \in Calls : d # c => adrift'[d] = adrift[d]
    BY <1>0, <1>3 DEF ConnectionFails, IInv, ClientTypeOK, CallInv, WithinAttempts
  <2>2. CASE cancelled[c] /\ Return(c, "ctx")
    <3>1. adrift'[c] + effects[c] <= MaxRetries + 1
      BY <1>0, <2>1
    <3> QED
      BY <1>3, <2>1, <2>2, <3>1, ReturnInv DEF ConnectionFails, Outcomes
  <2>3. CASE RetryOrReturn(c, "net", 0)
    BY <1>3, <2>1, <2>3, RetryInv DEF ConnectionFails
  <2> QED
    BY <1>3, <2>2, <2>3 DEF ConnectionFails
<1>4. CASE ServeLate(c) \/ LoseLate(c)
  <2>1. ClientTypeOK'
    BY <1>0, <1>4 DEF ServeLate, LoseLate, IInv, ClientTypeOK, loopVars
  <2>2. CallInv(c)'
    BY <1>0, <1>4 DEF ServeLate, LoseLate, IInv, ClientTypeOK, loopVars, CallInv,
                      WithinAttempts, Truthful, BackoffFresh
  <2>3. \A d \in Calls : d # c => Same(d)
    BY <1>4 DEF ServeLate, LoseLate, IInv, ClientTypeOK, loopVars, Same
  <2> QED
    BY <2>1, <2>2, <2>3, OneCall
<1> QED
  BY <1>1, <1>2, <1>3, <1>4 DEF Wire

\* Steps that touch several calls, and the beginning and the end of a call.
LEMMA BeginForgetInv ==
  ASSUME IInv, NEW c \in Calls, Begin(c) \/ Forget(c) PROVE IInv'
<1> USE ClientAssumption
<1>1. ClientTypeOK'
  <2>1. CASE Begin(c)
    BY <2>1 DEF Begin, IInv, ClientTypeOK, Stages, loopVars
  <2>2. CASE Forget(c)
    <3>1. stage' \in [Calls -> Stages] /\ outcome' \in [Calls -> Outcomes]
      BY <2>2 DEF Forget, IInv, ClientTypeOK, Stages, Outcomes
    <3>2. effects' \in [Calls -> Nat] /\ cancelled' \in [Calls -> BOOLEAN]
      BY <2>2 DEF Forget, IInv, ClientTypeOK
    <3> QED
      BY <2>2, <3>1, <3>2 DEF Forget, IInv, ClientTypeOK, loopVars
  <2> QED
    BY <2>1, <2>2
<1>2. CallInv(c)'
  BY DEF Begin, Forget, IInv, ClientTypeOK, loopVars, CallInv, WithinAttempts, Truthful,
         BackoffFresh
<1>3. \A d \in Calls : d # c => Same(d)
  BY DEF Begin, Forget, IInv, ClientTypeOK, loopVars, Same
<1> QED
  BY <1>1, <1>2, <1>3, OneCall

LEMMA CancelInv ==
  ASSUME IInv, NEW cs \in SUBSET Calls, Cancel(cs) PROVE IInv'
<1>1. ClientTypeOK'
  BY DEF Cancel, IInv, ClientTypeOK, loopVars
<1>2. ASSUME NEW c \in Calls PROVE CallInv(c)'
  BY DEF Cancel, IInv, loopVars, CallInv, WithinAttempts, Truthful, BackoffFresh
<1> QED
  BY <1>1, <1>2 DEF IInv

LEMMA DiesInv == ASSUME IInv, ProcessDies PROVE IInv'
<1> USE ClientAssumption
<1>1. ClientTypeOK'
  <2>1. stage' \in [Calls -> Stages] /\ outcome' \in [Calls -> Outcomes]
    BY DEF ProcessDies, IInv, ClientTypeOK, Stages, Outcomes
  <2>2. adrift' \in [Calls -> Nat]
    BY DEF ProcessDies, IInv, ClientTypeOK
  <2>3. attempt' \in [Calls -> 0..MaxRetries]
    BY DEF ProcessDies
  <2>4. /\ nextBackoff' \in [Calls -> RetryAfters \cup {0}]
        /\ told' \in [Calls -> RetryAfters \cup {0}]
    BY DEF ProcessDies
  <2>5. backoff' \in [Calls -> RetryAfters \cup {0} \cup {Exponential(n) : n \in 1..MaxRetries}]
    BY DEF ProcessDies
  <2>6. reply' \in [Calls -> Replies \cup {NoReply}]
    BY DEF ProcessDies
  <2>7. cancelled' \in [Calls -> BOOLEAN] /\ effects' \in [Calls -> Nat]
    BY DEF ProcessDies, IInv, ClientTypeOK
  <2> QED
    BY <2>1, <2>2, <2>3, <2>4, <2>5, <2>6, <2>7 DEF ClientTypeOK
<1>2. ASSUME NEW c \in Calls PROVE CallInv(c)'
  <2>0. /\ attempt[c] \in 0..MaxRetries /\ effects[c] \in Nat /\ adrift[c] \in Nat
        /\ CallInv(c) /\ stage[c] \in Stages
    BY DEF IInv, ClientTypeOK
  <2>1. /\ stage'[c] = IF stage[c] \in {"none", "done"} THEN stage[c] ELSE "done"
        /\ adrift'[c] = IF stage[c] = "sent" THEN adrift[c] + 1 ELSE adrift[c]
        /\ effects'[c] = effects[c] /\ attempt'[c] = 0 /\ nextBackoff'[c] = 0 /\ told'[c] = 0
    BY DEF ProcessDies
  <2>2. effects'[c] + adrift'[c] <= MaxRetries + 1 /\ (stage'[c] = "none" => effects'[c] + adrift'[c] = 0)
    BY <2>0, <2>1 DEF CallInv, WithinAttempts, Stages
  <2> QED
    BY <2>0, <2>1, <2>2 DEF CallInv, WithinAttempts, Truthful, BackoffFresh
<1> QED
  BY <1>1, <1>2 DEF IInv

LEMMA ClientStepInv == IInv /\ [ClientNext]_clientVars => IInv'
<1> SUFFICES ASSUME IInv, [ClientNext]_clientVars PROVE IInv'
  OBVIOUS
<1>1. CASE UNCHANGED clientVars
  BY <1>1 DEF clientVars, loopVars, IInv, ClientTypeOK, CallInv, WithinAttempts, Truthful,
              BackoffFresh
<1>2. CASE ClientNext
  BY <1>2, RunningInv, WireInv, BeginForgetInv, CancelInv, DiesInv DEF ClientNext
<1> QED
  BY <1>1, <1>2

LEMMA ClientInvariant == ClientSpec => []IInv
BY ClientInitInv, ClientStepInv, PTL DEF ClientSpec

\* Type correctness of the client of the Tracker.
THEOREM ClientTyped == ClientSpec => []ClientTypeOK
BY ClientInvariant, PTL DEF IInv

\* The pause before a repetition is the one the last answer asked for, for every
\* number of retries and every Retry-After.
THEOREM PausesAsAsked == ClientSpec => []WaitsAsAsked
<1>1. IInv => WaitsAsAsked
  BY DEF IInv, CallInv, BackoffFresh, WaitsAsAsked
<1> QED
  BY <1>1, ClientInvariant, PTL

-----------------------------------------------------------------------------
\* The refinement.
LEMMA ResultUnchanged ==
  ASSUME NEW c \in Calls, stage'[c] = stage[c], outcome'[c] = outcome[c]
  PROVE  Result(c)' = Result(c)
BY DEF Result

LEMMA ClientStepsMapped == IInv /\ IInv' /\ [ClientNext]_clientVars => [TC!Next]_(TC!callVars)
<1> SUFFICES ASSUME IInv, IInv', [ClientNext]_clientVars
             PROVE  TC!Next \/ UNCHANGED TC!callVars
  OBVIOUS
<1> USE ClientAssumption
<1> DEFINE res == [c \in Calls |-> Result(c)]
<1>1. CASE UNCHANGED clientVars
  BY <1>1 DEF clientVars, TC!callVars, Result
<1>2. ASSUME NEW c \in Calls, Begin(c) PROVE TC!Begin(c)
  <2>1. res[c] = "none" /\ UNCHANGED effects
    BY <1>2 DEF Begin, Result
  <2>2. \A d \in Calls : Result(d)' = IF d = c THEN "open" ELSE Result(d)
    BY <1>2 DEF Begin, Result, IInv, ClientTypeOK
  <2>3. res' = [res EXCEPT ![c] = "open"]
    BY <2>2
  <2> QED
    BY <2>1, <2>3 DEF TC!Begin
<1>3. ASSUME NEW c \in Calls, NEW r \in Replies, Serve(c, r) PROVE TC!CarryOut(c)
  <2>1. effects[c] < MaxRetries + 1 /\ res[c] # "none"
    BY <1>3 DEF Serve, IInv, ClientTypeOK, CallInv, WithinAttempts, Result
  <2>2. \A d \in Calls : Result(d)' = Result(d)
    BY <1>3 DEF Serve, Result, IInv, ClientTypeOK
  <2>3. res' = res
    BY <2>2
  <2> QED
    BY <1>3, <2>1, <2>3 DEF Serve, TC!CarryOut
<1>4. ASSUME NEW c \in Calls, ServeLate(c) PROVE TC!CarryOut(c)
  <2>1. effects[c] < MaxRetries + 1 /\ res[c] # "none"
    BY <1>4 DEF ServeLate, IInv, ClientTypeOK, CallInv, WithinAttempts, Result, Stages
  <2>2. res' = res
    BY <1>4 DEF ServeLate, Result
  <2> QED
    BY <1>4, <2>1, <2>2 DEF ServeLate, TC!CarryOut
<1>5. ASSUME NEW c \in Calls, NEW what \in Outcomes, Return(c, what), UNCHANGED effects,
             what = "ok" => effects[c] > 0, stage[c] \notin {"none", "done"}
      PROVE  TC!Next
  <2>1. res[c] = "open"
    BY <1>5 DEF Result
  <2>2. \A d \in Calls : Result(d)' = IF d # c THEN Result(d)
                                      ELSE IF what = "ok" THEN "ok" ELSE "failed"
    BY <1>5 DEF Return, Result, IInv, ClientTypeOK
  <2>3. CASE what = "ok"
    <3>1. res' = [res EXCEPT ![c] = "ok"]
      BY <2>2, <2>3
    <3>2. TC!Succeed(c)
      BY <1>5, <2>1, <2>3, <3>1 DEF TC!Succeed
    <3> QED
      BY <3>2 DEF TC!Next
  <2>4. CASE what # "ok"
    <3>1. res' = [d \in Calls |-> IF d \in {c} THEN "failed" ELSE res[d]]
      BY <2>2, <2>4
    <3>2. TC!Fail({c})
      BY <1>5, <2>1, <3>1 DEF TC!Fail
    <3> QED
      BY <3>2 DEF TC!Next
  <2> QED
    BY <2>3, <2>4
<1>6. ASSUME NEW c \in Calls, stage[c] \notin {"none", "done"},
             stage' = [stage EXCEPT ![c] = stage'[c]], stage'[c] \notin {"none", "done"},
             UNCHANGED <<outcome, effects>>
      PROVE  UNCHANGED TC!callVars
  <2>1. \A d \in Calls : Result(d)' = Result(d)
    BY <1>6 DEF Result, IInv, ClientTypeOK
  <2> QED
    BY <1>6, <2>1 DEF TC!callVars
<1>7. ASSUME NEW c \in Calls, NEW err \in {"5xx", "429", "net"}, NEW d,
             RetryOrReturn(c, err, d), UNCHANGED effects, stage[c] \in {"sent", "answered"}
      PROVE  TC!Next \/ UNCHANGED TC!callVars
  <2>1. CASE Return(c, err)
    BY <1>5, <1>7, <2>1 DEF Outcomes
  <2>2. CASE stage' = [stage EXCEPT ![c] = "check"] /\ UNCHANGED outcome
    BY <1>6, <1>7, <2>2 DEF IInv, ClientTypeOK
  <2> QED
    BY <1>7, <2>1, <2>2 DEF RetryOrReturn
<1>8. ASSUME NEW c \in Calls, Running(c) PROVE TC!Next \/ UNCHANGED TC!callVars
  <2>1. CASE Check(c)
    <3>1. CASE Return(c, "ctx")
      BY <1>5, <2>1, <3>1 DEF Check, Outcomes
    <3>2. CASE stage' = [stage EXCEPT ![c] = "send"] /\ UNCHANGED outcome
      BY <1>6, <2>1, <3>2 DEF Check, IInv, ClientTypeOK
    <3>3. CASE stage' = [stage EXCEPT ![c] = "pause"] /\ UNCHANGED outcome
      BY <1>6, <2>1, <3>3 DEF Check, IInv, ClientTypeOK
    <3> QED
      BY <2>1, <3>1, <3>2, <3>3 DEF Check
  <2>2. CASE Pause(c)
    <3>1. CASE Return(c, "ctx")
      BY <1>5, <2>2, <3>1 DEF Pause, Outcomes
    <3>2. CASE stage' = [stage EXCEPT ![c] = "send"] /\ UNCHANGED outcome
      BY <1>6, <2>2, <3>2 DEF Pause, IInv, ClientTypeOK
    <3> QED
      BY <2>2, <3>1, <3>2 DEF Pause
  <2>3. CASE Send(c)
    <3>1. CASE Return(c, "ctx")
      BY <1>5, <2>3, <3>1 DEF Send, Outcomes
    <3>2. CASE stage' = [stage EXCEPT ![c] = "sent"] /\ UNCHANGED outcome
      BY <1>6, <2>3, <3>2 DEF Send, IInv, ClientTypeOK
    <3> QED
      BY <2>3, <3>1, <3>2 DEF Send
  <2>4. CASE Receive(c)
    <3>0. stage[c] = "answered" /\ UNCHANGED effects
      BY <2>4 DEF Receive
    <3>1. CASE reply[c] = "2xx" /\ Return(c, "ok")
      <4>1. effects[c] > 0
        BY <3>0, <3>1 DEF IInv, CallInv, Truthful
      <4> QED
        BY <1>5, <3>0, <3>1, <4>1 DEF Outcomes
    <3>2. CASE Return(c, "decode") \/ Return(c, "4xx")
      BY <1>5, <3>0, <3>2 DEF Outcomes
    <3>3. CASE RetryOrReturn(c, "5xx", 0)
      BY <1>7, <3>0, <3>3
    <3>4. ASSUME NEW d \in RetryAfters, RetryOrReturn(c, "429", d)
          PROVE  TC!Next \/ UNCHANGED TC!callVars
      BY <1>7, <3>0, <3>4
    <3> QED
      BY <2>4, <3>1, <3>2, <3>3, <3>4 DEF Receive
  <2> QED
    BY <1>8, <2>1, <2>2, <2>3, <2>4 DEF Running
<1>9. ASSUME NEW c \in Calls, Wire(c) PROVE TC!Next \/ UNCHANGED TC!callVars
  <2>1. ASSUME NEW r \in Replies, Refuse(c, r) PROVE UNCHANGED TC!callVars
    BY <1>6, <2>1 DEF Refuse, IInv, ClientTypeOK
  <2>2. CASE ConnectionFails(c)
    <3>1. CASE Return(c, "ctx")
      BY <1>5, <2>2, <3>1 DEF ConnectionFails, Outcomes
    <3>2. CASE RetryOrReturn(c, "net", 0)
      BY <1>7, <2>2, <3>2 DEF ConnectionFails
    <3> QED
      BY <2>2, <3>1, <3>2 DEF ConnectionFails
  <2>3. CASE LoseLate(c)
    BY <2>3 DEF LoseLate, TC!callVars, Result
  <2> QED
    BY <1>3, <1>4, <1>9, <2>1, <2>2, <2>3 DEF Wire, TC!Next
<1>10. ASSUME NEW c \in Calls, Forget(c) PROVE TC!Forget(c)
  <2>1. res[c] \in {"ok", "failed"}
    BY <1>10 DEF Forget, Result
  <2>2. \A d \in Calls : Result(d)' = IF d = c THEN "none" ELSE Result(d)
    BY <1>10 DEF Forget, Result, IInv, ClientTypeOK
  <2>3. res' = [res EXCEPT ![c] = "none"]
    BY <2>2
  <2> QED
    BY <1>10, <2>1, <2>3 DEF Forget, TC!Forget
<1>11. ASSUME NEW cs \in SUBSET Calls, Cancel(cs) PROVE UNCHANGED TC!callVars
  BY <1>11 DEF Cancel, TC!callVars, Result
<1>12. ASSUME ProcessDies PROVE TC!Next
  <2> DEFINE open == {c \in Calls : stage[c] \notin {"none", "done"}}
  <2>1. \A d \in Calls : Result(d)' = IF d \in open THEN "failed" ELSE Result(d)
    BY <1>12 DEF ProcessDies, Result
  <2>2. \A d \in open : res[d] = "open"
    BY DEF Result
  <2>3. res' = [d \in Calls |-> IF d \in open THEN "failed" ELSE res[d]]
    BY <2>1
  <2>4. TC!Fail(open)
    BY <1>12, <2>2, <2>3 DEF ProcessDies, TC!Fail
  <2> QED
    BY <2>4 DEF TC!Next
<1>13. CASE ClientNext
  BY <1>2, <1>8, <1>9, <1>10, <1>11, <1>12, <1>13 DEF ClientNext, TC!Next
<1> QED
  BY <1>1, <1>13

\* Every behaviour of Execute is one that its callers are promised: success only
\* after the change was carried out, at most MaxRetries + 1 times.
THEOREM ExecuteKeepsPromise == ClientSpec => CallImplemented
<1>1. ClientInit => TC!Init
  BY DEF ClientInit, TC!Init, Result
<1> QED
  BY <1>1, ClientInvariant, ClientStepsMapped, PTL
     DEF ClientSpec, CallImplemented, TC!Spec
=============================================================================
