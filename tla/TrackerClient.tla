---------------------------- MODULE TrackerClient ----------------------------
(***************************************************************************)
(* Execute of internal/service/tracker_client.go: one HTTP request with    *)
(* retries, under a context that may be cancelled at any moment.  Every    *)
(* call goes through its stages on its own; between two stages anything    *)
(* may happen.  Times are in units of 100 ms.                              *)
(***************************************************************************)
EXTENDS Naturals

CONSTANTS
  Calls,         \* calls of Execute that may be under way at the same time
  MaxRetries,    \* maxRetries
  RetryAfters,   \* what parseRetryAfter may return; 0: no usable header
  NoReply        \* no answer is on its way

ASSUME ClientAssumption ==
  /\ MaxRetries \in Nat
  /\ RetryAfters \in SUBSET Nat

\* What the Tracker answers: done, done but the body is not the JSON expected,
\* rate limit, server error, any other error.
Replies == {"2xx", "garbled", "429", "5xx", "4xx"}

VARIABLES
  stage,         \* "none", "check", "pause", "send", "sent", "answered", "done"
  attempt,       \* attempt
  nextBackoff,   \* nextBackoff
  backoff,       \* the pause before this attempt
  reply,         \* the answer on its way back
  outcome,       \* what Execute returned
  cancelled,     \* ctx.Err() is not nil
  told,          \* ghost: how long the last answer asked to stay away
  effects,       \* ghost: how often the change was carried out
  adrift         \* requests nobody waits for that the Tracker may still get

loopVars == <<attempt, nextBackoff, backoff, told>>
clientVars == <<stage, loopVars, reply, outcome, cancelled, effects, adrift>>

ClientInit ==
  /\ stage = [c \in Calls |-> "none"]
  /\ attempt = [c \in Calls |-> 0]
  /\ nextBackoff = [c \in Calls |-> 0]
  /\ backoff = [c \in Calls |-> 0]
  /\ reply = [c \in Calls |-> NoReply]
  /\ outcome = [c \in Calls |-> "none"]
  /\ cancelled = [c \in Calls |-> FALSE]
  /\ told = [c \in Calls |-> 0]
  /\ effects = [c \in Calls |-> 0]
  /\ adrift = [c \in Calls |-> 0]

-----------------------------------------------------------------------------
\* The call is over and its local variables are gone.
Return(c, what) ==
  /\ stage' = [stage EXCEPT ![c] = "done"]
  /\ outcome' = [outcome EXCEPT ![c] = what]
  /\ reply' = [reply EXCEPT ![c] = NoReply]
  /\ attempt' = [attempt EXCEPT ![c] = 0]
  /\ nextBackoff' = [nextBackoff EXCEPT ![c] = 0]
  /\ backoff' = [backoff EXCEPT ![c] = 0]
  /\ told' = [told EXCEPT ![c] = 0]

\* Mutated forms of RetryOrReturn: one attempt too many; after the last attempt
\* nil is returned; a rate limit does not count as an attempt.
RetryOnceMore(c, err, d) ==
  \/ /\ attempt[c] <= MaxRetries
     /\ attempt' = [attempt EXCEPT ![c] = @ + 1]
     /\ nextBackoff' = [nextBackoff EXCEPT ![c] = IF err = "429" THEN d ELSE @]
     /\ told' = [told EXCEPT ![c] = d]
     /\ stage' = [stage EXCEPT ![c] = "check"]
     /\ reply' = [reply EXCEPT ![c] = NoReply]
     /\ UNCHANGED <<backoff, outcome>>
  \/ attempt[c] > MaxRetries /\ Return(c, err)

RetryOrForgive(c, err, d) ==
  \/ /\ attempt[c] < MaxRetries
     /\ attempt' = [attempt EXCEPT ![c] = @ + 1]
     /\ nextBackoff' = [nextBackoff EXCEPT ![c] = IF err = "429" THEN d ELSE @]
     /\ told' = [told EXCEPT ![c] = d]
     /\ stage' = [stage EXCEPT ![c] = "check"]
     /\ reply' = [reply EXCEPT ![c] = NoReply]
     /\ UNCHANGED <<backoff, outcome>>
  \/ attempt[c] = MaxRetries /\ Return(c, "ok")

RetryOrReturnFree(c, err, d) ==
  \/ /\ attempt[c] < MaxRetries \/ err = "429"
     /\ attempt' = [attempt EXCEPT ![c] = IF err = "429" THEN @ ELSE @ + 1]
     /\ nextBackoff' = [nextBackoff EXCEPT ![c] = IF err = "429" THEN d ELSE @]
     /\ told' = [told EXCEPT ![c] = d]
     /\ stage' = [stage EXCEPT ![c] = "check"]
     /\ reply' = [reply EXCEPT ![c] = NoReply]
     /\ UNCHANGED <<backoff, outcome>>
  \/ attempt[c] = MaxRetries /\ err # "429" /\ Return(c, err)

\* lastErr = err and continue, after an answer that asks to stay away for d; after
\* the last attempt lastErr is returned.
RetryOrReturn(c, err, d) ==
  \/ /\ attempt[c] < MaxRetries
     /\ attempt' = [attempt EXCEPT ![c] = @ + 1]
     /\ nextBackoff' = [nextBackoff EXCEPT ![c] = IF err = "429" THEN d ELSE @]
     /\ told' = [told EXCEPT ![c] = d]
     /\ stage' = [stage EXCEPT ![c] = "check"]
     /\ reply' = [reply EXCEPT ![c] = NoReply]
     /\ UNCHANGED <<backoff, outcome>>
  \/ attempt[c] = MaxRetries /\ Return(c, err)

Begin(c) ==
  /\ stage[c] = "none"
  /\ stage' = [stage EXCEPT ![c] = "check"]
  /\ UNCHANGED <<loopVars, reply, outcome, cancelled, effects, adrift>>

Exponential(n) == 2 ^ n

\* The head of the loop: a dead context ends the call; before a repetition the
\* pause the last answer asked for, or the exponential one.
Check(c) ==
  /\ stage[c] = "check"
  /\ \/ cancelled[c] /\ Return(c, "ctx")
     \/ /\ ~cancelled[c] /\ attempt[c] = 0
        /\ stage' = [stage EXCEPT ![c] = "send"]
        /\ UNCHANGED <<loopVars, outcome, reply>>
     \/ /\ ~cancelled[c] /\ attempt[c] > 0
        /\ stage' = [stage EXCEPT ![c] = "pause"]
        /\ backoff' = [backoff EXCEPT ![c] =
             IF nextBackoff[c] > 0 THEN nextBackoff[c] ELSE Exponential(attempt[c])]
        /\ UNCHANGED <<attempt, nextBackoff, told, outcome, reply>>
  /\ UNCHANGED <<cancelled, effects, adrift>>

\* select: when the timer has fired and the context is dead, either may win.
Pause(c) ==
  /\ stage[c] = "pause"
  /\ \/ cancelled[c] /\ Return(c, "ctx")
     \/ /\ stage' = [stage EXCEPT ![c] = "send"]
        /\ backoff' = [backoff EXCEPT ![c] = 0]
        /\ UNCHANGED <<attempt, nextBackoff, told, outcome, reply>>
  /\ UNCHANGED <<cancelled, effects, adrift>>

\* Mutated form of Send: nextBackoff is not reset.
SendKeepingBackoff(c) ==
  /\ stage[c] = "send"
  /\ \/ cancelled[c] /\ Return(c, "ctx")
     \/ /\ ~cancelled[c]
        /\ stage' = [stage EXCEPT ![c] = "sent"]
        /\ UNCHANGED <<loopVars, outcome, reply>>
  /\ UNCHANGED <<cancelled, effects, adrift>>

\* nextBackoff = 0; a request with a dead context is not sent (net/http looks
\* before it dials).
Send(c) ==
  /\ stage[c] = "send"
  /\ \/ cancelled[c] /\ Return(c, "ctx")
     \/ /\ ~cancelled[c]
        /\ nextBackoff' = [nextBackoff EXCEPT ![c] = 0]
        /\ stage' = [stage EXCEPT ![c] = "sent"]
        /\ UNCHANGED <<attempt, backoff, told, outcome, reply>>
  /\ UNCHANGED <<cancelled, effects, adrift>>

-----------------------------------------------------------------------------
\* The Tracker carries the request out and answers; a 5xx may hide that it did.
Serve(c, r) ==
  /\ stage[c] = "sent"
  /\ r \in {"2xx", "garbled", "5xx"}
  /\ stage' = [stage EXCEPT ![c] = "answered"]
  /\ reply' = [reply EXCEPT ![c] = r]
  /\ effects' = [effects EXCEPT ![c] = @ + 1]
  /\ UNCHANGED <<loopVars, outcome, cancelled, adrift>>

\* The Tracker answers and does nothing.
Refuse(c, r) ==
  /\ stage[c] = "sent"
  /\ r \in {"429", "5xx", "4xx"}
  /\ stage' = [stage EXCEPT ![c] = "answered"]
  /\ reply' = [reply EXCEPT ![c] = r]
  /\ UNCHANGED <<loopVars, outcome, cancelled, effects, adrift>>

\* Do or ReadAll fails: a broken connection, the client's own time limit, a
\* cancelled context.  The request may still reach the Tracker.
ConnectionFails(c) ==
  /\ stage[c] \in {"sent", "answered"}
  /\ \/ UNCHANGED adrift
     \/ /\ stage[c] = "sent"
        /\ adrift' = [adrift EXCEPT ![c] = @ + 1]
  /\ \/ cancelled[c] /\ Return(c, "ctx")
     \/ ~cancelled[c] /\ RetryOrReturn(c, "net", 0)
  /\ UNCHANGED <<cancelled, effects>>

\* The answer arrives: only a server error and a rate limit are tried again.
Receive(c) ==
  /\ stage[c] = "answered"
  /\ \/ reply[c] = "2xx" /\ Return(c, "ok")
     \/ reply[c] = "garbled" /\ Return(c, "decode")
     \/ reply[c] = "4xx" /\ Return(c, "4xx")
     \/ reply[c] = "5xx" /\ RetryOrReturn(c, "5xx", 0)
     \/ reply[c] = "429" /\ \E d \in RetryAfters : RetryOrReturn(c, "429", d)
  /\ UNCHANGED <<cancelled, effects, adrift>>

\* A request nobody waits for any more is carried out, or never.
ServeLate(c) ==
  /\ adrift[c] > 0
  /\ adrift' = [adrift EXCEPT ![c] = @ - 1]
  /\ effects' = [effects EXCEPT ![c] = @ + 1]
  /\ UNCHANGED <<stage, loopVars, reply, outcome, cancelled>>

LoseLate(c) ==
  /\ adrift[c] > 0
  /\ adrift' = [adrift EXCEPT ![c] = @ - 1]
  /\ UNCHANGED <<stage, loopVars, reply, outcome, cancelled, effects>>

\* The context that some calls share ends: a deadline, a client that hangs up, a
\* shutdown.
Cancel(cs) ==
  /\ \E c \in cs : stage[c] \notin {"none", "done"} /\ ~cancelled[c]
  /\ cancelled' = [c \in Calls |-> cancelled[c] \/ c \in cs]
  /\ UNCHANGED <<stage, loopVars, reply, outcome, effects, adrift>>

\* The process ends; what is on the wire stays on the wire.
ProcessDies ==
  LET open == {c \in Calls : stage[c] \notin {"none", "done"}} IN
  /\ stage' = [c \in Calls |-> IF c \in open THEN "done" ELSE stage[c]]
  /\ outcome' = [c \in Calls |-> IF c \in open THEN "died" ELSE outcome[c]]
  /\ adrift' = [c \in Calls |-> IF stage[c] = "sent" THEN adrift[c] + 1 ELSE adrift[c]]
  /\ reply' = [c \in Calls |-> NoReply]
  /\ attempt' = [c \in Calls |-> 0]
  /\ nextBackoff' = [c \in Calls |-> 0]
  /\ backoff' = [c \in Calls |-> 0]
  /\ told' = [c \in Calls |-> 0]
  /\ UNCHANGED <<cancelled, effects>>

\* A call is over and nothing of it is on the wire: its name may be used again.
Forget(c) ==
  /\ stage[c] = "done"
  /\ adrift[c] = 0
  /\ stage' = [stage EXCEPT ![c] = "none"]
  /\ outcome' = [outcome EXCEPT ![c] = "none"]
  /\ cancelled' = [cancelled EXCEPT ![c] = FALSE]
  /\ effects' = [effects EXCEPT ![c] = 0]
  /\ UNCHANGED <<loopVars, reply, adrift>>

-----------------------------------------------------------------------------
\* What the goroutine of a call does by itself.
Running(c) == Check(c) \/ Pause(c) \/ Send(c) \/ Receive(c)

\* What the network and the Tracker do with its requests.
Wire(c) ==
  \/ \E r \in Replies : Serve(c, r) \/ Refuse(c, r)
  \/ ConnectionFails(c) \/ ServeLate(c) \/ LoseLate(c)

ClientNext ==
  \/ \E c \in Calls : Begin(c) \/ Running(c) \/ Wire(c) \/ Forget(c)
  \/ \E cs \in SUBSET Calls : Cancel(cs)
  \/ ProcessDies

ClientSpec == ClientInit /\ [][ClientNext]_clientVars
-----------------------------------------------------------------------------
Stages == {"none", "check", "pause", "send", "sent", "answered", "done"}
Outcomes == {"none", "ok", "decode", "4xx", "5xx", "429", "net", "ctx", "died"}

ClientTypeOK ==
  /\ stage \in [Calls -> Stages]
  /\ attempt \in [Calls -> 0..MaxRetries]
  /\ nextBackoff \in [Calls -> RetryAfters \cup {0}]
  /\ backoff \in [Calls -> RetryAfters \cup {0} \cup {Exponential(n) : n \in 1..MaxRetries}]
  /\ told \in [Calls -> RetryAfters \cup {0}]
  /\ reply \in [Calls -> Replies \cup {NoReply}]
  /\ outcome \in [Calls -> Outcomes]
  /\ cancelled \in [Calls -> BOOLEAN]
  /\ effects \in [Calls -> Nat]
  /\ adrift \in [Calls -> Nat]

\* tracker_client.go:154-167: a request is repeated after exactly the pause that
\* the answer before it asked for, and after the exponential one when that answer
\* asked for none - not after one that an earlier answer asked for.
WaitsAsAsked ==
  \A c \in Calls :
    stage[c] = "pause" =>
      backoff[c] = IF told[c] > 0 THEN told[c] ELSE Exponential(attempt[c])

\* What the caller sees of a call.
Result(c) ==
  IF stage[c] = "none" THEN "none"
  ELSE IF stage[c] # "done" THEN "open"
  ELSE IF outcome[c] = "ok" THEN "ok" ELSE "failed"

TC == INSTANCE TrackerCall WITH
        MaxEffects <- MaxRetries + 1,
        result <- [c \in Calls |-> Result(c)]

\* tracker_client.go:136: nil means that the change was carried out, and a call
\* carries its change out at most maxRetries + 1 times, whatever is lost, late,
\* cancelled or repeated.
CallImplemented == TC!Spec

\* Every call of Execute returns: the attempts are bounded, whatever is answered.
CallsReturn == \A c \in Calls : stage[c] \notin {"none", "done"} ~> stage[c] \in {"none", "done"}
=============================================================================
