--------------------------- MODULE BinanceClient ---------------------------
(***************************************************************************)
(* doRequest of internal/client/binance.go, called concurrently by every   *)
(* worker through one shared client: the ban flag, the shared pause, the   *)
(* token bucket, and the retry loop with its backoffs.                     *)
(*                                                                         *)
(* Time is a set of countdowns: a timer at 0 has fired.  Callers may be    *)
(* arbitrarily late, so Elapse never waits for them.                       *)
(***************************************************************************)
EXTENDS Integers, FiniteSetsExt

CONSTANTS
  Callers,        \* the goroutines that call doRequest
  MaxRetries,     \* MAX_RETRIES
  Weight,         \* the request weight of one call
  Burst,          \* size of the token bucket
  Rate,           \* tokens added per unit of time
  PauseTime,      \* length of the pause set at 95% of the budget (60 s)
  RetryAfters,    \* values of the Retry-After header
  MaxBackoff      \* bound: longest backoff delay, in units of time

ASSUME ClientAssumption ==
  /\ MaxRetries \in Nat /\ Rate \in Nat \ {0} /\ PauseTime \in Nat \ {0}
  /\ Burst \in Nat /\ Weight \in 1 .. Burst
  /\ RetryAfters \subseteq Nat /\ RetryAfters # {} /\ MaxBackoff \in Nat \ {0}

VARIABLES
  pc,          \* where each call is in doRequest
  wait,        \* countdown of the timer each call waits for
  attempt,     \* the index of the retry loop
  pauseLeft,   \* countdown to pauseUntil
  tokens,      \* the token bucket
  banned,      \* the ban flag of the client
  cancelled,   \* the context of the workers is cancelled
  sent,        \* history: requests sent by the current call
  stale        \* history: a pause was set since the call looked for one

call == <<pc, wait, attempt, sent, stale>>
vars == <<call, pauseLeft, tokens, banned, cancelled>>

States == {"idle", "pausing", "limiter", "send", "inflight", "waiting",
           "handling"}

Init ==
  /\ pc = [c \in Callers |-> "idle"]
  /\ wait = [c \in Callers |-> 0]
  /\ attempt = [c \in Callers |-> 0]
  /\ pauseLeft = 0
  /\ tokens = Burst
  /\ banned = FALSE
  /\ cancelled = FALSE
  /\ sent = [c \in Callers |-> 0]
  /\ stale = [c \in Callers |-> FALSE]

Goto(c, l) == pc' = [pc EXCEPT ![c] = l]

(* The call returns, with a body or an error.                              *)
Return(c) ==
  /\ Goto(c, "idle")
  /\ wait' = [wait EXCEPT ![c] = 0]
  /\ attempt' = [attempt EXCEPT ![c] = 0]
  /\ sent' = [sent EXCEPT ![c] = 0]
  /\ stale' = [stale EXCEPT ![c] = FALSE]

-----------------------------------------------------------------------------
(* Mutant: the ban flag is not consulted.                                  *)
BeginAnyway(c) ==
  /\ pc[c] = "idle"
  /\ Goto(c, IF pauseLeft > 0 THEN "pausing" ELSE "limiter")
  /\ wait' = [wait EXCEPT ![c] = pauseLeft]
  /\ UNCHANGED <<attempt, sent, stale, pauseLeft, tokens, banned, cancelled>>

(* Mutant: the pause is not consulted.                                     *)
BeginUnpaused(c) ==
  /\ pc[c] = "idle" /\ ~banned
  /\ Goto(c, "limiter")
  /\ UNCHANGED <<wait, attempt, sent, stale, pauseLeft, tokens, banned, cancelled>>

(* A call is refused at once by a banned client; otherwise it looks for a  *)
(* pause once.                                                             *)
Begin(c) ==
  /\ pc[c] = "idle" /\ ~banned
  /\ Goto(c, IF pauseLeft > 0 THEN "pausing" ELSE "limiter")
  /\ wait' = [wait EXCEPT ![c] = pauseLeft]
  /\ UNCHANGED <<attempt, sent, stale, pauseLeft, tokens, banned, cancelled>>

Refuse(c) ==
  /\ pc[c] = "idle" /\ banned
  /\ UNCHANGED vars

PauseEnds(c) ==
  /\ pc[c] = "pausing"
  /\ \/ wait[c] = 0 /\ Goto(c, "limiter") /\ UNCHANGED <<wait, attempt, sent, stale>>
     \/ cancelled /\ Return(c)
  /\ UNCHANGED <<pauseLeft, tokens, banned, cancelled>>

(* rateLimiter.Wait: once per call, before the retry loop.                 *)
Acquire(c) ==
  /\ pc[c] = "limiter" /\ ~cancelled
  /\ tokens >= Weight
  /\ tokens' = tokens - Weight
  /\ Goto(c, "send")
  /\ UNCHANGED <<wait, attempt, sent, stale, pauseLeft, banned, cancelled>>

AcquireCancelled(c) ==
  /\ pc[c] = "limiter" /\ cancelled
  /\ Return(c)
  /\ UNCHANGED <<pauseLeft, tokens, banned, cancelled>>

(* Mutant: the loop has one turn too many.                                 *)
SendOnceMore(c) ==
  /\ pc[c] = "send" /\ ~cancelled
  /\ attempt[c] <= MaxRetries + 1
  /\ Goto(c, "inflight")
  /\ sent' = [sent EXCEPT ![c] = @ + 1]
  /\ UNCHANGED <<wait, attempt, stale, pauseLeft, tokens, banned, cancelled>>

(* One turn of the retry loop.                                             *)
Send(c) ==
  /\ pc[c] = "send" /\ ~cancelled
  /\ attempt[c] <= MaxRetries
  /\ Goto(c, "inflight")
  /\ sent' = [sent EXCEPT ![c] = @ + 1]
  /\ UNCHANGED <<wait, attempt, stale, pauseLeft, tokens, banned, cancelled>>

(* The loop is over, or a cancelled context fails the request unsent.      *)
GiveUp(c) ==
  /\ pc[c] = "send"
  /\ attempt[c] > MaxRetries \/ cancelled
  /\ Return(c)
  /\ UNCHANGED <<pauseLeft, tokens, banned, cancelled>>

(* The request in flight fails because the context is cancelled.           *)
InflightCancelled(c) ==
  /\ pc[c] = "inflight" /\ cancelled
  /\ Return(c)
  /\ UNCHANGED <<pauseLeft, tokens, banned, cancelled>>

(* Mutant: a retry begins the loop anew, its count at zero.                *)
RetryAnew(c, d) ==
  /\ Goto(c, "waiting")
  /\ wait' = [wait EXCEPT ![c] = d]
  /\ attempt' = [attempt EXCEPT ![c] = 0]
  /\ sent' = [sent EXCEPT ![c] = 0]

(* The next attempt follows a wait of d.                                   *)
RetryIn(c, d) ==
  /\ Goto(c, "waiting")
  /\ wait' = [wait EXCEPT ![c] = d]
  /\ attempt' = [attempt EXCEPT ![c] = @ + 1]
  /\ UNCHANGED sent

(* backoff: the base delay doubles with the attempt; the jitter takes it   *)
(* anywhere from half of it to one and a half (unit: half the base delay); *)
(* longer delays are cut to MaxBackoff.                                    *)
Backoff(c) ==
  \E d \in 0 .. MaxBackoff :
    /\ 2^attempt[c] <= d \/ d = MaxBackoff
    /\ d <= 3 * 2^attempt[c]
    /\ RetryIn(c, d)

(* The call fails without a response.                                      *)
NoResponse(c) ==
  /\ pc[c] = "inflight"
  /\ Backoff(c)
  /\ UNCHANGED <<stale, pauseLeft, tokens, banned, cancelled>>

(* checkServerWeight: a response may report the budget used up to 95%.     *)
CheckServerWeight(c) ==
  \/ UNCHANGED pauseLeft
  \/ pauseLeft' = PauseTime

MarkStale(returning) ==
  stale' = [c \in Callers |->
              IF c \in returning THEN FALSE
              ELSE stale[c] \/ (pauseLeft' = PauseTime /\ pc[c] # "idle")]

(* A body that could not be read, 429 without a Retry-After number, or 5xx.*)
RespondRetry(c) ==
  /\ pc[c] = "inflight"
  /\ CheckServerWeight(c)
  /\ Backoff(c)
  /\ MarkStale({})
  /\ UNCHANGED <<tokens, banned, cancelled>>

(* 429 with a Retry-After: no backoff, the header's seconds.               *)
RespondRetryAfter(c) ==
  /\ pc[c] = "inflight"
  /\ CheckServerWeight(c)
  /\ \E secs \in RetryAfters : RetryIn(c, secs)
  /\ MarkStale({})
  /\ UNCHANGED <<tokens, banned, cancelled>>

(* 200 with a body, 400 with none, any other status with an error.         *)
RespondFinal(c) ==
  /\ pc[c] = "inflight"
  /\ CheckServerWeight(c)
  /\ Goto(c, "idle")
  /\ attempt' = [attempt EXCEPT ![c] = 0]
  /\ sent' = [sent EXCEPT ![c] = 0]
  /\ MarkStale({c})
  /\ UNCHANGED <<wait, tokens, banned, cancelled>>

(* 418: the flag first, then the ban handler.                              *)
RespondBan(c) ==
  /\ pc[c] = "inflight"
  /\ CheckServerWeight(c)
  /\ banned' = TRUE
  /\ Goto(c, "handling")
  /\ MarkStale({})
  /\ UNCHANGED <<wait, attempt, sent, tokens, cancelled>>

(* The handler cancels the workers' context; the call returns an error.    *)
BanHandler(c) ==
  /\ pc[c] = "handling"
  /\ cancelled' = TRUE
  /\ Return(c)
  /\ UNCHANGED <<pauseLeft, tokens, banned>>

(* A backoff ends at its timer or at once when cancelled, and the loop     *)
(* goes on; a Retry-After wait returns when cancelled, which GiveUp does   *)
(* at the next turn either way.                                            *)
WaitEnds(c) ==
  /\ pc[c] = "waiting"
  /\ wait[c] = 0 \/ cancelled
  /\ Goto(c, "send")
  /\ wait' = [wait EXCEPT ![c] = 0]
  /\ UNCHANGED <<attempt, sent, stale, pauseLeft, tokens, banned, cancelled>>

-----------------------------------------------------------------------------
(* SIGTERM cancels the context from outside.                               *)
Cancel ==
  /\ ~cancelled
  /\ cancelled' = TRUE
  /\ UNCHANGED <<call, pauseLeft, tokens, banned>>

Down(n) == IF n = 0 THEN 0 ELSE n - 1

(* A unit of time passes: timers count down, the bucket fills up.          *)
Elapse ==
  /\ pauseLeft' = Down(pauseLeft)
  /\ wait' = [c \in Callers |-> Down(wait[c])]
  /\ tokens' = Min({Burst, tokens + Rate})
  /\ <<pauseLeft, wait, tokens>>' # <<pauseLeft, wait, tokens>>
  /\ UNCHANGED <<pc, attempt, sent, stale, banned, cancelled>>

Respond(c) ==
  \/ NoResponse(c) \/ RespondRetry(c) \/ RespondRetryAfter(c)
  \/ RespondFinal(c) \/ RespondBan(c) \/ InflightCancelled(c)

Proceed(c) ==
  \/ PauseEnds(c) \/ AcquireCancelled(c)
  \/ Send(c) \/ GiveUp(c) \/ BanHandler(c) \/ WaitEnds(c)
  \/ Respond(c)

Next ==
  \/ \E c \in Callers : Begin(c) \/ Refuse(c) \/ Acquire(c) \/ Proceed(c)
  \/ Cancel \/ Elapse

Spec == Init /\ [][Next]_vars

(* A started call runs on: every request is answered or times out, time    *)
(* passes, and the token bucket serves its waiters in the end (its         *)
(* reservations are first come, first served: strong fairness).            *)
LiveSpec ==
  /\ Spec
  /\ \A c \in Callers : WF_vars(Proceed(c)) /\ SF_vars(Acquire(c))
  /\ WF_vars(Elapse)

-----------------------------------------------------------------------------
(* Every variable has its type; the bucket is never overdrawn.             *)
TypeOK ==
  /\ pc \in [Callers -> States]
  /\ wait \in [Callers -> Nat]
  /\ attempt \in [Callers -> 0 .. MaxRetries + 1]
  /\ pauseLeft \in 0 .. PauseTime
  /\ tokens \in 0 .. Burst
  /\ banned \in BOOLEAN /\ cancelled \in BOOLEAN
  /\ sent \in [Callers -> Nat]
  /\ stale \in [Callers -> BOOLEAN]

(* MAX_RETRIES=3 gives at most four requests per call whatever mixture of  *)
(* failures, 429s and pauses it meets (errors.md row 4), and a call between*)
(* requests has sent exactly as many as it counted.                        *)
BoundedRequests ==
  \A c \in Callers :
    /\ sent[c] <= MaxRetries + 1
    /\ pc[c] \in {"send", "waiting"} => sent[c] = attempt[c]

(* "pausing all requests" (binance.go:384) is true of calls that begin:    *)
(* while the pause lasts a request leaves only from a call that had looked *)
(* for a pause before this one was set.                                    *)
OnlyStaleCallsIgnorePause ==
  [][\A c \in Callers :
       pc[c] = "send" /\ pc'[c] = "inflight" /\ pauseLeft > 0 => stale[c]]_vars

(* Every call returns, however the exchange answers.                       *)
CallsReturn == \A c \in Callers : pc[c] # "idle" ~> pc[c] = "idle"

(* A 418 silences the client for good: once the handler ran, the calls     *)
(* under way return and no new one begins.                                 *)
BanSilences == banned ~> [](\A c \in Callers : pc[c] = "idle")
=============================================================================
