------------------------ MODULE BinanceClientProofs ------------------------
(* Theorems about BinanceClient, for any callers and any values of the     *)
(* bounds.                                                                 *)
EXTENDS BinanceClient, TLAPS

(* What TypeOK, BoundedRequests and OnlyStaleCallsIgnorePause rest on.     *)

(* A call has sent what it counted, one more while a request is out; only  *)
(* a call in the loop may have used its last turn.                         *)
Counted(c) ==
  /\ pc[c] \in {"send", "waiting"} => sent[c] = attempt[c]
  /\ pc[c] \in {"inflight", "handling"} =>
       sent[c] = attempt[c] + 1 /\ attempt[c] <= MaxRetries
  /\ pc[c] \in {"idle", "pausing", "limiter"} => sent[c] = 0 /\ attempt[c] = 0

(* A pause under way was set behind the back of a call past its look; one  *)
(* that waits for the pause to end waits as long as it lasts.              *)
Looked(c) ==
  /\ pc[c] \in {"limiter", "send", "inflight", "waiting"} /\ pauseLeft > 0 => stale[c]
  /\ pc[c] = "pausing" => stale[c] \/ wait[c] >= pauseLeft

IInv == TypeOK /\ \A c \in Callers : Counted(c) /\ Looked(c)

-----------------------------------------------------------------------------
(* The smaller of two numbers is one of them, and neither is below it.     *)
LEMMA MinOfTwo ==
  ASSUME NEW x \in Int, NEW y \in Int
  PROVE  Min({x, y}) \in {x, y} /\ Min({x, y}) <= x /\ Min({x, y}) <= y
<1>1. \E m \in {x, y} : \A n \in {x, y} : m <= n
  <2>1. CASE x <= y BY <2>1
  <2>2. CASE ~(x <= y) BY <2>2
  <2> QED BY <2>1, <2>2
<1> QED BY <1>1 DEF Min

(* A pause marks every call but those at rest and those that return.       *)
LEMMA Marked ==
  ASSUME TypeOK, NEW returning, MarkStale(returning)
  PROVE  /\ stale' \in [Callers -> BOOLEAN]
         /\ \A c \in Callers \ returning : stale[c] => stale'[c]
         /\ \A c \in Callers \ returning :
              pauseLeft' = PauseTime /\ pc[c] # "idle" => stale'[c]
<1>1. stale' \in [Callers -> BOOLEAN]
  <2>1. \A c \in Callers :
          (IF c \in returning THEN FALSE
           ELSE stale[c] \/ (pauseLeft' = PauseTime /\ pc[c] # "idle")) \in BOOLEAN
    OBVIOUS
  <2> QED BY <2>1, Zenon DEF MarkStale
<1>2. \A c \in Callers \ returning :
        stale'[c] = (stale[c] \/ (pauseLeft' = PauseTime /\ pc[c] # "idle"))
  BY Zenon DEF MarkStale
<1> QED BY <1>1, <1>2, Zenon

(* With no call under way nothing is sent, counted or missed.              *)
LEMMA InitIInv == Init => IInv
<1> SUFFICES ASSUME Init PROVE IInv
  OBVIOUS
<1>1. stale \in [Callers -> BOOLEAN]
  BY Zenon DEF Init
<1>2. banned \in BOOLEAN /\ cancelled \in BOOLEAN
  BY Zenon DEF Init
<1>3. TypeOK
  BY <1>1, <1>2, ClientAssumption DEF ClientAssumption, Init, TypeOK, States
<1>4. \A c \in Callers : Counted(c) /\ Looked(c)
  BY ClientAssumption DEF ClientAssumption, Init, Counted, Looked
<1> QED BY <1>3, <1>4 DEF IInv

(* A call that returns leaves nothing behind, whoever sets a pause.        *)
LEMMA StepIInv == IInv /\ [Next]_vars => IInv'
<1> SUFFICES ASSUME IInv, [Next]_vars PROVE IInv'
  OBVIOUS
<1> USE ClientAssumption DEF ClientAssumption
<1>1. ASSUME NEW c \in Callers, Begin(c) PROVE IInv'
  BY <1>1 DEF IInv, TypeOK, States, Counted, Looked, Begin, Goto
<1>2. ASSUME NEW c \in Callers, Refuse(c) PROVE IInv'
  BY <1>2 DEF IInv, TypeOK, States, Counted, Looked, Refuse, vars, call
<1>3. ASSUME NEW c \in Callers, Acquire(c) PROVE IInv'
  BY <1>3 DEF IInv, TypeOK, States, Counted, Looked, Acquire, Goto
<1>4. ASSUME NEW c \in Callers, PauseEnds(c) PROVE IInv'
  <2>1. CASE wait[c] = 0 /\ Goto(c, "limiter") /\ UNCHANGED <<wait, attempt, sent, stale>>
    <3>1. TypeOK' BY <1>4, <2>1 DEF IInv, TypeOK, States, PauseEnds, Goto
    <3>2. \A d \in Callers : Counted(d)'
      BY <1>4, <2>1 DEF IInv, TypeOK, States, Counted, PauseEnds, Goto
    <3>3. \A d \in Callers : Looked(d)'
      BY <1>4, <2>1 DEF IInv, TypeOK, States, Looked, PauseEnds, Goto
    <3> QED BY <3>1, <3>2, <3>3 DEF IInv
  <2>2. CASE Return(c)
    BY <1>4, <2>2 DEF IInv, TypeOK, States, Counted, Looked, PauseEnds, Goto, Return
  <2> QED BY <1>4, <2>1, <2>2 DEF PauseEnds
<1>5. ASSUME NEW c \in Callers, AcquireCancelled(c) PROVE IInv'
  BY <1>5 DEF IInv, TypeOK, States, Counted, Looked, AcquireCancelled, Goto, Return
<1>6. ASSUME NEW c \in Callers, Send(c) PROVE IInv'
  BY <1>6 DEF IInv, TypeOK, States, Counted, Looked, Send, Goto
<1>7. ASSUME NEW c \in Callers, GiveUp(c) PROVE IInv'
  BY <1>7 DEF IInv, TypeOK, States, Counted, Looked, GiveUp, Goto, Return
<1>8. ASSUME NEW c \in Callers, BanHandler(c) PROVE IInv'
  BY <1>8 DEF IInv, TypeOK, States, Counted, Looked, BanHandler, Goto, Return
<1>9. ASSUME NEW c \in Callers, WaitEnds(c) PROVE IInv'
  BY <1>9 DEF IInv, TypeOK, States, Counted, Looked, WaitEnds, Goto
<1>10. ASSUME NEW c \in Callers, NoResponse(c) PROVE IInv'
  BY <1>10 DEF IInv, TypeOK, States, Counted, Looked, NoResponse, Backoff, RetryIn, Goto
<1>11. ASSUME NEW c \in Callers, RespondRetry(c) PROVE IInv'
  BY <1>11, Marked DEF IInv, TypeOK, States, Counted, Looked, RespondRetry, Backoff, RetryIn,
     CheckServerWeight, Goto
<1>12. ASSUME NEW c \in Callers, RespondRetryAfter(c) PROVE IInv'
  BY <1>12, Marked DEF IInv, TypeOK, States, Counted, Looked, RespondRetryAfter, RetryIn,
     CheckServerWeight, Goto
<1>13. ASSUME NEW c \in Callers, RespondFinal(c) PROVE IInv'
  BY <1>13, Marked DEF IInv, TypeOK, States, Counted, Looked, RespondFinal,
     CheckServerWeight, Goto
<1>14. ASSUME NEW c \in Callers, RespondBan(c) PROVE IInv'
  BY <1>14, Marked DEF IInv, TypeOK, States, Counted, Looked, RespondBan,
     CheckServerWeight, Goto
<1>15. ASSUME NEW c \in Callers, InflightCancelled(c) PROVE IInv'
  BY <1>15 DEF IInv, TypeOK, States, Counted, Looked, InflightCancelled, Goto, Return
<1>16. CASE Cancel
  BY <1>16 DEF IInv, TypeOK, States, Counted, Looked, Cancel, call
<1>17. CASE Elapse
  <2>1. tokens' \in 0 .. Burst
    <3>1. tokens \in 0 .. Burst /\ Burst \in Int /\ tokens + Rate \in Int
      BY DEF IInv, TypeOK
    <3>2. /\ Min({Burst, tokens + Rate}) \in {Burst, tokens + Rate}
          /\ Min({Burst, tokens + Rate}) <= Burst
      BY <3>1, MinOfTwo
    <3>3. tokens' = Min({Burst, tokens + Rate})
      BY <1>17 DEF Elapse
    <3> QED BY <3>1, <3>2, <3>3
  <2>2. pauseLeft' \in 0 .. PauseTime /\ wait' \in [Callers -> Nat]
    BY <1>17 DEF IInv, TypeOK, Elapse, Down
  <2>3. \A c \in Callers : Counted(c)'
    BY <1>17 DEF IInv, Counted, Elapse
  <2>4. \A c \in Callers : Looked(c)'
    <3> TAKE c \in Callers
    <3>1. pauseLeft' > 0 => pauseLeft > 0
      BY <1>17 DEF IInv, TypeOK, Elapse, Down
    <3>2. wait[c] >= pauseLeft => wait'[c] >= pauseLeft'
      BY <1>17 DEF IInv, TypeOK, Elapse, Down
    <3>3. pc' = pc /\ stale' = stale BY <1>17 DEF Elapse
    <3>4. Looked(c) BY DEF IInv
    <3> QED BY <3>1, <3>2, <3>3, <3>4 DEF Looked
  <2> QED BY <1>17, <2>1, <2>2, <2>3, <2>4 DEF IInv, TypeOK, Elapse
<1>18. CASE UNCHANGED vars
  BY <1>18 DEF IInv, TypeOK, States, Counted, Looked, vars, call
<1> QED
  BY <1>1, <1>2, <1>3, <1>4, <1>5, <1>6, <1>7, <1>8, <1>9, <1>10, <1>11, <1>12,
     <1>13, <1>14, <1>15, <1>16, <1>17, <1>18 DEF Next, Proceed, Respond

-----------------------------------------------------------------------------
(* Throughout, the requests of a call agree with its loop index, and calls *)
(* that sleep for a pause sleep as long as it lasts.                       *)
THEOREM Inductive == Spec => []IInv
BY InitIInv, StepIInv, PTL DEF Spec

(* The bucket is never overdrawn and the loop index stays in its range,    *)
(* for any number of callers (RateLimiter.Wait, doRequest).                *)
THEOREM TypeCorrect == Spec => []TypeOK
BY Inductive, PTL DEF IInv

(* At most MAX_RETRIES + 1 requests per call of doRequest, whatever the    *)
(* mixture of failures, pauses and Retry-After headers.                    *)
THEOREM RequestsBounded == Spec => []BoundedRequests
<1>1. IInv => BoundedRequests
  BY ClientAssumption
     DEF ClientAssumption, IInv, TypeOK, States, Counted, BoundedRequests
<1> QED BY <1>1, Inductive, PTL

(* A request leaves during a pause only from a call that looked for a      *)
(* pause before this one was set (doRequest reads pauseUntil once).        *)
THEOREM PauseHeeded == Spec => OnlyStaleCallsIgnorePause
<1>1. IInv => \A c \in Callers :
                pc[c] = "send" /\ pc'[c] = "inflight" /\ pauseLeft > 0 => stale[c]
  BY Zenon DEF IInv, Looked
<1> QED BY <1>1, Inductive, PTL DEF OnlyStaleCallsIgnorePause
=============================================================================
