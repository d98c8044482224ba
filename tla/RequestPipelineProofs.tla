------------------------ MODULE RequestPipelineProofs ------------------------
(***************************************************************************)
(* What the event says of a payment, for every set of gateway errors,      *)
(* every delay and every configuration; and that the requests the          *)
(* interceptor makes are calls of LoggingService.finalize(), so that what  *)
(* is proved of LoggingService holds under them.                           *)
(***************************************************************************)
EXTENDS RequestPipeline, LoggingServiceProofs

-----------------------------------------------------------------------------
(* The interceptor and LoggingService.                                     *)

LEMMA StepIsFinalizeStep ==
  ASSUME [PipelineNext]_<<vars, last>>
  PROVE  [Next]_vars
<1>1. ASSUME NEW r \in Requests, NEW id \in Ids, Request(r, id)
      PROVE  Next
  <2>1. PICK traits : traits \subseteq Traits /\ Finalize(r, id, traits)
    BY <1>1 DEF Request, TraitsOf
  <2> QED
    BY <2>1 DEF Next
<1>2. ASSUME NEW r \in Requests, LogResolves(r) \/ LogRejects(r)
      PROVE  Next
  BY <1>2 DEF Next
<1> QED
  BY <1>1, <1>2 DEF PipelineNext

\* What a request makes of a payment reaches LoggingService as one call of
\* finalize() with some traits: the pipeline refines it.
THEOREM PipelineImplementsService == PipelineSpec => Spec
<1>1. PipelineInit => Init
  BY DEF PipelineInit
<1> QED
  BY <1>1, StepIsFinalizeStep, PTL DEF PipelineSpec, Spec

\* So the gates count exactly and keep repeated ids apart under the requests of
\* POST /payments.
THEOREM ServiceIsSafe ==
  PipelineSpec => /\ [](TypeOK /\ PendingExact /\ MetricsAddUp)
                  /\ [](CacheIsRecent /\ RepeatsAreApart)
                  /\ DropsOnlyWhenFull
BY PipelineImplementsService, TypeCorrect, PendingExactHolds, MetricsAddUpHolds,
   CacheIsRecentHolds, RepeatsAreApartHolds, DropsOnlyWhenFullHolds, PTL

-----------------------------------------------------------------------------
(* Payments.                                                               *)

\* The order comes third.
LEMMA AppendToPair ==
  ASSUME NEW S, NEW s \in Seq(S), Len(s) = 2, NEW d \in S
  PROVE  LET p == Append(s, d) IN
         Len(p) = 3 /\ p[1] = s[1] /\ p[2] = s[2] /\ p[3] = d
<1> DEFINE p == Append(s, d)
<1>1. Len(p) = Len(s) + 1 /\ p[Len(s) + 1] = d
  BY AppendProperties
<1>2. \A i \in 1..Len(s) : p[i] = s[i]
  BY AppendProperties
<1> HIDE DEF p
<1> QED
  BY <1>1, <1>2 DEF p

LEMMA ThirdStep ==
  ASSUME NEW c, NEW d
  PROVE  LET p == Append(<<"SUCCESS", c>>, d) IN
         Len(p) = 3 /\ p[1] = "SUCCESS" /\ p[2] = c /\ p[3] = d
<1>1. <<"SUCCESS", c>> \in Seq({"SUCCESS", c, d}) /\ Len(<<"SUCCESS", c>>) = 2
  OBVIOUS
<1> QED
  BY <1>1, AppendToPair

\* A payment ends with the first step that fails, or with the order.
LEMMA PaymentShape ==
  ASSUME NEW body, NEW p \in Payments(body)
  PROVE  \/ \E c \in {"INSUFFICIENT_BALANCE"} : p = <<c>>
         \/ \E c \in GatewayErrors : IsError(c) /\ p = <<"SUCCESS", c>>
         \/ \E c \in {"SUCCESS", "SLOW_GATEWAY_SUCCESS"} \cup GatewayErrors,
               d \in ConfirmOrder :
              ~ IsError(c) /\ Len(p) = 3 /\ p[1] = "SUCCESS" /\ p[2] = c /\ p[3] = d
<1> DEFINE goOn(steps, codes) == {Append(s[1], s[2]) : s \in steps \X codes}
           passed(steps)  == {s \in steps : ~ IsError(s[Len(s)])}
           stopped(steps) == steps \ passed(steps)
           balance == {<<c>> : c \in CheckBalance(body)}
           gateway == goOn(passed(balance), CallGateway)
<1>1. p \in stopped(balance) \cup stopped(gateway)
              \cup goOn(passed(gateway), ConfirmOrder)
  BY Zenon DEF Payments
<1>2. \A c : IsError(c) <=> c \notin {"SUCCESS"} \cup Slow
  BY DEF IsError, Severity, Slow
<1>3. \A s \in balance : s = <<"INSUFFICIENT_BALANCE">> \/ s = <<"SUCCESS">>
  BY DEF CheckBalance
<1>4. \A s \in passed(balance) : s = <<"SUCCESS">>
  BY <1>2, <1>3 DEF Slow
<1>5. \A s \in gateway : \E c \in CallGateway : s = <<"SUCCESS", c>>
  BY <1>4
<1>6. CASE p \in stopped(balance)
  BY <1>2, <1>3, <1>6
<1>7. CASE p \in stopped(gateway)
  <2>1. PICK c \in CallGateway : p = <<"SUCCESS", c>>
    BY <1>5, <1>7
  <2>2. IsError(c)
    BY <1>7, <2>1
  <2> QED
    <3>1. c \in GatewayErrors
      BY <1>2, <2>1, <2>2 DEF CallGateway, Slow
    <3> HIDE DEF gateway, balance
    <3> QED
      BY <2>1, <2>2, <3>1
<1>8. CASE p \in goOn(passed(gateway), ConfirmOrder)
  <2>1. PICK s \in passed(gateway), d \in ConfirmOrder : p = Append(s, d)
    BY <1>8
  <2>2. PICK c \in CallGateway : s = <<"SUCCESS", c>>
    BY <1>5, <2>1
  <2>3. ~ IsError(c)
    BY <2>1, <2>2
  <2>4. Len(p) = 3 /\ p[1] = "SUCCESS" /\ p[2] = c /\ p[3] = d
    <3>1. p = Append(<<"SUCCESS", c>>, d)
      BY <2>1, <2>2
    <3> QED
      BY <3>1, ThirdStep
  <2> QED
    BY <2>3, <2>4 DEF CallGateway
<1> QED
  BY <1>1, <1>6, <1>7, <1>8

\* The three ways a payment ends, as the event sees them.
LEMMA PaymentEnds ==
  ASSUME NEW body, NEW p \in Payments(body), NEW delay \in Delays
  PROVE  /\ p # <<>>
         /\ Charged(p) <=> Len(p) = 3
         /\ ~ Confirmed(p) => LastCode(p) # "none"
         /\ Charged(p) /\ ~ Confirmed(p) => LastCode(p) = "ORDER_CONFIRMATION_FAILED"
         /\ ~ Charged(p) => LastCode(p) # "ORDER_CONFIRMATION_FAILED"
         /\ Measured(p, delay) \in Nat
         /\ Confirmed(p) /\ (\E i \in 1..3 : p[i] \in Slow) =>
              Measured(p, delay) > 2000
<1> USE ErrorsAssumption, TimesAssumption
<1>0. \A c : IsError(c) <=> c \notin {"SUCCESS"} \cup Slow
  BY DEF IsError, Severity, Slow
<1>1. CASE p = <<"INSUFFICIENT_BALANCE">>
  <2>1. /\ Len(p) = 1 /\ p[1] = "INSUFFICIENT_BALANCE"
    BY <1>1
  <2>2. Measured(p, delay) = delay + 10
    BY <2>1 DEF Measured, Duration, Latency
  <2> QED
    BY <1>1, <2>1, <2>2 DEF Charged, Confirmed, LastCode
<1>2. ASSUME NEW c \in GatewayErrors, IsError(c), p = <<"SUCCESS", c>>
      PROVE  /\ ~ Charged(p) /\ ~ Confirmed(p) /\ p # <<>>
             /\ LastCode(p) \notin {"none", "ORDER_CONFIRMATION_FAILED"}
             /\ Measured(p, delay) \in Nat
  <2>1. Len(p) = 2 /\ p[1] = "SUCCESS" /\ p[2] = c
    BY <1>2
  <2>2. Latency("SUCCESS", 1) = 10 /\ Latency(c, 2) = 1
    <3>1. c \notin Slow
      BY <1>0, <1>2 DEF Slow
    <3> QED
      BY <1>2, <3>1 DEF Latency, Slow
  <2>3. Measured(p, delay) = delay + 10 + 1
    BY <2>1, <2>2 DEF Measured, Duration
  <2> QED
    BY <1>2, <2>1, <2>3 DEF Charged, Confirmed, LastCode
<1>3. ASSUME NEW c, NEW d \in ConfirmOrder, ~ IsError(c),
             Len(p) = 3, p[1] = "SUCCESS", p[2] = c, p[3] = d
      PROVE  /\ Charged(p) /\ p # <<>>
             /\ Confirmed(p) <=> d # "ORDER_CONFIRMATION_FAILED"
             /\ LastCode(p) = d /\ d # "none"
             /\ Measured(p, delay) \in Nat
             /\ Confirmed(p) /\ (\E i \in 1..3 : p[i] \in Slow) =>
                  Measured(p, delay) > 2000
  <2>1. Len(p) = 3 /\ p[1] = "SUCCESS" /\ p[2] = c /\ p[3] = d
    BY <1>3
  <2>2. LastCode(p) = d /\ Charged(p) /\ (Confirmed(p) <=> ~ IsError(d))
    BY <2>1 DEF Charged, Confirmed, LastCode
  <2>3. /\ d \in {"SLOW_ORDER_SUCCESS", "SUCCESS", "ORDER_CONFIRMATION_FAILED"}
        /\ c \in {"SUCCESS", "SLOW_GATEWAY_SUCCESS", "SLOW_ORDER_SUCCESS"}
    BY <1>0, <1>3 DEF ConfirmOrder, Slow
  <2>4. Measured(p, delay) = delay + 10 + Latency(c, 2) + Latency(d, 3)
    BY <2>1, <2>3 DEF Measured, Duration, Latency
  <2>5. /\ Latency(c, 2) \in Nat /\ Latency(d, 3) \in Nat
        /\ c \in Slow => Latency(c, 2) >= 2000
        /\ d \in Slow => Latency(d, 3) >= 2000
    BY <1>0, <1>3, <2>3 DEF Latency, Slow
  <2>6. (\E i \in 1..3 : p[i] \in Slow) => c \in Slow \/ d \in Slow
    BY <2>1 DEF Slow
  <2>7. delay \in Nat
    OBVIOUS
  <2>8. Measured(p, delay) \in Nat
    BY <2>4, <2>5, <2>7
  <2>9. c \in Slow \/ d \in Slow => Measured(p, delay) > 2000
    BY <2>4, <2>5, <2>7
  <2>10. Confirmed(p) <=> d # "ORDER_CONFIRMATION_FAILED"
    BY <1>0, <2>2, <2>3 DEF Slow
  <2> QED
    BY <1>3, <2>1, <2>2, <2>3, <2>6, <2>8, <2>9, <2>10
<1> QED
  BY <1>1, <1>2, <1>3, PaymentShape DEF Charged

-----------------------------------------------------------------------------
(* The event of the request that was finalized last.                       *)

\* What a request leaves in last: the code and the time of its payment.
Told(body, p, delay) ==
  LET code == IF Confirmed(p) THEN "none" ELSE LastCode(p)
      ms   == Measured(p, delay) IN
  /\ last.event = Event(body, code, ms)
  /\ last.stage = "unsampled" => TraitsOf(code, ms) = {}

LastIsTold ==
  last.payment # <<>> =>
    \E body \in {"invalid", "valid"}, delay \in Delays :
      /\ last.payment \in Payments(body)
      /\ Told(body, last.payment, delay)

\* A call that is left out by sampling had none of the traits.
LEMMA SkippedHasNoTraits ==
  ASSUME TypeOK, NEW r \in Requests, NEW id, NEW traits, Finalize(r, id, traits),
         stage'[r] = "unsampled"
  PROVE  traits = {}
<1>1. \A how : stage' = [stage EXCEPT ![r] = how] => stage'[r] = how
  BY DEF TypeOK
<1>2. Skip(r, id, traits)
  BY <1>1 DEF Finalize, Duplicate, Drop, CallLogger, Resolve
<1> QED
  BY <1>2 DEF Skip, ShouldRecord, MustRecord

LEMMA StepKeepsTold ==
  ASSUME LastIsTold, TypeOK, [PipelineNext]_<<vars, last>>
  PROVE  LastIsTold'
<1>1. ASSUME NEW r \in Requests, NEW id \in Ids, Request(r, id)
      PROVE  LastIsTold'
  <2>1. PICK body \in {"none", "invalid", "valid"}, delay \in Delays :
          \E p \in IF body = "none" THEN {<<>>} ELSE Payments(body) :
            LET code == Normalize(HandlePayment(body, p))
                ms   == Measured(p, delay) IN
            /\ Finalize(r, id, TraitsOf(code, ms))
            /\ last' = [request |-> r, payment |-> p, stage |-> stage'[r],
                        event |-> Event(body, code, ms)]
    BY <1>1 DEF Request
  <2>2. PICK p \in IF body = "none" THEN {<<>>} ELSE Payments(body) :
          LET code == Normalize(HandlePayment(body, p))
              ms   == Measured(p, delay) IN
          /\ Finalize(r, id, TraitsOf(code, ms))
          /\ last' = [request |-> r, payment |-> p, stage |-> stage'[r],
                      event |-> Event(body, code, ms)]
    BY <2>1
  <2>3. CASE body = "none"
    <3>1. last'.payment = <<>>
      BY <2>2, <2>3
    <3> QED
      BY <3>1 DEF LastIsTold
  <2>4. CASE body # "none"
    <3> DEFINE code == IF Confirmed(p) THEN "none" ELSE LastCode(p)
               ms   == Measured(p, delay)
    <3>1. p \in Payments(body) /\ body \in {"invalid", "valid"}
      BY <2>2, <2>4
    <3>2. Normalize(HandlePayment(body, p)) = code
      BY <2>4 DEF Normalize, HandlePayment, ParseAdapterError
    <3> HIDE DEF code, ms
    <3>3. /\ Finalize(r, id, TraitsOf(code, ms))
          /\ last'.payment = p /\ last'.stage = stage'[r]
          /\ last'.event = Event(body, code, ms)
      BY <2>2, <3>2 DEF ms
    <3>4. last'.stage = "unsampled" => TraitsOf(code, ms) = {}
      BY <3>3, SkippedHasNoTraits
    <3>5. Told(body, p, delay)'
      BY <3>3, <3>4 DEF Told, code, ms
    <3> QED
      BY <3>1, <3>3, <3>5 DEF LastIsTold
  <2> QED
    BY <2>3, <2>4
<1>2. CASE UNCHANGED last
  BY <1>2 DEF LastIsTold, Told
<1> QED
  BY <1>1, <1>2 DEF PipelineNext

THEOREM LastIsToldHolds == PipelineSpec => []LastIsTold
<1>1. PipelineInit => LastIsTold
  BY DEF PipelineInit, Nobody, LastIsTold
<1> QED
  BY <1>1, StepKeepsTold, ServiceIsSafe, PTL DEF PipelineSpec

\* An event has the code of the step that failed and counts as FAILED; of a
\* confirmed payment it has no code, and WARNING when a step was slow.
THEOREM EventTellsPaymentHolds == PipelineSpec => []EventTellsPayment
<1>1. ASSUME LastIsTold, Logged
      PROVE  LET p == last.payment  e == last.event IN
             /\ ~ Confirmed(p) => e.outcome = "FAILED" /\ e.code = LastCode(p)
             /\ Confirmed(p) => e.code = "none"
             /\ Confirmed(p) /\ (\E i \in 1..3 : p[i] \in Slow)
                  => e.outcome = "WARNING"
  <2> DEFINE p == last.payment
             code == IF Confirmed(p) THEN "none" ELSE LastCode(p)
  <2>1. PICK body \in {"invalid", "valid"}, delay \in Delays :
          p \in Payments(body) /\ Told(body, p, delay)
    BY <1>1 DEF LastIsTold, Logged, Paid
  <2> DEFINE ms == Measured(p, delay)
  <2>2. /\ last.event.code = code
        /\ last.event.outcome = Outcome(code, ms)
    BY <2>1 DEF Told, Event
  <2>3. /\ ~ Confirmed(p) => LastCode(p) # "none"
        /\ ms \in Nat
        /\ Confirmed(p) /\ (\E i \in 1..3 : p[i] \in Slow) => ms > 2000
    BY <2>1, PaymentEnds
  <2>4. ms \in Nat /\ ms > 2000 => Bucket(ms) = "P_OVER_1000MS"
    <3> HIDE DEF ms
    <3> QED
      BY DEF Bucket
  <2> HIDE DEF p, ms
  <2>5. ~ Confirmed(p) => last.event.outcome = "FAILED" /\ last.event.code = LastCode(p)
    BY <2>2, <2>3 DEF Outcome
  <2>6. Confirmed(p) => last.event.code = "none"
    BY <2>2
  <2>7. Confirmed(p) /\ (\E i \in 1..3 : p[i] \in Slow) => last.event.outcome = "WARNING"
    BY <2>2, <2>3, <2>4 DEF Outcome
  <2> QED
    BY <2>5, <2>6, <2>7 DEF p
<1>2. LastIsTold => EventTellsPayment
  BY <1>1 DEF EventTellsPayment
<1> QED
  BY <1>2, LastIsToldHolds, PTL

\* A charge of the gateway shows in the event of its request.
THEOREM ChargesAreTraceableHolds == PipelineSpec => []ChargesAreTraceable
<1>1. ASSUME LastIsTold, Logged
      PROVE  Charged(last.payment) <=>
               \/ "transactionId" \in last.event.metadata
               \/ last.event.code = "ORDER_CONFIRMATION_FAILED"
  <2> DEFINE p == last.payment
             code == IF Confirmed(p) THEN "none" ELSE LastCode(p)
  <2>1. PICK body \in {"invalid", "valid"}, delay \in Delays :
          p \in Payments(body) /\ Told(body, p, delay)
    BY <1>1 DEF LastIsTold, Logged, Paid
  <2>2. /\ last.event.code = code
        /\ last.event.metadata = RequestMeta(body) \cup ResponseMeta(code)
    BY <2>1 DEF Told, Event
  <2>3. /\ ~ Confirmed(p) => LastCode(p) # "none"
        /\ Charged(p) /\ ~ Confirmed(p) => LastCode(p) = "ORDER_CONFIRMATION_FAILED"
        /\ ~ Charged(p) => LastCode(p) # "ORDER_CONFIRMATION_FAILED"
        /\ Confirmed(p) => Charged(p)
    BY <2>1, PaymentEnds DEF Confirmed
  <2>4. "transactionId" \in last.event.metadata <=> code = "none"
    BY <2>1, <2>2 DEF RequestMeta, ResponseMeta, HandlerMetadata, Response
  <2> HIDE DEF p
  <2> QED
    BY <2>2, <2>3, <2>4 DEF p
<1>2. LastIsTold => ChargesAreTraceable
  BY <1>1 DEF ChargesAreTraceable
<1> QED
  BY <1>2, LastIsToldHolds, PTL

\* With a threshold of two seconds at most, sampling leaves out only payments
\* that were confirmed without a slow step.
THEOREM OnlyGoodPaymentsAreSkippedHolds ==
  ASSUME SlowThreshold <= 2000
  PROVE  PipelineSpec => []OnlyGoodPaymentsAreSkipped
<1>1. ASSUME LastIsTold, Paid, last.stage = "unsampled"
      PROVE  /\ Confirmed(last.payment)
             /\ \A i \in 1..3 : last.payment[i] \notin Slow
  <2> DEFINE p == last.payment
             code == IF Confirmed(p) THEN "none" ELSE LastCode(p)
  <2>1. PICK body \in {"invalid", "valid"}, delay \in Delays :
          p \in Payments(body) /\ Told(body, p, delay)
    BY <1>1 DEF LastIsTold, Paid
  <2> DEFINE ms == Measured(p, delay)
  <2>2. "error" \notin TraitsOf(code, ms) /\ "slow" \notin TraitsOf(code, ms)
    BY <1>1, <2>1 DEF Told
  <2>3. code = "none" /\ ~ (ms > SlowThreshold)
    <3> HIDE DEF code, ms
    <3> QED
      BY <2>2 DEF TraitsOf, Traits
  <2>4. /\ ~ Confirmed(p) => LastCode(p) # "none"
        /\ ms \in Nat
        /\ Confirmed(p) /\ (\E i \in 1..3 : p[i] \in Slow) => ms > 2000
    BY <2>1, PaymentEnds
  <2>5. Confirmed(p)
    BY <2>3, <2>4
  <2>6. ~ (ms > 2000)
    <3> HIDE DEF ms
    <3> QED
      BY <2>3, <2>4, TimesAssumption
  <2> HIDE DEF p, ms
  <2> QED
    BY <2>4, <2>5, <2>6 DEF p
<1>2. LastIsTold => OnlyGoodPaymentsAreSkipped
  BY <1>1 DEF OnlyGoodPaymentsAreSkipped
<1> QED
  BY <1>2, LastIsToldHolds, PTL
=============================================================================
