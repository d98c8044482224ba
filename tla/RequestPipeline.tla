--------------------------- MODULE RequestPipeline ---------------------------
(***************************************************************************)
(* POST /payments as LoggingInterceptor sees it: the payment in its three  *)
(* steps, the controller's exception, the error, the event and the         *)
(* sampling decision made of it, up to LoggingService.finalize().          *)
(*                                                                         *)
(* Requests share nothing before finalize() (each has a LoggingContext of  *)
(* its own), so a request is one step, which ends with the call of         *)
(* finalize().  A payment is named by the status codes of its steps.       *)
(*                                                                         *)
(* last is history: the request finalized last, its payment, and the event *)
(* the logger was given.                                                   *)
(***************************************************************************)
EXTENDS LoggingService

CONSTANTS
  GatewayErrors,   \* the errors the gateway draws from
  Delays,          \* milliseconds the event loop adds to a request
  SlowThreshold,   \* LOG_SLOW_THRESHOLD_MS
  CriticalRoutes   \* LOG_CRITICAL_ROUTES

ASSUME TimesAssumption == Delays \subseteq Nat /\ SlowThreshold \in Nat

ASSUME ErrorsAssumption ==
  GatewayErrors \cap {"none", "ORDER_CONFIRMATION_FAILED"} = {}

VARIABLE last

Nobody == [payment |-> <<>>]

-----------------------------------------------------------------------------
(* The payment.                                                            *)

Slow == {"SLOW_GATEWAY_SUCCESS", "SLOW_ORDER_SUCCESS"}

\* The registry of statuses: NORMAL, WARN and ERROR.
Severity(code) == CASE code = "SUCCESS" -> "NORMAL"
                    [] code \in Slow    -> "WARN"
                    [] OTHER            -> "ERROR"

IsError(code) == Severity(code) = "ERROR"

\* An amount or a count below one is taken for a lack of balance.
CheckBalance(body) ==
  IF body = "invalid" THEN {"INSUFFICIENT_BALANCE"}
  ELSE {"INSUFFICIENT_BALANCE", "SUCCESS"}

CallGateway == {"SLOW_GATEWAY_SUCCESS", "SUCCESS"} \cup GatewayErrors

ConfirmOrder == {"SLOW_ORDER_SUCCESS", "SUCCESS", "ORDER_CONFIRMATION_FAILED"}

\* processPayment(): the next step is taken unless the one before failed, and
\* nothing undoes the gateway's charge when the order fails.
Payments(body) ==
  LET goOn(steps, codes) == {Append(s[1], s[2]) : s \in steps \X codes}
      passed(steps)  == {s \in steps : ~ IsError(s[Len(s)])}
      stopped(steps) == steps \ passed(steps)
      balance == {<<c>> : c \in CheckBalance(body)}
      gateway == goOn(passed(balance), CallGateway) IN
  stopped(balance) \cup stopped(gateway) \cup goOn(passed(gateway), ConfirmOrder)

LastCode(p)  == p[Len(p)]
Charged(p)   == Len(p) = 3
Confirmed(p) == Charged(p) /\ ~ IsError(LastCode(p))

\* The least time a step takes.
Latency(code, step) ==
  CASE step = 1                        -> 10
    [] code = "SLOW_GATEWAY_SUCCESS"   -> 2001
    [] step = 2 /\ IsError(code)       -> 1
    [] code = "SLOW_ORDER_SUCCESS"     -> 2000
    [] OTHER                           -> 0

Duration(p, delay) ==
  LET of(step) == IF step <= Len(p) THEN Latency(p[step], step) ELSE 0
  IN delay + of(1) + of(2) + of(3)

\* The error of a step that failed, as the service reads it out of the text of
\* the exception.  (Bug: it cannot read the text.)
ParseFails(p) == IF Len(p) = 1 THEN LastCode(p) ELSE "GATEWAY_ERROR"

ParseAdapterError(p) == LastCode(p)

\* The controller turns a result without success into an HttpException around
\* the result; without a body the handler throws a TypeError.  (Bug: only a
\* result with a server error is thrown.)
ThrowsOnTimeout(body, p) ==
  IF body = "none" THEN [kind |-> "Error", name |-> "TypeError"]
  ELSE IF Confirmed(p) \/ LastCode(p) # "GATEWAY_TIMEOUT" THEN [kind |-> "none"]
  ELSE [kind |-> "HttpException", status |-> 500, errorCode |-> LastCode(p)]

HandlePayment(body, p) ==
  IF body = "none" THEN [kind |-> "Error", name |-> "TypeError"]
  ELSE IF Confirmed(p) THEN [kind |-> "none"]
  ELSE [kind |-> "HttpException", errorCode |-> ParseAdapterError(p),
        status |-> IF ParseAdapterError(p) = "GATEWAY_TIMEOUT" THEN 500 ELSE 400]

-----------------------------------------------------------------------------
(* The event.                                                              *)

\* ErrorNormalizer: the code of the context's error ("none" without one).
\* (Every response of this controller is an object with an errorCode.)
Normalize(thrown) ==
  CASE thrown.kind = "none"          -> "none"
    [] thrown.kind = "HttpException" -> thrown.errorCode
    [] thrown.kind = "Error"         -> thrown.name

\* RouteNormalizer: the method and the template path.
Route == <<"POST", "/payments">>

Bucket(ms) == CASE ms < 50   -> "P_SUB_50MS"
                [] ms < 200  -> "P_50_200MS"
                [] ms < 500  -> "P_200_500MS"
                [] ms < 1000 -> "P_500_1000MS"
                [] OTHER     -> "P_OVER_1000MS"

Outcome(code, ms) == IF code # "none" THEN "FAILED"
                     ELSE IF Bucket(ms) = "P_OVER_1000MS" THEN "WARNING"
                     ELSE "SUCCESS"

\* What SamplingPolicy looks at.
TraitsOf(code, ms) ==
  {t \in Traits : \/ t = "error" /\ code # "none"
                  \/ t = "slow" /\ ms > SlowThreshold
                  \/ t = "critical" /\ Route \in CriticalRoutes}

Reason(traits) == CASE "error" \in traits    -> "HAS_ERROR"
                    [] "slow" \in traits     -> "SLOW_REQUEST"
                    [] "critical" \in traits -> "CRITICAL_ROUTE"
                    [] OTHER                 -> "SAMPLED_NORMAL"

\* The result of a payment that was confirmed, which is the response.
Response == {"success", "transactionId", "orderId", "gatewayProcessingTimeMs",
             "confirmedAt"}

\* The fields the decorators of the handler ask for.
HandlerMetadata ==
  [request  |-> {"product", "count", "amount"},
   response |-> {"success", "transactionId", "orderId", "gatewayProcessingTimeMs",
                 "confirmedAt", "errorService", "errorCode"}]

\* What the event's metadata has: of the request, the fields that are there; of
\* the response, if there is one; and the details of an error.
RequestMeta(body) == IF body = "none" THEN {} ELSE HandlerMetadata.request

ResponseMeta(code) ==
  IF code = "none" THEN Response \cap HandlerMetadata.response ELSE {"_errorMeta"}

Event(body, code, ms) ==
  [code |-> code, outcome |-> Outcome(code, ms), bucket |-> Bucket(ms),
   metadata |-> RequestMeta(body) \cup ResponseMeta(code),
   reason |-> Reason(TraitsOf(code, ms))]

\* The duration that counts.  (Bug: the payment alone, without the order.)
MeasuredToGateway(p, delay) ==
  Duration(IF Charged(p) THEN SubSeq(p, 1, 2) ELSE p, delay)

Measured(p, delay) == Duration(p, delay)

Request(r, id) ==
  \E body \in {"none", "invalid", "valid"}, delay \in Delays :
    \E p \in IF body = "none" THEN {<<>>} ELSE Payments(body) :
      LET code == Normalize(HandlePayment(body, p))
          ms   == Measured(p, delay) IN
      /\ Finalize(r, id, TraitsOf(code, ms))
      /\ last' = [request |-> r, payment |-> p, stage |-> stage'[r],
                  event |-> Event(body, code, ms)]

PipelineInit == Init /\ last = Nobody

PipelineNext == \E r \in Requests :
  \/ \E id \in Ids : Request(r, id)
  \/ LogResolves(r) /\ UNCHANGED last
  \/ LogRejects(r) /\ UNCHANGED last

PipelineSpec == PipelineInit /\ [][PipelineNext]_<<vars, last>>

-----------------------------------------------------------------------------

Paid == last.payment # <<>>
Logged == Paid /\ last.stage = "logging"

\* From the adapter's exception text through the service's result, the
\* controller's exception and the normalizer, the event says of a payment
\* what came of it: FAILED with the code of the step that failed, WARNING
\* when a step was slow, and no error when the order was confirmed.
EventTellsPayment ==
  Logged =>
    LET p == last.payment  e == last.event IN
    /\ ~ Confirmed(p) => e.outcome = "FAILED" /\ e.code = LastCode(p)
    /\ Confirmed(p) => e.code = "none"
    /\ Confirmed(p) /\ (\E i \in 1..3 : p[i] \in Slow) => e.outcome = "WARNING"

\* Sampling only ever leaves out payments that were confirmed without a slow
\* step: a slow order counts as much as a slow gateway.
OnlyGoodPaymentsAreSkipped ==
  Paid /\ last.stage = "unsampled" =>
    /\ Confirmed(last.payment)
    /\ \A i \in 1..3 : last.payment[i] \notin Slow

\* A charge of the gateway can be told from the event of its request: it has
\* the transaction id, or an error of the order service, which only runs after
\* the charge.
ChargesAreTraceable ==
  Logged => (Charged(last.payment) <=>
               \/ "transactionId" \in last.event.metadata
               \/ last.event.code = "ORDER_CONFIRMATION_FAILED")
=============================================================================
