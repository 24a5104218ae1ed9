------------------------ MODULE MakeUrlRequestHandler ------------------------
(***************************************************************************)
(* The life of a MakeUrlRequestHandler: the callbacks proxygen makes on it, *)
(* the connection to the captcha service, the promise and the chain of      *)
(* futures that leaves the event loop for the CPU executor and comes back,  *)
(* and `delete this'.  do_shorten_url is only its outcome here (it is       *)
(* ShortenUrl.tla).                                                         *)
(*                                                                         *)
(* External: proxygen calls requestComplete once the request is read and    *)
(* the response sent, or onError instead when the client fails, and nothing *)
(* after either.  The destructor of HTTPConnector drops a pending connect;  *)
(* an open transaction keeps its pointer to txn_handler_.  The destructor   *)
(* of an unset Promise breaks it, which runs the chain with an error.       *)
(*                                                                         *)
(* A use of a deleted handler is undefined behaviour and an exception out   *)
(* of a noexcept function ends the process: nothing is said of what comes   *)
(* after either.  The 405 of onRequest and the `Missing headers' and        *)
(* client_terminated_ branches are dead: MyRequestHandlerFactory makes this *)
(* handler for POST and PUT only, onRequest comes first, and                *)
(* client_terminated_ is only ever set on the way to `delete this'.         *)
(***************************************************************************)
EXTENDS Naturals, Sequences

CONSTANTS
  Requests,
  Faults      \* what may go wrong around the server; see FaultKinds

(* early: the client fails before its request is read; late: after that;    *)
(* connect: the captcha service cannot be reached within the timeout;       *)
(* lookup: its name cannot be resolved; tls: the file of trusted            *)
(* certificates or the cipher suites cannot be loaded; malformed: the body  *)
(* is not JSON; not_strings: it is, with an array or an object for a field. *)
FaultKinds ==
  {"early", "late", "connect", "lookup", "tls", "malformed", "not_strings"}

ASSUME HandlerAssumption == Faults \subseteq FaultKinds

VARIABLES
  obj,        \* the handler: "none" before it is made, "live", "deleted"
  ingress,    \* what proxygen delivers next: "headers", "body", "eom"
  body,       \* what body_ holds
  responses,  \* the statuses sent to this client
  conn,       \* to the captcha service: "none", "connecting", "open", "closed"
  promise,    \* captcha_service_result_promise_: "unset", "set"
  chain,      \* where the chain of futures is
  value,      \* the value or error that travels along it
  verdict,    \* what the captcha service said of this user (history)
  shortened,  \* do_shorten_url was called for this request (history)
  fault,      \* the last thing that went wrong around it (history)
  server      \* "up", "terminated", or "undefined": a deleted handler was used

handler == <<obj, ingress, body, responses>>
captcha == <<conn, promise, chain, value>>
history == <<verdict, shortened, fault>>
vars == <<handler, captcha, history, server>>

Init ==
  /\ obj = [r \in Requests |-> "none"]
  /\ ingress = [r \in Requests |-> "headers"]
  /\ body = [r \in Requests |-> "missing"]
  /\ responses = [r \in Requests |-> << >>]
  /\ conn = [r \in Requests |-> "none"]
  /\ promise = [r \in Requests |-> "unset"]
  /\ chain = [r \in Requests |-> "none"]
  /\ value = [r \in Requests |-> "none"]
  /\ verdict = [r \in Requests |-> "none"]
  /\ shortened = [r \in Requests |-> FALSE]
  /\ fault = [r \in Requests |-> "none"]
  /\ server = "up"

(* Something goes wrong that Faults allows.                                 *)
Fails(r, kind) == kind \in Faults /\ fault' = [fault EXCEPT ![r] = kind]

Send(r, status) == responses' = [responses EXCEPT ![r] = Append(@, status)]

(* `delete this', with what the destructors of the members do.              *)
Delete(r) ==
  /\ obj' = [obj EXCEPT ![r] = "deleted"]
  /\ conn' = [conn EXCEPT ![r] = IF @ = "connecting" THEN "closed" ELSE @]
  /\ chain' = [chain EXCEPT ![r] = IF @ = "promise" THEN "via_cpu" ELSE @]
  /\ value' = [value EXCEPT ![r] = IF chain[r] = "promise" THEN "error" ELSE @]

(* MyRequestHandlerFactory::onRequest makes the handler; once everything    *)
(* about an earlier request is over its name is used again.                 *)
Create(r) ==
  /\ server = "up"
  /\ obj[r] = "none" \/ (obj[r] = "deleted" /\ conn[r] \in {"none", "closed"}
                                            /\ chain[r] \in {"none", "done"})
  /\ obj' = [obj EXCEPT ![r] = "live"]
  /\ ingress' = [ingress EXCEPT ![r] = "headers"]
  /\ body' = [body EXCEPT ![r] = "missing"]
  /\ responses' = [responses EXCEPT ![r] = << >>]
  /\ conn' = [conn EXCEPT ![r] = "none"]
  /\ promise' = [promise EXCEPT ![r] = "unset"]
  /\ chain' = [chain EXCEPT ![r] = "none"]
  /\ value' = [value EXCEPT ![r] = "none"]
  /\ verdict' = [verdict EXCEPT ![r] = "none"]
  /\ shortened' = [shortened EXCEPT ![r] = FALSE]
  /\ fault' = [fault EXCEPT ![r] = "none"]
  /\ UNCHANGED server

(* RateLimitFilter::onRequest: onError on the handler, then a 429.          *)
RateLimited(r) ==
  /\ server = "up"
  /\ obj[r] = "live" /\ ingress[r] = "headers"
  /\ Delete(r)
  /\ Send(r, 429)
  /\ UNCHANGED <<ingress, body, promise, history, server>>

onRequest(r) ==
  /\ server = "up"
  /\ obj[r] = "live" /\ ingress[r] = "headers"
  /\ ingress' = [ingress EXCEPT ![r] = "body"]
  /\ UNCHANGED <<obj, body, responses, captcha, history, server>>

(* The chunks of the body, appended to one another in body_.                *)
onBody(r, kind) ==
  /\ server = "up"
  /\ obj[r] = "live" /\ ingress[r] = "body" /\ body[r] = "missing"
  /\ kind \in FaultKinds => kind \in Faults
  /\ body' = [body EXCEPT ![r] = kind]
  /\ UNCHANGED <<obj, ingress, responses, captcha, history, server>>

EndOfIngress(r) ==
  /\ server = "up"
  /\ obj[r] = "live" /\ ingress[r] = "body"
  /\ ingress' = [ingress EXCEPT ![r] = "eom"]

(* The return after the 400 is missing: the captcha service is asked too.   *)
onEOMBadRequestGoesOn(r) ==
  /\ EndOfIngress(r)
  /\ body[r] \in {"missing", "no_captcha", "no_url"}
  /\ Send(r, 400)
  /\ conn' = [conn EXCEPT ![r] = "connecting"]
  /\ chain' = [chain EXCEPT ![r] = "promise"]
  /\ UNCHANGED <<obj, body, promise, value, history, server>>

(* onEOM without a body or without one of its two fields: 400.              *)
onEOMBadRequest(r) ==
  /\ EndOfIngress(r)
  /\ body[r] \in {"missing", "no_captcha", "no_url"}
  /\ Send(r, 400)
  /\ UNCHANGED <<obj, body, captcha, history, server>>

(* parseJson, or asString on an array or an object, throws: onEOM is        *)
(* noexcept.                                                                *)
onEOMThrows(r) ==
  /\ EndOfIngress(r)
  /\ body[r] \in {"malformed", "not_strings"} /\ Fails(r, body[r])
  /\ server' = "terminated"
  /\ UNCHANGED <<obj, body, responses, captcha, verdict, shortened>>

(* The same in query_captcha_service, which onEOM calls: the name is not    *)
(* resolved, or SSLContext throws.                                          *)
query_captcha_serviceThrows(r) ==
  /\ EndOfIngress(r)
  /\ body[r] = "good"
  /\ \E kind \in {"lookup", "tls"} : Fails(r, kind)
  /\ server' = "terminated"
  /\ UNCHANGED <<obj, body, responses, captcha, verdict, shortened>>

(* query_captcha_service starts to connect; the chain waits on the promise. *)
onEOM(r) ==
  /\ EndOfIngress(r)
  /\ body[r] = "good"
  /\ conn' = [conn EXCEPT ![r] = "connecting"]
  /\ chain' = [chain EXCEPT ![r] = "promise"]
  /\ UNCHANGED <<obj, body, responses, promise, value, history, server>>

connectSuccess(r) ==
  /\ server = "up"
  /\ conn[r] = "connecting"
  /\ conn' = [conn EXCEPT ![r] = "open"]
  /\ UNCHANGED <<handler, promise, chain, value, history, server>>

(* A connect error that is only logged.                                     *)
connectErrorSilent(r) ==
  /\ server = "up"
  /\ conn[r] = "connecting" /\ Fails(r, "connect")
  /\ conn' = [conn EXCEPT ![r] = "closed"]
  /\ UNCHANGED <<handler, promise, chain, value, verdict, shortened, server>>

(* Answers with a status no one expects here.                               *)
connectErrorBadGateway(r) ==
  /\ server = "up"
  /\ conn[r] = "connecting" /\ Fails(r, "connect")
  /\ conn' = [conn EXCEPT ![r] = "closed"]
  /\ Send(r, 502)
  /\ UNCHANGED <<obj, ingress, body, promise, chain, value, verdict, shortened, server>>

(* A 503; the promise stays unset.                                          *)
connectError(r) ==
  /\ server = "up"
  /\ conn[r] = "connecting" /\ Fails(r, "connect")
  /\ conn' = [conn EXCEPT ![r] = "closed"]
  /\ Send(r, 503)
  /\ UNCHANGED <<obj, ingress, body, promise, chain, value, verdict, shortened, server>>

(* The promise gets v; the first stage of the chain, which parses the       *)
(* service's answer, runs within the call, the next goes to the executor.   *)
Fulfil(r, v) ==
  /\ promise' = [promise EXCEPT ![r] = "set"]
  /\ chain' = [chain EXCEPT ![r] = "via_cpu"]
  /\ value' = [value EXCEPT ![r] = v]

(* The return after setException is missing: setValue then throws.          *)
on_captcha_service_EOMFallsThrough(r, v) ==
  /\ server = "up"
  /\ conn[r] = "open" /\ obj[r] = "live"
  /\ conn' = [conn EXCEPT ![r] = "closed"]
  /\ Fulfil(r, v)
  /\ verdict' = [verdict EXCEPT ![r] = v]
  /\ server' = IF v = "error" THEN "terminated" ELSE server
  /\ UNCHANGED <<handler, shortened, fault>>

(* The captcha transaction's answer and its detach: onEOM with a 200 and a  *)
(* verdict; with another status, no body or no `success' field an error.    *)
on_captcha_service_EOM(r, v) ==
  /\ server = "up"
  /\ conn[r] = "open" /\ obj[r] = "live"
  /\ conn' = [conn EXCEPT ![r] = "closed"]
  /\ Fulfil(r, v)
  /\ verdict' = [verdict EXCEPT ![r] = v]
  /\ UNCHANGED <<handler, shortened, fault, server>>

(* The promise is left unset when the transaction fails.                    *)
on_captcha_service_errorDropped(r) ==
  /\ server = "up"
  /\ conn[r] = "open" /\ obj[r] = "live"
  /\ conn' = [conn EXCEPT ![r] = "closed"]
  /\ UNCHANGED <<handler, promise, chain, value, history, server>>

(* The transaction's onError, a timeout included, and its detach.           *)
on_captcha_service_error(r) ==
  /\ server = "up"
  /\ conn[r] = "open" /\ obj[r] = "live"
  /\ conn' = [conn EXCEPT ![r] = "closed"]
  /\ Fulfil(r, "error")
  /\ UNCHANGED <<handler, history, server>>

Undefined ==
  /\ server' = "undefined"
  /\ UNCHANGED <<handler, captcha, history>>

(* Any callback of the transaction when txn_handler_ is gone.               *)
CaptchaCallbackDangles(r) ==
  /\ server = "up"
  /\ conn[r] = "open" /\ obj[r] = "deleted"
  /\ Undefined

(* The boolean of the first stage is not looked at.                         *)
CpuStageIgnoresVerdict(r) ==
  /\ server = "up"
  /\ chain[r] = "via_cpu" /\ obj[r] = "live"
  /\ IF value[r] # "error"
     THEN /\ chain' = [chain EXCEPT ![r] = "do_shorten_url"]
          /\ shortened' = [shortened EXCEPT ![r] = TRUE]
          /\ UNCHANGED value
     ELSE /\ chain' = [chain EXCEPT ![r] = "via_evb"]
          /\ UNCHANGED <<value, shortened>>
  /\ UNCHANGED <<handler, conn, promise, verdict, fault, server>>

(* The stage on the CPU executor: do_shorten_url begins after a success.    *)
(* It is the only case of this stage that uses `this'.                      *)
CpuStage(r) ==
  /\ server = "up"
  /\ chain[r] = "via_cpu"
  /\ obj[r] = "live" \/ value[r] # "success"
  /\ IF value[r] = "success"
     THEN /\ chain' = [chain EXCEPT ![r] = "do_shorten_url"]
          /\ shortened' = [shortened EXCEPT ![r] = TRUE]
          /\ UNCHANGED value
     ELSE /\ chain' = [chain EXCEPT ![r] = "via_evb"]
          /\ value' = [value EXCEPT ![r] = IF @ = "failure" THEN "empty" ELSE @]
          /\ UNCHANGED shortened
  /\ UNCHANGED <<handler, conn, promise, verdict, fault, server>>

(* do_shorten_url returns a slug or the empty string.                       *)
do_shorten_url(r, s) ==
  /\ server = "up"
  /\ chain[r] = "do_shorten_url" /\ obj[r] = "live"
  /\ chain' = [chain EXCEPT ![r] = "via_evb"]
  /\ value' = [value EXCEPT ![r] = s]
  /\ UNCHANGED <<handler, conn, promise, history, server>>

(* The last stage, back on the event loop: 200, 400, or thenError's 500.    *)
EvbStage(r) ==
  /\ server = "up"
  /\ chain[r] = "via_evb" /\ obj[r] = "live"
  /\ chain' = [chain EXCEPT ![r] = "done"]
  /\ Send(r, CASE value[r] = "slug" -> 200
               [] value[r] = "empty" -> 400
               [] value[r] = "error" -> 500)
  /\ UNCHANGED <<obj, ingress, body, conn, promise, value, history, server>>

(* A stage that uses `this' finds the handler deleted.                      *)
ChainDangles(r) ==
  /\ server = "up"
  /\ obj[r] = "deleted"
  /\ \/ chain[r] = "via_cpu" /\ value[r] = "success"
     \/ chain[r] \in {"do_shorten_url", "via_evb"}
  /\ Undefined

requestComplete(r) ==
  /\ server = "up"
  /\ obj[r] = "live" /\ ingress[r] = "eom" /\ responses[r] # << >>
  /\ Delete(r)
  /\ UNCHANGED <<ingress, body, responses, promise, history, server>>

ClientFails(r) ==
  /\ server = "up"
  /\ obj[r] = "live" /\ ingress[r] # "headers"
  /\ Fails(r, IF ingress[r] = "eom" THEN "late" ELSE "early")

(* The client fails: the promise gets an exception and the handler deletes  *)
(* itself.                                                                  *)
onError(r) ==
  /\ ClientFails(r)
  /\ promise[r] = "unset"
  /\ promise' = [promise EXCEPT ![r] = "set"]
  /\ Delete(r)
  /\ UNCHANGED <<ingress, body, responses, verdict, shortened, server>>

(* setException throws when the promise has its value: onError is noexcept. *)
onErrorThrows(r) ==
  /\ ClientFails(r)
  /\ promise[r] = "set"
  /\ server' = "terminated"
  /\ UNCHANGED <<handler, captcha, verdict, shortened>>

BodyKinds == {"good", "no_captcha", "no_url", "malformed", "not_strings"}
Verdicts == {"success", "failure", "error"}

Connects(r) == connectSuccess(r) \/ connectError(r)

CaptchaAnswers(r) ==
  \/ \E v \in Verdicts : on_captcha_service_EOM(r, v)
  \/ on_captcha_service_error(r)
  \/ CaptchaCallbackDangles(r)

ChainRuns(r) ==
  \/ CpuStage(r)
  \/ \E s \in {"slug", "empty"} : do_shorten_url(r, s)
  \/ EvbStage(r)
  \/ ChainDangles(r)

Step(r) ==
  \/ Create(r) \/ RateLimited(r) \/ onRequest(r)
  \/ \E kind \in BodyKinds : onBody(r, kind)
  \/ onEOMBadRequest(r) \/ onEOMThrows(r)
  \/ query_captcha_serviceThrows(r) \/ onEOM(r)
  \/ Connects(r) \/ CaptchaAnswers(r) \/ ChainRuns(r)
  \/ requestComplete(r) \/ onError(r) \/ onErrorThrows(r)

Next ==
  \/ \E r \in Requests : Step(r)
  \/ server # "up" /\ UNCHANGED vars

(* The connect has a timeout of 1000 ms, the captcha transaction that of    *)
(* the timer given to the connector, the executors run what they are given, *)
(* and proxygen ends a transaction that is read and answered.  Nothing is   *)
(* assumed of the client.                                                   *)
Fairness ==
  \A r \in Requests :
    /\ WF_vars(Connects(r))
    /\ WF_vars(CaptchaAnswers(r))
    /\ WF_vars(ChainRuns(r))
    /\ WF_vars(requestComplete(r))

Spec == Init /\ [][Next]_vars
FairSpec == Spec /\ Fairness

-----------------------------------------------------------------------------
Statuses == {200, 400, 429, 500, 503}

TypeOK ==
  /\ obj \in [Requests -> {"none", "live", "deleted"}]
  /\ ingress \in [Requests -> {"headers", "body", "eom"}]
  /\ body \in [Requests -> BodyKinds \cup {"missing"}]
  /\ responses \in [Requests -> Seq(Statuses)]
  /\ conn \in [Requests -> {"none", "connecting", "open", "closed"}]
  /\ promise \in [Requests -> {"unset", "set"}]
  /\ chain \in [Requests -> {"none", "promise", "via_cpu", "do_shorten_url",
                             "via_evb", "done"}]
  /\ value \in [Requests -> Verdicts \cup {"slug", "empty", "none"}]
  /\ verdict \in [Requests -> Verdicts \cup {"none"}]
  /\ shortened \in [Requests -> BOOLEAN]
  /\ fault \in [Requests -> Faults \cup {"none"}]
  /\ server \in {"up", "terminated", "undefined"}

(* "Make sure not to close the connection (deleting `this`) while we still  *)
(* need `this`" (make_url_request_handler.cc:315): no callback and no stage *)
(* of the chain uses a deleted handler.                                     *)
ThisIsThere == server # "undefined"

(* A deleted handler is used only after the connect to the captcha service  *)
(* has failed, or a client has failed whose request was read: nothing else, *)
(* in no order of events and of threads, deletes it too early.              *)
NoUseAfterFree ==
  server = "undefined" =>
    \E r \in Requests : obj[r] = "deleted" /\ fault[r] \in {"late", "connect"}

(* An exception leaves a noexcept callback only if the body is no JSON or   *)
(* has an array or an object for a field, the captcha service's name is not *)
(* resolved, the TLS set-up fails, or a client fails whose request was      *)
(* read: no answer of the service, no error of it and no order of events    *)
(* throws.                                                                  *)
NothingThrown ==
  server = "terminated" =>
    \E r \in Requests :
      /\ obj[r] = "live"
      /\ fault[r] \in {"malformed", "not_strings", "lookup", "tls", "late"}

(* A client is sent at most one response, whatever goes wrong: the 503 of   *)
(* connectError and the answers of the chain exclude each other.            *)
AtMostOneResponse == \A r \in Requests : Len(responses[r]) <= 1

(* No URL is shortened, and no slug answered, unless the captcha service    *)
(* said of this very request's user that it succeeded.                      *)
NoShorteningWithoutCaptcha ==
  \A r \in Requests :
    /\ shortened[r] => verdict[r] = "success" /\ body[r] = "good"
    /\ responses[r] = <<200>> => shortened[r]

(* Every request that is read to its end is answered (if its client does    *)
(* not fail first) and its handler deleted: no failure of the captcha       *)
(* service leaves a client waiting or leaks a handler, unless the process   *)
(* fails.                                                                   *)
EveryRequestEnds ==
  \A r \in Requests :
    obj[r] = "live" /\ ingress[r] = "eom"
      ~> \/ server # "up"
         \/ obj[r] = "deleted" /\ (responses[r] # << >> \/ fault[r] = "late")
=============================================================================
