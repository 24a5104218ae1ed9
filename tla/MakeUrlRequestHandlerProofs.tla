--------------------- MODULE MakeUrlRequestHandlerProofs ---------------------
(***************************************************************************)
(* Proofs about MakeUrlRequestHandler.tla for any number of requests and    *)
(* any set of faults.                                                       *)
(***************************************************************************)
EXTENDS MakeUrlRequestHandler, SequenceTheorems, TLAPS

Stages == {"via_cpu", "do_shorten_url", "via_evb"}
Silence == << >>
One(status) == <<status>>

(* Before its request is read a handler has done nothing yet.               *)
UnreadInv(r) ==
  obj[r] = "live" /\ ingress[r] # "eom" =>
    /\ conn[r] = "none" /\ chain[r] = "none" /\ promise[r] = "unset"
    /\ responses[r] = Silence

(* Who still owes the client its answer: while the chain waits that is the  *)
(* connection, or connectError has answered; later it is the chain.         *)
LiveInv(r) ==
  obj[r] = "live" =>
    /\ chain[r] = "none" => conn[r] = "none" /\ promise[r] = "unset"
    /\ chain[r] = "promise" =>
         /\ promise[r] = "unset"
         /\ conn[r] \in {"connecting", "open"} => responses[r] = Silence
         /\ conn[r] = "closed" => fault[r] = "connect"
         /\ conn[r] # "none"
    /\ chain[r] \in Stages => responses[r] = Silence
    /\ chain[r] \in Stages \cup {"done"} => conn[r] = "closed"

(* What is left to run when the handler is gone.                            *)
DeletedInv(r) ==
  obj[r] = "deleted" =>
    /\ chain[r] # "promise" /\ conn[r] # "connecting"
    /\ chain[r] \in Stages => fault[r] \in {"late", "connect"}
    /\ conn[r] = "open" => fault[r] = "late"

NewInv(r) == obj[r] = "none" => conn[r] = "none" /\ chain[r] = "none"

(* At most one response, and never a 200 out of turn.                       *)
ResponseInv(r) ==
  /\ responses[r] = Silence \/ \E status \in Statuses : responses[r] = One(status)
  /\ responses[r] = One(200) => shortened[r] = TRUE

(* What travels along the chain, and where it comes from.                   *)
ValueInv(r) ==
  /\ chain[r] # "none" => body[r] = "good" /\ ingress[r] = "eom"
  /\ chain[r] \in {"none", "promise"} => verdict[r] = "none" /\ shortened[r] = FALSE
  /\ chain[r] = "via_cpu" =>
       /\ value[r] \in Verdicts
       /\ value[r] = "success" => verdict[r] = "success"
       /\ shortened[r] = FALSE
  /\ chain[r] = "do_shorten_url" => shortened[r] = TRUE
  /\ chain[r] = "via_evb" =>
       /\ value[r] \in {"slug", "empty", "error"}
       /\ value[r] = "slug" => shortened[r] = TRUE
  /\ shortened[r] = TRUE => verdict[r] = "success" /\ body[r] = "good"

RequestInv(r) ==
  /\ UnreadInv(r)
  /\ LiveInv(r)
  /\ DeletedInv(r)
  /\ NewInv(r)
  /\ ResponseInv(r)
  /\ ValueInv(r)

(* The inductive invariant: types, every request by itself, and why the     *)
(* server is no longer up.                                                  *)
HandlerInv ==
  /\ TypeOK
  /\ \A r \in Requests : RequestInv(r)
  /\ NoUseAfterFree
  /\ NothingThrown

-----------------------------------------------------------------------------
(* A handler is alone: nothing about request q is changed.                  *)
Untouched(q) ==
  /\ obj'[q] = obj[q] /\ ingress'[q] = ingress[q] /\ body'[q] = body[q]
  /\ responses'[q] = responses[q] /\ conn'[q] = conn[q] /\ promise'[q] = promise[q]
  /\ chain'[q] = chain[q] /\ value'[q] = value[q] /\ verdict'[q] = verdict[q]
  /\ shortened'[q] = shortened[q] /\ fault'[q] = fault[q]

LEMMA UntouchedKeepsInv ==
  ASSUME NEW q \in Requests, RequestInv(q), Untouched(q)
  PROVE  RequestInv(q)'
  <1>1. UnreadInv(q)' /\ LiveInv(q)'
    BY DEF Untouched, RequestInv, UnreadInv, LiveInv
  <1>2. DeletedInv(q)' /\ NewInv(q)'
    BY DEF Untouched, RequestInv, DeletedInv, NewInv
  <1>3. ResponseInv(q)'
    BY DEF Untouched, RequestInv, ResponseInv
  <1>4. ValueInv(q)'
    BY DEF Untouched, RequestInv, ValueInv
  <1> QED BY <1>1, <1>2, <1>3, <1>4 DEF RequestInv

(* A response is appended; the first one makes a sequence of one.           *)
LEMMA Responses ==
  ASSUME TypeOK, NEW r \in Requests, NEW status \in Statuses, Send(r, status)
  PROVE  /\ responses' \in [Requests -> Seq(Statuses)]
         /\ responses[r] = Silence => responses'[r] = One(status)
         /\ \A q \in Requests \ {r} : responses'[q] = responses[q]
  <1>1. responses[r] \in Seq(Statuses)
    BY DEF TypeOK
  <1>2. Append(responses[r], status) \in Seq(Statuses)
    BY <1>1, AppendProperties
  <1>3. responses' \in [Requests -> Seq(Statuses)]
    BY <1>2 DEF TypeOK, Send
  <1>4. Append(<< >>, status) = One(status)
    BY DEF One
  <1> QED BY <1>3, <1>4 DEF TypeOK, Send, Silence

LEMMA InitInv == Init => HandlerInv
  <1> SUFFICES ASSUME Init PROVE HandlerInv
    OBVIOUS
  <1>1. responses \in [Requests -> Seq(Statuses)]
    BY EmptySeq DEF Init
  <1>2. TypeOK
    BY <1>1 DEF Init, TypeOK
  <1>3. ASSUME NEW r \in Requests PROVE RequestInv(r)
    BY DEF Init, RequestInv, UnreadInv, LiveInv, DeletedInv, NewInv, ResponseInv,
           ValueInv, Stages, One, Silence
  <1> QED BY <1>2, <1>3 DEF Init, HandlerInv, NoUseAfterFree, NothingThrown

(* What the exceptions of onEOM have in common.                             *)
Throws(r) == onEOMThrows(r) \/ query_captcha_serviceThrows(r)

ThrownKinds == {"malformed", "not_strings", "lookup", "tls"}

LEMMA ThrowsFacts ==
  ASSUME NEW r \in Requests, Throws(r)
  PROVE  /\ EndOfIngress(r)
         /\ \E kind \in Faults \cap ThrownKinds : fault' = [fault EXCEPT ![r] = kind]
         /\ server' = "terminated"
         /\ UNCHANGED <<obj, body, responses, captcha, verdict, shortened>>
  <1>1. CASE onEOMThrows(r)
    BY <1>1 DEF onEOMThrows, Fails, ThrownKinds
  <1>2. CASE query_captcha_serviceThrows(r)
    BY <1>2 DEF query_captcha_serviceThrows, Fails, ThrownKinds
  <1> QED BY <1>1, <1>2 DEF Throws

-----------------------------------------------------------------------------
LEMMA StepType ==
  ASSUME TypeOK, NEW r \in Requests, RequestInv(r), Step(r)
  PROVE  TypeOK'
  <1> USE DEF handler, captcha, history, BodyKinds, Verdicts
  <1>1. CASE Create(r)
    <2>1. responses' \in [Requests -> Seq(Statuses)]
      BY <1>1, EmptySeq DEF TypeOK, Create
    <2> QED BY <1>1, <2>1 DEF TypeOK, Create
  <1>2. CASE RateLimited(r)
    <2>1. responses' \in [Requests -> Seq(Statuses)]
      BY <1>2, Responses DEF RateLimited, Statuses
    <2> QED BY <1>2, <2>1 DEF TypeOK, RateLimited, Delete
  <1>3. CASE onRequest(r)
    BY <1>3 DEF TypeOK, onRequest
  <1>4. ASSUME NEW kind \in BodyKinds, onBody(r, kind) PROVE TypeOK'
    BY <1>4 DEF TypeOK, onBody
  <1>5. CASE onEOMBadRequest(r)
    <2>1. Send(r, 400) /\ 400 \in Statuses
      BY <1>5 DEF onEOMBadRequest, Statuses
    <2>2. responses' \in [Requests -> Seq(Statuses)]
      BY <2>1, Responses
    <2> QED BY <1>5, <2>2 DEF TypeOK, onEOMBadRequest, EndOfIngress
  <1>6. CASE Throws(r)
    <2>1. PICK kind \in Faults : fault' = [fault EXCEPT ![r] = kind]
      BY <1>6, ThrowsFacts
    <2>2. fault' \in [Requests -> Faults \cup {"none"}]
      BY <2>1 DEF TypeOK
    <2>3. ingress' = [ingress EXCEPT ![r] = "eom"] /\ server' = "terminated"
      BY <1>6, ThrowsFacts DEF EndOfIngress
    <2>4. UNCHANGED <<obj, body, responses, captcha, verdict, shortened>>
      BY <1>6, ThrowsFacts
    <2> QED BY <2>2, <2>3, <2>4 DEF TypeOK
  <1>7. CASE onEOM(r)
    BY <1>7 DEF TypeOK, onEOM, EndOfIngress
  <1>8. CASE connectSuccess(r)
    BY <1>8 DEF TypeOK, connectSuccess
  <1>9. CASE connectError(r)
    <2>1. responses' \in [Requests -> Seq(Statuses)]
      BY <1>9, Responses DEF connectError, Statuses
    <2> QED BY <1>9, <2>1 DEF TypeOK, connectError, Fails
  <1>10. ASSUME NEW v \in Verdicts, on_captcha_service_EOM(r, v) PROVE TypeOK'
    BY <1>10 DEF TypeOK, on_captcha_service_EOM, Fulfil
  <1>11. CASE on_captcha_service_error(r)
    BY <1>11 DEF TypeOK, on_captcha_service_error, Fulfil
  <1>12. CASE CaptchaCallbackDangles(r) \/ ChainDangles(r)
    BY <1>12 DEF TypeOK, CaptchaCallbackDangles, ChainDangles, Undefined
  <1>13. CASE CpuStage(r)
    <2>1. CASE value[r] = "success"
      <3>1. /\ chain' = [chain EXCEPT ![r] = "do_shorten_url"]
            /\ UNCHANGED <<handler, conn, promise, value, verdict, fault, server>>
        BY <1>13, <2>1 DEF CpuStage
      <3>2. shortened' = [shortened EXCEPT ![r] = TRUE]
        BY <1>13, <2>1, Zenon DEF CpuStage
      <3>3. shortened' \in [Requests -> BOOLEAN]
        BY <3>2, Zenon DEF TypeOK
      <3> QED BY <3>1, <3>3 DEF TypeOK
    <2>2. CASE value[r] # "success"
      <3>1. value' \in [Requests -> Verdicts \cup {"slug", "empty", "none"}]
        <4>1. value \in [Requests -> Verdicts \cup {"slug", "empty", "none"}]
          BY DEF TypeOK
        <4>2. PICK v \in {"empty", value[r]} : value' = [value EXCEPT ![r] = v]
          BY <1>13, <2>2 DEF CpuStage
        <4> QED BY <4>1, <4>2
      <3>2. chain' = [chain EXCEPT ![r] = "via_evb"] /\ UNCHANGED shortened
        BY <1>13, <2>2 DEF CpuStage
      <3> QED BY <1>13, <3>1, <3>2 DEF TypeOK, CpuStage
    <2> QED BY <2>1, <2>2
  <1>14. ASSUME NEW s \in {"slug", "empty"}, do_shorten_url(r, s) PROVE TypeOK'
    BY <1>14 DEF TypeOK, do_shorten_url
  <1>15. CASE EvbStage(r)
    <2>1. value[r] \in {"slug", "empty", "error"}
      BY <1>15 DEF EvbStage, RequestInv, ValueInv
    <2>2. \E status \in Statuses : Send(r, status)
      <3>1. CASE value[r] = "slug"
        BY <1>15, <3>1 DEF EvbStage, Statuses
      <3>2. CASE value[r] = "empty"
        BY <1>15, <3>2 DEF EvbStage, Statuses
      <3>3. CASE value[r] = "error"
        BY <1>15, <3>3 DEF EvbStage, Statuses
      <3> QED BY <2>1, <3>1, <3>2, <3>3
    <2>3. responses' \in [Requests -> Seq(Statuses)]
      BY <2>2, Responses
    <2> QED BY <1>15, <2>3 DEF TypeOK, EvbStage
  <1>16. CASE requestComplete(r)
    BY <1>16 DEF TypeOK, requestComplete, Delete
  <1>17. CASE onError(r)
    BY <1>17 DEF TypeOK, onError, ClientFails, Fails, Delete
  <1>18. CASE onErrorThrows(r)
    BY <1>18 DEF TypeOK, onErrorThrows, ClientFails, Fails
  <1> QED
    BY <1>1, <1>2, <1>3, <1>4, <1>5, <1>6, <1>7, <1>8, <1>9, <1>10, <1>11, <1>12,
       <1>13, <1>14, <1>15, <1>16, <1>17, <1>18
       DEF Step, Throws, Connects, CaptchaAnswers, ChainRuns

(* A step of one request leaves the others alone.                           *)
LEMMA StepOthers ==
  ASSUME TypeOK, NEW r \in Requests, Step(r), NEW q \in Requests \ {r}
  PROVE  Untouched(q)
  <1> USE DEF handler, captcha, history, TypeOK, Untouched
  <1>1. CASE Create(r)
    BY <1>1 DEF Create
  <1>2. CASE RateLimited(r)
    BY <1>2 DEF RateLimited, Delete, Send
  <1>3. CASE onRequest(r)
    BY <1>3 DEF onRequest
  <1>4. ASSUME NEW kind \in BodyKinds, onBody(r, kind) PROVE Untouched(q)
    BY <1>4 DEF onBody
  <1>5. CASE onEOMBadRequest(r)
    BY <1>5 DEF onEOMBadRequest, EndOfIngress, Send
  <1>6. CASE Throws(r)
    BY <1>6, ThrowsFacts DEF EndOfIngress
  <1>7. CASE onEOM(r)
    BY <1>7 DEF onEOM, EndOfIngress
  <1>8. CASE connectSuccess(r)
    BY <1>8 DEF connectSuccess
  <1>9. CASE connectError(r)
    BY <1>9 DEF connectError, Send, Fails
  <1>10. ASSUME NEW v \in Verdicts, on_captcha_service_EOM(r, v) PROVE Untouched(q)
    BY <1>10 DEF on_captcha_service_EOM, Fulfil
  <1>11. CASE on_captcha_service_error(r)
    BY <1>11 DEF on_captcha_service_error, Fulfil
  <1>12. CASE CaptchaCallbackDangles(r) \/ ChainDangles(r)
    BY <1>12 DEF CaptchaCallbackDangles, ChainDangles, Undefined
  <1>13. CASE CpuStage(r)
    <2>1. CASE value[r] = "success"
      BY <1>13, <2>1 DEF CpuStage
    <2>2. CASE value[r] # "success"
      <3>1. value'[q] = value[q]
        BY <1>13, <2>2 DEF CpuStage
      <3> QED BY <1>13, <2>2, <3>1 DEF CpuStage
    <2> QED BY <2>1, <2>2
  <1>14. ASSUME NEW s \in {"slug", "empty"}, do_shorten_url(r, s) PROVE Untouched(q)
    BY <1>14 DEF do_shorten_url
  <1>15. CASE EvbStage(r)
    BY <1>15 DEF EvbStage, Send
  <1>16. CASE requestComplete(r)
    BY <1>16 DEF requestComplete, Delete
  <1>17. CASE onError(r)
    BY <1>17 DEF onError, ClientFails, Fails, Delete
  <1>18. CASE onErrorThrows(r)
    BY <1>18 DEF onErrorThrows, ClientFails, Fails
  <1> QED
    BY <1>1, <1>2, <1>3, <1>4, <1>5, <1>6, <1>7, <1>8, <1>9, <1>10, <1>11, <1>12,
       <1>13, <1>14, <1>15, <1>16, <1>17, <1>18
       DEF Step, Throws, Connects, CaptchaAnswers, ChainRuns

(* What a step makes of its own request.                                    *)
LEMMA StepRequest ==
  ASSUME TypeOK, NEW r \in Requests, RequestInv(r), Step(r)
  PROVE  RequestInv(r)'
  <1> DEFINE Rest == UnreadInv(r) /\ LiveInv(r) /\ DeletedInv(r) /\ NewInv(r) /\ ValueInv(r)
  <1> USE DEF handler, captcha, history, Stages, UnreadInv, LiveInv, DeletedInv, NewInv,
              ValueInv
  <1>a. Rest /\ ResponseInv(r)
    BY DEF RequestInv
  <1>b. ASSUME responses'[r] = responses[r], shortened'[r] = shortened[r]
        PROVE  ResponseInv(r)'
    BY <1>a, <1>b DEF ResponseInv
  <1>c. ASSUME NEW status \in Statuses \ {200}, Send(r, status), responses[r] = Silence
        PROVE  ResponseInv(r)'
    <2>1. responses'[r] = One(status)
      BY <1>c, Responses
    <2> QED BY <1>c, <2>1 DEF ResponseInv, One, Silence
  <1>d. Silence = << >> /\ Silence # One(200)
    BY DEF Silence, One
  <1>1. CASE Create(r)
    <2>1. responses'[r] = Silence
      BY <1>1, <1>d DEF TypeOK, Create
    <2>2. ResponseInv(r)'
      BY <2>1, <1>d DEF ResponseInv
    <2>3. Rest'
      BY <1>1, <1>a, <2>1 DEF TypeOK, Create
    <2> QED BY <2>2, <2>3 DEF RequestInv
  <1>2. CASE RateLimited(r)
    <2>1. responses[r] = Silence
      BY <1>2, <1>a DEF RateLimited
    <2>2. Send(r, 429)
      BY <1>2 DEF RateLimited
    <2>3. 429 \in Statuses \ {200}
      BY DEF Statuses
    <2>4. ResponseInv(r)'
      BY <2>1, <2>2, <2>3, <1>c
    <2>5. Rest'
      BY <1>2, <1>a DEF TypeOK, RateLimited, Delete
    <2> QED BY <2>4, <2>5 DEF RequestInv
  <1>3. CASE onRequest(r)
    <2>1. Rest'
      BY <1>3, <1>a DEF TypeOK, onRequest
    <2> QED BY <1>3, <1>b, <2>1 DEF RequestInv, onRequest
  <1>4. ASSUME NEW kind \in BodyKinds, onBody(r, kind) PROVE RequestInv(r)'
    <2>1. Rest'
      BY <1>4, <1>a DEF TypeOK, onBody
    <2> QED BY <1>4, <1>b, <2>1 DEF RequestInv, onBody
  <1>5. CASE onEOMBadRequest(r)
    <2>1. responses[r] = Silence
      BY <1>5, <1>a DEF onEOMBadRequest, EndOfIngress
    <2>2. Send(r, 400)
      BY <1>5 DEF onEOMBadRequest
    <2>3. 400 \in Statuses \ {200}
      BY DEF Statuses
    <2>4. ResponseInv(r)'
      BY <2>1, <2>2, <2>3, <1>c
    <2>5. Rest'
      BY <1>5, <1>a DEF TypeOK, onEOMBadRequest, EndOfIngress
    <2> QED BY <2>4, <2>5 DEF RequestInv
  <1>6. CASE Throws(r)
    <2>1. /\ EndOfIngress(r)
          /\ UNCHANGED <<obj, body, responses, captcha, verdict, shortened>>
      BY <1>6, ThrowsFacts
    <2>2. PICK kind \in Faults : fault' = [fault EXCEPT ![r] = kind]
      BY <1>6, ThrowsFacts
    <2>3. Rest'
      BY <2>1, <2>2, <1>a DEF TypeOK, EndOfIngress
    <2> QED BY <1>b, <2>1, <2>3 DEF RequestInv
  <1>7. CASE onEOM(r)
    <2>1. Rest'
      BY <1>7, <1>a DEF TypeOK, onEOM, EndOfIngress
    <2> QED BY <1>7, <1>b, <2>1 DEF RequestInv, onEOM
  <1>8. CASE connectSuccess(r)
    <2>1. Rest'
      BY <1>8, <1>a DEF TypeOK, connectSuccess
    <2> QED BY <1>8, <1>b, <2>1 DEF RequestInv, connectSuccess
  <1>9. CASE connectError(r)
    <2>1. obj[r] = "live" /\ chain[r] = "promise" /\ responses[r] = Silence
      BY <1>9, <1>a DEF TypeOK, connectError
    <2>2. Send(r, 503)
      BY <1>9 DEF connectError
    <2>3. 503 \in Statuses \ {200}
      BY DEF Statuses
    <2>4. ResponseInv(r)'
      BY <2>1, <2>2, <2>3, <1>c
    <2>5. Rest'
      BY <1>9, <1>a, <2>1 DEF TypeOK, connectError, Fails
    <2> QED BY <2>4, <2>5 DEF RequestInv
  <1>10. ASSUME NEW v \in Verdicts, on_captcha_service_EOM(r, v) PROVE RequestInv(r)'
    <2>1. Rest'
      BY <1>10, <1>a DEF TypeOK, on_captcha_service_EOM, Fulfil
    <2> QED BY <1>10, <1>b, <2>1 DEF RequestInv, on_captcha_service_EOM
  <1>11. CASE on_captcha_service_error(r)
    <2>1. Rest'
      BY <1>11, <1>a DEF TypeOK, on_captcha_service_error, Fulfil, Verdicts
    <2> QED BY <1>11, <1>b, <2>1 DEF RequestInv, on_captcha_service_error
  <1>12. CASE CaptchaCallbackDangles(r) \/ ChainDangles(r)
    <2>1. Untouched(r)
      BY <1>12 DEF Untouched, CaptchaCallbackDangles, ChainDangles, Undefined
    <2> QED BY <2>1, UntouchedKeepsInv
  <1>13. CASE CpuStage(r)
    <2>1. CASE value[r] = "success"
      <3>1. Rest'
        BY <1>13, <1>a, <2>1 DEF TypeOK, CpuStage
      <3>2. responses'[r] = responses[r] /\ shortened'[r] = TRUE
        BY <1>13, <2>1 DEF TypeOK, CpuStage
      <3> QED BY <1>a, <3>1, <3>2 DEF RequestInv, ResponseInv
    <2>2. CASE value[r] # "success"
      <3>1. Rest'
        BY <1>13, <1>a, <2>2 DEF TypeOK, CpuStage, Verdicts
      <3> QED BY <1>13, <2>2, <1>b, <3>1 DEF RequestInv, CpuStage
    <2> QED BY <2>1, <2>2
  <1>14. ASSUME NEW s \in {"slug", "empty"}, do_shorten_url(r, s)
         PROVE  RequestInv(r)'
    <2>1. Rest'
      BY <1>14, <1>a DEF TypeOK, do_shorten_url
    <2> QED BY <1>14, <1>b, <2>1 DEF RequestInv, do_shorten_url
  <1>15. CASE EvbStage(r)
    <2>1. value[r] \in {"slug", "empty", "error"} /\ responses[r] = Silence
      BY <1>15, <1>a DEF EvbStage
    <2>2. ASSUME value[r] = "slug" PROVE ResponseInv(r)'
      <3>1. Send(r, 200) /\ shortened[r] = TRUE /\ UNCHANGED shortened
        BY <1>15, <1>a, <2>2 DEF EvbStage
      <3>2. 200 \in Statuses
        BY DEF Statuses
      <3>3. responses'[r] = One(200)
        BY <2>1, <3>1, <3>2, Responses
      <3> QED BY <3>1, <3>2, <3>3 DEF ResponseInv
    <2>3. ASSUME value[r] = "empty" PROVE ResponseInv(r)'
      <3>1. Send(r, 400)
        BY <1>15, <2>3 DEF EvbStage
      <3>2. 400 \in Statuses \ {200}
        BY DEF Statuses
      <3> QED BY <2>1, <3>1, <3>2, <1>c
    <2>4. ASSUME value[r] = "error" PROVE ResponseInv(r)'
      <3>1. Send(r, 500)
        BY <1>15, <2>4 DEF EvbStage
      <3>2. 500 \in Statuses \ {200}
        BY DEF Statuses
      <3> QED BY <2>1, <3>1, <3>2, <1>c
    <2>5. ResponseInv(r)'
      BY <2>1, <2>2, <2>3, <2>4
    <2>6. Rest'
      BY <1>15, <1>a DEF TypeOK, EvbStage
    <2> QED BY <2>5, <2>6 DEF RequestInv
  <1>16. CASE requestComplete(r)
    <2>1. Rest'
      BY <1>16, <1>a, <1>d DEF TypeOK, requestComplete, Delete, Verdicts
    <2> QED BY <1>16, <1>b, <2>1 DEF RequestInv, requestComplete
  <1>17. CASE onError(r)
    <2>1. Rest'
      BY <1>17, <1>a DEF TypeOK, onError, ClientFails, Fails, Delete, Verdicts
    <2> QED BY <1>17, <1>b, <2>1 DEF RequestInv, onError
  <1>18. CASE onErrorThrows(r)
    <2>1. Rest'
      BY <1>18, <1>a DEF TypeOK, onErrorThrows, ClientFails, Fails
    <2> QED BY <1>18, <1>b, <2>1 DEF RequestInv, onErrorThrows
  <1> QED
    BY <1>1, <1>2, <1>3, <1>4, <1>5, <1>6, <1>7, <1>8, <1>9, <1>10, <1>11, <1>12,
       <1>13, <1>14, <1>15, <1>16, <1>17, <1>18
       DEF Step, Throws, Connects, CaptchaAnswers, ChainRuns

(* Why the server is no longer up.                                          *)
LEMMA StepServer ==
  ASSUME TypeOK, NEW r \in Requests, RequestInv(r), Step(r)
  PROVE  /\ server = "up"
         /\ server' = "undefined" => obj'[r] = "deleted" /\ fault'[r] \in {"late", "connect"}
         /\ server' = "terminated" =>
              obj'[r] = "live" /\ fault'[r] \in ThrownKinds \cup {"late"}
  <1> USE DEF handler, captcha, history, TypeOK
  <1>1. ASSUME CaptchaCallbackDangles(r) \/ ChainDangles(r)
        PROVE  /\ server = "up" /\ server' = "undefined"
               /\ obj'[r] = "deleted" /\ fault'[r] \in {"late", "connect"}
    BY <1>1 DEF CaptchaCallbackDangles, ChainDangles, Undefined, RequestInv,
                DeletedInv, Stages
  <1>2. ASSUME Throws(r)
        PROVE  /\ server = "up" /\ server' = "terminated"
               /\ obj'[r] = "live" /\ fault'[r] \in ThrownKinds \cup {"late"}
    BY <1>2, ThrowsFacts DEF EndOfIngress
  <1>3. ASSUME onErrorThrows(r)
        PROVE  /\ server = "up" /\ server' = "terminated"
               /\ obj'[r] = "live" /\ fault'[r] \in ThrownKinds \cup {"late"}
    BY <1>3 DEF onErrorThrows, ClientFails, Fails, RequestInv, UnreadInv
  <1>4. \/ server = "up" /\ server' = "up"
        \/ CaptchaCallbackDangles(r) \/ ChainDangles(r)
        \/ Throws(r) \/ onErrorThrows(r)
    BY DEF Step, Throws, Connects, CaptchaAnswers, ChainRuns, Create, RateLimited, onRequest,
           onBody, onEOMBadRequest, onEOM, EndOfIngress, connectSuccess, connectError,
           on_captcha_service_EOM, on_captcha_service_error, CpuStage, do_shorten_url,
           EvbStage, requestComplete, onError, ClientFails
  <1> QED BY <1>1, <1>2, <1>3, <1>4

LEMMA NextInv == HandlerInv /\ [Next]_vars => HandlerInv'
  <1> SUFFICES ASSUME HandlerInv, [Next]_vars PROVE HandlerInv'
    OBVIOUS
  <1>1. ASSUME NEW r \in Requests, Step(r) PROVE HandlerInv'
    <2>1. TypeOK /\ RequestInv(r)
      BY DEF HandlerInv
    <2>2. TypeOK'
      BY <1>1, <2>1, StepType
    <2>3. ASSUME NEW q \in Requests PROVE RequestInv(q)'
      <3>1. CASE q = r
        BY <1>1, <2>1, <3>1, StepRequest
      <3>2. CASE q # r
        <4>1. Untouched(q)
          BY <1>1, <2>1, <3>2, StepOthers
        <4> QED BY <4>1, UntouchedKeepsInv DEF HandlerInv
      <3> QED BY <3>1, <3>2
    <2>4. NoUseAfterFree' /\ NothingThrown'
      BY <1>1, <2>1, StepServer DEF NoUseAfterFree, NothingThrown, ThrownKinds
    <2> QED BY <2>2, <2>3, <2>4 DEF HandlerInv
  <1>2. CASE UNCHANGED vars
    <2>1. TypeOK'
      BY <1>2 DEF HandlerInv, TypeOK, vars, handler, captcha, history
    <2>2. ASSUME NEW q \in Requests PROVE RequestInv(q)'
      <3>1. Untouched(q)
        BY <1>2 DEF Untouched, vars, handler, captcha, history
      <3> QED BY <3>1, UntouchedKeepsInv DEF HandlerInv
    <2>3. NoUseAfterFree' /\ NothingThrown'
      BY <1>2 DEF HandlerInv, NoUseAfterFree, NothingThrown, vars, handler, captcha,
                  history
    <2> QED BY <2>1, <2>2, <2>3 DEF HandlerInv
  <1> QED BY <1>1, <1>2 DEF Next

-----------------------------------------------------------------------------
(* The inductive invariant behind the theorems that follow.                 *)
THEOREM HandlerInvariant == Spec => []HandlerInv
  BY InitInv, NextInv, PTL DEF Spec

(* Every variable of every request has its type; in particular the chain    *)
(* carries a slug, an empty string or an error when the answer is made, so  *)
(* that no other status than those listed is ever sent.                     *)
THEOREM TypeCorrect == Spec => []TypeOK
  <1>1. HandlerInv => TypeOK
    BY DEF HandlerInv
  <1> QED BY <1>1, HandlerInvariant, PTL

(* A client gets at most one response, for any number of requests and any   *)
(* interleaving of callbacks, executors and faults.                         *)
THEOREM OneResponse == Spec => []AtMostOneResponse
  <1>1. ASSUME HandlerInv PROVE AtMostOneResponse
    <2>1. \A status \in Statuses : Len(One(status)) = 1
      BY DEF One
    <2>2. Len(Silence) = 0
      BY DEF Silence
    <2>3. ASSUME NEW r \in Requests PROVE Len(responses[r]) <= 1
      <3>1. Len(responses[r]) \in {0, 1}
        BY <1>1, <2>1, <2>2 DEF HandlerInv, RequestInv, ResponseInv
      <3>2. \A n \in {0, 1} : n <= 1
        OBVIOUS
      <3> QED BY <3>1, <3>2
    <2> QED BY <2>3 DEF AtMostOneResponse
  <1> QED BY <1>1, HandlerInvariant, PTL

(* do_shorten_url runs, and a 200 is sent, only for a request the captcha   *)
(* service has accepted, whatever fails and in whatever order.              *)
THEOREM CaptchaComesFirst == Spec => []NoShorteningWithoutCaptcha
  <1>1. ASSUME HandlerInv PROVE NoShorteningWithoutCaptcha
    BY <1>1, Zenon DEF HandlerInv, TypeOK, RequestInv, ResponseInv, ValueInv, One,
                NoShorteningWithoutCaptcha
  <1> QED BY <1>1, HandlerInvariant, PTL

(* A deleted handler is used only after a failed connect to the captcha     *)
(* service, or the failure of a client whose request was read.              *)
THEOREM UseAfterFreeTakesFault == Spec => []NoUseAfterFree
  <1>1. HandlerInv => NoUseAfterFree
    BY DEF HandlerInv
  <1> QED BY <1>1, HandlerInvariant, PTL

(* An exception leaves a noexcept callback only for a body that is no JSON  *)
(* or has an array or an object for a field, an unresolved name, a failed   *)
(* TLS set-up, or the failure of a client whose request was read.           *)
THEOREM ThrowingTakesFault == Spec => []NothingThrown
  <1>1. HandlerInv => NothingThrown
    BY DEF HandlerInv
  <1> QED BY <1>1, HandlerInvariant, PTL
=============================================================================
