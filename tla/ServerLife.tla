------------------------------ MODULE ServerLife ------------------------------
(***************************************************************************)
(* What the IO threads of the server share, from onServerStart to           *)
(* onServerStop: the counters of AntiAbuseProtection, the cache and the     *)
(* timer of MyRequestHandlerFactory; and the handlers whose work leaves     *)
(* their thread: UrlRedirectHandler, and StaticHandler as far as it uses    *)
(* the cache (the rest is StaticHandler.tla).                               *)
(*                                                                         *)
(* There is one object of each factory, and no lock.  External: proxygen    *)
(* calls its onServerStart on every IO thread, in any order and at once,    *)
(* and then listens; after a signal every thread drops its connections      *)
(* (onError) and then calls onServerStop, and serves requests until then.   *)
(* The factory added last sees a request first.  An event loop does one     *)
(* thing at a time and runs what is posted to it even after onServerStop.   *)
(*                                                                         *)
(* A change of shared memory takes two steps, its begin and its end (see    *)
(* doing), a read of it one: two threads race when one of them reads or     *)
(* changes what the other is changing.  What follows a misuse of memory is  *)
(* left open.                                                               *)
(***************************************************************************)
EXTENDS Naturals

CONSTANTS
  Threads,    \* the IO threads there can be
  Requests,   \* GET requests for a slug
  None

ASSUME ServerLifeAssumption == None \notin Threads

(* What was misused: a deleted handler; deleted counters; memory another    *)
(* thread was changing; a cache that is gone; another thread's timer.       *)
Misuses == {"handler", "counters", "race", "cache", "timer"}

VARIABLES
  thread,     \* "off" (beyond --threads), "new", "up" or "stopped"
  signalled,  \* SIGINT or SIGTERM was received
  ip_access_count_svc_, static_file_cache_, timer_, \* the thread that made it
  services,   \* the IPAccessCountServices that exist
  doing,      \* what the event loop of each thread is in the middle of
  given,      \* whose timer a MakeUrlRequestHandler of each thread has, or None
  transfer,   \* a StaticHandler of each thread: "none", "streaming"
  cache_,     \* its weak pointer: the cache it was made with
  handler,    \* each UrlRedirectHandler: "none", "live" or "deleted"
  on,         \* its thread
  lookup,     \* where get_fast is: "none", "queued", "writing", "evb", "done"
  response,   \* its status, 301 or 404; 0 before
  left,       \* requests whose client failed during the lookup (history)
  server      \* "up", or what was misused

shared == <<ip_access_count_svc_, static_file_cache_, timer_, services>>
threads == <<thread, signalled, doing>>
static == <<given, transfer, cache_>>
redirect == <<handler, on, lookup, response, left>>
vars == <<threads, shared, static, redirect, server>>

Init ==
  /\ thread \in {f \in [Threads -> {"off", "new"}] : \E t \in Threads : f[t] = "new"}
  /\ signalled = FALSE
  /\ ip_access_count_svc_ = None
  /\ static_file_cache_ = None
  /\ timer_ = None
  /\ services = {}
  /\ doing = [t \in Threads |-> "idle"]
  /\ given = [t \in Threads |-> None]
  /\ transfer = [t \in Threads |-> "none"]
  /\ cache_ = [t \in Threads |-> None]
  /\ handler = [r \in Requests |-> "none"]
  /\ on = [r \in Requests |-> None]
  /\ lookup = [r \in Requests |-> "none"]
  /\ response = [r \in Requests |-> 0]
  /\ left = {}
  /\ server = "up"

(* The places in the code where a thread is changing the pointers of the    *)
(* factories, the counters, the cache.                                      *)
Pointers == {"starting", "stopping"}
Counters == {"logging"}
Cache == {"appending"}
Doings == Pointers \cup Counters \cup Cache \cup {"idle", "made", "routed"}

Misuse(what) == server' = what /\ UNCHANGED <<threads, shared, static, redirect>>

(* Another thread is changing this memory.                                  *)
Contended(t, memory) == \E u \in Threads \ {t} : doing[u] \in memory

Goes(t, where) == doing' = [doing EXCEPT ![t] = where]

(* The thread's event loop is free to run something.                        *)
Free(t) == server = "up" /\ doing[t] = "idle"

Listening == server = "up" /\ \A t \in Threads : thread[t] # "new"
Serves(t) == Listening /\ thread[t] = "up" /\ Free(t)

(* Thread t begins to change the pointers: onServerStart and onServerStop   *)
(* of both factories.                                                       *)
ChangePointers(t, where) ==
  IF Contended(t, Pointers) THEN Misuse("race")
  ELSE Goes(t, where) /\ UNCHANGED <<thread, signalled, shared, static, redirect, server>>

Start(t) == Free(t) /\ thread[t] = "new" /\ ChangePointers(t, "starting")

(* onServerStart: what was there before is leaked (the counters) or         *)
(* destroyed (the cache and the timer).                                     *)
onServerStart(t) ==
  /\ server = "up" /\ doing[t] = "starting"
  /\ Goes(t, "idle")
  /\ thread' = [thread EXCEPT ![t] = "up"]
  /\ ip_access_count_svc_' = t /\ services' = services \cup {t}
  /\ static_file_cache_' = t
  /\ timer_' = t
  /\ UNCHANGED <<signalled, static, redirect, server>>

Signal ==
  /\ Listening /\ ~signalled
  /\ signalled' = TRUE
  /\ UNCHANGED <<thread, doing, shared, static, redirect, server>>

Dropped(t) ==
  /\ given[t] = None
  /\ \A r \in Requests : on[r] = t => handler[r] = "deleted"

Stop(t) ==
  /\ Serves(t) /\ signalled /\ Dropped(t)
  /\ ChangePointers(t, "stopping")

(* The counters are not deleted.                                            *)
onServerStopLeaks(t) ==
  /\ server = "up" /\ doing[t] = "stopping"
  /\ Goes(t, "idle")
  /\ thread' = [thread EXCEPT ![t] = "stopped"]
  /\ static_file_cache_' = None /\ timer_' = None
  /\ UNCHANGED <<signalled, ip_access_count_svc_, services, static, redirect, server>>

(* onServerStop deletes the counters, under the threads that use them too.  *)
(* The pointer to them is kept, so that the CHECK of it never fails: a      *)
(* second thread deletes them again.                                        *)
onServerStop(t) ==
  /\ server = "up" /\ doing[t] = "stopping"
  /\ IF ip_access_count_svc_ \in services /\ ~Contended(t, Counters)
     THEN /\ Goes(t, "idle")
          /\ thread' = [thread EXCEPT ![t] = "stopped"]
          /\ services' = services \ {ip_access_count_svc_}
          /\ static_file_cache_' = None /\ timer_' = None
          /\ UNCHANGED <<signalled, ip_access_count_svc_, static, redirect, server>>
     ELSE Misuse("counters")

-----------------------------------------------------------------------------
(* A POST to /api/v1/create: MyRequestHandlerFactory makes its handler and  *)
(* gives it the timer, which belongs to the loop of the thread it is of.    *)
CreateMakeUrlHandler(t) ==
  /\ Serves(t) /\ given[t] = None
  /\ IF Contended(t, Pointers) THEN Misuse("race")
     ELSE /\ Goes(t, "made")
          /\ given' = [given EXCEPT ![t] = timer_]
          /\ UNCHANGED <<thread, signalled, shared, transfer, cache_, redirect, server>>

(* Any other request that AntiAbuseProtection protects: a NotFoundHandler.  *)
MakeNotFoundHandler(t) ==
  /\ Serves(t) /\ given[t] = None
  /\ Goes(t, "made")
  /\ UNCHANGED <<thread, signalled, shared, static, redirect, server>>

(* AntiAbuseProtection::onRequest then logs the access.                     *)
LogAccess(t) ==
  /\ server = "up" /\ doing[t] = "made"
  /\ CASE ip_access_count_svc_ \notin services -> Misuse("counters")
       [] ip_access_count_svc_ \in services /\ Contended(t, Counters) -> Misuse("race")
       [] OTHER -> /\ Goes(t, "logging")
                   /\ UNCHANGED <<thread, signalled, shared, static, redirect, server>>

(* It lets the request pass, or wraps the handler, which is then deleted: a *)
(* 429, or a header that is not trusted, before anything is logged.         *)
Judge(t) ==
  /\ server = "up" /\ doing[t] \in {"made", "logging"}
  /\ Goes(t, "idle")
  /\ \/ doing[t] = "logging" /\ UNCHANGED given
     \/ given' = [given EXCEPT ![t] = None]
  /\ UNCHANGED <<thread, signalled, shared, transfer, cache_, redirect, server>>

(* The connection to the captcha service uses the timer.                    *)
UseTimer(t) ==
  /\ Free(t) /\ given[t] # None
  /\ IF given[t] = t /\ timer_ = t
     THEN /\ given' = [given EXCEPT ![t] = None]
          /\ UNCHANGED <<threads, shared, transfer, cache_, redirect, server>>
     ELSE Misuse("timer")

(* The request is over before there is a connection.                        *)
DropMakeUrlHandler(t) ==
  /\ Free(t) /\ given[t] # None
  /\ given' = [given EXCEPT ![t] = None]
  /\ UNCHANGED <<threads, shared, transfer, cache_, redirect, server>>

-----------------------------------------------------------------------------
(* A GET of a static file: the handler gets a weak pointer to the cache.    *)
RouteStatic(t) ==
  /\ Serves(t) /\ transfer[t] = "none"
  /\ IF Contended(t, Pointers) THEN Misuse("race")
     ELSE /\ Goes(t, "routed")
          /\ cache_' = [cache_ EXCEPT ![t] = static_file_cache_]
          /\ UNCHANGED <<thread, signalled, shared, given, transfer, redirect, server>>

(* cache_.lock(), whose result is used without a test, and then the map of  *)
(* the cache, which every thread has the same of.                           *)
UseCache(t, Use) ==
  CASE cache_[t] # None /\ Contended(t, Cache) -> Misuse("race")
    [] cache_[t] # static_file_cache_ \/ cache_[t] = None -> Misuse("cache")
    [] OTHER -> Use

(* StaticHandler::onRequest: the path is bad, a 400.                        *)
BadPath(t) ==
  /\ server = "up" /\ doing[t] = "routed"
  /\ Goes(t, "idle")
  /\ UNCHANGED <<thread, signalled, shared, static, redirect, server>>

(* It looks for the file in the cache: found, or not there at all, and the  *)
(* request is over; or read_file will bring the chunks.                     *)
LookInCache(t) ==
  /\ server = "up" /\ doing[t] = "routed"
  /\ UseCache(t,
       /\ Goes(t, "idle")
       /\ \E next \in {"none", "streaming"} : transfer' = [transfer EXCEPT ![t] = next]
       /\ UNCHANGED <<thread, signalled, shared, given, cache_, redirect, server>>)

(* A chunk arrives on the event loop and is appended to the file's entry.   *)
AppendChunk(t) ==
  /\ Free(t) /\ transfer[t] = "streaming"
  /\ UseCache(t,
       /\ Goes(t, "appending")
       /\ UNCHANGED <<thread, signalled, shared, static, redirect, server>>)

append_data(t) ==
  /\ server = "up" /\ doing[t] = "appending"
  /\ Goes(t, "idle")
  /\ \E next \in {"none", "streaming"} : transfer' = [transfer EXCEPT ![t] = next]
  /\ UNCHANGED <<thread, signalled, shared, given, cache_, redirect, server>>

-----------------------------------------------------------------------------
Looking(r) == lookup[r] \in {"queued", "writing", "evb"}

(* A handler for a new request, or for an earlier one that is over.         *)
NewHandler(r, t) ==
  /\ Serves(t)
  /\ handler[r] # "live" /\ ~Looking(r)
  /\ handler' = [handler EXCEPT ![r] = "live"]
  /\ on' = [on EXCEPT ![r] = t]
  /\ lookup' = [lookup EXCEPT ![r] = "queued"]
  /\ left' = left \ {r}
  /\ UNCHANGED <<threads, shared, static, server>>

(* UrlRedirectHandler answers 404 before it looks.                          *)
onRequestAnswersFirst(r, t) ==
  NewHandler(r, t) /\ response' = [response EXCEPT ![r] = 404]

(* UrlRedirectHandler::onRequest; its 405 and 400 are dead, because the     *)
(* router makes it for a GET and a slug that is not empty.                  *)
onRequest(r, t) == NewHandler(r, t) /\ response' = [response EXCEPT ![r] = 0]

(* The stage on the CPU executor: get_fast reads short_url_ and writes to   *)
(* buf_, both members of the handler.                                       *)
get_fast(r) ==
  /\ server = "up" /\ handler[r] = "live"
  /\ lookup[r] \in {"queued", "writing"}
  /\ lookup' = [lookup EXCEPT ![r] = IF @ = "queued" THEN "writing" ELSE "evb"]
  /\ UNCHANGED <<threads, shared, static, handler, on, response, left, server>>

LookupReturns(r) ==
  /\ handler[r] = "live" /\ Free(on[r])
  /\ lookup[r] = "evb"
  /\ lookup' = [lookup EXCEPT ![r] = "done"]
  /\ UNCHANGED <<threads, shared, static, handler, on, left, server>>

(* A slug that is not found is not answered.                                *)
RespondFound(r) ==
  LookupReturns(r) /\ response' \in {response, [response EXCEPT ![r] = 301]}

(* The stage on the event loop: 301 with buf_, or 404.                      *)
Respond(r) ==
  LookupReturns(r) /\ \E status \in {301, 404} : response' = [response EXCEPT ![r] = status]

(* A stage runs when the handler is gone: each of them uses `this'.         *)
LookupDangles(r) ==
  /\ server = "up" /\ handler[r] = "deleted" /\ Looking(r)
  /\ Misuse("handler")

Delete(r) ==
  /\ handler[r] = "live" /\ Free(on[r])
  /\ handler' = [handler EXCEPT ![r] = "deleted"]
  /\ UNCHANGED <<threads, shared, static, on, lookup, response, server>>

requestComplete(r) == response[r] # 0 /\ Delete(r) /\ UNCHANGED left

(* The client fails, or its connection is dropped.                          *)
onError(r) == Delete(r) /\ left' = IF Looking(r) THEN left \cup {r} ELSE left

-----------------------------------------------------------------------------
Lookup(r) == get_fast(r) \/ Respond(r) \/ LookupDangles(r)

(* The loop of t goes on with what it is in the middle of.                  *)
GoesOn(t) ==
  \/ onServerStart(t) \/ onServerStop(t)
  \/ LogAccess(t) \/ Judge(t)
  \/ BadPath(t) \/ LookInCache(t) \/ append_data(t)

Over == server # "up" \/ \A t \in Threads : thread[t] \in {"off", "stopped"}

Next ==
  \/ Signal
  \/ \E t \in Threads :
       \/ Start(t) \/ Stop(t)
       \/ CreateMakeUrlHandler(t) \/ UseTimer(t) \/ DropMakeUrlHandler(t)
       \/ MakeNotFoundHandler(t)
       \/ RouteStatic(t) \/ AppendChunk(t)
       \/ GoesOn(t)
       \/ \E r \in Requests : onRequest(r, t)
  \/ \E r \in Requests : Lookup(r) \/ requestComplete(r) \/ onError(r)
  \/ Over /\ UNCHANGED vars

(* Event loops and the executor run what they are given, and proxygen       *)
(* finishes answered requests; an event loop takes turns, so that what      *)
(* waits for it is not overtaken for ever.  No client is assumed to fail,   *)
(* and no signal to come.                                                   *)
Fairness ==
  /\ \A t \in Threads : WF_vars(GoesOn(t))
  /\ \A r \in Requests : SF_vars(Lookup(r)) /\ SF_vars(requestComplete(r))

Spec == Init /\ [][Next]_vars
FairSpec == Spec /\ Fairness

-----------------------------------------------------------------------------
TypeOK ==
  /\ thread \in [Threads -> {"off", "new", "up", "stopped"}]
  /\ signalled \in BOOLEAN
  /\ {ip_access_count_svc_, static_file_cache_, timer_} \subseteq Threads \cup {None}
  /\ services \subseteq Threads
  /\ doing \in [Threads -> Doings]
  /\ given \in [Threads -> Threads \cup {None}]
  /\ transfer \in [Threads -> {"none", "streaming"}]
  /\ cache_ \in [Threads -> Threads \cup {None}]
  /\ handler \in [Requests -> {"none", "live", "deleted"}]
  /\ on \in [Requests -> Threads \cup {None}]
  /\ lookup \in [Requests -> {"none", "queued", "writing", "evb", "done"}]
  /\ response \in [Requests -> {0, 301, 404}]
  /\ left \subseteq Requests
  /\ server \in Misuses \cup {"up"}

OneThread == \E t \in Threads : \A u \in Threads : thread[u] # "off" <=> u = t

(* Every misuse of memory the IO threads share has a cause of its own.      *)
(* With the one IO thread of the default the counters and the timer are     *)
(* there whenever a request, or onServerStop, uses them, and neither they   *)
(* nor the pointers nor the map of the cache are ever used by two at once,  *)
(* though no lock guards them.  The cache is there for every chunk of every *)
(* transfer up to the shutdown, when onServerStop destroys it under         *)
(* transfers still running.  And a redirect touches a deleted handler only  *)
(* if its client failed, or was dropped, while get_fast was under way.      *)
MisuseHasItsCause ==
  /\ server \in {"race", "counters", "timer"} => ~OneThread
  /\ server = "cache" => signalled
  /\ server = "handler" => \E r \in left : handler[r] = "deleted"

(* A server that has stopped without a misuse has deleted its counters, and *)
(* had one IO thread: with more, onServerStop deletes the last counters     *)
(* twice and the others never.                                              *)
CleanStop ==
  server = "up" /\ (\A t \in Threads : thread[t] \in {"off", "stopped"})
    => services = {} /\ OneThread

(* Every redirect is answered and its handler deleted, or its client left,  *)
(* or memory was misused.                                                   *)
EveryRedirectEnds ==
  \A r \in Requests :
    handler[r] = "live" ~>
      \/ server # "up"
      \/ handler[r] = "deleted" /\ (response[r] # 0 \/ r \in left)
=============================================================================
