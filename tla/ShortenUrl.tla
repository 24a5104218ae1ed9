------------------------------ MODULE ShortenUrl ------------------------------
(***************************************************************************)
(* MakeUrlRequestHandler::do_shorten_url, run by many requests at once on   *)
(* the threads of the global CPU executor, over the one RocksDB database of *)
(* ShortenedUrlsDatabase, which UrlRedirectHandler reads.                   *)
(*                                                                         *)
(* Each call of the database is one step; nothing else is shared.  What     *)
(* generate_slug returns for a URL and a try is given by Candidates: a set, *)
(* because past the end of the hash it depends on the memory read there     *)
(* (GenerateSlug.tla).  RocksDB is external: Put is visible to every later  *)
(* Get and survives the end of the process, but as WriteOptions() does not  *)
(* ask for a sync, a power loss takes back the writes after the last flush. *)
(***************************************************************************)
EXTENDS Integers

CONSTANTS
  Requests,       \* requests being served; an answered one is used again
  LongUrls,
  Slugs,
  None,           \* no URL and no slug: the empty string
  OutOfHashes,    \* generate_slug returned false
  MaxTries,       \* max_tries: 100 in the code
  Candidates,     \* Candidates[u][n]: what generate_slug(u, n) may return
  CollidingOverlap, \* may requests whose URLs share a candidate run at once?
  PowerMayFail    \* may the machine lose power?

ASSUME ShortenUrlAssumption ==
  /\ None \notin LongUrls \cup Slugs
  /\ OutOfHashes \notin Slugs
  /\ MaxTries \in Nat /\ MaxTries >= 2
  /\ Candidates \in
       [LongUrls -> [2..MaxTries -> (SUBSET (Slugs \cup {OutOfHashes})) \ {{}}]]
  /\ CollidingOverlap \in BOOLEAN
  /\ PowerMayFail \in BOOLEAN

(* The slugs URL u may end up with.                                         *)
SlugsOf(u) == (UNION {Candidates[u][n] : n \in 2..MaxTries}) \ {OutOfHashes}

Colliding(u, v) == u # v /\ SlugsOf(u) \cap SlugsOf(v) # {}

(* The last try either finds no hash left or a slug no other URL can have:  *)
(* so of every alphabet and slug_length with which 256 bits hold less than  *)
(* 100 slugs.                                                               *)
LastTryHarmless ==
  \A u, v \in LongUrls :
    u # v => (Candidates[u][MaxTries] \ {OutOfHashes}) \cap SlugsOf(v) = {}

(* generate_slug makes no two slugs of a URL and a try: so while no slug    *)
(* takes digits from the memory past the hash.                              *)
Repeatable ==
  \A u \in LongUrls, n \in 2..MaxTries :
    \A s, t \in Candidates[u][n] \ {OutOfHashes} : s = t

VARIABLES
  db,                   \* what Get returns for a slug: a URL or None
  durable,              \* what is left of db after a power loss
  pc,                   \* where each request is in do_shorten_url
  long_url,
  nth_try,
  generated_short_url,
  result,               \* what do_shorten_url returned: a slug or None
  told                  \* the pairs <<slug, url>> sent to clients (200, 301)

locals == <<long_url, nth_try, generated_short_url, result>>
vars == <<db, durable, pc, locals, told>>

Init ==
  /\ db = [s \in Slugs |-> None]
  /\ durable = db
  /\ pc = [r \in Requests |-> "idle"]
  /\ long_url = [r \in Requests |-> None]
  /\ nth_try = [r \in Requests |-> 1]
  /\ generated_short_url = [r \in Requests |-> None]
  /\ result = [r \in Requests |-> None]
  /\ told = {}

(* Request r is between the call and the return of do_shorten_url.          *)
Running(r) == pc[r] \in {"while", "get", "put"}

(* The environment's choice of when a request for u starts.                 *)
MayStart(u) ==
  CollidingOverlap
    \/ \A q \in Requests : Running(q) => ~Colliding(u, long_url[q])

(* The future's CPU stage calls do_shorten_url(u).                          *)
do_shorten_url(r, u) ==
  /\ pc[r] = "idle"
  /\ MayStart(u)
  /\ pc' = [pc EXCEPT ![r] = "while"]
  /\ long_url' = [long_url EXCEPT ![r] = u]
  /\ UNCHANGED <<db, durable, nth_try, generated_short_url, result, told>>

Return(r, s) ==
  /\ pc' = [pc EXCEPT ![r] = "returned"]
  /\ result' = [result EXCEPT ![r] = s]

(* The counter is not incremented: the same slug is tried over and over.    *)
GenerateSlugNeverCounts(r) ==
  /\ pc[r] = "while" /\ nth_try[r] < MaxTries
  /\ \E s \in Candidates[long_url[r]][nth_try[r] + 1] \ {OutOfHashes} :
       generated_short_url' = [generated_short_url EXCEPT ![r] = s]
  /\ pc' = [pc EXCEPT ![r] = "get"]
  /\ UNCHANGED <<db, durable, long_url, nth_try, result, told>>

(* while (nth_try++ < max_tries), and a slug is generated.                  *)
GenerateSlug(r) ==
  /\ pc[r] = "while"
  /\ nth_try[r] < MaxTries
  /\ nth_try' = [nth_try EXCEPT ![r] = @ + 1]
  /\ \E s \in Candidates[long_url[r]][nth_try'[r]] \ {OutOfHashes} :
       generated_short_url' = [generated_short_url EXCEPT ![r] = s]
  /\ pc' = [pc EXCEPT ![r] = "get"]
  /\ UNCHANGED <<db, durable, long_url, result, told>>

(* Out of hashes ends the loop instead of the call.                         *)
RanOutOfHashesBreaks(r) ==
  /\ pc[r] = "while" /\ nth_try[r] < MaxTries
  /\ OutOfHashes \in Candidates[long_url[r]][nth_try[r] + 1]
  /\ nth_try' = [nth_try EXCEPT ![r] = @ + 1]
  /\ pc' = [pc EXCEPT ![r] = "put"]
  /\ UNCHANGED <<db, durable, long_url, generated_short_url, result, told>>

(* The same, and there is no hash left: return {}.                          *)
RanOutOfHashes(r) ==
  /\ pc[r] = "while"
  /\ nth_try[r] < MaxTries
  /\ OutOfHashes \in Candidates[long_url[r]][nth_try[r] + 1]
  /\ nth_try' = [nth_try EXCEPT ![r] = @ + 1]
  /\ Return(r, None)
  /\ UNCHANGED <<db, durable, long_url, generated_short_url, told>>

(* The loop ends by its condition: on to the put with the last slug.        *)
TriesExhausted(r) ==
  /\ pc[r] = "while"
  /\ nth_try[r] >= MaxTries
  /\ nth_try' = [nth_try EXCEPT ![r] = @ + 1]
  /\ pc' = [pc EXCEPT ![r] = "put"]
  /\ UNCHANGED <<db, durable, long_url, generated_short_url, result, told>>

(* db_->get finds nothing, or an empty string: break.                       *)
GetNotFound(r) ==
  /\ pc[r] = "get"
  /\ db[generated_short_url[r]] = None
  /\ pc' = [pc EXCEPT ![r] = "put"]
  /\ UNCHANGED <<db, durable, locals, told>>

(* The value found is returned for the key.                                 *)
GetSameReturnsUrl(r) ==
  /\ pc[r] = "get" /\ db[generated_short_url[r]] = long_url[r]
  /\ Return(r, long_url[r])
  /\ UNCHANGED <<db, durable, long_url, nth_try, generated_short_url, told>>

(* The URL's own entry counts as a collision.                               *)
GetSameGoesOn(r) ==
  /\ pc[r] = "get" /\ db[generated_short_url[r]] = long_url[r]
  /\ pc' = [pc EXCEPT ![r] = "while"]
  /\ UNCHANGED <<db, durable, locals, told>>

(* db_->get finds this very URL: return the slug.                           *)
GetSame(r) ==
  /\ pc[r] = "get"
  /\ db[generated_short_url[r]] = long_url[r]
  /\ Return(r, generated_short_url[r])
  /\ UNCHANGED <<db, durable, long_url, nth_try, generated_short_url, told>>

(* The test of the value found is dropped: any entry ends the loop.         *)
GetCollisionBreaks(r) ==
  /\ pc[r] = "get"
  /\ db[generated_short_url[r]] \notin {None, long_url[r]}
  /\ pc' = [pc EXCEPT ![r] = "put"]
  /\ UNCHANGED <<db, durable, locals, told>>

(* db_->get finds another URL: a warning, and the loop goes on.             *)
GetCollision(r) ==
  /\ pc[r] = "get"
  /\ db[generated_short_url[r]] \notin {None, long_url[r]}
  /\ pc' = [pc EXCEPT ![r] = "while"]
  /\ UNCHANGED <<db, durable, locals, told>>

(* db_->get fails otherwise than by NotFound: return {}.                    *)
GetFails(r) ==
  /\ pc[r] = "get"
  /\ Return(r, None)
  /\ UNCHANGED <<db, durable, long_url, nth_try, generated_short_url, told>>

Stored(r) == [db EXCEPT ![generated_short_url[r]] = long_url[r]]

PutOk(r) ==
  /\ pc[r] = "put"
  /\ db' = Stored(r)
  /\ Return(r, generated_short_url[r])
  /\ UNCHANGED <<durable, long_url, nth_try, generated_short_url, told>>

(* The error of the put is ignored: the slug is returned all the same.      *)
PutFailsKeepsSlug(r) ==
  /\ pc[r] = "put"
  /\ db' \in {db, Stored(r)}
  /\ Return(r, generated_short_url[r])
  /\ UNCHANGED <<durable, long_url, nth_try, generated_short_url, told>>

(* A put that failed is undone by a Delete of its key.                      *)
PutFailsTakesBack(r) ==
  /\ pc[r] = "put"
  /\ db' = [db EXCEPT ![generated_short_url[r]] = None]
  /\ Return(r, None)
  /\ UNCHANGED <<durable, long_url, nth_try, generated_short_url, told>>

(* db_->put reports an error: return {}, the write done or not.             *)
PutFails(r) ==
  /\ pc[r] = "put"
  /\ db' \in {db, Stored(r)}
  /\ Return(r, None)
  /\ UNCHANGED <<durable, long_url, nth_try, generated_short_url, told>>

(* The event loop's stage answers: 200 with the slug, 400 without one.      *)
Respond(r) ==
  /\ pc[r] = "returned"
  /\ told' = IF result[r] = None THEN told
             ELSE told \cup {<<result[r], long_url[r]>>}
  /\ pc' = [pc EXCEPT ![r] = "idle"]
  /\ long_url' = [long_url EXCEPT ![r] = None]
  /\ nth_try' = [nth_try EXCEPT ![r] = 1]
  /\ generated_short_url' = [generated_short_url EXCEPT ![r] = None]
  /\ result' = [result EXCEPT ![r] = None]
  /\ UNCHANGED <<db, durable>>

(* UrlRedirectHandler::onRequest: get_fast finds the slug, 301.  The client *)
(* counts as told from the read on, which is sooner than it can be.         *)
Redirect(s) ==
  /\ db[s] # None
  /\ told' = told \cup {<<s, db[s]>>}
  /\ UNCHANGED <<db, durable, pc, locals>>

(* RocksDB's log reaches the disk.                                          *)
Flush ==
  /\ PowerMayFail
  /\ durable' = db
  /\ UNCHANGED <<db, pc, locals, told>>

ForgetRequests ==
  /\ pc' = [r \in Requests |-> "idle"]
  /\ long_url' = [r \in Requests |-> None]
  /\ nth_try' = [r \in Requests |-> 1]
  /\ generated_short_url' = [r \in Requests |-> None]
  /\ result' = [r \in Requests |-> None]

(* The process ends and starts again; RocksDB replays its log.              *)
Restart ==
  /\ ForgetRequests
  /\ UNCHANGED <<db, durable, told>>

(* The same after a power loss: what was not flushed is gone.               *)
PowerLoss ==
  /\ PowerMayFail
  /\ ForgetRequests
  /\ db' = durable
  /\ UNCHANGED <<durable, told>>

Worker(r) ==
  \/ GenerateSlug(r) \/ RanOutOfHashes(r) \/ TriesExhausted(r)
  \/ GetNotFound(r) \/ GetSame(r) \/ GetCollision(r) \/ GetFails(r)
  \/ PutOk(r) \/ PutFails(r)

Next ==
  \/ \E r \in Requests :
       \/ \E u \in LongUrls : do_shorten_url(r, u)
       \/ Worker(r)
       \/ Respond(r)
  \/ \E s \in Slugs : Redirect(s)
  \/ Flush
  \/ Restart
  \/ PowerLoss

(* The CPU executor's threads do not stop in the middle of a task, and the  *)
(* event loop runs what is scheduled on it.                                 *)
Fairness == \A r \in Requests : WF_vars(Worker(r)) /\ WF_vars(Respond(r))

Spec == Init /\ [][Next]_vars
FairSpec == Spec /\ Fairness

-----------------------------------------------------------------------------
TypeOK ==
  /\ db \in [Slugs -> LongUrls \cup {None}]
  /\ durable \in [Slugs -> LongUrls \cup {None}]
  /\ pc \in [Requests -> {"idle", "while", "get", "put", "returned"}]
  /\ long_url \in [Requests -> LongUrls \cup {None}]
  /\ nth_try \in [Requests -> 1..MaxTries + 1]
  /\ generated_short_url \in [Requests -> Slugs \cup {None}]
  /\ result \in [Requests -> Slugs \cup {None}]
  /\ told \in SUBSET (Slugs \X LongUrls)

(* The slug a put is about to write is one generate_slug made for that URL, *)
(* and every entry of the database, on disk too, is under a slug of its own *)
(* URL, whatever the interleaving, the failures and the crashes.  The       *)
(* fall-through after the last try included: it puts a real slug.           *)
Provenance ==
  /\ \A r \in Requests : pc[r] \in {"get", "put"} =>
       generated_short_url[r] \in SlugsOf(long_url[r])
  /\ \A s \in Slugs : db[s] # None => s \in SlugsOf(db[s])
  /\ \A s \in Slugs : durable[s] # None => s \in SlugsOf(durable[s])

(* "keep generating slugs until it doesn't collide with previous entries"   *)
(* (make_url_request_handler.cc:215): when do_shorten_url gets to its put,  *)
(* the slug is free or already leads to this URL.                           *)
ChosenSlugIsFree ==
  \A r \in Requests :
    pc[r] = "put" => db[generated_short_url[r]] \in {None, long_url[r]}

(* What a client was told in a 200 or a 301 stays true: the slug leads to   *)
(* that URL for ever after, across restarts of the process.                 *)
ToldStaysTrue == \A p \in told : db[p[1]] = p[2]

(* A slug whose entry was once on the disk is never free again: whatever    *)
(* happens (overlapping requests, exhausted tries, failed puts, restarts    *)
(* and power losses in any order), its link leads somewhere for ever after, *)
(* and a power loss takes back no more than the puts since the last flush.  *)
FlushedLinksStay ==
  [][\A s \in Slugs :
       durable[s] # None => db'[s] # None /\ durable'[s] # None]_vars

(* Shortening a URL again, at the same time or later, gives the slug it     *)
(* already has: get stops at the entry the first request made.              *)
OneSlugPerUrl ==
  \A s, t \in Slugs : db[s] # None /\ db[s] = db[t] => s = t

(* do_shorten_url implements the abstract map of UrlMap.tla: no step of any *)
(* request, crash or power loss rebinds a slug, and no client is told of a  *)
(* binding that is not there.                                               *)
Abstract == INSTANCE UrlMap WITH map <- db, MayForget <- PowerMayFail
ImplementsUrlMap == Abstract!Spec

(* "don't hang forever" (make_url_request_handler.cc:217): every call of    *)
(* do_shorten_url ends and is answered, unless the process ends first.      *)
Returns == \A r \in Requests : Running(r) ~> pc[r] = "idle"
=============================================================================
