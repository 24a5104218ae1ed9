# A TLA+ model of prv.ec, a URL shortener

The program is an HTTP server (C++, proxygen and folly, RocksDB) that shortens
URLs, redirects short ones, and serves a front end and static files. This
directory holds TLA+ modules for the parts that keep state or run concurrently,
TLC configurations that check them on small instances, and TLAPS proofs for
every value of the constants. Paths below are relative to the repository.

## 1. Inventory

| Component | State | Operations | What is hard |
|---|---|---|---|
| Slug generation (`url_shortener/url_shortening.cc`) | the four words of the URL's HighwayHash, consumed as digits | `generate_slug(long_url, nth_try)` | digits carried over word boundaries and retries; the bound on the word index; configured against built-in alphabet |
| Shortening (`make_url_request_handler.cc`, `do_shorten_url`) | loop counter and slug per request; the database | generate, get, compare, retry, put | get and put are not atomic and run on many threads; failing and half-done writes; the loop's fall-through |
| Database (`db.cc`) | RocksDB | `put`, `get`, `get_fast`, `open` | writes are not synced; restarts |
| Redirects (`url_shortener_handler.cc`) | a slug, a buffer, a chain of futures per handler | lookup on the CPU executor, 301 or 404 on the event loop, `delete this` | reads while others write; the client fails while `get_fast` writes to the handler's buffer |
| Life of a shortening request (`make_url_request_handler.{h,cc}`) | handler object, body, connection to the captcha service, promise, chain of futures | callbacks of proxygen, of the connector and of the captcha transaction; three stages on two executors; `delete this` | who may still use the handler when it deletes itself; exactly one response; exceptions in `noexcept` callbacks |
| Rate limiter (`ddos_protection.cc`) | a count per IP, time of the last access, time of the last recycle | `log_access`, `hits_per_minute`, `recycle`, the choice of the client's IP | integer seconds and minutes; wrap-around; a wall clock that is set back; trust in headers |
| Static files (`static_handler.cc`) | file, pause and schedule flags per handler; a shared cache | `onRequest`, `read_file` on the executor, callbacks on the event loop, pause, resume, completion | flags shared by two threads; lost wake-ups; deletion under a running task; partial cache entries |
| Front-end files (`frontend_handler.cc`) | a table filled before the server starts | `build_frontend_dir_cache`, `lookup`, 200 | index pages; files with the name of a slug |
| Server and routes (`web_server.cc`, `url_shortening.cc`) | factories, their cache, timer and counters | start-up, choice of the handler, start and stop per IO thread | two factories that each test the path; one factory object shared by all IO threads; shutdown under running transfers |
| Configuration (`app_config.cc`) | none after start-up | parsing of the environment and of YAML, CSV lists, keys | narrowing to a byte, empty list entries, settings one way of configuring tests and the other does not |
| MIME types (`mime_type/`) | two tables | lookup | branches that cannot match |
| Form of the front end (`frontend/src/app/ShortenUrlBox.tsx`) | fields, result, captcha token, flags | change, captcha, asynchronous submit, copy | Enter submits where the button is not rendered; answers out of order |
| HighwayHash (`third_party/`) | - | - | vendored, not modelled |

How they interact. For each request proxygen goes through the chain of factories
on an IO thread: `MyRequestHandlerFactory::onRequest` makes one handler object,
and `AntiAbuseProtection::onRequest` counts the access to a protected route and
either wraps the handler in a `RateLimitFilter`, which answers 429, or passes it
on. A `MakeUrlRequestHandler` reads the body,
asks the captcha service over a second connection on the same event loop, and
fulfils a promise; the future continues on the CPU executor, where
`do_shorten_url` uses the database, and comes back to the event loop to answer.
`UrlRedirectHandler` reads the same database. A `StaticHandler` reads its file
on the CPU executor and sends and caches it on the event loop.

What makes each part correct:

- slugs: retries of one URL are consecutive, non-overlapping blocks of its digits;
- shortening: a slug, once a client was told of it, leads to its URL for ever,
  and a URL has one slug;
- a request: one response, no shortening without a captcha, no use of a deleted
  handler, no client left waiting;
- rate limiter: a bound on what is admitted, no charge to other IPs, nobody
  locked out for ever;
- redirects: every one is answered, and a handler is gone only when nobody uses it;
- static files: a complete response is the whole file, no transfer stalls,
  nothing uses a deleted handler, the cache serves whole files;
- routes: links that were given out reach the redirect handler, no shortening
  gets around the rate limiter, no file outside of the root is served;
- configuration: a server that starts can make slugs and trusts the proxies listed;
- the factories: what they share is there as long as a thread uses it;
- the form: a captcha token is used once, the result shown is that of the last URL.

`PROJECT.json` lists the hazards, each at its line, with the properties aimed at it.

## 2. Modules

| Module | Models | Used by |
|---|---|---|
| `SlugStream` | reference definition: a hash as a digit stream, slugs as its blocks | `GenerateSlug`, `MC_ShortenUrl` |
| `GenerateSlug` | `generate_slug`, a step per loop iteration | `MC_GenerateSlug`, `GenerateSlugProofs` |
| `UrlMap` | abstract specification: a map whose bindings never change | `ShortenUrl` (refinement) |
| `ShortenUrl` | `do_shorten_url` by concurrent requests, redirects, restarts, power losses | `MC_ShortenUrl`, `ShortenUrlProofs` |
| `MakeUrlRequestHandler` | life of the handler of a shortening request | `MC_MakeUrlRequestHandler`, `MakeUrlRequestHandlerProofs` |
| `ServerLife` | factories and IO threads from start to stop, life of `UrlRedirectHandler`, use of the cache | `MC_ServerLife`, `ServerLifeProofs` |
| `AppConfig` | parsing and tests of the settings, as operators | `WebServer` |
| `WebServer` | `main` up to the server's start, every route, paths of front-end and static files, MIME types | `MC_WebServer`, `WebServerProofs` |
| `ShortenUrlBox` | the form of the front end and its submissions in flight | `MC_ShortenUrlBox`, `ShortenUrlBoxProofs` |
| `RateLimiter` | `IPAccessCountService` and `AntiAbuseProtection::onRequest` | `MC_RateLimiter`, `RateLimiterProofs` |
| `StaticHandler` | `StaticHandler` and `StaticFileCache` | `MC_StaticHandler`, `StaticHandlerProofs` |

The modules `...Proofs` hold the theorems of section 4 and the invariants they
rest on; each extends the module it is about and adds nothing to it.

Every definition that models code is listed in `PROJECT.json` with its lines.
Definitions whose names are those of an action with a suffix (`PutFailsKeepsSlug`,
`recycleKeepsCounts`, ...) are plausible mistakes in that code; they are not part
of any specification and serve to show that the properties can fail.

### GenerateSlug

`result`, `result_idx`, `nth_try`, `i` and `dst` are the code's. The hash is any
four words; a fifth stands for the memory after the array, which the code reads,
and divides by the base in place (`url_shortening.cc:139`), because its test is
`result_idx > 4` instead of `>= 4`. What else that memory may be of is left out. The base is the length of
the configured alphabet; the characters come from the file-static one whatever is
configured, so only digits are told apart.

### ShortenUrl

A step per call of the database. `pc` is the request's place in the loop
(`while`, `get`, `put`, `returned`), `db` what `Get` sees and `durable` what a
power loss leaves. `Candidates[u][n]` is the set of slugs `generate_slug(u, n)`
may return: a set, because past the end of the hash the result depends on memory.
Tries start at 2, as the code increments the counter before the call. A failing
put may or may not have stored the entry. `told` collects what clients learnt
from a 200 or a 301. `Restart` ends the process at any point; `PowerLoss` also
takes back what was not flushed, as `WriteOptions()` does not sync.
`CollidingOverlap` says whether requests whose URLs share a candidate may run at
the same time: the code does nothing to prevent it, and the properties that need
it ruled out say so.

### MakeUrlRequestHandler

`obj` is the handler (`live`, `deleted`), `conn` the connection to the captcha
service, `promise` and `chain` the promise and the place of the chain of futures
(`promise`, `via_cpu`, `do_shorten_url`, `via_evb`, `done`), `value` what travels
along it. `Delete` includes the destructors: a pending connect is dropped, an
unset promise breaks and the chain continues with an error. A use of a deleted
handler makes `server` `undefined`, an exception in a `noexcept` callback
`terminated`; nothing is claimed about what follows. `Faults` chooses what the
environment may do: a client that fails before or after its request is read, a
captcha service that cannot be reached or resolved, TLS that cannot be set up (no
trusted certificates to read or no cipher suite, `make_url_request_handler.cc:94-97`),
a body that is not JSON, and one that is but has an array or an object for a field
(`asString` throws, `:291-292`). All that throws within `onEOM`, which is `noexcept`. The
history `fault` holds what last went wrong around a request, so that
`NoUseAfterFree` and `NothingThrown` can say which faults it takes; without any,
both hold outright.

### RateLimiter

Time is counted in ticks since `time_last_recycled_`, so that recycling resets
`now` to 0. `Seconds` is the truncating `duration_cast`. The access that recycles
the counts is itself forgotten, as in the code. `client_ip` is the precedence of
`CF-Connecting-IP`, `X-Forwarded-For` and the peer's address. The variables
`seen`, `late`, `verdict`, `steady` and `charged` are histories.

### StaticHandler

One file of `Chunks` reads. `file_` is the next chunk or `Closed`; the three
flags are the code's. `task` holds the tasks of `read_file` on the executor, each
with three steps per iteration (the test, the read, the hand-over), `evb` what
they posted to the event loop. `danger` collects handlers used after `delete` or
through a null `file_`, and responses whose wrapped cache memory moved. Sends
after the request has finished do nothing. Deadlock is not checked in its runs,
because all requests of a run may be over.

### ServerLife

There is one object of each factory, and `onServerStart` and `onServerStop` run
once per IO thread. The pointers `ip_access_count_svc_`, `static_file_cache_` and
`timer_` are represented by the thread that made what they point to; `services`
are the counters that exist. Starting a second thread leaks the first counters and
destroys the first cache and timer; stopping deletes the counters without
resetting the pointer, so the `CHECK` with "lifetime error"
(`ddos_protection.cc:136`) never fires.

No lock guards any of it. A change of the pointers (`onServerStart`,
`onServerStop`), of the counters (`log_access`) or of the map of the cache
(`append_data`) has a begin and an end, and `doing` is what the event loop of each
thread is in the middle of; a read is one step. A thread that begins a change of
memory, or reads it, while another is changing it is a race.

A protected request goes through the factories in their order: the handler is made
first, and a `MakeUrlRequestHandler` takes the timer then (`given` is whose); the
access is logged after it; and the request goes on or is turned away (`Judge`). The
timer is used later, by the connection to the captcha service, and it must be the
thread's own and still there. A static request takes a weak pointer to the cache;
the result of its `lock()` is used without a test, at the lookup and for every
chunk, which may be after `onServerStop`. A thread serves requests until its own
`onServerStop`, a signal or not. A redirect goes to the CPU executor, where
`get_fast` takes two steps on members of the handler, and back. `server` names the
first misuse of memory, and nothing is claimed about what follows it.

### AppConfig and WebServer

A settings record has what some step tests: files that are there or not, the key
that converts or not, lists as sequences of entries and commas, `slug_length` as a
number that is cut to a byte. A path is a sequence of tokens (`/`, `?`, `..`, a
file name, a character of the alphabet, or a word that the router looks for, which
counts as one character). `split_csv_string`, `parse_out_request_str`,
`is_ok_request_path`, `infer_mime_type`, `file_is_under_dir` and the composition
of `std::filesystem` paths are operators. `routed` is the request at hand with its
handler and what that was made with; handlers that live side by side share nothing
in this module, so one is enough. `Listed`, `PathOfSlug` and `Resolve` are the
reference definitions the operators are compared with.

### ShortenUrlBox

The variables are the React state. `sent` are the submissions with their answers,
which come in any order. Which events submit a form is the browser's: the button
where it is rendered and enabled, and Enter, which clicks the first submit button
there is. While a submission is out the spinner takes the button's place, so Enter
submits without the button's tests, unless the Copy button of an earlier result is
there to take it.

## 3. What the runs show

| Run | Checks | Result |
|---|---|---|
| `slug_reference` | `MatchesReference` | holds |
| `shorten_collisions` | `ChosenSlugIsFree`, `ToldStaysTrue`, `OneSlugPerUrl`, `ImplementsUrlMap` | holds |
| `shorten_anything` | `TypeOK`, `Provenance`, `FlushedLinksStay`, `Returns` | holds |
| `shorten_race` | `ChosenSlugIsFree` | violated |
| `handler_faults` | `TypeOK`, `NoUseAfterFree`, `NothingThrown`, `AtMostOneResponse`, `NoShorteningWithoutCaptcha`, `EveryRequestEnds` | holds |
| `handler_connect_error` | `ThisIsThere` | violated |
| `rate_bound` | `TypeOK`, `AdmissionBound`, `CountsAreRecent`, `NoForeignCharge`, `RejectedRecovers` | holds |
| `static_transfers` | `TypeOK`, `NoLostWakeup`, `DangerTakesResume`, `SendsAfterEndTakeFailure`, `StreamedWhole`, `CacheHoldsStreamed`, `EveryTransferEnds` | holds |
| `static_cache` | `ServedFromCacheIsWhole` | violated |
| `server_threads` | `MisuseHasItsCause`, `CleanStop`, `EveryRedirectEnds` | holds |
| `routing` | `SlugsCanBeMade`, `TrustsWhatIsListed`, `LinksLeadBack`, `EveryShorteningCounted`, `ServedBelowRoot`, `PagesServedAsThemselves` | holds |
| `form_submissions` | `TokenSentOnce`, `UntestedOnlyWhileOut`, `LatestResultShown`, `SpinnerStops` | holds |

The `TypeOK` of `GenerateSlug`, `ServerLife`, `WebServer` and `ShortenUrlBox`
holds as well; it documents the state and is not a property of its run.

Bounds, and why they are enough:

- `slug_reference`: base 2, slugs of two characters, every hash of five words up
  to 3 and up to 6 retries. Words of no, one and two digits occur in every
  position, so blocks end within words, at their ends and across several of them,
  and both ways to run out of digits occur.
- `shorten_collisions`: two workers, three URLs with the same first candidate and
  common later ones, six tries, failures and restarts. A URL can have to go
  through two collisions; the hypotheses of the theorems are met (an `ASSUME` of
  `MC_ShortenUrl` checks `LastTryHarmless` and `Repeatable` on this instance).
- `shorten_anything`: two workers and three URLs with one try each, so that the
  loop ends by its condition after a collision; hashes of mostly empty words, so
  that the candidate depends on memory or is missing; two URLs collide and the
  third does not; overlaps and power losses.
- `handler_faults`: two requests whose names are used again, with every fault.
  Handlers share no state, the second shows that nothing needs to be said between
  them. `handler_connect_error` needs one.
- `rate_bound`: a minute of two seconds, ticks of half a second, a TTL of two
  minutes, a limit of 1, counters that wrap at 3 and at most 5 accesses of an IP
  per window: truncation, the first second, two different numbers of whole
  minutes, wrap-around, recycling and a clock set back before the last recycle all
  occur.
- `static_transfers`: two requests for a file of two chunks, one client that
  pauses up to twice, failing reads and clients. Two pauses are what it takes to
  have two tasks of `read_file` on one file, and at most two can then exist.
- `server_threads`: one or two IO threads, a static transfer and a protected
  request at a time on each, and one redirect whose name is used again. Redirects share nothing with each other; two
  threads are what every misuse of what is shared takes.
- `routing`: the good settings with up to two of them changed (one for YAML), a
  byte that wraps at 4 with `slug_length` from -1 to 5, lists with empty, unknown
  and trailing entries; every path of up to three tokens after `/` and after
  `/static/`, and those around `/api/v1/create`; limits of 5 and 6 tokens, so that
  paths just below and just above both occur; an absolute root with and without a
  slash at its end, and a relative one that leads up. An empty path is left out.
- `form_submissions`: three submissions, three solved captchas and two timers, so
  that two submissions overlap and a third follows them.

Fairness. Threads of the executors and event loops run what they are given
(weak fairness of worker, chain and event-loop steps). The connect has a timeout
of 1000 ms and the captcha transaction that of its timer, so one of their
outcomes happens. proxygen completes a request that is read and answered, and
resumes a paused egress unless the client fails or the idle timeout ends it. In
the rate limiter time passes, and `RejectedRecovers` is about clients that keep
trying and is conditional on the clock not being set back for ever. In
`ServerLife` an event loop goes on with what it is in the middle of, and the steps of a lookup and `requestComplete` are strongly fair: they
wait for an event loop which other steps keep busy for a moment at a time, and a
loop takes what is posted to it in turn. In the form a fetch ends, if only with an
error, and timers run out. Nothing is assumed about clients, users or signals
otherwise.

What the violated properties mean (details and quotations in `PROJECT.json`):

- `shorten_race`: two requests with the same candidate both find it free and the
  later put overwrites the earlier one, whose client has its answer.
- `handler_connect_error`: `connectError` answers and leaves the promise to the
  destructor, whose broken promise runs `thenError` on the deleted handler.
- `static_cache`: the first chunk makes the cache entry, and a request that comes
  before the last chunk is answered with a part of the file as a 200.

Further disagreements seen while modelling, without a run of their own. Reachable
in the models:

- the word past the hash is read and written (`url_shortening.cc:132` and `:139`, the
  fifth word);
- if all tries collide the loop falls through to the put and overwrites the entry
  of the last one (`make_url_request_handler.cc:218`, excluded by
  `LastTryHarmless`; `TriesEnd` of section 4 says of which settings it holds);
- a client that goes away during the captcha query has its handler deleted under
  the chain and the captcha transaction, and one that goes away after the answer
  makes `setException` throw in a `noexcept` function
  (`make_url_request_handler.cc:381`, both under the fault `late`);
- a body that is no JSON or has an array or an object for a field, a captcha service
  whose name is not resolved and certificates that cannot be read end the process,
  because they throw within the `noexcept` `onEOM` (`NothingThrown` names them);
- a redirect whose client fails during `get_fast` has its buffer deleted under it
  (`url_shortener_handler.cc:57`, `left` in `MisuseHasItsCause`);
- nothing is limited in the first second after a recycle (`ddos_protection.cc:53`,
  excluded by `late` in `AdmissionBound`), and the limit is an average since the
  last recycle, while `app_config.h:36` and `sample_app_config.yml:24` speak of
  requests per minute: a quiet client may spend a day's accesses at once;
- `onEgressResumed` adds a task without marking it as scheduled
  (`static_handler.cc:165`), so a resumed transfer can be deleted under its task or
  have two, which is why `DangerTakesResume` and `StreamedWhole` are about
  transfers that were not resumed; chunks posted before a failure are sent after it
  (`SendsAfterEndTakeFailure`);
- a server with more than one IO thread never stops cleanly (`CleanStop`), and its
  threads change the pointers, the counters and the map of the cache at once and use
  each other's timer (`MisuseHasItsCause`);
- a chunk that arrives after `onServerStop` is appended to a cache that is gone,
  through a null pointer (`static_handler.cc:140`, the same property);
- YAML accepts a `slug_length` of 0 and an empty alphabet, which
  `app_config.cc:268` rejects in the environment (`SlugsCanBeMade` is about the
  environment only);
- in the form, the link shown can be that of an earlier submission when the answers
  come out of order (`ShortenUrlBox.tsx:45`, excluded in `LatestResultShown`, which
  is about submissions that do not overlap);
- in the form, Enter submits a second time while the first is out, without a token
  (`UntestedOnlyWhileOut`), and `errored` and `warned` are never cleared.

Seen in the code only:

- characters of slugs come from the built-in alphabet, while
  `sample_app_config.yml:17` lets one configure it;
- `urls_db_path: urls.db` of the sample has an empty parent directory, so the test
  at `app_config.cc:90` fails; configured by the environment the path is never set;
- an absent captcha key becomes a `std::string` from a null pointer before its
  `CHECK`;
- in `mime_type.cc` "oga" lacks its dot and the second `.png`, for PDF, is never
  reached; WEBP is never inferred;
- the branch of `parse_out_request_str` for `?` is dead, since `getPath` drops the
  query;
- `ddos_protection.cc:34` logs through an iterator that `recycle` invalidated, in
  builds with debug logging.

## 4. What is proved

Each component has one inductive invariant. Every part of it was first checked by
TLC on the component's run; the proof has one step per action, and the properties
follow from the invariant. All of it is for every value of the constants.

`GenerateSlugProofs`, for any hash, alphabet, length of slugs and number of tries:

- `ComputesReference`: `generate_slug` returns the block of the digit stream that
  was asked for, and fails exactly when there is none. The invariant `SlugInv`
  says that what was consumed (the blocks done and the characters of this one)
  followed by the stream of the words that are left is the stream of the hash, and
  that the characters at hand spell its last part (`ReadInv`, `BlockInv`).
- The digits of a number are a recursive function. That this has a solution, only
  one, and that it unfolds is shown without an induction rule: the set of
  numbers for which the claim fails has a least element (`WFMin` of the library),
  and that one cannot fail. The same argument gives `Stream`, and `split_csv_string`
  and `Walk` below.
- `TypeCorrect`: the index of the word at hand stays within the words that are read,
  and no block outgrows a slug.
- `RetriesRepeat` (`RepeatableWithinHash`): a try that the four words of the hash
  have digits for succeeds, and its slug is made of them alone. The reference stream
  is that of the hash followed by the digits of the word past it (`StreamOfHash`),
  and a block that fits into the first part is the same in both.
- `TriesEnd` (`TriesRunOut`): a try past five times the digits of the largest machine
  word fails whatever the hash, since a smaller number has no more digits
  (`DigitsMonotone`). With 64-bit words and the built-in alphabet these are 55
  digits, so that with slugs of any length the hundredth try of `do_shorten_url`
  makes no slug.

`ShortenUrlProofs`, for any sets of requests, URLs and slugs, any number of tries
and any `Candidates`:

- `TypeCorrect`: from `TypeInv`, which adds to `TypeOK` what the locals are at
  each place of the loop (`LocalsOK`: in particular that a request which falls out
  of the loop holds a slug generated for its URL).
- `EntriesHaveProvenance` and `FlushedIsKept`: no hypothesis at all, races,
  half-done writes, exhausted tries and power losses included. The strengthening for
  the second is `FlushedIsThere`, what is on disk has an entry in memory too: a put
  only fills, and a power loss and a flush make both the same. It says
  that there is an entry, and not which: a race may have overwritten it.
- `RaceFreeChoosesFreeSlugs`, `RaceFreeToldStaysTrue`, `RaceFreeImplementsUrlMap`
  under `RaceFree`: requests whose URLs share a candidate do not overlap, and the
  last try is harmless. The inductive invariant is `SafeInv`: running requests do
  not collide (`RunningDisjoint`); the slug of a request at its put is free or its
  own (`ChosenSlugIsFree`, preserved because any other put concerns a URL that
  does not share the slug); what is on disk is part of what is in memory
  (`DurableWithinDb`, so a power loss only removes); and a request about to be
  answered has its entry (`AnswersHold`). The refinement maps `db` to the abstract
  map; every step is a `Store`, a `Tell`, a `Forget` or a stutter.
  `RaceFreeToldStaysTrue` needs that power is not lost in addition.
- `RaceFreeOneSlugPerUrl`, under `RaceFree`, `Repeatable` (a try always makes the
  same slug, which holds as long as no digit comes from the memory past the hash)
  and without power losses. The strengthening: the tries a request has behind it
  lead to other URLs (`TriedInv`), and a URL has its entry under its first try that
  does not (`FirstFreeTry`), so that a second entry would be under the same try.
  Two requests for the same URL may overlap.

`MakeUrlRequestHandlerProofs`, for any number of requests and any `Faults`:

- `TypeCorrect`, `OneResponse`, `CaptchaComesFirst`, `UseAfterFreeTakesFault` and
  `ThrowingTakesFault`, from `HandlerInv`. None of the properties is inductive:
  that there is one response needs to know who still owes it. While the chain of
  futures waits for its promise this is the connection to the captcha service, or
  `connectError` has answered; afterwards it is the chain (`LiveInv`). For a
  deleted handler the invariant says which steps may still run and which fault
  made it so (`DeletedInv`), and `ValueInv` where the value on the chain is from.

`StaticHandlerProofs`, for any number of requests, chunks, tasks and pauses:

- `TypeCorrect`, `WakeupsAreKept`, `DangerNeedsResume`, `NothingAfterTheEnd`,
  `StreamsWholeFile` and `StreamingFillsCache`, from `TransferInv`. For a request
  that was never resumed there is one task; `read_file_scheduled_` stands from its
  start to the callback that is the last in the queue (`TaskInv`); the chunks
  sent, those in the queue and the one at hand are the first ones of the file in
  order (`ContentInv`); and while one request alone has streamed the cache has
  what it sent (`CacheInv`). `WakeInv`, which holds of resumed requests as well,
  is the one behind `WakeupsAreKept`.

`ServerLifeProofs`, for any number of IO threads and redirects:

- `TypeCorrect`, `MisuseTakesItsCause` and `StopsCleanWithOneThread`, from
  `LifeInv`: the first thread to stop is the only one that can (`ThreadInv`); what a
  loop is in the middle of says whether its thread has started or is to stop
  (`DoingInv`); the counters, the cache and the timer are there from the first start
  to the first stop (`PointerInv`); a timer that was given is that of a thread of the
  server, and was given to one that is up (`GivenInv`; its connections are dropped
  before the stop, so with one thread it is the timer there is); up to the signal a transfer has the cache there is (`TransferInv`); a handler that is deleted
  under its lookup is that of a client that left (`RedirectInv`). A race takes two
  threads that are both in use, whatever they do (`RaceStep`).

`WebServerProofs`, for any settings, front-end files, roots, methods, paths,
alphabet and limits:

- `TypeCorrect`: a configuration from its loading to the end, and one of the five
  handlers for every request.
- `SlugsAlwaysMade`: the byte that is tested is the one that is used.
- `ListedAreTrusted`: for lists of any length the entries that `split_csv_string`
  makes and `Parsed` keeps are the networks alone between commas (`SplitLists`,
  from the end of the text on).
- `LinksAlwaysLeadBack`, `ShorteningsAreCounted`, `PagesAreServed`, from
  `RouterInv`: a path without a query is parsed as a whole or not at all
  (`ParsedIsWhole`), and since no slash is in the alphabet no directory the router
  looks for is the path of a slug (`SlugPath`).
- `StaticStaysBelowRoot`, from `RootInv` (the root is a path): a path that
  `validate_static_file_request_path` lets through has no `..` and no two slashes in
  a row, so what is left of it behind `/static/` does not begin with a slash and its
  components are joined to those of the root (`ValidatedTail`, `JoinedBelow`), none
  of them `..` or the root directory (`ComponentsBelow`). Following the joined path
  leads to where the root leads (`SameStart`) and from there only further down
  (`WalkStaysBelow`). The comparison of `file_is_under_dir` is not needed for it.

`ShortenUrlBoxProofs`, for any texts and any numbers of submissions, captchas and
timers:

- `TypeCorrect`, `TokensAreSentOnce`, `UntestedOverlaps` and `ShowsLatestResult`, from `FormInv`:
  a token that was sent is no longer on the form (`TokenGone`), the spinner means
  that a submission is out (`SpinnerMeansOut`), and without overlaps only the last
  one can be (`LastIsOut`).

`RateLimiterProofs`, for any limit, TTL, resolution of the clock, minute length
and counter width:

- `TypeCorrect`; `CountsStayRecent`: the counts are those of the current window,
  modulo the counter's width, and no older than the TTL; `OnlyProxiesCharge`.
- `AdmissionsAreBounded`: apart from the first second of a window an IP is admitted
  less than `RateLimit + 1` times per whole minute of it, unless the clock was set
  back in the window or the counter wrapped. The strengthening is `WindowInv`: no more is
  admitted than was logged, and while the clock is steady the last access is not
  after now, so that the number of whole minutes only grows.

Assumptions: those named in the modules, evaluated by TLC in the runs. Most say
what the constants are. Those that say more, and what in the code they come from:

- `GenerateSlugAssumption`: at least two characters in the alphabet and one in a
  slug; `SlugsCanBeMade` is that a server configured by the environment has them.
- `WebServerAssumption`: a request line's URL is not empty, a root is a sequence of
  components, and the limit of 1000 on what `parse_out_request_str` takes leaves room
  for every slug whose length is a byte. `AlphabetAssumption`: neither `/` nor `?` is in the alphabet that is
  built in. `SettingsAssumption`: `std::atoi` makes any number of a setting,
  `as<uint8_t>` a byte. `FrontendAssumption`: a file has a name.
- `NetworksAssumption`: no network is written with a comma.
- `ShortenUrlAssumption`: `generate_slug` returns or fails for every try.

Only model-checked are the liveness properties (`Returns`, `EveryRequestEnds`,
`RejectedRecovers`, `EveryTransferEnds`, `EveryRedirectEnds`, `SpinnerStops`), which
are out of the prover's reach.

## 5. Not modelled, and the plan

- HighwayHash, RocksDB, proxygen and folly are external: a hash is any words, and
  the others appear by what the code relies on.
- Logging and the wording of answers are left out, and so are settings no step
  tests: ports, host names, the base URL, the rate and its TTL (constants of
  `RateLimiter`).
- The destructor of the database runs when the process ends anyway.
- Nobody calls `generate_shortened_url`, `pop_front_dir`, and `set` and `get_copy`
  of the cache.
- `page.tsx` and `layout.tsx` only lay out the form.

No part with state of its own is left. Type correctness of every component and every
safety property of a passing run are proved. What could still be stated and proved:

- That `Candidates` of `ShortenUrl` is what `GenerateSlug` makes, as a refinement of
  one module by the other: `RetriesRepeat` and `TriesEnd` are about one call, and
  that `Repeatable` and `LastTryHarmless` hold of the program's candidates is
  concluded from them here, in words.
