--------------------------- MODULE ShortenUrlProofs ---------------------------
(***************************************************************************)
(* Proofs about ShortenUrl.tla for any number of requests, URLs, slugs and  *)
(* tries, and for whatever generate_slug returns.                           *)
(***************************************************************************)
EXTENDS ShortenUrl, TLAPS

(* The slugs a request may hold at its n-th try.                            *)
SlugsAt(u, n) == Candidates[u][n] \ {OutOfHashes}

(* What the local variables of one call hold at each point of it: the slug  *)
(* is that of the try the counter shows, or of the last one when the loop   *)
(* ended by its condition.                                                  *)
LocalsOK(r) ==
  /\ pc[r] = "idle" => nth_try[r] = 1 /\ result[r] = None
  /\ pc[r] # "idle" => long_url[r] \in LongUrls
  /\ pc[r] = "while" =>
       \/ nth_try[r] = 1
       \/ nth_try[r] \in 2..MaxTries
            /\ generated_short_url[r] \in SlugsAt(long_url[r], nth_try[r])
  /\ pc[r] = "get" =>
       /\ nth_try[r] \in 2..MaxTries
       /\ generated_short_url[r] \in SlugsAt(long_url[r], nth_try[r])
  /\ pc[r] = "put" =>
       \/ nth_try[r] \in 2..MaxTries
            /\ generated_short_url[r] \in SlugsAt(long_url[r], nth_try[r])
       \/ nth_try[r] = MaxTries + 1
            /\ generated_short_url[r] \in SlugsAt(long_url[r], MaxTries)
  /\ pc[r] = "returned" => result[r] = None \/ result[r] \in SlugsOf(long_url[r])

(* TypeOK with what it needs to be inductive.                               *)
TypeInv == TypeOK /\ \A r \in Requests : LocalsOK(r)

(* A slug of a try is a slug of the URL.                                    *)
LEMMA SlugsAtAreSlugsOf ==
  ASSUME NEW u \in LongUrls, NEW n \in 2..MaxTries, NEW s \in SlugsAt(u, n)
  PROVE  s \in Slugs /\ s \in SlugsOf(u)
  BY ShortenUrlAssumption DEF SlugsAt, SlugsOf

(* A slug of a URL is one the database can hold.                            *)
LEMMA SlugsOfAreSlugs ==
  ASSUME NEW u \in LongUrls
  PROVE  SlugsOf(u) \subseteq Slugs
  BY ShortenUrlAssumption DEF SlugsOf

(* In its loop, and when it puts, a request holds a slug of its URL.        *)
LEMMA HeldSlug ==
  ASSUME TypeInv, NEW r \in Requests, pc[r] \in {"get", "put"}
  PROVE  /\ long_url[r] \in LongUrls
         /\ generated_short_url[r] \in Slugs
         /\ generated_short_url[r] \in SlugsOf(long_url[r])
  <1>1. long_url[r] \in LongUrls
    BY DEF TypeInv, LocalsOK
  <1>2. \E n \in 2..MaxTries : generated_short_url[r] \in SlugsAt(long_url[r], n)
    BY ShortenUrlAssumption DEF TypeInv, LocalsOK
  <1> QED BY <1>1, <1>2, SlugsAtAreSlugsOf

-----------------------------------------------------------------------------
LEMMA TypeInvInit == Init => TypeInv
  BY ShortenUrlAssumption DEF Init, TypeInv, TypeOK, LocalsOK

LEMMA TypeInvNext == TypeInv /\ [Next]_vars => TypeInv'
  <1> SUFFICES ASSUME TypeInv, [Next]_vars PROVE TypeInv'
    OBVIOUS
  <1> USE ShortenUrlAssumption
  <1>1. ASSUME NEW r \in Requests, NEW u \in LongUrls, do_shorten_url(r, u)
        PROVE  TypeInv'
    BY <1>1 DEF do_shorten_url, TypeInv, TypeOK, LocalsOK
  <1>2. ASSUME NEW r \in Requests, GenerateSlug(r) PROVE TypeInv'
    <2> DEFINE n == nth_try[r] + 1
    <2>1. long_url[r] \in LongUrls /\ n \in 2..MaxTries
      BY <1>2 DEF GenerateSlug, TypeInv, TypeOK, LocalsOK
    <2>2. nth_try' = [nth_try EXCEPT ![r] = n] /\ nth_try'[r] = n
      BY <1>2 DEF GenerateSlug, TypeInv, TypeOK
    <2>3. PICK s \in SlugsAt(long_url[r], n) :
             generated_short_url' = [generated_short_url EXCEPT ![r] = s]
      BY <1>2, <2>2 DEF GenerateSlug, SlugsAt
    <2>4. s \in Slugs
      BY <2>1, <2>3, SlugsAtAreSlugsOf
    <2> QED
      BY <1>2, <2>1, <2>2, <2>3, <2>4 DEF GenerateSlug, TypeInv, TypeOK, LocalsOK
  <1>3. ASSUME NEW r \in Requests, RanOutOfHashes(r) PROVE TypeInv'
    BY <1>3 DEF RanOutOfHashes, Return, TypeInv, TypeOK, LocalsOK
  <1>4. ASSUME NEW r \in Requests, TriesExhausted(r) PROVE TypeInv'
    BY <1>4 DEF TriesExhausted, TypeInv, TypeOK, LocalsOK
  <1>5. ASSUME NEW r \in Requests, GetNotFound(r) PROVE TypeInv'
    BY <1>5 DEF GetNotFound, locals, TypeInv, TypeOK, LocalsOK
  <1>6. ASSUME NEW r \in Requests, GetSame(r) PROVE TypeInv'
    <2>1. generated_short_url[r] \in Slugs \cap SlugsOf(long_url[r])
      BY <1>6, HeldSlug DEF GetSame
    <2> QED BY <1>6, <2>1 DEF GetSame, Return, TypeInv, TypeOK, LocalsOK
  <1>7. ASSUME NEW r \in Requests, GetCollision(r) PROVE TypeInv'
    BY <1>7 DEF GetCollision, locals, TypeInv, TypeOK, LocalsOK
  <1>8. ASSUME NEW r \in Requests, GetFails(r) PROVE TypeInv'
    BY <1>8 DEF GetFails, Return, TypeInv, TypeOK, LocalsOK
  <1>9. ASSUME NEW r \in Requests, PutOk(r) PROVE TypeInv'
    <2>1. /\ generated_short_url[r] \in Slugs \cap SlugsOf(long_url[r])
          /\ long_url[r] \in LongUrls
      BY <1>9, HeldSlug DEF PutOk
    <2> QED BY <1>9, <2>1 DEF PutOk, Stored, Return, TypeInv, TypeOK, LocalsOK
  <1>10. ASSUME NEW r \in Requests, PutFails(r) PROVE TypeInv'
    <2>1. /\ generated_short_url[r] \in Slugs
          /\ long_url[r] \in LongUrls
      BY <1>10, HeldSlug DEF PutFails
    <2> QED BY <1>10, <2>1 DEF PutFails, Stored, Return, TypeInv, TypeOK, LocalsOK
  <1>11. ASSUME NEW r \in Requests, Respond(r) PROVE TypeInv'
    <2>1. result[r] # None => <<result[r], long_url[r]>> \in Slugs \X LongUrls
      BY <1>11 DEF Respond, TypeInv, TypeOK, LocalsOK
    <2>2. told' \in SUBSET (Slugs \X LongUrls)
      BY <1>11, <2>1 DEF Respond, TypeInv, TypeOK
    <2> QED BY <1>11, <2>2 DEF Respond, TypeInv, TypeOK, LocalsOK
  <1>12. ASSUME NEW s \in Slugs, Redirect(s) PROVE TypeInv'
    BY <1>12 DEF Redirect, locals, TypeInv, TypeOK, LocalsOK
  <1>13. CASE Flush
    BY <1>13 DEF Flush, locals, TypeInv, TypeOK, LocalsOK
  <1>14. CASE Restart
    BY <1>14 DEF Restart, ForgetRequests, TypeInv, TypeOK, LocalsOK
  <1>15. CASE PowerLoss
    BY <1>15 DEF PowerLoss, ForgetRequests, TypeInv, TypeOK, LocalsOK
  <1>16. CASE UNCHANGED vars
    BY <1>16 DEF vars, locals, TypeInv, TypeOK, LocalsOK
  <1> QED
    BY <1>1, <1>2, <1>3, <1>4, <1>5, <1>6, <1>7, <1>8, <1>9, <1>10, <1>11,
       <1>12, <1>13, <1>14, <1>15, <1>16 DEF Next, Worker

(* Every variable has its type in every reachable state, and every call of  *)
(* do_shorten_url holds a slug of its own URL and try.                      *)
THEOREM TypeInvariant == Spec => []TypeInv
  BY TypeInvInit, TypeInvNext, PTL DEF Spec

(* Spec => []TypeOK: in particular nth_try, a uint8_t, never exceeds        *)
(* max_tries + 1 = 101, and whatever is put or returned is a slug.          *)
THEOREM TypeCorrect == Spec => []TypeOK
  <1>1. TypeInv => TypeOK
    BY DEF TypeInv
  <1> QED BY <1>1, TypeInvariant, PTL

-----------------------------------------------------------------------------
(* The ways the database changes: not at all, by the put of a request, or   *)
(* by a power loss.                                                         *)
LEMMA DbSteps ==
  ASSUME [Next]_vars
  PROVE  \/ UNCHANGED db
         \/ \E r \in Requests : /\ pc[r] = "put"
                                /\ db' = Stored(r)
                                /\ pc' = [pc EXCEPT ![r] = "returned"]
                                /\ UNCHANGED <<durable, long_url, generated_short_url>>
                                /\ PutOk(r) \/ PutFails(r)
         \/ PowerLoss
  <1>1. ASSUME NEW r \in Requests, PutOk(r) \/ PutFails(r)
        PROVE  \/ UNCHANGED db
               \/ /\ pc[r] = "put" /\ db' = Stored(r)
                  /\ pc' = [pc EXCEPT ![r] = "returned"]
                  /\ UNCHANGED <<durable, long_url, generated_short_url>>
    BY <1>1 DEF PutOk, PutFails, Return
  <1>2. \/ UNCHANGED db
        \/ \E r \in Requests : PutOk(r) \/ PutFails(r)
        \/ PowerLoss
    BY DEF Next, vars, Worker, do_shorten_url, GenerateSlug, RanOutOfHashes,
           TriesExhausted, GetNotFound, GetSame, GetCollision, GetFails,
           Respond, Redirect, Flush, Restart
  <1> QED BY <1>1, <1>2

(* What is on disk changes by a flush only.                                 *)
LEMMA DurableSteps ==
  ASSUME [Next]_vars
  PROVE  UNCHANGED durable \/ (durable' = db /\ UNCHANGED db)
  BY DEF Next, vars, Worker, do_shorten_url, GenerateSlug, RanOutOfHashes,
         TriesExhausted, GetNotFound, GetSame, GetCollision, GetFails, PutOk,
         PutFails, Respond, Redirect, Flush, Restart, PowerLoss

LEMMA ProvenanceInit == Init => Provenance
  BY DEF Init, Provenance

LEMMA ProvenanceNext ==
  ASSUME TypeInv, TypeInv', Provenance, [Next]_vars
  PROVE  Provenance'
  <1>1. ASSUME NEW r \in Requests, pc'[r] \in {"get", "put"}
        PROVE  generated_short_url'[r] \in SlugsOf(long_url'[r])
    <2>1. (\A n \in 2..MaxTries : SlugsAt(long_url'[r], n) \subseteq SlugsOf(long_url'[r]))
      BY DEF SlugsAt, SlugsOf
    <2>2. \E n \in 2..MaxTries :
             generated_short_url'[r] \in SlugsAt(long_url'[r], n)
      BY <1>1, ShortenUrlAssumption DEF TypeInv, LocalsOK
    <2> QED BY <2>1, <2>2
  <1>2. ASSUME NEW s \in Slugs, db'[s] # None PROVE s \in SlugsOf(db'[s])
    <2>1. CASE UNCHANGED db
      BY <1>2, <2>1 DEF Provenance
    <2>2. ASSUME NEW r \in Requests, pc[r] = "put", db' = Stored(r)
          PROVE  s \in SlugsOf(db'[s])
      <3>1. generated_short_url[r] \in Slugs \cap SlugsOf(long_url[r])
        BY <2>2, HeldSlug
      <3> QED BY <1>2, <2>2, <3>1 DEF Stored, Provenance, TypeInv, TypeOK
    <2>3. CASE PowerLoss
      BY <1>2, <2>3 DEF PowerLoss, Provenance
    <2> QED BY <2>1, <2>2, <2>3, DbSteps
  <1>3. ASSUME NEW s \in Slugs, durable'[s] # None PROVE s \in SlugsOf(durable'[s])
    BY <1>3, DurableSteps DEF Provenance
  <1> QED BY <1>1, <1>2, <1>3 DEF Provenance

(* Every entry of the database, in memory and on disk, is under a slug that *)
(* generate_slug made for its URL, for any interleaving of any number of    *)
(* requests, any failures of the database and any crashes.                  *)
THEOREM EntriesHaveProvenance == Spec => []Provenance
  <1>1. Init => Provenance
    BY ProvenanceInit
  <1>2. TypeInv /\ TypeInv' /\ Provenance /\ [Next]_vars => Provenance'
    BY ProvenanceNext
  <1> QED BY <1>1, <1>2, TypeInvariant, PTL DEF Spec

-----------------------------------------------------------------------------
(* What is on disk is in the database too, under a URL or another.          *)
FlushedIsThere == \A s \in Slugs : durable[s] # None => db[s] # None

(* A put fills an entry, a power loss and a flush make disk and database    *)
(* the same, and nothing else changes either.                               *)
LEMMA FlushedNext ==
  ASSUME TypeInv, FlushedIsThere, [Next]_vars, NEW s \in Slugs, durable[s] # None
  PROVE  db'[s] # None /\ durable'[s] # None
  <1>1. db[s] # None
    BY DEF FlushedIsThere
  <1>2. ASSUME NEW r \in Requests, pc[r] = "put", db' = Stored(r) PROVE db'[s] # None
    <2>1. long_url[r] # None
      BY <1>2, HeldSlug, ShortenUrlAssumption
    <2> QED BY <1>1, <1>2, <2>1 DEF Stored, TypeInv, TypeOK
  <1>3. PowerLoss => db' = durable
    BY DEF PowerLoss
  <1>4. durable'[s] # None
    BY <1>1, DurableSteps
  <1> QED BY <1>1, <1>2, <1>3, <1>4, DbSteps

(* A slug whose entry has reached the disk is never free again: for any     *)
(* number of requests, with races, exhausted tries, failed puts, restarts   *)
(* and power losses, and for any Candidates.                                *)
THEOREM FlushedIsKept == Spec => FlushedLinksStay
  <1> DEFINE Kept == \A s \in Slugs :
                       durable[s] # None => db'[s] # None /\ durable'[s] # None
  <1>1. Init => FlushedIsThere
    BY DEF Init, FlushedIsThere
  <1>2. TypeInv /\ FlushedIsThere /\ [Next]_vars => Kept
    BY FlushedNext
  <1>3. TypeInv /\ FlushedIsThere /\ [Next]_vars => FlushedIsThere'
    <2> SUFFICES ASSUME TypeInv, FlushedIsThere, [Next]_vars,
                        NEW s \in Slugs, durable'[s] # None
                 PROVE  db'[s] # None
      BY DEF FlushedIsThere
    <2>1. CASE UNCHANGED durable
      BY <2>1, FlushedNext
    <2>2. CASE durable' = db /\ UNCHANGED db
      BY <2>2
    <2> QED BY <2>1, <2>2, DurableSteps
  <1>4. TypeInv /\ FlushedIsThere /\ [Next]_vars => [Kept]_vars
    BY <1>2
  <1> QED BY <1>1, <1>3, <1>4, TypeInvariant, PTL DEF Spec, FlushedLinksStay

-----------------------------------------------------------------------------
(* The two ways to overwrite an entry are ruled out: requests whose URLs    *)
(* share a candidate do not overlap, and the last try is harmless.          *)
RaceFree == ~CollidingOverlap /\ LastTryHarmless

RunningDisjoint ==
  \A q, r \in Requests :
    Running(q) /\ Running(r) => ~Colliding(long_url[q], long_url[r])

(* What is on disk is part of what is in memory.                            *)
DurableWithinDb == \A s \in Slugs : durable[s] \in {None, db[s]}

(* A request about to be answered with a slug has its entry.                *)
AnswersHold ==
  \A r \in Requests :
    pc[r] = "returned" /\ result[r] # None => db[result[r]] = long_url[r]

SafeInv ==
  /\ RunningDisjoint
  /\ ChosenSlugIsFree
  /\ DurableWithinDb
  /\ AnswersHold

LEMMA SafeInvInit == Init => SafeInv
  BY DEF Init, SafeInv, RunningDisjoint, ChosenSlugIsFree, DurableWithinDb,
         AnswersHold, Running

(* A put writes nothing over: the entry of its slug is missing or the same. *)
LEMMA PutsAreSafe ==
  ASSUME TypeInv, ChosenSlugIsFree,
         NEW r \in Requests, pc[r] = "put", db' = Stored(r),
         NEW s \in Slugs, db[s] # None
  PROVE  db'[s] = db[s]
  <1>1. generated_short_url[r] \in Slugs
    BY HeldSlug
  <1> QED BY <1>1 DEF Stored, ChosenSlugIsFree, TypeInv, TypeOK

LEMMA RunningDisjointNext ==
  ASSUME RaceFree, TypeInv, RunningDisjoint, [Next]_vars
  PROVE  RunningDisjoint'
  <1>1. ASSUME NEW r \in Requests, NEW u \in LongUrls, do_shorten_url(r, u)
        PROVE  RunningDisjoint'
    <2> SUFFICES ASSUME NEW p \in Requests, NEW q \in Requests,
                        Running(p)', Running(q)'
                 PROVE  ~Colliding(long_url[p], long_url[q])'
      BY DEF RunningDisjoint
    <2>1. \A x, y : Colliding(x, y) <=> Colliding(y, x)
      BY DEF Colliding
    <2>2. \A x : ~Colliding(x, x)
      BY DEF Colliding
    <2>3. \A t \in Requests : t # r => /\ Running(t)' <=> Running(t)
                                       /\ long_url'[t] = long_url[t]
      BY <1>1 DEF do_shorten_url, Running, TypeInv, TypeOK
    <2>4. long_url'[r] = u /\ \A t \in Requests : Running(t) => ~Colliding(u, long_url[t])
      BY <1>1 DEF do_shorten_url, MayStart, RaceFree, TypeInv, TypeOK
    <2>5. ~Colliding(long_url'[p], long_url'[q])
      BY <2>1, <2>2, <2>3, <2>4 DEF RunningDisjoint
    <2> QED BY <2>5 DEF Colliding
  <1>2. ASSUME \A r \in Requests : /\ Running(r)' => Running(r)
                                   /\ Running(r)' => long_url'[r] = long_url[r]
        PROVE  RunningDisjoint'
    BY <1>2 DEF RunningDisjoint, Colliding
  <1>3. ASSUME NEW r \in Requests, Worker(r)
        PROVE  RunningDisjoint'
    <2>1. UNCHANGED long_url /\ Running(r)
          /\ \A q \in Requests : q # r => pc'[q] = pc[q]
      BY <1>3 DEF Worker, GenerateSlug, RanOutOfHashes, TriesExhausted,
                  GetNotFound, GetSame, GetCollision, GetFails, PutOk, PutFails,
                  Return, locals, Running, TypeInv, TypeOK
    <2> QED BY <1>2, <2>1 DEF Running
  <1>4. ASSUME NEW r \in Requests, Respond(r) PROVE RunningDisjoint'
    BY <1>2, <1>4 DEF Respond, Running, TypeInv, TypeOK
  <1>5. CASE Restart \/ PowerLoss
    BY <1>2, <1>5 DEF Restart, PowerLoss, ForgetRequests, Running
  <1>6. CASE Flush \/ (\E s \in Slugs : Redirect(s)) \/ UNCHANGED vars
    BY <1>2, <1>6 DEF Flush, Redirect, vars, locals, Running
  <1> QED BY <1>1, <1>3, <1>4, <1>5, <1>6 DEF Next

LEMMA ChosenSlugIsFreeNext ==
  ASSUME RaceFree, TypeInv, TypeInv', Provenance, RunningDisjoint,
         ChosenSlugIsFree, [Next]_vars
  PROVE  ChosenSlugIsFree'
  <1> SUFFICES ASSUME NEW q \in Requests, pc'[q] = "put"
               PROVE  db'[generated_short_url'[q]] \in {None, long_url'[q]}
    BY DEF ChosenSlugIsFree
  <1>1. ASSUME NEW r \in Requests, pc[r] = "put", db' = Stored(r),
               pc' = [pc EXCEPT ![r] = "returned"],
               UNCHANGED <<durable, long_url, generated_short_url>>
        PROVE  db'[generated_short_url'[q]] \in {None, long_url'[q]}
    <2>1. q # r /\ pc[q] = "put"
      BY <1>1 DEF TypeInv, TypeOK
    <2>2. /\ generated_short_url[q] \in Slugs \cap SlugsOf(long_url[q])
          /\ generated_short_url[r] \in Slugs \cap SlugsOf(long_url[r])
      BY <1>1, <2>1, HeldSlug
    <2>3. generated_short_url[q] = generated_short_url[r]
            => long_url[q] = long_url[r]
      BY <1>1, <2>1, <2>2 DEF RunningDisjoint, Running, Colliding
    <2> QED BY <1>1, <2>1, <2>2, <2>3 DEF Stored, ChosenSlugIsFree, TypeInv, TypeOK
  <1>2. CASE PowerLoss
    BY <1>2 DEF PowerLoss, ForgetRequests
  <1>3. CASE UNCHANGED db
    <2>1. ASSUME TriesExhausted(q)
          PROVE  db[generated_short_url[q]] \in {None, long_url[q]}
      <3> DEFINE s == generated_short_url[q]
      <3>1. long_url[q] \in LongUrls /\ s \in SlugsAt(long_url[q], MaxTries)
        BY <2>1, ShortenUrlAssumption DEF TriesExhausted, TypeInv, TypeOK, LocalsOK
      <3>2. s \in Slugs
        BY <3>1, ShortenUrlAssumption, SlugsAtAreSlugsOf
      <3>3. db[s] \in LongUrls => db[s] = long_url[q]
        BY <3>1, <3>2, ShortenUrlAssumption
           DEF Provenance, RaceFree, LastTryHarmless, SlugsAt
      <3> QED BY <3>2, <3>3 DEF TypeInv, TypeOK
    <2>2. \/ /\ TriesExhausted(q) \/ GetNotFound(q)
             /\ UNCHANGED <<long_url, generated_short_url>>
          \/ /\ pc[q] = "put"
             /\ long_url'[q] = long_url[q]
             /\ generated_short_url'[q] = generated_short_url[q]
      <3>1. ASSUME NEW r \in Requests, q # r,
                   Worker(r) \/ Respond(r) \/ \E u \in LongUrls : do_shorten_url(r, u)
            PROVE  /\ pc'[q] = pc[q]
                   /\ long_url'[q] = long_url[q]
                   /\ generated_short_url'[q] = generated_short_url[q]
        BY <3>1 DEF Worker, GenerateSlug, RanOutOfHashes, TriesExhausted,
                    GetNotFound, GetSame, GetCollision, GetFails, PutOk, PutFails,
                    Return, locals, Respond, do_shorten_url, TypeInv, TypeOK
      <3>2. ASSUME Worker(q) \/ Respond(q) \/ \E u \in LongUrls : do_shorten_url(q, u)
            PROVE  /\ TriesExhausted(q) \/ GetNotFound(q)
                   /\ UNCHANGED <<long_url, generated_short_url>>
        BY <3>2 DEF Worker, GenerateSlug, RanOutOfHashes, TriesExhausted,
                    GetNotFound, GetSame, GetCollision, GetFails, PutOk, PutFails,
                    Return, locals, Respond, do_shorten_url, TypeInv, TypeOK
      <3>3. CASE Restart \/ PowerLoss
        BY <3>3 DEF Restart, PowerLoss, ForgetRequests
      <3>4. CASE Flush \/ (\E s \in Slugs : Redirect(s)) \/ UNCHANGED vars
        BY <3>4 DEF Flush, Redirect, vars, locals
      <3> QED BY <3>1, <3>2, <3>3, <3>4 DEF Next
    <2> QED BY <1>3, <2>1, <2>2 DEF GetNotFound, ChosenSlugIsFree
  <1> QED BY <1>1, <1>2, <1>3, DbSteps

LEMMA DurableWithinDbNext ==
  ASSUME TypeInv, ChosenSlugIsFree, DurableWithinDb, [Next]_vars
  PROVE  DurableWithinDb'
  <1> SUFFICES ASSUME NEW s \in Slugs PROVE durable'[s] \in {None, db'[s]}
    BY DEF DurableWithinDb
  <1>1. CASE UNCHANGED db
    BY <1>1, DurableSteps DEF DurableWithinDb
  <1>2. ASSUME NEW r \in Requests, pc[r] = "put", db' = Stored(r),
               UNCHANGED durable
        PROVE  durable'[s] \in {None, db'[s]}
    BY <1>2, PutsAreSafe DEF DurableWithinDb
  <1>3. CASE PowerLoss
    BY <1>3 DEF PowerLoss
  <1> QED BY <1>1, <1>2, <1>3, DbSteps

LEMMA AnswersHoldNext ==
  ASSUME TypeInv, ChosenSlugIsFree, AnswersHold, [Next]_vars
  PROVE  AnswersHold'
  <1> SUFFICES ASSUME NEW q \in Requests, pc'[q] = "returned", result'[q] # None
               PROVE  db'[result'[q]] = long_url'[q]
    BY DEF AnswersHold
  <1>1. ASSUME Worker(q)
        PROVE  db'[result'[q]] = long_url'[q]
    <2>1. GetSame(q) \/ PutOk(q)
      BY <1>1 DEF Worker, GenerateSlug, RanOutOfHashes, TriesExhausted,
                  GetNotFound, GetCollision, GetFails, PutFails, Return, TypeInv,
                  TypeOK
    <2>2. generated_short_url[q] \in Slugs
      BY <2>1, HeldSlug DEF GetSame, PutOk
    <2> QED BY <2>1, <2>2 DEF GetSame, PutOk, Stored, Return, TypeInv, TypeOK
  <1>2. ASSUME pc[q] = "returned", result'[q] = result[q], long_url'[q] = long_url[q]
        PROVE  db'[result'[q]] = long_url'[q]
    <2>1. /\ result[q] \in Slugs
          /\ long_url[q] # None
          /\ db[result[q]] = long_url[q]
      BY <1>2, ShortenUrlAssumption DEF AnswersHold, TypeInv, TypeOK, LocalsOK
    <2>2. ASSUME NEW r \in Requests, pc[r] = "put", db' = Stored(r)
          PROVE  db'[result[q]] = db[result[q]]
      BY <2>1, <2>2, PutsAreSafe
    <2>3. ~PowerLoss
      BY DEF PowerLoss, ForgetRequests
    <2> QED BY <1>2, <2>1, <2>2, <2>3, DbSteps
  <1>3. ASSUME NEW r \in Requests, q # r,
               Worker(r) \/ Respond(r) \/ \E u \in LongUrls : do_shorten_url(r, u)
        PROVE  pc'[q] = pc[q] /\ result'[q] = result[q] /\ long_url'[q] = long_url[q]
    BY <1>3 DEF Worker, GenerateSlug, RanOutOfHashes, TriesExhausted,
                GetNotFound, GetSame, GetCollision, GetFails, PutOk, PutFails,
                Return, locals, Respond, do_shorten_url, TypeInv, TypeOK
  <1>4. ~Respond(q) /\ ~\E u \in LongUrls : do_shorten_url(q, u)
    BY DEF Respond, do_shorten_url, TypeInv, TypeOK
  <1>5. ~Restart /\ ~PowerLoss
    BY DEF Restart, PowerLoss, ForgetRequests
  <1>6. ASSUME Flush \/ (\E s \in Slugs : Redirect(s)) \/ UNCHANGED vars
        PROVE  pc'[q] = pc[q] /\ result'[q] = result[q] /\ long_url'[q] = long_url[q]
    BY <1>6 DEF Flush, Redirect, vars, locals
  <1> QED BY <1>1, <1>2, <1>3, <1>4, <1>5, <1>6 DEF Next

(* The inductive invariant behind the three theorems that follow.           *)
THEOREM RaceFreeSafety ==
  ASSUME RaceFree PROVE Spec => []SafeInv
  <1>1. Init => SafeInv
    BY SafeInvInit
  <1>2. TypeInv /\ TypeInv' /\ Provenance /\ SafeInv /\ [Next]_vars => SafeInv'
    BY RaceFree, RunningDisjointNext, ChosenSlugIsFreeNext, DurableWithinDbNext,
       AnswersHoldNext DEF SafeInv
  <1> QED BY <1>1, <1>2, TypeInvariant, EntriesHaveProvenance, PTL DEF Spec

(* When requests with a common candidate do not overlap and the last try is *)
(* harmless, do_shorten_url does what its comment says: it puts only slugs  *)
(* that are free or already lead to the same URL.                           *)
THEOREM RaceFreeChoosesFreeSlugs ==
  ASSUME RaceFree PROVE Spec => []ChosenSlugIsFree
  <1>1. SafeInv => ChosenSlugIsFree
    BY DEF SafeInv
  <1> QED BY <1>1, RaceFreeSafety, PTL

(* Then, without power losses, what a client was told stays true for ever.  *)
THEOREM RaceFreeToldStaysTrue ==
  ASSUME RaceFree, ~PowerMayFail PROVE Spec => []ToldStaysTrue
  <1>1. Init => ToldStaysTrue
    BY DEF Init, ToldStaysTrue
  <1>2. ASSUME TypeInv, SafeInv, ToldStaysTrue, [Next]_vars
        PROVE  ToldStaysTrue'
    <2> SUFFICES ASSUME NEW p \in told' PROVE db'[p[1]] = p[2]
      BY DEF ToldStaysTrue
    <2>1. ASSUME p \in told PROVE db'[p[1]] = p[2]
      <3>1. p[1] \in Slugs /\ p[2] # None /\ db[p[1]] = p[2]
        BY <1>2, <2>1, ShortenUrlAssumption DEF ToldStaysTrue, TypeInv, TypeOK
      <3>2. ASSUME NEW r \in Requests, pc[r] = "put", db' = Stored(r)
            PROVE  db'[p[1]] = db[p[1]]
        BY <1>2, <3>1, <3>2, PutsAreSafe DEF SafeInv
      <3>3. ~PowerLoss
        BY DEF PowerLoss
      <3> QED BY <1>2, <3>1, <3>2, <3>3, DbSteps
    <2>2. ASSUME NEW r \in Requests, Respond(r), p \notin told
          PROVE  db'[p[1]] = p[2]
      <3>1. p = <<result[r], long_url[r]>> /\ result[r] # None /\ UNCHANGED db
        BY <2>2 DEF Respond
      <3> QED BY <1>2, <2>2, <3>1 DEF Respond, SafeInv, AnswersHold
    <2>3. ASSUME NEW s \in Slugs, Redirect(s), p \notin told
          PROVE  db'[p[1]] = p[2]
      BY <2>3 DEF Redirect
    <2>4. \/ UNCHANGED told
          \/ \E r \in Requests : Respond(r)
          \/ \E s \in Slugs : Redirect(s)
      BY <1>2 DEF Next, vars, Worker, do_shorten_url, GenerateSlug,
             RanOutOfHashes, TriesExhausted, GetNotFound, GetSame, GetCollision,
             GetFails, PutOk, PutFails, Flush, Restart, PowerLoss
    <2> QED BY <2>1, <2>2, <2>3, <2>4
  <1> QED BY <1>1, <1>2, TypeInvariant, RaceFreeSafety, PTL DEF Spec

-----------------------------------------------------------------------------
(* The slugs of the n-th try for u lead to other URLs.                      *)
Taken(u, n) == \A s \in SlugsAt(u, n) : db[s] \notin {None, u}

(* The tries request r has behind it.                                       *)
Behind(r) ==
  {n \in 2..MaxTries : n < nth_try[r] \/ (n = nth_try[r] /\ pc[r] = "while")}

(* A request only goes on to a next try when this one is taken, and a URL   *)
(* has its entry under its first try that is not.                           *)
TriedInv == \A r \in Requests : Running(r) => \A n \in Behind(r) : Taken(long_url[r], n)
FirstFreeTry ==
  \A s \in Slugs : db[s] # None =>
    \E n \in 2..MaxTries : /\ s \in SlugsAt(db[s], n)
                           /\ \A m \in 2..n - 1 : Taken(db[s], m)

LEMMA TakenStays ==
  ASSUME TypeInv, ChosenSlugIsFree, ~PowerMayFail, [Next]_vars,
         NEW u \in LongUrls, NEW n \in 2..MaxTries, Taken(u, n)
  PROVE  Taken(u, n)'
  <1> SUFFICES ASSUME NEW s \in SlugsAt(u, n) PROVE db'[s] \notin {None, u}
    BY DEF Taken, SlugsAt
  <1>1. s \in Slugs /\ db[s] \notin {None, u}
    BY SlugsAtAreSlugsOf DEF Taken
  <1>2. ASSUME NEW r \in Requests, pc[r] = "put", db' = Stored(r)
        PROVE  db'[s] = db[s]
    BY <1>1, <1>2, PutsAreSafe
  <1>3. ~PowerLoss
    BY DEF PowerLoss
  <1> QED BY <1>1, <1>2, <1>3, DbSteps

(* A request moves on from a try only when its slug is taken.               *)
LEMMA BehindSteps ==
  ASSUME TypeInv, Repeatable, TriedInv, [Next]_vars, NEW r \in Requests, Running(r)'
  PROVE  /\ long_url'[r] \in LongUrls
         /\ \A n \in Behind(r)' : Taken(long_url'[r], n)
  <1>1. ASSUME Running(r), long_url'[r] = long_url[r], nth_try'[r] = nth_try[r],
               pc'[r] = "while" => pc[r] = "while"
        PROVE  /\ long_url'[r] \in LongUrls
               /\ \A n \in Behind(r)' : Taken(long_url'[r], n)
    <2>1. long_url[r] \in LongUrls
      BY <1>1 DEF Running, TypeInv, LocalsOK
    <2>2. \A n \in Behind(r)' : n \in Behind(r)
      BY <1>1 DEF Behind
    <2> QED BY <1>1, <2>1, <2>2 DEF TriedInv
  <1>2. ASSUME NEW q \in Requests, q # r,
               Worker(q) \/ Respond(q) \/ \E u \in LongUrls : do_shorten_url(q, u)
        PROVE  pc'[r] = pc[r] /\ long_url'[r] = long_url[r] /\ nth_try'[r] = nth_try[r]
    BY <1>2 DEF Worker, GenerateSlug, RanOutOfHashes, TriesExhausted,
                GetNotFound, GetSame, GetCollision, GetFails, PutOk, PutFails,
                Return, locals, Respond, do_shorten_url, TypeInv, TypeOK
  <1>3. ASSUME NEW u \in LongUrls, do_shorten_url(r, u)
        PROVE  /\ long_url'[r] \in LongUrls
               /\ \A n \in Behind(r)' : Taken(long_url'[r], n)
    <2>1. nth_try'[r] = 1 /\ long_url'[r] = u
      BY <1>3 DEF do_shorten_url, TypeInv, TypeOK, LocalsOK
    <2> QED BY <2>1, ShortenUrlAssumption DEF Behind
  <1>4. ASSUME GenerateSlug(r) \/ TriesExhausted(r)
        PROVE  /\ long_url'[r] \in LongUrls
               /\ \A n \in Behind(r)' : Taken(long_url'[r], n)
    <2>1. /\ pc[r] = "while" /\ pc'[r] # "while" /\ long_url'[r] = long_url[r]
          /\ nth_try'[r] = nth_try[r] + 1 /\ nth_try[r] \in 1..MaxTries + 1
      BY <1>4 DEF GenerateSlug, TriesExhausted, TypeInv, TypeOK
    <2>2. long_url[r] \in LongUrls /\ Running(r)
      BY <2>1 DEF Running, TypeInv, LocalsOK
    <2>3. \A n \in Behind(r)' : n \in Behind(r)
      BY <2>1, ShortenUrlAssumption DEF Behind
    <2> QED BY <2>1, <2>2, <2>3 DEF TriedInv
  <1>5. ASSUME GetCollision(r)
        PROVE  /\ long_url'[r] \in LongUrls
               /\ \A n \in Behind(r)' : Taken(long_url'[r], n)
    <2> DEFINE u == long_url[r]
               k == nth_try[r]
    <2>1. /\ pc[r] = "get" /\ long_url'[r] = u /\ nth_try'[r] = k
          /\ db[generated_short_url[r]] \notin {None, u}
      BY <1>5 DEF GetCollision, locals
    <2>2. /\ u \in LongUrls /\ k \in 2..MaxTries /\ Running(r)
          /\ generated_short_url[r] \in SlugsAt(u, k)
      BY <2>1 DEF Running, TypeInv, LocalsOK
    <2>3. Taken(u, k)
      BY <2>1, <2>2 DEF Taken, Repeatable, SlugsAt
    <2>4. \A n \in Behind(r)' : n = k \/ n \in Behind(r)
      <3> TAKE n \in Behind(r)'
      <3>1. n \in 2..MaxTries /\ (n < k \/ n = k)
        BY <2>1 DEF Behind
      <3>2. n < k => n \in Behind(r)
        BY <3>1 DEF Behind
      <3> QED BY <3>1, <3>2
    <2> QED BY <2>1, <2>2, <2>3, <2>4 DEF TriedInv
  <1>6. ASSUME GetNotFound(r)
        PROVE  /\ long_url'[r] \in LongUrls
               /\ \A n \in Behind(r)' : Taken(long_url'[r], n)
    BY <1>1, <1>6 DEF GetNotFound, locals, Running, TypeInv, TypeOK
  <1>7. ~RanOutOfHashes(r) /\ ~GetSame(r) /\ ~GetFails(r) /\ ~PutOk(r) /\ ~PutFails(r)
        /\ ~Respond(r) /\ ~Restart /\ ~PowerLoss
    BY DEF RanOutOfHashes, GetSame, GetFails, PutOk, PutFails, Return, Respond, Restart,
           PowerLoss, ForgetRequests, Running, TypeInv, TypeOK
  <1>8. ASSUME Flush \/ (\E s \in Slugs : Redirect(s)) \/ UNCHANGED vars
        PROVE  pc'[r] = pc[r] /\ long_url'[r] = long_url[r] /\ nth_try'[r] = nth_try[r]
    BY <1>8 DEF Flush, Redirect, vars, locals
  <1>9. ASSUME pc'[r] = pc[r], long_url'[r] = long_url[r], nth_try'[r] = nth_try[r]
        PROVE  /\ long_url'[r] \in LongUrls
               /\ \A n \in Behind(r)' : Taken(long_url'[r], n)
    BY <1>1, <1>9 DEF Running
  <1> QED BY <1>2, <1>3, <1>4, <1>5, <1>6, <1>7, <1>8, <1>9 DEF Next, Worker

LEMMA TriedInvNext ==
  ASSUME TypeInv, Repeatable, ~PowerMayFail, ChosenSlugIsFree, TriedInv, [Next]_vars
  PROVE  TriedInv'
  <1> SUFFICES ASSUME NEW r \in Requests, Running(r)', NEW n \in Behind(r)'
               PROVE  Taken(long_url[r], n)'
    BY DEF TriedInv
  <1>1. n \in 2..MaxTries /\ long_url'[r] \in LongUrls /\ Taken(long_url'[r], n)
    BY BehindSteps DEF Behind
  <1>2. \A u \in LongUrls : Taken(u, n) => Taken(u, n)'
    BY <1>1, TakenStays
  <1> QED BY <1>1, <1>2 DEF Taken, SlugsAt

LEMMA FirstFreeTryNext ==
  ASSUME TypeInv, TypeInv', ~PowerMayFail, ChosenSlugIsFree, TriedInv, FirstFreeTry,
         [Next]_vars
  PROVE  FirstFreeTry'
  <1> SUFFICES ASSUME NEW s \in Slugs, db'[s] # None
               PROVE  \E n \in 2..MaxTries : /\ s \in SlugsAt(db'[s], n)
                                             /\ \A m \in 2..n - 1 : Taken(db[s], m)'
    BY DEF FirstFreeTry, SlugsAt
  <1> DEFINE u == db'[s]
  <1>0. u \in LongUrls
    BY DEF TypeInv, TypeOK
  <1> SUFFICES \E n \in 2..MaxTries : /\ s \in SlugsAt(u, n)
                                      /\ \A m \in 2..n - 1 : Taken(u, m)
    <2>1. PICK n \in 2..MaxTries : /\ s \in SlugsAt(u, n)
                                   /\ \A m \in 2..n - 1 : Taken(u, m)
      OBVIOUS
    <2>2. \A m \in 2..n - 1 : m \in 2..MaxTries
      BY ShortenUrlAssumption
    <2>3. \A v \in LongUrls, m \in 2..MaxTries : Taken(v, m) => Taken(v, m)'
      BY TakenStays
    <2>4. \A m \in 2..n - 1 : Taken(db[s], m)'
      BY <1>0, <2>1, <2>2, <2>3 DEF Taken, SlugsAt
    <2> QED BY <2>1, <2>4
  <1>1. CASE db[s] = u
    BY <1>1 DEF FirstFreeTry
  <1>2. CASE db[s] # u
    <2>1. PICK r \in Requests : pc[r] = "put" /\ db' = Stored(r)
      BY <1>2, DbSteps DEF PowerLoss
    <2>2. s = generated_short_url[r] /\ u = long_url[r]
      BY <1>2, <2>1 DEF Stored, TypeInv, TypeOK
    <2>3. PICK n \in 2..MaxTries : /\ s \in SlugsAt(u, n)
                                   /\ n = nth_try[r] \/ n < nth_try[r]
      BY <2>1, <2>2, ShortenUrlAssumption DEF TypeInv, LocalsOK
    <2>4. \A m \in 2..n - 1 : m \in Behind(r)
      <3> TAKE m \in 2..n - 1
      <3>1. nth_try[r] \in Nat
        BY ShortenUrlAssumption DEF TypeInv, TypeOK
      <3>2. m \in 2..MaxTries /\ m < nth_try[r]
        BY <2>3, <3>1, ShortenUrlAssumption
      <3> QED BY <3>2 DEF Behind
    <2>5. Running(r)
      BY <2>1 DEF Running
    <2> QED BY <2>2, <2>3, <2>4, <2>5 DEF TriedInv
  <1> QED BY <1>1, <1>2

(* When moreover a try always makes the same slug and there are no power    *)
(* losses, shortening a URL again gives the slug it already has: no URL has *)
(* two entries, however many requests for it ran at once.                   *)
THEOREM RaceFreeOneSlugPerUrl ==
  ASSUME RaceFree, Repeatable, ~PowerMayFail PROVE Spec => []OneSlugPerUrl
  <1>1. Init => TriedInv /\ FirstFreeTry
    BY DEF Init, TriedInv, FirstFreeTry, Running
  <1>2. /\ TypeInv /\ TypeInv' /\ SafeInv /\ TriedInv /\ FirstFreeTry /\ [Next]_vars
        => TriedInv' /\ FirstFreeTry'
    BY TriedInvNext, FirstFreeTryNext DEF SafeInv
  <1>3. ASSUME TypeInv, FirstFreeTry PROVE OneSlugPerUrl
    <2> SUFFICES ASSUME NEW s \in Slugs, NEW t \in Slugs, db[s] # None, db[s] = db[t]
                 PROVE  s = t
      BY DEF OneSlugPerUrl
    <2> DEFINE u == db[s]
    <2>1. PICK n \in 2..MaxTries : s \in SlugsAt(u, n) /\ \A i \in 2..n - 1 : Taken(u, i)
      BY <1>3 DEF FirstFreeTry
    <2>2. PICK m \in 2..MaxTries : t \in SlugsAt(u, m) /\ \A i \in 2..m - 1 : Taken(u, i)
      BY <1>3 DEF FirstFreeTry
    <2>3. ~Taken(u, n) /\ ~Taken(u, m)
      BY <2>1, <2>2 DEF Taken
    <2>4. n = m
      BY <2>1, <2>2, <2>3, ShortenUrlAssumption
    <2>5. u \in LongUrls
      BY <1>3 DEF TypeInv, TypeOK
    <2> QED BY <2>1, <2>2, <2>4, <2>5 DEF Repeatable, SlugsAt
  <1> QED BY <1>1, <1>2, <1>3, TypeInvariant, RaceFreeSafety, PTL DEF Spec

-----------------------------------------------------------------------------
(* A step of do_shorten_url is a step of the abstract map, or none.         *)
LEMMA StepSimulation ==
  ASSUME TypeInv, SafeInv, [Next]_vars
  PROVE  [Abstract!Next]_<<db, told>>
  <1> USE DEF Abstract!Next, Abstract!Store, Abstract!Tell, Abstract!Forget
  <1>1. ASSUME NEW r \in Requests, PutOk(r) \/ PutFails(r)
        PROVE  [Abstract!Next]_<<db, told>>
    <2> DEFINE s == generated_short_url[r]
               u == long_url[r]
    <2>1. s \in Slugs /\ u \in LongUrls /\ db[s] \in {None, u}
      BY <1>1, HeldSlug DEF PutOk, PutFails, SafeInv, ChosenSlugIsFree
    <2>2. UNCHANGED told /\ (UNCHANGED db \/ db' = [db EXCEPT ![s] = u])
      BY <1>1 DEF PutOk, PutFails, Stored
    <2>3. CASE db[s] = None
      BY <2>1, <2>2, <2>3
    <2>4. CASE db[s] = u
      BY <2>1, <2>2, <2>4 DEF TypeInv, TypeOK
    <2> QED BY <2>1, <2>3, <2>4
  <1>2. ASSUME NEW r \in Requests, Respond(r)
        PROVE  [Abstract!Next]_<<db, told>>
    <2>1. CASE result[r] = None
      BY <1>2, <2>1 DEF Respond
    <2>2. CASE result[r] # None
      <3>1. /\ result[r] \in Slugs /\ long_url[r] \in LongUrls
            /\ db[result[r]] = long_url[r]
        BY <1>2, <2>2 DEF Respond, SafeInv, AnswersHold, TypeInv, TypeOK, LocalsOK
      <3> QED BY <1>2, <2>2, <3>1 DEF Respond
    <2> QED BY <2>1, <2>2
  <1>3. ASSUME NEW s \in Slugs, Redirect(s)
        PROVE  [Abstract!Next]_<<db, told>>
    <2>1. db[s] \in LongUrls
      BY <1>3 DEF Redirect, TypeInv, TypeOK
    <2> QED BY <1>3, <2>1 DEF Redirect
  <1>4. CASE PowerLoss
    <2> DEFINE S == {s \in Slugs : durable[s] = None}
    <2>1. \A s \in Slugs : durable[s] = IF s \in S THEN None ELSE db[s]
      BY DEF SafeInv, DurableWithinDb
    <2>2. db' = [s \in Slugs |-> IF s \in S THEN None ELSE db[s]]
      BY <1>4, <2>1 DEF PowerLoss, TypeInv, TypeOK
    <2>3. PowerMayFail /\ UNCHANGED told
      BY <1>4 DEF PowerLoss
    <2>4. Abstract!Forget(S)
      BY <2>2, <2>3
    <2>5. S \in SUBSET Slugs
      OBVIOUS
    <2> QED BY <2>4, <2>5
  <1>5. \/ UNCHANGED <<db, told>>
        \/ \E r \in Requests : PutOk(r) \/ PutFails(r) \/ Respond(r)
        \/ \E s \in Slugs : Redirect(s)
        \/ PowerLoss
    BY DEF Next, vars, Worker, do_shorten_url, GenerateSlug, RanOutOfHashes,
           TriesExhausted, GetNotFound, GetSame, GetCollision, GetFails, Flush,
           Restart
  <1> QED BY <1>1, <1>2, <1>3, <1>4, <1>5

(* When requests with a common candidate do not overlap and the last try is *)
(* harmless, the concurrent program with its crashes and power losses       *)
(* implements the abstract map of UrlMap.tla: no slug is ever rebound, and  *)
(* no client is told of a binding that is not there.                        *)
THEOREM RaceFreeImplementsUrlMap ==
  ASSUME RaceFree PROVE Spec => ImplementsUrlMap
  <1>1. Init => Abstract!Init
    BY DEF Init, Abstract!Init
  <1>2. TypeInv /\ SafeInv /\ [Next]_vars => [Abstract!Next]_<<db, told>>
    BY StepSimulation
  <1> QED
    BY <1>1, <1>2, TypeInvariant, RaceFreeSafety, PTL
       DEF Spec, ImplementsUrlMap, Abstract!Spec
=============================================================================
