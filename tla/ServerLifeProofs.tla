-------------------------- MODULE ServerLifeProofs --------------------------
(***************************************************************************)
(* Proofs about ServerLife.tla for any number of IO threads and redirects.  *)
(***************************************************************************)
EXTENDS ServerLife, TLAPS

NoneNew == \A t \in Threads : thread[t] # "new"
NoneStopped == \A t \in Threads : thread[t] # "stopped"

(* Threads stop after the signal, and the first to stop is the only one.    *)
ThreadInv ==
  /\ \E t \in Threads : thread[t] # "off"
  /\ signalled => NoneNew
  /\ NoneStopped \/ signalled
  /\ \A t, u \in Threads : thread[t] = "stopped" /\ thread[u] = "stopped" => t = u

(* A thread that is in the middle of something is one of the server.        *)
DoingInv ==
  \A t \in Threads :
    /\ doing[t] = "starting" => thread[t] = "new"
    /\ doing[t] \notin {"idle", "starting"} => thread[t] = "up"
    /\ doing[t] = "stopping" => signalled /\ given[t] = None

(* The counters, the cache and the timer are those of threads of this       *)
(* server, and are there from the first start to the first stop.            *)
PointerInv ==
  /\ \A t \in services \cup ({ip_access_count_svc_, timer_} \ {None}) : thread[t] # "off"
  /\ NoneStopped /\ (\E t \in Threads : thread[t] = "up") =>
       /\ ip_access_count_svc_ \in services
       /\ timer_ # None /\ static_file_cache_ # None
  /\ ~NoneStopped =>
       /\ ip_access_count_svc_ # None /\ ip_access_count_svc_ \notin services
       /\ static_file_cache_ = None

(* The timer of a request is that of a thread of this server.               *)
GivenInv ==
  \A t \in Threads : given[t] # None => thread[t] = "up" /\ thread[given[t]] # "off"

Transfers(t) == transfer[t] = "streaming" \/ doing[t] \in {"routed", "appending"}

(* Up to the signal a transfer has the cache there is.                      *)
TransferInv ==
  \A t \in Threads : Transfers(t) =>
    /\ NoneNew /\ thread[t] # "off"
    /\ signalled \/ (cache_[t] # None /\ cache_[t] = static_file_cache_)

(* A redirect is not answered before its lookup is over, and a handler that *)
(* is deleted during the lookup is that of a client that left.              *)
RedirectInv ==
  \A r \in Requests :
    /\ handler[r] = "live" => response[r] = 0 \/ lookup[r] = "done"
    /\ handler[r] = "deleted" /\ Looking(r) => r \in left

LifeInv ==
  /\ TypeOK
  /\ ThreadInv
  /\ DoingInv
  /\ PointerInv
  /\ GivenInv
  /\ TransferInv
  /\ RedirectInv
  /\ MisuseHasItsCause

-----------------------------------------------------------------------------
(* LifeInv holds of a server that was just set up.                          *)
LEMMA InitInv == Init => LifeInv
<1> SUFFICES ASSUME Init PROVE LifeInv
  OBVIOUS
<1>1. TypeOK
  BY DEF Init, TypeOK, Doings
<1>2. ThreadInv /\ DoingInv /\ GivenInv
  BY DEF Init, ThreadInv, DoingInv, GivenInv, NoneNew, NoneStopped
<1>3. PointerInv
  BY DEF Init, PointerInv, NoneStopped
<1>4. TransferInv /\ RedirectInv /\ MisuseHasItsCause
  BY DEF Init, TransferInv, Transfers, RedirectInv, MisuseHasItsCause
<1> QED
  BY <1>1, <1>2, <1>3, <1>4 DEF LifeInv

(* A misuse that has its cause: nothing but server changes.                 *)
LEMMA CausedMisuse ==
  ASSUME LifeInv, NEW what \in Misuses, Misuse(what),
         what \in {"race", "counters", "timer"} => ~OneThread,
         what = "cache" => signalled,
         what = "handler" => \E r \in left : handler[r] = "deleted"
  PROVE  LifeInv'
<1> USE DEF Misuse, threads, shared, static, redirect
<1>1. TypeOK'
  BY DEF LifeInv, TypeOK
<1>2. ThreadInv' /\ PointerInv' /\ DoingInv' /\ GivenInv' /\ TransferInv'
  BY DEF LifeInv, ThreadInv, DoingInv, PointerInv, GivenInv, TransferInv,
         Transfers, NoneNew, NoneStopped
<1>3. RedirectInv'
  BY DEF LifeInv, RedirectInv, Looking
<1>4. MisuseHasItsCause'
  BY DEF MisuseHasItsCause, OneThread
<1> QED
  BY <1>1, <1>2, <1>3, <1>4 DEF LifeInv

(* Two threads of the server are more than one.                             *)
LEMMA TwoThreads ==
  ASSUME NEW t \in Threads, NEW u \in Threads, t # u,
         thread[t] # "off", thread[u] # "off"
  PROVE  ~OneThread
BY DEF OneThread

(* When a thread that runs finds that the counters are gone, another one    *)
(* has stopped.                                                             *)
LEMMA CountersGone ==
  ASSUME LifeInv, NEW t \in Threads, thread[t] = "up",
         ip_access_count_svc_ \notin services
  PROVE  ~OneThread
<1>1. PICK u \in Threads : thread[u] = "stopped"
  BY DEF LifeInv, PointerInv, NoneStopped
<1> QED
  BY <1>1, TwoThreads

(* Whoever else is changing something is a second thread.                   *)
LEMMA ContendedByTwo ==
  ASSUME LifeInv, NEW t \in Threads, thread[t] # "off", NEW memory, "idle" \notin memory,
         Contended(t, memory)
  PROVE  ~OneThread
<1>1. PICK u \in Threads \ {t} : doing[u] \in memory
  BY DEF Contended
<1>2. thread[u] # "off"
  BY <1>1 DEF LifeInv, DoingInv
<1> QED
  BY <1>1, <1>2, TwoThreads

(* A race with another thread, on whatever memory.                          *)
LEMMA RaceStep ==
  ASSUME LifeInv, NEW t \in Threads, thread[t] # "off",
         NEW memory \in {Pointers, Counters, Cache}, Contended(t, memory), Misuse("race")
  PROVE  LifeInv'
<1>1. "idle" \notin memory
  BY DEF Pointers, Counters, Cache
<1>2. ~OneThread
  BY <1>1, ContendedByTwo
<1> QED
  BY <1>2, CausedMisuse DEF Misuses

(* A step of one thread that leaves the server's threads, what they share   *)
(* and the redirects alone.                                                 *)
LEMMA LocalStep ==
  ASSUME LifeInv, server = "up",
         UNCHANGED <<thread, signalled, shared, redirect, server>>,
         doing' \in [Threads -> Doings], given' \in [Threads -> Threads \cup {None}],
         transfer' \in [Threads -> {"none", "streaming"}],
         cache_' \in [Threads -> Threads \cup {None}],
         DoingInv', GivenInv', TransferInv'
  PROVE  LifeInv'
<1> USE DEF shared, redirect
<1>1. TypeOK'
  BY DEF LifeInv, TypeOK
<1>2. ThreadInv' /\ PointerInv'
  BY DEF LifeInv, ThreadInv, PointerInv, NoneNew, NoneStopped
<1>3. RedirectInv' /\ MisuseHasItsCause'
  BY DEF LifeInv, RedirectInv, Looking, MisuseHasItsCause
<1> QED
  BY <1>1, <1>2, <1>3 DEF LifeInv

LEMMA BeginStep ==
  ASSUME LifeInv, NEW t \in Threads, Start(t) \/ Stop(t)
  PROVE  LifeInv'
<1>1. /\ Free(t) /\ thread[t] \in {"new", "up"}
      /\ \/ thread[t] = "new" /\ ChangePointers(t, "starting")
         \/ /\ thread[t] = "up" /\ signalled /\ given[t] = None
            /\ ChangePointers(t, "stopping")
  BY DEF Start, Stop, Serves, Dropped
<1>2. CASE Contended(t, Pointers)
  BY <1>1, <1>2, RaceStep DEF ChangePointers
<1>3. CASE ~Contended(t, Pointers)
  <2> USE DEF Goes, static
  <2>1. /\ UNCHANGED <<thread, signalled, shared, static, redirect, server>>
        /\ \E where \in Pointers : doing' = [doing EXCEPT ![t] = where]
    BY <1>1, <1>3 DEF ChangePointers, Pointers
  <2>2. doing' \in [Threads -> Doings]
    BY <2>1 DEF LifeInv, TypeOK, Doings
  <2>3. DoingInv'
    BY <1>1, <1>3, <2>1 DEF LifeInv, TypeOK, DoingInv, ChangePointers
  <2>4. GivenInv'
    BY <2>1 DEF LifeInv, GivenInv
  <2>5. TransferInv'
    BY <2>1 DEF LifeInv, TypeOK, TransferInv, Transfers, NoneNew, Pointers, shared
  <2> QED
    BY <1>1, <2>1, <2>2, <2>3, <2>4, <2>5, LocalStep DEF LifeInv, TypeOK, Free
<1> QED
  BY <1>2, <1>3

LEMMA StartStep ==
  ASSUME LifeInv, NEW t \in Threads, onServerStart(t)
  PROVE  LifeInv'
<1> USE DEF onServerStart, Goes, static, redirect
<1>1. thread[t] = "new" /\ ~signalled /\ NoneStopped
  BY DEF LifeInv, ThreadInv, DoingInv, NoneNew
<1>2. \A u \in Threads : ~Transfers(u)
  BY <1>1 DEF LifeInv, TransferInv, NoneNew
<1>3. TypeOK'
  BY DEF LifeInv, TypeOK, Doings
<1>4. \A u \in Threads : /\ thread'[u] = IF u = t THEN "up" ELSE thread[u]
                         /\ doing'[u] = IF u = t THEN "idle" ELSE doing[u]
  BY DEF LifeInv, TypeOK
<1>5. ThreadInv'
  BY <1>1, <1>4 DEF LifeInv, TypeOK, ThreadInv, NoneNew, NoneStopped
<1>6. DoingInv'
  BY <1>4 DEF LifeInv, DoingInv
<1>7. PointerInv'
  <2>1. NoneStopped'
    BY <1>1, <1>4 DEF NoneStopped
  <2>2. \A u \in services \cup {t} : thread'[u] # "off"
    BY <1>4 DEF LifeInv, TypeOK, PointerInv
  <2> QED
    BY <2>1, <2>2, ServerLifeAssumption DEF PointerInv
<1>8. GivenInv'
  BY <1>4 DEF LifeInv, TypeOK, GivenInv
<1>9. TransferInv'
  BY <1>2, <1>4 DEF TransferInv, Transfers
<1>10. RedirectInv' /\ MisuseHasItsCause'
  BY DEF LifeInv, RedirectInv, Looking, MisuseHasItsCause
<1> QED
  BY <1>3, <1>5, <1>6, <1>7, <1>8, <1>9, <1>10 DEF LifeInv

LEMMA StopStep ==
  ASSUME LifeInv, NEW t \in Threads, onServerStop(t)
  PROVE  LifeInv'
<1> USE DEF onServerStop
<1>a. thread[t] = "up" /\ signalled /\ given[t] = None
  BY DEF LifeInv, DoingInv
<1>1. CASE ip_access_count_svc_ \notin services \/ Contended(t, Counters)
  <2>1. Misuse("counters")
    BY <1>1
  <2>2. "idle" \notin Counters
    BY DEF Counters
  <2>3. ~OneThread
    BY <1>a, <1>1, <2>2, CountersGone, ContendedByTwo
  <2> QED
    BY <2>1, <2>3, CausedMisuse DEF Misuses
<1>2. CASE ip_access_count_svc_ \in services /\ ~Contended(t, Counters)
  <2> USE <1>2 DEF Goes, static, redirect
  <2>1. NoneStopped /\ NoneNew
    BY <1>a DEF LifeInv, ThreadInv, PointerInv
  <2>2. TypeOK'
    BY DEF LifeInv, TypeOK, Doings
  <2>3. \A u \in Threads : /\ thread'[u] = IF u = t THEN "stopped" ELSE thread[u]
                           /\ doing'[u] = IF u = t THEN "idle" ELSE doing[u]
    BY DEF LifeInv, TypeOK
  <2>4. ThreadInv'
    BY <1>a, <2>1, <2>3 DEF LifeInv, TypeOK, ThreadInv, NoneNew, NoneStopped
  <2>5. DoingInv'
    BY <2>3 DEF LifeInv, DoingInv
  <2>6. PointerInv'
    <3>1. ~NoneStopped'
      BY <2>3 DEF NoneStopped
    <3>2. ip_access_count_svc_ # None
      BY ServerLifeAssumption DEF LifeInv, TypeOK
    <3>3. \A u \in services \cup {ip_access_count_svc_} : thread'[u] # "off"
      BY <2>3 DEF LifeInv, TypeOK, PointerInv
    <3> QED
      BY <3>1, <3>2, <3>3 DEF PointerInv
  <2>7. GivenInv'
    BY <1>a, <2>3 DEF LifeInv, TypeOK, GivenInv
  <2>8. TransferInv'
    BY <1>a, <2>1, <2>3 DEF LifeInv, TransferInv, Transfers, NoneNew
  <2>9. RedirectInv' /\ MisuseHasItsCause'
    BY DEF LifeInv, RedirectInv, Looking, MisuseHasItsCause
  <2> QED
    BY <2>2, <2>4, <2>5, <2>6, <2>7, <2>8, <2>9 DEF LifeInv
<1> QED
  BY <1>1, <1>2

LEMMA CreateStep ==
  ASSUME LifeInv, NEW t \in Threads, CreateMakeUrlHandler(t)
  PROVE  LifeInv'
<1> USE DEF CreateMakeUrlHandler, Serves, Listening, Free
<1>1. CASE Contended(t, Pointers)
  BY <1>1, RaceStep
<1>2. CASE ~Contended(t, Pointers)
  <2> USE <1>2 DEF Goes
  <2>1. doing' \in [Threads -> Doings] /\ given' \in [Threads -> Threads \cup {None}]
    BY DEF LifeInv, TypeOK, Doings
  <2>2. DoingInv'
    BY DEF LifeInv, TypeOK, DoingInv
  <2>3. timer_ # None => thread[timer_] # "off"
    BY DEF LifeInv, PointerInv
  <2>4. GivenInv'
    BY <2>3 DEF LifeInv, TypeOK, GivenInv
  <2>5. TransferInv'
    BY DEF LifeInv, TypeOK, TransferInv, Transfers, NoneNew, shared
  <2> QED
    BY <2>1, <2>2, <2>4, <2>5, LocalStep DEF LifeInv, TypeOK
<1> QED
  BY <1>1, <1>2

LEMMA LogStep ==
  ASSUME LifeInv, NEW t \in Threads, LogAccess(t)
  PROVE  LifeInv'
<1> USE DEF LogAccess
<1>a. thread[t] = "up"
  BY DEF LifeInv, DoingInv
<1>1. CASE ip_access_count_svc_ \notin services
  <2>1. Misuse("counters") /\ ~OneThread
    BY <1>a, <1>1, CountersGone
  <2> QED
    BY <2>1, CausedMisuse DEF Misuses
<1>2. CASE ip_access_count_svc_ \in services /\ Contended(t, Counters)
  BY <1>a, <1>2, RaceStep
<1>3. CASE ip_access_count_svc_ \in services /\ ~Contended(t, Counters)
  <2> USE <1>3 DEF Goes, static
  <2>1. doing' \in [Threads -> Doings]
    BY DEF LifeInv, TypeOK, Doings, Counters
  <2>2. DoingInv'
    BY <1>a DEF LifeInv, TypeOK, DoingInv
  <2>3. GivenInv'
    BY DEF LifeInv, GivenInv
  <2>4. TransferInv'
    BY DEF LifeInv, TypeOK, TransferInv, Transfers, NoneNew, shared
  <2> QED
    BY <2>1, <2>2, <2>3, <2>4, LocalStep DEF LifeInv, TypeOK
<1> QED
  BY <1>1, <1>2, <1>3

LEMMA NotFoundStep ==
  ASSUME LifeInv, NEW t \in Threads, MakeNotFoundHandler(t)
  PROVE  LifeInv'
<1> USE DEF MakeNotFoundHandler, Serves, Listening, Free, Goes, static
<1>1. doing' \in [Threads -> Doings]
  BY DEF LifeInv, TypeOK, Doings
<1>2. DoingInv'
  BY DEF LifeInv, TypeOK, DoingInv
<1>3. GivenInv'
  BY DEF LifeInv, GivenInv
<1>4. TransferInv'
  BY DEF LifeInv, TypeOK, TransferInv, Transfers, NoneNew, shared
<1> QED
  BY <1>1, <1>2, <1>3, <1>4, LocalStep DEF LifeInv, TypeOK

LEMMA JudgeStep ==
  ASSUME LifeInv, NEW t \in Threads, Judge(t)
  PROVE  LifeInv'
<1> USE DEF Judge, Goes
<1>1. \A u \in Threads : given'[u] \in {given[u], None}
  BY DEF LifeInv, TypeOK
<1>2. doing' \in [Threads -> Doings] /\ given' \in [Threads -> Threads \cup {None}]
  BY DEF LifeInv, TypeOK, Doings
<1>3. DoingInv'
  BY <1>1 DEF LifeInv, TypeOK, DoingInv
<1>4. GivenInv'
  BY <1>1 DEF LifeInv, GivenInv
<1>5. TransferInv'
  BY DEF LifeInv, TypeOK, TransferInv, Transfers, NoneNew, shared
<1> QED
  BY <1>2, <1>3, <1>4, <1>5, LocalStep DEF LifeInv, TypeOK

(* The request's timer is used, or never will be.                           *)
LEMMA TimerStep ==
  ASSUME LifeInv, NEW t \in Threads, UseTimer(t) \/ DropMakeUrlHandler(t)
  PROVE  LifeInv'
<1>a. server = "up" /\ given[t] # None /\ thread[t] = "up" /\ thread[given[t]] # "off"
  BY DEF UseTimer, DropMakeUrlHandler, Free, LifeInv, GivenInv
<1>1. CASE UseTimer(t) /\ ~(given[t] = t /\ timer_ = t)
  <2>1. Misuse("timer")
    BY <1>1 DEF UseTimer
  <2>2. CASE given[t] # t
    <3>1. given[t] \in Threads
      BY <1>a DEF LifeInv, TypeOK
    <3> QED
      BY <1>a, <2>1, <2>2, <3>1, TwoThreads, CausedMisuse DEF Misuses
  <2>3. CASE timer_ # t
    <3>1. ~OneThread
      <4>1. CASE NoneStopped
        <5>1. timer_ \in Threads /\ thread[timer_] # "off"
          BY <1>a, <4>1 DEF LifeInv, TypeOK, PointerInv
        <5> QED
          BY <1>a, <2>3, <5>1, TwoThreads
      <4>2. CASE ~NoneStopped
        BY <1>a, <4>2, TwoThreads DEF NoneStopped
      <4> QED
        BY <4>1, <4>2
    <3> QED
      BY <2>1, <3>1, CausedMisuse DEF Misuses
  <2> QED
    BY <1>1, <2>2, <2>3
<1>2. CASE given' = [given EXCEPT ![t] = None]
           /\ UNCHANGED <<threads, shared, transfer, cache_, redirect, server>>
  <2> USE <1>2 DEF threads
  <2>1. given' \in [Threads -> Threads \cup {None}]
    BY DEF LifeInv, TypeOK
  <2>2. \A u \in Threads : given'[u] \in {given[u], None}
    BY DEF LifeInv, TypeOK
  <2>3. DoingInv' /\ GivenInv'
    BY <2>2 DEF LifeInv, DoingInv, GivenInv
  <2>4. TransferInv'
    BY DEF LifeInv, TransferInv, Transfers, NoneNew, shared
  <2> QED
    BY <1>a, <2>1, <2>3, <2>4, LocalStep DEF LifeInv, TypeOK
<1> QED
  BY <1>1, <1>2 DEF UseTimer, DropMakeUrlHandler

LEMMA RouteStep ==
  ASSUME LifeInv, NEW t \in Threads, RouteStatic(t)
  PROVE  LifeInv'
<1> USE DEF RouteStatic, Serves, Listening, Free
<1>1. CASE Contended(t, Pointers)
  BY <1>1, RaceStep
<1>2. CASE ~Contended(t, Pointers)
  <2> USE <1>2 DEF Goes
  <2>1. doing' \in [Threads -> Doings] /\ cache_' \in [Threads -> Threads \cup {None}]
    BY DEF LifeInv, TypeOK, Doings
  <2>2. DoingInv'
    BY DEF LifeInv, TypeOK, DoingInv
  <2>3. GivenInv'
    BY DEF LifeInv, GivenInv
  <2>4. NoneNew /\ (signalled \/ static_file_cache_ # None)
    BY DEF LifeInv, ThreadInv, PointerInv, NoneNew
  <2>5. TransferInv'
    BY <2>4 DEF LifeInv, TypeOK, TransferInv, Transfers, NoneNew, shared
  <2> QED
    BY <2>1, <2>2, <2>3, <2>5, LocalStep DEF LifeInv, TypeOK
<1> QED
  BY <1>1, <1>2

(* The cache is misused by a race, or because it is gone.                   *)
LEMMA CacheMisuse ==
  ASSUME LifeInv, NEW t \in Threads, Transfers(t),
         \/ Contended(t, Cache) /\ Misuse("race")
         \/ (cache_[t] # static_file_cache_ \/ cache_[t] = None) /\ Misuse("cache")
  PROVE  LifeInv'
<1>1. CASE Contended(t, Cache) /\ Misuse("race")
  BY <1>1, RaceStep DEF LifeInv, TransferInv
<1>2. CASE (cache_[t] # static_file_cache_ \/ cache_[t] = None) /\ Misuse("cache")
  <2>1. signalled
    BY <1>2 DEF LifeInv, TransferInv
  <2> QED
    BY <1>2, <2>1, CausedMisuse DEF Misuses
<1> QED
  BY <1>1, <1>2

LEMMA StaticStep ==
  ASSUME LifeInv, NEW t \in Threads,
         BadPath(t) \/ LookInCache(t) \/ AppendChunk(t) \/ append_data(t)
  PROVE  LifeInv'
<1> DEFINE Moves == /\ server = "up" /\ Transfers(t)
                    /\ \E where \in {"idle", "appending"} :
                         doing' = [doing EXCEPT ![t] = where]
                    /\ transfer' \in [Threads -> {"none", "streaming"}]
                    /\ \A u \in Threads \ {t} : transfer'[u] = transfer[u]
                    /\ UNCHANGED <<thread, signalled, shared, given, cache_, redirect, server>>
                    /\ doing'[t] = "appending" => thread[t] = "up"
<1>1. BadPath(t) \/ append_data(t) => Moves
  BY DEF BadPath, append_data, Goes, Transfers, static, LifeInv, TypeOK
<1>2. LookInCache(t) =>
        Moves \/ \/ Contended(t, Cache) /\ Misuse("race")
                 \/ (cache_[t] # static_file_cache_ \/ cache_[t] = None) /\ Misuse("cache")
  BY DEF LookInCache, UseCache, Goes, Transfers, static, LifeInv, TypeOK
<1>3. AppendChunk(t) =>
        Moves \/ \/ Contended(t, Cache) /\ Misuse("race")
                 \/ (cache_[t] # static_file_cache_ \/ cache_[t] = None) /\ Misuse("cache")
  <2> USE DEF AppendChunk, UseCache, Transfers
  <2>1. CASE static_file_cache_ = None
    BY <2>1
  <2>2. CASE static_file_cache_ # None
    <3>1. AppendChunk(t) => thread[t] = "up"
      BY <2>2 DEF LifeInv, TypeOK, TransferInv, PointerInv, NoneNew, NoneStopped
    <3> QED
      BY <3>1 DEF Goes, Free, static, LifeInv, TypeOK
  <2> QED
    BY <2>1, <2>2
<1>4. Transfers(t)
  BY DEF BadPath, LookInCache, AppendChunk, append_data, Transfers
<1>5. CASE Moves
  <2> USE <1>5
  <2>1. doing' \in [Threads -> Doings]
    BY DEF LifeInv, TypeOK, Doings, Cache
  <2>2. DoingInv'
    BY DEF LifeInv, TypeOK, DoingInv
  <2>3. GivenInv'
    BY DEF LifeInv, GivenInv
  <2>4. TransferInv'
    BY <1>4 DEF LifeInv, TypeOK, TransferInv, Transfers, NoneNew, shared
  <2> QED
    BY <2>1, <2>2, <2>3, <2>4, LocalStep DEF LifeInv, TypeOK
<1> QED
  BY <1>1, <1>2, <1>3, <1>4, <1>5, CacheMisuse

LEMMA RedirectStep ==
  ASSUME LifeInv, NEW r \in Requests,
         \/ \E t \in Threads : onRequest(r, t)
         \/ Lookup(r) \/ requestComplete(r) \/ onError(r)
  PROVE  LifeInv'
<1>1. CASE LookupDangles(r)
  <2>1. Misuse("handler") /\ r \in left /\ handler[r] = "deleted"
    BY <1>1 DEF LookupDangles, LifeInv, RedirectInv
  <2> QED
    BY <2>1, CausedMisuse DEF Misuses
<1>2. CASE ~LookupDangles(r)
  <2> DEFINE Moves == \/ \E t \in Threads : onRequest(r, t)
                      \/ get_fast(r) \/ Respond(r)
                      \/ requestComplete(r) \/ onError(r)
  <2>1. Moves
    BY <1>2 DEF Lookup
  <2>2. UNCHANGED <<threads, shared, static, server>> /\ server = "up"
    BY <2>1 DEF onRequest, NewHandler, Serves, Listening, get_fast, Respond, LookupReturns,
                Free, requestComplete, onError, Delete
  <2>3. /\ ThreadInv' /\ PointerInv' /\ DoingInv' /\ GivenInv' /\ TransferInv'
        /\ MisuseHasItsCause'
    BY <2>2 DEF threads, shared, static, LifeInv, ThreadInv, DoingInv, PointerInv, GivenInv,
                TransferInv, Transfers, MisuseHasItsCause, NoneNew, NoneStopped
  <2>4. /\ handler' \in [Requests -> {"none", "live", "deleted"}]
        /\ on' \in [Requests -> Threads \cup {None}]
        /\ lookup' \in [Requests -> {"none", "queued", "writing", "evb", "done"}]
        /\ response' \in [Requests -> {0, 301, 404}]
        /\ left' \subseteq Requests
    BY <2>1 DEF LifeInv, TypeOK, onRequest, NewHandler, get_fast, Respond, LookupReturns,
                requestComplete, onError, Delete
  <2>5. TypeOK'
    BY <2>2, <2>4 DEF threads, shared, static, LifeInv, TypeOK
  <2>6. RedirectInv'
    <3> USE DEF LifeInv, TypeOK, RedirectInv, Looking
    <3>1. CASE \E t \in Threads : onRequest(r, t)
      BY <3>1 DEF onRequest, NewHandler
    <3>2. CASE get_fast(r)
      BY <3>2 DEF get_fast
    <3>3. CASE Respond(r)
      BY <3>3 DEF Respond, LookupReturns
    <3>4. CASE requestComplete(r)
      BY <3>4 DEF requestComplete, Delete
    <3>5. CASE onError(r)
      BY <3>5 DEF onError, Delete
    <3> QED
      BY <2>1, <3>1, <3>2, <3>3, <3>4, <3>5
  <2> QED
    BY <2>3, <2>5, <2>6 DEF LifeInv
<1> QED
  BY <1>1, <1>2

LEMMA NextInv == LifeInv /\ [Next]_vars => LifeInv'
<1> SUFFICES ASSUME LifeInv, [Next]_vars PROVE LifeInv'
  OBVIOUS
<1>1. CASE Signal
  <2> USE <1>1 DEF Signal, Listening, shared, static, redirect
  <2>1. TypeOK'
    BY DEF LifeInv, TypeOK
  <2>2. ThreadInv' /\ PointerInv' /\ DoingInv' /\ GivenInv' /\ TransferInv'
    BY DEF LifeInv, ThreadInv, DoingInv, PointerInv, GivenInv, TransferInv, Transfers,
           NoneNew, NoneStopped
  <2>3. RedirectInv' /\ MisuseHasItsCause'
    BY DEF LifeInv, RedirectInv, Looking, MisuseHasItsCause
  <2> QED
    BY <2>1, <2>2, <2>3 DEF LifeInv
<1>2. CASE UNCHANGED vars
  <2> USE <1>2 DEF vars, threads, shared, static, redirect
  <2>1. TypeOK'
    BY DEF LifeInv, TypeOK
  <2>2. ThreadInv' /\ PointerInv' /\ DoingInv' /\ GivenInv' /\ TransferInv'
    BY DEF LifeInv, ThreadInv, DoingInv, PointerInv, GivenInv, TransferInv, Transfers,
           NoneNew, NoneStopped
  <2>3. RedirectInv' /\ MisuseHasItsCause'
    BY DEF LifeInv, RedirectInv, Looking, MisuseHasItsCause, OneThread
  <2> QED
    BY <2>1, <2>2, <2>3 DEF LifeInv
<1>3. ASSUME NEW t \in Threads, Start(t) \/ Stop(t) PROVE LifeInv'
  BY <1>3, BeginStep
<1>4. ASSUME NEW t \in Threads, onServerStart(t) \/ onServerStop(t) PROVE LifeInv'
  BY <1>4, StartStep, StopStep
<1>5. ASSUME NEW t \in Threads, \/ CreateMakeUrlHandler(t) \/ MakeNotFoundHandler(t)
                                \/ LogAccess(t) \/ Judge(t)
      PROVE  LifeInv'
  BY <1>5, CreateStep, NotFoundStep, LogStep, JudgeStep
<1>6. ASSUME NEW t \in Threads, UseTimer(t) \/ DropMakeUrlHandler(t) PROVE LifeInv'
  BY <1>6, TimerStep
<1>7. ASSUME NEW t \in Threads, \/ RouteStatic(t) \/ BadPath(t) \/ LookInCache(t)
                                \/ AppendChunk(t) \/ append_data(t)
      PROVE  LifeInv'
  BY <1>7, RouteStep, StaticStep
<1>8. ASSUME NEW r \in Requests,
             \/ \E t \in Threads : onRequest(r, t)
             \/ Lookup(r) \/ requestComplete(r) \/ onError(r)
      PROVE  LifeInv'
  BY <1>8, RedirectStep
<1> QED
  BY <1>1, <1>2, <1>3, <1>4, <1>5, <1>6, <1>7, <1>8 DEF Next, GoesOn

(* LifeInv is an invariant of the server, for any number of IO threads.     *)
THEOREM LifeInvariant == Spec => []LifeInv
BY InitInv, NextInv, PTL DEF Spec

(* The type invariant of the server.                                        *)
THEOREM TypeCorrect == Spec => []TypeOK
<1>1. LifeInv => TypeOK
  BY DEF LifeInv
<1> QED
  BY <1>1, LifeInvariant, PTL

(* Whatever the number of IO threads: the pointers, the counters, the cache *)
(* and the timer are used by two at once, and the counters and the timer    *)
(* after they are gone, only if there are two threads or more; the cache    *)
(* after it is gone only after the signal, and a redirect's handler only    *)
(* after its client left during the lookup.                                 *)
THEOREM MisuseTakesItsCause == Spec => []MisuseHasItsCause
<1>1. LifeInv => MisuseHasItsCause
  BY DEF LifeInv
<1> QED
  BY <1>1, LifeInvariant, PTL

(* A server all of whose threads have called onServerStop, and that misused *)
(* nothing, had one thread and has deleted its counters: LifeInv lets only  *)
(* one thread stop, and the counters that are left then were never made.    *)
THEOREM StopsCleanWithOneThread == Spec => []CleanStop
<1>1. ASSUME LifeInv PROVE CleanStop
  <2> SUFFICES ASSUME \A t \in Threads : thread[t] \in {"off", "stopped"}
               PROVE  services = {} /\ OneThread
    BY DEF CleanStop
  <2>1. PICK t \in Threads : thread[t] = "stopped"
    BY <1>1 DEF LifeInv, ThreadInv
  <2>2. \A u \in Threads : thread[u] # "off" <=> u = t
    BY <1>1, <2>1 DEF LifeInv, ThreadInv
  <2>3. ip_access_count_svc_ \in Threads /\ thread[ip_access_count_svc_] # "off"
    BY <1>1, <2>1 DEF LifeInv, TypeOK, PointerInv, NoneStopped
  <2>4. ip_access_count_svc_ = t /\ t \notin services
    BY <1>1, <2>1, <2>2, <2>3 DEF LifeInv, PointerInv, NoneStopped
  <2>5. services = {}
    BY <1>1, <2>2, <2>4 DEF LifeInv, TypeOK, PointerInv
  <2> QED
    BY <2>2, <2>5 DEF OneThread
<1> QED
  BY <1>1, LifeInvariant, PTL
=============================================================================
