------------------------- MODULE StaticHandlerProofs -------------------------
(***************************************************************************)
(* Proofs about StaticHandler.tla for any number of requests, chunks, tasks *)
(* and pauses.                                                              *)
(***************************************************************************)
EXTENDS StaticHandler, SequenceTheorems, TLAPS

Kind(r, k) == evb[r][k][1]
Posts(r) == Len(evb[r])   \* callbacks posted to the event loop
Sent(r) == Len(body[r])   \* chunks sent
Queue(r) == 1..Posts(r)

(* A request that never streamed has nothing to read with and nothing to    *)
(* run.                                                                     *)
Unstreamed(r) == response[r] \in {"none", "cached", "error"}

UnstreamedInv(r) ==
  /\ handler[r] = "new" <=> response[r] = "none"
  /\ handler[r] = "new" => r \notin danger /\ Sent(r) = 0 /\ finished_[r] = FALSE
  /\ Unstreamed(r) =>
       /\ file_[r] = Closed
       /\ read_file_scheduled_[r] = FALSE
       /\ \A t \in Tasks : task[r][t] = "off"
       /\ Posts(r) = 0
       /\ r \notin resumed

(* A task of read_file, or the callback that is its last, is under way as   *)
(* long as there is something to read or something that waits for it.       *)
Busy(r) ==
  \/ \E t \in Tasks : task[r][t] # "off"
  \/ \E k \in Queue(r) : Kind(r, k) = "done"

WakeInv(r) ==
  handler[r] = "live" /\ r \notin danger =>
    /\ file_[r] # Closed /\ paused_[r] = FALSE => Busy(r)
    /\ read_file_scheduled_[r] = TRUE => Busy(r)

(* The one task of a request that was not resumed: read_file_scheduled_     *)
(* stands from its start to the callback that is the last in the queue, and *)
(* the end of the file or of the stream is followed by that callback only.  *)
TaskInv(r) ==
  /\ \A t \in Tasks \ {1} : task[r][t] = "off"
  /\ task[r][1] # "off" =>
       read_file_scheduled_[r] = TRUE /\ \A k \in Queue(r) : Kind(r, k) # "done"
  /\ task[r][1] = "off" /\ Posts(r) # 0 =>
       read_file_scheduled_[r] = TRUE /\ Kind(r, Posts(r)) = "done"
  /\ \A k \in Queue(r) : Kind(r, k) = "done" => k = Posts(r)
  /\ task[r][1] \in {"read", "post"} => file_[r] # Closed
  /\ \A k \in Queue(r) : Kind(r, k) \in {"eof", "abort"} =>
       file_[r] = Closed /\ \A j \in Queue(r) : j > k => Kind(r, j) = "done"

EndInv(r) ==
  response[r] \in {"complete", "aborted"} =>
    file_[r] = Closed /\ \A k \in Queue(r) : Kind(r, k) = "done"

(* Where the chunks are: those sent, those in the queue and the one at hand *)
(* are the first ones of the file, in order.                                *)
Streaming(r) == response[r] = "headers" /\ finished_[r] = FALSE

SentInv(r) == Streaming(r) => \A i \in 1..Sent(r) : body[r][i] = i

QueuedInv(r) ==
  Streaming(r) =>
    \A k \in Queue(r) :
      /\ Kind(r, k) = "chunk" => evb[r][k][2] = Sent(r) + k
      /\ Kind(r, k) = "eof" => Sent(r) + k = Chunks + 1

FileInv(r) ==
  Streaming(r) /\ file_[r] # Closed =>
    /\ task[r][1] \in {"while", "read"} => file_[r] = Sent(r) + Posts(r) + 1
    /\ task[r][1] = "post" =>
         file_[r] = Sent(r) + Posts(r) + 2 /\ got[r][1] = file_[r] - 1

ContentInv(r) == SentInv(r) /\ QueuedInv(r) /\ FileInv(r)

WholeInv(r) == response[r] = "complete" => body[r] = File

RequestInv(r) ==
  /\ \A t \in Tasks : task[r][t] = "post" => got[r][t] # 0
  /\ handler[r] = "deleted" => read_file_scheduled_[r] = FALSE
  /\ UnstreamedInv(r)
  /\ WakeInv(r)
  /\ r \notin resumed => TaskInv(r) /\ EndInv(r) /\ ContentInv(r) /\ WholeInv(r)

Alone(r) == \A q \in Requests \ {r} : Unstreamed(q)
Prefix(chunks) == IF Len(chunks) = 0 THEN NotCached ELSE chunks

(* As long as one request alone has streamed, the cache has what it sent.   *)
CacheInv ==
  /\ (\A q \in Requests : Unstreamed(q)) => cache_ = NotCached
  /\ \A r \in Requests \ resumed : Alone(r) =>
       /\ Streaming(r) => cache_ = Prefix(body[r])
       /\ response[r] = "complete" => cache_ = Prefix(File)

TransferInv ==
  /\ TypeOK
  /\ \A r \in Requests : RequestInv(r)
  /\ DangerTakesResume
  /\ CacheInv

-----------------------------------------------------------------------------
(* What an event of the queue is.                                           *)
LEMMA EventKinds ==
  /\ <<"done">> \in Events /\ <<"done">>[1] = "done"
  /\ <<"eof">> \in Events /\ <<"eof">>[1] = "eof"
  /\ <<"abort">> \in Events /\ <<"abort">>[1] = "abort"
  /\ \A c \in 1..Chunks :
       /\ <<"chunk", c>> \in Events
       /\ <<"chunk", c>>[1] = "chunk" /\ <<"chunk", c>>[2] = c
BY DEF Events

LEMMA EventCases ==
  ASSUME NEW e \in Events
  PROVE  /\ e[1] \in {"done", "eof", "abort", "chunk"}
         /\ e[1] = "done" <=> e = <<"done">>
         /\ e[1] = "chunk" => e[2] \in 1..Chunks
<1>1. CASE e \in {<<"done">>, <<"eof">>, <<"abort">>}
  BY <1>1
<1>2. CASE e \in {"chunk"} \X (1..Chunks)
  <2>1. PICK c \in 1..Chunks : e = <<"chunk", c>>
    BY <1>2
  <2> QED
    BY <2>1
<1> QED
  BY <1>1, <1>2 DEF Events

(* An event is posted: the queue of r gets one more, the others stay.       *)
LEMMA Posted ==
  ASSUME TypeOK, NEW r \in Requests, NEW e \in Events, Post(r, e)
  PROVE  /\ evb' \in [Requests -> Seq(Events)]
         /\ Len(evb[r]) \in Nat
         /\ Len(evb'[r]) = Len(evb[r]) + 1
         /\ \A k \in 1..Len(evb[r]) : evb'[r][k] = evb[r][k]
         /\ evb'[r][Len(evb[r]) + 1] = e
         /\ \A q \in Requests \ {r} : evb'[q] = evb[q]
<1>1. evb[r] \in Seq(Events)
  BY DEF TypeOK
<1>2. Append(evb[r], e) \in Seq(Events)
  BY <1>1, AppendProperties
<1>3. evb'[r] = Append(evb[r], e)
  BY DEF TypeOK, Post
<1>4. evb' \in [Requests -> Seq(Events)]
  BY <1>2 DEF TypeOK, Post
<1>5. \A q \in Requests \ {r} : evb'[q] = evb[q]
  BY DEF TypeOK, Post
<1>6. Len(evb[r]) \in Nat
  BY <1>1, LenProperties
<1> QED
  BY <1>1, <1>3, <1>4, <1>5, <1>6, AppendProperties

(* The first event is taken from the queue of r.                            *)
LEMMA Taken ==
  ASSUME TypeOK, NEW r \in Requests, evb[r] # << >>,
         evb' = [evb EXCEPT ![r] = Tail(@)]
  PROVE  /\ evb' \in [Requests -> Seq(Events)]
         /\ Len(evb[r]) \in Nat \ {0}
         /\ Len(evb'[r]) = Len(evb[r]) - 1
         /\ \A k \in 1..Len(evb[r]) - 1 : evb'[r][k] = evb[r][k + 1]
         /\ Head(evb[r]) = evb[r][1] /\ evb[r][1] \in Events
         /\ \A q \in Requests \ {r} : evb'[q] = evb[q]
<1>1. evb[r] \in Seq(Events)
  BY DEF TypeOK
<1>2. /\ Tail(evb[r]) \in Seq(Events) /\ Len(Tail(evb[r])) = Len(evb[r]) - 1
      /\ \A k \in 1..Len(Tail(evb[r])) : Tail(evb[r])[k] = evb[r][k + 1]
      /\ Head(evb[r]) = evb[r][1] /\ Head(evb[r]) \in Events
  BY <1>1, HeadTailProperties
<1>3. Len(evb[r]) \in Nat \ {0}
  BY <1>1, LenProperties, EmptySeq
<1>4. evb'[r] = Tail(evb[r]) /\ \A q \in Requests \ {r} : evb'[q] = evb[q]
  BY DEF TypeOK
<1>5. evb' \in [Requests -> Seq(Events)]
  BY <1>2 DEF TypeOK
<1> QED
  BY <1>2, <1>3, <1>4, <1>5

States == {"off", "while", "read", "post"}

(* One task moves.                                                          *)
LEMMA TaskMoves ==
  ASSUME TypeOK, NEW r \in Requests, NEW t \in Tasks, NEW s \in States,
         task' = [task EXCEPT ![r][t] = s]
  PROVE  /\ task' \in [Requests -> [Tasks -> States]]
         /\ task'[r][t] = s
         /\ \A u \in Tasks \ {t} : task'[r][u] = task[r][u]
         /\ \A q \in Requests \ {r} : task'[q] = task[q]
BY DEF TypeOK, States

LEMMA GotMoves ==
  ASSUME TypeOK, NEW r \in Requests, NEW t \in Tasks, NEW c \in 0..Chunks,
         got' = [got EXCEPT ![r][t] = c]
  PROVE  /\ got' \in [Requests -> [Tasks -> 0..Chunks]]
         /\ got'[r][t] = c
         /\ \A u \in Tasks \ {t} : got'[r][u] = got[r][u]
         /\ \A q \in Requests \ {r} : got'[q] = got[q]
BY DEF TypeOK

(* A task is added: the first that is free.                                 *)
LEMMA TaskAdded ==
  ASSUME TypeOK, NEW r \in Requests, AddTask(r)
  PROVE  \E t \in Tasks :
           /\ task[r][t] = "off"
           /\ \A u \in Tasks : task[r][u] = "off" => t <= u
           /\ task' \in [Requests -> [Tasks -> States]]
           /\ task'[r][t] = "while"
           /\ \A u \in Tasks \ {t} : task'[r][u] = task[r][u]
           /\ \A q \in Requests \ {r} : task'[q] = task[q]
<1>1. PICK t \in Idle(r) : /\ \A u \in Idle(r) : t <= u
                          /\ task' = [task EXCEPT ![r][t] = "while"]
  BY DEF AddTask
<1>2. t \in Tasks /\ task[r][t] = "off"
  BY <1>1 DEF Idle
<1>3. "while" \in States
  BY DEF States
<1> QED
  <2>1. /\ task' \in [Requests -> [Tasks -> States]]
        /\ task'[r][t] = "while"
        /\ \A u \in Tasks \ {t} : task'[r][u] = task[r][u]
        /\ \A q \in Requests \ {r} : task'[q] = task[q]
    BY <1>1, <1>2, <1>3, TaskMoves
  <2>2. \A u \in Tasks : task[r][u] = "off" => t <= u
    BY <1>1 DEF Idle
  <2> QED
    BY <1>2, <2>1, <2>2

-----------------------------------------------------------------------------
(* A step of one request changes nothing of another, but may add it to      *)
(* danger once it is there.                                                 *)
Same(q) ==
  /\ handler'[q] = handler[q] /\ response'[q] = response[q] /\ body'[q] = body[q]
  /\ file_'[q] = file_[q] /\ paused_'[q] = paused_[q] /\ finished_'[q] = finished_[q]
  /\ read_file_scheduled_'[q] = read_file_scheduled_[q]
  /\ task'[q] = task[q] /\ got'[q] = got[q] /\ evb'[q] = evb[q]
  /\ q \in resumed' <=> q \in resumed
  /\ q \in danger => q \in danger'
  /\ q \in danger' => q \in danger \/ handler[q] # "new"

LEMMA SameKeepsInv ==
  ASSUME NEW q \in Requests, RequestInv(q), Same(q)
  PROVE  RequestInv(q)'
<1> USE DEF Same
<1>1. UnstreamedInv(q)'
  BY DEF RequestInv, UnstreamedInv, Unstreamed, Posts, Sent
<1>2. WakeInv(q)'
  BY DEF RequestInv, WakeInv, Busy, Queue, Kind, Posts, Sent
<1>3. q \notin resumed => TaskInv(q)'
  BY DEF RequestInv, TaskInv, Queue, Kind, Posts, Sent
<1>4. q \notin resumed => EndInv(q)' /\ WholeInv(q)'
  BY DEF RequestInv, EndInv, WholeInv, Queue, Kind, Posts
<1>5. q \notin resumed => ContentInv(q)'
  <2>1. SentInv(q) => SentInv(q)'
    BY DEF SentInv, Streaming, Sent
  <2>2. QueuedInv(q) => QueuedInv(q)'
    BY DEF QueuedInv, Streaming, Queue, Kind, Posts, Sent
  <2>3. FileInv(q) => FileInv(q)'
    BY DEF FileInv, Streaming, Posts, Sent
  <2> QED
    BY <2>1, <2>2, <2>3 DEF RequestInv, ContentInv
<1> QED
  BY <1>1, <1>2, <1>3, <1>4, <1>5 DEF RequestInv

Others(r) == \A q \in Requests \ {r} : Same(q)

(* Streaming, and the cache, as far as r is concerned.                      *)
LEMMA CacheKept ==
  ASSUME CacheInv, NEW r \in Requests, Others(r), cache_' = cache_,
         Unstreamed(r)' => Unstreamed(r),
         r \in resumed => r \in resumed',
         Streaming(r)' => Streaming(r) /\ body'[r] = body[r],
         response'[r] = "complete" => response[r] = "complete"
  PROVE  CacheInv'
<1>1. \A q \in Requests : Unstreamed(q)' => Unstreamed(q)
  BY DEF Others, Same, Unstreamed
<1>2. \A q \in Requests : Alone(q)' => Alone(q)
  BY <1>1 DEF Alone
<1>3. \A q \in Requests : q \in resumed => q \in resumed'
  BY DEF Others, Same
<1>4. ASSUME NEW q \in Requests, Streaming(q)'
      PROVE  Streaming(q) /\ body'[q] = body[q]
  BY <1>4 DEF Others, Same, Streaming
<1>5. ASSUME NEW q \in Requests, response'[q] = "complete"
      PROVE  response[q] = "complete"
  BY <1>5 DEF Others, Same
<1>6. Prefix(File)' = Prefix(File)
  BY DEF Prefix, File, NotCached
<1>7. \A q \in Requests : body'[q] = body[q] => Prefix(body[q])' = Prefix(body[q])
  BY DEF Prefix, NotCached
<1>8. (\A q \in Requests : Unstreamed(q)') => cache_' = NotCached
  BY <1>1 DEF CacheInv
<1>9. ASSUME NEW q \in Requests \ resumed', Alone(q)'
      PROVE  /\ Streaming(q)' => cache_' = Prefix(body[q])'
             /\ response'[q] = "complete" => cache_' = Prefix(File)'
  BY <1>2, <1>3, <1>4, <1>5, <1>6, <1>7, <1>9 DEF CacheInv
<1> QED
  BY <1>8, <1>9 DEF CacheInv, NotCached

LEMMA DangerKept ==
  ASSUME TypeOK, DangerTakesResume, NEW r \in Requests, Others(r),
         r \notin danger, danger' = danger
  PROVE  DangerTakesResume'
BY DEF TypeOK, DangerTakesResume, Others, Same

LEMMA StepOf ==
  ASSUME TransferInv, NEW r \in Requests, Others(r),
         TypeOK', RequestInv(r)', DangerTakesResume', CacheInv'
  PROVE  TransferInv'
BY SameKeepsInv DEF TransferInv, Others

-----------------------------------------------------------------------------
(* What TypeOK says about one request.                                      *)
LEMMA Types ==
  ASSUME TypeOK, NEW r \in Requests
  PROVE  /\ evb[r] \in Seq(Events) /\ Posts(r) \in Nat
         /\ body[r] \in Seq(0..Chunks) /\ Sent(r) \in Nat
         /\ file_[r] \in 0..Chunks + 1 /\ Chunks \in Nat
         /\ paused_[r] \in BOOLEAN /\ finished_[r] \in BOOLEAN
         /\ read_file_scheduled_[r] \in BOOLEAN
         /\ 1 \in Tasks
         /\ \A t \in Tasks : task[r][t] \in States /\ got[r][t] \in 0..Chunks
<1>1. evb[r] \in Seq(Events) /\ body[r] \in Seq(0..Chunks)
  BY DEF TypeOK
<1>2. Posts(r) \in Nat /\ Sent(r) \in Nat
  BY <1>1, LenProperties DEF Posts, Sent
<1>3. 1 \in Tasks /\ Chunks \in Nat
  BY StaticHandlerAssumption DEF Tasks
<1> QED
  BY <1>1, <1>2, <1>3 DEF TypeOK, States

LEMMA InitInv == Init => TransferInv
<1> SUFFICES ASSUME Init PROVE TransferInv
  OBVIOUS
<1>1. /\ << >> \in Seq(0..Chunks) /\ << >> \in Seq(Events) /\ Len(<< >>) = 0
      /\ <<0>> \in Seq(0..Chunks)
  BY EmptySeq, StaticHandlerAssumption
<1>2. body \in [Requests -> Seq(0..Chunks)] /\ evb \in [Requests -> Seq(Events)]
  BY <1>1 DEF Init
<1>3. TypeOK
  BY <1>1, <1>2, StaticHandlerAssumption DEF Init, TypeOK, NotCached, Closed
<1>4. ASSUME NEW r \in Requests PROVE RequestInv(r)
  <2>1. Posts(r) = 0 /\ Sent(r) = 0 /\ Queue(r) = {}
    BY <1>1 DEF Init, Queue, Posts, Sent
  <2>2. UnstreamedInv(r) /\ WakeInv(r)
    BY <2>1 DEF Init, UnstreamedInv, Unstreamed, WakeInv
  <2>3. TaskInv(r) /\ EndInv(r) /\ ContentInv(r) /\ WholeInv(r)
    BY <2>1, StaticHandlerAssumption
       DEF Init, TaskInv, EndInv, ContentInv, SentInv, QueuedInv, FileInv, Streaming,
           WholeInv, Tasks
  <2> QED
    BY <2>2, <2>3 DEF Init, RequestInv
<1>5. DangerTakesResume /\ CacheInv
  BY DEF Init, DangerTakesResume, CacheInv, Streaming
<1> QED
  BY <1>3, <1>4, <1>5 DEF TransferInv

(* onRequest without streaming.                                             *)
LEMMA AnswerStep ==
  ASSUME TransferInv, NEW r \in Requests, onRequestRefused(r) \/ onRequestCached(r)
  PROVE  TransferInv'
<1> USE DEF onRequestRefused, onRequestCached, Respond, flags, tasks
<1>1. body' \in [Requests -> Seq(0..Chunks)]
  <2>1. body \in [Requests -> Seq(0..Chunks)] /\ cache_ \in Seq(0..Chunks)
    BY DEF TransferInv, TypeOK
  <2>2. body' = body \/ body' = [body EXCEPT ![r] = cache_]
    OBVIOUS
  <2> HIDE DEF onRequestRefused, onRequestCached
  <2> QED
    BY <2>1, <2>2
<1>2. TypeOK'
  BY <1>1 DEF TransferInv, TypeOK
<1>3. Others(r)
  BY DEF TransferInv, TypeOK, Others, Same
<1>4. /\ handler[r] = "new" /\ response[r] = "none" /\ r \notin danger
      /\ handler'[r] = "live" /\ response'[r] \in {"cached", "error"}
      /\ Unstreamed(r)
  BY DEF TransferInv, TypeOK, RequestInv, UnstreamedInv, Unstreamed, Posts, Sent
<1>5. UnstreamedInv(r)'
  BY <1>4 DEF TransferInv, RequestInv, UnstreamedInv, Unstreamed, Posts, Sent
<1>6. WakeInv(r)'
  BY <1>4 DEF TransferInv, RequestInv, UnstreamedInv, WakeInv
<1>7. TaskInv(r)'
  BY <1>4 DEF TransferInv, RequestInv, UnstreamedInv, TaskInv, Queue, Kind, Posts, Sent
<1>8. EndInv(r)' /\ ContentInv(r)' /\ WholeInv(r)'
  BY <1>4 DEF EndInv, ContentInv, SentInv, QueuedInv, FileInv, Streaming, WholeInv
<1>9. RequestInv(r)'
  BY <1>4, <1>5, <1>6, <1>7, <1>8 DEF TransferInv, RequestInv, UnstreamedInv
<1>10. CacheInv'
  BY <1>3, <1>4, CacheKept DEF TransferInv, Streaming
<1>11. DangerTakesResume'
  BY <1>3, <1>4, DangerKept DEF TransferInv
<1> QED
  BY <1>2, <1>3, <1>9, <1>10, <1>11, StepOf

(* onRequest for a file that is not cached: the first task is added.        *)
LEMMA StreamStep ==
  ASSUME TransferInv, NEW r \in Requests, onRequest(r)
  PROVE  TransferInv'
<1> USE DEF onRequest, Respond
<1>1. /\ handler[r] = "new" /\ response[r] = "none" /\ r \notin danger
      /\ Unstreamed(r) /\ Sent(r) = 0 /\ finished_[r] = FALSE
      /\ \A t \in Tasks : task[r][t] = "off"
      /\ Posts(r) = 0 /\ r \notin resumed
  BY DEF TransferInv, TypeOK, RequestInv, UnstreamedInv, Unstreamed, Posts, Sent
<1>2. PICK t \in Tasks :
           /\ task[r][t] = "off"
           /\ \A u \in Tasks : task[r][u] = "off" => t <= u
           /\ task' \in [Requests -> [Tasks -> States]]
           /\ task'[r][t] = "while"
           /\ \A u \in Tasks \ {t} : task'[r][u] = task[r][u]
           /\ \A q \in Requests \ {r} : task'[q] = task[q]
  BY TaskAdded DEF TransferInv
<1>3. t = 1
  BY <1>1, <1>2, StaticHandlerAssumption DEF Tasks
<1>4. TypeOK'
  <2>1. 1 \in 0..Chunks + 1
    BY StaticHandlerAssumption
  <2>2. file_' \in [Requests -> 0..Chunks + 1]
    BY <2>1 DEF TransferInv, TypeOK
  <2> QED
    BY <1>2, <2>2 DEF TransferInv, TypeOK, States
<1>5. Others(r)
  BY <1>2 DEF TransferInv, TypeOK, Others, Same
<1>6. /\ handler'[r] = "live" /\ response'[r] = "headers" /\ file_'[r] = 1
      /\ read_file_scheduled_'[r] = TRUE
  BY DEF TransferInv, TypeOK
<1>7. UnstreamedInv(r)'
  BY <1>6 DEF UnstreamedInv, Unstreamed, Posts, Sent
<1>8. WakeInv(r)'
  BY <1>2 DEF WakeInv, Busy
<1>9. TaskInv(r)'
  BY <1>1, <1>2, <1>3, <1>6 DEF TaskInv, Queue, Kind, Posts, Closed
<1>10. EndInv(r)' /\ ContentInv(r)' /\ WholeInv(r)'
  BY <1>1, <1>2, <1>3, <1>6
     DEF EndInv, ContentInv, SentInv, QueuedInv, FileInv, Streaming, WholeInv, Queue, Kind, Posts, Sent
<1>11. RequestInv(r)'
  BY <1>1, <1>2, <1>6, <1>7, <1>8, <1>9, <1>10 DEF RequestInv
<1>12. DangerTakesResume'
  BY <1>1, <1>5, DangerKept DEF TransferInv
<1>13. CacheInv'
  <2>1. \A q \in Requests \ {r} : Unstreamed(q)' => Unstreamed(q)
    BY <1>5 DEF Others, Same, Unstreamed
  <2>2. ~Unstreamed(r)'
    BY <1>6 DEF Unstreamed
  <2>3. \A q \in Requests \ {r} : ~Alone(q)'
    BY <2>2 DEF Alone
  <2>4. cache_' = NotCached
    BY DEF exists
  <2>5. Prefix(body[r])' = NotCached
    BY <1>1 DEF Prefix, Sent
  <2> QED
    BY <1>6, <2>2, <2>3, <2>4, <2>5 DEF CacheInv
<1> QED
  BY <1>4, <1>5, <1>11, <1>12, <1>13, StepOf

-----------------------------------------------------------------------------
(* A task that runs is that of a request that streams; the only one, if its *)
(* reading was not resumed.                                                 *)
LEMMA TaskRuns ==
  ASSUME TransferInv, NEW r \in Requests, NEW t \in Tasks, Live(r), task[r][t] # "off"
  PROVE  /\ r \notin danger /\ handler[r] = "live" /\ ~Unstreamed(r)
         /\ r \notin resumed => t = 1
BY DEF TransferInv, RequestInv, UnstreamedInv, TaskInv, Live

(* What all steps of a task have in common.                                 *)
LEMMA TaskStepOf ==
  ASSUME TransferInv, NEW r \in Requests, NEW t \in Tasks, Live(r), task[r][t] # "off",
         TypeOK', Others(r), danger' = danger,
         UNCHANGED <<cache_, handler, response, body, finished_, read_file_scheduled_, resumed>>,
         Busy(r)',
         \A u \in Tasks : task'[r][u] = "post" => got'[r][u] # 0,
         r \notin resumed => TaskInv(r)' /\ EndInv(r)' /\ ContentInv(r)'
  PROVE  TransferInv'
<1>1. r \notin danger /\ handler[r] = "live" /\ ~Unstreamed(r)
  BY TaskRuns
<1>2. UnstreamedInv(r)'
  BY <1>1 DEF TransferInv, RequestInv, UnstreamedInv, Unstreamed, Posts, Sent
<1>3. WakeInv(r)'
  BY DEF WakeInv
<1>4. r \notin resumed => WholeInv(r)'
  BY DEF TransferInv, RequestInv, WholeInv
<1>5. RequestInv(r)'
  BY <1>1, <1>2, <1>3, <1>4 DEF RequestInv
<1>6. CacheInv'
  BY <1>1, CacheKept DEF TransferInv, Unstreamed, Streaming
<1>7. DangerTakesResume'
  BY <1>1, DangerKept DEF TransferInv
<1> QED
  BY <1>5, <1>6, <1>7, StepOf

(* The queue of r after an event is posted to it.                           *)
LEMMA PostedTo ==
  ASSUME TypeOK, NEW r \in Requests, NEW e \in Events, Post(r, e)
  PROVE  /\ evb' \in [Requests -> Seq(Events)]
         /\ \A q \in Requests \ {r} : evb'[q] = evb[q]
         /\ Posts(r) \in Nat /\ Posts(r)' = Posts(r) + 1
         /\ Queue(r)' = Queue(r) \cup {Posts(r) + 1}
         /\ \A k \in Queue(r) : evb'[r][k] = evb[r][k] /\ Kind(r, k)' = Kind(r, k)
         /\ \A k \in Queue(r) : k \in Nat /\ k <= Posts(r)
         /\ \A k \in {Posts(r) + 1} : evb'[r][k] = e /\ Kind(r, k)' = e[1]
<1>1. /\ evb' \in [Requests -> Seq(Events)]
      /\ \A q \in Requests \ {r} : evb'[q] = evb[q]
      /\ Posts(r) \in Nat /\ Posts(r)' = Posts(r) + 1
      /\ \A k \in Queue(r) : evb'[r][k] = evb[r][k]
      /\ evb'[r][Posts(r) + 1] = e
  BY Posted DEF Queue, Posts
<1>2. Queue(r)' = 1..Posts(r) + 1
  BY <1>1 DEF Queue
<1>3. 1..Posts(r) + 1 = Queue(r) \cup {Posts(r) + 1}
  BY <1>1 DEF Queue
<1>4. \A k \in Queue(r) : k \in Nat /\ k <= Posts(r)
  BY <1>1 DEF Queue
<1> QED
  BY <1>1, <1>2, <1>3, <1>4 DEF Kind, Posts

LEMMA WhileReadsStep ==
  ASSUME TransferInv, NEW r \in Requests, NEW t \in Tasks, WhileReads(r, t)
  PROVE  TransferInv'
<1> USE DEF WhileReads, sending, flags
<1>1. Live(r) /\ task[r][t] # "off" /\ (r \notin resumed => t = 1)
  BY TaskRuns
<1>2. /\ task' \in [Requests -> [Tasks -> States]]
      /\ task'[r][t] = "read"
      /\ \A u \in Tasks \ {t} : task'[r][u] = task[r][u]
      /\ \A q \in Requests \ {r} : task'[q] = task[q]
  <2>1. TypeOK /\ "read" \in States
    BY DEF TransferInv, States
  <2>2. task' = [task EXCEPT ![r][t] = "read"]
    OBVIOUS
  <2> HIDE DEF WhileReads
  <2> QED
    BY <2>1, <2>2, TaskMoves
<1>3. TypeOK'
  BY <1>2 DEF TransferInv, TypeOK, States
<1>4. Others(r)
  BY <1>2 DEF Others, Same
<1>5. Busy(r)'
  BY <1>2 DEF Busy
<1>6. \A u \in Tasks : task'[r][u] = "post" => got'[r][u] # 0
  BY <1>2 DEF TransferInv, RequestInv
<1>7. ASSUME r \notin resumed PROVE TaskInv(r)'
  BY <1>1, <1>2, <1>7 DEF TransferInv, RequestInv, TaskInv, Queue, Kind, Posts, Sent
<1>8. ASSUME r \notin resumed PROVE EndInv(r)' /\ ContentInv(r)'
  <2>1. EndInv(r) /\ ContentInv(r)
    BY <1>8 DEF TransferInv, RequestInv
  <2>2. EndInv(r)'
    BY <2>1 DEF EndInv
  <2>3. SentInv(r)' /\ QueuedInv(r)'
    BY <2>1 DEF ContentInv, SentInv, QueuedInv, Streaming, Queue, Kind, Posts, Sent
  <2>4. FileInv(r)'
    BY <1>1, <1>2, <1>8, <2>1 DEF ContentInv, FileInv, Streaming, Posts, Sent
  <2> QED
    BY <2>2, <2>3, <2>4 DEF ContentInv
<1> QED
  BY <1>1, <1>3, <1>4, <1>5, <1>6, <1>7, <1>8, TaskStepOf

LEMMA WhileEndsStep ==
  ASSUME TransferInv, NEW r \in Requests, NEW t \in Tasks, WhileEnds(r, t)
  PROVE  TransferInv'
<1> USE DEF WhileEnds, sending, flags
<1>1. Live(r) /\ task[r][t] # "off" /\ (r \notin resumed => t = 1)
  BY TaskRuns
<1>2. /\ task' \in [Requests -> [Tasks -> States]]
      /\ task'[r][t] = "off"
      /\ \A u \in Tasks \ {t} : task'[r][u] = task[r][u]
      /\ \A q \in Requests \ {r} : task'[q] = task[q]
  <2>1. TypeOK /\ "off" \in States
    BY DEF TransferInv, States
  <2>2. task' = [task EXCEPT ![r][t] = "off"]
    OBVIOUS
  <2> HIDE DEF WhileEnds
  <2> QED
    BY <2>1, <2>2, TaskMoves
<1> DEFINE n == Posts(r)
<1>3. /\ evb' \in [Requests -> Seq(Events)]
      /\ \A q \in Requests \ {r} : evb'[q] = evb[q]
      /\ n \in Nat /\ Posts(r)' = n + 1
      /\ Queue(r)' = Queue(r) \cup {n + 1}
      /\ \A k \in Queue(r) : evb'[r][k] = evb[r][k] /\ Kind(r, k)' = Kind(r, k)
      /\ \A k \in Queue(r) : k \in Nat /\ k <= n
      /\ \A k \in {n + 1} : Kind(r, k)' = "done"
  BY PostedTo, EventKinds DEF TransferInv
<1>4. TypeOK'
  BY <1>2, <1>3 DEF TransferInv, TypeOK, States
<1>5. Others(r)
  BY <1>2, <1>3 DEF Others, Same
<1>6. Busy(r)'
  BY <1>3 DEF Busy
<1>7. \A u \in Tasks : task'[r][u] = "post" => got'[r][u] # 0
  BY <1>2 DEF TransferInv, RequestInv
<1>8. ASSUME r \notin resumed PROVE TaskInv(r)'
  <2>1. TaskInv(r) /\ task[r][1] = "while"
    BY <1>1, <1>8 DEF TransferInv, RequestInv
  <2> QED
    BY <1>1, <1>2, <1>3, <1>8, <2>1 DEF TaskInv
<1>9. ASSUME r \notin resumed PROVE EndInv(r)' /\ ContentInv(r)'
  <2>1. EndInv(r) /\ ContentInv(r)
    BY <1>9 DEF TransferInv, RequestInv
  <2>2. EndInv(r)'
    BY <1>3, <2>1 DEF EndInv
  <2>3. SentInv(r)' /\ FileInv(r)'
    BY <1>1, <1>2, <1>9, <2>1 DEF ContentInv, SentInv, FileInv, Streaming, Sent
  <2>4. QueuedInv(r)'
    BY <1>3, <2>1 DEF ContentInv, QueuedInv, Streaming, Sent
  <2> QED
    BY <2>2, <2>3, <2>4 DEF ContentInv
<1> QED
  BY <1>1, <1>4, <1>5, <1>6, <1>7, <1>8, <1>9, TaskStepOf

LEMMA ReadChunkStep ==
  ASSUME TransferInv, NEW r \in Requests, NEW t \in Tasks, ReadChunk(r, t)
  PROVE  TransferInv'
<1> USE DEF ReadChunk, sending, flags
<1>1. Live(r) /\ task[r][t] # "off" /\ (r \notin resumed => t = 1)
  BY TaskRuns
<1>2. /\ task' \in [Requests -> [Tasks -> States]]
      /\ task'[r][t] = "post"
      /\ \A u \in Tasks \ {t} : task'[r][u] = task[r][u]
      /\ \A q \in Requests \ {r} : task'[q] = task[q]
  <2>1. TypeOK /\ "post" \in States
    BY DEF TransferInv, States
  <2>2. task' = [task EXCEPT ![r][t] = "post"]
    OBVIOUS
  <2> HIDE DEF ReadChunk
  <2> QED
    BY <2>1, <2>2, TaskMoves
<1>3. file_[r] \in 0..Chunks /\ file_[r] \in 1..Chunks /\ Chunks \in Nat
  BY StaticHandlerAssumption
<1>4. /\ got' \in [Requests -> [Tasks -> 0..Chunks]]
      /\ got'[r][t] = file_[r]
      /\ \A u \in Tasks \ {t} : got'[r][u] = got[r][u]
      /\ \A q \in Requests \ {r} : got'[q] = got[q]
  <2>1. TypeOK
    BY DEF TransferInv
  <2>2. got' = [got EXCEPT ![r][t] = file_[r]]
    OBVIOUS
  <2>3. file_[r] \in 0..Chunks
    BY <1>3
  <2> HIDE DEF ReadChunk
  <2> QED
    BY <2>1, <2>2, <2>3, GotMoves
<1>5. /\ file_' \in [Requests -> 0..Chunks + 1] /\ file_'[r] = file_[r] + 1
      /\ \A q \in Requests \ {r} : file_'[q] = file_[q]
  <2>1. file_[r] + 1 \in 0..Chunks + 1
    BY <1>3
  <2> QED
    BY <2>1 DEF TransferInv, TypeOK
<1>6. TypeOK'
  BY <1>2, <1>4, <1>5 DEF TransferInv, TypeOK, States
<1>7. Others(r)
  BY <1>2, <1>4, <1>5 DEF Others, Same
<1>8. Busy(r)'
  BY <1>2 DEF Busy
<1>9. \A u \in Tasks : task'[r][u] = "post" => got'[r][u] # 0
  BY <1>2, <1>3, <1>4 DEF TransferInv, RequestInv
<1>10. ASSUME r \notin resumed PROVE TaskInv(r)'
  BY <1>1, <1>2, <1>3, <1>5, <1>10
     DEF TransferInv, RequestInv, TaskInv, Queue, Kind, Posts, Closed
<1>11. ASSUME r \notin resumed PROVE EndInv(r)' /\ ContentInv(r)'
  <2>1. Posts(r) \in Nat /\ Sent(r) \in Nat
    BY Types DEF TransferInv
  <2>2. EndInv(r) /\ ContentInv(r) /\ file_[r] # Closed
    BY <1>3, <1>11 DEF TransferInv, RequestInv, Closed
  <2>3. EndInv(r)'
    BY <2>2 DEF EndInv
  <2>4. SentInv(r)' /\ QueuedInv(r)'
    BY <2>2 DEF ContentInv, SentInv, QueuedInv, Streaming, Queue, Kind, Posts, Sent
  <2>5. FileInv(r)'
    <3>1. Streaming(r)' => file_[r] = Sent(r) + Posts(r) + 1
      BY <1>1, <1>11, <2>2 DEF ContentInv, FileInv, Streaming
    <3>2. /\ task'[r][1] = "post" /\ got'[r][1] = file_[r]
          /\ file_'[r] = file_[r] + 1
          /\ Sent(r)' = Sent(r) /\ Posts(r)' = Posts(r)
      BY <1>1, <1>2, <1>4, <1>5, <1>11 DEF Sent, Posts
    <3> HIDE DEF ReadChunk
    <3> QED
      BY <1>3, <2>1, <3>1, <3>2 DEF FileInv
  <2> QED
    BY <2>3, <2>4, <2>5 DEF ContentInv
<1> QED
  BY <1>1, <1>6, <1>7, <1>8, <1>9, <1>10, <1>11, TaskStepOf

LEMMA PostChunkStep ==
  ASSUME TransferInv, NEW r \in Requests, NEW t \in Tasks, PostChunk(r, t)
  PROVE  TransferInv'
<1> USE DEF PostChunk, sending, flags
<1>1. Live(r) /\ task[r][t] # "off" /\ (r \notin resumed => t = 1)
  BY TaskRuns
<1>2. /\ task' \in [Requests -> [Tasks -> States]]
      /\ task'[r][t] = "while"
      /\ \A u \in Tasks \ {t} : task'[r][u] = task[r][u]
      /\ \A q \in Requests \ {r} : task'[q] = task[q]
  <2>1. TypeOK /\ "while" \in States
    BY DEF TransferInv, States
  <2>2. task' = [task EXCEPT ![r][t] = "while"]
    OBVIOUS
  <2> HIDE DEF PostChunk
  <2> QED
    BY <2>1, <2>2, TaskMoves
<1>3. got[r][t] \in 1..Chunks /\ 0 \in 0..Chunks
  BY Types, StaticHandlerAssumption DEF TransferInv, RequestInv
<1>4. /\ got' \in [Requests -> [Tasks -> 0..Chunks]]
      /\ \A u \in Tasks \ {t} : got'[r][u] = got[r][u]
      /\ \A q \in Requests \ {r} : got'[q] = got[q]
  <2>1. TypeOK
    BY DEF TransferInv
  <2>2. got' = [got EXCEPT ![r][t] = 0]
    OBVIOUS
  <2> HIDE DEF PostChunk
  <2> QED
    BY <1>3, <2>1, <2>2, GotMoves
<1> DEFINE n == Posts(r)
<1>5. /\ evb' \in [Requests -> Seq(Events)]
      /\ \A q \in Requests \ {r} : evb'[q] = evb[q]
      /\ n \in Nat /\ Posts(r)' = n + 1
      /\ Queue(r)' = Queue(r) \cup {n + 1}
      /\ \A k \in Queue(r) : evb'[r][k] = evb[r][k] /\ Kind(r, k)' = Kind(r, k)
      /\ \A k \in Queue(r) : k \in Nat /\ k <= n
      /\ \A k \in {n + 1} : Kind(r, k)' = "chunk" /\ evb'[r][k][2] = got[r][t]
  BY <1>3, PostedTo, EventKinds DEF TransferInv
<1>6. TypeOK'
  BY <1>2, <1>4, <1>5 DEF TransferInv, TypeOK, States
<1>7. Others(r)
  BY <1>2, <1>4, <1>5 DEF Others, Same
<1>8. Busy(r)'
  BY <1>2 DEF Busy
<1>9. \A u \in Tasks : task'[r][u] = "post" => got'[r][u] # 0
  BY <1>2, <1>4 DEF TransferInv, RequestInv
<1>10. ASSUME r \notin resumed PROVE TaskInv(r)'
  <2>1. TaskInv(r) /\ task[r][1] = "post"
    BY <1>1, <1>10 DEF TransferInv, RequestInv
  <2> QED
    BY <1>1, <1>2, <1>5, <1>10, <2>1 DEF TaskInv
<1>11. ASSUME r \notin resumed PROVE EndInv(r)' /\ ContentInv(r)'
  <2>1. Sent(r) \in Nat /\ file_[r] \in Nat /\ file_[r] # Closed
    BY <1>1, <1>11, Types DEF TransferInv, RequestInv, TaskInv
  <2>2. EndInv(r) /\ ContentInv(r)
    BY <1>11 DEF TransferInv, RequestInv
  <2>3. EndInv(r)'
    BY <2>1, <2>2 DEF EndInv
  <2>4. Streaming(r)' => Streaming(r)
    BY DEF Streaming
  <2>5. Streaming(r) => file_[r] = Sent(r) + n + 2 /\ got[r][t] = file_[r] - 1
    BY <1>1, <1>11, <2>1, <2>2 DEF ContentInv, FileInv
  <2>6. SentInv(r)' /\ FileInv(r)'
    <3>1. /\ task'[r][1] = "while" /\ file_' = file_ /\ body' = body
          /\ Sent(r)' = Sent(r) /\ Posts(r)' = n + 1
      BY <1>1, <1>2, <1>5, <1>11 DEF Sent
    <3>2. SentInv(r)'
      BY <2>2, <2>4, <3>1 DEF ContentInv, SentInv
    <3>3. n \in Nat
      BY <1>5
    <3> HIDE DEF PostChunk, n
    <3>4. FileInv(r)'
      BY <2>1, <2>4, <2>5, <3>1, <3>3 DEF FileInv
    <3> QED
      BY <3>2, <3>4
  <2>7. QueuedInv(r)'
    <3> SUFFICES ASSUME Streaming(r), NEW k \in Queue(r) \cup {n + 1}
                 PROVE  /\ Kind(r, k)' = "chunk" => evb'[r][k][2] = Sent(r) + k
                        /\ Kind(r, k)' = "eof" => Sent(r) + k = Chunks + 1
      BY <1>5, <2>4 DEF QueuedInv, Sent
    <3>1. CASE k \in Queue(r)
      BY <1>5, <2>2, <3>1 DEF ContentInv, QueuedInv
    <3>2. CASE k = n + 1
      <4>1. Kind(r, k)' = "chunk" /\ evb'[r][k][2] = got[r][t] /\ n \in Nat
        BY <1>5, <3>2
      <4>2. file_[r] = Sent(r) + n + 2 /\ got[r][t] = file_[r] - 1
        BY <2>5
      <4>3. got[r][t] = Sent(r) + k
        BY <2>1, <3>2, <4>1, <4>2
      <4> QED
        BY <4>1, <4>3
    <3> QED
      BY <3>1, <3>2
  <2> QED
    BY <2>3, <2>6, <2>7 DEF ContentInv
<1> QED
  BY <1>1, <1>6, <1>7, <1>8, <1>9, <1>10, <1>11, TaskStepOf

(* The end of the file, and a read that fails.                              *)
LEMMA ReadEndsStep ==
  ASSUME TransferInv, NEW r \in Requests, NEW t \in Tasks, ReadEof(r, t) \/ ReadFails(r, t)
  PROVE  TransferInv'
<1> USE DEF ReadEof, ReadFails, sending, flags
<1>1. /\ Live(r) /\ task[r][t] = "read" /\ (r \notin resumed => t = 1)
      /\ file_[r] # Closed
  BY TaskRuns, StaticHandlerAssumption DEF Closed
<1>2. /\ task' \in [Requests -> [Tasks -> States]]
      /\ task'[r][t] = "while"
      /\ \A u \in Tasks \ {t} : task'[r][u] = task[r][u]
      /\ \A q \in Requests \ {r} : task'[q] = task[q]
  <2>1. TypeOK /\ "while" \in States
    BY DEF TransferInv, States
  <2>2. task' = [task EXCEPT ![r][t] = "while"]
    OBVIOUS
  <2> HIDE DEF ReadEof, ReadFails
  <2> QED
    BY <2>1, <2>2, TaskMoves
<1>3. /\ file_' \in [Requests -> 0..Chunks + 1] /\ file_'[r] = Closed
      /\ \A q \in Requests \ {r} : file_'[q] = file_[q]
  <2>1. Closed \in 0..Chunks + 1
    BY StaticHandlerAssumption DEF Closed
  <2>2. file_' = [file_ EXCEPT ![r] = Closed] /\ file_ \in [Requests -> 0..Chunks + 1]
    BY DEF TransferInv, TypeOK
  <2> QED
    BY <2>1, <2>2
<1> DEFINE n == Posts(r)
<1>4. PICK e \in Events : /\ Post(r, e) /\ e[1] \in {"eof", "abort"}
                          /\ e[1] = "eof" => file_[r] = Chunks + 1
  BY EventKinds
<1>5. /\ evb' \in [Requests -> Seq(Events)]
      /\ \A q \in Requests \ {r} : evb'[q] = evb[q]
      /\ n \in Nat /\ Posts(r)' = n + 1
      /\ Queue(r)' = Queue(r) \cup {n + 1}
      /\ \A k \in Queue(r) : evb'[r][k] = evb[r][k] /\ Kind(r, k)' = Kind(r, k)
      /\ \A k \in Queue(r) : k \in Nat /\ k <= n
      /\ \A k \in {n + 1} : /\ Kind(r, k)' \in {"eof", "abort"}
                            /\ Kind(r, k)' = "eof" => file_[r] = Chunks + 1
  <2>1. TypeOK
    BY DEF TransferInv
  <2> HIDE DEF ReadEof, ReadFails
  <2> QED
    BY <1>4, <2>1, PostedTo
<1>6. TypeOK'
  BY <1>2, <1>3, <1>5 DEF TransferInv, TypeOK, States
<1>7. Others(r)
  BY <1>2, <1>3, <1>5 DEF Others, Same
<1>8. Busy(r)'
  BY <1>2 DEF Busy
<1>9. \A u \in Tasks : task'[r][u] = "post" => got'[r][u] # 0
  BY <1>2 DEF TransferInv, RequestInv
<1>10. ASSUME r \notin resumed PROVE TaskInv(r)'
  <2>1. TaskInv(r)
    BY <1>10 DEF TransferInv, RequestInv
  <2> QED
    BY <1>1, <1>2, <1>3, <1>5, <1>10, <2>1 DEF TaskInv
<1>11. ASSUME r \notin resumed PROVE EndInv(r)' /\ ContentInv(r)'
  <2>1. Sent(r) \in Nat /\ file_[r] \in Nat /\ Chunks \in Nat
    BY Types DEF TransferInv
  <2>2. EndInv(r) /\ ContentInv(r)
    BY <1>11 DEF TransferInv, RequestInv
  <2>3. EndInv(r)'
    BY <1>1, <2>2 DEF EndInv
  <2>4. Streaming(r)' => Streaming(r) /\ file_[r] = Sent(r) + n + 1
    BY <1>1, <1>11, <2>2 DEF ContentInv, FileInv, Streaming
  <2>5. SentInv(r)' /\ FileInv(r)'
    BY <1>3, <2>2 DEF ContentInv, SentInv, FileInv, Streaming, Sent
  <2>6. QueuedInv(r)'
    <3> SUFFICES ASSUME Streaming(r)', NEW k \in Queue(r) \cup {n + 1}
                 PROVE  /\ Kind(r, k)' = "chunk" => evb'[r][k][2] = Sent(r) + k
                        /\ Kind(r, k)' = "eof" => Sent(r) + k = Chunks + 1
      BY <1>5 DEF QueuedInv, Sent
    <3>1. CASE k \in Queue(r)
      BY <1>5, <2>2, <2>4, <3>1 DEF ContentInv, QueuedInv
    <3>2. CASE k = n + 1
      <4>1. /\ Kind(r, k)' # "chunk" /\ n \in Nat
            /\ Kind(r, k)' = "eof" => file_[r] = Chunks + 1
        BY <1>5, <3>2
      <4> HIDE DEF ReadEof, ReadFails, n
      <4> QED
        BY <2>1, <2>4, <3>2, <4>1
    <3> QED
      BY <3>1, <3>2
  <2> QED
    BY <2>3, <2>5, <2>6 DEF ContentInv
<1> QED
  BY <1>1, <1>6, <1>7, <1>8, <1>9, <1>10, <1>11, TaskStepOf

(* Only a second task, which a resume added, finds file_ reset.             *)
LEMMA ReadThroughNullStep ==
  ASSUME TransferInv, NEW r \in Requests, NEW t \in Tasks, ReadThroughNull(r, t)
  PROVE  TransferInv'
<1> USE DEF ReadThroughNull, sending, flags, tasks
<1>1. /\ r \notin danger /\ handler[r] = "live" /\ ~Unstreamed(r)
      /\ r \notin resumed => t = 1
  BY TaskRuns
<1>2. r \in resumed
  BY <1>1 DEF TransferInv, RequestInv, TaskInv
<1>3. TypeOK'
  BY DEF TransferInv, TypeOK
<1>4. Others(r)
  BY DEF Others, Same
<1>5. UnstreamedInv(r)' /\ WakeInv(r)'
  BY <1>1 DEF TransferInv, RequestInv, UnstreamedInv, Unstreamed, WakeInv
<1>6. RequestInv(r)'
  BY <1>2, <1>5 DEF TransferInv, RequestInv
<1>7. CacheInv'
  BY <1>1, <1>4, CacheKept DEF TransferInv, Unstreamed, Streaming
<1>8. DangerTakesResume'
  BY <1>2 DEF TransferInv, DangerTakesResume
<1> QED
  BY <1>3, <1>4, <1>6, <1>7, <1>8, StepOf

-----------------------------------------------------------------------------
(* The queue of r after its first event is taken.                           *)
LEMMA TakenFrom ==
  ASSUME TypeOK, NEW r \in Requests, NEW kind, NextEvent(r, kind),
         evb' = [evb EXCEPT ![r] = Tail(@)]
  PROVE  /\ evb' \in [Requests -> Seq(Events)]
         /\ \A q \in Requests \ {r} : evb'[q] = evb[q]
         /\ Posts(r) \in Nat \ {0} /\ Posts(r)' = Posts(r) - 1
         /\ 1 \in Queue(r) /\ Kind(r, 1) = kind /\ Head(evb[r]) = evb[r][1]
         /\ \A k \in Queue(r)' : /\ k \in Nat \ {0} /\ k + 1 \in Queue(r)
                                 /\ evb'[r][k] = evb[r][k + 1]
                                 /\ Kind(r, k)' = Kind(r, k + 1)
         /\ \A k \in Queue(r) \ {1} : \E j \in Queue(r)' : k = j + 1
<1>1. /\ evb' \in [Requests -> Seq(Events)]
      /\ \A q \in Requests \ {r} : evb'[q] = evb[q]
      /\ Posts(r) \in Nat \ {0} /\ Posts(r)' = Posts(r) - 1
      /\ \A k \in 1..Posts(r) - 1 : evb'[r][k] = evb[r][k + 1]
      /\ Head(evb[r]) = evb[r][1]
  BY Taken DEF NextEvent, Posts
<1>2. Queue(r)' = 1..Posts(r) - 1 /\ Queue(r) = 1..Posts(r)
  BY <1>1 DEF Queue
<1> DEFINE n == Posts(r)
<1>3. n \in Nat \ {0}
  BY <1>1
<1> HIDE DEF n
<1>4. /\ 1 \in 1..n
      /\ \A k \in 1..n - 1 : k \in Nat \ {0} /\ k + 1 \in 1..n
      /\ \A k \in (1..n) \ {1} : k - 1 \in 1..n - 1 /\ k = (k - 1) + 1
  BY <1>3
<1>5. Kind(r, 1) = kind
  BY <1>1 DEF NextEvent, Kind
<1>6. \A k \in 1..n - 1 : Kind(r, k)' = Kind(r, k + 1)
  BY <1>1 DEF Kind, n
<1> QED
  BY <1>1, <1>2, <1>4, <1>5, <1>6 DEF n

(* A callback is that of a request that streams.                            *)
LEMMA EventRuns ==
  ASSUME TransferInv, NEW r \in Requests, NEW kind, NextEvent(r, kind)
  PROVE  r \notin danger /\ handler[r] = "live" /\ ~Unstreamed(r)
<1>1. evb[r] \in Seq(Events) /\ evb[r] # << >>
  BY DEF TransferInv, TypeOK, NextEvent
<1>2. Posts(r) # 0
  BY <1>1, EmptySeq, LenProperties DEF Posts
<1> QED
  BY <1>2 DEF TransferInv, RequestInv, UnstreamedInv, NextEvent, Live

(* Its tasks left alone, the request is as busy as before.                  *)
LEMMA BusyKept ==
  ASSUME NEW r \in Requests, Busy(r), task' = task, Kind(r, 1) # "done",
         \A k \in Queue(r)' : Kind(r, k)' = Kind(r, k + 1),
         \A k \in Queue(r) \ {1} : \E j \in Queue(r)' : k = j + 1
  PROVE  Busy(r)'
<1>1. CASE \E t \in Tasks : task[r][t] # "off"
  BY <1>1 DEF Busy
<1>2. CASE \E k \in Queue(r) : Kind(r, k) = "done"
  <2>1. PICK k \in Queue(r) \ {1} : Kind(r, k) = "done"
    BY <1>2
  <2>2. PICK j \in Queue(r)' : k = j + 1
    BY <2>1
  <2>3. Kind(r, j)' = "done"
    BY <2>1, <2>2
  <2> QED
    BY <2>3 DEF Busy
<1> QED
  BY <1>1, <1>2 DEF Busy

(* The one task of r, when a callback that is not its last was run.         *)
LEMMA TaskInvShifts ==
  ASSUME NEW r \in Requests, TaskInv(r), UNCHANGED <<task, file_, read_file_scheduled_>>,
         Posts(r) \in Nat \ {0}, Posts(r)' = Posts(r) - 1,
         1 \in Queue(r), Kind(r, 1) # "done",
         \A k \in Queue(r)' : k \in Nat \ {0} /\ k + 1 \in Queue(r) /\ Kind(r, k)' = Kind(r, k + 1)
  PROVE  TaskInv(r)'
<1>1. /\ \A t \in Tasks \ {1} : task'[r][t] = "off"
      /\ task'[r][1] \in {"read", "post"} => file_'[r] # Closed
  BY DEF TaskInv
<1>2. task'[r][1] # "off" =>
        read_file_scheduled_'[r] = TRUE /\ \A k \in Queue(r)' : Kind(r, k)' # "done"
  BY DEF TaskInv
<1>3. \A k \in Queue(r)' : Kind(r, k)' = "done" => k = Posts(r)'
  BY DEF TaskInv
<1>4. ASSUME task'[r][1] = "off", Posts(r)' # 0
      PROVE  read_file_scheduled_'[r] = TRUE /\ Kind(r, Posts(r))' = "done"
  <2>1. read_file_scheduled_[r] = TRUE /\ Kind(r, Posts(r)) = "done"
    BY <1>4 DEF TaskInv
  <2>2. Posts(r)' \in Queue(r)' /\ Posts(r)' + 1 = Posts(r)
    BY <1>4 DEF Queue
  <2>3. \A k \in Queue(r)' : k + 1 = Posts(r) => Kind(r, k)' = "done"
    BY <2>1
  <2>4. \A k \in Queue(r)' : k = Posts(r)' => Kind(r, k)' = Kind(r, Posts(r))'
    BY DEF Kind
  <2> QED
    BY <2>1, <2>2, <2>3, <2>4
<1>5. \A k \in Queue(r)' : Kind(r, k)' \in {"eof", "abort"} =>
        file_'[r] = Closed /\ \A j \in Queue(r)' : j > k => Kind(r, j)' = "done"
  BY DEF TaskInv
<1> QED
  BY <1>1, <1>2, <1>3, <1>4, <1>5 DEF TaskInv

(* The body of a streamed response, when all of it was sent.                *)
LEMMA WholeFile ==
  ASSUME TypeOK, NEW r \in Requests, Sent(r) = Chunks,
         \A i \in 1..Sent(r) : body[r][i] = i
  PROVE  body[r] = File
<1>1. body[r] \in Seq(0..Chunks)
  BY DEF TypeOK
<1>2. body[r] \in [1..Chunks -> 0..Chunks]
  BY <1>1, LenProperties DEF Sent
<1> QED
  BY <1>2 DEF File

(* The end of a response is sent, or to nobody.                             *)
LEMMA SendEndStep ==
  ASSUME TransferInv, NEW r \in Requests, SendEom(r) \/ SendAbort(r)
  PROVE  TransferInv'
<1> USE DEF SendEom, SendAbort, flags, tasks
<1>1. PICK kind \in {"eof", "abort"} :
        /\ NextEvent(r, kind)
        /\ finished_[r] = TRUE => response' = response
        /\ finished_[r] = FALSE =>
             response' = [response EXCEPT ![r] = IF kind = "eof" THEN "complete" ELSE "aborted"]
  BY Types DEF TransferInv
<1>2. r \notin danger /\ handler[r] = "live" /\ ~Unstreamed(r)
  BY <1>1, EventRuns
<1>3. /\ evb' \in [Requests -> Seq(Events)]
      /\ \A q \in Requests \ {r} : evb'[q] = evb[q]
      /\ Posts(r) \in Nat \ {0} /\ Posts(r)' = Posts(r) - 1
      /\ 1 \in Queue(r) /\ Kind(r, 1) = kind
      /\ \A k \in Queue(r)' : /\ k \in Nat \ {0} /\ k + 1 \in Queue(r)
                              /\ evb'[r][k] = evb[r][k + 1]
                              /\ Kind(r, k)' = Kind(r, k + 1)
      /\ \A k \in Queue(r) \ {1} : \E j \in Queue(r)' : k = j + 1
  BY <1>1, TakenFrom DEF TransferInv
<1>4. finished_[r] \in BOOLEAN /\ Sent(r) \in Nat /\ Chunks \in Nat
  BY Types DEF TransferInv
<1>5. response' \in [Requests ->
        {"none", "headers", "cached", "error", "aborted", "complete"}]
  BY <1>1, <1>4 DEF TransferInv, TypeOK
<1>6. TypeOK'
  <2>1. evb' \in [Requests -> Seq(Events)]
    BY <1>3
  <2> QED
    BY <1>5, <2>1 DEF TransferInv, TypeOK
<1>7. /\ \A q \in Requests \ {r} : response'[q] = response[q]
      /\ finished_[r] = TRUE => response'[r] = response[r]
      /\ finished_[r] = FALSE => response'[r] = IF kind = "eof" THEN "complete" ELSE "aborted"
  BY <1>1, <1>4 DEF TransferInv, TypeOK
<1>8. Others(r)
  BY <1>3, <1>7 DEF Others, Same
<1>9. UnstreamedInv(r)'
  BY <1>2, <1>4, <1>7 DEF TransferInv, RequestInv, UnstreamedInv, Unstreamed
<1>10. WakeInv(r)'
  <2>1. Busy(r) => Busy(r)'
    BY <1>1, <1>3, BusyKept
  <2> QED
    BY <1>2, <2>1 DEF TransferInv, RequestInv, WakeInv
<1>11. ASSUME r \notin resumed
       PROVE  /\ TaskInv(r)' /\ EndInv(r)' /\ ContentInv(r)' /\ WholeInv(r)'
              /\ response[r] = "headers"
              /\ Streaming(r) /\ kind = "eof" => body[r] = File
  <2>1. TaskInv(r) /\ EndInv(r) /\ ContentInv(r) /\ WholeInv(r)
    BY <1>11 DEF TransferInv, RequestInv
  <2>2. response[r] = "headers"
    BY <1>1, <1>2, <1>3, <1>5, <2>1 DEF EndInv, Unstreamed, TransferInv, TypeOK
  <2>3. TaskInv(r)'
    BY <1>1, <1>3, <2>1, TaskInvShifts
  <2>4. EndInv(r)'
    <3>1. file_[r] = Closed /\ \A k \in Queue(r) : k > 1 => Kind(r, k) = "done"
      BY <1>1, <1>3, <2>1 DEF TaskInv
    <3> QED
      BY <1>3, <3>1 DEF EndInv
  <2>5. ContentInv(r)'
    <3>1. CASE finished_[r] = TRUE
      BY <3>1 DEF ContentInv, SentInv, QueuedInv, FileInv, Streaming
    <3>2. CASE finished_[r] = FALSE
      BY <1>7, <3>2 DEF ContentInv, SentInv, QueuedInv, FileInv, Streaming
    <3> QED
      BY <1>4, <3>1, <3>2
  <2>6. ASSUME Streaming(r), kind = "eof" PROVE body[r] = File
    <3>1. Sent(r) + 1 = Chunks + 1 /\ \A i \in 1..Sent(r) : body[r][i] = i
      BY <1>3, <2>1, <2>6 DEF ContentInv, SentInv, QueuedInv
    <3>2. Sent(r) = Chunks
      BY <1>4, <3>1
    <3> QED
      BY <3>1, <3>2, WholeFile DEF TransferInv
  <2>7. WholeInv(r)'
    BY <1>4, <1>7, <2>1, <2>2, <2>6 DEF WholeInv, Streaming, File
  <2> QED
    BY <2>2, <2>3, <2>4, <2>5, <2>6, <2>7
<1>12. RequestInv(r)'
  BY <1>2, <1>9, <1>10, <1>11 DEF TransferInv, RequestInv
<1>13. CacheInv'
  <2>1. ~Unstreamed(r)'
    BY <1>2, <1>4, <1>7 DEF Unstreamed
  <2>2. \A q \in Requests \ {r} : ~Alone(q)'
    BY <2>1 DEF Alone
  <2>3. ASSUME r \notin resumed, Alone(r)'
        PROVE  /\ Streaming(r)' => cache_' = Prefix(body[r])'
               /\ response'[r] = "complete" => cache_' = Prefix(File)'
    <3>1. Alone(r)
      BY <1>7, <2>3 DEF Alone, Unstreamed
    <3>2. Streaming(r) => cache_ = Prefix(body[r])
      BY <2>3, <3>1 DEF TransferInv, CacheInv
    <3>3. ~Streaming(r)'
      BY <1>4, <1>7 DEF Streaming
    <3>4. response'[r] = "complete" => Streaming(r) /\ kind = "eof"
      BY <1>4, <1>7, <1>11, <2>3 DEF Streaming
    <3>5. response'[r] = "complete" => cache_' = Prefix(File)
      BY <1>11, <2>3, <3>2, <3>4
    <3> QED
      BY <3>3, <3>5 DEF Prefix, File, NotCached
  <2> QED
    BY <2>1, <2>2, <2>3 DEF CacheInv
<1>14. DangerTakesResume'
  BY <1>2, <1>8, DangerKept DEF TransferInv
<1> QED
  BY <1>6, <1>8, <1>12, <1>13, <1>14, StepOf

(* The callback that ends a read.                                           *)
LEMMA DoneStep ==
  ASSUME TransferInv, NEW r \in Requests, Done(r)
  PROVE  TransferInv'
<1> USE DEF Done
<1>1. r \notin danger /\ handler[r] = "live" /\ ~Unstreamed(r)
  BY EventRuns
<1>2. /\ evb' \in [Requests -> Seq(Events)]
      /\ \A q \in Requests \ {r} : evb'[q] = evb[q]
      /\ Posts(r) \in Nat \ {0} /\ Posts(r)' = Posts(r) - 1
      /\ 1 \in Queue(r) /\ Kind(r, 1) = "done"
  BY TakenFrom DEF TransferInv
<1>3. /\ finished_[r] \in BOOLEAN /\ paused_[r] \in BOOLEAN
      /\ handler' \in [Requests -> {"new", "live", "deleted"}]
      /\ handler'[r] = IF finished_[r] = TRUE THEN "deleted" ELSE "live"
      /\ \A q \in Requests \ {r} : handler'[q] = handler[q]
      /\ read_file_scheduled_' \in [Requests -> BOOLEAN]
      /\ read_file_scheduled_'[r] = FALSE
      /\ \A q \in Requests \ {r} : read_file_scheduled_'[q] = read_file_scheduled_[q]
  BY <1>1 DEF TransferInv, TypeOK
<1>4. UNCHANGED <<cache_, response, body, file_, finished_, got, pauses, danger>>
  BY DEF sending
<1>5. CASE UNCHANGED <<task, resumed>> /\ paused_' \in [Requests -> BOOLEAN]
           /\ (\A q \in Requests \ {r} : paused_'[q] = paused_[q])
           /\ (handler'[r] = "live" /\ paused_'[r] = FALSE => file_[r] = Closed)
  <2> USE <1>5
  <2>1. TypeOK'
    BY <1>2, <1>3, <1>4 DEF TransferInv, TypeOK
  <2>2. Others(r)
    BY <1>2, <1>3, <1>4 DEF Others, Same
  <2>3. UnstreamedInv(r)'
    BY <1>1, <1>3, <1>4 DEF TransferInv, RequestInv, UnstreamedInv, Unstreamed
  <2>4. WakeInv(r)'
    BY <1>3, <1>4 DEF WakeInv
  <2>5. ASSUME r \notin resumed
        PROVE  TaskInv(r)' /\ EndInv(r)' /\ ContentInv(r)' /\ WholeInv(r)'
    <3>1. TaskInv(r) /\ EndInv(r) /\ ContentInv(r) /\ WholeInv(r)
      BY <2>5 DEF TransferInv, RequestInv
    <3>2. task[r][1] = "off" /\ Posts(r) = 1
      BY <1>2, <3>1 DEF TaskInv
    <3>3. Posts(r)' = 0 /\ Queue(r)' = {}
      BY <1>2, <3>2 DEF Queue
    <3>4. TaskInv(r)'
      BY <1>4, <3>1, <3>2, <3>3 DEF TaskInv
    <3>5. EndInv(r)' /\ WholeInv(r)'
      BY <1>4, <3>1, <3>3 DEF EndInv, WholeInv, File
    <3>6. ContentInv(r)'
      BY <1>4, <3>1, <3>2, <3>3 DEF ContentInv, SentInv, QueuedInv, FileInv, Streaming, Sent
    <3> QED
      BY <3>4, <3>5, <3>6
  <2>6. RequestInv(r)'
    BY <1>3, <1>4, <2>3, <2>4, <2>5 DEF TransferInv, RequestInv
  <2>7. CacheInv'
    BY <1>1, <1>4, <2>2, CacheKept DEF TransferInv, Unstreamed, Streaming
  <2>8. DangerTakesResume'
    BY <1>1, <1>4, <2>2, DangerKept DEF TransferInv
  <2> QED
    BY <2>1, <2>2, <2>6, <2>7, <2>8, StepOf
<1>6. CASE /\ finished_[r] = FALSE /\ paused_[r] = FALSE /\ file_[r] # Closed
           /\ AddTask(r) /\ resumed' = resumed \cup {r}
           /\ paused_' = [paused_ EXCEPT ![r] = FALSE]
  <2> USE <1>6
  <2>1. PICK t \in Tasks :
             /\ task' \in [Requests -> [Tasks -> States]]
             /\ task'[r][t] = "while"
             /\ \A u \in Tasks \ {t} : task'[r][u] = task[r][u]
             /\ \A q \in Requests \ {r} : task'[q] = task[q]
    BY TaskAdded DEF TransferInv
  <2>2. /\ paused_' \in [Requests -> BOOLEAN]
        /\ \A q \in Requests \ {r} : paused_'[q] = paused_[q]
    BY DEF TransferInv, TypeOK
  <2>3. TypeOK'
    BY <1>2, <1>3, <1>4, <2>1, <2>2 DEF TransferInv, TypeOK, States
  <2>4. Others(r)
    BY <1>2, <1>3, <1>4, <2>1, <2>2 DEF Others, Same
  <2>5. UnstreamedInv(r)'
    BY <1>1, <1>3, <1>4 DEF TransferInv, RequestInv, UnstreamedInv, Unstreamed
  <2>6. WakeInv(r)'
    BY <2>1 DEF WakeInv, Busy
  <2>7. RequestInv(r)'
    BY <1>3, <1>4, <2>1, <2>5, <2>6 DEF TransferInv, RequestInv
  <2>8. CacheInv'
    BY <1>1, <1>4, <2>4, CacheKept DEF TransferInv, Unstreamed, Streaming
  <2>9. DangerTakesResume'
    BY <1>1, <1>4, <2>4, DangerKept DEF TransferInv
  <2> QED
    BY <2>3, <2>4, <2>7, <2>8, <2>9, StepOf
<1>7. CASE finished_[r] = TRUE \/ paused_[r] = TRUE
  BY <1>3, <1>5, <1>7 DEF TransferInv, TypeOK
<1>8. CASE finished_[r] = FALSE /\ paused_[r] = FALSE
  <2>1. /\ paused_' = [paused_ EXCEPT ![r] = FALSE]
        /\ IF file_[r] # Closed THEN AddTask(r) /\ resumed' = resumed \cup {r}
           ELSE UNCHANGED <<task, resumed>>
    BY <1>3, <1>8 DEF Resume
  <2>2. /\ paused_' \in [Requests -> BOOLEAN]
        /\ \A q \in Requests \ {r} : paused_'[q] = paused_[q]
    BY <2>1 DEF TransferInv, TypeOK
  <2>3. CASE file_[r] # Closed
    BY <1>6, <1>8, <2>1, <2>3
  <2>4. CASE file_[r] = Closed
    BY <1>5, <2>1, <2>2, <2>4
  <2> QED
    BY <2>3, <2>4
<1> QED
  BY <1>3, <1>7, <1>8

-----------------------------------------------------------------------------
(* proxygen's callbacks.                                                    *)
LEMMA PausedStep ==
  ASSUME TransferInv, NEW r \in Requests, onEgressPaused(r)
  PROVE  TransferInv'
<1> USE DEF onEgressPaused, sending, tasks
<1>1. r \notin danger /\ handler[r] = "live" /\ response[r] = "headers"
  BY DEF Live
<1>2. /\ paused_' \in [Requests -> BOOLEAN] /\ paused_'[r] = TRUE
      /\ \A q \in Requests \ {r} : paused_'[q] = paused_[q]
  BY DEF TransferInv, TypeOK
<1>3. pauses' \in 0..MaxPauses
  BY StaticHandlerAssumption DEF TransferInv, TypeOK
<1>4. TypeOK'
  BY <1>2, <1>3 DEF TransferInv, TypeOK
<1>5. Others(r)
  BY <1>2 DEF Others, Same
<1>6. UnstreamedInv(r)' /\ WakeInv(r)'
  BY <1>2 DEF TransferInv, RequestInv, UnstreamedInv, Unstreamed, WakeInv, Busy, Queue,
              Kind, Posts, Sent
<1>7. ASSUME r \notin resumed PROVE TaskInv(r)'
  BY <1>7 DEF TransferInv, RequestInv, TaskInv, Queue, Kind, Posts
<1>8. ASSUME r \notin resumed PROVE EndInv(r)' /\ ContentInv(r)' /\ WholeInv(r)'
  BY <1>8 DEF TransferInv, RequestInv, EndInv, ContentInv, SentInv, QueuedInv, FileInv,
              Streaming, WholeInv, File, Queue, Kind, Posts, Sent
<1>9. RequestInv(r)'
  BY <1>6, <1>7, <1>8 DEF TransferInv, RequestInv
<1>10. CacheInv'
  BY <1>5, CacheKept DEF TransferInv, Unstreamed, Streaming
<1>11. DangerTakesResume'
  BY <1>1, <1>5, DangerKept DEF TransferInv
<1> QED
  BY <1>4, <1>5, <1>9, <1>10, <1>11, StepOf

LEMMA ResumedStep ==
  ASSUME TransferInv, NEW r \in Requests, onEgressResumed(r)
  PROVE  TransferInv'
<1> USE DEF onEgressResumed, sending
<1>1. r \notin danger /\ handler[r] = "live" /\ paused_' = [paused_ EXCEPT ![r] = FALSE]
  BY DEF Live, Resume
<1>2. /\ paused_' \in [Requests -> BOOLEAN]
      /\ \A q \in Requests \ {r} : paused_'[q] = paused_[q]
      /\ read_file_scheduled_[r] \in BOOLEAN
  BY <1>1 DEF TransferInv, TypeOK
<1>3. CASE read_file_scheduled_[r] = FALSE /\ file_[r] # Closed
  <2>1. AddTask(r) /\ resumed' = resumed \cup {r}
    BY <1>3 DEF Resume
  <2>2. PICK t \in Tasks :
             /\ task' \in [Requests -> [Tasks -> States]]
             /\ task'[r][t] = "while"
             /\ \A u \in Tasks \ {t} : task'[r][u] = task[r][u]
             /\ \A q \in Requests \ {r} : task'[q] = task[q]
    BY <2>1, TaskAdded DEF TransferInv
  <2>3. TypeOK'
    BY <1>2, <2>1, <2>2 DEF TransferInv, TypeOK, States
  <2>4. Others(r)
    BY <1>2, <2>1, <2>2 DEF Others, Same
  <2>5. UnstreamedInv(r)'
    BY <1>3 DEF TransferInv, RequestInv, UnstreamedInv, Unstreamed, Sent
  <2>6. WakeInv(r)'
    BY <2>2 DEF WakeInv, Busy
  <2>7. RequestInv(r)'
    BY <1>1, <2>1, <2>2, <2>5, <2>6 DEF TransferInv, RequestInv
  <2>8. CacheInv'
    BY <2>1, <2>4, CacheKept DEF TransferInv, Unstreamed, Streaming
  <2>9. DangerTakesResume'
    BY <1>1, <2>4, DangerKept DEF TransferInv
  <2> QED
    BY <2>3, <2>4, <2>7, <2>8, <2>9, StepOf
<1>4. CASE read_file_scheduled_[r] = TRUE \/ file_[r] = Closed
  <2>1. UNCHANGED <<task, resumed>>
    BY <1>4 DEF Resume
  <2>2. TypeOK'
    BY <1>2, <2>1 DEF TransferInv, TypeOK
  <2>3. Others(r)
    BY <1>2, <2>1 DEF Others, Same
  <2>4. UnstreamedInv(r)'
    BY <2>1 DEF TransferInv, RequestInv, UnstreamedInv, Unstreamed, Posts, Sent
  <2>5. WakeInv(r)'
    <3>1. Busy(r)' <=> Busy(r)
      BY <2>1 DEF Busy, Queue, Kind, Posts
    <3> QED
      BY <1>1, <1>4, <3>1 DEF TransferInv, RequestInv, WakeInv
  <2>6. ASSUME r \notin resumed PROVE TaskInv(r)'
    BY <2>1, <2>6 DEF TransferInv, RequestInv, TaskInv, Queue, Kind, Posts
  <2>7. ASSUME r \notin resumed PROVE EndInv(r)' /\ ContentInv(r)' /\ WholeInv(r)'
    BY <2>1, <2>7 DEF TransferInv, RequestInv, EndInv, ContentInv, SentInv, QueuedInv,
                      FileInv, Streaming, WholeInv, File, Queue, Kind, Posts, Sent
  <2>8. RequestInv(r)'
    BY <2>1, <2>4, <2>5, <2>6, <2>7 DEF TransferInv, RequestInv
  <2>9. CacheInv'
    BY <2>1, <2>3, CacheKept DEF TransferInv, Unstreamed, Streaming
  <2>10. DangerTakesResume'
    BY <1>1, <2>3, DangerKept DEF TransferInv
  <2> QED
    BY <2>2, <2>3, <2>8, <2>9, <2>10, StepOf
<1> QED
  BY <1>2, <1>3, <1>4

LEMMA FinishStep ==
  ASSUME TransferInv, NEW r \in Requests, requestComplete(r) \/ onError(r)
  PROVE  TransferInv'
<1>1. /\ r \notin danger /\ handler[r] = "live" /\ Finish(r)
  BY DEF requestComplete, onError, Live
<1> USE DEF sending, tasks
<1>2. /\ UNCHANGED <<cache_, response, body, file_, read_file_scheduled_, task, got, evb,
                     pauses, resumed, danger>>
      /\ read_file_scheduled_[r] \in BOOLEAN
      /\ finished_' \in [Requests -> BOOLEAN] /\ paused_' \in [Requests -> BOOLEAN]
      /\ handler' \in [Requests -> {"new", "live", "deleted"}]
      /\ finished_'[r] = TRUE /\ paused_'[r] = TRUE
      /\ handler'[r] = IF read_file_scheduled_[r] = TRUE THEN "live" ELSE "deleted"
  BY <1>1 DEF TransferInv, TypeOK, Finish
<1>3. \A q \in Requests \ {r} :
        finished_'[q] = finished_[q] /\ paused_'[q] = paused_[q] /\ handler'[q] = handler[q]
  BY <1>1 DEF TransferInv, TypeOK, Finish
<1>4. TypeOK'
  BY <1>2 DEF TransferInv, TypeOK
<1>5. Others(r)
  BY <1>2, <1>3 DEF Others, Same
<1>6. UnstreamedInv(r)'
  BY <1>1, <1>2 DEF TransferInv, RequestInv, UnstreamedInv, Unstreamed, Posts
<1>7. WakeInv(r)'
  <2>1. Busy(r)' <=> Busy(r)
    BY <1>2 DEF Busy, Queue, Kind, Posts
  <2> QED
    BY <1>1, <1>2, <2>1 DEF TransferInv, RequestInv, WakeInv
<1>8. ASSUME r \notin resumed PROVE TaskInv(r)'
  BY <1>2, <1>8 DEF TransferInv, RequestInv, TaskInv, Queue, Kind, Posts
<1>9. ASSUME r \notin resumed PROVE EndInv(r)' /\ ContentInv(r)' /\ WholeInv(r)'
  BY <1>2, <1>9 DEF TransferInv, RequestInv, EndInv, ContentInv, SentInv, QueuedInv, FileInv,
                    Streaming, WholeInv, File, Queue, Kind, Posts
<1>10. RequestInv(r)'
  BY <1>2, <1>6, <1>7, <1>8, <1>9 DEF TransferInv, RequestInv
<1>11. CacheInv'
  BY <1>2, <1>5, CacheKept DEF TransferInv, Unstreamed, Streaming
<1>12. DangerTakesResume'
  BY <1>1, <1>2, <1>5, DangerKept DEF TransferInv
<1> QED
  BY <1>4, <1>5, <1>10, <1>11, <1>12, StepOf

(* read_file_scheduled_ has kept a handler that was not resumed until there *)
(* was nothing left to run.                                                 *)
LEMMA UseAfterDeleteStep ==
  ASSUME TransferInv, NEW r \in Requests, UseAfterDelete(r)
  PROVE  TransferInv'
<1> USE DEF UseAfterDelete, sending, flags, tasks
<1>1. handler[r] = "deleted" /\ r \notin danger /\ read_file_scheduled_[r] = FALSE
  BY DEF TransferInv, RequestInv
<1>2. (\E t \in Tasks : task[r][t] # "off") \/ Posts(r) # 0
  <2>1. evb[r] \in Seq(Events)
    BY DEF TransferInv, TypeOK
  <2>2. evb[r] # << >> => Posts(r) # 0
    BY <2>1, EmptySeq, LenProperties DEF Posts
  <2> QED
    BY <2>2 DEF Idle
<1>3. r \in resumed
  BY <1>1, <1>2 DEF TransferInv, RequestInv, TaskInv
<1>4. TypeOK'
  BY DEF TransferInv, TypeOK
<1>5. Others(r)
  BY DEF Others, Same
<1>6. UnstreamedInv(r)' /\ WakeInv(r)'
  BY <1>1 DEF TransferInv, RequestInv, UnstreamedInv, Unstreamed, WakeInv, Posts
<1>7. RequestInv(r)'
  BY <1>3, <1>6 DEF TransferInv, RequestInv
<1>8. CacheInv'
  BY <1>5, CacheKept DEF TransferInv, Unstreamed, Streaming
<1>9. DangerTakesResume'
  BY <1>3 DEF TransferInv, DangerTakesResume
<1> QED
  BY <1>4, <1>5, <1>7, <1>8, <1>9, StepOf

-----------------------------------------------------------------------------
(* A chunk is cached, and sent or dropped.                                  *)
LEMMA SendChunkStep ==
  ASSUME TransferInv, NEW r \in Requests, SendChunk(r)
  PROVE  TransferInv'
<1> DEFINE chunk == Head(evb[r])[2]
<1>1. /\ NextEvent(r, "chunk") /\ evb' = [evb EXCEPT ![r] = Tail(@)]
      /\ cache_' = IF cache_ = NotCached THEN <<chunk>> ELSE Append(cache_, chunk)
      /\ body' = IF finished_[r] THEN body ELSE [body EXCEPT ![r] = Append(@, chunk)]
      /\ danger' \in {danger, danger \cup WrapCache}
      /\ UNCHANGED <<handler, response, file_, paused_, finished_, read_file_scheduled_,
                     task, got, pauses, resumed>>
  BY DEF SendChunk, flags, tasks
<1>2. r \notin danger /\ handler[r] = "live" /\ ~Unstreamed(r)
  BY <1>1, EventRuns
<1>3. /\ evb' \in [Requests -> Seq(Events)]
      /\ \A q \in Requests \ {r} : evb'[q] = evb[q]
      /\ Posts(r) \in Nat \ {0} /\ Posts(r)' = Posts(r) - 1
      /\ 1 \in Queue(r) /\ Kind(r, 1) = "chunk"
      /\ \A k \in Queue(r)' : /\ k \in Nat \ {0} /\ k + 1 \in Queue(r)
                              /\ evb'[r][k] = evb[r][k + 1]
                              /\ Kind(r, k)' = Kind(r, k + 1)
      /\ \A k \in Queue(r) \ {1} : \E j \in Queue(r)' : k = j + 1
  BY <1>1, TakenFrom DEF TransferInv
<1>4. chunk = evb[r][1][2] /\ chunk \in 1..Chunks
  <2>1. Head(evb[r]) = evb[r][1] /\ evb[r][1] \in Events /\ evb[r][1][1] = "chunk"
    BY <1>1, <1>3, Taken DEF TransferInv, NextEvent, Kind
  <2> QED
    BY <2>1, EventCases
<1> HIDE DEF chunk
<1>5. chunk \in 0..Chunks /\ Chunks \in Nat
  BY <1>4, StaticHandlerAssumption
<1>6. finished_[r] \in BOOLEAN /\ Sent(r) \in Nat /\ body[r] \in Seq(0..Chunks)
  BY Types DEF TransferInv
<1>7. Append(body[r], chunk) \in Seq(0..Chunks)
  BY <1>5, <1>6, AppendProperties
<1>8. /\ body' \in [Requests -> Seq(0..Chunks)]
      /\ \A q \in Requests \ {r} : body'[q] = body[q]
      /\ finished_[r] = FALSE => body'[r] = Append(body[r], chunk)
      /\ finished_[r] = TRUE => body'[r] = body[r]
  BY <1>1, <1>6, <1>7 DEF TransferInv, TypeOK
<1>9. cache_' \in Seq(0..Chunks)
  <2>1. cache_ \in Seq(0..Chunks)
    BY DEF TransferInv, TypeOK
  <2>2. Append(cache_, chunk) \in Seq(0..Chunks)
    BY <1>5, <2>1, AppendProperties
  <2>3. <<chunk>> \in Seq(0..Chunks)
    BY <1>5
  <2> QED
    BY <1>1, <2>2, <2>3
<1>10. danger' \in SUBSET Requests /\ r \notin danger'
  BY <1>1, <1>2 DEF TransferInv, TypeOK, WrapCache, Unstreamed
<1>11. TypeOK'
  BY <1>1, <1>3, <1>8, <1>9, <1>10 DEF TransferInv, TypeOK
<1>12. Others(r)
  BY <1>1, <1>3, <1>8 DEF Others, Same, WrapCache, Live
<1>13. UnstreamedInv(r)'
  BY <1>1, <1>2 DEF TransferInv, RequestInv, UnstreamedInv, Unstreamed
<1>14. WakeInv(r)'
  <2>1. Busy(r) => Busy(r)'
    BY <1>1, <1>3, BusyKept
  <2> QED
    BY <1>1, <1>2, <2>1 DEF TransferInv, RequestInv, WakeInv
<1>15. ASSUME r \notin resumed
       PROVE  /\ TaskInv(r)' /\ EndInv(r)' /\ ContentInv(r)' /\ WholeInv(r)'
              /\ response[r] = "headers"
  <2>1. TaskInv(r) /\ EndInv(r) /\ ContentInv(r)
    BY <1>15 DEF TransferInv, RequestInv
  <2>2. response[r] = "headers"
    BY <1>2, <1>3, <2>1 DEF EndInv, Unstreamed, TransferInv, TypeOK
  <2>3. TaskInv(r)'
    BY <1>1, <1>3, <2>1, TaskInvShifts
  <2>4. EndInv(r)' /\ WholeInv(r)'
    BY <1>1, <2>2 DEF EndInv, WholeInv
  <2>5. ASSUME Streaming(r)' PROVE ContentInv(r)'
    <3>1. Streaming(r) /\ body'[r] = Append(body[r], chunk)
      BY <1>1, <1>8, <2>5 DEF Streaming
    <3>2. Sent(r)' = Sent(r) + 1
      BY <1>5, <1>6, <3>1, AppendProperties DEF Sent
    <3>3. chunk = Sent(r) + 1
      BY <1>3, <1>4, <2>1, <3>1 DEF ContentInv, QueuedInv
    <3>4. SentInv(r)'
      <4>1. /\ \A i \in 1..Sent(r) : body'[r][i] = body[r][i]
            /\ \A i \in {Sent(r) + 1} : body'[r][i] = chunk
        BY <1>5, <1>6, <3>1, AppendProperties DEF Sent
      <4>2. \A i \in 1..Sent(r) + 1 : i \in 1..Sent(r) \/ i = Sent(r) + 1
        BY <1>6
      <4>3. \A i \in 1..Sent(r) : body[r][i] = i
        BY <2>1, <3>1 DEF ContentInv, SentInv
      <4> QED
        BY <3>2, <3>3, <4>1, <4>2, <4>3 DEF SentInv
    <3>5. QueuedInv(r)'
      <4> SUFFICES ASSUME NEW k \in Queue(r)'
                   PROVE  /\ Kind(r, k)' = "chunk" => evb'[r][k][2] = Sent(r)' + k
                          /\ Kind(r, k)' = "eof" => Sent(r)' + k = Chunks + 1
        BY DEF QueuedInv
      <4>1. /\ k \in Nat /\ k + 1 \in Queue(r) /\ evb'[r][k] = evb[r][k + 1]
            /\ Kind(r, k)' = Kind(r, k + 1)
        BY <1>3
      <4>2. /\ Kind(r, k + 1) = "chunk" => evb[r][k + 1][2] = Sent(r) + (k + 1)
            /\ Kind(r, k + 1) = "eof" => Sent(r) + (k + 1) = Chunks + 1
        BY <2>1, <3>1, <4>1 DEF ContentInv, QueuedInv
      <4>3. Sent(r)' + k = Sent(r) + (k + 1)
        BY <1>6, <3>2, <4>1
      <4> QED
        BY <4>1, <4>2, <4>3
    <3>6. FileInv(r)'
      <4>1. Posts(r) \in Nat /\ Posts(r)' = Posts(r) - 1
        BY <1>3
      <4>2. /\ Sent(r)' + Posts(r)' + 1 = Sent(r) + Posts(r) + 1
            /\ Sent(r)' + Posts(r)' + 2 = Sent(r) + Posts(r) + 2
        <5> DEFINE a == Sent(r)
                   b == Posts(r)
        <5>1. a \in Nat /\ b \in Nat
          BY <1>6, <4>1
        <5> HIDE DEF a, b
        <5>2. (a + 1) + (b - 1) + 1 = a + b + 1 /\ (a + 1) + (b - 1) + 2 = a + b + 2
          BY <5>1
        <5> QED
          BY <3>2, <4>1, <5>2 DEF a, b
      <4> QED
        BY <1>1, <2>1, <3>1, <4>2 DEF ContentInv, FileInv
    <3> QED
      BY <3>4, <3>5, <3>6 DEF ContentInv
  <2>6. ASSUME ~Streaming(r)' PROVE ContentInv(r)'
    BY <2>6 DEF ContentInv, SentInv, QueuedInv, FileInv
  <2> QED
    BY <2>2, <2>3, <2>4, <2>5, <2>6
<1>16. RequestInv(r)'
  BY <1>1, <1>2, <1>13, <1>14, <1>15 DEF TransferInv, RequestInv
<1>17. CacheInv'
  <2>1. ~Unstreamed(r)'
    BY <1>1, <1>2 DEF Unstreamed
  <2>2. \A q \in Requests \ {r} : ~Alone(q)'
    BY <2>1 DEF Alone
  <2>3. ASSUME r \notin resumed, Alone(r)'
        PROVE  /\ Streaming(r)' => cache_' = Prefix(body[r])'
               /\ response'[r] # "complete"
    <3>1. response'[r] # "complete"
      BY <1>1, <1>15, <2>3
    <3>2. ASSUME Streaming(r)' PROVE cache_' = Prefix(body[r])'
      <4>1. /\ Streaming(r) /\ Alone(r) /\ body'[r] = Append(body[r], chunk)
            /\ SentInv(r)
        BY <1>1, <1>8, <2>3, <3>2
           DEF Streaming, Alone, Unstreamed, TransferInv, RequestInv, ContentInv
      <4>2. cache_ = Prefix(body[r])
        BY <2>3, <4>1 DEF TransferInv, CacheInv
      <4>3. Prefix(body[r])' = body'[r]
        BY <1>5, <1>6, <4>1, AppendProperties DEF Prefix
      <4>4. CASE Sent(r) = 0
        <5>1. body[r] = << >> /\ cache_ = NotCached
          BY <1>6, <4>2, <4>4, EmptySeq DEF Sent, Prefix
        <5>2. Append(<< >>, chunk) = <<chunk>>
          OBVIOUS
        <5> QED
          BY <1>1, <4>1, <4>3, <5>1, <5>2
      <4>5. CASE Sent(r) # 0
        <5>1. cache_ = body[r] /\ body[r][1] = 1
          BY <1>6, <4>1, <4>2, <4>5 DEF Sent, Prefix, SentInv
        <5>2. cache_ # NotCached
          BY <5>1 DEF NotCached
        <5> QED
          BY <1>1, <4>1, <4>3, <5>1, <5>2
      <4> QED
        BY <4>4, <4>5
    <3> QED
      BY <3>1, <3>2
  <2> QED
    BY <1>1, <2>1, <2>2, <2>3 DEF CacheInv
<1>18. DangerTakesResume'
  BY <1>1 DEF TransferInv, DangerTakesResume, WrapCache
<1> QED
  BY <1>11, <1>12, <1>16, <1>17, <1>18, StepOf

-----------------------------------------------------------------------------
LEMMA StutterStep ==
  ASSUME TransferInv, UNCHANGED vars
  PROVE  TransferInv'
<1> USE DEF vars, sending, flags, tasks
<1>1. TypeOK'
  BY DEF TransferInv, TypeOK
<1>2. \A q \in Requests : Same(q)
  BY DEF Same
<1>3. \A q \in Requests : RequestInv(q)'
  BY <1>2, SameKeepsInv DEF TransferInv
<1>4. DangerTakesResume'
  BY DEF TransferInv, DangerTakesResume
<1>5. CacheInv'
  BY DEF TransferInv, CacheInv, Alone, Unstreamed, Streaming, Prefix, NotCached
<1> QED
  BY <1>1, <1>3, <1>4, <1>5 DEF TransferInv

LEMMA NextInv == TransferInv /\ [Next]_vars => TransferInv'
<1> SUFFICES ASSUME TransferInv, [Next]_vars PROVE TransferInv'
  OBVIOUS
<1>1. CASE UNCHANGED vars
  BY <1>1, StutterStep
<1>2. ASSUME NEW r \in Requests, NEW t \in Tasks, Task(r, t) PROVE TransferInv'
  BY <1>2, WhileReadsStep, WhileEndsStep, ReadChunkStep, PostChunkStep, ReadEndsStep,
     ReadThroughNullStep DEF Task
<1>3. ASSUME NEW r \in Requests, EventLoop(r) PROVE TransferInv'
  BY <1>3, SendChunkStep, SendEndStep, DoneStep DEF EventLoop
<1>4. ASSUME NEW r \in Requests,
             onRequestRefused(r) \/ onRequestCached(r) \/ onRequest(r)
      PROVE  TransferInv'
  BY <1>4, AnswerStep, StreamStep
<1>5. ASSUME NEW r \in Requests,
             \/ onEgressPaused(r) \/ onEgressResumed(r)
             \/ requestComplete(r) \/ onError(r)
             \/ UseAfterDelete(r)
      PROVE  TransferInv'
  BY <1>5, PausedStep, ResumedStep, FinishStep, UseAfterDeleteStep
<1> QED
  BY <1>1, <1>2, <1>3, <1>4, <1>5 DEF Next

(* TransferInv is an invariant of the transfers.                            *)
THEOREM TransferInvariant == Spec => []TransferInv
BY InitInv, NextInv, PTL DEF Spec

(* The type invariant of the transfers.                                     *)
THEOREM TypeCorrect == Spec => []TypeOK
<1>1. TransferInv => TypeOK
  BY DEF TransferInv
<1> QED
  BY <1>1, TransferInvariant, PTL

(* However pauses, resumes and the ends of reads fall together, an open     *)
(* file that may be sent is being read, and read_file_scheduled_ stands for *)
(* a read there is.                                                         *)
THEOREM WakeupsAreKept == Spec => []NoLostWakeup
<1>1. ASSUME TransferInv PROVE NoLostWakeup
  <2>1. ASSUME NEW r \in Requests, Busy(r) PROVE Reading(r)
    <3>1. CASE \E t \in Tasks : task[r][t] # "off"
      BY <3>1 DEF Reading, Idle
    <3>2. CASE \E k \in Queue(r) : Kind(r, k) = "done"
      <4>1. PICK k \in 1..Len(evb[r]) : evb[r][k][1] = "done"
        BY <3>2 DEF Queue, Posts, Kind
      <4>2. evb[r] \in Seq(Events)
        BY <1>1 DEF TransferInv, TypeOK
      <4>3. evb[r][k] \in Events
        BY <4>1, <4>2, LenProperties
      <4>4. evb[r][k] = <<"done">>
        BY <4>1, <4>3, EventCases
      <4> QED
        BY <4>1, <4>4 DEF Reading
    <3> QED
      BY <2>1, <3>1, <3>2 DEF Busy
  <2>2. ASSUME NEW r \in Requests, Live(r)
        PROVE  /\ file_[r] # Closed /\ ~paused_[r] => Busy(r)
               /\ read_file_scheduled_[r] => Busy(r)
    BY <1>1, <2>2, Types DEF TransferInv, RequestInv, WakeInv, Live
  <2> QED
    BY <2>1, <2>2 DEF NoLostWakeup
<1> QED
  BY <1>1, TransferInvariant, PTL

(* Only a request that was resumed, or that wraps the cache, is used when   *)
(* it may not be.                                                           *)
THEOREM DangerNeedsResume == Spec => []DangerTakesResume
<1>1. TransferInv => DangerTakesResume
  BY DEF TransferInv
<1> QED
  BY <1>1, TransferInvariant, PTL

(* Once a response has its end, and was not resumed, only the callback that *)
(* ends the read is left in the queue.                                      *)
THEOREM NothingAfterTheEnd == Spec => []SendsAfterEndTakeFailure
<1>1. ASSUME TransferInv PROVE SendsAfterEndTakeFailure
  <2> SUFFICES ASSUME NEW r \in Requests \ resumed, response[r] # "headers",
                      NEW k \in 1..Len(evb[r])
               PROVE  evb[r][k] = <<"done">>
    BY DEF SendsAfterEndTakeFailure
  <2>1. evb[r] \in Seq(Events) /\ k \in Queue(r)
    BY <1>1 DEF TransferInv, TypeOK, Queue, Posts
  <2>2. evb[r][k] \in Events
    BY <2>1, LenProperties
  <2>3. CASE Unstreamed(r)
    <3>1. Posts(r) = 0
      BY <1>1, <2>3 DEF TransferInv, RequestInv, UnstreamedInv
    <3> QED
      BY <2>1, <3>1 DEF Queue
  <2>4. CASE ~Unstreamed(r)
    <3>1. response[r] \in {"complete", "aborted"}
      BY <1>1, <2>4 DEF TransferInv, TypeOK, Unstreamed
    <3>2. evb[r][k][1] = "done"
      BY <1>1, <2>1, <3>1 DEF TransferInv, RequestInv, EndInv, Kind
    <3> QED
      BY <2>2, <3>2, EventCases
  <2> QED
    BY <2>3, <2>4
<1> QED
  BY <1>1, TransferInvariant, PTL

(* A streamed response that is complete and was never resumed has the whole *)
(* file in order, whatever its length and however its steps interleave.     *)
THEOREM StreamsWholeFile == Spec => []StreamedWhole
<1>1. TransferInv => StreamedWhole
  BY DEF TransferInv, RequestInv, WholeInv, StreamedWhole
<1> QED
  BY <1>1, TransferInvariant, PTL

(* The first complete response, alone in streaming, leaves the file in the  *)
(* cache.                                                                   *)
THEOREM StreamingFillsCache == Spec => []CacheHoldsStreamed
<1>1. ASSUME TransferInv PROVE CacheHoldsStreamed
  <2>1. ASSUME NEW r \in Requests \ resumed, response[r] = "complete", Alone(r)
        PROVE  cache_ = Prefix(File)
    BY <1>1, <2>1 DEF TransferInv, CacheInv
  <2>2. Prefix(File) = IF Chunks = 0 THEN NotCached ELSE File
    <3>1. Len(File) = Chunks
      BY StaticHandlerAssumption DEF File
    <3> QED
      BY <3>1 DEF Prefix
  <2> QED
    BY <2>1, <2>2 DEF CacheHoldsStreamed, Alone, Unstreamed
<1> QED
  BY <1>1, TransferInvariant, PTL
=============================================================================
