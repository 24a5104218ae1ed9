---------------------------- MODULE StaticHandler ----------------------------
(***************************************************************************)
(* StaticHandler and StaticFileCache of url_shortener/static_handler.cc:    *)
(* requests for one static file, whose chunks are read by tasks of the CPU  *)
(* executor and sent, and cached, by the event loop of the one IO thread.   *)
(*                                                                         *)
(* Files do not share state, so one file shows everything.  Every task that *)
(* runs on a thread of its own takes several steps: read_file's test of its *)
(* loop, its read and its hand-over to the event loop are three.  A step of *)
(* a task whose handler is deleted, or a read through a file_ that another  *)
(* task reset, is undefined: the handler joins danger and stops.            *)
(***************************************************************************)
EXTENDS Integers, Sequences

CONSTANTS
  Requests,
  Chunks,       \* the reads of at most 4000 bytes it takes to read the file
  MaxTasks,     \* bound on the tasks of read_file one handler has at a time
  SlowClients,  \* the requests whose egress is ever paused
  MaxPauses,    \* bound on the pauses of all of them together
  Faults        \* of "client" (goes away) and "read" (the read fails)

ASSUME StaticHandlerAssumption ==
  /\ Chunks \in Nat /\ MaxPauses \in Nat
  /\ MaxTasks \in Nat \ {0}
  /\ SlowClients \subseteq Requests
  /\ Faults \subseteq {"client", "read"}

Tasks == 1..MaxTasks
File == [k \in 1..Chunks |-> k]
Closed == 0           \* file_ is null
NotCached == <<0>>    \* the file is not in the cache

VARIABLES
  cache_,               \* the entry of the file: the chunks appended
  handler,              \* of each request: "new", "live" or "deleted"
  response,             \* "none", "headers", "cached", "error", "aborted" or
                        \* "complete"; once "headers" a body is streamed
  body,                 \* what was sent to the client
  file_,                \* Closed, or the next chunk to read
  paused_, finished_, read_file_scheduled_,
  task,                 \* "off", "while", "read" or "post", of each task
  got,                  \* the chunk the task in "post" has read
  evb,                  \* what each request has to run on the event loop
  pauses,               \* onEgressPaused so far (history)
  resumed,              \* requests whose onEgressResumed added a task (history)
  danger                \* handlers used after delete, or through a null file_

flags == <<paused_, finished_, read_file_scheduled_>>
sending == <<response, body>>
tasks == <<task, got>>
vars == <<cache_, handler, sending, file_, flags, tasks, evb, pauses, resumed, danger>>

Init ==
  /\ cache_ = NotCached
  /\ handler = [r \in Requests |-> "new"]
  /\ response = [r \in Requests |-> "none"]
  /\ body = [r \in Requests |-> << >>]
  /\ file_ = [r \in Requests |-> Closed]
  /\ paused_ = [r \in Requests |-> FALSE]
  /\ finished_ = [r \in Requests |-> FALSE]
  /\ read_file_scheduled_ = [r \in Requests |-> FALSE]
  /\ task = [r \in Requests |-> [t \in Tasks |-> "off"]]
  /\ got = [r \in Requests |-> [t \in Tasks |-> 0]]
  /\ evb = [r \in Requests |-> << >>]
  /\ pauses = 0
  /\ resumed = {}
  /\ danger = {}

Live(r) == handler[r] = "live" /\ r \notin danger
Idle(r) == {t \in Tasks : task[r][t] = "off"}

(* getGlobalCPUExecutor()->add(read_file), as the first free task.          *)
AddTask(r) ==
  \E t \in Idle(r) :
    /\ \A s \in Idle(r) : t <= s
    /\ task' = [task EXCEPT ![r][t] = "while"]

Post(r, event) == evb' = [evb EXCEPT ![r] = Append(@, event)]

Respond(r, what) ==
  response' = [response EXCEPT ![r] = what]

-----------------------------------------------------------------------------
(* StaticFileCache::exists.                                                 *)
exists == cache_ # NotCached

(* StaticHandler::onRequest refuses: 400 for a path that is too long, has   *)
(* "//" or ".." in it or is not under the root, 405 for another method, and *)
(* 404 for a file that is not cached and cannot be opened.                  *)
onRequestRefused(r) ==
  /\ handler[r] = "new"
  /\ handler' = [handler EXCEPT ![r] = "live"]
  /\ Respond(r, "error")
  /\ UNCHANGED <<cache_, body, file_, flags, tasks, evb, pauses, resumed, danger>>

(* The file is in the cache: 200 with what the cache has of it.             *)
onRequestCached(r) ==
  /\ handler[r] = "new"
  /\ exists
  /\ handler' = [handler EXCEPT ![r] = "live"]
  /\ Respond(r, "cached")
  /\ body' = [body EXCEPT ![r] = cache_]
  /\ UNCHANGED <<cache_, file_, flags, tasks, evb, pauses, resumed, danger>>

(* The headers of a 200, and a task that reads the file, which is not       *)
(* marked as scheduled.                                                     *)
onRequestUnmarked(r) ==
  /\ handler[r] = "new" /\ ~exists
  /\ handler' = [handler EXCEPT ![r] = "live"]
  /\ file_' = [file_ EXCEPT ![r] = 1]
  /\ Respond(r, "headers")
  /\ AddTask(r)
  /\ UNCHANGED <<cache_, body, flags, got, evb, pauses, resumed, danger>>

(* The headers of a 200, and a task that reads the file.                    *)
onRequest(r) ==
  /\ handler[r] = "new"
  /\ ~exists
  /\ handler' = [handler EXCEPT ![r] = "live"]
  /\ file_' = [file_ EXCEPT ![r] = 1]
  /\ Respond(r, "headers")
  /\ read_file_scheduled_' = [read_file_scheduled_ EXCEPT ![r] = TRUE]
  /\ AddTask(r)
  /\ UNCHANGED <<cache_, body, paused_, finished_, got, evb, pauses, resumed, danger>>

-----------------------------------------------------------------------------
(* read_file, by task t: the test of its loop.                              *)
WhileReads(r, t) ==
  /\ Live(r)
  /\ task[r][t] = "while"
  /\ file_[r] # Closed /\ ~paused_[r]
  /\ task' = [task EXCEPT ![r][t] = "read"]
  /\ UNCHANGED <<cache_, handler, sending, file_, flags, got, evb, pauses, resumed, danger>>

(* The loop ends: the event loop is told, and the task is over.             *)
WhileEnds(r, t) ==
  /\ Live(r)
  /\ task[r][t] = "while"
  /\ file_[r] = Closed \/ paused_[r]
  /\ Post(r, <<"done">>)
  /\ task' = [task EXCEPT ![r][t] = "off"]
  /\ UNCHANGED <<cache_, handler, sending, file_, flags, got, pauses, resumed, danger>>

(* A read of 0 bytes is taken for data.                                     *)
ReadChunkIgnoresEof(r, t) ==
  /\ Live(r) /\ task[r][t] = "read" /\ file_[r] \in 1..Chunks + 1
  /\ got' = [got EXCEPT ![r][t] = file_[r]]
  /\ file_' = [file_ EXCEPT ![r] = @ + 1]
  /\ task' = [task EXCEPT ![r][t] = "post"]
  /\ UNCHANGED <<cache_, handler, sending, flags, evb, pauses, resumed, danger>>

ReadChunk(r, t) ==
  /\ Live(r)
  /\ task[r][t] = "read"
  /\ file_[r] \in 1..Chunks
  /\ got' = [got EXCEPT ![r][t] = file_[r]]
  /\ file_' = [file_ EXCEPT ![r] = @ + 1]
  /\ task' = [task EXCEPT ![r][t] = "post"]
  /\ UNCHANGED <<cache_, handler, sending, flags, evb, pauses, resumed, danger>>

PostChunk(r, t) ==
  /\ Live(r)
  /\ task[r][t] = "post"
  /\ Post(r, <<"chunk", got[r][t]>>)
  /\ got' = [got EXCEPT ![r][t] = 0]
  /\ task' = [task EXCEPT ![r][t] = "while"]
  /\ UNCHANGED <<cache_, handler, sending, file_, flags, pauses, resumed, danger>>

(* rc == 0: the file is closed before the end is announced.                 *)
ReadEof(r, t) ==
  /\ Live(r)
  /\ task[r][t] = "read"
  /\ file_[r] = Chunks + 1
  /\ file_' = [file_ EXCEPT ![r] = Closed]
  /\ Post(r, <<"eof">>)
  /\ task' = [task EXCEPT ![r][t] = "while"]
  /\ UNCHANGED <<cache_, handler, sending, flags, got, pauses, resumed, danger>>

(* A failed read is taken for the end of the file.                          *)
ReadFailsAsEof(r, t) ==
  /\ Live(r) /\ "read" \in Faults /\ task[r][t] = "read" /\ file_[r] # Closed
  /\ file_' = [file_ EXCEPT ![r] = Closed]
  /\ Post(r, <<"eof">>)
  /\ task' = [task EXCEPT ![r][t] = "while"]
  /\ UNCHANGED <<cache_, handler, sending, flags, got, pauses, resumed, danger>>

(* The file is not closed after a failed read, and the loop goes on.        *)
ReadFailsKeepsFile(r, t) ==
  /\ Live(r) /\ "read" \in Faults /\ task[r][t] = "read" /\ file_[r] # Closed
  /\ Post(r, <<"abort">>)
  /\ task' = [task EXCEPT ![r][t] = "while"]
  /\ UNCHANGED <<cache_, handler, sending, file_, flags, got, pauses, resumed, danger>>

(* rc < 0: break; the test of the loop, with no file, ends it as well.      *)
ReadFails(r, t) ==
  /\ Live(r)
  /\ "read" \in Faults
  /\ task[r][t] = "read"
  /\ file_[r] # Closed
  /\ file_' = [file_ EXCEPT ![r] = Closed]
  /\ Post(r, <<"abort">>)
  /\ task' = [task EXCEPT ![r][t] = "while"]
  /\ UNCHANGED <<cache_, handler, sending, flags, got, pauses, resumed, danger>>

(* file_->fd() after another task has reset file_.                          *)
ReadThroughNull(r, t) ==
  /\ Live(r)
  /\ task[r][t] = "read"
  /\ file_[r] = Closed
  /\ danger' = danger \cup {r}
  /\ UNCHANGED <<cache_, handler, sending, file_, flags, tasks, evb, pauses, resumed>>

-----------------------------------------------------------------------------
(* The requests whose response wraps the memory of the cache's vector.      *)
WrapCache == {q \in Requests : Live(q) /\ response[q] = "cached"}

NextEvent(r, event) == Live(r) /\ evb[r] # << >> /\ Head(evb[r])[1] = event

(* The chunk is sent and not cached.                                        *)
SendChunkUncached(r) ==
  /\ NextEvent(r, "chunk")
  /\ evb' = [evb EXCEPT ![r] = Tail(@)]
  /\ body' = [body EXCEPT ![r] = Append(@, Head(evb[r])[2])]
  /\ UNCHANGED <<cache_, danger, handler, response, file_, flags, tasks, pauses, resumed>>

(* append_data, and the chunk is sent: to nobody once the request has       *)
(* finished.  The vector may have to move, under those that wrap it.        *)
SendChunk(r) ==
  /\ NextEvent(r, "chunk")
  /\ evb' = [evb EXCEPT ![r] = Tail(@)]
  /\ LET chunk == Head(evb[r])[2] IN
     /\ cache_' = IF cache_ = NotCached THEN <<chunk>> ELSE Append(cache_, chunk)
     /\ body' = IF finished_[r] THEN body ELSE [body EXCEPT ![r] = Append(@, chunk)]
  /\ danger' \in {danger, danger \cup WrapCache}
  /\ UNCHANGED <<handler, response, file_, flags, tasks, pauses, resumed>>

SendEom(r) ==
  /\ NextEvent(r, "eof")
  /\ evb' = [evb EXCEPT ![r] = Tail(@)]
  /\ response' = IF finished_[r] THEN response
                 ELSE [response EXCEPT ![r] = "complete"]
  /\ UNCHANGED <<cache_, handler, body, file_, flags, tasks, pauses, resumed, danger>>

SendAbort(r) ==
  /\ NextEvent(r, "abort")
  /\ evb' = [evb EXCEPT ![r] = Tail(@)]
  /\ response' = IF finished_[r] THEN response
                 ELSE [response EXCEPT ![r] = "aborted"]
  /\ UNCHANGED <<cache_, handler, body, file_, flags, tasks, pauses, resumed, danger>>

(* onEgressResumed: paused_ is cleared, and read_file added if none is      *)
(* scheduled and there is something to read; it is not marked as scheduled. *)
Resume(r) ==
  /\ paused_' = [paused_ EXCEPT ![r] = FALSE]
  /\ IF ~read_file_scheduled_'[r] /\ file_[r] # Closed
     THEN AddTask(r) /\ resumed' = resumed \cup {r}
     ELSE UNCHANGED <<task, resumed>>

(* The last task of read_file: a pause that was over in time is forgotten.  *)
DoneForgetsToResume(r) ==
  /\ NextEvent(r, "done")
  /\ evb' = [evb EXCEPT ![r] = Tail(@)]
  /\ read_file_scheduled_' = [read_file_scheduled_ EXCEPT ![r] = FALSE]
  /\ handler' = [handler EXCEPT ![r] = IF finished_[r] THEN "deleted" ELSE @]
  /\ UNCHANGED <<cache_, sending, file_, paused_, finished_, tasks, pauses, resumed, danger>>

(* A pending read is over: check_for_completion, or read on.                *)
Done(r) ==
  /\ NextEvent(r, "done")
  /\ evb' = [evb EXCEPT ![r] = Tail(@)]
  /\ read_file_scheduled_' = [read_file_scheduled_ EXCEPT ![r] = FALSE]
  /\ handler' = [handler EXCEPT ![r] = IF finished_[r] THEN "deleted" ELSE @]
  /\ IF finished_[r] \/ paused_[r] THEN UNCHANGED <<paused_, task, resumed>> ELSE Resume(r)
  /\ UNCHANGED <<cache_, sending, file_, finished_, got, pauses, danger>>

-----------------------------------------------------------------------------
(* proxygen's callbacks, until the request is finished.                     *)
onEgressPaused(r) ==
  /\ Live(r) /\ ~finished_[r]
  /\ response[r] = "headers"
  /\ ~paused_[r]
  /\ r \in SlowClients /\ pauses < MaxPauses
  /\ pauses' = pauses + 1
  /\ paused_' = [paused_ EXCEPT ![r] = TRUE]
  /\ UNCHANGED <<cache_, handler, sending, file_, finished_, read_file_scheduled_,
                 tasks, evb, resumed, danger>>

onEgressResumed(r) ==
  /\ Live(r) /\ ~finished_[r]
  /\ paused_[r]
  /\ UNCHANGED read_file_scheduled_
  /\ Resume(r)
  /\ UNCHANGED <<cache_, handler, sending, file_, finished_, got, evb, pauses, danger>>

(* requestComplete and onError alike, with check_for_completion.            *)
Finish(r) ==
  /\ finished_' = [finished_ EXCEPT ![r] = TRUE]
  /\ paused_' = [paused_ EXCEPT ![r] = TRUE]
  /\ handler' = [handler EXCEPT ![r] = IF read_file_scheduled_[r] THEN @ ELSE "deleted"]
  /\ UNCHANGED <<cache_, sending, file_, read_file_scheduled_, tasks, evb,
                 pauses, resumed, danger>>

requestComplete(r) ==
  /\ Live(r) /\ ~finished_[r]
  /\ response[r] \in {"complete", "cached", "error", "aborted"}
  /\ Finish(r)

onError(r) ==
  /\ Live(r) /\ ~finished_[r]
  /\ "client" \in Faults
  /\ Finish(r)

(* A task or a callback goes on with a deleted handler.                     *)
UseAfterDelete(r) ==
  /\ handler[r] = "deleted" /\ r \notin danger
  /\ Idle(r) # Tasks \/ evb[r] # << >>
  /\ danger' = danger \cup {r}
  /\ UNCHANGED <<cache_, handler, sending, file_, flags, tasks, evb, pauses, resumed>>

Task(r, t) ==
  \/ WhileReads(r, t) \/ WhileEnds(r, t)
  \/ ReadChunk(r, t) \/ PostChunk(r, t) \/ ReadEof(r, t) \/ ReadFails(r, t)
  \/ ReadThroughNull(r, t)

EventLoop(r) == SendChunk(r) \/ SendEom(r) \/ SendAbort(r) \/ Done(r)

Next ==
  \E r \in Requests :
    \/ onRequestRefused(r) \/ onRequestCached(r) \/ onRequest(r)
    \/ \E t \in Tasks : Task(r, t)
    \/ EventLoop(r)
    \/ onEgressPaused(r) \/ onEgressResumed(r)
    \/ requestComplete(r) \/ onError(r)
    \/ UseAfterDelete(r)

(* The executor and the event loop run what they are given; proxygen        *)
(* finishes what was answered, and resumes a paused egress, unless the      *)
(* client goes away or the server's idleTimeout ends the request.           *)
Fairness ==
  \A r \in Requests :
    /\ \A t \in Tasks : WF_vars(Task(r, t))
    /\ WF_vars(EventLoop(r))
    /\ WF_vars(requestComplete(r))
    /\ WF_vars(onEgressResumed(r))

Spec == Init /\ [][Next]_vars
FairSpec == Spec /\ Fairness

-----------------------------------------------------------------------------
Events == {<<"done">>, <<"eof">>, <<"abort">>} \cup ({"chunk"} \X (1..Chunks))

TypeOK ==
  /\ cache_ \in Seq(0..Chunks)
  /\ handler \in [Requests -> {"new", "live", "deleted"}]
  /\ response \in [Requests ->
       {"none", "headers", "cached", "error", "aborted", "complete"}]
  /\ body \in [Requests -> Seq(0..Chunks)]
  /\ file_ \in [Requests -> 0..Chunks + 1]
  /\ paused_ \in [Requests -> BOOLEAN]
  /\ finished_ \in [Requests -> BOOLEAN]
  /\ read_file_scheduled_ \in [Requests -> BOOLEAN]
  /\ task \in [Requests -> [Tasks -> {"off", "while", "read", "post"}]]
  /\ got \in [Requests -> [Tasks -> 0..Chunks]]
  /\ evb \in [Requests -> Seq(Events)]
  /\ pauses \in 0..MaxPauses
  /\ resumed \in SUBSET Requests
  /\ danger \in SUBSET Requests

(* A task of read_file is under way, or its last callback is.               *)
Reading(r) ==
  \/ Idle(r) # Tasks
  \/ \E k \in 1..Len(evb[r]) : evb[r][k] = <<"done">>

(* No wake-up is lost between pause, resume and the end of a read: while a  *)
(* file is open and nothing holds the transfer back, somebody reads it, and *)
(* a handler that waits for a read to end before it is deleted waits for    *)
(* one that exists.                                                         *)
NoLostWakeup ==
  \A r \in Requests : Live(r) =>
    /\ file_[r] # Closed /\ ~paused_[r] => Reading(r)
    /\ read_file_scheduled_[r] => Reading(r)

(* read_file_scheduled_ protects a handler from being deleted under the     *)
(* task that onRequest added: only a handler whose reading was resumed, or  *)
(* one whose response wraps the cache, is ever used when it may not be.     *)
DangerTakesResume ==
  \A r \in danger : r \in resumed \/ response[r] = "cached"

(* Nothing is sent on downstream_ once the request is over, unless its      *)
(* client failed while the body was streamed: a response that has its end,  *)
(* or was aborted, and whose reading never had to be resumed leaves nothing *)
(* posted but the end of the read.                                          *)
SendsAfterEndTakeFailure ==
  \A r \in Requests \ resumed :
    Live(r) /\ finished_[r] /\ response[r] # "headers" =>
      \A k \in 1..Len(evb[r]) : evb[r][k] = <<"done">>

(* A streamed response that is complete has the whole file in order, if its *)
(* reading never had to be resumed, whatever other requests do.             *)
StreamedWhole ==
  \A r \in Requests \ resumed : response[r] = "complete" => body[r] = File

(* Chunks get into the cache by streaming only, so that the first response  *)
(* to be complete, alone in streaming and not resumed, has cached the file. *)
CacheHoldsStreamed ==
  \A r \in Requests :
    /\ r \notin resumed /\ response[r] = "complete"
    /\ \A q \in Requests \ {r} : response[q] \in {"none", "cached", "error"}
    => cache_ = IF Chunks = 0 THEN NotCached ELSE File

(* Every request for a static file ends: its handler is deleted, or what it *)
(* does is undefined.                                                       *)
EveryTransferEnds ==
  \A r \in Requests :
    handler[r] = "live" ~> handler[r] = "deleted" \/ r \in danger

(* "Cache static files in memory to serve them quickly" (static_handler.h   *)
(* line 24): a response from the cache has the whole file.                  *)
ServedFromCacheIsWhole ==
  \A r \in Requests : response[r] = "cached" => body[r] = File
=============================================================================
