--------------------------- MODULE AssistantRuns ---------------------------
(***************************************************************************)
(* The Assistants API of oxillama-server (threads/): handlers that create  *)
(* threads, post messages, create runs and cancel them (routes.rs), an     *)
(* unbounded queue of runs (queue.rs), one worker task that executes them  *)
(* (worker.rs), the directory they are kept in (store.rs) and the events   *)
(* the worker broadcasts (stream.rs).                                      *)
(*                                                                         *)
(* Handlers and the worker share the store with no lock.  A run's          *)
(* status.json is replaced atomically, but the check of its present status *)
(* and the replacement are two steps.  A message is appended by writeln!   *)
(* to an unbuffered file, which is two writes: the JSON text, then the     *)
(* line feed.  A file operation may fail and the process may crash.        *)
(***************************************************************************)
EXTENDS Integers, Sequences, FiniteSets

CONSTANTS
    Threads,
    Runs,        \* run identifiers, one per POST
    Posts,       \* user messages, one per POST
    ThreadOf,    \* the thread of each run and of each user message
    Newline,     \* the line feed in messages.jsonl
    None,
    MaxCancels,  \* bound: cancel requests in a behaviour
    MaxFaults,   \* bound: failing operations
    MaxCrashes   \* bound: crashes

(* A message: a user's, or the reply of a run, named after the run. *)
Messages == Posts \cup Runs

Statuses == {"queued", "in_progress", "completed", "cancelled", "failed"}
Terminal == {"completed", "cancelled", "failed"}

(* A broadcast RunEvent, with the status of the run it carries; the text   *)
(* of a reply carries none.                                                *)
Event ==
    [kind : {"in_progress", "delta", "completed", "failed"}, status : Statuses \cup {None}]

ASSUME AssistantAssumption ==
    /\ Posts \cap Runs = {}
    /\ ThreadOf \in [Messages -> Threads]
    /\ Newline \notin Messages
    /\ None \notin Messages /\ None \notin Statuses
    /\ MaxCancels \in Nat /\ MaxFaults \in Nat /\ MaxCrashes \in Nat

VARIABLES
    thread,     \* meta.json of the thread exists
    file,       \* messages.jsonl of each thread: messages and line feeds
    status,     \* status.json of each run, None before it is written
    step,       \* the run's step: None, in_progress, completed, detailed
    create,     \* where the POST handler of each run is
    post,       \* where the POST handler of each user message is
    cancel,     \* the run each cancel request is about to overwrite
    queue,      \* runs waiting for the worker
    alive,      \* the worker task was spawned
    pc,         \* where the worker is
    run,        \* the run it executes
    seen,       \* the messages in the prompt of each run
    events,     \* what was broadcast about each run
    cancels, faults, crashes

diskVars == <<thread, file, status, step>>
handlerVars == <<create, post, cancel, cancels>>
workerVars == <<pc, run, seen, events>>
vars == <<diskVars, handlerVars, queue, alive, workerVars, faults, crashes>>

Cancels == 1..MaxCancels

----------------------------------------------------------------------------
(* list_messages: a line is kept when it parses, that is when it holds one *)
(* message; the last line need not have its line feed.                     *)
Readable(f, i) ==
    /\ f[i] # Newline
    /\ i > 1 => f[i - 1] = Newline
    /\ i < Len(f) => f[i + 1] = Newline

ListMessages(f) == {f[i] : i \in {j \in DOMAIN f : Readable(f, j)}}

(* with_threads does not spawn the worker, spawn_run_worker does. *)
Init ==
    /\ thread = [t \in Threads |-> FALSE] /\ file = [t \in Threads |-> <<>>]
    /\ status = [r \in Runs |-> None] /\ step = [r \in Runs |-> "none"]
    /\ create = [r \in Runs |-> "new"] /\ post = [m \in Posts |-> "new"]
    /\ cancel = [c \in Cancels |-> None] /\ cancels = 0
    /\ queue = <<>> /\ alive \in BOOLEAN
    /\ pc = "recv" /\ run = None
    /\ seen = [r \in Runs |-> {}] /\ events = [r \in Runs |-> <<>>]
    /\ faults = 0 /\ crashes = 0

Fault == faults < MaxFaults /\ faults' = faults + 1

----------------------------------------------------------------------------
(* Threads and user messages.  The seed messages of a new thread are       *)
(* appended like posted ones.                                              *)

CreateThread(t) ==
    /\ ~thread[t]
    /\ thread' = [thread EXCEPT ![t] = TRUE]
    /\ UNCHANGED <<file, status, step, handlerVars, queue, alive, workerVars, faults, crashes>>

(* append_message: the JSON text is written, or opening the file fails. *)
PostText(m) ==
    /\ post[m] = "new" /\ thread[ThreadOf[m]]
    /\ \/ /\ file' = [file EXCEPT ![ThreadOf[m]] = Append(@, m)]
          /\ post' = [post EXCEPT ![m] = "text"]
          /\ UNCHANGED faults
       \/ /\ Fault
          /\ post' = [post EXCEPT ![m] = "error"]
          /\ UNCHANGED file
    /\ UNCHANGED <<thread, status, step, create, cancel, cancels, queue, alive,
                   workerVars, crashes>>

(* The line feed is written and the client is told OK, or this fails. *)
PostNewline(m) ==
    /\ post[m] = "text"
    /\ \/ /\ file' = [file EXCEPT ![ThreadOf[m]] = Append(@, Newline)]
          /\ post' = [post EXCEPT ![m] = "ok"]
          /\ UNCHANGED faults
       \/ /\ Fault
          /\ post' = [post EXCEPT ![m] = "error"]
          /\ UNCHANGED file
    /\ UNCHANGED <<thread, status, step, create, cancel, cancels, queue, alive,
                   workerVars, crashes>>

----------------------------------------------------------------------------
(* create_run_handler: persist the run, then queue it. *)

(* Mutant: the run is queued before it is persisted. *)
CreateRunUnwritten(r) ==
    /\ create[r] = "new" /\ thread[ThreadOf[r]]
    /\ create' = [create EXCEPT ![r] = "written"]
    /\ UNCHANGED <<diskVars, post, cancel, cancels, queue, alive, workerVars, faults, crashes>>

CreateRun(r) ==
    /\ create[r] = "new" /\ thread[ThreadOf[r]]
    /\ \/ /\ status' = [status EXCEPT ![r] = "queued"]
          /\ create' = [create EXCEPT ![r] = "written"]
          /\ UNCHANGED faults
       \/ /\ Fault
          /\ create' = [create EXCEPT ![r] = "error"]
          /\ UNCHANGED status
    /\ UNCHANGED <<thread, file, step, post, cancel, cancels, queue, alive,
                   workerVars, crashes>>

(* The send succeeds, or the worker is not there and the run is failed. *)
Enqueue(r) ==
    /\ create[r] = "written"
    /\ IF alive
       THEN /\ queue' = Append(queue, r)
            /\ create' = [create EXCEPT ![r] = "accepted"]
       ELSE /\ create' = [create EXCEPT ![r] = "unsent"]
            /\ UNCHANGED queue
    /\ UNCHANGED <<diskVars, post, cancel, cancels, alive, workerVars, faults, crashes>>

(* force_update_run_status(Failed), its own failure ignored. *)
FailUnsent(r) ==
    /\ create[r] = "unsent"
    /\ create' = [create EXCEPT ![r] = "accepted"]
    /\ \/ status' = [status EXCEPT ![r] = "failed"] /\ UNCHANGED faults
       \/ Fault /\ UNCHANGED status
    /\ UNCHANGED <<thread, file, step, post, cancel, cancels, queue, alive,
                   workerVars, crashes>>

(* The client leaves while create_run runs on the blocking pool: the run   *)
(* is on disk and nobody queues it.                                        *)
ClientLeaves(r) ==
    /\ create[r] = "written"
    /\ create' = [create EXCEPT ![r] = "error"]
    /\ UNCHANGED <<diskVars, post, cancel, cancels, queue, alive, workerVars, faults,
                   crashes>>

----------------------------------------------------------------------------
(* cancel_run_handler: look at the status, then overwrite it. *)

(* A run in a terminal state is a conflict (409): nothing is written. *)
CancelRead(r) ==
    /\ cancels < MaxCancels /\ status[r] # None
    /\ cancels' = cancels + 1
    /\ IF status[r] \in Terminal
       THEN UNCHANGED cancel
       ELSE cancel' = [cancel EXCEPT ![cancels + 1] = r]
    /\ UNCHANGED <<diskVars, create, post, queue, alive, workerVars, faults, crashes>>

(* force_update_run_status(Cancelled), which looks at nothing. *)
CancelWrite(c) ==
    /\ cancel[c] # None
    /\ cancel' = [cancel EXCEPT ![c] = None]
    /\ \/ status' = [status EXCEPT ![cancel[c]] = "cancelled"] /\ UNCHANGED faults
       \/ Fault /\ UNCHANGED status
    /\ UNCHANGED <<thread, file, step, create, post, cancels, queue, alive,
                   workerVars, crashes>>

----------------------------------------------------------------------------
(* The worker: spawn_run_worker and process_run. *)

Goto(from, to) == pc = from /\ pc' = to

Broadcast(kind, carried) ==
    events' = [events EXCEPT ![run] = Append(@, [kind |-> kind, status |-> carried])]

Receive ==
    /\ Goto("recv", "begin") /\ queue # <<>>
    /\ run' = Head(queue) /\ queue' = Tail(queue)
    /\ UNCHANGED <<diskVars, handlerVars, alive, seen, events, faults, crashes>>

(* update_run_status, first half: a terminal status is an error. *)
Guard ==
    /\ \/ pc = "begin" /\ pc' = IF status[run] \in Terminal THEN "error" ELSE "begin_write"
       \/ pc = "finish" /\ pc' = IF status[run] \in Terminal THEN "error" ELSE "finish_write"
    /\ UNCHANGED <<diskVars, handlerVars, queue, alive, run, seen, events, faults, crashes>>

(* update_run_status, second half. *)
SetStatus ==
    /\ \/ /\ Goto("begin_write", "begin_event")
          /\ status' = [status EXCEPT ![run] = "in_progress"]
       \/ /\ Goto("finish_write", "finish_event")
          /\ status' = [status EXCEPT ![run] = "completed"]
    /\ UNCHANGED <<thread, file, step, handlerVars, queue, alive, run, seen, events, faults,
                   crashes>>

(* The run is read back and broadcast; a failure is ignored. *)
Announce ==
    /\ \/ /\ Goto("begin_event", "list") /\ UNCHANGED run
          /\ \/ Broadcast("in_progress", status[run]) /\ UNCHANGED faults
             \/ Fault /\ UNCHANGED events
       \/ /\ Goto("finish_event", "recv") /\ run' = None
          /\ \/ Broadcast("completed", status[run]) /\ UNCHANGED faults
             \/ Fault /\ UNCHANGED events
    /\ UNCHANGED <<diskVars, handlerVars, queue, alive, seen, crashes>>

(* Mutant: the prompt leaves out the replies already given. *)
ReadThreadUsersOnly ==
    /\ Goto("list", "step")
    /\ seen' = [seen EXCEPT ![run] = ListMessages(file[ThreadOf[run]]) \cap Posts]
    /\ UNCHANGED <<diskVars, handlerVars, queue, alive, run, events, faults, crashes>>

(* list_messages and format_thread_prompt. *)
ReadThread ==
    /\ Goto("list", "step")
    /\ seen' = [seen EXCEPT ![run] = ListMessages(file[ThreadOf[run]])]
    /\ UNCHANGED <<diskVars, handlerVars, queue, alive, run, events, faults, crashes>>

AppendStep ==
    /\ Goto("step", "infer")
    /\ step' = [step EXCEPT ![run] = "in_progress"]
    /\ UNCHANGED <<thread, file, status, handlerVars, queue, alive, run, seen, events, faults,
                   crashes>>

(* Mutant: the run is marked completed before its reply is stored. *)
InferCompletes ==
    /\ Goto("infer", "finish")
    /\ Broadcast("delta", None)
    /\ UNCHANGED <<diskVars, handlerVars, queue, alive, run, seen, faults, crashes>>

(* The inference worker answers; the text is broadcast. *)
Infer ==
    /\ Goto("infer", "text")
    /\ Broadcast("delta", None)
    /\ UNCHANGED <<diskVars, handlerVars, queue, alive, run, seen, faults, crashes>>

(* It answers with an error, or its queue or the reply channel is closed. *)
InferFails ==
    /\ Goto("infer", "error")
    /\ UNCHANGED <<diskVars, handlerVars, queue, alive, run, seen, events, faults, crashes>>

(* append_message of the reply: the JSON text, then the line feed. *)
ReplyText ==
    /\ Goto("text", "newline")
    /\ file' = [file EXCEPT ![ThreadOf[run]] = Append(@, run)]
    /\ UNCHANGED <<thread, status, step, handlerVars, queue, alive, run, seen, events, faults,
                   crashes>>

ReplyNewline ==
    /\ Goto("newline", "step_done")
    /\ file' = [file EXCEPT ![ThreadOf[run]] = Append(@, Newline)]
    /\ UNCHANGED <<thread, status, step, handlerVars, queue, alive, run, seen, events, faults,
                   crashes>>

(* update_step_status(Completed), then the message id is attached. *)
UpdateStep ==
    /\ \/ Goto("step_done", "details") /\ step' = [step EXCEPT ![run] = "completed"]
       \/ Goto("details", "finish") /\ step' = [step EXCEPT ![run] = "detailed"]
    /\ UNCHANGED <<thread, file, status, handlerVars, queue, alive, run, seen, events, faults,
                   crashes>>

(* Any operation of process_run fails: `?` returns the error. *)
StepFails ==
    /\ pc \in {"begin", "begin_write", "list", "step", "text", "newline", "step_done",
               "details", "finish", "finish_write"}
    /\ Fault /\ pc' = "error"
    /\ UNCHANGED <<diskVars, handlerVars, queue, alive, run, seen, events, crashes>>

(* Mutant: a failed run ends no stream. *)
AnnounceFailureSilent ==
    /\ Goto("error", "fail")
    /\ UNCHANGED <<diskVars, handlerVars, queue, alive, run, seen, events, faults, crashes>>

(* The error path: the run as it is now is broadcast as failed. *)
AnnounceFailure ==
    /\ Goto("error", "fail")
    /\ \/ Broadcast("failed", status[run]) /\ UNCHANGED faults
       \/ Fault /\ UNCHANGED events
    /\ UNCHANGED <<diskVars, handlerVars, queue, alive, run, seen, crashes>>

(* Mutant: the error path logs the error and goes on. *)
FailRunNever ==
    /\ Goto("fail", "recv") /\ run' = None
    /\ UNCHANGED <<diskVars, handlerVars, queue, alive, seen, events, faults, crashes>>

(* Then force_update_run_status(Failed), its own failure ignored. *)
FailRun ==
    /\ Goto("fail", "recv") /\ run' = None
    /\ \/ status' = [status EXCEPT ![run] = "failed"] /\ UNCHANGED faults
       \/ Fault /\ UNCHANGED status
    /\ UNCHANGED <<thread, file, step, handlerVars, queue, alive, seen, events, crashes>>

----------------------------------------------------------------------------
(* The process dies and is started again: the queue, the worker and every  *)
(* handler are lost; nothing at startup looks for unfinished runs.         *)
Crash ==
    /\ crashes < MaxCrashes /\ crashes' = crashes + 1
    /\ queue' = <<>> /\ pc' = "recv" /\ run' = None
    /\ cancel' = [c \in Cancels |-> None]
    /\ create' = [r \in Runs |->
                    IF create[r] \in {"written", "unsent"} THEN "error" ELSE create[r]]
    /\ post' = [m \in Posts |-> IF post[m] = "text" THEN "error" ELSE post[m]]
    /\ UNCHANGED <<diskVars, cancels, alive, seen, events, faults>>

Worker ==
    \/ Receive \/ Guard \/ SetStatus \/ Announce \/ ReadThread \/ AppendStep \/ Infer
    \/ InferFails \/ ReplyText \/ ReplyNewline \/ UpdateStep \/ StepFails
    \/ AnnounceFailure \/ FailRun

RunHandler(r) ==
    CreateRun(r) \/ Enqueue(r) \/ FailUnsent(r) \/ ClientLeaves(r) \/ CancelRead(r)

(* Everything was posted and nothing is left to do. *)
Quiet ==
    /\ pc = "recv" /\ queue = <<>>
    /\ \A r \in Runs : create[r] \in {"accepted", "error"}
    /\ \A m \in Posts : post[m] \in {"ok", "error"}
    /\ UNCHANGED vars

Next ==
    \/ alive /\ Worker
    \/ \E t \in Threads : CreateThread(t)
    \/ \E m \in Posts : PostText(m) \/ PostNewline(m)
    \/ \E r \in Runs : RunHandler(r)
    \/ \E c \in Cancels : CancelWrite(c)
    \/ Crash
    \/ Quiet

Spec == Init /\ [][Next]_vars

(* The worker task is polled and the blocking pool runs what it was given; *)
(* InferenceWorker answers every call (AllAnswered there).                 *)
FairSpec ==
    /\ Spec
    /\ WF_vars(alive /\ Worker)
    /\ \A r \in Runs : WF_vars(FailUnsent(r))

----------------------------------------------------------------------------
(* Properties. *)

DiskTypeOK ==
    /\ thread \in [Threads -> BOOLEAN]
    /\ file \in [Threads -> Seq(Messages \cup {Newline})]
    /\ status \in [Runs -> Statuses \cup {None}]
    /\ step \in [Runs -> {"none", "in_progress", "completed", "detailed"}]

HandlerTypeOK ==
    /\ create \in [Runs -> {"new", "written", "unsent", "accepted", "error"}]
    /\ \A r \in Runs : create[r] \in {"written", "unsent", "accepted"} => status[r] # None
    /\ post \in [Posts -> {"new", "text", "ok", "error"}]
    /\ cancel \in [Cancels -> Runs \cup {None}]
    /\ \A c \in Cancels : cancel[c] # None => status[cancel[c]] # None
    /\ cancels \in 0..MaxCancels

WorkerTypeOK ==
    /\ queue \in Seq(Runs) /\ alive \in BOOLEAN
    /\ \A i \in DOMAIN queue : status[queue[i]] # None
    /\ pc \in {"recv", "begin", "begin_write", "begin_event", "list", "step", "infer", "text",
               "newline", "step_done", "details", "finish", "finish_write", "finish_event",
               "error", "fail"}
    /\ run \in Runs \cup {None} /\ (run = None <=> pc = "recv")
    /\ run # None => status[run] # None
    /\ seen \in [Runs -> SUBSET Messages]
    /\ events \in [Runs -> Seq(Event)]

(* Every variable has its type, and whatever a queue, a handler or the     *)
(* worker refers to is on disk.                                            *)
TypeOK ==
    /\ DiskTypeOK /\ HandlerTypeOK /\ WorkerTypeOK
    /\ faults \in 0..MaxFaults /\ crashes \in 0..MaxCrashes

(* A run that reads "completed" has delivered: its reply is in the log of  *)
(* its thread exactly once and its step carries the message id, whatever   *)
(* was cancelled, failed or crashed on the way.                            *)
CompletedDelivers ==
    \A r \in Runs : status[r] = "completed" =>
        /\ step[r] = "detailed"
        /\ \E i \in DOMAIN file[ThreadOf[r]] : file[ThreadOf[r]][i] = r
        /\ \A i, j \in DOMAIN file[ThreadOf[r]] :
              file[ThreadOf[r]][i] = r /\ file[ThreadOf[r]][j] = r => i = j

(* Runs on one thread do not overlap: the prompt of a run held every reply *)
(* that stands before its own in the log and can still be read.            *)
RepliesSeen ==
    \A t \in Threads : \A i, j \in DOMAIN file[t] :
        i < j /\ file[t][i] \in Runs /\ file[t][j] \in Runs /\ Readable(file[t], i)
            => file[t][i] \in seen[file[t][j]]

(* Every run that was accepted reaches a terminal status, whether it is    *)
(* completed, fails, is cancelled at any moment, or finds no worker,       *)
(* unless a write fails or the process goes down.                          *)
RunsFinish ==
    \A r \in Runs : (create[r] = "accepted") ~>
        (status[r] \in Terminal \/ faults > 0 \/ crashes > 0)

(* Every run the worker takes up ends its event stream: consumers read     *)
(* until they see a completed or a failed event.  The event carries the    *)
(* run as read back, so a read that fails loses it.                        *)
StreamsEnd ==
    \A r \in Runs : (run = r) ~>
        \/ \E i \in DOMAIN events[r] : events[r][i].kind \in {"completed", "failed"}
        \/ faults > 0 \/ crashes > 0

(* A message whose append was acknowledged is listed. *)
MessagesKept ==
    \A m \in Posts : post[m] = "ok" => m \in ListMessages(file[ThreadOf[m]])
=============================================================================
