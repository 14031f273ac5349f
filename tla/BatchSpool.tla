----------------------------- MODULE BatchSpool -----------------------------
(***************************************************************************)
(* The disk-spooled batch API of oxillama-server (batch_spool/): handlers  *)
(* that create and cancel jobs (routes.rs), a bounded queue of job ids     *)
(* (queue.rs), one worker task that runs the lines of a job through the    *)
(* inference queue (worker.rs), and the spool directory (store.rs).        *)
(*                                                                         *)
(* status.json is replaced atomically, but every change of it is a read    *)
(* followed by a write, and the worker and the cancel handler do this      *)
(* concurrently with no lock.  Each read and each write is a step here.    *)
(* A file operation may fail, and the process may crash and restart.       *)
(***************************************************************************)
EXTENDS Integers, Sequences, FiniteSets

CONSTANTS
    Jobs,        \* job identifiers, one per POST
    Input,       \* the lines of each job's input.jsonl
    None,
    QueueCap,    \* capacity of the work queue
    MaxCancels,  \* bound: cancel requests in a behaviour
    MaxFaults,   \* bound: failing file operations
    MaxCrashes   \* bound: crashes

LineKinds == {"good", "malformed"}
Statuses == {"pending", "in_progress", "completed", "failed", "cancelled"}
Terminal == {"completed", "failed", "cancelled"}

Meta == [status : Statuses, completed : Nat, failed : Nat, cancel : BOOLEAN]

(* What a cancel request remembers between its read and its write. *)
CancelSnap == [job : Jobs, meta : Meta]

ASSUME NoneAssumption == None \notin Jobs /\ None \notin Meta /\ None \notin CancelSnap

ASSUME SpoolAssumption ==
    /\ Input \in [Jobs -> Seq(LineKinds)]
    /\ QueueCap \in Nat \ {0}
    /\ MaxCancels \in Nat /\ MaxFaults \in Nat /\ MaxCrashes \in Nat

VARIABLES
    meta,       \* status.json of each job, None before it is written
    output,     \* output.jsonl: [line, kind] records
    errors,     \* errors.jsonl: line numbers
    create,     \* where the POST handler of each job is
    csnap,      \* what each cancel request has read and not yet written back
    queue,      \* job ids waiting for the worker
    pc,         \* where the worker task is
    rmw,        \* which update of status.json it is making
    job,        \* the job it processes
    idx,        \* the line it is at
    completed,  \* its local counters
    failed,
    result,     \* the outcome of the current line
    snap,       \* what it has read of status.json and not yet written back
    cancels, faults, crashes

diskVars == <<meta, output, errors>>
handlerVars == <<create, csnap, cancels>>
workerVars == <<pc, rmw, job, idx, completed, failed, result, snap>>
vars == <<diskVars, handlerVars, queue, workerVars, faults, crashes>>

Total(j) == Len(Input[j])

(* The cancel requests, numbered as they arrive, for any of the jobs. *)
Cancels == 1..MaxCancels

----------------------------------------------------------------------------
WorkerIdle ==
    /\ pc = "recv" /\ rmw = "none" /\ job = None /\ idx = 1
    /\ completed = 0 /\ failed = 0 /\ result = "none" /\ snap = None

Init ==
    /\ meta = [j \in Jobs |-> None]
    /\ output = [j \in Jobs |-> <<>>] /\ errors = [j \in Jobs |-> <<>>]
    /\ create = [j \in Jobs |-> "new"]
    /\ csnap = [c \in Cancels |-> None]
    /\ queue = <<>>
    /\ WorkerIdle
    /\ cancels = 0 /\ faults = 0 /\ crashes = 0

Fault == faults < MaxFaults /\ faults' = faults + 1

----------------------------------------------------------------------------
(* create_batch: write the job to disk, then wait for room in the queue.   *)

CreateJob(j) ==
    /\ create[j] = "new"
    /\ \/ /\ meta' = [meta EXCEPT ![j] =
                [status |-> "pending", completed |-> 0, failed |-> 0, cancel |-> FALSE]]
          /\ create' = [create EXCEPT ![j] = "written"]
          /\ UNCHANGED faults
       \/ /\ Fault
          /\ create' = [create EXCEPT ![j] = "error"]
          /\ UNCHANGED meta
    /\ UNCHANGED <<output, errors, csnap, cancels, queue, workerVars, crashes>>

(* Mutant: an unbounded channel. *)
SendUnbounded(j) ==
    /\ create[j] = "written"
    /\ queue' = Append(queue, j)
    /\ create' = [create EXCEPT ![j] = "accepted"]
    /\ UNCHANGED <<diskVars, csnap, cancels, workerVars, faults, crashes>>

Send(j) ==
    /\ create[j] = "written" /\ Len(queue) < QueueCap
    /\ queue' = Append(queue, j)
    /\ create' = [create EXCEPT ![j] = "accepted"]
    /\ UNCHANGED <<diskVars, csnap, cancels, workerVars, faults, crashes>>

(* The client leaves while its handler waits for room: the handler is      *)
(* dropped and the job stays on disk, in no queue.                         *)
ClientLeaves(j) ==
    /\ create[j] = "written"
    /\ create' = [create EXCEPT ![j] = "error"]
    /\ UNCHANGED <<diskVars, csnap, cancels, queue, workerVars, faults, crashes>>

----------------------------------------------------------------------------
(* cancel_batch: one blocking closure that reads status.json and writes it *)
(* back with cancel_requested set.                                         *)

CancelRead(j) ==
    /\ meta[j] # None /\ cancels < MaxCancels
    /\ csnap' = [csnap EXCEPT ![cancels + 1] = [job |-> j, meta |-> meta[j]]]
    /\ cancels' = cancels + 1
    /\ UNCHANGED <<diskVars, create, queue, workerVars, faults, crashes>>

CancelWrite(c) ==
    /\ csnap[c] # None
    /\ csnap' = [csnap EXCEPT ![c] = None]
    /\ \/ /\ meta' = [meta EXCEPT ![csnap[c].job] = [csnap[c].meta EXCEPT !.cancel = TRUE]]
          /\ UNCHANGED faults
       \/ Fault /\ UNCHANGED meta
    /\ UNCHANGED <<output, errors, create, cancels, queue, workerVars, crashes>>

----------------------------------------------------------------------------
(* The worker: spawn_batch_worker and process_job. *)

(* recv, then read_input_lines; when that fails the job is marked failed. *)
Receive ==
    /\ pc = "recv" /\ queue # <<>>
    /\ job' = Head(queue) /\ queue' = Tail(queue)
    /\ \/ rmw' = "begin" /\ UNCHANGED faults
       \/ rmw' = "fail" /\ Fault
    /\ pc' = "read"
    /\ idx' = 1 /\ completed' = 0 /\ failed' = 0
    /\ UNCHANGED <<diskVars, handlerVars, result, snap, crashes>>

(* store.read_status at the start of an update. *)
ReadStatus ==
    /\ pc = "read"
    /\ snap' = meta[job]
    /\ pc' = "write"
    /\ UNCHANGED <<diskVars, handlerVars, queue, rmw, job, idx, completed, failed,
                   result, faults, crashes>>

(* Mutant: the cancelled lines are counted from the whole input. *)
UpdatedCountsAll(kind, m) ==
    CASE kind = "begin"     -> [m EXCEPT !.status = "in_progress"]
      [] kind = "count"     -> [m EXCEPT !.completed = completed, !.failed = failed]
      [] kind = "cancelled" -> [m EXCEPT !.status = "cancelled", !.failed = @ + Total(job)]
      [] kind = "final"     -> [m EXCEPT !.status = IF m.failed = 0 THEN "completed" ELSE "failed",
                                         !.completed = completed, !.failed = failed]
      [] kind = "fail"      -> [m EXCEPT !.status = "failed"]

(* Mutant: finalising writes the counts and forgets the status. *)
UpdatedNeverFinal(kind, m) ==
    CASE kind = "begin"     -> [m EXCEPT !.status = "in_progress"]
      [] kind \in {"count", "final"} -> [m EXCEPT !.completed = completed, !.failed = failed]
      [] kind = "cancelled" -> [m EXCEPT !.status = "cancelled",
                                         !.failed = @ + (Total(job) - completed - failed)]
      [] kind = "fail"      -> [m EXCEPT !.status = "failed"]

(* What each update changes of the status it has read.  Finalising looks   *)
(* at the failures that are on disk, not at the local counter.             *)
Updated(kind, m) ==
    CASE kind = "begin"     -> [m EXCEPT !.status = "in_progress"]
      [] kind = "count"     -> [m EXCEPT !.completed = completed, !.failed = failed]
      [] kind = "cancelled" -> [m EXCEPT !.status = "cancelled",
                                         !.failed = @ + (Total(job) - completed - failed)]
      [] kind = "final"     -> [m EXCEPT !.status = IF m.failed = 0 THEN "completed" ELSE "failed",
                                         !.completed = completed, !.failed = failed]
      [] kind = "fail"      -> [m EXCEPT !.status = "failed"]

(* Where the worker goes on after an update: to the next line, to the      *)
(* cancelled markers, or back to the queue.                                *)
Proceed(kind) ==
    /\ pc' = CASE kind \in {"begin", "count"} -> "check"
               [] kind = "cancelled" -> "mark"
               [] kind \in {"final", "fail"} -> "recv"
    /\ rmw' = "none"
    /\ job' = IF kind \in {"final", "fail"} THEN None ELSE job

WriteStatus ==
    /\ pc = "write"
    /\ meta' = [meta EXCEPT ![job] = Updated(rmw, snap)]
    /\ snap' = None
    /\ Proceed(rmw)
    /\ UNCHANGED <<output, errors, handlerVars, queue, idx, completed, failed, result,
                   faults, crashes>>

(* A read or a write of status.json fails.  The first and the last update  *)
(* make the job fail; the failures of the others are ignored.              *)
StatusFault ==
    /\ pc \in {"read", "write"} /\ Fault
    /\ snap' = None
    /\ IF rmw \in {"begin", "final"}
       THEN pc' = "read" /\ rmw' = "fail" /\ UNCHANGED job
       ELSE Proceed(rmw)
    /\ UNCHANGED <<diskVars, handlerVars, queue, idx, completed, failed, result, crashes>>

(* Mutant: the markers start at the first line. *)
CheckMarksAll ==
    /\ pc = "check"
    /\ IF idx > Total(job)
       THEN pc' = "read" /\ rmw' = "final" /\ UNCHANGED <<idx, faults>>
       ELSE IF meta[job].cancel
       THEN pc' = "read" /\ rmw' = "cancelled" /\ idx' = 1 /\ UNCHANGED faults
       ELSE pc' = "line" /\ UNCHANGED <<rmw, idx, faults>>
    /\ UNCHANGED <<diskVars, handlerVars, queue, job, completed, failed, result, snap,
                   crashes>>

(* The head of the loop: no line is left, or the cancel flag is set, or    *)
(* the line is processed.  A status that cannot be read is not cancelled.  *)
Check ==
    /\ pc = "check"
    /\ \/ /\ idx > Total(job)
          /\ pc' = "read" /\ rmw' = "final" /\ UNCHANGED <<idx, faults>>
       \/ /\ idx <= Total(job) /\ meta[job].cancel
          /\ pc' = "read" /\ rmw' = "cancelled" /\ UNCHANGED <<idx, faults>>
       \/ /\ idx <= Total(job) /\ ~meta[job].cancel
          /\ pc' = "line" /\ UNCHANGED <<rmw, idx, faults>>
       \/ /\ idx <= Total(job) /\ Fault
          /\ pc' = "line" /\ UNCHANGED <<rmw, idx>>
    /\ UNCHANGED <<diskVars, handlerVars, queue, job, completed, failed, result, snap,
                   crashes>>

(* A malformed line goes to errors.jsonl and is counted in memory only. *)
Malformed ==
    /\ pc = "line" /\ Input[job][idx] = "malformed"
    /\ \/ errors' = [errors EXCEPT ![job] = Append(@, idx)] /\ UNCHANGED faults
       \/ Fault /\ UNCHANGED errors
    /\ failed' = failed + 1 /\ idx' = idx + 1 /\ pc' = "check"
    /\ UNCHANGED <<meta, output, handlerVars, queue, rmw, job, completed, result, snap,
                   crashes>>

(* The inference worker answers the line. *)
Infer ==
    /\ pc = "line" /\ Input[job][idx] = "good"
    /\ \/ result' = "ok" /\ completed' = completed + 1 /\ UNCHANGED failed
       \/ result' = "error" /\ failed' = failed + 1 /\ UNCHANGED completed
    /\ pc' = "append"
    /\ UNCHANGED <<diskVars, handlerVars, queue, rmw, job, idx, snap, faults, crashes>>

(* The inference queue is closed, or the reply sender was dropped (a panic *)
(* of the inference worker): counted in memory, recorded nowhere.          *)
InferDropped ==
    /\ pc = "line" /\ Input[job][idx] = "good"
    /\ failed' = failed + 1 /\ idx' = idx + 1 /\ pc' = "check"
    /\ UNCHANGED <<diskVars, handlerVars, queue, rmw, job, completed, result, snap,
                   faults, crashes>>

(* Mutant: the counters are written before the line they count. *)
AppendOutputLate ==
    /\ pc = "append"
    /\ output' = output /\ UNCHANGED faults
    /\ result' = "none" /\ idx' = idx + 1
    /\ pc' = "read" /\ rmw' = "count"
    /\ UNCHANGED <<meta, errors, handlerVars, queue, job, completed, failed, snap, crashes>>

(* append_output, its failure ignored; the counters are written next. *)
AppendOutput ==
    /\ pc = "append"
    /\ \/ /\ output' = [output EXCEPT ![job] = Append(@, [line |-> idx, kind |-> result])]
          /\ UNCHANGED faults
       \/ Fault /\ UNCHANGED output
    /\ result' = "none" /\ idx' = idx + 1
    /\ pc' = "read" /\ rmw' = "count"
    /\ UNCHANGED <<meta, errors, handlerVars, queue, job, completed, failed, snap, crashes>>

(* A cancelled marker for every remaining line, then the next job. *)
Mark ==
    /\ pc = "mark"
    /\ IF idx <= Total(job)
       THEN /\ \/ /\ output' = [output EXCEPT ![job] =
                                  Append(@, [line |-> idx, kind |-> "cancelled"])]
                  /\ UNCHANGED faults
               \/ Fault /\ UNCHANGED output
            /\ idx' = idx + 1
            /\ UNCHANGED <<pc, job>>
       ELSE pc' = "recv" /\ job' = None /\ UNCHANGED <<output, idx, faults>>
    /\ UNCHANGED <<meta, errors, handlerVars, queue, rmw, completed, failed, result, snap,
                   crashes>>

----------------------------------------------------------------------------
(* The process dies: the queue, the worker and every handler are lost.     *)
(* Nothing that runs at startup reads the spool directory.                 *)
Crash ==
    /\ crashes < MaxCrashes /\ crashes' = crashes + 1
    /\ queue' = <<>>
    /\ csnap' = [c \in Cancels |-> None]
    /\ create' = [j \in Jobs |-> IF create[j] = "written" THEN "error" ELSE create[j]]
    /\ pc' = "recv" /\ rmw' = "none" /\ job' = None /\ idx' = 1
    /\ completed' = 0 /\ failed' = 0 /\ result' = "none" /\ snap' = None
    /\ UNCHANGED <<diskVars, cancels, faults>>

Worker ==
    \/ Receive \/ ReadStatus \/ WriteStatus \/ StatusFault \/ Check
    \/ Malformed \/ Infer \/ InferDropped \/ AppendOutput \/ Mark

Handler(j) ==
    \/ CreateJob(j) \/ Send(j) \/ ClientLeaves(j) \/ CancelRead(j)

(* Every job was posted and nothing is left to do. *)
Quiet ==
    /\ pc = "recv" /\ queue = <<>>
    /\ \A j \in Jobs : create[j] \in {"accepted", "error"}
    /\ UNCHANGED vars

Next ==
    \/ Worker
    \/ \E j \in Jobs : Handler(j)
    \/ \E c \in Cancels : CancelWrite(c)
    \/ Crash
    \/ Quiet

Spec == Init /\ [][Next]_vars

(* The worker task is polled, and InferenceWorker answers every call       *)
(* (AllAnswered there).  Nothing is assumed of clients.                    *)
FairSpec == Spec /\ WF_vars(Worker)

----------------------------------------------------------------------------
(* Properties. *)

Records == [line : Nat \ {0}, kind : {"ok", "error", "cancelled"}]

DiskTypeOK ==
    /\ meta \in [Jobs -> Meta \cup {None}]
    /\ output \in [Jobs -> Seq(Records)] /\ errors \in [Jobs -> Seq(Nat \ {0})]

HandlerTypeOK ==
    /\ create \in [Jobs -> {"new", "written", "accepted", "error"}]
    /\ csnap \in [Cancels -> CancelSnap \cup {None}]
    /\ queue \in Seq(Jobs) /\ Len(queue) <= QueueCap
    /\ cancels \in 0..MaxCancels
    /\ \A j \in Jobs : create[j] \in {"written", "accepted"} => meta[j] # None

WorkerTypeOK ==
    /\ pc \in {"recv", "read", "write", "check", "line", "append", "mark"}
    /\ rmw \in {"none", "begin", "count", "cancelled", "final", "fail"}
    /\ rmw # "none" <=> pc \in {"read", "write"}
    /\ job \in Jobs \cup {None} /\ (job = None <=> pc = "recv")
    /\ idx \in Nat \ {0} /\ completed \in Nat /\ failed \in Nat
    /\ result \in {"none", "ok", "error"} /\ (result = "none" <=> pc # "append")
    /\ snap \in Meta \cup {None} /\ (snap # None <=> pc = "write")
    /\ faults \in 0..MaxFaults /\ crashes \in 0..MaxCrashes

(* Every variable has its type, and a job that was posted is on disk. *)
TypeOK == DiskTypeOK /\ HandlerTypeOK /\ WorkerTypeOK

(* The counters a client polls never exceed the number of lines, and the   *)
(* unsigned subtraction total - completed - failed never wraps: not even   *)
(* when a stale status is written back over a newer one, an update fails   *)
(* or the process dies between two of them.                                *)
CountsBounded ==
    /\ \A j \in Jobs : meta[j] # None => meta[j].completed + meta[j].failed <= Total(j)
    /\ job # None => completed + failed <= Total(job)

(* No line of a job is answered twice, and the answers are in the order of *)
(* the input, whatever is cancelled, fails or crashes in between.          *)
OncePerLine ==
    \A j \in Jobs : \A a, b \in DOMAIN output[j] :
        a < b => output[j][a].line < output[j][b].line

(* Progress that status.json reports is progress a reader of output.jsonl  *)
(* can see, also after a crash: the line is appended before it is counted. *)
ProgressBacked ==
    faults = 0 =>
        \A j \in Jobs : meta[j] # None =>
            meta[j].completed <=
                Cardinality({a \in DOMAIN output[j] : output[j][a].kind = "ok"})

(* Every job that entered the queue gets a final status, whatever is       *)
(* cancelled meanwhile, unless a write fails or the process goes down.     *)
JobsFinish ==
    \A j \in Jobs : (\E i \in DOMAIN queue : queue[i] = j)
                        ~> \/ meta[j] # None /\ meta[j].status \in Terminal
                           \/ faults > 0 \/ crashes > 0
=============================================================================
