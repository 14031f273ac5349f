-------------------------- MODULE BatchSpoolProofs --------------------------
(***************************************************************************)
(* Type correctness, CountsBounded, OncePerLine and ProgressBacked of      *)
(* BatchSpool, for any jobs, inputs and bounds.  The invariant says how    *)
(* far every copy of a status (on disk, in the worker, in a cancel         *)
(* handler) can be ahead of the line the worker is at, and of the output.  *)
(***************************************************************************)
EXTENDS BatchSpool, SequenceTheorems, FiniteSetTheorems, TLAPS

(* The lines a status counts. *)
Counted(m) == IF m = None THEN 0 ELSE m.completed + m.failed

(* What cancel request c holds of job j. *)
Held(c, j) == IF csnap[c] # None /\ csnap[c].job = j THEN csnap[c].meta ELSE None

(* The counters of the worker and the line it is at belong together. *)
Position ==
    /\ job # None => completed + failed <= Total(job)
    /\ pc = "check" => completed + failed = idx - 1
    /\ pc = "line" => completed + failed = idx - 1 /\ idx <= Total(job)
    /\ pc = "append" => completed + failed = idx
    /\ rmw = "begin" => completed = 0 /\ failed = 0 /\ idx = 1
    /\ rmw \in {"count", "cancelled"} => completed + failed = idx - 1
    /\ rmw = "final" => completed + failed = Total(job)

(* No copy of a status counts more lines than its job has. *)
Bounded ==
    /\ \A j \in Jobs : Counted(meta[j]) <= Total(j)
    /\ \A j \in Jobs : \A c \in Cancels : Counted(Held(c, j)) <= Total(j)
    /\ job # None => Counted(snap) <= Total(job)

(* The worker is still at the lines of its job. *)
Active ==
    pc \in {"check", "line", "append"} \/ rmw \in {"begin", "count", "cancelled", "final"}

(* Until then no copy of its job's status is ahead of its own counters. *)
Behind ==
    Active => /\ Counted(meta[job]) <= completed + failed
              /\ \A c \in Cancels : Counted(Held(c, job)) <= completed + failed
              /\ Counted(snap) <= completed + failed

Queued(j) == \E i \in 1..Len(queue) : queue[i] = j

(* A job the worker has not met counts nothing and has no output. *)
Untouched ==
    \A j \in Jobs : create[j] \in {"new", "written"} \/ Queued(j) =>
        /\ Counted(meta[j]) = 0 /\ output[j] = <<>>
        /\ \A c \in Cancels : Counted(Held(c, j)) = 0

(* A job is queued once, and never again once the worker has it. *)
QueueOnce ==
    /\ \A i \in 1..Len(queue) : create[queue[i]] = "accepted" /\ queue[i] # job
    /\ \A i, k \in 1..Len(queue) : queue[i] = queue[k] => i = k
    /\ job # None => create[job] = "accepted"

(* The output of the current job stops before the current line. *)
OutputBefore ==
    job # None => \A a \in 1..Len(output[job]) : output[job][a].line < idx

Sorted ==
    \A j \in Jobs : \A a, b \in 1..Len(output[j]) :
        a < b => output[j][a].line < output[j][b].line

(* The lines of an output that were answered well. *)
OkLines(s) == {a \in DOMAIN s : s[a].kind = "ok"}
Answered(j) == Cardinality(OkLines(output[j]))

Completed(m) == IF m = None THEN 0 ELSE m.completed

(* While no write has failed, no copy of a status reports more lines than  *)
(* are answered in the output, nor does the worker, but for the line it is *)
(* about to append.                                                        *)
Backed ==
    faults = 0 =>
        /\ \A j \in Jobs : Completed(meta[j]) <= Answered(j)
        /\ \A j \in Jobs : \A c \in Cancels : Completed(Held(c, j)) <= Answered(j)
        /\ job # None => /\ Completed(snap) <= Answered(job)
                         /\ completed <= Answered(job) + (IF result = "ok" THEN 1 ELSE 0)

CountInv == Position /\ Bounded /\ Behind
OrderInv == Untouched /\ QueueOnce /\ OutputBefore /\ Sorted

IInv == TypeOK /\ CountInv /\ OrderInv /\ Backed
----------------------------------------------------------------------------
(* Cancelling sets the flag of a status and keeps what it counts. *)
LEMMA CancelMeta ==
    ASSUME NEW m \in Meta
    PROVE  LET n == [m EXCEPT !.cancel = TRUE]
           IN  n \in Meta /\ n # None /\ Counted(n) = Counted(m)
BY SpoolAssumption, NoneAssumption DEF Meta, Counted, Statuses

(* What a request holds is a status, or nothing; it writes back what it    *)
(* holds of its job, with the flag set.                                    *)
LEMMA HeldMeta ==
    ASSUME TypeOK, NEW c \in Cancels
    PROVE  \A j \in Jobs : Held(c, j) \in Meta \cup {None}
BY DEF Held, TypeOK, HandlerTypeOK, CancelSnap

LEMMA WriteHeld ==
    ASSUME TypeOK, NEW c \in Cancels, CancelWrite(c)
    PROVE  /\ \A j \in Jobs : meta'[j] = meta[j]
                             \/ (meta'[j] \in Meta /\ meta'[j] # None
                                 /\ Counted(meta'[j]) = Counted(Held(c, j)))
           /\ \A d \in Cancels : \A j \in Jobs : Held(d, j)' = Held(d, j) \/ Held(d, j)' = None
           /\ meta' \in [Jobs -> Meta \cup {None}]
<1>1. csnap[c] \in CancelSnap /\ csnap[c] # None
  BY DEF TypeOK, HandlerTypeOK, CancelWrite
<1>2. csnap[c].job \in Jobs /\ csnap[c].meta \in Meta
  BY <1>1 DEF CancelSnap
<1> DEFINE n == [csnap[c].meta EXCEPT !.cancel = TRUE]
<1>3. n \in Meta /\ n # None /\ Counted(n) = Counted(csnap[c].meta)
  BY <1>2, CancelMeta
<1>4. UNCHANGED meta \/ meta' = [meta EXCEPT ![csnap[c].job] = n]
  BY DEF CancelWrite
<1> HIDE DEF n
<1>5. ASSUME NEW j \in Jobs
      PROVE  meta'[j] = meta[j] \/ (meta'[j] \in Meta /\ meta'[j] # None
                                    /\ Counted(meta'[j]) = Counted(Held(c, j)))
  BY <1>1, <1>2, <1>3, <1>4 DEF TypeOK, DiskTypeOK, Held
<1>6. ASSUME NEW d \in Cancels, NEW j \in Jobs
      PROVE  Held(d, j)' = Held(d, j) \/ Held(d, j)' = None
  BY DEF TypeOK, HandlerTypeOK, CancelWrite, Held
<1>7. meta' \in [Jobs -> Meta \cup {None}]
  BY <1>2, <1>3, <1>4 DEF TypeOK, DiskTypeOK
<1> QED
  BY <1>5, <1>6, <1>7

(* Reading adds a copy of what is on disk. *)
LEMMA ReadHeld ==
    ASSUME TypeOK, NEW k \in Jobs, CancelRead(k)
    PROVE  \A d \in Cancels : \A j \in Jobs :
              Held(d, j)' \in {Held(d, j), meta[j], None}
<1>1. cancels + 1 \in Cancels /\ meta[k] \in Meta
  BY SpoolAssumption, NoneAssumption DEF TypeOK, DiskTypeOK, HandlerTypeOK, CancelRead, Cancels
<1> DEFINE r == [job |-> k, meta |-> meta[k]]
<1>2. r \in CancelSnap /\ r # None /\ r.job = k /\ r.meta = meta[k]
  BY <1>1, NoneAssumption DEF CancelSnap
<1>3. csnap' = [csnap EXCEPT ![cancels + 1] = r]
  BY DEF CancelRead
<1> HIDE DEF r
<1> QED
  BY <1>1, <1>2, <1>3 DEF TypeOK, HandlerTypeOK, Held

(* What an update of the worker does to the counts of the status it read. *)
LEMMA UpdatedMeta ==
    ASSUME NEW m \in Meta, NEW kind \in {"begin", "count", "cancelled", "final", "fail"},
           job \in Jobs, completed \in Nat, failed \in Nat,
           completed + failed <= Total(job),
           kind = "cancelled" => Counted(m) <= completed + failed
    PROVE  /\ Updated(kind, m) \in Meta
           /\ Updated(kind, m) # None
           /\ kind \in {"begin", "fail"} => Counted(Updated(kind, m)) = Counted(m)
           /\ kind \in {"count", "final"} => Counted(Updated(kind, m)) = completed + failed
           /\ kind = "cancelled" => Counted(Updated(kind, m)) <= Total(job)
<1>1. Total(job) \in Nat
  BY SpoolAssumption, NoneAssumption, LenProperties DEF Total
<1>2. m # None /\ m.completed \in Nat /\ m.failed \in Nat /\ m.status \in Statuses
      /\ m.cancel \in BOOLEAN
  BY SpoolAssumption, NoneAssumption DEF Meta
<1>3. CASE kind \in {"begin", "fail"}
  BY <1>2, <1>3, SpoolAssumption, NoneAssumption DEF Updated, Meta, Counted, Statuses
<1>4. CASE kind \in {"count", "final"}
  BY <1>2, <1>4, SpoolAssumption, NoneAssumption DEF Updated, Meta, Counted, Statuses
<1>5. CASE kind = "cancelled"
  <2>1. Total(job) - completed - failed \in Nat
    BY <1>1
  <2>2. Updated(kind, m) = [status |-> "cancelled", completed |-> m.completed,
                            failed |-> m.failed + (Total(job) - completed - failed),
                            cancel |-> m.cancel]
    BY <1>5 DEF Updated, Meta
  <2>3. Updated(kind, m) \in Meta
    BY <1>2, <2>1, <2>2 DEF Meta, Statuses
  <2>4. /\ Updated(kind, m).completed = m.completed
        /\ Updated(kind, m).failed = m.failed + (Total(job) - completed - failed)
    BY <2>2
  <2>5. m.completed + m.failed <= completed + failed
    BY <1>2, <1>5 DEF Counted
  <2> QED
    BY <1>1, <1>2, <1>5, <2>1, <2>3, <2>4, <2>5, SpoolAssumption, NoneAssumption DEF Counted
<1> QED
  BY <1>3, <1>4, <1>5

----------------------------------------------------------------------------
(* A step keeps the types of what is on disk. *)
LEMMA DiskTypeStep ==
    ASSUME TypeOK, Position, Behind, [Next]_vars
    PROVE  DiskTypeOK'
<1> USE SpoolAssumption, NoneAssumption
<1>1. ASSUME NEW j \in Jobs, CreateJob(j) PROVE DiskTypeOK'
  <2>1. [status |-> "pending", completed |-> 0, failed |-> 0, cancel |-> FALSE] \in Meta
    BY DEF Meta, Statuses
  <2> QED
    BY <1>1, <2>1, ZenonT(40) DEF TypeOK, DiskTypeOK, CreateJob
<1>2. ASSUME NEW c \in Cancels, CancelWrite(c) PROVE DiskTypeOK'
  BY <1>2, WriteHeld DEF TypeOK, DiskTypeOK, CancelWrite
<1>3. CASE WriteStatus
  <2>1. job \in Jobs /\ snap \in Meta
    BY <1>3 DEF TypeOK, WorkerTypeOK, WriteStatus
  <2>2. Updated(rmw, snap) \in Meta
    BY <1>3, <2>1, UpdatedMeta DEF TypeOK, WorkerTypeOK, WriteStatus, Position, Behind, Active
  <2> QED
    BY <1>3, <2>2 DEF TypeOK, DiskTypeOK, WriteStatus
<1>4. CASE Malformed
  <2>1. job \in Jobs /\ errors[job] \in Seq(Nat \ {0}) /\ idx \in Nat \ {0}
    BY <1>4 DEF TypeOK, DiskTypeOK, WorkerTypeOK, Malformed
  <2>2. Append(errors[job], idx) \in Seq(Nat \ {0})
    BY <2>1, AppendProperties
  <2> QED
    BY <1>4, <2>2, ZenonT(40) DEF TypeOK, DiskTypeOK, Malformed
<1>5. CASE AppendOutput
  <2>1. job \in Jobs /\ output[job] \in Seq(Records) /\ idx \in Nat \ {0}
    BY <1>5 DEF TypeOK, DiskTypeOK, WorkerTypeOK, AppendOutput
  <2>2. [line |-> idx, kind |-> result] \in Records
    BY <1>5, <2>1 DEF TypeOK, WorkerTypeOK, AppendOutput, Records
  <2>3. Append(output[job], [line |-> idx, kind |-> result]) \in Seq(Records)
    BY <2>1, <2>2, AppendProperties
  <2> QED
    BY <1>5, <2>3, ZenonT(40) DEF TypeOK, DiskTypeOK, AppendOutput
<1>6. CASE Mark
  <2>1. job \in Jobs /\ output[job] \in Seq(Records) /\ idx \in Nat \ {0}
    BY <1>6 DEF TypeOK, DiskTypeOK, WorkerTypeOK, Mark
  <2>2. [line |-> idx, kind |-> "cancelled"] \in Records
    BY <2>1 DEF Records
  <2>3. Append(output[job], [line |-> idx, kind |-> "cancelled"]) \in Seq(Records)
    BY <2>1, <2>2, AppendProperties
  <2> QED
    BY <1>6, <2>3, ZenonT(40) DEF TypeOK, DiskTypeOK, Mark
<1>7. CASE UNCHANGED diskVars
  BY <1>7 DEF TypeOK, DiskTypeOK, diskVars
<1> QED
  BY <1>1, <1>2, <1>3, <1>4, <1>5, <1>6, <1>7
  DEF Next, Worker, Handler, Quiet, vars, Send, ClientLeaves, CancelRead, Receive,
      ReadStatus, StatusFault, Check, Infer, InferDropped, Crash

(* A step keeps the types of the handlers and the queue. *)
LEMMA HandlerTypeStep ==
    ASSUME TypeOK, Position, Behind, [Next]_vars
    PROVE  HandlerTypeOK'
<1> USE SpoolAssumption, NoneAssumption
<1> DEFINE OnDisk == \A j \in Jobs : create[j] \in {"written", "accepted"} => meta[j] # None
<1>1. ASSUME NEW j \in Jobs, CreateJob(j) PROVE HandlerTypeOK'
  <2>1. [status |-> "pending", completed |-> 0, failed |-> 0, cancel |-> FALSE] \in Meta
    BY DEF Meta, Statuses
  <2>2. OnDisk'
    BY <1>1, <2>1 DEF TypeOK, DiskTypeOK, HandlerTypeOK, CreateJob
  <2> QED
    BY <1>1, <2>2 DEF TypeOK, HandlerTypeOK, CreateJob
<1>2. ASSUME NEW j \in Jobs, Send(j) PROVE HandlerTypeOK'
  <2>1. meta[j] # None
    BY <1>2 DEF Send, TypeOK, HandlerTypeOK
  <2>2. queue' \in Seq(Jobs) /\ Len(queue') <= QueueCap
    BY <1>2, AppendProperties DEF TypeOK, HandlerTypeOK, Send
  <2> QED
    BY <1>2, <2>1, <2>2 DEF TypeOK, HandlerTypeOK, Send, diskVars
<1>3. ASSUME NEW j \in Jobs, ClientLeaves(j) PROVE HandlerTypeOK'
  BY <1>3 DEF TypeOK, HandlerTypeOK, ClientLeaves, diskVars
<1>4. ASSUME NEW j \in Jobs, CancelRead(j) PROVE HandlerTypeOK'
  <2>1. cancels + 1 \in Cancels /\ meta[j] \in Meta
    BY <1>4 DEF TypeOK, DiskTypeOK, HandlerTypeOK, CancelRead, Cancels
  <2>2. csnap' \in [Cancels -> CancelSnap \cup {None}]
    BY <1>4, <2>1 DEF TypeOK, HandlerTypeOK, CancelRead, CancelSnap
  <2> QED
    BY <1>4, <2>1, <2>2 DEF TypeOK, HandlerTypeOK, CancelRead, diskVars, Cancels
<1>5. ASSUME NEW c \in Cancels, CancelWrite(c) PROVE HandlerTypeOK'
  <2>1. OnDisk'
    BY <1>5, WriteHeld DEF TypeOK, HandlerTypeOK, CancelWrite
  <2> QED
    BY <1>5, <2>1 DEF TypeOK, HandlerTypeOK, CancelWrite
<1>6. CASE Receive
  <2>1. queue' \in Seq(Jobs) /\ Len(queue') <= QueueCap
    BY <1>6, HeadTailProperties DEF TypeOK, HandlerTypeOK, Receive
  <2> QED
    BY <1>6, <2>1 DEF TypeOK, HandlerTypeOK, Receive, diskVars, handlerVars
<1>7. CASE WriteStatus
  <2>1. job \in Jobs /\ snap \in Meta
    BY <1>7 DEF TypeOK, WorkerTypeOK, WriteStatus
  <2>2. Updated(rmw, snap) # None
    BY <1>7, <2>1, UpdatedMeta DEF TypeOK, WorkerTypeOK, WriteStatus, Position, Behind, Active
  <2>3. OnDisk'
    BY <1>7, <2>2 DEF TypeOK, HandlerTypeOK, DiskTypeOK, WriteStatus, handlerVars
  <2> QED
    BY <1>7, <2>3 DEF TypeOK, HandlerTypeOK, WriteStatus, handlerVars
<1>8. CASE Crash
  BY <1>8, EmptySeq DEF TypeOK, HandlerTypeOK, Crash, diskVars
<1>9. CASE UNCHANGED <<handlerVars, queue, meta>>
  BY <1>9 DEF TypeOK, HandlerTypeOK, handlerVars
<1> QED
  BY <1>1, <1>2, <1>3, <1>4, <1>5, <1>6, <1>7, <1>8, <1>9
  DEF Next, Worker, Handler, Quiet, vars, diskVars, ReadStatus, StatusFault, Check,
      Malformed, Infer, InferDropped, AppendOutput, Mark

(* A step keeps the types of the worker. *)
LEMMA WorkerTypeStep ==
    ASSUME TypeOK, QueueOnce, [Next]_vars
    PROVE  WorkerTypeOK'
<1> USE SpoolAssumption, NoneAssumption
<1>1. CASE (\E j \in Jobs : Handler(j)) \/ (\E c \in Cancels : CancelWrite(c))
  <2>1. UNCHANGED <<workerVars, crashes>> /\ (UNCHANGED faults \/ Fault)
    BY <1>1 DEF Handler, CreateJob, Send, ClientLeaves, CancelRead, CancelWrite
  <2> QED
    BY <2>1 DEF TypeOK, WorkerTypeOK, Fault, workerVars
<1>2. CASE Receive
  BY <1>2, HeadTailProperties DEF TypeOK, WorkerTypeOK, HandlerTypeOK, Receive, Fault
<1>3. CASE ReadStatus
  BY <1>3 DEF TypeOK, WorkerTypeOK, DiskTypeOK, HandlerTypeOK, QueueOnce, ReadStatus
<1>4. CASE WriteStatus
  BY <1>4 DEF TypeOK, WorkerTypeOK, WriteStatus, Proceed
<1>5. CASE StatusFault
  <2>1. CASE rmw \in {"begin", "final"}
    BY <1>5, <2>1 DEF TypeOK, WorkerTypeOK, StatusFault, Fault
  <2>2. CASE rmw \notin {"begin", "final"}
    BY <1>5, <2>2 DEF TypeOK, WorkerTypeOK, StatusFault, Fault, Proceed
  <2> QED
    BY <2>1, <2>2
<1>6. CASE Check
  BY <1>6 DEF TypeOK, WorkerTypeOK, Check, Fault
<1>7. CASE Malformed \/ Infer \/ InferDropped
  BY <1>7, SMTT(30) DEF TypeOK, WorkerTypeOK, Malformed, Infer, InferDropped, Fault
<1>8. CASE AppendOutput \/ Mark
  BY <1>8, SMTT(30) DEF TypeOK, WorkerTypeOK, AppendOutput, Mark, Fault
<1>9. CASE Crash
  BY <1>9 DEF TypeOK, WorkerTypeOK, Crash
<1>10. CASE UNCHANGED vars
  BY <1>10 DEF TypeOK, WorkerTypeOK, vars, workerVars
<1> QED
  BY <1>1, <1>2, <1>3, <1>4, <1>5, <1>6, <1>7, <1>8, <1>9, <1>10 DEF Next, Worker, Quiet
----------------------------------------------------------------------------
(* Counted is a natural number. *)
LEMMA CountedNat ==
    ASSUME NEW m \in Meta \cup {None}
    PROVE  Counted(m) \in Nat
BY DEF Counted, Meta

LEMMA TotalNat ==
    ASSUME NEW j \in Jobs
    PROVE  Total(j) \in Nat
BY SpoolAssumption, NoneAssumption, LenProperties DEF Total

(* A step keeps the worker's counters and its line together. *)
LEMMA PositionStep ==
    ASSUME TypeOK, Position, [Next]_vars
    PROVE  Position'
<1>0. job # None => Total(job) \in Nat
  BY TotalNat DEF TypeOK, WorkerTypeOK
<1>1. CASE (\E j \in Jobs : Handler(j)) \/ (\E c \in Cancels : CancelWrite(c))
  BY <1>1, ZenonT(40) DEF Position, Handler, CreateJob, Send, ClientLeaves, CancelRead, CancelWrite,
              workerVars, Total
<1>2. CASE Receive
  <2>1. job' \in Jobs
    BY <1>2, HeadTailProperties DEF TypeOK, HandlerTypeOK, Receive
  <2>2. Total(job') \in Nat
    BY <2>1, TotalNat
  <2> QED
    BY <1>2, <2>1, <2>2 DEF Position, Receive, Total
<1>3. CASE ReadStatus
  BY <1>3 DEF Position, ReadStatus, Total
<1>4. CASE WriteStatus
  BY <1>0, <1>4, SpoolAssumption, NoneAssumption DEF TypeOK, WorkerTypeOK, Position, WriteStatus, Proceed, Total
<1>5. CASE StatusFault
  <2>1. CASE rmw \in {"begin", "final"}
    BY <1>5, <2>1 DEF TypeOK, WorkerTypeOK, Position, StatusFault, Total
  <2>2. CASE rmw \notin {"begin", "final"}
    BY <1>0, <1>5, <2>2, SpoolAssumption, NoneAssumption
    DEF TypeOK, WorkerTypeOK, Position, StatusFault, Proceed, Total
  <2> QED
    BY <2>1, <2>2
<1>6. CASE Check
  BY <1>0, <1>6 DEF TypeOK, WorkerTypeOK, Position, Check, Total
<1>7. CASE Malformed \/ Infer \/ InferDropped
  BY <1>0, <1>7, SMTT(30) DEF TypeOK, WorkerTypeOK, Position, Malformed, Infer, InferDropped, Total
<1>8. CASE AppendOutput \/ Mark
  BY <1>0, <1>8 DEF TypeOK, WorkerTypeOK, Position, AppendOutput, Mark, Total
<1>9. CASE Crash
  BY <1>9 DEF Position, Crash
<1>10. CASE UNCHANGED vars
  BY <1>10 DEF Position, vars, workerVars, Total
<1> QED
  BY <1>1, <1>2, <1>3, <1>4, <1>5, <1>6, <1>7, <1>8, <1>9, <1>10 DEF Next, Worker, Quiet

(* What WriteStatus leaves of the status of its job: no more than the job  *)
(* has lines, and no more than the worker has counted while it goes on.    *)
LEMMA WriteCounts ==
    ASSUME TypeOK, Position, Bounded, Behind, WriteStatus
    PROVE  /\ job \in Jobs /\ meta'[job] = Updated(rmw, snap)
           /\ Counted(Updated(rmw, snap)) \in Nat
           /\ Counted(Updated(rmw, snap)) <= Total(job)
           /\ rmw \in {"begin", "count", "final"} =>
                Counted(Updated(rmw, snap)) <= completed + failed
<1>1. /\ job \in Jobs /\ snap \in Meta /\ completed \in Nat /\ failed \in Nat
      /\ rmw \in {"begin", "count", "cancelled", "final", "fail"}
      /\ completed + failed <= Total(job)
      /\ Counted(snap) <= Total(job)
      /\ rmw \in {"begin", "count", "cancelled", "final"} =>
            Counted(snap) <= completed + failed
  BY SpoolAssumption, NoneAssumption
  DEF TypeOK, WorkerTypeOK, WriteStatus, Position, Bounded, Behind, Active
<1>2. /\ Updated(rmw, snap) \in Meta
      /\ rmw \in {"begin", "fail"} => Counted(Updated(rmw, snap)) = Counted(snap)
      /\ rmw \in {"count", "final"} => Counted(Updated(rmw, snap)) = completed + failed
      /\ rmw = "cancelled" => Counted(Updated(rmw, snap)) <= Total(job)
  BY <1>1, UpdatedMeta
<1>3. meta'[job] = Updated(rmw, snap)
  BY <1>1 DEF TypeOK, DiskTypeOK, WriteStatus
<1>4. Counted(Updated(rmw, snap)) \in Nat /\ Counted(snap) \in Nat
  BY <1>1, <1>2, CountedNat
<1> QED
  BY <1>1, <1>2, <1>3, <1>4

(* A step keeps every copy of a status within the lines of its job. *)
LEMMA BoundedStep ==
    ASSUME TypeOK, Position, Bounded, Behind, QueueOnce, [Next]_vars
    PROVE  Bounded'
<1>0. Counted(None) = 0 /\ \A j \in Jobs : Total(j) \in Nat
  BY TotalNat DEF Counted
<1>1. ASSUME NEW j \in Jobs, CreateJob(j) PROVE Bounded'
  <2>1. Counted([status |-> "pending", completed |-> 0, failed |-> 0, cancel |-> FALSE]) = 0
    BY DEF Counted
  <2>2. ASSUME NEW k \in Jobs PROVE Counted(meta'[k]) <= Total(k)
    <3>1. meta'[k] = meta[k] \/ Counted(meta'[k]) = 0
      BY <1>1, <2>1 DEF TypeOK, DiskTypeOK, CreateJob
    <3> QED
      BY <1>0, <3>1 DEF Bounded
  <2> QED
    BY <1>1, <2>2 DEF Bounded, CreateJob, workerVars, Total, Held
<1>2. ASSUME NEW j \in Jobs, Send(j) \/ ClientLeaves(j) PROVE Bounded'
  BY <1>2 DEF Bounded, Send, ClientLeaves, diskVars, workerVars, Total, Held
<1>3. ASSUME NEW j \in Jobs, CancelRead(j) PROVE Bounded'
  <2>1. ASSUME NEW k \in Jobs, NEW d \in Cancels PROVE Counted(Held(d, k)') <= Total(k)
    <3>1. Held(d, k)' \in {Held(d, k), meta[k], None}
      BY <1>3, ReadHeld
    <3> QED
      BY <1>0, <3>1 DEF Bounded
  <2> QED
    BY <1>3, <2>1 DEF Bounded, CancelRead, diskVars, workerVars, Total, Counted
<1>4. ASSUME NEW c \in Cancels, CancelWrite(c) PROVE Bounded'
  <2>1. ASSUME NEW k \in Jobs PROVE Counted(meta'[k]) <= Total(k)
    <3>1. meta'[k] = meta[k] \/ Counted(meta'[k]) = Counted(Held(c, k))
      BY <1>4, WriteHeld
    <3> QED
      BY <3>1 DEF Bounded
  <2>2. ASSUME NEW k \in Jobs, NEW d \in Cancels PROVE Counted(Held(d, k)') <= Total(k)
    <3>1. Held(d, k)' = Held(d, k) \/ Held(d, k)' = None
      BY <1>4, WriteHeld
    <3> QED
      BY <1>0, <3>1 DEF Bounded
  <2> QED
    BY <1>4, <2>1, <2>2 DEF Bounded, CancelWrite, workerVars, Total, Counted
<1>5. CASE Receive
  <2>1. job' \in Jobs /\ snap' = None
    BY <1>5, HeadTailProperties DEF TypeOK, HandlerTypeOK, WorkerTypeOK, Receive
  <2> QED
    BY <1>0, <1>5, <2>1 DEF Bounded, Receive, diskVars, handlerVars, Total, Held
<1>6. CASE ReadStatus
  BY <1>6 DEF TypeOK, WorkerTypeOK, Bounded, ReadStatus, diskVars, handlerVars, Total, Held
<1>7. CASE WriteStatus
  <2>1. \A j \in Jobs : Counted(meta'[j]) <= Total(j)
    <3> SUFFICES ASSUME NEW j \in Jobs PROVE Counted(meta'[j]) <= Total(j)
      OBVIOUS
    <3>1. CASE j = job
      BY <1>7, <3>1, WriteCounts
    <3>2. CASE j # job
      BY <1>7, <3>2 DEF TypeOK, DiskTypeOK, WriteStatus, Bounded
    <3> QED
      BY <3>1, <3>2
  <2> QED
    BY <1>0, <1>7, <2>1
    DEF TypeOK, WorkerTypeOK, Bounded, WriteStatus, Proceed, handlerVars, Total, Held
<1>8. CASE StatusFault
  BY <1>0, <1>8 DEF TypeOK, WorkerTypeOK, Bounded, StatusFault, Proceed, diskVars, handlerVars, Total, Held
<1>9. CASE Check \/ Infer \/ InferDropped
  BY <1>9 DEF Bounded, Check, Infer, InferDropped, diskVars, handlerVars, Total, Held
<1>10. CASE Malformed \/ AppendOutput \/ Mark
  BY <1>10 DEF Bounded, Malformed, AppendOutput, Mark, handlerVars, Total, Held
<1>11. CASE Crash
  BY <1>0, <1>11 DEF Bounded, Crash, diskVars, Total, Held
<1>12. CASE UNCHANGED vars
  BY <1>12 DEF Bounded, vars, diskVars, handlerVars, workerVars, Total, Held
<1> QED
  BY <1>1, <1>2, <1>3, <1>4, <1>5, <1>6, <1>7, <1>8, <1>9, <1>10, <1>11, <1>12
  DEF Next, Worker, Handler, Quiet
(* A step keeps every copy of the current job's status behind the worker.  *)
(* A job that is received has counted nothing in any copy (Untouched).     *)
LEMMA BehindStep ==
    ASSUME TypeOK, Position, Bounded, Behind, Untouched, QueueOnce, [Next]_vars
    PROVE  Behind'
<1>0. Counted(None) = 0 /\ completed \in Nat /\ failed \in Nat
  BY DEF Counted, TypeOK, WorkerTypeOK
<1>1. ASSUME NEW j \in Jobs, CreateJob(j) PROVE Behind'
  <2>1. job = None \/ meta'[job] = meta[job]
    BY <1>1 DEF CreateJob, QueueOnce, TypeOK, DiskTypeOK, WorkerTypeOK
  <2> QED
    BY <1>1, <2>1 DEF Behind, Active, CreateJob, workerVars, Held, TypeOK, WorkerTypeOK
<1>2. ASSUME NEW j \in Jobs, Send(j) \/ ClientLeaves(j) PROVE Behind'
  BY <1>2 DEF Behind, Active, Send, ClientLeaves, diskVars, workerVars, Held
<1>3. ASSUME NEW j \in Jobs, CancelRead(j) PROVE Behind'
  <2>1. Active => \A d \in Cancels : Held(d, job)' \in {Held(d, job), meta[job], None}
    BY <1>3, ReadHeld DEF Active, Held, TypeOK, WorkerTypeOK, CancelRead, workerVars
  <2>2. UNCHANGED <<meta, job, snap, completed, failed, pc, rmw>>
    BY <1>3 DEF CancelRead, diskVars, workerVars
  <2> QED
    BY <1>0, <1>3, <2>1, <2>2 DEF Behind, Active, Held, Counted
<1>4. ASSUME NEW c \in Cancels, CancelWrite(c) PROVE Behind'
  <2>1. Active => /\ meta'[job] = meta[job] \/ Counted(meta'[job]) = Counted(Held(c, job))
                  /\ \A d \in Cancels : Held(d, job)' \in {Held(d, job), None}
    BY <1>4, WriteHeld DEF Active, Held, TypeOK, WorkerTypeOK, CancelWrite, workerVars
  <2> QED
    BY <1>0, <1>4, <2>1 DEF Behind, Active, CancelWrite, workerVars
<1>5. CASE Receive
  <2>1. job' \in Jobs /\ job' = queue[1] /\ Len(queue) >= 1 /\ snap' = None
    BY <1>5, HeadTailProperties, EmptySeq, LenProperties
    DEF TypeOK, HandlerTypeOK, WorkerTypeOK, Receive
  <2>2. Counted(meta[job']) = 0 /\ \A c \in Cancels : Counted(Held(c, job')) = 0
    BY <2>1, LenProperties DEF Untouched, Queued, TypeOK, HandlerTypeOK
  <2> QED
    BY <1>0, <1>5, <2>1, <2>2 DEF Behind, Receive, diskVars, handlerVars, Held
<1>6. CASE ReadStatus
  BY <1>6 DEF Behind, Active, ReadStatus, diskVars, handlerVars, Held
<1>7. CASE WriteStatus
  BY <1>0, <1>7, WriteCounts, SpoolAssumption, NoneAssumption
  DEF Behind, Active, WriteStatus, Proceed, handlerVars, Held, TypeOK, WorkerTypeOK
<1>8. CASE StatusFault
  <2>1. CASE rmw \in {"begin", "final"}
    BY <1>8, <2>1 DEF Behind, Active, StatusFault
  <2>2. CASE rmw \notin {"begin", "final"}
    BY <1>0, <1>8, <2>2
    DEF Behind, Active, StatusFault, Proceed, diskVars, handlerVars, Held, TypeOK, WorkerTypeOK
  <2> QED
    BY <2>1, <2>2
<1>9. CASE Check
  BY <1>9 DEF Behind, Active, Check, diskVars, handlerVars, Held
<1>10. CASE Malformed \/ Infer \/ InferDropped
  <2>1. job \in Jobs /\ completed' \in Nat /\ failed' \in Nat
        /\ completed + failed <= completed' + failed'
    BY <1>0, <1>10 DEF Malformed, Infer, InferDropped, TypeOK, WorkerTypeOK
  <2>2. /\ Counted(meta[job]) \in Nat /\ Counted(snap) \in Nat
        /\ \A c \in Cancels : Counted(Held(c, job)) \in Nat
    BY <2>1, CountedNat, HeldMeta DEF TypeOK, DiskTypeOK, HandlerTypeOK, WorkerTypeOK
  <2> QED
    BY <1>0, <1>10, <2>1, <2>2
    DEF Behind, Active, Malformed, Infer, InferDropped, diskVars, handlerVars, Held
<1>11. CASE AppendOutput \/ Mark
  BY <1>11 DEF Behind, Active, AppendOutput, Mark, handlerVars, Held, TypeOK, WorkerTypeOK
<1>12. CASE Crash
  BY <1>12 DEF Behind, Active, Crash
<1>13. CASE UNCHANGED vars
  BY <1>13 DEF Behind, Active, vars, diskVars, handlerVars, workerVars, Held
<1> QED
  BY <1>1, <1>2, <1>3, <1>4, <1>5, <1>6, <1>7, <1>8, <1>9, <1>10, <1>11, <1>12, <1>13
  DEF Next, Worker, Handler, Quiet

----------------------------------------------------------------------------
(* A step keeps the queue free of repetitions and of the current job. *)
LEMMA QueueStep ==
    ASSUME TypeOK, QueueOnce, [Next]_vars
    PROVE  QueueOnce'
<1> USE SpoolAssumption, NoneAssumption
<1>1. ASSUME NEW j \in Jobs, CreateJob(j) PROVE QueueOnce'
  <2>1. \A i \in 1..Len(queue) : queue[i] \in Jobs
    BY ElementOfSeq DEF TypeOK, HandlerTypeOK
  <2>2. \A k \in Jobs : create[k] = "accepted" => create'[k] = "accepted"
    BY <1>1 DEF CreateJob, TypeOK, HandlerTypeOK
  <2> QED
    BY <1>1, <2>1, <2>2 DEF QueueOnce, CreateJob, workerVars, TypeOK, WorkerTypeOK
<1>2. ASSUME NEW j \in Jobs, Send(j) PROVE QueueOnce'
  <2>1. /\ queue \in Seq(Jobs) /\ queue' = Append(queue, j) /\ Len(queue') = Len(queue) + 1
        /\ \A i \in 1..Len(queue) : queue'[i] = queue[i]
        /\ queue'[Len(queue) + 1] = j /\ Len(queue) \in Nat
    BY <1>2, AppendProperties, LenProperties DEF TypeOK, HandlerTypeOK, Send
  <2>2. j # job /\ \A i \in 1..Len(queue) : queue[i] # j
    BY <1>2 DEF QueueOnce, Send
  <2>3. create'[j] = "accepted" /\ \A k \in Jobs : k # j => create'[k] = create[k]
    BY <1>2 DEF Send, TypeOK, HandlerTypeOK
  <2>4. \A i \in 1..Len(queue) : queue[i] \in Jobs
    BY <2>1, ElementOfSeq
  <2> QED
    BY <1>2, <2>1, <2>2, <2>3, <2>4 DEF QueueOnce, Send, workerVars, TypeOK, WorkerTypeOK
<1>3. ASSUME NEW j \in Jobs, ClientLeaves(j) PROVE QueueOnce'
  BY <1>3 DEF QueueOnce, ClientLeaves, workerVars, TypeOK, HandlerTypeOK
<1>4. CASE Receive
  <2>1. /\ queue \in Seq(Jobs) /\ Len(queue) \in Nat /\ Len(queue) >= 1
        /\ queue' = Tail(queue) /\ job' = queue[1] /\ Len(queue') = Len(queue) - 1
        /\ \A i \in 1..Len(queue') : queue'[i] = queue[i + 1]
    BY <1>4, HeadTailProperties, EmptySeq, LenProperties DEF TypeOK, HandlerTypeOK, Receive
  <2> QED
    BY <1>4, <2>1 DEF QueueOnce, Receive, handlerVars
<1>5. CASE Crash
  BY <1>5, EmptySeq DEF QueueOnce, Crash
<1>6. ASSUME UNCHANGED <<create, queue>>, job' = job \/ job' = None PROVE QueueOnce'
  <2>1. \A i \in 1..Len(queue) : queue[i] # None
    BY ElementOfSeq DEF TypeOK, HandlerTypeOK
  <2> QED
    BY <1>6, <2>1 DEF QueueOnce
<1> QED
  BY <1>1, <1>2, <1>3, <1>4, <1>5, <1>6
  DEF Next, Worker, Handler, Quiet, vars, diskVars, handlerVars, workerVars, CancelRead,
      CancelWrite, ReadStatus, WriteStatus, StatusFault, Proceed, Check, Malformed, Infer,
      InferDropped, AppendOutput, Mark
(* A step keeps the jobs the worker has not met untouched. *)
LEMMA UntouchedStep ==
    ASSUME TypeOK, Untouched, QueueOnce, [Next]_vars
    PROVE  Untouched'
<1> USE SpoolAssumption, NoneAssumption
<1> DEFINE Waits(j) == create[j] \in {"new", "written"} \/ Queued(j)
           Blank(j) == /\ Counted(meta[j]) = 0 /\ output[j] = <<>>
                       /\ \A c \in Cancels : Counted(Held(c, j)) = 0
<1>0. /\ Counted(None) = 0
      /\ \A j \in Jobs : Waits(j) => Blank(j)
      /\ \A j \in Jobs : Waits(j) => j # job
      /\ \A i \in 1..Len(queue) : queue[i] \in Jobs
  <2>1. \A i \in 1..Len(queue) : queue[i] \in Jobs
    BY ElementOfSeq DEF TypeOK, HandlerTypeOK
  <2> QED
    BY <2>1 DEF Counted, Untouched, QueueOnce, Queued
<1> SUFFICES ASSUME NEW k \in Jobs, Waits(k)' PROVE Blank(k)'
  BY DEF Untouched
<1>1. ASSUME NEW j \in Jobs, CreateJob(j) PROVE Blank(k)'
  <2>1. Counted([status |-> "pending", completed |-> 0, failed |-> 0, cancel |-> FALSE]) = 0
    BY DEF Counted
  <2>2. Waits(k)
    BY <1>1 DEF CreateJob, TypeOK, HandlerTypeOK, Queued
  <2> QED
    BY <1>0, <1>1, <2>1, <2>2 DEF CreateJob, TypeOK, DiskTypeOK, Held
<1>2. ASSUME NEW j \in Jobs, Send(j) PROVE Blank(k)'
  <2>1. /\ queue \in Seq(Jobs) /\ queue' = Append(queue, j) /\ Len(queue') = Len(queue) + 1
        /\ \A i \in 1..Len(queue) : queue'[i] = queue[i]
        /\ queue'[Len(queue) + 1] = j /\ Len(queue) \in Nat
    BY <1>2, AppendProperties, LenProperties DEF TypeOK, HandlerTypeOK, Send
  <2>2. Waits(k)
    BY <1>2, <2>1 DEF Send, TypeOK, HandlerTypeOK, Queued
  <2> QED
    BY <1>0, <1>2, <2>2 DEF Send, diskVars, Held
<1>3. ASSUME NEW j \in Jobs, ClientLeaves(j) PROVE Blank(k)'
  <2>1. Waits(k)
    BY <1>3 DEF ClientLeaves, TypeOK, HandlerTypeOK, Queued
  <2> QED
    BY <1>0, <1>3, <2>1 DEF ClientLeaves, diskVars, Held
<1>4. ASSUME NEW j \in Jobs, CancelRead(j) PROVE Blank(k)'
  <2>1. Waits(k)
    BY <1>4 DEF CancelRead, Queued
  <2>2. \A d \in Cancels : Held(d, k)' \in {Held(d, k), meta[k], None}
    BY <1>4, ReadHeld
  <2>3. \A d \in Cancels : Counted(Held(d, k)') = 0
    BY <1>0, <2>1, <2>2
  <2> QED
    BY <1>0, <1>4, <2>1, <2>3 DEF CancelRead, diskVars, Counted
<1>5. ASSUME NEW c \in Cancels, CancelWrite(c) PROVE Blank(k)'
  <2>1. Waits(k)
    BY <1>5 DEF CancelWrite, Queued
  <2>2. /\ meta'[k] = meta[k] \/ Counted(meta'[k]) = Counted(Held(c, k))
        /\ \A d \in Cancels : Held(d, k)' \in {Held(d, k), None}
    BY <1>5, WriteHeld
  <2>3. Counted(meta'[k]) = 0 /\ \A d \in Cancels : Counted(Held(d, k)') = 0
    BY <1>0, <2>1, <2>2
  <2> QED
    BY <1>0, <1>5, <2>1, <2>3 DEF CancelWrite, Counted
<1>6. CASE Receive
  <2>1. /\ queue \in Seq(Jobs) /\ Len(queue) \in Nat /\ Len(queue) >= 1
        /\ Len(queue') = Len(queue) - 1
        /\ \A i \in 1..Len(queue') : queue'[i] = queue[i + 1]
    BY <1>6, HeadTailProperties, EmptySeq, LenProperties DEF TypeOK, HandlerTypeOK, Receive
  <2>2. ASSUME Queued(k)' PROVE Queued(k)
    <3>1. PICK i \in 1..Len(queue') : queue'[i] = k
      BY <2>2 DEF Queued
    <3>2. i + 1 \in 1..Len(queue) /\ queue[i + 1] = k
      BY <2>1, <3>1
    <3> QED
      BY <3>2 DEF Queued
  <2>3. Waits(k)
    BY <1>6, <2>2 DEF Receive, handlerVars
  <2> QED
    BY <1>0, <1>6, <2>3 DEF Receive, diskVars, handlerVars, Held
<1>7. CASE WriteStatus \/ AppendOutput \/ Mark
  <2>1. Waits(k)
    BY <1>7 DEF WriteStatus, AppendOutput, Mark, handlerVars, Queued
  <2>2. meta'[k] = meta[k] /\ output'[k] = output[k]
    BY <1>0, <1>7, <2>1 DEF WriteStatus, AppendOutput, Mark, TypeOK, DiskTypeOK
  <2> QED
    BY <1>0, <1>7, <2>1, <2>2 DEF WriteStatus, AppendOutput, Mark, handlerVars, Held
<1>8. CASE Crash
  <2>1. Waits(k)
    BY <1>8 DEF Crash, TypeOK, HandlerTypeOK, Queued
  <2> QED
    BY <1>0, <1>8, <2>1 DEF Crash, diskVars, Held
<1>9. CASE UNCHANGED <<meta, output, create, csnap, queue>>
  BY <1>0, <1>9 DEF Queued, Held
<1> QED
  BY <1>1, <1>2, <1>3, <1>4, <1>5, <1>6, <1>7, <1>8, <1>9
  DEF Next, Worker, Handler, Quiet, vars, diskVars, handlerVars, ReadStatus, StatusFault,
      Check, Malformed, Infer, InferDropped

(* A line appended to the output of the current job keeps it in order. *)
LEMMA AppendOrder ==
    ASSUME TypeOK, Sorted, OutputBefore, job \in Jobs,
           NEW e \in Records, e.line = idx,
           output' = [output EXCEPT ![job] = Append(@, e)]
    PROVE  /\ Sorted'
           /\ \A a \in 1..Len(output'[job]) : output'[job][a].line < idx + 1
<1> DEFINE s == output[job]
<1>1. s \in Seq(Records) /\ Len(s) \in Nat /\ idx \in Nat
  BY LenProperties DEF TypeOK, DiskTypeOK, WorkerTypeOK
<1>2. output'[job] = Append(s, e) /\ \A j \in Jobs : j # job => output'[j] = output[j]
  BY DEF TypeOK, DiskTypeOK
<1>3. /\ Len(Append(s, e)) = Len(s) + 1
      /\ \A a \in 1..Len(s) : Append(s, e)[a] = s[a]
      /\ Append(s, e)[Len(s) + 1] = e
  BY <1>1, AppendProperties
<1>4. \A a \in 1..Len(s) : s[a] \in Records /\ s[a].line \in Nat /\ s[a].line < idx
  <2>1. \A a \in 1..Len(s) : s[a] \in Records
    BY <1>1, ElementOfSeq
  <2> QED
    BY <2>1, SpoolAssumption, NoneAssumption DEF OutputBefore, Records
<1> HIDE DEF s
<1>5. \A a \in 1..Len(output'[job]) : output'[job][a].line < idx + 1
  BY <1>1, <1>2, <1>3, <1>4
<1>6. ASSUME NEW j \in Jobs, NEW a \in 1..Len(output'[j]), NEW b \in 1..Len(output'[j]), a < b
      PROVE  output'[j][a].line < output'[j][b].line
  <2>1. CASE j # job
    BY <1>2, <1>6, <2>1 DEF Sorted
  <2>2. CASE j = job /\ b <= Len(s)
    BY <1>1, <1>2, <1>3, <1>6, <2>2 DEF Sorted, s
  <2>3. CASE j = job /\ b = Len(s) + 1
    <3>1. output'[j][b] = e /\ a \in 1..Len(s)
      BY <1>1, <1>2, <1>3, <1>6, <2>3
    <3>2. output'[j][a] = s[a]
      BY <1>2, <1>3, <2>3, <3>1
    <3> QED
      BY <1>4, <3>1, <3>2
  <2> QED
    BY <1>1, <1>2, <1>3, <1>6, <2>1, <2>2, <2>3
<1> QED
  BY <1>5, <1>6 DEF Sorted

(* A step keeps the output in the order of the input. *)
LEMMA OutputStep ==
    ASSUME TypeOK, Position, OutputBefore, Sorted, Untouched, [Next]_vars
    PROVE  OutputBefore' /\ Sorted'
<1> USE SpoolAssumption, NoneAssumption
<1>0. ASSUME UNCHANGED output, job' = job \/ job' = None,
             idx' = idx \/ idx' = idx + 1 \/ job' = None
      PROVE  OutputBefore' /\ Sorted'
  <2>1. ASSUME job # None PROVE \A a \in 1..Len(output[job]) : output[job][a] \in Records
    BY <2>1, ElementOfSeq DEF TypeOK, DiskTypeOK, WorkerTypeOK
  <2> QED
    BY <1>0, <2>1 DEF OutputBefore, Sorted, TypeOK, WorkerTypeOK, Records
<1>1. CASE (\E j \in Jobs : Handler(j)) \/ (\E c \in Cancels : CancelWrite(c))
  BY <1>1 DEF OutputBefore, Sorted, Handler, CreateJob, Send, ClientLeaves, CancelRead,
              CancelWrite, diskVars, workerVars
<1>2. CASE Receive
  <2>1. job' \in Jobs /\ job' = queue[1] /\ Len(queue) >= 1
    BY <1>2, HeadTailProperties, EmptySeq, LenProperties DEF TypeOK, HandlerTypeOK, Receive
  <2>2. output[job'] = <<>>
    BY <2>1, LenProperties DEF Untouched, Queued, TypeOK, HandlerTypeOK
  <2> QED
    BY <1>2, <2>1, <2>2, EmptySeq DEF OutputBefore, Sorted, Receive, diskVars
<1>3. CASE AppendOutput
  <2>1. job \in Jobs /\ [line |-> idx, kind |-> result] \in Records /\ idx' = idx + 1
    BY <1>3 DEF AppendOutput, TypeOK, WorkerTypeOK, Records
  <2>2. CASE output' = [output EXCEPT ![job] = Append(@, [line |-> idx, kind |-> result])]
    BY <1>3, <2>1, <2>2, AppendOrder DEF OutputBefore, AppendOutput
  <2>3. CASE UNCHANGED output
    BY <1>0, <1>3, <2>1, <2>3 DEF AppendOutput
  <2> QED
    BY <1>3, <2>2, <2>3 DEF AppendOutput
<1>4. CASE Mark /\ idx <= Total(job)
  <2>1. job \in Jobs /\ [line |-> idx, kind |-> "cancelled"] \in Records /\ idx' = idx + 1
        /\ job' = job
    BY <1>4 DEF Mark, TypeOK, WorkerTypeOK, Records
  <2>2. CASE output' = [output EXCEPT ![job] = Append(@, [line |-> idx, kind |-> "cancelled"])]
    BY <1>4, <2>1, <2>2, AppendOrder DEF OutputBefore
  <2>3. CASE UNCHANGED output
    BY <1>0, <2>1, <2>3
  <2> QED
    BY <1>4, <2>2, <2>3 DEF Mark
<1>5. CASE Mark /\ ~(idx <= Total(job))
  BY <1>5 DEF Mark, OutputBefore, Sorted
<1> QED
  BY <1>0, <1>1, <1>2, <1>3, <1>4, <1>5
  DEF Next, Worker, Quiet, vars, diskVars, workerVars, ReadStatus, WriteStatus, StatusFault,
      Proceed, Check, Malformed, Infer, InferDropped, Crash

----------------------------------------------------------------------------
(* An appended record counts when it answers its line well. *)
LEMMA OkAppend ==
    ASSUME NEW s \in Seq(Records), NEW e \in Records
    PROVE  /\ Cardinality(OkLines(s)) \in Nat
           /\ Cardinality(OkLines(Append(s, e))) =
                  Cardinality(OkLines(s)) + (IF e.kind = "ok" THEN 1 ELSE 0)
<1> DEFINE t == Append(s, e)
           n == Len(s)
<1>1. /\ n \in Nat /\ DOMAIN s = 1..n /\ DOMAIN t = 1..(n + 1)
      /\ \A a \in 1..n : t[a] = s[a]
      /\ t[n + 1] = e
  BY LenProperties, AppendProperties
<1> HIDE DEF t, n
<1>2. IsFiniteSet(OkLines(s)) /\ Cardinality(OkLines(s)) \in Nat
  <2>1. IsFiniteSet(1..n)
    BY <1>1, FS_Interval
  <2> QED
    BY <1>1, <2>1, FS_Subset, FS_CardinalityType DEF OkLines
<1>3. CASE e.kind = "ok"
  <2>1. OkLines(t) = OkLines(s) \cup {n + 1} /\ n + 1 \notin OkLines(s)
    BY <1>1, <1>3 DEF OkLines
  <2> QED
    BY <1>2, <1>3, <2>1, FS_AddElement DEF t
<1>4. CASE e.kind # "ok"
  <2>1. OkLines(t) = OkLines(s)
    BY <1>1, <1>4 DEF OkLines
  <2> QED
    BY <1>2, <1>4, <2>1 DEF t
<1> QED
  BY <1>3, <1>4

(* The worker appends a record to the output of its job, or fails to. *)
LEMMA AnsweredStep ==
    ASSUME TypeOK, job \in Jobs, NEW e \in Records,
           output' = [output EXCEPT ![job] = Append(@, e)]
    PROVE  \A j \in Jobs :
              /\ Answered(j) \in Nat
              /\ Answered(j)' = Answered(j) + (IF j = job /\ e.kind = "ok" THEN 1 ELSE 0)
<1> SUFFICES ASSUME NEW j \in Jobs
             PROVE  /\ Answered(j) \in Nat
                    /\ Answered(j)' = Answered(j) + (IF j = job /\ e.kind = "ok" THEN 1 ELSE 0)
  OBVIOUS
<1>1. output[j] \in Seq(Records) /\ output'[j] = IF j = job THEN Append(output[j], e) ELSE output[j]
  BY DEF TypeOK, DiskTypeOK
<1> QED
  BY <1>1, OkAppend DEF Answered

(* Where nothing has failed nothing fails in this step. *)
LEMMA NoFault ==
    ASSUME TypeOK, [Next]_vars, faults' = 0
    PROVE  faults = 0 /\ ~Fault
<1>1. faults \in Nat
  BY SpoolAssumption DEF TypeOK, WorkerTypeOK
<1>2. ~Fault
  BY <1>1 DEF Fault
<1>3. ASSUME NEW j \in Jobs, Handler(j) PROVE faults' = faults
  BY <1>2, <1>3 DEF Handler, CreateJob, Send, ClientLeaves, CancelRead
<1>4. ASSUME NEW c \in Cancels, CancelWrite(c) PROVE faults' = faults
  BY <1>2, <1>4 DEF CancelWrite
<1>5. CASE Receive \/ ReadStatus \/ WriteStatus \/ StatusFault \/ Check
  BY <1>2, <1>5 DEF Receive, ReadStatus, WriteStatus, StatusFault, Check
<1>6. CASE Malformed \/ Infer \/ InferDropped \/ AppendOutput
  BY <1>2, <1>6 DEF Malformed, Infer, InferDropped, AppendOutput
<1>7. CASE Mark
  BY <1>2, <1>7 DEF Mark
<1>8. CASE Crash \/ UNCHANGED vars
  BY <1>2, <1>8 DEF Crash, vars
<1> QED
  BY <1>2, <1>3, <1>4, <1>5, <1>6, <1>7, <1>8 DEF Next, Worker, Quiet

(* Progress is read, written back and counted, but never ahead of the      *)
(* output it reports; an output that was appended stays.                   *)
LEMMA BackedStep ==
    ASSUME TypeOK, Backed, [Next]_vars
    PROVE  Backed'
<1> SUFFICES ASSUME faults' = 0 PROVE Backed'
  BY DEF Backed
<1> USE SpoolAssumption, NoneAssumption
<1>0. /\ faults = 0 /\ ~Fault
      /\ Completed(None) = 0
      /\ \A j \in Jobs : Answered(j) \in Nat
  <2>1. faults = 0 /\ ~Fault
    BY NoFault
  <2>2. ASSUME NEW j \in Jobs PROVE Answered(j) \in Nat
    <3>1. output[j] \in Seq(Records) /\ [line |-> 1, kind |-> "ok"] \in Records
      BY DEF TypeOK, DiskTypeOK, Records
    <3> QED
      BY <3>1, OkAppend DEF Answered
  <2> QED
    BY <2>1, <2>2 DEF Completed
<1>1. ASSUME NEW j \in Jobs, Handler(j) PROVE Backed'
  <2>1. UNCHANGED <<output, job, snap, completed, result>>
    BY <1>1 DEF Handler, CreateJob, Send, ClientLeaves, CancelRead, diskVars, workerVars
  <2>2. \A k \in Jobs : meta'[k] = meta[k] \/ Completed(meta'[k]) = 0
    BY <1>0, <1>1 DEF Handler, CreateJob, Send, ClientLeaves, CancelRead, diskVars, TypeOK,
                      DiskTypeOK, Completed
  <2>3. \A k \in Jobs : \A d \in Cancels : Held(d, k)' \in {Held(d, k), meta[k], None}
    <3>1. CASE CancelRead(j)
      BY <3>1, ReadHeld
    <3>2. CASE ~CancelRead(j)
      BY <1>1, <3>2 DEF Handler, CreateJob, Send, ClientLeaves, handlerVars, Held
    <3> QED
      BY <3>1, <3>2
  <2>4. \A k \in Jobs : Answered(k)' = Answered(k)
    BY <2>1 DEF Answered
  <2>5. \A k \in Jobs : Completed(meta[k]) <= Answered(k)
        /\ \A d \in Cancels : Completed(Held(d, k)) <= Answered(k)
    BY <1>0 DEF Backed
  <2>6. \A k \in Jobs : Completed(meta'[k]) <= Answered(k)
    BY <1>0, <2>2, <2>5
  <2>7. \A k \in Jobs : \A d \in Cancels : Completed(Held(d, k)') <= Answered(k)
    BY <1>0, <2>3, <2>5
  <2>8. job # None => Completed(snap) <= Answered(job)
                      /\ completed <= Answered(job) + (IF result = "ok" THEN 1 ELSE 0)
    BY <1>0 DEF Backed
  <2>9. job # None => Completed(snap') <= Answered(job)'
                      /\ completed' <= Answered(job)' + (IF result' = "ok" THEN 1 ELSE 0)
    BY <2>1, <2>8 DEF Answered
  <2> QED
    BY <2>1, <2>4, <2>6, <2>7, <2>9 DEF Backed, Completed
<1>2. ASSUME NEW c \in Cancels, CancelWrite(c) PROVE Backed'
  <2>1. UNCHANGED <<output, job, snap, completed, result>>
    BY <1>2 DEF CancelWrite, workerVars
  <2>2. csnap[c] \in CancelSnap /\ csnap[c] # None
    BY <1>2 DEF TypeOK, HandlerTypeOK, CancelWrite
  <2>3. csnap[c].job \in Jobs /\ csnap[c].meta \in Meta /\ csnap[c].meta # None
    BY <2>2 DEF CancelSnap
  <2> DEFINE n == [csnap[c].meta EXCEPT !.cancel = TRUE]
  <2>4. Completed(n) = Completed(csnap[c].meta)
    <3>1. n # None /\ n.completed = csnap[c].meta.completed
      BY <2>3, CancelMeta DEF Meta
    <3> QED
      BY <2>3, <3>1 DEF Completed
  <2>5. meta' = meta \/ meta' = [meta EXCEPT ![csnap[c].job] = n]
    BY <1>2 DEF CancelWrite
  <2> HIDE DEF n
  <2>6. \A k \in Jobs : meta'[k] = meta[k] \/ Completed(meta'[k]) = Completed(Held(c, k))
    BY <2>2, <2>3, <2>4, <2>5 DEF Held, TypeOK, DiskTypeOK
  <2>7. \A k \in Jobs : \A d \in Cancels : Held(d, k)' \in {Held(d, k), None}
    BY <1>2, WriteHeld
  <2> QED
    BY <1>0, <2>1, <2>6, <2>7 DEF Backed, Answered
<1>3. CASE Receive
  <2>1. job' \in Jobs /\ completed' = 0 /\ snap' = None /\ UNCHANGED <<meta, output, csnap>>
    BY <1>3, HeadTailProperties, EmptySeq
    DEF Receive, TypeOK, HandlerTypeOK, WorkerTypeOK, diskVars, handlerVars
  <2> QED
    BY <1>0, <2>1 DEF Backed, Answered, Held
<1>4. CASE ReadStatus
  <2>1. job \in Jobs /\ snap' = meta[job] /\ UNCHANGED <<meta, output, csnap, job, completed, result>>
    BY <1>4 DEF ReadStatus, TypeOK, WorkerTypeOK, diskVars, handlerVars
  <2> QED
    BY <1>0, <2>1 DEF Backed, Answered, Held
<1>5. CASE WriteStatus
  <2>1. /\ job \in Jobs /\ snap \in Meta /\ result = "none" /\ snap' = None
        /\ rmw \in {"begin", "count", "cancelled", "final", "fail"}
        /\ job' = job \/ job' = None
        /\ UNCHANGED <<output, csnap, completed, result>>
    BY <1>5 DEF WriteStatus, Proceed, TypeOK, WorkerTypeOK, handlerVars
  <2>2. Updated(rmw, snap).completed \in {snap.completed, completed} /\ snap # None
    BY <2>1 DEF Updated, Meta
  <2>3. completed <= Answered(job) /\ snap.completed <= Answered(job)
    BY <1>0, <2>1, <2>2 DEF Backed, Completed, TypeOK, WorkerTypeOK
  <2>4. Completed(Updated(rmw, snap)) <= Answered(job)
    BY <1>0, <2>1, <2>2, <2>3 DEF Completed
  <2>5. meta' = [meta EXCEPT ![job] = Updated(rmw, snap)]
    BY <1>5 DEF WriteStatus
  <2>6. \A j \in Jobs : Completed(meta'[j]) <= Answered(j)
    BY <1>0, <2>1, <2>4, <2>5 DEF Backed, TypeOK, DiskTypeOK
  <2> QED
    BY <1>0, <2>1, <2>3, <2>6 DEF Backed, Answered, Held
<1>6. CASE StatusFault
  BY <1>0, <1>6 DEF StatusFault
<1>7. CASE Check \/ Malformed \/ InferDropped
  <2>1. UNCHANGED <<meta, output, csnap, job, snap, completed, result>>
    BY <1>0, <1>7 DEF Check, Malformed, InferDropped, diskVars, handlerVars
  <2> QED
    BY <1>0, <2>1 DEF Backed, Answered, Held
<1>8. CASE Infer
  <2>1. /\ job \in Jobs /\ result = "none" /\ completed \in Nat
        /\ UNCHANGED <<meta, output, csnap, job, snap>>
        /\ \/ result' = "ok" /\ completed' = completed + 1
           \/ result' = "error" /\ completed' = completed
    BY <1>8 DEF Infer, TypeOK, WorkerTypeOK, diskVars, handlerVars
  <2> QED
    BY <1>0, <2>1 DEF Backed, Answered, Held
<1>9. CASE AppendOutput
  <2> DEFINE e == [line |-> idx, kind |-> result]
  <2>1. /\ job \in Jobs /\ e \in Records /\ e.kind = result /\ completed \in Nat
        /\ UNCHANGED <<meta, csnap, job, snap, completed>> /\ result' = "none"
        /\ output' = [output EXCEPT ![job] = Append(@, e)]
    BY <1>0, <1>9 DEF AppendOutput, TypeOK, WorkerTypeOK, Records, handlerVars
  <2> HIDE DEF e
  <2>2. \A j \in Jobs : Answered(j)' = Answered(j) + (IF j = job /\ e.kind = "ok" THEN 1 ELSE 0)
    BY <2>1, AnsweredStep
  <2>3. /\ \A j \in Jobs : Completed(meta[j]) \in Nat
        /\ \A j \in Jobs : \A c \in Cancels : Completed(Held(c, j)) \in Nat
        /\ Completed(snap) \in Nat
    BY HeldMeta DEF TypeOK, DiskTypeOK, WorkerTypeOK, Completed, Meta
  <2>4. /\ UNCHANGED <<meta, snap>>
        /\ \A j \in Jobs : \A c \in Cancels : Held(c, j)' = Held(c, j)
    BY <2>1 DEF Held
  <2>5. /\ \A j \in Jobs : Completed(meta'[j]) <= Answered(j)'
        /\ \A j \in Jobs : \A c \in Cancels : Completed(Held(c, j)') <= Answered(j)'
    BY <1>0, <2>2, <2>3, <2>4 DEF Backed
  <2>6. Completed(snap') <= Answered(job)'
    BY <1>0, <2>1, <2>2, <2>3, <2>4, NoneAssumption DEF Backed
  <2>7. completed' <= Answered(job)' + (IF result' = "ok" THEN 1 ELSE 0)
    BY <1>0, <2>1, <2>2, NoneAssumption DEF Backed
  <2> QED
    BY <2>1, <2>5, <2>6, <2>7 DEF Backed, Completed, Answered
<1>10. CASE Mark
  <2>1. /\ job \in Jobs /\ result = "none" /\ completed \in Nat
        /\ UNCHANGED <<meta, csnap, snap, completed, result>>
        /\ job' = job \/ job' = None
    BY <1>10 DEF Mark, TypeOK, WorkerTypeOK, handlerVars
  <2>2. \A j \in Jobs : Answered(j)' = Answered(j)
    <3>1. CASE UNCHANGED output
      BY <3>1 DEF Answered
    <3>2. CASE output' = [output EXCEPT ![job] = Append(@, [line |-> idx, kind |-> "cancelled"])]
      <4> DEFINE e == [line |-> idx, kind |-> "cancelled"]
      <4>1. e \in Records /\ e.kind # "ok"
        BY DEF Records, TypeOK, WorkerTypeOK
      <4>2. output' = [output EXCEPT ![job] = Append(@, e)]
        BY <3>2
      <4> HIDE DEF e
      <4> QED
        <5>1. \A j \in Jobs :
                 Answered(j)' = Answered(j) + (IF j = job /\ e.kind = "ok" THEN 1 ELSE 0)
          BY <2>1, <4>1, <4>2, AnsweredStep
        <5> QED
          BY <1>0, <4>1, <5>1
    <3> QED
      BY <1>10, <3>1, <3>2 DEF Mark
  <2> QED
    BY <1>0, <2>1, <2>2 DEF Backed, Held
<1>11. CASE Crash
  BY <1>0, <1>11 DEF Crash, diskVars, Backed, Answered, Held
<1>12. CASE UNCHANGED vars
  BY <1>0, <1>12 DEF vars, diskVars, handlerVars, workerVars, Backed, Answered, Held
<1> QED
  BY <1>1, <1>2, <1>3, <1>4, <1>5, <1>6, <1>7, <1>8, <1>9, <1>10, <1>11, <1>12
  DEF Next, Worker, Quiet

----------------------------------------------------------------------------
(* The inductive invariant holds in every reachable state. *)
THEOREM Invariance == Spec => []IInv
<1>1. Init => IInv
  <2> SUFFICES ASSUME Init PROVE IInv
    OBVIOUS
  <2>1. Counted(None) = 0 /\ \A j \in Jobs : Total(j) \in Nat
    BY TotalNat DEF Counted
  <2>2. TypeOK
    BY SpoolAssumption, NoneAssumption, EmptySeq
    DEF Init, WorkerIdle, TypeOK, DiskTypeOK, HandlerTypeOK, WorkerTypeOK
  <2>3. CountInv
    BY <2>1 DEF Init, WorkerIdle, CountInv, Position, Bounded, Behind, Active, Held
  <2>4. OrderInv
    BY <2>1, EmptySeq
    DEF Init, WorkerIdle, OrderInv, Untouched, QueueOnce, OutputBefore, Sorted, Queued, Held
  <2>5. Backed
    BY SpoolAssumption, NoneAssumption, EmptySeq, FS_EmptySet
    DEF Init, WorkerIdle, Backed, Completed, Answered, OkLines, Held
  <2> QED
    BY <2>2, <2>3, <2>4, <2>5 DEF IInv
<1>2. IInv /\ [Next]_vars => IInv'
  BY DiskTypeStep, HandlerTypeStep, WorkerTypeStep, PositionStep, BoundedStep, BehindStep,
     QueueStep, UntouchedStep, OutputStep, BackedStep
  DEF IInv, TypeOK, CountInv, OrderInv
<1> QED
  BY <1>1, <1>2, PTL DEF Spec

(* Every variable keeps its type, and a job whose POST handler or whose    *)
(* worker goes on is on disk (create_batch, process_job).                  *)
THEOREM TypeCorrect == Spec => []TypeOK
<1>1. IInv => TypeOK
  BY DEF IInv
<1> QED
  BY <1>1, Invariance, PTL

(* The counts of status.json and of the worker stay within the number of   *)
(* input lines, so remaining = total - completed - failed cannot wrap,     *)
(* for any number of jobs, cancel requests, failures and crashes.          *)
THEOREM CountsWithinTotal == Spec => []CountsBounded
<1>1. IInv => CountsBounded
  BY SpoolAssumption, NoneAssumption DEF IInv, CountInv, Bounded, Position, Counted, CountsBounded
<1> QED
  BY <1>1, Invariance, PTL

(* No line is written to output.jsonl twice and the lines are in order,    *)
(* for any number of jobs, cancel requests, failures and crashes.          *)
THEOREM LinesOnce == Spec => []OncePerLine
<1>1. IInv => OncePerLine
  <2> SUFFICES ASSUME IInv, NEW j \in Jobs PROVE DOMAIN output[j] = 1..Len(output[j])
    BY DEF IInv, OrderInv, Sorted, OncePerLine
  <2> QED
    BY LenProperties DEF IInv, TypeOK, DiskTypeOK
<1> QED
  BY <1>1, Invariance, PTL

(* What status.json reports as completed a reader of output.jsonl can see, *)
(* also after a crash and whichever stale status is written back, as long  *)
(* as no write failed (process_job appends a line before it counts it).    *)
THEOREM ProgressIsBacked == Spec => []ProgressBacked
<1>1. IInv => ProgressBacked
  BY DEF IInv, Backed, Completed, Answered, OkLines, ProgressBacked
<1> QED
  BY <1>1, Invariance, PTL
=============================================================================
