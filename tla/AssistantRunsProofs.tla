------------------------ MODULE AssistantRunsProofs ------------------------
(***************************************************************************)
(* Proofs about the Assistants API: type correctness, that a completed run *)
(* has delivered, and that runs on one thread do not overlap, for every    *)
(* number of threads, runs, messages, cancel requests, faults and crashes. *)
(***************************************************************************)
EXTENDS AssistantRuns, SequenceTheorems, TLAPS

----------------------------------------------------------------------------
(* The inductive invariant.                                                *)

Replied(r) == \E i \in DOMAIN file[ThreadOf[r]] : file[ThreadOf[r]][i] = r
Queued(r) == \E i \in DOMAIN queue : queue[i] = r

(* Only accepted runs are queued, each once. *)
QueuedOnce ==
    /\ \A i \in DOMAIN queue : create[queue[i]] = "accepted"
    /\ \A i, j \in DOMAIN queue : queue[i] = queue[j] => i = j

(* A run the worker has not taken up has left nothing on disk. *)
Untouched ==
    \A r \in Runs : create[r] # "accepted" \/ Queued(r) =>
        r # run /\ step[r] = "none" /\ ~Replied(r)

(* A reply stands in the log of its own thread only, and once. *)
OneReply ==
    \A t \in Threads : \A i \in DOMAIN file[t] : file[t][i] \in Runs =>
        /\ ThreadOf[file[t][i]] = t
        /\ \A j \in DOMAIN file[t] : file[t][j] = file[t][i] => j = i

(* What the run that is executed has left on disk so far. *)
Progress ==
    /\ pc \in {"begin", "begin_write", "begin_event", "list", "step"} =>
          step[run] = "none" /\ ~Replied(run)
    /\ pc \in {"infer", "text"} => step[run] = "in_progress" /\ ~Replied(run)
    /\ pc \in {"newline", "step_done"} => step[run] = "in_progress" /\ Replied(run)
    /\ pc = "details" => step[run] = "completed" /\ Replied(run)
    /\ pc \in {"finish", "finish_write", "finish_event"} =>
          step[run] = "detailed" /\ Replied(run)

(* Until the run replies its prompt holds every reply that can be read. *)
PromptCurrent ==
    pc \in {"step", "infer", "text"} =>
        \A i \in DOMAIN file[ThreadOf[run]] :
            file[ThreadOf[run]][i] \in Runs /\ Readable(file[ThreadOf[run]], i)
                => file[ThreadOf[run]][i] \in seen[run]

(* The first half of CompletedDelivers; OneReply is the other. *)
Delivered == \A r \in Runs : status[r] = "completed" => step[r] = "detailed" /\ Replied(r)

QueueInv == QueuedOnce /\ Untouched
LogInv == OneReply /\ PromptCurrent /\ RepliesSeen
RunInv == Progress /\ Delivered

IInv == TypeOK /\ QueueInv /\ LogInv /\ RunInv

----------------------------------------------------------------------------
(* Type correctness.                                                       *)

(* The run the worker executes exists and is on disk. *)
LEMMA RunFacts ==
    ASSUME TypeOK, pc # "recv"
    PROVE  run \in Runs /\ status[run] # None /\ ThreadOf[run] \in Threads
  BY AssistantAssumption DEF TypeOK, WorkerTypeOK, Messages

LEMMA InitType == Init => TypeOK
  BY AssistantAssumption, EmptySeq
     DEF Init, TypeOK, DiskTypeOK, HandlerTypeOK, WorkerTypeOK, Cancels, Statuses

(* Receiving takes the head off the queue and keeps the others. *)
LEMMA HeadFacts ==
    ASSUME TypeOK, queue # <<>>
    PROVE  /\ Head(queue) \in Runs /\ Head(queue) = queue[1]
           /\ Tail(queue) \in Seq(Runs)
           /\ DOMAIN queue = 1..Len(queue) /\ Len(queue) \in Nat \ {0}
           /\ DOMAIN Tail(queue) = 1..(Len(queue) - 1)
           /\ \A i \in DOMAIN Tail(queue) : i + 1 \in DOMAIN queue /\ Tail(queue)[i] = queue[i + 1]
  <1>1. queue \in Seq(Runs)
    BY DEF TypeOK, WorkerTypeOK
  <1> QED  BY <1>1, HeadTailProperties, EmptySeq, LenProperties

(* A file that a message or a line feed is appended to. *)
LEMMA LogFacts ==
    ASSUME TypeOK, NEW t \in Threads, NEW x \in Messages \cup {Newline},
           file' = [file EXCEPT ![t] = Append(@, x)]
    PROVE  /\ file' \in [Threads -> Seq(Messages \cup {Newline})]
           /\ Len(file[t]) \in Nat /\ DOMAIN file[t] = 1..Len(file[t])
           /\ DOMAIN file'[t] = 1..(Len(file[t]) + 1)
           /\ file'[t][Len(file[t]) + 1] = x
           /\ \A i \in DOMAIN file[t] : file'[t][i] = file[t][i]
           /\ \A u \in Threads : u # t => file'[u] = file[u]
  <1>1. file \in [Threads -> Seq(Messages \cup {Newline})]
    BY DEF TypeOK, DiskTypeOK
  <1> DEFINE f == file[t]
             g == Append(f, x)
  <1>2. f \in Seq(Messages \cup {Newline}) /\ file'[t] = g
    BY <1>1
  <1>3. /\ g \in Seq(Messages \cup {Newline}) /\ Len(g) = Len(f) + 1
        /\ \A i \in 1..Len(f) : g[i] = f[i]
        /\ g[Len(f) + 1] = x
    BY <1>2, AppendProperties
  <1>4. Len(f) \in Nat /\ DOMAIN f = 1..Len(f) /\ DOMAIN g = 1..(Len(f) + 1)
    BY <1>2, <1>3, LenProperties
  <1> QED  BY <1>1, <1>2, <1>3, <1>4

(* An event about the run. *)
LEMMA EventFacts ==
    ASSUME TypeOK, run \in Runs,
           NEW kind \in {"in_progress", "delta", "completed", "failed"},
           NEW carried \in Statuses \cup {None}, Broadcast(kind, carried)
    PROVE  events' \in [Runs -> Seq(Event)]
  <1>1. [kind |-> kind, status |-> carried] \in Event
    BY DEF Event
  <1>2. events \in [Runs -> Seq(Event)]
    BY DEF TypeOK, WorkerTypeOK
  <1>3. Append(events[run], [kind |-> kind, status |-> carried]) \in Seq(Event)
    BY <1>1, <1>2, AppendProperties
  <1> QED  BY <1>2, <1>3 DEF Broadcast

LEMMA FaultType ==
    ASSUME TypeOK, Fault \/ UNCHANGED faults
    PROVE  faults' \in 0..MaxFaults
  BY AssistantAssumption DEF TypeOK, Fault

(* A run that joins the queue. *)
LEMMA EnqueueFacts ==
    ASSUME TypeOK, NEW r \in Runs, queue' = Append(queue, r)
    PROVE  /\ queue' \in Seq(Runs)
           /\ DOMAIN queue = 1..Len(queue) /\ Len(queue) \in Nat
           /\ DOMAIN queue' = 1..(Len(queue) + 1)
           /\ \A i \in DOMAIN queue : queue'[i] = queue[i]
           /\ queue'[Len(queue) + 1] = r
  <1>1. queue \in Seq(Runs)
    BY DEF TypeOK, WorkerTypeOK
  <1> QED  BY <1>1, AppendProperties, LenProperties

(* A status that is overwritten, or not: no run goes back to having none. *)
LEMMA StatusFacts ==
    ASSUME TypeOK, NEW r \in Runs, NEW st \in Statuses,
           status' = [status EXCEPT ![r] = st] \/ UNCHANGED status
    PROVE  /\ status' \in [Runs -> Statuses \cup {None}]
           /\ \A q \in Runs : status[q] # None => status'[q] # None
  <1>1. st # None /\ status \in [Runs -> Statuses \cup {None}]
    BY AssistantAssumption DEF TypeOK, DiskTypeOK
  <1> QED  BY <1>1

(* What the handlers and the worker refer to stays on disk. *)
LEMMA HandlerKept ==
    ASSUME TypeOK, \A q \in Runs : status[q] # None => status'[q] # None,
           UNCHANGED handlerVars
    PROVE  HandlerTypeOK'
  BY AssistantAssumption DEF TypeOK, HandlerTypeOK, handlerVars, Cancels

LEMMA QueueKept ==
    ASSUME TypeOK, \A q \in Runs : status[q] # None => status'[q] # None,
           UNCHANGED queue
    PROVE  queue' \in Seq(Runs) /\ \A i \in DOMAIN queue' : status'[queue'[i]] # None
  <1>1. \A i \in DOMAIN queue : queue[i] \in Runs /\ status[queue[i]] # None
    BY ElementOfSeq, LenProperties DEF TypeOK, WorkerTypeOK
  <1> QED  BY <1>1 DEF TypeOK, WorkerTypeOK

LEMMA WorkerKept ==
    ASSUME TypeOK, \A q \in Runs : status[q] # None => status'[q] # None,
           UNCHANGED <<queue, alive, workerVars>>
    PROVE  WorkerTypeOK'
  BY AssistantAssumption, QueueKept DEF TypeOK, WorkerTypeOK, workerVars

LEMMA HandlerType ==
    ASSUME TypeOK,
           \/ \E t \in Threads : CreateThread(t)
           \/ \E m \in Posts : PostText(m) \/ PostNewline(m)
           \/ \E r \in Runs : RunHandler(r)
           \/ \E c \in Cancels : CancelWrite(c)
    PROVE  TypeOK'
  <1>1. ASSUME NEW t \in Threads, CreateThread(t)  PROVE  TypeOK'
    <2>1. HandlerTypeOK' /\ WorkerTypeOK'
      BY <1>1, HandlerKept, WorkerKept DEF CreateThread
    <2> QED  BY <1>1, <2>1 DEF CreateThread, TypeOK, DiskTypeOK
  <1>2. ASSUME NEW m \in Posts, PostText(m) \/ PostNewline(m)  PROVE  TypeOK'
    <2>1. ThreadOf[m] \in Threads /\ m \in Messages
      BY AssistantAssumption DEF Messages
    <2>2. faults' \in 0..MaxFaults
      BY <1>2, FaultType DEF PostText, PostNewline
    <2>3. file' \in [Threads -> Seq(Messages \cup {Newline})]
      BY <1>2, <2>1, LogFacts DEF PostText, PostNewline, TypeOK, DiskTypeOK
    <2>4. DiskTypeOK'
      BY <1>2, <2>3 DEF PostText, PostNewline, TypeOK, DiskTypeOK
    <2>5. HandlerTypeOK'
      BY <1>2 DEF PostText, PostNewline, TypeOK, HandlerTypeOK
    <2>6. WorkerTypeOK'
      BY <1>2, WorkerKept DEF PostText, PostNewline
    <2> QED  BY <1>2, <2>2, <2>4, <2>5, <2>6 DEF PostText, PostNewline, TypeOK
  <1>3. ASSUME NEW r \in Runs, CreateRun(r) \/ FailUnsent(r)  PROVE  TypeOK'
    <2>1. faults' \in 0..MaxFaults
      BY <1>3, FaultType DEF CreateRun, FailUnsent
    <2>2. {"queued", "failed"} \subseteq Statuses
      BY DEF Statuses
    <2>3. /\ status' \in [Runs -> Statuses \cup {None}]
          /\ \A q \in Runs : status[q] # None => status'[q] # None
      BY <1>3, <2>2, StatusFacts DEF CreateRun, FailUnsent
    <2>4. create'[r] \in {"written", "accepted"} => status'[r] # None
      <3>1. CASE CreateRun(r)
        <4>1. create'[r] = "written" => status'[r] = "queued" /\ None # "queued"
          BY <3>1, <2>2, AssistantAssumption
             DEF CreateRun, TypeOK, DiskTypeOK, HandlerTypeOK
        <4>2. create'[r] \in {"written", "error"}
          BY <3>1 DEF CreateRun, TypeOK, HandlerTypeOK
        <4> QED  BY <4>1, <4>2
      <3>2. CASE FailUnsent(r)
        BY <3>2, <2>3 DEF FailUnsent, TypeOK, HandlerTypeOK
      <3> QED  BY <1>3, <3>1, <3>2
    <2>5. DiskTypeOK'
      BY <1>3, <2>3 DEF CreateRun, FailUnsent, TypeOK, DiskTypeOK
    <2>6. HandlerTypeOK'
      BY <1>3, <2>3, <2>4 DEF CreateRun, FailUnsent, TypeOK, HandlerTypeOK
    <2>7. WorkerTypeOK'
      BY <1>3, <2>3, WorkerKept DEF CreateRun, FailUnsent
    <2> QED  BY <1>3, <2>1, <2>5, <2>6, <2>7 DEF CreateRun, FailUnsent, TypeOK
  <1>4. ASSUME NEW r \in Runs, Enqueue(r)  PROVE  TypeOK'
    <2>1. status[r] # None
      BY <1>4 DEF Enqueue, TypeOK, HandlerTypeOK
    <2>2. queue' \in Seq(Runs) /\ \A i \in DOMAIN queue' : status[queue'[i]] # None
      <3>1. CASE queue' = Append(queue, r)
        BY <3>1, <2>1, EnqueueFacts DEF TypeOK, WorkerTypeOK
      <3>2. CASE UNCHANGED queue
        BY <3>2 DEF TypeOK, WorkerTypeOK
      <3> QED  BY <1>4, <3>1, <3>2 DEF Enqueue
    <2>3. DiskTypeOK' /\ HandlerTypeOK'
      BY <1>4, <2>1 DEF Enqueue, TypeOK, DiskTypeOK, diskVars, HandlerTypeOK
    <2>4. WorkerTypeOK'
      BY <1>4, <2>2 DEF Enqueue, TypeOK, WorkerTypeOK, workerVars, diskVars
    <2> QED  BY <1>4, <2>3, <2>4 DEF Enqueue, TypeOK
  <1>5. ASSUME NEW r \in Runs, ClientLeaves(r) \/ CancelRead(r)  PROVE  TypeOK'
    <2>1. DiskTypeOK'
      BY <1>5 DEF ClientLeaves, CancelRead, TypeOK, DiskTypeOK, diskVars
    <2>2. HandlerTypeOK'
      <3>1. CASE ClientLeaves(r)
        BY <3>1 DEF ClientLeaves, TypeOK, HandlerTypeOK, diskVars
      <3>2. CASE CancelRead(r)
        <4>1. cancels \in 0..MaxCancels /\ cancels' \in 0..MaxCancels /\ MaxCancels \in Nat
          BY <3>2, AssistantAssumption DEF CancelRead, TypeOK, HandlerTypeOK
        <4>2. /\ cancel' \in [Cancels -> Runs \cup {None}]
              /\ \A c \in Cancels : cancel'[c] # None => status[cancel'[c]] # None
          BY <3>2, <4>1 DEF CancelRead, TypeOK, HandlerTypeOK, Cancels
        <4> QED  BY <3>2, <4>1, <4>2 DEF CancelRead, TypeOK, HandlerTypeOK, diskVars
      <3> QED  BY <1>5, <3>1, <3>2
    <2>3. WorkerTypeOK'
      BY <1>5, WorkerKept DEF ClientLeaves, CancelRead, diskVars
    <2> QED  BY <1>5, <2>1, <2>2, <2>3 DEF ClientLeaves, CancelRead, TypeOK
  <1>6. ASSUME NEW c \in Cancels, CancelWrite(c)  PROVE  TypeOK'
    <2>1. faults' \in 0..MaxFaults
      BY <1>6, FaultType DEF CancelWrite
    <2>2. cancel[c] \in Runs /\ "cancelled" \in Statuses
      BY <1>6 DEF CancelWrite, TypeOK, HandlerTypeOK, Statuses
    <2>3. /\ status' \in [Runs -> Statuses \cup {None}]
          /\ \A q \in Runs : status[q] # None => status'[q] # None
      BY <1>6, <2>2, StatusFacts DEF CancelWrite
    <2>4. DiskTypeOK'
      BY <1>6, <2>3 DEF CancelWrite, TypeOK, DiskTypeOK
    <2>5. HandlerTypeOK'
      BY <1>6, <2>3 DEF CancelWrite, TypeOK, HandlerTypeOK
    <2>6. WorkerTypeOK'
      BY <1>6, <2>3, WorkerKept DEF CancelWrite
    <2> QED  BY <1>6, <2>1, <2>4, <2>5, <2>6 DEF CancelWrite, TypeOK
  <1> QED  BY <1>1, <1>2, <1>3, <1>4, <1>5, <1>6 DEF RunHandler

LEMMA WorkerType ==
    ASSUME TypeOK, Worker
    PROVE  TypeOK'
  <1>1. CASE Receive
    <2>1. DiskTypeOK' /\ HandlerTypeOK'
      BY <1>1, HandlerKept DEF Receive, TypeOK, DiskTypeOK, diskVars
    <2>2. WorkerTypeOK'
      <3>1. /\ run' \in Runs /\ status[run'] # None /\ run' # None
            /\ queue' \in Seq(Runs) /\ \A i \in DOMAIN queue' : status[queue'[i]] # None
        BY <1>1, HeadFacts, AssistantAssumption DEF Receive, TypeOK, WorkerTypeOK, Messages
      <3> QED  BY <1>1, <3>1 DEF Receive, Goto, TypeOK, WorkerTypeOK, diskVars
    <2> QED  BY <1>1, <2>1, <2>2 DEF Receive, TypeOK
  <1>2. CASE SetStatus \/ FailRun
    <2>1. run \in Runs /\ status[run] # None
      BY <1>2, RunFacts DEF SetStatus, FailRun, Goto
    <2>2. {"in_progress", "completed", "failed"} \subseteq Statuses
      BY DEF Statuses
    <2>3. /\ status' \in [Runs -> Statuses \cup {None}]
          /\ \A q \in Runs : status[q] # None => status'[q] # None
      BY <1>2, <2>1, <2>2, AssistantAssumption DEF SetStatus, FailRun, TypeOK, DiskTypeOK
    <2>4. faults' \in 0..MaxFaults
      BY <1>2, FaultType DEF SetStatus, FailRun
    <2>5. DiskTypeOK' /\ HandlerTypeOK'
      BY <1>2, <2>3, HandlerKept DEF SetStatus, FailRun, TypeOK, DiskTypeOK
    <2>6. WorkerTypeOK'
      BY <1>2, <2>1, <2>3, QueueKept DEF SetStatus, FailRun, Goto, TypeOK, WorkerTypeOK
    <2> QED  BY <1>2, <2>4, <2>5, <2>6 DEF SetStatus, FailRun, TypeOK
  <1>3. CASE Guard \/ InferFails \/ StepFails \/ Announce \/ Infer \/ AnnounceFailure
    <2>1. faults' \in 0..MaxFaults /\ run \in Runs /\ status[run] # None
      BY <1>3, FaultType, RunFacts
         DEF Guard, InferFails, StepFails, Announce, Infer, AnnounceFailure, Goto
    <2>2. DiskTypeOK' /\ HandlerTypeOK' /\ crashes' = crashes
      BY <1>3, HandlerKept
         DEF Guard, InferFails, StepFails, Announce, Infer, AnnounceFailure, TypeOK, DiskTypeOK,
             diskVars
    <2>3. events' \in [Runs -> Seq(Event)]
      BY <1>3, <2>1, EventFacts
         DEF Guard, InferFails, StepFails, Announce, Infer, AnnounceFailure, TypeOK, DiskTypeOK,
             WorkerTypeOK
    <2>4. WorkerTypeOK'
      BY <1>3, <2>1, <2>3
         DEF Guard, InferFails, StepFails, Announce, Infer, AnnounceFailure, Goto, TypeOK,
             WorkerTypeOK, diskVars
    <2> QED  BY <2>1, <2>2, <2>4 DEF TypeOK
  <1>4. CASE ReadThread
    <2>1. ListMessages(file[ThreadOf[run]]) \subseteq Messages
      <3>1. file[ThreadOf[run]] \in Seq(Messages \cup {Newline})
        BY <1>4, RunFacts DEF ReadThread, Goto, TypeOK, DiskTypeOK
      <3> QED  BY <3>1, ElementOfSeq, LenProperties DEF ListMessages, Readable
    <2>2. DiskTypeOK' /\ HandlerTypeOK'
      BY <1>4, HandlerKept DEF ReadThread, TypeOK, DiskTypeOK, diskVars
    <2>3. WorkerTypeOK'
      BY <1>4, <2>1 DEF ReadThread, Goto, TypeOK, WorkerTypeOK, diskVars
    <2> QED  BY <1>4, <2>2, <2>3 DEF ReadThread, TypeOK
  <1>5. CASE AppendStep \/ UpdateStep \/ ReplyText \/ ReplyNewline
    <2>1. run \in Messages /\ ThreadOf[run] \in Threads /\ run \in Runs
      BY <1>5, RunFacts DEF AppendStep, UpdateStep, ReplyText, ReplyNewline, Goto, Messages
    <2>2. file' \in [Threads -> Seq(Messages \cup {Newline})]
      BY <1>5, <2>1, LogFacts
         DEF AppendStep, UpdateStep, ReplyText, ReplyNewline, TypeOK, DiskTypeOK
    <2>3. DiskTypeOK'
      BY <1>5, <2>1, <2>2 DEF AppendStep, UpdateStep, ReplyText, ReplyNewline, TypeOK, DiskTypeOK
    <2>4. HandlerTypeOK'
      BY <1>5, HandlerKept DEF AppendStep, UpdateStep, ReplyText, ReplyNewline
    <2>5. WorkerTypeOK'
      BY <1>5, <2>1
         DEF AppendStep, UpdateStep, ReplyText, ReplyNewline, Goto, TypeOK, WorkerTypeOK
    <2> QED  BY <1>5, <2>3, <2>4, <2>5
             DEF AppendStep, UpdateStep, ReplyText, ReplyNewline, TypeOK
  <1> QED  BY <1>1, <1>2, <1>3, <1>4, <1>5 DEF Worker

LEMMA CrashType ==
    ASSUME TypeOK, Crash
    PROVE  TypeOK'
  BY AssistantAssumption, EmptySeq
     DEF TypeOK, DiskTypeOK, HandlerTypeOK, WorkerTypeOK, Crash, diskVars, Cancels

----------------------------------------------------------------------------
(* The log.                                                                *)

(* Whether a line can be read is settled by what stands around it, so an   *)
(* append can only take it away, from the line that was the last.          *)
LEMMA ReadableKept ==
    ASSUME TypeOK, NEW t \in Threads, NEW x \in Messages \cup {Newline},
           file' = [file EXCEPT ![t] = Append(@, x)],
           NEW u \in Threads, NEW i \in DOMAIN file[u], Readable(file'[u], i)
    PROVE  Readable(file[u], i)
  <1>1. CASE u # t
    BY <1>1, LogFacts
  <1>2. CASE u = t
    <2> DEFINE f == file[t]
               g == file'[t]
    <2>1. /\ Len(f) \in Nat /\ DOMAIN f = 1..Len(f) /\ DOMAIN g = 1..(Len(f) + 1)
          /\ \A k \in DOMAIN f : g[k] = f[k]
          /\ g \in Seq(Messages \cup {Newline})
      BY LogFacts
    <2>2. Len(g) = Len(f) + 1
      BY <2>1, LenProperties
    <2>3. i \in 1..Len(f) /\ Readable(g, i)
      BY <1>2, <2>1
    <2> HIDE DEF f, g
    <2>4. i > 1 => i - 1 \in DOMAIN f
      BY <2>1, <2>3
    <2>5. i < Len(f) => i + 1 \in DOMAIN f
      BY <2>1, <2>3
    <2>6. Readable(f, i)
      BY <2>1, <2>2, <2>3, <2>4, <2>5 DEF Readable
    <2> QED  BY <1>2, <2>6 DEF f
  <1> QED  BY <1>1, <1>2

(* A log that grows keeps its replies, and gains none but the appended.    *)
LEMMA RepliedStep ==
    ASSUME TypeOK, NEW t \in Threads, NEW x \in Messages \cup {Newline},
           file' = [file EXCEPT ![t] = Append(@, x)], NEW r \in Runs
    PROVE  /\ Replied(r) => Replied(r)'
           /\ Replied(r)' => Replied(r) \/ r = x
           /\ r = x /\ ThreadOf[r] = t => Replied(r)'
  <1>1. ThreadOf[r] \in Threads
    BY AssistantAssumption DEF Messages
  <1>2. /\ Len(file[t]) \in Nat /\ DOMAIN file[t] = 1..Len(file[t])
        /\ DOMAIN file'[t] = 1..(Len(file[t]) + 1)
        /\ file'[t][Len(file[t]) + 1] = x
        /\ \A i \in DOMAIN file[t] : file'[t][i] = file[t][i]
        /\ \A u \in Threads : u # t => file'[u] = file[u]
    BY LogFacts
  <1>3. \A i \in DOMAIN file'[t] : i \in DOMAIN file[t] \/ i = Len(file[t]) + 1
    BY <1>2
  <1>4. DOMAIN file[t] \subseteq DOMAIN file'[t] /\ Len(file[t]) + 1 \in DOMAIN file'[t]
    BY <1>2
  <1> QED  BY <1>1, <1>2, <1>3, <1>4 DEF Replied

(* Appending something that is no reply. *)
LEMMA NoReplyStep ==
    ASSUME TypeOK, LogInv, NEW t \in Threads, NEW x \in Messages \cup {Newline}, x \notin Runs,
           file' = [file EXCEPT ![t] = Append(@, x)], UNCHANGED <<seen, run>>,
           pc' \in {"step", "infer", "text"} => pc \in {"step", "infer", "text"}
    PROVE  LogInv'
  <1>1. /\ Len(file[t]) \in Nat /\ DOMAIN file[t] = 1..Len(file[t])
        /\ DOMAIN file'[t] = 1..(Len(file[t]) + 1)
        /\ file'[t][Len(file[t]) + 1] = x
        /\ \A i \in DOMAIN file[t] : file'[t][i] = file[t][i]
        /\ \A u \in Threads : u # t => file'[u] = file[u]
    BY LogFacts
  <1>2. ASSUME NEW u \in Threads, NEW i \in DOMAIN file'[u], file'[u][i] \in Runs
        PROVE  i \in DOMAIN file[u] /\ file'[u][i] = file[u][i]
    BY <1>1, <1>2
  <1>3. OneReply'
    BY <1>2 DEF LogInv, OneReply
  <1>4. PromptCurrent'
    <2>1. CASE pc \in {"step", "infer", "text"}
      <3>1. ThreadOf[run] \in Threads
        BY <2>1, RunFacts
      <3>2. \A i \in DOMAIN file[ThreadOf[run]] :
               Readable(file'[ThreadOf[run]], i) => Readable(file[ThreadOf[run]], i)
        BY <3>1, ReadableKept
      <3> QED  BY <2>1, <3>1, <3>2, <1>2 DEF LogInv, PromptCurrent
    <2>2. CASE pc \notin {"step", "infer", "text"}
      BY <2>2 DEF PromptCurrent
    <2> QED  BY <2>1, <2>2
  <1>5. RepliesSeen'
    <2> SUFFICES ASSUME NEW u \in Threads, NEW i \in DOMAIN file'[u], NEW j \in DOMAIN file'[u],
                        i < j, file'[u][i] \in Runs, file'[u][j] \in Runs, Readable(file'[u], i)
                 PROVE  file'[u][i] \in seen'[file'[u][j]]
      BY DEF RepliesSeen
    <2>1. /\ i \in DOMAIN file[u] /\ file'[u][i] = file[u][i]
          /\ j \in DOMAIN file[u] /\ file'[u][j] = file[u][j]
      BY <1>2
    <2>2. Readable(file[u], i)
      BY <2>1, ReadableKept
    <2> QED  BY <2>1, <2>2 DEF LogInv, RepliesSeen
  <1> QED  BY <1>3, <1>4, <1>5 DEF LogInv

(* The worker appends its reply: the first of this run, and its prompt     *)
(* held every reply that can be read before it.                            *)
LEMMA ReplyStep ==
    ASSUME TypeOK, LogInv, RunInv, ReplyText
    PROVE  LogInv'
  <1> DEFINE t == ThreadOf[run]
             n == Len(file[t]) + 1
  <1>1. run \in Runs /\ run \in Messages /\ t \in Threads /\ pc = "text"
    BY RunFacts DEF ReplyText, Goto, Messages
  <1>2. file' = [file EXCEPT ![t] = Append(@, run)] /\ UNCHANGED <<seen, run>> /\ pc' = "newline"
    BY DEF ReplyText, Goto
  <1>3. /\ Len(file[t]) \in Nat /\ DOMAIN file[t] = 1..Len(file[t])
        /\ DOMAIN file'[t] = 1..n /\ file'[t][n] = run
        /\ \A i \in DOMAIN file[t] : file'[t][i] = file[t][i]
        /\ \A u \in Threads : u # t => file'[u] = file[u]
    BY <1>1, <1>2, LogFacts
  <1>4. \A u \in Threads : \A i \in DOMAIN file[u] : file[u][i] # run
    <2>1. ~Replied(run)
      BY <1>1 DEF RunInv, Progress
    <2> QED  BY <1>1, <2>1 DEF Replied, LogInv, OneReply
  <1> HIDE DEF t, n
  <1>5. ASSUME NEW u \in Threads, NEW i \in DOMAIN file'[u]
        PROVE  \/ i \in DOMAIN file[u] /\ file'[u][i] = file[u][i]
               \/ u = t /\ i = n /\ file'[u][i] = run
    BY <1>3, <1>5 DEF n
  <1>6. OneReply'
    <2> SUFFICES ASSUME NEW u \in Threads, NEW i \in DOMAIN file'[u], file'[u][i] \in Runs
                 PROVE  /\ ThreadOf[file'[u][i]] = u
                        /\ \A j \in DOMAIN file'[u] : file'[u][j] = file'[u][i] => j = i
      BY DEF OneReply
    <2>1. CASE i \in DOMAIN file[u] /\ file'[u][i] = file[u][i]
      <3>1. file[u][i] # run
        BY <2>1, <1>4
      <3> QED  BY <2>1, <3>1, <1>5 DEF LogInv, OneReply
    <2>2. CASE u = t /\ i = n /\ file'[u][i] = run
      BY <2>2, <1>4, <1>5 DEF t
    <2> QED  BY <2>1, <2>2, <1>5
  <1>7. PromptCurrent'
    BY <1>2 DEF PromptCurrent
  <1>8. RepliesSeen'
    <2> SUFFICES ASSUME NEW u \in Threads, NEW i \in DOMAIN file'[u], NEW j \in DOMAIN file'[u],
                        i < j, file'[u][i] \in Runs, file'[u][j] \in Runs, Readable(file'[u], i)
                 PROVE  file'[u][i] \in seen'[file'[u][j]]
      BY DEF RepliesSeen
    <2>1. i \in DOMAIN file[u] /\ file'[u][i] = file[u][i]
      BY <1>3, <1>5 DEF n
    <2>2. Readable(file[u], i)
      BY <2>1, <1>1, <1>2, ReadableKept
    <2>3. CASE j \in DOMAIN file[u] /\ file'[u][j] = file[u][j]
      BY <2>1, <2>2, <2>3, <1>2 DEF LogInv, RepliesSeen
    <2>4. CASE u = t /\ file'[u][j] = run
      BY <2>1, <2>2, <2>4, <1>1, <1>2 DEF LogInv, PromptCurrent, t
    <2> QED  BY <2>3, <2>4, <1>5
  <1> QED  BY <1>6, <1>7, <1>8 DEF LogInv

(* The prompt is read: every reply that can be read is in it from now on.  *)
(* No reply of this run stands in a log whose prompt would change.         *)
LEMMA ReadThreadStep ==
    ASSUME TypeOK, LogInv, RunInv, ReadThread
    PROVE  LogInv'
  <1>1. run \in Runs /\ ThreadOf[run] \in Threads /\ pc = "list"
    BY RunFacts DEF ReadThread, Goto
  <1>2. /\ seen' = [seen EXCEPT ![run] = ListMessages(file[ThreadOf[run]])]
        /\ UNCHANGED <<file, run>> /\ seen \in [Runs -> SUBSET Messages]
    BY DEF ReadThread, diskVars, TypeOK, WorkerTypeOK
  <1>3. \A u \in Threads : \A i \in DOMAIN file[u] : file[u][i] # run
    <2>1. ~Replied(run)
      BY <1>1 DEF RunInv, Progress
    <2> QED  BY <1>1, <2>1 DEF Replied, LogInv, OneReply
  <1>4. OneReply'
    BY <1>2 DEF LogInv, OneReply
  <1>5. PromptCurrent'
    BY <1>1, <1>2 DEF PromptCurrent, ListMessages
  <1>6. RepliesSeen'
    BY <1>1, <1>2, <1>3 DEF LogInv, RepliesSeen
  <1> QED  BY <1>4, <1>5, <1>6 DEF LogInv

(* Everything else leaves the logs and the prompts alone. *)
LEMMA LogKept ==
    ASSUME LogInv, UNCHANGED <<file, seen>>,
           pc' \in {"step", "infer", "text"} => pc \in {"step", "infer", "text"} /\ run' = run
    PROVE  LogInv'
  BY DEF LogInv, OneReply, PromptCurrent, RepliesSeen, Readable

----------------------------------------------------------------------------
(* The queue, and the runs that have not been taken up.                    *)

(* A step that queues nothing and disturbs the run that is executed only.  *)
LEMMA QueueInvKept ==
    ASSUME TypeOK, QueueInv, queue' = queue \/ queue' = <<>>,
           \A r \in Runs : create[r] = "accepted" => create'[r] = "accepted",
           run' = run \/ run' = None,
           \A r \in Runs : r # run => step'[r] = step[r] /\ (Replied(r)' => Replied(r))
    PROVE  QueueInv'
  <1>1. \A i \in DOMAIN queue : queue[i] \in Runs
    BY ElementOfSeq, LenProperties DEF TypeOK, WorkerTypeOK
  <1>2. QueuedOnce'
    BY <1>1 DEF QueueInv, QueuedOnce
  <1>3. \A r \in Runs : r # None
    BY AssistantAssumption DEF Messages
  <1>4. \A r \in Runs : Queued(r)' => Queued(r)
    BY DEF Queued
  <1>5. Untouched'
    <2> SUFFICES ASSUME NEW r \in Runs, create'[r] # "accepted" \/ Queued(r)'
                 PROVE  r # run' /\ step'[r] = "none" /\ ~Replied(r)'
      BY DEF Untouched
    <2>1. create[r] # "accepted" \/ Queued(r)
      BY <1>4
    <2>2. r # run /\ step[r] = "none" /\ ~Replied(r)
      BY <2>1 DEF QueueInv, Untouched
    <2> QED  BY <1>3, <2>2
  <1> QED  BY <1>2, <1>5 DEF QueueInv

(* A run that was written joins the queue: it was never in it. *)
LEMMA EnqueueStep ==
    ASSUME TypeOK, QueueInv, NEW r \in Runs, Enqueue(r)
    PROVE  QueueInv'
  <1>1. /\ create[r] = "written" /\ create \in [Runs -> {"new", "written", "unsent", "accepted", "error"}]
        /\ UNCHANGED <<step, file, run>>
    BY DEF Enqueue, TypeOK, HandlerTypeOK, diskVars, workerVars
  <1>2. CASE alive
    <2>1. /\ queue' = Append(queue, r) /\ create' = [create EXCEPT ![r] = "accepted"]
      BY <1>2 DEF Enqueue
    <2>2. /\ DOMAIN queue = 1..Len(queue) /\ Len(queue) \in Nat
          /\ DOMAIN queue' = 1..(Len(queue) + 1)
          /\ \A i \in DOMAIN queue : queue'[i] = queue[i]
          /\ queue'[Len(queue) + 1] = r
          /\ \A i \in DOMAIN queue : queue[i] \in Runs
      BY <2>1, EnqueueFacts, ElementOfSeq DEF TypeOK, WorkerTypeOK
    <2>3. \A i \in DOMAIN queue' :
             \/ i \in DOMAIN queue /\ queue'[i] = queue[i]
             \/ i = Len(queue) + 1 /\ queue'[i] = r
      BY <2>2
    <2>4. \A i \in DOMAIN queue : queue[i] # r /\ create[queue[i]] = "accepted"
      BY <1>1 DEF QueueInv, QueuedOnce
    <2>5. \A i \in DOMAIN queue' : create'[queue'[i]] = "accepted"
      BY <1>1, <2>1, <2>2, <2>3, <2>4
    <2>6. \A i, j \in DOMAIN queue' : queue'[i] = queue'[j] => i = j
      BY <2>3, <2>4 DEF QueueInv, QueuedOnce
    <2>7. r # run /\ step[r] = "none" /\ ~Replied(r)
      BY <1>1 DEF QueueInv, Untouched
    <2>8. Untouched'
      <3> SUFFICES ASSUME NEW q \in Runs, create'[q] # "accepted" \/ Queued(q)'
                   PROVE  q # run' /\ step'[q] = "none" /\ ~Replied(q)'
        BY DEF Untouched
      <3>1. q = r \/ create[q] # "accepted" \/ Queued(q)
        BY <1>1, <2>1, <2>3 DEF Queued
      <3> QED  BY <1>1, <2>7, <3>1 DEF QueueInv, Untouched, Replied
    <2> QED  BY <2>5, <2>6, <2>8 DEF QueueInv, QueuedOnce
  <1>3. CASE ~alive
    BY <1>1, <1>3, QueueInvKept DEF Enqueue, Replied
  <1> QED  BY <1>2, <1>3

(* The run that is taken up leaves the queue for good. *)
LEMMA ReceiveStep ==
    ASSUME TypeOK, QueueInv, RunInv, Receive
    PROVE  QueueInv' /\ RunInv'
  <1>1. /\ queue # <<>> /\ run' = Head(queue) /\ queue' = Tail(queue) /\ pc' = "begin"
        /\ UNCHANGED <<status, step, file, create>>
    BY DEF Receive, Goto, diskVars, handlerVars
  <1>2. /\ run' \in Runs /\ 1 \in DOMAIN queue /\ queue[1] = run'
        /\ \A i \in DOMAIN queue' : i + 1 \in DOMAIN queue /\ queue'[i] = queue[i + 1] /\ i \in Nat
        /\ \A i \in DOMAIN queue' : i + 1 # 1
    <2>1. DOMAIN queue' \subseteq Nat \ {0}
      BY <1>1, HeadFacts
    <2> QED  BY <1>1, <2>1, HeadFacts
  <1>3. QueuedOnce'
    <2>1. \A i \in DOMAIN queue' : create'[queue'[i]] = "accepted"
      BY <1>1, <1>2 DEF QueueInv, QueuedOnce
    <2>2. \A i, j \in DOMAIN queue' : queue'[i] = queue'[j] => i + 1 = j + 1
      BY <1>2 DEF QueueInv, QueuedOnce
    <2>3. \A i, j \in DOMAIN queue' : i + 1 = j + 1 => i = j
      BY <1>2
    <2> QED  BY <2>1, <2>2, <2>3 DEF QueuedOnce
  <1>4. Queued(run') /\ create[run'] = "accepted"
    BY <1>2 DEF Queued, QueueInv, QueuedOnce
  <1>5. step[run'] = "none" /\ ~Replied(run')
    BY <1>2, <1>4 DEF QueueInv, Untouched
  <1>6. Untouched'
    <2> SUFFICES ASSUME NEW q \in Runs, create'[q] # "accepted" \/ Queued(q)'
                 PROVE  q # run' /\ step'[q] = "none" /\ ~Replied(q)'
      BY DEF Untouched
    <2>1. Queued(q)' => Queued(q)
      BY <1>2 DEF Queued
    <2>2. Queued(q)' => q # run'
      BY <1>2 DEF Queued, QueueInv, QueuedOnce
    <2>3. create'[q] # "accepted" => q # run'
      BY <1>1, <1>4
    <2> QED  BY <1>1, <2>1, <2>2, <2>3 DEF QueueInv, Untouched, Replied
  <1>7. RunInv'
    <2>1. Progress'
      BY <1>1, <1>5 DEF Progress, Replied
    <2>2. Delivered'
      BY <1>1 DEF RunInv, Delivered, Replied
    <2> QED  BY <2>1, <2>2 DEF RunInv
  <1> QED  BY <1>3, <1>6, <1>7 DEF QueueInv

----------------------------------------------------------------------------
(* The run that is executed.                                               *)

(* A handler's step: nothing is written but statuses other than completed, *)
(* and messages of users.                                                  *)
LEMMA RunInvKept ==
    ASSUME TypeOK, RunInv, UNCHANGED <<step, run>>, pc' = pc,
           \A r \in Runs : Replied(r) <=> Replied(r)',
           \A r \in Runs : status'[r] = "completed" => status[r] = "completed"
    PROVE  RunInv'
  <1>1. Delivered'
    BY DEF RunInv, Delivered
  <1>2. CASE pc # "recv"
    BY <1>1, <1>2, RunFacts DEF RunInv, Progress
  <1>3. CASE pc = "recv"
    BY <1>1, <1>3 DEF RunInv, Progress
  <1> QED  BY <1>2, <1>3

(* The worker's steps other than receiving a run: the step object goes     *)
(* through its states and the reply is appended in between, and the status *)
(* becomes completed only after both.                                      *)
LEMMA ExecuteStep ==
    ASSUME TypeOK, RunInv, Worker, ~Receive
    PROVE  RunInv'
  <1>1. pc # "recv"
    BY DEF Worker, Receive, Guard, SetStatus, Announce, ReadThread, AppendStep, Infer, InferFails,
           ReplyText, ReplyNewline, UpdateStep, StepFails, AnnounceFailure, FailRun, Goto
  <1>2. /\ run \in Runs /\ ThreadOf[run] \in Threads /\ run \in Messages
        /\ step \in [Runs -> {"none", "in_progress", "completed", "detailed"}]
        /\ status \in [Runs -> Statuses \cup {None}]
    BY <1>1, RunFacts DEF TypeOK, DiskTypeOK, Messages
  <1>3. CASE Guard \/ SetStatus \/ Announce \/ ReadThread \/ Infer \/ InferFails \/ StepFails
             \/ AnnounceFailure \/ FailRun
    <2>1. UNCHANGED <<step, file>>
      BY <1>3 DEF Guard, SetStatus, Announce, ReadThread, Infer, InferFails, StepFails,
                  AnnounceFailure, FailRun, diskVars
    <2>2. \A r \in Runs : Replied(r) <=> Replied(r)'
      BY <2>1 DEF Replied
    <2>3. ASSUME NEW r \in Runs, status'[r] = "completed"
          PROVE  status[r] = "completed" \/ (r = run /\ pc = "finish_write")
      BY <1>2, <1>3, <2>3
         DEF Guard, SetStatus, Announce, ReadThread, Infer, InferFails, StepFails,
             AnnounceFailure, FailRun, diskVars, Goto
    <2>4. Delivered'
      BY <1>2, <2>1, <2>2, <2>3 DEF RunInv, Delivered, Progress
    <2>5. Progress'
      <3>1. CASE pc' \notin {"recv", "error", "fail"}
        <4>1. run' = run
          BY <1>3, <3>1
             DEF Guard, SetStatus, Announce, ReadThread, Infer, InferFails, StepFails,
                 AnnounceFailure, FailRun, diskVars, Goto
        <4>2. /\ pc' \in {"begin_write", "begin_event", "list", "step"} =>
                     pc \in {"begin", "begin_write", "begin_event", "list"}
              /\ pc' = "text" => pc = "infer"
              /\ pc' \in {"finish_write", "finish_event"} => pc \in {"finish", "finish_write"}
              /\ pc' \in {"begin_write", "begin_event", "list", "step", "text", "finish_write",
                         "finish_event"}
          BY <1>3, <3>1
             DEF Guard, SetStatus, Announce, ReadThread, Infer, InferFails, StepFails,
                 AnnounceFailure, FailRun, Goto
        <4> QED  BY <1>2, <2>1, <2>2, <4>1, <4>2 DEF RunInv, Progress
      <3>2. CASE pc' \in {"recv", "error", "fail"}
        BY <3>2 DEF Progress
      <3> QED  BY <3>1, <3>2
    <2> QED  BY <2>4, <2>5 DEF RunInv
  <1>4. CASE AppendStep \/ UpdateStep
    <2>1. UNCHANGED <<file, status, run>>
      BY <1>4 DEF AppendStep, UpdateStep
    <2>2. \A r \in Runs : Replied(r) <=> Replied(r)'
      BY <2>1 DEF Replied
    <2>3. status[run] # "completed"
      BY <1>2, <1>4 DEF AppendStep, UpdateStep, Goto, RunInv, Progress, Delivered
    <2>4. Delivered'
      BY <1>2, <1>4, <2>1, <2>2, <2>3 DEF AppendStep, UpdateStep, RunInv, Delivered
    <2>5. Progress'
      BY <1>2, <1>4, <2>1, <2>2 DEF AppendStep, UpdateStep, Goto, RunInv, Progress
    <2> QED  BY <2>4, <2>5 DEF RunInv
  <1>5. CASE ReplyText \/ ReplyNewline
    <2>1. UNCHANGED <<step, status, run>>
      BY <1>5 DEF ReplyText, ReplyNewline
    <2>2. \A r \in Runs : Replied(r) => Replied(r)'
      BY <1>2, <1>5, RepliedStep DEF ReplyText, ReplyNewline
    <2>3. pc' = "newline" => Replied(run)'
      BY <1>2, <1>5, RepliedStep DEF ReplyText, ReplyNewline, Goto
    <2>4. Delivered'
      BY <2>1, <2>2 DEF RunInv, Delivered
    <2>5. Progress'
      BY <1>2, <1>5, <2>1, <2>2, <2>3 DEF ReplyText, ReplyNewline, Goto, RunInv, Progress
    <2> QED  BY <2>4, <2>5 DEF RunInv
  <1> QED  BY <1>3, <1>4, <1>5 DEF Worker

----------------------------------------------------------------------------
(* The steps of the handlers and of the worker.                            *)

LEMMA PostStep ==
    ASSUME IInv, NEW m \in Posts, PostText(m) \/ PostNewline(m)
    PROVE  QueueInv' /\ LogInv' /\ RunInv'
  <1> USE DEF IInv
  <1>1. ThreadOf[m] \in Threads /\ m \in Messages /\ m \notin Runs /\ Newline \notin Runs
    BY AssistantAssumption DEF Messages
  <1>2. UNCHANGED <<status, step, create, queue, pc, run, seen>>
    BY DEF PostText, PostNewline, workerVars
  <1>3. CASE UNCHANGED file
    <2>1. \A r \in Runs : Replied(r) <=> Replied(r)'
      BY <1>3 DEF Replied
    <2> QED  BY <1>2, <1>3, <2>1, QueueInvKept, LogKept, RunInvKept
  <1>4. CASE ~UNCHANGED file
    <2>1. PICK x \in {m, Newline} : file' = [file EXCEPT ![ThreadOf[m]] = Append(@, x)]
      BY <1>4 DEF PostText, PostNewline
    <2>2. \A r \in Runs : Replied(r) <=> Replied(r)'
      BY <1>1, <2>1, RepliedStep
    <2>3. LogInv'
      BY <1>1, <1>2, <2>1, NoReplyStep
    <2> QED  BY <1>2, <2>2, <2>3, QueueInvKept, RunInvKept
  <1> QED  BY <1>3, <1>4

LEMMA HandlerStep ==
    ASSUME IInv,
           \/ \E t \in Threads : CreateThread(t)
           \/ \E r \in Runs : RunHandler(r)
           \/ \E c \in Cancels : CancelWrite(c)
    PROVE  QueueInv' /\ LogInv' /\ RunInv'
  <1> USE DEF IInv
  <1>1. UNCHANGED <<file, step, pc, run, seen>>
    BY DEF CreateThread, RunHandler, CreateRun, Enqueue, FailUnsent, ClientLeaves, CancelRead,
           CancelWrite, diskVars, workerVars
  <1>2. \A r \in Runs : Replied(r) <=> Replied(r)'
    BY <1>1 DEF Replied
  <1>3. ASSUME NEW r \in Runs, status'[r] = "completed"  PROVE  status[r] = "completed"
    BY <1>3 DEF CreateThread, RunHandler, CreateRun, Enqueue, FailUnsent, ClientLeaves,
                CancelRead, CancelWrite, diskVars, TypeOK, DiskTypeOK
  <1>4. LogInv' /\ RunInv'
    BY <1>1, <1>2, <1>3, LogKept, RunInvKept
  <1>5. ASSUME NEW r \in Runs, Enqueue(r)  PROVE  QueueInv'
    BY <1>5, EnqueueStep
  <1>6. ASSUME \A r \in Runs : ~Enqueue(r)  PROVE  QueueInv'
    <2>1. UNCHANGED queue
      BY <1>6 DEF CreateThread, RunHandler, CreateRun, FailUnsent, ClientLeaves, CancelRead,
                  CancelWrite
    <2>2. \A r \in Runs : create[r] = "accepted" => create'[r] = "accepted"
      BY <1>6 DEF CreateThread, RunHandler, CreateRun, FailUnsent, ClientLeaves, CancelRead,
                  CancelWrite, handlerVars, TypeOK, HandlerTypeOK
    <2> QED  BY <1>1, <1>2, <2>1, <2>2, QueueInvKept
  <1> QED  BY <1>4, <1>5, <1>6

LEMMA WorkerStep ==
    ASSUME IInv, Worker
    PROVE  QueueInv' /\ LogInv' /\ RunInv'
  <1> USE DEF IInv
  <1>1. CASE Receive
    <2>1. LogInv'
      BY <1>1, LogKept DEF Receive, Goto, diskVars
    <2> QED  BY <1>1, <2>1, ReceiveStep
  <1>2. CASE ~Receive
    <2>1. RunInv'
      BY <1>2, ExecuteStep
    <2>2. UNCHANGED <<queue, create>> /\ (run' = run \/ run' = None) /\ pc # "recv"
      BY <1>2 DEF Worker, Guard, SetStatus, Announce, ReadThread, AppendStep, Infer, InferFails,
                  ReplyText, ReplyNewline, UpdateStep, StepFails, AnnounceFailure, FailRun, Goto,
                  handlerVars
    <2>3. run \in Runs /\ run \in Messages /\ ThreadOf[run] \in Threads
      BY <2>2, RunFacts DEF Messages
    <2>4. ASSUME NEW r \in Runs, r # run
          PROVE  step'[r] = step[r] /\ (Replied(r)' => Replied(r))
      <3>1. step'[r] = step[r]
        BY <1>2, <2>3, <2>4
           DEF Worker, Guard, SetStatus, Announce, ReadThread, AppendStep, Infer, InferFails,
               ReplyText, ReplyNewline, UpdateStep, StepFails, AnnounceFailure, FailRun,
               diskVars, TypeOK, DiskTypeOK
      <3>2. CASE UNCHANGED file
        BY <3>1, <3>2 DEF Replied
      <3>3. CASE ReplyText \/ ReplyNewline
        <4>1. r # Newline
          BY AssistantAssumption DEF Messages
        <4>2. \E x \in {run, Newline} : file' = [file EXCEPT ![ThreadOf[run]] = Append(@, x)]
          BY <3>3 DEF ReplyText, ReplyNewline
        <4> QED  BY <2>3, <2>4, <3>1, <4>1, <4>2, RepliedStep
      <3> QED  BY <1>2, <3>2, <3>3
               DEF Worker, Guard, SetStatus, Announce, ReadThread, AppendStep, Infer, InferFails,
                   UpdateStep, StepFails, AnnounceFailure, FailRun, diskVars
    <2>5. QueueInv'
      BY <2>2, <2>4, QueueInvKept
    <2>6. LogInv'
      <3>1. CASE ReadThread
        BY <3>1, ReadThreadStep
      <3>2. CASE ReplyText
        BY <3>2, ReplyStep
      <3>3. CASE ReplyNewline
        <4>1. Newline \notin Runs
          BY AssistantAssumption DEF Messages
        <4> QED  BY <2>3, <3>3, <4>1, NoReplyStep DEF ReplyNewline, Goto
      <3>4. CASE ~ReadThread /\ ~ReplyText /\ ~ReplyNewline
        <4>1. UNCHANGED <<file, seen>>
          BY <1>2, <3>4 DEF Worker, Guard, SetStatus, Announce, AppendStep, Infer, InferFails,
                            UpdateStep, StepFails, AnnounceFailure, FailRun, diskVars, workerVars
        <4>2. pc' \in {"step", "infer", "text"} => pc \in {"step", "infer", "text"} /\ run' = run
          BY <1>2, <3>4 DEF Worker, Guard, SetStatus, Announce, AppendStep, Infer, InferFails,
                            UpdateStep, StepFails, AnnounceFailure, FailRun, Goto
        <4> QED  BY <4>1, <4>2, LogKept
      <3> QED  BY <3>1, <3>2, <3>3, <3>4
    <2> QED  BY <2>1, <2>5, <2>6
  <1> QED  BY <1>1, <1>2

LEMMA CrashStep ==
    ASSUME IInv, Crash
    PROVE  QueueInv' /\ LogInv' /\ RunInv'
  <1> USE DEF IInv
  <1>1. /\ UNCHANGED <<status, step, file, seen>> /\ queue' = <<>> /\ run' = None /\ pc' = "recv"
        /\ \A r \in Runs : create[r] = "accepted" => create'[r] = "accepted"
    BY DEF Crash, diskVars
  <1>2. \A r \in Runs : Replied(r) <=> Replied(r)'
    BY <1>1 DEF Replied
  <1>3. RunInv'
    BY <1>1, <1>2 DEF RunInv, Progress, Delivered
  <1> QED  BY <1>1, <1>2, <1>3, QueueInvKept, LogKept

LEMMA StutterStep ==
    ASSUME IInv, UNCHANGED vars
    PROVE  IInv'
  <1> USE DEF vars, diskVars, handlerVars, workerVars
  <1>1. TypeOK'
    BY DEF IInv, TypeOK, DiskTypeOK, HandlerTypeOK, WorkerTypeOK
  <1>2. QueueInv'
    BY DEF IInv, QueueInv, QueuedOnce, Untouched, Queued, Replied
  <1>3. LogInv'
    BY LogKept DEF IInv
  <1>4. RunInv'
    BY DEF IInv, RunInv, Progress, Delivered, Replied
  <1> QED  BY <1>1, <1>2, <1>3, <1>4 DEF IInv

----------------------------------------------------------------------------
(* Theorems.                                                               *)

LEMMA InitIInv == Init => IInv
  <1> SUFFICES ASSUME Init  PROVE  IInv
    OBVIOUS
  <1>1. /\ DOMAIN queue = {} /\ \A t \in Threads : DOMAIN file[t] = {}
        /\ \A r \in Runs : ThreadOf[r] \in Threads /\ r # None
    <2>1. DOMAIN <<>> = {}
      OBVIOUS
    <2> QED  BY <2>1, AssistantAssumption DEF Init, Messages
  <1>2. QueueInv
    BY <1>1 DEF Init, QueueInv, QueuedOnce, Untouched, Queued, Replied
  <1>3. LogInv
    BY <1>1 DEF Init, LogInv, OneReply, PromptCurrent, RepliesSeen
  <1>4. RunInv
    <2>1. None \notin Statuses
      BY AssistantAssumption
    <2> QED  BY <2>1 DEF Init, RunInv, Progress, Delivered, Statuses
  <1> QED  BY <1>2, <1>3, <1>4, InitType DEF IInv

LEMMA StepIInv == IInv /\ [Next]_vars => IInv'
  <1> SUFFICES ASSUME IInv, [Next]_vars  PROVE  IInv'
    OBVIOUS
  <1>1. CASE Worker
    BY <1>1, WorkerType, WorkerStep DEF IInv
  <1>2. CASE \E m \in Posts : PostText(m) \/ PostNewline(m)
    BY <1>2, HandlerType, PostStep DEF IInv
  <1>3. CASE \/ \E t \in Threads : CreateThread(t)
             \/ \E r \in Runs : RunHandler(r)
             \/ \E c \in Cancels : CancelWrite(c)
    BY <1>3, HandlerType, HandlerStep DEF IInv
  <1>4. CASE Crash
    BY <1>4, CrashType, CrashStep DEF IInv
  <1>5. CASE UNCHANGED vars
    BY <1>5, StutterStep
  <1> QED  BY <1>1, <1>2, <1>3, <1>4, <1>5 DEF Next, Quiet

(* Whatever handlers, the worker, failing writes and crashes do, the       *)
(* inductive invariant holds.                                              *)
THEOREM Invariance == Spec => []IInv
  <1> QED  BY InitIInv, StepIInv, PTL DEF Spec

(* Type correctness: every run a queue, a cancel request or the worker     *)
(* refers to has a status on disk (create_run before the send, routes.rs). *)
THEOREM TypeCorrect == Spec => []TypeOK
  <1>1. IInv => TypeOK
    BY DEF IInv
  <1> QED  BY <1>1, Invariance, PTL

(* A run that reads completed has delivered its reply once and its step    *)
(* names it, whatever is cancelled, fails or crashes (process_run appends  *)
(* the message and updates the step before it sets the status).            *)
THEOREM CompletedRunsDeliver == Spec => []CompletedDelivers
  <1>1. IInv => CompletedDelivers
    <2> SUFFICES ASSUME IInv, NEW r \in Runs, status[r] = "completed"
                 PROVE  /\ step[r] = "detailed" /\ Replied(r)
                        /\ \A i, j \in DOMAIN file[ThreadOf[r]] :
                              file[ThreadOf[r]][i] = r /\ file[ThreadOf[r]][j] = r => i = j
      BY DEF CompletedDelivers, Replied
    <2>1. ThreadOf[r] \in Threads
      BY AssistantAssumption DEF Messages
    <2>2. step[r] = "detailed" /\ Replied(r)
      BY DEF IInv, RunInv, Delivered
    <2>3. \A i, j \in DOMAIN file[ThreadOf[r]] :
             file[ThreadOf[r]][i] = r /\ file[ThreadOf[r]][j] = r => i = j
      BY <2>1 DEF IInv, LogInv, OneReply
    <2> QED  BY <2>2, <2>3
  <1> QED  BY <1>1, Invariance, PTL

(* Runs on one thread do not overlap: the prompt of a run holds every      *)
(* reply that stands before its own and can be read, although handlers     *)
(* append to the same log with no lock (list_messages, append_message).    *)
THEOREM RepliesAreSeen == Spec => []RepliesSeen
  <1>1. IInv => RepliesSeen
    BY DEF IInv, LogInv
  <1> QED  BY <1>1, Invariance, PTL
=============================================================================
