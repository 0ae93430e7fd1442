-------------------------- MODULE AsyncTasks_proofs --------------------------
(***************************************************************************)
(* What the operations of the AsyncTask pool do to its types and to the    *)
(* tasks that are pending; used by the proofs about the two components     *)
(* that hand tasks to the pool.                                            *)
(***************************************************************************)
EXTENDS AsyncTasks, TLAPS

\* The tasks in the queue, when one is added and when the first is taken.
LEMMA QueuedAppend ==
  ASSUME NEW Tasks, queue \in Seq(Tasks), NEW t \in Tasks, queue' = Append(queue, t)
  PROVE  Queued' = Queued \cup {t}
<1>1. /\ Len(queue') = Len(queue) + 1 /\ Len(queue) \in Nat
      /\ \A i \in 1 .. Len(queue) : queue'[i] = queue[i]
      /\ queue'[Len(queue) + 1] = t
  OBVIOUS
<1>2. ASSUME NEW x \in Queued' PROVE x \in Queued \cup {t}
  <2>1. PICK i \in 1 .. Len(queue) + 1 : x = queue'[i]
    BY <1>1, <1>2 DEF Queued
  <2> QED
    BY <1>1, <2>1 DEF Queued
<1>3. ASSUME NEW x \in Queued PROVE x \in Queued'
  <2>1. PICK i \in 1 .. Len(queue) : x = queue[i]
    BY <1>3 DEF Queued
  <2> QED
    BY <1>1, <2>1 DEF Queued
<1>4. t \in Queued'
  BY <1>1 DEF Queued
<1> QED
  BY <1>2, <1>3, <1>4

LEMMA QueuedTail ==
  ASSUME NEW Tasks, queue \in Seq(Tasks), queue # <<>>, queue' = Tail(queue)
  PROVE  /\ Queued' \subseteq Queued
         /\ Head(queue) \in Queued /\ Head(queue) \in Tasks
         /\ queue' \in Seq(Tasks) /\ Len(queue') = Len(queue) - 1
<1>1. /\ Len(queue) \in Nat /\ Len(queue) > 0 /\ Len(queue') = Len(queue) - 1
      /\ \A i \in 1 .. Len(queue) - 1 : queue'[i] = queue[i + 1]
      /\ Head(queue) = queue[1] /\ queue[1] \in Tasks /\ queue' \in Seq(Tasks)
  OBVIOUS
<1>2. ASSUME NEW x \in Queued' PROVE x \in Queued
  <2>1. PICK i \in 1 .. Len(queue) - 1 : x = queue'[i]
    BY <1>1, <1>2 DEF Queued
  <2> QED
    BY <1>1, <2>1 DEF Queued
<1> QED
  BY <1>1, <1>2 DEF Queued

\* Handing over a task: it is pending, and nothing else changes.
LEMMA AcceptEffect ==
  ASSUME NEW Tasks, NEW Messages, TasksTypeOK(Tasks, Messages), NEW t \in Tasks, Accept(t)
  PROVE  /\ TasksTypeOK(Tasks, Messages)'
         /\ \A x : Pending(x)' <=> Pending(x) \/ x = t
         /\ running \subseteq running'
         /\ UNCHANGED <<cancelled, messages, up>>
<1>1. CASE StartThread(t) /\ threads < MaxPool
  BY <1>1, PoolAssumption DEF Accept, StartThread, TasksTypeOK, Pending, Queued
<1>2. CASE queue' = Append(queue, t) /\ Len(queue) < QueueSize /\ UNCHANGED <<threads, running>>
  <2>1. Queued' = Queued \cup {t}
    BY <1>2, QueuedAppend DEF TasksTypeOK
  <2>2. queue' \in Seq(Tasks) /\ Len(queue') <= QueueSize
    BY <1>2, PoolAssumption DEF TasksTypeOK
  <2> QED
    BY <1>2, <2>1, <2>2 DEF Accept, TasksTypeOK, Pending
<1>3. threads < CorePool => threads < MaxPool
  BY PoolAssumption DEF TasksTypeOK
<1> QED
  BY <1>1, <1>2, <1>3 DEF Accept

\* A death leaves everything as it is, but for the process.
LEMMA DiesEffect ==
  ASSUME NEW Tasks, NEW Messages, TasksTypeOK(Tasks, Messages), Dies
  PROVE  /\ TasksTypeOK(Tasks, Messages)'
         /\ \A x : Pending(x)' <=> Pending(x)
         /\ ~up' /\ UNCHANGED <<queue, running, threads, cancelled, messages>>
BY DEF Dies, TasksTypeOK, Pending, Queued

\* Cancelling a task: only a pending one can be added to the cancelled.
LEMMA CancelEffect ==
  ASSUME NEW Tasks, NEW Messages, TasksTypeOK(Tasks, Messages), NEW t
  PROVE  /\ CancelledWith(t) \in SUBSET Tasks
         /\ cancelled \subseteq CancelledWith(t) /\ CancelledWith(t) \subseteq cancelled \cup {t}
         /\ Pending(t) => t \in CancelledWith(t)
<1>1. ASSUME Pending(t) PROVE t \in Tasks
  BY <1>1 DEF TasksTypeOK, Pending, Queued
<1> QED
  BY <1>1 DEF CancelledWith, TasksTypeOK

\* The end of a task, and what it posts.
LEMMA ReturnSilentlyEffect ==
  ASSUME NEW Tasks, NEW Messages, TasksTypeOK(Tasks, Messages), NEW t, ReturnSilently(t)
  PROVE  /\ TasksTypeOK(Tasks, Messages)'
         /\ \A x : Pending(x)' => Pending(x)
         /\ UNCHANGED <<queue, threads, cancelled, messages, up>>
BY DEF ReturnSilently, TasksTypeOK, Pending, Queued

LEMMA ReturnEffect ==
  ASSUME NEW Tasks, NEW Messages, TasksTypeOK(Tasks, Messages), NEW t, NEW m \in Messages,
         Return(t, m)
  PROVE  /\ TasksTypeOK(Tasks, Messages)'
         /\ \A x : Pending(x)' => Pending(x)
         /\ UNCHANGED <<queue, threads, cancelled, up>>
<1>1. messages' \in Seq(Messages)
  <2>1. messages \in Seq(Messages) /\ Append(messages, m) \in Seq(Messages)
    BY DEF TasksTypeOK
  <2> QED
    BY <2>1 DEF Return
<1> QED
  BY <1>1 DEF Return, TasksTypeOK, Pending, Queued

LEMMA PublishEffect ==
  ASSUME NEW Tasks, NEW Messages, TasksTypeOK(Tasks, Messages), NEW m \in Messages, Publish(m)
  PROVE  /\ TasksTypeOK(Tasks, Messages)'
         /\ \A x : Pending(x)' <=> Pending(x)
         /\ UNCHANGED <<queue, running, threads, cancelled, up>>
BY DEF Publish, TasksTypeOK, Pending, Queued

\* The threads of the pool only take tasks that were handed over.
LEMMA PoolEffect ==
  ASSUME NEW Tasks, NEW Messages, TasksTypeOK(Tasks, Messages), Pool
  PROVE  /\ TasksTypeOK(Tasks, Messages)'
         /\ \A x : Pending(x)' => Pending(x)
         /\ UNCHANGED <<cancelled, messages, up>>
<1>1. CASE TakeTask
  <2>1. /\ Queued' \subseteq Queued /\ Head(queue) \in Queued /\ Head(queue) \in Tasks
        /\ queue' \in Seq(Tasks) /\ Len(queue') = Len(queue) - 1
    BY <1>1, QueuedTail DEF TakeTask, TasksTypeOK
  <2>2. running \subseteq running' /\ running' \subseteq running \cup {Head(queue)}
    BY <1>1 DEF TakeTask
  <2>3. Len(queue) \in Nat /\ Len(queue) <= QueueSize
    BY DEF TasksTypeOK
  <2>4. Len(queue') <= QueueSize
    BY <2>1, <2>3, PoolAssumption
  <2> QED
    BY <1>1, <2>1, <2>2, <2>4 DEF TakeTask, TasksTypeOK, Pending
<1>2. CASE ThreadExits
  BY <1>2, PoolAssumption DEF ThreadExits, TasksTypeOK, Pending, Queued
<1> QED
  BY <1>1, <1>2 DEF Pool
=============================================================================
