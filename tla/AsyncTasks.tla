----------------------------- MODULE AsyncTasks -----------------------------
(***************************************************************************)
(* android.os.AsyncTask as the application uses it (API level 8, the       *)
(* minSdkVersion of its manifest): one pool of threads for all tasks of    *)
(* the process, a bounded queue before it, and the main looper, which      *)
(* handles what tasks publish and return.  A task handed over when pool    *)
(* and queue are full is rejected with an exception nobody catches.        *)
(***************************************************************************)
EXTENDS Naturals, Sequences, FiniteSets

CONSTANTS CorePool,   \* threads started before tasks are queued (5)
          MaxPool,    \* threads at most (128)
          QueueSize   \* tasks the queue takes (10)

ASSUME PoolAssumption == /\ CorePool \in Nat \ {0}
                         /\ MaxPool \in Nat /\ MaxPool >= CorePool
                         /\ QueueSize \in Nat

VARIABLES queue,      \* tasks waiting for a thread
          running,    \* tasks a thread runs
          threads,    \* threads of the pool, idle ones included
          cancelled,  \* tasks cancelled before they had ended
          messages,   \* what tasks have posted to the main looper
          up          \* the process runs

taskVars == <<queue, running, threads, cancelled, messages, up>>

TasksInit == /\ queue = <<>> /\ running = {} /\ threads = 0
             /\ cancelled = {} /\ messages = <<>> /\ up = TRUE

TasksTypeOK(Tasks, Messages) ==
  /\ queue \in Seq(Tasks) /\ running \in SUBSET Tasks
  /\ threads \in 0 .. MaxPool /\ Len(queue) <= QueueSize
  /\ cancelled \in SUBSET Tasks /\ messages \in Seq(Messages) /\ up \in BOOLEAN

Queued == {queue[i] : i \in 1 .. Len(queue)}
Pending(t) == t \in running \cup Queued

\* An uncaught exception, in whatever thread, ends the process.
Dies == up' = FALSE /\ UNCHANGED <<queue, running, threads, cancelled, messages>>

StartThread(t) == /\ threads' = threads + 1
                  /\ running' = running \cup {t}
                  /\ UNCHANGED queue

\* execute(): a new thread while there are few, then the queue, then further
\* threads, then RejectedExecutionException.
Accept(t) ==
  /\ \/ threads < CorePool /\ StartThread(t)
     \/ /\ threads >= CorePool /\ Len(queue) < QueueSize
        /\ queue' = Append(queue, t)
        /\ UNCHANGED <<threads, running>>
     \/ threads >= CorePool /\ threads < MaxPool /\ Len(queue) >= QueueSize /\ StartThread(t)
  /\ UNCHANGED <<cancelled, messages, up>>

Full == threads >= MaxPool /\ Len(queue) >= QueueSize

\* On the main thread.
Execute(t) == Accept(t) \/ (Full /\ Dies)

\* An idle thread takes the next task; one cancelled in the queue does not run.
TakeTask ==
  /\ up /\ queue # <<>> /\ Cardinality(running) < threads
  /\ queue' = Tail(queue)
  /\ running' = IF Head(queue) \in cancelled THEN running ELSE running \cup {Head(queue)}
  /\ UNCHANGED <<threads, cancelled, messages, up>>

\* A thread beyond the core that found nothing to do for a while ends.
ThreadExits ==
  /\ up /\ queue = <<>> /\ threads > CorePool /\ Cardinality(running) < threads
  /\ threads' = threads - 1
  /\ UNCHANGED <<queue, running, cancelled, messages, up>>

\* cancel(true) has no effect on a task that has ended.
CancelledWith(t) == IF Pending(t) THEN cancelled \cup {t} ELSE cancelled

Cancel(t) == /\ cancelled' = CancelledWith(t)
             /\ UNCHANGED <<queue, running, threads, messages, up>>

\* publishProgress from the thread of a task.
Publish(m) == /\ messages' = Append(messages, m)
              /\ UNCHANGED <<queue, running, threads, cancelled, up>>

\* doInBackground returned: the result is posted unless the task was cancelled.
Return(t, m) ==
  /\ running' = running \ {t}
  /\ messages' = IF t \in cancelled THEN messages ELSE Append(messages, m)
  /\ UNCHANGED <<queue, threads, cancelled, up>>

\* It returned, and nothing is done with its result.
ReturnSilently(t) == /\ running' = running \ {t}
                     /\ UNCHANGED <<queue, threads, cancelled, messages, up>>

\* An exception left doInBackground: it is thrown again in the thread, unless
\* the task was cancelled.
Throws(t) == IF t \in cancelled THEN ReturnSilently(t) ELSE Dies

Pool == TakeTask \/ ThreadExits
=============================================================================
