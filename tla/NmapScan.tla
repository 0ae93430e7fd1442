------------------------------ MODULE NmapScan -------------------------------
(***************************************************************************)
(* The Runnables ScanService hands to its thread pool:                     *)
(* NmapScanServiceRunnable, one per started scan, which runs nmap in a     *)
(* shell and copies its output to the scan's StringBuffer;                 *)
(* RootAcquisitionRunnable and SetupNativeRunnable, once per service       *)
(* object.  The pool is static: a service object that was destroyed leaves *)
(* its Runnables to the process.                                           *)
(*                                                                         *)
(* The output is abstracted to the number of chunks read so far.           *)
(***************************************************************************)
EXTENDS ScanCommunication

VARIABLES
  worker,       \* the Runnable, thread and nmap process of each scan
  owner,        \* owner[id]: the service object that gave out id (any before that);
                \* the Runnable of a scan posts to the Handler of its owner
  rootTask,     \* rootTask[s]: the RootAcquisitionRunnable of service object s
  setupTask,    \* setupTask[s]: its SetupNativeRunnable
  nativeFiles   \* the nmap binaries are installed, and executable

workerVars == <<worker, owner, rootTask, setupTask, nativeFiles>>

TaskState == {"idle", "running", "done"}

(***************************************************************************)
(* pc           "idle" before the submit, "queued" until a pool thread     *)
(*              takes the Runnable, "reading" nmap's output, "done"        *)
(* interrupted  Future.cancel(true) was called on it                       *)
(* killed       its nmap was killed before it ended by itself              *)
(* args         which startScan its arguments are of, 0 for null           *)
(* root         the hasRoot argument of its constructor                    *)
(* out          scanResults                                                *)
(***************************************************************************)
Worker == [pc : {"idle", "queued", "reading", "done"}, interrupted : BOOLEAN,
           killed : BOOLEAN, args : 0..MaxStarts, root : BOOLEAN, out : 0..MaxOut]

NmapTypeOK == /\ worker \in [ScanIds -> Worker]
              /\ owner \in [ScanIds -> Services]
              /\ rootTask \in [Services -> TaskState]
              /\ setupTask \in [Services -> TaskState]
              /\ nativeFiles \in BOOLEAN

NoWorker == [pc |-> "idle", interrupted |-> FALSE, killed |-> FALSE,
             args |-> 0, root |-> FALSE, out |-> 0]

NmapInit == /\ worker = [id \in ScanIds |-> NoWorker]
            /\ owner = [id \in ScanIds |-> 1]
            /\ rootTask = [s \in Services |-> "idle"]
            /\ setupTask = [s \in Services |-> "idle"]
            /\ nativeFiles = FALSE

Alive(id) == worker[id].pc \in {"queued", "reading"}

(***************************************************************************)
(* What the service does to the pool.                                      *)
(***************************************************************************)
Submit(id, args, root) ==
  worker' = [worker EXCEPT ![id] = [pc |-> "queued", interrupted |-> FALSE, killed |-> FALSE,
                                    args |-> args, root |-> root, out |-> 0]]

\* Future.cancel(true): a Runnable no thread has taken never runs; a running
\* one only has its interrupt flag set, for it blocks in uninterruptible I/O.
Cancelled(w) ==
  CASE w.pc = "queued"  -> [w EXCEPT !.pc = "done", !.interrupted = TRUE]
    [] w.pc = "reading" -> [w EXCEPT !.interrupted = TRUE]
    [] OTHER            -> w

\* Mutant of Cancel: the Scan object goes, its Runnable is not interrupted.
CancelNothing(ids) == UNCHANGED worker

Cancel(ids) == worker' = [id \in ScanIds |-> IF id \in ids THEN Cancelled(worker[id])
                                             ELSE worker[id]]

\* The threads die with their process.
PoolDies ==
  /\ worker' = [id \in ScanIds |-> IF Alive(id) THEN [worker[id] EXCEPT !.pc = "done"]
                                   ELSE worker[id]]
  /\ rootTask' = [s \in Services |-> "idle"]
  /\ setupTask' = [s \in Services |-> "idle"]
  /\ UNCHANGED <<owner, nativeFiles>>

(***************************************************************************)
(* NmapScanServiceRunnable.run.                                            *)
(***************************************************************************)
Post(sender, s, what, id, arg) ==
  mq' = [mq EXCEPT ![sender] = Append(@, MsgTo(s, what, id, arg))]

TellService(id, what) == Post(id, owner[id], what, id, 0)

RunTo(id, pc) == worker' = [worker EXCEPT ![id].pc = pc]

\* "catch (IOException e)": a thread that was interrupted destroys its process,
\* another one reports the problem.
ReportUnlessInterrupted(id) ==
  IF worker[id].interrupted THEN UNCHANGED mq
  ELSE TellService(id, "NOTIFY_SCAN_PROBLEM")

\* null arguments: the Runnable logs an error and returns.
RunWithoutArguments(id) ==
  /\ worker[id].pc = "queued" /\ worker[id].args = 0
  /\ RunTo(id, "done")
  /\ UNCHANGED mq

\* The shell could not be executed.
ExecFails(id) ==
  /\ "io" \in Failures
  /\ worker[id].pc = "queued" /\ worker[id].args # 0
  /\ RunTo(id, "done")
  /\ ReportUnlessInterrupted(id)

\* The shell runs and was told to change to nmap's directory and run the scan.
ExecScan(id) ==
  /\ worker[id].pc = "queued" /\ worker[id].args # 0
  /\ RunTo(id, "reading")
  /\ UNCHANGED mq

\* Writing the commands failed: nmap never ran, but the loop that reads its
\* output is entered all the same.
WriteFails(id) ==
  /\ "io" \in Failures
  /\ worker[id].pc = "queued" /\ worker[id].args # 0
  /\ worker' = [worker EXCEPT ![id].pc = "reading", ![id].killed = TRUE]
  /\ ReportUnlessInterrupted(id)

\* Mutant of ReadChunk: one chunk more than the output has.
ReadChunkTooMany(id) ==
  /\ worker[id].pc = "reading" /\ ~worker[id].killed /\ worker[id].out <= MaxOut
  /\ worker' = [worker EXCEPT ![id].out = @ + 1]
  /\ UNCHANGED mq

ReadChunk(id) ==
  /\ worker[id].pc = "reading" /\ ~worker[id].killed /\ worker[id].out < MaxOut
  /\ worker' = [worker EXCEPT ![id].out = @ + 1]
  /\ UNCHANGED mq

\* Mutant of ReadEnd: the service is told before the output was read.
ReadEndToldEarly(id) ==
  /\ worker[id].pc = "reading" /\ mq[id] = <<>>
  /\ TellService(id, "NOTIFY_SCAN_FINISHED")
  /\ UNCHANGED worker

\* End of the output: interrupted or not, the service is told.
ReadEnd(id) ==
  /\ worker[id].pc = "reading"
  /\ RunTo(id, "done")
  /\ TellService(id, "NOTIFY_SCAN_FINISHED")

ReadFails(id) ==
  /\ "io" \in Failures
  /\ worker[id].pc = "reading"
  /\ RunTo(id, "done")
  /\ ReportUnlessInterrupted(id)

RunNmap(id) ==
  /\ \/ RunWithoutArguments(id) \/ ExecFails(id) \/ ExecScan(id) \/ WriteFails(id)
     \/ ReadChunk(id) \/ ReadEnd(id) \/ ReadFails(id)
  /\ UNCHANGED <<owner, rootTask, setupTask, nativeFiles, cq, gone>>

(***************************************************************************)
(* The two setup Runnables: the user, or the su binary, refuses root (0)   *)
(* or grants it (1); the archive of binaries could not be copied,          *)
(* unzipped or made executable (0) or was installed (1).                   *)
(***************************************************************************)
AcquireRoot(s) ==
  /\ rootTask[s] = "running"
  /\ rootTask' = [rootTask EXCEPT ![s] = "done"]
  /\ \E root \in 0..1 : Post(Root(s), s, "NOTIFY_ROOT_ACCESS", NoId, root)
  /\ UNCHANGED <<worker, owner, setupTask, nativeFiles, cq, gone>>

NATIVE_SETUP_FAIL == 0
NATIVE_SETUP_SUCCESS == 1

SetupNative(s) ==
  /\ setupTask[s] = "running"
  /\ setupTask' = [setupTask EXCEPT ![s] = "done"]
  /\ \E status \in {NATIVE_SETUP_FAIL, NATIVE_SETUP_SUCCESS} :
       /\ Post(Setup(s), s, "NOTIFY_NATIVE_SETUP", NoId, status)
       /\ nativeFiles' = (nativeFiles \/ status = NATIVE_SETUP_SUCCESS)
  /\ UNCHANGED <<worker, owner, rootTask, cq, gone>>

(***************************************************************************)
(* shellUtils.killProcess("./nmap"), called in an activity: the first      *)
(* process of that name that ps lists is killed, whichever scan it is of,  *)
(* or none when ps lists none or su is refused.                            *)
(***************************************************************************)
KillProcess ==
  \/ UNCHANGED worker
  \/ \E id \in ScanIds : /\ worker[id].pc = "reading" /\ ~worker[id].killed
                         /\ worker' = [worker EXCEPT ![id].killed = TRUE]
=============================================================================
