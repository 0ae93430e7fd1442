----------------------------- MODULE ScanSession -----------------------------
(***************************************************************************)
(* The nmap front end as a whole: the activities, the ScanService they     *)
(* bind to, the Runnables of its thread pool, and the activity manager     *)
(* between them.                                                           *)
(***************************************************************************)
EXTENDS ScanService, ScanClient

vars == <<commVars, androidVars, workerVars, serviceVars, clientVars>>

Init == CommInit /\ AndroidInit /\ NmapInit /\ ScanServiceInit /\ ClientInit

LifeCycle ==
  /\ OnCreate \/ OnBind \/ OnUnbind \/ OnDestroy \/ ProcessLost
  /\ UNCHANGED clientVars

HandleMessage ==
  /\ \/ \E c \in Clients : \/ RqstScanId(c) \/ RqstStartScan(c)
                           \/ RqstStopScan(c) \/ RqstResults(c)
     \/ \E s \in Services : NotifyRootAccess(s) \/ NotifyNativeSetup(s)
     \/ \E id \in ScanIds : NotifyScanFinished(id) \/ NotifyScanProblem(id)
  /\ UNCHANGED clientVars

Pool ==
  /\ \/ \E s \in Services : AcquireRoot(s) \/ SetupNative(s)
     \/ \E id \in ScanIds : RunNmap(id)
  /\ UNCHANGED <<androidVars, serviceVars, clientVars>>

Activity(c) ==
  /\ \/ OnActivityCreate(c) \/ OnActivityDestroy(c) \/ ActivityDies(c)
     \/ OnServiceConnected(c) \/ OnServiceDisconnected(c)
     \/ StartScan(c) \/ StopScan(c) \/ GetScanResults(c)
     \/ RespScanIdOk(c) \/ RespStartScanOk(c) \/ RespStopScanOk(c)
     \/ NotifiedScanFinished(c) \/ ShownToUser(c)
  /\ UNCHANGED serviceVars

Next == LifeCycle \/ HandleMessage \/ Pool \/ \E c \in Clients : Activity(c)

Spec == Init /\ [][Next]_vars

TypeOK == /\ CommTypeOK
          /\ AndroidTypeOK(Clients)
          /\ NmapTypeOK
          /\ ScanTypeOK
          /\ ClientTypeOK

-----------------------------------------------------------------------------
(***************************************************************************)
(* Safety.                                                                 *)
(***************************************************************************)

\* A request for an id that was not answered is remembered: the flag that makes
\* the end of the setup answer it is set, and that end is still to come
\* (RQST_SCAN_ID, NOTIFY_ROOT_ACCESS and NOTIFY_NATIVE_SETUP of the handler).
NoForgottenRequest ==
  \A id \in ScanIds : InMap(id) /\ hist[id].told = "no" =>
                        pending_RQST_SCAN_ID[owner[id]] /\ ~SetUp(owner[id])

\* However requests, answers and the end of the setup interleave, whatever process
\* died in between, and whether the service was created again in another process
\* or beside a former one whose Runnables still read, no Runnable scans before the
\* service object that started it knows its root access, and none scans with
\* another access than that object has (Scan.start copies rootAccess).
NoEarlyStart ==
  \A id \in ScanIds : Alive(id) => /\ SetUp(owner[id])
                                   /\ worker[id].root = rootAccess[owner[id]]

\* A scan that runs and was not stopped has a started Scan object, so that its
\* activity can stop it and onUnbind keeps the service for it
\* (RQST_STOP_SCAN, RQST_RESULTS, onDestroy).
EveryRunIsKnown ==
  \A id \in ScanIds : Alive(id) /\ ~worker[id].interrupted =>
                        InMap(id) /\ scans[id].started /\ ~scans[id].finished

\* Results for which the Scan object was removed were all of the results: the
\* Runnable had read to the end, and nothing it read was left behind
\* (RQST_RESULTS, "if the scan is finished").
CompleteResults ==
  \A id \in ScanIds : hist[id].left = "collected" =>
                        worker[id].pc = "done" /\ hist[id].delivered = worker[id].out

\* The service only hears of a scan that is not in its map when that scan was
\* stopped: the Runnable of a scan whose results were collected, or that had an
\* I/O failure, has nothing more to say (NOTIFY_SCAN_FINISHED, NOTIFY_SCAN_PROBLEM).
UnknownWasStopped ==
  \A id \in ScanIds : mq[id] # <<>> /\ ~InMap(id) => hist[id].left \in {"stopped", "cleared"}

\* A Runnable was made for the scan of this id, with these arguments.
RunsWith(id, args) == id \in ScanIds /\ worker[id].pc # "idle" /\ worker[id].args = args

\* While an activity has started one scan, what its scan field says is so: the id
\* is that of a scan the service did start, with the arguments it was given
\* (RESP_SCAN_ID_OK and RESP_START_SCAN_OK of IncomingHandler).
ScanFieldIsTrue ==
  \A c \in Clients :
    scan[c].started /\ starts[c] = 1 => RunsWith(scan[c].id, scan[c].args)

(***************************************************************************)
(* The inductive invariant behind the safety properties.                   *)
(***************************************************************************)

\* Without a process there is nothing of it: no scans, threads or messages.
DownIsEmpty ==
  svc = "down" =>
    /\ hosted = {} /\ MapIds = {}
    /\ mq = [s \in Senders |-> <<>>]
    /\ \A id \in ScanIds : ~Alive(id)

\* A service object that is not there, for its process died or it is still to be
\* created, has nothing set up and no Runnable that does.
AbsentIsIdle ==
  /\ hosted \subseteq 1..incarnation
  /\ \A s \in Services \ hosted :
       /\ ~rootAcqisitionFinished[s]
       /\ rootTask[s] = "idle" /\ setupTask[s] = "idle"
       /\ mq[Root(s)] = <<>>

\* Root access is acquired, and notified, once in the life of a service object.
RootNotifiedOnce ==
  \A s \in Services :
    /\ rootAcqisitionFinished[s] => rootTask[s] # "running" /\ mq[Root(s)] = <<>>
    /\ rootTask[s] = "running" => mq[Root(s)] = <<>>
    /\ Len(mq[Root(s)]) <= 1

\* The flag is only up while the setup goes on, and ids are granted after it.
GrantedWhenSetUp ==
  /\ \A s \in Services : pending_RQST_SCAN_ID[s] => ~SetUp(s)
  /\ \A id \in ScanIds : InMap(id) /\ hist[id].told = "ok" => SetUp(owner[id])

\* An id that was not given out is unknown everywhere.
UnaskedIsUnused ==
  \A id \in ScanIds : hist[id].asked = 0 =>
    /\ ~InMap(id) /\ hist[id].left = "no" /\ worker[id].pc = "idle"

\* Requests for ids are numbered from 1.
RequestsNumbered ==
  \A c \in Clients : \A m \in Range(mq[c]) : m.what = "RQST_SCAN_ID" => m.arg # 0

\* Messages that carry a granted id: it was given out, and is still granted if
\* its Scan object exists.
GrantHolds(id) == id \in ScanIds /\ hist[id].asked # 0 /\ (InMap(id) => hist[id].told = "ok")

GrantsHold ==
  \A c \in Clients :
    /\ \A m \in Range(mq[c]) : m.what = "RQST_START_SCAN" => GrantHolds(m.id)
    /\ \A m \in Range(cq[c]) : m.what = "RESP_SCAN_ID_OK" => GrantHolds(m.id)

\* A Scan object that was not started has no Runnable, one that left the map has
\* none to come, and the end of a Runnable is announced when it has ended.
WorkersFollowScans ==
  \A id \in ScanIds :
    /\ InMap(id) /\ ~scans[id].started => worker[id].pc = "idle"
    /\ hist[id].left # "no" => ~InMap(id)
    /\ scans[id].finished => worker[id].pc = "done"
    /\ worker[id].pc = "idle" => mq[id] = <<>>
    /\ Alive(id) => \A m \in Range(mq[id]) : m.what # "NOTIFY_SCAN_FINISHED"

IInv == /\ TypeOK
        /\ DownIsEmpty /\ AbsentIsIdle /\ RootNotifiedOnce /\ GrantedWhenSetUp
        /\ UnaskedIsUnused /\ RequestsNumbered /\ GrantsHold /\ WorkersFollowScans
        /\ NoForgottenRequest /\ NoEarlyStart /\ EveryRunIsKnown /\ CompleteResults

\* A Scan object that was put in the map stays until one of the events that
\* remove it.
KeptUntilLeft ==
  \A id \in ScanIds : hist[id].asked # 0 /\ hist[id].left = "no" => InMap(id)

\* Only granted scans are started.
StartedIsGranted ==
  \A id \in ScanIds : InMap(id) /\ scans[id].started => hist[id].told = "ok"

\* The flag is only up for a scan that waits.
PendingIsWaitedFor ==
  \A s \in Services :
    pending_RQST_SCAN_ID[s] => \E id \in MapOf(s) : hist[id].told = "no"

\* A Runnable is interrupted when its Scan object is removed, and has read nothing
\* before it was submitted.
InterruptedHasLeft ==
  \A id \in ScanIds :
    /\ Alive(id) /\ worker[id].interrupted => hist[id].left \in {"stopped", "cleared"}
    /\ worker[id].pc = "idle" => worker[id].out = 0

\* The end of a scan is the last the service hears of it.
EndIsLast ==
  \A id \in ScanIds :
    /\ \A i \in 1..Len(mq[id]) : mq[id][i].what = "NOTIFY_SCAN_FINISHED" => i = Len(mq[id])
    /\ scans[id].finished => mq[id] = <<>>

\* What the life cycle of scans needs beyond IInv.
LifeInv == /\ KeptUntilLeft /\ StartedIsGranted /\ PendingIsWaitedFor
           /\ InterruptedHasLeft /\ EndIsLast /\ UnknownWasStopped

(***************************************************************************)
(* The inductive invariant behind ScanFieldIsTrue: the path of the one     *)
(* scan of an activity, through the messages about it.                     *)
(***************************************************************************)
Among(q, kinds) == {m \in Range(q) : m.what \in kinds}

AtMostOnce(q, what) ==
  \A i, j \in 1..Len(q) : q[i].what = what /\ q[j].what = what => i = j

IdsIn(q, kinds) == {m.id : m \in Among(q, kinds)}

\* The ids an activity has, or will have, something to do with.
IdsOf(c) == {id \in ScanIds : InMap(id) /\ scans[id].client = c}
              \cup IdsIn(mq[c], {"RQST_START_SCAN", "RQST_STOP_SCAN"})
              \cup IdsIn(cq[c], {"RESP_SCAN_ID_OK", "RESP_START_SCAN_OK", "RESP_STOP_SCAN_OK"})
              \cup ({scan[c].id} \ {NoId})

\* One call of startScan leads to one id, and to none before the service has
\* taken its request.
OneId(c) ==
  /\ \A i, j \in IdsOf(c) : i = j
  /\ starts[c] = 0 => mq[c] = <<>> /\ IdsOf(c) = {}
  /\ Among(mq[c], {"RQST_SCAN_ID"}) # {} => Len(mq[c]) = 1 /\ IdsOf(c) = {}

\* A scan that is still to be started will be, with the arguments in the field.
StartsAsAsked(c) ==
  c \notin gone =>
    \A m \in Among(mq[c], {"RQST_START_SCAN"}) :
      worker[m.id].pc = "idle" => m.id = scan[c].id /\ m.arg = scan[c].args

\* The start is confirmed once, to a field that has its id and arguments.
ConfirmedOnce(c) ==
  /\ \A m \in Among(cq[c], {"RESP_START_SCAN_OK"}) :
       m.id = scan[c].id /\ RunsWith(m.id, scan[c].args)
  /\ AtMostOnce(cq[c], "RESP_START_SCAN_OK")

\* The ids of what is being stopped.
Stopping(c) == IdsIn(mq[c], {"RQST_STOP_SCAN"}) \cup IdsIn(cq[c], {"RESP_STOP_SCAN_OK"})

\* Only a scan whose start was confirmed is stopped, and the confirmation is then
\* no longer on its way.
StopsWhatStarted(c) ==
  /\ \A id \in Stopping(c) : id \in ScanIds /\ worker[id].pc # "idle"
  /\ scan[c].started \/ Stopping(c) # {} => Among(cq[c], {"RESP_START_SCAN_OK"}) = {}

FieldOf(c) == /\ OneId(c) /\ StartsAsAsked(c) /\ ConfirmedOnce(c) /\ StopsWhatStarted(c)
              /\ scan[c].started => RunsWith(scan[c].id, scan[c].args)

\* It holds of each activity until that activity starts a second scan.
FieldInv == \A c \in Clients : starts[c] <= 1 => FieldOf(c)

(***************************************************************************)
(* Fairness: the main threads of the processes dispatch their messages and *)
(* callbacks, the pool threads run, and nmap terminates.  Nothing is       *)
(* assumed of the user, of su, which may ask the user, or of the setup.    *)
(***************************************************************************)
Dispatch(x) ==
  /\ \/ /\ x \in Clients
        /\ RqstScanId(x) \/ RqstStartScan(x) \/ RqstStopScan(x) \/ RqstResults(x)
     \/ x \in ScanIds /\ (NotifyScanFinished(x) \/ NotifyScanProblem(x))
     \/ \E s \in Services : \/ x = Root(s) /\ NotifyRootAccess(s)
                            \/ x = Setup(s) /\ NotifyNativeSetup(s)
  /\ UNCHANGED clientVars

ActivityHandles(c) ==
  /\ \/ RespScanIdOk(c) \/ RespStartScanOk(c) \/ RespStopScanOk(c)
     \/ NotifiedScanFinished(c) \/ ShownToUser(c)
  /\ UNCHANGED serviceVars

Fairness ==
  /\ \A x \in Senders : WF_vars(Dispatch(x))
  /\ WF_vars(OnBind /\ UNCHANGED clientVars)
  /\ WF_vars(OnUnbind /\ UNCHANGED clientVars)
  /\ WF_vars(OnDestroy /\ UNCHANGED clientVars)
  /\ \A c \in Clients : WF_vars(ActivityHandles(c))
  /\ \A id \in ScanIds :
       WF_vars(RunNmap(id) /\ UNCHANGED <<androidVars, serviceVars, clientVars>>)

FairSpec == Spec /\ Fairness

(***************************************************************************)
(* Liveness.                                                               *)
(***************************************************************************)

\* Once root acquisition and native setup have ended, every scan in the map is
\* answered, or its service goes away.
AnsweredOnceSetUp ==
  \A id \in ScanIds :
    (InMap(id) /\ rootTask[owner[id]] = "done" /\ setupTask[owner[id]] \in {"done", "idle"})
       ~> (~InMap(id) \/ hist[id].told # "no")

\* A scan that runs in a service nothing has stopped yet.
RunsInStarted(id) ==
  InMap(id) /\ scans[id].started /\ owner[id] = incarnation /\ isStarted

\* A scan of an activity that starts one scan and lives, or was destroyed and is
\* only its Handler, ends, and is collected: its activity is told and its results
\* are handed over.  The exception is a scan that was started after the collection
\* of another had called stopSelf (isStarted is FALSE then): onDestroy may
\* interrupt it (RQST_RESULTS, "if(scans.size()==0) stopSelf()").
StartedIsCollected ==
  \A id \in ScanIds : RunsInStarted(id) ~> (hist[id].left = "collected")

AllDestroyed == \A c \in Clients : life[c] = "destroyed"

\* A service nobody is bound to any more stops, be it by the null pointer of
\* onDestroy; and a scan that runs in it is collected first, unless an earlier
\* collection had called stopSelf (onUnbind, RQST_RESULTS, stopSelf).
ServiceStops ==
  /\ AllDestroyed ~> svc # "up"
  /\ \A id \in ScanIds :
       (AllDestroyed /\ RunsInStarted(id)) ~> (svc # "up" /\ hist[id].left = "collected")

-----------------------------------------------------------------------------
(***************************************************************************)
(* What comments of the code say of it, and the code does not do.          *)
(***************************************************************************)

\* "No native, no scanning service" (ScanService, NATIVE_SETUP_FAIL): nmap is
\* not run on a device where its binaries could not be installed.
NoNativeNoScanning == \A id \in ScanIds : Alive(id) => nativeFiles

\* "manage abrupt stopping" (NmapScanServiceRunnable.run): a running service
\* survives that a scan is stopped while its Runnable blocks in a read.
StoppingIsManaged ==
  [][svc = "up" /\ svc' = "down" => cause' # "NOTIFY_SCAN_FINISHED"]_vars

-----------------------------------------------------------------------------
(***************************************************************************)
(* The session implements the life cycle of scans.                         *)
(***************************************************************************)
LifeOf(id) ==
  IF hist[id].asked = 0 THEN "free"
  ELSE IF ~InMap(id) THEN hist[id].left
  ELSE IF scans[id].finished THEN "finished"
  ELSE IF scans[id].started THEN "running"
  ELSE CASE hist[id].told = "ok"  -> "granted"
         [] hist[id].told = "err" -> "refused"
         [] OTHER                 -> "waiting"

Lifecycle == INSTANCE ScanLifecycle WITH
  Ids   <- ScanIds,
  Hosts <- Services,
  ready <- [s \in Services |-> SetUp(s)],
  of    <- owner,
  st    <- [id \in ScanIds |-> LifeOf(id)],
  out   <- [id \in ScanIds |-> worker[id].out],
  got   <- [id \in ScanIds |-> hist[id].delivered]

\* The messages, Runnables, process deaths and restarts of the session show each
\* scan the life ScanLifecycle promises.
LifecycleSpec == Lifecycle!Spec
=============================================================================
