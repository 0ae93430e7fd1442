----------------------------- MODULE ScanService -----------------------------
(***************************************************************************)
(* service/ScanService.java: the Android service that runs the nmap scans  *)
(* of all activities.  Everything here runs on the main thread of the      *)
(* service's process: the life-cycle callbacks, of the last service object *)
(* created, and one action per message of ScanServiceHandler.handleMessage,*)
(* which former service objects of the process handle as well.             *)
(*                                                                         *)
(* An uncaught exception (a null pointer) ends the process.                *)
(***************************************************************************)
EXTENDS AndroidService, NmapScan

VARIABLES
  scans,                    \* the Scan objects by id, each in the HashMap of owner[id]
  rootAccess,               \* this and the next three: a field of each service object
  rootAcqisitionFinished,
  nativeInstalled,
  pending_RQST_SCAN_ID,
  nativePref,               \* "nativeInstalled" in the preferences file "native"
  hist                      \* history of each id, for the properties only

serviceVars == <<scans, rootAccess, rootAcqisitionFinished, nativeInstalled,
                 pending_RQST_SCAN_ID, nativePref, hist>>

\* No Scan object.
NoScan == [client |-> NoId, started |-> FALSE, finished |-> FALSE]

Scan(c) == [client |-> c, started |-> FALSE, finished |-> FALSE]

InMap(id) == scans[id] # NoScan

MapIds == {id \in ScanIds : InMap(id)}

\* The keys of the HashMap of service object s.
MapOf(s) == {id \in MapIds : owner[id] = s}

\* asked      which startScan of its activity got this id, 0 while it is unused
\* told       the last answer to that RQST_SCAN_ID
\* left       how its Scan object left the map
\* delivered  the chunks in the last RESP_RESULTS_OK
History == [asked : 0..MaxStarts, told : {"no", "ok", "err"},
            left : {"no", "stopped", "collected", "cleared", "died"},
            delivered : 0..MaxOut]

NoHistory == [asked |-> 0, told |-> "no", left |-> "no", delivered |-> 0]

ScanTypeOK ==
  /\ scans \in [ScanIds -> {NoScan} \cup
                [client : Clients, started : BOOLEAN, finished : BOOLEAN]]
  /\ rootAccess \in [Services -> BOOLEAN]
  /\ rootAcqisitionFinished \in [Services -> BOOLEAN]
  /\ nativeInstalled \in [Services -> BOOLEAN]
  /\ pending_RQST_SCAN_ID \in [Services -> BOOLEAN]
  /\ nativePref \in BOOLEAN
  /\ hist \in [ScanIds -> History]

\* A field of each service object before anything sets it.
AllFalse == [s \in Services |-> FALSE]

ScanServiceInit ==
  /\ scans = [id \in ScanIds |-> NoScan]
  /\ rootAccess = AllFalse
  /\ rootAcqisitionFinished = AllFalse
  /\ nativeInstalled = AllFalse
  /\ pending_RQST_SCAN_ID = AllFalse
  /\ nativePref = FALSE
  /\ hist = [id \in ScanIds |-> NoHistory]

\* The Scan objects of ids leave the map.
Leave(ids, how) ==
  /\ scans' = [id \in ScanIds |-> IF id \in ids THEN NoScan ELSE scans[id]]
  /\ hist' = [id \in ScanIds |-> IF id \in ids THEN [hist[id] EXCEPT !.left = how]
                                 ELSE hist[id]]

\* The process is gone, and with it its service objects, threads and the messages
\* in its queue.
Dies(why) ==
  /\ ProcessEnds(why)
  /\ Leave(MapIds, "died")
  /\ rootAccess' = AllFalse
  /\ rootAcqisitionFinished' = AllFalse
  /\ nativeInstalled' = AllFalse
  /\ pending_RQST_SCAN_ID' = AllFalse
  /\ PoolDies
  /\ mq' = [s \in Senders |-> <<>>]
  /\ UNCHANGED <<nativePref, cq, gone>>

(***************************************************************************)
(* Life cycle.                                                             *)
(***************************************************************************)
OnCreate ==
  /\ ServiceCreated
  /\ nativeInstalled' = [nativeInstalled EXCEPT ![incarnation'] = nativePref]
  /\ rootTask' = [rootTask EXCEPT ![incarnation'] = "running"]
  /\ setupTask' = [setupTask EXCEPT ![incarnation'] = IF nativePref THEN @ ELSE "running"]
  /\ UNCHANGED <<scans, rootAccess, rootAcqisitionFinished, pending_RQST_SCAN_ID,
                 nativePref, hist, worker, owner, nativeFiles, commVars>>

OnBind ==
  /\ BindDue
  /\ bindAsked' = TRUE /\ hasBound' = TRUE
  /\ isStarted' = TRUE
  /\ UNCHANGED <<svc, incarnation, hosted, bound, cause, serviceVars, workerVars, commVars>>

OnUnbind ==
  /\ UnbindDue
  /\ hasBound' = FALSE
  /\ IF \E id \in MapOf(incarnation) : scans[id].started
     THEN UNCHANGED isStarted ELSE StopSelf(incarnation)
  /\ UNCHANGED <<svc, incarnation, hosted, bound, bindAsked, cause,
                 serviceVars, workerVars, commVars>>

\* Every Scan object is stopped; future is null in one that was never started.
OnDestroy ==
  /\ DestroyDue
  /\ IF \E id \in MapOf(incarnation) : ~scans[id].started
     THEN Dies("onDestroy")
     ELSE /\ svc' = "destroyed"
          /\ Cancel(MapOf(incarnation))
          /\ Leave(MapOf(incarnation), "cleared")
          /\ UNCHANGED <<incarnation, hosted, bound, isStarted, bindAsked, hasBound, cause,
                         rootAccess, rootAcqisitionFinished, nativeInstalled,
                         pending_RQST_SCAN_ID, nativePref, owner, rootTask, setupTask,
                         nativeFiles, commVars>>

\* The system takes back the process of a destroyed service, or kills the one of
\* a running service when memory is short.
ProcessLost ==
  \/ svc = "destroyed" /\ Dies("reclaimed")
  \/ svc = "up" /\ "process" \in Failures /\ Dies("killed")

(***************************************************************************)
(* ScanServiceHandler.handleMessage, one action per message.               *)
(***************************************************************************)
Handles(x, what) == ProcessRuns /\ IsNext(mq[x], what) /\ Consume(x)

\* The service object whose Handler takes the next message of c.
Addressed(c) == Head(mq[c]).to

HandlerFrame == UNCHANGED <<svc, incarnation, hosted, bound, bindAsked, hasBound, cause,
                            rootTask, setupTask, nativeFiles>>

FieldsFrame == UNCHANGED <<rootAccess, rootAcqisitionFinished, nativeInstalled,
                           pending_RQST_SCAN_ID, nativePref, owner>>

\* Mutant of Known: the null check of scans.get is missing.
KnownUnchecked(s, id) == id \in ScanIds

Known(s, id) == id \in MapOf(s)

\* Scans can be given out: the setup of service object s is over.
SetUp(s) == nativeInstalled[s] /\ rootAcqisitionFinished[s]

\* Every scan in the map is told, whatever it was told before.
TellScans(s, what, answer) ==
  /\ TellAll([c \in Clients |-> {id \in MapOf(s) : scans[id].client = c}], what)
  /\ hist' = [id \in ScanIds |-> IF id \in MapOf(s) THEN [hist[id] EXCEPT !.told = answer]
                                 ELSE hist[id]]

\* A 32-bit random id is taken to be fresh.
RqstScanId(c) ==
  LET s == Addressed(c)
  IN  /\ Handles(c, "RQST_SCAN_ID")
      /\ \E id \in {i \in ScanIds : hist[i].asked = 0} :
           /\ scans' = [scans EXCEPT ![id] = Scan(c)]
           /\ owner' = [owner EXCEPT ![id] = s]
           /\ hist' = [hist EXCEPT ![id].asked = Head(mq[c]).arg,
                                  ![id].told = IF SetUp(s) THEN "ok" ELSE "no"]
           /\ IF SetUp(s)
              THEN /\ TellActivity(c, "RESP_SCAN_ID_OK", id, 0)
                   /\ UNCHANGED pending_RQST_SCAN_ID
              ELSE /\ pending_RQST_SCAN_ID' = [pending_RQST_SCAN_ID EXCEPT ![s] = TRUE]
                   /\ UNCHANGED cq
      /\ UNCHANGED <<isStarted, rootAccess, rootAcqisitionFinished, nativeInstalled,
                     nativePref, worker>>
      /\ HandlerFrame

RqstStartScan(c) ==
  LET s == Addressed(c)
      id == Head(mq[c]).id
  IN  /\ Handles(c, "RQST_START_SCAN")
      /\ IF Known(s, id) /\ ~scans[id].started
         THEN /\ Submit(id, Head(mq[c]).arg, rootAccess[s])
              /\ scans' = [scans EXCEPT ![id] = [Scan(c) EXCEPT !.started = TRUE]]
              /\ TellActivity(c, "RESP_START_SCAN_OK", id, 0)
         ELSE /\ scans' = IF Known(s, id) THEN [scans EXCEPT ![id].client = c] ELSE scans
              /\ TellActivity(c, "RESP_START_SCAN_ERR", id, 0)
              /\ UNCHANGED worker
      /\ UNCHANGED <<isStarted, hist>>
      /\ FieldsFrame /\ HandlerFrame

\* Mutant of StopSelfWithout: the service is left started.
StopSelfNever(s, id) == UNCHANGED isStarted

\* stopSelf() once the last Scan object left the map.
StopSelfWithout(s, id) ==
  IF MapOf(s) \ {id} = {} THEN StopSelf(s) ELSE UNCHANGED isStarted

RqstStopScan(c) ==
  LET s == Addressed(c)
      id == Head(mq[c]).id
  IN  /\ Handles(c, "RQST_STOP_SCAN")
      /\ IF Known(s, id) /\ scans[id].started
         THEN /\ Cancel({id})
              /\ Leave({id}, "stopped")
              /\ StopSelfWithout(s, id)
              /\ TellActivity(c, "RESP_STOP_SCAN_OK", id, 0)
         ELSE /\ scans' = IF Known(s, id) THEN [scans EXCEPT ![id].client = c] ELSE scans
              /\ TellActivity(c, "RESP_STOP_SCAN_ERR", id, 0)
              /\ UNCHANGED <<isStarted, hist, worker>>
      /\ FieldsFrame /\ HandlerFrame

\* The results of a finished scan are handed over and its Scan object removed;
\* those of a running one are what its Runnable has read so far.
RqstResults(c) ==
  LET s == Addressed(c)
      id == Head(mq[c]).id
  IN  /\ Handles(c, "RQST_RESULTS")
      /\ IF Known(s, id) /\ scans[id].started
         THEN /\ TellActivity(scans[id].client, "RESP_RESULTS_OK", id, worker[id].out)
              /\ IF scans[id].finished
                 THEN /\ scans' = [scans EXCEPT ![id] = NoScan]
                      /\ hist' = [hist EXCEPT ![id].delivered = worker[id].out,
                                             ![id].left = "collected"]
                      /\ StopSelfWithout(s, id)
                 ELSE /\ hist' = [hist EXCEPT ![id].delivered = worker[id].out]
                      /\ UNCHANGED <<scans, isStarted>>
         ELSE /\ TellActivity(IF Known(s, id) THEN scans[id].client ELSE c,
                              "RESP_RESULTS_ERR", id, 0)
              /\ UNCHANGED <<scans, hist, isStarted>>
      /\ UNCHANGED worker
      /\ FieldsFrame /\ HandlerFrame

NothingPending(s) == pending_RQST_SCAN_ID' = [pending_RQST_SCAN_ID EXCEPT ![s] = FALSE]

\* Mutant of GrantPending: the flag is reset whether or not scans were told.
GrantPendingForgets(s, complete) ==
  /\ IF complete /\ pending_RQST_SCAN_ID[s] THEN TellScans(s, "RESP_SCAN_ID_OK", "ok")
     ELSE UNCHANGED <<cq, hist>>
  /\ NothingPending(s)

\* The scans waiting for an id are given theirs once nothing is missing.
GrantPending(s, complete) ==
  IF complete /\ pending_RQST_SCAN_ID[s]
  THEN TellScans(s, "RESP_SCAN_ID_OK", "ok") /\ NothingPending(s)
  ELSE UNCHANGED <<cq, hist, pending_RQST_SCAN_ID>>

NotifyRootAccess(s) ==
  /\ Handles(Root(s), "NOTIFY_ROOT_ACCESS")
  /\ rootAccess' = [rootAccess EXCEPT ![s] = (Head(mq[Root(s)]).arg = 1)]
  /\ rootAcqisitionFinished' = [rootAcqisitionFinished EXCEPT ![s] = TRUE]
  /\ GrantPending(s, nativeInstalled[s])
  /\ UNCHANGED <<isStarted, scans, nativeInstalled, nativePref, worker, owner>>
  /\ HandlerFrame

\* A failed setup refuses the waiting scans and stops the service, and then
\* goes on as a successful one does.
NotifyNativeSetup(s) ==
  /\ Handles(Setup(s), "NOTIFY_NATIVE_SETUP")
  /\ IF Head(mq[Setup(s)]).arg = NATIVE_SETUP_FAIL
     THEN /\ IF pending_RQST_SCAN_ID[s] THEN TellScans(s, "RESP_SCAN_ID_ERR", "err")
             ELSE UNCHANGED <<cq, hist>>
          /\ NothingPending(s)
          /\ StopSelf(s)
     ELSE /\ GrantPending(s, rootAcqisitionFinished[s])
          /\ UNCHANGED isStarted
  /\ nativeInstalled' = [nativeInstalled EXCEPT ![s] = TRUE]
  /\ nativePref' = TRUE
  /\ UNCHANGED <<scans, rootAccess, rootAcqisitionFinished, worker, owner>>
  /\ HandlerFrame

NotifyScanFinished(id) ==
  /\ ProcessRuns /\ IsNext(mq[id], "NOTIFY_SCAN_FINISHED")
  /\ IF InMap(id)
     THEN /\ Consume(id)
          /\ scans' = [scans EXCEPT ![id].finished = TRUE]
          /\ TellActivity(scans[id].client, "NOTIFY_SCAN_FINISHED", id, 0)
          /\ UNCHANGED <<isStarted, hist, worker>>
          /\ FieldsFrame /\ HandlerFrame
     ELSE Dies("NOTIFY_SCAN_FINISHED")

NotifyScanProblem(id) ==
  /\ ProcessRuns /\ IsNext(mq[id], "NOTIFY_SCAN_PROBLEM")
  /\ IF InMap(id)
     THEN /\ Consume(id)
          /\ TellActivity(scans[id].client, "NOTIFY_SCAN_PROBLEM", id, 0)
          /\ UNCHANGED <<isStarted, scans, hist, worker>>
          /\ FieldsFrame /\ HandlerFrame
     ELSE Dies("NOTIFY_SCAN_PROBLEM")
=============================================================================
