----------------------------- MODULE ScanClient ------------------------------
(***************************************************************************)
(* api/ScanClientActivity.java with the callbacks nmap.java gives it: an   *)
(* activity that binds to the ScanService when it is created, asks it for  *)
(* an id, starts a scan under that id and collects its results.            *)
(*                                                                         *)
(* An activity has ONE scan field; starting another scan replaces it.      *)
(***************************************************************************)
EXTENDS AndroidService, NmapScan

CONSTANTS
  MaxBacklog    \* an activity whose user stops a scan, or asks for results
                \* before the scan has finished, has fewer unhandled messages
                \* than this; 0 is nmap.java, whose user does neither

ASSUME BacklogAssumption == MaxBacklog \in Nat

ASSUME EnoughIds == MaxStarts * Cardinality(Clients) <= Cardinality(ScanIds)

VARIABLES
  life,      \* life[c]: the activity's life cycle
  binder,    \* binder[c]: the service object msgrService of c leads to, 0 if ~mBound
  scan,      \* scan[c]: the scan field of c
  starts     \* starts[c]: the calls of startScan by c; names their arguments

clientVars == <<life, binder, scan, starts>>

\* args 0 is null.  The field itself is null before the first startScan.
NewScan(args) == [id |-> NoId, args |-> args, started |-> FALSE, finished |-> FALSE]

NullScan == [NewScan(0) EXCEPT !.finished = TRUE]

ClientTypeOK ==
  /\ life \in [Clients -> {"new", "created", "destroyed", "dead"}]
  /\ binder \in [Clients -> 0..MaxIncarnations]
  /\ scan \in [Clients -> [id : ScanIds \cup {NoId}, args : 0..MaxStarts,
                           started : BOOLEAN, finished : BOOLEAN]]
  /\ starts \in [Clients -> 0..MaxStarts]

ClientInit == /\ life = [c \in Clients |-> "new"]
              /\ binder = [c \in Clients |-> 0]
              /\ scan = [c \in Clients |-> NullScan]
              /\ starts = [c \in Clients |-> 0]

mBound(c) == binder[c] # 0

ServiceFrame == UNCHANGED <<svc, incarnation, hosted, isStarted, bindAsked, hasBound, cause>>

(***************************************************************************)
(* Binding.                                                                *)
(***************************************************************************)
OnActivityCreate(c) ==
  /\ life[c] = "new"
  /\ life' = [life EXCEPT ![c] = "created"]
  /\ bound' = bound \cup {c}
  /\ ServiceFrame
  /\ UNCHANGED <<binder, scan, starts, workerVars, commVars>>

\* Mutant of OnActivityDestroy: the activity forgets the service it was bound to.
OnActivityDestroyUnset(c) ==
  /\ life[c] = "created"
  /\ life' = [life EXCEPT ![c] = "destroyed"]
  /\ bound' = bound \ {c}
  /\ binder' = [binder EXCEPT ![c] = 0]
  /\ ServiceFrame
  /\ UNCHANGED <<scan, starts, workerVars, commVars>>

\* unbindService does not call onServiceDisconnected: mBound stays set, and the
\* Handler of the activity goes on handling messages.
OnActivityDestroy(c) ==
  /\ life[c] = "created"
  /\ life' = [life EXCEPT ![c] = "destroyed"]
  /\ bound' = bound \ {c}
  /\ ServiceFrame
  /\ UNCHANGED <<binder, scan, starts, workerVars, commVars>>

OnServiceConnected(c) ==
  /\ c \in bound /\ ~mBound(c) /\ svc = "up" /\ bindAsked
  /\ binder' = [binder EXCEPT ![c] = incarnation]
  /\ ServiceFrame
  /\ UNCHANGED <<bound, life, scan, starts, workerVars, commVars>>

\* The process of the service object the activity is connected to has died.
OnServiceDisconnected(c) ==
  /\ c \in bound /\ mBound(c)
  /\ svc = "down" \/ binder[c] # incarnation
  /\ binder' = [binder EXCEPT ![c] = 0]
  /\ ServiceFrame
  /\ UNCHANGED <<bound, life, scan, starts, workerVars, commVars>>

\* The activity's process dies: killed, or by an exception of its own, such as
\* the null pointer in stopScan before the first startScan.
ActivityDies(c) ==
  /\ "activity" \in Failures
  /\ life[c] \in {"created", "destroyed"}
  /\ life' = [life EXCEPT ![c] = "dead"]
  /\ bound' = bound \ {c}
  /\ gone' = gone \cup {c}
  /\ cq' = [cq EXCEPT ![c] = <<>>]
  /\ binder' = [binder EXCEPT ![c] = 0]
  /\ scan' = [scan EXCEPT ![c] = NullScan]
  /\ ServiceFrame
  /\ UNCHANGED <<starts, workerVars, mq>>

(***************************************************************************)
(* tellService: a message to a dead process is dropped; one to a service   *)
(* object that was destroyed in a process that lives is not.               *)
(***************************************************************************)
Request(c, what, id, arg) ==
  mq' = IF binder[c] \in hosted
        THEN [mq EXCEPT ![c] = Append(@, MsgTo(binder[c], what, id, arg))] ELSE mq

(***************************************************************************)
(* The API, called by the user while the activity lives.                   *)
(***************************************************************************)
Calls(c) == /\ life[c] = "created" /\ mBound(c)
            /\ ServiceFrame
            /\ UNCHANGED <<bound, life, binder, workerVars, cq, gone>>

Backlog(c) == Len(mq[c]) + Len(cq[c])

StartScan(c) ==
  /\ Calls(c)
  /\ starts[c] < MaxStarts
  /\ starts' = [starts EXCEPT ![c] = @ + 1]
  /\ Request(c, "RQST_SCAN_ID", NoId, starts[c] + 1)
  /\ scan' = [scan EXCEPT ![c] = NewScan(starts[c] + 1)]

StopScan(c) ==
  /\ Calls(c) /\ Backlog(c) < MaxBacklog
  /\ scan[c].started
  /\ Request(c, "RQST_STOP_SCAN", scan[c].id, 0)
  /\ UNCHANGED <<scan, starts>>

GetScanResults(c) ==
  /\ Calls(c) /\ Backlog(c) < MaxBacklog
  /\ scan[c].started
  /\ Request(c, "RQST_RESULTS", scan[c].id, 0)
  /\ UNCHANGED <<scan, starts>>

(***************************************************************************)
(* IncomingHandler.handleMessage.                                          *)
(***************************************************************************)
Reply(c) == Head(cq[c])

Takes(c, kinds) ==
  /\ cq[c] # <<>> /\ Reply(c).what \in kinds
  /\ cq' = [cq EXCEPT ![c] = Tail(@)]
  /\ ServiceFrame
  /\ UNCHANGED <<bound, life, binder, starts, gone,
                 owner, rootTask, setupTask, nativeFiles>>

\* Mutant of RespScanIdOk: the scan is started, its id not kept.
RespScanIdOkForgets(c) ==
  /\ Takes(c, {"RESP_SCAN_ID_OK"})
  /\ IF mBound(c) THEN Request(c, "RQST_START_SCAN", Reply(c).id, scan[c].args)
     ELSE UNCHANGED mq
  /\ UNCHANGED <<scan, worker>>

RespScanIdOk(c) ==
  /\ Takes(c, {"RESP_SCAN_ID_OK"})
  /\ scan' = [scan EXCEPT ![c].id = Reply(c).id]
  /\ IF mBound(c) THEN Request(c, "RQST_START_SCAN", Reply(c).id, scan[c].args)
     ELSE UNCHANGED mq
  /\ UNCHANGED worker

RespStartScanOk(c) ==
  /\ Takes(c, {"RESP_START_SCAN_OK"})
  /\ scan' = [scan EXCEPT ![c].started = TRUE]
  /\ UNCHANGED <<mq, worker>>

RespStopScanOk(c) ==
  /\ Takes(c, {"RESP_STOP_SCAN_OK"})
  /\ scan' = [scan EXCEPT ![c] = NewScan(0)]
  /\ UNCHANGED <<mq, worker>>

\* onScanFinish of nmap.java: collect the results, then kill what is left of
\* nmap.
NotifiedScanFinished(c) ==
  /\ Takes(c, {"NOTIFY_SCAN_FINISHED"})
  /\ scan' = [scan EXCEPT ![c].finished = TRUE]
  /\ IF mBound(c) /\ scan[c].started THEN Request(c, "RQST_RESULTS", scan[c].id, 0)
     ELSE UNCHANGED mq
  /\ KillProcess

\* The results are shown; an error is toasted.  Neither changes the scan.
ShownToUser(c) ==
  /\ Takes(c, {"RESP_RESULTS_OK", "RESP_RESULTS_ERR", "RESP_SCAN_ID_ERR",
               "RESP_START_SCAN_ERR", "RESP_STOP_SCAN_ERR", "NOTIFY_SCAN_PROBLEM"})
  /\ UNCHANGED <<scan, mq, worker>>
=============================================================================
