-------------------------- MODULE ScanCommunication --------------------------
(***************************************************************************)
(* The message channels between the activities of the Umit network         *)
(* scanner, its ScanService and the Runnables the service hands to its     *)
(* thread pool (api/ScanCommunication.java lists the messages).            *)
(*                                                                         *)
(* A Messenger posts to one Handler of the main thread of the process that *)
(* owns it; each service object has its own.  Messages of one sender       *)
(* arrive in the order they were sent; those of different senders          *)
(* interleave freely, so the queue of the service's process is kept as one *)
(* FIFO per sender, mq[s], and an activity's queue, whose only sender is   *)
(* the service, as one FIFO cq[c].                                         *)
(***************************************************************************)
EXTENDS AndroidService, SequencesExt

CONSTANTS
  Clients,      \* activities derived from ScanClientActivity
  ScanIds,      \* the ids random.nextInt() may return
  NoId,         \* the id field of a request that has none (Java's 0)
  Failures,     \* the failures that may happen: "io" in a shell's streams,
                \* "activity" and "process" for the death of an activity's
                \* process and the kill of the service's
  MaxStarts,    \* bound on the startScan calls of one activity
  MaxOut        \* bound on the chunks of output of one nmap

ASSUME NoIdAssumption == NoId \notin ScanIds \cup Clients

\* The RootAcquisitionRunnable and the SetupNativeRunnable of a service object.
Root(s) == <<"root", s>>

Setup(s) == <<"setup", s>>

ASSUME SendersAssumption ==
  /\ Clients \cap ScanIds = {}
  /\ \A s \in Services : {Root(s), Setup(s)} \cap (Clients \cup ScanIds) = {}

ASSUME ScanIdsFinite == IsFiniteSet(ScanIds)

ASSUME BoundsAssumption == MaxStarts \in Nat \ {0} /\ MaxOut \in Nat

VARIABLES
  mq,     \* mq[s]: what sender s posted to the service and it has not handled
  cq,     \* cq[c]: what the service posted to activity c and it has not handled
  gone    \* the activities whose process is dead: sending to them throws

commVars == <<mq, cq, gone>>

\* The senders to the service: activities, one NmapScanServiceRunnable per scan,
\* and the two setup Runnables of each service object.
Senders == Clients \cup ScanIds \cup {Root(s) : s \in Services}
                               \cup {Setup(s) : s \in Services}

RequestKind == {"RQST_SCAN_ID", "RQST_START_SCAN", "RQST_STOP_SCAN", "RQST_RESULTS"}

ScanNoteKind == {"NOTIFY_SCAN_FINISHED", "NOTIFY_SCAN_PROBLEM"}

ReplyKind == {"RESP_SCAN_ID_OK", "RESP_SCAN_ID_ERR", "RESP_START_SCAN_OK",
              "RESP_START_SCAN_ERR", "RESP_STOP_SCAN_OK", "RESP_STOP_SCAN_ERR",
              "RESP_RESULTS_OK", "RESP_RESULTS_ERR"} \cup ScanNoteKind

\* what, arg1 (the scan's id) and one payload: the scan arguments of a request,
\* the amount of output in RESP_RESULTS_OK, the outcome in the notifications of
\* the two setup Runnables.
Msg(what, id, arg) == [what |-> what, id |-> id, arg |-> arg]

\* The same, to the Handler of service object s.
MsgTo(s, what, id, arg) == [to |-> s, what |-> what, id |-> id, arg |-> arg]

ToServiceKind == RequestKind \cup ScanNoteKind
                   \cup {"NOTIFY_ROOT_ACCESS", "NOTIFY_NATIVE_SETUP"}

ToService == [to : Services, what : ToServiceKind, id : ScanIds \cup {NoId}, arg : 0..MaxStarts]

ToActivity == [what : ReplyKind, id : ScanIds \cup {NoId}, arg : 0..MaxOut]

CommTypeOK == /\ mq \in [Senders -> Seq(ToService)]
              /\ cq \in [Clients -> Seq(ToActivity)]
              /\ gone \subseteq Clients

CommInit == /\ mq = [s \in Senders |-> <<>>]
            /\ cq = [c \in Clients |-> <<>>]
            /\ gone = {}

(***************************************************************************)
(* Receiving: what the main looper of the service dispatches next from s.  *)
(***************************************************************************)
IsNext(q, what) == q # <<>> /\ Head(q).what = what

\* The main looper takes the head of the queue of s; no handler posts to a service.
Consume(s) == mq' = [mq EXCEPT ![s] = Tail(@)] /\ UNCHANGED gone

(***************************************************************************)
(* Sending.  Scan.tellActivity catches the RemoteException of a dead       *)
(* activity and only returns false.                                        *)
(***************************************************************************)
TellActivity(c, what, id, arg) ==
  cq' = IF c \in gone THEN cq
        ELSE [cq EXCEPT ![c] = Append(@, Msg(what, id, arg))]

\* "for (Scan scan : scans.values()) scan.tellActivity(what)": each activity is
\* told of its scans, idsOf[c], in the order of the HashMap, which is any.
TellAll(idsOf, what) ==
  \E order \in [Clients -> UNION {SetToSeqs(ids) : ids \in SUBSET ScanIds}] :
    /\ \A c \in Clients : order[c] \in SetToSeqs(idsOf[c])
    /\ cq' = [c \in Clients |->
                IF c \in gone THEN cq[c]
                ELSE cq[c] \o [i \in DOMAIN order[c] |-> Msg(what, order[c][i], 0)]]
=============================================================================
