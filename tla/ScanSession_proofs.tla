------------------------- MODULE ScanSession_proofs --------------------------
(***************************************************************************)
(* The type correctness of ScanSession: one lemma per helper that changes  *)
(* queues, Scan objects or Runnables, one per group of actions, and the    *)
(* theorem.                                                                *)
(***************************************************************************)
EXTENDS ScanSession, FiniteSetTheorems, TLAPS

USE DEF Msg, MsgTo

\* What an activity is told of its scans is a sequence of messages to activities.
LEMMA BatchType ==
  ASSUME NEW ids \in SUBSET ScanIds, NEW order \in SetToSeqs(ids), NEW what \in ReplyKind
  PROVE  /\ order \in Seq(ids)
         /\ [i \in DOMAIN order |-> Msg(what, order[i], 0)] \in Seq(ToActivity)
<1>1. Cardinality(ids) \in Nat
  BY ScanIdsFinite, FS_Subset, FS_CardinalityType
<1>2. order \in [1..Cardinality(ids) -> ids]
  BY DEF SetToSeqs
<1>3. order \in Seq(ids)
  BY <1>1, <1>2
<1>4. DOMAIN order = 1..Cardinality(ids)
  BY <1>2
<1>5. \A i \in 1..Cardinality(ids) : Msg(what, order[i], 0) \in ToActivity
  BY <1>2, BoundsAssumption DEF ToActivity
<1> QED
  BY <1>1, <1>3, <1>4, <1>5

\* Telling every activity of its scans keeps the activities' queues typed.
LEMMA TellAllType ==
  ASSUME CommTypeOK, NEW idsOf \in [Clients -> SUBSET ScanIds], NEW what \in ReplyKind,
         TellAll(idsOf, what)
  PROVE  cq' \in [Clients -> Seq(ToActivity)]
<1>1. PICK order \in [Clients -> UNION {SetToSeqs(ids) : ids \in SUBSET ScanIds}] :
        /\ \A c \in Clients : order[c] \in SetToSeqs(idsOf[c])
        /\ cq' = [c \in Clients |->
                IF c \in gone THEN cq[c]
                ELSE cq[c] \o [i \in DOMAIN order[c] |-> Msg(what, order[c][i], 0)]]
  BY DEF TellAll
<1>2. \A c \in Clients : [i \in DOMAIN order[c] |-> Msg(what, order[c][i], 0)] \in Seq(ToActivity)
  BY <1>1, BatchType
<1>3. \A c \in Clients : cq[c] \in Seq(ToActivity)
  BY DEF CommTypeOK
<1> QED
  BY <1>1, <1>2, <1>3

\* Telling one activity keeps the activities' queues typed.
LEMMA TellActivityType ==
  ASSUME CommTypeOK, NEW c \in Clients, NEW what \in ReplyKind,
         NEW id \in ScanIds \cup {NoId}, NEW arg \in 0..MaxOut, TellActivity(c, what, id, arg)
  PROVE  cq' \in [Clients -> Seq(ToActivity)]
<1>1. Msg(what, id, arg) \in ToActivity
  BY DEF ToActivity
<1> QED
  BY <1>1 DEF CommTypeOK, TellActivity

\* The next message of a sender is a message to the service.
LEMMA HeadType ==
  ASSUME CommTypeOK, NEW s \in Senders, mq[s] # <<>>
  PROVE  Head(mq[s]) \in ToService
BY DEF CommTypeOK

\* Taking the next message of a sender keeps the service's queues typed.
LEMMA ConsumeType ==
  ASSUME CommTypeOK, NEW s \in Senders, mq[s] # <<>>, Consume(s)
  PROVE  mq' \in [Senders -> Seq(ToService)]
BY DEF CommTypeOK, Consume

\* Posting a message to the service keeps its queues typed.
LEMMA PostType ==
  ASSUME CommTypeOK, NEW x \in Senders, NEW s \in Services, NEW id \in ScanIds \cup {NoId},
         NEW arg \in 0..MaxStarts, NEW what \in ToServiceKind, Post(x, s, what, id, arg)
  PROVE  mq' \in [Senders -> Seq(ToService)]
<1>1. MsgTo(s, what, id, arg) \in ToService
  BY DEF ToService
<1> QED
  BY <1>1 DEF CommTypeOK, Post

\* A request of an activity, dropped or not, keeps the service's queues typed.
LEMMA RequestType ==
  ASSUME CommTypeOK, hosted \subseteq Services, NEW c \in Clients,
         NEW id \in ScanIds \cup {NoId}, NEW arg \in 0..MaxStarts,
         NEW what \in RequestKind, Request(c, what, id, arg)
  PROVE  mq' \in [Senders -> Seq(ToService)]
<1>1. binder[c] \in hosted => MsgTo(binder[c], what, id, arg) \in ToService
  BY DEF ToService, ToServiceKind
<1> QED
  BY <1>1 DEF CommTypeOK, Request, Senders

\* The next message of an activity is one to an activity.
LEMMA ReplyType ==
  ASSUME CommTypeOK, NEW c \in Clients, cq[c] # <<>>
  PROVE  Reply(c) \in ToActivity /\ Tail(cq[c]) \in Seq(ToActivity)
BY DEF CommTypeOK, Reply

\* Removing Scan objects keeps the map and the histories typed.
LEMMA LeaveType ==
  ASSUME ScanTypeOK, NEW ids, NEW how \in {"stopped", "collected", "cleared", "died"},
         Leave(ids, how)
  PROVE  /\ scans' \in [ScanIds -> {NoScan} \cup
                [client : Clients, started : BOOLEAN, finished : BOOLEAN]]
         /\ hist' \in [ScanIds -> History]
<1>1. \A id \in ScanIds : [hist[id] EXCEPT !.left = how] \in History
  BY DEF ScanTypeOK, History
<1>2. \A id \in ScanIds : hist[id] \in History
  BY DEF ScanTypeOK
<1>3. DEFINE h(id) == [hist[id] EXCEPT !.left = how]
<1>4. hist' = [id \in ScanIds |-> IF id \in ids THEN h(id) ELSE hist[id]]
  BY DEF Leave
<1>5. \A id \in ScanIds : h(id) \in History
  BY <1>1
<1> HIDE DEF h
<1>6. hist' \in [ScanIds -> History]
  BY <1>2, <1>4, <1>5
<1> QED
  BY <1>6 DEF Leave, ScanTypeOK

\* Cancelling Runnables keeps them typed.
LEMMA CancelType ==
  ASSUME NmapTypeOK, NEW ids, Cancel(ids)
  PROVE  worker' \in [ScanIds -> Worker]
<1>1. ASSUME NEW w \in Worker PROVE Cancelled(w) \in Worker
  <2>1. CASE w.pc = "queued"
    BY <2>1 DEF Worker, Cancelled
  <2>2. CASE w.pc = "reading"
    BY <2>2 DEF Worker, Cancelled
  <2>3. CASE w.pc \notin {"queued", "reading"}
    BY <2>3 DEF Worker, Cancelled
  <2> QED
    BY <2>1, <2>2, <2>3
<1>2. \A id \in ScanIds : worker[id] \in Worker /\ Cancelled(worker[id]) \in Worker
  BY <1>1 DEF NmapTypeOK
<1> QED
  BY <1>2 DEF Cancel

\* The death of the pool's threads keeps the Runnables typed.
LEMMA PoolDiesType ==
  ASSUME NmapTypeOK, PoolDies
  PROVE  NmapTypeOK'
<1>1. DEFINE d(id) == [worker[id] EXCEPT !.pc = "done"]
<1>2. \A id \in ScanIds : worker[id] \in Worker /\ d(id) \in Worker
  BY DEF NmapTypeOK, Worker
<1>3. worker' = [id \in ScanIds |-> IF Alive(id) THEN d(id) ELSE worker[id]]
  BY DEF PoolDies
<1> HIDE DEF d
<1>4. worker' \in [ScanIds -> Worker]
  BY <1>2, <1>3
<1> QED
  BY <1>4 DEF PoolDies, NmapTypeOK, TaskState

\* The end of the service's process preserves the type invariant.
LEMMA DiesType ==
  ASSUME TypeOK, NEW why \in Causes, Dies(why), UNCHANGED clientVars
  PROVE  TypeOK'
<1>1. ScanTypeOK'
  <2>1. Leave(MapIds, "died") /\ ScanTypeOK
    BY DEF TypeOK, Dies
  <2> QED
    BY <2>1, LeaveType DEF ScanTypeOK, Dies, AllFalse
<1>2. NmapTypeOK'
  BY PoolDiesType DEF TypeOK, Dies
<1>3. CommTypeOK'
  BY DEF TypeOK, CommTypeOK, Dies
<1>4. AndroidTypeOK(Clients)'
  BY DEF TypeOK, AndroidTypeOK, Dies, ProcessEnds
<1>5. ClientTypeOK'
  BY DEF TypeOK, ClientTypeOK, clientVars
<1> QED
  BY <1>1, <1>2, <1>3, <1>4, <1>5 DEF TypeOK

\* The life-cycle callbacks of ScanService preserve the type invariant.
LEMMA LifeCycleType ==
  ASSUME TypeOK, LifeCycle
  PROVE  TypeOK'
<1> USE DEF TypeOK, AndroidTypeOK, NmapTypeOK, ScanTypeOK, ClientTypeOK, CommTypeOK, clientVars
<1> USE IncarnationsAssumption, BoundsAssumption
<1>1. CASE OnCreate
  <2>1. incarnation + 1 \in Services
    BY <1>1 DEF OnCreate, ServiceCreated, Services
  <2>2. /\ incarnation' = incarnation + 1 /\ svc' = "up"
        /\ hosted' = hosted \cup {incarnation + 1}
        /\ bindAsked' = FALSE /\ hasBound' = FALSE /\ UNCHANGED <<bound, isStarted, cause>>
    BY <1>1 DEF OnCreate, ServiceCreated
  <2>3. AndroidTypeOK(Clients)'
    <3>1. incarnation + 1 \in 0..MaxIncarnations
      BY <2>1 DEF Services
    <3>2. hosted' \subseteq Services
      BY <2>1, <2>2
    <3> QED
      BY <2>2, <3>1, <3>2
  <2>4. ASSUME NEW f \in [Services -> TaskState]
        PROVE  [f EXCEPT ![incarnation + 1] = "running"] \in [Services -> TaskState]
    BY DEF TaskState
  <2>5. NmapTypeOK'
    BY <1>1, <2>2, <2>4 DEF OnCreate
  <2>6. ScanTypeOK'
    BY <1>1, <2>2 DEF OnCreate
  <2> QED
    BY <1>1, <2>3, <2>5, <2>6 DEF LifeCycle, OnCreate, commVars
<1>2. CASE OnBind
  BY <1>2 DEF LifeCycle, OnBind, BindDue, commVars, workerVars, serviceVars
<1>3. CASE OnUnbind
  BY <1>3 DEF LifeCycle, OnUnbind, UnbindDue, StopSelf, commVars, workerVars, serviceVars
<1>4. CASE OnDestroy
  <2>1. CASE Dies("onDestroy")
    BY <2>1, DiesType DEF LifeCycle, Causes
  <2>2. CASE ~Dies("onDestroy")
    <3>1. Cancel(MapOf(incarnation)) /\ Leave(MapOf(incarnation), "cleared")
      BY <1>4, <2>2 DEF OnDestroy
    <3>2. worker' \in [ScanIds -> Worker]
      BY <3>1, CancelType
    <3>3. /\ scans' \in [ScanIds -> {NoScan} \cup
                [client : Clients, started : BOOLEAN, finished : BOOLEAN]]
          /\ hist' \in [ScanIds -> History]
      BY <3>1, LeaveType
    <3> QED
      BY <1>4, <2>2, <3>2, <3>3 DEF LifeCycle, OnDestroy, commVars
  <2> QED
    BY <2>1, <2>2
<1>5. CASE ProcessLost
  BY <1>5, DiesType DEF LifeCycle, ProcessLost, Causes
<1> QED
  BY <1>1, <1>2, <1>3, <1>4, <1>5 DEF LifeCycle

\* Answering all scans keeps queues and histories typed.
LEMMA TellScansType ==
  ASSUME TypeOK, NEW s \in Services, NEW what \in ReplyKind, NEW answer \in {"ok", "err"},
         TellScans(s, what, answer)
  PROVE  /\ cq' \in [Clients -> Seq(ToActivity)]
         /\ hist' \in [ScanIds -> History]
<1>1. DEFINE h(id) == [hist[id] EXCEPT !.told = answer]
<1>2. \A id \in ScanIds : hist[id] \in History /\ h(id) \in History
  BY DEF TypeOK, ScanTypeOK, History
<1>3. hist' = [id \in ScanIds |-> IF id \in MapOf(s) THEN h(id) ELSE hist[id]]
  BY DEF TellScans
<1> HIDE DEF h
<1>4. hist' \in [ScanIds -> History]
  BY <1>2, <1>3
<1>5. DEFINE idsOf == [c \in Clients |-> {id \in MapOf(s) : scans[id].client = c}]
<1>6. idsOf \in [Clients -> SUBSET ScanIds]
  BY DEF MapOf, MapIds
<1>7. TellAll(idsOf, what) /\ CommTypeOK
  BY DEF TellScans, TypeOK
<1> HIDE DEF idsOf
<1> QED
  BY <1>4, <1>6, <1>7, TellAllType

\* Granting the waiting scans, if any, keeps queues, histories and the flag typed.
LEMMA GrantPendingType ==
  ASSUME TypeOK, NEW s \in Services, NEW complete \in BOOLEAN, GrantPending(s, complete)
  PROVE  /\ cq' \in [Clients -> Seq(ToActivity)]
         /\ hist' \in [ScanIds -> History]
         /\ pending_RQST_SCAN_ID' \in [Services -> BOOLEAN]
<1>1. CASE complete /\ pending_RQST_SCAN_ID[s]
  BY <1>1, TellScansType DEF GrantPending, NothingPending, ReplyKind, TypeOK, ScanTypeOK
<1>2. CASE ~(complete /\ pending_RQST_SCAN_ID[s])
  BY <1>2 DEF GrantPending, TypeOK, CommTypeOK, ScanTypeOK
<1> QED
  BY <1>1, <1>2

\* Every case of ScanServiceHandler.handleMessage preserves the type invariant.
LEMMA HandleMessageType ==
  ASSUME TypeOK, HandleMessage
  PROVE  TypeOK'
<1> USE DEF TypeOK, AndroidTypeOK, ScanTypeOK, ClientTypeOK, clientVars
<1> USE IncarnationsAssumption, BoundsAssumption
<1> SUFFICES ASSUME UNCHANGED clientVars PROVE TypeOK'
  BY DEF HandleMessage
<1>a. ASSUME NEW s \in Senders, NEW what, Handles(s, what)
      PROVE  /\ mq' \in [Senders -> Seq(ToService)] /\ gone' \subseteq Clients
             /\ Head(mq[s]) \in ToService /\ Head(mq[s]).what = what
  BY <1>a, ConsumeType, HeadType DEF Handles, IsNext, Consume, CommTypeOK
<1>b. Clients \subseteq Senders /\ ScanIds \subseteq Senders
      /\ \A s \in Services : Root(s) \in Senders /\ Setup(s) \in Senders
  BY DEF Senders
<1>c. \A id \in ScanIds : InMap(id) =>
        scans[id] \in [client : Clients, started : BOOLEAN, finished : BOOLEAN]
  BY DEF InMap
<1>d. ASSUME NEW c \in Clients, NEW id,
             NEW s, scans' = IF Known(s, id) THEN [scans EXCEPT ![id].client = c] ELSE scans
      PROVE  scans' \in [ScanIds -> {NoScan} \cup
                [client : Clients, started : BOOLEAN, finished : BOOLEAN]]
  <2>1. CASE Known(s, id)
    <3>1. [scans[id] EXCEPT !.client = c] \in [client : Clients, started : BOOLEAN, finished : BOOLEAN]
      BY <2>1, <1>c DEF Known, MapOf, MapIds
    <3>2. scans' = [scans EXCEPT ![id] = [scans[id] EXCEPT !.client = c]]
      BY <1>d, <2>1
    <3> QED
      BY <3>1, <3>2, <2>1 DEF Known, MapOf, MapIds
  <2>2. CASE ~Known(s, id)
    BY <1>d, <2>2
  <2> QED
    BY <2>1, <2>2
<1>e. ASSUME NEW c \in Clients, NEW what \in ReplyKind, NEW id \in ScanIds \cup {NoId},
             TellActivity(c, what, id, 0)
      PROVE  cq' \in [Clients -> Seq(ToActivity)]
  <2>1. 0 \in 0..MaxOut /\ CommTypeOK
    OBVIOUS
  <2> QED
    BY <1>e, <2>1, TellActivityType
<1>1. ASSUME NEW c \in Clients, RqstScanId(c) PROVE TypeOK'
  <2> DEFINE s == Addressed(c)
  <2>1. PICK id \in ScanIds :
          /\ scans' = [scans EXCEPT ![id] = Scan(c)]
          /\ hist' = [hist EXCEPT ![id].asked = Head(mq[c]).arg,
                              ![id].told = IF SetUp(s) THEN "ok" ELSE "no"]
          /\ owner' = [owner EXCEPT ![id] = s]
          /\ IF SetUp(s)
             THEN /\ TellActivity(c, "RESP_SCAN_ID_OK", id, 0)
                  /\ UNCHANGED pending_RQST_SCAN_ID
             ELSE /\ pending_RQST_SCAN_ID' = [pending_RQST_SCAN_ID EXCEPT ![s] = TRUE]
                  /\ UNCHANGED cq
    BY <1>1 DEF RqstScanId
  <2>2. cq' \in [Clients -> Seq(ToActivity)]
    <3>1. CASE SetUp(s)
      <4>1. TellActivity(c, "RESP_SCAN_ID_OK", id, 0)
        BY <2>1, <3>1
      <4> QED
        BY <4>1, <1>e DEF ReplyKind
    <3>2. CASE ~SetUp(s)
      BY <2>1, <3>2 DEF CommTypeOK
    <3> QED
      BY <3>1, <3>2
  <2>3. CommTypeOK'
    BY <2>2, <1>1, <1>a, <1>b DEF RqstScanId, CommTypeOK
  <2>4. Head(mq[c]).arg \in 0..MaxStarts /\ s \in Services
    BY <1>1, <1>a, <1>b DEF RqstScanId, Addressed, ToService
  <2>5. hist' \in [ScanIds -> History]
    <3>1. DEFINE h == [hist[id] EXCEPT !.asked = Head(mq[c]).arg,
                                    !.told = IF SetUp(s) THEN "ok" ELSE "no"]
    <3>2. hist[id] \in History
      OBVIOUS
    <3>3. h \in History
      BY <2>4, <3>2 DEF History
    <3>4. hist' = [hist EXCEPT ![id] = h]
      BY <2>1
    <3> HIDE DEF h
    <3> QED
      BY <3>3, <3>4
  <2>6. scans' \in [ScanIds -> {NoScan} \cup
                [client : Clients, started : BOOLEAN, finished : BOOLEAN]]
    BY <2>1 DEF Scan
  <2>7. owner' \in [ScanIds -> Services] /\ pending_RQST_SCAN_ID' \in [Services -> BOOLEAN]
    BY <2>1, <2>4 DEF NmapTypeOK
  <2> QED
    BY <1>1, <2>1, <2>3, <2>5, <2>6, <2>7 DEF RqstScanId, HandlerFrame, NmapTypeOK
<1>2. ASSUME NEW c \in Clients, RqstStartScan(c) PROVE TypeOK'
  <2> DEFINE s == Addressed(c)
             id == Head(mq[c]).id
  <2>1. /\ id \in ScanIds \cup {NoId} /\ Head(mq[c]).arg \in 0..MaxStarts
        /\ s \in Services
        /\ mq' \in [Senders -> Seq(ToService)] /\ gone' \subseteq Clients
    BY <1>2, <1>a, <1>b DEF RqstStartScan, Addressed, ToService
  <2>2. CASE Known(s, id) /\ ~scans[id].started
    <3>1. worker' \in [ScanIds -> Worker]
      <4>1. Submit(id, Head(mq[c]).arg, rootAccess[s])
        BY <1>2, <2>2 DEF RqstStartScan
      <4>2. [pc |-> "queued", interrupted |-> FALSE, killed |-> FALSE,
             args |-> Head(mq[c]).arg, root |-> rootAccess[s], out |-> 0] \in Worker
        <5>1. rootAccess[s] \in BOOLEAN /\ 0 \in 0..MaxOut
          BY <2>1
        <5>2. Head(mq[c]).arg \in 0..MaxStarts
          BY <2>1
        <5> QED
          BY <5>1, <5>2, Zenon DEF Worker
      <4> QED
        BY <2>2, <4>1, <4>2 DEF Submit, NmapTypeOK, Known, MapOf, MapIds
    <3>2. scans' \in [ScanIds -> {NoScan} \cup
                [client : Clients, started : BOOLEAN, finished : BOOLEAN]]
      <4>1. [Scan(c) EXCEPT !.started = TRUE]
              \in [client : Clients, started : BOOLEAN, finished : BOOLEAN]
        BY DEF Scan
      <4>2. scans' = [scans EXCEPT ![id] = [Scan(c) EXCEPT !.started = TRUE]]
        BY <1>2, <2>2 DEF RqstStartScan
      <4> QED
        BY <4>1, <4>2
    <3>3. cq' \in [Clients -> Seq(ToActivity)]
      <4>1. TellActivity(c, "RESP_START_SCAN_OK", id, 0)
        BY <1>2, <2>2 DEF RqstStartScan
      <4> QED
        BY <4>1, <2>1, <1>e DEF ReplyKind
    <3> QED
      BY <1>2, <2>1, <3>1, <3>2, <3>3 DEF RqstStartScan, HandlerFrame, FieldsFrame, NmapTypeOK, CommTypeOK
  <2>3. CASE ~(Known(s, id) /\ ~scans[id].started)
    <3>2. scans' \in [ScanIds -> {NoScan} \cup
                [client : Clients, started : BOOLEAN, finished : BOOLEAN]]
      BY <1>2, <2>3, <1>d DEF RqstStartScan
    <3>3. cq' \in [Clients -> Seq(ToActivity)]
      <4>1. TellActivity(c, "RESP_START_SCAN_ERR", id, 0)
        BY <1>2, <2>3 DEF RqstStartScan
      <4> QED
        BY <4>1, <2>1, <1>e DEF ReplyKind
    <3> QED
      BY <1>2, <2>1, <2>3, <3>2, <3>3 DEF RqstStartScan, HandlerFrame, FieldsFrame, NmapTypeOK, CommTypeOK
  <2> QED
    BY <2>2, <2>3
<1>3. ASSUME NEW c \in Clients, RqstStopScan(c) PROVE TypeOK'
  <2> DEFINE s == Addressed(c)
             id == Head(mq[c]).id
  <2>1. /\ id \in ScanIds \cup {NoId}
        /\ mq' \in [Senders -> Seq(ToService)] /\ gone' \subseteq Clients
    BY <1>3, <1>a, <1>b DEF RqstStopScan, ToService
  <2>2. CASE Known(s, id) /\ scans[id].started
    <3>1. Cancel({id}) /\ Leave({id}, "stopped") /\ StopSelfWithout(s, id)
      BY <1>3, <2>2 DEF RqstStopScan
    <3>2. worker' \in [ScanIds -> Worker]
      BY <3>1, CancelType
    <3>3. /\ scans' \in [ScanIds -> {NoScan} \cup
                [client : Clients, started : BOOLEAN, finished : BOOLEAN]]
          /\ hist' \in [ScanIds -> History]
      BY <3>1, LeaveType
    <3>4. isStarted' \in BOOLEAN
      BY <3>1 DEF StopSelfWithout, StopSelf
    <3>5. cq' \in [Clients -> Seq(ToActivity)]
      <4>1. TellActivity(c, "RESP_STOP_SCAN_OK", id, 0)
        BY <1>3, <2>2 DEF RqstStopScan
      <4> QED
        BY <4>1, <2>1, <1>e DEF ReplyKind
    <3> QED
      BY <1>3, <2>1, <3>2, <3>3, <3>4, <3>5 DEF RqstStopScan, HandlerFrame, FieldsFrame, NmapTypeOK, CommTypeOK
  <2>3. CASE ~(Known(s, id) /\ scans[id].started)
    <3>1. scans' \in [ScanIds -> {NoScan} \cup
                [client : Clients, started : BOOLEAN, finished : BOOLEAN]]
      BY <1>3, <2>3, <1>d DEF RqstStopScan
    <3>2. cq' \in [Clients -> Seq(ToActivity)]
      <4>1. TellActivity(c, "RESP_STOP_SCAN_ERR", id, 0)
        BY <1>3, <2>3 DEF RqstStopScan
      <4> QED
        BY <4>1, <2>1, <1>e DEF ReplyKind
    <3> QED
      BY <1>3, <2>1, <2>3, <3>1, <3>2 DEF RqstStopScan, HandlerFrame, FieldsFrame, NmapTypeOK, CommTypeOK
  <2> QED
    BY <2>2, <2>3
<1>4. ASSUME NEW c \in Clients, RqstResults(c) PROVE TypeOK'
  <2> DEFINE s == Addressed(c)
             id == Head(mq[c]).id
  <2>1. /\ id \in ScanIds \cup {NoId}
        /\ mq' \in [Senders -> Seq(ToService)] /\ gone' \subseteq Clients
    BY <1>4, <1>a, <1>b DEF RqstResults, ToService
  <2>2. CASE Known(s, id) /\ scans[id].started
    <3>1. id \in ScanIds /\ scans[id].client \in Clients /\ worker[id].out \in 0..MaxOut
      BY <2>2, <1>c DEF Known, MapOf, MapIds, NmapTypeOK, Worker
    <3>2. cq' \in [Clients -> Seq(ToActivity)]
      BY <1>4, <3>1, <2>2, TellActivityType DEF RqstResults, ReplyKind
    <3>3. scans' \in [ScanIds -> {NoScan} \cup
                [client : Clients, started : BOOLEAN, finished : BOOLEAN]]
      BY <1>4, <3>1, <2>2 DEF RqstResults
    <3>4. hist' \in [ScanIds -> History]
      <4>1. DEFINE n == worker[id].out
      <4>2. /\ [hist[id] EXCEPT !.delivered = n] \in History
            /\ [hist[id] EXCEPT !.delivered = n, !.left = "collected"] \in History
        <5>1. ASSUME NEW h \in History, NEW k \in 0..MaxOut
              PROVE  /\ [h EXCEPT !.delivered = k] \in History
                     /\ [h EXCEPT !.delivered = k, !.left = "collected"] \in History
          BY DEF History
        <5> QED
          BY <5>1, <3>1
      <4>3. \/ hist' = [hist EXCEPT ![id] = [hist[id] EXCEPT !.delivered = n]]
            \/ hist' = [hist EXCEPT ![id] = [hist[id] EXCEPT !.delivered = n, !.left = "collected"]]
        <5>1. IF scans[id].finished
              THEN hist' = [hist EXCEPT ![id].delivered = worker[id].out, ![id].left = "collected"]
              ELSE hist' = [hist EXCEPT ![id].delivered = worker[id].out]
          BY <1>4, <2>2 DEF RqstResults
        <5>2. id \in DOMAIN hist
          BY <3>1, <1>c DEF ScanTypeOK
        <5> QED
          BY <5>1, <5>2
      <4> QED
        BY <3>1, <4>2, <4>3
    <3>5. isStarted' \in BOOLEAN
      BY <1>4, <2>2 DEF RqstResults, StopSelfWithout, StopSelf
    <3> QED
      BY <1>4, <2>1, <3>2, <3>3, <3>4, <3>5 DEF RqstResults, HandlerFrame, FieldsFrame, NmapTypeOK, CommTypeOK
  <2>3. CASE ~(Known(s, id) /\ scans[id].started)
    <3>1. (IF Known(s, id) THEN scans[id].client ELSE c) \in Clients
      BY <1>c DEF Known, MapOf, MapIds
    <3>2. cq' \in [Clients -> Seq(ToActivity)]
      <4>1. TellActivity(IF Known(s, id) THEN scans[id].client ELSE c, "RESP_RESULTS_ERR", id, 0)
        BY <1>4, <2>3 DEF RqstResults
      <4> QED
        BY <4>1, <3>1, <2>1, <1>e DEF ReplyKind
    <3> QED
      BY <1>4, <2>1, <2>3, <3>2 DEF RqstResults, HandlerFrame, FieldsFrame, NmapTypeOK, CommTypeOK
  <2> QED
    BY <2>2, <2>3
<1>5. ASSUME NEW s \in Services, NotifyRootAccess(s) PROVE TypeOK'
  <2>1. /\ CommTypeOK' /\ hist' \in [ScanIds -> History]
        /\ pending_RQST_SCAN_ID' \in [Services -> BOOLEAN]
    BY <1>5, <1>a, <1>b, GrantPendingType DEF NotifyRootAccess, CommTypeOK
  <2>2. /\ rootAccess' \in [Services -> BOOLEAN]
        /\ rootAcqisitionFinished' \in [Services -> BOOLEAN]
    BY <1>5 DEF NotifyRootAccess
  <2> QED
    BY <1>5, <2>1, <2>2 DEF NotifyRootAccess, HandlerFrame, NmapTypeOK
<1>6. ASSUME NEW s \in Services, NotifyNativeSetup(s) PROVE TypeOK'
  <2>1. /\ cq' \in [Clients -> Seq(ToActivity)] /\ hist' \in [ScanIds -> History]
        /\ pending_RQST_SCAN_ID' \in [Services -> BOOLEAN] /\ isStarted' \in BOOLEAN
    <3>1. CASE Head(mq[Setup(s)]).arg = NATIVE_SETUP_FAIL
      BY <1>6, <3>1, TellScansType
      DEF NotifyNativeSetup, NothingPending, ReplyKind, StopSelf, CommTypeOK
    <3>2. CASE Head(mq[Setup(s)]).arg # NATIVE_SETUP_FAIL
      BY <1>6, <3>2, GrantPendingType DEF NotifyNativeSetup
    <3> QED
      BY <3>1, <3>2
  <2>2. CommTypeOK'
    BY <1>6, <2>1, <1>a, <1>b DEF NotifyNativeSetup, CommTypeOK
  <2>3. nativeInstalled' \in [Services -> BOOLEAN]
    BY <1>6 DEF NotifyNativeSetup
  <2> QED
    BY <1>6, <2>1, <2>2, <2>3 DEF NotifyNativeSetup, HandlerFrame, NmapTypeOK
<1>7. ASSUME NEW id \in ScanIds, NotifyScanFinished(id) \/ NotifyScanProblem(id) PROVE TypeOK'
  <2>1. CASE InMap(id)
    <3>1. mq' \in [Senders -> Seq(ToService)] /\ gone' = gone
      BY <1>7, <1>b, <2>1, ConsumeType DEF NotifyScanFinished, NotifyScanProblem, IsNext, Consume
    <3>2. cq' \in [Clients -> Seq(ToActivity)]
      <4>1. PICK what \in ReplyKind : TellActivity(scans[id].client, what, id, 0)
        BY <1>7, <2>1 DEF NotifyScanFinished, NotifyScanProblem, ReplyKind, ScanNoteKind
      <4>2. scans[id].client \in Clients
        BY <1>c, <2>1
      <4> QED
        BY <4>1, <4>2, <1>e
    <3>3. [scans[id] EXCEPT !.finished = TRUE] \in [client : Clients, started : BOOLEAN, finished : BOOLEAN]
      BY <1>c, <2>1
    <3>4. scans' \in [ScanIds -> {NoScan} \cup
                [client : Clients, started : BOOLEAN, finished : BOOLEAN]]
      <4>1. scans' = scans \/ scans' = [scans EXCEPT ![id] = [scans[id] EXCEPT !.finished = TRUE]]
        BY <1>7, <2>1 DEF NotifyScanFinished, NotifyScanProblem
      <4> QED
        BY <4>1, <3>3
    <3> QED
      BY <1>7, <2>1, <3>1, <3>2, <3>4 DEF NotifyScanFinished, NotifyScanProblem, HandlerFrame, FieldsFrame, NmapTypeOK, CommTypeOK
  <2>2. CASE ~InMap(id)
    BY <1>7, <2>2, DiesType DEF NotifyScanFinished, NotifyScanProblem, Causes
  <2> QED
    BY <2>1, <2>2
<1> QED
  BY <1>1, <1>2, <1>3, <1>4, <1>5, <1>6, <1>7 DEF HandleMessage

\* The Runnables of the pool preserve the type invariant.
LEMMA PoolType ==
  ASSUME TypeOK, Pool
  PROVE  TypeOK'
<1>a. UNCHANGED <<androidVars, serviceVars, clientVars>>
  BY DEF Pool
<1>b. /\ CommTypeOK /\ NmapTypeOK /\ NoId \in ScanIds \cup {NoId}
      /\ 0 \in 0..MaxStarts /\ 1 \in 0..MaxStarts
      /\ ScanIds \subseteq Senders
      /\ \A s \in Services : Root(s) \in Senders /\ Setup(s) \in Senders
  BY BoundsAssumption DEF TypeOK, Senders
<1>c. ASSUME CommTypeOK', NmapTypeOK' PROVE TypeOK'
  BY <1>a, <1>c DEF TypeOK, AndroidTypeOK, ScanTypeOK, ClientTypeOK, androidVars, serviceVars, clientVars
<1>1. ASSUME NEW s \in Services, AcquireRoot(s) PROVE TypeOK'
  <2>1. PICK root \in 0..1 : Post(Root(s), s, "NOTIFY_ROOT_ACCESS", NoId, root)
    BY <1>1 DEF AcquireRoot
  <2>2. mq' \in [Senders -> Seq(ToService)]
    BY <2>1, <1>b, BoundsAssumption, PostType DEF ToServiceKind
  <2> QED
    BY <1>1, <1>c, <1>b, <2>2 DEF AcquireRoot, CommTypeOK, NmapTypeOK, TaskState
<1>2. ASSUME NEW s \in Services, SetupNative(s) PROVE TypeOK'
  <2>1. PICK status \in {0, 1} : /\ Post(Setup(s), s, "NOTIFY_NATIVE_SETUP", NoId, status)
                                 /\ nativeFiles' = (nativeFiles \/ status = NATIVE_SETUP_SUCCESS)
    BY <1>2 DEF SetupNative, NATIVE_SETUP_FAIL, NATIVE_SETUP_SUCCESS
  <2>2. mq' \in [Senders -> Seq(ToService)]
    BY <2>1, <1>b, PostType DEF ToServiceKind
  <2>3. nativeFiles' \in BOOLEAN
    BY <2>1
  <2> QED
    BY <1>2, <1>c, <1>b, <2>2, <2>3 DEF SetupNative, CommTypeOK, NmapTypeOK, TaskState
<1>3. ASSUME NEW id \in ScanIds, RunNmap(id) PROVE TypeOK'
  <2> DEFINE w == worker[id]
  <2>1. w \in Worker
    BY <1>b DEF NmapTypeOK
  <2>2. /\ [w EXCEPT !.pc = "done"] \in Worker /\ [w EXCEPT !.pc = "reading"] \in Worker
        /\ [w EXCEPT !.pc = "reading", !.killed = TRUE] \in Worker
        /\ w.out < MaxOut => [w EXCEPT !.out = w.out + 1] \in Worker
    <3>1. ASSUME NEW x \in Worker
          PROVE  /\ [x EXCEPT !.pc = "done"] \in Worker /\ [x EXCEPT !.pc = "reading"] \in Worker
                 /\ [x EXCEPT !.pc = "reading", !.killed = TRUE] \in Worker
      BY DEF Worker
    <3>2. ASSUME NEW x \in Worker, x.out < MaxOut
          PROVE  [x EXCEPT !.out = x.out + 1] \in Worker
      <4>1. x.out + 1 \in 0..MaxOut
        BY <3>2, BoundsAssumption DEF Worker
      <4> QED
        BY <4>1 DEF Worker
    <3> QED
      BY <2>1, <3>1, <3>2
  <2> HIDE DEF w
  <2>3. \/ worker' = [worker EXCEPT ![id] = [w EXCEPT !.pc = "done"]]
        \/ worker' = [worker EXCEPT ![id] = [w EXCEPT !.pc = "reading"]]
        \/ worker' = [worker EXCEPT ![id] = [w EXCEPT !.pc = "reading", !.killed = TRUE]]
        \/ w.out < MaxOut /\ worker' = [worker EXCEPT ![id] = [w EXCEPT !.out = w.out + 1]]
    BY <1>3 DEF RunNmap, RunWithoutArguments, ExecFails, ExecScan, WriteFails, ReadChunk, ReadEnd,
                ReadFails, RunTo, w
  <2>4. worker' \in [ScanIds -> Worker]
    BY <2>2, <2>3, <1>b DEF NmapTypeOK
  <2>5. mq' = mq \/ \E what \in ScanNoteKind : Post(id, owner[id], what, id, 0)
    BY <1>3 DEF RunNmap, RunWithoutArguments, ExecFails, ExecScan, WriteFails, ReadChunk, ReadEnd,
                ReadFails, ReportUnlessInterrupted, TellService, ScanNoteKind
  <2>6. mq' \in [Senders -> Seq(ToService)]
    BY <2>5, <1>b, PostType DEF CommTypeOK, NmapTypeOK, ToServiceKind
  <2> QED
    BY <1>3, <1>c, <1>b, <2>4, <2>6 DEF RunNmap, CommTypeOK, NmapTypeOK
<1> QED
  BY <1>1, <1>2, <1>3 DEF Pool

\* The steps of an activity preserve the type invariant.
LEMMA ActivityType ==
  ASSUME TypeOK, NEW c \in Clients, Activity(c)
  PROVE  TypeOK'
<1>a. /\ CommTypeOK /\ AndroidTypeOK(Clients) /\ NmapTypeOK /\ ScanTypeOK /\ ClientTypeOK
      /\ 0 \in 0..MaxStarts /\ UNCHANGED serviceVars
  BY BoundsAssumption DEF TypeOK, Activity
<1>b. ScanTypeOK'
  BY <1>a DEF ScanTypeOK, serviceVars
<1> DEFINE ScanField == [id : ScanIds \cup {NoId}, args : 0..MaxStarts,
                         started : BOOLEAN, finished : BOOLEAN]
<1>c. \A a \in 0..MaxStarts : NewScan(a) \in ScanField
  BY DEF NewScan
<1>d. NullScan \in ScanField
  <2>1. NewScan(0) \in ScanField
    BY <1>a, <1>c
  <2>2. \A x \in ScanField : [x EXCEPT !.finished = TRUE] \in ScanField
    OBVIOUS
  <2> QED
    BY <2>1, <2>2 DEF NullScan
<1>e. scan[c] \in ScanField
  BY <1>a DEF ClientTypeOK
<1>1. CASE OnActivityCreate(c) \/ OnActivityDestroy(c)
  BY <1>1, <1>a, <1>b DEF OnActivityCreate, OnActivityDestroy, ServiceFrame, workerVars, commVars,
     TypeOK, CommTypeOK, AndroidTypeOK, NmapTypeOK, ClientTypeOK
<1>2. CASE OnServiceConnected(c) \/ OnServiceDisconnected(c)
  <2>1. binder' \in [Clients -> 0..MaxIncarnations]
    BY <1>2, <1>a, IncarnationsAssumption
    DEF OnServiceConnected, OnServiceDisconnected, AndroidTypeOK, ClientTypeOK
  <2> QED
    BY <1>2, <2>1, <1>a, <1>b DEF OnServiceConnected, OnServiceDisconnected, ServiceFrame, workerVars,
       commVars, TypeOK, CommTypeOK, AndroidTypeOK, NmapTypeOK, ClientTypeOK
<1>3. CASE ActivityDies(c)
  <2>1. scan' \in [Clients -> ScanField]
    BY <1>3, <1>d, <1>a DEF ActivityDies, ClientTypeOK
  <2>2. binder' \in [Clients -> 0..MaxIncarnations]
    BY <1>3, <1>a, IncarnationsAssumption DEF ActivityDies, ClientTypeOK
  <2>3. cq' \in [Clients -> Seq(ToActivity)] /\ gone' \subseteq Clients
    BY <1>3, <1>a DEF ActivityDies, CommTypeOK
  <2> QED
    BY <1>3, <2>1, <2>2, <2>3, <1>a, <1>b DEF ActivityDies, ServiceFrame, workerVars,
       TypeOK, CommTypeOK, AndroidTypeOK, NmapTypeOK, ClientTypeOK
<1>4. CASE StartScan(c) \/ StopScan(c) \/ GetScanResults(c)
  <2>1. Calls(c)
    BY <1>4 DEF StartScan, StopScan, GetScanResults
  <2>2. mq' \in [Senders -> Seq(ToService)]
    <3>1. \/ starts[c] + 1 \in 0..MaxStarts /\ Request(c, "RQST_SCAN_ID", NoId, starts[c] + 1)
          \/ Request(c, "RQST_STOP_SCAN", scan[c].id, 0)
          \/ Request(c, "RQST_RESULTS", scan[c].id, 0)
      BY <1>4, <1>a, BoundsAssumption DEF StartScan, StopScan, GetScanResults, ClientTypeOK
    <3>2. scan[c].id \in ScanIds \cup {NoId}
      BY <1>e
    <3> QED
      BY <3>1, <3>2, <1>a, RequestType DEF RequestKind, AndroidTypeOK
  <2>3. scan' \in [Clients -> ScanField] /\ starts' \in [Clients -> 0..MaxStarts]
    <3>1. CASE StartScan(c)
      <4>1. starts[c] + 1 \in 0..MaxStarts
        BY <3>1, <1>a, BoundsAssumption DEF StartScan, ClientTypeOK
      <4>2. NewScan(starts[c] + 1) \in ScanField
        BY <4>1, <1>c
      <4> QED
        BY <3>1, <4>1, <4>2, <1>a DEF StartScan, ClientTypeOK
    <3>2. CASE UNCHANGED <<scan, starts>>
      BY <3>2, <1>a DEF ClientTypeOK
    <3> QED
      BY <1>4, <3>1, <3>2 DEF StopScan, GetScanResults
  <2> QED
    BY <2>1, <2>2, <2>3, <1>a, <1>b DEF Calls, ServiceFrame, workerVars,
       TypeOK, CommTypeOK, AndroidTypeOK, NmapTypeOK, ClientTypeOK
<1>5. ASSUME NEW kinds, Takes(c, kinds), scan' \in [Clients -> ScanField],
             mq' \in [Senders -> Seq(ToService)], worker' \in [ScanIds -> Worker]
      PROVE  TypeOK'
  <2>1. cq' \in [Clients -> Seq(ToActivity)]
    BY <1>5, <1>a, ReplyType DEF Takes, CommTypeOK
  <2> QED
    BY <1>5, <2>1, <1>a, <1>b DEF Takes, ServiceFrame,
       TypeOK, CommTypeOK, AndroidTypeOK, NmapTypeOK, ClientTypeOK
<1>f. mq \in [Senders -> Seq(ToService)] /\ worker \in [ScanIds -> Worker] /\ scan \in [Clients -> ScanField]
  BY <1>a DEF CommTypeOK, NmapTypeOK, ClientTypeOK
<1>6. CASE RespScanIdOk(c)
  <2>1. Takes(c, {"RESP_SCAN_ID_OK"}) /\ Reply(c).id \in ScanIds \cup {NoId}
    BY <1>6, <1>a, ReplyType DEF RespScanIdOk, Takes, ToActivity
  <2>2. [scan[c] EXCEPT !.id = Reply(c).id] \in ScanField
    BY <2>1, <1>e
  <2>3. scan' \in [Clients -> ScanField]
    BY <1>6, <1>f, <2>2 DEF RespScanIdOk
  <2>4. mq' \in [Senders -> Seq(ToService)]
    <3>1. UNCHANGED mq \/ Request(c, "RQST_START_SCAN", Reply(c).id, scan[c].args)
      BY <1>6 DEF RespScanIdOk
    <3>2. scan[c].args \in 0..MaxStarts
      BY <1>e
    <3> QED
      BY <3>1, <3>2, <2>1, <1>a, <1>f, RequestType DEF RequestKind, AndroidTypeOK
  <2> QED
    BY <1>5, <1>6, <1>f, <2>1, <2>3, <2>4 DEF RespScanIdOk
<1>7. CASE RespStartScanOk(c)
  <2>1. [scan[c] EXCEPT !.started = TRUE] \in ScanField
    BY <1>e
  <2>2. scan' \in [Clients -> ScanField]
    BY <1>7, <1>f, <2>1 DEF RespStartScanOk
  <2> QED
    BY <1>5, <1>7, <1>f, <2>2 DEF RespStartScanOk
<1>8. CASE RespStopScanOk(c)
  <2>2. scan' \in [Clients -> ScanField]
    BY <1>8, <1>a, <1>f, <1>c DEF RespStopScanOk
  <2> QED
    BY <1>5, <1>8, <1>f, <2>2 DEF RespStopScanOk
<1>9. CASE NotifiedScanFinished(c)
  <2>1. [scan[c] EXCEPT !.finished = TRUE] \in ScanField
    BY <1>e
  <2>2. scan' \in [Clients -> ScanField]
    BY <1>9, <1>f, <2>1 DEF NotifiedScanFinished
  <2>3. mq' \in [Senders -> Seq(ToService)]
    <3>1. UNCHANGED mq \/ Request(c, "RQST_RESULTS", scan[c].id, 0)
      BY <1>9 DEF NotifiedScanFinished
    <3>2. scan[c].id \in ScanIds \cup {NoId}
      BY <1>e
    <3> QED
      BY <3>1, <3>2, <1>a, <1>f, RequestType DEF RequestKind, AndroidTypeOK
  <2>4. worker' \in [ScanIds -> Worker]
    <3>1. \A id \in ScanIds : [worker[id] EXCEPT !.killed = TRUE] \in Worker
      BY <1>f DEF Worker
    <3>2. \/ worker' = worker
          \/ \E id \in ScanIds : worker' = [worker EXCEPT ![id] = [worker[id] EXCEPT !.killed = TRUE]]
      BY <1>9 DEF NotifiedScanFinished, KillProcess
    <3> QED
      BY <1>f, <3>1, <3>2
  <2> QED
    BY <1>5, <1>9, <2>2, <2>3, <2>4 DEF NotifiedScanFinished
<1>10. CASE ShownToUser(c)
  BY <1>5, <1>10, <1>f DEF ShownToUser
<1> QED
  BY <1>1, <1>2, <1>3, <1>4, <1>6, <1>7, <1>8, <1>9, <1>10 DEF Activity

\* The initial states are typed.
LEMMA InitType ==
  ASSUME Init
  PROVE  TypeOK
<1>0. 0 \in 0..MaxIncarnations /\ 0 \in 0..MaxStarts /\ 0 \in 0..MaxOut
  BY BoundsAssumption, IncarnationsAssumption
<1>1. CommTypeOK
  BY DEF Init, CommInit, CommTypeOK
<1>2. AndroidTypeOK(Clients)
  BY <1>0, Zenon DEF Init, AndroidInit, AndroidTypeOK, Causes
<1>a. 1 \in Services
  BY IncarnationsAssumption DEF Services
<1>3. NmapTypeOK
  <2>1. NoWorker \in Worker
    BY <1>0, Zenon DEF NoWorker, Worker
  <2> QED
    BY <2>1, <1>a DEF Init, NmapInit, NmapTypeOK, TaskState
<1>4. ScanTypeOK
  <2>1. NoHistory \in History
    BY <1>0 DEF NoHistory, History
  <2> QED
    BY <2>1 DEF Init, ScanServiceInit, ScanTypeOK, AllFalse
<1>5. ClientTypeOK
  <2> DEFINE ScanField == [id : ScanIds \cup {NoId}, args : 0..MaxStarts,
                           started : BOOLEAN, finished : BOOLEAN]
  <2>1. NewScan(0) \in ScanField
    BY <1>0 DEF NewScan
  <2>2. \A x \in ScanField : [x EXCEPT !.finished = TRUE] \in ScanField
    OBVIOUS
  <2>3. NullScan \in ScanField
    BY <2>1, <2>2 DEF NullScan
  <2> QED
    BY <1>0, <2>3 DEF Init, ClientInit, ClientTypeOK
<1> QED
  BY <1>1, <1>2, <1>3, <1>4, <1>5 DEF TypeOK

\* Every step preserves the type invariant.
LEMMA NextType ==
  ASSUME TypeOK, [Next]_vars
  PROVE  TypeOK'
<1>1. CASE Next
  BY <1>1, LifeCycleType, HandleMessageType, PoolType, ActivityType DEF Next
<1>2. CASE UNCHANGED vars
  BY <1>2 DEF vars, commVars, androidVars, workerVars, serviceVars, clientVars,
     TypeOK, CommTypeOK, AndroidTypeOK, NmapTypeOK, ScanTypeOK, ClientTypeOK
<1> QED
  BY <1>1, <1>2

\* The service, its pool and its activities keep all their state in its types,
\* whatever the number of activities, scans, restarts and chunks of output: no
\* message has a kind its receiver does not know, no field of a Scan object or a
\* client's scan leaves its range, and nothing is read beyond nmap's output.
THEOREM TypeCorrect == Spec => []TypeOK
<1>1. Init => TypeOK
  BY InitType
<1>2. TypeOK /\ [Next]_vars => TypeOK'
  BY NextType
<1> QED
  BY <1>1, <1>2, PTL DEF Spec
=============================================================================
