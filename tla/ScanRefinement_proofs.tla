----------------------- MODULE ScanRefinement_proofs ------------------------
(***************************************************************************)
(* ScanSession implements ScanLifecycle: LifeInv is inductive beside IInv, *)
(* and under both every step of the session is a step of the life cycle    *)
(* of scans, or changes nothing of it.  What holds of every life cycle     *)
(* follows for the session.                                                *)
(***************************************************************************)
EXTENDS ScanSessionSafety_proofs

(***************************************************************************)
(* The life of one scan, in this state and the next.                       *)
(***************************************************************************)

\* LifeOf as a function of a history and a Scan object.
LifeBy(h, s) ==
  IF h.asked = 0 THEN "free"
  ELSE IF s = NoScan THEN h.left
  ELSE IF s.finished THEN "finished"
  ELSE IF s.started THEN "running"
  ELSE CASE h.told = "ok"  -> "granted"
         [] h.told = "err" -> "refused"
         [] OTHER                 -> "waiting"

\* The life of a scan follows from its history and its Scan object.
LEMMA LifeIs ==
  ASSUME NEW id \in ScanIds
  PROVE  /\ LifeOf(id) = LifeBy(hist[id], scans[id])
         /\ LifeOf(id)' = LifeBy(hist'[id], scans'[id])
<1>1. LifeOf(id) = LifeBy(hist[id], scans[id])
  BY DEF LifeOf, LifeBy, InMap
<1>2. LifeOf(id)' = LifeBy(hist'[id], scans'[id])
  BY DEF LifeOf, LifeBy, InMap, NoScan
<1> QED
  BY <1>1, <1>2

\* Each case of LifeBy.
LEMMA LifeByEach ==
  ASSUME NEW h \in History, NEW s
  PROVE  /\ h.asked = 0 => LifeBy(h, s) = "free"
         /\ h.asked # 0 /\ s = NoScan => LifeBy(h, s) = h.left
         /\ h.asked # 0 /\ s # NoScan =>
              /\ s.finished => LifeBy(h, s) = "finished"
              /\ ~s.finished /\ s.started => LifeBy(h, s) = "running"
              /\ ~s.finished /\ ~s.started /\ h.told = "ok" => LifeBy(h, s) = "granted"
              /\ ~s.finished /\ ~s.started /\ h.told = "err" => LifeBy(h, s) = "refused"
              /\ ~s.finished /\ ~s.started /\ h.told = "no" => LifeBy(h, s) = "waiting"
BY DEF LifeBy

\* The same answers, flags and end make the same life.
LEMMA LifeBySame ==
  ASSUME NEW h \in History, NEW g \in History, NEW s, NEW t,
         h.asked = g.asked, h.told = g.told, s = NoScan => h.left = g.left,
         s = NoScan <=> t = NoScan,
         s.finished = t.finished, s.started = t.started
  PROVE  LifeBy(h, s) = LifeBy(g, t)
<1>1. h.told \in {"no", "ok", "err"}
  BY DEF History
<1> QED
  BY <1>1 DEF LifeBy

\* A scan keeps its life when its answers, flags and place in the map are kept.
LEMMA SameLife ==
  ASSUME ScanTypeOK, ScanTypeOK', NEW id \in ScanIds,
         hist'[id].asked = hist[id].asked, hist'[id].told = hist[id].told,
         hist'[id].left = hist[id].left, InMap(id)' <=> InMap(id),
         scans'[id].finished = scans[id].finished, scans'[id].started = scans[id].started
  PROVE  LifeOf(id)' = LifeOf(id)
<1>1. hist[id] \in History /\ hist'[id] \in History
  BY DEF ScanTypeOK
<1>2. scans[id] = NoScan <=> scans'[id] = NoScan
  BY DEF InMap, NoScan
<1> QED
  BY <1>1, <1>2, LifeIs, LifeBySame

\* The abstract Move, from the lives before and after a step.
LEMMA MoveIs ==
  ASSUME NEW S, NEW s,
         \A k \in ScanIds : LifeOf(k)' = IF k \in S THEN s ELSE LifeOf(k)
  PROVE  Lifecycle!Move(S, s)
BY DEF Lifecycle!Move

\* The scans the abstract In and Of pick out.
LEMMA InIs ==
  ASSUME NEW states
  PROVE  Lifecycle!In(states) = {k \in ScanIds : LifeOf(k) \in states}
BY DEF Lifecycle!In

LEMMA OfIs ==
  ASSUME NEW s, NEW states
  PROVE  Lifecycle!Of(s, states) = {k \in ScanIds : LifeOf(k) \in states /\ owner[k] = s}
BY InIs DEF Lifecycle!Of

(***************************************************************************)
(* LifeInv is inductive beside IInv.                                       *)
(***************************************************************************)

\* The messages after the first move up.
LEMMA TailAt ==
  ASSUME NEW S, NEW q \in Seq(S), q # <<>>
  PROVE  \A i \in 1..Len(Tail(q)) : Tail(q)[i] = q[i + 1]
<1>1. Tail(q) \in Seq(S) /\ Len(Tail(q)) = Len(q) - 1 /\ Len(q) \in Nat /\ Len(q) > 0
  OBVIOUS
<1>2. \A i \in 1..Len(Tail(q)) : Tail(q)[i] = q[i + 1] /\ i + 1 \in 1..Len(q)
  BY <1>1
<1> QED
  BY <1>2

\* The end of a scan stays the last message of its queue when messages are taken.
LEMMA TailKeepsEnd ==
  ASSUME NEW S, NEW q \in Seq(S), q # <<>>,
         \A i \in 1..Len(q) : q[i].what = "NOTIFY_SCAN_FINISHED" => i = Len(q)
  PROVE  /\ \A i \in 1..Len(Tail(q)) : Tail(q)[i].what = "NOTIFY_SCAN_FINISHED" => i = Len(Tail(q))
         /\ Head(q).what = "NOTIFY_SCAN_FINISHED" => Tail(q) = <<>>
<1>1. Tail(q) \in Seq(S) /\ Len(Tail(q)) = Len(q) - 1 /\ Len(q) \in Nat /\ Len(q) > 0
  OBVIOUS
<1>2. PICK n \in Nat : n = Len(q) /\ n > 0 /\ Len(Tail(q)) = n - 1
  BY <1>1
<1>3. \A i \in 1..n - 1 : Tail(q)[i] = q[i + 1]
  <2>1. \A i \in 1..Len(Tail(q)) : Tail(q)[i] = q[i + 1]
    BY TailAt
  <2> QED
    BY <1>2, <2>1
<1>4. ASSUME NEW i \in 1..n - 1, Tail(q)[i].what = "NOTIFY_SCAN_FINISHED"
      PROVE  i = n - 1
  <2>1. i + 1 \in 1..n /\ q[i + 1].what = "NOTIFY_SCAN_FINISHED"
    BY <1>2, <1>3, <1>4
  <2>2. i + 1 = n
    BY <1>2, <2>1
  <2> QED
    BY <1>2, <2>2
<1>5. ASSUME Head(q).what = "NOTIFY_SCAN_FINISHED" PROVE Tail(q) = <<>>
  <2>1. q[1].what = "NOTIFY_SCAN_FINISHED"
    BY <1>5
  <2>2. 1 \in 1..n
    BY <1>2
  <2>3. n = 1
    BY <1>2, <2>1, <2>2
  <2>4. Len(Tail(q)) = 0
    BY <1>2, <2>3
  <2> QED
    BY <1>1, <2>4, EmptyOfLen
<1> QED
  BY <1>2, <1>4, <1>5

\* Most steps keep LifeInv: no id is given out, no Runnable posts, and what leaves
\* the map was started.
LEMMA LifeInvStep ==
  ASSUME IInv, LifeInv,
         \A k \in ScanIds :
           /\ hist'[k].asked = hist[k].asked
           /\ hist'[k].left = "no" => hist[k].left = "no" /\ (InMap(k) => InMap(k)')
           /\ ~InMap(k) => hist'[k].left = hist[k].left
           /\ InMap(k)' => InMap(k)
           /\ InMap(k)' /\ scans'[k].started => scans[k].started \/ hist'[k].told = "ok"
           /\ InMap(k)' /\ hist[k].told = "ok" => hist'[k].told = "ok"
           /\ worker'[k].pc = "idle" => worker[k].pc = "idle" /\ worker'[k].out = worker[k].out
           /\ Alive(k)' /\ worker'[k].interrupted =>
                \/ hist'[k].left \in {"stopped", "cleared"}
                \/ Alive(k) /\ worker[k].interrupted
           /\ mq'[k] = mq[k] \/ mq'[k] = <<>> \/ (mq[k] # <<>> /\ mq'[k] = Tail(mq[k]))
           /\ scans'[k].finished => scans[k].finished \/ mq'[k] = <<>>
           /\ InMap(k) /\ ~InMap(k)' => hist'[k].left \in {"stopped", "cleared"} \/ mq'[k] = <<>>,
         owner' = owner,
         \A t \in Services : pending_RQST_SCAN_ID'[t] =>
           /\ pending_RQST_SCAN_ID[t]
           /\ \A k \in MapOf(t) : hist[k].told = "no" => InMap(k)' /\ hist'[k].told = "no"
  PROVE  LifeInv'
<1>1. KeptUntilLeft'
  BY DEF KeptUntilLeft, LifeInv
<1>2. StartedIsGranted'
  BY DEF StartedIsGranted, LifeInv
<1>3. PendingIsWaitedFor'
  <2> SUFFICES ASSUME NEW t \in Services, pending_RQST_SCAN_ID'[t]
               PROVE  \E k \in MapOf(t)' : hist'[k].told = "no"
    BY DEF PendingIsWaitedFor
  <2>1. PICK k \in MapOf(t) : hist[k].told = "no"
    BY DEF PendingIsWaitedFor, LifeInv
  <2>2. InMap(k)' /\ hist'[k].told = "no" /\ owner'[k] = t /\ k \in ScanIds
    BY <2>1 DEF MapOf, MapIds
  <2> QED
    BY <2>2 DEF MapOf, MapIds
<1>4. InterruptedHasLeft'
  <2>1. \A k \in ScanIds : Alive(k) /\ worker[k].interrupted => ~InMap(k)
    BY DEF InterruptedHasLeft, LifeInv, WorkersFollowScans, IInv
  <2> QED
    BY <2>1 DEF InterruptedHasLeft, LifeInv
<1>5. ASSUME NEW k \in ScanIds
      PROVE  /\ \A i \in 1..Len(mq'[k]) : mq'[k][i].what = "NOTIFY_SCAN_FINISHED" => i = Len(mq'[k])
             /\ mq[k] = <<>> => mq'[k] = <<>>
  <2>1. mq[k] \in Seq(ToService)
    BY DEF IInv, TypeOK, CommTypeOK, Senders
  <2>2. \A i \in 1..Len(mq[k]) : mq[k][i].what = "NOTIFY_SCAN_FINISHED" => i = Len(mq[k])
    BY DEF LifeInv, EndIsLast
  <2>3. CASE mq'[k] = mq[k]
    BY <2>2, <2>3
  <2>4. CASE mq'[k] = <<>>
    BY <2>4
  <2>5. CASE mq[k] # <<>> /\ mq'[k] = Tail(mq[k])
    BY <2>1, <2>2, <2>5, TailKeepsEnd
  <2> QED
    BY <2>3, <2>4, <2>5
<1>6. EndIsLast'
  BY <1>5 DEF EndIsLast, LifeInv
<1>7. UnknownWasStopped'
  BY <1>5 DEF UnknownWasStopped, LifeInv
<1> QED
  BY <1>1, <1>2, <1>3, <1>4, <1>6, <1>7 DEF LifeInv

\* A step that leaves the Scan objects, the Runnables and the messages of the
\* Runnables alone keeps LifeInv.
LEMMA LifeInvSame ==
  ASSUME IInv, LifeInv, UNCHANGED <<scans, hist, pending_RQST_SCAN_ID, owner>>,
         \A k \in ScanIds : /\ worker'[k].pc = worker[k].pc
                            /\ worker'[k].out = worker[k].out
                            /\ worker'[k].interrupted = worker[k].interrupted
                            /\ mq'[k] = mq[k]
  PROVE  LifeInv'
<1>1. \A k \in ScanIds : (InMap(k)' <=> InMap(k)) /\ (Alive(k)' <=> Alive(k))
  BY DEF InMap, NoScan, Alive
<1>2. \A k \in ScanIds : scans'[k] = scans[k] /\ hist'[k] = hist[k]
  OBVIOUS
<1>3. \A k \in ScanIds :
        /\ hist'[k].asked = hist[k].asked
        /\ hist'[k].left = "no" => hist[k].left = "no" /\ (InMap(k) => InMap(k)')
        /\ ~InMap(k) => hist'[k].left = hist[k].left
        /\ InMap(k)' => InMap(k)
        /\ InMap(k)' /\ scans'[k].started => scans[k].started \/ hist'[k].told = "ok"
        /\ InMap(k)' /\ hist[k].told = "ok" => hist'[k].told = "ok"
        /\ worker'[k].pc = "idle" => worker[k].pc = "idle" /\ worker'[k].out = worker[k].out
        /\ Alive(k)' /\ worker'[k].interrupted =>
             \/ hist'[k].left \in {"stopped", "cleared"}
             \/ Alive(k) /\ worker[k].interrupted
        /\ mq'[k] = mq[k] \/ mq'[k] = <<>> \/ (mq[k] # <<>> /\ mq'[k] = Tail(mq[k]))
        /\ scans'[k].finished => scans[k].finished \/ mq'[k] = <<>>
        /\ InMap(k) /\ ~InMap(k)' => hist'[k].left \in {"stopped", "cleared"} \/ mq'[k] = <<>>
  BY <1>1, <1>2
<1>4. \A t \in Services : pending_RQST_SCAN_ID'[t] =>
           /\ pending_RQST_SCAN_ID[t]
           /\ \A k \in MapOf(t) : hist[k].told = "no" => InMap(k)' /\ hist'[k].told = "no"
  BY <1>1 DEF MapOf, MapIds
<1> QED
  BY <1>3, <1>4, LifeInvStep

(***************************************************************************)
(* The steps of ScanLifecycle, in terms of the session.                    *)
(***************************************************************************)
LifeStep == [Lifecycle!Next]_(Lifecycle!vars)

\* What a step must leave alone to change nothing of a scan.
Untouched(id) ==
  /\ hist'[id].asked = hist[id].asked
  /\ hist'[id].told = hist[id].told
  /\ hist'[id].left = hist[id].left
  /\ InMap(id)' <=> InMap(id)
  /\ scans'[id].started = scans[id].started
  /\ scans'[id].finished = scans[id].finished

\* A step that leaves a scan alone leaves its life alone.
LEMMA UntouchedLife ==
  ASSUME TypeOK, TypeOK', NEW id \in ScanIds, Untouched(id)
  PROVE  LifeOf(id)' = LifeOf(id)
BY SameLife DEF Untouched, TypeOK

\* What the service and the Runnables hold of the output, for the life cycle.
SameOutput == \A id \in ScanIds : worker'[id].out = worker[id].out

SameDelivered == \A id \in ScanIds : hist'[id].delivered = hist[id].delivered

\* The service objects are as ready as before, and have the scans they had.
SameServices == owner' = owner /\ \A t \in Services : SetUp(t)' = SetUp(t)

\* Only service object s has become ready.
BecomesReady(s) ==
  owner' = owner /\ \A t \in Services : SetUp(t)' = IF t = s THEN TRUE ELSE SetUp(t)

\* A step that leaves every scan and its output alone is a stutter.
LEMMA StutterIs ==
  ASSUME TypeOK, TypeOK', SameServices, SameOutput, SameDelivered,
         \A id \in ScanIds : Untouched(id)
  PROVE  LifeStep
<1>1. \A id \in ScanIds : LifeOf(id)' = LifeOf(id)
  BY UntouchedLife
<1>2. UNCHANGED Lifecycle!vars
  BY <1>1 DEF Lifecycle!vars, SameServices, SameOutput, SameDelivered
<1> QED
  BY <1>2 DEF LifeStep

\* The life of one scan moves on; the others keep theirs.
LEMMA OneMoves ==
  ASSUME TypeOK, TypeOK', NEW id \in ScanIds, NEW s, LifeOf(id)' = s,
         \A k \in ScanIds : k # id => Untouched(k)
  PROVE  Lifecycle!Move({id}, s)
<1>1. \A k \in ScanIds : k # id => LifeOf(k)' = LifeOf(k)
  BY UntouchedLife
<1> QED
  BY <1>1, MoveIs

\* A granted scan that runs is the abstract Run.
LEMMA RunIs ==
  ASSUME NEW id \in ScanIds, SameServices, SameOutput, SameDelivered,
         LifeOf(id) = "granted", Lifecycle!Move({id}, "running")
  PROVE  LifeStep
<1>1. Lifecycle!Run(id)
  BY DEF Lifecycle!Run, SameServices, SameOutput, SameDelivered
<1> QED
  BY <1>1 DEF LifeStep, Lifecycle!Next

\* A free scan that waits, or is granted by a service set up, is the abstract Ask.
LEMMA AskIs ==
  ASSUME NEW id \in ScanIds, NEW s \in Services, owner' = [owner EXCEPT ![id] = s],
         \A t \in Services : SetUp(t)' = SetUp(t), SameOutput, SameDelivered, LifeOf(id) = "free",
         Lifecycle!Move({id}, IF SetUp(s) THEN "granted" ELSE "waiting")
  PROVE  LifeStep
<1>1. Lifecycle!Ask(id, s)
  BY DEF Lifecycle!Ask, SameOutput, SameDelivered
<1> QED
  BY <1>1 DEF LifeStep, Lifecycle!Next

\* A running scan that finishes is the abstract Finish.
LEMMA FinishIs ==
  ASSUME NEW id \in ScanIds, SameServices, SameOutput, SameDelivered,
         LifeOf(id) = "running", Lifecycle!Move({id}, "finished")
  PROVE  LifeStep
<1>1. Lifecycle!Finish(id)
  BY DEF Lifecycle!Finish, SameServices, SameOutput, SameDelivered
<1> QED
  BY <1>1 DEF LifeStep, Lifecycle!Next

\* A running or finished scan that leaves as stopped is the abstract Stop.
LEMMA StopIs ==
  ASSUME NEW id \in ScanIds, SameServices, SameOutput, SameDelivered,
         LifeOf(id) \in {"running", "finished"}, Lifecycle!Move({id}, "stopped")
  PROVE  LifeStep
<1>1. Lifecycle!Stop(id)
  BY DEF Lifecycle!Stop, SameServices, SameOutput, SameDelivered
<1> QED
  BY <1>1 DEF LifeStep, Lifecycle!Next

\* One more chunk of output of one scan is the abstract Output.
LEMMA OutputIs ==
  ASSUME TypeOK, TypeOK', NEW id \in ScanIds, SameServices, SameDelivered,
         \A k \in ScanIds : Untouched(k),
         LifeOf(id) \in {"running", "stopped", "cleared"},
         worker'[id].out = worker[id].out + 1,
         \A k \in ScanIds : k # id => worker'[k].out = worker[k].out
  PROVE  LifeStep
<1>1. \A k \in ScanIds : LifeOf(k)' = LifeOf(k)
  BY UntouchedLife
<1>2. Lifecycle!Output(id)
  BY <1>1 DEF Lifecycle!Output, SameServices, SameDelivered
<1> QED
  BY <1>2 DEF LifeStep, Lifecycle!Next

\* The output is handed over: of a running scan so far, of a finished one for good.
LEMMA ShowIs ==
  ASSUME TypeOK, TypeOK', NEW id \in ScanIds, SameServices, SameOutput,
         \A k \in ScanIds : Untouched(k), LifeOf(id) = "running",
         hist'[id].delivered = worker[id].out,
         \A k \in ScanIds : k # id => hist'[k].delivered = hist[k].delivered
  PROVE  LifeStep
<1>1. \A k \in ScanIds : LifeOf(k)' = LifeOf(k)
  BY UntouchedLife
<1>2. Lifecycle!Show(id)
  BY <1>1 DEF Lifecycle!Show, SameServices, SameOutput
<1> QED
  BY <1>2 DEF LifeStep, Lifecycle!Next

\* A finished scan that leaves with its output is the abstract Collect.
LEMMA CollectIs ==
  ASSUME NEW id \in ScanIds, SameServices, SameOutput,
         LifeOf(id) = "finished", Lifecycle!Move({id}, "collected"),
         hist'[id].delivered = worker[id].out,
         \A k \in ScanIds : k # id => hist'[k].delivered = hist[k].delivered
  PROVE  LifeStep
<1>1. Lifecycle!Collect(id)
  BY DEF Lifecycle!Collect, SameServices, SameOutput
<1> QED
  BY <1>1 DEF LifeStep, Lifecycle!Next

\* The scans in the map are those the life cycle holds.
LEMMA HeldIsInMap ==
  ASSUME TypeOK, IInv, NEW id \in ScanIds
  PROVE  /\ InMap(id) => LifeOf(id) \in Lifecycle!Held
         /\ ~InMap(id) => LifeOf(id) \notin Lifecycle!Held
<1>1. hist[id] \in History /\ hist[id].told \in {"no", "ok", "err"}
  BY DEF TypeOK, ScanTypeOK, History
<1>2. InMap(id) => hist[id].asked # 0
  BY DEF UnaskedIsUnused, IInv
<1>3. hist[id].left \in {"no", "stopped", "collected", "cleared", "died"}
  BY <1>1 DEF History
<1>4. CASE InMap(id)
  BY <1>1, <1>2, <1>4, LifeIs, LifeByEach DEF Lifecycle!Held, InMap
<1>5. CASE ~InMap(id)
  BY <1>1, <1>3, <1>5, LifeIs, LifeByEach DEF Lifecycle!Held, InMap
<1> QED
  BY <1>4, <1>5

\* A scan that leaves the map takes the way it left as its life.
LEMMA LeavingLife ==
  ASSUME IInv, TypeOK', NEW id \in ScanIds, InMap(id), scans'[id] = NoScan,
         hist'[id].asked = hist[id].asked
  PROVE  LifeOf(id)' = hist'[id].left
<1>1. hist'[id] \in History /\ hist'[id].asked # 0
  BY DEF IInv, TypeOK, ScanTypeOK, UnaskedIsUnused
<1> QED
  BY <1>1, LifeIs, LifeByEach

\* Scans leave the map together, at the end of their service or of its process.
LEMMA TheseLeave ==
  ASSUME TypeOK, TypeOK', IInv, NEW S, NEW how,
         \A k \in ScanIds : IF k \in S
                            THEN /\ InMap(k) /\ scans'[k] = NoScan
                                 /\ hist'[k].asked = hist[k].asked
                                 /\ hist'[k].left = how
                            ELSE Untouched(k)
  PROVE  Lifecycle!Move(S, how)
<1>1. \A k \in ScanIds : LifeOf(k)' = IF k \in S THEN how ELSE LifeOf(k)
  BY LeavingLife, UntouchedLife
<1> QED
  BY <1>1, MoveIs

\* The end of every scan in the map, with the setup, is the abstract Die.
LEMMA DieIs ==
  ASSUME owner' = owner, \A t \in Services : SetUp(t)' = FALSE, SameOutput, SameDelivered,
         Lifecycle!Move(Lifecycle!In(Lifecycle!Held), "died")
  PROVE  LifeStep
<1>1. Lifecycle!Die
  BY DEF Lifecycle!Die, SameOutput, SameDelivered
<1> QED
  BY <1>1 DEF LifeStep, Lifecycle!Next

\* The removal of every scan of a service, all started, is the abstract Clear.
LEMMA ClearIs ==
  ASSUME NEW s \in Services, SameServices, SameOutput, SameDelivered,
         Lifecycle!Of(s, {"waiting", "granted", "refused"}) = {},
         Lifecycle!Move(Lifecycle!Of(s, Lifecycle!Held), "cleared")
  PROVE  LifeStep
<1>1. Lifecycle!Clear(s)
  BY DEF Lifecycle!Clear, SameServices, SameOutput, SameDelivered
<1> QED
  BY <1>1 DEF LifeStep, Lifecycle!Next

(***************************************************************************)
(* The steps of the session.                                               *)
(***************************************************************************)

\* The end of the process ends the life of every scan in the map.
LEMMA DiesLife ==
  ASSUME IInv, LifeInv, TypeOK', NEW why, Dies(why)
  PROVE  LifeInv' /\ LifeStep
<1> TypeOK /\ ScanTypeOK /\ NmapTypeOK
  BY DEF IInv, TypeOK
<1>1. \A k \in ScanIds : /\ scans'[k] = NoScan
                         /\ InMap(k) => hist'[k].left = "died"
                         /\ ~InMap(k) => hist'[k].left = hist[k].left
                         /\ hist'[k].asked = hist[k].asked
                         /\ hist'[k].told = hist[k].told
                         /\ hist'[k].delivered = hist[k].delivered
  <2>1. Leave(MapIds, "died")
    BY DEF Dies
  <2>2. \A k \in ScanIds : k \notin MapIds => scans[k] = NoScan
    BY DEF MapIds, InMap
  <2>3. \A k \in ScanIds : InMap(k) <=> k \in MapIds
    BY DEF MapIds
  <2> QED
    BY <2>1, <2>2, <2>3, LeaveEffect
<1>2. \A k \in ScanIds : ~InMap(k)' /\ ~scans'[k].started /\ ~scans'[k].finished
  <2>1. ~NoScan.started /\ ~NoScan.finished
    BY DEF NoScan
  <2>2. \A k \in ScanIds : ~InMap(k)'
    BY <1>1 DEF InMap, NoScan
  <2> QED
    BY <1>1, <2>1, <2>2
<1>3. \A k \in ScanIds : /\ ~Alive(k)'
                         /\ worker'[k].pc = "idle" => worker[k].pc = "idle"
                         /\ worker'[k].out = worker[k].out
  <2>1. ASSUME NEW k \in ScanIds
        PROVE  worker'[k] = IF Alive(k) THEN [worker[k] EXCEPT !.pc = "done"] ELSE worker[k]
    BY DEF Dies, PoolDies
  <2>2. \A w \in Worker : [w EXCEPT !.pc = "done"].pc = "done" /\ [w EXCEPT !.pc = "done"].out = w.out
    BY DEF Worker
  <2>3. \A k \in ScanIds : worker[k] \in Worker
    BY DEF NmapTypeOK
  <2> QED
    BY <2>1, <2>2, <2>3 DEF Alive
<1>4. \A k \in ScanIds : mq'[k] = <<>>
  BY DEF Dies, Senders
<1>5. /\ owner' = owner
      /\ \A t \in Services : ~pending_RQST_SCAN_ID'[t] /\ SetUp(t)' = FALSE
  BY DEF Dies, PoolDies, AllFalse, SetUp
<1>6. LifeInv'
  BY <1>1, <1>2, <1>3, <1>4, <1>5, LifeInvStep
<1>7. SameOutput /\ SameDelivered
  BY <1>1, <1>3 DEF SameOutput, SameDelivered
<1>8. Lifecycle!Move(Lifecycle!In(Lifecycle!Held), "died")
  <2>1. \A k \in ScanIds : k \in Lifecycle!In(Lifecycle!Held) <=> InMap(k)
    BY InIs, HeldIsInMap
  <2>2. \A k \in ScanIds : ~InMap(k) => Untouched(k)
    BY <1>1, <1>2 DEF Untouched, InMap
  <2> QED
    BY <1>1, <2>1, <2>2, TheseLeave
<1> QED
  BY <1>5, <1>6, <1>7, <1>8, DieIs

\* A step that leaves the service's fields, the Runnables' progress and their
\* messages alone changes nothing of any scan.
LEMMA SameIsStutter ==
  ASSUME IInv, LifeInv, TypeOK', UNCHANGED <<scans, hist, pending_RQST_SCAN_ID>>, SameServices,
         \A k \in ScanIds : /\ worker'[k].pc = worker[k].pc
                            /\ worker'[k].out = worker[k].out
                            /\ worker'[k].interrupted = worker[k].interrupted
                            /\ mq'[k] = mq[k]
  PROVE  LifeInv' /\ LifeStep
<1>1. LifeInv'
  BY LifeInvSame DEF SameServices
<1>2. \A k \in ScanIds : Untouched(k)
  BY DEF Untouched, InMap, NoScan
<1>3. SameOutput /\ SameDelivered
  BY DEF SameOutput, SameDelivered
<1>4. TypeOK
  BY DEF IInv
<1> QED
  BY <1>1, <1>2, <1>3, <1>4, StutterIs

\* onDestroy clears the scans, if each was started, or ends the process.
LEMMA OnDestroyLife ==
  ASSUME IInv, LifeInv, TypeOK', OnDestroy
  PROVE  LifeInv' /\ LifeStep
<1>1. CASE Dies("onDestroy")
  BY <1>1, DiesLife
<1>2. CASE ~Dies("onDestroy")
  <2> TypeOK /\ ScanTypeOK /\ NmapTypeOK
    BY DEF IInv, TypeOK
  <2>0. PICK s : s = incarnation
    OBVIOUS
  <2>1. /\ Cancel(MapOf(s)) /\ Leave(MapOf(s), "cleared")
        /\ \A k \in MapOf(s) : scans[k].started
        /\ UNCHANGED <<rootAcqisitionFinished, nativeInstalled, pending_RQST_SCAN_ID, owner, mq>>
    BY <1>2, <2>0 DEF OnDestroy, commVars
  <2>2. \A k \in ScanIds : k \in MapOf(s) <=> InMap(k) /\ owner[k] = s
    BY DEF MapOf, MapIds
  <2>3. \A k \in ScanIds : /\ k \in MapOf(s) => scans'[k] = NoScan /\ hist'[k].left = "cleared"
                           /\ k \notin MapOf(s) => scans'[k] = scans[k] /\ hist'[k].left = hist[k].left
                           /\ hist'[k].asked = hist[k].asked
                           /\ hist'[k].told = hist[k].told
                           /\ hist'[k].delivered = hist[k].delivered
    BY <2>1, LeaveEffect
  <2>4. /\ \A k \in ScanIds : InMap(k)' <=> InMap(k) /\ k \notin MapOf(s)
        /\ ~NoScan.finished
    BY <2>3 DEF InMap, NoScan
  <2>5. \A k \in ScanIds : /\ worker'[k].pc = "idle" => worker[k].pc = "idle"
                           /\ Alive(k)' => Alive(k)
                           /\ k \notin MapOf(s) => worker'[k] = worker[k]
                           /\ worker'[k].out = worker[k].out
    BY <2>1, CancelEffect
  <2>6. \A k \in MapOf(s) : k \in ScanIds /\ InMap(k) /\ hist[k].told = "ok"
    BY <2>1 DEF StartedIsGranted, LifeInv, MapOf, MapIds
  <2>7. ASSUME NEW t \in Services, pending_RQST_SCAN_ID'[t]
        PROVE  /\ pending_RQST_SCAN_ID[t]
               /\ \A k \in MapOf(t) : hist[k].told = "no" => InMap(k)' /\ hist'[k].told = "no"
    <3>1. \A k \in MapOf(t) : k \in ScanIds /\ InMap(k)
      BY DEF MapOf, MapIds
    <3> QED
      BY <2>1, <2>3, <2>4, <2>6, <2>7, <3>1
  <2>8. LifeInv'
    <3>1. ASSUME NEW k \in ScanIds
          PROVE  /\ hist'[k].left = "no" => hist[k].left = "no" /\ (InMap(k) => InMap(k)')
                 /\ ~InMap(k) => hist'[k].left = hist[k].left
                 /\ InMap(k)' => InMap(k) /\ scans'[k].started = scans[k].started
                 /\ Alive(k)' /\ worker'[k].interrupted =>
                      \/ hist'[k].left \in {"stopped", "cleared"}
                      \/ Alive(k) /\ worker[k].interrupted
                 /\ scans'[k].finished => scans[k].finished
                 /\ InMap(k) /\ ~InMap(k)' => hist'[k].left \in {"stopped", "cleared"}
      BY <2>3, <2>4, <2>5, <2>6
    <3> QED
      BY <2>1, <2>3, <2>5, <2>7, <3>1, LifeInvStep
  <2>9. SameOutput /\ SameDelivered /\ SameServices
    BY <2>1, <2>3, <2>5 DEF SameOutput, SameDelivered, SameServices, SetUp
  <2>10. \A k \in ScanIds : k \notin MapOf(s) => Untouched(k)
    BY <2>3, <2>4 DEF Untouched
  <2>11. CASE s \in Services
    <3>1. \A k \in ScanIds : k \in Lifecycle!Of(s, Lifecycle!Held) <=> k \in MapOf(s)
      BY <2>2, OfIs, HeldIsInMap
    <3>2. Lifecycle!Move(Lifecycle!Of(s, Lifecycle!Held), "cleared")
      BY <2>3, <2>6, <2>10, <3>1, TheseLeave
    <3>3. ASSUME NEW k \in ScanIds, owner[k] = s
          PROVE  LifeOf(k) \notin {"waiting", "granted", "refused"}
      <4>1. hist[k] \in History /\ hist[k].left \in {"no", "stopped", "collected", "cleared", "died"}
        BY DEF ScanTypeOK, History
      <4>2. CASE InMap(k)
        <5>1. hist[k].asked # 0 /\ scans[k].started /\ scans[k] # NoScan
          BY <2>1, <2>2, <3>3, <4>2 DEF UnaskedIsUnused, IInv, InMap
        <5> QED
          BY <4>1, <5>1, LifeIs, LifeByEach
      <4>3. CASE ~InMap(k)
        BY <4>1, <4>3, LifeIs, LifeByEach DEF InMap
      <4> QED
        BY <4>2, <4>3
    <3>4. Lifecycle!Of(s, {"waiting", "granted", "refused"}) = {}
      BY <3>3, OfIs
    <3> QED
      BY <2>8, <2>9, <2>11, <3>2, <3>4, ClearIs
  <2>12. CASE s \notin Services
    <3>1. \A k \in ScanIds : Untouched(k)
      BY <2>2, <2>10, <2>12 DEF NmapTypeOK
    <3> QED
      BY <2>8, <2>9, <3>1, StutterIs
  <2> QED
    BY <2>11, <2>12
<1> QED
  BY <1>1, <1>2

\* The callbacks of the service: only its end is an event in the life of scans.
LEMMA LifeCycleLife ==
  ASSUME IInv, LifeInv, TypeOK', LifeCycle
  PROVE  LifeInv' /\ LifeStep
<1>1. CASE OnCreate
  <2>1. PICK new \in Services : new = incarnation + 1 /\ incarnation' = new
    BY <1>1 DEF OnCreate, ServiceCreated, IInv, TypeOK, AndroidTypeOK, Services
  <2>2. /\ UNCHANGED <<scans, hist, pending_RQST_SCAN_ID, worker, owner, mq, rootAcqisitionFinished>>
        /\ nativeInstalled' = [nativeInstalled EXCEPT ![new] = nativePref]
    BY <1>1, <2>1 DEF OnCreate, commVars
  <2>3. ~rootAcqisitionFinished[new]
    BY <2>1 DEF AbsentIsIdle, IInv, TypeOK, AndroidTypeOK
  <2>4. SameServices
    <3>1. \A t \in Services : t # new => nativeInstalled'[t] = nativeInstalled[t]
      BY <2>2 DEF IInv, TypeOK, ScanTypeOK
    <3> QED
      BY <2>2, <2>3, <3>1 DEF SameServices, SetUp
  <2> QED
    BY <2>2, <2>4, SameIsStutter
<1>2. CASE OnBind \/ OnUnbind
  <2>1. UNCHANGED <<scans, hist, pending_RQST_SCAN_ID, worker, owner, mq, rootAcqisitionFinished,
                    nativeInstalled>>
    BY <1>2 DEF OnBind, OnUnbind, serviceVars, workerVars, commVars
  <2>2. SameServices
    BY <2>1 DEF SameServices, SetUp
  <2> QED
    BY <2>1, <2>2, SameIsStutter
<1>3. CASE OnDestroy
  BY <1>3, OnDestroyLife
<1>4. CASE ProcessLost
  BY <1>4, DiesLife DEF ProcessLost
<1> QED
  BY <1>1, <1>2, <1>3, <1>4 DEF LifeCycle

\* An activity changes nothing of its scans but through messages.
LEMMA ActivityLife ==
  ASSUME IInv, LifeInv, TypeOK', NEW c \in Clients, Activity(c)
  PROVE  LifeInv' /\ LifeStep
<1>1. /\ UNCHANGED <<serviceVars, owner>>
      /\ \A k \in ScanIds : /\ worker'[k].pc = worker[k].pc
                            /\ worker'[k].interrupted = worker[k].interrupted
                            /\ worker'[k].out = worker[k].out
      /\ \A s \in Senders : s # c => mq'[s] = mq[s]
  BY ActivityEffect DEF IInv
<1>2. \A k \in ScanIds : k \in Senders /\ k # c
  BY SendersDistinct
<1>3. /\ UNCHANGED <<scans, hist, pending_RQST_SCAN_ID>>
      /\ SameServices
      /\ \A k \in ScanIds : mq'[k] = mq[k]
  BY <1>1, <1>2 DEF serviceVars, SameServices, SetUp
<1> QED
  BY <1>1, <1>3, SameIsStutter

\* The setup Runnables say nothing of scans.
LEMMA SetupLife ==
  ASSUME IInv, LifeInv, TypeOK', NEW s \in Services, AcquireRoot(s) \/ SetupNative(s),
         UNCHANGED <<androidVars, serviceVars, clientVars>>
  PROVE  LifeInv' /\ LifeStep
<1> CommTypeOK
  BY DEF IInv, TypeOK
<1>1. UNCHANGED <<serviceVars, worker, owner>>
  BY DEF AcquireRoot, SetupNative
<1>2. /\ Root(s) \in Senders /\ Setup(s) \in Senders
      /\ Root(s) \notin ScanIds /\ Setup(s) \notin ScanIds
      /\ ScanIds \subseteq Senders
  BY SendersDistinct
<1>3. \A k \in ScanIds : mq'[k] = mq[k]
  BY <1>2, PostEffect DEF AcquireRoot, SetupNative
<1>4. UNCHANGED <<scans, hist, pending_RQST_SCAN_ID>> /\ SameServices
  BY <1>1 DEF serviceVars, SameServices, SetUp
<1> QED
  BY <1>1, <1>3, <1>4, SameIsStutter

\* A message posted behind others that are no end of a scan.
LEMMA AppendKeepsEnd ==
  ASSUME NEW S, NEW q \in Seq(S), NEW m,
         \A n \in Range(q) : n.what # "NOTIFY_SCAN_FINISHED"
  PROVE  \A i \in 1..Len(Append(q, m)) :
           Append(q, m)[i].what = "NOTIFY_SCAN_FINISHED" => i = Len(Append(q, m))
<1>1. Len(Append(q, m)) = Len(q) + 1 /\ Len(q) \in Nat
  OBVIOUS
<1>2. \A i \in 1..Len(q) : Append(q, m)[i] = q[i]
  OBVIOUS
<1>3. \A i \in 1..Len(q) : q[i] \in Range(q)
  <2>1. DOMAIN q = 1..Len(q)
    OBVIOUS
  <2> QED
    BY <2>1 DEF Range
<1>4. ASSUME NEW i \in 1..Len(q) + 1, Append(q, m)[i].what = "NOTIFY_SCAN_FINISHED"
      PROVE  i = Len(q) + 1
  <2>1. CASE i \in 1..Len(q)
    BY <1>2, <1>3, <1>4, <2>1
  <2> QED
    BY <1>1, <2>1
<1> QED
  BY <1>1, <1>4

\* What a Runnable has read grows by a chunk or stays.
LEMMA RunNmapReads ==
  ASSUME TypeOK, NEW id \in ScanIds, RunNmap(id)
  PROVE  /\ worker'[id].out = worker[id].out \/ worker'[id].out = worker[id].out + 1
         /\ mq'[id] = mq[id] \/ \E m : mq'[id] = Append(mq[id], m)
<1> CommTypeOK /\ NmapTypeOK
  BY DEF TypeOK
<1>1. worker \in [ScanIds -> Worker] /\ worker[id] \in Worker
  BY DEF NmapTypeOK
<1>2. \/ \E p \in {"reading", "done"} : worker' = [worker EXCEPT ![id] = [worker[id] EXCEPT !.pc = p]]
      \/ worker' = [worker EXCEPT ![id] = [worker[id] EXCEPT !.pc = "reading", !.killed = TRUE]]
      \/ worker' = [worker EXCEPT ![id] = [worker[id] EXCEPT !.out = worker[id].out + 1]]
  BY DEF RunNmap, RunWithoutArguments, ExecFails, ExecScan, WriteFails, ReadChunk, ReadEnd,
         ReadFails, RunTo
<1>3. \/ \E p \in {"reading", "done"} : worker'[id] = [worker[id] EXCEPT !.pc = p]
      \/ worker'[id] = [worker[id] EXCEPT !.pc = "reading", !.killed = TRUE]
      \/ worker'[id] = [worker[id] EXCEPT !.out = worker[id].out + 1]
  BY <1>1, <1>2
<1>4. \A w \in Worker : /\ \A p : [w EXCEPT !.pc = p].out = w.out
                        /\ [w EXCEPT !.pc = "reading", !.killed = TRUE].out = w.out
                        /\ \A n : [w EXCEPT !.out = n].out = n
  BY DEF Worker
<1>5. worker'[id].out = worker[id].out \/ worker'[id].out = worker[id].out + 1
  <2>1. CASE \E p \in {"reading", "done"} : worker'[id] = [worker[id] EXCEPT !.pc = p]
    BY <1>1, <1>4, <2>1
  <2>2. CASE worker'[id] = [worker[id] EXCEPT !.pc = "reading", !.killed = TRUE]
    BY <1>1, <1>4, <2>2
  <2>3. CASE worker'[id] = [worker[id] EXCEPT !.out = worker[id].out + 1]
    <3>1. PICK n : n = worker[id].out + 1
      OBVIOUS
    <3>2. worker'[id] = [worker[id] EXCEPT !.out = n]
      BY <2>3, <3>1
    <3>3. worker'[id].out = n
      BY <1>1, <1>4, <3>2
    <3> QED
      BY <3>1, <3>3
  <2> QED
    BY <1>3, <2>1, <2>2, <2>3
<1>6. mq'[id] = mq[id] \/ \E m : mq'[id] = Append(mq[id], m)
  <2>1. id \in Senders
    BY DEF Senders
  <2>2. mq' = mq \/ \E what : Post(id, owner[id], what, id, 0)
    BY DEF RunNmap, RunWithoutArguments, ExecFails, ExecScan, WriteFails, ReadChunk, ReadEnd,
         ReadFails, ReportUnlessInterrupted, TellService
  <2> QED
    BY <2>1, <2>2, PostEffect
<1> QED
  BY <1>5, <1>6

\* A Runnable of a running scan, or of one that was stopped, reads on, and announces
\* the end of a scan as its last act.
LEMMA RunNmapLife ==
  ASSUME IInv, LifeInv, TypeOK', NEW id \in ScanIds, RunNmap(id),
         UNCHANGED <<androidVars, serviceVars, clientVars>>
  PROVE  LifeInv' /\ LifeStep
<1> TypeOK
  BY DEF IInv
<1>1. /\ Alive(id)
      /\ worker'[id].pc \in {"reading", "done"}
      /\ worker'[id].interrupted = worker[id].interrupted
      /\ \A k \in ScanIds : k # id => worker'[k] = worker[k]
      /\ \A s \in Senders : s # id => mq'[s] = mq[s]
  BY RunNmapEffect
<1>2. /\ worker'[id].out = worker[id].out \/ worker'[id].out = worker[id].out + 1
      /\ mq'[id] = mq[id] \/ \E m : mq'[id] = Append(mq[id], m)
  BY RunNmapReads
<1>3. UNCHANGED <<scans, hist, pending_RQST_SCAN_ID, owner>> /\ SameServices
  BY DEF serviceVars, SameServices, SetUp, RunNmap
<1>4. \A k \in ScanIds : (InMap(k)' <=> InMap(k)) /\ (k # id => mq'[k] = mq[k])
  BY <1>1, <1>3 DEF InMap, NoScan, Senders
<1>5. /\ ~scans[id].finished
      /\ \A m \in Range(mq[id]) : m.what # "NOTIFY_SCAN_FINISHED"
      /\ mq[id] \in Seq(ToService)
  BY <1>1 DEF WorkersFollowScans, IInv, Alive, TypeOK, CommTypeOK, Senders
<1>6. \/ InMap(id) /\ scans[id].started
      \/ ~InMap(id) /\ hist[id].left \in {"stopped", "cleared"}
  <2>1. CASE worker[id].interrupted
    BY <1>1, <2>1 DEF LifeInv, InterruptedHasLeft, WorkersFollowScans, IInv
  <2>2. CASE ~worker[id].interrupted
    BY <1>1, <2>2 DEF EveryRunIsKnown, IInv
  <2> QED
    BY <2>1, <2>2
<1>7. KeptUntilLeft' /\ StartedIsGranted' /\ PendingIsWaitedFor'
  BY <1>3, <1>4 DEF LifeInv, KeptUntilLeft, StartedIsGranted, PendingIsWaitedFor, MapOf, MapIds
<1>8. InterruptedHasLeft'
  BY <1>1, <1>3 DEF LifeInv, InterruptedHasLeft, Alive
<1>9. EndIsLast'
  <2>1. \A k \in ScanIds : k # id =>
          /\ \A i \in 1..Len(mq'[k]) : mq'[k][i].what = "NOTIFY_SCAN_FINISHED" => i = Len(mq'[k])
          /\ scans'[k].finished => mq'[k] = <<>>
    BY <1>3, <1>4 DEF LifeInv, EndIsLast
  <2>2. \A i \in 1..Len(mq'[id]) : mq'[id][i].what = "NOTIFY_SCAN_FINISHED" => i = Len(mq'[id])
    <3>1. CASE mq'[id] = mq[id]
      BY <3>1 DEF LifeInv, EndIsLast
    <3>2. CASE \E m : mq'[id] = Append(mq[id], m)
      BY <1>5, <3>2, AppendKeepsEnd
    <3> QED
      BY <1>2, <3>1, <3>2
  <2>3. ~scans'[id].finished
    BY <1>3, <1>5
  <2> QED
    BY <2>1, <2>2, <2>3 DEF EndIsLast
<1>10. UnknownWasStopped'
  BY <1>3, <1>4, <1>6 DEF LifeInv, UnknownWasStopped
<1>11. LifeInv'
  BY <1>7, <1>8, <1>9, <1>10 DEF LifeInv
<1>12. \A k \in ScanIds : Untouched(k)
  BY <1>3, <1>4 DEF Untouched
<1>13. SameDelivered
  BY <1>3 DEF SameDelivered
<1>14. CASE worker'[id].out = worker[id].out
  <2>1. SameOutput
    BY <1>1, <1>14 DEF SameOutput
  <2> QED
    BY <1>3, <1>11, <1>12, <1>13, <2>1, StutterIs
<1>15. CASE worker'[id].out = worker[id].out + 1
  <2>1. hist[id] \in History
    BY DEF TypeOK, ScanTypeOK
  <2>2. hist[id].asked # 0
    BY <1>6 DEF UnaskedIsUnused, IInv
  <2>3. LifeOf(id) \in {"running", "stopped", "cleared"}
    BY <1>5, <1>6, <2>1, <2>2, LifeIs, LifeByEach DEF InMap
  <2>4. \A k \in ScanIds : k # id => worker'[k].out = worker[k].out
    BY <1>1
  <2> QED
    BY <1>3, <1>11, <1>12, <1>13, <1>15, <2>3, <2>4, OutputIs
<1> QED
  BY <1>2, <1>14, <1>15

\* The Runnables of the pool.
LEMMA PoolLife ==
  ASSUME IInv, LifeInv, TypeOK', Pool
  PROVE  LifeInv' /\ LifeStep
BY SetupLife, RunNmapLife DEF Pool

(***************************************************************************)
(* The handlers of the service.                                            *)
(***************************************************************************)

\* A handler that leaves every scan where it is in its life keeps LifeInv.
LEMMA LifeInvQuiet ==
  ASSUME IInv, LifeInv, UNCHANGED <<pending_RQST_SCAN_ID, owner, worker>>,
         \A k \in ScanIds :
           /\ Untouched(k)
           /\ mq'[k] = mq[k] \/ (mq[k] # <<>> /\ mq'[k] = Tail(mq[k]))
  PROVE  LifeInv'
<1>1. \A k \in ScanIds : Alive(k)' <=> Alive(k)
  BY DEF Alive
<1>2. \A k \in ScanIds :
        /\ hist'[k].asked = hist[k].asked
        /\ hist'[k].left = "no" => hist[k].left = "no" /\ (InMap(k) => InMap(k)')
        /\ ~InMap(k) => hist'[k].left = hist[k].left
        /\ InMap(k)' => InMap(k)
        /\ InMap(k)' /\ scans'[k].started => scans[k].started \/ hist'[k].told = "ok"
        /\ InMap(k)' /\ hist[k].told = "ok" => hist'[k].told = "ok"
        /\ worker'[k].pc = "idle" => worker[k].pc = "idle" /\ worker'[k].out = worker[k].out
        /\ Alive(k)' /\ worker'[k].interrupted =>
             \/ hist'[k].left \in {"stopped", "cleared"}
             \/ Alive(k) /\ worker[k].interrupted
        /\ mq'[k] = mq[k] \/ mq'[k] = <<>> \/ (mq[k] # <<>> /\ mq'[k] = Tail(mq[k]))
        /\ scans'[k].finished => scans[k].finished \/ mq'[k] = <<>>
        /\ InMap(k) /\ ~InMap(k)' => hist'[k].left \in {"stopped", "cleared"} \/ mq'[k] = <<>>
  BY <1>1 DEF Untouched
<1>3. \A t \in Services : pending_RQST_SCAN_ID'[t] =>
           /\ pending_RQST_SCAN_ID[t]
           /\ \A k \in MapOf(t) : hist[k].told = "no" => InMap(k)' /\ hist'[k].told = "no"
  BY DEF Untouched, MapOf, MapIds
<1> QED
  BY <1>2, <1>3, LifeInvStep

\* A handler that only reports an error, and perhaps notes the activity, changes
\* nothing of a scan.
LEMMA ClientLife ==
  ASSUME IInv, LifeInv, TypeOK', NEW c \in Clients, NEW s, NEW id,
         UNCHANGED <<rootAcqisitionFinished, nativeInstalled, pending_RQST_SCAN_ID, hist, worker,
                     owner>>,
         \/ scans' = IF Known(s, id) THEN [scans EXCEPT ![id].client = c] ELSE scans
         \/ scans' = scans,
         \A k \in ScanIds : mq'[k] = mq[k]
  PROVE  LifeInv' /\ LifeStep
<1> TypeOK /\ ScanTypeOK
  BY DEF IInv, TypeOK
<1>1. \A k \in ScanIds : /\ InMap(k)' <=> InMap(k)
                         /\ scans'[k].started = scans[k].started
                         /\ scans'[k].finished = scans[k].finished
  <2>1. CASE scans' = scans
    BY <2>1 DEF InMap, NoScan
  <2> QED
    BY <2>1, ClientChanges
<1>2. \A k \in ScanIds : Untouched(k)
  BY <1>1 DEF Untouched
<1>3. LifeInv'
  BY <1>2, LifeInvQuiet
<1>4. SameOutput /\ SameDelivered /\ SameServices
  BY DEF SameOutput, SameDelivered, SameServices, SetUp
<1> QED
  BY <1>2, <1>3, <1>4, StutterIs

\* What a request of an activity leaves alone: the messages of the Runnables.
LEMMA RequestLeaves ==
  ASSUME TypeOK, NEW c \in Clients, NEW what, Handles(c, what)
  PROVE  \A k \in ScanIds : mq'[k] = mq[k]
<1>1. c \in Senders /\ ScanIds \subseteq Senders /\ c \notin ScanIds
  BY SendersDistinct
<1> QED
  BY <1>1, HandlesEffect

\* A Scan object is put in the map.
LEMMA PutScan ==
  ASSUME ScanTypeOK, NEW id \in ScanIds, NEW x, x.client \in Clients,
         scans' = [scans EXCEPT ![id] = x]
  PROVE  /\ scans'[id] = x /\ InMap(id)'
         /\ \A k \in ScanIds : k # id => scans'[k] = scans[k] /\ (InMap(k)' <=> InMap(k))
<1>1. scans'[id] = x /\ \A k \in ScanIds : k # id => scans'[k] = scans[k]
  BY DEF ScanTypeOK
<1>2. x # NoScan
  BY NoIdAssumption DEF NoScan
<1> QED
  BY <1>1, <1>2 DEF InMap, NoScan

\* RQST_SCAN_ID: a free scan is granted when the setup is over, and else waits.
LEMMA RqstScanIdLife ==
  ASSUME IInv, LifeInv, TypeOK', NEW c \in Clients, RqstScanId(c)
  PROVE  LifeInv' /\ LifeStep
<1> TypeOK /\ CommTypeOK /\ ScanTypeOK
  BY DEF IInv, TypeOK
<1>2. Handles(c, "RQST_SCAN_ID") /\ c \in Senders /\ Clients \subseteq Senders
  BY DEF RqstScanId, Senders
<1>s. PICK s \in Services : s = Addressed(c)
  BY <1>2, HandlesEffect DEF Addressed
<1>1. PICK id \in ScanIds :
        /\ hist[id].asked = 0
        /\ scans' = [scans EXCEPT ![id] = Scan(c)]
        /\ owner' = [owner EXCEPT ![id] = s]
        /\ hist' = [hist EXCEPT ![id].asked = Head(mq[c]).arg,
                               ![id].told = IF SetUp(s) THEN "ok" ELSE "no"]
        /\ pending_RQST_SCAN_ID' = IF SetUp(s) THEN pending_RQST_SCAN_ID
                                   ELSE [pending_RQST_SCAN_ID EXCEPT ![s] = TRUE]
  BY <1>s DEF RqstScanId
<1>o. /\ owner'[id] = s
      /\ \A k \in ScanIds : k # id => owner'[k] = owner[k]
      /\ SetUp(s) => pending_RQST_SCAN_ID' = pending_RQST_SCAN_ID
      /\ \A t \in Services : t # s => pending_RQST_SCAN_ID'[t] = pending_RQST_SCAN_ID[t]
  BY <1>1 DEF IInv, TypeOK, NmapTypeOK, ScanTypeOK
<1>3. UNCHANGED <<rootAcqisitionFinished, nativeInstalled, worker>>
  BY DEF RqstScanId
<1>4. Head(mq[c]).arg # 0 /\ \A k \in ScanIds : mq'[k] = mq[k]
  BY <1>2, HandlesEffect, RequestLeaves DEF RequestsNumbered, IInv
<1>5. Scan(c).client \in Clients /\ ~Scan(c).started /\ ~Scan(c).finished
  BY DEF Scan
<1>6. /\ scans'[id] = Scan(c) /\ InMap(id)'
      /\ \A k \in ScanIds : k # id => scans'[k] = scans[k] /\ (InMap(k)' <=> InMap(k))
  BY <1>1, <1>5, PutScan
<1>7. /\ hist'[id].asked # 0
      /\ hist'[id].told = IF SetUp(s) THEN "ok" ELSE "no"
      /\ hist'[id].left = hist[id].left
      /\ hist'[id].delivered = hist[id].delivered
      /\ \A k \in ScanIds : k # id => hist'[k] = hist[k]
  <2>1. ASSUME NEW h \in History, NEW a, NEW t
        PROVE  /\ [h EXCEPT !.asked = a, !.told = t].asked = a
               /\ [h EXCEPT !.asked = a, !.told = t].told = t
               /\ [h EXCEPT !.asked = a, !.told = t].left = h.left
               /\ [h EXCEPT !.asked = a, !.told = t].delivered = h.delivered
    BY DEF History
  <2>2. PICK t : t = IF SetUp(s) THEN "ok" ELSE "no"
    OBVIOUS
  <2>3. hist'[id] = [hist[id] EXCEPT !.asked = Head(mq[c]).arg, !.told = t]
    BY <1>1, <2>2 DEF ScanTypeOK
  <2>4. \A k \in ScanIds : k # id => hist'[k] = hist[k]
    BY <1>1 DEF ScanTypeOK
  <2>5. hist[id] \in History
    BY DEF ScanTypeOK
  <2> QED
    BY <1>4, <2>1, <2>2, <2>3, <2>4, <2>5
<1>8. hist[id].left = "no" /\ worker[id].pc = "idle" /\ ~InMap(id) /\ mq[id] = <<>>
  BY <1>1 DEF UnaskedIsUnused, WorkersFollowScans, IInv
<1>9. \A k \in ScanIds : k # id => Untouched(k)
  BY <1>6, <1>7 DEF Untouched
<1>10. KeptUntilLeft' /\ StartedIsGranted'
  BY <1>5, <1>6, <1>7 DEF LifeInv, KeptUntilLeft, StartedIsGranted
<1>11. PendingIsWaitedFor'
  <2> SUFFICES ASSUME NEW t \in Services, pending_RQST_SCAN_ID'[t]
               PROVE  \E k \in MapOf(t)' : hist'[k].told = "no"
    BY DEF PendingIsWaitedFor
  <2>1. CASE t = s /\ ~SetUp(s)
    BY <1>6, <1>7, <1>o, <2>1 DEF MapOf, MapIds
  <2>2. CASE ~(t = s /\ ~SetUp(s))
    <3>1. pending_RQST_SCAN_ID[t]
      BY <1>o, <2>2
    <3>2. PICK k \in MapOf(t) : hist[k].told = "no"
      BY <3>1 DEF PendingIsWaitedFor, LifeInv
    <3>3. k \in ScanIds /\ InMap(k) /\ owner[k] = t
      BY DEF MapOf, MapIds
    <3>4. InMap(k)' /\ owner'[k] = t /\ hist'[k].told = "no"
      BY <1>6, <1>7, <1>8, <1>o, <3>2, <3>3
    <3> QED
      BY <3>3, <3>4 DEF MapOf, MapIds
  <2> QED
    BY <2>1, <2>2
<1>12. InterruptedHasLeft'
  BY <1>3, <1>7, <1>8 DEF LifeInv, InterruptedHasLeft, Alive
<1>13. EndIsLast' /\ UnknownWasStopped'
  BY <1>4, <1>5, <1>6, <1>7, <1>8 DEF LifeInv, EndIsLast, UnknownWasStopped
<1>14. LifeInv'
  BY <1>10, <1>11, <1>12, <1>13 DEF LifeInv
<1>15. SameOutput /\ SameDelivered /\ \A t \in Services : SetUp(t)' = SetUp(t)
  BY <1>3, <1>7 DEF SameOutput, SameDelivered, SetUp
<1>16. hist[id] \in History /\ hist'[id] \in History
  BY DEF TypeOK, ScanTypeOK
<1>17. LifeOf(id) = "free"
  BY <1>1, <1>16, LifeIs, LifeByEach
<1>18. LifeOf(id)' = IF SetUp(s) THEN "granted" ELSE "waiting"
  <2>1. scans'[id] # NoScan
    BY <1>6 DEF InMap, NoScan
  <2> QED
    BY <1>5, <1>6, <1>7, <1>16, <2>1, LifeIs, LifeByEach
<1>19. Lifecycle!Move({id}, IF SetUp(s) THEN "granted" ELSE "waiting")
  BY <1>9, <1>18, OneMoves
<1> QED
  BY <1>1, <1>14, <1>15, <1>17, <1>19, AskIs

\* RQST_START_SCAN: a granted scan runs.
LEMMA RqstStartScanLife ==
  ASSUME IInv, LifeInv, TypeOK', NEW c \in Clients, RqstStartScan(c)
  PROVE  LifeInv' /\ LifeStep
<1>0. PICK s, id : s = Addressed(c) /\ id = Head(mq[c]).id
  OBVIOUS
<1> TypeOK /\ ScanTypeOK /\ NmapTypeOK
  BY DEF IInv, TypeOK
<1>1. Handles(c, "RQST_START_SCAN") /\ c \in Senders
  BY DEF RqstStartScan, Senders
<1>2. UNCHANGED <<rootAcqisitionFinished, nativeInstalled, pending_RQST_SCAN_ID, hist, owner>>
  BY DEF RqstStartScan, FieldsFrame
<1>3. \A k \in ScanIds : mq'[k] = mq[k]
  BY <1>1, RequestLeaves
<1>4. CASE Known(s, id) /\ ~scans[id].started
  <2>1. /\ Submit(id, Head(mq[c]).arg, rootAccess[s])
        /\ scans' = [scans EXCEPT ![id] = [Scan(c) EXCEPT !.started = TRUE]]
    BY <1>0, <1>4 DEF RqstStartScan
  <2>2. id \in ScanIds /\ InMap(id)
    BY <1>4 DEF Known, MapOf, MapIds
  <2>3. /\ worker'[id].pc = "queued" /\ ~worker'[id].interrupted /\ worker'[id].out = 0
        /\ \A k \in ScanIds : k # id => worker'[k] = worker[k]
    <3> DEFINE w == [pc |-> "queued", interrupted |-> FALSE, killed |-> FALSE,
                     args |-> Head(mq[c]).arg, root |-> rootAccess[s], out |-> 0]
    <3>1. w.pc = "queued" /\ ~w.interrupted /\ w.out = 0
      OBVIOUS
    <3>2. worker' = [worker EXCEPT ![id] = w]
      BY <2>1 DEF Submit
    <3> HIDE DEF w
    <3>3. worker'[id] = w /\ \A k \in ScanIds : k # id => worker'[k] = worker[k]
      BY <2>2, <3>2 DEF NmapTypeOK
    <3> QED
      BY <3>1, <3>3
  <2>4. /\ InMap(id)' /\ scans'[id].started /\ ~scans'[id].finished
        /\ \A k \in ScanIds : k # id => scans'[k] = scans[k] /\ (InMap(k)' <=> InMap(k))
    <3> DEFINE x == [Scan(c) EXCEPT !.started = TRUE]
    <3>1. x.client \in Clients /\ x.started /\ ~x.finished
      BY DEF Scan
    <3>2. scans' = [scans EXCEPT ![id] = x]
      BY <2>1
    <3> HIDE DEF x
    <3> QED
      BY <2>2, <3>1, <3>2, PutScan
  <2>5. hist[id].asked # 0 /\ hist[id].told = "ok" /\ hist[id].left = "no"
    <3>1. Head(mq[c]) \in Range(mq[c]) /\ Head(mq[c]).what = "RQST_START_SCAN"
      BY <1>1, HandlesEffect
    <3>2. GrantHolds(id)
      BY <1>0, <3>1 DEF GrantsHold, IInv
    <3> QED
      BY <2>2, <3>2 DEF GrantHolds, WorkersFollowScans, IInv
  <2>6. worker[id].pc = "idle" /\ mq'[id] = <<>> /\ ~scans[id].finished /\ worker[id].out = 0
    BY <1>3, <1>4, <2>2 DEF WorkersFollowScans, IInv, InterruptedHasLeft, LifeInv
  <2>7. \A k \in ScanIds : k # id => Untouched(k) /\ (Alive(k)' <=> Alive(k))
    BY <1>2, <2>3, <2>4 DEF Untouched, Alive
  <2>8. LifeInv'
    <3>1. ASSUME NEW k \in ScanIds
          PROVE  /\ hist'[k] = hist[k]
                 /\ InMap(k)' <=> InMap(k)
                 /\ InMap(k)' /\ scans'[k].started => scans[k].started \/ hist'[k].told = "ok"
                 /\ worker'[k].pc = "idle" => worker[k].pc = "idle"
                 /\ worker'[k].out = worker[k].out
                 /\ Alive(k)' /\ worker'[k].interrupted => Alive(k) /\ worker[k].interrupted
                 /\ mq'[k] = mq[k]
                 /\ scans'[k].finished => scans[k].finished
      <4>1. CASE k = id
        BY <1>2, <1>3, <2>2, <2>3, <2>4, <2>5, <2>6, <4>1
      <4>2. CASE k # id
        BY <1>2, <1>3, <2>3, <2>4, <2>7, <4>2
      <4> QED
        BY <4>1, <4>2
    <3>2. \A t \in Services : \A k \in MapOf(t) : InMap(k)' /\ hist'[k].told = hist[k].told
      BY <3>1 DEF MapOf, MapIds
    <3> QED
      BY <1>2, <3>1, <3>2, LifeInvStep
  <2>9. SameOutput /\ SameDelivered /\ SameServices
    BY <1>2, <2>3, <2>6 DEF SameOutput, SameDelivered, SameServices, SetUp
  <2>10. hist[id] \in History /\ hist'[id] = hist[id]
    BY <1>2, <2>2 DEF ScanTypeOK
  <2>11. LifeOf(id) = "granted"
    BY <1>4, <2>2, <2>5, <2>6, <2>10, LifeIs, LifeByEach DEF InMap
  <2>12. LifeOf(id)' = "running"
    <3>1. scans'[id] # NoScan
      BY <2>4 DEF InMap, NoScan
    <3> QED
      BY <2>2, <2>4, <2>5, <2>10, <3>1, LifeIs, LifeByEach
  <2>13. Lifecycle!Move({id}, "running")
    BY <2>2, <2>7, <2>12, OneMoves
  <2> QED
    BY <2>2, <2>8, <2>9, <2>11, <2>13, RunIs
<1>5. CASE ~(Known(s, id) /\ ~scans[id].started)
  BY <1>0, <1>2, <1>3, <1>5, ClientLife DEF RqstStartScan
<1> QED
  BY <1>4, <1>5

\* A scan in the map that was started runs, or has finished.
LEMMA StartedLife ==
  ASSUME IInv, NEW id \in ScanIds, InMap(id), scans[id].started
  PROVE  LifeOf(id) = IF scans[id].finished THEN "finished" ELSE "running"
<1>1. hist[id] \in History /\ hist[id].asked # 0 /\ scans[id] # NoScan
  BY DEF IInv, TypeOK, ScanTypeOK, UnaskedIsUnused, InMap
<1> QED
  BY <1>1, LifeIs, LifeByEach

\* RQST_STOP_SCAN: a running or finished scan is stopped.
LEMMA RqstStopScanLife ==
  ASSUME IInv, LifeInv, TypeOK', NEW c \in Clients, RqstStopScan(c)
  PROVE  LifeInv' /\ LifeStep
<1>0. PICK s, id : s = Addressed(c) /\ id = Head(mq[c]).id
  OBVIOUS
<1> TypeOK /\ ScanTypeOK /\ NmapTypeOK
  BY DEF IInv, TypeOK
<1>1. Handles(c, "RQST_STOP_SCAN")
  BY DEF RqstStopScan
<1>2. UNCHANGED <<rootAcqisitionFinished, nativeInstalled, pending_RQST_SCAN_ID, owner>>
  BY DEF RqstStopScan, FieldsFrame
<1>3. \A k \in ScanIds : mq'[k] = mq[k]
  BY <1>1, RequestLeaves
<1>4. CASE Known(s, id) /\ scans[id].started
  <2>1. Cancel({id}) /\ Leave({id}, "stopped")
    BY <1>0, <1>4 DEF RqstStopScan
  <2>2. id \in ScanIds /\ InMap(id)
    BY <1>4 DEF Known, MapOf, MapIds
  <2>3. \A k \in ScanIds : /\ k = id => scans'[k] = NoScan /\ hist'[k].left = "stopped"
                           /\ k # id => scans'[k] = scans[k] /\ hist'[k].left = hist[k].left
                           /\ hist'[k].asked = hist[k].asked
                           /\ hist'[k].told = hist[k].told
                           /\ hist'[k].delivered = hist[k].delivered
    BY <2>1, LeaveEffect
  <2>4. /\ \A k \in ScanIds : InMap(k)' <=> k # id /\ InMap(k)
        /\ ~NoScan.finished
    BY <2>3 DEF InMap, NoScan
  <2>5. \A k \in ScanIds : /\ k # id => worker'[k] = worker[k]
                           /\ worker'[k].pc = "idle" => worker[k].pc = "idle"
                           /\ Alive(k)' => Alive(k)
                           /\ worker'[k].out = worker[k].out
    BY <2>1, CancelEffect
  <2>6. hist[id].told = "ok"
    BY <1>4, <2>2 DEF LifeInv, StartedIsGranted
  <2>7. LifeInv'
    <3>1. ASSUME NEW k \in ScanIds
          PROVE  /\ hist'[k].left = "no" => hist[k].left = "no" /\ (InMap(k) => InMap(k)')
                 /\ ~InMap(k) => hist'[k].left = hist[k].left
                 /\ InMap(k)' => InMap(k) /\ scans'[k].started = scans[k].started
                 /\ Alive(k)' /\ worker'[k].interrupted =>
                      \/ hist'[k].left \in {"stopped", "cleared"}
                      \/ Alive(k) /\ worker[k].interrupted
                 /\ scans'[k].finished => scans[k].finished
                 /\ InMap(k) /\ ~InMap(k)' => hist'[k].left \in {"stopped", "cleared"}
                 /\ InMap(k) /\ hist[k].told = "no" => InMap(k)'
      BY <2>2, <2>3, <2>4, <2>5, <2>6
    <3>2. \A t \in Services : \A k \in MapOf(t) :
            hist[k].told = "no" => InMap(k)' /\ hist'[k].told = "no"
      BY <2>3, <3>1 DEF MapOf, MapIds
    <3> QED
      BY <1>2, <1>3, <2>3, <2>5, <3>1, <3>2, LifeInvStep
  <2>8. SameOutput /\ SameDelivered /\ SameServices
    BY <1>2, <2>3, <2>5 DEF SameOutput, SameDelivered, SameServices, SetUp
  <2>9. \A k \in ScanIds : k # id => Untouched(k)
    BY <2>3, <2>4 DEF Untouched
  <2>10. LifeOf(id) \in {"running", "finished"}
    BY <1>4, <2>2, StartedLife
  <2>11. LifeOf(id)' = "stopped"
    BY <2>2, <2>3, LeavingLife
  <2>12. Lifecycle!Move({id}, "stopped")
    BY <2>2, <2>9, <2>11, OneMoves
  <2> QED
    BY <2>2, <2>7, <2>8, <2>10, <2>12, StopIs
<1>5. CASE ~(Known(s, id) /\ scans[id].started)
  BY <1>0, <1>2, <1>3, <1>5, ClientLife DEF RqstStopScan
<1> QED
  BY <1>4, <1>5

\* RQST_RESULTS: the results of a running scan are shown, those of a finished one
\* collected.
LEMMA RqstResultsLife ==
  ASSUME IInv, LifeInv, TypeOK', NEW c \in Clients, RqstResults(c)
  PROVE  LifeInv' /\ LifeStep
<1>0. PICK s, id : s = Addressed(c) /\ id = Head(mq[c]).id
  OBVIOUS
<1> TypeOK /\ ScanTypeOK /\ NmapTypeOK
  BY DEF IInv, TypeOK
<1>1. Handles(c, "RQST_RESULTS")
  BY DEF RqstResults
<1>2. UNCHANGED <<rootAcqisitionFinished, nativeInstalled, pending_RQST_SCAN_ID, worker, owner>>
  BY DEF RqstResults, FieldsFrame
<1>3. \A k \in ScanIds : mq'[k] = mq[k] /\ (Alive(k)' <=> Alive(k))
  BY <1>1, <1>2, RequestLeaves DEF Alive
<1>4. SameOutput /\ SameServices
  BY <1>2 DEF SameOutput, SameServices, SetUp
<1>5. CASE Known(s, id) /\ scans[id].started
  <2> DEFINE n == worker[id].out
  <2>1. id \in ScanIds /\ InMap(id)
    BY <1>5 DEF Known, MapOf, MapIds
  <2>2. ASSUME NEW h \in History, NEW k
        PROVE  /\ [h EXCEPT !.delivered = k].asked = h.asked
               /\ [h EXCEPT !.delivered = k].told = h.told
               /\ [h EXCEPT !.delivered = k].left = h.left
               /\ [h EXCEPT !.delivered = k].delivered = k
               /\ [h EXCEPT !.delivered = k, !.left = "collected"].asked = h.asked
               /\ [h EXCEPT !.delivered = k, !.left = "collected"].told = h.told
               /\ [h EXCEPT !.delivered = k, !.left = "collected"].left = "collected"
               /\ [h EXCEPT !.delivered = k, !.left = "collected"].delivered = k
    BY DEF History
  <2>3. hist[id] \in History
    BY <2>1 DEF ScanTypeOK
  <2>4. CASE scans[id].finished
    <3>1. /\ scans' = [scans EXCEPT ![id] = NoScan]
          /\ hist' = [hist EXCEPT ![id] = [hist[id] EXCEPT !.delivered = n, !.left = "collected"]]
      BY <1>0, <1>5, <2>4 DEF RqstResults
    <3>2. /\ scans'[id] = NoScan
          /\ \A k \in ScanIds : k # id => scans'[k] = scans[k] /\ hist'[k] = hist[k]
          /\ hist'[id] = [hist[id] EXCEPT !.delivered = n, !.left = "collected"]
      BY <2>1, <3>1 DEF ScanTypeOK
    <3>3. /\ hist'[id].asked = hist[id].asked /\ hist'[id].told = hist[id].told
          /\ hist'[id].left = "collected" /\ hist'[id].delivered = n
      BY <2>2, <2>3, <3>2
    <3>4. \A k \in ScanIds : InMap(k)' <=> k # id /\ InMap(k)
      BY <3>2 DEF InMap, NoScan
    <3>5. ~NoScan.finished
      BY DEF NoScan
    <3>6. worker[id].pc = "done" /\ mq[id] = <<>> /\ hist[id].told = "ok"
      BY <1>5, <2>1, <2>4 DEF WorkersFollowScans, IInv, LifeInv, EndIsLast, StartedIsGranted
    <3>7. ~Alive(id)
      BY <3>6 DEF Alive
    <3>8. ASSUME NEW k \in ScanIds
          PROVE  /\ hist'[k].asked = hist[k].asked
                 /\ hist'[k].told = hist[k].told
                 /\ hist'[k].left = "no" => hist[k].left = "no" /\ (InMap(k) => InMap(k)')
                 /\ ~InMap(k) => hist'[k].left = hist[k].left
                 /\ InMap(k)' => InMap(k) /\ scans'[k].started = scans[k].started
                 /\ Alive(k)' /\ worker'[k].interrupted => Alive(k) /\ worker[k].interrupted
                 /\ scans'[k].finished => scans[k].finished
                 /\ InMap(k) /\ ~InMap(k)' => mq'[k] = <<>>
                 /\ InMap(k) /\ hist[k].told = "no" => InMap(k)'
      <4>1. CASE k = id
        BY <1>3, <2>1, <3>2, <3>3, <3>4, <3>5, <3>6, <3>7, <4>1
      <4>2. CASE k # id
        BY <1>2, <1>3, <3>2, <3>4, <4>2
      <4> QED
        BY <4>1, <4>2
    <3> HIDE DEF n
    <3>9. LifeInv'
      <4>1. \A t \in Services : \A k \in MapOf(t) :
              hist[k].told = "no" => InMap(k)' /\ hist'[k].told = "no"
        BY <3>8 DEF MapOf, MapIds
      <4> QED
        BY <1>2, <1>3, <3>8, <4>1, LifeInvStep
    <3>10. \A k \in ScanIds : k # id => Untouched(k)
      BY <3>2, <3>4 DEF Untouched
    <3>11. LifeOf(id) = "finished"
      BY <1>5, <2>1, <2>4, StartedLife
    <3>12. LifeOf(id)' = "collected"
      BY <2>1, <3>2, <3>3, LeavingLife
    <3>13. Lifecycle!Move({id}, "collected")
      BY <2>1, <3>10, <3>12, OneMoves
    <3>14. /\ hist'[id].delivered = worker[id].out
           /\ \A k \in ScanIds : k # id => hist'[k].delivered = hist[k].delivered
      BY <3>2, <3>3 DEF n
    <3> QED
      BY <1>4, <2>1, <3>9, <3>11, <3>13, <3>14, CollectIs
  <2>5. CASE ~scans[id].finished
    <3>1. scans' = scans /\ hist' = [hist EXCEPT ![id] = [hist[id] EXCEPT !.delivered = n]]
      BY <1>0, <1>5, <2>5 DEF RqstResults
    <3>2. /\ \A k \in ScanIds : k # id => hist'[k] = hist[k]
          /\ hist'[id] = [hist[id] EXCEPT !.delivered = n]
      BY <2>1, <3>1 DEF ScanTypeOK
    <3>3. /\ hist'[id].asked = hist[id].asked /\ hist'[id].told = hist[id].told
          /\ hist'[id].left = hist[id].left /\ hist'[id].delivered = n
      BY <2>2, <2>3, <3>2
    <3>4. \A k \in ScanIds : InMap(k)' <=> InMap(k)
      BY <3>1 DEF InMap, NoScan
    <3>5. \A k \in ScanIds : Untouched(k)
      BY <3>1, <3>2, <3>3, <3>4 DEF Untouched
    <3> HIDE DEF n
    <3>6. LifeInv'
      BY <1>2, <1>3, <3>5, LifeInvQuiet
    <3>7. LifeOf(id) = "running"
      BY <1>5, <2>1, <2>5, StartedLife
    <3>8. /\ hist'[id].delivered = worker[id].out
          /\ \A k \in ScanIds : k # id => hist'[k].delivered = hist[k].delivered
      BY <3>2, <3>3 DEF n
    <3> QED
      BY <1>4, <2>1, <3>5, <3>6, <3>7, <3>8, ShowIs
  <2> QED
    BY <2>4, <2>5
<1>6. CASE ~(Known(s, id) /\ scans[id].started)
  <2>1. UNCHANGED <<scans, hist>>
    BY <1>0, <1>6 DEF RqstResults
  <2> QED
    BY <1>2, <1>3, <2>1, ClientLife
<1> QED
  BY <1>5, <1>6

\* NOTIFY_SCAN_FINISHED and NOTIFY_SCAN_PROBLEM: a running scan has finished, or
\* stays as it is.
LEMMA ScanNoteLife ==
  ASSUME IInv, LifeInv, TypeOK', NEW id \in ScanIds, NotifyScanFinished(id) \/ NotifyScanProblem(id)
  PROVE  LifeInv' /\ LifeStep
<1> TypeOK /\ CommTypeOK /\ ScanTypeOK
  BY DEF IInv, TypeOK
<1>1. CASE ~InMap(id)
  BY <1>1, DiesLife DEF NotifyScanFinished, NotifyScanProblem
<1>2. CASE InMap(id)
  <2>1. id \in Senders /\ ScanIds \subseteq Senders /\ mq[id] \in Seq(ToService)
    BY DEF Senders, CommTypeOK
  <2>2. PICK what \in {"NOTIFY_SCAN_FINISHED", "NOTIFY_SCAN_PROBLEM"} :
          /\ mq[id] # <<>> /\ Head(mq[id]).what = what /\ Consume(id)
          /\ UNCHANGED <<rootAcqisitionFinished, nativeInstalled, pending_RQST_SCAN_ID, hist, worker,
                         owner>>
          /\ \/ what = "NOTIFY_SCAN_PROBLEM" /\ scans' = scans
             \/ what = "NOTIFY_SCAN_FINISHED" /\ scans' = [scans EXCEPT ![id].finished = TRUE]
    BY <1>2 DEF NotifyScanFinished, NotifyScanProblem, IsNext, FieldsFrame
  <2>3. mq'[id] = Tail(mq[id]) /\ \A k \in ScanIds : k # id => mq'[k] = mq[k]
    BY <2>1, <2>2, ConsumeEffect
  <2>4. SameOutput /\ SameDelivered /\ SameServices
    BY <2>2 DEF SameOutput, SameDelivered, SameServices, SetUp
  <2>5. CASE scans' = scans
    <3>1. \A k \in ScanIds : Untouched(k)
      BY <2>2, <2>5 DEF Untouched, InMap, NoScan
    <3>2. LifeInv'
      BY <2>2, <2>3, <3>1, LifeInvQuiet
    <3> QED
      BY <2>4, <3>1, <3>2, StutterIs
  <2>6. CASE what = "NOTIFY_SCAN_FINISHED" /\ scans' = [scans EXCEPT ![id].finished = TRUE]
    <3> DEFINE Object == [client : Clients, started : BOOLEAN, finished : BOOLEAN]
    <3>1. scans[id] \in Object
      BY <1>2 DEF InMap, ScanTypeOK
    <3>2. PICK x : x = [scans[id] EXCEPT !.finished = TRUE]
      OBVIOUS
    <3>3. x.client \in Clients /\ x.started = scans[id].started /\ x.finished = TRUE
      BY <3>1, <3>2
    <3>4. scans' = [scans EXCEPT ![id] = x]
      BY <2>6, <3>2
    <3>5. /\ scans'[id] = x /\ InMap(id)'
          /\ \A k \in ScanIds : k # id => scans'[k] = scans[k] /\ (InMap(k)' <=> InMap(k))
      BY <3>3, <3>4, PutScan
    <3>6. scans[id].started /\ ~scans[id].finished
      BY <1>2, <2>2 DEF WorkersFollowScans, IInv, EndIsLast, LifeInv
    <3>7. mq'[id] = <<>>
      <4>1. \A i \in 1..Len(mq[id]) : mq[id][i].what = "NOTIFY_SCAN_FINISHED" => i = Len(mq[id])
        BY DEF LifeInv, EndIsLast
      <4> QED
        BY <2>1, <2>2, <2>3, <2>6, <4>1, TailKeepsEnd
    <3>8. \A k \in ScanIds : /\ hist'[k] = hist[k] /\ worker'[k] = worker[k]
                             /\ Alive(k)' <=> Alive(k)
      BY <2>2 DEF Alive
    <3>9. ASSUME NEW k \in ScanIds
          PROVE  /\ InMap(k)' <=> InMap(k)
                 /\ scans'[k].started = scans[k].started
                 /\ mq'[k] = mq[k] \/ mq'[k] = <<>>
                 /\ scans'[k].finished => scans[k].finished \/ mq'[k] = <<>>
      BY <1>2, <2>3, <3>3, <3>5, <3>7
    <3>10. LifeInv'
      <4>1. \A t \in Services : \A k \in MapOf(t) : InMap(k)' /\ hist'[k].told = hist[k].told
        BY <3>8, <3>9 DEF MapOf, MapIds
      <4> QED
        BY <2>2, <3>8, <3>9, <4>1, LifeInvStep
    <3>11. \A k \in ScanIds : k # id => Untouched(k)
      BY <3>5, <3>8 DEF Untouched
    <3>12. LifeOf(id) = "running"
      BY <1>2, <3>6, StartedLife
    <3>13. LifeOf(id)' = "finished"
      <4>1. hist'[id] \in History /\ hist'[id].asked # 0
        BY <1>2, <3>8 DEF ScanTypeOK, UnaskedIsUnused, IInv
      <4>2. scans'[id] # NoScan /\ scans'[id].finished
        BY <3>3, <3>5 DEF InMap, NoScan
      <4> QED
        BY <4>1, <4>2, LifeIs, LifeByEach
    <3>14. Lifecycle!Move({id}, "finished")
      BY <3>11, <3>13, OneMoves
    <3> QED
      BY <2>4, <3>10, <3>12, <3>14, FinishIs
  <2> QED
    BY <2>2, <2>5, <2>6
<1> QED
  BY <1>1, <1>2

\* While the setup goes on, the scans in the map wait or were refused.
LEMMA NotSetUpLife ==
  ASSUME IInv, LifeInv, NEW k \in ScanIds, ~SetUp(owner[k])
  PROVE  /\ InMap(k) => /\ LifeOf(k) = IF hist[k].told = "err" THEN "refused" ELSE "waiting"
                        /\ hist[k].told \in {"no", "err"} /\ hist[k].asked # 0
                        /\ ~scans[k].started /\ ~scans[k].finished
         /\ ~InMap(k) => LifeOf(k) \notin {"waiting", "refused"}
<1>1. hist[k] \in History /\ hist[k].told \in {"no", "ok", "err"}
      /\ hist[k].left \in {"no", "stopped", "collected", "cleared", "died"}
  BY DEF IInv, TypeOK, ScanTypeOK, History
<1>2. CASE InMap(k)
  <2>1. hist[k].asked # 0 /\ hist[k].told # "ok"
    BY <1>2 DEF IInv, UnaskedIsUnused, GrantedWhenSetUp
  <2>2. ~scans[k].started
    BY <1>2, <2>1 DEF LifeInv, StartedIsGranted
  <2>3. ~scans[k].finished
    BY <1>2, <2>2 DEF IInv, WorkersFollowScans
  <2> QED
    BY <1>1, <1>2, <2>1, <2>2, <2>3, LifeIs, LifeByEach DEF InMap
<1>3. CASE ~InMap(k)
  BY <1>1, <1>3, LifeIs, LifeByEach DEF InMap
<1> QED
  BY <1>2, <1>3

\* An answer to all scans in the map of a service object before its setup is over
\* grants, or refuses, those that wait or were refused.
LEMMA AnswerLife ==
  ASSUME IInv, LifeInv, TypeOK', NEW s \in Services, ~SetUp(s), UNCHANGED scans,
         NEW answer \in {"ok", "err"},
         \A k \in ScanIds : /\ hist'[k].asked = hist[k].asked
                            /\ hist'[k].left = hist[k].left
                            /\ k \in MapOf(s) => hist'[k].told = answer
                            /\ k \notin MapOf(s) => hist'[k].told = hist[k].told
  PROVE  /\ answer = "ok" => Lifecycle!Move(Lifecycle!Of(s, {"waiting", "refused"}), "granted")
         /\ answer = "err" => Lifecycle!Move(Lifecycle!Of(s, {"waiting"}), "refused")
<1> TypeOK
  BY DEF IInv
<1>0. \A k \in ScanIds : k \in MapOf(s) <=> InMap(k) /\ owner[k] = s
  BY DEF MapOf, MapIds
<1>1. ASSUME NEW k \in ScanIds
      PROVE  /\ k \in MapOf(s) => LifeOf(k)' = IF answer = "ok" THEN "granted" ELSE "refused"
             /\ k \notin MapOf(s) => LifeOf(k)' = LifeOf(k)
  <2>1. scans'[k] = scans[k] /\ hist'[k] \in History /\ (InMap(k)' <=> InMap(k))
    BY DEF TypeOK, ScanTypeOK, InMap, NoScan
  <2>2. CASE k \in MapOf(s)
    <3>1. ~scans'[k].started /\ ~scans'[k].finished /\ hist'[k].asked # 0 /\ scans'[k] # NoScan
      BY <1>0, <2>1, <2>2, NotSetUpLife DEF InMap
    <3> QED
      BY <2>1, <2>2, <3>1, LifeIs, LifeByEach
  <2>3. CASE k \notin MapOf(s)
    <3>1. Untouched(k)
      BY <2>1, <2>3 DEF Untouched
    <3> QED
      BY <2>3, <3>1, UntouchedLife
  <2> QED
    BY <2>2, <2>3
<1>2. CASE answer = "ok"
  <2>1. \A k \in ScanIds : k \in Lifecycle!Of(s, {"waiting", "refused"}) <=> k \in MapOf(s)
    BY <1>0, OfIs, NotSetUpLife
  <2> QED
    BY <1>1, <1>2, <2>1, MoveIs
<1>3. CASE answer = "err"
  <2>1. ASSUME NEW k \in ScanIds
        PROVE  LifeOf(k)' = IF k \in Lifecycle!Of(s, {"waiting"}) THEN "refused" ELSE LifeOf(k)
    <3>1. k \in Lifecycle!Of(s, {"waiting"}) <=> LifeOf(k) = "waiting" /\ owner[k] = s
      BY OfIs
    <3> QED
      BY <1>0, <1>1, <1>3, <3>1, NotSetUpLife
  <2> QED
    BY <1>3, <2>1, MoveIs
<1> QED
  BY <1>2, <1>3

\* A service that becomes ready and answers its waiting scans is the abstract
\* GetReady.
LEMMA ReadyIs ==
  ASSUME NEW s \in Services, ~SetUp(s), BecomesReady(s), SameOutput, SameDelivered,
         \/ /\ Lifecycle!Of(s, {"waiting"}) # {}
            /\ Lifecycle!Move(Lifecycle!Of(s, {"waiting", "refused"}), "granted")
         \/ Lifecycle!Move(Lifecycle!Of(s, {"waiting"}), "refused")
  PROVE  LifeStep
<1>1. [t \in Services |-> SetUp(t)'] = [[t \in Services |-> SetUp(t)] EXCEPT ![s] = TRUE]
  BY DEF BecomesReady
<1>2. Lifecycle!GetReady(s)
  BY <1>1 DEF Lifecycle!GetReady, BecomesReady, SameOutput, SameDelivered
<1> QED
  BY <1>2 DEF LifeStep, Lifecycle!Next

\* The end of the setup that finds no scan waiting.
LEMMA QuietReady ==
  ASSUME IInv, LifeInv, TypeOK', NEW s \in Services, owner' = owner,
         \A t \in Services : t # s => SetUp(t)' = SetUp(t),
         SetUp(s) => SetUp(s)', SetUp(s)' => SetUp(s) \/ ~pending_RQST_SCAN_ID[s],
         SameOutput, SameDelivered, \A k \in ScanIds : Untouched(k)
  PROVE  LifeStep
<1> TypeOK
  BY DEF IInv
<1>1. CASE SetUp(s)' <=> SetUp(s)
  <2>1. SetUp(s)' = SetUp(s)
    BY <1>1 DEF SetUp
  <2>2. SameServices
    BY <2>1 DEF SameServices
  <2> QED
    BY <2>2, StutterIs
<1>2. CASE ~SetUp(s) /\ SetUp(s)'
  <2>1. \A k \in ScanIds : owner[k] = s => ~(InMap(k) /\ hist[k].told = "no")
    BY <1>2 DEF NoForgottenRequest, IInv
  <2>2. \A k \in ScanIds : owner[k] = s => LifeOf(k) # "waiting"
    BY <1>2, <2>1, NotSetUpLife
  <2>3. Lifecycle!Of(s, {"waiting"}) = {}
    BY <2>2, OfIs
  <2>4. \A k \in ScanIds : LifeOf(k)' = LifeOf(k)
    BY UntouchedLife
  <2>5. Lifecycle!Move(Lifecycle!Of(s, {"waiting"}), "refused")
    BY <2>3, <2>4, MoveIs
  <2>6. BecomesReady(s)
    <3>1. SetUp(s)' = TRUE
      BY <1>2 DEF SetUp
    <3> QED
      BY <3>1 DEF BecomesReady
  <2> QED
    BY <1>2, <2>5, <2>6, ReadyIs
<1> QED
  BY <1>1, <1>2

\* The flag of one service object is reset.
LEMMA NothingPendingIs ==
  ASSUME ScanTypeOK, NEW s \in Services, NothingPending(s)
  PROVE  /\ ~pending_RQST_SCAN_ID'[s]
         /\ \A t \in Services : t # s => pending_RQST_SCAN_ID'[t] = pending_RQST_SCAN_ID[t]
         /\ ~pending_RQST_SCAN_ID[s] => UNCHANGED pending_RQST_SCAN_ID
<1>1. pending_RQST_SCAN_ID \in [Services -> BOOLEAN]
  BY DEF ScanTypeOK
<1>2. pending_RQST_SCAN_ID' = [t \in Services |-> IF t = s THEN FALSE ELSE pending_RQST_SCAN_ID[t]]
  BY <1>1 DEF NothingPending
<1>3. ASSUME ~pending_RQST_SCAN_ID[s] PROVE UNCHANGED pending_RQST_SCAN_ID
  <2>1. pending_RQST_SCAN_ID = [t \in Services |-> pending_RQST_SCAN_ID[t]]
    BY <1>1
  <2>2. pending_RQST_SCAN_ID[s] = FALSE
    BY <1>1, <1>3
  <2>3. \A t \in Services : (IF t = s THEN FALSE ELSE pending_RQST_SCAN_ID[t]) = pending_RQST_SCAN_ID[t]
    BY <2>2
  <2> QED
    BY <1>2, <2>1, <2>3
<1> QED
  BY <1>2, <1>3

\* The end of one half of the setup of a service answers its waiting scans, or
\* leaves all scans where they are.
LEMMA SetupEndsLife ==
  ASSUME IInv, LifeInv, TypeOK', NEW s \in Services, UNCHANGED <<scans, worker, owner>>,
         \A k \in ScanIds : mq'[k] = mq[k],
         \A t \in Services : t # s => /\ SetUp(t)' = SetUp(t)
                                      /\ pending_RQST_SCAN_ID'[t] = pending_RQST_SCAN_ID[t],
         SetUp(s) => SetUp(s)',
         \/ /\ UNCHANGED <<hist, pending_RQST_SCAN_ID>>
            /\ SetUp(s)' => SetUp(s) \/ ~pending_RQST_SCAN_ID[s]
         \/ /\ pending_RQST_SCAN_ID[s] /\ ~pending_RQST_SCAN_ID'[s]
            /\ \/ TellScans(s, "RESP_SCAN_ID_OK", "ok") /\ SetUp(s)'
               \/ TellScans(s, "RESP_SCAN_ID_ERR", "err")
  PROVE  LifeInv' /\ LifeStep
<1> TypeOK /\ ScanTypeOK
  BY DEF IInv, TypeOK
<1>1. \A k \in ScanIds : /\ InMap(k)' <=> InMap(k)
                         /\ scans'[k] = scans[k] /\ worker'[k] = worker[k]
                         /\ Alive(k)' <=> Alive(k)
  BY DEF InMap, NoScan, Alive
<1>2. SameOutput
  BY DEF SameOutput
<1>3. CASE /\ UNCHANGED <<hist, pending_RQST_SCAN_ID>>
           /\ SetUp(s)' => SetUp(s) \/ ~pending_RQST_SCAN_ID[s]
  <2>1. SameDelivered /\ \A k \in ScanIds : Untouched(k)
    BY <1>1, <1>3 DEF SameDelivered, Untouched
  <2>2. LifeInv'
    BY <1>3, <2>1, LifeInvQuiet
  <2> QED
    BY <1>2, <1>3, <2>1, <2>2, QuietReady
<1>4. ASSUME pending_RQST_SCAN_ID[s], ~pending_RQST_SCAN_ID'[s],
             NEW what \in ReplyKind, NEW answer \in {"ok", "err"}, TellScans(s, what, answer),
             answer = "ok" => SetUp(s)'
      PROVE  LifeInv' /\ LifeStep
  <2>1. \A k \in ScanIds : /\ hist'[k].asked = hist[k].asked
                           /\ hist'[k].left = hist[k].left
                           /\ hist'[k].delivered = hist[k].delivered
                           /\ k \in MapOf(s) => hist'[k].told = answer
                           /\ k \notin MapOf(s) => hist'[k].told = hist[k].told
    BY <1>4, TellScansEffect
  <2>2. ~SetUp(s)
    BY <1>4 DEF GrantedWhenSetUp, IInv
  <2>3. \A t \in Services : \A k \in MapOf(t) :
          /\ k \in ScanIds /\ InMap(k)
          /\ t # s => k \notin MapOf(s)
          /\ t = s => hist[k].told # "ok"
    BY <2>2 DEF GrantedWhenSetUp, IInv, MapOf, MapIds
  <2>4. LifeInv'
    <3>1. \A t \in Services : pending_RQST_SCAN_ID'[t] =>
            /\ pending_RQST_SCAN_ID[t]
            /\ \A k \in MapOf(t) : hist[k].told = "no" => InMap(k)' /\ hist'[k].told = "no"
      BY <1>1, <1>4, <2>1, <2>3
    <3>2. \A k \in ScanIds : InMap(k) /\ hist[k].told = "ok" => hist'[k].told = "ok"
      BY <2>1, <2>3
    <3> QED
      BY <1>1, <2>1, <3>1, <3>2, LifeInvStep
  <2>5. SameDelivered
    BY <2>1 DEF SameDelivered
  <2>6. /\ answer = "ok" => Lifecycle!Move(Lifecycle!Of(s, {"waiting", "refused"}), "granted")
        /\ answer = "err" => Lifecycle!Move(Lifecycle!Of(s, {"waiting"}), "refused")
    BY <2>1, <2>2, AnswerLife
  <2>7. CASE SetUp(s)'
    <3>1. BecomesReady(s)
      <4>1. SetUp(s)' = TRUE
        BY <2>7 DEF SetUp
      <4> QED
        BY <4>1 DEF BecomesReady
    <3>2. Lifecycle!Of(s, {"waiting"}) # {}
      <4>1. PICK k \in MapOf(s) : hist[k].told = "no"
        BY <1>4 DEF LifeInv, PendingIsWaitedFor
      <4>2. k \in ScanIds /\ InMap(k) /\ owner[k] = s
        BY DEF MapOf, MapIds
      <4>3. LifeOf(k) = "waiting"
        BY <2>2, <4>1, <4>2, NotSetUpLife
      <4> QED
        BY <4>2, <4>3, OfIs
    <3> QED
      BY <1>2, <2>2, <2>4, <2>5, <2>6, <3>1, <3>2, ReadyIs
  <2>8. CASE ~SetUp(s)'
    <3>1. answer = "err"
      BY <1>4, <2>8
    <3>2. SameServices
      <4>1. SetUp(s)' = SetUp(s)
        BY <2>2, <2>8 DEF SetUp
      <4> QED
        BY <4>1 DEF SameServices
    <3>3. Lifecycle!Refuse(s)
      BY <1>2, <2>5, <2>6, <3>1, <3>2 DEF Lifecycle!Refuse, SameServices, SameOutput, SameDelivered
    <3> QED
      BY <2>4, <3>3 DEF LifeStep, Lifecycle!Next
  <2> QED
    BY <2>7, <2>8
<1> QED
  BY <1>3, <1>4 DEF ReplyKind

\* NOTIFY_ROOT_ACCESS and NOTIFY_NATIVE_SETUP.
LEMMA RootAccessLife ==
  ASSUME IInv, LifeInv, TypeOK', NEW s \in Services, NotifyRootAccess(s)
  PROVE  LifeInv' /\ LifeStep
<1>1. Handles(Root(s), "NOTIFY_ROOT_ACCESS") /\ Root(s) \in Senders /\ TypeOK /\ ScanTypeOK
  BY SendersDistinct DEF NotifyRootAccess, IInv, TypeOK
<1>2. /\ UNCHANGED <<scans, worker, owner, nativeInstalled>>
      /\ rootAcqisitionFinished'[s]
      /\ \A t \in Services : t # s => rootAcqisitionFinished'[t] = rootAcqisitionFinished[t]
      /\ GrantPending(s, nativeInstalled[s])
  BY <1>1 DEF NotifyRootAccess, ScanTypeOK
<1>3. \A k \in ScanIds : mq'[k] = mq[k]
  <2>1. \A k \in ScanIds : k \in Senders /\ k # Root(s)
    BY SendersDistinct
  <2> QED
    BY <1>1, <2>1, HandlesEffect
<1>4. /\ SetUp(s)' <=> nativeInstalled[s]
      /\ SetUp(s) => SetUp(s)'
      /\ \A t \in Services : t # s => SetUp(t)' = SetUp(t)
  BY <1>2 DEF SetUp
<1>5. \/ /\ UNCHANGED <<hist, pending_RQST_SCAN_ID>>
         /\ SetUp(s)' => SetUp(s) \/ ~pending_RQST_SCAN_ID[s]
      \/ /\ pending_RQST_SCAN_ID[s] /\ NothingPending(s)
         /\ TellScans(s, "RESP_SCAN_ID_OK", "ok") /\ SetUp(s)'
  BY <1>2, <1>4 DEF GrantPending
<1>6. NothingPending(s) \/ UNCHANGED pending_RQST_SCAN_ID
  BY <1>5
<1> QED
  BY <1>1, <1>2, <1>3, <1>4, <1>5, <1>6, NothingPendingIs, SetupEndsLife

\* NOTIFY_NATIVE_SETUP: a failure runs on into the success, as the code does.
LEMMA NativeSetupLife ==
  ASSUME IInv, LifeInv, TypeOK', NEW s \in Services, NotifyNativeSetup(s)
  PROVE  LifeInv' /\ LifeStep
<1>1. Handles(Setup(s), "NOTIFY_NATIVE_SETUP") /\ Setup(s) \in Senders /\ TypeOK /\ ScanTypeOK
  BY SendersDistinct DEF NotifyNativeSetup, IInv, TypeOK
<1>2. /\ UNCHANGED <<scans, worker, owner, rootAcqisitionFinished>>
      /\ nativeInstalled'[s]
      /\ \A t \in Services : t # s => nativeInstalled'[t] = nativeInstalled[t]
  BY <1>1 DEF NotifyNativeSetup, ScanTypeOK
<1>3. \A k \in ScanIds : mq'[k] = mq[k]
  <2>1. \A k \in ScanIds : k \in Senders /\ k # Setup(s)
    BY SendersDistinct
  <2> QED
    BY <1>1, <2>1, HandlesEffect
<1>4. /\ SetUp(s)' <=> rootAcqisitionFinished[s]
      /\ SetUp(s) => SetUp(s)'
      /\ \A t \in Services : t # s => SetUp(t)' = SetUp(t)
  BY <1>2 DEF SetUp
<1>5. /\ \A t \in Services : t # s => pending_RQST_SCAN_ID'[t] = pending_RQST_SCAN_ID[t]
      /\ \/ /\ UNCHANGED <<hist, pending_RQST_SCAN_ID>>
            /\ SetUp(s)' => SetUp(s) \/ ~pending_RQST_SCAN_ID[s]
         \/ /\ pending_RQST_SCAN_ID[s] /\ ~pending_RQST_SCAN_ID'[s]
            /\ \/ TellScans(s, "RESP_SCAN_ID_OK", "ok") /\ SetUp(s)'
               \/ TellScans(s, "RESP_SCAN_ID_ERR", "err")
  <2>1. CASE Head(mq[Setup(s)]).arg = NATIVE_SETUP_FAIL
    <3>1. /\ NothingPending(s)
          /\ IF pending_RQST_SCAN_ID[s] THEN TellScans(s, "RESP_SCAN_ID_ERR", "err")
             ELSE UNCHANGED <<cq, hist>>
      BY <2>1 DEF NotifyNativeSetup
    <3>2. ~pending_RQST_SCAN_ID[s] => UNCHANGED pending_RQST_SCAN_ID
      BY <1>1, <3>1, NothingPendingIs
    <3> QED
      BY <1>1, <3>1, <3>2, NothingPendingIs
  <2>2. CASE Head(mq[Setup(s)]).arg # NATIVE_SETUP_FAIL
    <3>1. GrantPending(s, rootAcqisitionFinished[s])
      BY <2>2 DEF NotifyNativeSetup
    <3>2. NothingPending(s) \/ UNCHANGED pending_RQST_SCAN_ID
      BY <3>1 DEF GrantPending
    <3> QED
      BY <1>1, <1>4, <3>1, <3>2, NothingPendingIs DEF GrantPending
  <2> QED
    BY <2>1, <2>2
<1> QED
  BY <1>2, <1>3, <1>4, <1>5, SetupEndsLife

\* Every message of ScanServiceHandler.handleMessage.
LEMMA HandleMessageLife ==
  ASSUME IInv, LifeInv, TypeOK', HandleMessage
  PROVE  LifeInv' /\ LifeStep
BY RqstScanIdLife, RqstStartScanLife, RqstStopScanLife, RqstResultsLife, ScanNoteLife,
   RootAccessLife, NativeSetupLife DEF HandleMessage

\* Every step of the session keeps LifeInv and is a step of the life cycle, or
\* changes nothing of it.
LEMMA NextLife ==
  ASSUME IInv, LifeInv, TypeOK', [Next]_vars
  PROVE  LifeInv' /\ LifeStep
<1>1. CASE Next
  BY <1>1, LifeCycleLife, HandleMessageLife, PoolLife, ActivityLife DEF Next
<1>2. CASE UNCHANGED vars
  <2>1. UNCHANGED <<scans, hist, pending_RQST_SCAN_ID, worker, mq, owner, rootAcqisitionFinished,
                    nativeInstalled>>
    BY <1>2 DEF vars, commVars, workerVars, serviceVars
  <2>2. SameServices
    BY <2>1 DEF SameServices, SetUp
  <2> QED
    BY <2>1, <2>2, SameIsStutter
<1> QED
  BY <1>1, <1>2

\* The first states are first states of the life cycle.
LEMMA InitLife ==
  ASSUME Init
  PROVE  LifeInv /\ Lifecycle!Init
<1>1. \A id \in ScanIds : /\ mq[id] = <<>> /\ scans[id] = NoScan
                          /\ hist[id] = NoHistory /\ worker[id] = NoWorker
  BY DEF Init, CommInit, ScanServiceInit, NmapInit, Senders
<1>2. /\ NoHistory.asked = 0 /\ NoHistory.left = "no" /\ NoHistory.delivered = 0
      /\ NoWorker.pc = "idle" /\ NoWorker.out = 0 /\ ~NoScan.finished
  BY DEF NoHistory, NoWorker, NoScan
<1>3. /\ \A s \in Services : ~pending_RQST_SCAN_ID[s] /\ SetUp(s) = FALSE
      /\ owner \in [ScanIds -> Services]
  BY IncarnationsAssumption DEF Init, ScanServiceInit, NmapInit, SetUp, AllFalse, Services
<1>4. LifeInv
  BY <1>1, <1>2, <1>3 DEF LifeInv, KeptUntilLeft, StartedIsGranted, PendingIsWaitedFor,
     InterruptedHasLeft, EndIsLast, UnknownWasStopped, Alive, InMap
<1>5. \A id \in ScanIds : LifeOf(id) = "free"
  BY <1>1, <1>2 DEF LifeOf
<1>6. Lifecycle!Init
  BY <1>1, <1>2, <1>3, <1>5 DEF Lifecycle!Init
<1> QED
  BY <1>4, <1>6

\* What the service, an activity and a Runnable know of a scan agrees with its
\* abstract life (hist): the invariant under which each step refines ScanLifecycle.
THEOREM LifeInvariance == Spec => []LifeInv
<1>1. Init => LifeInv
  BY InitLife
<1>2. IInv /\ TypeOK' /\ LifeInv /\ [Next]_vars => LifeInv'
  BY NextLife
<1> QED
  BY <1>1, <1>2, Invariance, TypeCorrect, PTL DEF Spec

\* The service only hears of a scan outside its map when that scan was stopped, or
\* the service destroyed: the Runnable of a scan whose results were collected has
\* nothing more to say, whatever fails and whoever stops the scan when.
THEOREM StrayNotesAreOfStopped == Spec => []UnknownWasStopped
<1>1. LifeInv => UnknownWasStopped
  BY DEF LifeInv
<1> QED
  BY <1>1, LifeInvariance, PTL

\* The session implements ScanLifecycle, for any activities, ids, restarts and
\* failures: messages, Runnables and process deaths show each scan a life of asking,
\* waiting, running, finishing and leaving, in which its output is handed over whole.
THEOREM Implements == Spec => LifecycleSpec
<1>1. Init => Lifecycle!Init
  BY InitLife
<1>2. IInv /\ TypeOK' /\ LifeInv /\ [Next]_vars => [Lifecycle!Next]_(Lifecycle!vars)
  BY NextLife DEF LifeStep
<1> QED
  BY <1>1, <1>2, Invariance, TypeCorrect, LifeInvariance, PTL DEF Spec, LifecycleSpec, Lifecycle!Spec

(***************************************************************************)
(* What follows from the life cycle alone, and so of the session.          *)
(***************************************************************************)
Stage == [free |-> 0, waiting |-> 1, refused |-> 2, granted |-> 3, running |-> 4, finished |-> 5,
          stopped |-> 6, collected |-> 6, cleared |-> 6, died |-> 6]

\* A step of a scan's life.
Forward(id) == LifeOf(id)' = LifeOf(id) \/ Stage[LifeOf(id)] < Stage[LifeOf(id)']

\* A scan that was announced as finished puts out nothing more.
OutputStands(id) ==
  LifeOf(id) \in {"finished", "collected"} => worker'[id].out = worker[id].out

\* What the abstract moves say of one scan.
LEMMA MovesLives ==
  ASSUME NEW S, NEW s, Lifecycle!Move(S, s), NEW id \in ScanIds
  PROVE  LifeOf(id)' = IF id \in S THEN s ELSE LifeOf(id)
<1>1. [k \in ScanIds |-> LifeOf(k)'] =
        [k \in ScanIds |-> IF k \in S THEN s ELSE [j \in ScanIds |-> LifeOf(j)][k]]
  BY DEF Lifecycle!Move
<1>2. [k \in ScanIds |-> LifeOf(k)'][id] = LifeOf(id)'
  OBVIOUS
<1>3. [k \in ScanIds |-> IF k \in S THEN s ELSE [j \in ScanIds |-> LifeOf(j)][k]][id]
        = IF id \in S THEN s ELSE LifeOf(id)
  OBVIOUS
<1> QED
  BY <1>1, <1>2, <1>3

LEMMA SameOutIs ==
  ASSUME UNCHANGED [k \in ScanIds |-> worker[k].out], NEW id \in ScanIds
  PROVE  worker'[id].out = worker[id].out
<1>1. [k \in ScanIds |-> worker'[k].out] = [k \in ScanIds |-> worker[k].out]
  OBVIOUS
<1>2. [k \in ScanIds |-> worker'[k].out][id] = [k \in ScanIds |-> worker[k].out][id]
  BY <1>1
<1> QED
  BY <1>2

LEMMA SameLifeIs ==
  ASSUME UNCHANGED [k \in ScanIds |-> LifeOf(k)], NEW id \in ScanIds
  PROVE  LifeOf(id)' = LifeOf(id)
<1>1. [k \in ScanIds |-> LifeOf(k)'] = [k \in ScanIds |-> LifeOf(k)]
  OBVIOUS
<1>2. [k \in ScanIds |-> LifeOf(k)'][id] = [k \in ScanIds |-> LifeOf(k)][id]
  BY <1>1
<1> QED
  BY <1>2

LEMMA StageIs ==
  /\ Stage["free"] = 0 /\ Stage["waiting"] = 1 /\ Stage["refused"] = 2 /\ Stage["granted"] = 3
  /\ Stage["running"] = 4 /\ Stage["finished"] = 5
  /\ Stage["stopped"] = 6 /\ Stage["collected"] = 6 /\ Stage["cleared"] = 6 /\ Stage["died"] = 6
BY DEF Stage

\* Scans that move to a later stage move forward.
LEMMA MoveForward ==
  ASSUME NEW S, NEW s, Lifecycle!Move(S, s), UNCHANGED [k \in ScanIds |-> worker[k].out],
         NEW id \in ScanIds, id \in S => Stage[LifeOf(id)] < Stage[s]
  PROVE  Forward(id) /\ OutputStands(id)
<1>1. LifeOf(id)' = IF id \in S THEN s ELSE LifeOf(id)
  BY MovesLives
<1>2. worker'[id].out = worker[id].out
  BY SameOutIs
<1> QED
  BY <1>1, <1>2 DEF Forward, OutputStands

\* The actions of one scan.
LEMMA OneForward ==
  ASSUME NEW k \in ScanIds, NEW id \in ScanIds,
         (\E s \in Services : Lifecycle!Ask(k, s)) \/ Lifecycle!Run(k) \/ Lifecycle!Finish(k)
           \/ Lifecycle!Collect(k) \/ Lifecycle!Stop(k)
  PROVE  Forward(id) /\ OutputStands(id)
<1>1. [j \in ScanIds |-> LifeOf(j)][k] = LifeOf(k) /\ (id \in {k} => id = k)
  OBVIOUS
<1>2. CASE \E s \in Services : Lifecycle!Ask(k, s)
  <2>1. PICK s \in {"granted", "waiting"} : Lifecycle!Move({k}, s)
    BY <1>2 DEF Lifecycle!Ask
  <2>2. LifeOf(k) = "free" /\ UNCHANGED [j \in ScanIds |-> worker[j].out]
    BY <1>1, <1>2 DEF Lifecycle!Ask
  <2>3. id \in {k} => Stage[LifeOf(id)] < Stage[s]
    BY <1>1, <2>2, StageIs
  <2> QED
    BY <2>1, <2>2, <2>3, MoveForward
<1>3. CASE Lifecycle!Run(k)
  <2>1. Lifecycle!Move({k}, "running") /\ UNCHANGED [j \in ScanIds |-> worker[j].out]
    BY <1>3 DEF Lifecycle!Run
  <2>2. id \in {k} => Stage[LifeOf(id)] < Stage["running"]
    BY <1>1, <1>3, StageIs DEF Lifecycle!Run
  <2> QED
    BY <2>1, <2>2, MoveForward
<1>4. CASE Lifecycle!Finish(k)
  <2>1. Lifecycle!Move({k}, "finished") /\ UNCHANGED [j \in ScanIds |-> worker[j].out]
    BY <1>4 DEF Lifecycle!Finish
  <2>2. id \in {k} => Stage[LifeOf(id)] < Stage["finished"]
    BY <1>1, <1>4, StageIs DEF Lifecycle!Finish
  <2> QED
    BY <2>1, <2>2, MoveForward
<1>5. CASE Lifecycle!Collect(k)
  <2>1. Lifecycle!Move({k}, "collected") /\ UNCHANGED [j \in ScanIds |-> worker[j].out]
    BY <1>5 DEF Lifecycle!Collect
  <2>2. id \in {k} => Stage[LifeOf(id)] < Stage["collected"]
    BY <1>1, <1>5, StageIs DEF Lifecycle!Collect
  <2> QED
    BY <2>1, <2>2, MoveForward
<1>6. CASE Lifecycle!Stop(k)
  <2>1. Lifecycle!Move({k}, "stopped") /\ UNCHANGED [j \in ScanIds |-> worker[j].out]
    BY <1>6 DEF Lifecycle!Stop
  <2>2. id \in {k} => Stage[LifeOf(id)] < Stage["stopped"]
    BY <1>1, <1>6, StageIs DEF Lifecycle!Stop
  <2> QED
    BY <2>1, <2>2, MoveForward
<1> QED
  BY <1>2, <1>3, <1>4, <1>5, <1>6

\* The actions of all scans of a service, or of all there are.
LEMMA AllForward ==
  ASSUME NEW id \in ScanIds, NEW s \in Services,
         Lifecycle!GetReady(s) \/ Lifecycle!Refuse(s) \/ Lifecycle!Clear(s) \/ Lifecycle!Die
  PROVE  Forward(id) /\ OutputStands(id)
<1>1. \A S : id \in Lifecycle!In(S) \/ id \in Lifecycle!Of(s, S) => LifeOf(id) \in S
  BY InIs, OfIs
<1>2. CASE Lifecycle!GetReady(s) \/ Lifecycle!Refuse(s)
  <2>1. UNCHANGED [j \in ScanIds |-> worker[j].out]
    BY <1>2 DEF Lifecycle!GetReady, Lifecycle!Refuse
  <2>2. CASE Lifecycle!Move(Lifecycle!Of(s, {"waiting", "refused"}), "granted")
    <3>1. id \in Lifecycle!Of(s, {"waiting", "refused"}) => Stage[LifeOf(id)] < Stage["granted"]
      BY <1>1, StageIs
    <3> QED
      BY <2>1, <2>2, <3>1, MoveForward
  <2>3. CASE Lifecycle!Move(Lifecycle!Of(s, {"waiting"}), "refused")
    <3>1. id \in Lifecycle!Of(s, {"waiting"}) => Stage[LifeOf(id)] < Stage["refused"]
      BY <1>1, StageIs
    <3> QED
      BY <2>1, <2>3, <3>1, MoveForward
  <2> QED
    BY <1>2, <2>2, <2>3 DEF Lifecycle!GetReady, Lifecycle!Refuse
<1>3. CASE Lifecycle!Clear(s) \/ Lifecycle!Die
  <2>1. UNCHANGED [j \in ScanIds |-> worker[j].out]
    BY <1>3 DEF Lifecycle!Clear, Lifecycle!Die
  <2>2. PICK how \in {"cleared", "died"}, S \in {Lifecycle!In(Lifecycle!Held),
                                               Lifecycle!Of(s, Lifecycle!Held)} :
          Lifecycle!Move(S, how)
    BY <1>3 DEF Lifecycle!Clear, Lifecycle!Die
  <2>3. id \in S => Stage[LifeOf(id)] < Stage[how]
    BY <1>1, <2>2, StageIs DEF Lifecycle!Held
  <2> QED
    BY <2>1, <2>2, <2>3, MoveForward
<1> QED
  BY <1>2, <1>3

\* Output is of scans that run, or ran when they were stopped.
LEMMA OutputForward ==
  ASSUME NEW k \in ScanIds, NEW id \in ScanIds, Lifecycle!Output(k)
  PROVE  Forward(id) /\ OutputStands(id)
<1>1. LifeOf(id)' = LifeOf(id)
  BY SameLifeIs DEF Lifecycle!Output
<1>2. LifeOf(k) \in {"running", "stopped", "cleared"}
  BY DEF Lifecycle!Output
<1>3. k # id => worker'[id].out = worker[id].out
  <2>1. [j \in ScanIds |-> worker'[j].out] =
          [[j \in ScanIds |-> worker[j].out] EXCEPT ![k] = @ + 1]
    BY DEF Lifecycle!Output
  <2>2. ASSUME k # id
        PROVE  [j \in ScanIds |-> worker'[j].out][id] = [j \in ScanIds |-> worker[j].out][id]
    BY <2>1, <2>2
  <2> QED
    BY <2>2
<1> QED
  BY <1>1, <1>2, <1>3 DEF Forward, OutputStands

LEMMA LifeGoesOn ==
  ASSUME LifeStep, NEW id \in ScanIds
  PROVE  Forward(id) /\ OutputStands(id)
<1>1. CASE UNCHANGED Lifecycle!vars \/ \E k \in ScanIds : Lifecycle!Show(k)
  <2>1. UNCHANGED [k \in ScanIds |-> worker[k].out] /\ UNCHANGED [k \in ScanIds |-> LifeOf(k)]
    BY <1>1 DEF Lifecycle!vars, Lifecycle!Show
  <2> QED
    BY <2>1, SameOutIs, SameLifeIs DEF Forward, OutputStands
<1>2. CASE \/ Lifecycle!Die
           \/ \E s \in Services : Lifecycle!GetReady(s) \/ Lifecycle!Refuse(s) \/ Lifecycle!Clear(s)
  <2>1. 1 \in Services
    BY IncarnationsAssumption DEF Services
  <2> QED
    BY <1>2, <2>1, AllForward
<1>3. ASSUME NEW k \in ScanIds,
             \/ \E s \in Services : Lifecycle!Ask(k, s)
             \/ Lifecycle!Run(k) \/ Lifecycle!Output(k)
             \/ Lifecycle!Finish(k) \/ Lifecycle!Collect(k) \/ Lifecycle!Stop(k)
      PROVE  Forward(id) /\ OutputStands(id)
  BY <1>3, OneForward, OutputForward
<1> QED
  BY <1>1, <1>2, <1>3 DEF LifeStep, Lifecycle!Next

\* The life of a scan goes forward only: no scan is granted, started, finished or
\* collected twice, and none that left the service comes back, whatever messages of
\* former processes, retries and restarts arrive (handleMessage).
THEOREM LivesGoForward == Spec => [][\A id \in ScanIds : Forward(id)]_vars
<1>1. [Lifecycle!Next]_(Lifecycle!vars) => \A id \in ScanIds : Forward(id)
  BY LifeGoesOn DEF LifeStep
<1> QED
  BY <1>1, Implements, PTL DEF LifecycleSpec, Lifecycle!Spec

\* Once a scan is finished, in the service's map or collected, its output stands
\* still: nothing the Runnable still does changes the buffer the service hands out
\* (NmapScanServiceRunnable, getResults).
THEOREM FinishedIsFinal == Spec => [][\A id \in ScanIds : OutputStands(id)]_vars
<1>1. [Lifecycle!Next]_(Lifecycle!vars) => \A id \in ScanIds : OutputStands(id)
  BY LifeGoesOn DEF LifeStep
<1> QED
  BY <1>1, Implements, PTL DEF LifecycleSpec, Lifecycle!Spec
=============================================================================
