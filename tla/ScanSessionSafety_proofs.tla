---------------------- MODULE ScanSessionSafety_proofs -----------------------
(***************************************************************************)
(* The safety of ScanSession: IInv is inductive, and with it the four      *)
(* safety properties hold for every set of activities and ids.             *)
(*                                                                         *)
(* First what the helpers of the model do to one id, one Runnable or one   *)
(* queue; then one lemma per action, with one step per conjunct of IInv.   *)
(* The handlers that change little share QuietStep and AnswerStep.         *)
(***************************************************************************)
EXTENDS ScanSession_proofs

\* The messages left after the first was taken were there before.
LEMMA RangeOfTail ==
  ASSUME NEW S, NEW q \in Seq(S), q # <<>>
  PROVE  Range(Tail(q)) \subseteq Range(q) /\ Head(q) \in Range(q)
<1>1. Tail(q) \in Seq(S) /\ Len(Tail(q)) = Len(q) - 1 /\ Len(q) \in Nat /\ Len(q) > 0
  OBVIOUS
<1>2. \A i \in 1..Len(Tail(q)) : Tail(q)[i] = q[i + 1] /\ i + 1 \in 1..Len(q)
  BY <1>1
<1>3. DOMAIN Tail(q) = 1..Len(Tail(q)) /\ DOMAIN q = 1..Len(q)
  BY <1>1
<1>4. Head(q) = q[1] /\ 1 \in DOMAIN q
  BY <1>1, <1>3
<1> QED
  BY <1>2, <1>3, <1>4 DEF Range

\* Posting adds one message.
LEMMA RangeOfAppend ==
  ASSUME NEW S, NEW q \in Seq(S), NEW m
  PROVE  Range(Append(q, m)) = Range(q) \cup {m}
<1>1. Append(q, m) \in Seq(S \cup {m}) /\ Len(Append(q, m)) = Len(q) + 1 /\ Len(q) \in Nat
  OBVIOUS
<1>2. \A i \in 1..Len(q) + 1 : Append(q, m)[i] = IF i = Len(q) + 1 THEN m ELSE q[i]
  OBVIOUS
<1>3. DOMAIN Append(q, m) = 1..Len(q) + 1 /\ DOMAIN q = 1..Len(q)
  BY <1>1
<1> QED
  BY <1>1, <1>2, <1>3 DEF Range

\* Posting several messages adds no others.
LEMMA RangeOfConcat ==
  ASSUME NEW S, NEW q \in Seq(S), NEW r \in Seq(S)
  PROVE  Range(q \o r) \subseteq Range(q) \cup Range(r)
<1>1. q \o r \in Seq(S) /\ Len(q \o r) = Len(q) + Len(r) /\ Len(q) \in Nat /\ Len(r) \in Nat
  OBVIOUS
<1>2. ASSUME NEW i \in 1..Len(q \o r) PROVE (q \o r)[i] \in Range(q) \cup Range(r)
  <2>1. DOMAIN q = 1..Len(q) /\ DOMAIN r = 1..Len(r)
    OBVIOUS
  <2>2. CASE i <= Len(q)
    <3>1. (q \o r)[i] = q[i] /\ i \in DOMAIN q
      BY <2>1, <2>2, <1>1
    <3> QED
      BY <3>1 DEF Range
  <2>3. CASE i > Len(q)
    <3>1. (q \o r)[i] = r[i - Len(q)] /\ i - Len(q) \in DOMAIN r
      BY <2>1, <2>3, <1>1
    <3> QED
      BY <3>1 DEF Range
  <2> QED
    BY <2>2, <2>3, <1>1
<1>3. DOMAIN (q \o r) = 1..Len(q \o r)
  BY <1>1
<1> QED
  BY <1>2, <1>3 DEF Range

\* An empty queue holds no message.
LEMMA RangeOfEmpty == Range(<<>>) = {}
BY DEF Range

\* The senders to the service are different, and so are their queues.
LEMMA SendersDistinct ==
  /\ Clients \subseteq Senders /\ ScanIds \subseteq Senders
  /\ \A c \in Clients : c \notin ScanIds
  /\ \A s \in Services : /\ Root(s) \in Senders /\ Root(s) \notin Clients \cup ScanIds
                         /\ Setup(s) \in Senders /\ Setup(s) \notin Clients \cup ScanIds
  /\ \A s, t \in Services : /\ Root(s) # Setup(t)
                            /\ Root(s) = Root(t) => s = t
                            /\ Setup(s) = Setup(t) => s = t
<1>1. \A s, t \in Services : /\ Root(s) # Setup(t)
                             /\ Root(s) = Root(t) => s = t
                             /\ Setup(s) = Setup(t) => s = t
  BY DEF Root, Setup
<1> QED
  BY <1>1, SendersAssumption DEF Senders

\* A sequence of length 0 is empty.
LEMMA EmptyOfLen ==
  ASSUME NEW S, NEW q \in Seq(S), Len(q) = 0
  PROVE  q = <<>>
OBVIOUS

\* The only message of a queue leaves it empty.
LEMMA TailOfOne ==
  ASSUME NEW S, NEW q \in Seq(S), q # <<>>, Len(q) <= 1
  PROVE  Tail(q) = <<>>
<1>1. Len(q) \in Nat /\ Len(q) > 0
  OBVIOUS
<1>2. PICK n \in Nat : n = Len(q)
  BY <1>1
<1>3. n > 0 /\ n <= 1
  BY <1>1, <1>2
<1>4. Tail(q) \in Seq(S) /\ Len(Tail(q)) = Len(q) - 1
  OBVIOUS
<1>5. Len(Tail(q)) = 0
  BY <1>2, <1>3, <1>4
<1> QED
  BY <1>4, <1>5, EmptyOfLen

\* The Scan objects are the values that have an activity; where there is none,
\* none is started or finished.
LEMMA InMapClient ==
  ASSUME ScanTypeOK, NEW id \in ScanIds
  PROVE  /\ InMap(id) <=> scans[id].client \in Clients
         /\ ~InMap(id) => ~scans[id].started /\ ~scans[id].finished
<1>1. CASE scans[id] = NoScan
  <2>1. scans[id].client = NoId /\ ~scans[id].started /\ ~scans[id].finished
    BY <1>1 DEF NoScan
  <2> QED
    BY <1>1, <2>1, NoIdAssumption DEF InMap
<1>2. CASE scans[id] # NoScan
  BY <1>2 DEF InMap, ScanTypeOK
<1> QED
  BY <1>1, <1>2

\* What the removal of Scan objects does to each id.
LEMMA LeaveEffect ==
  ASSUME ScanTypeOK, NEW ids, NEW how \in {"stopped", "collected", "cleared", "died"},
         Leave(ids, how), NEW id \in ScanIds
  PROVE  /\ id \in ids => /\ scans'[id] = NoScan
                          /\ hist'[id].left = how
         /\ id \notin ids => scans'[id] = scans[id] /\ hist'[id].left = hist[id].left
         /\ hist'[id].asked = hist[id].asked
         /\ hist'[id].told = hist[id].told
         /\ hist'[id].delivered = hist[id].delivered
<1>1. hist'[id] = IF id \in ids THEN [hist[id] EXCEPT !.left = how] ELSE hist[id]
  BY DEF Leave
<1>2. \A h \in History : /\ [h EXCEPT !.left = how].left = how
                         /\ [h EXCEPT !.left = how].asked = h.asked
                         /\ [h EXCEPT !.left = how].told = h.told
                         /\ [h EXCEPT !.left = how].delivered = h.delivered
  BY DEF History
<1>3. hist[id] \in History
  BY DEF ScanTypeOK
<1>4. scans'[id] = IF id \in ids THEN NoScan ELSE scans[id]
  BY DEF Leave
<1> QED
  BY <1>1, <1>2, <1>3, <1>4

\* What Future.cancel(true) does to each Runnable: none starts, none comes back,
\* and those that go on are interrupted.
LEMMA CancelEffect ==
  ASSUME NmapTypeOK, NEW ids, Cancel(ids), NEW id \in ScanIds
  PROVE  /\ id \notin ids => worker'[id] = worker[id]
         /\ worker'[id].pc = "idle" <=> worker[id].pc = "idle"
         /\ worker[id].pc = "done" => worker'[id].pc = "done"
         /\ Alive(id)' => Alive(id)
         /\ Alive(id)' /\ id \in ids => worker'[id].interrupted
         /\ worker'[id].root = worker[id].root
         /\ worker'[id].out = worker[id].out
<1>1. worker[id] \in Worker
  BY DEF NmapTypeOK
<1>2. ASSUME NEW w \in Worker
      PROVE  /\ Cancelled(w).pc = "idle" <=> w.pc = "idle"
             /\ w.pc = "done" => Cancelled(w).pc = "done"
             /\ Cancelled(w).pc \in {"queued", "reading"}
                   => w.pc \in {"queued", "reading"} /\ Cancelled(w).interrupted
             /\ Cancelled(w).root = w.root
             /\ Cancelled(w).out = w.out
  <2>1. CASE w.pc = "queued"
    <3>1. Cancelled(w) = [w EXCEPT !.pc = "done", !.interrupted = TRUE]
      BY <2>1 DEF Cancelled
    <3> QED
      BY <3>1, <2>1 DEF Worker
  <2>2. CASE w.pc = "reading"
    <3>1. Cancelled(w) = [w EXCEPT !.interrupted = TRUE]
      BY <2>2 DEF Cancelled
    <3> QED
      BY <3>1, <2>2 DEF Worker
  <2>3. CASE w.pc \notin {"queued", "reading"}
    <3>1. Cancelled(w) = w
      BY <2>3 DEF Cancelled
    <3> QED
      BY <3>1, <2>3
  <2> QED
    BY <2>1, <2>2, <2>3
<1>3. worker'[id] = IF id \in ids THEN Cancelled(worker[id]) ELSE worker[id]
  BY DEF Cancel
<1> HIDE DEF Cancelled
<1>4. CASE id \in ids
  BY <1>1, <1>2, <1>3, <1>4 DEF Alive
<1>5. CASE id \notin ids
  BY <1>3, <1>5 DEF Alive
<1> QED
  BY <1>4, <1>5

\* What answering all scans does: the answer is recorded for those in the map, and
\* only activities with a scan in the map are told, of that scan.
LEMMA TellScansEffect ==
  ASSUME TypeOK, NEW s \in Services, NEW what \in ReplyKind, NEW answer \in {"ok", "err"},
         TellScans(s, what, answer)
  PROVE  /\ \A id \in ScanIds : /\ hist'[id].asked = hist[id].asked
                                /\ hist'[id].left = hist[id].left
                                /\ hist'[id].delivered = hist[id].delivered
                                /\ id \in MapOf(s) => hist'[id].told = answer
                                /\ id \notin MapOf(s) => hist'[id].told = hist[id].told
         /\ \A c \in Clients : \A m \in Range(cq'[c]) :
              m \in Range(cq[c]) \/ (m.what = what /\ m.id \in MapOf(s))
<1>1. ASSUME NEW id \in ScanIds
      PROVE  /\ hist'[id].asked = hist[id].asked
             /\ hist'[id].left = hist[id].left
             /\ hist'[id].delivered = hist[id].delivered
             /\ id \in MapOf(s) => hist'[id].told = answer
             /\ id \notin MapOf(s) => hist'[id].told = hist[id].told
  <2>1. hist'[id] = IF id \in MapOf(s) THEN [hist[id] EXCEPT !.told = answer] ELSE hist[id]
    BY DEF TellScans
  <2>2. \A h \in History : /\ [h EXCEPT !.told = answer].told = answer
                           /\ [h EXCEPT !.told = answer].asked = h.asked
                           /\ [h EXCEPT !.told = answer].left = h.left
                           /\ [h EXCEPT !.told = answer].delivered = h.delivered
    BY DEF History
  <2>3. hist[id] \in History
    BY DEF TypeOK, ScanTypeOK
  <2> QED
    BY <2>1, <2>2, <2>3
<1>2. ASSUME NEW c \in Clients, NEW m \in Range(cq'[c])
      PROVE  m \in Range(cq[c]) \/ (m.what = what /\ m.id \in MapOf(s))
  <2> DEFINE idsOf == [d \in Clients |-> {id \in MapOf(s) : scans[id].client = d}]
  <2>1. idsOf[c] \in SUBSET ScanIds /\ idsOf[c] \subseteq MapOf(s)
    BY DEF MapOf, MapIds
  <2>2. TellAll(idsOf, what)
    BY DEF TellScans
  <2> HIDE DEF idsOf
  <2>3. PICK order \in [Clients -> UNION {SetToSeqs(ids) : ids \in SUBSET ScanIds}] :
        /\ \A d \in Clients : order[d] \in SetToSeqs(idsOf[d])
        /\ cq' = [d \in Clients |->
                IF d \in gone THEN cq[d]
                ELSE cq[d] \o [i \in DOMAIN order[d] |-> Msg(what, order[d][i], 0)]]
    BY <2>2 DEF TellAll
  <2> DEFINE batch == [i \in DOMAIN order[c] |-> Msg(what, order[c][i], 0)]
  <2>4. order[c] \in Seq(idsOf[c]) /\ batch \in Seq(ToActivity)
    BY <2>1, <2>3, BatchType
  <2>5. cq'[c] = cq[c] \/ cq'[c] = cq[c] \o batch
    BY <2>3
  <2>6. \A b \in Range(batch) : b.what = what /\ b.id \in MapOf(s)
    <3>1. \A i \in DOMAIN order[c] : order[c][i] \in MapOf(s)
      BY <2>1, <2>4
    <3>2. DOMAIN batch = DOMAIN order[c]
      OBVIOUS
    <3>3. \A i \in DOMAIN batch : batch[i].what = what /\ batch[i].id = order[c][i]
      BY DEF Msg
    <3> QED
      BY <3>1, <3>2, <3>3 DEF Range
  <2>7. cq[c] \in Seq(ToActivity)
    BY DEF TypeOK, CommTypeOK
  <2> HIDE DEF batch
  <2>8. CASE cq'[c] = cq[c] \o batch
    <3>1. Range(cq[c] \o batch) \subseteq Range(cq[c]) \cup Range(batch)
      BY <2>4, <2>7, RangeOfConcat
    <3> QED
      BY <3>1, <2>6, <2>8
  <2> QED
    BY <2>5, <2>8
<1> QED
  BY <1>1, <1>2

\* Telling an activity adds at most that message to the activities' queues.
LEMMA TellActivityEffect ==
  ASSUME CommTypeOK, NEW c \in Clients, NEW what, NEW id, NEW arg,
         TellActivity(c, what, id, arg)
  PROVE  \A d \in Clients : \A m \in Range(cq'[d]) :
           m \in Range(cq[d]) \/ (m.what = what /\ m.id = id)
<1>1. ASSUME NEW d \in Clients
      PROVE  cq'[d] = cq[d] \/ cq'[d] = Append(cq[d], Msg(what, id, arg))
  BY DEF TellActivity, CommTypeOK
<1>2. ASSUME NEW d \in Clients, cq'[d] = Append(cq[d], Msg(what, id, arg))
      PROVE  Range(cq'[d]) = Range(cq[d]) \cup {Msg(what, id, arg)}
  BY <1>2, RangeOfAppend DEF CommTypeOK
<1>3. Msg(what, id, arg).what = what /\ Msg(what, id, arg).id = id
  BY DEF Msg
<1>4. ASSUME NEW d \in Clients, NEW m \in Range(cq'[d])
      PROVE  m \in Range(cq[d]) \/ (m.what = what /\ m.id = id)
  <2>1. CASE cq'[d] = cq[d]
    BY <1>4, <2>1
  <2>2. CASE cq'[d] = Append(cq[d], Msg(what, id, arg))
    BY <1>2, <1>3, <1>4, <2>2
  <2> QED
    BY <1>1, <2>1, <2>2
<1> QED
  BY <1>4

\* Taking a message removes it and touches no other sender's queue.
LEMMA ConsumeEffect ==
  ASSUME CommTypeOK, NEW s \in Senders, mq[s] # <<>>, Consume(s)
  PROVE  /\ \A r \in Senders : r # s => mq'[r] = mq[r]
         /\ mq'[s] = Tail(mq[s])
         /\ \A r \in Senders : Range(mq'[r]) \subseteq Range(mq[r])
         /\ Head(mq[s]) \in Range(mq[s])
<1>1. \A r \in Senders : mq'[r] = IF r = s THEN Tail(mq[s]) ELSE mq[r]
  BY DEF CommTypeOK, Consume
<1>2. mq[s] \in Seq(ToService)
  BY DEF CommTypeOK
<1> QED
  BY <1>1, <1>2, RangeOfTail

\* A post adds its message to the sender's queue only.
LEMMA PostEffect ==
  ASSUME CommTypeOK, NEW x \in Senders, NEW s, NEW what, NEW id, NEW arg, Post(x, s, what, id, arg)
  PROVE  /\ \A r \in Senders : r # x => mq'[r] = mq[r]
         /\ Range(mq'[x]) = Range(mq[x]) \cup {MsgTo(s, what, id, arg)}
         /\ mq'[x] = Append(mq[x], MsgTo(s, what, id, arg))
<1>1. /\ mq'[x] = Append(mq[x], MsgTo(s, what, id, arg))
      /\ \A r \in Senders : r # x => mq'[r] = mq[r]
  BY DEF CommTypeOK, Post
<1>2. mq[x] \in Seq(ToService)
  BY DEF CommTypeOK
<1> QED
  BY <1>1, <1>2, RangeOfAppend

\* A request adds at most its message to the queue of its activity, and nothing
\* when no service object is hosted.
LEMMA RequestEffect ==
  ASSUME CommTypeOK, NEW c \in Clients, NEW what, NEW id, NEW arg, Request(c, what, id, arg)
  PROVE  /\ \A r \in Senders : r # c => mq'[r] = mq[r]
         /\ hosted = {} => mq' = mq
         /\ \A m \in Range(mq'[c]) : m \in Range(mq[c]) \/ m = MsgTo(binder[c], what, id, arg)
<1>1. CASE mq' = mq
  BY <1>1
<1>2. CASE binder[c] \in hosted /\ mq' = [mq EXCEPT ![c] = Append(@, MsgTo(binder[c], what, id, arg))]
  <2>1. mq'[c] = Append(mq[c], MsgTo(binder[c], what, id, arg)) /\ mq[c] \in Seq(ToService)
    BY <1>2 DEF CommTypeOK, Senders
  <2>2. Range(mq'[c]) = Range(mq[c]) \cup {MsgTo(binder[c], what, id, arg)}
    BY <2>1, RangeOfAppend
  <2> QED
    BY <1>2, <2>2 DEF CommTypeOK
<1> QED
  BY <1>1, <1>2 DEF Request

\* The end of the service's process preserves the invariant: Scan objects, threads,
\* messages and the fields of the service go together.
LEMMA DiesStep ==
  ASSUME IInv, TypeOK', NEW why, Dies(why)
  PROVE  IInv'
<1> TypeOK /\ ScanTypeOK /\ NmapTypeOK
  BY DEF IInv, TypeOK
<1>1. \A id \in ScanIds : /\ scans'[id] = NoScan
                          /\ id \in MapIds => hist'[id].left = "died"
                          /\ id \notin MapIds => hist'[id].left = hist[id].left
                          /\ hist'[id].asked = hist[id].asked
                          /\ hist'[id].told = hist[id].told
                          /\ hist'[id].delivered = hist[id].delivered
  <2>1. Leave(MapIds, "died")
    BY DEF Dies
  <2>2. \A id \in ScanIds : id \notin MapIds => scans[id] = NoScan
    BY DEF MapIds, InMap
  <2> QED
    BY <2>1, <2>2, LeaveEffect
<1>2. \A id \in ScanIds : ~InMap(id)'
  BY <1>1 DEF InMap, NoScan
<1>3. \A id \in ScanIds : /\ ~Alive(id)'
                          /\ worker'[id].pc = "idle" <=> worker[id].pc = "idle"
                          /\ worker[id].pc = "done" => worker'[id].pc = "done"
                          /\ worker'[id].out = worker[id].out
  <2>1. ASSUME NEW id \in ScanIds
        PROVE  worker'[id] = IF Alive(id) THEN [worker[id] EXCEPT !.pc = "done"] ELSE worker[id]
    BY DEF Dies, PoolDies
  <2>2. \A w \in Worker : [w EXCEPT !.pc = "done"].pc = "done" /\ [w EXCEPT !.pc = "done"].out = w.out
    BY DEF Worker
  <2>3. \A id \in ScanIds : worker[id] \in Worker
    BY DEF NmapTypeOK
  <2> QED
    BY <2>1, <2>2, <2>3 DEF Alive
<1>4. \A s \in Senders : mq'[s] = <<>>
  BY DEF Dies
<1>5. /\ Clients \subseteq Senders /\ ScanIds \subseteq Senders
      /\ \A s \in Services : Root(s) \in Senders
  BY SendersDistinct
<1>6. /\ cq' = cq /\ hosted' = {}
      /\ \A s \in Services : /\ rootTask'[s] = "idle" /\ setupTask'[s] = "idle"
                             /\ ~rootAcqisitionFinished'[s] /\ ~pending_RQST_SCAN_ID'[s]
  BY DEF Dies, PoolDies, ProcessEnds, AllFalse
<1>7. DownIsEmpty' /\ AbsentIsIdle'
  BY <1>2, <1>3, <1>4, <1>5, <1>6 DEF DownIsEmpty, AbsentIsIdle, MapIds, Dies
<1>8. RootNotifiedOnce'
  <2>1. \A s \in Services : mq'[Root(s)] = <<>> /\ Len(mq'[Root(s)]) = 0
    BY <1>4, <1>5
  <2> QED
    BY <1>6, <2>1 DEF RootNotifiedOnce
<1>9. GrantedWhenSetUp'
  BY <1>2, <1>6 DEF GrantedWhenSetUp
<1>10. UnaskedIsUnused'
  BY <1>1, <1>2, <1>3 DEF UnaskedIsUnused, IInv, MapIds
<1>11. RequestsNumbered'
  BY <1>4, <1>5, RangeOfEmpty DEF RequestsNumbered
<1>12. GrantsHold'
  BY <1>1, <1>2, <1>4, <1>5, <1>6, RangeOfEmpty DEF GrantsHold, GrantHolds, IInv
<1>13. WorkersFollowScans'
  <2>1. \A id \in ScanIds : ~scans'[id].finished
    BY <1>1 DEF NoScan
  <2> QED
    BY <2>1, <1>2, <1>3, <1>4, <1>5 DEF WorkersFollowScans
<1>14. NoForgottenRequest' /\ NoEarlyStart' /\ EveryRunIsKnown'
  BY <1>2, <1>3 DEF NoForgottenRequest, NoEarlyStart, EveryRunIsKnown
<1>15. CompleteResults'
  BY <1>1, <1>3 DEF CompleteResults, IInv
<1> QED
  BY <1>7, <1>8, <1>9, <1>10, <1>11, <1>12, <1>13, <1>14, <1>15 DEF IInv

\* The invariant only depends on the service's fields, the Runnables and the
\* messages; a step that changes none of them, and ends no process, keeps it.
LEMMA SameStep ==
  ASSUME IInv, TypeOK', UNCHANGED <<serviceVars, worker, owner, rootTask, setupTask, mq, cq,
                                    hosted, incarnation>>,
         svc' = "down" => svc = "down"
  PROVE  IInv'
<1> USE DEF serviceVars
<1>1. DownIsEmpty' /\ AbsentIsIdle'
  BY DEF IInv, DownIsEmpty, AbsentIsIdle, MapIds, InMap, NoScan, Alive
<1>2. RootNotifiedOnce'
  BY DEF IInv, RootNotifiedOnce
<1>3. GrantedWhenSetUp'
  BY DEF IInv, GrantedWhenSetUp, InMap, NoScan, SetUp
<1>4. UnaskedIsUnused'
  BY DEF IInv, UnaskedIsUnused, InMap, NoScan
<1>5. RequestsNumbered'
  BY DEF IInv, RequestsNumbered, Range
<1>6. GrantsHold'
  <2>1. \A id : GrantHolds(id) => GrantHolds(id)'
    BY DEF GrantHolds, InMap, NoScan
  <2>2. \A c \in Clients : mq'[c] = mq[c] /\ cq'[c] = cq[c]
    OBVIOUS
  <2> QED
    BY <2>1, <2>2 DEF GrantsHold, IInv
<1>7. WorkersFollowScans'
  <2>1. \A id \in ScanIds : /\ InMap(id)' <=> InMap(id)
                            /\ Alive(id)' <=> Alive(id)
                            /\ mq'[id] = mq[id]
    BY DEF InMap, NoScan, Alive
  <2>2. UNCHANGED <<scans, hist, worker>>
    OBVIOUS
  <2> QED
    BY <2>1, <2>2 DEF WorkersFollowScans, IInv
<1>8. NoForgottenRequest'
  BY DEF IInv, NoForgottenRequest, InMap, NoScan, SetUp
<1>9. NoEarlyStart'
  BY DEF IInv, NoEarlyStart, Alive, SetUp
<1>10. EveryRunIsKnown'
  BY DEF IInv, EveryRunIsKnown, Alive, InMap, NoScan
<1>11. CompleteResults'
  BY DEF IInv, CompleteResults
<1> QED
  BY <1>1, <1>2, <1>3, <1>4, <1>5, <1>6, <1>7, <1>8, <1>9, <1>10, <1>11 DEF IInv

\* A new service object preserves the invariant, in a new process or beside former
\* ones: nothing of it was there, so its root access is not known and no scan is its.
LEMMA OnCreateStep ==
  ASSUME IInv, TypeOK', OnCreate
  PROVE  IInv'
<1> TypeOK /\ NmapTypeOK /\ ScanTypeOK
  BY DEF IInv, TypeOK
<1>1. PICK new \in Services : /\ new = incarnation + 1
                              /\ incarnation' = new /\ hosted' = hosted \cup {new}
  BY DEF OnCreate, ServiceCreated, TypeOK, AndroidTypeOK, Services
<1>2. /\ svc' = "up" /\ rootTask' = [rootTask EXCEPT ![new] = "running"]
      /\ nativeInstalled' = [nativeInstalled EXCEPT ![new] = nativePref]
      /\ \A s \in Services : s # new => setupTask'[s] = setupTask[s]
      /\ UNCHANGED <<scans, rootAccess, rootAcqisitionFinished, pending_RQST_SCAN_ID,
                     hist, worker, owner, mq, cq>>
  BY <1>1 DEF OnCreate, ServiceCreated, commVars, NmapTypeOK
<1>3. new \notin hosted /\ hosted \subseteq 1..incarnation /\ incarnation \in Nat
  BY <1>1 DEF AbsentIsIdle, IInv, TypeOK, AndroidTypeOK
<1>4. ~rootAcqisitionFinished[new] /\ mq[Root(new)] = <<>>
  BY <1>3 DEF AbsentIsIdle, IInv
<1>5. \A s \in Services : /\ s # new => nativeInstalled'[s] = nativeInstalled[s]
                          /\ s # new => rootTask'[s] = rootTask[s]
                          /\ SetUp(s)' <=> SetUp(s)
  <2>1. \A s \in Services : s # new => /\ nativeInstalled'[s] = nativeInstalled[s]
                                       /\ rootTask'[s] = rootTask[s]
    BY <1>2 DEF NmapTypeOK, ScanTypeOK
  <2> QED
    BY <1>2, <1>4, <2>1 DEF SetUp
<1>6. \A id \in ScanIds : /\ InMap(id)' <=> InMap(id)
                          /\ Alive(id)' <=> Alive(id)
                          /\ owner[id] \in Services /\ owner'[id] = owner[id]
                          /\ SetUp(owner[id])' <=> SetUp(owner[id])
  <2>1. \A id \in ScanIds : owner[id] \in Services /\ owner'[id] = owner[id]
    BY <1>2 DEF NmapTypeOK
  <2>2. \A id \in ScanIds : SetUp(owner[id])' <=> SetUp(owner[id])
    BY <1>5, <2>1 DEF SetUp
  <2> QED
    BY <1>2, <2>1, <2>2 DEF InMap, NoScan, Alive
<1>7. DownIsEmpty' /\ AbsentIsIdle'
  <2>1. hosted' \subseteq 1..new
    BY <1>1, <1>3
  <2>2. \A s \in Services \ hosted' : s \in Services \ hosted /\ s # new
    BY <1>1
  <2>3. \A s \in Services \ hosted' : /\ ~rootAcqisitionFinished'[s]
                                      /\ rootTask'[s] = "idle" /\ setupTask'[s] = "idle"
                                      /\ mq'[Root(s)] = <<>>
    BY <1>2, <1>5, <2>2 DEF AbsentIsIdle, IInv
  <2>4. DownIsEmpty'
    BY <1>2 DEF DownIsEmpty
  <2> QED
    BY <1>1, <2>1, <2>3, <2>4 DEF AbsentIsIdle
<1>8. RootNotifiedOnce'
  BY <1>2, <1>4, <1>5 DEF RootNotifiedOnce, IInv
<1>9. GrantedWhenSetUp'
  BY <1>2, <1>5, <1>6 DEF GrantedWhenSetUp, IInv
<1>10. UnaskedIsUnused'
  BY <1>2, <1>6 DEF UnaskedIsUnused, IInv
<1>11. RequestsNumbered'
  BY <1>2 DEF RequestsNumbered, IInv, Range
<1>12. GrantsHold'
  BY <1>2, <1>6 DEF GrantsHold, GrantHolds, IInv, Range
<1>13. WorkersFollowScans'
  BY <1>2, <1>6 DEF WorkersFollowScans, IInv
<1>14. NoForgottenRequest' /\ NoEarlyStart'
  BY <1>2, <1>6 DEF NoForgottenRequest, NoEarlyStart, IInv
<1>15. EveryRunIsKnown' /\ CompleteResults'
  BY <1>2, <1>6 DEF EveryRunIsKnown, CompleteResults, IInv
<1> QED
  BY <1>7, <1>8, <1>9, <1>10, <1>11, <1>12, <1>13, <1>14, <1>15 DEF IInv

\* onDestroy preserves the invariant, in both outcomes of its loop.
LEMMA OnDestroyStep ==
  ASSUME IInv, TypeOK', OnDestroy
  PROVE  IInv'
<1>1. CASE Dies("onDestroy")
  BY <1>1, DiesStep
<1>2. CASE ~Dies("onDestroy")
  <2> TypeOK /\ ScanTypeOK /\ NmapTypeOK
    BY DEF IInv, TypeOK
  <2> DEFINE ids == MapOf(incarnation)
  <2>1. /\ svc' = "destroyed" /\ Cancel(ids) /\ Leave(ids, "cleared")
        /\ UNCHANGED <<rootAccess, rootAcqisitionFinished, nativeInstalled, hosted, incarnation,
                       pending_RQST_SCAN_ID, owner, rootTask, setupTask, mq, cq>>
    BY <1>2 DEF OnDestroy, commVars
  <2>a. \A id \in ids : InMap(id)
    BY DEF MapOf, MapIds
  <2> HIDE DEF ids
  <2>2. \A id \in ScanIds : /\ id \in ids => scans'[id] = NoScan
                            /\ id \notin ids => scans'[id] = scans[id]
                            /\ hist'[id].asked = hist[id].asked
                            /\ hist'[id].told = hist[id].told
                            /\ hist'[id].delivered = hist[id].delivered
                            /\ id \in ids => hist'[id].left = "cleared"
                            /\ id \notin ids => hist'[id].left = hist[id].left
    BY <2>1, LeaveEffect
  <2>3. \A id \in ScanIds : /\ id \in ids => ~InMap(id)' /\ ~scans'[id].finished
                            /\ InMap(id)' <=> id \notin ids /\ InMap(id)
    <3>1. ~NoScan.finished
      BY DEF NoScan
    <3>2. \A id \in ScanIds : InMap(id)' <=> id \notin ids /\ InMap(id)
      BY <2>2 DEF InMap, NoScan
    <3> QED
      BY <2>2, <3>1, <3>2
  <2>4. \A id \in ScanIds : /\ worker'[id].pc = "idle" <=> worker[id].pc = "idle"
                            /\ worker[id].pc = "done" => worker'[id].pc = "done"
                            /\ Alive(id)' => Alive(id)
                            /\ Alive(id)' /\ id \in ids => worker'[id].interrupted
                            /\ id \notin ids => worker'[id] = worker[id]
                            /\ worker'[id].root = worker[id].root
                            /\ worker'[id].out = worker[id].out
    BY <2>1, CancelEffect
  <2>5. DownIsEmpty' /\ AbsentIsIdle' /\ RootNotifiedOnce'
    BY <2>1 DEF DownIsEmpty, AbsentIsIdle, RootNotifiedOnce, IInv
  <2>6. GrantedWhenSetUp'
    BY <2>1, <2>2, <2>3 DEF GrantedWhenSetUp, SetUp, IInv
  <2>7. UnaskedIsUnused'
    BY <2>2, <2>3, <2>4, <2>a DEF UnaskedIsUnused, IInv
  <2>8. RequestsNumbered'
    BY <2>1 DEF RequestsNumbered, IInv, Range
  <2>9. GrantsHold'
    BY <2>1, <2>2, <2>3 DEF GrantsHold, GrantHolds, IInv, Range
  <2>10. WorkersFollowScans'
    BY <2>1, <2>2, <2>3, <2>4 DEF WorkersFollowScans, IInv, Range
  <2>11. NoForgottenRequest'
    BY <2>1, <2>2, <2>3 DEF NoForgottenRequest, SetUp, IInv
  <2>12. NoEarlyStart'
    BY <2>1, <2>4 DEF NoEarlyStart, SetUp, IInv
  <2>13. EveryRunIsKnown'
    BY <2>2, <2>3, <2>4 DEF EveryRunIsKnown, IInv
  <2>14. CompleteResults'
    BY <2>2, <2>4, <2>a DEF CompleteResults, WorkersFollowScans, IInv
  <2> QED
    BY <2>5, <2>6, <2>7, <2>8, <2>9, <2>10, <2>11, <2>12, <2>13, <2>14 DEF IInv
<1> QED
  BY <1>1, <1>2

\* The life-cycle callbacks preserve the invariant.
LEMMA LifeCycleStep ==
  ASSUME IInv, TypeOK', LifeCycle
  PROVE  IInv'
<1>1. CASE OnBind \/ OnUnbind
  BY <1>1, SameStep DEF OnBind, OnUnbind, BindDue, UnbindDue, workerVars, commVars
<1>2. CASE ProcessLost
  BY <1>2, DiesStep DEF ProcessLost
<1> QED
  BY <1>1, <1>2, OnCreateStep, OnDestroyStep DEF LifeCycle

\* What a step of an activity does to the service: it posts at most one request,
\* numbered if it asks for an id, with a granted id if it starts a scan, and may
\* kill an nmap; its own queue only shrinks.
LEMMA ActivityEffect ==
  ASSUME TypeOK, NEW c \in Clients, Activity(c)
  PROVE  /\ svc' = svc
         /\ UNCHANGED <<serviceVars, owner, rootTask, setupTask, hosted, incarnation>>
         /\ \A id \in ScanIds : /\ worker'[id].pc = worker[id].pc
                                /\ worker'[id].interrupted = worker[id].interrupted
                                /\ worker'[id].root = worker[id].root
                                /\ worker'[id].out = worker[id].out
         /\ \A s \in Senders : s # c => mq'[s] = mq[s]
         /\ hosted = {} => mq' = mq
         /\ \A m \in Range(mq'[c]) :
              \/ m \in Range(mq[c])
              \/ m.what = "RQST_SCAN_ID" /\ m.arg # 0
              \/ m.what = "RQST_START_SCAN" /\
                   \E r \in Range(cq[c]) : r.what = "RESP_SCAN_ID_OK" /\ r.id = m.id
              \/ m.what \notin {"RQST_SCAN_ID", "RQST_START_SCAN"}
         /\ \A d \in Clients : Range(cq'[d]) \subseteq Range(cq[d])
<1> CommTypeOK /\ NmapTypeOK /\ ClientTypeOK
  BY DEF TypeOK
<1>1. /\ svc' = svc
      /\ UNCHANGED <<serviceVars, owner, rootTask, setupTask, hosted, incarnation>>
  BY DEF Activity, OnActivityCreate, OnActivityDestroy, ActivityDies, OnServiceConnected,
     OnServiceDisconnected, StartScan, StopScan, GetScanResults, Calls, RespScanIdOk,
     RespStartScanOk, RespStopScanOk, NotifiedScanFinished, ShownToUser, Takes, ServiceFrame, workerVars
<1>2. ASSUME NEW id \in ScanIds
      PROVE  /\ worker'[id].pc = worker[id].pc
             /\ worker'[id].interrupted = worker[id].interrupted
             /\ worker'[id].root = worker[id].root
             /\ worker'[id].out = worker[id].out
  <2>1. worker' = worker \/ KillProcess
    BY DEF Activity, OnActivityCreate, OnActivityDestroy, ActivityDies, OnServiceConnected,
       OnServiceDisconnected, StartScan, StopScan, GetScanResults, Calls, RespScanIdOk,
       RespStartScanOk, RespStopScanOk, NotifiedScanFinished, ShownToUser, workerVars
  <2>2. CASE KillProcess /\ worker' # worker
    <3>1. PICK k \in ScanIds : worker' = [worker EXCEPT ![k] = [worker[k] EXCEPT !.killed = TRUE]]
      BY <2>2 DEF KillProcess
    <3>2. ASSUME NEW w \in Worker
          PROVE  /\ [w EXCEPT !.killed = TRUE].pc = w.pc
                 /\ [w EXCEPT !.killed = TRUE].interrupted = w.interrupted
                 /\ [w EXCEPT !.killed = TRUE].root = w.root
                 /\ [w EXCEPT !.killed = TRUE].out = w.out
      BY DEF Worker
    <3>3. worker[k] \in Worker /\ worker'[id] = IF id = k THEN [worker[k] EXCEPT !.killed = TRUE] ELSE worker[id]
      BY <3>1 DEF NmapTypeOK
    <3> QED
      BY <3>2, <3>3
  <2> QED
    BY <2>1, <2>2
<1>3. /\ \A s \in Senders : s # c => mq'[s] = mq[s]
      /\ hosted = {} => mq' = mq
      /\ \A m \in Range(mq'[c]) :
              \/ m \in Range(mq[c])
              \/ m.what = "RQST_SCAN_ID" /\ m.arg # 0
              \/ m.what = "RQST_START_SCAN" /\
                   \E r \in Range(cq[c]) : r.what = "RESP_SCAN_ID_OK" /\ r.id = m.id
              \/ m.what \notin {"RQST_SCAN_ID", "RQST_START_SCAN"}
  <2>1. CASE mq' = mq
    BY <2>1
  <2>2. CASE StartScan(c)
    <3>1. Request(c, "RQST_SCAN_ID", NoId, starts[c] + 1) /\ starts[c] + 1 # 0
      BY <2>2, BoundsAssumption DEF StartScan, ClientTypeOK
    <3>2. /\ MsgTo(binder[c], "RQST_SCAN_ID", NoId, starts[c] + 1).what = "RQST_SCAN_ID"
          /\ MsgTo(binder[c], "RQST_SCAN_ID", NoId, starts[c] + 1).arg = starts[c] + 1
      BY DEF MsgTo
    <3> QED
      BY <3>1, <3>2, RequestEffect
  <2>3. CASE \E what \in {"RQST_STOP_SCAN", "RQST_RESULTS"} : Request(c, what, scan[c].id, 0)
    <3>1. PICK what \in {"RQST_STOP_SCAN", "RQST_RESULTS"} : Request(c, what, scan[c].id, 0)
      BY <2>3
    <3>2. MsgTo(binder[c], what, scan[c].id, 0).what = what
      BY DEF MsgTo
    <3> QED
      BY <3>1, <3>2, RequestEffect
  <2>4. CASE RespScanIdOk(c) /\ Request(c, "RQST_START_SCAN", Reply(c).id, scan[c].args)
    <3>1. Reply(c) \in Range(cq[c]) /\ Reply(c).what = "RESP_SCAN_ID_OK"
      <4>1. cq[c] \in Seq(ToActivity) /\ cq[c] # <<>> /\ Reply(c).what = "RESP_SCAN_ID_OK"
        BY <2>4 DEF RespScanIdOk, Takes, CommTypeOK
      <4> QED
        BY <4>1, RangeOfTail DEF Reply
    <3>2. /\ MsgTo(binder[c], "RQST_START_SCAN", Reply(c).id, scan[c].args).what = "RQST_START_SCAN"
          /\ MsgTo(binder[c], "RQST_START_SCAN", Reply(c).id, scan[c].args).id = Reply(c).id
      BY DEF MsgTo
    <3> QED
      BY <2>4, <3>1, <3>2, RequestEffect
  <2> QED
    BY <2>1, <2>2, <2>3, <2>4 DEF Activity, OnActivityCreate, OnActivityDestroy, ActivityDies,
       OnServiceConnected, OnServiceDisconnected, StopScan, GetScanResults, RespScanIdOk,
       RespStartScanOk, RespStopScanOk, NotifiedScanFinished, ShownToUser, commVars
<1>4. ASSUME NEW d \in Clients PROVE Range(cq'[d]) \subseteq Range(cq[d])
  <2>1. CASE cq' = cq
    BY <2>1
  <2>2. CASE cq[c] # <<>> /\ cq' = [cq EXCEPT ![c] = Tail(@)]
    <3>1. cq'[d] = (IF d = c THEN Tail(cq[c]) ELSE cq[d]) /\ cq[c] \in Seq(ToActivity)
      BY <2>2 DEF CommTypeOK
    <3>2. Range(Tail(cq[c])) \subseteq Range(cq[c])
      BY <2>2, <3>1, RangeOfTail
    <3> QED
      BY <3>1, <3>2
  <2>3. CASE cq' = [cq EXCEPT ![c] = <<>>]
    <3>1. cq'[d] = IF d = c THEN <<>> ELSE cq[d]
      BY <2>3 DEF CommTypeOK
    <3> QED
      BY <3>1, RangeOfEmpty
  <2> QED
    BY <2>1, <2>2, <2>3 DEF Activity, OnActivityCreate, OnActivityDestroy, ActivityDies,
       OnServiceConnected, OnServiceDisconnected, StartScan, StopScan, GetScanResults, Calls,
       RespScanIdOk, RespStartScanOk, RespStopScanOk, NotifiedScanFinished, ShownToUser, Takes, commVars
<1> QED
  BY <1>1, <1>2, <1>3, <1>4

\* The steps of an activity preserve the invariant.
LEMMA ActivityStep ==
  ASSUME IInv, TypeOK', NEW c \in Clients, Activity(c)
  PROVE  IInv'
<1>1. /\ svc' = svc
      /\ UNCHANGED <<serviceVars, owner, rootTask, setupTask, hosted, incarnation>>
      /\ \A id \in ScanIds : /\ worker'[id].pc = worker[id].pc
                             /\ worker'[id].interrupted = worker[id].interrupted
                             /\ worker'[id].root = worker[id].root
                             /\ worker'[id].out = worker[id].out
      /\ \A s \in Senders : s # c => mq'[s] = mq[s]
      /\ hosted = {} => mq' = mq
  BY ActivityEffect DEF IInv
<1>2. /\ \A m \in Range(mq'[c]) :
           \/ m \in Range(mq[c])
           \/ m.what = "RQST_SCAN_ID" /\ m.arg # 0
           \/ m.what = "RQST_START_SCAN" /\
                \E r \in Range(cq[c]) : r.what = "RESP_SCAN_ID_OK" /\ r.id = m.id
           \/ m.what \notin {"RQST_SCAN_ID", "RQST_START_SCAN"}
      /\ \A d \in Clients : Range(cq'[d]) \subseteq Range(cq[d])
  BY ActivityEffect DEF IInv
<1>3. \A id \in ScanIds : /\ InMap(id)' <=> InMap(id)
                          /\ Alive(id)' <=> Alive(id)
                          /\ scans'[id] = scans[id] /\ hist'[id] = hist[id]
  BY <1>1 DEF InMap, NoScan, Alive, serviceVars
<1>4. MapIds' = MapIds
  BY <1>3 DEF MapIds
<1>5. /\ c \in Senders /\ c \notin ScanIds
      /\ ScanIds \subseteq Senders /\ Clients \subseteq Senders
      /\ \A s \in Services : Root(s) \in Senders /\ Root(s) # c
  BY SendersDistinct
<1>6. /\ \A id \in ScanIds : mq'[id] = mq[id]
      /\ \A s \in Services : mq'[Root(s)] = mq[Root(s)]
  BY <1>1, <1>5
<1>7. DownIsEmpty' /\ AbsentIsIdle'
  BY <1>1, <1>3, <1>4, <1>6 DEF DownIsEmpty, AbsentIsIdle, IInv, serviceVars
<1>8. RootNotifiedOnce'
  BY <1>1, <1>6 DEF RootNotifiedOnce, IInv, serviceVars
<1>9. GrantedWhenSetUp'
  BY <1>1, <1>3 DEF GrantedWhenSetUp, SetUp, IInv, serviceVars
<1>10. UnaskedIsUnused'
  BY <1>1, <1>3 DEF UnaskedIsUnused, IInv
<1>11. RequestsNumbered'
  <2>1. ASSUME NEW d \in Clients, NEW m \in Range(mq'[d]), m.what = "RQST_SCAN_ID"
        PROVE  m.arg # 0
    <3>1. CASE d = c
      BY <1>2, <2>1, <3>1 DEF RequestsNumbered, IInv
    <3>2. CASE d # c
      <4>1. mq'[d] = mq[d]
        BY <1>1, <1>5, <3>2
      <4> QED
        BY <2>1, <4>1 DEF RequestsNumbered, IInv
    <3> QED
      BY <3>1, <3>2
  <2> QED
    BY <2>1 DEF RequestsNumbered
<1>12. GrantsHold'
  <2>1. \A id : GrantHolds(id) => GrantHolds(id)'
    BY <1>3 DEF GrantHolds
  <2>2. ASSUME NEW d \in Clients, NEW m \in Range(mq'[d]), m.what = "RQST_START_SCAN"
        PROVE  GrantHolds(m.id)
    <3>1. CASE d = c
      BY <1>2, <2>2, <3>1 DEF GrantsHold, IInv
    <3>2. CASE d # c
      <4>1. mq'[d] = mq[d]
        BY <1>1, <1>5, <3>2
      <4> QED
        BY <2>2, <4>1 DEF GrantsHold, IInv
    <3> QED
      BY <3>1, <3>2
  <2>3. ASSUME NEW d \in Clients, NEW m \in Range(cq'[d]), m.what = "RESP_SCAN_ID_OK"
        PROVE  GrantHolds(m.id)
    BY <1>2, <2>3 DEF GrantsHold, IInv
  <2> QED
    BY <2>1, <2>2, <2>3 DEF GrantsHold
<1>13. WorkersFollowScans'
  BY <1>1, <1>3, <1>6 DEF WorkersFollowScans, IInv
<1>14. NoForgottenRequest' /\ NoEarlyStart' /\ EveryRunIsKnown' /\ CompleteResults'
  BY <1>1, <1>3 DEF NoForgottenRequest, NoEarlyStart, SetUp, EveryRunIsKnown, CompleteResults, IInv, serviceVars
<1> QED
  BY <1>7, <1>8, <1>9, <1>10, <1>11, <1>12, <1>13, <1>14 DEF IInv

\* What a step of a Runnable does: it moves on, and announces the end of its scan
\* only as its last act.
LEMMA RunNmapEffect ==
  ASSUME TypeOK, NEW id \in ScanIds, RunNmap(id)
  PROVE  /\ Alive(id)
         /\ worker'[id].pc \in {"reading", "done"}
         /\ worker'[id].interrupted = worker[id].interrupted
         /\ worker'[id].root = worker[id].root
         /\ \A k \in ScanIds : k # id => worker'[k] = worker[k]
         /\ \A s \in Senders : s # id => mq'[s] = mq[s]
         /\ \/ Range(mq'[id]) = Range(mq[id])
            \/ Range(mq'[id]) = Range(mq[id]) \cup {MsgTo(owner[id], "NOTIFY_SCAN_PROBLEM", id, 0)}
            \/ worker'[id].pc = "done"
<1> CommTypeOK /\ NmapTypeOK
  BY DEF TypeOK
<1> DEFINE w == worker[id]
<1>1. w \in Worker
  BY DEF NmapTypeOK
<1>2. ASSUME NEW x \in Worker
      PROVE  /\ \A p \in {"reading", "done"} : /\ [x EXCEPT !.pc = p].pc = p
                                               /\ [x EXCEPT !.pc = p].interrupted = x.interrupted
                                               /\ [x EXCEPT !.pc = p].root = x.root
             /\ [x EXCEPT !.pc = "reading", !.killed = TRUE].pc = "reading"
             /\ [x EXCEPT !.pc = "reading", !.killed = TRUE].interrupted = x.interrupted
             /\ [x EXCEPT !.pc = "reading", !.killed = TRUE].root = x.root
             /\ \A n : /\ [x EXCEPT !.out = n].pc = x.pc
                       /\ [x EXCEPT !.out = n].interrupted = x.interrupted
                       /\ [x EXCEPT !.out = n].root = x.root
  BY DEF Worker
<1>3. w.pc \in {"queued", "reading"}
  BY DEF RunNmap, RunWithoutArguments, ExecFails, ExecScan, WriteFails, ReadChunk, ReadEnd, ReadFails
<1>4. \/ \E p \in {"reading", "done"} : worker' = [worker EXCEPT ![id] = [w EXCEPT !.pc = p]]
      \/ worker' = [worker EXCEPT ![id] = [w EXCEPT !.pc = "reading", !.killed = TRUE]]
      \/ w.pc = "reading" /\ worker' = [worker EXCEPT ![id] = [w EXCEPT !.out = w.out + 1]]
  BY DEF RunNmap, RunWithoutArguments, ExecFails, ExecScan, WriteFails, ReadChunk, ReadEnd,
         ReadFails, RunTo
<1> HIDE DEF w
<1>5. /\ worker'[id].pc \in {"reading", "done"}
      /\ worker'[id].interrupted = w.interrupted
      /\ worker'[id].root = w.root
      /\ \A k \in ScanIds : k # id => worker'[k] = worker[k]
  <2>1. worker \in [ScanIds -> Worker]
    BY DEF NmapTypeOK
  <2>2. ASSUME NEW x, worker' = [worker EXCEPT ![id] = x]
        PROVE  worker'[id] = x /\ \A k \in ScanIds : k # id => worker'[k] = worker[k]
    BY <2>1, <2>2
  <2>3. CASE \E p \in {"reading", "done"} : worker' = [worker EXCEPT ![id] = [w EXCEPT !.pc = p]]
    <3>1. PICK p \in {"reading", "done"} : worker' = [worker EXCEPT ![id] = [w EXCEPT !.pc = p]]
      BY <2>3
    <3>2. /\ [w EXCEPT !.pc = p].pc = p
          /\ [w EXCEPT !.pc = p].interrupted = w.interrupted
          /\ [w EXCEPT !.pc = p].root = w.root
      BY <1>1, <1>2
    <3>3. worker'[id] = [w EXCEPT !.pc = p] /\ \A k \in ScanIds : k # id => worker'[k] = worker[k]
      BY <3>1, <2>2
    <3> QED
      BY <3>2, <3>3
  <2>4. CASE worker' = [worker EXCEPT ![id] = [w EXCEPT !.pc = "reading", !.killed = TRUE]]
    <3>1. /\ worker'[id] = [w EXCEPT !.pc = "reading", !.killed = TRUE]
          /\ \A k \in ScanIds : k # id => worker'[k] = worker[k]
      BY <2>4, <2>2
    <3> QED
      BY <1>1, <1>2, <3>1
  <2>5. CASE w.pc = "reading" /\ worker' = [worker EXCEPT ![id] = [w EXCEPT !.out = w.out + 1]]
    <3> DEFINE n == w.out + 1
    <3>1. /\ worker'[id] = [w EXCEPT !.out = n]
          /\ \A k \in ScanIds : k # id => worker'[k] = worker[k]
      BY <2>5, <2>2
    <3> HIDE DEF n
    <3>2. /\ [w EXCEPT !.out = n].pc = w.pc
          /\ [w EXCEPT !.out = n].interrupted = w.interrupted
          /\ [w EXCEPT !.out = n].root = w.root
      BY <1>1, <1>2
    <3> QED
      BY <2>5, <3>1, <3>2
  <2> QED
    BY <1>4, <2>3, <2>4, <2>5
<1>6. /\ \A s \in Senders : s # id => mq'[s] = mq[s]
      /\ \/ Range(mq'[id]) = Range(mq[id])
         \/ Range(mq'[id]) = Range(mq[id]) \cup {MsgTo(owner[id], "NOTIFY_SCAN_PROBLEM", id, 0)}
         \/ worker'[id].pc = "done"
  <2>1. id \in Senders
    BY DEF Senders
  <2>2. CASE mq' = mq
    BY <2>2
  <2>3. CASE Post(id, owner[id], "NOTIFY_SCAN_PROBLEM", id, 0)
    BY <2>1, <2>3, PostEffect
  <2>4. CASE ReadEnd(id)
    <3>1. worker'[id].pc = "done"
      <4>1. worker' = [worker EXCEPT ![id] = [worker[id] EXCEPT !.pc = "done"]]
        BY <2>4 DEF ReadEnd, RunTo
      <4> QED
        BY <4>1, <1>1 DEF NmapTypeOK, Worker, w
    <3>2. Post(id, owner[id], "NOTIFY_SCAN_FINISHED", id, 0)
      BY <2>4 DEF ReadEnd, TellService
    <3> QED
      BY <2>1, <3>1, <3>2, PostEffect
  <2> QED
    BY <2>2, <2>3, <2>4 DEF RunNmap, RunWithoutArguments, ExecFails, ExecScan, WriteFails, ReadChunk,
       ReadFails, ReportUnlessInterrupted, TellService
<1> QED
  BY <1>3, <1>5, <1>6 DEF Alive, w

\* A step of NmapScanServiceRunnable preserves the invariant.
LEMMA RunNmapStep ==
  ASSUME IInv, TypeOK', NEW id \in ScanIds, RunNmap(id),
         UNCHANGED <<androidVars, serviceVars, clientVars>>
  PROVE  IInv'
<1>1. /\ svc' = svc
      /\ UNCHANGED <<serviceVars, owner, rootTask, setupTask, cq, hosted, incarnation>>
  BY DEF RunNmap, androidVars
<1>2. /\ Alive(id)
      /\ worker'[id].pc \in {"reading", "done"}
      /\ worker'[id].interrupted = worker[id].interrupted
      /\ worker'[id].root = worker[id].root
      /\ \A k \in ScanIds : k # id => worker'[k] = worker[k]
      /\ \A s \in Senders : s # id => mq'[s] = mq[s]
  BY RunNmapEffect DEF IInv
<1>3. \A m \in Range(mq'[id]) : \/ m \in Range(mq[id])
                                \/ m.what = "NOTIFY_SCAN_PROBLEM"
                                \/ worker'[id].pc = "done"
  <2>1. MsgTo(owner[id], "NOTIFY_SCAN_PROBLEM", id, 0).what = "NOTIFY_SCAN_PROBLEM"
    BY DEF MsgTo
  <2> QED
    BY <2>1, RunNmapEffect DEF IInv
<1>4. \A k \in ScanIds : /\ InMap(k)' <=> InMap(k)
                         /\ Alive(k)' => Alive(k)
                         /\ worker'[k].pc = "idle" <=> worker[k].pc = "idle"
                         /\ worker'[k].interrupted = worker[k].interrupted
                         /\ worker'[k].root = worker[k].root
                         /\ worker[k].pc = "done" => worker'[k] = worker[k]
                         /\ scans'[k] = scans[k] /\ hist'[k] = hist[k]
  BY <1>1, <1>2 DEF InMap, NoScan, Alive, serviceVars
<1>6. /\ id \in Senders /\ id \notin Clients
      /\ ScanIds \subseteq Senders /\ Clients \subseteq Senders
      /\ \A s \in Services : Root(s) \in Senders /\ Root(s) # id
  BY SendersDistinct
<1>7. /\ \A c \in Clients : mq'[c] = mq[c]
      /\ \A s \in Services : mq'[Root(s)] = mq[Root(s)]
  BY <1>2, <1>6
<1>8. DownIsEmpty' /\ AbsentIsIdle'
  BY <1>1, <1>2, <1>7 DEF DownIsEmpty, AbsentIsIdle, IInv, serviceVars
<1>9. RootNotifiedOnce'
  BY <1>1, <1>7 DEF RootNotifiedOnce, IInv, serviceVars
<1>10. GrantedWhenSetUp'
  BY <1>1, <1>4 DEF GrantedWhenSetUp, SetUp, IInv, serviceVars
<1>11. UnaskedIsUnused'
  BY <1>4 DEF UnaskedIsUnused, IInv
<1>12. RequestsNumbered'
  BY <1>7 DEF RequestsNumbered, IInv
<1>13. GrantsHold'
  <2>1. \A k : GrantHolds(k) => GrantHolds(k)'
    BY <1>4 DEF GrantHolds
  <2>2. \A c \in Clients : mq'[c] = mq[c] /\ cq'[c] = cq[c]
    BY <1>1, <1>7
  <2> QED
    BY <2>1, <2>2 DEF GrantsHold, IInv
<1>14. WorkersFollowScans'
  <2>1. ASSUME NEW k \in ScanIds
        PROVE  /\ InMap(k)' /\ ~scans'[k].started => worker'[k].pc = "idle"
               /\ hist'[k].left # "no" => ~InMap(k)'
               /\ scans'[k].finished => worker'[k].pc = "done"
    BY <1>4 DEF WorkersFollowScans, IInv
  <2>2. ASSUME NEW k \in ScanIds, worker'[k].pc = "idle" PROVE mq'[k] = <<>>
    BY <1>2, <1>4, <1>6, <2>2 DEF WorkersFollowScans, IInv
  <2>3. ASSUME NEW k \in ScanIds, Alive(k)', NEW m \in Range(mq'[k])
        PROVE  m.what # "NOTIFY_SCAN_FINISHED"
    <3>1. CASE k = id
      BY <1>2, <1>3, <2>3, <3>1 DEF WorkersFollowScans, IInv, Alive
    <3>2. CASE k # id
      <4>1. mq'[k] = mq[k]
        BY <1>2, <1>6, <3>2
      <4> QED
        BY <1>4, <2>3, <4>1 DEF WorkersFollowScans, IInv
    <3> QED
      BY <3>1, <3>2
  <2> QED
    BY <2>1, <2>2, <2>3 DEF WorkersFollowScans
<1>15. NoForgottenRequest' /\ NoEarlyStart' /\ EveryRunIsKnown' /\ CompleteResults'
  BY <1>1, <1>4 DEF NoForgottenRequest, NoEarlyStart, SetUp, EveryRunIsKnown, CompleteResults, IInv, serviceVars
<1> QED
  BY <1>8, <1>9, <1>10, <1>11, <1>12, <1>13, <1>14, <1>15 DEF IInv

\* The setup Runnables preserve the invariant: each posts its outcome once, in a
\* queue of its own.
LEMMA SetupStep ==
  ASSUME IInv, TypeOK', NEW s \in Services, AcquireRoot(s) \/ SetupNative(s),
         UNCHANGED <<androidVars, serviceVars, clientVars>>
  PROVE  IInv'
<1> CommTypeOK
  BY DEF IInv, TypeOK
<1> NmapTypeOK
  BY DEF IInv, TypeOK
<1>1. /\ svc' = svc /\ s \in hosted
      /\ UNCHANGED <<serviceVars, worker, owner, cq, hosted, incarnation>>
  BY DEF AcquireRoot, SetupNative, androidVars, IInv, AbsentIsIdle
<1>a. svc # "down"
  BY <1>1 DEF IInv, DownIsEmpty
<1>2. /\ Root(s) \in Senders /\ Setup(s) \in Senders
      /\ Root(s) \notin Clients \cup ScanIds /\ Setup(s) \notin Clients \cup ScanIds
      /\ ScanIds \subseteq Senders /\ Clients \subseteq Senders
      /\ \A t \in Services : Root(t) \in Senders /\ Root(t) # Setup(s) /\ (t # s => Root(t) # Root(s))
  BY SendersDistinct
<1>3. /\ \A x \in Clients \cup ScanIds : mq'[x] = mq[x]
      /\ \A t \in Services : /\ t # s => mq'[Root(t)] = mq[Root(t)]
                             /\ SetupNative(s) => mq'[Root(t)] = mq[Root(t)]
                             /\ t # s => rootTask'[t] = rootTask[t] /\ setupTask'[t] = setupTask[t]
  <2>1. CASE AcquireRoot(s)
    <3>1. PICK root \in 0..1 : Post(Root(s), s, "NOTIFY_ROOT_ACCESS", NoId, root)
      BY <2>1 DEF AcquireRoot
    <3>2. \A x \in Senders : x # Root(s) => mq'[x] = mq[x]
      BY <3>1, <1>2, PostEffect
    <3>3. ~SetupNative(s)
      BY <2>1 DEF AcquireRoot, SetupNative, NmapTypeOK
    <3>4. \A t \in Services : t # s => rootTask'[t] = rootTask[t] /\ setupTask'[t] = setupTask[t]
      BY <2>1 DEF AcquireRoot, NmapTypeOK
    <3> QED
      BY <1>2, <3>2, <3>3, <3>4
  <2>2. CASE SetupNative(s)
    <3>1. PICK status \in {NATIVE_SETUP_FAIL, NATIVE_SETUP_SUCCESS} :
            Post(Setup(s), s, "NOTIFY_NATIVE_SETUP", NoId, status)
      BY <2>2 DEF SetupNative
    <3>2. \A x \in Senders : x # Setup(s) => mq'[x] = mq[x]
      BY <3>1, <1>2, PostEffect
    <3>3. \A t \in Services : t # s => rootTask'[t] = rootTask[t] /\ setupTask'[t] = setupTask[t]
      BY <2>2 DEF SetupNative, NmapTypeOK
    <3> QED
      BY <1>2, <3>2, <3>3
  <2> QED
    BY <2>1, <2>2
<1>4. \A k \in ScanIds : InMap(k)' <=> InMap(k)
  BY <1>1 DEF InMap, NoScan, serviceVars
<1>5. \A k \in ScanIds : Alive(k)' <=> Alive(k)
  BY <1>1 DEF Alive
<1>7. RootNotifiedOnce'
  <2>1. CASE AcquireRoot(s)
    <3>1. PICK root \in 0..1 : Post(Root(s), s, "NOTIFY_ROOT_ACCESS", NoId, root)
      BY <2>1 DEF AcquireRoot
    <3>2. mq[Root(s)] = <<>> /\ ~rootAcqisitionFinished[s]
      BY <2>1 DEF AcquireRoot, RootNotifiedOnce, IInv
    <3>3. mq'[Root(s)] = Append(<<>>, MsgTo(s, "NOTIFY_ROOT_ACCESS", NoId, root))
      BY <3>1, <3>2, <1>2, PostEffect
    <3>4. Len(mq'[Root(s)]) = 1
      BY <3>3
    <3>5. rootTask'[s] = "done"
      BY <2>1 DEF AcquireRoot, NmapTypeOK
    <3>6. ASSUME NEW t \in Services
          PROVE  /\ rootAcqisitionFinished'[t] => rootTask'[t] # "running" /\ mq'[Root(t)] = <<>>
                 /\ rootTask'[t] = "running" => mq'[Root(t)] = <<>>
                 /\ Len(mq'[Root(t)]) <= 1
      <4>1. CASE t = s
        BY <4>1, <3>2, <3>4, <3>5, <1>1 DEF serviceVars
      <4>2. CASE t # s
        BY <4>2, <1>1, <1>3 DEF RootNotifiedOnce, IInv, serviceVars
      <4> QED
        BY <4>1, <4>2
    <3> QED
      BY <3>6 DEF RootNotifiedOnce
  <2>2. CASE SetupNative(s)
    BY <2>2, <1>1, <1>3 DEF SetupNative, RootNotifiedOnce, IInv, serviceVars
  <2> QED
    BY <2>1, <2>2
<1>8. DownIsEmpty' /\ AbsentIsIdle'
  BY <1>1, <1>a, <1>3 DEF DownIsEmpty, AbsentIsIdle, IInv, serviceVars
<1>9. GrantedWhenSetUp' /\ UnaskedIsUnused'
  BY <1>1, <1>4 DEF GrantedWhenSetUp, SetUp, UnaskedIsUnused, IInv, serviceVars
<1>10. RequestsNumbered'
  BY <1>3 DEF RequestsNumbered, IInv
<1>11. GrantsHold'
  <2>1. \A k : GrantHolds(k) => GrantHolds(k)'
    BY <1>1, <1>4 DEF GrantHolds, serviceVars
  <2>2. \A c \in Clients : mq'[c] = mq[c] /\ cq'[c] = cq[c]
    BY <1>1, <1>3
  <2> QED
    BY <2>1, <2>2 DEF GrantsHold, IInv
<1>12. WorkersFollowScans'
  BY <1>1, <1>3, <1>4, <1>5 DEF WorkersFollowScans, IInv, serviceVars
<1>13. NoForgottenRequest' /\ NoEarlyStart' /\ EveryRunIsKnown' /\ CompleteResults'
  BY <1>1, <1>4, <1>5 DEF NoForgottenRequest, NoEarlyStart, SetUp, EveryRunIsKnown, CompleteResults, IInv, serviceVars
<1> QED
  BY <1>7, <1>8, <1>9, <1>10, <1>11, <1>12, <1>13 DEF IInv

\* The Runnables of the pool preserve the invariant.
LEMMA PoolStep ==
  ASSUME IInv, TypeOK', Pool
  PROVE  IInv'
BY RunNmapStep, SetupStep DEF Pool

\* What a handler has at hand: a running process, its message, and the other
\* queues as they were.
LEMMA HandlesEffect ==
  ASSUME TypeOK, NEW s \in Senders, NEW what, Handles(s, what)
  PROVE  /\ svc # "down" /\ mq[s] # <<>>
         /\ Head(mq[s]) \in ToService /\ Head(mq[s]).what = what /\ Head(mq[s]).to \in Services
         /\ Head(mq[s]) \in Range(mq[s])
         /\ mq'[s] = Tail(mq[s])
         /\ \A r \in Senders : Range(mq'[r]) \subseteq Range(mq[r])
         /\ \A r \in Senders : r # s => mq'[r] = mq[r]
<1>1. CommTypeOK /\ mq[s] # <<>> /\ Consume(s)
  BY DEF TypeOK, Handles, IsNext
<1>2. svc # "down" /\ Head(mq[s]).what = what
  BY DEF Handles, IsNext, ProcessRuns
<1>3. \A m \in ToService : m.to \in Services
  BY DEF ToService
<1> QED
  BY <1>1, <1>2, <1>3, ConsumeEffect, HeadType

\* A handler that neither gives out nor grants an id nor starts a Runnable preserves
\* the invariant, if what left the map had ended or was interrupted.
LEMMA QuietStep ==
  ASSUME IInv, TypeOK', svc # "down", svc' = svc,
         UNCHANGED <<hosted, incarnation, owner, rootTask, setupTask, rootAccess,
                     rootAcqisitionFinished, nativeInstalled, pending_RQST_SCAN_ID>>,
         \A k \in ScanIds :
           /\ hist'[k].asked = hist[k].asked
           /\ hist'[k].told = hist[k].told
           /\ hist'[k].left # hist[k].left => InMap(k) /\ ~InMap(k)'
           /\ InMap(k)' => InMap(k) /\ scans'[k].started = scans[k].started
           /\ scans'[k].finished => scans[k].finished \/ worker[k].pc = "done"
           /\ worker'[k].pc = "idle" <=> worker[k].pc = "idle"
           /\ worker[k].pc = "done" => worker'[k].pc = "done"
           /\ Alive(k)' => Alive(k)
           /\ worker'[k].root = worker[k].root,
         \A r \in Senders : Range(mq'[r]) \subseteq Range(mq[r]),
         \A s \in Services : mq'[Root(s)] = mq[Root(s)],
         \A k \in ScanIds : mq[k] = <<>> => mq'[k] = <<>>,
         \A d \in Clients : \A m \in Range(cq'[d]) :
           m \in Range(cq[d]) \/ m.what # "RESP_SCAN_ID_OK",
         EveryRunIsKnown', CompleteResults'
  PROVE  IInv'
<1>1. DownIsEmpty' /\ AbsentIsIdle' /\ RootNotifiedOnce'
  BY DEF DownIsEmpty, AbsentIsIdle, RootNotifiedOnce, IInv
<1>2. GrantedWhenSetUp'
  BY DEF GrantedWhenSetUp, SetUp, IInv
<1>3. UnaskedIsUnused'
  BY DEF UnaskedIsUnused, IInv
<1>4. Clients \subseteq Senders /\ ScanIds \subseteq Senders
  BY DEF Senders
<1>5. RequestsNumbered'
  BY <1>4 DEF RequestsNumbered, IInv
<1>6. GrantsHold'
  <2>1. \A id : GrantHolds(id) => GrantHolds(id)'
    BY DEF GrantHolds
  <2> QED
    BY <1>4, <2>1 DEF GrantsHold, IInv
<1>7. WorkersFollowScans'
  BY <1>4 DEF WorkersFollowScans, IInv
<1>8. NoForgottenRequest' /\ NoEarlyStart'
  BY DEF NoForgottenRequest, NoEarlyStart, SetUp, IInv
<1> QED
  BY <1>1, <1>2, <1>3, <1>5, <1>6, <1>7, <1>8 DEF IInv

\* A handler that only answers scans preserves the invariant, if it grants them no
\* earlier than the setup is over and leaves none without an answer after it.
LEMMA AnswerStep ==
  ASSUME IInv, TypeOK', svc # "down", svc' = svc,
         UNCHANGED <<hosted, incarnation, owner, scans, worker, rootTask, setupTask>>,
         \A s \in Services :
           /\ pending_RQST_SCAN_ID'[s] => ~SetUp(s)'
           /\ \A k \in MapOf(s) :
                /\ hist'[k].told = "ok" => SetUp(s)'
                /\ hist'[k].told = "no" => pending_RQST_SCAN_ID'[s] /\ ~SetUp(s)',
         \A k \in ScanIds :
           /\ hist'[k].asked = hist[k].asked
           /\ hist'[k].left = hist[k].left
           /\ hist'[k].delivered = hist[k].delivered
           /\ InMap(k) /\ hist[k].told = "ok" => hist'[k].told = "ok"
           /\ ~InMap(k) => hist'[k].told = hist[k].told,
         \A r \in Senders : Range(mq'[r]) \subseteq Range(mq[r]),
         \A k \in ScanIds : mq[k] = <<>> => mq'[k] = <<>>,
         \A d \in Clients : \A m \in Range(cq'[d]) :
           \/ m \in Range(cq[d])
           \/ m.what # "RESP_SCAN_ID_OK"
           \/ m.id \in MapIds /\ hist'[m.id].told = "ok",
         AbsentIsIdle', RootNotifiedOnce', NoEarlyStart'
  PROVE  IInv'
<1>1. \A k \in ScanIds : /\ InMap(k)' <=> InMap(k)
                         /\ Alive(k)' <=> Alive(k)
  BY DEF InMap, NoScan, Alive
<1>2. DownIsEmpty'
  BY DEF DownIsEmpty
<1>a. \A k \in ScanIds : InMap(k) => owner[k] \in Services /\ k \in MapOf(owner[k])
  BY DEF IInv, TypeOK, NmapTypeOK, MapOf, MapIds
<1>3. GrantedWhenSetUp'
  BY <1>1, <1>a DEF GrantedWhenSetUp, SetUp
<1>4. UnaskedIsUnused'
  BY <1>1 DEF UnaskedIsUnused, IInv
<1>5. Clients \subseteq Senders /\ ScanIds \subseteq Senders
  BY DEF Senders
<1>6. RequestsNumbered'
  BY <1>5 DEF RequestsNumbered, IInv
<1>7. GrantsHold'
  <2>1. \A id : GrantHolds(id) => GrantHolds(id)'
    BY <1>1 DEF GrantHolds
  <2>2. \A id : id \in MapIds /\ hist'[id].told = "ok" => GrantHolds(id)'
    BY <1>1 DEF GrantHolds, MapIds, UnaskedIsUnused, IInv
  <2> QED
    BY <1>5, <2>1, <2>2 DEF GrantsHold, IInv
<1>8. WorkersFollowScans'
  BY <1>1, <1>5 DEF WorkersFollowScans, IInv
<1>9. NoForgottenRequest'
  BY <1>1, <1>a DEF NoForgottenRequest, SetUp
<1>10. EveryRunIsKnown' /\ CompleteResults'
  BY <1>1 DEF EveryRunIsKnown, CompleteResults, IInv
<1> QED
  BY <1>2, <1>3, <1>4, <1>6, <1>7, <1>8, <1>9, <1>10 DEF IInv

\* RQST_SCAN_ID preserves the invariant: the id is fresh, and it is granted at once
\* or the request is remembered.
LEMMA RqstScanIdStep ==
  ASSUME IInv, TypeOK', NEW c \in Clients, RqstScanId(c)
  PROVE  IInv'
<1> TypeOK /\ CommTypeOK /\ ScanTypeOK
  BY DEF IInv, TypeOK
<1> NmapTypeOK
  BY DEF IInv, TypeOK
<1>2. /\ c \in Senders /\ Clients \subseteq Senders /\ ScanIds \subseteq Senders /\ c \notin ScanIds
      /\ \A t \in Services : Root(t) \in Senders /\ Root(t) # c
  BY SendersDistinct
<1>3. Handles(c, "RQST_SCAN_ID")
  BY DEF RqstScanId
<1>s. PICK s \in Services : s = Addressed(c)
  BY <1>2, <1>3, HandlesEffect DEF Addressed
<1>1. PICK id \in ScanIds :
        /\ hist[id].asked = 0
        /\ scans' = [scans EXCEPT ![id] = Scan(c)]
        /\ owner' = [owner EXCEPT ![id] = s]
        /\ hist' = [hist EXCEPT ![id].asked = Head(mq[c]).arg,
                               ![id].told = IF SetUp(s) THEN "ok" ELSE "no"]
        /\ IF SetUp(s) THEN /\ TellActivity(c, "RESP_SCAN_ID_OK", id, 0)
                            /\ UNCHANGED pending_RQST_SCAN_ID
           ELSE /\ pending_RQST_SCAN_ID' = [pending_RQST_SCAN_ID EXCEPT ![s] = TRUE]
                /\ UNCHANGED cq
  BY <1>s DEF RqstScanId
<1>4. /\ svc # "down" /\ svc' = svc
      /\ UNCHANGED <<hosted, incarnation, rootTask, setupTask, rootAccess,
                     rootAcqisitionFinished, nativeInstalled, worker>>
  BY <1>2, <1>3, HandlesEffect DEF RqstScanId, HandlerFrame
<1>5. /\ Head(mq[c]).arg # 0
      /\ \A r \in Senders : Range(mq'[r]) \subseteq Range(mq[r])
      /\ \A r \in Senders : r # c => mq'[r] = mq[r]
  BY <1>2, <1>3, HandlesEffect DEF RequestsNumbered, IInv
<1>r. \A t \in Services : mq'[Root(t)] = mq[Root(t)]
  BY <1>2, <1>5
<1>6. /\ InMap(id)' /\ ~scans'[id].started /\ ~scans'[id].finished
      /\ \A k \in ScanIds : k # id => scans'[k] = scans[k] /\ (InMap(k)' <=> InMap(k))
  <2>1. scans'[id] = Scan(c) /\ \A k \in ScanIds : k # id => scans'[k] = scans[k]
    BY <1>1 DEF ScanTypeOK
  <2>2. Scan(c).client = c /\ ~Scan(c).started /\ ~Scan(c).finished
    BY DEF Scan
  <2>3. NoScan.client = NoId /\ c # NoId
    BY NoIdAssumption DEF NoScan
  <2>4. Scan(c) # NoScan
    BY <2>2, <2>3
  <2>5. InMap(id)'
    BY <2>1, <2>4 DEF InMap, NoScan
  <2> QED
    BY <2>1, <2>2, <2>5 DEF InMap, NoScan
<1>7. /\ hist'[id].asked # 0
      /\ hist'[id].told = IF SetUp(s) THEN "ok" ELSE "no"
      /\ hist'[id].left = hist[id].left
      /\ hist'[id].delivered = hist[id].delivered
      /\ \A k \in ScanIds : k # id => hist'[k] = hist[k]
  <2>1. ASSUME NEW h \in History, NEW a, NEW t
        PROVE  /\ [h EXCEPT !.asked = a, !.told = t].asked = a
               /\ [h EXCEPT !.asked = a, !.told = t].told = t
               /\ [h EXCEPT !.asked = a, !.told = t].left = h.left
               /\ [h EXCEPT !.asked = a, !.told = t].delivered = h.delivered
    BY DEF History
  <2> DEFINE a == Head(mq[c]).arg
  <2> DEFINE t == IF SetUp(s) THEN "ok" ELSE "no"
  <2>2. hist'[id] = [hist[id] EXCEPT !.asked = a, !.told = t]
    BY <1>1 DEF ScanTypeOK
  <2>3. \A k \in ScanIds : k # id => hist'[k] = hist[k]
    BY <1>1 DEF ScanTypeOK
  <2>4. hist[id] \in History /\ a # 0
    BY <1>5 DEF ScanTypeOK
  <2> HIDE DEF a, t
  <2>5. hist'[id].asked = a /\ hist'[id].told = t /\ hist'[id].left = hist[id].left
        /\ hist'[id].delivered = hist[id].delivered
    BY <2>1, <2>2, <2>4
  <2> QED
    BY <2>3, <2>4, <2>5 DEF t
<1>8. \A d \in Clients : \A m \in Range(cq'[d]) :
        m \in Range(cq[d]) \/ (SetUp(s) /\ m.what = "RESP_SCAN_ID_OK" /\ m.id = id)
  <2>1. CASE SetUp(s)
    BY <1>1, <2>1, TellActivityEffect
  <2>2. CASE ~SetUp(s)
    <3>1. cq' = cq
      BY <1>1, <2>2
    <3> QED
      BY <3>1
  <2> QED
    BY <2>1, <2>2
<1>9. /\ \A t \in Services : SetUp(t)' <=> SetUp(t)
      /\ \A k \in ScanIds : Alive(k)' <=> Alive(k)
      /\ owner'[id] = s /\ \A k \in ScanIds : k # id => owner'[k] = owner[k]
      /\ \A k \in ScanIds : owner[k] \in Services
  BY <1>1, <1>4 DEF SetUp, Alive, NmapTypeOK
<1>10. hist[id].left = "no" /\ worker[id].pc = "idle" /\ ~InMap(id)
  BY <1>1 DEF UnaskedIsUnused, IInv
<1>a. /\ SetUp(s) => pending_RQST_SCAN_ID' = pending_RQST_SCAN_ID
      /\ ~SetUp(s) => pending_RQST_SCAN_ID'[s]
      /\ \A t \in Services : t # s => pending_RQST_SCAN_ID'[t] = pending_RQST_SCAN_ID[t]
  BY <1>1 DEF ScanTypeOK
<1>b. hist'[id].told = "ok" => SetUp(s)
  BY <1>7
<1>11. DownIsEmpty' /\ AbsentIsIdle' /\ RootNotifiedOnce'
  BY <1>4, <1>r DEF DownIsEmpty, AbsentIsIdle, RootNotifiedOnce, IInv
<1>12. GrantedWhenSetUp'
  <2>1. \A t \in Services : pending_RQST_SCAN_ID'[t] => ~SetUp(t)'
    BY <1>a, <1>9 DEF GrantedWhenSetUp, IInv
  <2>2. ASSUME NEW k \in ScanIds, InMap(k)', hist'[k].told = "ok", NEW t \in Services, t = owner'[k]
        PROVE  SetUp(t)
    <3>1. CASE k = id
      BY <1>b, <1>9, <2>2, <3>1
    <3>2. CASE k # id
      BY <1>6, <1>7, <1>9, <2>2, <3>2 DEF GrantedWhenSetUp, IInv
    <3> QED
      BY <3>1, <3>2
  <2>3. \A k \in ScanIds : owner'[k] \in Services
    BY <1>9
  <2>4. ASSUME NEW k \in ScanIds, InMap(k)', hist'[k].told = "ok" PROVE SetUp(owner[k])'
    <3>1. PICK t \in Services : t = owner'[k]
      BY <2>3
    <3>2. SetUp(t)'
      BY <1>9, <2>2, <2>4, <3>1
    <3> QED
      BY <3>1, <3>2 DEF SetUp
  <2> QED
    BY <2>1, <2>4 DEF GrantedWhenSetUp
<1>13. UnaskedIsUnused'
  BY <1>4, <1>6, <1>7 DEF UnaskedIsUnused, IInv
<1>14. RequestsNumbered'
  BY <1>2, <1>5 DEF RequestsNumbered, IInv
<1>15. GrantsHold'
  <2>1. \A k : GrantHolds(k) => GrantHolds(k)'
    BY <1>1, <1>6, <1>7 DEF GrantHolds
  <2>2. SetUp(s) => GrantHolds(id)'
    BY <1>7 DEF GrantHolds
  <2> QED
    BY <1>2, <1>5, <1>8, <2>1, <2>2 DEF GrantsHold, IInv
<1>16. WorkersFollowScans'
  <2>1. \A k \in ScanIds : mq'[k] = mq[k]
    BY <1>2, <1>5
  <2> QED
    BY <1>4, <1>6, <1>7, <1>9, <1>10, <2>1 DEF WorkersFollowScans, IInv
<1>17. NoForgottenRequest'
  <2>1. ASSUME NEW k \in ScanIds, InMap(k)', hist'[k].told = "no", NEW t \in Services, t = owner'[k]
        PROVE  pending_RQST_SCAN_ID'[t] /\ ~SetUp(t)'
    <3>1. CASE k = id
      BY <1>a, <1>7, <1>9, <2>1, <3>1
    <3>2. CASE k # id
      <4>1. InMap(k) /\ hist[k].told = "no" /\ owner[k] = t
        BY <1>6, <1>7, <1>9, <2>1, <3>2
      <4>2. pending_RQST_SCAN_ID[t] /\ ~SetUp(t)
        BY <4>1 DEF NoForgottenRequest, IInv
      <4> QED
        BY <1>a, <1>9, <4>2
    <3> QED
      BY <3>1, <3>2
  <2>2. \A k \in ScanIds : owner'[k] \in Services
    BY <1>9
  <2>3. ASSUME NEW k \in ScanIds, InMap(k)', hist'[k].told = "no"
        PROVE  pending_RQST_SCAN_ID'[owner'[k]] /\ ~SetUp(owner[k])'
    <3>1. PICK t \in Services : t = owner'[k]
      BY <2>2
    <3>2. pending_RQST_SCAN_ID'[t] /\ ~SetUp(t)'
      BY <2>1, <2>3, <3>1
    <3> QED
      BY <3>1, <3>2 DEF SetUp
  <2> QED
    BY <2>3 DEF NoForgottenRequest
<1>18. NoEarlyStart'
  <2>1. ~Alive(id)'
    BY <1>4, <1>10 DEF Alive
  <2>2. \A k \in ScanIds : Alive(k)' => k # id /\ Alive(k) /\ owner'[k] = owner[k]
    BY <1>9, <2>1
  <2> QED
    BY <1>4, <2>2 DEF NoEarlyStart, SetUp, IInv
<1>19. EveryRunIsKnown'
  BY <1>4, <1>6, <1>9, <1>10 DEF EveryRunIsKnown, IInv, Alive
<1>20. CompleteResults'
  BY <1>4, <1>7, <1>10 DEF CompleteResults, IInv
<1> QED
  BY <1>11, <1>12, <1>13, <1>14, <1>15, <1>16, <1>17, <1>18, <1>19, <1>20 DEF IInv

\* Setting the activity of a Scan object, if there is one, changes nothing else.
LEMMA ClientChanges ==
  ASSUME ScanTypeOK, NEW c \in Clients, NEW s, NEW id,
         scans' = IF Known(s, id) THEN [scans EXCEPT ![id].client = c] ELSE scans
  PROVE  \A k \in ScanIds : /\ InMap(k)' <=> InMap(k)
                            /\ scans'[k].started = scans[k].started
                            /\ scans'[k].finished = scans[k].finished
<1>1. CASE Known(s, id)
  <2> DEFINE Object == [client : Clients, started : BOOLEAN, finished : BOOLEAN]
  <2>1. scans[id] \in Object /\ id \in ScanIds
    BY <1>1 DEF Known, MapOf, MapIds, InMap, ScanTypeOK
  <2>2. ASSUME NEW x \in Object
        PROVE  /\ [x EXCEPT !.client = c].client = c
               /\ [x EXCEPT !.client = c].started = x.started
               /\ [x EXCEPT !.client = c].finished = x.finished
    OBVIOUS
  <2>3. /\ scans'[id] = [scans[id] EXCEPT !.client = c]
        /\ \A k \in ScanIds : k # id => scans'[k] = scans[k]
    BY <1>1, <2>1 DEF ScanTypeOK
  <2>4. NoScan.client = NoId /\ c # NoId
    BY NoIdAssumption DEF NoScan
  <2>5. scans'[id].client = c /\ scans'[id].started = scans[id].started
        /\ scans'[id].finished = scans[id].finished
    BY <2>1, <2>2, <2>3
  <2>6. InMap(id)'
    <3>1. scans'[id] # NoScan
      BY <2>4, <2>5
    <3> QED
      BY <3>1 DEF InMap, NoScan
  <2>7. InMap(id)
    BY <1>1 DEF Known, MapOf, MapIds
  <2> QED
    BY <2>3, <2>5, <2>6, <2>7 DEF InMap, NoScan
<1>2. CASE ~Known(s, id)
  BY <1>2 DEF InMap, NoScan
<1> QED
  BY <1>1, <1>2

\* A handler that reports an error to an activity preserves the invariant.
LEMMA ClientStep ==
  ASSUME IInv, TypeOK', svc # "down", svc' = svc, NEW c \in Clients, NEW s, NEW id, NEW what,
         NEW to \in Clients,
         UNCHANGED <<hosted, incarnation, owner, rootTask, setupTask, rootAccess,
                     rootAcqisitionFinished, nativeInstalled, pending_RQST_SCAN_ID, hist, worker>>,
         \/ scans' = IF Known(s, id) THEN [scans EXCEPT ![id].client = c] ELSE scans
         \/ scans' = scans,
         TellActivity(to, what, id, 0), what # "RESP_SCAN_ID_OK",
         \A r \in Senders : Range(mq'[r]) \subseteq Range(mq[r]),
         \A t \in Services : mq'[Root(t)] = mq[Root(t)],
         \A k \in ScanIds : mq[k] = <<>> => mq'[k] = <<>>
  PROVE  IInv'
<1> TypeOK /\ CommTypeOK /\ ScanTypeOK
  BY DEF IInv, TypeOK
<1>1. \A k \in ScanIds : /\ InMap(k)' <=> InMap(k)
                         /\ scans'[k].started = scans[k].started
                         /\ scans'[k].finished = scans[k].finished
  <2>1. CASE scans' = scans
    BY <2>1 DEF InMap, NoScan
  <2> QED
    BY <2>1, ClientChanges
<1>2. \A k \in ScanIds : Alive(k)' <=> Alive(k)
  BY DEF Alive
<1>3. \A d \in Clients : \A m \in Range(cq'[d]) :
        m \in Range(cq[d]) \/ m.what # "RESP_SCAN_ID_OK"
  BY TellActivityEffect
<1>4. EveryRunIsKnown' /\ CompleteResults'
  BY <1>1, <1>2 DEF EveryRunIsKnown, CompleteResults, IInv
<1> QED
  BY <1>1, <1>2, <1>3, <1>4, QuietStep

\* RQST_START_SCAN preserves the invariant: its id was granted, so the setup is over
\* and no Runnable was started under it.
LEMMA RqstStartScanStep ==
  ASSUME IInv, TypeOK', NEW c \in Clients, RqstStartScan(c)
  PROVE  IInv'
<1>0. PICK id : id = Head(mq[c]).id
  OBVIOUS
<1>s. PICK s : s = Addressed(c)
  OBVIOUS
<1> TypeOK /\ CommTypeOK /\ ScanTypeOK /\ NmapTypeOK
  BY DEF IInv, TypeOK
<1>1. /\ c \in Senders /\ Clients \subseteq Senders /\ ScanIds \subseteq Senders /\ c \notin ScanIds
      /\ \A t \in Services : Root(t) \in Senders /\ Root(t) # c
  BY SendersDistinct
<1>2. Handles(c, "RQST_START_SCAN")
  BY DEF RqstStartScan
<1>3. /\ svc # "down" /\ svc' = svc
      /\ UNCHANGED <<hosted, incarnation, owner, rootTask, setupTask, rootAccess,
                     rootAcqisitionFinished, nativeInstalled, pending_RQST_SCAN_ID, hist>>
  BY <1>1, <1>2, HandlesEffect DEF RqstStartScan, HandlerFrame, FieldsFrame
<1>4. /\ Head(mq[c]) \in Range(mq[c]) /\ Head(mq[c]).what = "RQST_START_SCAN"
      /\ \A r \in Senders : Range(mq'[r]) \subseteq Range(mq[r])
      /\ \A r \in Senders : r # c => mq'[r] = mq[r]
  BY <1>1, <1>2, HandlesEffect
<1>5. /\ \A t \in Services : mq'[Root(t)] = mq[Root(t)]
      /\ \A k \in ScanIds : mq'[k] = mq[k]
  BY <1>1, <1>4
<1>6. CASE Known(s, id) /\ ~scans[id].started
  <2>1. /\ Submit(id, Head(mq[c]).arg, rootAccess[s])
        /\ scans' = [scans EXCEPT ![id] = [Scan(c) EXCEPT !.started = TRUE]]
        /\ TellActivity(c, "RESP_START_SCAN_OK", id, 0)
    BY <1>0, <1>s, <1>6 DEF RqstStartScan
  <2>2. id \in ScanIds /\ InMap(id) /\ owner[id] = s
    BY <1>6 DEF Known, MapOf, MapIds
  <2>3. /\ worker'[id].pc = "queued" /\ ~worker'[id].interrupted
        /\ worker'[id].root = rootAccess[owner[id]]
        /\ \A k \in ScanIds : k # id => worker'[k] = worker[k]
    <3> DEFINE w == [pc |-> "queued", interrupted |-> FALSE, killed |-> FALSE,
                     args |-> Head(mq[c]).arg, root |-> rootAccess[s], out |-> 0]
    <3>1. w.pc = "queued" /\ ~w.interrupted /\ w.root = rootAccess[owner[id]]
      BY <2>2
    <3>2. worker' = [worker EXCEPT ![id] = w]
      BY <2>1 DEF Submit
    <3> HIDE DEF w
    <3>3. worker'[id] = w /\ \A k \in ScanIds : k # id => worker'[k] = worker[k]
      BY <2>2, <3>2 DEF NmapTypeOK
    <3> QED
      BY <3>1, <3>3
  <2>4. /\ InMap(id)' /\ scans'[id].started /\ ~scans'[id].finished
        /\ \A k \in ScanIds : k # id => scans'[k] = scans[k] /\ (InMap(k)' <=> InMap(k))
    <3> DEFINE x == [Scan(c) EXCEPT !.started = TRUE]
    <3>1. x.client = c /\ x.started /\ ~x.finished
      BY DEF Scan
    <3>2. NoScan.client = NoId /\ c # NoId
      BY NoIdAssumption DEF NoScan
    <3>3. scans' = [scans EXCEPT ![id] = x]
      BY <2>1
    <3> HIDE DEF x
    <3>4. scans'[id] = x /\ \A k \in ScanIds : k # id => scans'[k] = scans[k]
      BY <2>2, <3>3 DEF ScanTypeOK
    <3>5. scans'[id] # NoScan
      BY <3>1, <3>2, <3>4
    <3>6. InMap(id)'
      BY <3>5 DEF InMap, NoScan
    <3> QED
      BY <3>1, <3>4, <3>6 DEF InMap, NoScan
  <2>5. hist[id].asked # 0 /\ hist[id].told = "ok" /\ SetUp(owner[id]) /\ hist[id].left = "no"
    <3>1. GrantHolds(id)
      BY <1>0, <1>4 DEF GrantsHold, IInv
    <3> QED
      BY <2>2, <3>1 DEF GrantHolds, GrantedWhenSetUp, WorkersFollowScans, IInv
  <2>6. worker[id].pc = "idle" /\ mq'[id] = <<>>
    BY <1>5, <1>6, <2>2 DEF WorkersFollowScans, IInv
  <2>8. \A d \in Clients : \A m \in Range(cq'[d]) :
          m \in Range(cq[d]) \/ m.what # "RESP_SCAN_ID_OK"
    BY <2>1, TellActivityEffect
  <2>9. \A k \in ScanIds : k # id => (Alive(k)' <=> Alive(k))
    BY <2>3 DEF Alive
  <2>10. DownIsEmpty' /\ AbsentIsIdle' /\ RootNotifiedOnce'
    BY <1>3, <1>5 DEF DownIsEmpty, AbsentIsIdle, RootNotifiedOnce, IInv
  <2>11. GrantedWhenSetUp'
    BY <1>3, <2>4, <2>5 DEF GrantedWhenSetUp, SetUp, IInv
  <2>12. UnaskedIsUnused'
    BY <1>3, <2>3, <2>4, <2>5 DEF UnaskedIsUnused, IInv
  <2>13. RequestsNumbered'
    BY <1>1, <1>4 DEF RequestsNumbered, IInv
  <2>14. GrantsHold'
    <3>1. \A k : GrantHolds(k) => GrantHolds(k)'
      BY <1>3, <2>2, <2>4 DEF GrantHolds
    <3> QED
      BY <1>1, <1>4, <2>8, <3>1 DEF GrantsHold, IInv
  <2>15. WorkersFollowScans'
    <3>1. ASSUME NEW k \in ScanIds
          PROVE  /\ InMap(k)' /\ ~scans'[k].started => worker'[k].pc = "idle"
                 /\ hist'[k].left # "no" => ~InMap(k)'
                 /\ scans'[k].finished => worker'[k].pc = "done"
                 /\ worker'[k].pc = "idle" => mq'[k] = <<>>
                 /\ Alive(k)' => \A m \in Range(mq'[k]) : m.what # "NOTIFY_SCAN_FINISHED"
      <4>1. CASE k = id
        BY <1>3, <2>3, <2>4, <2>5, <2>6, <4>1, RangeOfEmpty
      <4>2. CASE k # id
        BY <1>3, <1>5, <2>3, <2>4, <2>9, <4>2 DEF WorkersFollowScans, IInv
      <4> QED
        BY <4>1, <4>2
    <3> QED
      BY <3>1 DEF WorkersFollowScans
  <2>16. NoForgottenRequest'
    BY <1>3, <2>2, <2>4, <2>5 DEF NoForgottenRequest, SetUp, IInv
  <2>17. NoEarlyStart'
    BY <1>3, <2>3, <2>5, <2>9 DEF NoEarlyStart, SetUp, IInv
  <2>18. EveryRunIsKnown'
    <3>1. ASSUME NEW k \in ScanIds, Alive(k)', ~worker'[k].interrupted
          PROVE  InMap(k)' /\ scans'[k].started /\ ~scans'[k].finished
      <4>1. CASE k = id
        BY <2>4, <4>1
      <4>2. CASE k # id
        BY <2>3, <2>4, <2>9, <3>1, <4>2 DEF EveryRunIsKnown, IInv
      <4> QED
        BY <4>1, <4>2
    <3> QED
      BY <3>1 DEF EveryRunIsKnown
  <2>19. CompleteResults'
    BY <1>3, <2>3, <2>5 DEF CompleteResults, IInv
  <2> QED
    BY <2>10, <2>11, <2>12, <2>13, <2>14, <2>15, <2>16, <2>17, <2>18, <2>19 DEF IInv
<1>7. CASE ~(Known(s, id) /\ ~scans[id].started)
  BY <1>0, <1>s, <1>3, <1>4, <1>5, <1>7, ClientStep DEF RqstStartScan
<1> QED
  BY <1>6, <1>7

\* RQST_STOP_SCAN preserves the invariant: the Runnable it loses is interrupted.
LEMMA RqstStopScanStep ==
  ASSUME IInv, TypeOK', NEW c \in Clients, RqstStopScan(c)
  PROVE  IInv'
<1>0. PICK id : id = Head(mq[c]).id
  OBVIOUS
<1>s. PICK s : s = Addressed(c)
  OBVIOUS
<1> TypeOK /\ CommTypeOK /\ ScanTypeOK /\ NmapTypeOK
  BY DEF IInv, TypeOK
<1>1. /\ c \in Senders /\ Clients \subseteq Senders /\ ScanIds \subseteq Senders /\ c \notin ScanIds
      /\ \A t \in Services : Root(t) \in Senders /\ Root(t) # c
  BY SendersDistinct
<1>2. Handles(c, "RQST_STOP_SCAN")
  BY DEF RqstStopScan
<1>3. /\ svc # "down" /\ svc' = svc
      /\ UNCHANGED <<hosted, incarnation, owner, rootTask, setupTask, rootAccess,
                     rootAcqisitionFinished, nativeInstalled, pending_RQST_SCAN_ID>>
  BY <1>1, <1>2, HandlesEffect DEF RqstStopScan, HandlerFrame, FieldsFrame
<1>4. /\ \A r \in Senders : Range(mq'[r]) \subseteq Range(mq[r])
      /\ \A t \in Services : mq'[Root(t)] = mq[Root(t)]
      /\ \A k \in ScanIds : mq[k] = <<>> => mq'[k] = <<>>
  BY <1>1, <1>2, HandlesEffect
<1>5. CASE Known(s, id) /\ scans[id].started
  <2>1. Cancel({id}) /\ Leave({id}, "stopped") /\ TellActivity(c, "RESP_STOP_SCAN_OK", id, 0)
    BY <1>0, <1>s, <1>5 DEF RqstStopScan
  <2>2. id \in ScanIds /\ InMap(id)
    BY <1>5 DEF Known, MapOf, MapIds
  <2>3. \A k \in ScanIds : /\ k = id => scans'[k] = NoScan
                           /\ k # id => scans'[k] = scans[k] /\ hist'[k].left = hist[k].left
                           /\ k = id => hist'[k].left = "stopped"
                           /\ hist'[k].asked = hist[k].asked
                           /\ hist'[k].told = hist[k].told
                           /\ hist'[k].delivered = hist[k].delivered
    BY <2>1, LeaveEffect
  <2>4. \A k \in ScanIds : /\ InMap(k)' <=> k # id /\ InMap(k)
                           /\ ~NoScan.finished
    BY <2>3 DEF InMap, NoScan
  <2>5. \A k \in ScanIds : /\ k # id => worker'[k] = worker[k]
                           /\ worker'[k].pc = "idle" <=> worker[k].pc = "idle"
                           /\ worker[k].pc = "done" => worker'[k].pc = "done"
                           /\ Alive(k)' => Alive(k)
                           /\ Alive(k)' /\ k = id => worker'[k].interrupted
                           /\ worker'[k].root = worker[k].root
                           /\ worker'[k].out = worker[k].out
    BY <2>1, CancelEffect
  <2>6. \A d \in Clients : \A m \in Range(cq'[d]) :
          m \in Range(cq[d]) \/ m.what # "RESP_SCAN_ID_OK"
    BY <2>1, TellActivityEffect
  <2>7. EveryRunIsKnown'
    BY <2>3, <2>4, <2>5 DEF EveryRunIsKnown, IInv
  <2>8. CompleteResults'
    BY <2>3, <2>5 DEF CompleteResults, IInv
  <2>9. \A k \in ScanIds :
          /\ hist'[k].left # hist[k].left => InMap(k) /\ ~InMap(k)'
          /\ InMap(k)' => InMap(k) /\ scans'[k].started = scans[k].started
          /\ scans'[k].finished => scans[k].finished \/ worker[k].pc = "done"
    BY <2>2, <2>3, <2>4
  <2> QED
    BY <1>3, <1>4, <2>3, <2>5, <2>6, <2>7, <2>8, <2>9, QuietStep
<1>6. CASE ~(Known(s, id) /\ scans[id].started)
  BY <1>0, <1>s, <1>3, <1>4, <1>6, ClientStep DEF RqstStopScan
<1> QED
  BY <1>5, <1>6

\* RQST_RESULTS preserves the invariant: a finished scan's Runnable is done, so the
\* output handed over is all of it.
LEMMA RqstResultsStep ==
  ASSUME IInv, TypeOK', NEW c \in Clients, RqstResults(c)
  PROVE  IInv'
<1>0. PICK id : id = Head(mq[c]).id
  OBVIOUS
<1>s. PICK s : s = Addressed(c)
  OBVIOUS
<1> TypeOK /\ CommTypeOK /\ ScanTypeOK /\ NmapTypeOK
  BY DEF IInv, TypeOK
<1>1. /\ c \in Senders /\ Clients \subseteq Senders /\ ScanIds \subseteq Senders /\ c \notin ScanIds
      /\ \A t \in Services : Root(t) \in Senders /\ Root(t) # c
  BY SendersDistinct
<1>2. Handles(c, "RQST_RESULTS")
  BY DEF RqstResults
<1>3. /\ svc # "down" /\ svc' = svc
      /\ UNCHANGED <<hosted, incarnation, owner, rootTask, setupTask, rootAccess,
                     rootAcqisitionFinished, nativeInstalled, pending_RQST_SCAN_ID, worker>>
  BY <1>1, <1>2, HandlesEffect DEF RqstResults, HandlerFrame, FieldsFrame
<1>4. /\ \A r \in Senders : Range(mq'[r]) \subseteq Range(mq[r])
      /\ \A t \in Services : mq'[Root(t)] = mq[Root(t)]
      /\ \A k \in ScanIds : mq[k] = <<>> => mq'[k] = <<>>
  BY <1>1, <1>2, HandlesEffect
<1>5. \A k \in ScanIds : Alive(k)' <=> Alive(k)
  BY <1>3 DEF Alive
<1>6. CASE Known(s, id) /\ scans[id].started
  <2> DEFINE n == worker[id].out
  <2>1. id \in ScanIds /\ InMap(id) /\ scans[id].client \in Clients
    BY <1>6, InMapClient DEF Known, MapOf, MapIds
  <2>2. TellActivity(scans[id].client, "RESP_RESULTS_OK", id, n)
    BY <1>0, <1>s, <1>6 DEF RqstResults
  <2>3. \A d \in Clients : \A m \in Range(cq'[d]) :
          m \in Range(cq[d]) \/ m.what # "RESP_SCAN_ID_OK"
    BY <2>1, <2>2, TellActivityEffect
  <2>4. hist[id].left = "no"
    BY <2>1 DEF WorkersFollowScans, IInv
  <2>5. ASSUME NEW h \in History, NEW k
        PROVE  /\ [h EXCEPT !.delivered = k].asked = h.asked
               /\ [h EXCEPT !.delivered = k].told = h.told
               /\ [h EXCEPT !.delivered = k].left = h.left
               /\ [h EXCEPT !.delivered = k].delivered = k
               /\ [h EXCEPT !.delivered = k, !.left = "collected"].asked = h.asked
               /\ [h EXCEPT !.delivered = k, !.left = "collected"].told = h.told
               /\ [h EXCEPT !.delivered = k, !.left = "collected"].left = "collected"
               /\ [h EXCEPT !.delivered = k, !.left = "collected"].delivered = k
    BY DEF History
  <2>6. hist[id] \in History
    BY <2>1 DEF ScanTypeOK
  <2>7. CASE scans[id].finished
    <3>1. /\ scans' = [scans EXCEPT ![id] = NoScan]
          /\ hist' = [hist EXCEPT ![id] = [hist[id] EXCEPT !.delivered = n, !.left = "collected"]]
      BY <1>0, <1>s, <1>6, <2>7 DEF RqstResults
    <3>2. /\ scans'[id] = NoScan
          /\ \A k \in ScanIds : k # id => scans'[k] = scans[k] /\ hist'[k] = hist[k]
          /\ hist'[id] = [hist[id] EXCEPT !.delivered = n, !.left = "collected"]
      BY <2>1, <3>1 DEF ScanTypeOK
    <3>3. /\ hist'[id].asked = hist[id].asked /\ hist'[id].told = hist[id].told
          /\ hist'[id].left = "collected" /\ hist'[id].delivered = n
      BY <2>5, <2>6, <3>2
    <3>4. \A k \in ScanIds : InMap(k)' <=> k # id /\ InMap(k)
      BY <3>2 DEF InMap, NoScan
    <3>5. ~NoScan.finished
      BY DEF NoScan
    <3>6. worker[id].pc = "done"
      BY <2>1, <2>7 DEF WorkersFollowScans, IInv
    <3>7. EveryRunIsKnown'
      <4>1. ~Alive(id)'
        BY <1>3, <3>6 DEF Alive
      <4> QED
        BY <1>3, <1>5, <3>2, <3>4, <4>1 DEF EveryRunIsKnown, IInv
    <3>8. CompleteResults'
      BY <1>3, <3>2, <3>3, <3>6 DEF CompleteResults, IInv
    <3>9. \A k \in ScanIds :
           /\ hist'[k].asked = hist[k].asked
           /\ hist'[k].told = hist[k].told
           /\ hist'[k].left # hist[k].left => InMap(k) /\ ~InMap(k)'
           /\ InMap(k)' => InMap(k) /\ scans'[k].started = scans[k].started
           /\ scans'[k].finished => scans[k].finished \/ worker[k].pc = "done"
      BY <2>1, <3>2, <3>3, <3>4, <3>5
    <3> HIDE DEF n
    <3> QED
      BY <1>3, <1>4, <1>5, <2>3, <3>7, <3>8, <3>9, QuietStep
  <2>8. CASE ~scans[id].finished
    <3>1. scans' = scans /\ hist' = [hist EXCEPT ![id] = [hist[id] EXCEPT !.delivered = n]]
      BY <1>0, <1>s, <1>6, <2>8 DEF RqstResults
    <3>2. /\ \A k \in ScanIds : k # id => hist'[k] = hist[k]
          /\ hist'[id] = [hist[id] EXCEPT !.delivered = n]
      BY <2>1, <3>1 DEF ScanTypeOK
    <3>3. /\ hist'[id].asked = hist[id].asked /\ hist'[id].told = hist[id].told
          /\ hist'[id].left = hist[id].left
      BY <2>5, <2>6, <3>2
    <3>4. \A k \in ScanIds : InMap(k)' <=> InMap(k)
      BY <3>1 DEF InMap, NoScan
    <3>5. EveryRunIsKnown'
      BY <1>3, <1>5, <3>1, <3>4 DEF EveryRunIsKnown, IInv
    <3>6. CompleteResults'
      BY <1>3, <2>4, <3>2, <3>3 DEF CompleteResults, IInv
    <3>7. \A k \in ScanIds :
           /\ hist'[k].asked = hist[k].asked
           /\ hist'[k].told = hist[k].told
           /\ hist'[k].left = hist[k].left
      BY <3>2, <3>3
    <3> HIDE DEF n
    <3> QED
      BY <1>3, <1>4, <1>5, <2>3, <3>1, <3>4, <3>5, <3>6, <3>7, QuietStep
  <2> QED
    BY <2>7, <2>8
<1>7. CASE ~(Known(s, id) /\ scans[id].started)
  <2>1. /\ TellActivity(IF Known(s, id) THEN scans[id].client ELSE c, "RESP_RESULTS_ERR", id, 0)
        /\ UNCHANGED <<scans, hist>>
    BY <1>0, <1>s, <1>7 DEF RqstResults
  <2>2. (IF Known(s, id) THEN scans[id].client ELSE c) \in Clients
    BY InMapClient DEF Known, MapOf, MapIds
  <2> QED
    BY <1>3, <1>4, <2>1, <2>2, ClientStep
<1> QED
  BY <1>6, <1>7

\* NOTIFY_SCAN_FINISHED and NOTIFY_SCAN_PROBLEM preserve the invariant: a scan is
\* marked finished only after its Runnable ended.
LEMMA ScanNoteStep ==
  ASSUME IInv, TypeOK', NEW id \in ScanIds, NotifyScanFinished(id) \/ NotifyScanProblem(id)
  PROVE  IInv'
<1> TypeOK /\ CommTypeOK /\ ScanTypeOK
  BY DEF IInv, TypeOK
<1>1. CASE ~InMap(id)
  BY <1>1, DiesStep DEF NotifyScanFinished, NotifyScanProblem
<1>2. CASE InMap(id)
  <2>1. /\ id \in Senders /\ ScanIds \subseteq Senders
        /\ \A t \in Services : Root(t) \in Senders /\ Root(t) # id
    BY SendersDistinct
  <2>2. PICK what \in {"NOTIFY_SCAN_FINISHED", "NOTIFY_SCAN_PROBLEM"} :
          /\ mq[id] # <<>> /\ Head(mq[id]).what = what /\ Consume(id)
          /\ TellActivity(scans[id].client, what, id, 0)
          /\ svc # "down" /\ svc' = svc
          /\ UNCHANGED <<hosted, incarnation, owner, rootTask, setupTask, rootAccess,
                         rootAcqisitionFinished, nativeInstalled, pending_RQST_SCAN_ID,
                         hist, worker>>
          /\ \/ scans' = scans
             \/ what = "NOTIFY_SCAN_FINISHED" /\ scans' = [scans EXCEPT ![id].finished = TRUE]
    BY <1>2 DEF NotifyScanFinished, NotifyScanProblem, IsNext, ProcessRuns, HandlerFrame, FieldsFrame
  <2>3. /\ \A r \in Senders : Range(mq'[r]) \subseteq Range(mq[r])
        /\ \A r \in Senders : r # id => mq'[r] = mq[r]
        /\ Head(mq[id]) \in Range(mq[id])
    BY <2>1, <2>2, ConsumeEffect
  <2>4. /\ \A t \in Services : mq'[Root(t)] = mq[Root(t)]
        /\ \A k \in ScanIds : mq[k] = <<>> => mq'[k] = <<>>
    BY <2>1, <2>2, <2>3
  <2>5. what = "NOTIFY_SCAN_FINISHED" => worker[id].pc = "done"
    <3>1. worker[id].pc \in {"idle", "queued", "reading", "done"}
      BY DEF TypeOK, NmapTypeOK, Worker
    <3> QED
      BY <2>2, <2>3, <3>1 DEF WorkersFollowScans, IInv, Alive
  <2>6. scans[id].client \in Clients
    BY <1>2, InMapClient
  <2>7. \A d \in Clients : \A m \in Range(cq'[d]) :
          m \in Range(cq[d]) \/ m.what # "RESP_SCAN_ID_OK"
    BY <2>2, <2>6, TellActivityEffect
  <2>8. \A k \in ScanIds : /\ InMap(k)' <=> InMap(k)
                           /\ scans'[k].started = scans[k].started
                           /\ scans'[k].finished => scans[k].finished \/ worker[k].pc = "done"
    <3>1. CASE scans' = scans
      BY <3>1 DEF InMap, NoScan
    <3>2. CASE what = "NOTIFY_SCAN_FINISHED" /\ scans' = [scans EXCEPT ![id].finished = TRUE]
      <4> DEFINE Object == [client : Clients, started : BOOLEAN, finished : BOOLEAN]
      <4>1. scans[id] \in Object
        BY <1>2 DEF InMap, ScanTypeOK
      <4>2. ASSUME NEW x \in Object
            PROVE  /\ [x EXCEPT !.finished = TRUE].client = x.client
                   /\ [x EXCEPT !.finished = TRUE].started = x.started
        OBVIOUS
      <4>3. /\ scans'[id] = [scans[id] EXCEPT !.finished = TRUE]
            /\ \A k \in ScanIds : k # id => scans'[k] = scans[k]
        BY <3>2 DEF ScanTypeOK
      <4>4. scans'[id].client = scans[id].client /\ scans'[id].started = scans[id].started
        BY <4>1, <4>2, <4>3
      <4>5. NoScan.client = NoId /\ scans[id].client # NoId
        BY <2>6, NoIdAssumption DEF NoScan
      <4>6. scans'[id] # NoScan
        BY <4>4, <4>5
      <4>7. InMap(id)'
        BY <4>6 DEF InMap, NoScan
      <4> QED
        BY <1>2, <2>5, <3>2, <4>3, <4>4, <4>7 DEF InMap, NoScan
    <3> QED
      BY <2>2, <3>1, <3>2
  <2>9. \A k \in ScanIds : Alive(k)' <=> Alive(k)
    BY <2>2 DEF Alive
  <2>10. EveryRunIsKnown'
    <3>1. \A k \in ScanIds : worker[k].pc = "done" => ~Alive(k)
      BY DEF Alive
    <3> QED
      BY <2>2, <2>8, <2>9, <3>1 DEF EveryRunIsKnown, IInv
  <2>11. CompleteResults'
    BY <2>2 DEF CompleteResults, IInv
  <2> QED
    BY <2>2, <2>3, <2>4, <2>7, <2>8, <2>9, <2>10, <2>11, QuietStep
<1> QED
  BY <1>1, <1>2

\* NOTIFY_ROOT_ACCESS preserves the invariant: it comes once, before any scan of the
\* service object runs, and answers the scans that waited for it alone.
LEMMA RootAccessStep ==
  ASSUME IInv, TypeOK', NEW s \in Services, NotifyRootAccess(s)
  PROVE  IInv'
<1> TypeOK /\ ScanTypeOK /\ NmapTypeOK
  BY DEF IInv, TypeOK
<1>1. /\ Handles(Root(s), "NOTIFY_ROOT_ACCESS") /\ Root(s) \in Senders
      /\ ScanIds \subseteq Senders /\ \A k \in ScanIds : k # Root(s)
      /\ \A r \in Services : Root(r) \in Senders /\ (r # s => Root(r) # Root(s))
  BY SendersDistinct DEF NotifyRootAccess
<1>2. /\ svc # "down" /\ svc' = svc
      /\ UNCHANGED <<hosted, incarnation, owner, scans, worker, rootTask, setupTask, nativeInstalled>>
      /\ rootAcqisitionFinished'[s] /\ GrantPending(s, nativeInstalled[s])
      /\ \A r \in Services : r # s => /\ rootAcqisitionFinished'[r] = rootAcqisitionFinished[r]
                                      /\ rootAccess'[r] = rootAccess[r]
  BY <1>1, HandlesEffect DEF NotifyRootAccess, HandlerFrame, ScanTypeOK
<1>3. /\ mq[Root(s)] # <<>> /\ mq'[Root(s)] = Tail(mq[Root(s)])
      /\ \A r \in Senders : Range(mq'[r]) \subseteq Range(mq[r])
      /\ \A r \in Senders : r # Root(s) => mq'[r] = mq[r]
  BY <1>1, HandlesEffect
<1>4. ~rootAcqisitionFinished[s] /\ rootTask[s] # "running" /\ ~SetUp(s) /\ s \in hosted
  BY <1>3 DEF RootNotifiedOnce, AbsentIsIdle, IInv, SetUp
<1>5. /\ SetUp(s)' <=> nativeInstalled[s]
      /\ \A r \in Services : r # s => (SetUp(r)' <=> SetUp(r))
  BY <1>2 DEF SetUp
<1>6. mq'[Root(s)] = <<>>
  <2>1. mq[Root(s)] \in Seq(ToService)
    BY <1>1 DEF TypeOK, CommTypeOK
  <2>2. mq[Root(s)] # <<>> /\ Len(mq[Root(s)]) <= 1
    BY <1>3 DEF RootNotifiedOnce, IInv
  <2> QED
    BY <1>3, <2>1, <2>2, TailOfOne
<1>7. RootNotifiedOnce' /\ AbsentIsIdle'
  <2>1. \A r \in Services : r # s => mq'[Root(r)] = mq[Root(r)]
    BY <1>1, <1>3
  <2>2. AbsentIsIdle'
    BY <1>2, <1>4, <2>1 DEF AbsentIsIdle, IInv
  <2>3. ASSUME NEW r \in Services
        PROVE  /\ rootAcqisitionFinished'[r] => rootTask'[r] # "running" /\ mq'[Root(r)] = <<>>
               /\ rootTask'[r] = "running" => mq'[Root(r)] = <<>>
               /\ Len(mq'[Root(r)]) <= 1
    <3>1. CASE r = s
      BY <1>2, <1>4, <1>6, <3>1
    <3>2. CASE r # s
      BY <1>2, <2>1, <3>2 DEF RootNotifiedOnce, IInv
    <3> QED
      BY <3>1, <3>2
  <2> QED
    BY <2>2, <2>3 DEF RootNotifiedOnce
<1>8. NoEarlyStart'
  <2>1. \A k \in ScanIds : Alive(k)' => /\ Alive(k) /\ owner[k] \in Services
                                        /\ SetUp(owner[k]) /\ owner[k] # s
    BY <1>2, <1>4 DEF NoEarlyStart, IInv, Alive, NmapTypeOK
  <2> QED
    BY <1>2, <2>1 DEF NoEarlyStart, SetUp, IInv
<1>9. \A k \in ScanIds : mq[k] = <<>> => mq'[k] = <<>>
  BY <1>1, <1>3
<1>10. \A r \in Services : \A k \in MapOf(r) :
         /\ k \in ScanIds /\ InMap(k)
         /\ r = s => k \in MapOf(s) /\ hist[k].told # "ok"
         /\ hist[k].told = "ok" => SetUp(r)
         /\ hist[k].told = "no" => pending_RQST_SCAN_ID[r] /\ ~SetUp(r)
         /\ r # s => k \notin MapOf(s)
  BY <1>4 DEF GrantedWhenSetUp, NoForgottenRequest, IInv, MapOf, MapIds
<1>11. \A r \in Services : pending_RQST_SCAN_ID[r] => ~SetUp(r)
  BY DEF GrantedWhenSetUp, IInv
<1>12. CASE nativeInstalled[s] /\ pending_RQST_SCAN_ID[s]
  <2>1. /\ TellScans(s, "RESP_SCAN_ID_OK", "ok") /\ ~pending_RQST_SCAN_ID'[s]
        /\ \A r \in Services : r # s => pending_RQST_SCAN_ID'[r] = pending_RQST_SCAN_ID[r]
    BY <1>2, <1>12 DEF GrantPending, NothingPending, ScanTypeOK
  <2>2. \A k \in ScanIds : /\ hist'[k].asked = hist[k].asked
                           /\ hist'[k].left = hist[k].left
                           /\ hist'[k].delivered = hist[k].delivered
                           /\ k \in MapOf(s) => hist'[k].told = "ok"
                           /\ k \notin MapOf(s) => hist'[k].told = hist[k].told
    BY <2>1, TellScansEffect DEF ReplyKind
  <2>3. \A c \in Clients : \A m \in Range(cq'[c]) :
          m \in Range(cq[c]) \/ (m.what = "RESP_SCAN_ID_OK" /\ m.id \in MapOf(s))
    BY <2>1, TellScansEffect DEF ReplyKind
  <2>4. \A k \in MapOf(s) : k \in MapIds /\ hist'[k].told = "ok"
    BY <2>2 DEF MapOf, MapIds
  <2>5. \A r \in Services :
          /\ pending_RQST_SCAN_ID'[r] => ~SetUp(r)'
          /\ \A k \in MapOf(r) :
               /\ hist'[k].told = "ok" => SetUp(r)'
               /\ hist'[k].told = "no" => pending_RQST_SCAN_ID'[r] /\ ~SetUp(r)'
    BY <1>5, <1>10, <1>11, <1>12, <2>1, <2>2
  <2>6. \A k \in ScanIds : /\ InMap(k) /\ hist[k].told = "ok" => hist'[k].told = "ok"
                           /\ ~InMap(k) => hist'[k].told = hist[k].told
    BY <2>2 DEF MapOf, MapIds
  <2> QED
    BY <1>2, <1>3, <1>7, <1>8, <1>9, <2>2, <2>3, <2>4, <2>5, <2>6, AnswerStep
<1>13. CASE ~(nativeInstalled[s] /\ pending_RQST_SCAN_ID[s])
  <2>1. UNCHANGED <<cq, hist, pending_RQST_SCAN_ID>>
    BY <1>2, <1>13 DEF GrantPending
  <2>2. \A r \in Services :
          /\ pending_RQST_SCAN_ID'[r] => ~SetUp(r)'
          /\ \A k \in MapOf(r) :
               /\ hist'[k].told = "ok" => SetUp(r)'
               /\ hist'[k].told = "no" => pending_RQST_SCAN_ID'[r] /\ ~SetUp(r)'
    BY <1>5, <1>10, <1>11, <1>13, <2>1
  <2> QED
    BY <1>2, <1>3, <1>7, <1>8, <1>9, <2>1, <2>2, AnswerStep
<1> QED
  BY <1>12, <1>13

\* NOTIFY_NATIVE_SETUP preserves the invariant, whether the setup failed or not.
LEMMA NativeSetupStep ==
  ASSUME IInv, TypeOK', NEW s \in Services, NotifyNativeSetup(s)
  PROVE  IInv'
<1> TypeOK /\ ScanTypeOK /\ NmapTypeOK
  BY DEF IInv, TypeOK
<1>1. /\ Handles(Setup(s), "NOTIFY_NATIVE_SETUP") /\ Setup(s) \in Senders
      /\ ScanIds \subseteq Senders /\ \A k \in ScanIds : k # Setup(s)
      /\ \A r \in Services : Root(r) \in Senders /\ Root(r) # Setup(s)
  BY SendersDistinct DEF NotifyNativeSetup
<1>2. /\ svc # "down" /\ svc' = svc
      /\ UNCHANGED <<hosted, incarnation, owner, scans, worker, rootTask, setupTask,
                     rootAccess, rootAcqisitionFinished>>
      /\ nativeInstalled'[s]
      /\ \A r \in Services : r # s => nativeInstalled'[r] = nativeInstalled[r]
  BY <1>1, HandlesEffect DEF NotifyNativeSetup, HandlerFrame, ScanTypeOK
<1>3. /\ \A r \in Senders : Range(mq'[r]) \subseteq Range(mq[r])
      /\ \A r \in Senders : r # Setup(s) => mq'[r] = mq[r]
  BY <1>1, HandlesEffect
<1>4. /\ SetUp(s)' <=> rootAcqisitionFinished[s]
      /\ \A r \in Services : SetUp(r) => SetUp(r)'
      /\ \A r \in Services : r # s => (SetUp(r)' <=> SetUp(r))
  BY <1>2 DEF SetUp
<1>5. \A r \in Services : mq'[Root(r)] = mq[Root(r)]
  BY <1>1, <1>3
<1>6. RootNotifiedOnce' /\ AbsentIsIdle'
  BY <1>2, <1>5 DEF RootNotifiedOnce, AbsentIsIdle, IInv
<1>7. NoEarlyStart'
  <2>1. \A k \in ScanIds : Alive(k)' => /\ Alive(k) /\ owner[k] \in Services
                                        /\ SetUp(owner[k])
    BY <1>2 DEF NoEarlyStart, IInv, Alive, NmapTypeOK
  <2> QED
    BY <1>2, <2>1 DEF NoEarlyStart, SetUp, IInv
<1>8. \A k \in ScanIds : mq[k] = <<>> => mq'[k] = <<>>
  BY <1>1, <1>3
<1>9. \A r \in Services :
        /\ pending_RQST_SCAN_ID[r] => ~SetUp(r)
        /\ \A k \in MapOf(r) :
             /\ k \in ScanIds /\ InMap(k) /\ (r # s => k \notin MapOf(s))
             /\ hist[k].told = "ok" => SetUp(r)
             /\ hist[k].told = "no" => pending_RQST_SCAN_ID[r] /\ ~SetUp(r)
  BY DEF GrantedWhenSetUp, NoForgottenRequest, IInv, MapOf, MapIds
<1>10. ASSUME UNCHANGED <<cq, hist>>,
              \A r \in Services : pending_RQST_SCAN_ID'[r] = pending_RQST_SCAN_ID[r],
              pending_RQST_SCAN_ID'[s] => ~SetUp(s)'
       PROVE  IInv'
  <2>1. \A r \in Services :
          /\ pending_RQST_SCAN_ID'[r] => ~SetUp(r)'
          /\ \A k \in MapOf(r) :
               /\ hist'[k].told = "ok" => SetUp(r)'
               /\ hist'[k].told = "no" => pending_RQST_SCAN_ID'[r] /\ ~SetUp(r)'
    BY <1>4, <1>9, <1>10
  <2> QED
    BY <1>2, <1>3, <1>6, <1>7, <1>8, <1>10, <2>1, AnswerStep
<1>11. ASSUME NEW what \in ReplyKind, NEW answer \in {"ok", "err"}, TellScans(s, what, answer),
              ~pending_RQST_SCAN_ID'[s], pending_RQST_SCAN_ID[s],
              \A r \in Services : r # s => pending_RQST_SCAN_ID'[r] = pending_RQST_SCAN_ID[r],
              answer = "ok" => SetUp(s)', answer = "err" => what # "RESP_SCAN_ID_OK"
       PROVE  IInv'
  <2>1. \A k \in ScanIds : /\ hist'[k].asked = hist[k].asked
                           /\ hist'[k].left = hist[k].left
                           /\ hist'[k].delivered = hist[k].delivered
                           /\ k \in MapOf(s) => hist'[k].told = answer
                           /\ k \notin MapOf(s) => hist'[k].told = hist[k].told
    BY <1>11, TellScansEffect
  <2>2. \A c \in Clients : \A m \in Range(cq'[c]) :
          m \in Range(cq[c]) \/ (m.what = what /\ m.id \in MapOf(s))
    BY <1>11, TellScansEffect
  <2>3. \A k \in MapOf(s) : k \in MapIds /\ hist'[k].told = answer /\ hist[k].told # "ok"
    BY <1>9, <1>11, <2>1 DEF MapOf, MapIds
  <2>4. \A r \in Services :
          /\ pending_RQST_SCAN_ID'[r] => ~SetUp(r)'
          /\ \A k \in MapOf(r) :
               /\ hist'[k].told = "ok" => SetUp(r)'
               /\ hist'[k].told = "no" => pending_RQST_SCAN_ID'[r] /\ ~SetUp(r)'
    BY <1>4, <1>9, <1>11, <2>1
  <2>5. \A k \in ScanIds : /\ InMap(k) /\ hist[k].told = "ok" => hist'[k].told = "ok"
                           /\ ~InMap(k) => hist'[k].told = hist[k].told
    BY <2>1, <2>3 DEF MapOf, MapIds
  <2>6. \A c \in Clients : \A m \in Range(cq'[c]) :
          \/ m \in Range(cq[c])
          \/ m.what # "RESP_SCAN_ID_OK"
          \/ m.id \in MapIds /\ hist'[m.id].told = "ok"
    BY <1>11, <2>2, <2>3
  <2> QED
    BY <1>2, <1>3, <1>6, <1>7, <1>8, <2>1, <2>4, <2>5, <2>6, AnswerStep
<1>12. CASE Head(mq[Setup(s)]).arg = NATIVE_SETUP_FAIL
  <2>1. /\ ~pending_RQST_SCAN_ID'[s]
        /\ \A r \in Services : r # s => pending_RQST_SCAN_ID'[r] = pending_RQST_SCAN_ID[r]
        /\ IF pending_RQST_SCAN_ID[s] THEN TellScans(s, "RESP_SCAN_ID_ERR", "err")
           ELSE UNCHANGED <<cq, hist>>
    BY <1>12 DEF NotifyNativeSetup, NothingPending, ScanTypeOK
  <2>2. CASE pending_RQST_SCAN_ID[s]
    BY <1>11, <2>1, <2>2 DEF ReplyKind
  <2>3. CASE ~pending_RQST_SCAN_ID[s]
    <3>1. \A r \in Services : pending_RQST_SCAN_ID'[r] = pending_RQST_SCAN_ID[r]
      <4>1. pending_RQST_SCAN_ID' \in [Services -> BOOLEAN] /\ pending_RQST_SCAN_ID \in [Services -> BOOLEAN]
        BY DEF TypeOK, ScanTypeOK
      <4> QED
        BY <2>1, <2>3, <4>1
    <3> QED
      BY <1>10, <2>1, <2>3, <3>1
  <2> QED
    BY <2>2, <2>3
<1>13. CASE Head(mq[Setup(s)]).arg # NATIVE_SETUP_FAIL
  <2>1. GrantPending(s, rootAcqisitionFinished[s])
    BY <1>13 DEF NotifyNativeSetup
  <2>2. CASE rootAcqisitionFinished[s] /\ pending_RQST_SCAN_ID[s]
    <3>1. /\ TellScans(s, "RESP_SCAN_ID_OK", "ok") /\ ~pending_RQST_SCAN_ID'[s]
          /\ \A r \in Services : r # s => pending_RQST_SCAN_ID'[r] = pending_RQST_SCAN_ID[r]
      BY <2>1, <2>2 DEF GrantPending, NothingPending, ScanTypeOK
    <3> QED
      BY <1>4, <1>11, <2>2, <3>1 DEF ReplyKind
  <2>3. CASE ~(rootAcqisitionFinished[s] /\ pending_RQST_SCAN_ID[s])
    <3>1. UNCHANGED <<cq, hist, pending_RQST_SCAN_ID>>
      BY <2>1, <2>3 DEF GrantPending
    <3> QED
      BY <1>4, <1>10, <2>3, <3>1
  <2> QED
    BY <2>2, <2>3
<1> QED
  BY <1>12, <1>13

\* Every message of ScanServiceHandler.handleMessage preserves the invariant.
LEMMA HandleMessageStep ==
  ASSUME IInv, TypeOK', HandleMessage
  PROVE  IInv'
BY RqstScanIdStep, RqstStartScanStep, RqstStopScanStep, RqstResultsStep, ScanNoteStep,
   RootAccessStep, NativeSetupStep DEF HandleMessage

\* The inductive invariant of the session: ids, requests, Runnables and results of
\* HandleMessage and the pool agree in every state, whatever processes died and service
\* objects were created again.
THEOREM Invariance == Spec => []IInv
<1>1. Init => IInv
  <2> SUFFICES ASSUME Init PROVE IInv
    OBVIOUS
  <2>1. TypeOK
    BY InitType
  <2>2. \A s \in Senders : mq[s] = <<>> /\ Range(mq[s]) = {}
    BY RangeOfEmpty DEF Init, CommInit
  <2>3. \A c \in Clients : Range(cq[c]) = {}
    BY RangeOfEmpty DEF Init, CommInit
  <2>4. /\ Clients \subseteq Senders /\ ScanIds \subseteq Senders
        /\ \A s \in Services : Root(s) \in Senders
    BY SendersDistinct
  <2>5. \A id \in ScanIds : scans[id] = NoScan /\ worker[id].pc = "idle"
    BY DEF Init, ScanServiceInit, NmapInit, NoWorker
  <2>6. \A id \in ScanIds : hist[id].asked = 0 /\ hist[id].left = "no" /\ hist[id].told = "no"
    BY DEF Init, ScanServiceInit, NoHistory
  <2>7. \A id \in ScanIds : ~InMap(id) /\ ~Alive(id) /\ ~scans[id].finished
    <3>1. ~NoScan.finished
      BY DEF NoScan
    <3> QED
      BY <2>5, <3>1 DEF InMap, Alive
  <2>8. \A s \in Services : /\ ~rootAcqisitionFinished[s] /\ ~pending_RQST_SCAN_ID[s]
                            /\ rootTask[s] = "idle" /\ setupTask[s] = "idle"
                            /\ mq[Root(s)] = <<>> /\ Len(mq[Root(s)]) = 0
    BY <2>2, <2>4 DEF Init, ScanServiceInit, NmapInit, AllFalse
  <2>9. DownIsEmpty /\ AbsentIsIdle
    BY <2>2, <2>7, <2>8 DEF DownIsEmpty, AbsentIsIdle, MapIds, Init, CommInit, AndroidInit
  <2>10. RootNotifiedOnce
    BY <2>8 DEF RootNotifiedOnce
  <2>11. GrantedWhenSetUp /\ UnaskedIsUnused
    BY <2>5, <2>6, <2>7, <2>8 DEF GrantedWhenSetUp, UnaskedIsUnused
  <2>12. RequestsNumbered /\ GrantsHold
    BY <2>2, <2>3, <2>4 DEF RequestsNumbered, GrantsHold
  <2>13. WorkersFollowScans
    BY <2>2, <2>4, <2>5, <2>6, <2>7 DEF WorkersFollowScans
  <2>14. NoForgottenRequest /\ NoEarlyStart /\ EveryRunIsKnown /\ CompleteResults
    BY <2>6, <2>7 DEF NoForgottenRequest, NoEarlyStart, EveryRunIsKnown, CompleteResults
  <2> QED
    BY <2>1, <2>9, <2>10, <2>11, <2>12, <2>13, <2>14 DEF IInv
<1>2. IInv /\ [Next]_vars => IInv'
  <2> SUFFICES ASSUME IInv, [Next]_vars PROVE IInv'
    OBVIOUS
  <2>1. TypeOK'
    BY NextType DEF IInv
  <2>2. CASE Next
    BY <2>1, <2>2, LifeCycleStep, HandleMessageStep, PoolStep, ActivityStep DEF Next
  <2>3. CASE UNCHANGED vars
    BY <2>1, <2>3, SameStep DEF vars, commVars, androidVars, workerVars
  <2> QED
    BY <2>2, <2>3
<1> QED
  BY <1>1, <1>2, PTL DEF Spec

\* An unanswered RQST_SCAN_ID is never forgotten: as long as its Scan object is in
\* the map, the flag that has it answered is set and the end of the setup is still
\* to come, however requests, notifications and process deaths interleave.
THEOREM Answered == Spec => []NoForgottenRequest
<1>1. IInv => NoForgottenRequest
  BY DEF IInv
<1> QED
  BY <1>1, Invariance, PTL

\* No Runnable scans before the service object that started it knows its root access,
\* nor with another one, however often the service is created again, in a new process
\* or in the one where Runnables of the former object still read.
THEOREM SetUpFirst == Spec => []NoEarlyStart
<1>1. IInv => NoEarlyStart
  BY DEF IInv
<1> QED
  BY <1>1, Invariance, PTL

\* A Runnable that was not interrupted has its started, unfinished Scan object: no
\* scan runs on that its activity could not stop.
THEOREM RunsAreKnown == Spec => []EveryRunIsKnown
<1>1. IInv => EveryRunIsKnown
  BY DEF IInv
<1> QED
  BY <1>1, Invariance, PTL

\* When a Scan object was removed because its results were collected, its Runnable
\* had ended and all it read had been handed over.
THEOREM ResultsComplete == Spec => []CompleteResults
<1>1. IInv => CompleteResults
  BY DEF IInv
<1> QED
  BY <1>1, Invariance, PTL

-----------------------------------------------------------------------------
(***************************************************************************)
(* What the scan field of an activity says.                                *)
(***************************************************************************)

\* A kind of message that is at most once in a queue still is when one is taken,
\* and is gone when that was the one.
LEMMA OnceTail ==
  ASSUME NEW S, NEW q \in Seq(S), q # <<>>, NEW what, AtMostOnce(q, what)
  PROVE  /\ AtMostOnce(Tail(q), what)
         /\ Head(q).what = what => Among(Tail(q), {what}) = {}
<1>1. Tail(q) \in Seq(S) /\ Len(Tail(q)) = Len(q) - 1 /\ Len(q) \in Nat /\ Len(q) > 0
  OBVIOUS
<1>2. PICK n \in Nat : n = Len(q) /\ n > 0 /\ Len(Tail(q)) = n - 1
  BY <1>1
<1>3. \A i \in 1..n - 1 : Tail(q)[i] = q[i + 1] /\ i + 1 \in 1..n /\ i + 1 # 1
  BY <1>1, <1>2
<1>4. AtMostOnce(Tail(q), what)
  <2> SUFFICES ASSUME NEW i \in 1..n - 1, NEW j \in 1..n - 1,
                      Tail(q)[i].what = what, Tail(q)[j].what = what
               PROVE  i = j
    BY <1>2 DEF AtMostOnce
  <2>1. i + 1 = j + 1
    BY <1>2, <1>3 DEF AtMostOnce
  <2> QED
    BY <2>1
<1>5. ASSUME Head(q).what = what, NEW m \in Range(Tail(q)) PROVE m.what # what
  <2>1. PICK i \in 1..n - 1 : m = Tail(q)[i]
    BY <1>1, <1>2, <1>5 DEF Range
  <2>2. q[1].what = what /\ 1 \in 1..n
    BY <1>2, <1>5
  <2>3. q[i + 1].what # what
    BY <1>2, <1>3, <2>2 DEF AtMostOnce
  <2> QED
    BY <1>3, <2>1, <2>3
<1> QED
  BY <1>4, <1>5 DEF Among

\* It still is when messages of other kinds are appended.
LEMMA OnceConcat ==
  ASSUME NEW S, NEW q \in Seq(S), NEW r \in Seq(S), NEW what, AtMostOnce(q, what),
         \A i \in 1..Len(r) : r[i].what # what
  PROVE  AtMostOnce(q \o r, what)
<1>1. PICK n \in Nat : n = Len(q)
  OBVIOUS
<1>2. PICK k \in Nat : k = Len(r)
  OBVIOUS
<1>3. q \o r \in Seq(S) /\ Len(q \o r) = n + k
  BY <1>1, <1>2
<1>4. \A i \in 1..n + k : (q \o r)[i] = IF i <= n THEN q[i] ELSE r[i - n]
  BY <1>1, <1>2
<1> DEFINE cat == q \o r
<1> HIDE DEF cat
<1>5. ASSUME NEW i \in 1..n + k, cat[i].what = what PROVE i \in 1..n /\ q[i].what = what
  <2>1. cat[i] = IF i <= n THEN q[i] ELSE r[i - n]
    BY <1>4, <1>5 DEF cat
  <2>2. CASE i <= n
    BY <1>5, <2>1, <2>2
  <2>3. CASE ~(i <= n)
    <3>1. i - n \in 1..k
      BY <1>5, <2>3
    <3>2. r[i - n].what # what
      BY <1>2, <3>1
    <3> QED
      BY <1>5, <2>1, <2>3, <3>2
  <2> QED
    BY <2>2, <2>3
<1> QED
  BY <1>1, <1>3, <1>5 DEF AtMostOnce, cat

LEMMA OnceAppend ==
  ASSUME NEW S, NEW q \in Seq(S), NEW m, NEW what, AtMostOnce(q, what),
         m.what # what \/ Among(q, {what}) = {}
  PROVE  AtMostOnce(Append(q, m), what)
<1>1. PICK n \in Nat : n = Len(q)
  OBVIOUS
<1>2. Len(Append(q, m)) = n + 1 /\ Append(q, m)[n + 1] = m
      /\ \A i \in 1..n : Append(q, m)[i] = q[i]
  BY <1>1
<1>3. CASE m.what # what
  <2>1. \A i \in 1..n + 1 : Append(q, m)[i].what = what => i \in 1..n /\ q[i].what = what
    BY <1>2, <1>3
  <2> QED
    BY <1>1, <1>2, <2>1 DEF AtMostOnce
<1>4. CASE Among(q, {what}) = {}
  <2>1. \A i \in 1..n : q[i] \in Range(q)
    <3>1. DOMAIN q = 1..n
      BY <1>1
    <3> QED
      BY <3>1 DEF Range
  <2>2. \A i \in 1..n : q[i].what # what
    BY <1>4, <2>1 DEF Among
  <2>3. \A i \in 1..n + 1 : Append(q, m)[i].what = what => i = n + 1
    <3>1. ASSUME NEW i \in 1..n + 1, Append(q, m)[i].what = what PROVE i = n + 1
      <4>1. CASE i \in 1..n
        BY <1>2, <2>2, <3>1, <4>1
      <4> QED
        BY <4>1
    <3> QED
      BY <3>1
  <2> QED
    BY <1>2, <2>3 DEF AtMostOnce
<1> QED
  BY <1>3, <1>4

\* A Runnable that was made for a scan stays made, with its arguments.
WorkersGoOn ==
  \A id \in ScanIds : worker[id].pc # "idle" =>
    worker'[id].pc # "idle" /\ worker'[id].args = worker[id].args

LEMMA CancelGoesOn ==
  ASSUME NmapTypeOK, NEW ids, Cancel(ids)
  PROVE  WorkersGoOn
<1>1. ASSUME NEW w \in Worker, w.pc # "idle"
      PROVE  Cancelled(w).pc # "idle" /\ Cancelled(w).args = w.args
  <2>1. CASE w.pc = "queued"
    <3>1. Cancelled(w) = [w EXCEPT !.pc = "done", !.interrupted = TRUE]
      BY <2>1 DEF Cancelled
    <3> QED
      BY <3>1, <2>1 DEF Worker
  <2>2. CASE w.pc = "reading"
    <3>1. Cancelled(w) = [w EXCEPT !.interrupted = TRUE]
      BY <2>2 DEF Cancelled
    <3> QED
      BY <3>1, <2>2 DEF Worker
  <2>3. CASE w.pc \notin {"queued", "reading"}
    <3>1. Cancelled(w) = w
      BY <2>3 DEF Cancelled
    <3> QED
      BY <3>1, <1>1
  <2> QED
    BY <2>1, <2>2, <2>3
<1>2. \A id \in ScanIds : worker'[id] = IF id \in ids THEN Cancelled(worker[id]) ELSE worker[id]
  BY DEF Cancel
<1>3. \A id \in ScanIds : worker[id] \in Worker
  BY DEF NmapTypeOK
<1> HIDE DEF Cancelled
<1> QED
  BY <1>1, <1>2, <1>3 DEF WorkersGoOn

LEMMA DiesGoesOn ==
  ASSUME NmapTypeOK, NEW why, Dies(why)
  PROVE  WorkersGoOn
<1>1. ASSUME NEW id \in ScanIds
      PROVE  worker'[id] = IF Alive(id) THEN [worker[id] EXCEPT !.pc = "done"] ELSE worker[id]
  BY DEF Dies, PoolDies
<1>2. \A w \in Worker : [w EXCEPT !.pc = "done"].pc = "done" /\ [w EXCEPT !.pc = "done"].args = w.args
  BY DEF Worker
<1>3. \A id \in ScanIds : worker[id] \in Worker
  BY DEF NmapTypeOK
<1> QED
  BY <1>1, <1>2, <1>3 DEF WorkersGoOn

LEMMA SameGoesOn == ASSUME worker' = worker PROVE WorkersGoOn
BY DEF WorkersGoOn

\* A Runnable, and its thread or process, moves on.
LEMMA OneGoesOn ==
  ASSUME NmapTypeOK, NEW k \in ScanIds, NEW w, worker' = [worker EXCEPT ![k] = w],
         worker[k].pc # "idle" => w.pc # "idle" /\ w.args = worker[k].args
  PROVE  WorkersGoOn
<1>1. worker \in [ScanIds -> Worker]
  BY DEF NmapTypeOK
<1>2. \A i \in ScanIds : worker'[i] = IF i = k THEN w ELSE worker[i]
  BY <1>1
<1> QED
  BY <1>2 DEF WorkersGoOn

LEMMA RunnableGoesOn ==
  ASSUME NmapTypeOK, NEW id \in ScanIds, RunNmap(id)
  PROVE  WorkersGoOn
<1> DEFINE w == worker[id]
<1>1. w \in Worker
  BY DEF NmapTypeOK
<1>2. \/ \E p \in {"reading", "done"} : worker' = [worker EXCEPT ![id] = [w EXCEPT !.pc = p]]
      \/ worker' = [worker EXCEPT ![id] = [w EXCEPT !.pc = "reading", !.killed = TRUE]]
      \/ worker' = [worker EXCEPT ![id] = [w EXCEPT !.out = w.out + 1]]
  BY DEF RunNmap, RunWithoutArguments, ExecFails, ExecScan, WriteFails, ReadChunk, ReadEnd,
         ReadFails, RunTo
<1> HIDE DEF w
<1>3. /\ \A p \in {"reading", "done"} : /\ [w EXCEPT !.pc = p].pc # "idle"
                                        /\ [w EXCEPT !.pc = p].args = w.args
      /\ [w EXCEPT !.pc = "reading", !.killed = TRUE].pc # "idle"
      /\ [w EXCEPT !.pc = "reading", !.killed = TRUE].args = w.args
      /\ \A n : [w EXCEPT !.out = n].pc = w.pc /\ [w EXCEPT !.out = n].args = w.args
  BY <1>1 DEF Worker
<1>4. CASE \E p \in {"reading", "done"} : worker' = [worker EXCEPT ![id] = [w EXCEPT !.pc = p]]
  <2>1. PICK p \in {"reading", "done"} : worker' = [worker EXCEPT ![id] = [w EXCEPT !.pc = p]]
    BY <1>4
  <2>2. [w EXCEPT !.pc = p].pc # "idle" /\ [w EXCEPT !.pc = p].args = w.args
    BY <1>3
  <2> QED
    BY <2>1, <2>2, OneGoesOn DEF w
<1>5. CASE worker' = [worker EXCEPT ![id] = [w EXCEPT !.pc = "reading", !.killed = TRUE]]
  BY <1>3, <1>5, OneGoesOn DEF w
<1>6. CASE worker' = [worker EXCEPT ![id] = [w EXCEPT !.out = w.out + 1]]
  <2> DEFINE n == w.out + 1
  <2>1. [w EXCEPT !.out = n].pc = w.pc /\ [w EXCEPT !.out = n].args = w.args
    BY <1>3
  <2> QED
    BY <1>6, <2>1, OneGoesOn DEF w
<1> QED
  BY <1>2, <1>4, <1>5, <1>6

LEMMA KillGoesOn ==
  ASSUME NmapTypeOK, KillProcess
  PROVE  WorkersGoOn
<1>1. CASE worker' = worker
  BY <1>1, SameGoesOn
<1>2. CASE worker' # worker
  <2>1. PICK k \in ScanIds : worker' = [worker EXCEPT ![k] = [worker[k] EXCEPT !.killed = TRUE]]
    BY <1>2 DEF KillProcess
  <2>2. [worker[k] EXCEPT !.killed = TRUE].pc = worker[k].pc
        /\ [worker[k] EXCEPT !.killed = TRUE].args = worker[k].args
    BY DEF NmapTypeOK, Worker
  <2> QED
    BY <2>1, <2>2, OneGoesOn
<1> QED
  BY <1>1, <1>2

\* A scan is submitted once: its Scan object is started from then on.
LEMMA SubmitGoesOn ==
  ASSUME IInv, NEW id \in ScanIds, InMap(id), ~scans[id].started,
         NEW args, NEW root, Submit(id, args, root)
  PROVE  /\ WorkersGoOn
         /\ worker[id].pc = "idle"
         /\ worker'[id].pc # "idle" /\ worker'[id].args = args
<1>1. worker[id].pc = "idle"
  BY DEF IInv, WorkersFollowScans
<1>2. \A k \in ScanIds : worker'[k] = IF k = id THEN [pc |-> "queued", interrupted |-> FALSE,
                                         killed |-> FALSE, args |-> args, root |-> root, out |-> 0]
                                      ELSE worker[k]
  BY DEF Submit, IInv, TypeOK, NmapTypeOK
<1> QED
  BY <1>1, <1>2 DEF WorkersGoOn

\* What is told to activity c of its field stays true in a step that leaves the
\* field, sends c only grants of ids it has to do with, and lets what was
\* submitted be.
LEMMA FieldKept ==
  ASSUME IInv, TypeOK', NEW c \in Clients, FieldOf(c),
         starts'[c] = starts[c],
         scan'[c].id = scan[c].id, scan'[c].args = scan[c].args, scan'[c].started = scan[c].started,
         c \in gone => c \in gone',
         \A m \in Range(mq'[c]) : m \in Range(mq[c]) \/ m.what = "RQST_RESULTS",
         \/ mq'[c] \in {<<>>, mq[c]}
         \/ mq[c] # <<>> /\ mq'[c] = Tail(mq[c])
         \/ IdsOf(c) # {},
         \A m \in Range(cq'[c]) :
           \/ m \in Range(cq[c])
           \/ /\ m.what \notin {"RESP_START_SCAN_OK", "RESP_STOP_SCAN_OK"}
              /\ m.what = "RESP_SCAN_ID_OK" => m.id \in IdsOf(c),
         AtMostOnce(cq'[c], "RESP_START_SCAN_OK"),
         \A id \in ScanIds : InMap(id)' /\ scans'[id].client = c => id \in IdsOf(c),
         WorkersGoOn
  PROVE  FieldOf(c)'
<1>1. /\ Among(mq'[c], {"RQST_START_SCAN"}) \subseteq Among(mq[c], {"RQST_START_SCAN"})
      /\ Among(mq'[c], {"RQST_STOP_SCAN"}) \subseteq Among(mq[c], {"RQST_STOP_SCAN"})
      /\ Among(mq'[c], {"RQST_START_SCAN", "RQST_STOP_SCAN"})
           \subseteq Among(mq[c], {"RQST_START_SCAN", "RQST_STOP_SCAN"})
      /\ Among(mq'[c], {"RQST_SCAN_ID"}) \subseteq Among(mq[c], {"RQST_SCAN_ID"})
      /\ Among(cq'[c], {"RESP_START_SCAN_OK"}) \subseteq Among(cq[c], {"RESP_START_SCAN_OK"})
      /\ Among(cq'[c], {"RESP_STOP_SCAN_OK"}) \subseteq Among(cq[c], {"RESP_STOP_SCAN_OK"})
  BY DEF Among
<1>2. \A m \in Among(cq'[c], {"RESP_SCAN_ID_OK", "RESP_START_SCAN_OK", "RESP_STOP_SCAN_OK"}) :
        m.id \in IdsOf(c)
  BY DEF Among, IdsOf, IdsIn
<1>3. \A m \in Among(mq'[c], {"RQST_START_SCAN", "RQST_STOP_SCAN"}) : m.id \in IdsOf(c)
  BY <1>1 DEF IdsOf, IdsIn
<1>4. IdsOf(c)' \subseteq IdsOf(c)
  <2>1. ASSUME NEW id \in IdsOf(c)' PROVE id \in IdsOf(c)
    <3>1. CASE id \in ScanIds /\ InMap(id)' /\ scans'[id].client = c
      BY <3>1
    <3>2. CASE \E m \in Among(mq'[c], {"RQST_START_SCAN", "RQST_STOP_SCAN"}) : id = m.id
      BY <3>2, <1>3
    <3>3. CASE \E m \in Among(cq'[c], {"RESP_SCAN_ID_OK", "RESP_START_SCAN_OK", "RESP_STOP_SCAN_OK"}) : id = m.id
      BY <3>3, <1>2
    <3>4. CASE id = scan'[c].id /\ id # NoId
      BY <3>4 DEF IdsOf
    <3> QED
      BY <2>1, <3>1, <3>2, <3>3, <3>4 DEF IdsOf, IdsIn, Among
  <2> QED
    BY <2>1
<1>5. Stopping(c)' \subseteq Stopping(c)
  BY <1>1 DEF Stopping, IdsIn, Among
<1>6. OneId(c)'
  <2>1. ASSUME starts[c] = 0 PROVE mq'[c] = <<>>
    <3>1. mq[c] = <<>> /\ IdsOf(c) = {}
      BY <2>1 DEF FieldOf, OneId
    <3> QED
      BY <3>1
  <2>2. ASSUME Among(mq'[c], {"RQST_SCAN_ID"}) # {}
        PROVE  Len(mq'[c]) = 1 /\ IdsOf(c) = {}
    <3>1. Len(mq[c]) = 1 /\ IdsOf(c) = {}
      BY <1>1, <2>2 DEF FieldOf, OneId
    <3>2. mq'[c] # <<>>
      BY <2>2, RangeOfEmpty DEF Among
    <3>3. mq[c] \in Seq(ToService)
      BY DEF IInv, TypeOK, CommTypeOK, Senders
    <3>4. mq'[c] # Tail(mq[c])
      <4>1. mq[c] # <<>>
        BY <3>1
      <4>2. Len(mq[c]) <= 1
        BY <3>1
      <4>3. Tail(mq[c]) = <<>>
        BY <3>3, <4>1, <4>2, TailOfOne
      <4> QED
        BY <3>2, <4>3
    <3> QED
      BY <3>1, <3>2, <3>4
  <2> QED
    BY <1>4, <2>1, <2>2 DEF FieldOf, OneId
<1>7. StartsAsAsked(c)'
  <2>1. \A m \in Among(mq[c], {"RQST_START_SCAN"}) : m.id \in ScanIds
    BY DEF IInv, GrantsHold, GrantHolds, Among
  <2> QED
    BY <1>1, <2>1 DEF FieldOf, StartsAsAsked, WorkersGoOn
<1>8. \A id, args : RunsWith(id, args) => RunsWith(id, args)'
  BY DEF RunsWith, WorkersGoOn
<1>9. ConfirmedOnce(c)'
  BY <1>1, <1>8 DEF FieldOf, ConfirmedOnce
<1>10. StopsWhatStarted(c)'
  BY <1>1, <1>5 DEF FieldOf, StopsWhatStarted, WorkersGoOn
<1> QED
  BY <1>6, <1>7, <1>8, <1>9, <1>10 DEF FieldOf

\* A step of the service that answers c nothing about an id, a start or a stop.
LEMMA ServiceKeepsField ==
  ASSUME IInv, TypeOK', NEW c \in Clients, FieldOf(c), UNCHANGED clientVars, gone' = gone,
         \/ mq'[c] \in {<<>>, mq[c]}
         \/ mq[c] # <<>> /\ mq'[c] = Tail(mq[c]),
         \/ cq'[c] = cq[c]
         \/ \E m : /\ cq'[c] = Append(cq[c], m)
                   /\ m.what \notin {"RESP_SCAN_ID_OK", "RESP_START_SCAN_OK", "RESP_STOP_SCAN_OK"},
         \A id \in ScanIds : InMap(id)' /\ scans'[id].client = c => id \in IdsOf(c),
         WorkersGoOn
  PROVE  FieldOf(c)'
<1>1. mq[c] \in Seq(ToService) /\ cq[c] \in Seq(ToActivity)
  BY DEF IInv, TypeOK, CommTypeOK, Senders
<1>2. starts'[c] = starts[c] /\ scan'[c] = scan[c]
  BY DEF clientVars
<1>3. \A m \in Range(mq'[c]) : m \in Range(mq[c])
  BY <1>1, RangeOfTail, RangeOfEmpty
<1>4. AtMostOnce(cq[c], "RESP_START_SCAN_OK")
  BY DEF FieldOf, ConfirmedOnce
<1>5. CASE cq'[c] = cq[c]
  BY <1>2, <1>3, <1>4, <1>5, FieldKept
<1>6. CASE \E m : /\ cq'[c] = Append(cq[c], m)
                  /\ m.what \notin {"RESP_SCAN_ID_OK", "RESP_START_SCAN_OK", "RESP_STOP_SCAN_OK"}
  <2>1. PICK m : /\ cq'[c] = Append(cq[c], m)
                 /\ m.what \notin {"RESP_SCAN_ID_OK", "RESP_START_SCAN_OK", "RESP_STOP_SCAN_OK"}
    BY <1>6
  <2>2. AtMostOnce(cq'[c], "RESP_START_SCAN_OK")
    <3>1. AtMostOnce(Append(cq[c], m), "RESP_START_SCAN_OK")
      BY <1>1, <1>4, <2>1, OnceAppend
    <3> QED
      BY <2>1, <3>1
  <2>3. \A n \in Range(cq'[c]) : n \in Range(cq[c]) \/ n = m
    <3>1. \A i \in 1..Len(cq[c]) + 1 : cq'[c][i] = IF i <= Len(cq[c]) THEN cq[c][i] ELSE m
      BY <1>1, <2>1
    <3>2. DOMAIN cq'[c] = 1..Len(cq[c]) + 1 /\ DOMAIN cq[c] = 1..Len(cq[c]) /\ Len(cq[c]) \in Nat
      BY <1>1, <2>1
    <3> QED
      BY <3>1, <3>2 DEF Range
  <2> QED
    BY <1>2, <1>3, <2>1, <2>2, <2>3, FieldKept
<1> QED
  BY <1>5, <1>6

\* The life cycle of the service.
LEMMA LifeCycleField ==
  ASSUME IInv, TypeOK', LifeCycle, NEW c \in Clients, FieldOf(c)
  PROVE  FieldOf(c)'
<1>1. UNCHANGED clientVars /\ c \in Senders
  BY DEF LifeCycle, Senders
<1>2. \A id \in ScanIds : InMap(id) /\ scans[id].client = c => id \in IdsOf(c)
  BY DEF IdsOf
<1> NmapTypeOK
  BY DEF IInv, TypeOK
<1>3. ASSUME NEW why, Dies(why) PROVE FieldOf(c)'
  <2>1. mq'[c] = <<>> /\ UNCHANGED <<cq, gone>>
    BY <1>1, <1>3 DEF Dies
  <2>2. \A id \in ScanIds : ~InMap(id)'
    <3>1. \A id \in ScanIds : scans'[id] = NoScan
      BY <1>3 DEF Dies, Leave, MapIds, InMap
    <3> QED
      BY <3>1 DEF InMap, NoScan
  <2>3. WorkersGoOn
    BY <1>3, DiesGoesOn
  <2> QED
    BY <1>1, <2>1, <2>2, <2>3, ServiceKeepsField
<1>4. CASE OnCreate \/ OnBind \/ OnUnbind
  <2>1. UNCHANGED <<mq, cq, gone, scans, worker>>
    BY <1>4 DEF OnCreate, OnBind, OnUnbind, BindDue, UnbindDue, workerVars, commVars, serviceVars
  <2>2. \A id \in ScanIds : InMap(id)' <=> InMap(id)
    BY <2>1 DEF InMap, NoScan
  <2> QED
    BY <1>1, <1>2, <2>1, <2>2, SameGoesOn, ServiceKeepsField
<1>5. CASE OnDestroy /\ ~Dies("onDestroy")
  <2>1. /\ Cancel(MapOf(incarnation)) /\ Leave(MapOf(incarnation), "cleared")
        /\ UNCHANGED <<mq, cq, gone>>
    BY <1>5 DEF OnDestroy, commVars
  <2>2. \A id \in ScanIds : InMap(id)' /\ scans'[id].client = c => id \in IdsOf(c)
    <3>1. \A id \in ScanIds : scans'[id] = NoScan \/ scans'[id] = scans[id]
      BY <2>1 DEF Leave
    <3> QED
      BY <3>1 DEF InMap, NoScan, IdsOf
  <2>3. WorkersGoOn
    BY <2>1, CancelGoesOn
  <2> QED
    BY <1>1, <2>1, <2>2, <2>3, ServiceKeepsField
<1> QED
  BY <1>3, <1>4, <1>5 DEF LifeCycle, ProcessLost

\* The Runnables.
LEMMA PoolField ==
  ASSUME IInv, TypeOK', Pool, NEW c \in Clients, FieldOf(c)
  PROVE  FieldOf(c)'
<1>1. UNCHANGED clientVars /\ UNCHANGED <<cq, gone, scans>>
  BY DEF Pool, RunNmap, AcquireRoot, SetupNative, serviceVars
<1>2. /\ c \in Senders /\ c \notin ScanIds
      /\ \A s \in Services : Root(s) # c /\ Setup(s) # c
  BY SendersDistinct
<1>3. NmapTypeOK /\ mq \in [Senders -> Seq(ToService)]
  BY DEF IInv, TypeOK, CommTypeOK
<1>4. ASSUME NEW x, x # c, NEW m, mq' = [mq EXCEPT ![x] = m] PROVE mq'[c] = mq[c]
  BY <1>2, <1>3, <1>4
<1>5. ASSUME NEW x, x # c, NEW s, NEW what, NEW id, NEW arg, Post(x, s, what, id, arg)
      PROVE  mq'[c] = mq[c]
  BY <1>4, <1>5 DEF Post
<1>6. mq'[c] = mq[c]
  <2>1. ASSUME NEW s \in Services, AcquireRoot(s) PROVE mq'[c] = mq[c]
    BY <2>1, <1>2, <1>5 DEF AcquireRoot
  <2>2. ASSUME NEW s \in Services, SetupNative(s) PROVE mq'[c] = mq[c]
    BY <2>2, <1>2, <1>5 DEF SetupNative
  <2>3. ASSUME NEW id \in ScanIds, RunNmap(id) PROVE mq'[c] = mq[c]
    <3>1. id # c
      BY <1>2
    <3>2. mq' = mq \/ TellService(id, "NOTIFY_SCAN_PROBLEM") \/ TellService(id, "NOTIFY_SCAN_FINISHED")
      BY <2>3 DEF RunNmap, RunWithoutArguments, ExecFails, ExecScan, WriteFails, ReadChunk, ReadEnd,
         ReadFails, ReportUnlessInterrupted
    <3> QED
      BY <1>5, <3>1, <3>2 DEF TellService
  <2> QED
    BY <2>1, <2>2, <2>3 DEF Pool
<1>7. WorkersGoOn
  <2>1. ASSUME NEW s \in Services, AcquireRoot(s) \/ SetupNative(s) PROVE WorkersGoOn
    BY <2>1, SameGoesOn DEF AcquireRoot, SetupNative
  <2> QED
    BY <2>1, <1>3, RunnableGoesOn DEF Pool
<1>8. \A id \in ScanIds : InMap(id)' /\ scans'[id].client = c => id \in IdsOf(c)
  <2>1. \A id \in ScanIds : InMap(id)' <=> InMap(id)
    BY <1>1 DEF InMap, NoScan
  <2> QED
    BY <1>1, <2>1 DEF IdsOf
<1> QED
  BY <1>1, <1>6, <1>7, <1>8, ServiceKeepsField

\* Telling an activity that lives is a message to it and no other.
LEMMA TellActivityAt ==
  ASSUME CommTypeOK, NEW c \in Clients, NEW d, NEW what, NEW id, NEW arg,
         TellActivity(d, what, id, arg)
  PROVE  IF d # c \/ d \in gone THEN cq'[c] = cq[c]
         ELSE cq'[c] = Append(cq[c], Msg(what, id, arg))
BY DEF TellActivity, CommTypeOK

\* What a handler of a message of sender s leaves to activity c.
LEMMA HandlerKeepsField ==
  ASSUME IInv, TypeOK', NEW s \in Senders, NEW c \in Clients, FieldOf(c), UNCHANGED clientVars,
         mq[s] # <<>>, Consume(s),
         \/ cq'[c] = cq[c]
         \/ \E m : /\ cq'[c] = Append(cq[c], m)
                   /\ m.what \notin {"RESP_SCAN_ID_OK", "RESP_START_SCAN_OK", "RESP_STOP_SCAN_OK"},
         \A id \in ScanIds : InMap(id)' /\ scans'[id].client = c => id \in IdsOf(c),
         WorkersGoOn
  PROVE  FieldOf(c)'
<1>1. CommTypeOK /\ c \in Senders
  BY DEF IInv, TypeOK, Senders
<1>2. (mq[c] # <<>> /\ mq'[c] = Tail(mq[c])) \/ mq'[c] = mq[c]
  BY <1>1, ConsumeEffect
<1>3. gone' = gone
  BY DEF Consume
<1> QED
  BY <1>2, <1>3, ServiceKeepsField

\* RQST_SCAN_ID of an activity: the id it is given is its only one.
LEMMA RqstScanIdField ==
  ASSUME IInv, TypeOK', NEW d \in Clients, RqstScanId(d), UNCHANGED clientVars,
         NEW c \in Clients, FieldOf(c)
  PROVE  FieldOf(c)'
<1> TypeOK /\ CommTypeOK /\ ScanTypeOK
  BY DEF IInv, TypeOK
<1>1. d \in Senders /\ c \in Senders
  BY DEF Senders
<1>2. mq[d] # <<>> /\ Consume(d) /\ Head(mq[d]) \in Range(mq[d]) /\ Head(mq[d]).what = "RQST_SCAN_ID"
  BY <1>1, HandlesEffect DEF RqstScanId, Handles, IsNext
<1>3. PICK id \in ScanIds : /\ scans' = [scans EXCEPT ![id] = Scan(d)]
                            /\ TellActivity(d, "RESP_SCAN_ID_OK", id, 0) \/ cq' = cq
  BY DEF RqstScanId
<1>4. \A i \in ScanIds : scans'[i] = IF i = id THEN Scan(d) ELSE scans[i]
  BY <1>3 DEF ScanTypeOK
<1>5. WorkersGoOn
  BY SameGoesOn DEF RqstScanId
<1>6. \A i \in ScanIds : InMap(i)' /\ scans'[i].client = c => (i = id /\ d = c) \/ (InMap(i) /\ scans[i].client = c)
  BY <1>4 DEF InMap, NoScan, Scan
<1>7. CASE d # c
  <2>1. cq'[c] = cq[c]
    BY <1>3, <1>7, TellActivityAt
  <2>2. \A i \in ScanIds : InMap(i)' /\ scans'[i].client = c => i \in IdsOf(c)
    BY <1>6, <1>7 DEF IdsOf
  <2> QED
    BY <1>1, <1>2, <1>5, <2>1, <2>2, HandlerKeepsField
<1>8. CASE d = c
  <2>1. Len(mq[c]) = 1 /\ IdsOf(c) = {}
    BY <1>2, <1>8 DEF FieldOf, OneId, Among
  <2>2. mq'[c] = <<>> /\ gone' = gone
    <3>1. mq'[c] = Tail(mq[c]) /\ mq[c] \in Seq(ToService) /\ Len(mq[c]) <= 1
      BY <1>1, <1>2, <1>8, <2>1, ConsumeEffect DEF CommTypeOK
    <3>2. gone' = gone
      BY <1>2 DEF Consume
    <3> QED
      BY <1>2, <1>8, <3>1, <3>2, TailOfOne
  <2>3. Among(mq'[c], {"RQST_START_SCAN", "RQST_STOP_SCAN"}) = {} /\ Among(mq'[c], {"RQST_SCAN_ID"}) = {}
        /\ Among(mq'[c], {"RQST_START_SCAN"}) = {} /\ Among(mq'[c], {"RQST_STOP_SCAN"}) = {}
    BY <2>2, RangeOfEmpty DEF Among
  <2>4. \A m \in Range(cq'[c]) : m \in Range(cq[c]) \/ (m.what = "RESP_SCAN_ID_OK" /\ m.id = id)
    BY <1>3, TellActivityEffect
  <2>5. \A m \in Range(cq[c]) : m.what \notin {"RESP_SCAN_ID_OK", "RESP_START_SCAN_OK", "RESP_STOP_SCAN_OK"}
    BY <2>1 DEF IdsOf, IdsIn, Among
  <2>6. scan'[c] = scan[c] /\ starts'[c] = starts[c] /\ scan[c].id = NoId
    BY <2>1 DEF clientVars, IdsOf
  <2>7. \A i \in ScanIds : ~(InMap(i) /\ scans[i].client = c)
    BY <2>1 DEF IdsOf
  <2>8. Among(cq'[c], {"RESP_START_SCAN_OK"}) = {} /\ Among(cq'[c], {"RESP_STOP_SCAN_OK"}) = {}
    BY <2>4, <2>5 DEF Among
  <2>9. IdsOf(c)' \subseteq {id}
    <3>1. \A m \in Among(cq'[c], {"RESP_SCAN_ID_OK", "RESP_START_SCAN_OK", "RESP_STOP_SCAN_OK"}) : m.id = id
      BY <2>4, <2>5 DEF Among
    <3>2. {i \in ScanIds : InMap(i)' /\ scans'[i].client = c} \subseteq {id}
      BY <1>6, <2>7
    <3> QED
      BY <2>3, <2>6, <3>1, <3>2 DEF IdsOf, IdsIn
  <2>10. starts[c] # 0
    BY <1>2, <1>8 DEF FieldOf, OneId
  <2>11. OneId(c)'
    BY <2>2, <2>3, <2>6, <2>9, <2>10 DEF OneId
  <2>12. StartsAsAsked(c)'
    BY <2>3 DEF StartsAsAsked
  <2>13. AtMostOnce(cq'[c], "RESP_START_SCAN_OK")
    <3>1. cq'[c] \in Seq(ToActivity)
      BY DEF TypeOK, CommTypeOK
    <3>2. DOMAIN cq'[c] = 1..Len(cq'[c])
      BY <3>1
    <3>3. \A i \in 1..Len(cq'[c]) : cq'[c][i] \in Range(cq'[c])
      BY <3>2 DEF Range
    <3> QED
      BY <2>8, <3>3 DEF AtMostOnce, Among
  <2>14. ConfirmedOnce(c)'
    BY <2>8, <2>13 DEF ConfirmedOnce
  <2>15. StopsWhatStarted(c)'
    BY <2>3, <2>8 DEF StopsWhatStarted, Stopping, IdsIn
  <2>16. ~scan[c].started
    <3>1. scan[c].id \notin ScanIds
      BY <2>6, NoIdAssumption
    <3> QED
      BY <3>1 DEF FieldOf, RunsWith
  <2> QED
    BY <2>6, <2>11, <2>12, <2>14, <2>15, <2>16 DEF FieldOf
<1> QED
  BY <1>7, <1>8

\* A handler that answers c nothing about its scan may still hand a Scan object to
\* the activity whose message names it.
LEMMA HandedOver ==
  ASSUME ScanTypeOK, NEW d \in Clients, NEW id, id \in ScanIds => id \in IdsOf(d),
         NEW c \in Clients, NEW s,
         scans' = IF Known(s, id) THEN [scans EXCEPT ![id].client = d] ELSE scans
  PROVE  \A i \in ScanIds : InMap(i)' /\ scans'[i].client = c => i \in IdsOf(c)
<1>1. CASE ~Known(s, id)
  <2>1. scans' = scans
    BY <1>1
  <2> QED
    BY <2>1 DEF InMap, NoScan, IdsOf
<1>2. CASE Known(s, id)
  <2>1. /\ id \in ScanIds
        /\ \A i \in ScanIds : scans'[i] = IF i = id THEN [scans[id] EXCEPT !.client = d] ELSE scans[i]
    BY <1>2 DEF ScanTypeOK, Known, MapOf, MapIds
  <2>2. [scans[id] EXCEPT !.client = d].client = d
    BY <1>2 DEF ScanTypeOK, Known, MapOf, MapIds, InMap, NoScan
  <2>3. ASSUME NEW i \in ScanIds, InMap(i)', scans'[i].client = c PROVE i \in IdsOf(c)
    <3>1. CASE i = id
      BY <2>1, <2>2, <2>3, <3>1
    <3>2. CASE i # id
      BY <2>1, <2>3, <3>2 DEF InMap, NoScan, IdsOf
    <3> QED
      BY <3>1, <3>2
  <2> QED
    BY <2>3
<1> QED
  BY <1>1, <1>2

\* RQST_START_SCAN of an activity: its scan is submitted with the arguments in its
\* field, and confirmed.
LEMMA RqstStartScanField ==
  ASSUME IInv, TypeOK', NEW d \in Clients, RqstStartScan(d), UNCHANGED clientVars,
         NEW c \in Clients, FieldOf(c)
  PROVE  FieldOf(c)'
<1> TypeOK /\ CommTypeOK /\ ScanTypeOK /\ NmapTypeOK
  BY DEF IInv, TypeOK
<1>1. d \in Senders /\ c \in Senders
  BY DEF Senders
<1>2. PICK m \in ToService : m = Head(mq[d])
  BY <1>1, HandlesEffect DEF RqstStartScan
<1>3. mq[d] # <<>> /\ Consume(d) /\ m \in Range(mq[d]) /\ m.what = "RQST_START_SCAN"
  BY <1>2, <1>1, HandlesEffect DEF RqstStartScan, Handles, IsNext
<1>4. m \in Among(mq[d], {"RQST_START_SCAN"}) /\ m.id \in IdsOf(d) /\ m.id \in ScanIds
  <2>1. m \in Among(mq[d], {"RQST_START_SCAN"}) /\ m \in Among(mq[d], {"RQST_START_SCAN", "RQST_STOP_SCAN"})
    BY <1>3 DEF Among
  <2> QED
    BY <1>3, <2>1 DEF IdsOf, IdsIn, IInv, GrantsHold, GrantHolds
<1> DEFINE s == Addressed(d)
<1> HIDE DEF s
<1>5. CASE ~(Known(s, m.id) /\ ~scans[m.id].started)
  <2>1. /\ scans' = IF Known(s, m.id) THEN [scans EXCEPT ![m.id].client = d] ELSE scans
        /\ TellActivity(d, "RESP_START_SCAN_ERR", m.id, 0)
        /\ worker' = worker
    BY <1>2, <1>5 DEF RqstStartScan, s
  <2>2. cq'[c] = cq[c] \/ cq'[c] = Append(cq[c], Msg("RESP_START_SCAN_ERR", m.id, 0))
    BY <2>1, TellActivityAt
  <2>3. Msg("RESP_START_SCAN_ERR", m.id, 0).what = "RESP_START_SCAN_ERR"
    BY DEF Msg
  <2>4. \A i \in ScanIds : InMap(i)' /\ scans'[i].client = c => i \in IdsOf(c)
    BY <1>4, <2>1, HandedOver
  <2>5. WorkersGoOn
    BY <2>1, SameGoesOn
  <2> QED
    BY <1>1, <1>3, <2>2, <2>3, <2>4, <2>5, HandlerKeepsField
<1>6. CASE Known(s, m.id) /\ ~scans[m.id].started
  <2>1. /\ Submit(m.id, m.arg, rootAccess[s])
        /\ scans' = [scans EXCEPT ![m.id] = [Scan(d) EXCEPT !.started = TRUE]]
        /\ TellActivity(d, "RESP_START_SCAN_OK", m.id, 0)
    BY <1>2, <1>6 DEF RqstStartScan, s
  <2>2. WorkersGoOn /\ worker[m.id].pc = "idle" /\ worker'[m.id].pc # "idle" /\ worker'[m.id].args = m.arg
    BY <1>6, <2>1, SubmitGoesOn DEF Known, MapOf, MapIds
  <2>3. \A i \in ScanIds : scans'[i] = IF i = m.id THEN [Scan(d) EXCEPT !.started = TRUE] ELSE scans[i]
    BY <2>1 DEF ScanTypeOK
  <2>4. [Scan(d) EXCEPT !.started = TRUE].client = d
    BY DEF Scan
  <2>5. \A i \in ScanIds : InMap(i)' /\ scans'[i].client = c => i \in IdsOf(c)
    <3>1. ASSUME NEW i \in ScanIds, InMap(i)', scans'[i].client = c PROVE i \in IdsOf(c)
      <4>1. CASE i = m.id
        BY <1>4, <2>3, <2>4, <3>1, <4>1
      <4>2. CASE i # m.id
        BY <2>3, <3>1, <4>2 DEF InMap, NoScan, IdsOf
      <4> QED
        BY <4>1, <4>2
    <3> QED
      BY <3>1
  <2>6. CASE d # c \/ d \in gone
    <3>1. cq'[c] = cq[c]
      BY <2>1, <2>6, TellActivityAt
    <3> QED
      BY <1>1, <1>3, <2>2, <2>5, <3>1, HandlerKeepsField
  <2>7. CASE d = c /\ c \notin gone
    <3> DEFINE ok == Msg("RESP_START_SCAN_OK", m.id, 0)
    <3>1. cq'[c] = Append(cq[c], ok) /\ ok.what = "RESP_START_SCAN_OK" /\ ok.id = m.id
      BY <2>1, <2>7, TellActivityAt DEF Msg
    <3> HIDE DEF ok
    <3>2. m.id = scan[c].id /\ m.arg = scan[c].args
      BY <1>4, <2>2, <2>7 DEF FieldOf, StartsAsAsked
    <3>3. scan'[c] = scan[c] /\ starts'[c] = starts[c] /\ gone' = gone
      BY <1>3 DEF clientVars, Consume
    <3>4. cq[c] \in Seq(ToActivity) /\ mq[c] \in Seq(ToService)
      BY <1>1 DEF CommTypeOK
    <3>5. Range(cq'[c]) = Range(cq[c]) \cup {ok}
      BY <3>1, <3>4, RangeOfAppend
    <3>6. Range(mq'[c]) \subseteq Range(mq[c]) /\ mq'[c] = Tail(mq[c])
      BY <1>1, <1>3, <2>7, ConsumeEffect
    <3>7. /\ Among(mq'[c], {"RQST_START_SCAN"}) \subseteq Among(mq[c], {"RQST_START_SCAN"})
          /\ Among(mq'[c], {"RQST_STOP_SCAN"}) \subseteq Among(mq[c], {"RQST_STOP_SCAN"})
          /\ Among(mq'[c], {"RQST_START_SCAN", "RQST_STOP_SCAN"})
               \subseteq Among(mq[c], {"RQST_START_SCAN", "RQST_STOP_SCAN"})
          /\ Among(mq'[c], {"RQST_SCAN_ID"}) \subseteq Among(mq[c], {"RQST_SCAN_ID"})
          /\ Among(cq'[c], {"RESP_STOP_SCAN_OK"}) \subseteq Among(cq[c], {"RESP_STOP_SCAN_OK"})
      BY <3>1, <3>5, <3>6 DEF Among
    <3>8. IdsOf(c)' \subseteq IdsOf(c)
      <4>1. ASSUME NEW i \in IdsOf(c)' PROVE i \in IdsOf(c)
        <5>1. CASE \E n \in Among(mq'[c], {"RQST_START_SCAN", "RQST_STOP_SCAN"}) : i = n.id
          BY <3>7, <5>1 DEF IdsOf, IdsIn
        <5>2. CASE \E n \in Among(cq'[c], {"RESP_SCAN_ID_OK", "RESP_START_SCAN_OK", "RESP_STOP_SCAN_OK"}) : i = n.id
          BY <1>4, <2>7, <3>1, <3>5, <5>2 DEF IdsOf, IdsIn, Among
        <5>3. CASE i = scan'[c].id /\ i # NoId
          BY <3>3, <5>3 DEF IdsOf
        <5> QED
          BY <2>5, <4>1, <5>1, <5>2, <5>3 DEF IdsOf, IdsIn
      <4> QED
        BY <4>1
    <3>9. starts[c] # 0 /\ Among(mq[c], {"RQST_SCAN_ID"}) = {}
      BY <1>4, <2>7 DEF FieldOf, OneId
    <3>10. OneId(c)'
      BY <3>3, <3>7, <3>8, <3>9 DEF FieldOf, OneId
    <3>11. StartsAsAsked(c)'
      <4>1. \A n \in Among(mq[c], {"RQST_START_SCAN"}) : n.id \in ScanIds
        BY DEF IInv, GrantsHold, GrantHolds, Among
      <4> QED
        BY <2>2, <3>3, <3>7, <4>1 DEF FieldOf, StartsAsAsked, WorkersGoOn
    <3>12. Among(cq[c], {"RESP_START_SCAN_OK"}) = {}
      <4>1. \A n \in Among(cq[c], {"RESP_START_SCAN_OK"}) : n.id = scan[c].id /\ worker[n.id].pc # "idle"
        BY DEF FieldOf, ConfirmedOnce, RunsWith
      <4> QED
        BY <2>2, <3>2, <4>1
    <3>13. ConfirmedOnce(c)'
      <4>1. AtMostOnce(cq'[c], "RESP_START_SCAN_OK")
        <5>1. AtMostOnce(cq[c], "RESP_START_SCAN_OK")
          BY DEF FieldOf, ConfirmedOnce
        <5>2. AtMostOnce(Append(cq[c], ok), "RESP_START_SCAN_OK")
          BY <3>4, <3>12, <5>1, OnceAppend
        <5> QED
          BY <3>1, <5>2
      <4>2. \A n \in Among(cq'[c], {"RESP_START_SCAN_OK"}) : n = ok
        BY <3>5, <3>12 DEF Among
      <4>3. RunsWith(m.id, scan[c].args)'
        BY <1>4, <2>2, <3>2, <3>3 DEF RunsWith
      <4> QED
        BY <3>1, <3>2, <3>3, <4>1, <4>2, <4>3 DEF ConfirmedOnce
    <3>14. ~scan[c].started /\ Stopping(c) = {}
      <4>1. ~scan[c].started
        BY <2>2, <3>2 DEF FieldOf, RunsWith
      <4>2. Stopping(c) \subseteq IdsOf(c)
        BY DEF Stopping, IdsOf, IdsIn, Among
      <4>3. \A i \in Stopping(c) : i = m.id
        BY <1>4, <2>7, <4>2 DEF FieldOf, OneId
      <4> QED
        BY <2>2, <4>1, <4>3 DEF FieldOf, StopsWhatStarted
    <3>15. StopsWhatStarted(c)'
      <4>1. Stopping(c)' = {}
        BY <3>7, <3>14 DEF Stopping, IdsIn
      <4> QED
        BY <3>3, <3>14, <4>1 DEF StopsWhatStarted
    <3> QED
      BY <3>3, <3>10, <3>11, <3>13, <3>14, <3>15 DEF FieldOf
  <2> QED
    BY <2>6, <2>7
<1> QED
  BY <1>5, <1>6

\* RQST_STOP_SCAN of an activity: what is stopped was started and confirmed.
LEMMA RqstStopScanField ==
  ASSUME IInv, TypeOK', NEW d \in Clients, RqstStopScan(d), UNCHANGED clientVars,
         NEW c \in Clients, FieldOf(c)
  PROVE  FieldOf(c)'
<1> TypeOK /\ CommTypeOK /\ ScanTypeOK /\ NmapTypeOK
  BY DEF IInv, TypeOK
<1>1. d \in Senders /\ c \in Senders
  BY DEF Senders
<1>2. PICK m \in ToService : m = Head(mq[d])
  BY <1>1, HandlesEffect DEF RqstStopScan
<1>3. mq[d] # <<>> /\ Consume(d) /\ m \in Range(mq[d]) /\ m.what = "RQST_STOP_SCAN"
  BY <1>1, <1>2, HandlesEffect DEF RqstStopScan, Handles, IsNext
<1>4. m \in Among(mq[d], {"RQST_STOP_SCAN"}) /\ m.id \in IdsOf(d) /\ m.id \in Stopping(d)
  <2>1. m \in Among(mq[d], {"RQST_STOP_SCAN"}) /\ m \in Among(mq[d], {"RQST_START_SCAN", "RQST_STOP_SCAN"})
    BY <1>3 DEF Among
  <2> QED
    BY <2>1 DEF IdsOf, IdsIn, Stopping
<1> DEFINE s == Addressed(d)
<1> HIDE DEF s
<1>5. CASE ~(Known(s, m.id) /\ scans[m.id].started)
  <2>1. /\ scans' = IF Known(s, m.id) THEN [scans EXCEPT ![m.id].client = d] ELSE scans
        /\ TellActivity(d, "RESP_STOP_SCAN_ERR", m.id, 0)
        /\ worker' = worker
    BY <1>2, <1>5 DEF RqstStopScan, s
  <2>2. cq'[c] = cq[c] \/ cq'[c] = Append(cq[c], Msg("RESP_STOP_SCAN_ERR", m.id, 0))
    BY <2>1, TellActivityAt
  <2>3. Msg("RESP_STOP_SCAN_ERR", m.id, 0).what = "RESP_STOP_SCAN_ERR"
    BY DEF Msg
  <2>4. \A i \in ScanIds : InMap(i)' /\ scans'[i].client = c => i \in IdsOf(c)
    BY <1>4, <2>1, HandedOver
  <2>5. WorkersGoOn
    BY <2>1, SameGoesOn
  <2> QED
    BY <1>1, <1>3, <2>2, <2>3, <2>4, <2>5, HandlerKeepsField
<1>6. CASE Known(s, m.id) /\ scans[m.id].started
  <2>1. Cancel({m.id}) /\ Leave({m.id}, "stopped") /\ TellActivity(d, "RESP_STOP_SCAN_OK", m.id, 0)
    BY <1>2, <1>6 DEF RqstStopScan, s
  <2>2. WorkersGoOn
    BY <2>1, CancelGoesOn
  <2>3. \A i \in ScanIds : scans'[i] = IF i = m.id THEN NoScan ELSE scans[i]
    BY <2>1 DEF Leave
  <2>4. \A i \in ScanIds : InMap(i)' /\ scans'[i].client = c => i \in IdsOf(c)
    BY <2>3 DEF InMap, NoScan, IdsOf
  <2>5. CASE d # c \/ d \in gone
    <3>1. cq'[c] = cq[c]
      BY <2>1, <2>5, TellActivityAt
    <3> QED
      BY <1>1, <1>3, <2>2, <2>4, <3>1, HandlerKeepsField
  <2>6. CASE d = c /\ c \notin gone
    <3> DEFINE ok == Msg("RESP_STOP_SCAN_OK", m.id, 0)
    <3>1. cq'[c] = Append(cq[c], ok) /\ ok.what = "RESP_STOP_SCAN_OK" /\ ok.id = m.id
      BY <2>1, <2>6, TellActivityAt DEF Msg
    <3> HIDE DEF ok
    <3>2. scan'[c] = scan[c] /\ starts'[c] = starts[c] /\ gone' = gone
      BY <1>3 DEF clientVars, Consume
    <3>3. cq[c] \in Seq(ToActivity) /\ mq[c] \in Seq(ToService)
      BY <1>1 DEF CommTypeOK
    <3>4. Range(cq'[c]) = Range(cq[c]) \cup {ok}
      BY <3>1, <3>3, RangeOfAppend
    <3>5. Range(mq'[c]) \subseteq Range(mq[c])
      BY <1>1, <1>3, <2>6, ConsumeEffect
    <3>6. /\ Among(mq'[c], {"RQST_START_SCAN"}) \subseteq Among(mq[c], {"RQST_START_SCAN"})
          /\ Among(mq'[c], {"RQST_STOP_SCAN"}) \subseteq Among(mq[c], {"RQST_STOP_SCAN"})
          /\ Among(mq'[c], {"RQST_START_SCAN", "RQST_STOP_SCAN"})
               \subseteq Among(mq[c], {"RQST_START_SCAN", "RQST_STOP_SCAN"})
          /\ Among(mq'[c], {"RQST_SCAN_ID"}) \subseteq Among(mq[c], {"RQST_SCAN_ID"})
          /\ Among(cq'[c], {"RESP_START_SCAN_OK"}) \subseteq Among(cq[c], {"RESP_START_SCAN_OK"})
      BY <3>1, <3>4, <3>5 DEF Among
    <3>7. IdsOf(c)' \subseteq IdsOf(c)
      <4>1. ASSUME NEW i \in IdsOf(c)' PROVE i \in IdsOf(c)
        <5>1. CASE \E n \in Among(mq'[c], {"RQST_START_SCAN", "RQST_STOP_SCAN"}) : i = n.id
          BY <3>6, <5>1 DEF IdsOf, IdsIn
        <5>2. CASE \E n \in Among(cq'[c], {"RESP_SCAN_ID_OK", "RESP_START_SCAN_OK", "RESP_STOP_SCAN_OK"}) : i = n.id
          BY <1>4, <2>6, <3>1, <3>4, <5>2 DEF IdsOf, IdsIn, Among
        <5>3. CASE i = scan'[c].id /\ i # NoId
          BY <3>2, <5>3 DEF IdsOf
        <5> QED
          BY <2>4, <4>1, <5>1, <5>2, <5>3 DEF IdsOf, IdsIn
      <4> QED
        BY <4>1
    <3>8. starts[c] # 0 /\ Among(mq[c], {"RQST_SCAN_ID"}) = {}
      BY <1>4, <2>6 DEF FieldOf, OneId
    <3>9. OneId(c)'
      BY <3>2, <3>6, <3>7, <3>8 DEF FieldOf, OneId
    <3>10. StartsAsAsked(c)'
      <4>1. \A n \in Among(mq[c], {"RQST_START_SCAN"}) : n.id \in ScanIds
        BY DEF IInv, GrantsHold, GrantHolds, Among
      <4> QED
        BY <2>2, <3>2, <3>6, <4>1 DEF FieldOf, StartsAsAsked, WorkersGoOn
    <3>11. \A id, args : RunsWith(id, args) => RunsWith(id, args)'
      BY <2>2 DEF RunsWith, WorkersGoOn
    <3>12. Among(cq[c], {"RESP_START_SCAN_OK"}) = {}
      BY <1>4, <2>6 DEF FieldOf, StopsWhatStarted
    <3>13. ConfirmedOnce(c)'
      <4>1. AtMostOnce(cq'[c], "RESP_START_SCAN_OK")
        <5>1. AtMostOnce(cq[c], "RESP_START_SCAN_OK")
          BY DEF FieldOf, ConfirmedOnce
        <5>2. AtMostOnce(Append(cq[c], ok), "RESP_START_SCAN_OK")
          BY <3>3, <3>12, <5>1, OnceAppend
        <5> QED
          BY <3>1, <5>2
      <4> QED
        BY <3>6, <3>12, <4>1 DEF ConfirmedOnce
    <3>14. StopsWhatStarted(c)'
      <4>1. \A i \in Stopping(c)' : i \in Stopping(c)
        BY <1>4, <2>6, <3>1, <3>4, <3>6 DEF Stopping, IdsIn, Among
      <4>2. Among(cq'[c], {"RESP_START_SCAN_OK"}) = {}
        BY <3>6, <3>12
      <4> QED
        BY <2>2, <4>1, <4>2 DEF FieldOf, StopsWhatStarted, WorkersGoOn
    <3> QED
      BY <3>2, <3>9, <3>10, <3>11, <3>13, <3>14 DEF FieldOf
  <2> QED
    BY <2>5, <2>6
<1> QED
  BY <1>5, <1>6

\* RQST_RESULTS, of any activity.
LEMMA RqstResultsField ==
  ASSUME IInv, TypeOK', NEW d \in Clients, RqstResults(d), UNCHANGED clientVars,
         NEW c \in Clients, FieldOf(c)
  PROVE  FieldOf(c)'
<1> TypeOK /\ CommTypeOK /\ ScanTypeOK
  BY DEF IInv, TypeOK
<1>1. d \in Senders
  BY DEF Senders
<1>2. PICK id : id = Head(mq[d]).id
  OBVIOUS
<1> DEFINE s == Addressed(d)
<1> HIDE DEF s
<1>3. mq[d] # <<>> /\ Consume(d) /\ worker' = worker
  BY DEF RqstResults, Handles, IsNext
<1>4. \E what \in {"RESP_RESULTS_OK", "RESP_RESULTS_ERR"} : \E to, arg : TellActivity(to, what, id, arg)
  <2>1. CASE Known(s, id) /\ scans[id].started
    <3>1. TellActivity(scans[id].client, "RESP_RESULTS_OK", id, worker[id].out)
      BY <1>2, <2>1 DEF RqstResults, s
    <3> QED
      BY <3>1
  <2>2. CASE ~(Known(s, id) /\ scans[id].started)
    <3>1. TellActivity(IF Known(s, id) THEN scans[id].client ELSE d, "RESP_RESULTS_ERR", id, 0)
      BY <1>2, <2>2 DEF RqstResults, s
    <3> QED
      BY <3>1
  <2> QED
    BY <2>1, <2>2
<1>5. cq'[c] = cq[c] \/ \E m : /\ cq'[c] = Append(cq[c], m)
                               /\ m.what \notin {"RESP_SCAN_ID_OK", "RESP_START_SCAN_OK", "RESP_STOP_SCAN_OK"}
  <2>1. PICK what \in {"RESP_RESULTS_OK", "RESP_RESULTS_ERR"} : \E to, arg : TellActivity(to, what, id, arg)
    BY <1>4
  <2>2. PICK to, arg : TellActivity(to, what, id, arg)
    BY <2>1
  <2>3. cq'[c] = cq[c] \/ cq'[c] = Append(cq[c], Msg(what, id, arg))
    BY <2>2, TellActivityAt
  <2>4. Msg(what, id, arg).what = what
    BY DEF Msg
  <2> QED
    BY <2>3, <2>4
<1>6. scans' = scans \/ scans' = [scans EXCEPT ![id] = NoScan]
  BY <1>2 DEF RqstResults
<1>7. \A i \in ScanIds : InMap(i)' /\ scans'[i].client = c => i \in IdsOf(c)
  <2>1. \A i \in ScanIds : scans'[i] = scans[i] \/ scans'[i] = NoScan
    BY <1>6 DEF ScanTypeOK
  <2> QED
    BY <2>1 DEF InMap, NoScan, IdsOf
<1> QED
  BY <1>1, <1>3, <1>5, <1>7, SameGoesOn, HandlerKeepsField

\* What a Runnable notifies of its scan.
LEMMA ScanNoteField ==
  ASSUME IInv, TypeOK', NEW id \in ScanIds, NotifyScanFinished(id) \/ NotifyScanProblem(id),
         UNCHANGED clientVars, NEW c \in Clients, FieldOf(c)
  PROVE  FieldOf(c)'
<1> TypeOK /\ CommTypeOK /\ ScanTypeOK /\ NmapTypeOK
  BY DEF IInv, TypeOK
<1>1. id \in Senders /\ c \in Senders
  BY DEF Senders
<1>2. ASSUME NEW why, Dies(why) PROVE FieldOf(c)'
  <2>1. mq'[c] = <<>> /\ UNCHANGED <<cq, gone>>
    BY <1>1, <1>2 DEF Dies
  <2>2. \A i \in ScanIds : ~InMap(i)'
    <3>1. \A i \in ScanIds : scans'[i] = NoScan
      BY <1>2 DEF Dies, Leave, MapIds, InMap
    <3> QED
      BY <3>1 DEF InMap, NoScan
  <2>3. WorkersGoOn
    BY <1>2, DiesGoesOn
  <2> QED
    BY <2>1, <2>2, <2>3, ServiceKeepsField
<1>3. CASE InMap(id)
  <2>1. /\ mq[id] # <<>> /\ Consume(id) /\ worker' = worker
        /\ scans' = scans \/ scans' = [scans EXCEPT ![id].finished = TRUE]
        /\ \E what \in {"NOTIFY_SCAN_FINISHED", "NOTIFY_SCAN_PROBLEM"} :
             TellActivity(scans[id].client, what, id, 0)
    BY <1>3 DEF NotifyScanFinished, NotifyScanProblem, IsNext
  <2>2. cq'[c] = cq[c] \/ \E m : /\ cq'[c] = Append(cq[c], m)
                                 /\ m.what \notin {"RESP_SCAN_ID_OK", "RESP_START_SCAN_OK", "RESP_STOP_SCAN_OK"}
    <3>1. PICK what \in {"NOTIFY_SCAN_FINISHED", "NOTIFY_SCAN_PROBLEM"} :
             TellActivity(scans[id].client, what, id, 0)
      BY <2>1
    <3>2. cq'[c] = cq[c] \/ cq'[c] = Append(cq[c], Msg(what, id, 0))
      BY <3>1, TellActivityAt
    <3>3. Msg(what, id, 0).what = what
      BY DEF Msg
    <3> QED
      BY <3>2, <3>3
  <2>3. \A i \in ScanIds : InMap(i)' /\ scans'[i].client = c => i \in IdsOf(c)
    <3>1. \A i \in ScanIds : scans'[i] = scans[i] \/ (i = id /\ scans'[i] = [scans[id] EXCEPT !.finished = TRUE])
      BY <2>1 DEF ScanTypeOK
    <3>2. [scans[id] EXCEPT !.finished = TRUE].client = scans[id].client
      BY <1>3 DEF ScanTypeOK, InMap
    <3> QED
      BY <1>3, <3>1, <3>2 DEF InMap, NoScan, IdsOf
  <2> QED
    BY <1>1, <2>1, <2>2, <2>3, SameGoesOn, HandlerKeepsField
<1> QED
  BY <1>2, <1>3 DEF NotifyScanFinished, NotifyScanProblem

\* What answering all scans posts to one activity: messages about its scans.
LEMMA TellScansAt ==
  ASSUME TypeOK, NEW s \in Services, NEW what \in ReplyKind, NEW answer,
         TellScans(s, what, answer), NEW c \in Clients
  PROVE  \/ cq'[c] = cq[c]
         \/ \E r \in Seq(ToActivity) :
              /\ cq'[c] = cq[c] \o r
              /\ \A i \in 1..Len(r) : /\ r[i].what = what
                                      /\ r[i].id \in ScanIds
                                      /\ InMap(r[i].id) /\ scans[r[i].id].client = c
<1> DEFINE idsOf == [d \in Clients |-> {id \in MapOf(s) : scans[id].client = d}]
           mine == {id \in MapOf(s) : scans[id].client = c}
<1>1. idsOf[c] = mine /\ \A id \in mine : id \in ScanIds /\ InMap(id) /\ scans[id].client = c
  BY DEF MapOf, MapIds
<1>2. TellAll(idsOf, what)
  BY DEF TellScans
<1> HIDE DEF idsOf
<1>3. PICK order \in [Clients -> UNION {SetToSeqs(ids) : ids \in SUBSET ScanIds}] :
        /\ \A d \in Clients : order[d] \in SetToSeqs(idsOf[d])
        /\ cq' = [d \in Clients |->
                IF d \in gone THEN cq[d]
                ELSE cq[d] \o [i \in DOMAIN order[d] |-> Msg(what, order[d][i], 0)]]
  BY <1>2 DEF TellAll
<1> DEFINE batch == [i \in DOMAIN order[c] |-> Msg(what, order[c][i], 0)]
<1>4. order[c] \in Seq(mine) /\ batch \in Seq(ToActivity)
  BY <1>1, <1>3, BatchType
<1>5. cq'[c] = cq[c] \/ cq'[c] = cq[c] \o batch
  BY <1>3
<1>6. \A i \in 1..Len(batch) : batch[i].what = what /\ batch[i].id \in mine
  <2>1. DOMAIN batch = DOMAIN order[c] /\ DOMAIN order[c] = 1..Len(order[c]) /\ DOMAIN batch = 1..Len(batch)
    BY <1>4
  <2>2. \A i \in DOMAIN batch : batch[i].what = what /\ batch[i].id = order[c][i]
    BY DEF Msg
  <2>3. \A i \in 1..Len(order[c]) : order[c][i] \in mine
    BY <1>4
  <2> QED
    BY <2>1, <2>2, <2>3
<1> HIDE DEF batch, mine
<1> QED
  BY <1>1, <1>4, <1>5, <1>6

\* A notification that may answer the scans that wait.
LEMMA AnswersField ==
  ASSUME IInv, TypeOK', NEW s \in Services, NEW x \in {Root(s), Setup(s)},
         mq[x] # <<>>, Consume(x),
         UNCHANGED clientVars, scans' = scans, worker' = worker,
         \/ cq' = cq
         \/ \E what \in {"RESP_SCAN_ID_OK", "RESP_SCAN_ID_ERR"} : \E answer : TellScans(s, what, answer),
         NEW c \in Clients, FieldOf(c)
  PROVE  FieldOf(c)'
<1> TypeOK /\ CommTypeOK
  BY DEF IInv, TypeOK
<1>1. x \in Senders /\ c \in Senders /\ c # x
  BY SendersDistinct
<1>2. mq'[c] = mq[c] /\ gone' = gone
  BY <1>1, ConsumeEffect DEF Consume
<1>3. \A i \in ScanIds : InMap(i)' /\ scans'[i].client = c => i \in IdsOf(c)
  BY DEF InMap, NoScan, IdsOf
<1>4. AtMostOnce(cq[c], "RESP_START_SCAN_OK") /\ cq[c] \in Seq(ToActivity)
  BY DEF FieldOf, ConfirmedOnce, CommTypeOK
<1>5. starts'[c] = starts[c] /\ scan'[c] = scan[c]
  BY DEF clientVars
<1>6. CASE cq'[c] = cq[c]
  BY <1>2, <1>3, <1>6, SameGoesOn, ServiceKeepsField
<1>7. CASE cq'[c] # cq[c]
  <2>1. PICK what \in {"RESP_SCAN_ID_OK", "RESP_SCAN_ID_ERR"} : \E answer : TellScans(s, what, answer)
    BY <1>7
  <2>2. PICK r \in Seq(ToActivity) :
          /\ cq'[c] = cq[c] \o r
          /\ \A i \in 1..Len(r) : /\ r[i].what = what
                                  /\ r[i].id \in ScanIds
                                  /\ InMap(r[i].id) /\ scans[r[i].id].client = c
    <3>1. what \in ReplyKind
      BY DEF ReplyKind
    <3> QED
      BY <1>7, <2>1, <3>1, TellScansAt
  <2>3. AtMostOnce(cq'[c], "RESP_START_SCAN_OK")
    <3>1. AtMostOnce(cq[c] \o r, "RESP_START_SCAN_OK")
      BY <1>4, <2>2, OnceConcat
    <3> QED
      BY <2>2, <3>1
  <2>4. \A m \in Range(cq'[c]) : m \in Range(cq[c]) \/ (m.what = what /\ m.id \in IdsOf(c))
    <3>1. \A m \in Range(r) : m.what = what /\ m.id \in IdsOf(c)
      <4>1. DOMAIN r = 1..Len(r)
        OBVIOUS
      <4> QED
        BY <2>2, <4>1 DEF Range, IdsOf
    <3>2. Range(cq[c] \o r) \subseteq Range(cq[c]) \cup Range(r)
      BY <1>4, RangeOfConcat
    <3> QED
      BY <2>2, <3>1, <3>2
  <2> QED
    BY <1>2, <1>3, <1>5, <2>3, <2>4, SameGoesOn, FieldKept
<1> QED
  BY <1>6, <1>7

\* Every message of the handler.
LEMMA HandleMessageField ==
  ASSUME IInv, TypeOK', HandleMessage, NEW c \in Clients, FieldOf(c)
  PROVE  FieldOf(c)'
<1>1. UNCHANGED clientVars
  BY DEF HandleMessage
<1>2. ASSUME NEW s \in Services, NotifyRootAccess(s) PROVE FieldOf(c)'
  <2>1. mq[Root(s)] # <<>> /\ Consume(Root(s)) /\ scans' = scans /\ worker' = worker
    BY <1>2 DEF NotifyRootAccess, Handles, IsNext
  <2>2. cq' = cq \/ TellScans(s, "RESP_SCAN_ID_OK", "ok")
    BY <1>2 DEF NotifyRootAccess, GrantPending
  <2> QED
    BY <1>1, <2>1, <2>2, AnswersField
<1>3. ASSUME NEW s \in Services, NotifyNativeSetup(s) PROVE FieldOf(c)'
  <2>1. mq[Setup(s)] # <<>> /\ Consume(Setup(s)) /\ scans' = scans /\ worker' = worker
    BY <1>3 DEF NotifyNativeSetup, Handles, IsNext
  <2>2. cq' = cq \/ TellScans(s, "RESP_SCAN_ID_OK", "ok") \/ TellScans(s, "RESP_SCAN_ID_ERR", "err")
    BY <1>3 DEF NotifyNativeSetup, GrantPending
  <2> QED
    BY <1>1, <2>1, <2>2, AnswersField
<1> QED
  BY <1>1, <1>2, <1>3, RqstScanIdField, RqstStartScanField, RqstStopScanField, RqstResultsField,
     ScanNoteField DEF HandleMessage

\* A step of an activity changes neither the Scan objects nor, but for a process
\* killed by name, the Runnables.
LEMMA ActivityLeaves ==
  ASSUME IInv, NEW d \in Clients, Activity(d)
  PROVE  /\ scans' = scans /\ WorkersGoOn
         /\ \A c \in Clients : c # d => /\ mq'[c] = mq[c] /\ cq'[c] = cq[c]
                                        /\ scan'[c] = scan[c] /\ starts'[c] = starts[c]
                                        /\ c \in gone' <=> c \in gone
<1> TypeOK /\ CommTypeOK /\ ClientTypeOK /\ NmapTypeOK
  BY DEF IInv, TypeOK
<1> USE DEF Activity, OnActivityCreate, OnActivityDestroy, ActivityDies, OnServiceConnected,
            OnServiceDisconnected, StartScan, StopScan, GetScanResults, Calls, RespScanIdOk,
            RespStartScanOk, RespStopScanOk, NotifiedScanFinished, ShownToUser, Takes
<1>1. scans' = scans
  BY DEF serviceVars
<1>2. worker' = worker \/ KillProcess
  BY DEF workerVars
<1>3. WorkersGoOn
  BY <1>2, SameGoesOn, KillGoesOn
<1>4. ASSUME NEW c \in Clients, c # d
      PROVE  mq'[c] = mq[c] /\ cq'[c] = cq[c]
  <2>1. mq' = mq \/ \E what, id, arg : Request(d, what, id, arg)
    BY DEF commVars
  <2>2. mq'[c] = mq[c]
    BY <1>4, <2>1, RequestEffect DEF Senders
  <2>3. cq' = cq \/ cq' = [cq EXCEPT ![d] = Tail(@)] \/ cq' = [cq EXCEPT ![d] = <<>>]
    BY DEF commVars
  <2>4. cq'[c] = cq[c]
    BY <1>4, <2>3 DEF CommTypeOK
  <2> QED
    BY <2>2, <2>4
<1>5. ASSUME NEW c \in Clients, c # d
      PROVE  scan'[c] = scan[c] /\ starts'[c] = starts[c] /\ (c \in gone' <=> c \in gone)
  <2>1. gone' = gone \/ gone' = gone \cup {d}
    BY DEF commVars
  <2>2. starts' = starts \/ starts' = [starts EXCEPT ![d] = @ + 1]
    OBVIOUS
  <2>3. \E v : scan' = scan \/ scan' = [scan EXCEPT ![d] = v]
    OBVIOUS
  <2> QED
    BY <1>5, <2>1, <2>2, <2>3 DEF ClientTypeOK
<1> QED
  BY <1>1, <1>3, <1>4, <1>5

\* A request of an activity that has a scan, of a kind that asks for none.
LEMMA RequestAt ==
  ASSUME CommTypeOK, NEW c \in Clients, NEW what, NEW id, NEW arg, Request(c, what, id, arg)
  PROVE  mq'[c] = mq[c] \/ mq'[c] = Append(mq[c], MsgTo(binder[c], what, id, arg))
BY DEF Request, CommTypeOK, Senders

\* What an activity takes from its queue.
LEMMA TakesEffect ==
  ASSUME CommTypeOK, NEW c \in Clients, NEW kinds, Takes(c, kinds)
  PROVE  /\ cq[c] \in Seq(ToActivity) /\ cq[c] # <<>>
         /\ cq'[c] = Tail(cq[c]) /\ Range(cq'[c]) \subseteq Range(cq[c])
         /\ Reply(c) \in Range(cq[c]) /\ Reply(c).what \in kinds
         /\ starts' = starts /\ gone' = gone
<1>1. cq[c] \in Seq(ToActivity) /\ cq[c] # <<>>
  BY DEF CommTypeOK, Takes
<1>2. cq'[c] = Tail(cq[c])
  BY DEF CommTypeOK, Takes
<1>3. Range(Tail(cq[c])) \subseteq Range(cq[c]) /\ Head(cq[c]) \in Range(cq[c])
  BY <1>1, RangeOfTail
<1> QED
  BY <1>1, <1>2, <1>3 DEF Takes, Reply

\* startScan, the first time.
LEMMA StartScanField ==
  ASSUME IInv, TypeOK', NEW c \in Clients, Activity(c), StartScan(c), starts'[c] <= 1, FieldOf(c)
  PROVE  FieldOf(c)'
<1> TypeOK /\ CommTypeOK /\ ClientTypeOK
  BY DEF IInv, TypeOK
<1>1. starts[c] = 0 /\ starts'[c] = 1
  <2>1. starts'[c] = starts[c] + 1 /\ starts[c] \in Nat
    BY BoundsAssumption DEF StartScan, ClientTypeOK
  <2> QED
    BY <2>1
<1>2. mq[c] = <<>> /\ IdsOf(c) = {}
  BY <1>1 DEF FieldOf, OneId
<1>3. scan'[c] = NewScan(starts[c] + 1) /\ cq' = cq /\ gone' = gone
  BY DEF StartScan, Calls, ClientTypeOK
<1>4. scan'[c].id = NoId /\ ~scan'[c].started
  BY <1>3 DEF NewScan
<1>5. scans' = scans /\ \A i \in ScanIds : InMap(i)' <=> InMap(i)
  BY ActivityLeaves DEF InMap, NoScan
<1>6. \A m \in Range(mq'[c]) : m.what = "RQST_SCAN_ID"
  <2>1. Range(mq[c]) = {}
    BY <1>2, RangeOfEmpty
  <2>2. \A m \in Range(mq'[c]) : m = MsgTo(binder[c], "RQST_SCAN_ID", NoId, starts[c] + 1)
    BY <2>1, RequestEffect DEF StartScan
  <2> QED
    BY <2>2 DEF MsgTo
<1>7. Len(mq'[c]) \in {0, 1}
  <2>1. mq'[c] = mq[c] \/ mq'[c] = Append(mq[c], MsgTo(binder[c], "RQST_SCAN_ID", NoId, starts[c] + 1))
    BY RequestAt DEF StartScan
  <2>2. \A m : Len(<<>>) = 0 /\ Len(Append(<<>>, m)) = 1
    OBVIOUS
  <2> QED
    BY <1>2, <2>1, <2>2
<1>8. /\ Among(mq'[c], {"RQST_START_SCAN", "RQST_STOP_SCAN"}) = {}
      /\ Among(mq'[c], {"RQST_START_SCAN"}) = {} /\ Among(mq'[c], {"RQST_STOP_SCAN"}) = {}
  BY <1>6 DEF Among
<1>9. IdsOf(c)' = {}
  BY <1>2, <1>3, <1>4, <1>5, <1>8 DEF IdsOf, IdsIn
<1>10. Among(mq'[c], {"RQST_SCAN_ID"}) # {} => Len(mq'[c]) = 1
  <2>1. CASE mq'[c] = <<>>
    BY <2>1, RangeOfEmpty DEF Among
  <2>2. CASE mq'[c] # <<>>
    <3>1. mq'[c] \in Seq(ToService)
      BY DEF TypeOK, CommTypeOK, Senders
    <3>2. Len(mq'[c]) # 0
      BY <2>2, <3>1, EmptyOfLen
    <3>3. Len(mq'[c]) = 1
      BY <1>7, <3>2
    <3> QED
      BY <3>3
  <2> QED
    BY <2>1, <2>2
<1>11. OneId(c)'
  BY <1>1, <1>9, <1>10 DEF OneId
<1>12. StartsAsAsked(c)'
  BY <1>8 DEF StartsAsAsked
<1>13. Among(cq[c], {"RESP_START_SCAN_OK"}) = {} /\ Among(cq[c], {"RESP_STOP_SCAN_OK"}) = {}
  <2>1. \A m \in Range(cq[c]) : m.what \notin {"RESP_SCAN_ID_OK", "RESP_START_SCAN_OK", "RESP_STOP_SCAN_OK"}
    BY <1>2 DEF IdsOf, IdsIn, Among
  <2> QED
    BY <2>1 DEF Among
<1>14. ConfirmedOnce(c)'
  BY <1>3, <1>13 DEF ConfirmedOnce, FieldOf, AtMostOnce
<1>15. StopsWhatStarted(c)'
  BY <1>3, <1>8, <1>13 DEF StopsWhatStarted, Stopping, IdsIn
<1> QED
  BY <1>4, <1>11, <1>12, <1>14, <1>15 DEF FieldOf

\* stopScan, getScanResults and onScanFinish speak of a scan that was started.
LEMMA RequestsField ==
  ASSUME IInv, TypeOK', NEW c \in Clients, Activity(c), FieldOf(c), starts'[c] = starts[c], gone' = gone,
         scan'[c].id = scan[c].id, scan'[c].args = scan[c].args, scan'[c].started = scan[c].started,
         \/ cq'[c] = cq[c]
         \/ cq[c] # <<>> /\ cq'[c] = Tail(cq[c]),
         \/ mq' = mq
         \/ scan[c].started /\ Request(c, "RQST_RESULTS", scan[c].id, 0)
  PROVE  FieldOf(c)'
<1> TypeOK /\ CommTypeOK
  BY DEF IInv, TypeOK
<1>1. cq[c] \in Seq(ToActivity) /\ AtMostOnce(cq[c], "RESP_START_SCAN_OK")
  BY DEF CommTypeOK, FieldOf, ConfirmedOnce
<1>2. Range(cq'[c]) \subseteq Range(cq[c]) /\ AtMostOnce(cq'[c], "RESP_START_SCAN_OK")
  BY <1>1, RangeOfTail, OnceTail
<1>3. \A m \in Range(mq'[c]) : m \in Range(mq[c]) \/ m.what = "RQST_RESULTS"
  <2>1. CASE mq' = mq
    BY <2>1
  <2>2. CASE Request(c, "RQST_RESULTS", scan[c].id, 0)
    <3>1. \A m \in Range(mq'[c]) : m \in Range(mq[c]) \/ m = MsgTo(binder[c], "RQST_RESULTS", scan[c].id, 0)
      BY <2>2, RequestEffect
    <3> QED
      BY <3>1 DEF MsgTo
  <2> QED
    BY <2>1, <2>2
<1>4. mq'[c] = mq[c] \/ IdsOf(c) # {}
  <2>1. scan[c].started => scan[c].id \in IdsOf(c)
    BY NoIdAssumption DEF FieldOf, RunsWith, IdsOf
  <2> QED
    BY <2>1
<1>5. \A i \in ScanIds : InMap(i)' /\ scans'[i].client = c => i \in IdsOf(c)
  BY ActivityLeaves DEF InMap, NoScan, IdsOf
<1>6. WorkersGoOn
  BY ActivityLeaves
<1> QED
  BY <1>2, <1>3, <1>4, <1>5, <1>6, FieldKept

\* stopScan of a scan that was started: its confirmation has been taken.
LEMMA StopScanField ==
  ASSUME IInv, TypeOK', NEW c \in Clients, Activity(c), StopScan(c), FieldOf(c)
  PROVE  FieldOf(c)'
<1> TypeOK /\ CommTypeOK
  BY DEF IInv, TypeOK
<1>1. scan[c].started /\ UNCHANGED <<scan, starts, cq, gone>>
  BY DEF StopScan, Calls
<1>2. RunsWith(scan[c].id, scan[c].args) /\ scan[c].id \in IdsOf(c) /\ worker[scan[c].id].pc # "idle"
  BY <1>1, NoIdAssumption DEF FieldOf, RunsWith, IdsOf
<1>3. \A m \in Range(mq'[c]) : m \in Range(mq[c]) \/ (m.what = "RQST_STOP_SCAN" /\ m.id = scan[c].id)
  <2>1. \A m \in Range(mq'[c]) : m \in Range(mq[c]) \/ m = MsgTo(binder[c], "RQST_STOP_SCAN", scan[c].id, 0)
    BY RequestEffect DEF StopScan
  <2> QED
    BY <2>1 DEF MsgTo
<1>4. WorkersGoOn /\ \A i \in ScanIds : InMap(i)' /\ scans'[i].client = c => i \in IdsOf(c)
  BY ActivityLeaves DEF InMap, NoScan, IdsOf
<1>5. /\ Among(mq'[c], {"RQST_START_SCAN"}) \subseteq Among(mq[c], {"RQST_START_SCAN"})
      /\ Among(mq'[c], {"RQST_SCAN_ID"}) \subseteq Among(mq[c], {"RQST_SCAN_ID"})
  BY <1>3 DEF Among
<1>6. IdsOf(c)' \subseteq IdsOf(c)
  <2>1. ASSUME NEW i \in IdsOf(c)' PROVE i \in IdsOf(c)
    <3>1. CASE \E m \in Among(mq'[c], {"RQST_START_SCAN", "RQST_STOP_SCAN"}) : i = m.id
      BY <1>2, <1>3, <3>1 DEF IdsOf, IdsIn, Among
    <3>2. CASE \E m \in Among(cq'[c], {"RESP_SCAN_ID_OK", "RESP_START_SCAN_OK", "RESP_STOP_SCAN_OK"}) : i = m.id
      BY <1>1, <3>2 DEF IdsOf, IdsIn
    <3>3. CASE i = scan'[c].id /\ i # NoId
      BY <1>1, <3>3 DEF IdsOf
    <3> QED
      BY <1>4, <2>1, <3>1, <3>2, <3>3 DEF IdsOf, IdsIn
  <2> QED
    BY <2>1
<1>7. OneId(c)'
  BY <1>1, <1>2, <1>5, <1>6 DEF FieldOf, OneId
<1>8. StartsAsAsked(c)'
  <2>1. \A m \in Among(mq[c], {"RQST_START_SCAN"}) : m.id \in ScanIds
    BY DEF IInv, GrantsHold, GrantHolds, Among
  <2> QED
    BY <1>1, <1>4, <1>5, <2>1 DEF FieldOf, StartsAsAsked, WorkersGoOn
<1>9. \A id, args : RunsWith(id, args) => RunsWith(id, args)'
  BY <1>4 DEF RunsWith, WorkersGoOn
<1>10. ConfirmedOnce(c)'
  BY <1>1, <1>9 DEF FieldOf, ConfirmedOnce
<1>11. StopsWhatStarted(c)'
  <2>1. \A i \in Stopping(c)' : i \in Stopping(c) \/ i = scan[c].id
    BY <1>1, <1>3 DEF Stopping, IdsIn, Among
  <2>2. Among(cq[c], {"RESP_START_SCAN_OK"}) = {}
    BY <1>1 DEF FieldOf, StopsWhatStarted
  <2>3. \A i \in Stopping(c)' : i \in ScanIds /\ worker[i].pc # "idle"
    BY <1>2, <2>1 DEF FieldOf, StopsWhatStarted, RunsWith
  <2> QED
    BY <1>1, <1>4, <2>2, <2>3 DEF StopsWhatStarted, WorkersGoOn
<1> QED
  BY <1>1, <1>7, <1>8, <1>9, <1>10, <1>11 DEF FieldOf

\* RESP_SCAN_ID_OK: the id goes into the field, and is started with the arguments
\* in it.
LEMMA RespScanIdOkField ==
  ASSUME IInv, TypeOK', NEW c \in Clients, Activity(c), RespScanIdOk(c), FieldOf(c)
  PROVE  FieldOf(c)'
<1> TypeOK /\ CommTypeOK /\ ClientTypeOK
  BY DEF IInv, TypeOK
<1>1. PICK r \in Range(cq[c]) : r = Reply(c) /\ r.what = "RESP_SCAN_ID_OK"
  BY TakesEffect DEF RespScanIdOk
<1>2. /\ cq[c] \in Seq(ToActivity) /\ cq[c] # <<>> /\ cq'[c] = Tail(cq[c])
      /\ Range(cq'[c]) \subseteq Range(cq[c]) /\ starts' = starts /\ gone' = gone
  BY TakesEffect DEF RespScanIdOk
<1>3. r.id \in ScanIds /\ r.id \in IdsOf(c)
  <2>1. r \in Among(cq[c], {"RESP_SCAN_ID_OK", "RESP_START_SCAN_OK", "RESP_STOP_SCAN_OK"})
    BY <1>1 DEF Among
  <2> QED
    BY <1>1, <2>1 DEF IInv, GrantsHold, GrantHolds, IdsOf, IdsIn
<1>4. \A i \in IdsOf(c) : i = r.id
  BY <1>3 DEF FieldOf, OneId
<1>5. scan'[c].id = r.id /\ scan'[c].args = scan[c].args /\ scan'[c].started = scan[c].started
  <2>1. scan'[c] = [scan[c] EXCEPT !.id = r.id]
    BY <1>1 DEF RespScanIdOk, ClientTypeOK
  <2>2. scan[c] \in [id : ScanIds \cup {NoId}, args : 0..MaxStarts, started : BOOLEAN, finished : BOOLEAN]
    BY DEF ClientTypeOK
  <2> QED
    BY <2>1, <2>2
<1>6. scan[c].started => scan[c].id = r.id
  <2>1. scan[c].started => scan[c].id \in IdsOf(c)
    BY NoIdAssumption DEF FieldOf, RunsWith, IdsOf
  <2> QED
    BY <1>4, <2>1
<1>7. \A m \in Range(mq'[c]) : m \in Range(mq[c]) \/
        (m.what = "RQST_START_SCAN" /\ m.id = r.id /\ m.arg = scan[c].args)
  <2>1. CASE mq' = mq
    BY <2>1
  <2>2. CASE Request(c, "RQST_START_SCAN", r.id, scan[c].args)
    <3>1. \A m \in Range(mq'[c]) : m \in Range(mq[c]) \/ m = MsgTo(binder[c], "RQST_START_SCAN", r.id, scan[c].args)
      BY <2>2, RequestEffect
    <3> QED
      BY <3>1 DEF MsgTo
  <2> QED
    BY <1>1, <2>1, <2>2 DEF RespScanIdOk
<1>8. WorkersGoOn /\ \A i \in ScanIds : InMap(i)' /\ scans'[i].client = c => i \in IdsOf(c)
  BY ActivityLeaves DEF InMap, NoScan, IdsOf
<1>9. /\ Among(mq'[c], {"RQST_STOP_SCAN"}) \subseteq Among(mq[c], {"RQST_STOP_SCAN"})
      /\ Among(mq'[c], {"RQST_SCAN_ID"}) \subseteq Among(mq[c], {"RQST_SCAN_ID"})
      /\ Among(cq'[c], {"RESP_START_SCAN_OK"}) \subseteq Among(cq[c], {"RESP_START_SCAN_OK"})
      /\ Among(cq'[c], {"RESP_STOP_SCAN_OK"}) \subseteq Among(cq[c], {"RESP_STOP_SCAN_OK"})
      /\ Among(cq'[c], {"RESP_SCAN_ID_OK", "RESP_START_SCAN_OK", "RESP_STOP_SCAN_OK"})
           \subseteq Among(cq[c], {"RESP_SCAN_ID_OK", "RESP_START_SCAN_OK", "RESP_STOP_SCAN_OK"})
  BY <1>2, <1>7 DEF Among
<1>10. IdsOf(c)' \subseteq IdsOf(c)
  <2>1. ASSUME NEW i \in IdsOf(c)' PROVE i \in IdsOf(c)
    <3>1. CASE \E m \in Among(mq'[c], {"RQST_START_SCAN", "RQST_STOP_SCAN"}) : i = m.id
      BY <1>3, <1>7, <3>1 DEF IdsOf, IdsIn, Among
    <3>2. CASE \E m \in Among(cq'[c], {"RESP_SCAN_ID_OK", "RESP_START_SCAN_OK", "RESP_STOP_SCAN_OK"}) : i = m.id
      BY <1>9, <3>2 DEF IdsOf, IdsIn
    <3>3. CASE i = scan'[c].id /\ i # NoId
      BY <1>3, <1>5, <3>3
    <3> QED
      BY <1>8, <2>1, <3>1, <3>2, <3>3 DEF IdsOf, IdsIn
  <2> QED
    BY <2>1
<1>11. OneId(c)'
  BY <1>2, <1>3, <1>9, <1>10 DEF FieldOf, OneId
<1>12. StartsAsAsked(c)'
  <2>1. ASSUME NEW m \in Among(mq'[c], {"RQST_START_SCAN"}), worker'[m.id].pc = "idle", c \notin gone
        PROVE  m.id = r.id /\ m.arg = scan[c].args
    <3>1. CASE m \in Range(mq[c])
      <4>1. m \in Among(mq[c], {"RQST_START_SCAN"}) /\ m \in Among(mq[c], {"RQST_START_SCAN", "RQST_STOP_SCAN"})
        BY <2>1, <3>1 DEF Among
      <4>2. m.id \in IdsOf(c) /\ m.id \in ScanIds
        BY <3>1, <4>1 DEF IdsOf, IdsIn, IInv, GrantsHold, GrantHolds, Among
      <4>3. worker[m.id].pc = "idle"
        BY <1>8, <2>1, <4>2 DEF WorkersGoOn
      <4>4. m.arg = scan[c].args
        BY <2>1, <4>1, <4>3 DEF FieldOf, StartsAsAsked
      <4> QED
        BY <1>4, <4>2, <4>4
    <3>2. CASE m \notin Range(mq[c])
      BY <1>7, <2>1, <3>2 DEF Among
    <3> QED
      BY <3>1, <3>2
  <2> QED
    BY <1>2, <1>5, <2>1 DEF StartsAsAsked
<1>13. \A id, args : RunsWith(id, args) => RunsWith(id, args)'
  BY <1>8 DEF RunsWith, WorkersGoOn
<1>14. ConfirmedOnce(c)'
  <2>1. AtMostOnce(cq'[c], "RESP_START_SCAN_OK")
    BY <1>2, OnceTail DEF FieldOf, ConfirmedOnce
  <2>2. \A m \in Among(cq[c], {"RESP_START_SCAN_OK"}) : m.id = r.id /\ RunsWith(m.id, scan[c].args)
    <3>1. \A m \in Among(cq[c], {"RESP_START_SCAN_OK"}) : m.id \in IdsOf(c)
      BY DEF IdsOf, IdsIn, Among
    <3> QED
      BY <1>4, <3>1 DEF FieldOf, ConfirmedOnce
  <2> QED
    BY <1>5, <1>9, <1>13, <2>1, <2>2 DEF ConfirmedOnce
<1>15. StopsWhatStarted(c)'
  <2>1. Stopping(c)' \subseteq Stopping(c)
    BY <1>9 DEF Stopping, IdsIn
  <2> QED
    BY <1>5, <1>8, <1>9, <2>1 DEF FieldOf, StopsWhatStarted, WorkersGoOn
<1> QED
  BY <1>5, <1>6, <1>11, <1>12, <1>13, <1>14, <1>15 DEF FieldOf

\* RESP_START_SCAN_OK: the field is started, of a scan that was.
LEMMA RespStartScanOkField ==
  ASSUME IInv, TypeOK', NEW c \in Clients, Activity(c), RespStartScanOk(c), FieldOf(c)
  PROVE  FieldOf(c)'
<1> TypeOK /\ CommTypeOK /\ ClientTypeOK
  BY DEF IInv, TypeOK
<1>1. PICK r \in Range(cq[c]) : r = Reply(c) /\ r.what = "RESP_START_SCAN_OK"
  BY TakesEffect DEF RespStartScanOk
<1>2. /\ cq[c] \in Seq(ToActivity) /\ cq[c] # <<>> /\ cq'[c] = Tail(cq[c])
      /\ Range(cq'[c]) \subseteq Range(cq[c]) /\ starts' = starts /\ gone' = gone /\ mq' = mq
  BY TakesEffect DEF RespStartScanOk
<1>3. r.id = scan[c].id /\ RunsWith(scan[c].id, scan[c].args)
  BY <1>1 DEF FieldOf, ConfirmedOnce, Among
<1>4. scan'[c].id = scan[c].id /\ scan'[c].args = scan[c].args
  <2>1. scan'[c] = [scan[c] EXCEPT !.started = TRUE]
    BY DEF RespStartScanOk, ClientTypeOK
  <2>2. scan[c] \in [id : ScanIds \cup {NoId}, args : 0..MaxStarts, started : BOOLEAN, finished : BOOLEAN]
    BY DEF ClientTypeOK
  <2> QED
    BY <2>1, <2>2
<1>5. WorkersGoOn /\ \A i \in ScanIds : InMap(i)' /\ scans'[i].client = c => i \in IdsOf(c)
  BY ActivityLeaves DEF InMap, NoScan, IdsOf
<1>6. /\ Among(cq'[c], {"RESP_STOP_SCAN_OK"}) \subseteq Among(cq[c], {"RESP_STOP_SCAN_OK"})
      /\ Among(cq'[c], {"RESP_SCAN_ID_OK", "RESP_START_SCAN_OK", "RESP_STOP_SCAN_OK"})
           \subseteq Among(cq[c], {"RESP_SCAN_ID_OK", "RESP_START_SCAN_OK", "RESP_STOP_SCAN_OK"})
  BY <1>2 DEF Among
<1>7. Among(cq'[c], {"RESP_START_SCAN_OK"}) = {}
  <2>1. Head(cq[c]).what = "RESP_START_SCAN_OK" /\ AtMostOnce(cq[c], "RESP_START_SCAN_OK")
    BY <1>1 DEF FieldOf, ConfirmedOnce, Reply
  <2> QED
    BY <1>2, <2>1, OnceTail
<1>8. IdsOf(c)' \subseteq IdsOf(c)
  BY <1>2, <1>4, <1>5, <1>6 DEF IdsOf, IdsIn
<1>9. OneId(c)'
  BY <1>2, <1>8 DEF FieldOf, OneId
<1>10. StartsAsAsked(c)'
  <2>1. \A m \in Among(mq[c], {"RQST_START_SCAN"}) : m.id \in ScanIds
    BY DEF IInv, GrantsHold, GrantHolds, Among
  <2> QED
    BY <1>2, <1>4, <1>5, <2>1 DEF FieldOf, StartsAsAsked, WorkersGoOn
<1>11. \A id, args : RunsWith(id, args) => RunsWith(id, args)'
  BY <1>5 DEF RunsWith, WorkersGoOn
<1>12. ConfirmedOnce(c)'
  <2>1. AtMostOnce(cq'[c], "RESP_START_SCAN_OK")
    BY <1>2, OnceTail DEF FieldOf, ConfirmedOnce
  <2> QED
    BY <1>7, <2>1 DEF ConfirmedOnce
<1>13. StopsWhatStarted(c)'
  <2>1. Stopping(c)' \subseteq Stopping(c)
    BY <1>2, <1>6 DEF Stopping, IdsIn
  <2> QED
    BY <1>5, <1>7, <2>1 DEF FieldOf, StopsWhatStarted, WorkersGoOn
<1> QED
  BY <1>3, <1>4, <1>9, <1>10, <1>11, <1>12, <1>13 DEF FieldOf

\* The field is emptied, by RESP_STOP_SCAN_OK or with its process: what is still
\* on its way starts nothing.
LEMMA EmptiedField ==
  ASSUME IInv, TypeOK', NEW c \in Clients, Activity(c), FieldOf(c),
         mq' = mq, starts' = starts, gone \subseteq gone',
         scan'[c].id = NoId, ~scan'[c].started,
         Range(cq'[c]) \subseteq Range(cq[c]),
         Among(cq'[c], {"RESP_START_SCAN_OK"}) = {},
         c \in gone' \/ Stopping(c) # {}
  PROVE  FieldOf(c)'
<1> TypeOK /\ CommTypeOK
  BY DEF IInv, TypeOK
<1>1. WorkersGoOn /\ \A i \in ScanIds : InMap(i)' /\ scans'[i].client = c => i \in IdsOf(c)
  BY ActivityLeaves DEF InMap, NoScan, IdsOf
<1>2. /\ Among(cq'[c], {"RESP_STOP_SCAN_OK"}) \subseteq Among(cq[c], {"RESP_STOP_SCAN_OK"})
      /\ Among(cq'[c], {"RESP_SCAN_ID_OK", "RESP_START_SCAN_OK", "RESP_STOP_SCAN_OK"})
           \subseteq Among(cq[c], {"RESP_SCAN_ID_OK", "RESP_START_SCAN_OK", "RESP_STOP_SCAN_OK"})
  BY DEF Among
<1>3. IdsOf(c)' \subseteq IdsOf(c)
  BY <1>1, <1>2 DEF IdsOf, IdsIn
<1>4. OneId(c)'
  BY <1>3 DEF FieldOf, OneId
<1>5. StartsAsAsked(c)'
  <2>1. ASSUME c \notin gone', NEW m \in Among(mq[c], {"RQST_START_SCAN"}) PROVE worker'[m.id].pc # "idle"
    <3>1. PICK i \in Stopping(c) : TRUE
      BY <2>1
    <3>2. i \in IdsOf(c) /\ i \in ScanIds /\ worker[i].pc # "idle"
      BY <3>1 DEF Stopping, IdsOf, IdsIn, Among, FieldOf, StopsWhatStarted
    <3>3. m.id \in IdsOf(c)
      BY <2>1 DEF IdsOf, IdsIn, Among
    <3>4. m.id = i
      BY <3>2, <3>3 DEF FieldOf, OneId
    <3> QED
      BY <1>1, <3>2, <3>4 DEF WorkersGoOn
  <2> QED
    BY <2>1 DEF StartsAsAsked
<1>6. ConfirmedOnce(c)'
  <2>1. cq'[c] \in Seq(ToActivity)
    BY DEF TypeOK, CommTypeOK
  <2>2. DOMAIN cq'[c] = 1..Len(cq'[c])
    BY <2>1
  <2>3. \A i \in 1..Len(cq'[c]) : cq'[c][i] \in Range(cq'[c])
    BY <2>2 DEF Range
  <2> QED
    BY <2>3 DEF ConfirmedOnce, AtMostOnce, Among
<1>7. StopsWhatStarted(c)'
  <2>1. Stopping(c)' \subseteq Stopping(c)
    BY <1>2 DEF Stopping, IdsIn
  <2> QED
    BY <1>1, <2>1 DEF FieldOf, StopsWhatStarted, WorkersGoOn
<1> QED
  BY <1>4, <1>5, <1>6, <1>7 DEF FieldOf

\* The steps of an activity.
LEMMA ActivityField ==
  ASSUME IInv, TypeOK', NEW d \in Clients, Activity(d), NEW c \in Clients, FieldOf(c), starts'[c] <= 1
  PROVE  FieldOf(c)'
<1> TypeOK /\ CommTypeOK /\ ClientTypeOK
  BY DEF IInv, TypeOK
<1>1. CASE c # d
  <2>1. /\ mq'[c] = mq[c] /\ cq'[c] = cq[c] /\ scan'[c] = scan[c] /\ starts'[c] = starts[c]
        /\ c \in gone' <=> c \in gone
        /\ WorkersGoOn /\ scans' = scans
    BY <1>1, ActivityLeaves
  <2>2. \A i \in ScanIds : InMap(i)' /\ scans'[i].client = c => i \in IdsOf(c)
    BY <2>1 DEF InMap, NoScan, IdsOf
  <2>3. AtMostOnce(cq'[c], "RESP_START_SCAN_OK")
    BY <2>1 DEF FieldOf, ConfirmedOnce
  <2> QED
    BY <2>1, <2>2, <2>3, FieldKept
<1>2. CASE c = d
  <2> Activity(c)
    BY <1>2
  <2>1. CASE \/ OnActivityCreate(c) \/ OnActivityDestroy(c)
             \/ OnServiceConnected(c) \/ OnServiceDisconnected(c)
    <3>1. UNCHANGED <<mq, cq, gone, scan, starts>>
      BY <2>1 DEF OnActivityCreate, OnActivityDestroy, OnServiceConnected, OnServiceDisconnected, commVars
    <3> QED
      BY <3>1, RequestsField
  <2>2. CASE ActivityDies(c)
    <3>1. /\ mq' = mq /\ starts' = starts /\ gone' = gone \cup {c}
          /\ cq'[c] = <<>> /\ scan'[c] = NullScan
      BY <2>2 DEF ActivityDies, CommTypeOK, ClientTypeOK
    <3>2. scan'[c].id = NoId /\ ~scan'[c].started
      BY <3>1 DEF NullScan, NewScan
    <3>3. Range(cq'[c]) = {}
      BY <3>1, RangeOfEmpty
    <3>4. Among(cq'[c], {"RESP_START_SCAN_OK"}) = {}
      BY <3>3 DEF Among
    <3> QED
      BY <3>1, <3>2, <3>3, <3>4, EmptiedField
  <2>3. CASE RespStopScanOk(c)
    <3>1. /\ mq' = mq /\ starts' = starts /\ gone' = gone /\ Range(cq'[c]) \subseteq Range(cq[c])
          /\ Reply(c) \in Range(cq[c]) /\ Reply(c).what = "RESP_STOP_SCAN_OK"
      BY <2>3, TakesEffect DEF RespStopScanOk
    <3>2. scan'[c].id = NoId /\ ~scan'[c].started
      <4>1. scan'[c] = NewScan(0)
        BY <2>3 DEF RespStopScanOk, ClientTypeOK
      <4> QED
        BY <4>1 DEF NewScan
    <3>3. Stopping(c) # {}
      <4>1. Reply(c) \in Among(cq[c], {"RESP_STOP_SCAN_OK"})
        BY <3>1 DEF Among
      <4> QED
        BY <4>1 DEF Stopping, IdsIn
    <3>4. Among(cq'[c], {"RESP_START_SCAN_OK"}) = {}
      BY <3>1, <3>3 DEF FieldOf, StopsWhatStarted, Among
    <3> QED
      BY <3>1, <3>2, <3>3, <3>4, EmptiedField
  <2>4. CASE GetScanResults(c)
    <3>1. scan[c].started /\ Request(c, "RQST_RESULTS", scan[c].id, 0)
      BY <2>4 DEF GetScanResults
    <3>2. UNCHANGED <<scan, starts, cq, gone>>
      BY <2>4 DEF GetScanResults, Calls
    <3> QED
      BY <3>1, <3>2, RequestsField
  <2>5. CASE NotifiedScanFinished(c)
    <3>1. cq[c] # <<>> /\ cq'[c] = Tail(cq[c]) /\ starts' = starts /\ gone' = gone
      BY <2>5, TakesEffect DEF NotifiedScanFinished
    <3>2. scan'[c].id = scan[c].id /\ scan'[c].args = scan[c].args /\ scan'[c].started = scan[c].started
      <4>1. scan'[c] = [scan[c] EXCEPT !.finished = TRUE]
        BY <2>5 DEF NotifiedScanFinished, ClientTypeOK
      <4>2. scan[c] \in [id : ScanIds \cup {NoId}, args : 0..MaxStarts, started : BOOLEAN, finished : BOOLEAN]
        BY DEF ClientTypeOK
      <4> QED
        BY <4>1, <4>2
    <3>3. \/ mq' = mq
          \/ scan[c].started /\ Request(c, "RQST_RESULTS", scan[c].id, 0)
      BY <2>5 DEF NotifiedScanFinished
    <3> QED
      BY <3>1, <3>2, <3>3, RequestsField
  <2>6. CASE ShownToUser(c)
    <3>1. cq[c] # <<>> /\ cq'[c] = Tail(cq[c]) /\ starts' = starts /\ gone' = gone
      BY <2>6, TakesEffect DEF ShownToUser
    <3> QED
      BY <2>6, <3>1, RequestsField DEF ShownToUser
  <2> QED
    BY <1>2, <2>1, <2>2, <2>3, <2>4, <2>5, <2>6, StartScanField, StopScanField, RespScanIdOkField,
       RespStartScanOkField DEF Activity
<1> QED
  BY <1>1, <1>2

\* The invariant holds of every activity that has started at most one scan.
LEMMA FieldInvStep ==
  ASSUME IInv, FieldInv, [Next]_vars
  PROVE  FieldInv'
<1>1. TypeOK'
  BY NextType DEF IInv
<1> SUFFICES ASSUME NEW c \in Clients, starts'[c] <= 1 PROVE FieldOf(c)'
  BY DEF FieldInv
<1>2. starts[c] <= 1
  <2>1. starts[c] \in Nat /\ (starts'[c] = starts[c] \/ starts'[c] = starts[c] + 1)
    <3>1. starts' = starts \/ \E d \in Clients : starts' = [starts EXCEPT ![d] = @ + 1]
      BY DEF Next, vars, LifeCycle, HandleMessage, Pool, Activity, clientVars, OnActivityCreate,
         OnActivityDestroy, ActivityDies, OnServiceConnected, OnServiceDisconnected, StartScan,
         StopScan, GetScanResults, RespScanIdOk, RespStartScanOk, RespStopScanOk,
         NotifiedScanFinished, ShownToUser, Takes
    <3>2. starts \in [Clients -> 0..MaxStarts]
      BY DEF IInv, TypeOK, ClientTypeOK
    <3>3. starts[c] \in Nat
      BY <3>2, BoundsAssumption
    <3>4. CASE starts' = starts
      BY <3>3, <3>4
    <3>5. ASSUME NEW d \in Clients, starts' = [starts EXCEPT ![d] = @ + 1]
          PROVE  starts'[c] = starts[c] \/ starts'[c] = starts[c] + 1
      BY <3>2, <3>5
    <3> QED
      BY <3>1, <3>3, <3>4, <3>5
  <2> QED
    BY <2>1
<1>3. FieldOf(c)
  BY <1>2 DEF FieldInv
<1>4. CASE UNCHANGED vars
  <2>1. UNCHANGED <<clientVars, scans, worker, mq, cq, gone>>
    BY <1>4 DEF vars, serviceVars, workerVars, commVars
  <2>2. \A i \in ScanIds : InMap(i)' /\ scans'[i].client = c => i \in IdsOf(c)
    BY <2>1 DEF InMap, NoScan, IdsOf
  <2> QED
    BY <1>1, <1>3, <2>1, <2>2, SameGoesOn, ServiceKeepsField
<1> QED
  BY <1>1, <1>3, <1>4, LifeCycleField, HandleMessageField, PoolField, ActivityField DEF Next

\* The one scan of an activity keeps to its path: RQST_SCAN_ID, RESP_SCAN_ID_OK,
\* RQST_START_SCAN, RESP_START_SCAN_OK, RQST_STOP_SCAN, with one id, one set of
\* arguments and at most one of each on its way.
THEOREM FieldInvariance == Spec => []FieldInv
<1>1. Init => FieldInv
  <2> SUFFICES ASSUME Init, NEW c \in Clients PROVE FieldOf(c)
    BY DEF FieldInv
  <2>1. mq[c] = <<>> /\ cq[c] = <<>> /\ scan[c] = NullScan
    BY DEF Init, CommInit, ClientInit, Senders
  <2>2. Range(mq[c]) = {} /\ Range(cq[c]) = {} /\ Len(cq[c]) = 0
    BY <2>1, RangeOfEmpty
  <2>3. scan[c].id = NoId /\ ~scan[c].started
    BY <2>1 DEF NullScan, NewScan
  <2>4. \A i \in ScanIds : ~InMap(i)
    BY DEF Init, ScanServiceInit, InMap
  <2>5. \A kinds : Among(mq[c], kinds) = {} /\ Among(cq[c], kinds) = {}
    BY <2>2 DEF Among
  <2>6. IdsOf(c) = {} /\ Stopping(c) = {}
    BY <2>3, <2>4, <2>5 DEF IdsOf, IdsIn, Stopping
  <2>7. AtMostOnce(cq[c], "RESP_START_SCAN_OK")
    BY <2>2 DEF AtMostOnce
  <2> QED
    BY <2>1, <2>3, <2>5, <2>6, <2>7 DEF FieldOf, OneId, StartsAsAsked, ConfirmedOnce, StopsWhatStarted
<1>2. IInv /\ FieldInv /\ [Next]_vars => FieldInv'
  BY FieldInvStep
<1> QED
  BY <1>1, <1>2, Invariance, PTL DEF Spec

\* Whatever is lost, restarted or answered late, the scan field of an activity
\* that has started one scan names a scan the service did start, with the
\* arguments the activity gave it (RESP_SCAN_ID_OK, RESP_START_SCAN_OK).
THEOREM FieldIsTrue == Spec => []ScanFieldIsTrue
<1>1. IInv /\ FieldInv => ScanFieldIsTrue
  BY DEF ScanFieldIsTrue, FieldInv, FieldOf, IInv, TypeOK, ClientTypeOK
<1> QED
  BY <1>1, Invariance, FieldInvariance, PTL
=============================================================================
