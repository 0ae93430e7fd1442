------------------------ MODULE HostDiscovery_proofs ------------------------
(***************************************************************************)
(* Proofs about HostDiscovery: its types, and the safety properties of its *)
(* run, for any networks, discoveries and size of the pool.               *)
(***************************************************************************)
EXTENDS HostDiscovery, AsyncTasks_proofs, FiniteSetTheorems

(***************************************************************************)
(* The inductive invariant.                                                *)
(***************************************************************************)
\* Discoveries are numbered as they are started; the thread of one that is not
\* has done nothing, and one that looks whether it was cancelled has executed a
\* task.
Phases == \A r \in Runs :
  /\ phase[r] = "idle" <=> r > runs
  /\ phase[r] = "idle" => at[r] = 0 /\ stoppedAt[r] = 0
  /\ phase[r] = "check" => at[r] > 0

\* The array has room for every host of the network of the last reset.
ArrayFits == Len(discoveredHosts) = network.nodes

\* Where the hosts that tasks look at, and those they report, come from.
Sound(h, nets) == h \in ArpCache \cup {NoHost} \/ \E r \in Runs : h \in HostsOf(nets[r])

Origins ==
  /\ \A r \in Runs : phase[r] = "idle" => range[r] = NoNetwork
  /\ \A t \in Tasks : Pending(t) => Sound(t.host, range)
  /\ \A i \in 1 .. Len(messages) : Sound(messages[i], range)
  /\ \A h \in reported : Sound(h, range)

\* The thread of a discovery that was cancelled has executed no task since, until
\* it looks.
CancelIsSeen == \A r \in Runs :
  Thread(r) \in cancelled /\ phase[r] \in {"execute", "again", "return"} => at[r] = stoppedAt[r]

\* The types, in parts that steps change together.
ModeSet == Modes \cup {"speed"}
NetSet == Networks \cup {NoNetwork}

TaskType == TasksTypeOK(Tasks, Hosts \cup {NoHost})

TypeRest ==
  /\ network \in NetSet /\ hd \in 0 .. MaxRuns
  /\ started \in BOOLEAN /\ scanned \in BOOLEAN
  /\ progress \in Nat /\ totalHosts \in Nat /\ countPossibleHosts \in Nat
  /\ countDiscoveredhosts \in Nat /\ discoveredHosts \in Seq(Hosts \cup {NoHost})
  /\ discoveryMode \in ModeSet /\ fillMaps \in Seq(Hosts)
  /\ reported \in SUBSET Hosts

TypeThreads ==
  /\ mode \in [Runs -> ModeSet] /\ range \in [Runs -> NetSet] /\ at \in [Runs -> Nat]
  /\ \A r \in Runs : at[r] \in 0 .. Len(Plan(r)) - (IF phase[r] \in {"execute", "again"} THEN 1 ELSE 0)
  /\ phase \in [Runs -> {"idle", "execute", "check", "again", "return", "end"}]
  /\ arpSeen \in [Runs -> SUBSET ArpCache]
  /\ stoppedAt \in [Runs -> Nat]

Bounds == runs \in 0 .. MaxRuns /\ touches \in 0 .. MaxTouches

TypeInv == TaskType /\ TypeRest /\ TypeThreads /\ Bounds
FrameInv == Phases /\ CancelIsSeen /\ StopIsPrompt
FieldInv == ArrayFits /\ ListIsWhatWasReported /\ StopHasATask

IInv == TypeInv /\ FrameInv /\ FieldInv /\ Origins /\ DiesOnlyOf

LEMMA TypesHold == TypeInv => TypeOK
BY DEF TypeInv, TypeOK, TaskType, TypeRest, TypeThreads, Bounds, ModeSet, NetSet

(***************************************************************************)
(* The tasks of a discovery.                                               *)
(***************************************************************************)
LEMMA NetKnown ==
  ASSUME NEW net \in NetSet
  PROVE  /\ net.low \in Nat \ {0} /\ net.nodes \in Nat /\ Size(net) \in Nat /\ Size(net) <= net.nodes
         /\ HostsOf(net) = net.low .. net.low + net.nodes - 1 /\ HostsOf(net) \subseteq Hosts
         /\ IsFiniteSet(HostsOf(net)) /\ Cardinality(HostsOf(net)) = net.nodes
<1>1. net.low \in Nat \ {0} /\ net.nodes \in Nat
  <2>1. CASE net \in Networks
    <3>1. net.low \in Lows /\ net.nodes \in Sizes
      BY <2>1 DEF Networks
    <3> QED
      BY <3>1, DiscoveryAssumption
  <2>2. CASE net = NoNetwork
    BY <2>2 DEF NoNetwork
  <2> QED
    BY <2>1, <2>2 DEF NetSet
<1>2. HostsOf(net) \subseteq Hosts
  <2>1. CASE net \in Networks
    BY <2>1 DEF Hosts
  <2>2. CASE net = NoNetwork
    BY <2>2 DEF HostsOf, NoNetwork
  <2> QED
    BY <2>1, <2>2 DEF NetSet
<1>3. IsFiniteSet(HostsOf(net)) /\ Cardinality(HostsOf(net)) = net.nodes
  <2>1. PICK a, b \in Int : a = net.low /\ b = net.low + net.nodes - 1
    BY <1>1
  <2>2. IsFiniteSet(a .. b) /\ Cardinality(a .. b) = IF a > b THEN 0 ELSE b - a + 1
    BY FS_Interval
  <2>3. HostsOf(net) = a .. b
    BY <2>1 DEF HostsOf
  <2>4. (IF a > b THEN 0 ELSE b - a + 1) = net.nodes
    BY <1>1, <2>1
  <2> QED
    BY <2>2, <2>3, <2>4
<1> QED
  BY <1>1, <1>2, <1>3 DEF HostsOf, Size

LEMMA SweepKnown ==
  ASSUME NEW r \in Runs, NEW kind \in Probes, NEW net \in NetSet
  PROVE  /\ Sweep(r, kind, net) \in Seq(Tasks) /\ Len(Sweep(r, kind, net)) = Size(net)
         /\ \A k \in 1 .. Size(net) : /\ Sweep(r, kind, net)[k].run = r
                                      /\ Sweep(r, kind, net)[k].kind # "Discovery"
                                      /\ Sweep(r, kind, net)[k].host \in HostsOf(net)
<1>1. \A i \in 1 .. Size(net) : net.low + i - 1 \in HostsOf(net) /\ net.low + i - 1 \in Hosts
  BY NetKnown
<1>2. \A i \in 1 .. Size(net) : Probe(r, kind, net.low + i - 1) \in Tasks
  BY <1>1 DEF Probe, Tasks
<1>3. Sweep(r, kind, net) \in [1 .. Size(net) -> Tasks]
  BY <1>2 DEF Sweep
<1>4. Sweep(r, kind, net) \in Seq(Tasks) /\ Len(Sweep(r, kind, net)) = Size(net)
  BY <1>3, NetKnown
<1> QED
  BY <1>1, <1>4 DEF Sweep, Probe, Probes

LEMMA PerHostKnown ==
  ASSUME NEW r \in Runs, NEW net \in NetSet
  PROVE  /\ PerHost(r, net) \in Seq(Tasks) /\ Len(PerHost(r, net)) = 4 * Size(net)
         /\ \A k \in 1 .. 4 * Size(net) : /\ PerHost(r, net)[k].run = r
                                          /\ PerHost(r, net)[k].kind # "Discovery"
                                          /\ PerHost(r, net)[k].host \in HostsOf(net)
<1>1. ASSUME NEW k \in 1 .. 4 * Size(net)
      PROVE  /\ PerHost(r, net)[k] \in Tasks /\ PerHost(r, net)[k].run = r
             /\ PerHost(r, net)[k].kind # "Discovery" /\ PerHost(r, net)[k].host \in HostsOf(net)
  <2>1. net.low + (k + 3) \div 4 - 1 \in HostsOf(net) /\ net.low + (k + 3) \div 4 - 1 \in Hosts
    <3>1. (k + 3) \div 4 \in 1 .. Size(net)
      BY <1>1, NetKnown
    <3> QED
      BY <3>1, NetKnown
  <2>2. k % 4 \in 0 .. 3
    BY <1>1, NetKnown
  <2>3. PICK kind \in {"TCP13", "UDP7", "TCPMultiPort", "ShellPing"} :
          PerHost(r, net)[k] = Probe(r, kind, net.low + (k + 3) \div 4 - 1)
    BY <2>2 DEF PerHost
  <2> QED
    BY <2>1, <2>3 DEF Probe, Tasks, Probes
<1>2. PerHost(r, net) \in [1 .. 4 * Size(net) -> Tasks]
  BY <1>1 DEF PerHost
<1>3. 4 * Size(net) \in Nat
  BY NetKnown
<1> QED
  BY <1>1, <1>2, <1>3

LEMMA PlanKnown ==
  ASSUME NEW m \in ModeSet, NEW r \in Runs, NEW net \in NetSet
  PROVE  /\ PlanOf(m, net, r) \in Seq(Tasks) /\ Len(PlanOf(m, net, r)) \in Nat
         /\ Len(PlanOf(m, net, r)) > 0
         /\ \A k \in 1 .. Len(PlanOf(m, net, r)) :
              /\ PlanOf(m, net, r)[k] \in Tasks /\ PlanOf(m, net, r)[k].run = r
              /\ PlanOf(m, net, r)[k].kind # "Discovery"
              /\ PlanOf(m, net, r)[k].host \in HostsOf(net) \cup {NoHost}
<1> DEFINE Ours(t) == t.run = r /\ t.kind # "Discovery" /\ t.host \in HostsOf(net) \cup {NoHost}
           First == Sweep(r, "isReachable", net) \o <<Arp(r)>>
<1>1. /\ Size(net) \in Nat /\ <<Arp(r)>> \in Seq(Tasks) /\ Len(<<Arp(r)>>) = 1
      /\ Ours(<<Arp(r)>>[1])
  BY NetKnown DEF Arp, Tasks
<1>2. /\ Sweep(r, "isReachable", net) \in Seq(Tasks)
      /\ Len(Sweep(r, "isReachable", net)) = Size(net)
      /\ \A k \in 1 .. Size(net) : Ours(Sweep(r, "isReachable", net)[k])
  BY SweepKnown DEF Probes
<1>3. /\ Sweep(r, "TCPMultiPort", net) \in Seq(Tasks)
      /\ Len(Sweep(r, "TCPMultiPort", net)) = Size(net)
      /\ \A k \in 1 .. Size(net) : Ours(Sweep(r, "TCPMultiPort", net)[k])
  BY SweepKnown DEF Probes
<1>4. /\ PerHost(r, net) \in Seq(Tasks) /\ Len(PerHost(r, net)) = 4 * Size(net)
      /\ \A k \in 1 .. 4 * Size(net) : Ours(PerHost(r, net)[k])
  BY PerHostKnown
<1> HIDE DEF Ours
<1>5. /\ First \in Seq(Tasks) /\ Len(First) = Size(net) + 1
      /\ \A k \in 1 .. Size(net) + 1 : Ours(First[k])
  BY <1>1, <1>2
<1>6. ASSUME NEW rest \in Seq(Tasks), \A k \in 1 .. Len(rest) : Ours(rest[k])
      PROVE  /\ First \o rest \in Seq(Tasks) /\ Len(First \o rest) = Len(First) + Len(rest)
             /\ \A k \in 1 .. Len(First) + Len(rest) : Ours((First \o rest)[k])
  <2> HIDE DEF First
  <2>1. /\ First \o rest \in Seq(Tasks) /\ Len(First \o rest) = Len(First) + Len(rest)
        /\ \A k \in 1 .. Len(First) + Len(rest) :
             (First \o rest)[k] = IF k <= Len(First) THEN First[k] ELSE rest[k - Len(First)]
    BY <1>5
  <2>2. \A k \in 1 .. Len(First) + Len(rest) :
          (k <= Len(First) /\ k \in 1 .. Size(net) + 1) \/ k - Len(First) \in 1 .. Len(rest)
    BY <1>1, <1>5
  <2> QED
    BY <1>5, <1>6, <2>1, <2>2
<1>7. m \in {"speed", "normal", "insane"}
  BY DiscoveryAssumption DEF ModeSet
<1> HIDE DEF First
<1>8. \E rest \in Seq(Tasks) : /\ PlanOf(m, net, r) = First \o rest
                               /\ \A k \in 1 .. Len(rest) : Ours(rest[k])
  <2>1. CASE m = "speed"
    <3>1. PlanOf(m, net, r) = First \o <<>>
      BY <1>5, <2>1 DEF PlanOf, First
    <3>2. <<>> \in Seq(Tasks) /\ \A k \in 1 .. Len(<<>>) : Ours(<<>>[k])
      OBVIOUS
    <3> QED
      BY <3>1, <3>2
  <2>2. CASE m = "normal"
    <3>1. PlanOf(m, net, r) = First \o Sweep(r, "TCPMultiPort", net)
      BY <2>2 DEF PlanOf, First
    <3> QED
      BY <1>3, <3>1
  <2>3. CASE m = "insane"
    <3>1. PlanOf(m, net, r) = First \o PerHost(r, net)
      BY <2>3 DEF PlanOf, First
    <3> QED
      BY <1>4, <3>1
  <2> QED
    BY <1>7, <2>1, <2>2, <2>3
<1>9. PICK rest \in Seq(Tasks) : /\ PlanOf(m, net, r) = First \o rest
                                /\ \A k \in 1 .. Len(rest) : Ours(rest[k])
  BY <1>8
<1>10. PICK plan : plan = PlanOf(m, net, r)
  OBVIOUS
<1>11. /\ plan \in Seq(Tasks) /\ Len(plan) \in Nat /\ Len(plan) > 0
       /\ \A k \in 1 .. Len(plan) : Ours(plan[k])
  BY <1>1, <1>5, <1>6, <1>9, <1>10
<1>12. \A k \in 1 .. Len(plan) : plan[k] \in Tasks
  BY <1>11
<1> QED
  BY <1>10, <1>11, <1>12 DEF Ours

LEMMA ThreadTask == \A r \in Runs : Thread(r) \in Tasks /\ Thread(r).run = r
                                      /\ Thread(r).kind = "Discovery"
BY DEF Thread, Tasks

(***************************************************************************)
(* Steps that leave a part of the state alone.                             *)
(***************************************************************************)
\* The threads of the discoveries stand still, and no task is handed over.
LEMMA ThreadsStand ==
  ASSUME TypeThreads, FrameInv, UNCHANGED <<mode, range, at, phase, stoppedAt, runs>>,
         arpSeen' \in [Runs -> SUBSET ArpCache],
         cancelled' = cancelled, \A x : Pending(x)' => Pending(x)
  PROVE  (TypeThreads /\ FrameInv)'
<1>1. /\ \A r \in Runs : Plan(r)' = Plan(r) /\ Thread(r)' = Thread(r) /\ Last(r)' = Last(r)
      /\ at' = at /\ phase' = phase /\ stoppedAt' = stoppedAt /\ mode' = mode /\ range' = range /\ runs' = runs
  BY DEF Plan, Last
<1>2. TypeThreads'
  BY <1>1 DEF TypeThreads
<1>3. Phases' /\ CancelIsSeen'
  BY <1>1 DEF FrameInv, Phases, CancelIsSeen
<1>4. StopIsPrompt'
  BY <1>1 DEF FrameInv, StopIsPrompt
<1> QED
  BY <1>2, <1>3, <1>4 DEF FrameInv

\* The fields of the controller stand still.
LEMMA FieldsStand ==
  ASSUME TypeRest, FieldInv, UNCHANGED <<fields, reported, runs>>, up
  PROVE  (TypeRest /\ FieldInv)'
<1>1. TypeRest'
  BY DEF TypeRest, fields
<1>2. FieldInv'
  BY DEF FieldInv, ArrayFits, ListIsWhatWasReported, StopHasATask, fields
<1> QED
  BY <1>1, <1>2

\* Networks are only added to the discoveries; no task or message is new, but
\* for sound ones.
LEMMA OriginsKept ==
  ASSUME Origins, TaskType,
         \A r \in Runs : range'[r] = range[r] \/ range[r] = NoNetwork,
         \A r \in Runs : phase'[r] = "idle" => phase[r] = "idle" /\ range'[r] = range[r],
         \A t \in Tasks : Pending(t)' => Pending(t) \/ Sound(t.host, range'),
         \/ messages' = messages
         \/ messages # <<>> /\ messages' = Tail(messages)
         \/ \E m \in Hosts \cup {NoHost} : Sound(m, range') /\ messages' = Append(messages, m),
         \A h \in reported' : h \in reported \/ Sound(h, range')
  PROVE  Origins'
<1>1. \A h : Sound(h, range) => Sound(h, range')
  BY DEF Sound, HostsOf, NoNetwork
<1>2. \A i \in 1 .. Len(messages') : Sound(messages'[i], range')
  <2>1. messages \in Seq(Hosts \cup {NoHost}) /\ \A i \in 1 .. Len(messages) : Sound(messages[i], range')
    BY <1>1 DEF Origins, TaskType, TasksTypeOK
  <2> HIDE DEF Sound
  <2>2. CASE messages' = messages
    BY <2>1, <2>2
  <2>3. CASE messages # <<>> /\ messages' = Tail(messages)
    <3>1. Len(messages') = Len(messages) - 1 /\ Len(messages) \in Nat
          /\ \A i \in 1 .. Len(messages) - 1 : messages'[i] = messages[i + 1]
      BY <2>1, <2>3
    <3> QED
      BY <2>1, <3>1
  <2>4. ASSUME NEW m \in Hosts \cup {NoHost}, Sound(m, range'), messages' = Append(messages, m)
        PROVE  \A i \in 1 .. Len(messages') : Sound(messages'[i], range')
    <3>1. Len(messages') = Len(messages) + 1 /\ Len(messages) \in Nat /\ messages'[Len(messages) + 1] = m
          /\ \A i \in 1 .. Len(messages) : messages'[i] = messages[i]
      BY <2>1, <2>4
    <3> TAKE i \in 1 .. Len(messages')
    <3>2. i \in 1 .. Len(messages) \/ i = Len(messages) + 1
      BY <3>1
    <3> QED
      BY <2>1, <2>4, <3>1, <3>2
  <2> QED
    BY <2>2, <2>3, <2>4
<1> QED
  BY <1>1, <1>2 DEF Origins

LEMMA OriginsStand ==
  ASSUME Origins, TaskType, range' = range,
         \A r \in Runs : phase'[r] = "idle" => phase[r] = "idle",
         \A x : Pending(x)' => Pending(x), messages' = messages, reported' \subseteq reported
  PROVE  Origins'
BY OriginsKept

LEMMA ParametersKnown ==
  /\ MaxRuns \in Nat /\ MaxTouches \in Nat /\ NoNetwork \in NetSet
  /\ Modes \subseteq ModeSet /\ "speed" \in ModeSet
  /\ ArpCache \subseteq Hosts /\ NoHost \notin Hosts /\ NoNetwork.nodes = 0
  /\ \A m \in ModeSet, n \in Nat : Total(m, n) \in Nat
<1>1. NoHost \notin Hosts
  <2>1. \A net \in Networks : NoHost \notin HostsOf(net)
    BY NetKnown DEF NetSet, NoHost
  <2> QED
    BY <2>1, DiscoveryAssumption DEF Hosts, NoHost
<1> QED
  BY <1>1, DiscoveryAssumption DEF ModeSet, NetSet, NoNetwork, Hosts, Total

(***************************************************************************)
(* The controller.                                                         *)
(***************************************************************************)
LEMMA EmptyArray ==
  ASSUME NEW net \in NetSet
  PROVE  /\ [i \in 1 .. net.nodes |-> NoHost] \in Seq(Hosts \cup {NoHost})
         /\ Len([i \in 1 .. net.nodes |-> NoHost]) = net.nodes
<1>1. net.nodes \in Nat /\ [i \in 1 .. net.nodes |-> NoHost] \in [1 .. net.nodes -> Hosts \cup {NoHost}]
  BY NetKnown
<1> QED
  BY <1>1

LEMMA ResetEffect ==
  ASSUME NEW net \in NetSet, NEW m \in ModeSet, TypeRest, Reset(net, m)
  PROVE  /\ progress' = 0 /\ totalHosts' \in Nat /\ countDiscoveredhosts' = 0
         /\ discoveredHosts' \in Seq(Hosts \cup {NoHost}) /\ Len(discoveredHosts') = net.nodes
         /\ fillMaps' = <<>> /\ reported' = {} /\ ListIsWhatWasReported'
<1>1. ListIsWhatWasReported'
  BY DEF Reset, ListIsWhatWasReported
<1>2. totalHosts' \in Nat
  BY NetKnown, ParametersKnown DEF Reset, TypeRest
<1> QED
  BY <1>1, <1>2, EmptyArray DEF Reset

LEMMA SetModeStep ==
  ASSUME IInv, NEW m \in Modes, SetMode(m)
  PROVE  IInv'
<1>1. TypeRest /\ TypeThreads /\ TaskType /\ FrameInv /\ FieldInv
  BY DEF IInv, TypeInv
<1>2. (TypeThreads /\ FrameInv)'
  <2>1. UNCHANGED <<threadVars, stoppedAt, runs>> /\ cancelled' = cancelled
        /\ \A x : Pending(x)' => Pending(x)
    BY DEF SetMode, taskVars, history, Pending, Queued
  <2> QED
    BY <1>1, <2>1, ThreadsStand DEF threadVars, TypeThreads
<1>3. TypeRest' /\ TaskType' /\ FieldInv' /\ up'
  <2>1. TypeRest'
    BY <1>1, ParametersKnown DEF SetMode, TypeRest, history
  <2>2. TaskType' /\ up'
    BY <1>1 DEF SetMode, TaskType, TasksTypeOK, taskVars
  <2>3. FieldInv'
    BY <1>1 DEF SetMode, FieldInv, ArrayFits, ListIsWhatWasReported, StopHasATask, taskVars, history
  <2> QED
    BY <2>1, <2>2, <2>3
<1>4. Bounds'
  BY ParametersKnown DEF SetMode, IInv, TypeInv, Bounds
<1>5. Origins'
  BY <1>1, OriginsStand DEF IInv, SetMode, threadVars, taskVars, history, Pending, Queued
<1> QED
  BY <1>2, <1>3, <1>4, <1>5 DEF IInv, TypeInv, DiesOnlyOf

LEMMA ResetAppStep ==
  ASSUME IInv, NEW net \in NetSet, ResetApp(net)
  PROVE  IInv'
<1>1. TypeRest /\ TypeThreads /\ TaskType /\ FrameInv /\ FieldInv
  BY DEF IInv, TypeInv
<1>2. (TypeThreads /\ FrameInv)'
  <2>1. UNCHANGED <<threadVars, stoppedAt, runs>> /\ cancelled' = cancelled
        /\ \A x : Pending(x)' => Pending(x)
    BY DEF ResetApp, taskVars, Pending, Queued
  <2> QED
    BY <1>1, <2>1, ThreadsStand DEF threadVars, TypeThreads
<1>3. /\ progress' = 0 /\ totalHosts' \in Nat /\ countDiscoveredhosts' = 0
      /\ discoveredHosts' \in Seq(Hosts \cup {NoHost}) /\ Len(discoveredHosts') = net.nodes
      /\ fillMaps' = <<>> /\ reported' = {} /\ ListIsWhatWasReported'
  BY <1>1, ResetEffect, ParametersKnown DEF ResetApp
<1>4. TypeRest' /\ FieldInv'
  <2>1. TypeRest'
    <3>1. /\ hd' = 0 /\ started' = FALSE /\ scanned' = FALSE /\ network' = net
          /\ discoveryMode' = "speed" /\ countPossibleHosts' = net.nodes
      BY DEF ResetApp
    <3>2. countPossibleHosts' \in Nat /\ hd' \in 0 .. MaxRuns /\ fillMaps' \in Seq(Hosts)
      BY <1>3, <3>1, ParametersKnown, NetKnown
    <3> QED
      BY <1>3, <3>1, <3>2, ParametersKnown DEF TypeRest
  <2>2. FieldInv'
    BY <1>3 DEF ResetApp, FieldInv, ArrayFits, StopHasATask
  <2> QED
    BY <2>1, <2>2
<1>5. TaskType' /\ up'
  BY <1>1 DEF ResetApp, TaskType, TasksTypeOK, taskVars
<1>6. Bounds'
  BY ParametersKnown DEF ResetApp, IInv, TypeInv, Bounds
<1>7. Origins'
  BY <1>1, <1>3, OriginsStand DEF IInv, ResetApp, threadVars, taskVars, Pending, Queued
<1> QED
  BY <1>2, <1>4, <1>5, <1>6, <1>7 DEF IInv, TypeInv, DiesOnlyOf

LEMMA StopStep ==
  ASSUME IInv, Stop
  PROVE  IInv'
<1>1. TypeRest /\ TypeThreads /\ TaskType /\ FrameInv /\ FieldInv
  BY DEF IInv, TypeInv
<1>2. /\ hd \in Runs /\ hd = runs /\ up /\ Cancel(Thread(hd)) /\ started' = FALSE /\ scanned' = TRUE
      /\ stoppedAt' = [stoppedAt EXCEPT ![hd] = at[hd]]
  <2>1. hd = runs /\ hd # 0
    BY DEF Stop, IInv, FieldInv, StopHasATask
  <2>2. hd \in Runs
    BY <1>1, <2>1, ParametersKnown DEF TypeRest, Runs
  <2> QED
    BY <2>1, <2>2 DEF Stop
<1>3. /\ cancelled' = CancelledWith(Thread(hd)) /\ UNCHANGED <<queue, running, threads, messages, up>>
  BY <1>2 DEF Cancel
<1>4. /\ CancelledWith(Thread(hd)) \in SUBSET Tasks /\ cancelled \subseteq CancelledWith(Thread(hd))
      /\ CancelledWith(Thread(hd)) \subseteq cancelled \cup {Thread(hd)}
  BY <1>1, CancelEffect DEF TaskType
<1>5. TaskType' /\ up'
  BY <1>1, <1>2, <1>3, <1>4 DEF TaskType, TasksTypeOK
<1>6. TypeRest' /\ FieldInv'
  <2>1. TypeRest'
    BY <1>1, <1>2 DEF Stop, TypeRest
  <2>2. FieldInv'
    BY <1>1, <1>2 DEF Stop, FieldInv, ArrayFits, ListIsWhatWasReported, StopHasATask, Cancel
  <2> QED
    BY <2>1, <2>2
<1>7. /\ \A r \in Runs : Plan(r)' = Plan(r) /\ Thread(r)' = Thread(r) /\ Last(r)' = Last(r)
      /\ at' = at /\ phase' = phase /\ mode' = mode /\ range' = range /\ runs' = runs /\ arpSeen' = arpSeen
      /\ Bounds' /\ \A x : Pending(x)' <=> Pending(x)
  BY <1>3 DEF IInv, TypeInv, Bounds, Stop, threadVars, Plan, Last, Pending, Queued
<1>8. TypeThreads'
  BY <1>1, <1>2, <1>7 DEF TypeThreads
<1>9. \A r \in Runs : /\ r # hd => stoppedAt'[r] = stoppedAt[r]
                                  /\ (Thread(r) \in cancelled' => Thread(r) \in cancelled)
                      /\ stoppedAt'[hd] = at[hd] /\ at[r] \in Nat
  BY <1>1, <1>2, <1>3, <1>4 DEF TypeThreads, Thread
<1>10. Phases'
  BY <1>1, <1>2, <1>7, <1>9 DEF FrameInv, Phases, Runs
<1>11. CancelIsSeen' /\ StopIsPrompt'
  BY <1>1, <1>2, <1>3, <1>4, <1>7, <1>9 DEF FrameInv, CancelIsSeen, StopIsPrompt
<1>12. Origins'
  BY <1>1, <1>3, <1>7, OriginsStand DEF IInv, Stop
<1> QED
  BY <1>5, <1>6, <1>7, <1>8, <1>10, <1>11, <1>12 DEF IInv, TypeInv, FrameInv, DiesOnlyOf

\* The task executed last belongs to its discovery, and is not its thread.
LEMMA LastKnown ==
  ASSUME TypeThreads, NEW r \in Runs, NEW k \in 1 .. Len(Plan(r))
  PROVE  /\ Plan(r)[k] \in Tasks /\ Plan(r)[k].run = r /\ Plan(r)[k].kind # "Discovery"
         /\ Sound(Plan(r)[k].host, range)
<1>1. mode[r] \in ModeSet /\ range[r] \in NetSet
  BY DEF TypeThreads
<1> QED
  BY <1>1, PlanKnown DEF Plan, Sound

LEMMA StartStep ==
  ASSUME IInv, Start
  PROVE  IInv'
<1>1. TypeRest /\ TypeThreads /\ TaskType /\ FrameInv /\ FieldInv /\ Bounds /\ up
  BY DEF IInv, TypeInv, Start
<1>2. /\ progress' = 0 /\ totalHosts' \in Nat /\ countDiscoveredhosts' = 0
      /\ discoveredHosts' \in Seq(Hosts \cup {NoHost})
      /\ Len(discoveredHosts') = network.nodes
      /\ fillMaps' = <<>> /\ reported' = {} /\ ListIsWhatWasReported'
  <2>1. network \in NetSet /\ discoveryMode \in ModeSet /\ Reset(network, discoveryMode)
    BY <1>1 DEF TypeRest, Start
  <2> QED
    BY <1>1, <2>1, ResetEffect
<1>3. network' = network /\ discoveryMode' = discoveryMode /\ at' = at /\ arpSeen' = arpSeen
      /\ stoppedAt' = stoppedAt /\ touches' = touches
  BY DEF Start
<1>4. ArrayFits'
  BY <1>2, <1>3 DEF ArrayFits
<1>5. CASE connected
  <2>1. PICK r0 \in Runs : r0 = runs + 1 /\ r0 \in 0 .. MaxRuns /\ r0 # 0
    BY <1>1, ParametersKnown DEF Bounds, Runs, Start
  <2>2. /\ runs' = r0 /\ hd' = r0 /\ started' = TRUE /\ scanned' = TRUE /\ countPossibleHosts' = Size(network)
        /\ Execute(Thread(r0))
        /\ range' = [range EXCEPT ![r0] = network]
        /\ mode' = [mode EXCEPT ![r0] = discoveryMode] /\ phase' = [phase EXCEPT ![r0] = "execute"]
    BY <1>5, <2>1 DEF Start
  <2>3. /\ phase[r0] = "idle" /\ at[r0] = 0 /\ stoppedAt[r0] = 0
    BY <1>1, <2>1, ParametersKnown DEF FrameInv, Phases, Bounds, Runs
  <2>4. TaskType' /\ cancelled' = cancelled /\ messages' = messages /\ DiesOnlyOf'
        /\ \A x : Pending(x)' => Pending(x) \/ x = Thread(r0)
    <3>1. CASE Accept(Thread(r0))
      <4>1. Thread(r0) \in Tasks
        BY <2>1, ThreadTask
      <4> QED
        BY <1>1, <3>1, <4>1, AcceptEffect DEF TaskType, DiesOnlyOf
    <3>2. CASE Full /\ Dies
      <4>1. threads' = threads /\ queue' = queue /\ threads >= MaxPool /\ Len(queue) >= QueueSize
        BY <3>2 DEF Full, Dies
      <4>2. threads \in 0 .. MaxPool /\ Len(queue) <= QueueSize /\ Len(queue) \in Nat
        BY <1>1 DEF TaskType, TasksTypeOK
      <4>3. DiesOnlyOf'
        BY <4>1, <4>2, PoolAssumption DEF DiesOnlyOf
      <4> QED
        BY <1>1, <3>2, <4>3, DiesEffect DEF TaskType
    <3> QED
      BY <2>2, <3>1, <3>2 DEF Execute
  <2>5. TypeRest' /\ StopHasATask' /\ Bounds'
    <3>1. TypeRest'
      <4>1. countPossibleHosts' \in Nat
        BY <1>1, <2>2, NetKnown DEF TypeRest
      <4> QED
        BY <1>1, <1>2, <1>3, <2>1, <2>2, <4>1, ParametersKnown DEF TypeRest
    <3> QED
      BY <1>1, <1>3, <2>1, <2>2, <3>1 DEF StopHasATask, Bounds
  <2>6. \A r \in Runs : /\ r # r0 => Plan(r)' = Plan(r) /\ Last(r)' = Last(r) /\ phase'[r] = phase[r]
                        /\ Thread(r)' = Thread(r)
    BY <1>1, <1>3, <2>2 DEF TypeThreads, Plan, Last, Thread
  <2>7. phase'[r0] = "execute" /\ Len(Plan(r0)') \in Nat /\ Len(Plan(r0)') > 0
    <3>1. mode'[r0] = discoveryMode /\ phase'[r0] = "execute" /\ range'[r0] = network
      BY <1>1, <2>1, <2>2 DEF TypeThreads
    <3>2. Plan(r0)' = PlanOf(mode'[r0], range'[r0], r0)
      BY DEF Plan
    <3> QED
      BY <1>1, <2>1, <3>1, <3>2, PlanKnown DEF TypeRest
  <2>8. TypeThreads'
    <3>1. \A r \in Runs : at'[r] \in 0 .. Len(Plan(r)') - (IF phase'[r] \in {"execute", "again"} THEN 1 ELSE 0)
      <4> TAKE r \in Runs
      <4>1. CASE r = r0
        BY <1>3, <2>3, <2>7, <4>1
      <4>2. CASE r # r0
        <5>1. at'[r] = at[r] /\ Plan(r)' = Plan(r) /\ phase'[r] = phase[r]
          BY <1>3, <2>6, <4>2
        <5> QED
          BY <1>1, <5>1 DEF TypeThreads
      <4> QED
        BY <4>1, <4>2
    <3>2. mode' \in [Runs -> ModeSet] /\ range' \in [Runs -> NetSet]
          /\ phase' \in [Runs -> {"idle", "execute", "check", "again", "return", "end"}]
      BY <1>1, <2>2 DEF TypeThreads, TypeRest
    <3> QED
      BY <1>1, <1>3, <3>1, <3>2 DEF TypeThreads
  <2>9. Phases' /\ CancelIsSeen'
    <3>1. Phases'
      <4> SUFFICES ASSUME NEW r \in Runs
                   PROVE  /\ phase'[r] = "idle" <=> r > r0
                          /\ phase'[r] = "idle" => at[r] = 0 /\ stoppedAt[r] = 0
                          /\ phase'[r] = "check" => at[r] > 0
        BY <1>3, <2>2 DEF Phases
      <4>1. CASE r = r0
        BY <2>1, <2>7, <4>1 DEF Runs
      <4>2. CASE r # r0
        <5>1. phase'[r] = phase[r] /\ (r > r0 <=> r > runs)
          BY <1>1, <2>1, <2>6, <4>2 DEF Runs, Bounds
        <5> QED
          BY <1>1, <5>1 DEF FrameInv, Phases
      <4> QED
        BY <4>1, <4>2
    <3>2. CancelIsSeen'
      BY <1>1, <1>3, <2>3, <2>4, <2>6 DEF FrameInv, CancelIsSeen
    <3> QED
      BY <3>1, <3>2
  <2>10. StopIsPrompt'
    <3> SUFFICES ASSUME NEW r \in Runs, Thread(r) \in cancelled
                 PROVE  /\ at[r] <= stoppedAt[r] + 1
                        /\ phase'[r] = "end" /\ stoppedAt[r] < at[r] /\ at[r] < Len(Plan(r)')
                             /\ Pending(Last(r))' => Last(r)' \in cancelled
      BY <1>3, <2>4, <2>6 DEF StopIsPrompt
    <3>1. CASE r = r0
      BY <2>3, <2>7, <3>1
    <3>2. CASE r # r0
      <4>1. Last(r)' = Last(r) /\ Plan(r)' = Plan(r) /\ phase'[r] = phase[r]
        BY <2>6, <3>2
      <4>2. ASSUME stoppedAt[r] < at[r], at[r] < Len(Plan(r)), Pending(Last(r))'
            PROVE  Pending(Last(r))
        <5>1. at[r] \in 1 .. Len(Plan(r))
          BY <1>1, <4>2 DEF TypeThreads
        <5>2. Last(r).kind # "Discovery"
          BY <1>1, <5>1, LastKnown DEF Last
        <5>3. Last(r) # Thread(r0)
          BY <5>2, <2>1, ThreadTask
        <5> QED
          BY <2>4, <4>1, <4>2, <5>3
      <4> QED
        BY <1>1, <4>1, <4>2 DEF FrameInv, StopIsPrompt
    <3> QED
      BY <3>1, <3>2
  <2>11. Origins'
    <3>1. range[r0] = NoNetwork
      BY <2>1, <2>3 DEF IInv, Origins
    <3>2. \A r \in Runs : range'[r] = range[r] \/ range[r] = NoNetwork
      BY <1>1, <2>2, <3>1 DEF TypeThreads
    <3>3. \A r \in Runs : phase'[r] = "idle" => phase[r] = "idle" /\ range'[r] = range[r]
      BY <1>1, <2>1, <2>2, <2>7 DEF TypeThreads
    <3>4. Sound(Thread(r0).host, range')
      BY DEF Sound, Thread
    <3> QED
      BY <1>1, <1>2, <2>4, <3>2, <3>3, <3>4, OriginsKept DEF IInv
  <2> QED
    BY <1>2, <1>4, <2>4, <2>5, <2>8, <2>9, <2>10, <2>11 DEF IInv, TypeInv, FrameInv, FieldInv
<1>6. CASE ~connected
  <2>1. /\ hd' = 0 /\ started' = FALSE /\ scanned' = FALSE /\ countPossibleHosts' = 0
        /\ UNCHANGED <<taskVars, runs, mode, range, phase>>
    BY <1>6 DEF Start
  <2>2. TaskType' /\ up' /\ cancelled' = cancelled /\ \A x : Pending(x)' => Pending(x)
    BY <1>1, <2>1 DEF TaskType, TasksTypeOK, taskVars, Pending, Queued
  <2>3. (TypeThreads /\ FrameInv)'
    BY <1>1, <1>3, <2>1, <2>2, ThreadsStand DEF TypeThreads
  <2>4. TypeRest' /\ Bounds'
    <3>1. hd' \in 0 .. MaxRuns /\ countPossibleHosts' \in Nat /\ fillMaps' \in Seq(Hosts)
          /\ started' \in BOOLEAN /\ scanned' \in BOOLEAN /\ reported' \in SUBSET Hosts
      <4>1. hd' \in 0 .. MaxRuns /\ countPossibleHosts' \in Nat
        BY <2>1, ParametersKnown
      <4>2. started' \in BOOLEAN /\ scanned' \in BOOLEAN /\ reported' \in SUBSET Hosts
        BY <1>2, <2>1
      <4>3. fillMaps' \in Seq(Hosts)
        BY <1>2
      <4> QED
        BY <4>1, <4>2, <4>3
    <3>2. TypeRest'
      BY <1>1, <1>2, <1>3, <3>1, ParametersKnown DEF TypeRest
    <3> QED
      BY <1>1, <1>3, <2>1, <3>2 DEF Bounds
  <2>5. StopHasATask'
    BY <2>1 DEF StopHasATask
  <2>6. Origins'
    BY <1>1, <1>2, <2>1, <2>2, OriginsStand DEF IInv, taskVars
  <2> QED
    BY <1>2, <1>4, <2>2, <2>3, <2>4, <2>5, <2>6 DEF IInv, TypeInv, FieldInv, DiesOnlyOf
<1> QED
  BY <1>5, <1>6

(***************************************************************************)
(* The thread of a discovery.                                              *)
(***************************************************************************)
PhaseSet == {"idle", "execute", "check", "again", "return", "end"}

\* One thread moves, and keeps its part of the invariant; the tasks of the other
\* discoveries stay as they are, or end.
LEMMA ThreadMoves ==
  ASSUME TypeThreads, FrameInv, NEW r \in Runs, NEW n \in 0 .. Len(Plan(r)), NEW p \in PhaseSet,
         at' = [at EXCEPT ![r] = n], phase' = [phase EXCEPT ![r] = p],
         UNCHANGED <<mode, range, arpSeen, stoppedAt, runs>>,
         phase[r] # "idle", p # "idle",
         p \in {"execute", "again"} => n < Len(Plan(r)), p = "check" => n > 0,
         Thread(r) \in cancelled' =>
           /\ p \in {"execute", "again", "return"} => n = stoppedAt[r]
           /\ n <= stoppedAt[r] + 1
           /\ p = "end" /\ stoppedAt[r] < n /\ n < Len(Plan(r)) /\ Pending(Plan(r)[n])'
                => Plan(r)[n] \in cancelled',
         cancelled \subseteq cancelled',
         \A q \in Runs : q # r /\ Thread(q) \in cancelled' => Thread(q) \in cancelled,
         \A x \in Tasks : x.run # r /\ Pending(x)' => Pending(x)
  PROVE  (TypeThreads /\ FrameInv)'
<1>1. /\ at'[r] = n /\ phase'[r] = p
      /\ \A q \in Runs : q # r => at'[q] = at[q] /\ phase'[q] = phase[q]
  BY DEF TypeThreads
<1>2. \A q \in Runs : Plan(q)' = Plan(q) /\ Thread(q)' = Thread(q)
  BY DEF Plan, Thread
<1>3. \A q \in Runs : Len(Plan(q)) \in Nat /\ at[q] \in Nat
  <2>1. \A q \in Runs : mode[q] \in ModeSet /\ range[q] \in NetSet /\ at[q] \in Nat
    BY DEF TypeThreads
  <2> QED
    BY <2>1, PlanKnown DEF Plan
<1>4. TypeThreads'
  <2>1. \A q \in Runs : at'[q] \in 0 .. Len(Plan(q)') - (IF phase'[q] \in {"execute", "again"} THEN 1 ELSE 0)
    <3> TAKE q \in Runs
    <3>1. CASE q = r
      BY <1>1, <1>2, <1>3, <3>1
    <3>2. CASE q # r
      BY <1>1, <1>2, <3>2 DEF TypeThreads
    <3> QED
      BY <3>1, <3>2
  <2>2. at' \in [Runs -> Nat] /\ phase' \in [Runs -> PhaseSet]
    BY <1>3 DEF TypeThreads, PhaseSet
  <2> QED
    BY <2>1, <2>2 DEF TypeThreads, PhaseSet
<1>5. Phases' /\ CancelIsSeen'
  <2>1. Phases'
    <3> SUFFICES ASSUME NEW q \in Runs
                 PROVE  /\ phase'[q] = "idle" <=> q > runs
                        /\ phase'[q] = "idle" => at'[q] = 0 /\ stoppedAt[q] = 0
                        /\ phase'[q] = "check" => at'[q] > 0
      BY DEF Phases
    <3>1. CASE q = r
      BY <1>1, <3>1 DEF FrameInv, Phases
    <3>2. CASE q # r
      BY <1>1, <3>2 DEF FrameInv, Phases
    <3> QED
      BY <3>1, <3>2
  <2>2. CancelIsSeen'
    BY <1>1, <1>2 DEF FrameInv, CancelIsSeen
  <2> QED
    BY <2>1, <2>2
<1>6. StopIsPrompt'
  <2> SUFFICES ASSUME NEW q \in Runs, Thread(q) \in cancelled'
               PROVE  /\ at'[q] <= stoppedAt[q] + 1
                      /\ /\ phase'[q] = "end" /\ stoppedAt[q] < at'[q]
                         /\ at'[q] < Len(Plan(q)) /\ Pending(Last(q))'
                         => Last(q)' \in cancelled'
    BY <1>2 DEF StopIsPrompt
  <2>1. Last(q)' = Plan(q)[at'[q]]
    BY <1>2 DEF Last
  <2>2. CASE q = r
    <3>1. Last(q)' = Plan(r)[n] /\ (Pending(Last(q))' <=> Pending(Plan(r)[n])')
      BY <1>1, <1>2, <2>1, <2>2 DEF Last, Pending
    <3> QED
      BY <1>1, <2>2, <3>1
  <2>3. CASE q # r
    <3>1. Last(q)' = Last(q) /\ Thread(q) \in cancelled
      BY <1>1, <1>2, <2>1, <2>3 DEF Last
    <3>2. ASSUME stoppedAt[q] < at[q], at[q] < Len(Plan(q)), Pending(Last(q))'
          PROVE  Pending(Last(q))
      <4>1. at[q] \in 1 .. Len(Plan(q)) 
        <5>1. stoppedAt[q] \in Nat
          BY DEF TypeThreads
        <5> QED
          BY <1>3, <3>2, <5>1
      <4>2. Last(q) \in Tasks /\ Last(q).run = q
        BY <4>1, LastKnown DEF Last
      <4>3. Pending(Last(q))' => \E x \in Tasks : x = Last(q) /\ Pending(x)'
        BY <3>1, <4>2 DEF Pending
      <4> QED
        BY <2>3, <3>2, <4>2, <4>3
    <3> QED
      BY <1>1, <2>3, <3>1, <3>2 DEF FrameInv, StopIsPrompt
  <2> QED
    BY <2>2, <2>3
<1> QED
  BY <1>4, <1>5, <1>6 DEF FrameInv

LEMMA ExecuteNextStep ==
  ASSUME IInv, NEW r \in Runs, ExecuteNext(r)
  PROVE  IInv'
<1>1. /\ TypeRest /\ TypeThreads /\ TaskType /\ FrameInv /\ FieldInv /\ Bounds /\ up
      /\ phase[r] = "execute" /\ Thread(r) \in running
      /\ UNCHANGED <<fields, mode, range, arpSeen, history, runs, touches>>
  BY DEF IInv, TypeInv, ExecuteNext, Active
<1>2. /\ at[r] + 1 \in 1 .. Len(Plan(r)) /\ at[r] \in Nat /\ at[r] < Len(Plan(r))
      /\ (Thread(r) \in cancelled => at[r] = stoppedAt[r])
      /\ at = [at EXCEPT ![r] = at[r]] /\ at[r] \in 0 .. Len(Plan(r)) /\ Len(Plan(r)) \in Nat
  <2>1. mode[r] \in ModeSet /\ range[r] \in NetSet /\ at[r] \in Nat /\ at[r] \in 0 .. Len(Plan(r)) - 1
        /\ at = [at EXCEPT ![r] = at[r]]
    BY <1>1 DEF TypeThreads
  <2>2. Len(Plan(r)) \in Nat
    BY <2>1, PlanKnown DEF Plan
  <2>3. Thread(r) \in cancelled => at[r] = stoppedAt[r]
    BY <1>1 DEF FrameInv, CancelIsSeen
  <2> QED
    BY <2>1, <2>2, <2>3
<1>3. (TypeRest /\ FieldInv)' /\ Bounds'
  BY <1>1, FieldsStand DEF history, Bounds
<1>4. CASE /\ Accept(Plan(r)[at[r] + 1])
           /\ at' = [at EXCEPT ![r] = @ + 1] /\ phase' = [phase EXCEPT ![r] = "check"]
  <2>1. /\ Plan(r)[at[r] + 1] \in Tasks /\ Plan(r)[at[r] + 1].run = r
        /\ Plan(r)[at[r] + 1].kind # "Discovery"
    BY <1>1, <1>2, LastKnown
  <2>2. /\ TaskType' /\ cancelled' = cancelled /\ up' = up
        /\ \A x : Pending(x)' <=> Pending(x) \/ x = Plan(r)[at[r] + 1]
    BY <1>1, <1>4, <2>1, AcceptEffect DEF TaskType
  <2>3. (TypeThreads /\ FrameInv)'
    <3>1. at' = [at EXCEPT ![r] = at[r] + 1] /\ at[r] + 1 \in 0 .. Len(Plan(r)) /\ at[r] + 1 > 0
      BY <1>2, <1>4
    <3>2. \A x \in Tasks : x.run # r /\ Pending(x)' => Pending(x)
      BY <2>1, <2>2
    <3>3. UNCHANGED <<mode, range, arpSeen, stoppedAt, runs>> /\ "check" \in PhaseSet
      BY <1>1 DEF history, PhaseSet
    <3>4. Thread(r) \in cancelled' => at[r] + 1 <= stoppedAt[r] + 1
      BY <1>2, <2>2
    <3> QED
      BY <1>1, <1>4, <2>2, <3>1, <3>2, <3>3, <3>4, ThreadMoves
  <2>4. Origins'
    <3>1. Sound(Plan(r)[at[r] + 1].host, range)
      BY <1>1, <1>2, LastKnown
    <3>2. \A q \in Runs : phase'[q] = "idle" => phase[q] = "idle"
      BY <1>1, <1>4 DEF TypeThreads
    <3>3. messages' = messages /\ range' = range /\ reported' = reported
      BY <1>1, <1>4 DEF Accept, history
    <3> QED
      BY <1>1, <2>2, <3>1, <3>2, <3>3, OriginsKept DEF IInv
  <2> QED
    BY <1>1, <1>3, <2>2, <2>3, <2>4 DEF IInv, TypeInv, DiesOnlyOf
<1>5. CASE /\ Full /\ Throws(Thread(r))
           /\ phase' = [phase EXCEPT ![r] = "end"] /\ UNCHANGED at
  <2>1. /\ TaskType' /\ cancelled' = cancelled /\ \A x : Pending(x)' => Pending(x)
        /\ messages' = messages
    <3>1. CASE ReturnSilently(Thread(r))
      BY <1>1, <3>1, ReturnSilentlyEffect DEF TaskType
    <3>2. CASE Dies
      BY <1>1, <3>2, DiesEffect DEF TaskType
    <3> QED
      BY <1>5, <3>1, <3>2 DEF Throws
  <2>2. DiesOnlyOf'
    <3>1. threads' = threads /\ queue' = queue /\ threads >= MaxPool /\ Len(queue) >= QueueSize
      BY <1>5 DEF Full, Throws, ReturnSilently, Dies
    <3>2. threads \in 0 .. MaxPool /\ Len(queue) <= QueueSize /\ Len(queue) \in Nat
      BY <1>1 DEF TaskType, TasksTypeOK
    <3> QED
      BY <3>1, <3>2, PoolAssumption DEF DiesOnlyOf
  <2>3. (TypeThreads /\ FrameInv)'
    <3>1. at' = [at EXCEPT ![r] = at[r]]
      BY <1>2, <1>5
    <3>2. UNCHANGED <<mode, range, arpSeen, stoppedAt, runs>> /\ "end" \in PhaseSet
      BY <1>1 DEF history, PhaseSet
    <3>3. Thread(r) \in cancelled' => at[r] <= stoppedAt[r] + 1 /\ ~(stoppedAt[r] < at[r])
      BY <1>2, <2>1
    <3> QED
      BY <1>1, <1>2, <1>5, <2>1, <3>1, <3>2, <3>3, ThreadMoves
  <2>4. Origins'
    BY <1>1, <1>5, <2>1, OriginsStand DEF IInv, TypeThreads, history
  <2> QED
    BY <1>3, <2>1, <2>2, <2>3, <2>4 DEF IInv, TypeInv
<1> QED
  BY <1>4, <1>5 DEF ExecuteNext

LEMMA CheckCancelledStep ==
  ASSUME IInv, NEW r \in Runs, CheckCancelled(r)
  PROVE  IInv'
<1>1. /\ TypeRest /\ TypeThreads /\ TaskType /\ FrameInv /\ FieldInv /\ Bounds /\ up
      /\ phase[r] = "check" /\ Thread(r) \in running
      /\ UNCHANGED <<fields, mode, range, at, arpSeen, history, runs, touches>>
  BY DEF IInv, TypeInv, CheckCancelled, Active
<1>2. /\ at[r] \in 1 .. Len(Plan(r)) /\ at[r] \in Nat /\ Len(Plan(r)) \in Nat
      /\ at' = [at EXCEPT ![r] = at[r]]
  <2>1. mode[r] \in ModeSet /\ range[r] \in NetSet /\ at[r] \in Nat /\ at[r] \in 0 .. Len(Plan(r)) /\ at[r] > 0
        /\ at = [at EXCEPT ![r] = at[r]]
    BY <1>1 DEF TypeThreads, FrameInv, Phases
  <2>2. Len(Plan(r)) \in Nat
    BY <2>1, PlanKnown DEF Plan
  <2> QED
    BY <1>1, <2>1, <2>2
<1>3. (TypeRest /\ FieldInv)' /\ Bounds'
  BY <1>1, FieldsStand DEF history, Bounds
<1>4. UNCHANGED <<mode, range, arpSeen, stoppedAt, runs>> /\ PhaseSet = {"idle", "execute", "check", "again", "return", "end"}
  BY <1>1 DEF history, PhaseSet
<1>5. CASE /\ Thread(r) \in cancelled /\ cancelled' = CancelledWith(Last(r))
           /\ running' = running \ {Thread(r)} /\ phase' = [phase EXCEPT ![r] = "end"]
           /\ UNCHANGED <<queue, threads, messages, up>>
  <2>1. Last(r) \in Tasks /\ Last(r).kind # "Discovery" /\ Last(r) = Plan(r)[at[r]]
    BY <1>1, <1>2, LastKnown DEF Last
  <2>2. /\ CancelledWith(Last(r)) \in SUBSET Tasks /\ cancelled \subseteq CancelledWith(Last(r))
        /\ CancelledWith(Last(r)) \subseteq cancelled \cup {Last(r)}
        /\ Pending(Last(r)) => Last(r) \in CancelledWith(Last(r))
    BY <1>1, CancelEffect DEF TaskType
  <2>3. TaskType' /\ \A x : Pending(x)' => Pending(x)
    BY <1>1, <1>5, <2>2 DEF TaskType, TasksTypeOK, Pending, Queued
  <2>4. \A q \in Runs : Thread(q) \in cancelled' => Thread(q) \in cancelled
    BY <1>5, <2>1, <2>2, ThreadTask
  <2>5. at[r] <= stoppedAt[r] + 1
    BY <1>1, <1>5 DEF FrameInv, StopIsPrompt
  <2>6. PICK n \in 1 .. Len(Plan(r)) : n = at[r]
    BY <1>2
  <2>7. Plan(r)' = Plan(r) /\ (Pending(Plan(r)[n])' => Pending(Plan(r)[n])) /\ Plan(r)[n] = Last(r)
    BY <1>1, <2>1, <2>3, <2>6 DEF Pending, Plan
  <2>8. /\ Pending(Plan(r)[n])' => Plan(r)[n] \in cancelled'
        /\ n <= stoppedAt[r] + 1 /\ n \in 0 .. Len(Plan(r)) /\ at' = [at EXCEPT ![r] = n]
    BY <1>2, <1>5, <2>2, <2>5, <2>6, <2>7
  <2>9. \A x \in Tasks : x.run # r /\ Pending(x)' => Pending(x)
    BY <2>3
  <2>10. (TypeThreads /\ FrameInv)'
    BY <1>1, <1>4, <1>5, <2>2, <2>4, <2>7, <2>8, <2>9, ThreadMoves
  <2>11. Origins'
    BY <1>1, <1>5, <2>3, OriginsStand DEF IInv, TypeThreads, history
  <2> QED
    BY <1>1, <1>3, <1>5, <2>3, <2>10, <2>11 DEF IInv, TypeInv, DiesOnlyOf
<1>6. ASSUME NEW p \in {"execute", "again", "return"}, Thread(r) \notin cancelled,
             phase' = [phase EXCEPT ![r] = p], UNCHANGED taskVars,
             p \in {"execute", "again"} => at[r] < Len(Plan(r))
      PROVE  IInv'
  <2>1. TaskType' /\ up' /\ cancelled' = cancelled /\ \A x : Pending(x)' => Pending(x)
    BY <1>1, <1>6 DEF TaskType, TasksTypeOK, taskVars, Pending, Queued
  <2>2. (TypeThreads /\ FrameInv)'
    <3>1. at[r] \in 0 .. Len(Plan(r)) /\ p \in PhaseSet /\ p # "idle" /\ p # "end" /\ p # "check"
      BY <1>2, <1>4
    <3>2. Thread(r) \notin cancelled' /\ cancelled \subseteq cancelled'
      BY <1>6, <2>1 DEF Thread
    <3>3. \A x \in Tasks : x.run # r /\ Pending(x)' => Pending(x)
      BY <2>1
    <3>4. \A q \in Runs : q # r /\ Thread(q) \in cancelled' => Thread(q) \in cancelled
      BY <2>1 DEF Thread
    <3> QED
      BY <1>1, <1>2, <1>4, <1>6, <3>1, <3>2, <3>3, <3>4, ThreadMoves
  <2>3. Origins'
    BY <1>1, <1>6, <2>1, OriginsStand DEF IInv, TypeThreads, history, taskVars
  <2> QED
    BY <1>3, <2>1, <2>2, <2>3 DEF IInv, TypeInv, DiesOnlyOf
<1> QED
  BY <1>5, <1>6 DEF CheckCancelled

LEMMA CheckAgainStep ==
  ASSUME IInv, NEW r \in Runs, CheckAgain(r)
  PROVE  IInv'
<1>1. /\ TypeRest /\ TypeThreads /\ TaskType /\ FrameInv /\ FieldInv /\ Bounds /\ up
      /\ phase[r] = "again" /\ UNCHANGED taskVars
      /\ UNCHANGED <<fields, mode, range, at, arpSeen, history, runs, touches>>
  BY DEF IInv, TypeInv, CheckAgain, Active
<1>2. PICK p \in {"execute", "return"} : phase' = [phase EXCEPT ![r] = p]
  BY DEF CheckAgain
<1>3. /\ at' = [at EXCEPT ![r] = at[r]] /\ at[r] \in 0 .. Len(Plan(r)) /\ at[r] \in Nat
      /\ Thread(r) \in cancelled => at[r] = stoppedAt[r]
      /\ Plan(r)' = Plan(r)
  BY <1>1 DEF TypeThreads, FrameInv, CancelIsSeen, Plan
<1>4. p = "execute" => at[r] < Len(Plan(r))
  BY <1>1, <1>2, <1>3 DEF TypeThreads
<1>5. TaskType' /\ up' /\ cancelled' = cancelled /\ messages' = messages
      /\ \A x : Pending(x)' => Pending(x)
  BY <1>1 DEF TaskType, TasksTypeOK, taskVars, Pending, Queued
<1>6. (TypeRest /\ FieldInv)' /\ Bounds'
  BY <1>1, <1>5, FieldsStand DEF history, Bounds
<1>7. UNCHANGED <<mode, range, arpSeen, stoppedAt, runs>> /\ p \in PhaseSet
  BY <1>1 DEF history, PhaseSet
<1>8. Thread(r) \in cancelled' => at[r] = stoppedAt[r] /\ at[r] <= stoppedAt[r] + 1
  BY <1>3, <1>5
<1>9. (TypeThreads /\ FrameInv)'
  BY <1>1, <1>2, <1>3, <1>4, <1>5, <1>7, <1>8, ThreadMoves
<1>10. Origins'
  BY <1>1, <1>2, <1>5, OriginsStand DEF IInv, TypeThreads, history
<1> QED
  BY <1>5, <1>6, <1>9, <1>10 DEF IInv, TypeInv, DiesOnlyOf

LEMMA ThreadReturnsStep ==
  ASSUME IInv, NEW r \in Runs, ThreadReturns(r)
  PROVE  IInv'
<1>1. /\ TypeRest /\ TypeThreads /\ TaskType /\ FrameInv /\ FieldInv /\ Bounds /\ up
      /\ phase[r] = "return" /\ ReturnSilently(Thread(r)) /\ phase' = [phase EXCEPT ![r] = "end"]
      /\ UNCHANGED <<fields, mode, range, at, arpSeen, history, runs, touches>>
  BY DEF IInv, TypeInv, ThreadReturns, Active
<1>2. /\ TaskType' /\ cancelled' = cancelled /\ up' = up /\ \A x : Pending(x)' => Pending(x)
  BY <1>1, ReturnSilentlyEffect DEF TaskType
<1>3. (TypeRest /\ FieldInv)' /\ Bounds'
  BY <1>1, FieldsStand DEF history, Bounds
<1>4. /\ at' = [at EXCEPT ![r] = at[r]] /\ at[r] \in 0 .. Len(Plan(r)) /\ at[r] \in Nat
      /\ Thread(r) \in cancelled => at[r] = stoppedAt[r]
  BY <1>1 DEF TypeThreads, FrameInv, CancelIsSeen
<1>5. UNCHANGED <<mode, range, arpSeen, stoppedAt, runs>> /\ "end" \in PhaseSet
  BY <1>1 DEF history, PhaseSet
<1>6. Thread(r) \in cancelled' => at[r] <= stoppedAt[r] + 1 /\ ~(stoppedAt[r] < at[r])
  BY <1>2, <1>4
<1>7. (TypeThreads /\ FrameInv)'
  BY <1>1, <1>2, <1>4, <1>5, <1>6, ThreadMoves
<1>8. Origins'
  BY <1>1, <1>2, OriginsStand DEF IInv, TypeThreads, history, ReturnSilently
<1> QED
  BY <1>1, <1>2, <1>3, <1>7, <1>8 DEF IInv, TypeInv, DiesOnlyOf

(***************************************************************************)
(* The probes, the main thread, and the threads of the pool.               *)
(***************************************************************************)
\* Steps that neither touch the controller nor the threads of the discoveries.
LEMMA TasksStep ==
  ASSUME IInv, up, UNCHANGED <<fields, mode, range, at, phase, history, runs, touches>>,
         arpSeen' \in [Runs -> SUBSET ArpCache],
         TaskType', up' = up, cancelled' = cancelled, \A x : Pending(x)' => Pending(x),
         \/ messages' = messages
         \/ \E m \in Hosts \cup {NoHost} : Sound(m, range) /\ messages' = Append(messages, m)
  PROVE  IInv'
<1>1. TypeRest /\ TypeThreads /\ FrameInv /\ FieldInv /\ Bounds
      /\ UNCHANGED <<stoppedAt, reported, runs, mode, range, at, phase>>
  BY DEF IInv, TypeInv, history
<1>2. (TypeThreads /\ FrameInv)'
  BY <1>1, ThreadsStand
<1>3. (TypeRest /\ FieldInv)' /\ Bounds'
  BY <1>1, FieldsStand DEF Bounds
<1>4. Origins'
  BY <1>1, OriginsKept DEF IInv, TypeInv
<1> QED
  BY <1>2, <1>3, <1>4 DEF IInv, TypeInv, DiesOnlyOf

LEMMA TasksOfInv == IInv => TaskType /\ arpSeen \in [Runs -> SUBSET ArpCache]
BY DEF IInv, TypeInv, TypeThreads

LEMMA StepOfTasks ==
  ASSUME IInv, up, UNCHANGED <<fields, threadVars, history, runs, touches>>,
         TaskType', up' = up, cancelled' = cancelled, \A x : Pending(x)' => Pending(x),
         messages' = messages
  PROVE  IInv'
<1>1. UNCHANGED <<fields, mode, range, at, phase, history, runs, touches>> /\ arpSeen' = arpSeen
  BY DEF threadVars
<1>2. arpSeen' \in [Runs -> SUBSET ArpCache]
  BY <1>1, TasksOfInv
<1> QED
  BY <1>1, <1>2, TasksStep

LEMMA ProbeEndsStep ==
  ASSUME IInv, NEW t \in running, ProbeEnds(t)
  PROVE  IInv'
<1>1. PICK found \in {t.host, NoHost} : Return(t, found)
  BY DEF ProbeEnds
<1>2. found \in Hosts \cup {NoHost} /\ TaskType
  <2>1. t \in Tasks /\ TaskType
    BY TasksOfInv DEF TaskType, TasksTypeOK
  <2> QED
    BY <2>1 DEF Tasks
<1>3. TaskType' /\ up' = up /\ cancelled' = cancelled /\ \A x : Pending(x)' => Pending(x)
  BY <1>1, <1>2, ReturnEffect DEF TaskType
<1>4. Sound(found, range)
  BY <1>2 DEF IInv, Origins, Sound, Pending, TaskType, TasksTypeOK
<1>5. messages' = messages \/ messages' = Append(messages, found)
  BY <1>1 DEF Return
<1> QED
  BY <1>2, <1>3, <1>4, <1>5, TasksStep, TasksOfInv DEF ProbeEnds, threadVars

LEMMA ArpScanStep ==
  ASSUME IInv, NEW r \in Runs, ArpScan(r)
  PROVE  IInv'
<1>1. ASSUME NEW h \in ArpCache, ArpEntry(r, h)
      PROVE  IInv'
  <2>1. Publish(h) /\ h \in Hosts \cup {NoHost}
    BY <1>1, ParametersKnown DEF ArpEntry
  <2>2. TaskType' /\ up' = up /\ cancelled' = cancelled /\ \A x : Pending(x)' => Pending(x)
    BY <2>1, TasksOfInv, PublishEffect DEF TaskType
  <2>3. arpSeen' \in [Runs -> SUBSET ArpCache]
    BY <1>1, TasksOfInv DEF ArpEntry
  <2>4. Sound(h, range) /\ messages' = Append(messages, h)
    BY <2>1 DEF Publish, Sound
  <2> QED
    BY <1>1, <2>1, <2>2, <2>3, <2>4, TasksStep DEF ArpEntry
<1>2. CASE ArpEnds(r)
  <2>1. /\ TaskType' /\ up' = up /\ cancelled' = cancelled /\ messages' = messages
        /\ \A x : Pending(x)' => Pending(x)
    BY <1>2, TasksOfInv, ReturnSilentlyEffect DEF TaskType, ArpEnds
  <2> QED
    BY <1>2, <2>1, StepOfTasks DEF ArpEnds
<1> QED
  BY <1>1, <1>2 DEF ArpScan

LEMMA PoolThreadsStep ==
  ASSUME IInv, PoolThreads
  PROVE  IInv'
<1>1. /\ TaskType' /\ up' = up /\ cancelled' = cancelled /\ messages' = messages
      /\ \A x : Pending(x)' => Pending(x)
  BY TasksOfInv, PoolEffect DEF TaskType, PoolThreads
<1>2. up
  BY DEF PoolThreads, Pool, TakeTask, ThreadExits
<1> QED
  BY <1>1, <1>2, StepOfTasks DEF PoolThreads

LEMMA StutterStep ==
  ASSUME IInv, UNCHANGED vars
  PROVE  IInv'
<1>1. TypeRest /\ TypeThreads /\ TaskType /\ FrameInv /\ FieldInv /\ Bounds
  BY DEF IInv, TypeInv
<1>2. /\ TaskType' /\ cancelled' = cancelled /\ \A x : Pending(x)' => Pending(x)
      /\ UNCHANGED <<mode, range, at, phase, arpSeen, stoppedAt, runs, touches, fields, reported, up>>
      /\ UNCHANGED <<threads, queue>>
  BY <1>1 DEF vars, taskVars, threadVars, history, TaskType, TasksTypeOK, Pending, Queued
<1>3. (TypeThreads /\ FrameInv)'
  <2>1. arpSeen' \in [Runs -> SUBSET ArpCache]
    BY <1>1, <1>2 DEF TypeThreads
  <2> QED
    BY <1>1, <1>2, <2>1, ThreadsStand
<1>4. TypeRest' /\ FieldInv'
  BY <1>1, <1>2 DEF TypeRest, FieldInv, ArrayFits, ListIsWhatWasReported, StopHasATask, fields
<1>5. Bounds' /\ DiesOnlyOf'
  BY <1>1, <1>2 DEF Bounds, IInv, DiesOnlyOf, fields, Foreign
<1>6. Origins'
  BY <1>1, <1>2, OriginsStand DEF IInv, TypeThreads, vars, taskVars
<1> QED
  BY <1>2, <1>3, <1>4, <1>5, <1>6 DEF IInv, TypeInv

\* Posted(m) leaves the rest of the messages, and the tasks, as they are.
LEMMA PostedEffect ==
  ASSUME TaskType, messages # <<>>, messages' = Tail(messages),
         UNCHANGED <<queue, running, threads, cancelled, up>>
  PROVE  TaskType' /\ \A x : Pending(x)' => Pending(x)
BY DEF TaskType, TasksTypeOK, Pending, Queued

LEMMA NothingFoundStep ==
  ASSUME IInv, NothingFound
  PROVE  IInv'
<1>1. /\ TypeRest /\ TypeThreads /\ TaskType /\ FrameInv /\ FieldInv /\ Bounds /\ up
      /\ arpSeen' \in [Runs -> SUBSET ArpCache]
      /\ UNCHANGED <<mode, range, at, phase, arpSeen, stoppedAt, reported, runs, touches>>
      /\ UNCHANGED <<queue, running, threads, cancelled, up>>
  BY TasksOfInv DEF IInv, TypeInv, NothingFound, Posted, threadVars, history
<1>2. TaskType' /\ \A x : Pending(x)' => Pending(x)
  BY <1>1, PostedEffect DEF NothingFound, Posted
<1>3. (TypeThreads /\ FrameInv)'
  BY <1>1, <1>2, ThreadsStand
<1>4. TypeRest' /\ FieldInv'
  <2>1. progress' = progress + 1 /\ UpdateProgress
        /\ UNCHANGED <<network, hd, scanned, totalHosts, countPossibleHosts, reported,
                       countDiscoveredhosts, discoveredHosts, discoveryMode, fillMaps, runs, up>>
    BY DEF NothingFound, UpdateProgress, history
  <2>2. TypeRest'
    <3>1. started' \in BOOLEAN
      BY <1>1, <2>1 DEF UpdateProgress, TypeRest
    <3>2. progress' \in Nat
      BY <1>1, <2>1 DEF TypeRest
    <3> QED
      BY <1>1, <2>1, <3>1, <3>2 DEF TypeRest
  <2>3. FieldInv'
    <3>1. ArrayFits' /\ ListIsWhatWasReported'
      BY <1>1, <2>1 DEF FieldInv, ArrayFits, ListIsWhatWasReported
    <3>2. StopHasATask'
      BY <1>1, <2>1 DEF UpdateProgress, FieldInv, StopHasATask
    <3> QED
      BY <3>1, <3>2 DEF FieldInv
  <2> QED
    BY <2>2, <2>3
<1>5. Bounds' /\ DiesOnlyOf'
  BY <1>1 DEF Bounds, DiesOnlyOf
<1>6. Origins'
  BY <1>1, <1>2, OriginsKept DEF IInv, NothingFound, Posted
<1> QED
  BY <1>2, <1>3, <1>4, <1>5, <1>6 DEF IInv, TypeInv

\* When all that was reported is of the network, a host of it that is not in the
\* list yet finds room in the array: the hosts in the list are distinct, and none
\* of them is this one.
LEMMA ArrayHasRoom ==
  ASSUME TypeRest, FieldInv, up, NEW h \in HostsOf(network), ~Known(h),
         reported \subseteq HostsOf(network)
  PROVE  countDiscoveredhosts < Len(discoveredHosts)
<1> DEFINE n == countDiscoveredhosts
           others == HostsOf(network) \ {h}
           f == [i \in 1 .. n |-> fillMaps[i]]
<1>1. /\ n \in Nat /\ Len(fillMaps) = n /\ Len(discoveredHosts) = network.nodes
      /\ network.nodes \in Nat
      /\ \A i \in 1 .. n : discoveredHosts[i] = fillMaps[i] /\ fillMaps[i] \in HostsOf(network)
      /\ \A i, j \in 1 .. n : fillMaps[i] = fillMaps[j] => i = j
  BY NetKnown DEF TypeRest, FieldInv, ArrayFits, ListIsWhatWasReported
<1>2. f \in [1 .. n -> others]
  BY <1>1 DEF Known
<1>3. IsFiniteSet(HostsOf(network)) /\ Cardinality(HostsOf(network)) = network.nodes
  BY NetKnown DEF TypeRest
<1>4. IsFiniteSet(others) /\ Cardinality(others) = network.nodes - 1
  BY <1>3, FS_RemoveElement
<1>5. IsFiniteSet(1 .. n) /\ Cardinality(1 .. n) = n
  BY <1>1, FS_Interval
<1>6. ASSUME n >= network.nodes PROVE FALSE
  <2>1. Cardinality(others) < Cardinality(1 .. n)
    BY <1>1, <1>4, <1>5, <1>6
  <2> HIDE DEF f, others
  <2>2. PICK i, j \in 1 .. n : i # j /\ f[i] = f[j]
    BY <1>2, <1>4, <1>5, <2>1, FS_PigeonHole
  <2> QED
    BY <1>1, <2>2 DEF f
<1> QED
  BY <1>1, <1>6

LEMMA HostAdded ==
  ASSUME TypeRest, FieldInv, up, NEW h \in Hosts, ~Known(h),
         countDiscoveredhosts < Len(discoveredHosts),
         discoveredHosts' = [discoveredHosts EXCEPT ![countDiscoveredhosts + 1] = h],
         fillMaps' = Append(fillMaps, h), countDiscoveredhosts' = countDiscoveredhosts + 1,
         reported' = reported \cup {h}
  PROVE  /\ discoveredHosts' \in Seq(Hosts \cup {NoHost}) /\ fillMaps' \in Seq(Hosts)
         /\ Len(discoveredHosts') = Len(discoveredHosts) /\ ListIsWhatWasReported'
<1> DEFINE n == countDiscoveredhosts
<1>1. /\ n \in Nat /\ Len(fillMaps) = n /\ fillMaps \in Seq(Hosts)
      /\ discoveredHosts \in Seq(Hosts \cup {NoHost}) /\ Len(discoveredHosts) \in Nat
      /\ \A i \in 1 .. n : discoveredHosts[i] = fillMaps[i] /\ fillMaps[i] \in Hosts
      /\ \A i, j \in 1 .. n : fillMaps[i] = fillMaps[j] => i = j
      /\ {fillMaps[i] : i \in 1 .. n} = reported
  <2>1. n \in Nat /\ fillMaps \in Seq(Hosts) /\ discoveredHosts \in Seq(Hosts \cup {NoHost})
    BY DEF TypeRest
  <2>2. /\ Len(fillMaps) = n /\ \A i \in 1 .. n : discoveredHosts[i] = fillMaps[i]
        /\ \A i, j \in 1 .. n : fillMaps[i] = fillMaps[j] => i = j
        /\ {fillMaps[i] : i \in 1 .. n} = reported
    BY DEF FieldInv, ListIsWhatWasReported
  <2>3. Len(discoveredHosts) \in Nat /\ \A i \in 1 .. n : fillMaps[i] \in Hosts
    BY <2>1, <2>2
  <2> QED
    BY <2>1, <2>2, <2>3
<1>2. /\ fillMaps' \in Seq(Hosts) /\ Len(fillMaps') = n + 1 /\ fillMaps'[n + 1] = h
      /\ \A i \in 1 .. n : fillMaps'[i] = fillMaps[i]
  BY <1>1
<1>3. /\ discoveredHosts' \in Seq(Hosts \cup {NoHost}) /\ Len(discoveredHosts') = Len(discoveredHosts)
      /\ discoveredHosts'[n + 1] = h
      /\ \A i \in 1 .. n : discoveredHosts'[i] = discoveredHosts[i]
  BY <1>1
<1>4. \A i \in 1 .. n + 1 : i \in 1 .. n \/ i = n + 1
  BY <1>1
<1>5. \A i \in 1 .. n : fillMaps[i] # h
  BY <1>1 DEF Known
<1>6. {fillMaps'[i] : i \in 1 .. n + 1} = reported'
  <2>1. \A x \in reported' : \E i \in 1 .. n + 1 : x = fillMaps'[i]
    BY <1>1, <1>2
  <2>2. \A i \in 1 .. n + 1 : fillMaps'[i] \in reported'
    BY <1>1, <1>2, <1>4
  <2> QED
    BY <2>1, <2>2
<1>7. \A i, j \in 1 .. n + 1 : fillMaps'[i] = fillMaps'[j] => i = j
  BY <1>1, <1>2, <1>4, <1>5
<1>8. \A i \in 1 .. n + 1 : discoveredHosts'[i] = fillMaps'[i]
  BY <1>1, <1>2, <1>3, <1>4
<1>9. ListIsWhatWasReported'
  BY <1>2, <1>6, <1>7, <1>8 DEF ListIsWhatWasReported
<1> QED
  BY <1>2, <1>3, <1>9

LEMMA AddHostsStep ==
  ASSUME IInv, NEW h \in Hosts, AddHosts(h)
  PROVE  IInv'
<1>1. /\ TypeRest /\ TypeThreads /\ TaskType /\ FrameInv /\ FieldInv /\ Bounds /\ up
      /\ arpSeen' \in [Runs -> SUBSET ArpCache] /\ Posted(h) /\ reported' = reported \cup {h}
      /\ UNCHANGED <<mode, range, at, phase, arpSeen, stoppedAt, runs, touches>>
      /\ UNCHANGED <<network, hd, scanned, totalHosts, countPossibleHosts, discoveryMode>>
  BY TasksOfInv DEF IInv, TypeInv, AddHosts, Posted, threadVars
<1>2. Bounds' /\ Sound(h, range)
  <2>1. Len(messages) >= 1 /\ messages[1] = h
    BY <1>1 DEF Posted, TaskType, TasksTypeOK
  <2>2. Len(messages) \in Nat /\ 1 \in 1 .. Len(messages)
    BY <1>1, <2>1 DEF TaskType, TasksTypeOK
  <2> QED
    BY <1>1, <2>1, <2>2 DEF Bounds, IInv, Origins
<1>3. ASSUME messages' = Tail(messages), UNCHANGED <<queue, running, threads, cancelled, up>>
      PROVE  TaskType' /\ (TypeThreads /\ FrameInv)' /\ up' /\ DiesOnlyOf' /\ Origins'
  <2>1. TaskType' /\ \A x : Pending(x)' => Pending(x)
    BY <1>1, <1>3, PostedEffect DEF Posted
  <2>2. (TypeThreads /\ FrameInv)'
    BY <1>1, <1>3, <2>1, ThreadsStand
  <2>3. Origins'
    <3>1. \A g \in reported' : g \in reported \/ Sound(g, range')
      BY <1>1, <1>2
    <3> QED
      BY <1>1, <1>3, <2>1, <3>1, OriginsKept DEF IInv, Posted
  <2> QED
    BY <1>1, <1>3, <2>1, <2>2, <2>3 DEF DiesOnlyOf
<1>4. CASE /\ Known(h) /\ messages' = Tail(messages)
           /\ UNCHANGED <<queue, running, threads, cancelled, up>>
           /\ UNCHANGED <<started, progress, countDiscoveredhosts, discoveredHosts, fillMaps>>
  <2>1. h \in reported
    BY <1>1, <1>4 DEF Known, FieldInv, ListIsWhatWasReported
  <2>2. reported' = reported
    BY <1>1, <2>1
  <2>3. (TypeRest /\ FieldInv)'
    BY <1>1, <1>4, <2>2, FieldsStand DEF fields
  <2> QED
    BY <1>2, <1>3, <1>4, <2>3 DEF IInv, TypeInv
<1>5. CASE /\ ~Known(h) /\ countDiscoveredhosts < Len(discoveredHosts)
           /\ discoveredHosts' = [discoveredHosts EXCEPT ![countDiscoveredhosts + 1] = h]
           /\ fillMaps' = Append(fillMaps, h)
           /\ UpdateProgress
           /\ countDiscoveredhosts' = countDiscoveredhosts + 1
           /\ messages' = Tail(messages)
           /\ UNCHANGED <<queue, running, threads, cancelled, up>>
  <2>1. /\ discoveredHosts' \in Seq(Hosts \cup {NoHost}) /\ fillMaps' \in Seq(Hosts)
        /\ Len(discoveredHosts') = Len(discoveredHosts) /\ ListIsWhatWasReported'
    BY <1>1, <1>5, HostAdded
  <2>2. /\ progress' \in Nat /\ countDiscoveredhosts' \in Nat /\ reported' \in SUBSET Hosts
    BY <1>1, <1>5 DEF UpdateProgress, TypeRest
  <2>3. started' \in BOOLEAN
    BY <1>1, <1>5 DEF UpdateProgress, TypeRest
  <2>4. TypeRest'
    BY <1>1, <2>1, <2>2, <2>3 DEF TypeRest
  <2>5. StopHasATask'
    BY <1>1, <1>5 DEF UpdateProgress, FieldInv, StopHasATask
  <2>6. ArrayFits'
    BY <1>1, <2>1 DEF FieldInv, ArrayFits
  <2> QED
    BY <1>2, <1>3, <1>5, <2>1, <2>4, <2>5, <2>6 DEF IInv, TypeInv, FieldInv
<1>6. CASE /\ ~Known(h) /\ countDiscoveredhosts >= Len(discoveredHosts) /\ Dies
           /\ UNCHANGED <<started, progress, countDiscoveredhosts, discoveredHosts, fillMaps>>
  <2>1. PICK g \in reported' : Foreign(g)
    <3>1. PICK g \in reported \cup {h} : g \notin HostsOf(network)
      <4>1. countDiscoveredhosts \in Nat /\ Len(discoveredHosts) \in Nat
        BY <1>1 DEF TypeRest
      <4>2. ASSUME reported \cup {h} \subseteq HostsOf(network) PROVE FALSE
        <5>1. h \in HostsOf(network) /\ reported \subseteq HostsOf(network)
          BY <4>2
        <5>2. countDiscoveredhosts < Len(discoveredHosts)
          BY <1>1, <1>6, <5>1, ArrayHasRoom
        <5> QED
          BY <1>6, <4>1, <5>2
      <4> QED
        BY <4>2
    <3>2. Sound(g, range) /\ g \in Hosts
      BY <1>1, <1>2, <3>1 DEF IInv, Origins, TypeRest
    <3>3. g \in ArpCache \/ \E r \in Runs : range[r] # network /\ g \in HostsOf(range[r])
      BY <3>1, <3>2, ParametersKnown DEF Sound
    <3> QED
      BY <1>1, <3>1, <3>3 DEF Foreign
  <2>2. TaskType' /\ ~up' /\ cancelled' = cancelled /\ \A x : Pending(x)' => Pending(x)
    BY <1>1, <1>6, DiesEffect DEF TaskType
  <2>3. (TypeThreads /\ FrameInv)'
    BY <1>1, <2>2, ThreadsStand
  <2>4. TypeRest'
    BY <1>1, <1>6 DEF TypeRest
  <2>5. FieldInv'
    BY <1>1, <1>6, <2>2 DEF FieldInv, ArrayFits, ListIsWhatWasReported, StopHasATask
  <2>6. DiesOnlyOf'
    BY <1>1, <2>1 DEF DiesOnlyOf, Foreign
  <2>7. Origins'
    <3>1. \A x \in reported' : x \in reported \/ Sound(x, range')
      BY <1>1, <1>2
    <3> QED
      BY <1>1, <1>6, <2>2, <3>1, OriginsKept DEF IInv, Dies
  <2> QED
    BY <1>2, <2>2, <2>3, <2>4, <2>5, <2>6, <2>7 DEF IInv, TypeInv
<1> QED
  BY <1>4, <1>5, <1>6 DEF AddHosts

(***************************************************************************)
(* The theorems.                                                           *)
(***************************************************************************)
LEMMA InitHolds == Init => IInv
<1> SUFFICES ASSUME Init PROVE IInv
  OBVIOUS
<1>1. TaskType
  BY PoolAssumption DEF Init, TasksInit, TaskType, TasksTypeOK
<1>2. TypeRest /\ ArrayFits
  <2>1. network \in NetSet /\ network.nodes \in Nat
    BY NetKnown DEF Init, NetSet
  <2>2. /\ discoveredHosts \in Seq(Hosts \cup {NoHost}) /\ Len(discoveredHosts) = network.nodes
        /\ fillMaps = <<>> /\ fillMaps \in Seq(Hosts)
    BY <2>1, EmptyArray DEF Init
  <2>3. /\ hd \in 0 .. MaxRuns /\ progress \in Nat /\ totalHosts \in Nat
        /\ countPossibleHosts \in Nat /\ countDiscoveredhosts \in Nat
    BY <2>1, ParametersKnown DEF Init
  <2>4. started \in BOOLEAN /\ scanned \in BOOLEAN /\ discoveryMode \in ModeSet
        /\ reported \in SUBSET Hosts
    BY ParametersKnown DEF Init
  <2> QED
    BY <2>1, <2>2, <2>3, <2>4 DEF TypeRest, ArrayFits
<1>3. TypeThreads
  <2>1. \A r \in Runs : Len(Plan(r)) \in Nat
    <3>1. \A r \in Runs : mode[r] = "speed" /\ range[r] = NoNetwork
      BY DEF Init
    <3> QED
      BY <3>1, PlanKnown, ParametersKnown DEF Plan
  <2> QED
    BY <2>1, ParametersKnown DEF Init, TypeThreads
<1>4. Bounds /\ Phases /\ CancelIsSeen
  BY ParametersKnown DEF Init, TasksInit, Bounds, Phases, CancelIsSeen, Runs
<1>5. StopIsPrompt /\ DiesOnlyOf /\ ListIsWhatWasReported /\ StopHasATask
  BY DEF Init, TasksInit, StopIsPrompt, DiesOnlyOf, ListIsWhatWasReported, StopHasATask
<1>6. Origins
  BY DEF Init, TasksInit, Origins, Pending, Queued
<1> QED
  BY <1>1, <1>2, <1>3, <1>4, <1>5, <1>6 DEF IInv, TypeInv, FrameInv, FieldInv

LEMMA NextKeepsInv == IInv /\ [Next]_vars => IInv'
<1> SUFFICES ASSUME IInv, [Next]_vars PROVE IInv'
  OBVIOUS
<1>1. CASE User
  BY <1>1, StartStep, StopStep, SetModeStep, ResetAppStep DEF User, NetSet
<1>2. ASSUME NEW r \in Runs, DiscoveryThread(r) \/ ArpScan(r) PROVE IInv'
  BY <1>2, ExecuteNextStep, CheckCancelledStep, CheckAgainStep, ThreadReturnsStep, ArpScanStep DEF DiscoveryThread
<1>3. ASSUME NEW t \in running, ProbeEnds(t) PROVE IInv'
  BY <1>3, ProbeEndsStep
<1>4. CASE MainLooper
  BY <1>4, NothingFoundStep, AddHostsStep DEF MainLooper
<1>5. CASE PoolThreads
  BY <1>5, PoolThreadsStep
<1>6. CASE UNCHANGED vars
  BY <1>6, StutterStep
<1> QED
  BY <1>1, <1>2, <1>3, <1>4, <1>5, <1>6 DEF Next

LEMMA Invariance == Spec => []IInv
BY InitHolds, NextKeepsInv, PTL DEF Spec

\* The fields of the controller, the pool and the threads keep their types.
THEOREM DiscoveryTypes == Spec => []TypeOK
<1>1. IInv => TypeOK
  BY TypesHold DEF IInv
<1> QED
  BY <1>1, Invariance, PTL

\* addHosts: the list on the screen and the array hold each reported host once,
\* in the same order, for any number of hosts and discoveries at a time.
THEOREM ListIsTrue == Spec => []ListIsWhatWasReported
<1>1. IInv => ListIsWhatWasReported
  BY DEF IInv, FieldInv
<1> QED
  BY <1>1, Invariance, PTL

\* stop(): past its guard, the field it cancels is the latest discovery.
THEOREM StopHasWork == Spec => []StopHasATask
<1>1. IInv => StopHasATask
  BY DEF IInv, FieldInv
<1> QED
  BY <1>1, Invariance, PTL

\* discoveredHosts[countDiscoveredhosts] overflows of foreign hosts only: the
\* process dies of a full pool, or after a host was reported that is not of the
\* network of the last reset and came from the ARP cache or from a discovery of
\* another network, whatever networks the resets find.
THEOREM DeathsExplained == Spec => []DiesOnlyOf
<1>1. IInv => DiesOnlyOf
  BY DEF IInv
<1> QED
  BY <1>1, Invariance, PTL

\* doInBackground: after stop() a discovery executes one more task at most, and
\* it cancels that one.
THEOREM StopsPromptly == Spec => []StopIsPrompt
<1>1. IInv => StopIsPrompt
  BY DEF IInv, FrameInv
<1> QED
  BY <1>1, Invariance, PTL
=============================================================================
