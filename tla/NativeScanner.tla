---------------------------- MODULE NativeScanner ----------------------------
(***************************************************************************)
(* src/jni/main.c: the SYN and FIN scanner.  Main walks the list of ports, *)
(* creates a thread for each and joins them in groups; a thread sends one  *)
(* probe and puts it on the list of probes; a sniffer thread per round     *)
(* takes the responses, and the probes they answer off the list.  Threads  *)
(* and sniffers hold mutex_probe; main reads the list without it.          *)
(*                                                                         *)
(* Time is left out: each usleep lets anything, or nothing, happen.        *)
(***************************************************************************)
EXTENDS ProbeList, FiniteSets

CONSTANTS
  Modes,         \* what the options may ask for: "syn", "fin"
  low, high,     \* the range of ports, as given by the user
  PortSpace,     \* the number of TCP ports: 65536
  tries,         \* -T
  threadCount,
  Rates,         \* the packet rates -r may give, 0 among them or not
  Targets,       \* what a port of the target may be: "open", "closed", "filtered"
  MaxPackets,    \* bound on the packets the sniffers take
  Failures       \* "send": a probe cannot be sent;
                 \* "stray": the target sends what answers no probe, or answers twice;
                 \* "pcap": the sniffer cannot be set up;
                 \* "race": a probe is put on the list while main resets it

ASSUME RangeAssumption == /\ low \in Nat \ {0} /\ high \in Nat /\ low <= high
                          /\ PortSpace \in Nat \ {0} /\ high <= PortSpace

ASSUME CountsAssumption == /\ tries \in Nat \ {0} /\ threadCount \in Nat \ {0}
                           /\ MaxPackets \in Nat /\ Rates \subseteq Nat
                           /\ Modes \subseteq {"syn", "fin"}

VARIABLES
  mode,          \* synscan or finscan
  pc,            \* where main is
  cur,           \* the node main's walk has come to: current, or o
  retry,         \* rounds main may still start
  threads,       \* the ports of the threads created so far
  live,          \* those that have not finished
  scanVictim,    \* scanVictim[j]: the thread last created in slot j, or 0
  sniffer,       \* the state of each round's sniffer
  mutex_probe,   \* the round whose sniffer holds it, or 0
  at,            \* the node that sniffer has come to: a
  src_port,      \* the port its packet came from
  packetRate,
  target,        \* what each port of the target is
  inflight,      \* responses on their way from each port
  packets,       \* packets taken so far
  found,         \* the last number numports - num_awaited
  base,          \* history: the nodes up to this one are of former rounds
  answered,      \* history: the nodes whose port a packet was taken from
  todo           \* history: the nodes main's walk was to visit and has not

mainVars == <<mode, pc, cur, retry, packetRate, found>>
poolVars == <<threads, live, scanVictim>>
sniffVars == <<sniffer, mutex_probe, at, src_port>>
netVars == <<target, inflight, packets>>
historyVars == <<base, answered, todo>>
vars == <<listVars, mainVars, poolVars, sniffVars, netVars, historyVars>>

Ports == low..high

numports == high - low + 1

\* htons: what a port is on the wire.
Wire(port) == port % PortSpace

WirePorts == {Wire(p) : p \in Ports}

Slots == 0..threadCount - 1

\* The list "all" is built from high to low, so that it starts at low.
all == [n \in 1..numports |-> Node(high - n + 1, n - 1, NULL)]

TypeOK ==
  /\ ListTypeOK(Ports)
  /\ mode \in Modes
  /\ pc \in {"main", "call", "scan", "join", "next", "told", "list", "report",
             "count", "end", "crashed"}
  /\ cur \in 0..Len(heap) /\ at \in 0..Len(heap)
  /\ retry \in 0..tries
  /\ threads \in Seq(Ports) /\ live \subseteq DOMAIN threads
  /\ scanVictim \in [Slots -> 0..Len(threads)]
  /\ sniffer \in Seq({"on", "broken", "off"})
  /\ mutex_probe \in 0..Len(sniffer)
  /\ src_port \in Nat
  /\ packetRate \in Nat
  /\ inflight \in [WirePorts -> Nat] /\ packets \in 0..MaxPackets
  /\ target \in [WirePorts -> Targets]
  /\ found \in Int
  /\ base \in 0..Len(heap)
  /\ answered \subseteq Addresses /\ todo \subseteq Addresses

Init ==
  /\ heap = <<>> /\ probeSent = NULL /\ num_awaited = 0
  /\ pc = "main" /\ cur = NULL /\ retry = tries
  /\ threads = <<>> /\ live = {}
  /\ scanVictim = [j \in Slots |-> 0]
  /\ sniffer = <<>> /\ mutex_probe = 0 /\ at = NULL /\ src_port = 0
  /\ packetRate \in Rates /\ mode \in Modes
  /\ target \in [WirePorts -> Targets]
  /\ inflight = [w \in WirePorts |-> 0] /\ packets = 0
  /\ found = 0
  /\ base = 0 /\ answered = {} /\ todo = {}

\* The probes of this round, and those of them nothing came from yet.
RoundNodes == base + 1..Len(heap)

Awaited == RoundNodes \ answered

(***************************************************************************)
(* Main.                                                                   *)
(***************************************************************************)
Running == pc \notin {"end", "crashed"}

MainFrame == UNCHANGED <<mode, packetRate, netVars>>

\* The list of ports is built and given to syn or fin.  A rate of 0 was
\* announced as replaced, and is divided by: the division traps or gives some
\* number.
Main ==
  /\ pc = "main"
  /\ \/ packetRate = 0 /\ pc' = "crashed" /\ UNCHANGED <<heap, cur, base, todo>>
     \/ /\ heap' = all
        /\ cur' = numports
        /\ base' = numports
        /\ todo' = 1..numports
        /\ pc' = "call"
  /\ UNCHANGED <<probeSent, num_awaited, retry, found, answered,
                 poolVars, sniffVars>>
  /\ MainFrame

\* What the target does with the probe: an open port answers a SYN only.
Responds(w) == target[w] \in (IF mode = "syn" THEN {"open", "closed"} ELSE {"closed"})

\* The probe of thread t goes to the port htons makes of it.
Send(t) ==
  LET w == Wire(threads[t])
  IN  inflight' = IF Responds(w) THEN [inflight EXCEPT ![w] = @ + 1] ELSE inflight

\* The beginning of syn and fin: the list is reset, the count is not, and a
\* sniffer is created.  The list is reset without the mutex, so that a thread
\* may be at its Push, behind the line that reads the head.
StartRound ==
  /\ pc = "call"
  /\ retry' = retry - 1
  /\ sniffer' = Append(sniffer, "on")
  /\ pc' = "scan"
  /\ base' = Len(heap)
  /\ \/ probeSent' = NULL /\ UNCHANGED <<heap, num_awaited, live, inflight>>
     \/ /\ "race" \in Failures /\ mutex_probe = 0
        /\ \E t \in live : /\ Push(threads[t]) \/ PushUnseen(threads[t])
                           /\ Send(t)
                           /\ live' = live \ {t}
  /\ UNCHANGED <<mode, cur, found, packetRate, answered, todo, threads, scanVictim,
                 mutex_probe, at, src_port, target, packets>>

\* pcapSetup exits.
PcapSetupFails ==
  /\ pc = "call" /\ "pcap" \in Failures
  /\ pc' = "crashed"
  /\ UNCHANGED <<cur, retry, found, historyVars, listVars, poolVars, sniffVars>>
  /\ MainFrame

\* The reset falls between the lines of Push that test the head and store its prev:
\* the thread dereferences NULL.
HeadVanishes ==
  /\ pc = "call" /\ "race" \in Failures
  /\ live # {} /\ mutex_probe = 0 /\ probeSent # NULL
  /\ pc' = "crashed"
  /\ UNCHANGED <<cur, retry, found, historyVars, listVars, poolVars, sniffVars>>
  /\ MainFrame

\* A thread for the current port, in the slot the port selects.
CreateThread ==
  LET port == heap[cur].port
  IN  /\ pc = "scan" /\ cur # NULL
      /\ threads' = Append(threads, port)
      /\ live' = live \cup {Len(threads) + 1}
      /\ scanVictim' = [scanVictim EXCEPT ![port % threadCount] = Len(threads) + 1]
      /\ pc' = IF port % threadCount = 0 THEN "join" ELSE "next"
      /\ todo' = todo \ {cur}
      /\ UNCHANGED <<cur, retry, found, base, answered, listVars, sniffVars>>
      /\ MainFrame

\* Mutant of Join: the group is not waited for.
JoinNone ==
  /\ pc = "join"
  /\ pc' = "next"
  /\ UNCHANGED <<cur, retry, found, historyVars, listVars, poolVars, sniffVars>>
  /\ MainFrame

\* A group of threads is joined.  The join of a slot that never had a thread, or
\* whose thread was joined before, finds none (ESRCH) and returns at once.
Join ==
  /\ pc = "join"
  /\ \A j \in Slots : scanVictim[j] \notin live
  /\ pc' = "next"
  /\ UNCHANGED <<cur, retry, found, historyVars, listVars, poolVars, sniffVars>>
  /\ MainFrame

\* To the next node.
Advance ==
  /\ pc = "next"
  /\ cur' = heap[cur].next
  /\ pc' = "scan"
  /\ UNCHANGED <<retry, found, historyVars, listVars, poolVars, sniffVars>>
  /\ MainFrame

\* pcap_breakloop, heeded by the sniffer when it looks again.
BreakLoop ==
  /\ pc = "scan" /\ cur = NULL
  /\ sniffer' = [sniffer EXCEPT ![Len(sniffer)] = IF @ = "on" THEN "broken" ELSE @]
  /\ pc' = "told"
  /\ UNCHANGED <<cur, retry, found, historyVars, listVars, poolVars,
                 mutex_probe, at, src_port>>
  /\ MainFrame

\* Mutant of Decide: the count decides for the SYN scan, too.
DecideByCount ==
  /\ pc = "told"
  /\ IF num_awaited = 0
     THEN pc' = "count" /\ todo' = Awaited
     ELSE pc' = "list" /\ UNCHANGED todo
  /\ UNCHANGED <<cur, retry, found, base, answered, listVars, poolVars, sniffVars>>
  /\ MainFrame

\* The end of a round: the FIN scan has probes without a response to list, the
\* SYN scan has tries left, or the results are due.
Decide ==
  /\ pc = "told"
  /\ IF mode = "fin" /\ num_awaited = 0
     THEN pc' = "count" /\ todo' = Awaited
     ELSE /\ pc' = IF mode = "syn" /\ retry = 0 THEN "count" ELSE "list"
          /\ UNCHANGED todo
  /\ UNCHANGED <<cur, retry, found, base, answered, listVars, poolVars, sniffVars>>
  /\ MainFrame

\* Mutant of TakeList: the next walk starts behind the head.
TakeListBehindHead ==
  /\ pc = "list"
  /\ pc' = IF mode = "fin" THEN "report" ELSE "call"
  /\ cur' = IF probeSent = NULL THEN NULL ELSE heap[probeSent].next
  /\ todo' = Awaited
  /\ UNCHANGED <<retry, found, base, answered, listVars, poolVars, sniffVars>>
  /\ MainFrame

\* Main takes the list as it is, to print it or to try its ports again.
TakeList ==
  /\ pc = "list"
  /\ pc' = IF mode = "fin" THEN "report" ELSE "call"
  /\ cur' = probeSent
  /\ todo' = Awaited
  /\ UNCHANGED <<retry, found, base, answered, listVars, poolVars, sniffVars>>
  /\ MainFrame

\* The ports of the list are printed, one at a time.
Report ==
  /\ pc = "report"
  /\ IF cur = NULL
     THEN pc' = "count" /\ UNCHANGED <<cur, todo>>
     ELSE /\ cur' = heap[cur].next
          /\ todo' = todo \ {cur}
          /\ UNCHANGED pc
  /\ UNCHANGED <<retry, found, base, answered, listVars, poolVars, sniffVars>>
  /\ MainFrame

\* The result is printed, and main returns.
Count ==
  /\ pc = "count"
  /\ found' = numports - num_awaited
  /\ pc' = "end"
  /\ UNCHANGED <<cur, retry, historyVars, listVars, poolVars, sniffVars>>
  /\ MainFrame

(***************************************************************************)
(* synScanPort and finScanPort, in one step under the mutex.               *)
(***************************************************************************)
\* A thread whose probe cannot be sent leaves the list alone.
Probe(t) ==
  /\ Running /\ t \in live /\ mutex_probe = 0
  /\ live' = live \ {t}
  /\ \/ "send" \in Failures /\ UNCHANGED <<listVars, inflight>>
     \/ Push(threads[t]) /\ Send(t)
  /\ UNCHANGED <<threads, scanVictim, target, packets, mainVars, sniffVars, historyVars>>

(***************************************************************************)
(* The sniffer: got_packet, under the mutex, one step per node of the list.*)
(***************************************************************************)
\* A packet from port w is taken by the sniffer of round r, which after
\* pcap_breakloop finishes the packet it has, if any.
Take(r, w) ==
  /\ mutex_probe = 0 /\ sniffer[r] # "off" /\ packets < MaxPackets
  /\ packets' = packets + 1
  /\ sniffer' = [sniffer EXCEPT ![r] = IF @ = "broken" THEN "off" ELSE @]
  /\ mutex_probe' = r
  /\ at' = probeSent
  /\ src_port' = w
  /\ answered' = answered \cup {n \in Addresses : Wire(heap[n].port) = w}
  /\ UNCHANGED <<mainVars, base, todo, target, listVars, poolVars>>

\* The response of a port to a probe.
Response(r) ==
  /\ Running
  /\ \E w \in WirePorts :
       /\ inflight[w] > 0
       /\ Take(r, w)
       /\ inflight' = [inflight EXCEPT ![w] = @ - 1]

\* "TODO: Add a check here to confirm its the packet meant for us"
Stray(r) ==
  /\ Running /\ "stray" \in Failures
  /\ \E w \in WirePorts : Take(r, w)
  /\ UNCHANGED inflight

\* The node of a port that answered is taken off; the walk goes on behind it.
Walk ==
  /\ Running /\ mutex_probe # 0 /\ at # NULL
  /\ IF heap[at].port = src_port THEN Unlink(at) ELSE UNCHANGED listVars
  /\ at' = heap[at].next
  /\ UNCHANGED <<sniffer, mutex_probe, src_port, mainVars, poolVars, netVars, historyVars>>

Unlock ==
  /\ Running /\ mutex_probe # 0 /\ at = NULL
  /\ mutex_probe' = 0
  /\ UNCHANGED <<sniffer, at, src_port, listVars, mainVars, poolVars, netVars, historyVars>>

-----------------------------------------------------------------------------
MainStep == \/ Main \/ StartRound \/ PcapSetupFails \/ HeadVanishes \/ CreateThread \/ Join
            \/ Advance \/ BreakLoop \/ Decide \/ TakeList \/ Report \/ Count

Sniff == Walk \/ Unlock

Next == \/ MainStep
        \/ \E t \in live : Probe(t)
        \/ \E r \in DOMAIN sniffer : Response(r) \/ Stray(r)
        \/ Sniff

Spec == Init /\ [][Next]_vars

(***************************************************************************)
(* Fairness: main and the threads run, and a sniffer that took a packet    *)
(* gets through with it.  No packet need ever come.                        *)
(***************************************************************************)
FairSpec == /\ Spec
            /\ WF_vars(MainStep)
            /\ WF_vars(\E t \in live : Probe(t))
            /\ WF_vars(Sniff)

(***************************************************************************)
(* Properties.                                                             *)
(***************************************************************************)

\* Whatever was taken off the list, with whatever prev pointers, a probe of this
\* round no packet answered is still on it (got_packet, synScanPort).
UnansweredIsListed == \A n \in Awaited : OnList(n, RoundNodes, probeSent)

\* Main's walks, over the list of ports, over the list of the former round and
\* over the list it reports, miss no node that was to be visited, though main
\* walks without the mutex (syn, fin): at its end only answered ones are left.
\* (Unless main reset the list under a thread, "race" in Failures: a later retry
\* then walks what UnansweredIsListed is false of.)
WalkMissesNothing == cur = NULL => todo \subseteq answered

FirstRound == Len(sniffer) <= 1

\* In the first round the count is that of the probes without a response, if no
\* response comes twice: main reads it without the mutex to choose what to print.
CountIsExact == FirstRound /\ mutex_probe = 0 => num_awaited = Cardinality(Awaited)

\* In the first round the groups, whose slots follow from the ports alone, keep the
\* number of threads within threadCount.
ThreadsBounded == FirstRound => Cardinality(live) <= threadCount

\* The scan ends (main returns): no join waits for ever, no list goes in circles.
ScanEnds == <>(~Running)

(***************************************************************************)
(* The inductive invariant behind UnansweredIsListed: whatever the list    *)
(* leaves out, at its head, behind a node, or between a node and its prev, *)
(* was answered.                                                           *)
(***************************************************************************)
AreAnswered(from, to) == \A n \in RoundNodes : from < n /\ n < to => n \in answered

HeadSkips == AreAnswered(probeSent, Len(heap) + 1)

NextSkips == \A m \in RoundNodes : AreAnswered(heap[m].next, m)

PrevSkips == \A a \in Addresses : AreAnswered(a, heap[a].prev)

\* Probes link to probes, and one another is linked to has a prev.
LinkedHavePrev ==
  /\ probeSent # NULL => probeSent > numports
  /\ \A m \in Addresses : m > numports /\ heap[m].next # NULL =>
        heap[m].next > numports /\ heap[heap[m].next].prev # NULL

\* The sniffer that holds the mutex unlinks answered probes only, and at the head
\* only what is the head.
SnifferUnlinks ==
  mutex_probe # 0 =>
    /\ \A n \in Addresses : heap[n].port = src_port => n \in answered
    /\ at # NULL => at > numports
    /\ at # NULL /\ heap[at].prev = NULL => AreAnswered(at, Len(heap) + 1)

Started == /\ pc = "main" => heap = <<>> /\ live = {} /\ sniffer = <<>> /\ retry = tries
           /\ pc \notin {"main", "crashed"} => base >= numports
           /\ pc \in {"join", "next"} => cur # NULL
           /\ pc = "call" \/ (pc = "list" /\ mode = "syn") => retry # 0

IInv == /\ TypeOK /\ Started
        /\ HeadSkips /\ NextSkips /\ PrevSkips /\ LinkedHavePrev /\ SnifferUnlinks

(***************************************************************************)
(* The inductive invariant behind CountIsExact, in the first round: what   *)
(* the count is ahead of, while the sniffer walks, is the answered node it *)
(* has still to come to, and each port has one node and one response.      *)
(***************************************************************************)
Owed == {n \in RoundNodes : mutex_probe # 0 /\ heap[n].port = src_port /\ n <= at}

CountsOwed == num_awaited = Cardinality(Awaited \cup Owed)

OwedIsMet == \A n \in Owed, m \in RoundNodes : ~(heap[m].next < n /\ n < m)

\* Nodes and live threads are of different ports.
OneProbeEach ==
  /\ \A n, m \in RoundNodes : heap[n].port = heap[m].port => n = m
  /\ \A t \in live, n \in RoundNodes : heap[n].port # threads[t]
  /\ \A t, u \in live : threads[t] = threads[u] => t = u

\* A port whose response is on its way has a node no packet answered.
OneResponse ==
  \A w \in WirePorts : inflight[w] # 0 =>
     inflight[w] = 1 /\ \E n \in Awaited : Wire(heap[n].port) = w

\* Probes were sent, or will be, to ports below p only.
SentBelow(p) == /\ \A n \in RoundNodes : heap[n].port < p
                /\ \A t \in live : threads[t] < p

\* Main goes up through the ports.
SentInOrder ==
  /\ pc = "scan" /\ cur # NULL => SentBelow(high - cur + 1)
  /\ pc \in {"join", "next"} => SentBelow(high - cur + 2)

FirstNodes == /\ sniffer = <<>> => base = Len(heap)
              /\ pc \notin {"main", "crashed"} => base = numports

CountInv == FirstRound => /\ FirstNodes /\ SentInOrder /\ OneProbeEach /\ OneResponse
                          /\ CountsOwed /\ OwedIsMet

(***************************************************************************)
(* What comments and messages of the code say, and the code does not do.   *)
(***************************************************************************)

\* "Removing the port from probeSent list if a response is received"
AnsweredIsRemoved ==
  mutex_probe = 0 => \A n \in RoundNodes \cap answered : ~OnList(n, RoundNodes, probeSent)
=============================================================================
