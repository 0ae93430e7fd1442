------------------------ MODULE NativeScanner_proofs ------------------------
(***************************************************************************)
(* Proofs about NativeScanner: its types; that no probe is lost from the   *)
(* list while nothing came from its port; that a SYN scan's walks miss no  *)
(* probe without a response, though main reads the list without the mutex  *)
(* while sniffers unlink from it: what the list of a former round leaves   *)
(* out was answered, as in the current one; that the groups of threads,    *)
(* told apart by port numbers alone, keep their number within threadCount; *)
(* and that in the first round the count is that of the probes without a   *)
(* response.                                                               *)
(***************************************************************************)
EXTENDS NativeScanner, FiniteSetTheorems, WellFoundedInduction, TLAPS

Nodes == [port : Ports, next : Nat, prev : Nat]

(***************************************************************************)
(* Numbers.                                                                *)
(***************************************************************************)
LEMMA WireType == ASSUME NEW p \in Nat PROVE Wire(p) \in 0..PortSpace - 1
BY RangeAssumption DEF Wire

LEMMA WireOnce == \A w \in WirePorts : w \in Nat /\ Wire(w) = w
<1> SUFFICES ASSUME NEW p \in Ports PROVE Wire(p) \in Nat /\ Wire(Wire(p)) = Wire(p)
  BY DEF WirePorts
<1>1. p \in Nat
  BY RangeAssumption DEF Ports
<1>2. Wire(p) \in 0..PortSpace - 1
  BY <1>1, WireType
<1>3. \A w \in 0..PortSpace - 1 : w % PortSpace = w
  BY RangeAssumption
<1> QED
  BY <1>2, <1>3 DEF Wire

(***************************************************************************)
(* What the operations do to the list.                                     *)
(***************************************************************************)
\* A new node is the head of the list, and the old head learns of it.
LEMMA PushKnown ==
  ASSUME ListTypeOK(Ports), NEW port \in Ports, Push(port)
  PROVE  /\ heap' \in Seq(Nodes) /\ Len(heap') = Len(heap) + 1
         /\ heap'[Len(heap) + 1] = Node(port, probeSent, NULL)
         /\ \A n \in Addresses :
              /\ heap'[n].port = heap[n].port /\ heap'[n].next = heap[n].next
              /\ heap'[n].prev = IF n = probeSent THEN Len(heap) + 1 ELSE heap[n].prev
         /\ probeSent' = Len(heap) + 1
         /\ num_awaited' \in Int
<1> DEFINE new == Len(heap) + 1
           linked == [n \in Addresses |-> IF n = probeSent THEN [heap[n] EXCEPT !.prev = new]
                                          ELSE heap[n]]
<1>1. heap \in Seq(Nodes) /\ Len(heap) \in Nat /\ probeSent \in 0..Len(heap) /\ num_awaited \in Int
  BY DEF ListTypeOK, Nodes
<1>2. heap' = Append(linked, Node(port, probeSent, NULL)) /\ probeSent' = new
      /\ num_awaited' = num_awaited + 1
  BY DEF Push
<1>3. ASSUME NEW n \in Addresses
      PROVE  /\ linked[n] \in Nodes
             /\ linked[n].port = heap[n].port /\ linked[n].next = heap[n].next
             /\ linked[n].prev = IF n = probeSent THEN new ELSE heap[n].prev
  <2>1. heap[n] \in Nodes /\ new \in Nat
    BY <1>1 DEF Addresses
  <2>2. [heap[n] EXCEPT !.prev = new] \in Nodes
    BY <2>1 DEF Nodes
  <2> QED
    BY <2>1, <2>2 DEF Nodes
<1>4. linked \in Seq(Nodes) /\ Len(linked) = Len(heap)
  <2>1. linked \in [1..Len(heap) -> Nodes]
    BY <1>3 DEF Addresses
  <2> HIDE DEF linked
  <2> QED
    BY <1>1, <2>1
<1>5. Node(port, probeSent, NULL) \in Nodes
  BY <1>1 DEF Node, Nodes, NULL
<1> HIDE DEF linked
<1>6. \A n \in Addresses : heap'[n] = linked[n]
  BY <1>1, <1>2, <1>4 DEF Addresses
<1>7. heap' \in Seq(Nodes) /\ Len(heap') = new /\ heap'[new] = Node(port, probeSent, NULL)
  BY <1>1, <1>2, <1>4, <1>5
<1>8. num_awaited' \in Int
  BY <1>1, <1>2
<1> QED
  BY <1>2, <1>3, <1>6, <1>7, <1>8

\* The same without the old head's learning of it.
LEMMA PushEffect ==
  ASSUME ListTypeOK(Ports), NEW port \in Ports, Push(port) \/ PushUnseen(port)
  PROVE  /\ heap' \in Seq(Nodes) /\ Len(heap') = Len(heap) + 1
         /\ heap'[Len(heap) + 1] = Node(port, probeSent, NULL)
         /\ \A n \in Addresses :
              /\ heap'[n].port = heap[n].port /\ heap'[n].next = heap[n].next
              /\ heap'[n].prev \in {heap[n].prev, Len(heap) + 1}
         /\ probeSent' = Len(heap) + 1
         /\ num_awaited' \in Int
<1>1. CASE Push(port)
  BY <1>1, PushKnown
<1>2. CASE PushUnseen(port)
  <2>1. heap \in Seq(Nodes) /\ Len(heap) \in Nat /\ probeSent \in 0..Len(heap) /\ num_awaited \in Int
    BY DEF ListTypeOK, Nodes
  <2>2. Node(port, probeSent, NULL) \in Nodes
    BY <2>1 DEF Node, Nodes, NULL
  <2> QED
    BY <1>2, <2>1, <2>2 DEF PushUnseen, Addresses
<1> QED
  BY <1>1, <1>2

LEMMA PushType ==
  ASSUME ListTypeOK(Ports), NEW port \in Ports, Push(port) \/ PushUnseen(port)
  PROVE  ListTypeOK(Ports)'
<1>1. /\ heap \in Seq(Nodes) /\ Len(heap) \in Nat /\ probeSent \in 0..Len(heap)
      /\ \A n \in Addresses : /\ heap[n].next < n
                              /\ heap[n].prev = NULL \/ heap[n].prev \in n + 1..Len(heap)
  BY DEF ListTypeOK, Nodes
<1>2. /\ heap' \in Seq(Nodes) /\ Len(heap') = Len(heap) + 1
      /\ heap'[Len(heap) + 1].next = probeSent /\ heap'[Len(heap) + 1].prev = NULL
      /\ \A n \in Addresses :
           /\ heap'[n].next = heap[n].next
           /\ heap'[n].prev \in {heap[n].prev, Len(heap) + 1}
      /\ probeSent' = Len(heap) + 1
      /\ num_awaited' \in Int
  <2>1. heap'[Len(heap) + 1] = Node(port, probeSent, NULL)
    BY PushEffect
  <2>2. \A n \in Addresses : /\ heap'[n].next = heap[n].next
                             /\ heap'[n].prev \in {heap[n].prev, Len(heap) + 1}
    BY PushEffect
  <2>3. heap'[Len(heap) + 1].next = probeSent /\ heap'[Len(heap) + 1].prev = NULL
    BY <2>1 DEF Node
  <2> QED
    BY <2>2, <2>3, PushEffect
<1>3. Addresses' = Addresses \cup {Len(heap) + 1}
  BY <1>1, <1>2 DEF Addresses
<1>4. ASSUME NEW n \in Addresses'
      PROVE  heap'[n].next < n /\ (heap'[n].prev = NULL \/ heap'[n].prev \in n + 1..Len(heap'))
  <2>1. CASE n = Len(heap) + 1
    BY <1>1, <1>2, <2>1
  <2>2. CASE n \in Addresses
    <3>1. n \in 1..Len(heap)
      BY <2>2 DEF Addresses
    <3>2. n + 1 \in Nat /\ Len(heap) + 1 \in n + 1..Len(heap')
      BY <1>1, <1>2, <3>1
    <3> QED
      BY <1>1, <1>2, <2>2, <3>1, <3>2
  <2> QED
    BY <1>3, <2>1, <2>2
<1> QED
  BY <1>1, <1>2, <1>4 DEF ListTypeOK, Nodes

\* Unlinking changes the head, or the next of one node.
LEMMA UnlinkEffect ==
  ASSUME ListTypeOK(Ports), NEW a \in Addresses, Unlink(a)
  PROVE  /\ heap' \in Seq(Nodes) /\ Len(heap') = Len(heap)
         /\ \A n \in Addresses :
              /\ heap'[n].port = heap[n].port /\ heap'[n].prev = heap[n].prev
              /\ heap'[n].next = IF heap[a].prev # NULL /\ n = heap[a].prev
                                 THEN heap[a].next ELSE heap[n].next
         /\ probeSent' = IF heap[a].prev = NULL THEN heap[a].next ELSE probeSent
         /\ num_awaited' \in Int
<1>1. /\ heap \in Seq(Nodes) /\ Len(heap) \in Nat /\ num_awaited \in Int
      /\ \A n \in Addresses : heap[n].prev = NULL \/ heap[n].prev \in n + 1..Len(heap)
  BY DEF ListTypeOK, Nodes
<1>2. \A n \in Addresses : heap[n] \in Nodes
  BY <1>1 DEF Addresses
<1>3. num_awaited' \in Int
  BY <1>1 DEF Unlink
<1>4. CASE heap[a].prev = NULL
  BY <1>1, <1>3, <1>4 DEF Unlink, NULL
<1>5. CASE heap[a].prev # NULL
  <2> DEFINE p == heap[a].prev
             node == [heap[p] EXCEPT !.next = heap[a].next]
  <2>1. heap' = [heap EXCEPT ![p] = node] /\ probeSent' = probeSent
    BY <1>5 DEF Unlink
  <2>2. p \in Addresses
    BY <1>1, <1>5 DEF Addresses
  <2>3. node \in Nodes /\ node.next = heap[a].next /\ node.port = heap[p].port
        /\ node.prev = heap[p].prev
    BY <1>2, <2>2 DEF Nodes
  <2> HIDE DEF p, node
  <2>4. /\ heap' \in Seq(Nodes) /\ Len(heap') = Len(heap)
        /\ \A n \in Addresses : heap'[n] = IF n = p THEN node ELSE heap[n]
    BY <1>1, <2>1, <2>2, <2>3 DEF Addresses
  <2> QED
    BY <1>3, <1>5, <2>1, <2>3, <2>4 DEF p
<1> QED
  BY <1>4, <1>5

LEMMA UnlinkType ==
  ASSUME ListTypeOK(Ports), NEW a \in Addresses, Unlink(a)
  PROVE  ListTypeOK(Ports)'
<1>1. /\ heap \in Seq(Nodes) /\ Len(heap) \in Nat /\ probeSent \in 0..Len(heap)
      /\ \A n \in Addresses : /\ heap[n].next < n
                              /\ heap[n].prev = NULL \/ heap[n].prev \in n + 1..Len(heap)
  BY DEF ListTypeOK, Nodes
<1>2. \A n \in Addresses : heap[n] \in Nodes
  BY <1>1 DEF Addresses
<1>3. \A n \in Addresses : heap[n].next \in Nat /\ heap[n].prev \in Nat
  BY <1>2 DEF Nodes
<1>4. /\ heap' \in Seq(Nodes) /\ Len(heap') = Len(heap)
      /\ \A n \in Addresses :
           /\ heap'[n].prev = heap[n].prev
           /\ heap'[n].next = IF heap[a].prev # NULL /\ n = heap[a].prev
                              THEN heap[a].next ELSE heap[n].next
      /\ probeSent' = IF heap[a].prev = NULL THEN heap[a].next ELSE probeSent
      /\ num_awaited' \in Int
  BY UnlinkEffect
<1>5. a \in 1..Len(heap) /\ Addresses' = Addresses
  BY <1>4 DEF Addresses
<1>6. probeSent' \in 0..Len(heap')
  BY <1>1, <1>3, <1>4, <1>5
<1>7. ASSUME NEW n \in Addresses
      PROVE  heap'[n].next < n /\ (heap'[n].prev = NULL \/ heap'[n].prev \in n + 1..Len(heap'))
  <2>1. CASE heap[a].prev # NULL /\ n = heap[a].prev
    <3>1. heap[a].next < a /\ a < n /\ n \in Nat /\ heap[a].next \in Nat
      BY <1>1, <1>3, <1>5, <2>1
    <3> QED
      BY <1>1, <1>4, <1>5, <2>1, <3>1
  <2>2. CASE ~(heap[a].prev # NULL /\ n = heap[a].prev)
    BY <1>1, <1>4, <2>2
  <2> QED
    BY <2>1, <2>2
<1> QED
  BY <1>4, <1>5, <1>6, <1>7 DEF ListTypeOK, Nodes

(***************************************************************************)
(* Types.                                                                  *)
(***************************************************************************)
\* The types of what main, the threads and the sniffers have beside the list.
MainTypeOK == /\ mode \in Modes
              /\ pc \in {"main", "call", "scan", "join", "next", "told", "list", "report",
                         "count", "end", "crashed"}
              /\ cur \in 0..Len(heap) /\ retry \in 0..tries
              /\ packetRate \in Nat /\ found \in Int
PoolTypeOK == /\ threads \in Seq(Ports) /\ live \subseteq DOMAIN threads
              /\ scanVictim \in [Slots -> 0..Len(threads)]
SniffTypeOK == /\ sniffer \in Seq({"on", "broken", "off"}) /\ mutex_probe \in 0..Len(sniffer)
               /\ at \in 0..Len(heap) /\ src_port \in Nat
NetTypeOK == /\ inflight \in [WirePorts -> Nat] /\ packets \in 0..MaxPackets
             /\ target \in [WirePorts -> Targets]
HistoryTypeOK == /\ base \in 0..Len(heap)
                 /\ answered \subseteq Addresses /\ todo \subseteq Addresses

LEMMA ListFacts ==
  ASSUME ListTypeOK(Ports)
  PROVE  /\ heap \in Seq(Nodes) /\ Len(heap) \in Nat
         /\ \A n \in Addresses :
              /\ n \in Nat \ {0}
              /\ heap[n].port \in Ports
              /\ heap[n].next \in Nat /\ heap[n].next < n
              /\ heap[n].next # NULL => heap[n].next \in Addresses
              /\ heap[n].prev # NULL => /\ heap[n].prev \in Addresses /\ n < heap[n].prev
<1>1. /\ heap \in Seq(Nodes) /\ Len(heap) \in Nat
      /\ \A n \in Addresses : /\ heap[n].next < n
                              /\ heap[n].prev = NULL \/ heap[n].prev \in n + 1..Len(heap)
  BY DEF ListTypeOK, Nodes
<1>2. \A n \in Addresses : heap[n] \in Nodes
  BY <1>1 DEF Addresses
<1>3. \A n \in Addresses : heap[n].port \in Ports /\ heap[n].next \in Nat
  BY <1>2 DEF Nodes
<1> QED
  BY <1>1, <1>3 DEF Addresses, NULL

LEMMA PortsType == Ports \subseteq Nat \ {0} /\ numports \in Nat \ {0} /\ WirePorts \subseteq Nat
<1>1. Ports \subseteq Nat \ {0} /\ numports \in Nat \ {0}
  BY RangeAssumption DEF Ports, numports
<1> QED
  BY <1>1, WireType, RangeAssumption DEF WirePorts

\* Where the list is untouched, so are its type and its addresses.
LEMMA SameHeap ==
  ASSUME heap' = heap
  PROVE  Addresses' = Addresses /\ (ListTypeOK(Ports) /\ UNCHANGED listVars => ListTypeOK(Ports)')
BY DEF Addresses, listVars, ListTypeOK

\* The list of ports, with the node of low at its head.
LEMMA AllType ==
  /\ all \in Seq(Nodes) /\ Len(all) = numports
  /\ \A n \in 1..numports : all[n].next < n /\ all[n].prev = NULL
<1>1. ASSUME NEW n \in 1..numports
      PROVE  /\ Node(high - n + 1, n - 1, NULL) \in Nodes
             /\ Node(high - n + 1, n - 1, NULL).next = n - 1
             /\ Node(high - n + 1, n - 1, NULL).prev = NULL
  <2>1. high - n + 1 \in Ports /\ n - 1 \in Nat
    BY RangeAssumption DEF Ports, numports
  <2> QED
    BY <2>1 DEF Node, Nodes, NULL
<1>2. numports \in Nat
  BY PortsType
<1>3. all \in [1..numports -> Nodes]
  BY <1>1 DEF all
<1>4. \A n \in 1..numports : all[n].next = n - 1 /\ all[n].prev = NULL
  BY <1>1 DEF all
<1> QED
  BY <1>2, <1>3, <1>4

LEMMA MainType ==
  ASSUME TypeOK, Started, Main
  PROVE  TypeOK'
<1> USE DEF MainFrame, netVars, poolVars, sniffVars
<1>1. pc = "main" /\ heap = <<>> /\ Len(heap) = 0
  BY DEF Main, Started
<1>2. probeSent = 0 /\ at = 0 /\ num_awaited \in Int /\ answered = {}
  BY <1>1 DEF TypeOK, ListTypeOK, Addresses
<1>3. CASE pc' = "crashed" /\ UNCHANGED <<heap, cur, base, todo>>
  <2>1. /\ Addresses' = Addresses /\ ListTypeOK(Ports)'
        /\ UNCHANGED <<mode, retry, packetRate, found, answered>>
    BY <1>3, SameHeap DEF Main, TypeOK, listVars
  <2>2. MainTypeOK' /\ HistoryTypeOK'
    BY <1>3, <2>1 DEF TypeOK, MainTypeOK, HistoryTypeOK
  <2>3. PoolTypeOK' /\ SniffTypeOK' /\ NetTypeOK'
    BY <1>3 DEF Main, TypeOK, PoolTypeOK, SniffTypeOK, NetTypeOK
  <2> QED
    BY <2>1, <2>2, <2>3 DEF TypeOK, MainTypeOK, PoolTypeOK, SniffTypeOK, NetTypeOK, HistoryTypeOK
<1>4. CASE heap' = all /\ cur' = numports /\ base' = numports /\ todo' = 1..numports /\ pc' = "call"
  <2>1. numports \in Nat /\ Addresses' = 1..numports /\ Len(heap)' = numports
    BY <1>4, AllType, PortsType DEF Addresses
  <2>2. ListTypeOK(Ports)'
    BY <1>2, <1>4, <2>1, AllType DEF ListTypeOK, Nodes, Main
  <2>3. MainTypeOK' /\ HistoryTypeOK'
    BY <1>2, <1>4, <2>1 DEF Main, TypeOK, MainTypeOK, HistoryTypeOK
  <2>4. PoolTypeOK' /\ SniffTypeOK' /\ NetTypeOK'
    BY <1>2, <2>1 DEF Main, TypeOK, PoolTypeOK, SniffTypeOK, NetTypeOK
  <2> QED
    BY <2>2, <2>3, <2>4 DEF TypeOK, MainTypeOK, PoolTypeOK, SniffTypeOK, NetTypeOK, HistoryTypeOK
<1> QED
  BY <1>3, <1>4 DEF Main

\* A probe is put on the list while nothing else changes but live and inflight.
LEMMA PushedType ==
  ASSUME TypeOK, NEW t \in live, Push(threads[t]) \/ PushUnseen(threads[t]), Send(t),
         live' = live \ {t}, UNCHANGED <<threads, scanVictim, target, packets>>
  PROVE  /\ ListTypeOK(Ports)' /\ PoolTypeOK' /\ NetTypeOK'
         /\ Len(heap') = Len(heap) + 1 /\ Addresses \subseteq Addresses'
<1>1. threads[t] \in Ports /\ ListTypeOK(Ports)
  BY DEF TypeOK
<1>2. ListTypeOK(Ports)' /\ Len(heap') = Len(heap) + 1 /\ Len(heap) \in Nat
  BY <1>1, PushType, PushEffect, ListFacts
<1>3. Addresses \subseteq Addresses'
  BY <1>2 DEF Addresses
<1>4. PoolTypeOK'
  BY DEF TypeOK, PoolTypeOK
<1>5. inflight' \in [WirePorts -> Nat]
  <2>1. Wire(threads[t]) \in WirePorts
    BY <1>1 DEF WirePorts
  <2> DEFINE w == Wire(threads[t])
             more == [inflight EXCEPT ![w] = @ + 1]
  <2> HIDE DEF w
  <2>2. more \in [WirePorts -> Nat] /\ inflight \in [WirePorts -> Nat]
    BY <2>1 DEF TypeOK, w
  <2>3. inflight' = more \/ inflight' = inflight
    BY DEF Send, w
  <2> QED
    BY <2>2, <2>3
<1>6. NetTypeOK'
  BY <1>5 DEF TypeOK, NetTypeOK
<1> QED
  BY <1>2, <1>3, <1>4, <1>6

LEMMA StartRoundType ==
  ASSUME TypeOK, Started, StartRound
  PROVE  TypeOK'
<1> USE DEF netVars, poolVars
<1>1. Len(heap) \in Nat /\ retry - 1 \in 0..tries
  BY CountsAssumption, ListFacts DEF StartRound, Started, TypeOK
<1>2. /\ ListTypeOK(Ports)' /\ PoolTypeOK' /\ NetTypeOK'
      /\ Addresses \subseteq Addresses' /\ Len(heap') \in Nat /\ Len(heap) <= Len(heap')
  <2>1. CASE probeSent' = NULL /\ UNCHANGED <<heap, num_awaited, live, inflight>>
    <3>1. ListTypeOK(Ports)'
      <4>1. Addresses' = Addresses /\ Len(heap') = Len(heap) /\ ListTypeOK(Ports)
        BY <2>1 DEF Addresses, TypeOK
      <4>2. probeSent' \in 0..Len(heap')
        BY <1>1, <2>1, <4>1 DEF NULL
      <4> QED
        BY <2>1, <4>1, <4>2 DEF ListTypeOK
    <3>2. PoolTypeOK' /\ NetTypeOK'
      BY <2>1 DEF StartRound, TypeOK, PoolTypeOK, NetTypeOK
    <3> QED
      BY <1>1, <2>1, <3>1, <3>2 DEF Addresses
  <2>2. CASE \E t \in live : /\ Push(threads[t]) \/ PushUnseen(threads[t])
                             /\ Send(t) /\ live' = live \ {t}
    <3>1. UNCHANGED <<threads, scanVictim, target, packets>>
      BY DEF StartRound
    <3> QED
      BY <1>1, <2>2, <3>1, PushedType
  <2> QED
    BY <2>1, <2>2 DEF StartRound
<1>3. MainTypeOK'
  BY <1>1, <1>2 DEF StartRound, TypeOK, MainTypeOK
<1>4. SniffTypeOK'
  <2>1. sniffer' \in Seq({"on", "broken", "off"}) /\ Len(sniffer') = Len(sniffer) + 1
    BY DEF StartRound, TypeOK
  <2> QED
    BY <1>1, <1>2, <2>1 DEF StartRound, TypeOK, SniffTypeOK
<1>5. HistoryTypeOK'
  BY <1>1, <1>2 DEF StartRound, TypeOK, HistoryTypeOK
<1> QED
  BY <1>2, <1>3, <1>4, <1>5 DEF TypeOK, MainTypeOK, PoolTypeOK, SniffTypeOK, NetTypeOK, HistoryTypeOK

LEMMA CreateThreadType ==
  ASSUME TypeOK, CreateThread
  PROVE  TypeOK'
<1> DEFINE port == heap[cur].port
           new == Len(threads) + 1
<1> USE DEF netVars, sniffVars, MainFrame
<1>1. cur \in Addresses /\ port \in Ports
  BY ListFacts DEF CreateThread, TypeOK, Addresses, NULL
<1>2. ListTypeOK(Ports)' /\ Addresses' = Addresses /\ heap' = heap
  BY SameHeap DEF CreateThread, TypeOK, listVars
<1>3. PoolTypeOK'
  <2>1. Len(threads) \in Nat /\ DOMAIN threads = 1..Len(threads)
    BY DEF TypeOK
  <2>2. threads' = Append(threads, port) /\ live' = live \cup {new}
        /\ scanVictim' = [scanVictim EXCEPT ![port % threadCount] = new]
    BY DEF CreateThread
  <2> HIDE DEF port
  <2>3. threads' \in Seq(Ports) /\ Len(threads') = new /\ DOMAIN threads' = 1..new
    BY <1>1, <2>1, <2>2 DEF TypeOK
  <2>4. live' \subseteq DOMAIN threads'
    BY <2>1, <2>2, <2>3 DEF TypeOK
  <2>5. scanVictim' \in [Slots -> 0..new]
    <3>1. scanVictim \in [Slots -> 0..new] /\ new \in 0..new
      BY <2>1 DEF TypeOK
    <3> HIDE DEF new
    <3> QED
      BY <2>2, <3>1
  <2> QED
    BY <2>3, <2>4, <2>5 DEF PoolTypeOK
<1>4. MainTypeOK' /\ HistoryTypeOK'
  BY <1>2 DEF CreateThread, TypeOK, MainTypeOK, HistoryTypeOK
<1>5. SniffTypeOK' /\ NetTypeOK'
  BY <1>2 DEF CreateThread, TypeOK, SniffTypeOK, NetTypeOK
<1> QED
  BY <1>2, <1>3, <1>4, <1>5 DEF TypeOK, MainTypeOK, PoolTypeOK, SniffTypeOK, NetTypeOK, HistoryTypeOK

\* The steps of main that only move it along.
LEMMA MainMovesType ==
  ASSUME TypeOK, Started,
         PcapSetupFails \/ HeadVanishes \/ Join \/ Advance \/ Decide \/ TakeList \/ Report \/ Count
  PROVE  TypeOK'
<1> USE DEF MainFrame, netVars, poolVars, sniffVars, historyVars
<1>1. /\ UNCHANGED <<heap, probeSent, num_awaited, mode, retry, packetRate, base, answered>>
      /\ UNCHANGED <<netVars, poolVars, sniffVars>>
  BY DEF PcapSetupFails, HeadVanishes, Join, Advance, Decide, TakeList, Report, Count, listVars
<1>2. ListTypeOK(Ports)' /\ Addresses' = Addresses
  BY <1>1, SameHeap DEF TypeOK, listVars
<1>3. /\ Len(heap) \in Nat /\ cur \in 0..Len(heap)
      /\ cur # NULL => heap[cur].next \in 0..Len(heap)
      /\ probeSent \in 0..Len(heap) /\ num_awaited \in Int /\ numports \in Int
  <2>1. Len(heap) \in Nat /\ cur \in 0..Len(heap)
    BY ListFacts DEF TypeOK
  <2>2. probeSent \in 0..Len(heap) /\ num_awaited \in Int /\ numports \in Int
    BY PortsType DEF TypeOK, ListTypeOK
  <2>3. ASSUME cur # NULL PROVE heap[cur].next \in 0..Len(heap)
    <3>1. cur \in Addresses
      BY <2>1, <2>3 DEF Addresses, NULL
    <3>2. heap[cur].next \in Nat /\ heap[cur].next < cur
      BY <3>1, ListFacts DEF TypeOK
    <3> QED
      BY <2>1, <3>2
  <2> QED
    BY <2>1, <2>2, <2>3
<1>4. Awaited \subseteq Addresses
  BY <1>3 DEF Awaited, RoundNodes, Addresses, TypeOK
<1>5. cur' \in 0..Len(heap) /\ todo' \subseteq Addresses /\ found' \in Int
  <2>1. CASE PcapSetupFails \/ HeadVanishes \/ Join
    BY <1>3, <2>1 DEF PcapSetupFails, HeadVanishes, Join, TypeOK
  <2>2. CASE Advance
    BY <1>3, <2>2 DEF Advance, TypeOK, Started
  <2>3. CASE Decide \/ TakeList
    BY <1>3, <1>4, <2>3 DEF Decide, TakeList, TypeOK
  <2>4. CASE Report \/ Count
    BY <1>3, <2>4 DEF Report, Count, TypeOK
  <2> QED
    BY <2>1, <2>2, <2>3, <2>4
<1>6. pc' \in {"call", "scan", "next", "list", "report", "count", "end", "crashed"}
  BY DEF PcapSetupFails, HeadVanishes, Join, Advance, Decide, TakeList, Report, Count
<1>7. MainTypeOK' /\ HistoryTypeOK'
  BY <1>1, <1>2, <1>5, <1>6 DEF TypeOK, MainTypeOK, HistoryTypeOK
<1>8. PoolTypeOK' /\ SniffTypeOK' /\ NetTypeOK'
  BY <1>1 DEF TypeOK, PoolTypeOK, SniffTypeOK, NetTypeOK
<1> QED
  BY <1>2, <1>7, <1>8 DEF TypeOK, MainTypeOK, PoolTypeOK, SniffTypeOK, NetTypeOK, HistoryTypeOK

LEMMA BreakLoopType ==
  ASSUME TypeOK, BreakLoop
  PROVE  TypeOK'
<1> USE DEF MainFrame, netVars, poolVars, historyVars
<1>1. ListTypeOK(Ports)' /\ Addresses' = Addresses /\ heap' = heap
  BY SameHeap DEF BreakLoop, TypeOK, listVars
<1>2. sniffer' \in Seq({"on", "broken", "off"}) /\ Len(sniffer') = Len(sniffer)
  <2> DEFINE r == Len(sniffer)
             said == IF sniffer[r] = "on" THEN "broken" ELSE sniffer[r]
  <2>1. sniffer \in Seq({"on", "broken", "off"}) /\ r \in Nat
    BY DEF TypeOK
  <2>2. sniffer' = [sniffer EXCEPT ![r] = said]
    BY DEF BreakLoop
  <2>3. CASE r = 0
    <3>1. \A x : [sniffer EXCEPT ![0] = x] = sniffer
      BY <2>1, <2>3
    <3> QED
      BY <2>1, <2>2, <2>3, <3>1
  <2>4. CASE r # 0
    <3>1. said \in {"on", "broken", "off"}
      BY <2>1, <2>4
    <3> HIDE DEF said
    <3> QED
      BY <2>1, <2>2, <2>4, <3>1
  <2> QED
    BY <2>3, <2>4
<1>3. SniffTypeOK'
  BY <1>1, <1>2 DEF BreakLoop, TypeOK, SniffTypeOK
<1>4. MainTypeOK' /\ HistoryTypeOK' /\ PoolTypeOK' /\ NetTypeOK'
  BY <1>1 DEF BreakLoop, TypeOK, MainTypeOK, HistoryTypeOK, PoolTypeOK, NetTypeOK
<1> QED
  BY <1>1, <1>3, <1>4 DEF TypeOK, MainTypeOK, PoolTypeOK, SniffTypeOK, NetTypeOK, HistoryTypeOK

LEMMA ProbeType ==
  ASSUME TypeOK, NEW t \in live, Probe(t)
  PROVE  TypeOK'
<1> USE DEF mainVars, sniffVars, historyVars
<1>1. /\ ListTypeOK(Ports)' /\ PoolTypeOK' /\ NetTypeOK'
      /\ Addresses \subseteq Addresses' /\ Len(heap') \in Nat /\ Len(heap) <= Len(heap')
  <2>1. Len(heap) \in Nat
    BY ListFacts DEF TypeOK
  <2>2. CASE UNCHANGED <<listVars, inflight>>
    BY <2>1, <2>2, SameHeap DEF Probe, TypeOK, PoolTypeOK, NetTypeOK, listVars
  <2>3. CASE Push(threads[t]) /\ Send(t)
    BY <2>1, <2>3, PushedType DEF Probe
  <2> QED
    BY <2>2, <2>3 DEF Probe
<1>2. Len(heap) \in Nat
  BY ListFacts DEF TypeOK
<1>3. MainTypeOK' /\ SniffTypeOK' /\ HistoryTypeOK'
  BY <1>1, <1>2 DEF Probe, TypeOK, MainTypeOK, SniffTypeOK, HistoryTypeOK
<1> QED
  BY <1>1, <1>3 DEF TypeOK, MainTypeOK, PoolTypeOK, SniffTypeOK, NetTypeOK, HistoryTypeOK

LEMMA TakeType ==
  ASSUME TypeOK, NEW r \in DOMAIN sniffer, NEW w \in WirePorts, Take(r, w),
         inflight' \in [WirePorts -> Nat]
  PROVE  TypeOK'
<1> USE DEF mainVars, poolVars
<1>1. ListTypeOK(Ports)' /\ Addresses' = Addresses /\ heap' = heap
  BY SameHeap DEF Take, TypeOK, listVars
<1>2. /\ sniffer' \in Seq({"on", "broken", "off"}) /\ Len(sniffer') = Len(sniffer)
      /\ r \in 0..Len(sniffer)
  BY DEF Take, TypeOK
<1>3. w \in Nat /\ probeSent \in 0..Len(heap)
  BY PortsType DEF TypeOK, ListTypeOK
<1>4. SniffTypeOK'
  BY <1>1, <1>2, <1>3 DEF Take, SniffTypeOK
<1>5. packets' \in 0..MaxPackets
  BY CountsAssumption DEF Take, TypeOK
<1>6. MainTypeOK' /\ HistoryTypeOK' /\ PoolTypeOK' /\ NetTypeOK'
  BY <1>1, <1>5 DEF Take, TypeOK, MainTypeOK, HistoryTypeOK, PoolTypeOK, NetTypeOK
<1> QED
  BY <1>1, <1>4, <1>6 DEF TypeOK, MainTypeOK, PoolTypeOK, SniffTypeOK, NetTypeOK, HistoryTypeOK

LEMMA SniffType ==
  ASSUME TypeOK, Sniff
  PROVE  TypeOK'
<1> USE DEF mainVars, poolVars, netVars, historyVars
<1>1. /\ ListTypeOK(Ports)' /\ Addresses' = Addresses /\ Len(heap') = Len(heap)
      /\ at' \in 0..Len(heap)
  <2>1. at # NULL => at \in Addresses /\ heap[at].next \in 0..Len(heap)
    BY ListFacts DEF TypeOK, Addresses, NULL
  <2>2. CASE Walk /\ Unlink(at)
    BY <2>1, <2>2, UnlinkType, UnlinkEffect DEF Walk, TypeOK, Addresses
  <2>3. CASE UNCHANGED listVars
    BY <2>1, <2>3, SameHeap DEF Sniff, Walk, Unlock, TypeOK, listVars
  <2> QED
    BY <2>2, <2>3 DEF Sniff, Walk, Unlock
<1>2. SniffTypeOK'
  BY <1>1 DEF Sniff, Walk, Unlock, TypeOK, SniffTypeOK
<1>3. MainTypeOK' /\ HistoryTypeOK' /\ PoolTypeOK' /\ NetTypeOK'
  BY <1>1 DEF Sniff, Walk, Unlock, TypeOK, MainTypeOK, HistoryTypeOK, PoolTypeOK, NetTypeOK
<1> QED
  BY <1>1, <1>2, <1>3 DEF TypeOK, MainTypeOK, PoolTypeOK, SniffTypeOK, NetTypeOK, HistoryTypeOK

\* Started, which the types rest on, is kept.
LEMMA StartedStep ==
  ASSUME TypeOK, Started, [Next]_vars
  PROVE  Started'
<1> USE DEF MainFrame, mainVars, poolVars, sniffVars, netVars, historyVars
<1>1. /\ numports \in Nat /\ Len(heap) \in Nat /\ base \in 0..Len(heap)
      /\ tries # 0 /\ tries \in Nat
  BY PortsType, ListFacts, CountsAssumption DEF TypeOK
<1>2. CASE Main
  BY <1>1, <1>2 DEF Main, Started
<1>3. CASE StartRound
  BY <1>1, <1>3 DEF StartRound, Started
<1>4. CASE CreateThread \/ BreakLoop \/ PcapSetupFails \/ HeadVanishes
  BY <1>4 DEF CreateThread, BreakLoop, PcapSetupFails, HeadVanishes, Started
<1>5. CASE Join \/ Advance \/ Report \/ Count
  BY <1>5 DEF Join, Advance, Report, Count, Started
<1>6. CASE Decide \/ TakeList
  <2>1. mode \in {"syn", "fin"}
    BY CountsAssumption DEF TypeOK
  <2>2. CASE Decide
    BY <2>2 DEF Decide, Started
  <2>3. CASE TakeList
    BY <2>1, <2>3 DEF TakeList, Started
  <2> QED
    BY <1>6, <2>2, <2>3
<1>7. ASSUME NEW t \in live, Probe(t) PROVE Started'
  BY <1>7 DEF Probe, Started
<1>8. ASSUME NEW r \in DOMAIN sniffer, Response(r) \/ Stray(r) PROVE Started'
  <2>1. sniffer # <<>> /\ UNCHANGED <<pc, base, cur, mode, retry>>
    BY <1>8 DEF Response, Stray, Take
  <2> QED
    BY <2>1 DEF Started
<1>9. CASE Sniff
  <2>1. sniffer # <<>>
    BY <1>9 DEF Sniff, Walk, Unlock, TypeOK
  <2> QED
    BY <1>9, <2>1 DEF Sniff, Walk, Unlock, Started
<1>10. CASE UNCHANGED vars
  BY <1>10 DEF vars, listVars, Started
<1> QED
  BY <1>2, <1>3, <1>4, <1>5, <1>6, <1>7, <1>8, <1>9, <1>10 DEF Next, MainStep

LEMMA TypeStep ==
  ASSUME TypeOK, Started, [Next]_vars
  PROVE  TypeOK'
<1>1. CASE Main \/ StartRound \/ CreateThread
  BY <1>1, MainType, StartRoundType, CreateThreadType
<1>2. CASE PcapSetupFails \/ HeadVanishes \/ Join \/ Advance \/ Decide \/ TakeList \/ Report \/ Count
  BY <1>2, MainMovesType
<1>3. CASE BreakLoop
  BY <1>3, BreakLoopType
<1>4. ASSUME NEW t \in live, Probe(t) PROVE TypeOK'
  BY <1>4, ProbeType
<1>5. ASSUME NEW r \in DOMAIN sniffer, Response(r) \/ Stray(r) PROVE TypeOK'
  <2>1. PICK w \in WirePorts :
          /\ Take(r, w)
          /\ inflight' = inflight \/ (inflight[w] > 0 /\ inflight' = [inflight EXCEPT ![w] = @ - 1])
    BY <1>5 DEF Response, Stray
  <2>2. inflight \in [WirePorts -> Nat]
    BY DEF TypeOK
  <2>3. inflight' \in [WirePorts -> Nat]
    BY <2>1, <2>2
  <2> QED
    BY <2>1, <2>3, TakeType
<1>6. CASE Sniff
  BY <1>6, SniffType
<1>7. CASE UNCHANGED vars
  <2>1. UNCHANGED listVars /\ UNCHANGED <<mainVars, poolVars, sniffVars, netVars, historyVars>>
    BY <1>7 DEF vars
  <2>2. heap' = heap /\ ListTypeOK(Ports)' /\ Addresses' = Addresses
    BY <2>1, SameHeap DEF TypeOK, listVars
  <2>3. MainTypeOK' /\ HistoryTypeOK' /\ PoolTypeOK' /\ SniffTypeOK' /\ NetTypeOK'
    BY <2>1, <2>2 DEF mainVars, poolVars, sniffVars, netVars, historyVars,
       TypeOK, MainTypeOK, HistoryTypeOK, PoolTypeOK, SniffTypeOK, NetTypeOK
  <2> QED
    BY <2>2, <2>3 DEF TypeOK, MainTypeOK, PoolTypeOK, SniffTypeOK, NetTypeOK, HistoryTypeOK
<1> QED
  BY <1>1, <1>2, <1>3, <1>4, <1>5, <1>6, <1>7 DEF Next, MainStep

LEMMA InitType == Init => TypeOK /\ Started
<1> SUFFICES ASSUME Init PROVE TypeOK /\ Started
  OBVIOUS
<1>1. Len(heap) = 0 /\ Addresses = {}
  BY DEF Init, Addresses
<1>2. ListTypeOK(Ports)
  BY <1>1 DEF Init, ListTypeOK, NULL
<1>3. tries \in Nat /\ MaxPackets \in Nat /\ Rates \subseteq Nat
  BY CountsAssumption
<1> QED
  BY <1>1, <1>2, <1>3 DEF Init, TypeOK, Started, NULL

\* The list of probes is well formed, and every variable keeps its type, whatever
\* is lost, sent twice or raced (main, syn, fin, synScanPort, got_packet): in
\* particular every next leads to an older node and every prev to a newer one.
THEOREM ScannerTypes == Spec => []TypeOK
<1>1. TypeOK /\ Started /\ [Next]_vars => TypeOK' /\ Started'
  BY TypeStep, StartedStep
<1> QED
  BY <1>1, InitType, PTL DEF Spec

(***************************************************************************)
(* What the list leaves out was answered.                                  *)
(***************************************************************************)
ListInv == HeadSkips /\ NextSkips /\ PrevSkips /\ LinkedHavePrev /\ SnifferUnlinks

\* Between the same nodes, more may be answered.
LEMMA AnsweredGrows ==
  ASSUME RoundNodes' = RoundNodes, answered \subseteq answered', NEW from, NEW to,
         AreAnswered(from, to)
  PROVE  \A n \in RoundNodes' : from < n /\ n < to => n \in answered'
BY DEF AreAnswered

\* Steps that leave the list and the sniffer's place in it alone.
LEMMA Quiet ==
  ASSUME ListInv, UNCHANGED <<heap, probeSent, base, answered, at, src_port>>,
         mutex_probe' \in {0, mutex_probe}
  PROVE  ListInv'
<1>1. Addresses' = Addresses /\ RoundNodes' = RoundNodes
  BY DEF Addresses, RoundNodes
<1>2. HeadSkips' /\ NextSkips' /\ PrevSkips'
  BY <1>1 DEF ListInv, HeadSkips, NextSkips, PrevSkips, AreAnswered
<1>3. LinkedHavePrev'
  BY <1>1 DEF ListInv, LinkedHavePrev
<1>4. SnifferUnlinks'
  BY <1>1 DEF ListInv, SnifferUnlinks, AreAnswered
<1> QED
  BY <1>2, <1>3, <1>4 DEF ListInv

\* The list of ports holds no probe.
LEMMA MainKeepsList ==
  ASSUME TypeOK, Started, ListInv, Main
  PROVE  ListInv'
<1>1. /\ probeSent' = NULL /\ mutex_probe = 0
      /\ UNCHANGED <<at, src_port, mutex_probe, answered, probeSent>>
  <2>1. heap = <<>> /\ sniffer = <<>>
    BY DEF Main, Started
  <2>2. probeSent = NULL /\ mutex_probe = 0
    BY <2>1 DEF TypeOK, ListTypeOK, NULL
  <2> QED
    BY <2>2 DEF Main, sniffVars
<1>2. CASE UNCHANGED <<heap, cur, base, todo>>
  BY <1>1, <1>2, Quiet
<1>3. CASE heap' = all /\ base' = numports
  <2>1. Len(heap') = numports /\ numports \in Nat
    BY <1>3, AllType, PortsType
  <2>2. RoundNodes' = {} /\ Addresses' = 1..numports
    BY <1>3, <2>1 DEF RoundNodes, Addresses
  <2>3. HeadSkips' /\ NextSkips' /\ PrevSkips'
    BY <2>2 DEF HeadSkips, NextSkips, PrevSkips, AreAnswered
  <2>4. LinkedHavePrev'
    BY <1>1, <2>1, <2>2 DEF LinkedHavePrev
  <2>5. SnifferUnlinks'
    BY <1>1 DEF SnifferUnlinks
  <2> QED
    BY <2>3, <2>4, <2>5 DEF ListInv
<1> QED
  BY <1>2, <1>3 DEF Main

\* A round starts with an empty list, unless a thread is at its Push.
LEMMA StartRoundKeepsList ==
  ASSUME "race" \notin Failures \/ live = {}, TypeOK, ListInv, StartRound
  PROVE  ListInv'
<1>1. /\ probeSent' = NULL /\ base' = Len(heap)
      /\ UNCHANGED <<heap, answered, mutex_probe, at, src_port>>
  BY DEF StartRound
<1>2. RoundNodes' = {} /\ Addresses' = Addresses
  BY <1>1, ListFacts DEF RoundNodes, Addresses, TypeOK
<1>3. HeadSkips' /\ NextSkips' /\ PrevSkips'
  BY <1>2 DEF HeadSkips, NextSkips, PrevSkips, AreAnswered
<1>4. LinkedHavePrev'
  BY <1>1, <1>2 DEF ListInv, LinkedHavePrev
<1>5. SnifferUnlinks'
  BY <1>1, <1>2 DEF ListInv, SnifferUnlinks, AreAnswered
<1> QED
  BY <1>3, <1>4, <1>5 DEF ListInv

\* A new probe, at the head, leaves out what the old head left out.
LEMMA ProbeKeepsList ==
  ASSUME TypeOK, Started, ListInv, NEW t \in live, Probe(t)
  PROVE  ListInv'
<1> DEFINE new == Len(heap) + 1
<1>1. /\ UNCHANGED <<base, answered, mutex_probe, at, src_port>> /\ mutex_probe = 0
      /\ pc \notin {"main", "crashed"} /\ base >= numports
  BY DEF Probe, Running, Started, sniffVars, historyVars
<1>2. CASE UNCHANGED listVars
  BY <1>1, <1>2, Quiet DEF listVars
<1>3. CASE Push(threads[t])
  <2>1. threads[t] \in Ports /\ ListTypeOK(Ports) /\ Len(heap) \in Nat /\ base \in 0..Len(heap)
        /\ probeSent \in 0..Len(heap) /\ numports \in Nat
    BY ListFacts, PortsType DEF TypeOK, ListTypeOK
  <2>2. /\ Len(heap') = new /\ probeSent' = new
        /\ heap'[new].next = probeSent /\ heap'[new].prev = NULL
    <3>1. heap'[new] = Node(threads[t], probeSent, NULL) /\ Len(heap') = new /\ probeSent' = new
      BY <1>3, <2>1, PushEffect
    <3> QED
      BY <3>1 DEF Node
  <2>3. \A n \in Addresses : /\ heap'[n].next = heap[n].next
                             /\ heap'[n].prev = IF n = probeSent THEN new ELSE heap[n].prev
    BY <1>3, <2>1, PushKnown
  <2>4. Addresses' = Addresses \cup {new} /\ RoundNodes' = RoundNodes \cup {new}
        /\ \A n \in Addresses \cup RoundNodes : n \in Nat /\ n < new
        /\ new \in Nat
    BY <1>1, <2>1, <2>2 DEF Addresses, RoundNodes
  <2>5. HeadSkips'
    BY <2>1, <2>2, <2>4 DEF HeadSkips, AreAnswered
  <2>6. NextSkips'
    <3> SUFFICES ASSUME NEW m \in RoundNodes', NEW n \in RoundNodes', heap'[m].next < n, n < m
                 PROVE  n \in answered
      BY <1>1 DEF NextSkips, AreAnswered
    <3>1. n \in RoundNodes
      BY <2>1, <2>4
    <3>2. CASE m = new
      BY <2>2, <3>1, <3>2 DEF ListInv, HeadSkips, AreAnswered
    <3>3. CASE m \in RoundNodes
      <4>1. m \in Addresses
        BY <2>1, <3>3 DEF RoundNodes, Addresses
      <4> QED
        BY <2>3, <3>1, <3>3, <4>1 DEF ListInv, NextSkips, AreAnswered
    <3> QED
      BY <2>4, <3>2, <3>3
  <2>7. PrevSkips'
    <3> SUFFICES ASSUME NEW a \in Addresses', NEW n \in RoundNodes', a < n, n < heap'[a].prev
                 PROVE  n \in answered
      BY <1>1 DEF PrevSkips, AreAnswered
    <3>1. CASE a = new
      <4>1. heap'[a].prev = 0
        BY <2>2, <3>1 DEF NULL
      <4>2. n \in RoundNodes \cup {new} /\ a \in Nat
        BY <2>4, <3>1
      <4>3. n \in Nat
        BY <2>4, <4>2
      <4> QED
        BY <4>1, <4>2, <4>3
    <3>2. CASE a \in Addresses /\ a = probeSent
      <4>1. n < new /\ n \in RoundNodes
        BY <2>1, <2>3, <2>4, <3>2
      <4> QED
        BY <3>2, <4>1 DEF ListInv, HeadSkips, AreAnswered
    <3>3. CASE a \in Addresses /\ a # probeSent
      <4>1. heap[a].prev \in Nat /\ heap[a].prev < new /\ n < heap[a].prev
        BY <2>1, <2>3, <3>3, ListFacts DEF Addresses, NULL
      <4>2. n \in RoundNodes
        BY <2>1, <2>4, <4>1
      <4> QED
        BY <3>3, <4>1, <4>2 DEF ListInv, PrevSkips, AreAnswered
    <3> QED
      BY <2>4, <3>1, <3>2, <3>3
  <2>8. LinkedHavePrev'
    <3>1. probeSent' > numports
      BY <1>1, <2>1, <2>2
    <3>2. ASSUME NEW m \in Addresses', m > numports, heap'[m].next # NULL
          PROVE  heap'[m].next > numports /\ heap'[heap'[m].next].prev # NULL
      <4>1. CASE m = new
        <5>1. heap'[m].next = probeSent /\ probeSent \in Addresses /\ probeSent > numports
          BY <2>1, <2>2, <3>2, <4>1 DEF Addresses, NULL, ListInv, LinkedHavePrev
        <5> QED
          BY <2>1, <2>3, <5>1 DEF NULL
      <4>2. CASE m \in Addresses
        <5>1. heap'[m].next = heap[m].next /\ heap[m].next \in Addresses
          BY <2>1, <2>3, <3>2, <4>2, ListFacts
        <5>2. heap[m].next > numports /\ heap[heap[m].next].prev # NULL
          BY <3>2, <4>2, <5>1 DEF ListInv, LinkedHavePrev
        <5> QED
          BY <2>1, <2>3, <5>1, <5>2 DEF NULL
      <4> QED
        BY <2>4, <4>1, <4>2
    <3> QED
      BY <3>1, <3>2 DEF LinkedHavePrev
  <2>9. SnifferUnlinks'
    BY <1>1 DEF SnifferUnlinks
  <2> QED
    BY <2>5, <2>6, <2>7, <2>8, <2>9 DEF ListInv
<1> QED
  BY <1>2, <1>3 DEF Probe

\* A sniffer that takes a packet starts at the head, and what it is to unlink is
\* answered by that packet.
LEMMA TakeKeepsList ==
  ASSUME TypeOK, ListInv, NEW r, NEW w \in WirePorts, Take(r, w)
  PROVE  ListInv'
<1>1. /\ UNCHANGED <<heap, probeSent, base>> /\ at' = probeSent /\ src_port' = w
      /\ answered' = answered \cup {n \in Addresses : Wire(heap[n].port) = w}
      /\ Addresses' = Addresses /\ RoundNodes' = RoundNodes
  BY DEF Take, Addresses, RoundNodes, listVars
<1>2. HeadSkips' /\ NextSkips' /\ PrevSkips'
  BY <1>1 DEF ListInv, HeadSkips, NextSkips, PrevSkips, AreAnswered
<1>3. LinkedHavePrev'
  BY <1>1 DEF ListInv, LinkedHavePrev
<1>4. SnifferUnlinks'
  <2>1. \A n \in Addresses' : heap'[n].port = src_port' => n \in answered'
    BY <1>1, WireOnce
  <2>2. at' # NULL => at' > numports
    BY <1>1 DEF ListInv, LinkedHavePrev
  <2>3. AreAnswered(at, Len(heap) + 1)'
    BY <1>1 DEF ListInv, HeadSkips, AreAnswered
  <2> QED
    BY <2>1, <2>2, <2>3 DEF SnifferUnlinks
<1> QED
  BY <1>2, <1>3, <1>4 DEF ListInv

\* What an unlinked node of an answered port was linked between is linked past
\* answered nodes only.
LEMMA UnlinkKeepsSkips ==
  ASSUME TypeOK, ListInv, mutex_probe # 0, at # NULL, heap[at].port = src_port, Unlink(at),
         base' = base, answered' = answered
  PROVE  HeadSkips' /\ NextSkips' /\ PrevSkips' /\ LinkedHavePrev'
<1>1. /\ ListTypeOK(Ports) /\ Len(heap) \in Nat /\ base \in Nat /\ numports \in Nat
      /\ at \in Addresses /\ at \in answered /\ at > numports
      /\ heap[at].prev = NULL => AreAnswered(at, Len(heap) + 1)
  BY ListFacts, PortsType DEF TypeOK, ListInv, SnifferUnlinks, Addresses, NULL
<1>2. /\ Len(heap') = Len(heap) /\ Addresses' = Addresses /\ RoundNodes' = RoundNodes
      /\ \A n \in Addresses :
           /\ heap'[n].prev = heap[n].prev
           /\ heap'[n].next = IF heap[at].prev # NULL /\ n = heap[at].prev
                              THEN heap[at].next ELSE heap[n].next
      /\ probeSent' = IF heap[at].prev = NULL THEN heap[at].next ELSE probeSent
  <2>1. Len(heap') = Len(heap)
    BY <1>1, UnlinkEffect
  <2> QED
    BY <1>1, <2>1, UnlinkEffect DEF Addresses, RoundNodes
<1>3. \A n \in RoundNodes : n \in Nat /\ n \in Addresses
  BY <1>1 DEF RoundNodes, Addresses
<1>4. heap[at].next \in Nat /\ heap[at].next < at /\ at \in Nat
  BY <1>1, ListFacts
\* From the node behind the unlinked one up to it, nothing awaited is left out.
<1>5. \A n \in RoundNodes : heap[at].next < n /\ n <= at => n \in answered
  <2> SUFFICES ASSUME NEW n \in RoundNodes, heap[at].next < n, n <= at
               PROVE  n \in answered
    OBVIOUS
  <2>1. CASE n = at
    BY <1>1, <2>1
  <2>2. CASE n < at
    <3>1. at \in RoundNodes
      BY <1>1, <1>3, <1>4, <2>2 DEF RoundNodes, Addresses
    <3> QED
      BY <2>2, <3>1 DEF ListInv, NextSkips, AreAnswered
  <2> QED
    BY <1>3, <1>4, <2>1, <2>2
<1>6. HeadSkips'
  <2>1. CASE heap[at].prev = NULL
    <3> SUFFICES ASSUME NEW n \in RoundNodes, heap[at].next < n, n < Len(heap) + 1
                 PROVE  n \in answered
      BY <1>2, <2>1 DEF HeadSkips, AreAnswered
    <3> QED
      BY <1>1, <1>3, <1>4, <1>5, <2>1 DEF AreAnswered
  <2>2. CASE heap[at].prev # NULL
    BY <1>2, <2>2 DEF ListInv, HeadSkips, AreAnswered
  <2> QED
    BY <2>1, <2>2
<1>7. NextSkips'
  <2> SUFFICES ASSUME NEW m \in RoundNodes, NEW n \in RoundNodes, heap'[m].next < n, n < m
               PROVE  n \in answered
    BY <1>2 DEF NextSkips, AreAnswered
  <2>1. CASE heap[at].prev # NULL /\ m = heap[at].prev
    <3>1. heap[at].next < n
      BY <1>2, <1>3, <2>1
    <3>2. at < n => n \in answered
      BY <1>1, <2>1 DEF ListInv, PrevSkips, AreAnswered
    <3> QED
      BY <1>3, <1>4, <1>5, <3>1, <3>2
  <2>2. CASE ~(heap[at].prev # NULL /\ m = heap[at].prev)
    BY <1>2, <1>3, <2>2 DEF ListInv, NextSkips, AreAnswered
  <2> QED
    BY <2>1, <2>2
<1>8. PrevSkips'
  BY <1>2 DEF ListInv, PrevSkips, AreAnswered
<1>9. LinkedHavePrev'
  <2>1. heap[at].next # NULL => /\ heap[at].next > numports /\ heap[at].next \in Addresses
                                /\ heap[heap[at].next].prev # NULL
    BY <1>1, ListFacts DEF ListInv, LinkedHavePrev
  <2>2. probeSent' # NULL => probeSent' > numports
    BY <1>2, <2>1 DEF ListInv, LinkedHavePrev
  <2>3. ASSUME NEW m \in Addresses, m > numports, heap'[m].next # NULL
        PROVE  heap'[m].next > numports /\ heap'[heap'[m].next].prev # NULL
    <3>1. CASE heap[at].prev # NULL /\ m = heap[at].prev
      <4>1. heap'[m].next = heap[at].next
        BY <1>2, <3>1
      <4> QED
        BY <1>2, <2>1, <2>3, <4>1
    <3>2. CASE ~(heap[at].prev # NULL /\ m = heap[at].prev)
      <4>1. heap'[m].next = heap[m].next
        BY <1>2, <3>2
      <4>2. heap[m].next \in Addresses /\ heap[m].next > numports /\ heap[heap[m].next].prev # NULL
        BY <1>1, <2>3, <4>1, ListFacts DEF ListInv, LinkedHavePrev
      <4> QED
        BY <1>2, <4>1, <4>2
    <3> QED
      BY <3>1, <3>2
  <2> QED
    BY <1>2, <2>2, <2>3 DEF LinkedHavePrev
<1> QED
  BY <1>6, <1>7, <1>8, <1>9

\* The sniffer's next node, if any, is one another is linked to: not the head.
LEMMA WalkKeepsList ==
  ASSUME TypeOK, ListInv, Walk
  PROVE  ListInv'
<1>1. /\ mutex_probe # 0 /\ at # NULL /\ at' = heap[at].next
      /\ UNCHANGED <<mutex_probe, src_port, base, answered>>
  BY DEF Walk, historyVars
<1>2. /\ ListTypeOK(Ports) /\ at \in Addresses /\ at > numports
      /\ heap[at].next # NULL => /\ heap[at].next > numports /\ heap[at].next \in Addresses
                                 /\ heap[heap[at].next].prev # NULL
  BY <1>1, ListFacts DEF TypeOK, ListInv, SnifferUnlinks, LinkedHavePrev, Addresses, NULL
<1>3. /\ Addresses' = Addresses
      /\ \A n \in Addresses : heap'[n].port = heap[n].port /\ heap'[n].prev = heap[n].prev
  <2>1. CASE Unlink(at)
    BY <1>2, <2>1, UnlinkEffect DEF Addresses
  <2>2. CASE UNCHANGED listVars
    BY <2>2 DEF listVars, Addresses
  <2> QED
    BY <2>1, <2>2 DEF Walk
<1>4. HeadSkips' /\ NextSkips' /\ PrevSkips' /\ LinkedHavePrev'
  <2>1. CASE heap[at].port = src_port
    BY <1>1, <2>1, UnlinkKeepsSkips DEF Walk
  <2>2. CASE UNCHANGED listVars
    BY <1>1, <2>2 DEF listVars, ListInv, HeadSkips, NextSkips, PrevSkips, LinkedHavePrev,
       AreAnswered, RoundNodes, Addresses
  <2> QED
    BY <2>1, <2>2 DEF Walk
<1>5. SnifferUnlinks'
  <2>1. \A n \in Addresses' : heap'[n].port = src_port' => n \in answered'
    BY <1>1, <1>3 DEF ListInv, SnifferUnlinks
  <2>2. at' # NULL => at' > numports /\ heap'[at'].prev # NULL
    BY <1>1, <1>2, <1>3
  <2> QED
    BY <2>1, <2>2 DEF SnifferUnlinks
<1> QED
  BY <1>4, <1>5 DEF ListInv

LEMMA ListStep ==
  ASSUME "race" \notin Failures \/ (StartRound => live = {}), TypeOK, Started, ListInv, [Next]_vars
  PROVE  ListInv'
<1> USE DEF MainFrame, mainVars, poolVars, sniffVars, netVars, historyVars
<1>1. CASE Main \/ StartRound
  BY <1>1, MainKeepsList, StartRoundKeepsList
<1>2. CASE CreateThread \/ BreakLoop \/ PcapSetupFails \/ HeadVanishes \/ Join \/ Advance
  <2>1. UNCHANGED <<heap, probeSent, base, answered, at, src_port, mutex_probe>>
    BY <1>2 DEF CreateThread, BreakLoop, PcapSetupFails, HeadVanishes, Join, Advance, listVars
  <2> QED
    BY <2>1, Quiet
<1>3. CASE Decide \/ TakeList \/ Report \/ Count
  <2>1. UNCHANGED <<heap, probeSent, base, answered, at, src_port, mutex_probe>>
    BY <1>3 DEF Decide, TakeList, Report, Count, listVars
  <2> QED
    BY <2>1, Quiet
<1>4. ASSUME NEW t \in live, Probe(t) PROVE ListInv'
  BY <1>4, ProbeKeepsList
<1>5. ASSUME NEW r \in DOMAIN sniffer, Response(r) \/ Stray(r) PROVE ListInv'
  <2>1. PICK w \in WirePorts : Take(r, w)
    BY <1>5 DEF Response, Stray
  <2> QED
    BY <2>1, TakeKeepsList
<1>6. CASE Walk
  BY <1>6, WalkKeepsList
<1>7. CASE Unlock \/ UNCHANGED vars
  <2>1. /\ UNCHANGED <<heap, probeSent, base, answered, at, src_port>>
        /\ mutex_probe' \in {0, mutex_probe}
    BY <1>7 DEF Unlock, vars, listVars
  <2> QED
    BY <2>1, Quiet
<1> QED
  BY <1>1, <1>2, <1>3, <1>4, <1>5, <1>6, <1>7 DEF Next, MainStep, Sniff

LEMMA InitList == Init => ListInv
<1> SUFFICES ASSUME Init PROVE ListInv
  OBVIOUS
<1>1. Addresses = {} /\ RoundNodes = {}
  BY DEF Init, Addresses, RoundNodes
<1> QED
  BY <1>1 DEF Init, ListInv, HeadSkips, NextSkips, PrevSkips, LinkedHavePrev, SnifferUnlinks,
     AreAnswered

\* The inductive invariant holds if main never resets the list under a thread.
THEOREM ListInvariance == ASSUME "race" \notin Failures PROVE Spec => []IInv
<1>1. TypeOK /\ Started /\ ListInv /\ [Next]_vars => TypeOK' /\ Started' /\ ListInv'
  BY TypeStep, StartedStep, ListStep
<1>2. Init => TypeOK /\ Started /\ ListInv
  BY InitType, InitList
<1>3. TypeOK /\ Started /\ ListInv => IInv
  BY DEF IInv, ListInv
<1> QED
  BY <1>1, <1>2, <1>3, PTL DEF Spec

\* A set of naturals has a least element.
LEMMA LeastElement ==
  ASSUME NEW S, S \subseteq Nat, S # {}
  PROVE  \E x \in S : \A y \in S : x <= y
<1>1. PICK x \in S : \A y \in S : ~(<<y, x>> \in OpToRel(<, Nat))
  BY WFMin, NatLessThanWellFounded
<1>2. \A y \in S : ~(y < x)
  BY <1>1 DEF OpToRel
<1> QED
  BY <1>2

\* A probe that no walk from the head meets was answered: among the nodes met from
\* there on, the least one that is not older than it can only be itself.
LEMMA ListedIfUnanswered == IInv => UnansweredIsListed
<1> SUFFICES ASSUME IInv, NEW n \in Awaited,
                    NEW T \in SUBSET RoundNodes, ClosedIn(RoundNodes, T, probeSent)
             PROVE  n \in T
  BY DEF UnansweredIsListed, OnList
<1>1. /\ ListTypeOK(Ports) /\ Len(heap) \in Nat /\ base \in Nat /\ probeSent \in 0..Len(heap)
      /\ \A m \in RoundNodes : m \in Nat /\ m \in Addresses
  BY ListFacts DEF IInv, TypeOK, ListTypeOK, RoundNodes, Addresses
<1>2. n \in RoundNodes /\ n \notin answered /\ n \in Nat /\ n <= Len(heap) /\ base < n
  BY <1>1 DEF Awaited, RoundNodes
<1> DEFINE newer == {m \in T : n <= m}
<1>3. probeSent \in newer
  <2>1. n <= probeSent
    BY <1>1, <1>2 DEF IInv, HeadSkips, AreAnswered
  <2>2. probeSent \in RoundNodes
    BY <1>1, <1>2, <2>1 DEF RoundNodes
  <2> QED
    BY <2>1, <2>2 DEF ClosedIn
<1>4. PICK m \in newer : \A k \in newer : m <= k
  BY <1>1, <1>3, LeastElement
<1>5. m \in RoundNodes /\ m \in T /\ n <= m /\ m \in Nat
  BY <1>1, <1>4
<1>6. CASE m = n
  BY <1>5, <1>6
<1>7. CASE n < m
  <2>1. heap[m].next \in Nat /\ heap[m].next < m
    BY <1>1, <1>5, ListFacts
  <2>2. n <= heap[m].next
    BY <1>2, <1>5, <1>7, <2>1 DEF IInv, NextSkips, AreAnswered
  <2>3. heap[m].next \in RoundNodes
    BY <1>1, <1>2, <1>5, <2>1, <2>2 DEF RoundNodes
  <2>4. heap[m].next \in newer
    BY <1>5, <2>2, <2>3 DEF ClosedIn
  <2> QED
    BY <1>4, <1>5, <2>1, <2>4
<1> QED
  BY <1>2, <1>5, <1>6, <1>7

\* Whatever packets come, in whatever order, and whatever prev pointers the removal
\* of others left behind, a probe of the current round that nothing came for can be
\* reached from probeSent (synScanPort, finScanPort, got_packet), for any range of
\* ports, any number of threads, tries and packets.
THEOREM UnansweredStays == ASSUME "race" \notin Failures PROVE Spec => []UnansweredIsListed
BY ListInvariance, ListedIfUnanswered, PTL

(***************************************************************************)
(* The walks.                                                              *)
(***************************************************************************)

\* What main's walk has still to visit lies ahead of it, older nodes being behind
\* newer ones.
Ahead == \A n \in todo \ answered : n <= cur /\ (pc \in {"join", "next"} => n # cur)

\* What a node of a former round, or its prev, leaves out of the walk was answered.
TodoNext == \A n \in todo, m \in 1..base : heap[m].next < n /\ n < m => n \in answered

TodoPrev ==
  \A n \in todo, a \in 1..base :
    a < n /\ n < heap[a].prev /\ heap[a].prev <= base => n \in answered

\* While probes are sent, main walks a list that was closed before.
CurIsOld == pc \in {"scan", "join", "next"} => cur <= base

\* The round to come tries probes of the one before, or is the first.
CallsWithList == pc = "call" => todo \subseteq RoundNodes \/ (Len(heap) = base /\ live = {})

\* A FIN scan reports probes of its round.
ReportsRound == pc = "report" => todo \subseteq RoundNodes

WalkInv == Ahead /\ TodoNext /\ TodoPrev /\ CurIsOld /\ CallsWithList /\ ReportsRound

\* The nodes in question are numbers.
LEMMA WalkFacts ==
  ASSUME TypeOK
  PROVE  /\ ListTypeOK(Ports) /\ Len(heap) \in Nat /\ base \in Nat /\ base <= Len(heap)
         /\ cur \in Nat /\ cur <= Len(heap) /\ probeSent \in Nat /\ probeSent <= Len(heap)
         /\ \A n \in Addresses : n \in Nat \ {0} /\ n <= Len(heap)
         /\ todo \subseteq Addresses /\ 1..base \subseteq Addresses
         /\ \A n \in Nat : n \in RoundNodes <=> base < n /\ n <= Len(heap)
<1>1. ListTypeOK(Ports) /\ Len(heap) \in Nat
  BY ListFacts DEF TypeOK
<1>2. base \in 0..Len(heap) /\ cur \in 0..Len(heap) /\ probeSent \in 0..Len(heap)
  BY <1>1 DEF TypeOK, ListTypeOK
<1> QED
  BY <1>1, <1>2 DEF TypeOK, Addresses, RoundNodes

\* Steps that leave the list, the walk and what it is to visit alone.
LEMMA QuietWalk ==
  ASSUME WalkInv, UNCHANGED <<heap, cur, base, todo>>, answered \subseteq answered',
         pc' = pc \/ pc' \in {"told", "list", "count", "end", "crashed"},
         live' \subseteq live
  PROVE  WalkInv'
<1>1. Ahead' /\ TodoNext' /\ TodoPrev' /\ CurIsOld'
  BY DEF WalkInv, Ahead, TodoNext, TodoPrev, CurIsOld
<1>2. CallsWithList' /\ ReportsRound'
  BY DEF WalkInv, CallsWithList, ReportsRound, RoundNodes
<1> QED
  BY <1>1, <1>2 DEF WalkInv

\* The list of all ports leaves none out.
LEMMA MainWalks ==
  ASSUME TypeOK, Started, WalkInv, Main
  PROVE  WalkInv'
<1>1. CASE packetRate = 0 /\ pc' = "crashed" /\ UNCHANGED <<heap, cur, base, todo>>
  BY <1>1, QuietWalk DEF Main, poolVars
<1>2. CASE heap' = all /\ cur' = numports /\ base' = numports /\ todo' = 1..numports /\ pc' = "call"
  <2>1. live' = {} /\ Len(heap') = numports /\ numports \in Nat
    BY <1>2, AllType, PortsType DEF Main, Started, poolVars
  <2>2. \A m \in 1..numports : heap'[m].next = m - 1 /\ heap'[m].prev = NULL
    <3> SUFFICES ASSUME NEW m \in 1..numports
                 PROVE  all[m].next = m - 1 /\ all[m].prev = NULL
      BY <1>2
    <3>1. all[m] = Node(high - m + 1, m - 1, NULL)
      BY DEF all
    <3>2. Node(high - m + 1, m - 1, NULL).next = m - 1 /\ Node(high - m + 1, m - 1, NULL).prev = NULL
      BY DEF Node
    <3> QED
      BY <3>1, <3>2
  <2>3. Ahead' /\ CurIsOld' /\ CallsWithList' /\ ReportsRound'
    BY <1>2, <2>1 DEF Ahead, CurIsOld, CallsWithList, ReportsRound
  <2>4. TodoNext' /\ TodoPrev'
    BY <1>2, <2>1, <2>2 DEF TodoNext, TodoPrev, NULL
  <2> QED
    BY <2>3, <2>4 DEF WalkInv
<1> QED
  BY <1>1, <1>2 DEF Main

\* The list of the round becomes one of a former round, which leaves out no more.
LEMMA StartRoundWalks ==
  ASSUME "race" \notin Failures \/ live = {}, TypeOK, ListInv, WalkInv, StartRound
  PROVE  WalkInv'
<1>1. /\ UNCHANGED <<heap, cur, todo, answered, live>> /\ base' = Len(heap)
      /\ pc = "call" /\ pc' = "scan"
  BY DEF StartRound
<1>2. Ahead' /\ CurIsOld' /\ CallsWithList' /\ ReportsRound'
  BY <1>1, WalkFacts DEF WalkInv, Ahead, CurIsOld, CallsWithList, ReportsRound
<1>3. CASE todo \subseteq RoundNodes
  <2>1. ASSUME NEW n \in todo, NEW m \in 1..base', heap[m].next < n, n < m
        PROVE  n \in answered
    <3>1. n \in RoundNodes /\ n \in Nat /\ m \in RoundNodes
      BY <1>1, <1>3, <2>1, WalkFacts
    <3> QED
      BY <2>1, <3>1 DEF ListInv, NextSkips, AreAnswered
  <2>2. ASSUME NEW n \in todo, NEW a \in 1..base', a < n, n < heap[a].prev
        PROVE  n \in answered
    <3>1. n \in RoundNodes /\ a \in Addresses
      BY <1>1, <1>3 DEF Addresses
    <3> QED
      BY <2>2, <3>1 DEF ListInv, PrevSkips, AreAnswered
  <2> QED
    BY <1>1, <1>2, <2>1, <2>2 DEF WalkInv, TodoNext, TodoPrev
<1>4. CASE Len(heap) = base
  BY <1>1, <1>2, <1>4 DEF WalkInv, TodoNext, TodoPrev
<1> QED
  BY <1>1, <1>3, <1>4 DEF WalkInv, CallsWithList

\* A thread is created for the node the walk has come to.
LEMMA CreateThreadWalks ==
  ASSUME WalkInv, CreateThread
  PROVE  WalkInv'
<1>1. /\ UNCHANGED <<heap, cur, base, answered>> /\ todo' = todo \ {cur}
      /\ pc = "scan" /\ pc' \in {"join", "next"}
  BY DEF CreateThread, listVars
<1> QED
  BY <1>1 DEF WalkInv, Ahead, TodoNext, TodoPrev, CurIsOld, CallsWithList, ReportsRound

\* The walk goes on behind the node it has come to.
LEMMA AdvanceWalks ==
  ASSUME TypeOK, Started, WalkInv, Advance
  PROVE  WalkInv'
<1>1. /\ UNCHANGED <<heap, base, todo, answered>> /\ cur' = heap[cur].next
      /\ pc = "next" /\ pc' = "scan" /\ cur # NULL
  BY DEF Advance, Started, historyVars, listVars
<1>2. /\ cur \in 1..base /\ cur \in Addresses /\ base \in Nat
      /\ heap[cur].next \in Nat /\ heap[cur].next < cur
  <2>1. cur \in 1..base /\ cur \in Addresses /\ base \in Nat
    BY <1>1, WalkFacts DEF WalkInv, CurIsOld, NULL
  <2> QED
    BY <2>1, WalkFacts, ListFacts
<1>3. Ahead'
  <2> SUFFICES ASSUME NEW n \in todo, n \notin answered
               PROVE  n <= heap[cur].next
    BY <1>1 DEF Ahead
  <2>1. n \in Nat /\ cur \in Nat
    BY WalkFacts
  <2>2. n <= cur /\ n # cur
    BY <1>1 DEF WalkInv, Ahead
  <2> QED
    BY <1>2, <2>1, <2>2 DEF WalkInv, TodoNext
<1>4. CurIsOld'
  BY <1>1, <1>2 DEF CurIsOld
<1> QED
  BY <1>1, <1>3, <1>4 DEF WalkInv, TodoNext, TodoPrev, CallsWithList, ReportsRound

\* The list main takes leaves out answered probes only.
LEMMA TakeListWalks ==
  ASSUME TypeOK, ListInv, WalkInv, TakeList
  PROVE  WalkInv'
<1>1. /\ UNCHANGED <<heap, base, answered>> /\ cur' = probeSent /\ todo' = Awaited
      /\ pc' \in {"call", "report"}
  BY DEF TakeList, listVars
<1>2. Ahead'
  <2> SUFFICES ASSUME NEW n \in Awaited
               PROVE  n <= probeSent
    BY <1>1 DEF Ahead
  <2>1. n \in RoundNodes /\ n \notin answered /\ n \in Nat /\ n < Len(heap) + 1
    BY WalkFacts DEF Awaited, RoundNodes
  <2> QED
    BY <2>1, WalkFacts DEF ListInv, HeadSkips, AreAnswered
<1>3. TodoNext' /\ TodoPrev'
  <2>1. \A n \in Awaited : n \in Nat /\ base < n
    BY WalkFacts DEF Awaited, RoundNodes
  <2>2. \A n \in Awaited, m \in 1..base : ~(n < m) /\ ~(n < heap[m].prev /\ heap[m].prev <= base)
    <3> SUFFICES ASSUME NEW n \in Awaited, NEW m \in 1..base
                 PROVE  ~(n < m) /\ ~(n < heap[m].prev /\ heap[m].prev <= base)
      OBVIOUS
    <3>1. m \in Addresses
      BY WalkFacts
    <3>2. heap[m].prev \in Nat
      <4>1. heap[m].prev # NULL => heap[m].prev \in Addresses
        BY <3>1, WalkFacts, ListFacts
      <4> QED
        BY <4>1, WalkFacts DEF NULL
    <3> QED
      BY <2>1, <3>2, WalkFacts
  <2> QED
    BY <1>1, <2>2 DEF TodoNext, TodoPrev
<1> QED
  BY <1>1, <1>2, <1>3 DEF WalkInv, CurIsOld, CallsWithList, ReportsRound, RoundNodes, Awaited

\* A probe put on the list is no part of what main walks.
LEMMA ProbeWalks ==
  ASSUME TypeOK, WalkInv, NEW t \in live, Probe(t)
  PROVE  WalkInv'
<1>1. UNCHANGED <<pc, cur, base, todo, answered>> /\ live' \subseteq live
  BY DEF Probe, mainVars, historyVars
<1>2. CASE UNCHANGED listVars
  BY <1>1, <1>2, QuietWalk DEF listVars
<1>3. CASE Push(threads[t])
  <2>1. /\ Len(heap') = Len(heap) + 1
        /\ \A n \in Addresses : /\ heap'[n].next = heap[n].next
                                /\ heap'[n].prev \in {heap[n].prev, Len(heap) + 1}
    <3>1. threads[t] \in Ports
      BY DEF TypeOK
    <3> QED
      BY <1>3, <3>1, WalkFacts, PushEffect
  <2>2. \A m \in 1..base : /\ heap'[m].next = heap[m].next
                           /\ heap'[m].prev <= base => heap'[m].prev = heap[m].prev
    BY <2>1, WalkFacts
  <2>3. TodoNext' /\ TodoPrev'
    BY <1>1, <2>2 DEF WalkInv, TodoNext, TodoPrev
  <2>4. CallsWithList' /\ ReportsRound'
    <3>1. RoundNodes \subseteq RoundNodes' /\ live # {}
      BY <1>1, <2>1, WalkFacts DEF RoundNodes
    <3> QED
      BY <1>1, <3>1 DEF WalkInv, CallsWithList, ReportsRound
  <2> QED
    BY <1>1, <2>3, <2>4 DEF WalkInv, Ahead, CurIsOld
<1> QED
  BY <1>2, <1>3 DEF Probe

\* Unlinking an answered probe makes its neighbour leave out answered ones only.
LEMMA UnlinkWalks ==
  ASSUME TypeOK, ListInv, WalkInv, Walk
  PROVE  WalkInv'
<1>1. /\ UNCHANGED <<pc, cur, base, todo, answered, live>>
      /\ mutex_probe # 0 /\ at # NULL /\ at \in Addresses
  BY DEF Walk, TypeOK, mainVars, poolVars, historyVars, Addresses, NULL
<1>2. CASE UNCHANGED listVars
  BY <1>1, <1>2, QuietWalk DEF listVars
<1>3. CASE heap[at].port = src_port /\ Unlink(at)
  <2>1. /\ Len(heap') = Len(heap)
        /\ \A n \in Addresses :
             /\ heap'[n].prev = heap[n].prev
             /\ heap'[n].next = IF heap[at].prev # NULL /\ n = heap[at].prev
                                THEN heap[at].next ELSE heap[n].next
    BY <1>1, <1>3, WalkFacts, UnlinkEffect
  <2>2. /\ at \in answered /\ at \in Nat /\ heap[at].next \in Nat /\ heap[at].next < at
        /\ heap[at].prev # NULL => at < heap[at].prev /\ heap[at].prev \in Nat
    BY <1>1, <1>3, WalkFacts, ListFacts DEF ListInv, SnifferUnlinks
  <2>3. TodoNext'
    <3> SUFFICES ASSUME NEW n \in todo, NEW m \in 1..base, heap'[m].next < n, n < m
                 PROVE  n \in answered
      BY <1>1 DEF TodoNext
    <3>1. m \in Addresses /\ n \in Nat /\ base \in Nat
      BY WalkFacts
    <3>2. CASE heap[at].prev # NULL /\ m = heap[at].prev
      <4>1. at \in 1..base /\ heap[at].next < n
        BY <2>1, <2>2, <3>1, <3>2, <1>1 DEF NULL
      <4>2. n < at => n \in answered
        BY <4>1 DEF WalkInv, TodoNext
      <4>3. at < n => n \in answered
        BY <3>1, <3>2, <4>1 DEF WalkInv, TodoPrev
      <4> QED
        BY <2>2, <3>1, <4>2, <4>3
    <3>3. CASE ~(heap[at].prev # NULL /\ m = heap[at].prev)
      BY <2>1, <3>1, <3>3 DEF WalkInv, TodoNext
    <3> QED
      BY <3>2, <3>3
  <2>4. TodoPrev'
    BY <1>1, <2>1, WalkFacts DEF WalkInv, TodoPrev
  <2> QED
    BY <1>1, <2>1, <2>3, <2>4 DEF WalkInv, Ahead, CurIsOld, CallsWithList, ReportsRound, RoundNodes
<1> QED
  BY <1>2, <1>3 DEF Walk

\* The report of a FIN scan goes on behind the probe it has printed.
LEMMA ReportWalks ==
  ASSUME TypeOK, ListInv, WalkInv, Report
  PROVE  WalkInv'
<1>1. UNCHANGED <<heap, base, answered, live>> /\ pc = "report"
  BY DEF Report, historyVars, listVars, poolVars
<1>2. CASE cur = NULL
  BY <1>1, <1>2, QuietWalk DEF Report
<1>3. CASE cur # NULL
  <2>1. cur' = heap[cur].next /\ todo' = todo \ {cur} /\ pc' = "report"
    BY <1>1, <1>3 DEF Report
  <2>2. Ahead'
    <3> SUFFICES ASSUME NEW n \in todo, n \notin answered, n # cur
                 PROVE  n <= heap[cur].next
      BY <1>1, <2>1 DEF Ahead
    <3>1. n \in RoundNodes /\ n <= cur
      BY <1>1 DEF WalkInv, Ahead, ReportsRound
    <3>2. n \in Nat /\ cur \in Nat /\ n < cur /\ cur \in RoundNodes
      BY <3>1, WalkFacts DEF RoundNodes
    <3>3. heap[cur].next \in Nat
      BY <3>2, WalkFacts, ListFacts DEF RoundNodes, Addresses
    <3> QED
      BY <3>1, <3>2, <3>3 DEF ListInv, NextSkips, AreAnswered
  <2> QED
    BY <1>1, <2>1, <2>2 DEF WalkInv, TodoNext, TodoPrev, CurIsOld, CallsWithList, ReportsRound,
       RoundNodes
<1> QED
  BY <1>2, <1>3

\* Every step keeps WalkInv, if no thread is raced for and a FIN scan skips its
\* report only when there is nothing to report.
LEMMA WalkStep ==
  ASSUME TypeOK, Started, ListInv, WalkInv, [Next]_vars,
         StartRound => "race" \notin Failures \/ live = {},
         mode = "fin" /\ num_awaited = 0 => Awaited = {}
  PROVE  WalkInv'
<1> USE DEF MainFrame, mainVars, poolVars, sniffVars, netVars, historyVars, listVars
<1>1. CASE Main \/ StartRound \/ CreateThread \/ Advance \/ TakeList \/ Report
  BY <1>1, MainWalks, StartRoundWalks, CreateThreadWalks, AdvanceWalks, TakeListWalks, ReportWalks
<1>2. CASE PcapSetupFails \/ HeadVanishes \/ BreakLoop \/ Count
  BY <1>2, QuietWalk DEF PcapSetupFails, HeadVanishes, BreakLoop, Count
<1>3. CASE Join
  <2>1. /\ UNCHANGED <<heap, cur, base, todo, answered>> /\ pc = "join" /\ pc' = "next"
    BY <1>3 DEF Join
  <2> QED
    BY <2>1 DEF WalkInv, Ahead, TodoNext, TodoPrev, CurIsOld, CallsWithList, ReportsRound
<1>4. CASE Decide
  <2>1. CASE mode = "fin" /\ num_awaited = 0
    <3>1. todo' = {} /\ pc' = "count" /\ UNCHANGED <<heap, cur, base, answered>>
      BY <1>4, <2>1 DEF Decide
    <3> QED
      BY <3>1 DEF WalkInv, Ahead, TodoNext, TodoPrev, CurIsOld, CallsWithList, ReportsRound
  <2> QED
    BY <1>4, <2>1, QuietWalk DEF Decide
<1>6. ASSUME NEW t \in live, Probe(t) PROVE WalkInv'
  BY <1>6, ProbeWalks
<1>7. ASSUME NEW r \in DOMAIN sniffer, Response(r) \/ Stray(r) PROVE WalkInv'
  <2>1. PICK w \in WirePorts : Take(r, w)
    BY <1>7 DEF Response, Stray
  <2> QED
    BY <2>1, QuietWalk DEF Take
<1>8. CASE Walk
  BY <1>8, UnlinkWalks
<1>9. CASE Unlock \/ UNCHANGED vars
  BY <1>9, QuietWalk DEF Unlock, vars
<1> QED
  BY <1>1, <1>2, <1>3, <1>4, <1>6, <1>7, <1>8, <1>9 DEF Next, MainStep, Sniff

LEMMA InitWalks == Init => WalkInv
BY DEF Init, WalkInv, Ahead, TodoNext, TodoPrev, CurIsOld, CallsWithList, ReportsRound

\* At the end of a walk only answered probes are left.
LEMMA WalkEnds == TypeOK /\ WalkInv => WalkMissesNothing
<1> SUFFICES ASSUME TypeOK, Ahead, cur = NULL, NEW n \in todo, n \notin answered
             PROVE  FALSE
  BY DEF WalkInv, WalkMissesNothing
<1> QED
  BY WalkFacts DEF Ahead, NULL

\* A scan keeps its mode.
LEMMA ModeStays == [Next]_vars => mode' = mode
<1> USE DEF MainFrame, mainVars, netVars
<1>1. MainStep => mode' = mode
  BY DEF MainStep, Main, StartRound, PcapSetupFails, HeadVanishes, CreateThread, Join, Advance, BreakLoop, Decide,
     TakeList, Report, Count
<1>2. ASSUME NEW t \in live, Probe(t) PROVE mode' = mode
  BY <1>2 DEF Probe
<1>3. ASSUME NEW r \in DOMAIN sniffer, Response(r) \/ Stray(r) PROVE mode' = mode
  BY <1>3 DEF Response, Stray, Take
<1>4. Sniff \/ UNCHANGED vars => mode' = mode
  BY DEF Sniff, Walk, Unlock, vars
<1> QED
  BY <1>1, <1>2, <1>3, <1>4 DEF Next

\* A SYN scan retries every probe without a response: whatever comes from the target,
\* at any time, the walks over the list, without the mutex, step over answered ones
\* only (syn, got_packet).
THEOREM RetriesMissNothing ==
  ASSUME "race" \notin Failures
  PROVE  Spec => [](mode = "syn" => WalkMissesNothing)
<1> DEFINE SynInv == mode = "syn" => WalkInv
<1>1. IInv => TypeOK /\ Started /\ ListInv
  BY DEF IInv, ListInv
<1>2. Init => SynInv
  BY InitWalks
<1>3. IInv /\ SynInv /\ [Next]_vars => SynInv'
  <2> SUFFICES ASSUME IInv, WalkInv, mode = "syn", [Next]_vars PROVE WalkInv'
    BY ModeStays
  <2> QED
    BY <1>1, WalkStep
<1>4. IInv /\ SynInv => (mode = "syn" => WalkMissesNothing)
  BY <1>1, WalkEnds
<1> QED
  BY <1>2, <1>3, <1>4, ListInvariance, PTL DEF Spec

(***************************************************************************)
(* The groups of threads.                                                  *)
(***************************************************************************)

\* Probes link to probes, so that the list of ports is never written to.
ProbesBeyondPorts ==
  /\ probeSent # NULL => probeSent > numports
  /\ at # NULL => at > numports
  /\ \A n \in Addresses : n > numports /\ heap[n].next # NULL => heap[n].next > numports

PortsInOrder ==
  pc \notin {"main", "crashed"} =>
    \A m \in 1..numports : heap[m].port = high - m + 1 /\ heap[m].next = m - 1

\* The first round walks the list of ports, from low to high.
WalksPorts ==
  /\ pc \in {"main", "call", "crashed"} \/ sniffer # <<>>
  /\ pc = "call" /\ sniffer = <<>> => cur = numports /\ live = {}
  /\ pc \in {"scan", "join", "next"} /\ FirstRound => cur <= numports

\* In the first round each thread has a slot to itself.
SlotsHold == FirstRound => \A t \in live : scanVictim[threads[t] % threadCount] = t

\* The threads are of ports below p, with the last join behind them.
Grouped(p) == \A t \in live : /\ threads[t] < p
                              /\ \A k \in threads[t]..p - 1 : k % threadCount # 0

InGroups == FirstRound => /\ pc = "scan" /\ cur # NULL => Grouped(high - cur + 1)
                          /\ pc = "next" => Grouped(high - cur + 2)

PortsInv == ProbesBeyondPorts /\ PortsInOrder

GroupInv == WalksPorts /\ SlotsHold /\ InGroups

\* Multiples of m leave no remainder.
LEMMA MultipleOf == ASSUME NEW m \in Nat \ {0}, NEW a \in Nat PROVE (m * a) % m = 0
OBVIOUS

\* Quotient and remainder.
LEMMA Divided ==
  ASSUME NEW m \in Nat \ {0}, NEW a \in Nat
  PROVE  a = m * (a \div m) + (a % m) /\ a \div m \in Nat /\ a % m \in 0..m - 1
OBVIOUS

\* Between two ports with one slot there is one at which a group is joined.
LEMMA MultipleBetween ==
  ASSUME NEW m \in Nat \ {0}, NEW p \in Nat, NEW q \in Nat, q < p, q % m = p % m
  PROVE  \E k \in Nat : q <= k /\ k < p /\ k % m = 0
<1> DEFINE k == m * (q \div m + 1)
<1>1. CASE q % m = 0
  BY <1>1
<1>2. CASE q % m # 0
  <2>1. /\ q = m * (q \div m) + (q % m) /\ p = m * (p \div m) + (p % m)
        /\ q \div m \in Nat /\ p \div m \in Nat /\ q % m \in 0..m-1
    BY Divided
  <2>2. p \div m >= q \div m + 1
    BY <2>1
  <2>3. m * (p \div m) >= k
    BY <2>1, <2>2
  <2>4. k = m * (q \div m) + m
    BY <2>1
  <2>5. k \in Nat /\ k % m = 0
    BY <2>1, MultipleOf
  <2>6. q <= k /\ k < p
    <3> HIDE DEF k
    <3>1. q % m \in Nat /\ q % m < m /\ q % m > 0 /\ m * (q \div m) \in Int /\ m * (p \div m) \in Int
      BY <1>2, <2>1
    <3> QED
      BY <2>1, <2>3, <2>4, <2>5, <3>1
  <2> QED
    BY <2>5, <2>6
<1> QED
  BY <1>1, <1>2

\* The nodes of the list of ports.
LEMMA PortNodes ==
  ASSUME TypeOK, Started
  PROVE  /\ numports \in Nat \ {0} /\ high \in Nat /\ low \in Nat \ {0}
         /\ numports = high - low + 1 /\ Len(heap) \in Nat /\ ListTypeOK(Ports)
         /\ pc \notin {"main", "crashed"} => numports <= Len(heap) /\ 1..numports \subseteq Addresses
<1>1. /\ numports \in Nat \ {0} /\ high \in Nat /\ low \in Nat \ {0} /\ numports = high - low + 1
      /\ Len(heap) \in Nat /\ ListTypeOK(Ports) /\ base \in Nat /\ base <= Len(heap)
  BY PortsType, RangeAssumption, WalkFacts DEF numports
<1> QED
  BY <1>1 DEF Started, Addresses

\* The threads and the slots of their ports.
LEMMA ThreadFacts ==
  ASSUME TypeOK
  PROVE  /\ threads \in Seq(Ports) /\ Len(threads) \in Nat
         /\ \A t \in live : /\ t \in 1..Len(threads) /\ threads[t] \in Nat
                           /\ threads[t] % threadCount \in Slots
<1>1. threads \in Seq(Ports) /\ Len(threads) \in Nat /\ live \subseteq 1..Len(threads)
  BY DEF TypeOK
<1>2. \A t \in live : threads[t] \in Nat
  <2>1. \A t \in live : threads[t] \in Ports
    BY <1>1
  <2> QED
    BY <2>1, PortsType
<1>3. \A t \in live : threads[t] % threadCount \in Slots
  BY <1>2, CountsAssumption, Divided DEF Slots
<1> QED
  BY <1>1, <1>2, <1>3

\* A probe is put behind the list of ports.
LEMMA PushBeyond ==
  ASSUME TypeOK, Started, PortsInv, NEW t \in live, Push(threads[t]) \/ PushUnseen(threads[t]),
         pc \notin {"main", "crashed"}, at' = at
  PROVE  PortsInv'
<1>1. /\ Len(heap') = Len(heap) + 1
      /\ heap'[Len(heap) + 1] = Node(threads[t], probeSent, NULL)
      /\ \A n \in Addresses : heap'[n].port = heap[n].port /\ heap'[n].next = heap[n].next
  <2>1. threads[t] \in Ports
    BY DEF TypeOK
  <2> QED
    BY <2>1, PortNodes, PushEffect
<1>2. probeSent' = Len(heap) + 1
  BY DEF Push, PushUnseen
<1>3. heap'[Len(heap) + 1].next = probeSent
  BY <1>1 DEF Node
<1>4. ProbesBeyondPorts'
  BY <1>1, <1>2, <1>3, PortNodes DEF PortsInv, ProbesBeyondPorts, Addresses, NULL
<1>5. PortsInOrder'
  BY <1>1, PortNodes DEF PortsInv, PortsInOrder
<1> QED
  BY <1>4, <1>5 DEF PortsInv

\* A probe taken off changes nothing of the list of ports.
LEMMA UnlinkBeyond ==
  ASSUME TypeOK, Started, PortsInv, Walk
  PROVE  PortsInv'
<1>1. /\ pc' = pc /\ at \in Addresses /\ at > numports /\ at' = heap[at].next /\ at # NULL
  BY PortNodes DEF Walk, mainVars, TypeOK, PortsInv, ProbesBeyondPorts, Addresses, NULL
<1>2. at' # NULL => at' > numports
  BY <1>1 DEF PortsInv, ProbesBeyondPorts
<1>3. CASE UNCHANGED listVars
  BY <1>1, <1>2, <1>3 DEF listVars, PortsInv, ProbesBeyondPorts, PortsInOrder, Addresses
<1>4. CASE Unlink(at)
  <2>1. /\ Addresses' = Addresses
        /\ \A n \in Addresses :
             /\ heap'[n].port = heap[n].port
             /\ heap'[n].next = IF heap[at].prev # NULL /\ n = heap[at].prev
                                THEN heap[at].next ELSE heap[n].next
        /\ probeSent' \in {probeSent, heap[at].next}
    BY <1>1, <1>4, PortNodes, UnlinkEffect DEF Unlink, Addresses
  <2>2. /\ heap[at].prev # NULL => heap[at].prev > numports
        /\ heap[at].next # NULL => heap[at].next > numports
    <3>1. at \in Nat /\ (heap[at].prev # NULL => at < heap[at].prev /\ heap[at].prev \in Nat)
      BY <1>1, PortNodes, ListFacts DEF Addresses
    <3>2. heap[at].next # NULL => heap[at].next > numports
      BY <1>1 DEF PortsInv, ProbesBeyondPorts
    <3> QED
      BY <1>1, <3>1, <3>2, PortNodes
  <2>3. ProbesBeyondPorts'
    BY <1>2, <2>1, <2>2 DEF PortsInv, ProbesBeyondPorts
  <2>4. PortsInOrder'
    <3>1. \A m \in 1..numports : ~(m > numports)
      BY PortNodes
    <3> QED
      BY <1>1, <2>1, <2>2, <3>1, PortNodes DEF PortsInv, PortsInOrder
  <2> QED
    BY <2>3, <2>4 DEF PortsInv
<1> QED
  BY <1>3, <1>4 DEF Walk

\* Every step keeps the list of ports as it is.
LEMMA PortsStep ==
  ASSUME TypeOK, Started, PortsInv, [Next]_vars
  PROVE  PortsInv'
<1> USE DEF MainFrame, mainVars, poolVars, sniffVars, netVars, historyVars, listVars
<1>1. ASSUME UNCHANGED <<heap, probeSent, at>>,
             pc \notin {"main", "crashed"} \/ pc' \in {"main", "crashed"}
      PROVE  PortsInv'
  BY <1>1 DEF PortsInv, ProbesBeyondPorts, PortsInOrder, Addresses
<1>2. CASE Main
  <2>1. CASE heap' = all /\ pc' = "call"
    <3>1. numports \in Nat /\ Len(heap') = numports /\ Addresses' = 1..numports
      BY <2>1, AllType, PortNodes DEF Addresses
    <3>2. ASSUME NEW m \in 1..numports
          PROVE  all[m].port = high - m + 1 /\ all[m].next = m - 1
      BY DEF all, Node
    <3>3. PortsInOrder'
      BY <2>1, <3>2 DEF PortsInOrder
    <3>4. ProbesBeyondPorts'
      <4>1. \A n \in 1..numports : ~(n > numports)
        BY <3>1
      <4>2. probeSent' = probeSent /\ at' = at
        BY <1>2 DEF Main
      <4> QED
        BY <3>1, <4>1, <4>2 DEF PortsInv, ProbesBeyondPorts
    <3> QED
      BY <3>3, <3>4 DEF PortsInv
  <2> QED
    BY <1>1, <1>2, <2>1 DEF Main
<1>3. CASE StartRound
  <2>1. CASE probeSent' = NULL /\ heap' = heap
    BY <1>3, <2>1 DEF StartRound, PortsInv, ProbesBeyondPorts, PortsInOrder, Addresses
  <2>2. ASSUME NEW t \in live, Push(threads[t]) \/ PushUnseen(threads[t])
        PROVE  PortsInv'
    BY <1>3, <2>2, PushBeyond DEF StartRound
  <2> QED
    BY <1>3, <2>1, <2>2 DEF StartRound
<1>4. CASE PcapSetupFails \/ HeadVanishes \/ CreateThread \/ Join \/ Advance \/ BreakLoop
  BY <1>1, <1>4 DEF PcapSetupFails, HeadVanishes, CreateThread, Join, Advance, BreakLoop
<1>5. CASE Decide \/ TakeList \/ Report \/ Count
  BY <1>1, <1>5 DEF Decide, TakeList, Report, Count
<1>6. ASSUME NEW t \in live, Probe(t) PROVE PortsInv'
  <2>1. CASE UNCHANGED listVars
    BY <1>1, <1>6, <2>1 DEF Probe
  <2>2. CASE Push(threads[t])
    <3>1. pc \notin {"main", "crashed"} /\ at' = at
      BY <1>6 DEF Probe, Running, Started
    <3> QED
      BY <2>2, <3>1, PushBeyond
  <2> QED
    BY <1>6, <2>1, <2>2 DEF Probe
<1>7. ASSUME NEW r \in DOMAIN sniffer, Response(r) \/ Stray(r) PROVE PortsInv'
  <2>1. PICK w \in WirePorts : Take(r, w)
    BY <1>7 DEF Response, Stray
  <2> QED
    BY <2>1 DEF Take, PortsInv, ProbesBeyondPorts, PortsInOrder, Addresses
<1>8. CASE Walk
  BY <1>8, UnlinkBeyond
<1>9. CASE Unlock \/ UNCHANGED vars
  BY <1>1, <1>9 DEF Unlock, vars, PortsInv, ProbesBeyondPorts, PortsInOrder, Addresses
<1> QED
  BY <1>2, <1>3, <1>4, <1>5, <1>6, <1>7, <1>8, <1>9 DEF Next, MainStep, Sniff

\* Steps that create no thread and leave main's place in the first round alone.
LEMMA QuietGroups ==
  ASSUME GroupInv, UNCHANGED <<threads, scanVictim>>, live' \subseteq live,
         Len(sniffer') = Len(sniffer), sniffer' = <<>> <=> sniffer = <<>>,
         \/ UNCHANGED <<pc, cur>>
         \/ pc' = "crashed"
         \/ sniffer # <<>> /\ pc' \in {"told", "list", "count", "report", "call", "end"}
  PROVE  GroupInv'
<1>1. WalksPorts'
  BY DEF GroupInv, WalksPorts, FirstRound
<1>2. SlotsHold'
  BY DEF GroupInv, SlotsHold, FirstRound
<1>3. InGroups'
  BY DEF GroupInv, InGroups, FirstRound, Grouped
<1> QED
  BY <1>1, <1>2, <1>3 DEF GroupInv

\* A thread gets the slot of its port, which no thread of its group has.
LEMMA CreateThreadGroups ==
  ASSUME TypeOK, Started, PortsInv, GroupInv, CreateThread
  PROVE  GroupInv'
<1> DEFINE p == high - cur + 1
           new == Len(threads) + 1
<1>1. /\ UNCHANGED <<cur, sniffer>> /\ pc = "scan" /\ cur # NULL
      /\ sniffer # <<>>
  BY DEF CreateThread, sniffVars, GroupInv, WalksPorts
<1>2. CASE ~FirstRound
  BY <1>1, <1>2 DEF CreateThread, GroupInv, WalksPorts, SlotsHold, InGroups, FirstRound
<1>3. CASE FirstRound
  <2>1. cur \in 1..numports /\ heap[cur].port = p /\ p \in Nat
    <3>1. cur \in 1..numports
      BY <1>1, <1>3, WalkFacts, PortNodes DEF GroupInv, WalksPorts, NULL
    <3> QED
      BY <1>1, <3>1, PortNodes DEF PortsInv, PortsInOrder
  <2>2. /\ threads' = Append(threads, p) /\ live' = live \cup {new}
        /\ scanVictim' = [scanVictim EXCEPT ![p % threadCount] = new]
        /\ pc' = IF p % threadCount = 0 THEN "join" ELSE "next"
    BY <2>1 DEF CreateThread
  <2>3. /\ new \in Nat /\ threads'[new] = p
        /\ \A t \in live : threads'[t] = threads[t] /\ threads[t] \in Nat
    <3>1. p \in Ports
      BY <2>1, PortNodes DEF Ports
    <3>2. new \in Nat /\ threads'[new] = p /\ \A t \in 1..Len(threads) : threads'[t] = threads[t]
      <4> HIDE DEF p
      <4> QED
        BY <2>2, <3>1, ThreadFacts
    <3> QED
      BY <3>2, ThreadFacts
  <2>4. threadCount \in Nat \ {0} /\ p % threadCount \in Slots
    BY <2>1, CountsAssumption, Divided DEF Slots
  <2>5. Grouped(p)
    BY <1>1, <1>3 DEF GroupInv, InGroups
  <2> HIDE DEF p, new
  <2>6. \A t \in live : threads[t] % threadCount # p % threadCount
    <3> SUFFICES ASSUME NEW t \in live, threads[t] % threadCount = p % threadCount
                 PROVE  FALSE
      OBVIOUS
    <3>1. threads[t] \in Nat /\ threads[t] < p
      BY <2>3, <2>5 DEF Grouped
    <3>2. PICK k \in Nat : threads[t] <= k /\ k < p /\ k % threadCount = 0
      BY <2>1, <2>4, <3>1, MultipleBetween
    <3>3. k \in threads[t]..p - 1
      BY <2>1, <3>1, <3>2
    <3> QED
      BY <2>5, <3>2, <3>3 DEF Grouped
  <2>7. SlotsHold'
    <3>1. scanVictim \in [Slots -> 0..Len(threads)]
      BY DEF TypeOK
    <3>2. scanVictim'[p % threadCount] = new
      BY <2>2, <2>4, <3>1
    <3>3. ASSUME NEW t \in live
          PROVE  scanVictim'[threads'[t] % threadCount] = t
      <4>1. threads[t] % threadCount \in Slots
        BY ThreadFacts
      <4>2. scanVictim'[threads[t] % threadCount] = scanVictim[threads[t] % threadCount]
        BY <2>2, <2>6, <3>1, <4>1
      <4> QED
        BY <1>3, <2>3, <4>2 DEF GroupInv, SlotsHold
    <3> QED
      BY <2>2, <2>3, <3>2, <3>3 DEF SlotsHold
  <2>8. InGroups'
    <3>1. ASSUME pc' = "next", NEW t \in live'
          PROVE  threads'[t] < p + 1 /\ \A k \in threads'[t]..p : k % threadCount # 0
      <4>1. p % threadCount # 0
        BY <2>2, <3>1
      <4>2. CASE t \in live
        <5>1. threads'[t] \in Nat /\ threads'[t] < p /\ \A k \in threads'[t]..p - 1 : k % threadCount # 0
          BY <2>3, <2>5, <4>2 DEF Grouped
        <5>2. \A k \in threads'[t]..p : k = p \/ k \in threads'[t]..p - 1
          BY <2>1, <5>1
        <5> QED
          BY <2>1, <4>1, <5>1, <5>2
      <4>3. CASE t = new
        <5>1. threads'[t] = p /\ \A k \in p..p : k = p
          BY <2>1, <2>3, <4>3
        <5> QED
          BY <2>1, <4>1, <5>1
      <4> QED
        BY <2>2, <4>2, <4>3
    <3>2. cur \in Nat /\ high \in Nat
      BY WalkFacts, PortNodes
    <3>3. high - cur' + 2 = p + 1 /\ (high - cur' + 2) - 1 = p
      BY <1>1, <3>2 DEF p
    <3>4. pc' = "next" =>
             \A t \in live' : /\ threads'[t] < high - cur' + 2
                              /\ \A k \in threads'[t]..(high - cur' + 2) - 1 : k % threadCount # 0
      BY <3>1, <3>3
    <3> QED
      BY <2>2, <3>4 DEF InGroups, Grouped
  <2>9. WalksPorts'
    BY <1>1, <1>3, <2>2 DEF GroupInv, WalksPorts
  <2> QED
    BY <2>7, <2>8, <2>9 DEF GroupInv
<1> QED
  BY <1>2, <1>3

\* After the join of all slots no thread of the first round is left.
LEMMA JoinGroups ==
  ASSUME TypeOK, GroupInv, Join
  PROVE  GroupInv'
<1>1. /\ UNCHANGED <<cur, sniffer, threads, live, scanVictim>> /\ pc = "join" /\ pc' = "next"
      /\ \A j \in Slots : scanVictim[j] \notin live
  BY DEF Join, poolVars, sniffVars
<1>2. FirstRound => live = {}
  <2> SUFFICES ASSUME FirstRound, NEW t \in live
               PROVE  FALSE
    OBVIOUS
  <2>1. threads[t] % threadCount \in Slots
    BY ThreadFacts
  <2> QED
    BY <1>1, <2>1 DEF GroupInv, SlotsHold
<1> QED
  BY <1>1, <1>2 DEF GroupInv, WalksPorts, SlotsHold, InGroups, Grouped, FirstRound

\* The next port of the first round is one higher.
LEMMA AdvanceGroups ==
  ASSUME TypeOK, Started, PortsInv, GroupInv, Advance
  PROVE  GroupInv'
<1>1. /\ UNCHANGED <<sniffer, threads, live, scanVictim>> /\ cur' = heap[cur].next
      /\ pc = "next" /\ pc' = "scan" /\ cur # NULL
  BY DEF Advance, Started, poolVars, sniffVars
<1>2. CASE FirstRound
  <2>1. cur \in 1..numports
    BY <1>1, <1>2, WalkFacts, PortNodes DEF GroupInv, WalksPorts, NULL
  <2>2. cur' = cur - 1
    BY <1>1, <2>1 DEF PortsInv, PortsInOrder
  <2>3. high - cur' + 1 = high - cur + 2 /\ cur' <= numports
    BY <2>1, <2>2, PortNodes
  <2>4. Grouped(high - cur + 2)
    BY <1>1, <1>2 DEF GroupInv, InGroups
  <2>5. InGroups'
    BY <1>1, <2>3, <2>4 DEF InGroups, Grouped
  <2> QED
    BY <1>1, <2>3, <2>5 DEF GroupInv, WalksPorts, SlotsHold, FirstRound
<1>3. CASE ~FirstRound
  BY <1>1, <1>3 DEF GroupInv, WalksPorts, SlotsHold, InGroups, FirstRound
<1> QED
  BY <1>2, <1>3

\* The first call of syn or fin meets no threads; a later one ends the first round.
LEMMA StartRoundGroups ==
  ASSUME TypeOK, GroupInv, StartRound
  PROVE  GroupInv'
<1>1. /\ pc = "call" /\ pc' = "scan" /\ cur' = cur /\ live' \subseteq live
      /\ sniffer' = Append(sniffer, "on") /\ UNCHANGED <<threads, scanVictim>>
  BY DEF StartRound, poolVars
<1>2. /\ Len(sniffer') = Len(sniffer) + 1 /\ Len(sniffer) \in Nat /\ sniffer' # <<>>
      /\ Len(sniffer) = 0 => sniffer = <<>>
  <2>1. sniffer \in Seq({"on", "broken", "off"})
    BY DEF TypeOK
  <2> QED
    BY <1>1, <2>1
<1>3. CASE Len(sniffer) = 0
  <2>1. cur = numports /\ live = {} /\ live' = {} /\ numports \in Nat
    BY <1>1, <1>2, <1>3, PortsType DEF GroupInv, WalksPorts
  <2> QED
    BY <1>1, <1>2, <2>1 DEF GroupInv, WalksPorts, SlotsHold, InGroups, Grouped
<1>4. CASE Len(sniffer) # 0
  <2>1. ~FirstRound'
    BY <1>2, <1>4 DEF FirstRound
  <2> QED
    BY <1>1, <1>2, <2>1 DEF GroupInv, WalksPorts, SlotsHold, InGroups
<1> QED
  BY <1>3, <1>4

\* Every step keeps GroupInv.
LEMMA GroupStep ==
  ASSUME TypeOK, Started, PortsInv, GroupInv, [Next]_vars
  PROVE  GroupInv'
<1> USE DEF MainFrame, mainVars, poolVars, sniffVars, netVars, historyVars
<1>1. CASE Main
  <2>1. /\ pc = "main" /\ live = {} /\ live' = {} /\ pc' \in {"call", "crashed"}
        /\ pc' = "call" => cur' = numports
    BY <1>1 DEF Main, Started
  <2> QED
    BY <2>1 DEF GroupInv, WalksPorts, SlotsHold, InGroups
<1>2. CASE StartRound \/ CreateThread \/ Join \/ Advance
  BY <1>2, StartRoundGroups, CreateThreadGroups, JoinGroups, AdvanceGroups
<1>3. CASE PcapSetupFails \/ HeadVanishes
  BY <1>3, QuietGroups DEF PcapSetupFails, HeadVanishes
<1>4. CASE BreakLoop
  <2>1. Len(sniffer') = Len(sniffer) /\ (sniffer' = <<>> <=> sniffer = <<>>) /\ sniffer # <<>>
    <3>1. sniffer \in Seq({"on", "broken", "off"}) /\ sniffer # <<>>
      BY <1>4 DEF BreakLoop, TypeOK, GroupInv, WalksPorts
    <3> QED
      BY <1>4, <3>1 DEF BreakLoop
  <2> QED
    BY <1>4, <2>1, QuietGroups DEF BreakLoop
<1>5. CASE Decide \/ TakeList \/ Report \/ Count
  <2>1. sniffer # <<>> /\ pc' \in {"list", "count", "report", "call", "end"}
    BY <1>5 DEF Decide, TakeList, Report, Count, GroupInv, WalksPorts
  <2> QED
    BY <1>5, <2>1, QuietGroups DEF Decide, TakeList, Report, Count
<1>6. ASSUME NEW t \in live, Probe(t) PROVE GroupInv'
  BY <1>6, QuietGroups DEF Probe
<1>7. ASSUME NEW r \in DOMAIN sniffer, Response(r) \/ Stray(r) PROVE GroupInv'
  <2>1. PICK w \in WirePorts : Take(r, w)
    BY <1>7 DEF Response, Stray
  <2>2. Len(sniffer') = Len(sniffer) /\ (sniffer' = <<>> <=> sniffer = <<>>)
    <3>1. sniffer \in Seq({"on", "broken", "off"})
      BY DEF TypeOK
    <3> QED
      BY <2>1, <3>1 DEF Take
  <2> QED
    BY <2>1, <2>2, QuietGroups DEF Take
<1>8. CASE Walk \/ Unlock \/ UNCHANGED vars
  BY <1>8, QuietGroups DEF Walk, Unlock, vars
<1> QED
  BY <1>1, <1>2, <1>3, <1>4, <1>5, <1>6, <1>7, <1>8 DEF Next, MainStep, Sniff

\* One thread a slot: no more threads than slots.
LEMMA SlotsSuffice ==
  ASSUME TypeOK, SlotsHold
  PROVE  ThreadsBounded
<1> SUFFICES ASSUME FirstRound
             PROVE  Cardinality(live) <= threadCount
  BY DEF ThreadsBounded
<1> DEFINE f == [t \in live |-> threads[t] % threadCount]
<1>1. f \in [live -> Slots]
  BY ThreadFacts
<1>2. \A t, u \in live : f[t] = f[u] => t = u
  BY DEF SlotsHold
<1>3. IsFiniteSet(Slots) /\ Cardinality(Slots) = threadCount
  BY FS_Interval, CountsAssumption DEF Slots
<1>4. f \in Injection(live, Slots)
  BY <1>1, <1>2 DEF Injection, IsInjective
<1> HIDE DEF f
<1> QED
  BY <1>3, <1>4, FS_Injection

\* In the first round of a SYN or FIN scan no more than threadCount threads run at
\* once, though a join only looks at slots that follow from port numbers: whatever
\* the range, each group fills each slot at most once before it is joined (syn, fin).
THEOREM GroupsAreBounded == Spec => []ThreadsBounded
<1>1. Init => PortsInv /\ GroupInv
  BY DEF Init, PortsInv, ProbesBeyondPorts, PortsInOrder, GroupInv, WalksPorts, SlotsHold,
     InGroups, Addresses
<1>2. TypeOK /\ Started /\ [Next]_vars => TypeOK' /\ Started'
  BY TypeStep, StartedStep
<1>3. TypeOK /\ Started /\ PortsInv /\ GroupInv /\ [Next]_vars => PortsInv' /\ GroupInv'
  BY PortsStep, GroupStep
<1>4. TypeOK /\ GroupInv => ThreadsBounded
  BY SlotsSuffice DEF GroupInv
<1> QED
  BY <1>1, <1>2, <1>3, <1>4, InitType, PTL DEF Spec

(***************************************************************************)
(* The count of the first round.                                           *)
(***************************************************************************)

\* Rounds are only added to.
LEMMA RoundsGoOn == ASSUME TypeOK, [Next]_vars, FirstRound' PROVE FirstRound
<1> USE DEF MainFrame, mainVars, poolVars, sniffVars, netVars, historyVars
<1>1. sniffer \in Seq({"on", "broken", "off"}) /\ Len(sniffer) \in Nat
  BY DEF TypeOK
<1>2. CASE sniffer' = sniffer
  BY <1>2 DEF FirstRound
<1>3. CASE StartRound \/ BreakLoop
  <2>1. Len(sniffer') >= Len(sniffer)
    BY <1>1, <1>3 DEF StartRound, BreakLoop
  <2> QED
    BY <1>1, <2>1 DEF FirstRound
<1>4. ASSUME NEW r \in DOMAIN sniffer, Response(r) \/ Stray(r) PROVE FirstRound
  <2>1. PICK w \in WirePorts : Take(r, w)
    BY <1>4 DEF Response, Stray
  <2>2. Len(sniffer') = Len(sniffer)
    BY <1>1, <2>1 DEF Take
  <2> QED
    BY <2>2 DEF FirstRound
<1>5. CASE Main \/ PcapSetupFails \/ HeadVanishes \/ CreateThread \/ Join \/ Advance \/ Decide \/ TakeList \/ Report \/ Count
  BY <1>2, <1>5 DEF Main, PcapSetupFails, HeadVanishes, CreateThread, Join, Advance, Decide, TakeList, Report, Count
<1>6. CASE Walk \/ Unlock \/ UNCHANGED vars
  BY <1>2, <1>6 DEF Walk, Unlock, vars
<1>7. ASSUME NEW t \in live, Probe(t) PROVE FirstRound
  BY <1>2, <1>7 DEF Probe
<1> QED
  BY <1>3, <1>4, <1>5, <1>6, <1>7 DEF Next, MainStep, Sniff

\* The first round begins without threads and sniffers.
LEMMA FirstStart ==
  ASSUME TypeOK, GroupInv, StartRound, FirstRound'
  PROVE  sniffer = <<>> /\ live = {} /\ cur = numports
<1>1. sniffer \in Seq({"on", "broken", "off"}) /\ Len(sniffer) \in Nat
  BY DEF TypeOK
<1>2. Len(sniffer') = Len(sniffer) + 1
  BY <1>1 DEF StartRound
<1>3. sniffer = <<>>
  BY <1>1, <1>2 DEF FirstRound
<1> QED
  BY <1>3 DEF StartRound, GroupInv, WalksPorts

\* In the first round main resets no list under a thread, so that the list leaves
\* out answered probes only, whatever happens.
FirstListInv == FirstRound => ListInv

LEMMA FirstListStep ==
  ASSUME TypeOK, Started, GroupInv, FirstListInv, [Next]_vars
  PROVE  FirstListInv'
<1> SUFFICES ASSUME FirstRound' PROVE ListInv'
  BY DEF FirstListInv
<1>1. ListInv
  BY RoundsGoOn DEF FirstListInv
<1>2. StartRound => live = {}
  BY FirstStart
<1> QED
  BY <1>1, <1>2, ListStep

\* In the first round no probe without a response leaves the list, whatever is lost,
\* sent twice or raced for: the reset of the list in syn and fin meets no thread.
THEOREM FirstRoundListed == Spec => [](FirstRound => UnansweredIsListed)
<1>1. Init => PortsInv /\ GroupInv /\ FirstListInv
  BY InitList DEF Init, PortsInv, ProbesBeyondPorts, PortsInOrder, GroupInv, WalksPorts, SlotsHold,
     InGroups, Addresses, FirstListInv
<1>2. TypeOK /\ Started /\ [Next]_vars => TypeOK' /\ Started'
  BY TypeStep, StartedStep
<1>3. TypeOK /\ Started /\ PortsInv /\ GroupInv /\ [Next]_vars => PortsInv' /\ GroupInv'
  BY PortsStep, GroupStep
<1>4. TypeOK /\ Started /\ GroupInv /\ FirstListInv /\ [Next]_vars => FirstListInv'
  BY FirstListStep
<1>5. TypeOK /\ Started /\ FirstListInv => (FirstRound => UnansweredIsListed)
  <2>1. TypeOK /\ Started /\ ListInv => IInv
    BY DEF IInv, ListInv
  <2> QED
    BY <2>1, ListedIfUnanswered DEF FirstListInv
<1> QED
  BY <1>1, <1>2, <1>3, <1>4, <1>5, InitType, PTL DEF Spec

\* On the wire a port is itself, but for the last.
LEMMA WireIs ==
  ASSUME high < PortSpace
  PROVE  \A p \in Ports : Wire(p) = p
<1>1. \A p \in 0..PortSpace - 1 : p % PortSpace = p
  BY RangeAssumption
<1>2. \A p \in Ports : p \in 0..PortSpace - 1
  BY RangeAssumption DEF Ports
<1> QED
  BY <1>1, <1>2 DEF Wire

FirstInv == FirstNodes /\ SentInOrder /\ OneProbeEach /\ OneResponse /\ CountsOwed /\ OwedIsMet

\* The probes of the round, and what the count is of.
LEMMA RoundFacts ==
  ASSUME TypeOK
  PROVE  /\ RoundNodes \subseteq Addresses /\ IsFiniteSet(RoundNodes)
         /\ \A S \in SUBSET RoundNodes : IsFiniteSet(S) /\ Cardinality(S) \in Nat
         /\ Awaited \subseteq RoundNodes /\ Owed \subseteq RoundNodes
         /\ \A n \in RoundNodes : n \in Nat /\ n <= Len(heap) /\ heap[n].port \in Ports /\ heap[n].port \in Nat
         /\ mutex_probe = 0 => Owed = {}
<1>1. base \in Nat /\ Len(heap) \in Nat /\ ListTypeOK(Ports)
  BY WalkFacts
<1>2. RoundNodes \subseteq Addresses
  BY <1>1 DEF RoundNodes, Addresses
<1>3. IsFiniteSet(RoundNodes)
  BY <1>1, FS_Interval DEF RoundNodes
<1>4. \A S \in SUBSET RoundNodes : IsFiniteSet(S) /\ Cardinality(S) \in Nat
  BY <1>3, FS_Subset, FS_CardinalityType
<1>5. \A n \in RoundNodes : n \in Nat /\ n <= Len(heap) /\ heap[n].port \in Ports
  BY <1>1, <1>2, ListFacts DEF RoundNodes
<1> QED
  BY <1>2, <1>3, <1>4, <1>5, PortsType DEF Awaited, Owed

\* Steps that leave the list, the packets and the threads' ports alone.
LEMMA QuietCount ==
  ASSUME FirstInv, UNCHANGED <<heap, num_awaited, base, answered, src_port, inflight, threads>>,
         live' \subseteq live, UNCHANGED <<at, mutex_probe>> \/ (Owed = {} /\ mutex_probe' = 0),
         sniffer' = <<>> => sniffer = <<>>,
         pc' \notin {"main", "crashed"} => pc \notin {"main", "crashed"},
         SentInOrder'
  PROVE  FirstInv'
<1>1. RoundNodes' = RoundNodes /\ Awaited' = Awaited /\ Owed' = Owed
  BY DEF RoundNodes, Awaited, Owed
<1>2. FirstNodes' /\ OneResponse' /\ CountsOwed' /\ OwedIsMet'
  BY <1>1 DEF FirstInv, FirstNodes, OneResponse, CountsOwed, OwedIsMet
<1>3. OneProbeEach'
  BY <1>1 DEF FirstInv, OneProbeEach
<1> QED
  BY <1>2, <1>3 DEF FirstInv

\* The list of ports is built, and nothing sent.
LEMMA MainCounts ==
  ASSUME TypeOK, Started, FirstInv, Main
  PROVE  FirstInv'
<1>1. /\ UNCHANGED <<num_awaited, answered, src_port, inflight, threads, live, at, mutex_probe, sniffer>>
      /\ pc = "main" /\ heap = <<>> /\ live = {} /\ sniffer = <<>> /\ pc' \in {"call", "crashed"}
  BY DEF Main, Started, MainFrame, netVars, poolVars, sniffVars
<1>2. CASE UNCHANGED <<heap, cur, base, todo>>
  <2>1. pc' = "crashed"
    <3>1. Len(heap) = 0
      BY <1>1
    <3>2. CASE heap' = all /\ base' = numports /\ pc' = "call"
      <4>1. Len(all) = numports /\ numports \in Nat \ {0}
        BY AllType, PortsType
      <4> QED
        BY <1>2, <3>1, <3>2, <4>1
    <3> QED
      BY <3>2 DEF Main
  <2>2. SentInOrder'
    BY <2>1 DEF SentInOrder
  <2> QED
    BY <1>1, <1>2, <2>1, <2>2, QuietCount
<1>3. CASE heap' = all /\ base' = numports /\ pc' = "call"
  <2>1. Len(heap') = numports /\ numports \in Nat \ {0} /\ base = 0 /\ mutex_probe = 0
    <3>1. Len(heap) = 0 /\ Len(sniffer) = 0
      BY <1>1
    <3> QED
      BY <1>3, <3>1, AllType, PortsType DEF TypeOK
  <2>2. RoundNodes = {} /\ RoundNodes' = {}
    BY <1>1, <1>3, <2>1 DEF RoundNodes
  <2>3. Awaited = {} /\ Awaited' = {} /\ Owed = {} /\ Owed' = {}
    BY <2>2 DEF Awaited, Owed
  <2>4. FirstNodes' /\ SentInOrder' /\ OneProbeEach' /\ OwedIsMet'
    BY <1>1, <1>3, <2>1, <2>2, <2>3 DEF FirstNodes, SentInOrder, OneProbeEach, OwedIsMet
  <2>5. OneResponse'
    BY <1>1, <2>3 DEF FirstInv, OneResponse
  <2>6. CountsOwed'
    BY <1>1, <2>3 DEF FirstInv, CountsOwed
  <2> QED
    BY <2>4, <2>5, <2>6 DEF FirstInv
<1> QED
  BY <1>2, <1>3 DEF Main

\* The round begins, and nothing was sent.
LEMMA StartRoundCounts ==
  ASSUME TypeOK, Started, GroupInv, FirstInv, StartRound, FirstRound'
  PROVE  FirstInv'
<1>1. sniffer = <<>> /\ live = {} /\ cur = numports /\ pc = "call" /\ pc' = "scan"
      /\ sniffer' = Append(sniffer, "on")
  BY FirstStart DEF StartRound
<1>2. /\ UNCHANGED <<heap, num_awaited, answered, src_port, inflight, threads, live, at, mutex_probe, cur>>
      /\ base' = Len(heap)
  BY <1>1 DEF StartRound
<1>3. base = Len(heap) /\ base = numports
  BY <1>1 DEF FirstInv, FirstNodes
<1>4. base' = base /\ sniffer' # <<>> /\ UNCHANGED <<at, mutex_probe>>
  BY <1>1, <1>2, <1>3
<1>5. RoundNodes' = {}
  BY <1>2, <1>3, <1>4, WalkFacts DEF RoundNodes
<1>6. SentInOrder'
  BY <1>1, <1>2, <1>5 DEF SentInOrder, SentBelow
<1> QED
  BY <1>1, <1>2, <1>4, <1>6, QuietCount

\* A thread for a port above those of the others.
LEMMA CreateThreadCounts ==
  ASSUME TypeOK, Started, PortsInv, GroupInv, FirstRound, FirstInv, CreateThread
  PROVE  FirstInv'
<1> DEFINE p == high - cur + 1
<1>1. /\ UNCHANGED <<heap, num_awaited, base, answered, src_port, inflight, at, mutex_probe, sniffer, cur>>
      /\ pc = "scan" /\ cur # NULL /\ pc' \in {"join", "next"}
  BY DEF CreateThread, listVars, sniffVars, netVars, MainFrame
<1>2. cur \in 1..numports /\ heap[cur].port = p /\ p \in Nat /\ p \in Ports /\ high - cur + 2 = p + 1
  <2>1. cur \in 1..numports
    BY <1>1, WalkFacts, PortNodes DEF GroupInv, WalksPorts, NULL
  <2> QED
    BY <1>1, <2>1, PortNodes DEF PortsInv, PortsInOrder, Ports
<1>3. threads' = Append(threads, p) /\ live' = live \cup {Len(threads) + 1}
  BY <1>2 DEF CreateThread
<1>4. SentBelow(p)
  BY <1>1 DEF FirstInv, SentInOrder
<1>5. PICK new \in Nat : /\ live' = live \cup {new} /\ new \notin live /\ threads'[new] = p
                        /\ \A t \in live : threads'[t] = threads[t]
  <2> DEFINE m == Len(threads) + 1
  <2>1. m \in Nat /\ m \notin live
    BY ThreadFacts
  <2>2. threads'[m] = p /\ \A t \in live : threads'[t] = threads[t]
    <3> HIDE DEF p
    <3> QED
      BY <1>2, <1>3, ThreadFacts
  <2> QED
    BY <1>3, <2>1, <2>2
<1> HIDE DEF p
<1>6. \A t \in live : threads[t] \in Nat /\ threads[t] < p
  BY <1>4, ThreadFacts DEF SentBelow
<1>7. RoundNodes' = RoundNodes /\ Awaited' = Awaited /\ Owed' = Owed
  BY <1>1 DEF RoundNodes, Awaited, Owed
<1>8. FirstNodes' /\ OneResponse' /\ CountsOwed' /\ OwedIsMet'
  BY <1>1, <1>7 DEF FirstInv, FirstNodes, OneResponse, CountsOwed, OwedIsMet
<1>9. \A n \in RoundNodes : heap[n].port \in Nat /\ heap[n].port < p
  BY <1>4, RoundFacts DEF SentBelow
<1>10. OneProbeEach'
  <2>1. \A t \in live', n \in RoundNodes' : heap'[n].port # threads'[t]
    BY <1>1, <1>2, <1>5, <1>7, <1>9 DEF FirstInv, OneProbeEach
  <2>2. \A t \in live : threads'[t] # p
    BY <1>2, <1>5, <1>6
  <2>3. \A t, u \in live' : threads'[t] = threads'[u] => t = u
    BY <1>5, <2>2 DEF FirstInv, OneProbeEach
  <2> QED
    BY <1>1, <1>7, <2>1, <2>3 DEF FirstInv, OneProbeEach
<1>11. SentInOrder'
  <2>1. high - cur' + 2 = p + 1
    BY <1>1, <1>2
  <2>2. \A n \in RoundNodes' : heap'[n].port < p + 1
    BY <1>1, <1>2, <1>7, <1>9
  <2>3. \A t \in live' : threads'[t] < p + 1
    BY <1>2, <1>5, <1>6
  <2>4. SentBelow(high - cur + 2)'
    BY <2>1, <2>2, <2>3 DEF SentBelow
  <2> QED
    BY <1>1, <2>4 DEF SentInOrder
<1> QED
  BY <1>8, <1>10, <1>11 DEF FirstInv

\* The next port is the one above.
LEMMA AdvanceCounts ==
  ASSUME TypeOK, Started, PortsInv, GroupInv, FirstRound, FirstInv, Advance
  PROVE  FirstInv'
<1>1. /\ UNCHANGED <<heap, num_awaited, base, answered, src_port, inflight, at, mutex_probe, sniffer, threads, live>>
      /\ pc = "next" /\ pc' = "scan" /\ cur' = heap[cur].next /\ cur # NULL
  BY DEF Advance, listVars, sniffVars, netVars, MainFrame, historyVars, poolVars, Started
<1>2. cur' = cur - 1 /\ cur \in 1..numports
  <2>1. cur \in 1..numports
    BY <1>1, WalkFacts, PortNodes DEF GroupInv, WalksPorts, NULL
  <2> QED
    BY <1>1, <2>1, PortNodes DEF PortsInv, PortsInOrder
<1>3. high - cur' + 1 = high - cur + 2
  BY <1>2, PortNodes
<1>4. SentBelow(high - cur + 2)
  BY <1>1 DEF FirstInv, SentInOrder
<1>5. RoundNodes' = RoundNodes
  BY <1>1 DEF RoundNodes
<1>6. SentInOrder'
  BY <1>1, <1>3, <1>4, <1>5 DEF SentInOrder, SentBelow
<1> QED
  BY <1>1, <1>6, QuietCount

\* One more probe is awaited.
LEMMA ProbeCounts ==
  ASSUME high < PortSpace, TypeOK, Started, GroupInv, FirstRound, FirstInv, NEW t \in live, Probe(t)
  PROVE  FirstInv'
<1>1. /\ UNCHANGED <<base, answered, src_port, at, mutex_probe, sniffer, threads, pc, cur, target, mode>>
      /\ mutex_probe = 0 /\ live' = live \ {t} /\ pc \notin {"main", "crashed"}
  BY DEF Probe, mainVars, sniffVars, historyVars, Running, Started
<1>2. CASE UNCHANGED <<listVars, inflight>>
  <2>1. RoundNodes' = RoundNodes
    BY <1>1, <1>2 DEF RoundNodes, listVars
  <2>2. SentInOrder'
    BY <1>1, <1>2, <2>1 DEF FirstInv, SentInOrder, SentBelow, listVars
  <2> QED
    BY <1>1, <1>2, <2>2, QuietCount DEF listVars
<1>3. CASE Push(threads[t]) /\ Send(t)
  <2> DEFINE new == Len(heap) + 1
             w == Wire(threads[t])
  <2>1. /\ Len(heap') = new /\ heap'[new].port = threads[t] /\ threads[t] \in Ports
        /\ \A n \in Addresses : heap'[n].port = heap[n].port
        /\ num_awaited' = num_awaited + 1
    <3>1. threads[t] \in Ports
      BY DEF TypeOK
    <3>2. Len(heap') = new /\ heap'[new] = Node(threads[t], probeSent, NULL)
      BY <1>3, <3>1, PushEffect, WalkFacts
    <3>3. heap'[new].port = threads[t]
      BY <3>2 DEF Node
    <3>4. \A n \in Addresses : heap'[n].port = heap[n].port
      BY <1>3, <3>1, PushEffect, WalkFacts
    <3> HIDE DEF new
    <3> QED
      BY <1>3, <3>1, <3>2, <3>3, <3>4 DEF Push
  <2>2. /\ RoundNodes' = RoundNodes \cup {new} /\ new \notin RoundNodes /\ new \notin answered
        /\ \A n \in RoundNodes : heap'[n].port = heap[n].port
    <3>1. base \in Nat /\ base <= Len(heap) /\ Len(heap) \in Nat /\ answered \subseteq 1..Len(heap)
      BY WalkFacts DEF TypeOK, Addresses
    <3> QED
      BY <1>1, <2>1, <3>1, RoundFacts DEF RoundNodes
  <2>3. Awaited' = Awaited \cup {new} /\ new \notin Awaited /\ Owed = {} /\ Owed' = {}
    BY <1>1, <2>2, RoundFacts DEF Awaited, Owed
  <2>4. FirstNodes'
    <3>1. sniffer # <<>>
      BY <1>1 DEF GroupInv, WalksPorts
    <3> QED
      BY <1>1, <3>1 DEF FirstInv, FirstNodes
  <2>5. CountsOwed'
    <3>1. IsFiniteSet(Awaited) /\ Cardinality(Awaited) \in Nat
      BY RoundFacts
    <3>2. num_awaited = Cardinality(Awaited)
      BY <2>3 DEF FirstInv, CountsOwed
    <3>3. Cardinality(Awaited \cup {new}) = Cardinality(Awaited) + 1
      BY <2>3, <3>1, FS_AddElement
    <3> QED
      BY <2>1, <2>3, <3>2, <3>3 DEF CountsOwed
  <2>6. OwedIsMet'
    BY <2>3 DEF OwedIsMet
  <2>7. OneProbeEach'
    BY <1>1, <2>1, <2>2 DEF FirstInv, OneProbeEach
  <2>8. SentInOrder'
    <3>1. ASSUME NEW q, SentBelow(q) PROVE /\ \A n \in RoundNodes' : heap'[n].port < q
                                           /\ \A u \in live' : threads'[u] < q
      BY <1>1, <2>1, <2>2, <3>1 DEF SentBelow
    <3> QED
      BY <1>1, <3>1 DEF FirstInv, SentInOrder, SentBelow
  <2>9. OneResponse'
    <3> HIDE DEF new, w
    <3>1. w \in WirePorts /\ inflight \in [WirePorts -> Nat]
          /\ inflight' = IF Responds(w) THEN [inflight EXCEPT ![w] = @ + 1] ELSE inflight
      BY <1>3, <2>1 DEF Send, w, WirePorts, TypeOK
    <3>2. inflight[w] = 0
      <4>1. ASSUME NEW n \in Awaited, Wire(heap[n].port) = w PROVE FALSE
        <5>1. heap[n].port = threads[t] /\ n \in RoundNodes
          BY <2>1, <4>1, WireIs, RoundFacts DEF w
        <5> QED
          BY <5>1 DEF FirstInv, OneProbeEach
      <4> QED
        BY <3>1, <4>1 DEF FirstInv, OneResponse
    <3>3. ASSUME NEW v \in WirePorts, inflight'[v] # 0
          PROVE  inflight'[v] = 1 /\ \E n \in Awaited' : Wire(heap'[n].port) = v
      <4>1. CASE v = w
        <5>1. inflight'[v] = 1
          BY <3>1, <3>2, <3>3, <4>1
        <5>2. Wire(heap'[new].port) = v
          BY <2>1, <4>1 DEF w
        <5> QED
          BY <2>3, <5>1, <5>2
      <4>2. CASE v # w
        <5>1. inflight'[v] = inflight[v]
          BY <3>1, <4>2
        <5>2. PICK n \in Awaited : Wire(heap[n].port) = v
          BY <3>3, <5>1 DEF FirstInv, OneResponse
        <5>3. n \in Awaited' /\ heap'[n].port = heap[n].port
          BY <2>2, <2>3, <5>2, RoundFacts
        <5> QED
          BY <3>3, <5>1, <5>2, <5>3 DEF FirstInv, OneResponse
      <4> QED
        BY <4>1, <4>2
    <3> QED
      BY <3>3 DEF OneResponse
  <2> QED
    BY <2>4, <2>5, <2>6, <2>7, <2>8, <2>9 DEF FirstInv
<1> QED
  BY <1>2, <1>3 DEF Probe

\* The response of a port: its node is taken from the awaited to the owed, and lies
\* ahead of the sniffer.
LEMMA ResponseCounts ==
  ASSUME high < PortSpace, TypeOK, ListInv, FirstRound, FirstInv, NEW r \in DOMAIN sniffer, Response(r)
  PROVE  FirstInv'
<1>1. PICK w \in WirePorts : /\ inflight[w] > 0 /\ Take(r, w)
                             /\ inflight' = [inflight EXCEPT ![w] = @ - 1]
  BY DEF Response
<1>2. /\ UNCHANGED <<heap, probeSent, num_awaited, base, threads, live, pc, cur>>
      /\ mutex_probe = 0 /\ mutex_probe' = r /\ at' = probeSent /\ src_port' = w
      /\ answered' = answered \cup {n \in Addresses : Wire(heap[n].port) = w}
      /\ sniffer # <<>> /\ sniffer' # <<>> /\ r # 0
  <2>1. sniffer \in Seq({"on", "broken", "off"}) /\ r \in 1..Len(sniffer) /\ Len(sniffer) \in Nat
    BY DEF TypeOK
  <2>2. Len(sniffer') = Len(sniffer)
    BY <1>1, <2>1 DEF Take
  <2>3. sniffer # <<>> /\ sniffer' # <<>> /\ r # 0
    BY <2>1, <2>2
  <2> QED
    BY <1>1, <2>3 DEF Take, mainVars, listVars, poolVars
<1>3. RoundNodes' = RoundNodes /\ Owed = {}
  BY <1>2, RoundFacts DEF RoundNodes
<1>4. PICK n \in Awaited : Wire(heap[n].port) = w /\ inflight[w] = 1
  BY <1>1 DEF FirstInv, OneResponse
<1>5. /\ n \in RoundNodes /\ n \notin answered /\ n \in Nat /\ n <= Len(heap)
      /\ \A m \in RoundNodes : Wire(heap[m].port) = heap[m].port
      /\ heap[n].port = w /\ Len(heap) \in Nat /\ probeSent \in Nat
  BY <1>4, RoundFacts, WireIs, WalkFacts DEF Awaited
<1>6. \A m \in RoundNodes : heap[m].port = w => m = n
  BY <1>5 DEF FirstInv, OneProbeEach
<1>7. n <= probeSent
  BY <1>5 DEF ListInv, HeadSkips, AreAnswered
<1>8. Awaited' = Awaited \ {n}
  <2>1. \A m \in RoundNodes : m \in answered' <=> m \in answered \/ m = n
    BY <1>2, <1>5, <1>6, RoundFacts
  <2> QED
    BY <1>3, <2>1 DEF Awaited
<1>9. Owed' = {n}
  BY <1>2, <1>3, <1>5, <1>6, <1>7 DEF Owed
<1>10. CountsOwed'
  <2>1. Awaited' \cup Owed' = Awaited \cup Owed
    BY <1>3, <1>4, <1>8, <1>9
  <2> QED
    BY <1>2, <2>1 DEF FirstInv, CountsOwed
<1>11. OwedIsMet'
  <2>1. \A m \in RoundNodes : ~(heap[m].next < n /\ n < m)
    BY <1>5 DEF ListInv, NextSkips, AreAnswered
  <2> QED
    BY <1>2, <1>3, <1>9, <2>1 DEF OwedIsMet
<1>12. OneResponse'
  <2> SUFFICES ASSUME NEW v \in WirePorts, inflight'[v] # 0
               PROVE  inflight'[v] = 1 /\ \E m \in Awaited' : Wire(heap'[m].port) = v
    BY DEF OneResponse
  <2>1. inflight \in [WirePorts -> Nat]
    BY DEF TypeOK
  <2>2. v # w /\ inflight'[v] = inflight[v]
    BY <1>1, <1>4, <2>1
  <2>3. PICK m \in Awaited : Wire(heap[m].port) = v /\ inflight[v] = 1
    BY <2>2 DEF FirstInv, OneResponse
  <2> QED
    BY <1>2, <1>4, <1>8, <2>2, <2>3
<1>13. FirstNodes' /\ OneProbeEach' /\ SentInOrder'
  BY <1>2, <1>3 DEF FirstInv, FirstNodes, OneProbeEach, SentInOrder, SentBelow
<1> QED
  BY <1>10, <1>11, <1>12, <1>13 DEF FirstInv

\* The sniffer takes the owed node off when it comes to it, and only then.
LEMMA WalkCounts ==
  ASSUME TypeOK, Started, ListInv, PortsInv, FirstRound, FirstInv, Walk
  PROVE  FirstInv'
<1>1. /\ UNCHANGED <<base, answered, src_port, mutex_probe, inflight, threads, live, pc, cur, sniffer>>
      /\ mutex_probe # 0 /\ at # NULL /\ at' = heap[at].next /\ pc \notin {"main", "crashed"}
      /\ IF heap[at].port = src_port THEN Unlink(at) ELSE UNCHANGED listVars
  <2>1. sniffer # <<>>
    <3>1. mutex_probe \in 0..Len(sniffer) /\ mutex_probe # 0
      BY DEF Walk, TypeOK
    <3>2. CASE sniffer = <<>>
      BY <3>1, <3>2
    <3> QED
      BY <3>2
  <2> QED
    BY <2>1 DEF Walk, Running, Started, historyVars, netVars, poolVars, mainVars
<1>2. /\ at \in RoundNodes /\ at \in Addresses /\ at \in Nat /\ heap[at].next \in Nat /\ heap[at].next < at
  <2>1. at \in Nat /\ at <= Len(heap) /\ Len(heap) \in Nat
    BY WalkFacts DEF TypeOK
  <2>2. base = numports /\ at > numports
    BY <1>1 DEF FirstInv, FirstNodes, PortsInv, ProbesBeyondPorts
  <2>3. at \in RoundNodes
    BY <2>1, <2>2, WalkFacts
  <2> QED
    BY <2>1, <2>3, RoundFacts, ListFacts, WalkFacts
<1>3. Addresses' = Addresses /\ RoundNodes' = RoundNodes /\ \A n \in RoundNodes : heap'[n].port = heap[n].port
  <2>1. CASE UNCHANGED listVars
    BY <1>1, <2>1 DEF listVars, Addresses, RoundNodes
  <2>2. CASE Unlink(at)
    BY <1>1, <1>2, <2>2, UnlinkEffect, WalkFacts, RoundFacts DEF Addresses, RoundNodes
  <2> QED
    BY <1>1, <2>1, <2>2
<1>4. Awaited' = Awaited
  BY <1>1, <1>3 DEF Awaited
<1>5. FirstNodes' /\ OneProbeEach' /\ SentInOrder' /\ OneResponse'
  <2>1. FirstNodes'
    <3>1. Len(heap') = Len(heap)
      <4>1. CASE UNCHANGED listVars
        BY <4>1 DEF listVars
      <4>2. CASE Unlink(at)
        BY <1>2, <4>2, UnlinkEffect, WalkFacts
      <4> QED
        BY <1>1, <4>1, <4>2
    <3> QED
      BY <1>1, <3>1 DEF FirstInv, FirstNodes
  <2>2. OneProbeEach' /\ SentInOrder'
    BY <1>1, <1>3 DEF FirstInv, OneProbeEach, SentInOrder, SentBelow
  <2>3. OneResponse'
    BY <1>1, <1>3, <1>4, RoundFacts DEF FirstInv, OneResponse
  <2> QED
    BY <2>1, <2>2, <2>3
<1>6. CASE heap[at].port = src_port
  <2>1. \A n \in RoundNodes : heap[n].port = src_port => n = at
    BY <1>2, <1>6 DEF FirstInv, OneProbeEach
  <2>2. Owed = {at} /\ Owed' = {}
    <3>1. at \in Owed
      BY <1>1, <1>2, <1>6 DEF Owed
    <3>2. \A n \in Owed : n = at
      BY <2>1 DEF Owed
    <3>3. \A n \in Owed' : n = at /\ n <= heap[at].next
      BY <1>1, <1>3, <2>1 DEF Owed
    <3>4. ~(at <= heap[at].next)
      BY <1>2
    <3> QED
      BY <3>1, <3>2, <3>3, <3>4
  <2>3. at \notin Awaited
    BY <1>1, <1>2, <1>6 DEF ListInv, SnifferUnlinks, Awaited
  <2>4. num_awaited' = num_awaited - 1
    BY <1>1, <1>6 DEF Unlink
  <2>5. CountsOwed'
    <3>1. IsFiniteSet(Awaited) /\ Cardinality(Awaited) \in Nat
      BY RoundFacts
    <3>2. Cardinality(Awaited \cup {at}) = Cardinality(Awaited) + 1
      BY <2>3, <3>1, FS_AddElement
    <3>3. num_awaited = Cardinality(Awaited) + 1
      BY <2>2, <3>2 DEF FirstInv, CountsOwed
    <3>4. Awaited' \cup Owed' = Awaited
      BY <1>4, <2>2
    <3>5. num_awaited' = Cardinality(Awaited)
      BY <2>4, <3>1, <3>3
    <3> QED
      BY <3>4, <3>5 DEF CountsOwed
  <2>6. OwedIsMet'
    BY <2>2 DEF OwedIsMet
  <2> QED
    BY <1>5, <2>5, <2>6 DEF FirstInv
<1>7. CASE heap[at].port # src_port
  <2>1. UNCHANGED listVars
    BY <1>1, <1>7
  <2>2. ASSUME NEW n \in RoundNodes, heap[n].port = src_port
        PROVE  n <= at <=> n <= heap[at].next
    <3>1. n # at /\ n \in Nat
      BY <1>7, <2>2, RoundFacts
    <3>2. n <= at => n <= heap[at].next
      <4>1. n <= at => n \in Owed
        BY <1>1, <2>2 DEF Owed
      <4>2. n <= at => ~(heap[at].next < n /\ n < at)
        BY <1>2, <4>1 DEF FirstInv, OwedIsMet
      <4> QED
        BY <1>2, <3>1, <4>2
    <3> QED
      BY <1>2, <3>1, <3>2
  <2>3. Owed' = Owed
    BY <1>1, <1>3, <2>1, <2>2 DEF Owed, listVars
  <2>4. CountsOwed' /\ OwedIsMet'
    BY <1>3, <1>4, <2>1, <2>3 DEF FirstInv, CountsOwed, OwedIsMet, listVars
  <2> QED
    BY <1>5, <2>4 DEF FirstInv
<1> QED
  BY <1>6, <1>7

\* Every step of the first round keeps the count.
LEMMA CountStep ==
  ASSUME "stray" \notin Failures, high < PortSpace,
         TypeOK, Started, PortsInv, GroupInv, FirstListInv, CountInv, [Next]_vars
  PROVE  CountInv'
<1> SUFFICES ASSUME FirstRound' PROVE FirstInv'
  BY DEF CountInv, FirstInv
<1>1. FirstRound /\ ListInv /\ FirstInv
  BY RoundsGoOn DEF FirstListInv, CountInv, FirstInv
<1>2. CASE Main \/ StartRound \/ CreateThread \/ Advance
  BY <1>1, <1>2, MainCounts, StartRoundCounts, CreateThreadCounts, AdvanceCounts
<1>3. CASE PcapSetupFails \/ HeadVanishes \/ Join \/ BreakLoop \/ Decide \/ TakeList \/ Report \/ Count
  <2> USE DEF MainFrame, mainVars, poolVars, sniffVars, netVars, historyVars, listVars
  <2>1. /\ UNCHANGED <<heap, num_awaited, base, answered, src_port, inflight, threads, live, at, mutex_probe>>
        /\ pc \notin {"main", "crashed"} /\ pc' \notin {"scan", "join"}
    BY <1>3 DEF PcapSetupFails, HeadVanishes, Join, BreakLoop, Decide, TakeList, Report, Count
  <2>2. sniffer' = <<>> => sniffer = <<>>
    <3>1. CASE BreakLoop
      <4>1. sniffer \in Seq({"on", "broken", "off"}) /\ Len(sniffer') = Len(sniffer)
        BY <3>1 DEF BreakLoop, TypeOK
      <4> QED
        BY <4>1
    <3> QED
      BY <1>3, <3>1 DEF PcapSetupFails, HeadVanishes, Join, Decide, TakeList, Report, Count
  <2>3. SentInOrder'
    <3>1. CASE pc' = "next"
      <4>1. pc = "join" /\ cur' = cur
        BY <1>3, <3>1 DEF PcapSetupFails, HeadVanishes, Join, BreakLoop, Decide, TakeList, Report, Count
      <4> QED
        BY <1>1, <2>1, <3>1, <4>1 DEF FirstInv, SentInOrder, SentBelow, RoundNodes
    <3> QED
      BY <2>1, <3>1 DEF SentInOrder
  <2> QED
    BY <1>1, <2>1, <2>2, <2>3, QuietCount
<1>4. ASSUME NEW t \in live, Probe(t) PROVE FirstInv'
  BY <1>1, <1>4, ProbeCounts
<1>5. ASSUME NEW r \in DOMAIN sniffer, Response(r) \/ Stray(r) PROVE FirstInv'
  BY <1>1, <1>5, ResponseCounts DEF Stray
<1>6. CASE Walk
  BY <1>1, <1>6, WalkCounts
<1>7. CASE Unlock
  <2>1. Owed = {}
    <3>1. \A n \in RoundNodes : n \in Nat \ {0}
      BY RoundFacts, WalkFacts
    <3> QED
      BY <1>7, <3>1 DEF Unlock, Owed, NULL
  <2>2. SentInOrder'
    BY <1>1, <1>7 DEF Unlock, FirstInv, SentInOrder, SentBelow, RoundNodes, mainVars, poolVars,
       historyVars, listVars
  <2> QED
    BY <1>1, <1>7, <2>1, <2>2, QuietCount DEF Unlock, mainVars, poolVars, netVars, historyVars, listVars
<1>8. CASE UNCHANGED vars
  <2> USE DEF vars, mainVars, poolVars, sniffVars, netVars, historyVars, listVars
  <2>1. SentInOrder'
    BY <1>1, <1>8 DEF FirstInv, SentInOrder, SentBelow, RoundNodes
  <2> QED
    BY <1>1, <1>8, <2>1, QuietCount
<1> QED
  BY <1>2, <1>3, <1>4, <1>5, <1>6, <1>7, <1>8 DEF Next, MainStep, Sniff

\* The invariant of the count, in any scan whose target answers each probe once at
\* most, of ports that are themselves on the wire.
THEOREM CountInvariance ==
  ASSUME "stray" \notin Failures, high < PortSpace
  PROVE  Spec => []CountInv
<1>1. Init => PortsInv /\ GroupInv /\ FirstListInv
  <2>1. Init => PortsInv /\ GroupInv
    BY DEF Init, PortsInv, ProbesBeyondPorts, PortsInOrder, GroupInv, WalksPorts, SlotsHold,
       InGroups, Addresses
  <2> QED
    BY <2>1, InitList DEF FirstListInv
<1>2. Init => CountInv
  <2> SUFFICES ASSUME Init PROVE FirstInv
    BY DEF CountInv, FirstInv
  <2>1. RoundNodes = {} /\ Awaited = {} /\ Owed = {} /\ Len(heap) = 0
    BY DEF Init, RoundNodes, Awaited, Owed
  <2>2. num_awaited = Cardinality(Awaited \cup Owed)
    BY <2>1, FS_EmptySet DEF Init
  <2> QED
    BY <2>1, <2>2 DEF Init, FirstInv, FirstNodes, SentInOrder, OneProbeEach, OneResponse, CountsOwed,
       OwedIsMet
<1>3. TypeOK /\ Started /\ [Next]_vars => TypeOK' /\ Started'
  BY TypeStep, StartedStep
<1>4. TypeOK /\ Started /\ PortsInv /\ GroupInv /\ [Next]_vars => PortsInv' /\ GroupInv'
  BY PortsStep, GroupStep
<1>5. TypeOK /\ Started /\ GroupInv /\ FirstListInv /\ [Next]_vars => FirstListInv'
  BY FirstListStep
<1>6. TypeOK /\ Started /\ PortsInv /\ GroupInv /\ FirstListInv /\ CountInv /\ [Next]_vars => CountInv'
  BY CountStep
<1> QED
  BY <1>1, <1>2, <1>3, <1>4, <1>5, <1>6, InitType, PTL DEF Spec

\* In the first round num_awaited is the number of probes without a response
\* whenever no sniffer holds the mutex, though prev pointers go stale and probes are
\* pushed and unlinked in any order (synScanPort, finScanPort, got_packet).
THEOREM CountExact ==
  ASSUME "stray" \notin Failures, high < PortSpace
  PROVE  Spec => []CountIsExact
<1>1. TypeOK /\ CountInv => CountIsExact
  <2> SUFFICES ASSUME TypeOK, CountInv, FirstRound, mutex_probe = 0
               PROVE  num_awaited = Cardinality(Awaited)
    BY DEF CountIsExact
  <2>1. Awaited \cup Owed = Awaited
    BY RoundFacts
  <2> QED
    BY <2>1 DEF CountInv, CountsOwed
<1> QED
  BY <1>1, CountInvariance, ScannerTypes, PTL

(***************************************************************************)
(* The report of the FIN scan.                                             *)
(***************************************************************************)

\* A FIN scan has one round.
OneRound == FirstRound /\ (pc \in {"main", "call"} => sniffer = <<>>)

FinInv == mode = "fin" => WalkInv /\ OneRound

LEMMA OneRoundStep ==
  ASSUME TypeOK, Started, mode = "fin", OneRound, [Next]_vars
  PROVE  OneRound'
<1> USE DEF MainFrame, mainVars, poolVars, sniffVars, netVars, historyVars, listVars
<1>1. CASE Main
  BY <1>1 DEF Main, OneRound, FirstRound
<1>2. CASE StartRound
  <2>1. sniffer' = <<"on">> /\ pc' = "scan"
    BY <1>2 DEF StartRound, OneRound
  <2> QED
    BY <2>1 DEF OneRound, FirstRound
<1>3. CASE BreakLoop
  <2>1. sniffer \in Seq({"on", "broken", "off"})
    BY DEF TypeOK
  <2>2. Len(sniffer') = Len(sniffer) /\ pc' = "told"
    BY <1>3, <2>1 DEF BreakLoop
  <2> QED
    BY <2>2 DEF OneRound, FirstRound
<1>4. CASE PcapSetupFails \/ HeadVanishes \/ CreateThread \/ Join \/ Advance \/ Decide \/ TakeList \/ Report \/ Count
  BY <1>4 DEF PcapSetupFails, HeadVanishes, CreateThread, Join, Advance, Decide, TakeList, Report, Count, OneRound,
     FirstRound
<1>5. ASSUME NEW r \in DOMAIN sniffer, Response(r) \/ Stray(r) PROVE OneRound'
  <2>1. PICK w \in WirePorts : Take(r, w)
    BY <1>5 DEF Response, Stray
  <2>2. sniffer \in Seq({"on", "broken", "off"}) /\ sniffer # <<>>
    BY <1>5 DEF TypeOK
  <2>3. Len(sniffer') = Len(sniffer) /\ pc' = pc
    BY <2>1, <2>2 DEF Take
  <2> QED
    BY <2>2, <2>3 DEF OneRound, FirstRound
<1>6. CASE Sniff \/ UNCHANGED vars
  BY <1>6 DEF Sniff, Walk, Unlock, vars, OneRound, FirstRound
<1>7. ASSUME NEW t \in live, Probe(t) PROVE OneRound'
  BY <1>7 DEF Probe, OneRound, FirstRound
<1> QED
  BY <1>1, <1>2, <1>3, <1>4, <1>5, <1>6, <1>7 DEF Next, MainStep

\* The report is skipped only when there is nothing to report.
LEMMA NothingAwaited ==
  ASSUME TypeOK, CountInv, FirstRound, num_awaited = 0
  PROVE  Awaited = {}
<1>1. Awaited \cup Owed \in SUBSET RoundNodes
  BY RoundFacts
<1>2. IsFiniteSet(Awaited \cup Owed) /\ Cardinality(Awaited \cup Owed) = 0
  BY <1>1, RoundFacts DEF CountInv, CountsOwed
<1> QED
  BY <1>2, FS_EmptySet

\* A FIN scan, whose open ports are those that do not answer, reports each port
\* nothing came from, although it reads num_awaited and walks the list without the
\* mutex, if each probe is answered once at most (fin, got_packet).
THEOREM ReportMissesNothing ==
  ASSUME "stray" \notin Failures, high < PortSpace
  PROVE  Spec => [](mode = "fin" => WalkMissesNothing)
<1>1. Init => PortsInv /\ GroupInv /\ FirstListInv /\ FinInv
  <2>1. Init => PortsInv /\ GroupInv
    BY DEF Init, PortsInv, ProbesBeyondPorts, PortsInOrder, GroupInv, WalksPorts, SlotsHold,
       InGroups, Addresses
  <2>2. Init => OneRound
    BY DEF Init, OneRound, FirstRound
  <2> QED
    BY <2>1, <2>2, InitList, InitWalks DEF FirstListInv, FinInv
<1>2. TypeOK /\ Started /\ [Next]_vars => TypeOK' /\ Started'
  BY TypeStep, StartedStep
<1>3. TypeOK /\ Started /\ PortsInv /\ GroupInv /\ [Next]_vars => PortsInv' /\ GroupInv'
  BY PortsStep, GroupStep
<1>4. TypeOK /\ Started /\ GroupInv /\ FirstListInv /\ [Next]_vars => FirstListInv'
  BY FirstListStep
<1>5. /\ TypeOK /\ Started /\ GroupInv /\ FirstListInv /\ CountInv /\ FinInv /\ [Next]_vars
      => FinInv'
  <2> SUFFICES ASSUME TypeOK, Started, GroupInv, FirstListInv, CountInv, WalkInv, OneRound,
                      mode = "fin", [Next]_vars
               PROVE  WalkInv' /\ OneRound'
    BY ModeStays DEF FinInv
  <2>1. FirstRound /\ ListInv
    BY DEF OneRound, FirstListInv
  <2>2. OneRound'
    BY OneRoundStep
  <2>3. StartRound => live = {}
    BY <2>2, FirstStart DEF OneRound
  <2>4. num_awaited = 0 => Awaited = {}
    BY <2>1, NothingAwaited
  <2> QED
    BY <2>1, <2>2, <2>3, <2>4, WalkStep
<1>6. TypeOK /\ FinInv => (mode = "fin" => WalkMissesNothing)
  BY WalkEnds DEF FinInv
<1> QED
  BY <1>1, <1>2, <1>3, <1>4, <1>5, <1>6, CountInvariance, InitType, PTL DEF Spec

\* Of either scan the walks miss nothing.
THEOREM WalksMissNothing ==
  ASSUME "race" \notin Failures, "stray" \notin Failures, high < PortSpace
  PROVE  Spec => []WalkMissesNothing
<1>1. TypeOK => mode \in {"syn", "fin"}
  BY CountsAssumption DEF TypeOK
<1>2. TypeOK /\ (mode = "syn" => WalkMissesNothing) /\ (mode = "fin" => WalkMissesNothing)
        => WalkMissesNothing
  BY <1>1
<1> QED
  BY <1>2, ScannerTypes, RetriesMissNothing, ReportMissesNothing, PTL
=============================================================================
