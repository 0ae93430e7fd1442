---------------------------- MODULE HostDiscovery ----------------------------
(***************************************************************************)
(* Host discovery: the controller (HostDiscovery.java), whose state is     *)
(* static and used by the main thread only; the thread of a discovery      *)
(* (core/Discovery.java), which hands one task per host and probe to the   *)
(* pool; and the probes (api/discovery), which report a host or nothing.   *)
(***************************************************************************)
EXTENDS AsyncTasks

CONSTANTS Lows,       \* the first addresses, and
          Sizes,      \* the getNodes() of the networks resetApp() may find
          ArpCache,   \* addresses /proc/net/arp may list, of whatever network
          Modes,      \* the modes a user chooses from
          MaxRuns,    \* bound: discoveries that are started
          MaxTouches  \* bound: resets of the application and changes of the mode

ASSUME DiscoveryAssumption ==
  /\ Lows \subseteq Nat \ {0}
  /\ Sizes \subseteq Nat /\ \A n \in Sizes : n >= 2
  /\ ArpCache \subseteq Nat \ {0}
  /\ Modes \subseteq {"speed", "normal", "insane"}
  /\ MaxRuns \in Nat \ {0} /\ MaxTouches \in Nat

VARIABLES network,              \* ni: the network found at the last reset
          hd,                   \* the Discovery that stop() cancels, 0 if null
          started, scanned, progress, totalHosts, countPossibleHosts,
          countDiscoveredhosts,
          discoveredHosts,      \* the array, <<>> when it is null
          discoveryMode,
          fillMaps,             \* the list on the screen
          mode, range, at, phase, \* of the thread of each Discovery
          arpSeen,              \* entries of the ARP cache it has published
          runs, touches,         \* discoveries started, resets and changes of mode done
          reported,             \* history: hosts reported since the last init()
          stoppedAt             \* history: where a discovery was when it was stopped

fields == <<network, hd, started, scanned, progress, totalHosts, countPossibleHosts,
            countDiscoveredhosts, discoveredHosts, discoveryMode, fillMaps>>
threadVars == <<mode, range, at, phase, arpSeen>>
history == <<reported, stoppedAt>>
vars == <<taskVars, fields, threadVars, history, runs, touches>>

Runs == 1 .. MaxRuns
NoHost == 0

\* ni.isConnected() is false of NoNetwork, which has no addresses.
Networks == [low : Lows, nodes : Sizes]
NoNetwork == [low |-> 1, nodes |-> 0]
connected == network # NoNetwork
HostsOf(net) == net.low .. net.low + net.nodes - 1
Hosts == ArpCache \cup UNION {HostsOf(net) : net \in Networks}

\* Hosts a discovery of a network tries: getRange(low, high) leaves high out,
\* for (add = low; add < high; ++add).
Size(net) == IF net.nodes = 0 THEN 0 ELSE net.nodes - 1

Probes == {"isReachable", "TCP13", "UDP7", "TCPMultiPort", "ShellPing"}
Tasks == [run : Runs, kind : Probes \cup {"Discovery", "ARPScan"}, host : Hosts \cup {NoHost}]

Thread(r) == [run |-> r, kind |-> "Discovery", host |-> NoHost]
Arp(r) == [run |-> r, kind |-> "ARPScan", host |-> NoHost]
Probe(r, kind, h) == [run |-> r, kind |-> kind, host |-> h]

\* The tasks a discovery executes, in order: speed(), normal() and insane().
Sweep(r, kind, net) == [i \in 1 .. Size(net) |-> Probe(r, kind, net.low + i - 1)]

PerHost(r, net) == [k \in 1 .. 4 * Size(net) |->
                      Probe(r, CASE k % 4 = 1 -> "TCP13"        [] k % 4 = 2 -> "UDP7"
                                 [] k % 4 = 3 -> "TCPMultiPort" [] k % 4 = 0 -> "ShellPing",
                            net.low + (k + 3) \div 4 - 1)]

PlanOf(m, net, r) ==
  CASE m = "speed"  -> Sweep(r, "isReachable", net) \o <<Arp(r)>>
    [] m = "normal" -> Sweep(r, "isReachable", net) \o <<Arp(r)>> \o Sweep(r, "TCPMultiPort", net)
    [] m = "insane" -> Sweep(r, "isReachable", net) \o <<Arp(r)>> \o PerHost(r, net)

Plan(r) == PlanOf(mode[r], range[r], r)

-----------------------------------------------------------------------------
(***************************************************************************)
(* The controller, on the main thread.                                     *)
(***************************************************************************)
Total(m, count) == CASE m = "speed" -> count [] m = "normal" -> count * 2
                     [] m = "insane" -> count * 5

\* init(), which resets everything first, with the network it finds.
Reset(net, m) ==
  /\ countDiscoveredhosts' = 0 /\ progress' = 0 /\ fillMaps' = <<>> /\ reported' = {}
  /\ discoveredHosts' = [i \in 1 .. net.nodes |-> NoHost]
  /\ totalHosts' = IF net # NoNetwork THEN Total(m, net.nodes) ELSE totalHosts

\* start(): init() has put started to false before the field is looked at, so
\* the discovery starts whenever there is a network to take low and high from.
Start ==
  /\ up /\ runs < MaxRuns
  /\ Reset(network, discoveryMode)
  /\ IF connected
     THEN /\ runs' = runs + 1 /\ hd' = runs + 1
          /\ started' = TRUE /\ scanned' = TRUE
          /\ countPossibleHosts' = Size(network)
          /\ Execute(Thread(runs + 1))
          /\ mode' = [mode EXCEPT ![runs + 1] = discoveryMode]
          /\ range' = [range EXCEPT ![runs + 1] = network]
          /\ phase' = [phase EXCEPT ![runs + 1] = "execute"]
     ELSE /\ hd' = 0 /\ started' = FALSE /\ scanned' = FALSE
          /\ countPossibleHosts' = 0
          /\ UNCHANGED <<taskVars, runs, mode, range, phase>>
  /\ UNCHANGED <<network, discoveryMode, at, arpSeen, stoppedAt, touches>>

Stop ==
  /\ up /\ started
  /\ IF hd = 0 THEN Dies /\ UNCHANGED <<started, scanned, stoppedAt>>
     ELSE /\ Cancel(Thread(hd))
          /\ started' = FALSE /\ scanned' = TRUE
          /\ stoppedAt' = [stoppedAt EXCEPT ![hd] = at[hd]]
  /\ UNCHANGED <<network, hd, progress, totalHosts, countPossibleHosts, countDiscoveredhosts,
                 discoveredHosts, discoveryMode, fillMaps, threadVars, reported, runs, touches>>

SetMode(m) ==
  /\ up /\ touches < MaxTouches
  /\ touches' = touches + 1
  /\ discoveryMode' = m
  /\ totalHosts' = Total(m, countPossibleHosts)
  /\ UNCHANGED <<taskVars, network, hd, started, scanned, progress, countPossibleHosts,
                 countDiscoveredhosts, discoveredHosts, fillMaps, threadVars, history, runs>>

\* Mutant of ResetApp: reset() leaves the flag as it is.
ResetAppKeepsStarted(net) ==
  /\ up /\ touches < MaxTouches
  /\ touches' = touches + 1
  /\ network' = net /\ discoveryMode' = "speed"
  /\ Reset(net, "speed")
  /\ hd' = 0 /\ scanned' = FALSE
  /\ countPossibleHosts' = net.nodes
  /\ UNCHANGED <<taskVars, threadVars, started, stoppedAt, runs>>

\* resetApp(), also behind "Network Info", and onCreate: a new networkInfo, which
\* may find another network or none, and a new HostDiscovery over the same static
\* fields.
ResetApp(net) ==
  /\ up /\ touches < MaxTouches
  /\ touches' = touches + 1
  /\ network' = net /\ discoveryMode' = "speed"
  /\ Reset(net, "speed")
  /\ hd' = 0 /\ started' = FALSE /\ scanned' = FALSE
  /\ countPossibleHosts' = net.nodes
  /\ UNCHANGED <<taskVars, threadVars, stoppedAt, runs>>

User == Start \/ Stop \/ (\E m \in Modes : SetMode(m)) \/ (\E net \in Networks \cup {NoNetwork} : ResetApp(net))

-----------------------------------------------------------------------------
(***************************************************************************)
(* The thread of a discovery: execute a task, and then look whether the    *)
(* discovery was cancelled; if so the task just executed is cancelled too, *)
(* those before it are not.                                                *)
(***************************************************************************)
Active(r, p) == up /\ Thread(r) \in running /\ phase[r] = p

ExecuteNext(r) ==
  /\ Active(r, "execute")
  /\ \/ /\ Accept(Plan(r)[at[r] + 1])
        /\ at' = [at EXCEPT ![r] = @ + 1]
        /\ phase' = [phase EXCEPT ![r] = "check"]
     \/ /\ Full /\ Throws(Thread(r))
        /\ phase' = [phase EXCEPT ![r] = "end"]
        /\ UNCHANGED at
  /\ UNCHANGED <<fields, mode, range, arpSeen, history, runs, touches>>

Last(r) == Plan(r)[at[r]]

\* normal() looks a second time after the ARP task.
LooksTwice(r) == mode[r] = "normal" /\ Last(r) = Arp(r)

\* Mutant of CheckCancelled: the loop goes one host too far.
CheckCancelledTooFar(r) ==
  /\ Active(r, "check")
  /\ Thread(r) \notin cancelled
  /\ phase' = [phase EXCEPT ![r] = IF at[r] <= Len(Plan(r)) THEN "execute" ELSE "return"]
  /\ UNCHANGED <<taskVars, fields, mode, range, at, arpSeen, history, runs, touches>>

\* Mutant of CheckCancelled: isCancelled() is looked at after the loop only.
CheckCancelledLate(r) ==
  /\ Active(r, "check")
  /\ phase' = [phase EXCEPT ![r] = IF at[r] < Len(Plan(r)) THEN "execute" ELSE "return"]
  /\ UNCHANGED <<taskVars, fields, mode, range, at, arpSeen, history, runs, touches>>

\* Mutant of CheckCancelled: the thread waits for the task (get()) before it
\* goes on.
CheckCancelledWaits(r) == Active(r, "check") /\ ~Pending(Last(r)) /\ CheckCancelledLate(r)

CheckCancelled(r) ==
  /\ Active(r, "check")
  /\ \/ /\ Thread(r) \in cancelled
        /\ cancelled' = CancelledWith(Last(r))
        /\ running' = running \ {Thread(r)}
        /\ phase' = [phase EXCEPT ![r] = "end"]
        /\ UNCHANGED <<queue, threads, messages, up>>
     \/ /\ Thread(r) \notin cancelled /\ at[r] < Len(Plan(r))
        /\ phase' = [phase EXCEPT ![r] = IF LooksTwice(r) THEN "again" ELSE "execute"]
        /\ UNCHANGED taskVars
     \/ /\ Thread(r) \notin cancelled /\ at[r] = Len(Plan(r))
        /\ phase' = [phase EXCEPT ![r] = "return"]
        /\ UNCHANGED taskVars
  /\ UNCHANGED <<fields, mode, range, at, arpSeen, history, runs, touches>>

\* The second look returns and cancels nothing: the ARP task goes on.
CheckAgain(r) ==
  /\ Active(r, "again")
  /\ phase' = [phase EXCEPT ![r] = IF Thread(r) \in cancelled THEN "return" ELSE "execute"]
  /\ UNCHANGED <<taskVars, fields, mode, range, at, arpSeen, history, runs, touches>>

ThreadReturns(r) ==
  /\ Active(r, "return")
  /\ ReturnSilently(Thread(r))
  /\ phase' = [phase EXCEPT ![r] = "end"]
  /\ UNCHANGED <<fields, mode, range, at, arpSeen, history, runs, touches>>

-----------------------------------------------------------------------------
(***************************************************************************)
(* The probes.  Each has its own way to find out whether a host is there,  *)
(* which may say anything of any host, and returns the host or "".  The    *)
(* ARP task publishes the entries of the cache as it reads them.           *)
(***************************************************************************)
ProbeEnds(t) ==
  /\ up /\ t \in running /\ t.kind \in Probes
  /\ \E found \in {t.host, NoHost} : Return(t, found)
  /\ UNCHANGED <<fields, threadVars, history, runs, touches>>

ArpEntry(r, h) ==
  /\ up /\ Arp(r) \in running /\ h \notin arpSeen[r]
  /\ Publish(h)
  /\ arpSeen' = [arpSeen EXCEPT ![r] = @ \cup {h}]
  /\ UNCHANGED <<fields, mode, range, at, phase, history, runs, touches>>

ArpEnds(r) ==
  /\ up /\ Arp(r) \in running
  /\ ReturnSilently(Arp(r))
  /\ UNCHANGED <<fields, threadVars, history, runs, touches>>

-----------------------------------------------------------------------------
(***************************************************************************)
(* What they post, on the main thread: addHosts and updateProgress.        *)
(***************************************************************************)
Posted(m) == up /\ messages # <<>> /\ Head(messages) = m

UpdateProgress ==
  /\ progress' = progress + 1
  /\ started' = IF progress + 1 = totalHosts THEN FALSE ELSE started

\* Mutant of Known: the loop leaves out the host found last.
KnownButLast(h) == \E i \in 1 .. countDiscoveredhosts - 1 : discoveredHosts[i] = h

\* Mutant of Known: the flag is never set.
KnownNever(h) == FALSE /\ h \in Hosts

Known(h) == \E i \in 1 .. countDiscoveredhosts : discoveredHosts[i] = h

NothingFound ==
  /\ Posted(NoHost)
  /\ messages' = Tail(messages)
  /\ UpdateProgress
  /\ UNCHANGED <<queue, running, threads, cancelled, up, network, hd, scanned, totalHosts,
                 countPossibleHosts, countDiscoveredhosts, discoveredHosts, discoveryMode,
                 fillMaps, threadVars, history, runs, touches>>

AddHosts(h) ==
  /\ Posted(h)
  /\ reported' = reported \cup {h}
  /\ \/ /\ Known(h)
        /\ messages' = Tail(messages)
        /\ UNCHANGED <<queue, running, threads, cancelled, up>>
        /\ UNCHANGED <<started, progress, countDiscoveredhosts, discoveredHosts, fillMaps>>
     \/ /\ ~Known(h) /\ countDiscoveredhosts < Len(discoveredHosts)
        /\ discoveredHosts' = [discoveredHosts EXCEPT ![countDiscoveredhosts + 1] = h]
        /\ fillMaps' = Append(fillMaps, h)
        /\ UpdateProgress
        /\ countDiscoveredhosts' = countDiscoveredhosts + 1
        /\ messages' = Tail(messages)
        /\ UNCHANGED <<queue, running, threads, cancelled, up>>
     \/ /\ ~Known(h) /\ countDiscoveredhosts >= Len(discoveredHosts) \* null or full
        /\ Dies
        /\ UNCHANGED <<started, progress, countDiscoveredhosts, discoveredHosts, fillMaps>>
  /\ UNCHANGED <<network, hd, scanned, totalHosts, countPossibleHosts, discoveryMode,
                 threadVars, stoppedAt, runs, touches>>

-----------------------------------------------------------------------------
Init ==
  /\ TasksInit
  /\ network \in Networks \cup {NoNetwork}
  /\ hd = 0 /\ started = FALSE /\ scanned = FALSE /\ progress = 0
  /\ totalHosts = network.nodes /\ countPossibleHosts = network.nodes
  /\ countDiscoveredhosts = 0 /\ discoveryMode = "speed" /\ fillMaps = <<>>
  /\ discoveredHosts = [i \in 1 .. network.nodes |-> NoHost]
  /\ mode = [r \in Runs |-> "speed"] /\ range = [r \in Runs |-> NoNetwork] /\ at = [r \in Runs |-> 0]
  /\ phase = [r \in Runs |-> "idle"] /\ arpSeen = [r \in Runs |-> {}]
  /\ reported = {} /\ stoppedAt = [r \in Runs |-> 0]
  /\ runs = 0 /\ touches = 0

DiscoveryThread(r) == ExecuteNext(r) \/ CheckCancelled(r) \/ CheckAgain(r) \/ ThreadReturns(r)
ArpScan(r) == ArpEnds(r) \/ \E h \in ArpCache : ArpEntry(r, h)
MainLooper == NothingFound \/ \E h \in Hosts : AddHosts(h)
PoolThreads == Pool /\ UNCHANGED <<fields, threadVars, history, runs, touches>>

Next == \/ User
        \/ \E r \in Runs : DiscoveryThread(r) \/ ArpScan(r)
        \/ \E t \in running : ProbeEnds(t)
        \/ MainLooper \/ PoolThreads

Spec == Init /\ [][Next]_vars

\* The main looper and the pool's threads go on while they have something to do:
\* tasks and messages are finitely many, so that going on is getting to each.  A
\* probe ends with a timeout at the latest, but for a ping.
Fairness == WF_vars(\/ MainLooper
                    \/ TakeTask /\ PoolThreads
                    \/ \E r \in Runs : DiscoveryThread(r) \/ ArpEnds(r)
                    \/ \E t \in running : t.kind # "ShellPing" /\ ProbeEnds(t))

FairSpec == Spec /\ Fairness

-----------------------------------------------------------------------------
TypeOK ==
  /\ TasksTypeOK(Tasks, Hosts \cup {NoHost})
  /\ network \in Networks \cup {NoNetwork} /\ hd \in 0 .. MaxRuns
  /\ started \in BOOLEAN /\ scanned \in BOOLEAN
  /\ progress \in Nat /\ totalHosts \in Nat /\ countPossibleHosts \in Nat
  /\ countDiscoveredhosts \in Nat /\ discoveredHosts \in Seq(Hosts \cup {NoHost})
  /\ discoveryMode \in Modes \cup {"speed"} /\ fillMaps \in Seq(Hosts)
  /\ mode \in [Runs -> Modes \cup {"speed"}] /\ range \in [Runs -> Networks \cup {NoNetwork}]
  /\ at \in [Runs -> Nat]
  /\ \A r \in Runs : at[r] \in 0 .. Len(Plan(r)) - (IF phase[r] \in {"execute", "again"} THEN 1 ELSE 0)
  /\ phase \in [Runs -> {"idle", "execute", "check", "again", "return", "end"}]
  /\ arpSeen \in [Runs -> SUBSET ArpCache]
  /\ reported \in SUBSET Hosts /\ stoppedAt \in [Runs -> Nat]
  /\ runs \in 0 .. MaxRuns /\ touches \in 0 .. MaxTouches

\* The list on the screen and the array behind it hold each host that was
\* reported since the last start or reset, once, in the same order, whichever
\* discovery and whichever probe reported it (addHosts and reset).
ListIsWhatWasReported ==
  up => /\ Len(fillMaps) = countDiscoveredhosts
        /\ \A i \in 1 .. countDiscoveredhosts : discoveredHosts[i] = fillMaps[i]
        /\ \A i, j \in 1 .. countDiscoveredhosts : fillMaps[i] = fillMaps[j] => i = j
        /\ {fillMaps[i] : i \in 1 .. countDiscoveredhosts} = reported

\* Whenever stop() gets past its guard there is a discovery for it to cancel,
\* the latest one, although hd is a field of an object and started is static.
StopHasATask == started => hd = runs /\ hd # 0

\* A host found that is not of the network of the last reset: one the ARP cache
\* lists, or the late result of a discovery that was started on another network.
Foreign(h) == /\ h \notin HostsOf(network)
              /\ h \in ArpCache \/ \E r \in Runs : range[r] # network /\ h \in HostsOf(range[r])

\* The process dies of a task the pool refused, or after a foreign host was
\* reported (which, when the last reset found no network, every host is): only
\* that can make discoveredHosts overflow.  As long as all reported hosts are of
\* the network, the results of two discoveries of it, and of all probes of a
\* host, fit into the array that init() made.
DiesOnlyOf == ~up => \/ threads = MaxPool /\ Len(queue) = QueueSize
                     \/ \E h \in reported : Foreign(h)

\* A discovery that was stopped hands over one more task at most, and cancels
\* it: a task that was handed over after the stop reports no host unless it ended
\* before the thread of the discovery looked.
StopIsPrompt ==
  \A r \in Runs : Thread(r) \in cancelled =>
    /\ at[r] <= stoppedAt[r] + 1
    /\ phase[r] = "end" /\ stoppedAt[r] < at[r] /\ at[r] < Len(Plan(r)) /\ Pending(Last(r))
         => Last(r) \in cancelled

\* In the modes that do not ping, every discovery whose task the pool took ends,
\* whatever the probes find and however many other discoveries share the pool: the
\* pool has none left again and again, since runs are finitely many.
EveryDiscoveryEnds == []<>(~up \/ \A r \in Runs : ~Pending(Thread(r)))
=============================================================================
