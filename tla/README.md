# TLA+ models and proofs of the Umit Network Scanner for Android (ns-mobile)

These modules model the parts of ns-mobile where several actors meet: Android
activities, a service in a process of its own, pool threads, shell processes;
the scan threads and the sniffer of the native scanner; the host discovery and
the port scanner over one pool of AsyncTasks; and the address arithmetic between
an interface and the hosts of a discovery.
TLC checks the models on small instances, TLAPS proves the main safety
properties for all of them.  `PROJECT.json` maps every definition to the lines
it was translated from and lists runs, mutants, findings, hazards and theorems.

    tlc -config MCRestarts.cfg MCScanSession.tla    # any run
    tlapm ScanSession_proofs.tla                    # types
    tlapm ScanSessionSafety_proofs.tla              # safety
    tlapm ScanRefinement_proofs.tla                 # the life cycle of scans
    tlc -config MCSynRetry.cfg NativeScanner.tla
    tlapm NativeScanner_proofs.tla                  # types, the list, the walks, the count
    tlc -config MCDiscovery.cfg HostDiscovery.tla
    tlapm HostDiscovery_proofs.tla
    tlc -config MCPortScan.cfg PortScanner.tla
    tlapm PortScanner_proofs.tla
    tlc -config MCAddresses.cfg SubnetUtils.tla
    tlapm SubnetUtils_proofs.tla

Paths below are relative to `src/src/org/umit/ns/mobile/` unless they start with
`src/`.

## 1. The system

### Components

| Component | Source | State | Operations | Modelled |
|---|---|---|---|---|
| ScanService | `service/ScanService.java` | map of Scan objects, root access, native setup, one flag for waiting requests, the preference `nativeInstalled` | `onCreate`, `onBind`, `onUnbind`, `onDestroy`, 5 requests and 4 notifications | yes |
| service Runnables | `service/NmapScanServiceRunnable.java`, `RootAcquisitionRunnable.java`, `SetupNativeRunnable.java` | a pool thread each, its interrupt flag, a shell process, a StringBuffer shared with the service | run, be cancelled, report | yes |
| scan client API, nmap activity | `api/ScanClientActivity.java`, `api/ScanCommunication.java`, `nmap.java` | `mBound`, one `scan` field | bind, unbind, `startScan`, `stopScan`, `getScanResults`, 11 replies | yes |
| native SYN/FIN scanner | `src/jni/main.c` | linked list of probes, `num_awaited`, scan threads, sniffer thread, retries | send, receive, join, retry, report | yes, but for building packets |
| host discovery | `HostDiscovery.java`, `core/Discovery.java`, `api/discovery/*` | static arrays of hosts, progress counters, the discovery task | start, stop, reset, change of mode, probes, progress | yes |
| port scanner | `PortScanner.java`, `core/Scanning.java`, `api/scanner/*` | static lists of ports, progress, the scanning task | start, stop, reset, reopen, change of mode, tasks, progress | yes |
| AsyncTask pool | Android, as `core/*.java` use it | threads, a bounded queue, the main looper | execute, cancel, publish, return | yes (external) |
| address arithmetic | `api/SubnetUtils.java`, `api/networkInfo.java` | none | masks, ranges, membership on 32-bit integers | all a discovery uses |
| shell commands, traceroute | `api/cmdLine.java`, `Traceroute.java`, `api/shellUtils.java` | a root shell, its output | run, cancel, kill a process by name | `killProcess` only |
| archive extraction | `api/ZipUtils.java` | files | unzip | its outcome only |
| persistence | `model/*` | SQLite tables, files | open, insert, close | no |
| user interface | `nsandroid.java`, `view/*`, ... | widgets | | no |
| libpcap | `src/jni/libpcap` | third party | | no |

### How they interact

`nmap` (a `ScanClientActivity`) binds to `ScanService` with `BIND_AUTO_CREATE`.
The service runs in a process of its own, so the two share nothing: they send
each other `Message`s through `Messenger`s, and each main looper handles one
message at a time.  The protocol of a scan is

    activity                     service                      pool
      RQST_SCAN_ID        ->     new Scan in the map
                          <-     RESP_SCAN_ID_OK (once root access and
                                 native setup are known)
      RQST_START_SCAN     ->     submit                 ->    NmapScanServiceRunnable
                          <-     RESP_START_SCAN_OK           reads nmap's output
                                                        <-    NOTIFY_SCAN_FINISHED
                          <-     NOTIFY_SCAN_FINISHED
      RQST_RESULTS        ->     remove the Scan, stopSelf if it was the last
                          <-     RESP_RESULTS_OK

and at any point the activity may stop the scan, start another, unbind or die;
the service may be unbound, stopped, destroyed or killed, and created again; a
Runnable may fail, or be interrupted while it reads.

The native scanner is a process of its own, started from a root shell.  `main`
runs `syn` or `fin`; these create a sniffer thread per round, which calls
`got_packet` for each packet of the host, and a thread per port, which sends one
probe.  They share the list `probeSent` and `num_awaited`.  Scan threads and
`got_packet` hold `mutex_probe`; `main` resets, walks and counts without it.

Host discovery and port scanner work the same way: a controller whose fields are
static and used by the main thread hands a task (`Discovery`, `Scanning`) to the
AsyncTask pool; that task hands over one task per host and probe, or per port,
to the same pool; their results come back as messages of the main looper, to
whatever run the static fields then belong to.  Before a discovery the hosts are
computed from the interface's address and netmask, the array of hosts being
sized by one method and filled by another.

### What is hard

* A request for an id can come before, between or after the two halves of the
  setup, which come in either order; ONE flag stands for all waiting requests.
* Messages outlive what they are about: ids of a former process, replies to a
  scan that was replaced, the end of a scan that was removed, requests to a
  service that was destroyed.
* The Runnable appends to the buffer the main thread hands out and forgets.
* Binding and starting are two independent reasons for the service to live,
  and `stopSelf` undoes the only `startService`.
* The list of probes is unlinked while it is extended, and walked by `main`,
  without the mutex, while it is unlinked; `prev` pointers are left dangling.
* Joins are counted by port numbers, the last group is not joined, and a round
  may begin while threads and the sniffer of the last one are still at work.
* Cancelling sets an interrupt flag that a thread blocked in the read of a
  process stream does not see.
* Tasks of a stopped or forgotten run go on posting results into the fields of
  the next one; a pool that is full refuses a task with an exception; the thread
  of a run is itself a task of that pool.
* `start()` of a discovery resets its flag before it looks at it, so that
  discoveries overlap; the controller is replaced over its static fields, and the
  new one may find another network while results for the old one still come.
* Progress is compared with a total that was computed elsewhere, for equality.
* 32-bit addresses are signed: their order and their differences wrap.

`PROJECT.json` lists every such place under `hazards`, with the properties that
watch it or the reason none does.

### What makes each component correct

* Service: no request is forgotten; no scan runs before the setup is known;
  every running scan can be stopped; a scan leaves the map with all of its
  results; a service nobody uses stops.
* Client: what the `scan` field says of its scan is so; the scan that runs is
  the one asked for.
* Native scanner: a probe without a response stays on the list; one with a
  response leaves it; reports and retries miss no probe without a response; the
  count reported is that of the ports that responded; every scan ends.
* Host discovery: the list shows each host that was reported, once; results
  for hosts of the network fit into the array; a stop finds a discovery to cancel,
  which ends at once; every discovery ends.
* Port scanner: a stop is prompt; what is shown is what is saved; "Done" is said
  when every port was answered, and is said.
* Address arithmetic: range and membership agree with the definition of a
  subnet for every address and mask; the loops end and stay in their arrays.

## 2. Modules

| Module | Models | |
|---|---|---|
| `ScanCommunication` | the channels | `mq[s]`, `cq[c]`, `gone`: one FIFO per sender |
| `AndroidService` | the activity manager's part of the service's life (external) | `svc`, `incarnation`, `hosted`, `bound`, `isStarted`, ... |
| `NmapScan` | the three Runnables, `killProcess` | `worker[id]`, `owner[id]`, `rootTask[s]`, `setupTask[s]` |
| `ScanService` | the service | its fields, plus `hist`, a history for the properties |
| `ScanClient` | the activities | `life`, `binder`, `scan`, `starts` |
| `ScanSession` | all of them together, with the properties | |
| `ScanLifecycle` | abstract: the life of a scan, without messages, threads, processes | |
| `MCScanSession` | the symmetry of the instances | |
| `ScanSession_proofs` | types | |
| `ScanSessionSafety_proofs` | the inductive invariant, the path of a scan's messages, five safety theorems | |
| `ScanRefinement_proofs` | `ScanSession` implements `ScanLifecycle`, and what follows | |
| `ProbeList` | the linked list of probes (`main.c`) | `heap`, `probeSent`, `num_awaited` |
| `NativeScanner` | `main`, the scan threads, the sniffers, with the properties | `pc`, `cur`, `threads`, `live`, `mutex_probe`, `at`, ... |
| `NativeScanner_proofs` | types, no lost probe, walks that miss nothing, bounded groups of threads, the count | |
| `AsyncTasks` | the pool of AsyncTasks and the main looper (external) | `queue`, `running`, `threads`, `cancelled`, `messages`, `up` |
| `HostDiscovery` | the controller, the thread of each discovery, the probes, with the properties | the static fields; `mode`, `range`, `at`, `phase`, `arpSeen` |
| `PortScanner` | the activity, the thread of each scan, the connect tasks, the task of the native scanner, with the properties | the static fields; `mode`, `range`, `at`, `phase`, `began`, `chunks` |
| `SubnetUtils` | from address and netmask to the hosts of a discovery | `network`, `broadcast`, the loops' `addresses`, `add`, `j` |
| `AsyncTasks_proofs` | what the pool's operations preserve | |
| `HostDiscovery_proofs` | types and four safety theorems | |
| `PortScanner_proofs` | types and three safety theorems | |
| `SubnetUtils_proofs` | powers, quotients and octets; types and four safety theorems | |

### State and actions, and the code

*Messages.*  A Messenger's messages arrive in the order one sender sent them,
those of different senders interleave, so the service's process has one queue per
sender: an activity, a Runnable, each of the two setup Runnables of each service
object.  A message is its `what`, its `arg1` (the id) and one number: which
`startScan` its arguments are of, how much output it carries, or an outcome; one to
a service names the service object whose Handler it is for (`to`).  A send to a
dead activity is caught (`tellActivity`); a send to a dead process is dropped; one
to a service object that was destroyed in a living process is handled.

*Service.*  One action per callback and one per `case` of `handleMessage`, with
everything the case does: `RQST_RESULTS` of a finished scan removes it and may
`stopSelf`; `NOTIFY_NATIVE_SETUP` runs on from the failure case into the success case
as the code does, there being no `break`.  A null dereference in a callback
(`onDestroy` of a scan never started, the end of a scan no longer in the map) ends the
process, with its threads and its queue.  Android may create the service again after
`onDestroy`, in the process it keeps cached: a new service object `s` with its own
Handler, map, flags and setup Runnables, beside those destroyed there (`hosted`),
whose Runnables the static pool goes on with (`ScanService.java:29`). So the fields
are functions of the service object, `owner[id]` is the one that gave out an id, and
`MapOf(s)` is its `HashMap`; ids are unique, so one function `scans` holds the Scan
objects of all.  `stopSelf()` of a former service object does nothing, as Android
knows the service of today by another token.  `RQST_PROGRESS` is dead code
(`if(false)`), and `getScanProgress` is left out with it.

*Runnable.*  `queued`, `reading`, `done`; it can fail where the code catches
`IOException`, and there looks at its interrupt flag; at the end of the output it
reports whether it was interrupted or not.  `Future.cancel(true)` keeps a queued
Runnable from running and sets the flag of a running one.  Output is counted in
chunks.

*Activity.*  Binding is asynchronous; `onServiceConnected` gives it a binder to
the process that is up; `unbindService` does not reset `mBound`.  The three API
calls are the user's and can come at any time while the activity lives; the
replies are its Handler's, which outlives `onDestroy`.  The callbacks are those
of `nmap.java`: on the end of a scan it asks for the results and calls
`killProcess("./nmap")`, which kills the first process of that name, if any.

*History.*  `hist[id]` (which request got the id, what it was told, how its Scan
left the map, what was delivered) and `cause` (why the process ended) are read
by properties only.

*Native scanner.*  `heap` holds the nodes in the order of their allocation, so an
address is a number and a newer node has a higher one; nodes are never freed.
`Push` and `Unlink` are the pointer assignments of `synScanPort` and
`got_packet`.  `main` moves by a program counter: `CreateThread`, `Join` and
`Advance` are one turn of the loop over the ports, `BreakLoop`, `Decide`,
`TakeList` and `Report` the end of a round, each reading the shared state once.
A scan thread is one step, as it holds the mutex throughout; `got_packet` takes
the mutex and then visits one node per step, so that `main`'s steps fall between
them.  `StartRound` resets the list without the mutex: its second disjunct is a
thread that has read the old head and not yet stored the new one, `HeadVanishes` one
that stores through the head it found set and now is NULL.  After
`pcap_breakloop` a sniffer may still take one packet.  `base`, `answered` and
`todo` are history: the nodes of former rounds, those whose port a packet was
taken from, those a walk of `main` has still to visit.

*AsyncTask pool.*  `Accept` is `ThreadPoolExecutor.execute`: a new thread while
there are fewer than the core, then the queue, then further threads; when both
are full the task is refused, and the exception ends the process (`Dies`) or,
in the thread of a cancelled task, is swallowed (`Throws`).  `cancel(true)` puts
a pending task into `cancelled`: it is not run if queued, and its result is not
posted.  `messages` is the main looper's queue.

*Host discovery.*  `Start`, `Stop`, `SetMode`, `ResetApp` are what the user's buttons
call; `Reset` is `init()` as far as it clears fields.  `network` is what `networkInfo`
found at the last reset, of any first address and size or `NoNetwork`, and `range` the
network a discovery was started on.  The thread of a discovery moves by `phase`:
`ExecuteNext` hands over the task at its place in `Plan`, the order in which `speed`,
`normal` and `insane` go through hosts and probes; `CheckCancelled` is the
`isCancelled()` after each, `CheckAgain` the second one that `normal` has after the
ARP task.  A probe may find its host or nothing (`ProbeEnds`); the ARP task publishes
hosts as it reads them, of whatever network.  `NothingFound` and `AddHosts` are the
two things their results do on the main thread.  `reported` and `stoppedAt` are
history.

*Port scanner.*  The same, with `Start(f, t)` for a range, and for the native
modes one task (`NativeBegins`, `NativePrints`, `NativeEnds`) whose output is a
report of ports, `Host is down`, or a line cut by the end of a read, on which the
tokenizer throws.  `Closed` is `updateProgress`, `AddToList` an open port, which
is added to the list and to `portsOpen`, and does not count as progress.
`started` is static and set by the native task's thread too.

*Address arithmetic.*  An address is a sequence of octets, an integer a signed
number of `Octets * OctetBits` bits, every sum and difference of two wrapped as
Java does.  `Calculate` is the constructor, `GetRange`, `AllAddresses`,
`AllAddressesEnds` are `init()`'s range, `Start`, `AddressesBetween`,
`AddressesBetweenEnds` are `start()`'s, one address per step, with the bounds
check of an array access.

### Abstractions

* Ids are random 32-bit numbers in the code and fresh in the model; a collision
  (2^-32 per pair) is not modelled.
* The delay of a message is the delay of its sending; nothing is lost between
  live processes.
* `killProcess` may kill any running nmap or none: `ps` decides.
* The null dereference of `stopScan` or `getScanResults` before the first
  `startScan` is a case of `ActivityDies`.
* In the native scanner, time: `usleep` lets anything or nothing happen.  A packet
  is its source port; building one, its checksum and the ping before the scan are
  left out, and so are the lists `open` and `closed`, which nothing reads.  A
  packet two sniffers capture is a response and a stray one.  A join of a slot
  without a thread returns (bionic answers `ESRCH`).  Options are constants.
* Only `nmap`-like activities are clients; `nsandroid` binds and sends nothing.
* Which host a probe finds is any answer about it; that a probe of one kind waits
  for another is not: they share the pool only.  Hosts are numbered in the order
  of the range.  `saveDiscovery` and `saveScan` only read.
* The pool is that of API level 8, the manifest's `minSdkVersion`, with its
  bounds (5 threads, 10 queued, 128 threads) as constants; discovery and port
  scanner share it in the application, and have one each in the models.
* Text of an address is its octets: a text that is no address does not occur.

## 3. Runs

All instances use model values for activities and ids; `Symmetry` is used where
only safety is checked.  The bounds are constants of the modules:

| Constant | Meaning |
|---|---|
| `Clients`, `ScanIds` | activities; ids, at least `MaxStarts` per activity |
| `MaxStarts` | `startScan` calls per activity |
| `MaxOut` | chunks of output of one nmap |
| `MaxIncarnations` | service objects created, in new processes or in the cached one |
| `MaxBacklog` | `stopScan` and `getScanResults` are called while fewer messages than this are unhandled between the activity and the service; 0 is `nmap.java`, whose user has no button for either |
| `Failures` | which of `"io"`, `"activity"`, `"process"` may happen |

| Run | Instance | Shows |
|---|---|---|
| `nmap_activities` | 2 nmap activities, 1 scan each, 1 service object, nothing fails, fairness | `NoForgottenRequest`, `ScanFieldIsTrue`, `AnsweredOnceSetUp`, `StartedIsCollected`, `ServiceStops` |
| `api_activity` | 1 activity, 2 scans, the whole API, output, I/O failures, the activity may die | `TypeOK`, `EveryRunIsKnown`, `CompleteResults`, `UnknownWasStopped`, `LifeInv`, `FieldInv` |
| `restarts` | 2 activities, 1 scan each, no output, the service's process may be killed or reclaimed, 2 service objects, in a new process or in the cached one | `NoEarlyStart`, `IInv`, `LifecycleSpec` |
| `syn_retry` | SYN scan of 3 ports, groups of 2, 3 tries, up to 2 packets from anywhere, no list reset under a thread | `TypeOK`, `IInv`, `UnansweredIsListed`, `WalkMissesNothing` |
| `native_ends` | SYN or FIN scan of 3 ports, 2 tries, failures to send, a list reset under a thread, fairness | `CountIsExact`, `CountInv`, `ThreadsBounded`, `ScanEnds` |
| `discovery` | 2 discoveries of networks of 2 hosts that overlap in one, an ARP cache with a host of one of them only, `speed` and `normal`, 1 or 2 threads, 1 queued, 1 reset (to either network or none) or change of mode, fairness | `TypeOK`, `ListIsWhatWasReported`, `StopHasATask`, `DiesOnlyOf`, `StopIsPrompt`, `EveryDiscoveryEnds` |
| `port_scan` | 2 scans of 1 or 2 ports, TCP, UDP or SYN, number 2 being no port, 2 threads, 1 queued, 1 output of the native scanner, a total of 1 after a reopening, 1 reset, reopening or change of mode, fairness | `TypeOK`, `StopIsPrompt`, `ListIsSaved`, `DoneIsTrue`, `DoneInv`, `ClosedScanIsDone` |
| `addresses` | every address and netmask of 2 octets of 3 bits | `TypeOK`, `RangeIsUsable`, `DiscoveryRange`, `ValidIsUsable`, `ThrowsOnlyWithoutHosts`, `RangeIsFound` |

Three ports are the fewest with a node in the middle of the list, whose removal
leaves the `prev` of its successor dangling, and the fewest with a full group of
threads and a rest that is never joined; two tries are the fewest that bring two
lists, two sniffers and their late packets together, and three let a retry walk what
another retry put on the list (`syn_retry`); two packets are the fewest that unlink
through a dangling `prev`.  `PortSpace` stands for 65536; ports stay below it.
`CountIsExact` and `ThreadsBounded` speak of the first round: in later ones the
count is wrong (see other behaviours, below) and threads of the former round may be
left.  Scans stop, so deadlock is not checked, but `ScanEnds` is: a join that waits
for ever or a list that goes in circles violates it.

Two activities are what it takes for one's request, scan or `stopSelf` to meet
the other's; two scans of one activity for a request about one to meet the answer
about the other; two service objects for ids, replies, Runnables and messages of the
first to meet the second; one chunk of output to tell a complete result from an
incomplete one (`restarts` has none: what becomes of the output when processes die
is left to the theorems `Implements` and `FinishedIsFinal`).  The run
`api_activity` has one activity because the interleavings of the API with itself
are what it is about; dying activities are there, not in `nmap_activities`, whose
liveness properties are false of an activity that does not come back (the `TODO`
of `ScanService.java:116`).  They are checked of one service object, too, and of
what they say about a running scan `StartedIsCollected` and `ServiceStops` except
one that runs after the collection of another called `stopSelf`
(`ScanService.java:252`): `onDestroy` may interrupt that one, uncollected.

Two discoveries are what it takes for one to post into the list of the other; two
hosts give a range, which leaves one out; two networks, and a host of the ARP cache
that is of one only, are enough for an array to overflow of foreign hosts, whoever
reports them, and `KnownNever`, which lets a host in twice, overflows it without any;
one core thread, one further and a queue of one bring every case of `Accept`, the
refusal and the thread that waits behind its own tasks.  The mode `insane` has the
control of `speed` with a longer plan; the theorems hold for all three.  In
`port_scan` two ports make a scan with a port before and after the stop; one native
output is a report, a line cut or "Host is down"; the second run and the touch bring
late answers to a reset list. `DefaultPorts` (1024 in the code) is 1 there, the number
of ports of one range and less than that of the other; `MaxPort` (65535) is 1, so that
the longer range has a number that is no port, which a TCP scan comes to at its second
step. Octets of three bits are the smallest with a boundary between octets and every
kind of mask (none, one host bit, two, all), on both sides of the sign bit and
non-contiguous ones; the instance is exhaustive.  Each property is shown to have teeth
by a mutant: a changed definition (`PROJECT.json`, `mutants`) under which TLC finds it
violated.

### Fairness

`FairSpec` assumes weak fairness of what some loop in the code or in Android
drives: the service's main looper for each sender, `onBind`, `onUnbind` and
`onDestroy` once due, each activity's Handler, and each Runnable (the pool is a
cached one, so each Runnable gets a thread, and nmap ends by itself).  Nothing is
assumed of the user (`startScan`, `onCreate` and `onDestroy` of an activity), of
`su`, which may wait for the user for ever, of the native setup, or of processes
being killed.  In the native scanner `main`, the scan threads and a sniffer that
has a packet make progress; no packet need ever come.  Hence
`AnsweredOnceSetUp` has the end of the setup as its premise.

In `HostDiscovery` the main looper, the threads of the pool and the probes go on while
any of them can, in one conjunct for all: each probe has a timeout, its own or that of
TCP, but `ShellPing`, whose `ping` has no count and may never end, so it has no
fairness.  Tasks and messages are finitely many, so that going on is getting to each.
Only the mode `insane` pings; `EveryDiscoveryEnds` is checked, and stated, for the
modes without it, since pings that never end can hold every thread a queued discovery
waits for.  `PortScanner` assumes the same of connect tasks and nothing of the native
task, whose `su` need not end.  The user owes nothing in either.  `SubnetUtils` is
sequential code, and goes on.

### Findings

Four runs expect a violation; each checks what a comment or a message says of the
code.

| Run | The code says | What it does |
|---|---|---|
| `native_fails` | "No native, no scanning service" | no `break` after `NATIVE_SETUP_FAIL`: the failure is recorded, for good, as a success |
| `stop_running` | "manage abrupt stopping" | the Runnable of a stopped scan reports its end, and the handler dereferences a null Scan |
| `native_removed` | "Removing the port from probeSent list if a response is received" | after the removal of its neighbour a node's `prev` dangles, and its own removal fails: an answered port is reported as `open\|filtered` |
| `scans_overlap` | "Scan already running. Please wait." | answers to a stopped scan complete the count of the next one, whose flag is reset while it still has ports to try: a third starts beside it |

### Other behaviours

The models have these, and no run is kept for them.

*nmap session.*  `onDestroy` dereferences the null future of a scan that has an id and
was never started (`ScanService.java:110`).  `stopSelf` undoes the only
`startService`, so that after the first collected scan a later one is destroyed when
its activity unbinds (`ScanService.java:252`).  A `startScan` before the answer to the
first runs the second command under the first id; one before the answer to `stopScan`
starts a scan with null arguments that never ends; a request may be served after
`onDestroy`, and the Runnables of a destroyed service object go on beside those of the
next in the same process; `killProcess` at the end of one scan may end the nmap of
another.

*Native scanner.*  `num_awaited` is not reset with the list (`main.c:507`): a port
retried counts twice, and the number printed may be negative.  A thread that puts
its probe on the list while `main` resets it links two rounds, and an unanswered
probe can be dropped (`UnansweredIsListed` fails with `"race"` in `Failures`), and a
third round misses it (so does `WalkMissesNothing`);
a port that answers twice may be counted down twice, so that a FIN scan may find
`num_awaited` 0 and skip its report (`WalkMissesNothing` fails with `"stray"` and
`"fin"`);
port 65536, in the default range, wraps to 0 and its response is not recognised;
a packet rate of 0 is announced as replaced and divided by.

*Host discovery.*  The message that a discovery is running is never shown, as
`init()` has reset the flag (`HostDiscovery.java:127-130`); `hd` knows the latest
discovery only, so an earlier one cannot be stopped.  "Done" comes early or never:
`totalHosts` counts one host more than the range has, ARP entries count as steps,
and a host that is known does not.  `addHosts` asks nobody of which network a host
is: the ARP cache lists every neighbour of every interface (`ARPScan.java:61-72`),
and a discovery of the network before `resetApp()` still reports
(`nsandroid.java:308-310`), so that `discoveredHosts` may overflow
(`HostDiscovery.java:228`) and the process dies.  `DiesOnlyOf` names these hosts
(`Foreign`); without the disjunct TLC finds it violated.

*Port scanner.*  An open port is no step of the progress, so a scan with an open port
does not finish for the user, who has to stop it; an activity created while a scan
runs, on a rotation for instance, puts 1024 in place of the total
(`PortScanner.java:120`), so that "Done Port Scanning" comes early, while the scan
goes on, or never; `stop()` follows the mode chosen meanwhile; a text that is no
number ends the process after the reset (`PortScanner.java:329`), a port above 65535
in a TCP scan when its turn comes (`ScanTCP.java:76`); a cancelled TCP scan means to
cancel `udp`, which is null, so that its last task goes on; `portsOpen` grows from
scan to scan; the native task sets `started` from its own thread, possibly after a
stop.

*Address arithmetic.*  A subnet of two addresses writes over the end of its array;
a mask without ones is refused with an exception nobody catches; ones of a mask
that is not contiguous are counted as if it were; with a mask of ones the only
address is not in its own range ("Invalid IP"); the highest host is never probed.

Seen in the code, and below the level of the models: `TCPMultiPort` returns on the
first exception, so only its first port is tried, and `TCP13` asks a
non-blocking connect at once, so that it hardly ever finds a host; `saveScan`
writes the text views, not their text, as the range.

## 4. Proofs

The theorems hold for any `Clients`, any finite `ScanIds` and any values of the
bounds and of `Failures`, under the named assumptions of `ScanCommunication`,
`AndroidService` and `ScanClient`: `NoId` is no id, the senders are distinct,
there is at least one start and one service object, and there are enough ids.

| Theorem | States |
|---|---|
| `TypeCorrect` | `Spec => []TypeOK` |
| `Answered` | `Spec => []NoForgottenRequest` |
| `SetUpFirst` | `Spec => []NoEarlyStart` |
| `RunsAreKnown` | `Spec => []EveryRunIsKnown` |
| `ResultsComplete` | `Spec => []CompleteResults` |
| `FieldIsTrue` | `Spec => []ScanFieldIsTrue` |
| `StrayNotesAreOfStopped` | `Spec => []UnknownWasStopped` |
| `Implements` | `Spec => LifecycleSpec`, i.e. `ScanSession` refines `ScanLifecycle` |
| `LivesGoForward` | `Spec => [][\A id \in ScanIds : Forward(id)]_vars` |
| `FinishedIsFinal` | `Spec => [][\A id \in ScanIds : OutputStands(id)]_vars` |

The four after types follow from `Invariance == Spec => []IInv`.  None of them is
inductive by itself; `IInv` adds

* `DownIsEmpty`: without a process there is no service object, Scan object,
  message or live Runnable.
* `AbsentIsIdle`: a service object that is not there, as its process died or it is
  still to be created, knows nothing of its setup and has no setup Runnable.  A new
  one thus starts from nothing, in the cached process as well: a request waiting in
  it was made in it (for `NoForgottenRequest`), while a Runnable that lives on was
  submitted by the service object that owns its id, which had learnt of its root
  access (for `NoEarlyStart`).
* `GrantedWhenSetUp`: the flag is up only before the end of the setup, and ids are
  granted only after it, in each service object.  The two cases of the handler that
  end the setup thus see exactly the requests nobody answered.
* `GrantsHold`: whatever carries an id from the grant to the start (the reply in
  the activity's queue, the request in the service's) carries one that was given
  out and, if its Scan object still exists, granted.  This is what is left of
  the protocol when processes die under it: stale ids may travel, but no Scan
  object is under them.
* `RequestsNumbered`, `UnaskedIsUnused`: `asked = 0` tells fresh ids from used
  ones, so a fresh id meets no stale Runnable, result or message.
* `RootNotifiedOnce`: root access is notified once per service object, so it does
  not change under a Runnable that copied it.
* `WorkersFollowScans`: the Runnable of a Scan object is idle until the scan is
  started, has ended when the scan is finished, and announces its end only when
  it has ended; for `EveryRunIsKnown` and `CompleteResults`.

`StrayNotesAreOfStopped` and `Implements` rest on a second invariant, `LifeInv`,
inductive beside `IInv`:

* `EndIsLast`: the end of a scan is the last message in its Runnable's queue, and
  the queue of a finished scan is empty.  A scan thus finishes once, and its
  output stands still from then on.
* `InterruptedHasLeft`: only Runnables of removed scans are interrupted, so a
  chunk read after the interrupt is output of a scan that was stopped.
* `StartedIsGranted` and `PendingIsWaitedFor`: only granted scans are started, and
  the flag of a service object is up only while a scan of it waits, so that the end of
  its setup is either `GetReady` or `Refuse`, for all its waiting scans at once.
* `KeptUntilLeft`: a Scan object stays in the map until an event that removes it.

`FieldIsTrue` rests on a third, `FieldInv`, inductive beside `IInv`: until an
activity starts a second scan, all messages between it and the service are about
one id (`OneId`; the request that asks for it is alone in its queue, so that the
two ends never hold two ids), a scan still to be started will be with the
arguments in the field (`StartsAsAsked`), its start is confirmed once, to that
field (`ConfirmedOnce`), and only a scan whose confirmation has been handled is
being stopped (`StopsWhatStarted`), so that no confirmation sets `started` behind
the reply that reset it.  After a second `startScan` the field can be wrong: that
is what `ScanFieldIsTrue` leaves out, and section 3 lists.

With `IInv` and `LifeInv`, every step of the session is a step of the life cycle
or a stutter:

| Session | Life cycle |
|---|---|
| `RqstScanId` | `Ask`, of the service object asked |
| the end of its setup (`NotifyRootAccess`, `NotifyNativeSetup`) | its `GetReady`, `Refuse` or a stutter |
| `RqstStartScan` | `Run`, or a stutter for an id that is stale or was started |
| `ReadChunk` | `Output` |
| the end of a scan | `Finish`, or `Die` when its Scan object is gone |
| `RqstResults` | `Show` of a running scan, `Collect` of a finished one |
| `RqstStopScan` | `Stop` |
| `OnDestroy` | `Clear`, of its scans only, or `Die` when a scan of it was never started |
| `ProcessLost` | `Die` |
| everything else | a stutter |

What holds of every life cycle thus holds of the session: `LivesGoForward` (no scan
is granted, started, finished or collected twice, none that left the service
comes back) and `FinishedIsFinal` (the output of a finished scan stands still) are
action properties, proved of the scans' lives and output alone with one case per
action of `ScanLifecycle`.  No run checks these two by name; `restarts` checks
`LifecycleSpec`, from which they follow.

The native scanner's theorems hold for any range of ports, any numbers of tries,
threads and packets, SYN and FIN, under `RangeAssumption` (ports lie between 1
and `PortSpace`) and `CountsAssumption` (at least one try and one thread).

| Theorem | States |
|---|---|
| `ScannerTypes` | `Spec => []TypeOK` |
| `ListInvariance` | `Spec => []IInv`, without races |
| `UnansweredStays` | `Spec => []UnansweredIsListed`, without races |
| `RetriesMissNothing` | `Spec => [](mode = "syn" => WalkMissesNothing)`, without races |
| `ReportMissesNothing` | `Spec => [](mode = "fin" => WalkMissesNothing)`, each probe answered once at most, ports below 65536 |
| `WalksMissNothing` | `Spec => []WalkMissesNothing`, under the premises of both |
| `GroupsAreBounded` | `Spec => []ThreadsBounded` |
| `FirstRoundListed` | `Spec => [](FirstRound => UnansweredIsListed)`, races or not |
| `CountInvariance`, `CountExact` | `Spec => []CountInv`, `Spec => []CountIsExact`, each probe answered once at most, ports below 65536 |

The premise `"race" \notin Failures` says that no thread is in the middle of `Push`
when `main`, a second later, resets the list; without it `IInv` and
`UnansweredIsListed` are false.  The argument of `IInv`: three kinds of pointers leave
nodes out, the head those newer than it (`HeadSkips`), a `next` those between it and
its node (`NextSkips`), a `prev` those between its node and it (`PrevSkips`), and
every node of the round that is left out was answered.  Unlinking at the head joins
two gaps of the first two kinds, unlinking elsewhere one of the second and one of the
third; that a dangling `prev` points past removed nodes is what `PrevSkips` allows,
and why no unanswered probe is lost through it.  Unlinking trusts `prev = NULL` to
mean the head: `LinkedHavePrev` and `SnifferUnlinks` say that only the head has none.
From `IInv` an unanswered probe is met by the walk from the head, by the least node
met that is not older than it.

A retry walks the list of the round before while late packets go on unlinking
from it, so `RetriesMissNothing` needs the two gaps for nodes of former rounds
too, as far as the walk has still to visit them (`TodoNext`, `TodoPrev`); they
come from `NextSkips` and `PrevSkips` at the moment the round is closed.  `Ahead`
is the point: what is unanswered and unvisited is never newer than the node the
walk has come to.  The report of a FIN scan walks the list of its only round, which
`NextSkips` is about; but it is skipped when `num_awaited` is 0, so that it is as
good as the count: `ReportMissesNothing` needs `CountInv`, and its premises.

`GroupsAreBounded` needs no premise.  The first round walks the ports from
low to high (`PortsInOrder`; nothing ever writes to that list,
`ProbesBeyondPorts`) and joins behind each multiple of `threadCount` (`Grouped`), so
that two threads of a group never have one slot (`MultipleBetween`, the arithmetic
of it), each live thread is the one its slot names (`SlotsHold`), and a join that
finds no live thread in any slot finds none at all.

`FirstRoundListed` is `UnansweredStays` without the premise about races: the first
reset of the list finds no thread (`FirstStart`, from `GroupInv`).  `CountExact`
needs it.  While a sniffer walks, the count is ahead of the truth: `answered` has
the node whose packet it took, the count does not until the sniffer comes to that
node.  `Owed` is the node, if it is still ahead, and `CountsOwed` says that
`num_awaited` is the number of probes without a response together with it.
`OwedIsMet` says that no `next` leads past it, since nobody else unlinks under the
mutex; so the sniffer meets it once, and takes the count down once.  That there is
one such node is `OneProbeEach`, which rests on the order in which main goes through
the ports (`SentInOrder`), a thread for each; that no response finds its node gone
already is `OneResponse`.  The premises are `"stray" \notin Failures` (no
packet that answers nothing, no second answer: either takes the count down for
nothing) and `high < PortSpace` (port 65536 is 0 on the wire, and its answer is
never recognised).  The code guarantees neither, and section 3 says what happens
without them.

Each module first states what the building blocks do to the queues and the map
(effect lemmas), then has one lemma per action and one step per part of the
invariant the action can disturb.

The discovery's theorems hold for any networks the resets find, any ARP cache,
modes, runs and resets, and any pool, under `PoolAssumption` (a core of at least one
thread) and `DiscoveryAssumption` (a network has two hosts at least, addresses are
positive numbers); the port scanner's for any ranges, modes and bounds, under
`PoolAssumption` and `ScannerAssumption` (ports are numbers).

| Theorem | States |
|---|---|
| `DiscoveryTypes` | `Spec => []TypeOK` (`HostDiscovery`) |
| `ListIsTrue` | `Spec => []ListIsWhatWasReported` |
| `StopHasWork` | `Spec => []StopHasATask` |
| `DeathsExplained` | `Spec => []DiesOnlyOf` |
| `StopsPromptly` | `Spec => []StopIsPrompt` |
| `ScannerTypes` | `Spec => []TypeOK` (`PortScanner`) |
| `ScanStopsPromptly` | `Spec => []StopIsPrompt` |
| `ListIsKept` | `Spec => []ListIsSaved` |
| `DoneInvariance`, `DoneTrue` | `Spec => []DoneInv`, `Spec => []DoneIsTrue`, whose premise is that the total on display is that of the scan |

`AsyncTasks_proofs` states once what the operations of the pool do to its variables;
both invariants rest on it.  `TypeInv` has the types and what bounds the place of a
thread in its plan, which depends on its phase.  `Phases` relates a thread's phase to
its place: one that was not started has neither moved nor been stopped, one that
checks has handed over a task. `CancelIsSeen` is what makes a stop prompt: a cancelled
thread about to hand over a task has handed over none since the stop, since every task
handed over leads to `isCancelled()`, and `cancel` cannot be taken back.  `ArrayFits`
says that the array has a place for each host of the network of the last reset; with
`ListIsWhatWasReported`, which keeps the hosts in it distinct, a host of the network
that is not in it has a place as long as the others are of the network too (the
pigeonhole lemma `ArrayHasRoom`).  So an overflow takes a host of another, and
`Origins`, which follows hosts from the tasks through the messages into `reported`,
says where that one came from: this is `DiesOnlyOf`.  `RangesOK` says that the ports
of a scan are among those a user can enter, whatever was entered since.

`DoneTrue` counts: in the first scan, whatever is stopped, reset, reopened or changed,
each step of the progress, made (`p`) or posted (an element of `messages`), is of a
task of its own that has ended by itself (`Answered`), so `p + Len(messages) <=
Cardinality(Answered)`, and `Answered` is part of the tasks handed over, which are no
more than the ports.  When `p` reaches the total the inequalities are equalities:
every port was handed over and answered, and nothing is on its way.  The total must be
that of the scan for this (`TotalOfRange`, a premise of `DoneIsTrue`): nobody writes
another but an activity created in between, or a reset, which puts 0 there; without
the premise TLC finds the formula violated in `port_scan`.  `OnceInPool` is what makes
the count go up by one at most: a task is in the pool once, so it ends once.  A scan
of the native scanner makes no progress at all.  For a second scan the inequality does
not hold, since answers to the first still come (run `scans_overlap`), and
`DoneIsTrue` does not speak of it.

`SubnetUtils`' theorems hold for octets of any number of bits and addresses of any
number of octets (four of eight bits among them), any address and any mask, under
`WidthAssumption` (both numbers are at least 1) and `PowerAssumption`.

| Theorem | States |
|---|---|
| `AddressTypes` | `Spec => []TypeOK` (`SubnetUtils`) |
| `RangeComplete` | `Spec => []RangeIsUsable` |
| `DiscoveryMissesOne` | `Spec => []DiscoveryRange` |
| `ValidityIsRight` | `Spec => []ValidIsUsable` |
| `ThrowsExplained` | `Spec => []ThrowsOnlyWithoutHosts` |

`PowerAssumption`, `2 ^ (n + 1) = 2 * 2 ^ n` up to the width, is a law of
exponentiation, not of the code: no backend knows it, and TLC evaluates it in the
run `addresses`.  Everything else about powers follows by induction, over a set
instead of an operator: `Upward` says that a set with 0 and, with a number, the
next has all of them, since otherwise there would be a least number outside it
(`LeastOf`, from the well-foundedness of `<`).  The same lemma unfolds the recursion
of `ToInteger` over the octets: `ReadBack` says that it is the inverse of `ToArray`.

The invariant is `IInv`: once `calculate()` has run, `network` is `ip` with the host
bits cleared and `broadcast` the last address above it (`InfoInv`); while a loop runs,
the array holds the addresses from the first on, in order, up to the place `j`, and
`add` is the next (`Filled`, `LoopInv`).  `SubnetShape` is the arithmetic of it: the
addresses with one prefix are an interval of signed numbers that does not cross
the sign bit, as its length is a power of two that divides its beginning; so
signed and unsigned order agree within it (`SameOrder`), and the loops, which
compare signed numbers, end where they should.  `InRangeKnown` is the one place
where differences do wrap: an interval is at most half of the numbers long, so
that the wrapped difference from its first address tells inside from outside.

Every invariant the runs check is stated by a theorem.  Only model-checked:

* The liveness properties, and whatever involves `ENABLED`, are out of the
  prover's reach: `AnsweredOnceSetUp`, `StartedIsCollected`, `ServiceStops`,
  `ScanEnds`, `EveryDiscoveryEnds`, `ClosedScanIsDone`, `RangeIsFound`.

## 5. Not modelled

* libpcap (`src/jni/libpcap`), the larger part of the C code by far, is a vendored
  third-party library.  What the application needs of it, that a loop calls
  `got_packet` for packets and ends after `pcap_breakloop` with at most one more,
  is in `NativeScanner`.
* `main.c`'s packet building, checksum and ICMP ping: sequential code without
  shared state; the ping's outcome decides only whether the scan begins.
* Traceroute and the command line (`Traceroute.java`, `api/cmdLine.java`) run one
  process and publish its lines from one task; of `api/shellUtils.java` only
  `killProcess` is modelled, which the nmap activity calls.
* `api/ZipUtils.java` is a loop over the entries of an archive; the service sees
  whether it threw, which is in `SetupNative`.
* Persistence (`model/*`): tables and files, written after a run by the main
  thread; the adapters keep no state but the open database.
* The user interface (`nsandroid.java`, `view/*`, the viewers), except
  `resetApp`, which replaces the discovery's controller; `networkInfo`'s parser
  of `netcfg`; the methods of `SubnetInfo` that only format.
* Code nothing calls: `Ping.java`, `PrintingThread.java`, `TCPChannel.java`,
  `XmlParser.java`, and `getScanProgress`, whose request the service ignores.
