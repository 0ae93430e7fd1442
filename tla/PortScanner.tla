----------------------------- MODULE PortScanner -----------------------------
(***************************************************************************)
(* The port scanner of the application: the activity (PortScanner.java),   *)
(* whose fields are static; the thread of a scan (core/Scanning.java),     *)
(* which hands one task per port to the pool, or one task for the native   *)
(* scanner; and those tasks (api/scanner).  The fields belong to the main  *)
(* thread, but for started, which the task of a native scan sets as well.  *)
(***************************************************************************)
EXTENDS AsyncTasks, Integers

CONSTANTS FromPorts,    \* what a user enters as the first port,
          ToPorts,      \* and as the last
          MaxPort,      \* the highest number of a port (65535)
          Modes,        \* the modes a user chooses from
          DefaultPorts, \* portsToScan of an activity just created (1024)
          MaxChunks,    \* bound: outputs of a native scan that are not ignored
          MaxRuns,      \* bound: scans that are started
          MaxTouches    \* bound: activities opened, modes changed between scans

ASSUME ScannerAssumption ==
  /\ FromPorts \subseteq Nat /\ ToPorts \subseteq Nat
  /\ Modes \subseteq {"TCP", "UDP", "SYN", "FIN"}
  /\ MaxPort \in Nat /\ DefaultPorts \in Nat /\ MaxChunks \in Nat /\ MaxTouches \in Nat
  /\ MaxRuns \in Nat \ {0}

VARIABLES open, scannerMode, started, p, portsToScan,
          scan,               \* the Scanning that stop() cancels, 0 if null
          fillMaps,           \* the list on the screen
          portsOpen,          \* what saveScan() saves
          mode, range, at, phase, \* of the thread of each Scanning
          began, chunks,      \* native scans that run, the outputs of each
          runs, touches,
          stoppedAt           \* history: where a scan was when it was stopped

fields == <<open, scannerMode, started, p, portsToScan, scan, fillMaps, portsOpen>>
threadVars == <<mode, range, at, phase>>
nativeVars == <<began, chunks>>
vars == <<taskVars, fields, threadVars, nativeVars, runs, touches, stoppedAt>>

Runs == 1 .. MaxRuns
Ports == UNION {UNION {f .. t : t \in ToPorts} : f \in FromPorts}
NoPort == 0
Native == {"SYN", "FIN"}
Connect == {"TCP", "UDP"}

Tasks == [run : Runs, kind : Connect, port : Ports]
           \cup [run : Runs, kind : Native \cup {"Scanning"}, port : {NoPort}]
\* What a task posts: its answer for a port, or what the native scan printed.
Messages == [about : {"closed", "open", "down", "report", "cut", "ended"},
             kind : Connect \cup Native, ports : Seq(Ports)]
Note(about, kind, ports) == [about |-> about, kind |-> kind, ports |-> ports]

Thread(r) == [run |-> r, kind |-> "Scanning", port |-> NoPort]
Probe(r, kind, port) == [run |-> r, kind |-> kind, port |-> port]
NativeScan(r) == Probe(r, mode[r], NoPort)

From(r) == range[r][1]
To(r) == range[r][2]
\* Tasks the thread of a scan hands over: for(int i=f; i<=t; i++), or one.
Size(r) == IF mode[r] \in Native THEN 1
           ELSE IF From(r) <= To(r) THEN To(r) - From(r) + 1 ELSE 0
Plan(r, i) == IF mode[r] \in Native THEN NativeScan(r) ELSE Probe(r, mode[r], From(r) + i - 1)

-----------------------------------------------------------------------------
(***************************************************************************)
(* The activity, on the main thread.                                       *)
(***************************************************************************)
\* onCreate of a further activity: the list is a new one, the total is that of
\* the range it shows.
OpenActivity ==
  /\ up /\ touches < MaxTouches
  /\ touches' = touches + 1
  /\ fillMaps' = <<>> /\ portsToScan' = DefaultPorts
  /\ UNCHANGED <<taskVars, open, scannerMode, started, p, scan, portsOpen, threadVars, nativeVars,
                 runs, stoppedAt>>

SetMode(m) ==
  /\ up
  /\ IF runs = 0 THEN UNCHANGED touches ELSE touches < MaxTouches /\ touches' = touches + 1
  /\ scannerMode' = m
  /\ UNCHANGED <<taskVars, open, started, p, portsToScan, scan, fillMaps, portsOpen, threadVars,
                 nativeVars, runs, stoppedAt>>

\* Mutant of Start: the last port is not counted.
StartOneLess(f, t) ==
  /\ up /\ runs < MaxRuns /\ ~started
  /\ runs' = runs + 1 /\ scan' = runs + 1
  /\ open' = 0 /\ p' = 0 /\ fillMaps' = <<>>
  /\ started' = TRUE
  /\ portsToScan' = t - f
  /\ mode' = [mode EXCEPT ![runs + 1] = scannerMode]
  /\ range' = [range EXCEPT ![runs + 1] = <<f, t>>]
  /\ phase' = [phase EXCEPT ![runs + 1] = "execute"]
  /\ Execute(Thread(runs + 1))
  /\ UNCHANGED <<scannerMode, portsOpen, at, nativeVars, touches, stoppedAt>>

\* start(), with reset(): what was found before stays in portsOpen.
Start(f, t) ==
  /\ up /\ runs < MaxRuns /\ ~started
  /\ runs' = runs + 1 /\ scan' = runs + 1
  /\ open' = 0 /\ p' = 0 /\ fillMaps' = <<>>
  /\ started' = TRUE
  /\ portsToScan' = t - f + 1
  /\ mode' = [mode EXCEPT ![runs + 1] = scannerMode]
  /\ range' = [range EXCEPT ![runs + 1] = <<f, t>>]
  /\ phase' = [phase EXCEPT ![runs + 1] = "execute"]
  /\ Execute(Thread(runs + 1))
  /\ UNCHANGED <<scannerMode, portsOpen, at, nativeVars, touches, stoppedAt>>

\* A text that is no number: parseInt throws in onClick, after reset().
StartUnreadable ==
  /\ up /\ ~started /\ Dies
  /\ portsToScan' = 0 /\ open' = 0 /\ p' = 0 /\ started' = TRUE /\ fillMaps' = <<>>
  /\ UNCHANGED <<scannerMode, scan, portsOpen, threadVars, nativeVars, runs, touches, stoppedAt>>

\* stop() follows the mode chosen now, not that of the scan.
Stop ==
  /\ up
  /\ \/ /\ scannerMode \in Native
        /\ UNCHANGED <<taskVars, stoppedAt>>
     \/ /\ scannerMode \in Connect /\ started
        /\ IF scan = 0 THEN Dies /\ UNCHANGED stoppedAt
           ELSE Cancel(Thread(scan)) /\ stoppedAt' = [stoppedAt EXCEPT ![scan] = at[scan]]
  /\ started' = FALSE
  /\ UNCHANGED <<open, scannerMode, p, portsToScan, scan, fillMaps, portsOpen, threadVars, nativeVars,
                 runs, touches>>

\* Mutant of Reset: what is to be saved is cleared, the list is not.
ResetKeepsList ==
  /\ up /\ touches < MaxTouches
  /\ touches' = touches + 1
  /\ portsToScan' = 0 /\ open' = 0 /\ p' = 0 /\ started' = FALSE /\ portsOpen' = <<>>
  /\ UNCHANGED <<taskVars, scannerMode, scan, fillMaps, threadVars, nativeVars, runs, stoppedAt>>

\* The menu's reset: reset(), and the entry below it opens the logs.
Reset ==
  /\ up /\ touches < MaxTouches
  /\ touches' = touches + 1
  /\ portsToScan' = 0 /\ open' = 0 /\ p' = 0 /\ started' = FALSE /\ fillMaps' = <<>>
  /\ UNCHANGED <<taskVars, scannerMode, scan, portsOpen, threadVars, nativeVars, runs, stoppedAt>>

User == \/ OpenActivity \/ StartUnreadable \/ Stop \/ Reset
        \/ \E m \in Modes : SetMode(m)
        \/ \E f \in FromPorts, t \in ToPorts : Start(f, t)

-----------------------------------------------------------------------------
(***************************************************************************)
(* The thread of a scan: a task for each port, and after each a look       *)
(* whether the scan was cancelled.  A cancelled TCP scan means to cancel   *)
(* udp, which is null: the exception ends the cancelled thread like a      *)
(* return, and the task of the last port goes on.                          *)
(***************************************************************************)
Active(r, ph) == up /\ Thread(r) \in running /\ phase[r] = ph

\* Mutant of ExecuteNext: one port more than the range has.
ExecuteNextTooFar(r) ==
  /\ Active(r, "execute") /\ at[r] <= Size(r) /\ Accept(Plan(r, at[r] + 1))
  /\ at' = [at EXCEPT ![r] = @ + 1]
  /\ phase' = [phase EXCEPT ![r] = IF mode[r] \in Native THEN "execute" ELSE "check"]
  /\ UNCHANGED <<fields, mode, range, nativeVars, runs, touches, stoppedAt>>

ExecuteNext(r) ==
  /\ Active(r, "execute") /\ at[r] < Size(r)
  /\ \/ /\ Accept(Plan(r, at[r] + 1))
        /\ at' = [at EXCEPT ![r] = @ + 1]
        /\ phase' = [phase EXCEPT ![r] = IF mode[r] \in Native THEN "execute" ELSE "check"]
     \/ /\ Full /\ Throws(Thread(r))
        /\ phase' = [phase EXCEPT ![r] = "end"]
        /\ UNCHANGED at
  /\ UNCHANGED <<fields, mode, range, nativeVars, runs, touches, stoppedAt>>

Last(r) == Plan(r, at[r])

\* Mutant of CheckCancelled: isCancelled() is looked at after the loop only.
CheckCancelledLate(r) ==
  /\ Active(r, "check")
  /\ phase' = [phase EXCEPT ![r] = "execute"]
  /\ UNCHANGED <<taskVars, fields, mode, range, at, nativeVars, runs, touches, stoppedAt>>

CheckCancelled(r) ==
  /\ Active(r, "check")
  /\ \/ /\ Thread(r) \notin cancelled
        /\ phase' = [phase EXCEPT ![r] = "execute"]
        /\ UNCHANGED taskVars
     \/ /\ Thread(r) \in cancelled
        /\ cancelled' = IF mode[r] = "UDP" THEN CancelledWith(Last(r)) ELSE cancelled
        /\ running' = running \ {Thread(r)}
        /\ phase' = [phase EXCEPT ![r] = "end"]
        /\ UNCHANGED <<queue, threads, messages, up>>
  /\ UNCHANGED <<fields, mode, range, at, nativeVars, runs, touches, stoppedAt>>

ThreadReturns(r) ==
  /\ Active(r, "execute") /\ at[r] = Size(r)
  /\ ReturnSilently(Thread(r))
  /\ phase' = [phase EXCEPT ![r] = "end"]
  /\ UNCHANGED <<fields, mode, range, at, nativeVars, runs, touches, stoppedAt>>

-----------------------------------------------------------------------------
(***************************************************************************)
(* The tasks.  A connect task returns "host:port" for an open port, else   *)
(* "".  Of a number that is no port an exception is left, which only UDP   *)
(* catches.  A native scan sets started from its thread and publishes      *)
(* what su and the scanner print; su reads on when the scanner has ended,  *)
(* so that the task returns only if su itself ends.                        *)
(***************************************************************************)
\* Mutant of ConnectEnds: the answer is published, also by a cancelled task.
ConnectPublishes(t) ==
  /\ up /\ t \in running /\ t.kind \in Connect
  /\ running' = running \ {t}
  /\ messages' = Append(messages, Note("closed", t.kind, <<t.port>>))
  /\ UNCHANGED <<queue, threads, cancelled, up>>
  /\ UNCHANGED <<fields, threadVars, nativeVars, runs, touches, stoppedAt>>

ConnectEnds(t) ==
  /\ up /\ t \in running /\ t.kind \in Connect
  /\ \/ t.port <= MaxPort /\ Return(t, Note("open", t.kind, <<t.port>>))
     \/ (t.port <= MaxPort \/ t.kind = "UDP") /\ Return(t, Note("closed", t.kind, <<t.port>>))
     \/ t.port > MaxPort /\ t.kind = "TCP" /\ Throws(t)
  /\ UNCHANGED <<fields, threadVars, nativeVars, runs, touches, stoppedAt>>

Lists(S) == UNION {[1 .. n -> S] : n \in 0 .. Cardinality(S)}

NativeBegins(r) ==
  /\ up /\ NativeScan(r) \in running /\ mode[r] \in Native /\ r \notin began
  /\ began' = began \cup {r}
  /\ started' = TRUE
  /\ UNCHANGED <<taskVars, open, scannerMode, p, portsToScan, scan, fillMaps, portsOpen, threadVars,
                 chunks, runs, touches, stoppedAt>>

NativePrints(r) ==
  /\ up /\ NativeScan(r) \in running /\ r \in began /\ chunks[r] < MaxChunks
  /\ \/ \E about \in {"down", "cut"} : Publish(Note(about, mode[r], <<>>))
     \/ \E ports \in Lists(From(r) .. To(r)) : Publish(Note("report", mode[r], ports))
  /\ chunks' = [chunks EXCEPT ![r] = @ + 1]
  /\ UNCHANGED <<fields, threadVars, began, runs, touches, stoppedAt>>

NativeEnds(r) ==
  /\ up /\ NativeScan(r) \in running /\ r \in began
  /\ Return(NativeScan(r), Note("ended", mode[r], <<>>))
  /\ UNCHANGED <<fields, threadVars, nativeVars, runs, touches, stoppedAt>>

-----------------------------------------------------------------------------
(***************************************************************************)
(* What they post, on the main thread.                                     *)
(***************************************************************************)
Posted(about) == up /\ messages # <<>> /\ Head(messages).about = about

Handled == /\ messages' = Tail(messages)
           /\ UNCHANGED <<queue, running, threads, cancelled, up>>

\* Mutant of Closed: the total is compared before the step is counted.
ClosedOneBehind ==
  /\ Posted("closed") /\ Handled
  /\ p' = p + 1
  /\ started' = IF p = portsToScan THEN FALSE ELSE started
  /\ UNCHANGED <<open, scannerMode, portsToScan, scan, fillMaps, portsOpen, threadVars, nativeVars,
                 runs, touches, stoppedAt>>

\* updateProgress(): when the total is reached, stop() finds the scan stopped.
Closed ==
  /\ Posted("closed") /\ Handled
  /\ p' = p + 1
  /\ started' = IF p + 1 = portsToScan THEN FALSE ELSE started
  /\ UNCHANGED <<open, scannerMode, portsToScan, scan, fillMaps, portsOpen, threadVars, nativeVars,
                 runs, touches, stoppedAt>>

\* addToList(), for each port a connect task or the native scanner found.
AddToList ==
  /\ Posted("open") \/ Posted("report")
  /\ Handled
  /\ fillMaps' = fillMaps \o Head(messages).ports
  /\ portsOpen' = portsOpen \o Head(messages).ports
  /\ open' = open + Len(Head(messages).ports)
  /\ UNCHANGED <<scannerMode, started, p, portsToScan, scan, threadVars, nativeVars, runs, touches,
                 stoppedAt>>

\* "Host is down", of which a FIN scan makes nothing; onPostExecute of both.
ScanOver ==
  /\ Posted("down") \/ Posted("ended")
  /\ Handled
  /\ started' = IF Posted("down") /\ Head(messages).kind = "FIN" THEN started ELSE FALSE
  /\ UNCHANGED <<open, scannerMode, p, portsToScan, scan, fillMaps, portsOpen, threadVars, nativeVars,
                 runs, touches, stoppedAt>>

\* A read that ends within the line: nextToken() throws.
CutLine ==
  /\ Posted("cut") /\ Dies
  /\ UNCHANGED <<fields, threadVars, nativeVars, runs, touches, stoppedAt>>

-----------------------------------------------------------------------------
Init ==
  /\ TasksInit
  /\ open = 0 /\ scannerMode = "TCP" /\ started = FALSE /\ p = 0
  /\ portsToScan = DefaultPorts /\ scan = 0 /\ fillMaps = <<>> /\ portsOpen = <<>>
  /\ mode = [r \in Runs |-> "TCP"] /\ range = [r \in Runs |-> <<1, 0>>]
  /\ at = [r \in Runs |-> 0] /\ phase = [r \in Runs |-> "idle"]
  /\ began = {} /\ chunks = [r \in Runs |-> 0]
  /\ runs = 0 /\ touches = 0 /\ stoppedAt = [r \in Runs |-> 0]

ScanThread(r) == ExecuteNext(r) \/ CheckCancelled(r) \/ ThreadReturns(r)
NativeTask(r) == NativeBegins(r) \/ NativePrints(r) \/ NativeEnds(r)
MainLooper == Closed \/ AddToList \/ ScanOver \/ CutLine
PoolThreads == Pool /\ UNCHANGED <<fields, threadVars, nativeVars, runs, touches, stoppedAt>>

Next == \/ User
        \/ \E r \in Runs : ScanThread(r) \/ NativeTask(r)
        \/ \E t \in running : ConnectEnds(t)
        \/ MainLooper \/ PoolThreads

Spec == Init /\ [][Next]_vars

\* The main looper and the pool's threads go on while they have something to do:
\* there are finitely many ports.  A connect ends with a timeout at the latest; a
\* native scan may go on for ever.
Fairness == WF_vars(\/ MainLooper
                    \/ TakeTask /\ PoolThreads
                    \/ \E r \in Runs : ScanThread(r)
                    \/ \E t \in running : ConnectEnds(t))

FairSpec == Spec /\ Fairness

-----------------------------------------------------------------------------
TypeOK ==
  /\ TasksTypeOK(Tasks, Messages)
  /\ open \in Nat /\ scannerMode \in Modes \cup {"TCP"} /\ started \in BOOLEAN
  /\ p \in Nat /\ portsToScan \in Int /\ scan \in 0 .. MaxRuns
  /\ fillMaps \in Seq(Ports) /\ portsOpen \in Seq(Ports)
  /\ mode \in [Runs -> Modes \cup {"TCP"}] /\ range \in [Runs -> Nat \X Nat]
  /\ at \in [Runs -> Nat] /\ \A r \in Runs : at[r] <= Size(r)
  /\ phase \in [Runs -> {"idle", "execute", "check", "end"}]
  /\ began \in SUBSET Runs /\ chunks \in [Runs -> 0 .. MaxChunks]
  /\ runs \in 0 .. MaxRuns /\ touches \in 0 .. MaxTouches /\ stoppedAt \in [Runs -> Nat]

\* A scan that was stopped hands over one more task at most; the thread of a
\* UDP scan cancels that task, so that it answers nothing.
StopIsPrompt ==
  \A r \in Runs : Thread(r) \in cancelled =>
    /\ at[r] <= stoppedAt[r] + 1
    /\ mode[r] = "UDP" /\ phase[r] = "end" /\ stoppedAt[r] < at[r] /\ Pending(Last(r))
         => Last(r) \in cancelled

\* The list ends what saveScan() saves: whatever was reset, reopened or stopped
\* in between, no port is shown that would not be saved.
ListIsSaved ==
  /\ Len(fillMaps) <= Len(portsOpen)
  /\ \A i \in 1 .. Len(fillMaps) : fillMaps[i] = portsOpen[Len(portsOpen) - Len(fillMaps) + i]

\* "Done Port Scanning" is true of the first scan of a process, as long as the
\* total is that of its range: when the progress reaches it, every port was tried
\* and answered, and no answer is on its way, whatever was stopped or reset since.
\* (An activity opened again, or rotated, puts another total there.)
AllAnswered ==
  /\ at[1] = Size(1) /\ messages = <<>>
  /\ \A i \in 1 .. Size(1) : ~Pending(Plan(1, i)) /\ Plan(1, i) \notin cancelled
TotalOfRange == portsToScan = To(1) - From(1) + 1
DoneIsTrue == up /\ runs = 1 /\ p > 0 /\ p = portsToScan /\ TotalOfRange => AllAnswered

\* Why it is: while there is one scan, the pool has each of its tasks once at most,
\* and each step of the progress, made or posted, is of a task of its own that has
\* ended by itself.  A native scan makes none.
OnceInPool == /\ \A i, j \in 1 .. Len(queue) : queue[i] = queue[j] => i = j
              /\ running \cap Queued = {}
HandedOver(t) == runs = 1 /\ (t = Thread(1) \/ \E i \in 1 .. at[1] : t = Plan(1, i))
Answered == {i \in 1 .. at[1] : ~Pending(Plan(1, i)) /\ Plan(1, i) \notin cancelled}
Progress ==
  IF runs = 0 THEN p = 0 /\ messages = <<>> /\ began = {}
  ELSE /\ touches = 0 => TotalOfRange
       /\ mode[1] \in Connect => /\ p + Len(messages) <= Cardinality(Answered)
                                 /\ began = {}
       /\ mode[1] \in Native => /\ p = 0
                                /\ \A i \in 1 .. Len(messages) : messages[i].about # "closed"
DoneInv ==
  up /\ runs <= 1 => /\ OnceInPool
                     /\ \A t \in running \cup Queued : HandedOver(t)
                     /\ Progress

\* A first connect scan ends for the user, too, unless a port is open: the
\* flag that refuses the next scan is reset.
Disturbed == touches > 0 \/ runs > 1
ClosedScanIsDone ==
  started /\ mode[1] \in Connect /\ portsToScan > 0 ~> ~started \/ ~up \/ Disturbed
                                      \/ open > 0
\* "Scan already running. Please wait.": no two scans have ports left to try.
GoesOn(r) == Pending(Thread(r)) /\ Thread(r) \notin cancelled /\ at[r] < Size(r)
OneScanAtATime == \A r, s \in Runs : GoesOn(r) /\ GoesOn(s) => r = s
=============================================================================
