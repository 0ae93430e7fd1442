------------------------- MODULE PortScanner_proofs -------------------------
(***************************************************************************)
(* Proofs about PortScanner: its types, that a stopped scan is prompt,     *)
(* that the list on the screen is saved and that "Done" is true of the     *)
(* first scan, for any ranges of ports, any number of scans and any size   *)
(* of the pool.                                                            *)
(***************************************************************************)
EXTENDS PortScanner, AsyncTasks_proofs, FiniteSetTheorems

(***************************************************************************)
(* The inductive invariant.                                                *)
(***************************************************************************)
\* Scans are numbered as they are started; the thread of one that is not has
\* done nothing, and one that looks whether it was cancelled has handed over
\* the task of a port.
Phases == \A r \in Runs :
  /\ phase[r] = "idle" <=> r > runs
  /\ phase[r] = "idle" => at[r] = 0 /\ stoppedAt[r] = 0
  /\ phase[r] = "check" => at[r] > 0

\* The thread of a connect scan that was cancelled has handed over nothing
\* since, until it looks; that of a native scan has one task to hand over.
CancelIsSeen == \A r \in Runs :
  Thread(r) \in cancelled /\ phase[r] = "execute" => at[r] = stoppedAt[r] \/ mode[r] \in Native

\* The types, in parts that steps change together.
ModeSet == Modes \cup {"TCP"}
PhaseSet == {"idle", "execute", "check", "end"}

TaskType == TasksTypeOK(Tasks, Messages)

TypeRest ==
  /\ open \in Nat /\ scannerMode \in ModeSet /\ started \in BOOLEAN
  /\ p \in Nat /\ portsToScan \in Int /\ scan \in 0 .. MaxRuns
  /\ fillMaps \in Seq(Ports) /\ portsOpen \in Seq(Ports)

NativeType == began \in SUBSET Runs /\ chunks \in [Runs -> 0 .. MaxChunks]

TypeThreads ==
  /\ mode \in [Runs -> ModeSet] /\ range \in [Runs -> Nat \X Nat]
  /\ at \in [Runs -> Nat] /\ \A r \in Runs : at[r] <= Size(r)
  /\ phase \in [Runs -> PhaseSet] /\ stoppedAt \in [Runs -> Nat]

\* The range of a scan is one the user can enter, or empty.
RangesOK == \A r \in Runs : From(r) .. To(r) \subseteq Ports

Bounds == runs \in 0 .. MaxRuns /\ touches \in 0 .. MaxTouches

TypeInv == TaskType /\ TypeRest /\ NativeType /\ TypeThreads /\ Bounds
FrameInv == Phases /\ RangesOK /\ CancelIsSeen /\ StopIsPrompt

IInv == TypeInv /\ FrameInv /\ ListIsSaved

LEMMA TypesHold == TypeInv => TypeOK
BY DEF TypeInv, TypeOK, TaskType, TypeRest, NativeType, TypeThreads, Bounds, ModeSet, PhaseSet

(***************************************************************************)
(* The tasks of a scan.                                                    *)
(***************************************************************************)
LEMMA ParametersKnown ==
  /\ MaxRuns \in Nat /\ MaxTouches \in Nat /\ MaxChunks \in Nat /\ DefaultPorts \in Nat
  /\ ModeSet \subseteq Connect \cup Native /\ Modes \subseteq ModeSet /\ "TCP" \in ModeSet
  /\ FromPorts \subseteq Nat /\ ToPorts \subseteq Nat
BY ScannerAssumption DEF ModeSet, Connect, Native

LEMMA SizeKnown ==
  ASSUME TypeThreads, NEW r \in Runs
  PROVE  /\ From(r) \in Nat /\ To(r) \in Nat /\ mode[r] \in ModeSet /\ at[r] \in Nat
         /\ stoppedAt[r] \in Nat /\ Size(r) \in Nat /\ (mode[r] \in Native => Size(r) = 1)
         /\ at[r] <= Size(r)
BY DEF TypeThreads, From, To, Size

LEMMA PlanKnown ==
  ASSUME TypeThreads, RangesOK, NEW r \in Runs, NEW k \in 1 .. Size(r)
  PROVE  Plan(r, k) \in Tasks /\ Plan(r, k).run = r /\ Plan(r, k).kind # "Scanning"
<1>1. CASE mode[r] \in Native
  BY <1>1 DEF Plan, NativeScan, Probe, Tasks, Native
<1>2. CASE mode[r] \notin Native
  <2>1. mode[r] \in Connect
    BY <1>2, SizeKnown, ParametersKnown
  <2>2. From(r) + k - 1 \in From(r) .. To(r)
    BY <1>2, SizeKnown DEF Size
  <2>3. From(r) + k - 1 \in Ports
    BY <2>2 DEF RangesOK
  <2> QED
    BY <1>2, <2>1, <2>3 DEF Plan, Probe, Tasks, Connect
<1> QED
  BY <1>1, <1>2

LEMMA ThreadTask == \A r \in Runs : Thread(r) \in Tasks /\ Thread(r).run = r
                                      /\ Thread(r).kind = "Scanning"
BY DEF Thread, Tasks

(***************************************************************************)
(* Steps that leave the threads of the scans alone, or move one.           *)
(***************************************************************************)
LEMMA ThreadsStand ==
  ASSUME TypeThreads, FrameInv, UNCHANGED <<threadVars, stoppedAt, runs>>,
         cancelled' = cancelled, \A x : Pending(x)' => Pending(x)
  PROVE  (TypeThreads /\ FrameInv)'
<1>1. /\ \A r \in Runs : /\ Size(r)' = Size(r) /\ Thread(r)' = Thread(r) /\ Last(r)' = Last(r)
                         /\ From(r)' = From(r) /\ To(r)' = To(r)
      /\ at' = at /\ phase' = phase /\ stoppedAt' = stoppedAt /\ mode' = mode /\ range' = range
      /\ runs' = runs
  BY DEF threadVars, Size, Last, Plan, NativeScan, From, To, Thread
<1>2. TypeThreads'
  BY <1>1 DEF TypeThreads
<1>3. Phases' /\ CancelIsSeen' /\ RangesOK'
  BY <1>1 DEF FrameInv, Phases, CancelIsSeen, RangesOK
<1>4. StopIsPrompt'
  BY <1>1 DEF FrameInv, StopIsPrompt
<1> QED
  BY <1>2, <1>3, <1>4 DEF FrameInv

\* One thread moves, and keeps its part of the invariant; the tasks of the other
\* scans stay as they are, or end.
LEMMA ThreadMoves ==
  ASSUME TypeThreads, FrameInv, NEW r \in Runs, NEW n \in 0 .. Size(r), NEW q \in PhaseSet,
         at' = [at EXCEPT ![r] = n], phase' = [phase EXCEPT ![r] = q],
         UNCHANGED <<mode, range, stoppedAt, runs>>,
         phase[r] # "idle", q # "idle", q = "check" => n > 0,
         Thread(r) \in cancelled' =>
           /\ q = "execute" => n = stoppedAt[r] \/ mode[r] \in Native
           /\ n <= stoppedAt[r] + 1
           /\ mode[r] = "UDP" /\ q = "end" /\ stoppedAt[r] < n /\ Pending(Plan(r, n))'
                => Plan(r, n) \in cancelled',
         cancelled \subseteq cancelled',
         \A s \in Runs : s # r /\ Thread(s) \in cancelled' => Thread(s) \in cancelled,
         \A x \in Tasks : x.run # r /\ Pending(x)' => Pending(x)
  PROVE  (TypeThreads /\ FrameInv)'
<1>1. /\ at'[r] = n /\ phase'[r] = q
      /\ \A s \in Runs : s # r => at'[s] = at[s] /\ phase'[s] = phase[s]
  BY DEF TypeThreads
<1>2. \A s \in Runs : /\ Size(s)' = Size(s) /\ Thread(s)' = Thread(s)
                      /\ From(s)' = From(s) /\ To(s)' = To(s)
  BY DEF Size, Thread, From, To
<1>3. TypeThreads'
  <2>1. \A s \in Runs : at'[s] <= Size(s)'
    BY <1>1, <1>2, SizeKnown
  <2>2. at' \in [Runs -> Nat] /\ phase' \in [Runs -> PhaseSet]
    BY SizeKnown DEF TypeThreads
  <2> QED
    BY <2>1, <2>2 DEF TypeThreads
<1>4. Phases'
  <2> SUFFICES ASSUME NEW s \in Runs
               PROVE  /\ phase'[s] = "idle" <=> s > runs
                      /\ phase'[s] = "idle" => at'[s] = 0 /\ stoppedAt[s] = 0
                      /\ phase'[s] = "check" => at'[s] > 0
    BY DEF Phases
  <2>1. CASE s = r
    BY <1>1, <2>1 DEF FrameInv, Phases
  <2>2. CASE s # r
    BY <1>1, <2>2 DEF FrameInv, Phases
  <2> QED
    BY <2>1, <2>2
<1>5. CancelIsSeen' /\ RangesOK'
  BY <1>1, <1>2 DEF FrameInv, CancelIsSeen, RangesOK
<1>6. StopIsPrompt'
  <2> SUFFICES ASSUME NEW s \in Runs, Thread(s) \in cancelled'
               PROVE  /\ at'[s] <= stoppedAt[s] + 1
                      /\ /\ mode[s] = "UDP" /\ phase'[s] = "end" /\ stoppedAt[s] < at'[s]
                         /\ Pending(Last(s))'
                         => Last(s)' \in cancelled'
    BY <1>2 DEF StopIsPrompt
  <2>1. Last(s)' = Plan(s, at'[s])
    BY DEF Last, Plan, NativeScan, From
  <2>2. CASE s = r
    <3>1. Last(s)' = Plan(r, n) /\ (Pending(Last(s))' <=> Pending(Plan(r, n))')
      BY <1>1, <2>1, <2>2 DEF Last, Pending, Plan, NativeScan, From
    <3> QED
      BY <1>1, <2>2, <3>1
  <2>3. CASE s # r
    <3>1. Last(s)' = Last(s) /\ Thread(s) \in cancelled
      BY <1>1, <1>2, <2>1, <2>3 DEF Last
    <3>2. ASSUME stoppedAt[s] < at[s], Pending(Last(s))'
          PROVE  Pending(Last(s))
      <4>1. at[s] \in 1 .. Size(s)
        BY <3>2, SizeKnown
      <4>2. Last(s) \in Tasks /\ Last(s).run = s
        BY <4>1, PlanKnown DEF Last, FrameInv
      <4>3. Pending(Last(s))' => \E x \in Tasks : x = Last(s) /\ Pending(x)'
        BY <3>1, <4>2 DEF Pending
      <4> QED
        BY <2>3, <3>2, <4>2, <4>3
    <3> QED
      BY <1>1, <2>3, <3>1, <3>2 DEF FrameInv, StopIsPrompt
  <2> QED
    BY <2>2, <2>3
<1> QED
  BY <1>3, <1>4, <1>5, <1>6 DEF FrameInv

(***************************************************************************)
(* The list on the screen, and what is saved.                              *)
(***************************************************************************)
LEMMA ListCleared ==
  ASSUME portsOpen \in Seq(Ports), portsOpen' = portsOpen, fillMaps' = <<>>
  PROVE  fillMaps' \in Seq(Ports) /\ ListIsSaved'
BY DEF ListIsSaved

\* Ports are added at the end of both.
LEMMA ListExtended ==
  ASSUME TypeRest, ListIsSaved, NEW ports \in Seq(Ports),
         fillMaps' = fillMaps \o ports, portsOpen' = portsOpen \o ports
  PROVE  fillMaps' \in Seq(Ports) /\ portsOpen' \in Seq(Ports) /\ ListIsSaved'
<1> DEFINE a == Len(fillMaps)
           b == Len(portsOpen)
           c == Len(ports)
<1>1. /\ a \in Nat /\ b \in Nat /\ c \in Nat /\ a <= b
      /\ \A i \in 1 .. a : fillMaps[i] = portsOpen[b - a + i]
      /\ fillMaps \in Seq(Ports) /\ portsOpen \in Seq(Ports)
  BY DEF TypeRest, ListIsSaved
<1>2. /\ fillMaps' \in Seq(Ports) /\ Len(fillMaps') = a + c
      /\ \A i \in 1 .. a + c : fillMaps'[i] = IF i <= a THEN fillMaps[i] ELSE ports[i - a]
  BY <1>1
<1>3. /\ portsOpen' \in Seq(Ports) /\ Len(portsOpen') = b + c
      /\ \A i \in 1 .. b + c : portsOpen'[i] = IF i <= b THEN portsOpen[i] ELSE ports[i - b]
  BY <1>1
<1>4. ASSUME NEW i \in 1 .. a + c
      PROVE  fillMaps'[i] = portsOpen'[(b + c) - (a + c) + i]
  <2>1. (b + c) - (a + c) + i = b - a + i /\ b - a + i \in 1 .. b + c
    BY <1>1
  <2>2. CASE i <= a
    BY <1>1, <1>2, <1>3, <2>1, <2>2
  <2>3. CASE i > a
    <3>1. b - a + i - b = i - a /\ ~(b - a + i <= b)
      BY <1>1, <2>3
    <3> QED
      BY <1>1, <1>2, <1>3, <2>1, <2>3, <3>1
  <2> QED
    BY <1>1, <2>2, <2>3
<1> QED
  BY <1>1, <1>2, <1>3, <1>4 DEF ListIsSaved

(***************************************************************************)
(* The activity.                                                           *)
(***************************************************************************)
LEMMA PartsOfInv ==
  IInv => TaskType /\ TypeRest /\ NativeType /\ TypeThreads /\ Bounds /\ FrameInv /\ ListIsSaved
            /\ portsOpen \in Seq(Ports)
BY DEF IInv, TypeInv, TypeRest

\* Steps of the activity that hand over and cancel nothing.
LEMMA FieldsStep ==
  ASSUME IInv, UNCHANGED <<threadVars, stoppedAt, runs, nativeVars>>,
         TaskType', cancelled' = cancelled, \A x : Pending(x)' => Pending(x),
         TypeRest', ListIsSaved', Bounds'
  PROVE  IInv'
<1>1. (TypeThreads /\ FrameInv)'
  BY PartsOfInv, ThreadsStand
<1>2. NativeType'
  BY PartsOfInv DEF NativeType, nativeVars
<1> QED
  BY <1>1, <1>2 DEF IInv, TypeInv

LEMMA TasksStand ==
  ASSUME TaskType, UNCHANGED taskVars
  PROVE  TaskType' /\ cancelled' = cancelled /\ up' = up /\ \A x : Pending(x)' <=> Pending(x)
BY DEF TaskType, TasksTypeOK, taskVars, Pending, Queued

LEMMA OpenActivityStep ==
  ASSUME IInv, OpenActivity
  PROVE  IInv'
<1>1. UNCHANGED <<threadVars, stoppedAt, runs, nativeVars, taskVars, open, scannerMode, started, p,
                  scan, portsOpen>>
      /\ portsToScan' = DefaultPorts /\ fillMaps' = <<>>
  BY DEF OpenActivity
<1>2. fillMaps' \in Seq(Ports) /\ ListIsSaved'
  BY <1>1, PartsOfInv, ListCleared
<1>3. TypeRest'
  BY <1>1, <1>2, PartsOfInv, ParametersKnown DEF TypeRest
<1>4. Bounds'
  BY PartsOfInv, ParametersKnown DEF Bounds, OpenActivity
<1> QED
  BY <1>1, <1>2, <1>3, <1>4, PartsOfInv, TasksStand, FieldsStep

LEMMA SetModeStep ==
  ASSUME IInv, NEW m \in Modes, SetMode(m)
  PROVE  IInv'
<1>1. UNCHANGED <<threadVars, stoppedAt, runs, nativeVars, taskVars, open, started, p, portsToScan,
                  scan, fillMaps, portsOpen>>
      /\ scannerMode' = m
  BY DEF SetMode
<1>2. TypeRest'
  BY <1>1, PartsOfInv, ParametersKnown DEF TypeRest
<1>3. ListIsSaved'
  BY <1>1, PartsOfInv DEF ListIsSaved
<1>4. Bounds'
  <2>1. touches' = touches \/ (touches < MaxTouches /\ touches' = touches + 1)
    BY DEF SetMode
  <2> QED
    BY <1>1, <2>1, PartsOfInv, ParametersKnown DEF Bounds
<1> QED
  BY <1>1, <1>2, <1>3, <1>4, PartsOfInv, TasksStand, FieldsStep

LEMMA ResetStep ==
  ASSUME IInv, Reset
  PROVE  IInv'
<1>1. UNCHANGED <<threadVars, stoppedAt, runs, nativeVars, taskVars, scannerMode, scan, portsOpen>>
      /\ portsToScan' = 0 /\ open' = 0 /\ p' = 0 /\ started' = FALSE /\ fillMaps' = <<>>
  BY DEF Reset
<1>2. fillMaps' \in Seq(Ports) /\ ListIsSaved'
  BY <1>1, PartsOfInv, ListCleared
<1>3. TypeRest'
  <2>1. open' \in Nat /\ p' \in Nat /\ portsToScan' \in Int
    BY <1>1
  <2>2. started' \in BOOLEAN
    BY <1>1
  <2> QED
    BY <1>1, <1>2, <2>1, <2>2, PartsOfInv DEF TypeRest
<1>4. Bounds'
  BY PartsOfInv, ParametersKnown DEF Bounds, Reset
<1> QED
  BY <1>1, <1>2, <1>3, <1>4, PartsOfInv, TasksStand, FieldsStep

\* A text that is no number: the process is gone, and the fields were reset.
LEMMA StartUnreadableStep ==
  ASSUME IInv, StartUnreadable
  PROVE  IInv'
<1>1. UNCHANGED <<threadVars, stoppedAt, runs, nativeVars, scannerMode, scan, portsOpen, touches>>
      /\ portsToScan' = 0 /\ open' = 0 /\ p' = 0 /\ started' = TRUE /\ fillMaps' = <<>> /\ Dies
  BY DEF StartUnreadable
<1>2. fillMaps' \in Seq(Ports) /\ ListIsSaved'
  BY <1>1, PartsOfInv, ListCleared
<1>3. TypeRest'
  <2>1. open' \in Nat /\ p' \in Nat /\ portsToScan' \in Int
    BY <1>1
  <2>2. started' \in BOOLEAN
    BY <1>1
  <2> QED
    BY <1>1, <1>2, <2>1, <2>2, PartsOfInv DEF TypeRest
<1>4. Bounds'
  BY <1>1, PartsOfInv DEF Bounds
<1>5. TaskType' /\ cancelled' = cancelled /\ \A x : Pending(x)' => Pending(x)
  BY <1>1, PartsOfInv, DiesEffect DEF TaskType
<1> QED
  BY <1>1, <1>2, <1>3, <1>4, <1>5, FieldsStep

LEMMA StopStep ==
  ASSUME IInv, Stop
  PROVE  IInv'
<1>1. /\ UNCHANGED <<open, scannerMode, p, portsToScan, scan, fillMaps, portsOpen, threadVars,
                     nativeVars, runs, touches>>
      /\ started' = FALSE /\ up
  BY DEF Stop
<1>2. TypeRest' /\ ListIsSaved' /\ Bounds' /\ NativeType'
  <2>1. TypeRest'
    BY <1>1, PartsOfInv DEF TypeRest
  <2> QED
    BY <1>1, <2>1, PartsOfInv DEF ListIsSaved, Bounds, NativeType, nativeVars
<1>3. CASE UNCHANGED <<taskVars, stoppedAt>>
  BY <1>1, <1>2, <1>3, PartsOfInv, TasksStand, FieldsStep
<1>4. CASE Dies /\ UNCHANGED stoppedAt
  <2>1. TaskType' /\ cancelled' = cancelled /\ \A x : Pending(x)' => Pending(x)
    BY <1>4, PartsOfInv, DiesEffect DEF TaskType
  <2> QED
    BY <1>1, <1>2, <1>4, <2>1, FieldsStep
<1>5. CASE scan # 0 /\ Cancel(Thread(scan)) /\ stoppedAt' = [stoppedAt EXCEPT ![scan] = at[scan]]
  <2>1. PICK s \in Runs : s = scan
    BY <1>5, PartsOfInv, ParametersKnown DEF TypeRest, Runs
  <2>2. /\ cancelled' = CancelledWith(Thread(s)) /\ UNCHANGED <<queue, running, threads, messages, up>>
        /\ stoppedAt' = [stoppedAt EXCEPT ![s] = at[s]]
    BY <1>5, <2>1 DEF Cancel
  <2>3. /\ CancelledWith(Thread(s)) \in SUBSET Tasks /\ cancelled \subseteq CancelledWith(Thread(s))
        /\ CancelledWith(Thread(s)) \subseteq cancelled \cup {Thread(s)}
    BY PartsOfInv, CancelEffect DEF TaskType
  <2>4. TaskType'
    BY <2>2, <2>3, PartsOfInv DEF TaskType, TasksTypeOK
  <2>5. /\ \A r \in Runs : /\ Size(r)' = Size(r) /\ Thread(r)' = Thread(r) /\ Last(r)' = Last(r)
                           /\ From(r)' = From(r) /\ To(r)' = To(r)
        /\ at' = at /\ phase' = phase /\ mode' = mode /\ range' = range /\ runs' = runs
        /\ \A x : Pending(x)' <=> Pending(x)
    BY <1>1, <2>2
    DEF threadVars, Size, Last, Plan, NativeScan, From, To, Thread, Pending, Queued
  <2>6. TypeThreads'
    <3>1. stoppedAt' \in [Runs -> Nat]
      BY <2>2, PartsOfInv DEF TypeThreads
    <3> QED
      BY <2>5, <3>1, PartsOfInv DEF TypeThreads
  <2>7. \A r \in Runs : /\ r # s => /\ stoppedAt'[r] = stoppedAt[r]
                                    /\ Thread(r) \in cancelled' => Thread(r) \in cancelled
                        /\ stoppedAt'[s] = at[s] /\ at[r] \in Nat
    BY <2>2, <2>3, PartsOfInv DEF TypeThreads, Thread
  <2>8. Phases' /\ RangesOK'
    BY <2>5, <2>7, PartsOfInv DEF FrameInv, Phases, RangesOK
  <2>9. CancelIsSeen' /\ StopIsPrompt'
    BY <2>2, <2>3, <2>5, <2>7, PartsOfInv DEF FrameInv, CancelIsSeen, StopIsPrompt
  <2> QED
    BY <1>2, <2>4, <2>6, <2>8, <2>9 DEF IInv, TypeInv, FrameInv
<1> QED
  BY <1>3, <1>4, <1>5 DEF Stop

LEMMA StartStep ==
  ASSUME IInv, NEW f \in FromPorts, NEW t \in ToPorts, Start(f, t)
  PROVE  IInv'
<1>1. PICK r0 \in Runs : r0 = runs + 1 /\ r0 \in 0 .. MaxRuns /\ runs \in Nat
  BY PartsOfInv, ParametersKnown DEF Bounds, Runs, Start
<1>2. /\ runs' = r0 /\ scan' = r0 /\ open' = 0 /\ p' = 0 /\ fillMaps' = <<>> /\ started' = TRUE
      /\ portsToScan' = t - f + 1
      /\ mode' = [mode EXCEPT ![r0] = scannerMode] /\ range' = [range EXCEPT ![r0] = <<f, t>>]
      /\ phase' = [phase EXCEPT ![r0] = "execute"] /\ Execute(Thread(r0))
      /\ UNCHANGED <<scannerMode, portsOpen, at, nativeVars, touches, stoppedAt>>
  BY <1>1 DEF Start
<1>3. fillMaps' \in Seq(Ports) /\ ListIsSaved'
  BY <1>2, PartsOfInv, ListCleared
<1>4. TypeRest' /\ Bounds' /\ NativeType'
  <2>1. open' \in Nat /\ p' \in Nat /\ portsToScan' \in Int /\ scan' \in 0 .. MaxRuns
    BY <1>1, <1>2, ParametersKnown
  <2>2. started' \in BOOLEAN
    BY <1>2
  <2>3. TypeRest'
    BY <1>2, <1>3, <2>1, <2>2, PartsOfInv DEF TypeRest
  <2> QED
    BY <1>1, <1>2, <2>3, PartsOfInv DEF Bounds, NativeType, nativeVars
<1>5. TaskType' /\ cancelled' = cancelled /\ \A x : Pending(x)' => Pending(x) \/ x = Thread(r0)
  <2>1. CASE Accept(Thread(r0))
    <3>1. Thread(r0) \in Tasks
      BY ThreadTask
    <3> QED
      BY <2>1, <3>1, PartsOfInv, AcceptEffect DEF TaskType
  <2>2. CASE Dies
    BY <2>2, PartsOfInv, DiesEffect DEF TaskType
  <2> QED
    BY <1>2, <2>1, <2>2 DEF Execute
<1>6. /\ phase[r0] = "idle" /\ at[r0] = 0 /\ stoppedAt[r0] = 0 /\ phase'[r0] = "execute"
      /\ mode'[r0] = scannerMode /\ range'[r0] = <<f, t>> /\ f \in Nat /\ t \in Nat
      /\ at' = at /\ stoppedAt' = stoppedAt
  BY <1>1, <1>2, PartsOfInv, ParametersKnown DEF FrameInv, Phases, TypeThreads
<1>7. \A r \in Runs : r # r0 => /\ mode'[r] = mode[r] /\ range'[r] = range[r]
                                /\ phase'[r] = phase[r]
  BY <1>2, PartsOfInv DEF TypeThreads
<1>8. \A r \in Runs : Thread(r)' = Thread(r)
                      /\ (r # r0 => /\ Size(r)' = Size(r) /\ Last(r)' = Last(r)
                                    /\ From(r)' = From(r) /\ To(r)' = To(r))
  BY <1>6, <1>7 DEF Size, Last, Plan, NativeScan, Thread, From, To
<1>9. From(r0)' = f /\ To(r0)' = t /\ Size(r0)' \in Nat
  <2>1. From(r0)' = f /\ To(r0)' = t
    BY <1>6 DEF From, To
  <2>2. Size(r0)' = IF mode'[r0] \in Native THEN 1 ELSE IF f <= t THEN t - f + 1 ELSE 0
    BY <2>1 DEF Size
  <2> QED
    BY <1>6, <2>1, <2>2
<1>10. TypeThreads'
  <2>1. \A r \in Runs : at'[r] <= Size(r)'
    <3> TAKE r \in Runs
    <3>1. CASE r = r0
      BY <1>6, <1>9, <3>1
    <3>2. CASE r # r0
      BY <1>6, <1>8, <3>2, PartsOfInv, SizeKnown
    <3> QED
      BY <3>1, <3>2
  <2>2. mode' \in [Runs -> ModeSet] /\ phase' \in [Runs -> PhaseSet]
    BY <1>2, PartsOfInv DEF TypeThreads, TypeRest, PhaseSet
  <2>3. range' \in [Runs -> Nat \X Nat]
    BY <1>2, <1>6, PartsOfInv DEF TypeThreads
  <2>4. at' \in [Runs -> Nat] /\ stoppedAt' \in [Runs -> Nat]
    BY <1>6, PartsOfInv DEF TypeThreads
  <2> QED
    BY <2>1, <2>2, <2>3, <2>4 DEF TypeThreads
<1>11. RangesOK'
  <2>1. f .. t \subseteq Ports
    BY DEF Ports
  <2>2. \A r \in Runs : From(r)' .. To(r)' \subseteq Ports
    BY <1>8, <1>9, <2>1, PartsOfInv DEF FrameInv, RangesOK
  <2> QED
    BY <2>2 DEF RangesOK
<1>12. Phases'
  <2> SUFFICES ASSUME NEW r \in Runs
               PROVE  /\ phase'[r] = "idle" <=> r > r0
                      /\ phase'[r] = "idle" => at[r] = 0 /\ stoppedAt[r] = 0
                      /\ phase'[r] = "check" => at[r] > 0
    BY <1>2, <1>6 DEF Phases
  <2>1. CASE r = r0
    BY <1>1, <1>6, <2>1
  <2>2. CASE r # r0
    <3>1. phase'[r] = phase[r] /\ (r > r0 <=> r > runs)
      BY <1>1, <1>7, <2>2 DEF Runs
    <3> QED
      BY <3>1, PartsOfInv DEF FrameInv, Phases
  <2> QED
    BY <2>1, <2>2
<1>13. CancelIsSeen'
  BY <1>5, <1>6, <1>7, <1>8, PartsOfInv DEF FrameInv, CancelIsSeen
<1>14. StopIsPrompt'
  <2> SUFFICES ASSUME NEW r \in Runs, Thread(r) \in cancelled
               PROVE  /\ at[r] <= stoppedAt[r] + 1
                      /\ mode'[r] = "UDP" /\ phase'[r] = "end" /\ stoppedAt[r] < at[r]
                           /\ Pending(Last(r))' => Last(r)' \in cancelled
    BY <1>5, <1>6, <1>8 DEF StopIsPrompt
  <2>1. CASE r = r0
    BY <1>6, <2>1
  <2>2. CASE r # r0
    <3>1. Last(r)' = Last(r) /\ mode'[r] = mode[r] /\ phase'[r] = phase[r]
      BY <1>7, <1>8, <2>2
    <3>2. ASSUME stoppedAt[r] < at[r], Pending(Last(r))'
          PROVE  Pending(Last(r))
      <4>1. at[r] \in 1 .. Size(r)
        BY <3>2, PartsOfInv, SizeKnown
      <4>2. Last(r).kind # "Scanning"
        BY <4>1, PartsOfInv, PlanKnown DEF Last, FrameInv
      <4>3. Last(r) # Thread(r0)
        BY <4>2, ThreadTask
      <4> QED
        BY <1>5, <3>1, <3>2, <4>3
    <3> QED
      BY <3>1, <3>2, PartsOfInv DEF FrameInv, StopIsPrompt
  <2> QED
    BY <2>1, <2>2
<1> QED
  BY <1>3, <1>4, <1>5, <1>10, <1>11, <1>12, <1>13, <1>14 DEF IInv, TypeInv, FrameInv

(***************************************************************************)
(* The thread of a scan.                                                   *)
(***************************************************************************)
LEMMA ScanThreadKnown ==
  ASSUME IInv, NEW r \in Runs
  PROVE  /\ at[r] \in 0 .. Size(r) /\ at[r] \in Nat /\ Size(r) \in Nat
         /\ at = [at EXCEPT ![r] = at[r]] /\ stoppedAt[r] \in Nat
         /\ (mode[r] \in Native => at[r] <= 1)
<1>1. at = [at EXCEPT ![r] = at[r]]
  BY PartsOfInv DEF TypeThreads
<1> QED
  BY <1>1, PartsOfInv, SizeKnown

\* The thread moves, and the fields of the activity stand still.
LEMMA ThreadStep ==
  ASSUME IInv, TaskType', (TypeThreads /\ FrameInv)',
         UNCHANGED <<fields, nativeVars, runs, touches>>
  PROVE  IInv'
<1>1. TypeRest' /\ NativeType' /\ Bounds'
  BY PartsOfInv DEF TypeRest, NativeType, Bounds, fields, nativeVars
<1>2. ListIsSaved'
  BY PartsOfInv DEF ListIsSaved, fields
<1> QED
  BY <1>1, <1>2 DEF IInv, TypeInv

LEMMA ExecuteNextStep ==
  ASSUME IInv, NEW r \in Runs, ExecuteNext(r)
  PROVE  IInv'
<1>1. /\ phase[r] = "execute" /\ at[r] < Size(r)
      /\ UNCHANGED <<fields, mode, range, nativeVars, runs, touches, stoppedAt>>
  BY DEF ExecuteNext, Active
<1>2. /\ at[r] + 1 \in 1 .. Size(r) /\ at[r] + 1 \in 0 .. Size(r) /\ at[r] + 1 > 0
      /\ (mode[r] \in Native => at[r] + 1 <= stoppedAt[r] + 1)
      /\ (Thread(r) \in cancelled => at[r] = stoppedAt[r] \/ mode[r] \in Native)
  <2>1. mode[r] \in Native => at[r] = 0
    BY <1>1, ScanThreadKnown, PartsOfInv, SizeKnown
  <2> QED
    BY <1>1, <2>1, ScanThreadKnown, PartsOfInv DEF FrameInv, CancelIsSeen
<1>3. CASE /\ Accept(Plan(r, at[r] + 1)) /\ at' = [at EXCEPT ![r] = @ + 1]
           /\ phase' = [phase EXCEPT ![r] = IF mode[r] \in Native THEN "execute" ELSE "check"]
  <2>1. Plan(r, at[r] + 1) \in Tasks /\ Plan(r, at[r] + 1).run = r
    BY <1>2, PartsOfInv, PlanKnown DEF FrameInv
  <2>2. /\ TaskType' /\ cancelled' = cancelled
        /\ \A x : Pending(x)' <=> Pending(x) \/ x = Plan(r, at[r] + 1)
    BY <1>3, <2>1, PartsOfInv, AcceptEffect DEF TaskType
  <2>3. PICK q \in PhaseSet : /\ q = IF mode[r] \in Native THEN "execute" ELSE "check"
                              /\ phase' = [phase EXCEPT ![r] = q]
    BY <1>3 DEF PhaseSet
  <2>4. at' = [at EXCEPT ![r] = at[r] + 1]
    BY <1>3
  <2>5. \A x \in Tasks : x.run # r /\ Pending(x)' => Pending(x)
    BY <2>1, <2>2
  <2>6. Thread(r) \in cancelled' => /\ at[r] + 1 <= stoppedAt[r] + 1
                                    /\ q = "execute" => mode[r] \in Native
    BY <1>2, <2>2, <2>3, ScanThreadKnown DEF Thread
  <2>7. (TypeThreads /\ FrameInv)'
    BY <1>1, <1>2, <2>2, <2>3, <2>4, <2>5, <2>6, PartsOfInv, ThreadMoves DEF Thread
  <2> QED
    BY <1>1, <2>2, <2>7, ThreadStep
<1>4. CASE /\ Full /\ Throws(Thread(r)) /\ phase' = [phase EXCEPT ![r] = "end"] /\ UNCHANGED at
  <2>1. /\ TaskType' /\ cancelled' = cancelled /\ \A x : Pending(x)' => Pending(x)
    <3>1. CASE ReturnSilently(Thread(r))
      BY <3>1, PartsOfInv, ReturnSilentlyEffect DEF TaskType
    <3>2. CASE Dies
      BY <3>2, PartsOfInv, DiesEffect DEF TaskType
    <3> QED
      BY <1>4, <3>1, <3>2 DEF Throws
  <2>2. Thread(r) \in cancelled' => at[r] <= stoppedAt[r] + 1
                                    /\ ~(mode[r] = "UDP" /\ stoppedAt[r] < at[r])
    BY <1>2, <2>1, ScanThreadKnown DEF Thread, Native
  <2>3. at' = [at EXCEPT ![r] = at[r]] /\ "end" \in PhaseSet
    BY <1>4, ScanThreadKnown DEF PhaseSet
  <2>4. (TypeThreads /\ FrameInv)'
    BY <1>1, <1>4, <2>1, <2>2, <2>3, ScanThreadKnown, PartsOfInv, ThreadMoves DEF Thread
  <2> QED
    BY <1>1, <2>1, <2>4, ThreadStep
<1> QED
  BY <1>3, <1>4 DEF ExecuteNext

LEMMA CheckCancelledStep ==
  ASSUME IInv, NEW r \in Runs, CheckCancelled(r)
  PROVE  IInv'
<1>1. /\ phase[r] = "check" /\ at[r] > 0 /\ at' = [at EXCEPT ![r] = at[r]]
      /\ UNCHANGED <<fields, mode, range, nativeVars, runs, touches, stoppedAt>>
  BY ScanThreadKnown, PartsOfInv DEF CheckCancelled, Active, FrameInv, Phases
<1>2. at[r] \in 1 .. Size(r) /\ (Thread(r) \in cancelled => at[r] <= stoppedAt[r] + 1)
      /\ PhaseSet = {"idle", "execute", "check", "end"}
  BY <1>1, ScanThreadKnown, PartsOfInv DEF FrameInv, StopIsPrompt, PhaseSet
<1>3. CASE Thread(r) \notin cancelled /\ phase' = [phase EXCEPT ![r] = "execute"] /\ UNCHANGED taskVars
  <2>1. TaskType' /\ cancelled' = cancelled /\ \A x : Pending(x)' <=> Pending(x)
    BY <1>3, PartsOfInv, TasksStand
  <2>2. Thread(r) \notin cancelled'
    BY <1>3, <2>1 DEF Thread
  <2>3. (TypeThreads /\ FrameInv)'
    BY <1>1, <1>2, <1>3, <2>1, <2>2, ScanThreadKnown, PartsOfInv, ThreadMoves DEF Thread
  <2> QED
    BY <1>1, <2>1, <2>3, ThreadStep
<1>4. CASE /\ Thread(r) \in cancelled
           /\ cancelled' = IF mode[r] = "UDP" THEN CancelledWith(Last(r)) ELSE cancelled
           /\ running' = running \ {Thread(r)} /\ phase' = [phase EXCEPT ![r] = "end"]
           /\ UNCHANGED <<queue, threads, messages, up>>
  <2>1. Last(r) \in Tasks /\ Last(r).kind # "Scanning" /\ Last(r) = Plan(r, at[r])
    BY <1>2, PartsOfInv, PlanKnown DEF Last, FrameInv
  <2>2. /\ CancelledWith(Last(r)) \in SUBSET Tasks /\ cancelled \subseteq CancelledWith(Last(r))
        /\ CancelledWith(Last(r)) \subseteq cancelled \cup {Last(r)}
        /\ Pending(Last(r)) => Last(r) \in CancelledWith(Last(r))
    BY PartsOfInv, CancelEffect DEF TaskType
  <2>3. TaskType' /\ \A x : Pending(x)' => Pending(x)
    BY <1>4, <2>2, PartsOfInv DEF TaskType, TasksTypeOK, Pending, Queued
  <2>4. cancelled \subseteq cancelled' /\ cancelled' \subseteq cancelled \cup {Last(r)}
    BY <1>4, <2>2
  <2>5. \A s \in Runs : Thread(s) \in cancelled' => Thread(s) \in cancelled
    BY <2>1, <2>4, ThreadTask
  <2>6. PICK n \in 1 .. Size(r) : n = at[r]
    BY <1>2
  <2>7. Plan(r, n)' = Plan(r, n) /\ (Pending(Plan(r, n))' => Pending(Plan(r, n)))
        /\ Plan(r, n) = Last(r)
    BY <1>1, <2>1, <2>3, <2>6 DEF Pending, Plan, NativeScan, From
  <2>8. /\ mode[r] = "UDP" /\ Pending(Plan(r, n))' => Plan(r, n) \in cancelled'
        /\ n <= stoppedAt[r] + 1 /\ n \in 0 .. Size(r) /\ at' = [at EXCEPT ![r] = n]
    BY <1>1, <1>2, <1>4, <2>2, <2>6, <2>7
  <2>9. \A x \in Tasks : x.run # r /\ Pending(x)' => Pending(x)
    BY <2>3
  <2>10. (TypeThreads /\ FrameInv)'
    BY <1>1, <1>2, <1>4, <2>4, <2>5, <2>8, <2>9, PartsOfInv, ThreadMoves
  <2> QED
    BY <1>1, <2>3, <2>10, ThreadStep
<1> QED
  BY <1>3, <1>4 DEF CheckCancelled

LEMMA ThreadReturnsStep ==
  ASSUME IInv, NEW r \in Runs, ThreadReturns(r)
  PROVE  IInv'
<1>1. /\ phase[r] = "execute" /\ ReturnSilently(Thread(r)) /\ phase' = [phase EXCEPT ![r] = "end"]
      /\ at' = [at EXCEPT ![r] = at[r]] /\ "end" \in PhaseSet
      /\ UNCHANGED <<fields, mode, range, nativeVars, runs, touches, stoppedAt>>
  BY ScanThreadKnown DEF ThreadReturns, Active, PhaseSet
<1>2. TaskType' /\ cancelled' = cancelled /\ \A x : Pending(x)' => Pending(x)
  BY <1>1, PartsOfInv, ReturnSilentlyEffect DEF TaskType
<1>3. Thread(r) \in cancelled => at[r] = stoppedAt[r] \/ mode[r] \in Native
  BY <1>1, PartsOfInv DEF FrameInv, CancelIsSeen
<1>4. Thread(r) \in cancelled' => at[r] <= stoppedAt[r] + 1
                                  /\ ~(mode[r] = "UDP" /\ stoppedAt[r] < at[r])
  BY <1>2, <1>3, ScanThreadKnown DEF Thread, Native
<1>5. (TypeThreads /\ FrameInv)'
  BY <1>1, <1>2, <1>4, ScanThreadKnown, PartsOfInv, ThreadMoves DEF Thread
<1> QED
  BY <1>1, <1>2, <1>5, ThreadStep

(***************************************************************************)
(* The tasks, the main thread, and the threads of the pool.                *)
(***************************************************************************)
\* A connect task answers, or its port is none and the process dies.
LEMMA ConnectEndsHow ==
  ASSUME NEW t \in running, ConnectEnds(t)
  PROVE  \/ \E about \in {"open", "closed"} : Return(t, Note(about, t.kind, <<t.port>>))
         \/ Throws(t)
BY DEF ConnectEnds

LEMMA ConnectEndsStep ==
  ASSUME IInv, NEW t \in running, ConnectEnds(t)
  PROVE  IInv'
<1>1. UNCHANGED <<fields, threadVars, nativeVars, runs, touches, stoppedAt>>
  BY DEF ConnectEnds
<1>2. TaskType' /\ cancelled' = cancelled /\ \A x : Pending(x)' => Pending(x)
  <2>1. CASE \E about \in {"open", "closed"} : Return(t, Note(about, t.kind, <<t.port>>))
    <3>1. PICK about \in {"open", "closed"} : Return(t, Note(about, t.kind, <<t.port>>))
      BY <2>1
    <3>2. t \in Tasks /\ t.kind \in Connect
      BY PartsOfInv DEF ConnectEnds, TaskType, TasksTypeOK
    <3>3. t.port \in Ports
      BY <3>2 DEF Tasks, Connect, Native
    <3>4. Note(about, t.kind, <<t.port>>) \in Messages
      BY <3>2, <3>3 DEF Note, Messages
    <3> QED
      BY <3>1, <3>4, PartsOfInv, ReturnEffect DEF TaskType
  <2>2. CASE Throws(t)
    BY <2>2, PartsOfInv, DiesEffect, ReturnSilentlyEffect DEF Throws, TaskType
  <2> QED
    BY <2>1, <2>2, ConnectEndsHow
<1>3. (TypeThreads /\ FrameInv)'
  BY <1>1, <1>2, PartsOfInv, ThreadsStand
<1> QED
  BY <1>1, <1>2, <1>3, ThreadStep

LEMMA NativeTaskStep ==
  ASSUME IInv, NEW r \in Runs, NativeTask(r)
  PROVE  IInv'
<1>1. CASE NativeBegins(r)
  <2>1. /\ UNCHANGED <<taskVars, open, scannerMode, p, portsToScan, scan, fillMaps, portsOpen,
                       threadVars, chunks, runs, touches, stoppedAt>>
        /\ started' = TRUE /\ began' = began \cup {r}
    BY <1>1 DEF NativeBegins
  <2>2. TaskType' /\ cancelled' = cancelled /\ \A x : Pending(x)' => Pending(x)
    BY <2>1, PartsOfInv, TasksStand
  <2>3. (TypeThreads /\ FrameInv)'
    BY <2>1, <2>2, PartsOfInv, ThreadsStand
  <2>4. TypeRest' /\ ListIsSaved' /\ NativeType' /\ Bounds'
    <3>1. TypeRest'
      BY <2>1, PartsOfInv DEF TypeRest
    <3>2. ListIsSaved'
      BY <2>1, PartsOfInv DEF ListIsSaved
    <3> QED
      BY <2>1, <3>1, <3>2, PartsOfInv DEF NativeType, Bounds
  <2> QED
    BY <2>2, <2>3, <2>4 DEF IInv, TypeInv
<1>2. CASE NativePrints(r)
  <2>1. UNCHANGED <<fields, threadVars, began, runs, touches, stoppedAt>>
        /\ chunks[r] < MaxChunks /\ chunks' = [chunks EXCEPT ![r] = @ + 1]
    BY <1>2 DEF NativePrints
  <2>2. r \in began /\ NativeScan(r) \in running
    BY <1>2 DEF NativePrints
  <2>3. mode[r] \in Connect \cup Native
    BY PartsOfInv, SizeKnown, ParametersKnown
  <2>4. PICK m \in Messages : Publish(m)
    <3>1. CASE \E about \in {"down", "cut"} : Publish(Note(about, mode[r], <<>>))
      <4>1. \A about \in {"down", "cut"} : Note(about, mode[r], <<>>) \in Messages
        BY <2>3 DEF Note, Messages
      <4> QED
        BY <3>1, <4>1
    <3>2. CASE \E ports \in Lists(From(r) .. To(r)) : Publish(Note("report", mode[r], ports))
      <4>1. PICK ports \in Lists(From(r) .. To(r)) : Publish(Note("report", mode[r], ports))
        BY <3>2
      <4>2. PICK n \in Nat : ports \in [1 .. n -> From(r) .. To(r)]
        <5>1. PICK n \in 0 .. Cardinality(From(r) .. To(r)) : ports \in [1 .. n -> From(r) .. To(r)]
          BY <4>1 DEF Lists
        <5> QED
          BY <5>1
      <4>3. ports \in [1 .. n -> Ports]
        BY <4>2, PartsOfInv DEF FrameInv, RangesOK
      <4>4. ports \in Seq(Ports)
        BY <4>3
      <4>5. Note("report", mode[r], ports) \in Messages
        BY <2>3, <4>4 DEF Note, Messages
      <4> QED
        BY <4>1, <4>5
    <3> QED
      BY <1>2, <3>1, <3>2 DEF NativePrints
  <2>5. TaskType' /\ cancelled' = cancelled /\ \A x : Pending(x)' => Pending(x)
    BY <2>4, PartsOfInv, PublishEffect DEF TaskType
  <2>6. (TypeThreads /\ FrameInv)'
    BY <2>1, <2>5, PartsOfInv, ThreadsStand
  <2>7. NativeType'
    BY <2>1, PartsOfInv, ParametersKnown DEF NativeType
  <2>8. TypeRest' /\ ListIsSaved' /\ Bounds'
    BY <2>1, PartsOfInv DEF TypeRest, ListIsSaved, Bounds, fields
  <2> QED
    BY <2>5, <2>6, <2>7, <2>8 DEF IInv, TypeInv
<1>3. CASE NativeEnds(r)
  <2>1. Return(NativeScan(r), Note("ended", mode[r], <<>>))
        /\ UNCHANGED <<fields, threadVars, nativeVars, runs, touches, stoppedAt>>
    BY <1>3 DEF NativeEnds
  <2>2. mode[r] \in Connect \cup Native
    BY PartsOfInv, SizeKnown, ParametersKnown
  <2>3. Note("ended", mode[r], <<>>) \in Messages
    BY <2>2 DEF Note, Messages
  <2>4. TaskType' /\ cancelled' = cancelled /\ \A x : Pending(x)' => Pending(x)
    BY <2>1, <2>3, PartsOfInv, ReturnEffect DEF TaskType
  <2>5. (TypeThreads /\ FrameInv)'
    BY <2>1, <2>4, PartsOfInv, ThreadsStand
  <2> QED
    BY <2>1, <2>4, <2>5, ThreadStep
<1> QED
  BY <1>1, <1>2, <1>3 DEF NativeTask

LEMMA MainLooperStep ==
  ASSUME IInv, MainLooper
  PROVE  IInv'
<1>1. UNCHANGED <<threadVars, nativeVars, stoppedAt, runs, touches>>
  BY DEF MainLooper, Closed, AddToList, ScanOver, CutLine
<1>2. Bounds'
  BY <1>1, PartsOfInv DEF Bounds
<1>3. ASSUME Handled, messages # <<>>
      PROVE  TaskType' /\ cancelled' = cancelled /\ \A x : Pending(x)' => Pending(x)
  BY <1>3, PartsOfInv DEF Handled, TaskType, TasksTypeOK, Pending, Queued
<1>4. ASSUME Handled, messages # <<>>, UNCHANGED <<open, scannerMode, portsToScan, scan, fillMaps, portsOpen>>,
             p' \in {p, p + 1}, started' \in BOOLEAN
      PROVE  IInv'
  <2>1. p' \in Nat
    BY <1>4, PartsOfInv DEF TypeRest
  <2>2. TypeRest'
    BY <1>4, <2>1, PartsOfInv DEF TypeRest
  <2>3. ListIsSaved'
    BY <1>4, PartsOfInv DEF ListIsSaved
  <2> QED
    BY <1>1, <1>2, <1>3, <1>4, <2>2, <2>3, FieldsStep
<1>5. started \in BOOLEAN
  BY PartsOfInv DEF TypeRest
<1>6. CASE Closed
  <2>1. started' \in BOOLEAN
    BY <1>5, <1>6 DEF Closed
  <2> QED
    BY <1>4, <1>6, <2>1 DEF Closed, Posted
<1>7. CASE ScanOver
  <2>1. started' \in BOOLEAN
    BY <1>5, <1>7 DEF ScanOver
  <2> QED
    BY <1>4, <1>7, <2>1 DEF ScanOver, Posted
<1>8. CASE AddToList
  <2>1. /\ Handled /\ messages # <<>> /\ UNCHANGED <<scannerMode, started, p, portsToScan, scan>>
        /\ fillMaps' = fillMaps \o Head(messages).ports
        /\ portsOpen' = portsOpen \o Head(messages).ports
        /\ open' = open + Len(Head(messages).ports)
    BY <1>8 DEF AddToList, Posted
  <2>2. Head(messages) \in Messages
    BY <2>1, PartsOfInv DEF TaskType, TasksTypeOK
  <2>3. PICK ports \in Seq(Ports) : ports = Head(messages).ports
    BY <2>2 DEF Messages
  <2>4. fillMaps' \in Seq(Ports) /\ portsOpen' \in Seq(Ports) /\ ListIsSaved'
    BY <2>1, <2>3, PartsOfInv, ListExtended
  <2>5. open' \in Nat
    BY <2>1, <2>3, PartsOfInv DEF TypeRest
  <2>6. TypeRest'
    BY <2>1, <2>4, <2>5, PartsOfInv DEF TypeRest
  <2> QED
    BY <1>1, <1>2, <1>3, <2>1, <2>4, <2>6, FieldsStep
<1>9. CASE CutLine
  <2>1. Dies /\ UNCHANGED fields
    BY <1>9 DEF CutLine
  <2>2. TaskType' /\ cancelled' = cancelled /\ \A x : Pending(x)' => Pending(x)
    BY <2>1, PartsOfInv, DiesEffect DEF TaskType
  <2>3. TypeRest' /\ ListIsSaved'
    BY <2>1, PartsOfInv DEF TypeRest, ListIsSaved, fields
  <2> QED
    BY <1>1, <1>2, <2>2, <2>3, FieldsStep
<1> QED
  BY <1>6, <1>7, <1>8, <1>9 DEF MainLooper

LEMMA PoolThreadsStep ==
  ASSUME IInv, PoolThreads
  PROVE  IInv'
<1>1. UNCHANGED <<fields, threadVars, nativeVars, runs, touches, stoppedAt>> /\ Pool
  BY DEF PoolThreads
<1>2. TaskType' /\ cancelled' = cancelled /\ \A x : Pending(x)' => Pending(x)
  BY <1>1, PartsOfInv, PoolEffect DEF TaskType
<1>3. (TypeThreads /\ FrameInv)'
  BY <1>1, <1>2, PartsOfInv, ThreadsStand
<1> QED
  BY <1>1, <1>2, <1>3, ThreadStep

LEMMA StutterStep ==
  ASSUME IInv, UNCHANGED vars
  PROVE  IInv'
<1>1. UNCHANGED <<taskVars, fields, threadVars, nativeVars, runs, touches, stoppedAt>>
  BY DEF vars
<1>2. TaskType' /\ cancelled' = cancelled /\ \A x : Pending(x)' => Pending(x)
  BY <1>1, PartsOfInv, TasksStand
<1>3. (TypeThreads /\ FrameInv)'
  BY <1>1, <1>2, PartsOfInv, ThreadsStand
<1> QED
  BY <1>1, <1>2, <1>3, ThreadStep

(***************************************************************************)
(* The theorems.                                                           *)
(***************************************************************************)
LEMMA InitHolds == Init => IInv
<1> SUFFICES ASSUME Init PROVE IInv
  OBVIOUS
<1>1. TaskType /\ Bounds /\ NativeType
  BY PoolAssumption, ParametersKnown
  DEF Init, TasksInit, TaskType, TasksTypeOK, Bounds, NativeType
<1>2. TypeRest
  <2>1. open \in Nat /\ p \in Nat /\ portsToScan \in Int /\ scan \in 0 .. MaxRuns
    BY ParametersKnown DEF Init
  <2>2. fillMaps \in Seq(Ports) /\ portsOpen \in Seq(Ports)
    BY DEF Init
  <2> QED
    BY <2>1, <2>2, ParametersKnown DEF Init, TypeRest
<1>3. \A r \in Runs : From(r) = 1 /\ To(r) = 0 /\ Size(r) = 0 /\ mode[r] = "TCP" /\ at[r] = 0
  BY DEF Init, From, To, Size, Native
<1>4. TypeThreads
  BY <1>3, ParametersKnown DEF Init, TypeThreads, PhaseSet
<1>5. Phases /\ RangesOK /\ CancelIsSeen /\ StopIsPrompt
  BY <1>3, ParametersKnown DEF Init, TasksInit, Phases, RangesOK, CancelIsSeen, StopIsPrompt, Runs
<1>6. ListIsSaved
  BY DEF Init, ListIsSaved
<1> QED
  BY <1>1, <1>2, <1>4, <1>5, <1>6 DEF IInv, TypeInv, FrameInv

LEMMA NextKeepsInv == IInv /\ [Next]_vars => IInv'
<1> SUFFICES ASSUME IInv, [Next]_vars PROVE IInv'
  OBVIOUS
<1>1. CASE User
  BY <1>1, OpenActivityStep, SetModeStep, StartStep, StartUnreadableStep, StopStep, ResetStep DEF User
<1>2. ASSUME NEW r \in Runs, ScanThread(r) \/ NativeTask(r) PROVE IInv'
  BY <1>2, ExecuteNextStep, CheckCancelledStep, ThreadReturnsStep, NativeTaskStep DEF ScanThread
<1>3. ASSUME NEW t \in running, ConnectEnds(t) PROVE IInv'
  BY <1>3, ConnectEndsStep
<1>4. CASE MainLooper \/ PoolThreads \/ UNCHANGED vars
  BY <1>4, MainLooperStep, PoolThreadsStep, StutterStep
<1> QED
  BY <1>1, <1>2, <1>3, <1>4 DEF Next

LEMMA Invariance == Spec => []IInv
BY InitHolds, NextKeepsInv, PTL DEF Spec

\* The static fields, the pool and the threads of the scans keep their types.
THEOREM ScannerTypes == Spec => []TypeOK
<1>1. IInv => TypeOK
  BY TypesHold DEF IInv
<1> QED
  BY <1>1, Invariance, PTL

\* doInBackground and stop(): a cancelled scan hands over one more port at most,
\* and a UDP scan cancels it.
THEOREM ScanStopsPromptly == Spec => []StopIsPrompt
<1>1. IInv => StopIsPrompt
  BY DEF IInv, FrameInv
<1> QED
  BY <1>1, Invariance, PTL

\* addToList, reset and onCreate: no port is on the screen that saveScan would
\* leave out, for any number of scans, resets and activities.
THEOREM ListIsKept == Spec => []ListIsSaved
<1>1. IInv => ListIsSaved
  BY DEF IInv
<1> QED
  BY <1>1, Invariance, PTL

(***************************************************************************)
(* What "Done" says.                                                       *)
(***************************************************************************)

\* A task that is handed over anew is in the pool once.
LEMMA AcceptOnce ==
  ASSUME TaskType, NEW t \in Tasks, ~Pending(t), OnceInPool, Accept(t)
  PROVE  OnceInPool'
<1>1. queue \in Seq(Tasks) /\ Len(queue) \in Nat
  BY DEF TaskType, TasksTypeOK
<1>2. CASE StartThread(t)
  <2>1. queue' = queue /\ running' = running \cup {t} /\ Queued' = Queued
    BY <1>2 DEF StartThread, Queued
  <2> QED
    BY <2>1 DEF OnceInPool, Pending
<1>3. CASE queue' = Append(queue, t) /\ running' = running
  <2>1. /\ Len(queue') = Len(queue) + 1 /\ queue'[Len(queue) + 1] = t
        /\ \A i \in 1 .. Len(queue) : queue'[i] = queue[i] /\ queue[i] # t
    BY <1>1, <1>3 DEF Pending, Queued
  <2>2. Queued' = Queued \cup {t}
    BY <1>1, <1>3, QueuedAppend
  <2>3. PICK n \in Nat : n = Len(queue) /\ Len(queue') = n + 1
    BY <1>1, <2>1
  <2>4. \A i, j \in 1 .. n + 1 : queue'[i] = queue'[j] => i = j
    <3> TAKE i, j \in 1 .. n + 1
    <3>1. /\ i = n + 1 \/ i \in 1 .. n
          /\ j = n + 1 \/ j \in 1 .. n
      OBVIOUS
    <3> QED
      BY <2>1, <2>3, <3>1 DEF OnceInPool
  <2> QED
    BY <1>3, <2>2, <2>3, <2>4 DEF OnceInPool, Pending
<1> QED
  BY <1>2, <1>3 DEF Accept

\* The pool's threads take each task once.
LEMMA PoolOnce ==
  ASSUME TaskType, OnceInPool, Pool
  PROVE  OnceInPool'
<1>1. queue \in Seq(Tasks) /\ Len(queue) \in Nat
  BY DEF TaskType, TasksTypeOK
<1>2. CASE TakeTask
  <2>1. /\ queue # <<>> /\ queue' = Tail(queue) /\ Len(queue) > 0
        /\ running' = IF Head(queue) \in cancelled THEN running ELSE running \cup {Head(queue)}
    BY <1>1, <1>2 DEF TakeTask
  <2>2. PICK n \in Nat : n = Len(queue) /\ Len(queue') = n - 1 /\ n > 0
    BY <1>1, <2>1
  <2>3. \A i \in 1 .. n - 1 : queue'[i] = queue[i + 1] /\ i + 1 \in 1 .. n /\ i + 1 # 1
    BY <1>1, <2>1, <2>2
  <2>4. \A i, j \in 1 .. n - 1 : queue'[i] = queue'[j] => i = j
    <3> TAKE i, j \in 1 .. n - 1
    <3>1. queue'[i] = queue'[j] => i + 1 = j + 1
      BY <2>2, <2>3 DEF OnceInPool
    <3> QED
      BY <3>1
  <2>5. Head(queue) \notin Queued' /\ Queued' \subseteq Queued
    <3>1. Queued' = {queue'[i] : i \in 1 .. n - 1}
      BY <2>2 DEF Queued
    <3>2. Head(queue) = queue[1] /\ 1 \in 1 .. n
      BY <1>1, <2>1, <2>2
    <3>3. \A i \in 1 .. n - 1 : queue'[i] # queue[1]
      BY <2>2, <2>3, <3>2 DEF OnceInPool
    <3> QED
      BY <1>1, <2>1, <3>1, <3>2, <3>3, QueuedTail
  <2> QED
    BY <2>1, <2>2, <2>4, <2>5 DEF OnceInPool
<1>3. CASE ThreadExits
  BY <1>3 DEF ThreadExits, OnceInPool, Queued
<1> QED
  BY <1>2, <1>3 DEF Pool

\* A task that ends leaves the pool.
LEMMA EndOnce ==
  ASSUME OnceInPool, NEW t, running' = running \ {t}, queue' = queue
  PROVE  /\ OnceInPool' /\ \A x : Pending(x)' => Pending(x)
         /\ t \in running => ~Pending(t)'
<1>1. Queued' = Queued
  BY DEF Queued
<1> QED
  BY <1>1 DEF OnceInPool, Pending

\* The tasks of the first scan differ from its thread and from each other.
LEMMA FirstTasks ==
  ASSUME IInv
  PROVE  /\ 1 \in Runs /\ Thread(1) \in Tasks
         /\ at[1] \in Nat /\ Size(1) \in Nat /\ at[1] <= Size(1)
         /\ mode[1] \in Connect \cup Native
         /\ \A i \in 1 .. Size(1) : /\ Plan(1, i) \in Tasks /\ Plan(1, i).run = 1
                                    /\ Plan(1, i).kind = mode[1]
                                    /\ \A r \in Runs : Plan(1, i) # Thread(r)
         /\ \A i, j \in 1 .. Size(1) : Plan(1, i) = Plan(1, j) => i = j
<1>1. 1 \in Runs
  BY ScannerAssumption DEF Runs
<1>2. mode[1] \in Connect \cup Native /\ From(1) \in Nat /\ To(1) \in Nat /\ Size(1) \in Nat
      /\ at[1] \in Nat /\ at[1] <= Size(1)
  BY <1>1, PartsOfInv, SizeKnown, ParametersKnown
<1>3. ASSUME NEW i \in 1 .. Size(1)
      PROVE  /\ Plan(1, i) \in Tasks /\ Plan(1, i).run = 1 /\ Plan(1, i).kind = mode[1]
             /\ \A r \in Runs : Plan(1, i) # Thread(r)
  <2>1. Plan(1, i) \in Tasks /\ Plan(1, i).run = 1 /\ Plan(1, i).kind # "Scanning"
    BY <1>1, PartsOfInv, PlanKnown DEF FrameInv
  <2>2. Plan(1, i).kind = mode[1]
    BY DEF Plan, NativeScan, Probe
  <2> QED
    BY <2>1, <2>2, ThreadTask
<1>4. ASSUME NEW i \in 1 .. Size(1), NEW j \in 1 .. Size(1), Plan(1, i) = Plan(1, j)
      PROVE  i = j
  <2>1. CASE mode[1] \in Native
    BY <2>1, <1>2 DEF Size
  <2>2. CASE mode[1] \notin Native
    <3>1. From(1) + i - 1 = From(1) + j - 1
      BY <1>4, <2>2 DEF Plan, Probe
    <3> QED
      BY <1>2, <3>1
  <2> QED
    BY <2>1, <2>2
<1> QED
  BY <1>1, <1>2, <1>3, <1>4, ThreadTask

\* The tasks that answered, as a number.
LEMMA AnsweredFacts ==
  ASSUME IInv
  PROVE  /\ Answered \subseteq 1 .. at[1] /\ IsFiniteSet(Answered)
         /\ Cardinality(Answered) \in Nat /\ Cardinality(Answered) <= at[1]
         /\ Cardinality(Answered) = at[1] => Answered = 1 .. at[1]
<1>1. at[1] \in Nat
  BY FirstTasks
<1>2. Answered \subseteq 1 .. at[1]
  BY DEF Answered
<1>3. IsFiniteSet(1 .. at[1]) /\ Cardinality(1 .. at[1]) = at[1]
  BY <1>1, FS_Interval
<1> QED
  BY <1>2, <1>3, FS_Subset, FS_CardinalityType

LEMMA AnsweredNext ==
  ASSUME IInv'
  PROVE  at'[1] \in Nat /\ IsFiniteSet(Answered') /\ Cardinality(Answered') \in Nat
<1>1. at'[1] \in Nat
  BY ScannerAssumption DEF IInv, TypeInv, TypeThreads, Runs
<1>2. Answered' \subseteq 1 .. at'[1]
  BY DEF Answered
<1>3. IsFiniteSet(1 .. at'[1])
  BY <1>1, FS_Interval
<1> QED
  BY <1>1, <1>2, <1>3, FS_Subset, FS_CardinalityType

\* A task that answered will not be pending or cancelled again.
LEMMA AnsweredGrows ==
  ASSUME IInv, IInv', UNCHANGED <<mode, range>>, at[1] <= at'[1],
         \A i \in Answered : ~Pending(Plan(1, i))' /\ Plan(1, i) \notin cancelled'
  PROVE  Answered \subseteq Answered' /\ Cardinality(Answered) <= Cardinality(Answered')
<1>1. \A i : Plan(1, i)' = Plan(1, i)
  BY DEF Plan, NativeScan, From
<1>2. at'[1] \in Nat /\ IsFiniteSet(Answered')
  BY AnsweredNext
<1>3. ASSUME NEW i \in Answered PROVE i \in Answered'
  <2>1. i \in 1 .. at'[1]
    <3>1. i \in 1 .. at[1]
      BY <1>3 DEF Answered
    <3> QED
      BY <1>2, <3>1, FirstTasks
  <2>2. Pending(Plan(1, i))' <=> \E x : x = Plan(1, i) /\ Pending(x)'
    BY <1>1 DEF Pending
  <2> QED
    BY <1>1, <1>3, <2>1 DEF Answered, Pending
<1> QED
  BY <1>2, <1>3, FS_Subset

\* Steps after which the pool has what it had, or a task of the scan more.
LEMMA PoolKept ==
  ASSUME IInv, IInv', DoneInv, up' => up, UNCHANGED <<runs, mode, range>>, at[1] <= at'[1],
         OnceInPool => OnceInPool',
         \A t : Pending(t)' => Pending(t) \/ (runs = 1 /\ \E i \in 1 .. at'[1] : t = Plan(1, i))
  PROVE  up' /\ runs' <= 1 => OnceInPool' /\ \A t \in running' \cup Queued' : HandedOver(t)'
<1> SUFFICES ASSUME up', runs' <= 1
             PROVE  OnceInPool' /\ \A t \in running' \cup Queued' : HandedOver(t)'
  OBVIOUS
<1>1. OnceInPool /\ \A t : Pending(t) => HandedOver(t)
  BY DEF DoneInv, Pending
<1>2. \A t : HandedOver(t) => HandedOver(t)'
  <2>1. \A i : Plan(1, i)' = Plan(1, i)
    BY DEF Plan, NativeScan, From
  <2>2. \A i \in 1 .. at[1] : i \in 1 .. at'[1]
    BY AnsweredNext, FirstTasks
  <2> QED
    BY <2>1, <2>2 DEF HandedOver, Thread
<1>3. \A t : runs = 1 /\ (\E i \in 1 .. at'[1] : t = Plan(1, i)) => HandedOver(t)'
  <2>1. \A i : Plan(1, i)' = Plan(1, i)
    BY DEF Plan, NativeScan, From
  <2> QED
    BY <2>1 DEF HandedOver
<1>4. \A t \in running' \cup Queued' : HandedOver(t)'
  BY <1>1, <1>2, <1>3 DEF Pending
<1> QED
  BY <1>1, <1>4

\* Steps that post and handle nothing.
LEMMA DoneKept ==
  ASSUME IInv, IInv', DoneInv, up' => up, UNCHANGED <<runs, mode, range>>, at[1] <= at'[1],
         OnceInPool => OnceInPool',
         \A t : Pending(t)' => Pending(t) \/ (runs = 1 /\ \E i \in 1 .. at'[1] : t = Plan(1, i)),
         \A i \in Answered : ~Pending(Plan(1, i))' /\ Plan(1, i) \notin cancelled',
         p' = p \/ p' = 0, UNCHANGED <<messages, began>>,
         touches' = 0 => touches = 0 /\ portsToScan' = portsToScan
  PROVE  DoneInv'
<1>1. up' /\ runs' <= 1 => OnceInPool' /\ \A t \in running' \cup Queued' : HandedOver(t)'
  BY PoolKept
<1>2. ASSUME up', runs' <= 1 PROVE Progress'
  <2>1. Progress
    BY <1>2 DEF DoneInv
  <2>2. /\ Cardinality(Answered) \in Nat /\ Cardinality(Answered) <= Cardinality(Answered')
        /\ p \in Nat /\ Len(messages) \in Nat
    BY AnsweredGrows, AnsweredFacts, PartsOfInv DEF TypeRest, TaskType, TasksTypeOK
  <2>3. Cardinality(Answered') \in Nat
    BY AnsweredNext
  <2>4. mode[1] \in Connect /\ runs # 0 => p' + Len(messages') <= Cardinality(Answered')
    BY <2>1, <2>2, <2>3 DEF Progress
  <2>5. TotalOfRange /\ portsToScan' = portsToScan => TotalOfRange'
    BY DEF TotalOfRange, From, To
  <2> QED
    BY <2>1, <2>4, <2>5 DEF Progress
<1> QED
  BY <1>1, <1>2 DEF DoneInv

\* Handling what was posted: a step of the progress for a message less.
LEMMA HandledDone ==
  ASSUME IInv, IInv', DoneInv, Handled, messages # <<>>, UNCHANGED <<threadVars, runs, touches, portsToScan, began>>,
         p' = p \/ (p' = p + 1 /\ Head(messages).about = "closed")
  PROVE  DoneInv'
<1>1. /\ messages' = Tail(messages) /\ UNCHANGED <<queue, running, threads, cancelled, up, mode, range, at>>
      /\ messages \in Seq(Messages) /\ p \in Nat
  BY PartsOfInv DEF Handled, threadVars, TypeRest, TaskType, TasksTypeOK
<1>2. /\ at[1] <= at'[1] /\ (\A t : Pending(t)' <=> Pending(t)) /\ (OnceInPool => OnceInPool')
      /\ Queued' = Queued /\ Answered' = Answered
  <2>1. Queued' = Queued
    BY <1>1 DEF Queued
  <2>2. Answered' = Answered
    BY <1>1, <2>1 DEF Answered, Pending, Plan, NativeScan, From
  <2> QED
    BY <1>1, <2>1, <2>2, FirstTasks DEF Pending, OnceInPool
<1>3. up' /\ runs' <= 1 => OnceInPool' /\ \A t \in running' \cup Queued' : HandedOver(t)'
  BY <1>1, <1>2, PoolKept
<1>4. ASSUME up', runs' <= 1 PROVE Progress'
  <2>1. Progress
    BY <1>1, <1>4 DEF DoneInv
  <2>2. /\ Len(messages) \in Nat /\ Len(messages) > 0 /\ Len(messages') = Len(messages) - 1
        /\ \A i \in 1 .. Len(messages) - 1 : messages'[i] = messages[i + 1] /\ i + 1 \in 1 .. Len(messages)
        /\ Head(messages) = messages[1] /\ 1 \in 1 .. Len(messages)
    BY <1>1
  <2>3. runs # 0
    <3>1. CASE runs = 0
      BY <2>1, <3>1 DEF Progress
    <3> QED
      BY <3>1
  <2>4. mode[1] \in Connect => p' + Len(messages') <= Cardinality(Answered')
    BY <1>1, <1>2, <2>1, <2>2, <2>3, AnsweredFacts DEF Progress
  <2>5. mode[1] \in Native => p' = 0 /\ \A i \in 1 .. Len(messages') : messages'[i].about # "closed"
    <3>1. mode[1] \in Native => p = 0 /\ \A i \in 1 .. Len(messages) : messages[i].about # "closed"
      BY <2>1, <2>3 DEF Progress
    <3> QED
      BY <2>2, <3>1
  <2> QED
    BY <1>1, <2>1, <2>3, <2>4, <2>5 DEF Progress, TotalOfRange, From, To
<1> QED
  BY <1>3, <1>4 DEF DoneInv

\* Steps that hand over nothing: the pool keeps or ends what it had, and cancels
\* only what it has.
LEMMA QuietDone ==
  ASSUME IInv, IInv', DoneInv, up' => up, UNCHANGED <<runs, mode, range, at>>,
         OnceInPool => OnceInPool', \A t : Pending(t)' => Pending(t),
         \A t : t \in cancelled' => t \in cancelled \/ Pending(t),
         p' = p \/ p' = 0, UNCHANGED <<messages, began>>,
         touches' = 0 => touches = 0 /\ portsToScan' = portsToScan
  PROVE  DoneInv'
<1>1. at[1] <= at'[1]
  BY FirstTasks
<1>2. \A i : Plan(1, i)' = Plan(1, i)
  BY DEF Plan, NativeScan, From
<1>3. \A i \in Answered : ~Pending(Plan(1, i))' /\ Plan(1, i) \notin cancelled'
  BY <1>2 DEF Answered, Pending
<1> QED
  BY <1>1, <1>3, DoneKept

\* A connect task ends: what it posts is of a task that had not answered.
LEMMA ConnectEndsDone ==
  ASSUME IInv, IInv', DoneInv, NEW t \in running, ConnectEnds(t)
  PROVE  DoneInv'
<1>0. CASE Throws(t)
  <2>1. CASE Dies
    BY <2>1 DEF Dies, DoneInv
  <2>2. CASE ReturnSilently(t)
    <3>1. /\ running' = running \ {t}
          /\ UNCHANGED <<queue, cancelled, messages, up, runs, mode, range, at, p, portsToScan,
                         began, touches>>
      BY <2>2 DEF ReturnSilently, ConnectEnds, fields, threadVars, nativeVars
    <3>2. (OnceInPool => OnceInPool') /\ \A x : Pending(x)' => Pending(x)
      BY <3>1, EndOnce DEF Pending, Queued
    <3> QED
      BY <3>1, <3>2, QuietDone
  <2> QED
    BY <1>0, <2>1, <2>2 DEF Throws
<1> SUFFICES ASSUME ~Throws(t) PROVE DoneInv'
  BY <1>0
<1>1. PICK about \in {"open", "closed"} : Return(t, Note(about, t.kind, <<t.port>>))
  BY ConnectEndsHow
<1>2. /\ UNCHANGED <<p, portsToScan, mode, range, at, began, runs, touches, queue, cancelled, up>>
      /\ running' = running \ {t} /\ t.kind \in Connect /\ up /\ at[1] <= at'[1]
      /\ messages \in Seq(Messages) /\ Len(messages) \in Nat /\ p \in Nat
      /\ messages' = IF t \in cancelled THEN messages
                     ELSE Append(messages, Note(about, t.kind, <<t.port>>))
  BY <1>1, FirstTasks, PartsOfInv
  DEF ConnectEnds, fields, threadVars, nativeVars, Return, TypeRest, TaskType, TasksTypeOK
<1>3. CASE t \in cancelled \/ ~(runs <= 1)
  <2>1. OnceInPool => OnceInPool' /\ ~Pending(t)'
    BY <1>2, EndOnce
  <2>2. \A x : Pending(x)' => Pending(x)
    BY <1>2 DEF Pending, Queued
  <2>3. \A i \in Answered : ~Pending(Plan(1, i))' /\ Plan(1, i) \notin cancelled'
    BY <1>2, <2>2 DEF Answered, Plan, NativeScan, From, Pending
  <2>4. CASE t \in cancelled
    BY <1>2, <2>1, <2>2, <2>3, <2>4, DoneKept
  <2>5. CASE ~(runs <= 1)
    BY <1>2, <2>5 DEF DoneInv
  <2> QED
    BY <1>3, <2>4, <2>5
<1>4. CASE t \notin cancelled /\ runs <= 1
  <2>1. OnceInPool /\ HandedOver(t) /\ Progress
    BY <1>2, <1>4 DEF DoneInv
  <2>2. OnceInPool' /\ ~Pending(t)' /\ \A x : Pending(x)' => Pending(x)
    BY <1>2, <2>1, EndOnce
  <2>3. PICK i \in 1 .. at[1] : t = Plan(1, i)
    <3>1. t # Thread(1)
      BY <1>2 DEF Thread, Connect
    <3> QED
      BY <2>1, <3>1 DEF HandedOver
  <2>4. runs = 1 /\ mode[1] \in Connect /\ i \in 1 .. Size(1)
    <3>1. i \in 1 .. Size(1)
      BY <2>3, FirstTasks
    <3> QED
      BY <1>2, <2>1, <2>3, <3>1, FirstTasks DEF HandedOver
  <2>5. up' /\ runs' <= 1 => OnceInPool' /\ \A x \in running' \cup Queued' : HandedOver(x)'
    BY <1>2, <2>2, PoolKept
  <2>6. \A k : Plan(1, k)' = Plan(1, k)
    BY <1>2 DEF Plan, NativeScan, From
  <2>7. i \notin Answered /\ Answered \cup {i} \subseteq Answered'
    <3>1. i \notin Answered
      BY <2>3 DEF Answered, Pending
    <3>2. \A k : Pending(Plan(1, k))' => Pending(Plan(1, k))
      BY <2>2, <2>6 DEF Pending
    <3>3. ~Pending(Plan(1, i))'
      BY <2>2, <2>3, <2>6 DEF Pending
    <3>4. i \in Answered'
      BY <1>2, <1>4, <2>3, <2>6, <3>3 DEF Answered
    <3>5. ASSUME NEW k \in Answered PROVE k \in Answered'
      BY <1>2, <2>6, <3>2, <3>5 DEF Answered
    <3> QED
      BY <3>1, <3>4, <3>5
  <2>8. /\ Cardinality(Answered') \in Nat /\ Cardinality(Answered) + 1 <= Cardinality(Answered')
        /\ Cardinality(Answered) \in Nat
    <3>1. IsFiniteSet(Answered) /\ IsFiniteSet(1 .. at[1]) /\ Answered' \subseteq 1 .. at[1]
      <4>1. at[1] \in Nat
        BY FirstTasks
      <4>2. Answered' \subseteq 1 .. at[1]
        BY <1>2 DEF Answered
      <4>3. IsFiniteSet(1 .. at[1])
        BY <4>1, FS_Interval
      <4> QED
        BY <4>2, <4>3, AnsweredFacts
    <3>2. IsFiniteSet(Answered')
      BY <3>1, FS_Subset
    <3>3. Cardinality(Answered \cup {i}) = Cardinality(Answered) + 1
      BY <2>7, <3>1, FS_AddElement
    <3> QED
      BY <2>7, <3>2, <3>3, FS_Subset, FS_CardinalityType, AnsweredFacts
  <2>9. Len(messages') = Len(messages) + 1
    BY <1>2, <1>4
  <2>10. p' + Len(messages') <= Cardinality(Answered')
    BY <1>2, <2>1, <2>4, <2>8, <2>9 DEF Progress
  <2>11. mode[1] \notin Native
    BY <2>4 DEF Connect, Native
  <2>12. Progress'
    BY <1>2, <2>1, <2>4, <2>10, <2>11 DEF Progress, TotalOfRange, From, To
  <2> QED
    BY <2>5, <2>12 DEF DoneInv
<1> QED
  BY <1>3, <1>4

(***************************************************************************)
(* The steps of the scanner, and what "Done" says.                         *)
(***************************************************************************)
LEMMA StartDone ==
  ASSUME IInv, IInv', DoneInv, NEW f \in FromPorts, NEW t \in ToPorts, Start(f, t)
  PROVE  DoneInv'
<1>1. /\ runs' = runs + 1 /\ p' = 0 /\ portsToScan' = t - f + 1 /\ up /\ runs \in Nat
      /\ range' = [range EXCEPT ![runs + 1] = <<f, t>>] /\ Execute(Thread(runs + 1))
      /\ UNCHANGED <<began, touches>> /\ f \in Nat /\ t \in Nat
  BY PartsOfInv, ParametersKnown DEF Start, Bounds, nativeVars
<1>2. CASE runs # 0 \/ ~up'
  BY <1>1, <1>2 DEF DoneInv
<1>3. CASE runs = 0 /\ up'
  <2>1. Accept(Thread(1)) /\ range'[1] = <<f, t>> /\ Thread(1) \in Tasks
    BY <1>1, <1>3, FirstTasks, PartsOfInv DEF Execute, Dies, TypeThreads
  <2>2. OnceInPool /\ \A x : ~Pending(x)
    BY <1>1, <1>3 DEF DoneInv, HandedOver, Pending
  <2>3. messages' = messages /\ \A x : Pending(x)' <=> x = Thread(1)
    BY <2>1, <2>2, PartsOfInv, AcceptEffect DEF TaskType
  <2>4. OnceInPool'
    BY <2>1, <2>2, PartsOfInv, AcceptOnce
  <2>5. \A x \in running' \cup Queued' : HandedOver(x)'
    BY <1>1, <1>3, <2>3 DEF HandedOver, Pending, Thread
  <2>6. Progress'
    <3>1. messages' = <<>> /\ began' = {}
      BY <1>1, <1>3, <2>3 DEF DoneInv, Progress
    <3>2. TotalOfRange'
      BY <1>1, <2>1 DEF TotalOfRange, To, From
    <3> QED
      BY <1>1, <1>3, <3>1, <3>2, AnsweredNext DEF Progress
  <2> QED
    BY <2>4, <2>5, <2>6 DEF DoneInv
<1> QED
  BY <1>2, <1>3

LEMMA UserDone ==
  ASSUME IInv, IInv', DoneInv, User
  PROVE  DoneInv'
<1>1. \A m \in {touches + 1} : m # 0
  BY PartsOfInv DEF Bounds
<1>2. ASSUME OpenActivity \/ Reset \/ \E m \in Modes : SetMode(m) PROVE DoneInv'
  <2>1. /\ UNCHANGED <<taskVars, threadVars, runs, nativeVars>>
        /\ touches' = touches + 1 \/ (touches' = touches /\ UNCHANGED portsToScan)
        /\ p' = p \/ p' = 0
    BY <1>2 DEF OpenActivity, Reset, SetMode
  <2>2. OnceInPool => OnceInPool'
    BY <2>1 DEF OnceInPool, taskVars, Queued
  <2> QED
    BY <1>1, <2>1, <2>2, PartsOfInv, TasksStand, QuietDone DEF taskVars, threadVars, nativeVars
<1>3. ASSUME Stop PROVE DoneInv'
  <2>1. /\ UNCHANGED <<p, portsToScan, threadVars, nativeVars, runs, touches>>
        /\ up' => up /\ UNCHANGED <<queue, running, messages>>
                  /\ \A x : x \in cancelled' => x \in cancelled \/ Pending(x)
    BY <1>3 DEF Stop, Dies, Cancel, CancelledWith, taskVars
  <2>2. ASSUME up' PROVE (OnceInPool => OnceInPool') /\ \A x : Pending(x)' => Pending(x)
    BY <2>1, <2>2 DEF OnceInPool, Queued, Pending
  <2>3. CASE up'
    BY <2>1, <2>2, <2>3, QuietDone DEF threadVars, nativeVars
  <2> QED
    BY <2>3 DEF DoneInv
<1>4. ASSUME StartUnreadable PROVE DoneInv'
  BY <1>4 DEF StartUnreadable, Dies, DoneInv
<1> QED
  BY <1>2, <1>3, <1>4, StartDone DEF User

LEMMA ExecuteNextDone ==
  ASSUME IInv, IInv', DoneInv, NEW r \in Runs, ExecuteNext(r)
  PROVE  DoneInv'
<1>1. /\ up /\ Thread(r) \in running /\ at[r] < Size(r)
      /\ UNCHANGED <<p, portsToScan, mode, range, began, runs, touches>>
  BY DEF ExecuteNext, Active, fields, nativeVars
<1>2. CASE ~(runs <= 1) \/ ~up'
  BY <1>1, <1>2 DEF DoneInv
<1>3. CASE runs <= 1 /\ up'
  <2>1. OnceInPool /\ \A x : Pending(x) => HandedOver(x)
    BY <1>1, <1>3 DEF DoneInv, Pending
  <2>2. HandedOver(Thread(r)) /\ runs = 1
    BY <1>1, <2>1 DEF Pending, HandedOver
  <2>3. r = 1
    <3>1. ASSUME NEW i \in 1 .. at[1] PROVE Thread(r) # Plan(1, i)
      <4>1. i \in 1 .. Size(1)
        BY FirstTasks
      <4> QED
        BY <4>1, FirstTasks
    <3>2. Thread(r) = Thread(1)
      BY <2>2, <3>1 DEF HandedOver
    <3> QED
      BY <3>2, FirstTasks, ThreadTask
  <2>4. CASE Accept(Plan(1, at[1] + 1)) /\ at' = [at EXCEPT ![1] = @ + 1]
    <3>1. PICK k \in 1 .. Size(1) : k = at[1] + 1
      BY <1>1, <2>3, FirstTasks
    <3>2. Plan(1, k) \in Tasks /\ \A i \in 1 .. at[1] : Plan(1, i) # Plan(1, k)
      <4>1. \A i \in 1 .. at[1] : i \in 1 .. Size(1) /\ i # k
        BY <3>1, FirstTasks
      <4> QED
        BY <4>1, FirstTasks
    <3>3. ~Pending(Plan(1, k))
      BY <2>1, <3>2, FirstTasks DEF HandedOver
    <3>4. /\ UNCHANGED <<cancelled, messages, up>>
          /\ \A x : Pending(x)' => Pending(x) \/ x = Plan(1, k)
      BY <2>4, <3>1, <3>2, PartsOfInv, AcceptEffect DEF TaskType
    <3>5. OnceInPool'
      BY <2>1, <2>4, <3>1, <3>2, <3>3, PartsOfInv, AcceptOnce
    <3>6. at'[1] = k /\ at[1] <= k /\ k \in 1 .. k
      BY <2>4, <3>1, FirstTasks, PartsOfInv DEF TypeThreads
    <3>7. \A i : Plan(1, i)' = Plan(1, i)
      BY <1>1 DEF Plan, NativeScan, From
    <3>8. ASSUME NEW i \in Answered
          PROVE  ~Pending(Plan(1, i))' /\ Plan(1, i) \notin cancelled'
      <4>1. i \in 1 .. at[1] /\ ~Pending(Plan(1, i)) /\ Plan(1, i) \notin cancelled
        BY <3>8 DEF Answered
      <4>2. Plan(1, i) # Plan(1, k)
        BY <3>2, <4>1
      <4> QED
        BY <3>4, <3>7, <4>1, <4>2 DEF Pending
    <3>9. \A x : Pending(x)' => Pending(x) \/ (runs = 1 /\ \E i \in 1 .. at'[1] : x = Plan(1, i))
      BY <2>2, <3>4, <3>6
    <3> QED
      BY <1>1, <3>4, <3>5, <3>6, <3>8, <3>9, DoneKept
  <2>5. CASE ReturnSilently(Thread(r)) /\ UNCHANGED at
    BY <1>1, <2>1, <2>5, EndOnce, QuietDone DEF ReturnSilently
  <2> QED
    BY <1>3, <2>3, <2>4, <2>5 DEF ExecuteNext, Throws, Dies
<1> QED
  BY <1>2, <1>3

LEMMA ThreadDone ==
  ASSUME IInv, IInv', DoneInv, NEW r \in Runs, ScanThread(r)
  PROVE  DoneInv'
<1>1. ASSUME UNCHANGED <<fields, mode, range, at, nativeVars, runs, touches, messages, queue, up>>,
             running' = running \/ running' = running \ {Thread(r)},
             \A x : x \in cancelled' => x \in cancelled \/ Pending(x)
      PROVE  DoneInv'
  <2>1. (OnceInPool => OnceInPool') /\ \A x : Pending(x)' => Pending(x)
    BY <1>1 DEF OnceInPool, Queued, Pending
  <2> QED
    BY <1>1, <2>1, QuietDone DEF fields, nativeVars
<1>2. CASE CheckCancelled(r)
  BY <1>1, <1>2 DEF CheckCancelled, CancelledWith, taskVars
<1>3. CASE ThreadReturns(r)
  BY <1>1, <1>3 DEF ThreadReturns, ReturnSilently
<1> QED
  BY <1>2, <1>3, ExecuteNextDone DEF ScanThread

\* A native scan is the first only when it was started as one, and posts no step.
LEMMA NativePostsDone ==
  ASSUME IInv, IInv', DoneInv, NEW r \in began, NEW m \in Messages, m.about # "closed", up' => up,
         UNCHANGED <<p, portsToScan, mode, range, at, began, runs, touches, cancelled>>,
         OnceInPool => OnceInPool', \A t : Pending(t)' => Pending(t),
         messages' = messages \/ messages' = Append(messages, m)
  PROVE  DoneInv'
<1>1. up' /\ runs' <= 1 => OnceInPool' /\ \A t \in running' \cup Queued' : HandedOver(t)'
  BY FirstTasks, PoolKept
<1>2. ASSUME up', runs' <= 1 PROVE Progress'
  <2>1. Progress
    BY <1>2 DEF DoneInv
  <2>2. runs # 0 /\ mode[1] \notin Connect
    BY <2>1 DEF Progress
  <2>3. p = 0 /\ \A i \in 1 .. Len(messages) : messages[i].about # "closed"
    BY <2>1, <2>2, FirstTasks DEF Progress
  <2>4. messages \in Seq(Messages)
    BY PartsOfInv DEF TaskType, TasksTypeOK
  <2>5. \A i \in 1 .. Len(messages') : messages'[i].about # "closed"
    BY <2>3, <2>4
  <2> QED
    BY <2>1, <2>2, <2>3, <2>5 DEF Progress, TotalOfRange, From, To
<1> QED
  BY <1>1, <1>2 DEF DoneInv

LEMMA NativeTaskDone ==
  ASSUME IInv, IInv', DoneInv, NEW r \in Runs, NativeTask(r)
  PROVE  DoneInv'
<1>1. mode[r] \in Connect \cup Native
  BY PartsOfInv, SizeKnown, ParametersKnown
<1>2. CASE NativeBegins(r)
  <2>1. /\ UNCHANGED <<taskVars, p, portsToScan, threadVars, runs, touches>>
        /\ NativeScan(r) \in running /\ mode[r] \in Native /\ up
    BY <1>2 DEF NativeBegins
  <2>2. /\ UNCHANGED <<mode, range, at, queue, running, messages, cancelled, up>>
        /\ Queued' = Queued /\ Answered' = Answered
    BY <2>1 DEF taskVars, threadVars, Queued, Answered, Pending, Plan, NativeScan, From
  <2>3. up' /\ runs' <= 1 => OnceInPool' /\ \A t \in running' \cup Queued' : HandedOver(t)'
    BY <2>1, <2>2, FirstTasks, PoolKept DEF OnceInPool, Pending
  <2>4. ASSUME up', runs' <= 1 PROVE Progress'
    <3>1. Progress /\ HandedOver(NativeScan(r))
      BY <2>1, <2>2, <2>4 DEF DoneInv
    <3>2. NativeScan(r).kind = mode[r] /\ Thread(1).kind = "Scanning" /\ "Scanning" \notin Native
      BY DEF NativeScan, Probe, Thread, Native
    <3>3. runs = 1 /\ mode[1] = mode[r]
      <4>1. ASSUME NEW i \in 1 .. at[1], NativeScan(r) = Plan(1, i) PROVE mode[1] = mode[r]
        <5>1. i \in 1 .. Size(1)
          BY FirstTasks
        <5> QED
          BY <3>2, <4>1, <5>1, FirstTasks
      <4> QED
        BY <2>1, <3>1, <3>2, <4>1 DEF HandedOver
    <3>4. mode[1] \notin Connect
      BY <2>1, <3>3 DEF Native, Connect
    <3> QED
      BY <2>1, <2>2, <3>1, <3>3, <3>4 DEF Progress, TotalOfRange, From, To
  <2> QED
    BY <2>3, <2>4 DEF DoneInv
<1>3. CASE NativePrints(r)
  <2>1. /\ UNCHANGED <<p, portsToScan, mode, range, at, began, runs, touches>> /\ r \in began
    BY <1>3 DEF NativePrints, fields, threadVars
  <2>2. \E m : Publish(m) /\ m.about # "closed"
    <3>1. \A ports : /\ Note("down", mode[r], ports).about # "closed"
                     /\ Note("cut", mode[r], ports).about # "closed"
                     /\ Note("report", mode[r], ports).about # "closed"
      BY DEF Note
    <3> QED
      BY <1>3, <3>1 DEF NativePrints
  <2>3. PICK m : Publish(m) /\ m.about # "closed"
    BY <2>2
  <2>4. messages' \in Seq(Messages) /\ messages \in Seq(Messages)
    BY PartsOfInv DEF TaskType, TasksTypeOK, IInv, TypeInv
  <2>5. m \in Messages
    <3>1. messages' = Append(messages, m) /\ Len(messages) \in Nat
      BY <2>3, <2>4 DEF Publish
    <3>2. Len(messages') = Len(messages) + 1 /\ messages'[Len(messages) + 1] = m
      BY <2>4, <3>1
    <3> QED
      BY <2>4, <3>1, <3>2
  <2>6. (OnceInPool => OnceInPool') /\ \A t : Pending(t)' => Pending(t)
    BY <2>3 DEF Publish, OnceInPool, Queued, Pending
  <2> QED
    BY <2>1, <2>3, <2>5, <2>6, NativePostsDone DEF Publish
<1>4. CASE NativeEnds(r)
  <2>1. PICK m \in Messages : Return(NativeScan(r), m) /\ m.about # "closed"
    <3>1. Note("ended", mode[r], <<>>) \in Messages /\ Note("ended", mode[r], <<>>).about # "closed"
      BY <1>1 DEF Note, Messages
    <3> QED
      BY <1>4, <3>1 DEF NativeEnds
  <2>2. UNCHANGED <<p, portsToScan, mode, range, at, began, runs, touches>> /\ r \in began
    BY <1>4 DEF NativeEnds, fields, threadVars, nativeVars
  <2>3. (OnceInPool => OnceInPool') /\ \A t : Pending(t)' => Pending(t)
    BY <2>1 DEF Return, OnceInPool, Queued, Pending
  <2> QED
    BY <2>1, <2>2, <2>3, NativePostsDone DEF Return
<1> QED
  BY <1>2, <1>3, <1>4 DEF NativeTask

LEMMA MainLooperDone ==
  ASSUME IInv, IInv', DoneInv, MainLooper
  PROVE  DoneInv'
<1>1. CASE CutLine
  BY <1>1 DEF CutLine, Dies, DoneInv
<1>2. CASE Closed \/ AddToList \/ ScanOver
  <2>1. /\ Handled /\ messages # <<>> /\ UNCHANGED <<threadVars, runs, touches, portsToScan, began>>
        /\ p' = p \/ (p' = p + 1 /\ Head(messages).about = "closed")
    BY <1>2 DEF Closed, AddToList, ScanOver, Posted, nativeVars
  <2> QED
    BY <2>1, HandledDone
<1> QED
  BY <1>1, <1>2 DEF MainLooper

LEMMA PoolThreadsDone ==
  ASSUME IInv, IInv', DoneInv, PoolThreads
  PROVE  DoneInv'
<1>1. UNCHANGED <<fields, threadVars, nativeVars, runs, touches, stoppedAt>> /\ Pool
  BY DEF PoolThreads
<1>2. (\A t : Pending(t)' => Pending(t)) /\ UNCHANGED <<cancelled, messages, up>>
  BY <1>1, PartsOfInv, PoolEffect DEF TaskType
<1>3. OnceInPool => OnceInPool'
  BY <1>1, PartsOfInv, PoolOnce
<1> QED
  BY <1>1, <1>2, <1>3, QuietDone DEF fields, threadVars, nativeVars

LEMMA DoneStep == IInv /\ IInv' /\ DoneInv /\ [Next]_vars => DoneInv'
<1> SUFFICES ASSUME IInv, IInv', DoneInv, [Next]_vars PROVE DoneInv'
  OBVIOUS
<1>1. CASE User
  BY <1>1, UserDone
<1>2. ASSUME NEW r \in Runs, ScanThread(r) \/ NativeTask(r) PROVE DoneInv'
  BY <1>2, ThreadDone, NativeTaskDone
<1>3. ASSUME NEW t \in running, ConnectEnds(t) PROVE DoneInv'
  BY <1>3, ConnectEndsDone
<1>4. CASE UNCHANGED vars
  <2>1. OnceInPool => OnceInPool'
    BY <1>4 DEF OnceInPool, Queued, vars, taskVars
  <2> QED
    BY <1>4, <2>1, PartsOfInv, TasksStand, QuietDone
    DEF vars, taskVars, fields, threadVars, nativeVars
<1> QED
  BY <1>1, <1>2, <1>3, <1>4, MainLooperDone, PoolThreadsDone DEF Next

\* A first scan's progress counts ports that were tried and answered, each once.
THEOREM DoneInvariance == Spec => []DoneInv
<1>1. Init => DoneInv
  BY DEF Init, TasksInit, DoneInv, OnceInPool, Queued, Progress
<1> QED
  BY <1>1, DoneStep, Invariance, PTL DEF Spec

\* updateProgress: for any range, pool and interleaving of stops, resets and answers,
\* "Done" of the first scan of a process is true, as long as the total it is compared
\* with is the number of its ports: an activity opened again puts another there.
THEOREM DoneTrue == Spec => []DoneIsTrue
<1>1. IInv /\ DoneInv => DoneIsTrue
  <2> SUFFICES ASSUME IInv, DoneInv, up, runs = 1, p > 0, p = portsToScan, TotalOfRange
               PROVE  AllAnswered
    BY DEF DoneIsTrue
  <2>1. Progress /\ p \in Nat /\ messages \in Seq(Messages) /\ From(1) \in Nat /\ To(1) \in Nat
    BY FirstTasks, PartsOfInv, SizeKnown DEF DoneInv, TypeRest, TaskType, TasksTypeOK
  <2>2. mode[1] \in Connect
    BY <2>1, FirstTasks DEF Progress
  <2>3. Size(1) = p
    <3>1. mode[1] \notin Native /\ p = To(1) - From(1) + 1
      BY <2>2 DEF TotalOfRange, Connect, Native
    <3> QED
      BY <2>1, <3>1 DEF Size
  <2>4. p + Len(messages) <= Cardinality(Answered)
    BY <2>1, <2>2 DEF Progress
  <2>5. Len(messages) = 0 /\ at[1] = Size(1) /\ Cardinality(Answered) = at[1]
    BY <2>1, <2>3, <2>4, AnsweredFacts, FirstTasks
  <2>6. messages = <<>> /\ Answered = 1 .. Size(1)
    BY <2>1, <2>5, AnsweredFacts
  <2> QED
    BY <2>5, <2>6 DEF Answered, AllAnswered
<1> QED
  BY <1>1, Invariance, DoneInvariance, PTL
=============================================================================
