--------------------------- MODULE AndroidService ----------------------------
(***************************************************************************)
(* The part of Android that owns the life of the ScanService and of its    *)
(* process: the activity manager's record of who is bound to the service   *)
(* and whether it was started.  It is not code of this repository; it is   *)
(* modelled from the calls ScanService and ScanClientActivity make         *)
(* (bindService with BIND_AUTO_CREATE, unbindService, startService,        *)
(* stopSelf) and from the callbacks they override.                         *)
(*                                                                         *)
(* The service runs in a process of its own (AndroidManifest.xml).  That   *)
(* is "down", "up" with a live service object, or "destroyed": onDestroy   *)
(* has run, but the process stays cached until the system reclaims it.     *)
(* Asked for the service again, Android creates another service object, in *)
(* the cached process if there is one: there the Handlers, maps and pool   *)
(* threads of the former objects live on beside it.                        *)
(***************************************************************************)
EXTENDS Integers, FiniteSets

CONSTANTS
  MaxIncarnations   \* bound on how many service objects are created

ASSUME IncarnationsAssumption == MaxIncarnations \in Nat \ {0}

\* The service objects, in the order of their creation.
Services == 1..MaxIncarnations

VARIABLES
  svc,           \* the state of the service process
  incarnation,   \* the last service object created, 0 if none was
  hosted,        \* the service objects that live in the running process
  bound,         \* the activities with a connection to the service
  isStarted,     \* startService was called and not undone by stopSelf
  bindAsked,     \* onBind has run in this service object
  hasBound,      \* onUnbind is due when the last connection goes
  cause          \* why the last process ended (a history variable)

androidVars == <<svc, incarnation, hosted, bound, isStarted, bindAsked, hasBound, cause>>

Causes == {"none", "reclaimed", "killed", "onDestroy",
           "NOTIFY_SCAN_FINISHED", "NOTIFY_SCAN_PROBLEM"}

AndroidTypeOK(clients) ==
  /\ svc \in {"down", "up", "destroyed"}
  /\ incarnation \in 0..MaxIncarnations
  /\ hosted \subseteq Services
  /\ bound \subseteq clients
  /\ isStarted \in BOOLEAN /\ bindAsked \in BOOLEAN /\ hasBound \in BOOLEAN
  /\ cause \in Causes

AndroidInit == /\ svc = "down"
               /\ incarnation = 0
               /\ hosted = {}
               /\ bound = {}
               /\ isStarted = FALSE
               /\ bindAsked = FALSE
               /\ hasBound = FALSE
               /\ cause = "none"

\* The Handlers of the service objects run while their process does.
ProcessRuns == svc # "down"

\* The service is created because an activity is bound with BIND_AUTO_CREATE,
\* or created again because a started service is START_STICKY by default: in a
\* new process, or beside the service objects destroyed in the cached one.
ServiceCreated ==
  /\ svc # "up"
  /\ bound # {} \/ isStarted
  /\ incarnation < MaxIncarnations
  /\ svc' = "up"
  /\ incarnation' = incarnation + 1
  /\ hosted' = hosted \cup {incarnation + 1}
  /\ bindAsked' = FALSE
  /\ hasBound' = FALSE
  /\ UNCHANGED <<bound, isStarted, cause>>

\* onBind is called once per service object: later activities get the same
\* binder from the activity manager.
BindDue == svc = "up" /\ bound # {} /\ ~bindAsked

\* onUnbind is called when the last connection goes; it returned false, so
\* after it later connections cause neither onRebind nor a second onUnbind.
UnbindDue == svc = "up" /\ bound = {} /\ hasBound

DestroyDue == svc = "up" /\ bound = {} /\ ~hasBound /\ ~isStarted

ProcessEnds(why) ==
  /\ svc' = "down"
  /\ hosted' = {}
  /\ bindAsked' = FALSE
  /\ hasBound' = FALSE
  /\ cause' = why
  /\ UNCHANGED <<incarnation, bound, isStarted>>

\* stopSelf() of a former service object stops nothing: its token is not that of
\* the service of today.
StopSelf(s) == isStarted' = (isStarted /\ s # incarnation)
=============================================================================
