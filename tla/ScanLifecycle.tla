---------------------------- MODULE ScanLifecycle ----------------------------
(***************************************************************************)
(* What the ScanService promises of the scans its activities ask for,      *)
(* without messages, threads or processes.  A scan is asked of one of the  *)
(* service objects there will be, and is then                              *)
(*                                                                         *)
(*   free -> waiting -> granted -> running -> finished -> collected        *)
(*                                                                         *)
(* Requests wait while their service is not ready and are all answered by  *)
(* the step that makes it so; once a scan is announced as finished, its    *)
(* output no longer changes, and it is handed over whole.  A scan that     *)
(* left its service never comes back, and what one service does to its     *)
(* scans touches none of another; only their process, when it ends, takes  *)
(* them all.                                                               *)
(***************************************************************************)
EXTENDS Integers

CONSTANTS Ids, Hosts

VARIABLES
  ready,   \* ready[s]: service s grants ids at once
  of,      \* of[id]: the service the scan was asked of, any before that
  st,      \* st[id]: where the scan is in its life
  out,     \* out[id]: its output so far
  got      \* got[id]: the output its activity was last given

vars == <<ready, of, st, out, got>>

Held == {"waiting", "granted", "refused", "running", "finished"}

Gone == {"stopped", "collected", "cleared", "died"}

In(states) == {id \in Ids : st[id] \in states}

Of(s, states) == {id \in In(states) : of[id] = s}

\* The scans of S move to a state.
Move(S, state) == st' = [id \in Ids |-> IF id \in S THEN state ELSE st[id]]

Init == /\ ready = [s \in Hosts |-> FALSE]
        /\ of \in [Ids -> Hosts]
        /\ st = [id \in Ids |-> "free"]
        /\ out = [id \in Ids |-> 0]
        /\ got = [id \in Ids |-> 0]

Ask(id, s) == /\ st[id] = "free"
              /\ of' = [of EXCEPT ![id] = s]
              /\ Move({id}, IF ready[s] THEN "granted" ELSE "waiting")
              /\ UNCHANGED <<ready, out, got>>

\* A service becomes ready.  Granting its waiting scans grants the refused ones
\* with them.
GetReady(s) ==
  /\ ~ready[s]
  /\ ready' = [ready EXCEPT ![s] = TRUE]
  /\ \/ Of(s, {"waiting"}) # {} /\ Move(Of(s, {"waiting", "refused"}), "granted")
     \/ Move(Of(s, {"waiting"}), "refused")
  /\ UNCHANGED <<of, out, got>>

\* The setup failed, before or after the service got its other half.
Refuse(s) == /\ Move(Of(s, {"waiting"}), "refused")
             /\ UNCHANGED <<ready, of, out, got>>

Run(id) == /\ st[id] = "granted"
           /\ Move({id}, "running")
           /\ UNCHANGED <<ready, of, out, got>>

\* A scan that was stopped may go on for a while; one that finished does not.
Output(id) == /\ st[id] \in {"running", "stopped", "cleared"}
              /\ out' = [out EXCEPT ![id] = @ + 1]
              /\ UNCHANGED <<ready, of, st, got>>

Show(id) == /\ st[id] = "running"
            /\ got' = [got EXCEPT ![id] = out[id]]
            /\ UNCHANGED <<ready, of, st, out>>

Finish(id) == /\ st[id] = "running"
              /\ Move({id}, "finished")
              /\ UNCHANGED <<ready, of, out, got>>

Collect(id) == /\ st[id] = "finished"
               /\ Move({id}, "collected")
               /\ got' = [got EXCEPT ![id] = out[id]]
               /\ UNCHANGED <<ready, of, out>>

Stop(id) == /\ st[id] \in {"running", "finished"}
            /\ Move({id}, "stopped")
            /\ UNCHANGED <<ready, of, out, got>>

\* A service is destroyed, which works out only if its every scan was started.
Clear(s) == /\ Of(s, {"waiting", "granted", "refused"}) = {}
            /\ Move(Of(s, Held), "cleared")
            /\ UNCHANGED <<ready, of, out, got>>

\* The process of the services ends.
Die == /\ ready' = [s \in Hosts |-> FALSE]
       /\ Move(In(Held), "died")
       /\ UNCHANGED <<of, out, got>>

Next == \/ \E s \in Hosts : GetReady(s) \/ Refuse(s) \/ Clear(s)
        \/ Die
        \/ \E id \in Ids : \/ \E s \in Hosts : Ask(id, s)
                           \/ Run(id) \/ Output(id) \/ Show(id)
                           \/ Finish(id) \/ Collect(id) \/ Stop(id)

Spec == Init /\ [][Next]_vars
=============================================================================
