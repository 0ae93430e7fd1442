------------------------------ MODULE ProbeList ------------------------------
(***************************************************************************)
(* The linked list of probes of the native scanner (src/jni/main.c): nodes *)
(* "struct ports" that are allocated and never freed, the list probeSent   *)
(* of those that wait for a response, and the count num_awaited.           *)
(*                                                                         *)
(* A node's address is the number of its allocation, so that a higher      *)
(* address is a newer node; 0 is NULL.                                     *)
(***************************************************************************)
EXTENDS Integers, Sequences

VARIABLES
  heap,         \* heap[n]: the node at address n
  probeSent,    \* the head of the list
  num_awaited

listVars == <<heap, probeSent, num_awaited>>

NULL == 0

Node(port, next, prev) == [port |-> port, next |-> next, prev |-> prev]

Addresses == 1..Len(heap)

\* Every next leads to an older node, every prev to a newer one: the list ends.
ListTypeOK(ports) ==
  /\ heap \in Seq([port : ports, next : Nat, prev : Nat])
  /\ probeSent \in 0..Len(heap)
  /\ num_awaited \in Int
  /\ \A n \in Addresses : /\ heap[n].next < n
                          /\ heap[n].prev = NULL \/ heap[n].prev \in n + 1..Len(heap)

\* Mutant of Push: the new node becomes the head before its next is set.
PushSwapped(port) ==
  LET new == Len(heap) + 1
  IN  /\ heap' = Append(heap, Node(port, new, NULL))
      /\ probeSent' = new
      /\ num_awaited' = num_awaited + 1

\* Mutant of Push: the old head does not learn of the new one.
PushWithoutPrev(port) ==
  /\ heap' = Append(heap, Node(port, probeSent, NULL))
  /\ probeSent' = Len(heap) + 1
  /\ num_awaited' = num_awaited + 1

\* "if a probe has been sent, add it to this list"
Push(port) ==
  LET new == Len(heap) + 1
      linked == [n \in Addresses |-> IF n = probeSent THEN [heap[n] EXCEPT !.prev = new]
                                     ELSE heap[n]]
  IN  /\ heap' = Append(linked, Node(port, probeSent, NULL))
      /\ probeSent' = new
      /\ num_awaited' = num_awaited + 1

\* The same when the head is reset between its two reads: the old head is linked
\* to, but its prev is not set.
PushUnseen(port) ==
  /\ heap' = Append(heap, Node(port, probeSent, NULL))
  /\ probeSent' = Len(heap) + 1
  /\ num_awaited' = num_awaited + 1

\* Mutant of Unlink: the count is not taken down at the head.
UnlinkUncounted(a) ==
  IF heap[a].prev = NULL
  THEN probeSent' = heap[a].next /\ UNCHANGED <<heap, num_awaited>>
  ELSE /\ heap' = [heap EXCEPT ![heap[a].prev].next = heap[a].next]
       /\ num_awaited' = num_awaited - 1
       /\ UNCHANGED probeSent

\* A node is taken off the list.  The prev of the node behind it is left as it
\* was, at the head of the list and elsewhere.
Unlink(a) ==
  /\ IF heap[a].prev = NULL
     THEN probeSent' = heap[a].next /\ UNCHANGED heap
     ELSE /\ heap' = [heap EXCEPT ![heap[a].prev].next = heap[a].next]
          /\ UNCHANGED probeSent
  /\ num_awaited' = num_awaited - 1

(***************************************************************************)
(* The nodes a walk from address h meets among those of S: the members of  *)
(* every set that has h, if S does, and with a node the next one.          *)
(***************************************************************************)
ClosedIn(S, T, h) == /\ h \in S => h \in T
                     /\ \A n \in T : heap[n].next \in S => heap[n].next \in T

OnList(n, S, h) == \A T \in SUBSET S : ClosedIn(S, T, h) => n \in T
=============================================================================
