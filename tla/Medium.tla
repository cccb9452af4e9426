------------------------------ MODULE Medium ------------------------------
(***************************************************************************)
(* What the shared channel promises its users, without backoff, locks or  *)
(* queues: a node starts a send attempt, goes on air, possibly overlaps    *)
(* other nodes on air while time passes, and leaves the air with an       *)
(* outcome.  The outcome is exact: a success when the attempt overlapped   *)
(* no other transmission, a failure (collision) when it did.               *)
(*                                                                         *)
(* Coexistence refines this module: its nodes in "tx" or "loser" are on    *)
(* air, `heard` is the overlap flag and `result` the recorded outcome.    *)
(***************************************************************************)
CONSTANT Nodes

VARIABLES
    air,   \* the nodes transmitting
    ovl,   \* the current attempt of the node overlapped another on air
    out    \* the outcome last recorded by the node

mvars == <<air, ovl, out>>

Outcomes == {"none", "success", "failure"}

Init ==
    /\ air = {}
    /\ ovl = [n \in Nodes |-> FALSE]
    /\ out = [n \in Nodes |-> "none"]

\* A new send attempt: no overlap and no outcome yet.
Begin(n) ==
    /\ n \notin air
    /\ ovl' = [ovl EXCEPT ![n] = FALSE]
    /\ out' = [out EXCEPT ![n] = "none"]
    /\ UNCHANGED air

\* The node starts transmitting (again, after a preemption) in its attempt.
Enter(n) ==
    /\ n \notin air
    /\ air' = air \cup {n}
    /\ UNCHANGED <<ovl, out>>

\* Time passes with two or more nodes on air: all of them overlapped.
Elapse ==
    /\ \E a, b \in air : a # b
    /\ ovl' = [n \in Nodes |-> ovl[n] \/ n \in air]
    /\ UNCHANGED <<air, out>>

\* The frame ends: the outcome is decided by the overlap.
Leave(n) ==
    /\ n \in air
    /\ air' = air \ {n}
    /\ out' = [out EXCEPT ![n] = IF ovl[n] THEN "failure" ELSE "success"]
    /\ UNCHANGED ovl

Next == Elapse \/ \E n \in Nodes : Begin(n) \/ Enter(n) \/ Leave(n)

Spec == Init /\ [][Next]_mvars
====
