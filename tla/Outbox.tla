------------------------------- MODULE Outbox -------------------------------
(***************************************************************************)
(* What the delivery path promises, with no files, threads or retries: a   *)
(* clip that was accepted for delivery is held until the owner's chat has  *)
(* received it, and the only other way to stop holding it is the disk      *)
(* quota.  Delivery is at least once.  Delivery.tla implements this.       *)
(***************************************************************************)
CONSTANT Clip

VARIABLES
  held,      \* clips the outbox still has
  received,  \* clips the owner's chat has received at least once
  pruned     \* clips given up for the disk quota

vars == <<held, received, pruned>>

TypeOK == held \subseteq Clip /\ received \subseteq Clip /\ pruned \subseteq Clip

Init == held = {} /\ received = {} /\ pruned = {}

\* A clip is accepted once: never again after it was received or pruned.
Accept(c) == /\ c \notin held \cup received \cup pruned
             /\ held' = held \cup {c}
             /\ UNCHANGED <<received, pruned>>

\* A send under way when the quota deletes the clip still goes through.
Receive(c) == /\ c \in held \cup pruned
              /\ received' = received \cup {c}
              /\ UNCHANGED <<held, pruned>>

Release(c) == /\ c \in held \cap received
              /\ held' = held \ {c}
              /\ UNCHANGED <<received, pruned>>

Prune(c) == /\ c \in held
            /\ held' = held \ {c}
            /\ pruned' = pruned \cup {c}
            /\ UNCHANGED received

Next == \E c \in Clip : Accept(c) \/ Receive(c) \/ Release(c) \/ Prune(c)

Spec == Init /\ [][Next]_vars
=============================================================================
