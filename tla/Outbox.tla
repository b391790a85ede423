------------------------------- MODULE Outbox -------------------------------
(***************************************************************************)
(* What the directory of pending crash reports promises: a report that was *)
(* put there stays until the server has it or it is too old to be of use,  *)
(* and does not stay for ever.  The server may get a report again.         *)
(***************************************************************************)
CONSTANT Reports

VARIABLES
    waiting,    \* reports in the outbox
    received,   \* reports the server has
    old         \* reports nobody wants any more

vars == <<waiting, received, old>>

Init == waiting = {} /\ received = {} /\ old = {}

Put(r) ==
    /\ r \notin waiting \cup received \cup old
    /\ waiting' = waiting \cup {r}
    /\ UNCHANGED <<received, old>>

Receive(r) ==
    /\ r \in waiting
    /\ received' = received \cup {r}
    /\ UNCHANGED <<waiting, old>>

GrowOld(r) ==
    /\ old' = old \cup {r}
    /\ UNCHANGED <<waiting, received>>

Leave(r) ==
    /\ r \in waiting \cap (received \cup old)
    /\ waiting' = waiting \ {r}
    /\ UNCHANGED <<received, old>>

Next == \E r \in Reports : Put(r) \/ Receive(r) \/ GrowOld(r) \/ Leave(r)

Spec ==
    /\ Init /\ [][Next]_vars
    /\ \A r \in Reports : WF_vars(Leave(r)) /\ WF_vars(r \in waiting /\ GrowOld(r))
=============================================================================
