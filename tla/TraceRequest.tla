---------------------------- MODULE TraceRequest ----------------------------
(***************************************************************************)
(* What the generator promises to the user interface and to the report     *)
(* interface: a request is being worked on until it has one verdict, at    *)
(* most one debugger works on it, and a good verdict comes from a debugger *)
(* that ran.                                                               *)
(***************************************************************************)
EXTENDS Naturals

VARIABLES
  phase,      \* what is known of the last request
  debuggers,  \* debuggers at work
  closed      \* the program is gone

vars == <<phase, debuggers, closed>>

Init == phase = "Idle" /\ debuggers = 0 /\ closed = FALSE

\* A request that cannot be taken up is answered at once.
Request ==
  /\ ~closed /\ phase # "Working"
  /\ phase' \in {"Working", "Bad"}
  /\ debuggers' = 0 /\ debuggers = 0
  /\ UNCHANGED closed

Launch ==
  /\ ~closed /\ phase = "Working" /\ debuggers = 0
  /\ debuggers' = 1
  /\ UNCHANGED <<phase, closed>>

Conclude ==
  /\ ~closed /\ phase = "Working"
  /\ \/ phase' = "Good" /\ debuggers = 1
     \/ phase' = "Bad"
  /\ debuggers' = 0
  /\ UNCHANGED closed

\* A debugger that is only just starting may be left behind.
Close ==
  /\ ~closed
  /\ closed' = TRUE
  /\ debuggers' \in {0, debuggers}
  /\ UNCHANGED phase

Next == Request \/ Launch \/ Conclude \/ Close

Spec     == Init /\ [][Next]_vars
FairSpec == Spec /\ WF_vars(Conclude)
=============================================================================
