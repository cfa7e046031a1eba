---------------------------- MODULE LaunchBarrier ----------------------------
(***************************************************************************)
(* What ap_procs_startup and ap_procs_run promise together, without APIC,   *)
(* presence array or counters: the processors that report while the BSP     *)
(* gathers are the roster; once the barrier is open each of them arrives     *)
(* once and nobody else does; the BSP passes when all have arrived.         *)
(***************************************************************************)
CONSTANT Procs

VARIABLES
  phase,     \* "gather", "open" or "passed"
  roster,    \* the processors that reported
  arrived    \* those that accepted the launch

bvars == <<phase, roster, arrived>>

Init == phase = "gather" /\ roster = {} /\ arrived = {}

Report(a) ==
  /\ phase = "gather"
  /\ roster' = roster \cup {a}
  /\ UNCHANGED <<phase, arrived>>

Open ==
  /\ phase = "gather"
  /\ phase' = "open"
  /\ UNCHANGED <<roster, arrived>>

Arrive(a) ==
  /\ phase = "open"
  /\ a \in roster \ arrived
  /\ arrived' = arrived \cup {a}
  /\ UNCHANGED <<phase, roster>>

\* A barrier nobody reported to need not be opened.
Pass ==
  /\ phase = "open" \/ roster = {}
  /\ arrived = roster
  /\ phase' = "passed"
  /\ UNCHANGED <<roster, arrived>>

Reset ==
  /\ phase = "passed"
  /\ phase' = "gather"
  /\ roster' = {}
  /\ arrived' = {}

Next ==
  \/ Open \/ Pass \/ Reset
  \/ \E a \in Procs : Report(a) \/ Arrive(a)

\* An open barrier does not stay open once everybody has arrived.
Spec == Init /\ [][Next]_bvars /\ WF_bvars(phase = "open" /\ Pass)
=============================================================================
