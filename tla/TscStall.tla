------------------------------- MODULE TscStall -------------------------------
(***************************************************************************)
(* The busy loops that space the IPIs and wait for the APs                  *)
(* (src/startap/ap_procs_init.c): startap_stall_using_tsc counts ticks of   *)
(* the low 32 bits of the time stamp counter, with a rate that              *)
(* startap_calibrate_tsc_ticks_per_msec measures once, on the first stall.  *)
(* All arithmetic is uint32_t.  Between two reads of the counter any number *)
(* of ticks up to Gap may pass (the code between them, an SMI).             *)
(***************************************************************************)
EXTENDS Integers

CONSTANTS
  Word,          \* 2^32
  UsecPerMsec,   \* 1000
  Rate,          \* the ticks that pass during startap_stall(1000), "1 ms"
  Gap,           \* bound: ticks between two reads of the counter
  Stalls,        \* the stall_usec the callers ask for
  Horizon        \* bound of the history variable elapsed

ASSUME StallAssumption ==
  /\ Word \in Nat \ {0} /\ UsecPerMsec \in Nat \ {0} /\ Rate \in Nat \ {0}
  /\ Gap \in Nat \ {0} /\ Horizon \in Nat /\ Stalls \subseteq Nat
  /\ Rate + Gap < Word
  /\ \A usec \in Stalls : (usec * Rate) \div UsecPerMsec >= Gap

VARIABLES
  pc,
  tsc,                         \* (uint32_t)startap_rdtsc() at this moment
  startap_tsc_ticks_per_msec,  \* static, 0 until calibrated
  stall_usec,                  \* the argument
  start_tsc, end_tsc,
  elapsed                      \* history: ticks since the first deadline was set

vars == <<pc, tsc, startap_tsc_ticks_per_msec, stall_usec, start_tsc, end_tsc,
          elapsed>>

Uint32(n) == n % Word

TscTypeOK ==
  /\ pc \in {"idle", "calibrate", "measure", "deadline", "compare", "wait"}
  /\ {tsc, startap_tsc_ticks_per_msec, start_tsc, end_tsc} \subseteq 0 .. Word - 1
  /\ stall_usec \in Stalls \cup {0}
  /\ elapsed \in 0 .. Horizon

Init ==
  /\ pc = "idle"
  /\ tsc \in 0 .. Word - 1
  /\ startap_tsc_ticks_per_msec = 0 /\ stall_usec = 0
  /\ start_tsc = 1 /\ end_tsc = 0
  /\ elapsed = 0

\* ticks pass; elapsed stops counting at the horizon.
Pass(ticks) ==
  /\ tsc' = Uint32(tsc + ticks)
  /\ elapsed' = IF elapsed + ticks > Horizon THEN Horizon ELSE elapsed + ticks

-----------------------------------------------------------------------------
\* startap_stall_using_tsc is called; the first call calibrates.
StallUsingTsc(usec) ==
  /\ pc = "idle"
  /\ pc' = IF startap_tsc_ticks_per_msec = 0 THEN "calibrate" ELSE "deadline"
  /\ stall_usec' = usec
  /\ start_tsc' = 1 /\ end_tsc' = 0
  /\ elapsed' = 0
  /\ UNCHANGED <<tsc, startap_tsc_ticks_per_msec>>

\* startap_calibrate_tsc_ticks_per_msec, the first read.
Calibrate ==
  /\ pc = "calibrate"
  /\ pc' = "measure"
  /\ \E d \in 1 .. Gap : tsc' = Uint32(tsc + d)
  /\ start_tsc' = tsc'
  /\ UNCHANGED <<startap_tsc_ticks_per_msec, stall_usec, end_tsc, elapsed>>

\* The second read, after startap_stall(1000): again if the counter wrapped.
\* The locals of the caller are still the initial ones.
Measure ==
  /\ pc = "measure"
  /\ \E d \in 1 .. Gap : tsc' = Uint32(tsc + Rate + d)
  /\ IF start_tsc > tsc'
     THEN pc' = "calibrate" /\ UNCHANGED <<startap_tsc_ticks_per_msec, start_tsc>>
     ELSE /\ pc' = "deadline"
          /\ startap_tsc_ticks_per_msec' = tsc' - start_tsc
          /\ start_tsc' = 1
  /\ UNCHANGED <<stall_usec, end_tsc, elapsed>>

\* stall_usec * startap_tsc_ticks_per_msec / 1000, a 32-bit product.
StallTicks == Uint32(stall_usec * startap_tsc_ticks_per_msec) \div UsecPerMsec

\* The body of the first loop, up to the second read: the deadline.
Deadline ==
  /\ pc = "deadline"
  /\ pc' = "compare"
  /\ \E d \in 1 .. Gap : Pass(d)
  /\ end_tsc' = Uint32(tsc' + StallTicks)
  /\ UNCHANGED <<startap_tsc_ticks_per_msec, stall_usec, start_tsc>>

\* Mutation: the loop that overcomes the wrap of the deadline is left out.
CompareOnce ==
  /\ pc = "compare"
  /\ \E d \in 1 .. Gap : Pass(d)
  /\ start_tsc' = tsc'
  /\ pc' = "wait"
  /\ UNCHANGED <<startap_tsc_ticks_per_msec, stall_usec, end_tsc>>

\* Mutation: the test of the first loop is reversed, so that it is left only
\* with a deadline that wrapped.
CompareReversed ==
  /\ pc = "compare"
  /\ \E d \in 1 .. Gap : Pass(d)
  /\ start_tsc' = tsc'
  /\ pc' = IF start_tsc' > end_tsc THEN "wait" ELSE "deadline"
  /\ UNCHANGED <<startap_tsc_ticks_per_msec, stall_usec, end_tsc>>

\* The second read: a deadline beyond the wrap is set again.
Compare ==
  /\ pc = "compare"
  /\ \E d \in 1 .. Gap : Pass(d)
  /\ start_tsc' = tsc'
  /\ pc' = IF start_tsc' > end_tsc THEN "deadline" ELSE "wait"
  /\ UNCHANGED <<startap_tsc_ticks_per_msec, stall_usec, end_tsc>>

\* Mutation: only the exact deadline ends the loop.
WaitForEquality ==
  /\ pc = "wait"
  /\ IF start_tsc # end_tsc
     THEN /\ \E d \in 1 .. Gap : Pass(d)
          /\ start_tsc' = tsc'
          /\ UNCHANGED pc
     ELSE pc' = "idle" /\ UNCHANGED <<tsc, elapsed, start_tsc>>
  /\ UNCHANGED <<startap_tsc_ticks_per_msec, stall_usec, end_tsc>>

\* The second loop: one pause and read, or the return.
Wait ==
  /\ pc = "wait"
  /\ IF start_tsc < end_tsc
     THEN /\ \E d \in 1 .. Gap : Pass(d)
          /\ start_tsc' = tsc'
          /\ UNCHANGED pc
     ELSE pc' = "idle" /\ UNCHANGED <<tsc, elapsed, start_tsc>>
  /\ UNCHANGED <<startap_tsc_ticks_per_msec, stall_usec, end_tsc>>

StallStep == Calibrate \/ Measure \/ Deadline \/ Compare \/ Wait

Next == StallStep \/ \E usec \in Stalls : StallUsingTsc(usec)

\* The processor executes its instructions; nobody has to stall again.
Spec == Init /\ [][Next]_vars /\ WF_vars(StallStep)

-----------------------------------------------------------------------------
\* The ticks that were asked for, as a number of any size.
Asked == (stall_usec * startap_tsc_ticks_per_msec) \div UsecPerMsec

\* "Stall (busy loop) for a given time" (ap_procs_init.c:349): a stall returns no
\* earlier than the time it was asked for, wherever in its range the counter is
\* when the stall begins and wherever it wraps.
StallLasts == pc = "idle" => elapsed >= Asked

\* A deadline in the last Gap ticks before the counter wraps may be jumped over
\* by two reads, and the loop waits for the next round of the counter.
CanBeMissed == end_tsc + Gap > Word

\* Any other stall ends in time: a deadline that wraps is set again at most until
\* the counter has wrapped, which costs no more than another stall.
StallBounded ==
  pc \in {"deadline", "compare", "wait", "idle"} /\ ~CanBeMissed =>
    elapsed <= 2 * Asked + 3 * Gap

\* The calibration ends, also across a wrap; the first loop ("to overcome the
\* overflow", ap_procs_init.c:362) finds a deadline; and the wait for a deadline
\* that cannot be missed ends.  The wait for one that can need not end: each round
\* of the counter may jump over it again.
StallEnds ==
  /\ pc = "calibrate" ~> pc = "deadline"
  /\ pc = "deadline" ~> pc = "wait"
  /\ pc = "wait" /\ ~CanBeMissed ~> pc = "idle"
=============================================================================
