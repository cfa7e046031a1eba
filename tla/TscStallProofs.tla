---------------------------- MODULE TscStallProofs ----------------------------
(***************************************************************************)
(* Theorems about TscStall, for a counter of any width and any rate, as     *)
(* long as the 32-bit product of the stall and the measured rate does not   *)
(* overflow (the violation of StallOverflow is what happens when it does).  *)
(***************************************************************************)
EXTENDS TscStall, TLAPS

\* The rates a calibration can measure.
Rates == Rate + 1 .. Rate + Gap

Ticks(usec, rate) == (usec * rate) \div UsecPerMsec

\* The product fits the word, the deadline is not a whole round of the counter
\* away, and the history variable can count that far.
ProductsFit ==
  \A usec \in Stalls, rate \in Rates :
    /\ usec * rate < Word
    /\ Ticks(usec, rate) + Gap <= Word
    /\ Ticks(usec, rate) <= Horizon

\* A processor that stalls has measured the rate, and measures it from one read
\* to another.
CalibratedInv ==
  /\ TscTypeOK
  /\ startap_tsc_ticks_per_msec \in {0} \cup Rates
  /\ pc \in {"calibrate", "measure"} => startap_tsc_ticks_per_msec = 0 /\ elapsed = 0
  /\ pc \in {"deadline", "compare", "wait"} => startap_tsc_ticks_per_msec # 0
  /\ pc # "idle" => stall_usec \in Stalls
  /\ pc = "measure" => start_tsc = tsc
  /\ pc = "compare" => end_tsc = Uint32(tsc + StallTicks)
  /\ pc = "wait" => start_tsc = tsc

\* What is left until the deadline and what has passed make up the stall.
LastsInv ==
  /\ pc = "wait" => elapsed + (IF tsc < end_tsc THEN end_tsc - tsc ELSE 0) >= Asked
  /\ pc = "idle" => elapsed >= Asked

\* A first loop that goes on has begun after Word - Asked, where the deadline
\* wraps, and ends when the counter has wrapped.
BoundInv ==
  /\ pc = "deadline" =>
       \/ elapsed = 0
       \/ tsc >= Word - Asked /\ elapsed <= tsc + Asked - Word + Gap
  /\ pc = "compare" =>
       \/ elapsed <= Gap
       \/ tsc >= Word - Asked /\ elapsed <= tsc + Asked - Word + Gap
       \/ tsc < Gap /\ elapsed <= tsc + Asked + Gap
  /\ pc = "wait" /\ ~CanBeMissed =>
       elapsed + end_tsc <= 2 * Asked + 2 * Gap + tsc /\ tsc < end_tsc + Gap
  /\ pc = "idle" /\ ~CanBeMissed => elapsed <= 2 * Asked + 3 * Gap

StallInv == CalibratedInv /\ LastsInv /\ BoundInv

-----------------------------------------------------------------------------
(***************************************************************************)
(* Arithmetic.                                                             *)
(***************************************************************************)
LEMMA Constants ==
  /\ Word \in Nat \ {0} /\ UsecPerMsec \in Nat \ {0} /\ Rate \in Nat \ {0}
  /\ Gap \in Nat \ {0} /\ Horizon \in Nat /\ Rate + Gap < Word
BY StallAssumption

\* The counter after d ticks.
LEMMA Wraps ==
  ASSUME NEW t \in 0 .. Word - 1, NEW d \in 0 .. Word
  PROVE  /\ Uint32(t + d) = IF t + d < Word THEN t + d ELSE t + d - Word
         /\ Uint32(t + d) \in 0 .. Word - 1
<1>1. CASE t + d < Word
      BY <1>1, Constants DEF Uint32
<1>2. CASE t + d >= Word
  <2>1. /\ t + d - Word \in 0 .. Word - 1
        BY <1>2, Constants
  <2>2. (t + d) % Word = t + d - Word
        BY <2>1, Constants
  <2> QED
        BY <1>2, <2>1, <2>2, Constants DEF Uint32
<1> QED
      BY <1>1, <1>2, Constants

LEMMA ProductMonotone ==
  ASSUME NEW u \in Nat, NEW r \in Nat, NEW s \in Nat, r <= s
  PROVE  u * r \in Nat /\ u * s \in Nat /\ u * r <= u * s
OBVIOUS

LEMMA QuotientMonotone ==
  ASSUME NEW a \in Nat, NEW b \in Nat, a <= b, NEW c \in Nat \ {0}
  PROVE  a \div c \in Nat /\ b \div c \in Nat /\ a \div c <= b \div c /\ a \div c <= a
OBVIOUS

\* What the first loop leaves with d of a ticks gone: f is the deadline, x the
\* counter, e and g the ticks that passed before and after.
LEMMA Remaining ==
  ASSUME NEW a \in Nat, NEW d \in Nat, NEW e \in Nat, NEW f \in Nat, NEW g \in Nat,
         NEW h \in Nat, NEW x \in Nat,
         d <= a, f = x + (a - d), a <= h, g = e + d \/ g = h
  PROVE  g + (IF x < f THEN f - x ELSE 0) >= a
OBVIOUS

LEMMA Spent ==
  ASSUME NEW a \in Nat, NEW d \in Nat, NEW e \in Nat, NEW f \in Nat, NEW g \in Nat,
         NEW h \in Nat \ {0}, NEW x \in Nat,
         d <= a, f = x + (a - d), e <= a + 2 * h, g <= e + d
  PROVE  g + f <= 2 * a + 2 * h + x /\ x < f + h
OBVIOUS

\* d more ticks of the second loop, from x < f.
LEMMA SpentMore ==
  ASSUME NEW a \in Nat, NEW d \in Nat, NEW e \in Nat, NEW f \in Nat, NEW g \in Nat,
         NEW h \in Nat, NEW x \in Nat,
         d <= h, x < f, e + f <= 2 * a + 2 * h + x, g <= e + d
  PROVE  g + f <= 2 * a + 2 * h + (x + d) /\ x + d < f + h
OBVIOUS

\* The measured rate gives at least the ticks of the true one.
LEMMA TicksAre ==
  ASSUME ProductsFit, NEW usec \in Stalls, NEW rate \in Rates
  PROVE  /\ Ticks(usec, rate) \in Nat /\ Gap <= Ticks(usec, rate)
         /\ Ticks(usec, rate) + Gap <= Word /\ Ticks(usec, rate) <= Horizon
         /\ Uint32(usec * rate) = usec * rate
<1>1. usec \in Nat /\ rate \in Nat /\ Rate <= rate /\ UsecPerMsec \in Nat \ {0}
      BY StallAssumption DEF Rates
<1>2. usec * rate \in Nat /\ usec * Rate \in Nat /\ usec * Rate <= usec * rate
      BY <1>1, Constants, ProductMonotone
<1>3. /\ Ticks(usec, rate) \in Nat
      /\ (usec * Rate) \div UsecPerMsec <= Ticks(usec, rate)
      /\ (usec * Rate) \div UsecPerMsec \in Nat
      BY <1>1, <1>2, QuotientMonotone DEF Ticks
<1>4. Gap <= (usec * Rate) \div UsecPerMsec
      BY StallAssumption
<1>5. /\ usec * rate < Word /\ Ticks(usec, rate) + Gap <= Word
      /\ Ticks(usec, rate) <= Horizon
      BY DEF ProductsFit
<1>6. Uint32(usec * rate) = usec * rate
      BY <1>2, <1>5, Constants DEF Uint32
<1> QED
      BY <1>3, <1>4, <1>5, <1>6, Constants

LEMMA TypesAre ==
  ASSUME CalibratedInv
  PROVE  /\ tsc \in 0 .. Word - 1 /\ start_tsc \in 0 .. Word - 1
         /\ end_tsc \in 0 .. Word - 1 /\ elapsed \in 0 .. Horizon
         /\ startap_tsc_ticks_per_msec \in 0 .. Word - 1
BY DEF CalibratedInv, TscTypeOK

\* During a stall the ticks the code computes are the ticks asked for.
LEMMA AskedIs ==
  ASSUME ProductsFit, CalibratedInv, pc \in {"deadline", "compare", "wait"}
  PROVE  /\ Asked \in Nat /\ Gap <= Asked /\ Asked + Gap <= Word /\ Asked <= Horizon
         /\ StallTicks = Asked
<1>1. stall_usec \in Stalls /\ startap_tsc_ticks_per_msec \in Rates
      BY DEF CalibratedInv
<1> QED
      BY <1>1, TicksAre DEF Ticks, Asked, StallTicks

-----------------------------------------------------------------------------
(***************************************************************************)
(* The steps.                                                              *)
(***************************************************************************)
LEMMA InitStall == Init => StallInv
<1> SUFFICES ASSUME Init PROVE StallInv
    OBVIOUS
<1>1. CalibratedInv
      BY Constants DEF Init, CalibratedInv, TscTypeOK
<1>2. Asked = 0
  <2>1. 0 * 0 = 0 /\ 0 \div UsecPerMsec = 0
        BY Constants
  <2> QED
        BY <2>1 DEF Init, Asked
<1>3. LastsInv /\ BoundInv
      BY <1>2, Constants DEF Init, LastsInv, BoundInv
<1> QED
      BY <1>1, <1>3 DEF StallInv

\* What d ticks do to the counter and to the history variable.
LEMMA Passes ==
  ASSUME CalibratedInv, NEW d \in 1 .. Gap, Pass(d)
  PROVE  /\ tsc' = IF tsc + d < Word THEN tsc + d ELSE tsc + d - Word
         /\ tsc' \in 0 .. Word - 1 /\ elapsed' \in 0 .. Horizon
         /\ elapsed' = elapsed + d \/ elapsed' = Horizon
         /\ elapsed' <= elapsed + d
<1>1. d \in 0 .. Word
      BY Constants
<1>2. /\ tsc' = IF tsc + d < Word THEN tsc + d ELSE tsc + d - Word
      /\ tsc' \in 0 .. Word - 1
      BY <1>1, TypesAre, Wraps DEF Pass
<1>3. /\ elapsed' \in 0 .. Horizon /\ elapsed' <= elapsed + d
      /\ elapsed' = elapsed + d \/ elapsed' = Horizon
      BY TypesAre, Constants DEF Pass
<1> QED
      BY <1>2, <1>3

LEMMA BeginStall ==
  ASSUME StallInv, NEW usec \in Stalls, StallUsingTsc(usec)
  PROVE  StallInv'
<1>1. /\ pc' \in {"calibrate", "deadline"} /\ elapsed' = 0
      /\ pc' = "calibrate" <=> startap_tsc_ticks_per_msec = 0
      /\ stall_usec' = usec /\ start_tsc' = 1 /\ end_tsc' = 0 /\ tsc' = tsc
      /\ startap_tsc_ticks_per_msec' = startap_tsc_ticks_per_msec
      BY DEF StallUsingTsc
<1>2. CalibratedInv'
      BY <1>1, TypesAre, Constants DEF StallInv, CalibratedInv, TscTypeOK
<1> QED
      BY <1>1, <1>2 DEF StallInv, LastsInv, BoundInv

LEMMA CalibrateStall ==
  ASSUME StallInv, Calibrate
  PROVE  StallInv'
<1>1. PICK d \in 1 .. Gap : tsc' = Uint32(tsc + d)
      BY DEF Calibrate
<1>2. d \in 0 .. Word
      BY Constants
<1>3. tsc' \in 0 .. Word - 1
      BY <1>1, <1>2, TypesAre, Wraps DEF StallInv
<1>4. /\ pc = "calibrate" /\ pc' = "measure" /\ start_tsc' = tsc'
      /\ startap_tsc_ticks_per_msec' = startap_tsc_ticks_per_msec
      /\ stall_usec' = stall_usec /\ end_tsc' = end_tsc /\ elapsed' = elapsed
      BY DEF Calibrate
<1>5. CalibratedInv'
      BY <1>3, <1>4, TypesAre, Constants DEF StallInv, CalibratedInv, TscTypeOK
<1> QED
      BY <1>4, <1>5 DEF StallInv, LastsInv, BoundInv

LEMMA MeasureStall ==
  ASSUME StallInv, Measure
  PROVE  StallInv'
<1>1. PICK d \in 1 .. Gap : tsc' = Uint32(tsc + Rate + d)
      BY DEF Measure
<1>2. /\ pc = "measure" /\ stall_usec' = stall_usec /\ end_tsc' = end_tsc
      /\ elapsed' = elapsed /\ elapsed = 0 /\ start_tsc = tsc
      /\ startap_tsc_ticks_per_msec = 0
      BY DEF Measure, StallInv, CalibratedInv
<1>3. Rate + d \in 0 .. Word /\ Rate + d \in Rates /\ Rate + d < Word
      BY Constants DEF Rates
<1>4. /\ tsc' = IF tsc + (Rate + d) < Word THEN tsc + (Rate + d)
                ELSE tsc + (Rate + d) - Word
      /\ tsc' \in 0 .. Word - 1
  <2>1. tsc + Rate + d = tsc + (Rate + d)
        BY TypesAre, Constants DEF StallInv
  <2> QED
        BY <1>1, <1>3, <2>1, TypesAre, Wraps DEF StallInv
<1>5. CASE start_tsc > tsc'
  <2>1. /\ pc' = "calibrate" /\ start_tsc' = start_tsc
        /\ startap_tsc_ticks_per_msec' = startap_tsc_ticks_per_msec
        BY <1>5 DEF Measure
  <2>2. CalibratedInv'
        BY <1>2, <1>4, <2>1, TypesAre, Constants DEF StallInv, CalibratedInv, TscTypeOK
  <2> QED
        BY <2>1, <2>2 DEF StallInv, LastsInv, BoundInv
<1>6. CASE ~(start_tsc > tsc')
  <2>1. /\ pc' = "deadline" /\ start_tsc' = 1
        /\ startap_tsc_ticks_per_msec' = tsc' - start_tsc
        BY <1>6 DEF Measure
  <2>2. tsc' - start_tsc = Rate + d
        BY <1>2, <1>3, <1>4, <1>6, TypesAre, Constants DEF StallInv
  <2>3. /\ startap_tsc_ticks_per_msec' \in Rates /\ startap_tsc_ticks_per_msec' # 0
        /\ startap_tsc_ticks_per_msec' \in 0 .. Word - 1
        BY <1>3, <2>1, <2>2, Constants
  <2>4. CalibratedInv'
        BY <1>2, <1>4, <2>1, <2>3, TypesAre, Constants DEF StallInv, CalibratedInv, TscTypeOK
  <2> QED
        BY <1>2, <2>1, <2>4 DEF StallInv, LastsInv, BoundInv
<1> QED
      BY <1>5, <1>6

LEMMA DeadlineStall ==
  ASSUME ProductsFit, StallInv, Deadline
  PROVE  StallInv'
<1>1. PICK d \in 1 .. Gap : Pass(d)
      BY DEF Deadline
<1>2. /\ pc = "deadline" /\ pc' = "compare" /\ end_tsc' = Uint32(tsc' + StallTicks)
      /\ startap_tsc_ticks_per_msec' = startap_tsc_ticks_per_msec
      /\ stall_usec' = stall_usec /\ start_tsc' = start_tsc
      BY DEF Deadline
<1>3. Asked' = Asked /\ StallTicks' = StallTicks
      BY <1>2 DEF Asked, StallTicks
<1>4. /\ Asked \in Nat /\ Asked + Gap <= Word /\ StallTicks = Asked
      BY <1>2, AskedIs DEF StallInv
<1>5. /\ tsc' = IF tsc + d < Word THEN tsc + d ELSE tsc + d - Word
      /\ tsc' \in 0 .. Word - 1 /\ elapsed' \in 0 .. Horizon
      /\ elapsed' <= elapsed + d
      BY <1>1, Passes DEF StallInv
<1>6. end_tsc' \in 0 .. Word - 1
  <2>1. Asked \in 0 .. Word
        BY <1>4, Constants
  <2> QED
        BY <1>2, <1>4, <1>5, <2>1, Wraps
<1>7. CalibratedInv'
      BY <1>2, <1>3, <1>5, <1>6, TypesAre DEF StallInv, CalibratedInv, TscTypeOK
<1>8. \/ elapsed' <= Gap
      \/ tsc' >= Word - Asked /\ elapsed' <= tsc' + Asked - Word + Gap
      \/ tsc' < Gap /\ elapsed' <= tsc' + Asked + Gap
  <2>1. /\ tsc \in 0 .. Word - 1 /\ elapsed \in Nat
        /\ \/ elapsed = 0
           \/ tsc >= Word - Asked /\ elapsed <= tsc + Asked - Word + Gap
        BY <1>2, TypesAre, Constants DEF StallInv, BoundInv
  <2> QED
        BY <1>4, <1>5, <2>1, Constants
<1> QED
      BY <1>2, <1>3, <1>7, <1>8 DEF StallInv, LastsInv, BoundInv

LEMMA CompareStall ==
  ASSUME ProductsFit, StallInv, Compare
  PROVE  StallInv'
<1>1. PICK d \in 1 .. Gap : Pass(d)
      BY DEF Compare
<1>2. /\ pc = "compare" /\ end_tsc' = end_tsc /\ start_tsc' = tsc'
      /\ pc' = IF tsc' > end_tsc THEN "deadline" ELSE "wait"
      /\ startap_tsc_ticks_per_msec' = startap_tsc_ticks_per_msec
      /\ stall_usec' = stall_usec
      BY DEF Compare
<1>3. Asked' = Asked
      BY <1>2 DEF Asked
<1>4. /\ Asked \in Nat /\ Gap <= Asked /\ Asked + Gap <= Word /\ Asked <= Horizon
      /\ StallTicks = Asked
      BY <1>2, AskedIs DEF StallInv
<1>5. /\ tsc' = IF tsc + d < Word THEN tsc + d ELSE tsc + d - Word
      /\ tsc' \in 0 .. Word - 1 /\ elapsed' \in 0 .. Horizon
      /\ elapsed' = elapsed + d \/ elapsed' = Horizon
      /\ elapsed' <= elapsed + d
      BY <1>1, Passes DEF StallInv
<1>6. /\ tsc \in 0 .. Word - 1 /\ elapsed \in Nat /\ end_tsc \in 0 .. Word - 1
      /\ end_tsc = IF tsc + Asked < Word THEN tsc + Asked ELSE tsc + Asked - Word
  <2>1. Asked \in 0 .. Word /\ tsc \in 0 .. Word - 1
        BY <1>4, TypesAre, Constants DEF StallInv
  <2>2. end_tsc = Uint32(tsc + Asked)
        BY <1>2, <1>4 DEF StallInv, CalibratedInv
  <2>3. end_tsc = IF tsc + Asked < Word THEN tsc + Asked ELSE tsc + Asked - Word
        BY <2>1, <2>2, Wraps
  <2>4. elapsed \in Nat /\ end_tsc \in 0 .. Word - 1
        BY TypesAre, Constants DEF StallInv
  <2> QED
        BY <2>1, <2>3, <2>4
<1>7. CalibratedInv'
  <2>1. TscTypeOK'
        BY <1>2, <1>5, <1>6, TypesAre DEF StallInv, CalibratedInv, TscTypeOK
  <2> QED
        BY <1>2, <2>1 DEF StallInv, CalibratedInv
<1>8. \/ elapsed <= Gap
      \/ tsc >= Word - Asked /\ elapsed <= tsc + Asked - Word + Gap
      \/ tsc < Gap /\ elapsed <= tsc + Asked + Gap
      BY <1>2 DEF StallInv, BoundInv
<1>9. CASE tsc' > end_tsc
  <2>1. tsc + Asked >= Word /\ tsc' = tsc + d
        BY <1>4, <1>5, <1>6, <1>9, Constants
  <2>2. tsc' >= Word - Asked /\ elapsed' <= tsc' + Asked - Word + Gap
        BY <1>4, <1>5, <1>6, <1>8, <2>1, Constants
  <2> QED
        BY <1>2, <1>3, <1>7, <1>9, <2>2 DEF StallInv, LastsInv, BoundInv
<1>10. CASE ~(tsc' > end_tsc)
  <2>1. /\ d \in Nat /\ d <= Gap /\ tsc' \in Nat /\ end_tsc \in Nat /\ elapsed' \in Nat
        /\ elapsed \in Nat /\ Asked \in Nat /\ Gap \in Nat \ {0} /\ Asked <= Horizon
        BY <1>4, <1>5, <1>6, Constants
  <2>2. end_tsc = tsc' + (Asked - d) /\ d <= Asked
        BY <1>4, <1>5, <1>6, <1>10, Constants
  <2>3. elapsed <= Asked + 2 * Gap
        BY <1>4, <1>6, <1>8, Constants
  <2>4. elapsed' + (IF tsc' < end_tsc THEN end_tsc - tsc' ELSE 0) >= Asked
    <3>1. elapsed' = elapsed + d \/ elapsed' = Horizon
          BY <1>5
    <3> QED
          BY <2>1, <2>2, <3>1, Constants, Remaining
  <2>5. elapsed' + end_tsc <= 2 * Asked + 2 * Gap + tsc' /\ tsc' < end_tsc + Gap
    <3>1. elapsed' <= elapsed + d
          BY <1>5
    <3> QED
          BY <2>1, <2>2, <2>3, <3>1, Spent
  <2> QED
        BY <1>2, <1>3, <1>7, <1>10, <2>4, <2>5 DEF StallInv, LastsInv, BoundInv
<1> QED
      BY <1>9, <1>10

LEMMA WaitStall ==
  ASSUME ProductsFit, StallInv, Wait
  PROVE  StallInv'
<1>1. /\ pc = "wait" /\ end_tsc' = end_tsc /\ start_tsc = tsc
      /\ startap_tsc_ticks_per_msec' = startap_tsc_ticks_per_msec
      /\ stall_usec' = stall_usec
      BY DEF Wait, StallInv, CalibratedInv
<1>2. Asked' = Asked /\ (CanBeMissed' <=> CanBeMissed)
      BY <1>1 DEF Asked, CanBeMissed
<1>3. /\ Asked \in Nat /\ Gap <= Asked /\ Asked + Gap <= Word /\ Asked <= Horizon
      BY <1>1, AskedIs DEF StallInv
<1>4. /\ tsc \in 0 .. Word - 1 /\ elapsed \in Nat /\ end_tsc \in 0 .. Word - 1
      BY TypesAre, Constants DEF StallInv
<1>5. elapsed + (IF tsc < end_tsc THEN end_tsc - tsc ELSE 0) >= Asked
      BY <1>1 DEF StallInv, LastsInv
<1>6. ~CanBeMissed => /\ elapsed + end_tsc <= 2 * Asked + 2 * Gap + tsc
                      /\ tsc < end_tsc + Gap /\ end_tsc + Gap <= Word
      BY <1>1, <1>4, Constants DEF StallInv, BoundInv, CanBeMissed
<1>7. CASE tsc < end_tsc
  <2>1. PICK d \in 1 .. Gap : Pass(d)
        BY <1>1, <1>7 DEF Wait
  <2>2. start_tsc' = tsc' /\ pc' = "wait"
        BY <1>1, <1>7 DEF Wait
  <2>3. /\ tsc' = IF tsc + d < Word THEN tsc + d ELSE tsc + d - Word
        /\ tsc' \in 0 .. Word - 1 /\ elapsed' \in 0 .. Horizon
        /\ elapsed' = elapsed + d \/ elapsed' = Horizon
        /\ elapsed' <= elapsed + d
        BY <2>1, Passes DEF StallInv
  <2>4. CalibratedInv'
    <3>1. TscTypeOK'
          BY <1>1, <1>4, <2>2, <2>3, TypesAre DEF StallInv, CalibratedInv, TscTypeOK
    <3> QED
          BY <1>1, <2>2, <3>1 DEF StallInv, CalibratedInv
  <2> DEFINE left == IF tsc' < end_tsc THEN end_tsc - tsc' ELSE 0
  <2>5. elapsed' + left >= Asked
    <3>1. d \in Nat /\ left \in Nat /\ elapsed' \in Nat /\ left + d >= end_tsc - tsc
      <4>1. CASE tsc + d < Word
            BY <1>4, <1>7, <2>3, <4>1, Constants
      <4>2. CASE tsc + d >= Word
            BY <1>4, <1>7, <2>3, <4>2, Constants
      <4> QED
            BY <1>4, <4>1, <4>2, Constants
    <3>2. elapsed + (end_tsc - tsc) >= Asked
          BY <1>5, <1>7
    <3> HIDE DEF left
    <3>3. CASE elapsed' = elapsed + d
          BY <1>3, <1>4, <3>1, <3>2, <3>3
    <3>4. CASE elapsed' = Horizon
          BY <1>3, <3>1, <3>4, Constants
    <3> QED
          BY <2>3, <3>3, <3>4
  <2>6. ~CanBeMissed => /\ elapsed' + end_tsc <= 2 * Asked + 2 * Gap + tsc'
                        /\ tsc' < end_tsc + Gap
    <3> SUFFICES ASSUME ~CanBeMissed
                 PROVE  /\ elapsed' + end_tsc <= 2 * Asked + 2 * Gap + tsc'
                        /\ tsc' < end_tsc + Gap
        OBVIOUS
    <3>1. d \in Nat /\ d <= Gap /\ Gap \in Nat /\ Word \in Nat
          BY Constants
    <3>2. tsc + d < Word /\ tsc \in Nat /\ end_tsc \in Nat
          BY <1>4, <1>6, <1>7, <3>1
    <3>3. tsc' = tsc + d /\ elapsed' <= elapsed + d /\ elapsed' \in Nat
          BY <2>3, <3>2, Constants
    <3>4. /\ elapsed + end_tsc <= 2 * Asked + 2 * Gap + tsc /\ tsc < end_tsc
          /\ elapsed \in Nat /\ Asked \in Nat
          BY <1>3, <1>4, <1>6, <1>7
    <3> QED
          BY <3>1, <3>2, <3>3, <3>4, SpentMore
  <2> QED
        BY <1>1, <1>2, <2>2, <2>4, <2>5, <2>6 DEF StallInv, LastsInv, BoundInv
<1>8. CASE ~(tsc < end_tsc)
  <2>1. pc' = "idle" /\ tsc' = tsc /\ elapsed' = elapsed /\ start_tsc' = start_tsc
        BY <1>1, <1>8 DEF Wait
  <2>2. CalibratedInv'
    <3>1. TscTypeOK'
          BY <1>1, <2>1, TypesAre DEF StallInv, CalibratedInv, TscTypeOK
    <3> QED
          BY <1>1, <2>1, <3>1 DEF StallInv, CalibratedInv
  <2>3. elapsed >= Asked
        BY <1>3, <1>4, <1>5, <1>8
  <2>4. ~CanBeMissed => elapsed <= 2 * Asked + 3 * Gap
        BY <1>3, <1>4, <1>6, <1>8, Constants
  <2> QED
        BY <1>1, <1>2, <2>1, <2>2, <2>3, <2>4 DEF StallInv, LastsInv, BoundInv
<1> QED
      BY <1>7, <1>8

LEMMA StutterStall ==
  ASSUME StallInv, UNCHANGED vars
  PROVE  StallInv'
BY DEF vars, StallInv, CalibratedInv, TscTypeOK, LastsInv, BoundInv, Asked, StallTicks,
   CanBeMissed

LEMMA StallAlways == ASSUME ProductsFit PROVE Spec => []StallInv
<1>1. StallInv /\ [Next]_vars => StallInv'
      BY BeginStall, CalibrateStall, MeasureStall, DeadlineStall, CompareStall,
         WaitStall, StutterStall DEF Next, StallStep
<1> QED
      BY <1>1, InitStall, PTL DEF Spec

\* As long as the product of the stall and the measured rate fits the word, no
\* stall returns before its time, wherever the counter begins and wraps.
THEOREM StallsLast == ASSUME ProductsFit PROVE Spec => []StallLasts
<1>1. StallInv => StallLasts
      BY DEF StallInv, LastsInv, StallLasts
<1> QED
      BY <1>1, StallAlways, PTL

\* And none whose deadline two reads cannot jump over lasts longer than twice
\* what was asked for and three reads, however often the first loop sets the
\* deadline again.
THEOREM StallsAreBounded == ASSUME ProductsFit PROVE Spec => []StallBounded
<1>1. ASSUME StallInv PROVE StallBounded
  <2> SUFFICES ASSUME pc \in {"deadline", "compare", "wait", "idle"}, ~CanBeMissed
               PROVE  elapsed <= 2 * Asked + 3 * Gap
      BY DEF StallBounded
  <2>1. /\ tsc \in 0 .. Word - 1 /\ elapsed \in Nat /\ end_tsc \in 0 .. Word - 1
        BY <1>1, TypesAre, Constants DEF StallInv
  <2>2. CASE pc = "idle"
        BY <1>1, <2>2 DEF StallInv, BoundInv
  <2>3. CASE pc # "idle"
    <3>1. Asked \in Nat /\ Gap <= Asked
          BY <1>1, <2>3, AskedIs DEF StallInv
    <3>2. CASE pc = "deadline"
          BY <1>1, <2>1, <3>1, <3>2, Constants DEF StallInv, BoundInv
    <3>3. CASE pc = "compare"
          BY <1>1, <2>1, <3>1, <3>3, Constants DEF StallInv, BoundInv
    <3>4. CASE pc = "wait"
          BY <1>1, <2>1, <3>1, <3>4, Constants DEF StallInv, BoundInv
    <3> QED
          BY <2>3, <3>2, <3>3, <3>4
  <2> QED
        BY <2>2, <2>3
<1> QED
      BY <1>1, StallAlways, PTL
=============================================================================
