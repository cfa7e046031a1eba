--------------------------- MODULE ApStartupProofs ---------------------------
(***************************************************************************)
(* Theorems about ApStartup, for any number of APs, any APIC ids, any      *)
(* number of startap_main calls and any subset of APs that answer.         *)
(***************************************************************************)
EXTENDS ApStartup, TLAPS

\* What the assumptions say of single constants.
LEMMA MaxCpuRange == MaxCpu \in 2 .. 256
BY ApicIdAssumption

LEMMA ApicIdRange == \A a \in APs : ApicId[a] \in 1 .. MaxCpu - 1
BY ApicIdAssumption

LEMMA MaxCallsType == MaxCalls \in Nat \ {0}
BY CallAssumption

LEMMA Init32Type == Init32Inputs \subseteq {"null", "nopage", "ok"}
BY CallAssumption

-----------------------------------------------------------------------------
(***************************************************************************)
(* Type correctness.  The uint8_t counter of bsp_enumerate_aps does not     *)
(* wrap because it is behind the loop index, which stops at MaxCpu.        *)
(***************************************************************************)
CountBounds == bsp = "enumerate" => k <= MaxCpu /\ ap_num < k

TypeInv == TypeOK /\ CountBounds

LEMMA InitTypeInv == Init => TypeInv
<1> SUFFICES ASSUME Init PROVE TypeInv
    OBVIOUS
<1> USE MaxCpuRange, MaxCallsType DEF Init
<1>1. BspType /\ CountBounds
      BY DEF BspType, CountBounds, BspStates
<1>2. HwType /\ ArgType
      BY DEF HwType, ArgType, NoIpi
<1>3. SyncType
      BY DEF SyncType, MP_BOOTSTRAP_STATE_INIT
<1>4. ApType
      BY DEF ApType, ApStates, NoStack, NoCtx
<1> QED
      BY <1>1, <1>2, <1>3, <1>4 DEF TypeInv, TypeOK

\* The destinations of a round are sets of APs.
LEMMA DestsType ==
  ASSUME BspType
  PROVE  \A i \in 1 .. Len(Dests) : Dests[i] \subseteq APs
BY DEF BspType, Dests

\* The steps of the BSP outside the APIC.
LEMMA BspStepTypeInv ==
  ASSUME TypeInv, BspStep \/ BspReturns
  PROVE  TypeInv'
<1> USE DEF TypeInv, TypeOK
<1>1. CASE InitEnv \/ RunState
  <2>1. SyncType'
        BY <1>1 DEF InitEnv, RunState, SyncType
  <2> QED
        BY <1>1, <2>1 DEF InitEnv, RunState, BspType, BspStates, CountBounds,
           HwType, hwVars, ArgType, argVars, ApType, apVars
<1>2. CASE SetupLowMemory \/ RunFunc \/ RunData
  <2>1. BspType' /\ CountBounds'
        BY <1>2 DEF SetupLowMemory, RunFunc, RunData, BspType, BspStates,
           CountBounds
  <2>2. HwType' /\ ArgType'
        BY <1>2 DEF SetupLowMemory, RunFunc, RunData, HwType, hwVars, ArgType,
           argVars
  <2> QED
        BY <1>2, <2>1, <2>2 DEF SetupLowMemory, RunFunc, RunData, SyncType,
           syncVars, ApType, apVars
<1>3. CASE SendInitSipi
  <2>1. icr' \in [kind : {"none", "INIT", "SIPI"}, due : SUBSET APs]
        BY <1>3, DestsType
        DEF SendInitSipi, SendIpi, EndRound, NoIpi, HwType, BspType
  <2>2. k' \in Nat \ {0} /\ bsp' \in BspStates /\ bsp' # "enumerate"
        BY <1>3 DEF SendInitSipi, SendIpi, EndRound, BspType, BspStates
  <2> QED
        BY <1>3, <2>1, <2>2 DEF SendInitSipi, BspType, CountBounds, HwType,
           SyncType, syncVars, ArgType, argVars, ApType, apVars
<1>4. CASE Stall
  <2>1. BspType' /\ CountBounds'
        BY <1>4, MaxCpuRange DEF Stall, BspType, BspStates, CountBounds
  <2> QED
        BY <1>4, <2>1 DEF Stall, HwType, hwVars, SyncType, syncVars, ArgType,
           argVars, ApType, apVars
<1>5. CASE EnumerateAp
  <2>1. ap_num' \in 0 .. MaxCpu - 1 /\ k' \in 1 .. MaxCpu /\ ap_num' < k'
        BY <1>5, MaxCpuRange DEF EnumerateAp, Uint8, BspType, CountBounds
  <2>2. SyncType'
        BY <1>5, <2>1 DEF EnumerateAp, SyncType
  <2>3. BspType' /\ CountBounds'
        BY <1>5, <2>1, MaxCpuRange DEF EnumerateAp, BspType, CountBounds
  <2> QED
        BY <1>5, <2>2, <2>3 DEF EnumerateAp, HwType, hwVars, ArgType, argVars,
           ApType, apVars
<1>6. CASE StartupReturns
  <2>1. BspType' /\ CountBounds' /\ SyncType'
        BY <1>6, MaxCpuRange
        DEF StartupReturns, BspType, BspStates, CountBounds, SyncType
  <2> QED
        BY <1>6, <2>1 DEF StartupReturns, HwType, hwVars, ArgType, argVars,
           ApType, apVars
<1>7. CASE SetupParams
  <2>1. BspType' /\ CountBounds' /\ ArgType'
        BY <1>7, MaxCpuRange
        DEF SetupParams, BspType, BspStates, CountBounds, ArgType, Uint16
  <2> QED
        BY <1>7, <2>1 DEF SetupParams, HwType, hwVars, SyncType, syncVars,
           ApType, apVars
<1>8. CASE RunWait \/ BspLaunch \/ BspReturns
  <2>1. BspType' /\ CountBounds'
        BY <1>8 DEF RunWait, BspLaunch, BspReturns, BspType, BspStates,
           CountBounds
  <2> QED
        BY <1>8, <2>1 DEF RunWait, BspLaunch, BspReturns, HwType, hwVars,
           SyncType, syncVars, ArgType, argVars, ApType, apVars
<1> QED
      BY <1>1, <1>2, <1>3, <1>4, <1>5, <1>6, <1>7, <1>8 DEF BspStep

\* The steps of an AP and of the APIC.
LEMMA ApStepTypeInv ==
  ASSUME TypeInv, NEW a \in APs,
         ApStep(a) \/ ApReturns(a) \/ AcceptIpi(a) \/ IgnoreIpi(a)
  PROVE  TypeInv'
<1> USE DEF TypeInv, TypeOK
<1>1. BspType' /\ CountBounds' /\ ArgType'
      BY DEF ApStep, ApStartUpCode, ApReport, ApWaitLock1, ApReadId, ApSetStack,
         ApIncReady, ApCallUser, ApReturns, AcceptIpi, IgnoreIpi, BspType,
         CountBounds, ArgType, bspVars, argVars
<1>2. HwType'
      BY DEF ApStep, ApStartUpCode, ApReport, ApWaitLock1, ApReadId, ApSetStack,
         ApIncReady, ApCallUser, ApReturns, AcceptIpi, IgnoreIpi, Delivered,
         NoIpi, HwType, hwVars
<1>3. SyncType'
  <2>1. CASE ApReport(a)
        BY <2>1, ApicIdRange, MaxCpuRange DEF ApReport, SyncType
  <2>2. CASE ApIncReady(a)
        BY <2>2 DEF ApIncReady, SyncType
  <2> QED
        BY <2>1, <2>2 DEF ApStep, ApStartUpCode, ApWaitLock1, ApReadId,
           ApSetStack, ApCallUser, ApReturns, AcceptIpi, IgnoreIpi, SyncType,
           syncVars
<1>4. ApType'
  <2> USE DEF ApType
  <2>1. CASE ApStartUpCode(a) \/ ApReport(a) \/ ApWaitLock1(a) \/ ApIncReady(a)
              \/ ApReturns(a)
        BY <2>1 DEF ApStartUpCode, ApReport, ApWaitLock1, ApIncReady, ApReturns,
           ApStates
  <2>2. CASE ApReadId(a)
    <3>1. ap_presence_array[ApicId[a]] \in 0 .. MaxCpu - 1
          BY ApicIdRange, MaxCpuRange DEF SyncType
    <3> QED
          BY <2>2, <3>1 DEF ApReadId, ApStates
  <2>3. CASE ApSetStack(a)
        BY <2>3 DEF ApSetStack, ApStates
  <2>4. CASE ApCallUser(a)
    <3>1. [params |-> application_params, init64 |-> gp_init64]
            \in [params : 0 .. MaxCalls, init64 : 0 .. MaxCalls]
          BY DEF ArgType
    <3> QED
          BY <2>4, <3>1 DEF ApCallUser, ApStates
  <2>5. CASE AcceptIpi(a) \/ IgnoreIpi(a)
        BY <2>5 DEF AcceptIpi, IgnoreIpi, apVars, ApStates
  <2> QED
        BY <2>1, <2>2, <2>3, <2>4, <2>5 DEF ApStep
<1> QED
      BY <1>1, <1>2, <1>3, <1>4

LEMMA NextTypeInv == TypeInv /\ [Next]_vars => TypeInv'
<1> SUFFICES ASSUME TypeInv, [Next]_vars PROVE TypeInv'
    OBVIOUS
<1> USE DEF TypeInv, TypeOK
<1>1. CASE UNCHANGED vars
      BY <1>1 DEF vars, bspVars, hwVars, syncVars, argVars, apVars, BspType,
         CountBounds, HwType, SyncType, ArgType, ApType
<1>2. ASSUME NEW i \in Init32Inputs, NEW g \in Init64Given, NEW post \in BOOLEAN,
             NEW t \in Seq(APs), StartapMain(i, g, post, t)
      PROVE  TypeInv'
  <2>1. BspType' /\ CountBounds'
        BY <1>2, MaxCpuRange, MaxCallsType, Init32Type
        DEF StartapMain, BspType, BspStates, CountBounds
  <2> QED
        BY <1>2, <2>1 DEF StartapMain, HwType, hwVars, SyncType, syncVars,
           ArgType, argVars, ApType, apVars
<1>3. CASE ReuseLowMemory
      BY <1>3 DEF ReuseLowMemory, HwType, bspVars, BspType, CountBounds,
         SyncType, syncVars, ArgType, argVars, ApType, apVars
<1>4. CASE Resume
  <2>1. ApType'
        BY <1>4, MaxCpuRange, MaxCallsType DEF Resume, ApType, ApStates, NoCtx
  <2>2. BspType' /\ CountBounds' /\ HwType'
        BY <1>4 DEF Resume, BspType, BspStates, CountBounds, HwType
  <2> QED
        BY <1>4, <2>1, <2>2 DEF Resume, SyncType, syncVars, ArgType, argVars
<1>5. CASE \E a \in APs : ApStep(a) \/ ApReturns(a) \/ AcceptIpi(a) \/ IgnoreIpi(a)
      BY <1>5, ApStepTypeInv
<1>6. CASE BspStep \/ BspReturns
      BY <1>6, BspStepTypeInv
<1>7. <<>> \in Seq(APs) /\ \A t \in TargetLists : t \in Seq(APs)
      BY CallAssumption
<1> QED
      BY <1>1, <1>2, <1>3, <1>4, <1>5, <1>6, <1>7
      DEF Next, Done, RunPause, ApPause

\* Every variable keeps its type, for every value of the constants: the uint8_t
\* ordered IDs never wrap and every index into ap_presence_array is in range.
THEOREM TypeCorrect == Spec => []TypeOK
<1>1. TypeInv => TypeOK
      BY DEF TypeInv
<1> QED
      BY <1>1, InitTypeInv, NextTypeInv, PTL DEF Spec

-----------------------------------------------------------------------------
(***************************************************************************)
(* The ordered IDs.  OrderedIdsDistinct is not inductive: that no report    *)
(* overwrites an ID rests on no AP being on its way while the BSP           *)
(* enumerates, that on the ICR being idle after the rounds and on the       *)
(* stall; that an AP reads its ID only afterwards rests on the value of     *)
(* mp_bootstrap_state in every state of the BSP.                           *)
(***************************************************************************)
Sending   == {"send_init", "send_sipi_1", "send_sipi_2"}
Unstarted == {"startap_main", "env", "page"}
Released  == {"run_wait", "start_application", "xmon", "halted", "wild"}
PastLock(a) == ap[a] = "stage_2" \/ HasId(a)

\* The entries below n are ordered IDs: at most m, increasing with the APIC id.
Ordered(n, m) ==
  \A i \in 1 .. n - 1 :
    /\ ap_presence_array[i] <= m
    /\ \A j \in 1 .. n - 1 :
         i < j /\ ap_presence_array[j] # 0 =>
           ap_presence_array[i] < ap_presence_array[j]

\* After the rounds no IPI is pending; after the stall no AP is on its way.
IcrQuiet == bsp \notin Sending => icr = NoIpi
NoneLate == bsp \notin Sending \cup {"stall"} => \A a \in APs : ~Starting(a)

\* A call that starts no AP finds all of them, and leaves all of them, parked.
CallOk == bsp \in Sending \cup {"env", "page", "stall", "enumerate"} =>
            p_init32 = "ok"
AllParked == bsp \in Unstarted \/ p_init32 # "ok" =>
               \A a \in APs : ap[a] = "parked"

\* The lock is closed from ap_intialize_environment to ap_procs_run.
LockClosed ==
  bsp \notin Released \cup {"startap_main", "env"} /\ p_init32 = "ok" =>
    mp_bootstrap_state = MP_BOOTSTRAP_STATE_INIT
LockPassed == \A a \in APs : PastLock(a) => bsp \in Released

\* What the array holds while and after the BSP enumerates.
ReportsKept == \A a \in APs : Reported(a) => ap_presence_array[ApicId[a]] # 0
Enumerating == bsp = "enumerate" => Ordered(k, ap_num)
Enumerated ==
  bsp \notin Unstarted \cup Sending \cup {"stall", "enumerate"}
    /\ p_init32 = "ok" => Ordered(MaxCpu, g_aps_counter)
IdsRead == \A a \in APs : HasId(a) => ecx[a] = ap_presence_array[ApicId[a]]

LockInv    == IcrQuiet /\ CallOk /\ AllParked /\ LockClosed /\ LockPassed
ControlInv == LockInv /\ NoneLate
ArrayInv == ReportsKept /\ Enumerating /\ Enumerated /\ IdsRead
IdInv    == TypeInv /\ ControlInv /\ ArrayInv

LEMMA InitIdInv == Init => IdInv
<1> SUFFICES ASSUME Init PROVE IdInv
    OBVIOUS
<1>1. TypeInv
      BY InitTypeInv
<1>2. ControlInv
      BY DEF Init, ControlInv, LockInv, IcrQuiet, NoneLate, CallOk, AllParked, LockClosed,
         LockPassed, PastLock, HasId, HasStack, Accepted, Starting, Sending,
         Unstarted, Released
<1>3. ArrayInv
      BY DEF Init, ArrayInv, ReportsKept, Enumerating, Enumerated, IdsRead,
         Reported, HasId, HasStack, Accepted, Unstarted
<1> QED
      BY <1>1, <1>2, <1>3 DEF IdInv

\* A step of the BSP moves no AP.  Only NoneLate needs the stall to be long enough.
LEMMA BspControl ==
  ASSUME TypeInv, LockInv, BspStep \/ BspReturns
  PROVE  LockInv' /\ (TimeoutSufficient /\ NoneLate => NoneLate')
<1> USE DEF TypeInv, TypeOK, LockInv
<1> USE DEF InitEnv, SetupLowMemory, SendInitSipi, SendIpi, EndRound, Stall,
        EnumerateAp, StartupReturns, SetupParams, RunFunc, RunData, RunState,
        RunWait, BspLaunch, BspReturns
<1>1. ap' = ap
      BY DEF BspStep, apVars
<1>2. bsp' \notin Unstarted \/ (bsp \in Unstarted /\ bsp' = "page")
      BY DEF BspStep, Unstarted
<1>3. p_init32' = p_init32 /\ (bsp' # "setup" => bsp # "enumerate" \/ bsp' = "enumerate")
      BY DEF BspStep
<1>4. IcrQuiet'
      BY DEF BspStep, IcrQuiet, Sending, hwVars
<1>5. TimeoutSufficient /\ NoneLate => NoneLate'
      BY <1>1 DEF BspStep, NoneLate, Sending, Starting
<1>6. CallOk'
      BY <1>3 DEF BspStep, CallOk, Sending
<1>7. AllParked'
      BY <1>1, <1>2, <1>3 DEF AllParked
<1>8. LockClosed'
      BY DEF BspStep, LockClosed, Released, syncVars
<1>9. LockPassed'
      BY <1>1 DEF BspStep, LockPassed, PastLock, HasId, HasStack, Accepted, Released
<1> QED
      BY <1>4, <1>5, <1>6, <1>7, <1>8, <1>9

\* A step of an AP, or of the APIC, does not move the BSP.
LEMMA ApControl ==
  ASSUME TypeInv, LockInv, NEW a \in APs,
         ApStep(a) \/ ApReturns(a) \/ AcceptIpi(a) \/ IgnoreIpi(a)
  PROVE  LockInv' /\ (NoneLate => NoneLate')
<1> USE DEF TypeInv, TypeOK, LockInv
<1> USE DEF ApStartUpCode, ApReport, ApWaitLock1, ApReadId, ApSetStack,
        ApIncReady, ApCallUser, ApReturns, AcceptIpi, IgnoreIpi
<1>1. bsp' = bsp /\ p_init32' = p_init32 /\ mp_bootstrap_state' = mp_bootstrap_state
      BY DEF ApStep, bspVars, syncVars
<1>2. IcrQuiet' /\ CallOk' /\ LockClosed'
      BY <1>1 DEF ApStep, IcrQuiet, CallOk, LockClosed, Delivered, hwVars, NoIpi
<1>3. \A b \in APs \ {a} : ap'[b] = ap[b]
      BY DEF ApStep, ApType, apVars
<1>4. AcceptIpi(a) => bsp \in Sending
      BY DEF IcrQuiet, Delivered, NoIpi
<1>5. ap[a] = "parked" => ap'[a] = "parked" \/ bsp \in Sending
      BY <1>4 DEF ApStep, apVars
<1>6. NoneLate => NoneLate'
  <2>1. Starting(a)' => Starting(a) \/ bsp \in Sending
        BY <1>4 DEF ApStep, Starting, ApType, apVars
  <2> QED
        BY <1>1, <1>3, <2>1 DEF NoneLate, Starting
<1>7. AllParked'
      BY <1>1, <1>3, <1>5 DEF AllParked, CallOk, Sending, Unstarted
<1>8. LockPassed'
  <2>1. PastLock(a)' => PastLock(a) \/ ApWaitLock1(a)
        BY DEF ApStep, PastLock, HasId, HasStack, Accepted, ApType, apVars
  <2>2. ApWaitLock1(a) => bsp \in Released
        BY DEF AllParked, LockClosed, Unstarted, Released,
           MP_BOOTSTRAP_STATE_INIT, MP_BOOTSTRAP_STATE_APS_ENUMERATED
  <2> QED
        BY <1>1, <1>3, <2>1, <2>2 DEF LockPassed, PastLock, HasId, HasStack, Accepted
<1> QED
      BY <1>2, <1>6, <1>7, <1>8

\* The other steps: a call begins, the page is reused, the machine resumes.
LEMMA CallControl ==
  ASSUME TypeInv, LockInv
  PROVE  /\ \A i \in Init32Inputs, g \in Init64Given, post \in BOOLEAN,
               t \in Seq(APs) : StartapMain(i, g, post, t) => LockInv' /\ NoneLate'
         /\ ReuseLowMemory \/ Resume \/ UNCHANGED vars =>
              LockInv' /\ (NoneLate => NoneLate')
<1> USE DEF TypeInv, TypeOK, LockInv
<1>1. ASSUME NEW i \in Init32Inputs, NEW g \in Init64Given, NEW post \in BOOLEAN,
             NEW t \in Seq(APs), StartapMain(i, g, post, t)
      PROVE  LockInv' /\ NoneLate'
  <2>1. \A a \in APs : ap'[a] = "parked"
        BY <1>1 DEF StartapMain, AllParked, Unstarted, apVars
  <2>2. bsp = "startap_main" /\ icr' = NoIpi /\ bsp' \in {"env", "setup"}
          /\ p_init32' = i /\ (bsp' = "env" <=> i = "ok")
        BY <1>1 DEF StartapMain, IcrQuiet, Sending, hwVars
  <2> QED
        BY <2>1, <2>2 DEF IcrQuiet, NoneLate, CallOk, AllParked, LockClosed,
           LockPassed, PastLock, HasId, HasStack, Accepted, Starting, Sending,
           Unstarted, Released
<1>2. ASSUME ReuseLowMemory PROVE LockInv' /\ (NoneLate => NoneLate')
      BY <1>2 DEF ReuseLowMemory, IcrQuiet, NoneLate, CallOk, AllParked,
         LockClosed, LockPassed, PastLock, HasId, HasStack, Accepted, Starting,
         bspVars, syncVars, apVars
<1>3. ASSUME Resume PROVE LockInv' /\ (NoneLate => NoneLate')
  <2>1. (\A a \in APs : ap'[a] = "parked") /\ bsp' = "startap_main" /\ icr' = icr
          /\ bsp = "xmon"
        BY <1>3 DEF Resume
  <2> QED
        BY <2>1 DEF IcrQuiet, NoneLate, CallOk, AllParked, LockClosed,
           LockPassed, PastLock, HasId, HasStack, Accepted, Starting, Sending,
           Unstarted, Released
<1>4. ASSUME UNCHANGED vars PROVE LockInv' /\ (NoneLate => NoneLate')
      BY <1>4 DEF vars, IcrQuiet, NoneLate, CallOk, AllParked,
         LockClosed, LockPassed, PastLock, HasId, HasStack, Accepted, Starting,
         bspVars, hwVars, syncVars, apVars
<1> QED
      BY <1>1, <1>2, <1>3, <1>4

\* The arithmetic of the enumeration, on plain numbers.
LEMMA InLoop ==
  ASSUME NEW m \in Int, NEW n \in Nat \ {0}, n < m
  PROVE  n \in 1 .. m - 1
OBVIOUS

LEMMA CountFits ==
  ASSUME NEW n \in 1 .. 255, NEW c \in 0 .. n - 1
  PROVE  (c + 1) % 256 = c + 1
OBVIOUS

\* One iteration of the enumeration: the entry at k becomes the next ID.
LEMMA EnumerateArray ==
  ASSUME TypeInv, ControlInv, ArrayInv, EnumerateAp
  PROVE  ArrayInv'
<1>1. /\ bsp = "enumerate" /\ bsp' = "enumerate" /\ k \in 1 .. MaxCpu - 1
      /\ k' = k + 1 /\ ap_num \in 0 .. k - 1 /\ ap' = ap
      /\ ap_presence_array \in [0 .. MaxCpu - 1 -> 0 .. MaxCpu - 1]
  <2>1. bsp = "enumerate" /\ bsp' = "enumerate" /\ k' = k + 1 /\ ap' = ap /\ k < MaxCpu
        BY DEF EnumerateAp, apVars
  <2>2. k \in Nat \ {0} /\ ap_num \in 0 .. k - 1
        BY <2>1 DEF TypeInv, TypeOK, BspType, CountBounds
  <2>3. k \in 1 .. MaxCpu - 1
        BY <2>1, <2>2, MaxCpuRange, InLoop
  <2> QED
        BY <2>1, <2>2, <2>3 DEF TypeInv, TypeOK, SyncType
<1>2. \A i \in 0 .. MaxCpu - 1 : i # k => ap_presence_array'[i] = ap_presence_array[i]
      BY <1>1 DEF EnumerateAp
<1>3. CASE ap_presence_array[k] # 0
  <2>1. ap_num' = ap_num + 1 /\ ap_presence_array'[k] = ap_num + 1
    <3>1. k \in 1 .. 255
          BY <1>1, MaxCpuRange
    <3>2. Uint8(ap_num + 1) = ap_num + 1
          BY <1>1, <3>1, CountFits DEF Uint8
    <3>3. ap_num' = ap_num + 1
          BY <1>3, <3>2 DEF EnumerateAp
    <3>4. ap_presence_array' = [ap_presence_array EXCEPT ![k] = ap_num']
          BY <1>3 DEF EnumerateAp
    <3> QED
          BY <1>1, <3>3, <3>4
  <2>2. Ordered(k, ap_num)
        BY <1>1 DEF ArrayInv, Enumerating
  <2>3. Enumerating'
    <3>1. \A i \in 1 .. k - 1 :
            /\ ap_presence_array'[i] = ap_presence_array[i]
            /\ ap_presence_array[i] \in 0 .. ap_num
      <4> SUFFICES ASSUME NEW i \in 1 .. k - 1
                   PROVE  /\ ap_presence_array'[i] = ap_presence_array[i]
                          /\ ap_presence_array[i] \in 0 .. ap_num
          OBVIOUS
      <4>1. i \in 0 .. MaxCpu - 1 /\ i # k
            BY <1>1, MaxCpuRange
      <4>2. ap_presence_array[i] \in 0 .. MaxCpu - 1 /\ ap_presence_array[i] <= ap_num
            BY <1>1, <2>2, <4>1 DEF Ordered
      <4>3. ap_num \in Nat
            BY <1>1
      <4> QED
            BY <1>2, <4>1, <4>2, <4>3, MaxCpuRange
    <3>2. \A i \in 1 .. k : ap_presence_array'[i] <= ap_num + 1
      <4>1. ap_num + 1 \in Nat /\ \A i \in 1 .. k : i = k \/ i \in 1 .. k - 1
            BY <1>1
      <4>2. \A i \in 1 .. k - 1 : ap_presence_array'[i] <= ap_num + 1
            BY <1>1, <3>1
      <4> QED
            BY <2>1, <4>1, <4>2
    <3>3. \A i, j \in 1 .. k : i < j /\ ap_presence_array'[j] # 0 =>
            ap_presence_array'[i] < ap_presence_array'[j]
      <4> SUFFICES ASSUME NEW i \in 1 .. k, NEW j \in 1 .. k, i < j,
                          ap_presence_array'[j] # 0
                   PROVE  ap_presence_array'[i] < ap_presence_array'[j]
          OBVIOUS
      <4>1. i \in 1 .. k - 1
            BY <1>1
      <4>2. CASE j = k
            BY <1>1, <2>1, <3>1, <4>1, <4>2
      <4>3. CASE j # k
        <5>1. j \in 1 .. k - 1
              BY <1>1, <4>3
        <5> QED
              BY <2>2, <3>1, <4>1, <5>1 DEF Ordered
      <4> QED
            BY <4>2, <4>3
    <3>4. 1 .. k' - 1 = 1 .. k
          BY <1>1
    <3> QED
          BY <2>1, <3>2, <3>3, <3>4 DEF Enumerating, Ordered
  <2>4. ReportsKept'
    <3>1. \A a \in APs : ap_presence_array[ApicId[a]] # 0 =>
                          ap_presence_array'[ApicId[a]] # 0
      <4> SUFFICES ASSUME NEW a \in APs, ap_presence_array[ApicId[a]] # 0
                   PROVE  ap_presence_array'[ApicId[a]] # 0
          OBVIOUS
      <4>1. ApicId[a] \in 0 .. MaxCpu - 1
            BY ApicIdRange
      <4>2. ap_num + 1 # 0
            BY <1>1
      <4>3. CASE ApicId[a] = k
            BY <2>1, <4>2, <4>3
      <4>4. CASE ApicId[a] # k
            BY <1>2, <4>1, <4>4
      <4> QED
            BY <4>3, <4>4
    <3> QED
        BY <1>1, <3>1
        DEF ArrayInv, ReportsKept, Reported, HasId, HasStack, Accepted
  <2> QED
        BY <1>1, <2>3, <2>4 DEF ControlInv, LockInv, ArrayInv, Enumerated, IdsRead, LockPassed, PastLock,
           HasId, HasStack, Accepted, Released
<1>4. CASE ap_presence_array[k] = 0
  <2>1. ap_num' = ap_num /\ ap_presence_array' = ap_presence_array
        BY <1>4 DEF EnumerateAp
  <2>2. Enumerating'
    <3>1. Ordered(k, ap_num) /\ ap_presence_array[k] = 0
          BY <1>1, <1>4 DEF ArrayInv, Enumerating
    <3>2. \A i \in 1 .. k : i = k \/ i \in 1 .. k - 1
          BY <1>1
    <3>3. \A i \in 1 .. k : ap_presence_array[i] <= ap_num
          BY <1>1, <3>1, <3>2 DEF Ordered
    <3>4. \A i, j \in 1 .. k : i < j /\ ap_presence_array[j] # 0 =>
            ap_presence_array[i] < ap_presence_array[j]
      <4> SUFFICES ASSUME NEW i \in 1 .. k, NEW j \in 1 .. k, i < j,
                          ap_presence_array[j] # 0
                   PROVE  ap_presence_array[i] < ap_presence_array[j]
          OBVIOUS
      <4>1. j # k /\ j \in 1 .. k - 1
            BY <3>1, <3>2
      <4>2. i # k /\ i \in 1 .. k - 1
            BY <3>2
      <4> QED
            BY <3>1, <4>1, <4>2 DEF Ordered
    <3>5. 1 .. k' - 1 = 1 .. k
          BY <1>1
    <3> QED
          BY <2>1, <3>3, <3>4, <3>5 DEF Enumerating, Ordered
  <2> QED
        BY <1>1, <2>1, <2>2 DEF ControlInv, LockInv, ArrayInv, Enumerated, IdsRead, LockPassed, PastLock,
           ReportsKept, Reported, HasId, HasStack, Accepted, Released
<1> QED
      BY <1>3, <1>4

\* The other steps of the BSP leave the array alone.
LEMMA BspArray ==
  ASSUME TypeInv, ControlInv, ArrayInv, BspStep \/ BspReturns
  PROVE  ArrayInv'
<1> USE DEF TypeInv, TypeOK, ControlInv, LockInv, ArrayInv
<1> USE DEF InitEnv, SetupLowMemory, SendInitSipi, SendIpi, EndRound, Stall,
        StartupReturns, SetupParams, RunFunc, RunData, RunState,
        RunWait, BspLaunch, BspReturns
<1>1. CASE EnumerateAp
      BY <1>1, EnumerateArray
<1>2. CASE ~EnumerateAp
  <2>1. /\ ap' = ap /\ ecx' = ecx /\ p_init32' = p_init32
        /\ ap_presence_array' = ap_presence_array
        BY <1>2 DEF BspStep, apVars, syncVars
  <2>2. ReportsKept' /\ IdsRead'
        BY <2>1 DEF ReportsKept, IdsRead, Reported, HasId, HasStack, Accepted
  <2>3. bsp' = "enumerate" => k' = 1
        BY <1>2 DEF BspStep
  <2>4. Enumerating'
        BY <2>3 DEF Enumerating, Ordered
  <2>5. Enumerated'
    <3>1. CASE StartupReturns
          BY <3>1, <2>1 DEF Enumerating, Enumerated, Ordered
    <3>2. CASE ~StartupReturns
      <4>1. /\ g_aps_counter' = g_aps_counter
            /\ bsp \in Unstarted \cup Sending \cup {"stall", "enumerate"} =>
                 bsp' \in Unstarted \cup Sending \cup {"stall", "enumerate"}
            BY <1>2, <3>2 DEF BspStep, syncVars, Unstarted, Sending
      <4> QED
            BY <2>1, <4>1 DEF Enumerated, Ordered
    <3> QED
          BY <3>1, <3>2
  <2> QED
        BY <2>2, <2>4, <2>5
<1> QED
      BY <1>1, <1>2

\* An AP reports only while the BSP sends or stalls; its other steps leave the
\* array alone.
LEMMA ApArray ==
  ASSUME TypeInv, ControlInv, ArrayInv, NEW a \in APs,
         ApStep(a) \/ ApReturns(a) \/ AcceptIpi(a) \/ IgnoreIpi(a)
  PROVE  ArrayInv'
<1> USE DEF TypeInv, TypeOK, ControlInv, LockInv, ArrayInv
<1>1. /\ bsp' = bsp /\ p_init32' = p_init32 /\ k' = k /\ ap_num' = ap_num
      /\ g_aps_counter' = g_aps_counter
      BY DEF ApStep, ApStartUpCode, ApReport, ApWaitLock1, ApReadId, ApSetStack,
         ApIncReady, ApCallUser, ApReturns, AcceptIpi, IgnoreIpi, bspVars, syncVars
<1>2. CASE ApReport(a)
  <2>1. bsp \in Sending \cup {"stall"}
        BY <1>2 DEF ApReport, NoneLate, Starting
  <2>2. Enumerating' /\ Enumerated'
        BY <1>1, <2>1 DEF Enumerating, Enumerated, Sending
  <2>3. IdsRead'
        BY <1>2, <2>1 DEF ApReport, IdsRead, LockPassed, PastLock, HasId, HasStack,
           Accepted, Released, Sending, ApType
  <2>4. ReportsKept'
    <3>1. \A i \in 0 .. MaxCpu - 1 :
            ap_presence_array'[i] = 1 \/ ap_presence_array'[i] = ap_presence_array[i]
          BY <1>2 DEF ApReport, SyncType
    <3>2. ap_presence_array'[ApicId[a]] = 1
          BY <1>2, ApicIdRange, MaxCpuRange DEF ApReport, SyncType
    <3>3. \A b \in APs \ {a} : ap'[b] = ap[b]
          BY <1>2 DEF ApReport, ApType
    <3> QED
          BY <3>1, <3>2, <3>3, ApicIdRange, MaxCpuRange
          DEF ReportsKept, Reported, HasId, HasStack, Accepted
  <2> QED
        BY <2>2, <2>3, <2>4
<1>3. CASE ~ApReport(a)
  <2> USE DEF ApStartUpCode, ApWaitLock1, ApReadId, ApSetStack, ApIncReady,
          ApCallUser, ApReturns, AcceptIpi, IgnoreIpi
  <2>1. ap_presence_array' = ap_presence_array
        BY <1>3 DEF ApStep, syncVars
  <2>2. Enumerating' /\ Enumerated'
        BY <1>1, <2>1 DEF Enumerating, Enumerated, Ordered
  <2>3. \A b \in APs \ {a} : ap'[b] = ap[b] /\ ecx'[b] = ecx[b]
        BY <1>3 DEF ApStep, ApType, apVars
  <2>4. Reported(a)' => Reported(a)
        BY <1>3 DEF ApStep, Reported, HasId, HasStack, Accepted, ApType, apVars
  <2>5. HasId(a)' => ecx'[a] = ap_presence_array[ApicId[a]]
        BY <1>3 DEF ApStep, IdsRead, HasId, HasStack, Accepted, ApType, apVars
  <2>6. ReportsKept' /\ IdsRead'
        BY <2>1, <2>3, <2>4, <2>5
        DEF ReportsKept, IdsRead, Reported, HasId, HasStack, Accepted
  <2> QED
        BY <2>2, <2>6
<1> QED
      BY <1>2, <1>3

LEMMA NextIdInv ==
  ASSUME TimeoutSufficient
  PROVE  IdInv /\ [Next]_vars => IdInv'
<1> SUFFICES ASSUME IdInv, [Next]_vars PROVE IdInv'
    OBVIOUS
<1>1. TypeInv'
      BY NextTypeInv DEF IdInv
<1>2. CASE \E a \in APs : ApStep(a) \/ ApReturns(a) \/ AcceptIpi(a) \/ IgnoreIpi(a)
      BY <1>1, <1>2, ApControl, ApArray DEF IdInv, ControlInv
<1>3. CASE BspStep \/ BspReturns
      BY <1>1, <1>3, BspControl, BspArray DEF IdInv, ControlInv
<1>4. ASSUME NEW i \in Init32Inputs, NEW g \in Init64Given, NEW post \in BOOLEAN,
             NEW t \in Seq(APs), StartapMain(i, g, post, t)
      PROVE  IdInv'
  <2>1. ControlInv'
        BY <1>4, CallControl DEF IdInv, ControlInv
  <2>2. ArrayInv'
    <3>1. \A a \in APs : ap'[a] = "parked"
          BY <1>4 DEF StartapMain, IdInv, ControlInv, LockInv, AllParked, Unstarted, apVars
    <3>2. bsp' \in Unstarted \/ p_init32' # "ok"
          BY <1>4 DEF StartapMain, Unstarted
    <3>3. bsp' # "enumerate"
          BY <1>4 DEF StartapMain
    <3> QED
          BY <3>1, <3>2, <3>3 DEF ArrayInv, ReportsKept, Enumerating, Enumerated,
             IdsRead, Reported, HasId, HasStack, Accepted
  <2> QED
        BY <1>1, <2>1, <2>2 DEF IdInv
<1>5. CASE Resume
  <2>1. ArrayInv'
    <3>1. (\A a \in APs : ap'[a] = "parked") /\ bsp' = "startap_main"
          BY <1>5 DEF Resume
    <3> QED
          BY <3>1 DEF ArrayInv, ReportsKept, Enumerating, Enumerated, Unstarted,
             IdsRead, Reported, HasId, HasStack, Accepted
  <2> QED
        BY <1>1, <1>5, <2>1, CallControl DEF IdInv, ControlInv
<1>6. CASE ReuseLowMemory \/ UNCHANGED vars
  <2>1. UNCHANGED <<bspVars, syncVars, apVars>>
        BY <1>6 DEF ReuseLowMemory, vars
  <2>2. ArrayInv'
        BY <2>1 DEF IdInv, ArrayInv, ReportsKept, Enumerating, Enumerated, Ordered,
           IdsRead, Reported, HasId, HasStack, Accepted, bspVars, syncVars, apVars
  <2> QED
        BY <1>1, <1>6, <2>2, CallControl DEF IdInv, ControlInv
<1>7. <<>> \in Seq(APs) /\ \A t \in TargetLists : t \in Seq(APs)
      BY CallAssumption
<1> QED
      BY <1>2, <1>3, <1>4, <1>5, <1>6, <1>7
      DEF Next, Done, RunPause, ApPause

\* Two APs past stage_2 hold the entries of different APIC ids.
LEMMA IdInvDistinct == IdInv => OrderedIdsDistinct
<1> SUFFICES ASSUME IdInv, NEW a \in APs, HasId(a)
             PROVE  /\ ecx[a] \in 1 .. g_aps_counter
                    /\ \A b \in APs : HasId(b) /\ ecx[b] = ecx[a] => b = a
    BY DEF OrderedIdsDistinct
<1> USE DEF IdInv, ControlInv, LockInv, ArrayInv, TypeInv, TypeOK
<1>1. bsp \in Released /\ p_init32 = "ok"
      BY DEF LockPassed, PastLock, AllParked, HasId, HasStack, Accepted
<1>2. Ordered(MaxCpu, g_aps_counter)
      BY <1>1 DEF Enumerated, Released, Unstarted, Sending
<1>3. \A b \in APs : HasId(b) =>
        /\ ApicId[b] \in 1 .. MaxCpu - 1
        /\ ecx[b] = ap_presence_array[ApicId[b]] /\ ecx[b] # 0
      BY ApicIdRange DEF IdsRead, ReportsKept, Reported
<1>4. ecx[a] \in 1 .. g_aps_counter
  <2>1. ecx[a] \in Nat /\ g_aps_counter \in Nat
        BY MaxCpuRange DEF ApType, SyncType
  <2>2. ecx[a] <= g_aps_counter
        BY <1>2, <1>3 DEF Ordered
  <2>3. ecx[a] # 0
        BY <1>3
  <2> DEFINE n == ecx[a]
             m == g_aps_counter
  <2>4. n \in Nat /\ m \in Nat /\ n <= m /\ n # 0
        BY <2>1, <2>2, <2>3
  <2> HIDE DEF n, m
  <2>5. n \in 1 .. m
        BY <2>4
  <2> QED
        BY <2>5 DEF n, m
<1>5. ASSUME NEW b \in APs, HasId(b), ecx[b] = ecx[a]
      PROVE  b = a
  <2> DEFINE i == ApicId[a]
             j == ApicId[b]
  <2>0. /\ i \in 1 .. MaxCpu - 1 /\ j \in 1 .. MaxCpu - 1
        /\ ap_presence_array[i] = ap_presence_array[j] /\ ap_presence_array[i] # 0
        BY <1>3, <1>5
  <2>1. /\ i < j => ap_presence_array[i] < ap_presence_array[j]
        /\ j < i => ap_presence_array[j] < ap_presence_array[i]
        BY <1>2, <2>0, Zenon DEF Ordered
  <2>2. ap_presence_array[i] \in Nat
        BY <2>0, MaxCpuRange DEF SyncType
  <2> HIDE DEF i, j
  <2>3. i = j
        BY <2>0, <2>1, <2>2, MaxCpuRange
  <2> QED
        BY <2>3, ApicIdAssumption DEF i, j
<1> QED
      BY <1>4, <1>5

\* If the last stall outlasts every AP's start-up, the APs that bsp_enumerate_aps
\* released hold different ordered IDs in 1 .. g_aps_counter, on every launch and
\* every resume, whichever APs answer.
THEOREM OrderedIds ==
  ASSUME TimeoutSufficient
  PROVE  Spec => []OrderedIdsDistinct
BY InitIdInv, NextIdInv, IdInvDistinct, PTL DEF Spec

\* Under the same assumption no step changes an ordered ID, or the number the
\* BSP waits for, while the APs are released.
THEOREM ReleasedIdsFrozen ==
  ASSUME TimeoutSufficient
  PROVE  Spec => IdsFrozen
<1>1. ASSUME IdInv, [Next]_vars,
             mp_bootstrap_state = MP_BOOTSTRAP_STATE_APS_ENUMERATED,
             mp_bootstrap_state' = MP_BOOTSTRAP_STATE_APS_ENUMERATED
      PROVE  UNCHANGED <<ap_presence_array, g_aps_counter>>
  <2>1. bsp \notin Sending \cup {"stall", "enumerate"}
        BY <1>1 DEF IdInv, ControlInv, LockInv, LockClosed, CallOk, Sending, Released,
           MP_BOOTSTRAP_STATE_INIT, MP_BOOTSTRAP_STATE_APS_ENUMERATED
  <2>2. \A a \in APs : ap[a] # "wakeup"
        BY <1>1, <2>1 DEF IdInv, ControlInv, NoneLate, Starting
  <2>3. CASE BspStep \/ BspReturns
        BY <2>1, <2>3 DEF BspStep, InitEnv, SetupLowMemory, SendInitSipi, Stall,
           EnumerateAp, StartupReturns, SetupParams, RunFunc, RunData, RunState,
           RunWait, BspLaunch, BspReturns, syncVars
  <2>4. CASE \E a \in APs : ApStep(a) \/ ApReturns(a) \/ AcceptIpi(a) \/ IgnoreIpi(a)
        BY <2>2, <2>4 DEF ApStep, ApStartUpCode, ApReport, ApWaitLock1, ApReadId,
           ApSetStack, ApIncReady, ApCallUser, ApReturns, AcceptIpi, IgnoreIpi,
           syncVars
  <2>5. ASSUME NEW i \in Init32Inputs, NEW g \in Init64Given, NEW post \in BOOLEAN,
               NEW t, StartapMain(i, g, post, t)
        PROVE  UNCHANGED <<ap_presence_array, g_aps_counter>>
        BY <2>5 DEF StartapMain, syncVars
  <2>6. CASE ReuseLowMemory \/ Resume \/ UNCHANGED vars
        BY <2>6 DEF ReuseLowMemory, Resume, vars, syncVars
  <2> QED
        BY <1>1, <2>3, <2>4, <2>5, <2>6 DEF Next, Done, RunPause, ApPause
<1> QED
      BY <1>1, InitIdInv, NextIdInv, PTL DEF Spec, IdsFrozen
=============================================================================
