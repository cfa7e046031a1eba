---------------------------- MODULE ApLaunchProofs ----------------------------
(***************************************************************************)
(* Theorems about ApStartup, continued: the parameters the APs are launched *)
(* with, their stacks, the counts of the BSP, and the barrier.  The first   *)
(* section holds whatever the length of the last stall is; the others rest  *)
(* on IdInv, and so on TimeoutSufficient.                                  *)
(***************************************************************************)
EXTENDS ApStartupProofs, FiniteSetTheorems

\* The steps of one AP and of the APIC towards it.
ApSide(a) == ApStep(a) \/ ApReturns(a) \/ AcceptIpi(a) \/ IgnoreIpi(a)

\* The kinds of steps, with the arguments of startap_main in their types.
LEMMA StepKinds ==
  ASSUME [Next]_vars
  PROVE  \/ BspStep \/ BspReturns
         \/ \E a \in APs : ApSide(a)
         \/ \E i \in Init32Inputs, g \in Init64Given, post \in BOOLEAN,
               t \in Seq(APs) : StartapMain(i, g, post, t)
         \/ Resume
         \/ ReuseLowMemory
         \/ UNCHANGED vars
<1>1. <<>> \in Seq(APs) /\ \A t \in TargetLists : t \in Seq(APs)
      BY CallAssumption
<1> QED
      BY <1>1 DEF Next, Done, RunPause, ApPause, ApSide

-----------------------------------------------------------------------------
(***************************************************************************)
(* The launch context.  LockInv does without the stall: an AP, late or not, *)
(* passes the lock only while the BSP has it open, and then                 *)
(* application_params and gp_init64 are those of this call.                *)
(***************************************************************************)
Launching == {"run_func", "run_data", "run_state"} \cup Released

ParamsSet ==
  bsp \in Launching => application_params = call /\ gp_init64 = p_init64

ContextInv == TypeInv /\ LockInv /\ ParamsSet /\ LaunchContext

LEMMA InitContextInv == Init => ContextInv
<1> SUFFICES ASSUME Init PROVE ContextInv
    OBVIOUS
<1>1. TypeInv /\ LockInv
      BY InitIdInv DEF IdInv, ControlInv
<1>2. ParamsSet /\ LaunchContext
      BY DEF Init, ParamsSet, LaunchContext, Launching, Released
<1> QED
      BY <1>1, <1>2 DEF ContextInv

LEMMA NextContextInv == ContextInv /\ [Next]_vars => ContextInv'
<1> SUFFICES ASSUME ContextInv, [Next]_vars PROVE ContextInv'
    OBVIOUS
<1>1. TypeInv'
      BY NextTypeInv DEF ContextInv
<1>2. CASE BspStep \/ BspReturns
  <2>1. LockInv'
        BY <1>2, BspControl DEF ContextInv
  <2>2. ap' = ap /\ ctx' = ctx /\ call' = call /\ p_init64' = p_init64
        BY <1>2 DEF BspStep, BspReturns, InitEnv, SetupLowMemory, SendInitSipi,
           Stall, EnumerateAp, StartupReturns, SetupParams, RunFunc, RunData,
           RunState, RunWait, BspLaunch, apVars
  <2>3. LaunchContext'
        BY <2>2 DEF ContextInv, LaunchContext
  <2>4. ParamsSet'
        BY <1>2 DEF ContextInv, ParamsSet, Launching, Released, BspStep,
           BspReturns, InitEnv, SetupLowMemory, SendInitSipi, SendIpi, EndRound,
           Stall, EnumerateAp, StartupReturns, SetupParams, RunFunc, RunData,
           RunState, RunWait, BspLaunch, argVars
  <2> QED
        BY <1>1, <2>1, <2>3, <2>4 DEF ContextInv
<1>3. CASE \E a \in APs : ApSide(a)
  <2>1. PICK a \in APs : ApSide(a)
        BY <1>3
  <2> USE DEF ApSide, ApStep, ApStartUpCode, ApReport, ApWaitLock1, ApReadId,
          ApSetStack, ApIncReady, ApCallUser, ApReturns, AcceptIpi, IgnoreIpi
  <2>2. LockInv'
        BY <2>1, ApControl DEF ContextInv
  <2>3. UNCHANGED <<bspVars, argVars>>
        BY <2>1 DEF bspVars, argVars
  <2>4. ParamsSet'
        BY <2>3 DEF ContextInv, ParamsSet, bspVars, argVars
  <2>5. \A b \in APs : ap'[b] = "xmon" =>
          \/ ap[b] = "xmon" /\ ctx'[b] = ctx[b]
          \/ PastLock(b)
             /\ ctx'[b] = [params |-> application_params, init64 |-> gp_init64]
        BY <2>1 DEF ContextInv, TypeInv, TypeOK, ApType, PastLock, HasId, HasStack,
           Accepted, apVars
  <2>6. \A b \in APs : PastLock(b) => application_params = call /\ gp_init64 = p_init64
        BY DEF ContextInv, LockInv, LockPassed, ParamsSet, Launching
  <2>7. LaunchContext'
        BY <2>3, <2>5, <2>6 DEF ContextInv, LaunchContext, bspVars
  <2> QED
        BY <1>1, <2>2, <2>4, <2>7 DEF ContextInv
<1>4. CASE \E i \in Init32Inputs, g \in Init64Given, post \in BOOLEAN,
              t \in Seq(APs) : StartapMain(i, g, post, t)
  <2>1. LockInv' /\ NoneLate'
        BY <1>4, CallControl DEF ContextInv
  <2>2. bsp' \in {"env", "setup"} /\ \A a \in APs : ap'[a] = "parked"
        BY <1>4 DEF StartapMain, ContextInv, LockInv, AllParked, Unstarted, apVars
  <2> QED
        BY <1>1, <2>1, <2>2 DEF ContextInv, ParamsSet, Launching, Released,
           LaunchContext
<1>5. CASE Resume
  <2>1. LockInv'
        BY <1>5, CallControl DEF ContextInv
  <2>2. bsp' = "startap_main" /\ \A a \in APs : ap'[a] = "parked"
        BY <1>5 DEF Resume
  <2> QED
        BY <1>1, <2>1, <2>2 DEF ContextInv, ParamsSet, Launching, Released,
           LaunchContext
<1>6. CASE ReuseLowMemory \/ UNCHANGED vars
  <2>1. LockInv'
        BY <1>6, CallControl DEF ContextInv
  <2>2. UNCHANGED <<bspVars, argVars, apVars>>
        BY <1>6 DEF ReuseLowMemory, vars
  <2> QED
        BY <1>1, <2>1, <2>2 DEF ContextInv, ParamsSet, LaunchContext, bspVars,
           argVars, apVars
<1> QED
      BY <1>2, <1>3, <1>4, <1>5, <1>6, StepKinds

\* However late an AP is, whichever APs answer, whether the monitor returns and
\* however often the machine resumes: an AP enters the monitor with the
\* parameters and the 64-bit environment of the call that woke it.
THEOREM LaunchContextFresh == Spec => []LaunchContext
<1>1. ContextInv => LaunchContext
      BY DEF ContextInv
<1> QED
      BY <1>1, InitContextInv, NextContextInv, PTL DEF Spec
-----------------------------------------------------------------------------
(***************************************************************************)
(* The code the APs run and the counts of the BSP.  From here on the stall  *)
(* outlasts every AP's start-up, so that IdInv holds.                      *)
(***************************************************************************)

\* The APs that reported in this call, and those of them that incremented
\* g_ready_counter; an AP whose monitor returned belongs to both.
Joined  == {a \in APs : Reported(a) \/ ap[a] = "wild"}
Arrived == {a \in APs : Accepted(a) \/ ap[a] = "wild"}

Passed == {"start_application", "xmon", "halted", "wild"}

\* The APIC ids below n whose entry of ap_presence_array is set.
Stamped(n) == {i \in 1 .. n - 1 : ap_presence_array[i] # 0}

\* The page holds the code while an AP may start; the user function and its
\* argument are set while the lock is open.
PageHeld == bsp \in Sending \cup {"stall"} => low_page = "ap_start_up_code"
FuncSet ==
  /\ bsp \in {"run_data", "run_state"} => g_user_func = "start_application"
  /\ bsp = "run_state" => g_any_data = "application_params"
  /\ mp_bootstrap_state = MP_BOOTSTRAP_STATE_APS_ENUMERATED =>
       g_user_func = "start_application" /\ g_any_data = "application_params"
LockOpen == \A a \in APs :
  PastLock(a) => mp_bootstrap_state = MP_BOOTSTRAP_STATE_APS_ENUMERATED
WildReturned == \A a \in APs : ap[a] = "wild" => EntryReturns /\ bsp \in Released

\* INIT is delivered before any AP has started.
InitFirst ==
  /\ bsp = "send_init" =>
       icr.kind # "SIPI" /\ \A a \in APs : ap[a] \in {"parked", "wait_sipi"}
  /\ bsp # "send_init" => icr.kind # "INIT"

CodeInv == PageHeld /\ FuncSet /\ LockOpen /\ WildReturned /\ InitFirst

\* Only APs set entries, and an entry is never cleared.
StampedOwned == \A i \in 0 .. MaxCpu - 1 :
  ap_presence_array[i] # 0 => \E a \in APs : ApicId[a] = i
JoinedStamped == \A a \in Joined : ap_presence_array[ApicId[a]] # 0

\* In the first call the set entries are those of the APs that reported.
FirstCall ==
  /\ call = 0 => bsp = "startap_main"
                 /\ \A i \in 0 .. MaxCpu - 1 : ap_presence_array[i] = 0
  /\ call = 1 /\ bsp # "startap_main" =>
       \A i \in 0 .. MaxCpu - 1 :
         ap_presence_array[i] # 0 => \E a \in Joined : ApicId[a] = i

\* bsp_enumerate_aps counts the set entries.
Counting == bsp = "enumerate" => ap_num = Cardinality(Stamped(k))
Counted ==
  bsp \notin Unstarted \cup Sending \cup {"stall", "enumerate"}
    /\ p_init32 = "ok" => /\ g_aps_counter = Cardinality(Stamped(MaxCpu))
                          /\ aps_ret = g_aps_counter
NothingCounted == p_init32 = "null" => aps_ret = 0
CountSet ==
  bsp \in Launching /\ ~post_os => nproc = Uint16(aps_ret + 1)

\* g_ready_counter counts the APs that arrived; past the wait it is complete.
ReadyCount ==
  bsp \notin {"startap_main", "env"} /\ p_init32 = "ok" =>
    g_ready_counter = Cardinality(Arrived)
AllArrived ==
  bsp \in Passed /\ p_init32 = "ok" =>
    Joined = Arrived /\ g_ready_counter = g_aps_counter

StackRead == \A a \in APs : HasStack(a) =>
  esp[a] = IF ecx[a] - 1 \in 0 .. NumStacks - 1 THEN ecx[a] - 1 ELSE NoStack

EntryInv  == StampedOwned /\ JoinedStamped /\ FirstCall
CountInv  == Counting /\ Counted /\ NothingCounted /\ CountSet
ArriveInv == ReadyCount /\ AllArrived
LaunchInv == IdInv /\ CodeInv /\ EntryInv /\ CountInv /\ ArriveInv /\ StackRead

LEMMA InitLaunchInv == Init => LaunchInv
<1> SUFFICES ASSUME Init PROVE LaunchInv
    OBVIOUS
<1>1. Joined = {} /\ Arrived = {}
      BY DEF Init, Joined, Arrived, Reported, HasId, HasStack, Accepted
<1>2. CodeInv
      BY DEF Init, CodeInv, PageHeld, FuncSet, LockOpen, WildReturned, InitFirst,
         PastLock, HasId, HasStack, Accepted, Sending, NoIpi,
         MP_BOOTSTRAP_STATE_INIT, MP_BOOTSTRAP_STATE_APS_ENUMERATED
<1>3. EntryInv
      BY <1>1 DEF Init, EntryInv, StampedOwned, JoinedStamped, FirstCall
<1>4. CountInv /\ ArriveInv /\ StackRead
      BY DEF Init, CountInv, Counting, Counted, NothingCounted, CountSet, ArriveInv,
         ReadyCount, AllArrived, Unstarted, Launching, Released, Passed, StackRead,
         HasStack, Accepted
<1> QED
      BY <1>2, <1>3, <1>4, InitIdInv DEF LaunchInv

\* What a step of one side leaves to the other.
LEMMA BspKeeps ==
  ASSUME BspStep \/ BspReturns
  PROVE  UNCHANGED <<apVars, call, p_init32, p_init64, post_os>>
BY DEF BspStep, BspReturns, InitEnv, SetupLowMemory, SendInitSipi, Stall,
   EnumerateAp, StartupReturns, SetupParams, RunFunc, RunData, RunState, RunWait,
   BspLaunch, apVars

LEMMA ApKeeps ==
  ASSUME NEW a \in APs, ApSide(a)
  PROVE  UNCHANGED <<bspVars, low_page, mp_bootstrap_state, g_aps_counter, argVars>>
BY DEF ApSide, ApStep, ApStartUpCode, ApReport, ApWaitLock1, ApReadId, ApSetStack,
   ApIncReady, ApCallUser, ApReturns, AcceptIpi, IgnoreIpi, bspVars, hwVars,
   syncVars, argVars

LEMMA ApAlone ==
  ASSUME TypeInv, NEW a \in APs, ApSide(a)
  PROVE  \A b \in APs \ {a} : ap'[b] = ap[b] /\ ecx'[b] = ecx[b] /\ esp'[b] = esp[b]
BY DEF TypeInv, TypeOK, ApType, ApSide, ApStep, ApStartUpCode, ApReport,
   ApWaitLock1, ApReadId, ApSetStack, ApIncReady, ApCallUser, ApReturns, AcceptIpi,
   IgnoreIpi, apVars

LEMMA BspCode ==
  ASSUME IdInv, CodeInv, BspStep \/ BspReturns
  PROVE  CodeInv'
<1> USE DEF InitEnv, SetupLowMemory, SendInitSipi, SendIpi, EndRound, Stall,
        EnumerateAp, StartupReturns, SetupParams, RunFunc, RunData, RunState,
        RunWait, BspLaunch, BspReturns
<1>1. ap' = ap
      BY BspKeeps DEF apVars
<1>2. PageHeld'
      BY DEF CodeInv, PageHeld, BspStep, Sending, hwVars
<1>3. FuncSet'
      BY DEF CodeInv, FuncSet, BspStep, syncVars, argVars, MP_BOOTSTRAP_STATE_INIT,
         MP_BOOTSTRAP_STATE_APS_ENUMERATED
<1>4. LockOpen'
  <2>1. CASE InitEnv
        BY <1>1, <2>1 DEF LockOpen, PastLock, HasId, HasStack, Accepted, IdInv,
           ControlInv, LockInv, AllParked, Unstarted
  <2>2. CASE ~InitEnv
        BY <1>1, <2>2 DEF CodeInv, LockOpen, PastLock, HasId, HasStack, Accepted,
           BspStep, syncVars
  <2> QED
        BY <2>1, <2>2
<1>5. WildReturned'
      BY <1>1 DEF CodeInv, WildReturned, BspStep, Released
<1>6. InitFirst'
  <2>1. ASSUME bsp' = "send_init"
        PROVE  icr'.kind # "SIPI" /\ \A a \in APs : ap'[a] \in {"parked", "wait_sipi"}
    <3>1. CASE SetupLowMemory
          BY <1>1, <3>1 DEF IdInv, ControlInv, LockInv, AllParked, Unstarted, IcrQuiet,
             Sending, NoIpi
    <3>2. CASE SendInitSipi
          BY <1>1, <2>1, <3>2 DEF CodeInv, InitFirst, NoIpi
    <3> QED
          BY <2>1, <3>1, <3>2 DEF BspStep
  <2>2. ASSUME bsp' # "send_init" PROVE icr'.kind # "INIT"
        BY <2>2 DEF CodeInv, InitFirst, BspStep, hwVars, NoIpi
  <2> QED
        BY <2>1, <2>2 DEF InitFirst
<1> QED
      BY <1>2, <1>3, <1>4, <1>5, <1>6 DEF CodeInv

LEMMA ApCode ==
  ASSUME IdInv, CodeInv, NEW a \in APs, ApSide(a)
  PROVE  CodeInv'
<1> USE DEF ApSide, ApStep, ApStartUpCode, ApReport, ApWaitLock1, ApReadId,
        ApSetStack, ApIncReady, ApCallUser, ApReturns, AcceptIpi, IgnoreIpi
<1>0. TypeInv /\ ApType /\ HwType
      BY DEF IdInv, TypeInv, TypeOK
<1>1. /\ UNCHANGED <<bspVars, low_page, mp_bootstrap_state, argVars>>
      /\ \A b \in APs \ {a} : ap'[b] = ap[b]
      BY <1>0, ApKeeps, ApAlone
<1>2. PageHeld' /\ FuncSet'
      BY <1>1 DEF CodeInv, PageHeld, FuncSet, bspVars, argVars
<1>3. LockOpen'
  <2>1. PastLock(a)' => PastLock(a) \/ ApWaitLock1(a)
        BY <1>0 DEF PastLock, HasId, HasStack, Accepted, ApType, apVars
  <2> QED
        BY <1>1, <2>1 DEF CodeInv, LockOpen, PastLock, HasId, HasStack, Accepted
<1>4. WildReturned'
  <2>1. ~(ApStartUpCode(a) /\ ap'[a] = "wild")
        BY <1>0 DEF IdInv, ControlInv, NoneLate, Starting, CodeInv, PageHeld, ApType
  <2>2. ~(ApCallUser(a) /\ ap'[a] = "wild")
        BY <1>0 DEF CodeInv, FuncSet, LockOpen, PastLock, HasId, HasStack, Accepted,
           ApType
  <2>3. ApReturns(a) => EntryReturns /\ bsp \in Released
        BY DEF IdInv, ControlInv, LockInv, LockPassed, PastLock, HasId, HasStack,
           Accepted
  <2>4. ap'[a] = "wild" => ap[a] = "wild" \/ ApReturns(a)
        BY <1>0, <2>1, <2>2 DEF ApType, apVars
  <2> QED
        BY <1>1, <2>3, <2>4 DEF CodeInv, WildReturned, bspVars
<1>5. InitFirst'
  <2>1. icr'.kind \in {icr.kind, "none"}
        BY <1>0 DEF Delivered, NoIpi, HwType, hwVars
  <2>2. ap[a] \in {"parked", "wait_sipi"} =>
          ap'[a] \in {"parked", "wait_sipi"} \/ icr.kind = "SIPI"
        BY <1>0 DEF ApType, apVars
  <2> QED
        BY <1>1, <2>1, <2>2 DEF CodeInv, InitFirst, bspVars
<1> QED
      BY <1>2, <1>3, <1>4, <1>5 DEF CodeInv

\* An AP joins when it reports and arrives when it increments g_ready_counter;
\* nothing takes it back: INIT finds nobody joined, and no AP runs wild early.
LEMMA ApJoins ==
  ASSUME IdInv, CodeInv, NEW a \in APs, ApSide(a)
  PROVE  /\ \/ ApReport(a) /\ Joined' = Joined \cup {a}
            \/ ~ApReport(a) /\ Joined' = Joined
         /\ \/ ApIncReady(a) /\ a \in Joined \ Arrived /\ Arrived' = Arrived \cup {a}
            \/ ~ApIncReady(a) /\ Arrived' = Arrived
<1> USE DEF ApSide, ApStep, ApStartUpCode, ApReport, ApWaitLock1, ApReadId,
        ApSetStack, ApIncReady, ApCallUser, ApReturns, AcceptIpi, IgnoreIpi,
        Reported, HasId, HasStack, Accepted
<1>0. TypeInv /\ ApType
      BY DEF IdInv, TypeInv, TypeOK
<1>1. \A b \in APs \ {a} : ap'[b] = ap[b]
      BY <1>0, ApAlone
<1>2. ap'[a] = "wild" => ap[a] \in {"xmon", "wild"}
  <2>1. ~(ApStartUpCode(a) /\ ap'[a] = "wild")
        BY <1>0 DEF IdInv, ControlInv, NoneLate, Starting, CodeInv, PageHeld, ApType
  <2>2. ~(ApCallUser(a) /\ ap'[a] = "wild")
        BY <1>0 DEF CodeInv, FuncSet, LockOpen, PastLock, ApType
  <2> QED
        BY <1>0, <2>1, <2>2 DEF ApType, apVars
<1>3. AcceptIpi(a) /\ icr.kind = "INIT" => ap[a] \in {"parked", "wait_sipi"}
      BY DEF CodeInv, InitFirst
<1>4. /\ ApReport(a) => ap'[a] = "wait_lock_1"
      /\ ~ApReport(a) => (Reported(a)' \/ ap'[a] = "wild" <=> Reported(a) \/ ap[a] = "wild")
      BY <1>0, <1>2, <1>3 DEF ApType, apVars
<1>5. /\ ApIncReady(a) => ap[a] = "inc_ready" /\ ap'[a] = "call_user"
      /\ ~ApIncReady(a) => (Accepted(a)' \/ ap'[a] = "wild" <=> Accepted(a) \/ ap[a] = "wild")
      BY <1>0, <1>2, <1>3 DEF ApType, apVars
<1>6. \/ ApReport(a) /\ Joined' = Joined \cup {a}
      \/ ~ApReport(a) /\ Joined' = Joined
      BY <1>1, <1>4 DEF Joined
<1>7. \/ ApIncReady(a) /\ a \in Joined \ Arrived /\ Arrived' = Arrived \cup {a}
      \/ ~ApIncReady(a) /\ Arrived' = Arrived
      BY <1>1, <1>5 DEF Joined, Arrived
<1> QED
      BY <1>6, <1>7

LEMMA BspJoins ==
  ASSUME UNCHANGED ap
  PROVE  Joined' = Joined /\ Arrived' = Arrived
BY DEF Joined, Arrived, Reported, HasId, HasStack, Accepted

LEMMA ParkedJoins ==
  ASSUME \A a \in APs : ap[a] = "parked"
  PROVE  Joined = {} /\ Arrived = {}
BY DEF Joined, Arrived, Reported, HasId, HasStack, Accepted

\* One iteration of bsp_enumerate_aps renumbers an entry but clears none.
LEMMA EnumerateEntry ==
  ASSUME TypeInv, EnumerateAp
  PROVE  /\ k \in 1 .. MaxCpu - 1 /\ k' = k + 1
         /\ \A i \in 0 .. MaxCpu - 1 :
              ap_presence_array'[i] # 0 <=> ap_presence_array[i] # 0
         /\ ap_num' = IF ap_presence_array[k] # 0 THEN ap_num + 1 ELSE ap_num
<1>1. k \in Nat \ {0} /\ k < MaxCpu /\ k' = k + 1 /\ ap_num \in 0 .. k - 1
      BY DEF EnumerateAp, TypeInv, TypeOK, BspType, CountBounds
<1>2. k \in 1 .. MaxCpu - 1 /\ k \in 1 .. 255
      BY <1>1, MaxCpuRange
<1>3. Uint8(ap_num + 1) = ap_num + 1 /\ ap_num + 1 # 0
      BY <1>1, <1>2, CountFits DEF Uint8
<1>4. ap_num' = IF ap_presence_array[k] # 0 THEN ap_num + 1 ELSE ap_num
      BY <1>3 DEF EnumerateAp
<1>5. \A i \in 0 .. MaxCpu - 1 :
        ap_presence_array'[i] # 0 <=> ap_presence_array[i] # 0
      BY <1>3, <1>4 DEF EnumerateAp, TypeInv, TypeOK, SyncType
<1> QED
      BY <1>1, <1>2, <1>4, <1>5

\* No step of the BSP sets or clears an entry.
LEMMA BspEntries ==
  ASSUME TypeInv, BspStep \/ BspReturns
  PROVE  \A i \in 0 .. MaxCpu - 1 :
           ap_presence_array'[i] # 0 <=> ap_presence_array[i] # 0
<1>1. CASE EnumerateAp
      BY <1>1, EnumerateEntry
<1>2. CASE ~EnumerateAp
      BY <1>2 DEF BspStep, BspReturns, InitEnv, SetupLowMemory, SendInitSipi, Stall,
         StartupReturns, SetupParams, RunFunc, RunData, RunState, RunWait, BspLaunch,
         syncVars
<1> QED
      BY <1>1, <1>2

LEMMA BspEntry ==
  ASSUME TypeInv, EntryInv, BspStep \/ BspReturns
  PROVE  EntryInv'
<1>1. Joined' = Joined /\ call' = call
      BY BspKeeps, BspJoins DEF apVars
<1>2. bsp # "startap_main" /\ bsp' # "startap_main"
      BY DEF BspStep, BspReturns, InitEnv, SetupLowMemory, SendInitSipi, SendIpi,
         EndRound, Stall, EnumerateAp, StartupReturns, SetupParams, RunFunc, RunData,
         RunState, RunWait, BspLaunch
<1>3. Joined \subseteq APs /\ \A a \in APs : ApicId[a] \in 0 .. MaxCpu - 1
      BY ApicIdRange, MaxCpuRange DEF Joined
<1> QED
      BY <1>1, <1>2, <1>3, BspEntries
      DEF EntryInv, StampedOwned, JoinedStamped, FirstCall

LEMMA ApEntry ==
  ASSUME IdInv, CodeInv, EntryInv, NEW a \in APs, ApSide(a)
  PROVE  EntryInv'
<1>1. Joined \subseteq APs /\ \A b \in APs : ApicId[b] \in 0 .. MaxCpu - 1
      BY ApicIdRange, MaxCpuRange DEF Joined
<1>2. call' = call /\ bsp' = bsp
      BY ApKeeps DEF bspVars
<1>3. CASE ApReport(a)
  <2>1. Joined' = Joined \cup {a}
        BY <1>3, ApJoins
  <2>2. /\ ap_presence_array'[ApicId[a]] = 1
        /\ \A i \in 0 .. MaxCpu - 1 :
             i # ApicId[a] => ap_presence_array'[i] = ap_presence_array[i]
        BY <1>1, <1>3 DEF ApReport, IdInv, TypeInv, TypeOK, SyncType
  <2>3. StampedOwned' /\ JoinedStamped'
        BY <1>1, <2>1, <2>2 DEF EntryInv, StampedOwned, JoinedStamped
  <2>4. call # 0
        BY <1>3 DEF ApReport, IdInv, ControlInv, LockInv, AllParked, Unstarted,
           EntryInv, FirstCall
  <2>5. FirstCall'
        BY <1>1, <1>2, <2>1, <2>2, <2>4 DEF EntryInv, FirstCall
  <2> QED
        BY <2>3, <2>5 DEF EntryInv
<1>4. CASE ~ApReport(a)
  <2>1. Joined' = Joined
        BY <1>4, ApJoins
  <2>2. ap_presence_array' = ap_presence_array
        BY <1>4 DEF ApSide, ApStep, ApStartUpCode, ApWaitLock1, ApReadId, ApSetStack,
           ApIncReady, ApCallUser, ApReturns, AcceptIpi, IgnoreIpi, syncVars
  <2> QED
        BY <1>2, <2>1, <2>2 DEF EntryInv, StampedOwned, JoinedStamped, FirstCall
<1> QED
      BY <1>3, <1>4

\* The APIC ids of different APs differ: a set of APs is as large as the set of
\* its APIC ids.
LEMMA ApicImage ==
  ASSUME NEW S \in SUBSET APs, NEW T, IsFiniteSet(T), \A a \in S : ApicId[a] \in T
  PROVE  IsFiniteSet(S) /\ Cardinality(S) <= Cardinality(T)
<1> DEFINE f == [a \in S |-> ApicId[a]]
<1>1. f \in Injection(S, T)
      BY ApicIdAssumption DEF Injection, IsInjective
<1> QED
      BY <1>1, FS_Injection

LEMMA ApicCover ==
  ASSUME NEW S \in SUBSET APs, NEW T, \A i \in T : \E a \in S : ApicId[a] = i
  PROVE  IsFiniteSet(T) /\ Cardinality(T) <= Cardinality(S)
<1> DEFINE f == [i \in T |-> CHOOSE a \in S : ApicId[a] = i]
<1>1. \A i \in T : f[i] \in S /\ ApicId[f[i]] = i
      OBVIOUS
<1>2. f \in Injection(T, S)
      BY <1>1 DEF Injection, IsInjective
<1>3. IsFiniteSet(S)
      BY StackAssumption, FS_Subset
<1> QED
      BY <1>2, <1>3, FS_Injection

LEMMA StampedFinite ==
  ASSUME NEW n \in Int
  PROVE  IsFiniteSet(Stamped(n)) /\ Cardinality(Stamped(n)) \in Nat
<1>1. IsFiniteSet(1 .. n - 1)
      BY FS_Interval
<1>2. Stamped(n) \in SUBSET (1 .. n - 1)
      BY DEF Stamped
<1> QED
      BY <1>1, <1>2, FS_Subset, FS_CardinalityType

LEMMA JoinedFinite ==
  /\ IsFiniteSet(Joined) /\ IsFiniteSet(Arrived)
  /\ Arrived \subseteq Joined /\ Joined \subseteq APs
  /\ Cardinality(Joined) \in Nat /\ Cardinality(Arrived) \in Nat
<1>1. Arrived \subseteq Joined /\ Joined \subseteq APs /\ Arrived \subseteq APs
      BY DEF Joined, Arrived, Reported, HasId, HasStack, Accepted
<1>2. IsFiniteSet(Joined) /\ IsFiniteSet(Arrived)
      BY <1>1, StackAssumption, FS_Subset
<1> QED
      BY <1>1, <1>2, FS_CardinalityType

\* The set entries are at least as many as the APs of this call and at most as
\* many as the APs, and so as the stacks.
LEMMA StampedBounds ==
  ASSUME EntryInv
  PROVE  /\ Cardinality(Joined) <= Cardinality(Stamped(MaxCpu))
         /\ Cardinality(Stamped(MaxCpu)) <= Cardinality(APs)
<1>1. \A a \in Joined : ApicId[a] \in Stamped(MaxCpu)
      BY ApicIdRange, MaxCpuRange DEF EntryInv, JoinedStamped, Stamped, Joined
<1>2. \A i \in Stamped(MaxCpu) : \E a \in APs : ApicId[a] = i
      BY MaxCpuRange DEF EntryInv, StampedOwned, Stamped
<1>3. MaxCpu \in Int
      BY MaxCpuRange
<1>4. IsFiniteSet(Stamped(MaxCpu))
      BY <1>3, StampedFinite
<1>5. Joined \in SUBSET APs /\ APs \in SUBSET APs
      BY JoinedFinite
<1>6. Cardinality(Joined) <= Cardinality(Stamped(MaxCpu))
      BY <1>1, <1>4, <1>5, ApicImage
<1>7. Cardinality(Stamped(MaxCpu)) <= Cardinality(APs)
      BY <1>2, <1>5, ApicCover
<1> QED
      BY <1>6, <1>7

\* One iteration of bsp_enumerate_aps counts the entry it passes.
LEMMA EnumerateCount ==
  ASSUME TypeInv, CountInv, EnumerateAp
  PROVE  Counting'
<1>1. /\ k \in 1 .. MaxCpu - 1 /\ k' = k + 1
      /\ \A i \in 0 .. MaxCpu - 1 :
           ap_presence_array'[i] # 0 <=> ap_presence_array[i] # 0
      /\ ap_num' = IF ap_presence_array[k] # 0 THEN ap_num + 1 ELSE ap_num
      BY EnumerateEntry
<1>2. ap_num = Cardinality(Stamped(k))
      BY DEF CountInv, Counting, EnumerateAp
<1>3. k \in Int /\ k \notin Stamped(k)
      BY <1>1, MaxCpuRange DEF Stamped
<1>4. \A i : i \in 1 .. (k + 1) - 1 <=> i \in 1 .. k - 1 \/ i = k
      BY <1>1, MaxCpuRange
<1>5. \A i \in 1 .. (k + 1) - 1 : i \in 0 .. MaxCpu - 1
      BY <1>1, MaxCpuRange
<1>6. Stamped(k)' = IF ap_presence_array[k] # 0 THEN Stamped(k) \cup {k} ELSE Stamped(k)
  <2>1. Stamped(k)' = {i \in 1 .. (k + 1) - 1 : ap_presence_array'[i] # 0}
        BY <1>1 DEF Stamped
  <2>2. Stamped(k)' = {i \in 1 .. (k + 1) - 1 : ap_presence_array[i] # 0}
        BY <1>1, <1>5, <2>1
  <2> QED
        BY <1>4, <2>2 DEF Stamped
<1>7. Cardinality(Stamped(k))' =
        IF ap_presence_array[k] # 0 THEN Cardinality(Stamped(k)) + 1
                                    ELSE Cardinality(Stamped(k))
      BY <1>3, <1>6, StampedFinite, FS_AddElement
<1> QED
      BY <1>1, <1>2, <1>7 DEF Counting

LEMMA BspCount ==
  ASSUME IdInv, CountInv, BspStep \/ BspReturns
  PROVE  CountInv'
<1> USE DEF InitEnv, SetupLowMemory, SendInitSipi, SendIpi, EndRound, Stall,
        StartupReturns, SetupParams, RunFunc, RunData, RunState, RunWait, BspLaunch,
        BspReturns
<1>1. p_init32' = p_init32 /\ post_os' = post_os
      BY BspKeeps
<1>2. Counting'
  <2>1. CASE EnumerateAp
        BY <2>1, EnumerateCount DEF IdInv
  <2>2. CASE Stall
    <3>1. Stamped(k)' = {}
          BY <2>2 DEF Stamped
    <3> QED
          BY <2>2, <3>1, FS_EmptySet DEF Counting
  <2>3. CASE ~EnumerateAp /\ ~Stall
        BY <2>3 DEF BspStep, Counting
  <2> QED
        BY <2>1, <2>2, <2>3
<1>3. Counted'
  <2>1. CASE StartupReturns
    <3>1. Stamped(MaxCpu)' = Stamped(MaxCpu)
          BY <2>1 DEF Stamped
    <3>2. ap_num = Cardinality(Stamped(MaxCpu))
          BY <2>1 DEF CountInv, Counting
    <3> QED
          BY <2>1, <3>1, <3>2 DEF Counted
  <2>2. CASE EnumerateAp
        BY <2>2 DEF Counted, EnumerateAp
  <2>3. CASE ~StartupReturns /\ ~EnumerateAp
    <3>1. /\ ap_presence_array' = ap_presence_array /\ g_aps_counter' = g_aps_counter
          /\ aps_ret' = aps_ret
          /\ bsp \in Unstarted \cup Sending \cup {"stall", "enumerate"} =>
               bsp' \in Unstarted \cup Sending \cup {"stall", "enumerate"}
          BY <2>3 DEF BspStep, syncVars, Unstarted, Sending
    <3>2. Stamped(MaxCpu)' = Stamped(MaxCpu)
          BY <3>1 DEF Stamped
    <3> QED
          BY <1>1, <3>1, <3>2 DEF CountInv, Counted
  <2> QED
        BY <2>1, <2>2, <2>3
<1>4. NothingCounted'
  <2>1. CASE StartupReturns
        BY <1>1, <2>1 DEF NothingCounted, IdInv, ControlInv, LockInv, CallOk
  <2>2. CASE ~StartupReturns
        BY <1>1, <2>2 DEF BspStep, CountInv, NothingCounted, EnumerateAp
  <2> QED
        BY <2>1, <2>2
<1>5. CountSet'
  <2>1. CASE SetupParams
        BY <1>1, <2>1 DEF CountSet
  <2>2. CASE ~SetupParams
        BY <1>1, <2>2 DEF BspStep, CountInv, CountSet, EnumerateAp, Launching, Released
  <2> QED
        BY <2>1, <2>2
<1> QED
      BY <1>2, <1>3, <1>4, <1>5 DEF CountInv

LEMMA ApCount ==
  ASSUME IdInv, CountInv, NEW a \in APs, ApSide(a)
  PROVE  CountInv'
<1>1. UNCHANGED <<bspVars, g_aps_counter>>
      BY ApKeeps
<1>2. NothingCounted' /\ CountSet'
      BY <1>1 DEF CountInv, NothingCounted, CountSet, bspVars
<1>3. CASE ApReport(a)
  <2>1. bsp \in Sending \cup {"stall"}
        BY <1>3 DEF ApReport, IdInv, ControlInv, NoneLate, Starting
  <2> QED
        BY <1>1, <1>2, <2>1 DEF CountInv, Counting, Counted, bspVars, Sending
<1>4. CASE ~ApReport(a)
  <2>1. ap_presence_array' = ap_presence_array
        BY <1>4 DEF ApSide, ApStep, ApStartUpCode, ApWaitLock1, ApReadId, ApSetStack,
           ApIncReady, ApCallUser, ApReturns, AcceptIpi, IgnoreIpi, syncVars
  <2>2. Stamped(k)' = Stamped(k) /\ Stamped(MaxCpu)' = Stamped(MaxCpu)
        BY <1>1, <2>1 DEF Stamped, bspVars
  <2> QED
        BY <1>1, <1>2, <2>2 DEF CountInv, Counting, Counted, bspVars
<1> QED
      BY <1>3, <1>4

LEMMA BspArrive ==
  ASSUME IdInv, EntryInv, CountInv, ArriveInv, BspStep \/ BspReturns
  PROVE  ArriveInv'
<1> USE DEF InitEnv, SetupLowMemory, SendInitSipi, SendIpi, EndRound, Stall,
        EnumerateAp, StartupReturns, SetupParams, RunFunc, RunData, RunState,
        RunWait, BspLaunch, BspReturns
<1>1. p_init32' = p_init32 /\ Joined' = Joined /\ Arrived' = Arrived
      BY BspKeeps, BspJoins DEF apVars
<1>2. ReadyCount'
  <2>1. CASE InitEnv
    <3>1. Arrived = {}
          BY <2>1, ParkedJoins DEF IdInv, ControlInv, LockInv, AllParked, Unstarted
    <3> QED
          BY <1>1, <2>1, <3>1, FS_EmptySet DEF ReadyCount
  <2>2. CASE ~InitEnv
    <3>1. g_ready_counter' = g_ready_counter /\ bsp \notin {"startap_main", "env"}
          BY <2>2 DEF BspStep, syncVars
    <3> QED
          BY <1>1, <3>1 DEF ArriveInv, ReadyCount
  <2> QED
        BY <2>1, <2>2
<1>3. AllArrived'
  <2>1. ASSUME RunWait \/ SetupParams, bsp' \in Passed, p_init32 = "ok"
        PROVE  Joined = Arrived /\ g_ready_counter = g_aps_counter
    <3>1. /\ g_aps_counter = Cardinality(Stamped(MaxCpu))
          /\ aps_ret = g_aps_counter
          BY <2>1 DEF CountInv, Counted, Unstarted, Sending
    <3>2. g_ready_counter = Cardinality(Arrived)
          BY <2>1 DEF ArriveInv, ReadyCount
    <3>3. Cardinality(Arrived) <= Cardinality(Joined)
          BY JoinedFinite, FS_Subset
    <3>4. Cardinality(Joined) <= g_aps_counter
          BY <3>1, StampedBounds
    <3>5. g_ready_counter = g_aps_counter \/ g_aps_counter = 0
          BY <2>1, <3>1 DEF Passed
    <3>6. g_aps_counter \in Nat /\ g_ready_counter \in Nat
          BY MaxCpuRange DEF IdInv, TypeInv, TypeOK, SyncType
    <3>7. g_ready_counter = g_aps_counter /\ Cardinality(Joined) = Cardinality(Arrived)
          BY <3>2, <3>3, <3>4, <3>5, <3>6, JoinedFinite
    <3> QED
          BY <3>7, JoinedFinite, FS_Subset
  <2>2. CASE RunWait \/ SetupParams
    <3>1. g_ready_counter' = g_ready_counter /\ g_aps_counter' = g_aps_counter
          BY <2>2 DEF syncVars
    <3> QED
          BY <1>1, <2>1, <2>2, <3>1 DEF AllArrived
  <2>3. CASE ~(RunWait \/ SetupParams)
    <3>1. bsp' \in Passed => /\ g_ready_counter' = g_ready_counter
                             /\ g_aps_counter' = g_aps_counter
                             /\ bsp \in Passed
          BY <2>3 DEF BspStep, syncVars, Passed
    <3> QED
          BY <1>1, <3>1 DEF ArriveInv, AllArrived
  <2> QED
        BY <2>2, <2>3
<1> QED
      BY <1>2, <1>3 DEF ArriveInv

LEMMA ApArrive ==
  ASSUME IdInv, CodeInv, ArriveInv, NEW a \in APs, ApSide(a)
  PROVE  ArriveInv'
<1>1. UNCHANGED <<bspVars, g_aps_counter>>
      BY ApKeeps
<1>2. CASE ApIncReady(a)
  <2>1. a \in Joined \ Arrived /\ Arrived' = Arrived \cup {a}
        BY <1>2, ApJoins
  <2>2. Cardinality(Arrived') = Cardinality(Arrived) + 1
        BY <2>1, JoinedFinite, FS_AddElement
  <2>3. g_ready_counter' = g_ready_counter + 1
        BY <1>2 DEF ApIncReady
  <2>4. p_init32 = "ok"
        BY <1>2 DEF ApIncReady, IdInv, ControlInv, LockInv, AllParked
  <2>5. bsp \notin Passed
        BY <2>1, <2>4 DEF ArriveInv, AllArrived
  <2> QED
        BY <1>1, <2>2, <2>3, <2>5 DEF ArriveInv, ReadyCount, AllArrived, bspVars
<1>3. CASE ~ApIncReady(a)
  <2>1. g_ready_counter' = g_ready_counter
        BY <1>3 DEF ApSide, ApStep, ApStartUpCode, ApReport, ApWaitLock1, ApReadId,
           ApSetStack, ApCallUser, ApReturns, AcceptIpi, IgnoreIpi, syncVars
  <2>2. Arrived' = Arrived
        BY <1>3, ApJoins
  <2>3. bsp \in Passed => Joined' = Joined
    <3>1. ApReport(a) => bsp \notin Passed
          BY DEF ApReport, IdInv, ControlInv, NoneLate, Starting, Sending, Passed
    <3> QED
          BY <3>1, ApJoins
  <2> QED
        BY <1>1, <2>1, <2>2, <2>3 DEF ArriveInv, ReadyCount, AllArrived, bspVars
<1> QED
      BY <1>2, <1>3

LEMMA ApStack ==
  ASSUME TypeInv, StackRead, NEW a \in APs, ApSide(a)
  PROVE  StackRead'
<1>1. \A b \in APs \ {a} : ap'[b] = ap[b] /\ ecx'[b] = ecx[b] /\ esp'[b] = esp[b]
      BY ApAlone
<1>2. HasStack(a)' =>
        esp'[a] = IF ecx'[a] - 1 \in 0 .. NumStacks - 1 THEN ecx'[a] - 1 ELSE NoStack
  <2> USE DEF ApSide, ApStep, ApStartUpCode, ApReport, ApWaitLock1, ApReadId,
          ApSetStack, ApIncReady, ApCallUser, ApReturns, AcceptIpi, IgnoreIpi,
          HasStack, Accepted, TypeInv, TypeOK, ApType
  <2>1. CASE ApSetStack(a)
        BY <2>1
  <2>2. CASE ~ApSetStack(a)
    <3>1. HasStack(a)' => HasStack(a) /\ ecx'[a] = ecx[a] /\ esp'[a] = esp[a]
          BY <2>2 DEF apVars
    <3> QED
          BY <3>1 DEF StackRead
  <2> QED
        BY <2>1, <2>2
<1> QED
      BY <1>1, <1>2 DEF StackRead, HasStack, Accepted

\* A call begins, the machine resumes, the page is reused.
LEMMA CallLaunch ==
  ASSUME LaunchInv, IdInv',
         \/ \E i \in Init32Inputs, g \in Init64Given, post \in BOOLEAN,
               t \in Seq(APs) : StartapMain(i, g, post, t)
         \/ Resume
  PROVE  LaunchInv'
<1>1. \A a \in APs : ap'[a] = "parked"
      BY DEF StartapMain, Resume, LaunchInv, IdInv, ControlInv, LockInv, AllParked,
         Unstarted, apVars
<1>2. Joined' = {} /\ Arrived' = {}
      BY <1>1 DEF Joined, Arrived, Reported, HasId, HasStack, Accepted
<1>3. /\ bsp' \in {"startap_main", "env", "setup"} /\ (bsp' = "setup" => p_init32' # "ok")
      /\ UNCHANGED <<syncVars, argVars, icr>>
      BY DEF StartapMain, Resume, hwVars
<1>4. CodeInv'
  <2>1. icr' = NoIpi
        BY <1>3 DEF StartapMain, Resume, LaunchInv, IdInv, ControlInv, LockInv,
           IcrQuiet, Sending
  <2> QED
        BY <1>1, <1>3, <2>1 DEF LaunchInv, CodeInv, PageHeld, FuncSet, LockOpen,
           WildReturned, InitFirst, PastLock, HasId, HasStack, Accepted, Sending,
           NoIpi, syncVars, argVars
<1>5. EntryInv'
  <2>1. StampedOwned' /\ JoinedStamped'
        BY <1>2, <1>3 DEF LaunchInv, EntryInv, StampedOwned, JoinedStamped, syncVars
  <2>2. CASE \E i \in Init32Inputs, g \in Init64Given, post \in BOOLEAN,
                t \in Seq(APs) : StartapMain(i, g, post, t)
    <3>1. call' = call + 1 /\ call \in Nat
          BY <2>2, MaxCallsType
          DEF StartapMain, LaunchInv, IdInv, TypeInv, TypeOK, BspType
    <3>2. call' # 0 /\ (call' = 1 => call = 0)
          BY <3>1
    <3>3. FirstCall'
          BY <1>3, <3>2 DEF LaunchInv, EntryInv, FirstCall, syncVars
    <3> QED
          BY <2>1, <3>3 DEF EntryInv
  <2>3. CASE Resume
    <3>1. call' = call /\ bsp' = "startap_main" /\ ap_presence_array' = ap_presence_array
          BY <2>3 DEF Resume, syncVars
    <3> QED
          BY <2>1, <3>1 DEF LaunchInv, EntryInv, FirstCall
  <2> QED
        BY <2>2, <2>3
<1>6. CountInv'
      BY <1>3 DEF StartapMain, Resume, LaunchInv, CountInv, Counting, Counted,
         NothingCounted, CountSet, Unstarted, Launching, Released
<1>7. ArriveInv' /\ StackRead'
      BY <1>1, <1>3 DEF ArriveInv, ReadyCount, AllArrived, StackRead, HasStack,
         Accepted, Passed
<1> QED
      BY <1>4, <1>5, <1>6, <1>7 DEF LaunchInv

LEMMA NextLaunchInv ==
  ASSUME TimeoutSufficient
  PROVE  LaunchInv /\ [Next]_vars => LaunchInv'
<1> SUFFICES ASSUME LaunchInv, [Next]_vars PROVE LaunchInv'
    OBVIOUS
<1>1. IdInv'
      BY NextIdInv DEF LaunchInv
<1>2. CASE BspStep \/ BspReturns
  <2>1. StackRead'
        BY <1>2, BspKeeps DEF LaunchInv, StackRead, HasStack, Accepted, apVars
  <2> QED
        BY <1>1, <1>2, <2>1, BspCode, BspEntry, BspCount, BspArrive
        DEF LaunchInv, IdInv
<1>3. CASE \E a \in APs : ApSide(a)
      BY <1>1, <1>3, ApCode, ApEntry, ApCount, ApArrive, ApStack DEF LaunchInv, IdInv
<1>4. CASE \/ \E i \in Init32Inputs, g \in Init64Given, post \in BOOLEAN,
                 t \in Seq(APs) : StartapMain(i, g, post, t)
           \/ Resume
      BY <1>1, <1>4, CallLaunch
<1>5. CASE ReuseLowMemory \/ UNCHANGED vars
  <2>1. /\ UNCHANGED <<bspVars, syncVars, argVars, apVars, icr>>
        /\ bsp' \in Sending \cup {"stall"} => low_page' = low_page
        BY <1>5 DEF ReuseLowMemory, vars, hwVars, bspVars, Sending
  <2>2. CodeInv'
        BY <2>1 DEF LaunchInv, CodeInv, PageHeld, FuncSet, LockOpen, WildReturned,
           InitFirst, PastLock, HasId, HasStack, Accepted, bspVars, syncVars, argVars,
           apVars
  <2>3. Joined' = Joined /\ Arrived' = Arrived
        BY <2>1, BspJoins DEF apVars
  <2>4. Stamped(k)' = Stamped(k) /\ Stamped(MaxCpu)' = Stamped(MaxCpu)
        BY <2>1 DEF Stamped, bspVars, syncVars
  <2>5. EntryInv'
        BY <2>1, <2>3 DEF LaunchInv, EntryInv, StampedOwned, JoinedStamped, FirstCall,
           bspVars, syncVars
  <2>6. CountInv'
        BY <2>1, <2>4 DEF LaunchInv, CountInv, Counting, Counted, NothingCounted,
           CountSet, bspVars, syncVars
  <2>7. ArriveInv' /\ StackRead'
        BY <2>1, <2>3 DEF LaunchInv, ArriveInv, ReadyCount, AllArrived, StackRead,
           HasStack, Accepted, bspVars, syncVars, apVars
  <2> QED
        BY <1>1, <2>2, <2>5, <2>6, <2>7 DEF LaunchInv
<1> QED
      BY <1>2, <1>3, <1>4, <1>5, StepKinds

-----------------------------------------------------------------------------
(***************************************************************************)
(* What LaunchInv says of the launch.                                      *)
(***************************************************************************)

\* The ordered IDs are at most g_aps_counter, the number of set entries, which
\* are entries of different APs: the index ordered ID - 1 is that of a stack.
LEMMA LaunchStacks == LaunchInv => PrivateStacks
<1> SUFFICES ASSUME LaunchInv, NEW a \in APs, HasStack(a)
             PROVE  /\ esp[a] # NoStack
                    /\ \A b \in APs : HasStack(b) /\ esp[b] = esp[a] => b = a
    BY DEF PrivateStacks
<1>1. OrderedIdsDistinct
      BY IdInvDistinct DEF LaunchInv
<1>2. bsp \in Released /\ p_init32 = "ok"
      BY DEF LaunchInv, IdInv, ControlInv, LockInv, LockPassed, PastLock, AllParked,
         HasId, HasStack, Accepted
<1>3. g_aps_counter <= Cardinality(APs)
      BY <1>2, StampedBounds
      DEF LaunchInv, CountInv, Counted, Released, Unstarted, Sending
<1>4. g_aps_counter \in Nat /\ Cardinality(APs) \in Nat /\ NumStacks \in Nat
      BY MaxCpuRange, StackAssumption, FS_CardinalityType
      DEF LaunchInv, IdInv, TypeInv, TypeOK, SyncType
<1>5. g_aps_counter <= NumStacks
      BY <1>3, <1>4, StackAssumption
<1>6. \A b \in APs : HasStack(b) => ecx[b] \in 1 .. g_aps_counter
      BY <1>1 DEF OrderedIdsDistinct, HasId
<1>7. \A b \in APs : HasStack(b) => ecx[b] \in Int /\ ecx[b] - 1 \in 0 .. NumStacks - 1
      BY <1>4, <1>5, <1>6
<1>8. \A b \in APs : HasStack(b) => esp[b] = ecx[b] - 1 /\ ecx[b] \in Int
      BY <1>7 DEF LaunchInv, StackRead
<1>9. esp[a] # NoStack
      BY <1>7, <1>8 DEF NoStack
<1>10. \A b \in APs : HasStack(b) /\ esp[b] = esp[a] => ecx[b] = ecx[a]
      BY <1>8
<1> QED
      BY <1>1, <1>9, <1>10 DEF OrderedIdsDistinct, HasId

\* Every AP that left set_stack runs on a stack xmon_loader allocated, and no
\* two on the same, as long as xmon_loader allocated one for each AP.
THEOREM StacksPrivate ==
  ASSUME TimeoutSufficient
  PROVE  Spec => []PrivateStacks
BY InitLaunchInv, NextLaunchInv, LaunchStacks, PTL DEF Spec

\* The BSP leaves ap_procs_run only after every AP that reported has accepted the
\* launch, on every call, even where the array counts APs of an earlier call and
\* where the monitor returns on some AP in between.
THEOREM BspWaits ==
  ASSUME TimeoutSufficient
  PROVE  Spec => []BspWaitsForAps
<1>1. LaunchInv => BspWaitsForAps
  <2> SUFFICES ASSUME LaunchInv, bsp \in {"start_application", "xmon"},
                      NEW a \in APs, Reported(a)
               PROVE  Accepted(a)
      BY DEF BspWaitsForAps
  <2>1. p_init32 = "ok"
        BY DEF LaunchInv, IdInv, ControlInv, LockInv, AllParked, Reported, HasId,
           HasStack, Accepted
  <2>2. Joined = Arrived
        BY <2>1 DEF LaunchInv, ArriveInv, AllArrived, Passed
  <2> QED
        BY <2>2 DEF Joined, Arrived, Reported, HasId, HasStack, Accepted
<1> QED
      BY <1>1, InitLaunchInv, NextLaunchInv, PTL DEF Spec

\* If the monitor never returns, no AP ever executes anything but this code: the
\* low memory page while it holds ap_start_up_code, and g_user_func once it is set.
THEOREM ApsInCode ==
  ASSUME TimeoutSufficient, ~EntryReturns
  PROVE  Spec => []ApsStayInCode
<1>1. LaunchInv => ApsStayInCode
      BY DEF LaunchInv, IdInv, ControlInv, NoneLate, Starting, CodeInv, PageHeld,
         WildReturned, ApsStayInCode
<1> QED
      BY <1>1, InitLaunchInv, NextLaunchInv, PTL DEF Spec

\* Without a returning monitor the roster is exactly the APs that reported.
LEMMA RosterExact ==
  ASSUME ~EntryReturns, LaunchInv
  PROVE  Joined = {a \in APs : Reported(a)} /\ Arrived = {a \in APs : Accepted(a)}
BY DEF LaunchInv, CodeInv, WildReturned, Joined, Arrived

\* number_of_processors_at_boot_time of every pre-OS launch is the number of
\* processors that reach the monitor, whichever APs answer and however often the
\* machine resumed: a BSP that counts too many never leaves ap_procs_run.
THEOREM ProcessorsCounted ==
  ASSUME TimeoutSufficient, ~EntryReturns
  PROVE  Spec => []ProcessorCountExact
<1>1. LaunchInv => ProcessorCountExact
  <2> SUFFICES ASSUME LaunchInv, bsp = "xmon", ~post_os, p_init32 # "nopage"
               PROVE  nproc = 1 + Cardinality({a \in APs : Reported(a)})
      BY DEF ProcessorCountExact
  <2>1. nproc = Uint16(aps_ret + 1)
        BY DEF LaunchInv, CountInv, CountSet, Launching, Released
  <2>2. aps_ret = Cardinality(Joined)
    <3>1. CASE p_init32 = "ok"
      <4>1. /\ aps_ret = g_aps_counter /\ g_ready_counter = g_aps_counter
            /\ g_ready_counter = Cardinality(Arrived) /\ Joined = Arrived
            BY <3>1 DEF LaunchInv, CountInv, Counted, Unstarted, Sending, ArriveInv,
               ReadyCount, AllArrived, Passed
      <4> QED
            BY <4>1
    <3>2. CASE p_init32 = "null"
      <4>1. Joined = {}
            BY <3>2, ParkedJoins DEF LaunchInv, IdInv, ControlInv, LockInv, AllParked
      <4> QED
            BY <3>2, <4>1, FS_EmptySet DEF LaunchInv, CountInv, NothingCounted
    <3> QED
          BY <3>1, <3>2 DEF LaunchInv, IdInv, TypeInv, TypeOK, BspType
  <2>3. aps_ret \in 0 .. 255
    <3>1. aps_ret \in -1 .. MaxCpu - 1
          BY DEF LaunchInv, IdInv, TypeInv, TypeOK, BspType
    <3>2. aps_ret \in Nat
          BY <2>2, JoinedFinite
    <3> QED
          BY <3>1, <3>2, MaxCpuRange
  <2>4. Uint16(aps_ret + 1) = 1 + aps_ret
        BY <2>3 DEF Uint16
  <2> QED
        BY <2>1, <2>2, <2>4, RosterExact
<1> QED
      BY <1>1, InitLaunchInv, NextLaunchInv, PTL DEF Spec

\* In the first call ap_procs_startup returns the number of APs that reported.
\* The later calls are different: ap_presence_array is not cleared.
THEOREM FirstCallCounts ==
  ASSUME TimeoutSufficient
  PROVE  Spec => [](call = 1 => ReturnsApsInit)
<1>1. LaunchInv => (call = 1 => ReturnsApsInit)
  <2> SUFFICES ASSUME LaunchInv, call = 1, bsp = "setup", p_init32 = "ok"
               PROVE  aps_ret = Cardinality({a \in APs : Reported(a)})
      BY DEF ReturnsApsInit
  <2>1. aps_ret = Cardinality(Stamped(MaxCpu))
        BY DEF LaunchInv, CountInv, Counted, Unstarted, Sending
  <2>2. \A i \in Stamped(MaxCpu) : \E a \in Joined : ApicId[a] = i
        BY MaxCpuRange DEF LaunchInv, EntryInv, FirstCall, Stamped
  <2>3. Cardinality(Stamped(MaxCpu)) <= Cardinality(Joined)
        BY <2>2, JoinedFinite, ApicCover
  <2>4. Cardinality(Joined) <= Cardinality(Stamped(MaxCpu))
        BY StampedBounds DEF LaunchInv
  <2>5. Cardinality(Stamped(MaxCpu)) \in Nat
        BY MaxCpuRange, StampedFinite
  <2>6. aps_ret = Cardinality(Joined)
        BY <2>1, <2>3, <2>4, <2>5, JoinedFinite
  <2>7. Joined = {a \in APs : Reported(a)}
        BY DEF LaunchInv, CodeInv, WildReturned, Released, Joined
  <2> QED
        BY <2>6, <2>7
<1> QED
      BY <1>1, InitLaunchInv, NextLaunchInv, PTL DEF Spec

-----------------------------------------------------------------------------
(***************************************************************************)
(* The launch implements the barrier, step by step.  The weak fairness of  *)
(* LaunchBarrier stays with the run that checks ImplementsBarrier.         *)
(***************************************************************************)
Phase == CASE bsp = "run_wait" -> "open"
           [] bsp \in Passed -> "passed"
           [] OTHER -> "gather"

\* The step of the barrier that a step of the system maps to, on the variables
\* of the refinement mapping.
BarrierStep ==
  \/ UNCHANGED <<Phase, Joined, Arrived>>
  \/ /\ Phase = "gather" /\ Phase' = "open"
     /\ UNCHANGED <<Joined, Arrived>>
  \/ /\ Phase = "open" \/ Joined = {}
     /\ Arrived = Joined /\ Phase' = "passed"
     /\ UNCHANGED <<Joined, Arrived>>
  \/ Phase = "passed" /\ Phase' = "gather" /\ Joined' = {} /\ Arrived' = {}
  \/ \E a \in APs :
       \/ /\ Phase = "gather" /\ Joined' = Joined \cup {a}
          /\ UNCHANGED <<Phase, Arrived>>
       \/ /\ Phase = "open" /\ a \in Joined \ Arrived /\ Arrived' = Arrived \cup {a}
          /\ UNCHANGED <<Phase, Joined>>

LEMMA BspBarrier ==
  ASSUME LaunchInv, LaunchInv', BspStep \/ BspReturns
  PROVE  BarrierStep
<1> USE DEF InitEnv, SetupLowMemory, SendInitSipi, SendIpi, EndRound, Stall,
        EnumerateAp, StartupReturns, SetupParams, RunFunc, RunData, RunState,
        RunWait, BspLaunch, BspReturns
<1>1. Joined' = Joined /\ Arrived' = Arrived /\ p_init32' = p_init32
      BY BspKeeps, BspJoins DEF apVars
<1>2. CASE RunState
      BY <1>1, <1>2 DEF BarrierStep, Phase, Passed
<1>3. CASE RunWait \/ (SetupParams /\ aps_ret = 0)
  <2>1. Arrived = Joined
    <3>1. CASE p_init32 = "ok"
          BY <1>1, <1>3, <3>1 DEF LaunchInv, ArriveInv, AllArrived, Passed
    <3>2. CASE p_init32 # "ok"
          BY <3>2, ParkedJoins DEF LaunchInv, IdInv, ControlInv, LockInv, AllParked
    <3> QED
          BY <3>1, <3>2
  <2>2. RunWait \/ Joined = {}
    <3>1. SetupParams => Arrived = {}
      <4>1. SetupParams => \A a \in APs : ~Accepted(a) /\ ap[a] # "wild"
            BY DEF LaunchInv, IdInv, ControlInv, LockInv, LockPassed, PastLock, HasId,
               HasStack, Accepted, CodeInv, WildReturned, Released
      <4> QED
            BY <4>1 DEF Arrived
    <3> QED
          BY <1>3, <2>1, <3>1
  <2> QED
        BY <1>1, <1>3, <2>1, <2>2 DEF BarrierStep, Phase, Passed
<1>4. CASE ~RunState /\ ~RunWait /\ ~(SetupParams /\ aps_ret = 0)
  <2>1. Phase' = Phase
        BY <1>4 DEF BspStep, Phase, Passed
  <2> QED
        BY <1>1, <2>1 DEF BarrierStep
<1> QED
      BY <1>2, <1>3, <1>4

LEMMA ApBarrier ==
  ASSUME LaunchInv, NEW a \in APs, ApSide(a)
  PROVE  BarrierStep
<1>1. Phase' = Phase
      BY ApKeeps DEF Phase, bspVars
<1>2. CASE ApReport(a)
  <2>1. Phase = "gather"
        BY <1>2 DEF ApReport, LaunchInv, IdInv, ControlInv, NoneLate, Starting,
           Sending, Phase, Passed
  <2>2. Joined' = Joined \cup {a} /\ Arrived' = Arrived
        BY <1>2, ApJoins DEF LaunchInv, ApReport, ApIncReady
  <2> QED
        BY <1>1, <2>1, <2>2 DEF BarrierStep
<1>3. CASE ApIncReady(a)
  <2>1. a \in Joined \ Arrived /\ Arrived' = Arrived \cup {a} /\ Joined' = Joined
        BY <1>3, ApJoins DEF LaunchInv, ApReport, ApIncReady
  <2>2. bsp \in Released /\ p_init32 = "ok"
        BY <1>3 DEF ApIncReady, LaunchInv, IdInv, ControlInv, LockInv, LockPassed,
           PastLock, HasId, HasStack, AllParked
  <2>3. Phase = "open"
        BY <2>1, <2>2 DEF LaunchInv, ArriveInv, AllArrived, Phase, Passed, Released
  <2> QED
        BY <1>1, <2>1, <2>3 DEF BarrierStep
<1>4. CASE ~ApReport(a) /\ ~ApIncReady(a)
      BY <1>1, <1>4, ApJoins DEF LaunchInv, BarrierStep
<1> QED
      BY <1>2, <1>3, <1>4

LEMMA NextBarrier ==
  ASSUME LaunchInv, LaunchInv', [Next]_vars
  PROVE  BarrierStep
<1>1. CASE \E i \in Init32Inputs, g \in Init64Given, post \in BOOLEAN,
              t \in Seq(APs) : StartapMain(i, g, post, t)
  <2>1. Phase' = Phase /\ ap' = ap
        BY <1>1 DEF StartapMain, Phase, Passed, apVars
  <2> QED
        BY <2>1, BspJoins DEF BarrierStep
<1>2. CASE Resume
  <2>1. Phase = "passed" /\ Phase' = "gather"
        BY <1>2 DEF Resume, Phase, Passed
  <2>2. Joined' = {} /\ Arrived' = {}
        BY <1>2 DEF Resume, Joined, Arrived, Reported, HasId, HasStack, Accepted
  <2> QED
        BY <2>1, <2>2 DEF BarrierStep
<1>3. CASE ReuseLowMemory \/ UNCHANGED vars
  <2>1. Phase' = Phase /\ ap' = ap
        BY <1>3 DEF ReuseLowMemory, Phase, vars, bspVars, apVars
  <2> QED
        BY <2>1, BspJoins DEF BarrierStep
<1> QED
      BY <1>1, <1>2, <1>3, BspBarrier, ApBarrier, StepKinds

\* If the monitor never returns, every behaviour of startap_main, on any number of
\* APs and over any number of resumes, is one of the barrier: no AP joins after
\* the BSP has counted, none arrives twice or unreported, the BSP never passes
\* early, and a resume finds the barrier passed.
THEOREM BarrierImplemented ==
  ASSUME TimeoutSufficient, ~EntryReturns
  PROVE  Spec => Barrier!Init /\ [][Barrier!Next]_(Barrier!bvars)
<1>1. Init => Barrier!Init
      BY DEF Init, Barrier!Init, Reported, HasId, HasStack, Accepted
<1>2. ASSUME LaunchInv, LaunchInv', [Next]_vars
      PROVE  [Barrier!Next]_(Barrier!bvars)
  <2>1. BarrierStep
        BY <1>2, NextBarrier
  <2>2. /\ Joined = {a \in APs : Reported(a)} /\ Arrived = {a \in APs : Accepted(a)}
        /\ Joined' = {a \in APs : Reported(a)}' /\ Arrived' = {a \in APs : Accepted(a)}'
        BY <1>2, RosterExact DEF LaunchInv, CodeInv, WildReturned, Joined, Arrived
  <2> QED
        BY <2>1, <2>2 DEF BarrierStep, Phase, Passed, Barrier!Next, Barrier!bvars,
           Barrier!Open, Barrier!Pass, Barrier!Reset, Barrier!Report, Barrier!Arrive
<1> QED
      BY <1>1, <1>2, InitLaunchInv, NextLaunchInv, PTL DEF Spec
=============================================================================
