------------------------------ MODULE ApStartup ------------------------------
(***************************************************************************)
(* Waking the application processors and launching the monitor on all of   *)
(* them: startap_main (src/startap/startap.c), ap_procs_startup and        *)
(* ap_procs_run (src/startap/ap_procs_init.c), and the code every AP runs   *)
(* after the SIPI (src/startap/wakeup_init64.S).                           *)
(*                                                                         *)
(* The boot processor (BSP) and the APs are concurrent processes that      *)
(* share plain memory: ap_presence_array, mp_bootstrap_state, the two      *)
(* counters and the launch parameters.  Every access to shared memory is a *)
(* step of its own.  startap_main is called once at boot (xmon_loader.c)   *)
(* and again on every resume from S3, which resets the processors and      *)
(* keeps the memory.                                                       *)
(***************************************************************************)
EXTENDS Integers, Sequences, FiniteSets

CONSTANTS
  APs,               \* the application processors that can be addressed
  ApicId,            \* local APIC id of each AP (0 is the BSP's)
  MaxCpu,            \* MON_MAX_CPU_SUPPORTED, the size of ap_presence_array
  NumStacks,         \* i32_num_of_aps, the stacks xmon_loader allocated
  Init32Inputs,      \* the p_init32 arguments the callers pass
  Init64Given,       \* whether the callers pass a p_init64 (a set of Booleans)
  TargetLists,       \* the cpu_local_apic_ids lists of post-OS launches
  MaxCalls,          \* bound: calls of startap_main (boot, then resumes)
  TimeoutSufficient, \* an AP that starts reports before the last stall ends
  Unreliable,        \* APs that may fail to accept an IPI
  EntryReturns       \* the monitor's entry point may return

ASSUME ApicIdAssumption ==
  /\ MaxCpu \in 2 .. 256
  /\ ApicId \in [APs -> 1 .. MaxCpu - 1]
  /\ \A a, b \in APs : ApicId[a] = ApicId[b] => a = b

ASSUME StackAssumption ==
  /\ IsFiniteSet(APs)
  /\ NumStacks \in Nat
  /\ Cardinality(APs) <= NumStacks

ASSUME CallAssumption ==
  /\ MaxCalls \in Nat \ {0}
  /\ Init32Inputs \subseteq {"null", "nopage", "ok"}
  /\ Init64Given \subseteq BOOLEAN
  /\ TargetLists \subseteq Seq(APs)
  /\ Unreliable \subseteq APs
  /\ TimeoutSufficient \in BOOLEAN
  /\ EntryReturns \in BOOLEAN

VARIABLES
  \* the BSP
  bsp,                 \* where the BSP is
  call,                \* number of startap_main calls so far
  p_init32, p_init64,  \* the arguments of this call, p_init64 = 0 for NULL
  post_os,             \* MON_STARTUP_POST_OS_LAUNCH_MODE of p_startup->flags
  ids,                 \* cpu_local_apic_ids[1..] of p_startup
  k,                   \* loop counter of the IPI loops and of bsp_enumerate_aps
  ap_num,              \* bsp_enumerate_aps: APs discovered so far
  aps_ret,             \* application_procesors, -1 for (uint32_t)(-1)
  nproc,               \* number_of_processors_at_boot_time
  \* the local APIC and the low memory page
  icr,                 \* the IPI being delivered: its kind and who has it due
  low_page,            \* what the page at i32_low_memory_page holds
  \* memory shared with the APs
  ap_presence_array, mp_bootstrap_state, g_aps_counter, g_ready_counter,
  g_user_func, g_any_data, application_params, gp_init64,
  \* each AP
  ap,                  \* where the AP is
  ecx,                 \* the AP ordered ID it read
  esp,                 \* index of the stack it loaded
  ctx                  \* the launch parameters start_application used

bspVars  == <<bsp, call, p_init32, p_init64, post_os, ids, k, ap_num, aps_ret,
              nproc>>
hwVars   == <<icr, low_page>>
syncVars == <<ap_presence_array, mp_bootstrap_state, g_aps_counter,
              g_ready_counter>>
argVars  == <<g_user_func, g_any_data, application_params, gp_init64>>
apVars   == <<ap, ecx, esp, ctx>>
vars     == <<bspVars, hwVars, syncVars, argVars, apVars>>

(***************************************************************************)
(* Values.                                                                 *)
(***************************************************************************)
MP_BOOTSTRAP_STATE_INIT           == 0
MP_BOOTSTRAP_STATE_APS_ENUMERATED == 1

Uint8(n)  == n % 256
Uint16(n) == n % 65536

NoStack == -1     \* i32_esp[i] is 0 where xmon_loader allocated nothing
NoCtx   == [params |-> 0, init64 |-> 0]
NoIpi   == [kind |-> "none", due |-> {}]

\* send_broadcast_init_sipi addresses all APs by one shorthand IPI,
\* send_targeted_init_sipi one AP after the other.
Dests == IF post_os THEN [i \in DOMAIN ids |-> {ids[i]}] ELSE <<APs>>

BspStates ==
  {"startap_main", "env", "page", "send_init", "send_sipi_1", "send_sipi_2",
   "stall", "enumerate", "setup", "run_func", "run_data", "run_state",
   "run_wait", "start_application", "xmon", "halted", "wild"}

ApStates ==
  {"parked", "wait_sipi", "low_memory", "wakeup", "wait_lock_1", "stage_2",
   "set_stack", "inc_ready", "call_user", "xmon", "wild"}

BspType ==
  /\ bsp \in BspStates
  /\ call \in 0 .. MaxCalls
  /\ p_init32 \in {"null", "nopage", "ok"}
  /\ p_init64 \in 0 .. MaxCalls
  /\ post_os \in BOOLEAN
  /\ ids \in Seq(APs)
  /\ k \in Nat \ {0}
  /\ ap_num \in 0 .. MaxCpu - 1
  /\ aps_ret \in -1 .. MaxCpu - 1
  /\ nproc \in Nat

HwType ==
  /\ icr \in [kind : {"none", "INIT", "SIPI"}, due : SUBSET APs]
  /\ low_page \in {"free", "ap_start_up_code"}

SyncType ==
  /\ ap_presence_array \in [0 .. MaxCpu - 1 -> 0 .. MaxCpu - 1]
  /\ mp_bootstrap_state \in {MP_BOOTSTRAP_STATE_INIT,
                             MP_BOOTSTRAP_STATE_APS_ENUMERATED}
  /\ g_aps_counter \in 0 .. MaxCpu - 1
  /\ g_ready_counter \in Nat

ArgType ==
  /\ g_user_func \in {"null", "start_application"}
  /\ g_any_data \in {"null", "application_params"}
  /\ application_params \in 0 .. MaxCalls
  /\ gp_init64 \in 0 .. MaxCalls

ApType ==
  /\ ap \in [APs -> ApStates]
  /\ ecx \in [APs -> 0 .. MaxCpu - 1]
  /\ esp \in [APs -> {NoStack} \cup 0 .. NumStacks - 1]
  /\ ctx \in [APs -> [params : 0 .. MaxCalls, init64 : 0 .. MaxCalls]]

\* Every variable has the type and the range of its C declaration, with the
\* uint8_t ordered IDs bounded by the size of ap_presence_array.
TypeOK == BspType /\ HwType /\ SyncType /\ ArgType /\ ApType

Init ==
  /\ bsp = "startap_main" /\ call = 0
  /\ p_init32 = "null" /\ p_init64 = 0 /\ post_os = FALSE /\ ids = <<>>
  /\ k = 1 /\ ap_num = 0 /\ aps_ret = 0 /\ nproc = 0
  /\ icr = NoIpi /\ low_page = "free"
  /\ ap_presence_array = [i \in 0 .. MaxCpu - 1 |-> 0]
  /\ mp_bootstrap_state = MP_BOOTSTRAP_STATE_INIT
  /\ g_aps_counter = 0 /\ g_ready_counter = 0
  /\ g_user_func = "null" /\ g_any_data = "null"
  /\ application_params = 0 /\ gp_init64 = 0
  /\ ap  = [a \in APs |-> "parked"]
  /\ ecx = [a \in APs |-> 0]
  /\ esp = [a \in APs |-> NoStack]
  /\ ctx = [a \in APs |-> NoCtx]

-----------------------------------------------------------------------------
(***************************************************************************)
(* BSP, stage 1: prepare the environment and wake the APs.                 *)
(***************************************************************************)

\* startap_main is entered.  Without p_init32 no AP is started; without a low
\* memory page ap_procs_startup returns (uint32_t)(-1) before it does anything.
StartapMain(init32, init64, post, list) ==
  /\ bsp = "startap_main"
  /\ call < MaxCalls
  /\ call' = call + 1
  /\ p_init32' = init32
  /\ p_init64' = IF init64 THEN call + 1 ELSE 0
  /\ post_os' = post
  /\ ids' = list
  /\ nproc' = IF post THEN Len(list) + 1 ELSE 0
  /\ bsp' = IF init32 = "ok" THEN "env" ELSE "setup"
  /\ aps_ret' = IF init32 = "nopage" THEN -1 ELSE 0
  /\ UNCHANGED <<k, ap_num, hwVars, syncVars, argVars, apVars>>

\* Mutation: g_ready_counter keeps the count of the previous call.
InitEnvKeepsReady ==
  /\ bsp = "env"
  /\ bsp' = "page"
  /\ mp_bootstrap_state' = MP_BOOTSTRAP_STATE_INIT
  /\ g_user_func' = "null"
  /\ g_any_data' = "null"
  /\ UNCHANGED <<call, p_init32, p_init64, post_os, ids, k, ap_num, aps_ret, nproc,
                 hwVars, ap_presence_array, g_aps_counter, g_ready_counter,
                 application_params, gp_init64, apVars>>

\* Mutation: mp_bootstrap_state stays as the previous call left it.
InitEnvKeepsState ==
  /\ bsp = "env"
  /\ bsp' = "page"
  /\ g_ready_counter' = 0
  /\ g_user_func' = "null"
  /\ g_any_data' = "null"
  /\ UNCHANGED <<call, p_init32, p_init64, post_os, ids, k, ap_num, aps_ret, nproc,
                 hwVars, ap_presence_array, mp_bootstrap_state, g_aps_counter,
                 application_params, gp_init64, apVars>>

\* ap_intialize_environment.  ap_presence_array is not cleared.
InitEnv ==
  /\ bsp = "env"
  /\ bsp' = "page"
  /\ mp_bootstrap_state' = MP_BOOTSTRAP_STATE_INIT
  /\ g_ready_counter' = 0
  /\ g_user_func' = "null"
  /\ g_any_data' = "null"
  /\ UNCHANGED <<call, p_init32, p_init64, post_os, ids, k, ap_num, aps_ret, nproc,
                 hwVars, ap_presence_array, g_aps_counter,
                 application_params, gp_init64, apVars>>

\* gp_init32_data is published, GDTR and IDTR are saved and
\* setup_low_memory_ap_code patches the startup code into the page.
SetupLowMemory ==
  /\ bsp = "page"
  /\ bsp' = "send_init"
  /\ k' = 1
  /\ low_page' = "ap_start_up_code"
  /\ UNCHANGED <<call, p_init32, p_init64, post_os, ids, ap_num, aps_ret, nproc,
                 icr, syncVars, argVars, apVars>>

\* One IPI of a round: wait until the ICR is idle and write it.  The poll of
\* delivery_status after the write is the wait of the next step of the BSP.
SendIpi(kind) ==
  /\ icr = NoIpi
  /\ k <= Len(Dests)
  /\ icr' = IF Dests[k] = {} THEN NoIpi
                             ELSE [kind |-> kind, due |-> Dests[k]]
  /\ k' = k + 1
  /\ UNCHANGED bsp

\* The last IPI of a round is delivered and the stall after it is over.
EndRound(next) ==
  /\ icr = NoIpi
  /\ k > Len(Dests)
  /\ k' = 1
  /\ bsp' = next
  /\ UNCHANGED icr

\* send_broadcast_init_sipi, send_targeted_init_sipi: INIT, SIPI and SIPI again.
SendInitSipi ==
  /\ \/ bsp = "send_init"   /\ (SendIpi("INIT") \/ EndRound("send_sipi_1"))
     \/ bsp = "send_sipi_1" /\ (SendIpi("SIPI") \/ EndRound("send_sipi_2"))
     \/ bsp = "send_sipi_2" /\ (SendIpi("SIPI") \/ EndRound("stall"))
  /\ UNCHANGED <<call, p_init32, p_init64, post_os, ids, ap_num, aps_ret, nproc,
                 low_page, syncVars, argVars, apVars>>

\* Mutation: ap_num is not set back to 0 (a static local).
StallKeepsApNum ==
  /\ bsp = "stall"
  /\ TimeoutSufficient => \A a \in APs : ap[a] \notin {"low_memory", "wakeup"}
  /\ bsp' = "enumerate"
  /\ k' = 1
  /\ UNCHANGED <<call, p_init32, p_init64, post_os, ids, ap_num, aps_ret, nproc,
                 hwVars, syncVars, argVars, apVars>>

\* Mutation: there is no stall between the last SIPI and the enumeration.
NoStall ==
  /\ bsp = "stall"
  /\ bsp' = "enumerate"
  /\ k' = 1
  /\ ap_num' = 0
  /\ UNCHANGED <<call, p_init32, p_init64, post_os, ids, aps_ret, nproc,
                 hwVars, syncVars, argVars, apVars>>

\* The stall of INITIAL_WAIT_FOR_APS_TIMEOUT_IN_MILIS ends and
\* bsp_enumerate_aps begins.
Stall ==
  /\ bsp = "stall"
  /\ TimeoutSufficient => \A a \in APs : ap[a] \notin {"low_memory", "wakeup"}
  /\ bsp' = "enumerate"
  /\ k' = 1
  /\ ap_num' = 0
  /\ UNCHANGED <<call, p_init32, p_init64, post_os, ids, aps_ret, nproc,
                 hwVars, syncVars, argVars, apVars>>

-----------------------------------------------------------------------------
(***************************************************************************)
(* BSP, stage 2: number the APs that reported and launch the monitor.      *)
(***************************************************************************)

\* Mutation: the APs are counted but the array keeps its 1/0 entries.
EnumerateCountsOnly ==
  /\ bsp = "enumerate"
  /\ k < MaxCpu
  /\ k' = k + 1
  /\ ap_num' = IF ap_presence_array[k] # 0 THEN Uint8(ap_num + 1) ELSE ap_num
  /\ UNCHANGED <<bsp, call, p_init32, p_init64, post_os, ids, aps_ret, nproc,
                 hwVars, syncVars, argVars, apVars>>

\* One iteration of bsp_enumerate_aps.
EnumerateAp ==
  /\ bsp = "enumerate"
  /\ k < MaxCpu
  /\ k' = k + 1
  /\ IF ap_presence_array[k] # 0
     THEN /\ ap_num' = Uint8(ap_num + 1)
          /\ ap_presence_array' = [ap_presence_array EXCEPT ![k] = ap_num']
     ELSE UNCHANGED <<ap_num, ap_presence_array>>
  /\ UNCHANGED <<bsp, call, p_init32, p_init64, post_os, ids, aps_ret, nproc, hwVars,
                 mp_bootstrap_state, g_aps_counter, g_ready_counter,
                 argVars, apVars>>

\* ap_procs_startup returns the number of APs.
StartupReturns ==
  /\ bsp = "enumerate"
  /\ k = MaxCpu
  /\ bsp' = "setup"
  /\ g_aps_counter' = ap_num
  /\ aps_ret' = ap_num
  /\ UNCHANGED <<call, p_init32, p_init64, post_os, ids, k, ap_num, nproc, hwVars,
                 ap_presence_array, mp_bootstrap_state, g_ready_counter,
                 argVars, apVars>>

\* Mutation: the BSP is left out of the number of processors.
SetupForgetsBsp ==
  /\ bsp = "setup"
  /\ gp_init64' = p_init64
  /\ nproc' = IF post_os THEN nproc ELSE Uint16(aps_ret)
  /\ application_params' = call
  /\ bsp' = IF aps_ret # 0 THEN "run_func" ELSE "start_application"
  /\ UNCHANGED <<call, p_init32, p_init64, post_os, ids, k, ap_num, aps_ret, hwVars,
                 syncVars, g_user_func, g_any_data, apVars>>

\* Mutation: gp_init64 is set once and kept over a resume.
SetupKeepsInit64 ==
  /\ bsp = "setup"
  /\ gp_init64' = IF gp_init64 = 0 THEN p_init64 ELSE gp_init64
  /\ nproc' = IF post_os THEN nproc ELSE Uint16(aps_ret + 1)
  /\ application_params' = call
  /\ bsp' = IF aps_ret # 0 THEN "run_func" ELSE "start_application"
  /\ UNCHANGED <<call, p_init32, p_init64, post_os, ids, k, ap_num, aps_ret, hwVars,
                 syncVars, g_user_func, g_any_data, apVars>>

\* The rest of startap_main before the launch.  The unsigned test
\* application_procesors > 0 is also true of (uint32_t)(-1).
SetupParams ==
  /\ bsp = "setup"
  /\ gp_init64' = p_init64
  /\ nproc' = IF post_os THEN nproc ELSE Uint16(aps_ret + 1)
  /\ application_params' = call
  /\ bsp' = IF aps_ret # 0 THEN "run_func" ELSE "start_application"
  /\ UNCHANGED <<call, p_init32, p_init64, post_os, ids, k, ap_num, aps_ret, hwVars,
                 syncVars, g_user_func, g_any_data, apVars>>

\* ap_procs_run, its three stores in program order, then the wait.
RunFunc ==
  /\ bsp = "run_func"
  /\ bsp' = "run_data"
  /\ g_user_func' = "start_application"
  /\ UNCHANGED <<call, p_init32, p_init64, post_os, ids, k, ap_num, aps_ret, nproc,
                 hwVars, syncVars, g_any_data, application_params, gp_init64, apVars>>

\* Mutation: the APs are released before their argument is stored.
RunDataSignalsFirst ==
  /\ bsp = "run_data"
  /\ bsp' = "run_state"
  /\ mp_bootstrap_state' = MP_BOOTSTRAP_STATE_APS_ENUMERATED
  /\ UNCHANGED <<call, p_init32, p_init64, post_os, ids, k, ap_num, aps_ret, nproc,
                 hwVars, ap_presence_array, g_aps_counter, g_ready_counter,
                 argVars, apVars>>

RunData ==
  /\ bsp = "run_data"
  /\ bsp' = "run_state"
  /\ g_any_data' = "application_params"
  /\ UNCHANGED <<call, p_init32, p_init64, post_os, ids, k, ap_num, aps_ret, nproc,
                 hwVars, syncVars, g_user_func, application_params, gp_init64, apVars>>

\* Mutation: the exchange is left out.
RunStateNoSignal ==
  /\ bsp = "run_state"
  /\ bsp' = "run_wait"
  /\ UNCHANGED <<call, p_init32, p_init64, post_os, ids, k, ap_num, aps_ret, nproc,
                 hwVars, syncVars, argVars, apVars>>

\* mp_set_bootstrap_state: the locked exchange that releases the APs.
RunState ==
  /\ bsp = "run_state"
  /\ bsp' = "run_wait"
  /\ mp_bootstrap_state' = MP_BOOTSTRAP_STATE_APS_ENUMERATED
  /\ UNCHANGED <<call, p_init32, p_init64, post_os, ids, k, ap_num, aps_ret, nproc,
                 hwVars, ap_presence_array, g_aps_counter, g_ready_counter,
                 argVars, apVars>>

\* Mutation: the BSP does not wait for the last AP.
RunWaitOneShort ==
  /\ bsp = "run_wait"
  /\ g_ready_counter + 1 >= g_aps_counter
  /\ bsp' = "start_application"
  /\ UNCHANGED <<call, p_init32, p_init64, post_os, ids, k, ap_num, aps_ret, nproc,
                 hwVars, syncVars, argVars, apVars>>

\* Mutation: the BSP counts itself among those it waits for.
RunWaitCountsBsp ==
  /\ bsp = "run_wait"
  /\ g_ready_counter = g_aps_counter + 1
  /\ bsp' = "start_application"
  /\ UNCHANGED <<call, p_init32, p_init64, post_os, ids, k, ap_num, aps_ret, nproc,
                 hwVars, syncVars, argVars, apVars>>

\* The wait loop of ap_procs_run: left only on equality, else another pause.
RunWait ==
  /\ bsp = "run_wait"
  /\ g_ready_counter = g_aps_counter
  /\ bsp' = "start_application"
  /\ UNCHANGED <<call, p_init32, p_init64, post_os, ids, k, ap_num, aps_ret, nproc,
                 hwVars, syncVars, argVars, apVars>>

RunPause ==
  /\ bsp = "run_wait"
  /\ g_ready_counter # g_aps_counter
  /\ UNCHANGED vars

\* start_application(0, ...): the BSP enters the monitor.
BspLaunch ==
  /\ bsp = "start_application"
  /\ bsp' = "xmon"
  /\ UNCHANGED <<call, p_init32, p_init64, post_os, ids, k, ap_num, aps_ret, nproc,
                 hwVars, syncVars, argVars, apVars>>

\* The monitor returns: from the 32-bit call to startap_main and on to the
\* endless loop of xmon_loader, from the 64-bit call past the end of
\* start_64bit_mode.
BspReturns ==
  /\ EntryReturns
  /\ bsp = "xmon"
  /\ bsp' = IF gp_init64 = 0 THEN "halted" ELSE "wild"
  /\ UNCHANGED <<call, p_init32, p_init64, post_os, ids, k, ap_num, aps_ret, nproc,
                 hwVars, syncVars, argVars, apVars>>

-----------------------------------------------------------------------------
(***************************************************************************)
(* The local APIC delivers the pending IPI to one AP after the other and    *)
(* goes idle after the last one.                                           *)
(***************************************************************************)
Delivered(a) ==
  /\ a \in icr.due
  /\ icr' = IF icr.due = {a} THEN NoIpi ELSE [icr EXCEPT !.due = @ \ {a}]

\* INIT stops an AP wherever it is; a SIPI starts it only when it waits for one.
AcceptIpi(a) ==
  /\ Delivered(a)
  /\ ap' = [ap EXCEPT ![a] = CASE icr.kind = "INIT" -> "wait_sipi"
                               [] icr.kind = "SIPI" /\ @ = "wait_sipi"
                                    -> "low_memory"
                               [] OTHER -> @]
  /\ UNCHANGED <<bspVars, low_page, syncVars, argVars, ecx, esp, ctx>>

\* An absent or disabled AP, or one that misses the IPI.
IgnoreIpi(a) ==
  /\ a \in Unreliable
  /\ Delivered(a)
  /\ UNCHANGED <<bspVars, low_page, syncVars, argVars, apVars>>

\* "After the return this memory is free": the caller's next user of the page.
ReuseLowMemory ==
  /\ bsp \in {"start_application", "xmon"}
  /\ low_page = "ap_start_up_code"
  /\ low_page' = "free"
  /\ UNCHANGED <<bspVars, icr, syncVars, argVars, apVars>>

-----------------------------------------------------------------------------
(***************************************************************************)
(* An AP, from the first instruction in the low memory page.               *)
(***************************************************************************)

\* ap_start_up_code: real mode to protected mode, then ap_continue_wakeup_code.
ApStartUpCode(a) ==
  /\ ap[a] = "low_memory"
  /\ ap' = [ap EXCEPT ![a] = IF low_page = "ap_start_up_code" THEN "wakeup"
                                                              ELSE "wild"]
  /\ UNCHANGED <<bspVars, hwVars, syncVars, argVars, ecx, esp, ctx>>

\* movb $1, ap_presence_array(local_apic_id)
ApReport(a) ==
  /\ ap[a] = "wakeup"
  /\ ap' = [ap EXCEPT ![a] = "wait_lock_1"]
  /\ ap_presence_array' = [ap_presence_array EXCEPT ![ApicId[a]] = 1]
  /\ UNCHANGED <<bspVars, hwVars, mp_bootstrap_state, g_aps_counter,
                 g_ready_counter, argVars, ecx, esp, ctx>>

\* wait_lock_1: pause until the state is MP_BOOTSTRAP_STATE_APS_ENUMERATED.
ApWaitLock1(a) ==
  /\ ap[a] = "wait_lock_1"
  /\ mp_bootstrap_state = MP_BOOTSTRAP_STATE_APS_ENUMERATED
  /\ ap' = [ap EXCEPT ![a] = "stage_2"]
  /\ UNCHANGED <<bspVars, hwVars, syncVars, argVars, ecx, esp, ctx>>

ApPause(a) ==
  /\ ap[a] = "wait_lock_1"
  /\ mp_bootstrap_state # MP_BOOTSTRAP_STATE_APS_ENUMERATED
  /\ UNCHANGED vars

\* movb (%edx), %cl: the AP reads its ordered ID.
ApReadId(a) ==
  /\ ap[a] = "stage_2"
  /\ ap' = [ap EXCEPT ![a] = "set_stack"]
  /\ ecx' = [ecx EXCEPT ![a] = ap_presence_array[ApicId[a]]]
  /\ UNCHANGED <<bspVars, hwVars, syncVars, argVars, esp, ctx>>

\* Mutation: the ordered ID is used as the index, without decl %eax.
ApSetStackNoDec(a) ==
  /\ ap[a] = "set_stack"
  /\ ap' = [ap EXCEPT ![a] = "inc_ready"]
  /\ esp' = [esp EXCEPT ![a] = IF ecx[a] < NumStacks THEN ecx[a] ELSE NoStack]
  /\ UNCHANGED <<bspVars, hwVars, syncVars, argVars, ecx, ctx>>

\* movl gp_init32_data->i32_esp[ecx - 1], %esp; lgdt; lidt; call
ApSetStack(a) ==
  /\ ap[a] = "set_stack"
  /\ ap' = [ap EXCEPT ![a] = "inc_ready"]
  /\ esp' = [esp EXCEPT ![a] = IF ecx[a] - 1 \in 0 .. NumStacks - 1
                               THEN ecx[a] - 1 ELSE NoStack]
  /\ UNCHANGED <<bspVars, hwVars, syncVars, argVars, ecx, ctx>>

\* ap_continue_wakeup_code_C: lock incl g_ready_counter
ApIncReady(a) ==
  /\ ap[a] = "inc_ready"
  /\ ap' = [ap EXCEPT ![a] = "call_user"]
  /\ g_ready_counter' = g_ready_counter + 1
  /\ UNCHANGED <<bspVars, hwVars, ap_presence_array, mp_bootstrap_state,
                 g_aps_counter, argVars, ecx, esp, ctx>>

\* g_user_func(ordered ID, g_any_data): start_application on the AP.
ApCallUser(a) ==
  /\ ap[a] = "call_user"
  /\ IF g_user_func = "start_application" /\ g_any_data = "application_params"
     THEN /\ ap' = [ap EXCEPT ![a] = "xmon"]
          /\ ctx' = [ctx EXCEPT ![a] = [params |-> application_params,
                                        init64 |-> gp_init64]]
     ELSE /\ ap' = [ap EXCEPT ![a] = "wild"]
          /\ UNCHANGED ctx
  /\ UNCHANGED <<bspVars, hwVars, syncVars, argVars, ecx, esp>>

\* The user function returns.  From a 32-bit call the ret of stage_2 pops the
\* pushed ordered ID and the AP goes on at that address; from a 64-bit call it
\* goes on past the end of start_64bit_mode.
ApReturns(a) ==
  /\ EntryReturns
  /\ ap[a] = "xmon"
  /\ ap' = [ap EXCEPT ![a] = "wild"]
  /\ UNCHANGED <<bspVars, hwVars, syncVars, argVars, ecx, esp, ctx>>

-----------------------------------------------------------------------------
\* In the monitor, or where the code leaves the AP for good.
AtRest(a) ==
  \/ ap[a] \in {"parked", "wait_sipi", "xmon"}
  \/ ap[a] = "wait_lock_1" /\ mp_bootstrap_state = MP_BOOTSTRAP_STATE_INIT

\* Suspend to RAM and resume: every processor is reset, memory is kept, and
\* the monitor calls the startap entry point again.
Resume ==
  /\ bsp = "xmon"
  /\ call < MaxCalls
  /\ \A a \in APs : AtRest(a)
  /\ bsp' = "startap_main"
  /\ low_page' = "free"
  /\ ap' = [a \in APs |-> "parked"]
  /\ ecx' = [a \in APs |-> 0]
  /\ esp' = [a \in APs |-> NoStack]
  /\ ctx' = [a \in APs |-> NoCtx]
  /\ UNCHANGED <<call, p_init32, p_init64, post_os, ids, k, ap_num, aps_ret, nproc,
                 icr, syncVars, argVars>>

\* The launch is over and nobody calls again.
Done ==
  /\ bsp \in {"xmon", "halted", "wild"}
  /\ \A a \in APs : AtRest(a) \/ ap[a] = "wild"
  /\ UNCHANGED vars

BspStep ==
  \/ InitEnv \/ SetupLowMemory \/ SendInitSipi \/ Stall
  \/ EnumerateAp \/ StartupReturns \/ SetupParams
  \/ RunFunc \/ RunData \/ RunState \/ RunWait \/ BspLaunch

ApStep(a) ==
  \/ ApStartUpCode(a) \/ ApReport(a) \/ ApWaitLock1(a) \/ ApReadId(a)
  \/ ApSetStack(a) \/ ApIncReady(a) \/ ApCallUser(a)

Next ==
  \/ \E i \in Init32Inputs, g \in Init64Given : StartapMain(i, g, FALSE, <<>>)
  \/ \E i \in Init32Inputs, g \in Init64Given, t \in TargetLists :
        StartapMain(i, g, TRUE, t)
  \/ BspStep
  \/ RunPause
  \/ BspReturns
  \/ \E a \in APs : AcceptIpi(a) \/ IgnoreIpi(a)
  \/ \E a \in APs : ApStep(a) \/ ApPause(a)
  \/ \E a \in APs : ApReturns(a)
  \/ ReuseLowMemory
  \/ Resume
  \/ Done

Spec == Init /\ [][Next]_vars

\* Every processor executes its instructions and the APIC delivers what is
\* pending; nothing makes the monitor return, suspend or reuse the page.
Fairness ==
  /\ WF_vars(BspStep)
  /\ \A a \in APs : WF_vars(ApStep(a))
  /\ \A a \in APs : WF_vars(AcceptIpi(a) \/ IgnoreIpi(a))

FairSpec == Spec /\ Fairness

-----------------------------------------------------------------------------
(***************************************************************************)
(* What the launch promises.                                               *)
(***************************************************************************)

\* Where an AP is between its report and the monitor.
Accepted(a) == ap[a] \in {"call_user", "xmon"}
HasStack(a) == ap[a] = "inc_ready" \/ Accepted(a)
HasId(a)    == ap[a] = "set_stack" \/ HasStack(a)
Reported(a) == ap[a] \in {"wait_lock_1", "stage_2"} \/ HasId(a)
Starting(a) == ap[a] \in {"low_memory", "wakeup"}

\* Every AP past stage_2 holds an ordered ID in 1 .. g_aps_counter that no
\* other AP holds: what bsp_enumerate_aps stores for one AP is never lost, or
\* overwritten by a report, before the AP reads it (wakeup_init64.S:44).
OrderedIdsDistinct ==
  \A a \in APs : HasId(a) =>
    /\ ecx[a] \in 1 .. g_aps_counter
    /\ \A b \in APs : HasId(b) /\ ecx[b] = ecx[a] => b = a

\* An AP that left set_stack runs on one of the stacks xmon_loader allocated
\* and on a stack of its own (i32_esp[ordered ID - 1], wakeup_init64.S:46-52).
PrivateStacks ==
  \A a \in APs : HasStack(a) =>
    /\ esp[a] # NoStack
    /\ \A b \in APs : HasStack(b) /\ esp[b] = esp[a] => b = a

\* "wait until all APs will accept this": the BSP leaves ap_procs_run only
\* after every AP that reported has incremented g_ready_counter.
BspWaitsForAps ==
  bsp \in {"start_application", "xmon"} =>
    \A a \in APs : Reported(a) => Accepted(a)

\* An AP enters the monitor with the parameters and the 64-bit environment of
\* the startap_main call that woke it, never with those of an earlier call or
\* with the zeros of ap_intialize_environment.
LaunchContext ==
  \A a \in APs : ap[a] = "xmon" =>
    ctx[a] = [params |-> call, init64 |-> p_init64]

\* No AP leaves the code of this program: it executes the low memory page only
\* while the page holds ap_start_up_code ("After the return this memory is
\* free") and calls g_user_func only when it is set.
ApsStayInCode ==
  \A a \in APs :
    /\ ap[a] # "wild"
    /\ ap[a] = "low_memory" => low_page = "ap_start_up_code"

\* "number of processors that were init (not including BSP)"
\* (ap_procs_init.h:58): what ap_procs_startup returns is the number of APs
\* that reported in this call, neither fewer nor more.
ReturnsApsInit ==
  bsp = "setup" /\ p_init32 = "ok" =>
    aps_ret = Cardinality({a \in APs : Reported(a)})

\* The monitor of a pre-OS launch finds in number_of_processors_at_boot_time
\* the processors that reach it: the BSP and every AP that reported.
ProcessorCountExact ==
  bsp = "xmon" /\ ~post_os /\ p_init32 # "nopage" =>
    nproc = 1 + Cardinality({a \in APs : Reported(a)})

\* Once the APs are released, the ordered IDs and the number the BSP waits for
\* do not change until the next call resets mp_bootstrap_state.
IdsFrozen ==
  [][ mp_bootstrap_state = MP_BOOTSTRAP_STATE_APS_ENUMERATED
      /\ mp_bootstrap_state' = MP_BOOTSTRAP_STATE_APS_ENUMERATED
      => UNCHANGED <<ap_presence_array, g_aps_counter>> ]_vars

\* The launch is a barrier: in terms of LaunchBarrier, the roster are the APs
\* that reported, an AP arrives when it increments g_ready_counter, and the BSP
\* passes when it leaves ap_procs_run.
Barrier == INSTANCE LaunchBarrier WITH
  Procs   <- APs,
  phase   <- CASE bsp = "run_wait" -> "open"
               [] bsp \in {"start_application", "xmon", "halted", "wild"} -> "passed"
               [] OTHER -> "gather",
  roster  <- {a \in APs : Reported(a)},
  arrived <- {a \in APs : Accepted(a)}

\* startap_main implements the barrier: no AP joins after the BSP has counted,
\* none arrives twice or unreported, and the BSP neither passes early nor waits
\* for an AP that is not coming.
ImplementsBarrier == Barrier!Spec

\* Every startap_main brings the BSP into the monitor, whatever APs answer.
BspLaunches == bsp = "setup" \/ bsp = "env" ~> bsp = "xmon"

\* Every AP that reports is released and enters the monitor.
ApsLaunch == \A a \in APs : ap[a] = "wait_lock_1" ~> ap[a] = "xmon"
=============================================================================
