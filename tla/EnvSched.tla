------------------------------ MODULE EnvSched ------------------------------
(***************************************************************************)
(* Environments and their scheduling: kern/env.c, kern/sched.c, the trap   *)
(* path of kern/trap.c, and the system calls of kern/syscall.c that change *)
(* an environment's status, identity, priority or IPC state.               *)
(*                                                                         *)
(* A CPU holds the big kernel lock from its trap until env_run drops it    *)
(* (KernelLock), so one kernel entry is one action: from a CPU in user     *)
(* mode, through the whole handler and the scheduler, back to user mode.   *)
(***************************************************************************)
EXTENDS Integers, Sequences, FiniteSets

CONSTANTS
  NCPU,       \* CPUs; CPU c runs the idle environment of slot c
  NBoot,      \* environments i386_init creates besides the idle ones
  NENV,       \* slots of envs[]
  MaxGen,     \* generations an envid can hold (2^19 - 1 in the code)
  WrapIds,    \* whether slots are reused past MaxGen (a bound when FALSE)
  NoEnv,      \* the null curenv
  Calls,      \* the system calls that user programs make
  DestroyTwice  \* whether a parent may destroy a child again (see below)

CallNames  == {"exofork", "destroy", "exit", "status", "priority", "ipc"}

ASSUME SchedAssumption ==
  /\ NCPU \in Nat \ {0} /\ NBoot \in Nat /\ NENV \in Nat
  /\ NCPU + NBoot <= NENV
  /\ MaxGen \in Nat \ {0} /\ WrapIds \in BOOLEAN
  /\ NoEnv \notin Nat
  /\ Calls \subseteq CallNames /\ DestroyTwice \in BOOLEAN

VARIABLES
  status,     \* env_status of each slot
  gen,        \* generation part of env_id: the id of slot s is <<gen[s], s>>
  parent,     \* env_parent_id
  prio,       \* env_priority
  recving,    \* env_ipc_recving
  freeList,   \* env_free_list, from its head
  curenv,     \* cpu_env of each CPU
  fresh,      \* children not yet started by their parent's sys_env_set_status
  halted      \* "monitor" or "panic" once a CPU stops with the lock held

envVars   == <<gen, parent, prio, recving, freeList, fresh>>
schedVars == <<status, curenv, halted>>
vars      == <<envVars, schedVars>>

CPU      == 0 .. NCPU - 1
Slot     == 0 .. NENV - 1
Idle     == 0 .. NCPU - 1     \* env_type == ENV_TYPE_IDLE
EnvId    == (0 .. MaxGen) \X Slot
NullId   == <<0, 0>>          \* parent of the environments made at boot
Priority == {0, 1}            \* ENV_PRIORITY_LOW, ENV_PRIORITY_HIGH
Status   == {"FREE", "DYING", "RUNNABLE", "RUNNING", "NOT_RUNNABLE"}

IdOf(s)  == <<gen[s], s>>
Cur(c)   == curenv[c]

TypeOK ==
  /\ status \in [Slot -> Status]
  /\ gen \in [Slot -> 0 .. MaxGen]
  /\ parent \in [Slot -> EnvId]
  /\ prio \in [Slot -> Priority]
  /\ recving \in [Slot -> BOOLEAN]
  /\ freeList \in Seq(Slot)
  /\ curenv \in [CPU -> Slot \cup {NoEnv}]
  /\ fresh \subseteq Slot
  /\ halted \in {"no", "monitor", "panic"}

\* env_init, then i386_init: the idle environments in slots 0.., the servers
\* and the first program after them; no CPU has scheduled yet.
Init ==
  /\ status = [s \in Slot |-> IF s < NCPU + NBoot THEN "RUNNABLE" ELSE "FREE"]
  /\ gen = [s \in Slot |-> IF s < NCPU + NBoot THEN 1 ELSE 0]
  /\ parent = [s \in Slot |-> NullId]
  /\ prio = [s \in Slot |-> 0]
  /\ recving = [s \in Slot |-> FALSE]
  /\ freeList = [i \in 1 .. NENV - (NCPU + NBoot) |-> NCPU + NBoot + i - 1]
  /\ curenv = [c \in CPU |-> NoEnv]
  /\ fresh = {}
  /\ halted = "no"

-----------------------------------------------------------------------------
(* The scheduler.  st and cu are env_status and the CPU's curenv as the    *)
(* handler that calls sched_yield left them.                               *)

Candidates(st, cu) == {s \in Slot \ Idle : st[s] = "RUNNABLE" /\ s # cu}

\* Mutant: the scan starts at curenv's slot 0 however far the CPU had got.
ScanPosRestarts(cu, s) == s

\* How many slots the scan looks at before s: it starts after curenv, or at
\* slot 0 when the CPU has none.
ScanPos(cu, s) == IF cu = NoEnv THEN s ELSE (s - cu) % NENV

\* The first candidate of the highest priority, in scan order.
Best(st, cu) ==
  {s \in Candidates(st, cu) : \A t \in Candidates(st, cu) :
     \/ prio[t] < prio[s]
     \/ prio[t] = prio[s] /\ ScanPos(cu, s) <= ScanPos(cu, t)}

KeepsRunning(st, cu) == cu # NoEnv /\ cu \notin Idle /\ st[cu] = "RUNNING"

AnyoneToRun(st) == \E s \in Slot \ Idle : st[s] \in {"RUNNABLE", "RUNNING"}

\* Mutant: the CPU goes idle without looking at the other environments.
ChosenIdleFirst(c, st, cu) ==
  IF KeepsRunning(st, cu) THEN {cu} ELSE IF AnyoneToRun(st) THEN {c} ELSE {}

\* The environment sched_yield passes to env_run; none: the kernel monitor.
Chosen(c, st, cu) ==
  IF KeepsRunning(st, cu) /\ \A s \in Best(st, cu) : prio[cu] > prio[s] THEN {cu}
  ELSE IF Best(st, cu) # {} THEN Best(st, cu)
  ELSE IF AnyoneToRun(st) THEN {c}
  ELSE {}

\* env_run(e) on CPU c: a switch, unless e is the current environment already.
EnvRun(c, e, st, cu) ==
  /\ curenv' = [curenv EXCEPT ![c] = e]
  /\ status' = IF e = cu THEN st
               ELSE [s \in Slot |->
                       IF s = e THEN "RUNNING"
                       ELSE IF s = cu /\ st[s] = "RUNNING" THEN "RUNNABLE"
                       ELSE st[s]]
  /\ UNCHANGED halted

\* sched_yield stops the machine, holding the lock.
Stop(c, why, st, cu) ==
  /\ halted' = why
  /\ status' = st
  /\ curenv' = [curenv EXCEPT ![c] = cu]

SchedYield(c, st, cu) ==
  LET next == Chosen(c, st, cu) IN
  \/ next = {} /\ Stop(c, "monitor", st, cu)
  \/ \E e \in next : IF e = c /\ st[c] \notin {"RUNNABLE", "RUNNING"}
                     THEN Stop(c, "panic", st, cu)      \* "No idle environment!"
                     ELSE EnvRun(c, e, st, cu)

\* The end of trap(): back to curenv if it may run on, else reschedule.
TrapReturn(c, st) ==
  IF st[Cur(c)] = "RUNNING" THEN EnvRun(c, Cur(c), st, Cur(c))
                            ELSE SchedYield(c, st, Cur(c))

\* A trap of CPU c from user mode gets past the zombie check.
Traps(c) == halted = "no" /\ Cur(c) # NoEnv /\ status[Cur(c)] # "DYING"

\* ... and is system call n of a user environment.
SysCall(c, n) == Traps(c) /\ n \in Calls /\ Cur(c) \notin Idle

-----------------------------------------------------------------------------
\* envid2env(id, &e, checkperm) succeeds.
Valid(i)       == status[i[2]] # "FREE" /\ i = IdOf(i[2])
MayChange(c, i) == Valid(i) /\ (i[2] = Cur(c) \/ parent[i[2]] = IdOf(Cur(c)))

\* env_free: the slot goes to the head of the free list.
EnvFree(e) == freeList' = <<e>> \o freeList

\* Mutant: env_destroy frees an environment wherever it runs.
EnvDestroyAnywhere(c, e) ==
  /\ EnvFree(e)
  /\ fresh' = fresh \ {e}
  /\ IF e = Cur(c) THEN SchedYield(c, [status EXCEPT ![e] = "FREE"], NoEnv)
                   ELSE TrapReturn(c, [status EXCEPT ![e] = "FREE"])

\* Mutant: every environment but the caller becomes a zombie, whether it runs or not.
EnvDestroyLater(c, e) ==
  IF e # Cur(c)
  THEN /\ TrapReturn(c, [status EXCEPT ![e] = "DYING"])
       /\ UNCHANGED <<freeList, fresh>>
  ELSE /\ EnvFree(e)
       /\ fresh' = fresh \ {e}
       /\ SchedYield(c, [status EXCEPT ![e] = "FREE"], NoEnv)

\* env_destroy: an environment running on another CPU becomes a zombie.
EnvDestroy(c, e) ==
  IF status[e] = "RUNNING" /\ e # Cur(c)
  THEN /\ TrapReturn(c, [status EXCEPT ![e] = "DYING"])
       /\ UNCHANGED <<freeList, fresh>>
  ELSE /\ EnvFree(e)
       /\ fresh' = fresh \ {e}
       /\ IF e = Cur(c) THEN SchedYield(c, [status EXCEPT ![e] = "FREE"], NoEnv)
                        ELSE TrapReturn(c, [status EXCEPT ![e] = "FREE"])

-----------------------------------------------------------------------------
\* The first entry of a CPU: i386_init on the boot CPU, mp_main on the others,
\* which wait for the lock the boot CPU holds until it has run something.
Start(c) ==
  /\ halted = "no" /\ Cur(c) = NoEnv
  /\ c = 0 \/ Cur(0) # NoEnv
  /\ SchedYield(c, status, NoEnv)
  /\ UNCHANGED envVars

\* Mutant: the zombie check of trap() lets the zombie run on.
ReapForgets(c) ==
  /\ halted = "no" /\ Cur(c) # NoEnv /\ status[Cur(c)] = "DYING"
  /\ SchedYield(c, [status EXCEPT ![Cur(c)] = "RUNNING"], Cur(c))
  /\ UNCHANGED envVars

\* trap() finds that its environment was destroyed from another CPU.
Reap(c) ==
  /\ halted = "no" /\ Cur(c) # NoEnv /\ status[Cur(c)] = "DYING"
  /\ EnvFree(Cur(c))
  /\ fresh' = fresh \ {Cur(c)}
  /\ SchedYield(c, [status EXCEPT ![Cur(c)] = "FREE"], NoEnv)
  /\ UNCHANGED <<gen, parent, prio, recving>>

\* A timer interrupt, or sys_yield.
Tick(c) ==
  /\ Traps(c)
  /\ SchedYield(c, status, Cur(c))
  /\ UNCHANGED envVars

\* sys_env_destroy of oneself (lib/exit.c), a page fault without a handler,
\* an unexpected trap.
Exit(c) ==
  /\ SysCall(c, "exit")
  /\ EnvDestroy(c, Cur(c))
  /\ UNCHANGED <<gen, parent, prio, recving>>

\* sys_env_destroy of a child: user/spin.c, the error path of lib/spawn.c.
\* A parent that follows them does it once, so never to a zombie.
SysEnvDestroy(c, i) ==
  /\ SysCall(c, "destroy")
  /\ MayChange(c, i) /\ i[2] # Cur(c)
  /\ status[i[2]] # "DYING" \/ DestroyTwice
  /\ EnvDestroy(c, i[2])
  /\ UNCHANGED <<gen, parent, prio, recving>>

\* Mutant: a reused slot keeps its old env_id.
NextGenSame(g) == IF g = 0 THEN 1 ELSE g

\* env_alloc's next generation; the first one after the last.
NextGen(g) == IF g = MaxGen THEN 1 ELSE g + 1

\* sys_exofork: env_alloc takes the head of the free list.
SysExofork(c) ==
  LET e == Head(freeList) IN
  /\ SysCall(c, "exofork")
  /\ freeList # <<>>
  /\ gen[e] < MaxGen \/ WrapIds
  /\ freeList' = Tail(freeList)
  /\ gen' = [gen EXCEPT ![e] = NextGen(@)]
  /\ parent' = [parent EXCEPT ![e] = IdOf(Cur(c))]
  /\ prio' = [prio EXCEPT ![e] = 0]
  /\ recving' = [recving EXCEPT ![e] = FALSE]
  /\ fresh' = fresh \cup {e}
  /\ TrapReturn(c, [status EXCEPT ![e] = "NOT_RUNNABLE"])

\* sys_env_set_status, as lib/fork.c, lib/spawn.c and user/dumbfork.c call it:
\* once for a child, with ENV_RUNNABLE, when its address space is ready.
SysEnvSetStatus(c, i) ==
  /\ SysCall(c, "status")
  /\ MayChange(c, i)
  /\ i[2] \in fresh
  /\ fresh' = fresh \ {i[2]}
  /\ TrapReturn(c, [status EXCEPT ![i[2]] = "RUNNABLE"])
  /\ UNCHANGED <<gen, parent, prio, recving, freeList>>

\* sys_env_set_priority: of any environment, without a permission check.
SysEnvSetPriority(c, i, p) ==
  /\ SysCall(c, "priority")
  /\ Valid(i)
  /\ prio' = [prio EXCEPT ![i[2]] = p]
  /\ TrapReturn(c, status)
  /\ UNCHANGED <<gen, parent, recving, freeList, fresh>>

\* sys_ipc_recv with a legal dstva: block and give up the CPU.
SysIpcRecv(c) ==
  /\ SysCall(c, "ipc")
  /\ recving' = [recving EXCEPT ![Cur(c)] = TRUE]
  /\ SchedYield(c, [status EXCEPT ![Cur(c)] = "NOT_RUNNABLE"], Cur(c))
  /\ UNCHANGED <<gen, parent, prio, freeList, fresh>>

\* sys_ipc_try_send to an environment that waits for a message (the page, if
\* any, is PageRefs' concern).
SysIpcTrySend(c, i) ==
  /\ SysCall(c, "ipc")
  /\ Valid(i) /\ recving[i[2]]
  /\ recving' = [recving EXCEPT ![i[2]] = FALSE]
  /\ TrapReturn(c, [status EXCEPT ![i[2]] = "RUNNABLE"])
  /\ UNCHANGED <<gen, parent, prio, freeList, fresh>>

\* A system call that is refused, or that changes nothing modelled here: a
\* stale or foreign envid, no free slot, a target that is not receiving, a
\* page fault that is delivered to the handler.
OtherTrap(c) ==
  /\ Traps(c)
  /\ TrapReturn(c, status)
  /\ UNCHANGED envVars

Next ==
  \E c \in CPU :
    \/ Start(c) \/ Reap(c) \/ Tick(c) \/ Exit(c) \/ SysExofork(c) \/ SysIpcRecv(c)
    \/ OtherTrap(c)
    \/ \E i \in EnvId :
         \/ SysEnvDestroy(c, i) \/ SysIpcTrySend(c, i)
         \/ SysEnvSetStatus(c, i)
         \/ \E p \in Priority : SysEnvSetPriority(c, i, p)

Spec == Init /\ [][Next]_vars

\* Every CPU starts, and its timer keeps interrupting whatever it runs.
FairSpec == Spec /\ \A c \in CPU : WF_vars(Start(c) \/ Reap(c) \/ Tick(c))

-----------------------------------------------------------------------------
Live(s)   == status[s] # "FREE"
OnCpu(s)  == \E c \in CPU : curenv[c] = s
Orphan(s) == \A t \in Slot : Live(t) => parent[s] # IdOf(t)

\* The free list holds every free slot once and no other slot.
FreeListExact ==
  /\ \A i, j \in DOMAIN freeList : freeList[i] = freeList[j] => i = j
  /\ \A s \in Slot : ~ Live(s) <=> \E i \in DOMAIN freeList : freeList[i] = s

(* No environment runs on two CPUs: sched_yield never chooses one that is  *)
(* running elsewhere (kern/sched.c:25-26).                                 *)
SoleRunner == \A c, d \in CPU : curenv[c] = curenv[d] /\ curenv[c] # NoEnv => c = d

(* The environment a CPU executes is never a freed slot, whose page        *)
(* directory is gone and which env_alloc may give to another environment   *)
(* (env_destroy leaves it to the zombie's own trap, kern/env.c:525-531).   *)
FreedNeverRuns == \A c \in CPU : curenv[c] # NoEnv => Live(curenv[c])

\* The status of an environment says whether a CPU executes it.
StatusExact ==
  halted = "no" =>
    \A s \in Slot : OnCpu(s) <=> status[s] \in {"RUNNING", "DYING"}

\* An idle environment runs on its own CPU, and is there when that CPU needs it.
IdleReady ==
  /\ \A c \in CPU : curenv[c] \in Idle => curenv[c] = c
  /\ \A s \in Idle : status[s] \in {"RUNNABLE", "RUNNING"} /\ parent[s] = NullId
  /\ halted # "panic"

\* An environment that is marked as receiving is blocked, and one whose parent
\* has not started it is neither run nor receiving.
WaitersBlocked ==
  /\ \A s \in Slot : Live(s) /\ recving[s] => status[s] = "NOT_RUNNABLE"
  /\ \A s \in fresh : status[s] = "NOT_RUNNABLE" /\ ~ recving[s]

\* A slot in use has an id that is not the null id.
LiveIds == \A s \in Slot : Live(s) => gen[s] > 0

(* What makes the shared envs[] table sound between kernel entries: the    *)
(* free list is exact, each running environment is on exactly one CPU and  *)
(* each CPU's environment is running or a zombie, each CPU can fall back   *)
(* on its idle environment (no panic at kern/sched.c:103), and whoever is  *)
(* marked as receiving or not yet started is blocked.                      *)
EnvInv ==
  /\ TypeOK /\ FreeListExact /\ SoleRunner /\ FreedNeverRuns /\ StatusExact
  /\ IdleReady /\ WaitersBlocked /\ LiveIds

(* A destroyed environment never executes again: once a zombie it is only  *)
(* ever freed, and by the CPU that was running it (trap, kern/trap.c:364). *)
ZombieOnlyReaped ==
  [][\A s \in Slot : status[s] = "DYING" =>
       \/ status'[s] = "DYING"
       \/ /\ status'[s] = "FREE"
          /\ \E c \in CPU : curenv[c] = s /\ curenv'[c] # s]_vars

(* An environment whose parent is gone never gets another: no environment  *)
(* that reuses the parent's slot is given the parent's id, so              *)
(* envid2env's permission check does not hand the orphan to a stranger.    *)
OrphansStayOrphans ==
  [][\A s \in Slot : Live(s) /\ Orphan(s) /\ status'[s] # "FREE" => Orphan(s)']_vars

(* A CPU turns to another environment only when no user environment of     *)
(* higher priority is left waiting, and to its idle environment only when  *)
(* none is left waiting at all.                                            *)
PriorityRespected ==
  [][\A c \in CPU : curenv'[c] # curenv[c] /\ curenv'[c] # NoEnv =>
       \A s \in Slot \ Idle : status'[s] = "RUNNABLE" =>
         curenv'[c] \notin Idle /\ prio[s] <= prio[curenv'[c]]]_vars

(* A zombie's slot and memory come back: whoever is destroyed while another *)
(* CPU runs it (kern/env.c:528) is freed in the end, by the next trap of     *)
(* that CPU, unless the kernel has stopped in its monitor meanwhile.         *)
EveryZombieReaped ==
  \A s \in Slot \ Idle : status[s] = "DYING" ~> (status[s] = "FREE" \/ halted # "no")

(* Round robin: an environment that can run, when none has a higher        *)
(* priority, gets a CPU, whatever the others do.                           *)
EveryTopRuns ==
  \A s \in Slot \ Idle :
    (status[s] = "RUNNABLE" /\ \A t \in Slot \ Idle : prio[t] <= prio[s])
      ~> (status[s] # "RUNNABLE" \/ \E t \in Slot \ Idle : prio[t] > prio[s])
=============================================================================
