--------------------------- MODULE EnvSchedProof ---------------------------
(***************************************************************************)
(* EnvInv for any number of CPUs, slots, generations and boot              *)
(* environments, when parents destroy a child at most once.                *)
(*                                                                         *)
(* Every handler hands the scheduler a status st and a current environment *)
(* cu.  Ready says what they must satisfy; the lemmas YieldOK and ReturnOK *)
(* show that sched_yield and the end of trap() then re-establish the       *)
(* scheduling half of EnvInv (SchedPart) and change no slot's being free   *)
(* or blocked (Keeps).  What is left for each handler is Ready and its own *)
(* half: the free list, the receivers, the identifiers.                    *)
(***************************************************************************)
EXTENDS EnvSched, TLAPS, SequenceTheorems, WellFoundedInduction

IdleCanRun(st) == \A s \in Idle : st[s] \in {"RUNNABLE", "RUNNING"}

\* What st and cu satisfy when the handler of CPU c gives up the CPU.
Ready(c, st, cu) ==
  /\ st \in [Slot -> Status]
  /\ cu \in Slot \cup {NoEnv}
  /\ IdleCanRun(st)
  /\ \A s \in Slot : s # cu =>
       ((\E d \in CPU : d # c /\ curenv[d] = s) <=> st[s] \in {"RUNNING", "DYING"})
  /\ cu # NoEnv => /\ st[cu] \in {"RUNNING", "NOT_RUNNABLE"}
                   /\ \A d \in CPU : curenv[d] = cu => d = c
                   /\ cu \in Idle => cu = c

SchedPart ==
  /\ status \in [Slot -> Status]
  /\ curenv \in [CPU -> Slot \cup {NoEnv}]
  /\ halted \in {"no", "monitor"}
  /\ SoleRunner /\ FreedNeverRuns /\ StatusExact
  /\ IdleCanRun(status)
  /\ \A c \in CPU : curenv[c] \in Idle => curenv[c] = c

\* The scheduler frees, revives, blocks and wakes nobody.
Keeps(st) ==
  \A s \in Slot : /\ status'[s] = "FREE" <=> st[s] = "FREE"
                  /\ status'[s] = "NOT_RUNNABLE" <=> st[s] = "NOT_RUNNABLE"

Listed(fl, st) ==
  /\ fl \in Seq(Slot)
  /\ \A i, j \in 1 .. Len(fl) : fl[i] = fl[j] => i = j
  /\ \A s \in Slot : st[s] = "FREE" <=> \E i \in 1 .. Len(fl) : fl[i] = s

\* The other half of EnvInv, about the rest of struct Env: of the statuses st,
\* the free list fl, the generations g, the parents p and so on.
Rest(st, fl, g, p, pr, rv, fr) ==
  /\ Listed(fl, st)
  /\ g \in [Slot -> 0 .. MaxGen]
  /\ p \in [Slot -> EnvId]
  /\ pr \in [Slot -> Priority]
  /\ rv \in [Slot -> BOOLEAN]
  /\ fr \subseteq Slot
  /\ \A s \in Idle : p[s] = NullId
  /\ \A s \in Slot : st[s] # "FREE" /\ rv[s] => st[s] = "NOT_RUNNABLE"
  /\ \A s \in fr : st[s] = "NOT_RUNNABLE" /\ ~ rv[s]
  /\ \A s \in Slot : st[s] # "FREE" => g[s] > 0

RestPart == Rest(status, freeList, gen, parent, prio, recving, fresh)

\* EnvInv is its two halves.
LEMMA Halves == EnvInv <=> SchedPart /\ RestPart
<1>1. freeList \in Seq(Slot) => DOMAIN freeList = 1 .. Len(freeList)
  OBVIOUS
<1>2. QED
  BY <1>1 DEF EnvInv, SchedPart, RestPart, Rest, Listed, TypeOK, FreeListExact, IdleReady,
     IdleCanRun, WaitersBlocked, LiveIds, Live

\* ... in the next state as well.
LEMMA HalvesNext == SchedPart' /\ RestPart' => EnvInv'
<1>1. freeList' \in Seq(Slot) => DOMAIN freeList' = 1 .. Len(freeList')
  OBVIOUS
<1>2. QED
  BY <1>1 DEF EnvInv, SchedPart, RestPart, Rest, Listed, TypeOK, FreeListExact, IdleReady,
     IdleCanRun, WaitersBlocked, LiveIds, Live

\* The facts about the constants that the steps below use.
LEMMA Constants ==
  /\ NCPU \in Nat /\ NENV \in Nat /\ MaxGen \in Nat /\ NCPU <= NENV /\ MaxGen > 0
  /\ CPU = Idle /\ Idle \subseteq Slot /\ NoEnv \notin Slot
  /\ \A g \in 1 .. MaxGen, s \in Slot : <<g, s>> # NullId
  BY SchedAssumption DEF CPU, Idle, Slot, NullId

\* env_run preserves the scheduling half, and the rest of every status.
LEMMA RunOK ==
  ASSUME NEW c \in CPU, NEW st, NEW cu, NEW e \in Slot, SchedPart, halted = "no",
         Ready(c, st, cu), EnvRun(c, e, st, cu),
         e = cu => st[e] = "RUNNING",
         e # cu => st[e] \in {"RUNNABLE", "RUNNING"} /\ \A d \in CPU : d # c => curenv[d] # e,
         e \in Idle => e = c
  PROVE  SchedPart' /\ Keeps(st)
<1>1. NoEnv \notin Slot /\ Idle \subseteq Slot
  BY Constants
<1>2. curenv' = [curenv EXCEPT ![c] = e] /\ halted' = "no"
  BY DEF EnvRun
<1>3. curenv' \in [CPU -> Slot \cup {NoEnv}]
  BY <1>2 DEF SchedPart
<1>4. CASE e = cu
  <2>1. status' = st
    BY <1>4 DEF EnvRun
  <2>2. QED
    BY <1>1, <1>2, <1>3, <1>4, <2>1
       DEF SchedPart, Keeps, Ready, SoleRunner, FreedNeverRuns, StatusExact, OnCpu,
           Live, IdleCanRun, Status
<1>5. CASE e # cu
  <2>1. status' = [s \in Slot |-> IF s = e THEN "RUNNING"
                                  ELSE IF s = cu /\ st[s] = "RUNNING" THEN "RUNNABLE"
                                  ELSE st[s]]
    BY <1>5 DEF EnvRun
  <2>2. status' \in [Slot -> Status] /\ Keeps(st) /\ IdleCanRun(status')
    BY <1>1, <1>5, <2>1 DEF Ready, Keeps, IdleCanRun, Status
  <2>3. SoleRunner'
    BY <1>2, <1>5 DEF SchedPart, SoleRunner
  <2>4. \A s \in Slot : (\E d \in CPU : curenv'[d] = s) <=> status'[s] \in {"RUNNING", "DYING"}
    <3> SUFFICES ASSUME NEW s \in Slot
                 PROVE  (\E d \in CPU : curenv'[d] = s) <=> status'[s] \in {"RUNNING", "DYING"}
      OBVIOUS
    <3>1. CASE s = e
      BY <1>2, <1>3, <2>1, <3>1 DEF SchedPart
    <3>2. CASE s # e /\ s = cu
      BY <1>1, <1>2, <2>1, <3>2 DEF SchedPart, Ready, Status
    <3>3. CASE s # e /\ s # cu
      BY <1>2, <2>1, <3>3 DEF SchedPart, Ready
    <3>4. QED
      BY <3>1, <3>2, <3>3
  <2>5. \A d \in CPU : curenv'[d] \in Idle => curenv'[d] = d
    BY <1>2 DEF SchedPart
  <2>6. FreedNeverRuns'
    BY <1>3, <2>4 DEF FreedNeverRuns, Live
  <2>7. QED
    BY <1>2, <1>3, <2>2, <2>3, <2>4, <2>5, <2>6 DEF SchedPart, StatusExact, OnCpu
<1>6. QED
  BY <1>4, <1>5

\* sched_yield preserves the scheduling half, whatever it chooses.
LEMMA YieldOK ==
  ASSUME NEW c \in CPU, NEW st, NEW cu, SchedPart, halted = "no",
         Ready(c, st, cu), SchedYield(c, st, cu)
  PROVE  SchedPart' /\ Keeps(st)
<1>1. NoEnv \notin Slot /\ Idle \subseteq Slot /\ c \in Idle
  BY Constants
<1>2. CASE Stop(c, "monitor", st, cu)
  <2>1. status' = st /\ halted' = "monitor" /\ curenv' = [curenv EXCEPT ![c] = cu]
    BY <1>2 DEF Stop
  <2>2. curenv' \in [CPU -> Slot \cup {NoEnv}]
    BY <2>1 DEF SchedPart, Ready
  <2>3. SoleRunner' /\ StatusExact' /\ Keeps(st)
    BY <1>1, <2>1 DEF SchedPart, Ready, SoleRunner, StatusExact, Keeps
  <2>4. FreedNeverRuns'
    BY <1>1, <2>1 DEF SchedPart, Ready, FreedNeverRuns, Live
  <2>5. \A d \in CPU : curenv'[d] \in Idle => curenv'[d] = d
    BY <1>1, <2>1 DEF SchedPart, Ready
  <2>6. QED
    BY <2>1, <2>2, <2>3, <2>4, <2>5 DEF SchedPart, Ready, IdleCanRun
<1>3. ASSUME NEW e \in Chosen(c, st, cu),
             IF e = c /\ st[c] \notin {"RUNNABLE", "RUNNING"}
               THEN Stop(c, "panic", st, cu) ELSE EnvRun(c, e, st, cu)
      PROVE  SchedPart' /\ Keeps(st)
  <2>1. EnvRun(c, e, st, cu)
    BY <1>1, <1>3 DEF Ready, IdleCanRun
  <2>2. \/ e = cu /\ e \in Slot /\ st[e] = "RUNNING"
        \/ e \in Slot \ Idle /\ st[e] = "RUNNABLE" /\ e # cu
        \/ e = c
    BY <1>1, <1>3 DEF Chosen, KeepsRunning, Best, Candidates, Ready
  <2>3. CASE e = cu /\ e \in Slot /\ st[e] = "RUNNING"
    <3>1. e # NoEnv /\ e \in Idle => e = c
      BY <1>1, <2>3 DEF Ready
    <3>2. QED
      BY <1>1, <2>1, <2>3, <3>1, RunOK
  <2>4. CASE e \in Slot \ Idle /\ st[e] = "RUNNABLE" /\ e # cu
    <3>1. \A d \in CPU : d # c => curenv[d] # e
      BY <2>4 DEF Ready
    <3>2. QED
      BY <2>1, <2>4, <3>1, RunOK
  <2>5. CASE e = c
    <3>1. e \in Slot /\ st[e] \in {"RUNNABLE", "RUNNING"}
      BY <1>1, <2>5 DEF Ready, IdleCanRun
    <3>2. \A d \in CPU : d # c => curenv[d] # e
      BY <1>1, <2>5 DEF SchedPart
    <3>3. e = cu => st[e] = "RUNNING"
      BY <1>1, <2>5 DEF Ready, IdleCanRun
    <3>4. QED
      BY <2>1, <2>5, <3>1, <3>2, <3>3, RunOK
  <2>6. QED
    BY <2>2, <2>3, <2>4, <2>5
<1>4. QED
  BY <1>2, <1>3 DEF SchedYield

\* The end of trap() preserves the scheduling half as well.
LEMMA ReturnOK ==
  ASSUME NEW c \in CPU, NEW st, SchedPart, halted = "no", curenv[c] # NoEnv,
         Ready(c, st, curenv[c]), TrapReturn(c, st)
  PROVE  SchedPart' /\ Keeps(st)
<1>1. NoEnv \notin Slot /\ curenv[c] \in Slot
  BY Constants DEF Ready
<1>2. CASE st[curenv[c]] = "RUNNING"
  <2>1. EnvRun(c, curenv[c], st, curenv[c])
    BY <1>2 DEF TrapReturn, Cur
  <2>2. QED
    BY <1>1, <1>2, <2>1, RunOK DEF Ready
<1>3. CASE st[curenv[c]] # "RUNNING"
  BY <1>3, YieldOK DEF TrapReturn, Cur
<1>4. QED
  BY <1>2, <1>3

-----------------------------------------------------------------------------
\* A status that differs from the present one in slot e only, where neither
\* another CPU nor the idle environments are concerned, is ready for the
\* scheduler.
LEMMA ReadyExcept ==
  ASSUME NEW c \in CPU, NEW e \in Slot, NEW v \in Status, NEW cu \in {curenv[c], NoEnv},
         SchedPart, halted = "no",
         \/ curenv[c] # NoEnv /\ status[curenv[c]] = "RUNNING"
         \/ cu = NoEnv,
         cu # curenv[c] => e = curenv[c],
         e \notin Idle \/ v = status[e],
         e # cu => (\E d \in CPU : d # c /\ curenv[d] = e) <=> v \in {"RUNNING", "DYING"},
         e = cu => v \in {"RUNNING", "NOT_RUNNABLE"}
  PROVE  Ready(c, [status EXCEPT ![e] = v], cu)
<1>1. NoEnv \notin Slot /\ Idle \subseteq Slot
  BY Constants
<1>2. /\ cu \in Slot \cup {NoEnv}
      /\ [status EXCEPT ![e] = v] \in [Slot -> Status]
      /\ IdleCanRun([status EXCEPT ![e] = v])
  BY <1>1 DEF SchedPart, IdleCanRun
<1>3. ASSUME NEW s \in Slot, s # cu, s # e
      PROVE  (\E d \in CPU : d # c /\ curenv[d] = s) <=> status[s] \in {"RUNNING", "DYING"}
  <2>1. (\E d \in CPU : curenv[d] = s) <=> status[s] \in {"RUNNING", "DYING"}
    BY DEF SchedPart, StatusExact, OnCpu
  <2>2. curenv[c] # s
    BY <1>3
  <2>3. QED
    BY <2>1, <2>2
<1>4. cu # NoEnv => /\ [status EXCEPT ![e] = v][cu] \in {"RUNNING", "NOT_RUNNABLE"}
                    /\ \A d \in CPU : curenv[d] = cu => d = c
                    /\ cu \in Idle => cu = c
  BY <1>1, <1>2 DEF SchedPart, SoleRunner
<1>5. QED
  BY <1>2, <1>3, <1>4 DEF Ready, SchedPart

\* env_free puts a slot that is not free at the head of the list.
LEMMA ListedCons ==
  ASSUME NEW fl, NEW st \in [Slot -> Status], NEW e \in Slot,
         Listed(fl, st), st[e] # "FREE"
  PROVE  Listed(<<e>> \o fl, [st EXCEPT ![e] = "FREE"])
<1> DEFINE new == <<e>> \o fl
<1>1. /\ new \in Seq(Slot) /\ Len(new) = Len(fl) + 1 /\ Len(fl) \in Nat
      /\ new[1] = e /\ \A i \in 2 .. Len(fl) + 1 : new[i] = fl[i - 1]
  BY DEF Listed
<1>2. \A i \in 1 .. Len(fl) : fl[i] # e /\ new[i + 1] = fl[i]
  BY <1>1 DEF Listed
<1>3. \A i \in 2 .. Len(new) : i - 1 \in 1 .. Len(fl)
  BY <1>1
<1>4. \A i, j \in 1 .. Len(new) : new[i] = new[j] => i = j
  BY <1>1, <1>2, <1>3 DEF Listed
<1>5. \A s \in Slot : [st EXCEPT ![e] = "FREE"][s] = "FREE"
                        <=> \E i \in 1 .. Len(new) : new[i] = s
  <2>1. ASSUME NEW s \in Slot, s # e
        PROVE  (\E i \in 1 .. Len(fl) : fl[i] = s) <=> \E i \in 1 .. Len(new) : new[i] = s
    <3>1. ASSUME NEW i \in 1 .. Len(fl), fl[i] = s PROVE \E k \in 1 .. Len(new) : new[k] = s
      <4>1. i + 1 \in 1 .. Len(new) /\ new[i + 1] = s
        BY <1>1, <1>2, <3>1
      <4>2. QED
        BY <4>1
    <3>2. ASSUME NEW i \in 1 .. Len(new), new[i] = s PROVE \E k \in 1 .. Len(fl) : fl[k] = s
      <4>1. i \in 2 .. Len(fl) + 1
        BY <1>1, <2>1, <3>2
      <4>2. i - 1 \in 1 .. Len(fl) /\ fl[i - 1] = s
        BY <1>1, <3>2, <4>1
      <4>3. QED
        BY <4>2
    <3>3. QED
      BY <3>1, <3>2
  <2>2. 1 \in 1 .. Len(new)
    BY <1>1
  <2>3. QED
    BY <1>1, <2>1, <2>2 DEF Listed
<1>6. QED
  BY <1>1, <1>4, <1>5 DEF Listed

\* env_alloc takes a free slot off the head of the list.
LEMMA ListedTail ==
  ASSUME NEW fl, NEW st \in [Slot -> Status], NEW v \in Status \ {"FREE"},
         Listed(fl, st), fl # <<>>
  PROVE  /\ Head(fl) \in Slot /\ st[Head(fl)] = "FREE"
         /\ Listed(Tail(fl), [st EXCEPT ![Head(fl)] = v])
<1>1. /\ Len(fl) \in Nat /\ Len(fl) > 0 /\ Head(fl) = fl[1] /\ 1 \in 1 .. Len(fl)
      /\ Tail(fl) \in Seq(Slot) /\ Len(Tail(fl)) = Len(fl) - 1
      /\ \A i \in 1 .. Len(fl) - 1 : Tail(fl)[i] = fl[i + 1]
  BY DEF Listed
<1>2. Head(fl) \in Slot /\ st[Head(fl)] = "FREE"
  BY <1>1 DEF Listed
<1>3. \A i, j \in 1 .. Len(Tail(fl)) : Tail(fl)[i] = Tail(fl)[j] => i = j
  BY <1>1 DEF Listed
<1>4. \A s \in Slot : [st EXCEPT ![Head(fl)] = v][s] = "FREE"
                        <=> \E i \in 1 .. Len(Tail(fl)) : Tail(fl)[i] = s
  <2>1. \A i \in 2 .. Len(fl) : i - 1 \in 1 .. Len(Tail(fl)) /\ Tail(fl)[i - 1] = fl[i]
                               /\ fl[i] # fl[1]
    BY <1>1 DEF Listed
  <2>2. \A i \in 1 .. Len(Tail(fl)) : i + 1 \in 2 .. Len(fl)
    BY <1>1
  <2>3. ASSUME NEW s \in Slot, s # Head(fl)
        PROVE  (\E i \in 1 .. Len(fl) : fl[i] = s) <=> \E i \in 1 .. Len(Tail(fl)) : Tail(fl)[i] = s
    <3>1. ASSUME NEW i \in 1 .. Len(fl), fl[i] = s
          PROVE  \E k \in 1 .. Len(Tail(fl)) : Tail(fl)[k] = s
      <4>1. i \in 2 .. Len(fl)
        BY <1>1, <2>3, <3>1
      <4>2. QED
        BY <2>1, <3>1, <4>1
    <3>2. ASSUME NEW i \in 1 .. Len(Tail(fl)), Tail(fl)[i] = s
          PROVE  \E k \in 1 .. Len(fl) : fl[k] = s
      <4>1. i + 1 \in 1 .. Len(fl) /\ fl[i + 1] = s
        BY <1>1, <3>2
      <4>2. QED
        BY <4>1
    <3>3. QED
      BY <3>1, <3>2
  <2>4. ~ \E i \in 1 .. Len(Tail(fl)) : Tail(fl)[i] = Head(fl)
    BY <1>1, <2>1, <2>2
  <2>5. QED
    BY <1>2, <2>3, <2>4 DEF Listed
<1>5. QED
  BY <1>1, <1>2, <1>3, <1>4 DEF Listed

-----------------------------------------------------------------------------
\* A CPU that traps past the zombie check is running its environment.
LEMMA TrapFacts ==
  ASSUME NEW c \in CPU, SchedPart, Traps(c)
  PROVE  /\ halted = "no" /\ curenv[c] \in Slot /\ curenv[c] # NoEnv
         /\ status[curenv[c]] = "RUNNING"
  BY Constants DEF SchedPart, Traps, Cur, StatusExact, OnCpu

\* What the scheduler does to the other half.
LEMMA RestKept ==
  ASSUME NEW st \in [Slot -> Status], SchedPart', Keeps(st),
         Rest(st, freeList', gen', parent', prio', recving', fresh')
  PROVE  RestPart'
<1>1. status' \in [Slot -> Status]
  BY DEF SchedPart
<1>2. Listed(freeList', status')
  BY <1>1 DEF Keeps, Rest, Listed
<1>3. QED
  BY <1>1, <1>2 DEF Keeps, Rest, RestPart

\* A handler that leaves the running environment running and touches no
\* status is ready for the scheduler.
LEMMA ReadySame ==
  ASSUME NEW c \in CPU, SchedPart, Traps(c)
  PROVE  Ready(c, status, curenv[c])
<1>1. Ready(c, [status EXCEPT ![curenv[c]] = "RUNNING"], curenv[c])
  BY TrapFacts, ReadyExcept DEF Status
<1>2. [status EXCEPT ![curenv[c]] = "RUNNING"] = status
  BY TrapFacts DEF SchedPart
<1>3. QED
  BY <1>1, <1>2

LEMMA StartInv == ASSUME EnvInv, NEW c \in CPU, Start(c) PROVE EnvInv'
<1>1. SchedPart /\ RestPart /\ halted = "no" /\ curenv[c] = NoEnv
  BY Halves DEF Start, Cur
<1>2. Ready(c, status, NoEnv)
  BY <1>1, Constants DEF SchedPart, Ready, StatusExact, OnCpu
<1>3. SchedPart' /\ Keeps(status)
  BY <1>1, <1>2, YieldOK DEF Start
<1>4. status \in [Slot -> Status]
  BY <1>1 DEF SchedPart
<1>5. Rest(status, freeList', gen', parent', prio', recving', fresh')
  BY <1>1 DEF Start, envVars, RestPart
<1>6. RestPart'
  BY <1>3, <1>4, <1>5, RestKept
<1>7. QED
  BY <1>3, <1>6, HalvesNext

LEMMA TickInv == ASSUME EnvInv, NEW c \in CPU, Tick(c) PROVE EnvInv'
<1>1. SchedPart /\ RestPart /\ Traps(c) /\ halted = "no"
  BY Halves DEF Tick, Traps
<1>2. SchedPart' /\ Keeps(status)
  BY <1>1, ReadySame, YieldOK DEF Tick, Cur
<1>3. Rest(status, freeList', gen', parent', prio', recving', fresh')
  BY <1>1 DEF Tick, envVars, RestPart
<1>4. status \in [Slot -> Status]
  BY <1>1 DEF SchedPart
<1>5. QED
  BY <1>2, <1>3, <1>4, RestKept, HalvesNext

LEMMA OtherTrapInv == ASSUME EnvInv, NEW c \in CPU, OtherTrap(c) PROVE EnvInv'
<1>1. SchedPart /\ RestPart /\ Traps(c)
  BY Halves DEF OtherTrap
<1>2. SchedPart' /\ Keeps(status)
  BY <1>1, TrapFacts, ReadySame, ReturnOK DEF OtherTrap
<1>3. Rest(status, freeList', gen', parent', prio', recving', fresh')
  BY <1>1 DEF OtherTrap, envVars, RestPart
<1>4. status \in [Slot -> Status]
  BY <1>1 DEF SchedPart
<1>5. QED
  BY <1>2, <1>3, <1>4, RestKept, HalvesNext

LEMMA SetPriorityInv ==
  ASSUME EnvInv, NEW c \in CPU, NEW i \in EnvId, NEW p \in Priority,
         SysEnvSetPriority(c, i, p)
  PROVE  EnvInv'
<1>1. SchedPart /\ RestPart /\ Traps(c)
  BY Halves DEF SysEnvSetPriority, SysCall
<1>2. SchedPart' /\ Keeps(status)
  BY <1>1, TrapFacts, ReadySame, ReturnOK DEF SysEnvSetPriority
<1>3. Rest(status, freeList', gen', parent', prio', recving', fresh')
  BY <1>1 DEF SysEnvSetPriority, RestPart, Rest, EnvId
<1>4. status \in [Slot -> Status]
  BY <1>1 DEF SchedPart
<1>5. QED
  BY <1>2, <1>3, <1>4, RestKept, HalvesNext

\* What env_free leaves behind, in whichever handler it is called.
LEMMA FreeRest ==
  ASSUME NEW e \in Slot, SchedPart, RestPart, status[e] # "FREE", EnvFree(e),
         fresh' = fresh \ {e}, UNCHANGED <<gen, parent, prio, recving>>
  PROVE  Rest([status EXCEPT ![e] = "FREE"], freeList', gen', parent', prio', recving', fresh')
<1>1. status \in [Slot -> Status] /\ Listed(freeList, status)
  BY DEF SchedPart, RestPart, Rest
<1>2. Listed(freeList', [status EXCEPT ![e] = "FREE"])
  BY <1>1, ListedCons DEF EnvFree
<1>3. QED
  BY <1>1, <1>2 DEF RestPart, Rest

\* A CPU that frees its own environment, alive or a zombie.
LEMMA FreeSelfInv ==
  ASSUME EnvInv, NEW c \in CPU, halted = "no", curenv[c] \in Slot, curenv[c] \notin Idle,
         EnvFree(curenv[c]), fresh' = fresh \ {curenv[c]},
         UNCHANGED <<gen, parent, prio, recving>>,
         SchedYield(c, [status EXCEPT ![curenv[c]] = "FREE"], NoEnv)
  PROVE  EnvInv'
<1> DEFINE st == [status EXCEPT ![curenv[c]] = "FREE"]
<1>1. SchedPart /\ RestPart /\ NoEnv \notin Slot
  BY Halves, Constants
<1>2. status[curenv[c]] # "FREE"
  BY <1>1 DEF SchedPart, FreedNeverRuns, Live
<1>3. \A d \in CPU : d # c => curenv[d] # curenv[c]
  BY <1>1 DEF SchedPart, SoleRunner
<1>4. Ready(c, st, NoEnv)
  BY <1>1, <1>3, ReadyExcept DEF Status
<1>5. SchedPart' /\ Keeps(st)
  BY <1>1, <1>4, YieldOK
<1>6. st \in [Slot -> Status] /\ Rest(st, freeList', gen', parent', prio', recving', fresh')
  BY <1>1, <1>2, FreeRest DEF SchedPart, Status
<1>7. QED
  BY <1>5, <1>6, RestKept, HalvesNext

LEMMA ExitInv == ASSUME EnvInv, NEW c \in CPU, Exit(c) PROVE EnvInv'
<1>1. SchedPart /\ Traps(c) /\ curenv[c] \notin Idle
  BY Halves DEF Exit, SysCall, Cur
<1>2. /\ EnvFree(curenv[c]) /\ fresh' = fresh \ {curenv[c]}
      /\ SchedYield(c, [status EXCEPT ![curenv[c]] = "FREE"], NoEnv)
      /\ UNCHANGED <<gen, parent, prio, recving>>
  BY DEF Exit, EnvDestroy, Cur
<1>3. QED
  BY <1>1, <1>2, TrapFacts, FreeSelfInv

LEMMA ReapInv == ASSUME EnvInv, NEW c \in CPU, Reap(c) PROVE EnvInv'
<1>1. SchedPart /\ halted = "no" /\ curenv[c] # NoEnv /\ status[curenv[c]] = "DYING"
  BY Halves DEF Reap, Cur
<1>2. curenv[c] \in Slot /\ curenv[c] \notin Idle
  BY <1>1 DEF SchedPart, IdleCanRun
<1>3. /\ EnvFree(curenv[c]) /\ fresh' = fresh \ {curenv[c]}
      /\ SchedYield(c, [status EXCEPT ![curenv[c]] = "FREE"], NoEnv)
      /\ UNCHANGED <<gen, parent, prio, recving>>
  BY DEF Reap, Cur
<1>4. QED
  BY <1>1, <1>2, <1>3, FreeSelfInv

LEMMA DestroyInv ==
  ASSUME EnvInv, DestroyTwice = FALSE, NEW c \in CPU, NEW i \in EnvId, SysEnvDestroy(c, i)
  PROVE  EnvInv'
<1> DEFINE e == i[2]
<1>1. SchedPart /\ RestPart /\ Traps(c) /\ status \in [Slot -> Status]
  BY Halves DEF SysEnvDestroy, SysCall, SchedPart
<1>2. /\ e \in Slot /\ e # curenv[c] /\ status[e] \notin {"FREE", "DYING"}
      /\ parent[e] = <<gen[curenv[c]], curenv[c]>>
      /\ UNCHANGED <<gen, parent, prio, recving>>
  BY DEF SysEnvDestroy, MayChange, Valid, Cur, IdOf, EnvId
<1>3. e \notin Idle
  <2>1. gen[curenv[c]] \in 1 .. MaxGen /\ curenv[c] \in Slot
    BY <1>1, TrapFacts DEF RestPart, Rest
  <2>2. QED
    BY <1>1, <1>2, <2>1, Constants DEF RestPart, Rest
<1>4. CASE status[e] = "RUNNING"
  <2> DEFINE st == [status EXCEPT ![e] = "DYING"]
  <2>1. /\ TrapReturn(c, st)
        /\ UNCHANGED <<freeList, fresh>>
    BY <1>2, <1>4 DEF SysEnvDestroy, EnvDestroy, Cur
  <2>2. \E d \in CPU : d # c /\ curenv[d] = e
    BY <1>1, <1>2, <1>4, TrapFacts DEF SchedPart, StatusExact, OnCpu
  <2>3. Ready(c, st, curenv[c])
    BY <1>1, <1>2, <1>3, <2>2, TrapFacts, ReadyExcept DEF Status
  <2>4. SchedPart' /\ Keeps(st)
    BY <1>1, <2>1, <2>3, TrapFacts, ReturnOK
  <2>5. st \in [Slot -> Status] /\ Rest(st, freeList', gen', parent', prio', recving', fresh')
    BY <1>1, <1>2, <1>4, <2>1 DEF RestPart, Rest, Listed, Status
  <2>6. QED
    BY <2>4, <2>5, RestKept, HalvesNext
<1>5. CASE status[e] # "RUNNING"
  <2> DEFINE st == [status EXCEPT ![e] = "FREE"]
  <2>1. EnvFree(e) /\ fresh' = fresh \ {e} /\ TrapReturn(c, st)
    BY <1>2, <1>5 DEF SysEnvDestroy, EnvDestroy, Cur
  <2>2. ~ \E d \in CPU : d # c /\ curenv[d] = e
    BY <1>1, <1>2, <1>5, TrapFacts DEF SchedPart, StatusExact, OnCpu
  <2>3. Ready(c, st, curenv[c])
    BY <1>1, <1>2, <1>3, <2>2, TrapFacts, ReadyExcept DEF Status
  <2>4. SchedPart' /\ Keeps(st)
    BY <1>1, <2>1, <2>3, TrapFacts, ReturnOK
  <2>5. st \in [Slot -> Status] /\ Rest(st, freeList', gen', parent', prio', recving', fresh')
    BY <1>1, <1>2, <2>1, FreeRest DEF Status
  <2>6. QED
    BY <2>4, <2>5, RestKept, HalvesNext
<1>6. QED
  BY <1>4, <1>5

LEMMA ExoforkInv == ASSUME EnvInv, NEW c \in CPU, SysExofork(c) PROVE EnvInv'
<1> DEFINE e  == Head(freeList)
           st == [status EXCEPT ![e] = "NOT_RUNNABLE"]
<1>1. SchedPart /\ RestPart /\ Traps(c) /\ status \in [Slot -> Status]
  BY Halves DEF SysExofork, SysCall, SchedPart
<1>2. /\ freeList # <<>> /\ freeList' = Tail(freeList)
      /\ gen' = [gen EXCEPT ![e] = NextGen(gen[e])]
      /\ parent' = [parent EXCEPT ![e] = <<gen[curenv[c]], curenv[c]>>]
      /\ prio' = [prio EXCEPT ![e] = 0]
      /\ recving' = [recving EXCEPT ![e] = FALSE]
      /\ fresh' = fresh \cup {e}
      /\ TrapReturn(c, st)
  BY DEF SysExofork, IdOf, Cur
<1>3. e \in Slot /\ status[e] = "FREE" /\ Listed(freeList', st)
  BY <1>1, <1>2, ListedTail DEF RestPart, Rest, Status
<1>4. e # curenv[c] /\ e \notin Idle /\ ~ \E d \in CPU : d # c /\ curenv[d] = e
  BY <1>1, <1>3, TrapFacts DEF SchedPart, StatusExact, OnCpu, IdleCanRun
<1>5. Ready(c, st, curenv[c])
  BY <1>1, <1>3, <1>4, TrapFacts, ReadyExcept DEF Status
<1>6. SchedPart' /\ Keeps(st)
  BY <1>1, <1>2, <1>5, TrapFacts, ReturnOK
<1>7. st \in [Slot -> Status] /\ Rest(st, freeList', gen', parent', prio', recving', fresh')
  <2>1. gen[e] \in 0 .. MaxGen /\ NextGen(gen[e]) \in 1 .. MaxGen
    BY <1>1, <1>3, Constants DEF RestPart, Rest, NextGen
  <2>2. <<gen[curenv[c]], curenv[c]>> \in EnvId
    BY <1>1, TrapFacts DEF RestPart, Rest, EnvId
  <2>3. gen' \in [Slot -> 0 .. MaxGen] /\ parent' \in [Slot -> EnvId]
    BY <1>1, <1>2, <1>3, <2>1, <2>2 DEF RestPart, Rest
  <2>4. \A s \in Slot : st[s] # "FREE" => gen'[s] > 0
    BY <1>1, <1>2, <1>3, <2>1 DEF RestPart, Rest
  <2>5. /\ prio' \in [Slot -> Priority] /\ recving' \in [Slot -> BOOLEAN]
        /\ fresh' \subseteq Slot /\ st \in [Slot -> Status]
    BY <1>1, <1>2, <1>3 DEF RestPart, Rest, Priority, Status
  <2>6. \A s \in Idle : parent'[s] = NullId
    BY <1>1, <1>2, <1>4, Constants DEF RestPart, Rest
  <2>7. /\ \A s \in Slot : st[s] # "FREE" /\ recving'[s] => st[s] = "NOT_RUNNABLE"
        /\ \A s \in fresh' : st[s] = "NOT_RUNNABLE" /\ ~ recving'[s]
    BY <1>1, <1>2, <1>3 DEF RestPart, Rest
  <2>8. QED
    BY <1>3, <2>3, <2>4, <2>5, <2>6, <2>7 DEF Rest
<1>8. QED
  BY <1>6, <1>7, RestKept, HalvesNext

\* The two calls that make a blocked environment runnable.
LEMMA WakeReady ==
  ASSUME NEW c \in CPU, NEW e \in Slot, SchedPart, Traps(c), status[e] = "NOT_RUNNABLE"
  PROVE  /\ e # curenv[c] /\ e \notin Idle
         /\ Ready(c, [status EXCEPT ![e] = "RUNNABLE"], curenv[c])
<1>1. e # curenv[c] /\ e \notin Idle /\ ~ \E d \in CPU : d # c /\ curenv[d] = e
  BY TrapFacts DEF SchedPart, StatusExact, OnCpu, IdleCanRun
<1>2. QED
  BY <1>1, TrapFacts, ReadyExcept DEF Status

LEMMA SetStatusInv ==
  ASSUME EnvInv, NEW c \in CPU, NEW i \in EnvId, SysEnvSetStatus(c, i)
  PROVE  EnvInv'
<1> DEFINE e  == i[2]
           st == [status EXCEPT ![e] = "RUNNABLE"]
<1>1. SchedPart /\ RestPart /\ Traps(c) /\ status \in [Slot -> Status]
  BY Halves DEF SysEnvSetStatus, SysCall, SchedPart
<1>2. /\ e \in fresh /\ fresh' = fresh \ {e} /\ TrapReturn(c, st)
      /\ UNCHANGED <<gen, parent, prio, recving, freeList>>
  BY DEF SysEnvSetStatus
<1>3. e \in Slot /\ status[e] = "NOT_RUNNABLE"
  BY <1>1, <1>2 DEF RestPart, Rest
<1>4. SchedPart' /\ Keeps(st)
  BY <1>1, <1>2, <1>3, TrapFacts, WakeReady, ReturnOK
<1>5. st \in [Slot -> Status] /\ Rest(st, freeList', gen', parent', prio', recving', fresh')
  BY <1>1, <1>2, <1>3 DEF RestPart, Rest, Listed, Status
<1>6. QED
  BY <1>4, <1>5, RestKept, HalvesNext

LEMMA TrySendInv ==
  ASSUME EnvInv, NEW c \in CPU, NEW i \in EnvId, SysIpcTrySend(c, i)
  PROVE  EnvInv'
<1> DEFINE e  == i[2]
           st == [status EXCEPT ![e] = "RUNNABLE"]
<1>1. SchedPart /\ RestPart /\ Traps(c) /\ status \in [Slot -> Status]
  BY Halves DEF SysIpcTrySend, SysCall, SchedPart
<1>2. /\ e \in Slot /\ status[e] # "FREE" /\ recving[e] /\ TrapReturn(c, st)
      /\ recving' = [recving EXCEPT ![e] = FALSE]
      /\ UNCHANGED <<gen, parent, prio, freeList, fresh>>
  BY DEF SysIpcTrySend, Valid, EnvId
<1>3. status[e] = "NOT_RUNNABLE"
  BY <1>1, <1>2 DEF RestPart, Rest
<1>4. SchedPart' /\ Keeps(st)
  BY <1>1, <1>2, <1>3, TrapFacts, WakeReady, ReturnOK
<1>5. st \in [Slot -> Status] /\ Rest(st, freeList', gen', parent', prio', recving', fresh')
  BY <1>1, <1>2, <1>3 DEF RestPart, Rest, Listed, Status
<1>6. QED
  BY <1>4, <1>5, RestKept, HalvesNext

LEMMA RecvInv == ASSUME EnvInv, NEW c \in CPU, SysIpcRecv(c) PROVE EnvInv'
<1> DEFINE e  == curenv[c]
           st == [status EXCEPT ![e] = "NOT_RUNNABLE"]
<1>1. SchedPart /\ RestPart /\ Traps(c) /\ status \in [Slot -> Status] /\ e \notin Idle
  BY Halves DEF SysIpcRecv, SysCall, SchedPart, Cur
<1>2. /\ recving' = [recving EXCEPT ![e] = TRUE]
      /\ SchedYield(c, st, e)
      /\ UNCHANGED <<gen, parent, prio, freeList, fresh>>
  BY DEF SysIpcRecv, Cur
<1>3. e \in Slot /\ status[e] = "RUNNING" /\ halted = "no"
  BY <1>1, TrapFacts
<1>4. Ready(c, st, e)
  BY <1>1, <1>3, TrapFacts, ReadyExcept DEF Status
<1>5. SchedPart' /\ Keeps(st)
  BY <1>1, <1>2, <1>3, <1>4, YieldOK
<1>6. st \in [Slot -> Status] /\ Rest(st, freeList', gen', parent', prio', recving', fresh')
  BY <1>1, <1>2, <1>3 DEF RestPart, Rest, Listed, Status
<1>7. QED
  BY <1>5, <1>6, RestKept, HalvesNext

-----------------------------------------------------------------------------
\* The table env_init and i386_init leave behind.
LEMMA InitEnvInv == Init => EnvInv
<1> SUFFICES ASSUME Init PROVE SchedPart /\ RestPart
  BY Halves
<1>1. NCPU \in Nat /\ NBoot \in Nat /\ NENV \in Nat /\ NCPU + NBoot <= NENV
      /\ NoEnv \notin Slot /\ Idle \subseteq Slot
      /\ MaxGen \in Nat /\ MaxGen > 0 /\ NCPU > 0
  BY SchedAssumption, Constants
<1>2. SchedPart
  BY <1>1 DEF Init, SchedPart, SoleRunner, FreedNeverRuns, StatusExact, OnCpu, Status,
     IdleCanRun, Idle, Slot
<1>3. Listed(freeList, status)
  <2>1. NENV - (NCPU + NBoot) \in Nat
    BY <1>1
  <2>2. \A j \in 1 .. NENV - (NCPU + NBoot) : NCPU + NBoot + j - 1 \in Slot
    BY <1>1 DEF Slot
  <2>3. freeList \in Seq(Slot) /\ Len(freeList) = NENV - (NCPU + NBoot)
    BY <2>1, <2>2 DEF Init
  <2>4. \A j \in 1 .. Len(freeList) : freeList[j] = NCPU + NBoot + j - 1
    BY <2>3 DEF Init
  <2>5. \A s \in Slot : s >= NCPU + NBoot =>
           /\ s - (NCPU + NBoot) + 1 \in 1 .. Len(freeList)
           /\ freeList[s - (NCPU + NBoot) + 1] = s
    BY <1>1, <2>3, <2>4 DEF Slot
  <2>6. \A s \in Slot : status[s] = "FREE" <=> s >= NCPU + NBoot
    BY <1>1 DEF Init, Slot
  <2>7. \A j, k \in 1 .. Len(freeList) : freeList[j] = freeList[k] => j = k
    BY <1>1, <2>3, <2>4
  <2>8. \A j \in 1 .. Len(freeList) : freeList[j] >= NCPU + NBoot
    BY <1>1, <2>3, <2>4
  <2>9. QED
    BY <2>3, <2>5, <2>6, <2>7, <2>8 DEF Listed
<1>4. NullId \in EnvId
  BY <1>1 DEF NullId, EnvId, Slot
<1>5. RestPart
  BY <1>1, <1>3, <1>4 DEF Init, RestPart, Rest, Priority, Idle, Slot
<1>6. QED
  BY <1>2, <1>5

(* However environments are forked, started, destroyed (at most once by    *)
(* their parent), scheduled and woken on any number of CPUs, the table of  *)
(* environments stays sound between kernel entries.                        *)
THEOREM EnvInvariant == DestroyTwice = FALSE => (Spec => []EnvInv)
<1> SUFFICES ASSUME DestroyTwice = FALSE PROVE Spec => []EnvInv
  OBVIOUS
<1>1. EnvInv /\ [Next]_vars => EnvInv'
  <2> SUFFICES ASSUME EnvInv, [Next]_vars PROVE EnvInv'
    OBVIOUS
  <2>1. CASE UNCHANGED vars
    <3>1. SchedPart' /\ RestPart'
      BY <2>1, Halves DEF vars, envVars, schedVars, SchedPart, RestPart, SoleRunner,
         FreedNeverRuns, StatusExact, OnCpu, Live
    <3>2. QED
      BY <3>1, HalvesNext
  <2>2. CASE Next
    BY <2>2, StartInv, ReapInv, TickInv, ExitInv, ExoforkInv, RecvInv, OtherTrapInv,
       DestroyInv, TrySendInv, SetStatusInv, SetPriorityInv DEF Next
  <2>3. QED
    BY <2>1, <2>2
<1>2. QED
  BY <1>1, InitEnvInv, PTL DEF Spec
-----------------------------------------------------------------------------
(* What a step of the kernel may never do to the table of environments.    *)
(* Every kernel entry ends by handing the scheduler a status st and a      *)
(* current environment cu; Hands says what all handlers have in common     *)
(* there, and each step property is then one of the scheduler alone.       *)

\* A nonempty set of numbers has a least one.
LEMMA Least == ASSUME NEW T \in SUBSET Nat, T # {} PROVE \E x \in T : \A y \in T : x <= y
<1> DEFINE R == OpToRel(<, Nat)
<1>1. IsWellFoundedOn(R, Nat)
  BY NatLessThanWellFounded
<1>2. \A x, y \in T : <<y, x>> \in R <=> y < x
  BY DEF OpToRel
<1> HIDE DEF R
<1>3. PICK x \in T : \A y \in T : ~ (<<y, x>> \in R)
  BY <1>1, WFMin
<1>4. \A y \in T : ~(y < x) /\ x \in Nat /\ y \in Nat
  BY <1>2, <1>3
<1>5. QED
  BY <1>4

\* The scan of sched_yield finds the best candidate if there is any.
LEMMA BestExists ==
  ASSUME NEW st, NEW cu \in Slot \cup {NoEnv}, prio \in [Slot -> Priority],
         Candidates(st, cu) # {}
  PROVE  Best(st, cu) # {}
<1>1. \A s \in Candidates(st, cu) : s \in Slot /\ prio[s] \in {0, 1}
  BY DEF Candidates, Priority
<1>2. ASSUME NEW s \in Slot PROVE ScanPos(cu, s) \in Nat
  <2>1. s \in Nat /\ NENV \in Nat /\ NENV > 0
    BY Constants DEF Slot
  <2>2. CASE cu = NoEnv
    BY <2>1, <2>2 DEF ScanPos
  <2>3. CASE cu # NoEnv
    <3>1. cu \in Int /\ s - cu \in Int
      BY <2>1, <2>3 DEF Slot
    <3>2. (s - cu) % NENV \in Nat
      BY <2>1, <3>1
    <3>3. QED
      BY <2>3, <3>2 DEF ScanPos
  <2>4. QED
    BY <2>2, <2>3
<1>3. PICK p \in {0, 1} : /\ \E s \in Candidates(st, cu) : prio[s] = p
                          /\ \A s \in Candidates(st, cu) : prio[s] <= p
  <2>1. CASE \E s \in Candidates(st, cu) : prio[s] = 1
    BY <1>1, <2>1
  <2>2. CASE ~ \E s \in Candidates(st, cu) : prio[s] = 1
    BY <1>1, <2>2
  <2>3. QED
    BY <2>1, <2>2
<1> DEFINE Top == {s \in Candidates(st, cu) : prio[s] = p}
           T   == {ScanPos(cu, s) : s \in Top}
<1>4. T \in SUBSET Nat /\ T # {}
  BY <1>1, <1>2, <1>3
<1>5. PICK x \in T : \A y \in T : x <= y
  <2> HIDE DEF T
  <2>1. QED
    BY <1>4, Least
<1>6. PICK s \in Top : ScanPos(cu, s) = x
  OBVIOUS
<1>7. \A t \in Candidates(st, cu) :
         \/ prio[t] < prio[s]
         \/ prio[t] = prio[s] /\ ScanPos(cu, s) <= ScanPos(cu, t)
  BY <1>1, <1>3, <1>5, <1>6
<1>8. QED
  BY <1>6, <1>7 DEF Best

\* How a kernel entry of CPU c ends, and what the handler may have done before.
Hands(c, st, cu) ==
  /\ IdleCanRun(st)
  /\ cu \in {curenv[c], NoEnv}
  /\ cu # NoEnv => st[cu] # "RUNNABLE"
  /\ SchedYield(c, st, cu) \/ (cu = Cur(c) /\ TrapReturn(c, st))
  /\ \A s \in Slot : status[s] = "DYING" =>
       st[s] = "DYING" \/ (st[s] = "FREE" /\ s = curenv[c] /\ cu = NoEnv)
  /\ SysExofork(c) \/ UNCHANGED <<gen, parent>>
  /\ \A s \in Slot : status[s] = "FREE" =>
       st[s] = "FREE" \/ (SysExofork(c) /\ s = Head(freeList))

\* The scheduler passes over whoever cannot run.
LEMMA PassedOver ==
  ASSUME EnvInv, NEW c \in CPU, NEW st \in [Slot -> Status], NEW cu, Hands(c, st, cu),
         NEW s \in Slot, st[s] \notin {"RUNNABLE", "RUNNING"}
  PROVE  status'[s] = st[s] /\ (curenv'[c] = s => cu = s)
<1>0. curenv \in [CPU -> Slot \cup {NoEnv}] /\ NoEnv \notin Slot /\ c \in Idle /\ Idle \subseteq Slot
  BY Constants DEF EnvInv, TypeOK
<1>1. ASSUME NEW e \in Slot, st[e] \in {"RUNNABLE", "RUNNING"}, EnvRun(c, e, st, cu)
      PROVE  status'[s] = st[s] /\ curenv'[c] # s
  BY <1>0, <1>1 DEF EnvRun
<1>2. ASSUME SchedYield(c, st, cu) PROVE status'[s] = st[s] /\ (curenv'[c] = s => cu = s)
  <2>1. ASSUME NEW why, Stop(c, why, st, cu)
        PROVE  status'[s] = st[s] /\ (curenv'[c] = s => cu = s)
    BY <1>0, <2>1 DEF Stop
  <2>2. ASSUME NEW e \in Chosen(c, st, cu)
        PROVE  e \in Slot /\ st[e] \in {"RUNNABLE", "RUNNING"}
    BY <1>0, <2>2 DEF Chosen, KeepsRunning, Best, Candidates, Hands, IdleCanRun
  <2>3. QED
    BY <1>1, <1>2, <2>1, <2>2 DEF SchedYield
<1>3. CASE cu = Cur(c) /\ TrapReturn(c, st)
  <2>1. CASE st[cu] = "RUNNING"
    <3>1. EnvRun(c, cu, st, cu)
      BY <1>3, <2>1 DEF TrapReturn
    <3>2. status' = st /\ curenv'[c] = cu
      BY <1>0, <3>1 DEF EnvRun
    <3>3. QED
      BY <3>2
  <2>2. CASE st[cu] # "RUNNING"
    BY <1>2, <1>3, <2>2 DEF TrapReturn
  <2>3. QED
    BY <2>1, <2>2
<1>4. QED
  BY <1>2, <1>3 DEF Hands

\* It turns to the best environment that is left waiting.
LEMMA TurnsToBest ==
  ASSUME EnvInv, NEW c \in CPU, NEW st \in [Slot -> Status], NEW cu, Hands(c, st, cu),
         NEW d \in CPU, curenv'[d] # curenv[d], curenv'[d] # NoEnv,
         NEW s \in Slot \ Idle, status'[s] = "RUNNABLE"
  PROVE  curenv'[d] \notin Idle /\ prio[s] <= prio[curenv'[d]]
<1>0. /\ curenv \in [CPU -> Slot \cup {NoEnv}] /\ NoEnv \notin Slot /\ c \in Idle /\ Idle \subseteq Slot
      /\ prio \in [Slot -> Priority] /\ cu \in Slot \cup {NoEnv}
      /\ cu \in {curenv[c], NoEnv} /\ (cu # NoEnv => st[cu] # "RUNNABLE")
  BY Constants DEF EnvInv, TypeOK, Hands
<1>1. \A t \in Slot : prio[t] \in Int
  BY <1>0 DEF Priority
<1>2. SchedYield(c, st, cu) \/ EnvRun(c, cu, st, cu)
  BY DEF Hands, TrapReturn
<1>3. \A why : ~ Stop(c, why, st, cu)
  BY <1>0 DEF Stop
<1>4. PICK e : EnvRun(c, e, st, cu) /\ (e = cu \/ (e \in Chosen(c, st, cu) /\ SchedYield(c, st, cu)))
  BY <1>2, <1>3 DEF SchedYield
<1>5. d = c /\ curenv'[d] = e /\ e # curenv[c] /\ e # NoEnv /\ e # cu
  BY <1>0, <1>4 DEF EnvRun
<1>6. /\ e \in Chosen(c, st, cu)
      /\ (st[s] = "RUNNABLE" /\ s # e) \/ (s = cu /\ st[s] = "RUNNING")
  BY <1>0, <1>4, <1>5 DEF EnvRun
<1>7. (s \in Candidates(st, cu) /\ s # cu) \/ (s = cu /\ KeepsRunning(st, cu))
  BY <1>0, <1>6 DEF Candidates, KeepsRunning
<1>8. CASE Best(st, cu) = {}
  BY <1>0, <1>5, <1>6, <1>7, <1>8, BestExists DEF Chosen
<1>9. CASE Best(st, cu) # {}
  <2>1. e \in Best(st, cu)
    BY <1>5, <1>6, <1>9 DEF Chosen
  <2>2. e \in Slot \ Idle /\ \A t \in Candidates(st, cu) : prio[t] <= prio[e]
    BY <1>1, <2>1 DEF Best, Candidates
  <2>3. CASE s \in Candidates(st, cu)
    BY <1>5, <2>2, <2>3
  <2>4. CASE s = cu /\ KeepsRunning(st, cu)
    <3>1. PICK b \in Best(st, cu) : ~(prio[cu] > prio[b])
      BY <1>5, <1>6, <2>4 DEF Chosen
    <3>2. b \in Candidates(st, cu) /\ b \in Slot
      BY <3>1 DEF Best, Candidates
    <3>3. prio[b] <= prio[e] /\ prio[s] <= prio[b]
      BY <1>1, <2>2, <2>4, <3>1, <3>2
    <3>4. QED
      BY <1>1, <1>5, <2>2, <3>2, <3>3
  <2>5. QED
    BY <1>7, <2>3, <2>4
<1>10. QED
  BY <1>8, <1>9

-----------------------------------------------------------------------------
\* Every kernel entry ends in the scheduler, with at most its own zombie freed.
LEMMA KernelEntry ==
  ASSUME EnvInv, DestroyTwice = FALSE, Next
  PROVE  \E c \in CPU : \E st \in [Slot -> Status] : \E cu \in Slot \cup {NoEnv} : Hands(c, st, cu)
<1>0. /\ SchedPart /\ RestPart /\ NoEnv \notin Slot
      /\ status \in [Slot -> Status] /\ curenv \in [CPU -> Slot \cup {NoEnv}]
      /\ IdleCanRun(status)
  BY Halves, Constants DEF SchedPart
<1>1. ASSUME NEW c \in CPU, Start(c) PROVE Hands(c, status, NoEnv)
  BY <1>0, <1>1 DEF Start, Hands, Cur, envVars
<1>2. ASSUME NEW c \in CPU, Tick(c) \/ OtherTrap(c) PROVE Hands(c, status, curenv[c])
  BY <1>0, <1>2, TrapFacts DEF Tick, OtherTrap, Hands, Cur, envVars
<1>3. ASSUME NEW c \in CPU, Reap(c) PROVE Hands(c, [status EXCEPT ![curenv[c]] = "FREE"], NoEnv)
  <2>1. curenv[c] \in Slot /\ curenv[c] \notin Idle
    BY <1>0, <1>3 DEF Reap, Cur, IdleCanRun
  <2>2. QED
    BY <1>0, <1>3, <2>1 DEF Reap, Cur, Hands, IdleCanRun
<1>4. ASSUME NEW c \in CPU, Exit(c) PROVE Hands(c, [status EXCEPT ![curenv[c]] = "FREE"], NoEnv)
  <2>1. Traps(c) /\ curenv[c] \notin Idle /\ EnvDestroy(c, curenv[c])
    BY <1>4 DEF Exit, SysCall, Cur
  <2>2. curenv[c] \in Slot /\ status[curenv[c]] = "RUNNING"
    BY <1>0, <2>1, TrapFacts
  <2>3. SchedYield(c, [status EXCEPT ![curenv[c]] = "FREE"], NoEnv)
    BY <2>1 DEF EnvDestroy, Cur
  <2>4. UNCHANGED <<gen, parent>>
    BY <1>4 DEF Exit
  <2>5. QED
    BY <1>0, <2>1, <2>2, <2>3, <2>4 DEF Hands, IdleCanRun
\* A call that gives a slot e that is neither idle nor a zombie the status v.
<1>5. ASSUME NEW c \in CPU, Traps(c), NEW e \in Slot \ Idle, NEW v \in Status, status[e] # "DYING",
             e # curenv[c] \/ v # "RUNNABLE",
             SysExofork(c) \/ UNCHANGED <<gen, parent>>,
             status[e] = "FREE" => SysExofork(c) /\ e = Head(freeList),
             \/ SchedYield(c, [status EXCEPT ![e] = v], curenv[c])
             \/ TrapReturn(c, [status EXCEPT ![e] = v])
      PROVE  Hands(c, [status EXCEPT ![e] = v], curenv[c])
  <2>1. curenv[c] \in Slot /\ status[curenv[c]] = "RUNNING"
    BY <1>0, <1>5, TrapFacts
  <2>2. QED
    BY <1>0, <1>5, <2>1 DEF Hands, IdleCanRun, Cur
<1>6. ASSUME NEW c \in CPU, NEW e \in Slot \ Idle, NEW v \in Status,
             Hands(c, [status EXCEPT ![e] = v], curenv[c]) \/ Hands(c, [status EXCEPT ![e] = v], NoEnv)
      PROVE  \E st \in [Slot -> Status] : \E cu \in Slot \cup {NoEnv} : Hands(c, st, cu)
  <2>1. [status EXCEPT ![e] = v] \in [Slot -> Status] /\ curenv[c] \in Slot \cup {NoEnv}
    BY <1>0
  <2>2. QED
    BY <1>6, <2>1
\* The calls that name a slot, each with the status it gives it.
<1>7. ASSUME NEW c \in CPU, SysIpcRecv(c) PROVE Hands(c, [status EXCEPT ![curenv[c]] = "NOT_RUNNABLE"], curenv[c])
  <2>1. Traps(c) /\ curenv[c] \notin Idle /\ SchedYield(c, [status EXCEPT ![curenv[c]] = "NOT_RUNNABLE"], curenv[c])
    BY <1>7 DEF SysIpcRecv, SysCall, Cur
  <2>2. curenv[c] \in Slot \ Idle /\ status[curenv[c]] = "RUNNING"
    BY <1>0, <2>1, TrapFacts
  <2>3. UNCHANGED <<gen, parent>>
    BY <1>7 DEF SysIpcRecv
  <2>4. QED
    BY <1>5, <2>1, <2>2, <2>3 DEF Status
<1>8. ASSUME NEW c \in CPU, SysExofork(c)
      PROVE  /\ Head(freeList) \in Slot \ Idle
             /\ Hands(c, [status EXCEPT ![Head(freeList)] = "NOT_RUNNABLE"], curenv[c])
  <2>1. Traps(c) /\ freeList # <<>> /\ TrapReturn(c, [status EXCEPT ![Head(freeList)] = "NOT_RUNNABLE"])
    BY <1>8 DEF SysExofork, SysCall
  <2>2. Head(freeList) \in Slot /\ status[Head(freeList)] = "FREE"
    <3>1. "NOT_RUNNABLE" \in Status \ {"FREE"}
      BY DEF Status
    <3>2. Listed(freeList, status)
      BY <1>0 DEF RestPart, Rest
    <3>3. QED
      BY <1>0, <2>1, <3>1, <3>2, ListedTail
  <2>3. Head(freeList) \notin Idle
    BY <1>0, <2>2 DEF IdleCanRun
  <2>4. QED
    BY <1>5, <1>8, <2>1, <2>2, <2>3 DEF Status
<1>9. ASSUME NEW c \in CPU, NEW i \in EnvId, SysEnvSetStatus(c, i) \/ SysIpcTrySend(c, i)
      PROVE  i[2] \in Slot \ Idle /\ Hands(c, [status EXCEPT ![i[2]] = "RUNNABLE"], curenv[c])
  <2>1. Traps(c) /\ i[2] \in Slot /\ TrapReturn(c, [status EXCEPT ![i[2]] = "RUNNABLE"])
    BY <1>9 DEF SysEnvSetStatus, SysIpcTrySend, SysCall, EnvId
  <2>2. status[i[2]] = "NOT_RUNNABLE"
    BY <1>0, <1>9, <2>1 DEF SysEnvSetStatus, SysIpcTrySend, Valid, RestPart, Rest
  <2>3. i[2] \notin Idle /\ i[2] # curenv[c]
    BY <1>0, <2>1, <2>2, WakeReady
  <2>4. UNCHANGED <<gen, parent>>
    BY <1>9 DEF SysEnvSetStatus, SysIpcTrySend
  <2>5. QED
    BY <1>5, <2>1, <2>2, <2>3, <2>4 DEF Status
<1>10. ASSUME NEW c \in CPU, NEW i \in EnvId, SysEnvDestroy(c, i)
       PROVE  /\ i[2] \in Slot \ Idle
              /\ \E v \in {"DYING", "FREE"} : Hands(c, [status EXCEPT ![i[2]] = v], curenv[c])
  <2>1. /\ Traps(c) /\ i[2] \in Slot /\ i[2] # curenv[c] /\ status[i[2]] # "DYING"
        /\ parent[i[2]] = <<gen[curenv[c]], curenv[c]>> /\ status[i[2]] # "FREE"
        /\ UNCHANGED <<gen, parent>>
        /\ \E v \in {"DYING", "FREE"} : TrapReturn(c, [status EXCEPT ![i[2]] = v])
    BY <1>10 DEF SysEnvDestroy, SysCall, MayChange, Valid, Cur, IdOf, EnvId, EnvDestroy
  <2>2. i[2] \notin Idle
    <3>1. gen[curenv[c]] \in 1 .. MaxGen /\ curenv[c] \in Slot
      BY <1>0, <2>1, TrapFacts DEF RestPart, Rest
    <3>2. QED
      BY <1>0, <2>1, <3>1, Constants DEF RestPart, Rest
  <2>3. QED
    BY <1>5, <2>1, <2>2 DEF Status
<1>11. ASSUME NEW c \in CPU, NEW i \in EnvId, NEW q \in Priority, SysEnvSetPriority(c, i, q)
       PROVE  Hands(c, status, curenv[c])
  BY <1>0, <1>11, TrapFacts DEF SysEnvSetPriority, SysCall, Hands, Cur
<1>12. PICK c \in CPU :
         \/ Start(c) \/ Reap(c) \/ Tick(c) \/ Exit(c) \/ SysExofork(c) \/ SysIpcRecv(c)
         \/ OtherTrap(c)
         \/ \E i \in EnvId : \/ SysEnvDestroy(c, i) \/ SysIpcTrySend(c, i)
                             \/ SysEnvSetStatus(c, i)
                             \/ \E q \in Priority : SysEnvSetPriority(c, i, q)
  BY DEF Next
<1>13. CASE Start(c) \/ Tick(c) \/ OtherTrap(c) \/ \E i \in EnvId, q \in Priority : SysEnvSetPriority(c, i, q)
  <2>1. curenv[c] \in Slot \cup {NoEnv}
    BY <1>0
  <2>2. QED
    BY <1>0, <1>1, <1>2, <1>11, <1>13, <2>1
<1>14. CASE Reap(c) \/ Exit(c) \/ SysIpcRecv(c)
  <2>1. curenv[c] \in Slot
    BY <1>0, <1>14, TrapFacts DEF Reap, Exit, SysIpcRecv, SysCall, Cur
  <2>2. curenv[c] \notin Idle
    BY <1>0, <1>14, <2>1 DEF Reap, Exit, SysIpcRecv, SysCall, Cur, IdleCanRun
  <2>3. QED
    BY <1>3, <1>4, <1>6, <1>7, <1>14, <2>1, <2>2 DEF Status
<1>15. CASE SysExofork(c) \/ \E i \in EnvId : SysEnvDestroy(c, i) \/ SysIpcTrySend(c, i) \/ SysEnvSetStatus(c, i)
  BY <1>6, <1>8, <1>9, <1>10, <1>15 DEF Status
<1>16. QED
  BY <1>12, <1>13, <1>14, <1>15

-----------------------------------------------------------------------------
\* EnvInv holds throughout, as EnvSchedProof shows, and before every step.
Steps == EnvInv /\ EnvInv' /\ [Next]_vars

LEMMA AllSteps == DestroyTwice = FALSE => (Spec => [][Steps]_vars)
<1> SUFFICES ASSUME DestroyTwice = FALSE PROVE Spec => [][Steps]_vars
  OBVIOUS
<1>1. Spec => []EnvInv
  BY EnvInvariant
<1>2. EnvInv /\ EnvInv' /\ [Next]_vars => [Steps]_vars
  BY DEF Steps
<1>3. QED
  BY <1>1, <1>2, PTL DEF Spec

(* A destroyed environment never executes again: once a zombie, only the     *)
(* trap of its own CPU frees it, and that CPU leaves it in the same step     *)
(* (kern/trap.c:364).  For tables and CPUs of any number.                    *)
THEOREM ZombiesReaped == DestroyTwice = FALSE => (Spec => ZombieOnlyReaped)
<1> DEFINE A == \A s \in Slot : status[s] = "DYING" =>
                   \/ status'[s] = "DYING"
                   \/ /\ status'[s] = "FREE"
                      /\ \E c \in CPU : curenv[c] = s /\ curenv'[c] # s
<1> SUFFICES ASSUME DestroyTwice = FALSE PROVE Spec => ZombieOnlyReaped
  OBVIOUS
<1>1. ASSUME Steps PROVE [A]_vars
  <2> SUFFICES ASSUME Next, NEW s \in Slot, status[s] = "DYING"
               PROVE  \/ status'[s] = "DYING"
                      \/ /\ status'[s] = "FREE"
                         /\ \E c \in CPU : curenv[c] = s /\ curenv'[c] # s
    BY <1>1 DEF Steps
  <2>1. PICK c \in CPU : \E st \in [Slot -> Status] : \E cu \in Slot \cup {NoEnv} : Hands(c, st, cu)
    BY <1>1, KernelEntry DEF Steps
  <2>2. PICK st \in [Slot -> Status] : \E cu \in Slot \cup {NoEnv} : Hands(c, st, cu)
    BY <2>1
  <2>3. PICK cu \in Slot \cup {NoEnv} : Hands(c, st, cu)
    BY <2>2
  <2>4. st[s] = "DYING" \/ (st[s] = "FREE" /\ s = curenv[c] /\ cu = NoEnv)
    BY <2>3 DEF Hands
  <2>5. status'[s] = st[s] /\ (curenv'[c] = s => cu = s)
    BY <1>1, <2>3, <2>4, PassedOver DEF Steps
  <2>6. NoEnv \notin Slot
    BY Constants
  <2>7. QED
    BY <2>4, <2>5, <2>6
<1>2. [][Steps]_vars => [][A]_vars
  BY <1>1, PTL
<1>3. QED
  BY <1>2, AllSteps DEF ZombieOnlyReaped

(* A CPU turns to another environment only when no user environment of       *)
(* higher priority is left waiting, and goes idle only when none is          *)
(* (kern/sched.c:61-103), for tables and CPUs of any number.                 *)
THEOREM PrioritySound == DestroyTwice = FALSE => (Spec => PriorityRespected)
<1> DEFINE A == \A c \in CPU : curenv'[c] # curenv[c] /\ curenv'[c] # NoEnv =>
                   \A s \in Slot \ Idle : status'[s] = "RUNNABLE" =>
                     curenv'[c] \notin Idle /\ prio[s] <= prio[curenv'[c]]
<1> SUFFICES ASSUME DestroyTwice = FALSE PROVE Spec => PriorityRespected
  OBVIOUS
<1>1. ASSUME Steps PROVE [A]_vars
  <2> SUFFICES ASSUME Next, NEW d \in CPU, curenv'[d] # curenv[d], curenv'[d] # NoEnv,
                      NEW s \in Slot \ Idle, status'[s] = "RUNNABLE"
               PROVE  curenv'[d] \notin Idle /\ prio[s] <= prio[curenv'[d]]
    BY <1>1 DEF Steps
  <2>1. PICK c \in CPU : \E st \in [Slot -> Status] : \E cu \in Slot \cup {NoEnv} : Hands(c, st, cu)
    BY <1>1, KernelEntry DEF Steps
  <2>2. PICK st \in [Slot -> Status] : \E cu \in Slot \cup {NoEnv} : Hands(c, st, cu)
    BY <2>1
  <2>3. PICK cu \in Slot \cup {NoEnv} : Hands(c, st, cu)
    BY <2>2
  <2>4. QED
    BY <1>1, <2>3, TurnsToBest DEF Steps
<1>2. [][Steps]_vars => [][A]_vars
  BY <1>1, PTL
<1>3. QED
  BY <1>2, AllSteps DEF PriorityRespected

-----------------------------------------------------------------------------
\* The ids parents have were issued before: no slot is behind them.
IdsIssued == \A s \in Slot : parent[s][1] <= gen[parent[s][2]]

\* A fork gives its slot an id nobody has as a parent; the caller's id exists.
LEMMA IdsForked ==
  ASSUME EnvInv, IdsIssued, WrapIds = FALSE, NEW c \in CPU, SysExofork(c)
  PROVE  /\ Head(freeList) \in Slot /\ status[Head(freeList)] = "FREE"
         /\ gen' = [gen EXCEPT ![Head(freeList)] = gen[Head(freeList)] + 1]
         /\ parent' = [parent EXCEPT ![Head(freeList)] = <<gen[curenv[c]], curenv[c]>>]
         /\ curenv[c] \in Slot
<1>1. SchedPart /\ RestPart /\ Traps(c) /\ freeList # <<>> /\ gen[Head(freeList)] < MaxGen
  BY Halves DEF SysExofork, SysCall
<1>2. Head(freeList) \in Slot /\ status[Head(freeList)] = "FREE"
  <2>1. "NOT_RUNNABLE" \in Status \ {"FREE"}
    BY DEF Status
  <2>2. Listed(freeList, status) /\ status \in [Slot -> Status]
    BY <1>1 DEF RestPart, Rest, SchedPart
  <2>3. QED
    BY <1>1, <2>1, <2>2, ListedTail
<1>3. NextGen(gen[Head(freeList)]) = gen[Head(freeList)] + 1
  <2>1. gen[Head(freeList)] \in Int /\ MaxGen \in Int
    BY <1>1, <1>2, Constants DEF RestPart, Rest
  <2>2. QED
    BY <1>1, <2>1 DEF NextGen
<1>4. curenv[c] \in Slot
  BY <1>1, TrapFacts
<1>5. QED
  BY <1>2, <1>3, <1>4 DEF SysExofork, IdOf, Cur

LEMMA IdsInit == Init => IdsIssued
<1> SUFFICES ASSUME Init PROVE IdsIssued
  OBVIOUS
<1>1. EnvInv
  BY InitEnvInv
<1>2. \A s \in Slot : gen[s] \in Nat /\ parent[s] = <<0, 0>> /\ 0 \in Slot
  <2>1. /\ gen \in [Slot -> 0 .. MaxGen] /\ MaxGen \in Nat /\ NENV \in Nat
        /\ \A s \in Slot : parent[s] = <<0, 0>>
    BY <1>1, Constants DEF EnvInv, TypeOK, Init, NullId
  <2>2. \A s \in Slot : 0 \in Slot
    BY <2>1 DEF Slot
  <2>3. QED
    BY <2>1, <2>2
<1>3. QED
  BY <1>2 DEF IdsIssued

LEMMA IdsNext ==
  ASSUME EnvInv, IdsIssued, WrapIds = FALSE, DestroyTwice = FALSE, [Next]_vars
  PROVE  IdsIssued'
<1>0. gen \in [Slot -> 0 .. MaxGen] /\ parent \in [Slot -> EnvId] /\ MaxGen \in Nat
  BY Constants DEF EnvInv, TypeOK
<1>1. CASE UNCHANGED <<gen, parent>>
  BY <1>1 DEF IdsIssued
<1>2. ASSUME NEW c \in CPU, SysExofork(c) PROVE IdsIssued'
  <2> DEFINE e == Head(freeList)
  <2>1. /\ e \in Slot /\ gen' = [gen EXCEPT ![e] = gen[e] + 1] /\ curenv[c] \in Slot
        /\ parent' = [parent EXCEPT ![e] = <<gen[curenv[c]], curenv[c]>>]
    BY <1>2, IdsForked
  <2> HIDE DEF e
  <2>2. \A t \in Slot : gen[t] \in Int /\ gen'[t] \in Int /\ gen[t] <= gen'[t]
    BY <1>0, <2>1
  <2> SUFFICES ASSUME NEW s \in Slot PROVE parent'[s][1] <= gen'[parent'[s][2]]
    BY DEF IdsIssued
  <2>3. CASE s = e
    <3>1. parent'[s][1] = gen[curenv[c]] /\ parent'[s][2] = curenv[c]
      BY <1>0, <2>1, <2>3
    <3>2. QED
      BY <2>1, <2>2, <3>1
  <2>4. CASE s # e
    <3>1. parent'[s] = parent[s] /\ parent[s][1] \in Int /\ parent[s][2] \in Slot
      BY <1>0, <2>1, <2>4 DEF EnvId
    <3>2. parent[s][1] <= gen[parent[s][2]]
      BY DEF IdsIssued
    <3>3. QED
      BY <2>2, <3>1, <3>2
  <2>5. QED
    BY <2>3, <2>4
<1>3. CASE UNCHANGED vars
  BY <1>1, <1>3 DEF vars, envVars
<1>4. CASE Next
  <2>1. \E c \in CPU : \E st \in [Slot -> Status] : \E cu \in Slot \cup {NoEnv} : Hands(c, st, cu)
    BY <1>4, KernelEntry
  <2>2. QED
    BY <1>1, <1>2, <2>1 DEF Hands
<1>5. QED
  BY <1>3, <1>4

\* No step gives an orphan a parent.
LEMMA OrphanStep ==
  ASSUME EnvInv, EnvInv', IdsIssued, WrapIds = FALSE, DestroyTwice = FALSE, Next,
         NEW s \in Slot, Live(s), Orphan(s)
  PROVE  Orphan(s)'
<1>0. gen \in [Slot -> 0 .. MaxGen] /\ parent \in [Slot -> EnvId] /\ MaxGen \in Nat
  BY Constants DEF EnvInv, TypeOK
<1>1. PICK c \in CPU : \E st \in [Slot -> Status] : \E cu \in Slot \cup {NoEnv} : Hands(c, st, cu)
  BY KernelEntry
<1>2. PICK st \in [Slot -> Status] : \E cu \in Slot \cup {NoEnv} : Hands(c, st, cu)
  BY <1>1
<1>3. PICK cu \in Slot \cup {NoEnv} : Hands(c, st, cu)
  BY <1>2
<1>4. ASSUME NEW t \in Slot, status[t] = "FREE", status'[t] # "FREE"
      PROVE  SysExofork(c) /\ t = Head(freeList)
  <2>1. st[t] = "FREE" \/ (SysExofork(c) /\ t = Head(freeList))
    BY <1>3, <1>4 DEF Hands
  <2>2. st[t] = "FREE" => status'[t] = "FREE"
    BY <1>3, PassedOver
  <2>3. QED
    BY <1>4, <2>1, <2>2
<1>5. SUFFICES ASSUME NEW t \in Slot, status'[t] # "FREE" PROVE parent'[s] # <<gen'[t], t>>
  BY DEF Orphan, Live, IdOf
<1>6. CASE ~ SysExofork(c)
  <2>1. parent' = parent /\ gen' = gen
    BY <1>3, <1>6 DEF Hands
  <2>2. status[t] # "FREE"
    BY <1>4, <1>5, <1>6
  <2>3. QED
    BY <2>1, <2>2 DEF Orphan, Live, IdOf
<1>7. CASE SysExofork(c)
  <2> DEFINE e == Head(freeList)
  <2>1. /\ e \in Slot /\ status[e] = "FREE" /\ gen' = [gen EXCEPT ![e] = gen[e] + 1]
        /\ parent' = [parent EXCEPT ![e] = <<gen[curenv[c]], curenv[c]>>]
    BY <1>7, IdsForked
  <2>2. t # e => status[t] # "FREE"
    BY <1>4, <1>5
  <2> HIDE DEF e
  <2>3. s # e /\ parent'[s] = parent[s] /\ parent[s][1] \in Int
    BY <1>0, <2>1 DEF Live, EnvId
  <2>4. CASE t # e
    <3>1. gen'[t] = gen[t] /\ parent[s] # <<gen[t], t>>
      BY <1>0, <2>1, <2>2, <2>4 DEF Orphan, Live, IdOf
    <3>2. QED
      BY <2>3, <3>1
  <2>5. CASE t = e
    <3>1. gen'[t] = gen[t] + 1 /\ gen[t] \in Int
      BY <1>0, <2>1, <2>5
    <3>2. parent[s][2] = t => parent[s][1] <= gen[t]
      BY DEF IdsIssued
    <3>3. parent[s] = <<gen'[t], t>> => parent[s][1] = gen[t] + 1 /\ parent[s][2] = t
      BY <3>1
    <3>4. QED
      BY <2>3, <3>1, <3>2, <3>3
  <2>6. QED
    BY <2>4, <2>5
<1>8. QED
  BY <1>6, <1>7

(* An environment whose parent is gone never gets another, as long as the    *)
(* generations of a slot do not run out: no reuse of the parent's slot is    *)
(* given the parent's id (kern/env.c:241, envid2env).                        *)
THEOREM OrphansSafe ==
  DestroyTwice = FALSE /\ WrapIds = FALSE => (Spec => OrphansStayOrphans)
<1> DEFINE A == \A s \in Slot : Live(s) /\ Orphan(s) /\ status'[s] # "FREE" => Orphan(s)'
<1> SUFFICES ASSUME DestroyTwice = FALSE, WrapIds = FALSE PROVE Spec => OrphansStayOrphans
  OBVIOUS
<1>1. Spec => []EnvInv
  BY EnvInvariant
<1>2. IdsIssued /\ EnvInv /\ [Next]_vars => IdsIssued'
  BY IdsNext
<1>3. ASSUME EnvInv, EnvInv', IdsIssued, [Next]_vars PROVE [A]_vars
  BY <1>3, OrphanStep
<1>4. IdsIssued /\ EnvInv /\ EnvInv' /\ [Next]_vars => [A]_vars
  BY <1>3
<1>5. Spec => [][A]_vars
  BY <1>1, <1>2, <1>4, IdsInit, PTL DEF Spec
<1>6. QED
  BY <1>5 DEF OrphansStayOrphans
=============================================================================
