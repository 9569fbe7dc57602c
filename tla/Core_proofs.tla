----------------------------- MODULE Core_proofs -----------------------------
(***************************************************************************)
(* Proof that the tables of the scheduler and of the process system calls  *)
(* stay consistent, for every number of slots and processes, when          *)
(* interrupts arrive at the safe points only.                              *)
(***************************************************************************)
EXTENDS Kernel_proofs

\* Where an interrupted thread is parked until its slot is scheduled again.
Parkable == {"user", "exec", "walk", "halt", "returned"}

\* The points in sys_execute and sys_halt that the tables do not stand are
\* not interrupted.
SafePreemption == PreemptAt \subseteq {"call"} \X (Parkable \cup {"idle"})

\* The point a thread is at: scanning for a PCB, or about to load its program.
Scanning(t) == pc[t] \in {"exec", "walk", "found"}
Looking(t)  == pc[t] \in {"walk", "found", "claimed"}

-----------------------------------------------------------------------------
\* Which slot runs: the one started last, and then the scheduled one.
Schedule ==
  /\ num_multiprocess = 0 => run = Boot
  /\ 0 < num_multiprocess /\ ~AllStarted => run = num_multiprocess - 1
  /\ ~AllStarted => current_multiprocess = MAX_MULTIPROCESS_NUM - 1
  /\ AllStarted => run = current_multiprocess
  /\ AllStarted /\ ~on_default_term => current_term = current_multiprocess

\* Threads are interrupted at the safe points only; all but the running one
\* are parked there, saved in the record of the process their slot runs.
Parked ==
  /\ \A s \in Slots : susp[s] # "none" =>
       s < num_multiprocess /\ kind[s] = "call" /\ pc[s] \in Parkable
  /\ \A s \in Slots : s < num_multiprocess /\ s # run =>
       /\ kind[s] = "call" /\ pc[s] \in Parkable
       /\ all_process[multi_process_idx[s]].saved_esp = s

\* What is known of a pid whose stack is in use.
OwnedOK ==
  \A p \in Pids : owner[p] # NONE =>
    /\ owner[p] \in Slots /\ owner[p] < num_multiprocess
    /\ PCB[p].pid = p
    /\ p >= MAX_MULTIPROCESS_NUM => PCB[p].parent \in Pids
    /\ all_process[p].PCB = p /\ all_process[p].active_terminal_idx = owner[p]

\* Every slot that was started has its root shell, and runs a process of its
\* own; the slot that is being started has not got that far.
SlotsOK ==
  \A s \in Slots : s < num_multiprocess =>
    /\ pc[s] # "idle"
    /\ kind[s] # "boot" =>
         /\ owner[s] = s /\ owner[multi_process_idx[s]] = s
         /\ prog[s] = multi_process_idx[s]
    /\ kind[s] # "boot" /\ pc[s] # "user" => AllStarted

\* sys_execute and sys_halt of a program.
CallOK ==
  \A s \in Slots : s < num_multiprocess /\ kind[s] = "call" =>
    /\ Looking(s) => parent[s] = multi_process_idx[s] /\ owner[root[s]] = s
    /\ pc[s] \in {"found", "claimed"} => root[s] = s
    /\ pc[s] \in {"halt", "respawn", "exiting"} => cur[s] = multi_process_idx[s]
    /\ pc[s] = "respawn" => multi_process_idx[s] = s
    /\ pc[s] = "exiting" => /\ multi_process_idx[s] >= MAX_MULTIPROCESS_NUM
                            /\ parent[s] = PCB[multi_process_idx[s]].parent

\* sys_execute of a root shell by the scheduler.
BootOK ==
  \A s \in Slots : s < num_multiprocess /\ kind[s] = "boot" =>
    /\ pc[s] \in {"exec", "walk", "found", "claimed"}
    /\ s = num_multiprocess - 1
    /\ multi_process_idx[s] = s /\ owner[s] = NONE
    /\ all_process[s].PCB = s /\ all_process[s].active_terminal_idx = s
    /\ Looking(s) => root[s] = s

\* sys_execute of a root shell by the sys_halt of the one before.
RespawnOK ==
  \A s \in Slots : s < num_multiprocess /\ kind[s] = "respawn" =>
    /\ pc[s] \in {"exec", "walk", "found", "claimed"}
    /\ multi_process_idx[s] = s /\ cur[s] = s
    /\ Looking(s) => root[s] = 0

\* The PCB that was found is the thread's own, or one that nobody uses.
FoundOK ==
  \A s \in Slots : s < num_multiprocess /\ pc[s] \in {"found", "claimed"} =>
    IF kind[s] = "call" THEN idx[s] >= MAX_MULTIPROCESS_NUM /\ owner[idx[s]] = NONE
    ELSE idx[s] = s

ClaimedOK ==
  \A s \in Slots : s < num_multiprocess /\ pc[s] = "claimed" =>
    /\ current_process_pid = idx[s] /\ PCB[idx[s]].pid = idx[s]
    /\ kind[s] = "call" => PCB[idx[s]].parent = parent[s]

\* The process the CPU runs.
Context ==
  run \in Slots =>
    /\ pc[run] # "claimed" =>
         current_process_pid = CASE kind[run] = "call" -> multi_process_idx[run]
                                 [] kind[run] = "boot" -> run
                                 [] OTHER -> 0
    /\ kind[run] = "call" /\ pc[run] \in Parkable =>
         pde = multi_process_idx[run] /\ esp0 = multi_process_idx[run]

\* The pid that sys_halt has marked free while its thread still uses it.
Ending(s, p) ==
  /\ cur[s] = p
  /\ pc[s] \in {"respawn", "exiting"} \/ kind[s] = "respawn"

\* The pid that sys_execute has marked running before its thread uses it.
Beginning(s, p) == pc[s] = "claimed" /\ idx[s] = p

RunningOK ==
  \A p \in Pids :
    PCB[p].running <=>
      \/ owner[p] # NONE /\ (run \in Slots => ~Ending(run, p))
      \/ run \in Slots /\ Beginning(run, p)

RootsOK == \A p \in Slots : PCB[p].parent = NONE

CoreInv ==
  /\ TypeInv /\ GateInv /\ NoCrash
  /\ Schedule /\ Parked
  /\ OwnedOK /\ SlotsOK /\ CallOK /\ BootOK /\ RespawnOK /\ FoundOK /\ ClaimedOK
  /\ Context /\ RunningOK /\ RootsOK /\ OneChainPerSlot

Parts ==
  /\ NoCrash
  /\ Schedule /\ Parked
  /\ OwnedOK /\ SlotsOK /\ CallOK /\ BootOK /\ RespawnOK /\ FoundOK /\ ClaimedOK
  /\ Context /\ RunningOK /\ RootsOK /\ OneChainPerSlot

-----------------------------------------------------------------------------
\* The running thread belongs to a slot that was started.
LEMMA RunStarted ==
  ASSUME CoreInv, run \in Slots
  PROVE  run < num_multiprocess /\ num_multiprocess \in 1 .. MAX_MULTIPROCESS_NUM
<1>1. num_multiprocess \in 0 .. MAX_MULTIPROCESS_NUM /\ run \in 0 .. MAX_MULTIPROCESS_NUM - 1
  BY DEF CoreInv, TypeInv, TypeOK, SlotTypes, Slots
<1>2. num_multiprocess # 0
  BY SizesAssumption DEF CoreInv, Schedule, Slots, Boot
<1> QED
  BY <1>1, <1>2, SizesAssumption DEF CoreInv, Schedule, AllStarted


LEMMA ExecParentCore ==
  ASSUME CoreInv, NEW t \in Slots, ExecParent(t)
  PROVE  Parts'
<1> USE DEF ExecParent, At, GoTo, slotVars, cpuVars, CoreInv
<1>0. /\ run = t /\ t < num_multiprocess /\ susp[t] = "none" /\ pc[t] = "exec"
      /\ pc \in [Threads -> Points] /\ parent \in [Threads -> PidOrNone]
      /\ root \in [Threads -> PidOrNone] /\ t \in Threads
  BY RunStarted, Constants DEF TypeInv, TypeOK, CpuTypes, ProcTypes
<1>1. (NoCrash /\ Schedule /\ OwnedOK /\ RootsOK /\ OneChainPerSlot)'
  BY DEF NoCrash, Schedule, AllStarted, OwnedOK, RootsOK, OneChainPerSlot
<1>2. (Parked /\ SlotsOK /\ FoundOK /\ ClaimedOK /\ Context /\ RunningOK)'
  BY <1>0 DEF Parked, Parkable, SlotsOK, AllStarted, FoundOK, ClaimedOK, Context, RunningOK,
              Ending, Beginning
<1>3. (CallOK /\ BootOK /\ RespawnOK)'
  BY <1>0, Constants DEF CallOK, BootOK, RespawnOK, SlotsOK, Looking, Context, Parkable
<1> QED
  BY <1>1, <1>2, <1>3 DEF Parts

\* The parent of a process is a process of the same slot.
LEMMA ParentOwned ==
  ASSUME CoreInv, NEW p \in Pids, owner[p] # NONE, PCB[p].parent # NONE
  PROVE  /\ p >= MAX_MULTIPROCESS_NUM /\ PCB[p].parent \in Pids
         /\ owner[PCB[p].parent] = owner[p]
<1>1. p >= MAX_MULTIPROCESS_NUM
  BY SizesAssumption DEF CoreInv, RootsOK, Slots, Pids
<1> QED
  BY <1>1, SizesAssumption DEF CoreInv, OneChainPerSlot, OwnedOK, Pids

LEMMA ExecWalkCore ==
  ASSUME CoreInv, NEW t \in Slots, ExecWalk(t)
  PROVE  Parts'
<1> USE DEF ExecWalk, At, slotVars, cpuVars, CoreInv
<1>0. /\ run = t /\ t < num_multiprocess /\ susp[t] = "none" /\ pc[t] = "walk"
      /\ root \in [Threads -> PidOrNone] /\ t \in Threads /\ root[t] \in Pids
  BY RunStarted, Constants DEF TypeInv, TypeOK, CpuTypes, ProcTypes, LocalsOK
<1>1. (NoCrash /\ Schedule /\ Parked /\ OwnedOK /\ SlotsOK /\ RootsOK /\ OneChainPerSlot)'
  BY DEF NoCrash, Schedule, Parked, AllStarted, OwnedOK, SlotsOK, RootsOK, OneChainPerSlot
<1>2. (FoundOK /\ ClaimedOK /\ Context /\ RunningOK)'
  BY <1>0 DEF FoundOK, ClaimedOK, Context, RunningOK, Ending, Beginning
<1>3. kind[t] = "call" /\ owner[PCB[root[t]].parent] = t
  <2>1. kind[t] # "boot" /\ kind[t] # "respawn"
    BY <1>0, Constants DEF BootOK, RespawnOK, Looking, RootsOK
  <2>2. kind[t] = "call"
    BY <1>0, <2>1 DEF TypeInv, TypeOK, CpuTypes, Kinds
  <2>3. owner[root[t]] = t /\ t # NONE
    BY <1>0, <2>2, Constants DEF CallOK, Looking
  <2> QED
    BY <1>0, <2>2, <2>3, ParentOwned
<1>4. (CallOK /\ BootOK /\ RespawnOK)'
  BY <1>0, <1>3 DEF CallOK, BootOK, RespawnOK, Looking
<1> QED
  BY <1>1, <1>2, <1>3, <1>4 DEF Parts

\* The result of the scan over PCB[].
LEMMA ScanResult ==
  ASSUME FreePids # {}
  PROVE  /\ Min(FreePids) \in Pids /\ ~PCB[Min(FreePids)].running
         /\ \A p \in Pids : ~PCB[p].running => Min(FreePids) <= p
<1>1. FreePids \subseteq Pids
  BY DEF FreePids
<1> QED
  BY <1>1, MinPid DEF FreePids

LEMMA ExecFindCore ==
  ASSUME CoreInv, NEW t \in Slots, ExecFind(t)
  PROVE  Parts'
<1> USE DEF ExecFind, At, GoTo, slotVars, cpuVars, CoreInv
<1> DEFINE i == Min(FreePids)
<1>0. /\ run = t /\ t < num_multiprocess /\ susp[t] = "none" /\ pc[t] = "walk"
      /\ pc \in [Threads -> Points] /\ idx \in [Threads -> PidOrNone]
      /\ t \in Threads /\ root[t] \in Pids /\ kind[t] \in Kinds
      /\ i \in Pids /\ ~PCB[i].running /\ \A p \in Pids : ~PCB[p].running => i <= p
      /\ pc' = [pc EXCEPT ![t] = "found"] /\ idx' = [idx EXCEPT ![t] = i]
  BY RunStarted, Constants, ScanResult DEF TypeInv, TypeOK, CpuTypes, ProcTypes, LocalsOK
<1> HIDE DEF i
<1>1. (NoCrash /\ Schedule /\ OwnedOK /\ RootsOK /\ OneChainPerSlot)'
  BY DEF NoCrash, Schedule, AllStarted, OwnedOK, RootsOK, OneChainPerSlot
<1>2. (Parked /\ SlotsOK /\ ClaimedOK /\ Context /\ RunningOK)'
  BY <1>0 DEF Parked, Parkable, SlotsOK, AllStarted, ClaimedOK, Context, RunningOK,
              Ending, Beginning
\* The walk has ended at the root shell of the slot.
<1>3. kind[t] = "call" => root[t] = t
  <2> SUFFICES ASSUME kind[t] = "call" PROVE root[t] = t
    OBVIOUS
  <2>1. owner[root[t]] = t /\ t # NONE /\ PCB[root[t]].parent = NONE
    BY <1>0, Constants DEF CallOK, Looking
  <2>2. root[t] < MAX_MULTIPROCESS_NUM
    BY <1>0, <2>1, Constants, SizesAssumption DEF OwnedOK, Pids
  <2> QED
    BY <1>0, <2>1, <2>2, Constants DEF OneChainPerSlot
<1>4. (CallOK /\ BootOK /\ RespawnOK)'
  BY <1>0, <1>3 DEF CallOK, BootOK, RespawnOK, Looking
<1>5. FoundOK'
  <2>1. \A s \in Slots : s < num_multiprocess /\ s # t /\ owner[s] = s /\ ~Ending(t, s) =>
                          PCB[s].running
    BY <1>0, Constants DEF RunningOK
  <2>2. \A s \in Slots : s < num_multiprocess /\ s # t => owner[s] = s
    BY <1>0 DEF SlotsOK, Parked
  <2>3. CASE kind[t] = "call"
    <3>1. AllStarted /\ owner[t] = t
      BY <1>0, <2>3 DEF SlotsOK
    <3>2. \A p : ~Ending(t, p)
      BY <1>0, <2>3 DEF Ending
    <3>3. \A s \in Slots : PCB[s].running
      BY <1>0, <2>2, <3>1, <3>2, Constants DEF RunningOK, AllStarted, Slots
    <3>4. i >= MAX_MULTIPROCESS_NUM /\ owner[i] = NONE
      BY <1>0, <3>2, <3>3, SizesAssumption DEF RunningOK, Pids, Slots
    <3> QED
      BY <1>0, <2>3, <3>4 DEF FoundOK, Parked, Parkable
  <2>4. CASE kind[t] # "call"
    <3>1. ~PCB[t].running
      BY <1>0, <2>4, Constants DEF RunningOK, Ending, Beginning, BootOK, RespawnOK, Kinds
    <3>2. \A s \in Slots : s < t => PCB[s].running
      <4> SUFFICES ASSUME NEW s \in Slots, s < t PROVE PCB[s].running
        OBVIOUS
      <4>1. s < num_multiprocess /\ s # t /\ s \in Pids /\ s # NONE
        BY <1>0, Constants, SizesAssumption DEF Slots, TypeInv, TypeOK, SlotTypes
      <4>2. owner[s] = s
        BY <2>2, <4>1
      <4>3. ~Ending(t, s)
        BY <1>0, <2>4, <4>1 DEF Ending, RespawnOK
      <4> QED
        BY <1>0, <4>1, <4>2, <4>3 DEF RunningOK
    <3>3. i = t
      BY <1>0, <3>1, <3>2, Constants, SizesAssumption DEF Pids, Slots
    <3> QED
      BY <1>0, <2>4, <3>3 DEF FoundOK, Parked, Parkable
  <2> QED
    BY <2>3, <2>4
<1> QED
  BY <1>1, <1>2, <1>4, <1>5 DEF Parts

LEMMA ExecFullCore ==
  ASSUME CoreInv, NEW t \in Slots, ExecFull(t)
  PROVE  Parts'
<1> USE DEF ExecFull, At, GoTo, slotVars, cpuVars, CoreInv
<1>0. /\ run = t /\ t < num_multiprocess /\ susp[t] = "none" /\ pc[t] = "walk"
      /\ pc \in [Threads -> Points] /\ parent \in [Threads -> PidOrNone]
      /\ root \in [Threads -> PidOrNone] /\ t \in Threads
      /\ \A p \in Pids : PCB[p].running
  BY RunStarted, Constants DEF TypeInv, TypeOK, CpuTypes, ProcTypes, FreePids
\* In a respawn the PCB of the shell that ended is free.
<1>1. kind[t] = "call"
  BY <1>0, Constants DEF RunningOK, Ending, Beginning, RespawnOK
<1>a. /\ pc' = [pc EXCEPT ![t] = "user"] /\ parent' = [parent EXCEPT ![t] = NONE]
      /\ UNCHANGED PCB
  BY <1>1
<1>2. (NoCrash /\ Schedule /\ OwnedOK /\ RootsOK /\ OneChainPerSlot)'
  BY <1>a DEF NoCrash, Schedule, AllStarted, OwnedOK, RootsOK, OneChainPerSlot
<1>3. (Parked /\ SlotsOK /\ CallOK /\ BootOK /\ RespawnOK)'
  BY <1>0, <1>1, <1>a
  DEF Parked, Parkable, SlotsOK, AllStarted, CallOK, BootOK, RespawnOK, Looking
<1>4. (FoundOK /\ ClaimedOK /\ Context /\ RunningOK)'
  BY <1>0, <1>1, <1>a
  DEF FoundOK, ClaimedOK, Context, RunningOK, Ending, Beginning, Parkable
<1> QED
  BY <1>2, <1>3, <1>4 DEF Parts

LEMMA ExecClaimCore ==
  ASSUME CoreInv, NEW t \in Slots, ExecClaim(t)
  PROVE  Parts'
<1> USE DEF ExecClaim, At, GoTo, slotVars, procVars, CoreInv
<1> DEFINE i == idx[t]
           claimed == [PCB[i] EXCEPT !.running = TRUE, !.pid = i,
                                     !.parent = ParentOf(i, parent[t])]
<1>0. /\ run = t /\ t < num_multiprocess /\ susp[t] = "none" /\ pc[t] = "found"
      /\ pc \in [Threads -> Points] /\ i \in Pids /\ t \in Threads /\ kind[t] \in Kinds
      /\ parent[t] \in Pids
  BY RunStarted, Constants DEF TypeInv, TypeOK, CpuTypes, ProcTypes, LocalsOK
<1>1. /\ PCB' = [PCB EXCEPT ![i] = claimed]
      /\ claimed.running /\ claimed.pid = i /\ claimed.esp = PCB[i].esp
      /\ claimed.parent = ParentOf(i, parent[t])
  BY <1>0 DEF TypeInv, TypeOK, SlotTypes
<1> HIDE DEF claimed
<1>2. PCB'[i] = claimed /\ \A p \in Pids : p # i => PCB'[p] = PCB[p]
  BY <1>0, <1>1 DEF TypeInv, TypeOK, SlotTypes
\* The pid is not in use yet, or is the root shell's own.
<1>3. IF kind[t] = "call" THEN i >= MAX_MULTIPROCESS_NUM /\ owner[i] = NONE ELSE i = t
  BY <1>0 DEF FoundOK
<1>4. IF i >= MAX_MULTIPROCESS_NUM THEN claimed.parent = parent[t] ELSE claimed.parent = NONE
  BY <1>0, <1>1, SizesAssumption DEF ParentOf, Pids
<1>5. (NoCrash /\ Schedule /\ Parked /\ SlotsOK /\ FoundOK)'
  BY <1>0 DEF NoCrash, Schedule, AllStarted, Parked, Parkable, SlotsOK, FoundOK
<1>6. (OwnedOK /\ RootsOK)'
  BY <1>0, <1>1, <1>2, <1>3, <1>4, Constants, SizesAssumption DEF OwnedOK, RootsOK, Slots, Pids
<1>7. OneChainPerSlot'
  BY <1>0, <1>1, <1>2, <1>3, <1>4, Constants, SizesAssumption DEF OneChainPerSlot, Slots, Pids, RootsOK
<1>8. (CallOK /\ BootOK /\ RespawnOK)'
  BY <1>0, <1>2, <1>3 DEF CallOK, BootOK, RespawnOK, Looking, Parked, Parkable
<1>9. (ClaimedOK /\ Context)'
  BY <1>0, <1>1, <1>2, <1>3, <1>4 DEF ClaimedOK, Context, Parked, Parkable, CallOK
<1>10. RunningOK'
  BY <1>0, <1>1, <1>2, <1>3, Constants DEF RunningOK, Ending, Beginning, RespawnOK, Kinds, BootOK
<1> QED
  BY <1>5, <1>6, <1>7, <1>8, <1>9, <1>10 DEF Parts

LEMMA ReleasedEffect ==
  ASSUME CoreInv, NEW c \in Pids, PCB' = Released(c)
  PROVE  \A p \in Pids : /\ PCB'[p].running <=> PCB[p].running /\ p # c
                         /\ PCB'[p].pid = PCB[p].pid /\ PCB'[p].parent = PCB[p].parent
                         /\ PCB'[p].esp = PCB[p].esp
<1>1. PCB \in [Pids -> [running : BOOLEAN, pid : Pids, parent : PidOrNone, esp : PidOrNone]]
  BY DEF CoreInv, TypeInv, TypeOK, SlotTypes
<1>2. PCB' = [PCB EXCEPT ![c] = [PCB[c] EXCEPT !.running = FALSE]]
  BY <1>1 DEF Released
<1>3. \A p \in Pids : p # c => PCB'[p] = PCB[p]
  BY <1>1, <1>2
<1>4. PCB'[c] = [PCB[c] EXCEPT !.running = FALSE]
  BY <1>1, <1>2
<1> QED
  BY <1>1, <1>3, <1>4

LEMMA HaltRootCore ==
  ASSUME CoreInv, NEW t \in Slots, HaltRoot(t)
  PROVE  Parts'
<1> USE DEF HaltRoot, At, GoTo, slotVars, cpuVars, procVars, CoreInv
<1>0. /\ run = t /\ t < num_multiprocess /\ susp[t] = "none" /\ pc[t] = "halt"
      /\ pc \in [Threads -> Points] /\ t \in Threads /\ kind[t] \in Kinds
      /\ cur[t] \in Pids
  BY RunStarted, Constants DEF TypeInv, TypeOK, CpuTypes, ProcTypes, LocalsOK
<1>1. kind[t] = "call" /\ cur[t] = multi_process_idx[t] /\ owner[cur[t]] = t /\ t # NONE
  BY <1>0, Constants DEF CallOK, SlotsOK, BootOK, RespawnOK, Kinds
<1>2. cur[t] = t
  <2>1. PCB[cur[t]].parent # cur[t] \/ cur[t] < MAX_MULTIPROCESS_NUM
    BY <1>0, <1>1, SizesAssumption DEF OneChainPerSlot, Pids
  <2>2. cur[t] < MAX_MULTIPROCESS_NUM
    BY <1>0, <1>1, <2>1, Constants, SizesAssumption DEF OwnedOK, Pids
  <2> QED
    BY <1>0, <1>1, <2>2 DEF OneChainPerSlot
<1>3. \A p \in Pids : /\ PCB'[p].running <=> PCB[p].running /\ p # t
                      /\ PCB'[p].pid = PCB[p].pid /\ PCB'[p].parent = PCB[p].parent
                      /\ PCB'[p].esp = PCB[p].esp
  BY <1>0, <1>2, ReleasedEffect
<1>4. (NoCrash /\ Schedule /\ Parked /\ SlotsOK)'
  BY <1>0, <1>1 DEF NoCrash, Schedule, AllStarted, Parked, Parkable, SlotsOK
<1>5. (OwnedOK /\ RootsOK)'
  BY <1>3, Constants DEF OwnedOK, RootsOK
<1>6. OneChainPerSlot'
  BY <1>3, Constants DEF OneChainPerSlot
<1>7. (CallOK /\ BootOK /\ RespawnOK)'
  BY <1>0, <1>1, <1>2, <1>3 DEF CallOK, BootOK, RespawnOK, Looking, Parked, Parkable
<1>8. (FoundOK /\ ClaimedOK /\ Context)'
  BY <1>0, <1>1, <1>3 DEF FoundOK, ClaimedOK, Context, Parked, Parkable
<1>9. RunningOK'
  BY <1>0, <1>1, <1>2, <1>3, Constants DEF RunningOK, Ending, Beginning
<1> QED
  BY <1>4, <1>5, <1>6, <1>7, <1>8, <1>9 DEF Parts

LEMMA HaltChildCore ==
  ASSUME CoreInv, NEW t \in Slots, HaltChild(t)
  PROVE  Parts'
<1> USE DEF HaltChild, At, GoTo, slotVars, cpuVars, CoreInv
<1>0. /\ run = t /\ t < num_multiprocess /\ susp[t] = "none" /\ pc[t] = "halt"
      /\ pc \in [Threads -> Points] /\ t \in Threads /\ kind[t] \in Kinds
      /\ cur[t] \in Pids /\ parent \in [Threads -> PidOrNone]
  BY RunStarted, Constants DEF TypeInv, TypeOK, CpuTypes, ProcTypes, LocalsOK
<1>1. kind[t] = "call" /\ cur[t] = multi_process_idx[t]
  BY <1>0, Constants DEF CallOK, BootOK, RespawnOK, Kinds
<1>2. cur[t] >= MAX_MULTIPROCESS_NUM
  BY <1>0, SizesAssumption DEF RootsOK, Slots, Pids
<1>3. \A p \in Pids : /\ PCB'[p].running <=> PCB[p].running /\ p # cur[t]
                      /\ PCB'[p].pid = PCB[p].pid /\ PCB'[p].parent = PCB[p].parent
                      /\ PCB'[p].esp = PCB[p].esp
  BY <1>0, ReleasedEffect
<1>4. (NoCrash /\ Schedule /\ Parked /\ SlotsOK)'
  BY <1>0, <1>1 DEF NoCrash, Schedule, AllStarted, Parked, Parkable, SlotsOK
<1>5. (OwnedOK /\ RootsOK)'
  BY <1>3, Constants DEF OwnedOK, RootsOK
<1>6. OneChainPerSlot'
  BY <1>3, Constants DEF OneChainPerSlot
<1>7. (CallOK /\ BootOK /\ RespawnOK)'
  BY <1>0, <1>1, <1>2, <1>3 DEF CallOK, BootOK, RespawnOK, Looking, Parked, Parkable
<1>8. (FoundOK /\ ClaimedOK /\ Context)'
  BY <1>0, <1>1, <1>3 DEF FoundOK, ClaimedOK, Context, Parked, Parkable
<1>9. RunningOK'
  BY <1>0, <1>1, <1>2, <1>3, Constants DEF RunningOK, Ending, Beginning, SlotsOK
<1> QED
  BY <1>4, <1>5, <1>6, <1>7, <1>8, <1>9 DEF Parts

LEMMA RespawnCore ==
  ASSUME CoreInv, NEW t \in Slots, Respawn(t)
  PROVE  Parts'
<1> USE DEF Respawn, At, GoTo, slotVars, CoreInv
<1>0. /\ run = t /\ t < num_multiprocess /\ susp[t] = "none" /\ pc[t] = "respawn"
      /\ pc \in [Threads -> Points] /\ kind \in [Threads -> Kinds] /\ t \in Threads
  BY RunStarted, Constants DEF TypeInv, TypeOK, CpuTypes
<1>1. kind[t] = "call" /\ cur[t] = t /\ multi_process_idx[t] = t
  BY <1>0 DEF CallOK, BootOK, RespawnOK, Kinds
<1>2. (NoCrash /\ Schedule /\ OwnedOK /\ RootsOK /\ OneChainPerSlot)'
  BY DEF NoCrash, Schedule, AllStarted, OwnedOK, RootsOK, OneChainPerSlot
<1>3. (Parked /\ SlotsOK /\ CallOK /\ BootOK /\ RespawnOK)'
  BY <1>0, <1>1 DEF Parked, Parkable, SlotsOK, AllStarted, CallOK, BootOK, RespawnOK, Looking
<1>4. (FoundOK /\ ClaimedOK /\ Context /\ RunningOK)'
  BY <1>0, <1>1 DEF FoundOK, ClaimedOK, Context, RunningOK, Ending, Beginning, Parkable, Parked
<1> QED
  BY <1>2, <1>3, <1>4 DEF Parts
\* A slot that is the only one to run a pid is the one Replace changes.
LEMMA ReplacedSlot ==
  ASSUME NEW mpi \in [Slots -> Pids], NEW t \in Slots, NEW new \in Pids,
         \A s \in Slots : mpi[s] = mpi[t] => s = t
  PROVE  Replace(mpi, mpi[t], new) = [mpi EXCEPT ![t] = new]
<1>1. \A s \in Slots : mpi[s] = mpi[t] /\ (\A r \in Slots : r < s => mpi[r] # mpi[t]) <=> s = t
  <2>1. \A r \in Slots : r < t => mpi[r] # mpi[t]
    BY DEF Slots
  <2> QED
    BY <2>1
<1> QED
  BY <1>1 DEF Replace

\* No two slots that are past their start run the same pid.
LEMMA OwnSlot ==
  ASSUME CoreInv, AllStarted, NEW t \in Slots, kind[t] # "boot"
  PROVE  \A s \in Slots : multi_process_idx[s] = multi_process_idx[t] => s = t
<1>1. owner[multi_process_idx[t]] = t
  <2>1. t < num_multiprocess
    BY SizesAssumption DEF AllStarted, Slots
  <2> QED
    BY <2>1 DEF CoreInv, SlotsOK
<1>2. ASSUME NEW s \in Slots, multi_process_idx[s] = multi_process_idx[t] PROVE s = t
  <2>1. s < num_multiprocess /\ t # NONE
    BY Constants DEF AllStarted, Slots
  <2>2. CASE kind[s] # "boot"
    BY <1>1, <1>2, <2>1, <2>2 DEF CoreInv, SlotsOK
  <2>3. CASE kind[s] = "boot"
    BY <1>1, <1>2, <2>1, <2>3 DEF CoreInv, BootOK
  <2> QED
    BY <2>2, <2>3
<1> QED
  BY <1>2

\* What loading the program changes, in all three kinds of sys_execute.
LEMMA Loaded ==
  ASSUME CoreInv, NEW t \in Slots, ExecLoad(t)
  PROVE  LET c == idx[t]
         IN  /\ current_process_pid = c /\ c \in Pids /\ PCB[c].pid = c
             /\ kind[t] = "call" => /\ c >= MAX_MULTIPROCESS_NUM /\ owner[c] = NONE
                                    /\ PCB[c].parent = multi_process_idx[t]
                                    /\ owner[multi_process_idx[t]] = t
                                    /\ prog[t] = multi_process_idx[t]
             /\ kind[t] # "call" => c = t /\ multi_process_idx[t] = t
             /\ kind[t] # "boot" => owner[t] = t
             /\ fate' = "ok" /\ pde' = c /\ esp0' = c
             /\ \A p \in Pids : /\ owner'[p] = IF p = c THEN t ELSE owner[p]
                                /\ p # c => PCB'[p] = PCB[p] /\ all_process'[p] = all_process[p]
             /\ PCB'[c] = [PCB[c] EXCEPT !.esp = prog[t]]
             /\ all_process'[c].PCB = c /\ all_process'[c].active_terminal_idx = t
             /\ \A s \in Slots : multi_process_idx'[s] = IF s = t THEN c ELSE multi_process_idx[s]
<1> USE DEF ExecLoad, At, CoreInv
<1> DEFINE c == idx[t]
<1>0. /\ run = t /\ t < num_multiprocess /\ pc[t] = "claimed" /\ fate = "ok"
      /\ t \in Threads /\ kind[t] \in Kinds /\ t # NONE /\ t \in Pids
      /\ parent[t] \in Pids /\ root[t] \in Pids
      /\ multi_process_idx \in [Slots -> Pids] /\ current_process_pid \in Pids
      /\ all_process \in [Pids -> [PCB : PidOrNone, active_terminal_idx : Pids,
                                   saved_esp : Threads \cup {NONE}]]
      /\ PCB \in [Pids -> [running : BOOLEAN, pid : Pids, parent : PidOrNone, esp : PidOrNone]]
      /\ prog \in [Threads -> PidOrNone]
  BY RunStarted, Constants DEF TypeInv, TypeOK, CpuTypes, ProcTypes, SlotTypes, LocalsOK, NoCrash
<1>1. current_process_pid = c /\ c \in Pids /\ PCB[c].pid = c
  BY <1>0 DEF ClaimedOK
<1>2. kind[t] = "call" => /\ c >= MAX_MULTIPROCESS_NUM /\ owner[c] = NONE /\ AllStarted
                          /\ PCB[c].parent = multi_process_idx[t]
                          /\ parent[t] = multi_process_idx[t] /\ root[t] = t
                          /\ owner[multi_process_idx[t]] = t /\ owner[t] = t
                          /\ prog[t] = multi_process_idx[t]
  BY <1>0 DEF ClaimedOK, FoundOK, CallOK, SlotsOK, Looking
<1>3. kind[t] # "call" => c = t /\ multi_process_idx[t] = t
                          /\ ~(c >= MAX_MULTIPROCESS_NUM)
                          /\ all_process[t].PCB = t /\ all_process[t].active_terminal_idx = t
                          /\ IF kind[t] = "boot" THEN owner[t] = NONE
                             ELSE owner[t] = t /\ cur[t] = t /\ kind[t] = "respawn"
  <2>1. ~(t >= MAX_MULTIPROCESS_NUM)
    BY SizesAssumption DEF Slots
  <2>2. CASE kind[t] = "boot"
    BY <1>0, <2>1, <2>2 DEF FoundOK, BootOK
  <2>3. CASE kind[t] = "respawn"
    <3>1. c = t /\ multi_process_idx[t] = t /\ cur[t] = t /\ owner[t] = t
      BY <1>0, <2>3 DEF FoundOK, RespawnOK, SlotsOK
    <3> QED
      BY <1>0, <2>1, <2>3, <3>1 DEF OwnedOK
  <2> QED
    BY <1>0, <2>2, <2>3 DEF Kinds
<1>4. fate' = "ok" /\ pde' = c /\ esp0' = c
  BY <1>0, <1>1, <1>2, <1>3
<1>5. \A p \in Pids : owner'[p] = IF p = c THEN t ELSE owner[p]
  BY <1>1, <1>2, <1>3
<1>6. PCB'[c] = [PCB[c] EXCEPT !.esp = prog[t]] /\ \A p \in Pids : p # c => PCB'[p] = PCB[p]
  BY <1>0, <1>1
<1>7. /\ all_process'[c].PCB = c /\ all_process'[c].active_terminal_idx = t
      /\ \A p \in Pids : p # c => all_process'[p] = all_process[p]
  <2>1. CASE kind[t] = "call"
    <3>1. PCB[t].pid = t
      BY <1>0, <1>2, <2>1 DEF OwnedOK
    <3>2. all_process' = [all_process EXCEPT ![c] =
                            [PCB |-> c, active_terminal_idx |-> t, saved_esp |-> NONE]]
      BY <1>1, <1>2, <2>1, <3>1
    <3> QED
      BY <1>0, <1>1, <3>2
  <2>2. CASE kind[t] # "call"
    BY <1>1, <1>3, <2>2
  <2> QED
    BY <2>1, <2>2
<1>8. \A s \in Slots : multi_process_idx'[s] = IF s = t THEN c ELSE multi_process_idx[s]
  <2>1. CASE kind[t] = "call"
    <3>1. PCB[parent[t]].pid = multi_process_idx[t]
      BY <1>0, <1>2, <2>1, Constants DEF OwnedOK
    <3>2. \A s \in Slots : multi_process_idx[s] = multi_process_idx[t] => s = t
      BY <1>2, <2>1, OwnSlot
    <3>3. multi_process_idx' = Replace(multi_process_idx, multi_process_idx[t], c)
      BY <1>1, <1>2, <2>1, <3>1
    <3>4. multi_process_idx' = [multi_process_idx EXCEPT ![t] = c]
      BY <1>0, <1>1, <3>2, <3>3, ReplacedSlot
    <3> QED
      BY <1>0, <3>4
  <2>2. CASE kind[t] # "call"
    BY <1>1, <1>3, <2>2
  <2> QED
    BY <2>1, <2>2
<1> QED
  BY <1>1, <1>2, <1>3, <1>4, <1>5, <1>6, <1>7, <1>8

LEMMA ExecLoadCore ==
  ASSUME CoreInv, NEW t \in Slots, ExecLoad(t)
  PROVE  Parts'
<1> USE DEF CoreInv
<1> DEFINE c == idx[t]
<1>a. /\ pc \in [Threads -> Points] /\ kind \in [Threads -> Kinds]
      /\ prog \in [Threads -> PidOrNone] /\ parent \in [Threads -> PidOrNone]
      /\ root \in [Threads -> PidOrNone] /\ idx \in [Threads -> PidOrNone]
      /\ cur \in [Threads -> PidOrNone] /\ t \in Threads /\ t # NONE
      /\ num_multiprocess \in Nat
  BY Constants DEF TypeInv, TypeOK, CpuTypes, ProcTypes, SlotTypes
<1>b. /\ pc' = [pc EXCEPT ![t] = "user"] /\ kind' = [kind EXCEPT ![t] = "call"]
      /\ prog' = [prog EXCEPT ![t] = current_process_pid]
      /\ parent' = [parent EXCEPT ![t] = NONE] /\ root' = [root EXCEPT ![t] = NONE]
      /\ idx' = [idx EXCEPT ![t] = NONE] /\ cur' = [cur EXCEPT ![t] = NONE]
      /\ UNCHANGED <<num_multiprocess, current_multiprocess, on_default_term,
                     keyboard_disabled, current_term, current_process_pid, run, susp>>
  BY DEF ExecLoad, GoTo
<1>0. run = t /\ t < num_multiprocess /\ pc[t] = "claimed" /\ susp[t] = "none"
  BY RunStarted DEF ExecLoad, At
<1>1. /\ current_process_pid = c /\ c \in Pids /\ PCB[c].pid = c
      /\ kind[t] = "call" => /\ c >= MAX_MULTIPROCESS_NUM /\ owner[c] = NONE
                             /\ PCB[c].parent = multi_process_idx[t]
                             /\ owner[multi_process_idx[t]] = t
                             /\ prog[t] = multi_process_idx[t]
      /\ kind[t] # "call" => c = t /\ multi_process_idx[t] = t
      /\ kind[t] # "boot" => owner[t] = t
      /\ fate' = "ok" /\ pde' = c /\ esp0' = c
      /\ \A p \in Pids : /\ owner'[p] = IF p = c THEN t ELSE owner[p]
                         /\ p # c => PCB'[p] = PCB[p] /\ all_process'[p] = all_process[p]
      /\ all_process'[c].PCB = c /\ all_process'[c].active_terminal_idx = t
      /\ \A s \in Slots : multi_process_idx'[s] = IF s = t THEN c ELSE multi_process_idx[s]
  BY Loaded
<1>2. /\ PCB'[c].pid = c /\ PCB'[c].parent = PCB[c].parent /\ PCB'[c].esp = prog[t]
      /\ PCB'[c].running = PCB[c].running
  <2>1. PCB'[c] = [PCB[c] EXCEPT !.esp = prog[t]]
    BY Loaded
  <2>2. PCB[c] \in [running : BOOLEAN, pid : Pids, parent : PidOrNone, esp : PidOrNone]
    BY <1>1 DEF TypeInv, TypeOK, SlotTypes
  <2> HIDE DEF c
  <2> QED
    BY <1>1, <2>1, <2>2
<1> HIDE DEF c
<1>d. owner[c] \in {NONE, t}
  <2>1. CASE kind[t] = "call"
    BY <1>1, <2>1
  <2>2. CASE kind[t] = "boot"
    BY <1>0, <1>1, <2>2 DEF BootOK
  <2>3. CASE kind[t] # "call" /\ kind[t] # "boot"
    BY <1>1, <2>3
  <2> QED
    BY <2>1, <2>2, <2>3
\* The thread afterwards, and the others.
<1>c. /\ pc'[t] = "user" /\ kind'[t] = "call" /\ prog'[t] = c
      /\ \A s \in Slots : s # t => /\ pc'[s] = pc[s] /\ kind'[s] = kind[s]
                                   /\ prog'[s] = prog[s] /\ parent'[s] = parent[s]
                                   /\ root'[s] = root[s] /\ idx'[s] = idx[s]
                                   /\ cur'[s] = cur[s]
                                   /\ s < num_multiprocess =>
                                        /\ kind[s] = "call" /\ pc[s] \in Parkable
                                        /\ owner[multi_process_idx[s]] = s
                                        /\ multi_process_idx[s] # c
  <2>1. ASSUME NEW s \in Slots, s # t, s < num_multiprocess
        PROVE  kind[s] = "call" /\ pc[s] \in Parkable /\ owner[multi_process_idx[s]] = s
    BY <1>0, <2>1 DEF Parked, SlotsOK
  <2>2. ASSUME NEW s \in Slots, s # t, s < num_multiprocess
        PROVE  multi_process_idx[s] # c
    <3>1. owner[multi_process_idx[s]] = s /\ s # NONE
      BY <2>1, <2>2, Constants
    <3> QED
      BY <1>d, <2>2, <3>1
  <2> QED
    BY <1>1, <1>a, <1>b, <2>1, <2>2, Constants
<1>3. (NoCrash /\ Schedule)'
  BY <1>0, <1>1, <1>b DEF NoCrash, Schedule, AllStarted
<1>4. Parked'
  BY <1>0, <1>1, <1>b, <1>c DEF Parked, Parkable, TypeInv, TypeOK, SlotTypes
<1>5. OwnedOK'
  <2> SUFFICES ASSUME NEW p \in Pids, owner'[p] # NONE
               PROVE  /\ owner'[p] \in Slots /\ owner'[p] < num_multiprocess'
                      /\ PCB'[p].pid = p
                      /\ p >= MAX_MULTIPROCESS_NUM => PCB'[p].parent \in Pids
                      /\ all_process'[p].PCB = p
                      /\ all_process'[p].active_terminal_idx = owner'[p]
    BY DEF OwnedOK
  <2>1. CASE p # c
    BY <1>1, <1>b, <2>1 DEF OwnedOK
  <2>2. CASE p = c
    <3>1. p >= MAX_MULTIPROCESS_NUM => PCB[c].parent \in Pids
      <4>1. kind[t] # "call" => ~(c >= MAX_MULTIPROCESS_NUM)
        BY <1>1, SizesAssumption DEF Slots
      <4> QED
        BY <1>1, <2>2, <4>1 DEF TypeInv, TypeOK, SlotTypes
    <3> QED
      BY <1>0, <1>1, <1>2, <1>b, <2>2, <3>1
  <2> QED
    BY <2>1, <2>2
<1>6. RootsOK'
  BY <1>0, <1>1, <1>2, Constants DEF RootsOK
<1>7. SlotsOK'
  <2>1. ASSUME NEW s \in Slots, s < num_multiprocess, s # t
        PROVE  owner'[s] = s /\ owner'[multi_process_idx'[s]] = s
    <3>1. owner[s] = s /\ multi_process_idx[s] \in Pids
      BY <1>c, <2>1 DEF SlotsOK, TypeInv, TypeOK, SlotTypes
    <3>2. s # c
      BY <1>1, <2>1, SizesAssumption DEF Slots
    <3> QED
      BY <1>1, <1>c, <2>1, <3>1, <3>2, Constants
  <2>2. owner'[t] = t /\ owner'[multi_process_idx'[t]] = t
    BY <1>1, Constants DEF Kinds
  <2> QED
    BY <1>0, <1>1, <1>b, <1>c, <2>1, <2>2 DEF SlotsOK, AllStarted
<1>8. (BootOK /\ RespawnOK)'
  BY <1>b, <1>c DEF BootOK, RespawnOK
<1>9. CallOK'
  <2>1. ASSUME NEW s \in Slots, s < num_multiprocess, s # t, Looking(s)
        PROVE  parent[s] = multi_process_idx[s] /\ owner'[root[s]] = s
    <3>1. parent[s] = multi_process_idx[s] /\ owner[root[s]] = s /\ s # NONE /\ root[s] \in Pids
      BY <1>c, <2>1, Constants DEF CallOK, Looking, TypeInv, LocalsOK
    <3>2. root[s] # c
      BY <1>d, <2>1, <3>1
    <3> QED
      BY <1>1, <3>1, <3>2
  <2> QED
    BY <1>1, <1>b, <1>c, <2>1 DEF CallOK, Looking, Parkable
<1>10. (FoundOK /\ ClaimedOK /\ Context)'
  BY <1>0, <1>1, <1>b, <1>c DEF FoundOK, ClaimedOK, Context, Parkable
<1>11. RunningOK'
  <2>1. \A p \in Pids : PCB'[p].running <=> PCB[p].running
    BY <1>1, <1>2
  <2>2. \A p \in Pids : PCB[p].running <=> owner'[p] # NONE
    <3> SUFFICES ASSUME NEW p \in Pids PROVE PCB[p].running <=> owner'[p] # NONE
      OBVIOUS
    <3>1. CASE p = c
      BY <1>0, <1>1, <1>a, <3>1 DEF RunningOK, Beginning, c
    <3>2. CASE p # c
      <4>1. ~Ending(t, p) /\ ~Beginning(t, p)
        <5>1. kind[t] = "respawn" => cur[t] = c
          BY <1>0, <1>1 DEF RespawnOK
        <5> QED
          BY <1>0, <3>2, <5>1 DEF Ending, Beginning, c
      <4> QED
        BY <1>0, <1>1, <3>2, <4>1 DEF RunningOK
    <3> QED
      BY <3>1, <3>2
  <2> QED
    BY <1>0, <1>b, <1>c, <2>1, <2>2 DEF RunningOK, Ending, Beginning
<1>12. OneChainPerSlot'
  <2>1. \A p \in Pids : owner[p] # NONE => owner'[p] = owner[p]
    BY <1>1, <1>d
  \* Nobody waits for the process that is about to wait for the new one.
  <2>2. ASSUME kind[t] = "call", NEW p \in Pids, owner[p] # NONE
        PROVE  PCB[p].parent # multi_process_idx[t]
    <3>1. multi_process_idx[t] \in Pids
      BY DEF TypeInv, TypeOK, SlotTypes
    <3>2. CASE PCB[p].parent = NONE
      BY <3>1, <3>2, Constants
    <3>3. CASE PCB[p].parent # NONE
      <4>1. p >= MAX_MULTIPROCESS_NUM /\ owner[PCB[p].parent] = owner[p]
        BY <2>2, <3>3, ParentOwned
      <4>2. PCB[p].parent # multi_process_idx[owner[p]]
        BY <2>2, <4>1, SizesAssumption DEF OneChainPerSlot, Pids
      <4> QED
        BY <1>1, <2>2, <4>1, <4>2
    <3> QED
      BY <3>2, <3>3
  <2> SUFFICES ASSUME NEW p \in Pids, owner'[p] # NONE
               PROVE  IF p < MAX_MULTIPROCESS_NUM
                      THEN owner'[p] = p /\ PCB'[p].parent = NONE
                      ELSE LET q == PCB'[p].parent
                           IN /\ q = PCB'[p].esp
                              /\ owner'[q] = owner'[p]
                              /\ \A r \in Pids \ {p} : owner'[r] # NONE => PCB'[r].parent # q
                              /\ q # multi_process_idx'[owner'[p]]
    BY DEF OneChainPerSlot
  <2>3. CASE p < MAX_MULTIPROCESS_NUM
    <3>1. PCB'[p].parent = NONE
      BY <1>6, <2>3, SizesAssumption DEF RootsOK, Slots, Pids
    <3>2. owner'[p] = p
      <4>1. CASE p = c
        <5>1. kind[t] # "call"
          BY <1>1, <2>3, <4>1, SizesAssumption DEF Pids
        <5> QED
          BY <1>1, <4>1, <5>1
      <4>2. CASE p # c
        BY <1>1, <2>3, <4>2 DEF OneChainPerSlot
      <4> QED
        BY <4>1, <4>2
    <3> QED
      BY <2>3, <3>1, <3>2
  <2>4. CASE p >= MAX_MULTIPROCESS_NUM /\ p = c
    <3>1. kind[t] = "call"
      BY <1>1, <2>4, SizesAssumption DEF Slots
    <3>2. multi_process_idx[t] \in Pids /\ multi_process_idx[t] # c
      BY <1>1, <3>1, <1>a DEF TypeInv, TypeOK, SlotTypes
    <3>3. owner'[multi_process_idx[t]] = t /\ owner'[p] = t
      BY <1>1, <2>4, <3>1, <3>2
    <3>4. \A r \in Pids \ {p} : owner'[r] # NONE => PCB'[r].parent # multi_process_idx[t]
      BY <1>1, <2>2, <2>4, <3>1
    <3> QED
      BY <1>1, <1>2, <2>4, <3>1, <3>2, <3>3, <3>4, SizesAssumption DEF Pids
  <2>5. CASE p >= MAX_MULTIPROCESS_NUM /\ p # c
    <3> DEFINE q == PCB[p].parent
    <3>1. owner[p] # NONE /\ owner'[p] = owner[p] /\ PCB'[p] = PCB[p]
      BY <1>1, <2>5
    <3>2. ~(p < MAX_MULTIPROCESS_NUM)
      BY <2>5, SizesAssumption DEF Pids
    <3>3. /\ q = PCB[p].esp /\ owner[q] = owner[p] /\ q \in Pids /\ owner[p] \in Slots
          /\ \A r \in Pids \ {p} : owner[r] # NONE => PCB[r].parent # q
          /\ q # multi_process_idx[owner[p]]
      BY <2>5, <3>1, <3>2 DEF OneChainPerSlot, OwnedOK
    <3> HIDE DEF q
    <3>4. owner'[q] = owner'[p]
      BY <2>1, <3>1, <3>3
    <3>5. ASSUME NEW r \in Pids \ {p}, owner'[r] # NONE
          PROVE  PCB'[r].parent # q
      <4>1. CASE r # c
        BY <1>1, <3>3, <3>5, <4>1
      <4>2. CASE r = c /\ kind[t] = "call"
        BY <1>1, <1>2, <2>2, <3>1, <4>2 DEF q
      <4>3. CASE r = c /\ kind[t] # "call"
        BY <1>1, <1>6, <3>3, <4>3, Constants DEF RootsOK
      <4> QED
        BY <4>1, <4>2, <4>3
    <3>6. q # multi_process_idx'[owner'[p]]
      BY <1>1, <3>1, <3>3, Constants
    <3> QED
      BY <3>1, <3>2, <3>3, <3>4, <3>5, <3>6 DEF q
  <2> QED
    BY <2>3, <2>4, <2>5, SizesAssumption DEF Pids
<1> QED
  BY <1>3, <1>4, <1>5, <1>6, <1>7, <1>8, <1>9, <1>10, <1>11, <1>12 DEF Parts
\* The process that ends runs on the stack of the thread, and its parent waits
\* for it: the pids and their relations at the end of sys_halt.
LEMMA Exiting ==
  ASSUME CoreInv, NEW t \in Slots, run = t, pc[t] = "exiting"
  PROVE  LET c == cur[t]
             q == parent[t]
         IN  /\ t < num_multiprocess /\ kind[t] = "call" /\ AllStarted
             /\ c \in Pids /\ c = multi_process_idx[t] /\ c = current_process_pid
             /\ c >= MAX_MULTIPROCESS_NUM /\ owner[c] = t /\ ~PCB[c].running
             /\ q = PCB[c].parent /\ q \in Pids /\ q # c
             /\ PCB[q].pid = q /\ PCB[c].esp = q /\ owner[q] = t
             /\ \A r \in Pids \ {c} : owner[r] # NONE => PCB[r].parent # q
<1> USE DEF CoreInv
<1> DEFINE c == cur[t]
<1>0. t < num_multiprocess /\ t \in Threads /\ kind[t] \in Kinds /\ t # NONE /\ c \in Pids
  BY RunStarted, Constants DEF TypeInv, TypeOK, CpuTypes, LocalsOK
<1>1. kind[t] = "call" /\ AllStarted
  BY <1>0 DEF SlotsOK, BootOK, RespawnOK, Kinds
<1>2. /\ c = multi_process_idx[t] /\ c >= MAX_MULTIPROCESS_NUM /\ owner[c] = t
      /\ parent[t] = PCB[c].parent /\ c = current_process_pid
  BY <1>0, <1>1 DEF CallOK, SlotsOK, Context
<1>3. ~(c < MAX_MULTIPROCESS_NUM)
  BY <1>0, <1>2, SizesAssumption DEF Pids
<1>4. /\ PCB[c].parent \in Pids /\ PCB[c].esp = PCB[c].parent
      /\ owner[PCB[c].parent] = t /\ PCB[c].parent # c
      /\ \A r \in Pids \ {c} : owner[r] # NONE => PCB[r].parent # PCB[c].parent
  BY <1>0, <1>2, <1>3 DEF OneChainPerSlot, OwnedOK
<1>5. PCB[PCB[c].parent].pid = PCB[c].parent
  BY <1>0, <1>4 DEF OwnedOK
<1>6. ~PCB[c].running
  BY <1>0 DEF RunningOK, Ending, Beginning
<1> QED
  BY <1>0, <1>1, <1>2, <1>4, <1>5, <1>6

LEMMA ExitCore ==
  ASSUME CoreInv, NEW t \in Slots, Exit(t)
  PROVE  Parts'
<1> USE DEF CoreInv
<1> DEFINE c == cur[t]
           q == parent[t]
<1>a. /\ run = t /\ pc[t] = "exiting" /\ susp[t] = "none"
      /\ pc' = [pc EXCEPT ![t] = "returned"]
      /\ prog' = [prog EXCEPT ![t] = PCB[c].esp]
      /\ owner' = [owner EXCEPT ![c] = NONE]
      /\ UNCHANGED <<num_multiprocess, current_multiprocess, on_default_term, keyboard_disabled,
                     all_process, current_term, run, susp, fate, PCB, kind, parent, root, idx, cur>>
  BY DEF Exit, At, GoTo
<1>b. /\ t < num_multiprocess /\ kind[t] = "call" /\ AllStarted
      /\ c \in Pids /\ c = multi_process_idx[t] /\ c = current_process_pid
      /\ c >= MAX_MULTIPROCESS_NUM /\ owner[c] = t /\ ~PCB[c].running
      /\ q = PCB[c].parent /\ q \in Pids /\ q # c
      /\ PCB[q].pid = q /\ PCB[c].esp = q /\ owner[q] = t
      /\ \A r \in Pids \ {c} : owner[r] # NONE => PCB[r].parent # q
  BY <1>a, Exiting
<1>c. /\ pc \in [Threads -> Points] /\ prog \in [Threads -> PidOrNone]
      /\ owner \in [Pids -> Threads \cup {NONE}] /\ t \in Threads /\ t # NONE
      /\ multi_process_idx \in [Slots -> Pids]
  BY Constants DEF TypeInv, TypeOK, CpuTypes, ProcTypes, SlotTypes
<1>d. \A s \in Slots : s # t /\ s < num_multiprocess =>
        /\ kind[s] = "call" /\ pc[s] \in Parkable
        /\ owner[multi_process_idx[s]] = s /\ multi_process_idx[s] # c
  BY <1>a, <1>b DEF Parked, SlotsOK
<1>1. /\ pde' = q /\ esp0' = q /\ current_process_pid' = q
      /\ \A s \in Slots : multi_process_idx'[s] = IF s = t THEN q ELSE multi_process_idx[s]
  <2>1. multi_process_idx' = Replace(multi_process_idx, multi_process_idx[t], q)
    BY <1>b DEF Exit
  <2>2. \A s \in Slots : multi_process_idx[s] = multi_process_idx[t] => s = t
    BY <1>b, OwnSlot
  <2>3. multi_process_idx' = [multi_process_idx EXCEPT ![t] = q]
    BY <1>b, <1>c, <2>1, <2>2, ReplacedSlot
  <2> QED
    BY <1>b, <1>c, <2>3 DEF Exit
<1>2. \A p \in Pids : owner'[p] = IF p = c THEN NONE ELSE owner[p]
  BY <1>a, <1>b, <1>c
<1> HIDE DEF c, q
<1>3. (NoCrash /\ Schedule /\ RootsOK)'
  BY <1>a DEF NoCrash, Schedule, AllStarted, RootsOK
<1>4. (Parked /\ OwnedOK)'
  BY <1>a, <1>b, <1>c, <1>1, <1>2, <1>d DEF Parked, Parkable, OwnedOK
<1>5. SlotsOK'
  <2>1. ASSUME NEW s \in Slots, s < num_multiprocess
        PROVE  owner'[s] = s
    <3>1. owner[s] = s /\ s # c
      BY <1>b, <1>d, <2>1, SizesAssumption DEF SlotsOK, Slots
    <3> QED
      BY <1>2, <3>1, Constants
  <2> QED
    BY <1>a, <1>b, <1>c, <1>d, <1>1, <1>2, <2>1 DEF SlotsOK, AllStarted
<1>6. (BootOK /\ RespawnOK)'
  BY <1>a, <1>b, <1>c, <1>d DEF BootOK, RespawnOK
<1>7. CallOK'
  <2>1. ASSUME NEW s \in Slots, s < num_multiprocess, s # t, Looking(s)
        PROVE  parent[s] = multi_process_idx[s] /\ owner'[root[s]] = s
    <3>1. parent[s] = multi_process_idx[s] /\ owner[root[s]] = s /\ root[s] \in Pids
      BY <1>d, <2>1 DEF CallOK, Looking, TypeInv, LocalsOK
    <3> QED
      BY <1>b, <1>2, <2>1, <3>1
  <2> QED
    BY <1>a, <1>b, <1>c, <1>d, <1>1, <2>1 DEF CallOK, Looking, Parkable
<1>8. (FoundOK /\ ClaimedOK /\ Context)'
  BY <1>a, <1>b, <1>c, <1>d, <1>1 DEF FoundOK, ClaimedOK, Context, Parkable
<1>9. RunningOK'
  BY <1>a, <1>b, <1>c, <1>2 DEF RunningOK, Ending, Beginning, c
<1>10. OneChainPerSlot'
  <2> SUFFICES ASSUME NEW p \in Pids, owner'[p] # NONE
               PROVE  IF p < MAX_MULTIPROCESS_NUM
                      THEN owner'[p] = p /\ PCB[p].parent = NONE
                      ELSE LET x == PCB[p].parent
                           IN /\ x = PCB[p].esp
                              /\ owner'[x] = owner'[p]
                              /\ \A r \in Pids \ {p} : owner'[r] # NONE => PCB[r].parent # x
                              /\ x # multi_process_idx'[owner'[p]]
    BY <1>a DEF OneChainPerSlot
  <2>1. p # c /\ owner'[p] = owner[p] /\ owner[p] # NONE
    BY <1>2
  <2>2. CASE p < MAX_MULTIPROCESS_NUM
    BY <2>1, <2>2 DEF OneChainPerSlot
  <2>3. CASE ~(p < MAX_MULTIPROCESS_NUM)
    <3> DEFINE x == PCB[p].parent
    <3>1. /\ x = PCB[p].esp /\ owner[x] = owner[p] /\ x \in Pids /\ owner[p] \in Slots
          /\ \A r \in Pids \ {p} : owner[r] # NONE => PCB[r].parent # x
          /\ x # multi_process_idx[owner[p]]
      BY <2>1, <2>3, SizesAssumption DEF OneChainPerSlot, OwnedOK, Pids
    <3> HIDE DEF x
    <3>2. x # c /\ x # q
      <4>1. owner[p] = t => x # c
        BY <1>b, <3>1
      <4> QED
        BY <1>b, <2>1, <3>1, <4>1 DEF x
    <3>3. owner'[x] = owner'[p]
      BY <1>2, <2>1, <3>1, <3>2
    <3>4. \A r \in Pids \ {p} : owner'[r] # NONE => PCB[r].parent # x
      BY <1>2, <3>1
    <3>5. x # multi_process_idx'[owner'[p]]
      BY <1>1, <2>1, <3>1, <3>2
    <3> QED
      BY <2>3, <3>1, <3>3, <3>4, <3>5 DEF x
  <2> QED
    BY <2>2, <2>3
<1> QED
  BY <1>3, <1>4, <1>5, <1>6, <1>7, <1>8, <1>9, <1>10 DEF Parts

\* A process that is no root shell has a parent to go back to.
LEMMA NeverNullParent ==
  ASSUME CoreInv, NEW t \in Slots
  PROVE  ~ExitNullParent(t)
<1> SUFFICES ASSUME ExitNullParent(t) PROVE FALSE
  OBVIOUS
<1> QED
  BY Exiting, Constants DEF ExitNullParent, At

LEMMA ReturnFromHaltCore ==
  ASSUME CoreInv, NEW t \in Slots, ReturnFromHalt(t)
  PROVE  Parts'
<1> USE DEF ReturnFromHalt, At, GoTo, slotVars, CoreInv
<1>0. /\ run = t /\ t < num_multiprocess /\ susp[t] = "none" /\ pc[t] = "returned"
      /\ pc \in [Threads -> Points] /\ kind \in [Threads -> Kinds] /\ t \in Threads
      /\ parent \in [Threads -> PidOrNone] /\ cur \in [Threads -> PidOrNone]
  BY RunStarted, Constants DEF TypeInv, TypeOK, CpuTypes, ProcTypes
<1>1. kind[t] = "call"
  BY <1>0 DEF BootOK, RespawnOK, Kinds
<1>2. (NoCrash /\ Schedule /\ OwnedOK /\ RootsOK /\ OneChainPerSlot)'
  BY DEF NoCrash, Schedule, AllStarted, OwnedOK, RootsOK, OneChainPerSlot
<1>3. (Parked /\ SlotsOK /\ CallOK /\ BootOK /\ RespawnOK)'
  BY <1>0, <1>1 DEF Parked, Parkable, SlotsOK, AllStarted, CallOK, BootOK, RespawnOK, Looking
<1>4. (FoundOK /\ ClaimedOK /\ Context /\ RunningOK)'
  BY <1>0, <1>1 DEF FoundOK, ClaimedOK, Context, RunningOK, Ending, Beginning, Parkable
<1> QED
  BY <1>2, <1>3, <1>4 DEF Parts

LEMMA ExecuteCore ==
  ASSUME CoreInv, NEW t \in Slots, Execute(t)
  PROVE  Parts'
<1> USE DEF Execute, At, GoTo, slotVars, cpuVars, procVars, CoreInv
<1>0. /\ run = t /\ t < num_multiprocess /\ susp[t] = "none" /\ pc[t] = "user"
      /\ pc \in [Threads -> Points] /\ kind[t] \in Kinds /\ t \in Threads
  BY RunStarted, Constants DEF TypeInv, TypeOK, CpuTypes
<1>1. kind[t] = "call"
  BY <1>0 DEF BootOK, RespawnOK, Kinds
<1>2. (NoCrash /\ Schedule /\ OwnedOK /\ RootsOK /\ OneChainPerSlot)'
  BY DEF NoCrash, Schedule, AllStarted, OwnedOK, RootsOK, OneChainPerSlot
<1>3. (Parked /\ SlotsOK /\ CallOK /\ BootOK /\ RespawnOK)'
  BY <1>0, <1>1 DEF Parked, Parkable, SlotsOK, AllStarted, CallOK, BootOK, RespawnOK, Looking
<1>4. (FoundOK /\ ClaimedOK /\ Context /\ RunningOK)'
  BY <1>0, <1>1 DEF FoundOK, ClaimedOK, Context, RunningOK, Ending, Beginning, Parkable
<1> QED
  BY <1>2, <1>3, <1>4 DEF Parts

LEMMA HaltWrapperCore ==
  ASSUME CoreInv, NEW t \in Slots, NEW v, HaltWrapper(t, v)
  PROVE  Parts'
<1> USE DEF HaltWrapper, At, GoTo, slotVars, cpuVars, CoreInv
<1>0. /\ run = t /\ t < num_multiprocess /\ susp[t] = "none" /\ pc[t] = "user"
      /\ pc \in [Threads -> Points] /\ kind[t] \in Kinds /\ t \in Threads
      /\ cur \in [Threads -> PidOrNone]
  BY RunStarted, Constants DEF TypeInv, TypeOK, CpuTypes, ProcTypes
<1>1. kind[t] = "call" /\ current_process_pid = multi_process_idx[t]
  BY <1>0 DEF BootOK, RespawnOK, Kinds, Context
<1>2. (NoCrash /\ Schedule /\ OwnedOK /\ RootsOK /\ OneChainPerSlot)'
  BY DEF NoCrash, Schedule, AllStarted, OwnedOK, RootsOK, OneChainPerSlot
<1>3. (Parked /\ SlotsOK /\ CallOK /\ BootOK /\ RespawnOK)'
  BY <1>0, <1>1 DEF Parked, Parkable, SlotsOK, AllStarted, CallOK, BootOK, RespawnOK, Looking
<1>4. (FoundOK /\ ClaimedOK /\ Context /\ RunningOK)'
  BY <1>0, <1>1 DEF FoundOK, ClaimedOK, Context, RunningOK, Ending, Beginning, Parkable
<1> QED
  BY <1>2, <1>3, <1>4 DEF Parts

LEMMA SysVidmapCore ==
  ASSUME CoreInv, NEW t \in Slots, SysVidmap(t)
  PROVE  Parts'
<1> USE DEF SysVidmap, slotVars, procVars, CoreInv
<1>1. (NoCrash /\ Schedule /\ Parked /\ OwnedOK /\ SlotsOK /\ RootsOK /\ OneChainPerSlot)'
  BY DEF NoCrash, Schedule, AllStarted, Parked, OwnedOK, SlotsOK, RootsOK, OneChainPerSlot
<1>2. (CallOK /\ BootOK /\ RespawnOK /\ FoundOK)'
  BY DEF CallOK, BootOK, RespawnOK, FoundOK, Looking
<1>3. (ClaimedOK /\ Context /\ RunningOK)'
  BY DEF ClaimedOK, Context, RunningOK, Ending, Beginning
<1> QED
  BY <1>1, <1>2, <1>3 DEF Parts

-----------------------------------------------------------------------------
LEMMA InitCore == Init => CoreInv
<1> SUFFICES ASSUME Init PROVE CoreInv
  OBVIOUS
<1>1. TypeInv /\ GateInv
  BY InitTypes, InitGate
<1>2. /\ num_multiprocess = 0 /\ current_multiprocess = MAX_MULTIPROCESS_NUM - 1
      /\ run = Boot /\ fate = "ok" /\ run \notin Slots /\ ~AllStarted
      /\ \A s \in Slots : ~(s < num_multiprocess) /\ susp[s] = "none"
      /\ \A p \in Pids : owner[p] = NONE /\ ~PCB[p].running /\ PCB[p].parent = NONE
  BY Constants, SizesAssumption
  DEF Init, SchedulerInit, ProcessesInit, Boot, Slots, AllStarted
<1>3. NoCrash /\ Schedule /\ Parked
  BY <1>2 DEF NoCrash, Schedule, Parked
<1>4. OwnedOK /\ SlotsOK /\ CallOK /\ BootOK /\ RespawnOK /\ FoundOK /\ ClaimedOK
  BY <1>2 DEF OwnedOK, SlotsOK, CallOK, BootOK, RespawnOK, FoundOK, ClaimedOK
<1>5. Context /\ RunningOK /\ RootsOK /\ OneChainPerSlot
  BY <1>2, Constants DEF Context, RunningOK, RootsOK, OneChainPerSlot
<1> QED
  BY <1>1, <1>3, <1>4, <1>5 DEF CoreInv

\* The thread that is interrupted, if it is not kernel.c's entry(), is at a
\* point where it can be parked.
LEMMA InterruptedParkable ==
  ASSUME CoreInv, SafePreemption, Interruptible, run \in Slots
  PROVE  kind[run] = "call" /\ pc[run] \in Parkable
<1>1. <<kind[run], pc[run]>> \in {"call"} \X (Parkable \cup {"idle"})
  BY DEF SafePreemption, Interruptible
<1>2. run < num_multiprocess
  BY RunStarted
<1>3. pc[run] # "idle"
  BY <1>2 DEF CoreInv, SlotsOK
<1> QED
  BY <1>1, <1>3

LEMMA StartShellCore ==
  ASSUME CoreInv, SafePreemption, StartShell, UNCHANGED procVars
  PROVE  Parts'
<1> USE DEF CoreInv
<1> DEFINE n == num_multiprocess
           new == [PCB |-> n, active_terminal_idx |-> n, saved_esp |-> NONE]
           saved == IF n > 0 THEN [all_process EXCEPT ![multi_process_idx[n - 1]].saved_esp = run]
                    ELSE all_process
<1>a. /\ n \in Slots /\ n \in Pids /\ n \in Threads /\ n # NONE /\ ~AllStarted
      /\ n > 0 => n - 1 \in Slots
      /\ run \in Threads /\ susp \in [Threads -> {"none", "pit", "first", "kbd"}]
      /\ kind \in [Threads -> Kinds] /\ pc \in [Threads -> Points]
      /\ multi_process_idx \in [Slots -> Pids]
      /\ all_process \in [Pids -> [PCB : PidOrNone, active_terminal_idx : Pids,
                                   saved_esp : Threads \cup {NONE}]]
  BY Constants, SizesAssumption
  DEF StartShell, AllStarted, TypeInv, TypeOK, SlotTypes, CpuTypes, Slots
<1>b. /\ num_multiprocess' = n + 1 /\ run' = n /\ current_process_pid' = n /\ current_term' = n
      /\ all_process' = [saved EXCEPT ![n] = new]
      /\ multi_process_idx' = [multi_process_idx EXCEPT ![n] = n]
      /\ kind' = [kind EXCEPT ![n] = "boot"] /\ pc' = [pc EXCEPT ![n] = "exec"]
      /\ susp' = [susp EXCEPT ![run] = "pit"]
      /\ UNCHANGED <<current_multiprocess, on_default_term, PCB, fate, parent, root, idx, cur,
                     prog, owner>>
  BY DEF StartShell, procVars
<1>c. /\ run \in Slots => kind[run] = "call" /\ pc[run] \in Parkable
      /\ IF n = 0 THEN run = Boot /\ run \notin Slots ELSE run = n - 1 /\ run \in Slots
      /\ run # n
  <2>1. Interruptible
    BY DEF StartShell
  <2> QED
    BY <1>a, <2>1, InterruptedParkable, SizesAssumption DEF Schedule, Boot, Slots
\* Nothing of the new slot is in use yet.
<1>d. owner[n] = NONE
  BY <1>a, SizesAssumption DEF OwnedOK, OneChainPerSlot, Slots
<1>e. \A s \in Slots : s < n => /\ s # n /\ kind[s] = "call" /\ pc[s] = "user" /\ pc[s] \in Parkable
                                /\ owner[s] = s /\ owner[multi_process_idx[s]] = s
                                /\ multi_process_idx[s] \in Pids /\ multi_process_idx[s] # n
  <2> SUFFICES ASSUME NEW s \in Slots, s < n
               PROVE  /\ s # n /\ kind[s] = "call" /\ pc[s] = "user" /\ pc[s] \in Parkable
                      /\ owner[s] = s /\ owner[multi_process_idx[s]] = s
                      /\ multi_process_idx[s] \in Pids /\ multi_process_idx[s] # n
    OBVIOUS
  <2>1. s # n /\ s # NONE /\ multi_process_idx[s] \in Pids
    BY <1>a, Constants DEF Slots
  <2>2. kind[s] = "call" /\ pc[s] \in Parkable
    BY <1>c DEF Parked
  <2> QED
    BY <1>a, <1>d, <2>1, <2>2 DEF SlotsOK
<1>f. \A s \in Slots : s < n + 1 <=> s < n \/ s = n
  BY <1>a DEF Slots
<1>g. \A s \in Slots : /\ multi_process_idx'[s] = IF s = n THEN n ELSE multi_process_idx[s]
                       /\ kind'[s] = IF s = n THEN "boot" ELSE kind[s]
                       /\ pc'[s] = IF s = n THEN "exec" ELSE pc[s]
  BY <1>a, <1>b, Constants
<1>h. /\ all_process'[n] = new
      /\ \A p \in Pids : p # n => /\ all_process'[p].PCB = all_process[p].PCB
                                  /\ all_process'[p].active_terminal_idx
                                       = all_process[p].active_terminal_idx
      /\ \A s \in Slots : s < n => all_process'[multi_process_idx[s]].saved_esp = s
  <2>1. n > 0 => multi_process_idx[n - 1] \in Pids /\ multi_process_idx[n - 1] # n
    BY <1>a, <1>e DEF Slots
  <2>2. saved \in [Pids -> [PCB : PidOrNone, active_terminal_idx : Pids,
                            saved_esp : Threads \cup {NONE}]]
    BY <1>a, <2>1
  <2>3. \A p \in Pids : /\ saved[p].PCB = all_process[p].PCB
                        /\ saved[p].active_terminal_idx = all_process[p].active_terminal_idx
    BY <1>a, <2>1
  <2>4. \A s \in Slots : s < n => saved[multi_process_idx[s]].saved_esp = s
    <3> SUFFICES ASSUME NEW s \in Slots, s < n
                 PROVE  saved[multi_process_idx[s]].saved_esp = s
      OBVIOUS
    <3>1. n > 0 /\ n # 0 /\ multi_process_idx[s] \in Pids
      BY <1>a, <1>e DEF Slots
    <3>2. CASE s = n - 1
      BY <1>a, <1>c, <3>1, <3>2
    <3>3. CASE s # n - 1
      <4>1. all_process[multi_process_idx[s]].saved_esp = s
        BY <1>c, <3>1, <3>3 DEF Parked
      <4>2. multi_process_idx[s] # multi_process_idx[n - 1]
        BY <1>a, <1>c, <1>e, <3>1, <3>3 DEF Slots
      <4> QED
        BY <1>a, <3>1, <4>1, <4>2
    <3> QED
      BY <3>2, <3>3
  <2> HIDE DEF saved, new
  <2> QED
    BY <1>a, <1>b, <1>e, <2>2, <2>3, <2>4
<1>i. new.PCB = n /\ new.active_terminal_idx = n
  OBVIOUS
<1> HIDE DEF new, saved
<1>1. (NoCrash /\ RootsOK)'
  BY <1>b DEF NoCrash, RootsOK
<1>2. Schedule'
  <2>1. n \in 0 .. MAX_MULTIPROCESS_NUM - 1
    BY <1>a DEF Slots
  <2>2. current_multiprocess = MAX_MULTIPROCESS_NUM - 1
    BY <1>a DEF Schedule
  <2> QED
    BY <1>b, <2>1, <2>2, SizesAssumption DEF Schedule, AllStarted
<1>3. Parked'
  <2>1. \A s \in Slots : susp'[s] # "none" => s < n
    BY <1>a, <1>b, <1>c, Constants DEF Parked, Slots
  <2> QED
    BY <1>b, <1>e, <1>f, <1>g, <1>h, <2>1 DEF Parked
<1>4. OwnedOK'
  BY <1>a, <1>b, <1>d, <1>f, <1>h DEF OwnedOK
<1>5. SlotsOK'
  BY <1>b, <1>e, <1>f, <1>g DEF SlotsOK
<1>6. (CallOK /\ RespawnOK)'
  BY <1>b, <1>e, <1>f, <1>g DEF CallOK, RespawnOK, Looking, Parkable
<1>7. BootOK'
  BY <1>a, <1>b, <1>d, <1>e, <1>f, <1>g, <1>h, <1>i DEF BootOK, Looking, Slots
<1>8. (FoundOK /\ ClaimedOK)'
  BY <1>b, <1>e, <1>f, <1>g DEF FoundOK, ClaimedOK
<1>9. Context'
  BY <1>a, <1>b, <1>g DEF Context, Parkable
<1>10. RunningOK'
  <2>1. run \in Slots => \A p \in Pids : ~Ending(run, p) /\ ~Beginning(run, p)
    BY <1>c DEF Ending, Beginning, Parkable
  <2>2. kind'[n] = "boot" /\ pc'[n] = "exec"
    BY <1>a, <1>g
  <2>3. \A p \in Pids : PCB[p].running <=> owner[p] # NONE
    BY <2>1 DEF RunningOK
  <2> QED
    BY <1>a, <1>b, <2>2, <2>3 DEF RunningOK, Ending, Beginning
<1>11. OneChainPerSlot'
  <2>1. \A p \in Pids : owner[p] # NONE => owner[p] \in Slots /\ owner[p] # n
    BY <1>a DEF OwnedOK, Slots
  <2> QED
    BY <1>a, <1>b, <1>g, <2>1 DEF OneChainPerSlot
<1> QED
  BY <1>1, <1>2, <1>3, <1>4, <1>5, <1>6, <1>7, <1>8, <1>9, <1>10, <1>11 DEF Parts

\* process_context_switch from the running slot to any slot finds the process
\* of that slot parked in its record.
LEMMA SwitchCore ==
  ASSUME CoreInv, AllStarted, run \in Slots, kind[run] = "call", pc[run] \in Parkable,
         NEW to \in Slots, NEW term, NEW frame, NEW svc,
         ContextSwitch(run, to, term, frame, svc),
         current_multiprocess' = to, on_default_term' \/ current_term' = to,
         UNCHANGED <<num_multiprocess, multi_process_idx, PCB, kind, pc, procVars>>
  PROVE  Parts'
<1> USE DEF CoreInv
<1> DEFINE mpi == multi_process_idx
           saved == [all_process EXCEPT ![mpi[run]].saved_esp = run]
<1>a. /\ num_multiprocess = MAX_MULTIPROCESS_NUM /\ num_multiprocess > 0
      /\ \A s \in Slots : s < num_multiprocess /\ s \in Threads /\ s # NONE
      /\ mpi \in [Slots -> Pids] /\ susp \in [Threads -> {"none", "pit", "first", "kbd"}]
      /\ all_process \in [Pids -> [PCB : PidOrNone, active_terminal_idx : Pids,
                                   saved_esp : Threads \cup {NONE}]]
  BY Constants, SizesAssumption DEF AllStarted, TypeInv, TypeOK, SlotTypes, CpuTypes, Slots
\* Every slot runs a program, and owns the process it runs.
<1>b. \A s \in Slots : /\ kind[s] = "call" /\ pc[s] \in Parkable
                       /\ mpi[s] \in Pids /\ owner[mpi[s]] = s
                       /\ all_process[mpi[s]].PCB = mpi[s] /\ PCB[mpi[s]].pid = mpi[s]
  <2> SUFFICES ASSUME NEW s \in Slots
               PROVE  /\ kind[s] = "call" /\ pc[s] \in Parkable
                      /\ mpi[s] \in Pids /\ owner[mpi[s]] = s
                      /\ all_process[mpi[s]].PCB = mpi[s] /\ PCB[mpi[s]].pid = mpi[s]
    OBVIOUS
  <2>1. kind[s] = "call" /\ pc[s] \in Parkable
    BY <1>a DEF Parked
  <2>2. mpi[s] \in Pids /\ owner[mpi[s]] = s
    BY <1>a, <2>1 DEF SlotsOK
  <2> QED
    BY <1>a, <2>1, <2>2 DEF OwnedOK
<1>c. \A s, r \in Slots : mpi[s] = mpi[r] => s = r
  BY <1>b
<1>d. /\ saved \in [Pids -> [PCB : PidOrNone, active_terminal_idx : Pids,
                             saved_esp : Threads \cup {NONE}]]
      /\ \A p \in Pids : /\ saved[p].PCB = all_process[p].PCB
                         /\ saved[p].active_terminal_idx = all_process[p].active_terminal_idx
      /\ saved[mpi[run]].saved_esp = run
      /\ \A p \in Pids : p # mpi[run] => saved[p] = all_process[p]
  BY <1>a, <1>b
<1>e. \A s \in Slots : saved[mpi[s]].saved_esp = s
  BY <1>a, <1>b, <1>c, <1>d DEF Parked
<1>f. ContextSwitch(run, to, term, frame, svc) =>
        /\ current_process_pid' = mpi[to] /\ pde' = mpi[to] /\ esp0' = mpi[to]
        /\ run' = to /\ susp' = [susp EXCEPT ![run] = frame] /\ fate' = fate
        /\ all_process' = [saved EXCEPT ![mpi[to]].saved_esp = NONE]
  <2>1. saved[mpi[to]].PCB # NONE /\ saved[mpi[to]].saved_esp # NONE
    BY <1>a, <1>b, <1>d, <1>e, Constants
  <2> QED
    BY <1>b, <1>e, <2>1 DEF ContextSwitch, RecordOf
<1>g. /\ \A p \in Pids : /\ all_process'[p].PCB = all_process[p].PCB
                         /\ all_process'[p].active_terminal_idx
                              = all_process[p].active_terminal_idx
      /\ \A s \in Slots : s # to => all_process'[mpi[s]].saved_esp = s
  <2> HIDE DEF saved
  <2> QED
    BY <1>b, <1>c, <1>d, <1>e, <1>f
<1> HIDE DEF saved
<1>1. (NoCrash /\ RootsOK)'
  BY <1>f DEF NoCrash, RootsOK
<1>2. Schedule'
  BY <1>a, <1>f DEF Schedule, AllStarted
<1>3. Parked'
  BY <1>a, <1>b, <1>f, <1>g DEF Parked
<1>4. OwnedOK'
  BY <1>g DEF procVars, OwnedOK
<1>5. (SlotsOK /\ CallOK /\ RespawnOK /\ FoundOK)'
  BY DEF procVars, SlotsOK, AllStarted, CallOK, RespawnOK, FoundOK, Looking
<1>6. (BootOK /\ ClaimedOK)'
  BY <1>b DEF BootOK, ClaimedOK, Parkable
<1>7. Context'
  BY <1>b, <1>f DEF Context, Parkable
<1>8. RunningOK'
  <2>1. \A s \in Slots, p \in Pids : ~Ending(s, p) /\ ~Beginning(s, p)
    BY <1>b DEF Ending, Beginning, Parkable
  <2>2. \A p \in Pids : PCB[p].running <=> owner[p] # NONE
    BY <2>1 DEF RunningOK
  <2> QED
    BY <1>b, <1>f, <2>2 DEF procVars, RunningOK, Ending, Beginning, Parkable
<1>9. OneChainPerSlot'
  BY DEF procVars, OneChainPerSlot
<1> QED
  BY <1>1, <1>2, <1>3, <1>4, <1>5, <1>6, <1>7, <1>8, <1>9 DEF Parts

\* The slot that is current is the one that runs, at a point to park it.
LEMMA CurrentSlot ==
  ASSUME CoreInv, AllStarted
  PROVE  /\ run = current_multiprocess /\ run \in Slots
         /\ (current_multiprocess + 1) % num_multiprocess \in Slots
BY RotationStays DEF CoreInv, Schedule, AllStarted, TypeInv, TypeOK, SlotTypes

LEMMA NextSlotCore ==
  ASSUME CoreInv, AllStarted, kind[run] = "call", pc[run] \in Parkable, NEW svc, NextSlot(svc),
         UNCHANGED <<num_multiprocess, multi_process_idx, PCB, kind, pc, procVars>>
  PROVE  Parts'
<1> DEFINE next == (current_multiprocess + 1) % num_multiprocess
<1>1. run = current_multiprocess /\ run \in Slots /\ next \in Slots
  BY CurrentSlot
<1>2. /\ ContextSwitch(run, next, current_term, "pit", svc)
      /\ current_multiprocess' = next /\ on_default_term'
  BY <1>1 DEF NextSlot
<1> HIDE DEF next
<1> QED
  BY <1>1, <1>2, SwitchCore

LEMMA SwitchTerminalCore ==
  ASSUME CoreInv, AllStarted, kind[run] = "call", pc[run] \in Parkable,
         current_term = current_multiprocess, NEW new \in Slots, NEW frame, NEW svc,
         SwitchTerminal(new, frame, svc),
         UNCHANGED <<num_multiprocess, multi_process_idx, PCB, kind, pc, procVars>>
  PROVE  Parts'
<1>1. run = current_term /\ run \in Slots
  BY CurrentSlot
<1>2. /\ ContextSwitch(run, new, new, frame, svc)
      /\ current_multiprocess' = new /\ current_term' = new
  BY <1>1 DEF SwitchTerminal
<1> QED
  BY <1>1, <1>2, SwitchCore

LEMMA SchedulerCore ==
  ASSUME CoreInv, SafePreemption, ~BootKeys, SchedulerNext, UNCHANGED procVars
  PROVE  Parts'
<1>1. CASE StartShell
  BY <1>1, StartShellCore
<1>2. CASE Timer
  <2>1. /\ Interruptible /\ AllStarted
        /\ UNCHANGED <<num_multiprocess, multi_process_idx, PCB, kind, pc>>
    BY <1>2 DEF Timer, AllStarted
  <2>2. kind[run] = "call" /\ pc[run] \in Parkable
    BY <2>1, CurrentSlot, InterruptedParkable
  <2>3. CASE ~on_default_term /\ current_term # 0
    <3>1. SwitchTerminal(0, "first", inService \cup {PIT_IRQ}) /\ 0 \in Slots
      BY <1>2, <2>3, Constants DEF Timer
    <3>2. current_term = current_multiprocess
      BY <2>1, <2>3 DEF CoreInv, Schedule
    <3> QED
      BY <2>1, <2>2, <3>1, <3>2, SwitchTerminalCore
  <2>4. CASE ~(~on_default_term /\ current_term # 0)
    <3>1. NextSlot(inService \cup {PIT_IRQ})
      BY <1>2, <2>4 DEF Timer
    <3> QED
      BY <2>1, <2>2, <3>1, NextSlotCore
  <2> QED
    BY <2>3, <2>4
<1>3. ASSUME NEW new \in Slots, KeySwitch(new) PROVE Parts'
  <2>1. /\ Interruptible /\ AllStarted /\ SwitchTerminal(new, "kbd", inService \cup {KEYBOARD_IRQ})
        /\ UNCHANGED <<num_multiprocess, multi_process_idx, PCB, kind, pc>>
        /\ ~keyboard_disabled
    BY <1>3 DEF KeySwitch, AllStarted
  <2>2. kind[run] = "call" /\ pc[run] \in Parkable
    BY <2>1, CurrentSlot, InterruptedParkable
  <2>3. current_term = current_multiprocess
    BY <2>1 DEF Interruptible, CoreInv, GateInv, KeyboardGate
  <2> QED
    BY <2>1, <2>2, <2>3, SwitchTerminalCore
<1>4. CASE ResumeFrame
  <2> USE DEF CoreInv
  <2>1. susp' = [susp EXCEPT ![run] = "none"] /\ susp \in [Threads -> {"none", "pit", "first", "kbd"}]
    BY <1>4 DEF ResumeFrame, TypeInv, TypeOK, CpuTypes
  <2>2. (NoCrash /\ Schedule /\ Parked /\ OwnedOK /\ SlotsOK /\ RootsOK /\ OneChainPerSlot)'
    BY <1>4, <2>1, Constants
    DEF ResumeFrame, slotVars, procVars, NoCrash, Schedule, AllStarted, Parked, OwnedOK, SlotsOK,
        RootsOK, OneChainPerSlot
  <2>3. (CallOK /\ BootOK /\ RespawnOK /\ FoundOK)'
    BY <1>4 DEF ResumeFrame, slotVars, procVars, CallOK, BootOK, RespawnOK, FoundOK, Looking
  <2>4. (ClaimedOK /\ Context /\ RunningOK)'
    BY <1>4 DEF ResumeFrame, slotVars, procVars, ClaimedOK, Context, RunningOK, Ending, Beginning
  <2> QED
    BY <2>2, <2>3, <2>4 DEF Parts
<1>5. CASE ResumeFirst
  <2>1. AllStarted
    BY <1>5 DEF ResumeFirst, CoreInv, TypeInv, TypeOK, CpuTypes, FirstOK
  <2>2. kind[run] = "call" /\ pc[run] \in Parkable
    BY <1>5, <2>1, CurrentSlot DEF ResumeFirst, CoreInv, Parked
  <2> QED
    BY <1>5, <2>1, <2>2, NextSlotCore DEF ResumeFirst
<1> QED
  BY <1>1, <1>2, <1>3, <1>4, <1>5 DEF SchedulerNext

LEMMA ThreadCore ==
  ASSUME CoreInv, NEW t \in Slots, ThreadStep(t) \/ UserStep(t)
  PROVE  Parts'
<1>1. CASE ThreadStep(t)
  BY <1>1, ExecParentCore, ExecWalkCore, ExecFindCore, ExecFullCore, ExecClaimCore, ExecLoadCore,
     HaltRootCore, RespawnCore, HaltChildCore, ExitCore, NeverNullParent, ReturnFromHaltCore
  DEF ThreadStep
<1>2. CASE UserStep(t)
  BY <1>2, ExecuteCore, HaltWrapperCore, SysVidmapCore DEF UserStep
<1> QED
  BY <1>1, <1>2

LEMMA NextCore == ~BootKeys /\ SafePreemption /\ CoreInv /\ [Next]_vars => CoreInv'
<1> SUFFICES ASSUME ~BootKeys, SafePreemption, CoreInv, [Next]_vars PROVE CoreInv'
  OBVIOUS
<1>1. TypeInv' /\ GateInv'
  BY NextTypes, NextGate DEF CoreInv
<1>2. CASE Next
  <2>1. Parts'
    BY <1>2, SchedulerCore, ThreadCore DEF Next
  <2> QED
    BY <1>1, <2>1 DEF Parts, CoreInv
<1>3. CASE UNCHANGED vars
  <2> USE DEF vars, slotVars, cpuVars, procVars, CoreInv
  <2>1. (NoCrash /\ Schedule /\ Parked /\ OwnedOK /\ SlotsOK /\ RootsOK /\ OneChainPerSlot)'
    BY <1>3 DEF NoCrash, Schedule, AllStarted, Parked, OwnedOK, SlotsOK, RootsOK, OneChainPerSlot
  <2>2. (CallOK /\ BootOK /\ RespawnOK /\ FoundOK)'
    BY <1>3 DEF CallOK, BootOK, RespawnOK, FoundOK, Looking
  <2>3. (ClaimedOK /\ Context /\ RunningOK)'
    BY <1>3 DEF ClaimedOK, Context, RunningOK, Ending, Beginning
  <2> QED
    BY <1>1, <2>1, <2>2, <2>3
<1> QED
  BY <1>2, <1>3

-----------------------------------------------------------------------------
\* The entry() of kernel.c waits in its idle loop and never in user code.
BootIdle == pc[Boot] = "idle"

LEMMA NextIdle == TypeInv /\ BootIdle /\ [Next]_vars => BootIdle'
<1> SUFFICES ASSUME TypeInv, BootIdle, [Next]_vars PROVE BootIdle'
  OBVIOUS
<1>1. Boot \notin Slots /\ Boot \in Threads /\ pc \in [Threads -> Points]
  BY SizesAssumption DEF Boot, Slots, Threads, TypeInv, TypeOK, CpuTypes
<1>2. pc' = pc \/ \E t \in Slots, x \in Points : pc' = [pc EXCEPT ![t] = x]
  <2>1. CASE StartShell
    <3>1. num_multiprocess \in Slots
      BY <2>1, SizesAssumption DEF StartShell, TypeInv, TypeOK, SlotTypes, Slots
    <3> QED
      BY <2>1, <3>1 DEF StartShell, Points
  <2>2. CASE SchedulerNext /\ ~StartShell
    BY <2>2 DEF SchedulerNext, Timer, KeySwitch, ResumeFrame, ResumeFirst
  <2>3. ASSUME NEW t \in Slots, ThreadStep(t) \/ UserStep(t)
        PROVE  pc' = pc \/ \E x \in Points : pc' = [pc EXCEPT ![t] = x]
    <3>1. ASSUME NEW s, HaltWrapper(t, s) PROVE pc' = [pc EXCEPT ![t] = "halt"]
      BY <3>1 DEF HaltWrapper, GoTo
    <3> QED
      BY <2>3, <3>1
      DEF ThreadStep, UserStep, Execute, SysVidmap, ExecParent, ExecWalk, ExecFind, ExecFull,
          ExecClaim, ExecLoad, HaltRoot, Respawn, HaltChild, Exit, ExitNullParent,
          ReturnFromHalt, GoTo, Points
  <2>4. CASE UNCHANGED vars
    BY <2>4 DEF vars
  <2> QED
    BY <2>1, <2>2, <2>3, <2>4 DEF Next
<1> QED
  BY <1>1, <1>2 DEF BootIdle

\* With no vidmap call the video page follows the slot that runs.
VideoInv ==
  vidmap = IF run = Boot \/ current_term = run THEN SCREEN ELSE run

LEMMA NextVideo ==
  ~BootKeys /\ ~Vidmap /\ CoreInv /\ CoreInv' /\ VideoInv /\ [Next]_vars => VideoInv'
<1> SUFFICES ASSUME ~BootKeys, ~Vidmap, CoreInv, CoreInv', VideoInv, [Next]_vars PROVE VideoInv'
  OBVIOUS
<1>0. Boot \notin Slots
  BY SizesAssumption DEF Boot, Slots
<1>1. ASSUME NEW from, NEW to \in Slots, NEW term, NEW frame, NEW svc, AllStarted',
             ContextSwitch(from, to, term, frame, svc),
             current_multiprocess' = to, current_term' = term
      PROVE  VideoInv'
  <2>1. run' = to
    BY <1>1 DEF CoreInv, Schedule
  <2>2. vidmap' = IF term = to THEN SCREEN ELSE to
    BY <1>1 DEF ContextSwitch, VideoPage
  <2> QED
    BY <1>0, <1>1, <2>1, <2>2 DEF VideoInv
<1>2. ASSUME NEW svc, NextSlot(svc), AllStarted, AllStarted' PROVE VideoInv'
  <2> DEFINE next == (current_multiprocess + 1) % num_multiprocess
  <2>1. next \in Slots
    BY <1>2, CurrentSlot
  <2>2. /\ ContextSwitch(current_multiprocess, next, current_term, "pit", svc)
        /\ current_multiprocess' = next /\ current_term' = current_term
    BY <1>2 DEF NextSlot
  <2> HIDE DEF next
  <2> QED
    BY <1>1, <1>2, <2>1, <2>2
<1>3. ASSUME NEW new \in Slots, NEW frame, NEW svc, SwitchTerminal(new, frame, svc), AllStarted'
      PROVE  VideoInv'
  BY <1>1, <1>3 DEF SwitchTerminal
<1>4. CASE StartShell
  <2>1. vidmap = SCREEN
    <3>1. ~AllStarted
      BY <1>4 DEF StartShell, AllStarted
    <3> QED
      BY <3>1, SizesAssumption
      DEF VideoInv, CoreInv, GateInv, StartingUp, Schedule, TypeInv, TypeOK, SlotTypes, AllStarted
  <2> QED
    BY <1>4, <2>1 DEF StartShell, VideoInv
<1>5. CASE Timer
  <2>1. AllStarted /\ AllStarted'
    BY <1>5 DEF Timer, AllStarted
  <2>2. 0 \in Slots
    BY Constants
  <2> QED
    BY <1>2, <1>3, <1>5, <2>1, <2>2 DEF Timer
<1>6. ASSUME NEW new \in Slots, KeySwitch(new) PROVE VideoInv'
  <2>1. AllStarted'
    BY <1>6 DEF KeySwitch, AllStarted
  <2> QED
    BY <1>3, <1>6, <2>1 DEF KeySwitch
<1>7. CASE ResumeFrame
  BY <1>7 DEF ResumeFrame, slotVars, VideoInv
<1>8. CASE ResumeFirst
  <2>1. AllStarted /\ AllStarted'
    BY <1>8 DEF ResumeFirst, CoreInv, TypeInv, TypeOK, CpuTypes, FirstOK, AllStarted
  <2> QED
    BY <1>2, <1>8, <2>1 DEF ResumeFirst
<1>9. ASSUME NEW t \in Slots, ThreadStep(t) \/ UserStep(t) PROVE VideoInv'
  <2>1. UNCHANGED <<current_term, run>>
    BY <1>9, ThreadSlots
  <2>2. vidmap' = vidmap
    <3>1. ASSUME NEW s, HaltWrapper(t, s) PROVE vidmap' = vidmap
      BY <3>1 DEF HaltWrapper, cpuVars
    <3> QED
      BY <1>9, <3>1
      DEF ThreadStep, UserStep, Execute, SysVidmap, ExecParent, ExecWalk, ExecFind, ExecFull,
          ExecClaim, ExecLoad, HaltRoot, Respawn, HaltChild, Exit, ExitNullParent,
          ReturnFromHalt, cpuVars
  <2> QED
    BY <2>1, <2>2 DEF VideoInv
<1>10. CASE UNCHANGED vars
  BY <1>10 DEF vars, slotVars, cpuVars, VideoInv
<1> QED
  BY <1>4, <1>5, <1>6, <1>7, <1>8, <1>9, <1>10 DEF Next, SchedulerNext

-----------------------------------------------------------------------------
\* The kernel never follows a NULL pointer or a stack pointer that leads to no
\* live frame, and never loads a program over one that is still in use.
THEOREM NoCrashCorrect ==
  ASSUME ~BootKeys, SafePreemption
  PROVE  Spec => []NoCrash
<1>1. CoreInv => NoCrash
  BY DEF CoreInv
<1>2. CoreInv /\ [Next]_vars => CoreInv'
  BY NextCore
<1> QED
  BY InitCore, <1>1, <1>2, PTL DEF Spec

\* The interrupted thread is the scheduled one, and every other slot is parked
\* in the all_process[] entry of the process it runs.
THEOREM ParkedCorrect ==
  ASSUME ~BootKeys, SafePreemption
  PROVE  Spec => []ParkedInOwnRecord
<1>1. CoreInv => ParkedInOwnRecord
  <2> SUFFICES ASSUME CoreInv, AllStarted
               PROVE  /\ run = current_multiprocess
                      /\ \A s \in Slots \ {run} :
                           all_process[multi_process_idx[s]] =
                             [PCB |-> multi_process_idx[s], active_terminal_idx |-> s,
                              saved_esp |-> s]
    BY DEF ParkedInOwnRecord
  <2>1. run = current_multiprocess
    BY CurrentSlot
  <2>2. ASSUME NEW s \in Slots \ {run}
        PROVE  all_process[multi_process_idx[s]] =
                 [PCB |-> multi_process_idx[s], active_terminal_idx |-> s, saved_esp |-> s]
    <3>1. s < num_multiprocess /\ s # NONE /\ multi_process_idx[s] \in Pids
      BY Constants, SizesAssumption DEF AllStarted, Slots, CoreInv, TypeInv, TypeOK, SlotTypes
    <3>2. kind[s] = "call" /\ all_process[multi_process_idx[s]].saved_esp = s
      BY <2>2, <3>1 DEF CoreInv, Parked
    <3>3. owner[multi_process_idx[s]] = s
      BY <3>1, <3>2 DEF CoreInv, SlotsOK
    <3>4. /\ all_process[multi_process_idx[s]].PCB = multi_process_idx[s]
          /\ all_process[multi_process_idx[s]].active_terminal_idx = s
      BY <3>1, <3>3 DEF CoreInv, OwnedOK
    <3> QED
      BY <3>1, <3>2, <3>4 DEF CoreInv, TypeInv, TypeOK, SlotTypes
  <2> QED
    BY <2>1, <2>2
<1>2. CoreInv /\ [Next]_vars => CoreInv'
  BY NextCore
<1> QED
  BY InitCore, <1>1, <1>2, PTL DEF Spec

\* A PCB is marked running exactly while a thread is on its stack, apart from
\* the claim that is being made and the halt that is being carried out.
THEOREM RunningCorrect ==
  ASSUME ~BootKeys, SafePreemption
  PROVE  Spec => []RunningIffOwned
<1>1. CoreInv => RunningIffOwned
  <2> SUFFICES ASSUME CoreInv, NEW p \in Pids, PCB[p].running # (owner[p] # NONE)
               PROVE  \E t \in Slots :
                        \/ PCB[p].running /\ pc[t] = "claimed" /\ idx[t] = p
                        \/ ~PCB[p].running /\ pc[t] \notin {"user", "halt", "returned"}
                                           /\ cur[t] = p
    BY DEF RunningIffOwned
  <2>0. PCB[p].running \in BOOLEAN
    BY DEF CoreInv, TypeInv, TypeOK, SlotTypes
  <2>a. PCB[p].running <=> ~(owner[p] # NONE)
    BY <2>0
  <2>1. run \in Slots /\ (Ending(run, p) \/ Beginning(run, p))
    BY <2>a DEF CoreInv, RunningOK
  <2>2. run < num_multiprocess
    BY <2>1, RunStarted
  <2>3. CASE PCB[p].running
    <3>1. Beginning(run, p)
      BY <2>3 DEF CoreInv, RunningOK
    <3> QED
      BY <2>1, <2>3, <3>1 DEF Beginning
  <2>4. CASE ~PCB[p].running
    <3>1. Ending(run, p)
      BY <2>a, <2>4 DEF CoreInv, RunningOK
    <3> QED
      BY <2>1, <2>2, <2>4, <3>1 DEF Ending, CoreInv, RespawnOK
  <2> QED
    BY <2>3, <2>4
<1>2. CoreInv /\ [Next]_vars => CoreInv'
  BY NextCore
<1> QED
  BY InitCore, <1>1, <1>2, PTL DEF Spec

\* The processes of a slot form one chain from its root shell to the process
\* it runs, and each returns to the one that started it.
THEOREM ChainsCorrect ==
  ASSUME ~BootKeys, SafePreemption
  PROVE  Spec => []OneChainPerSlot
<1>1. CoreInv => OneChainPerSlot
  BY DEF CoreInv
<1>2. CoreInv /\ [Next]_vars => CoreInv'
  BY NextCore
<1> QED
  BY InitCore, <1>1, <1>2, PTL DEF Spec

\* Whenever user code runs, the global, the page directory, the TSS and the
\* scheduler's table agree on the process it belongs to.
THEOREM UserContextCorrect ==
  ASSUME ~BootKeys, SafePreemption
  PROVE  Spec => []UserContext
<1> DEFINE Inv == CoreInv /\ BootIdle
<1>1. Init => Inv
  <2>1. Init => BootIdle
    BY SizesAssumption DEF Init, ProcessesInit, BootIdle, Boot, Threads
  <2> QED
    BY <2>1, InitCore
<1>2. Inv /\ [Next]_vars => Inv'
  BY NextCore, NextIdle DEF CoreInv
<1>3. Inv => UserContext
  <2> SUFFICES ASSUME CoreInv, BootIdle, pc[run] = "user"
               PROVE  {current_process_pid, pde, esp0, multi_process_idx[run]} = {prog[run]}
    BY DEF UserContext
  <2>1. run \in Slots
    BY SizesAssumption DEF BootIdle, CoreInv, TypeInv, TypeOK, CpuTypes, Threads, Slots, Boot
  <2>2. run < num_multiprocess /\ kind[run] \in Kinds
    BY <2>1, RunStarted, Constants DEF CoreInv, TypeInv, TypeOK, CpuTypes
  <2>3. kind[run] = "call"
    BY <2>1, <2>2 DEF CoreInv, BootOK, RespawnOK, Kinds
  <2>4. prog[run] = multi_process_idx[run]
    BY <2>1, <2>2, <2>3 DEF CoreInv, SlotsOK
  <2>5. /\ current_process_pid = multi_process_idx[run]
        /\ pde = multi_process_idx[run] /\ esp0 = multi_process_idx[run]
    BY <2>1, <2>3 DEF CoreInv, Context, Parkable
  <2> QED
    BY <2>4, <2>5
<1> QED
  BY <1>1, <1>2, <1>3, PTL DEF Spec

\* User code always sees its own terminal through the video page: the screen
\* if it is on display, its backup buffer otherwise.
THEOREM VideoCorrect ==
  ASSUME ~BootKeys, SafePreemption, ~Vidmap
  PROVE  Spec => []VideoRouted
<1> DEFINE Inv == CoreInv /\ VideoInv
<1>1. Init => Inv
  <2>1. Init => VideoInv
    BY DEF Init, SchedulerInit, VideoInv
  <2> QED
    BY <2>1, InitCore
<1>2. Inv /\ [Next]_vars => Inv'
  BY NextCore, NextVideo
<1>3. Inv => VideoRouted
  <2> SUFFICES ASSUME CoreInv, VideoInv, AllStarted
               PROVE  vidmap = IF current_term = run THEN SCREEN ELSE run
    BY DEF VideoRouted
  <2>1. run # Boot
    BY CurrentSlot, SizesAssumption DEF Slots, Boot
  <2> QED
    BY <2>1 DEF VideoInv
<1> QED
  BY <1>1, <1>2, <1>3, PTL DEF Spec

-----------------------------------------------------------------------------
\* From the beginning of a halt to the return of the parent's execute, while
\* error_return_value is pending, nothing is interrupted.
StatusPreemption == PreemptAt \subseteq {"call"} \X {"user", "exec", "walk", "idle"}

Pending == {"halt", "respawn", "exiting", "returned"}

\* error_return_value belongs to the thread that runs: only that one can be
\* inside sys_halt, and the exception flag is set only for it.
StatusInv ==
  /\ CoreInv
  /\ \A s \in Slots : pc[s] \in Pending => s = run
  /\ \A s \in Slots : susp[s] # "none" => pc[s] \notin Pending
  /\ error_return_value = HALT_EXCEPTION =>
       run \in Slots /\ pc[run] \in Pending /\ status[run] = HALT_EXCEPTION
  /\ run \in Slots /\ pc[run] \in {"halt", "exiting"} /\ status[run] = HALT_EXCEPTION =>
       error_return_value = HALT_EXCEPTION
  /\ run \in Slots /\ pc[run] = "returned" =>
       error_return_value = IF status[run] = HALT_EXCEPTION THEN HALT_EXCEPTION
                            ELSE status[run] % 256

LEMMA InitStatus == Init => StatusInv
<1> SUFFICES ASSUME Init PROVE StatusInv
  OBVIOUS
<1>1. /\ CoreInv /\ run \notin Slots /\ error_return_value # HALT_EXCEPTION
      /\ \A s \in Slots : pc[s] = "idle"
  BY InitCore, Constants, SizesAssumption
  DEF Init, SchedulerInit, ProcessesInit, Boot, Slots, HALT_EXCEPTION
<1> QED
  BY <1>1 DEF StatusInv, Pending

\* A switch finds nothing pending, and so leaves nothing pending.
LEMMA SchedulerStatus ==
  ASSUME StatusPreemption, StatusInv, CoreInv', SchedulerNext, UNCHANGED procVars
  PROVE  StatusInv'
<1> USE DEF StatusInv
<1>0. /\ run \in Threads /\ susp \in [Threads -> {"none", "pit", "first", "kbd"}]
      /\ pc \in [Threads -> Points] /\ Slots \subseteq Threads
      /\ UNCHANGED <<status, error_return_value>>
  BY Constants DEF CoreInv, TypeInv, TypeOK, CpuTypes, procVars
<1>1. CASE ResumeFrame
  BY <1>0, <1>1 DEF ResumeFrame
<1>2. CASE SchedulerNext /\ ~ResumeFrame
  <2>1. run \in Slots => pc[run] \notin Pending
    <3>1. CASE Interruptible
      BY <3>1 DEF Interruptible, StatusPreemption, Pending
    <3>2. CASE ResumeFirst
      BY <3>2 DEF ResumeFirst
    <3> QED
      BY <1>2, <3>1, <3>2 DEF SchedulerNext, StartShell, Timer, KeySwitch
  <2>2. error_return_value # HALT_EXCEPTION /\ \A s \in Slots : pc[s] \notin Pending
    BY <2>1
  <2>3. \A s \in Slots : pc'[s] \notin Pending
    <3>1. CASE StartShell
      BY <1>0, <2>2, <3>1 DEF StartShell, Pending
    <3>2. CASE ~StartShell
      BY <1>2, <2>2, <3>2 DEF SchedulerNext, Timer, KeySwitch, ResumeFirst
    <3> QED
      BY <3>1, <3>2
  <2> QED
    BY <1>0, <2>2, <2>3 DEF Pending
<1> QED
  BY <1>1, <1>2

LEMMA ThreadStatus ==
  ASSUME StatusInv, CoreInv', NEW t \in Slots, ThreadStep(t) \/ UserStep(t)
  PROVE  StatusInv'
<1> USE DEF StatusInv, Pending
<1>0. /\ run = t /\ run' = t /\ susp' = susp /\ susp[t] = "none" /\ t \in Threads
      /\ Slots \subseteq Threads /\ pc \in [Threads -> Points] /\ status \in [Threads -> Nat]
      /\ error_return_value \in 0 .. HALT_EXCEPTION
  BY ThreadSlots, Constants DEF CoreInv, TypeInv, TypeOK, CpuTypes, ProcTypes
<1>1. CASE ExecParent(t) \/ ExecWalk(t) \/ ExecFind(t) \/ ExecClaim(t) \/ Execute(t)
  BY <1>0, <1>1 DEF ExecParent, ExecWalk, ExecFind, ExecClaim, Execute, At, GoTo, procVars
<1>2. CASE ExecFull(t)
  \* The respawn of a root shell finds at least the PCB that was its own.
  <2>1. kind[t] = "call"
    <3> SUFFICES ASSUME kind[t] = "respawn" PROVE FALSE
      BY <1>2 DEF ExecFull
    <3>1. /\ kind'[t] = "respawn" /\ pc'[t] = "exiting" /\ t < num_multiprocess'
      BY <1>0, <1>2, RunStarted DEF ExecFull, GoTo, slotVars
    <3> QED
      BY <3>1 DEF CoreInv, RespawnOK
  <2> QED
    BY <1>0, <1>2, <2>1 DEF ExecFull, At, GoTo
<1>3. CASE ExecLoad(t)
  BY <1>0, <1>3 DEF ExecLoad, At, GoTo
<1>4. ASSUME NEW v, HaltWrapper(t, v) PROVE StatusInv'
  BY <1>0, <1>4 DEF HaltWrapper, At, GoTo
<1>5. CASE HaltRoot(t) \/ HaltChild(t)
  BY <1>0, <1>5 DEF HaltRoot, HaltChild, At, GoTo, procVars
<1>6. CASE Respawn(t)
  BY <1>0, <1>6 DEF Respawn, At, GoTo, HALT_EXCEPTION
<1>7. CASE Exit(t)
  <2>1. /\ pc[t] = "exiting" /\ pc' = [pc EXCEPT ![t] = "returned"] /\ status' = status
        /\ error_return_value' = HaltValue(error_return_value, status[t])
    BY <1>7 DEF Exit, At, GoTo
  <2>2. error_return_value' = IF status[t] = HALT_EXCEPTION THEN HALT_EXCEPTION
                              ELSE status[t] % 256
    BY <1>0, <2>1 DEF HaltValue
  <2>3. status[t] % 256 # HALT_EXCEPTION
    BY <1>0 DEF HALT_EXCEPTION
  <2> QED
    BY <1>0, <2>1, <2>2, <2>3
<1>8. CASE ReturnFromHalt(t)
  BY <1>0, <1>8 DEF ReturnFromHalt, At, GoTo, HALT_EXCEPTION
<1>9. CASE SysVidmap(t)
  BY <1>0, <1>9 DEF SysVidmap, procVars
<1>10. ~ExitNullParent(t)
  BY NeverNullParent
<1> QED
  BY <1>1, <1>2, <1>3, <1>4, <1>5, <1>6, <1>7, <1>8, <1>9, <1>10 DEF ThreadStep, UserStep

\* What execute returns to the parent is what the child passed to halt, or
\* HALT_EXCEPTION if an exception ended it: never the status of another
\* process, although all share one error_return_value.
THEOREM StatusCorrect ==
  ASSUME ~BootKeys, StatusPreemption
  PROVE  Spec => ExitStatusDelivered
<1>1. SafePreemption
  BY DEF SafePreemption, StatusPreemption, Parkable
<1>2. StatusInv /\ [Next]_vars => StatusInv'
  <2> SUFFICES ASSUME StatusInv, [Next]_vars PROVE StatusInv'
    OBVIOUS
  <2>1. CoreInv'
    BY <1>1, NextCore DEF StatusInv
  <2>2. CASE UNCHANGED vars
    BY <2>1, <2>2 DEF vars, slotVars, cpuVars, procVars, StatusInv, Pending
  <2> QED
    BY <2>1, <2>2, SchedulerStatus, ThreadStatus DEF Next
<1>3. StatusInv =>
        \A t \in Slots : pc[t] = "returned" /\ pc'[t] = "user" =>
          error_return_value = IF status[t] = HALT_EXCEPTION THEN HALT_EXCEPTION
                               ELSE status[t] % 256
  BY DEF StatusInv, Pending
<1> QED
  BY InitStatus, <1>2, <1>3, PTL DEF Spec, ExitStatusDelivered
=============================================================================
