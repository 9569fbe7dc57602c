--------------------------- MODULE Kernel_proofs ---------------------------
(***************************************************************************)
(* Theorems about Kernel for every number of slots and processes and for   *)
(* every choice of the points at which interrupts may arrive, the race     *)
(* windows included.                                                       *)
(***************************************************************************)
EXTENDS Kernel, WellFoundedInduction, TLAPS

\* The values of sys_execute's and sys_halt's locals at the points where they
\* are used: without it the tables could be indexed with NONE.
LocalsOK ==
  \A t \in Slots :
    /\ pc[t] \in {"walk", "found", "claimed"} => parent[t] \in Pids /\ root[t] \in Pids
    /\ pc[t] = "found" => idx[t] \in Pids
    /\ pc[t] \in {"halt", "respawn", "exiting", "returned"} => cur[t] \in Pids
    /\ pc[t] \in {"exec", "walk", "found", "claimed"} /\ kind[t] = "respawn" => cur[t] \in Pids
    /\ pc[t] = "user" => kind[t] # "respawn"

\* scheduler_step is only left inside terminal_switch once all slots exist.
FirstOK == \A t \in Threads : susp[t] = "first" => AllStarted

TypeInv == TypeOK /\ LocalsOK /\ FirstOK

-----------------------------------------------------------------------------
\* Minimum of a set of pids, the result of the scan over PCB[].
LEMMA MinPid ==
  ASSUME NEW S, S \subseteq Pids, S # {}
  PROVE  Min(S) \in S /\ \A m \in S : Min(S) <= m
<1>1. Pids \subseteq Nat
  BY SizesAssumption DEF Pids
<1> DEFINE Less == OpToRel(<, Nat)
<1>2. IsWellFoundedOn(Less, Nat)
  BY NatLessThanWellFounded
<1>3. S \subseteq Nat
  BY <1>1
<1>4. \A x, y \in Nat : <<y, x>> \in Less <=> y < x
  BY DEF OpToRel
<1> HIDE DEF Less
<1>5. PICK n \in S : \A m \in S : <<m, n>> \notin Less
  BY <1>2, <1>3, WFMin
<1>6. \A m \in S : ~(m < n)
  BY <1>3, <1>4, <1>5, Zenon
<1>7. \A m \in S : n <= m
  BY <1>3, <1>6, SMT
<1> QED
  BY <1>7 DEF Min

LEMMA Constants ==
  /\ Slots \subseteq Threads
  /\ Slots \subseteq Pids
  /\ 0 \in Slots
  /\ NONE \notin Pids
  /\ NONE \notin Threads
  /\ MAX_MULTIPROCESS_NUM \in Nat \ {0}
BY SizesAssumption DEF Slots, Threads, Pids, NONE

LEMMA RotationStays ==
  ASSUME num_multiprocess = MAX_MULTIPROCESS_NUM, current_multiprocess \in Slots
  PROVE  (current_multiprocess + 1) % num_multiprocess \in Slots
BY SizesAssumption DEF Slots

LEMMA ReplaceType ==
  ASSUME NEW mpi \in [Slots -> Pids], NEW old, NEW new \in Pids
  PROVE  Replace(mpi, old, new) \in [Slots -> Pids]
BY DEF Replace

\* What a context switch between two slots leaves behind.
SwitchEffect(frame) ==
  /\ current_process_pid' \in Pids
  /\ vidmap' \in Slots \cup {SCREEN}
  /\ pde' \in Pids /\ esp0' \in Pids
  /\ keyboard_disabled' \in BOOLEAN
  /\ inService' \subseteq {PIT_IRQ, KEYBOARD_IRQ}
  /\ susp' = [susp EXCEPT ![run] = frame]
  /\ interrupts' = FALSE
  /\ run' \in Threads
  /\ all_process' \in [Pids -> [PCB : PidOrNone, active_terminal_idx : Pids,
                                saved_esp : Threads \cup {NONE}]]
  /\ fate' \in {"ok", "panic", "wild"}

LEMMA ContextSwitchTypes ==
  ASSUME TypeOK,
         NEW from \in Slots, NEW to \in Slots, NEW term \in Slots,
         NEW frame \in {"none", "pit", "first", "kbd"},
         NEW svc \in SUBSET {PIT_IRQ, KEYBOARD_IRQ},
         ContextSwitch(from, to, term, frame, svc)
  PROVE  SwitchEffect(frame)
<1> DEFINE src == RecordOf(from)
           dst == RecordOf(to)
           saved == [all_process EXCEPT ![src].saved_esp = run]
           Rec == [PCB : PidOrNone, active_terminal_idx : Pids,
                   saved_esp : Threads \cup {NONE}]
<1>1. src \in Pids /\ dst \in Pids /\ run \in Threads /\ PCB[dst].pid \in Pids
  BY DEF TypeOK, SlotTypes, CpuTypes, RecordOf
<1>2. saved \in [Pids -> Rec]
  BY <1>1 DEF TypeOK, SlotTypes
<1>3. saved[dst].saved_esp \in Threads \cup {NONE}
  BY <1>1, <1>2
<1>4. [saved EXCEPT ![dst].saved_esp = NONE] \in [Pids -> Rec]
  BY <1>1, <1>2
<1>5. all_process' \in [Pids -> Rec]
  BY <1>2, <1>4 DEF ContextSwitch
<1>6. run' \in Threads
  BY <1>1, <1>3 DEF ContextSwitch
<1>7. pde' \in Pids /\ esp0' \in Pids /\ current_process_pid' \in Pids
  BY <1>1 DEF ContextSwitch, TypeOK, CpuTypes
<1>8. /\ vidmap' \in Slots \cup {SCREEN}
      /\ keyboard_disabled' \in BOOLEAN
      /\ inService' \subseteq {PIT_IRQ, KEYBOARD_IRQ}
      /\ fate' \in {"ok", "panic", "wild"}
  BY DEF ContextSwitch, TypeOK, CpuTypes, SlotTypes, VideoPage, KeyboardMasked, Acknowledge
<1> QED
  BY <1>5, <1>6, <1>7, <1>8 DEF ContextSwitch, SwitchEffect

-----------------------------------------------------------------------------
LEMMA InitTypes == Init => TypeInv
<1> SUFFICES ASSUME Init PROVE TypeInv
  OBVIOUS
<1> USE Constants, SizesAssumption
<1>1. SlotTypes
  <2>1. 0 \in Pids /\ NONE \in PidOrNone /\ NONE \in Threads \cup {NONE}
    BY DEF PidOrNone
  <2>2. /\ multi_process_idx \in [Slots -> Pids]
        /\ all_process \in [Pids -> [PCB : PidOrNone, active_terminal_idx : Pids,
                                     saved_esp : Threads \cup {NONE}]]
        /\ PCB \in [Pids -> [running : BOOLEAN, pid : Pids, parent : PidOrNone,
                             esp : PidOrNone]]
    BY <2>1 DEF Init, SchedulerInit
  <2>3. /\ num_multiprocess \in 0 .. MAX_MULTIPROCESS_NUM
        /\ current_multiprocess \in Slots
        /\ on_default_term \in BOOLEAN /\ keyboard_disabled \in BOOLEAN
        /\ current_term \in Slots
    <3>1. MAX_MULTIPROCESS_NUM - 1 \in Slots /\ 0 \in 0 .. MAX_MULTIPROCESS_NUM
      BY DEF Slots
    <3> QED
      BY <3>1 DEF Init, SchedulerInit
  <2> QED
    BY <2>2, <2>3 DEF SlotTypes
<1>2. CpuTypes
  BY DEF Init, SchedulerInit, ProcessesInit, CpuTypes, Slots, Pids, Threads, Boot, SCREEN,
         Kinds, Points
<1>3. ProcTypes
  BY DEF Init, ProcessesInit, ProcTypes, PidOrNone, HALT_EXCEPTION
<1>4. LocalsOK /\ FirstOK
  BY DEF Init, SchedulerInit, ProcessesInit, LocalsOK, FirstOK
<1> QED
  BY <1>1, <1>2, <1>3, <1>4 DEF TypeInv, TypeOK

LEMMA SchedulerTypes ==
  ASSUME TypeInv, SchedulerNext, UNCHANGED procVars
  PROVE  TypeInv'
<1> USE Constants
<1>0. ProcTypes'
  BY DEF TypeInv, TypeOK, ProcTypes, procVars, PidOrNone
<1>1. CASE StartShell
  <2> DEFINE n == num_multiprocess
             Rec == [PCB : PidOrNone, active_terminal_idx : Pids,
                     saved_esp : Threads \cup {NONE}]
             saved == IF n > 0
                      THEN [all_process EXCEPT ![multi_process_idx[n - 1]].saved_esp = run]
                      ELSE all_process
             new == [PCB |-> n, active_terminal_idx |-> n, saved_esp |-> NONE]
  <2>1. n \in Slots /\ run \in Threads /\ (n > 0 => n - 1 \in Slots)
    BY <1>1, SizesAssumption DEF StartShell, TypeInv, TypeOK, SlotTypes, CpuTypes, Slots
  <2>2. saved \in [Pids -> Rec]
    BY <2>1 DEF TypeInv, TypeOK, SlotTypes
  <2>3. new \in Rec
    BY <2>1 DEF PidOrNone
  <2>4. all_process' \in [Pids -> Rec]
    <3>1. all_process' = [saved EXCEPT ![n] = new]
      BY <1>1 DEF StartShell
    <3> HIDE DEF saved, new, Rec
    <3> QED
      BY <3>1, <2>2, <2>3
  <2>5. SlotTypes'
    BY <1>1, <2>1, <2>4, SizesAssumption DEF StartShell, TypeInv, TypeOK, SlotTypes, Slots
  <2>6. CpuTypes'
    BY <1>1, <2>1 DEF StartShell, TypeInv, TypeOK, CpuTypes, Kinds, Points
  <2>7. LocalsOK'
    BY <1>1, <2>1 DEF StartShell, TypeInv, TypeOK, CpuTypes, LocalsOK, procVars
  <2>8. FirstOK'
    BY <1>1, <2>1, SizesAssumption
    DEF StartShell, TypeInv, TypeOK, CpuTypes, FirstOK, AllStarted, Slots
  <2> QED
    BY <1>0, <2>5, <2>6, <2>7, <2>8 DEF TypeInv, TypeOK
<1>2. ASSUME NEW from \in Slots, NEW to \in Slots, NEW term \in Slots,
             NEW frame \in {"none", "pit", "first", "kbd"},
             NEW svc \in SUBSET {PIT_IRQ, KEYBOARD_IRQ},
             ContextSwitch(from, to, term, frame, svc),
             current_multiprocess' \in Slots, current_term' \in Slots,
             on_default_term' \in BOOLEAN,
             AllStarted \/ frame # "first",
             UNCHANGED <<num_multiprocess, multi_process_idx, PCB, kind, pc>>
      PROVE  TypeInv'
  <2>1. SwitchEffect(frame)
    <3>1. TypeOK
      BY DEF TypeInv
    <3> QED
      BY <1>2, <3>1, ContextSwitchTypes
  <2>2. susp' \in [Threads -> {"none", "pit", "first", "kbd"}]
    BY <1>2, <2>1 DEF SwitchEffect, TypeInv, TypeOK, CpuTypes
  <2>3. CpuTypes'
    BY <1>2, <2>1, <2>2 DEF SwitchEffect, TypeInv, TypeOK, CpuTypes
  <2>4. SlotTypes'
    BY <1>2, <2>1 DEF SwitchEffect, TypeInv, TypeOK, SlotTypes, PidOrNone
  <2>5. LocalsOK'
    BY <1>2 DEF TypeInv, LocalsOK, procVars
  <2>6. FirstOK'
    BY <1>2, <2>1 DEF SwitchEffect, TypeInv, TypeOK, CpuTypes, FirstOK, AllStarted
  <2> QED
    BY <1>0, <2>3, <2>4, <2>5, <2>6 DEF TypeInv, TypeOK
<1>3. ASSUME NEW svc \in SUBSET {PIT_IRQ, KEYBOARD_IRQ}, AllStarted, NextSlot(svc),
             UNCHANGED <<num_multiprocess, multi_process_idx, PCB, kind, pc>>
      PROVE  TypeInv'
  <2> DEFINE next == (current_multiprocess + 1) % num_multiprocess
  <2>1. current_multiprocess \in Slots /\ current_term \in Slots
    BY DEF TypeInv, TypeOK, SlotTypes
  <2>2. next \in Slots
    BY <1>3, <2>1, RotationStays DEF AllStarted
  <2>3. /\ on_default_term' = TRUE
        /\ current_multiprocess' = next
        /\ ContextSwitch(current_multiprocess, next, current_term, "pit", svc)
        /\ current_term' = current_term
    BY <1>3 DEF NextSlot
  <2> HIDE DEF next
  <2> QED
    BY <1>2, <1>3, <2>1, <2>2, <2>3
<1>4. ASSUME NEW new \in Slots, NEW frame \in {"kbd", "first"},
             NEW svc \in SUBSET {PIT_IRQ, KEYBOARD_IRQ},
             AllStarted \/ frame # "first", SwitchTerminal(new, frame, svc),
             UNCHANGED <<num_multiprocess, multi_process_idx, PCB, kind, pc>>
      PROVE  TypeInv'
  <2>1. current_term \in Slots /\ on_default_term \in BOOLEAN
    BY DEF TypeInv, TypeOK, SlotTypes
  <2>2. /\ ContextSwitch(current_term, new, new, frame, svc)
        /\ current_term' = new /\ current_multiprocess' = new
        /\ on_default_term' = on_default_term
    BY <1>4 DEF SwitchTerminal
  <2>3. frame \in {"none", "pit", "first", "kbd"}
    BY <1>4
  <2> QED
    BY <1>2, <1>4, <2>1, <2>2, <2>3
<1>5. inService \in SUBSET {PIT_IRQ, KEYBOARD_IRQ}
  BY DEF TypeInv, TypeOK, CpuTypes
<1>6. CASE Timer
  <2>1. AllStarted /\ UNCHANGED <<num_multiprocess, multi_process_idx, PCB, kind, pc>>
    BY <1>6 DEF Timer, AllStarted
  <2>2. inService \cup {PIT_IRQ} \in SUBSET {PIT_IRQ, KEYBOARD_IRQ}
    BY <1>5
  <2>3. CASE ~on_default_term /\ current_term # 0
    <3>1. SwitchTerminal(0, "first", inService \cup {PIT_IRQ})
      BY <1>6, <2>3 DEF Timer
    <3> QED
      BY <1>4, <2>1, <2>2, <3>1
  <2>4. CASE ~(~on_default_term /\ current_term # 0)
    <3>1. NextSlot(inService \cup {PIT_IRQ})
      BY <1>6, <2>4 DEF Timer
    <3> QED
      BY <1>3, <2>1, <2>2, <3>1
  <2> QED
    BY <2>3, <2>4
<1>7. ASSUME NEW new \in Slots, KeySwitch(new)
      PROVE  TypeInv'
  <2>1. /\ SwitchTerminal(new, "kbd", inService \cup {KEYBOARD_IRQ})
        /\ UNCHANGED <<num_multiprocess, multi_process_idx, PCB, kind, pc>>
    BY <1>7 DEF KeySwitch
  <2>2. inService \cup {KEYBOARD_IRQ} \in SUBSET {PIT_IRQ, KEYBOARD_IRQ}
    BY <1>5
  <2> QED
    BY <1>4, <2>1, <2>2
<1>8. CASE ResumeFrame
  <2>1. SlotTypes'
    BY <1>8 DEF ResumeFrame, TypeInv, TypeOK, SlotTypes, slotVars, PidOrNone
  <2>2. CpuTypes'
    BY <1>8 DEF ResumeFrame, TypeInv, TypeOK, CpuTypes, Acknowledge
  <2>3. LocalsOK' /\ FirstOK'
    BY <1>8 DEF ResumeFrame, TypeInv, TypeOK, CpuTypes, LocalsOK, FirstOK, AllStarted,
                procVars, slotVars
  <2> QED
    BY <1>0, <2>1, <2>2, <2>3 DEF TypeInv, TypeOK
<1>9. CASE ResumeFirst
  <2>1. AllStarted
    BY <1>9 DEF ResumeFirst, TypeInv, TypeOK, CpuTypes, FirstOK
  <2>2. /\ NextSlot(inService)
        /\ UNCHANGED <<num_multiprocess, multi_process_idx, PCB, kind, pc>>
    BY <1>9 DEF ResumeFirst
  <2> QED
    BY <1>3, <1>5, <2>1, <2>2
<1> QED
  BY <1>1, <1>6, <1>7, <1>8, <1>9 DEF SchedulerNext

-----------------------------------------------------------------------------
\* Freeing a pid, the exit status and the scan keep the types.
LEMMA ReleasedType ==
  ASSUME TypeOK, NEW p \in Pids
  PROVE  Released(p) \in [Pids -> [running : BOOLEAN, pid : Pids, parent : PidOrNone,
                                   esp : PidOrNone]]
BY DEF Released, TypeOK, SlotTypes

LEMMA HaltValueType ==
  ASSUME NEW err \in 0 .. HALT_EXCEPTION, NEW s \in Nat
  PROVE  HaltValue(err, s) \in 0 .. HALT_EXCEPTION /\ s % 256 \in 0 .. HALT_EXCEPTION
BY DEF HaltValue, HALT_EXCEPTION

LEMMA ScanType == FreePids # {} => Min(FreePids) \in Pids
<1> HAVE FreePids # {}
<1>1. FreePids \subseteq Pids
  BY DEF FreePids
<1>2. Min(FreePids) \in FreePids
  BY <1>1, MinPid
<1> QED
  BY <1>1, <1>2

\* A system call's step leaves the switch bookkeeping alone.
LEMMA FirstKept ==
  ASSUME FirstOK, UNCHANGED <<susp, num_multiprocess>>
  PROVE  FirstOK'
BY DEF FirstOK, AllStarted

\* A step that moves thread t only leaves the locals of the others alone.
LEMMA LocalsKept ==
  ASSUME TypeOK, LocalsOK, NEW t \in Slots,
         \A u \in Slots \ {t} :
           /\ pc'[u] = pc[u] /\ kind'[u] = kind[u]
           /\ parent'[u] = parent[u] /\ root'[u] = root[u]
           /\ idx'[u] = idx[u] /\ cur'[u] = cur[u],
         pc'[t] \in {"walk", "found", "claimed"} => parent'[t] \in Pids /\ root'[t] \in Pids,
         pc'[t] = "found" => idx'[t] \in Pids,
         pc'[t] \in {"halt", "respawn", "exiting", "returned"} => cur'[t] \in Pids,
         pc'[t] \in {"exec", "walk", "found", "claimed"} /\ kind'[t] = "respawn"
           => cur'[t] \in Pids,
         pc'[t] = "user" => kind'[t] # "respawn"
  PROVE  LocalsOK'
BY DEF LocalsOK

LEMMA ThreadTypes ==
  ASSUME TypeInv, NEW t \in Slots, ThreadStep(t) \/ UserStep(t)
  PROVE  TypeInv'
<1> USE Constants
<1>0. TypeOK /\ LocalsOK /\ FirstOK /\ t \in Threads
  BY DEF TypeInv
<1>1. CASE Execute(t)
  <2>1. SlotTypes' /\ CpuTypes' /\ ProcTypes'
    BY <1>0, <1>1 DEF Execute, GoTo, TypeOK, SlotTypes, CpuTypes, ProcTypes,
                      slotVars, cpuVars, procVars, Points, PidOrNone
  <2>2. LocalsOK'
    BY <1>0, <1>1, LocalsKept DEF Execute, At, GoTo, LocalsOK, TypeOK, CpuTypes, procVars
  <2>3. FirstOK'
    BY <1>0, <1>1, FirstKept DEF Execute, slotVars, cpuVars
  <2> QED
    BY <2>1, <2>2, <2>3 DEF TypeInv, TypeOK
<1>2. CASE ExecParent(t)
  <2>1. SlotTypes' /\ CpuTypes' /\ ProcTypes'
    BY <1>0, <1>2 DEF ExecParent, At, GoTo, LocalsOK, TypeOK, SlotTypes, CpuTypes, ProcTypes,
                      slotVars, cpuVars, procVars, Points, Kinds, PidOrNone
  <2>2. LocalsOK'
    BY <1>0, <1>2, LocalsKept DEF ExecParent, At, GoTo, LocalsOK, TypeOK, CpuTypes, ProcTypes, procVars
  <2>3. FirstOK'
    BY <1>0, <1>2, FirstKept DEF ExecParent, slotVars, cpuVars
  <2> QED
    BY <2>1, <2>2, <2>3 DEF TypeInv, TypeOK
<1>3. CASE ExecWalk(t)
  <2>1. SlotTypes' /\ CpuTypes' /\ ProcTypes'
    <3>0. root[t] \in Pids /\ PCB[root[t]].parent \in PidOrNone
      BY <1>0, <1>3 DEF ExecWalk, At, LocalsOK, TypeOK, SlotTypes
    <3>1. SlotTypes'
      BY <1>0, <1>3, <3>0 DEF ExecWalk, TypeOK, SlotTypes, slotVars, PidOrNone
    <3>2. CpuTypes'
      BY <1>0, <1>3, <3>0 DEF ExecWalk, GoTo, TypeOK, CpuTypes, cpuVars, Points, Kinds
    <3>3. ProcTypes'
      BY <1>0, <1>3, <3>0 DEF ExecWalk, TypeOK, ProcTypes, procVars, PidOrNone
    <3> QED
      BY <3>1, <3>2, <3>3
  <2>2. LocalsOK'
    <3>1. PCB[root[t]].parent \in Pids
      BY <1>0, <1>3 DEF ExecWalk, At, LocalsOK, TypeOK, SlotTypes, PidOrNone
    <3> QED
      BY <1>0, <1>3, <3>1, LocalsKept
      DEF ExecWalk, At, LocalsOK, TypeOK, ProcTypes
  <2>3. FirstOK'
    BY <1>0, <1>3, FirstKept DEF ExecWalk, slotVars, cpuVars
  <2> QED
    BY <2>1, <2>2, <2>3 DEF TypeInv, TypeOK
<1>4. CASE ExecFind(t)
  <2>1. SlotTypes' /\ CpuTypes' /\ ProcTypes'
    <3>1. SlotTypes'
      BY <1>0, <1>4, ScanType DEF ExecFind, TypeOK, SlotTypes, slotVars, PidOrNone
    <3>2. CpuTypes'
      BY <1>0, <1>4, ScanType DEF ExecFind, GoTo, TypeOK, CpuTypes, cpuVars, Points, Kinds
    <3>3. ProcTypes'
      BY <1>0, <1>4, ScanType DEF ExecFind, TypeOK, ProcTypes, procVars, PidOrNone
    <3> QED
      BY <3>1, <3>2, <3>3
  <2>2. LocalsOK'
    BY <1>0, <1>4, LocalsKept, ScanType
    DEF ExecFind, At, GoTo, LocalsOK, TypeOK, CpuTypes, ProcTypes, procVars
  <2>3. FirstOK'
    BY <1>0, <1>4, FirstKept DEF ExecFind, slotVars, cpuVars
  <2> QED
    BY <2>1, <2>2, <2>3 DEF TypeInv, TypeOK
<1>5. CASE ExecFull(t)
  <2>1. SlotTypes' /\ CpuTypes' /\ ProcTypes'
    <3>1. CASE kind[t] = "respawn"
      <4>1. cur[t] \in Pids
        BY <1>0, <1>5, <3>1 DEF ExecFull, At, LocalsOK
      <4>2. SlotTypes'
        BY <1>0, <1>5, <3>1, <4>1, ReleasedType DEF ExecFull, TypeOK, SlotTypes, slotVars
      <4>3. CpuTypes'
        BY <1>0, <1>5, <3>1 DEF ExecFull, GoTo, TypeOK, CpuTypes, cpuVars, Points, Kinds
      <4>4. ProcTypes'
        BY <1>0, <1>5, <3>1, <4>1 DEF ExecFull, TypeOK, SlotTypes, ProcTypes, PidOrNone
      <4> QED
        BY <4>2, <4>3, <4>4
    <3>2. CASE kind[t] # "respawn"
      BY <1>0, <1>5, <3>2 DEF ExecFull, GoTo, TypeOK, SlotTypes, CpuTypes, ProcTypes,
                              slotVars, cpuVars, Points, Kinds, PidOrNone
    <3> QED
      BY <3>1, <3>2
  <2>2. LocalsOK'
    BY <1>0, <1>5, LocalsKept DEF ExecFull, At, GoTo, LocalsOK, TypeOK, CpuTypes, ProcTypes, procVars, Released
  <2>3. FirstOK'
    BY <1>0, <1>5, FirstKept DEF ExecFull, slotVars, cpuVars
  <2> QED
    BY <2>1, <2>2, <2>3 DEF TypeInv, TypeOK
<1>6. CASE ExecClaim(t)
  <2>1. SlotTypes' /\ CpuTypes' /\ ProcTypes'
    <3>1. SlotTypes'
      <4> DEFINE Rec == [running : BOOLEAN, pid : Pids, parent : PidOrNone, esp : PidOrNone]
                 new == [PCB[idx[t]] EXCEPT !.running = TRUE, !.pid = idx[t],
                                            !.parent = ParentOf(idx[t], parent[t])]
      <4>1. idx[t] \in Pids /\ parent[t] \in PidOrNone
        BY <1>0, <1>6 DEF ExecClaim, At, LocalsOK, TypeOK, ProcTypes
      <4>2. PCB[idx[t]] \in Rec /\ ParentOf(idx[t], parent[t]) \in PidOrNone
        BY <1>0, <4>1 DEF TypeOK, SlotTypes, ParentOf, PidOrNone
      <4>3. new \in Rec
        BY <4>1, <4>2
      <4>4. PCB' = [PCB EXCEPT ![idx[t]] = new]
        BY <1>6 DEF ExecClaim
      <4>5. PCB' \in [Pids -> Rec]
        <5>1. PCB \in [Pids -> Rec]
          BY <1>0 DEF TypeOK, SlotTypes
        <5> HIDE DEF Rec, new
        <5> QED
          BY <5>1, <4>1, <4>3, <4>4
      <4> QED
        BY <1>0, <1>6, <4>5 DEF ExecClaim, TypeOK, SlotTypes, slotVars
    <3>2. CpuTypes'
      BY <1>0, <1>6 DEF ExecClaim, At, LocalsOK, GoTo, TypeOK, CpuTypes, cpuVars, Points, Kinds
    <3>3. ProcTypes'
      BY <1>0, <1>6 DEF ExecClaim, TypeOK, ProcTypes, procVars, PidOrNone
    <3> QED
      BY <3>1, <3>2, <3>3
  <2>2. LocalsOK'
    BY <1>0, <1>6, LocalsKept DEF ExecClaim, At, GoTo, LocalsOK, TypeOK, CpuTypes, ProcTypes, procVars
  <2>3. FirstOK'
    BY <1>0, <1>6, FirstKept DEF ExecClaim, slotVars, cpuVars
  <2> QED
    BY <2>1, <2>2, <2>3 DEF TypeInv, TypeOK
<1>7. CASE ExecLoad(t)
  <2> DEFINE c == current_process_pid
             Rec == [PCB : PidOrNone, active_terminal_idx : Pids,
                     saved_esp : Threads \cup {NONE}]
             new == [PCB |-> c, active_terminal_idx |-> PCB[root[t]].pid, saved_esp |-> NONE]
  <2>1. SlotTypes' /\ CpuTypes' /\ ProcTypes'
    <3>1. /\ c \in Pids /\ prog[t] \in PidOrNone
          /\ parent[t] \in Pids /\ PCB[parent[t]].pid \in Pids
          /\ root[t] \in Pids /\ PCB[root[t]].pid \in Pids
      BY <1>0, <1>7 DEF ExecLoad, At, LocalsOK, TypeOK, SlotTypes, CpuTypes, ProcTypes
    <3>2. multi_process_idx' \in [Slots -> Pids]
      <4>1. Replace(multi_process_idx, PCB[parent[t]].pid, c) \in [Slots -> Pids]
        BY <1>0, <3>1, ReplaceType DEF TypeOK, SlotTypes
      <4> QED
        BY <1>0, <1>7, <4>1 DEF ExecLoad, TypeOK, SlotTypes
    <3>3. all_process' \in [Pids -> Rec]
      <4>1. all_process \in [Pids -> Rec]
        BY <1>0 DEF TypeOK, SlotTypes
      <4>2. new \in Rec
        BY <3>1 DEF PidOrNone
      <4>3. all_process' = all_process \/ all_process' = [all_process EXCEPT ![c] = new]
        BY <1>7 DEF ExecLoad
      <4> HIDE DEF Rec, new
      <4> QED
        BY <4>1, <4>2, <4>3
    <3>4. SlotTypes'
      <4>1. PCB' = [PCB EXCEPT ![c].esp = prog[t]]
        BY <1>7 DEF ExecLoad
      <4>2. PCB' \in [Pids -> [running : BOOLEAN, pid : Pids, parent : PidOrNone,
                               esp : PidOrNone]]
        BY <1>0, <3>1, <4>1 DEF TypeOK, SlotTypes
      <4> QED
        BY <1>0, <1>7, <3>2, <3>3, <4>2 DEF ExecLoad, TypeOK, SlotTypes
    <3>5. CpuTypes'
      BY <1>0, <1>7, <3>1 DEF ExecLoad, GoTo, TypeOK, CpuTypes, Points, Kinds
    <3>6. ProcTypes'
      <4>1. owner' \in [Pids -> Threads \cup {NONE}]
        BY <1>0, <1>7 DEF ExecLoad, TypeOK, ProcTypes
      <4>2. prog' \in [Threads -> PidOrNone]
        BY <1>0, <1>7, <3>1 DEF ExecLoad, TypeOK, ProcTypes, PidOrNone
      <4> QED
        BY <1>0, <1>7, <4>1, <4>2 DEF ExecLoad, TypeOK, ProcTypes, PidOrNone
    <3> QED
      BY <3>4, <3>5, <3>6
  <2>2. LocalsOK'
    BY <1>0, <1>7, LocalsKept DEF ExecLoad, At, GoTo, LocalsOK, TypeOK, CpuTypes, ProcTypes, procVars
  <2>3. FirstOK'
    BY <1>0, <1>7, FirstKept DEF ExecLoad, slotVars, cpuVars
  <2> QED
    BY <2>1, <2>2, <2>3 DEF TypeInv, TypeOK
<1>8. CASE HaltRoot(t)
  <2>1. SlotTypes' /\ CpuTypes' /\ ProcTypes'
    <3>0. cur[t] \in Pids
      BY <1>0, <1>8 DEF HaltRoot, At, LocalsOK
    <3>1. SlotTypes'
      BY <1>0, <1>8, <3>0, ReleasedType DEF HaltRoot, TypeOK, SlotTypes, slotVars, PidOrNone
    <3>2. CpuTypes'
      BY <1>0, <1>8, <3>0, ReleasedType DEF HaltRoot, GoTo, TypeOK, CpuTypes, cpuVars, Points, Kinds
    <3>3. ProcTypes'
      BY <1>0, <1>8, <3>0, ReleasedType DEF HaltRoot, TypeOK, ProcTypes, procVars, PidOrNone
    <3> QED
      BY <3>1, <3>2, <3>3
  <2>2. LocalsOK'
    BY <1>0, <1>8, LocalsKept DEF HaltRoot, At, GoTo, LocalsOK, TypeOK, CpuTypes, ProcTypes, procVars, Released
  <2>3. FirstOK'
    BY <1>0, <1>8, FirstKept DEF HaltRoot, slotVars, cpuVars
  <2> QED
    BY <2>1, <2>2, <2>3 DEF TypeInv, TypeOK
<1>9. CASE Respawn(t)
  <2>1. SlotTypes' /\ CpuTypes' /\ ProcTypes'
    <3>1. SlotTypes'
      BY <1>0, <1>9, HaltValueType DEF Respawn, TypeOK, SlotTypes, slotVars, PidOrNone
    <3>2. CpuTypes'
      BY <1>0, <1>9, HaltValueType DEF Respawn, GoTo, TypeOK, CpuTypes, cpuVars, Points, Kinds
    <3>3. ProcTypes'
      BY <1>0, <1>9, HaltValueType DEF Respawn, GoTo, TypeOK, ProcTypes, procVars, PidOrNone
    <3> QED
      BY <3>1, <3>2, <3>3
  <2>2. LocalsOK'
    BY <1>0, <1>9, LocalsKept DEF Respawn, At, GoTo, LocalsOK, TypeOK, CpuTypes, ProcTypes, procVars
  <2>3. FirstOK'
    BY <1>0, <1>9, FirstKept DEF Respawn, slotVars, cpuVars
  <2> QED
    BY <2>1, <2>2, <2>3 DEF TypeInv, TypeOK
<1>10. CASE HaltChild(t)
  <2>1. SlotTypes' /\ CpuTypes' /\ ProcTypes'
    <3>0. cur[t] \in Pids
      BY <1>0, <1>10 DEF HaltChild, At, LocalsOK
    <3>1. SlotTypes'
      BY <1>0, <1>10, <3>0, ReleasedType DEF HaltChild, TypeOK, SlotTypes, slotVars, PidOrNone
    <3>2. CpuTypes'
      BY <1>0, <1>10, <3>0, ReleasedType DEF HaltChild, GoTo, TypeOK, CpuTypes, cpuVars, Points, Kinds
    <3>3. ProcTypes'
      BY <1>0, <1>10, <3>0, ReleasedType DEF HaltChild, SlotTypes, TypeOK, ProcTypes, procVars, PidOrNone
    <3> QED
      BY <3>1, <3>2, <3>3
  <2>2. LocalsOK'
    BY <1>0, <1>10, LocalsKept
    DEF HaltChild, At, GoTo, LocalsOK, TypeOK, CpuTypes, ProcTypes, procVars
  <2>3. FirstOK'
    BY <1>0, <1>10, FirstKept DEF HaltChild, slotVars, cpuVars
  <2> QED
    BY <2>1, <2>2, <2>3 DEF TypeInv, TypeOK
<1>11. CASE Exit(t)
  <2>1. SlotTypes' /\ CpuTypes' /\ ProcTypes'
    <3>0. cur[t] \in Pids /\ parent[t] \in Pids /\ PCB[parent[t]].pid \in Pids
      BY <1>0, <1>11 DEF Exit, At, LocalsOK, TypeOK, SlotTypes, ProcTypes, PidOrNone
    <3>4. PCB[cur[t]].esp \in PidOrNone
      BY <1>0, <3>0 DEF TypeOK, SlotTypes
    <3>5. Replace(multi_process_idx, current_process_pid, PCB[parent[t]].pid) \in [Slots -> Pids]
      BY <1>0, <3>0, ReplaceType DEF TypeOK, SlotTypes
    <3>1. SlotTypes'
      BY <1>0, <1>11, <3>0, <3>4, <3>5, HaltValueType, ProcessesAssumption DEF Exit, TypeOK, SlotTypes, slotVars, PidOrNone
    <3>2. CpuTypes'
      BY <1>0, <1>11, <3>0, <3>4, <3>5, HaltValueType, ProcessesAssumption DEF Exit, GoTo, TypeOK, CpuTypes, cpuVars, Points, Kinds
    <3>3. ProcTypes'
      BY <1>0, <1>11, <3>0, <3>4, <3>5, HaltValueType, ProcessesAssumption DEF Exit, SlotTypes, TypeOK, ProcTypes, procVars, PidOrNone
    <3> QED
      BY <3>1, <3>2, <3>3
  <2>2. LocalsOK'
    BY <1>0, <1>11, LocalsKept DEF Exit, At, GoTo, LocalsOK, TypeOK, CpuTypes, ProcTypes, procVars
  <2>3. FirstOK'
    BY <1>0, <1>11, FirstKept DEF Exit, slotVars, cpuVars
  <2> QED
    BY <2>1, <2>2, <2>3 DEF TypeInv, TypeOK
<1>12. CASE ExitNullParent(t)
  <2>1. SlotTypes' /\ CpuTypes' /\ ProcTypes'
    BY <1>0, <1>12 DEF ExitNullParent, At, GoTo, LocalsOK, TypeOK, SlotTypes, CpuTypes, ProcTypes,
                      slotVars, cpuVars, procVars, Points, Kinds, PidOrNone
  <2>2. LocalsOK'
    BY <1>0, <1>12, LocalsKept DEF ExitNullParent, At, GoTo, LocalsOK, TypeOK, CpuTypes, ProcTypes, procVars
  <2>3. FirstOK'
    BY <1>0, <1>12, FirstKept DEF ExitNullParent, slotVars, cpuVars
  <2> QED
    BY <2>1, <2>2, <2>3 DEF TypeInv, TypeOK
<1>13. CASE ReturnFromHalt(t)
  <2>1. SlotTypes' /\ CpuTypes' /\ ProcTypes'
    BY <1>0, <1>13 DEF ReturnFromHalt, At, GoTo, LocalsOK, TypeOK, SlotTypes, CpuTypes, ProcTypes,
                      slotVars, cpuVars, procVars, Points, Kinds, PidOrNone, HALT_EXCEPTION
  <2>2. LocalsOK'
    BY <1>0, <1>13, LocalsKept DEF ReturnFromHalt, At, GoTo, LocalsOK, TypeOK, CpuTypes, ProcTypes, procVars
  <2>3. FirstOK'
    BY <1>0, <1>13, FirstKept DEF ReturnFromHalt, slotVars, cpuVars
  <2> QED
    BY <2>1, <2>2, <2>3 DEF TypeInv, TypeOK
<1>14. CASE SysVidmap(t)
  <2>1. SlotTypes' /\ CpuTypes' /\ ProcTypes'
    BY <1>0, <1>14 DEF SysVidmap, At, GoTo, LocalsOK, TypeOK, SlotTypes, CpuTypes, ProcTypes,
                      slotVars, cpuVars, procVars, Points, Kinds, PidOrNone
  <2>2. LocalsOK'
    BY <1>0, <1>14, LocalsKept DEF SysVidmap, At, GoTo, LocalsOK, TypeOK, CpuTypes, ProcTypes, procVars
  <2>3. FirstOK'
    BY <1>0, <1>14, FirstKept DEF SysVidmap, slotVars, cpuVars
  <2> QED
    BY <2>1, <2>2, <2>3 DEF TypeInv, TypeOK
<1>15. ASSUME NEW s \in Nat, HaltWrapper(t, s)
      PROVE  TypeInv'
  <2>1. SlotTypes' /\ CpuTypes' /\ ProcTypes'
    BY <1>0, <1>15 DEF HaltWrapper, At, GoTo, LocalsOK, TypeOK, SlotTypes, CpuTypes, ProcTypes,
                      slotVars, cpuVars, procVars, Points, Kinds, PidOrNone, HALT_EXCEPTION
  <2>2. LocalsOK'
    BY <1>0, <1>15, LocalsKept DEF HaltWrapper, At, GoTo, LocalsOK, TypeOK, CpuTypes, ProcTypes, procVars
  <2>3. FirstOK'
    BY <1>0, <1>15, FirstKept DEF HaltWrapper, slotVars, cpuVars
  <2> QED
    BY <2>1, <2>2, <2>3 DEF TypeInv, TypeOK
<1>16. \A s \in Status \cup (IF Faults THEN {HALT_EXCEPTION} ELSE {}) : s \in Nat
  BY ProcessesAssumption DEF HALT_EXCEPTION
<1> QED
  BY <1>1, <1>2, <1>3, <1>4, <1>5, <1>6, <1>7, <1>8, <1>9, <1>10, <1>11, <1>12, <1>13, <1>14, <1>15, <1>16 DEF ThreadStep, UserStep

-----------------------------------------------------------------------------
LEMMA NextTypes == TypeInv /\ [Next]_vars => TypeInv'
<1>1. CASE Next
  BY <1>1, SchedulerTypes, ThreadTypes DEF Next
<1>2. ASSUME TypeInv, UNCHANGED vars PROVE TypeInv'
  BY <1>2 DEF vars, slotVars, cpuVars, procVars, TypeInv, TypeOK, SlotTypes, CpuTypes,
              ProcTypes, LocalsOK, FirstOK, AllStarted, PidOrNone
<1> QED
  BY <1>1, <1>2

\* The kernel's tables, its CPU registers and the locals of its system calls
\* never leave their ranges, whichever instruction an interrupt hits: no pid
\* or slot index outside the arrays of scheduler.c and syscalls.c.
THEOREM TypeCorrect == Spec => []TypeOK
<1>1. TypeInv => TypeOK
  BY DEF TypeInv
<1> QED
  BY InitTypes, NextTypes, <1>1, PTL DEF Spec

-----------------------------------------------------------------------------
\* While shells are being started nothing has masked the keyboard, and the
\* terminal on display is the one of the last shell: the last start leaves
\* display and schedule in the same slot.
StartingUp ==
  ~AllStarted =>
    /\ ~keyboard_disabled
    /\ current_multiprocess = MAX_MULTIPROCESS_NUM - 1
    /\ num_multiprocess > 0 => current_term = num_multiprocess - 1

GateInv == TypeInv /\ KeyboardGate /\ StartingUp

LEMMA InitGate == Init => GateInv
<1> SUFFICES ASSUME Init PROVE GateInv
  OBVIOUS
<1>1. TypeInv
  BY InitTypes
<1>2. ~AllStarted
  BY SizesAssumption DEF Init, SchedulerInit, AllStarted
<1> QED
  BY <1>1, <1>2 DEF GateInv, KeyboardGate, StartingUp, Init, SchedulerInit

\* A switch to slot `to' leaves the gate as the slot and the display require.
LEMMA SwitchGate ==
  ASSUME NEW from, NEW to, NEW term, NEW frame, NEW svc,
         ContextSwitch(from, to, term, frame, svc),
         current_multiprocess' = to, current_term' = term, AllStarted'
  PROVE  KeyboardGate' /\ StartingUp'
<1>1. keyboard_disabled' = (to # term) \/ fate' = "panic"
  BY DEF ContextSwitch, KeyboardMasked
<1> QED
  BY <1>1 DEF KeyboardGate, StartingUp

LEMMA SchedulerGate ==
  ASSUME ~BootKeys, GateInv, SchedulerNext
  PROVE  KeyboardGate' /\ StartingUp'
<1>0. TypeInv /\ KeyboardGate /\ StartingUp
  BY DEF GateInv
<1>1. ASSUME NEW svc, NextSlot(svc), AllStarted' PROVE KeyboardGate' /\ StartingUp'
  BY <1>1, SwitchGate DEF NextSlot
<1>2. ASSUME NEW new, NEW frame, NEW svc, SwitchTerminal(new, frame, svc), AllStarted'
      PROVE  KeyboardGate' /\ StartingUp'
  BY <1>2, SwitchGate DEF SwitchTerminal
<1>3. CASE StartShell
  <2>1. /\ ~AllStarted /\ num_multiprocess \in 0 .. MAX_MULTIPROCESS_NUM
        /\ num_multiprocess' = num_multiprocess + 1
        /\ current_term' = num_multiprocess
        /\ current_multiprocess' = current_multiprocess
        /\ keyboard_disabled' = keyboard_disabled
    BY <1>0, <1>3 DEF StartShell, AllStarted, TypeInv, TypeOK, SlotTypes
  <2> QED
    BY <1>0, <2>1, SizesAssumption DEF KeyboardGate, StartingUp, AllStarted
<1>4. CASE Timer
  <2>1. AllStarted'
    BY <1>4 DEF Timer, AllStarted
  <2> QED
    BY <1>1, <1>2, <1>4, <2>1 DEF Timer
<1>5. ASSUME NEW new \in Slots, KeySwitch(new) PROVE KeyboardGate' /\ StartingUp'
  <2>1. AllStarted'
    BY <1>5 DEF KeySwitch, AllStarted
  <2> QED
    BY <1>2, <1>5, <2>1 DEF KeySwitch
<1>6. CASE ResumeFrame
  BY <1>0, <1>6 DEF ResumeFrame, slotVars, KeyboardGate, StartingUp, AllStarted
<1>7. CASE ResumeFirst
  <2>1. AllStarted'
    BY <1>0, <1>7 DEF ResumeFirst, TypeInv, TypeOK, CpuTypes, FirstOK, AllStarted
  <2> QED
    BY <1>1, <1>7, <2>1 DEF ResumeFirst
<1> QED
  BY <1>3, <1>4, <1>5, <1>6, <1>7 DEF SchedulerNext

\* System calls have no hand in the gate.
LEMMA ThreadSlots ==
  ASSUME NEW t \in Slots, ThreadStep(t) \/ UserStep(t)
  PROVE  /\ UNCHANGED <<num_multiprocess, current_multiprocess, keyboard_disabled,
                        current_term, run, susp, inService>>
         /\ fate = "ok" /\ run = t /\ susp[t] = "none"
<1> DEFINE Kept == /\ UNCHANGED <<num_multiprocess, current_multiprocess, keyboard_disabled,
                                  current_term, run, susp, inService>>
                   /\ fate = "ok" /\ run = t /\ susp[t] = "none"
<1> USE DEF At, slotVars, cpuVars
<1>1. Execute(t) \/ SysVidmap(t) => Kept
  BY DEF Execute, SysVidmap
<1>2. ExecParent(t) \/ ExecWalk(t) \/ ExecFind(t) \/ ExecFull(t) => Kept
  BY DEF ExecParent, ExecWalk, ExecFind, ExecFull
<1>3. ExecClaim(t) => Kept
  BY DEF ExecClaim
<1>4. ExecLoad(t) => Kept
  BY DEF ExecLoad
<1>5. HaltRoot(t) \/ Respawn(t) \/ HaltChild(t) => Kept
  BY DEF HaltRoot, Respawn, HaltChild
<1>6. Exit(t) \/ ExitNullParent(t) \/ ReturnFromHalt(t) => Kept
  BY DEF Exit, ExitNullParent, ReturnFromHalt
<1>7. ASSUME NEW s, HaltWrapper(t, s) PROVE Kept
  BY <1>7 DEF HaltWrapper
<1> QED
  BY <1>1, <1>2, <1>3, <1>4, <1>5, <1>6, <1>7 DEF ThreadStep, UserStep

LEMMA NextGate == ~BootKeys /\ GateInv /\ [Next]_vars => GateInv'
<1> SUFFICES ASSUME ~BootKeys, GateInv, [Next]_vars PROVE GateInv'
  OBVIOUS
<1>1. TypeInv'
  BY NextTypes DEF GateInv
<1>2. CASE SchedulerNext
  BY <1>1, <1>2, SchedulerGate DEF GateInv
<1>3. ASSUME NEW t \in Slots, ThreadStep(t) \/ UserStep(t) PROVE GateInv'
  BY <1>1, <1>3, ThreadSlots DEF GateInv, KeyboardGate, StartingUp, AllStarted
<1>4. CASE UNCHANGED vars
  BY <1>1, <1>4 DEF vars, slotVars, cpuVars, GateInv, KeyboardGate, StartingUp, AllStarted
<1> QED
  BY <1>2, <1>3, <1>4 DEF Next

\* Once every shell is started, keys reach the kernel only while the slot of
\* the terminal on display is scheduled, at whatever points interrupts arrive
\* and however system calls race: the keyboard line is masked by
\* process_context_switch exactly when it enters another slot.
THEOREM GateCorrect ==
  ASSUME ~BootKeys
  PROVE  Spec => []KeyboardGate
<1>1. GateInv => KeyboardGate
  BY DEF GateInv
<1>2. GateInv /\ [Next]_vars => GateInv'
  BY NextGate
<1> QED
  BY InitGate, <1>1, <1>2, PTL DEF Spec

-----------------------------------------------------------------------------
\* Threads that have run: entry() and the slots whose shell was started.
Started == {t \in Threads : t = Boot \/ t < num_multiprocess}

\* Only threads that have run are running, saved or suspended.
OnlyStarted ==
  /\ run \in Started
  /\ \A p \in Pids : all_process[p].saved_esp \in Started \cup {NONE}
  /\ \A t \in Threads : susp[t] # "none" => t \in Started

\* With interrupts enabled the running thread is not inside a handler.
NotInHandler == interrupts => susp[run] = "none"

ServiceInv == TypeInv /\ KeyboardInService /\ OnlyStarted /\ NotInHandler

LEMMA InitService == Init => ServiceInv
<1> SUFFICES ASSUME Init PROVE ServiceInv
  OBVIOUS
<1>1. TypeInv
  BY InitTypes
<1>2. susp = [t \in Threads |-> "none"] /\ run = Boot /\ inService = {} /\ Boot \in Threads
  BY SizesAssumption DEF Init, SchedulerInit, Boot, Threads
<1>3. KeyboardInService /\ NotInHandler
  BY <1>2 DEF KeyboardInService, NotInHandler
<1>4. OnlyStarted
  <2>1. \A p \in Pids : all_process[p].saved_esp = NONE
    BY DEF Init, SchedulerInit
  <2> QED
    BY <1>2, <2>1 DEF OnlyStarted, Started
<1> QED
  BY <1>1, <1>3, <1>4 DEF ServiceInv

\* A switch parks the running thread in `frame': the keyboard line is held
\* by it exactly if the frame is the keyboard handler's.
LEMMA SwitchService ==
  ASSUME ServiceInv, susp[run] \in {"none", "first"},
         NEW from \in Slots, NEW to \in Slots, NEW term, NEW frame \in {"pit", "first", "kbd"},
         NEW svc,
         ContextSwitch(from, to, term, frame, svc),
         frame = "kbd" => KEYBOARD_IRQ \notin inService /\ KEYBOARD_IRQ \in svc,
         frame # "kbd" => (KEYBOARD_IRQ \in svc <=> KEYBOARD_IRQ \in inService),
         UNCHANGED num_multiprocess
  PROVE  KeyboardInService' /\ OnlyStarted' /\ NotInHandler'
<1>1. run \in Threads /\ susp \in [Threads -> {"none", "pit", "first", "kbd"}]
  BY DEF ServiceInv, TypeInv, TypeOK, CpuTypes
<1>2. susp' = [susp EXCEPT ![run] = frame] /\ interrupts' = FALSE
  BY DEF ContextSwitch
<1>3. KEYBOARD_IRQ \in inService' <=> KEYBOARD_IRQ \in svc
  BY DEF ContextSwitch, Acknowledge, KEYBOARD_IRQ, PIT_IRQ
<1>4. KeyboardInService'
  <2>1. CASE frame = "kbd"
    <3>1. {t \in Threads : susp[t] = "kbd"} = {}
      BY <2>1 DEF ServiceInv, KeyboardInService
    <3>2. {t \in Threads : susp'[t] = "kbd"} = {run}
      BY <1>1, <1>2, <2>1, <3>1
    <3> QED
      BY <1>3, <2>1, <3>2 DEF KeyboardInService
  <2>2. CASE frame # "kbd"
    <3>1. {t \in Threads : susp'[t] = "kbd"} = {t \in Threads : susp[t] = "kbd"}
      BY <1>1, <1>2, <2>2
    <3> QED
      BY <1>3, <2>2, <3>1 DEF ServiceInv, KeyboardInService
  <2> QED
    BY <2>1, <2>2
<1>5. OnlyStarted'
  <2>1. Started' = Started
    BY DEF Started
  <2> DEFINE saved == [all_process EXCEPT ![RecordOf(from)].saved_esp = run]
             dst == RecordOf(to)
  <2>2. RecordOf(from) \in Pids /\ dst \in Pids
    BY DEF RecordOf, ServiceInv, TypeInv, TypeOK, SlotTypes
  <2>3. \A p \in Pids : saved[p].saved_esp \in Started \cup {NONE}
    BY <2>2 DEF ServiceInv, OnlyStarted, TypeInv, TypeOK, SlotTypes
  <2>4. \A p \in Pids : [saved EXCEPT ![dst].saved_esp = NONE][p].saved_esp \in Started \cup {NONE}
    BY <2>2, <2>3 DEF ServiceInv, TypeInv, TypeOK, SlotTypes
  <2>5. \A p \in Pids : all_process'[p].saved_esp \in Started \cup {NONE}
    BY <2>3, <2>4 DEF ContextSwitch
  <2>6. run' \in Started
    <3>1. run' = run \/ (saved[dst].saved_esp # NONE /\ run' = saved[dst].saved_esp)
      BY DEF ContextSwitch
    <3> HIDE DEF saved, dst
    <3> QED
      BY <2>2, <2>3, <3>1 DEF ServiceInv, OnlyStarted
  <2>7. \A t \in Threads : susp'[t] # "none" => t \in Started
    BY <1>1, <1>2 DEF ServiceInv, OnlyStarted
  <2> QED
    BY <2>1, <2>5, <2>6, <2>7 DEF OnlyStarted
<1>6. NotInHandler'
  BY <1>2 DEF NotInHandler
<1> QED
  BY <1>4, <1>5, <1>6

LEMMA SchedulerService ==
  ASSUME ServiceInv, SchedulerNext
  PROVE  KeyboardInService' /\ OnlyStarted' /\ NotInHandler'
<1>0. /\ TypeInv /\ KeyboardInService /\ OnlyStarted /\ NotInHandler
      /\ run \in Threads /\ susp \in [Threads -> {"none", "pit", "first", "kbd"}]
      /\ current_multiprocess \in Slots /\ current_term \in Slots
  BY DEF ServiceInv, TypeInv, TypeOK, CpuTypes, SlotTypes
<1>1. Interruptible => susp[run] = "none"
  BY <1>0 DEF Interruptible, NotInHandler
<1>2. CASE StartShell
  <2> DEFINE n == num_multiprocess
  <2>1. /\ n \in Slots /\ n \in Threads /\ n # Boot /\ n \notin Started
        /\ n > 0 => n - 1 \in Slots
    BY <1>0, <1>2, SizesAssumption
    DEF StartShell, TypeInv, TypeOK, SlotTypes, Slots, Threads, Boot, Started
  <2>2. /\ susp' = [susp EXCEPT ![run] = "pit"] /\ run' = n
        /\ inService' = inService /\ num_multiprocess' = n + 1 /\ susp[run] = "none"
    BY <1>1, <1>2 DEF StartShell
  <2>3. KeyboardInService'
    <3>1. {t \in Threads : susp'[t] = "kbd"} = {t \in Threads : susp[t] = "kbd"}
      BY <1>0, <2>2
    <3> QED
      BY <1>0, <2>2, <3>1 DEF KeyboardInService
  <2>4. Started \cup {n} \subseteq Started'
    BY <2>1, <2>2 DEF Started, Slots, Threads
  <2>5. run \in Started /\ run # n
    BY <1>0, <2>1 DEF OnlyStarted
  <2>6. susp'[n] = "none"
    BY <1>0, <2>1, <2>2, <2>5 DEF OnlyStarted
  <2>7. OnlyStarted'
    <3> DEFINE saved == IF n > 0
                        THEN [all_process EXCEPT ![multi_process_idx[n - 1]].saved_esp = run]
                        ELSE all_process
               new == [PCB |-> n, active_terminal_idx |-> n, saved_esp |-> NONE]
    <3>1. \A p \in Pids : saved[p].saved_esp \in Started \cup {NONE}
      BY <1>0, <2>1, <2>5 DEF OnlyStarted, TypeInv, TypeOK, SlotTypes
    <3>2. DOMAIN saved = Pids
      BY <1>0 DEF TypeInv, TypeOK, SlotTypes
    <3>3. all_process' = [saved EXCEPT ![n] = new] /\ new.saved_esp = NONE
      BY <1>2 DEF StartShell
    <3>4. \A p \in Pids : all_process'[p].saved_esp \in Started' \cup {NONE}
      <4> HIDE DEF saved, new
      <4> QED
        BY <3>1, <3>2, <3>3, <2>4
    <3>5. \A t \in Threads : susp'[t] # "none" => t \in Started'
      BY <1>0, <2>2, <2>4, <2>5 DEF OnlyStarted
    <3> QED
      BY <2>2, <2>4, <3>4, <3>5 DEF OnlyStarted
  <2> QED
    BY <2>2, <2>3, <2>6, <2>7 DEF NotInHandler
<1>3. ASSUME NEW svc, NextSlot(svc), susp[run] \in {"none", "first"}, AllStarted,
             KEYBOARD_IRQ \in svc <=> KEYBOARD_IRQ \in inService,
             UNCHANGED num_multiprocess
      PROVE  KeyboardInService' /\ OnlyStarted' /\ NotInHandler'
  <2> DEFINE next == (current_multiprocess + 1) % num_multiprocess
  <2>1. next \in Slots
    BY <1>0, <1>3, RotationStays DEF AllStarted
  <2>2. ContextSwitch(current_multiprocess, next, current_term, "pit", svc)
    BY <1>3 DEF NextSlot
  <2> HIDE DEF next
  <2> QED
    BY <1>0, <1>3, <2>1, <2>2, SwitchService
<1>4. ASSUME NEW new \in Slots, NEW frame \in {"first", "kbd"}, NEW svc,
             SwitchTerminal(new, frame, svc), susp[run] = "none",
             frame = "kbd" => KEYBOARD_IRQ \notin inService /\ KEYBOARD_IRQ \in svc,
             frame # "kbd" => (KEYBOARD_IRQ \in svc <=> KEYBOARD_IRQ \in inService),
             UNCHANGED num_multiprocess
      PROVE  KeyboardInService' /\ OnlyStarted' /\ NotInHandler'
  <2>1. ContextSwitch(current_term, new, new, frame, svc)
    BY <1>4 DEF SwitchTerminal
  <2> QED
    BY <1>0, <1>4, <2>1, SwitchService
<1>5. KEYBOARD_IRQ \in inService \cup {PIT_IRQ} <=> KEYBOARD_IRQ \in inService
  BY DEF KEYBOARD_IRQ, PIT_IRQ
<1>6. CASE Timer
  <2>1. susp[run] = "none" /\ AllStarted /\ UNCHANGED num_multiprocess
    BY <1>1, <1>6 DEF Timer, AllStarted
  <2>2. CASE ~on_default_term /\ current_term # 0
    <3>1. SwitchTerminal(0, "first", inService \cup {PIT_IRQ}) /\ 0 \in Slots
      BY <1>6, <2>2, Constants DEF Timer
    <3> QED
      BY <1>4, <1>5, <2>1, <3>1
  <2>3. CASE ~(~on_default_term /\ current_term # 0)
    <3>1. NextSlot(inService \cup {PIT_IRQ})
      BY <1>6, <2>3 DEF Timer
    <3> QED
      BY <1>3, <1>5, <2>1, <3>1
  <2> QED
    BY <2>2, <2>3
<1>7. ASSUME NEW new \in Slots, KeySwitch(new)
      PROVE  KeyboardInService' /\ OnlyStarted' /\ NotInHandler'
  <2>1. /\ SwitchTerminal(new, "kbd", inService \cup {KEYBOARD_IRQ})
        /\ KEYBOARD_IRQ \notin inService /\ susp[run] = "none" /\ UNCHANGED num_multiprocess
    BY <1>1, <1>7 DEF KeySwitch
  <2> QED
    BY <1>4, <2>1
<1>8. CASE ResumeFrame
  <2>1. /\ susp' = [susp EXCEPT ![run] = "none"] /\ run' = run
        /\ susp[run] \in {"pit", "kbd"}
        /\ UNCHANGED <<num_multiprocess, all_process>>
        /\ inService' = IF susp[run] = "kbd" THEN inService \ {KEYBOARD_IRQ} ELSE inService
    BY <1>8 DEF ResumeFrame, slotVars, Acknowledge
  <2>2. KeyboardInService'
    <3>1. CASE susp[run] = "kbd"
      <4>1. {t \in Threads : susp[t] = "kbd"} = {run}
        BY <1>0, <3>1 DEF KeyboardInService
      <4>2. {t \in Threads : susp'[t] = "kbd"} = {}
        BY <1>0, <2>1, <4>1
      <4> QED
        BY <2>1, <3>1, <4>2 DEF KeyboardInService
    <3>2. CASE susp[run] = "pit"
      <4>1. {t \in Threads : susp'[t] = "kbd"} = {t \in Threads : susp[t] = "kbd"}
        BY <1>0, <2>1, <3>2
      <4> QED
        BY <1>0, <2>1, <3>2, <4>1 DEF KeyboardInService
    <3> QED
      BY <2>1, <3>1, <3>2
  <2>3. OnlyStarted' /\ NotInHandler'
    BY <1>0, <2>1 DEF OnlyStarted, Started, NotInHandler
  <2> QED
    BY <2>2, <2>3
<1>9. CASE ResumeFirst
  <2>1. /\ NextSlot(inService) /\ susp[run] = "first" /\ UNCHANGED num_multiprocess
        /\ AllStarted
    BY <1>0, <1>9 DEF ResumeFirst, TypeInv, FirstOK
  <2> QED
    BY <1>3, <2>1
<1> QED
  BY <1>2, <1>6, <1>7, <1>8, <1>9 DEF SchedulerNext

\* System calls save no stack pointer: at most they clear one.
LEMMA ThreadSaved ==
  ASSUME TypeInv, NEW t \in Slots, ThreadStep(t) \/ UserStep(t)
  PROVE  \A p \in Pids : all_process'[p].saved_esp \in {all_process[p].saved_esp, NONE}
<1>1. CASE ExecLoad(t)
  BY <1>1 DEF ExecLoad, TypeInv, TypeOK, SlotTypes
<1>2. CASE ~ExecLoad(t)
  <2>1. ASSUME NEW s, HaltWrapper(t, s) PROVE all_process' = all_process
    BY <2>1 DEF HaltWrapper, slotVars
  <2>2. all_process' = all_process
    BY <1>2, <2>1
    DEF ThreadStep, UserStep, Execute, SysVidmap, ExecParent, ExecWalk, ExecFind, ExecFull,
        ExecClaim, HaltRoot, Respawn, HaltChild, Exit, ExitNullParent, ReturnFromHalt, slotVars
  <2> QED
    BY <2>2
<1> QED
  BY <1>1, <1>2

LEMMA NextService == ServiceInv /\ [Next]_vars => ServiceInv'
<1> SUFFICES ASSUME ServiceInv, [Next]_vars PROVE ServiceInv'
  OBVIOUS
<1>1. TypeInv'
  BY NextTypes DEF ServiceInv
<1>2. CASE SchedulerNext
  BY <1>1, <1>2, SchedulerService DEF ServiceInv
<1>3. ASSUME NEW t \in Slots, ThreadStep(t) \/ UserStep(t) PROVE ServiceInv'
  <2>1. /\ UNCHANGED <<num_multiprocess, run, susp, inService>>
        /\ susp[run] = "none"
    BY <1>3, ThreadSlots
  <2>2. \A p \in Pids : all_process'[p].saved_esp \in {all_process[p].saved_esp, NONE}
    BY <1>3, ThreadSaved DEF ServiceInv
  <2>3. KeyboardInService' /\ NotInHandler'
    BY <2>1 DEF ServiceInv, KeyboardInService, NotInHandler
  <2>4. OnlyStarted'
    BY <2>1, <2>2 DEF ServiceInv, OnlyStarted, Started
  <2> QED
    BY <1>1, <2>3, <2>4 DEF ServiceInv
<1>4. CASE UNCHANGED vars
  BY <1>1, <1>4 DEF vars, slotVars, cpuVars, ServiceInv, KeyboardInService, OnlyStarted,
                    Started, NotInHandler
<1> QED
  BY <1>2, <1>3, <1>4 DEF Next

\* The keyboard interrupt is acknowledged exactly once per alt+Fn, however
\* long its handler stays parked in the middle of a terminal switch and at
\* whatever points interrupts arrive: the line is in service exactly while
\* one thread is inside the handler.
THEOREM ServiceCorrect == Spec => []KeyboardInService
<1>1. ServiceInv => KeyboardInService
  BY DEF ServiceInv
<1> QED
  BY InitService, NextService, <1>1, PTL DEF Spec
=============================================================================
