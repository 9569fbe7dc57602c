----------------------------- MODULE Scheduler -----------------------------
(***************************************************************************)
(* The timer-driven scheduler, the context switch and the terminal switch  *)
(* (scheduler/scheduler.c, terminal_switch of devices/keyboard.c).         *)
(*                                                                         *)
(* The kernel has no idle task and no process table of its own for         *)
(* scheduling: it rotates MAX_MULTIPROCESS_NUM slots, one per terminal.    *)
(* A "thread" here is the chain of kernel frames that belongs to one slot; *)
(* thread Boot is kernel.c's entry(), which is interrupted by the first    *)
(* timer interrupt and never resumed.  all_process[p].saved_esp is         *)
(* abstracted to the thread whose live frame it points to: NONE stands for *)
(* a stack pointer that was never saved or whose frame was already         *)
(* returned through.                                                       *)
(***************************************************************************)
EXTENDS Integers

CONSTANTS
  MAX_MULTIPROCESS_NUM,  \* slots, terminals and root shells
  MAX_PROCESSES,         \* entries of PCB[] and all_process[]
  PreemptAt,             \* <<kind, pc>> points at which an IRQ may arrive
  BootKeys               \* may alt+Fn arrive before all shells are started?

Slots    == 0 .. MAX_MULTIPROCESS_NUM - 1
Pids     == 0 .. MAX_PROCESSES - 1
Boot     == MAX_MULTIPROCESS_NUM
Threads  == 0 .. MAX_MULTIPROCESS_NUM
NONE     == -1     \* a NULL pointer, or a stale stack pointer
SCREEN   == -1     \* the value of vidmap that means physical 0xB8000

PIT_IRQ      == 0
KEYBOARD_IRQ == 1

Kinds  == {"boot", "call", "respawn"}
Points == {"idle", "user", "exec", "walk", "found", "claimed",
           "halt", "respawn", "exiting", "returned"}

ASSUME SizesAssumption ==
  /\ MAX_MULTIPROCESS_NUM \in Nat \ {0}
  /\ MAX_PROCESSES \in Nat
  /\ MAX_MULTIPROCESS_NUM <= MAX_PROCESSES
ASSUME EnvironmentAssumption ==
  /\ PreemptAt \subseteq Kinds \X Points
  /\ BootKeys \in BOOLEAN

VARIABLES
  num_multiprocess, current_multiprocess, on_default_term, keyboard_disabled,
  multi_process_idx,    \* slot -> pid of the process the slot runs
  all_process,          \* pid -> process_t
  PCB,                  \* pid -> PCB_BLOCK_t
  current_process_pid, current_term,
  pde,                  \* pid whose 4MB image is mapped at 128MB
  esp0,                 \* pid whose kernel stack tss.esp0 points to
  vidmap,               \* what the user video page maps: SCREEN or a slot's backup
  run,                  \* thread whose frames the CPU executes
  interrupts,           \* EFLAGS.IF
  inService,            \* IRQ lines of the PIC without an EOI yet
  susp,                 \* thread -> interrupt frame it is suspended in
  fate,                 \* "ok", "panic" (kernel fault), "wild" (garbage frame)
  kind, pc              \* thread -> where it is in sys_execute and sys_halt

slotVars == <<num_multiprocess, current_multiprocess, on_default_term,
              keyboard_disabled, multi_process_idx, all_process, current_term>>
cpuVars  == <<current_process_pid, pde, esp0, vidmap, run, interrupts,
              inService, susp, fate>>

SchedulerInit ==
  /\ num_multiprocess = 0
  /\ current_multiprocess = MAX_MULTIPROCESS_NUM - 1
  /\ on_default_term = FALSE
  /\ keyboard_disabled = FALSE
  /\ multi_process_idx = [s \in Slots |-> 0]
  /\ all_process = [p \in Pids |-> [PCB |-> NONE, active_terminal_idx |-> 0, saved_esp |-> NONE]]
  /\ PCB = [p \in Pids |-> [running |-> FALSE, pid |-> 0, parent |-> NONE, esp |-> NONE]]
  /\ current_process_pid = 0
  /\ current_term = 0
  /\ pde = 0 /\ esp0 = 0
  /\ vidmap = SCREEN
  /\ run = Boot
  /\ interrupts = TRUE
  /\ inService = {}
  /\ susp = [t \in Threads |-> "none"]
  /\ fate = "ok"

-----------------------------------------------------------------------------
\* Edits of the helpers below that a mistake could make; the model never uses
\* them, the mutants of PROJECT.json do.
RecordOf_NoIndirection(slot)       == slot
VideoPage_NoBackup(to, term)       == SCREEN
KeyboardMasked_NeverReopened(to, term) == keyboard_disabled \/ to # term
Acknowledge_Forgotten(svc, irq)    == svc

\* The all_process[] entry a slot is saved to and restored from.
RecordOf(slot) == multi_process_idx[slot]

\* Where the user video page points for slot `to'.
VideoPage(to, term) == IF term = to THEN SCREEN ELSE to

\* "only allow typing on active terminal": is IRQ 1 masked while `to' runs?
KeyboardMasked(to, term) == to # term

\* send_eoi of the line, a specific EOI.
Acknowledge(svc, irq) == svc \ {irq}

\* process_context_switch(from, to) with current_term = term, called from a
\* frame of the running thread that continues as `frame' when it is resumed.
\* The PIC then holds the lines `svc', less the PIT's.
ContextSwitch(from, to, term, frame, svc) ==
  LET src   == RecordOf(from)
      dst   == RecordOf(to)
      saved == [all_process EXCEPT ![src].saved_esp = run]
      mapped == saved[dst].PCB # NONE
      ok    == mapped /\ saved[dst].saved_esp # NONE
  IN /\ current_process_pid' = dst
     /\ vidmap' = VideoPage(to, term)
     /\ pde'  = IF mapped THEN PCB[dst].pid ELSE pde
     /\ esp0' = IF mapped THEN PCB[dst].pid ELSE esp0
     /\ keyboard_disabled' = IF mapped THEN KeyboardMasked(to, term)
                           ELSE keyboard_disabled
     /\ inService' = IF mapped THEN Acknowledge(svc, PIT_IRQ) ELSE svc
     /\ susp' = [susp EXCEPT ![run] = frame]
     /\ interrupts' = FALSE
     /\ run' = IF ok THEN saved[dst].saved_esp ELSE run
     /\ all_process' = IF ok THEN [saved EXCEPT ![dst].saved_esp = NONE] ELSE saved
     /\ fate' = IF ~mapped THEN "panic" ELSE IF ok THEN fate ELSE "wild"

\* An edit of the next definition that a mistake could make (see PROJECT.json).
NextSlot_FromDisplay(svc) ==
  LET next == (current_term + 1) % num_multiprocess
  IN /\ on_default_term' = TRUE
     /\ current_multiprocess' = next
     /\ ContextSwitch(current_multiprocess, next, current_term, "pit", svc)
     /\ UNCHANGED current_term

\* Tail of scheduler_step: rotate to the next slot.
NextSlot(svc) ==
  LET next == (current_multiprocess + 1) % num_multiprocess
  IN /\ on_default_term' = TRUE
     /\ current_multiprocess' = next
     /\ ContextSwitch(current_multiprocess, next, current_term, "pit", svc)
     /\ UNCHANGED current_term

\* terminal_switch(new, 1) for another terminal than the one on display.
SwitchTerminal(new, frame, svc) ==
  /\ current_term' = new
  /\ current_multiprocess' = new
  /\ ContextSwitch(current_term, new, new, frame, svc)
  /\ UNCHANGED on_default_term

\* An interrupt is accepted: IF is set and the running code is at a point
\* where PreemptAt lets one arrive.
Interruptible ==
  /\ fate = "ok"
  /\ interrupts
  /\ <<kind[run], pc[run]>> \in PreemptAt

-----------------------------------------------------------------------------
\* scheduler_step while shells remain to be started: the interrupted thread
\* is parked and sys_execute("shell") begins in the next slot.
StartShell ==
  /\ Interruptible
  /\ PIT_IRQ \notin inService
  /\ num_multiprocess # MAX_MULTIPROCESS_NUM
  /\ LET n == num_multiprocess
         saved == IF n > 0
                  THEN [all_process EXCEPT ![multi_process_idx[n - 1]].saved_esp = run]
                  ELSE all_process
     IN /\ all_process' = [saved EXCEPT ![n] =
                             [PCB |-> n, active_terminal_idx |-> n, saved_esp |-> NONE]]
        /\ current_process_pid' = n
        /\ multi_process_idx' = [multi_process_idx EXCEPT ![n] = n]
        /\ current_term' = n
        /\ num_multiprocess' = n + 1
        /\ run' = n
        /\ kind' = [kind EXCEPT ![n] = "boot"]
        /\ pc' = [pc EXCEPT ![n] = "exec"]
  /\ susp' = [susp EXCEPT ![run] = "pit"]
  /\ UNCHANGED <<current_multiprocess, on_default_term, keyboard_disabled, PCB,
                 pde, esp0, vidmap, interrupts, inService, fate>>

\* scheduler_step once all slots exist.
Timer ==
  /\ Interruptible
  /\ PIT_IRQ \notin inService
  /\ num_multiprocess = MAX_MULTIPROCESS_NUM
  /\ IF ~on_default_term /\ current_term # 0
     THEN SwitchTerminal(0, "first", inService \cup {PIT_IRQ})
     ELSE NextSlot(inService \cup {PIT_IRQ})
  /\ UNCHANGED <<num_multiprocess, multi_process_idx, PCB, kind, pc>>

\* keyboard_handler on alt+Fn.  The line is masked by keyboard_disabled and
\* held back by the PIC while it, or the timer, is in service.
KeySwitch(new) ==
  /\ Interruptible
  /\ ~keyboard_disabled
  /\ inService = {}
  /\ BootKeys \/ num_multiprocess = MAX_MULTIPROCESS_NUM
  /\ new # current_term
  /\ SwitchTerminal(new, "kbd", inService \cup {KEYBOARD_IRQ})
  /\ UNCHANGED <<num_multiprocess, multi_process_idx, PCB, kind, pc>>

\* The restored frame runs to its iret: the caller of process_context_switch
\* finishes, with interrupts still disabled.
ResumeFrame ==
  /\ fate = "ok"
  /\ susp[run] \in {"pit", "kbd"}
  /\ inService' = IF susp[run] = "kbd" THEN Acknowledge(inService, KEYBOARD_IRQ)
                  ELSE inService
  /\ susp' = [susp EXCEPT ![run] = "none"]
  /\ interrupts' = TRUE
  /\ UNCHANGED <<slotVars, PCB, current_process_pid, pde, esp0, vidmap, run, fate, kind, pc>>

\* A thread parked inside terminal_switch(0, 1) goes on with scheduler_step:
\* it rotates away again before its own interrupted code continues.
ResumeFirst ==
  /\ fate = "ok"
  /\ susp[run] = "first"
  /\ NextSlot(inService)
  /\ UNCHANGED <<num_multiprocess, multi_process_idx, PCB, kind, pc>>

SchedulerNext ==
  \/ StartShell
  \/ Timer
  \/ \E new \in Slots : KeySwitch(new)
  \/ ResumeFrame
  \/ ResumeFirst
=============================================================================
