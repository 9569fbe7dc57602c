------------------------------- MODULE Kernel -------------------------------
(***************************************************************************)
(* The kernel as one system: the scheduler and the process system calls on *)
(* one CPU, with what they have to keep true between them.                 *)
(***************************************************************************)
EXTENDS Processes

vars == <<slotVars, cpuVars, PCB, kind, pc, procVars>>

Init == SchedulerInit /\ ProcessesInit

Next ==
  \/ SchedulerNext /\ UNCHANGED procVars
  \/ \E t \in Slots : ThreadStep(t)
  \/ \E t \in Slots : UserStep(t)

Spec == Init /\ [][Next]_vars

\* The timer line stays raised in the PIC until it is served, so it may not
\* be put off for ever by code that keeps clearing IF: strong fairness.  The
\* CPU executes the instructions of the running thread: weak fairness.  User
\* programs owe nothing.
Fairness ==
  /\ SF_vars((StartShell \/ Timer) /\ UNCHANGED procVars)
  /\ WF_vars((ResumeFrame \/ ResumeFirst) /\ UNCHANGED procVars)
  /\ \A t \in Slots : SF_vars(ThreadStep(t))

FairSpec == Spec /\ Fairness

-----------------------------------------------------------------------------
PidOrNone == Pids \cup {NONE}

SlotTypes ==
  /\ num_multiprocess \in 0 .. MAX_MULTIPROCESS_NUM
  /\ current_multiprocess \in Slots
  /\ on_default_term \in BOOLEAN
  /\ keyboard_disabled \in BOOLEAN
  /\ multi_process_idx \in [Slots -> Pids]
  /\ all_process \in [Pids -> [PCB : PidOrNone, active_terminal_idx : Pids,
                               saved_esp : Threads \cup {NONE}]]
  /\ PCB \in [Pids -> [running : BOOLEAN, pid : Pids, parent : PidOrNone,
                       esp : PidOrNone]]
  /\ current_term \in Slots

CpuTypes ==
  /\ current_process_pid \in Pids
  /\ pde \in Pids
  /\ esp0 \in Pids
  /\ vidmap \in Slots \cup {SCREEN}
  /\ run \in Threads
  /\ interrupts \in BOOLEAN
  /\ inService \subseteq {PIT_IRQ, KEYBOARD_IRQ}
  /\ susp \in [Threads -> {"none", "pit", "first", "kbd"}]
  /\ fate \in {"ok", "panic", "wild"}
  /\ kind \in [Threads -> Kinds]
  /\ pc \in [Threads -> Points]

ProcTypes ==
  /\ error_return_value \in 0 .. HALT_EXCEPTION
  /\ parent \in [Threads -> PidOrNone]
  /\ root \in [Threads -> PidOrNone]
  /\ idx \in [Threads -> PidOrNone]
  /\ cur \in [Threads -> PidOrNone]
  /\ status \in [Threads -> Nat]
  /\ prog \in [Threads -> PidOrNone]
  /\ owner \in [Pids -> Threads \cup {NONE}]

\* Type invariant of every variable of the model: in particular the global
\* exit status stays in 0..256 and a pid never leaves the table.
TypeOK == SlotTypes /\ CpuTypes /\ ProcTypes

AllStarted == num_multiprocess = MAX_MULTIPROCESS_NUM
Executing(t) == run = t /\ susp[t] = "none"

\* No step of the kernel follows a NULL pointer or a stack pointer that does
\* not lead to a live frame, nor loads a program over a live image and stack.
NoCrash == fate = "ok"

\* Whenever user code runs, the three views of "the current process" (the
\* global, the page directory, the TSS) and the scheduler's table agree on
\* the process it belongs to, in spite of switches in the middle of system
\* calls and of interrupts.
UserContext ==
  Executing(run) /\ pc[run] = "user" =>
    {current_process_pid, pde, esp0, multi_process_idx[run]} = {prog[run]}

\* The interrupted thread is the one the scheduler believes to be current, so
\* a switch saves it into its own record; every other slot is parked in the
\* record its table entry names, with its own terminal and its own stack, and
\* the next rotation to it resumes it and nobody else.
ParkedInOwnRecord ==
  AllStarted =>
    /\ run = current_multiprocess
    /\ \A s \in Slots \ {run} :
         all_process[multi_process_idx[s]] =
           [PCB |-> multi_process_idx[s], active_terminal_idx |-> s, saved_esp |-> s]

\* A pid is marked running exactly while a thread is on its stack, apart from
\* the claim that is being made and the halt that is being carried out: no
\* PCB leaks and none is free while it is in use.
RunningIffOwned ==
  \A p \in Pids : PCB[p].running # (owner[p] # NONE) =>
    \E t \in Slots :
      \/ PCB[p].running /\ pc[t] = "claimed" /\ idx[t] = p
      \/ ~PCB[p].running /\ pc[t] \notin {"user", "halt", "returned"} /\ cur[t] = p

\* The processes of a slot form one chain from its root shell to the process
\* it runs: each non-root was started by, and will return to, its parent,
\* which is in the same slot and waits for no other child.
OneChainPerSlot ==
  \A p \in Pids : owner[p] # NONE =>
    IF p < MAX_MULTIPROCESS_NUM
    THEN owner[p] = p /\ PCB[p].parent = NONE
    ELSE LET q == PCB[p].parent
         IN /\ q = PCB[p].esp
            /\ owner[q] = owner[p]
            /\ \A r \in Pids \ {p} : owner[r] # NONE => PCB[r].parent # q
            /\ q # multi_process_idx[owner[p]]

\* Once the shells are up, the keyboard line is open exactly while the slot
\* of the terminal on display is scheduled: no key is handled in the context
\* of a program of another terminal, even when system calls race.
KeyboardGate ==
  AllStarted /\ fate = "ok" =>
    (keyboard_disabled <=> current_term # current_multiprocess)

\* The keyboard line waits for an EOI exactly while one thread is parked
\* inside the keyboard handler: the EOI is never sent twice nor forgotten.
KeyboardInService ==
  LET parked == {t \in Threads : susp[t] = "kbd"}
  IN IF KEYBOARD_IRQ \in inService
     THEN \E t \in parked : parked = {t}
     ELSE parked = {}

\* With no vidmap call, user code always sees its own terminal through the
\* video page: the screen if it is on display, its backup buffer otherwise.
VideoRouted ==
  AllStarted /\ Executing(run) =>
    vidmap = IF current_term = run THEN SCREEN ELSE run

\* What execute returns to the parent is what the child passed to halt, or
\* HALT_EXCEPTION if an exception ended it.
ExitStatusDelivered ==
  [][\A t \in Slots : pc[t] = "returned" /\ pc'[t] = "user" =>
       error_return_value = IF status[t] = HALT_EXCEPTION THEN HALT_EXCEPTION
                            ELSE status[t] % 256]_vars

-----------------------------------------------------------------------------
\* Every slot is scheduled again and again, whatever is typed.
EverySlotScheduled == \A s \in Slots : []<>(Executing(s))

\* The keyboard is never left without its EOI.
KeyboardComesBack == KEYBOARD_IRQ \in inService ~> KEYBOARD_IRQ \notin inService

\* A process that halts gives way to its parent or, for a root, to a new
\* shell; a process that calls execute runs again or its child does.
SystemCallsFinish == \A t \in Slots : pc[t] # "user" /\ t < num_multiprocess ~> pc[t] = "user"

-----------------------------------------------------------------------------
\* A statement of a comment of the source.

\* "get link to parent PCB, shouldn't be null at this point" (syscalls.c:105).
ParentNotNull == \A t \in Slots : pc[t] = "exiting" => parent[t] # NONE
=============================================================================
