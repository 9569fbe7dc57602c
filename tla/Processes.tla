----------------------------- MODULE Processes -----------------------------
(***************************************************************************)
(* The system calls that create and end processes: sys_execute, sys_halt   *)
(* and sys_vidmap of interrupts/syscalls.c, entered by int 0x80 or by an   *)
(* exception of a user program.  Both gates leave IF set, so all of it     *)
(* except the cli sections interleaves with the scheduler.                 *)
(*                                                                         *)
(* `owner' and `prog' are history variables: whose frames occupy a pid's   *)
(* kernel stack (and whose image its 4MB page), and the program a thread's *)
(* user code belongs to.  When two threads come to share a stack or image  *)
(* what happens next is not defined by the C code: fate becomes "wild".    *)
(***************************************************************************)
EXTENDS Scheduler, FiniteSetsExt

CONSTANTS
  Status,          \* values user programs pass to halt
  Faults,          \* may a user program raise an exception?
  Vidmap,          \* may a user program call vidmap?
  FlagsAfterHalt   \* IF after the restore_flags that ends sys_halt

HALT_EXCEPTION == 256

ASSUME ProcessesAssumption ==
  /\ Status \subseteq Nat
  /\ Faults \in BOOLEAN
  /\ Vidmap \in BOOLEAN
  /\ FlagsAfterHalt \subseteq BOOLEAN /\ FlagsAfterHalt # {}

VARIABLES
  error_return_value,
  parent, root, idx,    \* thread -> locals of sys_execute (parent: of sys_halt too)
  cur, status,          \* thread -> current_PCB and argument of sys_halt
  prog,                 \* thread -> pid whose user program it runs (history)
  owner                 \* pid -> thread on its kernel stack (history)

procVars == <<error_return_value, parent, root, idx, cur, status, prog, owner>>

ProcessesInit ==
  /\ error_return_value = 0
  /\ parent = [t \in Threads |-> NONE]
  /\ root   = [t \in Threads |-> NONE]
  /\ idx    = [t \in Threads |-> NONE]
  /\ cur    = [t \in Threads |-> NONE]
  /\ status = [t \in Threads |-> 0]
  /\ prog   = [t \in Threads |-> NONE]
  /\ owner  = [p \in Pids |-> NONE]
  /\ kind   = [t \in Threads |-> "call"]
  /\ pc     = [t \in Threads |-> "idle"]

-----------------------------------------------------------------------------
\* Thread t executes the code after point p.
At(t, p) ==
  /\ fate = "ok"
  /\ run = t
  /\ susp[t] = "none"
  /\ pc[t] = p

GoTo(t, p) == pc' = [pc EXCEPT ![t] = p]

\* Edits of the helpers below that a mistake could make (see PROJECT.json).
Replace_Forgotten(mpi, old, new) == mpi
ParentOf_Self(i, p)    == IF i < MAX_MULTIPROCESS_NUM THEN i ELSE p
ParentOf_OffByOne(i, p) == IF i <= MAX_MULTIPROCESS_NUM THEN NONE ELSE p
Released_Forgotten(p)  == PCB
HaltValue_NoTruncation(err, s) == IF err # HALT_EXCEPTION THEN s ELSE err
HaltValue_Overwrites(err, s)   == s % 256
FreePids_Forgotten     == {p \in Pids : p >= MAX_MULTIPROCESS_NUM}

\* The first slot that runs pid `old' gets `new': the loops over multi_process_idx.
Replace(mpi, old, new) ==
  [s \in Slots |-> IF mpi[s] = old /\ \A r \in Slots : r < s => mpi[r] # old
                   THEN new ELSE mpi[s]]

\* "the first 3 processes are supposed to be the root shells which have no parent"
ParentOf(i, p) == IF i < MAX_MULTIPROCESS_NUM THEN NONE ELSE p

\* running = FLAG_UNSET
Released(p) == [PCB EXCEPT ![p].running = FALSE]

\* error_return_value as sys_halt leaves it for the parent.
HaltValue(err, s) == IF err # HALT_EXCEPTION THEN s % 256 ELSE err

\* What the scan over PCB[] can claim.
FreePids == {p \in Pids : ~PCB[p].running}

-----------------------------------------------------------------------------
\* int 0x80, eax = 2 with an executable file.  (Any other argument returns
\* RETURN_FAIL and changes nothing.)  User programs are still waiting for
\* their first command line while shells are being started.
Execute(t) ==
  /\ At(t, "user")
  /\ num_multiprocess = MAX_MULTIPROCESS_NUM
  /\ GoTo(t, "exec")
  /\ UNCHANGED <<slotVars, cpuVars, PCB, kind, procVars>>

\* parent = PCB[current_process_pid]; root = parent
ExecParent(t) ==
  /\ At(t, "exec")
  /\ parent' = [parent EXCEPT ![t] = current_process_pid]
  /\ root'   = [root EXCEPT ![t] = current_process_pid]
  /\ GoTo(t, "walk")
  /\ UNCHANGED <<slotVars, cpuVars, PCB, kind, error_return_value, idx, cur,
                 status, prog, owner>>

\* while (root->parent != NULL) root = root->parent
ExecWalk(t) ==
  /\ At(t, "walk")
  /\ PCB[root[t]].parent # NONE
  /\ root' = [root EXCEPT ![t] = PCB[root[t]].parent]
  /\ UNCHANGED <<slotVars, cpuVars, PCB, kind, pc, error_return_value, parent,
                 idx, cur, status, prog, owner>>

\* The scan for a PCB that is not running.
ExecFind(t) ==
  /\ At(t, "walk")
  /\ PCB[root[t]].parent = NONE
  /\ FreePids # {}
  /\ idx' = [idx EXCEPT ![t] = Min(FreePids)]
  /\ GoTo(t, "found")
  /\ UNCHANGED <<slotVars, cpuVars, PCB, kind, error_return_value, parent,
                 root, cur, status, prog, owner>>

\* "reached maximum amount": a call returns RETURN_PASS to the user; the
\* respawn of a root shell returns into sys_halt, which goes on as for a child.
ExecFull(t) ==
  /\ At(t, "walk")
  /\ PCB[root[t]].parent = NONE
  /\ FreePids = {}
  /\ \/ /\ kind[t] = "call"
        /\ parent' = [parent EXCEPT ![t] = NONE]
        /\ GoTo(t, "user")
        /\ UNCHANGED PCB
     \/ /\ kind[t] = "respawn"
        /\ parent' = [parent EXCEPT ![t] = PCB[cur[t]].parent]
        /\ PCB' = Released(cur[t])
        /\ GoTo(t, "exiting")
  /\ root' = [root EXCEPT ![t] = NONE]
  /\ UNCHANGED <<slotVars, cpuVars, kind, error_return_value, idx, cur,
                 status, prog, owner>>

\* The claim of PCB[idx]; only pids from MAX_MULTIPROCESS_NUM on get a parent.
ExecClaim(t) ==
  /\ At(t, "found")
  /\ current_process_pid' = idx[t]
  /\ PCB' = [PCB EXCEPT ![idx[t]] =
               [@ EXCEPT !.running = TRUE, !.pid = idx[t],
                         !.parent = ParentOf(idx[t], parent[t])]]
  /\ GoTo(t, "claimed")
  /\ UNCHANGED <<slotVars, pde, esp0, vidmap, run, interrupts, inService, susp,
                 fate, kind, procVars>>

\* The cli section and the iret: everything from here on uses
\* current_process_pid, not idx.
ExecLoad(t) ==
  /\ At(t, "claimed")
  /\ LET c == current_process_pid
         child == c >= MAX_MULTIPROCESS_NUM
         clash == owner[c] # NONE /\ ~(kind[t] = "respawn" /\ c = cur[t])
     IN /\ pde' = c
        /\ esp0' = c
        /\ PCB' = [PCB EXCEPT ![c].esp = prog[t]]
        /\ multi_process_idx' = IF child
                                THEN Replace(multi_process_idx, PCB[parent[t]].pid, c)
                                ELSE multi_process_idx
        /\ all_process' = IF child
                          THEN [all_process EXCEPT ![c] =
                                  [PCB |-> c, active_terminal_idx |-> PCB[root[t]].pid,
                                   saved_esp |-> NONE]]
                          ELSE all_process
        /\ prog' = [prog EXCEPT ![t] = c]
        /\ owner' = [p \in Pids |-> IF p = c THEN t
                                    ELSE IF kind[t] = "respawn" /\ p = cur[t] THEN NONE
                                    ELSE owner[p]]
        /\ fate' = IF clash THEN "wild" ELSE fate
  /\ kind' = [kind EXCEPT ![t] = "call"]
  /\ GoTo(t, "user")
  /\ parent' = [parent EXCEPT ![t] = NONE]
  /\ root' = [root EXCEPT ![t] = NONE]
  /\ idx' = [idx EXCEPT ![t] = NONE]
  /\ cur' = [cur EXCEPT ![t] = NONE]
  /\ status' = [status EXCEPT ![t] = 0]
  /\ UNCHANGED <<num_multiprocess, current_multiprocess, on_default_term,
                 keyboard_disabled, current_term, current_process_pid, vidmap,
                 run, interrupts, inService, susp, error_return_value>>

-----------------------------------------------------------------------------
\* int 0x80, eax = 1, or an exception in user code (HALT_EXCEPTION): the
\* wrapper's flag, and current_PCB = PCB[current_process_pid].
HaltWrapper(t, s) ==
  /\ At(t, "user")
  /\ num_multiprocess = MAX_MULTIPROCESS_NUM
  /\ status' = [status EXCEPT ![t] = s]
  /\ cur' = [cur EXCEPT ![t] = current_process_pid]
  /\ error_return_value' = IF s = HALT_EXCEPTION THEN HALT_EXCEPTION
                           ELSE error_return_value
  /\ GoTo(t, "halt")
  /\ UNCHANGED <<slotVars, cpuVars, PCB, kind, parent, root, idx, prog, owner>>

\* A root shell: it is marked free, and replaced by a new shell.
HaltRoot(t) ==
  /\ At(t, "halt")
  /\ PCB[cur[t]].parent \in {NONE, cur[t]}
  /\ PCB' = Released(cur[t])
  /\ GoTo(t, "respawn")
  /\ UNCHANGED <<slotVars, cpuVars, kind, procVars>>

Respawn(t) ==
  /\ At(t, "respawn")
  /\ current_process_pid' = 0
  /\ error_return_value' = status[t] % 256
  /\ kind' = [kind EXCEPT ![t] = "respawn"]
  /\ GoTo(t, "exec")
  /\ UNCHANGED <<slotVars, PCB, pde, esp0, vidmap, run, interrupts, inService,
                 susp, fate, parent, root, idx, cur, status, prog, owner>>

\* A child: it is marked free while its thread still runs on its stack.
HaltChild(t) ==
  /\ At(t, "halt")
  /\ PCB[cur[t]].parent \notin {NONE, cur[t]}
  /\ parent' = [parent EXCEPT ![t] = PCB[cur[t]].parent]
  /\ PCB' = Released(cur[t])
  /\ GoTo(t, "exiting")
  /\ UNCHANGED <<slotVars, cpuVars, kind, error_return_value, root, idx, cur,
                 status, prog, owner>>

\* The cli section of sys_halt: back to the parent's image, stack and slot.
\* A NULL parent_PCB faults in the kernel.
Exit(t) ==
  /\ At(t, "exiting")
  /\ parent[t] # NONE
  /\ LET pid == PCB[parent[t]].pid
     IN /\ pde' = pid
        /\ esp0' = pid
        /\ multi_process_idx' = IF current_process_pid >= MAX_MULTIPROCESS_NUM
                                THEN Replace(multi_process_idx, current_process_pid, pid)
                                ELSE multi_process_idx
        /\ current_process_pid' = pid
  /\ error_return_value' = HaltValue(error_return_value, status[t])
  /\ prog' = [prog EXCEPT ![t] = PCB[cur[t]].esp]
  /\ owner' = [owner EXCEPT ![cur[t]] = NONE]
  /\ interrupts' \in FlagsAfterHalt
  /\ GoTo(t, "returned")
  /\ UNCHANGED <<num_multiprocess, current_multiprocess, on_default_term,
                 keyboard_disabled, all_process, current_term, vidmap, run,
                 inService, susp, fate, PCB, kind, parent, root, idx, cur, status>>

ExitNullParent(t) ==
  /\ At(t, "exiting")
  /\ parent[t] = NONE
  /\ fate' = "panic"
  /\ UNCHANGED <<slotVars, current_process_pid, pde, esp0, vidmap, run,
                 interrupts, inService, susp, PCB, kind, pc, procVars>>

\* return_from_halt: the parent's sys_execute returns error_return_value.
ReturnFromHalt(t) ==
  /\ At(t, "returned")
  /\ error_return_value' = 0
  /\ interrupts' = TRUE
  /\ GoTo(t, "user")
  /\ parent' = [parent EXCEPT ![t] = NONE]
  /\ cur' = [cur EXCEPT ![t] = NONE]
  /\ status' = [status EXCEPT ![t] = 0]
  /\ kind' = [kind EXCEPT ![t] = "call"]
  /\ UNCHANGED <<slotVars, current_process_pid, pde, esp0, vidmap, run,
                 inService, susp, fate, PCB, root, idx, prog, owner>>

\* sys_vidmap with a valid pointer.
SysVidmap(t) ==
  /\ Vidmap
  /\ At(t, "user")
  /\ vidmap' = SCREEN
  /\ UNCHANGED <<slotVars, current_process_pid, pde, esp0, run, interrupts,
                 inService, susp, fate, PCB, kind, pc, procVars>>

ThreadStep(t) ==
  \/ ExecParent(t) \/ ExecWalk(t) \/ ExecFind(t) \/ ExecFull(t)
  \/ ExecClaim(t) \/ ExecLoad(t)
  \/ HaltRoot(t) \/ Respawn(t) \/ HaltChild(t)
  \/ Exit(t) \/ ExitNullParent(t) \/ ReturnFromHalt(t)

UserStep(t) ==
  \/ Execute(t)
  \/ \E s \in Status \cup (IF Faults THEN {HALT_EXCEPTION} ELSE {}) : HaltWrapper(t, s)
  \/ SysVidmap(t)
=============================================================================
