-------------------------- MODULE KernelTerminals --------------------------
(***************************************************************************)
(* The kernel implements Terminals: the stack of a terminal is the chain   *)
(* of parent pointers from the process its slot runs.                      *)
(***************************************************************************)
EXTENDS Kernel, Sequences

\* From the root shell to p, along PCB[.].parent.
ChainTo[p \in Pids] ==
  IF PCB[p].parent = NONE THEN <<p>> ELSE Append(ChainTo[PCB[p].parent], p)

StackOf(s) ==
  IF s < num_multiprocess /\ owner[s] = s THEN ChainTo[multi_process_idx[s]] ELSE <<>>

T == INSTANCE Terminals WITH stack <- [s \in Slots |-> StackOf(s)]

\* Every step of the kernel is a step of the terminals' stacks or leaves them
\* alone: interrupts, switches of terminal or slot, and the steps inside a
\* system call never add, lose or move a process.
ImplementsTerminals == T!Spec
=============================================================================
