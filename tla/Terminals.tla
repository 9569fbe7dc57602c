----------------------------- MODULE Terminals -----------------------------
(***************************************************************************)
(* What the process system calls promise, without the tables that keep the *)
(* promise: every terminal has a stack of processes, its own root shell at *)
(* the bottom; execute pushes a process no terminal has, halt pops the top *)
(* one, and a root shell is never popped.                                  *)
(***************************************************************************)
EXTENDS Integers, Sequences

CONSTANTS MAX_MULTIPROCESS_NUM, MAX_PROCESSES

VARIABLE stack   \* terminal -> its processes, the root shell first

Terms == 0 .. MAX_MULTIPROCESS_NUM - 1
Procs == 0 .. MAX_PROCESSES - 1

Holds(t, p) == \E i \in 1 .. Len(stack[t]) : stack[t][i] = p
InUse(p) == \E t \in Terms : Holds(t, p)

Init == stack = [t \in Terms |-> <<>>]

Start(t) ==
  /\ stack[t] = <<>>
  /\ ~InUse(t)
  /\ stack' = [stack EXCEPT ![t] = <<t>>]

Push(t, p) ==
  /\ stack[t] # <<>>
  /\ p >= MAX_MULTIPROCESS_NUM
  /\ ~InUse(p)
  /\ stack' = [stack EXCEPT ![t] = Append(@, p)]

Pop(t) ==
  /\ Len(stack[t]) > 1
  /\ stack' = [stack EXCEPT ![t] = SubSeq(@, 1, Len(@) - 1)]

Next == \E t \in Terms : Start(t) \/ Pop(t) \/ \E p \in Procs : Push(t, p)

Spec == Init /\ [][Next]_stack
=============================================================================
