------------------------------ MODULE MCKernel ------------------------------
(***************************************************************************)
(* Instances of Kernel for TLC.  PreemptAt says where an interrupt may     *)
(* arrive; entry() of kernel.c is always interruptible.                    *)
(***************************************************************************)
EXTENDS KernelTerminals

EntryPoint == {<<"call", "idle">>}

\* User code, the command lookup of sys_execute before it claims a PCB, the
\* first half of sys_halt of a child and the return to the parent: the points
\* at which the tables stand any interrupt.
SafePoints == EntryPoint \cup ({"call"} \X {"user", "exec", "walk", "halt", "returned"})

\* Without the half of sys_halt in which the global exit status is pending.
StatusPoints == EntryPoint \cup ({"call"} \X {"user", "exec", "walk"})

\* User code and the walk along the parents: enough for turns to be missed and
\* calls not to end, and few enough for three slots.
TurnPoints == EntryPoint \cup ({"call"} \X {"user", "walk"})

\* Safe points plus the start of a root's respawn, and the window between the
\* claim of a PCB and the cli of sys_execute.
FullWindow == SafePoints \cup {<<"respawn", "exec">>, <<"call", "claimed">>}

\* All of them: between the scan and the claim, the claim and the cli, and
\* running = FLAG_UNSET and the cli as well.
RacePoints == FullWindow \cup ({"call"} \X {"found", "respawn", "exiting"})
=============================================================================
