---------------------- MODULE KernelTerminals_proofs ----------------------
(***************************************************************************)
(* Proof that the kernel implements Terminals, for every number of slots   *)
(* and processes, when interrupts arrive at the safe points only.          *)
(***************************************************************************)
EXTENDS Core_proofs, KernelTerminals, SequenceTheorems

\* A table of processes, the owned ones and what PCB[] remembers of others.
Tables == [Pids -> [running : BOOLEAN, pid : Pids, parent : PidOrNone, esp : PidOrNone]]

\* ChainTo of a table.
Chains(pcb) ==
  CHOOSE f : f = [p \in Pids |-> IF pcb[p].parent = NONE THEN <<p>>
                                 ELSE Append(f[pcb[p].parent], p)]

\* The chain of every pid goes one step beyond its parent's.
Chained(pcb, f) ==
  f = [p \in Pids |-> IF pcb[p].parent = NONE THEN <<p>> ELSE Append(f[pcb[p].parent], p)]

\* Parent pointers only lead to pids of a lower rank.
Ranks(pcb, rank, b) ==
  /\ b \in Nat /\ rank \in [Pids -> 0 .. b]
  /\ \A p \in Pids : pcb[p].parent # NONE => rank[pcb[p].parent] < rank[p]

\* No parent pointer, not even one that a process left behind in a PCB that
\* is free again, is part of a cycle: the walk along PCB[].parent ends.
Forest == \E b, rank : Ranks(PCB, rank, b)

-----------------------------------------------------------------------------
\* A set of pids that is not empty has a member of the lowest rank.
LEMMA LowestRank ==
  ASSUME NEW pcb, NEW rank, NEW b, Ranks(pcb, rank, b), NEW S, S \subseteq Pids, S # {}
  PROVE  \E p \in S : \A q \in Pids : rank[q] < rank[p] => q \notin S
<1> DEFINE Less == OpToRel(<, Nat)
           Levels == {rank[p] : p \in S}
<1>1. IsWellFoundedOn(Less, Nat)
  BY NatLessThanWellFounded
<1>2. \A x, y \in Nat : <<y, x>> \in Less <=> y < x
  BY DEF OpToRel
<1> HIDE DEF Less
<1>3. Levels \subseteq Nat /\ Levels # {}
  BY DEF Ranks
<1>4. PICK n \in Levels : \A m \in Levels : <<m, n>> \notin Less
  BY <1>1, <1>3, WFMin
<1>5. PICK p \in S : rank[p] = n
  BY <1>4
<1>6. ASSUME NEW q \in Pids, rank[q] < rank[p] PROVE q \notin S
  <2> SUFFICES ASSUME q \in S PROVE FALSE
    OBVIOUS
  <2>1. rank[q] \in Levels
    OBVIOUS
  <2>2. rank[q] \in Nat /\ n \in Nat /\ rank[q] < n
    BY <1>3, <1>5, <1>6, <2>1
  <2> HIDE DEF Levels
  <2> QED
    BY <1>2, <1>4, <2>1, <2>2
<1> QED
  BY <1>6

\* A table without cycles has chains, which are sequences of pids.
LEMMA ChainsExist ==
  ASSUME NEW pcb \in Tables, NEW rank, NEW b, Ranks(pcb, rank, b)
  PROVE  \E f : Chained(pcb, f)
<1> USE DEF Ranks
<1> DEFINE Next1(f) == [p \in Pids |-> IF pcb[p].parent = NONE THEN <<p>>
                                       ELSE Append(f[pcb[p].parent], p)]
           UpTo(f, n) == \A p \in Pids : rank[p] < n => f[p] = Next1(f)[p]
           Bad == {n \in Nat : ~\E f \in [Pids -> Seq(Pids)] : UpTo(f, n)}
           Less == OpToRel(<, Nat)
<1>1. \A p \in Pids : pcb[p].parent # NONE => pcb[p].parent \in Pids
  BY DEF Tables, PidOrNone
<1>2. \A f \in [Pids -> Seq(Pids)] : Next1(f) \in [Pids -> Seq(Pids)]
  <2> SUFFICES ASSUME NEW f \in [Pids -> Seq(Pids)], NEW p \in Pids
               PROVE  (IF pcb[p].parent = NONE THEN <<p>> ELSE Append(f[pcb[p].parent], p)) \in Seq(Pids)
    OBVIOUS
  <2>1. CASE pcb[p].parent = NONE
    BY <2>1
  <2>2. CASE pcb[p].parent # NONE
    <3>1. f[pcb[p].parent] \in Seq(Pids)
      BY <1>1, <2>2
    <3> QED
      BY <2>2, <3>1, AppendProperties
  <2> QED
    BY <2>1, <2>2
<1>3. Bad = {}
  <2> SUFFICES ASSUME Bad # {} PROVE FALSE
    OBVIOUS
  <2>1. PICK n \in Bad : \A m \in Bad : <<m, n>> \notin Less
    <3>1. IsWellFoundedOn(Less, Nat)
      BY NatLessThanWellFounded
    <3>2. Bad \subseteq Nat
      OBVIOUS
    <3> HIDE DEF Bad, Less
    <3> QED
      BY <3>1, <3>2, WFMin
  <2>2. n \in Nat /\ ~\E f \in [Pids -> Seq(Pids)] : UpTo(f, n)
    BY <2>1
  <2>3. n # 0
    <3>1. [p \in Pids |-> <<>>] \in [Pids -> Seq(Pids)]
      BY EmptySeq
    <3>2. UpTo([p \in Pids |-> <<>>], 0)
      OBVIOUS
    <3> QED
      BY <2>2, <3>1, <3>2
  <2>4. n - 1 \in Nat /\ <<n - 1, n>> \in Less
    BY <2>2, <2>3 DEF OpToRel
  <2>5. n - 1 \notin Bad
    <3> HIDE DEF Bad, Less
    <3> QED
      BY <2>1, <2>4
  <2>6. PICK g \in [Pids -> Seq(Pids)] : UpTo(g, n - 1)
    BY <2>4, <2>5
  <2>7. UpTo(Next1(g), n)
    <3> SUFFICES ASSUME NEW p \in Pids, rank[p] < n
                 PROVE  Next1(g)[p] = Next1(Next1(g))[p]
      OBVIOUS
    <3>1. CASE pcb[p].parent = NONE
      BY <3>1
    <3>2. CASE pcb[p].parent # NONE
      <4> DEFINE q == pcb[p].parent
      <4>1. q \in Pids /\ rank[q] < n - 1
        BY <1>1, <2>2, <3>2
      <4>2. Next1(g)[q] = g[q]
        BY <2>6, <4>1
      <4> QED
        BY <3>2, <4>1, <4>2
    <3> QED
      BY <3>1, <3>2
  <2> QED
    BY <1>2, <2>2, <2>6, <2>7
<1>4. PICK f \in [Pids -> Seq(Pids)] : UpTo(f, b + 1)
  <2>1. b + 1 \in Nat
    OBVIOUS
  <2>2. b + 1 \notin Bad
    BY <1>3
  <2> QED
    BY <2>1, <2>2
<1>5. f = Next1(f)
  <2>1. \A p \in Pids : rank[p] < b + 1
    OBVIOUS
  <2>2. \A p \in Pids : f[p] = Next1(f)[p]
    BY <1>4, <2>1
  <2>3. Next1(f) \in [Pids -> Seq(Pids)]
    BY <1>2
  <2> HIDE DEF Next1
  <2> QED
    BY <2>2, <2>3
<1> QED
  BY <1>5 DEF Chained

\* What the chains of a table without cycles are.
LEMMA ChainsProperties ==
  ASSUME NEW pcb \in Tables, NEW rank, NEW b, Ranks(pcb, rank, b)
  PROVE  /\ Chains(pcb) \in [Pids -> Seq(Pids)]
         /\ \A p \in Pids : Chains(pcb)[p] = IF pcb[p].parent = NONE THEN <<p>>
                                             ELSE Append(Chains(pcb)[pcb[p].parent], p)
<1> DEFINE f == Chains(pcb)
<1>1. Chained(pcb, f)
  BY ChainsExist DEF Chains, Chained
<1> HIDE DEF f
<1>2. \A p \in Pids : f[p] = IF pcb[p].parent = NONE THEN <<p>> ELSE Append(f[pcb[p].parent], p)
  BY <1>1 DEF Chained
<1>3. DOMAIN f = Pids /\ f = [p \in Pids |-> f[p]]
  BY <1>1 DEF Chained
<1> DEFINE S == {p \in Pids : f[p] \notin Seq(Pids)}
<1>4. S = {}
  <2> SUFFICES ASSUME S # {} PROVE FALSE
    OBVIOUS
  <2>1. PICK p \in S : \A q \in Pids : rank[q] < rank[p] => q \notin S
    BY LowestRank
  <2>2. CASE pcb[p].parent = NONE
    <3>1. f[p] = <<p>>
      BY <1>2, <2>1, <2>2
    <3>2. <<p>> \in Seq(Pids)
      OBVIOUS
    <3> QED
      BY <2>1, <3>1, <3>2
  <2>3. CASE pcb[p].parent # NONE
    <3>1. pcb[p].parent \in Pids /\ rank[pcb[p].parent] < rank[p]
      BY <2>1, <2>3 DEF Ranks, Tables, PidOrNone
    <3>2. f[pcb[p].parent] \in Seq(Pids)
      BY <2>1, <3>1
    <3>3. f[p] = Append(f[pcb[p].parent], p)
      BY <1>2, <2>1, <2>3
    <3>4. Append(f[pcb[p].parent], p) \in Seq(Pids)
      BY <2>1, <3>2, AppendProperties
    <3> QED
      BY <2>1, <3>3, <3>4
  <2> QED
    BY <2>2, <2>3
<1> QED
  BY <1>2, <1>3, <1>4 DEF f

\* Tables that agree on a set of pids closed under parents have its chains in
\* common.
LEMMA ChainsAgree ==
  ASSUME NEW pcb \in Tables, NEW rank, NEW b, Ranks(pcb, rank, b),
         NEW pcb2 \in Tables, NEW rank2, NEW b2, Ranks(pcb2, rank2, b2),
         NEW S, S \subseteq Pids,
         \A p \in S : /\ pcb2[p].parent = pcb[p].parent
                      /\ pcb[p].parent # NONE => pcb[p].parent \in S
  PROVE  \A p \in S : Chains(pcb2)[p] = Chains(pcb)[p]
<1> DEFINE f == Chains(pcb)
           f2 == Chains(pcb2)
           D == {p \in S : f2[p] # f[p]}
<1>1. \A p \in Pids : f[p] = IF pcb[p].parent = NONE THEN <<p>> ELSE Append(f[pcb[p].parent], p)
  BY ChainsProperties
<1>2. \A p \in Pids :
        f2[p] = IF pcb2[p].parent = NONE THEN <<p>> ELSE Append(f2[pcb2[p].parent], p)
  BY ChainsProperties
<1> HIDE DEF f, f2
<1>3. D = {}
  <2> SUFFICES ASSUME D # {} PROVE FALSE
    OBVIOUS
  <2>1. PICK p \in D : \A q \in Pids : rank[q] < rank[p] => q \notin D
    BY LowestRank
  <2>2. CASE pcb[p].parent = NONE
    BY <1>1, <1>2, <2>1, <2>2
  <2>3. CASE pcb[p].parent # NONE
    <3>1. pcb[p].parent \in S /\ rank[pcb[p].parent] < rank[p]
      BY <2>1, <2>3 DEF Ranks
    <3>2. f2[pcb[p].parent] = f[pcb[p].parent]
      BY <2>1, <3>1
    <3>3. p \in Pids /\ pcb2[p].parent = pcb[p].parent /\ f2[p] # f[p]
      BY <2>1
    <3>4. f[p] = Append(f[pcb[p].parent], p) /\ f2[p] = Append(f2[pcb[p].parent], p)
      BY <1>1, <1>2, <2>3, <3>3
    <3> QED
      BY <3>2, <3>3, <3>4
  <2> QED
    BY <2>2, <2>3
<1> QED
  BY <1>3 DEF f, f2

\* A chain is not empty, and stays in a set that is closed under parents.
LEMMA ChainMembers ==
  ASSUME NEW pcb \in Tables, NEW rank, NEW b, Ranks(pcb, rank, b),
         NEW S, S \subseteq Pids,
         \A p \in S : pcb[p].parent # NONE => pcb[p].parent \in S
  PROVE  \A p \in S : /\ Len(Chains(pcb)[p]) \in Nat \ {0}
                      /\ \A i \in 1 .. Len(Chains(pcb)[p]) : Chains(pcb)[p][i] \in S
<1> DEFINE f == Chains(pcb)
           D == {p \in S : ~(/\ Len(f[p]) \in Nat \ {0}
                             /\ \A i \in 1 .. Len(f[p]) : f[p][i] \in S)}
<1>1. /\ f \in [Pids -> Seq(Pids)]
      /\ \A p \in Pids : f[p] = IF pcb[p].parent = NONE THEN <<p>>
                                ELSE Append(f[pcb[p].parent], p)
  BY ChainsProperties
<1> HIDE DEF f
<1>2. D = {}
  <2> SUFFICES ASSUME D # {} PROVE FALSE
    OBVIOUS
  <2>1. PICK p \in D : \A q \in Pids : rank[q] < rank[p] => q \notin D
    BY LowestRank
  <2>2. CASE pcb[p].parent = NONE
    <3>1. f[p] = <<p>>
      BY <1>1, <2>1, <2>2
    <3>2. Len(f[p]) = 1 /\ f[p][1] = p
      BY <3>1
    <3>3. \A i \in 1 .. Len(f[p]) : i = 1
      BY <3>2
    <3> QED
      BY <2>1, <3>2, <3>3
  <2>3. CASE pcb[p].parent # NONE
    <3> DEFINE q == pcb[p].parent
    <3>1. q \in S /\ rank[q] < rank[p]
      BY <2>1, <2>3 DEF Ranks
    <3>2. f[q] \in Seq(Pids) /\ f[p] = Append(f[q], p)
      BY <1>1, <2>1, <2>3, <3>1
    <3>3. Len(f[q]) \in Nat /\ \A i \in 1 .. Len(f[q]) : f[q][i] \in S
      BY <2>1, <3>1
    <3> HIDE DEF q
    <3>4. /\ Len(f[p]) = Len(f[q]) + 1 /\ f[p][Len(f[q]) + 1] = p
          /\ \A i \in 1 .. Len(f[q]) : f[p][i] = f[q][i]
      BY <2>1, <3>2, AppendProperties
    <3> QED
      BY <2>1, <3>3, <3>4
  <2> QED
    BY <2>2, <2>3
<1> QED
  BY <1>2 DEF f

-----------------------------------------------------------------------------
\* A parent pointer changes only when sys_execute claims a PCB that nobody
\* uses for a child of a process that is in use.
LEMMA ParentPointers ==
  ASSUME CoreInv, [Next]_vars
  PROVE  \/ \A p \in Pids : PCB'[p].parent = PCB[p].parent
         \/ \E i, q \in Pids :
              /\ owner[i] = NONE /\ owner[q] # NONE /\ PCB'[i].parent = q
              /\ \A p \in Pids : p # i => PCB'[p].parent = PCB[p].parent
<1> DEFINE Kept == \A p \in Pids : PCB'[p].parent = PCB[p].parent
<1> USE DEF CoreInv
<1>0. PCB \in Tables
  BY DEF TypeInv, TypeOK, SlotTypes, Tables
<1>1. CASE UNCHANGED PCB
  BY <1>1
<1>2. ASSUME NEW t \in Slots, ExecFull(t) \/ HaltRoot(t) \/ HaltChild(t) PROVE Kept
  <2>1. CASE UNCHANGED PCB
    BY <2>1
  <2>2. CASE PCB' = Released(cur[t])
    BY <1>0, <2>2 DEF Released, Tables
  <2> QED
    BY <1>2, <2>1, <2>2 DEF ExecFull, HaltRoot, HaltChild
<1>3. ASSUME NEW t \in Slots, ExecLoad(t) PROVE Kept
  BY <1>0, <1>3 DEF ExecLoad, Tables
<1>4. ASSUME NEW t \in Slots, ExecClaim(t)
      PROVE  \/ Kept
             \/ \E i, q \in Pids :
                  /\ owner[i] = NONE /\ owner[q] # NONE /\ PCB'[i].parent = q
                  /\ \A p \in Pids : p # i => PCB'[p].parent = PCB[p].parent
  <2>1. /\ t < num_multiprocess /\ pc[t] = "found" /\ idx[t] \in Pids /\ parent[t] \in Pids
        /\ kind[t] \in Kinds
    BY <1>4, RunStarted, Constants DEF ExecClaim, At, TypeInv, TypeOK, CpuTypes, LocalsOK
  <2>2. /\ PCB'[idx[t]].parent = ParentOf(idx[t], parent[t])
        /\ \A p \in Pids : p # idx[t] => PCB'[p].parent = PCB[p].parent
    BY <1>0, <1>4, <2>1 DEF ExecClaim, Tables
  <2>3. CASE kind[t] = "call"
    <3>1. idx[t] >= MAX_MULTIPROCESS_NUM /\ owner[idx[t]] = NONE
      BY <2>1, <2>3 DEF FoundOK
    <3>2. parent[t] = multi_process_idx[t] /\ owner[multi_process_idx[t]] = t /\ t # NONE
      BY <2>1, <2>3, Constants DEF CallOK, SlotsOK, Looking
    <3>3. ParentOf(idx[t], parent[t]) = parent[t]
      BY <2>1, <3>1, SizesAssumption DEF ParentOf, Pids
    <3> QED
      BY <2>1, <2>2, <3>1, <3>2, <3>3
  <2>4. CASE kind[t] # "call"
    <3>1. idx[t] = t
      BY <2>1, <2>4 DEF FoundOK
    <3>2. ParentOf(idx[t], parent[t]) = NONE /\ PCB[idx[t]].parent = NONE
      BY <3>1, SizesAssumption DEF ParentOf, RootsOK, Slots
    <3> QED
      BY <2>2, <3>2
  <2> QED
    BY <2>3, <2>4
<1>5. ASSUME NEW t \in Slots, ThreadStep(t) \/ UserStep(t)
      PROVE  \/ UNCHANGED PCB
             \/ ExecFull(t) \/ HaltRoot(t) \/ HaltChild(t) \/ ExecLoad(t) \/ ExecClaim(t)
  <2>1. ASSUME NEW v, HaltWrapper(t, v) PROVE UNCHANGED PCB
    BY <2>1 DEF HaltWrapper
  <2> QED
    BY <1>5, <2>1 DEF ThreadStep, UserStep, Execute, SysVidmap, ExecParent, ExecWalk, ExecFind,
                      Respawn, Exit, ExitNullParent, ReturnFromHalt
<1>6. SchedulerNext => UNCHANGED PCB
  BY DEF SchedulerNext, StartShell, Timer, KeySwitch, ResumeFrame, ResumeFirst
<1>7. UNCHANGED vars => UNCHANGED PCB
  BY DEF vars
<1> QED
  BY <1>1, <1>2, <1>3, <1>4, <1>5, <1>6, <1>7 DEF Next

LEMMA InitForest == Init => Forest
<1> SUFFICES ASSUME Init PROVE Forest
  OBVIOUS
<1>1. Ranks(PCB, [p \in Pids |-> 0], 0)
  BY DEF Init, SchedulerInit, Ranks
<1> QED
  BY <1>1 DEF Forest

\* The claimed pid, with what the stale parent pointers of PCBs out of use
\* hang below it, moves above its new parent.
LEMMA NextForest == CoreInv /\ Forest /\ [Next]_vars => Forest'
<1> SUFFICES ASSUME CoreInv, Forest, [Next]_vars PROVE Forest'
  OBVIOUS
<1>1. PICK b, rank : Ranks(PCB, rank, b)
  BY DEF Forest
<1>2. CASE \A p \in Pids : PCB'[p].parent = PCB[p].parent
  <2>1. Ranks(PCB', rank, b)
    BY <1>1, <1>2 DEF Ranks
  <2> QED
    BY <2>1 DEF Forest
<1>3. ASSUME NEW i \in Pids, NEW q \in Pids, owner[i] = NONE, owner[q] # NONE,
             PCB'[i].parent = q, \A p \in Pids : p # i => PCB'[p].parent = PCB[p].parent
      PROVE  Forest'
  <2> DEFINE higher == [p \in Pids |-> IF owner[p] = NONE THEN rank[p] + rank[q] + 1 ELSE rank[p]]
  <2>0. b \in Nat /\ rank \in [Pids -> 0 .. b]
    BY <1>1 DEF Ranks
  <2>1. higher \in [Pids -> 0 .. b + b + 1]
    BY <2>0
  <2>2. ASSUME NEW p \in Pids, PCB'[p].parent # NONE
        PROVE  higher[PCB'[p].parent] < higher[p]
    <3>1. CASE p = i
      BY <1>3, <2>0, <3>1
    <3>2. CASE p # i
      <4> DEFINE u == PCB[p].parent
      <4>1. PCB'[p].parent = u /\ u \in Pids /\ rank[u] < rank[p]
        BY <1>1, <1>3, <2>2, <3>2 DEF Ranks, CoreInv, TypeInv, TypeOK, SlotTypes, PidOrNone
      <4>2. owner[p] # NONE => owner[u] = owner[p]
        BY <2>2, <4>1, ParentOwned
      <4> HIDE DEF u
      <4>3. rank[u] \in Nat /\ rank[p] \in Nat /\ rank[q] \in Nat
        BY <2>0, <4>1
      <4> QED
        BY <4>1, <4>2, <4>3
    <3> QED
      BY <3>1, <3>2
  <2> HIDE DEF higher
  <2>3. Ranks(PCB', higher, b + b + 1)
    BY <2>0, <2>1, <2>2 DEF Ranks
  <2> QED
    BY <2>3 DEF Forest
<1> QED
  BY <1>2, <1>3, ParentPointers

-----------------------------------------------------------------------------
\* ChainTo in a state and in its successor.
LEMMA ChainsOfState ==
  ASSUME CoreInv, Forest
  PROVE  /\ PCB \in Tables /\ ChainTo = Chains(PCB)
         /\ \E b, rank : Ranks(PCB, rank, b)
BY DEF CoreInv, TypeInv, TypeOK, SlotTypes, Tables, ChainTo, Chains, Forest

LEMMA ChainsOfNext ==
  ASSUME CoreInv', Forest'
  PROVE  /\ PCB' \in Tables /\ ChainTo' = Chains(PCB')
         /\ \E b, rank : Ranks(PCB', rank, b)
BY DEF CoreInv, TypeInv, TypeOK, SlotTypes, Tables, ChainTo, Chains, Forest

\* The chains of the processes that are in use do not change.
LEMMA OwnedChains ==
  ASSUME CoreInv, Forest, CoreInv', Forest', [Next]_vars
  PROVE  \A p \in Pids : owner[p] # NONE => ChainTo'[p] = ChainTo[p]
<1> DEFINE S == {p \in Pids : owner[p] # NONE}
<1>1. \A p \in S : /\ PCB'[p].parent = PCB[p].parent
                   /\ PCB[p].parent # NONE => PCB[p].parent \in S
  BY ParentPointers, ParentOwned
<1>2. PICK b, rank : Ranks(PCB, rank, b)
  BY ChainsOfState
<1>3. PICK b2, rank2 : Ranks(PCB', rank2, b2)
  BY ChainsOfNext
<1>4. S \subseteq Pids /\ PCB \in Tables /\ PCB' \in Tables
  BY ChainsOfState, ChainsOfNext
<1> HIDE DEF S
<1>5. \A p \in S : Chains(PCB')[p] = Chains(PCB)[p]
  BY <1>1, <1>2, <1>3, <1>4, ChainsAgree
<1> QED
  BY <1>5, ChainsOfState, ChainsOfNext DEF S

\* What the chain of a process that is in use is.
LEMMA OwnedChain ==
  ASSUME CoreInv, Forest, NEW p \in Pids, owner[p] # NONE
  PROVE  /\ ChainTo[p] \in Seq(Pids) /\ Len(ChainTo[p]) \in Nat \ {0}
         /\ \A i \in 1 .. Len(ChainTo[p]) : owner[ChainTo[p][i]] = owner[p]
         /\ ChainTo[p] = IF PCB[p].parent = NONE THEN <<p>> ELSE Append(ChainTo[PCB[p].parent], p)
<1> DEFINE S == {r \in Pids : owner[r] = owner[p]}
<1>1. \A r \in S : PCB[r].parent # NONE => PCB[r].parent \in S
  BY ParentOwned
<1>2. PICK b, rank : Ranks(PCB, rank, b)
  BY ChainsOfState
<1>3. S \subseteq Pids /\ p \in S /\ PCB \in Tables /\ ChainTo = Chains(PCB)
  BY ChainsOfState
<1>4. /\ ChainTo \in [Pids -> Seq(Pids)]
      /\ ChainTo[p] = IF PCB[p].parent = NONE THEN <<p>> ELSE Append(ChainTo[PCB[p].parent], p)
  BY <1>2, <1>3, ChainsProperties
<1> HIDE DEF S
<1>5. /\ Len(ChainTo[p]) \in Nat \ {0}
      /\ \A i \in 1 .. Len(ChainTo[p]) : ChainTo[p][i] \in S
  BY <1>1, <1>2, <1>3, ChainMembers
<1> QED
  BY <1>4, <1>5 DEF S

-----------------------------------------------------------------------------
\* The stack of a slot that runs a process, and whose pids are on it.
LEMMA StackOfSlot ==
  ASSUME CoreInv, Forest, NEW s \in Slots
  PROVE  /\ s < num_multiprocess /\ owner[s] = s =>
              /\ multi_process_idx[s] \in Pids /\ owner[multi_process_idx[s]] = s
              /\ StackOf(s) = ChainTo[multi_process_idx[s]]
         /\ ~(s < num_multiprocess /\ owner[s] = s) => StackOf(s) = <<>>
         /\ \A i \in 1 .. Len(StackOf(s)) : owner[StackOf(s)[i]] = s
<1>1. multi_process_idx[s] \in Pids /\ s # NONE
  BY Constants DEF CoreInv, TypeInv, TypeOK, SlotTypes
<1>2. CASE s < num_multiprocess /\ owner[s] = s
  <2>1. kind[s] # "boot"
    BY <1>1, <1>2 DEF CoreInv, BootOK
  <2>2. owner[multi_process_idx[s]] = s
    BY <1>2, <2>1 DEF CoreInv, SlotsOK
  <2> QED
    BY <1>1, <1>2, <2>2, OwnedChain DEF StackOf
<1>3. CASE ~(s < num_multiprocess /\ owner[s] = s)
  BY <1>3 DEF StackOf
<1> QED
  BY <1>2, <1>3

\* A step that leaves the slots and the owners alone leaves the stacks alone.
LEMMA StacksKept ==
  ASSUME CoreInv, Forest, CoreInv', Forest', [Next]_vars,
         UNCHANGED <<num_multiprocess, multi_process_idx, owner>>
  PROVE  \A s \in Slots : StackOf(s)' = StackOf(s)
<1> SUFFICES ASSUME NEW s \in Slots PROVE StackOf(s)' = StackOf(s)
  OBVIOUS
<1>1. CASE s < num_multiprocess /\ owner[s] = s
  <2>1. multi_process_idx[s] \in Pids /\ owner[multi_process_idx[s]] # NONE
    BY <1>1, StackOfSlot, Constants
  <2> QED
    BY <1>1, <2>1, OwnedChains DEF StackOf
<1>2. CASE ~(s < num_multiprocess /\ owner[s] = s)
  BY <1>2 DEF StackOf
<1> QED
  BY <1>1, <1>2

\* The stack of a terminal.
Stacks == [s \in Slots |-> StackOf(s)]

\* A timer interrupt that starts a shell: the stack of its slot is empty until
\* the shell is loaded.
LEMMA StartShellStacks ==
  ASSUME CoreInv, Forest, CoreInv', Forest', StartShell, UNCHANGED procVars
  PROVE  Stacks' = Stacks
<1> DEFINE n == num_multiprocess
<1>0. [Next]_vars
  BY DEF Next, SchedulerNext
<1>1. n \in Slots /\ num_multiprocess' = n + 1 /\ owner' = owner
  BY SizesAssumption DEF StartShell, CoreInv, TypeInv, TypeOK, SlotTypes, Slots, procVars
<1>2. multi_process_idx' = [multi_process_idx EXCEPT ![n] = n] /\ kind'[n] = "boot"
  BY <1>1, Constants DEF StartShell, CoreInv, TypeInv, TypeOK, SlotTypes, CpuTypes
<1>3. owner[n] = NONE
  <2>1. n < num_multiprocess'
    BY <1>1, SizesAssumption DEF Slots
  <2> QED
    BY <1>1, <1>2, <2>1 DEF CoreInv, BootOK
<1>4. ASSUME NEW s \in Slots PROVE StackOf(s)' = StackOf(s)
  <2>1. CASE s = n
    BY <1>1, <1>3, <2>1, Constants DEF StackOf
  <2>2. CASE s # n
    <3>1. s < num_multiprocess <=> s < num_multiprocess'
      BY <1>1, <2>2 DEF Slots
    <3>2. multi_process_idx'[s] = multi_process_idx[s]
      BY <1>2, <2>2 DEF CoreInv, TypeInv, TypeOK, SlotTypes
    <3>3. CASE s < num_multiprocess /\ owner[s] = s
      <4>1. multi_process_idx[s] \in Pids /\ owner[multi_process_idx[s]] # NONE
        BY <3>3, StackOfSlot, Constants
      <4> QED
        BY <1>0, <1>1, <3>1, <3>2, <3>3, <4>1, OwnedChains DEF StackOf
    <3>4. CASE ~(s < num_multiprocess /\ owner[s] = s)
      BY <1>1, <3>1, <3>4 DEF StackOf
    <3> QED
      BY <3>3, <3>4
  <2> QED
    BY <2>1, <2>2
<1> QED
  BY <1>4 DEF Stacks

\* Loading a program starts a root shell, pushes a child, or replaces a root
\* shell that ended by another, which is no change at all.
LEMMA ExecLoadStacks ==
  ASSUME CoreInv, Forest, CoreInv', Forest', NEW t \in Slots, ExecLoad(t)
  PROVE  T!Start(t) \/ (\E p \in Pids : T!Push(t, p)) \/ Stacks' = Stacks
<1> DEFINE c == idx[t]
<1>0. [Next]_vars
  BY DEF Next, ThreadStep
<1>1. /\ c \in Pids
      /\ kind[t] = "call" => /\ c >= MAX_MULTIPROCESS_NUM /\ owner[c] = NONE
                             /\ PCB[c].parent = multi_process_idx[t]
                             /\ owner[multi_process_idx[t]] = t
      /\ kind[t] # "call" => c = t /\ multi_process_idx[t] = t
      /\ kind[t] # "boot" => owner[t] = t
      /\ \A p \in Pids : /\ owner'[p] = IF p = c THEN t ELSE owner[p]
                         /\ p # c => PCB'[p] = PCB[p] /\ all_process'[p] = all_process[p]
      /\ \A s \in Slots : multi_process_idx'[s] = IF s = t THEN c ELSE multi_process_idx[s]
  BY Loaded
<1>2. /\ t < num_multiprocess /\ num_multiprocess' = num_multiprocess /\ t \in Pids /\ t # NONE
      /\ kind[t] = "boot" => owner[t] = NONE
      /\ multi_process_idx[t] \in Pids
      /\ PCB'[c].parent = PCB[c].parent
  BY <1>1, RunStarted, Constants DEF ExecLoad, At, CoreInv, BootOK, TypeInv, TypeOK, SlotTypes
<1> HIDE DEF c
<1>3. ASSUME NEW s \in Slots, s # t PROVE StackOf(s)' = StackOf(s)
  <2>1. owner'[s] = s <=> owner[s] = s
    <3>1. s # c
      BY <1>1, <1>3, SizesAssumption DEF Slots
    <3> QED
      BY <1>1, <3>1, Constants
  <2>2. CASE s < num_multiprocess /\ owner[s] = s
    <3>1. multi_process_idx[s] \in Pids /\ owner[multi_process_idx[s]] # NONE
      BY <2>2, StackOfSlot, Constants
    <3> QED
      BY <1>0, <1>1, <1>2, <1>3, <2>1, <2>2, <3>1, OwnedChains DEF StackOf
  <2>3. CASE ~(s < num_multiprocess /\ owner[s] = s)
    BY <1>2, <2>1, <2>3 DEF StackOf
  <2> QED
    BY <2>2, <2>3
<1>4. owner'[t] = t /\ StackOf(t)' = ChainTo'[c]
  BY <1>1, <1>2, Constants DEF StackOf, CoreInv, TypeInv, TypeOK, CpuTypes, Kinds
<1>5. /\ Stacks = [s \in T!Terms |-> StackOf(s)] /\ T!Terms = Slots /\ T!Procs = Pids
      /\ \A s \in Slots : Stacks[s] = StackOf(s) /\ Stacks'[s] = StackOf(s)'
  BY DEF Stacks, T!Terms, T!Procs, Slots, Pids
<1>6. \A p \in Pids : owner[p] = NONE => \A s \in Slots : ~T!Holds(s, p)
  BY <1>5, StackOfSlot, Constants DEF T!Holds, Stacks
<1>7. CASE kind[t] = "boot"
  <2>1. StackOf(t)' = <<t>>
    <3>1. PCB'[t].parent = NONE /\ owner'[t] # NONE
      BY <1>2, <1>4 DEF CoreInv, RootsOK
    <3>2. ChainTo'[t] = IF PCB'[t].parent = NONE THEN <<t>>
                        ELSE Append(ChainTo'[PCB'[t].parent], t)
      BY <1>2, <3>1, ChainsOfNext, ChainsProperties
    <3> QED
      BY <1>1, <1>4, <1>7, <3>1, <3>2
  <2>2. StackOf(t) = <<>> /\ owner[t] = NONE
    BY <1>2, <1>7, StackOfSlot
  <2>3. \A s \in Slots : ~T!Holds(s, t)
    BY <1>2, <1>6, <2>2
  <2>4. Stacks' = [Stacks EXCEPT ![t] = <<t>>]
    BY <1>3, <2>1 DEF Stacks
  <2>5. T!Start(t)
    BY <1>5, <2>2, <2>3, <2>4 DEF T!Start, T!InUse, Stacks
  <2> QED
    BY <2>5
<1>8. CASE kind[t] = "respawn"
  <2>1. c = t /\ multi_process_idx[t] = t /\ owner[t] = t
    BY <1>1, <1>8
  <2>2. StackOf(t)' = StackOf(t)
    BY <1>0, <1>2, <1>4, <2>1, OwnedChains, StackOfSlot
  <2> QED
    BY <1>3, <2>2 DEF Stacks
<1>9. CASE kind[t] = "call"
  <2> DEFINE q == multi_process_idx[t]
  <2>1. StackOf(t) = ChainTo[q] /\ Len(ChainTo[q]) \in Nat \ {0} /\ ChainTo'[q] = ChainTo[q]
    <3>1. owner[t] = t /\ owner[q] = t /\ q \in Pids
      BY <1>1, <1>2, <1>9
    <3> QED
      BY <1>0, <1>2, <3>1, StackOfSlot, OwnedChain, OwnedChains
  <2>2. StackOf(t)' = Append(StackOf(t), c)
    <3>1. ChainTo'[c] = IF PCB'[c].parent = NONE THEN <<c>>
                        ELSE Append(ChainTo'[PCB'[c].parent], c)
      BY <1>1, ChainsOfNext, ChainsProperties
    <3>2. PCB'[c].parent = q /\ q # NONE
      BY <1>1, <1>2, <1>9, Constants
    <3> QED
      BY <1>4, <2>1, <3>1, <3>2
  <2>3. \A s \in Slots : ~T!Holds(s, c)
    BY <1>1, <1>6, <1>9
  <2>4. Stacks' = [Stacks EXCEPT ![t] = Append(@, c)]
    BY <1>3, <2>2 DEF Stacks
  <2>5. StackOf(t) # <<>>
    BY <2>1
  <2>6. T!Push(t, c)
    BY <1>1, <1>5, <1>9, <2>3, <2>4, <2>5 DEF T!Push, T!InUse, Stacks
  <2> QED
    BY <1>1, <2>6
<1> QED
  <2>1. kind[t] \in Kinds
    BY Constants DEF CoreInv, TypeInv, TypeOK, CpuTypes
  <2> QED
    BY <1>7, <1>8, <1>9, <2>1 DEF Kinds

\* The end of a process pops it.
LEMMA ExitStacks ==
  ASSUME CoreInv, Forest, CoreInv', Forest', NEW t \in Slots, Exit(t)
  PROVE  T!Pop(t)
<1> DEFINE c == cur[t]
           q == parent[t]
<1>0. [Next]_vars /\ run = t /\ pc[t] = "exiting"
  BY DEF Next, ThreadStep, Exit, At
<1>1. /\ t < num_multiprocess /\ AllStarted /\ kind[t] = "call" /\ t \in Pids /\ t # NONE
      /\ c \in Pids /\ c = multi_process_idx[t] /\ c = current_process_pid
      /\ c >= MAX_MULTIPROCESS_NUM /\ owner[c] = t /\ owner[t] = t
      /\ q = PCB[c].parent /\ q \in Pids /\ q # c /\ PCB[q].pid = q /\ owner[q] = t
  BY <1>0, Exiting, Constants DEF CoreInv, SlotsOK
<1>2. /\ num_multiprocess' = num_multiprocess /\ owner' = [owner EXCEPT ![c] = NONE]
      /\ multi_process_idx' = [multi_process_idx EXCEPT ![t] = q]
  <2>1. multi_process_idx' = Replace(multi_process_idx, multi_process_idx[t], q)
    BY <1>1 DEF Exit
  <2>2. \A s \in Slots : multi_process_idx[s] = multi_process_idx[t] => s = t
    BY <1>1, OwnSlot
  <2>3. multi_process_idx' = [multi_process_idx EXCEPT ![t] = q]
    <3>1. multi_process_idx \in [Slots -> Pids]
      BY DEF CoreInv, TypeInv, TypeOK, SlotTypes
    <3>2. q \in Pids
      BY <1>1
    <3> HIDE DEF c, q
    <3>3. Replace(multi_process_idx, multi_process_idx[t], q)
            = [multi_process_idx EXCEPT ![t] = q]
      BY ONLY t \in Slots, <2>2, <3>1, <3>2, ReplacedSlot, Zenon
    <3> QED
      BY <2>1, <3>3
  <2> QED
    BY <2>3 DEF Exit
<1> HIDE DEF c, q
<1>3. /\ \A p \in Pids : owner'[p] = IF p = c THEN NONE ELSE owner[p]
      /\ \A s \in Slots : multi_process_idx'[s] = IF s = t THEN q ELSE multi_process_idx[s]
  BY <1>1, <1>2 DEF CoreInv, TypeInv, TypeOK, SlotTypes, ProcTypes
<1>4. ASSUME NEW s \in Slots, s # t PROVE StackOf(s)' = StackOf(s)
  <2>1. owner'[s] = owner[s] /\ s \in Pids
    <3>1. s # c /\ s \in Pids
      BY <1>1, Constants, SizesAssumption DEF Slots
    <3> QED
      BY <1>3, <3>1
  <2>2. CASE s < num_multiprocess /\ owner[s] = s
    <3>1. multi_process_idx[s] \in Pids /\ owner[multi_process_idx[s]] # NONE
      BY <2>2, StackOfSlot, Constants
    <3> QED
      BY <1>0, <1>2, <1>3, <1>4, <2>1, <2>2, <3>1, OwnedChains DEF StackOf
  <2>3. CASE ~(s < num_multiprocess /\ owner[s] = s)
    BY <1>2, <2>1, <2>3 DEF StackOf
  <2> QED
    BY <2>2, <2>3
<1>5. /\ ChainTo[c] = Append(ChainTo[q], c) /\ ChainTo'[q] = ChainTo[q]
      /\ ChainTo[q] \in Seq(Pids) /\ Len(ChainTo[q]) \in Nat \ {0}
  <2>1. PCB[c].parent # NONE
    BY <1>1, Constants
  <2> QED
    BY <1>0, <1>1, <2>1, OwnedChain, OwnedChains
<1>6. StackOf(t) = Append(ChainTo[q], c)
  BY <1>1, <1>5, StackOfSlot
<1>7. StackOf(t)' = ChainTo[q]
  <2>1. owner'[t] = t /\ t < num_multiprocess'
    <3>1. t # c
      BY <1>1, SizesAssumption DEF Slots
    <3> QED
      BY <1>1, <1>2, <1>3, <3>1
  <2> QED
    BY <1>3, <1>5, <2>1 DEF StackOf
<1>8. /\ Len(StackOf(t)) = Len(ChainTo[q]) + 1 
      /\ SubSeq(StackOf(t), 1, Len(StackOf(t)) - 1) = ChainTo[q]
  BY <1>1, <1>5, <1>6, AppendProperties, SubSeqFull
<1>9. Stacks' = [Stacks EXCEPT ![t] = SubSeq(@, 1, Len(@) - 1)]
  BY <1>4, <1>7, <1>8 DEF Stacks
<1>10. Len(Stacks[t]) > 1
  BY <1>5, <1>8 DEF Stacks
<1> QED
  BY <1>9, <1>10 DEF T!Pop, Stacks

-----------------------------------------------------------------------------
\* Every step is a step of the terminals' stacks or leaves them alone.
LEMMA StepStacks ==
  ASSUME CoreInv, Forest, CoreInv', Forest', [Next]_vars
  PROVE  [T!Next]_Stacks
<1>1. CASE UNCHANGED <<num_multiprocess, multi_process_idx, owner>>
  BY <1>1, StacksKept DEF Stacks
<1>2. CASE StartShell /\ UNCHANGED procVars
  BY <1>2, StartShellStacks
<1>3. ASSUME NEW t \in Slots, ExecLoad(t) PROVE [T!Next]_Stacks
  BY <1>3, ExecLoadStacks DEF T!Next, T!Terms, T!Procs, Slots, Pids
<1>4. ASSUME NEW t \in Slots, Exit(t) PROVE [T!Next]_Stacks
  BY <1>4, ExitStacks DEF T!Next, T!Terms, Slots
<1>5. ASSUME NEW t \in Slots, ThreadStep(t) \/ UserStep(t)
      PROVE  UNCHANGED <<num_multiprocess, multi_process_idx, owner>> \/ ExecLoad(t) \/ Exit(t)
  <2> USE DEF slotVars, procVars
  <2>1. ASSUME NEW v, HaltWrapper(t, v)
        PROVE  UNCHANGED <<num_multiprocess, multi_process_idx, owner>>
    BY <2>1 DEF HaltWrapper
  <2> QED
    BY <1>5, <2>1 DEF ThreadStep, UserStep, Execute, SysVidmap, ExecParent, ExecWalk, ExecFind,
                      ExecFull, ExecClaim, HaltRoot, HaltChild, Respawn, ExitNullParent,
                      ReturnFromHalt
<1>6. CASE SchedulerNext /\ UNCHANGED procVars
  BY <1>1, <1>2, <1>6
  DEF SchedulerNext, Timer, KeySwitch, ResumeFrame, ResumeFirst, procVars, slotVars
<1>7. CASE UNCHANGED vars
  BY <1>1, <1>7 DEF vars, slotVars, procVars
<1> QED
  BY <1>1, <1>3, <1>4, <1>5, <1>6, <1>7 DEF Next

\* Every terminal has a stack of processes that execute pushes and halt pops:
\* whatever the interrupts at safe points and the switches of slots and
\* terminals do to the tables in between, no process gets lost, changes
\* terminal or is loaded twice, and no root shell is ever gone for good.
THEOREM TerminalsImplemented ==
  ASSUME ~BootKeys, SafePreemption
  PROVE  Spec => ImplementsTerminals
<1> DEFINE Inv == CoreInv /\ Forest
<1>1. Init => T!Init
  BY Constants DEF Init, SchedulerInit, T!Init, T!Terms, Slots, StackOf
<1>2. Init => Inv
  BY InitCore, InitForest
<1>3. Inv /\ [Next]_vars => Inv'
  BY NextCore, NextForest
<1>4. Inv /\ Inv' /\ [Next]_vars => [T!Next]_Stacks
  BY StepStacks
<1>5. Inv /\ Inv' /\ [Next]_vars => [T!Next]_([s \in Slots |-> StackOf(s)])
  BY <1>4 DEF Stacks
<1> QED
  BY <1>1, <1>2, <1>3, <1>5, PTL DEF Spec, ImplementsTerminals, T!Spec
=============================================================================
