------------------------------- MODULE Platform -------------------------------
(***************************************************************************)
(* What the platform layer makes of sysfs: how many NUMA nodes there are,  *)
(* and which CPUs a thread of a node is pinned to.                         *)
(*                                                                         *)
(* A machine has, per node number, the CPUs the node really has and what   *)
(* reading its cpulist yields: Absent, or the ranges of the list, whether  *)
(* every item of it is a number or a range of numbers (the list of a node  *)
(* without CPUs is empty, and the empty item is not), and whether it       *)
(* filled the buffer.  `allowed' are the CPUs the process may run on.      *)
(***************************************************************************)
EXTENDS Integers, FiniteSetsExt

CONSTANTS
  MaxNodes,     \* MAX_NODES
  CpuSetSize    \* CPU_SETSIZE

ASSUME PlatformAssumption == MaxNodes \in Nat \ {0} /\ CpuSetSize \in Nat \ {0}

NodeId == 0 .. MaxNodes - 1
Cpu == 0 .. CpuSetSize - 1

Absent == [readable |-> FALSE]
List(ranges, numeric, full) ==
  [readable |-> TRUE, ranges |-> ranges, numeric |-> numeric, full |-> full]

\* The list, where it was read whole, names just these CPUs.
Truthful(l, cpus) ==
  /\ l.readable \in BOOLEAN
  /\ l.readable => l.numeric \in BOOLEAN /\ l.full \in BOOLEAN
  /\ l.readable /\ l.numeric /\ ~l.full =>
       /\ \A r \in l.ranges : r[1] \in Nat /\ r[2] \in Nat /\ r[1] <= r[2]
       /\ cpus = UNION {r[1] .. r[2] : r \in l.ranges}

\* detect_numa_nodes_linux: one more than the highest node that has a list.
DetectNodes(machine) ==
  Max({1} \cup {n + 1 : n \in {m \in NodeId : machine.list[m].readable}})

\* Faulty variant of CpuMask: a list that filled the buffer is used.
CpuMaskTruncated(l) ==
  IF ~l.readable \/ ~l.numeric THEN {}
  ELSE UNION {r[1] .. Min({r[2], CpuSetSize - 1}) : r \in l.ranges}

\* The loop of bind_thread_to_node: the CPUs of a list, or none where it returns
\* without setting a mask.
CpuMask(l) ==
  IF ~l.readable \/ l.full \/ ~l.numeric THEN {}
  ELSE IF \E r \in l.ranges : r[1] > r[2] THEN {}
  ELSE UNION {r[1] .. Min({r[2], CpuSetSize - 1}) : r \in l.ranges}

\* sched_setaffinity: the mask is cut to the CPUs the process may use, and the
\* call fails, which nobody notices, when that leaves none.
SetAffinity(machine, mask, cpus) ==
  IF mask \cap machine.allowed = {} THEN cpus ELSE mask \cap machine.allowed

\* bind_thread_to_node for a thread that may run on `cpus'.
BindThreadToNode(machine, node, cpus) ==
  IF node \notin NodeId THEN cpus
  ELSE SetAffinity(machine, CpuMask(machine.list[node]), cpus)
=============================================================================
