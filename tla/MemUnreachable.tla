--------------------------- MODULE MemUnreachable ---------------------------
(***************************************************************************)
(* The heap walker child of GetUnreachableMemory, from the captured        *)
(* threads and mappings to the leaks it sends: MemUnreachable::            *)
(* CollectAllocations and ClassifyMappings (src/libcutils/sched_policy.c   *)
(* lines 560-692), HeapWalker's mark and sweep (not under src/: modelled   *)
(* from the specification, section 4.E) and MemUnreachable::              *)
(* GetUnreachableMemory (lines 613-635).                                   *)
(*                                                                         *)
(* Memory is a function from word addresses to the pointer-sized value     *)
(* stored there (0 is NULL).  A region [b, e) is a record with begin and   *)
(* end.  A mapping name is modelled as a pair <<p, r>>: the string is p    *)
(* followed by r, and p is the prefix ClassifyMappings tests with          *)
(* has_prefix.  The contents copied into each Leak are not modelled.       *)
(***************************************************************************)
EXTENDS Integers, Sequences, FiniteSets, TLC, SequencesExt, FiniteSetsExt
LOCAL INSTANCE Relation

CONSTANTS
  Words,        \* the word addresses of the process (positive integers)
  Values,       \* the values a memory word or a register may hold
  Layouts,      \* the sequences of mappings /proc/pid/maps may list
  BlockSets,    \* the allocator's live blocks, as sets of regions
  StackTops,    \* the stack pointers a captured thread may have
  RegSets,      \* the register contents a captured thread may have
  Limits        \* the limit argument of GetUnreachableMemory

\* Names of mappings.
Empty   == <<"", "">>
Bss     == <<"[anon:", ".bss]">>
Malloc  == <<"[anon:", "libc_malloc]">>
LeakDet == <<"[anon:", "leak_detector_malloc]">>

HasPrefix(n, p) == n[1] = p

Region(b, e) == [begin |-> b, end |-> e]
Size(r) == r.end - r.begin
Holds(r, v) == r.begin <= v /\ v < r.end

VARIABLES
  mappings,    \* the snapshot of /proc/pid/maps
  blocks,      \* the allocator's live blocks (what malloc_iterate reports)
  mem,         \* the child's copy-on-write image
  thread,      \* the one captured thread: stack pointer and registers
  limit,       \* the limit argument
  phase,       \* collect, mark, or done
  allocs,      \* HeapWalker's allocation index
  queue,       \* HeapWalker's work queue: the value sets still to scan
  referenced,  \* allocations marked
  leaks,       \* the leaks returned, in order
  numLeaks,    \* *num_leaks
  leakBytes    \* *leak_bytes

inputs == <<mappings, blocks, mem, thread, limit>>
vars == <<mappings, blocks, mem, thread, limit, phase, allocs, queue,
          referenced, leaks, numLeaks, leakBytes>>

-----------------------------------------------------------------------------
\* Mutant: an executable mapping is classified too (no continue).
RECURSIVE ClassifyNoContinue(_, _, _)
ClassifyNoContinue(ms, lib, acc) ==
  IF ms = << >> THEN acc
  ELSE LET m == Head(ms)
           n == m.name
           l2 == IF m.exec THEN n ELSE lib
           Put(l) == [acc EXCEPT ![l] = Append(@, m)]
       IN IF ~m.read THEN ClassifyNoContinue(Tail(ms), l2, acc)
          ELSE ClassifyNoContinue(Tail(ms), l2,
                 CASE n = Bss -> Put("globals")
                   [] n = l2 -> Put("globals")
                   [] n = Malloc -> Put("heap")
                   [] HasPrefix(n, "/dev/ashmem/dalvik") -> Put("globals")
                   [] HasPrefix(n, "[stack") -> Put("stack")
                   [] n = Empty -> Put("globals")
                   [] HasPrefix(n, "[anon:") /\ n # LeakDet -> Put("globals")
                   [] OTHER -> acc)

(* ClassifyMappings: one pass in /proc/pid/maps order.  An executable      *)
(* mapping names the current library; a readable one goes to a list by     *)
(* the first rule that matches.  anon_mappings is cleared and never        *)
(* filled.                                                                 *)
RECURSIVE Classify(_, _, _)
Classify(ms, lib, acc) ==
  IF ms = << >> THEN acc
  ELSE LET m == Head(ms)
           n == m.name
           Put(l) == [acc EXCEPT ![l] = Append(@, m)]
       IN IF m.exec THEN Classify(Tail(ms), n, acc)
          ELSE IF ~m.read THEN Classify(Tail(ms), lib, acc)
          ELSE Classify(Tail(ms), lib,
                 CASE n = Bss -> Put("globals")
                   [] n = lib -> Put("globals")
                   [] n = Malloc -> Put("heap")
                   [] HasPrefix(n, "/dev/ashmem/dalvik") -> Put("globals")
                   [] HasPrefix(n, "[stack") -> Put("stack")
                   [] n = Empty -> Put("globals")
                   [] HasPrefix(n, "[anon:") /\ n # LeakDet -> Put("globals")
                   [] OTHER -> acc)

ClassifyMappings(ms) ==
  Classify(ms, Empty, [heap |-> << >>, anon |-> << >>,
                       globals |-> << >>, stack |-> << >>])

\* HeapIterate: malloc_iterate reports the blocks inside a heap mapping.
HeapIterate(m) == {r \in blocks : m.begin <= r.begin /\ r.end <= m.end}

\* The values a region holds, as the mark phase reads them word by word.
ValuesIn(r) == {mem[a] : a \in {w \in Words : Holds(r, w)}}

\* HeapWalker::Allocation: a region overlapping one already indexed is
\* dropped.
Allocation(index, r) ==
  IF \E a \in index : a.begin < r.end /\ r.begin < a.end THEN index
  ELSE index \cup {r}

\* CollectAllocations: the blocks of every heap mapping and the whole of
\* every anon mapping are allocations; every globals mapping, every
\* thread's stack from its stack pointer to the end of the stack mapping
\* that holds it, and every thread's registers are roots.
CollectAllocations(t, ms) ==
  LET c == ClassifyMappings(ms)
      heapBlocks == UNION {HeapIterate(c.heap[i]) : i \in DOMAIN c.heap}
      order(a, b) == a.begin < b.begin
      allocSeq == SetToSortSeq(heapBlocks, order) \o c.anon
  IN [allocs |-> FoldLeft(Allocation, {}, allocSeq),
      roots  |-> {ValuesIn(c.globals[i]) : i \in DOMAIN c.globals}
                 \cup {ValuesIn(Region(t.stack, c.stack[i].end)) :
                         i \in {j \in DOMAIN c.stack :
                                  c.stack[j].begin <= t.stack
                                  /\ t.stack <= c.stack[j].end}}
                 \cup {t.regs}]

-----------------------------------------------------------------------------
Init ==
  /\ mappings \in Layouts
  /\ blocks \in BlockSets
  /\ mem \in [Words -> Values]
  /\ thread \in [stack : StackTops, regs : RegSets]
  /\ limit \in Limits
  /\ phase = "collect"
  /\ allocs = {}
  /\ queue = {}
  /\ referenced = {}
  /\ leaks = << >>
  /\ numLeaks = 0
  /\ leakBytes = 0

\* unreachable.CollectAllocations(thread_info, mappings) in the child.
Collect ==
  /\ phase = "collect"
  /\ LET c == CollectAllocations(thread, mappings)
     IN /\ allocs' = c.allocs
        /\ queue' = c.roots
  /\ phase' = "mark"
  /\ UNCHANGED <<inputs, referenced, leaks, numLeaks, leakBytes>>

\* Mutant: only a pointer to the first byte marks an allocation.
MarkRegionBaseOnly ==
  /\ phase = "mark"
  /\ \E q \in queue :
       LET hit == {a \in allocs \ referenced : a.begin \in q}
       IN /\ referenced' = referenced \cup hit
          /\ queue' = (queue \ {q}) \cup {ValuesIn(a) : a \in hit}
  /\ UNCHANGED <<inputs, phase, allocs, leaks, numLeaks, leakBytes>>

\* HeapWalker mark: scan one region of the queue; every allocation holding
\* one of its values (interior pointers included) that is not yet
\* referenced is marked and its extent queued.
MarkRegion ==
  /\ phase = "mark"
  /\ \E q \in queue :
       LET hit == {a \in allocs \ referenced : \E v \in q : Holds(a, v)}
       IN /\ referenced' = referenced \cup hit
          /\ queue' = (queue \ {q}) \cup {ValuesIn(a) : a \in hit}
  /\ UNCHANGED <<inputs, phase, allocs, leaks, numLeaks, leakBytes>>

\* Mutant: one leak more than limit returned.
SweepLimitOffByOne ==
  /\ phase = "mark"
  /\ queue = {}
  /\ LET unref == allocs \ referenced
         before(a, b) == Size(a) > Size(b) \/ (Size(a) = Size(b) /\ a.begin < b.begin)
         sorted == SetToSortSeq(unref, before)
     IN /\ leaks' = [i \in 1..Min({limit + 1, Len(sorted)}) |->
                       [begin |-> sorted[i].begin, size |-> Size(sorted[i])]]
        /\ numLeaks' = Cardinality(unref)
        /\ leakBytes' = MapThenSumSet(Size, unref)
  /\ phase' = "done"
  /\ UNCHANGED <<inputs, allocs, queue, referenced>>

\* HeapWalker sweep, then GetUnreachableMemory: the unreferenced
\* allocations, largest first and by address among equals, cut at limit;
\* the totals count all of them.
Sweep ==
  /\ phase = "mark"
  /\ queue = {}
  /\ LET unref == allocs \ referenced
         before(a, b) == Size(a) > Size(b) \/ (Size(a) = Size(b) /\ a.begin < b.begin)
         sorted == SetToSortSeq(unref, before)
     IN /\ leaks' = [i \in 1..Min({limit, Len(sorted)}) |->
                       [begin |-> sorted[i].begin, size |-> Size(sorted[i])]]
        /\ numLeaks' = Cardinality(unref)
        /\ leakBytes' = MapThenSumSet(Size, unref)
  /\ phase' = "done"
  /\ UNCHANGED <<inputs, allocs, queue, referenced>>

Next == Collect \/ MarkRegion \/ Sweep

\* The child is one process running these steps in order; only safety is
\* checked of it.
Spec == Init /\ [][Next]_vars

-----------------------------------------------------------------------------
TypeOK ==
  /\ phase \in {"collect", "mark", "done"}
  /\ allocs \subseteq blocks
  /\ referenced \subseteq allocs
  /\ queue \subseteq SUBSET Values
  /\ numLeaks \in 0..Cardinality(allocs)
  /\ Len(leaks) <= limit

-----------------------------------------------------------------------------
(* The reference: what the specification says the child computes.  The   *)
(* classifier table of section 4.D applied to each mapping on its own,     *)
(* the current library being the last executable mapping before it; the   *)
(* allocations are the allocator's blocks in readable heap mappings; a     *)
(* leak is an allocation that no chain of words leads to from a root       *)
(* (section 4.F, invariant 3), interior pointers counting.                 *)
CurrentLib(ms, i) ==
  LET ex == {j \in 1..(i - 1) : ms[j].exec}
  IN IF ex = {} THEN Empty ELSE ms[Max(ex)].name

TableTarget(ms, i) ==
  LET n == ms[i].name
  IN CASE ms[i].exec \/ ~ms[i].read -> "none"
       [] n \in {Bss, CurrentLib(ms, i), Empty} -> "globals"
       [] n = Malloc -> "heap"
       [] HasPrefix(n, "/dev/ashmem/dalvik") -> "globals"
       [] HasPrefix(n, "[stack") -> "stack"
       [] HasPrefix(n, "[anon:") /\ n # LeakDet -> "globals"
       [] OTHER -> "none"

MappingsOf(target) ==
  {mappings[i] : i \in {j \in DOMAIN mappings : TableTarget(mappings, j) = target}}

RefAllocs == UNION {HeapIterate(m) : m \in MappingsOf("heap")}

RefRootValues ==
  UNION {ValuesIn(m) : m \in MappingsOf("globals")}
  \cup UNION {ValuesIn(Region(thread.stack, m.end)) :
               m \in {k \in MappingsOf("stack") : Holds(k, thread.stack)}}
  \cup thread.regs

PointsInto == [x, y \in RefAllocs |-> \E v \in ValuesIn(x) : Holds(y, v)]

RefLeaks ==
  LET reach == ReflexiveTransitiveClosure(PointsInto, RefAllocs)
      direct == {a \in RefAllocs : \E v \in RefRootValues : Holds(a, v)}
  IN {b \in RefAllocs : \A a \in direct : ~reach[a, b]}

(* When the child has swept, *num_leaks and *leak_bytes count exactly the  *)
(* allocations unreachable from the globals, the live part of the stack    *)
(* and the registers, even when limit cuts the list; the list holds        *)
(* min(limit, num_leaks) of them, and none left out is larger than one     *)
(* reported.  This covers ClassifyMappings' current-library tracking, the  *)
(* stack root from the stack pointer, interior pointers, cycles, and the   *)
(* truncation in Leaked.                                                   *)
LeaksMatchReachability ==
  phase = "done" =>
    /\ numLeaks = Cardinality(RefLeaks)
    /\ leakBytes = MapThenSumSet(Size, RefLeaks)
    /\ Len(leaks) = Min({limit, numLeaks})
    /\ \A i \in 1..Len(leaks) :
         /\ Region(leaks[i].begin, leaks[i].begin + leaks[i].size) \in RefLeaks
         /\ \A b \in RefLeaks :
              (\A j \in 1..Len(leaks) : b.begin # leaks[j].begin)
                => Size(b) <= leaks[i].size
====
