----------------------------- MODULE Collector -----------------------------
(***************************************************************************)
(* The freeze / capture / fork / collect protocol of                       *)
(* GetUnreachableMemory (MemUnreachable.cpp, src/libcutils/sched_policy.c  *)
(* lines 694-832).  Four kinds of actor run concurrently:                  *)
(*   - the original thread Orig, which calls GetUnreachableMemory;         *)
(*   - the collection thread (PtracerThread), which ptraces every thread,  *)
(*     reads their registers, releases Orig and forks;                     *)
(*   - the heap walker child process, which walks its copy-on-write        *)
(*     snapshot and streams the result through the LeakPipe;               *)
(*   - the other threads of the process (Siblings), which mutate the heap  *)
(*     and take the malloc lock, until they are ptrace-stopped.            *)
(* The malloc lock stands for every lock ScopedDisableMalloc and the       *)
(* at-fork handlers take.  The heap is a set of objects, each with one     *)
(* pointer-sized field; a sibling's registers are one pointer-sized slot;  *)
(* the globals are one slot.                                               *)
(***************************************************************************)
EXTENDS Integers, Sequences, FiniteSets

CONSTANTS
  Orig,        \* the thread that calls GetUnreachableMemory
  Siblings,    \* the other threads of the process
  Objects,     \* the heap objects malloc can hand out
  Null,        \* a pointer that points at no object
  NoOwner,     \* the malloc lock is free
  NoRet,       \* a thread or process that has not returned yet
  SlowCapture, \* TRUE: the 100 s wait may run out before the post
  Limits       \* the values the limit argument may take

ASSUME /\ Orig \notin Siblings
       /\ Null \notin Objects
       /\ SlowCapture \in BOOLEAN
       /\ Limits \subseteq Nat

Threads == {Orig} \cup Siblings
Ptr == Objects \cup {Null}

\* The five values the child sends and the parent receives, in order.
NumFields == 5

VARIABLES
  opc,        \* program counter of the original thread
  cpc,        \* program counter of the collection thread
  kpc,        \* program counter of the heap walker child process
  ctRet,      \* the collection thread's return value (thread.Join())
  childExit,  \* the child's exit status
  ret,        \* the value GetUnreachableMemory returns
  captured,   \* threads ptrace-stopped by ThreadCapture
  sem,        \* continue_parent_sem
  timedOut,   \* history: Orig's Wait(100s) ran out
  lock,       \* owner of the malloc lock
  alloc,      \* objects currently allocated
  field,      \* the pointer stored in each object
  glob,       \* the pointer stored in the globals
  reg,        \* the pointer held in each sibling's registers
  regSnap,    \* registers read by CapturedThreadInfo
  snap,       \* the child's copy-on-write image, taken at fork
  truth,      \* history: the objects unreachable in the live process at fork
  result,     \* what the child computed, in send order
  senderOpen, \* the child opened the sending end (LeakPipe::OpenSender)
  sent,       \* how many of the values the child has written to the pipe
  info,       \* the values the parent has read (UnreachableMemoryInfo)
  limit       \* the limit argument of GetUnreachableMemory

heapVars == <<alloc, field, glob, reg>>
vars == <<opc, cpc, kpc, ctRet, childExit, ret, captured, sem, timedOut,
          lock, alloc, field, glob, reg, regSnap, snap, truth, result,
          senderOpen, sent, info, limit>>

-----------------------------------------------------------------------------
(* Conservative reachability: the objects a scan starting from the         *)
(* pointers in roots reaches, following the field of every object marked.  *)
(* A pointer to an object that is not allocated marks nothing.             *)
RECURSIVE MarkFrom(_, _, _)
MarkFrom(marked, fld, live) ==
  LET next == marked \cup ({fld[o] : o \in marked} \cap live)
  IN IF next = marked THEN marked ELSE MarkFrom(next, fld, live)

Unreachable(live, fld, roots) ==
  live \ MarkFrom(roots \cap live, fld, live)

LesserOf(a, b) == IF a < b THEN a ELSE b

(* The results the child may compute: num_allocations, allocation_bytes,   *)
(* num_leaks, leak_bytes (every object being one unit of bytes) and the    *)
(* leaks.  HeapWalker::Leaked counts every leak but returns at most limit  *)
(* of them, the largest first and by address among equals; objects here   *)
(* are of one size and their addresses are not modelled, so any limit of   *)
(* them may be the ones returned.                                          *)
Reports(leaks, live, lim) ==
  { << Cardinality(live), Cardinality(live), Cardinality(leaks),
       Cardinality(leaks), kept >> :
    kept \in {k \in SUBSET leaks : Cardinality(k) = LesserOf(lim, Cardinality(leaks))} }

Stopped(t) == t \in captured
Running(t) == ~Stopped(t)

-----------------------------------------------------------------------------
(* Original thread.                                                        *)

\* ScopedDisableMalloc disable_malloc: take every malloc lock.
OrigDisableMalloc ==
  /\ opc = "disable" /\ Running(Orig)
  /\ lock = NoOwner
  /\ lock' = Orig
  /\ opc' = "start"
  /\ UNCHANGED <<cpc, kpc, ctRet, childExit, ret, captured, sem, timedOut,
                 heapVars, regSnap, snap, truth, result, senderOpen, sent, info, limit>>

\* thread.Start()
OrigStart ==
  /\ opc = "start" /\ Running(Orig)
  /\ opc' = "wait"
  /\ cpc' = "capture"
  /\ UNCHANGED <<kpc, ctRet, childExit, ret, captured, sem, timedOut, lock,
                 heapVars, regSnap, snap, truth, result, senderOpen, sent, info, limit>>

\* Mutant: a wait that can run out at any time, as a too short deadline.
OrigWaitShortTimeout ==
  /\ opc = "wait" /\ Running(Orig)
  /\ \/ sem > 0 /\ sem' = sem - 1 /\ UNCHANGED timedOut
     \/ timedOut' = TRUE /\ UNCHANGED sem
  /\ opc' = "enable"
  /\ UNCHANGED <<cpc, kpc, ctRet, childExit, ret, captured, lock,
                 heapVars, regSnap, snap, truth, result, senderOpen, sent, info, limit>>

\* continue_parent_sem.Wait(100s): returns on a post or when the time runs
\* out; the code ignores which.  The time runs out only once nothing will
\* post any more, unless SlowCapture allows a slow collection thread.
OrigWait ==
  /\ opc = "wait" /\ Running(Orig)
  /\ \/ /\ sem > 0
        /\ sem' = sem - 1
        /\ UNCHANGED timedOut
     \/ /\ SlowCapture \/ cpc = "done"
        /\ timedOut' = TRUE
        /\ UNCHANGED sem
  /\ opc' = "enable"
  /\ UNCHANGED <<cpc, kpc, ctRet, childExit, ret, captured, lock,
                 heapVars, regSnap, snap, truth, result, senderOpen, sent, info, limit>>

\* End of the scope: ~ScopedDisableMalloc releases the malloc locks.
OrigEnableMalloc ==
  /\ opc = "enable" /\ Running(Orig)
  /\ lock' = NoOwner
  /\ opc' = "join"
  /\ UNCHANGED <<cpc, kpc, ctRet, childExit, ret, captured, sem, timedOut,
                 heapVars, regSnap, snap, truth, result, senderOpen, sent, info, limit>>

\* thread.Join(); a non-zero return value fails the collection.
OrigJoin ==
  /\ opc = "join" /\ Running(Orig)
  /\ ctRet # NoRet
  /\ IF ctRet = 0
       THEN opc' = "open" /\ UNCHANGED ret
       ELSE opc' = "done" /\ ret' = FALSE
  /\ UNCHANGED <<cpc, kpc, ctRet, childExit, captured, sem, timedOut, lock,
                 heapVars, regSnap, snap, truth, result, senderOpen, sent, info, limit>>

\* pipe.OpenReceiver(): receives the pipe end the child sends; fails when
\* the child exited without sending it.
OrigOpenReceiver ==
  /\ opc = "open" /\ Running(Orig)
  /\ \/ senderOpen /\ opc' = "recv" /\ UNCHANGED ret
     \/ ~senderOpen /\ kpc = "exited" /\ opc' = "done" /\ ret' = FALSE
  /\ UNCHANGED <<cpc, kpc, ctRet, childExit, captured, sem, timedOut, lock,
                 heapVars, regSnap, snap, truth, result, senderOpen, sent, info, limit>>

\* Mutant: a receive that keeps waiting when the child has gone.
OrigReceiveIgnoresEof ==
  /\ opc = "recv" /\ Running(Orig)
  /\ sent > Len(info)
  /\ info' = Append(info, result[Len(info) + 1])
  /\ IF Len(info') = NumFields THEN opc' = "done" /\ ret' = TRUE
                               ELSE UNCHANGED <<opc, ret>>
  /\ UNCHANGED <<cpc, kpc, ctRet, childExit, captured, sem, timedOut, lock,
                 heapVars, regSnap, snap, truth, result, senderOpen, sent, limit>>

\* pipe.Receiver().Receive(...) of the next value; end of stream (the child
\* exited before writing it) fails the collection; after the last value
\* GetUnreachableMemory returns true.
OrigReceive ==
  /\ opc = "recv" /\ Running(Orig)
  /\ \/ /\ sent > Len(info)
        /\ info' = Append(info, result[Len(info) + 1])
        /\ IF Len(info') = NumFields
             THEN opc' = "done" /\ ret' = TRUE
             ELSE UNCHANGED <<opc, ret>>
     \/ /\ sent = Len(info) /\ kpc = "exited"
        /\ opc' = "done" /\ ret' = FALSE
        /\ UNCHANGED info
  /\ UNCHANGED <<cpc, kpc, ctRet, childExit, captured, sem, timedOut, lock,
                 heapVars, regSnap, snap, truth, result, senderOpen, sent, limit>>

-----------------------------------------------------------------------------
(* Collection thread.                                                      *)

\* Returning from the lambda destroys ThreadCapture, which detaches every
\* thread still stopped.
CollectionReturn(code) ==
  /\ cpc' = "done"
  /\ ctRet' = code
  /\ captured' = {}

\* thread_capture.CaptureThreads(): seize and interrupt one more thread,
\* until every thread is stopped; a failure to stop a live thread returns 1.
CaptureThreads ==
  /\ cpc = "capture"
  /\ \/ \E t \in Threads \ captured :
          /\ captured' = captured \cup {t}
          /\ cpc' = IF captured' = Threads THEN "info" ELSE "capture"
          /\ UNCHANGED ctRet
     \/ CollectionReturn(1)
  /\ UNCHANGED <<opc, kpc, childExit, ret, sem, timedOut, lock, heapVars,
                 regSnap, snap, truth, result, senderOpen, sent, info, limit>>

\* thread_capture.CapturedThreadInfo(thread_info): read every register set.
CapturedThreadInfo ==
  /\ cpc = "info"
  /\ \/ regSnap' = reg /\ cpc' = "maps" /\ UNCHANGED <<ctRet, captured>>
     \/ CollectionReturn(1) /\ UNCHANGED regSnap
  /\ UNCHANGED <<opc, kpc, childExit, ret, sem, timedOut, lock, heapVars,
                 snap, truth, result, senderOpen, sent, info, limit>>

\* ProcessMappings(parent_pid, mappings): may fail to read the maps file.
ProcessMappings ==
  /\ cpc = "maps"
  /\ \/ cpc' = "release" /\ UNCHANGED <<ctRet, captured>>
     \/ CollectionReturn(1)
  /\ UNCHANGED <<opc, kpc, childExit, ret, sem, timedOut, lock, heapVars,
                 regSnap, snap, truth, result, senderOpen, sent, info, limit>>

\* Mutant: releasing every thread instead of the original one.
ReleaseAllThreads ==
  /\ cpc = "release"
  /\ captured' = {}
  /\ cpc' = "post"
  /\ UNCHANGED <<opc, kpc, ctRet, childExit, ret, sem, timedOut, lock,
                 heapVars, regSnap, snap, truth, result, senderOpen, sent, info, limit>>

\* thread_capture.ReleaseThread(parent_tid)
ReleaseThread ==
  /\ cpc = "release"
  /\ captured' = captured \ {Orig}
  /\ cpc' = "post"
  /\ UNCHANGED <<opc, kpc, ctRet, childExit, ret, sem, timedOut, lock,
                 heapVars, regSnap, snap, truth, result, senderOpen, sent, info, limit>>

\* continue_parent_sem.Post()
Post ==
  /\ cpc = "post"
  /\ sem' = sem + 1
  /\ cpc' = "fork"
  /\ UNCHANGED <<opc, kpc, ctRet, childExit, ret, captured, timedOut, lock,
                 heapVars, regSnap, snap, truth, result, senderOpen, sent, info, limit>>

\* Mutant: the failed fork's -1 returned as the thread's result.
ForkReturnsPid ==
  /\ cpc = "fork"
  /\ lock = NoOwner
  /\ \/ /\ snap' = [alloc |-> alloc, field |-> field, glob |-> glob]
        /\ truth' = Unreachable(alloc, field, {glob} \cup {reg[s] : s \in Siblings})
        /\ kpc' = "open"
        /\ CollectionReturn(0)
     \/ /\ CollectionReturn(-1)
        /\ UNCHANGED <<snap, truth, kpc>>
  /\ UNCHANGED <<opc, childExit, ret, sem, timedOut, lock, heapVars,
                 regSnap, result, senderOpen, sent, info, limit>>

\* fork(): the at-fork handlers take the malloc locks before anything
\* else, so fork, failing or not, waits for them; the child gets a copy of
\* the heap.  The parent side returns 0 and releases every captured thread;
\* a failed fork returns 1.
Fork ==
  /\ cpc = "fork"
  /\ lock = NoOwner
  /\ \/ /\ snap' = [alloc |-> alloc, field |-> field, glob |-> glob]
        /\ truth' = Unreachable(alloc, field, {glob} \cup {reg[s] : s \in Siblings})
        /\ kpc' = "open"
        /\ CollectionReturn(0)
     \/ /\ CollectionReturn(1)
        /\ UNCHANGED <<snap, truth, kpc>>
  /\ UNCHANGED <<opc, childExit, ret, sem, timedOut, lock, heapVars,
                 regSnap, result, senderOpen, sent, info, limit>>

-----------------------------------------------------------------------------
(* Heap walker child process.                                              *)

ChildExit(code) ==
  /\ kpc' = "exited"
  /\ childExit' = code

\* ScopedDisableMalloc in the child, then pipe.OpenSender(); _exit(1) on
\* failure.
ChildOpenSender ==
  /\ kpc = "open"
  /\ \/ senderOpen' = TRUE /\ kpc' = "collect" /\ UNCHANGED childExit
     \/ ChildExit(1) /\ UNCHANGED senderOpen
  /\ UNCHANGED <<opc, cpc, ctRet, ret, captured, sem, timedOut, lock,
                 heapVars, regSnap, snap, truth, result, sent, info, limit>>

\* CollectAllocations from the snapshot and the captured registers, then
\* GetUnreachableMemory (mark and sweep).  CollectAllocations cannot fail:
\* ClassifyMappings always returns true.
ChildCollect ==
  /\ kpc = "collect"
  /\ result' \in Reports(Unreachable(snap.alloc, snap.field,
                                    {snap.glob} \cup {regSnap[s] : s \in Siblings}),
                        snap.alloc, limit)
  /\ kpc' = "send"
  /\ UNCHANGED <<opc, cpc, ctRet, childExit, ret, captured, sem, timedOut,
                 lock, heapVars, regSnap, snap, truth, senderOpen, sent, info, limit>>

\* pipe.Sender().Send(...) of the next value; a failed send is _exit(3);
\* after the last one the child exits with 0.
ChildSend ==
  /\ kpc = "send"
  /\ \/ /\ sent' = sent + 1
        /\ IF sent' = NumFields THEN ChildExit(0) ELSE UNCHANGED <<kpc, childExit>>
     \/ ChildExit(3) /\ UNCHANGED sent
  /\ UNCHANGED <<opc, cpc, ctRet, ret, captured, sem, timedOut, lock,
                 heapVars, regSnap, snap, truth, result, senderOpen, info, limit>>

-----------------------------------------------------------------------------
(* The other threads of the process: the program being examined.  They    *)
(* run only while not ptrace-stopped; malloc and free hold the lock.       *)

MallocEnter(s) ==
  /\ Running(s) /\ lock = NoOwner
  /\ lock' = s
  /\ UNCHANGED heapVars

\* Leave malloc having allocated a free object (its field keeps whatever
\* it held before), having run out of objects (NULL), or having freed the
\* object the registers point at.
MallocExit(s) ==
  /\ Running(s) /\ lock = s
  /\ lock' = NoOwner
  /\ \/ \E o \in Objects \ alloc :
          /\ alloc' = alloc \cup {o}
          /\ reg' = [reg EXCEPT ![s] = o]
     \/ /\ alloc = Objects
        /\ reg' = [reg EXCEPT ![s] = Null]
        /\ UNCHANGED alloc
     \/ /\ reg[s] \in alloc
        /\ alloc' = alloc \ {reg[s]}
        /\ UNCHANGED reg
  /\ UNCHANGED <<field, glob>>

\* Plain loads and stores of pointers between registers, globals and the
\* field of the object the registers point at.
Mutate(s) ==
  /\ Running(s)
  /\ \/ glob' = reg[s] /\ UNCHANGED <<field, reg>>
     \/ reg' = [reg EXCEPT ![s] = glob] /\ UNCHANGED <<field, glob>>
     \/ /\ reg[s] \in alloc
        /\ \/ field' = [field EXCEPT ![reg[s]] = reg[s]] /\ UNCHANGED reg
           \/ field' = [field EXCEPT ![reg[s]] = glob] /\ UNCHANGED reg
           \/ reg' = [reg EXCEPT ![s] = field[reg[s]]] /\ UNCHANGED field
        /\ UNCHANGED glob
     \/ reg' = [reg EXCEPT ![s] = Null] /\ UNCHANGED <<field, glob>>
  /\ UNCHANGED <<alloc, lock>>

Sibling(s) ==
  /\ MallocEnter(s) \/ MallocExit(s) \/ Mutate(s)
  /\ UNCHANGED <<opc, cpc, kpc, ctRet, childExit, ret, captured, sem,
                 timedOut, regSnap, snap, truth, result, senderOpen, sent, info, limit>>

-----------------------------------------------------------------------------
Init ==
  /\ opc = "disable"
  /\ cpc = "idle"
  /\ kpc = "none"
  /\ ctRet = NoRet
  /\ childExit = NoRet
  /\ ret = NoRet
  /\ captured = {}
  /\ sem = 0
  /\ timedOut = FALSE
  /\ lock = NoOwner
  /\ alloc \in SUBSET Objects
  /\ field \in [Objects -> Ptr]
  /\ glob \in Ptr
  /\ reg \in [Siblings -> Ptr]
  /\ regSnap = [s \in Siblings |-> Null]
  /\ snap = [alloc |-> {}, field |-> [o \in Objects |-> Null], glob |-> Null]
  /\ truth = {}
  /\ result = << >>
  /\ senderOpen = FALSE
  /\ sent = 0
  /\ info = << >>
  /\ limit \in Limits

OrigStep ==
  \/ OrigDisableMalloc \/ OrigStart \/ OrigWait \/ OrigEnableMalloc
  \/ OrigJoin \/ OrigOpenReceiver \/ OrigReceive

CollectionStep ==
  \/ CaptureThreads \/ CapturedThreadInfo \/ ProcessMappings
  \/ ReleaseThread \/ Post \/ Fork

ChildStep == ChildOpenSender \/ ChildCollect \/ ChildSend

Next ==
  \/ OrigStep
  \/ CollectionStep
  \/ ChildStep
  \/ \E s \in Siblings : Sibling(s)

(* Every step of the three actors of the collection is taken by a thread   *)
(* or process the kernel keeps scheduling: weak fairness.  Taking the      *)
(* malloc lock competes with the siblings, who may take it again and       *)
(* again: strong fairness, as a mutex under a fair scheduler gives.  A     *)
(* sibling inside malloc leaves it unless it is stopped.                   *)
Fairness ==
  /\ WF_vars(OrigStep /\ ~OrigDisableMalloc)
  /\ SF_vars(OrigDisableMalloc)
  /\ WF_vars(CollectionStep /\ ~Fork)
  /\ SF_vars(Fork)
  /\ WF_vars(ChildStep)
  /\ \A s \in Siblings :
       WF_vars(MallocExit(s) /\ UNCHANGED <<opc, cpc, kpc, ctRet, childExit,
               ret, captured, sem, timedOut, regSnap, snap, truth, result,
               senderOpen, sent, info, limit>>)

Spec == Init /\ [][Next]_vars /\ Fairness

-----------------------------------------------------------------------------
TypeOK ==
  /\ opc \in {"disable", "start", "wait", "enable", "join", "open", "recv", "done"}
  /\ cpc \in {"idle", "capture", "info", "maps", "release", "post", "fork", "done"}
  /\ kpc \in {"none", "open", "collect", "send", "exited"}
  /\ ctRet \in {NoRet, 0, 1}
  /\ childExit \in {NoRet, 0, 1, 3}
  /\ ret \in {NoRet, TRUE, FALSE}
  /\ captured \subseteq Threads
  /\ sem \in 0..1
  /\ timedOut \in BOOLEAN
  /\ lock \in Threads \cup {NoOwner}
  /\ alloc \subseteq Objects
  /\ field \in [Objects -> Ptr]
  /\ glob \in Ptr
  /\ reg \in [Siblings -> Ptr]
  /\ regSnap \in [Siblings -> Ptr]
  /\ truth \subseteq Objects
  /\ senderOpen \in BOOLEAN
  /\ sent \in 0..NumFields
  /\ Len(info) \in 0..NumFields

(* No sibling is ever ptrace-stopped while it holds the malloc lock: the   *)
(* original thread holds every malloc lock from before the collection      *)
(* thread starts until the collection thread has released it, so the       *)
(* at-fork handlers fork runs can take the locks.                          *)
NoStopInsideMalloc ==
  lock \in Siblings => lock \notin captured

(* When GetUnreachableMemory returns true, info counts exactly the        *)
(* objects unreachable in the live process at the instant of fork,         *)
(* registers of every sibling included, and its leak list holds            *)
(* min(limit, num_leaks) of them and nothing else: the registers read      *)
(* before fork are still current when the child's image is taken, because  *)
(* only the original thread is released in between.                        *)
ReportsLiveLeaks ==
  ret = TRUE => /\ info = result
                /\ info[3] = Cardinality(truth)
                /\ info[4] = Cardinality(truth)
                /\ info[5] \subseteq truth
                /\ Cardinality(info[5]) = LesserOf(limit, Cardinality(truth))

(* Every call of GetUnreachableMemory returns.                             *)
CollectionTerminates == <>(opc = "done")
=============================================================================
