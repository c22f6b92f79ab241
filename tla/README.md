# TLA+ models of `src/libcutils/sched_policy.c`

The repository's source is one file, `src/libcutils/sched_policy.c`. It holds two
unrelated pieces of system code:

* **libcutils scheduling policy** (lines 1-495): `set_sched_policy`,
  `set_cpuset_policy`, `get_sched_policy` and `get_sched_policy_name`. These
  move a thread between the cpu-control cgroups (`/dev/cpuctl`), between the
  cpusets (`/dev/cpuset`), or between POSIX scheduling classes, and they set
  the thread's timer slack.
* **libmemunreachable's driver** (lines 496-875): `GetUnreachableMemory` and
  `LogUnreachableMemory`. These stop every thread of the process with ptrace,
  fork a copy-on-write snapshot, mark-and-sweep the heap in the child, and send
  the leaks back to the parent through a pipe.

## 1. Inventory

### Scheduling policy (lines 1-495)

| component | state | operations | notes |
|---|---|---|---|
| A. once-initialisation (`__initialize`, `__init_sched`, `__init_cpuset`) | `__sys_supports_schedgroups` (-1/0/1), `__sys_supports_cpusets`, fds `fg_cgroup_fd`, `bg_cgroup_fd`, `system_bg_cpuset_fd`, `bg_cpuset_fd`, `fg_cpuset_fd` | `pthread_once` on `the_once`/`sched_once`/`cpuset_once` | an open may fail and leave its fd at -1 |
| B. `add_tid_to_cgroup` | the kernel's cgroup membership of a tid | writes the tid into `tasks` | an fd < 0 gives -EINVAL; ESRCH counts as success; every other errno becomes -EINVAL |
| C. `set_cpuset_policy` | cpuset membership | chooses an fd by policy, then calls B | delegates to D when there are no cpusets |
| D. `set_sched_policy` | cgroup membership, POSIX class, timer slack | calls B (schedgroups) or `sched_setscheduler`, then `prctl(PR_SET_TIMERSLACK_PID)` | two kernel writes that are not atomic together |
| E. `getSchedulerGroup` / `get_sched_policy` | none (reads `/proc/<tid>/cgroup`) | parses `n:cpu:/group\n` | the group maps to a policy |
| F. `get_sched_policy_name` | none | table lookup | pure |

### Leak detector (lines 496-875)

| component | state | operations | modelled |
|---|---|---|---|
| G. `GetUnreachableMemory(info, limit)` | the original thread, the collection thread, and the heap-walker child; the semaphore; the malloc lock; the pipe | the steps at lines 694-832 | yes: `Collector` |
| H. `MemUnreachable::CollectAllocations`, `ClassifyMappings`, `HeapIterate` | heap, anon, global and stack mappings; HeapWalker roots | the classification at lines 560-692 | yes: `MemUnreachable` (abstracted into `ChildCollect` in `Collector`) |
| I. `MemUnreachable::GetUnreachableMemory` (the sweep) | the leaks | `heap_walker_.Leaked`, copying the contents (613-635) | yes: `MemUnreachable` (HeapWalker from the specification; contents not modelled) |
| J. `LogUnreachable`, `LogUnreachableMemory` | none | formatting and logging (834-875) | no: pure I/O |
| K. ThreadCapture, PtracerThread, Semaphore, LeakPipe, ScopedDisableMalloc, HeapWalker | (headers not in `src/`) | used by G | their observable behaviour is modelled inside `Collector` |

### Interactions
* G's three actors coordinate through the semaphore `continue_parent_sem`,
  the malloc locks (`ScopedDisableMalloc` in the parent; the at-fork handlers
  of `fork`), ptrace stops (ThreadCapture), `thread.Join` and the pipe.
* The other threads of the process (the "siblings") keep running `malloc`
  and `free` until they are captured. Whatever they hold when stopped stays
  held until `ReleaseThread` or the destructor of `ThreadCapture`.
* The scheduling operations run in any thread of any process, concurrently
  with each other and with the target thread exiting. The only
  synchronisation is `pthread_once`.

### What is hard here
* **Interleavings of set calls.** A `set_sched_policy` is two kernel writes:
  the class and then the slack. Two callers on one tid can interleave, leaving
  a class from one call and a slack from the other.
* **Paths that stick.** `SP_REALTIME` under schedgroups goes through
  `sched_setscheduler`, but the non-RT paths never undo it.
* **Errors.** A thread can exit between being chosen and being written, which
  gives ESRCH (success). Opens fail at init. There is dead code that looks
  like error handling (the ESRCH/ENOENT test after `add_tid_to_cgroup`).
  The slack `prctl` may fail, and its result is ignored.
* **Parsing.** `getSchedulerGroup` strips the leading `/` and the trailing
  character.
* **The leak detector's protocol.** The malloc lock is held across the start
  of a thread. A timeout on the semaphore is ignored. Threads are stopped
  while they may hold the malloc lock. The fork needs that same lock. The
  parent waits for a child that may fail at any send.

### The properties that make each component correct
* B-D: what `get_sched_policy` reports is what the last completed
  `set_sched_policy` asked for (`GetReportsLastSet`). The slack agrees with the
  class the kernel reports (`SlackMatchesReportedClass`), which holds
  only while the `prctl` succeeds: its failure is ignored
  (sched_slack_refused). A thread is SCHED_RR
  only if SP_REALTIME was the last request (`RealtimeOnlyWhenAsked`). No
  call changes a thread other than the one its tid names
  (`SetMovesOnlyItsTarget`). With
  one caller per thread, every set takes effect in one step
  (`AtomicSetSpec`, against `AtomicSchedPolicy`), even when a write fails or
  the thread exits.
* G-I: no sibling is stopped inside malloc (`NoStopInsideMalloc`). A
  successful return counts exactly the leaks of the live process at fork and
  lists `min(limit, num_leaks)` of them (`ReportsLiveLeaks`). The call
  returns (`CollectionTerminates`).
* H-I: the counts the child sends are exactly the allocations unreachable
  from the roots the classifier table names. The list is the largest of
  them, cut at `limit` (`LeaksMatchReachability`).

## 2. Modules

| module | models | instantiated by |
|---|---|---|
| `Collector` | G, with the child's walk abstracted to `MarkFrom`/`Unreachable` over a one-field heap | `MCCollector` |
| `MemUnreachable` | H and I: ClassifyMappings, CollectAllocations, HeapWalker's mark and sweep with `limit`, the leak list | `MCMemUnreachable` |
| `SchedPolicy` | A-E: every caller thread is a process stepping through `set_sched_policy`, `set_cpuset_policy` and `get_sched_policy` one kernel call at a time | `MCSchedPolicy` |
| `AtomicSchedPolicy` | the abstract promise of B-D: a set moves a thread's class and slack (or its cpuset) in one step, or does nothing | instantiated by `SchedPolicy` (`ATOM`) |
| `SchedPolicyReuse` | `SchedPolicy` with the kernel reusing the tid of an exited thread (`ThreadSpawn`) | `MCSchedPolicyReuse` |

### `Collector`
* The original thread's `opc` follows lines 789-831: DisableMalloc, Start,
  Wait, EnableMalloc, Join, OpenReceiver, Receive×5.
* The collection thread's `cpc` follows lines 707-782: CaptureThreads,
  CapturedThreadInfo, ProcessMappings, ReleaseThread, Post, Fork.
* The child's `kpc` follows lines 741-776: OpenSender, Collect, Send×5.
* Siblings are the environment. `MallocEnter`/`MallocExit` take and release
  the one malloc lock, and allocate or free an object. `Mutate` stores pointers
  into globals, registers and object fields.
* The heap is a set of objects with one pointer field each, a global root and
  one register per thread. `Fork` copies it into `snap`; the child's result is
  compared with `Unreachable` of the live state at fork time.
* `limit` is the argument of `GetUnreachableMemory`, chosen in `Init` from
  `Limits`. `Reports` is what the child may send: the totals over every
  leak, and a list of `min(limit, num_leaks)` of them. Objects have one size
  and no address, so the list may be any leaks of that number (HeapWalker
  picks by size, then address; `MemUnreachable` checks that order).
* The original thread holds no heap pointers in the model: between its
  release (line 733) and fork it only returns from `Wait`, re-enables malloc
  and calls `Join`, none of which stores a pointer to the malloc heap.
* `Wait` times out only when `SlowCapture` is TRUE, or after the collection
  thread has finished without posting (its failure paths).

### `SchedPolicy`
* Kernel state per tid: `cgroup` (the cpuctl directory), `cpuset`, `posix`
  (the POSIX class), `slack` and `alive`.
* Library state: the once flags, `schedgroups`, `cpusets`, and which fds are
  open.
* A caller's `pc` names the next kernel call. `SchedApply` is the cgroup write
  or the `sched_setscheduler`. `SchedSlack` is the `prctl`. The kernel sets
  the slack only when it has the prctl (`SlackPrctl`, Android kernels only,
  comment at line 48) and, for another thread, when the caller has
  CAP_SYS_NICE (`SlackCapable`); otherwise the slack stays and, since line
  457 ignores the result, the call still returns 0. `GetRead` is the
  read and parse of `/proc/<tid>/cgroup`, or `sched_getscheduler`.
* `lastSet` is ghost state: the policy of the last completed set on the tid.
* `ThreadExit` lets a target that is not a caller exit at any time.
* Thread ids are the ints 1, 2 and 10. A caller may also pass 0 (itself)
  or a negative tid.
* `AddTidToCgroup` writes `Itoa(tid)`: the recursive digit loop, most
  significant digit first, empty when the tid is not positive.
* `TasksWrite` is the kernel's side of that write. It reads the text as a
  decimal pid with `FoldLeft`, and moves that thread, refuses it (EINVAL),
  or finds no thread (ESRCH). An empty text (a negative tid) is no number,
  and the kernel refuses it with EINVAL.

### `MemUnreachable`
* The child's computation is a small state machine. `Init` chooses the
  inputs: the mappings, the allocator's blocks, the memory image, the stack
  pointer and registers of a captured thread, and `limit`.
* `Collect` is `CollectAllocations`, built on the recursive `Classify`
  (ClassifyMappings, in /proc/pid/maps order, tracking the current library)
  and `HeapIterate`. Allocations go into HeapWalker's index, which drops
  overlaps.
* `MarkRegion` scans one region of the work queue. `Sweep` is `Leaked`
  followed by `MemUnreachable::GetUnreachableMemory`: the leaks sorted
  largest first, cut at `limit`, with the totals over all leaks.
* HeapWalker is not under `src/`, so `MarkRegion`, `Allocation`, `ValuesIn`
  and `Holds` are modelled from the specification's section 4.E.
* Mapping names are pairs `<<prefix, rest>>`; `has_prefix` tests the
  prefix.
* The reference (`TableTarget`, `RefLeaks`) applies the specification's
  classifier table to each mapping on its own, the current library being
  the last executable mapping before it. It defines leaks by the transitive
  closure of "some word of x points into y".

### `AtomicSchedPolicy` and the refinement
* The abstract state per tid is `class` (what `get_sched_policy` reports, or
  "none" once the thread has exited), `slack` and `cpuset`.
* `Set` moves a live thread to a class and the slack of that class in one
  step. `SetCpuset` moves its cpuset. `Exit` ends it.
* `SchedPolicy` maps onto it as `ATOM`, with these mappings:
  * `class` is `AbsClass`: "none" for an exited thread. While a set on the
    thread stands at its `prctl` (`SetCommitting`), it is the class its
    slack still shows. Otherwise it is what `GetSchedPolicy` reports.
  * `slack` and `cpuset` map to themselves.
* The cgroup write or `sched_setscheduler` is therefore a stuttering step.
  `SchedSlack` is the abstract `Set`, and `CpusetApply` is `SetCpuset`. A
  failed write is a stuttering step.
* `AtomicSetSpec == ATOM!Spec` is checked as a PROPERTY, with the `prctl`
  succeeding: when it fails, the abstract `Set` never happens and the
  class has moved (the sched_slack_refused finding). `SP_REALTIME` is
  left out of the requests, because its class sticks (sched_realtime). The
  targets are disjoint, because two callers on one tid break it
  (sched_race).

### `SchedPolicyReuse`
* It extends `SchedPolicy` with `ThreadSpawn(t)`. A thread that makes no
  library calls creates a thread, and the kernel gives it the number of an
  exited, non-caller thread.
* The new thread inherits the creator's default state: root cgroup and
  cpuset, SCHED_NORMAL, foreground slack.
* Only the violation run sched_tid_reuse uses it.

### Plan for later sittings (in order)
1. Larger Collector heaps. Two objects with one sibling passed 5.8M states
   in 5 minutes without finishing, so this needs a smaller abstraction of
   the siblings' mutations first.

## 3. Runs

| run | cfg | expect | checks |
|---|---|---|---|
| collector | `MCCollector.cfg` | pass | TypeOK, NoStopInsideMalloc, ReportsLiveLeaks, CollectionTerminates; 2 siblings, 1 object; a pointer is that object or NULL; `limit` 0 or 1 |
| collector_slow | `MCCollectorSlow.cfg` | violation | CollectionTerminates when `Wait(100s)` times out before the post |
| sched | `MCSchedPolicy.cfg` | pass | TypeOK, GetReportsLastSet, SlackMatchesReportedClass, SetMovesOnlyItsTarget; 2 callers on disjoint targets (one sets itself; the other sets a third thread that may exit, and may also pass the tid -1); no cpusets; the prctl succeeds |
| sched_cpuset | `MCSchedPolicyCpuset.cfg` | pass | GetReportsLastSet and SlackMatchesReportedClass, with cpusets on and one caller that uses `set_cpuset_policy` too |
| sched_race | `MCSchedPolicyRace.cfg` | violation | SlackMatchesReportedClass when two callers set the same tid |
| sched_realtime | `MCSchedPolicyRealtime.cfg` | violation | RealtimeOnlyWhenAsked |
| sched_slack_refused | `MCSchedPolicySlackRefused.cfg` | violation | SlackMatchesReportedClass when the caller lacks CAP_SYS_NICE, so the prctl on another thread fails |
| mem_walk | `MCMemUnreachableWalk.cfg` | pass | TypeOK, LeaksMatchReachability over every memory image of a fixed layout |
| mem_classify | `MCMemUnreachableClassify.cfg` | pass | LeaksMatchReachability over every layout of three mappings of eleven kinds |
| sched_atomic | `MCSchedPolicyAtomic.cfg` | pass | AtomicSetSpec: SchedPolicy implements AtomicSchedPolicy. One caller per thread, cpusets built in, every open may fail, no SP_REALTIME; about 1.9M states in about 70 s |
| sched_tid_reuse | `MCSchedPolicyReuse.cfg` | violation | SlackMatchesReportedClass with one caller per thread when a tid is reused mid-call |

### Bounds
* Collector: 2 siblings are enough for one to hold the lock while the other
  is captured. One object, one field and a global are enough for both a leak
  and a reachable object (the object is reachable or not, depending on the
  roots), while the state space stays near 415k states. `limit` 0 and 1
  give a list cut short (num_leaks 1, no leak listed) and a full one.
* SchedPolicy: 2 callers and 3 tids. The requests are DEFAULT, BACKGROUND,
  SYSTEM and REALTIME. These cover the fg, bg and no-fd cgroup cases, the rt
  path, and `SP_DEFAULT` resolving to foreground. Every open may succeed or
  fail, so all the init outcomes are reached.
  * The third thread's id is 10, so itoa makes two digits and their order
    matters.
  * -1 is the one negative tid: every negative tid formats the same, as
    nothing.

* mem_walk: a library's code word and data word, a four-word malloc arena
  and a one-word stack. The arena is cut three ways: two 2-word blocks, or
  1+1+2, or 2+1+1, so sizes differ and tie.
  * Every word holds NULL, or a pointer to the interior or the base of a
    block: 4 and 6 are interior in some cuts and base in others.
  * The stack pointer is inside the stack or equal to its end.
  * The registers are empty or hold a pointer.
  * `limit` is 1 or 2, so truncation happens.
  * This gives 203,876 states in about 70 s. With the code word in memory
    as well it took 3.5 minutes.
* mem_classify: three one-word mappings, each of 11 kinds, giving 1331
  layouts. The kinds:
  * a library's code and data;
  * a font file;
  * a dalvik heap, a stack, and a thread-signal-stack anon mapping;
  * .bss, libc_malloc and the leak-detector arena;
  * an unnamed mapping, and an unreadable malloc arena.

  Every word holds NULL or a pointer into the second or third block. This
  gives 487,680 states in about 5 s.
* Collector with two heap objects gave more than 1.6M states in 80 s
  without finishing; with one sibling and two objects, TLC passed 5.8M
  states in 5 minutes without finishing. Chains and cycles of objects are
  covered by mem_walk instead.

### Fairness
* Collector: weak fairness on each of the three actors. This is justified
  because they are threads and a process scheduled by the kernel. A sibling
  inside malloc gets weak fairness to leave it: malloc returns.
* Lock acquisition (`OrigDisableMalloc`) and `Fork` get strong fairness. They
  wait on a mutex that the siblings release and retake, and a mutex waiter
  is eventually served.
* Nothing is fair about the siblings entering malloc: they may stop doing so.
* SchedPolicy checks safety only (its refinement included), so it assumes
  no fairness.
* MemUnreachable checks safety only, so it assumes no fairness.

## 4. Findings
* **collector_slow**: the result of `continue_parent_sem.Wait(100s)` (line 798)
  is ignored. If the collection thread is slow, the parent drops the malloc
  locks while siblings still run. A sibling can then take the lock and be
  ptrace-stopped holding it. The collection thread's `fork()` (line 737)
  runs the at-fork handlers, which wait for that lock forever, and the parent
  waits in `Join` (line 804). `GetUnreachableMemory` never returns.
* **sched_realtime**: under schedgroups, `set_sched_policy(SP_REALTIME)`
  calls `sched_setscheduler(SCHED_RR)` (line 452). Every other policy only
  writes the cgroup (line 434), so a later `SP_BACKGROUND` leaves the thread
  SCHED_RR.
* **sched_race**: `set_sched_policy` writes the class (lines 434/452) and the
  slack (line 457) without a lock. Two concurrent calls on one tid can leave
  the background class with the foreground slack.
* **sched_slack_refused**: the `prctl(PR_SET_TIMERSLACK_PID)` at line 457
  exists only on Android kernels (comment at line 48) and refuses another
  thread with EPERM when the caller lacks CAP_SYS_NICE. Its result is
  ignored, so `set_sched_policy` on another thread returns 0 having moved
  the thread's class but not its timer slack.

* **sched_tid_reuse**: the call names its thread only by tid. If the thread
  exits after the class write (line 434 or 452) and the kernel gives its tid
  to a new thread, the `prctl` (line 457) sets the new thread's slack. The
  new thread keeps the class it was created with, and the call returns 0.
  The specification only says the exit race (ESRCH) counts as success.

## 5. Not modelled
* `LogUnreachable`/`LogUnreachableMemory`: formatting only.
* `get_sched_policy_name`: a table indexed by the SchedPolicy enum. The
  enum's values are in `cutils/sched_policy.h`, which is not in the
  repository, so its bound test `policy < SP_CNT` cannot be translated.
* The child's `_exit(2)` after `CollectAllocations`: the code's
  ClassifyMappings always returns true, so exit 2 cannot happen.
* `__initialize`'s read of `/proc/self/cmdline`: it only affects logging.
* The contents copy in `MemUnreachable::GetUnreachableMemory`, and byte sizes:
  every object counts as one unit.
* The ptrace and `/proc/pid/maps` machinery is inside headers outside `src/`.
  Only its success or failure is modelled.
