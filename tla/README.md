# A TLA+ development for the JOS kernel of lab 6

The repository holds six snapshots of one teaching operating system,
`src/1/515030910211` to `src/6/515030910211`. Lab 6 contains and supersedes the
others, so everything here is about `src/6/515030910211`; paths below are
relative to it. JOS is a small multiprocessor exokernel: the kernel gives
*environments* (processes) address spaces, a scheduler, page mapping calls and a
one-word rendezvous IPC with an optional page; fork, files and sockets are built
on those by user libraries and by two server environments.

## 1. Inventory

| Component | Source | State | Operations | Interacts with |
|---|---|---|---|---|
| Big kernel lock | `kern/spinlock.c`, two builds | `locked` or `own`/`next`, `cpu` | `spin_lock`, `spin_unlock`, `holding` | taken at every trap, dropped by `env_run` |
| Environments and scheduler | `kern/env.c`, `kern/sched.c`, `kern/trap.c`, parts of `kern/syscall.c` | `envs[]`, free list, `curenv` of each CPU | alloc, free, destroy, run, yield, status, priority, IPC | all CPUs share `envs[]` under the lock |
| Pages and address spaces | `kern/pmap.c`, the page calls of `kern/syscall.c` | `pages[]`, free list, page tables, TLBs | alloc, free, insert, remove, map, unmap, sbrk | environments own directories; IPC moves pages |
| Boot of the CPUs | `kern/init.c`, `kern/mpentry.S` | `mpentry_kstack`, `cpu_status` | `boot_aps`, `mp_main` | lock, scheduler |
| Time | `kern/time.c` | `ticks` | `time_tick`, `time_msec` | timer trap of every CPU, network timer |
| E1000 driver | `kern/e1000.c` | two descriptor rings | attach, send, receive | the card moves the heads |
| COW fork, user faults | `lib/fork.c`, `lib/pgfault.c` | `PTE_COW` mappings | `fork`, `duppage`, `pgfault` | map calls on parent and child |
| IPC library | `lib/ipc.c` | none | `ipc_send` (retry loop), `ipc_recv` | the servers' protocol |
| Descriptors and files | `lib/fd.c`, `lib/file.c`, `lib/pageref.c` | Fd pages | open, close, dup, read, write, seek | file server; `pageref` reads `pp_ref` |
| File server | `fs/serv.c` | `opentab` | open, read, write, flush, remove, sync | clients by IPC; Fd pages shared with them |
| File system, block cache | `fs/fs.c`, `fs/bc.c` | bitmap, files, cached and dirty blocks | alloc, free, walk, truncate, flush | disk |
| Network server | `net/serv.c`, `net/input.c`, `net/output.c`, `net/timer.c`, `jif.c` | buffer table, request threads | serve, timer, input, output | clients by IPC, lwIP, E1000 calls |
| Threads, semaphores, mailboxes | `net/lwip/jos/arch/thread.c`, `sys_arch.c` | thread queue, semaphores with generations, mailboxes | wait, wakeup, yield, post, fetch | lwIP's threads |
| Spawn, heap | `lib/spawn.c`, `lib/malloc.c` | none, page-grained heap | `spawn`, `malloc`, `free` | fork calls, file server |

Vendored (lwIP) and uninteresting for a state machine (console, formatting,
boot loader, hardware tables, test programs): listed in `PROJECT.json` with the
reason, not modelled.

**What is hard here.** The kernel itself is serialised by one lock, so its
concurrency is (a) inside the lock, where `holding()` reads lock words without
owning them; (b) between kernel entries: a CPU keeps *executing* an environment,
with translations in its TLB, while another CPU's system call destroys it, edits
its address space, wakes it or reuses its slot. The rest is user level:
rendezvous protocols with retry loops, reference counts used as "is the file
open", a block cache whose write-back order decides what a crash leaves, a
cooperative thread package under a server that blocks as a whole, rings shared
with a device. `PROJECT.json` lists these hazards at their lines, with the
property that covers each, or the reason why none does.

**What makes each component correct.** Lock: mutual exclusion, no false panic,
progress (exchange) or order and no starvation (tickets). Environments: a free
list that is exact, one CPU per environment, a destroyed environment never runs
again, receivers sleep until a message, no id is handed out while an orphan
names it, round robin and priorities. Pages: counts equal pointers, free means
unreferenced, page tables are private, TLBs agree with page tables, write access
never grows. Fork: parent and child each see the memory at the fork. Files: a
slot is reused only when no client can name it. Block cache: no block has two
owners after a crash. Mailboxes: a bounded FIFO without lost wakeups. Network
server: every request gets one answer and returns its buffer. Rings: every
packet once, in order.

## 2. Modules

```
KernelLock  <- XchgLock  - XchgLockMC,  XchgLockProof
FifoLock    <- TicketLock - TicketLockMC, TicketLockProof
EnvSched    - EnvSchedMC,  EnvSchedProof
PageRefs    - PageRefsMC,  PageRefsProof
PrivateMemory <- ForkCow - ForkCowMC, ForkCowProof
OpenFiles   - OpenFilesMC, OpenFilesProof
FileSystem  - FileSystemMC, FileSystemProof
E1000, SysArch - Network - NetworkMC, NetworkProof
```

`<-` is "is implemented by" (a refinement checked as a PROPERTY). The lock
modules justify the atomicity of the kernel modules: from the trap to `env_run` a
CPU holds the lock, so a kernel entry is one action of EnvSched and PageRefs.
The user-level modules use what these two establish: a system call is one step,
and between two of them any other environment may run, fork or end.

### KernelLock, XchgLock, FifoLock, TicketLock

`KernelLock` is what the kernel relies on: CPUs ask, one at a time is inside.
`XchgLock` is the build in the repository (`USE_TICKET_SPIN_LOCK` is commented
out, `DEBUG_SPINLOCK` is on): `pc[c]` is the point of `spin_lock` or
`spin_unlock` CPU c has reached, and every load, store and `xchg` is an action,
because `holding()` reads `locked` and then `cpu` without owning the lock.
`TicketLock` is the other build; its counters are 32-bit unsigned in the code
and wrap at `TicketModulus` here. `FifoLock` is the abstract lock that hands
over in the order of the tickets. Memory is sequentially consistent: the only
reordering x86 allows (a load before an earlier store to another word) cannot
cross the locked instructions, and `holding()` reads words whose last own write
is separated from it by one.

### EnvSched

State: `env_status`, the generation of the id, the parent id, priority, the
receiving flag and the free list of `envs[]`; `curenv` of each CPU. An action is
one kernel entry of one CPU, from user mode through the handler to the
environment `env_run` starts: `Tick` (timer or `sys_yield`), `Reap` (a zombie
traps), `Exit`, `SysEnvDestroy`, `SysExofork`, `SysEnvSetStatus`,
`SysEnvSetPriority`, `SysIpcRecv`, `SysIpcTrySend`, `OtherTrap`, and `Start` for
the first entry. `SchedYield` is the whole of `sched_yield` with its scan order,
priorities, idle fallback, the monitor loop and the "no idle environment" panic.

`fresh` is not in the code: the children whose parent has not yet started them.
The library and the programs start a child exactly once; `SysEnvSetStatus`
follows them. With arbitrary calls the table is *not* sound - a parent could
make a receiving or dying child runnable - and that is a property of the call's
design, not something to prove about its users.

The constant `Calls` says which system calls the programs of a run make;
`DestroyTwice` lets a parent destroy a zombie again; `WrapIds` lets generations
wrap (2^19 - 1 in the code, `MaxGen` here).

### PageRefs

A *holder* is a place that can point at a page: the directory of an environment,
an entry of a directory, an entry of a page table. `mem.ptr` says what each
holder points at, `mem.wr` which PTEs have `PTE_W`, `mem.ref` is `pp_ref`,
`mem.free` the free list. `mem.pinned` names the pages that `region_alloc`
(`kern/env.c:321`) and `sys_sbrk` (`kern/syscall.c:515`) count once more than
they map: the code increments `pp_ref` and so does `page_insert`. These pages
never come back to the free list after their environment dies; the invariant
states the surplus exactly.

The helpers carry the code's names (`PageAlloc`, `PageDecref`, `PgdirWalk`,
`PageInsert`, `PageRemove`, `EnvFree`, `TlbInvalidate`) and the system calls are
actions. `Touch` is the hardware: any access fills the TLB of the CPU.
`TlbInvalidate` flushes on the calling CPU, if that CPU has the address space
loaded, and `SchedYield` flushes by `lcr3` unless `env_run` returns to the
environment already loaded. `stage` abstracts the life of an environment
(EnvSched has the detail): free, embryo (after `sys_exofork`), live, waiting (in
`sys_ipc_recv`), dying.

Abstractions: the free list is a set (which page `page_alloc` returns is
arbitrary); page contents, `PTE_U`, `PTE_COW`, the kernel half of the directory
and `user_mem_check` are absent; the scheduler's choice is arbitrary; a panic
for want of memory ends the run. `sys_map_kernel_page`, left from lab 3, is not
modelled: it maps any page of the kernel writable without a check
(`kern/syscall.c:70-79`), and its only caller, `user/evilhello2.c:69`, maps the page
that holds the GDT, which carries a reference from boot and never reaches the free
list. The page properties therefore speak about the programs of the repository, not
about any use of that call. `AnyUse = FALSE` means that parents edit the
address space of a child only before it has started, as `lib/fork.c`,
`lib/spawn.c` and `user/dumbfork.c` do; `TRUE` allows it at any time, which the
kernel permits.

### PrivateMemory, ForkCow

`PrivateMemory` is what fork promises: environments have memories of their own, a
child is built page by page as a copy of its maker and runs when it is complete.
`ForkCow` is `lib/fork.c` and `lib/pgfault.c`: every system call and the copy of
`pgfault` is a step (`PgfaultAlloc`, `PgfaultCopy`, `PgfaultMap`,
`PgfaultUnmap`; `SetPgfaultHandler`, `SysExofork`, `DupChild`, `DupSelf`,
`ForkUxstack`, `SysEnvSetPgfaultUpcall`, `SysEnvSetStatus`). While it forks, the
parent writes its own stack, and faults on it; `Panic` is any of these calls
failing, `EnvFree` the end of an environment at any point. The refinement maps a
page of the child to "copied" when no one can write it any more: between
`DupChild` and `DupSelf` the parent can still store into the page the child
already maps, so the copy happens, abstractly, at `DupSelf`. Slots are the pages
below `USTACKTOP`, `PFTEMP` and the exception stack; `Text` pages are read-only.
Env ids are not reused (EnvSched shows what that takes). A store to a read-only
page ends the program and is left out.

### OpenFiles

Client library and file server around one fact: a file is open while the
reference count of its Fd page is above one. `fd` holds the descriptor pages of
every client (the server's page of a slot, or a private copy made by `pgfault`
after fork), `fileid` and `pageid` the id in `opentab` and in the Fd page, `file`
is `o_file`. `op` is the library call a client is in and `srv` the request loop of
the server. `Send`, `Recv`, `SendReply` are the rendezvous: `ipc_send` retries,
so any client whose request is ready may be the next; a client that ends in
between makes the server's `ipc_send` panic (`lib/ipc.c:76`), after which it
answers nobody. `ServeOpen` may fail at any of its calls, after the id has been
advanced and the page cleared.

Facts the module records: `sync` stores nothing into `fsipcbuf`, so
after a fork its page is still copy-on-write, the kernel refuses to send it as
writable, and the client panics (`lib/file.c:213`); a seek after a fork moves only
the caller's own offset and disconnects its descriptor from the server's page; a
dup onto an open descriptor is a close followed by a dup. Ids are `int`: after
2^21 opens of one slot its id is negative, `serve_open` takes it for an error, and
every open that gets this slot fails until the id wraps (`fs/serv.c:77`,
`fs/serv.c:120`). Fork is one step here; ForkCow has its steps.

### FileSystem

`mem` is the block cache, `disk` the disk, `queue` the block writes the current
request still has to do, in the order of the code and with the contents they
had when the code flushed them. A request is one action on `mem`
(the server handles one at a time), `DiskWrite` is `ide_write` of one block, and
`Crash` may come before any of them and throws the cache away. A File is named by
its place: the directory's block and the entry in it. Block 0 of a file is a hole;
`file_flush` passes over it, so it is never dirty and never written. `closing` is
the file whose flush is under way, `synced` the files whose flush was answered and
that nobody changed since. The helpers are
the functions of `fs/fs.c`: `AllocBlock` (bitmap first, then the cleared block),
`GetBlock` (with the indirect block on demand), `Scan` (`dir_lookup`), `NewFile`
(`dir_alloc_file`, which counts the new directory block before it has it),
`Truncated`, `Resized` (only the block with the File is written), `FileFlush`
(data, File, indirect block). When the disk is full each of them stops where the
code returns, with what it changed so far.

Sizes are in blocks, all names are in the root directory, and a block is clean
when the disk has what the cache has. `PartialShrink` lets a client shrink a file
within the range of the indirect block. No program or test of the repository
does (`user/writemotd.c:24`, `fs/test.c:51` and `fs/serv.c:147` truncate to zero),
so the run has it FALSE; see section 4 for TRUE.

### E1000, SysArch, Network

`E1000` has the two descriptor rings. The driver moves the tails and clears or
tests the done bits; the card, external, transmits or receives at its heads,
marks the descriptor and moves on in a second step. `spin` is the loop at
`kern/e1000.c:160`, in which the CPU holds the kernel lock: no system call of
any environment happens meanwhile.

`SysArch` maps the server's memory to its memory after a call of the thread
package, a semaphore or a mailbox. The threads are cooperative, so a call is
atomic up to `thread_yield`. A thread that waits stays in the queue and polls;
`Dispatch` goes round to the first thread that can go on.

`Network` composes them with `serve`, the request threads, lwIP's own thread, and
the timer, input and output environments. A request thread is named by its
buffer. `mode` says whether the server runs, is blocked as a whole in `ipc_recv`,
or has panicked for want of a buffer. `Reply`, `LowLevelOutput` and `ProcessTimer`
are calls of `ipc_send`: the whole server waits until the receiver is ready.
Requests are send and receive on sockets that are open all the time, and packets
from the wire; what lwIP does to packets, its timers, ARP, TCP and the opening and
closing of sockets are left out.

## 3. Runs

| Run | Instance | Shows |
|---|---|---|
| `xchg_lock` | 3 CPUs | LockInv, refinement of KernelLock, some waiter enters |
| `ticket_lock` | 3 CPUs, counters modulo 4 | TicketInv across the wrap, refinement of FifoLock, nobody starves |
| `env_library` | 2 CPUs, 2 programs, 5 slots, 2 generations | EnvInv, zombies freed by their CPU and freed at last, orphans |
| `env_progress` | 2 CPUs, 4 programs, priorities and IPC | priorities, round robin |
| `env_churn` | 1 CPU, 2 programs, 4 slots, ids wrap | *violation*: a forking program starves another |
| `env_destroy_again` | 2 CPUs | *violation*: a zombie destroyed twice is freed while it runs |
| `pages_library` | 2 CPUs, 2 environments, 5 pages, 2 addresses | PageInv, LoadedInv, TlbFresh, ReadOnlyStays |
| `pages_remote_edit` | the same, parents edit running children | *violation*: a CPU keeps a translation of a freed page |
| `fork_cow` | 3 env ids, 1 read-only page and the stack, 10 pages | CowInv, fork implements PrivateMemory |
| `open_files` | 2 clients, 2 files, 2 descriptors, 2 slots | HandshakeInv, HeldStaysOpen, PrivateNeverAnother |
| `file_system` | 3 names, 2 directory blocks of 2, 4 data blocks, 1 direct and 2 indirect pointers | CacheInv, CrashSafe, FlushedSurvives |
| `network` | 2 clients, 4 packets in, 3 out, 3 buffers, mailboxes of 2, rings of 2 and 3 | NetInv, OverflowOnlyBlocked, FlushedBeforeBlock, ReceivedInOrder, SentInOrder, SpinIsShort |

**Bounds.** Three CPUs are the fewest with a holder, a winner and a loser of one
exchange; a modulus of 4 makes the tickets wrap with all three queued. One free
slot beyond the boot environments would never be reused while its child lives;
`env_library` has one slot that is forked into, freed and reused for a second
generation, so stale ids exist (with three generations it has ten times as many
states and passes too). `env_progress` has twice as many programs
as CPUs, so somebody always waits. In `pages_library` the directory, table and
image of the first environment and the directory and table of the second need
all five pages, so page tables fail for want of memory, pages are shared, and
freed pages are reused; both addresses lie in one page table, so that a table
outlives a mapping in it. CPUs and pages are symmetric (`Alike`): no action,
property or constant distinguishes two of them. The properties are an invariant
and a step property, for which symmetry is sound.

`fork_cow`: three env ids give a child and either a second child or a grandchild,
so a page is shared three ways and a fork meets pages that are already
copy-on-write; ten pages suffice for all of them, and `Panic` stands for running
out. Pages are data: the view forgets their names. `open_files`: two descriptors
on two slots let one client hold both slots while the other opens, and a slot be
closed and reopened while a private copy has its old id; the view forgets
generations, so the run covers any number of opens before the wrap. The files
are symmetric.
`file_system`: four data blocks are full with the directory block, one file with
an indirect block and another without, or with a directory of two blocks and one
file of three. The sizes of the directory and the files, holes included, add up to
at most four (`Four`); two of the files have a length and count as flushed, and one
once the directory has a second block (`TwoFiles`), the latter then only while the
disk is full (`GrownFull`; without this bound the run takes a quarter longer and
passes too). With the third name the directory grows while
the disk is full: its size stays at two and its second block is a hole
(`fs/fs.c:264`), which a later request fills or fails on again. A stopped
machine is checked and not continued (`UntilCrash`). Names are symmetric; the
properties are invariants. The view forgets blocks nothing points at, which an
allocation clears. `network`: four
packets are two more than a mailbox takes, so that two threads wait for
room in order; three buffers run out; both rings run full and wrap, and a third
packet waits while the transmit ring of two is full; one
round of yields always proved enough, of the 32 the code allows. The history
variables `out`, `taken`, `got` and the bounds `Arriving`, `MaxSent`, `MaxLeaks`
end the run, and the constraint `Five` bounds packets and lost requests
together: four arrivals with one packet sent or one request lost, three
arrivals with two of these, and so on; the environment is otherwise free.

**Deadlock.** Checked for the locks and the pages. The EnvSched runs switch it
off: when the last user environment blocks or exits, the kernel enters its
monitor holding the lock, and the system stops by design. The four user-level
runs switch it off too: every program may end or panic, ids and packets run out,
and a server whose `ipc_send` or `get_buffer` panics stops for ever.

**Fairness.** The locks: weak fairness of each CPU's steps once it is inside
`spin_lock` or `spin_unlock`; a CPU does not stop in the middle of the kernel,
and nothing forces it to enter. EnvSched: weak fairness of `Start`, `Reap` and
`Tick` of each CPU, the timer interrupt that every CPU's local APIC raises in
user mode, and the lock's progress, which is `SomeWaiterEnters`. (The exchange
lock alone would not let *every* CPU in under contention; timer interrupts of
different CPUs are 10 ms apart and the kernel holds the lock for microseconds.)
`EveryZombieReaped` rests on `Reap`: the timer of the CPU that still runs a zombie
makes it trap. No fairness of any system call is assumed. The four user-level runs check
safety only and state none; where a component could wait for ever, the property
names what it waits for (`FlushedBeforeBlock`, `OverflowOnlyBlocked`,
`SpinIsShort`: one step of the card ends the wait).

## 4. What the violations say

* `env_churn`: after an exit, or when a zombie is reaped, `curenv` is null and
  `kern/sched.c:68` scans from slot 0, not from the environment that ran last as
  the comment at `kern/sched.c:15-18` says. A program in a low slot that keeps
  forking children that exit keeps a program in a higher slot from ever running.
* `env_destroy_again`: `env_destroy` tests for `ENV_RUNNING` only; a zombie is
  `ENV_DYING`, so a second `sys_env_destroy` frees it at once, although the other
  CPU still executes in its page directory (`kern/env.c:525-533`).
* `pages_remote_edit`: there is no TLB shootdown (`kern/pmap.c:723-728`), and
  `page_remove` puts the page on the free list while another CPU can reach it.

Behaviour met while modelling that contradicts no line of the repository, so that
no run is a violation:

* *Partial shrink and crash.* With `PartialShrink = TRUE` TLC finds: shrinking a
  file inside the range of its indirect block frees blocks in the cached bitmap
  and clears pointers in the cached indirect block, but writes only the block
  with the File (`fs/fs.c:471-476`). The next `alloc_block` of another file writes
  the bitmap; if the machine stops then, the disk has a block that is free, or in
  two files. After a restart, reading such a block panics (`fs/bc.c:67`).
* *Mailboxes.* `sys_mbox_trypost` waits for room (`sys_arch.c:117`), though its
  callers handle `ERR_MEM` (`net/lwip/api/api_msg.c:172`). A socket that is not
  read keeps one thread and one buffer per packet beyond its mailbox, and
  `get_buffer` panics the server for all clients. OverflowOnlyBlocked states that
  this, with requests without a page, is the only way to run out.
* *Transmit ring.* `E1000_send` may hand the card every descriptor
  (`kern/e1000.c:127-140`). Tail then equals head, the card sees an empty ring and
  stops, the output environment retries `E_TX_FULL` for ever, and the server
  waits in `ipc_send` for it. The run reaches this state (`lapped`). A send is
  refused in this state only, so a refused send never succeeds later: there is no
  order of refused packets to state.
* *Ids wrap.* A slot that was reused 2^19 - 1 times gets an old id again
  (`kern/env.c:242`). With `WrapIds = TRUE` TLC finds an orphan that the new owner of
  its dead parent's id may destroy as a child of its own; OrphansStayOrphans holds up
  to the wrap.

## 5. Proofs

| Theorem | Module | Statement |
|---|---|---|
| `LockInvariant` | XchgLockProof | `Spec => []LockInv` |
| `HoldingNeverPanics` | XchgLockProof | the panics of `spin_lock`/`spin_unlock` are unreachable |
| `XchgImplementsKernelLock` | XchgLockProof | `Spec => ImplementsKernelLock` |
| `TicketInvariant` | TicketLockProof | `Spec => []TicketInv` |
| `TicketImplementsFifoLock` | TicketLockProof | `Spec => ImplementsFifoLock` |
| `EnvInvariant` | EnvSchedProof | `DestroyTwice = FALSE => (Spec => []EnvInv)` |
| `ZombiesReaped` | EnvSchedProof | `DestroyTwice = FALSE => (Spec => ZombieOnlyReaped)` |
| `PrioritySound` | EnvSchedProof | `DestroyTwice = FALSE => (Spec => PriorityRespected)` |
| `OrphansSafe` | EnvSchedProof | with `WrapIds = FALSE` as well: `Spec => OrphansStayOrphans` |
| `PagesSound` | PageRefsProof | `AnyUse = FALSE => (Spec => []PageInv)` |
| `TranslationsFresh` | PageRefsProof | `AnyUse = FALSE => (Spec => []TlbFresh)` |
| `LoadedSound` | PageRefsProof | `AnyUse = FALSE => (Spec => []LoadedInv)` |
| `ReadOnlySound` | PageRefsProof | `AnyUse = FALSE => (Spec => ReadOnlyStays)` |
| `CopyOnWriteSound` | ForkCowProof | `Spec => []CowInv` |
| `ForkImplementsPrivateMemory` | ForkCowProof | `Spec => ImplementsPrivateMemory` |
| `OneRequestAtATime` | OpenFilesProof | `Spec => []HandshakeInv` |
| `HeldDescriptorsSound` | OpenFilesProof | `Spec => []HeldStaysOpen` |
| `PrivateCopiesSound` | OpenFilesProof | `Spec => []PrivateNeverAnother` |
| `CacheSound` | FileSystemProof | `PartialShrink = FALSE /\ Spec => []CacheInv` |
| `CrashSound` | FileSystemProof | `PartialShrink = FALSE /\ Spec => []CrashSafe` |
| `FlushSound` | FileSystemProof | `PartialShrink = FALSE /\ Spec => []FlushedSurvives` |
| `ServerBooksBalance` | NetworkProof | `Spec => []NetInv` |
| `EverythingDoneBeforeBlock` | NetworkProof | `Spec => []FlushedBeforeBlock` |
| `PanicOnlyWhenAllWait` | NetworkProof | `Spec => []OverflowOnlyBlocked` |
| `WireOrderIsAcceptOrder` | NetworkProof | `Spec => []SentInOrder` |
| `ReceiveSpinIsShort` | NetworkProof | `Spec => []SpinIsShort` |
| `DoneBetweenTailAndHead` | NetworkProof | `Spec => []DoneUpToHead` |

They hold for every number of CPUs, slots, environments, pages, addresses,
clients, files, disk blocks, block pointers, buffers, mailbox slots, descriptors
and packets under the named
assumptions of the modules: `NoCPUAssumption`, `TicketAssumption`,
`SchedAssumption`, `Finite`, `Kinds` and `RefWide` in the kernel modules; `Shape`,
`Choice` and `Marks` in ForkCow (the null values are no environments or pages;
`page_alloc` and `env_alloc` return something free); `Bounds` in OpenFiles (sizes
are positive, the ids of a slot wrap to the slot, there are finitely many
clients); `Sizes` in FileSystem (every size is positive, the empty name is no name,
a cleared block no client's value); `Rings`, `Sizes`, `Sockets` and `NoSemaphore` below Network (rings of at least two
descriptors; every packet is for some socket; lwIP's own mailbox is no socket's;
the mark for "waits for nothing" is no semaphore).
Only `RefWide` is something the code does not establish itself; see below.

*Lock.* LockInv is inductive: `locked` is 1 exactly while one CPU is between its
two exchanges, and `cpu` names that CPU between `StoreCpu` and `ClearCpu`. The
second half is what keeps `holding()` from seeing itself. The refinement maps
"inside" to the points after the winning exchange; every other step stutters.

*Ticket lock.* TicketInv is not inductive: an unlock loads `own`, `next` and `cpu`
one after the other, so one must know that the value of `own` it holds is current,
which `IInv` adds. `Gap` replaces the remainder of the unsigned subtraction by a case split,
once for all (`DistanceGap`); the number of CPUs in line is below the modulus, so
a taken ticket makes the line one longer (`GapTake`) and a served one brings every
other ticket one nearer (`GapServe`). For the refinement, each of the `Served`
places has exactly one CPU, because distinct tickets give as many different
places as there are CPUs in line (`PlacesTaken`). So `Queue`, which chooses a CPU
for each place, has no choice, and taking a ticket appends to it (`TakeQueue`)
while leaving removes its head (`LeaveQueue`).

*Environments.* EnvInv is inductive because it carries what each action needs
from the others: an exact free list (so `env_alloc` takes a slot nobody runs),
status and `curenv` in agreement (so `sched_yield`, which looks only at status,
never picks an environment another CPU executes), idle environments that are
always runnable or running, ids of live slots that differ from the null id (so
nobody is the parent of an idle environment), fresh children asleep. One lemma
covers `EnvRun`, one `SchedYield` and one the return from a trap; each action
then only establishes that its edits of the table keep the table well formed.

*Steps of the scheduler.* The step properties follow from EnvInv and one lemma,
`KernelEntry`: every kernel entry ends by handing `sched_yield` or the end of
`trap` a table of statuses in which at most the CPU's own zombie was freed and no
free slot was taken but by a fork. `PassedOver` says that the scheduler leaves
who cannot run as it is, `TurnsToBest` that what it turns to is the best that
waits; that a best candidate exists at all is `BestExists`, from the least
position of the scan. The orphans need an invariant of their own, `IdsIssued`: an
id that somebody has as its parent was issued before.

*Pages.* The inductive invariant is PageInv, LoadedInv and TlbFresh together.
PageInv alone is inductive for memory: `Counted` (count = pointers + surplus),
`FreeList` (free = count zero), `TablesPrivate` and `TablesUnpinned` (a table is
reached by one pointer, so dropping it frees it and no mapping changes under
it), `Nested` (a mapping lies in a table, a table in a directory), and an address
space exactly for an allocated environment. Inside a call the invariant is
broken for the page in hand, so the lemmas are stated for `Sound(m, X)`, where X
is the page that is neither on the list nor referenced; `TableSound`,
`MapSound`, `RemoveSound`, `AllocSound`, `PinSound` and `FreeSound` say what each
kernel function does to it. `CountWrite` and `CountStep` are the arithmetic:
changing one pointer moves one count. TlbFresh needs LoadedInv: the only
environments edited are the caller, which is loaded on one CPU, and a child that
has not started, which is loaded on none, so a flush on the calling CPU is
enough. `TlbInvalidate` and the shortcut in `env_run` are covered by `EditStep`
and `SwitchStep`.

ReadOnlyStays compares two states. `Granted(m, n)` says that what somebody may
write in `n` somebody could write in `m`, or it was free. `InsertGrants` and
`RemoveGrants` are what `page_insert` and `page_remove` do to the right; the tests
of `sys_page_map` and `sys_ipc_try_send` (`MayShare`) give it for shared pages, and
PageInv for new ones: a page on the free list has no mapping left, so the
property never speaks of it.

*Copy-on-write.* CowInv says that a writable page is mapped once and that whoever
meets a copy-on-write page can handle it; between the system calls of fork and
pgfault neither is true without exceptions. `Exclusive` names them: `Shares` is the
page pgfault has in two slots (`PFTEMP` and the faulting one), and the page duppage
has mapped in the child and not yet marked in its maker, for ever if the maker
ended there. `Table` says what the page tables of an environment hold at each
stage of its life, `Handling` and `Progress` where pgfault and fork are, `Making`
that a child has one maker. `Handled` is the part of CowInv that needs them: the
parent's own handler is installed before its first page becomes copy-on-write, and
the child's exception stack and upcall before it may run (`lib/fork.c:135-177`). A
fault inside a fork is covered, because the parent's stack becomes copy-on-write
while the parent runs on it.

*The refinement of PrivateMemory.* A slot of the abstract memory is `Cell`: the
contents of the page mapped there when that is `Visible`, blank otherwise. A live
environment sees all its slots, a child those its maker has `Passed`: the pages
below `pn`, and page `pn` once no store of the parent can reach it. That is what
decides where the copy of a page happens: at `DupSelf` for a page the parent could
write, at `DupChild` for one that was copy-on-write already. `MakerOf` says
that a child has one maker while it is built and `Nobody` after its maker ended.
Each step of ForkCow is then shown to be a `Store`, the copy of one page, the
start or the end of an environment, or a stutter; for a page fault this is that
the new page has the contents of the old one (`Handling`).

*Open files.* The three invariants are one inductive invariant. `Handshake` is
about who waits for whom: the server works for one client, which if it still
lives is in the very call the server serves (`OneRequest`, `SameFile`); who ended
holds nothing and waits for nothing (`QuietWhenGone`), and is never born again
(`NeverReborn`); no page is under way except in an answer (`PageInReply`). Without
the last three a late answer could put a descriptor into a client that is not the
one that asked. `Backed` is about descriptors: a mapped page is the page of an
open slot whose id and file it names (`HeldBacked`), the page in an answer is one
nobody has yet (`AnswerBacked`), ids belong to their slot (`SlotIds`), and a private
copy has an id its slot had then and has not had since (`PrivatePast`: ids grow, so
the id of a copy is at most the slot's, and equal only for the same open). An
open advances the id by MAXOPEN, which keeps it in its slot also across the sign
(`ModShift`), and takes only a slot that nobody maps, which is what
`openfile_alloc` reads off the reference count.

*File system.* None of the three properties is inductive: what a write of the
queue may put on the disk was fixed when the request flushed it. `Fits` says that
the disk and every write still to do are *behind* the cache (`Behind`): a block
pointer there is 0 or the one the cache has at that place, a name is empty or the
cache's, and a block the bitmap has free is free in the cache or taken by a
bitmap still to be written (`Takes`). A disk behind a cache that holds no block
twice holds none twice either, and stays behind it when the cache gets a pointer
or a name more. The delicate blocks are those just allocated: `alloc_block` writes
the bitmap and then the cleared block, and until the second write is on the disk
the block has its old contents, which may be another file's indirect block or
directory entries. Such a block is *late*; no pointer on the disk or in an earlier
write leads to it. This is the place where the order of the two writes matters.
A request that
frees blocks is the exception: the disk is ahead of the cache until the one block
it writes is there (`Freeing`), and is behind it again after that write. That it
writes one block only, and that `Scan` left nothing else in the queue, is why a
crash in between is harmless. `Settled` and `Flushing` are for FlushedSurvives: the
directory's pointer to the block of a named File is on the disk or on its way,
and every block a file under flush needs is on the disk as it is in the cache or
still in the queue. So when the queue is empty the disk `Kept` all the file has,
and a later write of the same blocks, on behalf of another file in the same
directory block, carries the same File. `Whole` (no block is lost, no pointer
beyond a file's size) holds until a crash. `PartialShrink = FALSE` is what
the programs of the repository do; with TRUE `Freeing` is false, and so is
CrashSafe (section 4).

*Receive ring.* `RxInv` says which descriptors are done: those between the
driver's tail and the card's head, and the one at the head while the card is
about to leave it. `Off` counts descriptors from the tail on without a remainder;
it orders them, and every step of the driver or the card moves one end by one.
No other step touches the ring (`RxSteps`). The done descriptor the CPU spins on
stands at the head, so it is the one the card is about to leave.

*The network server.* NetInv is not inductive: that a thread whose request is in
lwIP's mailbox still waits depends on where every other request is. `Good` carries
what each step needs. `Sched`: the queue of threads and the one that runs are
exactly lwIP's thread, the server's and one for each buffer with a request.
`Counted`: head and nextq of a mailbox agree with its two semaphores. `Letters`:
lwIP's mailbox names each waiting thread at most once, in exactly the slots in use.
`Handed` is the step beyond NetInv: a request is in the mailbox, in lwIP's hands, or
completed, and in only one of these; the completion semaphore of a socket is
signalled at most once and only while its thread still waits. That in turn needs
`Asking`: a client has at most one request under way and is not back in user mode
while it has one (`nsipc` waits for the answer). `Held` and `Blocked` account for
the buffers: taken by a thread, lost with a request without a page, or the one
`serve` receives into, which it has exactly while the server is blocked or answers
the timer. `Packets` says that what the input environment hands over is a packet
from the wire, which comes from the ring (`RxPkts`: a done descriptor holds one).
The input environment has one page more than there are buffers, so it always finds
one nobody has mapped (`PageLeft`, by counting). `Dispatch` is a choice by least
index, so the lemmas about it speak of any thread that is ready. What a call of
the thread package does to the parts is stated once for each (`SysArch`'s yield,
wait, wakeup, create, halt, mailbox put and get), and each action of Network cites
these.

*Where the work of a message is.* That nobody is ready when `serve` blocks, and that
it panics only when everybody waits, both follow from `Flow`. Its first part holds
always: each thread in the queue but `serve`'s is `Parked`, that is, waits for the
one semaphore its request needs (`Needs`), and a request handed to lwIP is
`Accounted` for: in lwIP's mailbox, in its hands, or completed. The second part says
who is ready (`Woken`), by phase. `FirstRound`: the thread of the new message runs
and `serve` comes next in the queue; whoever this thread has made ready carries its
`wake` mark, so `serve` sees a pending wakeup and yields. `Turn`: `serve` runs, and if
anybody is ready it has not yielded yet. `LastRound`: after that yield, whoever is
ready stands before `serve` in the queue, and what he does makes nobody ready who
stands behind it: lwIP's thread completes a request whose thread comes later in the
queue than itself, but before `serve`; a thread that takes or posts a packet on
behalf of a client wakes only threads of the same socket, and `Apart` says that of
those that wait for a socket's packets and those that wait for its room there are
none at the same time. So one yield of `serve` is enough, whatever `MaxYields` is.
A step is described once, by what it adds to one semaphore and takes from another
(`Did`, `Stays`), and each phase is shown to survive such a step (`GoFirst`,
`GoLast`), the wait for a semaphore (`BlockFirst`, `BlockLast`) and the end of a
thread (`HaltFirst`, `HaltLast`). `Dispatch` rotates the queue, so what comes before
what is said by positions (`Ahead`, `Chosen`).

*The way of a packet out.* `TxInv` says where each accepted packet is. The wire has
the first `l` (`Numbered`); the ring has the next `k`, in the `k` descriptors from
the first one not transmitted up to the tail, and exactly those are not done
(`Pends`), so that the full test of `E1000_send` is true just when `k` is the size
of the ring; the output environment has the next one, if it has any; and lwIP has
at most one more (`Carry`): a request's thread that is still to send it, lwIP's
mailbox, or lwIP's thread, and no two of them at once (`Bears`). That lwIP never has
two at once is `NothingLeft`, and rests on `Flow`: `serve` takes another message only
when nobody is ready and nothing is in lwIP's mailbox, and a thread that waits then
has nothing to send. Without that the order of two clients' packets would be that of
their threads in the queue.

`RefWide` assumes that `pp_ref` (16 bits, `inc/memlayout.h:190`) is larger than
the number of places that can point at a page, plus one for the surplus. The
kernel does not check it. An environment could map one page more than 65535
times; no program of the repository comes near it, and the proofs do not speak
about one that does.

**Model-checked only.**

* Liveness (`SomeWaiterEnters`, `EveryWaiterEnters`, `EveryTopRuns`,
  `EveryZombieReaped`): fairness and
  ENABLED are outside TLAPS here.
* `ReceivedInOrder` of `network`: that threads which wait for room in a mailbox put
  their packets in the order they came depends on the rotation of the queue over many
  rounds, and the property compares sequences filtered from the history.

## 6. Not modelled

* lwIP (vendored; most of the lines under `net/lwip`) and the snapshots of labs 1
  to 5, which lab 6 contains. Together they are most of the lines of the
  repository, so the models speak about a small share of its text and about most
  of what lab 6 itself does.
* Boot (`kern/init.c`, `boot/`, `kern/mpentry.S`): the hand-over of kernel stacks is
  strictly sequential, the rest is hardware set-up.
* Clock values: `ticks` advances on every CPU and overflows (`kern/time.c:18`), the
  timer environment tests an unsigned reading as signed (`net/timer.c:11`).
* Semaphores that are freed while a thread waits (`sys_arch.c:192`), timed waits,
  opening and closing of sockets, TCP.
* Subdirectories, and what a client with a removed file open reads after its
  File is reused (`fs/fs.c:512`).
* spawn and the heap (`lib/spawn.c`, `lib/malloc.c`): sequential user code.
* Formatting, console, monitor, test programs.

What would come next, in order: the order of received packets for mailboxes of any
size (the rotation of the queue of threads as part of the invariant); socket close
with semaphore generations; subdirectories.

Not planned: liveness of the servers as a whole (the composition is beyond
TLC).
