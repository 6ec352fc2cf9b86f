# EX-OS: a TLA+ model of the kernel core

This directory models the part of EX-OS where several actors meet, processes,
threads, interrupts and processors inside `src/kernel` and the locks of
`src/lib/libc.c` on top of it, and the part where the power may go: the journal
of the file system. The modules keep the
kernel's own (mostly Italian) names: *posto* is a slot of the process table,
*fila* a line of waiting senders, *filo* a thread, *capo* the leader of a thread
group, *raccolta* the collection of a zombie.

## 1. Inventory

EX-OS is a 32-bit (and, younger, 64-bit) kernel with drivers in ring 3. One
kernel executes for everybody:

- a system call enters with interrupts **on**: its caller can lose the processor
  to the timer between any two instructions that are not between
  `interrupts_disable` and `interrupts_enable`;
- with several processors (`smp = 2`) a single lock, the BKL, lets one of them
  at a time into the kernel;
- the kernel is left for dead threads too: the end of a process ends its
  threads wherever they are.

| component | state | operations | what is hard, and what makes it correct |
|---|---|---|---|
| mailboxes (`ipc/ipc.c`) | a ring of messages per PCB, a doubly linked line of waiting senders, promised slots and their counter | `ipc_send`, `ipc_recv_timeout`, `ipc_notify_irq`, `ipc_processo_finito` | deadline against promise, death in line, slot reuse, wake after the section; nobody forgotten, order of arrival, counter exact |
| service names (`ipc/ipc.c`) | one table for the system | `ipc_register`, `ipc_lookup`, `ipc_cleanup_process` | entries of the dead stay until collection; one live holder per name |
| kernel lock (`arch/x86/smp.c`, `isr_stubs.asm`, idle loop of `sched.c`) | two tickets, a mark per processor | `bkl_entra`, `bkl_lascia`, `bkl_ozio`, `bkl_esci`, `sched_yield`, the beat `smp_ap_irq` | many entry paths, processors without a number, wrap; exclusion, order, no starvation |
| process lifecycle (`sched/sched.c`, `syscall_impl.c`) | PCBs: state, pid, parent, group, directory, flags | create, thread, fork, exit, group end, interrupt, `proc_reap_zombie`, `init_reaper_task`, `waitpid`, `thread_attendi`, detach | three kinds of collectors, lost wakes, a directory shared by a group; one collector, no directory destroyed in use, every end announced, every orphan collected |
| scheduler queues, switching | run queues, current task per processor | block, unblock, pick, beat | only what the others need is modelled |
| signals (`sched/segnali.c`) | pending and blocked sets, sigwait | send, deliver, wait | decisions taken after interrupts are on again |
| pipes and poll (`ipc/pipe.c`, `include/attese.h`, `syscall_impl.c`) | a ring of bytes, counted ends, two lists of waiters; descriptors shared by the threads of a program | `pipe`, `read`, `write`, `close`, `dup`, `fork`, exit, `poll` | lost wakes, lists that grow with interrupts on, ends counted in two steps; nobody sleeps in vain, bytes once and in order, the end told when it is one |
| futex and the locks of libc (`syscall_impl.c`, `sched.c`, `lib/libc.c`) | words of memory, sleepers, `ferma` and `scuoti` of a thread | `attesa_dormi`, `attesa_sveglia`, `thread_ferma`; mutex, condition, semaphore, `pthread_rwlock` | every memory access is a step; no lost wake, exclusion, every call returns |
| disks served by a process (`block/blkr3.c`), VFS lock (`fs/vfs.c`) | one slot per device, the sleeping driver, the holder of the lock | offer, request, wait, answer, expel, death | a deadline against a late answer, killed callers, dead drivers; the right answer to the right caller, everybody comes back |
| ext3 journal (`moduli/ext4/giornale.c`, `scrittura.c`) | the open transaction, the journal on disk, the disk's cache | operations, commit, checkpoint, replay, mount, sync, fsync | power cuts with unordered writes, failed writes; never half an operation |
| shared memory, PMM, paging, swap | reference counts, page tables | attach, detach, copy on write, swap | counts across fork, exit, collection |
| controllers, on-disk formats, VFS paths, loader, drivers, boot, commands, desktop | formats and hardware | | sequential code, or clients of the system calls |

Components interact by direct calls (`proc_esci` calls `ipc_processo_finito`,
`proc_reap_zombie` calls `ipc_cleanup_process`), through the process table that
all of them scan, and through the two wake primitives `sched_block` and
`sched_unblock_locked`. `PROJECT.json` lists every component and every hazard at
its line.

## 2. Modules

| module | models | uses |
|---|---|---|
| `Ipc` | mailboxes, the line, deadlines, signals, interrupts, the ends of processes and groups | |
| `Cassetta`, `IpcCassetta` | abstract bounded queue; the ring implements it | `Ipc` |
| `IpcProofs` | theorems: types, the ring and its refinement to `Cassetta`, the line and the receivers | |
| `IpcNomi`, `Registro` | the table of names; abstract registry | |
| `IpcNomiProofs` | theorems, refinement included | |
| `Bkl`, `Sportello`, `BklSportello` | the kernel lock; first come first served; refinement | |
| `BklProofs` | theorems about the lock, refinement to `Sportello` included | |
| `Processi` | the life of processes and threads, and their collection | |
| `ProcessiProofs` | theorems about processes and their collection | |
| `Tubi`, `Tubo` | pipes, descriptors, poll; what a pipe promises its programs; refinement (`ImplementaTubo`) | |
| `TubiProofs` | theorems about readers, writers and pollers, the bytes and the ends, refinement to `Tubo` included | |
| `Fili` | the futex and the locks of libc | |
| `FiliProofs` | theorems about exclusion and wakes | |
| `DiscoR3` | requests to a disk driver in ring 3 under the VFS lock | |
| `DiscoR3Proofs` | theorems about the slots and the lock | |
| `Giornale`, `Volume` | the journal, its operations, mount and replay; a volume that is never cut in half; refinement (`ImplementaVolume`) | |
| `GiornaleProofs` | theorems about consistency, sync and the refinement to `Volume` | |
| `MCIpc`, `MCIpcNomi`, `MCBkl`, `MCProcessi`, `MCTubi`, `MCFili`, `MCDiscoR3`, `MCGiornale` | the instances TLC runs | |

**What is a step.** A section with interrupts disabled is one step. Code with
interrupts on is cut wherever it reads or writes shared state whose change by
somebody else could matter. In `Ipc` the look-up of the receiver, the section of
`ipc_send`, and the wake after it are three steps; in `Processi` every turn of a
scan of the table is one, and `proc_reap_zombie` is seven (`r_entra` ...
`r_azzera`). In `Bkl` a step lies between two accesses to memory that other
processors read, and so it does in `Fili` for the code of ring 3. In `Giornale`
the calls exclude each other by the VFS lock, and a step is a disk command or a
call into the journal.

### Ipc

The PCB is split into functions over the slots: `st` is `state` (READY stands for
READY and RUNNING), `pc` where the process stands in a call, `destPid`/`dest` the
argument and the pointer of `ipc_send`, `scad` its deadline (none, armed,
passed), `buf/head/tail/count` the ring, `su` = `ipc_fila_su`, `concesso` =
`ipc_fila_concesso`, `riservati` = `ipc_riservati`. The linked list is kept as
`prima[w]`, the set of those before `w` in its line: the order of the list is
what the properties speak of, the pointers are not. `morenti` lists the members
an exit has still to end: `proc_esci` runs with interrupts off, so no other
process moves until it is empty, but `ipc_processo_finito` is one step per
member. A payload is its sender and its receiver.

`Eventi` selects the kinds of events of a run: threads, exits, collection (and so
reuse of slots), failed loads, interruption, caught signals.

### IpcNomi

The table `g_nomi` and the life of processes (alive, zombie, gone). Names are
model values with the uid of their prefix; comparing names as text is not
modelled. Pids are given out once, so the reuse of a slot cannot confuse this
table.

### Bkl

`tiene` is the set of numbers with `g_bkl_tiene` up, indexed by what `cpu_n()`
*reads*: 0 for a parked processor, which still has the boot GDT. An interrupt of a
processor already inside is not shown: it takes nothing and leaves nothing.
`Giro` is the wrap, 2^32 in the code. `Accendi` is the writes that switch the lock on,
at the end of `smp_init` (985-991) or of `smp_accendi_lavoro`.

### Processi

One processor (`sched_gira_altrove` is false), `N` slots, init outside the table.
`distrutta` counts how often each directory is destroyed; it and nothing else is
an observer. Two events of `Eventi` are *bounds on what is explored*, not
assumptions of the code: without `"dentro"` no group ends while one of its
threads is inside a creation or a collection, without `"riuso"` no slot is taken
while its collector still clears it. The code does not exclude either; the run
`processi` has the first, `MCProcessiPosto` the second. Three things the code does in
several steps are one here: the look at the interruption before the sleep of
`waitpid` (`syscall_impl.c:1315`, 1318), the look-up of `thread_attendi`, and the loop
that makes the members of a group forget the directory with its destruction
(`sched.c:2584`). Left out: SIGCHLD, exec, the open executable of a process,
`g_proc_count`, a creation that fails for want of memory, and the mailbox part of an
exit (in `Ipc`).

### Tubi

`pipe` is the table of pipes, `att` and `posti` the two lists of waiters of each
and the room in their arrays, `fdt` the descriptors of a program, `th` where a
thread stands in its call. A byte is the thread that wrote it and its place in
the write. A list of waiters is the set of the pids in it: all are woken at once,
and a pid whose call was interrupted stays in it, as in the code.
`attese_cresci` is two steps with the allocation between them (`"memoria"`: it may
fail). `dup` counts the new end before it has a descriptor, `close` gives up the
descriptor after the end (`DupApre`/`DupPosa`, `Chiudi`/`ChiudiPosa`). Without the
event `"gara"` the threads of a program do not race for one descriptor
(`Indisturbato`, `Saldo`, `Inutilizzato`): this is an assumption on programs, and
the next section says what happens without it. It also keeps a program from ending
while a sibling is half-way in `pipe`, `dup` or `close`, which the code allows, and
makes `fork` one step, where `sys_fork` copies a descriptor at a time
(`syscall_impl.c:1444-1455`). A `poll` of 0 ms, which never sleeps, is left out.
The refinement mapping to `Tubo` reads the queue out of `testa`, `quanti` and `buf`, and counts the ends from the
descriptors and the calls half-way, *not* from the counters of the pipe: an end
counted wrong makes the pipe answer "end" or "broken" when it must not.

### Fili

`mem` holds the shared words: a mutex, its condition and a count of things (the
monitor `libc.h` tells programs to write), the fields of a `pthread_rwlock_t`, a
semaphore. `th[t]` is where a thread is: which call, which lock, what
`attesa_dormi` was given. The kernel's look at the word and its sleep are one
step, interrupts off; everything in ring 3 is one step per access.
`sys_attesa_sveglia` wakes any one of the sleepers: it goes by the place in the
process table, which has nothing to do with who came first. Three small programs
(`TreProgrammi`) decide which calls are made; signals and requests to stop come at
any moment.

### DiscoR3

`g_r3` is the table of devices (`stato` LIBERA, PRONTA, IN_CORSO, SERVITA), `ch` where
a caller is in `un_giro`, `sv` where the driver is, `scritti` what it put on its
disk (an observer). Every caller has a sector of its own with a content of its own,
so that an answer to the wrong request shows. `Liberi` are callers without the VFS
lock (the flush of fsync, raw access). Copies between the slot and the driver are
steps of their own with interrupts on (`CopiaFuori`, `CopiaDentro`), and a deadline
may pass in the middle of one. The event `"riuso"` lets a slot be offered again while
its former caller has not woken, which `blkr3_offri` does not look at. A call whose
driver gives a bad answer (EINVAL, EFAULT), a request of the driver to itself
(EDEADLK) and the list of those who wait for the VFS lock being full (`vfs.c:415`) are
left out; the return of `un_giro` and `fs_rilascia` are one step, and so are
`blkr3_op_in_corso` and `blkr3_dati` in an answer with data.

### Giornale

The disk is a function from blocks to contents, `duro` what is on the medium,
`ora` what a read of the disk gives, `attesa` for each block the contents written
since the last flush: a power cut (`Taglio`) keeps, for each block independently,
any of them. The volume has one block of inodes, bitmaps and blocks of data; a
file's block holds its name, so stale or foreign data are visible. `op` is the call
under way and where in it, with the table `Poi` for what comes next; `stadio` is
how far its commit() has got, with the table `Segue`. A step is a hook or a run of
writes up to a flush: the blocks of such a run are different, so a cut between two
of them leaves nothing that a cut after the last could not leave. `passo` is the three passes of the replay over whatever
the disk holds, read as the code reads it: sequence numbers, descriptor, revoke
and commit blocks, the wrap of the ring. It starts from a volume mkfs just made
or from one Linux left with a revoke record and an unfinished transaction past the
end of the ring. A truncate is to zero: the zeroing in place of the tail of the last
block kept (`scrittura.c:2136-2145`) is left out. A mount finds the cache of the disk
empty (the event `"rimonta"` drops that), so a remount after a failed commit comes
after a power cut. Left out: checksums (`somme.c`), the escape of the magic word, the
free counters, and every operation but append, mkdir, truncate (which stand for:
allocate data, allocate metadata, free).

## 3. Runs

| run | instance | shows |
|---|---|---|
| `ipc_fila` | 3 slots, depth 1, 4 pids, interrupts, exits, threads, failed loads, collection and reuse of slots (2 million states) | the line (`FilaGiusta`, `RiservatiEsatti`, `PromessiInTesta`, `NessunoDimenticato`, `PromessaNonDorme`) and bounded overtaking (`SorpassoLimitato`), also when everybody can die |
| `ipc_cassetta` | 2 slots, depth 2, interruption, signals, interrupts; fair | type; the ring is a queue (`ImplementaCassetta`); no receiver sleeps on a message; sends return, receivers are woken |
| `ipc_nomi` | 3 processes of 2 users, 3 names, 2 entries | one holder, kept, taken back also from a table full of the dead; implements `Registro` |
| `bkl` | 3 processors, wrap at 4; fair | exclusion, order (`ImplementaSportello`), service (`FilaServita`) |
| `processi` | 3 slots, 4 pids, threads, detach, `"dentro"` | exclusive collection, the claim given back unless its owner is killed (`PresaResa`), no directory destroyed in use, exit code of the leader, every end announced |
| `processi_eventi` | 2 slots, 5 pids, fork, failed loads, interruption; fair | every orphan collected, under reuse of the slots |
| `tubi` | 2 programs, 3 threads, one pipe of 2 bytes, 2 descriptor numbers | nobody sleeps over bytes, room or an end (`NessunoDormeInvano`); the pipe is a queue with counted ends (`ImplementaTubo`) |
| `fili` | 3 threads, three programs, one signal or stop; fair | exclusion, no lost wake (`SonnoGiusto`), a stop is not slept over (`FermaAscoltata`), calls return (`ChiamataTorna`) |
| `disco` | 3 callers (one without the lock), 1 driver, 1 device, calls of 2 requests; fair | the right answer to the right caller, one caller in the slot, no request slept over, callers come back; deadlines also during a copy |
| `giornale` | 1 file, 1 directory, 2 blocks, a journal of 12 blocks, 1 power cut, any failed command (1.4 million states) | a mounted volume is consistent, sync keeps its word, never half an operation (`ImplementaVolume`) |
| `disco_ucciso` | violation of `LucchettoVivo` | a thread killed with its group keeps the VFS lock for ever |
| `tubi_interrotto` | violation of `InterrottoNonDorme` | a thread interrupted just before it sleeps in `read` sleeps on |

The two violations are disagreements between the code and its own comments,
quoted in `PROJECT.json` under `findings`. `AnelloCoerente` (`IpcCassetta`) and
the `TypeOK` of `Processi` are in no run: they are proved. The types of `Giornale`
are part of its inductive invariant (`Controllo`, `Retto`).

**Bounds.** Three slots are enough for a receiver and two senders (somebody to
overtake), or a parent, a child and a thread; four or five pids let a slot be
reused once or more. Depth 1 makes a mailbox full at once, so the line matters;
depth 2 lets the ring wrap with a message left in it. The lines are proved for
every bound (section 4). The wrap of the tickets only has to be above the number
of processors, also in the proof. `MaxPid` bounds the behaviours: the `Ipc` and
`IpcNomi` runs may stop when every process has ended, hence
`CHECK_DEADLOCK FALSE` there; init and the timers never stop, and the other
runs check deadlock. `SYMMETRY` over slots is used only where no liveness is
checked; slots enter `Ipc` in no order. `ipc_cassetta` sends to one pid, its own
included: a process that fills its own mailbox waits for itself, the smallest
case of everyone waiting on everyone, and only the deadline frees it. Two processes
in each other's line are in `MCIpcIncrociati` (depth 1, both send to both, 150,000
states), where `MessaggioNonDorme`, `InvioTorna` and `RicevutaSvegliata` hold too.

In `tubi` a pipe of two bytes is full after one write and wraps with a byte left
in it, an array of one waiter must grow as soon as two wait, and two numbers make
`pipe` and `dup` fail for want of one; the only writer never has to let a list
grow (the readers do, on the same code). In `fili` three threads are one that
holds and two that sleep, which is what the third state of the mutex is about. In
`disco` two requests per call let a device go away between them. In `giornale`
two blocks are one to free and give to somebody else and one to take; three
transactions fit between `MaxSeq` and where the volumes start, so a replay can meet
the rest of an older one. These runs stop when the bounded calls are over, or when
everybody waits for a unit nobody owes, or the power is off for good:
`CHECK_DEADLOCK FALSE` there.

`giornale` assumes one thing of the disk that the code does not enforce: the
superblock of the empty journal, which commit() leaves in the disk's cache
(`giornale.c:731`), has reached the medium before the next transaction overwrites
the journal (`AlPasso`). `MCGiornalePigro` below drops it.

**Fairness.** `Ipc`: a process that can run a step of its call does (the run
queue of a priority is served in turn), a deadline passes in the end (the clock
beats), an exit runs to its end (interrupts off). `Bkl`: each processor executes
its instructions and its timer beats; strong fairness on the `hlt` says that the
beats, 10 ms apart, do not for ever hit the two instructions between `bkl_ozio`
and `hlt`. `Processi`: init wakes again from its sleep, and a process
inside the kernel gets the processor back. init runs at idle priority, so this
assumes that the machine is not fully busy for ever; `sched.c:749` records a
measurement of exactly that (2200 rounds in 2900 ticks). `Fili`: a thread that can
run does, a deadline passes and the tick finds it, and, an assumption on
programs, who holds the readers-writers lock releases it; signals and stop
requests are finitely many. `DiscoR3`: callers run, their deadlines pass, and a copy
inside the kernel ends; nothing is assumed of the driver, which may stay silent
for ever.

### Further instances

TLC configurations kept beside the runs, each of which finds the violation named
(but for `MCIpcIncrociati`, see the bounds above, which finds none).
They are not among the runs of `PROJECT.json`, which has one run per question.

| configuration | module | violated | what it shows |
|---|---|---|---|
| `MCIpcRiuso` | `MCIpc` | `MessaggioAlDestinatario` | `ipc_send` finds the receiver at `ipc.c:184`, before interrupts go off at 187, and then looks only at its state: collected and replaced in between, the message goes to the process that got the slot, and the call returns 0. `ipc.h:38-41`: "ESRCH se dest_pid non esiste" |
| `MCBklParcheggiati` | `MCBkl` | `UnoNelKernel` | a processor woken but parked (`smp.c:610-646`) reads number 0, finds `g_bkl_tiene[0]` up and enters the scheduler beside the boot processor. `smp.h:115`: "NEL KERNEL C'E' UN PROCESSORE PER VOLTA" |
| `MCProcessiAttesa` | `MCProcessi` | `NonDormeSulloZombie` | `waitpid` scans with interrupts on and sleeps at `syscall_impl.c:1318` without looking again: a child that ends in between is not seen. `sched.c:2400`: "Sveglia il genitore se e' bloccato in waitpid()" |
| `MCProcessiSpazio` | `MCProcessi` | `SpazioDistruttoUnaVolta` | two collectors of two PCBs of a group both pass `sched.c:2584-2585` and both destroy the directory. `sched.c:2589`: "E SI DISTRUGGE UNA VOLTA SOLA" |
| `MCProcessiPosto` | `MCProcessi` | `PostoDiUno` | the slot is declared free (`sched.c:2650`) before its fields are cleared (2651-2658): the collector clears those of the process that got it |
| `MCGiornalePigro` | `MCGiornale` | `VolumeCoerente` | without `AlPasso`: the medium still says that the old transaction is to be replayed, the new one has overwritten some of its copies, and the replay after a cut writes them to the wrong places. `giornale.c:15-17`: "Never half an operation". With the checksums of CSUM_V3, which the model leaves out, the replay of such a journal stops with an error and the volume is mounted read-only |
| `MCGiornaleFsync` | `MCGiornale` | `FsyncPromette` | `ext2_fsync_prepara` (`ext2.c:1232`) commits through a call that returns nothing (`ext4.c:105`): `vfs_fsync` returns 0 after a failed commit. `giornale.c:49-50`: "only fsync promises the disk" |
| `MCDiscoR3Tardi` | `MCDiscoR3` | `ScritturaSua` | the driver copies a write out of the slot with interrupts on (`syscall_impl.c:7207`, 7241-7244); the caller's deadline passes meanwhile (`blkr3.c:219-224`), the next caller fills the slot, and its sectors go where the first one's belong. No event is needed: the run `disco` contains it, and `RispostaSua` does not speak of the data. `blkr3.h:93-97`: "Vale solo fra un blkr3_attendi() e la sua risposta". The same happens without a deadline when the device is sent away during the copy and two callers without the VFS lock follow each other in the slot |
| `MCFiliAnnulla` | `MCFili` | `ChiamataTorna` | `pthread_cancel` of a thread that waits in `pthread_rwlock_wrlock`: the `pthread_cond_wait` inside (`libc.c:6660`) is a cancellation point, so the thread ends with the inner lock taken and `scrittori_attesa` counted, and no call on that lock returns again. `libc.c:6256-6260` leaves the unlocking to a cleanup handler, and `pthread_rwlock_*` pushes none |

### What the model showed without a run of its own

These follow from the same model; each was seen as a TLC counterexample while it
was built.

- `MessaggioNonDorme` fails with threads: a sender thread killed by the end of its
  group after the delivery (`ipc.c:230`) and before `sched_unblock` (239) leaves
  the receiver asleep with a message. It also fails after the misdelivery of
  `MCIpcRiuso`. Hence it is checked in `ipc_cassetta` only; `MessaggioNonDormeSempre`
  (section 4) proves that these two are the only ways to lose it.
- A process interrupted between its entry into `ipc_recv` and its sleep
  (`ipc.c:366`) sleeps on, as in `tubi_interrotto`; `pty.c`, `sys_poll` and
  `waitpid` wait in the same way.
- A child's `SIGCHLD` (`segnali.c:983`), a thread that enters `sigwait` while
  `manda` decides (748), `proc_set_ready` with interrupts on (`sched.c:1116`) and
  the compare of deadlines on 32 bits (1468) were read and are not modelled.
- `poll` with no events asked for registers nowhere (`syscall_impl.c:6884-6922`)
  and sleeps over a hang-up, though `poll_guarda` reports one unasked. So does one
  that asks a read end for room only, or a write end for bytes only: hence
  `Sensati` in `NessunoDorme` (section 4).
- With `"gara"` in `Eventi` the refinement `ImplementaTubo` fails: `find_free_fd`
  (`syscall_impl.c:141`) does not reserve the number it returns, two threads can
  close one descriptor twice, and a fork during a close copies an end already
  given up.
- A slot of `blkr3.c` offered again before its former caller woke (`"riuso"`) is
  taken by that caller for its own between two requests of `spezza`; a caller
  killed in the slot leaves it occupied until the device goes.
- `giornale_scrivi` commits in the middle of an operation that needs more blocks
  than are free (`giornale.c:851-860`): with two groups and `MaxSlot = Riserva = 2` a
  truncate is cut in two. `"rimonta"`: after a failed flush the remount replays
  through the same cache without a flush before it.
- A stop request that finds its thread in a contended mutex is used up by that
  sleep; the `pthread_cond_wait` that follows looks only after it woke, and the
  cancellation is slept over. The monitor of `libc.h:814` is not exposed.
- An interrupt between `bkl_ozio` and `hlt` (`sched.c:643`) leaves a processor
  halted with the lock until its next beat. `FilaServita` shows that it is only a
  delay.
- `waitpid` reports the pid it read before the collection (`syscall_impl.c:1285`),
  whether or not it was the collector: two threads can both report one child.
- A child spawned by a thread that has ended is adopted by init although its
  process lives (`sched.c:2424`); so is the case of a leader joined with
  `thread_attendi`, which rewrites its parent (`syscall_impl.c:1563`).
- A program that cannot be loaded is killed and collected in two preemptible steps
  (`syscall_impl.c:3127`); a sibling's `waitpid` can report it in between.
- A thread killed with its group inside `proc_reap_zombie` (`"dentro"`) leaves
  `in_raccolta` up and the zombie can never be collected (`sched.c:2230`);
  `PresaResa` says that it is the only way. Hence `OrfanoRaccolto` is checked without
  that event.
- A join that races a detach takes the thread back from init
  (`syscall_impl.c:1563`): its zombie then waits for the end of the group, so
  `OrfanoRaccolto` is checked without detached threads too.
- Two comments are behind the code: `ipc.h:86` (`ipc_send` "RIPROVA ogni 5 ms";
  it sleeps in line) and `syscall_impl.c:5513` ("mai <0"; EINTR is possible).

## 4. Proofs

All proofs hold for every value of the constants under the named assumptions.

**Mailboxes.** `TipoSempre`: `TypeOK` is inductive (one lemma per action).
`IInvSempre`: the inductive invariant `IInv == TypeOK /\ Legami /\ LineaInv`.
The properties of the line do not follow from each other step by step, they need

- `Ordine`: those before a member are in the same line, and who is in no line has
  neither predecessors nor promise;
- `PidUnici`: a pid belongs to one slot, so a pid found again is the same process;
- `Riferimenti`: the pointer `dest` of a sender had the pid it asks for when it was
  read, and has it still or that pid is gone for good. This is what makes the
  stale pointer of `ipc_send` harmless for the line (though not for the
  message, see `MCIpcRiuso`);
- `MorentiVivi`: an exit ends processes that are alive.

The central lemma is about `fila_avanza`: whom it promises a slot to are the oldest
without one, at most as many as are free, and it stops only when the line is all
promised or the mailbox spoken for. From `IInv` come `FilaGiustaSempre`,
`RiservatiEsattiSempre`, `PromessiInTestaSempre`, `NessunoDimenticatoSempre`,
`PromessaNonDormeSempre` and the action property `SorpassoSempre`. Assumptions:
a finite table, a positive depth.

**The ring.** `CassettaImplementata`: the ring is the queue of `Cassetta`, with no
hypothesis on the events. A step does one of five things to the mailboxes
(`Effetto`), and `ListaMette` and `ListaToglie` say what a delivery and a receive do
to the sequence read from `head` for `count` slots, across the modulus. The
invariant is `AnelloInv`: `ipc_tail` is where `ipc_head` and `ipc_count` say, and
a free slot of the table has an empty mailbox. The second half is needed because
`pcb_alloc` clears the messages and not the counters: were a mailbox freed with
something in it, the next process would be born with empty messages to receive.
`Diretti` (whoever is in `ipc_send` has a destination) makes every message one that
is addressed to a process. `AnelloCoerenteSempre` adds that the slots in use are
exactly those between the counters.

**Names.** `NInv` (type, one live holder) is inductive;
`NomeTenutoSempre` and the refinement `RegistroImplementato` follow. The
refinement rests on `CercaGiusto`: because of `NomeDiUno` the first entry
`ipc_lookup` finds is as good as any other, and on the fact that the sweep after a
collection touches no live entry. `NomeRipresoSempre`: `Esito` is the answer of
`ipc_register`, in the order of its checks, and the loop that looks for an entry finds
one if any is not live (`VoceTrovata`, by the least element of a set of naturals).

**Kernel lock.** `BklTipo` and `BklEsclude`. The invariant `BInv` says who may hold
the lock where (`Luogo`), what holds before it is switched on (`Spento`), and that
the tickets given out and not yet called are as many as the processors that
wait, hold or are leaving, all different, and that the one being called is not a
waiter's while somebody holds (`Numeri`); with fewer processors than tickets the
wrap then cannot give one twice. `BklEsclude` assumes that no processor is
parked; `MCBklParcheggiati` shows that it has to.

`SportelloImplementato`, under the same hypothesis: the lock is the line of
`Sportello`. `Numeri` counts as many tickets as processors and says that they are
different, so by the pigeonhole every ticket between the one called and the next to
be given is somebody's (`Rango`, on the library's theorems about injections): the
line read in the order of the tickets has nobody missing and nobody twice, and is
the only one (`RigaAttesa`). Then a ticket given is an arrival at the end, a ticket
called takes the first, the first write of `bkl_lascia` is the leaving and the
second one changes nothing: all the tickets come one nearer and the holder's is
gone. `LiberoAssumption` says that "nobody" is no processor.

**No message slept over.** `MessaggioNonDormeSempre` adds to `IInv` the invariant
`Contorno`: without threads a process is alone in its group (`Soli`), a process
inside a call is alive (`FuoriServizio`), one that is being ended is in none of the
calls that owe a wake (`MorentiQuieti`), and the receiver a sender looked up is still
the one it means (`Agganci`). So every message in
a mailbox whose owner sleeps has a sender on its way to wake it (`SveglieDovute`).
Hypotheses: neither `"filo"` (a group that ends takes along the sender that owes
the wake) nor `"raccolta"` (a slot is reused after the look-up) is in `Eventi`. Both
are needed, see above.

**Processes.** `TipoCorretto` holds for every set of events: `TypeOK` and `Telaio`,
which says that the frame of whoever is inside a scan, a creation or a collection
points into the table. The second layer, `Invariante`, needs `"riuso"` not to
happen, that is, no slot is given out between `r_libera` and `r_azzera`;
`MCProcessiPosto` shows what happens otherwise. It says that

- whoever is in the kernel is alive (`Attivi`), and can-run PCBs have all their
  fields (`Interi`);
- a claim of `proc_reap_zombie` has one owner, and past the second look what it
  owns is the zombie it came for (`Raccolte`);
- pids are given out once (`Freschi`), a newborn has one creator and is alone, or in
  its creator's group (`Nascenti`);
- a directory is called by its group (`Radici`), stands while a member is alive
  (`Spazi`), and who is about to destroy one has found its group empty, which it
  stays because only a live member makes another (`Deserti`).

From it follow `UnoRaccoglie`, `SpazioDiChiVive` and the action properties
`PresaSempreResa`, `CodiceConsegnato` and `ChiAspettaSiSveglia`, all of them with groups
that end while a member is inside a creation or a collection. The proof speaks of
the effect of a step (`Effetto`: who moves, who is ended, who is woken) once per
action, and of the invariant once per effect.

**Pipes.** `TipoCorretto` and `ChiLeggeNonDorme` need no hypothesis: a thread asleep in
`pipe_leggi` or `pipe_scrivi` has to wait and is in the list the next change wakes,
also where the allocation of a longer list fails or threads of one program race
for descriptors. What makes it inductive is that a pipe not in use has empty lists
(`Deserti`) and that every change of a pipe wakes a whole list. `NessunoDorme` adds
pollers: without `"gara"`, one thread at a time changes the table of a program
(`Soli`), what a close gives up is in nobody's use (`NonUsati`), the number a `dup`
chose stays free (`Posati`), and a sleeping poller is in the list of each of its
descriptors (`Guardati`). It assumes of the behaviour that each poll asks of a pipe
end what that end can give (`Sensati`), since `poll_registra` enters only the lists
of the events asked for; `NessunoDormeTutto` is the case in which polls ask for
both, which is the run `tubi`.

**The refinement to `Tubo`.** `TuboImplementato`: without `"gara"`, for any number of
programs, threads, pipes and descriptors and any size of the ring, a pipe is a
queue of bytes with counted ends. Three arguments meet. The ring: `CodaPresa`,
`CodaResta` and `CodaCresce` say what `pipe_leggi` and `pipe_scrivi` do to the sequence
read from `testa` for `quanti` bytes, across the modulus. The counts: `Capi` counts
the descriptors of all the tables that no close has given up, and the ends that a
`pipe` or a `dup` under way has counted and not yet put in a table; `ApertiCapi` shows
that this is the number the refinement mapping reads. `Inv4` is the invariant:
`Tavole` (the part of the pollers' invariant about tables), a `dup` and a `close`
half-way hold the descriptor they began with (`Tenuti`), a program not born has an
empty table (`NonNati`), a read or write asks for something (`Domande`: this is why
a read of 0 bytes is told from the end), and `Conti`: `lettori` and `scrittori` are
`Capi`, and a pipe not in use has none. A fork adds as many ends as the table it
copies has, an exit takes away what its table has: both are sums over a table
(`SuoiCapi`). The steps: every step of a thread is silent for the queue, opens and
closes ends (`Passano`), answers, reads or writes (`Esito`), and each of these maps to
an action of `Tubo`. `CapiContati` is the invariant by itself: the counters of a
pipe in use are the ends that are open.

**Locks of libc.** For any number of threads, any number of things and units, with
stop requests, signals, deadlines and cancellation: `TipoCorretto`, `ScrittoreSolo`
(`Esclusione`), `RichiestaAscoltata` (`FermaAscoltata`), `NessunRisveglioPerso`
(`SonnoGiusto`), with no hypothesis but that the sets are finite (`UsoDeiFili`). The
invariant has five layers: the shape of the registers at each point of the code
(`Forma`); one thread past each mutex, whose word is not 0, and the words of the
readers-writers lock as counts of who holds it (`Lucchetto`, `Conti`); a thread
asked to stop on its way to sleep will be shaken (`Scosso`); the three simple
cases of sleep (`SonnoLucchetto`, `SonnoRw`, `SonnoS`); and the monitor, where a
consumer that goes to sleep found nothing under the lock (`NienteRoba`), what it
read of the condition is not of the future (`Lette`), and there are at least as
many threads about to look as there are things, counting as asleep also who *will*
sleep because the condition has not changed since it read it (`SonnoC`). The last
is strictly stronger than the property: a thread between the release of the lock
and the sleep is awake but of no use to the sleepers.

**Disks in ring 3.** Three layers:

- always: types, pointers (`TipoCorretto`), and a sleeping driver is registered in
  all its slots with nothing ready there (`RichiestaVista`);
- no slot offered again under a caller's feet (`"riuso"`): a request in a slot is of
  a caller that waits there or died there, and one under way is in the hands of
  the driver of the slot (`CasellaDelChiamante`);
- under the same hypothesis, the content: a driver with a request still under way has
  done what it says it did (`FattoDavvero`), the slot it copies from or to may by then
  hold another request, but not one already served (`Copie`), so a served slot holds
  the answer to the request in it (`Serviti`, `RispostaDelChiamante`). Deadlines may pass at any moment, also during a
  copy, and any number of callers may come without the VFS lock.

That the *data* of a write are those of its caller (`ScritturaSua`) is not there: the
code does not guarantee it (`MCDiscoR3Tardi`).

`LucchettoTenuto`: without `"ucciso"` the lock of the VFS is always held by a live
thread inside its call. `disco_ucciso` finds the violation with it; together they
say that the kill is the only cause.

**The journal.** `VolumeImplementato` (the refinement to `Volume`),
`VolumeSempreCoerente` and `SyncMantiene` hold for any number of files, blocks, groups
and slots, any length of the journal, any volume to start from that a mount reads as
consistent (`VolumiSani`: revoke records and a wrapped ring included), any number of
power cuts and failed commands, fsync's flush at any point between two calls. The
hypotheses are those of the run `giornale`: no `"pigro"` (`MCGiornalePigro` shows
why), no `"rimonta"`, and `Cardinality(Meta) < Riserva`: the slots an operation starts
with hold every metadata block it may change and a directory block besides. The
code counts on that (`ext4.c:159-161`: "at most a dozen blocks of metadata [...] well
inside GIO_RISERVA", which is 32); the bound is on the volume and not on the
operation because a truncate may touch the bitmap of every group. Without it an
operation is cut in two (see above).

- *The replay.* `passo` is a recursive function over the blocks visited. What every
  visit keeps is shown on a least counterexample (`Minimo`, from the library's
  well-foundedness of the naturals) instead of by induction. `UnaSola`: over a
  journal that a whole commit wrote, the walk takes three steps and finds exactly its
  copies. `NienteCommit`: over one with no commit block of the number looked for, it
  finds nothing, whatever else the ring holds. `Riletto`: the replay depends on the
  journal alone, so writing its copies again and again, and being cut in between,
  changes nothing.
- *The cut.* `Puo(d, D, A)`: d is a disk a cut may leave. `Tagliabile`: each of them
  mounts to a consistent volume, to what was there for good or to what a mount would
  find now. One lemma per stage: `TagliaCopie`, `TagliaSigillo` (where the commit
  block, alone in the cache, decides), `TagliaPosti` (any subset of the checkpoint),
  `TagliaRiposo` (the empty superblock may be late: then the old transaction is
  replayed over itself, and a file's data written since are in no block it has),
  `TagliaReplay`, `TagliaJsb`, `TagliaSb` for the mount and the unmount.
- *The calls.* `Vive` says why what is in the cache can hurt nobody: as long as
  nothing was freed, a block that an inode on the disk names is still taken in the
  bitmap seen (`Sotto`), so data go only to blocks the disk knows as nobody's; a
  truncate raises `liberati` before it touches the bitmap and commits before it
  returns. `Coerenti` is the consistency of what is seen, but for the file being
  cut. `Spazio` counts: an operation that began with `GIO_RISERVA` free slots finds
  one for every block it changes, so no commit falls inside it.
- *The whole.* `Ind` is their conjunction with where a call can be (`Controllo`), the
  disk at each stage of a commit (`DiscoMontato`) and of a mount (`DiscoInMonta`), and
  `Letto`: what a mount would find now is what the medium gives or what is seen. The
  last is what makes every flush a `Salva` or a stutter and every cut a `Perde`. A
  failed command (`PassoErrore`) leaves a disk with the same promise and a volume
  that takes no more writes.

The inductive invariants were checked by TLC, on the instances of section 3 or on
slightly larger ones (268,000 states for `Fili`, 14 million for `DiscoR3`, 1.3 million for
`Processi`, 510,000 for `Tubi`, 880,000 for `Giornale`, 11 million for `Contorno`), before
they were proved.

**Assumptions.** Every proof uses only the named `ASSUME`s of its model (finite sets
of actors, positive sizes, the shape of the tables given as constants), which TLC
evaluates in the runs, and the hypotheses on `Eventi`, `Desideri` and the
parked processors written in the theorems.

**Model-checked only.** Liveness (`InvioTorna`, `RicevutaSvegliata`, `FilaServita`,
`OrfanoRaccolto`, `ChiamataTorna`, `ChiamanteTorna`), which is beyond the prover. Every
invariant, action property and refinement that a passing run checks is proved.

## 5. Plan

1. *done* `Ipc`, `Cassetta`, line proofs.
2. *done* `Bkl`, `Sportello`, exclusion proof.
3. *done* `IpcNomi`, `Registro`, refinement proof.
4. *done* `Processi`, `Tubi`, `Fili`, `DiscoR3`, `Giornale`: models and runs.
5. *done* Proofs about `Processi`, `Tubi`, `Fili`, `DiscoR3`, and `MessaggioNonDorme` of
   `Ipc`.
6. *done* The refinements to `Cassetta` and `Sportello`, `AnelloCoerente`.
7. *done* The refinement to `Tubo` (the ring, then the counts of the ends against
   the descriptors, without `"gara"`), `NomeRipreso`.
8. *done* The journal: `VolumeCoerente`, `SyncPromette` and the refinement to
   `Volume`, under any number of cuts.
9. Not reached: signals (pending sets, masks, `sigwait` against `manda`), shared
   memory and page reference counts across fork, exit and collection, binding and
   sharing of interrupt lines, the restart of drivers.

### Not modelled

On-disk formats, ELF parsing, hardware programming, boot, ring-3 drivers, most
libraries, commands and the desktop (reasons in `PROJECT.json`). The repository
counts some 377,000 lines, most of them user programs, graphics and ported or
generated code that is sequential or whose correctness is that of a format or of
a picture. What several actors share is in `src/kernel` (`ipc`, `sched`,
`syscall`, `block`, `fs`) and in the locks of `libc.c`; that is what the modules
cover, and the share of all lines they map is small for that reason.
