# A TLA+ model of ramOS

ramOS is a small operating system for i686 written in C. This directory holds
TLA+ modules that model its kernel and its applications, TLC configurations
that check them on small instances, and TLAPS proofs of the most important
safety properties for every instance. Paths below are relative to the
repository's `src/` directory unless they start with another name.

## The system

* **Boot and interrupts** (`boot/boot.asm`, `kernel/core/{kmain,gdt,idt,isr,irq,pit,timer}.c`):
  kmain sets up one part after the other; `irq_init` enables interrupts early.
  The timer handler counts ticks.
* **Keyboard and console** (`kernel/core/{keyboard,keyboard_layout,keyboard_loader,console}.c`):
  an interrupt handler fills a ring buffer, readers halt until it has a character.
* **Memory** (`kernel/mm/{heap,vmm,memory}.c`): a first-fit heap, physical frames,
  page directories.
* **Processes** (`kernel/proc/{process,scheduler,elf,syscall}.c`, `kernel/api/*.c`):
  the process table, a round-robin queue that nothing calls yet, the system calls,
  which run with interrupts disabled.
* **Files** (`kernel/fs/{vfs,path,initrd,ext4}.c`): one descriptor table for all
  processes, mounts, a cpio RAM disk, the beginning of ext4.
* **Drivers** (`kernel/drivers/*`): device descriptors, ATA, PCI listing, USB (never started).
* **Shell and applications** (`kernel/shell.c`, `api/libsys.c`, `apps/*`).

The kernel runs one call at a time: system calls enter through an interrupt gate,
nothing switches context inside a call, and only the keyboard and timer handlers
interrupt kernel code. So a call is one action, except where it halts or can be
interrupted (keyboard) or where an application makes several calls in a
row that may fail one by one (editor, installer).

Applications have nothing in common but the kernel, and the shell waits for the
one it started. Module Programs therefore composes them as alternatives: one of
them runs, and the others stay as they are.

## Modules

| Module | Models | State and actions |
|---|---|---|
| Process | `proc/process.c`, its system calls, the shell's exec and kill | list, state, parent, exit code, current; fork, exec, exit, wait, kill, switch |
| Scheduler | `proc/scheduler.c` | ready queue and index; add, remove, schedule, with process states changing underneath |
| Keyboard | `core/keyboard.c`, `core/timer.c`, IRQ 0 and 1, `sys_sleep` | controller port, ring buffer, modifiers, tick counter; the steps of the program that reads or sleeps |
| CharQueue | what the buffer promises | a bounded FIFO that Keyboard refines |
| KeyboardLayouts | `core/keyboard_loader.c` and `apps/kbmap/kbmap.c`, which share files across restarts | layout files, configuration, loaded and active layout, kbmap's list; boot, kbmap, restart |
| Console | `core/console.c` | screen and cursor; putchar with wrap, tab, backspace, scroll |
| Terminal | Console composed with `keyboard_read_line` and `readln` | the line being edited, its echo, other output in between |
| Heap | `mm/heap.c` | block list, live pointers; kmalloc, kmalloc_aligned, kfree |
| Allocator | what the heap promises | disjoint live pieces; Heap refines it |
| Vmm | `mm/vmm.c` | frames, directories and tables as operators on a memory record |
| AddressSpace | Process composed with Vmm | fork, exec, reap and switch on page directories |
| Vfs | `fs/vfs.c` over initrd and ext4 | descriptors and mounts |
| PathLookup | Initrd composed with `vfs_mount` and `vfs_finddir` | mounting and lookup, compared with definitions by components |
| ElfLoader | `proc/elf.c` over Vfs | program headers, memory, descriptor; open, validate, one step per segment, close |
| Initrd | `fs/initrd.c` | the archive walk and the file table |
| Device | `drivers/driver.c`, `drivers/ata.c` | device descriptors, drives, transfers that may break off |
| Ext4 | Device composed with `ext4_mount`; inode locations of `fs/ext4.c` | the last mount |
| Editor | `apps/editor/editor.c` | document, file, modified flag; all commands that change them |
| Installer | `apps/installer/*.c` | steps, partition table, copying, every call failing or not |
| Calculator | `apps/calculator/calculator.c` | accumulator (as the operations that made it), operand, pending operator, error |
| ShellApp | `apps/shell/shell_app.c` | the line, its arguments, the current directory |
| NumberText | `itoa`, `atoi`, `%d`, `print_int`, procmon's `parse_int` | a number, its text, the number read back |
| Programs | Editor, Installer, Calculator, ShellApp, NumberText, KeyboardLayouts and ElfLoader as alternatives | which of them runs |

`MC*` modules give the constants. `*Proofs` modules hold the theorems. `PROJECT.json`
maps each definition to the lines it translates. A definition named
`X_something` just before `X` is a plausible mistake in `X`; replacing `X` by it
makes a property fail, which shows that the property depends on that code.

## Runs

`tlc -config X.cfg M` with the configuration and module that `PROJECT.json` names
for each; all finish within two minutes.

| Run | Shows | Bounds, and why they are enough |
|---|---|---|
| address_space | one running process at most and the current one alive, no lost wake-up (except the kernel's, see below), no zombie parent, zombies stay; kernel mapped everywhere, private user memory, faithful fork while memory lasts | kernel and 3 processes: parent, child, grandchild or two children; 17 frames of which one is outside the identity map and 7 heap pages, so that both run out |
| scheduler | index inside the queue; every ready process runs once no more entries are removed | more processes than the queue holds: full, and one outside |
| keyboard | refines a FIFO; shift does not stick; characters are delivered and blocked readers wake. Keys may come before `keyboard_init`, calls from the shell or a system call, and programs may sleep | 3 slots, 5 keys: fills and wraps; milliseconds that wrap at 4 with ticks of 3, so that sleeps cross the wrap |
| terminal | the line is what backspaces leave, within the buffer, and what the user sees; cursor on the screen; screen equals the last rows of an endless sheet | 5 by 2 screen, 6 characters printed: a tab, a wrap and a scroll; lines of up to 3 keys in a buffer of 3, so that it fills |
| heap | blocks tile the heap, allocations are disjoint and inside their block; refines Allocator | 144 bytes with the code's header, alignment and split limit: up to five blocks |
| vfs | reads stay in the file, mounts resolve | 1 file, 2 ordinary and 1 reserved descriptor, 1 mount slot |
| path_lookup | file table is the archive's files in order; lookup in the deepest mount, by components | all archives of up to 3 entries over six names and two terminators for a table of 2, all paths of up to 4 characters, mounts at /x, /xx and /x/x |
| device_ext4 | only detected drives are written, writes stay in range; inodes do not overlap | 2 descriptors, 4 drives, sectors of 2 bytes; several block groups |
| programs | editor: inserted lines stay together, save and load agree. Installer: no write to the disk without both confirmations, completion only when formatted and mounted. Calculator: the display is the formula entered. Shell: the arguments are the words. Numbers are read back as printed. Layouts: the kernel's are what the files describe, kbmap reads the same codes. Exec: memory is what the program headers ask for, the descriptor is returned | 3 lines of 2 characters; the installer's sizes in units of 2048 sectors, 2 required files and 1 other; 5 inputs to the calculator; lines of 6 characters for 3 arguments; integers of 9 bits; layout files of up to 3 lines of any kind, and up to 3 plain files for 2 slots; up to 2 segments that may overlap or lie behind the end of a file of 6 units |
| ext4_mount | ends in a counterexample to `FormattedDriveMounts`: `ext4_read_superblock` compares a number of sectors with a size in bytes, so a formatted drive is not mounted | as device_ext4 |
| sleep | ends in a counterexample to `SleepReturns`: the system call gate has cleared the interrupt flag, so neither the tick nor the end of the `hlt` ever comes | one sleep of two ticks |
| kbmap_set | ends in a counterexample to `SetTakesEffect`: after `kbmap set` and a restart another layout, or none, is in use | as programs |

CHECK_DEADLOCK is off where a bound of the model, a closed program or a halted
CPU may end a behaviour.

## Where the code departs from its comments and documents

Besides `ext4_mount`, `sleep` and `kbmap_set`, these were met while translating the code. The models
contain most of them, as the code has them, and the properties above are worded
so as not to claim the opposite; no listed run asks about them.

* Processes: orphans go to pid 1, which nobody has (process.c:357); the waiting
  kernel process is not woken (346) and counts itself as its child (406); exit
  closes the descriptors of a table nothing fills (340, not modelled).
* Scheduler: a removal can make the index skip a process each time
  (scheduler.c:40); the timer handler never calls it (timer.c:17, not modelled).
* Keyboard: `hlt` in a system call runs with interrupts disabled
  (keyboard.c:142), as in `sys_sleep`; a key before the handler is
  registered blocks the controller (irq.c:121); `readln` gets nothing from
  one-byte reads (libsys.c:163).
* Address spaces: fork without memory succeeds incompletely (process.c:180); the
  stack goes to the loaded directory (271); directories are not given back (109).
* Files: `path_normalize` keeps slashes and dots (path.c:47, not modelled); the
  initrd skips `./x`, stores empty names, and does not find `bin/x`
  (initrd.c:127, 86); inodes are written one block before where they are read
  (ext4.c:311).
* Layouts: the kernel takes `[other]` for a line of the section before, kbmap ends
  the metadata there; kbmap does not recognise a header with a blank behind it;
  `\x41` is read as no character (keyboard_loader.c:115).
* ELF: after a segment that could not be read the entry point is returned all the
  same (elf.c:116).
* Shell and numbers: the last argument the vector has room for keeps the rest of
  the line (shell_app.c:92); `%d` of the smallest integer prints only the sign
  (libsys.c:206); `%-4u` and `%02u` are not understood (procmon.c:59, not modelled).
* File manager: `cd` always says that the target is no directory, since
  filemanager.c:121 tests a bit of libsys.h in a word that `vfs_stat` fills with
  the bits of vfs.h (vfs.c:488, not modelled).
* Editor: `:wq` does not quit (editor.c:179); a failed `:w` quits (187); failed
  writes count as saved (118).
* Installer: the partitions overlap (installer.c:159); the remaining size wraps
  when the disk's size is unknown (partition.c:96); a read error is taken for the
  end of a file (installer.c:66); a retry fails at the mount left behind (199).

## Fairness

* Keyboard: weak fairness of the CPU's own steps (a program need not call
  `sys_sleep`, but one that did goes on), of a raised interrupt while the
  interrupt flag is set, and of the timer, which the PIT drives periodically.
  Nobody has to press a key. A reader that halts with the flag cleared gets no
  interrupt, and the properties leave it out.
* Scheduler: weak fairness of `scheduler_schedule` only, an assumption about a
  caller the kernel does not have yet.

## Proofs

| Module | Theorems | From |
|---|---|---|
| ProcessProofs | TypeCorrect, RunningSafe, NoLostWakeup, ChildrenAreReparented, ZombiesStay | any bound on pids |
| SchedulerProofs | IndexSafe | any set of processes and capacity |
| HeapProofs | HeapTiled, AllocationsSafe, AllocationsDisjoint, HeapImplementsAllocator | any heap size, header, alignment; requests whose rounding does not wrap (SizesAssumption) |
| ConsoleProofs | CursorSafe | any non-empty screen |
| KeyboardProofs | ShiftCorrect, KeyboardImplementsQueue | any buffer of at least two slots, any keys, ticks and sleeps |
| VfsProofs | MountsCorrect, ReadsInside | any files, descriptors, slots and mounts |
| ElfProofs | LoadReturns | any files and program headers |
| InstallerProofs | ConfirmedFirst, CompleteCorrect, CopyClosesFiles | any sizes and number of files, whatever fails |

Process, Scheduler, Heap and Console have a theorem `Invariance` for an inductive
invariant `IInv`; the others state theirs under their own names:

* Process: the safety properties need each other, and the fact that pid 1 is
  never used. A blocked process keeps a living child because an exit wakes its
  parent and reparenting never gives a child to, nor takes one from, a process
  that waits.
* Scheduler: types, the index and one running process. The work is in the shift
  of `scheduler_remove`.
* Heap: tiling relates neighbours only, so `Ordered` (every earlier block ends
  before every later one begins) and `UnmovedPtrs` (a pointer that alignment did
  not move is right behind its header, so kfree finds its block) are added.
  Disjointness follows. So does the refinement: a new piece comes from a block
  nobody holds, and the header between two pieces keeps their pointers apart, so
  that kfree takes away one piece.
* Console: the type invariant with the cursor's bounds.
* Keyboard: `DriverInv` says where the positions and the program stand: the
  character a reader has taken is still in the slot at the read position until it
  advances. The refinement then is arithmetic: reading the ring from the read
  position gives a sequence (`RingIsSequence`), the handler's store appends to it
  or finds it full, and `advance` takes its head. `ShiftInv` adds that a
  shift key whose press waits in the port is down.
* Vfs: `MountInv` restates the property by list positions and adds the types. A
  mount takes a slot no entry has; an unmount frees one that no other entry has,
  which is why uniqueness of the nodes is part of the invariant.
  `DescriptorInv`: a free descriptor has position 0 and no flags.
* ElfLoader: while a file is open, the table that was found is the present one
  with `elf_fd` cleared (`AfterClose`). This needs `DescriptorInv`: what opening
  overwrites and closing clears was clear before.
* Installer: `AnswersInv` (which answers led to a step), `ProgressInv` (what is
  done by then) and `FdsInv`.

SizesAssumption is a real restriction: `sys_malloc` passes on any size.

Only model-checked: everything else. Liveness and fairness are beyond the prover,
as is what recursively defined functions and folds compute (paths, layouts,
arguments, numbers, the formula). MountsCorrect and ReadsInside are about `Spec` of Vfs, and the theorems about
the installer and the loader about their own specifications, of which Programs
runs one at a time.

## Not modelled

* GDT, IDT, PIC and PIT programming, boot assembly: constant hardware set-up.
* `memory.c`: values printed, never changed. PCI: a listing. USB: never started.
* `path.c`: text functions that only the stubs for mkdir, rmdir and unlink call.
* ext4 beyond mounting and inode locations: reading and writing file data and
  allocating inodes and blocks have no caller.
* Mapping of the pages an executable is loaded to: the code does not do it either
  (elf.c:108). Contents of files, pages and superblocks.
* Descriptors that processes leave open: `process_exit` closes those of a table
  that nothing fills, so processes and descriptors do not interact.
* Memory after it is freed, for instance an ext4 root node with open descriptors.
* Path components over the limit of `vfs.c:222` together with longer initrd names.
* Doubles and their texts in the calculator; what kbmap, procmon and the commands
  of the kernel's shell print.
* File manager: every command is a system call that fails or changes nothing.
