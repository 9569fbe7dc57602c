# A verification of small-linux-kernel in TLA+

The repository is a small x86 kernel: three terminals, each with a root shell
that is never gone for long, a round-robin scheduler driven by the PIT, system calls to start and
end programs, a line-editing terminal driver, a RAM file system and a few
devices. This directory models the parts that are hard to test, checks them
with TLC on small instances and proves part of what is checked with TLAPS for
all instances.

`PROJECT.json` lists, for every definition that models code, the lines it
models; every run with its properties; the mutation of the model each property
detects; the hazards; the findings; and the theorems.

## 1. Inventory

| Component | State | Operations | Hard behaviour | What makes it correct | Status |
|---|---|---|---|---|---|
| Scheduler, `scheduler/scheduler.c` | `num_multiprocess`, `current_multiprocess`, `multi_process_idx[]`, `all_process[]`, `keyboard_disabled`, `on_default_term` | start of the shells, rotation, `process_context_switch` | interrupts anywhere with IF set; the record a slot is saved to changes between save and restore; frames parked inside handlers | each slot is resumed in its own frame, with its own stack, image and video page; every slot gets its turn | `Scheduler` |
| Terminal switch, `terminal_switch` in `devices/keyboard.c` | `current_term`, the video page | alt+Fn, first switch after start-up | it calls the scheduler from inside the keyboard handler, before the EOI | the EOI comes exactly once; keys only reach the slot on display | `Scheduler` |
| Process system calls, `interrupts/syscalls.c` | `PCB[]`, `current_process_pid`, `error_return_value`, TSS, page directory, locals of each call | `sys_execute`, `sys_halt`, exceptions, `sys_vidmap`, return from halt | they run with IF set; only parts are in `cli` sections | one chain of processes per terminal; no pid used twice; the status reaches the right parent | `Processes`, `Kernel` |
| Interrupt controller, `i8259.c`; IDT, `interrupts/idt*.c/.S` | mask, in-service lines, gate types | `enable_irq`, `disable_irq`, `send_eoi`, exceptions | an EOI sent from another thread than the interrupted one | as above | within `Scheduler` and `Processes` |
| Line discipline, `devices/keyboard.c`, `devices/terminal.c` | `three_terminals[i]` | keys, history, `terminal_read`, `terminal_write` | keys against the reading program; arithmetic on five counters of one buffer; loops that are checked once | the prompt is untouchable; a line is delivered once, as it was at Enter; nothing leaves its array | `Terminal` |
| File system, `fs/fs.c` | boot block, inodes, data blocks, bitmaps | create, read, write, claim and release of blocks | indices of blocks against offsets, partial failure when a table is full, two creations at once | what is written is read back; no inode or block has two owners | `FileSystem`, `Services` |
| File descriptors, `syscalls.c:376-487`, `fs/file.c`, `fs/directory.c` | `PCB.file[]` | open, close, read, write, end of the program | failure after an effect; position arithmetic with -1; what the next program in a PCB finds | a descriptor is a name and a position; listings are complete | `Descriptors`, `Services` |
| RTC, `devices/rtc.c` | interrupt counter, period per descriptor | open, read, write, close, handler | the counter moves while a read waits, and not at ticks only; accepted frequencies | a read returns, and not before the ticks it asked for | `Rtc`, `Services` |
| Mouse, `devices/mouse.c` | position, finer position, packet | open, read, write, close, handler | a packet between the stores of an open or a write; unsigned arithmetic with signed deltas | the position stays on the screen, and where the finer one says | `Mouse`, `Services` |
| Library helpers, `lib.c` | none | `itoa`, `strncpy`, `strncmp`, `memcpy`, `min`, `max`... | boundaries | | only `min` and `max`, within `Mouse` |
| Timer set-up, paging tables, boot, status bar and clock display, tests | static or only painted | | | | not modelled |

How they interact. A timer interrupt enters `scheduler_step`, which switches
stacks with `process_context_switch`; alt+Fn does the same from the keyboard
handler. System calls and exceptions enter `Processes`' actions, which rewrite
the tables the scheduler reads (`multi_process_idx`, `all_process`) and read the
global the scheduler writes (`current_process_pid`). The scheduler masks the
keyboard line while a slot runs whose terminal is not on display, which is why
the line discipline may act on `current_term` and yet belongs to the program
that reads. `terminal_read` waits in a busy loop with IF set for the keyboard
handler to complete a line. `sys_open`, `sys_read`, `sys_write` and `sys_close`
go through a table of operations per descriptor to the file system, the RTC and
the mouse. These share nothing with the tables of the scheduler but the PCB
they are kept in, so they are a model of their own: there, processes take steps in any order
that the scheduler could produce.

## 2. Modules

| Module | Models |
|---|---|
| `Scheduler` | slots, context switch, terminal switch, PIC; actions `StartShell`, `Timer`, `KeySwitch`, `ResumeFrame`, `ResumeFirst` |
| `Processes` (extends it) | `sys_execute`, `sys_halt`, exceptions and vidmap; one action per stretch of code without a shared access in between |
| `Kernel` | the composition, fairness, and the properties of both |
| `Terminals` | abstract: one stack of processes per terminal with Start, Push, Pop |
| `KernelTerminals` | the refinement: a terminal's stack is the chain of `parent` pointers from `PCB[multi_process_idx[s]]` |
| `MCKernel` | the sets of points at which the instances let an interrupt arrive |
| `Kernel_proofs` | three theorems about `Kernel`, for interrupts anywhere |
| `Core_proofs` (extends it) | seven theorems about `Kernel`, for interrupts at the safe points |
| `KernelTerminals_proofs` (extends it) | the theorem that `Kernel` implements `Terminals` |
| `Terminal` | one terminal with the program that reads and writes it |
| `LineEditor` | abstract: a text edited at a cursor behind a prompt; lines handed over once |
| `TerminalEditor` | the refinement of `LineEditor` by `Terminal`, and the module of its runs |
| `Terminal_proofs` | three theorems about `Terminal` |
| `Reads_proofs` (extends it) | three more: what a read waits for, the command history, the rows of the text |
| `TerminalEditor_proofs` (extends it) | the theorem that `Terminal` implements `LineEditor` |
| `FileSystem` | `fs.c` as operators and updates: directory, bitmaps, claims, `read_data`, `write_data` |
| `Descriptors` (extends it) | the system calls on descriptors of files and directories; `create_new_file` cut into its steps; the end of a program |
| `Rtc`, `Mouse` (extend `Descriptors`) | the devices: their handlers and the operations on their descriptors |
| `Services` | the composition, fairness, and the properties of all four |
| `Files` | abstract: files as sequences of bytes, handles as a name and a position |
| `ServicesFiles` | the refinement of `Files` by `Services` |
| `MCServices` | the disk image, packets and workloads of the instances |
| `Services_proofs` | five theorems about `Services` |
| `ServicesFiles_proofs` (extends it) | the theorem that `Services` implements `Files` |

### Kernel: state and actions

The model has one CPU (`run` is the thread whose frames it executes) and one
thread of kernel frames per slot, plus `Boot`, `kernel.c`'s `entry()`. `pc` and
`kind` say where a thread is in `sys_execute` and `sys_halt`, `susp` in which interrupt frame
it is suspended. A saved stack pointer is abstracted to the thread whose live
frame it leads to, `NONE` if that frame was returned through or never existed;
restoring `NONE` makes `fate` "wild", dereferencing a NULL PCB makes it "panic".
`owner` and `prog` are history variables: who is on a pid's kernel stack, and
which program's user code a thread runs.

The parameter `PreemptAt` is the set of points (`kind`, `pc`) at which an
interrupt may arrive, so a run can say which windows it opens:

- `SafePoints`: start-up code, user code, `sys_execute` before the scan of `PCB[]`, the
  first half of `sys_halt` of a child, and the return to the parent;
- `StatusPoints`: these without the ones between a halt and the return of the
  parent's execute, where `error_return_value` may be overwritten;
- `FullWindow`: the safe points and the start of a root's respawn, in which the
  tables are inconsistent;
- `TurnPoints`: of the safe points, start-up code, user code and the walk along the parents;
- `RacePoints`: also the other windows: between the scan and the claim, between the
  claim and `cli`, and between `running = FLAG_UNSET` and `cli`.

The theorems of `Kernel_proofs` hold for every value of `PreemptAt`, every point included; those
of `Core_proofs` for every subset of `SafePoints`.

Assumptions of the model, each one a real limit of what is shown:

- The scan over `PCB[]` is one step, and so is the program load. The start of a
  shell is not interrupted (`EntryPoint`): the load takes less than a tick.
- User programs make no execute or halt call until all shells are started;
  every root shell is waiting for its first line until then.
- The literal 2 in `scheduler_init` is `MAX_MULTIPROCESS_NUM - 1`. PCB memory is
  zero at boot.
- alt+Fn waits for the start-up (`BootKeys = FALSE`) in all runs. With
  `BootKeys = TRUE` it can switch to a slot without a process: `KeyboardGate`
  fails. `TypeCorrect` and `ServiceCorrect` are proved for both values.
- After the halt the `restore_flags` at the end of `sys_halt` pops what a
  stack of another frame holds. `FlagsAfterHalt` is the set of IF values it may
  leave: `{FALSE}` for the committed image in `kernel_slots3`, `kernel_live` and
  the violation runs, both in `kernel_nested` and `kernel_races`.
- vidmap maps the screen until the next switch, whatever is on display:
  `VideoRouted` is checked with `Vidmap = FALSE` and fails with `TRUE` when a
  program in the background calls it.
- The rate of the PIT does not matter. (`pit_init` passes `outb`'s
  arguments in the other order than its definition takes them, so the rate is
  not the one its comment states.)

### Terminal: state and actions

The variables are the fields of `terminal_t`, with `live_buffer` and
`live_buffer_store` as arrays of cells. One action per key; the four spaces of
a tab and the two loops of `prev_command` and `next_command` are steps, during
which `irq` keeps everything else stopped, because the handler runs behind an
interrupt gate. `terminal_read` is split where interrupts are enabled: entry
(108), the `cli` section that takes the prompt's length (113), the loop (119),
the `cli` section that copies (122). `terminal_write` is a `cli` section with a
loop, during which no key is accepted.

- One terminal is enough: keys act on `current_term`, whose slot is then the
  scheduled one (`KeyboardGate`), and no field is shared between terminals. The
  globals of `keyboard.h` that share names with the fields are used as locals
  inside handlers, except `row_index`, which nobody assigns.
- Left out: the screen (`screen_x`, `screen_y`, `cursor_loc`, `putc_multi`) and
  the text of `history_buffer`, none of which is read back by the code that is
  modelled. `cursor_right` also refuses to move in the last corner of the
  screen, which the model does not: it lets the cursor move there too.
- Of `temp_commands` only cell 0 is kept: no other cell is ever shown, because the
  row past the last command ends at its first or second byte.
- `command_buffer` rows are `CHAR_BUFFER_SIZE` cells; a longer copy would spill
  into the next row, which `LineFits` excludes in the instances it is checked
  on; in `terminal_history` prompts are one cell, so a copy has at most
  `CHAR_BUFFER_SIZE` characters and there is no spill either.
- `TypeAhead` says whether a key may be taken between Enter and the reader's
  `cli` or between lines 108 and 113 (a few instructions each); `Prompting`,
  whether programs write a prompt before they read; `InvalidReads`, whether they call read
  with a NULL buffer or a negative count.
- `ROW_BOUND` caps `row_index` in `EnterKey`; in `terminal_line` it is never
  reached, in the others it cuts off further lines entered without output.

### Services: state and actions

The variables are the fields of the boot block, the inodes, the data blocks and
the two bitmaps; `file` is `PCB[p]->file[]` for each PCB `p` (a program may end
and another one start in it); `pc` says where a process is in `create_new_file`
or whether it waits in `rtc_read`, or which store of `mouse_open` or `mouse_write` comes next.
`returned`, `listed`, `asked`, `ticks`, `placed` and `torn` are history variables: the bytes of
the last read, the names a descriptor has listed, the frequency last asked for, the ticks
during a read of the RTC, whether a program has placed the pointer, and whether a packet
came between the stores of an open.

`create_new_file` is cut behind each step that others can see or spoil: the scan for an
inode (`CreateFile`), its mark and the scan for a block (`ClaimInode`), the
way back when there is none (`ClaimFails`), the block's mark and the entry (`ClaimBlock`), the
count (`OpenCreated`).

`mouse_open` and `mouse_write` run with interrupts enabled and store one variable after
the other: `OpenMouse`, `CentreY`, `CentreFakeX` and `CentreFakeY` are the four stores of an open,
`MouseWrite` and `PlaceY` the two of a write, and packets or other processes come
between them. `mouse_handler` runs behind an interrupt gate and is one step.

`rtc_handler` counts interrupts, whatever they are for, and `cmos_init` has enabled the one at the
end of each update of the date besides the periodic one. `Device` says what an
interrupt stands for: a tick, an update or both at once, updates being at least `RTC_MAX_FREQ`
ticks apart (`since_update`).

`get_inode_by_idx` is translated as what it computes: an address inside the
block of inode 0. So the bitmap of data blocks is not filled at boot, and a file
that is created keeps the block list that its own inode had, zeros.

Assumptions of the model:

- A transfer (`read_data`, `write_data`) is one step, and so is each call that
  is not a creation. `Preempt` says whether other processes make calls during a
  creation.
- `AnySize = FALSE` restricts the transfers to those for which the block
  arithmetic finds the right blocks (`Fits`): they start in the first block of
  the file or stay inside one, need at most one new block, do not go past the
  end from inside the file, and use no block of another file. Outside of it the
  refinement fails; section 5 lists how. The regime concerns data only: the
  directory, the inodes and the bitmaps take every step.
- `ImageAssumption` says what a boot image is: unique names, unique inodes of
  files, an empty inode 0 used by "." and "rtc". `FilesAssumption`, for the refinement of
  `Files`, adds that no inode is longer than its blocks and that those of no entry are empty: a new file gets its
  length from whatever the image has there, because `create_new_file` writes its 0 elsewhere. Both
  hold of the committed `filesys_img`.
- Names are whole values (`MAX_FILENAME_LENGTH` characters at most). `fs_init`
  passes an uninitialised pointer to `read_dentry_by_index`; the model takes it to
  hold the entry.
- No interrupt of the RTC is lost; a lost one would only lengthen a wait. Ticks are what
  `RtcPeriodKept` counts, not time: a read starts between two of them, so that the first one may come at once.
- No read of the RTC waits while the 32-bit counter wraps (97 days). Frequencies
  are `int`; `RtcAssumption` says that the accepted ones divide the maximum
  frequency, 512 in the source.
- A workload fixes what programs open and write and which PCBs they run in, for a
  whole behaviour: the mouse and the RTC share no state with files, so the union of
  workloads covers their interplay through the descriptor table without their product.
- `LENGTH_BOUND` caps the end of a write and `DIR_BOUND` the position in a
  directory. `LENGTH_BOUND` is at most what the blocks of an inode hold: a write
  that goes on behind them is not modelled. Buffers have any length but 0; `nbytes` is positive.
- A failed write clears a byte of `data_block_bitmap` for each block it had claimed, under an index it
  reads from in front of them: from the inode's array, from the word before it, the length, or from the inode
  before. When the index is
  that of no block, another variable is hit (`overrun`), and no further call is modelled.
  `SizesAssumption` has the disk so small that such an index is never read from in front of the
  inode before (`MAX_DATA_BLOCKS <= MAX_BLOCKS_IN_INODE + 1`).
- After a failed write at position 0 the position is -1. Nothing is read or
  written there in the model; the source converts it to an unsigned offset.

## 3. Runs

| Run | Instance | Shows |
|---|---|---|
| `kernel_slots3` | 3 slots, 4 pids, `SafePoints`, exceptions | types, `NoCrash`, `UserContext`, `ParkedInOwnRecord`, `RunningIffOwned`, `OneChainPerSlot`, `VideoRouted` |
| `kernel_nested` | 2 slots, 5 pids (chains of four), `StatusPoints`, statuses 0 and 300, vidmap, exceptions | `ImplementsTerminals`, `ExitStatusDelivered` |
| `kernel_races` | 2 slots, 3 pids, `RacePoints` | `KeyboardGate` and `KeyboardInService` survive even when the processes do not |
| `kernel_live` | 3 slots, 4 pids, `TurnPoints`, exceptions, fairness | `EverySlotScheduled`, `KeyboardComesBack`, `SystemCallsFinish` |
| `terminal_line` | lines of 3, screen 2 wide and 2 high, 1 command, prompting programs | types, `LineBounds`, `HistoryInBounds`, `LineFits`, `ReadWaits`, `ImplementsLineEditor` |
| `terminal_history` | lines of 2 (3 with a stale prompt), 2 commands, one letter, refused reads | `CommandHistory` |
| `services` | 3 processes with one descriptor, eleven workloads, blocks of 2 bytes, 6 inodes, 5 blocks, 5 entries, an image with a file of two blocks, fairness | types, `DirectoryConsistent`, `ListingComplete`, `ImplementsFiles`, `RtcPeriodKept`, `CallsReturn`, `MouseOnScreen` |

| Violation run | Finding |
|---|---|
| `status_window` | `error_return_value` is one variable for all terminals: execute returns another process's status |
| `respawn_full` | the respawn of a root shell meets a full table, returns, and `sys_halt` follows a NULL parent |
| `terminal_rows` | `new_line` tests the wrong `row_index`: it never scrolls, and a later line is stored behind `history_buffer` |
| `files_shared` | `get_inode_by_idx` adds bytes for blocks: all files created by programs are written to data block 0 |
| `create_race` | the test and the mark of `inode_bitmap` are two steps: two creations get one inode |

The bounds. Two slots are needed for a switch and three for a switch between
two others while one is parked. With two, alt+Fn can only mean the slot whose turn is
next; with three the rotation and alt+Fn can disagree, and a third slot could wait while
alt+Fn goes to and fro between two others: hence the three of `kernel_live`. The third gets its turn because a
slot takes alt+Fn only while its terminal is on display. The rotation moves on at the next tick,
and the slot it comes to, if not the one on display, has its keyboard masked and can only be left by the
timer. A graph of three slots with a child is small enough for liveness only with fewer points of
interruption, `TurnPoints`: user code, where calls and faults begin and turns change, and the walk along the
parents, the loop of a system call that could fail to end. Four pids give three slots one child to compete
for; five with two slots give chains deep enough that a parent is itself
a child, which is where `Replace`, `ParentOf` and the saved stack pointer can go
wrong. Exit statuses 0 and 300 distinguish truncation, no status and
exceptions. A line of three characters with the cursor inside has a rest of more
than one cell to move; a prompt of one cell makes the prompt's offset visible in every formula;
`NUM_COLS = 2` makes a line longer than one row; two commands are enough for scrolling to lose the
older one and keep the younger. `terminal_line`'s sizes satisfy `CHAR_BUFFER_SIZE
- 1 + NUM_COLS - 1 <= 2 * NUM_COLS`; in the source that fails for prompts of
more than 33 characters, and `HistoryInBounds` with it (listed under hazards).
`terminal_history` has one letter, so lines differ in length only: with two
letters its state space is beyond a few minutes. In `services` a block of two
bytes with buffers of up to three puts transfers into one block, over a block's end and
exactly at it; the file of the image has a last block that is half used; of five
entries two are free, which run out after blocks and descriptors or before them,
depending on the workload, and always before inodes; a buffer of 6 bytes asks for three blocks when two
are left, so that the write fails with two claims and releases a block of the file and the one
its length names. (A length that names no block is not reached: that case is covered by
`ServicesTypeCorrect` alone.) Two processes are enough for a file shared by two positions, three for one that is
shared while a third one creates another. Each has one descriptor: those of one process and those of several relate in the
same way to a file, a directory or the RTC; which one is the first free is proved for any number. The RTC runs at 4 with a default of 2, so that periods 1, 2 and
4 differ, and its counter wraps after 6. A movement of 7 is enough to leave the
mouse's 10 by 6 positions on every side.

Deadlock is checked in all passing runs except `kernel_races`, in which the race windows
are open and a wrecked kernel (`fate # "ok"`) stops.

### Fairness

`kernel_live` assumes three things. The timer is strongly fair: IRQ 0 stays latched in
the PIC until it is served, so code that clears IF again and again does
not put it off for ever. Resuming a frame is weakly fair: nothing can interrupt
it. A thread's steps in the kernel are strongly fair: a thread is scheduled again and again
(`EverySlotScheduled`), and each time for a whole tick of instructions. User
programs owe nothing: they need not call execute or halt. The readers and keys
of `Terminal` have no fairness and no liveness property: whether a line is ever
entered is up to a person.

`services` assumes that the RTC goes on ticking, and that a process inside
`create_new_file`, between two stores of the mouse or at the end of its wait for the RTC takes its next step, because
its slot is scheduled again and again (`EverySlotScheduled`). Weak fairness is
enough: once a wait is over it stays over.

## 4. Theorems

All proofs are checked by TLAPS for every value of the constants that satisfies
the named assumptions (`SizesAssumption`, `EnvironmentAssumption`,
`ProcessesAssumption`; `TerminalSizes`, `TerminalChars`, `NoLineAssumption`; in `Services`,
`SizesAssumption`, `ImageAssumption`, `DescriptorsAssumption`, `RtcAssumption`,
`ScreenAssumption` and `PacketAssumption`; `FilesAssumption` in `ServicesFiles`).

`Kernel_proofs`:

- `TypeCorrect == Spec => []TypeOK`. `TypeOK` alone is not inductive: the
  locals of `sys_execute` and `sys_halt` index the tables and could be `NONE`.
  `TypeInv` adds `LocalsOK` (which local is set at which point of which call) and `FirstOK`
  (the rotation modulo `num_multiprocess` divides by a positive number).
- `GateCorrect`: with `~BootKeys`, `Spec => []KeyboardGate`. `GateInv` adds
  `StartingUp`: until all shells run, the keyboard is not disabled, the rotation
  still points at the last slot, and the terminal on display is the one of the
  shell started last, so that the first switch finds gate, display and slot in
  agreement.
- `ServiceCorrect == Spec => []KeyboardInService`. `ServiceInv` adds that only
  started threads are ever parked or saved, and that the running thread is in a
  handler only if a switch has just resumed it; so an EOI is sent by the one thread
  that is parked in the keyboard handler.

They hold for every `PreemptAt`, so in all the race windows.

`Core_proofs`, with `~BootKeys` and `SafePreemption` (`PreemptAt` within the safe points; in
the race windows they can fail):

- `NoCrashCorrect`, `ParkedCorrect`, `RunningCorrect`, `ChainsCorrect`,
  `UserContextCorrect`, and with `~Vidmap` also `VideoCorrect`. They depend on each other, so
  there is one inductive invariant, `CoreInv`. `Schedule` says which slot runs, `Parked` that every
  other one has its frame saved in the record of the process `multi_process_idx` names for it.
  `OwnedOK` and `SlotsOK` tie pids to slots: a pid in use has its own number, its own record and
  a parent, and a slot owns its root shell and the process it runs. `CallOK`, `BootOK` and
  `RespawnOK` say what the locals of the three ways into `sys_execute` and of `sys_halt`
  stand for at each point, `FoundOK` that the scan of `PCB[]` finds a root shell its own
  number and a child a number above all root shells. `Context` and `RunningOK` relate
  `current_process_pid`, page directory, TSS and the `running` flags to the running slot
  also in the middle of a call. A switch (`SwitchCore`) finds the frame of the next slot
  because no two slots share a record (`OneChainPerSlot`, `SlotsOK`). `VideoInv` adds that the
  video page follows the running slot from the start-up on, `BootIdle` that `entry()`
  is never in user code.
- `StatusCorrect`: with `~BootKeys` and `StatusPreemption` (nothing is interrupted between a
  halt and the return of the parent's execute), `Spec => ExitStatusDelivered`. `StatusInv`: only the
  running thread is inside a halt, and `error_return_value` holds the exception flag only for it.
  It needs `CoreInv`, by which the respawn of a root always finds a PCB. `status_window` shows
  what happens when the points around `halt` and `returned` are opened as well.

`KernelTerminals_proofs`, with `~BootKeys` and `SafePreemption`:

- `TerminalsImplemented`: `Spec => ImplementsTerminals`, for chains of any depth. Every step starts,
  pushes or pops the stack of one terminal and leaves all others alone. `CoreInv` says which
  processes a slot owns; what it lacks is that the walk along `PCB[].parent` ends, which the
  definition of a chain needs for every PCB, the free ones included. That is `Forest`: all pids can be ranked so
  that a parent ranks below its child. A claim keeps it because an owned process never has a free
  parent (`ParentOwned`): all free pids, the claimed one among them, can be ranked above its new parent.

`Terminal_proofs`:

- `TerminalTypeCorrect == Spec => []TerminalTypeOK` and `LineBoundsCorrect ==
  Spec => []LineBounds`, with type-ahead, refused reads and programs that do not
  prompt. The two need each other and `LoopInv`: a tab that is being inserted
  still has the room `tab()` checked once at its beginning, the program stands
  still in a handler, and outside a write the prompt is shorter than a row, so
  that a line and its newline end inside the array (`SCREEN_SIZE >=
  CHAR_BUFFER_SIZE + NUM_COLS`; 2000 and 128 + 80 in the source).
- `LineFitsCorrect`: with `~TypeAhead` and `~InvalidReads`, `Spec => []LineFits`.
  `FitInv` relates the two `cli` sections of a read: until Enter, the length
  that was taken is the prompt's; after it, the line is the one it was taken for.

`Reads_proofs`:

- `ReadWaitsCorrect`: with `~TypeAhead`, `~InvalidReads` and `Prompting`, `Spec =>
  []ReadWaits`. `WaitInv` follows cell 0 of `live_buffer_store`: the newline of a line that was read
  may stay there, but the write that programs owe before they read clears it, and the
  next one in it comes from an Enter.
- `CommandHistoryCorrect == Spec => []CommandHistory`, without further assumption: it is inductive
  with the bounds of the line. The cases are a row added, a full history scrolled and one to
  which an empty line is added.
- `HistoryStaysInBounds`: with `~TypeAhead`, `~InvalidReads`, `Prompting` and two rows of text,
  `Spec /\ []ShortPrompts => []HistoryInBounds`. `ShortPrompts` is the condition on the prompt that the
  kernel's sizes meet up to 33 characters. `RowInv`: a line that has characters starts inside the
  text area, one that is longer than a row starts above its last row; an empty line may stand below
  it, but Enter never finds it there, because a reader has a prompt. `ROW_BOUND` plays no part.

`TerminalEditor_proofs`:

- `LineEditorImplemented`: with `~TypeAhead`, `~InvalidReads` and `Prompting`, `Spec =>
  ImplementsLineEditor`, for lines of any length. `InsertedCells` and `ErasedCells` show that the two shifts of
  `live_buffer` insert and delete exactly one character of the text at the cursor and leave the
  prompt as it was. `CleanInv` says that a newline only ever ends a line: texts, entered lines and
  the rows of the history hold none, so what is recalled is a text again. The read returns the text of the Enter
  because `FitInv` has the prompt's length right and `WaitInv` that no other key came in
  between. `NoLineAssumption`: the value for "no line" is not itself a line.

`Services_proofs`:

- `ServicesTypeCorrect`: with `~Preempt`, `Spec => []ServicesTypeOK`. `TypeInv` adds
  the position of the descriptor and the locals of a creation (`CreatorInv`): which
  are set at which point, and that there is still room for the entry, because only one process
  is inside a creation. `AnySize` is free and buffers have any length, so it covers transfers
  outside `Fits` and writes that fail after some of their claims. It covers what such a write releases as long as
  that is a bit of the bitmap, and nothing that happens after it was not.
- `DirectoryStaysConsistent`: with `~Preempt`, `Spec => []DirectoryConsistent`.
  `DirectoryInv` adds `InProgress`: the name being created is not in the directory
  yet, its inode is free until it is marked and is not any entry's, and the entry
  behind the last one is the one being created.
- `PeriodIsKept`: with `~Preempt`, `Spec => []RtcPeriodKept`. `RtcInv` says that the period of an
  open RTC descriptor times the frequency asked for is the maximum frequency (or the
  frequency is negative and the period 0), and that the count at which a waiting
  process ends its wait has not wrapped. `TicksInv` says what the count is made of: since a read
  began it has gone up by the ticks, and by one more at most for an update of the date, because the next
  update is a whole maximum frequency of ticks away.
- `MouseStaysOnScreen == Spec => []MouseOnScreen`, without further assumption. The ranges are
  inductive: the clamp and the rounding of the scale keep them, and so does each store by itself. The
  agreement is not: in the middle of an open it does not hold, and two processes may be inside one at different
  stores. `Settled`, as long as no packet came in between and nothing was placed: some open under way finds its own stores
  in place, whatever the others stored since (`Underway`), or all four coordinates are centred.
- `ListingIsComplete`: with `~Preempt`, `Spec => []ListingComplete`. `ListingInv`: until its
  end, a listing has given exactly the names of the entries before its position, which is
  not behind the last entry. Every step leaves a descriptor and its listing alone, restarts both
  (`Restarted`, at an open, a close or the end of a program) or moves both on by one name, and
  entries are only added behind the last one (`DirectoryGrows`).

`ServicesFiles_proofs`:

- `FilesImplemented`: with `~Preempt` and `~AnySize`, `Spec => ImplementsFiles`. It goes from bytes up.
  `PlaceInRun`: in a transfer of the regime, the block and cell that the code computes for a byte are those
  where the byte of the file lies. `WrittenByte`: after `write_data`, a byte of any file is the one that was
  written to it or the one it was, because the blocks touched are used by nothing else (`OwnBlocks`) and what
  `claim_free_data_block` adds to the inode lies behind its end (`ExtendedFacts`). Hence `WriteContents`,
  `ReadContents` and `FailContents`, which speak of sequences. `FilesInv` is what the calls
  need of each other: no file is longer than its blocks, an inode without an entry is empty, so that a new file is, and no
  descriptor of a file points behind its end. Then each call is the step of `Files` of its name; `sys_open`
  of a new name is one only when `num_dir_entries` is raised, the three steps before it are none.

Only model-checked: the liveness properties, `ENABLED` being out of the
prover's reach.

## 5. Known behaviour without a run of its own

- `sys_execute` sets `current_process_pid` at 252 and disables interrupts at 286: a
  switch in between makes it load its program as another slot's process.
  `sys_halt` frees the PCB at 108 and disables interrupts at 121: another execute can take
  the stack it runs on. With these windows in `PreemptAt`, as in `kernel_races`,
  `NoCrash` fails. `KeyboardGate` and `KeyboardInService` are proved with all of them open.
- A program that reads twice without output in between does not wait the second
  time if the first line was empty: its newline stays in `live_buffer_store[0]`.
  With `Prompting = FALSE`, `ReadWaits` fails on this.
- Between Enter and the reader: a second Enter replaces the first line; an Enter
  before the prompt's length is taken returns the prompt with the line. With
  `TypeAhead = TRUE`, `LineFits`, `HistoryInBounds` and `ImplementsLineEditor`
  fail on these.
- After `MAX_COMMAND_STORE` commands, arrow-up and arrow-down again reads
  `command_buffer[20]`, which is `bytes_read`, and types a `'\0'`. `LineEditor`
  admits `'\0'` as a character for that reason only.
- An empty line read with a full history drops the oldest command for nothing
  and leaves `view_command_row` past `write_command_row`, so that the next
  arrow-up recalls an empty row. `CommandHistory` allows the one lost line.
- The line being edited is meant to be kept in `temp_commands` while older ones
  are shown, but its length is taken from `bytes_read_store`, which is 0 then:
  it is lost. `terminal_read` ignores its `bytes` argument except for the sign.
- `sys_halt` of a root frees the pid before its replacement is claimed; another
  terminal's execute may take it and becomes a root shell without a terminal.
- Transfers outside `Fits`. One that starts in a later block and crosses its end
  goes on in block 1 of the file. A write that needs two blocks stores both at the same
  index. A write
  that starts inside the file and goes on past its end does not update the
  length. A file that ends exactly at the end of a block claims the block after it.
- A write that fails for want of a further block is meant to "unclaim blocks" (fs.c:235): it releases as many words in
  front of the claimed ones, which are blocks the file had before, or the block its length names, and leaves the claimed ones marked.
- A failed write moves the position back by one. `sys_open` with no
  descriptor free has created the file by then. `Files` admits both.
- The end of a program leaves positions in its descriptors. They cannot be seen:
  `sys_open` assigns them, and the RTC's is cleared.
- Reading a directory past its end moves the position on, so that a name that is
  created later may be skipped; `ListingComplete` speaks of the first end only.
- A packet after `mouse_write` moves the pointer from where it was before:
  `MouseOnScreen` ties it to the finer position only while no program has placed it.
- A name of more than 32 characters never matches the entry it created: each open
  of it creates another file of the truncated name.
- The first tick a read of the RTC sees may come at once: a read at the maximum frequency may
  return after any fraction of its period. The source waits for ticks, and so does `RtcPeriodKept`.
- A packet between the stores of `mouse_open` (between mouse.c:17 and 18, say) leaves the pointer where the
  old finer position says, which is then centred, although "sets mouse position in middle of screen" (mouse.c:14) is what
  the comment says. The next packet or open puts it right: `MouseOnScreen` says so by `torn`, and fails without it.
- The interrupt at the end of an update of the date is counted like a tick (rtc.c:45, cmos.c:10): a read during which an
  update ends sees one tick less than the "division # of ticks" of rtc.c:90. `RtcPeriodKept` allows that one.
- INT_MIN is accepted as a frequency of the RTC ("frequency is a power of 2", rtc.c:102); its period is 0.

## 6. Not modelled, and what could follow

- Tables built once at boot (paging, GDT, IDT entries), the port I/O of device
  set-up, the status bar and clock display, the disabled tests: there is no
  behaviour in them beyond straight-line code.
- The string and number helpers of `lib.c`: names and arguments are whole values here.
  `sys_getargs` copies a string and changes no state.
- The bytes of a transfer under preemption: two processes inside `write_data` at
  the same time.
- The lines between Enter and a reader with type-ahead, and the bytes of transfers outside
  `Fits` (section 5): the theorems leave them out as the runs do.
