# OScelot in TLA+

TLA+ models of the OScelot kernel (`src/student-distrib`) and of the user
programs whose logic goes beyond a loop of system calls (`src/fish`,
`src/syscalls`), TLC configurations that check them on small instances, and
TLAPS proofs, for every value of the constants, of the safety properties of the
kernel's processes, scheduler, video pages, address spaces, line buffers, text
screens, clock, files and interrupts, of fish's blinking characters, and of the
refinement.

## The system

OScelot is a single-CPU x86 teaching kernel with three virtual terminals, at
most six processes and a read-only file system.  Its parts, the state they own
and what can go wrong in them:

| Part | State | Operations | Hard behaviour |
|---|---|---|---|
| Processes (`syscalls.c`) | `processes[]` (PCBs), `CPID`, `active_processes[]`, cr3, `tss.esp0` | `execute`, `halt`, `exception_halt`, `execute_base_shell` | a chain of waiting parents per terminal; jumps to saved stack pointers without a test; failures half way |
| Scheduler (`pit.c`, `syscalls.c`) | `esp_switch`, `needs_to_be_halted[]` | `pitHandler`, `task_switch` | round robin over terminals while these come and go; a deferred CTRL-C |
| Terminals (`terminal.c`) | `cur_terminal`, `video_mem`, the line buffers | `keyboardHandler`, `terminal_switch`, `do_reg`, `do_spec`, `terminal_read` | a key between any two instructions of a process or of a system call |
| vidmap (`syscalls.c`, `paging.c`) | `using_video_mem`, the window's page | `vidmap`, remapping in `task_switch` | the terminal is switched inside `vidmap` or while the process is off the CPU |
| RTC (`rtc.c`) | `count`, `active_freq[]`, `interrupt_flag[]` | `rtcHandler`, `rtc_open`/`read`/`write`/`close` | one hardware rate, one rate per process; counter overflow; slots reused; a kill inside `close` |
| Files (`filesys.c`, `syscalls.c`) | `fd_array[]`, positions, `dirs_read` | `open`, `close`, `fs_read`, `dir_read`, `file_read`, `fs_copy`, `read_data`, `read_dentry_by_name` | one directory index for all readers, changed with interrupts on; block boundaries; names that fill their field; calls on descriptors that are not open |
| Screen (`lib.c`) | the place of the next character and the page of each terminal | `putc`, `scroll`, video contexts | the keyboard echo, and a switch of terminals, inside `putc` and `scroll` |
| Interrupts (`i8259.c`, `idt.c`, `int_wrapper.S`) | PIC masks | EOI, enable, disable | handlers left by another process's stack |
| Paging (`paging.c`, `asm_paging.S`) | a page directory and two tables per slot, cr3 | `new_page_directory`, `new_page_directory_entry`, `swap_pages` | slots reused; entries changed in a loaded directory |
| Library (`lib.c`) | | memory, string and number routines | widths, alignment, the edges of a word |
| Boot (`kernel.c`) | | `entry` | interrupts on before the first shell |
| fish (`blink.S`, `fish.c`) | an array of blinking characters, those in use on a list | add, remove, sync, the tick of the RTC, `add_frames` | pointers into an array whose elements are reused |
| grep (`ece391grep.c`) | a buffer of part of a file | `do_one_file` | lines across two reads |
| syserr (`ece391syserr.c`) | | eight tests of what system calls refuse | tests run on the descriptors earlier ones left |

Interrupt and exception gates run with interrupts off; the system call gate is
a trap gate, so system calls run with interrupts on except where they `cli`
(`execute` and `halt`).  That decides which operations are one action here and
which are split at every access to shared state.

## Modules

* **Kernel** - processes, scheduler, terminals, vidmap windows.  PCB flags are
  sets of slots (`running`, `active`, `using_video_mem`), PCB fields are
  functions of the slot.  `switch_frames` and `execute_frames` are the slots
  whose saved `esp_switch` or `esp_execute` names a stack frame that still
  exists.  Each of `execute`, `halt`, `exception`, `pitHandler` and
  `keyboardHandler` is one action; `vidmap` is two, `vidmap_choose` and
  `vidmap_map`.  (`vidmap` sets its flag and then tests `cur_terminal`; both are
  in `vidmap_choose`.  An interrupt between them can only map the window in a
  task switch, as it should be, and `vidmap_map` maps it again.)
  `video_mem` is the page `putc` writes to, the visible one or a terminal's
  hidden one.  `Programs` says whether `execute` also meets files
  that `fs_copy` cannot load.  Keys are admitted from the first shell on.
* **KernelProperties** - the properties of Kernel.
* **TaskStacks** - abstract: a stack of processes per terminal, only the top
  runs, the CPU goes round the terminals.  **KernelRefinement** maps Kernel to
  it (the stack of a terminal is the chain of `PPID`s that ends in its active
  process, computed by `chain` of module **Chains**).
* **Terminal** - the line buffer of the visible terminal: keyboard interrupts
  against `terminal_read`, one shared access at a time.  `typed` is a history
  variable.
* **Rtc** - the clock driver.  `NUM_FREQS` and the counter's width are
  constants, the code's being 10 and 32.  `close` frees the descriptor and calls
  `rtc_close` in a second step, since system calls run with interrupts on; `torn`
  is a history variable, the slots whose process was killed in between.
  Shifts are products and quotients with `two_to` of module **PowersOfTwo**.
* **Files** - descriptors and `dir_read`, one access of `dirs_read` at a time:
  the loop over the name reads it for every character, and `dirs_read++` is a
  load and a store.  `listed`, `mixed` and `torn` are history variables.
* **ReadData** - `read_data`'s loop, called by `file_read` for one descriptor or
  by `fs_copy` for a whole file; a byte is named by its place in the image, and
  `mem_location` is where a program is loaded.  `got` is a history variable.
* **Screen** - the visible page, the hidden ones, the positions and the line
  buffers of all terminals, with `putc` under `terminal_write` against keys
  (echo, ENTER, BACKSPACE, clear, ALT-Fn, CTRL-C) and the timer.  Each statement
  is two steps: it reads `video_mem` (`putc_looks`), for the page it stores to or
  in `get_screen_xy_idx`, and then `cur_terminal` and the cursor.  `scroll`'s
  `memmove` and the loop over the last row are a step per place.  The calls of
  `get_screen_xy_idx` within a statement are taken as one, since each of them
  returns the process's own terminal unless an ALT-Fn comes between its two
  reads; `++`, `--` and `%=` on a cursor are one access, since only a key on the
  same terminal could come between, and that counts as a disturbance.  A
  character is the place it should take, so a misplaced one shows.  `roll` (the
  text as an endless roll of rows) and `disturbed` are history variables.  What
  runs with interrupts off (the keyboard's echo, `clear`, `halt`'s message) is
  one step.
* **Interrupts** - the two controllers, the gates, the wrappers and the order in
  which each handler masks, attends, acknowledges, unmasks and leaves.  Every
  process has a kernel stack of frames; a frame is a handler and how far it is.
* **PageTables** - directories, tables, the operations of `paging.c` on them and
  what the CPU makes of an address.  The TLB is what the directory and the
  tables said when cr3 was last loaded, the worst a TLB can do.
* **KernelPaging** - Kernel and PageTables composed: each action of Kernel makes
  the calls of `paging.c` that its code makes, in one step with them.  So the
  pages a process has are those the kernel's own decisions give it.
* **Descriptors** - a process's table of descriptors with the refusals of `open`,
  `close`, `read`, `write`, `vidmap` and of the dispatcher.  **Syserr** is
  `ece391syserr` as operators on that table.
* **Lib**, **Names** - the routines of `lib.c`, the directory search, `dir_read`'s
  copy, the splitting of commands and `getargs`, as operators on bytes; `args`
  has a parameter for whether the caller's slot is the last one, for which the
  loop copies nothing.
* **Grep**, **Frames** - `do_one_file` of `ece391grep.c` and `add_frames` of
  `fish.c`, as functions of the files they read.
* **Calls** - calls the operators of the previous three items with all small
  inputs; what they should return is defined there without them.
* **Blink** - fish's blinking characters: `blink_array`, the list through it, and
  the screen.  The list is `chain` of the links.  `shown_for` and `synced` are
  history variables.
* **KernelProofs**, **KernelPagesProofs**, **KernelRefinementProofs**,
  **FilesystemProofs** (Files and ReadData), **InterruptsProofs** (Interrupts and
  Terminal), **RtcProofs** (Rtc and Blink), **ScreenProofs** - the theorems;
  **Basics** - lemmas about numbers, sequences and chains that several of them use.

Operators commented "Faulty variant" change one definition the way a plausible
bug would.  They are not used in any specification; `PROJECT.json` names the
property that each of them breaks, which shows that the property depends on
that piece of the code.

## Runs

Passing:

| Run | Bounds | Shows |
|---|---|---|
| KernelTree | 4 slots, 3 terminals, one argument, vidmap in slot 4 | `ProcessTree`, `CpuOwner`, `SavedContexts`, `ActiveRecords`, `KernelPageOwn`, `EveryProcessStacked`, `TypeOK`, `ArgsUntilChildEnds`, the refinement `ImplementsTaskStacks`, and the liveness of the scheduler, `EveryTerminalRuns` and `CtrlCActedUpon` |
| KernelVideo (module KernelPaging) | 3 slots, 2 terminals, vidmap, files that fail to load, tables of 4 entries | `VidmapPageOwn`, `UserSpace`, `KernelSpace`, `SwitchSetsPages`, `WindowRepaired` |
| Terminal | buffer of 3, two characters, keys and CTRL-C at any time | `ReadExact`, `ReadBounded`, `ReadReturns` |
| Rtc | 2 processes, 2 rates, counter of 3 bits, 2 descriptors | `NotifiedAtRate`, `NoRateWithoutDescriptor`, `RtcReadReturns` |
| Files | 2 processes, 2 descriptors each, 1 entry, `dirs_read` up to 2, kills anywhere | `NextListingFromStart`, `ListsInOrder` |
| ReadData | all inodes of 3 blocks of 2 bytes, block numbers out of range included | `ReadsInOrder`, which includes staying inside the image, `LoadsWholeFile`, `ShortOnlyAtEnd` |
| Screen | 2 terminals, pages of 2 x 2, line buffer of 2, 3 and 2 cells of text between clears | `PageShowsText` |
| Interrupts | 2 terminals, 2 processes each, 2 frames per stack | `ReadyWhenOn`, `HandlersRunAlone`, `RequestsServed` |
| Blink | 3 structures, 3 locations of which one is off the screen, lengths 0, 2 and 3 in 2 bits | `ListHoldsAllocated`, `CountsTicks`, `ShowsStatus` |
| Calls | 11 bytes of memory, 8-bit words, strings and names of 3, commands of 6, files of 6 (grep, buffer of 3) and 4 (fish) bytes | `LibRoutines`, `NamesFound`, `CommandSplit`, `SyserrPasses`, `GrepPrints`, `FramesAdded` |

Why the bounds are enough.  The terminals of KernelTree are the code's three,
since their order matters there.  Four slots give every terminal a shell and
leave one for a child on any of them, or a chain of four on one, and all slots
can be in use.  With five slots the same properties hold (no vidmap, and `Args`
empty, so without `ArgsUntilChildEnds`), in 240,000 states and some minutes.
Three slots suffice for vidmap, where at most an outgoing, an incoming and a
waiting process matter, and for page directories, where a slot matters with its
previous owner. A line buffer of 3 holds a full line, a line one short and an
empty one.  A counter of 3 bits holds four periods of the slower of two rates
and then overflows.  One directory entry is the last one as well as the first,
which is where `ListsInOrder` can fail (the theorem is about any number);
interleaved stores and resets can carry `dirs_read` past the end without limit,
so `MaxDirs` bounds it, one past the directory.  Blocks of 2 bytes have reads
that start in the middle, end at the boundary and run over one or two of them; a
negative `nbytes` becomes a large unsigned one.  A page of 2 x 2 with three
cells of text (`MaxText`) wraps and scrolls; the other terminal, which need only
have something to show in a wrong place, has two (`MaxOther`).  Two frames per
stack let an interrupt hit a system call or another wrapper's last instructions.
Eleven bytes of memory hold every alignment of a range of five bytes and more,
which the routines copy in bytes, words and double words.  A file of twice
grep's buffer has lines that lie across two reads, end with the buffer or fill
it.  Three blinking characters give a list with a first, a middle and a last one
and an array that is full; a length of 0 is what fish's countdown wraps around
at.  The 8 descriptors of `Calls` are the code's, which the tests of syserr
count on.

Screen has the state constraint `Undisturbed`: it goes no further than the first
key that writes to a terminal inside a `putc` of it, or the first statement of
`putc` that an ALT-Fn has made use another terminal's cursor or page.
`PageShowsText` is about behaviours up to there; what comes behind is in the
list below.  The view `Relevant` leaves out what no later step depends on.

KernelVideo has the state constraint `LoadsSucceeded`: it goes no further than
the state a failed `fs_copy` leaves, since the caller then executes in the
child's address space.  What it shows, `WindowRepaired` included, is about
behaviours up to such a failure.  Its view `StateView` leaves out a video page
table that its directory does not name: it cannot be read, and is written before
it is named again, so states that differ in it only have the same futures.
Without the view the run reaches 417,607 states instead of 94,911 and passes
too, in some six minutes.  KernelTree's view `LiveSlotsView` leaves out the
fields of slots without a process, all of which `execute` and
`execute_base_shell` write before anything reads them; without it the run
reaches 218,850 states instead of 56,904 and passes too.

`ReadData` alone turns deadlock checking off: a reader at the end of its file
has nothing more to read.

Violated, each showing that the code does not do what one of its comments says
(`PROJECT.json`, "findings", has the quotations):

| Run | What happens |
|---|---|
| KernelCtrlC | a deferred CTRL-C outlives its process and hits the parent or a child |
| FilesListing | two listings of the directory take entries from each other |

Other differences between the code and its comments, met while modelling.  The
properties that pass are stated so as to hold beside them:

* `terminal.c:208`: ALT-Fn for the terminal already shown returns without
  restoring `video_mem` (`terminal.c:186`: "adjust video memory back to what it
  was"), so a hidden process that has the CPU writes on the screen until the next
  switch or key.  `KernelPageOwn` allows the visible page.
* `syscalls.c:306`: the end of a child erases the parent's arguments, while
  `getargs` "returns the arguments that the process was launched with"
  (`syscalls.c:625`).  `ArgsUntilChildEnds` says that nothing else does.
* `terminal.c:314`: a key after ENTER overwrites the newline before it is read.
  `ReadExact` is about lines without such keys.
* `lib.c:258`: keys inside the newline of a `putc` can take `screen_y` to -1, and
  the next store is beside the page.
* `lib.c:15`: `get_screen_xy_idx` reads `video_mem` and then `cur_terminal`; an
  ALT-Fn between them makes `putc` move another terminal's cursor.  One inside
  `scroll`'s `memmove` (`lib.c:672`) leaves one page scrolled in part and scrolls
  the rest of another.  `PageShowsText` is about behaviours up to there.
* `syscalls.c:618`: `close` frees the descriptor before the driver's close.  A
  process killed in between leaves `dirs_read`, or its rtc rate, to its successor,
  since `halt` finds no descriptor to close.  `NextListingFromStart` and
  `NoRateWithoutDescriptor` say so with `torn`.
* `filesys.c:312`: a reader switched out between the load and the store of
  `dirs_read++` later undoes others' reads or a reset, and readers can take
  `dirs_read` ever further past the end of the directory.  `ListsInOrder` is
  about listings that no other moves.
* `syscalls.c:421`: the arguments are not copied when the caller is in the last
  slot; its child finds none.  `CommandSplit` says so.
* `syscalls.c:632`: with `nbytes` of 0 or less `getargs` passes its test and writes
  to the buffer; and the terminator of a 32-character word goes one past
  `exename` (`syscalls.c:413`).  `CommandSplit` is about `nbytes` of at least 1, and
  `exename` is a sequence in the model, without a next byte.
* `terminal.c:424`: an ENTER between `terminal_read`'s two clears is lost.
  `ReadReturns` is about the read under way, which returns.
* `filesys.c:96`: an entry whose name fills its 32 bytes is not found unless its
  type is 0, since the length is counted into the type field; `dir_read` copies
  33 bytes of it.  `NamesFound` is about shorter names.
* `syscalls.c:433`: `execute` leaves the file open when its header cannot be read.
* `ece391grep.c:33`: the test for an unfinished line looks at the byte behind what
  was read, which nothing has initialised while the buffer has never been full;
  and a line longer than the buffer is cut in pieces.  `GrepPrints` is about lines
  that fit, and the byte not being a newline.
* `fish.c`: `add_frames` takes a failed read (-1) for a character and would not
  end; `FramesAdded` is about files that can be read.
* `blink.S:281`: after a `sync` every character shows its `off_char`, whatever its
  new state is, up to its next change.  `ShowsStatus` says so with `synced`.

## Fairness

`FairSpec` of Kernel assumes that the first shell is started and that timer
interrupts keep coming: `pitHandler` arms the timer again each time (it runs in
one-shot mode) and every way out of the kernel turns interrupts on.  Programs
and the person at the keyboard owe nothing.  That the round robin then reaches
every terminal is checked (`EveryTerminalRuns`; `AllSpec` of KernelPaging has the
same fairness, for `WindowRepaired`), and it justifies the fairness
Terminal and Rtc assume for a process inside `terminal_read`, `rtc_read` or `close`.
Rtc also assumes that the chip keeps interrupting, which it does since the
handler reads register C each time.

Interrupts assumes that handlers and system calls with interrupts off go on, and
that an interrupt which is signalled again and again is taken (strong fairness
of `accept`): the CPU looks for one after every instruction with interrupts on.
Its devices request again only after their handler has attended to them and are
slower than that handler; the clock is served unless keys keep coming.

## Proofs

Each theorem holds for every value of the constants that the module's named
`ASSUME` allows; the code's values are among them.  Every one follows the same
argument: a property the runs check is seldom inductive, so it is strengthened
to an invariant that is; that one is shown to hold initially and to be kept by
each action; and an action property is shown of a step from such a state.

### Kernel

| Theorem | States | Inductive invariant |
|---|---|---|
| `TypeCorrect` | `[]TypeOK` | itself |
| `TreeCorrect` | `[]ProcessTree` | `TreeInv` |
| `CpuOwned`, `ContextsCorrect` | `[]CpuOwner`, `[]SavedContexts` | `ContextInv` |
| `RecordsAgree`, `KernelPageOwned`, `WindowsOwned` | `[]ActiveRecords`, `[]KernelPageOwn`, `[]VidmapPageOwn` | `RecordsInv` |
| `SwitchPages`, `ArgsKept` | the action properties `SwitchSetsPages`, `ArgsUntilChildEnds` | `RecordsInv` |
| `KernelSpaceCorrect`, `UserSpaceCorrect` | `[]KernelSpace`, `[]UserSpace` | `TreeInv /\ PagingInv` |
| `StacksCorrect` | `[]EveryProcessStacked` | `RefinementInv` |
| `Refines` | `ImplementsTaskStacks` | `RefinementInv` |

* `TreeInv` adds to `ProcessTree` what the current process needs: from the first
  shell on, `CPID` is a live process and the active one of its terminal.  Without
  it `execute` could give a child to a process that already has one.
  `SpawnTree`, `LaunchTree`, `ResumeTree` and `RestartTree` show that the four
  ways to change the tree keep it; every action is one of them or leaves the
  tree alone (`SameTree`).
* `ContextInv`: `ActiveIsLeaf` says that the process that resumes after a `halt`
  waits in `execute`, and that a process chosen by `task_switch` is not the
  current one and hence saved.  These two theorems assume that `Programs` has no
  corrupt file: after a failed load `CPID` and `tss.esp0` disagree.  All others
  hold of images with corrupt files too.
* `RecordsInv` joins the three invariants and `TreeInv`, and adds what boot leaves
  for the first shell and that a terminal's first shell has no arguments, without
  which `ArgsUntilChildEnds` would fail where a shell is restarted in its slot.
* `PagingInv` says what is in the tables, which `UserSpace` does not mention: the
  directory of each live slot has the three entries of `new_page_directory` and
  the window's if there is one, and the CPU's remembered translations are those
  of the current tables.  It is the last of these that `loadPageDir` at the end
  of every operation of `paging.c` is needed for.  Every step of KernelPaging is a
  step of Kernel (`AllNextIsNext`), so `TreeInv` carries over.
* The refinement.  `stacks` is a recursive function of the table; rather than
  follow what a step does to the recursion, `RefinementInv` says what its values
  are like (`StacksOf`: a stack's last element is the terminal's
  active process, each element's `PPID` is the one below it, the lowest has
  none, and each live process is on its terminal's stack once), and the lemmas of
  Basics show that a table has only one family of stacks like that
  (`StacksFound`), the one `chain` computes: a line of parents without repetition
  is no longer than the number of slots (`Pigeonholes`), which is the depth
  `chain` is taken to.
  So it is enough to name the stacks after a step: `Pushed` appends the new
  process, `Popped` drops the one that ended, and both are again like the table.
  `PushStep`, `PopStep`, `ReplaceStep` and the steps that only move the CPU then
  match the actions of TaskStacks.

### The other components

| Theorem | States | Inductive invariant |
|---|---|---|
| `ListingsInOrder`, `ListingsStart` | `[]ListsInOrder`, `[]NextListingFromStart` | `FilesInv` |
| `ReadsCorrect`, `LoadsCorrect`, `ShortReads` | `[]ReadsInOrder`, `[]LoadsWholeFile`, `ShortOnlyAtEnd` | `ReadInv` |
| `ReadsBounded`, `ReadsExact` | `[]ReadBounded`, `[]ReadExact` | `TerminalInv` |
| `RatesEnd`, `RatesCorrect` | `[]NoRateWithoutDescriptor`, `NotifiedAtRate` | `RtcInv` |
| `ScreensCorrect` | `[]PageShowsText` | `ScreenInv` |
| `BlinkListCorrect`, `BlinkScreenCorrect`, `BlinkTicksCorrect` | `[]ListHoldsAllocated`, `[]ShowsStatus`, `CountsTicks` | `BlinkInv` |
| `ReadyCorrect`, `HandlersAlone` | `[]ReadyWhenOn`, `[]HandlersRunAlone` | `InterruptsInv` |

* `FilesInv`: a listing that nobody else has moved agrees with `dirs_read` at
  every stage of a read (`InOrder`): the entry left, the length, the name and the
  value loaded are all of the next entry.  `ListsInOrder` alone is not inductive,
  since the value stored was loaded some steps before; that no other store came
  between is what not being in `mixed` means.
* `ReadInv`: while `read_data` loops, what it has copied are the bytes from
  `offset` on, and `file_data_block`, `block_offset` and `curr_data_loc` agree on
  the next one; `block_offset` may equal the block's size, which is why the loop
  tests it before it copies.  Assumed: the largest file's length fits the width
  of `length`.
* `TerminalInv`: the buffer holds what was typed up to the step that clears
  `buf_pos`, and the loop has copied a prefix of it; the bounds are kept
  separately, since they must hold when keys have spoilt the line.
* `RtcInv` bounds `count`, keeps rates valid and says that `execute` holds a
  descriptor while it reads the rtc, so that its close finds one; `BitChanges`
  shows that counting up changes bit j exactly when the j bits below it become
  0, at overflow too. Assumed: `count` has a bit for each rate.
* `ScreenInv`: until a key has disturbed a `putc`, `video_mem` is the page of
  the process that has the CPU, and the page of each terminal would show its
  text if the `putc` under way on it ran to its end.  `rest` is what is left of
  `putc` at each of its statements, as a function of the page, the cursor and
  the place the loop has come to, so each step need only be shown to leave
  `rest` of what it does as it was (lemmas `RestFrom` a label), and a step of
  another terminal to leave its page and cursor alone.  What a whole `putc` does
  to the text is shown once (`GlyphShows`, `NewlineShows`).
* `BlinkInv`: there is a line of links from `mp1_list_head` that ends and holds
  the structures with a location, each once (`IsLine` of Basics: such a line is
  the one `chain` finds), and each countdown is the length less the ticks shown.
  Removal takes one element out of the line, addition appends one.
* `InterruptsInv` says for every number of steps that a handler has done which
  line is masked, in service or waiting (`ServedTo`), and that every stack that
  does not run, and all but the top of the one that does, is resumable.  The two
  properties need each other: a handler that leaves by another stack turns
  interrupts on there, so nothing may be half-done on it.

### What is only model-checked

* Liveness (`EveryTerminalRuns`, `CtrlCActedUpon`, `WindowRepaired`, `ReadReturns`,
  `RtcReadReturns`, `RequestsServed`): out of the prover's reach.
* Lib, Grep and Frames, and Names, which uses Lib: recursive operators, which the
  prover does not accept.  Induction over numbers is available (`Induction` of
  Basics, derived from `NatMin` and stated of sets of numbers), so recursive
  functions such as `two_to` and `chain` are proved about; recursive operators
  are not.
* Descriptors and Syserr: eight fixed tests, which the run evaluates completely.

## Not modelled

Programs that are short loops around system calls (cat, ls, shell, counter,
pingpong, hello, testprint, sigtest), the `main` of grep and of fish, which call
the modelled functions one after the other, `mp1_ioctl_find`, which changes
nothing, and `ece391emulate.c`, which imitates the system calls on Linux:
Kernel, Files, Terminal and Rtc let a program make any call at any time, which
covers what these do.  `set_handler` and `sigreturn`, stubs that return -1.
Letter case, colours, the VGA's cursor (which is written only), segment
descriptors and registers.  Stack memory: `fs_copy`'s buffer of all data blocks
lies on an 8 KB stack, and nested interrupts add frames to it.  Keys between
`entry`'s `sti` and the first shell that switch terminals or kill: ALT-F2 would
then start its shell on top of the boot thread and leave terminal 0 without one
(plain keys and the other interrupts at that time are in Interrupts).  The
header bytes that `execute` tests are not initialised when the file is the rtc
or the directory; the models take it that such a file is refused.
`read_dentry_by_index`, and the 4 MB and kernel-only forms of
`new_page_directory_entry`, have no caller.

## Plan

1. Composition: Kernel with Terminal (three line buffers, one CPU), the window at
   boot.
2. The descriptor that `execute` leaks; execute's header test on uninitialised
   bytes.
3. Screen: colours, and a statement about what a disturbed `putc` may still not
   do.
