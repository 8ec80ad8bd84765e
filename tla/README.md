# Verification of the si-stultum kernel

si-stultum is a small x86-64 kernel with its own UEFI boot loader.  This directory
holds TLA+ models of it, the TLC configurations that check them and TLAPS proofs about
the page allocator, the page tables, the kernel's memory set-up, the boot loader, both
together, the kernel thread, the interrupt gates, the strings and UTF-8.  Paths below are
relative to the repository; the code is in `src/`.

## The system

The firmware starts `bootloader.c`, which sets up the frame buffer, fetches the memory
map, loads `kernel.elf` and enters `_start` in `kernel.c`.  From there one thread runs,
interrupted by the timer and the keyboard.  There is no scheduler, no user mode, and
nothing is stored on disk, so nothing has to survive a crash.

| Component | State | Operations | Works with |
|---|---|---|---|
| Boot loader, `bootloader.c` | map buffer, map key, loaded segments | `InitializeGop`, `GetMemoryMap`, `GetKernelEntry`, `ExitBootServices` | firmware; hands `BootInfo` to the kernel |
| Physical page allocator, `page_frames.c` | bitmap, four `mem_*` counters, `last_hit`, `ppa_initialized` | `ppa_init`, `ppa_lck(n)`, `ppa_rsv(n)`, `ppa_ulck(n)`, `ppa_ursv(n)`, `ppa_request` | called by `init_kernel`, `init_pmm`, `init_idt`, `page_map.c` |
| Page tables, `page_map.c` | `PML4` and the tables in memory | `pmm_init_pml4`, `pmm_map_memory`, `pmm_find_paddr` | asks the allocator for tables |
| Memory set-up, `kernel.c` | the tables in use (cr3), the descriptor table's page | `init_kernel`, `init_pmm`, the mapping test of `_start` | allocator, page tables, boot information |
| Kernel thread, `kernel.c` | program counter, the interrupt table in use | `init_idt`, the wait for 3 s, the echo loop | clock, serial port, interrupt controller |
| Interrupt handlers, `interrupts.c` | none of their own | `Timer_Handler`, `Keyboard_Handler`, three fault handlers | clock, serial port, interrupt controller |
| Clock, `chrono.c` | `ms_count` | `init_PIT` | incremented by the timer handler, read by the thread |
| Serial port, `serial.c` | that of the chip | `init_serial`, `kputc`, `kputs`, `kgetc`, `serial_printf` | thread and keyboard handler both write |
| Interrupt controller, `port_io.c` | that of the chip | `PIC_remap`, `PIC_sendEOI`, the masks | thread and handlers |
| Descriptor tables, `gdt.c`, `idt.c`, `asm_utils.asm` | GDT, IDT | `IDT_CREATE_ENTRY`, `set_gdt`, `set_idt`, `set_pml4` | loaded by `kernel.c` |
| Console, `conlib.c`; font renderer, `ssfn.c` | cursor, colours | `putc`, `puts_at`, `ssfn_putc`, ... | frame buffer only |
| Formatter, `fmt.c`; strings, `string.c` | the shared `__str_buff`; `strtok`'s `last` | `__proto_print`; `strrev`, `strcmp`, `strtok` | `serial_printf`, console |

What is hard in this code:

* The allocator's interplay of bitmap, hint and counters with memory maps that have
  holes, are stale, or have their largest segment at address 0; calls that name pages
  outside memory; exhaustion, which nobody checks for.
* Page tables, which are built out of frames the same allocator hands out, while
  the tables map themselves.
* Interrupts, which arrive at any point of the boot sequence, between the two reads of
  a time stamp, between a look at a status register and what is done about it, and
  between a check and the `hlt` that follows it, where they are slept over; requests of
  lines nobody wrote a handler for, while the controllers' masks are cleared or still the
  firmware's.
* The boot loader's ignored status codes and the age of the memory map and its key, and
  what both mean for the kernel, which trusts the map and runs on the loader's stack,
  while the firmware keeps what it has taken since.
* Packed words: entries and gates in which several fields share 64 or 128 bits.
* A console that draws straight into memory, clips, does not scroll, and takes one
  colour for none.

For each, `PROJECT.json` lists the hazards with the line where they bite and the
properties that cover them; the one without a property says why.

What makes each component correct:

* allocator: one holder per frame, clear bits are usable memory, counters that agree with
  the bitmap, a request that never answers with a held frame;
* page tables: a tree of frames nobody else is given; a mapping changes one page only;
* memory set-up: tables kept off everything in use, everything below the end of memory
  mapped to itself before the tables are loaded;
* thread and handlers: balanced interrupts, no lost key, a clock that accounts for every
  tick it could see, no interrupt without a gate, unbroken output, the echo loop reached;
* boot loader: a map that lists all the kernel still needs, a loop that ends;
* loader and kernel together: nothing taken that was in use when the map was fetched,
  requests answered or the failure known, everything the kernel goes on to use mapped;
* formatter: a number printed reads back as the argument, fields are filled, the buffer is
  kept;
* strings: words as an author of the text would split them, whatever was split before;
* numerals, UTF-8, packed words: what is written reads back;
* console: text in the cells the cursor says, and nothing else of memory touched.

## The modules

    FrameAllocator            what the allocator promises
      ^ implemented by
    PageAllocator             allocator and its callers
      EXTENDS PageFrames      page_frames.c as functions on its state
    PageLoops                 the same calls as the loops the code runs
    MCPageAllocator           instances
    PageFramesProofs          lemmas on the operators of PageFrames
    PageAllocatorProofs       theorems

    AddressSpace              what the page tables promise
      ^ implemented by
    PageMap                   page tables in use, with other users of the allocator
      EXTENDS PageTables      page_map.c as functions; EXTENDS PageFrames
    KernelMemory              init_kernel over PageMap
    MCPageMap, MCKernelMemory instances
    PageMapProofs             theorems; EXTENDS PageFramesProofs
    KernelMemoryProofs        theorems; EXTENDS PageMapProofs

    KernelThread              _start, init_idt and the interrupt handlers
      EXTENDS Devices         port_io.c and serial.c over the 8259A and the 16550
    KernelThreadProofs        theorems

    BootLoader, MCBootLoader  bootloader.c
    BootLoaderProofs          theorems
    Boot, MCBoot              BootLoader, and KernelMemory after it on what it leaves
    BootProofs                theorems; EXTENDS KernelMemoryProofs

    Formatter, MCFormatter    fmt.c

    Terminal                  what the console promises
      ^ implemented by
    Console, MCConsole        conlib.c and ssfn_putc on a frame buffer of pixels

    Words                     what strtok, strrev and strcmp promise
      ^ implemented by
    Strings                   string.c; EXTENDS StringFunctions, its stateless part
    Numerals                  itoa, itoas, ftoan, __utoa, __itoa
    Utf8                      ssfn_utf8
    PageEntry                 pmm_flag_set, pmm_addr_set and their inverses, bit by bit
    Gates                     gdt.c, idt.h, set_gdt, set_idt, the gates of init_idt
    Leaves                    Strings, Utf8, PageEntry and Gates side by side
    MCLeaves                  an instance of these four and of Numerals
    LeavesProofs              theorems; EXTENDS Leaves

**PageFrames, PageAllocator.**  The globals of `page_frames.c` are one record; each
function of the file is an operator on it.  Addresses and byte counts are in frames, since
every address is divided by 4096 before use.  `bits` is the set of frames whose bit is set.
A loop over pages is one set operation; `PageLoops` keeps the loops as the code has them
and `CallsMatchLoops` compares the two on every reachable state.  The counters wrap at
`CounterMod`; the `int` product `4096 * i` of the release loops is undefined once it
overflows, and `Visited` lets it be widened or wrapped.  `PageAllocator` has one action per
call, with the callers' knowledge as history variables (`own`, `held`, `kept`, `phantom`,
`answer`).  `Init` takes the globals as zero, as the ELF image describes them.

**PageTables, PageMap.**  `pmm_map_memory` is an operator on the allocator and the
contents of memory as tables.  A page is a tuple of four indices; an entry is the set of
the frame it holds, empty when it is not present.  When `ppa_request` has nothing to give,
the code clears and fills whatever it got: the walk is `lost` from then on and the model
stops there.  `PageMap` maps pages in any order, while other parts take and return frames.

**KernelMemory.**  `init_kernel` from `ppa_init` on, step by step, for any of several
memory maps and frame buffers.  One call of `pmm_map_memory` is one step.

**Devices, KernelThread.**  The chips are functions on a record each, from their data
sheets and as the code relies on them.  The thread's steps are single accesses to the
clock, the line status, the transmitter, the controller.  A handler runs with interrupts
off, one step per statement.  A log line is its time stamp, one character, and
`LineLength` more.  `entered` tells whether the kernel came in with interrupts on, which
the boot loader allows for: see `EnteredWithBootServices`.  The keyboard is one output
buffer.  History variables (`wire`, `said`, `ticks`, `missed`, `typed`, `dropped`, ...) are
read by no step of the program.

The controllers have four lines: `Timer` and `Keyboard`, `Cascade` for the slave's lines
8 to 15, which come in on the master's line 2, and `Other` for the master's lines 3 to
7. The kernel has one gate for each of the first two and none for the others, so which
of the others it is makes no difference but for the mask it has.  `slave` says that the
slave masks all of its lines.  `Wired` are the lines with a device on them.  The runs
leave `Other` without one: it differs from `Cascade` in having one mask where that has
two, and `StrayWindow` is proved for any `Wired`.  ICW1 (`Remap`) clears the masks of
both; `RestoreMaster` and `RestoreSlave` write back what the firmware had, one after the
other and with interrupts as they were; `Unmask` leaves timer and keyboard, after the
`cli` of `init_PIT`.  A request on a line that is masked, and that nothing but ICW1
opens again, is forgotten: ICW1 clears the requests, and after `Unmask` there is no
ICW1.  An interrupt goes astray (`StrayInterrupt`) if the kernel's table is loaded and
the controllers still have the firmware's vectors, or the line has no gate; and, from
`init_gdt` (`gdt`) to `set_idt`, if it would go through a gate of the firmware's, whose
code segment is looked up in a table that is not the firmware's any more.  It may go
well there too (`FirmwareInterrupt`), if the selector happens to fit.

A look and the `hlt` after it are two steps: at `wait_hlt` and `echo_hlt` the `hlt` is the
next instruction, at `wait_halted` and `echo_halted` the processor sleeps.  An interrupt in
the first returns to the `hlt`, which then sleeps until another one comes; only in the
second does it bring the thread back to its look (`Woken`).

**BootLoader.**  The firmware is a type for every frame, a key that changes with every
allocation, and calls that may fail.  A pool buffer lies in memory the loader has or in a
new frame, one of `Pool`.  Frames may be a `hole` no descriptor lists.  A segment whose
frames AllocatePages refuses is read to its place all the same.  To open and read files
the firmware may take memory for itself, one of the sets of frames in `Growth` per step
(`ReadHeader`, `ReadProgramHeaders`, `LoadSegment`).  That is after the map was fetched: the
map calls those frames free, and as boot services do not end, they stay in use.  That the
firmware gives memory back meanwhile is not modelled; the kernel would keep off frames that
are free.  Where the code goes on
with a handle or buffer it never got, or overwrites what it works with, the model goes to
`astray` and stops.

**Boot.**  The variables of both programs; the loader's actions are those of `BootLoader`
by `INSTANCE`, the kernel's those of `KernelMemory`, started with `MapOf(handed.frames)`,
the map as the loader fetched it.  `ppa_initialized` may begin as `TRUE`, because the
loader does not clear .bss.  `room`, a history variable, is what the allocator had to give
when `init_pmm` began.

**Console.**  Memory is a function from pixel addresses, with a piece of what lies behind
the frame buffer.  A glyph is fragments of rows, found in a table with skips, as in the
font file.  A call of the console is one step, since nothing that returns interrupts it.
`Terminal` has cells, a cursor and colours; the refinement reads the cells off the memory,
and maps the pixels between lines and behind the screen to `spare`, which `Terminal`
leaves alone except where `cls` with longer lines reaches them.

**Strings, Words.**  A pointer is a buffer and a position.  `Words` has texts without
terminators, the words given so far and the rest of the text in work.  One call is one
step.

**Numerals, Utf8.**  One step per digit or character.  A double is a multiple of 1/8, on
which the arithmetic of `ftoan` is exact; rounding of binary fractions is left out.

**PageEntry, Gates.**  A word is the set of the positions of its bits.  `Gates` ends with
operators that read the tables as the processor does; those are external.

**Leaves, MCLeaves.**  These five share no state and call nothing else, so one run has an
instance of each, one of which works while the others rest in an initial state.

**Formatter.**  `__proto_print`, one step per plain character or directive.  The program
sees the characters of the format; the properties see the items its author wrote, so that
`ValueReadsBack` and `FieldFilled` compare the two readings.  The types have a quarter of
their bits and `__str_buff` a quarter of its characters: as in the code, an `int` in base 2
just fills it.  A step that would write past the buffer stops the model (`overrun`).
Widths and precisions that overflow the `int` of `__read_int` are left out, as is `%p`
with flags, which the code ignores.

## What the runs check

| Run | Question | Bounds |
|---|---|---|
| `PageAllocator` | Is it a pool of frames with one holder each, usable clear bits, exact counters, fresh answers?  Do the code's loops do what the set operations say? | six maps of 4-7 pages: split, largest at 0, with a hole, beyond the sum, too long for the `int`, all taken; words of 2 bits; the `int` overflows at 4 pages |
| `PageMap` | Are the tables a tree nobody else is given, and a translation map? | tables of 2 entries, 9 frames, four pages that share none to three levels, two targets |
| `KernelMemory` | Does the set-up keep everything apart and mapped? | tables of 3 entries, memories of 12-27 frames, five maps, four frame buffers, one of them round the test page |
| `KernelThread` | What can an interrupt break, and when?  When can one find nowhere to go?  Is output whole and is input echoed? | devices on timer, keyboard and the slave, all masks the firmware may have left on both controllers, a clock of three ticks, two to the second, two keys, three typed characters, FIFOs of two, both entry flags, a port or none |
| `KernelThread_liveness` | Does the boot end, is every key read, every received character echoed? | devices on the timer and keyboard lines, a clock of one tick, one key, one typed character, both entry flags, a port or none |
| `KernelThread_loopback` | Is a port left in loopback mode only if it is faulty, as `serial.c` says? | expected to fail |
| `BootLoader` | What does the kernel's memory map miss? | eight frames, two segments, three memories, a buffer in any frame, up to two frames the firmware takes at a step |
| `Boot` | What does the kernel take, find and map, on what the loader leaves? | five memories of 32-60 frames (plain, with a hole, with the largest range beginning in the image, one range for all, none for the bitmap), tables of four entries, an image of two segments and five frames, buffers at the places that split or shorten a range, the firmware taking a frame within or at the end of one at any step of the loader, two frame buffers, .bss clear or not |
| `Formatter` | Does every directive print what it stands for? | types of 2, 4, 8, 16 bits, a buffer of 8; all directives out of seven sets of flags, three widths, five precisions, five lengths, nine conversions; seven values; seven longer formats |
| `Console` | Is it a terminal? | two screens of 2 by 2 and 3 by 3 cells of 2 by 4 pixels, the second with cells cut off and longer lines; three calls; six texts, four places, two pairs of colours |
| `Console_colours` | Is it white on black, as `conlib.h` says? | expected to fail |
| `Leaves` | Do strings, numerals, UTF-8, entries and gates do what they are for? | two buffers of 5 and 2 bytes over three letters, three sets of delimiters; texts of three code points at the limits of each length; all 8-bit numbers in five bases, eighths from -5 to 5 and those with the largest and the smallest whole part, with up to four decimals; entries and gates of full width |

The numbers are small because the structure repeats: a third word, a third frame of bitmap
or a third second adds no case.  Memories of `Boot` are the largest because its tables
have to fit beside image, bitmap and buffers, and to fit just or just not.  What must happen for the properties to mean anything does
happen in them: bitmaps and table trees are exhausted, counters wrap, ranges leave memory
and overlap, requests collide with handlers, the receiver overflows, ticks are missed, the
clock crosses a second between two reads.  Every property has a mutant of the code,
listed in `PROJECT.json`, that violates it under the same bounds.

Bounds by name: `MaxKeys` and `MaxTyped` bound what a user does; `ClockCap` is the clock
value from which on values are not told apart (`TicksAccounted` speaks below it);
`MaxCalls` bounds the console's
calls; `EarlyLines`, `LateLines`, `LineLength`, `KeyLength`, `WaitMs`, `Second` scale the code's
2, 6, text, 4, 3000 and 1000.  The map pages, frame sizes and int span are constants of
`PageFrames`, of which the real values are 32, 1024, 0x100, 2^52 and 2^19.

`CHECK_DEADLOCK FALSE` stands where the system ends: `PageMap` and `KernelMemory` stop when
tables run out or the boot is over, `BootLoader` when it enters the kernel, `Boot` after
the mapping test, the liveness run when an interrupt found no gate, `Formatter` at the end
of a format, `Console` after `MaxCalls` calls, and `Leaves` when a numeral, a text or the
descriptor table is done.

Things the runs show that a reader of the code may not expect:

* A full memory makes `ppa_request` return an address past its end, from the padding bits of
  the last bitmap word, each time counting it as used (`RequestedFrameFresh` says when).
* `mem_free` is short by every page of the frame buffer outside RAM
  (`CountersExact`).
* Frames below the hint are not found until something below it is released.
* The kernel is entered without boot services having ended whenever a segment of the image
  was really allocated (`EnteredWithBootServices`), so with the firmware's timer on.  From
  `init_gdt` to `set_idt` its gates name a segment of a table that has been replaced, from
  there to `PIC_remap` they are gone, and from `PIC_remap` to the `cli` of `init_PIT` a
  device on any line but the timer's and the keyboard's finds no gate, if its mask is
  cleared by ICW1 or was open before (`StrayOnlyBeforeCli`).
* What the firmware takes to open and read the kernel's file, after the map was fetched, it
  goes on using, and the kernel takes it for free memory.  `KernelTakesOnlyListedFree` names
  it (`Unlisted`) as what the kernel may take; everything the map lists as taken is safe.
* A tick between the look at the clock and the `hlt` is slept over, as is a character that
  comes between the look at the receiver and the `hlt`; the timer, which never stops,
  wakes the thread (`BootFinishes`, `TypedEchoed`).
* A key pressed before `PIC_remap` blocks the keyboard for good (`stuck`).
* Only the UART's FIFO keeps the log whole (`LogIntact`): `kputc`'s look at the line
  status can be outdated by the keyboard handler.
* `%c` and `%%` without a width subtract one from the count that `__proto_print` returns
  (`FieldFilled`); `%b` of a full 32-bit `int` writes its terminator behind `__str_buff`
  (`BufferKept`).
* The kernel gets through its set-up only if the last conventional range, as the loader's
  own buffers left it, has a frame for every table (`BootFitsExactly`); free memory below
  the hint does not help.  With an uncleared .bss that makes `ppa_initialized` true,
  `ppa_init` does nothing.
* The bitmap is placed before the image is locked: it keeps off the image only if its
  range starts above it, and off everything else only if it is not longer than its range.
  A range above 2 GiB, in which the `int` of `ppa_init`'s loop wraps, may make up to 2 GiB
  of frames below it free (`Overshot` in `ClearFramesUsable`, of whole memory maps) and so
  for the tables (`KernelTakesOnlyListedFree`).
* The identity map ends at the sum of the descriptors' pages.  With a hole in the map the
  stack may lie above, and is gone when the tables are loaded (`InUseMapped`).
* `pmm_flag_set` clears the upper half of the entry when it clears a flag, because
  `~bit_mask` is an `unsigned int` (`EntryReadsBack`); the kernel only sets flags.
* `cls` counts width times height pixels, so on longer lines it clears the padding and
  leaves the last lines; characters from 0x80 on draw nothing and do not move the cursor,
  because `char` is signed; text below the last line is not drawn and nothing scrolls
  (`ImplementsTerminal`).
* `ftoan` loses the sign of numbers between -1 and 0 (`NumeralReadsBack`).
* Finding: the console is "white on black" by its comment, but black, 0, is taken for no
  background, and the screen is not cleared: white on what the firmware left there
  (`Console_colours`).
* Finding: `init_serial` reads its test byte in the next instruction, so a working port may
  be left in loopback mode and nothing is logged (`KernelThread_loopback`).

## Fairness

`FairSpec` of `KernelThread` assumes: handlers finish (weak fairness); a request the
controller presents again and again is taken (strong, for an interrupt is taken at the
next instruction boundary with interrupts on); the thread runs between interrupts (strong,
for a handler suspends it); the serial port keeps sending, or `kputc` would wait for ever;
the timer, once programmed, ticks.  `PacedTick` adds that a tick does not come before the
timer handler of the previous one has returned: a few instructions against a millisecond.
Without it the timer could starve everything.  Users need not press or type.  Firmware
interrupts are never assumed.  `BootLoader` assumes weak fairness of the loader, the only
program that runs, not of failures.

## What is proved

**The allocator.**  `PageAllocatorProofs` proves, for every word size, frame size, memory map, counter width
and range, from the named assumptions of `PageFrames` and `PageAllocator`:

| Theorem | Says |
|---|---|
| `TypeCorrect` | `Spec => []TypeOK` |
| `TakenMarked` | `Spec => []TakenFramesMarked` |
| `ClearUsable` | `Spec => []ClearFramesUsable` |
| `CountersRight` | `Spec => []CountersExact` |
| `RequestFresh` | `Spec => RequestedFrameFresh` |
| `ReleaseFound` | `Spec => ReleasedFrameFound` |
| `Implementation` | `Spec => ImplementsFrameAllocator` |
| `LoopsMatch` | `Spec => []CallsMatchLoops` |

The inductive invariant is `IInv == TypeOK /\ NothingBeforeBoot /\ Sound`.
`NothingBeforeBoot` says that before `ppa_init` no caller has anything; without it the
first call could meet frames held from nowhere.  `Sound` speaks of the initialised
allocator: set bits are frames of memory, every held or kept frame and the bitmap's own have
their bits set and are disjoint, the frames that must never be clear (not conventional, the
low frames, the bitmap's) are set and belong to nobody who could release them (not
conventional and not within `IntSpan` below a range longer than that, where the release
loop may have come by: `VisitedBelow`), and the
counters account for the bits.  The last two need each other: a release keeps the barred
frames set because callers release only what they took, and the counters stay exact
because the frames released were counted by the call of the same kind.  The lemmas come in
this order: numbers modulo the counter's width; cardinalities of taking and releasing sets
of frames (`LockAccounted`, `ReleaseAccounted`); types of every operator; the effect of
`ppa_init` (`InitEffect`); one lemma per action that `Sound` survives it; then the theorems.
The refinement maps each action to a step of `FrameAllocator` or to a stutter: the boot to
`Start`, an answer outside memory to `Refuse`, a call before initialisation to nothing.
`LoopsMatch` is about the operators: in every state they give what the loops of
`PageLoops` compute.  A loop is a recursive function of the turns made; `EveryTurn` is
induction over them by the least turn that would be wrong, `LoopRuns` says that the
recursion has a function and `SameRun` that it is the closed form, where the first value
and each turn agree.  What is left is one turn of each loop: `TakeOneMore` for lock and
reserve; `ReleaseOn`, with the search hint, which the turns move back one by one, apart
from the rest; `VisitOneMore` for the `int` offset that wraps, by the uniqueness of
quotient and remainder; `ScanIs`, where the scan for a clear bit by words stops;
`SurveyIs` and `InitLoopsIs` for the two passes over the memory map.  They hold in states
where the bits are frames of the bitmap (`BitsInMemory`, part of the invariant).
What the page tables need as well (types, the bits after a call, what `ppa_init` leaves
clear) is in `PageFramesProofs`.

**The page tables.**  `PageMapProofs` proves, for every number of entries in a table, every
memory map, page and target, from `SizeAssumption`, `FanoutAssumption` and
`PageMapAssumption`:

| Theorem | Says |
|---|---|
| `TablesTree` | `Spec => []TablesFormTree` |
| `TablesTaken` | `Spec => []TablesKept` |
| `LostWhenFull` | `Spec => LostOnlyWhenFull` |
| `Implementation` | `Spec => ImplementsAddressSpace` |

The inductive invariant `Inv` says `Kept(ppa, mem, lost, PML4, H)`, where H is what the
others hold together with the bitmap and the low frames: the levels below the root are a
tree, its tables are set bits within memory, H is apart from them and set, and every entry
of every frame holds one frame or none.  That each frame reads as a table, the ones nobody
cleared too, is needed because the walk overwrites what it gets.  A call of
`pmm_map_memory` is taken apart in its own order.  `NewTableEffect` is a request and its
clearing; `HungTree` and `HungTranslation` say that an empty table hung under a free entry
leaves a tree and translates nothing new; `EnterEffect` is one level of the walk, `Down`
what it leaves; `LeafWritten` uses that the tree has one way to a leaf (`OneWay`), so that
writing an entry changes one page.  `MapEffect` composes the levels, for walks that run out
of tables at any of them: those leave the tables they got and every translation.
The refinement maps `Map` to a change of one page or, when lost, to a stutter.

**The memory set-up.**  `KernelMemoryProofs` proves `FramesApart` (`NewFramesApart`),
`Identity` (`IdentityMapped`) and `TestWrite` (`TestWriteHarmless`), each
`BootSpec => []...`, for every memory map, image, frame buffer and size of tables.
The inductive invariant `BootInv` follows pc as long as no request failed: the kernel is
`Bare`, without a bitmap, and has asked for nothing; or the image and the frame buffer are
being locked (`Locking`); or all that must be kept off is taken and apart from the tables
(`Ready`), and the tables map exactly the addresses the loops went through (`Progress`).
"Exactly" needs that two addresses never have the same four indices (`PageOfInjective`,
from the uniqueness of quotient and remainder), which holds below the fourth power of the
number of entries.  `AddressAssumption` says that memory, the frame buffer and the test
page lie there: 512 to the fourth is the 36 bits of a frame number in an address of 48
bits.  The code does not check it.  `TestWriteHarmless` does not speak of the bitmap,
because `ppa_init` may place it in the low frames.

**Loader and kernel together.**  `BootProofs` proves `TakesOnlyListedFree`
(`KernelTakesOnlyListedFree`), `GoesOn` (`InUseMapped`) and `FitsExactly`
(`BootFitsExactly`), each `SystemSpec => []...`, for every memory, image, stack, pool and
frame buffer and whatever sets of frames the firmware may take.  The
invariant of the first two has three parts.  `LoaderInv`:
the fetched map covers the frames there are, and calls neither the stack nor its own buffer
free.  `BootInv`, which the steps of the kernel keep for any
map that `ppa_init` can walk.  `FrameInv`: the frames the map does not call free, but for
what the release loop visits below a range (`NotFree`), are taken and apart from the tables,
after failed requests too, and the bitmap
begins in free memory and is not longer than memory; before `ppa_init`, or where it found
no range, there is nothing.  Between the first two stands the map itself: its descriptors
are the runs of frames of one type, each once (`MapOfRuns`, from `Ranked`: in a finite set
of numbers every place is taken), so its pages add up to no more than there is memory
(`MapOfPages`) and what it lists as conventional is so (`MapOfConventional`).
`MemoryAssumption` gives addresses 47 bits, so that a bitmap that begins at the end of
memory is still within 48.  What was taken after the map was fetched (`Unlisted`) is conventional in the map, so
nothing can be proved of it: it is named in the property, as are the frames below a range
above 2 GiB (`Overshot`).

`FitsExactly` needs a count besides, `CountInv`: as long as no request failed, what the
allocator has left, the tables that the addresses mapped so far need, and the root and the
descriptor table if they are there, add up to `room`, what it had when `init_pmm` began
(`Paid`).  A table is needed for each prefix of one, two or three indices of an address
(`Prefixes`), and the tables there are cover exactly those prefixes (`Covers`): a prefix
leads to a table if and only if an address gone through begins with it.  `RequestRoom` says
that a request that is answered leaves one frame less, and that one which is not had none
to find; `HungCovers`, that hanging a table in below a prefix adds this prefix only, for
which no two prefixes may lead to one table (`WaysMeet`).  `EnterCount`, `WalkCount` and
`MapCount` carry this from one level of a walk to a whole call, and the loops add one
address after the other.  A request then fails only when the tables needed up to there are
more than `room`, and they are no more than all.  In the other direction, a kernel that got
to the end has paid for all of them.

**The boot loader.**  `BootLoaderProofs` proves, for every memory, image, stack, pool and
growth of the firmware that satisfy `BootAssumption`, `NeededListed` (`Spec => []NeededFramesListed`) and
`BootServicesRemain` (`Spec => []EnteredWithBootServices`).  The inductive invariant has
five parts: `StackTaken`, the pool lies in memory and the stack in memory never free; `MapInv`, the fetched map lists
its own buffer and the stack as taken; `KeyInv`, the key is never older than the map's;
`LateInv`, what went to the loader since, the image apart, is one frame at most;
`SegmentsInv`, while the key is still the map's, every segment passed was refused its
frames and overwrote them.  `MapInv` needs `StackTaken`, and the last part needs `KeyInv`:
a key that moved on cannot come back.  What the firmware takes for itself (`GrowthKeeps`)
moves the key on and takes nothing from the loader.

**Page-table entries.**  `LeavesProofs` proves `ReadsBack`
(`Spec => []EntryReadsBack`) for every width of word and enumerator, every place of the
address field, every set of flags and addresses and every first content that satisfy
`EntryAssumption`.  The inductive invariant states the entry bit by bit: the flags in it
are `set` (`FlagBits`), and bit k of the field is in `addr`, unless clearing a flag took it
away (`AddressBits`).  `GetBits` and `SetBits` turn the shifted sets of the operators into
statements about single bits.

**Gates.**  `LeavesProofs` proves `GatesEnter` (`Spec => []GatesEnterHandlers`) for all
places of the handlers and all contents of the table's frame (`TableAssumption`).
`NumberBits` and `NumberAt` give the bits of the numbers the descriptors are made of;
`GateBits` gives a gate bit by bit, for any address, and `GateEnters` has the processor find
the address, the segment and the type in it.  `TableInv` adds which gates are written
(`GatesWritten`) and that idtr is loaded after the fifth.

**Strings.**  `LeavesProofs` proves `WordsImplemented` (`Spec => ImplementsWords`) for all
buffers, characters and sets of delimiters that satisfy `TextAssumption`.  The inductive
invariant `TextInv` says that every buffer ends in a NUL; that strtok's pointer stands
behind a NUL in the buffer last given to it; and that the words it gave out of that buffer
begin before it.  So a later NUL falls behind their ends (`EndedKeeps`), and the
words stay as they were.  What the searches find is the least position of its kind
(`LeastExists`, `FindFirst`); `WordCut` says that `Words` cuts the text at those positions,
`EndedBodies` what the NUL leaves on both sides, `StrtokTakes` puts a call together.
`Reversed` and `CompareOrders` do the same for `strrev` and `strcmp`.

**UTF-8.**  `LeavesProofs` proves `DecodesAll` (`Spec => []DecodesWritten`) for all texts of
code points and stray bytes (`CodeAssumption`), of any length.  `EncodedOne` to
`EncodedFour` write out the bytes of a code point, `CharDecoded` has `ssfn_utf8` put them
together again.  `Encoding` is recursive over the text; `Flattens` names the function it is
made of, which exists (`FlattensExists`) and is the only one (`FlattensOnce`) because a
shortest text without it, or a first place where two differ, would not be the shortest or
the first.  So the encoding grows by one character's bytes at a time (`EncodingMore`) and
begins with those of the first characters (`EncodingBegins`), and with `CodeInv`, which says
that the pointer is behind them, the next character's bytes stand at the pointer
(`NextStands`).

**The kernel thread.**  `KernelThreadProofs` proves `Balanced` (`InterruptsBalanced`),
`StrayWindow` (`StrayOnlyBeforeCli`), `KeySignalled` (`FullBufferSignalled`),
`ClockAccounts` (`TicksAccounted`) and `StampOnTime` (`StampTimely`), each `Spec => []...`,
for every number of log lines, keys, characters and clock values, devices on any of the
lines, every state of the firmware's masks and both interrupt
flags, from `ThreadAssumption`.  What carries them is `PhaseInv`, which ties pc to what has
been programmed: segments, table and vectors are the firmware's or the kernel's as far as
pc has come, the table the kernel's and the vectors the firmware's exactly at `remap`, and
once interrupts are turned on for good the lines without a handler are masked.
`EarlyInv` adds that up to `init_PIT` a handler runs only if the interrupt flag at entry let
it, and that no interrupt comes between its `cli` and `sti`; so a stray interrupt was
entered with and came before.  `FirmwareInv` says that before `PIC_remap` no handler of the
kernel has run and the clock does not count, so a handler that runs has the kernel's
vectors (`HandlerRuns`).
`ServiceInv` is `InterruptsBalanced` with the line in service at the end of interrupt
named, which tells what `PIC_sendEOI` ends.  `StampInv` keeps the half of a stamp that was
read first equal to the clock at that time.

`LogArrives` (`LogIntact`) and `EveryTyped` (`TypedAccounted`) are about the serial line,
for every depth of FIFO from two characters on.  Their invariant `LineInv` speaks of the
characters of one writer by their rank on the line, counting only those of the same
writer: `HandInv`, what the thread holds of an echo comes from the receiver and is not
there any more; `WriteInv`, the thread's part of the line is what it has written so far,
and the transmitter holds one character at most when the thread writes, so that with a
handler's one the FIFO never overflows; `MessageInv`, the keyboard handler's messages are
whole but for the one being written, which ends the line; `EchoInv`, the k-th character
written back is the k-th received.  There is one lemma per action, or per group of
actions that touch the same variables.

Not proved, only checked:

* the digits of `Numerals` (`NumeralReadsBack`) and `Formatter` (`ValueReadsBack`,
  `FieldFilled`, `BufferKept`), which are about powers of a base with any exponent: the
  provers do not know as much as that 10^k is a number, and its laws are an induction over
  k with an operator as the hypothesis, which they cannot use;
* the folds of `Console` (`ImplementsTerminal`), of which every step is one or more;
* liveness (`BootFinishes`, `KeyServed`, `TypedEchoed`, `MapLoopEnds`), which the prover
  does not do under fairness.

## Not modelled, and why

* The bytes of the font file and glyphs whose measures differ from the font's: `Console`
  has the table of characters and the fragments, not their encoding.
* `PrintSystemInfo`, `cpuid` and the MSR helpers: output or uses by nothing.
* The fault handlers, which print through the console and the serial port and never
  return; `kputs` within a fault would need every step of the thread as a starting point.
* `IRQ_set_mask`, `IRQ_clear_mask`, `outw`, `outl`: nothing calls them.
* What runs after undefined behaviour: a table written outside memory (`lost`), an
  interrupt without a gate (`stray`), a handle that was never opened (`astray`), digits
  past the buffer (`overrun`), a format read beyond its end.
* Requests the controllers make up when a line falls before it is acknowledged (vectors
  0x27 and 0x2f, with no gate either), and lines set to level.
* Texts for `ssfn_utf8` that the terminator cuts within a sequence, or with a continuation
  byte on its own: it moves past the terminator then, as its comment warns, and what lies
  there is not known.
* Uncleared `.bss` other than `ppa_initialized` (`Boot`) and the clock (`KernelThread`):
  if the guard is left over, the allocator's other globals are taken as 0; `strtok`'s
  static pointer starts as NULL.
* Translation caches: the code never flushes them; the one remapping, of the test page,
  happens before the page is first used.

## Plan

What is left: the fault handlers as a last step of the thread, with the console and the
serial port in whatever state they are; proofs about `Numerals` and `Formatter`,
whose properties are about sequences built element by element.
