---------------------------- MODULE KernelThread ----------------------------
(***************************************************************************)
(* The kernel's only thread, from _start to the echo loop, and the two     *)
(* interrupt handlers that interrupt it: kernel.c, interrupts.c, chrono.c, *)
(* serial.c and serial.h over the chips of Devices.                        *)
(*                                                                         *)
(* A step of the thread is what no interrupt can split in a way that       *)
(* matters: one read of the clock, one look at the line status, one write  *)
(* to the transmitter, one hlt.  The handlers sit behind interrupt gates   *)
(* and run with interrupts off, so a look and the write after it are one   *)
(* step there.  The work init_kernel does on memory is in other modules.   *)
(*                                                                         *)
(* A line of serial_printf is its time stamp, one character here, and      *)
(* LineLength more.  Every line is the same: what it says does not matter. *)
(***************************************************************************)
EXTENDS Devices, FiniteSets

CONSTANTS
  EarlyLines,   \* log lines before init_gdt, and again between it and init_idt: 1
  LateLines,    \* log lines between init_idt and the wait: 6
  LineLength,   \* characters of a log line after its time stamp
  KeyLength,    \* characters of " KB\n": 4
  WaitMs,       \* the clock value the thread waits for: 3000
  Second,       \* clock ticks in a second: 1000
  ClockCap,     \* clock values from here on are not told apart
  MaxKeys,      \* keys pressed in a behaviour
  MaxTyped,     \* characters typed at the serial line in a behaviour
  Ports,        \* the serial ports a machine may have: "off", "absent"
  Wired,        \* the lines with a device on them
  EntryFlags    \* the interrupt flags with which the kernel may be entered

ASSUME ThreadAssumption ==
  /\ EarlyLines \in Nat \ {0} /\ LateLines \in Nat \ {0}
  /\ MaxKeys \in Nat /\ MaxTyped \in Nat
  /\ Second \in Nat \ {0} /\ WaitMs \in Nat /\ ClockCap \in Nat /\ WaitMs <= ClockCap
  /\ LineLength \in Nat \ {0} /\ KeyLength \in Nat \ {0}
  /\ Ports \subseteq {"off", "absent"} /\ Wired \subseteq Line /\ EntryFlags \subseteq BOOLEAN

VARIABLES
  pc,        \* where the thread is
  lines,     \* log lines left in the current group
  after,     \* what follows the group
  text,      \* characters of the current line left to write
  a1, a2,    \* the masks PIC_remap saved
  stamp,     \* the time stamp being read: sec, ms, the clock at the first read
  IF_flag,   \* the processor's interrupt flag
  gdt, idt,  \* whose segment and interrupt descriptor tables are loaded
  handler,   \* the interrupt handler: where it is, what it has left to write
  ms_count,
  pic, uart,
  kbd,       \* the keyboard controller's output buffer is full
  \* History, read by no step of the program:
  keys, typed,  \* keys pressed and characters typed so far
  dropped,      \* typed characters that found the receiver full
  wire,         \* what the serial port has sent
  said,         \* what the thread has written to a working port
  ticks, missed,\* ticks since init_PIT reset the clock; those never latched
  counting,     \* init_PIT has reset the clock
  stuck,        \* the output buffer was full when the controller was reset
  entered,      \* the interrupt flag with which the kernel was entered
  stray         \* an interrupt found no gate, or none that leads to a code segment

thread  == <<pc, lines, after, text, a1, a2, stamp>>
machine == <<IF_flag, gdt, idt, handler, ms_count, pic, uart, kbd>>
history == <<keys, typed, dropped, wire, said, ticks, missed, counting, stuck,
             entered, stray>>
vars == <<thread, machine, history>>

Idle == [at |-> "none", text |-> <<>>]

\* The clock, whose values from ClockCap on are one value.
Bump(x) == IF x < ClockCap THEN x + 1 ELSE x

Pending == IF Timer \in pic.irr \/ handler.at = "count" THEN 1 ELSE 0

-----------------------------------------------------------------------------
\* _start: .bss may hold anything if the loader did not clear it, and the
\* firmware leaves its own masks, perhaps a key, perhaps a pending tick.  Whether
\* a line without a device is masked makes no difference.
Init ==
  /\ pc = "init_serial" /\ lines = 0 /\ after = "gdt"
  /\ text = <<>> /\ a1 = {} /\ a2 = FALSE /\ stamp = [sec |-> 0, ms |-> 0, from |-> 0]
  /\ entered \in EntryFlags /\ IF_flag = entered
  /\ gdt = "firmware" /\ idt = "firmware" /\ handler = Idle
  /\ ms_count \in {0, ClockCap}
  /\ \E masks, latched \in SUBSET Wired, closed \in {c \in BOOLEAN : Cascade \in Wired \/ c} :
       pic = [irr |-> latched, isr |-> {}, imr |-> masks, slave |-> closed,
              base |-> "firmware"]
  /\ \E m \in Ports : uart = [mode |-> m, depth |-> 1, tx |-> <<>>, rx |-> <<>>]
  /\ kbd \in BOOLEAN
  /\ keys = 0 /\ typed = 0 /\ dropped = {} /\ wire = <<>> /\ said = <<>>
  /\ ticks = 0 /\ missed = 0 /\ counting = FALSE /\ stuck = FALSE /\ stray = FALSE

-----------------------------------------------------------------------------
(* The thread.  It runs when no handler does.                              *)

At(label) == pc = label /\ handler.at = "none" /\ ~ stray

\* A group of n log lines, and what the thread does after it.
LogGroup(n, next) == pc' = "log" /\ lines' = n /\ after' = next

InitSerial ==
  /\ At("init_serial")
  /\ uart' \in init_serial(uart)
  /\ LogGroup(EarlyLines, "gdt")
  /\ UNCHANGED <<text, a1, a2, stamp, IF_flag, gdt, idt, handler, ms_count, pic, kbd,
                 history>>

\* A mutation: the seconds are counted from the wrong divisor.
Seconds_off_by_one(t) == t \div (Second + 1)

Seconds(t) == t \div Second

\* serial_printf passes ms_count / 1000 and ms_count % 1000, read in either order.
FirstRead(order) ==
  /\ At("log") /\ lines > 0
  /\ stamp' = IF order = "seconds first"
                THEN [sec |-> Seconds(ms_count), ms |-> 0, from |-> ms_count]
                ELSE [sec |-> 0, ms |-> ms_count % Second, from |-> ms_count]
  /\ pc' = IF order = "seconds first" THEN "read_ms" ELSE "read_sec"
  /\ UNCHANGED <<lines, after, text, a1, a2, machine, history>>

SecondRead ==
  /\ \/ At("read_ms") /\ stamp' = [stamp EXCEPT !.ms = ms_count % Second]
     \/ At("read_sec") /\ stamp' = [stamp EXCEPT !.sec = Seconds(ms_count)]
  /\ pc' = "poll"
  /\ text' = [i \in 1 .. LineLength + 1 |-> <<"log", i>>]
  /\ UNCHANGED <<lines, after, a1, a2, machine, history>>

\* kputc looks at the line status until the transmitter is empty ...
Poll ==
  /\ At("poll") /\ serial_transmit_empty(uart)
  /\ pc' = "write"
  /\ UNCHANGED <<lines, after, text, a1, a2, stamp, machine, history>>

\* ... and writes, whatever an interrupt handler has written in between.
WriteChar ==
  /\ At("write")
  /\ uart' = Write(uart, Head(text))
  /\ text' = Tail(text)
  /\ said' = IF uart.mode = "normal" THEN Append(said, Head(text)) ELSE said
  /\ IF text' # <<>> THEN pc' = "poll" /\ UNCHANGED lines
     ELSE IF lines > 0 THEN pc' = "log" /\ lines' = lines - 1
     ELSE pc' = "echo_hlt" /\ UNCHANGED lines
  /\ UNCHANGED <<after, a1, a2, stamp, IF_flag, gdt, idt, handler, ms_count, pic, kbd,
                 keys, typed, dropped, wire, ticks, missed, counting, stuck, entered,
                 stray>>

\* After the last line of a group.
LogDone ==
  /\ At("log") /\ lines = 0
  /\ pc' = CASE after = "gdt" -> "set_gdt"
             [] after = "idt" -> "set_idt"
             [] after = "wait" -> "wait_test"
             [] after = "echo" -> "echo_hlt"
  /\ UNCHANGED <<lines, after, text, a1, a2, stamp, machine, history>>

-----------------------------------------------------------------------------
(* init_gdt, and init_idt from set_idt on.                                 *)

\* The firmware's gates are still in use, and the segment they name is now looked
\* up in the kernel's table.
SetGdt ==
  /\ At("set_gdt")
  /\ gdt' = "kernel"
  /\ LogGroup(EarlyLines, "idt")
  /\ UNCHANGED <<text, a1, a2, stamp, IF_flag, idt, handler, ms_count, pic, uart, kbd,
                 history>>

SetIdt ==
  /\ At("set_idt")
  /\ idt' = "kernel"
  /\ pc' = "remap"
  /\ UNCHANGED <<lines, after, text, a1, a2, stamp, IF_flag, gdt, handler, ms_count,
                 pic, uart, kbd, history>>

\* PIC_remap reads the masks, sends ICW1 to ICW4, and then ...
Remap ==
  /\ At("remap")
  /\ pic' = PIC_remap(pic)
  /\ stuck' = kbd
  /\ a1' = pic.imr /\ a2' = pic.slave
  /\ pc' = "master_mask"
  /\ UNCHANGED <<lines, after, text, stamp, IF_flag, gdt, idt, handler, ms_count, uart,
                 kbd, keys, typed, dropped, wire, said, ticks, missed, counting,
                 entered, stray>>

\* ... restores them, the master's first.  Until then every line is open.
RestoreMaster ==
  /\ At("master_mask")
  /\ pic' = [pic EXCEPT !.imr = a1]
  /\ a1' = {}
  /\ pc' = "slave_mask"
  /\ UNCHANGED <<lines, after, text, a2, stamp, IF_flag, gdt, idt, handler, ms_count,
                 uart, kbd, history>>

RestoreSlave ==
  /\ At("slave_mask")
  /\ pic' = [pic EXCEPT !.slave = a2]
  /\ a2' = FALSE
  /\ pc' = "reset_clock"
  /\ UNCHANGED <<lines, after, text, a1, stamp, IF_flag, gdt, idt, handler, ms_count,
                 uart, kbd, history>>

\* init_PIT sets the clock to 0 ...
ResetClock ==
  /\ At("reset_clock")
  /\ ms_count' = 0
  /\ counting' = TRUE /\ ticks' = Pending /\ missed' = 0
  /\ pc' = "cli"
  /\ UNCHANGED <<lines, after, text, a1, a2, stamp, IF_flag, gdt, idt, handler, pic,
                 uart, kbd, keys, typed, dropped, wire, said, stuck, entered, stray>>

\* ... and turns interrupts off for the rest.
ClearInterrupts ==
  /\ At("cli")
  /\ IF_flag' = FALSE
  /\ pc' = "unmask"
  /\ UNCHANGED <<lines, after, text, a1, a2, stamp, gdt, idt, handler, ms_count, pic,
                 uart, kbd, history>>

\* A mutation: 0xfd, the timer is left masked.
Unmask_without_timer ==
  /\ At("unmask")
  /\ pic' = [pic EXCEPT !.irr = @ \ Unhandled, !.imr = Unhandled \cup {Timer},
                        !.slave = TRUE]
  /\ pc' = "sti"
  /\ UNCHANGED <<lines, after, text, a1, a2, stamp, IF_flag, gdt, idt, handler,
                 ms_count, uart, kbd, history>>

\* A mutation: a set bit is taken to open a line.
Unmask_inverted ==
  /\ At("unmask")
  /\ pic' = [pic EXCEPT !.imr = {Timer, Keyboard}, !.slave = FALSE]
  /\ pc' = "sti"
  /\ UNCHANGED <<lines, after, text, a1, a2, stamp, IF_flag, gdt, idt, handler,
                 ms_count, uart, kbd, history>>

\* outb(PIC1_DATA, 0xfc) and outb(PIC2_DATA, 0xff), with interrupts off: timer and
\* keyboard are open, and nothing else.  Nothing opens the other lines again, so what
\* is latched on them is forgotten, as what OtherRequest would latch from here on.
Unmask ==
  /\ At("unmask")
  /\ pic' = [pic EXCEPT !.irr = @ \ Unhandled, !.imr = Unhandled, !.slave = TRUE]
  /\ pc' = "sti"
  /\ UNCHANGED <<lines, after, text, a1, a2, stamp, IF_flag, gdt, idt, handler,
                 ms_count, uart, kbd, history>>

EnableInterrupts ==
  /\ At("sti")
  /\ IF_flag' = TRUE
  /\ LogGroup(LateLines, "wait")
  /\ UNCHANGED <<text, a1, a2, stamp, gdt, idt, handler, ms_count, pic, uart, kbd,
                 history>>

-----------------------------------------------------------------------------
(* The wait for WaitMs and the echo loop.  At "wait_hlt" and "echo_hlt"    *)
(* the hlt is the next instruction; at "wait_halted" and "echo_halted" it  *)
(* has been executed and the processor sleeps.                             *)

WaitTest ==
  /\ At("wait_test")
  /\ IF ms_count < WaitMs
       THEN pc' = "wait_hlt" /\ UNCHANGED <<lines, after>>
       ELSE LogGroup(1, "echo")
  /\ UNCHANGED <<text, a1, a2, stamp, machine, history>>

\* hlt sleeps until the next interrupt, whatever has come since the look before it.
Halt ==
  /\ \/ At("wait_hlt") /\ pc' = "wait_halted"
     \/ At("echo_hlt") /\ pc' = "echo_halted"
  /\ UNCHANGED <<lines, after, text, a1, a2, stamp, machine, history>>

\* One look after every hlt: serial_received, and then kgetc.
EchoTest ==
  /\ At("echo_test")
  /\ pc' = IF serial_received(uart) THEN "kgetc" ELSE "echo_hlt"
  /\ UNCHANGED <<lines, after, text, a1, a2, stamp, machine, history>>

\* A mutation: kgetc leaves the character in the receiver.
ReadSerial_again ==
  /\ At("kgetc") /\ serial_received(uart)
  /\ text' = <<ReadChar(uart)>>
  /\ pc' = "poll"
  /\ UNCHANGED <<lines, after, a1, a2, stamp, machine, history>>

ReadSerial ==
  /\ At("kgetc") /\ serial_received(uart)
  /\ text' = <<ReadChar(uart)>>
  /\ uart' = AfterRead(uart)
  /\ pc' = "poll"
  /\ UNCHANGED <<lines, after, a1, a2, stamp, IF_flag, gdt, idt, handler, ms_count, pic,
                 kbd, history>>

ThreadStep ==
  \/ InitSerial \/ SecondRead \/ Poll \/ WriteChar \/ LogDone
  \/ \E order \in {"seconds first", "ms first"} : FirstRead(order)
  \/ SetGdt \/ SetIdt \/ Remap \/ RestoreMaster \/ RestoreSlave
  \/ ResetClock \/ ClearInterrupts \/ Unmask \/ EnableInterrupts
  \/ WaitTest \/ Halt \/ EchoTest \/ ReadSerial

-----------------------------------------------------------------------------
(* Interrupts.                                                             *)

\* An interrupt ends the sleep of a hlt; taken before the hlt, it returns to it.
Woken ==
  CASE pc = "wait_halted" -> "wait_test"
    [] pc = "echo_halted" -> "echo_test"
    [] OTHER -> pc

\* The processor takes a request between two instructions.
Taken(l) == IF_flag /\ ~ stray /\ Presents(pic, l)

\* Through a gate of the kernel's table: interrupts are off until the handler returns.
Deliver(l) ==
  /\ Taken(l) /\ l \notin Unhandled
  /\ idt = "kernel" /\ pic.base = "kernel"
  /\ pic' = Acknowledge(pic, l)
  /\ IF_flag' = FALSE
  /\ handler' = IF l = Timer THEN [at |-> "count", text |-> <<>>]
                             ELSE [at |-> "puts",
                              text |-> [i \in 1 .. KeyLength |-> <<"key", i>>]]
  /\ pc' = Woken
  /\ UNCHANGED <<lines, after, text, a1, a2, stamp, gdt, idt, ms_count, uart, kbd,
                 history>>

\* Before set_idt the firmware's handlers are still in place; its keyboard
\* driver may read the key.
FirmwareInterrupt(l) ==
  /\ Taken(l)
  /\ idt = "firmware" /\ pic.base = "firmware"
  /\ pic' = [pic EXCEPT !.irr = @ \ {l}]
  /\ kbd' \in IF l = Keyboard THEN {kbd, FALSE} ELSE {kbd}
  /\ UNCHANGED <<thread, IF_flag, gdt, idt, handler, ms_count, uart, history>>

(***************************************************************************)
(* Nowhere to go.  The kernel's table is loaded, and the controllers still *)
(* send the firmware's vectors or the line is one the table has no gate    *)
(* for: the table's page is as ppa_request gave it there.  Or the          *)
(* firmware's table is loaded, and the kernel's segments have replaced     *)
(* those its gates name: whether a gate still leads to a code segment      *)
(* depends on the number the firmware gave its own.                        *)
(***************************************************************************)
StrayInterrupt(l) ==
  /\ Taken(l)
  /\ \/ idt = "kernel" /\ (pic.base = "firmware" \/ l \in Unhandled)
     \/ idt = "firmware" /\ gdt = "kernel"
  /\ pic' = Acknowledge(pic, l)
  /\ stray' = TRUE
  /\ UNCHANGED <<thread, IF_flag, gdt, idt, handler, ms_count, uart, kbd, keys, typed,
                 dropped, wire, said, ticks, missed, counting, stuck, entered>>

\* A mutation: the tick is added only while no other tick is latched.
CountTick_coalesced ==
  /\ handler.at = "count"
  /\ ms_count' = IF Timer \in pic.irr THEN ms_count ELSE Bump(ms_count)
  /\ handler' = [handler EXCEPT !.at = "eoi"]
  /\ UNCHANGED <<thread, IF_flag, gdt, idt, pic, uart, kbd, history>>

\* Timer_Handler: ms_count++.
CountTick ==
  /\ handler.at = "count"
  /\ ms_count' = Bump(ms_count)
  /\ handler' = [handler EXCEPT !.at = "eoi"]
  /\ UNCHANGED <<thread, IF_flag, gdt, idt, pic, uart, kbd, history>>

\* Keyboard_Handler: kputs, one character after the other ...
KeyPut ==
  /\ handler.at = "puts" /\ serial_transmit_empty(uart)
  /\ uart' = Write(uart, Head(handler.text))
  /\ handler' = [at |-> IF Len(handler.text) = 1 THEN "scan" ELSE "puts",
                 text |-> Tail(handler.text)]
  /\ UNCHANGED <<thread, IF_flag, gdt, idt, ms_count, pic, kbd, history>>

\* A mutation: the handler prints and does not read the scan code.
ReadScancode_missing ==
  /\ handler.at = "scan"
  /\ handler' = [handler EXCEPT !.at = "eoi"]
  /\ UNCHANGED <<thread, IF_flag, gdt, idt, ms_count, pic, uart, kbd, history>>

\* ... and inb(0x60), which empties the output buffer.
ReadScancode ==
  /\ handler.at = "scan"
  /\ kbd' = FALSE
  /\ handler' = [handler EXCEPT !.at = "eoi"]
  /\ UNCHANGED <<thread, IF_flag, gdt, idt, ms_count, pic, uart, history>>

SendEOI ==
  /\ handler.at = "eoi"
  /\ pic' = PIC_sendEOI(pic)
  /\ handler' = [handler EXCEPT !.at = "iret"]
  /\ UNCHANGED <<thread, IF_flag, gdt, idt, ms_count, uart, kbd, history>>

Return ==
  /\ handler.at = "iret"
  /\ handler' = Idle
  /\ IF_flag' = TRUE
  /\ UNCHANGED <<thread, gdt, idt, ms_count, pic, uart, kbd, history>>

HandlerStep == CountTick \/ KeyPut \/ ReadScancode \/ SendEOI \/ Return

-----------------------------------------------------------------------------
(* The devices.                                                            *)

\* The interval timer.  A tick that finds the line latched leaves no trace.
Tick ==
  /\ pic' = Raise(pic, Timer)
  /\ ticks' = IF counting THEN Bump(ticks) ELSE ticks
  /\ missed' = IF counting /\ Timer \in pic.irr THEN Bump(missed) ELSE missed
  /\ UNCHANGED <<thread, IF_flag, gdt, idt, handler, ms_count, uart, kbd, keys, typed,
                 dropped, wire, said, counting, stuck, entered, stray>>

\* A key: the controller offers the next one when the buffer has been read.
PressKey ==
  /\ ~ kbd /\ keys < MaxKeys
  /\ keys' = keys + 1
  /\ kbd' = TRUE
  /\ pic' = Raise(pic, Keyboard)
  /\ UNCHANGED <<thread, IF_flag, gdt, idt, handler, ms_count, uart, typed, dropped,
                 wire, said, ticks, missed, counting, stuck, entered, stray>>

\* A device on another line.  A request on a masked line leaves no trace: only
\* PIC_remap opens such a line again, and it clears the requests.
OtherRequest(l) ==
  /\ l \in (Unhandled \cap Wired) \ Masked(pic)
  /\ pic' = Raise(pic, l)
  /\ UNCHANGED <<thread, IF_flag, gdt, idt, handler, ms_count, uart, kbd, history>>

\* A character arrives on the serial line.
Type ==
  /\ uart.mode = "normal" /\ typed < MaxTyped
  /\ typed' = typed + 1
  /\ uart' = Receive(uart, <<"typed", typed'>>)
  /\ dropped' = IF uart'.rx = uart.rx THEN dropped \cup {typed'} ELSE dropped
  /\ UNCHANGED <<thread, IF_flag, gdt, idt, handler, ms_count, pic, kbd, keys, wire,
                 said, ticks, missed, counting, stuck, entered, stray>>

\* The serial port sends a character.
Transmit ==
  /\ uart.tx # <<>>
  /\ uart' = Shift(uart)
  /\ wire' = IF uart.mode = "normal" THEN Append(wire, Head(uart.tx)) ELSE wire
  /\ UNCHANGED <<thread, IF_flag, gdt, idt, handler, ms_count, pic, kbd, keys, typed,
                 dropped, said, ticks, missed, counting, stuck, entered, stray>>

-----------------------------------------------------------------------------
Interrupt == \E l \in Line : Deliver(l) \/ FirmwareInterrupt(l) \/ StrayInterrupt(l)

Device ==
  \/ PressKey \/ Type \/ Transmit
  \/ \E l \in Unhandled : OtherRequest(l)

Next == ThreadStep \/ Interrupt \/ HandlerStep \/ Tick \/ Device

Spec == Init /\ [][Next]_vars

(***************************************************************************)
(* For liveness.  Timer_Handler is a few instructions long, so it has      *)
(* returned when the next millisecond's tick comes.  A request that is     *)
(* presented is taken at the next instruction, so one that is presented    *)
(* again and again is taken.  The thread runs between interrupts, the      *)
(* timer ticks for ever and the serial port keeps sending.  Nothing makes  *)
(* a user press keys or type.                                              *)
(***************************************************************************)
PacedTick == Timer \notin pic.isr /\ handler.at # "iret" /\ Tick

PacedNext == ThreadStep \/ Interrupt \/ HandlerStep \/ PacedTick \/ Device

Fairness ==
  /\ SF_vars(ThreadStep)
  /\ \A l \in Line : SF_vars(Deliver(l))
  /\ WF_vars(HandlerStep)
  /\ WF_vars(counting /\ PacedTick) /\ WF_vars(Transmit)

FairSpec == Init /\ [][PacedNext]_vars /\ Fairness

-----------------------------------------------------------------------------

(***************************************************************************)
(* A handler runs with interrupts off and with exactly its own line in     *)
(* service until it has sent its one end of interrupt; the thread runs     *)
(* with no line in service.  An end of interrupt too few would leave the   *)
(* line blocked, one too many would end somebody else's service.           *)
(***************************************************************************)
InterruptsBalanced ==
  ~ stray =>
    /\ handler.at # "none" => ~ IF_flag
    /\ handler.at \in {"none", "iret"} => pic.isr = {}
    /\ handler.at = "count" => pic.isr = {Timer}
    /\ handler.at \in {"puts", "scan"} => pic.isr = {Keyboard}
    /\ handler.at = "eoi" => Cardinality(pic.isr) = 1

(***************************************************************************)
(* An interrupt may find nowhere to go only if the kernel was entered with *)
(* interrupts on, and only from set_gdt to the cli of init_PIT.  After     *)
(* PIC_remap it can only be one of the lines the kernel has no handler     *)
(* for, open while the masks are cleared or because the firmware had left  *)
(* them open.                                                              *)
(***************************************************************************)
StrayOnlyBeforeCli ==
  stray =>
    /\ entered /\ gdt = "kernel" /\ after = "idt"
    /\ pc \notin {"unmask", "sti"}
    /\ pic.base = "kernel" => pic.isr \subseteq Unhandled

(***************************************************************************)
(* A full output buffer of the keyboard controller always has an interrupt *)
(* on the way that will empty it, unless the buffer was full when          *)
(* PIC_remap reset the edge detection.  It would be lost if the handler    *)
(* left before it read the scan code, or if anything cleared the request.  *)
(***************************************************************************)
FullBufferSignalled ==
  kbd /\ pic.base = "kernel" /\ ~ stuck =>
    Keyboard \in pic.irr \/ handler.at \in {"puts", "scan"}

(***************************************************************************)
(* The clock counts every tick that could be latched: since init_PIT, each *)
(* tick has been counted, is pending, or came while an earlier one was     *)
(* still latched.  So the clock may lag and never runs ahead.              *)
(***************************************************************************)
TicksAccounted ==
  counting /\ ticks < ClockCap =>
    ms_count + missed + Pending
      + (IF Timer \in pic.irr /\ handler.at = "count" THEN 1 ELSE 0) = ticks

(***************************************************************************)
(* On the serial line, what the thread writes arrives complete and in      *)
(* order, and a keyboard message is never broken up, although kputc writes *)
(* on the strength of a look at the line status that a handler may have    *)
(* outdated.  It takes a FIFO of at least two characters.                  *)
(***************************************************************************)
LogIntact ==
  uart.mode = "normal" =>
    LET out == wire \o uart.tx
        own == {i \in DOMAIN out : out[i][1] # "key"}
    IN  /\ Cardinality(own) = Len(said)
        /\ \A i \in own : out[i] = said[Cardinality({j \in own : j <= i})]
        /\ \A i \in 1 .. Len(out) - 1 :
             out[i][1] = "key" /\ out[i][2] < KeyLength =>
               out[i + 1] = <<"key", out[i][2] + 1>>

(***************************************************************************)
(* Every character typed at the serial line has been written back once and *)
(* in its turn, is in the thread's hands or in the receiver, or found the  *)
(* receiver full: with one look per interrupt, the FIFO can overflow.      *)
(***************************************************************************)
TypedAccounted ==
  uart.mode = "normal" =>
    LET all == said \o text \o uart.rx
        seen == {i \in DOMAIN all : all[i][1] = "typed"}
    IN  /\ {all[i][2] : i \in seen} = (1 .. typed) \ dropped
        /\ \A i, j \in seen : i < j => all[i][2] < all[j][2]

(***************************************************************************)
(* What serial.c says of init_serial: a port stays in loopback mode only   *)
(* if it did not return the test byte ("Check if serial is faulty (i.e:    *)
(* not same byte as sent)").  It does not hold: the byte is read at once,  *)
(* and a port that takes its time to return it is left in loopback mode.   *)
(***************************************************************************)
LoopbackOnlyIfFaulty ==
  uart.mode = "loopback" => \A i \in DOMAIN uart.rx : uart.rx[i] # TestByte

(***************************************************************************)
(* The two reads of a time stamp may be split by a tick.  If both fall in  *)
(* one second, the stamp is a time between them; otherwise it may be       *)
(* before the first or after the second, by less than a second.            *)
(***************************************************************************)
StampTimely ==
  [][SecondRead =>
       LET time == stamp'.sec * Second + stamp'.ms
           early == IF Seconds(stamp.from) = Seconds(ms_count) THEN 0 ELSE Second - 1
       IN  counting /\ stamp.from <= ms_count =>
             stamp.from - early <= time /\ time <= ms_count + early]_vars

(***************************************************************************)
(* The kernel reaches its echo loop whatever the state of the serial port  *)
(* and of the firmware's masks and keyboard, unless an interrupt finds     *)
(* nowhere to go; a tick that comes between the look at the clock and the  *)
(* hlt is slept over, and the next one wakes the thread.                   *)
(***************************************************************************)
BootFinishes == (pc = "init_serial") ~> (pc = "echo_hlt" \/ stray)

\* Every key whose interrupt was not lost to PIC_remap is read, unless an interrupt
\* finds nowhere to go before interrupts are turned off.
KeyServed == (kbd /\ pic.base = "kernel" /\ ~ stuck) ~> (stray \/ ~ kbd)

\* Every character the receiver holds is sent back, also one that came between
\* the look at the receiver and the hlt.
TypedEchoed ==
  \A n \in 1 .. MaxTyped :
    (\E i \in DOMAIN uart.rx : uart.rx[i] = <<"typed", n>>)
      ~> (stray \/ \E i \in DOMAIN wire : wire[i] = <<"typed", n>>)

=============================================================================
