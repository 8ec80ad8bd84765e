------------------------- MODULE KernelThreadProofs -------------------------
(***************************************************************************)
(* What interrupts can and cannot do to the thread, for every number of    *)
(* log lines, keys and ticks, every state of the firmware's controllers,   *)
(* any device on any line and every serial port.                           *)
(***************************************************************************)
EXTENDS KernelThread, TLAPS, FiniteSetTheorems

\* What the interrupts are about; the log and the serial port are not.
interruptState == <<a1, a2, IF_flag, gdt, idt, handler, ms_count, pic, kbd, ticks, missed,
                    counting, stuck, entered, stray>>

Groups == {"gdt", "idt", "wait", "echo"}

TypeInv ==
  /\ pic \in Pic /\ a1 \subseteq Line /\ a2 \in BOOLEAN
  /\ gdt \in {"firmware", "kernel"} /\ idt \in {"firmware", "kernel"}
  /\ "at" \in DOMAIN handler
  /\ handler.at \in {"none", "count", "puts", "scan", "eoi", "iret"}
  /\ IF_flag \in BOOLEAN /\ kbd \in BOOLEAN /\ counting \in BOOLEAN
  /\ stuck \in BOOLEAN /\ entered \in BOOLEAN /\ stray \in BOOLEAN
  /\ ms_count \in Nat /\ ticks \in Nat /\ missed \in Nat
  /\ after \in Groups

(***************************************************************************)
(* The tables are loaded before the controllers are programmed, and pc and *)
(* after tell how far all three are.  Before the thread's sti, the lines   *)
(* without a handler are masked, for good.                                 *)
(***************************************************************************)
Programming == {"master_mask", "slave_mask", "reset_clock", "cli", "unmask", "sti"}
Waiting == {"wait_test", "wait_hlt", "wait_halted"}

PhaseInv ==
  /\ gdt = "kernel" <=> after # "gdt"
  /\ gdt = "firmware" => idt = "firmware"
  /\ idt = "firmware" => pic.base = "firmware"
  /\ pc = "remap" <=> idt = "kernel" /\ pic.base = "firmware"
  /\ pc \in {"init_serial", "set_gdt"} => after = "gdt"
  /\ pc = "set_idt" => idt = "firmware"
  /\ pc \in {"set_idt", "remap"} \cup Programming => after = "idt"
  /\ idt = "kernel" /\ after = "idt" => pc \in Programming \cup {"remap"}
  /\ pc \in Programming => pic.base = "kernel"
  /\ pc \in Waiting => after \in {"wait", "echo"}
  /\ after \in {"wait", "echo"} => idt = "kernel"
  /\ after \in {"wait", "echo"} \/ pc = "sti" => Unhandled \subseteq pic.imr

(***************************************************************************)
(* Until init_PIT nothing has touched the interrupt flag but handlers that *)
(* give it back; from its cli to sti interrupts are off.  Before PIC_remap *)
(* no handler of the kernel has run and the clock does not count.          *)
(***************************************************************************)
EarlyInv ==
  /\ after \in {"gdt", "idt"} /\ (IF_flag \/ handler.at # "none") => entered
  /\ pc \in {"unmask", "sti"} => ~ IF_flag /\ handler.at = "none"

FirmwareInv == pic.base = "firmware" => handler.at = "none" /\ ~ counting

\* InterruptsBalanced, with the line an end of interrupt ends.
ServiceInv ==
  /\ handler.at # "none" => ~ IF_flag /\ ~ stray
  /\ ~ stray =>
       /\ handler.at \in {"none", "iret"} => pic.isr = {}
       /\ handler.at = "count" => pic.isr = {Timer}
       /\ handler.at \in {"puts", "scan"} => pic.isr = {Keyboard}
       /\ handler.at = "eoi" => pic.isr = {Timer} \/ pic.isr = {Keyboard}

Inv ==
  /\ TypeInv /\ PhaseInv /\ EarlyInv /\ FirmwareInv /\ ServiceInv
  /\ StrayOnlyBeforeCli /\ FullBufferSignalled /\ TicksAccounted

-----------------------------------------------------------------------------
LEMMA InitInv == Init => Inv
<1> SUFFICES ASSUME Init PROVE Inv
  OBVIOUS
<1>1. /\ gdt = "firmware" /\ idt = "firmware" /\ handler = Idle
      /\ pc = "init_serial" /\ after = "gdt" /\ a1 = {} /\ a2 = FALSE
      /\ IF_flag = entered /\ entered \in BOOLEAN /\ kbd \in BOOLEAN
      /\ ms_count \in Nat /\ ticks = 0 /\ missed = 0
      /\ counting = FALSE /\ stuck = FALSE /\ stray = FALSE
  BY ThreadAssumption DEF Init
<1>2. PICK masks \in SUBSET Wired, latched \in SUBSET Wired, closed \in BOOLEAN :
        pic = [irr |-> latched, isr |-> {}, imr |-> masks, slave |-> closed,
               base |-> "firmware"]
  BY DEF Init
<1>3. pic \in Pic /\ pic.base = "firmware" /\ pic.isr = {}
  BY <1>2, ThreadAssumption DEF Pic
<1>4. "at" \in DOMAIN handler /\ handler.at = "none"
  BY <1>1 DEF Idle
<1>5. TypeInv BY <1>1, <1>3, <1>4 DEF TypeInv, Groups
<1>6. PhaseInv BY <1>1, <1>3 DEF PhaseInv, Programming, Waiting
<1>7. EarlyInv /\ FirmwareInv /\ ServiceInv
  BY <1>1, <1>3, <1>4 DEF EarlyInv, FirmwareInv, ServiceInv
<1>8. StrayOnlyBeforeCli /\ FullBufferSignalled /\ TicksAccounted
  BY <1>1, <1>3 DEF StrayOnlyBeforeCli, FullBufferSignalled, TicksAccounted
<1> QED BY <1>5, <1>6, <1>7, <1>8 DEF Inv

\* Steps that change nothing of this only have to keep pc in its phase.
LEMMA QuietStep ==
  ASSUME Inv, UNCHANGED interruptState, after' \in Groups, PhaseInv', EarlyInv',
         stray => UNCHANGED <<pc, after>>
  PROVE  Inv'
<1> USE DEF interruptState
<1>1. TypeInv' BY DEF Inv, TypeInv
<1>2. FirmwareInv' /\ ServiceInv' BY DEF Inv, FirmwareInv, ServiceInv
<1>3. StrayOnlyBeforeCli' BY DEF Inv, StrayOnlyBeforeCli
<1>4. FullBufferSignalled' /\ TicksAccounted'
  BY DEF Inv, FullBufferSignalled, TicksAccounted, Pending
<1> QED BY <1>1, <1>2, <1>3, <1>4 DEF Inv

\* The thread's steps between the accesses to clock and controllers.
LEMMA LogKeepsInv ==
  ASSUME Inv,
         \/ InitSerial \/ SecondRead \/ Poll \/ WriteChar \/ LogDone
         \/ \E order \in {"seconds first", "ms first"} : FirstRead(order)
         \/ WaitTest \/ Halt \/ EchoTest \/ ReadSerial
  PROVE  Inv'
<1> USE DEF interruptState, At, machine, history
<1>1. UNCHANGED interruptState /\ ~ stray
  BY DEF InitSerial, SecondRead, Poll, WriteChar, LogDone, FirstRead, WaitTest, Halt,
         EchoTest, ReadSerial
<1>2. after \in Groups /\ PhaseInv /\ EarlyInv BY DEF Inv, TypeInv
<1>3. /\ after' \in Groups /\ PhaseInv'
      /\ after' \in {"gdt", "idt"} => after \in {"gdt", "idt"}
      /\ pc' \notin {"unmask", "sti"}
  <2> USE <1>1, <1>2 DEF PhaseInv, Programming, Waiting, Groups
  <2>1. CASE InitSerial BY <2>1 DEF InitSerial, LogGroup
  <2>2. CASE SecondRead BY <2>2 DEF SecondRead
  <2>3. CASE Poll BY <2>3 DEF Poll
  <2>4. CASE WriteChar BY <2>4 DEF WriteChar
  <2>5. CASE LogDone
    <3>1. \/ after = "gdt" /\ pc' = "set_gdt"
          \/ after = "idt" /\ pc' = "set_idt"
          \/ after = "wait" /\ pc' = "wait_test"
          \/ after = "echo" /\ pc' = "echo_hlt"
      BY <2>5 DEF LogDone
    <3>2. UNCHANGED <<after, gdt, idt, pic>> /\ pc = "log" BY <2>5 DEF LogDone
    <3>3. idt \in {"firmware", "kernel"} BY DEF Inv, TypeInv
    <3> QED BY <3>1, <3>2, <3>3
  <2>6. CASE \E order \in {"seconds first", "ms first"} : FirstRead(order)
    BY <2>6 DEF FirstRead
  <2>7. CASE WaitTest BY <2>7 DEF WaitTest, LogGroup
  <2>8. CASE Halt \/ EchoTest BY <2>8 DEF Halt, EchoTest
  <2>9. CASE ReadSerial BY <2>9 DEF ReadSerial
  <2> QED BY <2>1, <2>2, <2>3, <2>4, <2>5, <2>6, <2>7, <2>8, <2>9
<1>4. EarlyInv' BY <1>1, <1>2, <1>3 DEF EarlyInv
<1> QED BY <1>1, <1>3, <1>4, QuietStep

-----------------------------------------------------------------------------
(* init_gdt and init_idt.                                                  *)

LEMMA SetGdtKeepsInv == Inv /\ SetGdt => Inv'
<1> SUFFICES ASSUME Inv, SetGdt PROVE Inv'
  OBVIOUS
<1> USE DEF SetGdt, At, history, LogGroup
<1>1. TypeInv' BY DEF Inv, TypeInv, Groups
<1>2. PhaseInv'
  <2>1. gdt = "firmware" /\ idt = "firmware" BY DEF Inv, TypeInv, PhaseInv
  <2> QED BY <2>1 DEF Inv, PhaseInv, Programming, Waiting
<1>3. EarlyInv' BY DEF Inv, PhaseInv, EarlyInv
<1>4. FirmwareInv' /\ ServiceInv' BY DEF Inv, FirmwareInv, ServiceInv
<1>5. StrayOnlyBeforeCli' BY DEF Inv, StrayOnlyBeforeCli
<1>6. FullBufferSignalled' /\ TicksAccounted'
  BY DEF Inv, FullBufferSignalled, TicksAccounted, Pending
<1> QED BY <1>1, <1>2, <1>3, <1>4, <1>5, <1>6 DEF Inv

LEMMA SetIdtKeepsInv == Inv /\ SetIdt => Inv'
<1> SUFFICES ASSUME Inv, SetIdt PROVE Inv'
  OBVIOUS
<1> USE DEF SetIdt, At, history
<1>1. TypeInv' BY DEF Inv, TypeInv
<1>2. PhaseInv' BY DEF Inv, PhaseInv, Programming, Waiting
<1>3. EarlyInv' BY DEF Inv, EarlyInv
<1>4. FirmwareInv' /\ ServiceInv' BY DEF Inv, FirmwareInv, ServiceInv
<1>5. StrayOnlyBeforeCli' BY DEF Inv, StrayOnlyBeforeCli
<1>6. FullBufferSignalled' /\ TicksAccounted'
  BY DEF Inv, FullBufferSignalled, TicksAccounted, Pending
<1> QED BY <1>1, <1>2, <1>3, <1>4, <1>5, <1>6 DEF Inv

LEMMA RemapKeepsInv == Inv /\ Remap => Inv'
<1> SUFFICES ASSUME Inv, Remap PROVE Inv'
  OBVIOUS
<1> USE DEF Remap, At
<1>1. pic \in Pic /\ idt = "kernel" /\ pic.base = "firmware" /\ after = "idt"
  BY DEF Inv, TypeInv, PhaseInv
<1>2. /\ pic' \in Pic /\ pic'.base = "kernel" /\ pic'.isr = {}
      /\ a1' \subseteq Line /\ a2' \in BOOLEAN
  BY <1>1 DEF Pic, PIC_remap
<1>3. ~ counting' /\ handler'.at = "none"
  BY <1>1 DEF Inv, FirmwareInv
<1>4. TypeInv' BY <1>2 DEF Inv, TypeInv
<1>5. PhaseInv' BY <1>1, <1>2 DEF Inv, PhaseInv, Programming, Waiting
<1>6. EarlyInv' BY DEF Inv, EarlyInv
<1>7. FirmwareInv' /\ ServiceInv' BY <1>2, <1>3 DEF FirmwareInv, ServiceInv
<1>8. StrayOnlyBeforeCli' BY DEF StrayOnlyBeforeCli
<1>9. FullBufferSignalled' BY DEF FullBufferSignalled
<1>10. TicksAccounted' BY <1>3 DEF TicksAccounted
<1> QED BY <1>4, <1>5, <1>6, <1>7, <1>8, <1>9, <1>10 DEF Inv

\* The masks say which requests are presented; those of timer and keyboard stay latched.
LEMMA MasksKeepInv ==
  ASSUME Inv, RestoreMaster \/ RestoreSlave \/ Unmask
  PROVE  Inv'
<1>1. PICK r \in SUBSET Line, m \in SUBSET Line, c \in BOOLEAN :
        /\ pic' = [pic EXCEPT !.irr = r, !.imr = m, !.slave = c]
        /\ Timer \in r <=> Timer \in pic.irr
        /\ Keyboard \in r <=> Keyboard \in pic.irr
  <2>1. pic \in Pic /\ a1 \subseteq Line /\ a2 \in BOOLEAN BY DEF Inv, TypeInv
  <2>2. CASE RestoreMaster
    <3>1. pic' = [pic EXCEPT !.irr = pic.irr, !.imr = a1, !.slave = pic.slave]
      BY <2>1, <2>2 DEF RestoreMaster, Pic
    <3> QED BY <2>1, <3>1 DEF Pic
  <2>3. CASE RestoreSlave
    <3>1. pic' = [pic EXCEPT !.irr = pic.irr, !.imr = pic.imr, !.slave = a2]
      BY <2>1, <2>3 DEF RestoreSlave, Pic
    <3> QED BY <2>1, <3>1 DEF Pic
  <2>4. CASE Unmask
    <3>1. Unhandled \in SUBSET Line /\ pic.irr \ Unhandled \in SUBSET Line
      BY <2>1 DEF Line, Pic
    <3>2. Timer \notin Unhandled /\ Keyboard \notin Unhandled
      BY DEF Unhandled, Timer, Keyboard, Cascade, Other
    <3>3. pic' = [pic EXCEPT !.irr = pic.irr \ Unhandled, !.imr = Unhandled, !.slave = TRUE]
      BY <2>1, <2>4 DEF Unmask
    <3> QED BY <3>1, <3>2, <3>3
  <2> QED BY <2>2, <2>3, <2>4
<1>2. /\ pic' \in Pic /\ pic'.base = pic.base /\ pic'.isr = pic.isr
      /\ Timer \in pic'.irr <=> Timer \in pic.irr
      /\ Keyboard \in pic'.irr <=> Keyboard \in pic.irr
  BY <1>1 DEF Inv, TypeInv, Pic
<1>3. /\ UNCHANGED <<IF_flag, gdt, idt, handler, ms_count, kbd, ticks, missed, counting,
                     stuck, entered, stray, after>>
      /\ a1' \in {a1, {}} /\ a2' \in {a2, FALSE}
      /\ pc \in Programming /\ pc' \in Programming /\ ~ stray
      /\ pc' = "sti" => pc = "unmask" /\ Unhandled \subseteq pic'.imr
      /\ pc' # "unmask"
  <2>1. pic \in Pic BY DEF Inv, TypeInv
  <2> QED BY <2>1 DEF RestoreMaster, RestoreSlave, Unmask, At, history, Programming, Pic
<1>4. TypeInv' BY <1>2, <1>3 DEF Inv, TypeInv
<1>5. after = "idt" BY <1>3 DEF Inv, PhaseInv
<1>6. PhaseInv' BY <1>2, <1>3, <1>5 DEF Inv, PhaseInv, Programming, Waiting
<1>7. EarlyInv' BY <1>3 DEF Inv, EarlyInv
<1>8. FirmwareInv' /\ ServiceInv' BY <1>2, <1>3 DEF Inv, FirmwareInv, ServiceInv
<1>9. StrayOnlyBeforeCli' BY <1>3 DEF StrayOnlyBeforeCli
<1>10. FullBufferSignalled' /\ TicksAccounted'
  BY <1>2, <1>3 DEF Inv, FullBufferSignalled, TicksAccounted, Pending
<1> QED BY <1>4, <1>6, <1>7, <1>8, <1>9, <1>10 DEF Inv

\* From here on a tick counts if it is latched, and none is being counted.
LEMMA ResetClockKeepsInv == Inv /\ ResetClock => Inv'
<1> SUFFICES ASSUME Inv, ResetClock PROVE Inv'
  OBVIOUS
<1> USE DEF ResetClock, At
<1>1. Pending \in Nat BY DEF Pending
<1>2. TypeInv' BY <1>1 DEF Inv, TypeInv
<1>3. PhaseInv' BY DEF Inv, PhaseInv, Programming, Waiting
<1>4. EarlyInv' /\ FirmwareInv' /\ ServiceInv'
  BY DEF Inv, PhaseInv, Programming, EarlyInv, FirmwareInv, ServiceInv
<1>5. StrayOnlyBeforeCli' BY DEF StrayOnlyBeforeCli
<1>6. FullBufferSignalled' BY DEF Inv, FullBufferSignalled
<1>7. TicksAccounted'
  <2>1. ms_count' = 0 /\ missed' = 0 /\ ticks' = Pending /\ Pending' = Pending
        /\ handler'.at # "count"
    BY DEF Pending
  <2> QED BY <1>1, <2>1 DEF TicksAccounted
<1> QED BY <1>2, <1>3, <1>4, <1>5, <1>6, <1>7 DEF Inv

\* cli and sti: no handler is running.
LEMMA FlagKeepsInv == Inv /\ (ClearInterrupts \/ EnableInterrupts) => Inv'
<1> SUFFICES ASSUME Inv, ClearInterrupts \/ EnableInterrupts PROVE Inv'
  OBVIOUS
<1>1. /\ UNCHANGED <<a1, a2, gdt, idt, handler, ms_count, pic, kbd, ticks, missed, counting,
                     stuck, entered, stray>>
      /\ pc \in {"cli", "sti"} /\ ~ stray /\ handler.at = "none"
      /\ IF_flag' \in BOOLEAN
  BY DEF ClearInterrupts, EnableInterrupts, At, history, LogGroup
<1>2. \/ pc = "cli" /\ pc' = "unmask" /\ after' = after /\ IF_flag' = FALSE
      \/ pc = "sti" /\ pc' = "log" /\ after' = "wait"
  BY DEF ClearInterrupts, EnableInterrupts, LogGroup, At
<1>3. TypeInv' BY <1>1, <1>2 DEF Inv, TypeInv, Groups
<1>4. PhaseInv'
  <2>1. PhaseInv /\ gdt \in {"firmware", "kernel"} /\ idt \in {"firmware", "kernel"}
    BY DEF Inv, TypeInv
  <2> QED BY <1>1, <1>2, <2>1 DEF PhaseInv, Programming, Waiting
<1>5. EarlyInv' BY <1>1, <1>2 DEF EarlyInv
<1>6. FirmwareInv' /\ ServiceInv'
  BY <1>1 DEF Inv, PhaseInv, Programming, FirmwareInv, ServiceInv
<1>7. StrayOnlyBeforeCli' BY <1>1 DEF StrayOnlyBeforeCli
<1>8. FullBufferSignalled' /\ TicksAccounted'
  BY <1>1 DEF Inv, FullBufferSignalled, TicksAccounted, Pending
<1> QED BY <1>3, <1>4, <1>5, <1>6, <1>7, <1>8 DEF Inv

-----------------------------------------------------------------------------
(* Interrupts.                                                             *)

\* What PhaseInv says depends on six variables.
LEMMA PhaseKept ==
  ASSUME PhaseInv, UNCHANGED <<gdt, idt, after>>,
         pic'.base = pic.base, pic'.imr = pic.imr,
         \/ UNCHANGED pc
         \/ pc = "wait_halted" /\ pc' = "wait_test"
         \/ pc = "echo_halted" /\ pc' = "echo_test"
  PROVE  PhaseInv'
BY DEF PhaseInv, Programming, Waiting

LEMMA AcknowledgeKeeps ==
  ASSUME NEW l \in Line, NEW p \in Pic
  PROVE  /\ Acknowledge(p, l) \in Pic
         /\ Acknowledge(p, l).base = p.base /\ Acknowledge(p, l).imr = p.imr
         /\ Acknowledge(p, l).irr = p.irr \ {l}
         /\ Acknowledge(p, l).isr = p.isr \cup {l}
BY DEF Acknowledge, Pic

\* Interrupts are on, so no handler runs and no line is in service.
LEMMA DeliverKeepsInv ==
  ASSUME Inv, NEW l \in Line, Deliver(l)
  PROVE  Inv'
<1>1. /\ UNCHANGED <<a1, a2, after, gdt, idt, ms_count, kbd, ticks, missed, counting, stuck,
                     entered, stray>>
      /\ IF_flag /\ IF_flag' = FALSE /\ ~ stray /\ l \in pic.irr
      /\ idt = "kernel" /\ pic.base = "kernel" /\ l \notin Unhandled
  BY DEF Deliver, Taken, history, Presents
<1>2. pic \in Pic /\ handler.at = "none" /\ pic.isr = {}
  BY <1>1 DEF Inv, TypeInv, ServiceInv
<1>3. /\ pic' \in Pic /\ pic'.base = "kernel" /\ pic'.imr = pic.imr
      /\ pic'.irr = pic.irr \ {l} /\ pic'.isr = {l}
  BY <1>1, <1>2, AcknowledgeKeeps DEF Deliver
<1>4. /\ "at" \in DOMAIN handler'
      /\ l = Timer => handler'.at = "count"
      /\ l = Keyboard => handler'.at = "puts"
  BY DEF Deliver, Timer, Keyboard
<1>5. l = Timer \/ l = Keyboard BY <1>1 DEF Line
<1>6. TypeInv' BY <1>1, <1>3, <1>4, <1>5 DEF Inv, TypeInv
<1>7. \/ UNCHANGED pc
      \/ pc = "wait_halted" /\ pc' = "wait_test"
      \/ pc = "echo_halted" /\ pc' = "echo_test"
  BY DEF Deliver, Woken
<1>8. PhaseInv' BY <1>1, <1>3, <1>7, PhaseKept DEF Inv
<1>9. EarlyInv' BY <1>1, <1>2, <1>7 DEF Inv, EarlyInv
<1>10. FirmwareInv' BY <1>3 DEF FirmwareInv
<1>11. ServiceInv' BY <1>1, <1>3, <1>4, <1>5 DEF ServiceInv
<1>12. StrayOnlyBeforeCli' BY <1>1 DEF StrayOnlyBeforeCli
<1>13. FullBufferSignalled'
  BY <1>1, <1>2, <1>3, <1>4, <1>5 DEF Inv, FullBufferSignalled, Timer, Keyboard
<1>14. TicksAccounted'
  BY <1>1, <1>2, <1>3, <1>4, <1>5 DEF Inv, TicksAccounted, Pending, Timer, Keyboard
<1> QED BY <1>6, <1>8, <1>9, <1>10, <1>11, <1>12, <1>13, <1>14 DEF Inv

LEMMA FirmwareKeepsInv ==
  ASSUME Inv, NEW l \in Line, FirmwareInterrupt(l)
  PROVE  Inv'
<1>1. /\ UNCHANGED <<a1, a2, pc, after, IF_flag, gdt, idt, handler, ms_count, ticks, missed,
                     counting, stuck, entered, stray>>
      /\ kbd' \in {kbd, FALSE} /\ ~ stray /\ pic.base = "firmware"
  BY DEF FirmwareInterrupt, Taken, thread, history
<1>2. pic \in Pic /\ kbd \in BOOLEAN BY DEF Inv, TypeInv
<1>3. /\ pic' \in Pic /\ pic'.base = pic.base /\ pic'.isr = pic.isr
      /\ pic'.imr = pic.imr
  BY <1>2 DEF FirmwareInterrupt, Pic
<1>4. TypeInv' BY <1>1, <1>2, <1>3 DEF Inv, TypeInv
<1>5. PhaseInv' BY <1>1, <1>3, PhaseKept DEF Inv
<1>6. EarlyInv' BY <1>1 DEF Inv, EarlyInv
<1>7. FirmwareInv' /\ ServiceInv' BY <1>1, <1>3 DEF Inv, FirmwareInv, ServiceInv
<1>8. StrayOnlyBeforeCli' BY <1>1 DEF StrayOnlyBeforeCli
<1>9. FullBufferSignalled' BY <1>1, <1>3 DEF FullBufferSignalled
<1>10. TicksAccounted' BY <1>1 DEF Inv, FirmwareInv, TicksAccounted
<1> QED BY <1>4, <1>5, <1>6, <1>7, <1>8, <1>9, <1>10 DEF Inv

(***************************************************************************)
(* Interrupts are on, so the kernel was entered with them on unless it has *)
(* turned them on; then the line is masked.  PhaseInv says where the       *)
(* thread is, and that after PIC_remap the line is one without a handler.  *)
(***************************************************************************)
LEMMA StrayKeepsInv ==
  ASSUME Inv, NEW l \in Line, StrayInterrupt(l)
  PROVE  Inv'
<1>1. /\ UNCHANGED <<a1, a2, pc, after, IF_flag, gdt, idt, handler, ms_count, kbd, ticks,
                     missed, counting, stuck, entered>>
      /\ IF_flag /\ ~ stray /\ stray' = TRUE /\ l \in pic.irr \ Masked(pic)
      /\ \/ idt = "kernel" /\ (pic.base = "firmware" \/ l \in Unhandled)
         \/ idt = "firmware" /\ gdt = "kernel"
  BY DEF StrayInterrupt, Taken, Presents, thread
<1>2. pic \in Pic /\ handler.at = "none" /\ pic.isr = {}
  BY <1>1 DEF Inv, TypeInv, ServiceInv
<1>3. /\ pic' \in Pic /\ pic'.base = pic.base /\ pic'.imr = pic.imr
      /\ pic'.irr = pic.irr \ {l} /\ pic'.isr = {l}
  BY <1>2, AcknowledgeKeeps DEF StrayInterrupt
<1>4. gdt = "kernel" BY <1>1 DEF Inv, TypeInv, PhaseInv
<1>5. pic.base \in {"firmware", "kernel"} BY <1>2 DEF Pic
<1>6. pic.base = "kernel" => l \in Unhandled BY <1>1, <1>5 DEF Inv, PhaseInv
<1>7. after = "idt"
  <2>1. l \notin pic.imr BY <1>1 DEF Masked
  <2>2. after \in Groups /\ PhaseInv BY DEF Inv, TypeInv
  <2>3. pic.base = "firmware" => idt = "firmware" \/ pc = "remap"
    BY <2>2, <1>1 DEF PhaseInv
  <2>4. CASE pic.base = "kernel" BY <1>4, <1>6, <2>1, <2>2, <2>4 DEF PhaseInv, Groups
  <2>5. CASE pic.base = "firmware" BY <1>4, <2>2, <2>3, <2>5 DEF PhaseInv, Groups
  <2> QED BY <1>5, <2>4, <2>5
<1>8. entered /\ pc \notin {"unmask", "sti"} BY <1>1, <1>7 DEF Inv, EarlyInv
<1>9. TypeInv' BY <1>1, <1>3 DEF Inv, TypeInv
<1>10. PhaseInv' BY <1>1, <1>3, PhaseKept DEF Inv
<1>11. EarlyInv' BY <1>1 DEF Inv, EarlyInv
<1>12. FirmwareInv' /\ ServiceInv' BY <1>1, <1>2, <1>3 DEF Inv, FirmwareInv, ServiceInv
<1>13. StrayOnlyBeforeCli' BY <1>1, <1>3, <1>4, <1>6, <1>7, <1>8 DEF StrayOnlyBeforeCli
<1>14. l \in Unhandled => l # Keyboard /\ l # Timer
  BY DEF Unhandled, Cascade, Other, Keyboard, Timer
<1>15. FullBufferSignalled'
  BY <1>1, <1>3, <1>6, <1>14 DEF Inv, FullBufferSignalled
<1>16. TicksAccounted'
  <2>1. CASE pic.base = "firmware" BY <1>1, <2>1 DEF Inv, FirmwareInv, TicksAccounted
  <2>2. CASE pic.base = "kernel"
    <3>1. Timer \in pic'.irr <=> Timer \in pic.irr BY <1>3, <1>6, <1>14, <2>2
    <3> QED BY <1>1, <3>1 DEF Inv, TicksAccounted, Pending
  <2> QED BY <1>5, <2>1, <2>2
<1> QED BY <1>9, <1>10, <1>11, <1>12, <1>13, <1>15, <1>16 DEF Inv

-----------------------------------------------------------------------------
(* The handlers.  One that runs has been entered through a gate, so the    *)
(* controllers send the kernel's vectors.                                  *)

LEMMA HandlerRuns ==
  ASSUME Inv, handler.at # "none"
  PROVE  pic.base = "kernel" /\ ~ stray
BY DEF Inv, TypeInv, FirmwareInv, ServiceInv, Pic

\* A handler step that leaves clock and controllers alone, other than the first
\* step of the timer's.
LEMMA HandlerKeepsInv ==
  ASSUME Inv,
         UNCHANGED <<a1, a2, pc, after, IF_flag, gdt, idt, ms_count, pic, ticks, missed,
                     counting, stuck, entered, stray>>,
         "at" \in DOMAIN handler',
         \/ handler.at = "puts" /\ handler'.at \in {"puts", "scan"} /\ UNCHANGED kbd
         \/ handler.at = "scan" /\ handler'.at = "eoi" /\ kbd' = FALSE
  PROVE  Inv'
<1>1. pic.base = "kernel" /\ ~ stray BY HandlerRuns
<1>2. TypeInv' BY DEF Inv, TypeInv
<1>3. PhaseInv' BY PhaseKept DEF Inv
<1>4. EarlyInv' BY DEF Inv, EarlyInv
<1>5. FirmwareInv' BY <1>1 DEF FirmwareInv
<1>6. ServiceInv' BY <1>1 DEF Inv, ServiceInv
<1>7. StrayOnlyBeforeCli' BY <1>1 DEF StrayOnlyBeforeCli
<1>8. FullBufferSignalled' BY DEF Inv, FullBufferSignalled
<1>9. TicksAccounted' BY DEF Inv, TicksAccounted, Pending
<1> QED BY <1>2, <1>3, <1>4, <1>5, <1>6, <1>7, <1>8, <1>9 DEF Inv

LEMMA KeyboardHandlerKeepsInv == Inv /\ (KeyPut \/ ReadScancode) => Inv'
<1> SUFFICES ASSUME Inv, KeyPut \/ ReadScancode PROVE Inv'
  OBVIOUS
<1>1. UNCHANGED <<a1, a2, pc, after, IF_flag, gdt, idt, ms_count, pic, ticks, missed,
                  counting, stuck, entered, stray>>
  BY DEF KeyPut, ReadScancode, thread, history
<1>2. "at" \in DOMAIN handler BY DEF Inv, TypeInv
<1>3. CASE KeyPut
  <2>1. "at" \in DOMAIN handler' /\ handler'.at \in {"puts", "scan"}
    BY <1>3 DEF KeyPut
  <2>2. handler.at = "puts" /\ UNCHANGED kbd BY <1>3 DEF KeyPut
  <2> QED BY <1>1, <2>1, <2>2, HandlerKeepsInv
<1>4. CASE ReadScancode
  <2>1. "at" \in DOMAIN handler' /\ handler'.at = "eoi"
    BY <1>2, <1>4 DEF ReadScancode
  <2>2. handler.at = "scan" /\ kbd' = FALSE BY <1>4 DEF ReadScancode
  <2> QED BY <1>1, <2>1, <2>2, HandlerKeepsInv
<1> QED BY <1>3, <1>4

\* The clock has room for the tick as long as the ticks are told apart.
LEMMA CountTickKeepsInv == Inv /\ CountTick => Inv'
<1> SUFFICES ASSUME Inv, CountTick PROVE Inv'
  OBVIOUS
<1>1. /\ UNCHANGED <<a1, a2, pc, after, IF_flag, gdt, idt, pic, kbd, ticks, missed,
                     counting, stuck, entered, stray>>
      /\ handler.at = "count" /\ ms_count' = Bump(ms_count)
  BY DEF CountTick, thread, history
<1>2. "at" \in DOMAIN handler' /\ handler'.at = "eoi"
  BY DEF CountTick, Inv, TypeInv
<1>3. pic.base = "kernel" /\ ~ stray BY <1>1, HandlerRuns
<1>4. ms_count \in Nat /\ missed \in Nat /\ ticks \in Nat BY DEF Inv, TypeInv
<1>5. ms_count' \in Nat BY <1>1, <1>4 DEF Bump
<1>6. TypeInv' BY <1>1, <1>2, <1>5 DEF Inv, TypeInv
<1>7. PhaseInv' BY <1>1, PhaseKept DEF Inv
<1>8. FirmwareInv' BY <1>1, <1>3 DEF FirmwareInv
<1>9. ServiceInv' BY <1>1, <1>2, <1>3 DEF Inv, ServiceInv
<1>10. StrayOnlyBeforeCli' BY <1>1, <1>3 DEF StrayOnlyBeforeCli
<1>11. FullBufferSignalled' BY <1>1, <1>2 DEF Inv, FullBufferSignalled
<1>12. TicksAccounted'
  <2> SUFFICES ASSUME counting, ticks < ClockCap PROVE TicksAccounted'
    BY <1>1 DEF TicksAccounted
  <2>1. ms_count + missed + 1 + (IF Timer \in pic.irr THEN 1 ELSE 0) = ticks
    BY <1>1 DEF Inv, TicksAccounted, Pending
  <2>2. ms_count' = ms_count + 1
    BY <1>1, <1>4, <2>1, ThreadAssumption DEF Bump
  <2>3. Pending' = (IF Timer \in pic.irr THEN 1 ELSE 0)
    BY <1>1, <1>2 DEF Pending
  <2> QED BY <1>1, <1>2, <1>4, <2>1, <2>2, <2>3 DEF TicksAccounted
<1>13. EarlyInv' BY <1>1, <1>2 DEF Inv, EarlyInv
<1> QED BY <1>6, <1>7, <1>8, <1>9, <1>10, <1>11, <1>12, <1>13 DEF Inv

\* Only one line is in service, so the end of interrupt is its own.
LEMMA SendEOIKeepsInv == Inv /\ SendEOI => Inv'
<1> SUFFICES ASSUME Inv, SendEOI PROVE Inv'
  OBVIOUS
<1>1. /\ UNCHANGED <<a1, a2, pc, after, IF_flag, gdt, idt, ms_count, kbd, ticks, missed,
                     counting, stuck, entered, stray>>
      /\ handler.at = "eoi" /\ pic' = PIC_sendEOI(pic)
  BY DEF SendEOI, thread, history
<1>2. "at" \in DOMAIN handler' /\ handler'.at = "iret"
  BY DEF SendEOI, Inv, TypeInv
<1>3. pic.base = "kernel" /\ ~ stray /\ pic \in Pic
  BY <1>1, HandlerRuns DEF Inv, TypeInv
<1>4. pic.isr = {Timer} \/ pic.isr = {Keyboard}
  BY <1>1, <1>3 DEF Inv, ServiceInv
<1>5. /\ pic' \in Pic /\ pic'.base = pic.base /\ pic'.irr = pic.irr /\ pic'.imr = pic.imr
      /\ pic'.isr = {k \in pic.isr : \E l \in pic.isr : l < k}
  BY <1>1, <1>3 DEF PIC_sendEOI, Pic
<1>6. pic'.isr = {} BY <1>4, <1>5 DEF Timer, Keyboard
<1>7. TypeInv' BY <1>1, <1>2, <1>5 DEF Inv, TypeInv
<1>8. PhaseInv' BY <1>1, <1>5, PhaseKept DEF Inv
<1>9. FirmwareInv' BY <1>3, <1>5 DEF FirmwareInv
<1>10. ServiceInv' BY <1>1, <1>2, <1>6 DEF Inv, ServiceInv
<1>11. StrayOnlyBeforeCli' BY <1>1, <1>3 DEF StrayOnlyBeforeCli
<1>12. FullBufferSignalled' BY <1>1, <1>5 DEF Inv, FullBufferSignalled
<1>13. TicksAccounted' BY <1>1, <1>2, <1>5 DEF Inv, TicksAccounted, Pending
<1>14. EarlyInv' BY <1>1, <1>2 DEF Inv, EarlyInv
<1> QED BY <1>7, <1>8, <1>9, <1>10, <1>11, <1>12, <1>13, <1>14 DEF Inv

LEMMA ReturnKeepsInv == Inv /\ Return => Inv'
<1> SUFFICES ASSUME Inv, Return PROVE Inv'
  OBVIOUS
<1>1. /\ UNCHANGED <<a1, a2, pc, after, gdt, idt, ms_count, pic, kbd, ticks, missed,
                     counting, stuck, entered, stray>>
      /\ handler.at = "iret" /\ IF_flag' = TRUE
      /\ "at" \in DOMAIN handler' /\ handler'.at = "none"
  BY DEF Return, thread, history, Idle
<1>2. pic.base = "kernel" /\ ~ stray BY <1>1, HandlerRuns
<1>3. TypeInv' BY <1>1 DEF Inv, TypeInv
<1>4. PhaseInv' BY <1>1, PhaseKept DEF Inv
<1>5. FirmwareInv' BY <1>1, <1>2 DEF FirmwareInv
<1>6. ServiceInv' BY <1>1, <1>2 DEF Inv, ServiceInv
<1>7. StrayOnlyBeforeCli' BY <1>1, <1>2 DEF StrayOnlyBeforeCli
<1>8. FullBufferSignalled' /\ TicksAccounted'
  BY <1>1 DEF Inv, FullBufferSignalled, TicksAccounted, Pending
<1>9. EarlyInv' BY <1>1 DEF Inv, EarlyInv
<1> QED BY <1>3, <1>4, <1>5, <1>6, <1>7, <1>8, <1>9 DEF Inv

-----------------------------------------------------------------------------
(* The devices.                                                            *)

LEMMA RaiseKeeps ==
  ASSUME NEW l \in Line, NEW p \in Pic
  PROVE  /\ Raise(p, l) \in Pic
         /\ Raise(p, l).base = p.base /\ Raise(p, l).isr = p.isr
         /\ Raise(p, l).imr = p.imr
         /\ Raise(p, l).irr = p.irr \cup {l}
BY DEF Raise, Pic

\* A tick is latched, or it is one of those that are missed.
LEMMA TickKeepsInv == Inv /\ Tick => Inv'
<1> SUFFICES ASSUME Inv, Tick PROVE Inv'
  OBVIOUS
<1>1. /\ UNCHANGED <<a1, a2, pc, after, IF_flag, gdt, idt, handler, ms_count, kbd, counting,
                     stuck, entered, stray>>
      /\ ticks' = IF counting THEN Bump(ticks) ELSE ticks
      /\ missed' = IF counting /\ Timer \in pic.irr THEN Bump(missed) ELSE missed
  BY DEF Tick, thread
<1>2. pic \in Pic /\ ms_count \in Nat /\ missed \in Nat /\ ticks \in Nat
  BY DEF Inv, TypeInv
<1>3. Timer \in Line BY DEF Line
<1>4. /\ pic' \in Pic /\ pic'.base = pic.base /\ pic'.isr = pic.isr /\ pic'.imr = pic.imr
      /\ pic'.irr = pic.irr \cup {Timer}
  BY <1>2, <1>3, RaiseKeeps DEF Tick
<1>5. ticks' \in Nat /\ missed' \in Nat BY <1>1, <1>2 DEF Bump
<1>6. TypeInv' BY <1>1, <1>4, <1>5 DEF Inv, TypeInv
<1>7. PhaseInv' BY <1>1, <1>4, PhaseKept DEF Inv
<1>8. EarlyInv' /\ FirmwareInv' /\ ServiceInv'
  BY <1>1, <1>4 DEF Inv, EarlyInv, FirmwareInv, ServiceInv
<1>9. StrayOnlyBeforeCli' BY <1>1, <1>4 DEF Inv, StrayOnlyBeforeCli
<1>10. FullBufferSignalled' BY <1>1, <1>4 DEF Inv, FullBufferSignalled
<1>11. TicksAccounted'
  <2> SUFFICES ASSUME counting, ticks' < ClockCap PROVE TicksAccounted'
    BY <1>1 DEF TicksAccounted
  <2>1. ticks < ClockCap /\ ticks' = ticks + 1
    BY <1>1, <1>2, ThreadAssumption DEF Bump
  <2>2. ms_count + missed + Pending
          + (IF Timer \in pic.irr /\ handler.at = "count" THEN 1 ELSE 0) = ticks
    BY <2>1 DEF Inv, TicksAccounted
  <2>3. Pending' = 1 BY <1>4 DEF Pending
  <2>4. CASE Timer \in pic.irr
    <3>1. Pending = 1 BY <2>4 DEF Pending
    <3>2. missed' = missed + 1
      BY <1>1, <1>2, <2>1, <2>2, <2>4, <3>1, ThreadAssumption DEF Bump
    <3> QED BY <1>1, <1>2, <1>4, <2>1, <2>2, <2>3, <2>4, <3>1, <3>2 DEF TicksAccounted
  <2>5. CASE Timer \notin pic.irr
    <3>1. missed' = missed BY <1>1, <2>5
    <3>2. Pending = IF handler.at = "count" THEN 1 ELSE 0 BY <2>5 DEF Pending
    <3> QED BY <1>1, <1>2, <1>4, <2>1, <2>2, <2>3, <2>5, <3>1, <3>2 DEF TicksAccounted
  <2> QED BY <2>4, <2>5
<1> QED BY <1>6, <1>7, <1>8, <1>9, <1>10, <1>11 DEF Inv

LEMMA PressKeyKeepsInv == Inv /\ PressKey => Inv'
<1> SUFFICES ASSUME Inv, PressKey PROVE Inv'
  OBVIOUS
<1>1. /\ UNCHANGED <<a1, a2, pc, after, IF_flag, gdt, idt, handler, ms_count, ticks, missed,
                     counting, stuck, entered, stray>>
      /\ kbd' = TRUE
  BY DEF PressKey, thread
<1>2. pic \in Pic /\ Keyboard \in Line BY DEF Inv, TypeInv, Line
<1>3. /\ pic' \in Pic /\ pic'.base = pic.base /\ pic'.isr = pic.isr /\ pic'.imr = pic.imr
      /\ pic'.irr = pic.irr \cup {Keyboard}
  BY <1>2, RaiseKeeps DEF PressKey
<1>4. Timer \in pic'.irr <=> Timer \in pic.irr BY <1>3 DEF Timer, Keyboard
<1>5. TypeInv' BY <1>1, <1>3 DEF Inv, TypeInv
<1>6. PhaseInv' BY <1>1, <1>3, PhaseKept DEF Inv
<1>7. EarlyInv' /\ FirmwareInv' /\ ServiceInv'
  BY <1>1, <1>3 DEF Inv, EarlyInv, FirmwareInv, ServiceInv
<1>8. StrayOnlyBeforeCli' BY <1>1, <1>3 DEF Inv, StrayOnlyBeforeCli
<1>9. FullBufferSignalled' BY <1>3 DEF FullBufferSignalled
<1>10. TicksAccounted' BY <1>1, <1>4 DEF Inv, TicksAccounted, Pending
<1> QED BY <1>5, <1>6, <1>7, <1>8, <1>9, <1>10 DEF Inv

\* Another line's request says nothing of the timer and the keyboard.
LEMMA OtherRequestKeepsInv ==
  ASSUME Inv, NEW l \in Unhandled, OtherRequest(l)
  PROVE  Inv'
<1>1. UNCHANGED <<a1, a2, pc, after, IF_flag, gdt, idt, handler, ms_count, kbd, ticks,
                  missed, counting, stuck, entered, stray>>
  BY DEF OtherRequest, thread, history
<1>2. pic \in Pic /\ l \in Line /\ l # Timer /\ l # Keyboard
  BY DEF Inv, TypeInv, Line, Unhandled, Cascade, Other, Timer, Keyboard
<1>3. /\ pic' \in Pic /\ pic'.base = pic.base /\ pic'.isr = pic.isr /\ pic'.imr = pic.imr
      /\ pic'.irr = pic.irr \cup {l}
  BY <1>2, RaiseKeeps DEF OtherRequest
<1>4. /\ Timer \in pic'.irr <=> Timer \in pic.irr
      /\ Keyboard \in pic'.irr <=> Keyboard \in pic.irr
  BY <1>2, <1>3
<1>5. TypeInv' BY <1>1, <1>3 DEF Inv, TypeInv
<1>6. PhaseInv' BY <1>1, <1>3, PhaseKept DEF Inv
<1>7. EarlyInv' /\ FirmwareInv' /\ ServiceInv'
  BY <1>1, <1>3 DEF Inv, EarlyInv, FirmwareInv, ServiceInv
<1>8. StrayOnlyBeforeCli' BY <1>1, <1>3 DEF Inv, StrayOnlyBeforeCli
<1>9. FullBufferSignalled' BY <1>1, <1>3, <1>4 DEF Inv, FullBufferSignalled
<1>10. TicksAccounted' BY <1>1, <1>4 DEF Inv, TicksAccounted, Pending
<1> QED BY <1>5, <1>6, <1>7, <1>8, <1>9, <1>10 DEF Inv

\* The serial line, and the machine at rest.
LEMMA LineKeepsInv == Inv /\ (Type \/ Transmit \/ UNCHANGED vars) => Inv'
<1> SUFFICES ASSUME Inv, Type \/ Transmit \/ UNCHANGED vars PROVE Inv'
  OBVIOUS
<1>1. UNCHANGED interruptState /\ UNCHANGED <<pc, after>>
  BY DEF Type, Transmit, vars, interruptState, thread, machine, history
<1>2. UNCHANGED <<gdt, idt>> /\ pic'.base = pic.base /\ pic'.imr = pic.imr
  BY <1>1 DEF interruptState
<1>3. PhaseInv' BY <1>1, <1>2, PhaseKept DEF Inv
<1>4. EarlyInv' BY <1>1 DEF Inv, EarlyInv, interruptState
<1> QED BY <1>1, <1>3, <1>4, QuietStep DEF Inv, TypeInv

-----------------------------------------------------------------------------
LEMMA StepInv == Inv /\ [Next]_vars => Inv'
<1> SUFFICES ASSUME Inv, [Next]_vars PROVE Inv'
  OBVIOUS
<1>1. CASE ThreadStep
  BY <1>1, LogKeepsInv, SetGdtKeepsInv, SetIdtKeepsInv, RemapKeepsInv, MasksKeepInv,
     ResetClockKeepsInv, FlagKeepsInv DEF ThreadStep
<1>2. CASE Interrupt
  <2>1. PICK l \in Line : Deliver(l) \/ FirmwareInterrupt(l) \/ StrayInterrupt(l)
    BY <1>2 DEF Interrupt
  <2> QED BY <2>1, DeliverKeepsInv, FirmwareKeepsInv, StrayKeepsInv
<1>3. CASE HandlerStep
  BY <1>3, CountTickKeepsInv, KeyboardHandlerKeepsInv, SendEOIKeepsInv, ReturnKeepsInv
     DEF HandlerStep
<1>4. CASE Tick \/ PressKey
  BY <1>4, TickKeepsInv, PressKeyKeepsInv
<1>5. CASE Type \/ Transmit \/ UNCHANGED vars
  BY <1>5, LineKeepsInv
<1>6. CASE \E l \in Unhandled : OtherRequest(l)
  BY <1>6, OtherRequestKeepsInv
<1> QED BY <1>1, <1>2, <1>3, <1>4, <1>5, <1>6 DEF Next, Device

LEMMA SpecInv == Spec => []Inv
<1>1. Init => Inv BY InitInv
<1>2. Inv /\ [Next]_vars => Inv' BY StepInv
<1> QED BY <1>1, <1>2, PTL DEF Spec

(***************************************************************************)
(* A handler runs with interrupts off and exactly its own line in service, *)
(* and sends one end of interrupt (interrupts.c).                          *)
(***************************************************************************)
THEOREM Balanced == Spec => []InterruptsBalanced
<1>1. Inv => InterruptsBalanced
  <2>1. \A x : Cardinality({x}) = 1 BY FS_Singleton
  <2> QED BY <2>1 DEF Inv, ServiceInv, InterruptsBalanced
<1> QED BY <1>1, SpecInv, PTL

(***************************************************************************)
(* An interrupt finds nowhere to go only if the kernel was entered with    *)
(* interrupts on, and only from set_gdt to init_PIT's cli; after PIC_remap *)
(* only one of a line without a handler can (init_gdt, init_idt).          *)
(***************************************************************************)
THEOREM StrayWindow == Spec => []StrayOnlyBeforeCli
<1>1. Inv => StrayOnlyBeforeCli BY DEF Inv
<1> QED BY <1>1, SpecInv, PTL

(***************************************************************************)
(* A key in the controller's buffer has its interrupt latched or its       *)
(* handler running, unless PIC_remap found it there (Keyboard_Handler).    *)
(***************************************************************************)
THEOREM KeySignalled == Spec => []FullBufferSignalled
<1>1. Inv => FullBufferSignalled BY DEF Inv
<1> QED BY <1>1, SpecInv, PTL

(***************************************************************************)
(* Every tick since init_PIT is counted, pending, or was raised while an   *)
(* earlier one was latched (Timer_Handler).                                *)
(***************************************************************************)
THEOREM ClockAccounts == Spec => []TicksAccounted
<1>1. Inv => TicksAccounted BY DEF Inv
<1> QED BY <1>1, SpecInv, PTL

-----------------------------------------------------------------------------
(* The time stamp.                                                         *)

LEMMA DivideAndRest ==
  ASSUME NEW a \in Nat, NEW d \in Nat \ {0}
  PROVE  /\ a \div d \in Nat
         /\ a % d \in 0 .. (d - 1)
         /\ a - d * (a \div d) = a % d
<1>1. a \div d \in Nat OBVIOUS
<1>2. a % d \in 0 .. (d - 1) OBVIOUS
<1>3. a - d * (a \div d) = a % d BY Z3
<1> QED BY <1>1, <1>2, <1>3

LEMMA SumOfRest ==
  ASSUME NEW t \in Nat, NEW q \in Nat, NEW d \in Nat, NEW r \in Nat, t - d * q = r
  PROVE  q * d \in Nat /\ t = q * d + r
<1>1. d * q \in Nat /\ q * d = d * q OBVIOUS
<1> QED BY <1>1

LEMMA SecondsAndRest ==
  ASSUME NEW t \in Nat
  PROVE  /\ Seconds(t) \in Nat /\ t % Second \in 0 .. (Second - 1)
         /\ t % Second \in Nat /\ Seconds(t) * Second \in Nat
         /\ t = Seconds(t) * Second + (t % Second)
<1>1. Second \in Nat \ {0} BY ThreadAssumption
<1>2. /\ t \div Second \in Nat
      /\ t % Second \in 0 .. (Second - 1)
      /\ t - Second * (t \div Second) = t % Second
  BY <1>1, DivideAndRest
<1>3. Seconds(t) = t \div Second BY DEF Seconds
<1>4. t % Second \in Nat BY <1>1, <1>2
<1>5. t - Second * Seconds(t) = t % Second BY <1>2, <1>3
<1>6. Seconds(t) * Second \in Nat /\ t = Seconds(t) * Second + (t % Second)
  BY <1>1, <1>2, <1>3, <1>4, <1>5, SumOfRest
<1> QED BY <1>2, <1>3, <1>4, <1>6

\* What the first read has left in the stamp, whatever has interrupted since.
StampInv ==
  /\ stamp \in [sec : Nat, ms : Nat, from : Nat]
  /\ pc = "read_ms" => stamp.sec = Seconds(stamp.from)
  /\ pc = "read_sec" => stamp.ms = stamp.from % Second

LEMMA StampInit == Init => StampInv
BY DEF Init, StampInv

LEMMA StampStep == Inv /\ StampInv /\ [Next]_vars => StampInv'
<1> SUFFICES ASSUME Inv, StampInv, [Next]_vars PROVE StampInv'
  OBVIOUS
<1>1. ms_count \in Nat BY DEF Inv, TypeInv
<1>2. CASE \E order \in {"seconds first", "ms first"} : FirstRead(order)
  <2>1. PICK order \in {"seconds first", "ms first"} : FirstRead(order) BY <1>2
  <2>2. Seconds(ms_count) \in Nat /\ ms_count % Second \in Nat BY <1>1, SecondsAndRest
  <2>3. CASE order = "seconds first"
    <3>1. /\ stamp' = [sec |-> Seconds(ms_count), ms |-> 0, from |-> ms_count]
          /\ pc' = "read_ms"
      BY <2>1, <2>3 DEF FirstRead
    <3> QED BY <1>1, <2>2, <3>1 DEF StampInv
  <2>4. CASE order = "ms first"
    <3>1. /\ stamp' = [sec |-> 0, ms |-> ms_count % Second, from |-> ms_count]
          /\ pc' = "read_sec"
      BY <2>1, <2>4 DEF FirstRead
    <3> QED BY <1>1, <2>2, <3>1 DEF StampInv
  <2> QED BY <2>1, <2>3, <2>4
<1>3. CASE SecondRead
  <2>1. Seconds(ms_count) \in Nat /\ ms_count % Second \in Nat BY <1>1, SecondsAndRest
  <2>2. pc' = "poll" /\ \/ stamp' = [stamp EXCEPT !.ms = ms_count % Second]
                        \/ stamp' = [stamp EXCEPT !.sec = Seconds(ms_count)]
    BY <1>3 DEF SecondRead
  <2>3. stamp' \in [sec : Nat, ms : Nat, from : Nat] BY <2>1, <2>2 DEF StampInv
  <2> QED BY <2>2, <2>3 DEF StampInv
<1>4. ASSUME UNCHANGED stamp, pc' \in {"read_ms", "read_sec"} => UNCHANGED pc
      PROVE  StampInv'
  BY <1>4 DEF StampInv, Seconds
<1>5. CASE ThreadStep
  <2>1. CASE ClearInterrupts \/ Unmask \/ EnableInterrupts \/ SetGdt \/ SetIdt \/ Remap
             \/ RestoreMaster \/ RestoreSlave \/ ResetClock
    BY <1>4, <2>1
       DEF ClearInterrupts, Unmask, EnableInterrupts, SetGdt, SetIdt, Remap, RestoreMaster,
           RestoreSlave, ResetClock, LogGroup
  <2>2. CASE InitSerial \/ Poll \/ WriteChar \/ WaitTest \/ Halt \/ EchoTest \/ ReadSerial
    BY <1>4, <2>2
       DEF InitSerial, Poll, WriteChar, WaitTest, Halt, EchoTest, ReadSerial, LogGroup
  <2>3. CASE LogDone
    <3>1. after \in Groups BY DEF Inv, TypeInv
    <3>2. pc' \in {"set_gdt", "set_idt", "wait_test", "echo_hlt"}
      BY <2>3, <3>1 DEF LogDone, Groups
    <3> QED BY <1>4, <2>3, <3>2 DEF LogDone
  <2> QED BY <1>2, <1>3, <1>5, <2>1, <2>2, <2>3 DEF ThreadStep
<1>6. CASE Interrupt
  <2>1. PICK l \in Line : Deliver(l) \/ FirmwareInterrupt(l) \/ StrayInterrupt(l)
    BY <1>6 DEF Interrupt
  <2>2. UNCHANGED stamp BY <2>1 DEF Deliver, FirmwareInterrupt, StrayInterrupt, thread
  <2>3. UNCHANGED pc \/ pc' \in {"wait_test", "echo_test"}
    BY <2>1 DEF Deliver, Woken, FirmwareInterrupt, StrayInterrupt, thread
  <2> QED BY <1>4, <2>2, <2>3
<1>7. CASE HandlerStep \/ Tick \/ Device \/ UNCHANGED vars
  <2>1. UNCHANGED thread
    BY <1>7 DEF HandlerStep, CountTick, KeyPut, ReadScancode, SendEOI, Return, Tick, Device,
                PressKey, Type, Transmit, OtherRequest, vars
  <2> QED BY <1>4, <2>1 DEF thread
<1> QED BY <1>5, <1>6, <1>7 DEF Next

(***************************************************************************)
(* serial_printf reads seconds and milliseconds apart: the stamp is a time *)
(* between the reads, or off by less than a second if they are split by a  *)
(* change of the second.                                                   *)
(***************************************************************************)
THEOREM StampOnTime == Spec => StampTimely
<1>1. ASSUME Inv, StampInv, SecondRead, counting, stamp.from <= ms_count
      PROVE  LET time == stamp'.sec * Second + stamp'.ms
                 early == IF Seconds(stamp.from) = Seconds(ms_count) THEN 0 ELSE Second - 1
             IN  stamp.from - early <= time /\ time <= ms_count + early
  <2> DEFINE f == stamp.from
             m == ms_count
             time == stamp'.sec * Second + stamp'.ms
             fs == Seconds(f) * Second
             ms == Seconds(m) * Second
             fr == f % Second
             mr == m % Second
  <2>1. f \in Nat /\ m \in Nat /\ f <= m BY <1>1 DEF Inv, TypeInv, StampInv
  <2>2. fs \in Nat /\ fr \in 0 .. (Second - 1) /\ f = fs + fr BY <2>1, SecondsAndRest
  <2>3. ms \in Nat /\ mr \in 0 .. (Second - 1) /\ m = ms + mr BY <2>1, SecondsAndRest
  <2>4. \/ time = fs + mr
        \/ time = ms + fr
    <3>1. CASE pc = "read_ms"
      <4>1. stamp' = [stamp EXCEPT !.ms = mr] BY <1>1, <3>1 DEF SecondRead, At
      <4>2. stamp'.sec = Seconds(f) /\ stamp'.ms = mr BY <1>1, <3>1, <4>1 DEF StampInv
      <4> QED BY <4>2
    <3>2. CASE pc = "read_sec"
      <4>1. stamp' = [stamp EXCEPT !.sec = Seconds(m)] BY <1>1, <3>2 DEF SecondRead, At
      <4>2. stamp'.sec = Seconds(m) /\ stamp'.ms = fr BY <1>1, <3>2, <4>1 DEF StampInv
      <4> QED BY <4>2
    <3> QED BY <1>1, <3>1, <3>2 DEF SecondRead, At
  <2>5. Second \in Nat \ {0} BY ThreadAssumption
  <2>6. Seconds(f) = Seconds(m) => fs = ms OBVIOUS
  <2> HIDE DEF f, m, time, fs, ms, fr, mr
  <2>7. CASE Seconds(f) = Seconds(m)
    <3>1. f - 0 <= time /\ time <= m + 0 BY <2>1, <2>2, <2>3, <2>4, <2>6, <2>7
    <3> QED BY <2>7, <3>1 DEF f, m, time
  <2>8. CASE Seconds(f) # Seconds(m)
    <3>1. f - (Second - 1) <= time /\ time <= m + (Second - 1)
      BY <2>1, <2>2, <2>3, <2>4, <2>5
    <3> QED BY <2>8, <3>1 DEF f, m, time
  <2> QED BY <2>7, <2>8
<1>2. Inv /\ StampInv /\ [Next]_vars =>
        [SecondRead =>
           LET time == stamp'.sec * Second + stamp'.ms
               early == IF Seconds(stamp.from) = Seconds(ms_count) THEN 0 ELSE Second - 1
           IN  counting /\ stamp.from <= ms_count =>
                 stamp.from - early <= time /\ time <= ms_count + early]_vars
  BY <1>1
<1> QED BY <1>2, StampInit, StampStep, SpecInv, PTL DEF Spec, StampTimely

-----------------------------------------------------------------------------
(* The serial line.                                                        *)

\* The characters of s typed at the serial line, by their place and by their number.
Typed(s) == {i \in DOMAIN s : s[i][1] = "typed"}
Numbers(s) == {s[i][2] : i \in Typed(s)}
InOrder(s) == \A i, j \in Typed(s) : i < j => s[i][2] < s[j][2]
Below(A, B) == \A a \in A, b \in B : a < b

LEMMA TypedConcat ==
  ASSUME NEW s \in Seq(Char), NEW t \in Seq(Char)
  PROVE  /\ Numbers(s \o t) = Numbers(s) \cup Numbers(t)
         /\ InOrder(s \o t) <=>
              InOrder(s) /\ InOrder(t) /\ Below(Numbers(s), Numbers(t))
<1> DEFINE u == s \o t
           m == Len(s)
           n == Len(t)
<1>1. /\ m \in Nat /\ n \in Nat /\ DOMAIN s = 1 .. m /\ DOMAIN t = 1 .. n
      /\ DOMAIN u = 1 .. (m + n)
      /\ \A i \in 1 .. m : u[i] = s[i]
      /\ \A i \in 1 .. n : u[m + i] = t[i]
  OBVIOUS
<1> HIDE DEF u, m, n
<1>2. \A i \in 1 .. (m + n) : i \in 1 .. m \/ (i - m \in 1 .. n /\ m + (i - m) = i)
  BY <1>1
<1>6. \A i \in 1 .. m : i \in 1 .. (m + n) /\ u[i] = s[i]
  BY <1>1
<1>7. \A i \in 1 .. n : m + i \in 1 .. (m + n) /\ u[m + i] = t[i] 
  BY <1>1
<1>8. \A i \in 1 .. m : i \in Typed(s) <=> i \in Typed(u)
  BY <1>1, <1>6 DEF Typed
<1>9. \A i \in 1 .. n : i \in Typed(t) <=> m + i \in Typed(u)
  BY <1>1, <1>7 DEF Typed
<1>10. /\ Typed(s) \subseteq 1 .. m /\ Typed(t) \subseteq 1 .. n
      /\ Typed(u) \subseteq 1 .. (m + n)
  BY <1>1 DEF Typed
<1>3. Numbers(u) = Numbers(s) \cup Numbers(t)
  <2>1. ASSUME NEW x \in Numbers(u) PROVE x \in Numbers(s) \cup Numbers(t)
    <3>1. PICK i \in Typed(u) : x = u[i][2]
      BY <2>1 DEF Numbers
    <3>2. CASE i \in 1 .. m
      BY <3>1, <3>2, <1>6, <1>8 DEF Numbers
    <3>3. CASE i - m \in 1 .. n /\ m + (i - m) = i
      <4>1. i - m \in Typed(t) /\ t[i - m] = u[i]
        BY <3>1, <3>3, <1>7, <1>9
      <4> QED BY <3>1, <4>1 DEF Numbers
    <3> QED BY <3>1, <3>2, <3>3, <1>2, <1>10
  <2>2. Numbers(s) \subseteq Numbers(u)
    BY <1>6, <1>8, <1>10 DEF Numbers
  <2>3. ASSUME NEW x \in Numbers(t) PROVE x \in Numbers(u)
    <3>1. PICK i \in Typed(t) : x = t[i][2]
      BY <2>3 DEF Numbers
    <3>2. m + i \in Typed(u) /\ u[m + i] = t[i]
      BY <3>1, <1>7, <1>9, <1>10
    <3> QED BY <3>1, <3>2 DEF Numbers
  <2> QED BY <2>1, <2>2, <2>3
<1>4. ASSUME InOrder(u) PROVE InOrder(s) /\ InOrder(t) /\ Below(Numbers(s), Numbers(t))
  <2>1. InOrder(s)
    BY <1>4, <1>6, <1>8, <1>10 DEF InOrder
  <2>2. ASSUME NEW i \in Typed(t), NEW j \in Typed(t), i < j
        PROVE  t[i][2] < t[j][2]
    <3>1. /\ m + i \in Typed(u) /\ u[m + i] = t[i]
          /\ m + j \in Typed(u) /\ u[m + j] = t[j]
      BY <1>7, <1>9, <1>10
    <3>2. m + i < m + j BY <2>2, <1>1, <1>10
    <3> QED BY <1>4, <3>1, <3>2 DEF InOrder
  <2>3. ASSUME NEW a \in Numbers(s), NEW b \in Numbers(t) PROVE a < b
    <3>1. PICK i \in Typed(s) : a = s[i][2] BY <2>3 DEF Numbers
    <3>2. PICK j \in Typed(t) : b = t[j][2] BY <2>3 DEF Numbers
    <3>3. i \in Typed(u) /\ u[i] = s[i] BY <3>1, <1>6, <1>8, <1>10
    <3>4. m + j \in Typed(u) /\ u[m + j] = t[j] BY <3>2, <1>7, <1>9, <1>10
    <3>5. i < m + j BY <3>1, <3>2, <1>1, <1>10
    <3> QED BY <1>4, <3>1, <3>2, <3>3, <3>4, <3>5 DEF InOrder
  <2> QED BY <2>1, <2>2, <2>3 DEF InOrder, Below
<1>5. ASSUME InOrder(s), InOrder(t), Below(Numbers(s), Numbers(t)) PROVE InOrder(u)
  <2> SUFFICES ASSUME NEW i \in Typed(u), NEW j \in Typed(u), i < j
               PROVE  u[i][2] < u[j][2]
    BY DEF InOrder
  <2>0. i \in 1 .. (m + n) /\ j \in 1 .. (m + n) BY <1>10
  <2>1. CASE j \in 1 .. m
    <3>1. i \in 1 .. m BY <2>0, <2>1, <1>1
    <3> QED BY <2>1, <3>1, <1>6, <1>8, <1>5 DEF InOrder
  <2>2. CASE i \in 1 .. m /\ j - m \in 1 .. n /\ m + (j - m) = j
    <3>1. i \in Typed(s) /\ s[i] = u[i] BY <2>2, <1>6, <1>8
    <3>2. j - m \in Typed(t) /\ t[j - m] = u[j] BY <2>2, <1>7, <1>9
    <3>3. s[i][2] \in Numbers(s) /\ t[j - m][2] \in Numbers(t)
      BY <3>1, <3>2 DEF Numbers
    <3> QED BY <3>1, <3>2, <3>3, <1>5 DEF Below
  <2>3. CASE i - m \in 1 .. n /\ m + (i - m) = i /\ j - m \in 1 .. n /\ m + (j - m) = j
    <3>1. i - m \in Typed(t) /\ t[i - m] = u[i] BY <2>3, <1>7, <1>9
    <3>2. j - m \in Typed(t) /\ t[j - m] = u[j] BY <2>3, <1>7, <1>9
    <3>3. i - m < j - m BY <2>0, <1>1
    <3> QED BY <3>1, <3>2, <3>3, <1>5 DEF InOrder
  <2> QED BY <2>0, <2>1, <2>2, <2>3, <1>2
<1> QED BY <1>3, <1>4, <1>5 DEF u

\* The characters of s that are not the keyboard handler's.
Own(s) == {i \in DOMAIN s : s[i][1] # "key"}
OwnUpTo(s, i) == {j \in Own(s) : j <= i}

\* They are q, in order: LogIntact counts them this way.
Arrives(q, s) ==
  /\ Cardinality(Own(s)) = Len(q)
  /\ \A i \in Own(s) : s[i] = q[Cardinality(OwnUpTo(s, i))]

\* Counting them finds a place in q.
LEMMA OwnCounts ==
  ASSUME NEW s \in Seq(Char)
  PROVE  /\ IsFiniteSet(Own(s)) /\ Own(s) \subseteq 1 .. Len(s)
         /\ \A i \in Own(s) : Cardinality(OwnUpTo(s, i)) \in 1 .. Cardinality(Own(s))
<1>1. Own(s) \subseteq 1 .. Len(s) BY DEF Own
<1>2. IsFiniteSet(1 .. Len(s))
  <2>1. 1 \in Int /\ Len(s) \in Int OBVIOUS
  <2> QED BY <2>1, FS_Interval
<1>3. IsFiniteSet(Own(s)) BY <1>1, <1>2, FS_Subset
<1>4. ASSUME NEW i \in Own(s)
      PROVE  Cardinality(OwnUpTo(s, i)) \in 1 .. Cardinality(Own(s))
  <2>1. OwnUpTo(s, i) \subseteq Own(s) /\ i \in OwnUpTo(s, i)
    BY <1>1 DEF OwnUpTo
  <2>2. IsFiniteSet(OwnUpTo(s, i)) /\ Cardinality(OwnUpTo(s, i)) <= Cardinality(Own(s))
    BY <1>3, <2>1, FS_Subset
  <2>3. Cardinality(OwnUpTo(s, i)) \in Nat /\ Cardinality(Own(s)) \in Nat
    BY <1>3, <2>2, FS_CardinalityType
  <2>4. Cardinality(OwnUpTo(s, i)) # 0
    BY <2>1, <2>2, FS_EmptySet
  <2> QED BY <2>2, <2>3, <2>4
<1> QED BY <1>1, <1>3, <1>4

\* A character more on the line: the handler's, or the thread's.
LEMMA KeyAppended ==
  ASSUME NEW q \in Seq(Char), NEW s \in Seq(Char), NEW c \in Char, c[1] = "key",
         Arrives(q, s)
  PROVE  Arrives(q, Append(s, c))
<1> DEFINE t == Append(s, c)
<1>1. /\ DOMAIN t = 1 .. (Len(s) + 1) /\ t[Len(s) + 1] = c
      /\ \A i \in 1 .. Len(s) : t[i] = s[i]
  OBVIOUS
<1> HIDE DEF t
<1>2. Own(t) = Own(s) BY <1>1 DEF Own
<1>3. \A i \in Own(s) : OwnUpTo(t, i) = OwnUpTo(s, i) /\ t[i] = s[i]
  BY <1>1, <1>2 DEF OwnUpTo, Own
<1>4. Arrives(q, t) BY <1>2, <1>3 DEF Arrives
<1> QED BY <1>4 DEF t

LEMMA OwnAppended ==
  ASSUME NEW q \in Seq(Char), NEW s \in Seq(Char), NEW c \in Char, c[1] # "key",
         Arrives(q, s)
  PROVE  Arrives(Append(q, c), Append(s, c))
<1> DEFINE t == Append(s, c)
           r == Append(q, c)
           n == Len(s) + 1
<1>1. /\ DOMAIN t = 1 .. n /\ t[n] = c /\ Len(r) = Len(q) + 1 /\ r[Len(q) + 1] = c
      /\ \A i \in 1 .. Len(s) : t[i] = s[i]
      /\ \A i \in 1 .. Len(q) : r[i] = q[i]
      /\ n \in Nat /\ n = Len(s) + 1 /\ Len(s) \in Nat /\ Len(q) \in Nat
  OBVIOUS
<1> HIDE DEF t, r, n
<1>2. Own(t) = Own(s) \cup {n} /\ n \notin Own(s) BY <1>1 DEF Own
<1>3. IsFiniteSet(Own(s)) /\ Own(s) \subseteq 1 .. Len(s) BY OwnCounts
<1>4. Cardinality(Own(t)) = Len(r)
  <2>1. Cardinality(Own(t)) = Cardinality(Own(s)) + 1 BY <1>2, <1>3, FS_AddElement
  <2> QED BY <1>1, <2>1 DEF Arrives
<1>5. ASSUME NEW i \in Own(s) PROVE t[i] = r[Cardinality(OwnUpTo(t, i))]
  <2>1. OwnUpTo(t, i) = OwnUpTo(s, i) BY <1>1, <1>2, <1>3 DEF OwnUpTo
  <2>2. Cardinality(OwnUpTo(s, i)) \in 1 .. Len(q) BY OwnCounts DEF Arrives
  <2>3. t[i] = s[i] /\ s[i] = q[Cardinality(OwnUpTo(s, i))] BY <1>1, <1>3 DEF Arrives
  <2> QED BY <1>1, <2>1, <2>2, <2>3
<1>6. t[n] = r[Cardinality(OwnUpTo(t, n))]
  <2>1. OwnUpTo(t, n) = Own(t) BY <1>1, <1>2, <1>3 DEF OwnUpTo
  <2> QED BY <1>1, <1>4, <2>1
<1>7. Arrives(r, t) BY <1>2, <1>4, <1>5, <1>6 DEF Arrives
<1> QED BY <1>7 DEF t, r

\* A keyboard message that has begun and not ended goes on.
Unfinished(c) == c[1] = "key" /\ c[2] < KeyLength

KeysWhole(s) ==
  \A i \in 1 .. Len(s) - 1 : Unfinished(s[i]) => s[i + 1] = <<"key", s[i][2] + 1>>

LEMMA WholeAppended ==
  ASSUME NEW s \in Seq(Char), NEW c \in Char, KeysWhole(s),
         s # <<>> /\ Unfinished(s[Len(s)]) => c = <<"key", s[Len(s)][2] + 1>>
  PROVE  KeysWhole(Append(s, c))
<1> DEFINE t == Append(s, c)
           n == Len(s)
<1>1. /\ Len(t) = n + 1 /\ t[n + 1] = c /\ \A i \in 1 .. n : t[i] = s[i]
      /\ n \in Nat /\ (n > 0 => s # <<>>)
  OBVIOUS
<1>2. ASSUME NEW i \in 1 .. (n + 1) - 1, Unfinished(t[i])
      PROVE  t[i + 1] = <<"key", t[i][2] + 1>>
  <2>1. CASE i = n
    BY <1>1, <1>2, <2>1
  <2>2. CASE i # n
    <3>1. i \in 1 .. n - 1 /\ i + 1 \in 1 .. n /\ i \in 1 .. n BY <1>1, <2>2
    <3> QED BY <1>1, <1>2, <3>1 DEF KeysWhole
  <2> QED BY <2>1, <2>2
<1> QED BY <1>1, <1>2 DEF KeysWhole

-----------------------------------------------------------------------------
\* A sequence is its head and its tail.
LEMMA SplitHead ==
  ASSUME NEW s \in Seq(Char), s # <<>>
  PROVE  /\ Head(s) \in Char /\ Tail(s) \in Seq(Char)
         /\ s = <<Head(s)>> \o Tail(s) /\ Head(s) = s[1]
         /\ Len(Tail(s)) = Len(s) - 1
         /\ \A i \in 1 .. Len(Tail(s)) : Tail(s)[i] = s[i + 1]
OBVIOUS

\* What is on the line.
out == wire \o uart.tx

LineType ==
  /\ uart \in Uart /\ wire \in Seq(Char) /\ said \in Seq(Char) /\ text \in Seq(Char)
  /\ typed \in Nat /\ dropped \subseteq 1 .. typed

(***************************************************************************)
(* The thread has characters in hand exactly while it waits for the        *)
(* transmitter or writes.  Nothing is on the line before init_serial.      *)
(***************************************************************************)
HandInv ==
  /\ text # <<>> <=> pc \in {"poll", "write"}
  /\ pc = "init_serial" =>
       /\ wire = <<>> /\ said = <<>> /\ typed = 0 /\ dropped = {}
       /\ uart.mode # "normal"

\* What the keyboard handler has left of its message.
MessageInv ==
  handler.at = "puts" =>
    /\ handler.text \in Seq(Char) /\ Len(handler.text) \in 1 .. KeyLength
    /\ \A i \in 1 .. Len(handler.text) :
         handler.text[i] = <<"key", KeyLength - Len(handler.text) + i>>

NotKey(s) == \A i \in 1 .. Len(s) : s[i][1] # "key"

\* Only a handler that is still writing leaves a message unfinished.
LastInv ==
  out # <<>> /\ Unfinished(out[Len(out)]) =>
    handler.at = "puts" /\ out[Len(out)][2] = KeyLength - Len(handler.text)

(***************************************************************************)
(* The transmitter has room for the thread's character: it was empty when  *)
(* the thread looked, and a handler that came in between wrote only into   *)
(* an empty one.                                                           *)
(***************************************************************************)
WriteInv ==
  uart.mode = "normal" =>
    /\ uart.depth = FifoDepth
    /\ pc = "write" => Len(uart.tx) <= 1
    /\ NotKey(text) /\ NotKey(uart.rx)
    /\ Arrives(said, out) /\ KeysWhole(out) /\ LastInv

\* Typed characters go from the receiver to the thread's hands to the line.
EchoInv ==
  uart.mode = "normal" =>
    /\ Numbers(said) \cup Numbers(text) \cup Numbers(uart.rx) = (1 .. typed) \ dropped
    /\ InOrder(said) /\ InOrder(text) /\ InOrder(uart.rx)
    /\ Below(Numbers(said), Numbers(text)) /\ Below(Numbers(said), Numbers(uart.rx))
    /\ Below(Numbers(text), Numbers(uart.rx))

LineInv == LineType /\ HandInv /\ MessageInv /\ WriteInv /\ EchoInv

lineState == <<uart, wire, said, text, typed, dropped>>

-----------------------------------------------------------------------------
LEMMA LineInit == Init => LineInv
<1> SUFFICES ASSUME Init PROVE LineInv
  OBVIOUS
<1>1. /\ pc = "init_serial" /\ text = <<>> /\ wire = <<>> /\ said = <<>>
      /\ typed = 0 /\ dropped = {} /\ handler.at = "none"
  BY DEF Init, Idle
<1>2. PICK m \in Ports : uart = [mode |-> m, depth |-> 1, tx |-> <<>>, rx |-> <<>>]
  BY DEF Init
<1>3. m \in {"off", "absent"} BY ThreadAssumption
<1>4. <<>> \in Seq(Char) OBVIOUS
<1>5. LineType BY <1>1, <1>2, <1>3, <1>4 DEF LineType, Uart
<1>6. uart.mode # "normal" BY <1>2, <1>3
<1> QED BY <1>1, <1>5, <1>6 DEF LineInv, HandInv, MessageInv, WriteInv, EchoInv

\* Steps that touch neither the port nor the characters in hand.
LEMMA OffLine ==
  ASSUME LineInv, UNCHANGED lineState,
         pc' \in {"poll", "write"} <=> pc \in {"poll", "write"},
         pc' \in {"init_serial", "write"} => UNCHANGED pc,
         UNCHANGED handler \/ (handler.at # "puts" /\ handler'.at # "puts")
  PROVE  LineInv'
<1> USE DEF lineState
<1>1. LineType' BY DEF LineInv, LineType
<1>2. HandInv' BY DEF LineInv, HandInv
<1>3. MessageInv' BY DEF LineInv, MessageInv
<1>4. out' = out BY DEF out
<1>5. uart.mode = "normal" => LastInv' BY <1>4 DEF LineInv, WriteInv, LastInv
<1>6. WriteInv' BY <1>4, <1>5 DEF LineInv, WriteInv, Arrives
<1>7. EchoInv' BY DEF LineInv, EchoInv
<1> QED BY <1>1, <1>2, <1>3, <1>6, <1>7 DEF LineInv

\* The thread looks: from here to its write at most one character is in the way.
LEMMA PollLine == LineInv /\ Poll => LineInv'
<1> SUFFICES ASSUME LineInv, Poll PROVE LineInv'
  OBVIOUS
<1>1. /\ UNCHANGED lineState /\ UNCHANGED handler /\ pc = "poll" /\ pc' = "write"
      /\ serial_transmit_empty(uart)
  BY DEF Poll, At, machine, history, lineState
<1> USE DEF lineState
<1>2. LineType' BY <1>1 DEF LineInv, LineType
<1>3. HandInv' BY <1>1 DEF LineInv, HandInv
<1>4. MessageInv' BY <1>1 DEF LineInv, MessageInv
<1>5. out' = out BY <1>1 DEF out
<1>6. uart.mode = "normal" => LastInv' BY <1>1, <1>5 DEF LineInv, WriteInv, LastInv
<1>7. uart.mode = "normal" => Len(uart.tx) <= 1 BY <1>1 DEF serial_transmit_empty
<1>8. WriteInv' BY <1>1, <1>5, <1>6, <1>7 DEF LineInv, WriteInv
<1>9. EchoInv' BY <1>1 DEF LineInv, EchoInv
<1> QED BY <1>2, <1>3, <1>4, <1>8, <1>9 DEF LineInv

\* init_serial: a port that comes up has empty FIFOs, and nothing was written.
LEMMA InitSerialLine == Inv /\ LineInv /\ InitSerial => LineInv'
<1> SUFFICES ASSUME Inv, LineInv, InitSerial PROVE LineInv'
  OBVIOUS
<1>1. /\ UNCHANGED <<text, handler, wire, said, typed, dropped>>
      /\ pc = "init_serial" /\ pc' = "log" /\ handler.at = "none"
      /\ uart' \in init_serial(uart)
  BY DEF InitSerial, At, LogGroup, history
<1>2. /\ text = <<>> /\ wire = <<>> /\ said = <<>> /\ typed = 0 /\ dropped = {}
      /\ uart.mode # "normal" /\ uart \in Uart
  BY <1>1 DEF LineInv, LineType, HandInv
<1>3. TestByte \in Char BY DEF TestByte, Char
<1>4. uart' \in Uart
  <2>1. CASE uart.mode = "absent" BY <1>1, <1>2, <2>1 DEF init_serial
  <2>2. CASE uart.mode # "absent"
    <3>1. PICK m \in {"normal", "loopback"}, q \in Seq(Char) :
            uart' = [uart EXCEPT !.mode = m, !.depth = FifoDepth, !.tx = q, !.rx = <<>>]
      <4>1. <<>> \in Seq(Char) /\ <<TestByte>> \in Seq(Char) BY <1>3
      <4> QED BY <1>1, <2>2, <4>1 DEF init_serial
    <3>2. <<>> \in Seq(Char) OBVIOUS
    <3> QED BY <1>2, <3>1, <3>2 DEF Uart
  <2> QED BY <2>1, <2>2
<1>5. uart'.mode = "normal" =>
        uart'.depth = FifoDepth /\ uart'.tx = <<>> /\ uart'.rx = <<>>
  BY <1>1, <1>2 DEF Uart, init_serial
<1>6. LineType' BY <1>1, <1>4 DEF LineInv, LineType
<1>7. HandInv' /\ MessageInv' BY <1>1, <1>2 DEF HandInv, MessageInv
<1>8. ASSUME uart'.mode = "normal" PROVE out' = <<>>
  BY <1>1, <1>2, <1>5, <1>8 DEF out
<1>9. Arrives(<<>>, <<>>)
  <2>1. Own(<<>>) = {} BY DEF Own
  <2> QED BY <2>1, FS_EmptySet DEF Arrives
<1>10. KeysWhole(<<>>) BY DEF KeysWhole
<1>11. WriteInv'
  <2> SUFFICES ASSUME uart'.mode = "normal" PROVE WriteInv' BY DEF WriteInv
  <2>1. uart'.depth = FifoDepth /\ pc' # "write" BY <1>1, <1>5
  <2>2. NotKey(text') /\ NotKey(uart'.rx) BY <1>1, <1>2, <1>5 DEF NotKey
  <2>3. Arrives(said', out') /\ KeysWhole(out') BY <1>1, <1>2, <1>8, <1>9, <1>10
  <2>4. LastInv' BY <1>8 DEF LastInv
  <2> QED BY <2>1, <2>2, <2>3, <2>4 DEF WriteInv, Arrives
<1>12. EchoInv'
  <2>1. Typed(<<>>) = {} BY DEF Typed
  <2>2. Numbers(<<>>) = {} /\ InOrder(<<>>) BY <2>1 DEF Numbers, InOrder
  <2>3. (1 .. 0) \ {} = {} OBVIOUS
  <2> QED BY <1>1, <1>2, <1>5, <2>2, <2>3 DEF EchoInv, Below
<1> QED BY <1>6, <1>7, <1>11, <1>12 DEF LineInv

\* A log line has no typed character.
LEMMA SecondReadLine == Inv /\ LineInv /\ SecondRead => LineInv'
<1> SUFFICES ASSUME Inv, LineInv, SecondRead PROVE LineInv'
  OBVIOUS
<1>1. /\ UNCHANGED <<uart, wire, said, typed, dropped, handler>>
      /\ pc \in {"read_ms", "read_sec"} /\ pc' = "poll" /\ handler.at = "none"
      /\ text' = [i \in 1 .. LineLength + 1 |-> <<"log", i>>]
  BY DEF SecondRead, At, machine, history
<1>2. LineLength + 1 \in Nat /\ LineLength + 1 > 0 BY ThreadAssumption
<1>3. \A i \in 1 .. LineLength + 1 : <<"log", i>> \in Char BY <1>2 DEF Char
<1>4. text' \in Seq(Char) /\ Len(text') = LineLength + 1 /\ text' # <<>>
  BY <1>1, <1>2, <1>3
<1>5. \A i \in 1 .. Len(text') : text'[i][1] = "log" BY <1>1, <1>2, <1>4
<1>6. Typed(text') = {} /\ NotKey(text') BY <1>4, <1>5 DEF Typed, NotKey
<1>7. Numbers(text') = {} /\ InOrder(text') BY <1>6 DEF Numbers, InOrder
<1>8. LineType' BY <1>1, <1>4 DEF LineInv, LineType
<1>9. HandInv' /\ MessageInv' BY <1>1, <1>4 DEF HandInv, MessageInv
<1>10. out' = out BY <1>1 DEF out
<1>11. WriteInv'
  <2>1. uart.mode = "normal" => LastInv' BY <1>1, <1>10 DEF LineInv, WriteInv, LastInv
  <2> QED BY <1>1, <1>6, <1>10, <2>1 DEF LineInv, WriteInv
<1>12. EchoInv'
  <2>1. text = <<>> BY <1>1 DEF LineInv, HandInv
  <2>2. Numbers(<<>>) = {}
    <3>1. Typed(<<>>) = {} BY DEF Typed
    <3> QED BY <3>1 DEF Numbers
  <2> QED BY <1>1, <1>7, <2>1, <2>2 DEF LineInv, EchoInv, Below
<1> QED BY <1>8, <1>9, <1>11, <1>12 DEF LineInv

-----------------------------------------------------------------------------
\* The typed characters of a sequence, character by character.
LEMMA Single ==
  ASSUME NEW c \in Char
  PROVE  /\ <<c>> \in Seq(Char)
         /\ InOrder(<<c>>)
         /\ Numbers(<<c>>) = IF c[1] = "typed" THEN {c[2]} ELSE {}
<1>1. DOMAIN <<c>> = {1} /\ <<c>>[1] = c OBVIOUS
<1>2. Typed(<<c>>) = IF c[1] = "typed" THEN {1} ELSE {} BY <1>1 DEF Typed
<1>3. InOrder(<<c>>) BY <1>2 DEF InOrder
<1>4. Numbers(<<c>>) = IF c[1] = "typed" THEN {c[2]} ELSE {}
  BY <1>1, <1>2 DEF Numbers
<1> QED BY <1>3, <1>4

\* A character more, or one less at the front.
LEMMA TypedAppend ==
  ASSUME NEW s \in Seq(Char), NEW c \in Char
  PROVE  /\ Numbers(Append(s, c)) = Numbers(s) \cup Numbers(<<c>>)
         /\ InOrder(Append(s, c)) <=> InOrder(s) /\ Below(Numbers(s), Numbers(<<c>>))
<1>1. Append(s, c) = s \o <<c>> OBVIOUS
<1>2. <<c>> \in Seq(Char) /\ InOrder(<<c>>) BY Single
<1> QED BY <1>1, <1>2, TypedConcat

LEMMA TypedTail ==
  ASSUME NEW s \in Seq(Char), s # <<>>
  PROVE  /\ Numbers(s) = Numbers(<<Head(s)>>) \cup Numbers(Tail(s))
         /\ InOrder(s) => /\ InOrder(Tail(s))
                          /\ Below(Numbers(<<Head(s)>>), Numbers(Tail(s)))
<1>1. Head(s) \in Char /\ Tail(s) \in Seq(Char) /\ s = <<Head(s)>> \o Tail(s)
  BY SplitHead
<1>2. <<Head(s)>> \in Seq(Char) BY <1>1, Single
<1> QED BY <1>1, <1>2, TypedConcat

LEMMA NotKeyTail ==
  ASSUME NEW s \in Seq(Char), s # <<>>, NotKey(s)
  PROVE  NotKey(Tail(s)) /\ Head(s)[1] # "key" /\ NotKey(<<Head(s)>>)
<1>1. /\ Head(s) = s[1] /\ 1 \in 1 .. Len(s) /\ Len(Tail(s)) = Len(s) - 1
      /\ \A i \in 1 .. Len(Tail(s)) : i + 1 \in 1 .. Len(s) /\ Tail(s)[i] = s[i + 1]
  OBVIOUS
<1>2. Len(<<Head(s)>>) = 1 /\ <<Head(s)>>[1] = Head(s) OBVIOUS
<1> QED BY <1>1, <1>2 DEF NotKey

\* A write that the transmitter takes adds to what is on the line.
LEMMA WriteTakes ==
  ASSUME LineType, NEW c \in Char, uart' = Write(uart, c), wire' = wire
  PROVE  /\ uart' \in Uart /\ uart'.mode = uart.mode /\ uart'.rx = uart.rx
         /\ uart'.depth = uart.depth
         /\ uart.mode # "absent" /\ Len(uart.tx) < uart.depth =>
              uart'.tx = Append(uart.tx, c) /\ out' = Append(out, c)
<1>1. uart \in Uart /\ wire \in Seq(Char) BY DEF LineType
<1>2. uart' \in Uart /\ uart'.mode = uart.mode /\ uart'.rx = uart.rx
      /\ uart'.depth = uart.depth
  <2>1. CASE uart' = uart BY <1>1, <2>1
  <2>2. CASE uart' = [uart EXCEPT !.tx = Append(uart.tx, c)]
    <3>1. uart.tx \in Seq(Char) BY <1>1 DEF Uart
    <3>2. Append(uart.tx, c) \in Seq(Char) BY <3>1
    <3> HIDE DEF Char
    <3> QED BY <1>1, <2>2, <3>2 DEF Uart
  <2> QED BY <2>1, <2>2 DEF Write
<1>3. uart.depth \in Nat /\ uart.tx \in Seq(Char) BY <1>1, DepthAssumption DEF Uart
<1>4. ASSUME uart.mode # "absent", Len(uart.tx) < uart.depth
      PROVE  uart'.tx = Append(uart.tx, c) /\ out' = Append(out, c)
  <2>1. ~ (Len(uart.tx) >= uart.depth) BY <1>3, <1>4
  <2>2. uart'.tx = Append(uart.tx, c) BY <1>1, <1>4, <2>1 DEF Write, Uart
  <2>3. wire \o Append(uart.tx, c) = Append(wire \o uart.tx, c) BY <1>1, <1>3
  <2> QED BY <2>2, <2>3 DEF out
<1> QED BY <1>2, <1>4

\* The thread writes: no message is unfinished, and the transmitter has room.
LEMMA WriteCharLine == Inv /\ LineInv /\ WriteChar => LineInv'
<1> SUFFICES ASSUME Inv, LineInv, WriteChar PROVE LineInv'
  OBVIOUS
<1> DEFINE c == Head(text)
<1>1. /\ UNCHANGED <<wire, typed, dropped, handler>>
      /\ pc = "write" /\ handler.at = "none"
      /\ uart' = Write(uart, c) /\ text' = Tail(text)
      /\ said' = IF uart.mode = "normal" THEN Append(said, c) ELSE said
      /\ pc' = IF text' # <<>> THEN "poll" ELSE IF lines > 0 THEN "log" ELSE "echo_hlt"
  BY DEF WriteChar, At
<1>2. LineType /\ text # <<>> /\ text \in Seq(Char) /\ said \in Seq(Char)
  BY <1>1 DEF LineInv, HandInv, LineType
<1>3. c \in Char /\ Tail(text) \in Seq(Char) BY <1>2, SplitHead
<1> HIDE DEF c
<1>4. /\ uart' \in Uart /\ uart'.mode = uart.mode /\ uart'.rx = uart.rx
      /\ uart'.depth = uart.depth
  BY <1>1, <1>2, <1>3, WriteTakes
<1>5. said' \in Seq(Char) BY <1>1, <1>2, <1>3
<1>6. LineType' BY <1>1, <1>2, <1>3, <1>4, <1>5 DEF LineType
<1>7. HandInv' /\ MessageInv' BY <1>1 DEF HandInv, MessageInv
<1>8. WriteInv'
  <2> SUFFICES ASSUME uart.mode = "normal" PROVE WriteInv' BY <1>4 DEF WriteInv
  <2>1. /\ uart.depth = FifoDepth /\ Len(uart.tx) <= 1 /\ NotKey(text) /\ NotKey(uart.rx)
        /\ Arrives(said, out) /\ KeysWhole(out) /\ LastInv
    BY <1>1 DEF LineInv, WriteInv
  <2>2. uart.tx \in Seq(Char) /\ wire \in Seq(Char) BY <1>2 DEF LineType, Uart
  <2>3. Len(uart.tx) < uart.depth BY <2>1, <2>2, DepthAssumption
  <2>4. out' = Append(out, c) BY <1>1, <1>2, <1>3, <2>3, WriteTakes
  <2>5. c[1] # "key" /\ NotKey(Tail(text)) BY <1>2, <2>1, NotKeyTail DEF c
  <2>6. out \in Seq(Char) BY <2>2 DEF out
  <2>7. Arrives(said', out') BY <1>1, <1>2, <1>3, <2>1, <2>4, <2>5, <2>6, OwnAppended
  <2>8. ~ (out # <<>> /\ Unfinished(out[Len(out)])) BY <1>1, <2>1 DEF LastInv
  <2>9. KeysWhole(out') BY <1>3, <2>1, <2>4, <2>6, <2>8, WholeAppended
  <2>10. LastInv'
    <3>1. out'[Len(out')] = c BY <1>3, <2>4, <2>6
    <3> QED BY <2>5, <3>1 DEF LastInv, Unfinished
  <2>11. pc' # "write" BY <1>1
  <2> QED BY <1>1, <1>4, <2>1, <2>5, <2>7, <2>9, <2>10, <2>11 DEF WriteInv
<1>9. EchoInv'
  <2> SUFFICES ASSUME uart.mode = "normal" PROVE EchoInv' BY <1>4 DEF EchoInv
  <2>1. /\ Numbers(said) \cup Numbers(text) \cup Numbers(uart.rx) = (1 .. typed) \ dropped
        /\ InOrder(said) /\ InOrder(text) /\ InOrder(uart.rx)
        /\ Below(Numbers(said), Numbers(text)) /\ Below(Numbers(said), Numbers(uart.rx))
        /\ Below(Numbers(text), Numbers(uart.rx))
    BY DEF LineInv, EchoInv
  <2>2. /\ Numbers(text) = Numbers(<<c>>) \cup Numbers(text')
        /\ InOrder(text') /\ Below(Numbers(<<c>>), Numbers(text'))
    BY <1>1, <1>2, <2>1, TypedTail DEF c
  <2>3. Below(Numbers(said), Numbers(<<c>>)) BY <2>1, <2>2 DEF Below
  <2>4. Numbers(said') = Numbers(said) \cup Numbers(<<c>>) /\ InOrder(said')
    BY <1>1, <1>2, <1>3, <2>1, <2>3, TypedAppend
  <2>5. /\ Below(Numbers(said'), Numbers(text')) /\ Below(Numbers(said'), Numbers(uart'.rx))
        /\ Below(Numbers(text'), Numbers(uart'.rx))
    BY <1>4, <2>1, <2>2, <2>4 DEF Below
  <2>6. Numbers(said') \cup Numbers(text') \cup Numbers(uart'.rx) = (1 .. typed) \ dropped
    BY <1>4, <2>1, <2>2, <2>4
  <2> QED BY <1>1, <1>4, <2>1, <2>2, <2>4, <2>5, <2>6 DEF EchoInv
<1> QED BY <1>6, <1>7, <1>8, <1>9 DEF LineInv

\* kgetc moves a character from the receiver into the thread's hands.
LEMMA ReadSerialLine == Inv /\ LineInv /\ ReadSerial => LineInv'
<1> SUFFICES ASSUME Inv, LineInv, ReadSerial PROVE LineInv'
  OBVIOUS
<1> DEFINE c == ReadChar(uart)
<1>1. /\ UNCHANGED <<wire, said, typed, dropped, handler>>
      /\ pc = "kgetc" /\ pc' = "poll" /\ handler.at = "none" /\ serial_received(uart)
      /\ uart' = AfterRead(uart) /\ text' = <<c>>
  BY DEF ReadSerial, At, history
<1>2. LineType /\ uart \in Uart /\ text = <<>>
  BY <1>1 DEF LineInv, HandInv, LineType
<1>3. ASSUME uart.mode # "absent"
      PROVE  /\ uart.rx # <<>> /\ uart.rx \in Seq(Char) /\ c = Head(uart.rx)
             /\ c \in Char /\ Tail(uart.rx) \in Seq(Char)
             /\ uart' = [uart EXCEPT !.rx = Tail(uart.rx)]
  <2>1. uart.rx # <<>> BY <1>1, <1>3 DEF serial_received
  <2>2. uart.rx \in Seq(Char) BY <1>2 DEF Uart
  <2>3. c = Head(uart.rx) BY <1>3 DEF ReadChar
  <2>4. uart' = [uart EXCEPT !.rx = Tail(uart.rx)] BY <1>1, <1>3 DEF AfterRead
  <2> QED BY <2>1, <2>2, <2>3, <2>4, SplitHead
<1>4. c \in Char
  <2>1. CASE uart.mode = "absent" BY <2>1 DEF ReadChar, Noise, Char
  <2> QED BY <1>3, <2>1
<1>5. /\ uart' \in Uart /\ uart'.mode = uart.mode /\ uart'.depth = uart.depth
      /\ uart'.tx = uart.tx
  <2>1. CASE uart.mode = "absent" BY <1>1, <1>2, <2>1 DEF AfterRead
  <2>2. CASE uart.mode # "absent"
    <3>1. uart' = [uart EXCEPT !.rx = Tail(uart.rx)] /\ Tail(uart.rx) \in Seq(Char)
      BY <1>3, <2>2
    <3> QED BY <1>2, <3>1 DEF Uart
  <2> QED BY <2>1, <2>2
<1> HIDE DEF c
<1>6. LineType'
  <2>1. text' \in Seq(Char) BY <1>1, <1>4, Single
  <2> QED BY <1>1, <1>2, <1>5, <2>1 DEF LineType
<1>7. HandInv' /\ MessageInv' BY <1>1 DEF HandInv, MessageInv
<1>8. out' = out BY <1>1, <1>5 DEF out
<1>9. ASSUME uart.mode = "normal" PROVE WriteInv' /\ EchoInv'
  <2>0. /\ uart.rx # <<>> /\ uart.rx \in Seq(Char) /\ c = Head(uart.rx)
        /\ uart'.rx = Tail(uart.rx)
    BY <1>2, <1>3, <1>9 DEF Uart
  <2>1. /\ uart.depth = FifoDepth /\ NotKey(uart.rx)
        /\ Arrives(said, out) /\ KeysWhole(out) /\ LastInv
    BY <1>9 DEF LineInv, WriteInv
  <2>2. NotKey(uart'.rx) /\ NotKey(text') BY <1>1, <2>0, <2>1, NotKeyTail
  <2>3. LastInv' BY <1>1, <1>8, <2>1 DEF LastInv
  <2>4. WriteInv' BY <1>1, <1>5, <1>8, <2>1, <2>2, <2>3 DEF WriteInv
  <2>5. /\ Numbers(said) \cup Numbers(text) \cup Numbers(uart.rx) = (1 .. typed) \ dropped
        /\ InOrder(said) /\ InOrder(uart.rx) /\ Below(Numbers(said), Numbers(uart.rx))
    BY <1>9 DEF LineInv, EchoInv
  <2>6. /\ Numbers(uart.rx) = Numbers(<<c>>) \cup Numbers(uart'.rx)
        /\ InOrder(uart'.rx) /\ Below(Numbers(<<c>>), Numbers(uart'.rx))
    BY <2>0, <2>5, TypedTail
  <2>7. InOrder(text') BY <1>1, <1>4, Single
  <2>8. Numbers(text) = {}
    <3>1. Typed(<<>>) = {} BY DEF Typed
    <3> QED BY <1>2, <3>1 DEF Numbers
  <2>9. /\ Below(Numbers(said'), Numbers(text')) /\ Below(Numbers(said'), Numbers(uart'.rx))
        /\ Below(Numbers(text'), Numbers(uart'.rx))
    BY <1>1, <2>5, <2>6 DEF Below
  <2>10. Numbers(said') \cup Numbers(text') \cup Numbers(uart'.rx) = (1 .. typed') \ dropped'
    BY <1>1, <2>5, <2>6, <2>8
  <2> QED BY <1>1, <2>4, <2>5, <2>6, <2>7, <2>9, <2>10 DEF EchoInv
<1>10. WriteInv' /\ EchoInv' BY <1>5, <1>9 DEF WriteInv, EchoInv
<1> QED BY <1>6, <1>7, <1>10 DEF LineInv

-----------------------------------------------------------------------------
\* The keyboard handler begins its message; whatever was begun is finished.
LEMMA DeliverLine ==
  ASSUME Inv, LineInv, NEW l \in Line, Deliver(l)
  PROVE  LineInv'
<1>1. /\ UNCHANGED lineState /\ IF_flag /\ ~ stray
      /\ pc' = Woken
      /\ handler' = IF l = Timer THEN [at |-> "count", text |-> <<>>]
                             ELSE [at |-> "puts",
                              text |-> [i \in 1 .. KeyLength |-> <<"key", i>>]]
  BY DEF Deliver, Taken, lineState, history
<1>2. handler.at = "none" BY <1>1 DEF Inv, ServiceInv
<1>3. /\ pc' \in {"poll", "write"} <=> pc \in {"poll", "write"}
      /\ pc' \in {"init_serial", "write"} => UNCHANGED pc
  BY <1>1 DEF Woken
<1> USE DEF lineState
<1>4. LineType' BY <1>1 DEF LineInv, LineType
<1>5. HandInv' BY <1>1, <1>3 DEF LineInv, HandInv
<1>6. MessageInv'
  <2> SUFFICES ASSUME l # Timer PROVE MessageInv'
    BY <1>1 DEF MessageInv
  <2>1. handler'.text = [i \in 1 .. KeyLength |-> <<"key", i>>] BY <1>1
  <2>2. KeyLength \in Nat \ {0} BY ThreadAssumption
  <2>3. \A i \in 1 .. KeyLength : <<"key", i>> \in Char BY <2>2 DEF Char
  <2>4. /\ handler'.text \in Seq(Char) /\ Len(handler'.text) = KeyLength
        /\ \A i \in 1 .. KeyLength : handler'.text[i] = <<"key", KeyLength - KeyLength + i>>
    BY <2>1, <2>2, <2>3
  <2> QED BY <2>2, <2>4 DEF MessageInv
<1>7. out' = out BY <1>1 DEF out
<1>8. uart.mode = "normal" => LastInv' BY <1>2, <1>7 DEF LineInv, WriteInv, LastInv
<1>9. WriteInv' BY <1>1, <1>3, <1>7, <1>8 DEF LineInv, WriteInv
<1>10. EchoInv' BY <1>1 DEF LineInv, EchoInv
<1> QED BY <1>4, <1>5, <1>6, <1>9, <1>10 DEF LineInv

\* It writes into an empty transmitter, and goes on where it stopped.
LEMMA KeyPutLine == Inv /\ LineInv /\ KeyPut => LineInv'
<1> SUFFICES ASSUME Inv, LineInv, KeyPut PROVE LineInv'
  OBVIOUS
<1> DEFINE c == Head(handler.text)
           n == Len(handler.text)
<1>1. /\ UNCHANGED <<wire, said, text, typed, dropped, pc>>
      /\ handler.at = "puts" /\ serial_transmit_empty(uart)
      /\ uart' = Write(uart, c)
      /\ handler' = [at |-> IF n = 1 THEN "scan" ELSE "puts", text |-> Tail(handler.text)]
  BY DEF KeyPut, thread, history
<1>2. /\ handler.text \in Seq(Char) /\ n \in 1 .. KeyLength /\ KeyLength \in Nat
      /\ \A i \in 1 .. n : handler.text[i] = <<"key", KeyLength - n + i>>
  BY <1>1, ThreadAssumption DEF LineInv, MessageInv
<1>3. handler.text # <<>> /\ n \in Nat /\ 1 \in 1 .. n BY <1>2
<1>4. /\ c \in Char /\ c = handler.text[1] /\ Tail(handler.text) \in Seq(Char)
      /\ Len(Tail(handler.text)) = n - 1
      /\ \A i \in 1 .. n - 1 : Tail(handler.text)[i] = handler.text[i + 1]
  BY <1>2, <1>3, SplitHead
<1>5. c = <<"key", KeyLength - n + 1>> BY <1>2, <1>3, <1>4
<1> HIDE DEF c, n
<1>6. handler'.text = Tail(handler.text) /\ (handler'.at = "puts" <=> n # 1) BY <1>1
<1>7. pc # "init_serial" BY <1>1 DEF Inv, TypeInv, PhaseInv, FirmwareInv
<1>8. LineType /\ uart \in Uart BY DEF LineInv, LineType
<1>9. /\ uart' \in Uart /\ uart'.mode = uart.mode /\ uart'.rx = uart.rx
      /\ uart'.depth = uart.depth
  BY <1>1, <1>4, <1>8, WriteTakes
<1>10. LineType' BY <1>1, <1>8, <1>9 DEF LineType
<1>11. HandInv' BY <1>1, <1>7 DEF LineInv, HandInv
<1>12. MessageInv'
  <2> SUFFICES ASSUME n # 1 PROVE MessageInv' BY <1>6 DEF MessageInv
  <2>1. n - 1 \in 1 .. KeyLength BY <1>2
  <2>2. ASSUME NEW i \in 1 .. n - 1
        PROVE  Tail(handler.text)[i] = <<"key", KeyLength - (n - 1) + i>>
    <3>1. i + 1 \in 1 .. n /\ KeyLength - n + (i + 1) = KeyLength - (n - 1) + i
      BY <1>2
    <3> QED BY <1>2, <1>4, <3>1
  <2> QED BY <1>4, <1>6, <2>1, <2>2 DEF MessageInv
<1>13. WriteInv'
  <2> SUFFICES ASSUME uart.mode = "normal" PROVE WriteInv' BY <1>9 DEF WriteInv
  <2>1. /\ uart.depth = FifoDepth /\ NotKey(text) /\ NotKey(uart.rx)
        /\ Arrives(said, out) /\ KeysWhole(out) /\ LastInv
    BY DEF LineInv, WriteInv
  <2>2. uart.tx = <<>> /\ Len(uart.tx) = 0 BY <1>1 DEF serial_transmit_empty
  <2>3. wire \in Seq(Char) /\ uart.tx \in Seq(Char) BY <1>8 DEF LineType, Uart
  <2>4. uart'.tx = Append(uart.tx, c) /\ out' = Append(out, c)
    BY <1>1, <1>4, <1>8, <2>1, <2>2, DepthAssumption, WriteTakes
  <2>5. Len(uart'.tx) <= 1 BY <1>4, <2>2, <2>3, <2>4
  <2>6. out \in Seq(Char) BY <2>3 DEF out
  <2>7. said \in Seq(Char) /\ c[1] = "key" BY <1>5, <1>8 DEF LineType
  <2>8. Arrives(said, out') BY <1>4, <2>1, <2>4, <2>6, <2>7, KeyAppended
  <2>9. out # <<>> /\ Unfinished(out[Len(out)]) => c = <<"key", out[Len(out)][2] + 1>>
    BY <1>5, <2>1 DEF LastInv, n
  <2>10. KeysWhole(out') BY <1>4, <2>1, <2>4, <2>6, <2>9, WholeAppended
  <2>11. LastInv'
    <3>1. out'[Len(out')] = c BY <1>4, <2>4, <2>6
    <3>2. n = 1 => c[2] = KeyLength BY <1>2, <1>5
    <3>3. c[2] = KeyLength - (n - 1) BY <1>2, <1>5
    <3>4. Len(handler'.text) = n - 1 BY <1>4, <1>6
    <3>5. n = 1 => ~ Unfinished(c) BY <1>2, <3>2 DEF Unfinished
    <3> QED BY <1>6, <3>1, <3>3, <3>4, <3>5 DEF LastInv
  <2> QED BY <1>1, <1>9, <2>1, <2>5, <2>8, <2>10, <2>11 DEF WriteInv
<1>14. EchoInv' BY <1>1, <1>9 DEF LineInv, EchoInv
<1> QED BY <1>10, <1>11, <1>12, <1>13, <1>14 DEF LineInv

-----------------------------------------------------------------------------
\* A character arrives: it is the last of the receiver, or it is dropped.
LEMMA TypeLine == LineInv /\ Type => LineInv'
<1> SUFFICES ASSUME LineInv, Type PROVE LineInv'
  OBVIOUS
<1> DEFINE n == typed + 1
           c == <<"typed", n>>
<1>1. /\ UNCHANGED <<wire, said, text, handler, pc>>
      /\ uart.mode = "normal" /\ typed' = n /\ uart' = Receive(uart, c)
      /\ dropped' = IF uart'.rx = uart.rx THEN dropped \cup {n} ELSE dropped
  BY DEF Type, thread
<1>2. LineType /\ uart \in Uart /\ typed \in Nat /\ dropped \subseteq 1 .. typed
      /\ uart.rx \in Seq(Char)
  BY DEF LineInv, LineType, Uart
<1>3. n \in Nat /\ c \in Char /\ c[1] = "typed" /\ c[2] = n BY <1>2 DEF Char
<1>4. n = typed + 1 OBVIOUS
<1> HIDE DEF n, c
<1>5. /\ uart' \in Uart /\ uart'.mode = "normal" /\ uart'.depth = uart.depth
      /\ uart'.tx = uart.tx
      /\ \/ uart'.rx = uart.rx /\ dropped' = dropped \cup {n}
         \/ uart'.rx = Append(uart.rx, c) /\ dropped' = dropped
  <2>1. CASE uart' = uart BY <1>1, <1>2, <2>1
  <2>2. CASE uart' = [uart EXCEPT !.rx = Append(uart.rx, c)]
    <3>1. Append(uart.rx, c) \in Seq(Char) /\ Append(uart.rx, c) # uart.rx
      BY <1>2, <1>3
    <3>2. uart' \in Uart /\ uart'.rx = Append(uart.rx, c) BY <1>2, <2>2, <3>1 DEF Uart
    <3> QED BY <1>1, <1>2, <2>2, <3>1, <3>2 DEF Uart
  <2> QED BY <1>1, <2>1, <2>2 DEF Receive
<1>6. LineType' BY <1>1, <1>2, <1>3, <1>4, <1>5 DEF LineType
<1>7. HandInv' BY <1>1, <1>5 DEF LineInv, HandInv, WriteInv
<1>8. MessageInv' BY <1>1 DEF LineInv, MessageInv
<1>9. out' = out BY <1>1, <1>5 DEF out
<1>10. WriteInv'
  <2>1. /\ uart.depth = FifoDepth /\ NotKey(text) /\ NotKey(uart.rx)
        /\ Arrives(said, out) /\ KeysWhole(out) /\ LastInv
        /\ pc = "write" => Len(uart.tx) <= 1
    BY <1>1 DEF LineInv, WriteInv
  <2>2. NotKey(uart'.rx)
    <3>1. c[1] # "key" BY <1>3
    <3>2. /\ Len(Append(uart.rx, c)) = Len(uart.rx) + 1 /\ Len(uart.rx) \in Nat
          /\ \A i \in 1 .. Len(uart.rx) : Append(uart.rx, c)[i] = uart.rx[i]
          /\ Append(uart.rx, c)[Len(uart.rx) + 1] = c
      BY <1>2, <1>3
    <3> QED BY <1>5, <2>1, <3>1, <3>2 DEF NotKey
  <2>3. LastInv' BY <1>1, <1>9, <2>1 DEF LastInv
  <2> QED BY <1>1, <1>5, <1>9, <2>1, <2>2, <2>3 DEF WriteInv
<1>11. EchoInv'
  <2>1. /\ Numbers(said) \cup Numbers(text) \cup Numbers(uart.rx) = (1 .. typed) \ dropped
        /\ InOrder(said) /\ InOrder(text) /\ InOrder(uart.rx)
        /\ Below(Numbers(said), Numbers(text)) /\ Below(Numbers(said), Numbers(uart.rx))
        /\ Below(Numbers(text), Numbers(uart.rx))
    BY <1>1 DEF LineInv, EchoInv
  <2>2. CASE uart'.rx = uart.rx /\ dropped' = dropped \cup {n}
    <3>1. (1 .. n) \ (dropped \cup {n}) = (1 .. typed) \ dropped BY <1>2, <1>4
    <3> QED BY <1>1, <2>1, <2>2, <3>1 DEF EchoInv
  <2>3. CASE uart'.rx = Append(uart.rx, c) /\ dropped' = dropped
    <3>1. (1 .. n) \ dropped = ((1 .. typed) \ dropped) \cup {n} BY <1>2, <1>4
    <3>2. Numbers(<<c>>) = {n} BY <1>3, Single
    <3>3. \A x \in (1 .. typed) \ dropped : x < n BY <1>2, <1>4
    <3>4. /\ Below(Numbers(said), {n}) /\ Below(Numbers(text), {n})
          /\ Below(Numbers(uart.rx), {n})
      BY <2>1, <3>3 DEF Below
    <3>5. Numbers(uart'.rx) = Numbers(uart.rx) \cup {n} /\ InOrder(uart'.rx)
      <4>1. /\ Numbers(Append(uart.rx, c)) = Numbers(uart.rx) \cup Numbers(<<c>>)
            /\ InOrder(Append(uart.rx, c)) <=>
                 InOrder(uart.rx) /\ Below(Numbers(uart.rx), Numbers(<<c>>))
        BY <1>2, <1>3, TypedAppend
      <4> QED BY <2>1, <2>3, <3>2, <3>4, <4>1
    <3>6. /\ Below(Numbers(said), Numbers(uart'.rx))
          /\ Below(Numbers(text), Numbers(uart'.rx))
      BY <2>1, <3>4, <3>5 DEF Below
    <3>7. Numbers(said) \cup Numbers(text) \cup Numbers(uart'.rx) = (1 .. n) \ dropped
      BY <2>1, <3>1, <3>5
    <3> QED BY <1>1, <2>1, <2>3, <3>5, <3>6, <3>7 DEF EchoInv
  <2> QED BY <1>5, <2>2, <2>3
<1> QED BY <1>6, <1>7, <1>8, <1>10, <1>11 DEF LineInv

\* The head of one sequence moves to the end of the one before it.
LEMMA HeadMoved ==
  ASSUME NEW s \in Seq(Char), NEW t \in Seq(Char), t # <<>>
  PROVE  Append(s, Head(t)) \o Tail(t) = s \o t
<1> DEFINE u == Append(s, Head(t)) \o Tail(t)
           v == s \o t
           m == Len(s)
           n == Len(t)
<1>1. /\ Head(t) \in Char /\ Head(t) = t[1] /\ Tail(t) \in Seq(Char) /\ Len(Tail(t)) = n - 1
      /\ \A i \in 1 .. n - 1 : Tail(t)[i] = t[i + 1]
  BY SplitHead
<1>2. m \in Nat /\ n \in Nat /\ n > 0 OBVIOUS
<1>3. /\ Append(s, Head(t)) \in Seq(Char) /\ Len(Append(s, Head(t))) = m + 1
      /\ \A i \in 1 .. m : Append(s, Head(t))[i] = s[i]
      /\ Append(s, Head(t))[m + 1] = t[1]
  BY <1>1
<1>4. /\ u \in Seq(Char) /\ Len(u) = (m + 1) + (n - 1)
      /\ \A i \in 1 .. m + 1 : u[i] = Append(s, Head(t))[i]
      /\ \A i \in 1 .. n - 1 : u[(m + 1) + i] = Tail(t)[i]
  BY <1>1, <1>3
<1>5. /\ v \in Seq(Char) /\ Len(v) = m + n
      /\ \A i \in 1 .. m : v[i] = s[i]
      /\ \A i \in 1 .. n : v[m + i] = t[i]
  OBVIOUS
<1> HIDE DEF u, v, m, n
<1>6. ASSUME NEW i \in 1 .. m + n PROVE u[i] = v[i]
  <2>1. CASE i \in 1 .. m
    <3>1. i \in 1 .. m + 1 BY <1>2, <2>1
    <3> QED BY <1>3, <1>4, <1>5, <2>1, <3>1
  <2>2. CASE i = m + 1
    <3>1. i \in 1 .. m + 1 /\ 1 \in 1 .. n BY <1>2, <2>2
    <3> QED BY <1>3, <1>4, <1>5, <2>2, <3>1
  <2>3. CASE i > m + 1
    <3>1. PICK j \in 1 .. n - 1 : i = (m + 1) + j
      <4>1. i - (m + 1) \in 1 .. n - 1 /\ i = (m + 1) + (i - (m + 1)) BY <1>2, <2>3
      <4> QED BY <4>1
    <3>2. u[i] = t[j + 1] BY <1>1, <1>4, <3>1
    <3>3. j + 1 \in 1 .. n /\ i = m + (j + 1) BY <1>2, <3>1
    <3>4. v[i] = t[j + 1] BY <1>5, <3>3
    <3> QED BY <3>2, <3>4
  <2> QED BY <1>2, <2>1, <2>2, <2>3
<1>7. Len(u) = m + n BY <1>2, <1>4
<1>8. u = v BY <1>2, <1>4, <1>5, <1>6, <1>7
<1> QED BY <1>8 DEF u, v

\* A character goes out on the line: it was on it before.
LEMMA TransmitLine == Inv /\ LineInv /\ Transmit => LineInv'
<1> SUFFICES ASSUME Inv, LineInv, Transmit PROVE LineInv'
  OBVIOUS
<1> DEFINE c == Head(uart.tx)
           sent == [uart EXCEPT !.tx = Tail(uart.tx)]
<1>1. /\ UNCHANGED <<said, text, typed, dropped, handler, pc>>
      /\ uart.tx # <<>> /\ uart' = Shift(uart)
      /\ wire' = IF uart.mode = "normal" THEN Append(wire, c) ELSE wire
  BY DEF Transmit, thread
<1>2. /\ LineType /\ uart \in Uart /\ wire \in Seq(Char)
      /\ uart.tx \in Seq(Char) /\ uart.rx \in Seq(Char)
  BY DEF LineInv, LineType, Uart
<1>3. c \in Char /\ Tail(uart.tx) \in Seq(Char) /\ uart.tx = <<c>> \o Tail(uart.tx)
      /\ Len(Tail(uart.tx)) = Len(uart.tx) - 1
  BY <1>1, <1>2, SplitHead
<1>4. sent \in Uart /\ sent.mode = uart.mode /\ sent.depth = uart.depth
      /\ sent.rx = uart.rx /\ sent.tx = Tail(uart.tx)
  BY <1>2, <1>3 DEF Uart
<1>5. uart' \in Uart /\ uart'.mode = uart.mode /\ uart'.depth = uart.depth
  <2>1. uart' \in {sent, Receive(sent, c)} BY <1>1 DEF Shift
  <2>2. CASE uart' = sent BY <1>4, <2>2
  <2>3. CASE uart' = [sent EXCEPT !.rx = Append(sent.rx, c)]
    <3>1. Append(sent.rx, c) \in Seq(Char) BY <1>2, <1>3, <1>4
    <3> HIDE DEF sent, c
    <3> QED BY <1>4, <2>3, <3>1 DEF Uart
  <2> QED BY <2>1, <2>2, <2>3 DEF Receive
<1>6. uart.mode = "normal" => uart' = sent BY <1>1 DEF Shift
<1> HIDE DEF c, sent
<1>7. wire' \in Seq(Char) BY <1>1, <1>2, <1>3
<1>8. LineType' BY <1>1, <1>2, <1>5, <1>7 DEF LineType
<1>9. HandInv'
  <2>1. uart.mode # "normal" => wire' = wire BY <1>1
  <2> QED BY <1>1, <1>5, <2>1 DEF LineInv, HandInv
<1>10. MessageInv' BY <1>1 DEF LineInv, MessageInv
<1>11. ASSUME uart.mode = "normal" PROVE WriteInv' /\ EchoInv'
  <2>1. /\ uart.depth = FifoDepth /\ NotKey(text) /\ NotKey(uart.rx)
        /\ Arrives(said, out) /\ KeysWhole(out) /\ LastInv
        /\ pc = "write" => Len(uart.tx) <= 1
    BY <1>11 DEF LineInv, WriteInv
  <2>2. uart'.rx = uart.rx /\ uart'.tx = Tail(uart.tx) /\ wire' = Append(wire, c)
    BY <1>1, <1>4, <1>6, <1>11
  <2>3. out' = out
    <3>1. Append(wire, c) \o Tail(uart.tx) = wire \o uart.tx
      BY <1>1, <1>2, HeadMoved DEF c
    <3> QED BY <2>2, <3>1 DEF out
  <2>4. LastInv' BY <1>1, <2>1, <2>3 DEF LastInv
  <2>5. pc' = "write" => Len(uart'.tx) <= 1 BY <1>1, <1>2, <1>3, <2>1, <2>2
  <2>6. WriteInv' BY <1>1, <1>5, <2>1, <2>2, <2>3, <2>4, <2>5 DEF WriteInv
  <2>7. EchoInv' BY <1>1, <1>5, <1>11, <2>2 DEF LineInv, EchoInv
  <2> QED BY <2>6, <2>7
<1>12. WriteInv' /\ EchoInv' BY <1>5, <1>11 DEF WriteInv, EchoInv
<1> QED BY <1>8, <1>9, <1>10, <1>12 DEF LineInv

-----------------------------------------------------------------------------
LEMMA LineStep == Inv /\ LineInv /\ [Next]_vars => LineInv'
<1> SUFFICES ASSUME Inv, LineInv, [Next]_vars PROVE LineInv'
  OBVIOUS
<1>1. CASE InitSerial \/ SecondRead \/ Poll \/ WriteChar \/ ReadSerial
  BY <1>1, InitSerialLine, SecondReadLine, PollLine, WriteCharLine, ReadSerialLine
<1>2. CASE \/ LogDone \/ \E order \in {"seconds first", "ms first"} : FirstRead(order)
           \/ SetGdt \/ SetIdt \/ Remap \/ RestoreMaster \/ RestoreSlave \/ ResetClock
           \/ ClearInterrupts \/ Unmask \/ EnableInterrupts \/ WaitTest \/ Halt \/ EchoTest
  <2>1. UNCHANGED lineState /\ UNCHANGED handler
    BY <1>2 DEF LogDone, FirstRead, SetGdt, SetIdt, Remap, RestoreMaster, RestoreSlave,
                ResetClock, ClearInterrupts, Unmask, EnableInterrupts, WaitTest, Halt,
                EchoTest, LogGroup, lineState, machine, history
  <2>2. after \in Groups BY DEF Inv, TypeInv
  <2>3. pc \notin {"poll", "write"} /\ pc' \notin {"poll", "write", "init_serial"}
    BY <1>2, <2>2
       DEF LogDone, FirstRead, SetGdt, SetIdt, Remap, RestoreMaster, RestoreSlave,
           ResetClock, ClearInterrupts, Unmask, EnableInterrupts, WaitTest, Halt, EchoTest,
           LogGroup, At, Groups
  <2> QED BY <2>1, <2>3, OffLine
<1>3. CASE Interrupt
  <2>1. PICK l \in Line : Deliver(l) \/ FirmwareInterrupt(l) \/ StrayInterrupt(l)
    BY <1>3 DEF Interrupt
  <2>2. CASE Deliver(l) BY <2>2, DeliverLine
  <2>3. CASE FirmwareInterrupt(l) \/ StrayInterrupt(l)
    <3>1. UNCHANGED lineState /\ UNCHANGED handler /\ UNCHANGED pc
      BY <2>3 DEF FirmwareInterrupt, StrayInterrupt, lineState, thread, history
    <3> QED BY <3>1, OffLine
  <2> QED BY <2>1, <2>2, <2>3
<1>4. CASE KeyPut BY <1>4, KeyPutLine
<1>5. CASE CountTick \/ ReadScancode \/ SendEOI \/ Return
  <2>1. UNCHANGED lineState /\ UNCHANGED pc /\ handler.at # "puts"
    BY <1>5 DEF CountTick, ReadScancode, SendEOI, Return, lineState, thread, history
  <2>2. handler'.at # "puts"
    <3>1. "at" \in DOMAIN handler BY DEF Inv, TypeInv
    <3> QED BY <1>5, <3>1 DEF CountTick, ReadScancode, SendEOI, Return, Idle
  <2> QED BY <2>1, <2>2, OffLine
<1>6. CASE \/ Tick \/ PressKey \/ \E l \in Unhandled : OtherRequest(l)
           \/ UNCHANGED vars
  <2>1. UNCHANGED lineState /\ UNCHANGED handler /\ UNCHANGED pc
    BY <1>6 DEF Tick, PressKey, OtherRequest, vars, lineState, thread, machine, history
  <2> QED BY <2>1, OffLine
<1>7. CASE Type BY <1>7, TypeLine
<1>8. CASE Transmit BY <1>8, TransmitLine
<1> QED
  BY <1>1, <1>2, <1>3, <1>4, <1>5, <1>6, <1>7, <1>8
     DEF Next, ThreadStep, HandlerStep, Device

LEMMA SpecLineInv == Spec => []LineInv
<1>1. Init => LineInv BY LineInit
<1>2. Inv /\ LineInv /\ [Next]_vars => LineInv' BY LineStep
<1> QED BY <1>1, <1>2, SpecInv, PTL DEF Spec

(***************************************************************************)
(* What the thread writes to a working port arrives complete and in order, *)
(* and a keyboard message is not broken up (kputc against                  *)
(* Keyboard_Handler).                                                      *)
(***************************************************************************)
THEOREM LogArrives == Spec => []LogIntact
<1>1. LineInv => LogIntact
  <2> SUFFICES ASSUME LineInv, uart.mode = "normal" PROVE LogIntact BY DEF LogIntact
  <2>1. Arrives(said, out) /\ KeysWhole(out) BY DEF LineInv, WriteInv
  <2> QED BY <2>1 DEF LogIntact, Arrives, KeysWhole, Unfinished, Own, OwnUpTo, out
<1> QED BY <1>1, SpecLineInv, PTL

(***************************************************************************)
(* Every character typed is written back once and in its turn, in hand, in *)
(* the receiver, or was dropped by a full receiver (kernel.c's echo loop). *)
(***************************************************************************)
THEOREM EveryTyped == Spec => []TypedAccounted
<1>1. LineInv => TypedAccounted
  <2> SUFFICES ASSUME LineInv, uart.mode = "normal" PROVE TypedAccounted
    BY DEF TypedAccounted
  <2> DEFINE all == (said \o text) \o uart.rx
  <2>1. said \in Seq(Char) /\ text \in Seq(Char) /\ uart.rx \in Seq(Char)
    BY DEF LineInv, LineType, Uart
  <2>2. /\ Numbers(said) \cup Numbers(text) \cup Numbers(uart.rx) = (1 .. typed) \ dropped
        /\ InOrder(said) /\ InOrder(text) /\ InOrder(uart.rx)
        /\ Below(Numbers(said), Numbers(text)) /\ Below(Numbers(said), Numbers(uart.rx))
        /\ Below(Numbers(text), Numbers(uart.rx))
    BY DEF LineInv, EchoInv
  <2>3. said \o text \in Seq(Char) BY <2>1
  <2>4. /\ Numbers(said \o text) = Numbers(said) \cup Numbers(text)
        /\ InOrder(said \o text)
    BY <2>1, <2>2, TypedConcat
  <2>5. Below(Numbers(said \o text), Numbers(uart.rx)) BY <2>2, <2>4 DEF Below
  <2>6. Numbers(all) = (1 .. typed) \ dropped /\ InOrder(all)
    BY <2>1, <2>2, <2>3, <2>4, <2>5, TypedConcat
  <2> QED BY <2>6 DEF TypedAccounted, Numbers, InOrder, Typed
<1> QED BY <1>1, SpecLineInv, PTL

=============================================================================
