------------------------------ MODULE Devices ------------------------------
(***************************************************************************)
(* The two chips the kernel talks to through I/O ports, as functions on    *)
(* their state: the pair of interrupt controllers (port_io.c) and the      *)
(* first serial port (serial.c).  The chips themselves are not part of the *)
(* repository; they are modelled as the code relies on them, after the     *)
(* data sheets of the 8259A and the 16550.                                 *)
(*                                                                         *)
(* The controllers p:  irr   lines whose edge is latched                   *)
(*                     isr   lines in service, until an end of interrupt   *)
(*                     imr   lines masked in the master                    *)
(*                     slave the slave masks all of its lines              *)
(*                     base  whose vectors they deliver                    *)
(* The kernel has handlers for the timer and the keyboard.  Its table has  *)
(* no gate for any other line, so of those it only matters how they are    *)
(* masked: Cascade stands for the slave's lines 8 to 15, which come in on  *)
(* the master's line 2, and Other for the master's lines 3 to 7.           *)
(*                                                                         *)
(* A serial port u: mode  "off" before init_serial, "normal", "loopback",  *)
(*                        or "absent" when no chip answers (reads as 1s)   *)
(*                  depth what the transmitter and the receiver hold       *)
(*                  tx    characters written and not yet sent              *)
(*                  rx    characters received and not yet read             *)
(***************************************************************************)
EXTENDS Integers, Sequences

CONSTANT FifoDepth   \* characters in the serial port's FIFOs: 16

ASSUME DepthAssumption == FifoDepth \in Nat /\ FifoDepth > 1

-----------------------------------------------------------------------------
Timer == 0
Keyboard == 1
Cascade == 2
Other == 3
Unhandled == {Cascade, Other}
Line == {Timer, Keyboard} \cup Unhandled

Pic == [irr : SUBSET Line, isr : SUBSET Line, imr : SUBSET Line, slave : BOOLEAN,
        base : {"firmware", "kernel"}]

\* The lines no request gets through on.
Masked(p) == p.imr \cup IF p.slave THEN {Cascade} ELSE {}

\* An edge on line l is latched until it is acknowledged.
Raise(p, l) == [p EXCEPT !.irr = @ \cup {l}]

\* The request the controller presents: the latched, unmasked line of the
\* highest priority, if it has priority over every line in service.
Presents(p, l) ==
  /\ l \in p.irr \ Masked(p)
  /\ \A k \in p.irr \ Masked(p) : l <= k
  /\ \A k \in p.isr : l < k

Acknowledge(p, l) == [p EXCEPT !.irr = @ \ {l}, !.isr = @ \cup {l}]

\* ICW1 to ICW4: requests, lines in service and the masks of both controllers are
\* cleared.  An input that is high now must go low before it can latch an edge again.
PIC_remap(p) ==
  [p EXCEPT !.irr = {}, !.isr = {}, !.imr = {}, !.slave = FALSE, !.base = "kernel"]

\* A mutation: the end of interrupt is not sent.
PIC_sendEOI_missing(p) == p

\* The non-specific end of interrupt ends the service of the highest priority.
PIC_sendEOI(p) == [p EXCEPT !.isr = {k \in @ : \E l \in @ : l < k}]

-----------------------------------------------------------------------------
(* A character is told apart by where it comes from: the n-th of a log     *)
(* line, of the keyboard handler's message or of those typed at the line.  *)

Char == {"log", "key", "typed", "test", "noise"} \X Nat

TestByte == <<"test", 0>>   \* 0xAE, which init_serial sends to itself
Noise == <<"noise", 0>>     \* 0xFF, what an absent port reads as

Uart == [mode : {"off", "normal", "loopback", "absent"}, depth : {1, FifoDepth},
         tx : Seq(Char), rx : Seq(Char)]

\* Line status bit 5 and bit 0; an absent port reads as all ones.
serial_transmit_empty(u) == u.mode = "absent" \/ u.tx = <<>>

\* A mutation: bit 1, which tells that the receiver has overflowed.
serial_received_wrong_bit(u) == u.mode = "absent" \/ Len(u.rx) = u.depth

serial_received(u) == u.mode = "absent" \/ u.rx # <<>>

\* A mutation: the FIFOs stay off (0xC7 not written to the FIFO register).
init_serial_without_fifo(u) ==
  {[u EXCEPT !.mode = "normal", !.depth = 1, !.tx = <<>>, !.rx = <<>>]}

(***************************************************************************)
(* init_serial programs the port, turns its FIFOs on and, in loopback mode,*)
(* reads back a test byte at once.  If the byte is not there yet, or is    *)
(* damaged, the port stays in loopback mode; the caller does not look.     *)
(***************************************************************************)
init_serial(u) ==
  IF u.mode = "absent" THEN {u}
  ELSE {[u EXCEPT !.mode = "normal", !.depth = FifoDepth, !.tx = <<>>, !.rx = <<>>],
        [u EXCEPT !.mode = "loopback", !.depth = FifoDepth,
                  !.tx = <<TestByte>>, !.rx = <<>>],
        [u EXCEPT !.mode = "loopback", !.depth = FifoDepth, !.tx = <<>>, !.rx = <<>>]}

\* Writing to the transmitter: a full one loses the character.
Write(u, c) ==
  IF u.mode = "absent" \/ Len(u.tx) >= u.depth THEN u
  ELSE [u EXCEPT !.tx = Append(@, c)]

\* A character reaches the receiver: a full one loses it.
Receive(u, c) ==
  IF Len(u.rx) >= u.depth THEN u ELSE [u EXCEPT !.rx = Append(@, c)]

\* The transmitter shifts its first character out, in loopback mode to its
\* own receiver.
Shift(u) ==
  LET sent == [u EXCEPT !.tx = Tail(@)]
  IN  IF u.mode = "loopback" THEN Receive(sent, Head(u.tx)) ELSE sent

\* kgetc on a port that has received something: the character and the port.
ReadChar(u) == IF u.mode = "absent" THEN Noise ELSE Head(u.rx)

AfterRead(u) == IF u.mode = "absent" THEN u ELSE [u EXCEPT !.rx = Tail(@)]

=============================================================================
