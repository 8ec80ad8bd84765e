--------------------------- MODULE FrameAllocator ---------------------------
(***************************************************************************)
(* What the page allocator promises its callers, without bitmap, hint or   *)
(* counters: every frame of the pool belongs to the pool or to one holder, *)
(* a request either hands out a frame of the pool or is refused, and only  *)
(* what a caller holds can come back.  PageAllocator implements it, with   *)
(* the null pointer for NoFrame, which is not a Frame.                     *)
(***************************************************************************)
CONSTANTS
  Frame,    \* the frame numbers
  NoFrame   \* the answer of a refused request

VARIABLES pool, held, kept, answer

vars == <<pool, held, kept, answer>>

Init ==
  /\ pool = {}
  /\ held = {}
  /\ kept = {}
  /\ answer = NoFrame

\* The allocator comes up with some pool.
Start(U) ==
  /\ pool \cup held \cup kept = {}
  /\ pool' = U
  /\ UNCHANGED <<held, kept, answer>>

\* Locking or reserving takes those frames of R that nobody has.
Lock(R) ==
  /\ pool' = pool \ R
  /\ held' = held \cup (R \cap pool)
  /\ UNCHANGED <<kept, answer>>

Reserve(R) ==
  /\ pool' = pool \ R
  /\ kept' = kept \cup (R \cap pool)
  /\ UNCHANGED <<held, answer>>

Unlock(R) ==
  /\ R \subseteq held
  /\ pool' = pool \cup R
  /\ held' = held \ R
  /\ UNCHANGED <<kept, answer>>

Unreserve(R) ==
  /\ R \subseteq kept
  /\ pool' = pool \cup R
  /\ kept' = kept \ R
  /\ UNCHANGED <<held, answer>>

HandOut(f) ==
  /\ f \in pool
  /\ answer' = f
  /\ pool' = pool \ {f}
  /\ held' = held \cup {f}
  /\ UNCHANGED kept

Refuse ==
  /\ answer' = NoFrame
  /\ UNCHANGED <<pool, held, kept>>

Next ==
  \/ \E R \in SUBSET Frame :
        Start(R) \/ Lock(R) \/ Reserve(R) \/ Unlock(R) \/ Unreserve(R)
  \/ \E f \in Frame : HandOut(f)
  \/ Refuse

Spec == Init /\ [][Next]_vars

=============================================================================
