---------------------------- MODULE AddressSpace ----------------------------
(***************************************************************************)
(* What page_map.c promises: a translation of page numbers, in which a     *)
(* mapping changes the page it is asked for and no other.  PageMap         *)
(* implements it with a tree of tables.                                    *)
(***************************************************************************)
CONSTANTS
  Page,    \* virtual pages
  Frame    \* physical frames

VARIABLE space   \* for each page, the set that holds its frame, or no frame

Init == space = [v \in Page |-> {}]

Map(v, p) == space' = [space EXCEPT ![v] = {p}]

Next == \E v \in Page, p \in Frame : Map(v, p)

Spec == Init /\ [][Next]_space

=============================================================================
