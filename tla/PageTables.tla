----------------------------- MODULE PageTables -----------------------------
(***************************************************************************)
(* page_map.c: the four-level page tables, as functions on a walk w:       *)
(*   ppa    the page allocator (PageFrames)                                *)
(*   mem    for each frame of RAM, what it reads as when taken for a table *)
(*   lost   a table was asked of an allocator that had none to give: the   *)
(*          code clears and fills whatever is there, the kernel's first    *)
(*          page or addresses that are not RAM                             *)
(*   at     the table the walk has come to                                 *)
(* A page number is the sequence of its four indices, which leaves out the *)
(* bits of an address the walk does not look at.  A table maps each index  *)
(* to {} (not present) or to the set of the one frame its entry holds; the *)
(* present and writable flags are always set together.                     *)
(***************************************************************************)
EXTENDS PageFrames

CONSTANT Fanout   \* entries of a table: 512

ASSUME FanoutAssumption == Fanout \in Nat \ {0}

Index == 0 .. (Fanout - 1)

\* The pages an address can name: indices into the four levels.
Page == Index \X Index \X Index \X Index

\* The page of an address, counted in frames.
PageOf(a) ==
  <<(a \div (Fanout * Fanout * Fanout)) % Fanout, (a \div (Fanout * Fanout)) % Fanout,
    (a \div Fanout) % Fanout, a % Fanout>>

Blank == [i \in Index |-> {}]

\* The frames ppa_request may answer with that can hold a table.
Usable(s) == Frames(s) \ {0}

-----------------------------------------------------------------------------

\* A mutation: the new table is not cleared.
NewTable_dirty(w) ==
  LET f == RequestedFrame(w.ppa)
  IN  IF f \in Usable(w.ppa)
        THEN [w EXCEPT !.ppa = ppa_request(@), !.at = f]
        ELSE [w EXCEPT !.ppa = ppa_request(@), !.lost = TRUE]

\* ppa_request and ppa_memset(..., 0, 4096); nothing checks the answer.
NewTable(w) ==
  LET f == RequestedFrame(w.ppa)
  IN  IF f \in Usable(w.ppa)
        THEN [w EXCEPT !.ppa = ppa_request(@), !.mem = [@ EXCEPT ![f] = Blank], !.at = f]
        ELSE [w EXCEPT !.ppa = ppa_request(@), !.lost = TRUE]

\* A mutation: every missing table is entered at index 0.
Enter_slot_zero(w, i) ==
  LET found == w.mem[w.at][i]
      new   == NewTable(w)
  IN  IF w.lost THEN w
      ELSE IF found # {} THEN [w EXCEPT !.at = CHOOSE f \in found : TRUE]
      ELSE IF new.lost THEN new
      ELSE [new EXCEPT !.mem = [@ EXCEPT ![w.at][0] = {new.at}]]

\* One level of pmm_map_memory: follow entry i, or hang a new table there.
Enter(w, i) ==
  LET found == w.mem[w.at][i]
      new   == NewTable(w)
  IN  IF w.lost THEN w
      ELSE IF found # {} THEN [w EXCEPT !.at = CHOOSE f \in found : TRUE]
      ELSE IF new.lost THEN new
      ELSE [new EXCEPT !.mem = [@ EXCEPT ![w.at][i] = {new.at}]]

pmm_map_memory(w, root, v, p) ==
  LET leaf == Enter(Enter(Enter([w EXCEPT !.at = root], v[1]), v[2]), v[3])
  IN  IF leaf.lost THEN leaf
      ELSE [leaf EXCEPT !.mem = [@ EXCEPT ![leaf.at][v[4]] = {p}]]

\* What the entries i of the tables T hold.
Follow(mem, T, i) == UNION {mem[t][i] : t \in T}

\* Everything the entries of the tables T hold.
Children(mem, T) == UNION {Follow(mem, T, i) : i \in Index}

\* The last step of pmm_find_paddr: {} where the code answers 0.
Translation(mem, root, v) ==
  Follow(mem, Follow(mem, Follow(mem, Follow(mem, {root}, v[1]), v[2]), v[3]), v[4])

\* A page that is not mapped and one mapped to frame 0 give the same answer.
pmm_find_paddr(mem, root, v) ==
  LET found == Translation(mem, root, v)
  IN  IF found = {} THEN 0 ELSE CHOOSE f \in found : TRUE

=============================================================================
