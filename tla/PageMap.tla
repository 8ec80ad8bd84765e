------------------------------- MODULE PageMap -------------------------------
(***************************************************************************)
(* The page tables in use: pages are mapped in any order, and in between   *)
(* other parts of the kernel take frames of their own, fill them, and give *)
(* them back.  The allocator starts as ppa_init leaves it for one of the   *)
(* MemoryMaps.                                                             *)
(***************************************************************************)
EXTENDS PageTables

CONSTANTS
  MemoryMaps,    \* memory maps ppa_init may be given
  MappedPages,   \* the pages that are mapped
  Targets        \* the frames they are mapped to

ASSUME PageMapAssumption ==
  /\ MappedPages \subseteq Page /\ Targets \subseteq Nat
  /\ \A m \in MemoryMaps :
       m \in Seq(Descriptor) /\ m # <<>> /\ MapPages(m) < CounterMod

VARIABLES ppa, mem, lost,
          PML4,     \* the set of the root table's frame, {} before pmm_init_pml4
          others    \* the frames other parts of the kernel hold

vars == <<ppa, mem, lost, PML4, others>>

Unbooted ==
  [size |-> 0, max_index |-> 0, data |-> 0, bits |-> {}, used |-> 0, rsvd |-> 0,
   free |-> 0, total |-> 0, last_hit |-> 0, initialized |-> FALSE]

\* A frame that does not hold a table reads as anything: as this, for one.
Junk == [i \in Index |-> {1}]

Init ==
  /\ \E m \in MemoryMaps : ppa = ppa_init(Unbooted, m, FALSE)
  /\ ppa.initialized
  /\ mem = [f \in Frames(ppa) |-> Junk]
  /\ lost = FALSE /\ PML4 = {} /\ others = {}

Walk(root) == [ppa |-> ppa, mem |-> mem, lost |-> lost, at |-> root]

Becomes(w) == ppa' = w.ppa /\ mem' = w.mem /\ lost' = w.lost

\* The beginning of init_pmm: a cleared frame becomes the root.
InitPml4 ==
  /\ PML4 = {} /\ ~ lost
  /\ LET w == NewTable(Walk(0))
     IN  Becomes(w) /\ PML4' = IF w.lost THEN {} ELSE {w.at}
  /\ UNCHANGED others

Map(v, p) ==
  /\ ~ lost
  /\ \E root \in PML4 : Becomes(pmm_map_memory(Walk(root), root, v, p))
  /\ UNCHANGED <<PML4, others>>

\* Another part of the kernel requests a frame and fills it, as init_idt does.
TakeFrame ==
  /\ ~ lost
  /\ RequestedFrame(ppa) \in Usable(ppa)
  /\ ppa' = ppa_request(ppa)
  /\ mem' = [mem EXCEPT ![RequestedFrame(ppa)] = Junk]
  /\ others' = others \cup {RequestedFrame(ppa)}
  /\ UNCHANGED <<lost, PML4>>

GiveFrame(f) ==
  /\ ~ lost
  /\ f \in others
  /\ ppa' = ppa_ulckn(ppa, {f}, f)
  /\ others' = others \ {f}
  /\ UNCHANGED <<mem, lost, PML4>>

Next ==
  \/ InitPml4 \/ TakeFrame
  \/ \E v \in MappedPages, p \in Targets : Map(v, p)
  \/ \E f \in others : GiveFrame(f)

Spec == Init /\ [][Next]_vars

-----------------------------------------------------------------------------
\* The tables of the four levels, from the root down.
Level ==
  LET second == Children(mem, PML4)
      third  == Children(mem, second)
  IN  <<PML4, second, third, Children(mem, third)>>

Tables == UNION {Level[k] : k \in 1 .. 4}

(***************************************************************************)
(* The tables form a tree: there is one root, a table is on one level, and *)
(* every present entry above the leaves leads to one table, which no other *)
(* entry leads to.  A shared table would make a mapping change pages it    *)
(* was not asked for.                                                      *)
(***************************************************************************)
TablesFormTree ==
  /\ \A r, s \in PML4 : r = s
  /\ \A j, k \in 1 .. 4 : j # k => Level[j] \cap Level[k] = {}
  /\ \A t, u \in Level[1] \cup Level[2] \cup Level[3], i, j \in Index :
       \A f \in mem[t][i], g \in mem[u][j] : (f = g) <=> (t = u /\ i = j)

(***************************************************************************)
(* Every table is a frame of memory that the allocator marks as taken,     *)
(* that nobody else holds and that is not part of the bitmap: no later     *)
(* request, whatever was released before, hands it out.                    *)
(***************************************************************************)
TablesKept ==
  /\ Tables \subseteq ppa.bits \cap Usable(ppa)
  /\ Tables \cap (others \cup Pages(0, LowPages) \cup Pages(ppa.data, bitmap_pages(ppa))) = {}

(***************************************************************************)
(* pmm_map_memory goes wrong only when every frame of memory from the      *)
(* search hint on is taken.                                                *)
(***************************************************************************)
LostOnlyWhenFull ==
  [][lost' /\ ~ lost => ppa.last_hit .. ppa.max_index \subseteq ppa'.bits]_vars

\* What the pages translate to.
Translations == [v \in MappedPages |-> UNION {Translation(mem, root, v) : root \in PML4}]

(***************************************************************************)
(* What pmm_find_paddr finds is what was last mapped, page by page; a call *)
(* that runs out of tables midway maps nothing.                            *)
(***************************************************************************)
Space ==
  INSTANCE AddressSpace WITH
    Page <- MappedPages,
    Frame <- Targets,
    space <- Translations

ImplementsAddressSpace == Space!Spec

=============================================================================
