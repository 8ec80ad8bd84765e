---------------------------- MODULE KernelMemory ----------------------------
(***************************************************************************)
(* How the kernel sets its memory up: init_kernel from ppa_init on, with   *)
(* init_pmm and the page of init_idt, and the mapping test of _start.  The *)
(* allocator and the page tables are those of PageFrames and PageMap; a    *)
(* call of pmm_map_memory is one step, the loops of init_pmm are not.      *)
(***************************************************************************)
EXTENDS PageMap

CONSTANTS
  KernelPages,    \* frames of the kernel's image, which starts at frame 0
  FrameBuffers,   \* frame buffers: first frame, whole frames, a part of one more
  TestPage,       \* 0x600000000 in frames
  TestFrame       \* 0x80000 in frames

ASSUME KernelAssumption ==
  /\ KernelPages \in Nat /\ TestPage \in Nat /\ TestFrame \in Nat
  /\ FrameBuffers \subseteq Nat \X Nat \X {0, 1}
  \* The sizes in bytes are 64-bit numbers.
  /\ KernelPages < CounterMod /\ \A f \in FrameBuffers : f[2] + 1 < CounterMod

\* Addresses have 48 bits, of which the four indices of a page number leave out
\* none but the offset.
ASSUME AddressAssumption ==
  LET pages == Fanout * (Fanout * (Fanout * Fanout))
  IN  /\ \A m \in MemoryMaps : MapPages(m) <= pages
      /\ \A f \in FrameBuffers : f[1] + f[2] + 1 + f[3] <= pages
      /\ TestPage < pages

VARIABLES
  pc,     \* where the thread is
  fb,     \* the frame buffer of BootInfo
  addr,   \* the loops of init_pmm, in frames
  cr3     \* the set of the root table in use, {} while it is the firmware's

kernel_vars == <<vars, pc, fb, addr, cr3>>

\* fbsize is the frame buffer's size and a frame.
fbsize_div == fb[2] + 1            \* fbsize / 4096
fbsize_up  == fb[2] + 1 + fb[3]    \* the addresses below fbbase + fbsize

KernelImage == Pages(0, KernelPages)
LockedFb == Pages(fb[1], fbsize_div)

BootInit ==
  /\ ppa = Unbooted /\ mem = <<>> /\ lost = FALSE /\ PML4 = {} /\ others = {}
  /\ pc = "ppa_init" /\ fb \in FrameBuffers /\ addr = 0 /\ cr3 = {}

At(label) == pc = label /\ ~ lost

-----------------------------------------------------------------------------
\* init_kernel does not look at whether ppa_init succeeded.
InitAllocator(m, wraps) ==
  /\ At("ppa_init")
  /\ ppa' = ppa_init(ppa, m, wraps)
  /\ mem' = [f \in Frames(ppa') |-> Junk]
  /\ pc' = "lock_kernel"
  /\ UNCHANGED <<lost, PML4, others, fb, addr, cr3>>

\* A mutation: the last page of the image is left out.
LockKernel_short ==
  /\ At("lock_kernel")
  /\ ppa' = ppa_lckn(ppa, 0, KernelPages - 1)
  /\ pc' = "lock_fb"
  /\ UNCHANGED <<mem, lost, PML4, others, fb, addr, cr3>>

LockKernel ==
  /\ At("lock_kernel")
  /\ ppa' = ppa_lckn(ppa, 0, KernelPages)
  /\ pc' = "lock_fb"
  /\ UNCHANGED <<mem, lost, PML4, others, fb, addr, cr3>>

\* A mutation: the frame buffer is not locked.
LockFrameBuffer_missing ==
  /\ At("lock_fb")
  /\ pc' = "pml4"
  /\ UNCHANGED <<ppa, mem, lost, PML4, others, fb, addr, cr3>>

\* Also where the frame buffer is not RAM and the allocator has no bit for it.
LockFrameBuffer ==
  /\ At("lock_fb")
  /\ ppa' = ppa_lckn(ppa, fb[1], fbsize_div)
  /\ pc' = "pml4"
  /\ UNCHANGED <<mem, lost, PML4, others, fb, addr, cr3>>

\* init_pmm: the root table, ...
RequestPml4 ==
  /\ At("pml4")
  /\ InitPml4
  /\ pc' = "identity"
  /\ UNCHANGED <<fb, addr, cr3>>

\* A mutation: the loop ends one page early.
MapMemory_short ==
  /\ At("identity")
  /\ IF addr + 1 < ppa.total
       THEN Map(PageOf(addr), addr) /\ addr' = addr + 1 /\ UNCHANGED pc
       ELSE addr' = fb[1] /\ pc' = "map_fb" /\ UNCHANGED vars
  /\ UNCHANGED <<fb, cr3>>

\* ... every page below mem_total, ...
MapMemory ==
  /\ At("identity")
  /\ IF addr < ppa.total
       THEN Map(PageOf(addr), addr) /\ addr' = addr + 1 /\ UNCHANGED pc
       ELSE addr' = fb[1] /\ pc' = "map_fb" /\ UNCHANGED vars
  /\ UNCHANGED <<fb, cr3>>

\* ... every page of the frame buffer, and the processor's root register.
MapFrameBuffer ==
  /\ At("map_fb")
  /\ IF addr < fb[1] + fbsize_up
       THEN Map(PageOf(addr), addr) /\ addr' = addr + 1 /\ UNCHANGED <<pc, cr3>>
       ELSE cr3' = PML4 /\ pc' = "init_idt" /\ UNCHANGED <<vars, addr>>
  /\ UNCHANGED fb

\* init_idt: a frame for the descriptor table, filled in at once.
RequestIdt ==
  /\ At("init_idt")
  /\ \/ TakeFrame
     \/ /\ RequestedFrame(ppa) \notin Usable(ppa)
        /\ ppa' = ppa_request(ppa) /\ lost' = TRUE
        /\ UNCHANGED <<mem, PML4, others>>
  /\ pc' = "test"
  /\ UNCHANGED <<fb, addr, cr3>>

\* A mutation: page and frame are swapped.
TestMapping_swapped ==
  /\ At("test")
  /\ Map(PageOf(TestFrame), TestPage)
  /\ pc' = "done"
  /\ UNCHANGED <<fb, addr, cr3>>

\* _start: the mapping test, which writes a string at TestPage.
TestMapping ==
  /\ At("test")
  /\ Map(PageOf(TestPage), TestFrame)
  /\ pc' = "done"
  /\ UNCHANGED <<fb, addr, cr3>>

BootNext ==
  \/ \E m \in MemoryMaps, wraps \in BOOLEAN : InitAllocator(m, wraps)
  \/ LockKernel \/ LockFrameBuffer \/ RequestPml4 \/ MapMemory \/ MapFrameBuffer
  \/ RequestIdt \/ TestMapping

BootSpec == BootInit /\ [][BootNext]_kernel_vars

-----------------------------------------------------------------------------
Booted == ppa.initialized /\ ~ lost

\* What the root table in use translates page number a to.
Translated(a) == UNION {Translation(mem, root, PageOf(a)) : root \in cr3}

(***************************************************************************)
(* The frames the kernel asks for, its page tables and its descriptor      *)
(* table, are none of those it or the loader already uses: the image, the  *)
(* frame buffer, the bitmap, the low megabyte.                             *)
(***************************************************************************)
NewFramesApart ==
  Booted /\ pc \notin {"ppa_init", "lock_kernel", "lock_fb"} =>
    /\ (Tables \cup others) \cap
         (KernelImage \cup LockedFb \cup Pages(0, LowPages)
            \cup Pages(ppa.data, bitmap_pages(ppa))) = {}
    /\ Tables \cap others = {}

(***************************************************************************)
(* Once the kernel's tables are in use, every frame below mem_total and    *)
(* the frame buffer are found at their own address: in particular the      *)
(* tables themselves, which pmm_map_memory goes on to follow by physical   *)
(* address, and the kernel's code.  The mapping test takes one page away   *)
(* if its address is below mem_total or in the frame buffer.               *)
(***************************************************************************)
IdentityMapped ==
  cr3 # {} /\ Booted =>
    \A a \in (Frames(ppa) \cup Pages(fb[1], fbsize_up)) \ {TestPage} : Translated(a) = {a}

(***************************************************************************)
(* The test writes to the frame it means to, and as long as the kernel's   *)
(* image ends below that frame neither the kernel's code nor anything it   *)
(* asked the allocator for is in it.  The bitmap may be, where the largest *)
(* range of memory begins that low: ppa_init places it before it reserves  *)
(* the low frames.                                                         *)
(***************************************************************************)
TestWriteHarmless ==
  pc = "done" /\ ~ lost =>
    /\ Translated(TestPage) = {TestFrame}
    /\ KernelPages <= TestFrame /\ TestFrame < LowPages =>
         TestFrame \notin KernelImage \cup Tables \cup others

=============================================================================
