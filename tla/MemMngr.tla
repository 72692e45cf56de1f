------------------------------- MODULE MemMngr -------------------------------
(***************************************************************************)
(* The memory manager of systems_program/proj1 (memory_manager.c, with the *)
(* bitmap of bitmap.c). The pool is a chain of lists, one per slot size; a *)
(* list is a chain of batches of SlotCount slots each and one bitmap with  *)
(* a bit per slot, set while the slot is free.                             *)
(*                                                                         *)
(* A pointer is named by the batch memory it points into and the slot; the *)
(* slot SlotCount is the end of the batch. A bit of a bitmap is named by   *)
(* the number of its batch and the slot, which stands for its position     *)
(* (batch - 1) * SlotCount + slot. The manager is used by one thread, and  *)
(* a call is one step.                                                     *)
(***************************************************************************)
EXTENDS Naturals, Sequences

CONSTANTS Requests,   \* the sizes asked for, in bytes
          Chunks,     \* the batch memories malloc can return (the bound on
                      \* the number of batches there are at a time)
          NoPtr,
          SlotCount,  \* MEM_BATCH_SLOT_COUNT, as many as bits in a byte
          Align       \* MEM_ALIGNMENT_BOUNDARY

ASSUME RequestsAssumption == Requests \subseteq Nat
ASSUME SlotCountAssumption == SlotCount \in Nat \ {0}
ASSUME AlignAssumption == Align \in Nat \ {0}

Slots == 0 .. SlotCount - 1
Pointers == [chunk : Chunks, slot : 0 .. SlotCount]
ASSUME NoPtrAssumption == NoPtr \notin Pointers

VARIABLES status,    \* uninit, ready, left (mem_mngr_leave was called), hung
                     \* (in an endless loop) or crashed
          mem_pool,  \* the lists, in the order of the chain
          held,      \* the pointers the client got and did not free
          last,      \* the pointer the latest mem_mngr_alloc returned
          strayFree  \* the client freed the end of a batch, and it worked

vars == <<status, mem_pool, held, last, strayFree>>

Lists == [slot_size : Nat, batches : Seq(Chunks), batch_count : Nat,
          bitmap_size : Nat, free_slots : SUBSET (Nat \X Slots)]

TypeOK == /\ status \in {"uninit", "ready", "left", "hung", "crashed"}
          /\ mem_pool \in Seq(Lists)
          /\ held \in SUBSET Pointers
          /\ last \in Pointers \cup {NoPtr}
          /\ strayFree \in BOOLEAN

Init == /\ status = "uninit"
        /\ mem_pool = <<>>
        /\ held = {}
        /\ last = NoPtr
        /\ strayFree = FALSE

-----------------------------------------------------------------------------
\* SLOT_ALLINED_SIZE
AlignedSize(size) == ((size + Align - 1) \div Align) * Align

\* malloc for a batch returns memory that no batch of the pool has.
Unused(chunk) == \A l \in DOMAIN mem_pool : \A b \in DOMAIN mem_pool[l].batches :
                     mem_pool[l].batches[b] # chunk

EmptyList(size) == [slot_size |-> size, batches |-> <<>>, batch_count |-> 0,
                    bitmap_size |-> 0, free_slots |-> {}]

\* Mistaken variant: batch_count stays behind.
AddBatchUncounted(list, chunk) ==
    [list EXCEPT !.batches = Append(@, chunk),
                 !.bitmap_size = @ + 1,
                 !.free_slots = @ \cup ({list.bitmap_size + 1} \X Slots)]

\* create_new_memory_batch with increment_free_slots_bitmap: one more batch at
\* the end of the chain, and one more byte of set bits.
AddBatch(list, chunk) ==
    [list EXCEPT !.batches = Append(@, chunk),
                 !.batch_count = @ + 1,
                 !.bitmap_size = @ + 1,
                 !.free_slots = @ \cup ({list.bitmap_size + 1} \X Slots)]

\* find_mem_list_by_size: the number of the list, or 0 for NULL. The loop goes
\* from the first list to the second and from there to the second again
\* (memory_manager.c:154), so with two lists it does not end when neither has
\* the size.
NeverFound == 3
FindMemListBySize(size) ==
    IF Len(mem_pool) >= 1 /\ mem_pool[1].slot_size = size THEN 1
    ELSE IF Len(mem_pool) < 2 THEN 0
    ELSE IF mem_pool[2].slot_size = size THEN 2
    ELSE NeverFound

\* bitmap_find_first_bit
FirstOf(bits) == CHOOSE b \in bits : \A c \in bits :
                     b[1] < c[1] \/ (b[1] = c[1] /\ b[2] <= c[2])

\* The address of a slot. A slot of no bytes is where its batch begins.
PtrOf(list, bit) == [chunk |-> list.batches[bit[1]],
                     slot |-> IF list.slot_size = 0 THEN 0 ELSE bit[2]]

\* Mistaken variant: the bit stays set.
HandOutUncleared(l, list, bit) ==
    /\ mem_pool' = [k \in DOMAIN mem_pool \cup {l} |-> IF k = l THEN list ELSE mem_pool[k]]
    /\ last' = PtrOf(list, bit)
    /\ held' = held \cup {PtrOf(list, bit)}
    /\ UNCHANGED <<status, strayFree>>

\* The end of mem_mngr_alloc: list number l becomes `list` with its bit
\* cleared, and the client gets the slot.
HandOut(l, list, bit) ==
    /\ mem_pool' = [k \in DOMAIN mem_pool \cup {l} |->
                       IF k = l THEN [list EXCEPT !.free_slots = @ \ {bit}]
                                ELSE mem_pool[k]]
    /\ last' = PtrOf(list, bit)
    /\ held' = held \cup {PtrOf(list, bit)}
    /\ UNCHANGED <<status, strayFree>>

AllocFromFree(size) ==
    LET l == FindMemListBySize(size) IN
    /\ l \in {1, 2}
    /\ mem_pool[l].free_slots # {}
    /\ HandOut(l, mem_pool[l], FirstOf(mem_pool[l].free_slots))

\* Mistaken variant: the position is computed from the old batch count.
AllocFromOldBatch(size, chunk) ==
    LET l == FindMemListBySize(size) IN
    /\ l \in {1, 2}
    /\ mem_pool[l].free_slots = {}
    /\ Unused(chunk)
    /\ HandOut(l, AddBatch(mem_pool[l], chunk), <<mem_pool[l].batch_count, 0>>)

\* No slot is free: a new batch, whose first slot has the position
\* MEM_BATCH_SLOT_COUNT * (batch_count - 1).
AllocFromNewBatch(size, chunk) ==
    LET l == FindMemListBySize(size) IN
    /\ l \in {1, 2}
    /\ mem_pool[l].free_slots = {}
    /\ Unused(chunk)
    /\ LET list == AddBatch(mem_pool[l], chunk) IN HandOut(l, list, <<list.batch_count, 0>>)

\* No list has this size yet: create_new_memory_list at the end of the chain.
AllocFromNewList(size, chunk) ==
    /\ FindMemListBySize(size) = 0
    /\ Unused(chunk)
    /\ LET list == AddBatch(EmptyList(size), chunk)
       IN  HandOut(Len(mem_pool) + 1, list, FirstOf(list.free_slots))

AllocHangs(size) == /\ FindMemListBySize(size) = NeverFound
                    /\ status' = "hung"
                    /\ UNCHANGED <<mem_pool, held, last, strayFree>>

mem_mngr_alloc(request) ==
    /\ status = "ready"
    /\ LET size == AlignedSize(request)
       IN  \/ AllocFromFree(size)
           \/ \E chunk \in Chunks : AllocFromNewBatch(size, chunk)
           \/ \E chunk \in Chunks : AllocFromNewList(size, chunk)
           \/ AllocHangs(size)

\* Without a pool get_last_memory_list follows NULL.
AllocUninitialized == /\ status = "uninit"
                      /\ status' = "crashed"
                      /\ UNCHANGED <<mem_pool, held, last, strayFree>>
-----------------------------------------------------------------------------
\* check_mem_in_batch, for batch number b of a list. The end of the batch is
\* taken for a part of it (memory_manager.c:253).
InBatch(list, b, p) == /\ list.batches[b] = p.chunk
                       /\ list.slot_size = 0 => p.slot = 0

\* get_target_pos: the end of a batch has the position of the first slot of
\* the next one.
TargetPos(b, p) == IF p.slot < SlotCount THEN <<b, p.slot>> ELSE <<b + 1, 0>>

\* get_list_by_address and get_batch_by_address find batch b of list l, and
\* the bit is within the bitmap and clear: the slot is free again.
FreeSlot(l, b, p) ==
    LET bit == TargetPos(b, p) IN
    /\ InBatch(mem_pool[l], b, p)
    /\ mem_pool[l].slot_size # 0
    /\ bit[1] <= mem_pool[l].bitmap_size
    /\ bit \notin mem_pool[l].free_slots
    /\ mem_pool' = [mem_pool EXCEPT ![l].free_slots = @ \cup {bit}]
    /\ held' = held \ {p}
    /\ strayFree' = (strayFree \/ p.slot = SlotCount)
    /\ UNCHANGED <<status, last>>

\* get_target_pos divides by a slot size of 0.
FreeCrashes(l, b, p) == /\ InBatch(mem_pool[l], b, p)
                        /\ mem_pool[l].slot_size = 0
                        /\ status' = "crashed"
                        /\ UNCHANGED <<mem_pool, held, last, strayFree>>

\* The client frees any pointer, its own or not. One that no batch covers, one
\* that is free already and one outside the bitmap are refused, like NULL.
mem_mngr_free(p) ==
    /\ status = "ready"
    /\ \E l \in DOMAIN mem_pool : \E b \in DOMAIN mem_pool[l].batches :
          FreeSlot(l, b, p) \/ FreeCrashes(l, b, p)

mem_mngr_init(chunk) ==
    /\ status \in {"uninit", "left"}
    /\ status' = "ready"
    /\ mem_pool' = <<AddBatch(EmptyList(Align), chunk)>>
    /\ strayFree' = FALSE
    /\ UNCHANGED <<held, last>>

\* mem_mngr_leave frees the batch memories. The chain stays behind with its
\* dangling pointers, and only mem_mngr_init replaces it.
mem_mngr_leave == /\ status = "ready"
                  /\ status' = "left"
                  /\ held' = {}
                  /\ UNCHANGED <<mem_pool, last, strayFree>>

Next == \/ \E chunk \in Chunks : mem_mngr_init(chunk)
        \/ \E request \in Requests : mem_mngr_alloc(request)
        \/ AllocUninitialized
        \/ \E p \in Pointers : mem_mngr_free(p)
        \/ mem_mngr_leave

Spec == Init /\ [][Next]_vars
-----------------------------------------------------------------------------
\* Each list keeps the number of its batches three times (in the chain, in
\* batch_count and in bitmap_size), no memory is in two batches, and no size
\* has two lists, through every order of allocation.
PoolWellFormed ==
    /\ \A l \in DOMAIN mem_pool :
          /\ mem_pool[l].batch_count = Len(mem_pool[l].batches)
          /\ mem_pool[l].bitmap_size = Len(mem_pool[l].batches)
          /\ mem_pool[l].free_slots \subseteq (1 .. mem_pool[l].bitmap_size) \X Slots
    /\ \A l, k \in DOMAIN mem_pool :
          /\ mem_pool[l].slot_size = mem_pool[k].slot_size => l = k
          /\ \A b \in DOMAIN mem_pool[l].batches, c \in DOMAIN mem_pool[k].batches :
                mem_pool[l].batches[b] = mem_pool[k].batches[c] => l = k /\ b = c

\* The pool never has a third list: the call that would need one hangs in
\* find_mem_list_by_size (memory_manager.c:147-157).
NoThirdList == Len(mem_pool) <= 2

\* "return: the pointer to the matched memory list or return NULL if not found"
\* (memory_manager.c:145): the lookup by size always returns.
LookupReturns == status # "hung"

\* The pointers whose bit is clear, in the lists with slots of some bytes.
Taken == UNION {{PtrOf(mem_pool[l], bit) :
                   bit \in ((1 .. mem_pool[l].bitmap_size) \X Slots)
                             \ mem_pool[l].free_slots} :
                l \in {k \in DOMAIN mem_pool : mem_pool[k].slot_size # 0}}

\* The bitmaps say exactly what the client holds, through double frees and
\* frees of foreign pointers, until it frees the end of a batch.
BitmapMatchesHeld ==
    status = "ready" /\ ~strayFree =>
        \A l \in DOMAIN mem_pool, p \in Pointers :
            mem_pool[l].slot_size # 0 /\ (\E b \in DOMAIN mem_pool[l].batches :
                                             mem_pool[l].batches[b] = p.chunk)
              => (p \in held <=> p \in Taken)

\* No slot is handed out while it is taken. After a stray free nothing is
\* claimed (the mapping gives up all blocks, and hands out none).
Allocator == INSTANCE BlockAllocator WITH
    Blocks <- Pointers,
    NoBlock <- NoPtr,
    live <- IF strayFree \/ status = "left" THEN {} ELSE Taken
IsAllocator == Allocator!Spec
=============================================================================
