--------------------- MODULE MemMngrAndAlgorithmProofs ---------------------
(***************************************************************************)
(* Theorems of MemMngr for any slot count, alignment, requests and number  *)
(* of batches, and of Algorithms for input files of any size.              *)
(*   MemMngr.  The bitmaps and the pointers the client holds agree only as *)
(* long as the pool is well formed, so both are parts of one invariant;    *)
(* every way of allocating is first brought to the form of a list that     *)
(* continues the one in the pool and one of its free bits.                 *)
(*   Algorithms.  A loop and a recursion are functions of the rounds or    *)
(* halvings so far; that such a function has values at all is shown once   *)
(* (LoopHasValues, EndlessLoopHasValues), and each algorithm then has its  *)
(* own induction on the rounds: what is left, added or tried (knapsack),   *)
(* visited (Dijkstra), multiplied (Strassen) or covered (tromino).         *)
(***************************************************************************)
EXTENDS MemMngr, Algorithms, FiniteSetTheorems, SequenceTheorems, WellFoundedInduction, TLAPS

\* A set of numbers that is not empty has a least element.
LEMMA LeastNumber ==
    ASSUME NEW N \in SUBSET Nat, N # {}
    PROVE  \E m \in N : \A n \in N : m <= n
<1> DEFINE Less == {p \in Nat \X Nat : p[1] < p[2]}
<1>1. IsWellFoundedOn(Less, Nat)
  BY NatLessThanWellFounded DEF OpToRel
<1>2. PICK m \in N : \A n \in N : ~(<<n, m>> \in Less)
  <2> HIDE DEF Less
  <2> QED BY <1>1, WFMin
<1>3. ASSUME NEW n \in N PROVE m <= n
  <2>1. n \in Nat /\ m \in Nat
    OBVIOUS
  <2>2. <<n, m>> \in Nat \X Nat /\ <<n, m>> \notin Less
    BY <1>2, <2>1
  <2>3. ~(n < m)
    BY <2>2
  <2> QED BY <2>1, <2>3
<1> QED BY <1>3

\* bitmap_find_first_bit finds a bit that is set if there is one.
LEMMA FirstOfIsOne ==
    ASSUME NEW bits \in SUBSET (Nat \X Slots), bits # {}
    PROVE  FirstOf(bits) \in bits
<1> DEFINE Batches == {b[1] : b \in bits}
<1>1. PICK m \in Batches : \A n \in Batches : m <= n
  <2>1. Batches \in SUBSET Nat /\ Batches # {}
    OBVIOUS
  <2> QED BY <2>1, LeastNumber
<1> DEFINE InFirst == {s \in Slots : <<m, s>> \in bits}
<1>2. PICK s \in InFirst : \A t \in InFirst : s <= t
  <2>1. InFirst \in SUBSET Nat /\ InFirst # {}
    BY <1>1, SlotCountAssumption DEF Slots
  <2> QED BY <2>1, LeastNumber
<1>3. \A c \in bits : m < c[1] \/ (m = c[1] /\ s <= c[2])
  <2> SUFFICES ASSUME NEW c \in bits, ~(m < c[1])
               PROVE  m = c[1] /\ s <= c[2]
    OBVIOUS
  <2>1. c = <<c[1], c[2]>> /\ c[1] \in Nat /\ c[2] \in Slots /\ m \in Nat
    BY <1>1
  <2>2. m = c[1]
    BY <2>1, <1>1
  <2>3. c[2] \in InFirst
    BY <2>1, <2>2
  <2> QED BY <2>2, <2>3, <1>2
<1>4. <<m, s>> \in bits
  BY <1>2
<1> QED BY <1>3, <1>4 DEF FirstOf

LEMMA FunctionIsSeq ==
    ASSUME NEW S, NEW n \in Nat, NEW f \in [1 .. n -> S]
    PROVE  f \in Seq(S) /\ Len(f) = n
<1>1. f \in Seq(S)
  BY SeqDef
<1>2. 1 .. Len(f) = 1 .. n /\ Len(f) \in Nat
  BY <1>1, LenProperties
<1> QED BY <1>1, <1>2

\* The pool with list number l replaced, or with one more list.
PoolWith(pool, l, list) ==
    [k \in DOMAIN pool \cup {l} |-> IF k = l THEN list ELSE pool[k]]

LEMMA PoolWithIsSeq ==
    ASSUME NEW pool \in Seq(Lists), NEW list \in Lists, NEW l \in 1 .. Len(pool) + 1
    PROVE  /\ PoolWith(pool, l, list) \in Seq(Lists)
           /\ Len(PoolWith(pool, l, list)) = IF l = Len(pool) + 1 THEN l ELSE Len(pool)
<1> DEFINE n == IF l = Len(pool) + 1 THEN l ELSE Len(pool)
<1>1. DOMAIN pool = 1 .. Len(pool) /\ Len(pool) \in Nat
      /\ \A k \in DOMAIN pool : pool[k] \in Lists
  BY LenProperties, ElementOfSeq
<1>2. n \in Nat /\ DOMAIN pool \cup {l} = 1 .. n
  BY <1>1
<1>3. PoolWith(pool, l, list) \in [1 .. n -> Lists]
  BY <1>1, <1>2 DEF PoolWith
<1> HIDE DEF n
<1>4. PoolWith(pool, l, list) \in Seq(Lists) /\ Len(PoolWith(pool, l, list)) = n
  BY <1>2, <1>3, FunctionIsSeq
<1> QED BY <1>4 DEF n

-----------------------------------------------------------------------------
\* What the bitmaps say of a pointer into batch b of list l.
IsTaken(l, b, p) == /\ mem_pool[l].slot_size # 0
                    /\ mem_pool[l].batches[b] = p.chunk
                    /\ p.slot \in Slots
                    /\ <<b, p.slot>> \notin mem_pool[l].free_slots

\* What the pool's lists look like one by one.
LEMMA ListShape ==
    ASSUME TypeOK, PoolWellFormed, NEW l \in DOMAIN mem_pool
    PROVE  /\ mem_pool[l] \in Lists
           /\ DOMAIN mem_pool[l].batches = 1 .. mem_pool[l].bitmap_size
           /\ Len(mem_pool[l].batches) = mem_pool[l].bitmap_size
           /\ mem_pool[l].batch_count = mem_pool[l].bitmap_size
           /\ mem_pool[l].bitmap_size \in Nat
           /\ \A b \in DOMAIN mem_pool[l].batches : mem_pool[l].batches[b] \in Chunks
           /\ mem_pool[l].free_slots \subseteq (DOMAIN mem_pool[l].batches) \X Slots
<1>1. mem_pool[l] \in Lists
  BY LenProperties, ElementOfSeq DEF TypeOK
<1>2. mem_pool[l].batches \in Seq(Chunks) /\ mem_pool[l].bitmap_size \in Nat
  BY <1>1 DEF Lists
<1>3. DOMAIN mem_pool[l].batches = 1 .. Len(mem_pool[l].batches)
  BY <1>2, LenProperties
<1>4. \A b \in DOMAIN mem_pool[l].batches : mem_pool[l].batches[b] \in Chunks
  BY <1>2, <1>3, ElementOfSeq
<1> QED BY <1>1, <1>2, <1>3, <1>4 DEF PoolWellFormed

TakenFact ==
    /\ Taken \subseteq Pointers
    /\ \A p \in Pointers :
          p \in Taken <=> \E l \in DOMAIN mem_pool :
                              \E b \in DOMAIN mem_pool[l].batches : IsTaken(l, b, p)

LEMMA TakenMeans == TypeOK /\ PoolWellFormed => TakenFact
<1> SUFFICES ASSUME TypeOK, PoolWellFormed PROVE TakenFact
  OBVIOUS
<1> DEFINE Used(l) == ((1 .. mem_pool[l].bitmap_size) \X Slots) \ mem_pool[l].free_slots
<1>1. \A p : p \in Taken <=> \E l \in DOMAIN mem_pool :
                  mem_pool[l].slot_size # 0 /\ \E bit \in Used(l) : p = PtrOf(mem_pool[l], bit)
  BY DEF Taken
<1>2. ASSUME NEW l \in DOMAIN mem_pool, mem_pool[l].slot_size # 0, NEW bit \in Used(l)
      PROVE  /\ bit[1] \in DOMAIN mem_pool[l].batches /\ bit[2] \in Slots
             /\ bit = <<bit[1], bit[2]>>
             /\ PtrOf(mem_pool[l], bit) =
                   [chunk |-> mem_pool[l].batches[bit[1]], slot |-> bit[2]]
             /\ PtrOf(mem_pool[l], bit) \in Pointers
  BY <1>2, ListShape, SlotCountAssumption DEF PtrOf, Pointers, Slots
<1>3. Taken \subseteq Pointers
  BY <1>1, <1>2
<1>4. ASSUME NEW p \in Taken
      PROVE  \E l \in DOMAIN mem_pool : \E b \in DOMAIN mem_pool[l].batches : IsTaken(l, b, p)
  <2>1. PICK l \in DOMAIN mem_pool : mem_pool[l].slot_size # 0
                /\ \E bit \in Used(l) : p = PtrOf(mem_pool[l], bit)
    BY <1>1, <1>4
  <2>2. PICK bit \in Used(l) : p = PtrOf(mem_pool[l], bit)
    BY <2>1
  <2>3. IsTaken(l, bit[1], p)
    BY <2>1, <2>2, <1>2 DEF IsTaken
  <2> QED BY <2>1, <2>2, <2>3, <1>2
<1>5. ASSUME NEW p \in Pointers, NEW l \in DOMAIN mem_pool,
             NEW b \in DOMAIN mem_pool[l].batches, IsTaken(l, b, p)
      PROVE  p \in Taken
  <2>1. <<b, p.slot>> \in Used(l)
    BY <1>5, ListShape DEF IsTaken
  <2>2. p = PtrOf(mem_pool[l], <<b, p.slot>>)
    BY <1>5 DEF IsTaken, PtrOf, Pointers
  <2> QED BY <2>1, <2>2, <1>1, <1>5 DEF IsTaken
<1> QED BY <1>3, <1>4, <1>5 DEF TakenFact

-----------------------------------------------------------------------------
\* A client whose manager is not ready has no pointers, there is no pool
\* before mem_mngr_init, and a pointer the client has is into the pool.
ClientInPool ==
    /\ status \in {"uninit", "left"} => held = {}
    /\ status = "uninit" => mem_pool = <<>>
    /\ status = "ready" =>
          \A p \in held : \E l \in DOMAIN mem_pool : \E b \in DOMAIN mem_pool[l].batches :
              mem_pool[l].batches[b] = p.chunk

Invariant == /\ TypeOK
             /\ PoolWellFormed
             /\ NoThirdList
             /\ ClientInPool
             /\ BitmapMatchesHeld

\* A batch that list number l has in the pool.
Old(l, b) == l \in DOMAIN mem_pool /\ b \in DOMAIN mem_pool[l].batches

\* `list` can take the place of list number l: it has the batches and the bits
\* of that one, and perhaps more batches of unused memory, all free.
Continues(l, list) ==
    /\ l \in 1 .. Len(mem_pool) + 1
    /\ l <= 2
    /\ list \in Lists
    /\ DOMAIN list.batches = 1 .. list.bitmap_size
    /\ Len(list.batches) = list.bitmap_size
    /\ list.batch_count = list.bitmap_size
    /\ list.free_slots \subseteq (DOMAIN list.batches) \X Slots
    /\ \A b \in DOMAIN list.batches : list.batches[b] \in Chunks
    /\ \A b, c \in DOMAIN list.batches : list.batches[b] = list.batches[c] => b = c
    /\ \A k \in DOMAIN mem_pool : list.slot_size = mem_pool[k].slot_size <=> k = l
    /\ l \in DOMAIN mem_pool =>
          DOMAIN mem_pool[l].batches \subseteq DOMAIN list.batches
    /\ \A b \in DOMAIN list.batches :
          IF Old(l, b)
          THEN /\ list.batches[b] = mem_pool[l].batches[b]
               /\ \A s \in Slots : <<b, s>> \in list.free_slots
                                      <=> <<b, s>> \in mem_pool[l].free_slots
          ELSE Unused(list.batches[b]) /\ {b} \X Slots \subseteq list.free_slots

\* A list of the pool continues itself.
LEMMA SameListContinues ==
    ASSUME Invariant, NEW l \in DOMAIN mem_pool
    PROVE  Continues(l, mem_pool[l])
<1>1. l \in 1 .. Len(mem_pool) + 1 /\ l <= 2
  <2>1. DOMAIN mem_pool = 1 .. Len(mem_pool) /\ Len(mem_pool) \in Nat
    BY LenProperties DEF Invariant, TypeOK
  <2> QED BY <2>1 DEF Invariant, NoThirdList
<1>2. \A b, c \in DOMAIN mem_pool[l].batches :
         mem_pool[l].batches[b] = mem_pool[l].batches[c] => b = c
  BY DEF Invariant, PoolWellFormed
<1>3. \A k \in DOMAIN mem_pool : mem_pool[l].slot_size = mem_pool[k].slot_size <=> k = l
  BY DEF Invariant, PoolWellFormed
<1> QED BY <1>1, <1>2, <1>3, ListShape DEF Invariant, Continues, Old

\* One more batch of unused memory.
LEMMA AddBatchShape ==
    ASSUME NEW list \in Lists, NEW chunk \in Chunks,
           Len(list.batches) = list.bitmap_size, list.batch_count = list.bitmap_size,
           list.free_slots \subseteq (DOMAIN list.batches) \X Slots
    PROVE  LET new == AddBatch(list, chunk)
               n == list.bitmap_size + 1
           IN  /\ new \in Lists
               /\ DOMAIN new.batches = 1 .. n
               /\ DOMAIN list.batches = 1 .. n - 1
               /\ Len(new.batches) = n
               /\ new.bitmap_size = n
               /\ new.batch_count = n
               /\ n \in Nat \ {0}
               /\ new.slot_size = list.slot_size
               /\ new.free_slots = list.free_slots \cup ({n} \X Slots)
               /\ new.batches[n] = chunk
               /\ \A b \in DOMAIN list.batches : /\ new.batches[b] = list.batches[b]
                                                 /\ new.batches[b] \in Chunks
<1> DEFINE new == AddBatch(list, chunk)
           n == list.bitmap_size + 1
<1>1. list.batches \in Seq(Chunks) /\ list.bitmap_size \in Nat
  BY DEF Lists
<1>2. /\ new.batches = Append(list.batches, chunk)
      /\ new.bitmap_size = n
      /\ new.batch_count = n
      /\ new.slot_size = list.slot_size
      /\ new.free_slots = list.free_slots \cup ({n} \X Slots)
  BY DEF AddBatch, Lists
<1>3. /\ new.batches \in Seq(Chunks)
      /\ Len(new.batches) = n
      /\ new.batches[n] = chunk
      /\ \A b \in 1 .. Len(list.batches) : new.batches[b] = list.batches[b]
  BY <1>1, <1>2, AppendProperties
<1>4. DOMAIN new.batches = 1 .. n /\ DOMAIN list.batches = 1 .. n - 1
  BY <1>1, <1>3, LenProperties
<1>5. new \in Lists
  <2>1. Append(list.batches, chunk) \in Seq(Chunks)
    BY <1>2, <1>3
  <2>2. list.batch_count + 1 \in Nat /\ list.bitmap_size + 1 \in Nat
    BY <1>1
  <2>3. list.free_slots \cup ({list.bitmap_size + 1} \X Slots) \in SUBSET (Nat \X Slots)
    BY <1>1 DEF Lists
  <2> QED BY <2>1, <2>2, <2>3 DEF AddBatch, Lists
<1>6. \A b \in DOMAIN list.batches : list.batches[b] \in Chunks
  BY <1>1, <1>4, ElementOfSeq
<1> HIDE DEF new
<1>7. n \in Nat \ {0}
  BY <1>1
<1>8. \A b \in DOMAIN list.batches : /\ new.batches[b] = list.batches[b]
                                     /\ new.batches[b] \in Chunks
  BY <1>3, <1>4, <1>6
<1> QED BY <1>2, <1>3, <1>4, <1>5, <1>7, <1>8 DEF new

\* mem_mngr_alloc on a list without a free slot.
LEMMA NewBatchContinues ==
    ASSUME Invariant, NEW l \in DOMAIN mem_pool, NEW chunk \in Chunks, Unused(chunk)
    PROVE  LET list == AddBatch(mem_pool[l], chunk)
           IN  /\ Continues(l, list)
               /\ <<list.batch_count, 0>> \in list.free_slots
<1> DEFINE old == mem_pool[l]
           list == AddBatch(old, chunk)
           n == old.bitmap_size + 1
<1>1. Continues(l, old)
  BY SameListContinues
<1>2. /\ list \in Lists
      /\ DOMAIN list.batches = 1 .. n
      /\ DOMAIN old.batches = 1 .. n - 1
      /\ Len(list.batches) = n
      /\ list.bitmap_size = n
      /\ list.batch_count = n
      /\ n \in Nat \ {0}
      /\ list.slot_size = old.slot_size
      /\ list.free_slots = old.free_slots \cup ({n} \X Slots)
      /\ list.batches[n] = chunk
      /\ \A b \in DOMAIN old.batches : /\ list.batches[b] = old.batches[b]
                                       /\ list.batches[b] \in Chunks
  <2>1. /\ old \in Lists /\ Len(old.batches) = old.bitmap_size
        /\ old.batch_count = old.bitmap_size
        /\ old.free_slots \subseteq (DOMAIN old.batches) \X Slots
    BY <1>1 DEF Continues
  <2> HIDE DEF old, list, n
  <2> QED BY <2>1, AddBatchShape DEF list, n
<1>3. \A b \in DOMAIN old.batches : old.batches[b] # chunk
  BY DEF Unused
<1>4. DOMAIN list.batches = DOMAIN old.batches \cup {n} /\ n \notin DOMAIN old.batches
      /\ n \in DOMAIN list.batches
  <2> HIDE DEF list, n
  <2> QED BY <1>2
<1> HIDE DEF list, n
<1>5. \A b, c \in DOMAIN list.batches : list.batches[b] = list.batches[c] => b = c
  BY <1>1, <1>2, <1>3, <1>4 DEF Continues
<1>6. ASSUME NEW b \in DOMAIN list.batches
      PROVE  IF Old(l, b)
             THEN /\ list.batches[b] = old.batches[b]
                  /\ \A s \in Slots : <<b, s>> \in list.free_slots <=> <<b, s>> \in old.free_slots
             ELSE Unused(list.batches[b]) /\ {b} \X Slots \subseteq list.free_slots
  <2>1. CASE b = n
    BY <2>1, <1>2, <1>4 DEF Old
  <2>2. CASE b # n
    BY <2>2, <1>2, <1>4 DEF Old
  <2> QED BY <2>1, <2>2
<1>7. list.free_slots \subseteq (DOMAIN list.batches) \X Slots
  BY <1>1, <1>2, <1>4 DEF Continues
<1>8. \A b \in DOMAIN list.batches : list.batches[b] \in Chunks
  BY <1>2, <1>4
<1>9. <<list.batch_count, 0>> \in list.free_slots
  BY <1>2, SlotCountAssumption DEF Slots
<1>10. Continues(l, list)
  BY <1>1, <1>2, <1>4, <1>5, <1>6, <1>7, <1>8 DEF Continues
<1> QED BY <1>9, <1>10 DEF list

\* mem_mngr_alloc of a size no list has yet, and mem_mngr_init in an empty pool.
LEMMA NewListShape ==
    ASSUME NEW size \in Nat, NEW chunk \in Chunks
    PROVE  LET list == AddBatch(EmptyList(size), chunk)
           IN  /\ list \in Lists
               /\ DOMAIN list.batches = {1}
               /\ Len(list.batches) = 1
               /\ list.bitmap_size = 1
               /\ list.batch_count = 1
               /\ list.slot_size = size
               /\ list.free_slots = {1} \X Slots
               /\ list.batches[1] = chunk
<1> DEFINE list == EmptyList(size)
<1>1. /\ list \in Lists
      /\ list.bitmap_size = 0 /\ list.batch_count = 0 /\ list.slot_size = size
      /\ list.batches = <<>> /\ list.free_slots = {}
  BY DEF EmptyList, Lists
<1>2. /\ Len(list.batches) = list.bitmap_size
      /\ list.batch_count = list.bitmap_size
      /\ list.free_slots \subseteq (DOMAIN list.batches) \X Slots
  BY <1>1
<1> HIDE DEF list
<1>3. LET new == AddBatch(list, chunk)
          n == list.bitmap_size + 1
      IN  /\ new \in Lists
          /\ DOMAIN new.batches = 1 .. n
          /\ Len(new.batches) = n
          /\ new.bitmap_size = n
          /\ new.batch_count = n
          /\ new.slot_size = list.slot_size
          /\ new.free_slots = list.free_slots \cup ({n} \X Slots)
          /\ new.batches[n] = chunk
  <2>1. list \in Lists
    BY <1>1
  <2> QED BY ONLY <2>1, <1>2, chunk \in Chunks, AddBatchShape
<1> QED BY <1>1, <1>3 DEF list

LEMMA NewListContinues ==
    ASSUME Invariant, NEW size \in Nat, NEW chunk \in Chunks, Unused(chunk),
           FindMemListBySize(size) = 0
    PROVE  LET list == AddBatch(EmptyList(size), chunk)
           IN  Continues(Len(mem_pool) + 1, list) /\ list.free_slots # {}
<1> DEFINE list == AddBatch(EmptyList(size), chunk)
           l == Len(mem_pool) + 1
<1>1. /\ list \in Lists
      /\ DOMAIN list.batches = {1}
      /\ Len(list.batches) = 1
      /\ list.bitmap_size = 1
      /\ list.batch_count = 1
      /\ list.slot_size = size
      /\ list.free_slots = {1} \X Slots
      /\ list.batches[1] = chunk
  BY NewListShape
<1>2. DOMAIN mem_pool = 1 .. Len(mem_pool) /\ Len(mem_pool) \in Nat
  BY LenProperties DEF Invariant, TypeOK
<1>3. l \in 1 .. Len(mem_pool) + 1 /\ l <= 2 /\ l \notin DOMAIN mem_pool
      /\ \A k \in DOMAIN mem_pool : mem_pool[k].slot_size # size
  BY <1>2 DEF FindMemListBySize, NeverFound
<1> HIDE DEF list, l
<1>4. list.free_slots # {}
  <2>1. 0 \in Slots
    BY SlotCountAssumption DEF Slots
  <2>2. <<1, 0>> \in list.free_slots
    BY <1>1, <2>1
  <2> QED BY <2>2
<1>5. Continues(l, list)
  BY <1>1, <1>3 DEF Continues, Old, l
<1> QED BY <1>4, <1>5 DEF list, l

-----------------------------------------------------------------------------
\* The end of mem_mngr_alloc, wherever the slot comes from: the client gets a
\* slot nobody has, and the bitmaps say so.
LEMMA HandOutEffect ==
    ASSUME Invariant, status = "ready", NEW l, NEW list, Continues(l, list),
           NEW bit \in list.free_slots, HandOut(l, list, bit)
    PROVE  /\ Invariant'
           /\ last' = PtrOf(list, bit) /\ PtrOf(list, bit) \in Pointers \ Taken
           /\ Taken' = IF list.slot_size = 0 THEN Taken ELSE Taken \cup {PtrOf(list, bit)}
<1> DEFINE new == [list EXCEPT !.free_slots = @ \ {bit}]
           ptr == PtrOf(list, bit)
<1>1. /\ new \in Lists
      /\ new.slot_size = list.slot_size
      /\ new.batches = list.batches
      /\ new.batch_count = list.batch_count
      /\ new.bitmap_size = list.bitmap_size
      /\ new.free_slots = list.free_slots \ {bit}
  BY DEF Continues, Lists
<1>2. /\ mem_pool' \in Seq(Lists)
      /\ Len(mem_pool') <= 2
      /\ DOMAIN mem_pool' = DOMAIN mem_pool \cup {l}
      /\ mem_pool'[l] = new
      /\ \A k \in DOMAIN mem_pool \ {l} : mem_pool'[k] = mem_pool[k]
  <2>1. mem_pool' = PoolWith(mem_pool, l, new)
    BY DEF HandOut, PoolWith
  <2>2. mem_pool \in Seq(Lists) /\ l \in 1 .. Len(mem_pool) + 1 /\ l <= 2 /\ Len(mem_pool) <= 2
    BY DEF Invariant, TypeOK, Continues, NoThirdList
  <2>3. new \in Lists
    BY <1>1
  <2> HIDE DEF new, ptr
  <2>4. mem_pool' \in Seq(Lists)
        /\ Len(mem_pool') = IF l = Len(mem_pool) + 1 THEN l ELSE Len(mem_pool)
    BY <2>1, <2>2, <2>3, PoolWithIsSeq
  <2>5. Len(mem_pool') <= 2
    BY <2>2, <2>4
  <2>6. /\ DOMAIN mem_pool' = DOMAIN mem_pool \cup {l}
        /\ mem_pool'[l] = new
        /\ \A k \in DOMAIN mem_pool \ {l} : mem_pool'[k] = mem_pool[k]
    BY <2>1 DEF PoolWith
  <2> QED BY <2>4, <2>5, <2>6
<1>3. /\ bit[1] \in DOMAIN list.batches /\ bit[2] \in Slots /\ bit = <<bit[1], bit[2]>>
      /\ ptr \in Pointers
      /\ ptr.chunk = list.batches[bit[1]]
      /\ list.slot_size # 0 => ptr.slot = bit[2]
  BY SlotCountAssumption DEF Continues, PtrOf, Pointers, Slots
<1>4. held' = held \cup {ptr} /\ last' = ptr /\ UNCHANGED <<status, strayFree>>
  BY DEF HandOut
<1> HIDE DEF new, ptr
<1>5. TypeOK'
  BY <1>2, <1>3, <1>4 DEF Invariant, TypeOK
<1>6. NoThirdList'
  BY <1>2 DEF NoThirdList
<1>7. \A k \in DOMAIN mem_pool \ {l} :
         /\ mem_pool[k].slot_size # list.slot_size
         /\ \A b \in DOMAIN list.batches, c \in DOMAIN mem_pool[k].batches :
               list.batches[b] # mem_pool[k].batches[c]
  BY DEF Invariant, PoolWellFormed, Continues, Old, Unused
<1>8. PoolWellFormed'
  <2>1. ASSUME NEW k \in DOMAIN mem_pool'
        PROVE  /\ mem_pool'[k].batch_count = Len(mem_pool'[k].batches)
               /\ mem_pool'[k].bitmap_size = Len(mem_pool'[k].batches)
               /\ mem_pool'[k].free_slots \subseteq (1 .. mem_pool'[k].bitmap_size) \X Slots
    <3>1. CASE k = l
      BY <3>1, <1>1, <1>2 DEF Continues
    <3>2. CASE k # l
      BY <3>2, <1>2 DEF Invariant, PoolWellFormed
    <3> QED BY <3>1, <3>2
  <2>2. ASSUME NEW k \in DOMAIN mem_pool', NEW m \in DOMAIN mem_pool'
        PROVE  /\ mem_pool'[k].slot_size = mem_pool'[m].slot_size => k = m
               /\ \A b \in DOMAIN mem_pool'[k].batches, c \in DOMAIN mem_pool'[m].batches :
                     mem_pool'[k].batches[b] = mem_pool'[m].batches[c] => k = m /\ b = c
    <3>1. CASE k = l /\ m = l
      BY <3>1, <1>1, <1>2 DEF Continues
    <3>2. CASE k = l /\ m # l
      BY <3>2, <1>1, <1>2, <1>7
    <3>3. CASE k # l /\ m = l
      BY <3>3, <1>1, <1>2, <1>7
    <3>4. CASE k # l /\ m # l
      BY <3>4, <1>2 DEF Invariant, PoolWellFormed
    <3> QED BY <3>1, <3>2, <3>3, <3>4
  <2> QED BY <2>1, <2>2 DEF PoolWellFormed
<1>9. TakenFact /\ TakenFact'
  <2>1. TakenFact
    BY TakenMeans DEF Invariant
  <2>2. TakenFact'
    BY <1>5, <1>8, TakenMeans, PTL
  <2> QED BY <2>1, <2>2
<1>10. ptr \notin Taken
  <2> SUFFICES ASSUME NEW k \in DOMAIN mem_pool, NEW b \in DOMAIN mem_pool[k].batches,
                      IsTaken(k, b, ptr)
               PROVE  FALSE
    BY <1>3, <1>9 DEF TakenFact
  <2>1. mem_pool[k].batches[b] = list.batches[bit[1]] /\ ptr.slot \in Slots
        /\ <<b, ptr.slot>> \notin mem_pool[k].free_slots /\ mem_pool[k].slot_size # 0
    BY <1>3 DEF IsTaken
  <2>2. k = l
    BY <2>1, <1>3, <1>7
  <2>3. Old(l, bit[1])
    BY <2>1, <1>3 DEF Continues, Unused
  <2>4. b = bit[1]
    BY <2>1, <2>2, <2>3, <1>3 DEF Invariant, PoolWellFormed, Continues, Old
  <2>5. list.slot_size # 0
    BY <2>1, <2>2 DEF Continues
  <2>6. bit \in mem_pool[l].free_slots
    BY <2>3, <1>3 DEF Continues
  <2> QED BY <2>1, <2>2, <2>4, <2>5, <2>6, <1>3
<1>11. ASSUME NEW p \in Pointers
       PROVE  p \in Taken' <=> p \in Taken \/ (list.slot_size # 0 /\ p = ptr)
  <2>1. ASSUME NEW k \in DOMAIN mem_pool', NEW b \in DOMAIN mem_pool'[k].batches,
               IsTaken(k, b, p)'
        PROVE  p \in Taken \/ (list.slot_size # 0 /\ p = ptr)
    <3>1. CASE k # l
      <4>1. k \in DOMAIN mem_pool /\ b \in DOMAIN mem_pool[k].batches /\ IsTaken(k, b, p)
        BY <2>1, <3>1, <1>2 DEF IsTaken
      <4> QED BY <4>1, <1>9 DEF TakenFact
    <3>2. CASE k = l
      <4>1. /\ list.slot_size # 0 /\ b \in DOMAIN list.batches /\ list.batches[b] = p.chunk
            /\ p.slot \in Slots /\ <<b, p.slot>> \notin list.free_slots \ {bit}
        BY <2>1, <3>2, <1>1, <1>2 DEF IsTaken
      <4>2. CASE <<b, p.slot>> = bit
        <5>1. p.chunk = ptr.chunk /\ p.slot = ptr.slot
          BY <4>1, <4>2, <1>3
        <5>2. p = ptr
          BY <5>1, <1>3 DEF Pointers
        <5> QED BY <5>2, <4>1
      <4>3. CASE <<b, p.slot>> # bit
        <5>1. <<b, p.slot>> \notin list.free_slots
          BY <4>1, <4>3
        <5>2. Old(l, b) /\ IsTaken(l, b, p)
          BY <4>1, <5>1 DEF Continues, IsTaken, Old
        <5> QED BY <5>2, <1>9 DEF TakenFact, Old
      <4> QED BY <4>2, <4>3
    <3> QED BY <3>1, <3>2
  <2>2. ASSUME NEW k \in DOMAIN mem_pool, NEW b \in DOMAIN mem_pool[k].batches, IsTaken(k, b, p)
        PROVE  p \in Taken'
    <3>1. k \in DOMAIN mem_pool' /\ b \in DOMAIN mem_pool'[k].batches /\ IsTaken(k, b, p)'
      <4>1. CASE k # l
        BY <2>2, <4>1, <1>2 DEF IsTaken
      <4>2. CASE k = l
        <5>1. b \in DOMAIN list.batches /\ Old(l, b)
          BY <4>2, <2>2 DEF Continues, Old
        <5>2. list.batches[b] = p.chunk /\ <<b, p.slot>> \notin list.free_slots
              /\ list.slot_size # 0 /\ p.slot \in Slots
          BY <5>1, <4>2, <2>2 DEF Continues, IsTaken
        <5> QED BY <5>1, <5>2, <4>2, <1>1, <1>2 DEF IsTaken
      <4> QED BY <4>1, <4>2
    <3> QED BY <3>1, <1>9 DEF TakenFact
  <2>3. ASSUME list.slot_size # 0, p = ptr PROVE p \in Taken'
    <3>1. l \in DOMAIN mem_pool' /\ bit[1] \in DOMAIN mem_pool'[l].batches
          /\ IsTaken(l, bit[1], p)'
      BY <2>3, <1>1, <1>2, <1>3 DEF IsTaken
    <3> QED BY <3>1, <1>9 DEF TakenFact
  <2> QED BY <2>1, <2>2, <2>3, <1>9 DEF TakenFact
<1>12. ClientInPool'
  <2> SUFFICES ASSUME NEW p \in held'
               PROVE  \E k \in DOMAIN mem_pool' : \E b \in DOMAIN mem_pool'[k].batches :
                         mem_pool'[k].batches[b] = p.chunk
    BY <1>4 DEF ClientInPool
  <2>1. CASE p = ptr
    BY <2>1, <1>1, <1>2, <1>3
  <2>2. CASE p # ptr
    <3>1. PICK k \in DOMAIN mem_pool : \E b \in DOMAIN mem_pool[k].batches :
              mem_pool[k].batches[b] = p.chunk
      BY <2>2, <1>4 DEF Invariant, ClientInPool
    <3>2. PICK b \in DOMAIN mem_pool[k].batches : mem_pool[k].batches[b] = p.chunk
      BY <3>1
    <3>3. CASE k # l
      BY <3>2, <3>3, <1>2
    <3>4. CASE k = l
      <4>1. b \in DOMAIN list.batches /\ list.batches[b] = p.chunk
        BY <3>2, <3>4 DEF Continues, Old
      <4> QED BY <4>1, <1>1, <1>2
    <3> QED BY <3>3, <3>4
  <2> QED BY <2>1, <2>2
<1>13. BitmapMatchesHeld'
  <2> SUFFICES ASSUME ~strayFree, NEW k \in DOMAIN mem_pool', NEW p \in Pointers,
                      mem_pool'[k].slot_size # 0,
                      NEW b \in DOMAIN mem_pool'[k].batches, mem_pool'[k].batches[b] = p.chunk
               PROVE  p \in held' <=> p \in Taken'
    BY <1>4 DEF BitmapMatchesHeld
  <2>1. CASE p = ptr
    <3>1. k = l
      BY <2>1, <1>1, <1>2, <1>3, <1>7
    <3> QED BY <2>1, <3>1, <1>1, <1>2, <1>4, <1>11
  <2>2. CASE p # ptr
    <3>1. p \in held <=> p \in Taken
      <4>1. CASE k # l
        BY <4>1, <1>2 DEF Invariant, BitmapMatchesHeld
      <4>2. CASE Old(l, b) /\ k = l
        <5>1. mem_pool[l].slot_size # 0 /\ mem_pool[l].batches[b] = p.chunk
          BY <4>2, <1>1, <1>2 DEF Continues, Old
        <5> QED BY <5>1, <4>2 DEF Invariant, BitmapMatchesHeld, Old
      <4>3. CASE ~Old(l, b) /\ k = l
        <5>1. Unused(p.chunk)
          BY <4>3, <1>1, <1>2 DEF Continues
        <5>2. p \notin held
          BY <5>1 DEF Invariant, ClientInPool, Unused
        <5>3. p \notin Taken
          BY <5>1, <1>9 DEF TakenFact, IsTaken, Unused
        <5> QED BY <5>2, <5>3
      <4> QED BY <4>1, <4>2, <4>3
    <3> QED BY <3>1, <2>2, <1>4, <1>11
  <2> QED BY <2>1, <2>2
<1>14. Taken' = IF list.slot_size = 0 THEN Taken ELSE Taken \cup {ptr}
  <2>1. Taken \subseteq Pointers /\ Taken' \subseteq Pointers
    BY <1>9 DEF TakenFact
  <2> QED BY <2>1, <1>3, <1>11
<1>15. Invariant'
  BY <1>5, <1>6, <1>8, <1>12, <1>13 DEF Invariant
<1> QED BY <1>3, <1>4, <1>10, <1>14, <1>15 DEF ptr

-----------------------------------------------------------------------------
\* mem_mngr_free of a pointer that get_list_by_address finds.
LEMMA FreeEffect ==
    ASSUME Invariant, status = "ready", NEW l \in DOMAIN mem_pool,
           NEW b \in DOMAIN mem_pool[l].batches, NEW p \in Pointers, FreeSlot(l, b, p)
    PROVE  /\ Invariant'
           /\ ~strayFree' => ~strayFree /\ Taken' = Taken \ {p}
           /\ UNCHANGED <<status, last>>
<1> DEFINE bit == TargetPos(b, p)
           new == [mem_pool[l] EXCEPT !.free_slots = @ \cup {bit}]
<1>1. /\ mem_pool[l] \in Lists
      /\ DOMAIN mem_pool[l].batches = 1 .. mem_pool[l].bitmap_size
      /\ mem_pool[l].bitmap_size \in Nat
      /\ mem_pool[l].free_slots \subseteq (1 .. mem_pool[l].bitmap_size) \X Slots
  BY ListShape DEF Invariant
<1>2. bit[1] \in 1 .. mem_pool[l].bitmap_size /\ bit[2] \in Slots /\ bit = <<bit[1], bit[2]>>
  <2>1. p.slot \in 0 .. SlotCount
    BY DEF Pointers
  <2>2. bit[1] <= mem_pool[l].bitmap_size
    BY DEF FreeSlot
  <2> QED BY <1>1, <2>1, <2>2, SlotCountAssumption DEF TargetPos, Slots
<1>3. /\ mem_pool' = [mem_pool EXCEPT ![l] = new]
      /\ held' = held \ {p}
      /\ strayFree' = (strayFree \/ p.slot = SlotCount)
      /\ UNCHANGED <<status, last>>
      /\ mem_pool[l].slot_size # 0 /\ mem_pool[l].batches[b] = p.chunk
  BY DEF FreeSlot, InBatch
<1> HIDE DEF bit
<1>4. /\ new \in Lists
      /\ new.slot_size = mem_pool[l].slot_size
      /\ new.batches = mem_pool[l].batches
      /\ new.batch_count = mem_pool[l].batch_count
      /\ new.bitmap_size = mem_pool[l].bitmap_size
      /\ new.free_slots = mem_pool[l].free_slots \cup {bit}
  BY <1>1, <1>2 DEF Lists
<1> HIDE DEF new
<1>5. /\ mem_pool' \in Seq(Lists)
      /\ Len(mem_pool') = Len(mem_pool)
      /\ DOMAIN mem_pool' = DOMAIN mem_pool
      /\ mem_pool'[l] = new
      /\ \A k \in DOMAIN mem_pool \ {l} : mem_pool'[k] = mem_pool[k]
  <2>1. mem_pool \in Seq(Lists) /\ l \in 1 .. Len(mem_pool)
    BY LenProperties DEF Invariant, TypeOK
  <2> QED BY <2>1, <1>3, <1>4, ExceptSeq
<1>6. TypeOK' /\ NoThirdList'
  BY <1>3, <1>5 DEF Invariant, TypeOK, NoThirdList
<1>7. \A k \in DOMAIN mem_pool : mem_pool'[k].batches = mem_pool[k].batches
                                  /\ mem_pool'[k].slot_size = mem_pool[k].slot_size
  BY <1>4, <1>5
<1>8. PoolWellFormed'
  <2>1. ASSUME NEW k \in DOMAIN mem_pool
        PROVE  /\ mem_pool'[k].batch_count = Len(mem_pool'[k].batches)
               /\ mem_pool'[k].bitmap_size = Len(mem_pool'[k].batches)
               /\ mem_pool'[k].free_slots \subseteq (1 .. mem_pool'[k].bitmap_size) \X Slots
    <3>1. CASE k = l
      BY <3>1, <1>1, <1>2, <1>4, <1>5 DEF Invariant, PoolWellFormed
    <3>2. CASE k # l
      BY <3>2, <1>5 DEF Invariant, PoolWellFormed
    <3> QED BY <3>1, <3>2
  <2>2. \A k, m \in DOMAIN mem_pool :
           /\ mem_pool'[k].slot_size = mem_pool'[m].slot_size => k = m
           /\ \A c \in DOMAIN mem_pool'[k].batches, d \in DOMAIN mem_pool'[m].batches :
                 mem_pool'[k].batches[c] = mem_pool'[m].batches[d] => k = m /\ c = d
    BY <1>7 DEF Invariant, PoolWellFormed
  <2> QED BY <2>1, <2>2, <1>5 DEF PoolWellFormed
<1>9. ClientInPool'
  BY <1>3, <1>5, <1>7 DEF Invariant, ClientInPool
<1>10. TakenFact /\ TakenFact'
  <2>1. TakenFact
    BY TakenMeans DEF Invariant
  <2>2. TakenFact'
    BY <1>6, <1>8, TakenMeans, PTL
  <2> QED BY <2>1, <2>2
<1>11. ASSUME p.slot # SlotCount
       PROVE  Taken' = Taken \ {p}
  <2>1. bit = <<b, p.slot>>
    BY <1>11, SlotCountAssumption DEF bit, TargetPos, Pointers
  <2>2. ASSUME NEW q \in Pointers, NEW k \in DOMAIN mem_pool, NEW c \in DOMAIN mem_pool[k].batches
        PROVE  IsTaken(k, c, q)' <=> IsTaken(k, c, q) /\ q # p
    <3>1. CASE k = l
      <4>1. IsTaken(k, c, q)' <=> IsTaken(k, c, q) /\ <<c, q.slot>> # <<b, p.slot>>
        BY <3>1, <2>1, <1>4, <1>5 DEF IsTaken
      <4>2. mem_pool[l].batches[c] = q.chunk =>
                (<<c, q.slot>> = <<b, p.slot>> <=> q = p)
        <5>1. mem_pool[l].batches[c] = q.chunk => (c = b <=> q.chunk = p.chunk)
          BY <3>1, <1>3 DEF Invariant, PoolWellFormed
        <5> QED BY <5>1 DEF Pointers
      <4> QED BY <4>1, <4>2, <3>1 DEF IsTaken
    <3>2. CASE k # l
      <4>1. IsTaken(k, c, q)' <=> IsTaken(k, c, q)
        BY <3>2, <1>5 DEF IsTaken
      <4>2. mem_pool[k].batches[c] # p.chunk
        BY <3>2, <1>3 DEF Invariant, PoolWellFormed
      <4> QED BY <4>1, <4>2 DEF IsTaken
    <3> QED BY <3>1, <3>2
  <2>3. \A q \in Pointers : q \in Taken' <=> q \in Taken /\ q # p
    BY <2>2, <1>5, <1>7, <1>10 DEF TakenFact
  <2> QED BY <2>3, <1>10 DEF TakenFact
<1>12. BitmapMatchesHeld'
  <2> SUFFICES ASSUME ~strayFree', NEW k \in DOMAIN mem_pool, NEW q \in Pointers,
                      mem_pool[k].slot_size # 0,
                      NEW c \in DOMAIN mem_pool[k].batches, mem_pool[k].batches[c] = q.chunk
               PROVE  q \in held' <=> q \in Taken'
    BY <1>5, <1>7 DEF BitmapMatchesHeld
  <2>1. ~strayFree /\ p.slot # SlotCount
    BY <1>3
  <2>2. q \in held <=> q \in Taken
    BY <2>1 DEF Invariant, BitmapMatchesHeld
  <2> QED BY <2>1, <2>2, <1>3, <1>11
<1>13. Invariant'
  BY <1>6, <1>8, <1>9, <1>12 DEF Invariant
<1> QED BY <1>3, <1>11, <1>13

\* mem_mngr_init makes a pool of one list with one batch, all free.
LEMMA InitEffect ==
    ASSUME Invariant, NEW chunk \in Chunks, mem_mngr_init(chunk)
    PROVE  Invariant' /\ Taken' = {} /\ status' = "ready" /\ ~strayFree' /\ last' = last
<1> DEFINE list == AddBatch(EmptyList(Align), chunk)
<1>1. /\ list \in Lists
      /\ DOMAIN list.batches = {1}
      /\ Len(list.batches) = 1
      /\ list.bitmap_size = 1
      /\ list.batch_count = 1
      /\ list.free_slots = {1} \X Slots
      /\ list.batches[1] = chunk
  BY NewListShape, AlignAssumption
<1>2. mem_pool' = <<list>> /\ held' = {} /\ status' = "ready" /\ strayFree' = FALSE /\ last' = last
  BY DEF mem_mngr_init, Invariant, ClientInPool
<1> HIDE DEF list
<1>3. mem_pool' \in Seq(Lists) /\ Len(mem_pool') = 1 /\ DOMAIN mem_pool' = {1} /\ mem_pool'[1] = list
  BY <1>1, <1>2
<1>4. TypeOK' /\ NoThirdList'
  <2>1. NoThirdList'
    BY <1>3 DEF NoThirdList
  <2>2. last \in Pointers \cup {NoPtr}
    BY DEF Invariant, TypeOK
  <2>3. TypeOK'
    BY <1>2, <1>3, <2>2 DEF TypeOK
  <2> QED BY <2>1, <2>3
<1>5. PoolWellFormed'
  <2>1. \A l \in DOMAIN mem_pool' :
           /\ l = 1 /\ mem_pool'[l] = list
           /\ 1 .. mem_pool'[l].bitmap_size = {1}
           /\ \A b \in DOMAIN mem_pool'[l].batches : b = 1
    BY <1>1, <1>3
  <2> QED BY <2>1, <1>1 DEF PoolWellFormed
<1>6. ClientInPool'
  BY <1>2 DEF ClientInPool
<1>7. TakenFact'
  BY <1>4, <1>5, TakenMeans, PTL
<1>8. Taken' = {}
  BY <1>1, <1>3, <1>7 DEF TakenFact, IsTaken
<1>9. BitmapMatchesHeld'
  BY <1>2, <1>8 DEF BitmapMatchesHeld
<1> QED BY <1>2, <1>4, <1>5, <1>6, <1>8, <1>9 DEF Invariant

\* SLOT_ALLINED_SIZE yields a size.
LEMMA AlignedSizeType == \A request \in Requests : AlignedSize(request) \in Nat
<1> SUFFICES ASSUME NEW request \in Requests PROVE AlignedSize(request) \in Nat
  OBVIOUS
<1>1. request + Align - 1 \in Nat /\ Align \in Nat \ {0}
  BY RequestsAssumption, AlignAssumption
<1>2. (request + Align - 1) \div Align \in Nat
  BY <1>1
<1> DEFINE units == (request + Align - 1) \div Align
<1> HIDE DEF units
<1>3. units * Align \in Nat
  BY <1>1, <1>2 DEF units
<1> QED BY <1>3 DEF units, AlignedSize

\* mem_mngr_alloc hangs, or hands out a slot that nobody has.
LEMMA AllocEffect ==
    ASSUME Invariant, NEW request \in Requests, mem_mngr_alloc(request)
    PROVE  \/ status' = "hung" /\ UNCHANGED <<mem_pool, held, last, strayFree>>
           \/ /\ Invariant'
              /\ status = "ready"
              /\ UNCHANGED <<status, strayFree>>
              /\ last' \in Pointers \ Taken
              /\ Taken' = Taken \/ Taken' = Taken \cup {last'}
<1> DEFINE size == AlignedSize(request)
           Goal == /\ Invariant'
                   /\ status = "ready"
                   /\ UNCHANGED <<status, strayFree>>
                   /\ last' \in Pointers \ Taken
                   /\ Taken' = Taken \/ Taken' = Taken \cup {last'}
<1>1. size \in Nat /\ status = "ready"
  BY AlignedSizeType DEF mem_mngr_alloc
<1>2. ASSUME NEW l, NEW list, Continues(l, list), NEW bit \in list.free_slots,
             HandOut(l, list, bit)
      PROVE  Goal
  <2>1. UNCHANGED <<status, strayFree>>
    BY <1>2 DEF HandOut
  <2>2. /\ Invariant'
        /\ last' = PtrOf(list, bit) /\ PtrOf(list, bit) \in Pointers \ Taken
        /\ Taken' = IF list.slot_size = 0 THEN Taken ELSE Taken \cup {PtrOf(list, bit)}
    BY <1>1, <1>2, HandOutEffect
  <2> QED BY <1>1, <2>1, <2>2
<1> HIDE DEF size, Goal
<1>3. FindMemListBySize(size) \in {1, 2} => FindMemListBySize(size) \in DOMAIN mem_pool
  <2>1. DOMAIN mem_pool = 1 .. Len(mem_pool) /\ Len(mem_pool) \in Nat
    BY LenProperties DEF Invariant, TypeOK
  <2> QED BY <2>1 DEF FindMemListBySize, NeverFound
<1>4. CASE AllocFromFree(size)
  <2> DEFINE l == FindMemListBySize(size)
             bits == mem_pool[l].free_slots
  <2>1. l \in DOMAIN mem_pool /\ bits # {} /\ HandOut(l, mem_pool[l], FirstOf(bits))
    BY <1>3, <1>4 DEF AllocFromFree
  <2>2. mem_pool[l] \in Lists
    BY <2>1, ListShape DEF Invariant
  <2>3. bits \in SUBSET (Nat \X Slots)
    BY <2>2 DEF Lists
  <2> HIDE DEF l, bits
  <2>4. FirstOf(bits) \in bits
    BY <2>1, <2>3, FirstOfIsOne
  <2>5. Continues(l, mem_pool[l])
    BY <2>1, SameListContinues
  <2>6. FirstOf(bits) \in mem_pool[l].free_slots
    BY <2>4 DEF bits
  <2>7. Goal
    BY <2>1, <2>5, <2>6, <1>2
  <2> QED BY <2>7 DEF Goal
<1>5. ASSUME NEW chunk \in Chunks, AllocFromNewBatch(size, chunk)
      PROVE  Goal
  <2> DEFINE l == FindMemListBySize(size)
             list == AddBatch(mem_pool[l], chunk)
  <2>1. l \in DOMAIN mem_pool /\ Unused(chunk) /\ HandOut(l, list, <<list.batch_count, 0>>)
    BY <1>3, <1>5 DEF AllocFromNewBatch
  <2> HIDE DEF l
  <2>2. Continues(l, list) /\ <<list.batch_count, 0>> \in list.free_slots
    BY <2>1, NewBatchContinues
  <2> HIDE DEF list
  <2> QED BY <2>1, <2>2, <1>2
<1>6. ASSUME NEW chunk \in Chunks, AllocFromNewList(size, chunk)
      PROVE  Goal
  <2> DEFINE list == AddBatch(EmptyList(size), chunk)
             l == Len(mem_pool) + 1
  <2>1. FindMemListBySize(size) = 0 /\ Unused(chunk)
        /\ HandOut(l, list, FirstOf(list.free_slots))
    BY <1>6 DEF AllocFromNewList
  <2>2. Continues(l, list) /\ list.free_slots # {}
    BY <2>1, <1>1, NewListContinues
  <2> HIDE DEF list, l
  <2>3. list.free_slots \in SUBSET (Nat \X Slots)
    BY <2>2 DEF Continues, Lists
  <2>4. FirstOf(list.free_slots) \in list.free_slots
    BY <2>2, <2>3, FirstOfIsOne
  <2> QED BY <2>1, <2>2, <2>4, <1>2
<1>7. CASE AllocHangs(size)
  BY <1>7 DEF AllocHangs
<1>8. \/ AllocFromFree(size) \/ AllocHangs(size)
      \/ \E chunk \in Chunks : AllocFromNewBatch(size, chunk)
      \/ \E chunk \in Chunks : AllocFromNewList(size, chunk)
  BY DEF mem_mngr_alloc, size
<1> QED BY <1>4, <1>5, <1>6, <1>7, <1>8 DEF Goal

\* The manager stops working with its pool as it was, or is left.
LEMMA StopEffect ==
    ASSUME Invariant, UNCHANGED <<mem_pool, last, strayFree>>,
           \/ status' \in {"hung", "crashed"} /\ held' = held
           \/ status' = "left" /\ held' = {}
           \/ status' = status /\ held' = held
    PROVE  Invariant' /\ Taken' = Taken
<1>1. Taken' = Taken
  BY DEF Taken, PtrOf
<1>2. TypeOK'
  BY DEF Invariant, TypeOK
<1>3. PoolWellFormed' /\ NoThirdList'
  BY DEF Invariant, PoolWellFormed, NoThirdList
<1>4. ClientInPool'
  BY DEF Invariant, ClientInPool
<1>5. BitmapMatchesHeld'
  BY <1>1 DEF Invariant, BitmapMatchesHeld
<1> QED BY <1>1, <1>2, <1>3, <1>4, <1>5 DEF Invariant

-----------------------------------------------------------------------------
\* Every step keeps the invariant.
LEMMA NextInvariant == Invariant /\ [Next]_vars => Invariant'
<1> SUFFICES ASSUME Invariant, [Next]_vars PROVE Invariant'
  OBVIOUS
<1>1. ASSUME NEW chunk \in Chunks, mem_mngr_init(chunk) PROVE Invariant'
  BY <1>1, InitEffect
<1>2. ASSUME NEW request \in Requests, mem_mngr_alloc(request) PROVE Invariant'
  <2>1. CASE status' = "hung" /\ UNCHANGED <<mem_pool, held, last, strayFree>>
    BY <2>1, StopEffect
  <2>2. CASE Invariant'
    BY <2>2
  <2> QED BY <1>2, <2>1, <2>2, AllocEffect
<1>3. CASE AllocUninitialized
  BY <1>3, StopEffect DEF AllocUninitialized
<1>4. ASSUME NEW p \in Pointers, mem_mngr_free(p) PROVE Invariant'
  <2>1. status = "ready"
    BY <1>4 DEF mem_mngr_free
  <2>2. PICK l \in DOMAIN mem_pool : \E b \in DOMAIN mem_pool[l].batches :
            FreeSlot(l, b, p) \/ FreeCrashes(l, b, p)
    BY <1>4 DEF mem_mngr_free
  <2>3. PICK b \in DOMAIN mem_pool[l].batches : FreeSlot(l, b, p) \/ FreeCrashes(l, b, p)
    BY <2>2
  <2>4. CASE FreeSlot(l, b, p)
    BY <2>1, <2>4, FreeEffect
  <2>5. CASE FreeCrashes(l, b, p)
    BY <2>5, StopEffect DEF FreeCrashes
  <2> QED BY <2>3, <2>4, <2>5
<1>5. CASE mem_mngr_leave
  BY <1>5, StopEffect DEF mem_mngr_leave
<1>6. CASE UNCHANGED vars
  BY <1>6, StopEffect DEF vars
<1> QED BY <1>1, <1>2, <1>3, <1>4, <1>5, <1>6 DEF Next

\* The invariant holds in every reachable state.
THEOREM InvariantHolds == Spec => []Invariant
<1>1. Init => Invariant
  <2> SUFFICES ASSUME Init PROVE Invariant
    OBVIOUS
  <2>1. mem_pool \in Seq(Lists) /\ Len(mem_pool) = 0 /\ DOMAIN mem_pool = {}
    BY DEF Init
  <2>2. TypeOK
    BY <2>1 DEF Init, TypeOK
  <2>3. PoolWellFormed /\ NoThirdList
    BY <2>1 DEF PoolWellFormed, NoThirdList
  <2>4. ClientInPool /\ BitmapMatchesHeld
    BY DEF Init, ClientInPool, BitmapMatchesHeld
  <2> QED BY <2>2, <2>3, <2>4 DEF Invariant
<1> QED BY <1>1, NextInvariant, PTL DEF Spec

\* The pool is a sequence of lists with their batches and bitmaps, and the
\* client's pointers are pointers.
THEOREM TypeCorrect == Spec => []TypeOK
  BY InvariantHolds, PTL DEF Invariant

\* The three counts of batches agree, and no memory and no slot size occurs
\* twice, for any number of batches and slots.
THEOREM PoolStaysWellFormed == Spec => []PoolWellFormed
  BY InvariantHolds, PTL DEF Invariant

\* Whatever sizes are asked for, there are never three lists.
THEOREM TwoListsAtMost == Spec => []NoThirdList
  BY InvariantHolds, PTL DEF Invariant

\* The bitmaps are exactly what the client holds, until the end of a batch is
\* freed.
THEOREM BitmapsAreRight == Spec => []BitmapMatchesHeld
  BY InvariantHolds, PTL DEF Invariant

\* The manager implements BlockAllocator: a slot it hands out is nobody's.
THEOREM ImplementsAllocator == Spec => IsAllocator
<1> DEFINE live == IF strayFree \/ status = "left" THEN {} ELSE Taken
<1>1. Init => Allocator!Init
  BY DEF Init, Allocator!Init, Taken
<1>2. Invariant /\ Invariant' /\ [Next]_vars => [Allocator!Next]_<<live, last>>
  <2> SUFFICES ASSUME Invariant, Invariant', [Next]_vars
               PROVE  [Allocator!Next]_<<live, last>>
    OBVIOUS
  <2>1. ASSUME NEW chunk \in Chunks, mem_mngr_init(chunk) PROVE Allocator!Reset
    <3>1. Taken' = {} /\ last' = last
      BY <2>1, InitEffect
    <3> QED BY <3>1 DEF Allocator!Reset
  <2>2. ASSUME NEW request \in Requests, mem_mngr_alloc(request)
        PROVE  [Allocator!Next]_<<live, last>>
    <3>1. CASE status' = "hung" /\ UNCHANGED <<mem_pool, held, last, strayFree>>
      <4>1. Taken' = Taken /\ status = "ready"
        BY <3>1, <2>2, StopEffect DEF mem_mngr_alloc
      <4> QED BY <3>1, <4>1
    <3>2. CASE /\ status = "ready"
               /\ UNCHANGED <<status, strayFree>>
               /\ last' \in Pointers \ Taken
               /\ Taken' = Taken \/ Taken' = Taken \cup {last'}
      <4>1. Allocator!HandOut(last') \/ Allocator!HandOutNothing(last')
        BY <3>2 DEF Allocator!HandOut, Allocator!HandOutNothing
      <4> QED BY <3>2, <4>1 DEF Allocator!Next
    <3> QED BY <2>2, <3>1, <3>2, AllocEffect
  <2>3. ASSUME NEW p \in Pointers, mem_mngr_free(p)
        PROVE  [Allocator!Next]_<<live, last>>
    <3>1. status = "ready"
      BY <2>3 DEF mem_mngr_free
    <3>2. PICK l \in DOMAIN mem_pool : \E b \in DOMAIN mem_pool[l].batches :
              FreeSlot(l, b, p) \/ FreeCrashes(l, b, p)
      BY <2>3 DEF mem_mngr_free
    <3>3. PICK b \in DOMAIN mem_pool[l].batches : FreeSlot(l, b, p) \/ FreeCrashes(l, b, p)
      BY <3>2
    <3>4. CASE FreeSlot(l, b, p)
      <4>1. /\ ~strayFree' => ~strayFree /\ Taken' = Taken \ {p}
            /\ UNCHANGED <<status, last>>
        BY <3>1, <3>4, FreeEffect
      <4>2. Allocator!TakeBack(p) \/ Allocator!Reset
        BY <3>1, <4>1 DEF Allocator!TakeBack, Allocator!Reset
      <4> QED BY <4>2 DEF Allocator!Next
    <3>5. CASE FreeCrashes(l, b, p)
      <4>1. UNCHANGED <<mem_pool, held, last, strayFree>> /\ status' = "crashed"
        BY <3>5 DEF FreeCrashes
      <4>2. Taken' = Taken
        BY <4>1, StopEffect
      <4> QED BY <3>1, <4>1, <4>2
    <3> QED BY <3>3, <3>4, <3>5
  <2>4. CASE AllocUninitialized
    <3>1. Taken' = Taken
      BY <2>4, StopEffect DEF AllocUninitialized
    <3> QED BY <2>4, <3>1 DEF AllocUninitialized
  <2>5. CASE mem_mngr_leave
    <3>1. Allocator!Reset
      BY <2>5 DEF mem_mngr_leave, Allocator!Reset
    <3> QED BY <3>1 DEF Allocator!Next
  <2>6. CASE UNCHANGED vars
    <3>1. Taken' = Taken
      BY <2>6, StopEffect DEF vars
    <3> QED BY <2>6, <3>1 DEF vars
  <2> QED BY <2>1, <2>2, <2>3, <2>4, <2>5, <2>6 DEF Next, Allocator!Next
<1> QED
  BY <1>1, <1>2, InvariantHolds, PTL DEF Spec, IsAllocator, Allocator!Spec

-----------------------------------------------------------------------------
\* Loops and recursions.

\* So has the Min of the community modules.
LEMMA LeastIsMember ==
    ASSUME NEW N \in SUBSET Nat, N # {}
    PROVE  Min(N) \in N /\ \A n \in N : Min(N) <= n
<1>1. PICK m \in N : \A n \in N : m <= n
  BY LeastNumber
<1>2. m \in {x \in N : \A n \in N : x <= n}
  BY <1>1
<1>3. Min(N) \in {x \in N : \A n \in N : x <= n}
  BY <1>2 DEF Min
<1> QED
  BY <1>3

\* What holds at 0 and is handed on holds up to n.
LEMMA CountUp ==
    ASSUME NEW n \in Nat, NEW S, 0 \in S, \A k \in 0 .. n - 1 : k \in S => k + 1 \in S
    PROVE  0 .. n \subseteq S
<1> DEFINE Less == {p \in Nat \X Nat : p[1] < p[2]}
           N == (0 .. n) \ S
<1> SUFFICES ASSUME N # {} PROVE FALSE
  OBVIOUS
<1>1. IsWellFoundedOn(Less, Nat)
  BY NatLessThanWellFounded DEF OpToRel
<1>2. PICK m \in N : \A k \in N : ~(<<k, m>> \in Less)
  <2>1. N \subseteq Nat
    OBVIOUS
  <2> HIDE DEF Less, N
  <2> QED
    BY <1>1, <2>1, WFMin
<1>3. m \in 1 .. n
  OBVIOUS
<1>4. m - 1 \in 0 .. n - 1 /\ m - 1 \in 0 .. n /\ (m - 1) + 1 = m
  BY <1>3
<1>5. m - 1 \notin S
  BY <1>4
<1>6. <<m - 1, m>> \in Less
  BY <1>3, <1>4
<1> QED
  BY <1>2, <1>4, <1>5, <1>6

\* A loop of n rounds has a value after each.
Keeps(round, n, V) == \A k \in 1 .. n : \A v \in V : round[<<k, v>>] \in V
Values(f, n, base, round) == f[0] = base /\ \A k \in 1 .. n : f[k] = round[<<k, f[k - 1]>>]

LEMMA LoopHasValues ==
    ASSUME NEW n \in Nat, NEW V, NEW base \in V, NEW round, Keeps(round, n, V)
    PROVE  \E f \in [0 .. n -> V] : Values(f, n, base, round)
<1> USE DEF Keeps, Values
<1> DEFINE Good == {m \in 0 .. n :
                      \E f \in [0 .. m -> V] : f[0] = base /\ \A k \in 1 .. m : f[k] = round[<<k, f[k - 1]>>]}
<1>1. 0 \in Good
  <2> DEFINE f == [k \in 0 .. 0 |-> base]
  <2>1. f \in [0 .. 0 -> V] /\ f[0] = base
    OBVIOUS
  <2>2. \A k \in 1 .. 0 : f[k] = round[<<k, f[k - 1]>>]
    OBVIOUS
  <2> HIDE DEF f
  <2> QED
    BY <2>1, <2>2
<1>2. ASSUME NEW m \in 0 .. n - 1, m \in Good PROVE m + 1 \in Good
  <2>1. PICK f \in [0 .. m -> V] : f[0] = base /\ \A k \in 1 .. m : f[k] = round[<<k, f[k - 1]>>]
    BY <1>2
  <2>2. m + 1 \in 1 .. n /\ m + 1 \in 0 .. n /\ m \in Nat /\ m + 1 # 0 /\ m \in 0 .. m /\ (m + 1) - 1 = m
    OBVIOUS
  <2> DEFINE g == [k \in 0 .. m + 1 |-> IF k = m + 1 THEN round[<<m + 1, f[m]>>] ELSE f[k]]
  <2>3. /\ g[m + 1] = round[<<m + 1, f[m]>>]
        /\ \A k \in 0 .. m : k \in 0 .. m + 1 /\ k # m + 1 /\ g[k] = f[k]
    BY <2>2
  <2>4. g \in [0 .. m + 1 -> V]
    <3>1. round[<<m + 1, f[m]>>] \in V
      BY <2>2
    <3>2. \A k \in 0 .. m + 1 : k # m + 1 => k \in 0 .. m
      BY <2>2
    <3> QED
      BY <3>1, <3>2
  <2> HIDE DEF g
  <2>5. g[0] = base
    BY <2>1, <2>2, <2>3
  <2>6. ASSUME NEW k \in 1 .. m + 1 PROVE g[k] = round[<<k, g[k - 1]>>]
    <3>1. CASE k = m + 1
      <4>1. k - 1 = m
        BY <2>2, <3>1
      <4>2. g[k - 1] = f[m]
        BY <2>2, <2>3, <4>1
      <4> QED
        BY <2>3, <3>1, <4>2
    <3>2. CASE k # m + 1
      <4>1. k \in 1 .. m /\ k \in 0 .. m /\ k - 1 \in 0 .. m
        BY <2>2, <3>2
      <4>2. f[k] = round[<<k, f[k - 1]>>]
        BY <2>1, <4>1
      <4>3. g[k] = f[k] /\ g[k - 1] = f[k - 1]
        BY <2>3, <4>1
      <4> QED
        BY <4>2, <4>3
    <3> QED
      BY <3>1, <3>2
  <2> QED
    BY <2>2, <2>4, <2>5, <2>6
<1>3. 0 .. n \subseteq Good
  <2> HIDE DEF Good
  <2> QED
    BY <1>1, <1>2, CountUp
<1>4. n \in Good
  <2> HIDE DEF Good
  <2> QED
    BY <1>3
<1> QED
  BY <1>4

\* A loop without an end has a value after each of its rounds.
AllValues(f, base, round) == f[0] = base /\ \A k \in Nat \ {0} : f[k] = round[<<k, f[k - 1]>>]

LEMMA EndlessLoopHasValues ==
    ASSUME NEW V, NEW base \in V, NEW round, \A k \in Nat \ {0} : \A v \in V : round[<<k, v>>] \in V
    PROVE  \E f \in [Nat -> V] : AllValues(f, base, round)
<1> DEFINE First(n) == CHOOSE g \in [0 .. n -> V] : Values(g, n, base, round)
           f == [n \in Nat |-> First(n)[n]]
<1>1. ASSUME NEW n \in Nat
      PROVE  First(n) \in [0 .. n -> V] /\ First(n)[0] = base /\ \A k \in 1 .. n : First(n)[k] = round[<<k, First(n)[k - 1]>>]
  <2>1. Keeps(round, n, V)
    <3>1. 1 .. n \subseteq Nat \ {0}
      OBVIOUS
    <3> QED
      BY <3>1 DEF Keeps
  <2>2. \E g \in [0 .. n -> V] : Values(g, n, base, round)
    BY <2>1, LoopHasValues
  <2>3. First(n) \in [0 .. n -> V] /\ Values(First(n), n, base, round)
    BY <2>2
  <2> QED
    BY <2>3 DEF Values
<1> HIDE DEF First
<1>2. ASSUME NEW n \in Nat PROVE First(n + 1)[n] = First(n)[n]
  <2> DEFINE S == {k \in 0 .. n : First(n + 1)[k] = First(n)[k]}
  <2>1. 0 \in S
    BY <1>1
  <2>2. ASSUME NEW k \in 0 .. n - 1, k \in S PROVE k + 1 \in S
    <3>1. k + 1 \in 0 .. n /\ k + 1 \in 1 .. n /\ k + 1 \in 1 .. n + 1 /\ (k + 1) - 1 = k /\ n + 1 \in Nat
      OBVIOUS
    <3>2. First(n)[k + 1] = round[<<k + 1, First(n)[(k + 1) - 1]>>]
      BY <1>1, <3>1
    <3>3. First(n + 1)[k + 1] = round[<<k + 1, First(n + 1)[(k + 1) - 1]>>]
      BY <1>1, <3>1
    <3> QED
      BY <2>2, <3>1, <3>2, <3>3
  <2>3. 0 .. n \subseteq S
    <3> HIDE DEF S
    <3> QED
      BY <2>1, <2>2, CountUp
  <2> QED
    BY <2>3
<1>3. f \in [Nat -> V] /\ f[0] = base
  BY <1>1
<1>4. ASSUME NEW k \in Nat \ {0} PROVE f[k] = round[<<k, f[k - 1]>>]
  <2>1. k - 1 \in Nat /\ (k - 1) + 1 = k /\ k \in 1 .. k
    OBVIOUS
  <2>2. First(k)[k - 1] = f[k - 1]
    BY <1>2, <2>1
  <2>3. First(k)[k] = round[<<k, First(k)[k - 1]>>]
    BY <1>1, <2>1
  <2> QED
    BY <2>2, <2>3
<1> QED
  BY <1>3, <1>4 DEF AllValues

\* The powers of two, however they are called.
Doubled == LET f[k \in Nat] == IF k = 0 THEN 1 ELSE 2 * f[k - 1] IN f

LEMMA DoubledIs ==
    /\ \A k \in Nat : Doubled[k] \in Nat \ {0}
    /\ Doubled[0] = 1
    /\ \A k \in Nat : Doubled[k + 1] = 2 * Doubled[k]
<1> DEFINE V == Nat \ {0}
           round == [z \in V \X V |-> 2 * z[2]]
           Fix(f) == f = [k \in Nat |-> IF k = 0 THEN 1 ELSE 2 * f[k - 1]]
           power == CHOOSE f : Fix(f)
<1>1. Doubled = power
  BY DEF Doubled
<1>2. \A k \in Nat \ {0} : \A v \in V : round[<<k, v>>] = 2 * v
  OBVIOUS
<1> HIDE DEF round
<1>3. PICK f \in [Nat -> V] : AllValues(f, 1, round)
  <2>1. 1 \in V
    OBVIOUS
  <2>2. ASSUME NEW k \in Nat \ {0}, NEW v \in V PROVE round[<<k, v>>] \in V
    <3>1. round[<<k, v>>] = 2 * v
      BY <1>2
    <3>2. 2 * v \in V
      OBVIOUS
    <3> QED
      BY <3>1, <3>2
  <2> HIDE DEF V
  <2> QED
    BY <2>1, <2>2, EndlessLoopHasValues
<1>4. ASSUME NEW k \in Nat PROVE f[k] = IF k = 0 THEN 1 ELSE 2 * f[k - 1]
  <2>1. CASE k # 0
    <3>1. k \in Nat \ {0} /\ k - 1 \in Nat
      BY <2>1
    <3>2. f[k - 1] \in V
      BY <1>3, <3>1
    <3> QED
      BY <1>2, <1>3, <2>1, <3>1, <3>2 DEF AllValues
  <2> QED
    BY <1>3, <2>1 DEF AllValues
<1>5. Fix(f)
  BY <1>3, <1>4
<1>6. Fix(power)
  <2> HIDE DEF Fix
  <2> QED
    BY <1>5
<1> HIDE DEF power
<1>7. \A k \in Nat : power[k] = IF k = 0 THEN 1 ELSE 2 * power[k - 1]
  BY <1>6
<1> HIDE DEF Fix
<1>8. power[0] = 1
  BY <1>7
<1>9. ASSUME NEW k \in Nat PROVE power[k + 1] = 2 * power[k]
  <2>1. k + 1 \in Nat /\ k + 1 # 0 /\ (k + 1) - 1 = k
    OBVIOUS
  <2> QED
    BY <1>7, <2>1
<1>10. ASSUME NEW n \in Nat PROVE power[n] \in V
  <2> DEFINE S == {k \in 0 .. n : power[k] \in V}
  <2>1. 0 \in S
    BY <1>8
  <2>2. ASSUME NEW k \in 0 .. n - 1, k \in S PROVE k + 1 \in S
    BY <1>9, <2>2
  <2>3. 0 .. n \subseteq S
    <3> HIDE DEF S
    <3> QED
      BY <2>1, <2>2, CountUp
  <2> QED
    BY <2>3
<1> QED
  BY <1>1, <1>8, <1>9, <1>10

-----------------------------------------------------------------------------
\* Knapsack.

\* A list of n numbers.
NumberList(values, n) == n \in Nat /\ values \in [1 .. n -> Nat] /\ Len(values) = n

\* The sums over the items up to each index.
PartSums(values, items) ==
    LET sum[j \in 0 .. Len(values)] ==
          IF j = 0 THEN 0 ELSE IF j \in items THEN sum[j - 1] + values[j] ELSE sum[j - 1]
    IN  sum

\* The recursion over the items adds the values of those that are chosen.
LEMMA PartSumsAre ==
    ASSUME NEW values, NEW n, NumberList(values, n), NEW items
    PROVE  /\ PartSums(values, items)[0] = 0
           /\ \A j \in 0 .. n : PartSums(values, items)[j] \in Nat
           /\ \A j \in 1 .. n : PartSums(values, items)[j]
                = IF j \in items THEN PartSums(values, items)[j - 1] + values[j] ELSE PartSums(values, items)[j - 1]
<1> DEFINE Again(j, v) == IF j \in items THEN v + values[j] ELSE v
           round == [z \in (1 .. n) \X Nat |-> Again(z[1], z[2])]
           Fix(f) == f = [j \in 0 .. n |-> IF j = 0 THEN 0 ELSE Again(j, f[j - 1])]
           sum == CHOOSE f : Fix(f)
<1>1. n \in Nat /\ values \in [1 .. n -> Nat] /\ Len(values) = n
  BY DEF NumberList
<1>2. PartSums(values, items) = sum
  BY <1>1 DEF PartSums
<1>3. ASSUME NEW j \in 1 .. n, NEW v \in Nat PROVE Again(j, v) \in Nat /\ round[<<j, v>>] = Again(j, v)
  BY <1>1
<1> HIDE DEF round, Again
<1>4. PICK g \in [0 .. n -> Nat] : Values(g, n, 0, round)
  <2>1. Keeps(round, n, Nat)
    BY <1>3 DEF Keeps
  <2> QED
    BY <1>1, <2>1, LoopHasValues
<1>5. Fix(g)
  <2>1. ASSUME NEW j \in 0 .. n PROVE g[j] = IF j = 0 THEN 0 ELSE Again(j, g[j - 1])
    <3>1. CASE j # 0
      <4>1. j \in 1 .. n /\ j - 1 \in 0 .. n
        BY <1>1, <3>1
      <4>2. g[j - 1] \in Nat
        BY <4>1
      <4> QED
        BY <1>3, <1>4, <3>1, <4>1, <4>2 DEF Values
    <3> QED
      BY <1>4, <3>1 DEF Values
  <2> QED
    BY <2>1
<1>6. Fix(sum)
  <2> HIDE DEF Fix
  <2> QED
    BY <1>5
<1> HIDE DEF sum
<1>7. sum[0] = 0 /\ \A j \in 1 .. n : sum[j] = Again(j, sum[j - 1])
  <2>1. \A j \in 0 .. n : sum[j] = IF j = 0 THEN 0 ELSE Again(j, sum[j - 1])
    BY <1>6
  <2>2. 0 \in 0 .. n /\ \A j \in 1 .. n : j \in 0 .. n /\ j # 0
    BY <1>1
  <2> HIDE DEF Fix
  <2> QED
    BY <2>1, <2>2
<1> HIDE DEF Fix
<1>8. \A j \in 0 .. n : sum[j] \in Nat
  <2> DEFINE S == {j \in 0 .. n : sum[j] \in Nat}
  <2>1. 0 \in S
    BY <1>1, <1>7
  <2>2. ASSUME NEW j \in 0 .. n - 1, j \in S PROVE j + 1 \in S
    <3>1. j + 1 \in 0 .. n /\ j + 1 \in 1 .. n /\ (j + 1) - 1 = j
      BY <1>1
    <3>2. sum[j + 1] = Again(j + 1, sum[j]) /\ sum[j] \in Nat
      BY <1>7, <2>2, <3>1
    <3>3. Again(j + 1, sum[j]) \in Nat
      BY <1>3, <3>1, <3>2
    <3> QED
      BY <3>1, <3>2, <3>3
  <2>3. 0 .. n \subseteq S
    <3> HIDE DEF S
    <3> QED
      BY <1>1, <2>1, <2>2, CountUp
  <2> QED
    BY <2>3
<1> QED
  BY <1>2, <1>7, <1>8 DEF Again

\* Totals are numbers, and grow by what an item that is added brings.
LEMMA TotalIs ==
    ASSUME NEW values, NEW n, NumberList(values, n)
    PROVE  /\ Total(values, {}) = 0
           /\ \A items : Total(values, items) \in Nat
           /\ \A items : \A j \in (1 .. n) \ items : Total(values, items \cup {j}) = Total(values, items) + values[j]
<1>1. n \in Nat /\ Len(values) = n /\ values \in [1 .. n -> Nat] /\ n \in 0 .. n
  BY DEF NumberList
<1>2. \A items : Total(values, items) = PartSums(values, items)[n]
  BY <1>1 DEF Total, PartSums
<1>3. Total(values, {}) = 0
  <2> DEFINE S == {j \in 0 .. n : PartSums(values, {})[j] = 0}
  <2>1. 0 \in S
    BY <1>1, PartSumsAre
  <2>2. ASSUME NEW j \in 0 .. n - 1, j \in S PROVE j + 1 \in S
    <3>1. j + 1 \in 0 .. n /\ j + 1 \in 1 .. n /\ (j + 1) - 1 = j
      BY <1>1
    <3>2. PartSums(values, {})[j + 1] = PartSums(values, {})[(j + 1) - 1]
      BY <3>1, PartSumsAre
    <3> QED
      BY <2>2, <3>1, <3>2
  <2>3. 0 .. n \subseteq S
    <3> HIDE DEF S
    <3> QED
      BY <1>1, <2>1, <2>2, CountUp
  <2> QED
    BY <1>1, <1>2, <2>3
<1>4. ASSUME NEW items PROVE Total(values, items) \in Nat
  BY <1>1, <1>2, PartSumsAre
<1>5. ASSUME NEW items, NEW i \in (1 .. n) \ items
      PROVE  Total(values, items \cup {i}) = Total(values, items) + values[i]
  <2> DEFINE a == PartSums(values, items)
             b == PartSums(values, items \cup {i})
             S == {j \in 0 .. n : b[j] = IF j < i THEN a[j] ELSE a[j] + values[i]}
  <2>1. /\ a[0] = 0 /\ b[0] = 0
        /\ \A j \in 0 .. n : a[j] \in Nat /\ b[j] \in Nat
        /\ \A j \in 1 .. n : a[j] = IF j \in items THEN a[j - 1] + values[j] ELSE a[j - 1]
        /\ \A j \in 1 .. n : b[j] = IF j \in items \cup {i} THEN b[j - 1] + values[j] ELSE b[j - 1]
    BY PartSumsAre
  <2> HIDE DEF a, b
  <2>2. 0 \in S
    BY <1>1, <2>1
  <2>3. ASSUME NEW j \in 0 .. n - 1, j \in S PROVE j + 1 \in S
    <3>1. j + 1 \in 0 .. n /\ j + 1 \in 1 .. n /\ (j + 1) - 1 = j /\ i \in 1 .. n /\ i \notin items /\ j \in Nat
      BY <1>1
    <3>2. a[j] \in Nat /\ b[j] \in Nat /\ values[i] \in Nat /\ values[j + 1] \in Nat
      BY <1>1, <2>1, <3>1
    <3>3. a[j + 1] = IF j + 1 \in items THEN a[j] + values[j + 1] ELSE a[j]
      BY <2>1, <3>1
    <3>4. b[j + 1] = IF j + 1 \in items \cup {i} THEN b[j] + values[j + 1] ELSE b[j]
      BY <2>1, <3>1
    <3>5. b[j] = IF j < i THEN a[j] ELSE a[j] + values[i]
      BY <2>3
    <3>6. b[j + 1] = IF j + 1 < i THEN a[j + 1] ELSE a[j + 1] + values[i]
      <4>1. CASE j + 1 = i
        BY <3>1, <3>2, <3>3, <3>4, <3>5, <4>1
      <4>2. CASE j + 1 # i
        <5>1. j + 1 \in items \cup {i} <=> j + 1 \in items
          BY <4>2
        <5>2. j + 1 < i <=> j < i
          BY <3>1, <4>2
        <5> QED
          BY <3>2, <3>3, <3>4, <3>5, <5>1, <5>2
      <4> QED
        BY <4>1, <4>2
    <3> QED
      BY <3>1, <3>6
  <2>4. 0 .. n \subseteq S
    <3> HIDE DEF S
    <3> QED
      BY <1>1, <2>2, <2>3, CountUp
  <2>5. b[n] = a[n] + values[i]
    BY <1>1, <2>4
  <2> QED
    BY <1>2, <2>5 DEF a, b
<1> QED
  BY <1>3, <1>4, <1>5

\* The input file, as parse_input leaves it.
FileRead == /\ NumberList(ks.weights, ks.size) /\ NumberList(ks.profits, ks.size)
            /\ ks.knapsack_capacity \in Nat
            /\ \A j \in Items : ks.weights[j] > 0

\* The totals of the items of a file that has been read.
LEMMA ItemsAre ==
    ASSUME FileRead
    PROVE  /\ ks.size \in Nat /\ ks.knapsack_capacity \in Nat /\ Items = 1 .. ks.size
           /\ \A j \in Items : ks.weights[j] \in Nat /\ ks.weights[j] > 0 /\ ks.profits[j] \in Nat
           /\ TotalWeight({}) = 0 /\ TotalProfit({}) = 0
           /\ \A items : TotalWeight(items) \in Nat /\ TotalProfit(items) \in Nat
           /\ \A items : \A j \in Items \ items :
                 /\ TotalWeight(items \cup {j}) = TotalWeight(items) + ks.weights[j]
                 /\ TotalProfit(items \cup {j}) = TotalProfit(items) + ks.profits[j]
           /\ \A items : \A j \in Items \cap items :
                 /\ TotalWeight(items) = TotalWeight(items \ {j}) + ks.weights[j]
                 /\ TotalProfit(items) = TotalProfit(items \ {j}) + ks.profits[j]
<1>1. NumberList(ks.weights, ks.size) /\ NumberList(ks.profits, ks.size)
  BY DEF FileRead
<1>2. /\ ks.size \in Nat /\ ks.knapsack_capacity \in Nat /\ Items = 1 .. ks.size
      /\ \A j \in Items : ks.weights[j] \in Nat /\ ks.weights[j] > 0 /\ ks.profits[j] \in Nat
  BY DEF FileRead, NumberList, Items
<1>3. TotalWeight({}) = 0 /\ TotalProfit({}) = 0
  BY <1>1, TotalIs DEF TotalWeight, TotalProfit
<1>4. \A items : TotalWeight(items) \in Nat /\ TotalProfit(items) \in Nat
  BY <1>1, TotalIs DEF TotalWeight, TotalProfit
<1>5. ASSUME NEW items, NEW j \in Items \ items
      PROVE  /\ TotalWeight(items \cup {j}) = TotalWeight(items) + ks.weights[j]
             /\ TotalProfit(items \cup {j}) = TotalProfit(items) + ks.profits[j]
  BY <1>1, <1>2, TotalIs DEF TotalWeight, TotalProfit
<1>6. ASSUME NEW items, NEW j \in Items \cap items
      PROVE  /\ TotalWeight(items) = TotalWeight(items \ {j}) + ks.weights[j]
             /\ TotalProfit(items) = TotalProfit(items \ {j}) + ks.profits[j]
  <2>1. (items \ {j}) \cup {j} = items /\ j \in Items \ (items \ {j})
    OBVIOUS
  <2> QED
    BY <1>5, <2>1
<1> QED
  BY <1>2, <1>3, <1>4, <1>5, <1>6

\* What a choice of items is: no more than fits, and no better one.
Fit(items) == items \subseteq Items /\ TotalWeight(items) <= ks.knapsack_capacity
NothingLeft(items) ==
    \A j \in Items \ items : ks.profits[j] > 0 => ks.weights[j] > ks.knapsack_capacity - TotalWeight(items)
MostProfit(items) == \A other \in SUBSET Items : Fit(other) => TotalProfit(other) <= TotalProfit(items)

\* An item that still fits would be worth more.
LEMMA BestLeavesNothing ==
    ASSUME FileRead, NEW items, Fit(items), MostProfit(items)
    PROVE  NothingLeft(items)
<1> SUFFICES ASSUME NEW j \in Items \ items, ks.profits[j] > 0,
                    ~(ks.weights[j] > ks.knapsack_capacity - TotalWeight(items))
             PROVE  FALSE
  BY DEF NothingLeft
<1>1. /\ TotalWeight(items \cup {j}) = TotalWeight(items) + ks.weights[j]
      /\ TotalProfit(items \cup {j}) = TotalProfit(items) + ks.profits[j]
      /\ ks.weights[j] \in Nat /\ ks.profits[j] \in Nat /\ ks.knapsack_capacity \in Nat
      /\ TotalWeight(items) \in Nat /\ TotalProfit(items) \in Nat
  BY ItemsAre
<1>2. Fit(items \cup {j})
  BY <1>1 DEF Fit
<1>3. TotalProfit(items \cup {j}) <= TotalProfit(items)
  BY <1>2 DEF MostProfit, Fit
<1> QED
  BY <1>1, <1>3

----------------------------------------------------------------------------
\* Of some items there is a first one with the largest key.
IsFirst(arr, left, i) == i \in left /\ \A j \in left : arr[j] < arr[i] \/ (arr[j] = arr[i] /\ i <= j)

\* By the number of the items.
LEMMA FirstExists ==
    ASSUME NEW n \in Nat, NEW arr \in [1 .. n -> Int], NEW left \in SUBSET (1 .. n), left # {}
    PROVE  \E i \in left : IsFirst(arr, left, i)
<1> DEFINE S == {m \in 0 .. n : \A some \in SUBSET (1 .. m) : some # {} => \E i \in some : IsFirst(arr, some, i)}
<1>1. 0 \in S
  <2>1. 1 .. 0 = {} /\ 0 \in 0 .. n
    OBVIOUS
  <2>2. \A some \in SUBSET (1 .. 0) : some = {}
    BY <2>1
  <2> QED
    BY <2>1, <2>2
<1>2. ASSUME NEW m \in 0 .. n - 1, m \in S PROVE m + 1 \in S
  <2>1. m + 1 \in 0 .. n /\ m + 1 \in 1 .. n /\ 1 .. m \subseteq 1 .. n
    OBVIOUS
  <2>2. ASSUME NEW some \in SUBSET (1 .. m + 1), some # {} PROVE \E i \in some : IsFirst(arr, some, i)
    <3> DEFINE rest == some \ {m + 1}
    <3>1. rest \subseteq 1 .. m
      OBVIOUS
    <3>2. CASE m + 1 \notin some
      <4>1. rest = some
        BY <3>2
      <4> QED
        BY <1>2, <2>2, <3>1, <4>1
    <3>3. CASE m + 1 \in some /\ rest = {}
      <4>1. some = {m + 1}
        BY <3>3
      <4>2. IsFirst(arr, some, m + 1)
        BY <2>1, <4>1 DEF IsFirst
      <4> QED
        BY <3>3, <4>2
    <3>4. CASE m + 1 \in some /\ rest # {}
      <4>1. PICK i \in rest : IsFirst(arr, rest, i)
        BY <1>2, <3>1, <3>4
      <4>2. /\ i \in 1 .. m /\ i \in 1 .. n /\ i \in some /\ arr[i] \in Int /\ arr[m + 1] \in Int
            /\ \A j \in rest : j \in 1 .. m /\ j \in 1 .. n /\ arr[j] \in Int
        BY <2>1, <3>1
      <4>3. \A j \in some : j \in rest \/ j = m + 1
        OBVIOUS
      <4>4. \A j \in rest : arr[j] < arr[i] \/ (arr[j] = arr[i] /\ i <= j)
        BY <4>1 DEF IsFirst
      <4>5. CASE arr[m + 1] > arr[i]
        <5>1. \A j \in rest : arr[j] < arr[m + 1]
          BY <4>2, <4>4, <4>5
        <5>2. IsFirst(arr, some, m + 1)
          BY <2>1, <3>4, <4>3, <5>1 DEF IsFirst
        <5> QED
          BY <3>4, <5>2
      <4>6. CASE arr[m + 1] <= arr[i]
        <5>1. IsFirst(arr, some, i)
          BY <4>2, <4>3, <4>4, <4>6 DEF IsFirst
        <5> QED
          BY <4>2, <5>1
      <4> QED
        BY <4>2, <4>5, <4>6
    <3> QED
      BY <3>2, <3>3, <3>4
  <2> QED
    BY <2>1, <2>2
<1>3. 0 .. n \subseteq S
  <2> HIDE DEF S
  <2> QED
    BY <1>1, <1>2, CountUp
<1>4. n \in S
  <2> HIDE DEF S
  <2> QED
    BY <1>3
<1> QED
  BY <1>4

\* The search of a greedy rule finds one of the items that are left.
LEMMA IndexIsLeft ==
    ASSUME NEW n \in Nat, NEW arr \in [1 .. n -> Int], NEW left \in SUBSET (1 .. n), left # {}
    PROVE  find_maximum(arr, left) \in left /\ find_minimum(arr, left) \in left
<1>1. find_maximum(arr, left) \in left
  <2>1. \E i \in left : \A j \in left : arr[j] < arr[i] \/ (arr[j] = arr[i] /\ i <= j)
    BY FirstExists DEF IsFirst
  <2> QED
    BY <2>1 DEF find_maximum
<1>2. find_minimum(arr, left) \in left
  <2> DEFINE turned == [j \in 1 .. n |-> -arr[j]]
  <2>1. turned \in [1 .. n -> Int] /\ \A j \in left : turned[j] = -arr[j] /\ arr[j] \in Int
    OBVIOUS
  <2> HIDE DEF turned
  <2>2. PICK i \in left : IsFirst(turned, left, i)
    BY <2>1, FirstExists
  <2>3. ASSUME NEW j \in left PROVE arr[j] > arr[i] \/ (arr[j] = arr[i] /\ i <= j)
    BY <2>1, <2>2 DEF IsFirst
  <2>4. \E x \in left : \A j \in left : arr[j] > arr[x] \/ (arr[j] = arr[x] /\ x <= j)
    BY <2>3
  <2> QED
    BY <2>4 DEF find_minimum
<1> QED
  BY <1>1, <1>2

----------------------------------------------------------------------------
\* The rounds of the greedy rules.
Chosen(arr, largest, left) == IF largest THEN find_maximum(arr, left) ELSE find_minimum(arr, left)

\* One round.  A rule may be asked for an item when none is left; it never is.
OneRound(arr, largest, r) ==
    LET left == r.left
        added == r.added
        index == IF largest THEN find_maximum(arr, left) ELSE find_minimum(arr, left)
        fits == TotalWeight(added) + ks.weights[index] <= ks.knapsack_capacity
    IN  [left |-> left \ {index}, added |-> IF fits THEN added \cup {index} ELSE added]

\* What is neither left nor added does not fit any more.
Tried(r) ==
    /\ r.left \subseteq Items /\ r.added \subseteq Items \ r.left
    /\ TotalWeight(r.added) <= ks.knapsack_capacity
    /\ \A j \in Items \ (r.left \cup r.added) : TotalWeight(r.added) + ks.weights[j] > ks.knapsack_capacity

GoodRound(k, r) ==
    /\ r = [left |-> r.left, added |-> r.added]
    /\ Tried(r) /\ IsFiniteSet(r.left) /\ Cardinality(r.left) = ks.size - k

\* A round takes one item from those left, and adds it if it fits.
LEMMA OneRoundTries ==
    ASSUME FileRead, NEW arr \in [Items -> Int], NEW largest \in BOOLEAN, NEW k \in 1 .. ks.size,
           NEW r, GoodRound(k - 1, r)
    PROVE  GoodRound(k, OneRound(arr, largest, r))
<1> DEFINE index == Chosen(arr, largest, r.left)
           fits == TotalWeight(r.added) + ks.weights[index] <= ks.knapsack_capacity
           after == OneRound(arr, largest, r)
<1>1. /\ ks.size \in Nat /\ ks.knapsack_capacity \in Nat /\ Items = 1 .. ks.size
      /\ \A j \in Items : ks.weights[j] \in Nat /\ ks.weights[j] > 0
      /\ \A items : TotalWeight(items) \in Nat
      /\ \A items : \A j \in Items \ items : TotalWeight(items \cup {j}) = TotalWeight(items) + ks.weights[j]
  BY ItemsAre
<1>2. /\ r.left \subseteq Items /\ r.added \subseteq Items \ r.left
      /\ TotalWeight(r.added) <= ks.knapsack_capacity
      /\ \A j \in Items \ (r.left \cup r.added) : TotalWeight(r.added) + ks.weights[j] > ks.knapsack_capacity
      /\ IsFiniteSet(r.left) /\ Cardinality(r.left) = ks.size - (k - 1)
  BY DEF GoodRound, Tried
<1>3. r.left # {}
  <2>1. Cardinality(r.left) # 0
    BY <1>1, <1>2
  <2> QED
    BY <2>1, FS_EmptySet
<1>4. index \in r.left
  <2>1. r.left \in SUBSET (1 .. ks.size) /\ arr \in [1 .. ks.size -> Int] /\ ks.size \in Nat
    BY <1>1, <1>2
  <2>2. find_maximum(arr, r.left) \in r.left /\ find_minimum(arr, r.left) \in r.left
    BY <1>3, <2>1, IndexIsLeft
  <2> QED
    BY <2>2 DEF Chosen
<1>5. after = [left |-> r.left \ {index}, added |-> IF fits THEN r.added \cup {index} ELSE r.added]
  BY DEF OneRound, Chosen
<1> HIDE DEF index, after, fits
<1>6. after.left = r.left \ {index} /\ after.added = (IF fits THEN r.added \cup {index} ELSE r.added)
  BY <1>5
<1>7. IsFiniteSet(after.left) /\ Cardinality(after.left) = ks.size - k
  <2>1. IsFiniteSet(r.left \ {index}) /\ Cardinality(r.left \ {index}) = Cardinality(r.left) - 1
    BY <1>2, <1>4, FS_RemoveElement
  <2> QED
    BY <1>1, <1>2, <1>6, <2>1
<1>8. index \in Items \ r.added /\ ks.weights[index] \in Nat /\ TotalWeight(r.added) \in Nat
  BY <1>1, <1>2, <1>4
<1>9. Tried(after)
  <2>1. CASE fits
    <3>1. after.added = r.added \cup {index}
      BY <1>6, <2>1
    <3>2. TotalWeight(after.added) = TotalWeight(r.added) + ks.weights[index]
      BY <1>1, <1>8, <3>1
    <3>3. TotalWeight(after.added) <= ks.knapsack_capacity
      BY <2>1, <3>2 DEF fits
    <3>4. ASSUME NEW j \in Items \ (after.left \cup after.added)
          PROVE  TotalWeight(after.added) + ks.weights[j] > ks.knapsack_capacity
      <4>1. j \in Items \ (r.left \cup r.added)
        BY <1>6, <3>1
      <4>2. TotalWeight(r.added) + ks.weights[j] > ks.knapsack_capacity /\ ks.weights[j] \in Nat
        BY <1>1, <1>2, <4>1
      <4>3. PICK v \in Nat, w \in Nat, t \in Nat :
              v = ks.weights[j] /\ w = ks.weights[index] /\ t = TotalWeight(r.added)
        BY <1>8, <4>2
      <4>4. t + v > ks.knapsack_capacity /\ TotalWeight(after.added) = t + w
        BY <3>2, <4>2, <4>3
      <4>5. (t + w) + v > ks.knapsack_capacity
        BY <1>1, <4>4
      <4> QED
        BY <4>3, <4>4, <4>5
    <3>5. after.left \subseteq Items /\ after.added \subseteq Items \ after.left
      BY <1>2, <1>4, <1>6, <1>8, <3>1
    <3> QED
      BY <3>3, <3>4, <3>5 DEF Tried
  <2>2. CASE ~fits
    <3>1. after.added = r.added
      BY <1>6, <2>2
    <3>2. ASSUME NEW j \in Items \ (after.left \cup after.added)
          PROVE  TotalWeight(after.added) + ks.weights[j] > ks.knapsack_capacity
      <4>1. j = index \/ j \in Items \ (r.left \cup r.added)
        BY <1>6, <3>1
      <4>2. TotalWeight(r.added) + ks.weights[index] > ks.knapsack_capacity
        BY <1>1, <1>8, <2>2 DEF fits
      <4> QED
        BY <1>2, <3>1, <4>1, <4>2
    <3>3. after.left \subseteq Items /\ after.added \subseteq Items \ after.left
      BY <1>2, <1>6, <3>1
    <3> QED
      BY <1>2, <3>1, <3>2, <3>3 DEF Tried
  <2> QED
    BY <2>1, <2>2
<1>10. after = [left |-> after.left, added |-> after.added]
  BY <1>5, <1>6
<1>11. GoodRound(k, after)
  BY <1>7, <1>9, <1>10 DEF GoodRound
<1> QED
  BY <1>11 DEF after

\* Whichever rule gives the order, a greedy choice fits and leaves nothing out
\* that would.
LEMMA GreedyIsGood ==
    ASSUME FileRead, NEW arr \in [Items -> Int], NEW largest \in BOOLEAN
    PROVE  Fit(Greedy(arr, largest)) /\ NothingLeft(Greedy(arr, largest))
<1> DEFINE n == ks.size
           base == [left |-> Items, added |-> {}]
           Again(r) == OneRound(arr, largest, r)
           Fix(f) == f = [k \in 0 .. n |-> IF k = 0 THEN base ELSE Again(f[k - 1])]
           after == CHOOSE f : Fix(f)
           V == {r \in [left : SUBSET Items, added : SUBSET Items] : \E k \in 0 .. n : GoodRound(k, r)}
           round == [z \in (1 .. n) \X V |-> IF GoodRound(z[1] - 1, z[2]) THEN Again(z[2]) ELSE z[2]]
<1>1. Greedy(arr, largest) = after[n].added
  BY DEF Greedy, OneRound
<1>2. /\ n \in Nat /\ n \in 0 .. n /\ Items = 1 .. n /\ ks.knapsack_capacity \in Nat
      /\ TotalWeight({}) = 0 /\ \A items : TotalWeight(items) \in Nat
      /\ \A j \in Items : ks.weights[j] \in Nat
  BY ItemsAre
<1>3. GoodRound(0, base)
  <2>1. base.left = Items /\ base.added = {}
    OBVIOUS
  <2>2. IsFiniteSet(1 .. n) /\ Cardinality(1 .. n) = n - 0
    <3> HIDE DEF n
    <3>1. IsFiniteSet(1 .. n) /\ Cardinality(1 .. n) = IF 1 > n THEN 0 ELSE n - 1 + 1
      BY <1>2, FS_Interval
    <3> QED
      BY <1>2, <3>1
  <2> HIDE DEF base
  <2>3. Tried(base)
    BY <1>2, <2>1 DEF Tried
  <2>4. base = [left |-> base.left, added |-> base.added]
    BY <2>1 DEF base
  <2> HIDE DEF n
  <2> QED
    BY <1>2, <2>1, <2>2, <2>3, <2>4 DEF GoodRound, n
<1>4. ASSUME NEW k \in 1 .. n, NEW r, GoodRound(k - 1, r) PROVE GoodRound(k, Again(r))
  BY <1>4, OneRoundTries
<1> HIDE DEF base, Again
<1>5. ASSUME NEW k \in 0 .. n, NEW r, GoodRound(k, r) PROVE r \in V
  <2>1. r.left \subseteq Items /\ r.added \subseteq Items /\ r = [left |-> r.left, added |-> r.added]
    BY <1>5 DEF GoodRound, Tried
  <2> QED
    BY <1>5, <2>1
<1>6. ASSUME NEW k \in 1 .. n, NEW v \in V
      PROVE  /\ round[<<k, v>>] = IF GoodRound(k - 1, v) THEN Again(v) ELSE v
             /\ round[<<k, v>>] \in V
  <2>1. round[<<k, v>>] = IF GoodRound(k - 1, v) THEN Again(v) ELSE v
    <3> HIDE DEF V
    <3> QED
      OBVIOUS
  <2>2. k \in 0 .. n
    BY <1>2
  <2>3. GoodRound(k - 1, v) => Again(v) \in V
    <3> HIDE DEF V
    <3> QED
      BY <1>4, <1>5, <2>2
  <2> HIDE DEF V, round
  <2> QED
    BY <2>1, <2>3
<1> HIDE DEF round
<1>7. PICK g \in [0 .. n -> V] : Values(g, n, base, round)
  <2>1. base \in V
    <3> HIDE DEF V
    <3>1. 0 \in 0 .. n
      BY <1>2
    <3> QED
      BY <1>3, <1>5, <3>1
  <2> HIDE DEF V, n
  <2>2. Keeps(round, n, V)
    BY <1>6 DEF Keeps
  <2> QED
    BY <1>2, <2>1, <2>2, LoopHasValues
<1>8. \A k \in 1 .. n : g[k - 1] \in V /\ k - 1 \in 0 .. n /\ k \in 0 .. n
  <2> HIDE DEF V
  <2>1. \A k \in 1 .. n : k - 1 \in 0 .. n /\ k \in 0 .. n
    BY <1>2
  <2> HIDE DEF n
  <2> QED
    BY <1>7, <2>1
<1> HIDE DEF V
<1>9. \A k \in 0 .. n : GoodRound(k, g[k])
  <2> DEFINE S == {k \in 0 .. n : GoodRound(k, g[k])}
  <2>1. 0 \in S
    BY <1>2, <1>3, <1>7 DEF Values
  <2>2. ASSUME NEW k \in 0 .. n - 1, k \in S PROVE k + 1 \in S
    <3>1. k + 1 \in 0 .. n /\ k + 1 \in 1 .. n /\ (k + 1) - 1 = k
      BY <1>2
    <3>2. g[k + 1] = round[<<k + 1, g[k]>>] /\ g[k] \in V
      BY <1>7, <1>8, <3>1 DEF Values
    <3>3. GoodRound((k + 1) - 1, g[k])
      BY <2>2, <3>1
    <3>4. g[k + 1] = Again(g[k])
      BY <1>6, <3>1, <3>2, <3>3
    <3> QED
      BY <1>4, <3>1, <3>3, <3>4
  <2>3. 0 .. n \subseteq S
    <3> HIDE DEF S
    <3> QED
      BY <1>2, <2>1, <2>2, CountUp
  <2> QED
    BY <2>3
<1>10. Fix(g)
  <2>1. ASSUME NEW k \in 0 .. n PROVE g[k] = IF k = 0 THEN base ELSE Again(g[k - 1])
    <3>1. CASE k # 0
      <4>1. k \in 1 .. n
        BY <1>2, <3>1
      <4>2. g[k] = round[<<k, g[k - 1]>>]
        BY <1>7, <4>1 DEF Values
      <4>3. GoodRound(k - 1, g[k - 1])
        BY <1>8, <1>9, <4>1
      <4> QED
        BY <1>6, <1>8, <3>1, <4>1, <4>2, <4>3
    <3> QED
      BY <1>7, <3>1 DEF Values
  <2> QED
    BY <1>7, <2>1
<1>11. Fix(after)
  <2> HIDE DEF Fix
  <2> QED
    BY <1>10
<1> HIDE DEF after
<1>12. after[0] = base /\ \A k \in 1 .. n : after[k] = Again(after[k - 1])
  <2>1. \A k \in 0 .. n : after[k] = IF k = 0 THEN base ELSE Again(after[k - 1])
    BY <1>11
  <2>2. 0 \in 0 .. n /\ \A k \in 1 .. n : k \in 0 .. n /\ k # 0
    BY <1>2
  <2> HIDE DEF Fix, n
  <2> QED
    BY <2>1, <2>2
<1> HIDE DEF Fix
<1>13. GoodRound(n, after[n])
  <2> DEFINE S == {k \in 0 .. n : GoodRound(k, after[k])}
  <2>1. 0 \in S
    BY <1>2, <1>3, <1>12
  <2>2. ASSUME NEW k \in 0 .. n - 1, k \in S PROVE k + 1 \in S
    <3>1. k + 1 \in 0 .. n /\ k + 1 \in 1 .. n /\ (k + 1) - 1 = k
      BY <1>2
    <3> QED
      BY <1>4, <1>12, <2>2, <3>1
  <2>3. 0 .. n \subseteq S
    <3> HIDE DEF S
    <3> QED
      BY <1>2, <2>1, <2>2, CountUp
  <2> QED
    BY <1>2, <2>3
<1> DEFINE r == after[n]
<1>14. /\ r.left \subseteq Items /\ r.added \subseteq Items \ r.left
       /\ TotalWeight(r.added) <= ks.knapsack_capacity
       /\ \A j \in Items \ (r.left \cup r.added) : TotalWeight(r.added) + ks.weights[j] > ks.knapsack_capacity
       /\ IsFiniteSet(r.left) /\ Cardinality(r.left) = n - n
  BY <1>13 DEF GoodRound, Tried
<1> HIDE DEF r, n
<1>15. r.left = {}
  <2>1. Cardinality(r.left) = 0
    BY <1>2, <1>14
  <2> QED
    BY <1>14, <2>1, FS_EmptySet
<1>16. NothingLeft(r.added)
  <2>1. ASSUME NEW j \in Items \ r.added PROVE ks.weights[j] > ks.knapsack_capacity - TotalWeight(r.added)
    <3>1. j \in Items \ (r.left \cup r.added) /\ ks.weights[j] \in Nat /\ TotalWeight(r.added) \in Nat
      BY <1>2, <1>15
    <3>2. TotalWeight(r.added) + ks.weights[j] > ks.knapsack_capacity
      BY <1>14, <3>1
    <3> QED
      BY <1>2, <3>1, <3>2
  <2> QED
    BY <2>1 DEF NothingLeft
<1> QED
  BY <1>1, <1>14, <1>16 DEF Fit, r

\* A row of the table from the one above it.
NextRow(i, above) ==
    LET temp(j) == above[j - ks.weights[i]] + ks.profits[i]
    IN  [j \in 0 .. ks.knapsack_capacity |->
           IF j = 0 THEN 0 ELSE IF ks.weights[i] <= j /\ temp(j) > above[j] THEN temp(j) ELSE above[j]]

\* A row has numbers, and 0 at the capacity 0.
LEMMA NextRowIs ==
    ASSUME FileRead, NEW i \in Items, NEW above \in [0 .. ks.knapsack_capacity -> Nat]
    PROVE  /\ NextRow(i, above) \in [0 .. ks.knapsack_capacity -> Nat]
           /\ NextRow(i, above)[0] = 0
           /\ \A j \in 1 .. ks.knapsack_capacity :
                 NextRow(i, above)[j] = IF ks.weights[i] <= j /\ above[j - ks.weights[i]] + ks.profits[i] > above[j]
                                        THEN above[j - ks.weights[i]] + ks.profits[i] ELSE above[j]
<1> DEFINE W == ks.knapsack_capacity
           w == ks.weights[i]
           p == ks.profits[i]
           row == NextRow(i, above)
<1>1. W \in Nat /\ w \in Nat /\ w > 0 /\ p \in Nat
  BY ItemsAre
<1>2. row = [j \in 0 .. W |-> IF j = 0 THEN 0 ELSE IF w <= j /\ above[j - w] + p > above[j]
                                                 THEN above[j - w] + p ELSE above[j]]
  BY DEF NextRow
<1> HIDE DEF row, w, p, W
<1>3. 0 \in 0 .. W /\ \A j \in 1 .. W : j \in 0 .. W /\ j # 0
  BY <1>1
<1>4. row[0] = 0
  BY <1>2, <1>3
<1>5. \A j \in 1 .. W : row[j] = IF w <= j /\ above[j - w] + p > above[j] THEN above[j - w] + p ELSE above[j]
  BY <1>2, <1>3
<1>6. ASSUME NEW j \in 0 .. W PROVE row[j] \in Nat
  <2>1. above \in [0 .. W -> Nat]
    BY DEF W
  <2>2. above[j] \in Nat
    BY <2>1
  <2>3. CASE j # 0
    <3>1. j \in 1 .. W
      BY <1>1, <2>3
    <3>2. w <= j => j - w \in 0 .. W
      BY <1>1
    <3>3. w <= j => above[j - w] \in Nat
      BY <2>1, <3>2
    <3> QED
      BY <1>1, <1>5, <2>2, <3>1, <3>3
  <2> QED
    BY <1>4, <2>3
<1>7. row \in [0 .. W -> Nat]
  BY <1>2, <1>6
<1> QED
  BY <1>4, <1>5, <1>7 DEF row, w, p, W

\* The table has its rows, each from the one above it.
LEMMA TableIs ==
    ASSUME FileRead
    PROVE  /\ \A i \in 0 .. ks.size : Table[i] \in [0 .. ks.knapsack_capacity -> Nat]
           /\ \A j \in 0 .. ks.knapsack_capacity : Table[0][j] = 0
           /\ \A i \in 1 .. ks.size : Table[i] = NextRow(i, Table[i - 1])
<1> DEFINE n == ks.size
           V == [0 .. ks.knapsack_capacity -> Nat]
           base == [j \in 0 .. ks.knapsack_capacity |-> 0]
           round == [z \in (1 .. n) \X V |-> NextRow(z[1], z[2])]
           Fix(f) == f = [i \in 0 .. n |-> IF i = 0 THEN base ELSE NextRow(i, f[i - 1])]
           table == CHOOSE f : Fix(f)
<1>1. n \in Nat /\ Items = 1 .. n /\ ks.knapsack_capacity \in Nat
  BY ItemsAre
<1>2. Table = table
  BY DEF Table, NextRow
<1>3. base \in V /\ \A j \in 0 .. ks.knapsack_capacity : base[j] = 0
  OBVIOUS
<1> HIDE DEF base
<1>4. ASSUME NEW i \in 1 .. n, NEW v \in V PROVE NextRow(i, v) \in V /\ round[<<i, v>>] = NextRow(i, v)
  <2>1. NextRow(i, v) \in V
    BY <1>1, NextRowIs
  <2> HIDE DEF V, n
  <2> QED
    BY <2>1
<1> HIDE DEF round, V, n
<1>5. PICK g \in [0 .. n -> V] : Values(g, n, base, round)
  <2>1. Keeps(round, n, V)
    BY <1>4 DEF Keeps
  <2> QED
    BY <1>1, <1>3, <2>1, LoopHasValues
<1>6. Fix(g)
  <2>1. ASSUME NEW i \in 0 .. n PROVE g[i] = IF i = 0 THEN base ELSE NextRow(i, g[i - 1])
    <3>1. CASE i # 0
      <4>1. i \in 1 .. n /\ i - 1 \in 0 .. n
        BY <1>1, <3>1
      <4>2. g[i - 1] \in V
        BY <4>1
      <4> QED
        BY <1>4, <1>5, <3>1, <4>1, <4>2 DEF Values
    <3> QED
      BY <1>5, <3>1 DEF Values
  <2> QED
    BY <2>1
<1>7. Fix(table)
  <2> HIDE DEF Fix
  <2> QED
    BY <1>6
<1> HIDE DEF table
<1>8. table[0] = base /\ \A i \in 1 .. n : table[i] = NextRow(i, table[i - 1])
  <2>1. \A i \in 0 .. n : table[i] = IF i = 0 THEN base ELSE NextRow(i, table[i - 1])
    BY <1>7
  <2>2. 0 \in 0 .. n /\ \A i \in 1 .. n : i \in 0 .. n /\ i # 0
    BY <1>1
  <2> HIDE DEF Fix
  <2> QED
    BY <2>1, <2>2
<1> HIDE DEF Fix
<1>9. \A i \in 0 .. n : table[i] \in V
  <2> DEFINE S == {i \in 0 .. n : table[i] \in V}
  <2>1. 0 \in S
    BY <1>1, <1>3, <1>8
  <2>2. ASSUME NEW i \in 0 .. n - 1, i \in S PROVE i + 1 \in S
    <3>1. i + 1 \in 0 .. n /\ i + 1 \in 1 .. n /\ (i + 1) - 1 = i
      BY <1>1
    <3>2. table[i + 1] = NextRow(i + 1, table[i]) /\ table[i] \in V
      BY <1>8, <2>2, <3>1
    <3>3. NextRow(i + 1, table[i]) \in V
      BY <1>4, <3>1, <3>2
    <3> QED
      BY <3>1, <3>2, <3>3
  <2>3. 0 .. n \subseteq S
    <3> HIDE DEF S
    <3> QED
      BY <1>1, <2>1, <2>2, CountUp
  <2> QED
    BY <2>3
<1> QED
  BY <1>2, <1>3, <1>8, <1>9 DEF V, n

\* What the table holds, cell by cell.
LEMMA CellsAre ==
    ASSUME FileRead, NEW i \in Items
    PROVE  /\ Table[i][0] = 0
           /\ \A j \in 0 .. ks.knapsack_capacity : Table[i][j] \in Nat /\ Table[i - 1][j] \in Nat
           /\ \A j \in 1 .. ks.knapsack_capacity :
                 Table[i][j] = IF ks.weights[i] <= j /\ Table[i - 1][j - ks.weights[i]] + ks.profits[i] > Table[i - 1][j]
                               THEN Table[i - 1][j - ks.weights[i]] + ks.profits[i] ELSE Table[i - 1][j]
<1>1. i \in 1 .. ks.size /\ i \in 0 .. ks.size /\ i - 1 \in 0 .. ks.size
  BY ItemsAre
<1>2. PICK above \in [0 .. ks.knapsack_capacity -> Nat] : above = Table[i - 1]
  BY <1>1, TableIs
<1>3. Table[i] = NextRow(i, above)
  BY <1>1, <1>2, TableIs
<1>4. /\ NextRow(i, above) \in [0 .. ks.knapsack_capacity -> Nat]
      /\ NextRow(i, above)[0] = 0
      /\ \A j \in 1 .. ks.knapsack_capacity :
            NextRow(i, above)[j] = IF ks.weights[i] <= j /\ above[j - ks.weights[i]] + ks.profits[i] > above[j]
                                   THEN above[j - ks.weights[i]] + ks.profits[i] ELSE above[j]
  BY NextRowIs
<1>5. \A j \in 0 .. ks.knapsack_capacity : Table[i][j] \in Nat /\ Table[i - 1][j] \in Nat
  BY <1>2, <1>3, <1>4
<1> QED
  BY <1>2, <1>3, <1>4, <1>5

\* No choice of the first i items that weighs up to j is worth more than the cell.
LEMMA CellsBound ==
    ASSUME FileRead
    PROVE  \A i \in 0 .. ks.size : \A j \in 0 .. ks.knapsack_capacity : \A some \in SUBSET (1 .. i) :
             TotalWeight(some) <= j => TotalProfit(some) <= Table[i][j]
<1> DEFINE n == ks.size
           W == ks.knapsack_capacity
           S == {i \in 0 .. n : \A j \in 0 .. W : \A some \in SUBSET (1 .. i) :
                                  TotalWeight(some) <= j => TotalProfit(some) <= Table[i][j]}
<1>1. /\ n \in Nat /\ W \in Nat /\ Items = 1 .. n
      /\ \A j \in Items : ks.weights[j] \in Nat /\ ks.weights[j] > 0 /\ ks.profits[j] \in Nat
      /\ TotalProfit({}) = 0
      /\ \A some : TotalWeight(some) \in Nat /\ TotalProfit(some) \in Nat
      /\ \A some : \A j \in Items \cap some :
            /\ TotalWeight(some) = TotalWeight(some \ {j}) + ks.weights[j]
            /\ TotalProfit(some) = TotalProfit(some \ {j}) + ks.profits[j]
  BY ItemsAre
<1>2. 0 \in S
  <2>1. 1 .. 0 = {}
    OBVIOUS
  <2>2. \A j \in 0 .. W : Table[0][j] = 0
    BY TableIs
  <2>3. ASSUME NEW j \in 0 .. W, NEW some \in SUBSET (1 .. 0) PROVE TotalProfit(some) <= Table[0][j]
    <3>1. some = {}
      BY <2>1
    <3> QED
      BY <1>1, <2>2, <3>1
  <2> QED
    BY <1>1, <2>3
<1>3. ASSUME NEW m \in 0 .. n - 1, m \in S PROVE m + 1 \in S
  <2> DEFINE i == m + 1
  <2>1. i \in Items /\ i \in 0 .. n /\ i - 1 = m /\ m \in Nat
    BY <1>1
  <2>2. /\ Table[i][0] = 0
        /\ \A j \in 0 .. W : Table[i][j] \in Nat /\ Table[m][j] \in Nat
        /\ \A j \in 1 .. W :
              Table[i][j] = IF ks.weights[i] <= j /\ Table[m][j - ks.weights[i]] + ks.profits[i] > Table[m][j]
                            THEN Table[m][j - ks.weights[i]] + ks.profits[i] ELSE Table[m][j]
    <3> HIDE DEF i
    <3> QED
      BY <2>1, CellsAre
  <2>3. ASSUME NEW j \in 0 .. W, NEW some \in SUBSET (1 .. i), TotalWeight(some) <= j
        PROVE  TotalProfit(some) <= Table[i][j]
    <3>1. ks.weights[i] \in Nat /\ ks.weights[i] > 0 /\ ks.profits[i] \in Nat
      BY <1>1, <2>1
    <3>2. TotalWeight(some) \in Nat /\ TotalProfit(some) \in Nat /\ Table[m][j] \in Nat /\ Table[i][j] \in Nat
      BY <1>1, <2>2
    <3>3. CASE i \notin some
      <4>1. some \in SUBSET (1 .. m)
        BY <2>1, <3>3
      <4>2. TotalProfit(some) <= Table[m][j]
        BY <1>3, <2>3, <4>1
      <4>3. CASE j = 0
        <5>1. some = {}
          <6> SUFFICES ASSUME NEW x \in some PROVE FALSE
            OBVIOUS
          <6>1. x \in Items \cap some
            BY <1>1, <2>1
          <6>2. TotalWeight(some) = TotalWeight(some \ {x}) + ks.weights[x]
            BY <1>1, <6>1
          <6>3. TotalWeight(some \ {x}) \in Nat /\ ks.weights[x] \in Nat /\ ks.weights[x] > 0
            BY <1>1, <6>1
          <6> QED
            BY <2>3, <3>2, <4>3, <6>2, <6>3
        <5> QED
          BY <1>1, <3>2, <5>1
      <4>4. CASE j # 0
        <5>1. j \in 1 .. W
          BY <1>1, <4>4
        <5>2. ks.weights[i] <= j => Table[m][j - ks.weights[i]] \in Nat
          BY <1>1, <2>2, <3>1
        <5>3. Table[m][j] <= Table[i][j]
          <6> HIDE DEF i
          <6> QED
            BY <2>2, <3>1, <3>2, <5>1, <5>2
        <5> QED
          BY <3>2, <4>2, <5>3
      <4> QED
        BY <4>3, <4>4
    <3>4. CASE i \in some
      <4> DEFINE rest == some \ {i}
      <4>1. TotalWeight(some) = TotalWeight(rest) + ks.weights[i] /\ TotalProfit(some) = TotalProfit(rest) + ks.profits[i]
        <5>1. i \in Items \cap some
          BY <2>1, <3>4
        <5> HIDE DEF i, n, W
        <5> QED
          BY <1>1, <5>1
      <4>2. TotalWeight(rest) \in Nat /\ TotalProfit(rest) \in Nat
        BY <1>1
      <4>3. rest \in SUBSET (1 .. m)
        BY <2>1
      <4> HIDE DEF rest, i
      <4>4. ks.weights[i] <= j /\ j - ks.weights[i] \in 0 .. W /\ j \in 1 .. W /\ TotalWeight(rest) <= j - ks.weights[i]
        <5>1. PICK v \in Nat : v = ks.weights[i]
          BY <3>1
        <5>2. PICK t \in Nat : t = TotalWeight(rest)
          BY <4>2
        <5>3. t + v <= j /\ v > 0 /\ W \in Nat
          BY <1>1, <2>3, <3>1, <4>1, <5>1, <5>2
        <5> HIDE DEF W
        <5>4. v <= j /\ j - v \in 0 .. W /\ j \in 1 .. W /\ t <= j - v
          BY <5>3
        <5> QED
          BY <5>1, <5>2, <5>4
      <4>5. TotalProfit(rest) <= Table[m][j - ks.weights[i]]
        BY <1>3, <4>3, <4>4
      <4>6. Table[m][j - ks.weights[i]] \in Nat
        BY <2>2, <4>4
      <4>7. Table[m][j - ks.weights[i]] + ks.profits[i] <= Table[i][j]
        BY <2>2, <3>1, <3>2, <4>4, <4>6
      <4> QED
        BY <3>1, <3>2, <4>1, <4>2, <4>5, <4>6, <4>7
    <3> QED
      BY <3>3, <3>4
  <2> QED
    BY <2>1, <2>3
<1>4. 0 .. n \subseteq S
  <2> HIDE DEF S
  <2> QED
    BY <1>1, <1>2, <1>3, CountUp
<1> QED
  BY <1>4

\* One round of the way back: the item looked at, and what is left of the capacity.
RoundBack(round, r) ==
    LET i == ks.size - (round - 1)
        temp == r.temp
        printed == r.printed
    IN  IF Table[i][temp] # Table[i - 1][temp]
        THEN [temp |-> temp - ks.weights[i], printed |-> printed \cup {i}]
        ELSE [temp |-> temp, printed |-> printed]

\* What is printed and what the table has for the rest are the profit of the last cell.
Accounted(round, r) ==
    /\ r.temp \in 0 .. ks.knapsack_capacity
    /\ r.printed \subseteq (ks.size - round + 1) .. ks.size
    /\ TotalWeight(r.printed) + r.temp = ks.knapsack_capacity
    /\ TotalProfit(r.printed) + Table[ks.size - round][r.temp] = Table[ks.size][ks.knapsack_capacity]

\* A step of the way back, with an item or without one, keeps the accounts.
LEMMA BackAccounts ==
    ASSUME FileRead, NEW k \in 1 .. ks.size, NEW r, Accounted(k - 1, r)
    PROVE  Accounted(k, RoundBack(k, r))
<1> DEFINE n == ks.size
           W == ks.knapsack_capacity
           i == n - (k - 1)
           t == r.temp
           T == TotalProfit(r.printed)
           b == RoundBack(k, r)
<1>1. /\ n \in Nat /\ W \in Nat /\ Items = 1 .. n
      /\ \A j \in Items : ks.weights[j] \in Nat /\ ks.weights[j] > 0 /\ ks.profits[j] \in Nat
      /\ \A some : TotalWeight(some) \in Nat /\ TotalProfit(some) \in Nat
      /\ \A some : \A j \in Items \ some :
            /\ TotalWeight(some \cup {j}) = TotalWeight(some) + ks.weights[j]
            /\ TotalProfit(some \cup {j}) = TotalProfit(some) + ks.profits[j]
  BY ItemsAre
<1>2. /\ t \in 0 .. W
      /\ r.printed \subseteq (n - (k - 1) + 1) .. n
      /\ TotalWeight(r.printed) + t = W
      /\ T + Table[n - (k - 1)][t] = Table[n][W]
  BY DEF Accounted
<1>3. i \in Items /\ i \in 1 .. n /\ i - 1 = n - k /\ n - k + 1 = i
  BY <1>1
<1>4. b = IF Table[i][t] # Table[i - 1][t]
          THEN [temp |-> t - ks.weights[i], printed |-> r.printed \cup {i}] ELSE [temp |-> t, printed |-> r.printed]
  BY DEF RoundBack
<1>5. /\ Table[i][0] = 0
      /\ \A j \in 0 .. W : Table[i][j] \in Nat /\ Table[i - 1][j] \in Nat
      /\ \A j \in 1 .. W : Table[i][j] = IF ks.weights[i] <= j /\ Table[i - 1][j - ks.weights[i]] + ks.profits[i] > Table[i - 1][j]
                                         THEN Table[i - 1][j - ks.weights[i]] + ks.profits[i] ELSE Table[i - 1][j]
  <2> HIDE DEF i
  <2> QED
    BY <1>3, CellsAre
<1>6. Table[i - 1][0] = 0
  <2>1. CASE i = 1
    BY <1>1, <2>1, TableIs
  <2>2. CASE i # 1
    <3>1. PICK h \in Items : h = i - 1
      BY <1>1, <1>3, <2>2
    <3> QED
      BY <3>1, CellsAre
  <2> QED
    BY <2>1, <2>2
<1>7. T + Table[i][t] = Table[n][W] /\ T \in Nat /\ TotalWeight(r.printed) \in Nat
  BY <1>1, <1>2
<1>8. r.printed \subseteq i + 1 .. n
  BY <1>2
<1>9. Table[n][W] \in Nat
  BY <1>2, <1>5, <1>7
<1> HIDE DEF i, b, t, T, W, n
<1>10. CASE Table[i][t] = Table[i - 1][t]
  <2>1. b.temp = t /\ b.printed = r.printed
    BY <1>4, <1>10
  <2>2. r.printed \subseteq (n - k + 1) .. n
    BY <1>1, <1>3, <1>8
  <2>3. TotalProfit(b.printed) + Table[n - k][b.temp] = Table[n][W]
    BY <1>3, <1>7, <1>10, <2>1 DEF T
  <2> QED
    BY <1>2, <2>1, <2>2, <2>3 DEF Accounted, b, n, W
<1>11. CASE Table[i][t] # Table[i - 1][t]
  <2>1. b.temp = t - ks.weights[i] /\ b.printed = r.printed \cup {i}
    BY <1>4, <1>11
  <2>2. t \in 1 .. W
    BY <1>1, <1>2, <1>5, <1>6, <1>11
  <2>3. ks.weights[i] <= t /\ Table[i][t] = Table[i - 1][t - ks.weights[i]] + ks.profits[i]
    BY <1>5, <1>11, <2>2
  <2>4. ks.weights[i] \in Nat /\ ks.profits[i] \in Nat
    BY <1>1, <1>3
  <2>5. t - ks.weights[i] \in 0 .. W
    BY <1>1, <2>2, <2>3, <2>4
  <2>6. Table[i - 1][t - ks.weights[i]] \in Nat
    BY <1>5, <2>5
  <2>7. i \in Items \ r.printed
    BY <1>1, <1>3, <1>8
  <2>8. TotalWeight(b.printed) = TotalWeight(r.printed) + ks.weights[i] /\ TotalProfit(b.printed) = T + ks.profits[i]
    BY <1>1, <2>1, <2>7 DEF T
  <2>9. TotalWeight(b.printed) + b.temp = W
    <3>1. PICK v \in Nat, w \in Nat, x \in Nat : v = ks.weights[i] /\ w = TotalWeight(r.printed) /\ x = t
      BY <1>1, <1>7, <2>2, <2>4
    <3>2. TotalWeight(b.printed) = w + v /\ b.temp = x - v /\ w + x = W
      BY <1>2, <2>1, <2>8, <3>1
    <3>3. (w + v) + (x - v) = w + x
      OBVIOUS
    <3> QED
      BY <3>2, <3>3
  <2>10. TotalProfit(b.printed) + Table[i - 1][b.temp] = Table[n][W]
    BY <1>7, <2>1, <2>3, <2>4, <2>6, <2>8
  <2>11. b.printed \subseteq (n - k + 1) .. n
    BY <1>1, <1>3, <1>8, <2>1
  <2>12. Table[i - 1] = Table[n - k]
    BY <1>3
  <2> QED
    BY <2>1, <2>5, <2>9, <2>10, <2>11, <2>12 DEF Accounted, b, n, W
<1> QED
  BY <1>10, <1>11 DEF b

\* So the items printed are worth the last cell, and nothing that fits is worth
\* more.
LEMMA DynamicIsBest ==
    ASSUME FileRead
    PROVE  Fit(perform_dynamic_pragramming) /\ MostProfit(perform_dynamic_pragramming)
<1> DEFINE n == ks.size
           base == [temp |-> ks.knapsack_capacity, printed |-> {}]
           Fix(f) == f = [k \in 0 .. n |-> IF k = 0 THEN base ELSE RoundBack(k, f[k - 1])]
           after == CHOOSE f : Fix(f)
           V == {r \in [temp : 0 .. ks.knapsack_capacity, printed : SUBSET Items] : \E k \in 0 .. n : Accounted(k, r)}
           round == [z \in (1 .. n) \X V |-> IF Accounted(z[1] - 1, z[2]) THEN RoundBack(z[1], z[2]) ELSE z[2]]
<1>1. perform_dynamic_pragramming = after[n].printed
  BY DEF perform_dynamic_pragramming, TraceBack, RoundBack
<1>2. /\ n \in Nat /\ n \in 0 .. n /\ Items = 1 .. n /\ ks.knapsack_capacity \in Nat
      /\ TotalWeight({}) = 0 /\ TotalProfit({}) = 0
      /\ \A items : TotalWeight(items) \in Nat /\ TotalProfit(items) \in Nat
  BY ItemsAre
<1>3. /\ \A j \in 0 .. ks.knapsack_capacity : Table[0][j] = 0
      /\ Table[n][ks.knapsack_capacity] \in Nat
  <2>1. ks.knapsack_capacity \in 0 .. ks.knapsack_capacity
    BY <1>2
  <2>2. PICK row \in [0 .. ks.knapsack_capacity -> Nat] : row = Table[n]
    BY <1>2, TableIs
  <2>3. Table[n][ks.knapsack_capacity] \in Nat
    BY <2>1, <2>2
  <2> QED
    BY <2>3, TableIs
<1>4. Accounted(0, base)
  <2>1. base.temp = ks.knapsack_capacity /\ base.printed = {} /\ n - 0 = n
    BY <1>2
  <2> HIDE DEF base
  <2> QED
    BY <1>2, <1>3, <2>1 DEF Accounted
<1>5. ASSUME NEW k \in 1 .. n, NEW r, Accounted(k - 1, r) PROVE Accounted(k, RoundBack(k, r))
  BY <1>5, BackAccounts
<1>6. \A k, r : RoundBack(k, r) = [temp |-> RoundBack(k, r).temp, printed |-> RoundBack(k, r).printed]
  BY DEF RoundBack
<1>7. ASSUME NEW k \in 0 .. n, NEW r, r = [temp |-> r.temp, printed |-> r.printed], Accounted(k, r) PROVE r \in V
  <2>1. r.temp \in 0 .. ks.knapsack_capacity
    BY <1>7 DEF Accounted
  <2>2. r.printed \subseteq Items
    <3>1. r.printed \subseteq (n - k + 1) .. n
      BY <1>7 DEF Accounted
    <3> QED
      BY <1>2, <3>1
  <2>3. r \in [temp : 0 .. ks.knapsack_capacity, printed : SUBSET Items]
    BY <1>7, <2>1, <2>2
  <2> QED
    BY <1>7, <2>3
<1>8. base \in V
  <2>1. base = [temp |-> base.temp, printed |-> base.printed] /\ 0 \in 0 .. n
    BY <1>2
  <2> HIDE DEF V, base
  <2> QED
    BY <1>4, <1>7, <2>1
<1> HIDE DEF base, V, n
<1>9. ASSUME NEW k \in 1 .. n, NEW v \in V
      PROVE  /\ round[<<k, v>>] = IF Accounted(k - 1, v) THEN RoundBack(k, v) ELSE v
             /\ round[<<k, v>>] \in V
  <2>1. round[<<k, v>>] = IF Accounted(k - 1, v) THEN RoundBack(k, v) ELSE v
    OBVIOUS
  <2>2. k \in 0 .. n
    BY <1>2
  <2>3. Accounted(k - 1, v) => RoundBack(k, v) \in V
    <3> SUFFICES ASSUME Accounted(k - 1, v) PROVE RoundBack(k, v) \in V
      OBVIOUS
    <3>1. Accounted(k, RoundBack(k, v))
      BY <1>5
    <3>2. RoundBack(k, v) = [temp |-> RoundBack(k, v).temp, printed |-> RoundBack(k, v).printed]
      BY <1>6
    <3> QED
      BY <1>7, <2>2, <3>1, <3>2
  <2> HIDE DEF round
  <2> QED
    BY <2>1, <2>3
<1> HIDE DEF round
<1>10. PICK g \in [0 .. n -> V] : Values(g, n, base, round)
  <2>1. Keeps(round, n, V)
    BY <1>9 DEF Keeps
  <2> QED
    BY <1>2, <1>8, <2>1, LoopHasValues
<1>11. \A k \in 1 .. n : g[k - 1] \in V
  <2>1. \A k \in 1 .. n : k - 1 \in 0 .. n
    BY <1>2
  <2> QED
    BY <1>10, <2>1
<1>12. \A k \in 0 .. n : Accounted(k, g[k])
  <2> DEFINE S == {k \in 0 .. n : Accounted(k, g[k])}
  <2>1. 0 \in S
    BY <1>2, <1>4, <1>10 DEF Values
  <2>2. ASSUME NEW k \in 0 .. n - 1, k \in S PROVE k + 1 \in S
    <3>1. k + 1 \in 0 .. n /\ k + 1 \in 1 .. n /\ (k + 1) - 1 = k
      BY <1>2
    <3>2. g[k + 1] = round[<<k + 1, g[k]>>] /\ g[k] \in V
      BY <1>10, <1>11, <3>1 DEF Values
    <3>3. Accounted((k + 1) - 1, g[k])
      BY <2>2, <3>1
    <3>4. g[k + 1] = RoundBack(k + 1, g[k])
      BY <1>9, <3>1, <3>2, <3>3
    <3> QED
      BY <1>5, <3>1, <3>3, <3>4
  <2>3. 0 .. n \subseteq S
    <3> HIDE DEF S
    <3> QED
      BY <1>2, <2>1, <2>2, CountUp
  <2> QED
    BY <2>3
<1>13. Fix(g)
  <2>1. ASSUME NEW k \in 0 .. n PROVE g[k] = IF k = 0 THEN base ELSE RoundBack(k, g[k - 1])
    <3>1. CASE k # 0
      <4>1. k \in 1 .. n /\ k - 1 \in 0 .. n
        BY <1>2, <3>1
      <4>2. g[k] = round[<<k, g[k - 1]>>]
        BY <1>10, <4>1 DEF Values
      <4>3. Accounted(k - 1, g[k - 1])
        BY <1>12, <4>1
      <4> QED
        BY <1>9, <1>11, <3>1, <4>1, <4>2, <4>3
    <3> QED
      BY <1>10, <3>1 DEF Values
  <2> QED
    BY <1>10, <2>1
<1>14. Fix(after)
  <2> HIDE DEF Fix
  <2> QED
    BY <1>13
<1> HIDE DEF after
<1>15. after[0] = base /\ \A k \in 1 .. n : after[k] = RoundBack(k, after[k - 1])
  <2>1. \A k \in 0 .. n : after[k] = IF k = 0 THEN base ELSE RoundBack(k, after[k - 1])
    BY <1>14
  <2>2. 0 \in 0 .. n /\ \A k \in 1 .. n : k \in 0 .. n /\ k # 0
    BY <1>2
  <2> HIDE DEF Fix
  <2> QED
    BY <2>1, <2>2
<1> HIDE DEF Fix
<1>16. Accounted(n, after[n])
  <2> DEFINE S == {k \in 0 .. n : Accounted(k, after[k])}
  <2>1. 0 \in S
    BY <1>2, <1>4, <1>15
  <2>2. ASSUME NEW k \in 0 .. n - 1, k \in S PROVE k + 1 \in S
    <3>1. k + 1 \in 0 .. n /\ k + 1 \in 1 .. n /\ (k + 1) - 1 = k
      BY <1>2
    <3> QED
      BY <1>5, <1>15, <2>2, <3>1
  <2>3. 0 .. n \subseteq S
    <3> HIDE DEF S
    <3> QED
      BY <1>2, <2>1, <2>2, CountUp
  <2> QED
    BY <1>2, <2>3
<1> DEFINE found == after[n].printed
           temp == after[n].temp
<1>17. /\ temp \in 0 .. ks.knapsack_capacity
       /\ found \subseteq (n - n + 1) .. n
       /\ TotalWeight(found) + temp = ks.knapsack_capacity
       /\ TotalProfit(found) + Table[n - n][temp] = Table[n][ks.knapsack_capacity]
  BY <1>16 DEF Accounted, n
<1> HIDE DEF found, temp
<1>18. n - n = 0 /\ n - n + 1 = 1
  BY <1>2
<1>19. TotalProfit(found) = Table[n][ks.knapsack_capacity] /\ found \subseteq Items
  BY <1>2, <1>3, <1>17, <1>18
<1>20. Fit(found)
  BY <1>2, <1>17, <1>19 DEF Fit
<1>21. MostProfit(found)
  <2>1. ks.knapsack_capacity \in 0 .. ks.knapsack_capacity
    BY <1>2
  <2>2. ASSUME NEW other \in SUBSET Items, Fit(other) PROVE TotalProfit(other) <= TotalProfit(found)
    <3>1. other \in SUBSET (1 .. n) /\ TotalWeight(other) <= ks.knapsack_capacity
      BY <1>2, <2>2 DEF Fit
    <3> QED
      BY <1>2, <1>19, <2>1, <3>1, CellsBound DEF n
  <2> QED
    BY <2>2 DEF MostProfit
<1> QED
  BY <1>1, <1>20, <1>21 DEF found

\* 1 << j doubles with j.
LEMMA BitIs ==
    /\ \A k \in Nat : Bit[k] \in Nat \ {0}
    /\ Bit[0] = 1
    /\ \A k \in Nat : Bit[k + 1] = 2 * Bit[k]
<1>1. Bit = Doubled
  BY DEF Bit, Doubled
<1> QED
  BY <1>1, DoubledIs

\* A quotient by what it multiplies.
LEMMA QuotientIs ==
    ASSUME NEW a \in Nat, NEW d \in Nat \ {0}, NEW q \in Nat, q * d <= a, a < q * d + d
    PROVE  a \div d = q
<1> DEFINE p == a \div d
           r == a % d
<1>1. p \in Nat /\ r \in 0 .. d - 1 /\ a = d * p + r
  OBVIOUS
<1> HIDE DEF p, r
<1>2. ~(p < q)
  <2> SUFFICES ASSUME p < q PROVE FALSE
    OBVIOUS
  <2>1. PICK e \in Nat : q = p + 1 + e
    <3>1. q - p - 1 \in Nat /\ q = p + 1 + (q - p - 1)
      BY <1>1
    <3> QED
      BY <3>1
  <2>2. q * d = d * p + d + e * d /\ e * d >= 0
    BY <1>1, <2>1
  <2> QED
    BY <1>1, <2>2
<1>3. ~(q < p)
  <2> SUFFICES ASSUME q < p PROVE FALSE
    OBVIOUS
  <2>1. PICK e \in Nat : p = q + 1 + e
    <3>1. p - q - 1 \in Nat /\ p = q + 1 + (p - q - 1)
      BY <1>1
    <3> QED
      BY <3>1
  <2>2. d * p = q * d + d + e * d /\ e * d >= 0
    BY <1>1, <2>1
  <2> QED
    BY <1>1, <2>2
<1> QED
  BY <1>1, <1>2, <1>3 DEF p

\* The bits above the lowest are those of the half.
LEMMA QuotientOfDouble ==
    ASSUME NEW a \in Nat, NEW d \in Nat \ {0}, NEW b \in {0, 1}
    PROVE  /\ 2 * a + b \in Nat
           /\ (2 * a + b) \div (2 * d) = a \div d
<1> DEFINE q == a \div d
           r == a % d
<1>1. q \in Nat /\ r \in 0 .. d - 1 /\ a = d * q + r
  OBVIOUS
<1> HIDE DEF q, r
<1>2. PICK e \in Nat \ {0} : e = 2 * d
  OBVIOUS
<1>3. PICK c \in Nat : c = 2 * a + b
  OBVIOUS
<1>4. q * e = 2 * (d * q)
  BY <1>1, <1>2
<1>5. q * e <= c /\ c < q * e + e
  <2>1. PICK x \in Int : x = d * q
    BY <1>1
  <2> QED
    BY <1>1, <1>2, <1>3, <1>4, <2>1
<1>6. c \div e = q
  BY <1>1, <1>5, QuotientIs
<1> QED
  BY <1>2, <1>3, <1>6 DEF q

\* The lowest bit is the rest by 2.
LEMMA LowestBit ==
    ASSUME NEW a \in Nat, NEW b \in {0, 1}
    PROVE  ((2 * a + b) \div 1) % 2 = b
<1>1. PICK c \in Nat : c = 2 * a + b
  OBVIOUS
<1>2. c \div 1 = c
  OBVIOUS
<1>3. c % 2 = b
  BY <1>1
<1> QED
  BY <1>1, <1>2, <1>3

\* Every choice of n items is the combination of a number below 2 to the n.
LEMMA EveryChoiceIsCombination ==
    ASSUME NEW n \in Nat, NEW items \in SUBSET (1 .. n)
    PROVE  \E i \in 0 .. Bit[n] - 1 : \A j \in 1 .. n : (i \div Bit[j - 1]) % 2 = 1 <=> j \in items
<1> DEFINE Is(i, m, some) == \A j \in 1 .. m : (i \div Bit[j - 1]) % 2 = 1 <=> j \in some
           S == {m \in 0 .. n : \A some \in SUBSET (1 .. m) : \E i \in 0 .. Bit[m] - 1 : Is(i, m, some)}
<1>1. 0 \in S
  <2>1. 0 \in 0 .. Bit[0] - 1 /\ 1 .. 0 = {} /\ 0 \in 0 .. n
    BY BitIs
  <2>2. \A some : Is(0, 0, some)
    BY <2>1
  <2> HIDE DEF Is
  <2> QED
    BY <2>1, <2>2
<1>2. ASSUME NEW m \in 0 .. n - 1, m \in S PROVE m + 1 \in S
  <2>1. m \in Nat /\ m + 1 \in 0 .. n
    OBVIOUS
  <2>2. ASSUME NEW some \in SUBSET (1 .. m + 1) PROVE \E i \in 0 .. Bit[m + 1] - 1 : Is(i, m + 1, some)
    <3> DEFINE rest == {j \in 1 .. m : j + 1 \in some}
               b == IF 1 \in some THEN 1 ELSE 0
    <3>1. PICK a \in 0 .. Bit[m] - 1 : Is(a, m, rest)
      <4>1. rest \in SUBSET (1 .. m)
        OBVIOUS
      <4> HIDE DEF rest, Is
      <4> QED
        BY <1>2, <4>1
    <3>2. a \in Nat /\ b \in {0, 1} /\ (b = 1 <=> 1 \in some)
      OBVIOUS
    <3> HIDE DEF b
    <3> DEFINE i == 2 * a + b
    <3>3. i \in 0 .. Bit[m + 1] - 1
      <4>1. Bit[m + 1] = 2 * Bit[m] /\ Bit[m] \in Nat
        BY <2>1, BitIs
      <4> QED
        BY <3>1, <3>2, <4>1
    <3>4. ASSUME NEW j \in 1 .. m + 1 PROVE (i \div Bit[j - 1]) % 2 = 1 <=> j \in some
      <4>1. CASE j = 1
        <5>1. Bit[j - 1] = 1
          BY <4>1, BitIs
        <5>2. (i \div 1) % 2 = b
          BY <3>2, LowestBit
        <5> QED
          BY <3>2, <4>1, <5>1, <5>2
      <4>2. CASE j # 1
        <5>1. PICK h \in 1 .. m : j = h + 1 /\ h - 1 \in Nat /\ j - 1 = (h - 1) + 1
          <6>1. j - 1 \in 1 .. m /\ j = (j - 1) + 1 /\ (j - 1) - 1 \in Nat /\ j - 1 = ((j - 1) - 1) + 1
            BY <2>1, <4>2
          <6> QED
            BY <6>1
        <5>2. PICK d \in Nat \ {0} : d = Bit[h - 1] /\ Bit[j - 1] = 2 * d
          BY <5>1, BitIs
        <5>3. i \div (2 * d) = a \div d
          BY <3>2, QuotientOfDouble
        <5>4. (a \div d) % 2 = 1 <=> h \in rest
          BY <3>1, <5>2
        <5>5. h \in rest <=> j \in some
          BY <5>1
        <5> HIDE DEF i, rest
        <5> QED
          BY <5>2, <5>3, <5>4, <5>5
      <4> QED
        BY <4>1, <4>2
    <3> HIDE DEF i
    <3> QED
      BY <3>3, <3>4
  <2> QED
    BY <2>1, <2>2
<1>3. 0 .. n \subseteq S
  <2> HIDE DEF S
  <2> QED
    BY <1>1, <1>2, CountUp
<1> QED
  BY <1>3

\* One combination after the other.
Better(i, v) ==
    LET comb == Combination(i - 1)
    IN  IF TotalWeight(comb) <= ks.knapsack_capacity /\ TotalProfit(comb) > TotalProfit(v) THEN comb ELSE v

\* After all the combinations, none that fits is worth more than the one that
\* was kept.
LEMMA BruteForceIsBest ==
    ASSUME FileRead
    PROVE  Fit(perform_brute_force) /\ MostProfit(perform_brute_force)
<1> DEFINE n == Bit[ks.size]
           V == {v \in SUBSET Items : Fit(v)}
           Fix(f) == f = [i \in 0 .. n |-> IF i = 0 THEN {} ELSE Better(i, f[i - 1])]
           best == CHOOSE f : Fix(f)
           round == [z \in (1 .. n) \X V |-> Better(z[1], z[2])]
<1>1. /\ ks.size \in Nat /\ Items = 1 .. ks.size /\ ks.knapsack_capacity \in Nat
      /\ TotalWeight({}) = 0 /\ TotalProfit({}) = 0
      /\ \A items : TotalWeight(items) \in Nat /\ TotalProfit(items) \in Nat
  BY ItemsAre
<1>2. n \in Nat /\ n \in 0 .. n
  <2>1. n \in Nat
    BY <1>1, BitIs
  <2> HIDE DEF n
  <2> QED
    BY <2>1
<1>3. perform_brute_force = best[n]
  BY DEF perform_brute_force, Better
<1>4. {} \in V
  BY <1>1 DEF Fit
<1>5. ASSUME NEW i, NEW v \in V
      PROVE  /\ Better(i, v) \in V
             /\ TotalProfit(v) <= TotalProfit(Better(i, v))
             /\ Fit(Combination(i - 1)) => TotalProfit(Combination(i - 1)) <= TotalProfit(Better(i, v))
  <2> DEFINE comb == Combination(i - 1)
             fits == TotalWeight(comb) <= ks.knapsack_capacity
  <2>1. comb \in SUBSET Items
    BY DEF Combination
  <2>2. Better(i, v) = IF fits /\ TotalProfit(comb) > TotalProfit(v) THEN comb ELSE v
    BY DEF Better
  <2>3. fits <=> Fit(comb)
    BY <2>1 DEF Fit
  <2>4. TotalProfit(comb) \in Nat /\ TotalProfit(v) \in Nat
    BY <1>1
  <2> HIDE DEF comb, fits
  <2>5. Better(i, v) \in V
    BY <2>1, <2>2, <2>3
  <2>6. TotalProfit(v) <= TotalProfit(Better(i, v)) /\ (Fit(comb) => TotalProfit(comb) <= TotalProfit(Better(i, v)))
    BY <2>2, <2>3, <2>4
  <2> QED
    BY <2>5, <2>6 DEF comb
<1>6. ASSUME NEW i \in 1 .. n, NEW v \in V PROVE round[<<i, v>>] = Better(i, v) /\ round[<<i, v>>] \in V
  <2>1. Better(i, v) \in V
    BY <1>5
  <2> HIDE DEF V, n
  <2> QED
    BY <2>1
<1> HIDE DEF V, n, round
<1>7. PICK g \in [0 .. n -> V] : Values(g, n, {}, round)
  <2>1. Keeps(round, n, V)
    BY <1>6 DEF Keeps
  <2> QED
    BY <1>2, <1>4, <2>1, LoopHasValues
<1>8. Fix(g)
  <2>1. ASSUME NEW i \in 0 .. n PROVE g[i] = IF i = 0 THEN {} ELSE Better(i, g[i - 1])
    <3>1. CASE i # 0
      <4>1. i \in 1 .. n /\ i - 1 \in 0 .. n
        BY <1>2, <3>1
      <4>2. g[i - 1] \in V
        BY <4>1
      <4> QED
        BY <1>6, <1>7, <3>1, <4>1, <4>2 DEF Values
    <3> QED
      BY <1>7, <3>1 DEF Values
  <2> QED
    BY <2>1
<1>9. Fix(best)
  <2> HIDE DEF Fix
  <2> QED
    BY <1>8
<1> HIDE DEF best
<1>10. best[0] = {} /\ \A i \in 1 .. n : best[i] = Better(i, best[i - 1])
  <2>1. \A i \in 0 .. n : best[i] = IF i = 0 THEN {} ELSE Better(i, best[i - 1])
    BY <1>9
  <2>2. 0 \in 0 .. n /\ \A i \in 1 .. n : i \in 0 .. n /\ i # 0
    BY <1>2
  <2> HIDE DEF Fix
  <2> QED
    BY <2>1, <2>2
<1> HIDE DEF Fix
<1> DEFINE Beats(v, i) == \A k \in 0 .. i - 1 : Fit(Combination(k)) => TotalProfit(Combination(k)) <= TotalProfit(v)
<1>11. best[n] \in V /\ Beats(best[n], n)
  <2> DEFINE S == {i \in 0 .. n : best[i] \in V /\ Beats(best[i], i)}
  <2>1. 0 \in S
    <3>1. 0 .. 0 - 1 = {} /\ 0 \in 0 .. n
      BY <1>2
    <3>2. Beats(best[0], 0)
      BY <3>1
    <3> HIDE DEF Beats
    <3> QED
      BY <1>4, <1>10, <3>1, <3>2
  <2>2. ASSUME NEW i \in 0 .. n - 1, i \in S PROVE i + 1 \in S
    <3>1. i + 1 \in 0 .. n /\ i + 1 \in 1 .. n /\ (i + 1) - 1 = i
      BY <1>2
    <3>2. best[i] \in V /\ Beats(best[i], i)
      BY <2>2
    <3>3. best[i + 1] = Better(i + 1, best[i])
      BY <1>10, <3>1
    <3>4. /\ best[i + 1] \in V
          /\ TotalProfit(best[i]) <= TotalProfit(best[i + 1])
          /\ Fit(Combination(i)) => TotalProfit(Combination(i)) <= TotalProfit(best[i + 1])
      BY <1>5, <3>1, <3>2, <3>3
    <3>5. ASSUME NEW k \in 0 .. (i + 1) - 1, Fit(Combination(k))
          PROVE  TotalProfit(Combination(k)) <= TotalProfit(best[i + 1])
      <4>1. k = i \/ k \in 0 .. i - 1
        BY <3>1
      <4>2. k \in 0 .. i - 1 => TotalProfit(Combination(k)) <= TotalProfit(best[i])
        BY <3>2, <3>5
      <4>3. TotalProfit(Combination(k)) \in Nat /\ TotalProfit(best[i]) \in Nat /\ TotalProfit(best[i + 1]) \in Nat
        BY <1>1
      <4> QED
        BY <3>4, <3>5, <4>1, <4>2, <4>3
    <3> QED
      BY <3>1, <3>4, <3>5
  <2>3. 0 .. n \subseteq S
    <3> HIDE DEF S
    <3> QED
      BY <1>2, <2>1, <2>2, CountUp
  <2> QED
    BY <1>2, <2>3
<1>12. ASSUME NEW other \in SUBSET Items, Fit(other) PROVE TotalProfit(other) <= TotalProfit(best[n])
  <2>1. PICK i \in 0 .. Bit[ks.size] - 1 : \A j \in 1 .. ks.size : (i \div Bit[j - 1]) % 2 = 1 <=> j \in other
    BY <1>1, EveryChoiceIsCombination
  <2>2. Combination(i) = other
    BY <1>1, <2>1 DEF Combination
  <2>3. i \in 0 .. n - 1
    BY DEF n
  <2> QED
    BY <1>11, <1>12, <2>2, <2>3
<1>13. Fit(best[n])
  BY <1>11 DEF V
<1> QED
  BY <1>3, <1>12, <1>13 DEF MostProfit

----------------------------------------------------------------------------
\* What each method prints.
Good(m, items) ==
    /\ Fit(items) /\ NothingLeft(items)
    /\ m \in {"brute_force", "dynamic"} => MostProfit(items)

\* Each of the six methods keeps what it promises.
LEMMA MethodsAreGood ==
    ASSUME FileRead
    PROVE  /\ Good("brute_force", perform_brute_force)
           /\ Good("max_benefit", perform_greedy_max_benefit_first)
           /\ Good("min_weight", perform_greedy_minimum_weight_first)
           /\ Good("max_weight", perform_greedy_maximum_weight_first)
           /\ Good("benefit_per_unit", perform_greedy_max_benefit_per_unit_first)
           /\ Good("dynamic", perform_dynamic_pragramming)
<1>1. /\ Items = 1 .. ks.size /\ ks.size \in Nat
      /\ \A j \in Items : ks.weights[j] \in Nat /\ ks.weights[j] > 0 /\ ks.profits[j] \in Nat
  BY ItemsAre
<1>2. Good("brute_force", perform_brute_force) /\ Good("dynamic", perform_dynamic_pragramming)
  BY BruteForceIsBest, DynamicIsBest, BestLeavesNothing DEF Good
<1>3. ks.profits \in [Items -> Int] /\ ks.weights \in [Items -> Int]
  <2>1. ks.profits \in [1 .. ks.size -> Nat] /\ ks.weights \in [1 .. ks.size -> Nat]
    BY DEF FileRead, NumberList
  <2> QED
    BY <1>1, <2>1
<1> DEFINE ratio == [j \in Items |-> ks.profits[j] \div ks.weights[j]]
<1>4. ratio \in [Items -> Int]
  <2>1. ASSUME NEW p \in Nat, NEW w \in Nat, w > 0 PROVE p \div w \in Int
    BY <2>1
  <2> QED
    BY <1>1, <2>1
<1>5. perform_greedy_max_benefit_per_unit_first = Greedy(ratio, TRUE)
  BY DEF perform_greedy_max_benefit_per_unit_first
<1> HIDE DEF ratio
<1>6. \A arr \in [Items -> Int] : \A largest \in BOOLEAN : Fit(Greedy(arr, largest)) /\ NothingLeft(Greedy(arr, largest))
  BY GreedyIsGood
<1>7. Good("benefit_per_unit", perform_greedy_max_benefit_per_unit_first)
  BY <1>4, <1>5, <1>6 DEF Good
<1>8. /\ Good("max_benefit", perform_greedy_max_benefit_first)
      /\ Good("min_weight", perform_greedy_minimum_weight_first)
      /\ Good("max_weight", perform_greedy_maximum_weight_first)
  BY <1>3, <1>6 DEF Good, perform_greedy_max_benefit_first, perform_greedy_minimum_weight_first,
                    perform_greedy_maximum_weight_first
<1> QED
  BY <1>2, <1>7, <1>8

\* A prefix of a list, as parse_input takes it.
LEMMA PrefixIsList ==
    ASSUME NEW T, T \subseteq Nat, NEW s \in Seq(T), NEW n \in Nat, n <= Len(s)
    PROVE  NumberList(SubSeq(s, 1, n), n) /\ \A j \in 1 .. n : SubSeq(s, 1, n)[j] \in T
<1>1. \A j \in 1 .. n : s[j] \in T
  <2>1. Len(s) \in Nat /\ \A j \in 1 .. Len(s) : s[j] \in T
    OBVIOUS
  <2> QED
    BY <2>1
<1> DEFINE u == SubSeq(s, 1, n)
<1>2. u \in Seq(T) /\ Len(u) = n
  <2>1. 1 \in Int /\ n \in Int
    OBVIOUS
  <2>2. u \in Seq(T) /\ Len(u) = IF 1 <= n THEN n - 1 + 1 ELSE 0
    BY <1>1, <2>1, SubSeqProperties
  <2> QED
    BY <2>2
<1> HIDE DEF u
<1>3. DOMAIN u = 1 .. n /\ \A j \in 1 .. n : u[j] \in T
  BY <1>2
<1>4. u \in [1 .. n -> Nat]
  <2>1. u = [j \in 1 .. n |-> u[j]]
    BY <1>2
  <2> QED
    BY <1>3, <2>1
<1> QED
  BY <1>2, <1>3, <1>4 DEF NumberList, u

KnapsackInv == (ksPc \in {"read", "done"} => FileRead) /\ KnapsackIsBest

\* Reading a file and running a method keep the invariant.
LEMMA KnapsackSteps == KnapsackInv /\ [KnapsackNext]_ksVars => KnapsackInv'
<1>1. ASSUME KnapsackInv, UNCHANGED ksVars PROVE KnapsackInv'
  <2>1. ksPc' = ksPc /\ ks' = ks /\ method' = method /\ chosen' = chosen
    BY <1>1 DEF ksVars
  <2>2. FileRead' = FileRead
    BY <2>1 DEF FileRead, Items
  <2>3. KnapsackIsBest' = KnapsackIsBest
    BY <2>1 DEF KnapsackIsBest, Items, TotalWeight, TotalProfit
  <2> QED
    BY <1>1, <2>1, <2>2, <2>3 DEF KnapsackInv
<1>2. ASSUME NEW file \in Files, parse_input(file) PROVE KnapsackInv'
  <2>1. CASE ksPc' = "died"
    BY <2>1 DEF KnapsackInv, KnapsackIsBest
  <2>2. CASE ksPc' = "read"
    <3>1. /\ file.size \in Nat /\ file.weights \in Seq(Nat \ {0}) /\ file.profits \in Seq(Nat)
          /\ file.knapsack_capacity \in Nat
          /\ file = [size |-> file.size, weights |-> file.weights, profits |-> file.profits,
                     knapsack_capacity |-> file.knapsack_capacity]
      <4>1. file \in [size : Nat, weights : Seq(Nat \ {0}), profits : Seq(Nat), knapsack_capacity : Nat]
        BY FilesAssumption
      <4> QED
        BY <4>1
    <3>2. /\ file.size <= Len(file.weights) /\ file.size <= Len(file.profits)
          /\ ks' = [file EXCEPT !.weights = SubSeq(@, 1, file.size), !.profits = SubSeq(@, 1, file.size)]
      BY <1>2, <2>2 DEF parse_input
    <3>3. PICK n, w, p, c : /\ n = file.size /\ w = SubSeq(file.weights, 1, file.size)
                            /\ p = SubSeq(file.profits, 1, file.size) /\ c = file.knapsack_capacity
      OBVIOUS
    <3>4. ks' = [size |-> n, weights |-> w, profits |-> p, knapsack_capacity |-> c]
      BY <3>1, <3>2, <3>3
    <3>5. ks'.size = n /\ ks'.weights = w /\ ks'.profits = p /\ ks'.knapsack_capacity = c
      BY <3>4
    <3>6. NumberList(w, n) /\ \A j \in 1 .. n : w[j] \in Nat \ {0}
      <4>1. Nat \ {0} \subseteq Nat
        OBVIOUS
      <4> QED
        BY <3>1, <3>2, <3>3, <4>1, PrefixIsList
    <3>7. NumberList(p, n)
      BY <3>1, <3>2, <3>3, PrefixIsList
    <3>8. FileRead'
      BY <3>1, <3>3, <3>5, <3>6, <3>7 DEF FileRead, Items
    <3> QED
      BY <2>2, <3>8 DEF KnapsackInv, KnapsackIsBest
  <2> QED
    BY <1>2, <2>1, <2>2 DEF parse_input
<1>3. ASSUME KnapsackInv, NEW m \in Methods, Perform(m) PROVE KnapsackInv'
  <2>1. FileRead /\ ksPc' = "done" /\ method' = m /\ ks' = ks
    BY <1>3 DEF KnapsackInv, Perform
  <2>2. Good(m, chosen')
    BY <1>3, <2>1, MethodsAreGood DEF Perform, Methods
  <2>3. PICK items : items = chosen'
    OBVIOUS
  <2>4. Good(m, items)
    BY <2>2, <2>3
  <2>5. ks.knapsack_capacity - TotalWeight(items) >= 0
    <3>1. TotalWeight(items) \in Nat /\ ks.knapsack_capacity \in Nat
      BY <2>1, ItemsAre
    <3> QED
      BY <2>4, <3>1 DEF Good, Fit
  <2>6. \A j \in Items \ items : ks.profits[j] > 0 => ks.weights[j] > ks.knapsack_capacity - TotalWeight(items)
    BY <2>4 DEF Good, NothingLeft
  <2>7. m \in {"brute_force", "dynamic"} =>
          \A other \in SUBSET Items : TotalWeight(other) <= ks.knapsack_capacity => TotalProfit(other) <= TotalProfit(items)
    BY <2>4 DEF Good, MostProfit, Fit
  <2>8. Items' = Items /\ \A some : Total(ks'.weights, some) = TotalWeight(some) /\ Total(ks'.profits, some) = TotalProfit(some)
    BY <2>1 DEF Items, TotalWeight, TotalProfit
  <2>9. KnapsackIsBest'
    BY <2>1, <2>3, <2>5, <2>6, <2>7, <2>8 DEF KnapsackIsBest, TotalWeight, TotalProfit
  <2>10. FileRead'
    BY <2>1 DEF FileRead, Items
  <2> QED
    BY <2>9, <2>10 DEF KnapsackInv
<1> QED
  BY <1>1, <1>2, <1>3 DEF KnapsackNext

\* Whatever the file and the program, what Q1-1, Q1-2 or Q1-3 prints fits and
\* leaves nothing out that would still fit and is worth something; and nothing
\* that fits is worth more than what Q1-1 and Q1-3 print.
THEOREM KnapsackIsRight == KnapsackSpec => []KnapsackIsBest
<1>1. KnapsackInit => KnapsackInv
  BY DEF KnapsackInit, KnapsackInv, KnapsackIsBest
<1>2. KnapsackInv => KnapsackIsBest
  BY DEF KnapsackInv
<1> QED
  BY <1>1, <1>2, KnapsackSteps, PTL DEF KnapsackSpec

-----------------------------------------------------------------------------
\* Dijkstra.

\* What GraphsAssumption says of one graph.
LEMMA GraphIsSquare ==
    ASSUME NEW g \in Graphs
    PROVE  /\ Cardinality(DOMAIN g) \in Nat
           /\ DOMAIN g = 0 .. Cardinality(DOMAIN g) - 1
           /\ IsFiniteSet(DOMAIN g)
           /\ \A u, v \in DOMAIN g : g[u][v] \in Int
<1>1. IsFiniteSet(DOMAIN g) /\ DOMAIN g = 0 .. Cardinality(DOMAIN g) - 1 /\ g \in [DOMAIN g -> [DOMAIN g -> Int]]
  BY GraphsAssumption
<1>2. Cardinality(DOMAIN g) \in Nat
  BY <1>1, FS_CardinalityType
<1>3. \A u, v \in DOMAIN g : g[u][v] \in Int
  BY <1>1
<1> QED
  BY <1>1, <1>2, <1>3

Lengths(g) == [DOMAIN g -> 0 .. INT_MAX]

\* Another edge makes no walk longer, and takes the edges that shorten one.
LEMMA OneMoreShortens ==
    ASSUME NEW g \in Graphs, NEW w \in Lengths(g), NEW v \in DOMAIN g, NEW s, s = OneMoreEdge(g, w)[v]
    PROVE  /\ s \in 0 .. INT_MAX /\ s <= w[v]
           /\ \A u \in LastEdges(g, w, v) : s <= w[u] + g[u][v]
           /\ s = w[v] \/ \E u \in LastEdges(g, w, v) : s = w[u] + g[u][v]
<1> DEFINE Ends == {w[u] + g[u][v] : u \in LastEdges(g, w, v)}
           N == {w[v]} \cup Ends
<1>1. s = Min(N)
  BY DEF OneMoreEdge
<1>2. w[v] \in Nat /\ w[v] <= INT_MAX /\ w[v] >= 0
  BY IntMaxAssumption DEF Lengths
<1>3. ASSUME NEW u \in LastEdges(g, w, v) PROVE w[u] + g[u][v] \in Nat
  <2>1. u \in DOMAIN g /\ g[u][v] > 0 /\ g[u][v] \in Int
    BY <1>3, GraphIsSquare DEF LastEdges
  <2>2. w[u] \in Nat
    BY <2>1, IntMaxAssumption DEF Lengths
  <2> QED
    BY <2>1, <2>2
<1>4. N \in SUBSET Nat /\ N # {}
  BY <1>2, <1>3
<1> HIDE DEF N
<1>5. s \in N /\ \A x \in N : s <= x
  BY <1>1, <1>4, LeastIsMember
<1>6. s <= w[v] /\ s \in Nat
  BY <1>4, <1>5 DEF N
<1>7. s \in 0 .. INT_MAX
  BY <1>2, <1>6, IntMaxAssumption
<1> QED
  BY <1>5, <1>6, <1>7 DEF N

\* Lengths are from 0 to INT_MAX after another edge, too.
LEMMA OneMoreIsLengths ==
    ASSUME NEW g \in Graphs, NEW w \in Lengths(g)
    PROVE  OneMoreEdge(g, w) \in Lengths(g)
<1>1. \A v \in DOMAIN g : OneMoreEdge(g, w)[v] \in 0 .. INT_MAX
  BY OneMoreShortens
<1>2. DOMAIN OneMoreEdge(g, w) = DOMAIN g /\ OneMoreEdge(g, w) = [v \in DOMAIN g |-> OneMoreEdge(g, w)[v]]
  BY DEF OneMoreEdge
<1> QED
  BY <1>1, <1>2 DEF Lengths

\* The recursion has a value for every number of edges.
LEMMA WalksAre ==
    ASSUME NEW g \in Graphs, NEW src, NEW n \in Nat, n = Cardinality(DOMAIN g)
    PROVE  /\ \A k \in 0 .. n : ShortestWalks(g, src)[k] \in Lengths(g)
           /\ \A v \in DOMAIN g : ShortestWalks(g, src)[0][v] = IF v = src THEN 0 ELSE INT_MAX
           /\ \A k \in 1 .. n : ShortestWalks(g, src)[k] = OneMoreEdge(g, ShortestWalks(g, src)[k - 1])
<1> DEFINE base == [v \in DOMAIN g |-> IF v = src THEN 0 ELSE INT_MAX]
           round == [z \in (1 .. n) \X Lengths(g) |-> OneMoreEdge(g, z[2])]
           Fix(f) == f = [k \in 0 .. n |-> IF k = 0 THEN base ELSE OneMoreEdge(g, f[k - 1])]
           walk == CHOOSE f : Fix(f)
<1>1. ShortestWalks(g, src) = walk
  BY DEF ShortestWalks
<1>2. base \in Lengths(g) /\ \A v \in DOMAIN g : base[v] = IF v = src THEN 0 ELSE INT_MAX
  BY IntMaxAssumption DEF Lengths
<1>3. \A k \in 1 .. n : \A w \in Lengths(g) : round[<<k, w>>] = OneMoreEdge(g, w)
  OBVIOUS
<1> HIDE DEF round, base
<1>4. Keeps(round, n, Lengths(g))
  BY <1>3, OneMoreIsLengths DEF Keeps
<1>5. PICK f \in [0 .. n -> Lengths(g)] : Values(f, n, base, round)
  BY <1>2, <1>4, LoopHasValues
<1>6. ASSUME NEW k \in 0 .. n PROVE f[k] = IF k = 0 THEN base ELSE OneMoreEdge(g, f[k - 1])
  <2>1. CASE k = 0
    BY <1>5, <2>1 DEF Values
  <2>2. CASE k \in 1 .. n
    <3>1. k - 1 \in 0 .. n /\ k # 0
      BY <2>2
    <3>2. f[k - 1] \in Lengths(g)
      BY <1>5, <3>1
    <3>3. f[k] = round[<<k, f[k - 1]>>]
      BY <1>5, <2>2 DEF Values
    <3> QED
      BY <1>3, <2>2, <3>1, <3>2, <3>3
  <2>3. k = 0 \/ k \in 1 .. n
    OBVIOUS
  <2> QED
    BY <2>1, <2>2, <2>3
<1>7. Fix(f)
  BY <1>5, <1>6
<1>8. Fix(walk)
  <2> HIDE DEF Fix
  <2> QED
    BY <1>7
<1> HIDE DEF walk
<1>9. \A k \in 0 .. n : walk[k] = IF k = 0 THEN base ELSE OneMoreEdge(g, walk[k - 1])
  BY <1>8
<1> HIDE DEF Fix
<1> DEFINE S == {k \in 0 .. n : walk[k] \in Lengths(g)}
<1>10. 0 \in S
  <2>1. 0 \in 0 .. n
    OBVIOUS
  <2> QED
    BY <1>2, <1>9, <2>1
<1>11. ASSUME NEW k \in 0 .. n - 1, k \in S PROVE k + 1 \in S
  <2>1. k + 1 \in 0 .. n /\ k + 1 # 0 /\ (k + 1) - 1 = k
    OBVIOUS
  <2>2. walk[k + 1] = OneMoreEdge(g, walk[k])
    BY <1>9, <2>1
  <2>3. walk[k] \in Lengths(g)
    BY <1>11
  <2> QED
    BY <2>1, <2>2, <2>3, OneMoreIsLengths
<1>12. 0 .. n \subseteq S
  <2> HIDE DEF S
  <2> QED
    BY <1>10, <1>11, CountUp
<1>13. \A k \in 0 .. n : walk[k] \in Lengths(g)
  BY <1>12
<1>14. \A k \in 1 .. n : walk[k] = OneMoreEdge(g, walk[k - 1])
  <2>1. \A k \in 1 .. n : k \in 0 .. n /\ k # 0
    OBVIOUS
  <2> QED
    BY <1>9, <2>1
<1>15. walk[0] = base
  <2>1. 0 \in 0 .. n
    OBVIOUS
  <2> QED
    BY <1>9, <2>1
<1> QED
  BY <1>1, <1>2, <1>13, <1>14, <1>15

-----------------------------------------------------------------------------
\* The nodes that are visited are those that are nearest to the source, and
\* their edges have been used (VisitedFirst, EdgesUsed); after k rounds nothing
\* is shorter than the walks of k edges allow (NoneTooShort).
Visited == {v \in Vertices : is_visited[v] = 1}
VisitedFirst == \A u, v \in Vertices : is_visited[u] = 1 /\ is_visited[v] = 0 => distance[u] <= distance[v]
EdgesUsed == \A u, v \in Vertices : is_visited[u] = 1 /\ graph[u][v] > 0 /\ distance[u] # INT_MAX
                                        => distance[v] <= distance[u] + graph[u][v]
NoneTooShort == \A v \in Vertices : ShortestWalks(graph, src_node)[rounds][v] <= distance[v]

DijkstraTypeOK == /\ graph \in Graphs
                  /\ src_node \in Vertices
                  /\ distance \in [Vertices -> 0 .. INT_MAX]
                  /\ is_visited \in [Vertices -> {0, 1}]
                  /\ rounds \in 0 .. no_of_nodes - 1

DijkstraInv ==
    /\ dijkstraPc = "start" => rounds = 0
    /\ dijkstraPc # "start" => /\ DijkstraTypeOK
                               /\ Cardinality(Visited) = rounds
                               /\ distance[src_node] = 0
                               /\ VisitedFirst /\ EdgesUsed /\ NoneTooShort
    /\ dijkstraPc = "done" => rounds = no_of_nodes - 1

\* Before the first round nothing is visited and only the source has a length.
LEMMA CreateKeepsShortest ==
    ASSUME DijkstraInv, NEW matrix \in Graphs, NEW src \in DOMAIN matrix, create_graph(matrix, src)
    PROVE  DijkstraInv'
<1>1. /\ dijkstraPc' = "round" /\ graph' = matrix /\ src_node' = src /\ rounds' = 0
      /\ distance' = [v \in DOMAIN matrix |-> IF v = src THEN 0 ELSE INT_MAX]
      /\ is_visited' = [v \in DOMAIN matrix |-> 0]
  BY DEF create_graph, DijkstraInv
<1> DEFINE n == Cardinality(DOMAIN matrix)
<1>2. n \in Nat /\ DOMAIN matrix = 0 .. n - 1 /\ 0 \in 0 .. n - 1
  <2>1. n \in Nat /\ DOMAIN matrix = 0 .. n - 1
    BY GraphIsSquare
  <2> HIDE DEF n
  <2> QED
    BY <2>1
<1>3. Vertices' = DOMAIN matrix /\ no_of_nodes' = n
  BY <1>1 DEF Vertices, no_of_nodes
<1>4. DijkstraTypeOK'
  BY <1>1, <1>2, <1>3, IntMaxAssumption DEF DijkstraTypeOK
<1>5. Cardinality(Visited') = 0
  <2>1. Visited' = {}
    BY <1>1, <1>3 DEF Visited
  <2> QED
    BY <2>1, FS_EmptySet
<1>6. distance'[src_node'] = 0
  BY <1>1
<1>7. VisitedFirst' /\ EdgesUsed'
  BY <1>1, <1>3 DEF VisitedFirst, EdgesUsed
<1>8. NoneTooShort'
  <2>1. \A v \in DOMAIN matrix : ShortestWalks(matrix, src)[0][v] = IF v = src THEN 0 ELSE INT_MAX
    BY <1>2, WalksAre
  <2> SUFFICES ASSUME NEW v \in DOMAIN matrix PROVE ShortestWalks(matrix, src)[0][v] <= distance'[v]
    BY <1>1, <1>3 DEF NoneTooShort
  <2>2. distance'[v] = ShortestWalks(matrix, src)[0][v] /\ distance'[v] \in Int
    BY <1>1, <2>1, IntMaxAssumption
  <2> QED
    BY <2>2
<1> QED
  BY <1>1, <1>4, <1>5, <1>6, <1>7, <1>8 DEF DijkstraInv

\* Of the nodes that are left, the one that is visited next is a nearest one.
Left == {v \in Vertices : is_visited[v] = 0}

\* The search finds a node that is left, at the least distance of these, if
\* there is one.
LEMMA NearestIsLeft ==
    ASSUME DijkstraTypeOK, Left # {}
    PROVE  getMinDistanceVert \in Left /\ \A w \in Left : distance[getMinDistanceVert] <= distance[w]
<1> DEFINE n == no_of_nodes
           Far == {distance[w] : w \in Left}
<1>1. n \in Nat /\ Vertices = 0 .. n - 1
  BY GraphIsSquare DEF DijkstraTypeOK, Vertices, no_of_nodes
<1>2. \A w \in Vertices : distance[w] \in Nat
  BY IntMaxAssumption DEF DijkstraTypeOK
<1>3. Left \subseteq Vertices
  BY DEF Left
<1>4. Far \in SUBSET Nat /\ Far # {}
  BY <1>2, <1>3
<1>5. Min(Far) \in Far /\ \A d \in Far : Min(Far) <= d
  BY <1>4, LeastIsMember
<1> DEFINE near == Min(Far)
           Back == {n - w : w \in {x \in Left : distance[x] = near}}
<1> HIDE DEF n, Far
<1>6. near \in Nat /\ (\E w \in Left : distance[w] = near) /\ \A w \in Left : near <= distance[w]
  BY <1>4, <1>5 DEF Far
<1> HIDE DEF near
<1>7. Back \in SUBSET Nat /\ Back # {}
  BY <1>1, <1>3, <1>6
<1>8. Min(Back) \in Back /\ \A d \in Back : Min(Back) <= d
  BY <1>7, LeastIsMember
<1>9. PICK v \in Left : distance[v] = near /\ Min(Back) = n - v
  BY <1>8
<1>10. \A w \in Left : distance[w] = near => n - v <= n - w
  BY <1>8, <1>9
<1>11. ASSUME NEW w \in Left PROVE distance[v] < distance[w] \/ (distance[v] = distance[w] /\ w <= v)
  <2>1. v \in Int /\ w \in Int /\ n \in Int /\ distance[w] \in Int /\ near \in Int
    BY <1>1, <1>2, <1>3, <1>6
  <2>2. near <= distance[w] /\ (distance[w] = near => n - v <= n - w)
    BY <1>6, <1>10
  <2> QED
    BY <1>9, <2>1, <2>2
<1> DEFINE Last(x) == /\ is_visited[x] = 0
                      /\ \A w \in Vertices : is_visited[w] = 0 =>
                              distance[x] < distance[w] \/ (distance[x] = distance[w] /\ w <= x)
<1>12. v \in Vertices /\ Last(v)
  BY <1>3, <1>11 DEF Left
<1>13. getMinDistanceVert = CHOOSE x \in Vertices : Last(x)
  BY DEF getMinDistanceVert
<1> DEFINE m == getMinDistanceVert
<1>14. m \in Vertices /\ Last(m)
  <2> HIDE DEF Last
  <2> QED
    BY <1>12, <1>13
<1> HIDE DEF m
<1>15. m \in Left /\ \A w \in Left : distance[m] <= distance[w]
  BY <1>2, <1>14 DEF Left
<1> QED
  BY <1>15 DEF m

\* A round uses the edges of a nearest node: what is visited stays nearer than
\* the rest, and no length falls below a walk.
LEMMA VisitKeepsShortest ==
    ASSUME DijkstraInv, VisitNext
    PROVE  DijkstraInv'
<1> DEFINE n == no_of_nodes
           m == getMinDistanceVert
<1>1. /\ DijkstraTypeOK /\ Cardinality(Visited) = rounds /\ distance[src_node] = 0
      /\ VisitedFirst /\ EdgesUsed /\ NoneTooShort
  BY DEF DijkstraInv, VisitNext
<1>2. /\ dijkstraPc' = dijkstraPc /\ graph' = graph /\ src_node' = src_node /\ rounds' = rounds + 1
      /\ dijkstraPc = "round" /\ rounds < n - 1
      /\ is_visited' = [is_visited EXCEPT ![m] = 1]
      /\ distance' = [v \in Vertices |-> IF Shorter(m, v) THEN distance[m] + graph[m][v] ELSE distance[v]]
  BY DEF VisitNext
<1>3. /\ n \in Nat /\ Vertices = 0 .. n - 1 /\ IsFiniteSet(Vertices) /\ Cardinality(Vertices) = n
      /\ \A u, v \in Vertices : graph[u][v] \in Int
  BY <1>1, GraphIsSquare DEF DijkstraTypeOK, Vertices, no_of_nodes
<1>4. rounds \in Nat /\ graph \in Graphs /\ src_node \in Vertices /\ is_visited \in [Vertices -> {0, 1}]
  BY <1>1, <1>3 DEF DijkstraTypeOK
<1>5. \A v \in Vertices : distance[v] \in Int /\ 0 <= distance[v] /\ distance[v] <= INT_MAX /\ INT_MAX \in Int
  BY <1>1, IntMaxAssumption DEF DijkstraTypeOK
<1>6. Vertices' = Vertices /\ no_of_nodes' = n
  BY <1>2 DEF Vertices, no_of_nodes
<1> HIDE DEF n
<1>7. Left # {}
  <2>1. Visited \subseteq Vertices
    BY DEF Visited
  <2>2. Left = {} => Visited = Vertices
    BY <1>4 DEF Left, Visited
  <2> QED
    BY <1>1, <1>2, <1>3, <1>4, <2>2
<1>8. m \in Left /\ \A w \in Left : distance[m] <= distance[w]
  BY <1>1, <1>7, NearestIsLeft
<1> HIDE DEF m
<1>9. m \in Vertices /\ is_visited[m] = 0
  BY <1>8 DEF Left
<1>10. \A v \in Vertices : is_visited'[v] = IF v = m THEN 1 ELSE is_visited[v]
  BY <1>2, <1>4
<1>11. ASSUME NEW v \in Vertices
       PROVE  /\ distance'[v] = distance[v] \/ (distance'[v] = distance[m] + graph[m][v] /\ Shorter(m, v))
              /\ Shorter(m, v) => distance'[v] = distance[m] + graph[m][v]
              /\ Shorter(m, v) => distance[m] <= distance'[v]
              /\ distance'[v] \in Int /\ 0 <= distance'[v] /\ distance'[v] <= distance[v]
  <2>1. distance'[v] = IF Shorter(m, v) THEN distance[m] + graph[m][v] ELSE distance[v]
    BY <1>2
  <2>2. CASE Shorter(m, v)
    <3>1. graph[m][v] > 0 /\ distance[m] + graph[m][v] < distance[v]
      BY <2>2 DEF Shorter
    <3>2. distance'[v] = distance[m] + graph[m][v]
      BY <2>1, <2>2
    <3>3. /\ graph[m][v] \in Int /\ distance[m] \in Int /\ distance[v] \in Int
          /\ 0 <= distance[m]
      BY <1>3, <1>5, <1>9
    <3> QED
      BY <2>2, <3>1, <3>2, <3>3
  <2>3. CASE ~Shorter(m, v)
    <3>1. distance'[v] = distance[v] /\ distance[v] \in Int /\ 0 <= distance[v]
      BY <1>5, <2>1, <2>3
    <3> QED
      BY <2>3, <3>1
  <2> QED
    BY <2>2, <2>3
<1>12. DijkstraTypeOK'
  <2>1. \A v \in Vertices : distance'[v] \in 0 .. INT_MAX
    BY <1>5, <1>11
  <2>2. distance' = [v \in Vertices |-> distance'[v]]
    BY <1>2
  <2>3. distance' \in [Vertices -> 0 .. INT_MAX]
    BY <2>1, <2>2
  <2>4. is_visited' \in [Vertices -> {0, 1}]
    BY <1>2, <1>4
  <2>5. rounds' \in 0 .. n - 1
    BY <1>2, <1>3, <1>4
  <2> QED
    BY <1>2, <1>4, <1>6, <2>3, <2>4, <2>5 DEF DijkstraTypeOK
<1>13. Cardinality(Visited') = rounds'
  <2>1. Visited' = Visited \cup {m}
    BY <1>6, <1>9, <1>10 DEF Visited
  <2>2. m \notin Visited
    BY <1>9 DEF Visited
  <2>3. IsFiniteSet(Visited)
    <3>1. Visited \in SUBSET Vertices
      BY DEF Visited
    <3> QED
      BY <1>3, <3>1, FS_Subset
  <2> QED
    BY <1>1, <1>2, <2>1, <2>2, <2>3, FS_AddElement
<1>14. distance'[src_node'] = 0
  BY <1>1, <1>2, <1>4, <1>11
<1>15. \A v \in Vertices : is_visited[v] = 1 \/ v = m => distance'[v] = distance[v] /\ distance[v] <= distance[m]
  <2>1. \A v \in Vertices : is_visited[v] = 1 \/ v = m => ~Shorter(m, v)
    BY DEF Shorter
  <2>2. \A v \in Vertices : is_visited[v] = 1 => distance[v] <= distance[m]
    BY <1>1, <1>9 DEF VisitedFirst
  <2> QED
    BY <1>5, <1>9, <1>11, <2>1, <2>2
<1>16. VisitedFirst'
  <2> SUFFICES ASSUME NEW u \in Vertices, NEW v \in Vertices, is_visited'[u] = 1, is_visited'[v] = 0
               PROVE  distance'[u] <= distance'[v]
    BY <1>6 DEF VisitedFirst
  <2>1. is_visited[u] = 1 \/ u = m
    BY <1>10
  <2>2. v # m /\ is_visited[v] = 0 /\ v \in Left
    BY <1>10 DEF Left
  <2>3. distance'[u] = distance[u] /\ distance[u] <= distance[m]
    BY <1>15, <2>1
  <2>4. distance[m] <= distance[v]
    BY <1>8, <2>2
  <2>5. distance[m] <= distance'[v]
    <3>1. CASE distance'[v] = distance[v]
      BY <2>4, <3>1
    <3>2. CASE distance'[v] = distance[m] + graph[m][v] /\ Shorter(m, v)
      BY <1>11, <3>2
    <3> QED
      BY <1>11, <3>1, <3>2
  <2>6. distance[u] \in Int /\ distance[m] \in Int /\ distance'[v] \in Int
    BY <1>5, <1>9, <1>11
  <2> QED
    BY <2>3, <2>5, <2>6
<1>17. EdgesUsed'
  <2> SUFFICES ASSUME NEW u \in Vertices, NEW v \in Vertices,
                      is_visited'[u] = 1, graph[u][v] > 0, distance'[u] # INT_MAX
               PROVE  distance'[v] <= distance'[u] + graph[u][v]
    BY <1>2, <1>6 DEF EdgesUsed
  <2>1. is_visited[u] = 1 \/ u = m
    BY <1>10
  <2>2. distance'[u] = distance[u]
    BY <1>15, <2>1
  <2>3. /\ distance[u] \in Int /\ graph[u][v] \in Int /\ distance[v] \in Int /\ distance'[v] \in Int
        /\ distance'[v] <= distance[v]
    BY <1>3, <1>5, <1>11
  <2>4. CASE is_visited[u] = 1
    <3>1. distance[v] <= distance[u] + graph[u][v]
      BY <1>1, <2>2, <2>4 DEF EdgesUsed
    <3> QED
      BY <2>2, <2>3, <3>1
  <2>5. CASE u = m
    <3>1. CASE is_visited[v] = 1 \/ v = m
      <4>1. distance[v] <= distance[u]
        BY <1>15, <2>5, <3>1
      <4> QED
        BY <2>2, <2>3, <4>1
    <3>2. CASE is_visited[v] = 0 /\ v # m
      <4>1. CASE Shorter(m, v)
        <5>1. distance'[v] = distance[u] + graph[u][v]
          BY <1>11, <2>5, <4>1
        <5> QED
          BY <2>2, <2>3, <5>1
      <4>2. CASE ~Shorter(m, v)
        <5>1. ~(distance[u] + graph[u][v] < distance[v])
          BY <2>2, <2>5, <3>2, <4>2 DEF Shorter
        <5> QED
          BY <2>2, <2>3, <5>1
      <4> QED
        BY <4>1, <4>2
    <3> QED
      BY <1>4, <3>1, <3>2
  <2> QED
    BY <2>1, <2>4, <2>5
<1>18. NoneTooShort'
  <2> DEFINE W == ShortestWalks(graph, src_node)
  <2>1. rounds \in 0 .. n /\ rounds + 1 \in 1 .. n /\ (rounds + 1) - 1 = rounds
    BY <1>2, <1>3, <1>4
  <2>2. n = Cardinality(DOMAIN graph) /\ DOMAIN graph = Vertices
    BY DEF n, no_of_nodes, Vertices
  <2>3. W[rounds] \in Lengths(graph) /\ W[rounds + 1] = OneMoreEdge(graph, W[rounds])
    <3>1. /\ \A k \in 0 .. n : W[k] \in Lengths(graph)
          /\ \A k \in 1 .. n : W[k] = OneMoreEdge(graph, W[k - 1])
      BY <1>3, <1>4, <2>2, WalksAre
    <3> HIDE DEF W
    <3>2. W[rounds + 1] = OneMoreEdge(graph, W[(rounds + 1) - 1])
      BY <2>1, <3>1
    <3> QED
      BY <2>1, <3>1, <3>2
  <2> SUFFICES ASSUME NEW v \in Vertices PROVE W[rounds + 1][v] <= distance'[v]
    BY <1>2, <1>6 DEF NoneTooShort
  <2> HIDE DEF W
  <2>4. /\ W[rounds + 1][v] \in 0 .. INT_MAX /\ W[rounds + 1][v] <= W[rounds][v]
        /\ \A u \in LastEdges(graph, W[rounds], v) : W[rounds + 1][v] <= W[rounds][u] + graph[u][v]
    BY <1>4, <2>2, <2>3, OneMoreShortens
  <2>5. \A u \in Vertices : W[rounds][u] <= distance[u] /\ W[rounds][u] \in Int
    BY <1>1, <2>2, <2>3 DEF NoneTooShort, W, Lengths
  <2>6. CASE distance'[v] = distance[v]
    <3>1. W[rounds][v] <= distance[v] /\ W[rounds][v] \in Int /\ distance[v] \in Int /\ W[rounds + 1][v] \in Int
      BY <1>5, <2>4, <2>5, IntMaxAssumption
    <3> QED
      BY <2>4, <2>6, <3>1
  <2>7. CASE distance'[v] = distance[m] + graph[m][v] /\ Shorter(m, v)
    <3>1. graph[m][v] > 0 /\ distance[m] # INT_MAX
      BY <2>7 DEF Shorter
    <3>2. W[rounds][m] <= distance[m] /\ W[rounds][m] # INT_MAX
      BY <1>5, <1>9, <2>5, <3>1
    <3>3. m \in LastEdges(graph, W[rounds], v)
      BY <1>9, <2>2, <3>1, <3>2 DEF LastEdges
    <3>4. W[rounds + 1][v] <= W[rounds][m] + graph[m][v]
      BY <2>4, <3>3
    <3>5. W[rounds][m] \in Int /\ distance[m] \in Int /\ graph[m][v] \in Int /\ W[rounds + 1][v] \in Int
      BY <1>3, <1>5, <1>9, <2>4, <2>5, IntMaxAssumption
    <3> QED
      BY <2>7, <3>2, <3>4, <3>5
  <2> QED
    BY <1>11, <2>6, <2>7
<1> QED
  BY <1>2, <1>12, <1>13, <1>14, <1>16, <1>17, <1>18 DEF DijkstraInv

\* When at most one node is left, every edge has been used or leads nowhere.
LEMMA DoneIsShortest == DijkstraInv => DistancesAreShortest
<1> SUFFICES ASSUME DijkstraInv, dijkstraPc = "done"
             PROVE  distance = ShortestWalks(graph, src_node)[no_of_nodes - 1]
  BY DEF DistancesAreShortest
<1> DEFINE n == no_of_nodes
           W == ShortestWalks(graph, src_node)
<1>1. /\ DijkstraTypeOK /\ Cardinality(Visited) = rounds /\ distance[src_node] = 0 /\ rounds = n - 1
      /\ VisitedFirst /\ EdgesUsed /\ NoneTooShort
  BY DEF DijkstraInv
<1>2. /\ n \in Nat /\ Vertices = 0 .. n - 1 /\ IsFiniteSet(Vertices) /\ Cardinality(Vertices) = n
      /\ \A u, v \in Vertices : graph[u][v] \in Int
  BY <1>1, GraphIsSquare DEF DijkstraTypeOK, Vertices, no_of_nodes
<1>3. n \in Nat /\ n - 1 \in 0 .. n
  BY <1>1, <1>2 DEF DijkstraTypeOK
<1>4. \A v \in Vertices : distance[v] \in Int /\ 0 <= distance[v] /\ distance[v] <= INT_MAX /\ INT_MAX \in Int
  BY <1>1, IntMaxAssumption DEF DijkstraTypeOK
<1>5. n = Cardinality(DOMAIN graph) /\ DOMAIN graph = Vertices /\ graph \in Graphs
  BY <1>1 DEF no_of_nodes, Vertices, DijkstraTypeOK
<1>6. /\ \A k \in 0 .. n : W[k] \in Lengths(graph)
      /\ \A v \in DOMAIN graph : W[0][v] = IF v = src_node THEN 0 ELSE INT_MAX
      /\ \A k \in 1 .. n : W[k] = OneMoreEdge(graph, W[k - 1])
  BY <1>3, <1>5, WalksAre
<1>7. \A v \in Vertices : W[n - 1][v] <= distance[v]
  BY <1>1 DEF NoneTooShort
<1> HIDE DEF n, W
<1>8. PICK x : Vertices \ Visited = {x}
  <2>1. Visited \in SUBSET Vertices
    BY DEF Visited
  <2>2. IsFiniteSet(Vertices \ Visited) /\ Cardinality(Vertices \ Visited) = n - Cardinality(Visited)
    <3>1. Vertices \cap Visited = Visited
      BY <2>1
    <3>2. /\ IsFiniteSet(Vertices \ Visited)
          /\ Cardinality(Vertices \ Visited) = Cardinality(Vertices) - Cardinality(Vertices \cap Visited)
      BY <1>2, FS_Difference
    <3> QED
      BY <1>2, <3>1, <3>2
  <2>3. Cardinality(Vertices \ Visited) = 1
    BY <1>1, <1>2, <2>2
  <2> QED
    BY <2>2, <2>3, FS_Singleton
<1>9. ASSUME NEW u \in Vertices, NEW v \in Vertices, graph[u][v] > 0, distance[u] # INT_MAX
      PROVE  distance[v] <= distance[u] + graph[u][v]
  <2>1. CASE is_visited[u] = 1
    BY <1>1, <1>9, <2>1 DEF EdgesUsed
  <2>2. CASE is_visited[u] # 1
    <3>1. u = x /\ is_visited[u] = 0
      BY <1>1, <1>8, <2>2 DEF Visited, DijkstraTypeOK
    <3>2. v = u \/ is_visited[v] = 1
      BY <1>8, <3>1 DEF Visited
    <3>3. distance[v] <= distance[u]
      BY <1>1, <1>4, <3>1, <3>2 DEF VisitedFirst
    <3> QED
      BY <1>2, <1>4, <1>9, <3>3
  <2> QED
    BY <2>1, <2>2
<1> DEFINE S == {k \in 0 .. n - 1 : \A v \in Vertices : distance[v] <= W[k][v]}
<1>10. 0 \in S
  <2>1. 0 \in 0 .. n - 1
    BY <1>3, <1>2, <1>1 DEF DijkstraTypeOK
  <2>2. \A v \in Vertices : distance[v] <= W[0][v]
    BY <1>1, <1>4, <1>5, <1>6
  <2> QED
    BY <2>1, <2>2
<1>11. ASSUME NEW k \in 0 .. (n - 1) - 1, k \in S PROVE k + 1 \in S
  <2>1. k + 1 \in 0 .. n - 1 /\ k + 1 \in 1 .. n /\ (k + 1) - 1 = k /\ k \in 0 .. n
    BY <1>3
  <2>2. W[k] \in Lengths(graph) /\ W[k + 1] = OneMoreEdge(graph, W[k])
    BY <1>6, <2>1
  <2> SUFFICES ASSUME NEW v \in Vertices PROVE distance[v] <= W[k + 1][v]
    BY <2>1
  <2>3. W[k + 1][v] = W[k][v] \/ \E u \in LastEdges(graph, W[k], v) : W[k + 1][v] = W[k][u] + graph[u][v]
    BY <1>5, <2>2, OneMoreShortens
  <2>4. \A u \in Vertices : W[k][u] \in Int /\ W[k][u] <= INT_MAX /\ distance[u] <= W[k][u]
    BY <1>5, <1>11, <2>2, IntMaxAssumption DEF Lengths
  <2>5. ASSUME NEW u \in LastEdges(graph, W[k], v), W[k + 1][v] = W[k][u] + graph[u][v]
        PROVE  distance[v] <= W[k + 1][v]
    <3>1. u \in Vertices /\ graph[u][v] > 0 /\ W[k][u] # INT_MAX
      BY <1>5, <2>5 DEF LastEdges
    <3>2. distance[u] # INT_MAX /\ distance[u] <= W[k][u]
      BY <1>4, <2>4, <3>1
    <3>3. distance[v] <= distance[u] + graph[u][v]
      BY <1>9, <3>1, <3>2
    <3>4. distance[v] \in Int /\ distance[u] \in Int /\ W[k][u] \in Int /\ graph[u][v] \in Int
      BY <1>2, <1>4, <2>4, <3>1
    <3> QED
      BY <2>5, <3>2, <3>3, <3>4
  <2> QED
    BY <2>3, <2>4, <2>5
<1>12. n - 1 \in S
  <2>1. n - 1 \in Nat
    BY <1>1 DEF DijkstraTypeOK, n
  <2> HIDE DEF S
  <2>2. 0 .. n - 1 \subseteq S
    BY <1>10, <1>11, <2>1, CountUp
  <2> QED
    BY <2>1, <2>2
<1>13. W[n - 1] \in [Vertices -> 0 .. INT_MAX] /\ distance \in [Vertices -> 0 .. INT_MAX]
  BY <1>1, <1>3, <1>5, <1>6 DEF Lengths, DijkstraTypeOK
<1>14. \A v \in Vertices : distance[v] = W[n - 1][v]
  <2> SUFFICES ASSUME NEW v \in Vertices PROVE distance[v] = W[n - 1][v]
    OBVIOUS
  <2>1. distance[v] <= W[n - 1][v] /\ W[n - 1][v] <= distance[v]
    BY <1>7, <1>12
  <2>2. W[n - 1][v] \in Int /\ distance[v] \in Int
    BY <1>4, <1>13, IntMaxAssumption
  <2> QED
    BY <2>1, <2>2
<1> QED
  BY <1>13, <1>14 DEF n, W

\* perform_dijikstra finds the lengths of the shortest paths from the source,
\* in every graph: when it prints, distance is the least length of a walk to
\* each node, and INT_MAX where no walk is shorter than that.
THEOREM ShortestPaths == DijkstraSpec => []DistancesAreShortest
<1>1. DijkstraInit => DijkstraInv
  BY DEF DijkstraInit, DijkstraInv
<1>2. DijkstraInv /\ [DijkstraNext]_dijkstraVars => DijkstraInv'
  <2> SUFFICES ASSUME DijkstraInv, [DijkstraNext]_dijkstraVars PROVE DijkstraInv'
    OBVIOUS
  <2>1. ASSUME NEW matrix \in Graphs, NEW src \in DOMAIN matrix, create_graph(matrix, src) PROVE DijkstraInv'
    BY <2>1, CreateKeepsShortest
  <2>2. CASE VisitNext
    BY <2>2, VisitKeepsShortest
  <2>3. CASE print_distance
    <3>1. /\ dijkstraPc = "round" /\ dijkstraPc' = "done" /\ rounds = no_of_nodes - 1
          /\ UNCHANGED <<graph, src_node, distance, is_visited, rounds>>
      BY <2>3 DEF print_distance
    <3> QED
      BY <3>1 DEF DijkstraInv, DijkstraTypeOK, Visited, VisitedFirst, EdgesUsed, NoneTooShort, Vertices, no_of_nodes
  <2>4. CASE UNCHANGED dijkstraVars
    BY <2>4 DEF dijkstraVars, DijkstraInv, DijkstraTypeOK, Visited, VisitedFirst, EdgesUsed, NoneTooShort, Vertices, no_of_nodes
  <2> QED
    BY <2>1, <2>2, <2>3, <2>4 DEF DijkstraNext
<1> QED
  BY <1>1, <1>2, DoneIsShortest, PTL DEF DijkstraSpec

-----------------------------------------------------------------------------
\* Strassen.

\* pow(2, k) doubles with k.
LEMMA PowerIs ==
    /\ \A k \in Nat : Power[k] \in Nat \ {0}
    /\ Power[0] = 1
    /\ \A k \in Nat : Power[k + 1] = 2 * Power[k]
<1>1. Power = Doubled
  BY DEF Power, Doubled
<1> QED
  BY <1>1, DoubledIs

\* The sums of the first terms.
Numbers(t, n) == \A k \in 0 .. n - 1 : t[k] \in Int
Adds(S, t, n) == /\ S[0] = 0
                 /\ \A k \in 0 .. n : S[k] \in Int
                 /\ \A k \in 0 .. n - 1 : S[k + 1] = S[k] + t[k]

\* The loop adds the terms, one after the other.
LEMMA SumsAre ==
    ASSUME NEW n \in Nat, NEW t, Numbers(t, n)
    PROVE  Adds(Sums(t, n), t, n)
<1> DEFINE round == [z \in (1 .. n) \X Int |-> z[2] + t[z[1] - 1]]
           Fix(f) == f = [k \in 0 .. n |-> IF k = 0 THEN 0 ELSE f[k - 1] + t[k - 1]]
           temp == CHOOSE f : Fix(f)
<1>1. Sums(t, n) = temp
  BY DEF Sums
<1>2. \A k \in 1 .. n : \A v \in Int : round[<<k, v>>] = v + t[k - 1] /\ round[<<k, v>>] \in Int
  <2> SUFFICES ASSUME NEW k \in 1 .. n, NEW v \in Int PROVE round[<<k, v>>] = v + t[k - 1] /\ v + t[k - 1] \in Int
    OBVIOUS
  <2>1. k - 1 \in 0 .. n - 1
    OBVIOUS
  <2>2. t[k - 1] \in Int
    BY <2>1 DEF Numbers
  <2> QED
    BY <2>2
<1> HIDE DEF round
<1>3. PICK f \in [0 .. n -> Int] : Values(f, n, 0, round)
  <2>1. Keeps(round, n, Int)
    BY <1>2 DEF Keeps
  <2>2. 0 \in Int
    OBVIOUS
  <2>3. \E f \in [0 .. n -> Int] : Values(f, n, 0, round)
    BY <2>1, <2>2, LoopHasValues
  <2> QED
    BY <2>3
<1>4. ASSUME NEW k \in 0 .. n PROVE f[k] = IF k = 0 THEN 0 ELSE f[k - 1] + t[k - 1]
  <2>1. CASE k # 0
    <3>1. k \in 1 .. n /\ k - 1 \in 0 .. n
      BY <2>1
    <3>2. f[k - 1] \in Int /\ f[k] = round[<<k, f[k - 1]>>]
      BY <1>3, <3>1 DEF Values
    <3> QED
      BY <1>2, <2>1, <3>1, <3>2
  <2> QED
    BY <1>3, <2>1 DEF Values
<1>5. Fix(f)
  BY <1>3, <1>4
<1>6. Fix(temp)
  <2> HIDE DEF Fix
  <2> QED
    BY <1>5
<1> HIDE DEF temp
<1>7. \A k \in 0 .. n : temp[k] = IF k = 0 THEN 0 ELSE temp[k - 1] + t[k - 1]
  BY <1>6
<1> HIDE DEF Fix
<1>8. temp[0] = 0
  BY <1>7
<1>9. ASSUME NEW k \in 0 .. n - 1 PROVE temp[k + 1] = temp[k] + t[k]
  <2>1. k + 1 \in 0 .. n /\ k + 1 # 0 /\ (k + 1) - 1 = k
    OBVIOUS
  <2> QED
    BY <1>7, <2>1
<1> DEFINE S == {k \in 0 .. n : temp[k] \in Int}
<1>10. 0 \in S
  BY <1>8
<1>11. ASSUME NEW k \in 0 .. n - 1, k \in S PROVE k + 1 \in S
  <2>1. k + 1 \in 0 .. n
    OBVIOUS
  <2>2. temp[k] \in Int /\ t[k] \in Int
    BY <1>11 DEF Numbers
  <2> QED
    BY <1>9, <2>1, <2>2
<1>12. 0 .. n \subseteq S
  <2> HIDE DEF S
  <2> QED
    BY <1>10, <1>11, CountUp
<1> QED
  BY <1>1, <1>8, <1>9, <1>12 DEF Adds

\* The terms of a longer sum that are those of a shorter one add up to it.
LEMMA SumsBegin ==
    ASSUME NEW n \in Nat, NEW N \in Nat, n <= N, NEW t, NEW u, Numbers(t, N), Numbers(u, n),
           \A k \in 0 .. n - 1 : t[k] = u[k]
    PROVE  Sums(t, N)[n] = Sums(u, n)[n]
<1> DEFINE A == Sums(t, N)
           B == Sums(u, n)
<1>1. Adds(A, t, N) /\ Adds(B, u, n)
  BY SumsAre
<1> HIDE DEF A, B
<1> DEFINE S == {k \in 0 .. n : A[k] = B[k]}
<1>2. 0 \in S
  BY <1>1 DEF Adds
<1>3. ASSUME NEW k \in 0 .. n - 1, k \in S PROVE k + 1 \in S
  BY <1>1, <1>3 DEF Adds
<1>4. 0 .. n \subseteq S
  <2> HIDE DEF S
  <2> QED
    BY <1>2, <1>3, CountUp
<1> QED
  BY <1>4 DEF A, B

\* A sum is that of its two halves.
LEMMA SumsOfHalves ==
    ASSUME NEW h \in Nat, NEW t, NEW u, NEW v, Numbers(t, 2 * h), Numbers(u, h), Numbers(v, h),
           \A k \in 0 .. h - 1 : t[k] = u[k] /\ t[h + k] = v[k]
    PROVE  Sums(t, 2 * h)[2 * h] = Sums(u, h)[h] + Sums(v, h)[h]
<1> DEFINE A == Sums(t, 2 * h)
           B == Sums(v, h)
           S == {k \in 0 .. h : A[h + k] = A[h] + B[k]}
<1>1. Adds(A, t, 2 * h) /\ Adds(B, v, h)
  BY SumsAre
<1>2. A[h] = Sums(u, h)[h]
  BY SumsBegin
<1> HIDE DEF A, B
<1>3. A[h] \in Int
  BY <1>1 DEF Adds
<1>4. 0 \in S
  BY <1>1, <1>3 DEF Adds
<1>5. ASSUME NEW k \in 0 .. h - 1, k \in S PROVE k + 1 \in S
  <2>1. h + k \in 0 .. 2 * h - 1 /\ h + (k + 1) = (h + k) + 1 /\ k + 1 \in 0 .. h /\ k \in 0 .. h
    OBVIOUS
  <2>2. A[h + (k + 1)] = A[h + k] + v[k]
    BY <1>1, <2>1 DEF Adds
  <2>3. B[k + 1] = B[k] + v[k] /\ B[k] \in Int /\ v[k] \in Int
    BY <1>1, <2>1 DEF Adds, Numbers
  <2>4. A[h + k] = A[h] + B[k]
    BY <1>5
  <2> QED
    BY <1>3, <2>1, <2>2, <2>3, <2>4
<1>6. 0 .. h \subseteq S
  <2> HIDE DEF S
  <2> QED
    BY <1>4, <1>5, CountUp
<1>7. h \in S /\ h + h = 2 * h
  BY <1>6
<1> QED
  BY <1>2, <1>7 DEF A, B

\* Zeros at the end add nothing.
LEMMA SumsWithZeros ==
    ASSUME NEW n \in Nat, NEW N \in Nat, n <= N, NEW t, NEW u, Numbers(t, N), Numbers(u, n),
           \A k \in 0 .. n - 1 : t[k] = u[k], \A k \in n .. N - 1 : t[k] = 0
    PROVE  Sums(t, N)[N] = Sums(u, n)[n]
<1> DEFINE A == Sums(t, N)
           S == {k \in 0 .. N - n : A[n + k] = A[n]}
<1>1. Adds(A, t, N)
  BY SumsAre
<1>2. A[n] = Sums(u, n)[n]
  BY SumsBegin
<1> HIDE DEF A
<1>3. 0 \in S
  OBVIOUS
<1>4. ASSUME NEW k \in 0 .. (N - n) - 1, k \in S PROVE k + 1 \in S
  <2>1. n + k \in 0 .. N - 1 /\ n + k \in n .. N - 1 /\ n + (k + 1) = (n + k) + 1 /\ k + 1 \in 0 .. N - n /\ n \in 0 .. N
    OBVIOUS
  <2>2. A[n + (k + 1)] = A[n + k] + 0
    BY <1>1, <2>1 DEF Adds
  <2>3. A[n + k] = A[n] /\ A[n] \in Int
    BY <1>1, <1>4, <2>1 DEF Adds
  <2> QED
    BY <2>1, <2>2, <2>3
<1>5. 0 .. N - n \subseteq S
  <2> HIDE DEF S
  <2> QED
    BY <1>3, <1>4, CountUp
<1>6. N - n \in S /\ n + (N - n) = N
  BY <1>5
<1> QED
  BY <1>2, <1>6 DEF A

\* Sums whose terms balance are in balance.
SumOf(t, n) == Sums(t, n)[n]

\* By the number of the terms.
LEMMA TotalsBalance ==
    ASSUME NEW n \in Nat, NEW t, NEW u, NEW v, NEW w, NEW p, NEW q, NEW r, NEW s,
           Numbers(t, n), Numbers(u, n), Numbers(v, n), Numbers(w, n),
           Numbers(p, n), Numbers(q, n), Numbers(r, n), Numbers(s, n),
           \A k \in 0 .. n - 1 : t[k] + u[k] + v[k] + w[k] = p[k] + q[k] + r[k] + s[k]
    PROVE  SumOf(t, n) + SumOf(u, n) + SumOf(v, n) + SumOf(w, n) = SumOf(p, n) + SumOf(q, n) + SumOf(r, n) + SumOf(s, n)
<1> DEFINE T == Sums(t, n)
           U == Sums(u, n)
           V == Sums(v, n)
           W == Sums(w, n)
           P == Sums(p, n)
           Q == Sums(q, n)
           R == Sums(r, n)
           Z == Sums(s, n)
           S == {k \in 0 .. n : T[k] + U[k] + V[k] + W[k] = P[k] + Q[k] + R[k] + Z[k]}
<1>1. /\ Adds(T, t, n) /\ Adds(U, u, n) /\ Adds(V, v, n) /\ Adds(W, w, n)
      /\ Adds(P, p, n) /\ Adds(Q, q, n) /\ Adds(R, r, n) /\ Adds(Z, s, n)
  BY SumsAre
<1> HIDE DEF T, U, V, W, P, Q, R, Z
<1>3. 0 \in S
  BY <1>1 DEF Adds
<1>4. ASSUME NEW k \in 0 .. n - 1, k \in S PROVE k + 1 \in S
  <2>1. k + 1 \in 0 .. n /\ k \in 0 .. n
    OBVIOUS
  <2>2. /\ T[k + 1] = T[k] + t[k] /\ U[k + 1] = U[k] + u[k] /\ V[k + 1] = V[k] + v[k] /\ W[k + 1] = W[k] + w[k]
        /\ P[k + 1] = P[k] + p[k] /\ Q[k + 1] = Q[k] + q[k] /\ R[k + 1] = R[k] + r[k] /\ Z[k + 1] = Z[k] + s[k]
    BY <1>1 DEF Adds
  <2>3. /\ T[k] \in Int /\ U[k] \in Int /\ V[k] \in Int /\ W[k] \in Int
        /\ P[k] \in Int /\ Q[k] \in Int /\ R[k] \in Int /\ Z[k] \in Int
    BY <1>1, <2>1 DEF Adds
  <2>4. /\ t[k] \in Int /\ u[k] \in Int /\ v[k] \in Int /\ w[k] \in Int
        /\ p[k] \in Int /\ q[k] \in Int /\ r[k] \in Int /\ s[k] \in Int
    BY DEF Numbers
  <2>5. /\ t[k] + u[k] + v[k] + w[k] = p[k] + q[k] + r[k] + s[k]
        /\ T[k] + U[k] + V[k] + W[k] = P[k] + Q[k] + R[k] + Z[k]
    BY <1>4
  <2>6. T[k + 1] + U[k + 1] + V[k + 1] + W[k + 1] = P[k + 1] + Q[k + 1] + R[k + 1] + Z[k + 1]
    BY <2>2, <2>3, <2>4, <2>5
  <2> QED
    BY <2>1, <2>6
<1>5. 0 .. n \subseteq S
  <2> HIDE DEF S
  <2> QED
    BY <1>3, <1>4, CountUp
<1>6. n \in S
  BY <1>5
<1> QED
  BY <1>6 DEF SumOf, T, U, V, W, P, Q, R, Z

-----------------------------------------------------------------------------
\* Matrices
LEMMA MatrixIs ==
    ASSUME NEW n \in Nat, NEW A \in Matrix(n)
    PROVE  A.size = n /\ DOMAIN A.matrix = Square(n) /\ \A i, j \in 0 .. n - 1 : A.matrix[<<i, j>>] \in Int
<1>1. A.size = n /\ A.matrix \in [Square(n) -> Int]
  BY DEF Matrix
<1>2. \A i, j \in 0 .. n - 1 : <<i, j>> \in Square(n)
  BY DEF Square
<1> QED
  BY <1>1, <1>2

\* A function of rows and columns whose values are integers is a matrix.
LEMMA MatrixOf ==
    ASSUME NEW n \in Nat, NEW m, DOMAIN m = Square(n), m = [ij \in Square(n) |-> m[ij]],
           \A i, j \in 0 .. n - 1 : m[<<i, j>>] \in Int
    PROVE  [size |-> n, matrix |-> m] \in Matrix(n)
<1>1. ASSUME NEW ij \in Square(n) PROVE m[ij] \in Int
  <2>1. PICK i \in 0 .. n - 1, j \in 0 .. n - 1 : ij = <<i, j>>
    BY DEF Square
  <2> QED
    BY <2>1
<1>2. m \in [Square(n) -> Int]
  BY <1>1
<1> QED
  BY <1>2 DEF Matrix

\* Matrices of one size with the same entries are the same.
LEMMA SameMatrix ==
    ASSUME NEW n \in Nat, NEW A \in Matrix(n), NEW B \in Matrix(n),
           \A i, j \in 0 .. n - 1 : A.matrix[<<i, j>>] = B.matrix[<<i, j>>]
    PROVE  A = B
<1>1. A.matrix \in [Square(n) -> Int] /\ B.matrix \in [Square(n) -> Int] /\ A.size = B.size
  BY DEF Matrix
<1>2. ASSUME NEW ij \in Square(n) PROVE A.matrix[ij] = B.matrix[ij]
  <2>1. PICK i \in 0 .. n - 1, j \in 0 .. n - 1 : ij = <<i, j>>
    BY DEF Square
  <2> QED
    BY <2>1
<1>3. A.matrix = B.matrix
  BY <1>1, <1>2
<1> QED
  BY <1>1, <1>3 DEF Matrix

\* Sums and differences, entry by entry.
LEMMA AddIs ==
    ASSUME NEW n \in Nat, NEW A \in Matrix(n), NEW B \in Matrix(n)
    PROVE  /\ _add_matrix(A, B) \in Matrix(n)
           /\ \A i, j \in 0 .. n - 1 : _add_matrix(A, B).matrix[<<i, j>>] = A.matrix[<<i, j>>] + B.matrix[<<i, j>>]
<1> DEFINE m == [ij \in Square(n) |-> A.matrix[ij] + B.matrix[ij]]
<1>1. _add_matrix(A, B) = [size |-> n, matrix |-> m]
  BY MatrixIs DEF _add_matrix
<1>2. \A i, j \in 0 .. n - 1 : m[<<i, j>>] = A.matrix[<<i, j>>] + B.matrix[<<i, j>>]
  BY DEF Square
<1>3. DOMAIN m = Square(n) /\ m = [ij \in Square(n) |-> m[ij]]
  OBVIOUS
<1> HIDE DEF m
<1>4. ASSUME NEW i \in 0 .. n - 1, NEW j \in 0 .. n - 1 PROVE m[<<i, j>>] \in Int
  <2>1. A.matrix[<<i, j>>] \in Int /\ B.matrix[<<i, j>>] \in Int
    BY MatrixIs
  <2> QED
    BY <1>2, <2>1
<1>5. [size |-> n, matrix |-> m] \in Matrix(n)
  BY <1>3, <1>4, MatrixOf
<1> QED
  BY <1>1, <1>2, <1>5

LEMMA SubtractIs ==
    ASSUME NEW n \in Nat, NEW A \in Matrix(n), NEW B \in Matrix(n)
    PROVE  /\ _subtract_matrix(A, B) \in Matrix(n)
           /\ \A i, j \in 0 .. n - 1 :
                 _subtract_matrix(A, B).matrix[<<i, j>>] = A.matrix[<<i, j>>] - B.matrix[<<i, j>>]
<1> DEFINE m == [ij \in Square(n) |-> A.matrix[ij] - B.matrix[ij]]
<1>1. _subtract_matrix(A, B) = [size |-> n, matrix |-> m]
  BY MatrixIs DEF _subtract_matrix
<1>2. \A i, j \in 0 .. n - 1 : m[<<i, j>>] = A.matrix[<<i, j>>] - B.matrix[<<i, j>>]
  BY DEF Square
<1>3. DOMAIN m = Square(n) /\ m = [ij \in Square(n) |-> m[ij]]
  OBVIOUS
<1> HIDE DEF m
<1>4. ASSUME NEW i \in 0 .. n - 1, NEW j \in 0 .. n - 1 PROVE m[<<i, j>>] \in Int
  <2>1. A.matrix[<<i, j>>] \in Int /\ B.matrix[<<i, j>>] \in Int
    BY MatrixIs
  <2> QED
    BY <1>2, <2>1
<1>5. [size |-> n, matrix |-> m] \in Matrix(n)
  BY <1>3, <1>4, MatrixOf
<1> QED
  BY <1>1, <1>2, <1>5

LEMMA SplitIs ==
    ASSUME NEW h \in Nat, NEW A \in Matrix(2 * h), NEW portion \in 1 .. 4,
           NEW down, NEW right,
           down = IF portion \in {3, 4} THEN h ELSE 0, right = IF portion \in {2, 4} THEN h ELSE 0
    PROVE  /\ _split_matrix(A, portion) \in Matrix(h)
           /\ \A i, j \in 0 .. h - 1 :
                 _split_matrix(A, portion).matrix[<<i, j>>] = A.matrix[<<i + down, j + right>>]
<1> DEFINE m == [ij \in Square(h) |-> A.matrix[<<ij[1] + down, ij[2] + right>>]]
<1>1. A.size \div 2 = h
  <2>1. A.size = 2 * h
    BY MatrixIs
  <2> QED
    BY <2>1
<1>2. _split_matrix(A, portion) = [size |-> h, matrix |-> m]
  BY <1>1 DEF _split_matrix
<1>3. \A i, j \in 0 .. h - 1 : m[<<i, j>>] = A.matrix[<<i + down, j + right>>]
  BY DEF Square
<1>4. DOMAIN m = Square(h) /\ m = [ij \in Square(h) |-> m[ij]]
  OBVIOUS
<1> HIDE DEF m
<1>5. ASSUME NEW i \in 0 .. h - 1, NEW j \in 0 .. h - 1 PROVE m[<<i, j>>] \in Int
  <2>1. i + down \in 0 .. 2 * h - 1 /\ j + right \in 0 .. 2 * h - 1 /\ 2 * h \in Nat
    OBVIOUS
  <2>2. A.matrix[<<i + down, j + right>>] \in Int
    BY <2>1, MatrixIs
  <2> QED
    BY <1>3, <2>2
<1>6. [size |-> h, matrix |-> m] \in Matrix(h)
  BY <1>4, <1>5, MatrixOf
<1> QED
  BY <1>2, <1>3, <1>6

\* A matrix and its quarters.
AreQuarters(X, h, A, B, C, D) ==
    /\ X \in Matrix(2 * h) /\ A \in Matrix(h) /\ B \in Matrix(h) /\ C \in Matrix(h) /\ D \in Matrix(h)
    /\ \A i, j \in 0 .. h - 1 : /\ A.matrix[<<i, j>>] = X.matrix[<<i, j>>]
                                /\ B.matrix[<<i, j>>] = X.matrix[<<i, h + j>>]
                                /\ C.matrix[<<i, j>>] = X.matrix[<<h + i, j>>]
                                /\ D.matrix[<<i, j>>] = X.matrix[<<h + i, h + j>>]

\* What is joined has what it was joined from as its quarters.
LEMMA JoinsAreQuarters ==
    ASSUME NEW h \in Nat, NEW A \in Matrix(h), NEW B \in Matrix(h), NEW C \in Matrix(h), NEW D \in Matrix(h)
    PROVE  AreQuarters(_join_matrix(A, B, C, D), h, A, B, C, D)
<1> DEFINE Entry(i, j) == IF i < h
                          THEN IF j < h THEN A.matrix[<<i, j>>] ELSE B.matrix[<<i, j - h>>]
                          ELSE IF j < h THEN C.matrix[<<i - h, j>>] ELSE D.matrix[<<i - h, j - h>>]
           m == [ij \in Square(2 * h) |-> Entry(ij[1], ij[2])]
<1>1. _join_matrix(A, B, C, D) = [size |-> 2 * h, matrix |-> m]
  BY MatrixIs DEF _join_matrix
<1>2. \A i, j \in 0 .. 2 * h - 1 : m[<<i, j>>] = Entry(i, j)
  BY DEF Square
<1>3. DOMAIN m = Square(2 * h) /\ m = [ij \in Square(2 * h) |-> m[ij]]
  OBVIOUS
<1> HIDE DEF m
<1>4. ASSUME NEW i \in 0 .. 2 * h - 1, NEW j \in 0 .. 2 * h - 1 PROVE Entry(i, j) \in Int
  <2>1. (i < h => i \in 0 .. h - 1) /\ (~(i < h) => i - h \in 0 .. h - 1)
    OBVIOUS
  <2>2. (j < h => j \in 0 .. h - 1) /\ (~(j < h) => j - h \in 0 .. h - 1)
    OBVIOUS
  <2>3. /\ \A x, y \in 0 .. h - 1 : A.matrix[<<x, y>>] \in Int /\ B.matrix[<<x, y>>] \in Int
        /\ \A x, y \in 0 .. h - 1 : C.matrix[<<x, y>>] \in Int /\ D.matrix[<<x, y>>] \in Int
    BY MatrixIs
  <2> QED
    BY <2>1, <2>2, <2>3
<1>5. ASSUME NEW i \in 0 .. h - 1, NEW j \in 0 .. h - 1
      PROVE  /\ m[<<i, j>>] = A.matrix[<<i, j>>] /\ m[<<i, h + j>>] = B.matrix[<<i, j>>]
             /\ m[<<h + i, j>>] = C.matrix[<<i, j>>] /\ m[<<h + i, h + j>>] = D.matrix[<<i, j>>]
  <2>1. /\ i \in 0 .. 2 * h - 1 /\ h + i \in 0 .. 2 * h - 1 /\ i < h /\ ~(h + i < h) /\ (h + i) - h = i
        /\ j \in 0 .. 2 * h - 1 /\ h + j \in 0 .. 2 * h - 1 /\ j < h /\ ~(h + j < h) /\ (h + j) - h = j
    OBVIOUS
  <2>2. Entry(i, j) = A.matrix[<<i, j>>] /\ Entry(i, h + j) = B.matrix[<<i, j>>]
    BY <2>1
  <2>3. Entry(h + i, j) = C.matrix[<<i, j>>] /\ Entry(h + i, h + j) = D.matrix[<<i, j>>]
    BY <2>1
  <2> HIDE DEF Entry
  <2> QED
    BY <1>2, <2>1, <2>2, <2>3
<1>6. \A i, j \in 0 .. 2 * h - 1 : m[<<i, j>>] \in Int
  <2> HIDE DEF Entry
  <2> QED
    BY <1>2, <1>4
<1>7. [size |-> 2 * h, matrix |-> m] \in Matrix(2 * h)
  <2>1. 2 * h \in Nat
    OBVIOUS
  <2> HIDE DEF Entry
  <2> QED
    BY <1>3, <1>6, <2>1, MatrixOf
<1> HIDE DEF Entry
<1> DEFINE Z == [size |-> 2 * h, matrix |-> m]
<1>8. Z.matrix = m
  OBVIOUS
<1> HIDE DEF Z
<1>9. AreQuarters(Z, h, A, B, C, D)
  BY <1>5, <1>7, <1>8 DEF AreQuarters, Z
<1> QED
  BY <1>1, <1>9 DEF Z

\* The entries of the product.
LEMMA ProductIs ==
    ASSUME NEW n \in Nat, NEW A \in Matrix(n), NEW B \in Matrix(n)
    PROVE  /\ do_standard_multiplication(A, B) \in Matrix(n)
           /\ \A i, j \in 0 .. n - 1 :
                 /\ do_standard_multiplication(A, B).matrix[<<i, j>>] = Sums(Terms(A, B, i, j), n)[n]
                 /\ Numbers(Terms(A, B, i, j), n)
                 /\ \A k \in 0 .. n - 1 : Terms(A, B, i, j)[k] = A.matrix[<<i, k>>] * B.matrix[<<k, j>>]
<1> DEFINE m == [ij \in Square(n) |-> Sums(Terms(A, B, ij[1], ij[2]), n)[n]]
<1>1. do_standard_multiplication(A, B) = [size |-> n, matrix |-> m]
  BY MatrixIs DEF do_standard_multiplication
<1>2. \A i, j \in 0 .. n - 1 : m[<<i, j>>] = Sums(Terms(A, B, i, j), n)[n]
  BY DEF Square
<1>3. DOMAIN m = Square(n) /\ m = [ij \in Square(n) |-> m[ij]]
  OBVIOUS
<1> HIDE DEF m
<1>4. ASSUME NEW i \in 0 .. n - 1, NEW j \in 0 .. n - 1
      PROVE  /\ Numbers(Terms(A, B, i, j), n)
             /\ \A k \in 0 .. n - 1 : Terms(A, B, i, j)[k] = A.matrix[<<i, k>>] * B.matrix[<<k, j>>]
  <2>1. \A k \in 0 .. n - 1 : Terms(A, B, i, j)[k] = A.matrix[<<i, k>>] * B.matrix[<<k, j>>]
    BY MatrixIs DEF Terms
  <2>2. ASSUME NEW k \in 0 .. n - 1 PROVE Terms(A, B, i, j)[k] \in Int
    <3>1. A.matrix[<<i, k>>] \in Int /\ B.matrix[<<k, j>>] \in Int
      BY MatrixIs
    <3> QED
      BY <2>1, <3>1
  <2> QED
    BY <2>1, <2>2 DEF Numbers
<1>5. ASSUME NEW i \in 0 .. n - 1, NEW j \in 0 .. n - 1 PROVE m[<<i, j>>] \in Int
  <2>1. Adds(Sums(Terms(A, B, i, j), n), Terms(A, B, i, j), n)
    BY <1>4, SumsAre
  <2>2. Sums(Terms(A, B, i, j), n)[n] \in Int
    BY <2>1 DEF Adds
  <2> QED
    BY <1>2, <2>2
<1>6. [size |-> n, matrix |-> m] \in Matrix(n)
  BY <1>3, <1>5, MatrixOf
<1> QED
  BY <1>1, <1>2, <1>4, <1>6

\* Two by two.
LEMMA ActualIsProduct ==
    ASSUME NEW A \in Matrix(2), NEW B \in Matrix(2)
    PROVE  _do_actual_strassen(A, B) = do_standard_multiplication(A, B)
<1> DEFINE P == do_standard_multiplication(A, B)
           Q == _do_actual_strassen(A, B)
           a == A.matrix
           b == B.matrix
<1>1. 2 \in Nat /\ 0 .. 2 - 1 = {0, 1}
  OBVIOUS
<1>2. /\ a[<<0, 0>>] \in Int /\ a[<<0, 1>>] \in Int /\ a[<<1, 0>>] \in Int /\ a[<<1, 1>>] \in Int
      /\ b[<<0, 0>>] \in Int /\ b[<<0, 1>>] \in Int /\ b[<<1, 0>>] \in Int /\ b[<<1, 1>>] \in Int
  BY <1>1, MatrixIs
<1>3. /\ P \in Matrix(2)
      /\ \A i, j \in {0, 1} : P.matrix[<<i, j>>] = a[<<i, 0>>] * b[<<0, j>>] + a[<<i, 1>>] * b[<<1, j>>]
  <2>1. P \in Matrix(2)
    BY ProductIs
  <2>2. ASSUME NEW i \in {0, 1}, NEW j \in {0, 1}
        PROVE  P.matrix[<<i, j>>] = a[<<i, 0>>] * b[<<0, j>>] + a[<<i, 1>>] * b[<<1, j>>]
    <3> DEFINE t == Terms(A, B, i, j)
               S == Sums(t, 2)
    <3>1. i \in 0 .. 2 - 1 /\ j \in 0 .. 2 - 1 /\ 0 \in 0 .. 2 - 1 /\ 1 \in 0 .. 2 - 1
      OBVIOUS
    <3>0. /\ do_standard_multiplication(A, B).matrix[<<i, j>>] = Sums(Terms(A, B, i, j), 2)[2]
          /\ Numbers(Terms(A, B, i, j), 2)
          /\ \A k \in 0 .. 2 - 1 : Terms(A, B, i, j)[k] = A.matrix[<<i, k>>] * B.matrix[<<k, j>>]
      <4>1. PICK n \in Nat : n = 2
        OBVIOUS
      <4>2. A \in Matrix(n) /\ B \in Matrix(n) /\ i \in 0 .. n - 1 /\ j \in 0 .. n - 1
        BY <3>1, <4>1
      <4>3. /\ do_standard_multiplication(A, B).matrix[<<i, j>>] = Sums(Terms(A, B, i, j), n)[n]
            /\ Numbers(Terms(A, B, i, j), n)
            /\ \A k \in 0 .. n - 1 : Terms(A, B, i, j)[k] = A.matrix[<<i, k>>] * B.matrix[<<k, j>>]
        BY <4>2, ProductIs
      <4> QED
        BY <4>1, <4>3
    <3>2. P.matrix[<<i, j>>] = S[2] /\ Numbers(t, 2)
      BY <3>0
    <3>3. \A k \in 0 .. 2 - 1 : t[k] = a[<<i, k>>] * b[<<k, j>>]
      BY <3>0
    <3>4. t[0] = a[<<i, 0>>] * b[<<0, j>>] /\ t[1] = a[<<i, 1>>] * b[<<1, j>>]
      BY <3>1, <3>3
    <3>5. Adds(S, t, 2)
      BY <3>2, SumsAre
    <3> HIDE DEF S, t, P, a, b
    <3>6. S[0] = 0 /\ S[0 + 1] = S[0] + t[0] /\ S[1 + 1] = S[1] + t[1] /\ t[0] \in Int /\ t[1] \in Int
      BY <3>1, <3>2, <3>5 DEF Adds, Numbers
    <3>7. S[2] = t[0] + t[1]
      BY <3>6
    <3> QED
      BY <3>2, <3>4, <3>7
  <2> QED
    BY <2>1, <2>2
<1> DEFINE m == Q.matrix
           m1 == (a[<<0, 0>>] + a[<<1, 1>>]) * (b[<<0, 0>>] + b[<<1, 1>>])
           m2 == (a[<<1, 0>>] + a[<<1, 1>>]) * b[<<0, 0>>]
           m3 == a[<<0, 0>>] * (b[<<0, 1>>] - b[<<1, 1>>])
           m4 == a[<<1, 1>>] * (b[<<1, 0>>] - b[<<0, 0>>])
           m5 == (a[<<0, 0>>] + a[<<0, 1>>]) * b[<<1, 1>>]
           m6 == (a[<<1, 0>>] - a[<<0, 0>>]) * (b[<<0, 0>>] + b[<<0, 1>>])
           m7 == (a[<<0, 1>>] - a[<<1, 1>>]) * (b[<<1, 0>>] + b[<<1, 1>>])
<1>4. /\ Q = [size |-> 2, matrix |-> m] /\ DOMAIN m = Square(2) /\ m = [ij \in Square(2) |-> m[ij]]
      /\ m[<<0, 0>>] = m1 + m4 - m5 + m7 /\ m[<<0, 1>>] = m3 + m5
      /\ m[<<1, 0>>] = m2 + m4 /\ m[<<1, 1>>] = m1 - m2 + m3 + m6
  <2> DEFINE Entry(ij) == CASE ij = <<0, 0>> -> m1 + m4 - m5 + m7
                            [] ij = <<0, 1>> -> m3 + m5
                            [] ij = <<1, 0>> -> m2 + m4
                            [] ij = <<1, 1>> -> m1 - m2 + m3 + m6
             f == [ij \in Square(2) |-> Entry(ij)]
  <2>1. Q = [size |-> 2, matrix |-> f]
    BY DEF _do_actual_strassen
  <2> HIDE DEF Q, m1, m2, m3, m4, m5, m6, m7
  <2>2. m = f
    BY <2>1
  <2>3. /\ <<0, 0>> \in Square(2) /\ <<0, 1>> \in Square(2) /\ <<1, 0>> \in Square(2) /\ <<1, 1>> \in Square(2)
        /\ <<0, 0>> # <<0, 1>> /\ <<0, 0>> # <<1, 0>> /\ <<0, 0>> # <<1, 1>>
        /\ <<0, 1>> # <<1, 0>> /\ <<0, 1>> # <<1, 1>> /\ <<1, 0>> # <<1, 1>>
    BY <1>1 DEF Square
  <2>4. /\ f[<<0, 0>>] = m1 + m4 - m5 + m7 /\ f[<<0, 1>>] = m3 + m5
        /\ f[<<1, 0>>] = m2 + m4 /\ f[<<1, 1>>] = m1 - m2 + m3 + m6
    BY <2>3
  <2> HIDE DEF Entry
  <2>5. DOMAIN f = Square(2) /\ f = [ij \in Square(2) |-> f[ij]]
    OBVIOUS
  <2> HIDE DEF f
  <2> QED
    BY <2>1, <2>2, <2>4, <2>5
<1> HIDE DEF P, Q, a, b, m
<1>5. /\ m[<<0, 0>>] = P.matrix[<<0, 0>>] /\ m[<<0, 1>>] = P.matrix[<<0, 1>>]
      /\ m[<<1, 0>>] = P.matrix[<<1, 0>>] /\ m[<<1, 1>>] = P.matrix[<<1, 1>>]
  <2>1. m1 + m4 - m5 + m7 = a[<<0, 0>>] * b[<<0, 0>>] + a[<<0, 1>>] * b[<<1, 0>>]
    BY <1>2
  <2>2. m3 + m5 = a[<<0, 0>>] * b[<<0, 1>>] + a[<<0, 1>>] * b[<<1, 1>>]
    BY <1>2
  <2>3. m2 + m4 = a[<<1, 0>>] * b[<<0, 0>>] + a[<<1, 1>>] * b[<<1, 0>>]
    BY <1>2
  <2>4. m1 - m2 + m3 + m6 = a[<<1, 0>>] * b[<<0, 1>>] + a[<<1, 1>>] * b[<<1, 1>>]
    BY <1>2
  <2> HIDE DEF m1, m2, m3, m4, m5, m6, m7
  <2> QED
    BY <1>3, <1>4, <2>1, <2>2, <2>3, <2>4
<1>6. \A i, j \in 0 .. 2 - 1 : m[<<i, j>>] = P.matrix[<<i, j>>] /\ m[<<i, j>>] \in Int
  <2>1. \A i, j \in {0, 1} : P.matrix[<<i, j>>] \in Int
    BY <1>1, <1>3, MatrixIs
  <2>2. ASSUME NEW i \in {0, 1}, NEW j \in {0, 1} PROVE m[<<i, j>>] = P.matrix[<<i, j>>]
    <3> HIDE DEF m1, m2, m3, m4, m5, m6, m7
    <3>1. (i = 0 \/ i = 1) /\ (j = 0 \/ j = 1)
      OBVIOUS
    <3> QED
      BY <1>5, <3>1
  <2> QED
    BY <1>1, <2>1, <2>2
<1> HIDE DEF m1, m2, m3, m4, m5, m6, m7
<1>7. Q \in Matrix(2)
  <2>1. [size |-> 2, matrix |-> m] \in Matrix(2)
    BY <1>1, <1>4, <1>6, MatrixOf
  <2> QED
    BY <1>4, <2>1
<1>8. Q = P
  <2>1. \A i, j \in 0 .. 2 - 1 : Q.matrix[<<i, j>>] = P.matrix[<<i, j>>]
    BY <1>6 DEF m
  <2> QED
    BY <1>1, <1>3, <1>7, <2>1, SameMatrix
<1> QED
  BY <1>8 DEF P, Q
\* The seven sums of products, by their factors.
Products(x, y, n) == [k \in 0 .. n - 1 |-> x[k] * y[k]]

LEMMA TotalIsNumber ==
    ASSUME NEW n \in Nat, NEW t, Numbers(t, n)
    PROVE  SumOf(t, n) \in Int
<1>1. Adds(Sums(t, n), t, n)
  BY SumsAre
<1> QED
  BY <1>1 DEF Adds, SumOf

LEMMA ProductsAre ==
    ASSUME NEW n \in Nat, NEW x, NEW y, Numbers(x, n), Numbers(y, n)
    PROVE  /\ \A k \in 0 .. n - 1 : Products(x, y, n)[k] = x[k] * y[k]
           /\ Numbers(Products(x, y, n), n)
<1>1. \A k \in 0 .. n - 1 : Products(x, y, n)[k] = x[k] * y[k]
  BY DEF Products
<1>2. ASSUME NEW k \in 0 .. n - 1 PROVE Products(x, y, n)[k] \in Int
  <2>1. x[k] \in Int /\ y[k] \in Int
    BY DEF Numbers
  <2> QED
    BY <1>1, <2>1
<1> QED
  BY <1>1, <1>2 DEF Numbers

\* Eight lists of numbers and the seven lists that are products of their sums.
SevenLists(n, a, b, c, d, e, f, g, q, t1, t2, t3, t4, t5, t6, t7) ==
    /\ Numbers(a, n) /\ Numbers(b, n) /\ Numbers(c, n) /\ Numbers(d, n)
    /\ Numbers(e, n) /\ Numbers(f, n) /\ Numbers(g, n) /\ Numbers(q, n)
    /\ Numbers(t1, n) /\ Numbers(t2, n) /\ Numbers(t3, n) /\ Numbers(t4, n)
    /\ Numbers(t5, n) /\ Numbers(t6, n) /\ Numbers(t7, n)
    /\ \A k \in 0 .. n - 1 : /\ t1[k] = a[k] * (f[k] - q[k])
                             /\ t2[k] = (a[k] + b[k]) * q[k]
                             /\ t3[k] = (c[k] + d[k]) * e[k]
                             /\ t4[k] = d[k] * (g[k] - e[k])
                             /\ t5[k] = (a[k] + d[k]) * (e[k] + q[k])
                             /\ t6[k] = (b[k] - d[k]) * (g[k] + q[k])
                             /\ t7[k] = (a[k] - c[k]) * (e[k] + f[k])

\* Strassen's identities, for sums along a row and a column instead of numbers.
LEMMA SevenTotals ==
    ASSUME NEW n \in Nat, NEW a, NEW b, NEW c, NEW d, NEW e, NEW f, NEW g, NEW q,
           NEW t1, NEW t2, NEW t3, NEW t4, NEW t5, NEW t6, NEW t7,
           SevenLists(n, a, b, c, d, e, f, g, q, t1, t2, t3, t4, t5, t6, t7)
    PROVE  /\ SumOf(t5, n) + SumOf(t4, n) + SumOf(t6, n) - SumOf(t2, n)
                = SumOf(Products(a, e, n), n) + SumOf(Products(b, g, n), n)
           /\ SumOf(t1, n) + SumOf(t2, n) = SumOf(Products(a, f, n), n) + SumOf(Products(b, q, n), n)
           /\ SumOf(t3, n) + SumOf(t4, n) = SumOf(Products(c, e, n), n) + SumOf(Products(d, g, n), n)
           /\ SumOf(t1, n) + SumOf(t5, n) - SumOf(t3, n) - SumOf(t7, n)
                = SumOf(Products(c, f, n), n) + SumOf(Products(d, q, n), n)
<1>0. /\ Numbers(a, n) /\ Numbers(b, n) /\ Numbers(c, n) /\ Numbers(d, n)
      /\ Numbers(e, n) /\ Numbers(f, n) /\ Numbers(g, n) /\ Numbers(q, n)
      /\ Numbers(t1, n) /\ Numbers(t2, n) /\ Numbers(t3, n) /\ Numbers(t4, n)
      /\ Numbers(t5, n) /\ Numbers(t6, n) /\ Numbers(t7, n)
  BY DEF SevenLists
<1> DEFINE ae == Products(a, e, n)
           bg == Products(b, g, n)
           af == Products(a, f, n)
           bq == Products(b, q, n)
           ce == Products(c, e, n)
           dg == Products(d, g, n)
           cf == Products(c, f, n)
           dq == Products(d, q, n)
           z == [k \in 0 .. n - 1 |-> 0]
<1>1. /\ Numbers(ae, n) /\ Numbers(bg, n) /\ Numbers(af, n) /\ Numbers(bq, n)
      /\ Numbers(ce, n) /\ Numbers(dg, n) /\ Numbers(cf, n) /\ Numbers(dq, n)
  BY <1>0, ProductsAre
<1>2. \A k \in 0 .. n - 1 : /\ ae[k] = a[k] * e[k] /\ bg[k] = b[k] * g[k]
                            /\ af[k] = a[k] * f[k] /\ bq[k] = b[k] * q[k]
                            /\ ce[k] = c[k] * e[k] /\ dg[k] = d[k] * g[k]
                            /\ cf[k] = c[k] * f[k] /\ dq[k] = d[k] * q[k]
  BY <1>0, ProductsAre
<1>3. Numbers(z, n) /\ \A k \in 0 .. n - 1 : z[k] = 0
  BY DEF Numbers
<1>4. SumOf(z, n) = 0
  <2>1. Numbers(z, 0)
    BY DEF Numbers
  <2> HIDE DEF z
  <2>2. Sums(z, n)[n] = Sums(z, 0)[0]
    BY <1>3, <2>1, SumsWithZeros
  <2>3. Adds(Sums(z, 0), z, 0)
    BY <2>1, SumsAre
  <2> QED
    BY <2>2, <2>3 DEF Adds, SumOf
<1> HIDE DEF ae, bg, af, bq, ce, dg, cf, dq, z
<1>5. ASSUME NEW k \in 0 .. n - 1
      PROVE  /\ t5[k] + t4[k] + t6[k] + z[k] = t2[k] + ae[k] + bg[k] + z[k]
             /\ t1[k] + t2[k] + z[k] + z[k] = af[k] + bq[k] + z[k] + z[k]
             /\ t3[k] + t4[k] + z[k] + z[k] = ce[k] + dg[k] + z[k] + z[k]
             /\ t1[k] + t5[k] + z[k] + z[k] = t3[k] + t7[k] + cf[k] + dq[k]
  <2> DEFINE ak == a[k]
             bk == b[k]
             ck == c[k]
             dk == d[k]
             ek == e[k]
             fk == f[k]
             gk == g[k]
             qk == q[k]
  <2>1. ak \in Int /\ bk \in Int /\ ck \in Int /\ dk \in Int /\ ek \in Int /\ fk \in Int /\ gk \in Int /\ qk \in Int
    BY <1>0 DEF Numbers
  <2>2. /\ t1[k] = ak * (fk - qk) /\ t2[k] = (ak + bk) * qk /\ t3[k] = (ck + dk) * ek /\ t4[k] = dk * (gk - ek)
        /\ t5[k] = (ak + dk) * (ek + qk) /\ t6[k] = (bk - dk) * (gk + qk) /\ t7[k] = (ak - ck) * (ek + fk)
    BY DEF SevenLists
  <2>3. /\ ae[k] = ak * ek /\ bg[k] = bk * gk /\ af[k] = ak * fk /\ bq[k] = bk * qk
        /\ ce[k] = ck * ek /\ dg[k] = dk * gk /\ cf[k] = ck * fk /\ dq[k] = dk * qk /\ z[k] = 0
    BY <1>2, <1>3
  <2> HIDE DEF ak, bk, ck, dk, ek, fk, gk, qk
  <2>4. (ak + dk) * (ek + qk) + dk * (gk - ek) + (bk - dk) * (gk + qk) + 0 = (ak + bk) * qk + ak * ek + bk * gk + 0
    BY <2>1
  <2>5. ak * (fk - qk) + (ak + bk) * qk + 0 + 0 = ak * fk + bk * qk + 0 + 0
    BY <2>1
  <2>6. (ck + dk) * ek + dk * (gk - ek) + 0 + 0 = ck * ek + dk * gk + 0 + 0
    BY <2>1
  <2>7. ak * (fk - qk) + (ak + dk) * (ek + qk) + 0 + 0 = (ck + dk) * ek + (ak - ck) * (ek + fk) + ck * fk + dk * qk
    BY <2>1
  <2> QED
    BY <2>2, <2>3, <2>4, <2>5, <2>6, <2>7
<1>6. SumOf(t5, n) + SumOf(t4, n) + SumOf(t6, n) + SumOf(z, n) = SumOf(t2, n) + SumOf(ae, n) + SumOf(bg, n) + SumOf(z, n)
  BY <1>0, <1>1, <1>3, <1>5, TotalsBalance
<1>7. SumOf(t1, n) + SumOf(t2, n) + SumOf(z, n) + SumOf(z, n) = SumOf(af, n) + SumOf(bq, n) + SumOf(z, n) + SumOf(z, n)
  BY <1>0, <1>1, <1>3, <1>5, TotalsBalance
<1>8. SumOf(t3, n) + SumOf(t4, n) + SumOf(z, n) + SumOf(z, n) = SumOf(ce, n) + SumOf(dg, n) + SumOf(z, n) + SumOf(z, n)
  BY <1>0, <1>1, <1>3, <1>5, TotalsBalance
<1>9. SumOf(t1, n) + SumOf(t5, n) + SumOf(z, n) + SumOf(z, n) = SumOf(t3, n) + SumOf(t7, n) + SumOf(cf, n) + SumOf(dq, n)
  BY <1>0, <1>1, <1>3, <1>5, TotalsBalance
<1>10. /\ SumOf(t1, n) \in Int /\ SumOf(t2, n) \in Int /\ SumOf(t3, n) \in Int /\ SumOf(t4, n) \in Int
       /\ SumOf(t5, n) \in Int /\ SumOf(t6, n) \in Int /\ SumOf(t7, n) \in Int
       /\ SumOf(ae, n) \in Int /\ SumOf(bg, n) \in Int /\ SumOf(af, n) \in Int /\ SumOf(bq, n) \in Int
       /\ SumOf(ce, n) \in Int /\ SumOf(dg, n) \in Int /\ SumOf(cf, n) \in Int /\ SumOf(dq, n) \in Int
  BY <1>0, <1>1, TotalIsNumber
<1>11. SumOf(t5, n) + SumOf(t4, n) + SumOf(t6, n) - SumOf(t2, n) = SumOf(ae, n) + SumOf(bg, n)
  BY <1>4, <1>6, <1>10
<1>12. SumOf(t1, n) + SumOf(t2, n) = SumOf(af, n) + SumOf(bq, n)
  BY <1>4, <1>7, <1>10
<1>13. SumOf(t3, n) + SumOf(t4, n) = SumOf(ce, n) + SumOf(dg, n)
  BY <1>4, <1>8, <1>10
<1>14. SumOf(t1, n) + SumOf(t5, n) - SumOf(t3, n) - SumOf(t7, n) = SumOf(cf, n) + SumOf(dq, n)
  BY <1>4, <1>9, <1>10
<1> QED
  BY <1>11, <1>12, <1>13, <1>14 DEF ae, bg, af, bq, ce, dg, cf, dq

\* A row of the first factor, a column of the second.
Row(A, i, n) == [k \in 0 .. n - 1 |-> A.matrix[<<i, k>>]]
Column(A, j, n) == [k \in 0 .. n - 1 |-> A.matrix[<<k, j>>]]

LEMMA RowsAre ==
    ASSUME NEW n \in Nat, NEW A \in Matrix(n), NEW i \in 0 .. n - 1
    PROVE  /\ Numbers(Row(A, i, n), n) /\ \A k \in 0 .. n - 1 : Row(A, i, n)[k] = A.matrix[<<i, k>>]
           /\ Numbers(Column(A, i, n), n) /\ \A k \in 0 .. n - 1 : Column(A, i, n)[k] = A.matrix[<<k, i>>]
<1>1. \A k \in 0 .. n - 1 : Row(A, i, n)[k] = A.matrix[<<i, k>>] /\ Column(A, i, n)[k] = A.matrix[<<k, i>>]
  BY DEF Row, Column
<1>2. \A k \in 0 .. n - 1 : A.matrix[<<i, k>>] \in Int /\ A.matrix[<<k, i>>] \in Int
  BY MatrixIs
<1> QED
  BY <1>1, <1>2 DEF Numbers

\* An entry of a product is the sum of the products along a row and a column.
LEMMA EntryIs ==
    ASSUME NEW n \in Nat, NEW A \in Matrix(n), NEW B \in Matrix(n), NEW i \in 0 .. n - 1, NEW j \in 0 .. n - 1
    PROVE  do_standard_multiplication(A, B).matrix[<<i, j>>] = SumOf(Products(Row(A, i, n), Column(B, j, n), n), n)
<1>1. A.size = n
  BY MatrixIs
<1>2. Terms(A, B, i, j) = [k \in 0 .. n - 1 |-> A.matrix[<<i, k>>] * B.matrix[<<k, j>>]]
  BY <1>1 DEF Terms
<1>3. Products(Row(A, i, n), Column(B, j, n), n)
        = [k \in 0 .. n - 1 |-> A.matrix[<<i, k>>] * B.matrix[<<k, j>>]]
  BY RowsAre DEF Products
<1>4. do_standard_multiplication(A, B).matrix[<<i, j>>] = Sums(Terms(A, B, i, j), n)[n]
  BY ProductIs
<1> QED
  BY <1>2, <1>3, <1>4 DEF SumOf

\* What is split has its parts as its quarters.
LEMMA SplitsAreQuarters ==
    ASSUME NEW h \in Nat, NEW X \in Matrix(2 * h)
    PROVE  AreQuarters(X, h, _split_matrix(X, 1), _split_matrix(X, 2), _split_matrix(X, 3), _split_matrix(X, 4))
<1> DEFINE A == _split_matrix(X, 1)
           B == _split_matrix(X, 2)
           C == _split_matrix(X, 3)
           D == _split_matrix(X, 4)
           x == X.matrix
<1>1. A \in Matrix(h) /\ \A i, j \in 0 .. h - 1 : A.matrix[<<i, j>>] = x[<<i + 0, j + 0>>]
  BY SplitIs
<1>2. B \in Matrix(h) /\ \A i, j \in 0 .. h - 1 : B.matrix[<<i, j>>] = x[<<i + 0, j + h>>]
  BY SplitIs
<1>3. C \in Matrix(h) /\ \A i, j \in 0 .. h - 1 : C.matrix[<<i, j>>] = x[<<i + h, j + 0>>]
  BY SplitIs
<1>4. D \in Matrix(h) /\ \A i, j \in 0 .. h - 1 : D.matrix[<<i, j>>] = x[<<i + h, j + h>>]
  BY SplitIs
<1> HIDE DEF A, B, C, D
<1>5. \A i \in 0 .. h - 1 : i + 0 = i /\ i + h = h + i
  OBVIOUS
<1>6. AreQuarters(X, h, A, B, C, D)
  BY <1>1, <1>2, <1>3, <1>4, <1>5 DEF AreQuarters
<1> QED
  BY <1>6 DEF A, B, C, D

\* The two halves of a row and of a column.
HalvesOf(X, Y, h, r, s, u1, v1, u2, v2) ==
    /\ X \in Matrix(2 * h) /\ Y \in Matrix(2 * h) /\ r \in 0 .. 2 * h - 1 /\ s \in 0 .. 2 * h - 1
    /\ Numbers(u1, h) /\ Numbers(v1, h) /\ Numbers(u2, h) /\ Numbers(v2, h)
    /\ \A k \in 0 .. h - 1 : /\ u1[k] = X.matrix[<<r, k>>] /\ v1[k] = Y.matrix[<<k, s>>]
                             /\ u2[k] = X.matrix[<<r, h + k>>] /\ v2[k] = Y.matrix[<<h + k, s>>]

\* An entry of the product of matrices of an even size is a sum of two, each along half of the row.
LEMMA HalvesAdd ==
    ASSUME NEW h \in Nat, NEW X, NEW Y, NEW r, NEW s, NEW u1, NEW v1, NEW u2, NEW v2,
           HalvesOf(X, Y, h, r, s, u1, v1, u2, v2)
    PROVE  do_standard_multiplication(X, Y).matrix[<<r, s>>]
             = SumOf(Products(u1, v1, h), h) + SumOf(Products(u2, v2, h), h)
<1> DEFINE t == Terms(X, Y, r, s)
           u == Products(u1, v1, h)
           v == Products(u2, v2, h)
<1>1. PICK n \in Nat : n = 2 * h
  OBVIOUS
<1>2. X \in Matrix(n) /\ Y \in Matrix(n) /\ r \in 0 .. n - 1 /\ s \in 0 .. n - 1
  BY <1>1 DEF HalvesOf
<1>3. /\ do_standard_multiplication(X, Y).matrix[<<r, s>>] = Sums(t, n)[n]
      /\ Numbers(t, n)
      /\ \A k \in 0 .. n - 1 : t[k] = X.matrix[<<r, k>>] * Y.matrix[<<k, s>>]
  <2>1. \A i, j \in 0 .. n - 1 :
           /\ do_standard_multiplication(X, Y).matrix[<<i, j>>] = Sums(Terms(X, Y, i, j), n)[n]
           /\ Numbers(Terms(X, Y, i, j), n)
           /\ \A k \in 0 .. n - 1 : Terms(X, Y, i, j)[k] = X.matrix[<<i, k>>] * Y.matrix[<<k, j>>]
    BY <1>2, ProductIs
  <2> QED
    BY <1>2, <2>1
<1>4. /\ Numbers(u, h) /\ \A k \in 0 .. h - 1 : u[k] = u1[k] * v1[k]
  BY ProductsAre DEF HalvesOf
<1>5. /\ Numbers(v, h) /\ \A k \in 0 .. h - 1 : v[k] = u2[k] * v2[k]
  BY ProductsAre DEF HalvesOf
<1> HIDE DEF t, u, v
<1>6. ASSUME NEW k \in 0 .. h - 1 PROVE t[k] = u[k] /\ t[h + k] = v[k]
  <2>1. k \in 0 .. n - 1 /\ h + k \in 0 .. n - 1
    BY <1>1
  <2>2. /\ t[k] = X.matrix[<<r, k>>] * Y.matrix[<<k, s>>]
        /\ t[h + k] = X.matrix[<<r, h + k>>] * Y.matrix[<<h + k, s>>]
    BY <1>3, <2>1
  <2> QED
    BY <1>4, <1>5, <2>2 DEF HalvesOf
<1>7. Numbers(t, 2 * h)
  BY <1>1, <1>3
<1>8. Sums(t, 2 * h)[2 * h] = Sums(u, h)[h] + Sums(v, h)[h]
  BY <1>4, <1>5, <1>6, <1>7, SumsOfHalves
<1> QED
  BY <1>1, <1>3, <1>8 DEF u, v, SumOf

\* The product of matrices of an even size, by their quarters.
LEMMA QuartersMultiply ==
    ASSUME NEW h \in Nat, NEW X, NEW Y, NEW A, NEW B, NEW C, NEW D, NEW E, NEW F, NEW G, NEW H,
           AreQuarters(X, h, A, B, C, D), AreQuarters(Y, h, E, F, G, H),
           NEW i \in 0 .. h - 1, NEW j \in 0 .. h - 1,
           NEW a, NEW b, NEW c, NEW d, NEW e, NEW f, NEW g, NEW q,
           a = Row(A, i, h), b = Row(B, i, h), c = Row(C, i, h), d = Row(D, i, h),
           e = Column(E, j, h), f = Column(F, j, h), g = Column(G, j, h), q = Column(H, j, h)
    PROVE  /\ do_standard_multiplication(X, Y).matrix[<<i, j>>]
                = SumOf(Products(a, e, h), h) + SumOf(Products(b, g, h), h)
           /\ do_standard_multiplication(X, Y).matrix[<<i, h + j>>]
                = SumOf(Products(a, f, h), h) + SumOf(Products(b, q, h), h)
           /\ do_standard_multiplication(X, Y).matrix[<<h + i, j>>]
                = SumOf(Products(c, e, h), h) + SumOf(Products(d, g, h), h)
           /\ do_standard_multiplication(X, Y).matrix[<<h + i, h + j>>]
                = SumOf(Products(c, f, h), h) + SumOf(Products(d, q, h), h)
<1>0. X \in Matrix(2 * h) /\ Y \in Matrix(2 * h)
  BY DEF AreQuarters
<1>1. /\ X \in Matrix(2 * h) /\ A \in Matrix(h) /\ B \in Matrix(h) /\ C \in Matrix(h) /\ D \in Matrix(h)
      /\ Y \in Matrix(2 * h) /\ E \in Matrix(h) /\ F \in Matrix(h) /\ G \in Matrix(h) /\ H \in Matrix(h)
  BY DEF AreQuarters
<1>2. /\ Numbers(a, h) /\ Numbers(b, h) /\ Numbers(c, h) /\ Numbers(d, h)
      /\ \A k \in 0 .. h - 1 : /\ a[k] = A.matrix[<<i, k>>] /\ b[k] = B.matrix[<<i, k>>]
                               /\ c[k] = C.matrix[<<i, k>>] /\ d[k] = D.matrix[<<i, k>>]
  BY <1>1, RowsAre
<1>3. /\ Numbers(e, h) /\ Numbers(f, h) /\ Numbers(g, h) /\ Numbers(q, h)
      /\ \A k \in 0 .. h - 1 : /\ e[k] = E.matrix[<<k, j>>] /\ f[k] = F.matrix[<<k, j>>]
                               /\ g[k] = G.matrix[<<k, j>>] /\ q[k] = H.matrix[<<k, j>>]
  BY <1>1, RowsAre
<1>4. \A k \in 0 .. h - 1 : /\ a[k] = X.matrix[<<i, k>>] /\ b[k] = X.matrix[<<i, h + k>>]
                            /\ c[k] = X.matrix[<<h + i, k>>] /\ d[k] = X.matrix[<<h + i, h + k>>]
  BY <1>2 DEF AreQuarters
<1>5. \A k \in 0 .. h - 1 : /\ e[k] = Y.matrix[<<k, j>>] /\ f[k] = Y.matrix[<<k, h + j>>]
                            /\ g[k] = Y.matrix[<<h + k, j>>] /\ q[k] = Y.matrix[<<h + k, h + j>>]
  BY <1>3 DEF AreQuarters
<1>6. i \in 0 .. 2 * h - 1 /\ j \in 0 .. 2 * h - 1 /\ h + i \in 0 .. 2 * h - 1 /\ h + j \in 0 .. 2 * h - 1
  OBVIOUS
<1>7. do_standard_multiplication(X, Y).matrix[<<i, j>>] = SumOf(Products(a, e, h), h) + SumOf(Products(b, g, h), h)
  <2>1. HalvesOf(X, Y, h, i, j, a, e, b, g)
    BY <1>0, <1>2, <1>3, <1>4, <1>5, <1>6 DEF HalvesOf
  <2> QED
    BY <2>1, HalvesAdd
<1>8. do_standard_multiplication(X, Y).matrix[<<i, h + j>>]
        = SumOf(Products(a, f, h), h) + SumOf(Products(b, q, h), h)
  <2>1. HalvesOf(X, Y, h, i, h + j, a, f, b, q)
    BY <1>0, <1>2, <1>3, <1>4, <1>5, <1>6 DEF HalvesOf
  <2> QED
    BY <2>1, HalvesAdd
<1>9. do_standard_multiplication(X, Y).matrix[<<h + i, j>>]
        = SumOf(Products(c, e, h), h) + SumOf(Products(d, g, h), h)
  <2>1. HalvesOf(X, Y, h, h + i, j, c, e, d, g)
    BY <1>0, <1>2, <1>3, <1>4, <1>5, <1>6 DEF HalvesOf
  <2> QED
    BY <2>1, HalvesAdd
<1>10. do_standard_multiplication(X, Y).matrix[<<h + i, h + j>>]
         = SumOf(Products(c, f, h), h) + SumOf(Products(d, q, h), h)
  <2>1. HalvesOf(X, Y, h, h + i, h + j, c, f, d, q)
    BY <1>0, <1>2, <1>3, <1>4, <1>5, <1>6 DEF HalvesOf
  <2> QED
    BY <2>1, HalvesAdd
<1> QED
  BY <1>7, <1>8, <1>9, <1>10

\* A list of products of the numbers of a row and of a column.
LEMMA TermsAre ==
    ASSUME NEW n \in Nat, NEW A \in Matrix(n), NEW B \in Matrix(n), NEW i \in 0 .. n - 1, NEW j \in 0 .. n - 1,
           NEW t, t = Products(Row(A, i, n), Column(B, j, n), n)
    PROVE  Numbers(t, n) /\ \A k \in 0 .. n - 1 : t[k] = A.matrix[<<i, k>>] * B.matrix[<<k, j>>]
<1>1. /\ Numbers(Row(A, i, n), n) /\ \A k \in 0 .. n - 1 : Row(A, i, n)[k] = A.matrix[<<i, k>>]
  BY RowsAre
<1>2. /\ Numbers(Column(B, j, n), n) /\ \A k \in 0 .. n - 1 : Column(B, j, n)[k] = B.matrix[<<k, j>>]
  BY RowsAre
<1> QED
  BY <1>1, <1>2, ProductsAre

\* The sums and differences of quarters that Strassen's products are of.
Mixed(h, A, B, C, D, E, F, G, H, FmH, ApB, CpD, GmE, ApD, EpH, BmD, GpH, AmC, EpF) ==
    /\ A \in Matrix(h) /\ B \in Matrix(h) /\ C \in Matrix(h) /\ D \in Matrix(h)
    /\ E \in Matrix(h) /\ F \in Matrix(h) /\ G \in Matrix(h) /\ H \in Matrix(h)
    /\ FmH \in Matrix(h) /\ ApB \in Matrix(h) /\ CpD \in Matrix(h) /\ GmE \in Matrix(h) /\ ApD \in Matrix(h)
    /\ EpH \in Matrix(h) /\ BmD \in Matrix(h) /\ GpH \in Matrix(h) /\ AmC \in Matrix(h) /\ EpF \in Matrix(h)
    /\ \A i, j \in 0 .. h - 1 : /\ FmH.matrix[<<i, j>>] = F.matrix[<<i, j>>] - H.matrix[<<i, j>>]
                                /\ ApB.matrix[<<i, j>>] = A.matrix[<<i, j>>] + B.matrix[<<i, j>>]
                                /\ CpD.matrix[<<i, j>>] = C.matrix[<<i, j>>] + D.matrix[<<i, j>>]
                                /\ GmE.matrix[<<i, j>>] = G.matrix[<<i, j>>] - E.matrix[<<i, j>>]
                                /\ ApD.matrix[<<i, j>>] = A.matrix[<<i, j>>] + D.matrix[<<i, j>>]
                                /\ EpH.matrix[<<i, j>>] = E.matrix[<<i, j>>] + H.matrix[<<i, j>>]
                                /\ BmD.matrix[<<i, j>>] = B.matrix[<<i, j>>] - D.matrix[<<i, j>>]
                                /\ GpH.matrix[<<i, j>>] = G.matrix[<<i, j>>] + H.matrix[<<i, j>>]
                                /\ AmC.matrix[<<i, j>>] = A.matrix[<<i, j>>] - C.matrix[<<i, j>>]
                                /\ EpF.matrix[<<i, j>>] = E.matrix[<<i, j>>] + F.matrix[<<i, j>>]

\* The rows and columns of the sums and differences are those of the
\* identities.
LEMMA MixedGiveSevenLists ==
    ASSUME NEW h \in Nat, NEW A, NEW B, NEW C, NEW D, NEW E, NEW F, NEW G, NEW H, NEW FmH, NEW ApB, NEW CpD,
           NEW GmE, NEW ApD, NEW EpH, NEW BmD, NEW GpH, NEW AmC, NEW EpF,
           Mixed(h, A, B, C, D, E, F, G, H, FmH, ApB, CpD, GmE, ApD, EpH, BmD, GpH, AmC, EpF),
           NEW i \in 0 .. h - 1, NEW j \in 0 .. h - 1,
           NEW a, NEW b, NEW c, NEW d, NEW e, NEW f, NEW g, NEW q,
           a = Row(A, i, h), b = Row(B, i, h), c = Row(C, i, h), d = Row(D, i, h),
           e = Column(E, j, h), f = Column(F, j, h), g = Column(G, j, h), q = Column(H, j, h),
           NEW t1, NEW t2, NEW t3, NEW t4, NEW t5, NEW t6, NEW t7,
           t1 = Products(Row(A, i, h), Column(FmH, j, h), h), t2 = Products(Row(ApB, i, h), Column(H, j, h), h),
           t3 = Products(Row(CpD, i, h), Column(E, j, h), h), t4 = Products(Row(D, i, h), Column(GmE, j, h), h),
           t5 = Products(Row(ApD, i, h), Column(EpH, j, h), h), t6 = Products(Row(BmD, i, h), Column(GpH, j, h), h),
           t7 = Products(Row(AmC, i, h), Column(EpF, j, h), h)
    PROVE  SevenLists(h, a, b, c, d, e, f, g, q, t1, t2, t3, t4, t5, t6, t7)
<1>1. /\ A \in Matrix(h) /\ B \in Matrix(h) /\ C \in Matrix(h) /\ D \in Matrix(h)
      /\ E \in Matrix(h) /\ F \in Matrix(h) /\ G \in Matrix(h) /\ H \in Matrix(h)
  BY DEF Mixed
<1>2. /\ Numbers(a, h) /\ Numbers(b, h) /\ Numbers(c, h) /\ Numbers(d, h)
      /\ \A k \in 0 .. h - 1 : /\ a[k] = A.matrix[<<i, k>>] /\ b[k] = B.matrix[<<i, k>>]
                               /\ c[k] = C.matrix[<<i, k>>] /\ d[k] = D.matrix[<<i, k>>]
  BY <1>1, RowsAre
<1>3. /\ Numbers(e, h) /\ Numbers(f, h) /\ Numbers(g, h) /\ Numbers(q, h)
      /\ \A k \in 0 .. h - 1 : /\ e[k] = E.matrix[<<k, j>>] /\ f[k] = F.matrix[<<k, j>>]
                               /\ g[k] = G.matrix[<<k, j>>] /\ q[k] = H.matrix[<<k, j>>]
  BY <1>1, RowsAre
<1>4. Numbers(t1, h) /\ \A k \in 0 .. h - 1 : t1[k] = A.matrix[<<i, k>>] * FmH.matrix[<<k, j>>]
  <2>1. A \in Matrix(h) /\ FmH \in Matrix(h)
    BY DEF Mixed
  <2> QED
    BY <2>1, TermsAre
<1>5. Numbers(t2, h) /\ \A k \in 0 .. h - 1 : t2[k] = ApB.matrix[<<i, k>>] * H.matrix[<<k, j>>]
  <2>1. ApB \in Matrix(h) /\ H \in Matrix(h)
    BY DEF Mixed
  <2> QED
    BY <2>1, TermsAre
<1>6. Numbers(t3, h) /\ \A k \in 0 .. h - 1 : t3[k] = CpD.matrix[<<i, k>>] * E.matrix[<<k, j>>]
  <2>1. CpD \in Matrix(h) /\ E \in Matrix(h)
    BY DEF Mixed
  <2> QED
    BY <2>1, TermsAre
<1>7. Numbers(t4, h) /\ \A k \in 0 .. h - 1 : t4[k] = D.matrix[<<i, k>>] * GmE.matrix[<<k, j>>]
  <2>1. D \in Matrix(h) /\ GmE \in Matrix(h)
    BY DEF Mixed
  <2> QED
    BY <2>1, TermsAre
<1>8. Numbers(t5, h) /\ \A k \in 0 .. h - 1 : t5[k] = ApD.matrix[<<i, k>>] * EpH.matrix[<<k, j>>]
  <2>1. ApD \in Matrix(h) /\ EpH \in Matrix(h)
    BY DEF Mixed
  <2> QED
    BY <2>1, TermsAre
<1>9. Numbers(t6, h) /\ \A k \in 0 .. h - 1 : t6[k] = BmD.matrix[<<i, k>>] * GpH.matrix[<<k, j>>]
  <2>1. BmD \in Matrix(h) /\ GpH \in Matrix(h)
    BY DEF Mixed
  <2> QED
    BY <2>1, TermsAre
<1>10. Numbers(t7, h) /\ \A k \in 0 .. h - 1 : t7[k] = AmC.matrix[<<i, k>>] * EpF.matrix[<<k, j>>]
  <2>1. AmC \in Matrix(h) /\ EpF \in Matrix(h)
    BY DEF Mixed
  <2> QED
    BY <2>1, TermsAre
<1>11. ASSUME NEW k \in 0 .. h - 1
       PROVE  /\ FmH.matrix[<<k, j>>] = f[k] - q[k]
              /\ ApB.matrix[<<i, k>>] = a[k] + b[k]
              /\ CpD.matrix[<<i, k>>] = c[k] + d[k]
              /\ GmE.matrix[<<k, j>>] = g[k] - e[k]
              /\ ApD.matrix[<<i, k>>] = a[k] + d[k]
              /\ EpH.matrix[<<k, j>>] = e[k] + q[k]
              /\ BmD.matrix[<<i, k>>] = b[k] - d[k]
              /\ GpH.matrix[<<k, j>>] = g[k] + q[k]
              /\ AmC.matrix[<<i, k>>] = a[k] - c[k]
              /\ EpF.matrix[<<k, j>>] = e[k] + f[k]
  BY <1>2, <1>3 DEF Mixed
<1>12. ASSUME NEW k \in 0 .. h - 1
       PROVE  /\ t1[k] = a[k] * (f[k] - q[k])
              /\ t2[k] = (a[k] + b[k]) * q[k]
              /\ t3[k] = (c[k] + d[k]) * e[k]
              /\ t4[k] = d[k] * (g[k] - e[k])
              /\ t5[k] = (a[k] + d[k]) * (e[k] + q[k])
              /\ t6[k] = (b[k] - d[k]) * (g[k] + q[k])
              /\ t7[k] = (a[k] - c[k]) * (e[k] + f[k])
  <2>1. t1[k] = a[k] * (f[k] - q[k])
    <3>1. t1[k] = A.matrix[<<i, k>>] * FmH.matrix[<<k, j>>]
      BY <1>4
    <3>2. A.matrix[<<i, k>>] = a[k] /\ FmH.matrix[<<k, j>>] = f[k] - q[k]
      BY <1>2, <1>3, <1>11
    <3> QED
      BY <3>1, <3>2
  <2>2. t2[k] = (a[k] + b[k]) * q[k]
    <3>1. t2[k] = ApB.matrix[<<i, k>>] * H.matrix[<<k, j>>]
      BY <1>5
    <3>2. ApB.matrix[<<i, k>>] = a[k] + b[k] /\ H.matrix[<<k, j>>] = q[k]
      BY <1>2, <1>3, <1>11
    <3> QED
      BY <3>1, <3>2
  <2>3. t3[k] = (c[k] + d[k]) * e[k]
    <3>1. t3[k] = CpD.matrix[<<i, k>>] * E.matrix[<<k, j>>]
      BY <1>6
    <3>2. CpD.matrix[<<i, k>>] = c[k] + d[k] /\ E.matrix[<<k, j>>] = e[k]
      BY <1>2, <1>3, <1>11
    <3> QED
      BY <3>1, <3>2
  <2>4. t4[k] = d[k] * (g[k] - e[k])
    <3>1. t4[k] = D.matrix[<<i, k>>] * GmE.matrix[<<k, j>>]
      BY <1>7
    <3>2. D.matrix[<<i, k>>] = d[k] /\ GmE.matrix[<<k, j>>] = g[k] - e[k]
      BY <1>2, <1>3, <1>11
    <3> QED
      BY <3>1, <3>2
  <2>5. t5[k] = (a[k] + d[k]) * (e[k] + q[k])
    <3>1. t5[k] = ApD.matrix[<<i, k>>] * EpH.matrix[<<k, j>>]
      BY <1>8
    <3>2. ApD.matrix[<<i, k>>] = a[k] + d[k] /\ EpH.matrix[<<k, j>>] = e[k] + q[k]
      BY <1>2, <1>3, <1>11
    <3> QED
      BY <3>1, <3>2
  <2>6. t6[k] = (b[k] - d[k]) * (g[k] + q[k])
    <3>1. t6[k] = BmD.matrix[<<i, k>>] * GpH.matrix[<<k, j>>]
      BY <1>9
    <3>2. BmD.matrix[<<i, k>>] = b[k] - d[k] /\ GpH.matrix[<<k, j>>] = g[k] + q[k]
      BY <1>2, <1>3, <1>11
    <3> QED
      BY <3>1, <3>2
  <2>7. t7[k] = (a[k] - c[k]) * (e[k] + f[k])
    <3>1. t7[k] = AmC.matrix[<<i, k>>] * EpF.matrix[<<k, j>>]
      BY <1>10
    <3>2. AmC.matrix[<<i, k>>] = a[k] - c[k] /\ EpF.matrix[<<k, j>>] = e[k] + f[k]
      BY <1>2, <1>3, <1>11
    <3> QED
      BY <3>1, <3>2
  <2> QED
    BY <2>1, <2>2, <2>3, <2>4, <2>5, <2>6, <2>7
<1> QED
  BY <1>2, <1>3, <1>4, <1>5, <1>6, <1>7, <1>8, <1>9, <1>10, <1>12 DEF SevenLists

\* The seven products, if they are right, make up the product.
LEMMA SevenIsProduct ==
    ASSUME NEW h \in Nat, NEW X \in Matrix(2 * h), NEW Y \in Matrix(2 * h), NEW product,
           \A A, B \in Matrix(h) : product[<<A, B>>] = do_standard_multiplication(A, B)
    PROVE  Seven(X, Y, product) = do_standard_multiplication(X, Y)
<1> DEFINE A == _split_matrix(X, 1)
           B == _split_matrix(X, 2)
           C == _split_matrix(X, 3)
           D == _split_matrix(X, 4)
           E == _split_matrix(Y, 1)
           F == _split_matrix(Y, 2)
           G == _split_matrix(Y, 3)
           H == _split_matrix(Y, 4)
           FmH == _subtract_matrix(F, H)
           ApB == _add_matrix(A, B)
           CpD == _add_matrix(C, D)
           GmE == _subtract_matrix(G, E)
           ApD == _add_matrix(A, D)
           EpH == _add_matrix(E, H)
           BmD == _subtract_matrix(B, D)
           GpH == _add_matrix(G, H)
           AmC == _subtract_matrix(A, C)
           EpF == _add_matrix(E, F)
           P1 == product[<<A, FmH>>]
           P2 == product[<<ApB, H>>]
           P3 == product[<<CpD, E>>]
           P4 == product[<<D, GmE>>]
           P5 == product[<<ApD, EpH>>]
           P6 == product[<<BmD, GpH>>]
           P7 == product[<<AmC, EpF>>]
           Q1 == _subtract_matrix(_add_matrix(_add_matrix(P5, P4), P6), P2)
           Q2 == _add_matrix(P1, P2)
           Q3 == _add_matrix(P3, P4)
           Q4 == _subtract_matrix(_subtract_matrix(_add_matrix(P1, P5), P3), P7)
           Z == _join_matrix(Q1, Q2, Q3, Q4)
           R == do_standard_multiplication(X, Y)
<1>1. Seven(X, Y, product) = Z
  BY DEF Seven
<1>2. AreQuarters(X, h, A, B, C, D) /\ AreQuarters(Y, h, E, F, G, H)
  BY SplitsAreQuarters
<1>3. /\ A \in Matrix(h) /\ B \in Matrix(h) /\ C \in Matrix(h) /\ D \in Matrix(h)
      /\ E \in Matrix(h) /\ F \in Matrix(h) /\ G \in Matrix(h) /\ H \in Matrix(h)
  BY <1>2 DEF AreQuarters
<1> HIDE DEF A, B, C, D, E, F, G, H
<1>4a. FmH \in Matrix(h) /\ \A i, j \in 0 .. h - 1 : FmH.matrix[<<i, j>>] = F.matrix[<<i, j>>] - H.matrix[<<i, j>>]
  BY <1>3, SubtractIs
<1>4b. ApB \in Matrix(h) /\ \A i, j \in 0 .. h - 1 : ApB.matrix[<<i, j>>] = A.matrix[<<i, j>>] + B.matrix[<<i, j>>]
  BY <1>3, AddIs
<1>4c. CpD \in Matrix(h) /\ \A i, j \in 0 .. h - 1 : CpD.matrix[<<i, j>>] = C.matrix[<<i, j>>] + D.matrix[<<i, j>>]
  BY <1>3, AddIs
<1>4d. GmE \in Matrix(h) /\ \A i, j \in 0 .. h - 1 : GmE.matrix[<<i, j>>] = G.matrix[<<i, j>>] - E.matrix[<<i, j>>]
  BY <1>3, SubtractIs
<1>4e. ApD \in Matrix(h) /\ \A i, j \in 0 .. h - 1 : ApD.matrix[<<i, j>>] = A.matrix[<<i, j>>] + D.matrix[<<i, j>>]
  BY <1>3, AddIs
<1>4f. EpH \in Matrix(h) /\ \A i, j \in 0 .. h - 1 : EpH.matrix[<<i, j>>] = E.matrix[<<i, j>>] + H.matrix[<<i, j>>]
  BY <1>3, AddIs
<1>4g. BmD \in Matrix(h) /\ \A i, j \in 0 .. h - 1 : BmD.matrix[<<i, j>>] = B.matrix[<<i, j>>] - D.matrix[<<i, j>>]
  BY <1>3, SubtractIs
<1>4h. GpH \in Matrix(h) /\ \A i, j \in 0 .. h - 1 : GpH.matrix[<<i, j>>] = G.matrix[<<i, j>>] + H.matrix[<<i, j>>]
  BY <1>3, AddIs
<1>4i. AmC \in Matrix(h) /\ \A i, j \in 0 .. h - 1 : AmC.matrix[<<i, j>>] = A.matrix[<<i, j>>] - C.matrix[<<i, j>>]
  BY <1>3, SubtractIs
<1>4j. EpF \in Matrix(h) /\ \A i, j \in 0 .. h - 1 : EpF.matrix[<<i, j>>] = E.matrix[<<i, j>>] + F.matrix[<<i, j>>]
  BY <1>3, AddIs
<1> HIDE DEF FmH, ApB, CpD, GmE, ApD, EpH, BmD, GpH, AmC, EpF
<1>5. Mixed(h, A, B, C, D, E, F, G, H, FmH, ApB, CpD, GmE, ApD, EpH, BmD, GpH, AmC, EpF)
  BY <1>3, <1>4a, <1>4b, <1>4c, <1>4d, <1>4e, <1>4f, <1>4g, <1>4h, <1>4i, <1>4j DEF Mixed
<1>6. /\ P1 = do_standard_multiplication(A, FmH) /\ P2 = do_standard_multiplication(ApB, H)
      /\ P3 = do_standard_multiplication(CpD, E) /\ P4 = do_standard_multiplication(D, GmE)
      /\ P5 = do_standard_multiplication(ApD, EpH) /\ P6 = do_standard_multiplication(BmD, GpH)
      /\ P7 = do_standard_multiplication(AmC, EpF)
  BY <1>3, <1>4a, <1>4b, <1>4c, <1>4d, <1>4e, <1>4f, <1>4g, <1>4h, <1>4i, <1>4j
<1> HIDE DEF P1, P2, P3, P4, P5, P6, P7
<1>7. /\ P1 \in Matrix(h) /\ P2 \in Matrix(h) /\ P3 \in Matrix(h) /\ P4 \in Matrix(h)
      /\ P5 \in Matrix(h) /\ P6 \in Matrix(h) /\ P7 \in Matrix(h)
  BY <1>3, <1>4a, <1>4b, <1>4c, <1>4d, <1>4e, <1>4f, <1>4g, <1>4h, <1>4i, <1>4j, <1>6, ProductIs
<1>8. /\ Q1 \in Matrix(h)
      /\ \A i, j \in 0 .. h - 1 : Q1.matrix[<<i, j>>]
            = P5.matrix[<<i, j>>] + P4.matrix[<<i, j>>] + P6.matrix[<<i, j>>] - P2.matrix[<<i, j>>]
  <2> DEFINE S == _add_matrix(P5, P4)
             T == _add_matrix(S, P6)
  <2>1. /\ S \in Matrix(h)
        /\ \A i, j \in 0 .. h - 1 : S.matrix[<<i, j>>] = P5.matrix[<<i, j>>] + P4.matrix[<<i, j>>]
    BY <1>7, AddIs
  <2>2. /\ T \in Matrix(h)
        /\ \A i, j \in 0 .. h - 1 : T.matrix[<<i, j>>] = S.matrix[<<i, j>>] + P6.matrix[<<i, j>>]
    <3> HIDE DEF S
    <3> QED
      BY <1>7, <2>1, AddIs
  <2> HIDE DEF T
  <2>3. Q1 = _subtract_matrix(T, P2)
    BY DEF T
  <2>4. /\ Q1 \in Matrix(h)
        /\ \A i, j \in 0 .. h - 1 : Q1.matrix[<<i, j>>] = T.matrix[<<i, j>>] - P2.matrix[<<i, j>>]
    BY <1>7, <2>2, <2>3, SubtractIs
  <2> HIDE DEF S, Q1
  <2> SUFFICES ASSUME NEW i \in 0 .. h - 1, NEW j \in 0 .. h - 1
               PROVE  Q1.matrix[<<i, j>>]
                       = P5.matrix[<<i, j>>] + P4.matrix[<<i, j>>] + P6.matrix[<<i, j>>] - P2.matrix[<<i, j>>]
    BY <2>4
  <2>5. /\ S.matrix[<<i, j>>] = P5.matrix[<<i, j>>] + P4.matrix[<<i, j>>]
        /\ T.matrix[<<i, j>>] = S.matrix[<<i, j>>] + P6.matrix[<<i, j>>]
        /\ Q1.matrix[<<i, j>>] = T.matrix[<<i, j>>] - P2.matrix[<<i, j>>]
    BY <2>1, <2>2, <2>4
  <2>6. P5.matrix[<<i, j>>] \in Int /\ P4.matrix[<<i, j>>] \in Int /\ P6.matrix[<<i, j>>] \in Int /\ P2.matrix[<<i, j>>] \in Int
    BY <1>7, MatrixIs
  <2> QED
    BY <2>5, <2>6
<1>9. /\ Q2 \in Matrix(h)
      /\ \A i, j \in 0 .. h - 1 : Q2.matrix[<<i, j>>] = P1.matrix[<<i, j>>] + P2.matrix[<<i, j>>]
  BY <1>7, AddIs
<1>10. /\ Q3 \in Matrix(h)
       /\ \A i, j \in 0 .. h - 1 : Q3.matrix[<<i, j>>] = P3.matrix[<<i, j>>] + P4.matrix[<<i, j>>]
  BY <1>7, AddIs
<1>11. /\ Q4 \in Matrix(h)
       /\ \A i, j \in 0 .. h - 1 : Q4.matrix[<<i, j>>]
            = P1.matrix[<<i, j>>] + P5.matrix[<<i, j>>] - P3.matrix[<<i, j>>] - P7.matrix[<<i, j>>]
  <2> DEFINE S == _add_matrix(P1, P5)
             T == _subtract_matrix(S, P3)
  <2>1. /\ S \in Matrix(h)
        /\ \A i, j \in 0 .. h - 1 : S.matrix[<<i, j>>] = P1.matrix[<<i, j>>] + P5.matrix[<<i, j>>]
    BY <1>7, AddIs
  <2>2. /\ T \in Matrix(h)
        /\ \A i, j \in 0 .. h - 1 : T.matrix[<<i, j>>] = S.matrix[<<i, j>>] - P3.matrix[<<i, j>>]
    <3> HIDE DEF S
    <3> QED
      BY <1>7, <2>1, SubtractIs
  <2> HIDE DEF T
  <2>3. Q4 = _subtract_matrix(T, P7)
    BY DEF T
  <2>4. /\ Q4 \in Matrix(h)
        /\ \A i, j \in 0 .. h - 1 : Q4.matrix[<<i, j>>] = T.matrix[<<i, j>>] - P7.matrix[<<i, j>>]
    BY <1>7, <2>2, <2>3, SubtractIs
  <2> HIDE DEF S, Q4
  <2> SUFFICES ASSUME NEW i \in 0 .. h - 1, NEW j \in 0 .. h - 1
               PROVE  Q4.matrix[<<i, j>>]
                       = P1.matrix[<<i, j>>] + P5.matrix[<<i, j>>] - P3.matrix[<<i, j>>] - P7.matrix[<<i, j>>]
    BY <2>4
  <2>5. /\ S.matrix[<<i, j>>] = P1.matrix[<<i, j>>] + P5.matrix[<<i, j>>]
        /\ T.matrix[<<i, j>>] = S.matrix[<<i, j>>] - P3.matrix[<<i, j>>]
        /\ Q4.matrix[<<i, j>>] = T.matrix[<<i, j>>] - P7.matrix[<<i, j>>]
    BY <2>1, <2>2, <2>4
  <2>6. P1.matrix[<<i, j>>] \in Int /\ P5.matrix[<<i, j>>] \in Int /\ P3.matrix[<<i, j>>] \in Int /\ P7.matrix[<<i, j>>] \in Int
    BY <1>7, MatrixIs
  <2> QED
    BY <2>5, <2>6
<1> HIDE DEF Q1, Q2, Q3, Q4
<1>12. /\ Z \in Matrix(2 * h)
       /\ \A i, j \in 0 .. h - 1 :
             /\ Z.matrix[<<i, j>>] = Q1.matrix[<<i, j>>] /\ Z.matrix[<<i, h + j>>] = Q2.matrix[<<i, j>>]
             /\ Z.matrix[<<h + i, j>>] = Q3.matrix[<<i, j>>] /\ Z.matrix[<<h + i, h + j>>] = Q4.matrix[<<i, j>>]
  <2>1. Q1 \in Matrix(h) /\ Q2 \in Matrix(h) /\ Q3 \in Matrix(h) /\ Q4 \in Matrix(h)
    BY <1>8, <1>9, <1>10, <1>11
  <2>2. AreQuarters(Z, h, Q1, Q2, Q3, Q4)
    BY <2>1, JoinsAreQuarters
  <2> HIDE DEF Z
  <2> QED
    BY <2>2 DEF AreQuarters
<1>13. R \in Matrix(2 * h)
  <2>1. 2 * h \in Nat
    OBVIOUS
  <2> QED
    BY <2>1, ProductIs
<1> HIDE DEF Z, R
<1>14. ASSUME NEW i \in 0 .. h - 1, NEW j \in 0 .. h - 1
       PROVE  /\ Z.matrix[<<i, j>>] = R.matrix[<<i, j>>] /\ Z.matrix[<<i, h + j>>] = R.matrix[<<i, h + j>>]
              /\ Z.matrix[<<h + i, j>>] = R.matrix[<<h + i, j>>]
              /\ Z.matrix[<<h + i, h + j>>] = R.matrix[<<h + i, h + j>>]
  <2> DEFINE a == Row(A, i, h)
             b == Row(B, i, h)
             c == Row(C, i, h)
             d == Row(D, i, h)
             e == Column(E, j, h)
             f == Column(F, j, h)
             g == Column(G, j, h)
             q == Column(H, j, h)
             t1 == Products(Row(A, i, h), Column(FmH, j, h), h)
             t2 == Products(Row(ApB, i, h), Column(H, j, h), h)
             t3 == Products(Row(CpD, i, h), Column(E, j, h), h)
             t4 == Products(Row(D, i, h), Column(GmE, j, h), h)
             t5 == Products(Row(ApD, i, h), Column(EpH, j, h), h)
             t6 == Products(Row(BmD, i, h), Column(GpH, j, h), h)
             t7 == Products(Row(AmC, i, h), Column(EpF, j, h), h)
  <2>1. /\ R.matrix[<<i, j>>] = SumOf(Products(a, e, h), h) + SumOf(Products(b, g, h), h)
        /\ R.matrix[<<i, h + j>>] = SumOf(Products(a, f, h), h) + SumOf(Products(b, q, h), h)
        /\ R.matrix[<<h + i, j>>] = SumOf(Products(c, e, h), h) + SumOf(Products(d, g, h), h)
        /\ R.matrix[<<h + i, h + j>>] = SumOf(Products(c, f, h), h) + SumOf(Products(d, q, h), h)
    <3> DEFINE P == do_standard_multiplication(X, Y)
    <3>1. /\ P.matrix[<<i, j>>] = SumOf(Products(a, e, h), h) + SumOf(Products(b, g, h), h)
          /\ P.matrix[<<i, h + j>>] = SumOf(Products(a, f, h), h) + SumOf(Products(b, q, h), h)
          /\ P.matrix[<<h + i, j>>] = SumOf(Products(c, e, h), h) + SumOf(Products(d, g, h), h)
          /\ P.matrix[<<h + i, h + j>>] = SumOf(Products(c, f, h), h) + SumOf(Products(d, q, h), h)
      BY <1>2, QuartersMultiply
    <3>2. R = P
      BY DEF R
    <3> HIDE DEF P, a, b, c, d, e, f, g, q
    <3> QED
      BY <3>1, <3>2
  <2>2. SevenLists(h, a, b, c, d, e, f, g, q, t1, t2, t3, t4, t5, t6, t7)
    <3>1. /\ a = Row(A, i, h) /\ b = Row(B, i, h) /\ c = Row(C, i, h) /\ d = Row(D, i, h)
          /\ e = Column(E, j, h) /\ f = Column(F, j, h) /\ g = Column(G, j, h) /\ q = Column(H, j, h)
          /\ t1 = Products(Row(A, i, h), Column(FmH, j, h), h) /\ t2 = Products(Row(ApB, i, h), Column(H, j, h), h)
          /\ t3 = Products(Row(CpD, i, h), Column(E, j, h), h) /\ t4 = Products(Row(D, i, h), Column(GmE, j, h), h)
          /\ t5 = Products(Row(ApD, i, h), Column(EpH, j, h), h)
          /\ t6 = Products(Row(BmD, i, h), Column(GpH, j, h), h)
          /\ t7 = Products(Row(AmC, i, h), Column(EpF, j, h), h)
      OBVIOUS
    <3> HIDE DEF a, b, c, d, e, f, g, q, t1, t2, t3, t4, t5, t6, t7
    <3> QED
      BY <1>5, <3>1, MixedGiveSevenLists
  <2>3. P1.matrix[<<i, j>>] = SumOf(t1, h)
    <3>1. A \in Matrix(h) /\ FmH \in Matrix(h)
      BY <1>5 DEF Mixed
    <3> QED
      BY <1>6, <3>1, EntryIs
  <2>4. P2.matrix[<<i, j>>] = SumOf(t2, h)
    <3>1. ApB \in Matrix(h) /\ H \in Matrix(h)
      BY <1>5 DEF Mixed
    <3> QED
      BY <1>6, <3>1, EntryIs
  <2>5. P3.matrix[<<i, j>>] = SumOf(t3, h)
    <3>1. CpD \in Matrix(h) /\ E \in Matrix(h)
      BY <1>5 DEF Mixed
    <3> QED
      BY <1>6, <3>1, EntryIs
  <2>6. P4.matrix[<<i, j>>] = SumOf(t4, h)
    <3>1. D \in Matrix(h) /\ GmE \in Matrix(h)
      BY <1>5 DEF Mixed
    <3> QED
      BY <1>6, <3>1, EntryIs
  <2>7. P5.matrix[<<i, j>>] = SumOf(t5, h)
    <3>1. ApD \in Matrix(h) /\ EpH \in Matrix(h)
      BY <1>5 DEF Mixed
    <3> QED
      BY <1>6, <3>1, EntryIs
  <2>8. P6.matrix[<<i, j>>] = SumOf(t6, h)
    <3>1. BmD \in Matrix(h) /\ GpH \in Matrix(h)
      BY <1>5 DEF Mixed
    <3> QED
      BY <1>6, <3>1, EntryIs
  <2>9. P7.matrix[<<i, j>>] = SumOf(t7, h)
    <3>1. AmC \in Matrix(h) /\ EpF \in Matrix(h)
      BY <1>5 DEF Mixed
    <3> QED
      BY <1>6, <3>1, EntryIs
  <2> HIDE DEF a, b, c, d, e, f, g, q, t1, t2, t3, t4, t5, t6, t7
  <2>10. /\ SumOf(t5, h) + SumOf(t4, h) + SumOf(t6, h) - SumOf(t2, h)
              = SumOf(Products(a, e, h), h) + SumOf(Products(b, g, h), h)
         /\ SumOf(t1, h) + SumOf(t2, h) = SumOf(Products(a, f, h), h) + SumOf(Products(b, q, h), h)
         /\ SumOf(t3, h) + SumOf(t4, h) = SumOf(Products(c, e, h), h) + SumOf(Products(d, g, h), h)
         /\ SumOf(t1, h) + SumOf(t5, h) - SumOf(t3, h) - SumOf(t7, h)
              = SumOf(Products(c, f, h), h) + SumOf(Products(d, q, h), h)
    BY <2>2, SevenTotals
  <2>11. /\ Q1.matrix[<<i, j>>] = P5.matrix[<<i, j>>] + P4.matrix[<<i, j>>] + P6.matrix[<<i, j>>] - P2.matrix[<<i, j>>]
         /\ Q2.matrix[<<i, j>>] = P1.matrix[<<i, j>>] + P2.matrix[<<i, j>>]
         /\ Q3.matrix[<<i, j>>] = P3.matrix[<<i, j>>] + P4.matrix[<<i, j>>]
         /\ Q4.matrix[<<i, j>>] = P1.matrix[<<i, j>>] + P5.matrix[<<i, j>>] - P3.matrix[<<i, j>>] - P7.matrix[<<i, j>>]
    BY <1>8, <1>9, <1>10, <1>11
  <2>12. /\ Q1.matrix[<<i, j>>] = SumOf(Products(a, e, h), h) + SumOf(Products(b, g, h), h)
         /\ Q2.matrix[<<i, j>>] = SumOf(Products(a, f, h), h) + SumOf(Products(b, q, h), h)
         /\ Q3.matrix[<<i, j>>] = SumOf(Products(c, e, h), h) + SumOf(Products(d, g, h), h)
         /\ Q4.matrix[<<i, j>>] = SumOf(Products(c, f, h), h) + SumOf(Products(d, q, h), h)
    BY <2>3, <2>4, <2>5, <2>6, <2>7, <2>8, <2>9, <2>10, <2>11
  <2> QED
    BY <1>12, <2>1, <2>12
<1>15. ASSUME NEW i \in 0 .. 2 * h - 1, NEW j \in 0 .. 2 * h - 1 PROVE Z.matrix[<<i, j>>] = R.matrix[<<i, j>>]
  <2>1. (i < h /\ i \in 0 .. h - 1) \/ (i - h \in 0 .. h - 1 /\ h + (i - h) = i)
    OBVIOUS
  <2>2. (j < h /\ j \in 0 .. h - 1) \/ (j - h \in 0 .. h - 1 /\ h + (j - h) = j)
    OBVIOUS
  <2>3. CASE i \in 0 .. h - 1 /\ j \in 0 .. h - 1
    BY <1>14, <2>3
  <2>4. CASE i \in 0 .. h - 1 /\ j - h \in 0 .. h - 1 /\ h + (j - h) = j
    <3>1. Z.matrix[<<i, h + (j - h)>>] = R.matrix[<<i, h + (j - h)>>]
      BY <1>14, <2>4
    <3> QED
      BY <2>4, <3>1
  <2>5. CASE i - h \in 0 .. h - 1 /\ h + (i - h) = i /\ j \in 0 .. h - 1
    <3>1. Z.matrix[<<h + (i - h), j>>] = R.matrix[<<h + (i - h), j>>]
      BY <1>14, <2>5
    <3> QED
      BY <2>5, <3>1
  <2>6. CASE i - h \in 0 .. h - 1 /\ h + (i - h) = i /\ j - h \in 0 .. h - 1 /\ h + (j - h) = j
    <3>1. Z.matrix[<<h + (i - h), h + (j - h)>>] = R.matrix[<<h + (i - h), h + (j - h)>>]
      BY <1>14, <2>6
    <3> QED
      BY <2>6, <3>1
  <2> QED
    BY <2>1, <2>2, <2>3, <2>4, <2>5, <2>6
<1>16. Z = R
  <2>1. PICK n \in Nat : n = 2 * h
    OBVIOUS
  <2>2. Z \in Matrix(n) /\ R \in Matrix(n) /\ \A i, j \in 0 .. n - 1 : Z.matrix[<<i, j>>] = R.matrix[<<i, j>>]
    BY <1>12, <1>13, <1>15, <2>1
  <2> QED
    BY <2>2, SameMatrix
<1> QED
  BY <1>1, <1>16 DEF R
\* The recursion computes the product of matrices of each of its sizes.
LEMMA RecurIsProduct ==
    \A h \in Nat : \A A, B \in Matrix(Power[h + 1]) : _do_recur_strassen[h][<<A, B>>] = do_standard_multiplication(A, B)
<1> DEFINE Pairs(h) == Matrix(Power[h + 1]) \X Matrix(Power[h + 1])
           Step(f, h, pair) == IF h = 0 THEN _do_actual_strassen(pair[1], pair[2])
                               ELSE Seven(pair[1], pair[2], f[h - 1])
           Fix(f) == f = [h \in Nat |-> [pair \in Pairs(h) |-> Step(f, h, pair)]]
           g == [h \in Nat |-> [pair \in Pairs(h) |-> do_standard_multiplication(pair[1], pair[2])]]
           recur == CHOOSE f : Fix(f)
<1>1. _do_recur_strassen = recur
  BY DEF _do_recur_strassen
<1>2. \A h \in Nat : \A A, B \in Matrix(Power[h + 1]) : g[h][<<A, B>>] = do_standard_multiplication(A, B)
  OBVIOUS
<1>3. Power[0 + 1] = 2
  <2>1. 0 \in Nat /\ Power[0] = 1
    BY PowerIs
  <2>2. Power[0 + 1] = 2 * Power[0]
    BY <2>1, PowerIs
  <2> QED
    BY <2>1, <2>2
<1>4. ASSUME NEW f, NEW h \in Nat, NEW A \in Matrix(Power[h + 1]), NEW B \in Matrix(Power[h + 1]),
             h # 0 => \A C, D \in Matrix(Power[(h - 1) + 1]) : f[h - 1][<<C, D>>] = do_standard_multiplication(C, D)
      PROVE  Step(f, h, <<A, B>>) = do_standard_multiplication(A, B)
  <2>1. CASE h = 0
    <3>1. A \in Matrix(2) /\ B \in Matrix(2)
      BY <1>3, <2>1
    <3> QED
      BY <2>1, <3>1, ActualIsProduct
  <2>2. CASE h # 0
    <3>1. h - 1 \in Nat /\ (h - 1) + 1 = h
      BY <2>2
    <3>2. PICK n \in Nat : n = Power[h]
      BY PowerIs
    <3>3. A \in Matrix(2 * n) /\ B \in Matrix(2 * n)
      <4>1. Power[h + 1] = 2 * n
        BY <3>2, PowerIs
      <4> QED
        BY <4>1
    <3>4. PICK product : product = f[h - 1]
      OBVIOUS
    <3>5. \A C, D \in Matrix(n) : product[<<C, D>>] = do_standard_multiplication(C, D)
      BY <1>4, <2>2, <3>1, <3>2, <3>4
    <3>6. Seven(A, B, product) = do_standard_multiplication(A, B)
      BY <3>3, <3>5, SevenIsProduct
    <3> QED
      BY <2>2, <3>4, <3>6
  <2> QED
    BY <2>1, <2>2
<1>5. Fix(g)
  <2>1. ASSUME NEW h \in Nat, NEW pair \in Pairs(h)
        PROVE  do_standard_multiplication(pair[1], pair[2]) = Step(g, h, pair)
    <3>1. PICK A \in Matrix(Power[h + 1]), B \in Matrix(Power[h + 1]) : pair = <<A, B>>
      OBVIOUS
    <3>2. h # 0 => \A C, D \in Matrix(Power[(h - 1) + 1]) : g[h - 1][<<C, D>>] = do_standard_multiplication(C, D)
      <4>1. h # 0 => h - 1 \in Nat
        OBVIOUS
      <4> HIDE DEF g
      <4> QED
        BY <1>2, <4>1
    <3> HIDE DEF g, Step
    <3>3. Step(g, h, <<A, B>>) = do_standard_multiplication(A, B)
      BY <1>4, <3>2
    <3> QED
      BY <3>1, <3>3
  <2> HIDE DEF Step, Pairs
  <2>2. ASSUME NEW h \in Nat
        PROVE  [pair \in Pairs(h) |-> do_standard_multiplication(pair[1], pair[2])]
                 = [pair \in Pairs(h) |-> Step(g, h, pair)]
    BY <2>1
  <2>3. [h \in Nat |-> [pair \in Pairs(h) |-> do_standard_multiplication(pair[1], pair[2])]]
          = [h \in Nat |-> [pair \in Pairs(h) |-> Step(g, h, pair)]]
    <3> HIDE DEF g
    <3> QED
      BY <2>2
  <2> QED
    BY <2>3
<1>6. Fix(recur)
  <2> HIDE DEF Fix, g
  <2> QED
    BY <1>5
<1> HIDE DEF recur, g
<1>7. \A h \in Nat : \A A, B \in Matrix(Power[h + 1]) : recur[h][<<A, B>>] = Step(recur, h, <<A, B>>)
  <2>1. \A h \in Nat : \A pair \in Pairs(h) : recur[h][pair] = Step(recur, h, pair)
    <3> HIDE DEF Step, Pairs
    <3> QED
      BY <1>6
  <2> HIDE DEF Step
  <2> QED
    BY <2>1
<1> HIDE DEF Fix, Step
<1>8. ASSUME NEW n \in Nat
      PROVE  \A A, B \in Matrix(Power[n + 1]) : recur[n][<<A, B>>] = do_standard_multiplication(A, B)
  <2> DEFINE Right(h) == \A A, B \in Matrix(Power[h + 1]) : recur[h][<<A, B>>] = do_standard_multiplication(A, B)
             S == {h \in 0 .. n : Right(h)}
  <2>1. ASSUME NEW h \in Nat, h # 0 => Right(h - 1) PROVE Right(h)
    <3>1. ASSUME NEW A \in Matrix(Power[h + 1]), NEW B \in Matrix(Power[h + 1])
          PROVE  recur[h][<<A, B>>] = do_standard_multiplication(A, B)
      <4>1. Step(recur, h, <<A, B>>) = do_standard_multiplication(A, B)
        BY <1>4, <2>1
      <4> QED
        BY <1>7, <4>1
    <3> QED
      BY <3>1
  <2> HIDE DEF Right
  <2>2. 0 \in S
    BY <2>1
  <2>3. ASSUME NEW h \in 0 .. n - 1, h \in S PROVE h + 1 \in S
    <3>1. h + 1 \in Nat /\ h + 1 \in 0 .. n /\ (h + 1) - 1 = h
      OBVIOUS
    <3>2. Right(h)
      BY <2>3
    <3> QED
      BY <2>1, <3>1, <3>2
  <2>4. 0 .. n \subseteq S
    <3> HIDE DEF S
    <3> QED
      BY <2>2, <2>3, CountUp
  <2>5. Right(n)
    BY <2>4
  <2> QED
    BY <2>5 DEF Right
<1> QED
  BY <1>1, <1>8

\* A power of two exceeds its exponent.
LEMMA PowersGrow == \A n \in Nat : n < Power[n]
<1> SUFFICES ASSUME NEW n \in Nat PROVE n < Power[n]
  OBVIOUS
<1> DEFINE S == {k \in 0 .. n : k < Power[k]}
<1>1. 0 \in S
  BY PowerIs
<1>2. ASSUME NEW k \in 0 .. n - 1, k \in S PROVE k + 1 \in S
  <2>1. k \in Nat /\ k + 1 \in 0 .. n /\ k < Power[k]
    BY <1>2
  <2>2. Power[k] \in Nat /\ Power[k + 1] = 2 * Power[k]
    BY <2>1, PowerIs
  <2>3. k + 1 < Power[k + 1]
    BY <2>1, <2>2
  <2> QED
    BY <2>1, <2>3
<1>3. 0 .. n \subseteq S
  <2> HIDE DEF S
  <2> QED
    BY <1>1, <1>2, CountUp
<1> QED
  BY <1>3

\* Zeros added below and to the right, and cut off again, do not matter.
LEMMA ExtendIs ==
    ASSUME NEW n \in Nat, NEW N \in Nat, NEW A \in Matrix(n)
    PROVE  /\ _extend_matrix(A, N) \in Matrix(N)
           /\ \A i, j \in 0 .. N - 1 :
                 _extend_matrix(A, N).matrix[<<i, j>>] = IF i < n /\ j < n THEN A.matrix[<<i, j>>] ELSE 0
<1> DEFINE m == [ij \in Square(N) |-> IF ij \in Square(n) THEN A.matrix[ij] ELSE 0]
<1>1. _extend_matrix(A, N) = [size |-> N, matrix |-> m]
  BY MatrixIs DEF _extend_matrix
<1>2. ASSUME NEW i \in 0 .. N - 1, NEW j \in 0 .. N - 1
      PROVE  m[<<i, j>>] = IF i < n /\ j < n THEN A.matrix[<<i, j>>] ELSE 0
  <2>1. <<i, j>> \in Square(N)
    BY DEF Square
  <2>2. m[<<i, j>>] = IF <<i, j>> \in Square(n) THEN A.matrix[<<i, j>>] ELSE 0
    BY <2>1
  <2>3. <<i, j>> \in Square(n) <=> i \in 0 .. n - 1 /\ j \in 0 .. n - 1
    BY DEF Square
  <2>4. (i \in 0 .. n - 1 <=> i < n) /\ (j \in 0 .. n - 1 <=> j < n)
    OBVIOUS
  <2> HIDE DEF m
  <2> QED
    BY <2>2, <2>3, <2>4
<1>3. DOMAIN m = Square(N) /\ m = [ij \in Square(N) |-> m[ij]]
  OBVIOUS
<1> HIDE DEF m
<1>4. ASSUME NEW i \in 0 .. N - 1, NEW j \in 0 .. N - 1 PROVE m[<<i, j>>] \in Int
  <2>1. CASE i < n /\ j < n
    <3>1. i \in 0 .. n - 1 /\ j \in 0 .. n - 1
      BY <2>1
    <3>2. A.matrix[<<i, j>>] \in Int
      BY <3>1, MatrixIs
    <3> QED
      BY <1>2, <2>1, <3>2
  <2>2. CASE ~(i < n /\ j < n)
    <3>1. m[<<i, j>>] = 0
      BY <1>2, <2>2
    <3> QED
      BY <3>1
  <2> QED
    BY <2>1, <2>2
<1>5. [size |-> N, matrix |-> m] \in Matrix(N)
  BY <1>3, <1>4, MatrixOf
<1>6. [size |-> N, matrix |-> m].matrix = m
  OBVIOUS
<1> QED
  BY <1>1, <1>2, <1>5, <1>6

\* The product of two extended matrices is the extended product.
LEMMA ExtendedProduct ==
    ASSUME NEW n \in Nat, NEW N \in Nat, n <= N, NEW A \in Matrix(n), NEW B \in Matrix(n)
    PROVE  _extend_matrix(do_standard_multiplication(_extend_matrix(A, N), _extend_matrix(B, N)), n)
             = do_standard_multiplication(A, B)
<1> DEFINE C == _extend_matrix(A, N)
           D == _extend_matrix(B, N)
           P == do_standard_multiplication(C, D)
           Q == _extend_matrix(P, n)
           R == do_standard_multiplication(A, B)
<1>1. /\ C \in Matrix(N)
      /\ \A i, j \in 0 .. N - 1 : C.matrix[<<i, j>>] = IF i < n /\ j < n THEN A.matrix[<<i, j>>] ELSE 0
  BY ExtendIs
<1>2. /\ D \in Matrix(N)
      /\ \A i, j \in 0 .. N - 1 : D.matrix[<<i, j>>] = IF i < n /\ j < n THEN B.matrix[<<i, j>>] ELSE 0
  BY ExtendIs
<1> HIDE DEF C, D
<1>3. /\ P \in Matrix(N)
      /\ \A i, j \in 0 .. N - 1 :
            /\ P.matrix[<<i, j>>] = Sums(Terms(C, D, i, j), N)[N]
            /\ Numbers(Terms(C, D, i, j), N)
            /\ \A k \in 0 .. N - 1 : Terms(C, D, i, j)[k] = C.matrix[<<i, k>>] * D.matrix[<<k, j>>]
  BY <1>1, <1>2, ProductIs
<1>4. /\ R \in Matrix(n)
      /\ \A i, j \in 0 .. n - 1 :
            /\ R.matrix[<<i, j>>] = Sums(Terms(A, B, i, j), n)[n]
            /\ Numbers(Terms(A, B, i, j), n)
            /\ \A k \in 0 .. n - 1 : Terms(A, B, i, j)[k] = A.matrix[<<i, k>>] * B.matrix[<<k, j>>]
  BY ProductIs
<1> HIDE DEF P, R
<1>5. /\ Q \in Matrix(n)
      /\ \A i, j \in 0 .. n - 1 : Q.matrix[<<i, j>>] = IF i < N /\ j < N THEN P.matrix[<<i, j>>] ELSE 0
  BY <1>3, ExtendIs
<1> HIDE DEF Q
<1>6. ASSUME NEW i \in 0 .. n - 1, NEW j \in 0 .. n - 1 PROVE Q.matrix[<<i, j>>] = R.matrix[<<i, j>>]
  <2> DEFINE t == Terms(C, D, i, j)
             u == Terms(A, B, i, j)
  <2>1. i \in 0 .. N - 1 /\ j \in 0 .. N - 1 /\ i < N /\ j < N /\ i < n /\ j < n
    OBVIOUS
  <2>2. /\ P.matrix[<<i, j>>] = Sums(t, N)[N] /\ Numbers(t, N)
        /\ \A k \in 0 .. N - 1 : t[k] = C.matrix[<<i, k>>] * D.matrix[<<k, j>>]
    BY <1>3, <2>1
  <2>3. /\ R.matrix[<<i, j>>] = Sums(u, n)[n] /\ Numbers(u, n)
        /\ \A k \in 0 .. n - 1 : u[k] = A.matrix[<<i, k>>] * B.matrix[<<k, j>>]
    BY <1>4
  <2> HIDE DEF t, u
  <2>4. ASSUME NEW k \in 0 .. n - 1 PROVE t[k] = u[k]
    <3>1. k \in 0 .. N - 1 /\ k < n
      OBVIOUS
    <3>2. C.matrix[<<i, k>>] = A.matrix[<<i, k>>] /\ D.matrix[<<k, j>>] = B.matrix[<<k, j>>]
      BY <1>1, <1>2, <2>1, <3>1
    <3>3. t[k] = C.matrix[<<i, k>>] * D.matrix[<<k, j>>] /\ u[k] = A.matrix[<<i, k>>] * B.matrix[<<k, j>>]
      BY <2>2, <2>3, <3>1
    <3> QED
      BY <3>2, <3>3
  <2>5. ASSUME NEW k \in n .. N - 1 PROVE t[k] = 0
    <3>1. k \in 0 .. N - 1 /\ ~(k < n)
      OBVIOUS
    <3>2. C.matrix[<<i, k>>] = 0 /\ D.matrix[<<k, j>>] = 0
      BY <1>1, <1>2, <2>1, <3>1
    <3>3. t[k] = C.matrix[<<i, k>>] * D.matrix[<<k, j>>]
      BY <2>2, <3>1
    <3> QED
      BY <3>2, <3>3
  <2>6. Sums(t, N)[N] = Sums(u, n)[n]
    BY <2>2, <2>3, <2>4, <2>5, SumsWithZeros
  <2> QED
    BY <1>5, <2>1, <2>2, <2>3, <2>6
<1>7. Q = R
  BY <1>4, <1>5, <1>6, SameMatrix
<1> QED
  BY <1>7 DEF Q, R, P, C, D

\* With any size.
LEMMA StrassenIsProduct ==
    ASSUME NEW n \in Nat, NEW A \in Matrix(n), NEW B \in Matrix(n)
    PROVE  do_strassen_multiplication(A, B) = do_standard_multiplication(A, B)
<1> DEFINE Halvings == {k \in 0 .. n : n <= Power[k + 1]}
           h == Min(Halvings)
           N == Power[h + 1]
           C == _extend_matrix(A, N)
           D == _extend_matrix(B, N)
<1>1. A.size = n
  BY MatrixIs
<1>2. h \in Nat /\ n <= N
  <2>1. n \in Halvings
    <3>1. n \in Nat /\ n + 1 \in Nat /\ n \in 0 .. n
      OBVIOUS
    <3>2. n + 1 < Power[n + 1] /\ Power[n + 1] \in Nat
      BY <3>1, PowersGrow, PowerIs
    <3>3. n <= Power[n + 1]
      BY <3>2
    <3> QED
      BY <3>1, <3>3
  <2>2. Halvings \in SUBSET Nat
    <3>1. \A k \in Halvings : k \in Nat
      OBVIOUS
    <3> HIDE DEF Halvings
    <3> QED
      BY <3>1
  <2> HIDE DEF Halvings
  <2>3. h \in Halvings
    BY <2>1, <2>2, LeastIsMember
  <2> QED
    BY <2>3 DEF Halvings
<1>3. do_strassen_multiplication(A, B)
        = IF n = N THEN _do_recur_strassen[h][<<A, B>>]
          ELSE _extend_matrix(_do_recur_strassen[h][<<C, D>>], n)
  BY <1>1 DEF do_strassen_multiplication
<1> HIDE DEF h
<1>4. N \in Nat
  <2>1. h + 1 \in Nat
    BY <1>2
  <2> QED
    BY <2>1, PowerIs
<1>5. CASE n = N
  <2>1. A \in Matrix(Power[h + 1]) /\ B \in Matrix(Power[h + 1])
    BY <1>5
  <2>2. _do_recur_strassen[h][<<A, B>>] = do_standard_multiplication(A, B)
    BY <1>2, <2>1, RecurIsProduct
  <2> QED
    BY <1>3, <1>5, <2>2
<1>6. CASE n # N
  <2>1. C \in Matrix(Power[h + 1]) /\ D \in Matrix(Power[h + 1])
    <3> HIDE DEF N
    <3>1. C \in Matrix(N) /\ D \in Matrix(N)
      BY <1>4, ExtendIs
    <3> QED
      BY <3>1 DEF N
  <2> HIDE DEF C, D
  <2>2. _do_recur_strassen[h][<<C, D>>] = do_standard_multiplication(C, D)
    BY <1>2, <2>1, RecurIsProduct
  <2> HIDE DEF N
  <2>3. _extend_matrix(do_standard_multiplication(C, D), n) = do_standard_multiplication(A, B)
    BY <1>2, <1>4, ExtendedProduct DEF C, D
  <2> QED
    BY <1>3, <1>6, <2>2, <2>3
<1> QED
  BY <1>5, <1>6

\* In strassen.c, the recursion with its splits, its signs and its padding computes
\* the product that the definition does, for matrices of every size.
THEOREM StrassenIsRight == StrassenSpec => []ProductsAgree
<1>1. StrassenInit => ProductsAgree
  BY DEF StrassenInit, ProductsAgree
<1>2. ProductsAgree /\ [StrassenNext]_strassenVars => ProductsAgree'
  <2> SUFFICES ASSUME ProductsAgree, [StrassenNext]_strassenVars PROVE ProductsAgree'
    OBVIOUS
  <2>1. CASE StrassenNext
    <3>1. PICK pair \in Factors : Multiply(pair[1], pair[2])
      BY <2>1 DEF StrassenNext
    <3> DEFINE n == pair[1].size
    <3>2. n \in Nat /\ pair \in Matrix(n) \X Matrix(n)
      BY FactorsAssumption
    <3> HIDE DEF n
    <3>3. pair[1] \in Matrix(n) /\ pair[2] \in Matrix(n)
      BY <3>2
    <3>4. do_strassen_multiplication(pair[1], pair[2]) = do_standard_multiplication(pair[1], pair[2])
      BY <3>2, <3>3, StrassenIsProduct
    <3> QED
      BY <3>1, <3>4 DEF Multiply, ProductsAgree
  <2>2. CASE UNCHANGED strassenVars
    BY <2>2 DEF strassenVars, ProductsAgree
  <2> QED
    BY <2>1, <2>2
<1> QED
  BY <1>1, <1>2, PTL DEF StrassenSpec

-----------------------------------------------------------------------------
\* Tromino.

\* pow(2, k) doubles with k.
LEMMA SideIs ==
    /\ \A k \in Nat : Side[k] \in Nat \ {0}
    /\ Side[0] = 1
    /\ \A k \in Nat : Side[k + 1] = 2 * Side[k]
<1>1. Side = Doubled
  BY DEF Side, Doubled
<1> QED
  BY <1>1, DoubledIs

\* A tile: three of the four cells of a square of two by two, within P.
IsTile(T, P) == \E x \in Places : \E d \in Part(x, 2) : Part(x, 2) \subseteq P /\ T = Part(x, 2) \ {d}

\* The cells of S that have the number of c.
Alike(r, S, c) == {e \in S : r.tiles[e] = r.tiles[c]}

\* From b to r, the part P is covered but for the cell a: with new numbers, each of
\* one tile.
Piece(cells, b, r, P, a) ==
    /\ b.insert_count < r.insert_count
    /\ \A c \in cells \ P : r.tiles[c] = b.tiles[c]
    /\ \A c \in P \ {a} : r.tiles[c] \in (b.insert_count + 1) .. r.insert_count
    /\ \A c \in P \ {a} : IsTile(Alike(r, P \ {a}, c), P)

Covered(cells, b, r, P, a) == r \in Tilings(cells) /\ Piece(cells, b, r, P, a) /\ r.tiles[a] = b.tiles[a]

\* Four parts that are covered one after the other, each but for a cell; those
\* cells, but the hole of the part, are a tile of the number that the first board has.
Four(cells, P, at, Q, a, bs, k) ==
    /\ at \in P /\ P \subseteq cells /\ k \in 1 .. 4
    /\ \A q \in 1 .. 4 : Q[q] \subseteq P /\ a[q] \in Q[q]
    /\ \A c \in P : \E q \in 1 .. 4 : c \in Q[q]
    /\ \A p, q \in 1 .. 4 : p # q => Q[p] \cap Q[q] = {}
    /\ \A q \in 0 .. 4 : bs[q] \in Tilings(cells)
    /\ \A q \in 1 .. 4 : Piece(cells, bs[q - 1], bs[q], Q[q], a[q])
    /\ a[k] = at /\ bs[k].tiles[at] = bs[k - 1].tiles[at]
    /\ \A q \in (1 .. 4) \ {k} : bs[q].tiles[a[q]] = bs[0].insert_count
    /\ IsTile({a[q] : q \in (1 .. 4) \ {k}}, P)

\* Then the whole is covered: the new tile is an L at the middle, and the
\* numbers of the parts are apart.
LEMMA FourCover ==
    ASSUME NEW cells, NEW P, NEW at, NEW Q, NEW a, NEW bs, NEW k, Four(cells, P, at, Q, a, bs, k),
           NEW b, b.insert_count \in Nat, bs[0].insert_count = b.insert_count + 1, bs[0].tiles = b.tiles
    PROVE  Covered(cells, b, bs[4], P, at)
<1> DEFINE n == [q \in 0 .. 4 |-> bs[q].insert_count]
           r == bs[4].tiles
<1>1. \A q \in 0 .. 4 : bs[q] \in Tilings(cells) /\ n[q] = bs[q].insert_count /\ n[q] \in Nat
  BY DEF Four, Tilings
<1>2. n[0] < n[1] /\ n[1] < n[2] /\ n[2] < n[3] /\ n[3] < n[4]
  <2>1. \A q \in 1 .. 4 : bs[q - 1].insert_count < bs[q].insert_count
    BY DEF Four, Piece
  <2>2. \A q \in 1 .. 4 : q \in 0 .. 4 /\ q - 1 \in 0 .. 4
    OBVIOUS
  <2> HIDE DEF n
  <2>3. \A q \in 1 .. 4 : n[q - 1] < n[q]
    BY <1>1, <2>1, <2>2
  <2>4. /\ 1 \in 1 .. 4 /\ 2 \in 1 .. 4 /\ 3 \in 1 .. 4 /\ 4 \in 1 .. 4
        /\ 1 - 1 = 0 /\ 2 - 1 = 1 /\ 3 - 1 = 2 /\ 4 - 1 = 3
    OBVIOUS
  <2> QED
    BY <2>3, <2>4
<1> HIDE DEF n
<1>3. \A p, q \in 0 .. 4 : p <= q => n[p] <= n[q]
  <2>1. ASSUME NEW p \in 0 .. 4, NEW q \in 0 .. 4, p <= q PROVE n[p] <= n[q]
    <3>1. /\ p = 0 \/ p = 1 \/ p = 2 \/ p = 3 \/ p = 4
          /\ q = 0 \/ q = 1 \/ q = 2 \/ q = 3 \/ q = 4
      OBVIOUS
    <3>2. n[0] \in Nat /\ n[1] \in Nat /\ n[2] \in Nat /\ n[3] \in Nat /\ n[4] \in Nat
      BY <1>1
    <3> QED
      BY <1>2, <2>1, <3>1, <3>2
  <2> QED
    BY <2>1
<1>4. ASSUME NEW c \in cells, NEW q \in 1 .. 4, c \notin Q[q] PROVE bs[q].tiles[c] = bs[q - 1].tiles[c]
  BY <1>4 DEF Four, Piece
\* A cell keeps what it has once its own part is covered, and before that too.
<1>5. ASSUME NEW q \in 1 .. 4, NEW c \in Q[q]
      PROVE  r[c] = bs[q].tiles[c] /\ bs[q - 1].tiles[c] = bs[0].tiles[c]
  <2>1. c \in cells /\ \A p \in 1 .. 4 : p # q => c \notin Q[p]
    BY DEF Four
  <2>2. \A p \in 1 .. 4 : p # q => bs[p].tiles[c] = bs[p - 1].tiles[c]
    BY <1>4, <2>1
  <2>3. /\ q # 1 => bs[1].tiles[c] = bs[0].tiles[c]
        /\ q # 2 => bs[2].tiles[c] = bs[1].tiles[c]
        /\ q # 3 => bs[3].tiles[c] = bs[2].tiles[c]
        /\ q # 4 => bs[4].tiles[c] = bs[3].tiles[c]
    <3>1. /\ 1 \in 1 .. 4 /\ 2 \in 1 .. 4 /\ 3 \in 1 .. 4 /\ 4 \in 1 .. 4
          /\ 1 - 1 = 0 /\ 2 - 1 = 1 /\ 3 - 1 = 2 /\ 4 - 1 = 3
      OBVIOUS
    <3> QED
      BY <2>2, <3>1
  <2>4. (q = 1 /\ q - 1 = 0) \/ (q = 2 /\ q - 1 = 1) \/ (q = 3 /\ q - 1 = 2) \/ (q = 4 /\ q - 1 = 3)
    OBVIOUS
  <2> QED
    BY <2>3, <2>4
<1>6. ASSUME NEW c \in cells, c \notin P PROVE r[c] = bs[0].tiles[c]
  <2>1. \A p \in 1 .. 4 : c \notin Q[p]
    BY <1>6 DEF Four
  <2>2. \A p \in 1 .. 4 : bs[p].tiles[c] = bs[p - 1].tiles[c]
    BY <1>4, <2>1
  <2>3. /\ 1 \in 1 .. 4 /\ 2 \in 1 .. 4 /\ 3 \in 1 .. 4 /\ 4 \in 1 .. 4
        /\ 1 - 1 = 0 /\ 2 - 1 = 1 /\ 3 - 1 = 2 /\ 4 - 1 = 3
    OBVIOUS
  <2> QED
    BY <2>2, <2>3
<1>7. r[at] = bs[0].tiles[at]
  <2>1. k \in 1 .. 4 /\ at \in Q[k] /\ bs[k].tiles[at] = bs[k - 1].tiles[at]
    BY DEF Four
  <2> QED
    BY <1>5, <2>1
\* The numbers of a part lie between those of the boards before and after it.
<1>8. ASSUME NEW q \in 1 .. 4, NEW c \in Q[q] \ {a[q]}
      PROVE  r[c] \in Int /\ n[q - 1] < r[c] /\ r[c] <= n[q]
  <2>1. q \in 0 .. 4 /\ q - 1 \in 0 .. 4 /\ n[q] \in Nat /\ n[q - 1] \in Nat
    BY <1>1
  <2>2. bs[q].tiles[c] \in (bs[q - 1].insert_count + 1) .. bs[q].insert_count
    BY DEF Four, Piece
  <2>3. bs[q].tiles[c] \in (n[q - 1] + 1) .. n[q]
    BY <1>1, <2>1, <2>2
  <2>4. r[c] = bs[q].tiles[c]
    BY <1>5
  <2> HIDE DEF r
  <2> QED
    BY <2>1, <2>3, <2>4
<1>9. ASSUME NEW q \in 1 .. 4, q # k PROVE r[a[q]] = n[0]
  <2>1. a[q] \in Q[q] /\ bs[q].tiles[a[q]] = bs[0].insert_count
    BY <1>9 DEF Four
  <2> QED
    BY <1>1, <1>5, <2>1
<1>10. ASSUME NEW c \in P \ {at}
       PROVE  \E q \in 1 .. 4 : c \in Q[q] /\ (c # a[q] \/ q # k)
  BY DEF Four
<1> HIDE DEF r
<1>11. ASSUME NEW c \in P \ {at} PROVE r[c] \in n[0] .. n[4]
  <2>1. PICK q \in 1 .. 4 : c \in Q[q] /\ (c # a[q] \/ q # k)
    BY <1>10
  <2>2. /\ q \in 0 .. 4 /\ q - 1 \in 0 .. 4 /\ 0 \in 0 .. 4 /\ 4 \in 0 .. 4 /\ 0 <= q - 1 /\ q <= 4
        /\ n[0] \in Nat /\ n[4] \in Nat /\ n[q] \in Nat /\ n[q - 1] \in Nat
    BY <1>1
  <2>3. n[0] <= n[q - 1] /\ n[q] <= n[4] /\ n[0] <= n[4]
    BY <1>3, <2>2
  <2>4. CASE c # a[q]
    <3>1. r[c] \in Int /\ n[q - 1] < r[c] /\ r[c] <= n[q]
      BY <1>8, <2>1, <2>4
    <3> QED
      BY <2>2, <2>3, <3>1
  <2>5. CASE c = a[q]
    <3>1. r[c] = n[0]
      BY <1>9, <2>1, <2>5
    <3> QED
      BY <2>2, <2>3, <3>1
  <2> QED
    BY <2>4, <2>5
\* No two parts share a number but the one of the four cells.
<1>12. ASSUME NEW p \in 1 .. 4, NEW q \in 1 .. 4, NEW c \in Q[q] \ {a[q]}, NEW e \in Q[p] \ {at}, r[e] = r[c]
       PROVE  p = q /\ e # a[q]
  <2>1. /\ q \in 0 .. 4 /\ q - 1 \in 0 .. 4 /\ p \in 0 .. 4 /\ p - 1 \in 0 .. 4 /\ 0 \in 0 .. 4 /\ 0 <= q - 1
        /\ n[0] \in Nat /\ n[p] \in Nat /\ n[p - 1] \in Nat /\ n[q] \in Nat /\ n[q - 1] \in Nat
    BY <1>1
  <2>2. r[c] \in Int /\ n[q - 1] < r[c] /\ r[c] <= n[q]
    BY <1>8
  <2>3. e # a[p]
    <3> SUFFICES ASSUME e = a[p] PROVE FALSE
      OBVIOUS
    <3>1. p # k
      BY DEF Four
    <3>2. r[e] = n[0]
      BY <1>9, <3>1
    <3>3. n[0] <= n[q - 1]
      BY <1>3, <2>1
    <3> QED
      BY <1>12, <2>1, <2>2, <3>2, <3>3
  <2>4. r[e] \in Int /\ n[p - 1] < r[e] /\ r[e] <= n[p]
    BY <1>8, <2>3
  <2>5. ~(p < q)
    <3> SUFFICES ASSUME p < q PROVE FALSE
      OBVIOUS
    <3>1. n[p] <= n[q - 1]
      <4>1. p <= q - 1
        OBVIOUS
      <4> QED
        BY <1>3, <2>1, <4>1
    <3> QED
      BY <1>12, <2>1, <2>2, <2>4, <3>1
  <2>6. ~(q < p)
    <3> SUFFICES ASSUME q < p PROVE FALSE
      OBVIOUS
    <3>1. n[q] <= n[p - 1]
      <4>1. q <= p - 1
        OBVIOUS
      <4> QED
        BY <1>3, <2>1, <4>1
    <3> QED
      BY <1>12, <2>1, <2>2, <2>4, <3>1
  <2>7. p = q
    BY <2>5, <2>6
  <2> QED
    BY <2>3, <2>7
<1>13. ASSUME NEW c \in P \ {at} PROVE IsTile(Alike(bs[4], P \ {at}, c), P)
  <2>1. PICK q \in 1 .. 4 : c \in Q[q] /\ (c # a[q] \/ q # k)
    BY <1>10
  <2>2. Alike(bs[4], P \ {at}, c) = {e \in P \ {at} : r[e] = r[c]}
    BY DEF Alike, r
  <2>3. CASE c # a[q]
    <3>1. IsTile(Alike(bs[q], Q[q] \ {a[q]}, c), Q[q])
      BY <2>1, <2>3 DEF Four, Piece
    <3>2. ASSUME NEW e \in P \ {at}, r[e] = r[c] PROVE e \in Q[q] \ {a[q]} /\ bs[q].tiles[e] = bs[q].tiles[c]
      <4>1. PICK p \in 1 .. 4 : e \in Q[p]
        BY DEF Four
      <4>2. p = q /\ e # a[q]
        BY <1>12, <2>1, <2>3, <3>2, <4>1
      <4>3. r[e] = bs[q].tiles[e] /\ r[c] = bs[q].tiles[c]
        BY <1>5, <2>1, <4>1, <4>2 DEF r
      <4> QED
        BY <3>2, <4>1, <4>2, <4>3
    <3>3. ASSUME NEW e \in Q[q] \ {a[q]}, bs[q].tiles[e] = bs[q].tiles[c] PROVE e \in P \ {at} /\ r[e] = r[c]
      <4>1. e \in P
        BY DEF Four
      <4>2. e # at
        <5> SUFFICES ASSUME e = at PROVE FALSE
          OBVIOUS
        <5>1. k \in 1 .. 4 /\ at \in Q[k] /\ a[k] = at
          BY DEF Four
        <5>2. q = k
          BY <5>1 DEF Four
        <5> QED
          BY <5>1, <5>2
      <4>3. r[e] = bs[q].tiles[e] /\ r[c] = bs[q].tiles[c]
        BY <1>5, <2>1 DEF r
      <4> QED
        BY <3>3, <4>1, <4>2, <4>3
    <3>4. {e \in P \ {at} : r[e] = r[c]} = Alike(bs[q], Q[q] \ {a[q]}, c)
      BY <3>2, <3>3 DEF Alike
    <3>5. Q[q] \subseteq P
      BY DEF Four
    <3> QED
      BY <2>2, <3>1, <3>4, <3>5 DEF IsTile
  <2>4. CASE c = a[q]
    <3>0. q # k
      BY <2>1, <2>4
    <3>1. r[c] = n[0]
      BY <1>9, <2>4, <3>0
    <3>2. ASSUME NEW e \in P \ {at}, r[e] = r[c] PROVE \E p \in (1 .. 4) \ {k} : e = a[p]
      <4>1. PICK p \in 1 .. 4 : e \in Q[p] /\ (e # a[p] \/ p # k)
        BY <1>10
      <4>2. e = a[p]
        <5> SUFFICES ASSUME e # a[p] PROVE FALSE
          OBVIOUS
        <5>1. r[e] \in Int /\ n[p - 1] < r[e]
          BY <1>8, <4>1
        <5>2. p - 1 \in 0 .. 4 /\ 0 \in 0 .. 4 /\ 0 <= p - 1 /\ n[0] \in Nat /\ n[p - 1] \in Nat
          BY <1>1
        <5>3. n[0] <= n[p - 1]
          BY <1>3, <5>2
        <5> QED
          BY <3>1, <3>2, <5>1, <5>2, <5>3
      <4> QED
        BY <4>1, <4>2
    <3>3. ASSUME NEW p \in (1 .. 4) \ {k} PROVE a[p] \in P \ {at} /\ r[a[p]] = r[c]
      <4>1. a[p] \in P /\ a[p] \in Q[p]
        BY DEF Four
      <4>2. at \in Q[k] /\ k \in 1 .. 4
        BY DEF Four
      <4>3. a[p] # at
        BY <4>1, <4>2 DEF Four
      <4> QED
        BY <1>9, <3>1, <4>1, <4>3
    <3>4. {e \in P \ {at} : r[e] = r[c]} = {a[p] : p \in (1 .. 4) \ {k}}
      BY <3>2, <3>3
    <3> QED
      BY <2>2, <3>4 DEF Four
  <2> QED
    BY <2>3, <2>4
<1>14. bs[4] \in Tilings(cells) /\ b.insert_count < n[4] /\ n[0] = b.insert_count + 1 /\ n[4] = bs[4].insert_count
  <2>1. 0 \in 0 .. 4 /\ 4 \in 0 .. 4 /\ 0 <= 4
    OBVIOUS
  <2>2. n[0] <= n[4] /\ n[0] = bs[0].insert_count /\ n[4] = bs[4].insert_count /\ n[4] \in Nat /\ bs[4] \in Tilings(cells)
    BY <1>1, <1>3, <2>1
  <2> QED
    BY <2>2
<1>15. Piece(cells, b, bs[4], P, at)
  <2>1. \A c \in cells \ P : bs[4].tiles[c] = b.tiles[c]
    BY <1>6 DEF r
  <2>2. \A c \in P \ {at} : bs[4].tiles[c] \in (b.insert_count + 1) .. bs[4].insert_count
    BY <1>11, <1>14 DEF r
  <2> QED
    BY <1>13, <1>14, <2>1, <2>2 DEF Piece
<1> QED
  BY <1>7, <1>14, <1>15 DEF Covered, r

\* A part by its bounds.
LEMMA PartIs ==
    ASSUME NEW s \in Places, NEW n \in Nat, NEW c
    PROVE  /\ Part(s, n) \subseteq Places
           /\ c \in Places => (c \in Part(s, n) <=> /\ s[1] <= c[1] /\ c[1] < s[1] + n
                                                   /\ s[2] <= c[2] /\ c[2] < s[2] + n)
<1>1. s[1] \in Int /\ s[2] \in Int
  BY DEF Places
<1>2. ASSUME NEW d \in Part(s, n) PROVE d \in Places
  <2>1. d \in Int \X Int
    BY <1>1, <1>2 DEF Part
  <2> QED
    BY <2>1 DEF Places
<1>3. ASSUME c \in Places
      PROVE  c \in Part(s, n) <=> s[1] <= c[1] /\ c[1] < s[1] + n /\ s[2] <= c[2] /\ c[2] < s[2] + n
  <2>1. c = <<c[1], c[2]>> /\ c[1] \in Int /\ c[2] \in Int
    BY <1>3 DEF Places
  <2>2. c \in Part(s, n) <=> c[1] \in s[1] .. (s[1] + n - 1) /\ c[2] \in s[2] .. (s[2] + n - 1)
    BY <2>1 DEF Part
  <2>3. /\ c[1] \in s[1] .. (s[1] + n - 1) <=> s[1] <= c[1] /\ c[1] < s[1] + n
        /\ c[2] \in s[2] .. (s[2] + n - 1) <=> s[2] <= c[2] /\ c[2] < s[2] + n
    BY <1>1, <2>1
  <2> QED
    BY <2>2, <2>3
<1> QED
  BY <1>2, <1>3

\* A tile has three cells.
LEMMA TileHasThree ==
    ASSUME NEW x \in Places, NEW d \in Part(x, 2)
    PROVE  IsFiniteSet(Part(x, 2) \ {d}) /\ Cardinality(Part(x, 2) \ {d}) = 3
<1> DEFINE u == x[1]
           v == x[2]
           A == {<<u, v>>}
           B == A \cup {<<u, v + 1>>}
           C == B \cup {<<u + 1, v>>}
           D == C \cup {<<u + 1, v + 1>>}
<1>1. u \in Int /\ v \in Int
  BY DEF Places
<1>2. Part(x, 2) = D
  <2>1. u .. (u + 2 - 1) = {u, u + 1} /\ v .. (v + 2 - 1) = {v, v + 1}
    BY <1>1
  <2>2. Part(x, 2) = {u, u + 1} \X {v, v + 1}
    BY <2>1 DEF Part
  <2>3. {u, u + 1} \X {v, v + 1} = {<<u, v>>, <<u, v + 1>>, <<u + 1, v>>, <<u + 1, v + 1>>}
    <3> HIDE DEF u, v
    <3> QED
      OBVIOUS
  <2>4. D = {<<u, v>>, <<u, v + 1>>, <<u + 1, v>>, <<u + 1, v + 1>>}
    <3> HIDE DEF u, v
    <3> QED
      OBVIOUS
  <2> QED
    BY <2>2, <2>3, <2>4
<1>3. u # u + 1 /\ v # v + 1
  BY <1>1
<1> HIDE DEF u, v
<1>4. IsFiniteSet(A) /\ Cardinality(A) = 1
  BY FS_Singleton
<1>5. <<u, v + 1>> \notin A
  BY <1>3
<1>6. <<u + 1, v>> \notin B
  BY <1>3
<1>7. <<u + 1, v + 1>> \notin C
  BY <1>3
<1> HIDE DEF A
<1>8. IsFiniteSet(B) /\ Cardinality(B) = 2
  BY <1>4, <1>5, FS_AddElement
<1> HIDE DEF B
<1>9. IsFiniteSet(C) /\ Cardinality(C) = 3
  BY <1>6, <1>8, FS_AddElement
<1> HIDE DEF C
<1>10. IsFiniteSet(D) /\ Cardinality(D) = 4
  BY <1>7, <1>9, FS_AddElement
<1> HIDE DEF D
<1> QED
  BY <1>2, <1>10, FS_RemoveElement

\* The four quarters, their corners and their cells at the middle.
Down == <<0, 0, 1, 1>>
Right == <<0, 1, 0, 1>>
Corner(start, half, q) == <<start[1] + Down[q] * half, start[2] + Right[q] * half>>
Inner(start, half, q) == <<start[1] + half - 1 + Down[q], start[2] + half - 1 + Right[q]>>

\* The quarters make up the part, are apart, and each has its cell at the
\* middle.
LEMMA QuartersOfPart ==
    ASSUME NEW start \in Places, NEW half \in Nat \ {0}
    PROVE  /\ \A q \in 1 .. 4 :
                 /\ Corner(start, half, q) \in Places /\ Inner(start, half, q) \in Places
                 /\ Part(Corner(start, half, q), half) \subseteq Part(start, 2 * half)
                 /\ Inner(start, half, q) \in Part(Corner(start, half, q), half)
           /\ \A c \in Part(start, 2 * half) : \E q \in 1 .. 4 : c \in Part(Corner(start, half, q), half)
           /\ \A p, q \in 1 .. 4 :
                 p # q => Part(Corner(start, half, p), half) \cap Part(Corner(start, half, q), half) = {}
<1> DEFINE u == start[1]
           v == start[2]
           K(q) == Corner(start, half, q)
           I(q) == Inner(start, half, q)
           W == Part(start, 2 * half)
<1>1. u \in Int /\ v \in Int /\ half \in Int /\ half >= 1 /\ half \in Nat /\ 2 * half \in Nat
  BY DEF Places
<1>2. /\ K(1) = <<u + 0 * half, v + 0 * half>> /\ K(2) = <<u + 0 * half, v + 1 * half>>
      /\ K(3) = <<u + 1 * half, v + 0 * half>> /\ K(4) = <<u + 1 * half, v + 1 * half>>
      /\ I(1) = <<u + half - 1 + 0, v + half - 1 + 0>> /\ I(2) = <<u + half - 1 + 0, v + half - 1 + 1>>
      /\ I(3) = <<u + half - 1 + 1, v + half - 1 + 0>> /\ I(4) = <<u + half - 1 + 1, v + half - 1 + 1>>
  BY DEF Corner, Inner, Down, Right
<1> HIDE DEF u, v, K, I
<1>3. /\ K(1) = <<u, v>> /\ K(2) = <<u, v + half>> /\ K(3) = <<u + half, v>> /\ K(4) = <<u + half, v + half>>
      /\ I(1) = <<u + half - 1, v + half - 1>> /\ I(2) = <<u + half - 1, v + half>>
      /\ I(3) = <<u + half, v + half - 1>> /\ I(4) = <<u + half, v + half>>
  BY <1>1, <1>2
<1>4. \A q \in 1 .. 4 : q = 1 \/ q = 2 \/ q = 3 \/ q = 4
  OBVIOUS
<1>5. \A q \in 1 .. 4 : K(q) \in Places /\ I(q) \in Places
  BY <1>1, <1>3, <1>4 DEF Places
<1>6. ASSUME NEW c \in Places
      PROVE  /\ c[1] \in Int /\ c[2] \in Int
             /\ c \in W <=> u <= c[1] /\ c[1] < u + 2 * half /\ v <= c[2] /\ c[2] < v + 2 * half
             /\ \A q \in 1 .. 4 : c \in Part(K(q), half) <=> /\ K(q)[1] <= c[1] /\ c[1] < K(q)[1] + half
                                                             /\ K(q)[2] <= c[2] /\ c[2] < K(q)[2] + half
  <2>1. c[1] \in Int /\ c[2] \in Int
    BY DEF Places
  <2>2. c \in W <=> u <= c[1] /\ c[1] < u + 2 * half /\ v <= c[2] /\ c[2] < v + 2 * half
    <3>1. PICK n \in Nat : n = 2 * half
      BY <1>1
    <3>2. c \in Part(start, n) <=> start[1] <= c[1] /\ c[1] < start[1] + n /\ start[2] <= c[2] /\ c[2] < start[2] + n
      BY PartIs
    <3> QED
      BY <3>1, <3>2 DEF u, v
  <2>3. \A q \in 1 .. 4 : c \in Part(K(q), half) <=> /\ K(q)[1] <= c[1] /\ c[1] < K(q)[1] + half
                                                     /\ K(q)[2] <= c[2] /\ c[2] < K(q)[2] + half
    BY <1>1, <1>5, PartIs
  <2> QED
    BY <2>1, <2>2, <2>3
<1>7. ASSUME NEW c \in Places
      PROVE  /\ c \in Part(K(1), half) <=> u <= c[1] /\ c[1] < u + half /\ v <= c[2] /\ c[2] < v + half
             /\ c \in Part(K(2), half) <=> u <= c[1] /\ c[1] < u + half /\ v + half <= c[2] /\ c[2] < v + 2 * half
             /\ c \in Part(K(3), half) <=> u + half <= c[1] /\ c[1] < u + 2 * half /\ v <= c[2] /\ c[2] < v + half
             /\ c \in Part(K(4), half) <=> /\ u + half <= c[1] /\ c[1] < u + 2 * half
                                           /\ v + half <= c[2] /\ c[2] < v + 2 * half
  <2>1. /\ K(1)[1] = u /\ K(1)[2] = v /\ K(2)[1] = u /\ K(2)[2] = v + half
        /\ K(3)[1] = u + half /\ K(3)[2] = v /\ K(4)[1] = u + half /\ K(4)[2] = v + half
    BY <1>3
  <2>2. (u + half) + half = u + 2 * half /\ (v + half) + half = v + 2 * half
    BY <1>1
  <2>3. 1 \in 1 .. 4 /\ 2 \in 1 .. 4 /\ 3 \in 1 .. 4 /\ 4 \in 1 .. 4
    OBVIOUS
  <2>4. \A q \in 1 .. 4 : c \in Part(K(q), half) <=> /\ K(q)[1] <= c[1] /\ c[1] < K(q)[1] + half
                                                     /\ K(q)[2] <= c[2] /\ c[2] < K(q)[2] + half
    BY <1>6
  <2> QED
    BY <2>1, <2>2, <2>3, <2>4
<1>8. W \subseteq Places /\ \A q \in 1 .. 4 : Part(K(q), half) \subseteq Places
  <2>1. \A n \in Nat : Part(start, n) \subseteq Places
    BY PartIs
  <2>2. \A q \in 1 .. 4 : Part(K(q), half) \subseteq Places
    BY <1>1, <1>5, PartIs
  <2> QED
    BY <1>1, <2>1, <2>2
<1> HIDE DEF W
<1>9. ASSUME NEW q \in 1 .. 4, NEW c \in Part(K(q), half) PROVE c \in W
  <2>1. c \in Places
    BY <1>8
  <2> QED
    BY <1>1, <1>4, <1>6, <1>7, <2>1
<1>10. ASSUME NEW c \in W PROVE \E q \in 1 .. 4 : c \in Part(K(q), half)
  <2>1. c \in Places
    BY <1>8
  <2>2. 1 \in 1 .. 4 /\ 2 \in 1 .. 4 /\ 3 \in 1 .. 4 /\ 4 \in 1 .. 4
    OBVIOUS
  <2>3. \/ c \in Part(K(1), half)
        \/ c \in Part(K(2), half)
        \/ c \in Part(K(3), half)
        \/ c \in Part(K(4), half)
    BY <1>1, <1>6, <1>7, <2>1
  <2> QED
    BY <2>2, <2>3
<1>11. ASSUME NEW q \in 1 .. 4 PROVE I(q) \in Part(K(q), half)
  <2>1. I(1)[1] = u + half - 1 /\ I(1)[2] = v + half - 1 /\ I(2)[1] = u + half - 1 /\ I(2)[2] = v + half
    BY <1>3
  <2>2. I(3)[1] = u + half /\ I(3)[2] = v + half - 1 /\ I(4)[1] = u + half /\ I(4)[2] = v + half
    BY <1>3
  <2>3. I(1) \in Places /\ I(2) \in Places /\ I(3) \in Places /\ I(4) \in Places
    BY <1>5
  <2>4. I(1) \in Part(K(1), half)
    BY <1>1, <1>7, <2>1, <2>3
  <2>5. I(2) \in Part(K(2), half)
    BY <1>1, <1>7, <2>1, <2>3
  <2>6. I(3) \in Part(K(3), half)
    BY <1>1, <1>7, <2>2, <2>3
  <2>7. I(4) \in Part(K(4), half)
    BY <1>1, <1>7, <2>2, <2>3
  <2> QED
    BY <1>4, <2>4, <2>5, <2>6, <2>7
<1>12. ASSUME NEW p \in 1 .. 4, NEW q \in 1 .. 4, p # q, NEW c \in Part(K(p), half), c \in Part(K(q), half)
       PROVE  FALSE
  <2>1. c \in Places
    BY <1>8
  <2> QED
    BY <1>1, <1>4, <1>6, <1>7, <1>12, <2>1
<1> QED
  BY <1>5, <1>9, <1>10, <1>11, <1>12 DEF K, I, W

\* The cells at the middle are a square.
LEMMA InnersAreSquare ==
    ASSUME NEW start \in Places, NEW half \in Nat \ {0}
    PROVE  \E x \in Places : /\ Part(x, 2) = {Inner(start, half, q) : q \in 1 .. 4}
                             /\ Part(x, 2) \subseteq Part(start, 2 * half)
<1> DEFINE u == start[1] + half - 1
           v == start[2] + half - 1
           x == <<u, v>>
           I(q) == Inner(start, half, q)
<1>1. u \in Int /\ v \in Int
  BY DEF Places
<1>2. I(1) = <<u + 0, v + 0>> /\ I(2) = <<u + 0, v + 1>> /\ I(3) = <<u + 1, v + 0>> /\ I(4) = <<u + 1, v + 1>>
  BY DEF Inner, Down, Right
<1>3. {I(q) : q \in 1 .. 4} \subseteq Part(start, 2 * half)
  <2>1. ASSUME NEW q \in 1 .. 4 PROVE Inner(start, half, q) \in Part(start, 2 * half)
    <3>1. /\ Part(Corner(start, half, q), half) \subseteq Part(start, 2 * half)
          /\ Inner(start, half, q) \in Part(Corner(start, half, q), half)
      BY QuartersOfPart
    <3> QED
      BY <3>1
  <2> QED
    BY <2>1
<1> HIDE DEF I, u, v
<1>4. {I(q) : q \in 1 .. 4} = {I(1), I(2), I(3), I(4)}
  <2>1. 1 .. 4 = {1, 2, 3, 4}
    OBVIOUS
  <2> QED
    BY <2>1
<1>5. Part(x, 2) = {<<u, v>>, <<u, v + 1>>, <<u + 1, v>>, <<u + 1, v + 1>>}
  <2>1. u .. (u + 2 - 1) = {u, u + 1} /\ v .. (v + 2 - 1) = {v, v + 1}
    BY <1>1
  <2>2. Part(x, 2) = {u, u + 1} \X {v, v + 1}
    BY <2>1 DEF Part
  <2> QED
    BY <2>2
<1>6. Part(x, 2) = {I(q) : q \in 1 .. 4}
  <2>1. u + 0 = u /\ v + 0 = v
    BY <1>1
  <2> QED
    BY <1>2, <1>4, <1>5, <2>1
<1>7. x \in Places
  BY <1>1 DEF Places
<1> QED
  BY <1>3, <1>6, <1>7 DEF I

\* What a call takes and what it makes.
Calls(cells) == Tilings(cells) \X Places \X Places
Covers(cells) == [Calls(cells) -> Tilings(cells)]
Counted(board) == [board EXCEPT !.insert_count = @ + 1]

\* A call or a cell under a tile leaves a board a board.
LEMMA TilingsStayTilings ==
    ASSUME NEW cells, NEW b \in Tilings(cells)
    PROVE  /\ b = [tiles |-> b.tiles, insert_count |-> b.insert_count]
           /\ b.tiles \in [cells -> Int] /\ b.insert_count \in Nat
           /\ Counted(b) \in Tilings(cells)
           /\ Counted(b).insert_count = b.insert_count + 1 /\ Counted(b).tiles = b.tiles
           /\ \A count \in Nat : \A c : [b EXCEPT !.tiles[c] = count] \in Tilings(cells)
<1>1. b = [tiles |-> b.tiles, insert_count |-> b.insert_count] /\ b.tiles \in [cells -> Int] /\ b.insert_count \in Nat
  BY DEF Tilings
<1>2. Counted(b) = [tiles |-> b.tiles, insert_count |-> b.insert_count + 1]
  BY <1>1 DEF Counted
<1>3. ASSUME NEW count \in Nat, NEW c PROVE [b EXCEPT !.tiles[c] = count] \in Tilings(cells)
  <2>1. PICK t : t = [b.tiles EXCEPT ![c] = count]
    OBVIOUS
  <2>2. [b EXCEPT !.tiles[c] = count] = [b EXCEPT !.tiles = t]
    BY <2>1
  <2>3. [b EXCEPT !.tiles = t] = [tiles |-> t, insert_count |-> b.insert_count]
    <3>1. PICK u, n : b = [tiles |-> u, insert_count |-> n]
      BY <1>1
    <3> QED
      BY <3>1
  <2>4. t \in [cells -> Int]
    <3>1. PICK u \in [cells -> Int] : u = b.tiles
      BY <1>1
    <3>2. \A x \in cells : [u EXCEPT ![c] = count][x] \in Int
      OBVIOUS
    <3> QED
      BY <2>1, <3>1, <3>2
  <2> QED
    BY <1>1, <2>2, <2>3, <2>4 DEF Tilings
<1> QED
  BY <1>1, <1>2, <1>3 DEF Tilings

LEMMA QuarterIsBoard ==
    ASSUME NEW cells, NEW cover \in Covers(cells), NEW count \in Nat, NEW start \in Places, NEW half \in Nat,
           NEW at \in Places, NEW b \in Tilings(cells), NEW down \in {0, 1}, NEW right \in {0, 1}
    PROVE  Quarter(cover, count, start, half, at, b, down, right) \in Tilings(cells)
<1> DEFINE corner == <<start[1] + down * half, start[2] + right * half>>
           inner == <<start[1] + half - 1 + down, start[2] + half - 1 + right>>
           holed == [b EXCEPT !.tiles[inner] = count]
<1>1. corner \in Places /\ inner \in Places
  <2>1. start[1] \in Int /\ start[2] \in Int /\ half \in Int /\ down \in Int /\ right \in Int
    BY DEF Places
  <2>2. down * half \in Int /\ right * half \in Int
    BY <2>1
  <2>3. /\ start[1] + down * half \in Int /\ start[2] + right * half \in Int
        /\ start[1] + half - 1 + down \in Int /\ start[2] + half - 1 + right \in Int
    BY <2>1, <2>2
  <2> QED
    BY <2>3 DEF Places
<1>2. holed \in Tilings(cells)
  <2>1. \A c : [b EXCEPT !.tiles[c] = count] \in Tilings(cells)
    BY TilingsStayTilings
  <2> QED
    BY <2>1
<1>3. Quarter(cover, count, start, half, at, b, down, right)
        = IF at \in Part(corner, half) THEN cover[<<b, corner, at>>] ELSE cover[<<holed, corner, inner>>]
  BY DEF Quarter
<1> HIDE DEF corner, inner, holed
<1>4. <<b, corner, at>> \in Calls(cells) /\ <<holed, corner, inner>> \in Calls(cells)
  BY <1>1, <1>2 DEF Calls
<1> QED
  BY <1>3, <1>4 DEF Covers

\* The boards between the quarters.
QuartersFrom(cover, count, start, half, at, b) ==
    LET b1 == Quarter(cover, count, start, half, at, b, 0, 0)
        b2 == Quarter(cover, count, start, half, at, b1, 0, 1)
        b3 == Quarter(cover, count, start, half, at, b2, 1, 0)
        b4 == Quarter(cover, count, start, half, at, b3, 1, 1)
    IN  [q \in 0 .. 4 |-> IF q = 0 THEN b ELSE IF q = 1 THEN b1 ELSE IF q = 2 THEN b2 ELSE IF q = 3 THEN b3 ELSE b4]

\* The calls on the four quarters, each on what the one before has left.
LEMMA QuartersAre ==
    ASSUME NEW cells, NEW cover \in Covers(cells), NEW count \in Nat, NEW start \in Places, NEW half \in Nat,
           NEW at \in Places, NEW b \in Tilings(cells),
           NEW bs, bs = QuartersFrom(cover, count, start, half, at, b)
    PROVE  /\ bs[0] = b
           /\ \A q \in 0 .. 4 : bs[q] \in Tilings(cells)
           /\ \A q \in 1 .. 4 : bs[q] = Quarter(cover, count, start, half, at, bs[q - 1], Down[q], Right[q])
           /\ Quarters(cover, count, start, half, at, b) = bs[4]
<1> DEFINE b1 == Quarter(cover, count, start, half, at, b, 0, 0)
           b2 == Quarter(cover, count, start, half, at, b1, 0, 1)
           b3 == Quarter(cover, count, start, half, at, b2, 1, 0)
           b4 == Quarter(cover, count, start, half, at, b3, 1, 1)
<1>1. Quarters(cover, count, start, half, at, b) = b4
  BY DEF Quarters
<1>2. bs = [q \in 0 .. 4 |-> IF q = 0 THEN b ELSE IF q = 1 THEN b1 ELSE IF q = 2 THEN b2 ELSE IF q = 3 THEN b3 ELSE b4]
  BY DEF QuartersFrom
<1>3. b1 \in Tilings(cells)
  BY QuarterIsBoard
<1>4. b2 \in Tilings(cells)
  <2> HIDE DEF b1
  <2> QED
    BY <1>3, QuarterIsBoard
<1>5. b3 \in Tilings(cells)
  <2> HIDE DEF b2
  <2> QED
    BY <1>4, QuarterIsBoard
<1>6. b4 \in Tilings(cells)
  <2> HIDE DEF b3
  <2> QED
    BY <1>5, QuarterIsBoard
<1>7. /\ b1 = Quarter(cover, count, start, half, at, b, 0, 0)
      /\ b2 = Quarter(cover, count, start, half, at, b1, 0, 1)
      /\ b3 = Quarter(cover, count, start, half, at, b2, 1, 0)
      /\ b4 = Quarter(cover, count, start, half, at, b3, 1, 1)
  OBVIOUS
<1> HIDE DEF b1, b2, b3, b4
<1>8. bs[0] = b /\ bs[1] = b1 /\ bs[2] = b2 /\ bs[3] = b3 /\ bs[4] = b4
  BY <1>2
<1>9. /\ \A q \in 0 .. 4 : q = 0 \/ q = 1 \/ q = 2 \/ q = 3 \/ q = 4
      /\ \A q \in 1 .. 4 : q = 1 \/ q = 2 \/ q = 3 \/ q = 4
      /\ 1 - 1 = 0 /\ 2 - 1 = 1 /\ 3 - 1 = 2 /\ 4 - 1 = 3
  OBVIOUS
<1>10. \A q \in 0 .. 4 : bs[q] \in Tilings(cells)
  BY <1>3, <1>4, <1>5, <1>6, <1>8, <1>9
<1>11. /\ Down[1] = 0 /\ Down[2] = 0 /\ Down[3] = 1 /\ Down[4] = 1
       /\ Right[1] = 0 /\ Right[2] = 1 /\ Right[3] = 0 /\ Right[4] = 1
  BY DEF Down, Right
<1>12. ASSUME NEW q \in 1 .. 4
       PROVE  bs[q] = Quarter(cover, count, start, half, at, bs[q - 1], Down[q], Right[q])
  BY <1>7, <1>8, <1>9, <1>11
<1> QED
  BY <1>1, <1>8, <1>10, <1>12

LEMMA TileIsBoard ==
    ASSUME NEW cells, NEW b \in Tilings(cells), NEW start, NEW at
    PROVE  /\ Tile(b, start, at) \in Tilings(cells)
           /\ Tile(b, start, at).insert_count = b.insert_count
           /\ \A c \in cells : Tile(b, start, at).tiles[c]
                                 = IF c \in Part(start, 2) /\ c # at THEN b.insert_count ELSE b.tiles[c]
<1> DEFINE t == [c \in cells |-> IF c \in Part(start, 2) /\ c # at THEN b.insert_count ELSE b.tiles[c]]
<1>1. /\ b = [tiles |-> b.tiles, insert_count |-> b.insert_count]
      /\ b.tiles \in [cells -> Int] /\ b.insert_count \in Nat
  BY TilingsStayTilings
<1>2. Tile(b, start, at) = [tiles |-> t, insert_count |-> b.insert_count]
  BY <1>1 DEF Tile
<1>3. t \in [cells -> Int]
  BY <1>1
<1> QED
  BY <1>1, <1>2, <1>3 DEF Tilings

\* The recursion has a value for every number of halvings.
LEMMA DoTrominoIs ==
    ASSUME NEW cells, NEW f, f = do_tromino(cells)
    PROVE  /\ \A h \in Nat : f[h] \in Covers(cells)
           /\ \A b \in Tilings(cells), s \in Places, a \in Places : f[0][<<b, s, a>>] = Tile(Counted(b), s, a)
           /\ \A h \in Nat : \A b \in Tilings(cells), s \in Places, a \in Places :
                 f[h + 1][<<b, s, a>>] = Quarters(f[h], b.insert_count + 1, s, Side[h + 1], a, Counted(b))
<1> DEFINE V == Covers(cells)
           First == [call \in Calls(cells) |-> Tile(Counted(call[1]), call[2], call[3])]
           Again(h, v) == [call \in Calls(cells) |->
                             Quarters(v, call[1].insert_count + 1, call[2], Side[h], call[3], Counted(call[1]))]
           Fix(g) == g = [h \in Nat |-> IF h = 0 THEN First ELSE Again(h, g[h - 1])]
           Written(g) == g = [h \in Nat |-> [call \in Tilings(cells) \X Places \X Places |->
                             LET board == [call[1] EXCEPT !.insert_count = @ + 1]
                             IN  IF h = 0 THEN Tile(board, call[2], call[3])
                                 ELSE Quarters(g[h - 1], board.insert_count, call[2], Side[h], call[3], board)]]
           round == [z \in Nat \X V |-> Again(z[1], z[2])]
<1>1. \A call \in Calls(cells) : /\ call[1] \in Tilings(cells) /\ call[2] \in Places /\ call[3] \in Places
                                 /\ Counted(call[1]) \in Tilings(cells) /\ call[1].insert_count + 1 \in Nat
                                 /\ Counted(call[1]).insert_count = call[1].insert_count + 1
  <2>1. ASSUME NEW call \in Calls(cells)
        PROVE  call[1] \in Tilings(cells) /\ call[2] \in Places /\ call[3] \in Places
    BY DEF Calls
  <2> QED
    BY <2>1, TilingsStayTilings
<1>2. First \in V
  <2>1. ASSUME NEW call \in Calls(cells) PROVE Tile(Counted(call[1]), call[2], call[3]) \in Tilings(cells)
    BY <1>1, TileIsBoard
  <2> QED
    BY <2>1 DEF Covers
<1>3. ASSUME NEW h \in Nat \ {0}, NEW v \in V PROVE Again(h, v) \in V
  <2>1. ASSUME NEW call \in Calls(cells)
        PROVE  Quarters(v, call[1].insert_count + 1, call[2], Side[h], call[3], Counted(call[1])) \in Tilings(cells)
    <3>1. PICK half \in Nat : half = Side[h]
      BY SideIs
    <3>2. /\ call[1].insert_count + 1 \in Nat /\ call[2] \in Places /\ call[3] \in Places
          /\ Counted(call[1]) \in Tilings(cells) /\ v \in Covers(cells)
      BY <1>1
    <3>3. PICK bs : bs = QuartersFrom(v, call[1].insert_count + 1, call[2], half, call[3], Counted(call[1]))
      OBVIOUS
    <3>4. /\ \A q \in 0 .. 4 : bs[q] \in Tilings(cells)
          /\ Quarters(v, call[1].insert_count + 1, call[2], half, call[3], Counted(call[1])) = bs[4]
      BY <3>2, <3>3, QuartersAre
    <3> QED
      BY <3>1, <3>4
  <2> QED
    BY <2>1 DEF Covers
<1>4. \A h \in Nat \ {0} : \A v \in V : round[<<h, v>>] = Again(h, v)
  <2> HIDE DEF Again
  <2> QED
    OBVIOUS
<1> HIDE DEF round
<1>5. PICK g \in [Nat -> V] : AllValues(g, First, round)
  <2>1. \A h \in Nat \ {0} : \A v \in V : round[<<h, v>>] \in V
    <3> HIDE DEF V, Again
    <3> QED
      BY <1>3, <1>4
  <2> HIDE DEF V, First
  <2> QED
    BY <1>2, <2>1, EndlessLoopHasValues
<1>6. Fix(g)
  <2> HIDE DEF First, Again
  <2>1. ASSUME NEW h \in Nat PROVE g[h] = IF h = 0 THEN First ELSE Again(h, g[h - 1])
    <3>1. CASE h # 0
      <4>1. h \in Nat \ {0} /\ h - 1 \in Nat /\ g[h - 1] \in V
        BY <1>5, <3>1
      <4>2. g[h] = round[<<h, g[h - 1]>>]
        BY <1>5, <4>1 DEF AllValues
      <4> HIDE DEF V
      <4> QED
        BY <1>4, <3>1, <4>1, <4>2
    <3> QED
      BY <1>5, <3>1 DEF AllValues
  <2> HIDE DEF V
  <2> QED
    BY <1>5, <2>1
<1>7. ASSUME NEW j PROVE Written(j) <=> Fix(j)
  <2>1. ASSUME NEW h \in Nat
        PROVE  [call \in Tilings(cells) \X Places \X Places |->
                  LET board == [call[1] EXCEPT !.insert_count = @ + 1]
                  IN  IF h = 0 THEN Tile(board, call[2], call[3])
                      ELSE Quarters(j[h - 1], board.insert_count, call[2], Side[h], call[3], board)]
                = IF h = 0 THEN First ELSE Again(h, j[h - 1])
    <3>1. ASSUME NEW call \in Calls(cells)
          PROVE  LET board == [call[1] EXCEPT !.insert_count = @ + 1]
                 IN  (IF h = 0 THEN Tile(board, call[2], call[3])
                      ELSE Quarters(j[h - 1], board.insert_count, call[2], Side[h], call[3], board))
                      = IF h = 0 THEN Tile(Counted(call[1]), call[2], call[3])
                        ELSE Quarters(j[h - 1], call[1].insert_count + 1, call[2], Side[h], call[3], Counted(call[1]))
      <4>1. Counted(call[1]) = [call[1] EXCEPT !.insert_count = @ + 1]
        BY DEF Counted
      <4>2. Counted(call[1]).insert_count = call[1].insert_count + 1
        BY <1>1
      <4> QED
        BY <4>1, <4>2
    <3> QED
      BY <3>1 DEF Calls
  <2> HIDE DEF First, Again
  <2> QED
    BY <2>1
<1>8. f = CHOOSE j : Written(j)
  BY DEF do_tromino
<1> HIDE DEF Written, Fix
<1>9. Fix(f)
  BY <1>6, <1>7, <1>8
<1>10. f[0] = First /\ \A h \in Nat : f[h + 1] = Again(h + 1, f[h])
  <2>1. \A h \in Nat : f[h] = IF h = 0 THEN First ELSE Again(h, f[h - 1])
    <3> HIDE DEF First, Again
    <3> QED
      BY <1>9 DEF Fix
  <2>2. \A h \in Nat : h + 1 \in Nat /\ h + 1 # 0 /\ (h + 1) - 1 = h
    OBVIOUS
  <2> HIDE DEF First, Again
  <2> QED
    BY <2>1, <2>2
<1>11. ASSUME NEW n \in Nat PROVE f[n] \in V
  <2> DEFINE S == {h \in 0 .. n : f[h] \in V}
  <2>1. 0 \in S
    BY <1>2, <1>10
  <2>2. ASSUME NEW h \in 0 .. n - 1, h \in S PROVE h + 1 \in S
    <3>1. h \in Nat /\ h + 1 \in 0 .. n /\ h + 1 \in Nat \ {0} /\ f[h] \in V
      BY <2>2
    <3> HIDE DEF Again, V
    <3> QED
      BY <1>3, <1>10, <3>1
  <2>3. 0 .. n \subseteq S
    <3> HIDE DEF S
    <3> QED
      BY <2>1, <2>2, CountUp
  <2> QED
    BY <2>3
<1>12. ASSUME NEW b \in Tilings(cells), NEW s \in Places, NEW a \in Places
       PROVE  /\ First[<<b, s, a>>] = Tile(Counted(b), s, a)
              /\ \A h, v : Again(h, v)[<<b, s, a>>] = Quarters(v, b.insert_count + 1, s, Side[h], a, Counted(b))
  <2>1. <<b, s, a>> \in Calls(cells)
    BY DEF Calls
  <2> QED
    BY <2>1
<1> HIDE DEF First, Again
<1>13. \A b \in Tilings(cells), s \in Places, a \in Places : f[0][<<b, s, a>>] = Tile(Counted(b), s, a)
  BY <1>10, <1>12
<1>14. ASSUME NEW h \in Nat, NEW b \in Tilings(cells), NEW s \in Places, NEW a \in Places
       PROVE  f[h + 1][<<b, s, a>>] = Quarters(f[h], b.insert_count + 1, s, Side[h + 1], a, Counted(b))
  BY <1>10, <1>12
<1> QED
  BY <1>11, <1>13, <1>14
\* What a call with a part of this size promises.
CoversRight(cells, cover, size) ==
    \A b \in Tilings(cells) : \A s \in Places : \A a \in Part(s, size) :
        Part(s, size) \subseteq cells => Covered(cells, b, cover[<<b, s, a>>], Part(s, size), a)

\* The call on a quarter P, of which i is the cell at the middle: from the board b to r.
CallOnQuarter(cells, cover, count, start, half, at, q, P, i, b, r) ==
    /\ cover \in Covers(cells) /\ count \in Nat /\ CoversRight(cells, cover, half)
    /\ start \in Places /\ half \in Nat \ {0} /\ at \in Places /\ q \in 1 .. 4
    /\ P = Part(Corner(start, half, q), half) /\ P \subseteq cells /\ i = Inner(start, half, q)
    /\ b \in Tilings(cells) /\ r = Quarter(cover, count, start, half, at, b, Down[q], Right[q])

\* A quarter that has the hole, or gets one under the tile of this call, is
\* covered.
LEMMA QuarterCovers ==
    ASSUME NEW cells, NEW cover, NEW count, NEW start, NEW half, NEW at, NEW q, NEW P, NEW i, NEW b, NEW r,
           CallOnQuarter(cells, cover, count, start, half, at, q, P, i, b, r)
    PROVE  /\ at \in P => Piece(cells, b, r, P, at) /\ r.tiles[at] = b.tiles[at]
           /\ at \notin P => Piece(cells, b, r, P, i) /\ r.tiles[i] = count
<1> DEFINE corner == Corner(start, half, q)
           holed == [b EXCEPT !.tiles[i] = count]
<1>0. /\ cover \in Covers(cells) /\ count \in Nat /\ CoversRight(cells, cover, half)
      /\ start \in Places /\ half \in Nat \ {0} /\ at \in Places /\ q \in 1 .. 4
      /\ P = Part(Corner(start, half, q), half) /\ P \subseteq cells /\ i = Inner(start, half, q)
      /\ b \in Tilings(cells) /\ r = Quarter(cover, count, start, half, at, b, Down[q], Right[q])
  BY DEF CallOnQuarter
<1>1. r = IF at \in P THEN cover[<<b, corner, at>>] ELSE cover[<<holed, corner, i>>]
  BY <1>0 DEF Quarter, Corner, Inner
<1>2. corner \in Places /\ i \in P
  BY <1>0, QuartersOfPart
<1>3. CASE at \in P
  <2>1. Covered(cells, b, cover[<<b, corner, at>>], P, at)
    BY <1>0, <1>2, <1>3 DEF CoversRight
  <2> QED
    BY <1>1, <1>3, <2>1 DEF Covered
<1>4. CASE at \notin P
  <2>1. holed \in Tilings(cells)
    <3>1. \A c : [b EXCEPT !.tiles[c] = count] \in Tilings(cells)
      BY <1>0, TilingsStayTilings
    <3> QED
      BY <3>1
  <2>2. /\ holed.insert_count = b.insert_count
        /\ \A c \in cells : holed.tiles[c] = IF c = i THEN count ELSE b.tiles[c]
    <3>1. PICK u \in [cells -> Int] : \E m : b = [tiles |-> u, insert_count |-> m]
      BY <1>0, TilingsStayTilings
    <3>0. PICK n : b = [tiles |-> u, insert_count |-> n]
      BY <3>1
    <3>2. PICK t : t = [u EXCEPT ![i] = count]
      OBVIOUS
    <3>3. holed = [tiles |-> t, insert_count |-> n]
      <4>1. b.tiles = u
        BY <3>0
      <4>2. holed = [b EXCEPT !.tiles = t]
        BY <3>2, <4>1
      <4> HIDE DEF holed
      <4> QED
        BY <3>0, <4>2
    <3>4. \A c \in cells : t[c] = IF c = i THEN count ELSE u[c]
      BY <3>2
    <3> HIDE DEF holed
    <3> QED
      BY <3>0, <3>3, <3>4
  <2> HIDE DEF holed
  <2>3. Covered(cells, holed, cover[<<holed, corner, i>>], P, i)
    BY <1>0, <1>2, <2>1 DEF CoversRight
  <2>4. r = cover[<<holed, corner, i>>]
    BY <1>1, <1>4
  <2>5. Piece(cells, holed, r, P, i) /\ r.tiles[i] = holed.tiles[i]
    BY <2>3, <2>4 DEF Covered
  <2>6. \A c \in cells \ P : r.tiles[c] = b.tiles[c]
    <3>1. \A c \in cells \ P : r.tiles[c] = holed.tiles[c]
      BY <2>5 DEF Piece
    <3> QED
      BY <1>0, <1>2, <2>2, <3>1
  <2>7. Piece(cells, b, r, P, i)
    BY <2>2, <2>5, <2>6 DEF Piece
  <2>8. r.tiles[i] = count
    BY <1>0, <1>2, <2>2, <2>5
  <2> QED
    BY <1>4, <2>7, <2>8
<1> QED
  BY <1>3, <1>4

\* The four quarters cover the whole, if a call covers a quarter.
LEMMA QuartersCover ==
    ASSUME NEW cells, NEW cover \in Covers(cells), NEW start \in Places, NEW half \in Nat \ {0},
           NEW P, P = Part(start, 2 * half), P \subseteq cells, NEW at \in P, NEW b \in Tilings(cells),
           CoversRight(cells, cover, half)
    PROVE  Covered(cells, b, Quarters(cover, b.insert_count + 1, start, half, at, Counted(b)), P, at)
<1> DEFINE bs == QuartersFrom(cover, b.insert_count + 1, start, half, at, Counted(b))
           Q == [q \in 1 .. 4 |-> Part(Corner(start, half, q), half)]
           I(q) == Inner(start, half, q)
<1>1. /\ b.insert_count \in Nat /\ b.insert_count + 1 \in Nat /\ Counted(b) \in Tilings(cells)
      /\ Counted(b).insert_count = b.insert_count + 1 /\ Counted(b).tiles = b.tiles
  <2>1. b.insert_count \in Nat /\ Counted(b) \in Tilings(cells)
    BY TilingsStayTilings
  <2>2. Counted(b).insert_count = b.insert_count + 1 /\ Counted(b).tiles = b.tiles
    BY TilingsStayTilings
  <2> QED
    BY <2>1, <2>2
<1>2. at \in Places
  <2>1. PICK n \in Nat : n = 2 * half
    OBVIOUS
  <2>2. Part(start, n) \subseteq Places
    BY PartIs
  <2> QED
    BY <2>1, <2>2
<1>3. /\ bs[0] = Counted(b)
      /\ \A q \in 0 .. 4 : bs[q] \in Tilings(cells)
      /\ \A q \in 1 .. 4 : bs[q] = Quarter(cover, b.insert_count + 1, start, half, at, bs[q - 1], Down[q], Right[q])
      /\ Quarters(cover, b.insert_count + 1, start, half, at, Counted(b)) = bs[4]
  <2> HIDE DEF bs
  <2>1. bs = QuartersFrom(cover, b.insert_count + 1, start, half, at, Counted(b))
    BY DEF bs
  <2>2. half \in Nat
    OBVIOUS
  <2> QED
    BY <1>1, <1>2, <2>1, <2>2, QuartersAre
<1> HIDE DEF bs
<1>4. /\ \A q \in 1 .. 4 : Q[q] \subseteq P /\ I(q) \in Q[q] /\ Q[q] = Part(Corner(start, half, q), half)
      /\ \A c \in P : \E q \in 1 .. 4 : c \in Q[q]
      /\ \A p, q \in 1 .. 4 : p # q => Q[p] \cap Q[q] = {}
  BY QuartersOfPart
<1> HIDE DEF Q
<1>5. PICK k \in 1 .. 4 : at \in Q[k]
  BY <1>4
<1> DEFINE a == [q \in 1 .. 4 |-> IF q = k THEN at ELSE I(q)]
<1>6. ASSUME NEW q \in 1 .. 4
      PROVE  /\ at \in Q[q] => Piece(cells, bs[q - 1], bs[q], Q[q], at) /\ bs[q].tiles[at] = bs[q - 1].tiles[at]
             /\ at \notin Q[q] => Piece(cells, bs[q - 1], bs[q], Q[q], I(q)) /\ bs[q].tiles[I(q)] = b.insert_count + 1
  <2>1. q - 1 \in 0 .. 4
    OBVIOUS
  <2>2. bs[q - 1] \in Tilings(cells)
    BY <1>3, <2>1
  <2>3. bs[q] = Quarter(cover, b.insert_count + 1, start, half, at, bs[q - 1], Down[q], Right[q])
    BY <1>3
  <2>4. Q[q] = Part(Corner(start, half, q), half) /\ Q[q] \subseteq cells
    BY <1>4
  <2>5. I(q) = Inner(start, half, q)
    OBVIOUS
  <2> HIDE DEF I
  <2>6. CallOnQuarter(cells, cover, b.insert_count + 1, start, half, at, q, Q[q], I(q), bs[q - 1], bs[q])
    BY <1>1, <1>2, <2>2, <2>3, <2>4, <2>5 DEF CallOnQuarter
  <2> QED
    BY <2>6, QuarterCovers
<1>7. \A q \in 1 .. 4 : q # k => at \notin Q[q] /\ a[q] = I(q)
  BY <1>4, <1>5
<1>8. a[k] = at
  OBVIOUS
<1>9. IsTile({a[q] : q \in (1 .. 4) \ {k}}, P)
  <2>1. PICK x \in Places : Part(x, 2) = {I(q) : q \in 1 .. 4} /\ Part(x, 2) \subseteq P
    BY InnersAreSquare
  <2>2. \A q \in (1 .. 4) \ {k} : I(q) # I(k)
    BY <1>4
  <2>3. {a[q] : q \in (1 .. 4) \ {k}} = Part(x, 2) \ {I(k)}
    <3> HIDE DEF I, a
    <3> QED
      BY <1>7, <2>1, <2>2
  <2>4. I(k) \in Part(x, 2)
    BY <2>1
  <2> HIDE DEF I, a
  <2> QED
    BY <2>1, <2>3, <2>4 DEF IsTile
<1> HIDE DEF a, I
<1>10. \A q \in 1 .. 4 : Q[q] \subseteq P /\ a[q] \in Q[q]
  BY <1>4, <1>5, <1>7, <1>8
<1>11. \A q \in 1 .. 4 : Piece(cells, bs[q - 1], bs[q], Q[q], a[q])
  <2>1. ASSUME NEW q \in 1 .. 4 PROVE Piece(cells, bs[q - 1], bs[q], Q[q], a[q])
    <3>1. CASE q = k
      BY <1>5, <1>6, <1>8, <3>1
    <3>2. CASE q # k
      BY <1>6, <1>7, <3>2
    <3> QED
      BY <3>1, <3>2
  <2> QED
    BY <2>1
<1>12. \A q \in (1 .. 4) \ {k} : bs[q].tiles[a[q]] = bs[0].insert_count
  <2>1. ASSUME NEW q \in 1 .. 4, q # k PROVE bs[q].tiles[a[q]] = bs[0].insert_count
    BY <1>1, <1>3, <1>6, <1>7, <2>1
  <2> QED
    BY <2>1
<1>13. bs[k].tiles[at] = bs[k - 1].tiles[at]
  BY <1>5, <1>6
<1>14. Four(cells, P, at, Q, a, bs, k)
  BY <1>3, <1>4, <1>8, <1>9, <1>10, <1>11, <1>12, <1>13 DEF Four
<1>15. b.insert_count \in Nat /\ bs[0].insert_count = b.insert_count + 1 /\ bs[0].tiles = b.tiles
  BY <1>1, <1>3
<1>16. Covered(cells, b, bs[4], P, at)
  BY <1>14, <1>15, FourCover
<1> QED
  BY <1>3, <1>16

\* Two by two: the three cells beside the hole get the number of the call.
LEMMA TileCovers ==
    ASSUME NEW cells, NEW b \in Tilings(cells), NEW s \in Places, NEW a \in Part(s, 2), Part(s, 2) \subseteq cells
    PROVE  Covered(cells, b, Tile(Counted(b), s, a), Part(s, 2), a)
<1> DEFINE r == Tile(Counted(b), s, a)
           P == Part(s, 2)
<1>1. /\ b.insert_count \in Nat /\ Counted(b) \in Tilings(cells)
      /\ Counted(b).insert_count = b.insert_count + 1 /\ Counted(b).tiles = b.tiles
  BY TilingsStayTilings
<1>2. /\ r \in Tilings(cells) /\ r.insert_count = b.insert_count + 1
      /\ \A c \in cells : r.tiles[c] = IF c \in P /\ c # a THEN b.insert_count + 1 ELSE b.tiles[c]
  BY <1>1, TileIsBoard
<1> HIDE DEF r
<1>3. ASSUME NEW c \in P \ {a} PROVE IsTile(Alike(r, P \ {a}, c), P)
  <2>1. \A e \in P \ {a} : r.tiles[e] = b.insert_count + 1
    BY <1>2
  <2>2. Alike(r, P \ {a}, c) = P \ {a}
    BY <2>1 DEF Alike
  <2> QED
    BY <2>2 DEF IsTile
<1> HIDE DEF P
<1>4. P \subseteq cells /\ a \in P
  BY DEF P
<1>5. Piece(cells, b, r, P, a)
  <2>1. \A c \in P \ {a} : r.tiles[c] \in (b.insert_count + 1) .. r.insert_count
    BY <1>1, <1>2, <1>4
  <2>2. b.insert_count < r.insert_count
    BY <1>1, <1>2
  <2>3. \A c \in cells \ P : r.tiles[c] = b.tiles[c]
    BY <1>2
  <2> QED
    BY <1>3, <2>1, <2>2, <2>3 DEF Piece
<1> QED
  BY <1>2, <1>4, <1>5 DEF Covered, r, P

\* Every call covers its part, by the number of its halvings.
LEMMA CallsCover ==
    ASSUME NEW cells, NEW n \in Nat
    PROVE  CoversRight(cells, do_tromino(cells)[n], Side[n + 1])
<1> DEFINE f == do_tromino(cells)
           S == {h \in 0 .. n : CoversRight(cells, f[h], Side[h + 1])}
<1>1. /\ \A h \in Nat : f[h] \in Covers(cells)
      /\ \A b \in Tilings(cells), s \in Places, a \in Places : f[0][<<b, s, a>>] = Tile(Counted(b), s, a)
      /\ \A h \in Nat : \A b \in Tilings(cells), s \in Places, a \in Places :
            f[h + 1][<<b, s, a>>] = Quarters(f[h], b.insert_count + 1, s, Side[h + 1], a, Counted(b))
  BY DoTrominoIs
<1> HIDE DEF f
<1>2. 0 \in S
  <2>1. Side[0 + 1] = 2
    BY SideIs
  <2>2. ASSUME NEW b \in Tilings(cells), NEW s \in Places, NEW a \in Part(s, 2), Part(s, 2) \subseteq cells
        PROVE  Covered(cells, b, f[0][<<b, s, a>>], Part(s, 2), a)
    <3>1. a \in Places
      BY PartIs
    <3> QED
      BY <1>1, <2>2, <3>1, TileCovers
  <2>3. CoversRight(cells, f[0], 2)
    BY <2>2 DEF CoversRight
  <2> QED
    BY <2>1, <2>3
<1>3. ASSUME NEW h \in 0 .. n - 1, h \in S PROVE h + 1 \in S
  <2>1. h \in Nat /\ h + 1 \in Nat /\ h + 1 \in 0 .. n
    OBVIOUS
  <2>2. PICK half \in Nat \ {0} : half = Side[h + 1] /\ Side[(h + 1) + 1] = 2 * half
    BY <2>1, SideIs
  <2>3. CoversRight(cells, f[h], half)
    BY <1>3, <2>2
  <2>4. PICK size \in Nat : size = 2 * half
    OBVIOUS
  <2>5. ASSUME NEW b \in Tilings(cells), NEW s \in Places, NEW a \in Part(s, size), Part(s, size) \subseteq cells
        PROVE  Covered(cells, b, f[h + 1][<<b, s, a>>], Part(s, size), a)
    <3>1. a \in Places
      BY PartIs
    <3>2. f[h + 1][<<b, s, a>>] = Quarters(f[h], b.insert_count + 1, s, half, a, Counted(b))
      BY <1>1, <2>1, <2>2, <3>1
    <3>3. f[h] \in Covers(cells)
      BY <1>1, <2>1
    <3>4. PICK P : P = Part(s, size)
      OBVIOUS
    <3>5. P = Part(s, 2 * half) /\ P \subseteq cells /\ a \in P
      BY <2>4, <2>5, <3>4
    <3>6. Covered(cells, b, Quarters(f[h], b.insert_count + 1, s, half, a, Counted(b)), P, a)
      BY <2>3, <3>3, <3>5, QuartersCover
    <3> QED
      BY <3>2, <3>4, <3>6
  <2>6. CoversRight(cells, f[h + 1], size)
    BY <2>5 DEF CoversRight
  <2> QED
    BY <2>1, <2>2, <2>4, <2>6
<1>4. 0 .. n \subseteq S
  <2> HIDE DEF S
  <2> QED
    BY <1>2, <1>3, CountUp
<1> QED
  BY <1>4 DEF f

\* main's board: covered but for the hole, in tiles of three cells.
Tiled(t, P, at) ==
    /\ DOMAIN t = P /\ P \subseteq Places
    /\ t[at] = hole
    /\ \A c \in P \ {at} : t[c] \in Int /\ t[c] > 0 /\ IsTile({e \in P \ {at} : t[e] = t[c]}, P)

\* The tiling that main asks for.
LEMMA BoardIsCovered ==
    ASSUME NEW k \in Nat \ {0}, NEW at \in Board(Side[k])
    PROVE  Tiled(trominoTile(k, at), Board(Side[k]), at)
<1> DEFINE cells == Board(Side[k])
           b == create_tromino(Side[k], at)
           r == do_tromino(cells)[k - 1][<<b, <<0, 0>>, at>>]
           t == trominoTile(k, at)
<1>1. PICK n \in Nat : n = Side[k]
  BY SideIs
<1>2. cells = Part(<<0, 0>>, n) /\ <<0, 0>> \in Places
  BY <1>1 DEF Board, Places
<1>3. cells \subseteq Places
  BY <1>2, PartIs
<1>4. b \in Tilings(cells) /\ b.insert_count = 0 /\ b.tiles[at] = hole
  BY DEF create_tromino, Tilings, hole
<1>5. CoversRight(cells, do_tromino(cells)[k - 1], n)
  <2>1. k - 1 \in Nat /\ (k - 1) + 1 = k
    OBVIOUS
  <2> QED
    BY <1>1, <2>1, CallsCover
<1> HIDE DEF b
<1>6. Covered(cells, b, r, cells, at)
  BY <1>2, <1>4, <1>5 DEF CoversRight
<1>7. t = r.tiles
  BY DEF trominoTile, b
<1> HIDE DEF r, t
<1>8. /\ r.tiles \in [cells -> Int] /\ r.insert_count \in Nat
  <2>1. r \in Tilings(cells)
    BY <1>6 DEF Covered
  <2> QED
    BY <2>1, TilingsStayTilings
<1>9. ASSUME NEW c \in cells \ {at}
      PROVE  t[c] \in Int /\ t[c] > 0 /\ IsTile({e \in cells \ {at} : t[e] = t[c]}, cells)
  <2>1. r.tiles[c] \in (b.insert_count + 1) .. r.insert_count /\ IsTile(Alike(r, cells \ {at}, c), cells)
    BY <1>6 DEF Covered, Piece
  <2>2. t[c] \in 1 .. r.insert_count
    BY <1>4, <1>7, <2>1
  <2>3. Alike(r, cells \ {at}, c) = {e \in cells \ {at} : t[e] = t[c]}
    BY <1>7 DEF Alike
  <2> HIDE DEF cells
  <2>4. t[c] \in Int /\ t[c] > 0
    BY <1>8, <2>2
  <2> QED
    BY <2>1, <2>3, <2>4
<1>10. t[at] = hole
  BY <1>4, <1>6, <1>7 DEF Covered
<1> QED
  BY <1>3, <1>7, <1>8, <1>9, <1>10 DEF Tiled, t

\* tromino.c covers every board, of any size that is a power of two and with the
\* hole anywhere, with L-shaped tiles of three cells.
THEOREM TrominoIsRight == TrominoSpec => []TilesAreTrominoes
<1>1. TrominoInit => TilesAreTrominoes
  BY DEF TrominoInit, TilesAreTrominoes
<1>2. TilesAreTrominoes /\ [TrominoNext]_trominoVars => TilesAreTrominoes'
  <2>1. ASSUME TilesAreTrominoes, UNCHANGED trominoVars PROVE TilesAreTrominoes'
    <3>1. trominoPc' = trominoPc /\ tiles' = tiles
      BY <2>1 DEF trominoVars
    <3>2. CASE trominoPc # "done"
      BY <3>1, <3>2 DEF TilesAreTrominoes
    <3>3. CASE trominoPc = "done"
      <4>1. \A n : Cells(n)' = Cells(n)
        BY <3>1 DEF Cells
      <4> QED
        BY <2>1, <3>1, <4>1 DEF TilesAreTrominoes
    <3> QED
      BY <3>2, <3>3
  <2>2. ASSUME NEW k \in 0 .. MaxK, NEW at, MainTromino(k, at), trominoPc' = "done" PROVE TilesAreTrominoes'
    <3>1. k \in Nat \ {0} /\ at \in Board(Side[k]) /\ tiles' = trominoTile(k, at)
      <4>1. k \in Nat
        BY MaxKAssumption
      <4> QED
        BY <2>2, <4>1 DEF MainTromino
    <3> DEFINE P == Board(Side[k])
               Same(c) == {e \in P \ {at} : tiles'[e] = tiles'[c]}
    <3>2. /\ DOMAIN tiles' = P /\ P \subseteq Places
          /\ tiles'[at] = hole
          /\ \A c \in P \ {at} : tiles'[c] \in Int /\ tiles'[c] > 0 /\ IsTile(Same(c), P)
      <4>1. Tiled(tiles', P, at)
        BY <3>1, BoardIsCovered
      <4> HIDE DEF P
      <4> QED
        BY <4>1 DEF Tiled
    <3>3. at \in P
      BY <3>1
    <3> HIDE DEF P
    <3>4. Cardinality({c \in DOMAIN tiles' : tiles'[c] = hole}) = 1
      <4>1. ASSUME NEW c \in P, c # at PROVE tiles'[c] # hole
        <5>1. tiles'[c] \in Int /\ tiles'[c] > 0
          BY <3>2, <4>1
        <5> QED
          BY <5>1 DEF hole
      <4>2. {c \in DOMAIN tiles' : tiles'[c] = hole} = {at}
        BY <3>2, <3>3, <4>1
      <4> QED
        BY <4>2, FS_Singleton
    <3>5. ASSUME NEW c \in DOMAIN tiles', tiles'[c] # hole
          PROVE  /\ tiles'[c] > 0
                 /\ Cardinality({e \in DOMAIN tiles' : tiles'[e] = tiles'[c]}) = 3
                 /\ \E corner \in DOMAIN tiles' : \A d \in {e \in DOMAIN tiles' : tiles'[e] = tiles'[c]} :
                       d[1] - corner[1] \in {0, 1} /\ d[2] - corner[2] \in {0, 1}
      <4>1. c \in P \ {at} /\ tiles'[c] \in Int /\ tiles'[c] > 0 /\ IsTile(Same(c), P)
        BY <3>2, <3>5
      <4>2. {e \in DOMAIN tiles' : tiles'[e] = tiles'[c]} = Same(c)
        BY <3>2, <3>5
      <4> HIDE DEF Same
      <4>3. PICK x \in Places : \E d \in Part(x, 2) : Part(x, 2) \subseteq P /\ Same(c) = Part(x, 2) \ {d}
        BY <4>1 DEF IsTile
      <4>4. PICK d \in Part(x, 2) : Part(x, 2) \subseteq P /\ Same(c) = Part(x, 2) \ {d}
        BY <4>3
      <4>5. Cardinality(Same(c)) = 3
        BY <4>4, TileHasThree
      <4>6. x \in Part(x, 2)
        <5>1. x[1] \in Int /\ x[2] \in Int
          BY DEF Places
        <5> QED
          BY <5>1, PartIs
      <4>7. ASSUME NEW e \in Same(c) PROVE e[1] - x[1] \in {0, 1} /\ e[2] - x[2] \in {0, 1}
        <5>1. e \in Part(x, 2)
          BY <4>4
        <5>2. e \in Places
          BY <5>1, PartIs
        <5>3. e[1] \in Int /\ e[2] \in Int /\ x[1] \in Int /\ x[2] \in Int
          BY <5>2 DEF Places
        <5>4. x[1] <= e[1] /\ e[1] < x[1] + 2 /\ x[2] <= e[2] /\ e[2] < x[2] + 2
          BY <5>1, <5>2, PartIs
        <5> QED
          BY <5>3, <5>4
      <4> QED
        BY <3>2, <4>1, <4>2, <4>4, <4>5, <4>6, <4>7
    <3> QED
      BY <3>4, <3>5 DEF TilesAreTrominoes, Cells
  <2>3. ASSUME NEW k \in 0 .. MaxK, NEW at, MainTromino(k, at) PROVE TilesAreTrominoes'
    BY <2>2, <2>3 DEF TilesAreTrominoes
  <2>4. ASSUME TrominoNext PROVE TilesAreTrominoes'
    BY <2>3, <2>4 DEF TrominoNext
  <2> QED
    BY <2>1, <2>4
<1> QED
  BY <1>1, <1>2, PTL DEF TrominoSpec

-----------------------------------------------------------------------------
\* All the results of the algorithms are right, whatever the input files: the
\* knapsacks of Q1-1, Q1-2 and Q1-3, the distances of Q2_dijikstra, the product
\* of strassen and the tiling of tromino.
THEOREM AlgorithmsAreRight == AlgorithmsSpec => []ResultsAreRight
<1>1. AlgorithmsSpec => []KnapsackIsBest /\ []DistancesAreShortest /\ []ProductsAgree /\ []TilesAreTrominoes
  BY KnapsackIsRight, ShortestPaths, StrassenIsRight, TrominoIsRight DEF AlgorithmsSpec
<1>2. KnapsackIsBest /\ DistancesAreShortest /\ ProductsAgree /\ TilesAreTrominoes => ResultsAreRight
  BY DEF ResultsAreRight
<1> QED
  BY <1>1, <1>2, PTL
=============================================================================
