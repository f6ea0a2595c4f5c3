--------------------------- MODULE MemorySimulator --------------------------
(***************************************************************************)
(* The memory of the program that Borealis' executor runs: a segment tree  *)
(* whose lower half serves alloca and whose upper half serves malloc, both *)
(* by moving an offset forward.  Freed addresses are never handed out      *)
(* again, and stack blocks are never released.                             *)
(*                                                                         *)
(* One action per memory operation the simulated program makes.  A signal  *)
(* is an exception that ends the program; TassadarCheckerPass takes it as  *)
(* the proof that the defect it replays is real.                           *)
(*                                                                         *)
(* Addresses count from the start of the tree.  Globals are not modelled.  *)
(***************************************************************************)
EXTENDS SegmentTree

CONSTANTS MallocSizes, AllocaSizes,  \* block sizes asked for
          Data,                      \* byte strings that are stored
          CopySizes,                 \* sizes that memset, memcpy and loads use
          Pointers,                  \* addresses that the program uses
          MaxBlocks, MaxOps          \* bounds on allocations and other calls

\* Both halves of the tree are made of whole chunks: memory-power is 33.
ASSUME HalvesAssumption == Depth # 0
ASSUME SizesAssumption ==
    MallocSizes \subseteq Nat /\ AllocaSizes \subseteq Nat /\ CopySizes \subseteq Nat
ASSUME PointersAssumption == Pointers \subseteq Addresses
ASSUME DataAssumption == Data \subseteq Seq(Bytes)
ASSUME ImagesAssumption == {"calloced", "anything"} \cap Bytes = {}
ASSUME BoundsAssumption == MaxBlocks \in Nat /\ MaxOps \in Nat

VARIABLES
    tree,                   \* Impl::tree
    currentAllocOffset, currentMallocOffset,
    ending,                 \* "ok", or what ended the program
    blocks,                 \* history: the blocks in use, as the program sees
    image,                  \* history: what the program last put at an address
    ops                     \* bounded counter

offsets == <<currentAllocOffset, currentMallocOffset>>
vars == <<tree, offsets, ending, blocks, image, ops>>

HalfSize == Size \div 2
allocStart == 0
mallocStart == HalfSize

Block(start, size) == [start |-> start, size |-> size]
BlockAddresses(b) == Span(b.start, b.size)

\* An address holds a stored byte, the zero of calloc, or nothing definite.
Images == Bytes \cup {"calloced", "anything"}

-----------------------------------------------------------------------------
Init ==
    /\ tree = EmptyTree
    /\ currentAllocOffset = 0
    /\ currentMallocOffset = 0
    /\ ending = "ok"
    /\ blocks = {}
    /\ image = [a \in Addresses |-> "anything"]
    /\ ops = 0

Running == ending = "ok"

Call ==
    /\ Running
    /\ ops < MaxOps
    /\ ops' = ops + 1
    /\ UNCHANGED offsets

Look == Running /\ UNCHANGED <<offsets, ops>>

\* The history follows what the program was promised, when nothing was signalled.
Finish(result, newBlocks, newImage) ==
    /\ tree' = result.tree
    /\ ending' = result.ending
    /\ blocks' = IF result.ending = "ok" THEN newBlocks ELSE blocks
    /\ image' = IF result.ending = "ok" THEN newImage ELSE image

Put(string) ==
    [a \in Addresses |-> IF a \in DOMAIN string THEN string[a] ELSE image[a]]

-----------------------------------------------------------------------------
(* Allocation                                                              *)

calc_real_memory_amount(amount) ==
    LET amounts == {ChunkSize * 2^k : k \in 0..(Depth + 1)}
    IN CHOOSE r \in amounts : /\ amount <= r
                              /\ \A s \in amounts : amount <= s => r <= s

\* Mutant: the offset is rounded down to a multiple of the block's size.
AlignDown(offset, real) == (offset \div real) * real

Align(offset, real) ==
    IF offset % real = 0 THEN offset ELSE (offset \div real + 1) * real

\* Mutant: the offset is not counted from the start of its half.
OffsetAbsolute(ptr, real, start) == ptr + real

OffsetAfter(ptr, real, start) == ptr + real - start

AllocateMemory(amount) ==
    LET real == calc_real_memory_amount(amount)
        ptr == allocStart + Align(currentAllocOffset, real)
        result == Allocate(tree, ptr, amount, "Uninit", "Alloca")
    IN /\ Running
       /\ Cardinality(blocks) < MaxBlocks
       /\ Finish(result, blocks \cup {Block(ptr, amount)},
                 Put(Fill(ptr, amount, "anything")))
       /\ currentAllocOffset' =
            IF result.ending = "ok" THEN OffsetAfter(ptr, real, allocStart)
                                    ELSE currentAllocOffset
       /\ UNCHANGED <<currentMallocOffset, ops>>

MallocMemory(amount, zero) ==
    LET real == calc_real_memory_amount(amount)
        ptr == mallocStart + Align(currentMallocOffset, real)
        result == Allocate(tree, ptr, amount,
                           IF zero THEN "Memset" ELSE "Uninit", "Malloc")
    IN /\ Running
       /\ Cardinality(blocks) < MaxBlocks
       /\ Finish(result, blocks \cup {Block(ptr, amount)},
                 Put(Fill(ptr, amount, IF zero THEN "calloced" ELSE "anything")))
       /\ currentMallocOffset' =
            IF result.ending = "ok" THEN OffsetAfter(ptr, real, mallocStart)
                                    ELSE currentMallocOffset
       /\ UNCHANGED <<currentAllocOffset, ops>>

FreeMemory(ptr) ==
    LET freed == {b \in blocks : b.start = ptr /\ ptr >= mallocStart}
        addresses == UNION {BlockAddresses(b) : b \in freed}
    IN /\ Call
       /\ Finish(Free(tree, ptr, "Malloc"), blocks \ freed,
                 [a \in Addresses |->
                    IF a \in addresses THEN "anything" ELSE image[a]])

-----------------------------------------------------------------------------
(* Stores                                                                  *)

\* StoreIntToMemory hands the bytes of the integer on to this one.
StoreBytesToMemory(where, data) ==
    /\ Call
    /\ Finish(Store(tree, where, data), blocks,
              Put(String(where, data)))

MemsetMemory(where, fill, size) ==
    /\ Call
    /\ Finish(Memset(tree, where, fill, size), blocks,
              Put(Fill(where, size, "anything")))

-----------------------------------------------------------------------------
(* Loads                                                                   *)

Crosses(where, size) == where \div ChunkSize # (where + size - 1) \div ChunkSize

Gave(data) == [ending |-> "ok", data |-> data]
Failed(why) == [ending |-> why, data |-> <<>>]

\* One get for all bytes of the chunk; uninitialised memory leaves the result.
LoadInt(where, size) ==
    LET got == Get(tree, where)
    IN CASE Crosses(where, size) -> Failed("unsupported")
         [] ~Crosses(where, size) /\ got \in {"read violation", "crash"} ->
              Failed(got)
         [] ~Crosses(where, size) /\ got = "Uninit" -> Gave(<<>>)
         [] OTHER -> Gave([i \in 1..size |-> Get(tree, where + i - 1)])

\* The slices begin at the first address and at each chunk after it.
Slices(where, size) ==
    {a \in Addresses : /\ where <= a /\ a < where + size
                       /\ a = where \/ a % ChunkSize = 0}

\* A string that starts inside a chunk and is shorter than a chunk: the length
\* of its slice comes out as size - 2 * offset, which the loop cannot use.
Short(where, size) == where % ChunkSize > 0 /\ size < ChunkSize /\ size > 0

\* The buffer is zero where the load gave up at uninitialised memory.
LoadBytes(where, size) ==
    LET bad == {a \in Slices(where, size) : Get(tree, a) \in NoData}
        stop == IF bad = {} THEN where + size
                ELSE CHOOSE a \in bad : \A b \in bad : a <= b
        data == [i \in 1..size |->
                   IF where + i - 1 < stop THEN Get(tree, where + i - 1) ELSE Zero]
    IN CASE bad # {} /\ Get(tree, stop) # "Uninit" -> Failed(Get(tree, stop))
         [] bad = {} /\ Short(where, size) ->
              Failed(IF size = 2 * (where % ChunkSize) THEN "hang" ELSE "crash")
         [] OTHER -> Gave(data)

Ended(load) == Ends(load.ending, tree)

LoadIntFromMemory(where, size) ==
    Look /\ Finish(Ended(LoadInt(where, size)), blocks, image)

LoadBytesFromMemory(where, size) ==
    Look /\ Finish(Ended(LoadBytes(where, size)), blocks, image)

SearchMemory(where, ch, limit) ==
    Look /\ Finish(Ends(MemChr(tree, where, ch, limit), tree), blocks, image)

\* executeMemcpy and executeMemmove: through a buffer, whatever the load said.
CopyMemory(dst, src, size) ==
    LET load == LoadBytes(src, size)
    IN /\ Call
       /\ IF load.ending # "ok" THEN Finish(Ended(load), blocks, image)
          ELSE Finish(Store(tree, dst, load.data), blocks,
                      Put(String(dst, [i \in 1..size |->
                                         IF load.data[i] \in Bytes
                                           THEN load.data[i] ELSE "anything"])))

-----------------------------------------------------------------------------
\* Strings inside the (huge) tree.
Starts(size) == {a \in Pointers : a + size <= Size}

Allocation ==
    \/ \E amount \in AllocaSizes : AllocateMemory(amount)
    \/ \E amount \in MallocSizes, zero \in BOOLEAN : MallocMemory(amount, zero)
    \/ \E ptr \in Pointers : FreeMemory(ptr)

Storing ==
    \/ \E data \in Data : \E where \in Starts(Len(data)) :
           StoreBytesToMemory(where, data)
    \/ \E size \in CopySizes, fill \in Bytes : \E where \in Starts(size) :
           MemsetMemory(where, fill, size)

Loading ==
    \/ \E size \in CopySizes : \E where \in Starts(size) :
           \/ size \in 1..ChunkSize /\ LoadIntFromMemory(where, size)
           \/ LoadBytesFromMemory(where, size)
           \/ \E ch \in Bytes : SearchMemory(where, ch, size)
    \/ \E where \in Pointers : SearchMemory(where, Zero, Size + 1)
    \/ \E size \in CopySizes : \E dst, src \in Starts(size) :
           CopyMemory(dst, src, size)

Next == Allocation \/ Storing \/ Loading

Spec == Init /\ [][Next]_vars

-----------------------------------------------------------------------------
(* Properties                                                              *)

NodeType ==
    [status : Statuses, state : States, memSetTo : Bytes \cup {DefaultFill},
     chunk : {NoChunk} \cup [1..ChunkSize -> Bytes \cup {Garbage}],
     reallyAllocated : 0..Size]

\* Every variable has its type; the tree is one: what lies above a node that is
\* present is present, and a chunk belongs to a leaf.
TypeOK ==
    /\ DOMAIN tree \subseteq Nodes
    /\ \A n \in DOMAIN tree :
         /\ tree[n] \in NodeType
         /\ Ancestors[n] \subseteq DOMAIN tree
         /\ tree[n].chunk # NoChunk => IsLeaf(n)
    /\ currentAllocOffset \in 0..Size
    /\ currentMallocOffset \in 0..HalfSize
    /\ ending \in Endings
    /\ blocks \subseteq [start : Addresses, size : 0..Size]
    /\ image \in [Addresses -> Images]
    /\ ops \in 0..MaxOps

\* Nothing compares a stack block with allocEnd: a stack that has filled its
\* half goes on into the blocks of malloc.
StackInItsHalf == currentAllocOffset <= HalfSize

\* A byte that a store or a memcpy put somewhere is what a load finds there,
\* until it is overwritten or freed: no allocation, free, memset or store at
\* other addresses, in any order, loses it, though all of them rebuild the tree
\* above it and hand states down through it.
StoredBytesReadBack ==
    StackInItsHalf =>
    \A a \in Addresses : image[a] \in Bytes => Get(tree, a) = image[a]

\* "Allocated segment inside other allocated segment detected" is signalled for
\* a state the allocations never build.
NoNestedSegments ==
    StackInItsHalf =>
    \A n \in DOMAIN tree : \A m \in Ancestors[n] :
        ~(Allocated(tree, m) /\ Allocated(tree, n))

\* A store into a block is never reported: checkAllocation raises no false alarm
\* about a block in use, however its nodes were split since.
StoresIntoBlocksPass ==
    StackInItsHalf =>
    \A b \in blocks : \A where \in BlockAddresses(b) :
        \A size \in 1..(b.start + b.size - where) :
            StoreEnding(tree, where, size) = "ok"

InUse(a) == \E b \in blocks : a \in BlockAddresses(b)

\* A store that begins outside all blocks, in freed memory for example, is
\* always reported, also where a memset or a neighbour has made nodes since.
StrayStoresAreCaught ==
    StackInItsHalf =>
    \A where \in Addresses : ~InUse(where) =>
        StoreEnding(tree, where, 1) = "write violation"

\* MallocFill::ZERO: a byte of calloc that nothing was written to reads as zero.
CallocedBytesAreZero ==
    \A a \in Addresses : image[a] = "calloced" => Get(tree, a) = Zero

\* "if we start in the middle of a chunk": LoadBytesFromMemory reads any string
\* of stored bytes, wherever in a chunk it starts.
StoredStringsLoad ==
    \A where \in Addresses : \A size \in 1..ChunkSize :
        where + size <= Size
            /\ (\A a \in where..(where + size - 1) : image[a] \in Bytes)
        => LoadBytes(where, size).ending = "ok"
=============================================================================
