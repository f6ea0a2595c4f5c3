----------------------------- MODULE SegmentTree ----------------------------
(***************************************************************************)
(* The lazily built segment tree under the memory simulator of Borealis'   *)
(* executor (Executor/MemorySimulator/SegmentTreeImpl).  A tree covers the *)
(* simulated addresses; its leaves are chunks, its inner nodes halve the   *)
(* range of their parent.  A node that is present may hold a block handed  *)
(* out by an allocation, and a state that stands for all bytes below it.   *)
(*                                                                         *)
(* Trees are values here: an operation takes one and gives back a new tree *)
(* together with the way the operation ended.                              *)
(***************************************************************************)
EXTENDS Integers, Sequences, FiniteSets

CONSTANTS ChunkSize,    \* bytes of a leaf, chunk_size
          Depth,        \* the tree has 2^Depth leaves, executor/memory-power
          Bytes         \* byte values that programs store, in hexadecimal

Zero == "00"
DefaultFill == "ff"
Garbage == "garbage"      \* a byte of new uint8_t[chunk_size]

ASSUME ChunkAssumption == ChunkSize \in Nat \ {0}
ASSUME DepthAssumption == Depth \in Nat
ASSUME BytesAssumption == Zero \in Bytes /\ Bytes \subseteq STRING

-----------------------------------------------------------------------------
(* Shape: a node is the range it covers, <<its first address, its length>> *)

Size == ChunkSize * 2^Depth
Addresses == 0..(Size - 1)

NodesOf(length) == {<<length * i, length>> : i \in 0..((Size \div length) - 1)}
Nodes == UNION {NodesOf(ChunkSize * 2^k) : k \in 0..Depth}

First(n) == n[1]
Length(n) == n[2]
Limit(n) == n[1] + n[2]
IsLeaf(n) == Length(n) <= ChunkSize

Covers(n, a) == First(n) <= a /\ a < Limit(n)
Inside(n, m) == First(m) <= First(n) /\ Limit(n) <= Limit(m)
Above(m, n) == m # n /\ Inside(n, m)
Ancestors == [n \in Nodes |-> {m \in Nodes : Above(m, n)}]

Root == <<0, Size>>
Children(n) == {<<First(n), Length(n) \div 2>>,
                <<First(n) + Length(n) \div 2, Length(n) \div 2>>}

\* The nodes a descent to an address passes, and those a split descent does.
Paths == [a \in Addresses |-> {n \in Nodes : Covers(n, a)}]
Touched(where, size) ==
    {n \in Nodes : Covers(n, where)
                    \/ (First(n) < where + size /\ where < Limit(n))}

Smallest(nodes) == CHOOSE n \in nodes : \A m \in nodes : Length(n) <= Length(m)
Largest(nodes) == CHOOSE n \in nodes : \A m \in nodes : Length(m) <= Length(n)

\* The part of [where, where + size) that a descent hands to a node.
From(n, where) == IF where < First(n) THEN First(n) ELSE where
To(n, limit) == IF limit > Limit(n) THEN Limit(n) ELSE limit

Statuses == {"Unallocated", "Malloc", "Alloca"}
States == {"Memset", "Uninit", "Unknown"}

NoChunk == <<>>

Node(status, state, fill, chunk, size) ==
    [status |-> status, state |-> state, memSetTo |-> fill, chunk |-> chunk,
     reallyAllocated |-> size]

FreshNode == Node("Unallocated", "Unknown", DefaultFill, NoChunk, 0)

\* root == nullptr
EmptyTree == [n \in {} |-> FreshNode]

-----------------------------------------------------------------------------
(* How an operation ends                                                   *)

Signals == {"out of memory", "write violation", "read violation",
            "free violation", "inconsistency", "unsupported"}
Failures == {"abort", "crash", "hang"}
Endings == {"ok"} \cup Signals \cup Failures

Ends(ending, tree) == [ending |-> ending, tree |-> tree]

-----------------------------------------------------------------------------
(* stateInvalidatingTraverser: a descent that will change something below  *)

\* What force makes of an absent node, the derived state included.
Forced(tree, n) ==
    LET above == Ancestors[n] \cap DOMAIN tree
    IN IF n \in DOMAIN tree THEN tree[n]
       ELSE IF above = {} THEN FreshNode
       ELSE [FreshNode EXCEPT !.state = tree[Smallest(above)].state,
                              !.memSetTo = tree[Smallest(above)].memSetTo]

\* Mutant: the state stays at the parent when it is handed to the children.
DescendKeeps(tree, opened) ==
    LET forced == {Root} \cup opened \cup UNION {Children(n) : n \in opened}
    IN [n \in forced \cup DOMAIN tree |-> Forced(tree, n)]

\* Every opened node gets both children and hands its state down to new ones.
Descend(tree, opened) ==
    LET forced == {Root} \cup opened \cup UNION {Children(n) : n \in opened}
    IN [n \in forced \cup DOMAIN tree |->
          IF n \in opened THEN [Forced(tree, n) EXCEPT !.state = "Unknown"]
                          ELSE Forced(tree, n)]

-----------------------------------------------------------------------------
(* allocate                                                                *)

Fits(n, where, size) ==
    \/ First(n) = where /\ Length(n) \div 2 < size /\ size <= Length(n)
    \/ IsLeaf(n)

Allocate(tree, where, size, state, status) ==
    LET target == Largest({n \in Paths[where] : Fits(n, where, size)})
        fill(n) == IF state = "Memset" THEN Zero ELSE n.memSetTo
    IN IF size > Size THEN Ends("out of memory", tree)
       ELSE IF where >= Size \/ size > Length(target) THEN Ends("abort", tree)
       ELSE Ends("ok",
              [Descend(tree, Ancestors[target]) EXCEPT
                 ![target] = Node(status, state, fill(@), @.chunk, size)])

-----------------------------------------------------------------------------
(* store                                                                   *)

Allocated(tree, n) == n \in DOMAIN tree /\ tree[n].status # "Unallocated"

\* checkAllocation, and didAlloc at a chunk: what is wrong at one node.
StoreFault(tree, n, where, size) ==
    LET didAlloc == \E m \in Ancestors[n] : Allocated(tree, m)
    IN CASE Allocated(tree, n) /\ didAlloc -> "inconsistency"
         [] Allocated(tree, n) /\ ~didAlloc ->
              IF To(n, where + size) > First(n) + tree[n].reallyAllocated
                THEN "write violation" ELSE "ok"
         [] OTHER ->
              IF IsLeaf(n) /\ ~didAlloc THEN "write violation" ELSE "ok"

\* The traversal is a preorder one: the leftmost, then topmost fault is thrown.
StoreEnding(tree, where, size) ==
    LET faulty == {n \in Touched(where, size) :
                     StoreFault(tree, n, where, size) # "ok"}
        leftmost == {n \in faulty : \A m \in faulty : First(n) <= First(m)}
    IN IF faulty = {} THEN "ok"
       ELSE StoreFault(tree, Largest(leftmost), where, size)

\* allocateChunk keeps a chunk; a new one holds garbage.
Chunk(n) == IF n.chunk = NoChunk THEN [i \in 1..ChunkSize |-> Garbage]
                                 ELSE n.chunk

\* The addresses of a string, and what it puts there.
Span(where, size) == where..(where + size - 1)
String(where, data) == [a \in Span(where, Len(data)) |-> data[a - where + 1]]
Fill(where, size, fill) == [a \in Span(where, size) |-> fill]

\* The chunk at a leaf takes its bytes of a string.
Written(leaf, node, string) ==
    [node EXCEPT !.state = "Unknown",
                 !.chunk = [i \in 1..ChunkSize |->
                              LET a == First(leaf) + i - 1
                              IN IF a \in DOMAIN string THEN string[a]
                                                        ELSE Chunk(node)[i]]]

\* Mutant: the right half is handed the data of the left one.
StoreRestarts(tree, where, data) ==
    LET touched == Touched(where, Len(data))
        opened == {n \in touched : ~IsLeaf(n)}
        descended == Descend(tree, opened)
    IN IF StoreEnding(tree, where, Len(data)) # "ok"
         THEN Ends(StoreEnding(tree, where, Len(data)), tree)
         ELSE Ends("ok", [n \in DOMAIN descended |->
                 IF n \in touched /\ IsLeaf(n)
                   THEN Written(n, descended[n], String(From(n, where), data))
                   ELSE descended[n]])

Store(tree, where, data) ==
    LET size == Len(data)
        touched == Touched(where, size)
        descended == Descend(tree, {n \in touched : ~IsLeaf(n)})
    IN IF StoreEnding(tree, where, size) # "ok"
         THEN Ends(StoreEnding(tree, where, size), tree)
         ELSE Ends("ok", [n \in DOMAIN descended |->
                 IF n \in touched /\ IsLeaf(n)
                   THEN Written(n, descended[n], String(where, data))
                   ELSE descended[n]])

-----------------------------------------------------------------------------
(* get, the load traversal, and memchr                                     *)

HasState(tree, n) == n \in DOMAIN tree /\ tree[n].state # "Unknown"

\* Where the descent to an address stops: at an absent node, at one whose state
\* speaks for all below it, or at the chunk.
Stop(tree, a) ==
    Smallest({n \in Paths[a] :
                \A m \in Ancestors[n] :
                    m \in DOMAIN tree /\ ~HasState(tree, m)})

\* A byte, or why there is none: nothing is here, it is uninitialised, or the
\* chunk is a null pointer, which the code reads all the same.
Get(tree, a) ==
    LET n == Stop(tree, a)
    IN IF n \notin DOMAIN tree THEN "read violation"
       ELSE CASE tree[n].state = "Memset" -> tree[n].memSetTo
              [] tree[n].state = "Uninit" -> "Uninit"
              [] OTHER -> IF tree[n].chunk = NoChunk THEN "crash"
                          ELSE tree[n].chunk[a - First(n) + 1]

NoData == {"read violation", "Uninit", "crash"}

\* The first address below the limit that settles the search settles it.
MemChr(tree, where, ch, limit) ==
    LET hits == {a \in Addresses : /\ where <= a /\ a < where + limit
                                   /\ Get(tree, a) \in NoData \cup {ch}}
        hit == CHOOSE a \in hits : \A b \in hits : a <= b
    IN IF hits = {} THEN IF where + limit > Size THEN "abort" ELSE "ok"
       ELSE CASE Get(tree, hit) = "Uninit" -> "read violation"
              [] Get(tree, hit) \in NoData \ {"Uninit"} -> Get(tree, hit)
              [] OTHER -> "ok"

-----------------------------------------------------------------------------
(* free                                                                    *)

\* Mutant: deallocateChunk instead of resetting the node.
FreeKeepsNode(tree, where, desiredStatus) ==
    LET blocks == {n \in Paths[where] : /\ n \in DOMAIN tree
                                        /\ First(n) = where
                                        /\ tree[n].status = desiredStatus}
    IN IF blocks # {}
         THEN Ends("ok", [tree EXCEPT ![Largest(blocks)].chunk = NoChunk])
         ELSE Ends("free violation", tree)

\* A block goes with all below it; a chunk with another status is left alone.
Free(tree, where, desiredStatus) ==
    LET blocks == {n \in Paths[where] : /\ n \in DOMAIN tree
                                        /\ First(n) = where
                                        /\ tree[n].status = desiredStatus}
    IN IF blocks # {}
         THEN Ends("ok", [n \in {m \in DOMAIN tree : ~Inside(m, Largest(blocks))}
                            |-> tree[n]])
         ELSE IF Paths[where] \subseteq DOMAIN tree THEN Ends("ok", tree)
         ELSE Ends("free violation", tree)

-----------------------------------------------------------------------------
(* memset                                                                  *)

\* The descent ends at a node with a state, which it fills as a whole, or at
\* chunks.  Nothing asks whether the addresses belong to a block.
MemsetStops(tree, where, size) ==
    {n \in Touched(where, size) :
        /\ HasState(tree, n) \/ IsLeaf(n)
        /\ \A m \in Ancestors[n] : ~HasState(tree, m)}

\* ASSERTC(where + size < maxbound), for a piece that is not a whole chunk.
ReachesEnd(n, where, size) ==
    /\ IsLeaf(n)
    /\ where + size >= Limit(n)
    /\ From(n, where) > First(n)

Filled(n, node, where, size, fill) ==
    IF IsLeaf(n) /\ ~(where <= First(n) /\ Limit(n) <= where + size)
         THEN Written(n, node, Fill(where, size, fill))
         ELSE [node EXCEPT !.state = "Memset", !.memSetTo = fill,
                           !.chunk = IF IsLeaf(n) THEN NoChunk ELSE @]

\* Mutant: the test for MemoryState::Unknown is dropped, one level above chunks.
MemsetEager(tree, where, fill, size) ==
    LET stops == {n \in Touched(where, size) : Length(n) = 2 * ChunkSize}
        descended == Descend(tree, UNION {Ancestors[n] : n \in stops})
    IN Ends("ok", [n \in DOMAIN descended |->
             IF n \in stops
               THEN [descended[n] EXCEPT !.state = "Memset", !.memSetTo = fill]
               ELSE descended[n]])

Memset(tree, where, fill, size) ==
    LET stops == MemsetStops(tree, where, size)
        opened == UNION {Ancestors[n] : n \in stops}
        descended == Descend(tree, opened)
    IN IF \E n \in stops : ReachesEnd(n, where, size)
         THEN Ends("abort", tree)
         ELSE Ends("ok", [n \in DOMAIN descended |->
                 IF n \in stops
                   THEN Filled(n, descended[n], where, size, fill)
                   ELSE descended[n]])
=============================================================================
