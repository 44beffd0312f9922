------------------------------ MODULE WasmHeap -----------------------------
(***************************************************************************)
(* The heap of the WebAssembly exports: cosmoz_allocate hands out memory   *)
(* from one end of a region to the other and asks the host for more;       *)
(* cosmoz_free takes back the block handed out last; cosmoz_reset_heap     *)
(* takes back everything.  Rust's own allocator grows the same memory, so  *)
(* that the next pages need not be next to the region; then a new region   *)
(* begins.                                                                 *)
(***************************************************************************)
EXTENDS Integers

CONSTANTS
  Page,           \* PAGE_SIZE
  Alignment,      \* HEAP_ALIGNMENT
  InitialMemory,  \* static data and stack
  MaxMemory,      \* what the host grants; its end fits a usize
  MaxLength       \* bound: length of a block

ASSUME WasmHeapAssumption ==
  /\ Page \in Nat \ {0} /\ Alignment \in Nat \ {0}
  /\ InitialMemory \in Nat \ {0} /\ MaxMemory \in Nat /\ MaxMemory >= InitialMemory
  /\ MaxLength \in Nat

VARIABLES
  heapStart,   \* HEAP_START
  heapUsed,    \* HEAP_USED
  heapEnd,     \* HEAP_END
  memory,      \* get_memory_end
  granted,     \* history: the bytes memory_grow gave to this heap
  live         \* history: the blocks the callers have

vars == <<heapStart, heapUsed, heapEnd, memory, granted, live>>

\* div_ceil.
DivCeil(value, unit) == (value + unit - 1) \div unit

\* Broken: aligns down.
BrokenAlignUp(value) == (value \div Alignment) * Alignment

\* align_up.
AlignUp(value) == DivCeil(value, Alignment) * Alignment

Init ==
  /\ heapStart = 0 /\ heapUsed = 0 /\ heapEnd = 0
  /\ memory = InitialMemory
  /\ granted = {} /\ live = {}

Start == AlignUp(heapUsed)

Fits(length) == heapEnd # 0 /\ Start + length <= heapEnd

\* Broken: a region always goes on where it ended.
BrokenGrownStart == IF heapEnd = 0 THEN memory ELSE Start

\* Where the block begins when the memory is grown for it.
GrownStart == IF heapEnd # memory THEN memory ELSE Start

GrownEnd(length) == memory + DivCeil(GrownStart + length - memory, Page) * Page

HandOut(start, length) ==
  /\ heapUsed' = start + length
  /\ live' = live \cup {[start |-> start, length |-> length]}

\* cosmoz_allocate, of what is left of the region.
Allocate(length) ==
  /\ Fits(length)
  /\ HandOut(Start, length)
  /\ UNCHANGED <<heapStart, heapEnd, memory, granted>>

\* cosmoz_allocate, with new pages: of the same region or of a new one.
AllocateGrown(length) ==
  /\ ~Fits(length)
  /\ GrownEnd(length) <= MaxMemory
  /\ HandOut(GrownStart, length)
  /\ heapStart' = IF heapEnd # memory THEN GrownStart ELSE heapStart
  /\ heapEnd' = GrownEnd(length)
  /\ memory' = GrownEnd(length)
  /\ granted' = granted \cup (memory..GrownEnd(length) - 1)

\* cosmoz_allocate, refused by the host when heap_start has moved already.
AllocateFails(length) ==
  /\ ~Fits(length)
  /\ heapStart' = IF heapEnd # memory THEN GrownStart ELSE heapStart
  /\ UNCHANGED <<heapUsed, heapEnd, memory, granted, live>>

IsLast(block) == block.start >= heapStart /\ block.start + block.length = heapUsed

\* cosmoz_free, of a block the caller has.
Free(block) ==
  /\ live' = live \ {block}
  /\ heapUsed' = IF IsLast(block) THEN block.start ELSE heapUsed
  /\ UNCHANGED <<heapStart, heapEnd, memory, granted>>

\* cosmoz_reset_heap; the callers give up what they have.
ResetHeap ==
  /\ heapUsed' = heapStart
  /\ live' = {}
  /\ UNCHANGED <<heapStart, heapEnd, memory, granted>>

\* Rust's allocator takes pages.
OthersGrow ==
  /\ memory + Page <= MaxMemory
  /\ memory' = memory + Page
  /\ UNCHANGED <<heapStart, heapUsed, heapEnd, granted, live>>

Next ==
  \/ \E length \in 0..MaxLength :
       Allocate(length) \/ AllocateGrown(length) \/ AllocateFails(length)
  \/ \E block \in live : Free(block)
  \/ ResetHeap
  \/ OthersGrow

Spec == Init /\ [][Next]_vars
-----------------------------------------------------------------------------
TypeOK ==
  /\ heapStart \in Nat /\ heapUsed \in Nat /\ heapEnd \in Nat
  /\ memory \in InitialMemory..MaxMemory
  /\ granted \subseteq Nat
  /\ live \subseteq [start : Nat, length : 0..MaxLength]

InBlock(address, block) == block.start <= address /\ address < block.start + block.length

\* No two callers have the same byte, in whatever order blocks are given back
\* and whoever else grows the memory between.
BlocksAreDisjoint ==
  \A first, second \in live : \A address \in first.start..first.start + first.length - 1 :
    InBlock(address, second) => first = second

\* No caller has a byte of static data, of the stack, or of Rust's allocator.
BlocksAreGranted ==
  \A block \in live : \A address \in block.start..block.start + block.length - 1 : address \in granted

-----------------------------------------------------------------------------
\* What makes it so: what lies between used and end is granted and nobody's,
\* and would be after a reset.
FreeSpace ==
  /\ \A address \in heapUsed..heapEnd - 1 :
       address \in granted /\ \A block \in live : ~InBlock(address, block)
  /\ \A address \in heapStart..heapEnd - 1 : address \in granted

\* A region at the end of memory is in order; behind the end is nobody.
Region ==
  /\ heapEnd <= memory
  /\ heapEnd = memory => heapUsed <= heapEnd
  /\ heapEnd = memory => heapStart <= heapEnd
  /\ \A address \in granted : address < memory

IInv == TypeOK /\ BlocksAreDisjoint /\ BlocksAreGranted /\ FreeSpace /\ Region
=============================================================================
