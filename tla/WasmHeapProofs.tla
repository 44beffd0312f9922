--------------------------- MODULE WasmHeapProofs ---------------------------
(***************************************************************************)
(* The blocks of the WebAssembly heap are disjoint and lie in memory that  *)
(* was granted to it, for every page size, alignment and order of calls.   *)
(* The inductive invariant is IInv of WasmHeap.                            *)
(***************************************************************************)
EXTENDS WasmHeap, TLAPS

\* Rounding up goes up.
LEMMA DivCeilBounds ==
  ASSUME NEW value \in Nat, NEW unit \in Nat \ {0}
  PROVE  DivCeil(value, unit) \in Nat /\ DivCeil(value, unit) * unit >= value
<1> DEFINE q == (value + unit - 1) \div unit
<1>1. q \in Int
  OBVIOUS
<1>2. value + unit - 1 < (q + 1) * unit
  OBVIOUS
<1>3. q >= 0
  OBVIOUS
<1>4. (q + 1) * unit = q * unit + unit
  BY <1>1
<1> HIDE DEF q
<1>5. q * unit \in Int
  BY <1>1
<1>6. q * unit >= value
  BY <1>1, <1>2, <1>4, <1>5
<1> QED
  BY <1>1, <1>3, <1>6 DEF DivCeil, q

LEMMA StartType ==
  ASSUME TypeOK
  PROVE  Start \in Nat /\ Start >= heapUsed
<1>1. heapUsed \in Nat /\ Alignment \in Nat \ {0}
  BY WasmHeapAssumption DEF TypeOK
<1>2. DivCeil(heapUsed, Alignment) \in Nat /\ DivCeil(heapUsed, Alignment) * Alignment >= heapUsed
  BY <1>1, DivCeilBounds
<1> QED
  BY <1>1, <1>2 DEF Start, AlignUp

\* New memory is enough for the block, and the block begins behind used.
LEMMA GrownBounds ==
  ASSUME TypeOK, Region, NEW length \in 0..MaxLength, ~Fits(length)
  PROVE  /\ GrownStart \in Nat /\ GrownEnd(length) \in Nat
         /\ GrownEnd(length) >= memory /\ GrownEnd(length) >= GrownStart + length
         /\ heapEnd # memory => GrownStart = memory
         /\ heapEnd = memory => GrownStart >= heapUsed
<1>1. /\ memory \in Nat /\ memory > 0 /\ heapEnd \in Nat /\ length \in Nat
      /\ Page \in Nat \ {0}
  BY WasmHeapAssumption DEF TypeOK
<1>2. Start \in Nat /\ Start >= heapUsed
  BY StartType
<1>3. GrownStart \in Nat
  BY <1>1, <1>2 DEF GrownStart
<1>4. GrownStart + length - memory \in Nat
  BY <1>1, <1>2 DEF GrownStart, Fits
<1> DEFINE n == GrownStart + length - memory
           rounded == DivCeil(n, Page) * Page
<1>5. DivCeil(n, Page) \in Nat /\ rounded >= n
  BY <1>1, <1>4, DivCeilBounds
<1>6. rounded \in Nat
  BY <1>1, <1>5
<1>7. GrownEnd(length) = memory + rounded
  BY DEF GrownEnd
<1> HIDE DEF rounded
<1> QED
  BY <1>1, <1>2, <1>3, <1>5, <1>6, <1>7 DEF GrownStart

-----------------------------------------------------------------------------
\* A block of bytes that were free: everyone still has their own.
LEMMA HandOutKeepsBlocks ==
  ASSUME IInv, NEW start \in Nat, NEW length \in 0..MaxLength, HandOut(start, length),
         granted \subseteq granted',
         \A address \in start..start + length - 1 :
           address \in granted' /\ \A block \in live : ~InBlock(address, block)
  PROVE  /\ heapUsed' \in Nat /\ live' \subseteq [start : Nat, length : 0..MaxLength]
         /\ BlocksAreDisjoint' /\ BlocksAreGranted'
<1> DEFINE new == [start |-> start, length |-> length]
<1>1. /\ live \subseteq [start : Nat, length : 0..MaxLength]
      /\ MaxLength \in Nat /\ granted \subseteq Nat
  BY WasmHeapAssumption DEF IInv, TypeOK
<1>2. live' = live \cup {new} /\ heapUsed' = start + length
  BY DEF HandOut
<1>3. new \in [start : Nat, length : 0..MaxLength] /\ new.start = start /\ new.length = length
  OBVIOUS
<1> HIDE DEF new
<1>4. live' \subseteq [start : Nat, length : 0..MaxLength]
  BY <1>1, <1>2, <1>3
<1>5. BlocksAreDisjoint'
  <2> SUFFICES ASSUME NEW first \in live', NEW second \in live',
                      NEW address \in first.start..first.start + first.length - 1,
                      second.start <= address, address < second.start + second.length
               PROVE  first = second
    BY DEF BlocksAreDisjoint, InBlock
  <2>1. /\ first.start \in Nat /\ first.length \in Nat
        /\ second.start \in Nat /\ second.length \in Nat
    BY <1>1, <1>4
  <2>2. CASE first \in live /\ second \in live
    BY <2>2 DEF IInv, BlocksAreDisjoint, InBlock
  <2>3. CASE first = new /\ second \in live
    BY <1>3, <2>1, <2>3 DEF InBlock
  <2>4. CASE first \in live /\ second = new
    <3>1. address \in start..start + length - 1
      BY <1>1, <1>3, <2>1, <2>4
    <3>2. InBlock(address, first)
      BY <2>1 DEF InBlock
    <3> QED
      BY <2>4, <3>1, <3>2
  <2> QED
    BY <1>2, <2>2, <2>3, <2>4
<1>6. BlocksAreGranted'
  BY <1>2, <1>3 DEF IInv, BlocksAreGranted
<1> QED
  BY <1>1, <1>2, <1>4, <1>5, <1>6

LEMMA InitIInv == Init => IInv
  BY WasmHeapAssumption DEF Init, IInv, TypeOK, BlocksAreDisjoint, BlocksAreGranted,
       FreeSpace, Region

LEMMA AllocateIInv ==
  ASSUME IInv, NEW length \in 0..MaxLength, Allocate(length)
  PROVE  IInv'
<1>1. /\ heapUsed \in Nat /\ heapEnd \in Nat /\ heapStart \in Nat
      /\ Start \in Nat /\ Start >= heapUsed /\ length \in Nat
  BY StartType, WasmHeapAssumption DEF IInv, TypeOK
<1>2. /\ UNCHANGED <<heapStart, heapEnd, memory, granted>>
      /\ heapUsed' = Start + length /\ Start + length <= heapEnd
      /\ live' = live \cup {[start |-> Start, length |-> length]}
  BY DEF Allocate, Fits, HandOut
<1>3. \A address \in Start..Start + length - 1 :
        address \in granted /\ \A block \in live : ~InBlock(address, block)
  BY <1>1, <1>2 DEF IInv, FreeSpace
<1>4. /\ live' \subseteq [start : Nat, length : 0..MaxLength]
      /\ BlocksAreDisjoint' /\ BlocksAreGranted'
  BY <1>1, <1>2, <1>3, HandOutKeepsBlocks DEF Allocate
<1>5. FreeSpace'
  BY <1>1, <1>2 DEF IInv, FreeSpace, InBlock
<1> QED
  BY <1>1, <1>2, <1>4, <1>5 DEF IInv, TypeOK, Region

LEMMA AllocateGrownIInv ==
  ASSUME IInv, NEW length \in 0..MaxLength, AllocateGrown(length)
  PROVE  IInv'
<1> DEFINE start == GrownStart
           end == GrownEnd(length)
<1>1. /\ heapUsed \in Nat /\ heapEnd \in Nat /\ heapStart \in Nat /\ length \in Nat
      /\ memory \in Nat /\ granted \subseteq Nat
      /\ live \subseteq [start : Nat, length : 0..MaxLength] /\ MaxLength \in Nat
      /\ InitialMemory \in Nat /\ MaxMemory \in Nat /\ memory >= InitialMemory
  BY WasmHeapAssumption DEF IInv, TypeOK
<1>2. /\ start \in Nat /\ end \in Nat /\ end >= memory /\ end >= start + length
      /\ heapEnd # memory => start = memory
      /\ heapEnd = memory => start >= heapUsed
  BY GrownBounds DEF IInv, AllocateGrown
<1>3. /\ HandOut(start, length) /\ end <= MaxMemory
      /\ heapStart' = IF heapEnd # memory THEN start ELSE heapStart
      /\ heapEnd' = end /\ memory' = end
      /\ granted' = granted \cup (memory..end - 1)
  BY DEF AllocateGrown
<1> HIDE DEF start, end
<1>4. heapUsed' = start + length /\ live' = live \cup {[start |-> start, length |-> length]}
  BY <1>3 DEF HandOut
<1>5. \A block \in live : /\ block.start \in Nat /\ block.length \in Nat
                          /\ \A address \in Nat : InBlock(address, block) => address < memory
  BY <1>1 DEF IInv, BlocksAreGranted, Region, InBlock
<1>6. \A address \in start..start + length - 1 :
        address \in granted' /\ \A block \in live : ~InBlock(address, block)
  <2> SUFFICES ASSUME NEW address \in start..start + length - 1
               PROVE  address \in granted' /\ \A block \in live : ~InBlock(address, block)
    OBVIOUS
  <2>1. CASE address >= memory
    BY <1>1, <1>2, <1>3, <1>5, <2>1
  <2>2. CASE address < memory
    BY <1>1, <1>2, <1>3, <2>2 DEF IInv, FreeSpace
  <2> QED
    BY <1>1, <1>2, <2>1, <2>2
<1>7. /\ heapUsed' \in Nat /\ live' \subseteq [start : Nat, length : 0..MaxLength]
      /\ BlocksAreDisjoint' /\ BlocksAreGranted'
  BY <1>2, <1>3, <1>6, HandOutKeepsBlocks
<1>8. FreeSpace'
  <2>1. \A address \in start + length..end - 1 :
          address \in granted' /\ \A block \in live' : ~InBlock(address, block)
    <3> SUFFICES ASSUME NEW address \in start + length..end - 1
                 PROVE  address \in granted' /\ \A block \in live' : ~InBlock(address, block)
      OBVIOUS
    <3>1. address \in granted' /\ \A block \in live : ~InBlock(address, block)
      <4>1. CASE address >= memory
        BY <1>1, <1>2, <1>3, <1>5, <4>1
      <4>2. CASE address < memory
        BY <1>1, <1>2, <1>3, <4>2 DEF IInv, FreeSpace
      <4> QED
        BY <1>1, <1>2, <4>1, <4>2
    <3>2. ~InBlock(address, [start |-> start, length |-> length])
      BY <1>1, <1>2 DEF InBlock
    <3> QED
      BY <1>4, <3>1, <3>2
  <2>2. \A address \in heapStart'..end - 1 : address \in granted'
    BY <1>1, <1>2, <1>3 DEF IInv, FreeSpace, Region
  <2> QED
    BY <1>3, <1>4, <2>1, <2>2 DEF FreeSpace, InBlock
<1>9. Region'
  BY <1>1, <1>2, <1>3, <1>4 DEF IInv, Region
<1>10. TypeOK'
  BY <1>1, <1>2, <1>3, <1>7 DEF IInv, TypeOK
<1> QED
  BY <1>7, <1>8, <1>9, <1>10 DEF IInv

LEMMA AllocateFailsIInv ==
  ASSUME IInv, NEW length \in 0..MaxLength, AllocateFails(length)
  PROVE  IInv'
<1>1. /\ heapEnd \in Nat /\ memory \in Nat /\ heapStart \in Nat /\ heapEnd <= memory
  BY WasmHeapAssumption DEF IInv, TypeOK, Region
<1>2. /\ UNCHANGED <<heapUsed, heapEnd, memory, granted, live>>
      /\ heapStart' = IF heapEnd # memory THEN memory ELSE heapStart
  BY DEF AllocateFails, GrownStart
<1>3. FreeSpace'
  BY <1>1, <1>2 DEF IInv, FreeSpace, InBlock
<1> QED
  BY <1>1, <1>2, <1>3 DEF IInv, TypeOK, BlocksAreDisjoint, BlocksAreGranted, Region, InBlock

LEMMA FreeIInv ==
  ASSUME IInv, NEW block \in live, Free(block)
  PROVE  IInv'
<1>1. /\ heapUsed \in Nat /\ heapEnd \in Nat /\ granted \subseteq Nat
      /\ live \subseteq [start : Nat, length : 0..MaxLength] /\ MaxLength \in Nat
      /\ block.start \in Nat /\ block.length \in Nat
  BY WasmHeapAssumption DEF IInv, TypeOK
<1>2. /\ UNCHANGED <<heapStart, heapEnd, memory, granted>>
      /\ live' = live \ {block}
      /\ heapUsed' = IF IsLast(block) THEN block.start ELSE heapUsed
  BY DEF Free
<1>3. \A address \in heapUsed'..heapEnd - 1 :
        address \in granted /\ \A other \in live' : ~InBlock(address, other)
  <2> SUFFICES ASSUME NEW address \in heapUsed'..heapEnd - 1
               PROVE  address \in granted /\ \A other \in live' : ~InBlock(address, other)
    OBVIOUS
  <2>1. CASE address >= heapUsed
    BY <1>1, <1>2, <2>1 DEF IInv, FreeSpace
  <2>2. CASE address < heapUsed
    <3>1. IsLast(block) /\ address \in block.start..block.start + block.length - 1
      BY <1>1, <1>2, <2>2 DEF IsLast
    <3>2. address \in granted
      BY <3>1 DEF IInv, BlocksAreGranted
    <3>3. \A other \in live' : ~InBlock(address, other)
      BY <1>2, <3>1 DEF IInv, BlocksAreDisjoint
    <3> QED
      BY <3>2, <3>3
  <2> QED
    BY <1>1, <1>2, <2>1, <2>2
<1>4. FreeSpace'
  BY <1>2, <1>3 DEF IInv, FreeSpace, InBlock
<1>5. BlocksAreDisjoint' /\ BlocksAreGranted'
  BY <1>2 DEF IInv, BlocksAreDisjoint, BlocksAreGranted, InBlock
<1>6. Region'
  BY <1>1, <1>2 DEF IInv, Region, IsLast
<1>7. TypeOK'
  BY <1>1, <1>2 DEF IInv, TypeOK
<1> QED
  BY <1>4, <1>5, <1>6, <1>7 DEF IInv

LEMMA NextIInv == IInv /\ [Next]_vars => IInv'
<1> SUFFICES ASSUME IInv, [Next]_vars PROVE IInv'
  OBVIOUS
<1>1. CASE UNCHANGED vars
  BY <1>1 DEF vars, IInv, TypeOK, BlocksAreDisjoint, BlocksAreGranted, FreeSpace, Region, InBlock
<1>2. ASSUME NEW length \in 0..MaxLength, Allocate(length) PROVE IInv'
  BY <1>2, AllocateIInv
<1>3. ASSUME NEW length \in 0..MaxLength, AllocateGrown(length) PROVE IInv'
  BY <1>3, AllocateGrownIInv
<1>4. ASSUME NEW length \in 0..MaxLength, AllocateFails(length) PROVE IInv'
  BY <1>4, AllocateFailsIInv
<1>5. ASSUME NEW block \in live, Free(block) PROVE IInv'
  BY <1>5, FreeIInv
<1>6. CASE ResetHeap
  BY <1>6 DEF ResetHeap, IInv, TypeOK, BlocksAreDisjoint, BlocksAreGranted, FreeSpace, Region
<1>7. CASE OthersGrow
  BY <1>7, WasmHeapAssumption
  DEF OthersGrow, IInv, TypeOK, BlocksAreDisjoint, BlocksAreGranted, FreeSpace, Region, InBlock
<1> QED
  BY <1>1, <1>2, <1>3, <1>4, <1>5, <1>6, <1>7 DEF Next

-----------------------------------------------------------------------------
\* The invariant holds in every state of every run.
THEOREM AlwaysIInv == Spec => []IInv
<1>1. Init => IInv
  BY InitIInv
<1>2. IInv /\ [Next]_vars => IInv'
  BY NextIInv
<1> QED
  BY <1>1, <1>2, PTL DEF Spec

\* No two callers ever have the same byte (cosmoz_allocate, cosmoz_free).
THEOREM BlocksAreAlwaysDisjoint == Spec => []BlocksAreDisjoint
<1>1. IInv => BlocksAreDisjoint
  BY DEF IInv
<1> QED
  BY <1>1, AlwaysIInv, PTL

\* Every byte of a block was granted to this heap by memory_grow.
THEOREM BlocksAreAlwaysGranted == Spec => []BlocksAreGranted
<1>1. IInv => BlocksAreGranted
  BY DEF IInv
<1> QED
  BY <1>1, AlwaysIInv, PTL
=============================================================================
