---------------------------- MODULE BlockFormat ----------------------------
(***************************************************************************)
(* What one frame is made of, and what a reader carries from block to      *)
(* block: a Huffman table for literals, one FSE table for each of the      *)
(* three sequence codes, and the repeat offsets.                           *)
(*                                                                         *)
(* Tables are opaque.  A table is named by the number of the compressed    *)
(* body that described it, so two tables never have the same name.  The    *)
(* repeat offsets are opaque as well: the number of groups of sequences    *)
(* they went through since the frame began (OffsetLockstep opens them).    *)
(***************************************************************************)
EXTENDS Naturals, Sequences

CONSTANTS
  FieldCount,       \* literal length, offset, match length: 3 in the code
  NoTable,          \* a table that was never built
  PredefinedTable   \* the table the format itself defines for a field

ASSUME FormatAssumption ==
  /\ FieldCount \in Nat
  /\ NoTable \notin Nat /\ PredefinedTable \notin Nat
  /\ NoTable # PredefinedTable

\* The order in which the code writes and reads the fields.
Fields == 1..FieldCount

Tables == Nat \cup {NoTable, PredefinedTable}

LiteralsTypes == {"Raw", "Rle", "Compressed", "Treeless"}
TableModes == {"Predefined", "Rle", "Compressed", "Repeat"}

\* Repeat offsets (1, 4, 8), before any sequence of the frame.
InitialOffsets == 0

\* What a reader holds between two blocks of a frame.
Contexts == [huffman : Tables, tables : [Fields -> Tables], offsets : Nat]

FreshContext ==
  [huffman |-> NoTable, tables |-> [f \in Fields |-> NoTable], offsets |-> InitialOffsets]

(***************************************************************************)
(* A block on the wire.  "id" names the tables its body describes, "after" *)
(* the repeat offsets its sequences lead to.  What follows is not written: *)
(* "uses" is the context the encoder wrote the body for.                   *)
(***************************************************************************)
Blocks ==
  [type : {"Raw", "Rle", "Compressed"},
   last : BOOLEAN,
   literals : LiteralsTypes,
   fourStreams : BOOLEAN,
   sequences : BOOLEAN,
   modes : [Fields -> TableModes],
   id : Nat,
   after : Nat,
   uses : Contexts]

\* The table a field's mode stands for, in a reader that holds "held".
TableOf(mode, held, id) ==
  CASE mode = "Predefined"          -> PredefinedTable
    [] mode \in {"Rle", "Compressed"} -> id
    [] mode = "Repeat"              -> held
=============================================================================
