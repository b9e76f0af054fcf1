---------------------------- MODULE EncodingTypes ----------------------------
(* The types Encoding is checked with: all types up to two levels of        *)
(* nesting over a few basic ones.                                           *)
EXTENDS Integers, SequencesExt

CONSTANT BlockSize

plan == INSTANCE Encoding WITH SliceLen <- 2,
  type <- 0, phase <- 0, host <- 0, guest <- 0, outcome <- 0

Type(k, size, align) == [k |-> k, size |-> size, align |-> align]
Fixed(n) == Type("fixed", n, n)
Word == Type("word", 8, 8)
String == Type("string", 16, 8)
Pointer(t) == Type("pointer", 8, 8) @@ [elem |-> t, nil |-> FALSE]
NilPointer(t) == Type("pointer", 8, 8) @@ [elem |-> t, nil |-> TRUE]
Slice(t) == Type("slice", 24, 8) @@ [elem |-> t]
Array(t) == Type("array", 2 * t.size, t.align) @@ [elem |-> t, n |-> 2]

(* Fields follow each other where they are aligned *)
Add(s, f) ==
  LET off == plan!UpTo(s.size, f.type.align) IN
  [k |-> "struct", size |-> off + f.type.size,
   align |-> IF f.type.align > s.align THEN f.type.align ELSE s.align,
   fields |-> Append(s.fields, f @@ [off |-> off])]
StructOf(fs) ==
  LET s == FoldLeft(Add, Type("struct", 0, 1) @@ [fields |-> << >>], fs)
  IN  [s EXCEPT !.size = plan!UpTo(@, s.align)]
Field(t) == [type |-> t, ignore |-> FALSE]
Ignored(t) == [type |-> t, ignore |-> TRUE]
Struct(ts) == StructOf([i \in DOMAIN ts |-> Field(ts[i])])

Basic == {Fixed(1), Fixed(4), Fixed(8), Word, String}
(* a slice or array of elements that are as large in the guest as in the    *)
(* host, where elements need encoding                                       *)
Strided(t) == plan!checkCustom(t) /\ plan!EncodeSize(t) = t.size
Over(T) ==
  T \cup {Pointer(t) : t \in {t \in T : t.k # "slice"}}
    \cup {Slice(t) : t \in {t \in T : Strided(t)}}
    \cup {Array(t) : t \in {t \in T : ~plan!checkCustom(t) \/ Strided(t)}}
Pairs(T) == {Struct(<<t, u>>) : t, u \in T}
Level1 == Over(Basic) \cup Pairs(Basic)
Level2 == Over(Level1) \cup Pairs(Over({Fixed(1), Fixed(4), String}))
            \cup {Struct(<<t, u, v>>) : t, u, v \in {Fixed(1), Fixed(8), Pointer(Word)}}
            \cup {StructOf(<<Field(t), Ignored(Fixed(4)), Field(u)>>)
                    : t, u \in {Fixed(1), Word, String, Pointer(Fixed(4))}}

AllTypes == Level2 \cup {NilPointer(Word), Struct(<<NilPointer(Word)>>)}
=============================================================================
