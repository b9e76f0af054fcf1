------------------------------ MODULE Encoding -------------------------------
(***************************************************************************)
(* Encoding of Go values in guest memory (encoding/*.go over pointerStream *)
(* of internal/debugger/stream.go).  A type is a tree of records.  Host    *)
(* memory maps an object and an offset, guest memory an address, to the    *)
(* scalar that begins there; an object is named after the place of the     *)
(* pointer that first referred to it.  encode and decode build the same    *)
(* plan of a type: the sizes of its parts and the operations on a stream.  *)
(***************************************************************************)
EXTENDS Integers, Sequences, SequencesExt, FiniteSetsExt, TLC

CONSTANTS
  BlockSize,    (* bytes of a pointer of the guest                         *)
  SliceLen      (* bound: elements of a slice                              *)

VARIABLES
  type,         (* the type of the value                                   *)
  phase,        (* "value", "encoded" or "decoded"                         *)
  host,         (* host memory: the value, then the room it is decoded to  *)
  guest,        (* guest memory                                            *)
  outcome       (* "ok", "overrun" of a block, or "panic"                  *)

vars == <<type, phase, host, guest, outcome>>

(* Scalars *)
Data(obj, off) == [is |-> "data", v |-> Append(obj, off)]
Object(obj) == [is |-> "object", v |-> obj]
Length(n) == [is |-> "length", v |-> <<n>>]
Address(a) == [is |-> "address", v |-> <<a>>]
Nil == [is |-> "nil", v |-> << >>]

HostPointer == 8                              (* bytes of a pointer of the host *)
UpTo(n, a) == IF a = 0 THEN 0 ELSE ((n + a - 1) \div a) * a
Sum(size) == FoldSeq(LAMBDA a, b : a + b, 0, size)
Once(x) == CHOOSE y \in {x} : TRUE                        (* evaluated once *)
Get(memory, place) == IF place \in DOMAIN memory THEN memory[place] ELSE Nil
LengthAt(memory, place) ==
  LET l == Get(memory, <<place[1], place[2] + HostPointer>>)
  IN  IF l.is = "length" THEN l.v[1] ELSE 0

-----------------------------------------------------------------------------
(* A type carries what reflect reports of it, its size and the offsets of   *)
(* its fields; a value of it in host memory                                 *)

RECURSIVE Value(_, _, _), Room(_, _, _)

Merge(fs) == FoldSeq(LAMBDA f, g : f @@ g, << >>, fs)
Header(obj, off, n) == (<<obj, off>> :> Object(Append(obj, off)))
                       @@ (<<obj, off + HostPointer>> :> Length(n))
(* Parts(t): the types in t, with their offsets; fields that are ignored    *)
(* are left out                                                             *)
Parts(t) ==
  IF t.k = "array" THEN [i \in 1 .. t.n |-> [type |-> t.elem, off |-> (i - 1) * t.elem.size]]
  ELSE SelectSeq(t.fields, LAMBDA f : ~f.ignore)

Value(t, obj, off) ==
  CASE t.k \in {"fixed", "word"} -> <<obj, off>> :> Data(obj, off)
    [] t.k = "pointer" ->
         IF t.nil THEN <<obj, off>> :> Nil
         ELSE (<<obj, off>> :> Object(Append(obj, off)))
              @@ Value(t.elem, Append(obj, off), 0)
    [] t.k = "string" ->
         Header(obj, off, SliceLen)
         @@ (<<Append(obj, off), 0>> :> Data(Append(obj, off), 0))
    [] t.k = "slice" ->
         Merge([i \in 1 .. SliceLen |->
                  Value(t.elem, Append(obj, off), (i - 1) * t.elem.size)])
         @@ Header(obj, off, SliceLen)
    [] OTHER -> Merge([i \in DOMAIN Parts(t) |->
                         Value(Parts(t)[i].type, obj, off + Parts(t)[i].off)])

(* What the caller of Decode provides: slices of the length it wants *)
Room(t, obj, off) ==
  CASE t.k = "slice" ->
         Merge([i \in 1 .. SliceLen |->
                  Room(t.elem, Append(obj, off), (i - 1) * t.elem.size)])
         @@ Header(obj, off, SliceLen)
    [] t.k \in {"array", "struct"} ->
         Merge([i \in DOMAIN Parts(t) |->
                  Room(Parts(t)[i].type, obj, off + Parts(t)[i].off)])
    [] OTHER -> << >>

-----------------------------------------------------------------------------
(* Plans: what encode and decode make of a type.  An operation on a stream  *)
(* is about the bytes from an offset of the object on.                      *)

BlockOp(n) == [op |-> "block", off |-> 0, n |-> n]
SkipOp(n) == [op |-> "skip", off |-> 0, n |-> n]
RefOp(op, plan) == [op |-> op, off |-> 0, n |-> Sum(plan.size), ops |-> plan.ops]
Shift(ops, d) == [i \in DOMAIN ops |-> [ops[i] EXCEPT !.off = @ + d]]
Repeat(ops, stride, n) ==
  FlattenSeq([i \in 1 .. n |-> Shift(ops, (i - 1) * stride)])

(* checkCustom: whether guest and host differ in the bytes of a type *)
checkCustom(t) ==
  CASE t.k = "fixed" -> FALSE
    [] t.k = "word"  -> HostPointer # BlockSize
    [] OTHER -> TRUE

RECURSIVE Plan(_)

(* encodeArray: elements follow each other, in the host too, by their size  *)
(* in the guest                                                             *)
encodeArray(t) ==
  IF ~checkCustom(t.elem)
  THEN [size |-> [i \in 1 .. t.n |-> t.elem.size],
        ops |-> <<BlockOp(t.n * t.elem.size)>>]
  ELSE LET p == Plan(t.elem)
       IN  [size |-> FlattenSeq([i \in 1 .. t.n |-> p.size]),
            ops |-> Repeat(p.ops, Sum(p.size), t.n)]

(* encodeSlice *)
encodeSlice(t) ==
  [size |-> <<BlockSize>>,
   ops |-> <<IF checkCustom(t.elem) THEN RefOp("slice", Plan(t.elem))
             ELSE RefOp("plain", [size |-> <<t.elem.size>>,
                                  ops |-> <<BlockOp(t.elem.size)>>])>>]

(* encodeStruct: one block, of which size lists the distances of the fields *)
PlainStruct(t) ==
  LET n == Len(t.fields)
      gaps == [i \in 1 .. n - 1 |-> t.fields[i + 1].off - t.fields[i].off]
      size == IF n = 0 THEN <<0>> ELSE Append(gaps, t.size - t.fields[n].off)
  IN  [size |-> size, ops |-> <<BlockOp(Sum(size))>>]

(* encodeFieldAlign: a field is aligned by the first size of its list; one  *)
(* without bytes goes to offset 0                                           *)
encodeFieldAlign(plan, f) ==
  LET p == Plan(f.type)
      offset == Sum(plan.size)
      pad == UpTo(offset, p.size[1]) - offset
  IN  [size |-> plan.size \o (IF pad # 0 THEN <<pad>> ELSE << >>) \o p.size,
       ops |-> plan.ops \o (IF pad # 0 THEN <<SkipOp(pad)>> ELSE << >>)
               \o Shift(p.ops, f.off)]

encodeStruct(t) ==
  IF \A f \in ToSet(t.fields) : ~f.ignore /\ ~checkCustom(f.type)
  THEN PlainStruct(t)
  ELSE LET p == FoldLeft(encodeFieldAlign, [size |-> << >>, ops |-> << >>], Parts(t))
           pad == UpTo(Sum(p.size), Max({0} \cup ToSet(p.size))) - Sum(p.size)
       IN  IF pad = 0 THEN p
           ELSE [size |-> Append(p.size, pad), ops |-> Append(p.ops, SkipOp(pad))]

(* encode: the size of a string counts two pointers *)
Plan(t) ==
  CASE t.k = "fixed"   -> [size |-> <<t.size>>, ops |-> <<BlockOp(t.size)>>]
    [] t.k = "word"    -> [size |-> <<BlockSize>>, ops |-> <<BlockOp(BlockSize)>>]
    [] t.k = "pointer" -> [size |-> <<BlockSize>>,
                           ops |-> <<RefOp("pointer", Plan(t.elem))>>]
    [] t.k = "string"  -> [size |-> <<BlockSize, BlockSize>>,
                           ops |-> <<[SkipOp(0) EXCEPT !.op = "string"]>>]
    [] t.k = "slice"   -> encodeSlice(t)
    [] t.k = "array"   -> encodeArray(t)
    [] t.k = "struct"  -> encodeStruct(t)

EncodeSize(t) == Sum(Plan(t).size)

-----------------------------------------------------------------------------
(* pointerStream: s.pos is where the stream is, s.free the next address     *)
(* that alloc gives                                                         *)

Skip(s, n) == [s EXCEPT !.pos = @ + n]

Write(s, obj, off, n) ==
  [Skip(s, n) EXCEPT !.guest =
     [a \in {a \in s.pos .. s.pos + n - 1 : <<obj, off + a - s.pos>> \in DOMAIN s.host}
        |-> s.host[<<obj, off + a - s.pos>>]] @@ @]

Read(s, obj, off, n) ==
  [Skip(s, n) EXCEPT !.host =
     [p \in {<<obj, off + d>> : d \in {d \in 0 .. n - 1 : s.pos + d \in DOMAIN s.guest}}
        |-> s.guest[s.pos + p[2] - off]] @@ @]

WriteStream(s, n) ==
  [s EXCEPT !.guest = (s.pos :> Address(s.free)) @@ @,
            !.pos = s.free, !.free = @ + UpTo(n, 16) + 16]

(* back on the stream s after what was done on a stream opened from it;     *)
(* end is where the block of that stream ends                               *)
Back(s, sub, end) ==
  [sub EXCEPT !.pos = s.pos + BlockSize,
              !.outcome = IF sub.pos > end /\ @ = "ok" THEN "overrun" ELSE @]

-----------------------------------------------------------------------------
(* Encode: the handlers of encodePointer, encodeSlice and encodeString      *)

Panic(s) == [s EXCEPT !.outcome = "panic"]

RECURSIVE EncodeOps(_, _, _), DecodeOps(_, _, _)

EncodeRef(s, op, obj) ==
  LET data == Get(s.host, <<obj, op.off>>)
      n == IF op.op = "pointer" THEN 1 ELSE LengthAt(s.host, <<obj, op.off>>)
  IN  IF data.is # "object" THEN Panic(s)
      ELSE Back(s, EncodeOps(WriteStream(s, n * op.n),
                             Repeat(op.ops, op.n, n), data.v), s.free + n * op.n)

(* Changed: no room for the zero at the end *)
EncodeStringShort(s, op, obj) ==
  LET data == Get(s.host, <<obj, op.off>>)
      n == LengthAt(s.host, <<obj, op.off>>)
  IN  IF data.is # "object" THEN Panic(s)
      ELSE Back(s, Write(WriteStream(s, n), data.v, 0, n + 1), s.free + n)
EncodeString(s, op, obj) ==
  LET data == Get(s.host, <<obj, op.off>>)
      n == LengthAt(s.host, <<obj, op.off>>) + 1
  IN  IF data.is # "object" THEN Panic(s)
      ELSE Back(s, Write(WriteStream(s, n), data.v, 0, n), s.free + n)

EncodeOp(s, op, obj) ==
  CASE op.op = "block"  -> Write(s, obj, op.off, op.n)
    [] op.op = "skip"   -> Skip(s, op.n)
    [] op.op = "string" -> EncodeString(s, op, obj)
    [] OTHER -> EncodeRef(s, op, obj)

EncodeOps(s, ops, obj) ==
  IF ops = << >> \/ s.outcome = "panic" THEN s
  ELSE EncodeOps(Once(EncodeOp(s, Head(ops), obj)), Tail(ops), obj)

(* Encode is given an interface: its data word is the address of the value, *)
(* or the value itself where that is a pointer in whatever wrapping; the    *)
(* cases in which Encode takes the word for the value are two               *)
RECURSIVE DirectIface(_)
DirectIface(t) ==
  \/ t.k = "pointer"
  \/ t.k = "struct" /\ Len(t.fields) = 1 /\ DirectIface(t.fields[1].type)
TakenAsValue(t) ==
  \/ t.k = "pointer"
  \/ t.k = "struct" /\ Len(t.fields) = 1 /\ t.fields[1].type.k = "pointer"
ValueOf(t) ==
  IF DirectIface(t) /\ ~TakenAsValue(t) THEN Get(host, <<<< >>, 0>>).v ELSE << >>

-----------------------------------------------------------------------------
(* Decode *)

(* decodePointer: into what the pointer refers to, or a new object *)
(* Changed: the new object is not stored in the pointer *)
DecodePointerLost(s, op, obj) ==
  LET a == Get(s.guest, s.pos)
      target == Append(obj, op.off)
  IN  IF a.is # "address" THEN Skip(s, BlockSize)
      ELSE Back(s, DecodeOps([s EXCEPT !.pos = a.v[1]], op.ops, target), a.v[1] + op.n)
DecodePointer(s, op, obj) ==
  LET a == Get(s.guest, s.pos)
      place == <<obj, op.off>>
      target == IF Get(s.host, place).is = "object" THEN s.host[place].v
                ELSE Append(obj, op.off)
  IN  IF a.is # "address" THEN Skip(s, BlockSize)
      ELSE Back(s, DecodeOps([s EXCEPT !.pos = a.v[1],
                                       !.host = (place :> Object(target)) @@ @],
                             op.ops, target), a.v[1] + op.n)

(* decodeSlice: plain elements are read from the stream the pointer was in *)
DecodeSlice(s, op, obj) ==
  LET a == Get(s.guest, s.pos)
      data == Get(s.host, <<obj, op.off>>)
      n == LengthAt(s.host, <<obj, op.off>>)
  IN  IF a.is # "address" \/ n = 0 THEN Skip(s, BlockSize)
      ELSE IF op.op = "plain" THEN Read(Skip(s, BlockSize), data.v, 0, n * op.n)
      ELSE Back(s, DecodeOps([s EXCEPT !.pos = a.v[1]],
                             Repeat(op.ops, op.n, n), data.v), a.v[1] + n * op.n)

(* decodeString: a new string takes the place of the old one *)
DecodeString(s, op, obj) ==
  LET a == Get(s.guest, s.pos)
      new == Append(obj, op.off)
  IN  IF a.is # "address" THEN Skip(s, BlockSize)
      ELSE [Skip(s, BlockSize) EXCEPT !.host =
              (<<new, 0>> :> Get(s.guest, a.v[1])) @@ Header(obj, op.off, SliceLen) @@ @]

DecodeOp(s, op, obj) ==
  CASE op.op = "block"   -> Read(s, obj, op.off, op.n)
    [] op.op = "skip"    -> Skip(s, op.n)
    [] op.op = "string"  -> DecodeString(s, op, obj)
    [] op.op = "pointer" -> DecodePointer(s, op, obj)
    [] OTHER -> DecodeSlice(s, op, obj)

DecodeOps(s, ops, obj) ==
  IF ops = << >> \/ s.outcome = "panic" THEN s
  ELSE DecodeOps(Once(DecodeOp(s, Head(ops), obj)), Tail(ops), obj)

-----------------------------------------------------------------------------
Begin == 16
Stream(memory) ==
  [pos |-> Begin, free |-> Begin + UpTo(EncodeSize(type), 16) + 16,
   host |-> memory, guest |-> guest, outcome |-> "ok"]
Effect(s) ==
  /\ host' = s.host /\ guest' = s.guest
  /\ outcome' = IF s.outcome = "ok" /\ s.pos > Begin + EncodeSize(type)
                THEN "overrun" ELSE s.outcome

(* A value of one of the types *)
Init(Types) ==
  /\ type \in Types
  /\ phase = "value" /\ outcome = "ok"
  /\ host = Value(type, << >>, 0) /\ guest = << >>

(* Encode to a block of EncodeSize bytes; a nil pointer is zeros *)
NilValue == DirectIface(type) /\ Get(host, <<<< >>, 0>>) = Nil
Encode ==
  /\ phase = "value" /\ phase' = "encoded"
  /\ \E s \in {IF NilValue THEN Skip(Stream(host), BlockSize)
               ELSE EncodeOps(Stream(host), Plan(type).ops, ValueOf(type))} : Effect(s)
  /\ UNCHANGED type

(* Decode from it, given a pointer to room of the type *)
Decode ==
  /\ phase = "encoded" /\ outcome # "panic" /\ phase' = "decoded"
  /\ \E s \in {DecodeOps(Stream(Room(type, << >>, 0)), Plan(type).ops, << >>)} :
       Effect(s)
  /\ UNCHANGED type

Next == Encode \/ Decode

-----------------------------------------------------------------------------
(* Properties *)

(* What was encoded is decoded as it was: every scalar, behind pointers, in *)
(* slices, arrays and structs, at its place (decode mirrors encode).        *)
RoundTrip ==
  LET value == Value(type, << >>, 0)
  IN  phase = "decoded" =>
        \A p \in DOMAIN host \cup DOMAIN value : Get(host, p) = Get(value, p)

(* Nothing is written outside the block that was allocated for it, whose    *)
(* size EncodeSize and the sizes of the plans computed beforehand.          *)
WithinBlocks == outcome # "overrun"

(* Encoding a value never fails on a nil pointer or on a place that is none *)
NeverPanics == outcome # "panic"
=============================================================================
