------------------------------ MODULE RegStream ------------------------------
(***************************************************************************)
(* Calls through registers (stream.go and Args, ArgWrite, RetWrite,        *)
(* RetExtract, Return of arm64 and arm, StackAlloc of context.go).  Who    *)
(* calls guest code writes arguments to a regStream, whose rest goes to a  *)
(* buffer that ends up on the stack; who is called reads them back with    *)
(* another regStream.  An argument is the sequence of stream operations    *)
(* the encoder performs for its type; a byte is named after its origin.    *)
(***************************************************************************)
EXTENDS Integers, Sequences, SequencesExt

CONSTANTS
  RegCount,     (* ARG_REG_COUNT                                           *)
  PointerSize,  (* POINTER_SIZE: bytes of a general register               *)
  ValueSize,    (* bytes of regStream.value                                *)
  SingleStep,   (* S0 is SingleStep halves of a D register before S1       *)
  StackAlign,
  ArgKinds,     (* the arguments: sequences of stream operations           *)
  RetKinds,     (* the values that are returned                            *)
  MaxArgs,      (* bound: arguments of a call                              *)
  Top           (* where the stack of the task begins                      *)

VARIABLES
  phase,        (* "write", "read", "return", "back" or "panic"            *)
  sent,         (* the arguments written so far                            *)
  got,          (* what was read of each argument                          *)
  ret,          (* the value returned, and what was read of it             *)
  rs            (* the regStream in use, with registers, stack pointer and *)
                (* memory of its ctx                                       *)

vars == <<phase, sent, got, ret, rs>>

Zero == <<0, 0, 0>>
Blank(n) == [j \in 1 .. n |-> Zero]
Origin(arg, piece, n) == [j \in 1 .. n |-> <<arg, piece, j>>]
Limit == RegCount * PointerSize
Least(a, b) == IF a < b THEN a ELSE b
AlignTo(n, a) == ((n + a - 1) \div a) * a
Drop(b, n) == SubSeq(b, n + 1, Len(b))

(* newRegStream for the ctx of s.  Its stack is the buffer of ArgWrite,     *)
(* guest memory from base on for Args, or nothing for a returned value.     *)
NewStream(s, kind, base) ==
  [gr |-> 0, vr |-> 0, st |-> 0, value |-> Blank(ValueSize),
   stack |-> kind, base |-> base, buf |-> << >>, out |-> << >>,
   regs |-> s.regs, halves |-> s.halves, sp |-> s.sp, mem |-> s.mem]

Init ==
  /\ phase = "write" /\ sent = << >> /\ got = << >>
  /\ ret = [kind |-> << >>, got |-> << >>]
  /\ rs = NewStream([regs |-> [c \in 0 .. RegCount - 1 |-> Blank(PointerSize)],
                     halves |-> [c \in 0 .. 2 * RegCount - 1 |-> Blank(4)],
                     sp |-> Top, mem |-> << >>], "buffer", 0)

-----------------------------------------------------------------------------
(* Registers, stack and memory                                              *)

RegWrite(s, c, v) == [s EXCEPT !.regs[c] = SubSeq(v, 1, PointerSize)]
RegRead(s, c) == s.regs[c] \o Blank(ValueSize - PointerSize)

(* MemWrite, MemRead: memory maps the addresses written to bytes *)
Poke(mem, a, b) ==
  LET A == a .. a + Len(b) - 1
  IN  [x \in A \cup DOMAIN mem |-> IF x \in A THEN b[x - a + 1] ELSE mem[x]]
Peek(mem, a, n) ==
  [j \in 1 .. n |-> IF a + j - 1 \in DOMAIN mem THEN mem[a + j - 1] ELSE Zero]

StackAlloc(s, n) == [s EXCEPT !.sp = @ - AlignTo(n, StackAlign)]

(* WriteAt of the buffer grows it by zeros; the stack of a result is nil *)
BufferWrite(buf, off, b) ==
  [j \in 1 .. (IF off + Len(b) > Len(buf) THEN off + Len(b) ELSE Len(buf)) |->
     IF j > off /\ j <= off + Len(b) THEN b[j - off]
     ELSE IF j <= Len(buf) THEN buf[j] ELSE Zero]

ToStack(s, b) ==
  [s EXCEPT !.st = @ + Len(b),
            !.stack = IF @ = "nil" THEN "panic" ELSE @,
            !.buf = IF s.stack = "buffer" THEN BufferWrite(@, s.st, b) ELSE @]

FromStack(s, n) ==
  [s EXCEPT !.st = @ + n,
            !.stack = IF @ = "nil" THEN "panic" ELSE @,
            !.out = @ \o IF s.stack = "memory" THEN Peek(s.mem, s.base + s.st, n)
                                               ELSE Blank(n)]

(* copy(value[i:], b) *)
Overlay(value, i, b) ==
  [j \in 1 .. ValueSize |-> IF j > i /\ j <= i + Len(b) THEN b[j - i] ELSE value[j]]

-----------------------------------------------------------------------------
(* regStream *)

(* A loop is the function of the turns it has made; count is the register   *)
(* and i the byte of it where a turn begins.  A turn moves a byte at least, *)
(* and leaves all as it is when nothing is left.                            *)

(* Write: the rest of a register that is begun, whole registers, the stack *)
WriteTurn(t) ==
  IF t.b = << >> THEN t
  ELSE IF t.s.gr >= Limit THEN [t EXCEPT !.s = ToStack(t.s, t.b), !.b = << >>]
  ELSE LET n == Least(ValueSize - t.i, Len(t.b))
           v == Overlay(t.s.value, t.i, t.b)
       IN  [s |-> [RegWrite(t.s, t.count, v) EXCEPT !.value = v, !.gr = @ + n],
            count |-> t.count + 1, i |-> 0, b |-> Drop(t.b, n)]
Write(s, b) ==
  LET at[k \in 0 .. Len(b)] ==
        IF k = 0 THEN [s |-> s, count |-> s.gr \div PointerSize,
                       i |-> s.gr % PointerSize, b |-> b]
                 ELSE WriteTurn(at[k - 1])
  IN  at[Len(b)].s

(* Read: the rest of a register that is begun is taken from value, which is *)
(* the last register that was read                                          *)
ReadTurn(t) ==
  IF t.left = 0 THEN t
  ELSE IF t.s.gr >= Limit THEN [t EXCEPT !.s = FromStack(t.s, t.left), !.left = 0]
  ELSE LET n == Least(ValueSize - t.i, t.left)
           v == IF t.i > 0 THEN t.s.value ELSE RegRead(t.s, t.count)
       IN  [s |-> [t.s EXCEPT !.value = v, !.gr = @ + n,
                              !.out = @ \o SubSeq(v, t.i + 1, t.i + n)],
            count |-> t.count + 1, i |-> 0, left |-> t.left - n]
ReadFrom(s, n) ==
  LET at[k \in 0 .. n] ==
        IF k = 0 THEN [s |-> s, count |-> s.gr \div PointerSize,
                       i |-> s.gr % PointerSize, left |-> n]
                 ELSE ReadTurn(at[k - 1])
  IN  at[n].s

(* Changed: what is left of a begun register is skipped *)
ReadWhole(s, n) == ReadFrom([s EXCEPT !.gr = AlignTo(@, PointerSize)], n)

Read(s, n) == ReadFrom(s, n)

Skip(s, n) == IF s.gr < Limit THEN [s EXCEPT !.gr = @ + n]
                              ELSE [s EXCEPT !.st = @ + n]

Align(s) == [s EXCEPT !.st = AlignTo(@, 4), !.gr = AlignTo(@, PointerSize)]

WriteFloat(s, b) ==
  IF s.vr >= RegCount THEN ToStack(s, b)
  ELSE [s EXCEPT !.halves[s.vr * SingleStep] = b, !.vr = @ + 1]
ReadFloat(s) ==
  IF s.vr >= RegCount THEN FromStack(s, 4)
  ELSE [s EXCEPT !.out = @ \o s.halves[s.vr * SingleStep], !.vr = @ + 1]

(* WriteDouble names the S register, which takes the lower half of the bits *)
WriteDouble(s, b) ==
  IF s.vr >= RegCount THEN ToStack(s, b)
  ELSE [s EXCEPT !.halves[s.vr * SingleStep] = SubSeq(b, 1, 4), !.vr = @ + 1]
ReadDouble(s) ==
  IF s.vr >= RegCount THEN FromStack(s, 8)
  ELSE [s EXCEPT !.out = @ \o s.halves[2 * s.vr] \o s.halves[2 * s.vr + 1],
                 !.vr = @ + 1]

(* WriteStream takes room on the stack of the task and writes its address; *)
(* what is pointed to is written there (pointerStream.Write)                *)
AddressBytes(a) == [j \in 1 .. PointerSize |-> <<-1, a, j>>]

WriteStream(s, b) ==
  LET t == StackAlloc(s, Len(b))
  IN  Write([t EXCEPT !.mem = Poke(@, t.sp, b)], AddressBytes(t.sp))
ReadStream(s, n) ==
  LET t == Read([s EXCEPT !.out = << >>], PointerSize)
      A == {a \in DOMAIN s.mem : AddressBytes(a) = t.out}
  IN  [t EXCEPT !.out = s.out \o
         IF A = {} THEN Blank(n) ELSE Peek(s.mem, CHOOSE a \in A : TRUE, n)]

-----------------------------------------------------------------------------
(* Encode and Decode on a regStream *)

EncodePiece(s, arg, piece, p) ==
  CASE p.op = "write"  -> Write(s, Origin(arg, piece, p.n))
    [] p.op = "skip"   -> Skip(s, p.n)
    [] p.op = "float"  -> WriteFloat(s, Origin(arg, piece, p.n))
    [] p.op = "double" -> WriteDouble(s, Origin(arg, piece, p.n))
    [] p.op = "stream" -> WriteStream(s, Origin(arg, piece, p.n))
Encode(s, arg, kind) ==
  LET at[i \in 0 .. Len(kind)] ==
        IF i = 0 THEN s ELSE EncodePiece(at[i - 1], arg, i, kind[i])
  IN  at[Len(kind)]

DecodePiece(s, p) ==
  CASE p.op = "write"  -> Read(s, p.n)
    [] p.op = "skip"   -> Skip(s, p.n)
    [] p.op = "float"  -> ReadFloat(s)
    [] p.op = "double" -> ReadDouble(s)
    [] p.op = "stream" -> ReadStream(s, p.n)
Decode(s, kind) ==
  LET at[i \in 0 .. Len(kind)] ==
        IF i = 0 THEN [s EXCEPT !.out = << >>] ELSE DecodePiece(at[i - 1], kind[i])
  IN  at[Len(kind)]

(* What a faithful transfer of an argument delivers *)
Faithful(arg, kind) ==
  FoldLeftDomain(LAMBDA b, i : IF kind[i].op = "skip" THEN b
                               ELSE b \o Origin(arg, i, kind[i].n), << >>, kind)

-----------------------------------------------------------------------------
(* A call *)

(* ArgWrite, one argument *)
ArgWrite(kind) ==
  /\ phase = "write" /\ Len(sent) < MaxArgs
  /\ rs' = Align(Encode(rs, Len(sent) + 1, kind))
  /\ sent' = Append(sent, kind)
  /\ UNCHANGED <<phase, got, ret>>

(* Changed: written at the stack pointer without StackAlloc *)
PlaceStackThere(s) ==
  IF s.st = 0 THEN s ELSE [s EXCEPT !.mem = Poke(@, s.sp, s.buf)]
(* ArgWrite ends: the buffer goes below all that the arguments point to.    *)
(* The guest is called, and Args of the callee starts at its stack pointer. *)
PlaceStack(s) ==
  IF s.st = 0 THEN s
  ELSE LET t == StackAlloc(s, s.st) IN [t EXCEPT !.mem = Poke(@, t.sp, s.buf)]

Called ==
  /\ phase = "write"
  /\ \E s \in {PlaceStack(rs)} : rs' = NewStream(s, "memory", s.sp)
  /\ phase' = "read"
  /\ UNCHANGED <<sent, got, ret>>

(* Extract, one argument; the callee may take stack of its own in between *)
ArgRead ==
  /\ phase = "read" /\ Len(got) < Len(sent)
  /\ \E s \in {Decode(rs, sent[Len(got) + 1])} :
       rs' = Align(s) /\ got' = Append(got, s.out)
  /\ UNCHANGED <<phase, sent, ret>>

CalleeAlloc ==
  /\ phase = "read" /\ rs.sp = rs.base
  /\ rs' = StackAlloc(rs, StackAlign)
  /\ UNCHANGED <<phase, sent, got, ret>>

(* RetWrite and Return *)
RetWrite(kind) ==
  /\ phase = "read" /\ Len(got) = Len(sent)
  /\ rs' = Encode(NewStream(rs, "nil", 0), 0, kind)
  /\ phase' = IF rs'.stack = "panic" THEN "panic" ELSE "return"
  /\ ret' = [kind |-> kind, got |-> << >>]
  /\ UNCHANGED <<sent, got>>

RetExtract ==
  /\ phase = "return"
  /\ rs' = Decode(NewStream(rs, "nil", 0), ret.kind)
  /\ ret' = [ret EXCEPT !.got = rs'.out]
  /\ phase' = "back"
  /\ UNCHANGED <<sent, got>>

Next ==
  \/ \E kind \in ArgKinds : ArgWrite(kind)
  \/ \E kind \in RetKinds : RetWrite(kind)
  \/ Called \/ ArgRead \/ CalleeAlloc \/ RetExtract

Spec == Init /\ [][Next]_vars

-----------------------------------------------------------------------------
(* Properties *)

(* Between two arguments the stream stands at a whole register and at a     *)
(* whole word of the stack: Align after every argument.                     *)
TypeOK ==
  /\ phase \in {"write", "read", "return", "back", "panic"}
  /\ phase \in {"write", "read"} =>
       rs.gr % PointerSize = 0 /\ rs.st % 4 = 0 /\ rs.vr \in 0 .. RegCount
  /\ rs.sp <= Top /\ rs.sp % StackAlign = 0
  /\ \A c \in DOMAIN rs.regs : Len(rs.regs[c]) = PointerSize

(* Every argument arrives as it was sent, whether it went through general   *)
(* registers, vector registers, the stack or a mixture, directly or behind  *)
(* a pointer (Args.Extract gives back what ArgWrite was given).             *)
ArgsArrive == \A i \in DOMAIN got : got[i] = Faithful(i, sent[i])

(* What RetWrite was given RetExtract gives back; neither touches the       *)
(* missing stack of a result.                                               *)
ReturnArrives ==
  /\ phase # "panic"
  /\ phase = "back" => ret.got = Faithful(0, ret.kind)

(* The bytes a call leaves on the stack stay out of the frame of the        *)
(* callee: what was placed lies at or above the pointer Args starts from,   *)
(* and below the stack the caller had (StackAlloc of the stack arguments    *)
(* comes after that of everything the arguments point to).                  *)
BelowTheCaller ==
  \A a \in DOMAIN rs.mem :
    a < Top /\ (phase = "read" => a >= rs.base) /\ a >= rs.sp
=============================================================================
