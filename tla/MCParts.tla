------------------------------- MODULE MCParts -------------------------------
(* Parts for TLC, with two more components: argument passing on arm and     *)
(* encoding.  Nothing tells two goroutines or two things apart. *)
EXTENDS Parts, TLC

VARIABLES type, step, host, guest, outcome

encodingVars == <<type, step, host, guest, outcome>>

-----------------------------------------------------------------------------
(* Paths, and those for a file system that is used in any way *)
AllPaths == {<<"a">>, <<"b">>, <<"a", "b">>}
SomePaths == {<<"a">>, <<"a", "b">>}

(* Stream operations of some types: 12 bytes are a struct of words, a byte  *)
(* and a pointer a struct, a pointer, a byte and a word another             *)
P(op, n) == [op |-> op, n |-> n]
Byte == <<P("write", 1)>>
Word == <<P("write", 4)>>
Long == <<P("write", 8)>>
Block == <<P("write", 12)>>
Float == <<P("float", 4)>>
Pointer == <<P("stream", 4)>>
Tagged == <<P("write", 1), P("skip", 7), P("stream", 4)>>
Counted == <<P("stream", 4), P("write", 1), P("skip", 3), P("write", 4)>>

SomeArgs == {Byte, Long, Block, Float, Pointer, Tagged, Counted}
SomeResults == {Word, Block, Float, Pointer}

(* No values of eight bytes *)
arm == INSTANCE ArmStream WITH
  ArgKinds <- {Word, Float, Counted}, RetKinds <- {Byte, Word, Float, Counted},
  MaxArgs <- 6

types64 == INSTANCE EncodingTypes WITH BlockSize <- 8
types32 == INSTANCE EncodingTypes WITH BlockSize <- 4
encoding64 == INSTANCE Encoding WITH
  BlockSize <- 8, SliceLen <- 2, phase <- step
encoding32 == INSTANCE Encoding WITH
  BlockSize <- 4, SliceLen <- 2, phase <- step

-----------------------------------------------------------------------------
NoValue == type = "none" /\ step = "none" /\ host = << >> /\ guest = << >> /\ outcome = "ok"

Init ==
  \/ PartsInit /\ NoValue
  \/ /\ \/ part = "arm" /\ arm!Init /\ NoValue
        \/ part = "encoding64" /\ encoding64!Init(types64!AllTypes) /\ arm64!Init
        \/ part = "encoding32" /\ encoding32!Init(types32!AllTypes) /\ arm64!Init
     /\ Begin

Next ==
  \/ PartsNext /\ UNCHANGED encodingVars
  \/ /\ part = "arm" /\ arm!Next
     /\ UNCHANGED <<part, filesVars, tableVars, hookVars, bindVars, socketVars,
                    moduleVars, virtualVars, encodingVars>>
  \/ /\ \/ part = "encoding64" /\ encoding64!Next
        \/ part = "encoding32" /\ encoding32!Next
     /\ UNCHANGED partsVars

vars == <<partsVars, encodingVars>>
Spec == Init /\ [][Next]_vars

Symmetry == Permutations(Goroutines) \cup Permutations(Things)

-----------------------------------------------------------------------------
(* Properties of these components, each while its part is the one that      *)
(* moves.                                                                   *)

(* What ArgWrite is given Args.Extract gives back, and what RetWrite is     *)
(* given RetExtract does, on arm64 and on arm.                              *)
CallsArrive ==
  /\ part = "arm64" => arm64!ArgsArrive /\ arm64!ReturnArrives
  /\ part = "arm" => arm!ArgsArrive /\ arm!ReturnArrives

(* A value that was encoded is decoded as it was.                           *)
RoundTrip ==
  /\ part = "encoding64" => encoding64!RoundTrip
  /\ part = "encoding32" => encoding32!RoundTrip

(* Encode and Decode stay inside the blocks EncodeSize has counted, and     *)
(* Encode does not take data for an address.                                *)
WithinBlocks ==
  /\ part = "encoding64" => encoding64!WithinBlocks /\ encoding64!NeverPanics
  /\ part = "encoding32" => encoding32!WithinBlocks
=============================================================================
