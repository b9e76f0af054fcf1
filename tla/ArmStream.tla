------------------------------ MODULE ArmStream ------------------------------
(***************************************************************************)
(* Calls on arm (arm/stream.go, arm/arm.go): the code of arm64 for         *)
(* registers of four bytes, whose value still has eight.                   *)
(***************************************************************************)
EXTENDS Integers

CONSTANTS ArgKinds, RetKinds, MaxArgs, Top
VARIABLES phase, sent, got, ret, rs

ARG_REG_COUNT == 4
POINTER_SIZE == 4
STACK_ALIGN == 8

regStream ==
  INSTANCE RegStream WITH RegCount <- ARG_REG_COUNT, PointerSize <- POINTER_SIZE,
    ValueSize <- 8, SingleStep <- 1, StackAlign <- STACK_ALIGN

Init == regStream!Init

ArgWrite == \E kind \in ArgKinds : regStream!ArgWrite(kind)
Called == regStream!Called
ArgRead == regStream!ArgRead
CalleeAlloc == regStream!CalleeAlloc
RetWrite == \E kind \in RetKinds : regStream!RetWrite(kind)
RetExtract == regStream!RetExtract

Next == ArgWrite \/ Called \/ ArgRead \/ CalleeAlloc \/ RetWrite \/ RetExtract

Spec == Init /\ [][Next]_<<phase, sent, got, ret, rs>>

-----------------------------------------------------------------------------
(* What ArgWrite of arm is given, Args.Extract gives back.                  *)
ArgsArrive == regStream!ArgsArrive

(* What RetWrite of arm is given, RetExtract gives back, without touching   *)
(* the missing stack of a result.                                           *)
ReturnArrives == regStream!ReturnArrives
=============================================================================
