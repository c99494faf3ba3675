----------------------------- MODULE MCOrderedNode -----------------------------
(***************************************************************************)
(* OrderedNode for TLC: frames a1 and a2 of origin A, b1 of origin B, and  *)
(* x, a frame only another validator ever proposes.  Two frames fill a     *)
(* batch and two batches fill a flush.                                     *)
(***************************************************************************)
EXTENDS OrderedNode, TLC

CONSTANTS A, B, a1, a2, b1, x

Origins == {A, B}
Frames  == {a1, a2, b1, x}
Origin4 == a1 :> A @@ a2 :> A @@ b1 :> B @@ x :> B
Seq4    == a1 :> 1 @@ a2 :> 2 @@ b1 :> 1 @@ x :> 9
Size4   == a1 :> 1 @@ a2 :> 2 @@ b1 :> 1 @@ x :> 1

ForeignX   == {<<x>>}
ForeignAll == {<<x>>, <<a1, a1>>, Junk}
RecoveredX == <<<<x>>>>
FewFrames  == {a1, x}
FewOrigin  == [f \in FewFrames |-> Origin4[f]]
FewSeq     == [f \in FewFrames |-> Seq4[f]]
FewSize    == [f \in FewFrames |-> Size4[f]]
Genesis    == <<>>
================================================================================
