--------------------------- MODULE MCProcoreSync ---------------------------
(* Instances of ProcoreSync for TLC. *)
EXTENDS ProcoreSync, TLC

CONSTANTS a1, a2, b1, A, B, s1, s2

\* Two rows of project A, one of project B.
TwoScopeOf == a1 :> A @@ a2 :> A @@ b1 :> B
TwoIds == a1 :> 1 @@ a2 :> 2 @@ b1 :> 3
\* No two rows change in the same instant.
Alone == {{a1}, {a2}, {b1}}

SmallScopeOf == a1 :> A @@ b1 :> B
SmallIds == a1 :> 1 @@ b1 :> 2
SmallAlone == {{a1}, {b1}}
=============================================================================
