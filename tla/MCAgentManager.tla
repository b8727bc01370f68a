--------------------------- MODULE MCAgentManager ---------------------------
(* Small instances of AgentManager for TLC.                                *)
EXTENDS AgentManager, TLC

CONSTANTS a1, c1, c2, c3, t1, t2, near

\* Two connections of one device: of one token, or the second after it enrolled
\* again.
PairAsset == (c1 :> a1) @@ (c2 :> a1)
PairToken == (c1 :> t1) @@ (c2 :> t2)
SameToken == (c1 :> t1) @@ (c2 :> t1)
PairSource == (c1 :> near) @@ (c2 :> near)

\* Three sockets of one device, one token and one source, which nothing in the
\* code tells apart.
TrioAsset == [c \in Conns |-> a1]
TrioToken == [c \in Conns |-> t1]
TrioSource == [c \in Conns |-> near]
TrioSymmetry == Permutations({c1, c2, c3})
=============================================================================
