----------------------------- MODULE MCFilePool -----------------------------
(* A small instance of FilePool for TLC.                                   *)
EXTENDS FilePool, TLC

CONSTANTS nas, b1, b2, x1

\* Browsers and a transfer of one connection.
SharedConn == (b1 :> nas) @@ (b2 :> nas) @@ (x1 :> nas)

OneStripe == [c \in Saved |-> 1]
=============================================================================
