-------------------------- MODULE MCRelayDelivery ---------------------------
(* An instance of RelayDelivery, and with it of MessageDelivery, with one  *)
(* sender.  NonceAge has the least value the assumption admits; the code's,*)
(* ten minutes against five and a half, leaves room.                       *)
EXTENDS RelayDelivery, TLC

CONSTANTS sender, m1, m2, m3

MCMessages == {m1, m2, m3}

MCFrom == [m \in Messages |-> sender]
MCSkew == {1, 2}
=============================================================================
