------------------------------- MODULE MCSimNode -------------------------------
(* A node with three calls for TLC: two of one hash through send_to_route, *)
(* and a send_payment, whose hash is random and therefore its own.         *)
EXTENDS SimNode, TLC

CONSTANTS p1, p2, p3, h1, h2

MCPayment == {p1, p2, p3}
MCHash == {h1, h2}
MCPaymentHash == p1 :> h1 @@ p2 :> h1 @@ p3 :> h2
MCToRoute == {p1, p2}

===============================================================================
