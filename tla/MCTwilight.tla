------------------------------ MODULE MCTwilight ------------------------------
(* Which tokens three requests bring: requests are alike, so the order does   *)
(* not matter.                                                                *)
EXTENDS Twilight

Brought == {<<1, 1, 1>>, <<1, 1, 2>>, <<1, 2, 2>>, <<Default, Default, 1>>}

MCInit == Init /\ <<tok[1], tok[2], tok[3]>> \in Brought
MCSpec == MCInit /\ [][Next]_vars
===============================================================================
