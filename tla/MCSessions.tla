------------------------------ MODULE MCSessions ------------------------------
(* Instances of Sessions for TLC. *)
EXTENDS Sessions

(* Both ends dial each other by id, as after a lighthouse introduction. *)
BothDial == {<<1, 2, TRUE, "a2">>, <<2, 1, TRUE, "a1">>}

(* One end dials the other in both ways: as its configured lighthouse, and *)
(* by id when another lighthouse names it, at another address.             *)
TwoWays == {<<1, 2, TRUE, "a2">>, <<1, 2, FALSE, "b2">>}

(* Two nodes dial a third, a lighthouse. *)
Spokes == {<<2, 1, FALSE, "a1">>, <<3, 1, FALSE, "a1">>}

(* One end dials the other. *)
OneDials == {<<1, 2, TRUE, "a2">>}

(* Three nodes in a chain, the neighbours dialling each other; the third   *)
(* node dials the second by id and as its lighthouse, whose name resolves  *)
(* to an old or to a new address.                                          *)
Chain == {<<1, 2, TRUE, "a2">>, <<2, 1, TRUE, "a1">>, <<2, 3, TRUE, "a3">>,
          <<3, 2, TRUE, "a2">>, <<3, 2, FALSE, "a2">>, <<3, 2, FALSE, "b2">>}
===============================================================================
