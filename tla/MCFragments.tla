------------------------------ MODULE MCFragments -----------------------------
(* Instances of Fragments. *)
EXTENDS Fragments

(* Lengths around the chunk size, and ids that collide. *)
Colliding == {[id |-> 1, len |-> 3], [id |-> 1, len |-> 4], [id |-> 1, len |-> 5],
              [id |-> 2, len |-> 5], [id |-> 3, len |-> 0], [id |-> 4, len |-> 8]}

(* Messages with ids of their own. *)
Distinct == {[id |-> 1, len |-> 5], [id |-> 2, len |-> 4], [id |-> 3, len |-> 0]}

(* The assembler's own state: no step depends on the histories. *)
Assembler == <<pending, buffered, sinceCleanup>>
===============================================================================
