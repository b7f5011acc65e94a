--------------------------- MODULE MCStatMonitor ----------------------------
(* StatMonitor with a group of two backends on two servers, for TLC. *)
EXTENDS StatMonitor

MCGroupOf == [b1 |-> "g1", b2 |-> "g1"]
MCServerOf == [b1 |-> "s1", b2 |-> "s2"]

(* Ids at both ends of the ring, one of them given twice; a table that     *)
(* does not have the group.                                                *)
MCTables == {[b1 |-> {0, 5, 7}, b2 |-> {2, 7}], [b1 |-> {}, b2 |-> {}]}

MCLoads == {{"b1"}}

=============================================================================
