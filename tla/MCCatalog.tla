----------------------------- MODULE MCCatalog ------------------------------
(* One device with two collection points, which two requests may lock in      *)
(* different orders, and a write point, all in group g1, and room for more.   *)
EXTENDS Catalog, TLC

CONSTANTS d1, d2, p1, p2, p3, p4, w1, w2, w3, default, g1, g2, n1, n2, n3,
          S7, MODBUS_TCP

MCDevice == {d1, d2}
MCColl   == {p1, p2, p3, p4}
MCWrite  == {w1, w2, w3}

APoint(n, g) == [live |-> TRUE, name |-> n, proto |-> S7, group |-> g, dev |-> d1]

MCInitial ==
  [k \in Key |->
     CASE k = d1              -> [live |-> TRUE, name |-> n1, proto |-> S7]
       [] k \in {p1, w1}      -> APoint(n1, g1)
       [] k = p2              -> APoint(n2, g1)
       [] k \in {default, g1} -> [live |-> TRUE]
       [] OTHER               -> Absent]

SavePoint(t, k, n, g) ==
  [op |-> "savePoint", table |-> t, key |-> k, name |-> n, proto |-> S7, group |-> g, dev |-> d1]

ImportPoint(t, n, g) ==
  [op |-> "importPoint", table |-> t, name |-> n, proto |-> S7, group |-> g, device |-> n1]

MCRequest ==
  {[op |-> "saveDevice", key |-> None, name |-> n2, proto |-> S7],
   [op |-> "saveDevice", key |-> d1, name |-> n1, proto |-> MODBUS_TCP],
   [op |-> "importDevice", name |-> n2, proto |-> S7],
   [op |-> "deleteDevice", key |-> d1],
   SavePoint(Coll, None, n3, g1), SavePoint(Write, None, n2, g1),
   SavePoint(Coll, p1, n1, default), SavePoint(Coll, p1, n2, g1),
   ImportPoint(Coll, n3, g1), ImportPoint(Coll, n1, default),
   [op |-> "deletePoint", key |-> p1],
   [op |-> "createGroup", group |-> g2],
   [op |-> "updateGroup", group |-> g1, new |-> g2],
   [op |-> "deleteGroup", group |-> g1], [op |-> "deleteGroup", group |-> default],
   [op |-> "setRetention", days |-> 30], [op |-> "setRetention", days |-> 60],
   [op |-> "setRetention", days |-> 731]}

=============================================================================
