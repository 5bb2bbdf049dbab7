---------------------------- MODULE MCWmiDevice ----------------------------
(* WmiDevice with tables in which the management block comes first, second,
   not at all, twice, or with its bytes in the order of the string. *)
EXTENDS WmiDevice

Block(g, i) == [guid |-> g, id |-> i]
Other == [MgmtBytes EXCEPT ![9] = 139]
MCIds == {"WMNB", "WMBH"}
MCWdgs == {<<>>, <<Block(MgmtBytes, "WMBH")>>, <<Block(MgmtGuid, "WMBH")>>,
           <<Block(Other, "WMNB"), Block(MgmtBytes, "WMBH")>>,
           <<Block(MgmtBytes, "WMNB"), Block(MgmtBytes, "WMBH")>>}
MCLkbs == {<<0, 0>>, <<15, 255>>, <<16, 15>>, <<255, 176>>}
=============================================================================
