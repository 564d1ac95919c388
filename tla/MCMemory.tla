------------------------------- MODULE MCMemory -------------------------------
(* Twelve units of memory, the window two of them, depthcharge below and     *)
(* free memory on both sides of 4 GB, ranges that overlap, meet and split,   *)
(* at most two broken cells.                                                 *)
EXTENDS Memory

Entry(type, start, end) == [type |-> type, start |-> start, end |-> end]
MCImage == [start |-> 4, end |-> 5]
MCRamoops == {[start |-> 1, end |-> 2], [start |-> 5, end |-> 7]}
MCMaps ==
  {<<Entry("ram", 0, 12)>>,
   <<Entry("ram", 0, 6), Entry("reserved", 0, 1), Entry("ram", 7, 12)>>,
   <<Entry("ram", 1, 10), Entry("reserved", 8, 10), Entry("reserved", 6, 8)>>,
   <<Entry("reserved", 0, 3), Entry("ram", 2, 11), Entry("reserved", 9, 12)>>,
   <<Entry("ram", 3, 5), Entry("ram", 5, 9), Entry("ram", 10, 12)>>}
MCMapsAll == MCMaps \cup
  {<<Entry("ram", 0, 12), Entry("unrecognized", 6, 7), Entry("reserved", 8, 12)>>,
   <<Entry("unrecognized", 0, 1), Entry("ram", 1, 12)>>}
MCFaults == {{}} \cup {{<<p, a>>} : p \in {1, 2}, a \in 0 .. 11}
            \cup {{<<2, a>>, <<2, a + 2>>} : a \in 0 .. 9}
===============================================================================
