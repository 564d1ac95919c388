-------------------------------- MODULE Ranges --------------------------------
(* Collections of address ranges: src/src/base/ranges.c.  A collection is   *)
(* the list of the edges between what is in it and what is not, as the      *)
(* sequence of their positions.                                             *)
EXTENDS Integers, Sequences

\* ranges_init
NoRanges == <<>>

\* The first loop of ranges_set_region_to stops at the first edge that is not
\* before start, the second one at the first that is behind end.
EdgesBefore(edges, start) ==
  CHOOSE n \in 0 .. Len(edges) :
    /\ \A k \in 1 .. n : edges[k] < start
    /\ n < Len(edges) => edges[n + 1] >= start

EdgesBelow(edges, from, end) ==   \* mutant
  CHOOSE n \in from .. Len(edges) :
    /\ \A k \in from + 1 .. n : edges[k] < end
    /\ n < Len(edges) => edges[n + 1] >= end

EdgesUpTo(edges, from, end) ==
  CHOOSE n \in from .. Len(edges) :
    /\ \A k \in from + 1 .. n : edges[k] <= end
    /\ n < Len(edges) => edges[n + 1] > end

\* An edge is put where what is included changes.
EdgeIf(changes, pos) == IF changes THEN <<pos>> ELSE <<>>

SetRegionKeepsEdges(edges, start, end, new_included) ==   \* mutant
  LET first == EdgesBefore(edges, start)
      last == EdgesUpTo(edges, first, end)
  IN SubSeq(edges, 1, first)
       \o EdgeIf(new_included # first % 2, start)
       \o EdgeIf(new_included # first % 2, end)
       \o SubSeq(edges, last + 1, Len(edges))

\* ranges_set_region_to: the edges from start to end give way to at most two.
SetRegionTo(edges, start, end, new_included) ==
  LET first == EdgesBefore(edges, start)
      last == EdgesUpTo(edges, first, end)
  IN SubSeq(edges, 1, first)
       \o EdgeIf(new_included # first % 2, start)
       \o EdgeIf(new_included # last % 2, end)
       \o SubSeq(edges, last + 1, Len(edges))

ranges_add(edges, start, end) == SetRegionTo(edges, start, end, 1)
ranges_sub(edges, start, end) == SetRegionTo(edges, start, end, 0)

\* What ranges_for_each calls its function with: the k-th range, for k from 1.
Count(edges) == Len(edges) \div 2
First(edges, k) == edges[2 * k - 1]
Behind(edges, k) == edges[2 * k]

-----------------------------------------------------------------------------
(* The lists that stand for a set, and the set.                             *)
IsRanges(edges) ==
  /\ edges \in Seq(Nat)
  /\ Len(edges) % 2 = 0
  /\ \A j, k \in 1 .. Len(edges) : j < k => edges[j] < edges[k]

Span(edges, k) == First(edges, k) .. Behind(edges, k) - 1
Addresses(edges) == UNION {Span(edges, k) : k \in 1 .. Count(edges)}
===============================================================================
