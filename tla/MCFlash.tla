------------------------------- MODULE MCFlash --------------------------------
(* Four sectors of two pages of two bytes, a fill buffer of one sector, and  *)
(* ranges that start and end inside, at and across pages and sectors.        *)
EXTENDS Flash

Request(op, start, length) == [op |-> op, start |-> start, length |-> length]
MCRequests ==
  {Request("write", s, n) : s \in {4, 5, 7}, n \in {1, 4, 6}} \cup
  {Request("erase", 4, 8), Request("erase", 6, 4), Request("erase", 0, 4)} \cup
  {Request("rewrite", s, n) : s \in {0, 4, 6}, n \in {3, 4, 6}} \cup
  {Request("fill", 4, 8), Request("fill", 0, 4), Request("fill_erased", 4, 8)}
================================================================================
