----------------------------- MODULE MemoryProofs ------------------------------
(* Theorems about Ranges and Memory: ranges_add and ranges_sub are union and *)
(* difference, for lists of any length and ranges at any place; the wipe     *)
(* clears all free memory and nothing else, and the memory test writes to    *)
(* free memory only, counts what it does, and ends with the right verdict,   *)
(* for every memory map, of any length, every size of memory and every set   *)
(* of broken cells.                                                          *)
EXTENDS Memory, TLAPS, WellFoundedInduction, FiniteSetTheorems

-----------------------------------------------------------------------------
(* A set of natural numbers has a least element.                             *)

Less == {ss \in Nat \X Nat : ss[1] < ss[2]}

LEMMA LeastNatural ==
  ASSUME NEW S \in SUBSET Nat, S # {}
  PROVE  \E m \in S : \A k \in S : m <= k
<1>1. \A x, y \in Nat : x < y => <<x, y>> \in Less
  BY DEF Less
<1>2. IsWellFoundedOn(Less, Nat)
  BY NatLessThanWellFounded DEF OpToRel, Less
<1>3. PICK m \in S : \A k \in S : <<k, m>> \notin Less
  BY <1>2, WFMin
<1>4. ASSUME NEW k \in S
      PROVE  m <= k
  <2>1. ~(k < m)
    BY <1>1, <1>3
  <2>2. QED
    BY <2>1
<1>5. QED
  BY <1>4

-----------------------------------------------------------------------------
(* The n first edges are those up to a.                                      *)
UpTo(edges, n, a) ==
  /\ n \in 0 .. Len(edges)
  /\ \A k \in 1 .. n : edges[k] <= a
  /\ n < Len(edges) => a < edges[n + 1]

LEMMA UpToExists ==
  ASSUME NEW edges, IsRanges(edges), NEW a \in Int
  PROVE  \E n \in 0 .. Len(edges) : UpTo(edges, n, a)
<1> DEFINE Later == {k \in 1 .. Len(edges) : a < edges[k]}
<1>1. Len(edges) \in Nat /\ \A k \in 1 .. Len(edges) : edges[k] \in Nat
  BY DEF IsRanges
<1>2. CASE Later = {}
  <2>1. \A k \in 1 .. Len(edges) : edges[k] <= a
    BY <1>1, <1>2
  <2>2. UpTo(edges, Len(edges), a)
    BY <1>1, <2>1 DEF UpTo
  <2>3. QED
    BY <1>1, <2>2
<1>3. CASE Later # {}
  <2>0. Later \in SUBSET Nat
    BY <1>1
  <2>1. PICK m \in Later : \A k \in Later : m <= k
    <3> HIDE DEF Later
    <3>1. QED
      BY <2>0, <1>3, LeastNatural
  <2>2. m \in 1 .. Len(edges) /\ a < edges[m]
    BY <2>1
  <2>3. \A k \in 1 .. m - 1 : edges[k] <= a
    <3> TAKE k \in 1 .. m - 1
    <3>1. k \in 1 .. Len(edges) /\ k \notin Later
      BY <1>1, <2>1, <2>2
    <3>2. QED
      BY <1>1, <3>1
  <2>4. UpTo(edges, m - 1, a)
    BY <1>1, <2>2, <2>3 DEF UpTo
  <2>5. QED
    BY <1>1, <2>2, <2>4
<1>4. QED
  BY <1>2, <1>3

(* An address is in the collection iff an odd number of edges is up to it.   *)
LEMMA ParityDecides ==
  ASSUME NEW edges, IsRanges(edges), NEW a \in Nat, NEW n, UpTo(edges, n, a)
  PROVE  a \in Addresses(edges) <=> n % 2 = 1
<1>1. /\ Len(edges) \in Nat /\ Len(edges) % 2 = 0
      /\ \A k \in 1 .. Len(edges) : edges[k] \in Nat
      /\ \A j, k \in 1 .. Len(edges) : j < k => edges[j] < edges[k]
  BY DEF IsRanges
<1>2. n \in Nat /\ n <= Len(edges)
  BY <1>1 DEF UpTo
<1>3. ASSUME n % 2 = 1
      PROVE  a \in Addresses(edges)
  <2>1. n < Len(edges) /\ n >= 1
    BY <1>1, <1>2, <1>3
  <2>2. PICK k \in 1 .. Len(edges) \div 2 : n = 2 * k - 1
    <3>1. (n + 1) \div 2 \in 1 .. Len(edges) \div 2 /\ n = 2 * ((n + 1) \div 2) - 1
      BY <1>1, <1>2, <1>3, <2>1
    <3>2. QED
      BY <3>1
  <2>3. edges[2 * k - 1] <= a /\ a < edges[2 * k]
    BY <1>2, <2>1, <2>2 DEF UpTo
  <2>4. edges[2 * k] \in Nat /\ edges[2 * k - 1] \in Nat
    BY <1>1, <1>2, <2>1, <2>2
  <2>5. a \in edges[2 * k - 1] .. edges[2 * k] - 1
    BY <2>3, <2>4
  <2>6. QED
    BY <2>2, <2>5 DEF Addresses, Span, First, Behind, Count
<1>4. ASSUME a \in Addresses(edges)
      PROVE  n % 2 = 1
  <2>1. PICK k \in 1 .. Len(edges) \div 2 : a \in edges[2 * k - 1] .. edges[2 * k] - 1
    BY <1>4 DEF Addresses, Span, First, Behind, Count
  <2>2. 2 * k - 1 \in 1 .. Len(edges) /\ 2 * k \in 1 .. Len(edges)
    BY <1>1, <2>1
  <2>3. edges[2 * k - 1] <= a /\ a < edges[2 * k]
    BY <1>1, <2>1, <2>2
  <2>4. ~(2 * k <= n)
    BY <1>1, <1>2, <2>2, <2>3 DEF UpTo
  <2>5. ~(n < 2 * k - 1)
    <3>1. SUFFICES ASSUME n < 2 * k - 1 PROVE FALSE
      OBVIOUS
    <3>2. n + 1 \in 1 .. Len(edges) /\ a < edges[n + 1]
      BY <1>1, <1>2, <2>2, <3>1 DEF UpTo
    <3>3. edges[n + 1] <= edges[2 * k - 1]
      <4>1. PICK l \in 1 .. Len(edges) : l = 2 * k - 1
        BY <2>2
      <4>2. PICK m \in 1 .. Len(edges) : m = n + 1
        BY <3>2
      <4>3. m <= l
        BY <1>2, <3>1, <4>1, <4>2
      <4>4. m = l \/ m < l
        BY <4>3
      <4>5. edges[m] <= edges[l]
        BY <1>1, <4>4
      <4>6. QED
        BY <4>1, <4>2, <4>5
    <3>4. QED
      BY <1>1, <2>2, <2>3, <3>2, <3>3
  <2>6. n = 2 * k - 1
    BY <1>2, <2>1, <2>4, <2>5
  <2>7. QED
    BY <2>1, <2>6
<1>5. QED
  BY <1>2, <1>3, <1>4

-----------------------------------------------------------------------------
(* What the two loops of ranges_set_region_to find.                          *)
LEMMA LoopsEnd ==
  ASSUME NEW edges, IsRanges(edges), NEW start \in Nat, NEW end \in Nat,
         start < end
  PROVE  LET first == EdgesBefore(edges, start)
             last == EdgesUpTo(edges, first, end)
         IN UpTo(edges, first, start - 1) /\ UpTo(edges, last, end) /\ first <= last
<1> DEFINE first == EdgesBefore(edges, start)
           last == EdgesUpTo(edges, first, end)
<1>1. /\ Len(edges) \in Nat
      /\ \A k \in 1 .. Len(edges) : edges[k] \in Nat
  BY DEF IsRanges
<1>2. UpTo(edges, first, start - 1)
  <2>1. PICK n \in 0 .. Len(edges) : UpTo(edges, n, start - 1)
    BY UpToExists
  <2>2. /\ \A k \in 1 .. n : edges[k] < start
        /\ n < Len(edges) => edges[n + 1] >= start
    BY <1>1, <2>1 DEF UpTo
  <2>3. /\ first \in 0 .. Len(edges)
        /\ \A k \in 1 .. first : edges[k] < start
        /\ first < Len(edges) => edges[first + 1] >= start
    BY <2>2 DEF EdgesBefore
  <2>4. QED
    BY <1>1, <2>3 DEF UpTo
<1>3. first \in 0 .. Len(edges)
  BY <1>2 DEF UpTo
<1>4. UpTo(edges, last, end) /\ last \in first .. Len(edges)
  <2> HIDE DEF first
  <2>1. PICK n \in 0 .. Len(edges) : UpTo(edges, n, end)
    BY UpToExists
  <2>2. ~(n < first)
    <3>1. SUFFICES ASSUME n < first PROVE FALSE
      OBVIOUS
    <3>2. end < edges[n + 1] /\ n + 1 \in 1 .. first
      BY <1>1, <1>3, <2>1, <3>1 DEF UpTo
    <3>3. edges[n + 1] <= start - 1
      BY <1>2, <3>2 DEF UpTo
    <3>4. QED
      BY <1>1, <1>3, <3>2, <3>3
  <2>3. /\ n \in first .. Len(edges)
        /\ \A k \in first + 1 .. n : edges[k] <= end
        /\ n < Len(edges) => edges[n + 1] > end
    BY <1>1, <1>3, <2>1, <2>2 DEF UpTo
  <2>4. /\ last \in first .. Len(edges)
        /\ \A k \in first + 1 .. last : edges[k] <= end
        /\ last < Len(edges) => edges[last + 1] > end
    BY <2>3 DEF EdgesUpTo
  <2>5. \A k \in 1 .. last : edges[k] <= end
    <3> TAKE k \in 1 .. last
    <3>1. CASE k <= first
      BY <1>1, <1>2, <1>3, <2>4, <3>1 DEF UpTo
    <3>2. CASE ~(k <= first)
      BY <1>3, <2>4, <3>2
    <3>3. QED
      BY <3>1, <3>2
  <2>6. QED
    BY <1>1, <1>3, <2>4, <2>5 DEF UpTo
<1>5. QED
  BY <1>2, <1>3, <1>4

LEMMA Concatenated ==
  ASSUME NEW x \in Seq(Nat), NEW y \in Seq(Nat)
  PROVE  /\ x \o y \in Seq(Nat) /\ Len(x \o y) = Len(x) + Len(y)
         /\ \A k \in 1 .. Len(x) : (x \o y)[k] = x[k]
         /\ \A k \in Len(x) + 1 .. Len(x \o y) : (x \o y)[k] = y[k - Len(x)]
<1>1. x \o y \in Seq(Nat) /\ Len(x \o y) = Len(x) + Len(y)
  OBVIOUS
<1>2. \A k \in 1 .. Len(x) : (x \o y)[k] = x[k]
  OBVIOUS
<1>3. \A k \in Len(x) + 1 .. Len(x \o y) : (x \o y)[k] = y[k - Len(x)]
  BY <1>1
<1>4. QED
  BY <1>1, <1>2, <1>3

LEMMA EdgeAppended ==
  ASSUME NEW x \in Seq(Nat), NEW pos \in Nat, NEW b \in {0, 1}
  PROVE  /\ x \o EdgeIf(b = 1, pos) \in Seq(Nat)
         /\ Len(x \o EdgeIf(b = 1, pos)) = Len(x) + b
         /\ \A k \in 1 .. Len(x) : (x \o EdgeIf(b = 1, pos))[k] = x[k]
         /\ b = 1 => (x \o EdgeIf(b = 1, pos))[Len(x) + 1] = pos
<1>1. CASE b = 0
  <2>1. EdgeIf(b = 1, pos) = <<>>
    BY <1>1 DEF EdgeIf
  <2>2. x \o <<>> = x
    OBVIOUS
  <2>3. x \o EdgeIf(b = 1, pos) = x
    BY <2>1, <2>2
  <2>4. b # 1 /\ Len(x) + b = Len(x)
    BY <1>1
  <2>5. QED
    BY <2>3, <2>4, Zenon
<1>2. CASE b = 1
  <2>1. EdgeIf(b = 1, pos) = <<pos>>
    BY <1>2 DEF EdgeIf
  <2>2. /\ x \o <<pos>> \in Seq(Nat) /\ Len(x \o <<pos>>) = Len(x) + 1
        /\ \A k \in 1 .. Len(x) : (x \o <<pos>>)[k] = x[k]
        /\ (x \o <<pos>>)[Len(x) + 1] = pos
    OBVIOUS
  <2>3. QED
    BY <1>2, <2>1, <2>2
<1>3. QED
  BY <1>1, <1>2

Bit == {0, 1}

(* The list that comes out, position by position.                            *)
IsSplice(s, edges, first, last, b, c, start, end) ==
  /\ Len(s) = first + b + c + (Len(edges) - last)
  /\ \A k \in 1 .. first : s[k] = edges[k]
  /\ b = 1 => s[first + 1] = start
  /\ c = 1 => s[first + b + 1] = end
  /\ \A k \in first + b + c + 1 .. Len(s) :
       s[k] = edges[k - (first + b + c) + last]

LEMMA Spliced ==
  ASSUME NEW edges \in Seq(Nat), NEW first \in 0 .. Len(edges),
         NEW last \in first .. Len(edges), NEW start \in Nat, NEW end \in Nat,
         NEW b \in Bit, NEW c \in Bit
  PROVE  LET s == SubSeq(edges, 1, first) \o EdgeIf(b = 1, start)
                    \o EdgeIf(c = 1, end) \o SubSeq(edges, last + 1, Len(edges))
         IN s \in Seq(Nat) /\ IsSplice(s, edges, first, last, b, c, start, end)
<1> USE DEF Bit
<1> DEFINE p == SubSeq(edges, 1, first)
           q == SubSeq(edges, last + 1, Len(edges))
           u == p \o EdgeIf(b = 1, start)
           v == u \o EdgeIf(c = 1, end)
           s == v \o q
<1>0. first \in Nat /\ last \in Nat /\ b \in Nat /\ c \in Nat
  OBVIOUS
<1>1. /\ p \in Seq(Nat) /\ Len(p) = first
      /\ \A k \in 1 .. first : p[k] = edges[k]
  OBVIOUS
<1>2. /\ q \in Seq(Nat) /\ Len(q) = Len(edges) - last
      /\ \A k \in 1 .. Len(edges) - last : q[k] = edges[k + last]
  OBVIOUS
<1>3. /\ u \in Seq(Nat) /\ Len(u) = first + b
      /\ \A k \in 1 .. first : u[k] = edges[k]
      /\ b = 1 => u[first + 1] = start
  <2> HIDE DEF p
  <2>1. /\ u \in Seq(Nat) /\ Len(u) = Len(p) + b
        /\ \A k \in 1 .. Len(p) : u[k] = p[k]
        /\ b = 1 => u[Len(p) + 1] = start
    <3>1. p \in Seq(Nat)
      BY <1>1
    <3>2. QED
      BY <3>1, EdgeAppended, Zenon
  <2> HIDE DEF u
  <2>2. /\ u \in Seq(Nat) /\ Len(u) = first + b
        /\ b = 1 => u[first + 1] = start
    BY <1>1, <2>1
  <2>3. \A k \in 1 .. first : u[k] = edges[k]
    BY <1>1, <2>1
  <2>4. QED
    BY <2>2, <2>3
<1>4. /\ v \in Seq(Nat) /\ Len(v) = first + b + c
      /\ \A k \in 1 .. first : v[k] = edges[k]
      /\ b = 1 => v[first + 1] = start
      /\ c = 1 => v[first + b + 1] = end
  <2> HIDE DEF u
  <2>1. /\ v \in Seq(Nat) /\ Len(v) = Len(u) + c
        /\ \A k \in 1 .. Len(u) : v[k] = u[k]
        /\ c = 1 => v[Len(u) + 1] = end
    <3>1. u \in Seq(Nat)
      BY <1>3
    <3>2. QED
      BY <3>1, EdgeAppended, Zenon
  <2> HIDE DEF v
  <2>2. \A k \in 1 .. first : v[k] = edges[k]
    <3> TAKE k \in 1 .. first
    <3>1. k \in 1 .. Len(u)
      BY <1>0, <1>3
    <3>2. QED
      BY <1>3, <2>1, <3>1
  <2>3. b = 1 => v[first + 1] = start
    <3>1. b = 1 => first + 1 \in 1 .. Len(u)
      BY <1>0, <1>3
    <3>2. QED
      BY <1>3, <2>1, <3>1
  <2>4. QED
    BY <1>0, <1>3, <2>1, <2>2, <2>3
<1> HIDE DEF v, q
<1>5. /\ s \in Seq(Nat) /\ Len(s) = Len(v) + Len(q)
      /\ \A k \in 1 .. Len(v) : s[k] = v[k]
      /\ \A k \in Len(v) + 1 .. Len(s) : s[k] = q[k - Len(v)]
  BY <1>2, <1>4, Concatenated
<1> HIDE DEF s
<1>6. \A k \in first + b + c + 1 .. Len(s) : s[k] = edges[k - (first + b + c) + last]
  <2> TAKE k \in first + b + c + 1 .. Len(s)
  <2>1. k - (first + b + c) \in 1 .. Len(edges) - last
    BY <1>0, <1>2, <1>4, <1>5
  <2>2. s[k] = q[k - (first + b + c)]
    BY <1>4, <1>5
  <2>3. QED
    BY <1>2, <2>1, <2>2
<1>7. /\ \A k \in 1 .. first : s[k] = edges[k]
      /\ b = 1 => s[first + 1] = start
      /\ c = 1 => s[first + b + 1] = end
  BY <1>0, <1>4, <1>5
<1>8. s \in Seq(Nat) /\ IsSplice(s, edges, first, last, b, c, start, end)
  BY <1>0, <1>2, <1>4, <1>5, <1>6, <1>7 DEF IsSplice
<1>9. QED
  BY <1>8 DEF s, v, q

(* Where the loops of ranges_set_region_to stop.                             *)
Bounds(edges, first, last, start, end) ==
  /\ first \in Nat /\ last \in Nat /\ first <= last /\ last <= Len(edges)
  /\ \A k \in 1 .. first : edges[k] < start
  /\ first < Len(edges) => edges[first + 1] >= start
  /\ \A k \in 1 .. last : edges[k] <= end
  /\ last < Len(edges) => edges[last + 1] > end

(* Two bits that make the number of edges odd or even where they have to be. *)
Parities(first, last, b, c, new_included) ==
  /\ (first + b) % 2 = new_included
  /\ (first + b + c) % 2 = last % 2

(* So spliced, the edges are in order and in pairs.                          *)
LEMMA SplicedOrder ==
  ASSUME NEW edges, IsRanges(edges), NEW start \in Nat, NEW end \in Nat,
         start < end, NEW first, NEW last,
         Bounds(edges, first, last, start, end),
         NEW b \in Bit, NEW c \in Bit, NEW new_included,
         Parities(first, last, b, c, new_included), NEW s \in Seq(Nat),
         IsSplice(s, edges, first, last, b, c, start, end)
  PROVE  /\ IsRanges(s)
         /\ \A k \in 1 .. first : s[k] < start
         /\ \A k \in first + b + c + 1 .. Len(s) : s[k] > end
<1> USE DEF Bit
<1>0. b \in Nat /\ c \in Nat /\ Len(edges) \in Nat
  BY DEF IsRanges
<1>1. /\ edges \in Seq(Nat) /\ Len(edges) \in Nat /\ Len(edges) % 2 = 0
      /\ \A k \in 1 .. Len(edges) : edges[k] \in Nat
      /\ \A j, k \in 1 .. Len(edges) : j < k => edges[j] < edges[k]
  BY DEF IsRanges
<1>2. first \in Nat /\ last \in Nat /\ first <= last /\ last <= Len(edges)
  BY DEF Bounds
<1>3. /\ Len(s) \in Nat /\ Len(s) = first + b + c + (Len(edges) - last)
      /\ \A k \in 1 .. Len(s) : s[k] \in Nat
  BY DEF IsSplice
<1>4. Len(s) % 2 = 0
  <2>1. (first + b + c) % 2 = last % 2
    BY DEF Parities
  <2>2. \A l, m, n \in Nat : m % 2 = 0 /\ n % 2 = l % 2 => (n + (m - l)) % 2 = 0
    OBVIOUS
  <2>3. first + b + c \in Nat
    BY <1>0, <1>2
  <2>4. Len(edges) % 2 = 0
    BY DEF IsRanges
  <2>5. ((first + b + c) + (Len(edges) - last)) % 2 = 0
    BY <1>0, <1>2, <2>1, <2>2, <2>3, <2>4
  <2>6. QED
    BY <1>3, <2>5
<1>5. \A k \in first + b + c + 1 .. Len(s) :
        /\ k - (first + b + c) + last \in last + 1 .. Len(edges)
        /\ s[k] = edges[k - (first + b + c) + last]
  BY <1>0, <1>1, <1>2, <1>3 DEF IsSplice
<1>6. \A k \in last + 1 .. Len(edges) : edges[k] > end
  <2> TAKE k \in last + 1 .. Len(edges)
  <2>0. last < Len(edges) => edges[last + 1] > end
    BY DEF Bounds
  <2>1. last + 1 \in 1 .. Len(edges) /\ edges[last + 1] > end
    BY <1>0, <1>2, <2>0
  <2>2. k = last + 1 \/ edges[last + 1] < edges[k]
    BY <1>1, <1>2, <2>1
  <2>3. k \in 1 .. Len(edges)
    BY <1>1, <1>2
  <2>4. QED
    BY <1>1, <2>1, <2>2, <2>3
<1>7. \A k \in first + b + c + 1 .. Len(s) : s[k] > end
  BY <1>5, <1>6
<1>8. \A k \in 1 .. first : k \in 1 .. Len(edges) /\ s[k] = edges[k] /\ s[k] < start
  <2>1. \A k \in 1 .. first : k \in 1 .. Len(edges)
    BY <1>0, <1>2
  <2>2. \A k \in 1 .. first : edges[k] < start
    BY DEF Bounds
  <2>3. \A k \in 1 .. first : s[k] = edges[k]
    BY DEF IsSplice
  <2>4. QED
    BY <2>1, <2>2, <2>3
<1>9. /\ b = 1 => s[first + 1] = start
      /\ c = 1 => s[first + b + 1] = end
  BY DEF IsSplice
<1>10. ASSUME NEW j \in 1 .. Len(s), NEW k \in 1 .. Len(s), j < k
      PROVE  s[j] < s[k]
  <2>0. j \in Nat /\ k \in Nat
    BY <1>3
  <2>1. CASE k <= first
    <3>1. j \in 1 .. first /\ k \in 1 .. first
      BY <1>2, <1>10, <2>0, <2>1
    <3>2. QED
      BY <1>1, <1>8, <1>10, <3>1
  <2>2. CASE first < k /\ k <= first + b + c
    <3>1. \/ k = first + 1 /\ b = 1
          \/ k = first + b + 1 /\ c = 1
      BY <1>2, <2>0, <2>2
    <3>2. s[k] \in {start, end} /\ (k # first + 1 \/ b = 0 => s[k] = end)
      BY <1>2, <1>9, <2>0, <3>1
    <3>3. CASE j <= first
      <4>1. j \in 1 .. first /\ s[j] < start /\ s[j] \in Nat
        BY <1>2, <1>3, <1>8, <2>0, <3>3
      <4>2. QED
        BY <3>2, <4>1
    <3>4. CASE first < j
      <4>1. j = first + 1 /\ b = 1 /\ k # first + 1
        BY <1>2, <1>10, <2>0, <2>2, <3>4
      <4>2. QED
        BY <1>9, <3>2, <4>1
    <3>5. QED
      BY <1>2, <2>0, <3>3, <3>4
  <2>3. CASE first + b + c < k /\ j <= first + b + c
    <3>1. s[k] > end /\ s[k] \in Nat
      BY <1>0, <1>2, <1>3, <1>7, <2>0, <2>3
    <3>2. j \in 1 .. first \/ (j = first + 1 /\ b = 1) \/ (j = first + b + 1 /\ c = 1)
      BY <1>2, <2>0, <2>3
    <3>3. s[j] <= end /\ s[j] \in Nat
      BY <1>3, <1>8, <1>9, <3>2
    <3>4. QED
      BY <3>1, <3>3
  <2>4. CASE first + b + c < j
    <3>1. /\ j \in first + b + c + 1 .. Len(s) /\ k \in first + b + c + 1 .. Len(s)
          /\ j - (first + b + c) + last < k - (first + b + c) + last
      BY <1>0, <1>2, <1>3, <1>10, <2>0, <2>4
    <3>2. /\ j - (first + b + c) + last \in 1 .. Len(edges)
          /\ k - (first + b + c) + last \in 1 .. Len(edges)
      <4>1. /\ j - (first + b + c) + last \in last + 1 .. Len(edges)
            /\ k - (first + b + c) + last \in last + 1 .. Len(edges)
        BY <1>5, <3>1
      <4>2. last + 1 .. Len(edges) \subseteq 1 .. Len(edges)
        BY <1>2
      <4>3. QED
        BY <4>1, <4>2
    <3>3. edges[j - (first + b + c) + last] < edges[k - (first + b + c) + last]
      BY <1>1, <3>1, <3>2
    <3>4. QED
      BY <1>5, <3>1, <3>3
  <2>5. QED
    BY <1>0, <1>2, <2>0, <2>1, <2>2, <2>3, <2>4
<1>11. IsRanges(s)
  BY <1>3, <1>4, <1>10 DEF IsRanges
<1>12. QED
  BY <1>7, <1>8, <1>11

(* An address has as many edges up to it, but for pairs, as before, and in   *)
(* the region an odd number if the region was to be included.                *)
LEMMA SplicedSet ==
  ASSUME NEW edges, IsRanges(edges), NEW start \in Nat, NEW end \in Nat,
         start < end, NEW first, NEW last,
         Bounds(edges, first, last, start, end),
         NEW b \in Bit, NEW c \in Bit, NEW new_included \in Bit,
         Parities(first, last, b, c, new_included), NEW s \in Seq(Nat),
         IsSplice(s, edges, first, last, b, c, start, end), NEW a \in Nat
  PROVE  a \in Addresses(s) <=>
           IF start <= a /\ a < end THEN new_included = 1
           ELSE a \in Addresses(edges)
<1>2. /\ IsRanges(s)
      /\ \A k \in 1 .. first : s[k] < start
      /\ \A k \in first + b + c + 1 .. Len(s) : s[k] > end
  BY SplicedOrder, Zenon
<1> USE DEF Bit
<1>0. /\ b \in Nat /\ c \in Nat /\ Len(edges) \in Nat
      /\ first \in Nat /\ last \in Nat /\ first <= last /\ last <= Len(edges)
  BY DEF IsRanges, Bounds
<1>1. \A k \in 1 .. Len(edges) : edges[k] \in Nat
  <2>1. edges \in Seq(Nat)
    BY DEF IsRanges
  <2>2. QED
    BY <2>1
<1>3. /\ Len(s) \in Nat /\ Len(s) = first + b + c + (Len(edges) - last)
      /\ \A k \in 1 .. Len(s) : s[k] \in Nat
  BY DEF IsSplice
<1>4. /\ b = 1 => s[first + 1] = start
      /\ c = 1 => s[first + b + 1] = end
  BY DEF IsSplice
<1>5. \A k \in 1 .. first : s[k] = edges[k]
  BY DEF IsSplice
<1>6. \A k \in first + b + c + 1 .. Len(s) : s[k] = edges[k - (first + b + c) + last]
  BY DEF IsSplice
<1>7. PICK n \in 0 .. Len(edges) : UpTo(edges, n, a)
  <2>1. a \in Int
    OBVIOUS
  <2>2. QED
    BY <2>1, UpToExists, Zenon
<1>8. a \in Addresses(edges) <=> n % 2 = 1
  BY <1>7, ParityDecides
<1>9. /\ n \in Nat /\ n <= Len(edges)
      /\ \A k \in 1 .. n : edges[k] <= a
      /\ n < Len(edges) => a < edges[n + 1]
  BY <1>0, <1>7 DEF UpTo
<1>10. CASE start <= a /\ a < end
  <2>1. \A k \in 1 .. first + b : s[k] <= a
    <3> TAKE k \in 1 .. first + b
    <3>1. k \in 1 .. first \/ (b = 1 /\ k = first + 1)
      BY <1>0
    <3>2. k \in 1 .. Len(s)
      BY <1>0, <1>3
    <3>3. QED
      BY <1>2, <1>3, <1>4, <1>10, <3>1, <3>2
  <2>2. first + b < Len(s) => a < s[first + b + 1]
    <3>1. SUFFICES ASSUME first + b < Len(s) PROVE a < s[first + b + 1]
      OBVIOUS
    <3>2. first + b + 1 \in 1 .. Len(s)
      BY <1>0, <1>3, <3>1
    <3>3. CASE c = 1
      BY <1>4, <1>10, <3>3
    <3>4. CASE c = 0
      <4>1. first + b + 1 \in first + b + c + 1 .. Len(s)
        BY <1>0, <1>3, <3>1, <3>4
      <4>2. QED
        BY <1>2, <1>3, <1>10, <3>2, <4>1
    <3>5. QED
      BY <3>3, <3>4
  <2>3. UpTo(s, first + b, a)
    BY <1>0, <1>3, <2>1, <2>2 DEF UpTo
  <2>4. (first + b) % 2 = new_included
    BY DEF Parities
  <2>5. QED
    BY <1>2, <1>10, <2>3, <2>4, ParityDecides
<1>11. CASE a < start
  <2>1. n <= first
    <3>1. SUFFICES ASSUME first < n PROVE FALSE
      BY <1>0, <1>9
    <3>2. first + 1 \in 1 .. n /\ first + 1 \in 1 .. Len(edges) /\ first < Len(edges)
      BY <1>0, <1>9, <3>1
    <3>3. first < Len(edges) => edges[first + 1] >= start
      BY DEF Bounds
    <3>4. QED
      BY <1>1, <1>9, <1>11, <3>2, <3>3
  <2>2. \A k \in 1 .. n : s[k] <= a
    <3>1. \A k \in 1 .. n : k \in 1 .. first
      BY <1>0, <1>9, <2>1
    <3>2. QED
      BY <1>5, <1>9, <3>1
  <2>3. n < Len(s) => a < s[n + 1]
    <3>1. SUFFICES ASSUME n < Len(s) PROVE a < s[n + 1]
      OBVIOUS
    <3>2. n + 1 \in 1 .. Len(s)
      BY <1>3, <1>9, <3>1
    <3>3. CASE n < first
      <4>1. n + 1 \in 1 .. first /\ n < Len(edges)
        BY <1>0, <1>9, <3>3
      <4>2. QED
        BY <1>5, <1>9, <4>1
    <3>4. CASE n = first
      <4>1. \/ b = 1 /\ n + 1 = first + 1
            \/ c = 1 /\ n + 1 = first + b + 1
            \/ n + 1 \in first + b + c + 1 .. Len(s)
        BY <1>0, <1>3, <3>1, <3>4
      <4>2. s[n + 1] >= start
        BY <1>2, <1>3, <1>4, <3>2, <4>1
      <4>3. QED
        BY <1>3, <1>11, <3>2, <4>2
    <3>5. QED
      BY <1>0, <1>9, <2>1, <3>3, <3>4
  <2>4. UpTo(s, n, a)
    BY <1>0, <1>3, <1>9, <2>1, <2>2, <2>3 DEF UpTo
  <2>5. a \in Addresses(s) <=> n % 2 = 1
    BY <1>2, <2>4, ParityDecides
  <2>6. QED
    BY <1>8, <1>11, <2>5
<1>12. CASE end <= a
  <2>1. last <= n
    <3>1. SUFFICES ASSUME n < last PROVE FALSE
      BY <1>0, <1>9
    <3>2. n + 1 \in 1 .. last /\ n < Len(edges) /\ n + 1 \in 1 .. Len(edges)
      BY <1>0, <1>9, <3>1
    <3>3. \A k \in 1 .. last : edges[k] <= end
      BY DEF Bounds
    <3>4. edges[n + 1] <= end /\ a < edges[n + 1] /\ edges[n + 1] \in Nat
      BY <1>1, <1>9, <3>2, <3>3
    <3>5. QED
      BY <1>12, <3>4
  <2>2. PICK m \in Nat : m = first + b + c + (n - last)
    BY <1>0, <1>9, <2>1
  <2>3. first + b + c <= m /\ m <= Len(s)
    BY <1>0, <1>3, <1>9, <2>1, <2>2
  <2>4. \A k \in 1 .. m : s[k] <= a
    <3> TAKE k \in 1 .. m
    <3>1. k \in 1 .. Len(s)
      BY <1>3, <2>3
    <3>2. \/ k \in 1 .. first
          \/ b = 1 /\ k = first + 1
          \/ c = 1 /\ k = first + b + 1
          \/ k \in first + b + c + 1 .. Len(s)
      BY <1>0, <1>3, <3>1
    <3>3. CASE k \in first + b + c + 1 .. Len(s)
      <4>1. k - (first + b + c) + last \in 1 .. n
        BY <1>0, <1>3, <1>9, <2>2, <3>3
      <4>2. QED
        BY <1>6, <1>9, <3>3, <4>1
    <3>4. CASE k \in 1 .. first
      BY <1>2, <1>3, <1>12, <3>1, <3>4
    <3>5. QED
      BY <1>4, <1>12, <3>2, <3>3, <3>4
  <2>5. m < Len(s) => a < s[m + 1]
    <3>1. SUFFICES ASSUME m < Len(s) PROVE a < s[m + 1]
      OBVIOUS
    <3>2. /\ m + 1 \in first + b + c + 1 .. Len(s)
          /\ (m + 1) - (first + b + c) + last = n + 1 /\ n < Len(edges)
      BY <1>0, <1>3, <1>9, <2>2, <2>3, <3>1
    <3>3. PICK l \in first + b + c + 1 .. Len(s) : l = m + 1
      BY <3>2
    <3>4. s[l] = edges[n + 1]
      BY <1>6, <3>2, <3>3
    <3>5. QED
      BY <1>9, <3>2, <3>3, <3>4
  <2>6. UpTo(s, m, a)
    BY <1>3, <2>3, <2>4, <2>5 DEF UpTo
  <2>7. m % 2 = n % 2
    <3>1. (first + b + c) % 2 = last % 2
      BY DEF Parities
    <3>2. \A l, k, j \in Nat : k % 2 = l % 2 /\ l <= j => (k + (j - l)) % 2 = j % 2
      OBVIOUS
    <3>3. first + b + c \in Nat
      BY <1>0
    <3>4. ((first + b + c) + (n - last)) % 2 = n % 2
      <4>1. PICK k \in Nat : k = first + b + c
        BY <3>3
      <4>2. last \in Nat /\ n \in Nat /\ last <= n
        BY <1>0, <1>9, <2>1
      <4>3. k % 2 = last % 2
        BY <3>1, <4>1
      <4>4. (k + (n - last)) % 2 = n % 2
        BY <3>2, <4>2, <4>3
      <4>5. QED
        BY <4>1, <4>4
    <3>5. QED
      BY <2>2, <3>4
  <2>8. a \in Addresses(s) <=> m % 2 = 1
    BY <1>2, <2>6, ParityDecides
  <2>9. QED
    BY <1>8, <1>12, <2>7, <2>8
<1>13. QED
  BY <1>10, <1>11, <1>12

LEMMA SpanBounds ==
  ASSUME NEW edges, IsRanges(edges), NEW k \in 1 .. Count(edges)
  PROVE  /\ First(edges, k) \in Nat /\ Behind(edges, k) \in Nat
         /\ First(edges, k) < Behind(edges, k)
<1>1. edges \in Seq(Nat) /\ Len(edges) \in Nat
  BY DEF IsRanges
<1>2. 2 * k - 1 \in 1 .. Len(edges) /\ 2 * k \in 1 .. Len(edges) /\ 2 * k - 1 < 2 * k
  BY <1>1 DEF Count
<1>3. edges[2 * k - 1] < edges[2 * k]
  BY <1>2 DEF IsRanges
<1>4. QED
  BY <1>1, <1>2, <1>3 DEF First, Behind

LEMMA AddressesNatural ==
  ASSUME NEW edges, IsRanges(edges)
  PROVE  Addresses(edges) \subseteq Nat
<1>1. SUFFICES ASSUME NEW k \in 1 .. Count(edges), NEW a \in Span(edges, k)
               PROVE  a \in Nat
  BY DEF Addresses
<1>2. QED
  BY SpanBounds DEF Span

LEMMA NoRangesEmpty == IsRanges(NoRanges) /\ Addresses(NoRanges) = {}
BY DEF IsRanges, NoRanges, Addresses, Count

(* ranges_set_region_to leaves a list of ranges, and changes the set in the  *)
(* region and nowhere else.                                                  *)
THEOREM RegionSet ==
  ASSUME NEW edges, IsRanges(edges), NEW start \in Nat, NEW end \in Nat,
         start < end, NEW new_included \in Bit
  PROVE  /\ IsRanges(SetRegionTo(edges, start, end, new_included))
         /\ \A a \in Nat :
              a \in Addresses(SetRegionTo(edges, start, end, new_included)) <=>
                IF start <= a /\ a < end THEN new_included = 1
                ELSE a \in Addresses(edges)
<1> DEFINE first == EdgesBefore(edges, start)
           last == EdgesUpTo(edges, first, end)
<1>1. /\ edges \in Seq(Nat) /\ Len(edges) \in Nat
      /\ \A k \in 1 .. Len(edges) : edges[k] \in Nat
  BY DEF IsRanges
<1>2. UpTo(edges, first, start - 1) /\ UpTo(edges, last, end) /\ first <= last
  BY LoopsEnd
<1> HIDE DEF first, last
<1>3. Bounds(edges, first, last, start, end)
  <2>1. first \in 0 .. Len(edges) /\ last \in 0 .. Len(edges)
    BY <1>2 DEF UpTo
  <2>2. /\ \A k \in 1 .. first : edges[k] <= start - 1 /\ k \in 1 .. Len(edges)
        /\ first < Len(edges) => start - 1 < edges[first + 1]
    BY <1>1, <1>2, <2>1 DEF UpTo
  <2>3. /\ \A k \in 1 .. first : edges[k] < start
        /\ first < Len(edges) => edges[first + 1] >= start
    BY <1>1, <2>1, <2>2
  <2>4. /\ \A k \in 1 .. last : edges[k] <= end
        /\ last < Len(edges) => edges[last + 1] > end
    BY <1>1, <1>2, <2>1 DEF UpTo
  <2>5. QED
    BY <1>1, <1>2, <2>1, <2>3, <2>4 DEF Bounds
<1>4. first \in Nat /\ last \in Nat /\ first \in 0 .. Len(edges) /\ last \in first .. Len(edges)
  BY <1>1, <1>3 DEF Bounds
<1>5. PICK b \in Bit : b = 1 <=> new_included # first % 2
  BY DEF Bit
<1>6. PICK c \in Bit : c = 1 <=> new_included # last % 2
  BY DEF Bit
<1>7. Parities(first, last, b, c, new_included)
  <2>1. (first + b) % 2 = new_included
    BY <1>4, <1>5 DEF Bit
  <2>2. \A n \in Nat : n % 2 = new_included => (n + c) % 2 = last % 2
    BY <1>4, <1>6 DEF Bit
  <2>3. first + b \in Nat
    BY <1>4 DEF Bit
  <2>4. QED
    BY <2>1, <2>2, <2>3 DEF Parities
<1> DEFINE s == SubSeq(edges, 1, first) \o EdgeIf(b = 1, start)
                  \o EdgeIf(c = 1, end) \o SubSeq(edges, last + 1, Len(edges))
<1>8. s \in Seq(Nat) /\ IsSplice(s, edges, first, last, b, c, start, end)
  BY <1>1, <1>4, Spliced, Zenon
<1>9. SetRegionTo(edges, start, end, new_included) = s
  <2>1. /\ EdgeIf(b = 1, start) = EdgeIf(new_included # first % 2, start)
        /\ EdgeIf(c = 1, end) = EdgeIf(new_included # last % 2, end)
    BY <1>5, <1>6 DEF EdgeIf
  <2>2. QED
    BY <2>1, Zenon DEF SetRegionTo, first, last
<1> HIDE DEF s
<1>10. IsRanges(s)
  BY <1>3, <1>7, <1>8, SplicedOrder
<1>11. \A a \in Nat : a \in Addresses(s) <=>
         IF start <= a /\ a < end THEN new_included = 1 ELSE a \in Addresses(edges)
  BY <1>3, <1>7, <1>8, SplicedSet
<1>12. QED
  BY <1>9, <1>10, <1>11

(* ranges_add is union, and ranges_sub difference.                           *)
THEOREM RangesAddIsUnion ==
  ASSUME NEW edges, IsRanges(edges), NEW start \in Nat, NEW end \in Nat, start < end
  PROVE  /\ IsRanges(ranges_add(edges, start, end))
         /\ Addresses(ranges_add(edges, start, end)) =
              Addresses(edges) \cup (start .. end - 1)
<1>1. /\ IsRanges(ranges_add(edges, start, end))
      /\ \A a \in Nat : a \in Addresses(ranges_add(edges, start, end)) <=>
           IF start <= a /\ a < end THEN 1 = 1 ELSE a \in Addresses(edges)
  BY RegionSet DEF ranges_add, Bit
<1>2. \A a \in start .. end - 1 : a \in Nat
  OBVIOUS
<1>3. QED
  BY <1>1, <1>2, AddressesNatural

THEOREM RangesSubIsDifference ==
  ASSUME NEW edges, IsRanges(edges), NEW start \in Nat, NEW end \in Nat, start < end
  PROVE  /\ IsRanges(ranges_sub(edges, start, end))
         /\ Addresses(ranges_sub(edges, start, end)) =
              Addresses(edges) \ (start .. end - 1)
<1>1. /\ IsRanges(ranges_sub(edges, start, end))
      /\ \A a \in Nat : a \in Addresses(ranges_sub(edges, start, end)) <=>
           IF start <= a /\ a < end THEN 0 = 1 ELSE a \in Addresses(edges)
  BY RegionSet DEF ranges_sub, Bit
<1>2. \A a \in start .. end - 1 : a \in Nat
  OBVIOUS
<1>3. QED
  BY <1>1, <1>2, AddressesNatural


-----------------------------------------------------------------------------
(* The windows of arch_phys_map cover what they have to.                     *)

LEMMA Multiples == \A p \in Nat \ {0}, q \in Nat : (p * q) % p = 0
OBVIOUS

(* ALIGN_DOWN: a multiple, not behind x, less than a page before it, and     *)
(* monotonic.                                                                *)
LEMMA AlignDown ==
  ASSUME NEW p \in Nat \ {0}, NEW x \in Nat
  PROVE  /\ x - (x % p) \in Nat /\ (x - (x % p)) % p = 0
         /\ x - (x % p) <= x /\ x < x - (x % p) + p
         /\ \A y \in Nat : y <= x => y - (y % p) <= x - (x % p)
<1>1. x = p * (x \div p) + (x % p) /\ x \div p \in Nat /\ x % p \in 0 .. p - 1
  OBVIOUS
<1>2. x - (x % p) = p * (x \div p)
  BY <1>1
<1>3. (x - (x % p)) % p = 0
  BY <1>1, <1>2, Multiples
<1>4. x - (x % p) \in Nat
  OBVIOUS
<1>5. \A y \in Nat : y <= x => y - (y % p) <= x - (x % p)
  OBVIOUS
<1>6. QED
  BY <1>1, <1>3, <1>4, <1>5

LEMMA DirectCells ==
  ASSUME NEW start \in Nat, NEW end \in Nat, start < end
  PROVE  UNION {Cells(seg) : seg \in Direct(start, end)} =
           {a \in start .. end - 1 : a < Low}
<1>0. Low \in Nat
  BY MemoryAssumption DEF MemoryAssumption
<1>1. CASE start < Low
  <2> DEFINE seg == [at |-> start, ptr |-> start, page |-> 0, mapped |-> FALSE,
                     size |-> Smaller(Low, end) - start]
  <2>1. Direct(start, end) = {seg}
    BY <1>1 DEF Direct
  <2>2. Cells(seg) = {start + pos : pos \in 0 .. Smaller(Low, end) - start - 1}
    <3>1. seg.ptr = start /\ seg.mapped = FALSE /\ seg.size = Smaller(Low, end) - start
      OBVIOUS
    <3> HIDE DEF seg
    <3>2. \A pos \in Int : Phys(seg, pos) = start + pos
      BY <3>1 DEF Phys
    <3>3. QED
      BY <3>1, <3>2 DEF Cells
  <2>3. Cells(seg) = {a \in start .. end - 1 : a < Low}
    <3>1. ASSUME NEW a \in start .. end - 1, a < Low
          PROVE  \E pos \in 0 .. Smaller(Low, end) - start - 1 : a = start + pos
      <4>1. a - start \in 0 .. Smaller(Low, end) - start - 1 /\ a = start + (a - start)
        BY <1>0, <3>1 DEF Smaller
      <4>2. QED
        BY <4>1
    <3>2. \A pos \in 0 .. Smaller(Low, end) - start - 1 :
            start + pos \in start .. end - 1 /\ start + pos < Low
      BY <1>0, <1>1 DEF Smaller
    <3>3. QED
      BY <2>2, <3>1, <3>2
  <2>4. QED
    BY <2>1, <2>3
<1>2. CASE ~(start < Low)
  <2>1. Direct(start, end) = {}
    BY <1>2 DEF Direct
  <2>2. {a \in start .. end - 1 : a < Low} = {}
    BY <1>0, <1>2
  <2>3. QED
    BY <2>1, <2>2
<1>3. QED
  BY <1>1, <1>2

LEMMA WindowCells ==
  ASSUME NEW start \in Nat, NEW end \in Nat, start < end
  PROVE  UNION {Cells(seg) : seg \in Windows(start, end)} =
           {a \in start .. end - 1 : Low <= a}
<1>0. Low \in Nat /\ Page \in Nat \ {0} /\ Low % Page = 0
  BY MemoryAssumption DEF MemoryAssumption
<1> DEFINE high == Larger(start, Low)
           pages == {p \in high - (high % Page) .. end - 1 : p % Page = 0}
           from(p) == Larger(p, high)
           window(p) == [at |-> from(p), ptr |-> Page + (from(p) - p), page |-> p,
                         mapped |-> TRUE, size |-> Smaller(p + Page, end) - from(p)]
<1>1. high \in Nat /\ high >= start /\ high >= Low /\ high - (high % Page) \in Nat
  <2>1. high \in Nat /\ high >= start /\ high >= Low
    BY <1>0 DEF Larger
  <2>2. QED
    BY <1>0, <2>1, AlignDown
<1>2. Windows(start, end) = {window(p) : p \in pages}
  BY DEF Windows
<1>3. {a \in start .. end - 1 : Low <= a} = high .. end - 1
  BY <1>0 DEF Larger
<1> HIDE DEF high
<1>4. \A p \in pages : p \in Nat /\ from(p) \in Nat /\ high <= from(p) /\ p <= from(p)
  BY <1>0, <1>1 DEF Larger
<1>5. \A p \in pages :
        Cells(window(p)) = {from(p) + pos : pos \in 0 .. Smaller(p + Page, end) - from(p) - 1}
  <2> TAKE p \in pages
  <2>1. /\ window(p).ptr = Page + (from(p) - p) /\ window(p).page = p
        /\ window(p).mapped = TRUE
        /\ window(p).size = Smaller(p + Page, end) - from(p)
    OBVIOUS
  <2>2. from(p) \in Nat /\ p \in Nat
    BY <1>4
  <2> HIDE DEF window, from
  <2>3. \A pos \in Int : Phys(window(p), pos) = from(p) + pos
    BY <1>0, <2>1, <2>2 DEF Phys
  <2>4. QED
    BY <2>1, <2>3 DEF Cells
<1>6. ASSUME NEW p \in pages, NEW a \in Cells(window(p))
      PROVE  a \in high .. end - 1
  <2>1. PICK pos \in 0 .. Smaller(p + Page, end) - from(p) - 1 : a = from(p) + pos
    BY <1>5
  <2>2. from(p) \in Nat /\ high <= from(p) /\ p \in Nat
    BY <1>4
  <2> HIDE DEF from
  <2>3. QED
    BY <1>0, <1>1, <2>1, <2>2 DEF Smaller
<1>7. ASSUME NEW a \in high .. end - 1
      PROVE  \E p \in pages : a \in Cells(window(p))
  <2>0. a \in Nat /\ high <= a
    BY <1>1
  <2>1. PICK p \in Nat : p = a - (a % Page)
    BY <1>0, <2>0, AlignDown
  <2>2. /\ p % Page = 0 /\ p <= a /\ a < p + Page
        /\ high - (high % Page) <= p
    BY <1>0, <1>1, <2>0, <2>1, AlignDown
  <2>3. p \in pages
    BY <1>1, <2>0, <2>1, <2>2
  <2>4. from(p) <= a /\ from(p) \in Nat
    BY <1>1, <2>0, <2>2 DEF Larger
  <2>5. a - from(p) \in 0 .. Smaller(p + Page, end) - from(p) - 1 /\ a = from(p) + (a - from(p))
    <3> HIDE DEF from
    <3>1. QED
      BY <1>0, <1>1, <2>0, <2>2, <2>4 DEF Smaller
  <2>6. QED
    BY <1>5, <2>3, <2>5
<1> HIDE DEF window, pages
<1>8. \A a : a \in UNION {Cells(seg) : seg \in Windows(start, end)} <=> a \in high .. end - 1
  BY <1>2, <1>6, <1>7
<1>9. QED
  BY <1>3, <1>8

(* arch_phys_map calls its function for the range and nothing else.          *)
LEMMA TouchedExactly ==
  ASSUME NEW start \in Nat, NEW end \in Nat, start < end
  PROVE  Touched(start, end) = start .. end - 1
<1>1. Touched(start, end) = (UNION {Cells(seg) : seg \in Direct(start, end)})
                              \cup (UNION {Cells(seg) : seg \in Windows(start, end)})
  BY DEF Touched, Segments
<1>2. Low \in Nat
  BY MemoryAssumption DEF MemoryAssumption
<1>3. QED
  BY <1>1, <1>2, DirectCells, WindowCells

-----------------------------------------------------------------------------
(* One more entry of the memory map.                                         *)
LEMMA RamStep ==
  ASSUME NEW map, NEW n \in Nat \ {0}, map[n].start \in Nat, map[n].end \in Nat
  PROVE  /\ map[n].type = "ram" =>
              RamAfter(map, n) = RamAfter(map, n - 1)
                                   \cup (map[n].start .. map[n].end - 1)
         /\ map[n].type # "ram" =>
              RamAfter(map, n) = RamAfter(map, n - 1)
                                   \ (map[n].start .. map[n].end - 1)
<1>1. \A a \in Nat : Covers(map[n], a) <=> a \in map[n].start .. map[n].end - 1
  BY DEF Covers
<1>2. map[n].start .. map[n].end - 1 \subseteq Nat
  OBVIOUS
<1>3. ASSUME NEW a \in Nat, ~Covers(map[n], a)
      PROVE  a \in RamAfter(map, n) <=> a \in RamAfter(map, n - 1)
  <2>1. ASSUME NEW j \in 1 .. n, map[j].type = "ram", Covers(map[j], a),
               \A k \in j + 1 .. n : ~Covers(map[k], a)
        PROVE  a \in RamAfter(map, n - 1)
    <3>1. j # n
      BY <1>3, <2>1, Zenon
    <3>2. j \in 1 .. n - 1 /\ \A k \in j + 1 .. n - 1 : k \in j + 1 .. n
      BY <3>1
    <3>3. QED
      BY <2>1, <3>2 DEF RamAfter
  <2>2. ASSUME NEW j \in 1 .. n - 1, map[j].type = "ram", Covers(map[j], a),
               \A k \in j + 1 .. n - 1 : ~Covers(map[k], a)
        PROVE  a \in RamAfter(map, n)
    <3>1. j \in 1 .. n /\ \A k \in j + 1 .. n : k = n \/ k \in j + 1 .. n - 1
      OBVIOUS
    <3>2. \A k \in j + 1 .. n : ~Covers(map[k], a)
      BY <1>3, <2>2, <3>1
    <3>3. QED
      BY <2>2, <3>1, <3>2 DEF RamAfter
  <2>3. QED
    BY <2>1, <2>2 DEF RamAfter
<1>4. ASSUME NEW a \in Nat, Covers(map[n], a)
      PROVE  a \in RamAfter(map, n) <=> map[n].type = "ram"
  <2>1. ASSUME NEW j \in 1 .. n, map[j].type = "ram",
               \A k \in j + 1 .. n : ~Covers(map[k], a)
        PROVE  map[n].type = "ram"
    <3>1. ~(n \in j + 1 .. n)
      BY <1>4, <2>1, Zenon
    <3>2. j = n
      BY <3>1
    <3>3. QED
      BY <2>1, <3>2
  <2>2. ASSUME map[n].type = "ram"
        PROVE  a \in RamAfter(map, n)
    <3>1. n \in 1 .. n /\ \A k \in n + 1 .. n : ~Covers(map[k], a)
      OBVIOUS
    <3>2. QED
      BY <1>4, <2>2, <3>1 DEF RamAfter
  <2>3. QED
    BY <2>1, <2>2 DEF RamAfter
<1>5. RamAfter(map, n) \subseteq Nat /\ RamAfter(map, n - 1) \subseteq Nat
  BY DEF RamAfter
<1>6. QED
  BY <1>1, <1>2, <1>3, <1>4, <1>5

LEMMA RamStart == \A map : RamAfter(map, 0) = {}
BY DEF RamAfter

(* The k first ranges of a list.                                             *)
FirstRanges(edges, k) == UNION {Span(edges, j) : j \in 1 .. k}

LEMMA FirstRangesStep ==
  ASSUME NEW edges, IsRanges(edges)
  PROVE  /\ FirstRanges(edges, 0) = {}
         /\ \A k \in 1 .. Count(edges) :
              FirstRanges(edges, k) =
                FirstRanges(edges, k - 1) \cup (First(edges, k) .. Behind(edges, k) - 1)
         /\ FirstRanges(edges, Count(edges)) = Addresses(edges)
         /\ Count(edges) \in Nat
<1>1. Count(edges) \in Nat
  BY DEF IsRanges, Count
<1>2. FirstRanges(edges, 0) = {}
  BY DEF FirstRanges
<1>3. ASSUME NEW k \in 1 .. Count(edges)
      PROVE  FirstRanges(edges, k) = FirstRanges(edges, k - 1) \cup Span(edges, k)
  <2>1. \A j : j \in 1 .. k <=> (j \in 1 .. k - 1 \/ j = k)
    BY <1>1
  <2>2. QED
    BY <2>1 DEF FirstRanges
<1>4. QED
  BY <1>1, <1>2, <1>3 DEF FirstRanges, Addresses, Span

-----------------------------------------------------------------------------
(* The inductive invariant of the wipe.                                      *)
Free == RamAfter(memmap, Len(memmap)) \ InUse

BeforeWipe == pc \in {"init_funcs", "check_wipe"} => asked = FALSE /\ wiped = {}

UsedRight ==
  /\ pc = "init_funcs" => used = NoRanges
  /\ pc # "init_funcs" =>
       \/ used = NoRanges /\ ramoops = {} /\ pc \notin {"exclude", "wipe"}
       \/ used # NoRanges /\ Addresses(used) = InUse

MapRead ==
  pc = "map" /\ caller = "wipe" =>
    /\ asked = TRUE /\ wiped = {} /\ i <= Len(memmap) + 1
    /\ \A j \in 1 .. i - 1 : memmap[j].type # "unrecognized"
    /\ Addresses(unused["wipe"]) = RamAfter(memmap, i - 1)

Excluded ==
  pc = "exclude" /\ caller = "wipe" =>
    /\ asked = TRUE /\ wiped = {} /\ i <= Count(used) + 1 /\ Recognized
    /\ Addresses(unused["wipe"]) =
         RamAfter(memmap, Len(memmap)) \ FirstRanges(used, i - 1)

WipedSoFar ==
  pc = "wipe" =>
    /\ caller = "wipe" /\ asked = TRUE /\ Recognized
    /\ i <= Count(unused["wipe"]) + 1
    /\ Addresses(unused["wipe"]) = Free
    /\ wiped = FirstRanges(unused["wipe"], i - 1)

WipeOver ==
  pc \in {"ui", "test", "run"} \/ (pc \in {"map", "exclude"} /\ caller = "test") =>
    IF asked = TRUE /\ Recognized THEN wiped = Free ELSE wiped = {}

WipeInv == /\ TypeOK /\ BeforeWipe /\ UsedRight /\ MapRead /\ Excluded
           /\ WipedSoFar /\ WipeOver

-----------------------------------------------------------------------------
(* UsedList is what is in use, before and after it is stored.                *)
LEMMA UsedListRight ==
  ASSUME IsRanges(used)
  PROVE  /\ IsRanges(UsedList)
         /\ used # NoRanges => UsedList = used
         /\ used = NoRanges => Addresses(UsedList) = Image.start .. Image.end - 1
<1>1. Image.start \in Nat /\ Image.end \in Nat /\ Image.start < Image.end
  BY MemoryAssumption DEF MemoryAssumption, IsSpan
<1>2. /\ IsRanges(ranges_add(NoRanges, Image.start, Image.end))
      /\ Addresses(ranges_add(NoRanges, Image.start, Image.end)) =
           Image.start .. Image.end - 1
  <2>1. IsRanges(NoRanges) /\ Addresses(NoRanges) = {}
    BY NoRangesEmpty
  <2>2. /\ IsRanges(ranges_add(NoRanges, Image.start, Image.end))
        /\ Addresses(ranges_add(NoRanges, Image.start, Image.end)) =
             Addresses(NoRanges) \cup (Image.start .. Image.end - 1)
    BY <1>1, <2>1, RangesAddIsUnion, Zenon
  <2>3. QED
    BY <2>1, <2>2
<1>3. QED
  BY <1>2 DEF UsedList

(* The image is in use, so that the used list is never empty again.          *)
LEMMA UsedNotEmpty ==
  ASSUME NEW edges, Addresses(edges) = InUse
  PROVE  edges # NoRanges
<1>1. Image.start \in Nat /\ Image.end \in Nat /\ Image.start < Image.end
  BY MemoryAssumption DEF MemoryAssumption, IsSpan
<1>2. Image.start \in InUse
  BY <1>1 DEF InUse, Covers
<1>3. QED
  BY <1>2, NoRangesEmpty

(* Entries of the memory map are ranges.                                     *)
LEMMA EntriesAreSpans ==
  ASSUME memmap \in Maps
  PROVE  /\ Len(memmap) \in Nat /\ DOMAIN memmap = 1 .. Len(memmap)
         /\ \A j \in DOMAIN memmap :
              /\ memmap[j].start \in Nat /\ memmap[j].end \in Nat
              /\ memmap[j].start < memmap[j].end
              /\ memmap[j].type \in {"ram", "reserved", "unrecognized"}
<1>1. \A j \in DOMAIN memmap :
        IsSpan(memmap[j]) /\ memmap[j].type \in {"ram", "reserved", "unrecognized"}
  BY MemoryAssumption DEF MemoryAssumption
<1>2. memmap \in Seq({memmap[j] : j \in DOMAIN memmap})
  BY MemoryAssumption DEF MemoryAssumption
<1>3. Len(memmap) \in Nat /\ DOMAIN memmap = 1 .. Len(memmap)
  BY <1>2
<1>4. QED
  BY <1>1, <1>3 DEF IsSpan

-----------------------------------------------------------------------------
LEMMA TypeInit == Init => TypeOK
<1> SUFFICES ASSUME Init PROVE TypeOK
  OBVIOUS
<1>1. IsRanges(used) /\ IsRanges(unused["wipe"]) /\ IsRanges(unused["test"])
  BY NoRangesEmpty DEF Init
<1>2. QED
  BY <1>1 DEF Init, TypeOK, ranges

LEMMA TypeStep == TypeOK /\ [Next]_vars => TypeOK'
<1> SUFFICES ASSUME TypeOK, [Next]_vars PROVE TypeOK'
  OBVIOUS
<1>1. /\ memmap \in Maps /\ ramoops \in {{}} \cup {{r} : r \in Ramoops}
      /\ pc \in {"init_funcs", "check_wipe", "map", "exclude", "wipe", "test",
                 "ui", "run"}
      /\ caller \in {"wipe", "test"} /\ i \in Nat \ {0}
      /\ DOMAIN unused = {"wipe", "test"}
      /\ IsRanges(used) /\ IsRanges(unused["wipe"]) /\ IsRanges(unused["test"])
  BY DEF TypeOK, ranges
<1>2. /\ memmap' = memmap /\ ramoops' = ramoops
      /\ pc' \in {"init_funcs", "check_wipe", "map", "exclude", "wipe", "test",
                  "ui", "run"}
      /\ caller' \in {"wipe", "test"} /\ i' \in Nat \ {0}
  <2>1. CASE RamoopsInit \/ CheckWipe \/ TestInit
    BY <1>1, <2>1 DEF RamoopsInit, CheckWipe, TestInit, GetUnused
  <2>2. CASE MapRange \/ ExcludeRange \/ WipeRange
    <3>1. memmap' = memmap /\ ramoops' = ramoops /\ pc' = pc /\ caller' = caller
      BY <2>2 DEF MapRange, ExcludeRange, WipeRange
    <3>2. i' = i + 1
      BY <2>2 DEF MapRange, ExcludeRange, WipeRange
    <3>3. QED
      BY <1>1, <3>1, <3>2
  <2>3. CASE MapFails \/ MapDone \/ ExcludeDone \/ WipeDone
    BY <1>1, <2>3 DEF MapFails, MapDone, ExcludeDone, WipeDone
  <2>4. CASE TestReset \/ TestAgain \/ WriteChunk \/ CheckChunk \/ CheckFails
    BY <1>1, <2>4 DEF TestReset, TestAgain, Step, WriteChunk, CheckChunk, CheckFails
  <2>5. CASE UNCHANGED vars
    BY <1>1, <2>5 DEF vars
  <2>6. QED
    BY <2>1, <2>2, <2>3, <2>4, <2>5 DEF Next
<1>3. IsRanges(used')
  <2>1. CASE RamoopsInit
    <3>1. CASE ramoops = {}
      BY <1>1, <2>1, <3>1 DEF RamoopsInit
    <3>2. CASE ramoops # {}
      <4>1. PICK r \in ramoops : used' = ranges_add(UsedList, r.start, r.end)
        BY <2>1, <3>2 DEF RamoopsInit
      <4>2. r.start \in Nat /\ r.end \in Nat /\ r.start < r.end
        BY <1>1, MemoryAssumption DEF MemoryAssumption, IsSpan
      <4>3. QED
        BY <1>1, <4>1, <4>2, UsedListRight, RangesAddIsUnion
    <3>3. QED
      BY <3>1, <3>2
  <2>2. CASE MapDone
    BY <1>1, <2>2, UsedListRight DEF MapDone
  <2>3. CASE ~(RamoopsInit \/ MapDone)
    <3>1. used' = used
      BY <2>3 DEF Next, CheckWipe, GetUnused, MapRange, MapFails, ExcludeRange,
         ExcludeDone, WipeRange, WipeDone, TestInit, TestReset, TestAgain, Step,
         WriteChunk, CheckChunk, CheckFails, vars
    <3>2. QED
      BY <1>1, <3>1
  <2>4. QED
    BY <2>1, <2>2, <2>3
<1>4. /\ DOMAIN unused' = {"wipe", "test"}
      /\ IsRanges(unused'["wipe"]) /\ IsRanges(unused'["test"])
  <2>1. CASE MapRange
    <3>1. /\ memmap[i].start \in Nat /\ memmap[i].end \in Nat
          /\ memmap[i].start < memmap[i].end
      BY <1>1, <2>1, EntriesAreSpans DEF MapRange
    <3>2. IsRanges(unused[caller])
      BY <1>1
    <3>3. /\ IsRanges(ranges_add(unused[caller], memmap[i].start, memmap[i].end))
          /\ IsRanges(ranges_sub(unused[caller], memmap[i].start, memmap[i].end))
      BY <3>1, <3>2, RangesAddIsUnion, RangesSubIsDifference
    <3>4. QED
      BY <1>1, <2>1, <3>3 DEF MapRange
  <2>2. CASE ExcludeRange
    <3>1. i \in 1 .. Count(used)
      BY <1>1, <2>2, FirstRangesStep DEF ExcludeRange
    <3>2. /\ First(used, i) \in Nat /\ Behind(used, i) \in Nat
          /\ First(used, i) < Behind(used, i)
      BY <1>1, <3>1, SpanBounds
    <3>3. IsRanges(ranges_sub(unused[caller], First(used, i), Behind(used, i)))
      BY <1>1, <3>2, RangesSubIsDifference
    <3>4. QED
      BY <1>1, <2>2, <3>3 DEF ExcludeRange
  <2>3. CASE \/ CheckWipe \/ MapFails \/ WipeDone \/ TestInit
    BY <1>1, <2>3, NoRangesEmpty DEF CheckWipe, GetUnused, MapFails, WipeDone, TestInit
  <2>4. CASE ~(MapRange \/ ExcludeRange \/ CheckWipe \/ MapFails \/ WipeDone \/ TestInit)
    <3>1. unused' = unused
      BY <2>4 DEF Next, RamoopsInit, MapDone, ExcludeDone, WipeRange, TestReset,
         TestAgain, Step, WriteChunk, CheckChunk, CheckFails, vars
    <3>2. QED
      BY <1>1, <3>1
  <2>5. QED
    BY <2>1, <2>2, <2>3, <2>4
<1>5. QED
  BY <1>1, <1>2, <1>3, <1>4 DEF TypeOK, ranges

(* The lists of ranges stay lists of ranges (Memory.TypeOK).                 *)
THEOREM TypeCorrect == Spec => []TypeOK
BY TypeInit, TypeStep, PTL DEF Spec

-----------------------------------------------------------------------------
LEMMA WipeInit == Init => WipeInv
BY TypeInit DEF Init, WipeInv, BeforeWipe, UsedRight, MapRead, Excluded,
   WipedSoFar, WipeOver

(* The memory map and the buffer of ramoops do not change.                   *)
LEMMA MapStays ==
  ASSUME [Next]_vars
  PROVE  /\ memmap' = memmap /\ ramoops' = ramoops
         /\ InUse' = InUse /\ Free' = Free /\ Recognized' = Recognized
<1>1. memmap' = memmap /\ ramoops' = ramoops
  BY DEF Next, RamoopsInit, CheckWipe, GetUnused, MapRange, MapFails, MapDone,
     ExcludeRange, ExcludeDone, WipeRange, WipeDone, TestInit, TestReset,
     TestAgain, Step, WriteChunk, CheckChunk, CheckFails, vars
<1>2. InUse' = InUse
  BY <1>1 DEF InUse
<1>3. QED
  BY <1>1, <1>2 DEF Free, Recognized

LEMMA WipeStep == WipeInv /\ [Next]_vars => WipeInv'
<1> SUFFICES ASSUME WipeInv, [Next]_vars PROVE WipeInv'
  OBVIOUS
<1>1. TypeOK'
  BY TypeStep DEF WipeInv
<1>2. /\ memmap' = memmap /\ ramoops' = ramoops
      /\ InUse' = InUse /\ Free' = Free /\ Recognized' = Recognized
  BY MapStays
<1>3. /\ memmap \in Maps /\ ramoops \in {{}} \cup {{r} : r \in Ramoops}
      /\ caller \in {"wipe", "test"} /\ i \in Nat \ {0}
      /\ DOMAIN unused = {"wipe", "test"}
      /\ IsRanges(used) /\ IsRanges(unused["wipe"]) /\ IsRanges(unused["test"])
  BY DEF WipeInv, TypeOK, ranges
<1>4. BeforeWipe /\ UsedRight /\ MapRead /\ Excluded /\ WipedSoFar /\ WipeOver
  BY DEF WipeInv
<1>5. /\ Len(memmap) \in Nat /\ DOMAIN memmap = 1 .. Len(memmap)
      /\ \A j \in DOMAIN memmap :
           /\ memmap[j].start \in Nat /\ memmap[j].end \in Nat
           /\ memmap[j].start < memmap[j].end
           /\ memmap[j].type \in {"ram", "reserved", "unrecognized"}
  BY <1>3, EntriesAreSpans
<1>6. CASE RamoopsInit
  <2>1. /\ pc = "init_funcs" /\ pc' = "check_wipe" /\ used = NoRanges
        /\ asked' = asked /\ wiped' = wiped /\ asked = FALSE /\ wiped = {}
    BY <1>4, <1>6 DEF RamoopsInit, BeforeWipe, UsedRight
  <2>2. UsedRight'
    <3>1. CASE ramoops = {}
      BY <1>2, <1>6, <2>1, <3>1 DEF RamoopsInit, UsedRight
    <3>2. CASE ramoops # {}
      <4>1. PICK r \in ramoops : used' = ranges_add(UsedList, r.start, r.end)
        BY <1>6, <3>2 DEF RamoopsInit
      <4>2. r.start \in Nat /\ r.end \in Nat /\ r.start < r.end
        <5>1. r \in Ramoops
          BY <1>3
        <5>2. QED
          BY <5>1, MemoryAssumption DEF MemoryAssumption, IsSpan
      <4>3. Addresses(used') = (Image.start .. Image.end - 1) \cup (r.start .. r.end - 1)
        <5>1. /\ IsRanges(UsedList)
              /\ Addresses(UsedList) = Image.start .. Image.end - 1
          BY <1>3, <2>1, UsedListRight
        <5>2. Addresses(ranges_add(UsedList, r.start, r.end)) =
                Addresses(UsedList) \cup (r.start .. r.end - 1)
          BY <4>2, <5>1, RangesAddIsUnion
        <5>3. QED
          BY <4>1, <5>1, <5>2
      <4>4. ramoops = {r}
        BY <1>3
      <4>5. Image.start \in Nat /\ Image.end \in Nat
        BY MemoryAssumption DEF MemoryAssumption, IsSpan
      <4>6. InUse = (Image.start .. Image.end - 1) \cup (r.start .. r.end - 1)
        BY <4>2, <4>4, <4>5 DEF InUse, Covers
      <4>7. Addresses(used') = InUse /\ used' # NoRanges
        BY <4>3, <4>6, UsedNotEmpty
      <4>8. QED
        BY <1>2, <2>1, <4>7 DEF UsedRight
    <3>3. QED
      BY <3>1, <3>2
  <2>3. QED
    BY <1>1, <2>1, <2>2 DEF WipeInv, BeforeWipe, MapRead, Excluded, WipedSoFar,
       WipeOver
<1>7. CASE CheckWipe
  <2>1. /\ pc = "check_wipe" /\ used' = used /\ wiped' = wiped /\ wiped = {}
    BY <1>4, <1>7 DEF CheckWipe, BeforeWipe
  <2>2. CASE asked' = TRUE /\ GetUnused("wipe")
    <3>1. /\ pc' = "map" /\ caller' = "wipe" /\ i' = 1
          /\ unused'["wipe"] = NoRanges
      BY <1>3, <2>2 DEF GetUnused
    <3>2. Addresses(unused'["wipe"]) = {} /\ RamAfter(memmap', i' - 1) = {}
      BY <3>1, NoRangesEmpty, RamStart
    <3>3. MapRead'
      BY <1>2, <1>5, <2>1, <2>2, <3>1, <3>2 DEF MapRead
    <3>4. UsedRight'
      BY <1>2, <1>4, <2>1, <3>1 DEF UsedRight
    <3>5. QED
      BY <1>1, <3>1, <3>3, <3>4 DEF WipeInv, BeforeWipe, Excluded, WipedSoFar, WipeOver
  <2>3. CASE asked' = FALSE /\ pc' = "ui"
    <3>1. UsedRight'
      BY <1>2, <1>4, <2>1, <2>3 DEF UsedRight
    <3>2. WipeOver'
      BY <2>1, <2>3 DEF WipeOver
    <3>3. QED
      BY <1>1, <2>3, <3>1, <3>2 DEF WipeInv, BeforeWipe, MapRead, Excluded, WipedSoFar
  <2>4. QED
    BY <1>7, <2>2, <2>3 DEF CheckWipe
<1>8. CASE MapRange
  <2>1. /\ pc = "map" /\ pc' = "map" /\ caller' = caller /\ i' = i + 1
        /\ used' = used /\ asked' = asked /\ wiped' = wiped
        /\ i \in 1 .. Len(memmap) /\ memmap[i].type # "unrecognized"
    BY <1>5, <1>8 DEF MapRange
  <2>2. CASE caller = "wipe"
    <3>1. /\ asked = TRUE /\ wiped = {}
          /\ \A j \in 1 .. i - 1 : memmap[j].type # "unrecognized"
          /\ Addresses(unused["wipe"]) = RamAfter(memmap, i - 1)
      BY <1>4, <2>1, <2>2 DEF MapRead
    <3>2. \A j \in 1 .. i' - 1 : memmap[j].type # "unrecognized"
      <4>1. \A j \in 1 .. i' - 1 : j \in 1 .. i - 1 \/ j = i
        BY <1>3, <2>1
      <4>2. QED
        BY <2>1, <3>1, <4>1
    <3>3. Addresses(unused'["wipe"]) = RamAfter(memmap, i)
      <4>1. /\ memmap[i].start \in Nat /\ memmap[i].end \in Nat
            /\ memmap[i].start < memmap[i].end
        BY <1>5, <2>1
      <4>2. CASE memmap[i].type = "ram"
        <5>1. unused'["wipe"] = ranges_add(unused["wipe"], memmap[i].start, memmap[i].end)
          BY <1>3, <1>8, <2>2, <4>2 DEF MapRange
        <5>2. Addresses(unused'["wipe"]) =
                RamAfter(memmap, i - 1) \cup (memmap[i].start .. memmap[i].end - 1)
          BY <1>3, <3>1, <4>1, <5>1, RangesAddIsUnion
        <5>3. QED
          BY <1>3, <4>1, <4>2, <5>2, RamStep
      <4>3. CASE memmap[i].type # "ram"
        <5>1. unused'["wipe"] = ranges_sub(unused["wipe"], memmap[i].start, memmap[i].end)
          BY <1>3, <1>8, <2>2, <4>3 DEF MapRange
        <5>2. Addresses(unused'["wipe"]) =
                RamAfter(memmap, i - 1) \ (memmap[i].start .. memmap[i].end - 1)
          BY <1>3, <3>1, <4>1, <5>1, RangesSubIsDifference
        <5>3. QED
          BY <1>3, <4>1, <4>3, <5>2, RamStep
      <4>4. QED
        BY <4>2, <4>3
    <3>4. i' - 1 = i /\ i' <= Len(memmap) + 1
      BY <1>3, <1>5, <2>1
    <3>5. MapRead'
      BY <1>2, <2>1, <3>1, <3>2, <3>3, <3>4 DEF MapRead
    <3>6. UsedRight'
      BY <1>2, <1>4, <2>1 DEF UsedRight
    <3>7. QED
      BY <1>1, <2>1, <2>2, <3>5, <3>6 DEF WipeInv, BeforeWipe, Excluded, WipedSoFar,
         WipeOver
  <2>3. CASE caller = "test"
    <3>1. UsedRight'
      BY <1>2, <1>4, <2>1 DEF UsedRight
    <3>2. WipeOver'
      BY <1>2, <1>4, <2>1, <2>3 DEF WipeOver
    <3>3. QED
      BY <1>1, <2>1, <2>3, <3>1, <3>2 DEF WipeInv, BeforeWipe, MapRead, Excluded,
         WipedSoFar
  <2>4. QED
    BY <1>3, <2>2, <2>3
<1>9. CASE MapFails
  <2>1. /\ pc = "map" /\ pc' = "ui" /\ used' = used /\ asked' = asked /\ wiped' = wiped
        /\ caller' = caller /\ ~Recognized
    BY <1>9 DEF MapFails, Recognized
  <2>2. UsedRight'
    BY <1>2, <1>4, <2>1 DEF UsedRight
  <2>3. wiped = {}
    BY <1>3, <1>4, <2>1 DEF MapRead, WipeOver
  <2>4. WipeOver'
    BY <1>2, <2>1, <2>3 DEF WipeOver
  <2>5. QED
    BY <1>1, <2>1, <2>2, <2>4 DEF WipeInv, BeforeWipe, MapRead, Excluded, WipedSoFar
<1>10. CASE MapDone
  <2>1. /\ pc = "map" /\ pc' = "exclude" /\ i' = 1 /\ used' = UsedList
        /\ caller' = caller /\ unused' = unused /\ asked' = asked /\ wiped' = wiped
        /\ i \notin 1 .. Len(memmap)
    BY <1>5, <1>10 DEF MapDone
  <2>2. UsedRight'
    <3>1. CASE used = NoRanges
      <4>1. ramoops = {}
        BY <1>4, <2>1, <3>1 DEF UsedRight
      <4>2. Image.start \in Nat /\ Image.end \in Nat
        BY MemoryAssumption DEF MemoryAssumption, IsSpan
      <4>3. InUse = Image.start .. Image.end - 1
        BY <4>1, <4>2 DEF InUse, Covers
      <4>4. Addresses(used') = InUse /\ used' # NoRanges
        BY <1>3, <2>1, <3>1, <4>3, UsedListRight, UsedNotEmpty
      <4>5. QED
        BY <1>2, <2>1, <4>4 DEF UsedRight
    <3>2. CASE used # NoRanges
      <4>1. used' = used /\ Addresses(used) = InUse
        BY <1>3, <1>4, <2>1, <3>2, UsedListRight DEF UsedRight
      <4>2. QED
        BY <1>2, <2>1, <3>2, <4>1 DEF UsedRight
    <3>3. QED
      BY <3>1, <3>2
  <2>3. CASE caller = "wipe"
    <3>1. /\ asked = TRUE /\ wiped = {} /\ i <= Len(memmap) + 1
          /\ \A j \in 1 .. i - 1 : memmap[j].type # "unrecognized"
          /\ Addresses(unused["wipe"]) = RamAfter(memmap, i - 1)
      BY <1>4, <2>1, <2>3 DEF MapRead
    <3>2. i - 1 = Len(memmap)
      BY <1>3, <1>5, <2>1, <3>1
    <3>3. Recognized
      BY <1>5, <3>1, <3>2 DEF Recognized
    <3>4. IsRanges(used')
      BY <1>1 DEF TypeOK
    <3>5. FirstRanges(used', i' - 1) = {} /\ i' <= Count(used') + 1
      BY <2>1, <3>4, FirstRangesStep
    <3>6. Excluded'
      BY <1>2, <2>1, <3>1, <3>2, <3>3, <3>5 DEF Excluded
    <3>7. QED
      BY <1>1, <2>1, <2>2, <2>3, <3>6 DEF WipeInv, BeforeWipe, MapRead, WipedSoFar,
         WipeOver
  <2>4. CASE caller = "test"
    <3>1. WipeOver'
      BY <1>2, <1>4, <2>1, <2>4 DEF WipeOver
    <3>2. QED
      BY <1>1, <2>1, <2>2, <2>4, <3>1 DEF WipeInv, BeforeWipe, MapRead, Excluded,
         WipedSoFar
  <2>5. QED
    BY <1>3, <2>3, <2>4
<1>11. CASE ExcludeRange
  <2>1. /\ pc = "exclude" /\ pc' = "exclude" /\ i' = i + 1 /\ used' = used
        /\ caller' = caller /\ asked' = asked /\ wiped' = wiped
        /\ i <= Count(used)
    BY <1>11 DEF ExcludeRange
  <2>2. UsedRight'
    BY <1>2, <1>4, <2>1 DEF UsedRight
  <2>3. CASE caller = "wipe"
    <3>1. /\ asked = TRUE /\ wiped = {} /\ Recognized
          /\ Addresses(unused["wipe"]) =
               RamAfter(memmap, Len(memmap)) \ FirstRanges(used, i - 1)
      BY <1>4, <2>1, <2>3 DEF Excluded
    <3>2. i \in 1 .. Count(used) /\ Count(used) \in Nat
      BY <1>3, <2>1, FirstRangesStep
    <3>3. /\ First(used, i) \in Nat /\ Behind(used, i) \in Nat
          /\ First(used, i) < Behind(used, i)
      BY <1>3, <3>2, SpanBounds
    <3>4. unused'["wipe"] = ranges_sub(unused["wipe"], First(used, i), Behind(used, i))
      BY <1>3, <1>11, <2>3 DEF ExcludeRange
    <3>5. Addresses(unused'["wipe"]) =
            Addresses(unused["wipe"]) \ (First(used, i) .. Behind(used, i) - 1)
      BY <1>3, <3>3, <3>4, RangesSubIsDifference
    <3>6. FirstRanges(used, i) =
            FirstRanges(used, i - 1) \cup (First(used, i) .. Behind(used, i) - 1)
      BY <1>3, <3>2, FirstRangesStep
    <3>7. Addresses(unused'["wipe"]) =
            RamAfter(memmap, Len(memmap)) \ FirstRanges(used, i)
      BY <3>1, <3>5, <3>6
    <3>8. i' - 1 = i /\ i' <= Count(used) + 1
      BY <1>3, <2>1, <3>2
    <3>9. Excluded'
      BY <1>2, <2>1, <3>1, <3>7, <3>8 DEF Excluded
    <3>10. QED
      BY <1>1, <2>1, <2>2, <2>3, <3>9 DEF WipeInv, BeforeWipe, MapRead, WipedSoFar,
         WipeOver
  <2>4. CASE caller = "test"
    <3>1. WipeOver'
      BY <1>2, <1>4, <2>1, <2>4 DEF WipeOver
    <3>2. QED
      BY <1>1, <2>1, <2>2, <2>4, <3>1 DEF WipeInv, BeforeWipe, MapRead, Excluded,
         WipedSoFar
  <2>5. QED
    BY <1>3, <2>3, <2>4
<1>12. CASE ExcludeDone
  <2>1. /\ pc = "exclude" /\ pc' = caller /\ i' = 1 /\ used' = used
        /\ unused' = unused /\ caller' = caller /\ asked' = asked /\ wiped' = wiped
        /\ i > Count(used)
    BY <1>12 DEF ExcludeDone
  <2>2. UsedRight'
    BY <1>2, <1>3, <1>4, <2>1 DEF UsedRight
  <2>3. CASE caller = "wipe"
    <3>1. /\ asked = TRUE /\ wiped = {} /\ Recognized /\ i <= Count(used) + 1
          /\ Addresses(unused["wipe"]) =
               RamAfter(memmap, Len(memmap)) \ FirstRanges(used, i - 1)
      BY <1>4, <2>1, <2>3 DEF Excluded
    <3>2. i - 1 = Count(used)
      <4>1. Count(used) \in Nat
        BY <1>3, FirstRangesStep
      <4>2. QED
        BY <1>3, <2>1, <3>1, <4>1
    <3>3. FirstRanges(used, i - 1) = InUse
      BY <1>3, <1>4, <2>1, <3>2, FirstRangesStep DEF UsedRight
    <3>4. Addresses(unused["wipe"]) = Free
      BY <3>1, <3>3 DEF Free
    <3>5. FirstRanges(unused["wipe"], 0) = {} /\ 1 <= Count(unused["wipe"]) + 1
      BY <1>3, FirstRangesStep
    <3>6. WipedSoFar'
      BY <1>2, <2>1, <2>3, <3>1, <3>4, <3>5 DEF WipedSoFar
    <3>7. QED
      BY <1>1, <2>1, <2>2, <2>3, <3>6 DEF WipeInv, BeforeWipe, MapRead, Excluded,
         WipeOver
  <2>4. CASE caller = "test"
    <3>1. WipeOver'
      BY <1>2, <1>4, <2>1, <2>4 DEF WipeOver
    <3>2. QED
      BY <1>1, <2>1, <2>2, <2>4, <3>1 DEF WipeInv, BeforeWipe, MapRead, Excluded,
         WipedSoFar
  <2>5. QED
    BY <1>3, <2>3, <2>4
<1>13. CASE WipeRange
  <2>1. /\ pc = "wipe" /\ pc' = "wipe" /\ i' = i + 1 /\ used' = used
        /\ unused' = unused /\ caller' = caller /\ asked' = asked
        /\ i <= Count(unused["wipe"])
        /\ wiped' = wiped \cup Touched(First(unused["wipe"], i), Behind(unused["wipe"], i))
    BY <1>13 DEF WipeRange
  <2>2. UsedRight'
    BY <1>2, <1>4, <2>1 DEF UsedRight
  <2>3. /\ caller = "wipe" /\ asked = TRUE /\ Recognized
        /\ Addresses(unused["wipe"]) = Free
        /\ wiped = FirstRanges(unused["wipe"], i - 1)
    BY <1>4, <2>1 DEF WipedSoFar
  <2>4. i \in 1 .. Count(unused["wipe"]) /\ Count(unused["wipe"]) \in Nat
    BY <1>3, <2>1, FirstRangesStep
  <2>5. Touched(First(unused["wipe"], i), Behind(unused["wipe"], i)) =
          First(unused["wipe"], i) .. Behind(unused["wipe"], i) - 1
    BY <1>3, <2>4, SpanBounds, TouchedExactly
  <2>6. wiped' = FirstRanges(unused["wipe"], i)
    BY <1>3, <2>1, <2>3, <2>4, <2>5, FirstRangesStep
  <2>7. i' - 1 = i /\ i' <= Count(unused["wipe"]) + 1
    BY <1>3, <2>1, <2>4
  <2>8. WipedSoFar'
    BY <1>2, <2>1, <2>3, <2>6, <2>7 DEF WipedSoFar
  <2>9. QED
    BY <1>1, <2>1, <2>2, <2>8 DEF WipeInv, BeforeWipe, MapRead, Excluded, WipeOver
<1>14. CASE WipeDone
  <2>1. /\ pc = "wipe" /\ pc' = "ui" /\ used' = used /\ asked' = asked
        /\ wiped' = wiped /\ i > Count(unused["wipe"])
    BY <1>14 DEF WipeDone
  <2>2. UsedRight'
    BY <1>2, <1>4, <2>1 DEF UsedRight
  <2>3. /\ asked = TRUE /\ Recognized /\ i <= Count(unused["wipe"]) + 1
        /\ Addresses(unused["wipe"]) = Free
        /\ wiped = FirstRanges(unused["wipe"], i - 1)
    BY <1>4, <2>1 DEF WipedSoFar
  <2>4. i - 1 = Count(unused["wipe"])
    <3>1. Count(unused["wipe"]) \in Nat
      BY <1>3, FirstRangesStep
    <3>2. QED
      BY <1>3, <2>1, <2>3, <3>1
  <2>5. wiped = Free
    BY <1>3, <2>3, <2>4, FirstRangesStep
  <2>6. WipeOver'
    BY <1>2, <2>1, <2>3, <2>5 DEF WipeOver
  <2>7. QED
    BY <1>1, <2>1, <2>2, <2>6 DEF WipeInv, BeforeWipe, MapRead, Excluded, WipedSoFar
<1>15. CASE TestInit
  <2>1. /\ pc = "ui" /\ used' = used /\ asked' = asked /\ wiped' = wiped
        /\ \/ pc' = "map" /\ caller' = "test"
           \/ pc' = "test"
    BY <1>15 DEF TestInit, GetUnused
  <2>2. UsedRight'
    BY <1>2, <1>4, <2>1 DEF UsedRight
  <2>3. WipeOver'
    BY <1>2, <1>4, <2>1 DEF WipeOver
  <2>4. QED
    BY <1>1, <2>1, <2>2, <2>3 DEF WipeInv, BeforeWipe, MapRead, Excluded, WipedSoFar
<1>16. CASE TestReset \/ TestAgain \/ WriteChunk \/ CheckChunk \/ CheckFails
  <2>1. /\ pc \in {"ui", "test", "run"} /\ pc' \in {"ui", "test", "run"}
        /\ used' = used /\ asked' = asked /\ wiped' = wiped
    BY <1>16 DEF TestReset, TestAgain, Step, WriteChunk, CheckChunk, CheckFails
  <2>2. UsedRight'
    BY <1>2, <1>4, <2>1 DEF UsedRight
  <2>3. WipeOver'
    BY <1>2, <1>4, <2>1 DEF WipeOver
  <2>4. QED
    BY <1>1, <2>1, <2>2, <2>3 DEF WipeInv, BeforeWipe, MapRead, Excluded, WipedSoFar
<1>17. CASE UNCHANGED vars
  BY <1>1, <1>2, <1>4, <1>17 DEF vars, WipeInv, BeforeWipe, UsedRight, MapRead,
     Excluded, WipedSoFar, WipeOver
<1>18. QED
  BY <1>6, <1>7, <1>8, <1>9, <1>10, <1>11, <1>12, <1>13, <1>14, <1>15, <1>16, <1>17
     DEF Next

(* The wipe before developer and recovery mode clears what is free and       *)
(* nothing else (Memory.WipeExact).                                          *)
THEOREM WipeCorrect == Spec => []WipeExact
<1>1. Spec => []WipeInv
  BY WipeInit, WipeStep, PTL DEF Spec
<1>2. WipeInv => WipeExact
  <2> SUFFICES ASSUME WipeInv PROVE WipeExact
    OBVIOUS
  <2>1. /\ TypeOK /\ BeforeWipe /\ MapRead /\ Excluded /\ WipedSoFar /\ WipeOver
    BY DEF WipeInv
  <2>2. wiped \subseteq Free
    <3>1. CASE pc \in {"init_funcs", "check_wipe"}
      BY <2>1, <3>1 DEF BeforeWipe
    <3>2. CASE pc \in {"map", "exclude"} /\ caller = "wipe"
      BY <2>1, <3>2 DEF MapRead, Excluded
    <3>3. CASE pc = "wipe"
      <4>1. /\ i \in Nat \ {0} /\ IsRanges(unused["wipe"])
            /\ i <= Count(unused["wipe"]) + 1 /\ Addresses(unused["wipe"]) = Free
            /\ wiped = FirstRanges(unused["wipe"], i - 1)
        BY <2>1, <3>3 DEF TypeOK, WipedSoFar
      <4>2. 1 .. i - 1 \subseteq 1 .. Count(unused["wipe"])
        BY <4>1, FirstRangesStep
      <4>3. FirstRanges(unused["wipe"], i - 1) \subseteq Addresses(unused["wipe"])
        BY <4>2 DEF FirstRanges, Addresses
      <4>4. QED
        BY <4>1, <4>3
    <3>4. CASE pc \in {"ui", "test", "run"} \/ (pc \in {"map", "exclude"} /\ caller = "test")
      BY <2>1, <3>4 DEF WipeOver
    <3>5. QED
      BY <2>1, <3>1, <3>2, <3>3, <3>4 DEF TypeOK
  <2>3. pc = "ui" /\ asked => IF Recognized THEN wiped = Free ELSE wiped = {}
    BY <2>1 DEF WipeOver
  <2>4. \A a : IsFree(a) <=> a \in Free
    BY DEF IsFree, Free
  <2>5. QED
    BY <2>2, <2>3, <2>4 DEF WipeExact
<1>3. QED
  BY <1>1, <1>2, PTL
-----------------------------------------------------------------------------
(* The inductive invariant of the memory test.                               *)
Building == pc \in {"map", "exclude"} /\ caller = "test"
Below(x) == {a \in Addresses(ranges) : a < x}

\* Nothing has been tested.
Fresh == /\ mem = [a \in 0 .. Top - 1 |-> 0]
         /\ test.is_running = FALSE /\ test.verdict = "none"

PlaceType == /\ DOMAIN test = DOMAIN NoPlace /\ DOMAIN mem = 0 .. Top - 1
             /\ test.is_running \in BOOLEAN /\ bad \in Faults
             /\ Building \/ pc = "test" => test.patterns \in Nat \ {0}

\* The list is computed once, from the memory map and what is in use.
ListRight ==
  /\ Addresses(ranges) \subseteq 0 .. Top - 1
  /\ pc = "map" /\ caller = "test" =>
       i <= Len(memmap) + 1 /\ Addresses(ranges) = RamAfter(memmap, i - 1)
  /\ pc = "exclude" /\ caller = "test" =>
       /\ i <= Count(used) + 1
       /\ Addresses(ranges) = RamAfter(memmap, Len(memmap)) \ FirstRanges(used, i - 1)
  /\ ~Building => ranges = NoRanges \/ ~Recognized \/ Addresses(ranges) = Free

NothingTested ==
  /\ pc \notin {"ui", "test", "run"} /\ ~Building => ranges = NoRanges
  /\ pc \notin {"ui", "test", "run"} \/ ranges = NoRanges => Fresh
  /\ pc = "run" => test.is_running

WrittenIsListed == \A a \in DOMAIN mem : mem[a] # 0 => a \in Addresses(ranges)

\* The rounds through the list that are complete: each pattern is written, then read.
Rounds(t) == 2 * (t.pattern - 1) + (IF t.op = "read" THEN 1 ELSE 0)

\* What a running test has written and read, and what it has counted.
Running ==
  pc \in {"ui", "run"} /\ test.is_running =>
    /\ test.verdict = "none" /\ test.patterns \in Nat
    /\ test.pattern \in 1 .. test.patterns /\ test.op \in {"write", "read"}
    /\ test.range_cur \in 1 .. Count(ranges)
    /\ test.chunk_st \in First(ranges, test.range_cur) .. RangeEnd - 1
    /\ test.op = "write" => \A a \in Below(test.chunk_st) : mem[a] = test.pattern
    /\ test.op = "read" => /\ \A a \in Addresses(ranges) : mem[a] = test.pattern
                           /\ \A a \in Below(test.chunk_st) : <<test.pattern, a>> \notin bad
    /\ \A c \in bad : c[1] < test.pattern => c[2] \notin Addresses(ranges)
    /\ test.processed = Rounds(test) * Cardinality(Addresses(ranges))
                          + Cardinality(Below(test.chunk_st))

Over == pc = "ui" => VerdictRight /\ (test.verdict = "passed" => test.processed = Total)

TestInv == /\ WipeInv /\ PlaceType /\ ListRight /\ NothingTested /\ WrittenIsListed
           /\ Running /\ Over

-----------------------------------------------------------------------------
(* The addresses of a list below one of its ranges, and inside it.           *)
LEMMA SpanOrder ==
  ASSUME NEW edges, IsRanges(edges), NEW j \in 1 .. Count(edges), NEW k \in 1 .. Count(edges), j < k
  PROVE  Behind(edges, j) < First(edges, k)
<1>1. edges \in Seq(Nat) /\ Len(edges) \in Nat
  BY DEF IsRanges
<1>2. j \in Nat /\ k \in Nat /\ j <= k - 1 /\ 1 <= j /\ k <= Len(edges) \div 2
  BY <1>1 DEF Count
<1>3. 2 * j \in 1 .. Len(edges) /\ 2 * k - 1 \in 1 .. Len(edges) /\ 2 * j < 2 * k - 1
  BY <1>1, <1>2
<1>4. QED
  BY <1>3 DEF IsRanges, First, Behind

LEMMA BelowSteps ==
  ASSUME IsRanges(ranges), NEW k \in 1 .. Count(ranges)
  PROVE  /\ \A c \in Int, d \in Int :
              First(ranges, k) <= c /\ c <= d /\ d <= Behind(ranges, k) =>
                /\ c .. d - 1 \subseteq Addresses(ranges)
                /\ Below(d) = Below(c) \cup (c .. d - 1) /\ Below(c) \cap (c .. d - 1) = {}
         /\ k = 1 => Below(First(ranges, k)) = {}
         /\ k < Count(ranges) => Below(First(ranges, k + 1)) = Below(Behind(ranges, k))
         /\ k = Count(ranges) => Below(Behind(ranges, k)) = Addresses(ranges)
<1>1. Count(ranges) \in Nat /\ k \in Nat
  BY FirstRangesStep
<1>2. \A j \in 1 .. Count(ranges) :
        First(ranges, j) \in Nat /\ Behind(ranges, j) \in Nat /\ First(ranges, j) < Behind(ranges, j)
  BY SpanBounds
<1>3. \A j, l \in 1 .. Count(ranges) : j < l => Behind(ranges, j) < First(ranges, l)
  BY SpanOrder
<1>4. \A a : a \in Addresses(ranges) <=>
               \E j \in 1 .. Count(ranges) : a \in First(ranges, j) .. Behind(ranges, j) - 1
  BY DEF Addresses, Span
<1>5. ASSUME NEW c \in Int, NEW d \in Int,
             First(ranges, k) <= c, c <= d, d <= Behind(ranges, k)
      PROVE  /\ c .. d - 1 \subseteq Addresses(ranges)
             /\ Below(d) = Below(c) \cup (c .. d - 1) /\ Below(c) \cap (c .. d - 1) = {}
  <2>1. c .. d - 1 \subseteq First(ranges, k) .. Behind(ranges, k) - 1
    BY <1>2, <1>5
  <2>2. c .. d - 1 \subseteq Addresses(ranges)
    BY <1>4, <2>1
  <2>3. Addresses(ranges) \subseteq Nat
    BY AddressesNatural
  <2>4. \A a \in Nat : a < d <=> a < c \/ a \in c .. d - 1
    BY <1>5
  <2>5. \A a \in Nat : ~(a < c /\ a \in c .. d - 1)
    BY <1>5
  <2>6. QED
    BY <2>2, <2>3, <2>4, <2>5 DEF Below
<1>6. k = 1 => Below(First(ranges, k)) = {}
  <2> SUFFICES ASSUME k = 1, NEW j \in 1 .. Count(ranges),
                      NEW a \in First(ranges, j) .. Behind(ranges, j) - 1
               PROVE  ~(a < First(ranges, 1))
    BY <1>4 DEF Below
  <2>1. First(ranges, 1) <= First(ranges, j)
    <3>1. CASE j = 1
      BY <1>2, <3>1
    <3>2. CASE j # 1
      <4>1. Behind(ranges, 1) < First(ranges, j) /\ First(ranges, 1) < Behind(ranges, 1)
        BY <1>1, <1>2, <1>3, <3>2
      <4>2. QED
        BY <1>1, <1>2, <4>1
    <3>3. QED
      BY <3>1, <3>2
  <2>2. QED
    BY <1>1, <1>2, <2>1
<1>7. ASSUME k < Count(ranges)
      PROVE  Below(First(ranges, k + 1)) = Below(Behind(ranges, k))
  <2>1. k + 1 \in 1 .. Count(ranges) /\ k < k + 1
    BY <1>1, <1>7
  <2>2. Behind(ranges, k) < First(ranges, k + 1)
    BY <1>3, <2>1
  <2>3. ASSUME NEW j \in 1 .. Count(ranges), NEW a \in First(ranges, j) .. Behind(ranges, j) - 1,
               a < First(ranges, k + 1)
        PROVE  a < Behind(ranges, k)
    <3>1. CASE j <= k
      <4>1. Behind(ranges, j) <= Behind(ranges, k)
        <5>1. CASE j = k
          BY <1>2, <5>1
        <5>2. CASE j # k
          <6>1. Behind(ranges, j) < First(ranges, k) /\ First(ranges, k) < Behind(ranges, k)
            BY <1>1, <1>2, <1>3, <3>1, <5>2
          <6>2. QED
            BY <1>2, <6>1
        <5>3. QED
          BY <5>1, <5>2
      <4>2. QED
        BY <1>2, <2>3, <4>1
    <3>2. CASE j > k
      <4>1. First(ranges, k + 1) <= First(ranges, j)
        <5>1. CASE j = k + 1
          BY <1>2, <5>1
        <5>2. CASE j # k + 1
          <6>1. Behind(ranges, k + 1) < First(ranges, j)
            BY <1>1, <1>3, <2>1, <3>2, <5>2
          <6>2. QED
            BY <1>2, <2>1, <6>1
        <5>3. QED
          BY <5>1, <5>2
      <4>2. QED
        BY <1>2, <2>1, <2>3, <4>1
    <3>3. QED
      BY <1>1, <3>1, <3>2
  <2>4. Addresses(ranges) \subseteq Nat
    BY AddressesNatural
  <2>5. \A a \in Addresses(ranges) : a < First(ranges, k + 1) <=> a < Behind(ranges, k)
    <3>1. \A a \in Addresses(ranges) : a < First(ranges, k + 1) => a < Behind(ranges, k)
      BY <1>4, <2>3
    <3>2. \A a \in Nat : a < Behind(ranges, k) => a < First(ranges, k + 1)
      BY <1>2, <2>1, <2>2
    <3>3. QED
      BY <2>4, <3>1, <3>2
  <2>6. QED
    BY <2>5 DEF Below
<1>8. ASSUME k = Count(ranges)
      PROVE  Below(Behind(ranges, k)) = Addresses(ranges)
  <2> SUFFICES ASSUME NEW j \in 1 .. Count(ranges),
                      NEW a \in First(ranges, j) .. Behind(ranges, j) - 1
               PROVE  a < Behind(ranges, k)
    BY <1>4 DEF Below
  <2>1. CASE j = k
    BY <1>2, <2>1
  <2>2. CASE j # k
    <3>1. Behind(ranges, j) < First(ranges, k) /\ First(ranges, k) < Behind(ranges, k)
      BY <1>1, <1>2, <1>3, <1>8, <2>2
    <3>2. QED
      BY <1>2, <3>1
  <2>3. QED
    BY <2>1, <2>2
<1>9. QED
  BY <1>5, <1>6, <1>7, <1>8

(* What a chunk adds to what is below.                                       *)
LEMMA BelowCount ==
  ASSUME IsRanges(ranges), Addresses(ranges) \subseteq 0 .. Top - 1
  PROVE  /\ IsFiniteSet(Addresses(ranges)) /\ Cardinality(Addresses(ranges)) \in Nat
         /\ \A x : Cardinality(Below(x)) \in Nat
         /\ \A k \in 1 .. Count(ranges), c \in Int, d \in Int :
              First(ranges, k) <= c /\ c <= d /\ d <= Behind(ranges, k) =>
                Cardinality(Below(d)) = Cardinality(Below(c)) + (d - c)
<1>1. Top \in Nat
  BY MemoryAssumption DEF MemoryAssumption
<1>2. IsFiniteSet(0 .. Top - 1)
  BY <1>1, FS_Interval
<1>3. IsFiniteSet(Addresses(ranges)) /\ Cardinality(Addresses(ranges)) \in Nat
  BY <1>2, FS_Subset, FS_CardinalityType
<1>4. \A x : IsFiniteSet(Below(x)) /\ Cardinality(Below(x)) \in Nat
  <2>1. \A x : Below(x) \in SUBSET Addresses(ranges)
    BY DEF Below
  <2>2. QED
    BY <1>3, <2>1, FS_Subset, FS_CardinalityType
<1>5. ASSUME NEW k \in 1 .. Count(ranges), NEW c \in Int, NEW d \in Int,
             First(ranges, k) <= c, c <= d, d <= Behind(ranges, k)
      PROVE  Cardinality(Below(d)) = Cardinality(Below(c)) + (d - c)
  <2>1. Below(d) = Below(c) \cup (c .. d - 1) /\ Below(c) \cap (c .. d - 1) = {}
    BY <1>5, BelowSteps
  <2>2. IsFiniteSet(c .. d - 1) /\ Cardinality(c .. d - 1) = d - c
    <3>1. d - 1 \in Int
      OBVIOUS
    <3>2. /\ IsFiniteSet(c .. d - 1)
          /\ Cardinality(c .. d - 1) = IF c > d - 1 THEN 0 ELSE (d - 1) - c + 1
      BY <3>1, FS_Interval
    <3>3. QED
      BY <1>5, <3>2
  <2>3. Cardinality({}) = 0
    BY FS_EmptySet
  <2>4. Cardinality(Below(c) \cup (c .. d - 1)) =
          Cardinality(Below(c)) + Cardinality(c .. d - 1) - Cardinality(Below(c) \cap (c .. d - 1))
    BY <1>4, <2>2, FS_Union
  <2>5. PICK n \in Nat : n = Cardinality(Below(c))
    BY <1>4
  <2>6. Cardinality(Below(d)) = n + (d - c) - 0
    BY <2>1, <2>2, <2>3, <2>4, <2>5
  <2>7. n + (d - c) - 0 = n + (d - c)
    OBVIOUS
  <2>8. QED
    BY <2>5, <2>6, <2>7
<1>6. QED
  BY <1>3, <1>4, <1>5
(* Where a segment of arch_phys_map is in memory.                            *)
LEMMA SegmentIs ==
  ASSUME NEW start \in Nat, NEW end \in Nat, NEW seg \in Segments(start, end)
  PROVE  /\ seg.at \in Nat /\ seg.size \in Int
         /\ \A pos \in Int : Phys(seg, pos) = seg.at + pos
<1>1. Low \in Nat /\ Page \in Nat \ {0}
  BY MemoryAssumption DEF MemoryAssumption
<1>2. CASE seg \in Direct(start, end)
  <2>1. seg = [at |-> start, ptr |-> start, page |-> 0, mapped |-> FALSE,
               size |-> Smaller(Low, end) - start]
    BY <1>2 DEF Direct
  <2>2. Smaller(Low, end) - start \in Int
    BY <1>1 DEF Smaller
  <2>3. \A pos \in Int : start + pos + 0 = start + pos
    OBVIOUS
  <2>4. QED
    BY <2>1, <2>2, <2>3 DEF Phys
<1>3. CASE seg \in Windows(start, end)
  <2> DEFINE high == Larger(start, Low)
  <2>1. high \in Nat /\ high % Page \in Int
    BY <1>1 DEF Larger
  <2> HIDE DEF high
  <2>2. PICK p \in high - (high % Page) .. end - 1 :
          seg = [at |-> Larger(p, high), ptr |-> Page + (Larger(p, high) - p), page |-> p,
                 mapped |-> TRUE, size |-> Smaller(p + Page, end) - Larger(p, high)]
    BY <1>3 DEF Windows, high
  <2>3. p \in Int /\ Larger(p, high) \in Nat
    <3>1. p \in Int
      BY <2>1
    <3>2. Larger(p, high) = p \/ Larger(p, high) = high
      BY DEF Larger
    <3>3. high <= Larger(p, high)
      BY <2>1, <3>1 DEF Larger
    <3>4. QED
      BY <2>1, <3>1, <3>2, <3>3
  <2>4. Smaller(p + Page, end) - Larger(p, high) \in Int
    BY <1>1, <2>3 DEF Smaller
  <2>5. PICK f \in Nat : f = Larger(p, high)
    BY <2>3
  <2>6. \A pos \in Int : (Page + (f - p)) + pos + (p - Page) = f + pos
    BY <1>1, <2>3
  <2>7. seg.at = f /\ seg.ptr = Page + (f - p) /\ seg.page = p /\ seg.mapped = TRUE
    BY <2>2, <2>5
  <2>8. \A pos \in Int : Phys(seg, pos) = (Page + (f - p)) + pos + (p - Page)
    BY <2>7 DEF Phys
  <2>9. seg.size \in Int
    BY <2>2, <2>4
  <2>10. QED
    BY <2>6, <2>7, <2>8, <2>9
<1>4. QED
  BY <1>2, <1>3 DEF Segments

(* The chunk that the next call does lies in its range.                      *)
LEMMA ChunkIs ==
  ASSUME TestInv, pc = "run"
  PROVE  /\ test.range_cur \in 1 .. Count(ranges) /\ Count(ranges) \in Nat
         /\ First(ranges, test.range_cur) \in Nat /\ RangeEnd \in Nat
         /\ test.chunk_st \in Nat /\ ChunkEnd \in Nat
         /\ First(ranges, test.range_cur) <= test.chunk_st
         /\ test.chunk_st < ChunkEnd /\ ChunkEnd <= RangeEnd
         /\ Touched(test.chunk_st, ChunkEnd) = test.chunk_st .. ChunkEnd - 1
         /\ test.chunk_st .. ChunkEnd - 1 \subseteq Addresses(ranges)
         /\ Below(ChunkEnd) = Below(test.chunk_st) \cup (test.chunk_st .. ChunkEnd - 1)
         /\ test.is_running = TRUE /\ IsRanges(ranges)
<1>1. IsRanges(ranges) /\ test.is_running = TRUE
  BY DEF TestInv, WipeInv, TypeOK, NothingTested, PlaceType
<1>2. /\ test.range_cur \in 1 .. Count(ranges)
      /\ test.chunk_st \in First(ranges, test.range_cur) .. RangeEnd - 1
  BY <1>1 DEF TestInv, Running
<1>3. First(ranges, test.range_cur) \in Nat /\ RangeEnd \in Nat /\ Count(ranges) \in Nat
  BY <1>1, <1>2, SpanBounds, FirstRangesStep DEF RangeEnd
<1>4. Chunk \in Nat \ {0}
  BY MemoryAssumption DEF MemoryAssumption
<1>5. /\ test.chunk_st \in Nat /\ First(ranges, test.range_cur) <= test.chunk_st
      /\ test.chunk_st < RangeEnd
  BY <1>2, <1>3
<1>6. ChunkEnd \in Nat /\ test.chunk_st < ChunkEnd /\ ChunkEnd <= RangeEnd
  <2>1. PICK c \in Nat : c = test.chunk_st
    BY <1>5
  <2>2. PICK e \in Nat : e = RangeEnd
    BY <1>3
  <2>3. ChunkEnd = IF e < c + Chunk THEN e ELSE c + Chunk
    BY <2>1, <2>2 DEF ChunkEnd, Smaller
  <2>4. QED
    BY <1>4, <1>5, <2>1, <2>2, <2>3
<1>7. Touched(test.chunk_st, ChunkEnd) = test.chunk_st .. ChunkEnd - 1
  BY <1>5, <1>6, TouchedExactly
<1>8. /\ test.chunk_st .. ChunkEnd - 1 \subseteq Addresses(ranges)
      /\ Below(ChunkEnd) = Below(test.chunk_st) \cup (test.chunk_st .. ChunkEnd - 1)
  BY <1>1, <1>2, <1>5, <1>6, BelowSteps DEF RangeEnd
<1>9. QED
  BY <1>1, <1>2, <1>3, <1>5, <1>6, <1>7, <1>8

(* go_next_chunk and what it calls: the next place, or the end of the test.  *)
LEMMA NextPlace ==
  ASSUME TestInv, pc = "run"
  PROVE  LET n == go_next_chunk([test EXCEPT !.processed = Processed])
         IN  /\ DOMAIN n = DOMAIN test /\ n.patterns = test.patterns /\ n.processed = Processed
             /\ \/ /\ ChunkEnd < RangeEnd
                   /\ n.chunk_st = ChunkEnd /\ n.range_cur = test.range_cur
                   /\ n.op = test.op /\ n.pattern = test.pattern
                   /\ n.is_running = test.is_running /\ n.verdict = test.verdict
                \/ /\ ~(ChunkEnd < RangeEnd) /\ test.range_cur < Count(ranges)
                   /\ n.range_cur = test.range_cur + 1
                   /\ n.chunk_st = First(ranges, test.range_cur + 1)
                   /\ n.op = test.op /\ n.pattern = test.pattern
                   /\ n.is_running = test.is_running /\ n.verdict = test.verdict
                \/ /\ ~(ChunkEnd < RangeEnd) /\ ~(test.range_cur < Count(ranges))
                   /\ test.op = "write" /\ n.op = "read" /\ n.pattern = test.pattern
                   /\ n.range_cur = 1 /\ n.chunk_st = First(ranges, 1)
                   /\ n.is_running = test.is_running /\ n.verdict = test.verdict
                \/ /\ ~(ChunkEnd < RangeEnd) /\ ~(test.range_cur < Count(ranges))
                   /\ test.op # "write" /\ test.pattern < test.patterns
                   /\ n.op = "write" /\ n.pattern = test.pattern + 1
                   /\ n.range_cur = 1 /\ n.chunk_st = First(ranges, 1)
                   /\ n.is_running = test.is_running /\ n.verdict = test.verdict
                \/ /\ ~(ChunkEnd < RangeEnd) /\ ~(test.range_cur < Count(ranges))
                   /\ test.op # "write" /\ ~(test.pattern < test.patterns)
                   /\ n.is_running = FALSE /\ n.verdict = "passed" /\ n.pattern = test.pattern
<1>1. DOMAIN test = {"is_running", "patterns", "pattern", "op", "range_cur", "chunk_st",
                     "processed", "verdict", "error"}
  BY DEF TestInv, PlaceType, NoPlace
<1> DEFINE t == [test EXCEPT !.processed = Processed]
<1>2. /\ DOMAIN t = DOMAIN test /\ t.processed = Processed /\ t.patterns = test.patterns
      /\ t.range_cur = test.range_cur /\ t.chunk_st = test.chunk_st /\ t.op = test.op
      /\ t.pattern = test.pattern /\ t.is_running = test.is_running /\ t.verdict = test.verdict
  BY <1>1
<1> HIDE DEF t
<1>3. ASSUME NEW u, DOMAIN u = DOMAIN test, NEW k
      PROVE  /\ DOMAIN AtRange(u, k) = DOMAIN test
             /\ AtRange(u, k).range_cur = k /\ AtRange(u, k).chunk_st = First(ranges, k)
             /\ AtRange(u, k).processed = u.processed /\ AtRange(u, k).patterns = u.patterns
             /\ AtRange(u, k).op = u.op /\ AtRange(u, k).pattern = u.pattern
             /\ AtRange(u, k).is_running = u.is_running /\ AtRange(u, k).verdict = u.verdict
  BY <1>1, <1>3 DEF AtRange
<1>4. CASE ChunkEnd < RangeEnd
  <2>1. go_next_chunk(t) = [t EXCEPT !.chunk_st = ChunkEnd]
    BY <1>4 DEF go_next_chunk
  <2>2. QED
    BY <1>1, <1>2, <1>4, <2>1 DEF t
<1>5. CASE ~(ChunkEnd < RangeEnd) /\ test.range_cur < Count(ranges)
  <2> DEFINE k == test.range_cur + 1
  <2>1. go_next_chunk(t) = AtRange(t, k)
    BY <1>2, <1>5 DEF go_next_chunk, go_next_range
  <2>2. k = test.range_cur + 1
    OBVIOUS
  <2> HIDE DEF k
  <2>3. /\ DOMAIN AtRange(t, k) = DOMAIN test
        /\ AtRange(t, k).range_cur = k /\ AtRange(t, k).chunk_st = First(ranges, k)
        /\ AtRange(t, k).processed = t.processed /\ AtRange(t, k).patterns = t.patterns
        /\ AtRange(t, k).op = t.op /\ AtRange(t, k).pattern = t.pattern
        /\ AtRange(t, k).is_running = t.is_running /\ AtRange(t, k).verdict = t.verdict
    BY <1>2, <1>3
  <2>4. QED
    BY <1>2, <1>5, <2>1, <2>2, <2>3 DEF t
<1>6. ASSUME ~(ChunkEnd < RangeEnd), ~(test.range_cur < Count(ranges))
      PROVE  go_next_chunk(t) = go_next_operation(t)
  BY <1>2, <1>6 DEF go_next_chunk, go_next_range
<1>7. CASE ~(ChunkEnd < RangeEnd) /\ ~(test.range_cur < Count(ranges)) /\ test.op = "write"
  <2> DEFINE u == [t EXCEPT !.op = "read"]
  <2>1. /\ DOMAIN u = DOMAIN test /\ u.processed = t.processed /\ u.patterns = t.patterns
        /\ u.op = "read" /\ u.pattern = t.pattern /\ u.is_running = t.is_running
        /\ u.verdict = t.verdict
    BY <1>1, <1>2
  <2>2. go_next_chunk(t) = AtRange(u, 1)
    BY <1>2, <1>6, <1>7 DEF go_next_operation
  <2> HIDE DEF u
  <2>3. QED
    BY <1>2, <1>3, <1>7, <2>1, <2>2 DEF t
<1>8. CASE ~(ChunkEnd < RangeEnd) /\ ~(test.range_cur < Count(ranges)) /\ test.op # "write"
             /\ test.pattern < test.patterns
  <2> DEFINE u == [t EXCEPT !.pattern = @ + 1, !.op = "write"]
  <2>1. /\ DOMAIN u = DOMAIN test /\ u.processed = t.processed /\ u.patterns = t.patterns
        /\ u.op = "write" /\ u.pattern = t.pattern + 1 /\ u.is_running = t.is_running
        /\ u.verdict = t.verdict
    BY <1>1, <1>2
  <2>2. go_next_chunk(t) = AtRange(u, 1)
    BY <1>2, <1>6, <1>8 DEF go_next_operation, go_next_pattern
  <2> HIDE DEF u
  <2>3. QED
    BY <1>2, <1>3, <1>8, <2>1, <2>2 DEF t
<1>9. CASE ~(ChunkEnd < RangeEnd) /\ ~(test.range_cur < Count(ranges)) /\ test.op # "write"
             /\ ~(test.pattern < test.patterns)
  <2> DEFINE u == [t EXCEPT !.is_running = FALSE, !.op = "none", !.verdict = "passed"]
  <2>1. /\ DOMAIN u = DOMAIN test /\ u.processed = t.processed /\ u.patterns = t.patterns
        /\ u.pattern = t.pattern /\ u.is_running = FALSE /\ u.verdict = "passed"
    BY <1>1, <1>2
  <2>2. go_next_chunk(t) = AtRange(u, 1)
    BY <1>2, <1>6, <1>9 DEF go_next_operation, go_next_pattern
  <2> HIDE DEF u
  <2>3. QED
    BY <1>2, <1>3, <1>9, <2>1, <2>2 DEF t
<1>10. QED
  BY <1>4, <1>5, <1>7, <1>8, <1>9
-----------------------------------------------------------------------------
(* The list of the test, made from the map and then left alone.              *)
LEMMA ListStep ==
  ASSUME TestInv, [Next]_vars
  PROVE  ListRight'
<1>1. TypeOK' /\ IsRanges(ranges)
  BY TypeStep DEF TestInv, WipeInv, TypeOK
<1>2. /\ memmap' = memmap /\ Free' = Free /\ Recognized' = Recognized
  BY MapStays
<1>3. /\ caller \in {"wipe", "test"} /\ i \in Nat \ {0} /\ memmap \in Maps
      /\ DOMAIN unused = {"wipe", "test"} /\ IsRanges(used) /\ UsedRight /\ ListRight
  BY DEF TestInv, WipeInv, TypeOK
<1>4. /\ Len(memmap) \in Nat /\ DOMAIN memmap = 1 .. Len(memmap)
      /\ \A j \in DOMAIN memmap :
           /\ memmap[j].start \in Nat /\ memmap[j].end \in Nat
           /\ memmap[j].start < memmap[j].end
           /\ memmap[j].type = "ram" => memmap[j].end <= Top
  BY <1>3, EntriesAreSpans, MemoryAssumption DEF MemoryAssumption
<1>5. Top \in Nat
  BY MemoryAssumption DEF MemoryAssumption
<1>6. ASSUME ranges' = ranges,
             \/ pc' \notin {"map", "exclude"} /\ ~Building
             \/ pc' = pc /\ caller' = caller /\ i' = i /\ used' = used
             \/ caller' = "wipe" /\ caller = "wipe"
             \/ caller' = "wipe" /\ pc = "check_wipe"
      PROVE  ListRight'
  <2>1. CASE pc' = pc /\ caller' = caller /\ i' = i /\ used' = used
    BY <1>2, <1>3, <1>6, <2>1 DEF ListRight, Building
  <2>2. CASE ~(pc' = pc /\ caller' = caller /\ i' = i /\ used' = used)
    BY <1>2, <1>3, <1>6, <2>2 DEF ListRight, Building
  <2>3. QED
    BY <2>1, <2>2
<1>7. CASE MapRange
  <2>1. /\ pc = "map" /\ pc' = pc /\ caller' = caller /\ i' = i + 1 /\ used' = used
        /\ i \in DOMAIN memmap
    BY <1>7 DEF MapRange
  <2>2. CASE caller = "wipe"
    <3>1. ranges' = ranges
      BY <1>3, <1>7, <2>2 DEF MapRange, ranges
    <3>2. QED
      BY <1>6, <2>1, <2>2, <3>1
  <2>3. CASE caller = "test"
    <3>1. ranges' = IF memmap[i].type = "ram"
                      THEN ranges_add(ranges, memmap[i].start, memmap[i].end)
                      ELSE ranges_sub(ranges, memmap[i].start, memmap[i].end)
      BY <1>3, <1>7, <2>3 DEF MapRange, ranges
    <3>2. Addresses(ranges) = RamAfter(memmap, i - 1) /\ Addresses(ranges) \subseteq 0 .. Top - 1
      BY <1>3, <2>1, <2>3 DEF ListRight
    <3>3. /\ memmap[i].start \in Nat /\ memmap[i].end \in Nat
          /\ memmap[i].start < memmap[i].end
          /\ memmap[i].type = "ram" => memmap[i].end <= Top
      BY <1>4, <2>1
    <3>4. Addresses(ranges') = RamAfter(memmap, i) /\ Addresses(ranges') \subseteq 0 .. Top - 1
      <4>1. CASE memmap[i].type = "ram"
        <5>1. Addresses(ranges') = Addresses(ranges) \cup (memmap[i].start .. memmap[i].end - 1)
          BY <1>1, <3>1, <3>3, <4>1, RangesAddIsUnion
        <5>2. memmap[i].start .. memmap[i].end - 1 \subseteq 0 .. Top - 1
          BY <1>5, <3>3, <4>1
        <5>3. RamAfter(memmap, i) =
                RamAfter(memmap, i - 1) \cup (memmap[i].start .. memmap[i].end - 1)
          BY <1>3, <3>3, <4>1, RamStep
        <5>4. QED
          BY <3>2, <5>1, <5>2, <5>3
      <4>2. CASE memmap[i].type # "ram"
        <5>1. Addresses(ranges') = Addresses(ranges) \ (memmap[i].start .. memmap[i].end - 1)
          BY <1>1, <3>1, <3>3, <4>2, RangesSubIsDifference
        <5>2. RamAfter(memmap, i) =
                RamAfter(memmap, i - 1) \ (memmap[i].start .. memmap[i].end - 1)
          BY <1>3, <3>3, <4>2, RamStep
        <5>3. QED
          BY <3>2, <5>1, <5>2
      <4>3. QED
        BY <4>1, <4>2
    <3>5. i' - 1 = i /\ i' <= Len(memmap) + 1
      BY <1>3, <1>4, <2>1
    <3>6. QED
      BY <1>2, <2>1, <2>3, <3>4, <3>5 DEF ListRight, Building
  <2>4. QED
    BY <1>3, <2>2, <2>3
<1>8. CASE MapFails
  <2>1. pc = "map" /\ pc' = "ui" /\ ~Recognized /\ ranges' = ranges
    BY <1>3, <1>8 DEF MapFails, Recognized, ranges
  <2>2. QED
    BY <1>2, <1>3, <2>1 DEF ListRight, Building
<1>9. CASE MapDone
  <2>1. /\ pc = "map" /\ pc' = "exclude" /\ i' = 1 /\ caller' = caller /\ ranges' = ranges
        /\ i \notin DOMAIN memmap
    BY <1>9 DEF MapDone, ranges
  <2>2. CASE caller = "wipe"
    BY <1>6, <2>1, <2>2
  <2>3. CASE caller = "test"
    <3>1. /\ i <= Len(memmap) + 1 /\ Addresses(ranges) = RamAfter(memmap, i - 1)
          /\ Addresses(ranges) \subseteq 0 .. Top - 1
      BY <1>3, <2>1, <2>3 DEF ListRight
    <3>2. i - 1 = Len(memmap)
      BY <1>3, <1>4, <2>1, <3>1
    <3>3. IsRanges(used')
      BY <1>1 DEF TypeOK
    <3>4. FirstRanges(used', 0) = {} /\ 1 <= Count(used') + 1
      BY <3>3, FirstRangesStep
    <3>5. i' - 1 = 0
      BY <2>1
    <3>6. QED
      BY <1>2, <2>1, <2>3, <3>1, <3>2, <3>4, <3>5 DEF ListRight, Building
  <2>4. QED
    BY <1>3, <2>2, <2>3
<1>10. CASE ExcludeRange
  <2>1. /\ pc = "exclude" /\ pc' = pc /\ i' = i + 1 /\ used' = used /\ caller' = caller
        /\ i <= Count(used)
    BY <1>10 DEF ExcludeRange
  <2>2. CASE caller = "wipe"
    <3>1. ranges' = ranges
      BY <1>3, <1>10, <2>2 DEF ExcludeRange, ranges
    <3>2. QED
      BY <1>6, <2>1, <2>2, <3>1
  <2>3. CASE caller = "test"
    <3>1. /\ Addresses(ranges) = RamAfter(memmap, Len(memmap)) \ FirstRanges(used, i - 1)
          /\ Addresses(ranges) \subseteq 0 .. Top - 1
      BY <1>3, <2>1, <2>3 DEF ListRight
    <3>2. i \in 1 .. Count(used) /\ Count(used) \in Nat
      BY <1>3, <2>1, FirstRangesStep
    <3>3. /\ First(used, i) \in Nat /\ Behind(used, i) \in Nat
          /\ First(used, i) < Behind(used, i)
      BY <1>3, <3>2, SpanBounds
    <3>4. ranges' = ranges_sub(ranges, First(used, i), Behind(used, i))
      BY <1>3, <1>10, <2>3 DEF ExcludeRange, ranges
    <3>5. Addresses(ranges') = Addresses(ranges) \ (First(used, i) .. Behind(used, i) - 1)
      BY <1>1, <3>3, <3>4, RangesSubIsDifference
    <3>6. FirstRanges(used, i) =
            FirstRanges(used, i - 1) \cup (First(used, i) .. Behind(used, i) - 1)
      BY <1>3, <3>2, FirstRangesStep
    <3>7. /\ Addresses(ranges') = RamAfter(memmap, Len(memmap)) \ FirstRanges(used, i)
          /\ Addresses(ranges') \subseteq 0 .. Top - 1
      BY <3>1, <3>5, <3>6
    <3>8. i' - 1 = i /\ i' <= Count(used) + 1
      BY <1>3, <2>1, <3>2
    <3>9. QED
      BY <1>2, <2>1, <2>3, <3>7, <3>8 DEF ListRight, Building
  <2>4. QED
    BY <1>3, <2>2, <2>3
<1>11. CASE ExcludeDone
  <2>1. /\ pc = "exclude" /\ pc' = caller /\ caller' = caller /\ ranges' = ranges
        /\ i > Count(used)
    BY <1>11 DEF ExcludeDone, ranges
  <2>2. CASE caller = "wipe"
    BY <1>6, <2>1, <2>2
  <2>3. CASE caller = "test"
    <3>1. /\ i <= Count(used) + 1
          /\ Addresses(ranges) = RamAfter(memmap, Len(memmap)) \ FirstRanges(used, i - 1)
          /\ Addresses(ranges) \subseteq 0 .. Top - 1
      BY <1>3, <2>1, <2>3 DEF ListRight
    <3>2. i - 1 = Count(used)
      <4>1. Count(used) \in Nat
        BY <1>3, FirstRangesStep
      <4>2. QED
        BY <1>3, <2>1, <3>1, <4>1
    <3>3. FirstRanges(used, i - 1) = InUse
      BY <1>3, <2>1, <3>2, FirstRangesStep DEF UsedRight
    <3>4. Addresses(ranges) = Free
      BY <3>1, <3>3 DEF Free
    <3>5. QED
      BY <1>2, <2>1, <2>3, <3>1, <3>4 DEF ListRight, Building
  <2>4. QED
    BY <1>3, <2>2, <2>3
<1>12. CASE TestInit
  <2>1. pc = "ui"
    BY <1>12 DEF TestInit
  <2>2. CASE ranges = NoRanges
    <3>1. pc' = "map" /\ caller' = "test" /\ i' = 1 /\ ranges' = NoRanges
      BY <1>3, <1>12, <2>2 DEF TestInit, GetUnused, ranges
    <3>2. Addresses(ranges') = {} /\ RamAfter(memmap, 0) = {} /\ i' - 1 = 0 /\ 1 <= Len(memmap) + 1
      BY <1>4, <3>1, NoRangesEmpty, RamStart
    <3>3. QED
      BY <1>2, <3>1, <3>2 DEF ListRight, Building
  <2>3. CASE ranges # NoRanges
    <3>1. pc' = "test" /\ ranges' = ranges
      BY <1>12, <2>3 DEF TestInit, ranges
    <3>2. QED
      BY <1>6, <2>1, <3>1 DEF Building
  <2>4. QED
    BY <2>2, <2>3
<1>13. CASE CheckWipe \/ RamoopsInit \/ WipeDone
  <2>1. /\ ranges' = ranges /\ pc \in {"check_wipe", "init_funcs", "wipe"}
        /\ pc' \notin {"map", "exclude"} \/ (pc = "check_wipe" /\ caller' = "wipe")
    BY <1>3, <1>13 DEF CheckWipe, RamoopsInit, WipeDone, GetUnused, ranges
  <2>2. QED
    BY <1>6, <2>1 DEF Building
<1>14. CASE WipeRange \/ TestReset \/ TestAgain \/ WriteChunk \/ CheckChunk \/ CheckFails
  <2>1. /\ ranges' = ranges /\ pc \in {"wipe", "ui", "test", "run"}
        /\ pc' \notin {"map", "exclude"}
    BY <1>14 DEF WipeRange, TestReset, TestAgain, Step, WriteChunk, CheckChunk, CheckFails, ranges
  <2>2. QED
    BY <1>6, <2>1 DEF Building
<1>15. CASE UNCHANGED vars
  BY <1>6, <1>15 DEF vars, ranges
<1>16. QED
  BY <1>7, <1>8, <1>9, <1>10, <1>11, <1>12, <1>13, <1>14, <1>15 DEF Next
(* The test itself: its place, what it has written and what it has said.     *)
TestOnly == PlaceType /\ NothingTested /\ WrittenIsListed /\ Running /\ Over

(* The steps that are not the test's.                                        *)
LEMMA QuietStep ==
  ASSUME TestInv, [Next]_vars,
         UNCHANGED vars \/ RamoopsInit \/ CheckWipe \/ MapRange \/ MapFails \/ MapDone
           \/ ExcludeRange \/ ExcludeDone \/ WipeRange \/ WipeDone \/ TestAgain
  PROVE  TestOnly'
<1>1. test' = test /\ mem' = mem /\ bad' = bad
  BY DEF RamoopsInit, CheckWipe, MapRange, MapFails, MapDone, ExcludeRange, ExcludeDone, WipeRange,
     WipeDone, TestAgain, vars
<1>2. /\ caller \in {"wipe", "test"} /\ DOMAIN unused = {"wipe", "test"}
      /\ PlaceType /\ NothingTested /\ WrittenIsListed /\ Running /\ Over
  BY DEF TestInv, WipeInv, TypeOK
<1>3. CASE TestAgain \/ UNCHANGED vars
  <2>1. /\ ranges' = ranges /\ caller' = caller
        /\ (pc = "ui" /\ pc' = "run" /\ test.is_running) \/ pc' = pc
    BY <1>3 DEF TestAgain, vars, ranges
  <2>2. PlaceType'
    BY <1>1, <1>2, <2>1 DEF PlaceType, Building
  <2>3. NothingTested'
    BY <1>1, <1>2, <2>1 DEF NothingTested, Building, Fresh
  <2>4. WrittenIsListed'
    BY <1>1, <1>2, <2>1 DEF WrittenIsListed
  <2>5. Running'
    BY <1>1, <1>2, <2>1 DEF Running, Rounds, Below, RangeEnd
  <2>6. Over'
    BY <1>1, <1>2, <2>1 DEF Over, VerdictRight, Total
  <2>7. QED
    BY <2>2, <2>3, <2>4, <2>5, <2>6 DEF TestOnly
<1>4. CASE ~(TestAgain \/ UNCHANGED vars)
  <2>1. pc \notin {"ui", "test", "run"}
    BY <1>4 DEF RamoopsInit, CheckWipe, MapRange, MapFails, MapDone, ExcludeRange, ExcludeDone,
       WipeRange, WipeDone
  <2>2. Fresh
    BY <1>2, <2>1 DEF NothingTested
  <2>3. Fresh'
    BY <1>1, <2>2 DEF Fresh
  <2>4. /\ pc' # "run"
        /\ Building' \/ pc' = "test" => Building
        /\ pc' \notin {"ui", "test", "run"} /\ ~Building' => ~Building /\ ranges' = ranges
    BY <1>2, <1>4 DEF RamoopsInit, CheckWipe, MapRange, MapFails, MapDone, ExcludeRange,
       ExcludeDone, WipeRange, WipeDone, GetUnused, Building, ranges
  <2>5. PlaceType'
    BY <1>1, <1>2, <2>4 DEF PlaceType
  <2>6. NothingTested'
    BY <1>2, <2>1, <2>3, <2>4 DEF NothingTested
  <2>7. WrittenIsListed' /\ Running' /\ Over'
    <3>1. \A a \in DOMAIN mem : mem[a] = 0
      BY <2>2 DEF Fresh
    <3>2. test.is_running = FALSE /\ test.verdict = "none"
      BY <2>2 DEF Fresh
    <3>3. QED
      BY <1>1, <3>1, <3>2 DEF WrittenIsListed, Running, Over, VerdictRight
  <2>8. QED
    BY <2>5, <2>6, <2>7 DEF TestOnly
<1>5. QED
  BY <1>3, <1>4

(* memory_test_init and reset_memory_test.                                   *)
LEMMA StartStep ==
  ASSUME TestInv, TestInit \/ TestReset
  PROVE  TestOnly'
<1>1. /\ mem' = mem /\ bad' = bad /\ IsRanges(ranges)
      /\ DOMAIN unused = {"wipe", "test"} /\ PlaceType /\ NothingTested /\ WrittenIsListed
  BY DEF TestInit, TestReset, TestInv, WipeInv, TypeOK
<1>2. DOMAIN test = {"is_running", "patterns", "pattern", "op", "range_cur", "chunk_st",
                     "processed", "verdict", "error"}
  BY <1>1 DEF PlaceType, NoPlace
<1>3. CASE TestInit
  <2>1. PICK n \in {1, 2} : test' = [test EXCEPT !.patterns = n]
    BY <1>3 DEF TestInit
  <2>2. /\ DOMAIN test' = DOMAIN test /\ test'.patterns = n /\ test'.is_running = test.is_running
        /\ test'.verdict = test.verdict
    BY <1>2, <2>1
  <2>3. pc = "ui" /\ pc' \in {"map", "test"}
    BY <1>3 DEF TestInit, GetUnused
  <2>4. PlaceType'
    BY <1>1, <2>2 DEF PlaceType
  <2>5. CASE ranges = NoRanges
    <3>1. pc' = "map" /\ caller' = "test" /\ ranges' = NoRanges
      BY <1>1, <1>3, <2>5 DEF TestInit, GetUnused, ranges
    <3>2. Fresh
      BY <1>1, <2>5 DEF NothingTested
    <3>3. mem' = [a \in 0 .. Top - 1 |-> 0] /\ test'.is_running = FALSE /\ test'.verdict = "none"
      BY <1>1, <2>2, <3>2 DEF Fresh
    <3>4. NothingTested'
      BY <3>1, <3>3 DEF NothingTested, Building, Fresh
    <3>5. WrittenIsListed' /\ Running' /\ Over'
      BY <3>1, <3>3 DEF WrittenIsListed, Running, Over
    <3>6. QED
      BY <2>4, <3>4, <3>5 DEF TestOnly
  <2>6. CASE ranges # NoRanges
    <3>1. pc' = "test" /\ ranges' = ranges
      BY <1>3, <2>6 DEF TestInit, ranges
    <3>2. NothingTested' /\ WrittenIsListed' /\ Running' /\ Over'
      BY <1>1, <2>6, <3>1 DEF NothingTested, WrittenIsListed, Running, Over
    <3>3. QED
      BY <2>4, <3>2 DEF TestOnly
  <2>7. QED
    BY <2>5, <2>6
<1>4. CASE TestReset
  <2>1. pc = "test" /\ pc' = "run" /\ ranges # NoRanges /\ ranges' = ranges
    BY <1>4 DEF TestReset, ranges
  <2>2. /\ DOMAIN test' = DOMAIN test /\ test'.is_running = TRUE /\ test'.pattern = 1
        /\ test'.op = "write" /\ test'.processed = 0 /\ test'.verdict = "none"
        /\ test'.patterns = test.patterns /\ test'.range_cur = 1
        /\ test'.chunk_st = First(ranges, 1)
    BY <1>2, <1>4 DEF TestReset, AtRange
  <2>3. test.patterns \in Nat \ {0}
    BY <1>1, <2>1 DEF PlaceType
  <2>4. PlaceType' /\ NothingTested' /\ WrittenIsListed'
    BY <1>1, <2>1, <2>2 DEF PlaceType, NothingTested, WrittenIsListed, Building
  <2>5. Count(ranges) \in Nat /\ 1 \in 1 .. Count(ranges)
    <3>1. ranges \in Seq(Nat) /\ Len(ranges) \in Nat /\ Len(ranges) % 2 = 0 /\ Len(ranges) # 0
      BY <1>1, <2>1 DEF IsRanges, NoRanges
    <3>2. QED
      BY <3>1 DEF Count
  <2>6. First(ranges, 1) \in First(ranges, 1) .. Behind(ranges, 1) - 1
    BY <1>1, <2>5, SpanBounds
  <2>7. Below(First(ranges, 1)) = {}
    BY <1>1, <2>5, BelowSteps
  <2>8. Below(test.chunk_st)' = {} /\ RangeEnd' = Behind(ranges, 1)
    BY <2>1, <2>2, <2>7 DEF Below, RangeEnd
  <2>9. test'.processed = Rounds(test') * Cardinality(Addresses(ranges)) + Cardinality({})
    <3>1. Rounds(test') = 0
      BY <2>2 DEF Rounds
    <3>2. Cardinality(Addresses(ranges)) \in Nat /\ Cardinality({}) = 0
      BY <1>1, BelowCount, FS_EmptySet DEF TestInv, ListRight
    <3>3. QED
      BY <2>2, <3>1, <3>2
  <2>10. \A c \in bad : ~(c[1] < 1)
    <3>1. bad \subseteq (Nat \ {0}) \X Nat
      BY <1>1, MemoryAssumption DEF MemoryAssumption, PlaceType
    <3>2. \A c \in bad : c[1] \in Nat \ {0}
      BY <3>1
    <3>3. QED
      BY <3>2
  <2>11. Running'
    <3>1. test'.pattern \in 1 .. test'.patterns /\ test'.patterns \in Nat
      BY <2>2, <2>3
    <3>2. test'.range_cur \in 1 .. Count(ranges)'
      BY <2>1, <2>2, <2>5
    <3>3. test'.chunk_st \in First(ranges', test'.range_cur) .. RangeEnd' - 1
      BY <2>1, <2>2, <2>6, <2>8
    <3>4. \A a \in Below(test.chunk_st)' : mem'[a] = test'.pattern
      BY <2>8
    <3>5. \A c \in bad' : c[1] < test'.pattern => c[2] \notin Addresses(ranges')
      BY <1>1, <2>2, <2>10
    <3>6. test'.processed = Rounds(test') * Cardinality(Addresses(ranges'))
                              + Cardinality(Below(test.chunk_st)')
      BY <2>1, <2>8, <2>9
    <3>7. test'.verdict = "none" /\ test'.op = "write" /\ test'.op # "read"
      BY <2>2
    <3>8. QED
      BY <3>1, <3>2, <3>3, <3>4, <3>5, <3>6, <3>7 DEF Running
  <2>12. QED
    BY <2>1, <2>4, <2>11 DEF TestOnly, Over
<1>5. QED
  BY <1>3, <1>4
(* What the chunk that the next call does adds to the count.                 *)
LEMMA ChunkCounts ==
  ASSUME TestInv, pc = "run"
  PROVE  /\ Cardinality(Addresses(ranges)) \in Nat /\ Rounds(test) \in Nat
         /\ Cardinality(Below(ChunkEnd)) \in Nat
         /\ Processed = Rounds(test) * Cardinality(Addresses(ranges))
                          + Cardinality(Below(ChunkEnd))
<1>1. /\ test.range_cur \in 1 .. Count(ranges) /\ test.chunk_st \in Nat /\ ChunkEnd \in Nat
      /\ First(ranges, test.range_cur) <= test.chunk_st
      /\ test.chunk_st <= ChunkEnd /\ ChunkEnd <= Behind(ranges, test.range_cur)
      /\ test.is_running = TRUE /\ IsRanges(ranges)
  <2>1. PICK c \in Nat : c = test.chunk_st
    BY ChunkIs
  <2>2. PICK e \in Nat : e = ChunkEnd
    BY ChunkIs
  <2>3. /\ First(ranges, test.range_cur) <= c /\ c < e /\ e <= RangeEnd
        /\ test.range_cur \in 1 .. Count(ranges) /\ test.is_running = TRUE /\ IsRanges(ranges)
    BY <2>1, <2>2, ChunkIs
  <2>4. RangeEnd = Behind(ranges, test.range_cur) /\ c <= e
    BY <2>3 DEF RangeEnd
  <2>5. QED
    BY <2>1, <2>2, <2>3, <2>4
<1>2. Addresses(ranges) \subseteq 0 .. Top - 1
  BY DEF TestInv, ListRight
<1>3. /\ test.patterns \in Nat /\ test.pattern \in 1 .. test.patterns
      /\ test.processed = Rounds(test) * Cardinality(Addresses(ranges))
                            + Cardinality(Below(test.chunk_st))
  BY <1>1 DEF TestInv, Running
<1>4. Rounds(test) \in Nat
  BY <1>3 DEF Rounds
<1>5. PICK n \in Nat : n = Cardinality(Addresses(ranges))
  BY <1>1, <1>2, BelowCount
<1>6. PICK b \in Nat : b = Cardinality(Below(test.chunk_st))
  BY <1>1, <1>2, BelowCount
<1>7. Cardinality(Below(ChunkEnd)) = b + (ChunkEnd - test.chunk_st)
  BY <1>1, <1>2, <1>6, BelowCount
<1>8. PICK p \in Nat : p = Rounds(test) * n
  BY <1>4, <1>5
<1>9. Processed = (p + b) + (ChunkEnd - test.chunk_st)
  BY <1>3, <1>5, <1>6, <1>8 DEF Processed
<1>10. Processed = p + Cardinality(Below(ChunkEnd)) /\ Cardinality(Below(ChunkEnd)) \in Nat
  BY <1>1, <1>6, <1>7, <1>8, <1>9
<1>11. QED
  BY <1>4, <1>5, <1>8, <1>10

(* A chunk that was written, or that was read and is right.                  *)
LEMMA ChunkDone ==
  ASSUME TestInv, pc = "run", pc' = "ui", ranges' = ranges, bad' = bad,
         test' = go_next_chunk([test EXCEPT !.processed = Processed]),
         test.op = "write" => \A a \in Below(ChunkEnd) : mem'[a] = test.pattern,
         test.op # "write" => /\ mem' = mem
                              /\ \A a \in Below(ChunkEnd) : <<test.pattern, a>> \notin bad
  PROVE  DOMAIN test' = DOMAIN test /\ test'.is_running \in BOOLEAN /\ Running' /\ Over'
<1>1. /\ test.range_cur \in 1 .. Count(ranges) /\ Count(ranges) \in Nat
      /\ ChunkEnd \in Nat /\ RangeEnd \in Nat /\ ChunkEnd <= RangeEnd
      /\ First(ranges, test.range_cur) \in Nat /\ First(ranges, test.range_cur) <= ChunkEnd
      /\ test.is_running = TRUE /\ IsRanges(ranges)
  <2>1. PICK c \in Nat : c = test.chunk_st
    BY ChunkIs
  <2>2. /\ test.range_cur \in 1 .. Count(ranges) /\ Count(ranges) \in Nat
        /\ ChunkEnd \in Nat /\ RangeEnd \in Nat /\ ChunkEnd <= RangeEnd
        /\ First(ranges, test.range_cur) \in Nat /\ First(ranges, test.range_cur) <= c
        /\ c < ChunkEnd /\ test.is_running = TRUE /\ IsRanges(ranges)
    BY <2>1, ChunkIs
  <2>3. QED
    BY <2>2
<1>2. /\ test.verdict = "none" /\ test.patterns \in Nat
      /\ test.pattern \in 1 .. test.patterns /\ test.op \in {"write", "read"}
      /\ test.op = "read" => \A a \in Addresses(ranges) : mem[a] = test.pattern
      /\ \A c \in bad : c[1] < test.pattern => c[2] \notin Addresses(ranges)
  BY <1>1 DEF TestInv, Running
<1>3. PICK N \in Nat : N = Cardinality(Addresses(ranges))
  BY ChunkCounts
<1>4. PICK R \in Nat : R = Rounds(test)
  BY ChunkCounts
<1>5. PICK m \in Nat : m = Cardinality(Below(ChunkEnd))
  BY ChunkCounts
<1>6. Processed = R * N + m
  BY <1>3, <1>4, <1>5, ChunkCounts
<1>7. bad \subseteq (Nat \ {0}) \X Nat
  BY MemoryAssumption DEF MemoryAssumption, TestInv, PlaceType
<1>8. Addresses(ranges') = Addresses(ranges)
  OBVIOUS
<1>9. DOMAIN test' = DOMAIN test /\ test'.patterns = test.patterns /\ test'.processed = R * N + m
  BY <1>6, NextPlace
<1>10. CASE /\ \/ /\ ChunkEnd < RangeEnd
                  /\ test'.chunk_st = ChunkEnd /\ test'.range_cur = test.range_cur
               \/ /\ ~(ChunkEnd < RangeEnd) /\ test.range_cur < Count(ranges)
                  /\ test'.range_cur = test.range_cur + 1
                  /\ test'.chunk_st = First(ranges, test.range_cur + 1)
            /\ test'.op = test.op /\ test'.pattern = test.pattern
            /\ test'.is_running = test.is_running /\ test'.verdict = test.verdict
  <2>1. /\ test'.range_cur \in 1 .. Count(ranges)
        /\ test'.chunk_st \in First(ranges, test'.range_cur) .. RangeEnd' - 1
        /\ Below(test'.chunk_st) = Below(ChunkEnd)
    <3>1. CASE ChunkEnd < RangeEnd
      <4>1. test'.chunk_st = ChunkEnd /\ test'.range_cur = test.range_cur /\ RangeEnd' = RangeEnd
        BY <1>10, <3>1 DEF RangeEnd
      <4>2. QED
        BY <1>1, <3>1, <4>1
    <3>2. CASE ~(ChunkEnd < RangeEnd)
      <4>1. PICK k \in 1 .. Count(ranges) : k = test.range_cur + 1
        BY <1>1, <1>10, <3>2
      <4>2. /\ test'.range_cur = k /\ test'.chunk_st = First(ranges, k)
            /\ RangeEnd' = Behind(ranges, k)
        BY <1>10, <3>2, <4>1 DEF RangeEnd
      <4>3. /\ First(ranges, k) \in Nat /\ Behind(ranges, k) \in Nat
            /\ First(ranges, k) < Behind(ranges, k)
        BY <1>1, SpanBounds
      <4>4. ChunkEnd = RangeEnd /\ test.range_cur < Count(ranges)
        BY <1>1, <1>10, <3>2
      <4>5. Below(First(ranges, k)) = Below(RangeEnd)
        BY <1>1, <4>1, <4>4, BelowSteps DEF RangeEnd
      <4>6. QED
        BY <4>2, <4>3, <4>4, <4>5
    <3>3. QED
      BY <3>1, <3>2
  <2>2. Below(test.chunk_st)' = Below(ChunkEnd)
    BY <2>1 DEF Below
  <2>3. Rounds(test') = R
    BY <1>4, <1>10 DEF Rounds
  <2>4. test'.processed = Rounds(test') * Cardinality(Addresses(ranges'))
                            + Cardinality(Below(test.chunk_st)')
    BY <1>3, <1>5, <1>9, <2>2, <2>3
  <2>5. /\ test'.op = "write" => \A a \in Below(test.chunk_st)' : mem'[a] = test'.pattern
        /\ test'.op = "read" =>
             /\ \A a \in Addresses(ranges') : mem'[a] = test'.pattern
             /\ \A a \in Below(test.chunk_st)' : <<test'.pattern, a>> \notin bad'
    BY <1>2, <1>10, <2>2
  <2>6. \A c \in bad' : c[1] < test'.pattern => c[2] \notin Addresses(ranges')
    BY <1>2, <1>10
  <2>7. /\ test'.verdict = "none" /\ test'.patterns \in Nat /\ test'.is_running = TRUE
        /\ test'.pattern \in 1 .. test'.patterns /\ test'.op \in {"write", "read"}
    BY <1>1, <1>2, <1>9, <1>10
  <2>8. Running'
    BY <2>1, <2>4, <2>5, <2>6, <2>7 DEF Running
  <2>9. Over'
    BY <2>7 DEF Over, VerdictRight
  <2>10. QED
    BY <1>9, <2>7, <2>8, <2>9
<1>11. ASSUME ~(ChunkEnd < RangeEnd), ~(test.range_cur < Count(ranges))
       PROVE  /\ Below(ChunkEnd) = Addresses(ranges) /\ test'.processed = R * N + N
              /\ 1 \in 1 .. Count(ranges)
              /\ First(ranges, 1) \in First(ranges, 1) .. Behind(ranges, 1) - 1
              /\ Below(First(ranges, 1)) = {}
  <2>1. ChunkEnd = RangeEnd /\ test.range_cur = Count(ranges) /\ 1 \in 1 .. Count(ranges)
    BY <1>1, <1>11
  <2>2. Below(ChunkEnd) = Addresses(ranges)
    BY <1>1, <2>1, BelowSteps DEF RangeEnd
  <2>3. First(ranges, 1) \in First(ranges, 1) .. Behind(ranges, 1) - 1
    BY <1>1, <2>1, SpanBounds
  <2>4. Below(First(ranges, 1)) = {}
    BY <1>1, <2>1, BelowSteps
  <2>5. QED
    BY <1>3, <1>5, <1>9, <2>1, <2>2, <2>3, <2>4
<1>12. CASE /\ ~(ChunkEnd < RangeEnd) /\ ~(test.range_cur < Count(ranges))
            /\ test'.range_cur = 1 /\ test'.chunk_st = First(ranges, 1)
            /\ \/ test.op = "write" /\ test'.op = "read" /\ test'.pattern = test.pattern
               \/ /\ test.op # "write" /\ test.pattern < test.patterns
                  /\ test'.op = "write" /\ test'.pattern = test.pattern + 1
            /\ test'.is_running = test.is_running /\ test'.verdict = test.verdict
  <2>1. /\ Below(ChunkEnd) = Addresses(ranges) /\ test'.processed = R * N + N
        /\ test'.range_cur \in 1 .. Count(ranges)
        /\ RangeEnd' = Behind(ranges, 1)
        /\ test'.chunk_st \in First(ranges, test'.range_cur) .. RangeEnd' - 1
        /\ Below(test.chunk_st)' = {}
    BY <1>11, <1>12 DEF Below, RangeEnd
  <2>2. Rounds(test') = R + 1
    <3>1. CASE test.op = "write"
      BY <1>2, <1>4, <1>12, <3>1 DEF Rounds
    <3>2. CASE test.op # "write"
      <4>1. test.op = "read" /\ test'.op = "write"
        BY <1>2, <1>12, <3>2
      <4>2. R = 2 * (test.pattern - 1) + 1 /\ Rounds(test') = 2 * ((test.pattern + 1) - 1) + 0
        BY <1>4, <1>12, <4>1 DEF Rounds
      <4>3. QED
        BY <1>2, <4>2
    <3>3. QED
      BY <3>1, <3>2
  <2>3. test'.processed = Rounds(test') * Cardinality(Addresses(ranges'))
                            + Cardinality(Below(test.chunk_st)')
    <3>1. Cardinality(Below(test.chunk_st)') = 0
      BY <2>1, FS_EmptySet
    <3>2. R * N + N = (R + 1) * N + 0
      OBVIOUS
    <3>3. QED
      BY <1>3, <2>1, <2>2, <3>1, <3>2
  <2>4. /\ test'.op = "write" => \A a \in Below(test.chunk_st)' : mem'[a] = test'.pattern
        /\ test'.op = "read" =>
             /\ \A a \in Addresses(ranges') : mem'[a] = test'.pattern
             /\ \A a \in Below(test.chunk_st)' : <<test'.pattern, a>> \notin bad'
    BY <1>12, <2>1
  <2>5. ASSUME NEW c \in bad', c[1] < test'.pattern PROVE c[2] \notin Addresses(ranges')
    <3>1. c \in bad /\ c = <<c[1], c[2]>> /\ c[1] \in Nat
      BY <1>7, <2>5
    <3>2. CASE c[1] < test.pattern
      BY <1>2, <3>1, <3>2
    <3>3. CASE ~(c[1] < test.pattern)
      <4>1. test.op # "write" /\ c[1] = test.pattern
        BY <1>2, <1>12, <2>5, <3>1, <3>3
      <4>2. QED
        BY <2>1, <3>1, <4>1
    <3>4. QED
      BY <3>2, <3>3
  <2>6. /\ test'.verdict = "none" /\ test'.patterns \in Nat /\ test'.is_running = TRUE
        /\ test'.pattern \in 1 .. test'.patterns /\ test'.op \in {"write", "read"}
    BY <1>1, <1>2, <1>9, <1>12
  <2>7. Running'
    BY <2>1, <2>3, <2>4, <2>5, <2>6 DEF Running
  <2>8. Over'
    BY <2>6 DEF Over, VerdictRight
  <2>9. QED
    BY <1>9, <2>6, <2>7, <2>8
<1>13. CASE /\ ~(ChunkEnd < RangeEnd) /\ ~(test.range_cur < Count(ranges))
            /\ test.op # "write" /\ ~(test.pattern < test.patterns)
            /\ test'.is_running = FALSE /\ test'.verdict = "passed"
  <2>1. test.op = "read" /\ test.pattern = test.patterns
    BY <1>2, <1>13
  <2>2. Below(ChunkEnd) = Addresses(ranges) /\ test'.processed = R * N + N
    BY <1>11, <1>13
  <2>3. R = 2 * (test.patterns - 1) + 1
    BY <1>4, <2>1 DEF Rounds
  <2>4. test'.processed = Total'
    <3>1. PICK p \in Nat : p = test.patterns
      BY <1>2
    <3>2. (2 * (p - 1) + 1) * N + N = p * 2 * N
      OBVIOUS
    <3>3. Total' = p * 2 * N
      BY <1>3, <1>9, <3>1 DEF Total
    <3>4. QED
      BY <2>2, <2>3, <3>1, <3>2, <3>3
  <2>5. ASSUME NEW c \in bad' PROVE ~(c[1] <= test'.patterns /\ c[2] \in Addresses(ranges'))
    <3>1. c \in bad /\ c = <<c[1], c[2]>> /\ c[1] \in Nat
      BY <1>7, <2>5
    <3>2. CASE c[1] < test.pattern
      BY <1>2, <3>1, <3>2
    <3>3. CASE c[1] = test.pattern
      BY <1>13, <2>2, <3>1, <3>3
    <3>4. CASE c[1] > test.pattern
      BY <1>2, <1>9, <2>1, <3>1, <3>4
    <3>5. QED
      BY <1>2, <3>1, <3>2, <3>3, <3>4
  <2>6. QED
    BY <1>9, <1>13, <2>4, <2>5 DEF Running, Over, VerdictRight
<1>14. QED
  BY <1>10, <1>12, <1>13, NextPlace
(* memory_test_run: the chunk is written, read, or found to be wrong.        *)
LEMMA ChunkStep ==
  ASSUME TestInv, WriteChunk \/ CheckChunk \/ CheckFails
  PROVE  TestOnly'
<1>1. /\ pc = "run" /\ pc' = "ui" /\ ranges' = ranges /\ bad' = bad /\ caller' = caller
      /\ test.is_running
  BY DEF WriteChunk, CheckChunk, CheckFails, Step, ranges
<1>2. PlaceType /\ WrittenIsListed /\ IsRanges(ranges)
  BY DEF TestInv, WipeInv, TypeOK
<1>3. /\ Touched(test.chunk_st, ChunkEnd) = test.chunk_st .. ChunkEnd - 1
      /\ test.chunk_st .. ChunkEnd - 1 \subseteq Addresses(ranges)
      /\ Below(ChunkEnd) = Below(test.chunk_st) \cup (test.chunk_st .. ChunkEnd - 1)
      /\ test.chunk_st \in Nat /\ ChunkEnd \in Nat /\ test.range_cur \in 1 .. Count(ranges)
  BY <1>1, ChunkIs
<1>4. ranges # NoRanges
  <2>1. Count(NoRanges) = 0
    BY DEF Count, NoRanges
  <2>2. QED
    BY <1>3, <2>1
<1>5. NothingTested'
  BY <1>1, <1>4 DEF NothingTested
<1>6. Addresses(ranges) \subseteq 0 .. Top - 1 /\ DOMAIN mem = 0 .. Top - 1
  BY <1>2 DEF TestInv, ListRight, PlaceType
<1>7. /\ test.verdict = "none" /\ test.patterns \in Nat
      /\ test.pattern \in 1 .. test.patterns /\ test.op \in {"write", "read"}
      /\ test.op = "write" => \A a \in Below(test.chunk_st) : mem[a] = test.pattern
      /\ test.op = "read" =>
           /\ \A a \in Addresses(ranges) : mem[a] = test.pattern
           /\ \A a \in Below(test.chunk_st) : <<test.pattern, a>> \notin bad
  BY <1>1, <1>2 DEF TestInv, PlaceType, Running
<1>8. ASSUME DOMAIN test' = DOMAIN test, test'.is_running \in BOOLEAN, DOMAIN mem' = DOMAIN mem
      PROVE  PlaceType'
  BY <1>1, <1>2, <1>8 DEF PlaceType, Building
<1>9. CASE WriteChunk
  <2>1. /\ test.op = "write"
        /\ mem' = [a \in DOMAIN mem |-> IF a \in Touched(test.chunk_st, ChunkEnd)
                                        THEN test.pattern ELSE mem[a]]
        /\ test' = go_next_chunk([test EXCEPT !.processed = Processed])
    BY <1>9 DEF WriteChunk
  <2>2. \A a \in Below(ChunkEnd) : mem'[a] = test.pattern
    <3>1. Below(ChunkEnd) \subseteq DOMAIN mem
      BY <1>6 DEF Below
    <3>2. QED
      BY <1>3, <1>7, <2>1, <3>1
  <2>3. /\ DOMAIN test' = DOMAIN test /\ test'.is_running \in BOOLEAN
        /\ Running' /\ Over'
    BY <1>1, <2>1, <2>2, ChunkDone
  <2>4. WrittenIsListed'
    BY <1>1, <1>2, <1>3, <2>1 DEF WrittenIsListed
  <2>5. DOMAIN mem' = DOMAIN mem
    BY <2>1
  <2>6. QED
    BY <1>5, <1>8, <2>3, <2>4, <2>5 DEF TestOnly
<1>10. CASE CheckChunk
  <2>1. /\ test.op = "read" /\ mem' = mem /\ WrongSegments = {}
        /\ test' = go_next_chunk([test EXCEPT !.processed = Processed])
    BY <1>10 DEF CheckChunk
  <2>2. ASSUME NEW a \in test.chunk_st .. ChunkEnd - 1 PROVE <<test.pattern, a>> \notin bad
    <3>1. PICK seg \in Segments(test.chunk_st, ChunkEnd) : a \in Cells(seg)
      BY <1>3 DEF Touched
    <3>2. PICK pos \in 0 .. seg.size - 1 : a = Phys(seg, pos)
      BY <3>1 DEF Cells
    <3>3. Wrong(seg) = {}
      BY <2>1 DEF WrongSegments
    <3>4. ~Differs(seg, pos)
      BY <3>3 DEF Wrong
    <3>5. QED
      BY <3>2, <3>4 DEF Differs
  <2>3. \A a \in Below(ChunkEnd) : <<test.pattern, a>> \notin bad
    BY <1>3, <1>7, <2>1, <2>2
  <2>4. /\ DOMAIN test' = DOMAIN test /\ test'.is_running \in BOOLEAN
        /\ Running' /\ Over'
    BY <1>1, <2>1, <2>3, ChunkDone
  <2>5. WrittenIsListed'
    BY <1>1, <1>2, <2>1 DEF WrittenIsListed
  <2>6. QED
    BY <1>5, <1>8, <2>1, <2>4, <2>5 DEF TestOnly
<1>11. CASE CheckFails
  <2>1. test.op = "read" /\ mem' = mem
    BY <1>11 DEF CheckFails
  <2>2. PICK seg \in WrongSegments :
          test' = [test EXCEPT
            !.processed = Processed, !.is_running = FALSE, !.verdict = "failed",
            !.error = [st |-> seg.at, ed |-> seg.at + seg.size,
                       at |-> seg.at + ErrorOffset(seg)]]
    BY <1>11 DEF CheckFails
  <2>3. DOMAIN test = {"is_running", "patterns", "pattern", "op", "range_cur", "chunk_st",
                       "processed", "verdict", "error"}
    BY <1>2 DEF PlaceType, NoPlace
  <2>4. /\ DOMAIN test' = DOMAIN test /\ test'.is_running = FALSE /\ test'.verdict = "failed"
        /\ test'.pattern = test.pattern
        /\ test'.error.st = seg.at /\ test'.error.ed = seg.at + seg.size
    BY <2>2, <2>3
  <2>5. seg \in Segments(test.chunk_st, ChunkEnd) /\ Wrong(seg) # {}
    BY DEF WrongSegments
  <2>6. PICK pos \in 0 .. seg.size - 1 : Differs(seg, pos)
    BY <2>5 DEF Wrong
  <2>7. /\ seg.at \in Nat /\ seg.size \in Int /\ pos \in Int
        /\ Phys(seg, pos) = seg.at + pos
    BY <1>3, <2>5, SegmentIs
  <2>8. Phys(seg, pos) \in Touched(test.chunk_st, ChunkEnd)
    BY <2>5 DEF Touched, Cells
  <2>9. mem[Phys(seg, pos)] = test.pattern
    BY <1>3, <1>7, <2>1, <2>8
  <2>10. <<test.pattern, Phys(seg, pos)>> \in bad
    BY <2>6, <2>9 DEF Differs
  <2>11. Phys(seg, pos) \in test'.error.st .. test'.error.ed - 1
    BY <2>4, <2>7
  <2>12. \E a \in test'.error.st .. test'.error.ed - 1 : <<test'.pattern, a>> \in bad'
    BY <1>1, <2>4, <2>10, <2>11
  <2>13. Over'
    BY <2>4, <2>12 DEF Over, VerdictRight
  <2>14. Running'
    BY <2>4 DEF Running
  <2>15. WrittenIsListed'
    BY <1>1, <1>2, <2>1 DEF WrittenIsListed
  <2>16. QED
    BY <1>5, <1>8, <2>1, <2>4, <2>13, <2>14, <2>15 DEF TestOnly
<1>12. QED
  BY <1>9, <1>10, <1>11

LEMMA TestStep ==
  ASSUME TestInv, [Next]_vars
  PROVE  TestInv'
<1>1. WipeInv' /\ ListRight'
  BY WipeStep, ListStep DEF TestInv
<1>2. TestOnly'
  BY QuietStep, StartStep, ChunkStep DEF Next
<1>3. QED
  BY <1>1, <1>2 DEF TestInv, TestOnly

LEMMA TestBegins ==
  ASSUME Init
  PROVE  TestInv
<1>1. WipeInv
  BY WipeInit
<1>2. /\ pc = "init_funcs" /\ mem = [a \in 0 .. Top - 1 |-> 0] /\ test = NoPlace
      /\ ranges = NoRanges /\ bad \in Faults
  BY DEF Init, ranges
<1>3. test.is_running = FALSE /\ test.verdict = "none" /\ DOMAIN test = DOMAIN NoPlace
  BY <1>2 DEF NoPlace
<1>4. ListRight
  <2>1. Addresses(ranges) = {}
    BY <1>2, NoRangesEmpty
  <2>2. QED
    BY <1>2, <2>1 DEF ListRight
<1>5. PlaceType
  BY <1>2, <1>3 DEF PlaceType, Building
<1>6. NothingTested /\ WrittenIsListed /\ Running /\ Over
  BY <1>2, <1>3 DEF NothingTested, Fresh, WrittenIsListed, Running, Over
<1>7. QED
  BY <1>1, <1>4, <1>5, <1>6 DEF TestInv

LEMMA TestInvariant == Spec => []TestInv
BY TestBegins, TestStep, PTL DEF Spec

(* A test that passed had no cell, of those it has to test, that loses one   *)
(* of the patterns; one that failed found such a cell in the segment that it *)
(* reports (memory_test_run; Memory.VerdictRight).                           *)
THEOREM VerdictIsRight == Spec => []VerdictRight
<1>1. TestInv => VerdictRight
  BY DEF TestInv, Over, VerdictRight
<1>2. QED
  BY <1>1, TestInvariant, PTL

(* The count of bytes done stays below the total until the last chunk of the *)
(* last pattern was read, and is the total then (update_progress;            *)
(* Memory.ProgressRight).                                                    *)
THEOREM ProgressIsRight == Spec => []ProgressRight
<1>1. ASSUME TestInv, pc = "ui", test.is_running PROVE test.processed < Total
  <2>1. /\ test.patterns \in Nat /\ test.pattern \in 1 .. test.patterns
        /\ test.range_cur \in 1 .. Count(ranges)
        /\ test.chunk_st \in First(ranges, test.range_cur) .. RangeEnd - 1
        /\ test.processed = Rounds(test) * Cardinality(Addresses(ranges))
                              + Cardinality(Below(test.chunk_st))
    BY <1>1 DEF TestInv, Running
  <2>2. IsRanges(ranges) /\ Addresses(ranges) \subseteq 0 .. Top - 1
    BY <1>1 DEF TestInv, WipeInv, TypeOK, ListRight
  <2>3. /\ IsFiniteSet(Addresses(ranges)) /\ Cardinality(Addresses(ranges)) \in Nat
        /\ Cardinality(Below(test.chunk_st)) \in Nat
    BY <2>2, BelowCount
  <2>4. test.chunk_st \in Addresses(ranges) /\ test.chunk_st \in Nat
    <3>1. test.chunk_st \in Addresses(ranges)
      BY <2>1 DEF Addresses, Span, RangeEnd
    <3>2. QED
      BY <2>2, <3>1, AddressesNatural
  <2>5. test.chunk_st \notin Below(test.chunk_st)
    BY <2>4 DEF Below
  <2>6. Below(test.chunk_st) \in SUBSET Addresses(ranges)
        /\ Below(test.chunk_st) # Addresses(ranges)
    BY <2>4, <2>5 DEF Below
  <2>7. Cardinality(Below(test.chunk_st)) < Cardinality(Addresses(ranges))
    BY <2>3, <2>6, FS_Subset
  <2>8. PICK n \in Nat : n = Cardinality(Addresses(ranges))
    BY <2>3
  <2>9. PICK b \in Nat : b = Cardinality(Below(test.chunk_st))
    BY <2>3
  <2>10. PICK r \in Nat : r = Rounds(test) /\ r + 1 <= test.patterns * 2
    BY <2>1 DEF Rounds
  <2>11. PICK d \in Nat : test.patterns * 2 = (r + 1) + d
    <3>1. PICK p \in Nat : p = test.patterns * 2
      BY <2>1
    <3>2. p - (r + 1) \in Nat /\ p = (r + 1) + (p - (r + 1))
      BY <2>10, <3>1
    <3>3. QED
      BY <3>1, <3>2
  <2>12. Total = ((r + 1) + d) * n
    BY <2>8, <2>11 DEF Total
  <2>13. PICK rn \in Nat : rn = r * n
    OBVIOUS
  <2>14. PICK dn \in Nat : dn = d * n
    OBVIOUS
  <2>15. ((r + 1) + d) * n = r * n + n + d * n
    OBVIOUS
  <2>16. test.processed = rn + b /\ Total = rn + n + dn
    BY <2>1, <2>8, <2>9, <2>10, <2>12, <2>13, <2>14, <2>15
  <2>17. b < n
    BY <2>7, <2>8, <2>9
  <2>18. QED
    BY <2>16, <2>17
<1>2. TestInv => ProgressRight
  BY <1>1 DEF TestInv, Over, ProgressRight
<1>3. QED
  BY <1>2, TestInvariant, PTL

(* Whatever the map and however often the test is started, an address that   *)
(* it wrote to is free, unless the map has an entry of an unknown type       *)
(* (memory_test_init; Memory.TestsFreeMemory).                               *)
THEOREM TestsOnlyFreeMemory == Spec => []TestsFreeMemory
<1>1. ASSUME TestInv, Recognized, NEW a \in DOMAIN mem, mem[a] # 0 PROVE IsFree(a)
  <2>1. a \in Addresses(ranges)
    BY <1>1 DEF TestInv, WrittenIsListed
  <2>2. ~Fresh
    BY <1>1 DEF Fresh, TestInv, PlaceType
  <2>3. ranges # NoRanges /\ ~Building
    BY <1>1, <2>2 DEF TestInv, NothingTested, Building
  <2>4. Addresses(ranges) = Free
    BY <1>1, <2>3 DEF TestInv, ListRight
  <2>5. QED
    BY <2>1, <2>4 DEF IsFree, Free
<1>2. TestInv => TestsFreeMemory
  BY <1>1 DEF TestsFreeMemory
<1>3. QED
  BY <1>2, TestInvariant, PTL
===============================================================================
