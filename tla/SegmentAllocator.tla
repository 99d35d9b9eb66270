--------------------------- MODULE SegmentAllocator ---------------------------
(***************************************************************************)
(* segment_allocator: a device segment cut into holes and hunks.  The      *)
(* linked list of blocks is a sequence; a block knows where it begins, its *)
(* end is where the next one, or endpost_, begins.                         *)
(***************************************************************************)
EXTENDS Integers, Sequences, FiniteSets

Lists == INSTANCE SequencesExt

CONSTANTS
  SegBase,      \* address of the segment, for alignment
  SegSize,      \* its bytes
  SegRequests,  \* <<size, alignment>> the user may ask for
  SegLive       \* at most so many allocations are live in the run

ASSUME SegAssumption ==
  /\ SegBase \in Nat \ {0} /\ SegSize \in Nat \ {0} /\ SegLive \in Nat
  /\ SegRequests \subseteq Nat \X (Nat \ {0})

VARIABLES
  seg,      \* the two allocators of the run: "own", and "spare" to move to
  segHeld   \* what the user holds: [b, size, align], b relative to the segment

SegPage == 4096
SegLine == 64

Up(p, a) == ((p + a - 1) \div a) * a
MaxOf(a, b) == IF a > b THEN a ELSE b

NoSegment == [base |-> 0, endpost |-> 0, blocks |-> <<>>, holes |-> {}, hunks |-> {}]
NewSegment(base, size) ==
  IF size = 0 THEN [NoSegment EXCEPT !.base = base]
  ELSE [base |-> base, endpost |-> size, blocks |-> <<[b |-> 0, hole |-> TRUE]>>,
        holes |-> {<<size, 0>>}, hunks |-> {}]

SegInit == seg = [own |-> NewSegment(SegBase, SegSize), spare |-> NoSegment] /\ segHeld = {}

EndOf(s, i) == IF i = Len(s.blocks) THEN s.endpost ELSE s.blocks[i + 1].b
At(s, b)    == CHOOSE i \in DOMAIN s.blocks : s.blocks[i].b = b

\* Large requests take whole pages, medium ones whole lines.
RoundRequest(size, align) ==
  CASE size >= 2 * SegPage -> <<Up(size, SegPage), MaxOf(SegPage, align)>>
    [] size >= 2 * SegLine /\ size < 2 * SegPage -> <<Up(size, SegLine), MaxOf(SegLine, align)>>
    [] OTHER -> <<size, align>>

\* Best fit, the lowest among equals.
LowerBound(s, size) == {h \in s.holes : /\ h[1] >= size
                                         /\ \A g \in s.holes : g[1] >= size => h[1] < g[1] \/ (h[1] = g[1] /\ h[2] <= g[2])}
MBegin(s, b, align) == Up(s.base + b, align) - s.base
FitsIn(s, h, size, align) == MBegin(s, h[2], align) + size <= h[2] + h[1]

\* The hole the request goes to, if any: the best fit, or when alignment does not let it
\* fit there the best one that leaves room for any alignment.
HoleFor(s, size, align) ==
  LET tight == LowerBound(s, size)
      roomy == LowerBound(s, size + align - 1)
  IN  IF \E h \in tight : FitsIn(s, h, size, align) THEN tight
      ELSE IF align = 1 THEN {} ELSE {h \in roomy : FitsIn(s, h, size, align)}

\* A gap left of the hunk stays a hole unless it is small beside its neighbours: then
\* the hunk on the left grows over it.
Absorbed(s, i, gap) == i > 1 /\ gap < (EndOf(s, i) - s.blocks[i - 1].b) \div 16

Carve(s, h, size, align) ==
  LET i   == At(s, h[2])
      b   == MBegin(s, h[2], align)
      e   == b + size
      gap == b - h[2]
      kept == gap > 0 /\ ~Absorbed(s, i, gap)
      left  == IF kept THEN <<s.blocks[i]>> ELSE <<>>
      right == IF e < EndOf(s, i) THEN <<[b |-> e, hole |-> TRUE]>> ELSE <<>>
  IN  [s EXCEPT !.blocks = SubSeq(@, 1, i - 1) \o left \o <<[b |-> b, hole |-> FALSE]>> \o right
                             \o SubSeq(@, i + 1, Len(@)),
                !.holes = (@ \ {h}) \cup (IF kept THEN {<<gap, h[2]>>} ELSE {})
                                    \cup (IF e < EndOf(s, i) THEN {<<EndOf(s, i) - e, e>>} ELSE {}),
                !.hunks = @ \cup {b}]

SegAllocate(size, align) ==
  LET r == RoundRequest(size, align) IN
  /\ Cardinality(segHeld) < SegLive /\ size > 0
  /\ \E h \in HoleFor(seg.own, r[1], r[2]) :
       /\ seg' = [seg EXCEPT !.own = Carve(@, h, r[1], r[2])]
       /\ segHeld' = segHeld \cup {[b |-> MBegin(seg.own, h[2], r[2]), size |-> r[1], align |-> r[2]]}

\* Faulty variant: the hole on the left is not looked at.
FuseNothing(s, i) ==
  [s EXCEPT !.blocks[i].hole = TRUE, !.holes = @ \cup {<<EndOf(s, i) - s.blocks[i].b, s.blocks[i].b>>}]

\* The hunk becomes a hole, fused with a hole on its left, then with one on its right.
FuseLeft(s, i) ==
  IF i > 1 /\ s.blocks[i - 1].hole
  THEN LET lh == s.blocks[i - 1].b IN
       [s EXCEPT !.blocks = Lists!RemoveAt(@, i),
                 !.holes = (@ \ {<<s.blocks[i].b - lh, lh>>}) \cup {<<EndOf(s, i) - lh, lh>>}]
  ELSE [s EXCEPT !.blocks[i].hole = TRUE, !.holes = @ \cup {<<EndOf(s, i) - s.blocks[i].b, s.blocks[i].b>>}]
FuseRight(s, i) ==
  IF i < Len(s.blocks) /\ s.blocks[i + 1].hole
  THEN LET b == s.blocks[i].b
           rh == s.blocks[i + 1].b
           e  == EndOf(s, i + 1)
       IN  [s EXCEPT !.blocks = Lists!RemoveAt(@, i + 1),
                     !.holes = (@ \ {<<e - rh, rh>>, <<rh - b, b>>}) \cup {<<e - b, b>>}]
  ELSE s
SegDeallocate(a) ==
  /\ a \in segHeld /\ a.b \in seg.own.hunks
  /\ LET s  == [seg.own EXCEPT !.hunks = @ \ {a.b}]
         i  == At(s, a.b)
         fl == FuseLeft(s, i)
     IN  seg' = [seg EXCEPT !.own = FuseRight(fl, IF Len(fl.blocks) < Len(s.blocks) THEN i - 1 ELSE i)]
  /\ segHeld' = segHeld \ {a}

\* Move assignment, to an allocator that is asserted to be inactive, and its way back.
SegMove ==
  /\ seg.spare.base = 0 /\ seg.spare.endpost = 0
  /\ seg' = [own |-> NoSegment, spare |-> seg.own] /\ UNCHANGED segHeld
SegMoveBack ==
  /\ seg.own.base = 0 /\ seg.own.endpost = 0
  /\ seg' = [own |-> seg.spare, spare |-> NoSegment] /\ UNCHANGED segHeld

SegNext == \/ \E r \in SegRequests : SegAllocate(r[1], r[2])
           \/ \E a \in segHeld : SegDeallocate(a)
           \/ SegMove \/ SegMoveBack

SegSpec == SegInit /\ [][SegNext]_<<seg, segHeld>>

-----------------------------------------------------------------------------
\* The comment's two invariants: the blocks partition the segment and no hole borders on
\* another.  Both indexes agree with the list.  What the user holds lies within hunks of
\* its own, aligned in memory, one hunk each.
BlocksPartition(s) ==
  /\ s.endpost > 0 => s.blocks # <<>> /\ s.blocks[1].b = 0
  /\ \A i \in DOMAIN s.blocks : s.blocks[i].b < EndOf(s, i)
  /\ \A i \in 1..Len(s.blocks) - 1 : ~(s.blocks[i].hole /\ s.blocks[i + 1].hole)
IndexesAgree(s) ==
  /\ s.holes = {<<EndOf(s, i) - s.blocks[i].b, s.blocks[i].b>> : i \in {j \in DOMAIN s.blocks : s.blocks[j].hole}}
  /\ s.hunks = {s.blocks[i].b : i \in {j \in DOMAIN s.blocks : ~s.blocks[j].hole}}
HeldApart(s) ==
  /\ s.hunks = {a.b : a \in segHeld} /\ Cardinality(segHeld) = Cardinality(s.hunks)
  /\ \A a \in segHeld : a.b + a.size <= EndOf(s, At(s, a.b)) /\ (s.base + a.b) % a.align = 0
SegmentExact ==
  /\ \A k \in {"own", "spare"} : BlocksPartition(seg[k]) /\ IndexesAgree(seg[k])
  /\ HeldApart(IF seg.own.endpost > 0 THEN seg.own ELSE seg.spare)
===============================================================================
