---------------------------- MODULE Serialization ----------------------------
(***************************************************************************)
(* The wire format: storage bounds, the bounded and the unbounded writer   *)
(* with its chain of hunks, the reader that deserializes or skips, and     *)
(* what each kind of type does with them.                                  *)
(*                                                                         *)
(* A type is a record: triv (size, align), empty, fields or tuple (ts),    *)
(* array (t, n, c: a C array), seq (t, contiguous, and the policies that   *)
(* go before it: allocator, comparison, hash), flist (t, policies),        *)
(* view (t), user (ts, written by hand without a bound).  A value is a     *)
(* number, or the tuple of its parts.                                      *)
(***************************************************************************)
EXTENDS Integers, Sequences, SequencesExt

CONSTANTS
  SerMessages,       \* the messages of the run: sequences of <<type, value>>
  InitialCapacity    \* the bytes of the unbounded writer's first buffer

ASSUME SerAssumption == InitialCapacity \in Nat /\ InitialCapacity % 8 = 0 /\ InitialCapacity >= 24

VARIABLE ser

AlignMax   == 64      \* serialization_align_max
HunkSmall  == 512
HunkLarge  == 8192
HunkFooter == 24      \* sizeof(hunk_footer)
SizeRange  == 2^24    \* where size_t wraps, scaled down
SizeT      == [k |-> "triv", size |-> 8, align |-> 8]

Larger(a, b)   == IF a > b THEN a ELSE b
RoundUp(p, a)  == ((p + a - 1) \div a) * a
RoundDown(p, a) == (p \div a) * a
Indices(n)     == [i \in 1..n |-> i]

-----------------------------------------------------------------------------
(* storage_size: a size and an alignment, known statically, known when the  *)
(* value is, or not at all.                                                 *)
StorageSizeOf(size, align) == [size |-> size, align |-> align, kind |-> "static"]
EmptyStorage   == StorageSizeOf(0, 1)
InvalidStorage == [size |-> 0, align |-> 1, kind |-> "invalid"]

SizeAligned(s) == RoundUp(s.size, s.align)
Cat(s, t) ==
  [size  |-> RoundUp(s.size, t.align) + t.size,
   align |-> Larger(s.align, t.align),
   kind  |-> IF "invalid" \in {s.kind, t.kind} THEN "invalid"
             ELSE IF "dynamic" \in {s.kind, t.kind} THEN "dynamic" ELSE "static"]
Arrayed(s, n) ==
  [size  |-> IF n = 1 THEN s.size ELSE n * SizeAligned(s),
   align |-> IF n = 0 THEN 1 ELSE s.align,
   kind  |-> IF s.kind = "invalid" THEN "invalid" ELSE "dynamic"]
ArrayedStatically(s, n) == [Arrayed(s, n) EXCEPT !.kind = IF n = 0 THEN "static" ELSE s.kind]
StaticOtherwiseInvalid(s) == IF s.kind = "static" THEN s ELSE InvalidStorage

-----------------------------------------------------------------------------
(* serialization_traits.                                                    *)
Compound == {"fields", "tuple", "user"}

\* is_trivially_serializable: copied byte by byte.  Tuples and std::arrays are when
\* their parts are, C arrays and types with serialization of their own never.
RECURSIVE IsTrivial(_)
IsTrivial(T) == CASE T.k = "triv"  -> TRUE
                  [] T.k = "tuple" -> \A i \in DOMAIN T.ts : IsTrivial(T.ts[i])
                  [] T.k = "array" -> ~T.c /\ IsTrivial(T.t)
                  [] OTHER         -> FALSE

\* sizeof and alignof.
WithTail(s) == StorageSizeOf(SizeAligned(s), s.align)
RECURSIVE Layout(_)
Layout(T) ==
  CASE T.k = "triv"  -> StorageSizeOf(T.size, T.align)
    [] T.k = "tuple" -> WithTail(FoldLeft(LAMBDA s, t : Cat(s, Layout(t)), EmptyStorage, T.ts))
    [] T.k = "array" -> [Layout(T.t) EXCEPT !.size = T.n * @]

\* Some value of the type: what std::declval stands for in a static bound.
RECURSIVE Declval(_)
Declval(T) == IF T.k \in Compound THEN [i \in DOMAIN T.ts |-> Declval(T.ts[i])] ELSE <<>>

RECURSIVE Ubound(_, _, _)
StaticUbound(T) == StaticOtherwiseInvalid(Ubound(EmptyStorage, T, Declval(T)))

TrivialUbound(pre, T)   == Cat(pre, Layout(T))
FieldsUbound(pre, T, x) == FoldLeft(LAMBDA s, i : Ubound(s, T.ts[i], x[i]), pre, Indices(Len(T.ts)))
ArrayUbound(pre, T)     == Cat(pre, ArrayedStatically(StaticUbound(T.t), T.n))
SequenceUbound(pre, T, x) ==
  LET policies == FoldLeft(LAMBDA s, p : Ubound(s, p, Declval(p)), pre, T.policies)
  IN  Cat(TrivialUbound(policies, SizeT), Arrayed(StaticUbound(T.t), Len(x)))
ViewUbound(pre, T, x) ==
  IF IsTrivial(T.t) THEN Cat(TrivialUbound(pre, SizeT), Arrayed(Layout(T.t), Len(x))) ELSE InvalidStorage

Ubound(pre, T, x) == CASE IsTrivial(T)              -> TrivialUbound(pre, T)
                       [] T.k = "empty"             -> pre
                       [] T.k \in {"fields", "tuple"} -> FieldsUbound(pre, T, x)
                       [] T.k = "array"             -> ArrayUbound(pre, T)
                       [] T.k = "seq"               -> SequenceUbound(pre, T, x)
                       [] T.k = "view"              -> ViewUbound(pre, T, x)
                       [] OTHER                     -> InvalidStorage

-----------------------------------------------------------------------------
(* Writers.  cells are the values in the buffer, at their logical offset;   *)
(* spilled says that a write went past the end of the hunk.                 *)
BoundedWriter(capacity) ==
  [bounded |-> TRUE, size |-> 0, align |-> 1, edge |-> capacity, hunks |-> <<[size0 |-> 0, edge |-> capacity]>>,
   cells |-> <<>>, spilled |-> FALSE]
UnboundedWriter(capacity) ==
  [BoundedWriter(RoundDown(capacity, 8) - HunkFooter) EXCEPT !.bounded = FALSE]

\* Faulty variant: the increase is taken from the size as it is, not from the aligned place it starts at.
HunkSizeUnaligned(size0, size1) ==
  CASE size1 <= HunkLarge - HunkFooter /\ size1 - size0 <= HunkSmall - HunkFooter -> HunkSmall
    [] size1 - size0 <= HunkLarge - HunkFooter -> HunkLarge
    [] OTHER -> RoundUp(size1 - size0 + HunkFooter, HunkLarge)

\* A small hunk if all fits in a large one and the increase in a small one, a large one,
\* or as many large ones as it takes.
HunkSize(size0, size1) ==
  LET increase == size1 - RoundDown(size0, AlignMax) IN
  CASE size1 <= HunkLarge - HunkFooter /\ increase <= HunkSmall - HunkFooter -> HunkSmall
    [] increase <= HunkLarge - HunkFooter -> HunkLarge
    [] OTHER -> RoundUp(increase + HunkFooter, HunkLarge)
Grow(w, size0, size1) ==
  LET edge == RoundDown(size0, AlignMax) + HunkSize(size0, size1) - HunkFooter
  IN  [w EXCEPT !.edge = edge, !.hunks = Append(@, [size0 |-> size0, edge |-> edge])]

\* Objects of storage size s at the next aligned offset of the current hunk.
Store(w, s, xs) ==
  LET p == RoundUp(w.size, s.align) IN
  [w EXCEPT !.size = p + s.size * Len(xs), !.align = Larger(@, s.align),
            !.spilled = @ \/ p + s.size * Len(xs) > w.edge,
            !.cells = @ \o [i \in DOMAIN xs |-> [p |-> p + s.size * (i - 1), n |-> s.size, x |-> xs[i]]]]
\* place, in a new hunk when the object does not fit.
Place(w, s, xs) ==
  LET size0 == RoundUp(w.size, s.align)
      size1 == size0 + s.size * Len(xs)
  IN  Store(IF ~w.bounded /\ size1 > w.edge THEN Grow(w, size0, size1) ELSE w, s, xs)
\* No element, no alignment.
AlignedIfAny(s, n) == IF n = 0 THEN [s EXCEPT !.align = 1] ELSE s
WriteTrivial(w, T, x) == Place(w, Layout(T), <<x>>)
WriteCount(w, n)      == WriteTrivial(w, SizeT, n)

RECURSIVE Serialize(_, _, _)
EachElement(w, T, xs) == FoldLeft(LAMBDA v, x : Serialize(v, T, x), w, xs)

\* Elements that are known to fit.
WriteEltsBounded(w, T, xs, bulk) ==
  IF bulk THEN Store(w, AlignedIfAny(Layout(T), Len(xs)), xs)
          ELSE [EachElement([w EXCEPT !.bounded = TRUE], T, xs) EXCEPT !.bounded = FALSE]

\* With a static bound elt, as many elements as the hunk holds and a hunk for the rest.
Fitting(w, elt, n) ==
  LET eltSize == SizeAligned(elt)
      room    == (w.edge - RoundUp(w.size, elt.align)) % SizeRange
  IN  IF eltSize = 0 \/ room \div eltSize > n THEN n ELSE room \div eltSize
WriteRest(w, T, xs, bulk, elt) ==
  IF xs = <<>> THEN w
  ELSE WriteEltsBounded(Grow(w, w.size, w.size + Len(xs) * SizeAligned(elt)), T, xs, bulk)
WriteInTwo(w, T, xs, bulk, elt, n0) ==
  WriteRest(WriteEltsBounded(w, T, SubSeq(xs, 1, n0), bulk), T, SubSeq(xs, n0 + 1, Len(xs)), bulk, elt)
WriteSequenceUnbounded(w, T, xs, bulk, elt) ==
  IF elt.kind = "static" THEN WriteInTwo(w, T, xs, bulk, elt, Fitting(w, elt, Len(xs))) ELSE EachElement(w, T, xs)
\* Copied at once when the elements are trivial and the iterator is known to be contiguous.
Bulk(T, contiguous) == IsTrivial(T) /\ contiguous
WriteSequenceBounded(w, T, xs, bulk) ==
  IF bulk THEN Place(w, AlignedIfAny(Layout(T), Len(xs)), xs) ELSE EachElement(w, T, xs)
WriteSequence(w, T, xs, contiguous) ==
  IF w.bounded THEN WriteSequenceBounded(w, T, xs, Bulk(T, contiguous))
               ELSE WriteSequenceUnbounded(w, T, xs, Bulk(T, contiguous), StaticUbound(T))

\* A size_t is placed now and filled in later through its address.
Patch(w, at, n) == [w EXCEPT !.cells[at].x = n]

\* Can a T be skipped in constant time, or does a view put a length before it?
RECURSIVE SkipIsFast(_)
SkipIsFast(T) == CASE T.k \in {"triv", "empty", "view"} -> TRUE
                   [] T.k \in {"fields", "tuple"} -> \A i \in DOMAIN T.ts : SkipIsFast(T.ts[i])
                   [] T.k \in {"array", "seq", "flist"} -> StaticUbound(T.t).kind = "static"
                   [] OTHER -> FALSE

SerializeFields(w, T, x) == FoldLeft(LAMBDA v, i : Serialize(v, T.ts[i], x[i]), w, Indices(Len(T.ts)))
SerializeArray(w, T, x)  == WriteSequence(w, T.t, x, TRUE)
WritePolicies(w, T) == FoldLeft(LAMBDA v, p : Serialize(v, p, Declval(p)), w, T.policies)
SerializeSequence(w, T, x) == WriteSequence(WriteCount(WritePolicies(w, T), Len(x)), T.t, x, T.contiguous)
\* The number of elements of a forward_list is known when they are written.
CountBefore(spot, T, x) == Patch(EachElement(spot, T.t, x), Len(spot.cells), Len(x))
SerializeForwardList(w, T, x) == CountBefore(WriteCount(WritePolicies(w, T), 0), T, x)
\* The length of what was written after delta goes into delta.
LengthBefore(delta, done) == Patch(done, Len(delta.cells), done.size - delta.size)
ElementAfter(delta, T, x) == LengthBefore(delta, Serialize(delta, T, x))
SerializeViewElement(w, T, x) == IF SkipIsFast(T) THEN Serialize(w, T, x) ELSE ElementAfter(WriteCount(w, 0), T, x)
ElementsAfter(delta, T, x) ==
  LengthBefore(delta, FoldLeft(LAMBDA v, e : SerializeViewElement(v, T.t, e), WriteCount(delta, Len(x)), x))
SerializeView(w, T, x) ==
  IF IsTrivial(T.t) THEN WriteSequence(WriteCount(w, Len(x)), T.t, x, TRUE) ELSE ElementsAfter(WriteCount(w, 0), T, x)

Serialize(w, T, x) == CASE IsTrivial(T)     -> WriteTrivial(w, T, x)
                        [] T.k = "empty"    -> w
                        [] T.k \in Compound -> SerializeFields(w, T, x)
                        [] T.k = "array"    -> SerializeArray(w, T, x)
                        [] T.k = "seq"      -> SerializeSequence(w, T, x)
                        [] T.k = "flist"    -> SerializeForwardList(w, T, x)
                        [] T.k = "view"     -> SerializeView(w, T, x)

\* What reaches the buffer: of each hunk the bytes up to the next one's, or its own edge.
Compact(w) ==
  LET next(i) == IF i = Len(w.hunks) THEN w.size ELSE w.hunks[i + 1].size0
      End(i)  == IF next(i) < w.hunks[i].edge THEN next(i) ELSE w.hunks[i].edge
  IN  {c \in Range(w.cells) : \E i \in DOMAIN w.hunks : w.hunks[i].size0 <= c.p /\ c.p + c.n <= End(i)}
Buffer(w) == LET kept == IF w.bounded THEN Range(w.cells) ELSE Compact(w)
             IN  [p \in {c.p : c \in {d \in kept : d.n > 0}} |-> CHOOSE c \in kept : c.p = p /\ c.n > 0]

-----------------------------------------------------------------------------
(* The reader: from a buffer and an offset to the value and the next offset. *)
Taken(h, ok, x) == [h |-> h, ok |-> ok, x |-> x]
Unplace(h, s) == RoundUp(h, s.align) + s.size
ReadAt(buf, p, n) == LET ok == p \in DOMAIN buf /\ buf[p].n = n
                     IN  Taken(p + n, ok, IF ok THEN buf[p].x ELSE 0)
ReadPlaced(buf, h, s) == ReadAt(buf, RoundUp(h, s.align), s.size)
ReadTrivial(buf, h, T) == ReadPlaced(buf, h, Layout(T))
ReadCount(buf, h) == ReadTrivial(buf, h, SizeT)

RECURSIVE Deserialize(_, _, _)
RECURSIVE Skip(_, _, _)
\* Read n times, appending what is read.
Repeatedly(n, h, F(_, _)) ==
  FoldLeft(LAMBDA a, i : LET e == F(a.h, i) IN Taken(e.h, a.ok /\ e.ok, Append(a.x, e.x)),
           Taken(h, TRUE, <<>>), Indices(n))
ReadSequence(buf, h, T, n) == Repeatedly(n, h, LAMBDA g, i : Deserialize(buf, g, T))

\* One element to reach the steady state of the padding, the others in one jump when
\* the bound is static: "static bounds are exact".
Stride(T, elt) == Ubound(elt, T, Declval(T)).size - elt.size
SkipElements(buf, h, T, n, elt) ==
  IF elt.kind = "static" THEN Skip(buf, h, T) + (n - 1) * Stride(T, elt)
  ELSE FoldLeft(LAMBDA g, i : Skip(buf, g, T), h, Indices(n))
SkipSequence(buf, h, T, n) == IF n = 0 THEN h ELSE SkipElements(buf, h, T, n, StaticUbound(T))

DeserializeFields(buf, h, T) == Repeatedly(Len(T.ts), h, LAMBDA g, i : Deserialize(buf, g, T.ts[i]))
CountedSequence(buf, T, n) == LET all == ReadSequence(buf, n.h, T.t, n.x) IN [all EXCEPT !.ok = @ /\ n.ok]
DeserializeSequence(buf, h, T) ==
  CountedSequence(buf, T, ReadCount(buf, FoldLeft(LAMBDA g, p : Deserialize(buf, g, p).h, h, T.policies)))
SkipCounted(buf, T, n) == SkipSequence(buf, n.h, T.t, n.x)
SkipSequenceOf(buf, h, T) ==
  SkipCounted(buf, T, ReadCount(buf, FoldLeft(LAMBDA g, p : Skip(buf, g, p), h, T.policies)))
DeserializeForwardList(buf, h, T) == DeserializeSequence(buf, h, [T EXCEPT !.k = "seq"])

\* deserializing_iterator: * reads and stays, ++ skips.
Beyond(delta) == delta.h + delta.x
ElementAt(buf, h, T) == Deserialize(buf, IF SkipIsFast(T) THEN h ELSE ReadCount(buf, h).h, T)
NextElement(buf, h, T) == IF SkipIsFast(T) THEN Skip(buf, h, T) ELSE Beyond(ReadCount(buf, h))
\* A view refers to the buffer; its elements are read by whoever walks it, up to end_.
Walk(buf, T, n) ==
  Repeatedly(n.x, n.h, LAMBDA g, i : [ElementAt(buf, g, T) EXCEPT !.h = NextElement(buf, g, T)])
UpToEnd(delta, n, walk) ==
  Taken(Beyond(delta), walk.ok /\ delta.ok /\ n.ok /\ walk.h = Beyond(delta), walk.x)
ViewAfter(buf, T, delta, n) == UpToEnd(delta, n, Walk(buf, T, n))
DeserializeView(buf, h, T) ==
  IF IsTrivial(T.t) THEN CountedSequence(buf, T, ReadCount(buf, h))
  ELSE LET delta == ReadCount(buf, h) IN ViewAfter(buf, T.t, delta, ReadCount(buf, delta.h))
SkipBulk(n, s) == Unplace(n.h, [AlignedIfAny(s, n.x) EXCEPT !.size = n.x * @])
SkipView(buf, h, T) ==
  IF IsTrivial(T.t) THEN SkipBulk(ReadCount(buf, h), Layout(T.t)) ELSE Beyond(ReadCount(buf, h))

Deserialize(buf, h, T) == CASE IsTrivial(T)     -> ReadTrivial(buf, h, T)
                            [] T.k = "empty"    -> Taken(h, TRUE, <<>>)
                            [] T.k \in Compound -> DeserializeFields(buf, h, T)
                            [] T.k = "array"    -> ReadSequence(buf, h, T.t, T.n)
                            [] T.k = "seq"      -> DeserializeSequence(buf, h, T)
                            [] T.k = "flist"    -> DeserializeForwardList(buf, h, T)
                            [] T.k = "view"     -> DeserializeView(buf, h, T)
Skip(buf, h, T) == CASE IsTrivial(T)     -> Unplace(h, Layout(T))
                     [] T.k = "empty"    -> h
                     [] T.k \in {"fields", "tuple"} -> FoldLeft(LAMBDA g, t : Skip(buf, g, t), h, T.ts)
                     [] T.k = "array"    -> SkipSequence(buf, h, T.t, T.n)
                     [] T.k \in {"seq", "flist"} -> SkipSequenceOf(buf, h, T)
                     [] T.k = "view"     -> SkipView(buf, h, T)

\* Has the type a skip at all?  One written by hand has none.
RECURSIVE CanSkip(_)
CanSkip(T) == CASE T.k \in {"fields", "tuple"} -> \A i \in DOMAIN T.ts : CanSkip(T.ts[i])
                [] T.k \in {"array", "seq", "flist"} -> CanSkip(T.t)
                [] OTHER -> T.k # "user"

-----------------------------------------------------------------------------
(* A message: its parts are written one after another, and read or skipped  *)
(* in that order at the other end.                                          *)
SerInit == ser = [phase |-> "idle", msg |-> <<>>, w |-> BoundedWriter(0), starts |-> <<>>,
                  buf |-> <<>>, h |-> 0, next |-> 1, ok |-> TRUE]

MessageUbound(msg) == FoldLeft(LAMBDA s, p : Ubound(s, p[1], p[2]), EmptyStorage, msg)
\* The writer is bounded when the bound is known.
SerBegin(msg) ==
  /\ ser.phase = "idle"
  /\ LET ub == MessageUbound(msg) IN
     ser' = [ser EXCEPT !.phase = "write", !.msg = msg,
               !.w = IF ub.kind = "invalid" THEN UnboundedWriter(InitialCapacity) ELSE BoundedWriter(ub.size)]
SerWrite ==
  /\ ser.phase = "write" /\ ser.next <= Len(ser.msg)
  /\ ser' = [ser EXCEPT !.w = Serialize(@, ser.msg[ser.next][1], ser.msg[ser.next][2]),
                        !.starts = Append(@, ser.w.size), !.next = @ + 1]
SerSend ==
  /\ ser.phase = "write" /\ ser.next > Len(ser.msg)
  /\ ser' = [ser EXCEPT !.phase = "read", !.buf = Buffer(ser.w), !.next = 1]
SerRead ==
  /\ ser.phase = "read" /\ ser.next <= Len(ser.msg)
  /\ LET part == ser.msg[ser.next]
         got  == Deserialize(ser.buf, ser.h, part[1])
     IN  ser' = [ser EXCEPT !.h = got.h, !.next = @ + 1, !.ok = @ /\ got.ok /\ got.x = part[2]]
SerSkip ==
  /\ ser.phase = "read" /\ ser.next <= Len(ser.msg) /\ CanSkip(ser.msg[ser.next][1])
  /\ ser' = [ser EXCEPT !.h = Skip(ser.buf, ser.h, ser.msg[ser.next][1]), !.next = @ + 1]

SerNext == (\E msg \in SerMessages : SerBegin(msg)) \/ SerWrite \/ SerSend \/ SerRead \/ SerSkip

-----------------------------------------------------------------------------
\* No write goes past the hunk it is meant for, the bound computed before the message is
\* written is never exceeded, and whether a part is deserialized or skipped the reader
\* stands where the writer stood and has read what was written.
WireFormatExact ==
  /\ ~ser.w.spilled /\ ser.ok
  /\ ser.w.bounded => ser.w.size <= ser.w.edge
  /\ ser.phase = "read" => ser.h = IF ser.next <= Len(ser.msg) THEN ser.starts[ser.next] ELSE ser.w.size
===============================================================================
