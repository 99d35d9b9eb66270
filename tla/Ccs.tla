--------------------------------- MODULE Ccs ---------------------------------
(***************************************************************************)
(* Relocatable function pointers (ccs.hpp, ccs.cpp, global_fnptr.hpp): a    *)
(* pointer to a function travels as a token, relative to the executable     *)
(* segment that holds it, and becomes the pointer to the same function in   *)
(* the receiving process, where libraries lie elsewhere.  A segment is      *)
(* named by nothing (the primary one), by a hash, or by an index once the   *)
(* ranks have verified collectively that all of them have it.               *)
(*                                                                         *)
(* ccs[r] is the state of process r: its segment map and table of indices,  *)
(* guarded by mutex_, and a cache per thread.  A lookup is one step: the    *)
(* caches belong to the thread and the rest happens under the mutex.  Any   *)
(* thread sends; a callable is unpacked by the thread of the master         *)
(* persona, at user level, so never inside a collective call that waits.    *)
(* UPC++ itself, and with it the code that unpacks, is in the primary       *)
(* segment.                                                                 *)
(***************************************************************************)
EXTENDS Integers, Sequences, FiniteSets, FiniteSetsExt, SequencesExt

CONSTANTS
    CcsRanks,
    CcsThreads,     \* "main" holds the master persona and makes the collective calls
    CcsImages,      \* executable or library: [build, relocated, upcxx, segs], build id 0 if none,
                    \* segs its executable program headers [num, at, size, text]
    CcsBase,        \* CcsBase[r][l]: where process r loads image l
    CcsSentinel,    \* fallback_primary_segment_sentinel, a function [lib, seg, off]
    CcsJobs,        \* [loaded, calls, init, enforce, sends, opens]: the same calls on every rank,
                    \* of which the first init belong to upcxx::init; opens: the libraries that
                    \* other threads load, at any time
    CacheSize,      \* max_cache_size
    MaxSegments,    \* max_segments_
    OffsetLimit,    \* 2^idx_shift
    IdxLimit        \* 2^15

ASSUME CcsAssumption ==
    /\ IsFiniteSet(CcsRanks) /\ 0 \in CcsRanks /\ CcsRanks \subseteq Nat
    /\ "main" \in CcsThreads
    /\ CacheSize \in Nat \ {0} /\ MaxSegments \in 2 .. IdxLimit - 1
    /\ OffsetLimit \in Nat \ {0}

VARIABLES ccs, ccsNet, ccsJob
ccsVars == <<ccs, ccsNet, ccsJob>>

NoHash == 0                       \* a segment_hash is a number, segment_hash{} is 0
Msb == OffsetLimit * IdxLimit     \* the top bit of a word
KeepFlags == {"touched", "verified", "bad_verification"}
NoCall == [call |-> 0]
NoCache == [ptr |-> <<>>, tkn |-> <<>>, idx |-> <<>>, epoch |-> 0, evict |-> 0, idx_evict |-> 0]

FnAddr(r, f) == CcsBase[r][f.lib] + CcsImages[f.lib].segs[f.seg].at + f.off
Within(g, u) == g.start < u /\ u < g.end

---------------------------------------------------------------------------
(* The segment map *)

(* the build id with the segment number mixed in, or a hash of the bytes,   *)
(* which relocations of the text make different in every process            *)
SegmentIdent(l, k, start) ==
    LET image == CcsImages[l]
    IN  IF image.build # 0 THEN image.build + image.segs[k].num
        ELSE image.segs[k].text + IF image.relocated THEN start ELSE 0

SegmentsOf(r, l) ==
    [k \in DOMAIN CcsImages[l].segs |->
        LET start == CcsBase[r][l] + CcsImages[l].segs[k].at
        IN  [start |-> start, end |-> start + CcsImages[l].segs[k].size,
             ident |-> SegmentIdent(l, k, start), idx |-> 0,
             flags |-> IF CcsImages[l].upcxx THEN {"upcxx_binary"} ELSE {}]]

MarkDuplicates(map) ==
    [i \in DOMAIN map |->
        IF \E j \in DOMAIN map \ {i} : map[j].ident = map[i].ident
        THEN [map[i] EXCEPT !.flags = @ \union {"bad_segment"}] ELSE map[i]]

build_segment_map(r, loaded) ==
    MarkDuplicates(FlattenSeq([n \in DOMAIN loaded |-> SegmentsOf(r, loaded[n])]))

(* what is known of a segment follows its hash into the new map *)
KnownOf(old, g) ==
    LET same == {j \in DOMAIN old : old[j].ident = g.ident}
    IN  IF same = {} THEN g
        ELSE [g EXCEPT !.flags = @ \union (UNION {old[j].flags : j \in same} \intersect KeepFlags),
                       !.idx = old[Max(same)].idx]
Carried(old, new) == [i \in DOMAIN new |-> KnownOf(old, new[i])]
rebuild_segment_map(r, s) == [s EXCEPT !.map = Carried(@, build_segment_map(r, s.loaded))]

find_primary_upcxx_segment(r, map) ==
    LET marked == {i \in DOMAIN map : "upcxx_binary" \in map[i].flags}
        holds  == {i \in DOMAIN map : LET u == FnAddr(r, CcsSentinel)
                                      IN  map[i].start <= u /\ u < map[i].end}
    IN  map[Min(IF marked # {} THEN marked ELSE holds)]

---------------------------------------------------------------------------
(* The caches of a thread *)

(* the first entry that ends at u or above; 0 if it does not hold u *)
search(entries, u) ==
    LET above == {i \in DOMAIN entries : u <= entries[i].end}
    IN  IF above # {} /\ entries[Min(above)].start <= u THEN Min(above) ELSE 0

search_tkn(c, ident) ==
    LET from == {i \in DOMAIN c.tkn : c.tkn[i].ident >= ident}
    IN  IF from # {} /\ c.tkn[Min(from)].ident = ident THEN Min(from) ELSE 0

(* search_cache empties a cache filled before the last verification *)
Refreshed(s, c) ==
    IF c.epoch = s.epoch THEN c ELSE [c EXCEPT !.ptr = <<>>, !.tkn = <<>>, !.epoch = s.epoch]

ByStart(entries) == SortSeq(entries, LAMBDA a, b : a.start < b.start)
ByIdent(entries) == SortSeq(entries, LAMBDA a, b : a.ident < b.ident)

(* Faulty variant: the two orders are taken for one *)
EvictAtSame(c, n) == n

(* where the entry of cache_ptr_ is that leaves with entry n of cache_tkn_ *)
EvictAt(c, n) == Min({i \in DOMAIN c.ptr : c.tkn[n].start <= c.ptr[i].end})

ActivateIdx(c, g) ==
    LET e == [start |-> g.start, end |-> g.end, idx |-> g.idx]
    IN  IF Len(c.idx) < CacheSize THEN [c EXCEPT !.idx = ByStart(Append(@, e))]
        ELSE [c EXCEPT !.idx = ByStart([@ EXCEPT ![c.idx_evict + 1] = e]),
                       !.idx_evict = (@ + 1) % CacheSize]
ActivateHash(c, g) ==
    LET p == [start |-> g.start, end |-> g.end, ident |-> g.ident]
        k == [ident |-> g.ident, start |-> g.start]
    IN  IF Len(c.ptr) < CacheSize
        THEN [c EXCEPT !.ptr = ByStart(Append(@, p)), !.tkn = ByIdent(Append(@, k))]
        ELSE [c EXCEPT !.ptr = ByStart([@ EXCEPT ![EvictAt(c, c.evict + 1)] = p]),
                       !.tkn = ByIdent([@ EXCEPT ![c.evict + 1] = k]),
                       !.evict = (@ + 1) % CacheSize]

activate(s, t, i) ==
    [s EXCEPT !.map[i].flags = @ \union {"touched"},
              !.cache[t] = IF s.map[i].idx > 0 THEN ActivateIdx(@, s.map[i])
                           ELSE ActivateHash(@, s.map[i])]

---------------------------------------------------------------------------
(* Lookups: the state after, and the segment of the map found, 0 if none.   *)
(* A duplicate segment is fatal when a pointer asks for it.                 *)

Found(s, t, where) == [s |-> activate(s, t, Min(where)), at |-> Min(where)]
Missing(s) == [s |-> s, at |-> 0]
HoldersOf(s, u) == {i \in DOMAIN s.map : Within(s.map[i], u)}
NamedBy(s, ident) == {i \in DOMAIN s.map : s.map[i].ident = ident}

try_inactive(s, t, u) ==
    IF HoldersOf(s, u) = {} THEN Missing(s)
    ELSE IF "bad_segment" \in s.map[Min(HoldersOf(s, u))].flags
         THEN Missing([s EXCEPT !.fatal = TRUE])
         ELSE Found(s, t, HoldersOf(s, u))

search_map_ptr(r, s, t, u) ==
    try_inactive(IF HoldersOf(s, u) # {} THEN s ELSE rebuild_segment_map(r, s), t, u)

TryNamed(s, t, ident) == IF NamedBy(s, ident) = {} THEN Missing(s) ELSE Found(s, t, NamedBy(s, ident))
search_map_hash(r, s, t, ident) ==
    TryNamed(IF NamedBy(s, ident) # {} THEN s ELSE rebuild_segment_map(r, s), t, ident)

---------------------------------------------------------------------------
(* Tokens *)

Single(offset) == [kind |-> "single", offset |-> offset]
Multi(offset, ident) == [kind |-> "multi", offset |-> offset, ident |-> ident]
MultiIdx(offset, idx) == [kind |-> "multi_idx", offset |-> offset, idx |-> idx]
NoToken == [kind |-> "none"]      \* segment_verification_error, or the job aborts

(* function_token::tokenize: the state after, and the token *)
TokenInMap(l, u) ==
    LET g == l.s.map[l.at]
    IN  [s     |-> IF l.at = 0 THEN [l.s EXCEPT !.fatal = TRUE] ELSE l.s,
         token |-> IF l.at = 0 THEN NoToken
                   ELSE IF g.idx > 0 THEN MultiIdx(u - g.start, g.idx)
                   ELSE IF ~l.s.enforce THEN Multi(u - g.start, g.ident)
                   ELSE NoToken]
TokenFromMap(r, s, t, u) == TokenInMap(search_map_ptr(r, s, t, u), u)

tokenize(r, s, t, u) ==
    LET c  == s.cache[t]
        i  == search(c.idx, u)
        c1 == IF s.enforce THEN c ELSE Refreshed(s, c)
        p  == IF s.enforce THEN 0 ELSE search(c1.ptr, u)
        s1 == [s EXCEPT !.cache[t] = c1]
    IN  IF u >= s.primary.start /\ u < s.primary.end
        THEN [s |-> s, token |-> Single(u - s.primary.start)]
        ELSE IF i # 0 THEN [s |-> s, token |-> MultiIdx(u - c.idx[i].start, c.idx[i].idx)]
        ELSE IF p # 0 THEN [s |-> s1, token |-> Multi(u - c1.ptr[p].start, c1.ptr[p].ident)]
        ELSE TokenFromMap(r, s1, t, u)

(* serialization of a global_fnptr: one word, and the hash if needed *)
ToWire(k) ==
    CASE k.kind = "single" -> <<k.offset>>
      [] k.kind = "multi_idx" -> <<k.offset + k.idx * OffsetLimit + Msb>>
      [] k.kind = "multi" -> <<k.offset + Msb, k.ident>>
FromWire(w) ==
    LET idx == (w[1] % Msb) \div OffsetLimit
    IN  IF w[1] < Msb THEN Single(w[1])
        ELSE IF idx > 0 THEN MultiIdx(w[1] % OffsetLimit, idx)
        ELSE Multi(w[1] % OffsetLimit, w[2])

lookup_at_idx(s, idx) == s.starts[idx]

(* function_token::detokenize: the state after, and the pointer *)
PointerInMap(l, offset) ==
    IF l.at # 0 THEN [s |-> l.s, ptr |-> l.s.map[l.at].start + offset]
    ELSE [s |-> [l.s EXCEPT !.fatal = TRUE], ptr |-> 0]
detokenize(r, s, t, k) ==
    CASE k.kind = "single" -> [s |-> s, ptr |-> s.primary.start + k.offset]
      [] k.kind = "multi_idx" -> [s |-> s, ptr |-> lookup_at_idx(s, k.idx) + k.offset]
      [] k.kind = "multi" ->
           LET n == search_tkn(s.cache[t], k.ident)
           IN  IF n # 0 THEN [s |-> s, ptr |-> s.cache[t].tkn[n].start + k.offset]
               ELSE PointerInMap(search_map_hash(r, s, t, k.ident), k.offset)

---------------------------------------------------------------------------
(* Processes *)

CcsStart(r, job) ==
    LET map == build_segment_map(r, job.loaded)
    IN  [loaded |-> job.loaded, map |-> map, primary |-> find_primary_upcxx_segment(r, map),
         count |-> 1, starts |-> [i \in 0 .. MaxSegments - 1 |-> 0], epoch |-> 0,
         enforce |-> job.enforce, cache |-> [t \in CcsThreads |-> NoCache],
         at |-> 0, in |-> NoCall, gave |-> <<>>, outcome |-> <<>>,
         sent |-> [t \in CcsThreads |-> 0], fatal |-> FALSE]

CcsRun(jobs) ==
    /\ ccsJob \in jobs
    /\ ccs = [r \in CcsRanks |-> CcsStart(r, ccsJob)]
    /\ ccsNet = {}
CcsInit == CcsRun(CcsJobs)

Alive == \A r \in CcsRanks : ~ccs[r].fatal

(* the main thread of r makes its next call, or is inside the call what *)
CcsCall(r, what) ==
    /\ Alive /\ ccs[r].in = NoCall
    /\ ccs[r].at < Len(ccsJob.calls) /\ ccsJob.calls[ccs[r].at + 1].what = what
CcsInside(r, what) == Alive /\ ccs[r].in # NoCall /\ ccs[r].in.what = what
NextCall(r) == ccsJob.calls[ccs[r].at + 1]

(* s enters a collective call with a contribution, or leaves it with an     *)
(* outcome; collectives of the ranks are matched by their order             *)
CallEnters(s, in, gave) ==
    [s EXCEPT !.at = @ + 1, !.in = [in EXCEPT !.call = s.at + 1],
              !.gave = (s.at + 1 :> gave) @@ @]
CallLeaves(s, outcome) ==
    [s EXCEPT !.in = NoCall, !.outcome = (s.in.call :> outcome) @@ @]
Gave(n) == {ccs[q].gave[n] : q \in CcsRanks}
AllGave(n) == \A q \in CcsRanks : n \in DOMAIN ccs[q].gave

(* dlopen on some ranks, and enforce_verification *)
Load(r) ==
    /\ CcsCall(r, "load")
    /\ ccs' = [ccs EXCEPT ![r].at = @ + 1,
                          ![r].loaded = IF r \in NextCall(r).who THEN Append(@, NextCall(r).lib) ELSE @]
    /\ UNCHANGED <<ccsNet, ccsJob>>
(* dlopen by another thread, also while the main one is inside a call *)
OtherLoads(r) ==
    /\ Alive
    /\ \E lib \in ccsJob.opens[r] \ Range(ccs[r].loaded) : ccs' = [ccs EXCEPT ![r].loaded = Append(@, lib)]
    /\ UNCHANGED <<ccsNet, ccsJob>>
enforce_verification(r) ==
    /\ CcsCall(r, "enforce")
    /\ ccs' = [ccs EXCEPT ![r].at = @ + 1, ![r].enforce = NextCall(r).value]
    /\ UNCHANGED <<ccsNet, ccsJob>>

set_verified(g) == [g EXCEPT !.flags = (@ \union {"verified"}) \ {"bad_verification"}]
set_bad_verification(g) == [g EXCEPT !.flags = (@ \union {"bad_verification"}) \ {"verified"}]

(* verify_segment, up to the reduction: the hash of the segment of the      *)
(* function, if this process has it                                         *)
AsksFor(s, u) ==
    LET where == HoldersOf(s, u)
        ident == IF where = {} THEN NoHash ELSE s.map[Min(where)].ident
        bad   == where # {} /\ "bad_segment" \in s.map[Min(where)].flags
    IN  IF bad THEN [s EXCEPT !.fatal = TRUE]
        ELSE CallEnters(s, [call |-> 0, what |-> "verify", ident |-> ident], ident)
verify_segment(r) ==
    /\ CcsCall(r, "verify")
    /\ ccs' = [ccs EXCEPT ![r] = AsksFor(rebuild_segment_map(r, @), FnAddr(r, NextCall(r).fn))]
    /\ UNCHANGED <<ccsNet, ccsJob>>

seghash_reduce(hashes) == IF Cardinality(hashes) = 1 THEN CHOOSE h \in hashes : TRUE ELSE NoHash

(* the next index for a segment that all ranks have *)
Indexed(s, i) ==
    [s EXCEPT !.map[i].idx = s.count, !.count = @ + 1, !.starts[s.count] = s.map[i].start]

VerifySegmentEnd(r) ==
    LET s     == ccs[r]
        where == NamedBy(s, s.in.ident)
        i     == Min(where)
    IN  /\ CcsInside(r, "verify") /\ AllGave(s.in.call)
        /\ ccs' = [ccs EXCEPT ![r] =
                IF where = {} THEN CallLeaves(s, "throws")
                ELSE IF seghash_reduce(Gave(s.in.call)) = NoHash
                THEN CallLeaves([s EXCEPT !.map[i] = set_bad_verification(@)], "throws")
                ELSE IF "verified" \in s.map[i].flags THEN CallLeaves(s, "returns")
                ELSE CallLeaves(Indexed([s EXCEPT !.map[i] = set_verified(@), !.epoch = @ + 1], i),
                                "returns")]
        /\ s.count < MaxSegments
        /\ UNCHANGED <<ccsNet, ccsJob>>

(* verify_all: a copy of the map, to be compared with rank 0's hashes; then *)
(* which of them this rank has; then the reduction and the indices          *)
Idents(map) == [i \in DOMAIN map |-> map[i].ident]
AsksForAll(s) ==
    [s EXCEPT !.at = @ + 1,
              !.in = [call |-> s.at + 1, what |-> "verify_all", idents |-> Idents(s.map), hashlist |-> <<>>]]
verify_all(r) ==
    /\ CcsCall(r, "verify_all")
    /\ ccs' = [ccs EXCEPT ![r] = AsksForAll(rebuild_segment_map(r, @))]
    /\ UNCHANGED <<ccsNet, ccsJob>>

VerifyAllCheck(r) ==
    LET in   == ccs[r].in
        root == ccs[0].in
    IN  /\ CcsInside(r, "verify_all") /\ in.call \notin DOMAIN ccs[r].gave
        /\ root # NoCall /\ root.call = in.call
        /\ ccs' = [ccs EXCEPT
                ![r].in.hashlist = root.idents,
                ![r].gave = (in.call :> {i \in DOMAIN root.idents : root.idents[i] \in Range(in.idents)}) @@ @]
        /\ UNCHANGED <<ccsNet, ccsJob>>

(* marks: the first segment of each hash of rank 0, by whether all have it; *)
(* the rest is bad                                                          *)
Marked(map, hashes, checked) ==
    LET firsts == {Min({i \in DOMAIN map : map[i].ident = hashes[n]})
                     : n \in {k \in DOMAIN hashes : hashes[k] \in Range(Idents(map))}}
    IN  [i \in DOMAIN map |->
            IF i \in firsts
            THEN IF \E n \in checked : hashes[n] = map[i].ident
                 THEN set_verified(map[i]) ELSE set_bad_verification(map[i])
            ELSE IF map[i].flags \intersect {"verified", "bad_verification"} = {}
            THEN set_bad_verification(map[i]) ELSE map[i]]

(* the verified ones without an index get the next ones in order of hash *)
NewSegments(s) ==
    SetToSortSeq({i \in DOMAIN s.map :
                     /\ "verified" \in s.map[i].flags
                     /\ s.map[i].start \notin {s.starts[n] : n \in 1 .. s.count - 1}},
                 LAMBDA i, j : s.map[i].ident < s.map[j].ident)

GiveIndices(s, new) ==
    [FoldLeft(Indexed, s, new) EXCEPT !.in = NoCall, !.epoch = IF new = <<>> THEN @ ELSE @ + 1]
AllIndexed(s) == GiveIndices(s, NewSegments(s))
VerifyAllEnd(r) ==
    LET in  == ccs[r].in
        all == {i \in DOMAIN in.hashlist : \A g \in Gave(in.call) : i \in g}
    IN  /\ CcsInside(r, "verify_all") /\ AllGave(in.call)
        /\ ccs' = [ccs EXCEPT ![r] = AllIndexed([@ EXCEPT !.map = Marked(@, in.hashlist, all)])]
        /\ ccs'[r].count <= MaxSegments
        /\ UNCHANGED <<ccsNet, ccsJob>>

---------------------------------------------------------------------------
(* Callables that are, or carry, a pointer to a function: a global_fnptr is *)
(* made when they are sent and called when they run.                        *)

CcsSends(r, t) == ccsJob.sends[r][t]
CcsUp(r) == ccs[r].at >= ccsJob.init /\ (ccs[r].in = NoCall \/ ccs[r].in.call > ccsJob.init)

SendFn(r, t) ==
    /\ Alive /\ CcsUp(r) /\ ccs[r].sent[t] < Len(CcsSends(r, t))
    /\ t = "main" => ccs[r].in = NoCall
    /\ LET m == CcsSends(r, t)[ccs[r].sent[t] + 1] IN
       /\ m.fn.lib \in Range(ccs[r].loaded)
       /\ \E k \in {tokenize(r, ccs[r], t, FnAddr(r, m.fn))} :
            /\ ccs' = [ccs EXCEPT ![r] = [k.s EXCEPT !.sent[t] = @ + 1]]
            /\ ccsNet' = IF k.token = NoToken THEN ccsNet
                         ELSE ccsNet \union {[to |-> m.to, fn |-> m.fn, wire |-> ToWire(k.token),
                                              enforced |-> ccs[r].enforce]}
    /\ UNCHANGED ccsJob

CanRun(r) == Alive /\ CcsUp(r) /\ ccs[r].in = NoCall
RunFn(r, m) ==
    /\ CanRun(r) /\ m.to = r
    /\ ccs' = [ccs EXCEPT ![r] = detokenize(r, @, "main", FromWire(m.wire)).s]
    /\ ccsNet' = ccsNet \ {m}
    /\ UNCHANGED ccsJob

CcsNext ==
    \E r \in CcsRanks :
        \/ Load(r) \/ OtherLoads(r) \/ enforce_verification(r)
        \/ verify_segment(r) \/ VerifySegmentEnd(r)
        \/ verify_all(r) \/ VerifyAllCheck(r) \/ VerifyAllEnd(r)
        \/ \E t \in CcsThreads : SendFn(r, t)
        \/ \E m \in ccsNet : RunFn(r, m)
CcsSpec == CcsInit /\ [][CcsNext]_ccsVars

---------------------------------------------------------------------------
(* Properties *)

(* the segments of this process, by address *)
Extents(r) == {[start |-> g.start, end |-> g.end, ident |-> g.ident]
                : g \in UNION {Range(SegmentsOf(r, l)) : l \in Range(ccs[r].loaded)}}

CachesExact(r) ==
    \A t \in CcsThreads :
      LET c == ccs[r].cache[t]
      IN  /\ \A e \in Range(c.ptr) :
                \E g \in Range(ccs[r].map) : /\ e = [start |-> g.start, end |-> g.end, ident |-> g.ident]
                                             /\ "touched" \in g.flags
          /\ Len(c.ptr) <= CacheSize /\ Len(c.idx) <= CacheSize
          /\ \A n \in DOMAIN c.tkn :
                Cardinality({i \in DOMAIN c.ptr : c.ptr[i].start = c.tkn[n].start /\ c.ptr[i].ident = c.tkn[n].ident})
                  = Cardinality({i \in DOMAIN c.tkn : c.tkn[i] = c.tkn[n]})
          /\ Len(c.tkn) = Len(c.ptr)
          /\ \A i \in DOMAIN c.idx :
                /\ c.idx[i].idx \in 1 .. ccs[r].count - 1
                /\ ccs[r].starts[c.idx[i].idx] = c.idx[i].start

(* the table of indices and the map agree, whoever rebuilds the map and     *)
(* when: every index is that of a verified segment, which can be sent under *)
(* enforcement; segments with the same bytes share what is known of their   *)
(* hash, and no pointer into them is sent                                   *)
TableIsMap(r) ==
    LET s == ccs[r]
    IN  /\ \A i \in 1 .. s.count - 1 :
              \E g \in Range(s.map) :
                 /\ g.start = s.starts[i]
                 /\ "bad_segment" \in g.flags \/ (g.idx = i /\ "verified" \in g.flags)
        /\ \A g \in Range(s.map) :
              g.idx > 0 => /\ g.idx < s.count
                           /\ "bad_segment" \in g.flags \/ g.start = s.starts[g.idx]

NamesOf(r) == [i \in 1 .. ccs[r].count - 1 |->
                {g.ident : g \in {e \in Extents(r) : e.start = ccs[r].starts[i]}}]

(* Verified segments are the same on all ranks, under the same indices      *)
(* (docs/ccs-rpc.md): an index names the same segment in every process      *)
(* that has given it out (verify_all, verify_segment).                      *)
IndicesAgree ==
    \A r, q \in CcsRanks : r < q =>
      LET ours == NamesOf(r)  theirs == NamesOf(q)
      IN  \A i \in DOMAIN ours \intersect DOMAIN theirs : ours[i] = theirs[i] /\ ours[i] # {}

(* A collective verification ends alike everywhere. *)
OutcomesAgree ==
    \A r, q \in CcsRanks : \A n \in DOMAIN ccs[r].outcome \intersect DOMAIN ccs[q].outcome :
        ccs[r].outcome[n] = ccs[q].outcome[n]

(* Wherever libraries lie and whenever they are loaded, verified, cached    *)
(* and evicted, a function pointer on its way becomes the pointer to the    *)
(* same function when its callable runs; the receiver aborts only if it     *)
(* lacks the library, and only if the sender enforced no verification.  The *)
(* caches of all threads agree with the segments, indices with the map, and *)
(* the ranks with each other.                                               *)
FunctionsExact ==
    /\ \A m \in ccsNet : CanRun(m.to) =>
          \A d \in {detokenize(m.to, ccs[m.to], "main", FromWire(m.wire))} :
            IF d.s.fatal THEN ~m.enforced /\ m.fn.lib \notin Range(ccs[m.to].loaded)
            ELSE d.ptr = FnAddr(m.to, m.fn)
    /\ IndicesAgree /\ OutcomesAgree
    /\ \A r \in CcsRanks : CachesExact(r) /\ TableIsMap(r)
=============================================================================
