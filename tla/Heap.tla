------------------------------- MODULE Heap --------------------------------
(***************************************************************************)
(* luaheap.c: the heap of one lua state, over the arena.  Small blocks are *)
(* cut from chunks by class and carry no header; a large one comes from    *)
(* the chunk source with a header and, once freed, is cached by size.      *)
(* Every entry point runs under the heap's lock, so each is one step.      *)
(*                                                                         *)
(* The arena under every allocation of the microvm is pmm.c's list of      *)
(* holes in address order, first fit and merged on both sides, with malloc *)
(* over it.  Addresses and sizes are in units of ALIGN, which is also the  *)
(* size of a hole's own header.                                            *)
(***************************************************************************)
EXTENDS Naturals, Sequences, SequencesExt, FiniteSets, FiniteSetsExt

CONSTANTS Regions,      \* what pmm_add is given
          Classes,      \* the block sizes, ascending
          Cap,          \* what a chunk holds
          Grain, LargeMax, LargeCached,   \* LARGE_GRAIN, LARGE_MAXSIZE, LARGE_CACHED
          Sizes,        \* what lua asks for
          Reserve,      \* what a machine keeps in hand
          MaxBlocks,    \* bound: blocks lua holds at once
          Other         \* sizes of the blocks everyone else mallocs, one at a time

VARIABLES mem,          \* the arena and the heap
          blocks,       \* the blocks lua holds: where, and the size it asked for
          other         \* what everyone else holds

heap_vars == <<mem, blocks, other>>

----------------------------------------------------------------------------
(* The arena. *)
MH == 1      \* sizeof (struct hdr), malloc's header

End(b) == b.at + b.size

(* In order of address, merged with its neighbours. *)
freelist_insert(holes, b) ==
    LET after  == SelectSeq(holes, LAMBDA x : x.at > b.at)
        before == SelectSeq(holes, LAMBDA x : x.at < b.at)
        up     == after # <<>> /\ End(b) = Head(after).at
        down   == before # <<>> /\ End(Last(before)) = b.at
        size   == b.size + IF up THEN Head(after).size ELSE 0
        rest   == IF up THEN Tail(after) ELSE after
    IN  IF down THEN Front(before) \o <<[Last(before) EXCEPT !.size = @ + size]>> \o rest
        ELSE before \o <<[at |-> b.at, size |-> size]>> \o rest

pmm_add(holes, regions) == FoldSeq(LAMBDA r, hs : freelist_insert(hs, r), holes, regions)

(* The first hole that fits, or 0. *)
Fit(holes, n) == LET fits == {i \in DOMAIN holes : holes[i].size >= n}
                 IN  IF fits = {} THEN 0 ELSE Min(fits)

pmm_alloc(holes, n) ==
    LET i == Fit(holes, n) IN
    IF holes[i].size > n
    THEN [holes EXCEPT ![i] = [at |-> @.at + n, size |-> @.size - n]]
    ELSE RemoveAt(holes, i)

avail(holes) == MapThenSumSet(LAMBDA i : holes[i].size, DOMAIN holes)
largest(holes) == IF holes = <<>> THEN 0 ELSE Max({holes[i].size : i \in DOMAIN holes})

(* malloc and free: a block is where its holder's pointer is. *)
malloc(holes, n)  == [at |-> holes[Fit(holes, n + MH)].at + MH, holes |-> pmm_alloc(holes, n + MH)]
CanMalloc(holes, n) == Fit(holes, n + MH) # 0
free(holes, b)    == freelist_insert(holes, [at |-> b.at - MH, size |-> b.size + MH])
----------------------------------------------------------------------------
(* The heap. *)
CH == 1      \* sizeof (struct chunk)
LH == 1      \* sizeof (struct large)
NClass == Len(Classes)

classof(n) == LET fits == {i \in DOMAIN Classes : n <= Classes[i]}
              IN  IF fits = {} THEN NClass + 1 ELSE Min(fits)
Small(n) == classof(n) <= NClass

roundup(n, a) == ((n + a - 1) \div a) * a
large_want(need) == IF need > LargeMax THEN need ELSE roundup(need, Grain)
Bucket == {g \in Grain .. LargeMax : g % Grain = 0}

(* luaheap_new *)
Fresh(holes) ==
    [holes |-> holes, chunks |-> <<>>, left |-> 0, freelist |-> [i \in 1 .. NClass |-> <<>>],
     larges |-> {}, cache |-> [g \in Bucket |-> <<>>],
     live |-> 0, mapped |-> 0, rounded |-> 0, asked |-> 0, cached |-> 0, lowmem |-> FALSE]

HeapInit ==
    /\ mem = Fresh(pmm_add(<<>>, Regions))
    /\ blocks = {} /\ other = {}
----------------------------------------------------------------------------
(* What the heap gives back. *)
Frees(m, S) == [m EXCEPT !.holes = FoldSet(LAMBDA b, hs : free(hs, b), @, S),
                         !.mapped = @ - MapThenSumSet(LAMBDA b : b.size, S)]

Cached(m) == {l \in m.larges : \E g \in Bucket : l.at \in ToSet(m.cache[g])}

release_largefree(m) ==
    [Frees(m, Cached(m)) EXCEPT !.larges = @ \ Cached(m), !.cached = 0,
                                !.cache = [g \in Bucket |-> <<>>]]

(* The chunk with the bump pointer in it is kept. *)
Current(m) == IF m.left = 0 \/ m.chunks = <<>> THEN {} ELSE {Head(m.chunks).at}
InChunk(c, a) == a \in c.at + CH .. c.at + CH + Cap - 1

FreeBytes(m, c) ==
    MapThenSumSet(LAMBDA i : Classes[i] * Len(SelectSeq(m.freelist[i], LAMBDA a : InChunk(c, a))),
                  1 .. NClass)

(* The tail that no class fits counts too. *)
Empty(m, c) == FreeBytes(m, c) + c.lost = Cap

Without(m, gone) ==
    [Frees(m, {[at |-> c.at, size |-> CH + Cap] : c \in gone}) EXCEPT
        !.chunks = SelectSeq(@, LAMBDA c : c \notin gone),
        !.freelist = [i \in 1 .. NClass |->
                        SelectSeq(@[i], LAMBDA a : ~\E c \in gone : InChunk(c, a))]]
release_freechunks(m) ==
    Without(m, {c \in ToSet(m.chunks) : c.at \notin Current(m) /\ Empty(m, c)})
----------------------------------------------------------------------------
(* drain_bump: the rest of the current chunk, cut into the largest classes *)
(* that fit.                                                               *)
Cut[left \in 0 .. Cap] ==
    IF left < Classes[1] THEN <<>>
    ELSE LET c == Max({i \in DOMAIN Classes : Classes[i] <= left})
         IN  <<c>> \o Cut[left - Classes[c]]

Bump(m) == Head(m.chunks).at + CH + Cap - m.left

(* Mutant: what is left of the chunk is forgotten. *)
LostNone(m) == 0
Lost(m) == m.left - MapThenSumSet(LAMBDA k : Classes[Cut[m.left][k]], DOMAIN Cut[m.left])

CutAt(m, cuts, k) == Bump(m) + MapThenSumSet(LAMBDA j : Classes[cuts[j]], 1 .. k - 1)
OfClass(m, cuts, i) ==
    {CutAt(m, cuts, k) : k \in {j \in DOMAIN cuts : cuts[j] = i}}
drain_bump(m) ==
    IF m.chunks = <<>> THEN m
    ELSE [m EXCEPT !.left = 0, !.chunks[1].lost = @ + Lost(m),
                   !.freelist = [i \in 1 .. NClass |->
                        SetToSortSeq(OfClass(m, Cut[m.left], i), >) \o @[i]]]

(* The states in which the chunk source is asked, until one of them can    *)
(* serve the request.  A refusal is noted for the next lap (kalloc_chunk).  *)
Able(n, next) == {i \in DOMAIN next : CanMalloc(next[i].holes, n)}
Tries(n, next) ==
    [next[Min(Able(n, next) \cup {Len(next)})] EXCEPT !.lowmem = @ \/ 1 \notin Able(n, next)]

WithChunk(m, got) ==
    [m EXCEPT !.holes = got.holes, !.chunks = <<[at |-> got.at, lost |-> 0]>> \o @,
              !.left = Cap, !.mapped = @ + CH + Cap]
Chunked(m) ==
    IF ~CanMalloc(m.holes, CH + Cap) THEN [ok |-> FALSE, m |-> m]
    ELSE [ok |-> TRUE, m |-> WithChunk(drain_bump(m), malloc(m.holes, CH + Cap))]
FirstOf(m, l) == Tries(CH + Cap, <<m, l, release_freechunks(l)>>)
newchunk(m) == Chunked(FirstOf(m, release_largefree(m)))

(* small_alloc and large_alloc: the new block, or at = 0, and the heap. *)
FromBump(t, i) ==
    IF ~t.ok THEN [at |-> 0, m |-> t.m]
    ELSE [at |-> Bump(t.m), m |-> [t.m EXCEPT !.left = @ - Classes[i], !.rounded = @ + Classes[i]]]
small_alloc(m, i) ==
    IF m.freelist[i] # <<>>
    THEN [at |-> Head(m.freelist[i]),
          m |-> [m EXCEPT !.freelist[i] = Tail(@), !.rounded = @ + Classes[i]]]
    ELSE FromBump(IF m.left < Classes[i] THEN newchunk(m) ELSE [ok |-> TRUE, m |-> m], i)

CacheTakes(q) == Tail(q)

WithLarge(m, got, want, n) ==
    [m EXCEPT !.holes = got.holes, !.larges = @ \cup {[at |-> got.at, size |-> want]},
              !.mapped = @ + want, !.asked = @ + n]
FromSource(m, want, n) ==
    IF ~CanMalloc(m.holes, want) THEN [at |-> 0, m |-> m]
    ELSE [at |-> malloc(m.holes, want).at + LH, m |-> WithLarge(m, malloc(m.holes, want), want, n)]
LargeOf(m, want, n) ==
    IF want \in Bucket /\ m.cache[want] # <<>>
    THEN [at |-> Head(m.cache[want]) + LH,
          m |-> [m EXCEPT !.cache[want] = CacheTakes(@), !.cached = @ - want, !.asked = @ + n]]
    ELSE FromSource(Tries(want, <<m, release_largefree(m)>>), want, n)
large_alloc(m, n) == LargeOf(m, large_want(n + LH), n)

small_free(m, a, i) == [m EXCEPT !.freelist[i] = <<a>> \o @, !.rounded = @ - Classes[i]]

GiveBack(m, l) ==
    IF l.size \in Bucket /\ Len(m.cache[l.size]) < LargeCached
    THEN [m EXCEPT !.cache[l.size] = <<l.at>> \o @, !.cached = @ + l.size]
    ELSE [Frees(m, {l}) EXCEPT !.larges = @ \ {l}]
large_free(m, a, n) ==
    [GiveBack(m, CHOOSE x \in m.larges : x.at = a - LH) EXCEPT !.asked = @ - n]
----------------------------------------------------------------------------
Alloc(m, n) == IF Small(n) THEN small_alloc(m, classof(n)) ELSE large_alloc(m, n)
Freed(m, b) == IF Small(b.n) THEN small_free(m, b.at, classof(b.n)) ELSE large_free(m, b.at, b.n)

(* Moves that a growing or shrinking block does not make. *)
Stays(m, b, n) ==
    \/ Small(n) /\ classof(b.n) = classof(n)
    \/ /\ ~Small(b.n) /\ ~Small(n)
       /\ [at |-> b.at - LH, size |-> large_want(n + LH)] \in m.larges

Live(m, by) == [m EXCEPT !.live = @ + by]

(* luaheap_realloc, as lua calls it: to make a block, to free one and to    *)
(* change a block's size.                                                  *)
Make(n) == \E r \in {Alloc(mem, n)} :
    /\ Cardinality(blocks) < MaxBlocks
    /\ \/ r.at = 0 /\ mem' = r.m /\ UNCHANGED blocks
       \/ r.at # 0 /\ mem' = Live(r.m, n) /\ blocks' = blocks \cup {[at |-> r.at, n |-> n]}
    /\ UNCHANGED other

Drop(b) ==
    /\ mem' = [Freed(mem, b) EXCEPT !.live = @ - b.n]
    /\ blocks' = blocks \ {b}
    /\ UNCHANGED other

Resized(b, to) == blocks' = (blocks \ {b}) \cup {to}
InPlace(b, n) ==
    /\ Stays(mem, b, n)
    /\ mem' = [mem EXCEPT !.live = @ + n - b.n, !.asked = IF Small(n) THEN @ ELSE @ + n - b.n]
    /\ Resized(b, [b EXCEPT !.n = n])

Move(b, n) == \E r \in {Alloc(mem, n)} :
    /\ ~Stays(mem, b, n)
    /\ \/ r.at = 0 /\ mem' = r.m /\ UNCHANGED blocks
       \/ /\ r.at # 0
          /\ mem' = [Freed(r.m, b) EXCEPT !.live = @ + n - b.n]
          /\ Resized(b, [at |-> r.at, n |-> n])

Resize(b, n) == n # b.n /\ (InPlace(b, n) \/ Move(b, n)) /\ UNCHANGED other

(* luaheap_reclaim when a proc exits, luaheap_release when the machine is   *)
(* quiet.                                                                  *)
luaheap_reclaim == mem' = release_freechunks(mem) /\ UNCHANGED <<blocks, other>>
release(m) == release_freechunks(release_largefree(m))
luaheap_release == mem' = release(mem) /\ UNCHANGED <<blocks, other>>

(* luaheap_destroy: with the proc go its blocks. *)
destroy(m) ==
    Fresh(Frees(m, m.larges \cup {[at |-> c.at, size |-> CH + Cap] : c \in ToSet(m.chunks)}).holes)
luaheap_destroy == mem' = destroy(mem) /\ blocks' = {} /\ UNCHANGED other

(* The lap that finds memory short: what is cached goes back first, and    *)
(* then the proc, if it is expendable.                                     *)
kmem_short(holes) ==
    \/ largest(holes) < CH + Cap \/ avail(holes) < Reserve \/ ~CanMalloc(holes, CH + Cap)

LowMemory == \E m \in {[release(mem) EXCEPT !.lowmem = FALSE]} :
    /\ mem.lowmem
    /\ \/ mem' = m /\ UNCHANGED blocks
       \/ kmem_short(m.holes) /\ mem' = destroy(m) /\ blocks' = {}
    /\ UNCHANGED other

(* Everyone else's malloc and free. *)
Others ==
    /\ \/ /\ other = {}
          /\ \E n \in {x \in Other : CanMalloc(mem.holes, x)} : \E got \in {malloc(mem.holes, n)} :
                /\ mem' = [mem EXCEPT !.holes = got.holes]
                /\ other' = {[at |-> got.at, size |-> n]}
       \/ \E b \in other :
             /\ mem' = [mem EXCEPT !.holes = free(@, b)]
             /\ other' = {}
    /\ UNCHANGED blocks

HeapNext ==
    \/ \E n \in Sizes : Make(n)
    \/ \E b \in blocks : Drop(b) \/ \E n \in Sizes : Resize(b, n)
    \/ luaheap_reclaim \/ luaheap_release \/ luaheap_destroy \/ LowMemory \/ Others

HeapSpec == HeapInit /\ [][HeapNext]_heap_vars
----------------------------------------------------------------------------
(* No byte of the arena has two uses: holes, other holders' blocks, chunks  *)
(* and large blocks are apart, and within the chunks so are the blocks lua *)
(* holds, the free ones and what is not handed out (luaheap.c, pmm.c).     *)
Span(at, size) == at .. at + size - 1
Apart(S) == \A x, y \in S : x # y => x \cap y = {}
Outer ==
    {Span(h.at, h.size) : h \in ToSet(mem.holes)}
    \cup {Span(b.at - MH, b.size + MH) : b \in other \cup mem.larges}
    \cup {Span(c.at - MH, MH + CH + Cap) : c \in ToSet(mem.chunks)}
FreeSmall == {Span(a, Classes[i]) : <<i, a>> \in
                {<<i, a>> \in (1 .. NClass) \X UNION {ToSet(mem.freelist[j]) : j \in 1 .. NClass} :
                    a \in ToSet(mem.freelist[i])}}
HeldSmall == {Span(b.at, Classes[classof(b.n)]) : b \in {x \in blocks : Small(x.n)}}
Tail1 == IF mem.left = 0 THEN {} ELSE {Span(Bump(mem), mem.left)}
OneUse ==
    /\ Apart(Outer)
    /\ Apart(FreeSmall \cup HeldSmall \cup Tail1) /\ FreeSmall \cap HeldSmall = {}
    /\ \A s \in FreeSmall \cup HeldSmall \cup Tail1 :
          \E c \in ToSet(mem.chunks) : s \subseteq Span(c.at + CH, Cap)
    /\ \A b \in blocks : Small(b.n) \/
          \E l \in mem.larges \ Cached(mem) : l.at = b.at - LH /\ b.n + LH <= l.size

(* Nothing is lost: every byte is in a hole or held, holes never touch     *)
(* (pmm.c: "coalescing is what keeps that count from growing"), and a       *)
(* retired chunk that nothing uses tallies full, so a sweep returns it     *)
(* (luaheap.c release_freechunks: "The sum is exact").  The heap's own      *)
(* figures agree (stats_locked).                                           *)
Figures ==
    /\ mem.live = MapThenSumSet(LAMBDA b : b.n, blocks)
    /\ mem.asked = MapThenSumSet(LAMBDA b : b.n, {x \in blocks : ~Small(x.n)})
    /\ mem.rounded = MapThenSumSet(Cardinality, HeldSmall)
    /\ mem.cached = MapThenSumSet(LAMBDA l : l.size, Cached(mem))
    /\ mem.mapped = Len(mem.chunks) * (CH + Cap) + MapThenSumSet(LAMBDA l : l.size, mem.larges)
NothingLost ==
    /\ Figures
    /\ UNION Outer = UNION {Span(Regions[i].at, Regions[i].size) : i \in DOMAIN Regions}
    /\ \A i \in 1 .. Len(mem.holes) - 1 : End(mem.holes[i]) < mem.holes[i + 1].at
    /\ \A c \in ToSet(mem.chunks) :
          (~\E s \in HeldSmall \cup Tail1 : s \subseteq Span(c.at + CH, Cap)) => Empty(mem, c)

(* Through every order of allocations, moves, frees, sweeps and caching, of  *)
(* the heap and of whoever else shares the arena, each byte has one use.    *)
BytesAccounted == OneUse /\ NothingLost
============================================================================
