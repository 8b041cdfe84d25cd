---------------------------- MODULE KvPageTable ----------------------------
(***************************************************************************)
(* The trie of KV pages (store/kv/page_table.rs), as operators on a table  *)
(* record                                                                  *)
(*   nodes  live node id -> KvTrieNode                                     *)
(*   ws     live working set id -> WorkingSetEntry                         *)
(*   roots  node -> number of cache entries holding it (cache_roots)       *)
(*   pins   node -> number of moves and readers holding it (pins)          *)
(*   swaps  locations some residency move has (swap_locations)             *)
(*                                                                         *)
(* A node owns pages or selects a prefix of its parent's: every selection  *)
(* comes from make_prefix_selection, and compaction keeps the longest      *)
(* prefix taken, so a Runs value is always 0..take and its length is all   *)
(* there is to it. A page is its backing and its key (page_hash), NoKey    *)
(* while it is not sealed. A key is the chain of tokens it is the hash of; *)
(* a page is sealed whole, so the hashes of its slots say no more. A node  *)
(* is idx when node_starts finds it by its first page's key. A location is *)
(* <<node, index>>, indexes from 1.                                        *)
(***************************************************************************)
EXTENDS Integers, Sequences, SequencesExt, FiniteSetsExt

Put(f, x, v) == [y \in DOMAIN f \cup {x} |-> IF y = x THEN v ELSE f[y]]
Without(f, S) == [x \in DOMAIN f \ S |-> f[x]]

NoNode == 0     \* Option<NodeId>::None
NoKey == <<>>   \* no page_hash

Device(p) == <<"device", p>>   \* KvPageBacking::Resident
Host(h) == <<"host", h>>       \* KvPageBacking::Swapped
OnDevice(b) == b[1] = "device"

EmptyTable == [nodes |-> <<>>, ws |-> <<>>, roots |-> <<>>, pins |-> <<>>, swaps |-> {}]

Owned(parent, pages) ==
  [parent |-> parent, sel |-> FALSE, pages |-> pages, take |-> 0,
   exact |-> 0, path |-> 0, idx |-> FALSE]

Selection(owner, take) ==
  [parent |-> owner, sel |-> TRUE, pages |-> <<>>, take |-> take,
   exact |-> 0, path |-> 0, idx |-> FALSE]

(* GenMap keys carry a generation, so an id is not used again while anyone  *)
(* still names it: `named` are the nodes that moves in flight name.         *)
FreshNode(t, named) ==
  LET used == DOMAIN t.nodes \cup named
  IN  Min((1..(Cardinality(used) + 1)) \ used)

WithNode(t, n, node) == [t EXCEPT !.nodes = Put(@, n, node)]
-----------------------------------------------------------------------------
(* Walking the trie. *)

Children(t, n) == {c \in DOMAIN t.nodes : t.nodes[c].parent = n}

(* The node whose pages come before n's; a selection's are those before its *)
(* owner's.                                                                 *)
Predecessor(t, n) ==
  IF t.nodes[n].sel THEN t.nodes[t.nodes[n].parent].parent ELSE t.nodes[n].parent

(* n and the nodes after it by `next`, and what they have, n's last. *)
Up(next, n) ==
  LET up[m \in DOMAIN next] == {m} \cup IF next[m] = NoNode THEN {} ELSE up[next[m]]
  IN  up[n]

Joined(next, part, n) ==
  LET all[m \in DOMAIN next] ==
        (IF next[m] = NoNode THEN <<>> ELSE all[next[m]]) \o part[m]
  IN  all[n]

(* n and the nodes above it, by parent. *)
Parents(t) == [m \in DOMAIN t.nodes |-> t.nodes[m].parent]
PathNodes(t, n) == Up(Parents(t), n)

(* The segments of a mapping that ends at n. *)
Predecessors(t) == [m \in DOMAIN t.nodes |-> Predecessor(t, m)]
Segments(t, n) == Up(Predecessors(t), n)

ContributionLen(t, n) ==
  IF t.nodes[n].sel THEN t.nodes[n].take ELSE Len(t.nodes[n].pages)

(* The node that has the pages n contributes, and their locations there     *)
(* (resolve_location of each).                                              *)
Source(t, n) == IF t.nodes[n].sel THEN t.nodes[n].parent ELSE n

NodeLocations(t, n) == [i \in 1..ContributionLen(t, n) |-> <<Source(t, n), i>>]

(* path_locations, visit_anchor_locations *)
Parts(t) == [m \in DOMAIN t.nodes |-> NodeLocations(t, m)]

Locations(t, n) == IF n = NoNode THEN <<>> ELSE Joined(Predecessors(t), Parts(t), n)

(* visit_working_set_locations: the last mapped_len of them. *)
LastOf(n, locs) == SubSeq(locs, Len(locs) - n + 1, Len(locs))

WsLocations(t, w) == LastOf(t.ws[w].mapped, Locations(t, t.ws[w].terminal))

LocationsOf(t, S) == UNION {ToSet(WsLocations(t, w)) : w \in S}

Live(t, loc) ==
  /\ loc[1] \in DOMAIN t.nodes
  /\ loc[2] \in DOMAIN t.nodes[loc[1]].pages

Page(t, loc) == t.nodes[loc[1]].pages[loc[2]]

(* settled_at: on the device, and in no move. *)
Settled(t, loc) == Live(t, loc) /\ OnDevice(Page(t, loc).at) /\ loc \notin t.swaps

(* prefix_while: how many leading locations satisfy it. *)
PrefixWhile(locs, Good(_)) ==
  Max({k \in 0..Len(locs) : \A i \in 1..k : Good(locs[i])})

SealedPrefix(t, w) == PrefixWhile(WsLocations(t, w), LAMBDA l : Page(t, l).key # NoKey)

SealedResidentPrefix(t, w) ==
  PrefixWhile(WsLocations(t, w), LAMBDA l : Page(t, l).key # NoKey /\ Settled(t, l))

Backings(t) ==
  UNION {{p.at : p \in ToSet(t.nodes[n].pages)} : n \in DOMAIN t.nodes}

(* Who reads a page: anchors on its node and below, through the children    *)
(* that take it. privately_writable is a count of one.                      *)
PageReaders(t, loc) ==
  t.nodes[loc[1]].exact
  + MapThenSumSet(LAMBDA c : t.nodes[c].path,
      {c \in Children(t, loc[1]) : ~t.nodes[c].sel \/ loc[2] <= t.nodes[c].take})
-----------------------------------------------------------------------------
(* Anchors: working sets, nodes the cache holds and nodes pinned. An         *)
(* operation that may let pages go yields the table and the set of backings *)
(* freed.                                                                   *)

Anchors(t) ==
  ({"set"} \X {w \in DOMAIN t.ws : t.ws[w].terminal # NoNode})
  \cup ({"root"} \X DOMAIN t.roots) \cup ({"pin"} \X DOMAIN t.pins)

AnchoredAt(t) ==
  [a \in Anchors(t) |-> IF a[1] = "set" THEN t.ws[a[2]].terminal ELSE a[2]]

Result(t, freed) == [t |-> t, freed |-> freed]

(* add_anchor, of each of A: the anchors at a node, and on the paths through *)
(* it, go up by those there.                                                *)
Through(t, A, m) == {a \in A : m \in PathNodes(t, a)}

Counting(node, exact, path) == [node EXCEPT !.exact = @ + exact, !.path = @ + path]

AddAnchors(t, A) ==
  [t EXCEPT !.nodes = [m \in DOMAIN @ |->
     Counting(@[m], Cardinality(A \cap {m}), Cardinality(Through(t, A, m)))]]

(* compact_owner, of each of S still there: below a node nothing anchors,   *)
(* where only selections read it, the pages none of them takes go. A node   *)
(* with a page in a move is left alone.                                     *)
Compactable(t, n) ==
  /\ n \in DOMAIN t.nodes
  /\ t.nodes[n].exact = 0
  /\ \A loc \in t.swaps : loc[1] # n
  /\ ~t.nodes[n].sel
  /\ Children(t, n) # {}
  /\ \A c \in Children(t, n) : t.nodes[c].sel

Kept(t, n) == Max({t.nodes[c].take : c \in Children(t, n)})

Cut(node, len) == [node EXCEPT !.pages = SubSeq(@, 1, len)]

LiveLocations(t) == UNION {{n} \X DOMAIN t.nodes[n].pages : n \in DOMAIN t.nodes}

BackingsAt(t, locs) == {Page(t, l).at : l \in locs}

CompactOwners(t, S) ==
  LET trim == {n \in S : Compactable(t, n)}
  IN  Result([t EXCEPT !.nodes = [n \in DOMAIN @ |->
                IF n \in trim THEN Cut(@[n], Kept(t, n)) ELSE @[n]]],
             BackingsAt(t, {l \in LiveLocations(t) : l[1] \in trim /\ l[2] > Kept(t, l[1])}))

Freeing(r, backings) == Result(r.t, r.freed \cup backings)

(* remove_anchor, of each of A. The nodes left without an anchor go, and    *)
(* all below them (detach_unreferenced); what stays on the paths is         *)
(* compacted. One after the other comes to the same: a node is compacted    *)
(* again after the last of A that it or a child of it was on the path of.   *)
LessAnchors(t, A) ==
  [t EXCEPT !.nodes = [m \in DOMAIN @ |->
     Counting(@[m], 0 - Cardinality(A \cap {m}), 0 - Cardinality(Through(t, A, m)))]]

DetachUnreferenced(t, path, dead) ==
  Freeing(CompactOwners([t EXCEPT !.nodes = Without(@, dead)], path),
          BackingsAt(t, {l \in LiveLocations(t) : l[1] \in dead}))

Bare(t, A) ==
  {m \in DOMAIN t.nodes : /\ Through(t, A, m) # {}
                          /\ t.nodes[m].path = Cardinality(Through(t, A, m))}

RemoveAnchors(t, A) ==
  DetachUnreferenced(LessAnchors(t, A),
    {m \in DOMAIN t.nodes : Through(t, A, m) # {}},
    {m \in DOMAIN t.nodes : PathNodes(t, m) \cap Bare(t, A) # {}})

(* hold and let_go: the first hold anchors, the last one lets go. *)
Count(holds, n) == IF n \in DOMAIN holds THEN holds[n] ELSE 0

Hold(holds, S) ==
  [n \in DOMAIN holds \cup S |-> Count(holds, n) + (IF n \in S THEN 1 ELSE 0)]

(* A slip: every entry anchors, though only the last one lets go. *)
LeaseRootEach(t, n) == AddAnchors([t EXCEPT !.roots = Hold(@, {n})], {n})

LeaseRoot(t, n) == AddAnchors([t EXCEPT !.roots = Hold(@, {n})], {n} \ DOMAIN t.roots)

(* Of `less` entries at each node, at once. *)
ReleaseRoots(t, less) ==
  LET last == {n \in DOMAIN less : t.roots[n] <= less[n]}
  IN  RemoveAnchors([t EXCEPT !.roots =
        [n \in DOMAIN @ \ last |-> @[n] - Count(less, n)]], last)

PinAll(t, nodes) == AddAnchors([t EXCEPT !.pins = Hold(@, nodes)], nodes \ DOMAIN t.pins)

UnpinAll(t, nodes) ==
  LET last == {n \in nodes : t.pins[n] = 1}
  IN  RemoveAnchors([t EXCEPT !.pins =
        [n \in DOMAIN @ \ last |-> IF n \in nodes THEN @[n] - 1 ELSE @[n]]], last)
-----------------------------------------------------------------------------
(* Operations on a working set's mapping. *)

SetTerminal(t, w, n) == [t EXCEPT !.ws[w].terminal = n]
SetMapped(t, w, n) == [t EXCEPT !.ws[w].mapped = n]

MoveTerminal(t, w, n) ==
  IF t.ws[w].terminal = n THEN Result(t, {})
  ELSE RemoveAnchors(SetTerminal(AddAnchors(t, {n} \ {NoNode}), w, n),
                     {t.ws[w].terminal} \ {NoNode})

(* The node where a mapping that ends at n reaches its first b pages, made  *)
(* as a selection where no node ends there.                                 *)
Before(t, m) == Len(Locations(t, m)) - ContributionLen(t, m)

TakeOf(t, m, k, fresh) ==
  IF k = ContributionLen(t, m) THEN [t |-> t, node |-> m]
  ELSE [t |-> WithNode(t, fresh, Selection(Source(t, m), k)), node |-> fresh]

BoundaryTerminal(t, n, b, named) ==
  LET m == CHOOSE m \in Segments(t, n) :
             Before(t, m) < b /\ b <= Before(t, m) + ContributionLen(t, m)
  IN  TakeOf(t, m, b - Before(t, m), FreshNode(t, named))

CanExtendInPlace(t, n) ==
  /\ ~t.nodes[n].sel
  /\ Children(t, n) = {}
  /\ t.nodes[n].exact = 1
  /\ t.nodes[n].path = 1

PublishAppended(t, w, pages, named) ==
  LET end == t.ws[w].terminal
      fresh == FreshNode(t, named)
      extended == IF end # NoNode /\ CanExtendInPlace(t, end)
                    THEN [t EXCEPT !.nodes[end].pages = @ \o pages]
                    ELSE MoveTerminal(WithNode(t, fresh, Owned(end, pages)), w, fresh).t
  IN  IF pages = <<>> THEN t
      ELSE SetMapped(extended, w, t.ws[w].mapped + Len(pages))

(* What follows the first `from` pages is replaced. *)
Then(r, t) == Result(t, r.freed)

Appended(r, w, from, pages, named) ==
  Then(r, PublishAppended(SetMapped(r.t, w, from), w, pages, named))

CutTo(at, w) == MoveTerminal(at.t, w, at.node)

ReplaceTail(t, w, from, pages, named) ==
  Appended(IF from = t.ws[w].mapped THEN Result(t, {})
           ELSE CutTo(IF from = 0 THEN [t |-> t, node |-> NoNode]
                      ELSE BoundaryTerminal(t, t.ws[w].terminal, from, named), w),
           w, from, pages, named)

(* path_prefix_len: pages on the path up to this one. *)
PathPrefixLen(t, loc) == Len(Locations(t, loc[1])) - (ContributionLen(t, loc[1]) - loc[2])

(* attach: the pages w holds must be the path's own. *)
CanAttach(t, w, loc) ==
  LET path == Locations(t, loc[1])
      end == PathPrefixLen(t, loc)
      held == t.ws[w].mapped
  IN  held < end /\ WsLocations(t, w) = SubSeq(path, 1, held)

Attach(t, w, loc, named) ==
  LET end == PathPrefixLen(t, loc)
  IN  SetMapped(CutTo(BoundaryTerminal(t, loc[1], end, named), w).t, w, end)

(* release_working_set_backings *)
RemoveWs(t, w) ==
  RemoveAnchors([t EXCEPT !.ws = Without(@, {w})], {t.ws[w].terminal} \ {NoNode})

(* commit_hashes of the pages at locs: each takes its key,                   *)
(* and a node whose first page is keyed is found by it (index_node_start).   *)
WithPages(node, idx, pages) == [node EXCEPT !.idx = idx, !.pages = pages]

SealPages(t, locs, keys) ==
  LET at(loc) == CHOOSE i \in DOMAIN locs : locs[i] = loc
      named == ToSet(locs)
  IN  [t EXCEPT !.nodes = [n \in DOMAIN @ |->
         WithPages(@[n], @[n].idx \/ <<n, 1>> \in named,
           [i \in DOMAIN @[n].pages |->
              IF <<n, i>> \in named THEN [@[n].pages[i] EXCEPT !.key = keys[at(<<n, i>>)]]
                                    ELSE @[n].pages[i]])]]

SetBackings(t, locs, at) ==
  [t EXCEPT !.nodes = [n \in DOMAIN @ |->
     WithPages(@[n], @[n].idx,
       [i \in DOMAIN @[n].pages |->
          IF <<n, i>> \in locs THEN [@[n].pages[i] EXCEPT !.at = at[<<n, i>>]]
                               ELSE @[n].pages[i]])]]

(* unpin_swap_locations *)
UnpinSwaps(t, locs) ==
  CompactOwners([t EXCEPT !.swaps = @ \ locs], {loc[1] : loc \in locs \cap t.swaps})
-----------------------------------------------------------------------------
(* Finding sealed pages by key. *)

(* node_run: how many of n's first pages have those keys, are in no move and *)
(* (resident) on the device.                                                *)
NodeRun(t, n, keys, resident) ==
  Max({k \in 0..Len(keys) : \A i \in 1..k :
         /\ Live(t, <<n, i>>)
         /\ Page(t, <<n, i>>).key = keys[i]
         /\ resident => OnDevice(Page(t, <<n, i>>).at)
         /\ <<n, i>> \notin t.swaps})

(* sealed_run: node by node, the copy of a node start that runs furthest;    *)
(* which of several as long depends on the order they were sealed in, so     *)
(* these are the runs that can come out.                                     *)
Furthest(t, keys, resident) ==
  LET Reach(n) == NodeRun(t, n, keys, resident)
      copies == IF keys = <<>> THEN {}
                ELSE {n \in DOMAIN t.nodes : t.nodes[n].idx /\ Reach(n) > 0}
  IN  {n \in copies : \A m \in copies : Reach(m) <= Reach(n)}

FirstPages(n, len) == [i \in 1..len |-> <<n, i>>]

SealedRuns(t, keys, resident) ==
  LET rest(k) == SubSeq(keys, k + 1, Len(keys))
      run[k \in 0..Len(keys)] ==
        IF Furthest(t, rest(k), resident) = {} THEN {<<>>}
        ELSE UNION {LET len == NodeRun(t, n, rest(k), resident)
                    IN  {FirstPages(n, len) \o more : more \in run[k + len]} :
                    n \in Furthest(t, rest(k), resident)}
  IN  run[0]
-----------------------------------------------------------------------------
(* What the cache and the moves may take. *)

(* live_reads and unused_cache_roots: a root whose run some working set or  *)
(* pin reads whole is in use.                                               *)
UnusedRoots(t) ==
  LET anchors == ({t.ws[w].terminal : w \in DOMAIN t.ws} \ {NoNode}) \cup DOMAIN t.pins
      walked == UNION {PathNodes(t, a) : a \in anchors}
      Reads(n) ==  \* how many pages of n are read
        Max({0} \cup {ContributionLen(t, m) : m \in anchors \cap {n}}
                \cup {IF t.nodes[c].sel THEN t.nodes[c].take ELSE ContributionLen(t, n) :
                        c \in Children(t, n) \cap walked})
  IN  {r \in DOMAIN t.roots :
         LET source == Source(t, r)
         IN  source \notin walked \/ Reads(source) < ContributionLen(t, r)}

(* holds_resident: any page of a node on the path, taken or not. *)
HoldsResident(t, n) ==
  \E m \in PathNodes(t, n) : \E p \in ToSet(t.nodes[m].pages) : OnDevice(p.at)

SettledOnDevice(t, n) == \A l \in ToSet(Locations(t, n)) : Settled(t, l)

InMoveAt(t, n) == \E l \in t.swaps : l[1] \in PathNodes(t, n)

PinnedLocations(t) == UNION {ToSet(Locations(t, n)) : n \in DOMAIN t.pins}

Resident(t, locs) == {l \in locs : OnDevice(Page(t, l).at)}

(* A slip: what a running set shares goes out with the evicted ones. *)
MovableShared(t, S) == Resident(t, LocationsOf(t, S) \ PinnedLocations(t))

(* movable_resident_pages: what neither a running working set outside S nor *)
(* a pin reads.                                                             *)
Movable(t, S) ==
  LET running == {w \in DOMAIN t.ws : ~t.ws[w].suspended /\ w \notin S}
  IN  Resident(t, LocationsOf(t, S) \ (LocationsOf(t, running) \cup PinnedLocations(t)))

(* stranded_pages: only suspended working sets read them. *)
Stranded(t, keep) ==
  LET suspended == {w \in DOMAIN t.ws : t.ws[w].suspended}
      running == (DOMAIN t.ws \ suspended) \cup (keep \cap DOMAIN t.ws)
  IN  Resident(t, LocationsOf(t, suspended)
                    \ (LocationsOf(t, running) \cup PinnedLocations(t)))

SuspendedReaders(t, locs) ==
  {w \in DOMAIN t.ws : t.ws[w].suspended /\ LocationsOf(t, {w}) \cap locs # {}}

(* cache_only_pages: what only those roots hold. *)
CacheOnly(t, roots) ==
  Resident(t, (UNION {ToSet(Locations(t, r)) : r \in roots})
                \ (LocationsOf(t, DOMAIN t.ws) \cup PinnedLocations(t) \cup t.swaps))

(* device_pages_freed: what dropping those entries (a bag of roots) would    *)
(* free, by the anchors each counts for.                                     *)
DeviceFreed(t, dropped) ==
  LET Dropping(n) == MapThenSumSet(LAMBDA r : dropped[r],
                      {r \in DOMAIN dropped : n \in PathNodes(t, r)})
      Exact(n) == IF n \in DOMAIN dropped THEN dropped[n] ELSE 0
      OnDev(n, from) == {<<n, i>> : i \in {i \in DOMAIN t.nodes[n].pages :
                           i > from /\ OnDevice(t.nodes[n].pages[i].at)}}
      Left(n) == {c \in Children(t, n) : t.nodes[c].path # Dropping(c)}
      Freed(n) ==
        IF t.nodes[n].sel \/ Dropping(n) = 0 THEN {}
        ELSE IF t.nodes[n].path = Dropping(n) THEN OnDev(n, 0)
        ELSE IF \/ t.nodes[n].exact # Exact(n)
                \/ \E l \in t.swaps : l[1] = n
                \/ \E c \in Left(n) : ~t.nodes[c].sel THEN {}
        ELSE OnDev(n, Max({0} \cup {t.nodes[c].take : c \in Left(n)}))
  IN  UNION {Freed(n) : n \in DOMAIN t.nodes}

SetSuspended(t, S, flag) ==
  [t EXCEPT !.ws = [w \in DOMAIN @ |->
     IF w \in S THEN [@[w] EXCEPT !.suspended = flag] ELSE @[w]]]
=============================================================================
