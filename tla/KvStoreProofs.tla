--------------------------- MODULE KvStoreProofs ----------------------------
(***************************************************************************)
(* Proofs about KvStore for every pool of device pages and host slots,     *)
(* every page size and every bound.                                        *)
(*                                                                         *)
(* First the moves between the tiers keep Struct, which with               *)
(* KvStructProofs makes it inductive, and the anchors exact. Then a step   *)
(* is quiet, or opens a move, or closes one: what each of the three leaves *)
(* of the moves (MovesOk), of the sets that run and of the run a promotion *)
(* holds (RunsOk) and of the flat tables (FlatHere) gives the other        *)
(* invariants, each inductive on top of the ones before it.                *)
(***************************************************************************)
EXTENDS KvStructProofs

(* A move's number is new.                                                  *)
LEMMA MovesNumbered ==
  ASSUME InvUsed, Number("moves", MaxMoves)
  PROVE  /\ used.moves + 1 \in Nat /\ used.moves + 1 \notin DOMAIN moves
         /\ used' \in [sets : Nat, fires : Nat, moves : Nat]
         /\ used'.moves = used.moves + 1 /\ used'.fires = used.fires /\ used'.sets = used.sets
         /\ DOMAIN moves \cup {used.moves + 1} \subseteq 1..used'.moves
<1>1. used \in [sets : Nat, fires : Nat, moves : Nat] /\ DOMAIN moves \subseteq 1..used.moves
  BY DEF InvUsed
<1>2. used' = [used EXCEPT !["moves"] = @ + 1]
  BY DEF Number
<1>3. used'.moves = used.moves + 1 /\ used'.fires = used.fires /\ used'.sets = used.sets
      /\ used' \in [sets : Nat, fires : Nat, moves : Nat]
  BY <1>1, <1>2
<1> QED BY <1>1, <1>3

(* A move that began: it is a move, and holds what it pins.                 *)
LEMMA MoveBegun ==
  ASSUME InvMoves, InvUsed, NEW t, PinsExact(t, moves), NEW move, IsMove(move),
         Number("moves", MaxMoves), moves' = Put(moves, used.moves + 1, move),
         tab'.pins = Hold(t.pins, move.pinned), DOMAIN tab'.ws = DOMAIN tab.ws, fires' = fires
  PROVE  InvMoves' /\ InvUsed'
<1> DEFINE k == used.moves + 1
<1>1. /\ k \in Nat /\ k \notin DOMAIN moves /\ used' \in [sets : Nat, fires : Nat, moves : Nat]
      /\ used'.fires = used.fires /\ used'.sets = used.sets /\ DOMAIN moves \cup {k} \subseteq 1..used'.moves
  BY MovesNumbered
<1>2. IsFiniteSet(DOMAIN moves)
  BY NamedFinite
<1>3. DOMAIN moves' = DOMAIN moves \cup {k} /\ moves'[k] = move /\ \A m \in DOMAIN moves : moves'[m] = moves[m]
  BY <1>1 DEF Put
<1>4. InvUsed'
  BY <1>1, <1>3 DEF InvUsed
<1> HIDE DEF k
<1>5. \A n : Holders(moves', n) = IF n \in move.pinned THEN Holders(moves, n) \cup {k} ELSE Holders(moves, n)
  BY <1>1, <1>3 DEF Holders
<1>6. \A n \in move.pinned : k \notin Holders(moves, n)
  BY <1>1 DEF Holders
<1> DEFINE mv2 == moves'
           u == tab'
<1>7. PinsExact(u, mv2)
  <2> HIDE DEF mv2, u
  <2>1. \A n : Holders(mv2, n) = IF n \in move.pinned THEN Holders(moves, n) \cup {k} ELSE Holders(moves, n)
    BY <1>5 DEF mv2
  <2>2. u.pins = Hold(t.pins, move.pinned)
    BY DEF u
  <2> QED BY <1>2, <1>6, <2>1, <2>2, HoldersMore
<1>8. \A m \in DOMAIN moves' : IsMove(moves'[m])
  BY <1>3 DEF InvMoves
<1> QED BY <1>4, <1>7, <1>8 DEF InvMoves

(* A move that is over: it holds nothing any more.                          *)
LEMMA MoveEnded ==
  ASSUME InvMoves, InvUsed, NEW m \in DOMAIN moves, moves' = Without(moves, {m}),
         tab'.pins = LessPins(tab.pins, moves[m].pinned)
  PROVE  InvMoves' /\ DOMAIN moves' \subseteq DOMAIN moves
<1>1. DOMAIN moves' = DOMAIN moves \ {m} /\ \A k \in DOMAIN moves' : moves'[k] = moves[k]
  BY DEF Without
<1>2. IsFiniteSet(DOMAIN moves)
  BY NamedFinite
<1> DEFINE mv2 == moves'
           u == tab'
<1>3. \A n : Holders(mv2, n) = Holders(moves, n) \ {m}
  BY <1>1 DEF Holders
<1>4. \A n : n \in moves[m].pinned <=> m \in Holders(moves, n)
  BY DEF Holders
<1>5. PinsExact(u, mv2)
  <2>1. u.pins = LessPins(tab.pins, moves[m].pinned) /\ PinsExact(tab, moves)
    BY DEF InvMoves
  <2> HIDE DEF u, mv2
  <2> QED BY <1>2, <1>3, <1>4, <2>1, HoldersLess
<1> QED BY <1>1, <1>5 DEF InvMoves

(* What a move pins is pinned.                                              *)
LEMMA MovePinned ==
  ASSUME InvMoves, NEW m \in DOMAIN moves
  PROVE  moves[m].pinned \subseteq DOMAIN tab.pins
BY DEF InvMoves, PinsExact, Holders

(* What pinning for a move makes of the table.                              *)
Moving(t, nodes, locs, u) ==
  /\ Sound(u) /\ Alike(t, u) /\ u.ws = t.ws /\ u.roots = t.roots
  /\ u.pins = Hold(t.pins, nodes) /\ u.swaps = t.swaps \cup locs

(* Reading alike twice is reading alike.                                    *)
LEMMA AlikeOn ==
  ASSUME NEW t, NEW u, NEW v, Alike(t, u), Alike(u, v)
  PROVE  Alike(t, v)
BY DEF Alike

(* Pinning leaves a sound table sound.                                      *)
LEMMA PinnedSound ==
  ASSUME NEW t, Sound(t), NEW nodes, NEW u, Pinning(t, nodes, u)
  PROVE  Sound(u)
<1>1. Trie(u) /\ Alike(t, u) /\ u.ws = t.ws
  BY DEF Pinning
<1>2. IsSets(u) /\ Sized(u)
  BY <1>1, SoundFacts DEF IsSets, Sized, Sound, Alike
<1> QED BY <1>1, <1>2 DEF Sound

(* A move that pins nodes and marks swaps moves nothing yet.                *)
LEMMA Moves ==
  ASSUME NEW t, Sound(t), NEW nodes \in SUBSET DOMAIN t.nodes, NEW locs
  PROVE  Moving(t, nodes, locs, [PinAll(t, nodes) EXCEPT !.swaps = @ \cup locs])
<1> DEFINE u == PinAll(t, nodes)
           v == WithSwaps(u, u.swaps \cup locs)
<1>1. Pinning(t, nodes, u)
  BY SoundFacts, Pins
<1> HIDE DEF u
<1>2. Sound(u)
  BY <1>1, PinnedSound
<1>3. Sound(v) /\ Alike(u, v) /\ v.ws = u.ws /\ v.roots = u.roots /\ v.pins = u.pins /\ v.swaps = u.swaps \cup locs
  <2> DEFINE s == u.swaps \cup locs
  <2>1. u.swaps \subseteq s
    OBVIOUS
  <2> HIDE DEF s
  <2>2. /\ Sound(WithSwaps(u, s)) /\ Alike(u, WithSwaps(u, s)) /\ WithSwaps(u, s).ws = u.ws
        /\ WithSwaps(u, s).roots = u.roots /\ WithSwaps(u, s).pins = u.pins /\ WithSwaps(u, s).swaps = s
    BY <1>2, <2>1, SwapsAdded
  <2> QED BY <2>2 DEF s
<1>4. [PinAll(t, nodes) EXCEPT !.swaps = @ \cup locs] = v
  BY DEF WithSwaps, u
<1> HIDE DEF v
<1>5. Alike(t, v)
  BY <1>1, <1>3, AlikeOn DEF Pinning
<1>6. Moving(t, nodes, locs, v)
  BY <1>1, <1>3, <1>5 DEF Moving, Pinning
<1> QED BY <1>4, <1>6

(* The terminals of some sets are nodes.                                    *)
LEMMA TerminalsIn ==
  ASSUME NEW t, Sound(t), NEW S \in SUBSET DOMAIN t.ws, IsFiniteSet(S)
  PROVE  Terminals(t, S) \in SUBSET DOMAIN t.nodes /\ IsFiniteSet(Terminals(t, S)) /\ Terminals(t, S) \subseteq Nat
<1>1. \A w \in DOMAIN t.ws : t.ws[w].terminal \in DOMAIN t.nodes \cup {NoNode}
  BY WsLocationsAll
<1> DEFINE f == [w \in DOMAIN t.ws |-> t.ws[w].terminal]
           T == {f[w] : w \in S}
<1>2. IsFiniteSet(T)
  <2> HIDE DEF f
  <2> QED BY FiniteImage
<1>3. Terminals(t, S) = T \ {NoNode}
  BY DEF Terminals
<1>4. IsFiniteSet(Terminals(t, S))
  <2> HIDE DEF T
  <2> QED BY <1>2, <1>3, FS_Subset
<1>5. Terminals(t, S) \subseteq DOMAIN t.nodes
  BY <1>1 DEF Terminals
<1>6. DOMAIN t.nodes \subseteq Nat
  BY SoundFacts DEF Formed
<1> QED BY <1>4, <1>5, <1>6

(* The pages of a move: each of locs is one, with a page of gpus and a slot *)
(* of below.                                                                *)
MovePages(pages, locs, gpus, below) ==
  /\ pages \subseteq [loc : locs, gpu : gpus, slot : below] /\ IsFiniteSet(pages)
  /\ {p.loc : p \in pages} = locs

Listing(at, g, h) == {[loc |-> at[i], gpu |-> g[i], slot |-> h[i]] : i \in DOMAIN at}

(* The pages of a move, listed.                                             *)
LEMMA ListedPages ==
  ASSUME NEW locs, NEW n \in Nat, NEW at \in [1..n -> locs], ToSet(at) = locs, NEW g, NEW h, NEW gpus, NEW below,
         \A i \in 1..n : g[i] \in gpus /\ h[i] \in below
  PROVE  MovePages(Listing(at, g, h), locs, gpus, below)
<1> DEFINE P == [i \in 1..n |-> [loc |-> at[i], gpu |-> g[i], slot |-> h[i]]]
           S == {[loc |-> at[i], gpu |-> g[i], slot |-> h[i]] : i \in DOMAIN at}
<1>1. DOMAIN at = 1..n /\ IsFiniteSet(1..n)
  BY FS_Interval
<1>2. S = {P[i] : i \in 1..n}
  BY <1>1
<1>3. IsFiniteSet(S)
  <2>1. IsFiniteSet({P[i] : i \in 1..n})
    <3> HIDE DEF P
    <3> QED BY <1>1, FiniteImage
  <2> HIDE DEF S, P
  <2> QED BY <1>2, <2>1
<1>4. S \subseteq [loc : locs, gpu : gpus, slot : below]
  BY <1>1
<1>5. {p.loc : p \in S} = locs
  <2>1. \A l \in locs : \E i \in 1..n : at[i] = l
    BY <1>1 DEF ToSet
  <2>2. \A l \in locs : \E p \in S : p.loc = l
    <3> SUFFICES ASSUME NEW l \in locs PROVE \E p \in S : p.loc = l
      OBVIOUS
    <3>1. PICK i \in 1..n : at[i] = l
      BY <2>1
    <3>2. P[i] \in S /\ P[i].loc = l
      BY <1>2, <3>1
    <3> QED BY <3>2
  <2>3. \A p \in S : p.loc \in locs
    BY <1>4
  <2> HIDE DEF S
  <2> QED BY <2>2, <2>3
<1> QED BY <1>3, <1>4, <1>5 DEF MovePages, Listing

(* Pages taken for so many places.                                          *)
LEMMA TakenFor ==
  ASSUME NEW S \in SUBSET Nat, IsFiniteSet(S), NEW n \in 0..Cardinality(S)
  PROVE  /\ Lowest(n, S) \subseteq S /\ Cardinality(Lowest(n, S)) = n /\ IsFiniteSet(Lowest(n, S))
         /\ Len(OneByOne(Lowest(n, S))) = n
         /\ \A i \in 1..n : OneByOne(Lowest(n, S))[i] \in Lowest(n, S)
<1> DEFINE T == Lowest(n, S)
<1>1. LowestOf(n, S, T)
  BY LowestFound
<1>2. T \subseteq S /\ Cardinality(T) = n /\ IsFiniteSet(T)
  BY <1>1, FS_Subset DEF LowestOf
<1>3. n \in Nat
  BY FS_CardinalityType
<1> HIDE DEF T
<1>4. SetToSeq(T) \in Seq(T) /\ Len(SetToSeq(T)) = n
  BY <1>2, ListedLen
<1> DEFINE q == SetToSeq(T)
<1>5. \A i \in 1..n : q[i] \in T
  <2>1. q \in Seq(T) /\ Len(q) = n
    BY <1>4
  <2> HIDE DEF q
  <2> QED BY <2>1, <1>3
<1> QED BY <1>2, <1>4, <1>5 DEF T, OneByOne

(* Locations listed once each.                                              *)
LEMMA LocsListed ==
  ASSUME NEW locs, IsFiniteSet(locs)
  PROVE  /\ Cardinality(locs) \in Nat /\ SetToSeq(locs) \in [1..Cardinality(locs) -> locs]
         /\ ToSet(SetToSeq(locs)) = locs /\ DOMAIN SetToSeq(locs) = 1..Cardinality(locs)
<1> DEFINE q == SetToSeq(locs)
<1>1. q \in Seq(locs) /\ Len(q) = Cardinality(locs) /\ Cardinality(locs) \in Nat /\ ToSet(q) = locs
      /\ DOMAIN q = 1..Cardinality(locs)
  BY ListedLen
<1>2. q \in [1..Cardinality(locs) -> locs]
  <2> HIDE DEF q
  <2> QED BY <1>1
<1> QED BY <1>1, <1>2

(* Locations on the device, and their pages there.                          *)
OnDeviceAll(t, locs) == locs \subseteq LiveLocations(t) /\ \A l \in locs : OnDevice(Page(t, l).at)
BelowAll(t, locs) == locs \subseteq LiveLocations(t) /\ \A l \in locs : ~OnDevice(Page(t, l).at)

(* A placed page is a device page or a host slot.                           *)
LEMMA PageOnDevice ==
  ASSUME NEW t, Placed(t), NEW l \in LiveLocations(t)
  PROVE  /\ OnDevice(Page(t, l).at) => Page(t, l).at[2] \in DevicePages /\ Page(t, l).at = Device(Page(t, l).at[2])
         /\ ~OnDevice(Page(t, l).at) => Page(t, l).at[2] \in Slots /\ Page(t, l).at = Host(Page(t, l).at[2])
<1>1. IsBackingHere(Page(t, l).at)
  BY DEF Placed
<1> QED BY <1>1 DEF IsBackingHere, OnDevice, Device, Host

(* The pages of a move to the host.                                         *)
LEMMA MoveOutPages ==
  ASSUME NEW t, Placed(t), NEW p, NEW sets, NEW locs, IsFiniteSet(locs), OnDeviceAll(t, locs),
         NEW have \in SUBSET Slots, Cardinality(locs) <= Cardinality(have), IsFiniteSet(have)
  PROVE  MovePages(MoveOut(t, p, sets, locs, have).move.pages, locs, DevicePages, have)
<1> DEFINE n == Cardinality(locs)
           to == OneByOne(Lowest(n, have))
           at == SetToSeq(locs)
           g == [i \in 1..n |-> Page(t, at[i]).at[2]]
           pages == {[loc |-> at[i], gpu |-> Page(t, at[i]).at[2], slot |-> to[i]] : i \in DOMAIN at}
           listed == Listing(at, g, to)
<1>1. MoveOut(t, p, sets, locs, have).move.pages = pages
  BY DEF MoveOut, NoMove
<1>2. n \in Nat /\ at \in [1..n -> locs] /\ ToSet(at) = locs /\ DOMAIN at = 1..n
  BY LocsListed
<1>3. have \subseteq Nat /\ n \in 0..Cardinality(have)
  <2>1. have \subseteq Nat
    BY DEF Slots
  <2>2. Cardinality(have) \in Nat
    BY FS_CardinalityType
  <2> QED BY <2>1, <2>2, <1>2
<1> HIDE DEF n, at
<1>4. \A i \in 1..n : to[i] \in have
  BY <1>3, TakenFor
<1>5. \A i \in 1..n : g[i] \in DevicePages
  <2>1. \A i \in 1..n : at[i] \in LiveLocations(t) /\ OnDevice(Page(t, at[i]).at)
    BY <1>2 DEF OnDeviceAll
  <2> QED BY <2>1, PageOnDevice
<1>6. pages = listed
  BY <1>2 DEF Listing
<1> HIDE DEF to, g
<1>7. MovePages(listed, locs, DevicePages, have)
  BY <1>2, <1>4, <1>5, ListedPages
<1> HIDE DEF pages, listed
<1> QED BY <1>1, <1>6, <1>7

(* The pages of a move to the device.                                       *)
LEMMA MoveInPages ==
  ASSUME NEW t, Placed(t), NEW move, DOMAIN move = DOMAIN NoMove, NEW locs, IsFiniteSet(locs), BelowAll(t, locs),
         NEW gpus \in SUBSET DevicePages, Cardinality(locs) = Cardinality(gpus), IsFiniteSet(gpus), NEW pinned
  PROVE  MovePages(MoveIn(t, move, locs, gpus, pinned).move.pages, locs, gpus, Slots)
<1> DEFINE n == Cardinality(locs)
           to == OneByOne(gpus)
           at == SetToSeq(locs)
           h == [i \in 1..n |-> Page(t, at[i]).at[2]]
           pages == {[loc |-> at[i], gpu |-> to[i], slot |-> Page(t, at[i]).at[2]] : i \in DOMAIN at}
           listed == Listing(at, to, h)
<1>1. MoveIn(t, move, locs, gpus, pinned).move.pages = pages
  <2>1. "pages" \in DOMAIN move
    BY DEF NoMove
  <2> QED BY <2>1 DEF MoveIn
<1>2. n \in Nat /\ at \in [1..n -> locs] /\ ToSet(at) = locs /\ DOMAIN at = 1..n
  BY LocsListed
<1>4. \A i \in 1..n : to[i] \in gpus
  <2>1. SetToSeq(gpus) \in [1..n -> gpus]
    BY LocsListed
  <2> QED BY <2>1 DEF OneByOne
<1> HIDE DEF n, at
<1>5. \A i \in 1..n : h[i] \in Slots
  <2>1. \A i \in 1..n : at[i] \in LiveLocations(t) /\ ~OnDevice(Page(t, at[i]).at)
    BY <1>2 DEF BelowAll
  <2> QED BY <2>1, PageOnDevice
<1>6. pages = listed
  BY <1>2 DEF Listing
<1> HIDE DEF to, h
<1>7. MovePages(listed, locs, gpus, Slots)
  BY <1>2, <1>4, <1>5, ListedPages
<1> HIDE DEF pages, listed
<1> QED BY <1>1, <1>6, <1>7

(* What a prepared move out is.                                             *)
MovedOut(t, sets, locs, have, out) ==
  /\ IsMove(out.move) /\ out.move.kind = "out" /\ out.move.pinned = Terminals(t, sets)
  /\ out.move.sets = sets /\ out.move.ws = 0 /\ out.move.run = <<>> /\ out.move.grant = {}
  /\ MovePages(out.move.pages, locs, DevicePages, have)
  /\ Moving(t, Terminals(t, sets), locs, out.t)

(* Host slots are finitely many.                                            *)
LEMMA SlotsFinite ==
  ASSUME NEW S \in SUBSET Slots
  PROVE  IsFiniteSet(S) /\ Cardinality(S) \in Nat /\ S \subseteq Nat
<1>1. NumSlots \in Nat
  BY KvAssumption
<1>2. IsFiniteSet(Slots) /\ Slots \subseteq Nat
  BY <1>1, FS_Interval DEF Slots
<1> QED BY <1>2, FS_Subset, FS_CardinalityType

(* Device pages are finitely many.                                          *)
LEMMA PagesFinite ==
  ASSUME NEW S \in SUBSET DevicePages
  PROVE  IsFiniteSet(S) /\ Cardinality(S) \in Nat /\ S \subseteq Nat
<1>1. NumPages \in Nat
  BY KvAssumption
<1>2. IsFiniteSet(DevicePages) /\ DevicePages \subseteq Nat
  BY <1>1, FS_Interval DEF DevicePages
<1> QED BY <1>2, FS_Subset, FS_CardinalityType

(* A move to the host begins without moving anything.                       *)
LEMMA MovesOut ==
  ASSUME NEW t, Sound(t), Placed(t), NEW p \in Nat, NEW sets \in SUBSET DOMAIN t.ws, IsFiniteSet(sets),
         NEW locs, OnDeviceAll(t, locs), NEW have \in SUBSET Slots, Cardinality(locs) <= Cardinality(have)
  PROVE  MovedOut(t, sets, locs, have, MoveOut(t, p, sets, locs, have))
<1> DEFINE out == MoveOut(t, p, sets, locs, have)
           m == out.move
           pinned == Terminals(t, sets)
<1>1. IsFiniteSet(locs) /\ locs \subseteq Nat \X Nat
  BY SoundFacts, LiveFinite, FS_Subset DEF OnDeviceAll
<1>2. MovePages(m.pages, locs, DevicePages, have)
  BY <1>1, SlotsFinite, MoveOutPages
<1>3. pinned \in SUBSET DOMAIN t.nodes /\ IsFiniteSet(pinned) /\ pinned \subseteq Nat
  BY TerminalsIn
<1>4. out.t = [PinAll(t, pinned) EXCEPT !.swaps = @ \cup locs]
  BY DEF MoveOut
<1>5. Moving(t, pinned, locs, out.t)
  BY <1>3, <1>4, Moves
<1>6. \E pages : m = [NoMove EXCEPT !.proc = p, !.sets = sets, !.pages = pages, !.pinned = pinned]
  BY DEF MoveOut
<1> HIDE DEF m, pinned, out
<1>7. PICK pages : m = [NoMove EXCEPT !.proc = p, !.sets = sets, !.pages = pages, !.pinned = pinned]
  BY <1>6
<1>8. /\ m.kind = "out" /\ m.proc = p /\ m.sets = sets /\ m.ws = 0 /\ m.pages = pages /\ m.pinned = pinned
      /\ m.run = <<>> /\ m.grant = {}
      /\ m = [kind |-> "out", proc |-> p, sets |-> sets, ws |-> 0, pages |-> pages, pinned |-> pinned,
              run |-> <<>>, grant |-> {}]
  BY <1>7 DEF NoMove
<1>9. pages \subseteq [loc : Nat \X Nat, gpu : DevicePages, slot : Slots] /\ IsFiniteSet(pages)
  <2>1. pages \subseteq [loc : locs, gpu : DevicePages, slot : have] /\ IsFiniteSet(pages)
    BY <1>2, <1>8 DEF MovePages
  <2> QED BY <2>1, <1>1
<1>10. IsMove(m)
  BY <1>3, <1>8, <1>9 DEF IsMove
<1>11. MovedOut(t, sets, locs, have, out)
  BY <1>2, <1>5, <1>8, <1>10 DEF MovedOut, m, pinned
<1> QED BY <1>11 DEF out

(* What a preparation starts from: the store with room made in it.          *)
Roomy(gone) ==
  /\ Good(gone) /\ gone.t.ws = tab.ws /\ gone.t.pins = tab.pins /\ gone.t.swaps = tab.swaps
  /\ RootsExact(gone.t, cache') /\ PinsExact(gone.t, moves)
  /\ free' \subseteq DevicePages /\ pending' \subseteq Nat \X DevicePages
  /\ slots \cup SlotsOf(gone.freed) \in SUBSET Slots

(* Dropping entries for room keeps the structure.                           *)
LEMMA RoomMade ==
  ASSUME Struct, NEW entries \in SUBSET DOMAIN cache, MakeRoom(entries, Dropped(tab, entries))
  PROVE  Roomy(Dropped(tab, entries))
<1> DEFINE gone == Dropped(tab, entries)
           roots == LessRoots(tab, cache, entries)
<1> USE DEF Struct
<1>1. Sound(tab) /\ Placed(tab)
  BY DEF InvTable
<1>2. Rerooted(tab, roots, gone)
  BY <1>1, Drops
<1>3. cache' = Without(cache, entries) /\ (IF entries = {} THEN UNCHANGED pool
                     ELSE Retire(Recycled(seq, gone.freed), outstanding, free))
  BY DEF MakeRoom
<1> HIDE DEF gone
<1>4. Good(gone)
  BY <1>1, <1>2, GoodRerooted
<1>5. gone.t.ws = tab.ws /\ gone.t.roots = roots /\ gone.t.pins = tab.pins /\ gone.t.swaps = tab.swaps
  BY <1>2 DEF Rerooted
<1>6. RootsExact(gone.t, cache')
  BY <1>3, <1>5, RootsLess
<1>7. PinsExact(gone.t, moves)
  BY <1>5, HoldersSame DEF InvMoves
<1>8. DeviceOf(gone.freed) \subseteq DevicePages /\ SlotsOf(gone.freed) \subseteq Slots
  BY <1>4, ReturnedTyped DEF Good
<1>9. free' \subseteq DevicePages /\ pending' \subseteq Nat \X DevicePages
  <2>1. CASE entries = {}
    BY <2>1, <1>3 DEF InvPool, pool
  <2>2. CASE entries # {}
    <3>1. Recycled(seq, gone.freed) \subseteq Nat \X DevicePages
      BY <1>8 DEF InvPool, Recycled
    <3>2. Retire(Recycled(seq, gone.freed), outstanding, free)
      BY <2>2, <1>3
    <3>3. free \subseteq DevicePages
      BY DEF InvPool
    <3> DEFINE pend == Recycled(seq, gone.freed)
    <3> HIDE DEF pend
    <3>4. pend \subseteq Nat \X DevicePages /\ Retire(pend, outstanding, free)
      BY <3>1, <3>2 DEF pend
    <3> QED BY <3>3, <3>4, DueTyped DEF Retire
  <2> QED BY <2>1, <2>2
<1>10. Roomy(gone)
  BY <1>4, <1>5, <1>6, <1>7, <1>8, <1>9 DEF Roomy, InvPool
<1> QED BY <1>10 DEF gone

(* As does making none.                                                     *)
LEMMA NoRoomMade ==
  ASSUME Struct, UNCHANGED <<pool, cache>>
  PROVE  Roomy(Result(tab, {}))
<1> DEFINE gone == Result(tab, {})
<1>1. gone.t = tab /\ gone.freed = {}
  BY DEF Result
<1> HIDE DEF gone
<1>2. SlotsOf(gone.freed) = {}
  BY <1>1 DEF SlotsOf
<1>3. Roomy(gone)
  BY <1>1, <1>2 DEF Struct, Roomy, Good, InvTable, InvMoves, InvPool, pool
<1> QED BY <1>3 DEF gone

(* The sets are as they were, for what the pool, the fires and the log say. *)
SetsAlike(t, u) ==
  /\ DOMAIN u.ws = DOMAIN t.ws
  /\ \A w \in DOMAIN t.ws : /\ u.ws[w].mapped = t.ws[w].mapped /\ u.ws[w].logged = t.ws[w].logged
                            /\ u.ws[w].cuts = t.ws[w].cuts

(* The structure after a move was prepared.                                 *)
LEMMA Prepared ==
  ASSUME Struct, NEW gone, Roomy(gone), Sound(tab'), Placed(tab'), SetsAlike(tab, tab'),
         tab'.roots = gone.t.roots, InvMoves', InvUsed',
         slots' \subseteq slots \cup SlotsOf(gone.freed), UNCHANGED <<flat, epochs, fires>>
  PROVE  Struct'
<1> USE DEF Struct
<1>1. InvTable'
  BY DEF InvTable
<1>2. InvLogs'
  BY LogsStay DEF SetsAlike
<1>3. InvPool'
  BY DEF Roomy, InvPool, epochs
<1>4. InvFlat'
  BY FlatStays DEF SameLens, SetsAlike
<1>5. RootsExact(tab, cache)'
  BY DEF Roomy, RootsExact
<1>6. InvFires'
  BY FiresStay DEF SetsAlike
<1> QED BY <1>1, <1>2, <1>3, <1>4, <1>5, <1>6

(* The sets are finitely many.                                              *)
LEMMA SetsFinite ==
  ASSUME InvUsed, NEW S \in SUBSET DOMAIN tab.ws
  PROVE  IsFiniteSet(S)
<1>1. used.sets \in Nat /\ DOMAIN tab.ws \subseteq 1..used.sets
  BY DEF InvUsed
<1>2. IsFiniteSet(1..used.sets)
  BY <1>1, FS_Interval
<1> QED BY <1>1, <1>2, FS_Subset

(* Beginning a move to the host keeps the structure.                        *)
LEMMA OutStruct ==
  ASSUME Struct, NEW gone, Roomy(gone), NEW p \in Nat, NEW sets \in SUBSET DOMAIN tab.ws,
         NEW locs, OnDeviceAll(gone.t, locs), NEW have, have = slots \cup SlotsOf(gone.freed),
         Cardinality(locs) <= Cardinality(have),
         BeginOut(MoveOut(gone.t, p, sets, locs, have), have), UNCHANGED <<flat, epochs, fires>>
  PROVE  Struct'
<1> DEFINE out == MoveOut(gone.t, p, sets, locs, have)
<1> USE DEF Struct
<1>1. /\ Sound(gone.t) /\ Placed(gone.t) /\ gone.t.ws = tab.ws /\ gone.t.pins = tab.pins
      /\ have \in SUBSET Slots /\ PinsExact(gone.t, moves)
  BY DEF Roomy, Good
<1>2. MovedOut(gone.t, sets, locs, have, out)
  BY <1>1, SetsFinite, MovesOut
<1>3. /\ tab' = out.t /\ slots' = have \ SlotsIn(out.move)
      /\ moves' = Put(moves, used.moves + 1, out.move) /\ Number("moves", MaxMoves)
  BY DEF BeginOut, Begin
<1> HIDE DEF out
<1>4. IsMove(out.move) /\ out.move.pinned = Terminals(gone.t, sets) /\ Moving(gone.t, Terminals(gone.t, sets), locs, out.t)
  BY <1>2 DEF MovedOut
<1>5. /\ Sound(tab') /\ tab'.ws = tab.ws /\ tab'.roots = gone.t.roots
      /\ tab'.pins = Hold(gone.t.pins, out.move.pinned) /\ Alike(gone.t, tab')
  BY <1>1, <1>3, <1>4 DEF Moving
<1>6. Placed(tab')
  BY <1>1, <1>5, AlikePlaced
<1>7. InvMoves' /\ InvUsed'
  BY <1>1, <1>3, <1>4, <1>5, MoveBegun
<1>8. SetsAlike(tab, tab')
  BY <1>5 DEF SetsAlike
<1> QED BY <1>3, <1>5, <1>6, <1>7, <1>8, Prepared

(* What sets read is live.                                                  *)
LEMMA SetLocations ==
  ASSUME NEW t, Sound(t), NEW S \in SUBSET DOMAIN t.ws
  PROVE  LocationsOf(t, S) \subseteq LiveLocations(t)
<1>1. \A w \in DOMAIN t.ws : ToSet(WsLocations(t, w)) \subseteq LiveLocations(t)
  BY WsLocationsAll
<1> QED BY <1>1 DEF LocationsOf

(* Resident locations are on the device.                                    *)
LEMMA ResidentOn ==
  ASSUME NEW t, NEW locs, locs \subseteq LiveLocations(t)
  PROVE  OnDeviceAll(t, Resident(t, locs))
BY DEF OnDeviceAll, Resident

(* So are movable ones.                                                     *)
LEMMA MovableOn ==
  ASSUME NEW t, Sound(t), NEW S \in SUBSET DOMAIN t.ws
  PROVE  OnDeviceAll(t, Movable(t, S))
<1>1. LocationsOf(t, S) \subseteq LiveLocations(t)
  BY SetLocations
<1> DEFINE D == LocationsOf(t, S)
           X == LocationsOf(t, {w \in DOMAIN t.ws : ~t.ws[w].suspended /\ w \notin S}) \cup PinnedLocations(t)
<1>2. Movable(t, S) = Resident(t, D \ X)
  BY DEF Movable
<1>3. D \ X \subseteq LiveLocations(t)
  BY <1>1
<1> HIDE DEF D, X
<1> QED BY <1>2, <1>3, ResidentOn

(* So are stranded ones.                                                    *)
LEMMA StrandedOn ==
  ASSUME NEW t, Sound(t), NEW keep
  PROVE  OnDeviceAll(t, Stranded(t, keep))
<1> DEFINE U == {w \in DOMAIN t.ws : t.ws[w].suspended}
           D == LocationsOf(t, U)
           X == LocationsOf(t, (DOMAIN t.ws \ U) \cup (keep \cap DOMAIN t.ws)) \cup PinnedLocations(t)
<1>1. D \subseteq LiveLocations(t)
  <2>1. U \in SUBSET DOMAIN t.ws
    OBVIOUS
  <2> HIDE DEF U
  <2> QED BY <2>1, SetLocations
<1>2. Stranded(t, keep) = Resident(t, D \ X)
  BY DEF Stranded
<1>3. D \ X \subseteq LiveLocations(t)
  BY <1>1
<1> HIDE DEF D, X, U
<1> QED BY <1>2, <1>3, ResidentOn

(* So are those only the cache reads.                                       *)
LEMMA CacheOnlyOn ==
  ASSUME NEW t, Sound(t), NEW roots \in SUBSET DOMAIN t.roots
  PROVE  OnDeviceAll(t, CacheOnly(t, roots))
<1> DEFINE D == UNION {ToSet(Locations(t, r)) : r \in roots}
           X == LocationsOf(t, DOMAIN t.ws) \cup PinnedLocations(t) \cup t.swaps
<1>1. D \subseteq LiveLocations(t)
  <2>1. \A r \in roots : r \in DOMAIN t.nodes
    BY SoundFacts, AnchorsLive
  <2>2. \A r \in roots : ToSet(Locations(t, r)) \subseteq LiveLocations(t)
    BY <2>1, SoundFacts, LocationsLive
  <2> QED BY <2>2
<1>2. CacheOnly(t, roots) = Resident(t, D \ X)
  BY DEF CacheOnly
<1>3. D \ X \subseteq LiveLocations(t)
  BY <1>1
<1> HIDE DEF D, X
<1> QED BY <1>2, <1>3, ResidentOn

Suspend(e, flag) == [e EXCEPT !.suspended = flag]

(* set_suspended                                                            *)
Suspending(t, S, flag, u) ==
  /\ Sound(u) /\ Alike(t, u) /\ SetsAlike(t, u)
  /\ u.roots = t.roots /\ u.pins = t.pins /\ u.swaps = t.swaps
  /\ \A w \in DOMAIN t.ws : /\ u.ws[w].terminal = t.ws[w].terminal /\ u.ws[w].owner = t.ws[w].owner
                            /\ u.ws[w].suspended = IF w \in S THEN flag ELSE t.ws[w].suspended

(* Marking sets suspended or not changes nothing else of the table.         *)
LEMMA Suspends ==
  ASSUME NEW t, Sound(t), NEW S, NEW flag \in BOOLEAN
  PROVE  Suspending(t, S, flag, SetSuspended(t, S, flag))
<1> DEFINE u == SetSuspended(t, S, flag)
<1>1. IsTable(t) /\ IsSets(t)
  BY SoundFacts
<1> DEFINE ws == [w \in DOMAIN t.ws |-> IF w \in S THEN Suspend(t.ws[w], flag) ELSE t.ws[w]]
<1>a. u = [t EXCEPT !.ws = ws]
  BY DEF SetSuspended, Suspend
<1>b. \A x : [t EXCEPT !.ws = x].ws = x
  BY <1>1 DEF IsTable
<1>c. u.ws = ws
  BY <1>a, <1>b
<1>2. u = [t EXCEPT !.ws = u.ws] /\ u.ws = ws
  BY <1>a, <1>c
<1> HIDE DEF u
<1>3. SameNodes(t, u) /\ u.roots = t.roots /\ u.pins = t.pins /\ u.swaps = t.swaps
  BY <1>1, <1>2 DEF SameNodes, IsTable
<1>4. ASSUME NEW w \in DOMAIN t.ws
      PROVE  /\ IsSet(u.ws[w]) /\ u.ws[w].terminal = t.ws[w].terminal /\ u.ws[w].mapped = t.ws[w].mapped
             /\ u.ws[w].owner = t.ws[w].owner /\ u.ws[w].logged = t.ws[w].logged /\ u.ws[w].cuts = t.ws[w].cuts
             /\ u.ws[w].suspended = IF w \in S THEN flag ELSE t.ws[w].suspended
  <2>1. IsSet(t.ws[w])
    BY <1>1 DEF IsSets
  <2>2. u.ws[w] = IF w \in S THEN Suspend(t.ws[w], flag) ELSE t.ws[w]
    BY <1>2
  <2> QED BY <2>1, <2>2 DEF IsSet, Suspend
<1>5. DOMAIN u.ws = DOMAIN t.ws /\ u.ws = [w \in DOMAIN u.ws |-> u.ws[w]]
  BY <1>2
<1>6. Edited(t, u)
  BY <1>3, <1>4, <1>5 DEF Edited, IsSets
<1>8. SetsAlike(t, u)
  BY <1>4, <1>5 DEF SetsAlike
<1>9. Sound(u) /\ Alike(t, u)
  BY <1>6, EditsSound
<1>10. Suspending(t, S, flag, u)
  BY <1>3, <1>4, <1>8, <1>9 DEF Suspending
<1> QED BY <1>10 DEF u

(* PrepareSuspend keeps the structure.                                      *)
LEMMA PrepareSuspendStruct ==
  ASSUME Struct, NEW p \in 1..MaxSets, PrepareSuspend(p)
  PROVE  Struct'
<1> DEFINE entries == InTheWay(Movable(tab, SetsOf(p)))
           gone == Dropped(tab, entries)
           pages == Movable(gone.t, SetsOf(p))
           have == slots \cup SlotsOf(gone.freed)
<1> USE DEF Struct
<1>1. EvictAfter(p, entries, gone) /\ UNCHANGED <<flat, epochs, fires>>
  BY DEF PrepareSuspend
<1>2. MakeRoom(entries, gone) /\ Evict(p, gone.t, pages, have)
  BY <1>1 DEF EvictAfter
<1>3. entries \in SUBSET DOMAIN cache
  BY DEF InTheWay, OffDevice
<1> HIDE DEF entries
<1>4. Roomy(gone)
  BY <1>2, <1>3, RoomMade
<1> HIDE DEF gone
<1>5. /\ Sound(gone.t) /\ Placed(gone.t) /\ gone.t.ws = tab.ws /\ gone.t.pins = tab.pins
      /\ SetsOf(p) \in SUBSET DOMAIN tab.ws /\ PinsExact(gone.t, moves)
  BY <1>4 DEF Roomy, Good, SetsOf, LiveSets
<1>6. OnDeviceAll(gone.t, pages)
  BY <1>5, MovableOn
<1> HIDE DEF pages
<1>7. p \in Nat
  BY KvAssumption
<1>8. CASE Cardinality(pages) <= Cardinality(have) /\ BeginOut(MoveOut(gone.t, p, SetsOf(p), pages, have), have)
  BY <1>1, <1>4, <1>5, <1>6, <1>7, <1>8, OutStruct
<1>9. CASE tab' = SetSuspended(gone.t, SetsOf(p), TRUE) /\ slots' = have /\ Number("moves", MaxMoves) /\ UNCHANGED moves
  <2>1. Suspending(gone.t, SetsOf(p), TRUE, tab')
    BY <1>5, <1>9, Suspends
  <2>2. Sound(tab') /\ tab'.roots = gone.t.roots /\ tab'.pins = tab.pins /\ SetsAlike(tab, tab')
    BY <2>1, <1>5 DEF Suspending, SetsAlike
  <2>3. Placed(tab')
    BY <2>1, <1>5, AlikePlaced DEF Suspending
  <2>4. InvMoves'
    <3>1. PinsExact(tab', moves)
      BY <2>2, HoldersSame DEF InvMoves
    <3> QED BY <3>1, <1>9 DEF InvMoves, IsMove
  <2>5. InvUsed'
    BY <1>1, <1>9, <2>2, MovesNumbered DEF InvUsed, SetsAlike
  <2> QED BY <1>1, <1>4, <1>9, <2>2, <2>3, <2>4, <2>5, Prepared
<1>10. CASE tab' = gone.t /\ slots' = have /\ UNCHANGED <<moves, away, used>>
  <2>2. Sound(tab') /\ Placed(tab') /\ tab'.roots = gone.t.roots /\ tab'.pins = tab.pins /\ SetsAlike(tab, tab')
    BY <1>5, <1>10 DEF SetsAlike
  <2>4. InvMoves'
    <3>1. PinsExact(tab', moves)
      BY <2>2, HoldersSame DEF InvMoves
    <3> QED BY <3>1, <1>10 DEF InvMoves, IsMove
  <2>5. InvUsed'
    BY <1>1, <1>10, <2>2, UsedStays DEF SetsAlike
  <2> QED BY <1>1, <1>4, <1>10, <2>2, <2>4, <2>5, Prepared
<1> QED BY <1>2, <1>8, <1>9, <1>10 DEF Evict

(* A partial choice fits the slots there are.                               *)
LEMMA Partly ==
  ASSUME NEW all, IsFiniteSet(all), NEW have, IsFiniteSet(have),
         NEW pages \in kSubset(Min({Cardinality(all), Cardinality(have)}), all)
  PROVE  pages \in SUBSET all /\ Cardinality(pages) <= Cardinality(have)
<1>1. Cardinality(all) \in Nat /\ Cardinality(have) \in Nat
  BY FS_CardinalityType
<1>2. pages \in SUBSET all /\ Cardinality(pages) = Min({Cardinality(all), Cardinality(have)})
  BY DEF kSubset
<1> QED BY <1>1, <1>2, SmallerOf

(* PrepareSweep keeps the structure.                                        *)
LEMMA PrepareSweepStruct ==
  ASSUME Struct, NEW back, PrepareSweep(back)
  PROVE  Struct'
<1> DEFINE keep == UNION {SetsOf(p) : p \in back}
           entries == InTheWay(Stranded(tab, keep))
           gone == Dropped(tab, entries)
           all == Stranded(gone.t, keep)
           have == slots \cup SlotsOf(gone.freed)
<1> USE DEF Struct
<1>1. SweepAfter(keep, entries, gone) /\ UNCHANGED <<flat, epochs, fires>>
  BY DEF PrepareSweep
<1> HIDE DEF keep
<1>2. MakeRoom(entries, gone) /\ Sweep(gone.t, all, have)
  BY <1>1 DEF SweepAfter
<1>3. entries \in SUBSET DOMAIN cache
  BY DEF InTheWay, OffDevice
<1> HIDE DEF entries
<1>4. Roomy(gone)
  BY <1>2, <1>3, RoomMade
<1> HIDE DEF gone
<1>5. Sound(gone.t) /\ Placed(gone.t) /\ gone.t.ws = tab.ws /\ have \in SUBSET Slots
  BY <1>4 DEF Roomy, Good
<1>6. OnDeviceAll(gone.t, all)
  BY <1>5, StrandedOn
<1> HIDE DEF all
<1>7. PICK pages \in kSubset(Min({Cardinality(all), Cardinality(have)}), all) :
         BeginOut(MoveOut(gone.t, 0, SuspendedReaders(gone.t, pages), pages, have), have)
  BY <1>2 DEF Sweep
<1>8. IsFiniteSet(all) /\ IsFiniteSet(have)
  BY <1>5, <1>6, SoundFacts, LiveFinite, FS_Subset, SlotsFinite DEF OnDeviceAll
<1> DEFINE sets == SuspendedReaders(gone.t, pages)
<1>9. pages \in SUBSET all /\ Cardinality(pages) <= Cardinality(have)
  BY <1>7, <1>8, Partly
<1>10. OnDeviceAll(gone.t, pages) /\ sets \in SUBSET DOMAIN tab.ws
  BY <1>5, <1>6, <1>9 DEF OnDeviceAll, SuspendedReaders
<1>11. BeginOut(MoveOut(gone.t, 0, sets, pages, have), have)
  BY <1>7
<1> HIDE DEF sets
<1> QED BY <1>1, <1>4, <1>9, <1>10, <1>11, OutStruct

(* PrepareDemote keeps the structure.                                       *)
LEMMA PrepareDemoteStruct ==
  ASSUME Struct, PrepareDemote
  PROVE  Struct'
<1> USE DEF Struct
<1>1. PICK g \in Groups : \E pages \in kSubset(Min({Cardinality(CacheOnly(tab, {e.root : e \in GroupOf(g)})), Cardinality(slots)}),
                                                CacheOnly(tab, {e.root : e \in GroupOf(g)})) :
         BeginOut(MoveOut(tab, 0, {}, pages, slots), slots) /\ UNCHANGED <<pool, flat, cache, epochs, fires, away>>
  BY DEF PrepareDemote
<1> DEFINE roots == {e.root : e \in GroupOf(g)}
           all == CacheOnly(tab, roots)
           gone == Result(tab, {})
<1>2. PICK pages \in kSubset(Min({Cardinality(all), Cardinality(slots)}), all) :
         BeginOut(MoveOut(tab, 0, {}, pages, slots), slots) /\ UNCHANGED <<pool, flat, cache, epochs, fires, away>>
  BY <1>1
<1>3. Roomy(gone)
  BY <1>2, NoRoomMade
<1>4. gone.t = tab /\ slots = slots \cup SlotsOf(gone.freed)
  BY DEF Result, SlotsOf
<1>5. roots \in SUBSET DOMAIN tab.roots
  BY DEF GroupOf, Reclaimable, RootsExact, Entries
<1>6. Sound(tab) /\ slots \in SUBSET Slots
  BY DEF InvTable, InvPool
<1> HIDE DEF roots, gone
<1>7. OnDeviceAll(tab, all)
  BY <1>5, <1>6, CacheOnlyOn
<1> HIDE DEF all
<1>8. IsFiniteSet(all) /\ IsFiniteSet(slots)
  BY <1>6, <1>7, SoundFacts, LiveFinite, FS_Subset, SlotsFinite DEF OnDeviceAll
<1>9. pages \in SUBSET all /\ Cardinality(pages) <= Cardinality(slots)
  BY <1>2, <1>8, Partly
<1>10. OnDeviceAll(gone.t, pages)
  BY <1>4, <1>7, <1>9 DEF OnDeviceAll
<1>11. BeginOut(MoveOut(gone.t, 0, {}, pages, slots), slots) /\ UNCHANGED <<flat, epochs, fires>>
  BY <1>2, <1>4
<1> QED BY <1>3, <1>4, <1>9, <1>10, <1>11, OutStruct

MovedIn(t, mv, locs, gpus, pinned, in) ==
  /\ IsMove(in.move) /\ in.move.kind = "in" /\ in.move.pinned = pinned
  /\ in.move.sets = mv.sets /\ in.move.ws = mv.ws /\ in.move.run = mv.run /\ in.move.grant = mv.grant
  /\ in.move.proc = mv.proc
  /\ MovePages(in.move.pages, locs, gpus, Slots)
  /\ Moving(t, pinned, locs, in.t)

(* A move to the device begins without moving anything.                     *)
LEMMA MovesIn ==
  ASSUME NEW t, Sound(t), Placed(t), NEW mv, IsMove(mv), NEW locs, BelowAll(t, locs),
         NEW gpus \in SUBSET DevicePages, Cardinality(locs) = Cardinality(gpus),
         NEW pinned \in SUBSET DOMAIN t.nodes, IsFiniteSet(pinned)
  PROVE  MovedIn(t, mv, locs, gpus, pinned, MoveIn(t, mv, locs, gpus, pinned))
<1> DEFINE in == MoveIn(t, mv, locs, gpus, pinned)
           m == in.move
<1>1. IsFiniteSet(locs) /\ locs \subseteq Nat \X Nat
  BY SoundFacts, LiveFinite, FS_Subset DEF BelowAll
<1>2. DOMAIN mv = DOMAIN NoMove
  BY DEF IsMove, NoMove
<1>3. MovePages(m.pages, locs, gpus, Slots)
  BY <1>1, <1>2, PagesFinite, MoveInPages
<1>4. in.t = [PinAll(t, pinned) EXCEPT !.swaps = @ \cup locs]
  BY DEF MoveIn
<1>5. Moving(t, pinned, locs, in.t)
  BY <1>4, Moves
<1>6. \E pages : m = [mv EXCEPT !.kind = "in", !.pages = pages, !.pinned = pinned]
  BY DEF MoveIn
<1>a. DOMAIN t.nodes \subseteq Nat
  BY SoundFacts DEF Formed
<1> HIDE DEF m, in
<1>7. PICK pages : m = [mv EXCEPT !.kind = "in", !.pages = pages, !.pinned = pinned]
  BY <1>6
<1>8. /\ m.kind = "in" /\ m.proc = mv.proc /\ m.sets = mv.sets /\ m.ws = mv.ws /\ m.pages = pages
      /\ m.pinned = pinned /\ m.run = mv.run /\ m.grant = mv.grant
  BY <1>7 DEF IsMove
<1>9. pages \subseteq [loc : Nat \X Nat, gpu : DevicePages, slot : Slots] /\ IsFiniteSet(pages)
  <2>1. pages \subseteq [loc : locs, gpu : gpus, slot : Slots] /\ IsFiniteSet(pages)
    BY <1>3, <1>8 DEF MovePages
  <2> QED BY <2>1, <1>1
<1>10. IsMove(m)
  <2>1. m \in [kind : {"out", "in", "quoted", "reader"}, proc : Nat, sets : {m.sets}, ws : Nat,
            pages : SUBSET [loc : Nat \X Nat, gpu : DevicePages, slot : Slots],
            pinned : SUBSET Nat, run : Seq(Nat \X Nat), grant : SUBSET DevicePages]
    BY <1>7, <1>8, <1>9, <1>a DEF IsMove
  <2> QED BY <2>1, <1>8, <1>9 DEF IsMove
<1>11. MovedIn(t, mv, locs, gpus, pinned, in)
  BY <1>3, <1>5, <1>8, <1>10 DEF MovedIn, m
<1> QED BY <1>11 DEF in

(* Locations below are in host slots.                                       *)
LEMMA BelowOn ==
  ASSUME NEW t, NEW locs, locs \subseteq LiveLocations(t)
  PROVE  BelowAll(t, Below(t, locs))
BY DEF BelowAll, Below

MoveOf(p, S) == [NoMove EXCEPT !.proc = p, !.sets = S]

(* A restore with nothing to move.                                          *)
LEMMA EmptyMove ==
  ASSUME NEW p \in Nat, NEW S
  PROVE  /\ IsMove(MoveOf(p, S)) /\ MoveOf(p, S).ws = 0 /\ MoveOf(p, S).run = <<>> /\ MoveOf(p, S).grant = {}
         /\ MoveOf(p, S).proc = p /\ MoveOf(p, S).sets = S
<1> DEFINE mv == MoveOf(p, S)
<1>0. mv = [NoMove EXCEPT !.proc = p, !.sets = S]
  BY DEF MoveOf
<1> HIDE DEF mv
<1>1. mv = [kind |-> "out", proc |-> p, sets |-> S, ws |-> 0, pages |-> {}, pinned |-> {}, run |-> <<>>, grant |-> {}]
  BY <1>0 DEF NoMove
<1>2. IsFiniteSet({})
  BY FS_EmptySet
<1>3. /\ mv.kind = "out" /\ mv.proc = p /\ mv.sets = S /\ mv.ws = 0 /\ mv.pages = {} /\ mv.pinned = {}
      /\ mv.run = <<>> /\ mv.grant = {}
  BY <1>1
<1>4. IsMove(mv)
  BY <1>1, <1>2, <1>3 DEF IsMove
<1> QED BY <1>3, <1>4 DEF mv

(* PrepareRestore keeps the structure.                                      *)
LEMMA PrepareRestoreStruct ==
  ASSUME Struct, NEW p \in 1..MaxSets, PrepareRestore(p)
  PROVE  Struct'
<1> DEFINE S == SetsOf(p)
           locs == LocationsOf(tab, S)
           below == Below(tab, locs)
           gpus == Lowest(Cardinality(below), free)
           mv == MoveOf(p, S)
           pinned == Terminals(tab, S)
           in == MoveIn(tab, mv, below, gpus, pinned)
           gone == Result(tab, {})
<1> USE DEF Struct
<1>1. Restore(p, locs, below) /\ UNCHANGED <<pending, flat, cache, epochs, fires, away>>
  BY DEF PrepareRestore
<1>2. Cardinality(below) <= Cardinality(free) /\ Land(in, gpus)
  BY <1>1 DEF Restore, MoveOf
<1>3. /\ tab' = in.t /\ slots' = slots \ SlotsIn(in.move) /\ moves' = Put(moves, used.moves + 1, in.move)
      /\ Number("moves", MaxMoves) /\ free' = free \ gpus
  BY <1>2 DEF Land, Begin
<1>4. Sound(tab) /\ Placed(tab) /\ S \in SUBSET DOMAIN tab.ws /\ p \in Nat /\ free \in SUBSET DevicePages
  BY KvAssumption DEF InvTable, SetsOf, LiveSets, InvPool
<1>5. BelowAll(tab, below)
  BY <1>4, SetLocations, BelowOn
<1>6. IsMove(mv) /\ mv.ws = 0 /\ mv.run = <<>> /\ mv.grant = {} /\ mv.proc = p /\ mv.sets = S
  BY <1>4, EmptyMove
<1> HIDE DEF below, mv, S
<1>7. pinned \in SUBSET DOMAIN tab.nodes /\ IsFiniteSet(pinned)
  BY <1>4, SetsFinite, TerminalsIn
<1>8. IsFiniteSet(below) /\ Cardinality(below) \in Nat
  BY <1>4, <1>5, SoundFacts, LiveFinite, FS_Subset, FS_CardinalityType DEF BelowAll
<1>9. gpus \in SUBSET DevicePages /\ Cardinality(gpus) = Cardinality(below) /\ gpus \subseteq free
  <2>1. free \in SUBSET Nat /\ IsFiniteSet(free) /\ Cardinality(free) \in Nat
    BY <1>4, PagesFinite
  <2>2. Cardinality(below) \in 0..Cardinality(free)
    BY <1>2, <1>8, <2>1
  <2> DEFINE n == Cardinality(below)
  <2> HIDE DEF n
  <2>3. Lowest(n, free) \subseteq free /\ Cardinality(Lowest(n, free)) = n
    BY <2>1, <2>2, TakenFor DEF n
  <2> QED BY <2>3, <1>4 DEF n
<1> HIDE DEF gpus, pinned
<1>10. MovedIn(tab, mv, below, gpus, pinned, in)
  BY <1>4, <1>5, <1>6, <1>7, <1>9, MovesIn
<1> HIDE DEF in
<1>11. IsMove(in.move) /\ in.move.pinned = pinned /\ Moving(tab, pinned, below, in.t)
  BY <1>10 DEF MovedIn
<1>12. /\ Sound(tab') /\ tab'.ws = tab.ws /\ tab'.roots = tab.roots
       /\ tab'.pins = Hold(tab.pins, in.move.pinned) /\ Alike(tab, tab')
  BY <1>3, <1>11 DEF Moving
<1>13. InvMoves' /\ InvUsed'
  <2>1. PinsExact(tab, moves)
    BY DEF InvMoves
  <2> QED BY <2>1, <1>1, <1>3, <1>11, <1>12, MoveBegun
<1>14. Placed(tab')
  BY <1>4, <1>12, AlikePlaced
<1>15. InvTable' /\ InvLogs' /\ InvFlat' /\ RootsExact(tab, cache)' /\ InvFires'
  <2>1. InvTable'
    BY <1>12, <1>14 DEF InvTable
  <2>2. InvLogs' /\ InvFlat' /\ InvFires'
    BY <1>1, <1>12, LogsStay, FlatStays, FiresStay DEF SameLens
  <2>3. RootsExact(tab, cache)'
    BY <1>1, <1>12 DEF RootsExact
  <2> QED BY <2>1, <2>2, <2>3
<1>16. InvPool'
  BY <1>1, <1>3 DEF InvPool, epochs
<1> QED BY <1>13, <1>15, <1>16

(* What ending a move leaves of the table.                                  *)
Released(t, move, r) ==
  /\ Good(r) /\ r.t.ws = t.ws /\ r.t.roots = t.roots
  /\ r.t.pins = LessPins(t.pins, move.pinned) /\ r.t.swaps = t.swaps \ LocsIn(move)

(* A move's end gives up its pins and swaps.                                *)
LEMMA Releases ==
  ASSUME NEW t, Sound(t), Placed(t), NEW move, move.pinned \subseteq DOMAIN t.pins
  PROVE  Released(t, move, Unpinned(t, move))
<1> DEFINE q == UnpinAll(t, move.pinned)
           s == UnpinSwaps(q.t, LocsIn(move))
           r == Unpinned(t, move)
<1>1. Repinned(t, LessPins(t.pins, move.pinned), q)
  BY Unpins
<1>2. r = Result(s.t, s.freed \cup q.freed)
  BY DEF Unpinned, UnpinPages, Freeing
<1> HIDE DEF q
<1>3. Good(q)
  BY <1>1, GoodRepinned
<1>4. Sound(q.t) /\ q.t.ws = t.ws /\ q.t.roots = t.roots /\ q.t.pins = LessPins(t.pins, move.pinned) /\ q.t.swaps = t.swaps
  BY <1>1 DEF Repinned
<1>5. Unswapped(q.t, LocsIn(move), s)
  BY <1>4, UnpinsSwaps
<1> HIDE DEF s
<1>6. Good(s)
  BY <1>3, <1>5, GoodUnswapped DEF Good
<1>7. s.t.ws = t.ws /\ s.t.roots = t.roots /\ s.t.pins = q.t.pins /\ s.t.swaps = t.swaps \ LocsIn(move)
  BY <1>4, <1>5 DEF Unswapped
<1>8. r.t = s.t /\ r.freed = s.freed \cup q.freed
  BY <1>2 DEF Result
<1> HIDE DEF r
<1>9. Good(r)
  BY <1>3, <1>6, <1>8 DEF Good
<1>10. Released(t, move, r)
  BY <1>4, <1>7, <1>8, <1>9 DEF Released
<1> QED BY <1>10 DEF r

(* More of the pools' pages given back.                                     *)
LEMMA FreeingGood ==
  ASSUME NEW r, Good(r), NEW B, \A b \in B : IsBackingHere(b)
  PROVE  Good(Freeing(r, B)) /\ Freeing(r, B).t = r.t /\ Freeing(r, B).freed = r.freed \cup B
<1>1. Freeing(r, B).t = r.t /\ Freeing(r, B).freed = r.freed \cup B
  BY DEF Freeing, Result
<1> QED BY <1>1 DEF Good

(* A move's pages and slots belong to the pools.                            *)
LEMMA MoveFacts ==
  ASSUME NEW move, IsMove(move)
  PROVE  /\ \A b \in DevicesIn(move) : IsBackingHere(b)
         /\ \A b \in HostsIn(move) : IsBackingHere(b)
         /\ GpusIn(move) \subseteq DevicePages /\ SlotsIn(move) \subseteq Slots /\ move.grant \subseteq DevicePages
<1>1. /\ \A p \in move.pages : p.gpu \in DevicePages /\ p.slot \in Slots
      /\ move.grant \subseteq DevicePages
  BY DEF IsMove
<1>2. GpusIn(move) \subseteq DevicePages /\ SlotsIn(move) \subseteq Slots
  BY <1>1 DEF GpusIn, SlotsIn
<1> QED BY <1>1, <1>2 DEF DevicesIn, HostsIn, IsBackingHere, Device, Host

(* The pages of a move swapped to their slots, or their device pages.       *)
Swapped(t, u) ==
  /\ Sound(u) /\ Placed(u) /\ ReadAlike(t, u) /\ SameRest(t, u)

(* Backings of the pools put in place of others.                            *)
LEMMA SwapsPlaced ==
  ASSUME NEW t, Sound(t), Placed(t), NEW locs, NEW at, \A l \in locs : IsBackingHere(at[l])
  PROVE  Swapped(t, SetBackings(t, locs, at))
<1> DEFINE u == SetBackings(t, locs, at)
<1>1. \A l \in locs : IsBacking(at[l])
  BY KvAssumption DEF IsBackingHere, IsBacking, DevicePages, Slots
<1>2. Rebacked(t, locs, at, u)
  BY <1>1, SetsBackings
<1> HIDE DEF u
<1>3. Placed(u)
  BY <1>2 DEF Rebacked, ReadAlike, Placed
<1>4. Swapped(t, u)
  BY <1>2, <1>3 DEF Rebacked, Swapped
<1> QED BY <1>4 DEF u

(* A move's swap puts its own pages in place.                               *)
LEMMA SwapsIn ==
  ASSUME NEW t, Sound(t), Placed(t), NEW move, IsMove(move)
  PROVE  Swapped(t, Swap(t, move, InSlot)) /\ Swapped(t, Swap(t, move, OnGpu))
<1> DEFINE P(l) == CHOOSE p \in move.pages : p.loc = l
           locs == LocsIn(move)
           a == [l \in locs |-> Host(P(l).slot)]
           b == [l \in locs |-> Device(P(l).gpu)]
<1>1. \A l \in locs : P(l) \in move.pages
  BY DEF LocsIn
<1>2. \A p \in move.pages : p.gpu \in DevicePages /\ p.slot \in Slots
  BY DEF IsMove
<1>3. \A l \in locs : P(l).slot \in Slots /\ P(l).gpu \in DevicePages
  <2> HIDE DEF P
  <2> QED BY <1>1, <1>2
<1>4. Swap(t, move, InSlot) = SetBackings(t, locs, a)
  BY DEF Swap, InSlot
<1>5. Swap(t, move, OnGpu) = SetBackings(t, locs, b)
  BY DEF Swap, OnGpu
<1> HIDE DEF P, locs
<1>6. \A l \in locs : IsBackingHere(a[l]) /\ IsBackingHere(b[l])
  BY <1>3 DEF IsBackingHere, Device, Host
<1> HIDE DEF a, b
<1>7. Swapped(t, SetBackings(t, locs, a)) /\ Swapped(t, SetBackings(t, locs, b))
  BY <1>6, SwapsPlaced
<1> QED BY <1>4, <1>5, <1>7

(* What a commit has made of the table before it lets the move's nodes go.  *)
Staged(t) == Sound(t) /\ Placed(t) /\ SetsAlike(tab, t) /\ t.roots = tab.roots /\ t.pins = tab.pins

(* The table as it is is staged for the end of a move.                      *)
LEMMA StagedHere == ASSUME Struct PROVE Staged(tab)
BY DEF Struct, InvTable, Staged, SetsAlike

(* So is one swapped.                                                       *)
LEMMA StagedSwap ==
  ASSUME Struct, NEW t, Swapped(tab, t)
  PROVE  Staged(t)
BY DEF Swapped, SameRest, Staged, SetsAlike

(* So is one whose sets are marked.                                         *)
LEMMA StagedSuspended ==
  ASSUME NEW t, Staged(t), NEW S, NEW flag \in BOOLEAN
  PROVE  Staged(SetSuspended(t, S, flag))
<1> DEFINE u == SetSuspended(t, S, flag)
<1>1. Suspending(t, S, flag, u)
  BY Suspends DEF Staged
<1> HIDE DEF u
<1>2. Placed(u)
  BY <1>1, AlikePlaced DEF Staged, Suspending
<1>3. Staged(u)
  BY <1>1, <1>2 DEF Staged, Suspending, SetsAlike
<1> QED BY <1>3 DEF u

(* The end of a move keeps the structure.                                   *)
LEMMA Ending ==
  ASSUME Struct, NEW m \in DOMAIN moves, NEW t, Staged(t),
         NEW B, \A b \in B : IsBackingHere(b), NEW back, back \subseteq DevicePages,
         GiveBack(Freeing(Unpinned(t, moves[m]), B), back), EndMove(m),
         flat' = flat \/ \E S : flat' = Refreshed(S, tab'),
         UNCHANGED <<cache, epochs, fires, used>>
  PROVE  Struct'
<1> DEFINE q == Unpinned(t, moves[m])
           r == Freeing(q, B)
<1> USE DEF Struct
<1>1. Sound(t) /\ Placed(t) /\ SetsAlike(tab, t) /\ t.roots = tab.roots /\ t.pins = tab.pins
  BY DEF Staged
<1>2. moves[m].pinned \subseteq DOMAIN t.pins
  BY <1>1, MovePinned
<1>3. Released(t, moves[m], q)
  BY <1>1, <1>2, Releases
<1> HIDE DEF q
<1>4. Good(r) /\ r.t = q.t
  BY <1>3, FreeingGood DEF Released
<1>5. GiveBack(r, back)
  BY DEF q
<1> HIDE DEF r
<1>6. tab' = r.t
  BY <1>5 DEF GiveBack
<1>7. /\ Sound(tab') /\ Placed(tab') /\ SetsAlike(tab, tab') /\ tab'.roots = tab.roots
      /\ tab'.pins = LessPins(tab.pins, moves[m].pinned)
  BY <1>1, <1>3, <1>4, <1>6 DEF Good, Released, SetsAlike
<1>8. InvPool'
  BY <1>4, <1>5, GivesBack DEF Good
<1>9. InvMoves' /\ DOMAIN moves' \subseteq DOMAIN moves
  BY <1>7, MoveEnded DEF EndMove
<1>10. InvTable'
  BY <1>7 DEF InvTable
<1>11. InvLogs'
  BY <1>7, LogsStay DEF SetsAlike
<1>12. InvFlat'
  <2>1. CASE flat' = flat
    BY <2>1, <1>7, FlatStays DEF SameLens, SetsAlike
  <2>2. CASE \E S : flat' = Refreshed(S, tab')
    <3>1. PICK S : flat' = Refreshed(S, tab')
      BY <2>2
    <3>2. SameLens(tab, tab', S)
      BY <1>7 DEF SameLens, SetsAlike
    <3> QED BY <3>1, <3>2, <1>7, FlatRefreshed
  <2> QED BY <2>1, <2>2
<1>13. RootsExact(tab, cache)'
  BY <1>7 DEF RootsExact
<1>14. InvFires' /\ InvUsed'
  BY <1>7, <1>9, FiresStay, UsedStays DEF SetsAlike
<1> QED BY <1>8, <1>9, <1>10, <1>11, <1>12, <1>13, <1>14

(* Nothing more given back.                                                 *)
LEMMA FreeingNone ==
  ASSUME NEW t, NEW move
  PROVE  Freeing(Unpinned(t, move), {}) = Unpinned(t, move)
BY DEF Freeing, Unpinned, UnpinPages, Result

(* CommitOut keeps the structure.                                           *)
LEMMA CommitOutStruct ==
  ASSUME Struct, NEW m \in DOMAIN moves, CommitOut(m)
  PROVE  Struct'
<1> DEFINE move == moves[m]
           sets == move.sets \cap LiveSets
           s == Swap(tab, move, InSlot)
           t == SetSuspended(s, sets, TRUE)
<1>1. /\ GiveBack(Freeing(Unpinned(t, move), DevicesIn(move)), {}) /\ flat' = Refreshed(sets, tab')
      /\ EndMove(m) /\ UNCHANGED <<cache, epochs, fires, used>>
  BY DEF CommitOut
<1>2. IsMove(move) /\ Sound(tab) /\ Placed(tab)
  BY DEF Struct, InvMoves, InvTable
<1>3. Staged(s)
  BY <1>2, SwapsIn, StagedSwap
<1> HIDE DEF s
<1>4. Staged(t)
  BY <1>3, StagedSuspended
<1> HIDE DEF t
<1>5. \A b \in DevicesIn(move) : IsBackingHere(b)
  BY <1>2, MoveFacts
<1> QED BY <1>1, <1>4, <1>5, Ending

(* AbortOut keeps the structure.                                            *)
LEMMA AbortOutStruct ==
  ASSUME Struct, NEW m \in DOMAIN moves, AbortOut(m)
  PROVE  Struct'
<1>1. /\ GiveBack(Freeing(Unpinned(tab, moves[m]), HostsIn(moves[m])), {}) /\ flat' = flat
      /\ EndMove(m) /\ UNCHANGED <<cache, epochs, fires, used>>
  BY DEF AbortOut
<1>2. IsMove(moves[m])
  BY DEF Struct, InvMoves
<1>3. Staged(tab)
  BY StagedHere
<1>5. \A b \in HostsIn(moves[m]) : IsBackingHere(b)
  BY <1>2, MoveFacts
<1> QED BY <1>1, <1>3, <1>5, Ending

(* CommitRestore keeps the structure.                                       *)
LEMMA CommitRestoreStruct ==
  ASSUME Struct, NEW m \in DOMAIN moves, CommitRestore(m)
  PROVE  Struct'
<1> DEFINE move == moves[m]
           sets == move.sets \cap LiveSets
           s == Swap(tab, move, OnGpu)
           t == SetSuspended(s, sets, FALSE)
<1>1. /\ GiveBack(Freeing(Unpinned(t, move), HostsIn(move)), {}) /\ flat' = Refreshed(sets, tab')
      /\ EndMove(m) /\ UNCHANGED <<cache, epochs, fires, used>>
  BY DEF CommitRestore
<1>2. IsMove(move) /\ Sound(tab) /\ Placed(tab)
  BY DEF Struct, InvMoves, InvTable
<1>3. Staged(s)
  BY <1>2, SwapsIn, StagedSwap
<1> HIDE DEF s
<1>4. Staged(t)
  BY <1>3, StagedSuspended
<1> HIDE DEF t
<1>5. \A b \in HostsIn(move) : IsBackingHere(b)
  BY <1>2, MoveFacts
<1> QED BY <1>1, <1>4, <1>5, Ending

(* AbortIn keeps the structure.                                             *)
LEMMA AbortInStruct ==
  ASSUME Struct, NEW m \in DOMAIN moves, AbortIn(m)
  PROVE  Struct'
<1> DEFINE back == GpusIn(moves[m]) \cup moves[m].grant
           B == {}
<1>1. /\ GiveBack(Unpinned(tab, moves[m]), back) /\ flat' = flat
      /\ EndMove(m) /\ UNCHANGED <<cache, epochs, fires, used>>
  BY DEF AbortIn
<1>2. back \subseteq DevicePages
  BY MoveFacts DEF Struct, InvMoves
<1>3. Staged(tab)
  BY StagedHere
<1> HIDE DEF back
<1>4. GiveBack(Freeing(Unpinned(tab, moves[m]), B), back) /\ \A b \in B : IsBackingHere(b)
  BY <1>1, FreeingNone
<1> HIDE DEF B
<1> QED BY <1>1, <1>2, <1>3, <1>4, Ending

(* ReleaseReader keeps the structure.                                       *)
LEMMA ReleaseReaderStruct ==
  ASSUME Struct, NEW m \in DOMAIN moves, ReleaseReader(m)
  PROVE  Struct'
<1> DEFINE back == {}
           B == {}
<1>1. /\ GiveBack(Unpinned(tab, moves[m]), back) /\ flat' = flat
      /\ EndMove(m) /\ UNCHANGED <<cache, epochs, fires, used>>
  BY DEF ReleaseReader
<1>2. back \subseteq DevicePages
  OBVIOUS
<1>3. Staged(tab)
  BY StagedHere
<1>4. GiveBack(Freeing(Unpinned(tab, moves[m]), B), back) /\ \A b \in B : IsBackingHere(b)
  BY <1>1, FreeingNone
<1> HIDE DEF B, back
<1> QED BY <1>1, <1>2, <1>3, <1>4, Ending

(* commit_promote                                                           *)
ReaderOf(move) == [NoMove EXCEPT !.kind = "reader", !.ws = move.ws, !.pinned = move.pinned, !.run = move.run]

(* The reader a committed promotion leaves.                                 *)
LEMMA ReaderTyped ==
  ASSUME NEW move, IsMove(move)
  PROVE  /\ IsMove(ReaderOf(move)) /\ ReaderOf(move).pinned = move.pinned /\ ReaderOf(move).kind = "reader"
         /\ ReaderOf(move).ws = move.ws /\ ReaderOf(move).run = move.run /\ ReaderOf(move).pages = {}
         /\ ReaderOf(move).grant = {} /\ ReaderOf(move).proc = 0
<1> DEFINE mv == ReaderOf(move)
<1>0. mv = [NoMove EXCEPT !.kind = "reader", !.ws = move.ws, !.pinned = move.pinned, !.run = move.run]
  BY DEF ReaderOf
<1> HIDE DEF mv
<1>1. mv = [kind |-> "reader", proc |-> 0, sets |-> {}, ws |-> move.ws, pages |-> {}, pinned |-> move.pinned,
            run |-> move.run, grant |-> {}]
  BY <1>0 DEF NoMove
<1>2. IsFiniteSet({}) /\ IsFiniteSet(move.pinned) /\ move.pinned \subseteq Nat /\ move.ws \in Nat /\ move.run \in Seq(Nat \X Nat)
  BY FS_EmptySet DEF IsMove
<1>3. /\ mv.kind = "reader" /\ mv.proc = 0 /\ mv.sets = {} /\ mv.ws = move.ws /\ mv.pages = {} /\ mv.pinned = move.pinned
      /\ mv.run = move.run /\ mv.grant = {}
  BY <1>1
<1>4. IsMove(mv)
  BY <1>1, <1>2, <1>3 DEF IsMove
<1> QED BY <1>3, <1>4 DEF mv

(* CommitPromote keeps the structure.                                       *)
LEMMA CommitPromoteStruct ==
  ASSUME Struct, NEW m \in DOMAIN moves, CommitPromote(m)
  PROVE  Struct'
<1> DEFINE move == moves[m]
           s == Swap(tab, move, OnGpu)
           q == UnpinSwaps(s, LocsIn(move))
           r == Freeing(q, HostsIn(move))
<1> USE DEF Struct
<1>1. /\ GiveBack(r, move.grant) /\ moves' = [moves EXCEPT ![m] = ReaderOf(move)]
      /\ UNCHANGED <<flat, cache, epochs, fires, away, used>>
  BY DEF CommitPromote, ReaderOf
<1>2. IsMove(move) /\ Sound(tab) /\ Placed(tab)
  BY DEF InvMoves, InvTable
<1>3. Staged(s)
  BY <1>2, SwapsIn, StagedSwap
<1> HIDE DEF s
<1>4. Unswapped(s, LocsIn(move), q)
  BY <1>3, UnpinsSwaps DEF Staged
<1> HIDE DEF q
<1>5. Good(q)
  BY <1>3, <1>4, GoodUnswapped DEF Staged
<1>6. Good(r) /\ r.t = q.t
  BY <1>2, <1>5, MoveFacts, FreeingGood
<1>7. tab' = r.t
  BY <1>1 DEF GiveBack
<1> HIDE DEF r
<1>8. /\ Sound(tab') /\ Placed(tab') /\ SetsAlike(tab, tab') /\ tab'.roots = tab.roots /\ tab'.pins = tab.pins
  BY <1>3, <1>4, <1>6, <1>7 DEF Good, Unswapped, Staged, SetsAlike
<1>9. InvPool'
  BY <1>1, <1>2, <1>6, MoveFacts, GivesBack DEF Good
<1>10. InvMoves' /\ DOMAIN moves' \subseteq DOMAIN moves
  <2>1. DOMAIN moves' = DOMAIN moves /\ moves'[m] = ReaderOf(move) /\ \A k \in DOMAIN moves : k # m => moves'[k] = moves[k]
    BY <1>1
  <2>2. IsMove(ReaderOf(move)) /\ ReaderOf(move).pinned = move.pinned
    BY <1>2, ReaderTyped
  <2>3. \A k \in DOMAIN moves : moves'[k].pinned = moves[k].pinned
    BY <2>1, <2>2
  <2> DEFINE mv2 == moves'
             u == tab'
  <2>4. \A n : Holders(mv2, n) = Holders(moves, n)
    BY <2>1, <2>3 DEF Holders
  <2>5. PinsExact(u, mv2)
    <3>1. PinsExact(tab, moves) /\ u.pins = tab.pins
      BY <1>8 DEF InvMoves
    <3> HIDE DEF u, mv2
    <3> QED BY <2>4, <3>1, HoldersSame
  <2> QED BY <2>1, <2>2, <2>5 DEF InvMoves
<1>11. InvTable' /\ InvLogs' /\ InvFlat'
  BY <1>1, <1>8, LogsStay, FlatStays DEF InvTable, SameLens, SetsAlike
<1>13. RootsExact(tab, cache)'
  BY <1>1, <1>8 DEF RootsExact
<1>14. InvFires' /\ InvUsed'
  BY <1>1, <1>8, <1>10, FiresStay, UsedStays DEF SetsAlike
<1> QED BY <1>9, <1>10, <1>11, <1>13, <1>14

QuotedMove(w, run, grant) == [NoMove EXCEPT !.kind = "quoted", !.ws = w, !.run = run, !.grant = grant]

(* A promotion that is only quoted.                                         *)
LEMMA QuotedTyped ==
  ASSUME NEW w \in Nat, NEW run \in Seq(Nat \X Nat), NEW grant \in SUBSET DevicePages
  PROVE  /\ IsMove(QuotedMove(w, run, grant)) /\ QuotedMove(w, run, grant).pinned = {}
         /\ QuotedMove(w, run, grant).pages = {} /\ QuotedMove(w, run, grant).kind = "quoted"
         /\ QuotedMove(w, run, grant).ws = w /\ QuotedMove(w, run, grant).run = run
         /\ QuotedMove(w, run, grant).grant = grant /\ QuotedMove(w, run, grant).proc = 0
<1> DEFINE mv == QuotedMove(w, run, grant)
<1>0. mv = [NoMove EXCEPT !.kind = "quoted", !.ws = w, !.run = run, !.grant = grant]
  BY DEF QuotedMove
<1> HIDE DEF mv
<1>1. mv = [kind |-> "quoted", proc |-> 0, sets |-> {}, ws |-> w, pages |-> {}, pinned |-> {}, run |-> run, grant |-> grant]
  BY <1>0 DEF NoMove
<1>2. IsFiniteSet({})
  BY FS_EmptySet
<1>3. /\ mv.kind = "quoted" /\ mv.proc = 0 /\ mv.sets = {} /\ mv.ws = w /\ mv.pages = {} /\ mv.pinned = {}
      /\ mv.run = run /\ mv.grant = grant
  BY <1>1
<1>4. IsMove(mv)
  BY <1>1, <1>2, <1>3 DEF IsMove
<1> QED BY <1>3, <1>4 DEF mv

(* A move that pins nothing leaves the pins as they are.                    *)
LEMMA QuoteBegun ==
  ASSUME InvMoves, InvUsed, NEW move, IsMove(move), move.pinned = {},
         Number("moves", MaxMoves), moves' = Put(moves, used.moves + 1, move), tab' = tab, fires' = fires
  PROVE  InvMoves' /\ InvUsed'
<1> DEFINE k == used.moves + 1
<1>1. /\ k \in Nat /\ k \notin DOMAIN moves /\ used' \in [sets : Nat, fires : Nat, moves : Nat]
      /\ used'.fires = used.fires /\ used'.sets = used.sets /\ DOMAIN moves \cup {k} \subseteq 1..used'.moves
  BY MovesNumbered
<1>3. DOMAIN moves' = DOMAIN moves \cup {k} /\ moves'[k] = move /\ \A m \in DOMAIN moves : moves'[m] = moves[m]
  BY <1>1 DEF Put
<1>4. InvUsed'
  BY <1>1, <1>3 DEF InvUsed
<1> HIDE DEF k
<1> DEFINE mv2 == moves'
<1>5. \A n : Holders(mv2, n) = Holders(moves, n)
  BY <1>1, <1>3 DEF Holders
<1>7. PinsExact(tab, mv2)
  <2>1. PinsExact(tab, moves)
    BY DEF InvMoves
  <2> HIDE DEF mv2
  <2> QED BY <1>5, <2>1, HoldersSame
<1>8. \A m \in DOMAIN moves' : IsMove(moves'[m])
  BY <1>3 DEF InvMoves
<1> QED BY <1>4, <1>7, <1>8 DEF InvMoves

(* The runs a promotion may take.                                           *)
LEMMA RunTyped ==
  ASSUME Struct, NEW w \in DOMAIN tab.ws, NEW toks \in Seq(Tokens), NEW resident,
         NEW run \in SealedRuns(tab, PassKeys(w, toks), resident)
  PROVE  run \in Seq(AtRest(tab)) /\ run \in Seq(Nat \X Nat)
<1> DEFINE S == AtRest(tab)
<1>1. Sound(tab)
  BY DEF Struct, InvTable
<1>2. run \in Seq(S)
  <2>1. PICK K : PassKeys(w, toks) \in Seq(K)
    BY KeysListed
  <2>2. Fitting(SealedRuns(tab, PassKeys(w, toks), resident), S, Len(PassKeys(w, toks)))
    BY <2>1, <1>1, SoundFacts, RunsFound
  <2> QED BY <2>2 DEF Fitting
<1>3. S \subseteq Nat \X Nat
  BY <1>1, SoundFacts, LiveFinite DEF AtRest
<1> HIDE DEF S
<1>4. run \in Seq(Nat \X Nat)
  BY <1>2, <1>3
<1> QED BY <1>2, <1>4 DEF S

(* PromoteQuote keeps the structure.                                        *)
LEMMA PromoteQuoteStruct ==
  ASSUME Struct, NEW w \in LiveSets, NEW toks \in Seq(Tokens), PromoteQuote(w, toks)
  PROVE  Struct'
<1> USE DEF Struct
<1>1. PICK run \in SealedRuns(tab, PassKeys(w, toks), FALSE) :
         QuoteRun(w, run, Cardinality(Below(tab, ToSet(run))))
  BY DEF PromoteQuote
<1>2. UNCHANGED <<pending, flat, cache, epochs, fires, away>> /\ w \in DOMAIN tab.ws
  BY DEF PromoteQuote, LiveSets
<1> DEFINE n == Cardinality(Below(tab, ToSet(run)))
           g == free \ free'
           mv == QuotedMove(w, run, g)
<1> HIDE DEF n
<1>3. /\ free' = free \ Lowest(n, free) /\ tab' = tab /\ slots' = slots \ SlotsIn(mv)
      /\ moves' = Put(moves, used.moves + 1, mv) /\ Number("moves", MaxMoves)
  BY <1>1 DEF QuoteRun, Begin, QuotedMove, n
<1>4. run \in Seq(Nat \X Nat)
  BY <1>1, <1>2, RunTyped
<1>5. w \in Nat
  BY <1>2 DEF InvUsed
<1>6. g \in SUBSET DevicePages
  BY DEF InvPool
<1> HIDE DEF g
<1>7. IsMove(mv) /\ mv.pinned = {}
  BY <1>4, <1>5, <1>6, QuotedTyped
<1> HIDE DEF mv
<1>8. InvMoves' /\ InvUsed'
  BY <1>2, <1>3, <1>7, QuoteBegun
<1>9. InvPool'
  BY <1>2, <1>3 DEF InvPool, epochs
<1>10. InvTable' /\ InvLogs' /\ InvFlat' /\ InvFires'
  BY <1>2, <1>3 DEF InvTable, InvLogs, InvFlat, InvFires, IsFire
<1>11. RootsExact(tab, cache)'
  BY <1>2, <1>3
<1> QED BY <1>8, <1>9, <1>10, <1>11

(* PromoteGivesUp keeps the structure.                                      *)
LEMMA PromoteGivesUpStruct ==
  ASSUME Struct, NEW m \in DOMAIN moves, PromoteGivesUp(m)
  PROVE  Struct'
<1> USE DEF Struct
<1>1. /\ moves[m].kind = "quoted" /\ free' = free \cup moves[m].grant /\ EndMove(m)
      /\ UNCHANGED <<tab, pending, slots, flat, cache, epochs, fires, away, used>>
  BY DEF PromoteGivesUp
<1>2. IsMove(moves[m]) /\ moves[m].pinned = {} /\ moves[m].grant \subseteq DevicePages
  BY <1>1, MoveFacts DEF InvMoves, IsMove
<1>3. DOMAIN moves' = DOMAIN moves \ {m} /\ \A k \in DOMAIN moves' : moves'[k] = moves[k]
  BY <1>1 DEF EndMove, Without
<1> DEFINE mv2 == moves'
<1>4. \A n : Holders(mv2, n) = Holders(moves, n)
  BY <1>2, <1>3 DEF Holders
<1>5. PinsExact(tab, mv2)
  <2>1. PinsExact(tab, moves)
    BY DEF InvMoves
  <2> HIDE DEF mv2
  <2> QED BY <1>4, <2>1, HoldersSame
<1>6. InvMoves'
  BY <1>1, <1>3, <1>5 DEF InvMoves
<1>9. InvPool'
  BY <1>1, <1>2 DEF InvPool, epochs
<1>10. InvTable' /\ InvLogs' /\ InvFlat' /\ InvFires'
  BY <1>1 DEF InvTable, InvLogs, InvFlat, InvFires, IsFire
<1>11. RootsExact(tab, cache)'
  BY <1>1
<1>12. InvUsed'
  BY <1>1, <1>3 DEF InvUsed
<1> QED BY <1>6, <1>9, <1>10, <1>11, <1>12

LessGrant(move, gpus) == [move EXCEPT !.grant = @ \ gpus]

(* A promotion whose grant was partly used.                                 *)
LEMMA LessGrantTyped ==
  ASSUME NEW move, IsMove(move), NEW gpus
  PROVE  /\ IsMove(LessGrant(move, gpus)) /\ LessGrant(move, gpus).grant = move.grant \ gpus
         /\ LessGrant(move, gpus).ws = move.ws /\ LessGrant(move, gpus).run = move.run
         /\ LessGrant(move, gpus).proc = move.proc
BY DEF IsMove, LessGrant

(* PromotePrepare keeps the structure.                                      *)
LEMMA PromotePrepareStruct ==
  ASSUME Struct, NEW m \in DOMAIN moves, PromotePrepare(m)
  PROVE  Struct'
<1> DEFINE move == moves[m]
           below == Below(tab, ToSet(move.run))
           gpus == Lowest(Cardinality(below), move.grant)
           mv == LessGrant(move, gpus)
           pinned == {Last(move.run)[1]}
           in == MoveIn(tab, mv, below, gpus, pinned)
<1> USE DEF Struct
<1>1. /\ move.kind = "quoted" /\ RunStands(move.run) /\ Cardinality(below) \in 1..Cardinality(move.grant)
      /\ tab' = in.t /\ moves' = [moves EXCEPT ![m] = in.move]
      /\ UNCHANGED <<pool, slots, flat, cache, epochs, fires, away, used>>
  BY DEF PromotePrepare, LessGrant
<1>2. IsMove(move) /\ Sound(tab) /\ Placed(tab)
  BY DEF InvMoves, InvTable
<1>3. move.pinned = {} /\ move.grant \subseteq DevicePages /\ move.run \in Seq(Nat \X Nat)
  BY <1>1, <1>2 DEF IsMove
<1>4. ToSet(move.run) \subseteq LiveLocations(tab)
  <2>1. \A l \in ToSet(move.run) : l \in Nat \X Nat
    BY <1>3 DEF ToSet
  <2>2. \A l \in ToSet(move.run) : Live(tab, l)
    BY <1>1 DEF RunStands
  <2> QED BY <2>1, <2>2 DEF Live, LiveLocations
<1>5. BelowAll(tab, below)
  BY <1>4, BelowOn
<1>6. IsFiniteSet(below) /\ Cardinality(below) \in Nat
  BY <1>2, <1>5, SoundFacts, LiveFinite, FS_Subset, FS_CardinalityType DEF BelowAll
<1>7. pinned \in SUBSET DOMAIN tab.nodes /\ IsFiniteSet(pinned)
  <2>1. below # {}
    <3>1. Cardinality(below) # 0
      <4>1. Cardinality(move.grant) \in Nat
        BY <1>3, PagesFinite
      <4> QED BY <1>1, <1>6, <4>1
    <3> QED BY <3>1, FS_EmptySet
  <2>2. ToSet(move.run) # {}
    BY <2>1 DEF Below
  <2>3. Last(move.run) \in ToSet(move.run)
    <3>1. move.run # <<>> /\ Len(move.run) \in Nat /\ Len(move.run) > 0
      BY <2>2, <1>3 DEF ToSet
    <3> QED BY <3>1, <1>3 DEF ToSet, Last
  <2>4. Last(move.run)[1] \in DOMAIN tab.nodes
    BY <2>3, <1>4 DEF LiveLocations
  <2> QED BY <2>4, FS_Singleton
<1> HIDE DEF below
<1>8. gpus \in SUBSET DevicePages /\ Cardinality(gpus) = Cardinality(below)
  <2>1. move.grant \in SUBSET Nat /\ IsFiniteSet(move.grant) /\ Cardinality(move.grant) \in Nat
    BY <1>3, PagesFinite
  <2> DEFINE n == Cardinality(below)
             G == move.grant
  <2>2. n \in 0..Cardinality(G)
    BY <1>1, <1>6, <2>1
  <2> HIDE DEF n, G
  <2>3. Lowest(n, G) \subseteq G /\ Cardinality(Lowest(n, G)) = n
    <3>1. G \in SUBSET Nat /\ IsFiniteSet(G)
      BY <2>1 DEF G
    <3> QED BY <3>1, <2>2, TakenFor
  <2> QED BY <2>3, <1>3 DEF n, G
<1> HIDE DEF gpus
<1>9. IsMove(mv)
  BY <1>2, LessGrantTyped
<1> HIDE DEF mv, pinned
<1>10. MovedIn(tab, mv, below, gpus, pinned, in)
  BY <1>2, <1>5, <1>7, <1>8, <1>9, MovesIn
<1> HIDE DEF in
<1>11. IsMove(in.move) /\ in.move.pinned = pinned /\ Moving(tab, pinned, below, in.t)
  BY <1>10 DEF MovedIn
<1>12. /\ Sound(tab') /\ tab'.ws = tab.ws /\ tab'.roots = tab.roots
       /\ tab'.pins = Hold(tab.pins, pinned) /\ Alike(tab, tab')
  BY <1>1, <1>11 DEF Moving
<1>13. DOMAIN moves' = DOMAIN moves /\ moves'[m] = in.move /\ \A k \in DOMAIN moves : k # m => moves'[k] = moves[k]
  BY <1>1
<1>14. InvMoves'
  <2> DEFINE mv2 == moves'
             u == tab'
  <2>1. \A n : Holders(mv2, n) = IF n \in pinned THEN Holders(moves, n) \cup {m} ELSE Holders(moves, n)
    BY <1>3, <1>11, <1>13 DEF Holders
  <2>2. \A n \in pinned : m \notin Holders(moves, n)
    BY <1>3 DEF Holders
  <2>3. PinsExact(tab, moves) /\ u.pins = Hold(tab.pins, pinned) /\ IsFiniteSet(DOMAIN moves)
    BY <1>12, NamedFinite DEF InvMoves
  <2>4. PinsExact(u, mv2)
    <3> HIDE DEF mv2, u
    <3> QED BY <2>1, <2>2, <2>3, HoldersMore
  <2> QED BY <2>4, <1>11, <1>13 DEF InvMoves
<1>15. InvUsed'
  BY <1>1, <1>12, <1>13, UsedStays
<1>16. Placed(tab')
  BY <1>2, <1>12, AlikePlaced
<1>17. InvTable' /\ InvLogs' /\ InvFlat' /\ InvFires' /\ InvPool'
  <2>1. InvTable'
    BY <1>12, <1>16 DEF InvTable
  <2>2. InvLogs' /\ InvFlat' /\ InvFires'
    BY <1>1, <1>12, LogsStay, FlatStays, FiresStay DEF SameLens
  <2>3. InvPool'
    BY <1>1, PoolStays
  <2> QED BY <2>1, <2>2, <2>3
<1>18. RootsExact(tab, cache)'
  BY <1>1, <1>12 DEF RootsExact
<1> QED BY <1>14, <1>15, <1>17, <1>18

(* The empty table is sound.                                                *)
LEMMA EmptySound ==
  Sound(EmptyTable) /\ LiveLocations(EmptyTable) = {}
<1> DEFINE t == EmptyTable
<1>1. /\ t.nodes = <<>> /\ t.ws = <<>> /\ t.roots = <<>> /\ t.pins = <<>> /\ t.swaps = {} /\ IsTable(t)
  BY DEF EmptyTable, IsTable
<1> HIDE DEF t
<1>2. DOMAIN t.nodes = {} /\ DOMAIN t.ws = {} /\ DOMAIN t.roots = {} /\ DOMAIN t.pins = {}
  BY <1>1
<1>3. t.nodes = [n \in DOMAIN t.nodes |-> t.nodes[n]] /\ t.ws = [w \in DOMAIN t.ws |-> t.ws[w]]
  BY <1>1, <1>2
<1>4. Formed(t) /\ Linked(t)
  BY <1>1, <1>2, <1>3, FS_EmptySet DEF Formed, Linked
<1>5. Walk(Parents(t))
  <2> DEFINE next == Parents(t)
  <2>1. DOMAIN next = {}
    BY <1>2 DEF Parents
  <2> HIDE DEF next
  <2> DEFINE rank == [m \in DOMAIN next |-> 0]
  <2>2. rank \in [DOMAIN next -> Nat] /\ DOMAIN rank = {}
    BY <2>1
  <2>3. Ranked(next, rank)
    BY <2>1, <2>2 DEF Ranked
  <2> HIDE DEF rank
  <2>4. 0 \in Nat /\ \A m \in DOMAIN next : rank[m] < 0
    BY <2>1
  <2>5. Walk(next)
    BY <2>1, <2>2, <2>3, <2>4 DEF Walk
  <2> QED BY <2>5 DEF next
<1>6. DOMAIN AnchoredAt(t) = {} /\ Anchors(t) = {}
  BY <1>2 DEF AnchoredAt, Anchors
<1>7. Counts(t, AnchoredAt(t)) /\ AllAnchored(t) /\ Compacted(t)
  BY <1>2, <1>6, FS_EmptySet DEF Counts, AllAnchored, Compacted
<1>8. Sound(t)
  BY <1>2, <1>3, <1>4, <1>5, <1>7 DEF Sound, Trie, Shape, IsSets, Sized
<1>9. LiveLocations(t) = {}
  BY <1>2 DEF LiveLocations
<1> QED BY <1>8, <1>9 DEF t

(* The initial state has the structure.                                     *)
LEMMA InitStruct ==
  ASSUME Init
  PROVE  Struct
<1>1. /\ tab = EmptyTable /\ free = DevicePages /\ pending = {} /\ slots = Slots /\ flat = <<>> /\ cache = <<>>
      /\ seq = 0 /\ outstanding = {} /\ fires = <<>> /\ moves = <<>>
      /\ used = [sets |-> 0, fires |-> 0, moves |-> 0]
  BY DEF Init
<1>2. Sound(tab) /\ Placed(tab)
  BY <1>1, EmptySound DEF Placed
<1>3. DOMAIN tab.ws = {} /\ DOMAIN tab.roots = {} /\ DOMAIN tab.pins = {}
  BY <1>1 DEF EmptyTable
<1>4. InvLogs /\ InvFlat /\ InvUsed /\ InvFires
  BY <1>1, <1>3 DEF InvLogs, InvFlat, InvUsed, InvFires
<1>5. InvPool
  BY <1>1 DEF InvPool
<1>6. RootsExact(tab, cache)
  <2>1. DOMAIN cache = {} /\ IsFiniteSet({})
    BY <1>1, FS_EmptySet
  <2>2. \A r : Entries(cache, r) = {}
    BY <2>1 DEF Entries
  <2> QED BY <2>1, <2>2, <1>3 DEF RootsExact
<1>7. InvMoves
  <2>1. DOMAIN moves = {}
    BY <1>1
  <2>2. \A n : Holders(moves, n) = {}
    BY <2>1 DEF Holders
  <2> QED BY <2>1, <2>2, <1>3 DEF InvMoves, PinsExact
<1> QED BY <1>2, <1>4, <1>5, <1>6, <1>7 DEF Struct, InvTable

(* The token lists a run offers are lists of tokens.                        *)
LEMMA TokenLists ==
  ASSUME NEW lens \in SUBSET Nat
  PROVE  \A toks \in TokenSeqs(lens) : toks \in Seq(Tokens)
BY DEF TokenSeqs

(* A stuttering step keeps it.                                              *)
LEMMA StutterStruct ==
  ASSUME Struct, UNCHANGED vars
  PROVE  Struct'
<1>1. UNCHANGED <<tab, free, pending, slots, flat, cache, seq, outstanding, fires, moves, away, used>>
  BY DEF vars, pool, epochs
<1>2. InvTable' /\ InvLogs' /\ InvFlat' /\ RootsExact(tab, cache)' /\ InvMoves' /\ DOMAIN tab'.ws = DOMAIN tab.ws
  BY <1>1, TabStays
<1>3. InvPool' /\ InvUsed' /\ InvFires'
  <2>1. InvPool'
    BY <1>1 DEF Struct, InvPool
  <2>2. InvUsed'
    BY <1>1 DEF Struct, InvUsed
  <2>3. InvFires'
    BY <1>1, FiresStay DEF Struct
  <2> QED BY <2>1, <2>2, <2>3
<1> QED BY <1>2, <1>3 DEF Struct

(* Every step keeps it.                                                     *)
LEMMA NextStruct ==
  ASSUME Struct, [Next]_vars
  PROVE  Struct'
<1>1. 1..MaxRows \in SUBSET Nat /\ WholePages \in SUBSET Nat
  BY KvAssumption DEF WholePages
<1>2. CASE SetStep
  BY <1>2, CreateStruct, ForkStruct, ReleaseStruct DEF SetStep
<1>3. CASE PrepareStep
  <2>1. ASSUME NEW w \in LiveSets, NEW start \in Starts(tab.ws[w]), NEW toks \in TokenSeqs(1..MaxRows),
               Quote(w, start, toks)
        PROVE  Struct'
    <3>1. toks \in Seq(Tokens)
      BY <1>1, TokenLists
    <3> QED BY <2>1, <3>1, QuoteStruct
  <2>2. ASSUME NEW f \in DOMAIN fires, FireGivesUp(f) \/ FirePrepare(f) \/ FireRefused(f)
        PROVE  Struct'
    BY <2>2, FireGivesUpStruct, FirePrepareStruct, FireRefusedStruct
  <2>3. ASSUME NEW f \in DOMAIN fires, NEW broken \in BOOLEAN, FireLost(f, broken)
        PROVE  Struct'
    BY <2>3, FireLostStruct
  <2> QED BY <1>3, <2>1, <2>2, <2>3 DEF PrepareStep
<1>4. CASE FireStep
  <2>1. ASSUME NEW f \in DOMAIN fires, FireSubmit(f)
        PROVE  Struct'
    BY <2>1, FireSubmitStruct
  <2>2. ASSUME NEW f \in DOMAIN fires, NEW to \in {0, End(f)}, NEW decoded \in BOOLEAN, FireSettles(f, TRUE, to, decoded)
        PROVE  Struct'
    <3>1. fires[f].phase = "queued"
      BY <2>2 DEF FireSettles
    <3>2. to \in Nat
      BY <2>2, <3>1, FireFacts
    <3> QED BY <2>2, <3>2, FireSettlesStruct
  <2>3. ASSUME NEW f \in DOMAIN fires, FireSettles(f, FALSE, 0, FALSE)
        PROVE  Struct'
    BY <2>3, FireSettlesStruct
  <2> QED BY <1>3, <1>4, <2>1, <2>2, <2>3 DEF FireStep
<1>5. CASE CacheStep
  <2>1. ASSUME NEW w \in LiveSets, NEW toks \in TokenSeqs(WholePages), Supply(w, toks)
        PROVE  Struct'
    <3>1. toks \in Seq(Tokens)
      BY <1>1, TokenLists
    <3> QED BY <2>1, <3>1, SupplyStruct
  <2> QED BY <1>5, <2>1, CacheStruct DEF CacheStep
<1>6. CASE MoveStep
  <2>1. ASSUME NEW p \in 1..MaxSets, PrepareSuspend(p) \/ PrepareRestore(p)
        PROVE  Struct'
    BY <2>1, PrepareSuspendStruct, PrepareRestoreStruct
  <2>2. ASSUME NEW w \in LiveSets, NEW toks \in TokenSeqs(WholePages), PromoteQuote(w, toks)
        PROVE  Struct'
    <3>1. toks \in Seq(Tokens)
      BY <1>1, TokenLists
    <3> QED BY <2>2, <3>1, PromoteQuoteStruct
  <2>3. ASSUME NEW m \in DOMAIN moves,
               \/ CommitOut(m) \/ AbortOut(m) \/ CommitRestore(m) \/ AbortIn(m)
               \/ PromotePrepare(m) \/ PromoteGivesUp(m) \/ CommitPromote(m) \/ ReleaseReader(m)
        PROVE  Struct'
    BY <2>3, CommitOutStruct, AbortOutStruct, CommitRestoreStruct, AbortInStruct, PromotePrepareStruct,
       PromoteGivesUpStruct, CommitPromoteStruct, ReleaseReaderStruct
  <2> QED BY <1>6, <2>1, <2>2, <2>3, PrepareSweepStruct, PrepareDemoteStruct DEF MoveStep
<1>7. CASE UNCHANGED vars
  BY <1>7, StutterStruct
<1> QED BY <1>2, <1>4, <1>5, <1>6, <1>7 DEF Next

(* The page table is a sound trie in every reachable state: every parent is *)
(* live, every set's terminal path has its mapped length, leases match the  *)
(* cache's entries and pins the moves in flight.                            *)
THEOREM StructInvariant == Spec => []Struct
<1>1. Init => Struct
  BY InitStruct
<1>2. Struct /\ [Next]_vars => Struct'
  BY NextStruct
<1> QED BY <1>1, <1>2, PTL DEF Spec

(* What the structure says of the counts.                                   *)
LEMMA StructAnchors ==
  ASSUME Struct
  PROVE  AnchorsExact
<1> DEFINE at == AnchoredAt(tab)
<1>1. Shape(tab) /\ Counts(tab, at) /\ AllAnchored(tab)
  BY SoundFacts DEF Struct, InvTable
<1>2. Linked(tab)
  BY <1>1 DEF Shape
<1> SUFFICES ASSUME NEW n \in DOMAIN tab.nodes
             PROVE  /\ tab.nodes[n].exact = Cardinality({a \in DOMAIN at : at[a] = n})
                    /\ tab.nodes[n].path = Cardinality({a \in DOMAIN at : n \in PathNodes(tab, at[a])})
                    /\ tab.nodes[n].path > 0
                    /\ tab.nodes[n].parent # NoNode => tab.nodes[n].parent \in DOMAIN tab.nodes
  BY DEF AnchorsExact
<1> HIDE DEF at
<1>3. AnchorsIn(at, {n}) = {a \in DOMAIN at : at[a] = n}
  BY DEF AnchorsIn
<1>4. AnchorsIn(at, Over(tab, n)) = {a \in DOMAIN at : n \in PathNodes(tab, at[a])}
  <2>1. \A a \in DOMAIN at : at[a] \in DOMAIN tab.nodes
    BY <1>1 DEF Counts
  <2> QED BY <2>1 DEF AnchorsIn, Over
<1>5. tab.nodes[n].exact = Cardinality(AnchorsIn(at, {n})) /\ tab.nodes[n].path = Cardinality(AnchorsIn(at, Over(tab, n)))
  BY <1>1 DEF Counts
<1>6. tab.nodes[n].path > 0
  BY <1>1 DEF AllAnchored
<1> QED BY <1>2, <1>3, <1>4, <1>5, <1>6 DEF Linked

(* The reference counts are exact: a node's exact and path counts are the   *)
(* anchors at it and at or below it, so a node goes with its last reader    *)
(* and never before.                                                        *)
THEOREM AnchorsAlwaysExact == Spec => []AnchorsExact
<1>1. Struct => AnchorsExact
  BY StructAnchors
<1> QED BY <1>1, StructInvariant, PTL

(* What a node of one table and a node of another read is the same, and is  *)
(* where it was.                                                            *)
SameReads(t, n, u, m) ==
  /\ Locations(u, m) = Locations(t, n)
  /\ \A l \in ToSet(Locations(t, n)) : Page(u, l).at = Page(t, l).at

(* What a step leaves of what pins and sets, but those of W, read and of    *)
(* the pages that moves have.                                               *)
KinSwaps(t, u) ==
  /\ \A l \in t.swaps : l \in u.swaps /\ l \in LiveLocations(u) =>
       l \in LiveLocations(t) /\ Page(u, l).at = Page(t, l).at
  /\ \A l \in t.swaps : l \in u.swaps /\ l \in LiveLocations(t) /\ l[1] \in DOMAIN u.nodes => l \in LiveLocations(u)
  /\ \A n \in DOMAIN u.nodes : n \in DOMAIN t.nodes \/ n \notin Named

KinPins(t, u) == \A n \in DOMAIN t.pins : n \in DOMAIN u.pins => SameReads(t, n, u, n)

KinSets(t, u, W) ==
  \A w \in DOMAIN u.ws : w \notin W =>
    /\ w \in DOMAIN t.ws /\ u.ws[w].terminal = t.ws[w].terminal
    /\ SameReads(t, t.ws[w].terminal, u, u.ws[w].terminal)

Kin(t, u, W) == KinSwaps(t, u) /\ KinPins(t, u) /\ KinSets(t, u, W)

SwapsNamed(t) == \A l \in t.swaps : l[1] \in Named

SwapsLive(t) == \A l \in t.swaps : l[1] \in DOMAIN t.nodes => l \in LiveLocations(t)

(* Reading the same twice is reading the same.                              *)
LEMMA SameReadsOn ==
  ASSUME NEW t, NEW n, NEW u, NEW m, NEW v, NEW k, SameReads(t, n, u, m), SameReads(u, m, v, k)
  PROVE  SameReads(t, n, v, k)
BY DEF SameReads

(* One step after another.                                                  *)
LEMMA KinOn ==
  ASSUME NEW t, NEW u, NEW v, NEW W, Kin(t, u, W), Kin(u, v, W), SwapsNamed(t),
         t.swaps \cap v.swaps \subseteq u.swaps, DOMAIN t.pins \cap DOMAIN v.pins \subseteq DOMAIN u.pins
  PROVE  Kin(t, v, W)
<1>1. KinSwaps(t, v)
  <2>1. KinSwaps(t, u) /\ KinSwaps(u, v)
    BY DEF Kin
  <2>2. ASSUME NEW l \in t.swaps, l \in v.swaps, l \in LiveLocations(v)
        PROVE  l \in LiveLocations(t) /\ Page(v, l).at = Page(t, l).at
    BY <2>1, <2>2 DEF KinSwaps
  <2>3. ASSUME NEW l \in t.swaps, l \in v.swaps, l \in LiveLocations(t), l[1] \in DOMAIN v.nodes
        PROVE  l \in LiveLocations(v)
    BY <2>1, <2>3 DEF KinSwaps, SwapsNamed
  <2>4. \A n \in DOMAIN v.nodes : n \in DOMAIN t.nodes \/ n \notin Named
    BY <2>1 DEF KinSwaps
  <2> QED BY <2>2, <2>3, <2>4 DEF KinSwaps
<1>2. KinPins(t, v)
  BY SameReadsOn DEF Kin, KinPins
<1>3. KinSets(t, v, W)
  BY SameReadsOn DEF Kin, KinSets
<1> QED BY <1>1, <1>2, <1>3 DEF Kin

(* More sets excepted.                                                      *)
LEMMA KinMore ==
  ASSUME NEW t, NEW u, NEW W, Kin(t, u, W), NEW X, W \subseteq X
  PROVE  Kin(t, u, X)
BY DEF Kin, KinSets

(* What an anchor that stays reads is read as it was.                       *)
LEMMA ReadsPassed ==
  ASSUME NEW t, Sound(t), NEW u, Sound(u), NEW named, NEW W, Passed(t, u, named, W),
         NEW a \in Anchors(u), a \notin {"set"} \X W, a \in Anchors(t), AnchoredAt(u)[a] = AnchoredAt(t)[a]
  PROVE  SameReads(t, AnchoredAt(t)[a], u, AnchoredAt(u)[a])
<1> DEFINE n == AnchoredAt(u)[a]
<1>1. n \in DOMAIN u.nodes
  BY SoundFacts, AnchorsLive
<1>2. Locations(u, n) = Locations(t, n)
  BY DEF Passed, StillRead
<1>3. \A l \in ToSet(Locations(u, n)) : l \in LiveLocations(u)
  BY <1>1, SoundFacts, LocationsLive
<1> QED BY <1>2, <1>3 DEF SameReads, Passed

(* An empty path reads nothing.                                             *)
LEMMA EmptyReads ==
  ASSUME NEW t, Sound(t), NEW u, Sound(u)
  PROVE  SameReads(t, NoNode, u, NoNode)
<1>1. Locations(t, NoNode) = <<>> /\ Locations(u, NoNode) = <<>>
  BY SoundFacts, LocationFacts
<1>2. ToSet(<<>>) = {}
  BY DEF ToSet
<1> QED BY <1>1, <1>2 DEF SameReads

SetsKept(t, u, W) == \A w \in DOMAIN u.ws : w \notin W => w \in DOMAIN t.ws /\ u.ws[w].terminal = t.ws[w].terminal

(* What passes everything on is kin.                                        *)
LEMMA PassedKin ==
  ASSUME NEW t, Sound(t), NEW u, Sound(u), NEW W, Passed(t, u, Named, W), SetsKept(t, u, W)
  PROVE  Kin(t, u, W)
<1>1. KinSwaps(t, u)
  BY DEF Passed, KinSwaps
<1>2. KinPins(t, u)
  <2>1. SUFFICES ASSUME NEW n \in DOMAIN t.pins, n \in DOMAIN u.pins PROVE SameReads(t, n, u, n)
    BY DEF KinPins
  <2> DEFINE a == <<"pin", n>>
  <2>2. a \in Anchors(t) /\ a \in Anchors(u) /\ AnchoredAt(t)[a] = n /\ AnchoredAt(u)[a] = n
    BY <2>1, PinAnchor
  <2>3. a \notin {"set"} \X W
    OBVIOUS
  <2> HIDE DEF a
  <2>4. SameReads(t, AnchoredAt(t)[a], u, AnchoredAt(u)[a])
    BY <2>2, <2>3, ReadsPassed
  <2> QED BY <2>2, <2>4
<1>3. KinSets(t, u, W)
  <2>1. SUFFICES ASSUME NEW w \in DOMAIN u.ws, w \notin W
                 PROVE  /\ w \in DOMAIN t.ws /\ u.ws[w].terminal = t.ws[w].terminal
                        /\ SameReads(t, t.ws[w].terminal, u, u.ws[w].terminal)
    BY DEF KinSets
  <2>2. w \in DOMAIN t.ws /\ u.ws[w].terminal = t.ws[w].terminal
    BY <2>1 DEF SetsKept
  <2>3. CASE u.ws[w].terminal = NoNode
    BY <2>2, <2>3, EmptyReads
  <2>4. CASE u.ws[w].terminal # NoNode
    <3> DEFINE a == <<"set", w>>
    <3>1. /\ a \in Anchors(t) /\ AnchoredAt(t)[a] = t.ws[w].terminal
          /\ a \in Anchors(u) /\ AnchoredAt(u)[a] = u.ws[w].terminal
      BY <2>2, <2>4, SetAnchor
    <3>2. a \notin {"set"} \X W
      BY <2>1
    <3> HIDE DEF a
    <3>3. SameReads(t, AnchoredAt(t)[a], u, AnchoredAt(u)[a])
      BY <3>1, <3>2, <2>2, ReadsPassed
    <3> QED BY <2>2, <3>1, <3>3
  <2> QED BY <2>2, <2>3, <2>4
<1> QED BY <1>1, <1>2, <1>3 DEF Kin

(* A table with the same nodes and pages where they were.                   *)
Still(t, u) == ReadAlike(t, u) /\ \A l \in LiveLocations(t) : Page(u, l).at = Page(t, l).at

(* A table that is still reads the same at every node.                      *)
LEMMA StillReads ==
  ASSUME NEW t, Sound(t), NEW u, Still(t, u), NEW n \in DOMAIN t.nodes \cup {NoNode}
  PROVE  SameReads(t, n, u, n)
<1>1. Locations(u, n) = Locations(t, n)
  BY DEF Still, ReadAlike
<1>2. \A l \in ToSet(Locations(t, n)) : l \in LiveLocations(t)
  BY SoundFacts, LocationsLive
<1> QED BY <1>1, <1>2 DEF SameReads, Still

(* A still table is kin.                                                    *)
LEMMA StillKin ==
  ASSUME NEW t, Sound(t), NEW u, Still(t, u), NEW W, SetsKept(t, u, W)
  PROVE  Kin(t, u, W)
<1>1. KinSwaps(t, u)
  BY DEF Still, ReadAlike, KinSwaps
<1>0. /\ \A n \in DOMAIN t.pins : n \in DOMAIN t.nodes
      /\ \A w \in DOMAIN t.ws : t.ws[w].terminal \in DOMAIN t.nodes \cup {NoNode}
  BY SoundFacts, AnchorsLive
<1>2. KinPins(t, u)
  BY <1>0, StillReads DEF KinPins
<1>3. KinSets(t, u, W)
  BY <1>0, StillReads DEF KinSets, SetsKept
<1> QED BY <1>1, <1>2, <1>3 DEF Kin

(* A table that reads alike is still.                                       *)
LEMMA AlikeStill ==
  ASSUME NEW t, NEW u, Alike(t, u)
  PROVE  Still(t, u)
BY DEF Alike, Still, ReadAlike

(* So is one tended.                                                        *)
LEMMA TendedStill ==
  ASSUME NEW t, NEW u, Tended(t, u)
  PROVE  Still(t, u) /\ SetsKept(t, u, {})
BY DEF Tended, Still, SetsKept

(* Pages added at the end of what a set reads.                              *)
LEMMA AppendingKin ==
  ASSUME NEW t, Sound(t), SwapsNamed(t), SwapsLive(t), NEW w \in DOMAIN t.ws, NEW pages, NEW u, Sound(u),
         Appending(t, w, pages, Named, u)
  PROVE  Kin(t, u, {w})
<1>1. /\ OtherSets(t, u, w) /\ OthersRead(t, u, w)
      /\ \A l \in LiveLocations(t) : l \in LiveLocations(u) /\ Page(u, l) = Page(t, l)
      /\ \A n \in DOMAIN u.nodes \ DOMAIN t.nodes : n \notin Named
  BY DEF Appending
<1>2. KinSwaps(t, u)
  <2>1. ASSUME NEW l \in t.swaps, l \in LiveLocations(u) PROVE l \in LiveLocations(t)
    <3>1. l[1] \in DOMAIN u.nodes
      BY <2>1, SoundFacts, LiveIn
    <3>2. l[1] \in DOMAIN t.nodes
      BY <3>1, <1>1 DEF SwapsNamed
    <3> QED BY <3>2 DEF SwapsLive
  <2> QED BY <2>1, <1>1 DEF KinSwaps
<1>3. ASSUME NEW a \in Anchors(u), a # <<"set", w>>
      PROVE  /\ a \in Anchors(t) /\ AnchoredAt(u)[a] = AnchoredAt(t)[a]
             /\ SameReads(t, AnchoredAt(t)[a], u, AnchoredAt(u)[a])
  <2>1. /\ a \in Anchors(t) /\ AnchoredAt(u)[a] = AnchoredAt(t)[a]
        /\ Locations(u, AnchoredAt(u)[a]) = Locations(t, AnchoredAt(u)[a])
    BY <1>1, <1>3 DEF OthersRead
  <2>2. AnchoredAt(t)[a] \in DOMAIN t.nodes
    BY <2>1, SoundFacts, AnchorsLive
  <2>3. \A l \in ToSet(Locations(t, AnchoredAt(t)[a])) : l \in LiveLocations(t)
    BY <2>2, SoundFacts, LocationsLive
  <2> QED BY <2>1, <2>3, <1>1 DEF SameReads
<1>4. KinPins(t, u)
  <2>1. SUFFICES ASSUME NEW n \in DOMAIN t.pins, n \in DOMAIN u.pins PROVE SameReads(t, n, u, n)
    BY DEF KinPins
  <2> DEFINE a == <<"pin", n>>
  <2>2. a \in Anchors(t) /\ a \in Anchors(u) /\ AnchoredAt(t)[a] = n /\ AnchoredAt(u)[a] = n
    BY <2>1, PinAnchor
  <2>3. a # <<"set", w>>
    OBVIOUS
  <2> HIDE DEF a
  <2> QED BY <2>2, <2>3, <1>3
<1>5. KinSets(t, u, {w})
  <2>1. SUFFICES ASSUME NEW x \in DOMAIN u.ws, x # w
                 PROVE  /\ x \in DOMAIN t.ws /\ u.ws[x].terminal = t.ws[x].terminal
                        /\ SameReads(t, t.ws[x].terminal, u, u.ws[x].terminal)
    BY DEF KinSets
  <2>2. x \in DOMAIN t.ws /\ u.ws[x] = t.ws[x]
    BY <2>1, <1>1 DEF OtherSets
  <2>3. CASE u.ws[x].terminal = NoNode
    BY <2>2, <2>3, EmptyReads
  <2>4. CASE u.ws[x].terminal # NoNode
    <3> DEFINE a == <<"set", x>>
    <3>1. /\ a \in Anchors(t) /\ AnchoredAt(t)[a] = t.ws[x].terminal
          /\ a \in Anchors(u) /\ AnchoredAt(u)[a] = u.ws[x].terminal
      BY <2>2, <2>4, SetAnchor
    <3>2. a # <<"set", w>>
      BY <2>1
    <3> HIDE DEF a
    <3> QED BY <2>2, <3>1, <3>2, <1>3
  <2> QED BY <2>2, <2>3, <2>4
<1> QED BY <1>2, <1>4, <1>5 DEF Kin

(* The pages a working set reads.                                           *)
Reads(t, w) == ToSet(Locations(t, t.ws[w].terminal))

(* Whose each set but those of W is, and whether it is suspended, stays.    *)
Flags(t, u, W) ==
  \A w \in DOMAIN u.ws : w \notin W =>
    /\ w \in DOMAIN t.ws
    /\ u.ws[w].owner = t.ws[w].owner /\ u.ws[w].suspended = t.ws[w].suspended

(* What w reads it read before, or is on the device and in no move.         *)
WrittenReads(t, u, w) ==
  \A l \in Reads(u, w) :
    \/ l \in Reads(t, w) /\ Page(u, l).at = Page(t, l).at
    \/ OnDevice(Page(u, l).at) /\ l \notin u.swaps

(* A set that is new and empty, or a fork, or one of a running process that *)
(* writes or is given pages.                                                *)
Blank(u, w) == w \notin 1..used.sets /\ u.ws[w].terminal = NoNode /\ ~u.ws[w].suspended

Forked(t, u, w) ==
  w \notin 1..used.sets /\ \E x \in DOMAIN t.ws :
    /\ u.ws[w].owner = t.ws[x].owner /\ ~u.ws[w].suspended
    /\ u.ws[w].terminal = t.ws[x].terminal
    /\ SameReads(t, t.ws[x].terminal, u, u.ws[w].terminal)

Written(t, u, w) ==
  /\ w \in DOMAIN t.ws /\ u.ws[w].owner = t.ws[w].owner /\ u.ws[w].suspended = t.ws[w].suspended
  /\ t.ws[w].owner \notin away
  /\ WrittenReads(t, u, w)

(* A step of the table between moves: it ends none and begins none.         *)
QuietBut(t, u, W) ==
  /\ u.pins = t.pins /\ u.swaps = t.swaps
  /\ Kin(t, u, W) /\ Flags(t, u, W)
  /\ \A w \in W : w \in DOMAIN u.ws => Blank(u, w) \/ Forked(t, u, w) \/ Written(t, u, w)

Quiet(t, u) == \E W : QuietBut(t, u, W)
Calm(t, u) == QuietBut(t, u, {})

(* A table that stays is calm.                                              *)
LEMMA QuietSame ==
  ASSUME NEW t, Sound(t)
  PROVE  Calm(t, t)
<1>1. Still(t, t) /\ SetsKept(t, t, {})
  BY DEF Still, ReadAlike, SetsKept
<1>2. Kin(t, t, {})
  BY <1>1, StillKin
<1> QED BY <1>2 DEF Calm, QuietBut, Flags

(* So is one compacted.                                                     *)
LEMMA QuietTended ==
  ASSUME NEW t, Sound(t), NEW u, Tended(t, u)
  PROVE  Calm(t, u)
<1>1. Kin(t, u, {})
  BY TendedStill, StillKin
<1> QED BY <1>1 DEF Calm, QuietBut, Tended, Flags

(* So is one that loses nodes no set and no pin reads.                      *)
LEMMA QuietPassed ==
  ASSUME NEW t, Sound(t), NEW u, Sound(u), Passed(t, u, Named, {}), DOMAIN u.ws \subseteq DOMAIN t.ws,
         \A w \in DOMAIN u.ws : u.ws[w] = t.ws[w], u.pins = t.pins, u.swaps = t.swaps
  PROVE  QuietBut(t, u, {})
<1>1. SetsKept(t, u, {})
  BY DEF SetsKept
<1>2. Kin(t, u, {})
  BY <1>1, PassedKin
<1> QED BY <1>2 DEF QuietBut, Flags

(* A set entered, empty or as a fork, leaves the others alone.              *)
LEMMA QuietEntered ==
  ASSUME NEW t, Sound(t), NEW c, NEW e, NEW u, Entered(t, c, e, u), Blank(u, c) \/ Forked(t, u, c)
  PROVE  QuietBut(t, u, {c})
<1>1. /\ Sound(u) /\ Alike(t, u) /\ u.pins = t.pins /\ u.swaps = t.swaps
      /\ DOMAIN u.ws = DOMAIN t.ws \cup {c} /\ \A w \in DOMAIN t.ws : u.ws[w] = t.ws[w]
  BY DEF Entered
<1>2. SetsKept(t, u, {c}) /\ Flags(t, u, {c})
  BY <1>1 DEF SetsKept, Flags
<1>3. Kin(t, u, {c})
  BY <1>1, <1>2, AlikeStill, StillKin
<1> QED BY <1>1, <1>2, <1>3 DEF QuietBut

(* Create is quiet but for the set it makes.                                *)
LEMMA CreateQuiet ==
  ASSUME Struct, Create
  PROVE  QuietBut(tab, tab', {used.sets + 1})
<1> DEFINE c == used.sets + 1
           e == EmptySet(c)
<1>1. Number("sets", MaxSets) /\ tab' = WithNewSet(tab, c, e)
  BY DEF Create, WithNewSet
<1>2. c \notin DOMAIN tab.ws /\ c \in Nat /\ c \notin 1..used.sets
  BY <1>1, SetsNumbered DEF Struct, InvUsed
<1>3. IsSet(e) /\ e.terminal = NoNode /\ e.mapped = 0 /\ ~e.suspended
  BY <1>2 DEF EmptySet, IsSet, NoNode
<1>4. Sound(tab)
  BY DEF Struct, InvTable
<1> HIDE DEF c, e
<1>5. Entered(tab, c, e, tab')
  BY <1>1, <1>2, <1>3, <1>4, EntersEmpty
<1>6. Blank(tab', c)
  BY <1>2, <1>3, <1>5 DEF Entered, Blank
<1>7. QuietBut(tab, tab', {c})
  BY <1>4, <1>5, <1>6, QuietEntered
<1> QED BY <1>7 DEF c

(* So is Fork.                                                              *)
LEMMA ForkQuiet ==
  ASSUME Struct, NEW w \in LiveSets, Fork(w)
  PROVE  QuietBut(tab, tab', {used.sets + 1})
<1> DEFINE c == used.sets + 1
           e == tab.ws[w]
           child == [e EXCEPT !.logged = Known(e), !.cuts = {}, !.suspended = FALSE]
<1>1. Sound(tab) /\ w \in DOMAIN tab.ws
  BY DEF Struct, InvTable, LiveSets
<1>2. c \in Nat /\ c \notin DOMAIN tab.ws /\ c \notin 1..used.sets
  BY SetsNumbered DEF Fork, Struct, InvUsed
<1>3. tab' = AddAnchors(WithNewSet(tab, c, child), {e.terminal} \ {NoNode})
  BY DEF Fork, WithNewSet
<1>4. /\ IsSet(child) /\ child.terminal = e.terminal /\ child.mapped = e.mapped /\ child.owner = e.owner
      /\ ~child.suspended
  <2>1. IsSet(e) /\ IsLog(e)
    BY <1>1 DEF Sound, IsSets, InvLogs, Struct
  <2>2. Known(e) \in Seq(Tokens)
    BY <2>1, KnownTokens
  <2> QED BY <2>1, <2>2 DEF IsSet
<1>5. e.terminal \in DOMAIN tab.nodes \cup {NoNode} /\ e.mapped = Len(Locations(tab, e.terminal))
  BY <1>1, WsLocationsAll
<1> HIDE DEF c, child
<1>6. Entered(tab, c, child, tab')
  BY <1>1, <1>2, <1>3, <1>4, <1>5, EntersSet
<1>7. Alike(tab, tab') /\ tab'.ws[c] = child
  BY <1>6 DEF Entered
<1>8. SameReads(tab, e.terminal, tab', e.terminal)
  BY <1>1, <1>5, <1>7, AlikeStill, StillReads
<1>9. Forked(tab, tab', c)
  BY <1>1, <1>2, <1>4, <1>7, <1>8 DEF Forked
<1>10. QuietBut(tab, tab', {c})
  BY <1>1, <1>6, <1>9, QuietEntered
<1> QED BY <1>10 DEF c

(* Two calm steps are one.                                                  *)
LEMMA QuietOn ==
  ASSUME NEW t, NEW u, NEW v, QuietBut(t, u, {}), QuietBut(u, v, {}), SwapsNamed(t)
  PROVE  QuietBut(t, v, {})
<1>1. /\ u.pins = t.pins /\ u.swaps = t.swaps /\ v.pins = u.pins /\ v.swaps = u.swaps
      /\ Kin(t, u, {}) /\ Kin(u, v, {}) /\ Flags(t, u, {}) /\ Flags(u, v, {})
  BY DEF QuietBut
<1>2. Kin(t, v, {})
  BY <1>1, KinOn
<1>3. Flags(t, v, {})
  BY <1>1 DEF Flags
<1> QED BY <1>1, <1>2, <1>3 DEF QuietBut

(* Release is calm for the sets that remain.                                *)
LEMMA ReleaseQuiet ==
  ASSUME Struct, SwapsNamed(tab), NEW w \in LiveSets, Release(w)
  PROVE  Calm(tab, tab')
<1> DEFINE k == KeepSealedPrefix(w)
           r == RemoveWs(k.t, w)
<1>1. w \in DOMAIN tab.ws /\ GiveBack(r, {}) /\ Sound(tab)
  BY DEF Release, LiveSets, ReleaseKeeping, Struct, InvTable
<1>2. KeptOk(k)
  BY <1>1, KeepsSealed
<1> HIDE DEF k
<1>3. QuietBut(tab, k.t, {})
  <2>1. /\ Sound(k.t) /\ k.t.ws = tab.ws /\ k.t.pins = tab.pins /\ k.t.swaps = tab.swaps
        /\ LiveLocations(k.t) = LiveLocations(tab) /\ \A l \in LiveLocations(tab) : Page(k.t, l) = Page(tab, l)
        /\ \A m \in DOMAIN tab.nodes : Locations(k.t, m) = Locations(tab, m)
        /\ \A m \in DOMAIN k.t.nodes : m \in DOMAIN tab.nodes \/ m \notin Named
    BY <1>2 DEF KeptOk
  <2>2. Passed(tab, k.t, Named, {})
    <3>1. StillRead(tab, k.t, {})
      <4>1. \A a \in Anchors(tab) : AnchoredAt(tab)[a] \in DOMAIN tab.nodes
        BY <1>1, SoundFacts DEF Counts, AnchoredAt
      <4> QED BY <4>1, <2>1 DEF StillRead
    <3> QED BY <2>1, <3>1 DEF Passed
  <2> QED BY <1>1, <2>1, <2>2, QuietPassed
<1>4. Sound(k.t) /\ w \in DOMAIN k.t.ws
  BY <1>1, <1>2 DEF KeptOk
<1>5. Unset(k.t, w, r)
  BY <1>4, RemovesWs
<1> HIDE DEF r
<1>6. QuietBut(k.t, r.t, {})
  <2>1. /\ Sound(r.t) /\ DOMAIN r.t.ws \subseteq DOMAIN k.t.ws /\ (\A x \in DOMAIN r.t.ws : r.t.ws[x] = k.t.ws[x])
        /\ r.t.pins = k.t.pins /\ r.t.swaps = k.t.swaps /\ Shrunk(k.t, WithoutSet(k.t, w), r.t, r.freed)
    BY <1>5 DEF Unset
  <2>2. Passed(k.t, r.t, Named, {})
    BY <2>1, ShrunkPassed
  <2> QED BY <1>4, <2>1, <2>2, QuietPassed
<1>7. tab' = r.t
  BY <1>1 DEF GiveBack
<1> QED BY <1>3, <1>6, <1>7, QuietOn DEF Calm

(* So is giving up leases of the cache.                                     *)
LEMMA DropQuiet ==
  ASSUME NEW t, Sound(t), NEW roots, NEW r, Rerooted(t, roots, r)
  PROVE  Calm(t, r.t)
<1>1. /\ Sound(r.t) /\ Shrunk(t, WithRoots(t, roots), r.t, r.freed) /\ r.t.ws = t.ws /\ r.t.pins = t.pins
      /\ r.t.swaps = t.swaps
  BY DEF Rerooted
<1>2. Passed(t, r.t, Named, {})
  BY <1>1, ShrunkPassed
<1>3. QuietBut(t, r.t, {})
  BY <1>1, <1>2, QuietPassed
<1> QED BY <1>3 DEF Calm

(* w's mapping is written, or is given pages: what it reads it read before, *)
(* or is on the device and in no move.                                      *)
Writing(t, u, w) ==
  /\ Sound(u) /\ OtherSets(t, u, w) /\ w \in DOMAIN u.ws
  /\ u.ws[w].owner = t.ws[w].owner /\ u.ws[w].suspended = t.ws[w].suspended
  /\ Kin(t, u, {w}) /\ WrittenReads(t, u, w)

(* Pages that moves have stay live as long as their node is there.          *)
LEMMA SwapsLiveOn ==
  ASSUME NEW t, NEW u, NEW W, Kin(t, u, W), u.swaps = t.swaps, SwapsNamed(t), SwapsLive(t)
  PROVE  SwapsNamed(u) /\ SwapsLive(u)
BY DEF Kin, KinSwaps, SwapsNamed, SwapsLive

(* Two writes of a set are one.                                             *)
LEMMA WritingOn ==
  ASSUME NEW t, NEW u, NEW v, NEW w, Writing(t, u, w), Writing(u, v, w), SwapsNamed(t)
  PROVE  Writing(t, v, w)
<1>1. Kin(t, u, {w}) /\ Kin(u, v, {w}) /\ OtherSets(t, u, w) /\ OtherSets(u, v, w)
  BY DEF Writing
<1>2. Kin(t, v, {w})
  BY <1>1, KinOn DEF OtherSets
<1>3. WrittenReads(t, v, w)
  BY <1>1 DEF Writing, WrittenReads, OtherSets
<1> QED BY <1>1, <1>2, <1>3 DEF Writing, OtherSets

(* No write is one.                                                         *)
LEMMA WritingNone ==
  ASSUME NEW t, Sound(t), NEW w \in DOMAIN t.ws
  PROVE  Writing(t, t, w)
<1>1. Still(t, t) /\ SetsKept(t, t, {w})
  BY DEF Still, ReadAlike, SetsKept
<1>2. Kin(t, t, {w})
  BY <1>1, StillKin
<1> QED BY <1>2 DEF Writing, OtherSets, WrittenReads

(* The elements of a sequence are those at its positions.                   *)
LEMMA InSeq ==
  ASSUME NEW S, NEW s \in Seq(S), NEW x
  PROVE  x \in ToSet(s) <=> \E i \in 1..Len(s) : s[i] = x
BY DEF ToSet

(* The pages a mapping of a sound table has.                                *)
LEMMA ReadsListed ==
  ASSUME NEW t, Sound(t), NEW w \in DOMAIN t.ws
  PROVE  /\ Locations(t, t.ws[w].terminal) \in Seq(Nat \X Nat)
         /\ Len(Locations(t, t.ws[w].terminal)) = t.ws[w].mapped /\ t.ws[w].mapped \in Nat
         /\ Reads(t, w) \subseteq LiveLocations(t)
         /\ \A l : l \in Reads(t, w) <=> \E i \in 1..t.ws[w].mapped : Locations(t, t.ws[w].terminal)[i] = l
<1>1. /\ WsLocations(t, w) = Locations(t, t.ws[w].terminal) /\ WsLocations(t, w) \in Seq(Nat \X Nat)
      /\ Len(WsLocations(t, w)) = t.ws[w].mapped /\ t.ws[w].mapped \in Nat
      /\ \A l \in ToSet(WsLocations(t, w)) : l \in LiveLocations(t)
  BY WsLocationsAll
<1>2. \A l : l \in Reads(t, w) <=> \E i \in 1..t.ws[w].mapped : Locations(t, t.ws[w].terminal)[i] = l
  BY <1>1, InSeq DEF Reads
<1> QED BY <1>1, <1>2 DEF Reads

(* Cutting a set's mapping is a write of it.                                *)
LEMMA WritingCut ==
  ASSUME NEW t, Sound(t), NEW w \in DOMAIN t.ws, NEW b \in 0..t.ws[w].mapped, NEW u, NEW freed,
         Cutting(t, w, t.ws[w].terminal, b, Named, u, freed)
  PROVE  Writing(t, u, w)
<1> DEFINE old == Locations(t, t.ws[w].terminal)
           now == Locations(u, u.ws[w].terminal)
<1>1. /\ OtherSets(t, u, w) /\ u.ws[w] = [t.ws[w] EXCEPT !.terminal = u.ws[w].terminal, !.mapped = b]
      /\ Len(now) = b /\ (\A i \in 1..b : now[i] = old[i])
      /\ \A l \in LiveLocations(u) : l \in LiveLocations(t) /\ Page(u, l) = Page(t, l)
  BY DEF Cutting
<1>2. Sound(u) /\ DOMAIN u.ws = DOMAIN t.ws /\ u.ws[w].mapped = b
  BY CutSound
<1>3. IsSet(t.ws[w]) /\ t.ws[w].mapped \in Nat
  BY SoundFacts DEF IsSets, IsSet
<1>4. u.ws[w].owner = t.ws[w].owner /\ u.ws[w].suspended = t.ws[w].suspended
  BY <1>1, <1>3 DEF IsSet
<1>5. Kin(t, u, {w})
  <2>1. Passed(t, u, Named, {w})
    BY CuttingPassed
  <2>2. SetsKept(t, u, {w})
    BY <1>1 DEF OtherSets, SetsKept
  <2> QED BY <1>2, <2>1, <2>2, PassedKin
<1>6. WrittenReads(t, u, w)
  <2> SUFFICES ASSUME NEW l \in Reads(u, w) PROVE l \in Reads(t, w) /\ Page(u, l).at = Page(t, l).at
    BY DEF WrittenReads
  <2>1. l \in LiveLocations(u) /\ \E i \in 1..b : now[i] = l
    BY <1>2, ReadsListed
  <2>2. PICK i \in 1..b : now[i] = l
    BY <2>1
  <2>3. i \in 1..t.ws[w].mapped /\ old[i] = l
    BY <1>1, <1>3, <2>2
  <2>4. l \in Reads(t, w)
    BY <2>3, ReadsListed
  <2> QED BY <1>1, <2>1, <2>4
<1> QED BY <1>1, <1>2, <1>4, <1>5, <1>6 DEF Writing

(* So is appending pages of the device.                                     *)
LEMMA WritingAppend ==
  ASSUME NEW t, Sound(t), Placed(t), SwapsNamed(t), SwapsLive(t), NEW w \in DOMAIN t.ws, NEW pages, PagesHere(pages),
         NEW u, Appending(t, w, pages, Named, u)
  PROVE  Writing(t, u, w)
<1> DEFINE old == Locations(t, t.ws[w].terminal)
           now == Locations(u, u.ws[w].terminal)
<1>1. /\ OtherSets(t, u, w)
      /\ u.ws[w] = [t.ws[w] EXCEPT !.terminal = u.ws[w].terminal, !.mapped = t.ws[w].mapped + Len(pages)]
      /\ Len(now) = Len(old) + Len(pages) /\ (\A i \in 1..Len(old) : now[i] = old[i])
      /\ \A i \in 1..Len(pages) : /\ now[Len(old) + i] \in LiveLocations(u) \ LiveLocations(t)
                                  /\ Page(u, now[Len(old) + i]) = pages[i]
      /\ \A l \in LiveLocations(t) : l \in LiveLocations(u) /\ Page(u, l) = Page(t, l)
      /\ \A n \in DOMAIN u.nodes \ DOMAIN t.nodes : n \notin Named
  BY DEF Appending
<1>2. Sound(u) /\ u.ws[w].mapped = t.ws[w].mapped + Len(pages)
  BY AppendSound
<1>3. IsSet(t.ws[w]) /\ t.ws[w].mapped \in Nat /\ Len(old) = t.ws[w].mapped /\ Len(pages) \in Nat
  <2>1. IsSet(t.ws[w])
    BY SoundFacts DEF IsSets
  <2>2. t.ws[w].mapped \in Nat /\ Len(old) = t.ws[w].mapped
    BY ReadsListed
  <2>3. Len(pages) \in Nat
    BY DEF PagesHere, IsPages
  <2> QED BY <2>1, <2>2, <2>3
<1>4. u.ws[w].owner = t.ws[w].owner /\ u.ws[w].suspended = t.ws[w].suspended
  BY <1>1, <1>3 DEF IsSet
<1>5. Kin(t, u, {w})
  BY <1>2, AppendingKin
<1>6. WrittenReads(t, u, w)
  <2> SUFFICES ASSUME NEW l \in Reads(u, w)
               PROVE  \/ l \in Reads(t, w) /\ Page(u, l).at = Page(t, l).at
                      \/ OnDevice(Page(u, l).at) /\ l \notin u.swaps
    BY DEF WrittenReads
  <2>1. w \in DOMAIN u.ws
    BY <1>1 DEF OtherSets
  <2>2. PICK i \in 1..u.ws[w].mapped : now[i] = l
    BY <1>2, <2>1, ReadsListed
  <2>3. CASE i <= t.ws[w].mapped
    <3>1. i \in 1..t.ws[w].mapped /\ old[i] = l
      BY <2>2, <2>3, <1>1, <1>2, <1>3
    <3>2. l \in Reads(t, w) /\ l \in LiveLocations(t)
      BY <3>1, ReadsListed
    <3> QED BY <3>2, <1>1
  <2>4. CASE i > t.ws[w].mapped
    <3>1. PICK j \in 1..Len(pages) : i = Len(old) + j
      <4>1. i - Len(old) \in 1..Len(pages) /\ i = Len(old) + (i - Len(old))
        BY <2>4, <1>2, <1>3
      <4> QED BY <4>1
    <3>2. l \in LiveLocations(u) \ LiveLocations(t) /\ Page(u, l) = pages[j]
      BY <2>2, <3>1, <1>1
    <3>3. OnDevice(Page(u, l).at)
      BY <3>2 DEF PagesHere
    <3>4. l \notin t.swaps
      <4> SUFFICES ASSUME l \in t.swaps PROVE FALSE
        OBVIOUS
      <4>1. l[1] \in Named
        BY DEF SwapsNamed
      <4>2. l[1] \in DOMAIN u.nodes
        BY <1>2, <3>2, SoundFacts, LiveIn
      <4>3. l \in LiveLocations(t)
        BY <4>1, <4>2, <1>1 DEF SwapsLive
      <4> QED BY <4>3, <3>2
    <3> QED BY <3>3, <3>4, <1>1 DEF OtherSets
  <2> QED BY <2>2, <2>3, <2>4, <1>2, <1>3
<1> QED BY <1>1, <1>2, <1>4, <1>5, <1>6 DEF Writing, OtherSets

(* A write of a running process's set is quiet but for it.                  *)
LEMMA WritingQuiet ==
  ASSUME NEW t, NEW u, NEW w, Writing(t, u, w), w \in DOMAIN t.ws, t.ws[w].owner \notin away
  PROVE  QuietBut(t, u, {w})
<1>1. Written(t, u, w)
  BY DEF Writing, Written
<1> QED BY <1>1 DEF Writing, QuietBut, Flags, OtherSets

(* A fire's preparation is such a write.                                    *)
LEMMA FirePrepareQuiet ==
  ASSUME Struct, SwapsNamed(tab), SwapsLive(tab), NEW f \in DOMAIN fires, FirePrepare(f)
  PROVE  QuietBut(tab, tab', {fires[f].ws})
<1> DEFINE w == fires[f].ws
           r1 == FireCopied(f)
           r == FireTable(f)
<1>1. /\ w \in DOMAIN tab.ws /\ Sound(tab) /\ Placed(tab) /\ IsFiniteSet(Named)
      /\ FireFrom(f) \in 1..(tab.ws[w].mapped + 1) /\ FireIds(f) \in Seq(DevicePages)
      /\ tab.ws[w].mapped + 1 - FireFrom(f) <= Len(FireIds(f)) /\ FireRest(f) \in Seq(DevicePages)
  BY FireCounted
<1>2. Rewritten(tab, w, r1) /\ CopiedIn(tab, w, r1)
  BY <1>1, CopiesMade DEF FireCopied
<1> HIDE DEF r1
<1>3. Writing(tab, r1.t, w)
  <2>1. CASE r1.t = tab
    BY <1>1, <2>1, WritingNone
  <2>2. CASE \E pages : \E from \in 0..tab.ws[w].mapped : PagesHere(pages) /\ Retailed(tab, w, from, pages, Named, r1)
    <3>1. PICK pages : \E from \in 0..tab.ws[w].mapped : PagesHere(pages) /\ Retailed(tab, w, from, pages, Named, r1)
      BY <2>2
    <3>a. PICK from \in 0..tab.ws[w].mapped : PagesHere(pages) /\ Retailed(tab, w, from, pages, Named, r1)
      BY <3>1
    <3>2. PICK c : Cutting(tab, w, tab.ws[w].terminal, from, Named, c, r1.freed) /\ Appending(c, w, pages, Named, r1.t)
      BY <3>a DEF Retailed
    <3>3. Writing(tab, c, w)
      BY <1>1, <3>2, WritingCut
    <3>4. Sound(c) /\ Kin(tab, c, {w}) /\ c.swaps = tab.swaps /\ w \in DOMAIN c.ws
      BY <3>3 DEF Writing, OtherSets
    <3>5. SwapsNamed(c) /\ SwapsLive(c)
      BY <3>4, SwapsLiveOn
    <3>6. Placed(c)
      BY <3>2, <1>1 DEF Cutting, Placed
    <3>7. Writing(c, r1.t, w)
      BY <3>1, <3>2, <3>4, <3>5, <3>6, WritingAppend
    <3> QED BY <3>3, <3>7, WritingOn
  <2> QED BY <1>2, <2>1, <2>2 DEF CopiedIn
<1>4. PICK pages : PagesHere(pages) /\ Appending(r1.t, w, pages, Named, r.t)
  BY <1>1, <1>2, MoreBacked DEF FireTable, r1
<1> HIDE DEF r
<1>5. Writing(r1.t, r.t, w)
  <2>1. Sound(r1.t) /\ Kin(tab, r1.t, {w}) /\ r1.t.swaps = tab.swaps /\ w \in DOMAIN r1.t.ws
    BY <1>3 DEF Writing, OtherSets
  <2>2. SwapsNamed(r1.t) /\ SwapsLive(r1.t)
    BY <2>1, SwapsLiveOn
  <2>3. Placed(r1.t)
    BY <1>2 DEF Rewritten, Good
  <2> QED BY <1>4, <2>1, <2>2, <2>3, WritingAppend
<1>6. Writing(tab, r.t, w)
  BY <1>3, <1>5, WritingOn
<1>7. tab' = r.t
  BY DEF FirePrepare, PrepareWrite, Published, r, FireTable, FireCopied, FireRest, FireCopies, FireIds, FireFrom, FireNeed
<1>8. tab.ws[w].owner \notin away
  BY DEF FirePrepare, IsAway
<1> QED BY <1>1, <1>6, <1>7, <1>8, WritingQuiet

(* So is Supply.                                                            *)
LEMMA SupplyQuiet ==
  ASSUME Struct, SwapsNamed(tab), NEW w \in LiveSets, NEW toks \in Seq(Tokens), Supply(w, toks)
  PROVE  QuietBut(tab, tab', {w})
<1>1. w \in DOMAIN tab.ws /\ Sound(tab)
  BY SetFacts DEF LiveSets
<1>2. PICK run, u, e : Supplied(w, run, u, e)
  BY SupplyMaps
<1> DEFINE now == Locations(u, u.ws[w].terminal)
<1>3. /\ run \in Seq(LiveLocations(tab)) /\ OnPath(run) /\ \A l \in ToSet(run) : Settled(tab, l)
  BY <1>2 DEF Supplied
<1>4. Cutting(tab, w, Last(run)[1], Len(run), Named, u, {})
  BY <1>2 DEF Supplied
<1>5. Sound(u) /\ DOMAIN u.ws = DOMAIN tab.ws /\ u.ws[w].mapped = Len(run)
  BY <1>1, <1>4, CutSound
<1>6. /\ OtherSets(tab, u, w) /\ u.ws[w] = [tab.ws[w] EXCEPT !.terminal = u.ws[w].terminal, !.mapped = Len(run)]
      /\ (\A i \in 1..Len(run) : now[i] = Locations(tab, Last(run)[1])[i])
      /\ \A l \in LiveLocations(u) : l \in LiveLocations(tab) /\ Page(u, l) = Page(tab, l)
  BY <1>4 DEF Cutting
<1>7. u.ws[w].owner = tab.ws[w].owner /\ u.ws[w].suspended = tab.ws[w].suspended
  <2>1. IsSet(tab.ws[w])
    BY <1>1, SoundFacts DEF IsSets
  <2> QED BY <1>6, <2>1 DEF IsSet
<1>8. Kin(tab, u, {w})
  <2>1. Passed(tab, u, Named, {w})
    BY <1>4, CuttingPassed
  <2>2. SetsKept(tab, u, {w})
    BY <1>6 DEF OtherSets, SetsKept
  <2> QED BY <1>1, <1>5, <2>1, <2>2, PassedKin
<1>9. WrittenReads(tab, u, w)
  <2> SUFFICES ASSUME NEW l \in Reads(u, w) PROVE OnDevice(Page(u, l).at) /\ l \notin u.swaps
    BY DEF WrittenReads
  <2>1. PICK i \in 1..Len(run) : now[i] = l
    BY <1>1, <1>5, ReadsListed
  <2>2. l \in LiveLocations(u)
    BY <1>1, <1>5, ReadsListed
  <2>3. l = run[i]
    BY <2>1, <1>3, <1>6 DEF OnPath
  <2>4. l \in ToSet(run)
    BY <1>3, <2>1, <2>3, InSeq
  <2> QED BY <2>2, <2>4, <1>3, <1>6 DEF Settled, OtherSets
<1>10. Writing(tab, u, w)
  BY <1>1, <1>5, <1>6, <1>7, <1>8, <1>9 DEF Writing
<1>11. Tended(u, tab') /\ Replaced(u, tab', w, e)
  BY <1>1, <1>2, <1>5, TendedSet, SetPut, SoundFacts DEF Supplied
<1>12. Writing(u, tab', w)
  <2>1. Sound(tab') /\ OtherSets(u, tab', w) /\ w \in DOMAIN tab'.ws
    BY <1>1, <1>5, <1>11 DEF Tended, Replaced, OtherSets
  <2>2. Kin(u, tab', {})
    BY <1>5, <1>11, TendedStill, StillKin
  <2>3. Kin(u, tab', {w})
    BY <2>2, KinMore
  <2>4. SameReads(u, u.ws[w].terminal, tab', tab'.ws[w].terminal)
    BY <2>1, <2>2 DEF Kin, KinSets
  <2>5. WrittenReads(u, tab', w)
    BY <2>4 DEF WrittenReads, SameReads, Reads
  <2> QED BY <1>1, <1>5, <1>11, <2>1, <2>3, <2>5 DEF Writing, Tended
<1>13. Writing(tab, tab', w)
  BY <1>10, <1>12, WritingOn
<1>14. tab.ws[w].owner \notin away
  BY DEF Supply, Clean, IsAway
<1> QED BY <1>1, <1>13, <1>14, WritingQuiet

(* The steps that neither begin nor end a move.                             *)
LEMMA DropEntriesQuiet ==
  ASSUME Struct, NEW entries \in SUBSET DOMAIN cache, DropEntries(entries)
  PROVE  Calm(tab, tab')
<1> DEFINE r == Dropped(tab, entries)
<1>1. Sound(tab) /\ RootsExact(tab, cache)
  BY DEF Struct, InvTable
<1>2. Rerooted(tab, LessRoots(tab, cache, entries), r)
  BY <1>1, Drops
<1>3. tab' = r.t
  BY DEF DropEntries, GiveBack
<1> HIDE DEF r
<1> QED BY <1>1, <1>2, <1>3, DropQuiet

(* Reclaiming and discarding cache entries is calm.                         *)
LEMMA CacheQuiet ==
  ASSUME Struct, ReclaimCache \/ \E owner : DiscardCache(owner)
  PROVE  Calm(tab, tab')
<1>1. CASE ReclaimCache
  <2>1. PICK order \in ReclaimOrders : \E n \in DOMAIN order : DropEntries(UNION {GroupOf(order[i]) : i \in 1..n})
    BY <1>1 DEF ReclaimCache
  <2>2. PICK n \in DOMAIN order : DropEntries(UNION {GroupOf(order[i]) : i \in 1..n})
    BY <2>1
  <2>3. UNION {GroupOf(order[i]) : i \in 1..n} \in SUBSET DOMAIN cache
    BY DEF GroupOf, Reclaimable
  <2> QED BY <2>2, <2>3, DropEntriesQuiet
<1>2. CASE \E owner : DiscardCache(owner)
  <2>1. PICK owner : DropEntries({e \in DOMAIN cache : e.owner = owner})
    BY <1>2 DEF DiscardCache
  <2> QED BY <2>1, DropEntriesQuiet
<1> QED BY <1>1, <1>2

(* Every step of a set is quiet.                                            *)
LEMMA SetQuiet ==
  ASSUME Struct, SwapsNamed(tab), SetStep
  PROVE  Quiet(tab, tab')
BY CreateQuiet, ForkQuiet, ReleaseQuiet DEF SetStep, Calm, Quiet

(* Every step of a fire is quiet.                                           *)
LEMMA FireQuiet ==
  ASSUME Struct, SwapsNamed(tab), SwapsLive(tab), FireStep
  PROVE  Quiet(tab, tab')
<1>1. Sound(tab)
  BY DEF Struct, InvTable
<1>2. CASE PrepareStep
  <2>1. ASSUME NEW w, NEW start, NEW toks, Quote(w, start, toks)
        PROVE  Quiet(tab, tab')
    <3>1. tab' = tab
      BY <2>1 DEF Quote
    <3> QED BY <1>1, <3>1, QuietSame DEF Calm, Quiet
  <2>2. ASSUME NEW f, FireGivesUp(f) \/ FireRefused(f)
        PROVE  Quiet(tab, tab')
    <3>1. tab' = tab
      BY <2>2 DEF FireGivesUp, FireRefused
    <3> QED BY <1>1, <3>1, QuietSame DEF Calm, Quiet
  <2>3. ASSUME NEW f \in DOMAIN fires, NEW broken \in BOOLEAN, FireLost(f, broken)
        PROVE  Quiet(tab, tab')
    BY <1>1, <2>3, FireLostStruct, QuietTended DEF Calm, Quiet
  <2> QED BY <1>2, <2>1, <2>2, <2>3, FirePrepareQuiet DEF PrepareStep, Quiet
<1>3. CASE \E f \in DOMAIN fires : FireSubmit(f)
  BY <1>1, <1>3, FireSubmitStruct, QuietTended DEF Calm, Quiet
<1>4. ASSUME NEW f \in DOMAIN fires, NEW to \in {0, End(f)}, NEW decoded \in BOOLEAN, FireSettles(f, TRUE, to, decoded)
      PROVE  Quiet(tab, tab')
  <2>1. fires[f].phase = "queued"
    BY <1>4 DEF FireSettles
  <2>2. to \in Nat
    BY <1>4, <2>1, FireFacts
  <2> QED BY <1>1, <1>4, <2>2, FireSettlesStruct, QuietTended DEF Calm, Quiet
<1>5. ASSUME NEW f \in DOMAIN fires, FireSettles(f, FALSE, 0, FALSE)
      PROVE  Quiet(tab, tab')
  BY <1>1, <1>5, FireSettlesStruct, QuietTended DEF Calm, Quiet
<1> QED BY <1>2, <1>3, <1>4, <1>5 DEF FireStep

(* Every step but those of moves is quiet and leaves moves and residency    *)
(* alone.                                                                   *)
LEMMA NextQuiet ==
  ASSUME Struct, SwapsNamed(tab), SwapsLive(tab), SetStep \/ FireStep \/ CacheStep \/ UNCHANGED vars
  PROVE  Quiet(tab, tab') /\ UNCHANGED <<moves, away>>
<1>1. CASE SetStep
  BY <1>1, SetQuiet DEF SetStep, Create, Fork, Release
<1>2. CASE FireStep
  <2>1. UNCHANGED <<moves, away>>
    BY <1>2, ZenonT(40) DEF FireStep, PrepareStep, Quote, FireGivesUp, FirePrepare, FireRefused, FireLost, FireSubmit, FireSettles
  <2> QED BY <1>2, <2>1, FireQuiet
<1>3. CASE CacheStep
  <2>1. UNCHANGED <<moves, away>>
    BY <1>3 DEF CacheStep, Supply, ReclaimCache, DiscardCache
  <2>2. ASSUME NEW w \in LiveSets, NEW toks \in TokenSeqs(WholePages), Supply(w, toks)
        PROVE  Quiet(tab, tab')
    <3>1. WholePages \in SUBSET Nat
      BY KvAssumption DEF WholePages
    <3>2. toks \in Seq(Tokens)
      BY <3>1, TokenLists
    <3> QED BY <2>2, <3>2, SupplyQuiet DEF Quiet
  <2> QED BY <1>3, <2>1, <2>2, CacheQuiet DEF CacheStep, Calm, Quiet
<1>4. CASE UNCHANGED vars
  <2>1. Sound(tab) /\ tab' = tab /\ UNCHANGED <<moves, away>>
    BY <1>4 DEF Struct, InvTable, vars
  <2> QED BY <2>1, QuietSame DEF Calm, Quiet
<1> QED BY <1>1, <1>2, <1>3, <1>4

(* Where a move left its pages.                                             *)
Where(move, p) == IF move.kind = "out" THEN OnGpu(p) ELSE InSlot(p)

(* The pages of moves are those swap_locations has, each in one move.       *)
Swapping(t, mv) == t.swaps = UNION {LocsIn(mv[m]) : m \in DOMAIN mv}
Apart(mv) == \A m, n \in DOMAIN mv : m # n => LocsIn(mv[m]) \cap LocsIn(mv[n]) = {}
IdleMoves(mv) == \A m \in DOMAIN mv : mv[m].kind \in {"quoted", "reader"} => mv[m].pages = {}

InPlace(t, move) == \A p \in move.pages : p.loc \in LiveLocations(t) => Page(t, p.loc).at = Where(move, p)

(* What leaves the device is read by a node its move pinned, or by no set.  *)
OutHeld(t, move) ==
  \A l \in LocsIn(move) : \/ \E n \in move.pinned : l \in ToSet(Locations(t, n))
                          \/ \A w \in DOMAIN t.ws : l \notin Reads(t, w)

MovesOk(t, mv) ==
  /\ Swapping(t, mv) /\ Apart(mv) /\ IdleMoves(mv) /\ SwapsLive(t)
  /\ \A m \in DOMAIN mv : InPlace(t, mv[m]) /\ (mv[m].kind = "out" => OutHeld(t, mv[m]))

(* Pages that moves have are of nodes that moves name.                      *)
LEMMA SwapsAreNamed ==
  ASSUME NEW t, Swapping(t, moves)
  PROVE  SwapsNamed(t)
<1>1. ASSUME NEW l \in t.swaps
      PROVE  l[1] \in Named
  <2>1. PICK m \in DOMAIN moves : l \in LocsIn(moves[m])
    BY DEF Swapping
  <2>2. PICK p \in moves[m].pages : p.loc = l
    BY <2>1 DEF LocsIn
  <2>3. l[1] \in {q.loc[1] : q \in moves[m].pages}
    BY <2>2
  <2> QED BY <2>3 DEF Named
<1> QED BY <1>1 DEF SwapsNamed

(* A page a move has that no set reads is read by none after a quiet step.  *)
LEMMA QuietReads ==
  ASSUME NEW t, Sound(t), NEW u, Sound(u), Quiet(t, u), NEW l \in t.swaps, \A w \in DOMAIN t.ws : l \notin Reads(t, w),
         NEW w \in DOMAIN u.ws
  PROVE  l \notin Reads(u, w)
<1>1. PICK W : QuietBut(t, u, W)
  BY DEF Quiet
<1>2. CASE w \notin W
  BY <1>1, <1>2 DEF QuietBut, Kin, KinSets, SameReads, Reads
<1>3. CASE w \in W
  <2>1. CASE Blank(u, w)
    <3>1. u.ws[w].mapped = Len(Locations(u, NoNode)) /\ Reads(u, w) = ToSet(Locations(u, NoNode))
      BY <2>1, WsLocationsAll DEF Blank, Reads
    <3>2. Locations(u, NoNode) = <<>>
      BY SoundFacts, LocationFacts
    <3> QED BY <3>1, <3>2 DEF ToSet
  <2>2. CASE Forked(t, u, w)
    BY <2>2 DEF Forked, SameReads, Reads
  <2>3. CASE Written(t, u, w)
    BY <1>1, <2>3 DEF Written, WrittenReads, QuietBut
  <2> QED BY <1>1, <1>3, <2>1, <2>2, <2>3 DEF QuietBut
<1> QED BY <1>2, <1>3

(* A quiet step keeps what is known of the moves.                           *)
LEMMA QuietMoves ==
  ASSUME InvMoves, NEW t, Sound(t), t.pins = tab.pins, NEW u, Sound(u), Quiet(t, u), MovesOk(t, moves)
  PROVE  MovesOk(u, moves)
<1>1. PICK W : QuietBut(t, u, W)
  BY DEF Quiet
<1>2. u.swaps = t.swaps /\ u.pins = t.pins /\ Kin(t, u, W)
  BY <1>1 DEF QuietBut
<1>3. SwapsNamed(t) /\ SwapsLive(t)
  BY SwapsAreNamed DEF MovesOk
<1>4. SwapsLive(u)
  BY <1>2, <1>3, SwapsLiveOn
<1>5. ASSUME NEW m \in DOMAIN moves
      PROVE  LocsIn(moves[m]) \subseteq t.swaps /\ moves[m].pinned \subseteq DOMAIN t.pins
  <2>1. moves[m].pinned \subseteq DOMAIN tab.pins
    BY MovePinned
  <2> QED BY <2>1 DEF MovesOk, Swapping
<1>6. ASSUME NEW m \in DOMAIN moves
      PROVE  InPlace(u, moves[m])
  <2>1. ASSUME NEW p \in moves[m].pages, p.loc \in LiveLocations(u)
        PROVE  Page(u, p.loc).at = Where(moves[m], p)
    <3>1. p.loc \in t.swaps
      BY <1>5 DEF LocsIn
    <3>2. p.loc \in LiveLocations(t) /\ Page(u, p.loc).at = Page(t, p.loc).at
      BY <1>2, <2>1, <3>1 DEF Kin, KinSwaps
    <3>3. InPlace(t, moves[m])
      BY DEF MovesOk
    <3> QED BY <3>2, <3>3 DEF InPlace
  <2> QED BY <2>1 DEF InPlace
<1>7. ASSUME NEW m \in DOMAIN moves, moves[m].kind = "out"
      PROVE  OutHeld(u, moves[m])
  <2>1. ASSUME NEW l \in LocsIn(moves[m])
        PROVE  \/ \E n \in moves[m].pinned : l \in ToSet(Locations(u, n))
               \/ \A w \in DOMAIN u.ws : l \notin Reads(u, w)
    <3>1. OutHeld(t, moves[m])
      BY <1>7 DEF MovesOk
    <3>2. CASE \E n \in moves[m].pinned : l \in ToSet(Locations(t, n))
      BY <1>2, <1>5, <3>2 DEF Kin, KinPins, SameReads
    <3>3. CASE \A w \in DOMAIN t.ws : l \notin Reads(t, w)
      BY <1>5, <3>3, QuietReads
    <3> QED BY <3>1, <3>2, <3>3 DEF OutHeld
  <2> QED BY <2>1 DEF OutHeld
<1> QED BY <1>2, <1>4, <1>6, <1>7 DEF MovesOk, Swapping

(* A move is begun: nothing else of the moves changes.                      *)
Renewed(mv, k, mv2) == \A n \in DOMAIN mv2 : n # k => n \in DOMAIN mv /\ mv2[n] = mv[n]

Begun(mv, k, move, mv2) ==
  /\ DOMAIN mv2 = DOMAIN mv \cup {k} /\ mv2[k] = move
  /\ Renewed(mv, k, mv2)
  /\ k \in DOMAIN mv => mv[k].pages = {}

(* A table that reads alike keeps a move's pages where they were, and held. *)
LEMMA AlikeInPlace ==
  ASSUME NEW t, NEW u, Alike(t, u), u.ws = t.ws, NEW move
  PROVE  /\ InPlace(t, move) => InPlace(u, move)
         /\ OutHeld(t, move) => OutHeld(u, move)
<1>1. LiveLocations(u) = LiveLocations(t) /\ \A l \in LiveLocations(t) : Page(u, l) = Page(t, l)
  BY DEF Alike
<1>2. InPlace(t, move) => InPlace(u, move)
  BY <1>1 DEF InPlace
<1>3. (\A n : Locations(u, n) = Locations(t, n)) /\ \A w \in DOMAIN u.ws : Reads(u, w) = Reads(t, w)
  BY DEF Alike, Reads
<1> QED BY <1>2, <1>3 DEF OutHeld

(* A move of pages no other move has keeps the moves apart.                 *)
LEMMA MoveBegins ==
  ASSUME NEW t, NEW mv, MovesOk(t, mv), NEW pinned, NEW locs, NEW u, Moving(t, pinned, locs, u),
         locs \cap t.swaps = {}, locs \subseteq LiveLocations(t),
         NEW k, NEW move, NEW mv2, Begun(mv, k, move, mv2), LocsIn(move) = locs,
         InPlace(t, move), move.kind = "out" => OutHeld(t, move),
         move.kind \in {"quoted", "reader"} => move.pages = {}
  PROVE  MovesOk(u, mv2)
<1>1. Alike(t, u) /\ u.ws = t.ws /\ u.swaps = t.swaps \cup locs
  BY DEF Moving
<1>2. k \in DOMAIN mv => LocsIn(mv[k]) = {}
  BY DEF Begun, LocsIn
<1>3. \A n \in DOMAIN mv2 : n # k => n \in DOMAIN mv /\ mv2[n] = mv[n]
  BY DEF Begun, Renewed
<1>4. Swapping(u, mv2)
  <2>1. ASSUME NEW l PROVE l \in u.swaps <=> \E m \in DOMAIN mv2 : l \in LocsIn(mv2[m])
    <3>1. l \in t.swaps <=> \E m \in DOMAIN mv : l \in LocsIn(mv[m])
      BY DEF MovesOk, Swapping
    <3>2. ASSUME NEW m \in DOMAIN mv, l \in LocsIn(mv[m]) PROVE m # k /\ m \in DOMAIN mv2
      BY <1>2, <3>2 DEF Begun
    <3> QED BY <1>1, <1>3, <3>1, <3>2 DEF Begun
  <2> QED BY <2>1 DEF Swapping
<1>5. Apart(mv2)
  <2>1. \A n \in DOMAIN mv2 : n # k => LocsIn(mv2[n]) \subseteq t.swaps
    BY <1>3 DEF MovesOk, Swapping
  <2>2. LocsIn(mv2[k]) = locs
    BY DEF Begun
  <2>3. ASSUME NEW m \in DOMAIN mv2, NEW n \in DOMAIN mv2, m # n
        PROVE  LocsIn(mv2[m]) \cap LocsIn(mv2[n]) = {}
    <3>1. CASE m # k /\ n # k
      BY <1>3, <2>3, <3>1 DEF MovesOk, Apart
    <3> QED BY <2>1, <2>2, <2>3, <3>1
  <2> QED BY <2>3 DEF Apart
<1>6. IdleMoves(mv2)
  BY <1>3 DEF Begun, MovesOk, IdleMoves
<1>7. SwapsLive(u)
  <2>1. DOMAIN u.nodes = DOMAIN t.nodes /\ LiveLocations(u) = LiveLocations(t)
    BY <1>1 DEF Alike
  <2> QED BY <1>1, <2>1 DEF MovesOk, SwapsLive
<1>8. ASSUME NEW m \in DOMAIN mv2
      PROVE  InPlace(t, mv2[m]) /\ (mv2[m].kind = "out" => OutHeld(t, mv2[m]))
  BY <1>3 DEF Begun, MovesOk
<1>9. ASSUME NEW m \in DOMAIN mv2
      PROVE  InPlace(u, mv2[m]) /\ (mv2[m].kind = "out" => OutHeld(u, mv2[m]))
  BY <1>1, <1>8, AlikeInPlace
<1> QED BY <1>4, <1>5, <1>6, <1>7, <1>9 DEF MovesOk

(* So does a change to a move that has no pages.                            *)
LEMMA MoveIdles ==
  ASSUME NEW t, NEW mv, MovesOk(t, mv), NEW k, NEW mv2, Renewed(mv, k, mv2), DOMAIN mv \ {k} \subseteq DOMAIN mv2,
         k \in DOMAIN mv => mv[k].pages = {}, k \in DOMAIN mv2 => mv2[k].pages = {} /\ mv2[k].kind # "out"
  PROVE  MovesOk(t, mv2)
<1>1. k \in DOMAIN mv => LocsIn(mv[k]) = {}
  BY DEF LocsIn
<1>2. k \in DOMAIN mv2 => LocsIn(mv2[k]) = {} /\ InPlace(t, mv2[k])
  BY DEF LocsIn, InPlace
<1>3. \A n \in DOMAIN mv2 : n # k => n \in DOMAIN mv /\ mv2[n] = mv[n]
  BY DEF Renewed
<1>4. Swapping(t, mv2)
  <2>1. ASSUME NEW l PROVE l \in t.swaps <=> \E m \in DOMAIN mv2 : l \in LocsIn(mv2[m])
    <3>1. l \in t.swaps <=> \E m \in DOMAIN mv : l \in LocsIn(mv[m])
      BY DEF MovesOk, Swapping
    <3> QED BY <1>1, <1>2, <1>3, <3>1
  <2> QED BY <2>1 DEF Swapping
<1>5. Apart(mv2)
  BY <1>2, <1>3 DEF MovesOk, Apart
<1>6. IdleMoves(mv2)
  BY <1>3 DEF MovesOk, IdleMoves
<1> QED BY <1>2, <1>3, <1>4, <1>5, <1>6 DEF MovesOk

(* A move's pages are where it found them.                                  *)
LEMMA OutInPlace ==
  ASSUME NEW t, Placed(t), NEW p, NEW sets, NEW locs, OnDeviceAll(t, locs), NEW have,
         IsFiniteSet(locs)
  PROVE  InPlace(t, MoveOut(t, p, sets, locs, have).move)
<1> DEFINE to == OneByOne(Lowest(Cardinality(locs), have))
           at == SetToSeq(locs)
           pages == {[loc |-> at[i], gpu |-> Page(t, at[i]).at[2], slot |-> to[i]] : i \in DOMAIN at}
           move == MoveOut(t, p, sets, locs, have).move
<1>1. move.pages = pages /\ move.kind = "out"
  BY DEF MoveOut, NoMove
<1>2. \A i \in DOMAIN at : at[i] \in locs
  BY LocsListed
<1> HIDE DEF at, to, move
<1>3. ASSUME NEW q \in pages
      PROVE  Page(t, q.loc).at = Device(q.gpu)
  <2>1. PICK i \in DOMAIN at : q = [loc |-> at[i], gpu |-> Page(t, at[i]).at[2], slot |-> to[i]]
    BY DEF pages
  <2>2. q.loc \in LiveLocations(t) /\ OnDevice(Page(t, q.loc).at) /\ q.gpu = Page(t, q.loc).at[2]
    BY <1>2, <2>1 DEF OnDeviceAll
  <2> QED BY <2>2, PageOnDevice
<1>4. InPlace(t, move)
  BY <1>1, <1>3 DEF InPlace, Where, OnGpu
<1> QED BY <1>4 DEF move

(* The pages of a move up are below the device when it begins.              *)
LEMMA InInPlace ==
  ASSUME NEW t, Placed(t), NEW mv, IsMove(mv), NEW locs, BelowAll(t, locs), NEW gpus, NEW pinned, IsFiniteSet(locs)
  PROVE  InPlace(t, MoveIn(t, mv, locs, gpus, pinned).move)
<1> DEFINE to == OneByOne(gpus)
           at == SetToSeq(locs)
           pages == {[loc |-> at[i], gpu |-> to[i], slot |-> Page(t, at[i]).at[2]] : i \in DOMAIN at}
           move == MoveIn(t, mv, locs, gpus, pinned).move
<1>0. DOMAIN mv = {"kind", "proc", "sets", "ws", "pages", "pinned", "run", "grant"}
  BY DEF IsMove
<1>1. move.pages = pages /\ move.kind = "in"
  BY <1>0 DEF MoveIn
<1>2. \A i \in DOMAIN at : at[i] \in locs
  BY LocsListed
<1> HIDE DEF at, to, move
<1>3. ASSUME NEW q \in pages
      PROVE  Page(t, q.loc).at = Host(q.slot)
  <2>1. PICK i \in DOMAIN at : q = [loc |-> at[i], gpu |-> to[i], slot |-> Page(t, at[i]).at[2]]
    BY DEF pages
  <2>2. q.loc \in LiveLocations(t) /\ ~OnDevice(Page(t, q.loc).at) /\ q.slot = Page(t, q.loc).at[2]
    BY <1>2, <2>1 DEF BelowAll
  <2> QED BY <2>2, PageOnDevice
<1>4. InPlace(t, move)
  BY <1>1, <1>3 DEF InPlace, Where, InSlot
<1> QED BY <1>4 DEF move

(* What the preparation of a move does: t is the table once room was made.  *)
Opened(t, k, move) ==
  /\ Sound(t) /\ Calm(tab, t) /\ t.ws = tab.ws /\ t.pins = tab.pins /\ t.swaps = tab.swaps
  /\ Begun(moves, k, move, moves') /\ IsMove(move)
  /\ Moving(t, move.pinned, LocsIn(move), tab')
  /\ LocsIn(move) \subseteq LiveLocations(t) /\ InPlace(t, move)

OutMove(move, p, sets, pinned, locs) ==
  /\ move.kind = "out" /\ move.proc = p /\ move.sets = sets /\ move.pinned = pinned /\ LocsIn(move) = locs
  /\ move.ws = 0 /\ move.run = <<>>

(* A new move has a number of its own.                                      *)
LEMMA BegunNew ==
  ASSUME InvUsed, NEW move, moves' = Put(moves, used.moves + 1, move), Number("moves", MaxMoves)
  PROVE  Begun(moves, used.moves + 1, move, moves')
<1>1. used.moves + 1 \notin DOMAIN moves
  BY MovesNumbered
<1> DEFINE k == used.moves + 1
<1> HIDE DEF k
<1>2. k \notin DOMAIN moves /\ moves' = Put(moves, k, move)
  BY <1>1 DEF k
<1>3. DOMAIN moves' = DOMAIN moves \cup {k} /\ moves'[k] = move /\ \A n \in DOMAIN moves : n # k => moves'[n] = moves[n]
  BY <1>2 DEF Put
<1>4. Begun(moves, k, move, moves')
  BY <1>2, <1>3 DEF Begun, Renewed
<1> QED BY <1>4 DEF k

(* A move down is of the process it was made for.                           *)
LEMMA OutProc ==
  ASSUME NEW t, NEW p, NEW sets, NEW locs, NEW have
  PROVE  MoveOut(t, p, sets, locs, have).move.proc = p
BY DEF MoveOut, NoMove

(* Beginning a move down, once room was made for it.                        *)
LEMMA OutOpens ==
  ASSUME Struct, NEW gone, Roomy(gone), Calm(tab, gone.t), NEW p \in Nat, NEW sets \in SUBSET DOMAIN tab.ws,
         NEW locs, OnDeviceAll(gone.t, locs), NEW have, have = slots \cup SlotsOf(gone.freed),
         Cardinality(locs) <= Cardinality(have), BeginOut(MoveOut(gone.t, p, sets, locs, have), have)
  PROVE  \E k, move : Opened(gone.t, k, move) /\ OutMove(move, p, sets, Terminals(gone.t, sets), locs)
<1> DEFINE out == MoveOut(gone.t, p, sets, locs, have)
<1> USE DEF Struct
<1>1. /\ Sound(gone.t) /\ Placed(gone.t) /\ gone.t.ws = tab.ws /\ gone.t.pins = tab.pins /\ gone.t.swaps = tab.swaps
      /\ have \in SUBSET Slots
  BY DEF Roomy, Good
<1>2. MovedOut(gone.t, sets, locs, have, out)
  BY <1>1, SetsFinite, MovesOut
<1>3. tab' = out.t /\ moves' = Put(moves, used.moves + 1, out.move) /\ Number("moves", MaxMoves)
  BY DEF BeginOut, Begin
<1>4. out.move.proc = p
  BY OutProc
<1>5. IsFiniteSet(locs)
  BY <1>1, SoundFacts, LiveFinite, FS_Subset DEF OnDeviceAll
<1>6. InPlace(gone.t, out.move)
  BY <1>1, <1>5, OutInPlace
<1> HIDE DEF out
<1> DEFINE k == used.moves + 1
           move == out.move
<1>7. Begun(moves, k, move, moves')
  BY <1>3, BegunNew
<1>8. LocsIn(move) = locs
  BY <1>2 DEF MovedOut, MovePages, LocsIn
<1>9. OutMove(move, p, sets, Terminals(gone.t, sets), locs)
  BY <1>2, <1>4, <1>8 DEF MovedOut, OutMove
<1>10. Moving(gone.t, move.pinned, LocsIn(move), tab') /\ IsMove(move)
  BY <1>2, <1>3, <1>8 DEF MovedOut
<1> HIDE DEF k, move
<1>11. Opened(gone.t, k, move)
  BY <1>1, <1>6, <1>7, <1>8, <1>10 DEF Opened, OnDeviceAll, move
<1> QED BY <1>9, <1>11

Evicted(p, t, u) ==
  /\ Sound(t) /\ Calm(tab, t) /\ t.ws = tab.ws /\ t.pins = tab.pins /\ t.swaps = tab.swaps
  /\ Movable(t, SetsOf(p)) = {} /\ Suspending(t, SetsOf(p), TRUE, u)

(* Dropping cache entries to make room is calm.                             *)
LEMMA DroppedQuiet ==
  ASSUME Struct, NEW entries \in SUBSET DOMAIN cache
  PROVE  Calm(tab, Dropped(tab, entries).t)
<1> DEFINE r == Dropped(tab, entries)
<1>1. Sound(tab) /\ RootsExact(tab, cache)
  BY DEF Struct, InvTable
<1>2. Rerooted(tab, LessRoots(tab, cache, entries), r)
  BY <1>1, Drops
<1> HIDE DEF r
<1>3. Calm(tab, r.t)
  BY <1>1, <1>2, DropQuiet
<1> QED BY <1>3 DEF r

(* PrepareSuspend begins the move of what is movable, or suspends at once   *)
(* when nothing is, or is refused.                                          *)
LEMMA SuspendOpens ==
  ASSUME Struct, NEW p \in 1..MaxSets, PrepareSuspend(p)
  PROVE  \/ \E t, k, move : /\ Opened(t, k, move) /\ away' = away \cup {p}
                            /\ OutMove(move, p, SetsOf(p), Terminals(t, SetsOf(p)), Movable(t, SetsOf(p)))
         \/ \E t : Evicted(p, t, tab') /\ moves' = moves /\ away' = away \cup {p}
         \/ Calm(tab, tab') /\ UNCHANGED <<moves, away>>
<1> DEFINE entries == InTheWay(Movable(tab, SetsOf(p)))
           gone == Dropped(tab, entries)
           pages == Movable(gone.t, SetsOf(p))
           have == slots \cup SlotsOf(gone.freed)
<1>1. EvictAfter(p, entries, gone)
  BY DEF PrepareSuspend
<1>2. MakeRoom(entries, gone) /\ Evict(p, gone.t, pages, have)
  BY <1>1 DEF EvictAfter
<1>3. entries \in SUBSET DOMAIN cache
  BY DEF InTheWay, OffDevice
<1> HIDE DEF entries
<1>4. Roomy(gone) /\ Calm(tab, gone.t)
  BY <1>2, <1>3, RoomMade, DroppedQuiet
<1> HIDE DEF gone
<1>5. /\ Sound(gone.t) /\ gone.t.ws = tab.ws /\ gone.t.pins = tab.pins /\ gone.t.swaps = tab.swaps
      /\ SetsOf(p) \in SUBSET DOMAIN tab.ws
  BY <1>4 DEF Roomy, Good, SetsOf, LiveSets
<1>6. OnDeviceAll(gone.t, pages)
  BY <1>5, MovableOn
<1> HIDE DEF pages
<1>7. p \in Nat
  BY KvAssumption
<1>8. CASE /\ Cardinality(pages) <= Cardinality(have) /\ BeginOut(MoveOut(gone.t, p, SetsOf(p), pages, have), have)
           /\ away' = away \cup {p}
  <2>1. PICK k, move : Opened(gone.t, k, move) /\ OutMove(move, p, SetsOf(p), Terminals(gone.t, SetsOf(p)), pages)
    BY <1>4, <1>5, <1>6, <1>7, <1>8, OutOpens
  <2> QED BY <2>1, <1>8 DEF pages
<1>9. CASE pages = {} /\ tab' = SetSuspended(gone.t, SetsOf(p), TRUE) /\ UNCHANGED moves /\ away' = away \cup {p}
  <2>1. Suspending(gone.t, SetsOf(p), TRUE, tab')
    BY <1>5, <1>9, Suspends
  <2>2. Evicted(p, gone.t, tab')
    BY <1>4, <1>5, <1>9, <2>1 DEF Evicted, pages
  <2> QED BY <1>9, <2>2
<1>10. CASE tab' = gone.t /\ UNCHANGED <<moves, away>>
  BY <1>4, <1>10
<1> QED BY <1>2, <1>8, <1>9, <1>10 DEF Evict

(* PrepareSweep begins a move of stranded pages.                            *)
LEMMA SweepOpens ==
  ASSUME Struct, NEW back, PrepareSweep(back)
  PROVE  \E t, k, move, keep : /\ Opened(t, k, move) /\ keep = UNION {SetsOf(p) : p \in back}
                         /\ LocsIn(move) \subseteq Stranded(t, keep) /\ LocsIn(move) # {}
                         /\ OutMove(move, 0, SuspendedReaders(t, LocsIn(move)),
                                    Terminals(t, SuspendedReaders(t, LocsIn(move))), LocsIn(move))
<1> DEFINE keep == UNION {SetsOf(p) : p \in back}
           entries == InTheWay(Stranded(tab, keep))
           gone == Dropped(tab, entries)
           all == Stranded(gone.t, keep)
           have == slots \cup SlotsOf(gone.freed)
<1> USE DEF Struct
<1>1. SweepAfter(keep, entries, gone) /\ UNCHANGED <<flat, epochs, fires>>
  BY DEF PrepareSweep
<1>a. keep = UNION {SetsOf(p) : p \in back}
  OBVIOUS
<1> HIDE DEF keep
<1>2. MakeRoom(entries, gone) /\ Sweep(gone.t, all, have)
  BY <1>1 DEF SweepAfter
<1>3. entries \in SUBSET DOMAIN cache
  BY DEF InTheWay, OffDevice
<1> HIDE DEF entries
<1>4. Roomy(gone) /\ Calm(tab, gone.t)
  BY <1>2, <1>3, RoomMade, DroppedQuiet
<1> HIDE DEF gone
<1>5. Sound(gone.t) /\ Placed(gone.t) /\ gone.t.ws = tab.ws /\ have \in SUBSET Slots
  BY <1>4 DEF Roomy, Good
<1>6. OnDeviceAll(gone.t, all)
  BY <1>5, StrandedOn
<1> HIDE DEF all
<1>7. PICK pages \in kSubset(Min({Cardinality(all), Cardinality(have)}), all) :
         pages # {} /\ BeginOut(MoveOut(gone.t, 0, SuspendedReaders(gone.t, pages), pages, have), have)
  BY <1>2 DEF Sweep
<1>8. IsFiniteSet(all) /\ IsFiniteSet(have)
  BY <1>5, <1>6, SoundFacts, LiveFinite, FS_Subset, SlotsFinite DEF OnDeviceAll
<1> DEFINE sets == SuspendedReaders(gone.t, pages)
<1>9. pages \in SUBSET all /\ Cardinality(pages) <= Cardinality(have)
  BY <1>7, <1>8, Partly
<1>10. OnDeviceAll(gone.t, pages) /\ sets \in SUBSET DOMAIN tab.ws
  BY <1>5, <1>6, <1>9 DEF OnDeviceAll, SuspendedReaders
<1>11. BeginOut(MoveOut(gone.t, 0, sets, pages, have), have)
  BY <1>7
<1> HIDE DEF sets
<1>12. PICK k, move : Opened(gone.t, k, move) /\ OutMove(move, 0, sets, Terminals(gone.t, sets), pages)
  BY <1>4, <1>9, <1>10, <1>11, OutOpens
<1>13. LocsIn(move) = pages
  BY <1>12 DEF OutMove
<1> QED BY <1>a, <1>7, <1>9, <1>12, <1>13 DEF sets, all

(* PrepareDemote begins a move of pages only the cache reads.               *)
LEMMA DemoteOpens ==
  ASSUME Struct, PrepareDemote
  PROVE  \E k, move, roots : /\ Opened(tab, k, move) /\ LocsIn(move) \subseteq CacheOnly(tab, roots)
                             /\ OutMove(move, 0, {}, Terminals(tab, {}), LocsIn(move))
<1> USE DEF Struct
<1>1. PICK g \in Groups : \E pages \in kSubset(Min({Cardinality(CacheOnly(tab, {e.root : e \in GroupOf(g)})), Cardinality(slots)}),
                                                CacheOnly(tab, {e.root : e \in GroupOf(g)})) :
         BeginOut(MoveOut(tab, 0, {}, pages, slots), slots) /\ UNCHANGED <<pool, flat, cache, epochs, fires, away>>
  BY DEF PrepareDemote
<1> DEFINE roots == {e.root : e \in GroupOf(g)}
           all == CacheOnly(tab, roots)
           gone == Result(tab, {})
<1>2. PICK pages \in kSubset(Min({Cardinality(all), Cardinality(slots)}), all) :
         BeginOut(MoveOut(tab, 0, {}, pages, slots), slots) /\ UNCHANGED <<pool, flat, cache, epochs, fires, away>>
  BY <1>1
<1>3. Roomy(gone)
  BY <1>2, NoRoomMade
<1>4. gone.t = tab /\ slots = slots \cup SlotsOf(gone.freed)
  BY DEF Result, SlotsOf
<1>5. roots \in SUBSET DOMAIN tab.roots
  BY DEF GroupOf, Reclaimable, RootsExact, Entries
<1>6. Sound(tab) /\ slots \in SUBSET Slots
  BY DEF InvTable, InvPool
<1> HIDE DEF roots, gone
<1>7. OnDeviceAll(tab, all) /\ Calm(tab, gone.t)
  BY <1>4, <1>5, <1>6, CacheOnlyOn, QuietSame
<1> HIDE DEF all
<1>8. IsFiniteSet(all) /\ IsFiniteSet(slots)
  BY <1>6, <1>7, SoundFacts, LiveFinite, FS_Subset, SlotsFinite DEF OnDeviceAll
<1>9. pages \in SUBSET all /\ Cardinality(pages) <= Cardinality(slots)
  BY <1>2, <1>8, Partly
<1>10. OnDeviceAll(gone.t, pages)
  BY <1>4, <1>7, <1>9 DEF OnDeviceAll
<1>11. BeginOut(MoveOut(gone.t, 0, {}, pages, slots), slots)
  BY <1>2, <1>4
<1>12. PICK k, move : Opened(gone.t, k, move) /\ OutMove(move, 0, {}, Terminals(gone.t, {}), pages)
  BY <1>3, <1>4, <1>7, <1>9, <1>10, <1>11, OutOpens
<1>13. LocsIn(move) = pages
  BY <1>12 DEF OutMove
<1> QED BY <1>4, <1>9, <1>12, <1>13 DEF all

InMove(move, p, sets, pinned, locs) ==
  /\ move.kind = "in" /\ move.proc = p /\ move.sets = sets /\ move.pinned = pinned /\ LocsIn(move) = locs

(* Beginning a move up.                                                     *)
LEMMA InOpens ==
  ASSUME Struct, NEW mv, IsMove(mv), NEW locs, BelowAll(tab, locs), NEW gpus \in SUBSET DevicePages,
         Cardinality(locs) = Cardinality(gpus), NEW pinned \in SUBSET DOMAIN tab.nodes, IsFiniteSet(pinned),
         NEW in, in = MoveIn(tab, mv, locs, gpus, pinned), tab' = in.t, NEW k, Begun(moves, k, in.move, moves')
  PROVE  /\ Opened(tab, k, in.move) /\ InMove(in.move, mv.proc, mv.sets, pinned, locs)
         /\ in.move.ws = mv.ws /\ in.move.run = mv.run
<1>1. Sound(tab) /\ Placed(tab)
  BY DEF Struct, InvTable
<1>2. IsFiniteSet(locs)
  BY <1>1, SoundFacts, LiveFinite, FS_Subset DEF BelowAll
<1>3. MovedIn(tab, mv, locs, gpus, pinned, in)
  BY <1>1, MovesIn
<1>4. InPlace(tab, in.move)
  BY <1>1, <1>2, InInPlace
<1>5. LocsIn(in.move) = locs
  BY <1>3 DEF MovedIn, MovePages, LocsIn
<1>6. /\ InMove(in.move, mv.proc, mv.sets, pinned, locs)
      /\ in.move.ws = mv.ws /\ in.move.run = mv.run
  BY <1>3, <1>5 DEF MovedIn, InMove
<1>7. Moving(tab, in.move.pinned, LocsIn(in.move), tab') /\ IsMove(in.move)
  BY <1>3, <1>5 DEF MovedIn
<1>8. Calm(tab, tab)
  BY <1>1, QuietSame
<1>9. LocsIn(in.move) \subseteq LiveLocations(tab)
  BY <1>5 DEF BelowAll
<1> QED BY <1>1, <1>4, <1>6, <1>7, <1>8, <1>9 DEF Opened

(* PrepareRestore begins the move up of what the sets of the process have   *)
(* below, when no move of the process runs and none has any of their pages. *)
LEMMA RestoreOpens ==
  ASSUME Struct, NEW p \in 1..MaxSets, PrepareRestore(p)
  PROVE  /\ p \in away /\ UNCHANGED away /\ \A m \in DOMAIN moves : moves[m].proc # p
         /\ LocationsOf(tab, SetsOf(p)) \cap tab.swaps = {}
         /\ \E k, move : /\ Opened(tab, k, move) /\ move.ws = 0 /\ move.run = <<>>
              /\ InMove(move, p, SetsOf(p), Terminals(tab, SetsOf(p)), Below(tab, LocationsOf(tab, SetsOf(p))))
<1> DEFINE S == SetsOf(p)
           locs == LocationsOf(tab, S)
           below == Below(tab, locs)
           gpus == Lowest(Cardinality(below), free)
           mv == MoveOf(p, S)
           pinned == Terminals(tab, S)
           in == MoveIn(tab, mv, below, gpus, pinned)
<1> USE DEF Struct
<1>1. /\ Restore(p, locs, below) /\ UNCHANGED away /\ p \in away
      /\ \A m \in DOMAIN moves : moves[m].proc # p
  BY DEF PrepareRestore
<1>2. Cardinality(below) <= Cardinality(free) /\ Land(in, gpus) /\ locs \cap tab.swaps = {}
  BY <1>1 DEF Restore, MoveOf
<1>3. tab' = in.t /\ moves' = Put(moves, used.moves + 1, in.move) /\ Number("moves", MaxMoves)
  BY <1>2 DEF Land, Begin
<1>4. Sound(tab) /\ S \in SUBSET DOMAIN tab.ws /\ p \in Nat /\ free \in SUBSET DevicePages
  BY KvAssumption DEF InvTable, SetsOf, LiveSets, InvPool
<1>5. BelowAll(tab, below)
  BY <1>4, SetLocations, BelowOn
<1>6. IsMove(mv) /\ mv.ws = 0 /\ mv.run = <<>> /\ mv.proc = p /\ mv.sets = S
  BY <1>4, EmptyMove
<1> HIDE DEF below, mv, S
<1>7. pinned \in SUBSET DOMAIN tab.nodes /\ IsFiniteSet(pinned)
  BY <1>4, SetsFinite, TerminalsIn
<1>8. IsFiniteSet(below) /\ Cardinality(below) \in Nat
  BY <1>4, <1>5, SoundFacts, LiveFinite, FS_Subset, FS_CardinalityType DEF BelowAll
<1>9. gpus \in SUBSET DevicePages /\ Cardinality(gpus) = Cardinality(below)
  <2>1. free \in SUBSET Nat /\ IsFiniteSet(free) /\ Cardinality(free) \in Nat
    BY <1>4, PagesFinite
  <2>2. Cardinality(below) \in 0..Cardinality(free)
    BY <1>2, <1>8, <2>1
  <2> DEFINE n == Cardinality(below)
  <2> HIDE DEF n
  <2>3. Lowest(n, free) \subseteq free /\ Cardinality(Lowest(n, free)) = n
    BY <2>1, <2>2, TakenFor DEF n
  <2> QED BY <2>3, <1>4 DEF n
<1> HIDE DEF gpus, pinned
<1>a. in = MoveIn(tab, mv, below, gpus, pinned)
  OBVIOUS
<1> HIDE DEF in
<1>10. Begun(moves, used.moves + 1, in.move, moves')
  BY <1>3, BegunNew
<1> DEFINE k == used.moves + 1
<1> HIDE DEF k
<1>11. Begun(moves, k, in.move, moves')
  BY <1>10 DEF k
<1>12. Opened(tab, k, in.move) /\ InMove(in.move, mv.proc, mv.sets, pinned, below) /\ in.move.ws = mv.ws /\ in.move.run = mv.run
  BY <1>3, <1>5, <1>6, <1>7, <1>9, <1>11, <1>a, InOpens
<1>13. Opened(tab, k, in.move) /\ in.move.ws = 0 /\ in.move.run = <<>> /\ InMove(in.move, p, S, pinned, below)
  BY <1>6, <1>12
<1> QED BY <1>1, <1>2, <1>13 DEF S, pinned, below

(* PromotePrepare begins the move up of the quoted run, if it still stands. *)
LEMMA PromoteOpens ==
  ASSUME Struct, IdleMoves(moves), NEW m \in DOMAIN moves, PromotePrepare(m)
  PROVE  /\ UNCHANGED away /\ moves[m].kind = "quoted" /\ ~IsAway(moves[m].ws) /\ RunStands(moves[m].run)
         /\ moves[m].run # <<>>
         /\ \E move : /\ Opened(tab, m, move) /\ move.ws = moves[m].ws /\ move.run = moves[m].run
                      /\ InMove(move, moves[m].proc, moves[m].sets, {Last(moves[m].run)[1]}, Below(tab, ToSet(moves[m].run)))
<1> DEFINE move == moves[m]
           below == Below(tab, ToSet(move.run))
           gpus == Lowest(Cardinality(below), move.grant)
           mv == LessGrant(move, gpus)
           pinned == {Last(move.run)[1]}
           in == MoveIn(tab, mv, below, gpus, pinned)
<1> USE DEF Struct
<1>1. /\ move.kind = "quoted" /\ ~IsAway(move.ws) /\ RunStands(move.run) /\ Cardinality(below) \in 1..Cardinality(move.grant)
      /\ tab' = in.t /\ moves' = [moves EXCEPT ![m] = in.move] /\ UNCHANGED away
  BY DEF PromotePrepare, LessGrant
<1>2. IsMove(move) /\ Sound(tab) /\ Placed(tab)
  BY DEF InvMoves, InvTable
<1>3. move.pinned = {} /\ move.grant \subseteq DevicePages /\ move.run \in Seq(Nat \X Nat)
  BY <1>1, <1>2 DEF IsMove
<1>4. ToSet(move.run) \subseteq LiveLocations(tab)
  <2>1. \A l \in ToSet(move.run) : l \in Nat \X Nat
    BY <1>3 DEF ToSet
  <2>2. \A l \in ToSet(move.run) : Live(tab, l)
    BY <1>1 DEF RunStands
  <2> QED BY <2>1, <2>2 DEF Live, LiveLocations
<1>5. BelowAll(tab, below)
  BY <1>4, BelowOn
<1>6. IsFiniteSet(below) /\ Cardinality(below) \in Nat
  BY <1>2, <1>5, SoundFacts, LiveFinite, FS_Subset, FS_CardinalityType DEF BelowAll
<1>7. pinned \in SUBSET DOMAIN tab.nodes /\ IsFiniteSet(pinned) /\ move.run # <<>>
  <2>1. below # {}
    <3>1. Cardinality(below) # 0
      <4>1. Cardinality(move.grant) \in Nat
        BY <1>3, PagesFinite
      <4> QED BY <1>1, <1>6, <4>1
    <3> QED BY <3>1, FS_EmptySet
  <2>2. ToSet(move.run) # {}
    BY <2>1 DEF Below
  <2>a. move.run # <<>> /\ Len(move.run) \in Nat /\ Len(move.run) > 0
    BY <2>2, <1>3 DEF ToSet
  <2>3. Last(move.run) \in ToSet(move.run)
    BY <2>a, <1>3 DEF ToSet, Last
  <2>4. Last(move.run)[1] \in DOMAIN tab.nodes
    BY <2>3, <1>4 DEF LiveLocations
  <2> QED BY <2>4, <2>a, FS_Singleton
<1> HIDE DEF below
<1>8. gpus \in SUBSET DevicePages /\ Cardinality(gpus) = Cardinality(below)
  <2>1. move.grant \in SUBSET Nat /\ IsFiniteSet(move.grant) /\ Cardinality(move.grant) \in Nat
    BY <1>3, PagesFinite
  <2> DEFINE n == Cardinality(below)
             G == move.grant
  <2>2. n \in 0..Cardinality(G)
    BY <1>1, <1>6, <2>1
  <2> HIDE DEF n, G
  <2>3. Lowest(n, G) \subseteq G /\ Cardinality(Lowest(n, G)) = n
    <3>1. G \in SUBSET Nat /\ IsFiniteSet(G)
      BY <2>1 DEF G
    <3> QED BY <3>1, <2>2, TakenFor
  <2> QED BY <2>3, <1>3 DEF n, G
<1> HIDE DEF gpus
<1>9. IsMove(mv) /\ mv.ws = move.ws /\ mv.run = move.run /\ mv.proc = move.proc /\ mv.sets = move.sets
  <2>1. IsMove(mv) /\ mv.ws = move.ws /\ mv.run = move.run /\ mv.proc = move.proc
    BY <1>2, LessGrantTyped
  <2>2. mv.sets = move.sets
    BY <1>2 DEF IsMove, LessGrant
  <2> QED BY <2>1, <2>2
<1> HIDE DEF mv, pinned
<1>a. in = MoveIn(tab, mv, below, gpus, pinned)
  OBVIOUS
<1> HIDE DEF in
<1>10. DOMAIN moves' = DOMAIN moves /\ moves'[m] = in.move /\ \A k \in DOMAIN moves : k # m => moves'[k] = moves[k]
  BY <1>1
<1>11. Begun(moves, m, in.move, moves')
  BY <1>1, <1>10 DEF Begun, Renewed, IdleMoves
<1>12. Opened(tab, m, in.move) /\ InMove(in.move, mv.proc, mv.sets, pinned, below) /\ in.move.ws = mv.ws /\ in.move.run = mv.run
  <2>1. tab' = in.t /\ IsMove(mv) /\ pinned \in SUBSET DOMAIN tab.nodes /\ IsFiniteSet(pinned)
    BY <1>1, <1>7, <1>9
  <2>2. Cardinality(below) = Cardinality(gpus)
    BY <1>8
  <2> QED BY <2>1, <2>2, <1>5, <1>8, <1>11, <1>a, InOpens
<1>13. Opened(tab, m, in.move) /\ InMove(in.move, move.proc, move.sets, pinned, below) /\ in.move.ws = move.ws /\ in.move.run = move.run
  BY <1>9, <1>12
<1> QED BY <1>1, <1>7, <1>13 DEF below, pinned

(* What letting go of a move's pins and pages leaves.                       *)
Closing(t, locs, u) ==
  /\ Sound(u) /\ u.ws = t.ws /\ u.swaps = t.swaps \ locs
  /\ DOMAIN u.nodes \subseteq DOMAIN t.nodes
  /\ \A l \in LiveLocations(u) : l \in LiveLocations(t) /\ Page(u, l).at = Page(t, l).at
  /\ \A l \in u.swaps : l \in LiveLocations(t) /\ l[1] \in DOMAIN u.nodes => l \in LiveLocations(u)
  /\ \A n \in DOMAIN u.pins : n \in DOMAIN t.pins /\ Locations(u, n) = Locations(t, n)
  /\ \A w \in DOMAIN u.ws : Locations(u, u.ws[w].terminal) = Locations(t, u.ws[w].terminal)

(* Pins and sets read what their anchors read.                              *)
LEMMA AnchorsRead ==
  ASSUME NEW t, Sound(t), NEW u, Sound(u), DOMAIN u.pins \subseteq DOMAIN t.pins,
         \A a \in Anchors(u) : Locations(u, AnchoredAt(u)[a]) = Locations(t, AnchoredAt(u)[a])
  PROVE  /\ \A n \in DOMAIN u.pins : Locations(u, n) = Locations(t, n)
         /\ \A w \in DOMAIN u.ws : Locations(u, u.ws[w].terminal) = Locations(t, u.ws[w].terminal)
<1>1. ASSUME NEW n \in DOMAIN u.pins PROVE Locations(u, n) = Locations(t, n)
  <2>1. <<"pin", n>> \in Anchors(u) /\ AnchoredAt(u)[<<"pin", n>>] = n
    BY DEF Anchors, AnchoredAt
  <2> QED BY <2>1
<1>2. ASSUME NEW w \in DOMAIN u.ws PROVE Locations(u, u.ws[w].terminal) = Locations(t, u.ws[w].terminal)
  <2>1. CASE u.ws[w].terminal = NoNode
    BY <2>1, EmptyReads DEF SameReads
  <2>2. CASE u.ws[w].terminal # NoNode
    <3>1. <<"set", w>> \in Anchors(u) /\ AnchoredAt(u)[<<"set", w>>] = u.ws[w].terminal
      BY <2>2 DEF Anchors, AnchoredAt
    <3> QED BY <3>1
  <2> QED BY <2>1, <2>2
<1> QED BY <1>1, <1>2

(* Letting go of swaps, and of what only they kept, closes.                 *)
LEMMA UnswappedCloses ==
  ASSUME NEW t, Sound(t), NEW locs, NEW r, Unswapped(t, locs, r)
  PROVE  Closing(t, locs, r.t)
<1> DEFINE u == r.t
<1>1. /\ Sound(u) /\ u.ws = t.ws /\ u.pins = t.pins /\ u.swaps = t.swaps \ locs /\ DOMAIN u.nodes = DOMAIN t.nodes
      /\ \A l \in LiveLocations(u) : l \in LiveLocations(t) /\ Page(u, l) = Page(t, l)
      /\ \A a \in Anchors(u) : Locations(u, AnchoredAt(u)[a]) = Locations(t, AnchoredAt(u)[a])
      /\ \A l \in u.swaps : l \in LiveLocations(t) => l \in LiveLocations(u)
  BY DEF Unswapped
<1> HIDE DEF u
<1>2. /\ \A n \in DOMAIN u.pins : Locations(u, n) = Locations(t, n)
      /\ \A w \in DOMAIN u.ws : Locations(u, u.ws[w].terminal) = Locations(t, u.ws[w].terminal)
  BY <1>1, AnchorsRead
<1>3. Closing(t, locs, u)
  BY <1>1, <1>2 DEF Closing
<1> QED BY <1>3 DEF u

(* Letting go of pins closes.                                               *)
LEMMA RepinnedCloses ==
  ASSUME NEW t, Sound(t), NEW nodes, NEW r, Repinned(t, LessPins(t.pins, nodes), r)
  PROVE  Closing(t, {}, r.t)
<1> DEFINE u == r.t
<1>1. /\ Sound(u) /\ u.ws = t.ws /\ u.pins = LessPins(t.pins, nodes) /\ u.swaps = t.swaps /\ DOMAIN u.nodes \subseteq DOMAIN t.nodes
      /\ \A l \in LiveLocations(u) : l \in LiveLocations(t) /\ Page(u, l) = Page(t, l)
      /\ \A a \in Anchors(u) : Locations(u, AnchoredAt(u)[a]) = Locations(t, AnchoredAt(u)[a])
      /\ \A l \in t.swaps : l \in LiveLocations(t) /\ l[1] \in DOMAIN u.nodes => l \in LiveLocations(u)
  BY DEF Repinned, Shrunk
<1> HIDE DEF u
<1>a. DOMAIN u.pins \subseteq DOMAIN t.pins
  BY <1>1 DEF LessPins
<1>2. /\ \A n \in DOMAIN u.pins : Locations(u, n) = Locations(t, n)
      /\ \A w \in DOMAIN u.ws : Locations(u, u.ws[w].terminal) = Locations(t, u.ws[w].terminal)
  BY <1>1, <1>a, AnchorsRead
<1>3. Closing(t, {}, u)
  BY <1>1, <1>2, <1>a DEF Closing
<1> QED BY <1>3 DEF u

(* The one after the other closes.                                          *)
LEMMA ClosingOn ==
  ASSUME NEW t, NEW u, NEW v, NEW locs, Closing(t, {}, u), Closing(u, locs, v)
  PROVE  Closing(t, locs, v)
<1>1. Sound(v) /\ v.ws = t.ws /\ v.swaps = t.swaps \ locs /\ DOMAIN v.nodes \subseteq DOMAIN t.nodes
  BY DEF Closing
<1>2. \A l \in LiveLocations(v) : l \in LiveLocations(t) /\ Page(v, l).at = Page(t, l).at
  BY DEF Closing
<1>3. \A l \in v.swaps : l \in LiveLocations(t) /\ l[1] \in DOMAIN v.nodes => l \in LiveLocations(v)
  BY DEF Closing
<1>4. \A n \in DOMAIN v.pins : n \in DOMAIN t.pins /\ Locations(v, n) = Locations(t, n)
  BY DEF Closing
<1>5. \A w \in DOMAIN v.ws : Locations(v, v.ws[w].terminal) = Locations(t, v.ws[w].terminal)
  BY DEF Closing
<1> QED BY <1>1, <1>2, <1>3, <1>4, <1>5 DEF Closing

(* So Unpinned closes a move.                                               *)
LEMMA UnpinnedCloses ==
  ASSUME NEW t, Sound(t), NEW move, move.pinned \subseteq DOMAIN t.pins
  PROVE  Closing(t, LocsIn(move), Unpinned(t, move).t)
<1> DEFINE q == UnpinAll(t, move.pinned)
           s == UnpinSwaps(q.t, LocsIn(move))
<1>1. Repinned(t, LessPins(t.pins, move.pinned), q)
  BY Unpins
<1>2. Unpinned(t, move).t = s.t
  BY DEF Unpinned, UnpinPages, Freeing, Result
<1> HIDE DEF q
<1>3. Closing(t, {}, q.t)
  BY <1>1, RepinnedCloses
<1>4. Unswapped(q.t, LocsIn(move), s)
  BY <1>3, UnpinsSwaps DEF Closing
<1> HIDE DEF s
<1>5. Closing(q.t, LocsIn(move), s.t)
  BY <1>3, <1>4, UnswappedCloses DEF Closing
<1> QED BY <1>2, <1>3, <1>5, ClosingOn

(* What comes before it: pages placed anew, sets suspended or not.          *)
Altered(t, locs, up, S, flag, u) ==
  /\ Sound(u) /\ ReadAlike(t, u) /\ u.pins = t.pins /\ u.swaps = t.swaps
  /\ \A l \in LiveLocations(t) :
       /\ l \notin locs => Page(u, l).at = Page(t, l).at
       /\ l \in locs => CASE up = "same" -> Page(u, l).at = Page(t, l).at
                          [] up = "up" -> OnDevice(Page(u, l).at)
                          [] up = "down" -> ~OnDevice(Page(u, l).at)
  /\ DOMAIN u.ws = DOMAIN t.ws
  /\ \A w \in DOMAIN t.ws : /\ u.ws[w].terminal = t.ws[w].terminal /\ u.ws[w].owner = t.ws[w].owner
                            /\ u.ws[w].suspended = IF w \in S THEN flag ELSE t.ws[w].suspended

(* A table that stays is altered to itself.                                 *)
LEMMA AlteredSame ==
  ASSUME NEW t, Sound(t), NEW locs, NEW flag
  PROVE  Altered(t, locs, "same", {}, flag, t)
BY DEF Altered, ReadAlike

(* Swap puts the pages of a move below the device or on it.                 *)
LEMMA SwapAlters ==
  ASSUME NEW t, Sound(t), NEW move, IsMove(move), NEW flag
  PROVE  /\ Altered(t, LocsIn(move), "down", {}, flag, Swap(t, move, InSlot))
         /\ Altered(t, LocsIn(move), "up", {}, flag, Swap(t, move, OnGpu))
<1> DEFINE P(l) == CHOOSE p \in move.pages : p.loc = l
           locs == LocsIn(move)
           a == [l \in locs |-> Host(P(l).slot)]
           b == [l \in locs |-> Device(P(l).gpu)]
<1>1. \A l \in locs : P(l) \in move.pages
  BY DEF LocsIn
<1>2. \A p \in move.pages : p.gpu \in Nat /\ p.slot \in Nat
  BY KvAssumption, SMTT(20) DEF IsMove, DevicePages, Slots
<1>3. \A l \in locs : P(l).slot \in Nat /\ P(l).gpu \in Nat
  <2> HIDE DEF P
  <2> QED BY <1>1, <1>2
<1>4. Swap(t, move, InSlot) = SetBackings(t, locs, a)
  BY DEF Swap, InSlot
<1>5. Swap(t, move, OnGpu) = SetBackings(t, locs, b)
  BY DEF Swap, OnGpu
<1> HIDE DEF P, locs
<1>6. \A l \in locs : IsBacking(a[l]) /\ ~OnDevice(a[l]) /\ IsBacking(b[l]) /\ OnDevice(b[l])
  BY <1>3 DEF IsBacking, Device, Host, OnDevice
<1> HIDE DEF a, b
<1> DEFINE v == SetBackings(t, locs, a)
           u == SetBackings(t, locs, b)
<1>7. Rebacked(t, locs, a, v) /\ Rebacked(t, locs, b, u)
  BY <1>6, SetsBackings
<1> HIDE DEF u, v
<1>8. Altered(t, locs, "down", {}, flag, v)
  BY <1>6, <1>7 DEF Altered, Rebacked, SameRest
<1>9. Altered(t, locs, "up", {}, flag, u)
  BY <1>6, <1>7 DEF Altered, Rebacked, SameRest
<1> QED BY <1>4, <1>5, <1>8, <1>9 DEF locs, u, v

(* Marking sets on top of it.                                               *)
LEMMA AlteredSuspended ==
  ASSUME NEW t, NEW locs, NEW up, NEW flag \in BOOLEAN, NEW u, Altered(t, locs, up, {}, flag, u), NEW S
  PROVE  Altered(t, locs, up, S, flag, SetSuspended(u, S, flag))
<1> DEFINE v == SetSuspended(u, S, flag)
<1>1. Suspending(u, S, flag, v)
  BY Suspends DEF Altered
<1> HIDE DEF v
<1>2. Sound(v) /\ v.pins = t.pins /\ v.swaps = t.swaps /\ DOMAIN v.ws = DOMAIN t.ws
  BY <1>1 DEF Suspending, SetsAlike, Altered
<1>3. ReadAlike(t, v)
  BY <1>1 DEF Suspending, Alike, ReadAlike, Altered
<1>4. \A l \in LiveLocations(t) : Page(v, l) = Page(u, l)
  BY <1>1 DEF Suspending, Alike, ReadAlike, Altered
<1>5. \A w \in DOMAIN t.ws : /\ v.ws[w].terminal = t.ws[w].terminal /\ v.ws[w].owner = t.ws[w].owner
                             /\ v.ws[w].suspended = IF w \in S THEN flag ELSE t.ws[w].suspended
  BY <1>1 DEF Suspending, Altered
<1>6. Altered(t, locs, up, S, flag, v)
  BY <1>2, <1>3, <1>4, <1>5 DEF Altered
<1> QED BY <1>6 DEF v

(* The end of a move, of pages locs: they are let go, where they were or    *)
(* where they went; the sets of S are suspended or not.                     *)
PutAt(t, l, up, u) ==
  CASE up = "same" -> Page(u, l).at = Page(t, l).at
    [] up = "up" -> OnDevice(Page(u, l).at)
    [] up = "down" -> ~OnDevice(Page(u, l).at)

Closed(t, locs, up, S, flag, u) ==
  /\ Sound(u) /\ u.swaps = t.swaps \ locs
  /\ DOMAIN u.nodes \subseteq DOMAIN t.nodes
  /\ \A l \in LiveLocations(u) : /\ l \in LiveLocations(t)
                                 /\ l \notin locs => Page(u, l).at = Page(t, l).at
                                 /\ l \in locs => PutAt(t, l, up, u)
  /\ \A l \in u.swaps : l \in LiveLocations(t) /\ l[1] \in DOMAIN u.nodes => l \in LiveLocations(u)
  /\ \A n \in DOMAIN u.pins : n \in DOMAIN t.pins /\ Locations(u, n) = Locations(t, n)
  /\ DOMAIN u.ws = DOMAIN t.ws
  /\ \A w \in DOMAIN t.ws : /\ u.ws[w].terminal = t.ws[w].terminal /\ u.ws[w].owner = t.ws[w].owner
                            /\ u.ws[w].suspended = IF w \in S THEN flag ELSE t.ws[w].suspended
                            /\ Reads(u, w) = Reads(t, w)
                            /\ Locations(u, u.ws[w].terminal) = Locations(t, t.ws[w].terminal)

(* Placing the pages and then letting go ends the move.                     *)
LEMMA AlterCloses ==
  ASSUME NEW t, NEW locs, NEW up \in {"same", "up", "down"}, NEW S, NEW flag, NEW u, Altered(t, locs, up, S, flag, u), NEW v, Closing(u, locs, v)
  PROVE  Closed(t, locs, up, S, flag, v)
<1>1. /\ ReadAlike(t, u) /\ u.pins = t.pins /\ u.swaps = t.swaps /\ DOMAIN u.ws = DOMAIN t.ws
      /\ \A w \in DOMAIN t.ws : /\ u.ws[w].terminal = t.ws[w].terminal /\ u.ws[w].owner = t.ws[w].owner
                                /\ u.ws[w].suspended = IF w \in S THEN flag ELSE t.ws[w].suspended
  BY DEF Altered
<1>2. /\ DOMAIN u.nodes = DOMAIN t.nodes /\ LiveLocations(u) = LiveLocations(t)
      /\ \A n : Locations(u, n) = Locations(t, n)
  BY <1>1 DEF ReadAlike
<1>3. /\ Sound(v) /\ v.ws = u.ws /\ v.swaps = u.swaps \ locs /\ DOMAIN v.nodes \subseteq DOMAIN u.nodes
      /\ \A l \in LiveLocations(v) : l \in LiveLocations(u) /\ Page(v, l).at = Page(u, l).at
      /\ \A l \in v.swaps : l \in LiveLocations(u) /\ l[1] \in DOMAIN v.nodes => l \in LiveLocations(v)
      /\ \A n \in DOMAIN v.pins : n \in DOMAIN u.pins /\ Locations(v, n) = Locations(u, n)
      /\ \A w \in DOMAIN v.ws : Locations(v, v.ws[w].terminal) = Locations(u, v.ws[w].terminal)
  BY DEF Closing
<1>4. ASSUME NEW l \in LiveLocations(v)
      PROVE  /\ l \in LiveLocations(t) /\ l \notin locs => Page(v, l).at = Page(t, l).at
             /\ l \in locs => PutAt(t, l, up, v)
  <2>1. l \in LiveLocations(t) /\ Page(v, l).at = Page(u, l).at
    BY <1>2, <1>3
  <2>2. l \notin locs => Page(v, l).at = Page(t, l).at
    BY <2>1 DEF Altered
  <2>3. l \in locs => CASE up = "same" -> Page(u, l).at = Page(t, l).at
                          [] up = "up" -> OnDevice(Page(u, l).at)
                          [] up = "down" -> ~OnDevice(Page(u, l).at)
    BY <2>1 DEF Altered
  <2> QED BY <2>1, <2>2, <2>3 DEF PutAt
<1>5. \A w \in DOMAIN t.ws : /\ Locations(v, v.ws[w].terminal) = Locations(t, t.ws[w].terminal)
                             /\ Reads(v, w) = Reads(t, w)
  BY <1>1, <1>2, <1>3 DEF Reads
<1> QED BY <1>1, <1>2, <1>3, <1>4, <1>5 DEF Closed

(* The end of a move, as the actions write it.                              *)
LEMMA EndCloses ==
  ASSUME Struct, NEW m \in DOMAIN moves, NEW up \in {"same", "up", "down"}, NEW S, NEW flag, NEW t,
         Altered(tab, LocsIn(moves[m]), up, S, flag, t), NEW B, NEW back,
         GiveBack(Freeing(Unpinned(t, moves[m]), B), back)
  PROVE  Closed(tab, LocsIn(moves[m]), up, S, flag, tab')
<1>1. Sound(t) /\ t.pins = tab.pins
  BY DEF Altered
<1>2. moves[m].pinned \subseteq DOMAIN t.pins
  BY <1>1, MovePinned DEF Struct
<1>3. tab' = Unpinned(t, moves[m]).t
  BY DEF GiveBack, Freeing, Result
<1>4. Closing(t, LocsIn(moves[m]), tab')
  BY <1>1, <1>2, <1>3, UnpinnedCloses
<1> QED BY <1>4, AlterCloses

(* CommitOut ends it with its pages below and its sets suspended.           *)
LEMMA CommitOutCloses ==
  ASSUME Struct, NEW m \in DOMAIN moves, CommitOut(m)
  PROVE  Closed(tab, LocsIn(moves[m]), "down", moves[m].sets \cap LiveSets, TRUE, tab')
<1> DEFINE move == moves[m]
           sets == move.sets \cap LiveSets
           s == Swap(tab, move, InSlot)
           t == SetSuspended(s, sets, TRUE)
<1>1. GiveBack(Freeing(Unpinned(t, move), DevicesIn(move)), {})
  BY DEF CommitOut
<1>2. IsMove(move) /\ Sound(tab)
  BY DEF Struct, InvMoves, InvTable
<1>3. Altered(tab, LocsIn(move), "down", {}, TRUE, s)
  BY <1>2, SwapAlters
<1> HIDE DEF s
<1>4. Altered(tab, LocsIn(move), "down", sets, TRUE, t)
  BY <1>3, AlteredSuspended
<1> HIDE DEF t
<1> QED BY <1>1, <1>4, EndCloses

(* CommitRestore ends it with its pages on the device and its sets not      *)
(* suspended.                                                               *)
LEMMA CommitRestoreCloses ==
  ASSUME Struct, NEW m \in DOMAIN moves, CommitRestore(m)
  PROVE  Closed(tab, LocsIn(moves[m]), "up", moves[m].sets \cap LiveSets, FALSE, tab')
<1> DEFINE move == moves[m]
           sets == move.sets \cap LiveSets
           s == Swap(tab, move, OnGpu)
           t == SetSuspended(s, sets, FALSE)
<1>1. GiveBack(Freeing(Unpinned(t, move), HostsIn(move)), {})
  BY DEF CommitRestore
<1>2. IsMove(move) /\ Sound(tab)
  BY DEF Struct, InvMoves, InvTable
<1>3. Altered(tab, LocsIn(move), "up", {}, FALSE, s)
  BY <1>2, SwapAlters
<1> HIDE DEF s
<1>4. Altered(tab, LocsIn(move), "up", sets, FALSE, t)
  BY <1>3, AlteredSuspended
<1> HIDE DEF t
<1> QED BY <1>1, <1>4, EndCloses

(* The aborts, and the last reader of a run, end it with its pages where    *)
(* they were.                                                               *)
LEMMA AbortCloses ==
  ASSUME Struct, NEW m \in DOMAIN moves, AbortOut(m) \/ AbortIn(m) \/ ReleaseReader(m)
  PROVE  Closed(tab, LocsIn(moves[m]), "same", {}, TRUE, tab')
<1>1. Altered(tab, LocsIn(moves[m]), "same", {}, TRUE, tab)
  BY AlteredSame DEF Struct, InvTable
<1>2. \E B, back : GiveBack(Freeing(Unpinned(tab, moves[m]), B), back)
  <2>1. CASE AbortOut(m)
    BY <2>1 DEF AbortOut
  <2>2. CASE AbortIn(m)
    BY <2>2, FreeingNone DEF AbortIn
  <2>3. CASE ReleaseReader(m)
    BY <2>3, FreeingNone DEF ReleaseReader
  <2> QED BY <2>1, <2>2, <2>3
<1>3. PICK B, back : GiveBack(Freeing(Unpinned(tab, moves[m]), B), back)
  BY <1>2
<1> QED BY <1>1, <1>3, EndCloses

(* CommitPromote ends it with its pages on the device.                      *)
LEMMA CommitPromoteCloses ==
  ASSUME Struct, NEW m \in DOMAIN moves, CommitPromote(m)
  PROVE  Closed(tab, LocsIn(moves[m]), "up", {}, TRUE, tab')
<1> DEFINE move == moves[m]
           s == Swap(tab, move, OnGpu)
           q == UnpinSwaps(s, LocsIn(move))
<1>1. tab' = q.t
  BY DEF CommitPromote, GiveBack, Freeing, Result
<1>2. IsMove(move) /\ Sound(tab)
  BY DEF Struct, InvMoves, InvTable
<1>3. Altered(tab, LocsIn(move), "up", {}, TRUE, s)
  BY <1>2, SwapAlters
<1> HIDE DEF s
<1>4. Unswapped(s, LocsIn(move), q)
  BY <1>3, UnpinsSwaps DEF Altered
<1> HIDE DEF q
<1>5. Closing(s, LocsIn(move), tab')
  BY <1>1, <1>3, <1>4, UnswappedCloses DEF Altered
<1> QED BY <1>3, <1>5, AlterCloses

(* The end of one move keeps what is known of the others.                   *)
LEMMA MoveCloses ==
  ASSUME NEW t, NEW mv, MovesOk(t, mv), NEW k \in DOMAIN mv, NEW mv2, Renewed(mv, k, mv2), DOMAIN mv \ {k} \subseteq DOMAIN mv2,
         k \in DOMAIN mv2 => mv2[k].pages = {} /\ mv2[k].kind # "out",
         NEW up, NEW S, NEW flag, NEW u, Closed(t, LocsIn(mv[k]), up, S, flag, u),
         \A m \in DOMAIN mv2 : mv2[m].pinned \subseteq DOMAIN u.pins
  PROVE  MovesOk(u, mv2)
<1>1. k \in DOMAIN mv2 => LocsIn(mv2[k]) = {} /\ InPlace(u, mv2[k])
  BY DEF LocsIn, InPlace
<1>2. \A n \in DOMAIN mv2 : n # k => n \in DOMAIN mv /\ mv2[n] = mv[n]
  BY DEF Renewed
<1>3. u.swaps = t.swaps \ LocsIn(mv[k]) /\ DOMAIN u.nodes \subseteq DOMAIN t.nodes /\ DOMAIN u.ws = DOMAIN t.ws
  BY DEF Closed
<1>4. ASSUME NEW n \in DOMAIN mv, n # k
      PROVE  LocsIn(mv[n]) \cap LocsIn(mv[k]) = {} /\ LocsIn(mv[n]) \subseteq u.swaps
  BY <1>3, <1>4 DEF MovesOk, Apart, Swapping
<1>5. Swapping(u, mv2)
  <2>1. ASSUME NEW l PROVE l \in u.swaps <=> \E m \in DOMAIN mv2 : l \in LocsIn(mv2[m])
    <3>1. l \in t.swaps <=> \E m \in DOMAIN mv : l \in LocsIn(mv[m])
      BY DEF MovesOk, Swapping
    <3> QED BY <1>1, <1>2, <1>3, <1>4, <3>1
  <2> QED BY <2>1 DEF Swapping
<1>6. Apart(mv2)
  BY <1>1, <1>2 DEF MovesOk, Apart
<1>7. IdleMoves(mv2)
  BY <1>2 DEF MovesOk, IdleMoves
<1>8. SwapsLive(u)
  BY <1>3 DEF Closed, MovesOk, SwapsLive
<1>9. ASSUME NEW m \in DOMAIN mv2, m # k
      PROVE  InPlace(u, mv2[m])
  <2>1. mv2[m] = mv[m] /\ InPlace(t, mv[m]) /\ m \in DOMAIN mv
    BY <1>2, <1>9 DEF MovesOk
  <2>2. ASSUME NEW p \in mv[m].pages, p.loc \in LiveLocations(u)
        PROVE  Page(u, p.loc).at = Where(mv[m], p)
    <3>1. p.loc \notin LocsIn(mv[k])
      BY <1>4, <1>9, <2>1 DEF LocsIn
    <3>2. p.loc \in LiveLocations(t) /\ Page(u, p.loc).at = Page(t, p.loc).at
      BY <2>2, <3>1 DEF Closed
    <3> QED BY <2>1, <3>2 DEF InPlace
  <2> QED BY <2>1, <2>2 DEF InPlace
<1>10. ASSUME NEW m \in DOMAIN mv2, m # k, mv2[m].kind = "out"
       PROVE  OutHeld(u, mv2[m])
  <2>1. mv2[m] = mv[m] /\ OutHeld(t, mv[m]) /\ m \in DOMAIN mv
    BY <1>2, <1>10 DEF MovesOk
  <2>2. \A n \in mv[m].pinned : Locations(u, n) = Locations(t, n)
    BY <2>1 DEF Closed
  <2>3. \A w \in DOMAIN u.ws : w \in DOMAIN t.ws /\ Reads(u, w) = Reads(t, w)
    BY <1>3 DEF Closed
  <2> QED BY <2>1, <2>2, <2>3 DEF OutHeld
<1> QED BY <1>1, <1>5, <1>6, <1>7, <1>8, <1>9, <1>10 DEF MovesOk

(* A page that a set reads, on the device and in a move, is held by a pin.  *)
LEMMA LeavingPinned ==
  ASSUME InvMoves, NEW t, t.pins = tab.pins, MovesOk(t, moves), NEW l \in t.swaps, l \in LiveLocations(t),
         OnDevice(Page(t, l).at), NEW w \in DOMAIN t.ws, l \in Reads(t, w)
  PROVE  l \in PinnedLocations(t)
<1>1. PICK m \in DOMAIN moves : l \in LocsIn(moves[m])
  BY DEF MovesOk, Swapping
<1>2. PICK p \in moves[m].pages : p.loc = l
  BY <1>1 DEF LocsIn
<1>3. Page(t, l).at = Where(moves[m], p)
  BY <1>2 DEF MovesOk, InPlace
<1>4. moves[m].kind = "out"
  BY <1>3 DEF Where, InSlot, Host, OnDevice
<1>5. PICK n \in moves[m].pinned : l \in ToSet(Locations(t, n))
  BY <1>1, <1>4 DEF MovesOk, OutHeld
<1>6. n \in DOMAIN t.pins
  BY <1>5, MovePinned
<1> QED BY <1>5, <1>6 DEF PinnedLocations

(* The pages of some sets are those each of them reads.                     *)
LEMMA ReadsOf ==
  ASSUME NEW t, Sound(t), NEW S \in SUBSET DOMAIN t.ws
  PROVE  \A l : l \in LocationsOf(t, S) <=> \E w \in S : l \in Reads(t, w)
<1>1. \A w \in S : WsLocations(t, w) = Locations(t, t.ws[w].terminal)
  BY WsLocationsAll
<1> QED BY <1>1 DEF LocationsOf, Reads

(* Each is read by the terminal of one.                                     *)
LEMMA TerminalReads ==
  ASSUME NEW t, Sound(t), NEW S \in SUBSET DOMAIN t.ws, NEW w \in S, NEW l \in Reads(t, w)
  PROVE  \E n \in Terminals(t, S) : l \in ToSet(Locations(t, n))
<1>1. t.ws[w].terminal # NoNode
  <2>1. Locations(t, NoNode) = <<>>
    BY SoundFacts, LocationFacts
  <2> QED BY <2>1 DEF Reads, ToSet
<1> QED BY <1>1 DEF Terminals, Reads

(* What is movable is in no move.                                           *)
LEMMA MovableFree ==
  ASSUME InvMoves, NEW t, Sound(t), t.pins = tab.pins, MovesOk(t, moves), NEW S \in SUBSET DOMAIN t.ws
  PROVE  Movable(t, S) \cap t.swaps = {}
<1>1. ASSUME NEW l \in Movable(t, S), l \in t.swaps PROVE FALSE
  <2>1. l \in LocationsOf(t, S) /\ l \notin PinnedLocations(t) /\ OnDevice(Page(t, l).at)
    BY <1>1 DEF Movable, Resident
  <2>2. PICK w \in S : l \in Reads(t, w)
    BY <2>1, ReadsOf
  <2>3. l \in LiveLocations(t)
    BY <2>1, SetLocations
  <2> QED BY <1>1, <2>1, <2>2, <2>3, LeavingPinned
<1> QED BY <1>1

(* Nor is what is stranded.                                                 *)
LEMMA StrandedFree ==
  ASSUME InvMoves, NEW t, Sound(t), t.pins = tab.pins, MovesOk(t, moves), NEW keep
  PROVE  Stranded(t, keep) \cap t.swaps = {}
<1> DEFINE S == {w \in DOMAIN t.ws : t.ws[w].suspended}
<1>1. ASSUME NEW l \in Stranded(t, keep), l \in t.swaps PROVE FALSE
  <2>1. l \in LocationsOf(t, S) /\ l \notin PinnedLocations(t) /\ OnDevice(Page(t, l).at)
    BY <1>1 DEF Stranded, Resident
  <2>0. S \in SUBSET DOMAIN t.ws
    OBVIOUS
  <2> HIDE DEF S
  <2>2. PICK w \in S : l \in Reads(t, w)
    BY <2>0, <2>1, ReadsOf
  <2>3. l \in LiveLocations(t) /\ w \in DOMAIN t.ws
    BY <2>0, <2>1, SetLocations
  <2> QED BY <1>1, <2>1, <2>2, <2>3, LeavingPinned
<1> QED BY <1>1

(* A move of what is in none yet.                                           *)
LEMMA OpenedMoves ==
  ASSUME Struct, MovesOk(tab, moves), NEW t, NEW k, NEW move, Opened(t, k, move), LocsIn(move) \cap t.swaps = {},
         move.kind = "in" \/ (move.kind = "out" /\ OutHeld(t, move))
  PROVE  MovesOk(tab', moves')
<1>1. /\ Sound(t) /\ Quiet(tab, t) /\ t.pins = tab.pins /\ Begun(moves, k, move, moves')
      /\ Moving(t, move.pinned, LocsIn(move), tab') /\ LocsIn(move) \subseteq LiveLocations(t) /\ InPlace(t, move)
  BY DEF Opened, Calm, Quiet
<1>2. MovesOk(t, moves)
  BY <1>1, QuietMoves DEF Struct, InvTable
<1> DEFINE u == tab'
           mv2 == moves'
           locs == LocsIn(move)
           pinned == move.pinned
<1>3. Moving(t, pinned, locs, u) /\ locs \cap t.swaps = {} /\ locs \subseteq LiveLocations(t) /\ LocsIn(move) = locs
      /\ Begun(moves, k, move, mv2)
  BY <1>1
<1> HIDE DEF u, mv2, locs, pinned
<1>4. MovesOk(u, mv2)
  BY <1>1, <1>2, <1>3, MoveBegins
<1> QED BY <1>4 DEF u, mv2

(* What is known of the table once room was made.                           *)
LEMMA OpenedTable ==
  ASSUME Struct, MovesOk(tab, moves), NEW t, NEW k, NEW move, Opened(t, k, move)
  PROVE  /\ Sound(t) /\ t.pins = tab.pins /\ t.ws = tab.ws /\ MovesOk(t, moves) /\ InvMoves
  BY QuietMoves DEF Struct, InvTable, Opened, Calm, Quiet

(* PrepareSuspend keeps the moves apart.                                    *)
LEMMA SuspendMoves ==
  ASSUME Struct, Struct', MovesOk(tab, moves), NEW p \in 1..MaxSets, PrepareSuspend(p)
  PROVE  MovesOk(tab', moves')
<1>0. SetsOf(p) \in SUBSET DOMAIN tab.ws
  BY DEF SetsOf, LiveSets
<1>1. ASSUME NEW t, NEW k, NEW move, Opened(t, k, move),
             OutMove(move, p, SetsOf(p), Terminals(t, SetsOf(p)), Movable(t, SetsOf(p)))
      PROVE  MovesOk(tab', moves')
  <2>1. /\ Sound(t) /\ t.pins = tab.pins /\ t.ws = tab.ws /\ MovesOk(t, moves) /\ InvMoves
    BY <1>1, OpenedTable
  <2>2. move.kind = "out" /\ move.pinned = Terminals(t, SetsOf(p)) /\ LocsIn(move) = Movable(t, SetsOf(p))
    BY <1>1 DEF OutMove
  <2>3. LocsIn(move) \cap t.swaps = {}
    BY <1>0, <2>1, <2>2, MovableFree
  <2>4. OutHeld(t, move)
    <3>1. ASSUME NEW l \in LocsIn(move) PROVE \E n \in move.pinned : l \in ToSet(Locations(t, n))
      <4>1. l \in LocationsOf(t, SetsOf(p))
        BY <2>2 DEF Movable, Resident
      <4>2. PICK w \in SetsOf(p) : l \in Reads(t, w)
        BY <1>0, <2>1, <4>1, ReadsOf
      <4> QED BY <1>0, <2>1, <2>2, <4>2, TerminalReads
    <3> QED BY <3>1 DEF OutHeld
  <2> QED BY <1>1, <2>2, <2>3, <2>4, OpenedMoves
<1>2. ASSUME NEW t, Evicted(p, t, tab'), moves' = moves
      PROVE  MovesOk(tab', moves')
  <2>1. Sound(t) /\ Quiet(tab, t) /\ t.pins = tab.pins /\ Suspending(t, SetsOf(p), TRUE, tab')
    BY <1>2 DEF Evicted, Calm, Quiet
  <2>2. MovesOk(t, moves)
    BY <2>1, QuietMoves DEF Struct, InvTable
  <2>3. Alike(t, tab') /\ DOMAIN tab'.ws = DOMAIN t.ws /\ tab'.swaps = t.swaps
        /\ \A w \in DOMAIN t.ws : tab'.ws[w].terminal = t.ws[w].terminal
    BY <2>1 DEF Suspending, SetsAlike
  <2> DEFINE u == tab'
  <2>5. Alike(t, u) /\ DOMAIN u.ws = DOMAIN t.ws /\ u.swaps = t.swaps /\ \A w \in DOMAIN t.ws : u.ws[w].terminal = t.ws[w].terminal
    BY <2>3
  <2> HIDE DEF u
  <2>6. LiveLocations(u) = LiveLocations(t) /\ DOMAIN u.nodes = DOMAIN t.nodes /\ (\A l \in LiveLocations(t) : Page(u, l) = Page(t, l))
        /\ (\A n : Locations(u, n) = Locations(t, n))
    BY <2>5 DEF Alike
  <2>7. \A w \in DOMAIN u.ws : Reads(u, w) = Reads(t, w)
    BY <2>5, <2>6 DEF Reads
  <2>8. Swapping(u, moves) /\ SwapsLive(u)
    BY <2>2, <2>5, <2>6 DEF MovesOk, Swapping, SwapsLive
  <2>9. \A m \in DOMAIN moves : InPlace(u, moves[m]) /\ (moves[m].kind = "out" => OutHeld(u, moves[m]))
    BY <2>2, <2>5, <2>6, <2>7 DEF MovesOk, InPlace, OutHeld
  <2>10. MovesOk(u, moves)
    BY <2>2, <2>8, <2>9 DEF MovesOk
  <2> QED BY <1>2, <2>10 DEF u
<1>3. CASE Calm(tab, tab') /\ UNCHANGED <<moves, away>>
  BY <1>3, QuietMoves DEF Struct, InvTable, Calm, Quiet
<1> QED BY <1>1, <1>2, <1>3, SuspendOpens

(* So does PrepareSweep.                                                    *)
LEMMA SweepMoves ==
  ASSUME Struct, MovesOk(tab, moves), NEW back, PrepareSweep(back)
  PROVE  MovesOk(tab', moves')
<1>1. PICK t, k, move, keep :
        /\ Opened(t, k, move) /\ LocsIn(move) \subseteq Stranded(t, keep)
        /\ OutMove(move, 0, SuspendedReaders(t, LocsIn(move)), Terminals(t, SuspendedReaders(t, LocsIn(move))), LocsIn(move))
  BY SweepOpens
<1> DEFINE S == {w \in DOMAIN t.ws : t.ws[w].suspended}
           R == SuspendedReaders(t, LocsIn(move))
<1>2. /\ Sound(t) /\ t.pins = tab.pins /\ t.ws = tab.ws /\ MovesOk(t, moves) /\ InvMoves
  BY <1>1, OpenedTable
<1>3. move.kind = "out" /\ move.pinned = Terminals(t, R)
  BY <1>1 DEF OutMove
<1>4. LocsIn(move) \cap t.swaps = {}
  BY <1>1, <1>2, StrandedFree
<1>5. R \in SUBSET DOMAIN t.ws /\ S \in SUBSET DOMAIN t.ws
  BY DEF SuspendedReaders
<1>6. OutHeld(t, move)
  <2>1. ASSUME NEW l \in LocsIn(move) PROVE \E n \in move.pinned : l \in ToSet(Locations(t, n))
    <3>1. l \in LocationsOf(t, S)
      BY <1>1 DEF Stranded, Resident
    <3>2. PICK w \in S : l \in Reads(t, w)
      BY <1>2, <1>5, <3>1, ReadsOf
    <3>3. l \in LocationsOf(t, {w})
      BY <1>2, <3>2, ReadsOf
    <3>4. w \in R
      BY <3>2, <3>3 DEF SuspendedReaders
    <3> QED BY <1>2, <1>3, <1>5, <3>2, <3>4, TerminalReads
  <2> QED BY <2>1 DEF OutHeld
<1> QED BY <1>1, <1>3, <1>4, <1>6, OpenedMoves

(* So does PrepareDemote.                                                   *)
LEMMA DemoteMoves ==
  ASSUME Struct, MovesOk(tab, moves), PrepareDemote
  PROVE  MovesOk(tab', moves')
<1>1. PICK k, move, roots : /\ Opened(tab, k, move) /\ LocsIn(move) \subseteq CacheOnly(tab, roots)
                            /\ OutMove(move, 0, {}, Terminals(tab, {}), LocsIn(move))
  BY DemoteOpens
<1>2. Sound(tab)
  BY DEF Struct, InvTable
<1>3. LocsIn(move) \cap tab.swaps = {} /\ LocsIn(move) \cap LocationsOf(tab, DOMAIN tab.ws) = {}
  BY <1>1 DEF CacheOnly, Resident
<1>4. \A l \in LocsIn(move) : \A w \in DOMAIN tab.ws : l \notin Reads(tab, w)
  BY <1>2, <1>3, ReadsOf
<1>5. OutHeld(tab, move) /\ move.kind = "out"
  BY <1>1, <1>4 DEF OutHeld, OutMove
<1> QED BY <1>1, <1>3, <1>5, OpenedMoves

(* So does PrepareRestore.                                                  *)
LEMMA RestoreMoves ==
  ASSUME Struct, MovesOk(tab, moves), NEW p \in 1..MaxSets, PrepareRestore(p)
  PROVE  MovesOk(tab', moves')
<1>1. PICK k, move : /\ Opened(tab, k, move)
        /\ InMove(move, p, SetsOf(p), Terminals(tab, SetsOf(p)), Below(tab, LocationsOf(tab, SetsOf(p))))
  BY RestoreOpens
<1>2. LocationsOf(tab, SetsOf(p)) \cap tab.swaps = {}
  BY RestoreOpens
<1>3. LocsIn(move) \cap tab.swaps = {} /\ move.kind = "in"
  BY <1>1, <1>2 DEF InMove, Below
<1>4. move.kind = "in" \/ (move.kind = "out" /\ OutHeld(tab, move))
  BY <1>3
<1> QED BY <1>1, <1>3, <1>4, OpenedMoves

(* So does PromotePrepare.                                                  *)
LEMMA PromoteMoves ==
  ASSUME Struct, MovesOk(tab, moves), NEW m \in DOMAIN moves, PromotePrepare(m)
  PROVE  MovesOk(tab', moves')
<1>0. IdleMoves(moves)
  BY DEF MovesOk
<1>1. PICK move : /\ Opened(tab, m, move)
                  /\ InMove(move, moves[m].proc, moves[m].sets, {Last(moves[m].run)[1]}, Below(tab, ToSet(moves[m].run)))
  BY <1>0, PromoteOpens
<1>2. RunStands(moves[m].run)
  BY <1>0, PromoteOpens
<1>3. LocsIn(move) \cap tab.swaps = {} /\ move.kind = "in"
  BY <1>1, <1>2 DEF InMove, Below, RunStands
<1>4. move.kind = "in" \/ (move.kind = "out" /\ OutHeld(tab, move))
  BY <1>3
<1> QED BY <1>1, <1>3, <1>4, OpenedMoves

(* EndMove takes one move away.                                             *)
LEMMA EndedMoves ==
  ASSUME NEW m \in DOMAIN moves, EndMove(m)
  PROVE  Renewed(moves, m, moves') /\ DOMAIN moves \ {m} \subseteq DOMAIN moves' /\ m \notin DOMAIN moves'
BY DEF EndMove, Without, Renewed

(* After a step too, what moves pinned is pinned.                           *)
LEMMA PinnedAfter ==
  ASSUME Struct'
  PROVE  \A m \in DOMAIN moves' : moves'[m].pinned \subseteq DOMAIN tab'.pins
BY DEF Struct, InvMoves, PinsExact, Holders

(* Every end of a move keeps the others apart.                              *)
LEMMA ClosedMoves ==
  ASSUME Struct, Struct', MovesOk(tab, moves), NEW m \in DOMAIN moves,
         CommitOut(m) \/ AbortOut(m) \/ CommitRestore(m) \/ AbortIn(m) \/ CommitPromote(m) \/ ReleaseReader(m)
  PROVE  MovesOk(tab', moves')
<1>1. \E up, S, flag : Closed(tab, LocsIn(moves[m]), up, S, flag, tab')
  BY CommitOutCloses, CommitRestoreCloses, AbortCloses, CommitPromoteCloses
<1>2. PICK up, S, flag : Closed(tab, LocsIn(moves[m]), up, S, flag, tab')
  BY <1>1
<1>3. /\ Renewed(moves, m, moves') /\ DOMAIN moves \ {m} \subseteq DOMAIN moves'
      /\ m \in DOMAIN moves' => moves'[m].pages = {} /\ moves'[m].kind # "out"
  <2>1. CASE CommitOut(m) \/ AbortOut(m) \/ CommitRestore(m) \/ AbortIn(m) \/ ReleaseReader(m)
    <3>1. EndMove(m)
      BY <2>1 DEF CommitOut, AbortOut, CommitRestore, AbortIn, ReleaseReader
    <3> QED BY <3>1, EndedMoves
  <2>2. CASE CommitPromote(m)
    <3>1. moves' = [moves EXCEPT ![m] = ReaderOf(moves[m])]
      BY <2>2 DEF CommitPromote, ReaderOf
    <3>2. ReaderOf(moves[m]).pages = {} /\ ReaderOf(moves[m]).kind = "reader"
      BY ReaderTyped DEF Struct, InvMoves
    <3> QED BY <3>1, <3>2 DEF Renewed
  <2> QED BY <2>1, <2>2
<1>4. \A k \in DOMAIN moves' : moves'[k].pinned \subseteq DOMAIN tab'.pins
  BY PinnedAfter
<1> DEFINE u == tab'
           mv2 == moves'
<1>5. /\ Renewed(moves, m, mv2) /\ DOMAIN moves \ {m} \subseteq DOMAIN mv2
      /\ m \in DOMAIN mv2 => mv2[m].pages = {} /\ mv2[m].kind # "out"
      /\ \A k \in DOMAIN mv2 : mv2[k].pinned \subseteq DOMAIN u.pins
      /\ Closed(tab, LocsIn(moves[m]), up, S, flag, u)
  BY <1>2, <1>3, <1>4
<1> HIDE DEF u, mv2
<1>6. MovesOk(u, mv2)
  BY <1>5, MoveCloses
<1> QED BY <1>6 DEF u, mv2

(* PromoteQuote adds a move with no pages.                                  *)
LEMMA QuotedMoves ==
  ASSUME Struct, MovesOk(tab, moves), NEW w, NEW toks, PromoteQuote(w, toks)
  PROVE  MovesOk(tab', moves')
<1>1. PICK run, grant : /\ tab' = tab /\ moves' = Put(moves, used.moves + 1, QuotedMove(w, run, grant))
                        /\ Number("moves", MaxMoves)
  BY DEF PromoteQuote, QuoteRun, Begin, QuotedMove
<1>2. QuotedMove(w, run, grant).pages = {} /\ QuotedMove(w, run, grant).kind = "quoted"
  BY DEF QuotedMove, NoMove
<1>3. Begun(moves, used.moves + 1, QuotedMove(w, run, grant), moves')
  BY <1>1, BegunNew DEF Struct
<1> DEFINE k == used.moves + 1
           mv2 == moves'
<1>4. /\ Renewed(moves, k, mv2) /\ DOMAIN moves \ {k} \subseteq DOMAIN mv2 /\ (k \in DOMAIN moves => moves[k].pages = {})
      /\ (k \in DOMAIN mv2 => mv2[k].pages = {} /\ mv2[k].kind # "out")
  BY <1>2, <1>3 DEF Begun
<1> HIDE DEF k, mv2
<1>5. MovesOk(tab, mv2)
  BY <1>4, MoveIdles
<1> QED BY <1>1, <1>5 DEF mv2

(* PromoteGivesUp takes such a move away.                                   *)
LEMMA GivenUpMoves ==
  ASSUME Struct, MovesOk(tab, moves), NEW m \in DOMAIN moves, PromoteGivesUp(m)
  PROVE  MovesOk(tab', moves')
<1>1. tab' = tab /\ EndMove(m) /\ moves[m].kind = "quoted"
  BY DEF PromoteGivesUp
<1>2. moves[m].pages = {}
  BY <1>1 DEF MovesOk, IdleMoves
<1>3. Renewed(moves, m, moves') /\ DOMAIN moves \ {m} \subseteq DOMAIN moves' /\ m \notin DOMAIN moves'
  BY <1>1, EndedMoves
<1> DEFINE mv2 == moves'
<1>4. Renewed(moves, m, mv2) /\ DOMAIN moves \ {m} \subseteq DOMAIN mv2 /\ m \notin DOMAIN mv2
  BY <1>3
<1> HIDE DEF mv2
<1>5. MovesOk(tab, mv2)
  BY <1>2, <1>4, MoveIdles
<1> QED BY <1>1, <1>5 DEF mv2

(* Every step keeps the moves apart.                                        *)
LEMMA NextMoves ==
  ASSUME Struct, MovesOk(tab, moves), [Next]_vars
  PROVE  MovesOk(tab', moves')
<1>1. Struct'
  BY NextStruct
<1>2. CASE SetStep \/ FireStep \/ CacheStep \/ UNCHANGED vars
  <2>1. SwapsNamed(tab) /\ SwapsLive(tab)
    BY SwapsAreNamed DEF MovesOk
  <2>2. Quiet(tab, tab') /\ UNCHANGED <<moves, away>>
    BY <1>2, <2>1, NextQuiet
  <2> QED BY <1>1, <2>2, QuietMoves DEF Struct, InvTable
<1>3. CASE MoveStep
  <2>1. ASSUME NEW p \in 1..MaxSets, PrepareSuspend(p) \/ PrepareRestore(p)
        PROVE  MovesOk(tab', moves')
    BY <1>1, <2>1, SuspendMoves, RestoreMoves
  <2>2. ASSUME NEW w, NEW toks, PromoteQuote(w, toks)
        PROVE  MovesOk(tab', moves')
    BY <2>2, QuotedMoves
  <2>3. ASSUME NEW m \in DOMAIN moves,
               \/ CommitOut(m) \/ AbortOut(m) \/ CommitRestore(m) \/ AbortIn(m)
               \/ PromotePrepare(m) \/ PromoteGivesUp(m) \/ CommitPromote(m) \/ ReleaseReader(m)
        PROVE  MovesOk(tab', moves')
    BY <1>1, <2>3, ClosedMoves, PromoteMoves, GivenUpMoves
  <2> QED BY <1>3, <2>1, <2>2, <2>3, SweepMoves, DemoteMoves DEF MoveStep
<1> QED BY <1>2, <1>3 DEF Next

(* There are none at first.                                                 *)
LEMMA InitMoves ==
  ASSUME Init
  PROVE  MovesOk(tab, moves)
<1>1. tab.swaps = {} /\ DOMAIN moves = {}
  BY DEF Init, EmptyTable
<1> QED BY <1>1 DEF MovesOk, Swapping, Apart, IdleMoves, SwapsLive

(* OneMovePerPage for every instance: no page is in two moves at once,      *)
(* however evictions, sweeps, demotions, promotions and restores overlap    *)
(* with forks, writes and releases of the sets whose pages they move        *)
(* (kv.rs, swap_locations).                                                 *)
THEOREM PagesInOneMove == Spec => []OneMovePerPage
<1>1. Init => Struct /\ MovesOk(tab, moves)
  BY InitStruct, InitMoves
<1>2. Struct /\ MovesOk(tab, moves) /\ [Next]_vars => (Struct /\ MovesOk(tab, moves))'
  BY NextStruct, NextMoves
<1>3. MovesOk(tab, moves) => OneMovePerPage
  BY DEF MovesOk, OneMovePerPage, Swapping, Apart
<1> QED BY <1>1, <1>2, <1>3, PTL DEF Spec

(* A page on the device and in no move; all pages of a set, or of a path,   *)
(* but those a move has.                                                    *)
Rests(t, l) == OnDevice(Page(t, l).at) /\ l \notin t.swaps
HomeBut(t, w, locs) == \A l \in Reads(t, w) : Rests(t, l) \/ l \in locs
PathBut(t, n, run, locs) == \A l \in ToSet(run) \cap ToSet(Locations(t, n)) : Rests(t, l) \/ l \in locs

(* The sets of processes that run; of those being evicted, swept and        *)
(* restored; and the run of a promotion.                                    *)
RunSets(t, A) == \A w \in DOMAIN t.ws : t.ws[w].owner \notin A => ~t.ws[w].suspended /\ HomeBut(t, w, {})

RunOut(t, move) ==
  \A w \in DOMAIN t.ws :
    /\ w \in move.sets => t.ws[w].owner = move.proc
    /\ t.ws[w].owner = move.proc => ~t.ws[w].suspended /\ HomeBut(t, w, LocsIn(move))

RunSweep(t, A, move) ==
  \A w \in DOMAIN t.ws : w \in move.sets =>
    /\ t.ws[w].owner \in A /\ t.ws[w].suspended
    /\ \E l \in Reads(t, w) : l \in LocsIn(move)

RunIn(t, move) ==
  \A w \in DOMAIN t.ws :
    /\ w \in move.sets => t.ws[w].owner = move.proc
    /\ t.ws[w].owner = move.proc =>
         /\ t.ws[w].terminal \in move.pinned \cup {NoNode}
         /\ w \notin move.sets => ~t.ws[w].suspended
         /\ HomeBut(t, w, LocsIn(move))

RunHeld(t, move) == PathBut(t, Last(move.run)[1], move.run, LocsIn(move))

RunOf(t, A, move) ==
  /\ move.kind = "out" /\ move.proc # 0 => RunOut(t, move)
  /\ move.kind = "out" /\ move.proc = 0 => RunSweep(t, A, move)
  /\ move.kind = "in" /\ move.proc # 0 => RunIn(t, move)
  /\ move.kind \in {"in", "reader"} /\ move.ws # 0 => RunHeld(t, move)

Running(t, mv, A) == RunSets(t, A) /\ \A m \in DOMAIN mv : RunOf(t, A, mv[m])

(* What each kind of move is for.                                           *)
Fits(move, N) ==
  /\ move.sets \subseteq 1..N
  /\ move.kind = "out" => move.ws = 0
  /\ move.kind \in {"quoted", "reader"} => move.proc = 0 /\ move.ws # 0
  /\ move.kind = "in" /\ move.ws = 0 => move.proc # 0
  /\ move.kind \in {"in", "reader"} /\ move.ws # 0 => move.proc = 0 /\ move.pinned = {Last(move.run)[1]}

Procs(mv, A, N) ==
  /\ 0 \notin A /\ \A m \in DOMAIN mv : Fits(mv[m], N)
  /\ \A m \in DOMAIN mv : mv[m].proc # 0 => mv[m].proc \in A
  /\ \A m, n \in DOMAIN mv : mv[m].proc # 0 /\ mv[m].proc = mv[n].proc => m = n

(* A set that reads what another read is home as it was.                    *)
LEMMA SameHome ==
  ASSUME NEW t, NEW u, u.swaps = t.swaps, NEW x, NEW w, SameReads(t, t.ws[x].terminal, u, u.ws[w].terminal), NEW locs
  PROVE  Reads(u, w) = Reads(t, x) /\ (HomeBut(t, x, locs) => HomeBut(u, w, locs))
BY DEF SameReads, HomeBut, Reads, Rests

(* An empty set is home.                                                    *)
LEMMA BlankHome ==
  ASSUME NEW u, Sound(u), NEW w, Blank(u, w), NEW locs
  PROVE  HomeBut(u, w, locs)
<1>1. Locations(u, NoNode) = <<>>
  BY SoundFacts, LocationFacts
<1>2. Reads(u, w) = {}
  BY <1>1 DEF Blank, Reads, ToSet
<1> QED BY <1>2 DEF HomeBut

(* A set that was home and is written stays home: what it writes is on the  *)
(* device.                                                                  *)
LEMMA WrittenHome ==
  ASSUME NEW t, NEW u, u.swaps = t.swaps, NEW w, WrittenReads(t, u, w), HomeBut(t, w, {})
  PROVE  HomeBut(u, w, {})
BY DEF WrittenReads, HomeBut, Rests

(* How a set of u is one of t, in a quiet step.                             *)
LEMMA QuietSets ==
  ASSUME NEW t, NEW u, Sound(u), Quiet(t, u), NEW w \in DOMAIN u.ws
  PROVE  \/ /\ w \in DOMAIN t.ws /\ u.ws[w].owner = t.ws[w].owner /\ u.ws[w].suspended = t.ws[w].suspended
            /\ u.ws[w].terminal = t.ws[w].terminal /\ Reads(u, w) = Reads(t, w)
            /\ \A locs : HomeBut(t, w, locs) => HomeBut(u, w, locs)
         \/ /\ w \notin 1..used.sets /\ u.ws[w].terminal = NoNode /\ ~u.ws[w].suspended
            /\ \A locs : HomeBut(u, w, locs)
         \/ /\ w \notin 1..used.sets /\ ~u.ws[w].suspended
            /\ \E x \in DOMAIN t.ws : /\ u.ws[w].owner = t.ws[x].owner /\ u.ws[w].terminal = t.ws[x].terminal
                                      /\ \A locs : HomeBut(t, x, locs) => HomeBut(u, w, locs)
         \/ /\ w \in DOMAIN t.ws /\ u.ws[w].owner = t.ws[w].owner /\ u.ws[w].suspended = t.ws[w].suspended
            /\ t.ws[w].owner \notin away
            /\ HomeBut(t, w, {}) => HomeBut(u, w, {})
<1>1. PICK W : QuietBut(t, u, W)
  BY DEF Quiet
<1>2. u.swaps = t.swaps
  BY <1>1 DEF QuietBut
<1>3. CASE w \notin W
  <2>1. /\ w \in DOMAIN t.ws /\ u.ws[w].owner = t.ws[w].owner /\ u.ws[w].suspended = t.ws[w].suspended
        /\ u.ws[w].terminal = t.ws[w].terminal /\ SameReads(t, t.ws[w].terminal, u, u.ws[w].terminal)
    BY <1>1, <1>3 DEF QuietBut, Kin, KinSets, Flags
  <2>2. Reads(u, w) = Reads(t, w) /\ \A locs : HomeBut(t, w, locs) => HomeBut(u, w, locs)
    BY <1>2, <2>1, SameHome
  <2> QED BY <2>1, <2>2
<1>4. CASE w \in W /\ Blank(u, w)
  <2>1. \A locs : HomeBut(u, w, locs)
    BY <1>4, BlankHome
  <2> QED BY <1>4, <2>1 DEF Blank
<1>5. CASE w \in W /\ Forked(t, u, w)
  <2>1. PICK x \in DOMAIN t.ws : /\ u.ws[w].owner = t.ws[x].owner /\ u.ws[w].terminal = t.ws[x].terminal
                                 /\ ~u.ws[w].suspended /\ SameReads(t, t.ws[x].terminal, u, u.ws[w].terminal)
    BY <1>5 DEF Forked
  <2>2. \A locs : HomeBut(t, x, locs) => HomeBut(u, w, locs)
    BY <1>2, <2>1, SameHome
  <2> QED BY <1>5, <2>1, <2>2 DEF Forked
<1>6. CASE w \in W /\ Written(t, u, w)
  BY <1>2, <1>6, WrittenHome DEF Written
<1> QED BY <1>1, <1>3, <1>4, <1>5, <1>6 DEF QuietBut

(* A quiet step keeps running sets on the device.                           *)
LEMMA QuietRunSets ==
  ASSUME NEW t, NEW u, Sound(u), Quiet(t, u), RunSets(t, away)
  PROVE  RunSets(u, away)
<1>1. ASSUME NEW w \in DOMAIN u.ws, u.ws[w].owner \notin away PROVE ~u.ws[w].suspended /\ HomeBut(u, w, {})
  BY <1>1, QuietSets DEF RunSets
<1> QED BY <1>1 DEF RunSets

(* And what is known of the sets of each move.                              *)
LEMMA QuietRunOf ==
  ASSUME NEW t, NEW u, Sound(u), Quiet(t, u), NEW move, RunOf(t, away, move), Fits(move, used.sets),
         move.proc # 0 => move.proc \in away, move.pinned \subseteq DOMAIN t.pins
  PROVE  RunOf(u, away, move)
<1>1. ASSUME move.kind = "out", move.proc # 0 PROVE RunOut(u, move)
  <2>1. RunOut(t, move) /\ move.sets \subseteq 1..used.sets /\ move.proc \in away
    BY <1>1 DEF RunOf, Fits
  <2>2. ASSUME NEW w \in DOMAIN u.ws
        PROVE  /\ w \in move.sets => u.ws[w].owner = move.proc
               /\ u.ws[w].owner = move.proc => ~u.ws[w].suspended /\ HomeBut(u, w, LocsIn(move))
    BY <2>1, QuietSets DEF RunOut
  <2> QED BY <2>2 DEF RunOut
<1>2. ASSUME move.kind = "out", move.proc = 0 PROVE RunSweep(u, away, move)
  <2>1. RunSweep(t, away, move) /\ move.sets \subseteq 1..used.sets
    BY <1>2 DEF RunOf, Fits
  <2>2. ASSUME NEW w \in DOMAIN u.ws, w \in move.sets
        PROVE  /\ u.ws[w].owner \in away /\ u.ws[w].suspended
               /\ \E l \in Reads(u, w) : l \in LocsIn(move)
    BY <2>1, <2>2, QuietSets DEF RunSweep
  <2> QED BY <2>2 DEF RunSweep
<1>3. ASSUME move.kind = "in", move.proc # 0 PROVE RunIn(u, move)
  <2>1. RunIn(t, move) /\ move.sets \subseteq 1..used.sets /\ move.proc \in away
    BY <1>3 DEF RunOf, Fits
  <2>2. ASSUME NEW w \in DOMAIN u.ws
        PROVE  w \in move.sets => u.ws[w].owner = move.proc
    BY <2>1, QuietSets DEF RunIn
  <2>3. ASSUME NEW w \in DOMAIN u.ws, u.ws[w].owner = move.proc
        PROVE  /\ u.ws[w].terminal \in move.pinned \cup {NoNode}
               /\ w \notin move.sets => ~u.ws[w].suspended
               /\ HomeBut(u, w, LocsIn(move))
    BY <2>1, <2>3, QuietSets DEF RunIn
  <2> QED BY <2>2, <2>3 DEF RunIn
<1>4. ASSUME move.kind \in {"in", "reader"}, move.ws # 0 PROVE RunHeld(u, move)
  <2>1. PICK W : QuietBut(t, u, W)
    BY DEF Quiet
  <2>2. u.swaps = t.swaps /\ u.pins = t.pins /\ Kin(t, u, W)
    BY <2>1 DEF QuietBut
  <2> DEFINE n == Last(move.run)[1]
  <2>3. n \in DOMAIN t.pins /\ RunHeld(t, move)
    BY <1>4 DEF RunOf, Fits
  <2>4. SameReads(t, n, u, n)
    BY <2>2, <2>3 DEF Kin, KinPins
  <2> QED BY <2>2, <2>3, <2>4 DEF RunHeld, PathBut, SameReads, Rests
<1> QED BY <1>1, <1>2, <1>3, <1>4 DEF RunOf

(* What is read through a node is live.                                     *)
LEMMA PathsLive ==
  ASSUME NEW t, Sound(t), NEW n \in DOMAIN t.nodes \cup {NoNode}
  PROVE  ToSet(Locations(t, n)) \subseteq LiveLocations(t)
<1>1. Shape(t)
  BY SoundFacts
<1>2. CASE n = NoNode
  <2>1. Locations(t, n) = <<>>
    BY <1>1, <1>2, LocationFacts
  <2> QED BY <2>1 DEF ToSet
<1>3. CASE n \in DOMAIN t.nodes
  BY <1>1, <1>3, LocationsLive
<1> QED BY <1>2, <1>3

(* A move takes none of the pages of running sets, but of P, and of pins    *)
(* from the device.                                                         *)
SparedSets(t, P, locs) ==
  \A w \in DOMAIN t.ws : ~t.ws[w].suspended /\ t.ws[w].owner \notin P =>
    \A l \in Reads(t, w) : l \in locs => ~OnDevice(Page(t, l).at)

SparedPins(t, locs) ==
  \A n \in DOMAIN t.pins : \A l \in ToSet(Locations(t, n)) : l \in locs => ~OnDevice(Page(t, l).at)

SwapsGrown(t, locs, u) == Sound(t) /\ Alike(t, u) /\ u.ws = t.ws /\ u.swaps = t.swaps \cup locs

(* A move that begins changes no page a set reads, but takes some.          *)
LEMMA GrownReads ==
  ASSUME NEW t, NEW locs, NEW u, SwapsGrown(t, locs, u)
  PROVE  /\ \A l \in LiveLocations(t) : Rests(t, l) /\ (l \in locs => ~OnDevice(Page(t, l).at)) => Rests(u, l)
         /\ \A w \in DOMAIN t.ws : Reads(u, w) = Reads(t, w) /\ Reads(t, w) \subseteq LiveLocations(t)
         /\ DOMAIN u.ws = DOMAIN t.ws
<1>1. \A w \in DOMAIN t.ws : Reads(t, w) \subseteq LiveLocations(t)
  BY ReadsListed DEF SwapsGrown
<1> QED BY <1>1 DEF SwapsGrown, Alike, Rests, Reads

(* A set it takes no page of the device from stays home.                    *)
LEMMA GrownHome ==
  ASSUME NEW t, NEW locs, NEW u, SwapsGrown(t, locs, u), NEW w \in DOMAIN t.ws, NEW mine,
         \A l \in Reads(t, w) : l \in locs => ~OnDevice(Page(t, l).at), HomeBut(t, w, mine)
  PROVE  HomeBut(u, w, mine)
BY GrownReads DEF HomeBut

(* So running sets it spares stay on the device.                            *)
LEMMA GrownRunSets ==
  ASSUME NEW t, NEW locs, NEW u, SwapsGrown(t, locs, u), NEW P, SparedSets(t, P, locs), NEW A, RunSets(t, A)
  PROVE  RunSets(u, A \cup P)
<1>1. ASSUME NEW w \in DOMAIN u.ws, u.ws[w].owner \notin A \cup P PROVE ~u.ws[w].suspended /\ HomeBut(u, w, {})
  <2>1. w \in DOMAIN t.ws /\ ~t.ws[w].suspended /\ t.ws[w].owner \notin P /\ HomeBut(t, w, {}) /\ u.ws[w] = t.ws[w]
    BY <1>1 DEF SwapsGrown, RunSets
  <2>2. \A l \in Reads(t, w) : l \in locs => ~OnDevice(Page(t, l).at)
    BY <2>1 DEF SparedSets
  <2> QED BY <2>1, <2>2, GrownHome
<1> QED BY <1>1 DEF RunSets

(* And what is known of the other moves stays.                              *)
LEMMA GrownRunOf ==
  ASSUME NEW t, NEW locs, NEW u, SwapsGrown(t, locs, u), NEW P, SparedSets(t, P, locs), SparedPins(t, locs),
         NEW A, NEW N, NEW move, Fits(move, N), RunOf(t, A, move), move.proc \notin P, move.pinned \subseteq DOMAIN t.pins
  PROVE  RunOf(u, A \cup P, move)
<1>0. DOMAIN u.ws = DOMAIN t.ws /\ u.ws = t.ws
  BY DEF SwapsGrown
<1>1. ASSUME move.kind = "out", move.proc # 0 PROVE RunOut(u, move)
  <2>1. RunOut(t, move)
    BY <1>1 DEF RunOf
  <2>2. ASSUME NEW w \in DOMAIN t.ws, t.ws[w].owner = move.proc
        PROVE  ~t.ws[w].suspended /\ HomeBut(u, w, LocsIn(move))
    <3>1. ~t.ws[w].suspended /\ HomeBut(t, w, LocsIn(move)) /\ t.ws[w].owner \notin P
      BY <2>1, <2>2 DEF RunOut
    <3>2. \A l \in Reads(t, w) : l \in locs => ~OnDevice(Page(t, l).at)
      BY <3>1 DEF SparedSets
    <3> QED BY <3>1, <3>2, GrownHome
  <2> QED BY <1>0, <2>1, <2>2 DEF RunOut
<1>2. ASSUME move.kind = "out", move.proc = 0 PROVE RunSweep(u, A \cup P, move)
  <2>1. RunSweep(t, A, move)
    BY <1>2 DEF RunOf
  <2> QED BY <1>0, <2>1, GrownReads DEF RunSweep
<1>3. ASSUME move.kind = "in", move.proc # 0 PROVE RunIn(u, move)
  <2>1. RunIn(t, move)
    BY <1>3 DEF RunOf
  <2>2. ASSUME NEW w \in DOMAIN t.ws, t.ws[w].owner = move.proc
        PROVE  HomeBut(u, w, LocsIn(move))
    <3>1. t.ws[w].terminal \in move.pinned \cup {NoNode} /\ HomeBut(t, w, LocsIn(move))
      BY <2>1, <2>2 DEF RunIn
    <3>2. CASE t.ws[w].terminal \in move.pinned
      <4>1. \A l \in Reads(t, w) : l \in locs => ~OnDevice(Page(t, l).at)
        BY <3>2 DEF SparedPins, Reads
      <4> QED BY <3>1, <4>1, GrownHome
    <3>3. CASE t.ws[w].terminal = NoNode
      <4>1. Locations(t, NoNode) = <<>>
        BY SoundFacts, LocationFacts DEF SwapsGrown
      <4>2. Reads(t, w) = {}
        BY <3>3, <4>1 DEF Reads, ToSet
      <4> QED BY <3>1, <4>2, GrownHome
    <3> QED BY <3>1, <3>2, <3>3
  <2> QED BY <1>0, <2>1, <2>2 DEF RunIn
<1>4. ASSUME move.kind \in {"in", "reader"}, move.ws # 0 PROVE RunHeld(u, move)
  <2> DEFINE n == Last(move.run)[1]
  <2>1. n \in DOMAIN t.pins /\ RunHeld(t, move)
    BY <1>4 DEF RunOf, Fits
  <2>2. n \in DOMAIN t.nodes
    BY <2>1, AnchorsLive, SoundFacts DEF SwapsGrown
  <2>3. ToSet(Locations(t, n)) \subseteq LiveLocations(t)
    BY <2>2, PathsLive DEF SwapsGrown
  <2>4. \A l \in ToSet(Locations(t, n)) : Rests(t, l) => Rests(u, l)
    BY <2>1, <2>3, GrownReads DEF SparedPins
  <2>5. Locations(u, n) = Locations(t, n)
    BY DEF SwapsGrown, Alike
  <2> HIDE DEF n
  <2>6. PathBut(t, n, move.run, LocsIn(move))
    BY <2>1 DEF RunHeld, n
  <2>7. PathBut(u, n, move.run, LocsIn(move))
    BY <2>4, <2>5, <2>6 DEF PathBut
  <2> QED BY <2>7 DEF RunHeld, n
<1> QED BY <1>1, <1>2, <1>3, <1>4 DEF RunOf

(* What moves pinned is pinned.                                             *)
LEMMA PinnedNow ==
  ASSUME Struct
  PROVE  \A m \in DOMAIN moves : moves[m].pinned \subseteq DOMAIN tab.pins
BY DEF Struct, InvMoves, PinsExact, Holders

(* A quiet step keeps RunsOk's part on the table.                           *)
LEMMA QuietRunning ==
  ASSUME Struct, NEW u, Sound(u), Quiet(tab, u), Running(tab, moves, away), Procs(moves, away, used.sets)
  PROVE  Running(u, moves, away)
<1>1. RunSets(u, away)
  BY QuietRunSets DEF Running
<1>2. ASSUME NEW m \in DOMAIN moves PROVE RunOf(u, away, moves[m])
  <2>1. /\ RunOf(tab, away, moves[m]) /\ Fits(moves[m], used.sets) /\ (moves[m].proc # 0 => moves[m].proc \in away)
        /\ moves[m].pinned \subseteq DOMAIN tab.pins
    BY <1>2, PinnedNow DEF Running, Procs
  <2> QED BY <2>1, QuietRunOf
<1> QED BY <1>1, <1>2 DEF Running

(* A set at home is home but for the pages the move takes.                  *)
LEMMA GrownTaken ==
  ASSUME NEW t, NEW locs, NEW u, SwapsGrown(t, locs, u), NEW w \in DOMAIN t.ws, HomeBut(t, w, {})
  PROVE  HomeBut(u, w, locs)
<1>1. ASSUME NEW l \in Reads(t, w), l \notin locs PROVE Rests(u, l)
  BY <1>1, GrownReads DEF HomeBut
<1> QED BY <1>1, GrownReads DEF HomeBut

(* The preparation of a move takes just its pages.                          *)
LEMMA OpenedGrown ==
  ASSUME NEW t, NEW k, NEW move, Opened(t, k, move)
  PROVE  SwapsGrown(t, LocsIn(move), tab')
BY DEF Opened, Moving, SwapsGrown

(* A move that spares running sets and pins keeps them on the device.       *)
LEMMA OpenedRuns ==
  ASSUME Struct, Running(tab, moves, away), Procs(moves, away, used.sets), NEW t, NEW k, NEW move, Opened(t, k, move),
         NEW P, SparedSets(t, P, LocsIn(move)), SparedPins(t, LocsIn(move)), \A m \in DOMAIN moves : moves[m].proc \notin P,
         RunOf(tab', away \cup P, move)
  PROVE  Running(tab', moves', away \cup P)
<1>1. Sound(t) /\ Quiet(tab, t) /\ t.pins = tab.pins /\ Begun(moves, k, move, moves')
  BY DEF Opened, Calm, Quiet
<1>2. Running(t, moves, away)
  BY <1>1, QuietRunning
<1>3. SwapsGrown(t, LocsIn(move), tab')
  BY OpenedGrown
<1> DEFINE u == tab'
           mv2 == moves'
<1>4. SwapsGrown(t, LocsIn(move), u) /\ Begun(moves, k, move, mv2) /\ RunOf(u, away \cup P, move)
  BY <1>1, <1>3
<1> HIDE DEF u, mv2
<1>5. RunSets(u, away \cup P)
  BY <1>2, <1>4, GrownRunSets DEF Running
<1>6. ASSUME NEW m \in DOMAIN mv2 PROVE RunOf(u, away \cup P, mv2[m])
  <2>1. CASE m = k
    BY <1>4, <2>1 DEF Begun
  <2>2. CASE m # k
    <3>1. m \in DOMAIN moves /\ mv2[m] = moves[m]
      BY <1>4, <1>6, <2>2 DEF Begun, Renewed
    <3>2. Fits(moves[m], used.sets) /\ RunOf(t, away, moves[m]) /\ moves[m].proc \notin P /\ moves[m].pinned \subseteq DOMAIN t.pins
      BY <1>1, <1>2, <3>1, PinnedNow DEF Procs, Running
    <3>3. RunOf(u, away \cup P, moves[m])
      BY <1>4, <3>2, GrownRunOf
    <3> QED BY <3>1, <3>3
  <2> QED BY <2>1, <2>2
<1>7. Running(u, mv2, away \cup P)
  BY <1>5, <1>6 DEF Running
<1> QED BY <1>7 DEF u, mv2

(* At most one move is of a process, and that process is away.              *)
LEMMA OpenedProcs ==
  ASSUME NEW mv, NEW A, NEW N, Procs(mv, A, N), NEW k, NEW move, NEW mv2, Begun(mv, k, move, mv2), NEW P, 0 \notin P,
         Fits(move, N), move.proc # 0 => move.proc \in A \cup P /\ \A m \in DOMAIN mv : mv[m].proc # move.proc
  PROVE  Procs(mv2, A \cup P, N)
<1>1. ASSUME NEW m \in DOMAIN mv2
      PROVE  /\ Fits(mv2[m], N) /\ (mv2[m].proc # 0 => mv2[m].proc \in A \cup P)
             /\ m # k => m \in DOMAIN mv /\ mv2[m] = mv[m]
  BY DEF Procs, Begun, Renewed
<1>2. ASSUME NEW m \in DOMAIN mv2, NEW n \in DOMAIN mv2, mv2[m].proc # 0, mv2[m].proc = mv2[n].proc PROVE m = n
  BY <1>1, <1>2 DEF Procs, Begun
<1> QED BY <1>1, <1>2 DEF Procs

RunsOk == Running(tab, moves, away) /\ Procs(moves, away, used.sets)
RunsNext == Running(tab', moves', away') /\ Procs(moves', away', used.sets)

(* What is movable with the sets of a process is read by no other running   *)
(* set and by no pin.                                                       *)
LEMMA MovableSpares ==
  ASSUME NEW t, Sound(t), NEW p, NEW S, S = {w \in DOMAIN t.ws : t.ws[w].owner = p}
  PROVE  SparedSets(t, {p}, Movable(t, S)) /\ SparedPins(t, Movable(t, S))
<1> DEFINE R == {w \in DOMAIN t.ws : ~t.ws[w].suspended /\ w \notin S}
<1>1. Movable(t, S) \cap LocationsOf(t, R) = {} /\ Movable(t, S) \cap PinnedLocations(t) = {}
  BY DEF Movable, Resident
<1>2. R \in SUBSET DOMAIN t.ws
  OBVIOUS
<1>3. ASSUME NEW w \in DOMAIN t.ws, ~t.ws[w].suspended, t.ws[w].owner # p, NEW l \in Reads(t, w)
      PROVE  l \notin Movable(t, S)
  <2>1. w \in R
    BY <1>3
  <2> HIDE DEF R
  <2>2. l \in LocationsOf(t, R)
    BY <1>2, <1>3, <2>1, ReadsOf
  <2> QED BY <1>1, <2>2
<1>4. \A n \in DOMAIN t.pins : \A l \in ToSet(Locations(t, n)) : l \notin Movable(t, S)
  BY <1>1 DEF PinnedLocations
<1> QED BY <1>3, <1>4 DEF SparedSets, SparedPins

(* Nor is what is stranded read by a running set or a pin.                  *)
LEMMA StrandedSpares ==
  ASSUME NEW t, Sound(t), NEW keep, NEW locs, locs \subseteq Stranded(t, keep)
  PROVE  SparedSets(t, {}, locs) /\ SparedPins(t, locs)
<1> DEFINE R == (DOMAIN t.ws \ {w \in DOMAIN t.ws : t.ws[w].suspended}) \cup (keep \cap DOMAIN t.ws)
<1>1. locs \cap LocationsOf(t, R) = {} /\ locs \cap PinnedLocations(t) = {}
  BY DEF Stranded, Resident
<1>2. R \in SUBSET DOMAIN t.ws
  OBVIOUS
<1>3. ASSUME NEW w \in DOMAIN t.ws, ~t.ws[w].suspended, NEW l \in Reads(t, w)
      PROVE  l \notin locs
  <2>1. w \in R
    BY <1>3
  <2> HIDE DEF R
  <2>2. l \in LocationsOf(t, R)
    BY <1>2, <1>3, <2>1, ReadsOf
  <2> QED BY <1>1, <2>2
<1>4. \A n \in DOMAIN t.pins : \A l \in ToSet(Locations(t, n)) : l \notin locs
  BY <1>1 DEF PinnedLocations
<1> QED BY <1>3, <1>4 DEF SparedSets, SparedPins

(* What is below the device is not taken from it.                           *)
LEMMA BelowSpares ==
  ASSUME NEW t, NEW locs, NEW P
  PROVE  SparedSets(t, P, Below(t, locs)) /\ SparedPins(t, Below(t, locs))
BY DEF SparedSets, SparedPins, Below

(* An eviction that begins keeps the other sets on the device.              *)
LEMMA EvictedRuns ==
  ASSUME Struct, RunsOk, NEW p \in 1..MaxSets, p \notin away, NEW t, NEW k, NEW move, Opened(t, k, move),
         OutMove(move, p, SetsOf(p), Terminals(t, SetsOf(p)), Movable(t, SetsOf(p)))
  PROVE  Running(tab', moves', away \cup {p}) /\ Procs(moves', away \cup {p}, used.sets)
<1>1. Sound(t) /\ Quiet(tab, t) /\ t.ws = tab.ws /\ Begun(moves, k, move, moves')
  BY DEF Opened, Calm, Quiet
<1>2. RunSets(t, away)
  BY <1>1, QuietRunSets DEF RunsOk, Running
<1>3. SetsOf(p) = {w \in DOMAIN t.ws : t.ws[w].owner = p}
  BY <1>1 DEF SetsOf, LiveSets
<1>4. SparedSets(t, {p}, LocsIn(move)) /\ SparedPins(t, LocsIn(move))
  <2>1. LocsIn(move) = Movable(t, SetsOf(p))
    BY DEF OutMove
  <2>2. SparedSets(t, {p}, Movable(t, SetsOf(p))) /\ SparedPins(t, Movable(t, SetsOf(p)))
    BY <1>1, <1>3, MovableSpares
  <2> QED BY <2>1, <2>2
<1>5. p # 0 /\ \A m \in DOMAIN moves : moves[m].proc # p
  BY DEF RunsOk, Procs
<1>6. SwapsGrown(t, LocsIn(move), tab')
  BY OpenedGrown
<1>7. RunOut(tab', move)
  <2> DEFINE u == tab'
  <2>1. SwapsGrown(t, LocsIn(move), u)
    BY <1>6
  <2> HIDE DEF u
  <2>2. u.ws = t.ws /\ move.proc = p /\ move.sets = SetsOf(p)
    BY <2>1 DEF SwapsGrown, OutMove
  <2>3. ASSUME NEW w \in DOMAIN t.ws, t.ws[w].owner = p PROVE ~t.ws[w].suspended /\ HomeBut(u, w, LocsIn(move))
    BY <1>2, <2>1, <2>3, GrownTaken DEF RunSets
  <2>4. RunOut(u, move)
    BY <1>3, <2>2, <2>3 DEF RunOut
  <2> QED BY <2>4 DEF u
<1>8. RunOf(tab', away \cup {p}, move)
  BY <1>5, <1>7 DEF RunOf, OutMove
<1>9. Running(tab', moves', away \cup {p})
  BY <1>4, <1>5, <1>8, OpenedRuns DEF RunsOk
<1>10. Fits(move, used.sets)
  BY DEF Fits, OutMove, SetsOf, LiveSets, Struct, InvUsed
<1>11. move.proc = p
  BY DEF OutMove
<1>12. Procs(moves', away \cup {p}, used.sets)
  BY <1>1, <1>5, <1>10, <1>11, OpenedProcs DEF RunsOk
<1> QED BY <1>9, <1>12

(* So does one with nothing to move.                                        *)
LEMMA MarkedRuns ==
  ASSUME Struct, RunsOk, NEW p \in 1..MaxSets, p \notin away, NEW t, Evicted(p, t, tab'), moves' = moves
  PROVE  Running(tab', moves', away \cup {p}) /\ Procs(moves', away \cup {p}, used.sets)
<1>1. Sound(t) /\ Quiet(tab, t) /\ t.ws = tab.ws /\ Suspending(t, SetsOf(p), TRUE, tab')
  BY DEF Evicted, Calm, Quiet
<1>2. Running(t, moves, away)
  BY <1>1, QuietRunning DEF RunsOk
<1>3. \A w \in DOMAIN t.ws : w \in SetsOf(p) <=> t.ws[w].owner = p
  BY <1>1 DEF SetsOf, LiveSets
<1>4. p # 0 /\ \A m \in DOMAIN moves : moves[m].proc # p
  BY DEF RunsOk, Procs
<1> DEFINE u == tab'
<1>5. /\ Alike(t, u) /\ DOMAIN u.ws = DOMAIN t.ws /\ u.swaps = t.swaps
      /\ \A w \in DOMAIN t.ws : /\ u.ws[w].terminal = t.ws[w].terminal /\ u.ws[w].owner = t.ws[w].owner
                                /\ t.ws[w].owner # p => u.ws[w].suspended = t.ws[w].suspended
                                /\ t.ws[w].owner = p => u.ws[w].suspended
  BY <1>1, <1>3 DEF Suspending, SetsAlike
<1> HIDE DEF u
<1>6. ASSUME NEW w \in DOMAIN t.ws PROVE SameReads(t, t.ws[w].terminal, u, u.ws[w].terminal)
  <2>1. Reads(t, w) \subseteq LiveLocations(t)
    BY <1>1, ReadsListed
  <2> QED BY <1>5, <2>1 DEF SameReads, Alike, Reads
<1>7. ASSUME NEW w \in DOMAIN t.ws
      PROVE  Reads(u, w) = Reads(t, w) /\ \A locs : HomeBut(t, w, locs) => HomeBut(u, w, locs)
  <2>1. u.swaps = t.swaps /\ SameReads(t, t.ws[w].terminal, u, u.ws[w].terminal)
    BY <1>5, <1>6
  <2> QED BY <2>1, SameHome
<1>8. RunSets(u, away \cup {p})
  BY <1>2, <1>5, <1>7 DEF Running, RunSets
<1>9. ASSUME NEW m \in DOMAIN moves PROVE RunOf(u, away \cup {p}, moves[m])
  <2>1. RunOf(t, away, moves[m]) /\ moves[m].proc # p /\ Fits(moves[m], used.sets) /\ moves[m].pinned \subseteq DOMAIN tab.pins
    BY <1>2, <1>4, PinnedNow DEF Running, RunsOk, Procs
  <2>2. RunOut(t, moves[m]) => RunOut(u, moves[m])
    BY <1>5, <1>7, <2>1 DEF RunOut
  <2>3. RunSweep(t, away, moves[m]) => RunSweep(u, away \cup {p}, moves[m])
    BY <1>5, <1>7, <2>1 DEF RunSweep
  <2>4. RunIn(t, moves[m]) => RunIn(u, moves[m])
    BY <1>5, <1>7, <2>1 DEF RunIn
  <2>5. ASSUME RunHeld(t, moves[m]), Last(moves[m].run)[1] \in DOMAIN t.pins PROVE RunHeld(u, moves[m])
    <3> DEFINE n == Last(moves[m].run)[1]
    <3>1. n \in DOMAIN t.nodes
      BY <1>1, <2>5, AnchorsLive, SoundFacts
    <3>2. ToSet(Locations(t, n)) \subseteq LiveLocations(t)
      BY <1>1, <3>1, PathsLive
    <3>3. Locations(u, n) = Locations(t, n) /\ \A l \in LiveLocations(t) : Rests(t, l) => Rests(u, l)
      BY <1>5 DEF Alike, Rests
    <3> HIDE DEF n
    <3>4. PathBut(t, n, moves[m].run, LocsIn(moves[m]))
      BY <2>5 DEF RunHeld, n
    <3>5. PathBut(u, n, moves[m].run, LocsIn(moves[m]))
      BY <3>2, <3>3, <3>4 DEF PathBut
    <3> QED BY <3>5 DEF RunHeld, n
  <2>6. moves[m].kind \in {"in", "reader"} /\ moves[m].ws # 0 => Last(moves[m].run)[1] \in DOMAIN t.pins
    BY <2>1 DEF Fits, Evicted
  <2> QED BY <2>1, <2>2, <2>3, <2>4, <2>5, <2>6 DEF RunOf
<1>10. Running(u, moves, away \cup {p})
  BY <1>8, <1>9 DEF Running
<1>11. Procs(moves, away \cup {p}, used.sets)
  BY <1>4 DEF RunsOk, Procs
<1> QED BY <1>10, <1>11 DEF u

(* PrepareSuspend keeps running sets on the device.                         *)
LEMMA SuspendRuns ==
  ASSUME Struct, Struct', RunsOk, NEW p \in 1..MaxSets, PrepareSuspend(p)
  PROVE  RunsNext
<1>0. p \notin away
  BY DEF PrepareSuspend
<1>1. ASSUME NEW t, NEW k, NEW move, Opened(t, k, move), away' = away \cup {p},
             OutMove(move, p, SetsOf(p), Terminals(t, SetsOf(p)), Movable(t, SetsOf(p)))
      PROVE  RunsNext
  BY <1>0, <1>1, EvictedRuns DEF RunsNext
<1>2. ASSUME NEW t, Evicted(p, t, tab'), moves' = moves, away' = away \cup {p}
      PROVE  RunsNext
  BY <1>0, <1>2, MarkedRuns DEF RunsNext
<1>3. CASE Calm(tab, tab') /\ UNCHANGED <<moves, away>>
  BY <1>3, QuietRunning DEF RunsOk, RunsNext, Struct, InvTable, Calm, Quiet
<1> QED BY <1>1, <1>2, <1>3, SuspendOpens

(* So does PrepareSweep.                                                    *)
LEMMA SweepRuns ==
  ASSUME Struct, RunsOk, NEW back, PrepareSweep(back)
  PROVE  RunsNext
<1>1. PICK t, k, move, keep :
        /\ Opened(t, k, move) /\ LocsIn(move) \subseteq Stranded(t, keep)
        /\ OutMove(move, 0, SuspendedReaders(t, LocsIn(move)), Terminals(t, SuspendedReaders(t, LocsIn(move))), LocsIn(move))
  BY SweepOpens
<1> DEFINE locs == LocsIn(move)
           R == SuspendedReaders(t, locs)
<1>2. Sound(t) /\ Quiet(tab, t) /\ t.ws = tab.ws /\ Begun(moves, k, move, moves')
  BY <1>1 DEF Opened, Calm, Quiet
<1>3. away' = away \cup {}
  BY DEF PrepareSweep
<1>4. RunSets(t, away)
  BY <1>2, QuietRunSets DEF RunsOk, Running
<1>5. SparedSets(t, {}, locs) /\ SparedPins(t, locs)
  BY <1>1, <1>2, StrandedSpares
<1>6. move.kind = "out" /\ move.proc = 0 /\ move.sets = R /\ move.ws = 0
  BY <1>1 DEF OutMove
<1>7. RunSweep(tab', away, move)
  <2> DEFINE u == tab'
  <2>1. SwapsGrown(t, locs, u)
    BY <1>1, OpenedGrown
  <2> HIDE DEF u
  <2>2. u.ws = t.ws
    BY <2>1 DEF SwapsGrown
  <2>3. ASSUME NEW w \in DOMAIN t.ws, w \in R
        PROVE  t.ws[w].owner \in away /\ t.ws[w].suspended /\ \E l \in Reads(u, w) : l \in locs
    <3>1. t.ws[w].suspended /\ LocationsOf(t, {w}) \cap locs # {}
      BY <2>3 DEF SuspendedReaders
    <3>2. \E l \in Reads(t, w) : l \in locs
      BY <1>2, <3>1, ReadsOf
    <3>3. t.ws[w].owner \in away
      BY <1>4, <3>1 DEF RunSets
    <3> QED BY <2>1, <3>1, <3>2, <3>3, GrownReads
  <2>4. RunSweep(u, away, move)
    BY <1>6, <2>2, <2>3 DEF RunSweep
  <2> QED BY <2>4 DEF u
<1>8. RunOf(tab', away \cup {}, move)
  BY <1>6, <1>7 DEF RunOf
<1>9. Running(tab', moves', away \cup {})
  BY <1>1, <1>5, <1>8, OpenedRuns DEF RunsOk
<1>10. R \subseteq 1..used.sets
  BY <1>2 DEF SuspendedReaders, Struct, InvUsed
<1>11. Fits(move, used.sets)
  BY <1>6, <1>10 DEF Fits
<1>12. Procs(moves', away \cup {}, used.sets)
  BY <1>2, <1>6, <1>11, OpenedProcs DEF RunsOk
<1> QED BY <1>3, <1>9, <1>12 DEF RunsNext

(* So does PrepareDemote.                                                   *)
LEMMA DemoteRuns ==
  ASSUME Struct, RunsOk, PrepareDemote
  PROVE  RunsNext
<1>1. PICK k, move, roots : /\ Opened(tab, k, move) /\ LocsIn(move) \subseteq CacheOnly(tab, roots)
                            /\ OutMove(move, 0, {}, Terminals(tab, {}), LocsIn(move))
  BY DemoteOpens
<1>2. Sound(tab) /\ Begun(moves, k, move, moves')
  BY <1>1 DEF Struct, InvTable, Opened
<1>3. away' = away \cup {}
  BY DEF PrepareDemote
<1>4. LocsIn(move) \cap PinnedLocations(tab) = {} /\ LocsIn(move) \cap LocationsOf(tab, DOMAIN tab.ws) = {}
  BY <1>1 DEF CacheOnly, Resident
<1>5. \A l \in LocsIn(move) : \A w \in DOMAIN tab.ws : l \notin Reads(tab, w)
  BY <1>2, <1>4, ReadsOf
<1>6. SparedSets(tab, {}, LocsIn(move)) /\ SparedPins(tab, LocsIn(move))
  BY <1>4, <1>5 DEF SparedSets, SparedPins, PinnedLocations
<1>7. move.kind = "out" /\ move.proc = 0 /\ move.sets = {} /\ move.ws = 0
  BY <1>1 DEF OutMove
<1>8. RunOf(tab', away \cup {}, move)
  BY <1>7 DEF RunOf, RunSweep
<1>9. Running(tab', moves', away \cup {})
  BY <1>1, <1>6, <1>8, OpenedRuns DEF RunsOk
<1>10. Fits(move, used.sets)
  BY <1>7 DEF Fits
<1>11. Procs(moves', away \cup {}, used.sets)
  BY <1>2, <1>7, <1>10, OpenedProcs DEF RunsOk
<1> QED BY <1>3, <1>9, <1>11 DEF RunsNext

(* So does PrepareRestore.                                                  *)
LEMMA RestoreRuns ==
  ASSUME Struct, RunsOk, NEW p \in 1..MaxSets, PrepareRestore(p)
  PROVE  RunsNext
<1> DEFINE S == SetsOf(p)
           locs == LocationsOf(tab, S)
<1>1. /\ p \in away /\ UNCHANGED away /\ (\A m \in DOMAIN moves : moves[m].proc # p) /\ locs \cap tab.swaps = {}
  BY RestoreOpens
<1>2. PICK k, move : Opened(tab, k, move) /\ move.ws = 0 /\ InMove(move, p, S, Terminals(tab, S), Below(tab, locs))
  BY RestoreOpens
<1>3. /\ move.kind = "in" /\ move.proc = p /\ move.sets = S /\ move.pinned = Terminals(tab, S)
      /\ LocsIn(move) = Below(tab, locs) /\ p # 0
  BY <1>2 DEF InMove
<1>4. SparedSets(tab, {}, LocsIn(move)) /\ SparedPins(tab, LocsIn(move))
  BY <1>3, BelowSpares
<1>5. Sound(tab) /\ S \in SUBSET DOMAIN tab.ws /\ Begun(moves, k, move, moves')
  BY <1>2 DEF SetsOf, LiveSets, Struct, InvTable, Opened
<1>6. SwapsGrown(tab, LocsIn(move), tab')
  BY <1>2, OpenedGrown
<1>7. RunIn(tab', move)
  <2> DEFINE u == tab'
  <2>1. SwapsGrown(tab, LocsIn(move), u)
    BY <1>6
  <2> HIDE DEF u
  <2>2. u.ws = tab.ws
    BY <2>1 DEF SwapsGrown
  <2>3. \A w \in DOMAIN tab.ws : w \in S <=> tab.ws[w].owner = p
    BY DEF SetsOf, LiveSets
  <2>4. ASSUME NEW w \in DOMAIN tab.ws, w \in S PROVE HomeBut(u, w, LocsIn(move))
    <3>1. ASSUME NEW l \in Reads(tab, w) PROVE Rests(u, l) \/ l \in LocsIn(move)
      <4> HIDE DEF S
      <4>1. l \in locs
        BY <1>5, <2>4, <3>1, ReadsOf
      <4>2. l \notin tab.swaps /\ l \in LiveLocations(tab)
        BY <1>1, <4>1, <2>1, GrownReads
      <4>3. CASE OnDevice(Page(tab, l).at)
        <5>1. Rests(tab, l) /\ l \notin LocsIn(move)
          BY <1>3, <4>2, <4>3 DEF Rests, Below
        <5> QED BY <2>1, <4>2, <5>1, GrownReads
      <4>4. CASE ~OnDevice(Page(tab, l).at)
        BY <1>3, <4>1, <4>4 DEF Below
      <4> QED BY <4>3, <4>4
    <3> QED BY <2>1, <3>1, GrownReads DEF HomeBut
  <2>5. \A w \in S : tab.ws[w].terminal \in move.pinned \cup {NoNode}
    BY <1>3 DEF Terminals
  <2>6. RunIn(u, move)
    BY <1>3, <2>2, <2>3, <2>4, <2>5 DEF RunIn
  <2> QED BY <2>6 DEF u
<1>8. RunOf(tab', away \cup {}, move)
  BY <1>2, <1>3, <1>7 DEF RunOf
<1>9. Running(tab', moves', away \cup {})
  BY <1>2, <1>4, <1>8, OpenedRuns DEF RunsOk
<1>10. Fits(move, used.sets)
  BY <1>2, <1>3, <1>5 DEF Fits, Struct, InvUsed
<1>11. Procs(moves', away \cup {}, used.sets)
  BY <1>1, <1>3, <1>5, <1>10, OpenedProcs, ZenonT(40) DEF RunsOk
<1> QED BY <1>1, <1>9, <1>11 DEF RunsNext

(* So does PromotePrepare.                                                  *)
LEMMA PromoteRuns ==
  ASSUME Struct, MovesOk(tab, moves), RunsOk, NEW m \in DOMAIN moves, PromotePrepare(m)
  PROVE  RunsNext
<1> DEFINE old == moves[m]
<1>0. IdleMoves(moves)
  BY DEF MovesOk
<1>1. UNCHANGED away /\ old.kind = "quoted" /\ RunStands(old.run)
  BY <1>0, PromoteOpens
<1>2. PICK move : /\ Opened(tab, m, move) /\ move.ws = old.ws /\ move.run = old.run
                  /\ InMove(move, old.proc, old.sets, {Last(old.run)[1]}, Below(tab, ToSet(old.run)))
  BY <1>0, PromoteOpens
<1>3. Fits(old, used.sets)
  BY DEF RunsOk, Procs
<1>4. /\ move.kind = "in" /\ move.proc = 0 /\ move.sets = old.sets /\ move.pinned = {Last(move.run)[1]} /\ move.ws # 0
      /\ LocsIn(move) = Below(tab, ToSet(move.run)) /\ RunStands(move.run)
  BY <1>1, <1>2, <1>3 DEF InMove, Fits
<1>5. SparedSets(tab, {}, LocsIn(move)) /\ SparedPins(tab, LocsIn(move))
  BY <1>4, BelowSpares
<1>6. SwapsGrown(tab, LocsIn(move), tab')
  BY <1>2, OpenedGrown
<1>7. RunHeld(tab', move)
  <2> DEFINE u == tab'
             n == Last(move.run)[1]
  <2>1. SwapsGrown(tab, LocsIn(move), u)
    BY <1>6
  <2> HIDE DEF u, n
  <2>2. ASSUME NEW l \in ToSet(move.run) PROVE Rests(u, l) \/ l \in LocsIn(move)
    <3>1. Live(tab, l) /\ l \notin tab.swaps
      BY <1>4, <2>2 DEF RunStands
    <3>3. CASE OnDevice(Page(tab, l).at)
      <4>1. l \notin LocsIn(move)
        BY <1>4, <3>3 DEF Below
      <4>2. l \in LiveLocations(tab)
        <5>1. move.run \in Seq(Nat \X Nat)
          BY <1>2 DEF Struct, InvMoves, IsMove
        <5>2. l \in Nat \X Nat
          BY <2>2, <5>1 DEF ToSet
        <5> QED BY <3>1, <5>2 DEF Live, LiveLocations
      <4>3. Rests(tab, l)
        BY <3>1, <3>3 DEF Rests
      <4> QED BY <2>1, <4>1, <4>2, <4>3, GrownReads
    <3>4. CASE ~OnDevice(Page(tab, l).at)
      BY <1>4, <2>2, <3>4 DEF Below
    <3> QED BY <3>3, <3>4
  <2>3. PathBut(u, n, move.run, LocsIn(move))
    BY <2>2 DEF PathBut
  <2> QED BY <2>3 DEF RunHeld, u, n
<1>8. RunOf(tab', away \cup {}, move)
  BY <1>4, <1>7 DEF RunOf
<1>9. Running(tab', moves', away \cup {})
  BY <1>2, <1>5, <1>8, OpenedRuns DEF RunsOk
<1>10. Fits(move, used.sets)
  BY <1>3, <1>4 DEF Fits
<1>11. Begun(moves, m, move, moves')
  BY <1>2 DEF Opened
<1>12. Procs(moves', away \cup {}, used.sets)
  BY <1>4, <1>10, <1>11, OpenedProcs DEF RunsOk
<1> QED BY <1>1, <1>9, <1>12 DEF RunsNext

(* So does PromoteQuote.                                                    *)
LEMMA QuotedRuns ==
  ASSUME Struct, RunsOk, NEW w \in LiveSets, NEW toks, PromoteQuote(w, toks)
  PROVE  RunsNext
<1>1. PICK run, grant : /\ tab' = tab /\ moves' = Put(moves, used.moves + 1, QuotedMove(w, run, grant))
                        /\ Number("moves", MaxMoves) /\ away' = away
  BY DEF PromoteQuote, QuoteRun, Begin, QuotedMove
<1> DEFINE move == QuotedMove(w, run, grant)
           k == used.moves + 1
           mv2 == moves'
<1>2. move.kind = "quoted" /\ move.sets = {} /\ move.proc = 0 /\ move.ws = w
  BY DEF QuotedMove, NoMove
<1>3. Begun(moves, k, move, mv2)
  BY <1>1, BegunNew DEF Struct
<1>4. w # 0
  BY DEF LiveSets, Struct, InvUsed
<1> HIDE DEF move, k, mv2
<1>5. Fits(move, used.sets) /\ RunOf(tab, away, move)
  BY <1>2, <1>4 DEF Fits, RunOf
<1>6. Procs(mv2, away \cup {}, used.sets)
  BY <1>2, <1>3, <1>5, OpenedProcs DEF RunsOk
<1>7. Running(tab, mv2, away)
  BY <1>3, <1>5 DEF RunsOk, Running, Begun, Renewed
<1> QED BY <1>1, <1>6, <1>7 DEF RunsNext, mv2

(* So does PromoteGivesUp.                                                  *)
LEMMA GivenUpRuns ==
  ASSUME RunsOk, NEW m \in DOMAIN moves, PromoteGivesUp(m)
  PROVE  RunsNext
<1>1. tab' = tab /\ away' = away /\ EndMove(m)
  BY DEF PromoteGivesUp
<1>2. Renewed(moves, m, moves') /\ m \notin DOMAIN moves'
  BY <1>1, EndedMoves
<1> QED BY <1>1, <1>2 DEF RunsNext, RunsOk, Running, Procs, Renewed

(* Where the pages of a move are when it ends.                              *)
Landed(t, locs, up) == up = "up" \/ (up = "same" /\ \A l \in locs : l \in LiveLocations(t) => OnDevice(Page(t, l).at))

(* A page at rest stays there at the end of a move, and one that landed on  *)
(* the device comes to rest.                                                *)
LEMMA ClosedRests ==
  ASSUME NEW t, NEW locs, locs \subseteq t.swaps, NEW up, NEW S, NEW flag, NEW u, Closed(t, locs, up, S, flag, u),
         NEW l \in LiveLocations(u)
  PROVE  /\ Rests(t, l) => Rests(u, l)
         /\ Landed(t, locs, up) /\ l \in locs => Rests(u, l)
<1>1. l \in LiveLocations(t) /\ (l \notin locs => Page(u, l).at = Page(t, l).at) /\ (l \in locs => PutAt(t, l, up, u))
      /\ u.swaps = t.swaps \ locs
  BY DEF Closed
<1> QED BY <1>1 DEF Rests, Landed, PutAt

(* So a set stays home, and comes home when what it lacked has landed.      *)
LEMMA ClosedHome ==
  ASSUME NEW t, NEW locs, locs \subseteq t.swaps, NEW up, NEW S, NEW flag, NEW u, Closed(t, locs, up, S, flag, u),
         NEW w \in DOMAIN u.ws, NEW mine
  PROVE  /\ HomeBut(t, w, mine) => HomeBut(u, w, mine)
         /\ HomeBut(t, w, locs) /\ Landed(t, locs, up) => HomeBut(u, w, {})
<1>1. Reads(u, w) = Reads(t, w) /\ Sound(u)
  BY DEF Closed
<1>2. Reads(u, w) \subseteq LiveLocations(u)
  BY <1>1, ReadsListed
<1>3. \A l \in Reads(u, w) : (Rests(t, l) => Rests(u, l)) /\ (Landed(t, locs, up) /\ l \in locs => Rests(u, l))
  BY <1>2, ClosedRests
<1> QED BY <1>1, <1>3 DEF HomeBut

(* So does a pinned path.                                                   *)
LEMMA ClosedPath ==
  ASSUME NEW t, NEW locs, locs \subseteq t.swaps, NEW up, NEW S, NEW flag, NEW u, Closed(t, locs, up, S, flag, u),
         NEW n \in DOMAIN u.pins, NEW run, NEW mine
  PROVE  /\ PathBut(t, n, run, mine) => PathBut(u, n, run, mine)
         /\ PathBut(t, n, run, locs) /\ Landed(t, locs, up) => PathBut(u, n, run, {})
<1>1. Locations(u, n) = Locations(t, n) /\ Sound(u)
  BY DEF Closed
<1>2. n \in DOMAIN u.nodes
  BY <1>1, AnchorsLive, SoundFacts
<1>3. ToSet(Locations(u, n)) \subseteq LiveLocations(u)
  BY <1>1, <1>2, PathsLive
<1>4. \A l \in ToSet(Locations(u, n)) : (Rests(t, l) => Rests(u, l)) /\ (Landed(t, locs, up) /\ l \in locs => Rests(u, l))
  BY <1>3, ClosedRests
<1> QED BY <1>1, <1>4 DEF PathBut

(* What the end of a move leaves of the others.                             *)
LeavesOut(t, S, flag, move) == \A w \in DOMAIN t.ws : w \in S /\ t.ws[w].owner = move.proc => flag = FALSE
LeavesSweep(t, S, flag, A, move) ==
  \A w \in DOMAIN t.ws : w \in move.sets => t.ws[w].owner \in A /\ (w \in S => flag = TRUE)
LeavesIn(t, S, flag, move) ==
  \A w \in DOMAIN t.ws : w \in S /\ w \notin move.sets /\ t.ws[w].owner = move.proc => flag = FALSE

(* What is known of the other moves' sets stays when one ends.              *)
LEMMA ClosedRunOf ==
  ASSUME NEW t, NEW locs, locs \subseteq t.swaps, NEW up, NEW S, NEW flag, NEW u, Closed(t, locs, up, S, flag, u),
         NEW A, NEW B, NEW N, NEW move, RunOf(t, A, move), Fits(move, N), move.pinned \subseteq DOMAIN u.pins,
         move.kind = "out" /\ move.proc # 0 => LeavesOut(t, S, flag, move),
         move.kind = "out" /\ move.proc = 0 => LeavesSweep(t, S, flag, B, move),
         move.kind = "in" /\ move.proc # 0 => LeavesIn(t, S, flag, move)
  PROVE  RunOf(u, B, move)
<1>0. /\ DOMAIN u.ws = DOMAIN t.ws
      /\ \A w \in DOMAIN t.ws : /\ u.ws[w].terminal = t.ws[w].terminal /\ u.ws[w].owner = t.ws[w].owner
                                /\ u.ws[w].suspended = IF w \in S THEN flag ELSE t.ws[w].suspended
                                /\ Reads(u, w) = Reads(t, w)
  BY DEF Closed
<1>h. \A w \in DOMAIN t.ws : HomeBut(t, w, LocsIn(move)) => HomeBut(u, w, LocsIn(move))
  BY <1>0, ClosedHome
<1>1. ASSUME move.kind = "out", move.proc # 0 PROVE RunOut(u, move)
  <2>1. RunOut(t, move) /\ LeavesOut(t, S, flag, move)
    BY <1>1 DEF RunOf
  <2> QED BY <1>0, <1>h, <2>1 DEF RunOut, LeavesOut
<1>2. ASSUME move.kind = "out", move.proc = 0 PROVE RunSweep(u, B, move)
  <2>1. RunSweep(t, A, move) /\ LeavesSweep(t, S, flag, B, move)
    BY <1>2 DEF RunOf
  <2> QED BY <1>0, <2>1 DEF RunSweep, LeavesSweep
<1>3. ASSUME move.kind = "in", move.proc # 0 PROVE RunIn(u, move)
  <2>1. RunIn(t, move) /\ LeavesIn(t, S, flag, move)
    BY <1>3 DEF RunOf
  <2> QED BY <1>0, <1>h, <2>1 DEF RunIn, LeavesIn
<1>4. ASSUME move.kind \in {"in", "reader"}, move.ws # 0 PROVE RunHeld(u, move)
  <2> DEFINE n == Last(move.run)[1]
  <2>1. n \in DOMAIN u.pins /\ RunHeld(t, move)
    BY <1>4 DEF RunOf, Fits
  <2>2. PathBut(t, n, move.run, LocsIn(move))
    BY <2>1 DEF RunHeld
  <2> HIDE DEF n
  <2>3. PathBut(u, n, move.run, LocsIn(move))
    BY <2>1, <2>2, ClosedPath
  <2> QED BY <2>3 DEF RunHeld, n
<1> QED BY <1>1, <1>2, <1>3, <1>4 DEF RunOf

Leaves(t, S, flag, A, move) ==
  /\ move.kind = "out" /\ move.proc # 0 => LeavesOut(t, S, flag, move)
  /\ move.kind = "out" /\ move.proc = 0 => LeavesSweep(t, S, flag, A, move)
  /\ move.kind = "in" /\ move.proc # 0 => LeavesIn(t, S, flag, move)

(* The pages of a move are among those moves have.                          *)
LEMMA InSwaps ==
  ASSUME MovesOk(tab, moves), NEW m \in DOMAIN moves
  PROVE  LocsIn(moves[m]) \subseteq tab.swaps
BY DEF MovesOk, Swapping

(* Together, for the end of a move.                                         *)
LEMMA ClosedRuns ==
  ASSUME Struct', MovesOk(tab, moves), RunsOk, NEW m \in DOMAIN moves, NEW up, NEW S, NEW flag,
         Closed(tab, LocsIn(moves[m]), up, S, flag, tab'), Renewed(moves, m, moves'), RunSets(tab', away'),
         \A n \in DOMAIN moves : n # m => Leaves(tab, S, flag, away', moves[n]),
         m \in DOMAIN moves' => RunOf(tab', away', moves'[m])
  PROVE  Running(tab', moves', away')
<1> DEFINE u == tab'
           mv2 == moves'
           B == away'
<1>1. /\ Closed(tab, LocsIn(moves[m]), up, S, flag, u) /\ Renewed(moves, m, mv2) /\ RunSets(u, B)
      /\ \A n \in DOMAIN moves : n # m => Leaves(tab, S, flag, B, moves[n])
      /\ m \in DOMAIN mv2 => RunOf(u, B, mv2[m])
  OBVIOUS
<1>2. \A n \in DOMAIN mv2 : mv2[n].pinned \subseteq DOMAIN u.pins
  BY PinnedAfter
<1> HIDE DEF u, mv2, B
<1>3. ASSUME NEW n \in DOMAIN mv2, n # m PROVE RunOf(u, B, mv2[n])
  <2>1. n \in DOMAIN moves /\ mv2[n] = moves[n]
    BY <1>1, <1>3 DEF Renewed
  <2>2. RunOf(tab, away, moves[n]) /\ Fits(moves[n], used.sets)
    BY <2>1 DEF RunsOk, Running, Procs
  <2>3. Leaves(tab, S, flag, B, moves[n]) /\ moves[n].pinned \subseteq DOMAIN u.pins
    BY <1>1, <1>2, <1>3, <2>1
  <2>4. LocsIn(moves[m]) \subseteq tab.swaps
    BY InSwaps
  <2>5. RunOf(u, B, moves[n])
    BY <1>1, <2>2, <2>3, <2>4, ClosedRunOf DEF Leaves
  <2> QED BY <2>1, <2>5
<1>4. Running(u, mv2, B)
  BY <1>1, <1>3 DEF Running
<1> QED BY <1>4 DEF u, mv2, B

(* A process is away while a move is of it, and no longer than until its    *)
(* restore.                                                                 *)
LEMMA ClosedProcs ==
  ASSUME RunsOk, NEW m \in DOMAIN moves, EndMove(m), away' = away \/ away' = away \ {moves[m].proc}
  PROVE  Procs(moves', away', used.sets)
<1>1. Renewed(moves, m, moves') /\ m \notin DOMAIN moves'
  BY EndedMoves
<1>2. 0 \notin away' /\ \A n \in DOMAIN moves' : n \in DOMAIN moves /\ n # m /\ moves'[n] = moves[n]
  BY <1>1 DEF Renewed, RunsOk, Procs
<1>3. \A n \in DOMAIN moves' : Fits(moves'[n], used.sets)
  BY <1>2 DEF RunsOk, Procs
<1>4. \A n \in DOMAIN moves' : moves'[n].proc # 0 => moves'[n].proc \in away'
  BY <1>2 DEF RunsOk, Procs
<1>5. \A n, k \in DOMAIN moves' : moves'[n].proc # 0 /\ moves'[n].proc = moves'[k].proc => n = k
  BY <1>2 DEF RunsOk, Procs
<1> QED BY <1>2, <1>3, <1>4, <1>5 DEF Procs

(* What is known of one move.                                               *)
LEMMA RunFacts ==
  ASSUME RunsOk, NEW m \in DOMAIN moves
  PROVE  /\ RunOf(tab, away, moves[m]) /\ Fits(moves[m], used.sets) /\ 0 \notin away
         /\ moves[m].proc # 0 => moves[m].proc \in away
         /\ \A n \in DOMAIN moves : n # m /\ moves[m].proc # 0 => moves[n].proc # moves[m].proc
<1>1. RunOf(tab, away, moves[m])
  BY DEF RunsOk, Running
<1>2. Procs(moves, away, used.sets)
  BY DEF RunsOk
<1>3. \A n \in DOMAIN moves : n # m /\ moves[m].proc # 0 => moves[n].proc # moves[m].proc
  BY <1>2 DEF Procs
<1>4. Fits(moves[m], used.sets) /\ 0 \notin away /\ (moves[m].proc # 0 => moves[m].proc \in away)
  BY <1>2 DEF Procs
<1> QED BY <1>1, <1>3, <1>4

(* The end of a move that marks no set and frees no process.                *)
LEMMA PlainLeaves ==
  ASSUME RunsOk, NEW n \in DOMAIN moves, NEW flag
  PROVE  Leaves(tab, {}, flag, away, moves[n])
<1>1. moves[n].kind = "out" /\ moves[n].proc = 0 => LeavesSweep(tab, {}, flag, away, moves[n])
  <2>1. RunOf(tab, away, moves[n])
    BY RunFacts
  <2> QED BY <2>1 DEF LeavesSweep, RunSweep, RunOf
<1>2. LeavesOut(tab, {}, flag, moves[n]) /\ LeavesIn(tab, {}, flag, moves[n])
  BY DEF LeavesOut, LeavesIn
<1> QED BY <1>1, <1>2 DEF Leaves

(* An end that marks no set keeps running sets on the device.               *)
LEMMA PlainRunSets ==
  ASSUME NEW t, NEW A, RunSets(t, A), NEW locs, locs \subseteq t.swaps, NEW up, NEW flag, NEW u, Closed(t, locs, up, {}, flag, u)
  PROVE  RunSets(u, A)
<1>1. ASSUME NEW w \in DOMAIN u.ws, u.ws[w].owner \notin A PROVE ~u.ws[w].suspended /\ HomeBut(u, w, {})
  <2>1. w \in DOMAIN t.ws /\ u.ws[w].owner = t.ws[w].owner /\ u.ws[w].suspended = t.ws[w].suspended
    BY DEF Closed
  <2>2. ~t.ws[w].suspended /\ HomeBut(t, w, {})
    BY <1>1, <2>1 DEF RunSets
  <2>3. HomeBut(u, w, {})
    BY <2>2, ClosedHome
  <2> QED BY <2>1, <2>2, <2>3
<1> QED BY <1>1 DEF RunSets

(* The abort of a move up, and the last reader of a run, keep them there.   *)
LEMMA PlainRuns ==
  ASSUME Struct, Struct', MovesOk(tab, moves), RunsOk, NEW m \in DOMAIN moves, AbortIn(m) \/ ReleaseReader(m)
  PROVE  RunsNext
<1>1. Closed(tab, LocsIn(moves[m]), "same", {}, TRUE, tab') /\ EndMove(m) /\ away' = away
  BY AbortCloses DEF AbortIn, ReleaseReader
<1>2. Renewed(moves, m, moves') /\ m \notin DOMAIN moves'
  BY <1>1, EndedMoves
<1> DEFINE u == tab'
<1>3. Closed(tab, LocsIn(moves[m]), "same", {}, TRUE, u)
  BY <1>1
<1> HIDE DEF u
<1>4. RunSets(u, away)
  BY <1>3, InSwaps, PlainRunSets DEF RunsOk, Running
<1>5. RunSets(tab', away')
  BY <1>1, <1>4 DEF u
<1>6. \A n \in DOMAIN moves : n # m => Leaves(tab, {}, TRUE, away', moves[n])
  BY <1>1, PlainLeaves
<1>7. Running(tab', moves', away')
  BY <1>1, <1>2, <1>5, <1>6, ClosedRuns
<1>8. Procs(moves', away', used.sets)
  BY <1>1, ClosedProcs
<1> QED BY <1>7, <1>8 DEF RunsNext

(* So does CommitPromote, whose run has landed.                             *)
LEMMA CommitPromoteRuns ==
  ASSUME Struct, Struct', MovesOk(tab, moves), RunsOk, NEW m \in DOMAIN moves, CommitPromote(m)
  PROVE  RunsNext
<1> DEFINE move == moves[m]
<1>1. /\ Closed(tab, LocsIn(move), "up", {}, TRUE, tab') /\ away' = away /\ move.kind = "in" /\ move.ws # 0
      /\ moves' = [moves EXCEPT ![m] = ReaderOf(move)]
  BY CommitPromoteCloses DEF CommitPromote, ReaderOf
<1>2. Fits(move, used.sets) /\ RunHeld(tab, move)
  <2>1. RunOf(tab, away, move) /\ Fits(move, used.sets)
    BY RunFacts
  <2> QED BY <1>1, <2>1 DEF RunOf
<1> DEFINE u == tab'
           mv2 == moves'
           r == ReaderOf(move)
<1>3. /\ r.kind = "reader" /\ r.proc = 0 /\ r.sets = {} /\ r.ws = move.ws /\ r.run = move.run /\ r.pinned = move.pinned
      /\ LocsIn(r) = {}
  BY DEF ReaderOf, NoMove, LocsIn
<1>4. /\ Closed(tab, LocsIn(move), "up", {}, TRUE, u) /\ DOMAIN mv2 = DOMAIN moves /\ mv2[m] = r
      /\ \A n \in DOMAIN moves : n # m => mv2[n] = moves[n]
  BY <1>1
<1>5. mv2[m].pinned \subseteq DOMAIN u.pins
  BY <1>4, PinnedAfter
<1> HIDE DEF u, r
<1>6. RunSets(u, away)
  BY <1>4, InSwaps, PlainRunSets DEF RunsOk, Running
<1>7. RunHeld(u, r)
  <2> DEFINE n == Last(move.run)[1]
  <2>1. n \in DOMAIN u.pins /\ PathBut(tab, n, move.run, LocsIn(move)) /\ Landed(tab, LocsIn(move), "up")
    BY <1>1, <1>2, <1>3, <1>4, <1>5 DEF Fits, RunHeld, Landed
  <2> HIDE DEF n
  <2>2. PathBut(u, n, move.run, {})
    BY <1>4, <2>1, InSwaps, ClosedPath
  <2> QED BY <1>3, <2>2 DEF RunHeld, n
<1>8. RunOf(u, away, r) /\ Fits(r, used.sets)
  BY <1>1, <1>2, <1>3, <1>7 DEF RunOf, Fits
<1> HIDE DEF mv2
<1>9. Procs(mv2, away, used.sets)
  <2>1. \A n \in DOMAIN mv2 : /\ Fits(mv2[n], used.sets) /\ (mv2[n].proc # 0 => mv2[n].proc \in away)
                              /\ mv2[n].proc # 0 => n # m
    BY <1>3, <1>4, <1>8 DEF RunsOk, Procs
  <2> QED BY <1>4, <2>1 DEF RunsOk, Procs
<1>10. Renewed(moves, m, moves') /\ RunSets(tab', away') /\ RunOf(tab', away', moves'[m])
  BY <1>1, <1>4, <1>6, <1>8 DEF Renewed, u, mv2
<1>11. \A n \in DOMAIN moves : n # m => Leaves(tab, {}, TRUE, away', moves[n])
  BY <1>1, PlainLeaves
<1>12. Running(tab', moves', away')
  BY <1>1, <1>10, <1>11, ClosedRuns
<1> QED BY <1>1, <1>9, <1>12 DEF RunsNext, mv2

(* So does CommitOut, which suspends what it moved.                         *)
LEMMA CommitOutRuns ==
  ASSUME Struct, Struct', MovesOk(tab, moves), RunsOk, NEW m \in DOMAIN moves, CommitOut(m)
  PROVE  RunsNext
<1> DEFINE move == moves[m]
           S == move.sets \cap LiveSets
<1>1. Closed(tab, LocsIn(move), "down", S, TRUE, tab') /\ EndMove(m) /\ away' = away /\ move.kind = "out"
  BY CommitOutCloses DEF CommitOut
<1>2. /\ RunOf(tab, away, move) /\ (move.proc # 0 => move.proc \in away)
      /\ \A n \in DOMAIN moves : n # m /\ move.proc # 0 => moves[n].proc # move.proc
  BY RunFacts
<1>3. \A w \in DOMAIN tab.ws : w \in S => /\ tab.ws[w].owner \in away
                                          /\ tab.ws[w].suspended \/ (tab.ws[w].owner = move.proc /\ move.proc # 0)
  BY <1>1, <1>2 DEF RunOf, RunOut, RunSweep
<1>4. Renewed(moves, m, moves') /\ m \notin DOMAIN moves'
  BY <1>1, EndedMoves
<1> HIDE DEF S
<1>5. ASSUME NEW n \in DOMAIN moves, n # m PROVE Leaves(tab, S, TRUE, away, moves[n])
  <2>1. RunOf(tab, away, moves[n])
    BY RunFacts
  <2>2. moves[n].kind = "out" /\ moves[n].proc # 0 => LeavesOut(tab, S, TRUE, moves[n])
    BY <1>2, <1>3, <1>5, <2>1 DEF LeavesOut, RunOf, RunOut
  <2>3. moves[n].kind = "out" /\ moves[n].proc = 0 => LeavesSweep(tab, S, TRUE, away, moves[n])
    BY <2>1 DEF LeavesSweep, RunOf, RunSweep
  <2>4. moves[n].kind = "in" /\ moves[n].proc # 0 => LeavesIn(tab, S, TRUE, moves[n])
    BY <1>2, <1>3, <1>5, <2>1 DEF LeavesIn, RunOf, RunIn
  <2> QED BY <2>2, <2>3, <2>4 DEF Leaves
<1>6. RunSets(tab', away)
  <2> DEFINE u == tab'
  <2>1. Closed(tab, LocsIn(move), "down", S, TRUE, u)
    BY <1>1
  <2> HIDE DEF u
  <2>2. ASSUME NEW w \in DOMAIN u.ws, u.ws[w].owner \notin away PROVE ~u.ws[w].suspended /\ HomeBut(u, w, {})
    <3>1. /\ w \in DOMAIN tab.ws /\ u.ws[w].owner = tab.ws[w].owner
          /\ w \notin S => u.ws[w].suspended = tab.ws[w].suspended
      BY <2>1 DEF Closed
    <3>2. ~tab.ws[w].suspended /\ HomeBut(tab, w, {}) /\ w \notin S
      BY <1>3, <2>2, <3>1 DEF RunsOk, Running, RunSets
    <3>3. HomeBut(u, w, {})
      BY <2>1, <3>2, InSwaps, ClosedHome
    <3> QED BY <3>1, <3>2, <3>3
  <2>3. RunSets(u, away)
    BY <2>2 DEF RunSets
  <2> QED BY <2>3 DEF u
<1>7. RunSets(tab', away') /\ \A n \in DOMAIN moves : n # m => Leaves(tab, S, TRUE, away', moves[n])
  BY <1>1, <1>5, <1>6
<1>8. Running(tab', moves', away')
  BY <1>1, <1>4, <1>7, ClosedRuns
<1>9. Procs(moves', away', used.sets)
  BY <1>1, ClosedProcs
<1> QED BY <1>8, <1>9 DEF RunsNext

(* So does AbortOut, which leaves the pages on the device.                  *)
LEMMA AbortOutRuns ==
  ASSUME Struct, Struct', MovesOk(tab, moves), RunsOk, NEW m \in DOMAIN moves, AbortOut(m)
  PROVE  RunsNext
<1> DEFINE move == moves[m]
           locs == LocsIn(move)
           B == away \ {move.proc}
<1>1. Closed(tab, locs, "same", {}, TRUE, tab') /\ EndMove(m) /\ away' = B /\ move.kind = "out"
  BY AbortCloses DEF AbortOut
<1>2. /\ RunOf(tab, away, move) /\ 0 \notin away
      /\ \A n \in DOMAIN moves : n # m /\ move.proc # 0 => moves[n].proc # move.proc
  BY RunFacts
<1>3. \A w \in DOMAIN tab.ws : tab.ws[w].owner \in away /\ tab.ws[w].owner \notin B =>
                                 ~tab.ws[w].suspended /\ HomeBut(tab, w, locs)
  BY <1>1, <1>2 DEF RunOf, RunOut
<1>4. Renewed(moves, m, moves') /\ m \notin DOMAIN moves'
  BY <1>1, EndedMoves
<1> HIDE DEF B
<1>5. ASSUME NEW n \in DOMAIN moves, n # m PROVE Leaves(tab, {}, TRUE, B, moves[n])
  <2>1. RunOf(tab, away, moves[n])
    BY RunFacts
  <2>2. LeavesOut(tab, {}, TRUE, moves[n]) /\ LeavesIn(tab, {}, TRUE, moves[n])
    BY DEF LeavesOut, LeavesIn
  <2>3. moves[n].kind = "out" /\ moves[n].proc = 0 => LeavesSweep(tab, {}, TRUE, B, moves[n])
    BY <1>3, <2>1 DEF LeavesSweep, RunOf, RunSweep
  <2> QED BY <2>2, <2>3 DEF Leaves
<1>6. Landed(tab, locs, "same")
  <2>1. ASSUME NEW l \in locs, l \in LiveLocations(tab) PROVE OnDevice(Page(tab, l).at)
    <3>1. PICK p \in move.pages : p.loc = l
      BY DEF LocsIn
    <3>2. Page(tab, l).at = Device(p.gpu)
      BY <1>1, <2>1, <3>1 DEF MovesOk, InPlace, Where, OnGpu
    <3> QED BY <3>2 DEF OnDevice, Device
  <2> QED BY <2>1 DEF Landed
<1>7. RunSets(tab', B)
  <2> DEFINE u == tab'
  <2>1. Closed(tab, locs, "same", {}, TRUE, u)
    BY <1>1
  <2> HIDE DEF u
  <2>2. ASSUME NEW w \in DOMAIN u.ws, u.ws[w].owner \notin B PROVE ~u.ws[w].suspended /\ HomeBut(u, w, {})
    <3>1. w \in DOMAIN tab.ws /\ u.ws[w].owner = tab.ws[w].owner /\ u.ws[w].suspended = tab.ws[w].suspended
      BY <2>1 DEF Closed
    <3>2. CASE tab.ws[w].owner \notin away
      <4>1. ~tab.ws[w].suspended /\ HomeBut(tab, w, {})
        BY <3>1, <3>2 DEF RunsOk, Running, RunSets
      <4>2. HomeBut(u, w, {})
        BY <2>1, <4>1, InSwaps, ClosedHome
      <4> QED BY <3>1, <4>1, <4>2
    <3>3. CASE tab.ws[w].owner \in away
      <4>1. ~tab.ws[w].suspended /\ HomeBut(tab, w, locs)
        BY <1>3, <2>2, <3>1, <3>3
      <4>2. HomeBut(u, w, {})
        BY <1>6, <2>1, <4>1, InSwaps, ClosedHome
      <4> QED BY <3>1, <4>1, <4>2
    <3> QED BY <3>2, <3>3
  <2>3. RunSets(u, B)
    BY <2>2 DEF RunSets
  <2> QED BY <2>3 DEF u
<1>8. RunSets(tab', away') /\ \A n \in DOMAIN moves : n # m => Leaves(tab, {}, TRUE, away', moves[n])
  BY <1>1, <1>5, <1>7
<1>9. Running(tab', moves', away')
  BY <1>1, <1>4, <1>8, ClosedRuns
<1>10. Procs(moves', away', used.sets)
  BY <1>1, ClosedProcs DEF B
<1> QED BY <1>9, <1>10 DEF RunsNext

(* So does CommitRestore: the sets that run again have all their pages.     *)
LEMMA CommitRestoreRuns ==
  ASSUME Struct, Struct', MovesOk(tab, moves), RunsOk, NEW m \in DOMAIN moves, CommitRestore(m)
  PROVE  RunsNext
<1> DEFINE move == moves[m]
           locs == LocsIn(move)
           S == move.sets \cap LiveSets
           B == away \ {move.proc}
<1>1. Closed(tab, locs, "up", S, FALSE, tab') /\ EndMove(m) /\ away' = B /\ move.kind = "in" /\ move.ws = 0
  BY CommitRestoreCloses DEF CommitRestore
<1>2. RunOf(tab, away, move) /\ Fits(move, used.sets)
  BY RunFacts
<1>3. RunIn(tab, move) /\ move.proc # 0
  BY <1>1, <1>2 DEF RunOf, Fits
<1>4. Renewed(moves, m, moves') /\ m \notin DOMAIN moves'
  BY <1>1, EndedMoves
<1>5. \A w \in DOMAIN tab.ws : /\ w \in S <=> w \in move.sets
                               /\ tab.ws[w].owner \in away /\ tab.ws[w].owner \notin B => tab.ws[w].owner = move.proc
  BY DEF LiveSets
<1> HIDE DEF B, S
<1>6. ASSUME NEW n \in DOMAIN moves, n # m PROVE Leaves(tab, S, FALSE, B, moves[n])
  <2>1. RunOf(tab, away, moves[n])
    BY RunFacts
  <2>2. LeavesOut(tab, S, FALSE, moves[n]) /\ LeavesIn(tab, S, FALSE, moves[n])
    BY DEF LeavesOut, LeavesIn
  <2>3. ASSUME moves[n].kind = "out", moves[n].proc = 0 PROVE LeavesSweep(tab, S, FALSE, B, moves[n])
    <3>1. ASSUME NEW w \in DOMAIN tab.ws, w \in moves[n].sets PROVE tab.ws[w].owner \in B /\ w \notin S
      <4>1. tab.ws[w].owner \in away /\ \E l \in Reads(tab, w) : l \in LocsIn(moves[n])
        BY <2>1, <2>3, <3>1 DEF RunOf, RunSweep
      <4>2. PICK l \in Reads(tab, w) : l \in LocsIn(moves[n])
        BY <4>1
      <4>3. l \in tab.swaps /\ l \notin locs
        BY <1>6, <4>2, InSwaps DEF MovesOk, Apart
      <4>4. ~HomeBut(tab, w, locs)
        BY <4>2, <4>3 DEF HomeBut, Rests
      <4>5. tab.ws[w].owner # move.proc
        BY <1>3, <4>4 DEF RunIn
      <4> QED BY <1>3, <1>5, <4>1, <4>5 DEF RunIn
    <3> QED BY <3>1 DEF LeavesSweep
  <2> QED BY <2>2, <2>3 DEF Leaves
<1>7. RunSets(tab', B)
  <2> DEFINE u == tab'
  <2>1. Closed(tab, locs, "up", S, FALSE, u)
    BY <1>1
  <2> HIDE DEF u
  <2>2. ASSUME NEW w \in DOMAIN u.ws, u.ws[w].owner \notin B PROVE ~u.ws[w].suspended /\ HomeBut(u, w, {})
    <3>1. /\ w \in DOMAIN tab.ws /\ u.ws[w].owner = tab.ws[w].owner
          /\ u.ws[w].suspended => w \notin S /\ tab.ws[w].suspended
      BY <2>1 DEF Closed
    <3>2. CASE tab.ws[w].owner \notin away
      <4>1. ~tab.ws[w].suspended /\ HomeBut(tab, w, {})
        BY <3>1, <3>2 DEF RunsOk, Running, RunSets
      <4>2. HomeBut(u, w, {})
        BY <2>1, <4>1, InSwaps, ClosedHome
      <4> QED BY <3>1, <4>1, <4>2
    <3>3. CASE tab.ws[w].owner \in away
      <4>1. tab.ws[w].owner = move.proc
        BY <1>5, <2>2, <3>1, <3>3
      <4>2. HomeBut(tab, w, locs) /\ (w \notin S => ~tab.ws[w].suspended)
        BY <1>3, <1>5, <3>1, <4>1 DEF RunIn
      <4>3. Landed(tab, locs, "up")
        BY DEF Landed
      <4>4. HomeBut(u, w, {})
        BY <2>1, <4>2, <4>3, InSwaps, ClosedHome
      <4> QED BY <3>1, <4>2, <4>4
    <3> QED BY <3>2, <3>3
  <2>3. RunSets(u, B)
    BY <2>2 DEF RunSets
  <2> QED BY <2>3 DEF u
<1>8. RunSets(tab', away') /\ \A n \in DOMAIN moves : n # m => Leaves(tab, S, FALSE, away', moves[n])
  BY <1>1, <1>6, <1>7
<1>9. Running(tab', moves', away')
  BY <1>1, <1>4, <1>8, ClosedRuns
<1>10. Procs(moves', away', used.sets)
  BY <1>1, ClosedProcs DEF B
<1> QED BY <1>9, <1>10 DEF RunsNext

CountsOnce == used' = used \/ \E kind \in {"sets", "fires", "moves"} : \E max : Number(kind, max)

(* A step numbers at most one thing.                                        *)
LEMMA QuietCounts ==
  ASSUME SetStep \/ FireStep \/ CacheStep \/ UNCHANGED vars
  PROVE  CountsOnce
<1>1. ASSUME SetStep PROVE CountsOnce
  BY <1>1 DEF SetStep, Create, Fork, Release, CountsOnce
<1>2. ASSUME NEW f, FireGivesUp(f) \/ FirePrepare(f) \/ FireRefused(f) \/ FireSubmit(f) PROVE used' = used
  BY <1>2 DEF FireGivesUp, FirePrepare, FireRefused, FireSubmit
<1>3. \A f, b : FireLost(f, b) => used' = used
  BY DEF FireLost
<1>4. \A f, a, b, c : FireSettles(f, a, b, c) => used' = used
  BY DEF FireSettles
<1>5. \A w, s, toks : Quote(w, s, toks) => Number("fires", MaxFires)
  BY DEF Quote
<1>6. ASSUME FireStep PROVE CountsOnce
  BY <1>2, <1>3, <1>4, <1>5, <1>6 DEF FireStep, PrepareStep, CountsOnce
<1>7. ASSUME CacheStep PROVE used' = used
  BY <1>7 DEF CacheStep, Supply, ReclaimCache, DiscardCache
<1>8. ASSUME UNCHANGED vars PROVE used' = used
  BY <1>8 DEF vars
<1> QED BY <1>1, <1>6, <1>7, <1>8 DEF CountsOnce

(* So does a step of a move.                                                *)
LEMMA MoveCounts ==
  ASSUME MoveStep
  PROVE  CountsOnce
<1>1. \A p : PrepareSuspend(p) => CountsOnce
  BY DEF PrepareSuspend, EvictAfter, Evict, BeginOut, Begin, CountsOnce
<1>2. \A p : PrepareRestore(p) => CountsOnce
  BY DEF PrepareRestore, Restore, Land, Begin, CountsOnce
<1>3. \A back : PrepareSweep(back) => CountsOnce
  BY DEF PrepareSweep, SweepAfter, Sweep, BeginOut, Begin, CountsOnce
<1>4. PrepareDemote => CountsOnce
  BY DEF PrepareDemote, BeginOut, Begin, CountsOnce
<1>5. \A w, toks : PromoteQuote(w, toks) => CountsOnce
  BY DEF PromoteQuote, QuoteRun, Begin, CountsOnce
<1>6. \A m : CommitOut(m) \/ AbortOut(m) \/ CommitRestore(m) \/ AbortIn(m) => used' = used
  BY DEF CommitOut, AbortOut, CommitRestore, AbortIn
<1>7. \A m : PromotePrepare(m) \/ PromoteGivesUp(m) \/ CommitPromote(m) \/ ReleaseReader(m) => used' = used
  BY DEF PromotePrepare, PromoteGivesUp, CommitPromote, ReleaseReader
<1> QED BY <1>1, <1>2, <1>3, <1>4, <1>5, <1>6, <1>7 DEF MoveStep, CountsOnce

(* Numbers are never taken back.                                            *)
LEMMA UsedGrows ==
  ASSUME InvUsed, [Next]_vars
  PROVE  used.sets \in Nat /\ used'.sets \in Nat /\ used.sets <= used'.sets
<1>1. CountsOnce
  BY QuietCounts, MoveCounts DEF Next
<1>2. used \in [sets : Nat, fires : Nat, moves : Nat]
  BY DEF InvUsed
<1>3. CASE used' = used
  BY <1>2, <1>3
<1>4. ASSUME NEW kind \in {"sets", "fires", "moves"}, NEW max, Number(kind, max)
      PROVE  used.sets \in Nat /\ used'.sets \in Nat /\ used.sets <= used'.sets
  BY <1>2, <1>4 DEF Number
<1> QED BY <1>1, <1>3, <1>4 DEF CountsOnce

(* Every step keeps running sets on the device.                             *)
LEMMA NextRuns ==
  ASSUME Struct, MovesOk(tab, moves), RunsOk, [Next]_vars
  PROVE  RunsOk'
<1>1. Struct'
  BY NextStruct
<1>2. ASSUME SetStep \/ FireStep \/ CacheStep \/ UNCHANGED vars PROVE RunsNext
  <2>1. SwapsNamed(tab) /\ SwapsLive(tab)
    BY SwapsAreNamed DEF MovesOk
  <2>2. Quiet(tab, tab') /\ UNCHANGED <<moves, away>>
    BY <1>2, <2>1, NextQuiet
  <2>3. Sound(tab')
    BY <1>1 DEF Struct, InvTable
  <2>4. Running(tab', moves, away)
    BY <2>2, <2>3, QuietRunning DEF RunsOk
  <2> QED BY <2>2, <2>4 DEF RunsNext, RunsOk
<1>3. ASSUME MoveStep PROVE RunsNext
  <2>1. ASSUME NEW p \in 1..MaxSets, PrepareSuspend(p) \/ PrepareRestore(p)
        PROVE  RunsNext
    BY <1>1, <2>1, SuspendRuns, RestoreRuns
  <2>2. ASSUME NEW w \in LiveSets, NEW toks, PromoteQuote(w, toks)
        PROVE  RunsNext
    BY <2>2, QuotedRuns
  <2>3. ASSUME NEW m \in DOMAIN moves, CommitOut(m) \/ AbortOut(m) \/ CommitRestore(m) \/ AbortIn(m) \/ ReleaseReader(m)
        PROVE  RunsNext
    BY <1>1, <2>3, CommitOutRuns, AbortOutRuns, CommitRestoreRuns, PlainRuns
  <2>4. ASSUME NEW m \in DOMAIN moves, PromotePrepare(m) \/ PromoteGivesUp(m) \/ CommitPromote(m)
        PROVE  RunsNext
    BY <1>1, <2>4, PromoteRuns, GivenUpRuns, CommitPromoteRuns
  <2> QED BY <1>3, <2>1, <2>2, <2>3, <2>4, SweepRuns, DemoteRuns DEF MoveStep
<1>4. RunsNext
  BY <1>2, <1>3 DEF Next
<1>5. used.sets \in Nat /\ used'.sets \in Nat /\ used.sets <= used'.sets
  BY UsedGrows DEF Struct
<1>6. Procs(moves', away', used'.sets)
  <2>1. \A n \in DOMAIN moves' : Fits(moves'[n], used.sets) => Fits(moves'[n], used'.sets)
    BY <1>5 DEF Fits
  <2>2. Procs(moves', away', used.sets)
    BY <1>4 DEF RunsNext
  <2> QED BY <2>1, <2>2 DEF Procs
<1> QED BY <1>4, <1>6 DEF RunsNext, RunsOk

(* There are none at first.                                                 *)
LEMMA InitRuns ==
  ASSUME Init
  PROVE  RunsOk
<1>1. DOMAIN tab.ws = {} /\ DOMAIN moves = {} /\ away = {}
  BY DEF Init, EmptyTable
<1> QED BY <1>1 DEF RunsOk, Running, RunSets, Procs

MovesInv == Struct /\ MovesOk(tab, moves) /\ RunsOk

(* The invariant of the moves holds always.                                 *)
LEMMA AlwaysMoves == Spec => []MovesInv
<1>1. Init => MovesInv
  BY InitStruct, InitMoves, InitRuns DEF MovesInv
<1>2. MovesInv /\ [Next]_vars => MovesInv'
  BY NextStruct, NextMoves, NextRuns DEF MovesInv
<1> QED BY <1>1, <1>2, PTL DEF Spec

(* A page at rest is settled.                                               *)
LEMMA RestIsSettled ==
  ASSUME NEW t, NEW l \in LiveLocations(t), Rests(t, l)
  PROVE  Settled(t, l)
BY DEF LiveLocations, Live, Rests, Settled

(* RunningIsResident for every instance: the sets of a process that runs    *)
(* are not suspended and have every page on the device and in no move,      *)
(* whatever evictions, sweeps, demotions and restores of others do to pages *)
(* they come to share (page_table.rs, movable_resident_pages and stranded_pages).                  *)
THEOREM RunningStaysResident == Spec => []RunningIsResident
<1>1. ASSUME MovesInv PROVE RunningIsResident
  <2>1. Sound(tab) /\ RunSets(tab, away)
    BY <1>1 DEF MovesInv, Struct, InvTable, RunsOk, Running
  <2>2. ASSUME NEW w \in LiveSets, ~IsAway(w)
        PROVE  ~tab.ws[w].suspended /\ \A l \in ToSet(WsLocations(tab, w)) : Settled(tab, l)
    <3>1. w \in DOMAIN tab.ws /\ tab.ws[w].owner \notin away
      BY <2>2 DEF LiveSets, IsAway
    <3>2. ~tab.ws[w].suspended /\ HomeBut(tab, w, {})
      BY <2>1, <3>1 DEF RunSets
    <3>3. ToSet(WsLocations(tab, w)) = Reads(tab, w) /\ Reads(tab, w) \subseteq LiveLocations(tab)
      BY <2>1, <3>1, WsLocationsAll, ReadsListed DEF Reads
    <3> QED BY <3>2, <3>3, RestIsSettled DEF HomeBut
  <2> QED BY <2>2 DEF RunningIsResident
<1> QED BY <1>1, AlwaysMoves, PTL

(* HeldRunStays for every instance: what a promotion holds of its run on    *)
(* the path it pinned is on the device once it has landed, although quote,  *)
(* grant and preparation are apart (fire.rs, promote).               *)
THEOREM PromotedRunStays == Spec => []HeldRunStays
<1>1. ASSUME MovesInv PROVE HeldRunStays
  <2>1. Sound(tab) /\ RunsOk /\ Struct
    BY <1>1 DEF MovesInv, Struct, InvTable
  <2>2. ASSUME NEW m \in DOMAIN moves, moves[m].kind = "reader"
        PROVE  LET end == Last(moves[m].run)[1]
               IN  /\ end \in DOMAIN tab.nodes
                   /\ \A l \in ToSet(moves[m].run) \cap ToSet(Locations(tab, end)) : Settled(tab, l)
    <3> DEFINE end == Last(moves[m].run)[1]
    <3>1. RunOf(tab, away, moves[m]) /\ Fits(moves[m], used.sets)
      BY <2>1, RunFacts
    <3>2. RunHeld(tab, moves[m]) /\ moves[m].pinned = {end}
      BY <2>2, <3>1 DEF RunOf, Fits
    <3>3. LocsIn(moves[m]) = {}
      BY <1>1, <2>2 DEF MovesInv, MovesOk, IdleMoves, LocsIn
    <3>4. end \in DOMAIN tab.pins
      BY <2>1, <3>2, PinnedNow
    <3>5. PathBut(tab, end, moves[m].run, {})
      BY <3>2, <3>3 DEF RunHeld
    <3> HIDE DEF end
    <3>6. end \in DOMAIN tab.nodes
      BY <2>1, <3>4, AnchorsLive, SoundFacts
    <3>7. ToSet(Locations(tab, end)) \subseteq LiveLocations(tab)
      BY <2>1, <3>6, PathsLive
    <3>8. \A l \in ToSet(moves[m].run) \cap ToSet(Locations(tab, end)) : Settled(tab, l)
      BY <3>5, <3>7, RestIsSettled DEF PathBut
    <3> QED BY <3>6, <3>8 DEF end
  <2> QED BY <2>2 DEF HeldRunStays
<1> QED BY <1>1, AlwaysMoves, PTL

(* The page ids kept for a set are those of its mapping, or none: of sets   *)
(* of processes that run, that are being evicted, and of sets forked while  *)
(* their process is being restored.                                         *)
Current(t, fl, w) == fl[w] # Stale => fl[w] = Flatten(t, w)

Guarding(move, w, p) ==
  /\ move.proc # 0 /\ move.proc = p
  /\ move.kind = "out" \/ (move.kind = "in" /\ w \notin move.sets)

Guarded(t, mv, A, w) ==
  t.ws[w].owner \notin A \/ \E m \in DOMAIN mv : Guarding(mv[m], w, t.ws[w].owner)

FlatOk(t, fl, mv, A) == \A w \in DOMAIN t.ws : Guarded(t, mv, A, w) => Current(t, fl, w)

Retabled(u, fl, fl2, W) == \A w \in DOMAIN u.ws : fl2[w] = IF w \in W THEN Flatten(u, w) ELSE fl[w]

(* Pages where they were have the ids they had.                             *)
LEMMA SameIds ==
  ASSUME NEW t, NEW u, NEW S, NEW locs \in Seq(S), \A l \in ToSet(locs) : Page(u, l).at = Page(t, l).at
  PROVE  FlatIds(u, locs) = FlatIds(t, locs)
<1>1. \A i \in DOMAIN locs : locs[i] \in ToSet(locs)
  BY DEF ToSet
<1>2. \A l \in ToSet(locs) : OnDevice(Page(u, l).at) <=> OnDevice(Page(t, l).at)
  OBVIOUS
<1>3. [i \in DOMAIN locs |-> Page(u, locs[i]).at[2]] = [i \in DOMAIN locs |-> Page(t, locs[i]).at[2]]
  BY <1>1
<1> QED BY <1>2, <1>3 DEF FlatIds

(* A set's flat table lists the ids along its path, if all are on the       *)
(* device.                                                                  *)
LEMMA FlatOf ==
  ASSUME NEW t, Sound(t), NEW w \in DOMAIN t.ws
  PROVE  /\ Flatten(t, w) = FlatIds(t, Locations(t, t.ws[w].terminal))
         /\ Locations(t, t.ws[w].terminal) \in Seq(Nat \X Nat)
         /\ Flatten(t, w) # Stale => \A l \in Reads(t, w) : OnDevice(Page(t, l).at)
<1>1. WsLocations(t, w) = Locations(t, t.ws[w].terminal) /\ WsLocations(t, w) \in Seq(Nat \X Nat)
  BY WsLocationsAll
<1> QED BY <1>1 DEF Flatten, FlatIds, Reads

(* A set that reads the same has the same flat table.                       *)
LEMMA SameFlat ==
  ASSUME NEW t, Sound(t), NEW u, Sound(u), NEW w \in DOMAIN t.ws, w \in DOMAIN u.ws,
         SameReads(t, t.ws[w].terminal, u, u.ws[w].terminal)
  PROVE  Flatten(u, w) = Flatten(t, w)
<1> DEFINE locs == Locations(t, t.ws[w].terminal)
<1>1. Flatten(t, w) = FlatIds(t, locs) /\ locs \in Seq(Nat \X Nat)
  BY FlatOf
<1>2. Flatten(u, w) = FlatIds(u, locs)
  BY FlatOf DEF SameReads
<1>3. \A l \in ToSet(locs) : Page(u, l).at = Page(t, l).at
  BY DEF SameReads
<1> HIDE DEF locs
<1> QED BY <1>1, <1>2, <1>3, SameIds

(* A quiet step keeps flat tables current when it takes those of the sets   *)
(* it changes again.                                                        *)
LEMMA QuietFlat ==
  ASSUME NEW t, Sound(t), NEW u, Sound(u), NEW W, QuietBut(t, u, W), NEW fl, NEW fl2, Retabled(u, fl, fl2, W),
         NEW mv, NEW A, FlatOk(t, fl, mv, A)
  PROVE  FlatOk(u, fl2, mv, A)
<1>1. ASSUME NEW w \in DOMAIN u.ws, Guarded(u, mv, A, w) PROVE Current(u, fl2, w)
  <2>1. CASE w \in W
    BY <2>1 DEF Retabled, Current
  <2>2. CASE w \notin W
    <3>1. /\ w \in DOMAIN t.ws /\ u.ws[w].owner = t.ws[w].owner
          /\ SameReads(t, t.ws[w].terminal, u, u.ws[w].terminal)
      BY <2>2 DEF QuietBut, Flags, Kin, KinSets
    <3>2. Flatten(u, w) = Flatten(t, w)
      BY <3>1, SameFlat
    <3>3. Current(t, fl, w)
      BY <1>1, <3>1 DEF FlatOk, Guarded
    <3>4. fl2[w] = fl[w]
      BY <2>2 DEF Retabled
    <3> QED BY <3>2, <3>3, <3>4 DEF Current
  <2> QED BY <2>1, <2>2
<1> QED BY <1>1 DEF FlatOk

(* An empty set's flat table is empty.                                      *)
LEMMA BlankFlat ==
  ASSUME NEW u, Sound(u), NEW w \in DOMAIN u.ws, u.ws[w].terminal = NoNode
  PROVE  Flatten(u, w) = <<>>
<1>1. Flatten(u, w) = FlatIds(u, <<>>)
  BY FlatOf, SoundFacts, LocationFacts
<1>2. FlatIds(u, <<>>) = <<>>
  BY DEF FlatIds, ToSet
<1> QED BY <1>1, <1>2

(* What a step that neither begins nor ends a move does to the page ids.    *)
Tabled == \E W : QuietBut(tab, tab', W) /\ Retabled(tab', flat, flat', W)

(* A calm step may leave all of them.                                       *)
LEMMA CalmTabled ==
  ASSUME Calm(tab, tab'), flat' = flat
  PROVE  Tabled
<1>1. QuietBut(tab, tab', {}) /\ Retabled(tab', flat, flat', {})
  BY DEF Calm, Retabled
<1> QED BY <1>1 DEF Tabled

(* Create takes an empty one.                                               *)
LEMMA CreateTabled ==
  ASSUME Struct, Struct', Create
  PROVE  Tabled
<1> DEFINE c == used.sets + 1
<1>1. flat' = Put(flat, c, <<>>) /\ QuietBut(tab, tab', {c}) /\ Sound(tab')
  BY CreateQuiet DEF Create, Struct, InvTable
<1>2. \A w \in DOMAIN tab'.ws : w # c => w \in DOMAIN flat
  BY <1>1 DEF QuietBut, Flags, Struct, InvFlat
<1>3. c \in DOMAIN tab'.ws => tab'.ws[c].terminal = NoNode
  <2>1. tab' = WithNewSet(tab, c, EmptySet(c))
    BY DEF Create, WithNewSet
  <2> QED BY <2>1 DEF WithNewSet, Put, EmptySet
<1>4. c \in DOMAIN tab'.ws => Flatten(tab', c) = <<>>
  BY <1>1, <1>3, BlankFlat
<1> HIDE DEF c
<1>5. Retabled(tab', flat, flat', {c})
  BY <1>1, <1>2, <1>4 DEF Retabled, Put
<1> QED BY <1>1, <1>5 DEF Tabled

(* Fork takes its parent's, or none.                                        *)
LEMMA ForkTabled ==
  ASSUME Struct, NEW w \in LiveSets, Fork(w)
  PROVE  Tabled
<1> DEFINE c == used.sets + 1
<1>1. flat' = Put(flat, c, Flatten(tab', c)) /\ QuietBut(tab, tab', {c})
  BY ForkQuiet DEF Fork
<1>2. \A x \in DOMAIN tab'.ws : x # c => x \in DOMAIN flat
  BY <1>1 DEF QuietBut, Flags, Struct, InvFlat
<1> HIDE DEF c
<1>3. Retabled(tab', flat, flat', {c})
  BY <1>1, <1>2 DEF Retabled, Put
<1> QED BY <1>1, <1>3 DEF Tabled

(* Release leaves the others.                                               *)
LEMMA ReleaseTabled ==
  ASSUME Struct, Struct', SwapsNamed(tab), NEW w \in LiveSets, Release(w)
  PROVE  Tabled
<1>1. flat' = Without(flat, {w}) /\ QuietBut(tab, tab', {})
  BY ReleaseQuiet DEF Release, Calm
<1>2. DOMAIN tab'.ws = DOMAIN flat'
  BY DEF Struct, InvFlat
<1>3. Retabled(tab', flat, flat', {})
  BY <1>1, <1>2 DEF Retabled, Without
<1> QED BY <1>1, <1>3 DEF Tabled

(* Refreshed takes those of some sets again.                                *)
LEMMA RefreshTabled ==
  ASSUME Struct', NEW W, flat' = Refreshed(W, tab')
  PROVE  Retabled(tab', flat, flat', W)
<1>1. DOMAIN tab'.ws = DOMAIN flat'
  BY DEF Struct, InvFlat
<1> QED BY <1>1 DEF Retabled, Refreshed

(* Every step but those of moves does one of these.                         *)
LEMMA NextTabled ==
  ASSUME Struct, Struct', SwapsNamed(tab), SwapsLive(tab), SetStep \/ FireStep \/ CacheStep \/ UNCHANGED vars
  PROVE  Tabled
<1>0. Sound(tab)
  BY DEF Struct, InvTable
<1>1. CASE SetStep
  BY <1>1, CreateTabled, ForkTabled, ReleaseTabled DEF SetStep
<1>2. ASSUME NEW f \in DOMAIN fires, FirePrepare(f) PROVE Tabled
  <2>1. flat' = Refreshed({fires[f].ws}, tab') /\ QuietBut(tab, tab', {fires[f].ws})
    BY <1>2, FirePrepareQuiet DEF FirePrepare, PrepareWrite
  <2>2. Retabled(tab', flat, flat', {fires[f].ws})
    BY <2>1, RefreshTabled
  <2> QED BY <2>1, <2>2 DEF Tabled
<1>3. CASE PrepareStep
  <2>1. ASSUME NEW w, NEW start, NEW toks, Quote(w, start, toks)
        PROVE  Tabled
    <3>1. tab' = tab /\ flat' = flat
      BY <2>1 DEF Quote
    <3> QED BY <1>0, <3>1, QuietSame, CalmTabled
  <2>2. ASSUME NEW f, FireGivesUp(f) \/ FireRefused(f)
        PROVE  Tabled
    <3>1. tab' = tab /\ flat' = flat
      BY <2>2 DEF FireGivesUp, FireRefused
    <3> QED BY <1>0, <3>1, QuietSame, CalmTabled
  <2>3. ASSUME NEW f \in DOMAIN fires, NEW broken \in BOOLEAN, FireLost(f, broken)
        PROVE  Tabled
    <3>1. flat' = flat
      BY <2>3 DEF FireLost
    <3>2. Calm(tab, tab')
      BY <1>0, <2>3, FireLostStruct, QuietTended
    <3> QED BY <3>1, <3>2, CalmTabled
  <2> QED BY <1>2, <1>3, <2>1, <2>2, <2>3 DEF PrepareStep
<1>4. ASSUME NEW f \in DOMAIN fires, FireSubmit(f) PROVE Tabled
  <2>1. flat' = flat
    BY <1>4 DEF FireSubmit
  <2>2. Calm(tab, tab')
    BY <1>0, <1>4, FireSubmitStruct, QuietTended
  <2> QED BY <2>1, <2>2, CalmTabled
<1>5. ASSUME NEW f \in DOMAIN fires, NEW to \in {0, End(f)}, NEW decoded \in BOOLEAN, FireSettles(f, TRUE, to, decoded)
      PROVE  Tabled
  <2>1. fires[f].phase = "queued" /\ flat' = flat
    BY <1>5 DEF FireSettles
  <2>2. to \in Nat
    BY <1>5, <2>1, FireFacts
  <2>3. Calm(tab, tab')
    BY <1>0, <1>5, <2>2, FireSettlesStruct, QuietTended
  <2> QED BY <2>1, <2>3, CalmTabled
<1>6. ASSUME NEW f \in DOMAIN fires, FireSettles(f, FALSE, 0, FALSE)
      PROVE  Tabled
  <2>1. flat' = flat
    BY <1>6 DEF FireSettles
  <2>2. Calm(tab, tab')
    BY <1>0, <1>6, FireSettlesStruct, QuietTended
  <2> QED BY <2>1, <2>2, CalmTabled
<1>7. CASE FireStep
  BY <1>3, <1>4, <1>5, <1>6, <1>7 DEF FireStep
<1>8. CASE CacheStep
  <2>1. ASSUME NEW w \in LiveSets, NEW toks \in TokenSeqs(WholePages), Supply(w, toks)
        PROVE  Tabled
    <3>1. WholePages \in SUBSET Nat
      BY KvAssumption DEF WholePages
    <3>2. toks \in Seq(Tokens)
      BY <3>1, TokenLists
    <3>3. QuietBut(tab, tab', {w}) /\ flat' = Refreshed({w}, tab')
      BY <2>1, <3>2, SupplyQuiet DEF Supply, SupplyRun
    <3>4. Retabled(tab', flat, flat', {w})
      BY <3>3, RefreshTabled
    <3> QED BY <3>3, <3>4 DEF Tabled
  <2>2. ASSUME ReclaimCache \/ \E owner : DiscardCache(owner)
        PROVE  Tabled
    <3>1. flat' = flat
      BY <2>2 DEF ReclaimCache, DiscardCache
    <3> QED BY <2>2, <3>1, CacheQuiet, CalmTabled
  <2> QED BY <1>8, <2>1, <2>2 DEF CacheStep
<1>9. CASE UNCHANGED vars
  <2>1. tab' = tab /\ flat' = flat
    BY <1>9 DEF vars
  <2> QED BY <1>0, <2>1, QuietSame, CalmTabled
<1> QED BY <1>1, <1>7, <1>8, <1>9

FlatHere == FlatOk(tab, flat, moves, away)
FlatNext == FlatOk(tab', flat', moves', away')

(* A table that reads alike, with the same ids.                             *)
Alikely(t, u) ==
  /\ Sound(t) /\ Sound(u) /\ Alike(t, u) /\ DOMAIN u.ws = DOMAIN t.ws
  /\ \A w \in DOMAIN t.ws : u.ws[w].terminal = t.ws[w].terminal /\ u.ws[w].owner = t.ws[w].owner

(* A table that reads alike, with no more sets to guard.                    *)
LEMMA AlikeFlat ==
  ASSUME NEW t, NEW u, Alikely(t, u), NEW fl, NEW mv, NEW mv2, NEW A, NEW B, FlatOk(t, fl, mv, A),
         \A w \in DOMAIN t.ws : Guarded(t, mv2, B, w) => Guarded(t, mv, A, w)
  PROVE  FlatOk(u, fl, mv2, B)
<1>1. ASSUME NEW w \in DOMAIN u.ws, Guarded(u, mv2, B, w) PROVE Current(u, fl, w)
  <2>1. w \in DOMAIN t.ws /\ u.ws[w].owner = t.ws[w].owner /\ u.ws[w].terminal = t.ws[w].terminal /\ Sound(t) /\ Sound(u)
    BY DEF Alikely
  <2>2. Reads(t, w) \subseteq LiveLocations(t)
    BY <2>1, ReadsListed
  <2>3. SameReads(t, t.ws[w].terminal, u, u.ws[w].terminal)
    BY <2>1, <2>2 DEF Alikely, Alike, SameReads, Reads
  <2>4. Flatten(u, w) = Flatten(t, w)
    BY <2>1, <2>3, SameFlat
  <2>5. Current(t, fl, w)
    BY <1>1, <2>1 DEF Guarded, FlatOk
  <2> QED BY <2>4, <2>5 DEF Current
<1> QED BY <1>1 DEF FlatOk

(* A calm step with no flat table taken again.                              *)
LEMMA CalmFlat ==
  ASSUME NEW t, Sound(t), NEW u, Sound(u), Calm(t, u), NEW fl, NEW mv, NEW A, FlatOk(t, fl, mv, A)
  PROVE  FlatOk(u, fl, mv, A)
<1>1. QuietBut(t, u, {}) /\ Retabled(u, fl, fl, {})
  BY DEF Calm, Retabled
<1> QED BY <1>1, QuietFlat

(* The process p whose eviction begins ran until now.                       *)
LEMMA BegunGuards ==
  ASSUME NEW t, NEW mv, NEW k, NEW move, NEW mv2, Begun(mv, k, move, mv2), NEW A, NEW P, NEW w,
         Guarded(t, mv2, A \cup P, w), Guarding(move, w, t.ws[w].owner) => t.ws[w].owner \notin A
  PROVE  Guarded(t, mv, A, w)
<1>1. CASE t.ws[w].owner \notin A
  BY <1>1 DEF Guarded
<1>2. CASE t.ws[w].owner \in A
  <2>1. PICK m \in DOMAIN mv2 : Guarding(mv2[m], w, t.ws[w].owner)
    BY <1>2 DEF Guarded
  <2>2. m # k
    BY <1>2, <2>1 DEF Begun
  <2>3. m \in DOMAIN mv /\ mv2[m] = mv[m]
    BY <2>2 DEF Begun, Renewed
  <2> QED BY <2>1, <2>3 DEF Guarded
<1> QED BY <1>1, <1>2

(* A move that begins moves nothing yet.                                    *)
LEMMA OpenedFlat ==
  ASSUME Struct, FlatHere, NEW t, NEW k, NEW move, Opened(t, k, move), flat' = flat, NEW P, away' = away \cup P,
         \A w \in DOMAIN t.ws : Guarding(move, w, t.ws[w].owner) => t.ws[w].owner \notin away
  PROVE  FlatNext
<1>1. /\ Sound(t) /\ Calm(tab, t) /\ Begun(moves, k, move, moves') /\ Alikely(t, tab') /\ Sound(tab)
  BY DEF Opened, Moving, Alikely, Struct, InvTable
<1> DEFINE u == tab'
           mv2 == moves'
<1>2. Begun(moves, k, move, mv2) /\ Alikely(t, u)
  BY <1>1
<1> HIDE DEF u, mv2
<1>3. FlatOk(t, flat, moves, away)
  BY <1>1, CalmFlat DEF FlatHere
<1>4. ASSUME NEW w \in DOMAIN t.ws, Guarded(t, mv2, away \cup P, w) PROVE Guarded(t, moves, away, w)
  BY <1>2, <1>4, BegunGuards
<1>5. FlatOk(u, flat, mv2, away \cup P)
  BY <1>2, <1>3, <1>4, AlikeFlat
<1> QED BY <1>5 DEF FlatNext, u, mv2

(* PrepareSuspend keeps the flat tables of running sets current.            *)
LEMMA SuspendFlat ==
  ASSUME Struct, Struct', FlatHere, NEW p \in 1..MaxSets, PrepareSuspend(p)
  PROVE  FlatNext
<1>0. p \notin away /\ flat' = flat /\ Sound(tab) /\ Sound(tab')
  BY DEF PrepareSuspend, Struct, InvTable
<1>1. ASSUME NEW t, NEW k, NEW move, Opened(t, k, move), away' = away \cup {p},
             OutMove(move, p, SetsOf(p), Terminals(t, SetsOf(p)), Movable(t, SetsOf(p)))
      PROVE  FlatNext
  <2>1. \A w \in DOMAIN t.ws : Guarding(move, w, t.ws[w].owner) => t.ws[w].owner \notin away
    BY <1>0, <1>1 DEF Guarding, OutMove
  <2> QED BY <1>0, <1>1, <2>1, OpenedFlat
<1>2. ASSUME NEW t, Evicted(p, t, tab'), moves' = moves, away' = away \cup {p}
      PROVE  FlatNext
  <2>1. Sound(t) /\ Calm(tab, t) /\ Alikely(t, tab')
    BY <1>0, <1>2 DEF Evicted, Suspending, SetsAlike, Alikely
  <2>2. FlatOk(t, flat, moves, away)
    BY <1>0, <2>1, CalmFlat DEF FlatHere
  <2> DEFINE u == tab'
  <2>3. Alikely(t, u)
    BY <2>1
  <2> HIDE DEF u
  <2>4. \A w \in DOMAIN t.ws : Guarded(t, moves, away \cup {p}, w) => Guarded(t, moves, away, w)
    BY DEF Guarded
  <2>5. FlatOk(u, flat, moves, away \cup {p})
    BY <2>2, <2>3, <2>4, AlikeFlat
  <2> QED BY <1>0, <1>2, <2>5 DEF FlatNext, u
<1>3. CASE Calm(tab, tab') /\ UNCHANGED <<moves, away>>
  <2>1. FlatOk(tab', flat, moves, away)
    BY <1>0, <1>3, CalmFlat DEF FlatHere
  <2> QED BY <1>0, <1>3, <2>1 DEF FlatNext
<1> QED BY <1>1, <1>2, <1>3, SuspendOpens

(* So does every move that is of no process.                                *)
LEMMA PlainOpensFlat ==
  ASSUME Struct, FlatHere, NEW t, NEW k, NEW move, Opened(t, k, move), flat' = flat, away' = away, move.proc = 0
  PROVE  FlatNext
<1>1. \A w \in DOMAIN t.ws : Guarding(move, w, t.ws[w].owner) => t.ws[w].owner \notin away
  BY DEF Guarding
<1>2. away' = away \cup {}
  OBVIOUS
<1> QED BY <1>1, <1>2, OpenedFlat

(* PrepareSweep is one.                                                     *)
LEMMA SweepFlat ==
  ASSUME Struct, FlatHere, NEW back, PrepareSweep(back)
  PROVE  FlatNext
<1>1. flat' = flat /\ away' = away
  BY DEF PrepareSweep
<1>2. \E t, k, move : Opened(t, k, move) /\ move.proc = 0
  BY SweepOpens DEF OutMove
<1> QED BY <1>1, <1>2, PlainOpensFlat

(* PrepareDemote is one.                                                    *)
LEMMA DemoteFlat ==
  ASSUME Struct, FlatHere, PrepareDemote
  PROVE  FlatNext
<1>1. flat' = flat /\ away' = away
  BY DEF PrepareDemote
<1>2. \E k, move : Opened(tab, k, move) /\ move.proc = 0
  BY DemoteOpens DEF OutMove
<1> QED BY <1>1, <1>2, PlainOpensFlat

(* PrepareRestore keeps them current.                                       *)
LEMMA RestoreFlat ==
  ASSUME Struct, FlatHere, NEW p \in 1..MaxSets, PrepareRestore(p)
  PROVE  FlatNext
<1>1. flat' = flat /\ away' = away \cup {}
  BY DEF PrepareRestore
<1>2. PICK k, move : Opened(tab, k, move) /\ move.kind = "in" /\ move.proc = p /\ move.sets = SetsOf(p)
  BY RestoreOpens DEF InMove
<1>3. \A w \in DOMAIN tab.ws : Guarding(move, w, tab.ws[w].owner) => tab.ws[w].owner \notin away
  BY <1>2 DEF Guarding, SetsOf, LiveSets
<1> QED BY <1>1, <1>2, <1>3, OpenedFlat

(* So does PromotePrepare.                                                  *)
LEMMA PromoteFlat ==
  ASSUME Struct, MovesOk(tab, moves), RunsOk, FlatHere, NEW m \in DOMAIN moves, PromotePrepare(m)
  PROVE  FlatNext
<1>0. IdleMoves(moves)
  BY DEF MovesOk
<1>1. flat' = flat /\ away' = away
  BY DEF PromotePrepare
<1>2. PICK move : Opened(tab, m, move) /\ move.proc = moves[m].proc
  BY <1>0, PromoteOpens DEF InMove
<1>3. moves[m].kind = "quoted" /\ Fits(moves[m], used.sets)
  BY <1>0, PromoteOpens, RunFacts
<1>4. move.proc = 0
  BY <1>2, <1>3 DEF Fits
<1> QED BY <1>1, <1>2, <1>4, PlainOpensFlat

(* So does PromoteQuote.                                                    *)
LEMMA QuotedFlat ==
  ASSUME Struct, FlatHere, NEW w \in LiveSets, NEW toks, PromoteQuote(w, toks)
  PROVE  FlatNext
<1>1. PICK run, grant : /\ tab' = tab /\ moves' = Put(moves, used.moves + 1, QuotedMove(w, run, grant))
                        /\ Number("moves", MaxMoves) /\ away' = away /\ flat' = flat
  BY DEF PromoteQuote, QuoteRun, Begin, QuotedMove
<1> DEFINE move == QuotedMove(w, run, grant)
           k == used.moves + 1
           mv2 == moves'
<1>2. move.kind = "quoted"
  BY DEF QuotedMove, NoMove
<1>3. Begun(moves, k, move, mv2)
  BY <1>1, BegunNew DEF Struct
<1> HIDE DEF move, k, mv2
<1>4. ASSUME NEW x \in DOMAIN tab.ws, Guarded(tab, mv2, away \cup {}, x) PROVE Guarded(tab, moves, away, x)
  <2>1. ~Guarding(move, x, tab.ws[x].owner)
    BY <1>2 DEF Guarding
  <2> QED BY <1>3, <1>4, <2>1, BegunGuards
<1>5. FlatOk(tab, flat, mv2, away)
  BY <1>4 DEF FlatOk, FlatHere
<1> QED BY <1>1, <1>5 DEF FlatNext, mv2

(* So does PromoteGivesUp.                                                  *)
LEMMA GivenUpFlat ==
  ASSUME FlatHere, NEW m \in DOMAIN moves, PromoteGivesUp(m)
  PROVE  FlatNext
<1>1. tab' = tab /\ away' = away /\ flat' = flat /\ EndMove(m)
  BY DEF PromoteGivesUp
<1>2. Renewed(moves, m, moves') /\ m \notin DOMAIN moves'
  BY <1>1, EndedMoves
<1>3. \A w \in DOMAIN tab.ws : Guarded(tab, moves', away, w) => Guarded(tab, moves, away, w)
  BY <1>2 DEF Guarded, Renewed
<1> QED BY <1>1, <1>3 DEF FlatNext, FlatHere, FlatOk

(* The end of a move takes no page that w reads from under its ids.         *)
Untaken(t, locs, up, w) ==
  \A l \in Reads(t, w) : l \in locs =>
    \/ up = "same" \/ (up = "up" /\ ~OnDevice(Page(t, l).at))

(* A flat table stays current when the move that ends takes none of its     *)
(* pages.                                                                   *)
LEMMA ClosedCurrent ==
  ASSUME NEW t, Sound(t), NEW locs, NEW up, NEW S, NEW flag, NEW u, Closed(t, locs, up, S, flag, u), NEW w \in DOMAIN t.ws,
         Untaken(t, locs, up, w), NEW fl, Current(t, fl, w)
  PROVE  Current(u, fl, w)
<1> SUFFICES ASSUME fl[w] # Stale PROVE fl[w] = Flatten(u, w)
  BY DEF Current
<1>1. fl[w] = Flatten(t, w) /\ Flatten(t, w) # Stale
  BY DEF Current
<1>2. \A l \in Reads(t, w) : OnDevice(Page(t, l).at)
  BY <1>1, FlatOf
<1>3. /\ Sound(u) /\ w \in DOMAIN u.ws /\ Reads(u, w) = Reads(t, w)
      /\ Locations(u, u.ws[w].terminal) = Locations(t, t.ws[w].terminal)
  BY DEF Closed
<1>4. Reads(u, w) \subseteq LiveLocations(u)
  BY <1>3, ReadsListed
<1>5. ASSUME NEW l \in Reads(t, w) PROVE Page(u, l).at = Page(t, l).at
  <2>1. (l \notin locs => Page(u, l).at = Page(t, l).at) /\ (l \in locs => PutAt(t, l, up, u))
    BY <1>3, <1>4 DEF Closed
  <2>2. l \in locs => up = "same"
    BY <1>2 DEF Untaken
  <2> QED BY <2>1, <2>2 DEF PutAt
<1>6. SameReads(t, t.ws[w].terminal, u, u.ws[w].terminal)
  BY <1>3, <1>5 DEF SameReads, Reads
<1>7. Flatten(u, w) = Flatten(t, w)
  BY <1>3, <1>6, SameFlat
<1> QED BY <1>1, <1>7

(* So do all that are still guarded, or are taken again.                    *)
LEMMA ClosedFlat ==
  ASSUME Struct, FlatHere, NEW locs, NEW up, NEW S, NEW flag, Closed(tab, locs, up, S, flag, tab'),
         NEW R, Retabled(tab', flat, flat', R),
         \A w \in DOMAIN tab.ws : w \notin R /\ Guarded(tab, moves', away', w) =>
           Guarded(tab, moves, away, w) /\ Untaken(tab, locs, up, w)
  PROVE  FlatNext
<1> DEFINE u == tab'
           fl2 == flat'
           mv2 == moves'
           B == away'
<1>1. /\ Closed(tab, locs, up, S, flag, u) /\ Retabled(u, flat, fl2, R) /\ Sound(tab)
      /\ \A w \in DOMAIN tab.ws : w \notin R /\ Guarded(tab, mv2, B, w) =>
           Guarded(tab, moves, away, w) /\ Untaken(tab, locs, up, w)
  BY DEF Struct, InvTable
<1> HIDE DEF u, fl2, mv2, B
<1>2. ASSUME NEW w \in DOMAIN u.ws, Guarded(u, mv2, B, w) PROVE Current(u, fl2, w)
  <2>1. CASE w \in R
    BY <1>1, <2>1 DEF Retabled, Current
  <2>2. CASE w \notin R
    <3>1. w \in DOMAIN tab.ws /\ u.ws[w].owner = tab.ws[w].owner /\ fl2[w] = flat[w]
      BY <1>1, <2>2 DEF Closed, Retabled
    <3>2. Guarded(tab, moves, away, w) /\ Untaken(tab, locs, up, w)
      BY <1>1, <1>2, <2>2, <3>1 DEF Guarded
    <3>3. Current(tab, flat, w)
      BY <3>1, <3>2 DEF FlatHere, FlatOk
    <3>4. Current(u, flat, w)
      BY <1>1, <3>1, <3>2, <3>3, ClosedCurrent
    <3> QED BY <3>1, <3>4 DEF Current
  <2> QED BY <2>1, <2>2
<1>3. FlatOk(u, fl2, mv2, B)
  BY <1>2 DEF FlatOk
<1> QED BY <1>3 DEF FlatNext, u, fl2, mv2, B

(* A set guarded after the end of a move runs, or another move guards it.   *)
LEMMA RenewedGuards ==
  ASSUME NEW t, NEW mv, NEW m, NEW mv2, Renewed(mv, m, mv2), NEW A, NEW w, Guarded(t, mv2, A, w),
         m \in DOMAIN mv2 => mv2[m].proc = 0
  PROVE  t.ws[w].owner \notin A \/ \E n \in DOMAIN mv : n # m /\ Guarding(mv[n], w, t.ws[w].owner)
BY DEF Guarded, Renewed, Guarding

(* An end that leaves pages, or brings some up, keeps them current.         *)
LEMMA PlainClosesFlat ==
  ASSUME Struct, FlatHere, NEW m \in DOMAIN moves, NEW up, NEW flag,
         Closed(tab, LocsIn(moves[m]), up, {}, flag, tab'), up = "same" \/ (up = "up" /\ moves[m].kind = "in" /\ MovesOk(tab, moves)),
         Renewed(moves, m, moves'), m \in DOMAIN moves' => moves'[m].proc = 0, flat' = flat, away' = away
  PROVE  FlatNext
<1>1. Retabled(tab', flat, flat', {})
  BY DEF Retabled
<1>2. ASSUME NEW w \in DOMAIN tab.ws, Guarded(tab, moves', away', w)
      PROVE  Guarded(tab, moves, away, w) /\ Untaken(tab, LocsIn(moves[m]), up, w)
  <2>1. Guarded(tab, moves, away, w)
    BY <1>2, RenewedGuards DEF Guarded
  <2>2. Reads(tab, w) \subseteq LiveLocations(tab)
    BY ReadsListed DEF Struct, InvTable
  <2>3. ASSUME up = "up", NEW l \in Reads(tab, w), l \in LocsIn(moves[m]) PROVE ~OnDevice(Page(tab, l).at)
    <3>1. PICK p \in moves[m].pages : p.loc = l
      BY <2>3 DEF LocsIn
    <3>2. Page(tab, l).at = Host(p.slot)
      BY <2>2, <2>3, <3>1 DEF MovesOk, InPlace, Where, InSlot
    <3> QED BY <3>2 DEF OnDevice, Host
  <2> QED BY <2>1, <2>3 DEF Untaken
<1> QED BY <1>1, <1>2, ClosedFlat

(* AbortIn and the last reader of a run do.                                 *)
LEMMA AbortInFlat ==
  ASSUME Struct, FlatHere, NEW m \in DOMAIN moves, AbortIn(m) \/ ReleaseReader(m)
  PROVE  FlatNext
<1>1. Closed(tab, LocsIn(moves[m]), "same", {}, TRUE, tab') /\ EndMove(m) /\ away' = away /\ flat' = flat
  BY AbortCloses DEF AbortIn, ReleaseReader
<1>2. Renewed(moves, m, moves') /\ m \notin DOMAIN moves'
  BY <1>1, EndedMoves
<1> QED BY <1>1, <1>2, PlainClosesFlat

(* CommitPromote does.                                                      *)
LEMMA CommitPromoteFlat ==
  ASSUME Struct, MovesOk(tab, moves), FlatHere, NEW m \in DOMAIN moves, CommitPromote(m)
  PROVE  FlatNext
<1>1. /\ Closed(tab, LocsIn(moves[m]), "up", {}, TRUE, tab') /\ away' = away /\ flat' = flat /\ moves[m].kind = "in"
      /\ moves' = [moves EXCEPT ![m] = ReaderOf(moves[m])]
  BY CommitPromoteCloses DEF CommitPromote, ReaderOf
<1>2. ReaderOf(moves[m]).proc = 0
  BY DEF ReaderOf, NoMove
<1>3. Renewed(moves, m, moves') /\ moves'[m].proc = 0
  BY <1>1, <1>2 DEF Renewed
<1> QED BY <1>1, <1>3, PlainClosesFlat

(* AbortOut does.                                                           *)
LEMMA AbortOutFlat ==
  ASSUME Struct, RunsOk, FlatHere, NEW m \in DOMAIN moves, AbortOut(m)
  PROVE  FlatNext
<1>1. /\ Closed(tab, LocsIn(moves[m]), "same", {}, TRUE, tab') /\ EndMove(m) /\ flat' = flat
      /\ away' = away \ {moves[m].proc} /\ moves[m].kind = "out"
  BY AbortCloses DEF AbortOut
<1>2. Renewed(moves, m, moves') /\ m \notin DOMAIN moves'
  BY <1>1, EndedMoves
<1>3. Retabled(tab', flat, flat', {})
  BY <1>1 DEF Retabled
<1>4. 0 \notin away
  BY RunFacts
<1>5. ASSUME NEW w \in DOMAIN tab.ws, Guarded(tab, moves', away', w)
      PROVE  Guarded(tab, moves, away, w) /\ Untaken(tab, LocsIn(moves[m]), "same", w)
  <2>1. tab.ws[w].owner \notin away' \/ \E n \in DOMAIN moves : n # m /\ Guarding(moves[n], w, tab.ws[w].owner)
    BY <1>2, <1>5, RenewedGuards
  <2>2. tab.ws[w].owner \notin away' => tab.ws[w].owner \notin away \/ Guarding(moves[m], w, tab.ws[w].owner)
    BY <1>1, <1>4 DEF Guarding
  <2> QED BY <2>1, <2>2 DEF Guarded, Untaken
<1> QED BY <1>1, <1>3, <1>5, ClosedFlat

(* CommitRestore takes those of the sets it restored again.                 *)
LEMMA CommitRestoreFlat ==
  ASSUME Struct, Struct', MovesOk(tab, moves), RunsOk, FlatHere, NEW m \in DOMAIN moves, CommitRestore(m)
  PROVE  FlatNext
<1> DEFINE move == moves[m]
           S == move.sets \cap LiveSets
<1>1. /\ Closed(tab, LocsIn(move), "up", S, FALSE, tab') /\ EndMove(m) /\ flat' = Refreshed(S, tab')
      /\ away' = away \ {move.proc} /\ move.kind = "in" /\ move.ws = 0
  BY CommitRestoreCloses DEF CommitRestore
<1>2. Renewed(moves, m, moves') /\ m \notin DOMAIN moves'
  BY <1>1, EndedMoves
<1>3. Retabled(tab', flat, flat', S)
  BY <1>1, RefreshTabled
<1>4. 0 \notin away
  BY RunFacts
<1>5. ASSUME NEW w \in DOMAIN tab.ws, w \notin S, Guarded(tab, moves', away', w)
      PROVE  Guarded(tab, moves, away, w) /\ Untaken(tab, LocsIn(move), "up", w)
  <2>1. tab.ws[w].owner \notin away' \/ \E n \in DOMAIN moves : n # m /\ Guarding(moves[n], w, tab.ws[w].owner)
    BY <1>2, <1>5, RenewedGuards
  <2>2. tab.ws[w].owner \notin away' => tab.ws[w].owner \notin away \/ Guarding(move, w, tab.ws[w].owner)
    BY <1>1, <1>4, <1>5 DEF Guarding, LiveSets
  <2>3. Reads(tab, w) \subseteq LiveLocations(tab)
    BY ReadsListed DEF Struct, InvTable
  <2>4. ASSUME NEW l \in Reads(tab, w), l \in LocsIn(move) PROVE ~OnDevice(Page(tab, l).at)
    <3>1. PICK p \in move.pages : p.loc = l
      BY <2>4 DEF LocsIn
    <3>2. Page(tab, l).at = Host(p.slot)
      BY <1>1, <2>3, <2>4, <3>1 DEF MovesOk, InPlace, Where, InSlot
    <3> QED BY <3>2 DEF OnDevice, Host
  <2> QED BY <2>1, <2>2, <2>4 DEF Guarded, Untaken
<1> QED BY <1>1, <1>3, <1>5, ClosedFlat

(* CommitOut takes pages only of sets that no longer run.                   *)
LEMMA CommitOutFlat ==
  ASSUME Struct, Struct', MovesOk(tab, moves), RunsOk, FlatHere, NEW m \in DOMAIN moves, CommitOut(m)
  PROVE  FlatNext
<1> DEFINE move == moves[m]
           S == move.sets \cap LiveSets
<1>1. /\ Closed(tab, LocsIn(move), "down", S, TRUE, tab') /\ EndMove(m) /\ flat' = Refreshed(S, tab')
      /\ away' = away /\ move.kind = "out"
  BY CommitOutCloses DEF CommitOut
<1>2. Renewed(moves, m, moves') /\ m \notin DOMAIN moves'
  BY <1>1, EndedMoves
<1>3. Retabled(tab', flat, flat', S)
  BY <1>1, RefreshTabled
<1>4. ASSUME NEW w \in DOMAIN tab.ws, w \notin S, Guarded(tab, moves', away', w)
      PROVE  Guarded(tab, moves, away, w) /\ Untaken(tab, LocsIn(move), "down", w)
  <2>1. tab.ws[w].owner \notin away \/ \E n \in DOMAIN moves : n # m /\ Guarding(moves[n], w, tab.ws[w].owner)
    BY <1>1, <1>2, <1>4, RenewedGuards
  <2>2. LocsIn(move) \subseteq tab.swaps
    BY InSwaps
  <2>3. CASE tab.ws[w].owner \notin away
    <3>1. HomeBut(tab, w, {})
      BY <2>3 DEF RunsOk, Running, RunSets
    <3> QED BY <2>2, <2>3, <3>1 DEF Guarded, Untaken, HomeBut, Rests
  <2>4. ASSUME NEW n \in DOMAIN moves, n # m, Guarding(moves[n], w, tab.ws[w].owner)
        PROVE  Untaken(tab, LocsIn(move), "down", w)
    <3>1. RunOf(tab, away, moves[n])
      BY RunFacts
    <3>2. HomeBut(tab, w, LocsIn(moves[n]))
      BY <2>4, <3>1 DEF RunOf, RunOut, RunIn, Guarding
    <3>3. LocsIn(moves[n]) \cap LocsIn(move) = {}
      BY <2>4 DEF MovesOk, Apart
    <3> QED BY <2>2, <3>2, <3>3 DEF Untaken, HomeBut, Rests
  <2> QED BY <2>1, <2>3, <2>4 DEF Guarded
<1> QED BY <1>1, <1>3, <1>4, ClosedFlat

(* Every step but those of moves keeps them current.                        *)
LEMMA QuietStepFlat ==
  ASSUME MovesInv, Struct', FlatHere, SetStep \/ FireStep \/ CacheStep \/ UNCHANGED vars
  PROVE  FlatNext
<1>1. Struct /\ SwapsNamed(tab) /\ SwapsLive(tab)
  BY SwapsAreNamed DEF MovesInv, MovesOk
<1>2. UNCHANGED <<moves, away>>
  BY <1>1, NextQuiet
<1>3. Tabled
  BY <1>1, NextTabled
<1>4. PICK W : QuietBut(tab, tab', W) /\ Retabled(tab', flat, flat', W)
  BY <1>3 DEF Tabled
<1>5. Sound(tab) /\ Sound(tab')
  BY <1>1 DEF Struct, InvTable
<1>6. FlatOk(tab', flat', moves, away)
  BY <1>4, <1>5, QuietFlat DEF FlatHere
<1> QED BY <1>2, <1>6 DEF FlatNext

(* So does every step of a move.                                            *)
LEMMA MoveStepFlat ==
  ASSUME MovesInv, Struct', FlatHere, MoveStep
  PROVE  FlatNext
<1>1. Struct /\ MovesOk(tab, moves) /\ RunsOk
  BY DEF MovesInv
<1>2. ASSUME NEW p \in 1..MaxSets, PrepareSuspend(p) \/ PrepareRestore(p)
      PROVE  FlatNext
  BY <1>1, <1>2, SuspendFlat, RestoreFlat
<1>3. ASSUME NEW w \in LiveSets, NEW toks, PromoteQuote(w, toks)
      PROVE  FlatNext
  BY <1>1, <1>3, QuotedFlat
<1>4. ASSUME NEW m \in DOMAIN moves, CommitOut(m) \/ AbortOut(m) \/ CommitRestore(m) \/ AbortIn(m) \/ ReleaseReader(m)
      PROVE  FlatNext
  BY <1>1, <1>4, CommitOutFlat, AbortOutFlat, CommitRestoreFlat, AbortInFlat
<1>5. ASSUME NEW m \in DOMAIN moves, PromotePrepare(m) \/ PromoteGivesUp(m) \/ CommitPromote(m)
      PROVE  FlatNext
  BY <1>1, <1>5, PromoteFlat, GivenUpFlat, CommitPromoteFlat
<1>6. ASSUME NEW back, PrepareSweep(back) PROVE FlatNext
  BY <1>1, <1>6, SweepFlat
<1>7. ASSUME PrepareDemote PROVE FlatNext
  BY <1>1, <1>7, DemoteFlat
<1> QED BY <1>2, <1>3, <1>4, <1>5, <1>6, <1>7 DEF MoveStep

(* So they are current always.                                              *)
LEMMA AlwaysFlat == Spec => [](MovesInv /\ FlatHere)
<1>1. Init => MovesInv /\ FlatHere
  <2>1. Init => DOMAIN tab.ws = {}
    BY DEF Init, EmptyTable
  <2> QED BY <2>1, InitStruct, InitMoves, InitRuns DEF MovesInv, FlatHere, FlatOk
<1>2. MovesInv /\ FlatHere /\ [Next]_vars => (MovesInv /\ FlatHere)'
  <2>1. MovesInv /\ [Next]_vars => MovesInv'
    BY NextStruct, NextMoves, NextRuns DEF MovesInv
  <2>2. MovesInv' => Struct'
    BY DEF MovesInv
  <2>3. MovesInv /\ FlatHere /\ [Next]_vars => FlatNext
    BY <2>1, <2>2, QuietStepFlat, MoveStepFlat DEF Next
  <2>4. FlatNext => FlatHere'
    BY DEF FlatNext, FlatHere
  <2> QED BY <2>1, <2>3, <2>4
<1> QED BY <1>1, <1>2, PTL DEF Spec

(* FlatIsCurrent for every instance: the flat translation kept for a set of *)
(* a running process, across awaits, forks and moves, is the one the page   *)
(* table gives, or none (kv.rs, refresh_flat and flat_table).                      *)
THEOREM FlatAlwaysCurrent == Spec => []FlatIsCurrent
<1>1. ASSUME MovesInv, FlatHere PROVE FlatIsCurrent
  <2>1. Sound(tab)
    BY <1>1 DEF MovesInv, Struct, InvTable
  <2>2. ASSUME NEW w \in LiveSets
        PROVE  /\ Len(Locations(tab, tab.ws[w].terminal)) = tab.ws[w].mapped
               /\ flat[w] # Stale /\ ~IsAway(w) => flat[w] = Flatten(tab, w)
    <3>1. w \in DOMAIN tab.ws
      BY <2>2 DEF LiveSets
    <3>2. Len(Locations(tab, tab.ws[w].terminal)) = tab.ws[w].mapped
      BY <2>1, <3>1, ReadsListed
    <3>3. ~IsAway(w) => Guarded(tab, moves, away, w)
      BY DEF IsAway, Guarded
    <3>4. Guarded(tab, moves, away, w) => Current(tab, flat, w)
      BY <1>1, <3>1 DEF FlatHere, FlatOk
    <3> QED BY <3>2, <3>3, <3>4 DEF Current
  <2> QED BY <2>2 DEF FlatIsCurrent
<1> QED BY <1>1, AlwaysFlat, PTL
=============================================================================
