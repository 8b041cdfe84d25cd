------------------------------ MODULE KvStore ------------------------------
(***************************************************************************)
(* The KV store (store/kv.rs) over the trie of pages, with the fires that  *)
(* write into working sets (pipeline/fire.rs), the cache of what released  *)
(* working sets had sealed, and the moves of pages between the device and  *)
(* the tier below it.                                                      *)
(*                                                                         *)
(* Every operation holds the store's lock once, so it is one step; a fire  *)
(* takes several, with awaits between them: it quotes its demand and waits *)
(* for its grant, prepares the pages it writes, is submitted, and settles  *)
(* once the engine has run it. Shared pages are copied before they are     *)
(* written; the copies are made by the engine ahead of the fire.           *)
(*                                                                         *)
(* The disk tier is one with the host tier: slots, filled host first. The  *)
(* retention policy's keys are external: taken as all equal and without    *)
(* steps. Page reservations are taken ahead, so page_len never refuses.    *)
(***************************************************************************)
EXTENDS KvPageTable

CONSTANTS
  Tokens,      \* tokens a fire may write
  PageSize,    \* tokens per page
  NumPages,    \* device pages
  NumSlots,    \* slots of the tier below the device
  MaxSets,     \* bound on the working sets ever created
  MaxFires,    \* bound on the fires ever quoted
  MaxRows,     \* bound on the rows of one fire
  MaxLen,      \* bound on the tokens of a working set
  MaxMoves,    \* bound on the moves ever prepared
  Rewrites,    \* whether fires write again slots past the folded prefix
  Refusals     \* how a prepared fire may fail to be submitted: "stale", "late"

ASSUME KvAssumption ==
  /\ {PageSize, NumPages, MaxRows} \subseteq Nat \ {0}
  /\ {NumSlots, MaxSets, MaxFires, MaxLen, MaxMoves} \subseteq Nat
  /\ Rewrites \in BOOLEAN
  /\ Refusals \subseteq {"stale", "late"}

VARIABLES
  tab,          \* KvStore::table
  free,         \* KvStore::pool, Pool::free
  pending,      \* Pool::pending, as pairs <<epoch, page>>
  slots,        \* free slots below the device (host_pool)
  flat,         \* KvStore::flat: working set -> page ids, or Stale
  cache,        \* KvStore::cache: [root, owner, decoded] -> how many entries are so
  seq,          \* KvStore::seq
  outstanding,  \* KvStore::outstanding
  fires,        \* fires under way, by their number
  moves,        \* moves and held runs, by their number
  away,         \* processes being evicted, evicted or being restored
  used          \* how many sets, fires and moves there have been: their numbers

pool == <<free, pending>>
epochs == <<seq, outstanding>>
vars == <<tab, pool, slots, flat, cache, epochs, fires, moves, away, used>>

DevicePages == 1..NumPages
Slots == 1..NumSlots
Stale == <<0>>   \* no page has number 0

Init ==
  /\ tab = EmptyTable
  /\ free = DevicePages
  /\ pending = {}
  /\ slots = Slots
  /\ flat = <<>>
  /\ cache = <<>>
  /\ seq = 0
  /\ outstanding = {}
  /\ fires = <<>>
  /\ moves = <<>>
  /\ away = {}
  /\ used = [sets |-> 0, fires |-> 0, moves |-> 0]
-----------------------------------------------------------------------------
LiveSets == DOMAIN tab.ws

(* The sets of a process are registered with it (ProcessResidency). From the *)
(* start of its eviction to the end of its restore they are fenced, and its *)
(* host calls wait at the residency gate.                                   *)
SetsOf(p) == {w \in LiveSets : tab.ws[w].owner = p}
IsAway(w) == tab.ws[w].owner \in away

(* A fire that was lost holds nothing any more but its epoch. *)
FiresOf(w) == {f \in DOMAIN fires : fires[f].ws = w /\ fires[f].phase # "lost"}

(* A slip: a fire's lease ends when it is submitted. *)
LeasedToSubmit(w) ==
  \/ \E f \in FiresOf(w) : fires[f].phase = "prepared"
  \/ \E m \in DOMAIN moves : moves[m].ws = w /\ moves[m].kind # "quoted"

(* A fire holds its lease from its preparation to its end, and so does a     *)
(* promotion until what it brought up is mapped in.                          *)
Leased(w) ==
  \/ \E f \in FiresOf(w) : fires[f].phase # "granted"
  \/ \E m \in DOMAIN moves : moves[m].ws = w /\ moves[m].kind # "quoted"

(* The fires of its pipeline submitted before f. *)
Earlier(f) == UNION {{g \in FiresOf(w) : g < f} : w \in SetsOf(tab.ws[fires[f].ws].owner)}

(* A guest has one host call at a time: a pass on its way to the scheduler, *)
(* with its promotion, keeps its process from forking or dropping a set.    *)
Passing(p) ==
  \E w \in SetsOf(p) : \E f \in FiresOf(w) : fires[f].phase \in {"granted", "prepared"}

Calling(p) == Passing(p) \/ \E m \in DOMAIN moves : moves[m].ws \in SetsOf(p)

(* The nodes that moves and held runs name, besides those pinned: ids that  *)
(* must not come to mean another node.                                      *)
Named == UNION {{p.loc[1] : p \in moves[m].pages} \cup moves[m].pinned
                  \cup {l[1] : l \in ToSet(moves[m].run)} : m \in DOMAIN moves}

(* The pool hands out by position; pages are alike, so by number. *)
Lowest(n, S) == CHOOSE T \in SUBSET S :
                  Cardinality(T) = n /\ \A x \in T, y \in S \ T : x < y

OneByOne(S) == SetToSeq(S)

DeviceOf(backings) == {b[2] : b \in {b \in backings : OnDevice(b)}}
SlotsOf(backings) == {b[2] : b \in {b \in backings : ~OnDevice(b)}}

(* flatten, Stale where a page is not on the device. *)
FlatIds(t, locs) ==
  IF \E l \in ToSet(locs) : ~OnDevice(Page(t, l).at) THEN Stale
  ELSE [i \in DOMAIN locs |-> Page(t, locs[i]).at[2]]

Flatten(t, w) == FlatIds(t, WsLocations(t, w))

(* flat_table and refresh_flat *)
FlatTable(w) == IF flat[w] = Stale THEN Flatten(tab, w) ELSE flat[w]

(* A slip: a table that is there is kept. *)
RefreshedIfStale(S, t) ==
  [w \in LiveSets |-> IF w \in S /\ flat[w] = Stale THEN Flatten(t, w) ELSE flat[w]]

Refreshed(S, t) == [w \in LiveSets |-> IF w \in S THEN Flatten(t, w) ELSE flat[w]]

(* A slip: pages given up at the oldest epoch outstanding are free. *)
DueEarly(pend, out) == {e \in pend : \A o \in out : e[1] <= o}

(* retire_idle, and recycle_backings before it. *)
Due(pend, out) == {e \in pend : \A o \in out : e[1] < o}

Retire(pend, out, more) ==
  /\ pending' = pend \ Due(pend, out)
  /\ free' = more \cup {e[2] : e \in Due(pend, out)}

Recycled(epoch, backings) == pending \cup ({epoch} \X DeviceOf(backings))

(* What an operation let go is given back at the current epoch; `back` goes *)
(* straight to the free list (release_reserved).                            *)
GiveBack(r, back) ==
  /\ tab' = r.t
  /\ slots' = slots \cup SlotsOf(r.freed)
  /\ Retire(Recycled(seq, r.freed), outstanding, free \cup back)
-----------------------------------------------------------------------------
(* Working sets *)

EmptySet(w) ==
  [terminal |-> NoNode, mapped |-> 0, suspended |-> FALSE, folded |-> 0,
   prompt |-> 0, logged |-> <<>>, cuts |-> {}, tail |-> 0, owner |-> w,
   failed |-> FALSE]

Number(kind, max) == used[kind] < max /\ used' = [used EXCEPT ![kind] = @ + 1]

(* create_working_set, of another process; its further sets are forks. *)
Create ==
  LET w == used.sets + 1
  IN
  /\ Number("sets", MaxSets)
  /\ tab' = [tab EXCEPT !.ws = Put(@, w, EmptySet(w))]
  /\ flat' = Put(flat, w, <<>>)
  /\ UNCHANGED <<pool, slots, cache, epochs, fires, moves, away>>

(* fork: the child knows what the log does, short of what fires under way   *)
(* may change. The call has passed the residency gate, but an eviction may  *)
(* have begun, or ended, since: nothing here asks.                          *)
Known(e) == SubSeq(e.logged, 1, Min({Len(e.logged)} \cup {c[2] : c \in e.cuts}))

Fork(w) ==
  LET c == used.sets + 1
      e == tab.ws[w]
      child == [e EXCEPT !.logged = Known(e), !.cuts = {}, !.suspended = FALSE]
      entered == [tab EXCEPT !.ws = Put(@, c, child)]
  IN
  /\ ~e.failed
  /\ ~Calling(e.owner)
  /\ Number("sets", MaxSets)
  /\ tab' = AddAnchors(entered, {e.terminal} \ {NoNode})
  /\ flat' = Put(flat, c, Flatten(tab', c))
  /\ UNCHANGED <<pool, slots, cache, epochs, fires, moves, away>>

(* keep: the first `pages` of w become an entry of the cache. *)
KeptAt(at, r, owner, decoded) ==
  [t |-> LeaseRoot(at.t, at.node),
   cache |-> Hold(r.cache, {[root |-> at.node, owner |-> owner, decoded |-> decoded]})]

Keep(r, w, pages, decoded) ==
  KeptAt(BoundaryTerminal(r.t, tab.ws[w].terminal, pages, Named), r, tab.ws[w].owner, decoded)

(* keep_sealed_prefix: the prompt's pages, then all that is sealed. *)
KeepAll(first, w, all, prompt) ==
  IF all > prompt THEN Keep(first, w, all, TRUE) ELSE first

KeepSealedPrefix(w) ==
  LET all == SealedResidentPrefix(tab, w)
      prompt == Min({tab.ws[w].prompt, all})
      none == [t |-> tab, cache |-> cache]
  IN  KeepAll(IF prompt > 0 THEN Keep(none, w, prompt, FALSE) ELSE none, w, all, prompt)

(* release_working_set and retire_idle, once nothing leases it. *)
ReleaseKeeping(w, kept) ==
  /\ cache' = kept.cache
  /\ GiveBack(RemoveWs(kept.t, w), {})

Release(w) ==
  /\ FiresOf(w) = {}
  /\ ~Calling(tab.ws[w].owner)
  /\ ReleaseKeeping(w, KeepSealedPrefix(w))
  /\ flat' = Without(flat, {w})
  /\ UNCHANGED <<epochs, fires, moves, away, used>>
-----------------------------------------------------------------------------
(* Fires *)

PageAt(slot) == slot \div PageSize          \* 0-based page of a 0-based slot
PagesUpTo(end) == (end + PageSize - 1) \div PageSize

(* copied_before_write: pages of the written span someone else reads too.   *)
(* classify_write copies the mapping from the first of them on.             *)
FirstShared(t, locs, start, end) ==
  Min({Len(locs) + 1} \cup
      {i \in (PageAt(start) + 1)..Min({PagesUpTo(end), Len(locs)}) :
         PageReaders(t, locs[i]) # 1})

CopyFrom(t, w, start, end) == FirstShared(t, WsLocations(t, w), start, end)

(* kv_demand: the copies and the pages not mapped yet. *)
Demand(t, w, start, end) ==
  (t.ws[w].mapped + 1 - CopyFrom(t, w, start, end))
    + Max({0, PagesUpTo(end) - t.ws[w].mapped})

(* A pass writes on from the cursor's tail, or over slots not yet folded.   *)
Starts(e) == IF Rewrites THEN e.folded..e.tail ELSE {e.tail}

(* The demand is quoted and granted; prepare follows after the await. *)
Quote(w, start, toks) ==
  LET need == Demand(tab, w, start, start + Len(toks))
  IN
  /\ ~IsAway(w)
  /\ ~tab.ws[w].failed
  /\ ~Calling(tab.ws[w].owner)
  /\ start + Len(toks) <= MaxLen
  /\ need <= Cardinality(free)
  /\ Number("fires", MaxFires)
  /\ free' = free \ Lowest(need, free)
  /\ fires' = Put(fires, used.fires + 1,
                  [ws |-> w, start |-> start, toks |-> toks, grant |-> free \ free',
                   phase |-> "granted", seq |-> 0, copies |-> {}, pages |-> <<>>])
  /\ UNCHANGED <<tab, pending, slots, flat, cache, epochs, moves, away>>

End(f) == fires[f].start + Len(fires[f].toks)

(* Its set is fenced, or its demand outgrew its grant, or its pages are     *)
(* off the device: the grant goes back and the pass starts again.           *)
FireGivesUp(f) ==
  LET w == fires[f].ws
  IN
  /\ fires[f].phase = "granted"
  /\ \/ IsAway(w)
     \/ Demand(tab, w, fires[f].start, End(f)) > Cardinality(fires[f].grant)
     \/ FlatTable(w) = Stale
  /\ free' = free \cup fires[f].grant
  /\ fires' = Without(fires, {f})
  /\ UNCHANGED <<tab, pending, slots, flat, cache, epochs, moves, away, used>>

(* What the copies replace, and the mapping with the copies in: each keeps  *)
(* the key of the page it copies (realize_written_reserved). Then           *)
(* ensure_backed_reserved maps the pages of the span not mapped yet.        *)
Copied(t, w, locs, from, ids) ==
  IF from > Len(locs) THEN Result(t, {})
  ELSE ReplaceTail(t, w, from - 1,
         [i \in 1..(Len(locs) + 1 - from) |->
            [at |-> Device(ids[i]), key |-> Page(t, locs[from + i - 1]).key]], Named)

Backed(r, w, ids) ==
  Then(r, PublishAppended(r.t, w,
            [i \in DOMAIN ids |-> [at |-> Device(ids[i]), key |-> NoKey]], Named))

Published(r, epoch) ==
  /\ tab' = r.t
  /\ pending' = Recycled(epoch, r.freed)
  /\ slots' = slots \cup SlotsOf(r.freed)

(* A slip: the last page of the span is not copied. *)
CopyPlanShort(old, from, ids, n) == {<<old[from + i - 1], ids[i]>> : i \in 1..(n - 1)}

(* copy_plan: old pages from `from` on, each into a page of ids. *)
CopyPlan(old, from, ids, n) == {<<old[from + i - 1], ids[i]>> : i \in 1..n}

(* prepare_host_kv_reserved: `old` is the mapping, copied from `from` on    *)
(* into the first of ids.                                                   *)
PrepareWrite(f, w, old, from, ids) ==
  LET copies == Len(old) + 1 - from
      epoch == IF copies > 0 THEN seq + 1 ELSE seq
  IN
  /\ Published(Backed(Copied(tab, w, WsLocations(tab, w), from, ids), w,
                      SubSeq(ids, copies + 1, Len(ids))), epoch)
  /\ flat' = Refreshed({w}, tab')
  /\ seq' = epoch
  /\ outstanding' = IF copies > 0 THEN outstanding \cup {epoch} ELSE outstanding
  /\ fires' = [fires EXCEPT ![f].phase = "prepared",
                            ![f].grant = @ \ ToSet(ids),
                            ![f].seq = IF copies > 0 THEN epoch ELSE 0,
                            ![f].copies = CopyPlan(old, from, ids, copies)]

FirePrepare(f) ==
  LET w == fires[f].ws
      need == Demand(tab, w, fires[f].start, End(f))
  IN
  /\ fires[f].phase = "granted"
  /\ ~IsAway(w)
  /\ need <= Cardinality(fires[f].grant)
  /\ FlatTable(w) # Stale
  /\ PrepareWrite(f, w, FlatTable(w), CopyFrom(tab, w, fires[f].start, End(f)),
                  OneByOne(Lowest(need, fires[f].grant)))
  /\ UNCHANGED <<free, cache, moves, away, used>>

(* KvStore::settle; a fire that copied nothing (0) has no epoch to settle.  *)
(* What is left of its grant (`back`) is dropped with it.                   *)
Settle(epoch, back) ==
  IF epoch = 0 THEN free' = free \cup back /\ UNCHANGED <<pending, epochs>>
  ELSE /\ outstanding' = outstanding \ {epoch}
       /\ Retire(pending, outstanding \ {epoch}, free \cup back)
       /\ UNCHANGED seq

(* A prepared fire that is not submitted: its start is in the frozen prefix *)
(* by now, or (stale) the recurrent state or another set of the pass no     *)
(* longer fits the grant. The guards settle its epoch; the copies are never *)
(* made.                                                                    *)
FireRefused(f) ==
  /\ fires[f].phase = "prepared"
  /\ fires[f].start < tab.ws[fires[f].ws].folded \/ "stale" \in Refusals
  /\ Settle(fires[f].seq, fires[f].grant)
  /\ fires' = Without(fires, {f})
  /\ UNCHANGED <<tab, slots, flat, cache, moves, away, used>>

(* log_begin, the pages of its lanes mapped, and the fire is the            *)
(* scheduler's, with its copies.                                            *)
FireSubmit(f) ==
  LET w == fires[f].ws
  IN
  /\ fires[f].phase = "prepared"
  /\ fires[f].start >= tab.ws[w].folded
  /\ tab' = [tab EXCEPT !.ws[w].cuts = @ \cup {<<f, fires[f].start>>},
                        !.ws[w].tail = End(f)]
  /\ fires' = [fires EXCEPT ![f].phase = "queued", ![f].pages = flat[w], ![f].grant = {}]
  /\ free' = free \cup fires[f].grant
  /\ UNCHANGED <<pending, slots, flat, cache, epochs, moves, away, used>>

(* The sets of a process are on one pipeline: forks stay in its scope. A    *)
(* failure is the pipeline's, and so every set's.                           *)
Failed(e, broken) == [e EXCEPT !.failed = @ \/ broken]

Failing(t, p, broken) ==
  [t EXCEPT !.ws = [w \in DOMAIN @ |->
     IF @[w].owner = p THEN Failed(@[w], broken) ELSE @[w]]]

(* Refused after log_begin (late): another set of the pass or its page      *)
(* mapping, or the submission, which breaks the pipeline. Its epoch went    *)
(* into the dropped FireWs and its log stays cut.                           *)
FireLost(f, broken) ==
  LET w == fires[f].ws
  IN
  /\ fires[f].phase = "prepared"
  /\ fires[f].start >= tab.ws[w].folded
  /\ "late" \in Refusals
  /\ tab' = Failing([tab EXCEPT !.ws[w].cuts = @ \cup {<<f, fires[f].start>>}],
                    tab.ws[w].owner, broken)
  /\ fires' = IF fires[f].seq = 0 THEN Without(fires, {f})
              ELSE [fires EXCEPT ![f].phase = "lost", ![f].grant = {}]
  /\ free' = free \cup fires[f].grant
  /\ UNCHANGED <<pending, slots, flat, cache, epochs, moves, away, used>>

(* log_rows: what follows start is dropped; rows are logged only where the  *)
(* log reaches them.                                                        *)
LogRows(logged, start, toks) ==
  LET cut == SubSeq(logged, 1, Min({start, Len(logged)}))
  IN  IF Len(cut) = start THEN cut \o toks ELSE cut

(* fold: freezes up to `to` and seals the pages now full, frozen and        *)
(* logged, each keyed by the chain from the page before it.                 *)
Seal(t, w, locs, sealed, full, decoded) ==
  LET root == IF sealed = 0 THEN <<>> ELSE Page(t, locs[sealed]).key
      keys == [i \in 1..(full - sealed) |->
                 root \o SubSeq(t.ws[w].logged, sealed * PageSize + 1, (sealed + i) * PageSize)]
  IN  IF full <= sealed THEN t
      ELSE [SealPages(t, SubSeq(locs, sealed + 1, full), keys) EXCEPT
              !.ws[w].prompt = IF decoded THEN @ ELSE Max({@, full})]

Full(e) == Min({Min({Len(Known(e)), e.folded}) \div PageSize, e.mapped})

Fold(t, w, to, decoded) ==
  LET frozen == [t EXCEPT !.ws[w].folded = Max({@, to})]
  IN  Seal(frozen, w, WsLocations(t, w), SealedPrefix(t, w), Full(frozen.ws[w]), decoded)

(* finalize_fire_await: the epoch settles, the rows are logged, and what    *)
(* the fire froze seals. A failed fire cuts the log at its start and fails  *)
(* its pipeline. The fires of a pipeline settle in order.                   *)
FireSettles(f, ok, to, decoded) ==
  LET w == fires[f].ws
      e == tab.ws[w]
      logged == IF ok THEN LogRows(e.logged, fires[f].start, fires[f].toks)
                      ELSE SubSeq(e.logged, 1, Min({fires[f].start, Len(e.logged)}))
      ended == [tab EXCEPT !.ws[w].logged = logged,
                           !.ws[w].cuts = {c \in @ : c[1] # f}]
  IN
  /\ fires[f].phase = "queued"
  /\ \A g \in Earlier(f) : fires[g].phase # "queued"
  /\ ok => ~e.failed
  /\ Settle(fires[f].seq, {})
  /\ tab' = IF ok THEN Fold(ended, w, to, decoded) ELSE Failing(ended, e.owner, TRUE)
  /\ fires' = Without(fires, {f})
  /\ UNCHANGED <<slots, flat, cache, moves, away, used>>
-----------------------------------------------------------------------------
(* The cache *)

(* page_keys: of the pages w holds and those that toks would fill. *)
KeysOn(own, toks) ==
  own \o [i \in 1..(Len(toks) \div PageSize) |->
            (IF own = <<>> THEN <<>> ELSE Last(own)) \o SubSeq(toks, 1, i * PageSize)]

KeysAt(t, locs) == [i \in DOMAIN locs |-> Page(t, locs[i]).key]

PassKeys(w, toks) == KeysOn(KeysAt(tab, WsLocations(tab, w)), toks)

(* A pass of w writes on where its pages end, all of them sealed. *)
Clean(w) ==
  /\ tab.ws[w].tail = tab.ws[w].mapped * PageSize
  /\ SealedPrefix(tab, w) = tab.ws[w].mapped
  /\ ~IsAway(w)
  /\ ~tab.ws[w].failed

(* How much of a run attach_run can map: as far as it is settled on the     *)
(* device and the trie path to its last page agrees with it.                *)
Agreed(settled) ==
  LET path == Locations(tab, Last(settled)[1])
  IN  SubSeq(settled, 1, Max({k \in 0..Min({Len(settled), Len(path)}) :
                                SubSeq(path, 1, k) = SubSeq(settled, 1, k)}))

Attachable(run) ==
  LET k == PrefixWhile(run, LAMBDA l : Settled(tab, l))
  IN  IF k = 0 THEN <<>> ELSE Agreed(SubSeq(run, 1, k))

(* supply and attach_run: the sealed pages of a pass's first rows (toks,    *)
(* whole pages of them) are mapped in. They are frozen, a prompt's, and     *)
(* their tokens are logged.                                                 *)
MappedIn(e, toks, held, pages) ==
  [e EXCEPT !.folded = Max({@, pages * PageSize}),
            !.prompt = Max({@, pages}),
            !.logged = LogRows(@, held * PageSize, SubSeq(toks, 1, (pages - held) * PageSize)),
            !.tail = pages * PageSize]

SupplyRun(w, toks, held, run) ==
  /\ Len(run) > held
  /\ PathPrefixLen(tab, Last(run)) = Len(run)
  /\ CanAttach(tab, w, Last(run))
  /\ tab' = [Attach(tab, w, Last(run), Named) EXCEPT
               !.ws[w] = MappedIn(@, toks, held, Len(run))]
  /\ flat' = Refreshed({w}, tab')

Supply(w, toks) ==
  /\ Clean(w)
  /\ ~Passing(tab.ws[w].owner)
  /\ \A m \in DOMAIN moves : moves[m].ws \in SetsOf(tab.ws[w].owner) =>
       moves[m].ws = w /\ moves[m].kind = "reader"
  /\ tab.ws[w].mapped * PageSize + Len(toks) <= MaxLen
  /\ \E found \in SealedRuns(tab, PassKeys(w, toks), TRUE) :
       SupplyRun(w, toks, tab.ws[w].mapped, Attachable(found))
  /\ UNCHANGED <<pool, slots, cache, epochs, fires, moves, away, used>>

(* The entries reclaiming looks at: what no one live reads whole, in no     *)
(* move, and not wholly below the device; by owner, decodes apart.          *)
Reclaimable ==
  {e \in DOMAIN cache : /\ e.root \in UnusedRoots(tab)
                        /\ ~InMoveAt(tab, e.root)
                        /\ HoldsResident(tab, e.root)}

Groups == {<<e.owner, e.decoded>> : e \in Reclaimable}
GroupOf(g) == {e \in Reclaimable : <<e.owner, e.decoded>> = g}

RootsOf(entries) ==
  LET roots == {e.root : e \in entries}
  IN  [r \in roots |-> SumFunctionOnSet(cache, {e \in entries : e.root = r})]

(* reclaim_order: groups that free no device page go last, answers before   *)
(* prompts; among equals the least recently used, which is any.             *)
Rank(g) == (IF DeviceFreed(tab, RootsOf(GroupOf(g))) = {} THEN 2 ELSE 0)
             + (IF g[2] THEN 0 ELSE 1)

ReclaimOrders ==
  {o \in SetToSeqs(Groups) : \A i, j \in DOMAIN o : i < j => Rank(o[i]) <= Rank(o[j])}

(* drop_entries *)
Dropped(t, entries) == ReleaseRoots(t, RootsOf(entries))

DropEntries(entries) ==
  /\ cache' = Without(cache, entries)
  /\ GiveBack(Dropped(tab, entries), {})

(* reclaim_cache: group by group until a device page is given back. *)
ReclaimCache ==
  \E order \in ReclaimOrders : \E n \in DOMAIN order :
    LET upto(k) == UNION {GroupOf(order[i]) : i \in 1..k}
        freed(k) == DeviceOf(Dropped(tab, upto(k)).freed)
    IN
    /\ freed(n - 1) = {}
    /\ freed(n) # {} \/ n = Len(order)
    /\ DropEntries(upto(n))
    /\ UNCHANGED <<flat, epochs, fires, moves, away, used>>

(* discard_cache, asked for by the policy. *)
DiscardCache(owner) ==
  LET entries == {e \in DOMAIN cache : e.owner = owner}
  IN
  /\ entries # {}
  /\ DropEntries(entries)
  /\ UNCHANGED <<flat, epochs, fires, moves, away, used>>

(* drop_entries_off_device *)
OffDevice == {e \in DOMAIN cache : e.root \in UnusedRoots(tab) /\ ~SettledOnDevice(tab, e.root)}
-----------------------------------------------------------------------------
(* Moves *)

NoMove == [kind |-> "out", proc |-> 0, sets |-> {}, ws |-> 0, pages |-> {}, pinned |-> {},
           run |-> <<>>, grant |-> {}]

Terminals(t, S) == {t.ws[w].terminal : w \in S} \ {NoNode}

(* prepare_move_out: those pages get slots of `have`, and their readers are *)
(* pinned.                                                                  *)
MoveOut(t, p, sets, locs, have) ==
  LET to == OneByOne(Lowest(Cardinality(locs), have))
      at == SetToSeq(locs)
      pages == {[loc |-> at[i], gpu |-> Page(t, at[i]).at[2], slot |-> to[i]] : i \in DOMAIN at}
      pinned == Terminals(t, sets)
  IN  [t |-> [PinAll(t, pinned) EXCEPT !.swaps = @ \cup locs],
       move |-> [NoMove EXCEPT !.proc = p, !.sets = sets, !.pages = pages, !.pinned = pinned]]

SlotsIn(move) == {p.slot : p \in move.pages}
GpusIn(move) == {p.gpu : p \in move.pages}
LocsIn(move) == {p.loc : p \in move.pages}

(* Entries below the device make room, in the same lock hold: what          *)
(* dropping them lets go is `gone`.                                         *)
MakeRoom(entries, gone) ==
  /\ cache' = Without(cache, entries)
  /\ IF entries = {} THEN UNCHANGED pool
                     ELSE Retire(Recycled(seq, gone.freed), outstanding, free)

InTheWay(wanted) == IF Cardinality(slots) < Cardinality(wanted) THEN OffDevice ELSE {}

Begin(t, move, have) ==
  /\ tab' = t
  /\ slots' = have \ SlotsIn(move)
  /\ moves' = Put(moves, used.moves + 1, move)
  /\ Number("moves", MaxMoves)

BeginOut(out, have) == Begin(out.t, out.move, have)

(* prepare_suspend of a process, its sets fenced and quiet. With nothing to *)
(* move they are suspended as they are (mark_suspended); with no room for   *)
(* it the eviction fails and the process goes on.                           *)
Evict(p, t, pages, have) ==
  \/ /\ pages # {}
     /\ Cardinality(pages) <= Cardinality(have)
     /\ BeginOut(MoveOut(t, p, SetsOf(p), pages, have), have)
     /\ away' = away \cup {p}
  \/ /\ pages = {}
     /\ tab' = SetSuspended(t, SetsOf(p), TRUE)
     /\ away' = away \cup {p}
     /\ slots' = have
     /\ Number("moves", MaxMoves)
     /\ UNCHANGED moves
  \/ /\ Cardinality(pages) > Cardinality(have)
     /\ tab' = t
     /\ slots' = have
     /\ UNCHANGED <<moves, away, used>>

EvictAfter(p, entries, gone) ==
  /\ MakeRoom(entries, gone)
  /\ Evict(p, gone.t, Movable(gone.t, SetsOf(p)), slots \cup SlotsOf(gone.freed))

PrepareSuspend(p) ==
  LET entries == InTheWay(Movable(tab, SetsOf(p)))
  IN
  /\ SetsOf(p) # {}
  /\ p \notin away
  /\ \A w \in SetsOf(p) : ~Leased(w)
  /\ EvictAfter(p, entries, Dropped(tab, entries))
  /\ UNCHANGED <<flat, epochs, fires>>

(* prepare_sweep: what only suspended sets read any more follows them, as   *)
(* far as there is room; those being restored (`back`) or next to be keep   *)
(* theirs.                                                                  *)
Sweep(t, all, have) ==
  \E pages \in kSubset(Min({Cardinality(all), Cardinality(have)}), all) :
    /\ pages # {}
    /\ BeginOut(MoveOut(t, 0, SuspendedReaders(t, pages), pages, have), have)

SweepAfter(keep, entries, gone) ==
  /\ MakeRoom(entries, gone)
  /\ Sweep(gone.t, Stranded(gone.t, keep), slots \cup SlotsOf(gone.freed))

PrepareSweep(back) ==
  LET keep == UNION {SetsOf(p) : p \in back}
      entries == InTheWay(Stranded(tab, keep))
  IN
  /\ SweepAfter(keep, entries, Dropped(tab, entries))
  /\ UNCHANGED <<flat, epochs, fires, away>>

(* prepare_demote: what only a group of entries holds goes below instead of *)
(* being dropped. The move pins nothing.                                    *)
PrepareDemote ==
  \E g \in Groups :
    LET Pages(h) == CacheOnly(tab, {e.root : e \in GroupOf(h)})
    IN
    /\ \A h \in Groups : Rank(h) < Rank(g) => Pages(h) = {}
    /\ \E pages \in kSubset(Min({Cardinality(Pages(g)), Cardinality(slots)}), Pages(g)) :
         /\ pages # {}
         /\ BeginOut(MoveOut(tab, 0, {}, pages, slots), slots)
    /\ UNCHANGED <<pool, flat, cache, epochs, fires, away>>

(* unpin_move, of what an operation made of the table. *)
UnpinPages(r, locs) == Freeing(UnpinSwaps(r.t, locs), r.freed)

Unpinned(t, move) == UnpinPages(UnpinAll(t, move.pinned), LocsIn(move))

(* replace_backings: all of the move's pages are where it left them. *)
Unchanged(move, Backing(_)) ==
  \A p \in move.pages : Live(tab, p.loc) /\ Page(tab, p.loc).at = Backing(p)

Swap(t, move, Backing(_)) ==
  SetBackings(t, LocsIn(move), [l \in LocsIn(move) |->
    Backing(CHOOSE p \in move.pages : p.loc = l)])

OnGpu(p) == Device(p.gpu)
InSlot(p) == Host(p.slot)

EndMove(m) == moves' = Without(moves, {m})

DevicesIn(move) == {Device(g) : g \in GpusIn(move)}
HostsIn(move) == {Host(h) : h \in SlotsIn(move)}

(* commit_suspend: the pages went out. *)
CommitOut(m) ==
  LET move == moves[m]
      sets == move.sets \cap LiveSets
  IN
  /\ move.kind = "out"
  /\ Unchanged(move, OnGpu)
  /\ GiveBack(Freeing(Unpinned(SetSuspended(Swap(tab, move, InSlot), sets, TRUE), move),
                      DevicesIn(move)), {})
  /\ flat' = Refreshed(sets, tab')
  /\ EndMove(m)
  /\ UNCHANGED <<cache, epochs, fires, away, used>>

(* A slip: an aborted move keeps the slots it was given. *)
AbortOutKeepsSlots(m) ==
  /\ moves[m].kind = "out"
  /\ GiveBack(Unpinned(tab, moves[m]), {})
  /\ away' = away \ {moves[m].proc}
  /\ EndMove(m)
  /\ UNCHANGED <<flat, cache, epochs, fires, used>>

(* abort_suspend: the copy failed, or a page was dropped or changed under   *)
(* the move. A process whose eviction fails goes on.                        *)
AbortOut(m) ==
  /\ moves[m].kind = "out"
  /\ GiveBack(Freeing(Unpinned(tab, moves[m]), HostsIn(moves[m])), {})
  /\ away' = away \ {moves[m].proc}
  /\ EndMove(m)
  /\ UNCHANGED <<flat, cache, epochs, fires, used>>

(* The move onto the device of those of locs that are below it. *)
MoveIn(t, move, locs, gpus, pinned) ==
  LET at == SetToSeq(locs)
      to == OneByOne(gpus)
      pages == {[loc |-> at[i], gpu |-> to[i], slot |-> Page(t, at[i]).at[2]] : i \in DOMAIN at}
  IN  [t |-> [PinAll(t, pinned) EXCEPT !.swaps = @ \cup locs],
       move |-> [move EXCEPT !.kind = "in", !.pages = pages, !.pinned = pinned]]

Below(t, locs) == {l \in locs : ~OnDevice(Page(t, l).at)}

(* prepare_restore, with the pages its grant brought. *)
Land(in, gpus) ==
  /\ Begin(in.t, in.move, slots)
  /\ free' = free \ gpus

(* A slip: pages another move has are moved again. *)
RestoreMoving(p, locs, below) ==
  /\ Cardinality(below) <= Cardinality(free)
  /\ LET gpus == Lowest(Cardinality(below), free)
     IN  Land(MoveIn(tab, [NoMove EXCEPT !.proc = p, !.sets = SetsOf(p)], below, gpus,
                     Terminals(tab, SetsOf(p))), gpus)

Restore(p, locs, below) ==
  /\ locs \cap tab.swaps = {}
  /\ Cardinality(below) <= Cardinality(free)
  /\ LET gpus == Lowest(Cardinality(below), free)
     IN  Land(MoveIn(tab, [NoMove EXCEPT !.proc = p, !.sets = SetsOf(p)], below, gpus,
                     Terminals(tab, SetsOf(p))), gpus)

PrepareRestore(p) ==
  LET locs == LocationsOf(tab, SetsOf(p))
  IN
  /\ SetsOf(p) # {}
  /\ p \in away
  /\ \A m \in DOMAIN moves : moves[m].proc # p
  /\ Restore(p, locs, Below(tab, locs))
  /\ UNCHANGED <<pending, flat, cache, epochs, fires, away>>

(* commit_restore: the pages are on the device, their slots go back, and    *)
(* the sets run again.                                                      *)
CommitRestore(m) ==
  LET move == moves[m]
      sets == move.sets \cap LiveSets
  IN
  /\ move.kind = "in"
  /\ move.ws = 0
  /\ Unchanged(move, InSlot)
  /\ GiveBack(Freeing(Unpinned(SetSuspended(Swap(tab, move, OnGpu), sets, FALSE), move),
                      HostsIn(move)), {})
  /\ flat' = Refreshed(sets, tab')
  /\ away' = away \ {move.proc}
  /\ EndMove(m)
  /\ UNCHANGED <<cache, epochs, fires, used>>

(* abort_restore, of a promotion too: the device pages go straight back. *)
AbortIn(m) ==
  /\ moves[m].kind = "in"
  /\ GiveBack(Unpinned(tab, moves[m]), GpusIn(moves[m]) \cup moves[m].grant)
  /\ EndMove(m)
  /\ UNCHANGED <<flat, cache, epochs, fires, away, used>>

(* promote: the run a pass's first rows are sealed in is found on any tier, *)
(* and pages are granted for what of it is below the device.                *)
QuoteRun(w, run, below) ==
  /\ below \in 1..Cardinality(free)
  /\ free' = free \ Lowest(below, free)
  /\ Begin(tab, [NoMove EXCEPT !.kind = "quoted", !.ws = w, !.run = run, !.grant = free \ free'],
           slots)

PromoteQuote(w, toks) ==
  /\ Clean(w)
  /\ ~Calling(tab.ws[w].owner)
  /\ tab.ws[w].mapped * PageSize + Len(toks) <= MaxLen
  /\ used.moves < MaxMoves
  /\ \E run \in SealedRuns(tab, PassKeys(w, toks), FALSE) :
       QuoteRun(w, run, Cardinality(Below(tab, ToSet(run))))
  /\ UNCHANGED <<pending, flat, cache, epochs, fires, away>>

(* What prepare_promote finds of the run after the await. *)
RunStands(run) == \A l \in ToSet(run) : Live(tab, l) /\ l \notin tab.swaps

(* A slip: nothing is pinned for the reader. *)
PromoteUnpinned(m) ==
  LET move == moves[m]
      below == Below(tab, ToSet(move.run))
      gpus == Lowest(Cardinality(below), move.grant)
      in == MoveIn(tab, [move EXCEPT !.grant = @ \ gpus], below, gpus, {})
  IN
  /\ move.kind = "quoted"
  /\ ~IsAway(move.ws)
  /\ RunStands(move.run)
  /\ Cardinality(below) \in 1..Cardinality(move.grant)
  /\ tab' = in.t
  /\ moves' = [moves EXCEPT ![m] = in.move]
  /\ UNCHANGED <<pool, slots, flat, cache, epochs, fires, away, used>>

PromotePrepare(m) ==
  LET move == moves[m]
      below == Below(tab, ToSet(move.run))
      gpus == Lowest(Cardinality(below), move.grant)
      in == MoveIn(tab, [move EXCEPT !.grant = @ \ gpus], below, gpus, {Last(move.run)[1]})
  IN
  /\ move.kind = "quoted"
  /\ ~IsAway(move.ws)
  /\ RunStands(move.run)
  /\ Cardinality(below) \in 1..Cardinality(move.grant)
  /\ tab' = in.t
  /\ moves' = [moves EXCEPT ![m] = in.move]
  /\ UNCHANGED <<pool, slots, flat, cache, epochs, fires, away, used>>

(* The run is in a move, gone, up already or needs more by now, or the set  *)
(* is fenced: the pass goes on without it.                                  *)
PromoteGivesUp(m) ==
  LET move == moves[m]
  IN
  /\ move.kind = "quoted"
  /\ \/ IsAway(move.ws)
     \/ ~RunStands(move.run)
     \/ /\ RunStands(move.run)
        /\ Cardinality(Below(tab, ToSet(move.run))) \notin 1..Cardinality(move.grant)
  /\ free' = free \cup move.grant
  /\ EndMove(m)
  /\ UNCHANGED <<tab, pending, slots, flat, cache, epochs, fires, away, used>>

(* commit_promote: the run is held on until the pass has mapped it in. *)
CommitPromote(m) ==
  LET move == moves[m]
  IN
  /\ move.kind = "in"
  /\ move.ws # 0
  /\ Unchanged(move, InSlot)
  /\ GiveBack(Freeing(UnpinSwaps(Swap(tab, move, OnGpu), LocsIn(move)), HostsIn(move)),
              move.grant)
  /\ moves' = [moves EXCEPT ![m] = [NoMove EXCEPT !.kind = "reader", !.ws = move.ws,
                                       !.pinned = move.pinned, !.run = move.run]]
  /\ UNCHANGED <<flat, cache, epochs, fires, away, used>>

(* release_reader *)
ReleaseReader(m) ==
  /\ moves[m].kind = "reader"
  /\ GiveBack(Unpinned(tab, moves[m]), {})
  /\ EndMove(m)
  /\ UNCHANGED <<flat, cache, epochs, fires, away, used>>
-----------------------------------------------------------------------------
TokenSeqs(lens) == UNION {[1..n -> Tokens] : n \in lens}

WholePages == {n \in 1..MaxLen : n % PageSize = 0}

SetStep ==
  \/ Create
  \/ \E w \in LiveSets : Fork(w) \/ Release(w)

PrepareStep ==
  \/ \E w \in LiveSets : \E start \in Starts(tab.ws[w]), toks \in TokenSeqs(1..MaxRows) :
       Quote(w, start, toks)
  \/ \E f \in DOMAIN fires :
       \/ FireGivesUp(f) \/ FirePrepare(f) \/ FireRefused(f)
       \/ \E broken \in BOOLEAN : FireLost(f, broken)

FireStep ==
  \/ PrepareStep
  \/ \E f \in DOMAIN fires :
       \/ FireSubmit(f)
       \/ \E to \in {0, End(f)}, decoded \in BOOLEAN : FireSettles(f, TRUE, to, decoded)
       \/ FireSettles(f, FALSE, 0, FALSE)

CacheStep ==
  \/ \E w \in LiveSets, toks \in TokenSeqs(WholePages) : Supply(w, toks)
  \/ ReclaimCache
  \/ \E owner \in 1..MaxSets : DiscardCache(owner)

MoveStep ==
  \/ \E p \in 1..MaxSets : PrepareSuspend(p) \/ PrepareRestore(p)
  \/ \E back \in SUBSET away : PrepareSweep(back)
  \/ PrepareDemote
  \/ \E w \in LiveSets, toks \in TokenSeqs(WholePages) : PromoteQuote(w, toks)
  \/ \E m \in DOMAIN moves :
       \/ CommitOut(m) \/ AbortOut(m) \/ CommitRestore(m) \/ AbortIn(m)
       \/ PromotePrepare(m) \/ PromoteGivesUp(m) \/ CommitPromote(m) \/ ReleaseReader(m)

Next == SetStep \/ FireStep \/ CacheStep \/ MoveStep

Spec == Init /\ [][Next]_vars
-----------------------------------------------------------------------------
Mapped == DeviceOf(Backings(tab))

Held ==
  (UNION {fires[f].grant : f \in DOMAIN fires})
  \cup (UNION {moves[m].grant : m \in DOMAIN moves})
  \cup (UNION {GpusIn(moves[m]) : m \in {m \in DOMAIN moves : moves[m].kind = "in"}})

Copies(f) == {c[1] : c \in fires[f].copies} \cup {c[2] : c \in fires[f].copies}

Custody == INSTANCE PageCustody WITH
  Pages <- DevicePages,
  MaxSeq <- MaxFires,
  reserved <- Held,
  mapped <- Mapped,
  touches <- UNION {{fires[f].seq} \X Copies(f) : f \in DOMAIN fires}

(* The store keeps the promises of PageCustody: each operation on the trie, *)
(* the cache, the fires and the moves takes and gives device pages as one   *)
(* of its steps does, at the epoch it says.                                 *)
ImplementsCustody == Custody!CustodySpec

(* A slot below the device is free, or has one page: a page of the trie or  *)
(* one on its way out of a move. None is lost and none is given twice,      *)
(* whatever is dropped, compacted or aborted under a move.                  *)
SlotsKept ==
  LET inTrie == SlotsOf(Backings(tab))
      leaving == UNION {SlotsIn(moves[m]) : m \in {m \in DOMAIN moves : moves[m].kind = "out"}}
  IN  /\ slots \cup inTrie \cup leaving = Slots
      /\ slots \cap (inTrie \cup leaving) = {}
      /\ inTrie \cap leaving = {}
      /\ \A b \in Backings(tab) :
           Cardinality({l \in UNION {{n} \X DOMAIN tab.nodes[n].pages : n \in DOMAIN tab.nodes} :
                          Page(tab, l).at = b}) = 1

(* The anchors of the trie count its readers exactly: working sets, nodes   *)
(* the cache holds and nodes pinned; a node stays while something below it  *)
(* is anchored, and no longer. privately_writable is right only if they do. *)
AnchorsExact ==
  \A n \in DOMAIN tab.nodes :
    LET at == AnchoredAt(tab)
    IN  /\ tab.nodes[n].exact = Cardinality({a \in DOMAIN at : at[a] = n})
        /\ tab.nodes[n].path = Cardinality({a \in DOMAIN at : n \in PathNodes(tab, at[a])})
        /\ tab.nodes[n].path > 0
        /\ tab.nodes[n].parent # NoNode => tab.nodes[n].parent \in DOMAIN tab.nodes

(* The mapping of a working set has as many pages as it says, and the page  *)
(* ids kept for its launches are those of the trie now: no move, drop or    *)
(* compaction leaves them behind.                                           *)
FlatIsCurrent ==
  \A w \in LiveSets :
    /\ Len(Locations(tab, tab.ws[w].terminal)) = tab.ws[w].mapped
    /\ flat[w] # Stale /\ ~IsAway(w) => flat[w] = Flatten(tab, w)

(* A process that may run has all its pages on the device and in no move:   *)
(* no eviction, sweep or demotion of a page takes it from a process that    *)
(* came to share it, and a restore brings back all there is, what was       *)
(* forked too late for the eviction included.                               *)
RunningIsResident ==
  \A w \in LiveSets : ~IsAway(w) =>
    /\ ~tab.ws[w].suspended
    /\ \A l \in ToSet(WsLocations(tab, w)) : Settled(tab, l)

(* What a promotion brought up stays on the device, on the path it is       *)
(* pinned by, until the pass that asked for it has mapped it in.            *)
HeldRunStays ==
  \A m \in DOMAIN moves : moves[m].kind = "reader" =>
    LET end == Last(moves[m].run)[1]
    IN  /\ end \in DOMAIN tab.nodes
        /\ \A l \in ToSet(moves[m].run) \cap ToSet(Locations(tab, end)) : Settled(tab, l)

(* A page a fire under way reads or writes is no one else's to write: it is *)
(* not free, in no grant, and no page of the trie that is on the move.      *)
FiresKeepTheirPages ==
  \A f \in DOMAIN fires :
    fires[f].phase = "queued" =>
      /\ ToSet(fires[f].pages) \cap (free \cup Held) = {}
      /\ \A l \in tab.swaps :
           Live(tab, l) => Page(tab, l).at \notin {Device(p) : p \in ToSet(fires[f].pages)}

(* No page is in two moves at once (pin_swap_locations asserts it), and the *)
(* pages in moves are those swap_locations has.                             *)
OneMovePerPage ==
  /\ tab.swaps = UNION {LocsIn(moves[m]) : m \in DOMAIN moves}
  /\ \A m, n \in DOMAIN moves : m # n => LocsIn(moves[m]) \cap LocsIn(moves[n]) = {}

(* Every epoch that holds pages back has a fire that will settle it, also   *)
(* when the fire fails (KvTxnGuard, finalize_all): one left outstanding     *)
(* keeps every page given back since from the pool.                         *)
EpochsSettle == \A s \in outstanding : \E f \in DOMAIN fires :
                  fires[f].seq = s /\ fires[f].phase # "lost"
=============================================================================
