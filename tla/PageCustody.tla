---------------------------- MODULE PageCustody ----------------------------
(***************************************************************************)
(* What the device page pool and the write epochs of the KV store promise: *)
(* a device page that an unsettled copy-before-write still touches is not  *)
(* handed out again.                                                       *)
(*                                                                         *)
(* A device page is in exactly one custody: on the pool's free list,       *)
(* reserved by a grant, mapped by the page table, or given back and        *)
(* waiting in the pool's pending list for the epoch it was given back at.  *)
(* Every prepared write takes the next epoch and stays outstanding until   *)
(* its fire completes; a given-back page is free again once every epoch up *)
(* to its own has settled.                                                 *)
(*                                                                         *)
(* This is the specification KvStore implements: what the page table maps  *)
(* and lets go is left open here.                                          *)
(***************************************************************************)
EXTENDS Integers, FiniteSets

CONSTANTS
  Pages,      \* the device pages of the pool
  MaxSeq      \* bound on the write epochs a behaviour takes

ASSUME MaxSeqAssumption == MaxSeq \in Nat

VARIABLES
  free,         \* Pool::free
  pending,      \* Pool::pending, as pairs <<epoch, page>>
  reserved,     \* pages held by grants and by moves onto the device
  mapped,       \* pages some node of the page table owns
  seq,          \* KvStore::seq
  outstanding,  \* KvStore::outstanding
  touches       \* <<epoch, page>>: the write of that epoch copies from or to the page

custodyVars == <<free, pending, reserved, mapped, seq, outstanding, touches>>

CustodyTypeOK ==
  /\ free \subseteq Pages
  /\ pending \subseteq (Nat \X Pages)
  /\ reserved \subseteq Pages
  /\ mapped \subseteq Pages
  /\ seq \in 0..MaxSeq
  /\ outstanding \subseteq 1..MaxSeq
  /\ touches \subseteq (Nat \X Pages)

CustodyInit ==
  /\ free = Pages
  /\ pending = {}
  /\ reserved = {}
  /\ mapped = {}
  /\ seq = 0
  /\ outstanding = {}
  /\ touches = {}
-----------------------------------------------------------------------------
(* Slips the checks must catch: an entry due with its own epoch still       *)
(* outstanding, a grant that returns its pages and keeps them, and a write  *)
(* that gives pages back before it takes its epoch.                         *)
DueWithItsEpoch(pend, out) == {e \in pend : \A o \in out : e[1] <= o}

ReturnAndKeep(ps) ==
  /\ ps # {}
  /\ ps \subseteq reserved
  /\ free' = free \cup ps
  /\ UNCHANGED <<reserved, pending, mapped, seq, outstanding, touches>>

(* KvStore::retire_idle: an entry of the pending list is due when every     *)
(* outstanding epoch is younger than its own, or none is outstanding.       *)
Due(pend, out) == {e \in pend : \A o \in out : e[1] < o}

PageOf(entries) == {e[2] : e \in entries}

AtEpoch(epoch, ps) == {epoch} \X ps

(* try_alloc_n: a grant takes pages off the free list. *)
Reserve(ps) ==
  /\ ps # {}
  /\ ps \subseteq free
  /\ free' = free \ ps
  /\ reserved' = reserved \cup ps
  /\ UNCHANGED <<pending, mapped, seq, outstanding, touches>>

(* release_reserved: what a grant did not use goes straight back. *)
ReturnReserved(ps) ==
  /\ ps # {}
  /\ ps \subseteq reserved
  /\ reserved' = reserved \ ps
  /\ free' = free \cup ps
  /\ UNCHANGED <<pending, mapped, seq, outstanding, touches>>

(* The epoch of the next write. *)
NextSeq == seq + 1

WriteBeforeItsEpoch(in, out, uses) ==
  /\ seq < MaxSeq
  /\ in \subseteq reserved
  /\ out \subseteq mapped
  /\ uses \subseteq mapped \cup in
  /\ seq' = NextSeq
  /\ outstanding' = outstanding \cup {NextSeq}
  /\ touches' = touches \cup AtEpoch(NextSeq, uses)
  /\ reserved' = reserved \ in
  /\ mapped' = (mapped \ out) \cup in
  /\ pending' = pending \cup AtEpoch(seq, out)
  /\ UNCHANGED free

(* A copy-before-write is prepared and published in one lock hold: it takes *)
(* the next epoch, maps the pages of its grant in, and gives back what they *)
(* replace at its own epoch. It touches mapped pages and those of its grant. *)
Write(in, out, uses) ==
  /\ seq < MaxSeq
  /\ in \subseteq reserved
  /\ out \subseteq mapped
  /\ uses \subseteq mapped \cup in
  /\ seq' = NextSeq
  /\ outstanding' = outstanding \cup {NextSeq}
  /\ touches' = touches \cup AtEpoch(NextSeq, uses)
  /\ reserved' = reserved \ in
  /\ mapped' = (mapped \ out) \cup in
  /\ pending' = pending \cup AtEpoch(NextSeq, out)
  /\ UNCHANGED free

(* Any change of the mapping that is not a copy (backing, attaching,        *)
(* releasing, dropping cache entries, a move's commit or abort): what it    *)
(* lets go is given back at the current epoch.                              *)
Remap(in, out) ==
  /\ in \subseteq reserved
  /\ out \subseteq mapped
  /\ reserved' = reserved \ in
  /\ mapped' = (mapped \ out) \cup in
  /\ pending' = pending \cup AtEpoch(seq, out)
  /\ UNCHANGED <<free, seq, outstanding, touches>>

(* The same followed by retire_idle in the same lock hold, which also       *)
(* returns what an aborted move had reserved. A restore may commit after    *)
(* the last reader of its pages went: it maps them and lets them go.        *)
RemapAndRetire(in, out, back) ==
  LET given == pending \cup AtEpoch(seq, out)
  IN
  /\ in \subseteq reserved
  /\ out \subseteq mapped \cup in
  /\ back \subseteq reserved \ in
  /\ reserved' = reserved \ (in \cup back)
  /\ mapped' = (mapped \cup in) \ out
  /\ pending' = given \ Due(given, outstanding)
  /\ free' = free \cup back \cup PageOf(Due(given, outstanding))
  /\ UNCHANGED <<seq, outstanding, touches>>

(* KvStore::settle: the fire of epoch s is done. *)
Settle(s) ==
  /\ s \in outstanding
  /\ outstanding' = outstanding \ {s}
  /\ touches' = {t \in touches : t[1] # s}
  /\ pending' = pending \ Due(pending, outstanding \ {s})
  /\ free' = free \cup PageOf(Due(pending, outstanding \ {s}))
  /\ UNCHANGED <<reserved, mapped, seq>>

CustodyNext ==
  \/ \E ps \in SUBSET free : Reserve(ps)
  \/ \E ps \in SUBSET reserved : ReturnReserved(ps)
  \/ \E in \in SUBSET reserved, out \in SUBSET mapped :
       \E uses \in SUBSET (mapped \cup in) : Write(in, out, uses)
  \/ \E in \in SUBSET reserved, out \in SUBSET mapped : Remap(in, out)
  \/ \E in \in SUBSET reserved : \E out \in SUBSET (mapped \cup in) :
       \E back \in SUBSET (reserved \ in) : RemapAndRetire(in, out, back)
  \/ \E s \in outstanding : Settle(s)

CustodySpec == CustodyInit /\ [][CustodyNext]_custodyVars
-----------------------------------------------------------------------------
(* No page is in two custodies, none is lost, and none waits twice: the     *)
(* pool can neither hand one page to two grants nor leak it.                *)
OneCustody ==
  /\ free \cup PageOf(pending) \cup reserved \cup mapped = Pages
  /\ free \cap PageOf(pending) = {}
  /\ free \cap reserved = {}
  /\ free \cap mapped = {}
  /\ reserved \cap PageOf(pending) = {}
  /\ reserved \cap mapped = {}
  /\ mapped \cap PageOf(pending) = {}
  /\ \A d, e \in pending : d[2] = e[2] => d = e

(* A page the copy of an unsettled write reads or fills is neither free nor *)
(* in someone's grant: nothing else can be written into it before the copy  *)
(* is done.                                                                 *)
NoReuseInFlight ==
  \A t \in touches : t[2] \notin free \cup reserved

(* Why retire_idle may look at the oldest outstanding epoch alone: such a   *)
(* page is still mapped, or waits at an epoch no older than any unsettled   *)
(* write that touches it, however often it was remapped since.              *)
TouchedIsHeld ==
  \A t \in touches :
     /\ t[1] \in outstanding
     /\ t[2] \in mapped \/ \E e \in pending : e[2] = t[2] /\ e[1] >= t[1]

EpochsBounded ==
  /\ \A e \in pending : e[1] <= seq
  /\ \A o \in outstanding : o <= seq

CustodyInv ==
  /\ CustodyTypeOK
  /\ OneCustody
  /\ TouchedIsHeld
  /\ EpochsBounded
=============================================================================
