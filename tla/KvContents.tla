----------------------------- MODULE KvContents -----------------------------
(***************************************************************************)
(* What the pages of the KV store hold. The store hands out page ids; the  *)
(* engine copies pages and writes rows in its own time, and moves carry    *)
(* pages between the tiers. This module adds both to KvStore, to say what  *)
(* all of it is for: a fire reads what its program wrote, and a page found *)
(* by a key holds what the key names.                                      *)
(*                                                                         *)
(* The content of a slot is the chain of tokens from the start of its      *)
(* sequence: attention makes the key and value of a row depend on all the  *)
(* rows before it. A fire runs its pre-launch copies and then its rows;    *)
(* the launches of a pipeline run in order, but the scheduler posts the    *)
(* copies of a later fire ahead of the launches before it                  *)
(* (rotate_launch_for_wave_work). A move copies its pages when it is       *)
(* prepared, the earliest it can: a page written after that would be lost. *)
(***************************************************************************)
EXTENDS KvStore

CONSTANT ForksInFlight   \* whether a set is forked while fires of its pipeline are queued

ASSUME ContentsAssumption == ForksInFlight \in BOOLEAN

VARIABLES
  mem,     \* backing -> content of its slots; the engine's memory and the tier below
  truth,   \* working set -> the tokens its program has written, in program order
  wants,   \* queued fire -> what its program wrote before its first row
  stage    \* queued fire -> "queued", "copied" or "ran"

contents == <<mem, truth, wants, stage>>
allVars == <<vars, contents>>

Junk == <<>>

InitContents ==
  /\ Init
  /\ mem = [b \in {Device(p) : p \in DevicePages} \cup {Host(h) : h \in Slots} |->
              [i \in 1..PageSize |-> Junk]]
  /\ truth = <<>>
  /\ wants = <<>>
  /\ stage = <<>>
-----------------------------------------------------------------------------
(* The content of the 0-based slot of a mapping. *)
SlotOf(m, pages, slot) == m[Device(pages[PageAt(slot) + 1])][(slot % PageSize) + 1]

(* The sequence that the first n slots hold, or Junk when they are not one. *)
IsSequence(m, pages, n, seen) ==
  /\ Len(seen) = n
  /\ \A i \in 0..(n - 1) : SlotOf(m, pages, i) = SubSeq(seen, 1, i + 1)

Holds(m, pages, n) ==
  IF n > 0 /\ IsSequence(m, pages, n, SlotOf(m, pages, n - 1))
    THEN SlotOf(m, pages, n - 1) ELSE Junk

(* The pre-launch copies of a fire. *)
Copying(m, copies) ==
  [b \in DOMAIN m |->
     IF \E c \in copies : b = Device(c[2])
       THEN m[Device((CHOOSE c \in copies : b = Device(c[2]))[1])] ELSE m[b]]

(* Its rows: each extends what the fire reads before it. *)
Writing(m, fire, prefix) ==
  [b \in DOMAIN m |-> [i \in 1..PageSize |->
     LET rows == {r \in 1..Len(fire.toks) :
                    /\ b = Device(fire.pages[PageAt(fire.start + r - 1) + 1])
                    /\ i = ((fire.start + r - 1) % PageSize) + 1}
     IN  IF rows = {} THEN m[b][i]
         ELSE IF fire.start > 0 /\ prefix = Junk THEN Junk
         ELSE prefix \o SubSeq(fire.toks, 1, Max(rows))]]

RunCopies(f) ==
  /\ stage[f] = "queued"
  /\ fires[f].copies # {}
  /\ mem' = Copying(mem, fires[f].copies)
  /\ stage' = [stage EXCEPT ![f] = "copied"]
  /\ UNCHANGED <<vars, truth, wants>>

Reads(f) == Holds(mem, fires[f].pages, fires[f].start)

ReadyToRun(f) ==
  /\ stage[f] = (IF fires[f].copies = {} THEN "queued" ELSE "copied")
  /\ \A g \in Earlier(f) \cap DOMAIN stage : stage[g] = "ran"

RunFire(f) ==
  /\ ReadyToRun(f)
  /\ mem' = Writing(mem, fires[f], Reads(f))
  /\ stage' = [stage EXCEPT ![f] = "ran"]
  /\ UNCHANGED <<vars, truth, wants>>
-----------------------------------------------------------------------------
(* The store's steps, and what they are to the program. *)

NewSet(tokens) == truth' = Put(truth, used.sets + 1, tokens)

Sets ==
  \/ Create /\ NewSet(<<>>) /\ UNCHANGED <<mem, wants, stage>>
  \/ \E w \in LiveSets :
       \/ /\ ForksInFlight \/ \A v \in SetsOf(tab.ws[w].owner) : FiresOf(v) = {}
          /\ Fork(w)
          /\ NewSet(truth[w])
          /\ UNCHANGED <<mem, wants, stage>>
       \/ /\ Release(w)
          /\ truth' = Without(truth, {w})
          /\ UNCHANGED <<mem, wants, stage>>

Submits(f) ==
  LET before == SubSeq(truth[fires[f].ws], 1, fires[f].start)
  IN
  /\ FireSubmit(f)
  /\ truth' = [truth EXCEPT ![fires[f].ws] = before \o fires[f].toks]
  /\ wants' = Put(wants, f, before)
  /\ stage' = Put(stage, f, "queued")
  /\ UNCHANGED mem

(* A fire that succeeds has run; one that fails may have. Whether it was    *)
(* decoding matters to what the cache lets go first, and not here.          *)
Settles(f, ok, to) ==
  /\ f \in DOMAIN stage
  /\ ok => stage[f] = "ran"
  /\ FireSettles(f, ok, to, FALSE)
  /\ wants' = Without(wants, {f})
  /\ stage' = Without(stage, {f})
  /\ UNCHANGED <<mem, truth>>

Fires ==
  \/ PrepareStep /\ UNCHANGED contents
  \/ \E f \in DOMAIN fires :
       \/ Submits(f)
       \/ \E to \in {0, End(f)} : Settles(f, TRUE, to)
       \/ Settles(f, FALSE, 0)
  \/ \E f \in DOMAIN stage : RunCopies(f) \/ RunFire(f)

(* What a pass is supplied with it has written. *)
Supplies(w, toks) ==
  LET held == tab.ws[w].mapped * PageSize
  IN
  /\ Supply(w, toks)
  /\ truth' = [truth EXCEPT ![w] =
       SubSeq(@, 1, held) \o SubSeq(toks, 1, tab'.ws[w].mapped * PageSize - held)]
  /\ UNCHANGED <<mem, wants, stage>>

Cache ==
  \/ \E w \in LiveSets, toks \in TokenSeqs(WholePages) : Supplies(w, toks)
  \/ (ReclaimCache \/ \E owner \in 1..MaxSets : DiscardCache(owner)) /\ UNCHANGED contents

(* The moves this step prepared, and what they copy. *)
Prepared == {m \in DOMAIN moves' :
               /\ moves'[m].pages # {}
               /\ m \in DOMAIN moves => moves[m].pages = {}}

Carried ==
  UNION {{IF moves'[m].kind = "out" THEN <<OnGpu(p), InSlot(p)>> ELSE <<InSlot(p), OnGpu(p)>> :
            p \in moves'[m].pages} : m \in Prepared}

Moves ==
  /\ MoveStep
  /\ mem' = [b \in DOMAIN mem |->
       IF \E c \in Carried : c[2] = b THEN mem[(CHOOSE c \in Carried : c[2] = b)[1]]
                                      ELSE mem[b]]
  /\ UNCHANGED <<truth, wants, stage>>

NextContents == Sets \/ Fires \/ Cache \/ Moves

SpecContents == InitContents /\ [][NextContents]_allVars
-----------------------------------------------------------------------------
(* A fire about to run reads what its program wrote before it, in program   *)
(* order: through the copies of shared pages, made in their own time,       *)
(* through pages the cache supplied, and through pages that have been below *)
(* the device and back.                                                     *)
ReadsWhatWasWritten ==
  \A f \in DOMAIN stage :
    ReadyToRun(f) /\ ~tab.ws[fires[f].ws].failed => Reads(f) = wants[f]

(* The pages that copies still to be made go to. *)
AwaitingCopies ==
  UNION {{Device(c[2]) : c \in fires[f].copies} :
           f \in {f \in DOMAIN fires : \/ fires[f].phase = "prepared"
                                       \/ f \in DOMAIN stage /\ stage[f] = "queued"}}

(* A page that has a key holds what the key names, on whichever tier it is, *)
(* once its copy is made: a prompt served from the cache reads its own      *)
(* tokens.                                                                  *)
KeysNameContent ==
  \A n \in DOMAIN tab.nodes : \A p \in ToSet(tab.nodes[n].pages) :
    p.key # NoKey /\ p.at \notin AwaitingCopies =>
      \A i \in 1..PageSize : mem[p.at][i] = SubSeq(p.key, 1, Len(p.key) - PageSize + i)
=============================================================================
