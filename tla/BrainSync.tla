----------------------------- MODULE BrainSync ------------------------------
(***************************************************************************)
(* The knowledge sync at the edge (infra/cloudflare/brain-sync-worker) and *)
(* the loop of the nodes that use it (INTEGRATION_MAP.md): a node sends    *)
(* its whole vault with the time of its last run; the worker upserts each  *)
(* note by last-write-wins, keeps a full-text index beside the rows and    *)
(* answers with the notes changed since.                                   *)
(*                                                                         *)
(* Every statement of the worker is one database call: requests of other   *)
(* nodes run between any two, and a request may end at any of them.  A     *)
(* request has one entry of a path in the index at most, so entries that   *)
(* name their request are the rows of the index, one by one.  The agent    *)
(* cards and the log of the syncs are left out: nothing reads them back    *)
(* into a note.                                                            *)
(***************************************************************************)
EXTENDS Naturals, FiniteSets

CONSTANTS
  Nodes,      \* nodes with a vault
  Paths,      \* paths of notes
  Limit,      \* notes in one answer: 500 in the code
  MaxAtWork,  \* requests at the worker at once
  MaxEdits,   \* edits in all vaults
  MaxFaults,  \* requests that break off and answers that are lost
  None

VARIABLES
  vault,   \* the revision of each path a node holds
  since,   \* when each node began its last answered run
  rows,    \* brain_notes
  index,   \* brain_notes_fts: path, revision and request of every entry
  work,    \* the request each node waits for, as far as the worker is
  clock,   \* time, as the nodes put it in updatedAt
  torn,    \* ghost: paths whose last upsert began over another or broke off
  edits, faults

vars == <<vault, since, rows, index, work, clock, torn, edits, faults>>

Times == 0..MaxEdits
Revisions == [at : Times, by : Nodes, deleted : BOOLEAN]
Steps == {"check", "write", "unindex", "index"}
Notes == [Paths -> Revisions \cup {None}]
Requests == [step : Steps, path : Paths \cup {None}, body : Notes, start : Times,
             todo : SUBSET Paths, existing : Revisions \cup {None}]

(* What the constants must satisfy: None is no value in use. *)
BrainSyncAssumption ==
  /\ IsFiniteSet(Nodes) /\ Limit \in Nat \ {0} /\ MaxAtWork \in Nat \ {0}
  /\ MaxEdits \in Nat /\ MaxFaults \in Nat
  /\ None \notin Paths /\ None \notin Revisions /\ None \notin Requests

Init ==
  /\ vault = [n \in Nodes |-> [p \in Paths |-> None]]
  /\ since = [n \in Nodes |-> 0]
  /\ rows = [p \in Paths |-> None] /\ index = {}
  /\ work = [n \in Nodes |-> None]
  /\ clock = 0 /\ torn = {} /\ edits = 0 /\ faults = 0

Fault == faults < MaxFaults /\ faults' = faults + 1

-----------------------------------------------------------------------------
(***************************************************************************)
(* A node                                                                  *)
(***************************************************************************)

\* A note is written or deleted in the vault; a deletion leaves a tombstone.
Edit(n, p) ==
  /\ edits < MaxEdits /\ edits' = edits + 1
  /\ clock' \in {clock, clock + 1}
  /\ \E gone \in IF vault[n][p] = None THEN {FALSE} ELSE BOOLEAN :
       vault' = [vault EXCEPT ![n][p] = [at |-> clock', by |-> n, deleted |-> gone]]
  /\ UNCHANGED <<since, rows, index, work, torn, faults>>

\* The whole vault is sent, whatever was sent before.
Send(n) ==
  /\ work[n] = None /\ Cardinality({m \in Nodes : work[m] # None}) < MaxAtWork
  /\ work' = [work EXCEPT ![n] =
       [step |-> "check", path |-> None, body |-> vault[n], start |-> clock,
        todo |-> {p \in Paths : vault[n][p] # None}, existing |-> None]]
  /\ UNCHANGED <<vault, since, rows, index, clock, torn, edits, faults>>

Newer(revision, held) == held = None \/ revision.at > held.at

-----------------------------------------------------------------------------
(***************************************************************************)
(* handleSync and upsertNote                                               *)
(***************************************************************************)

At(n, step) == work[n] # None /\ work[n].step = step
Done(n) == work' = [work EXCEPT ![n].step = "check", ![n].todo = @ \ {work[n].path}, ![n].path = None]

\* Mutant: only new paths are written.
WritesNew(revision, row) == row = None

\* The row does not already hold this revision or a newer one.
Wins(revision, row) == Newer(revision, row)

Check(n) ==
  /\ At(n, "check")
  /\ \E p \in work[n].todo :
       IF Wins(work[n].body[p], rows[p])
       THEN work' = [work EXCEPT ![n].step = "write", ![n].path = p, ![n].existing = rows[p]]
       ELSE work' = [work EXCEPT ![n].todo = @ \ {p}]
  /\ UNCHANGED <<vault, since, rows, index, clock, torn, edits, faults>>

\* The row of a path is written and its entry is not yet there.
Indexing(n, p) == (At(n, "unindex") \/ At(n, "index")) /\ work[n].path = p

\* The upsert replaces the row, which may have changed since the check.
Write(n) ==
  /\ At(n, "write")
  /\ rows' = [rows EXCEPT ![work[n].path] = work[n].body[work[n].path]]
  /\ work' = [work EXCEPT ![n].step = "unindex", ![n].existing = None]
  /\ torn' = IF \E m \in Nodes : Indexing(m, work[n].path)
             THEN torn \cup {work[n].path} ELSE torn \ {work[n].path}
  /\ UNCHANGED <<vault, since, index, clock, edits, faults>>

EntriesOf(p) == {entry \in index : entry.path = p}

\* Mutant: the entries of earlier revisions stay.
UnindexNothing(n) ==
  /\ At(n, "unindex")
  /\ IF work[n].body[work[n].path].deleted THEN Done(n)
     ELSE work' = [work EXCEPT ![n].step = "index"]
  /\ UNCHANGED <<vault, since, rows, index, clock, torn, edits, faults>>

\* The entries of the path go; those of a tombstone do not come back.
Unindex(n) ==
  /\ At(n, "unindex")
  /\ index' = index \ EntriesOf(work[n].path)
  /\ IF work[n].body[work[n].path].deleted THEN Done(n)
     ELSE work' = [work EXCEPT ![n].step = "index"]
  /\ UNCHANGED <<vault, since, rows, clock, torn, edits, faults>>

Index(n) ==
  /\ At(n, "index")
  /\ index' = index \cup
       {[path |-> work[n].path, revision |-> work[n].body[work[n].path], from |-> n]}
  /\ Done(n)
  /\ UNCHANGED <<vault, since, rows, clock, torn, edits, faults>>

\* What the answer lists: notes newer than since, oldest first, up to a limit.
Changed(time) == {p \in Paths : rows[p] # None /\ rows[p].at > time}
Listings(time) ==
  {list \in SUBSET Changed(time) :
    /\ Cardinality(list) = IF Cardinality(Changed(time)) < Limit
                           THEN Cardinality(Changed(time)) ELSE Limit
    /\ \A p \in list, q \in Changed(time) \ list : rows[p].at <= rows[q].at}

\* The notes are listed and the node applies them, or hears nothing.
Answer(n) ==
  /\ At(n, "check") /\ work[n].todo = {}
  /\ \/ /\ \E list \in Listings(since[n]) :
             vault' = [vault EXCEPT ![n] = [p \in Paths |->
               IF p \in list /\ Newer(rows[p], @[p]) THEN rows[p] ELSE @[p]]]
        /\ since' = [since EXCEPT ![n] = work[n].start]
        /\ UNCHANGED faults
     \/ Fault /\ UNCHANGED <<vault, since>>
  /\ work' = [work EXCEPT ![n] = None]
  /\ UNCHANGED <<rows, index, clock, torn, edits>>

\* A statement fails or the worker is evicted; what was written stays.
BreakOff(n) ==
  /\ work[n] # None /\ Fault
  /\ work' = [work EXCEPT ![n] = None]
  /\ torn' = torn \cup {p \in Paths : Indexing(n, p)}
  /\ UNCHANGED <<vault, since, rows, index, clock, edits>>

Serve(n) == Check(n) \/ Write(n) \/ Unindex(n) \/ Index(n) \/ Answer(n)

Next == \E n \in Nodes :
  (\E p \in Paths : Edit(n, p)) \/ Send(n) \/ Serve(n) \/ BreakOff(n)

Spec == Init /\ [][Next]_vars

\* A node's loop runs again and again, and a request that is not broken off
\* comes to its end.
FairSpec == Spec /\ \A n \in Nodes : WF_vars(Send(n)) /\ WF_vars(Serve(n))

-----------------------------------------------------------------------------
(***************************************************************************)
(* Properties                                                              *)
(***************************************************************************)

\* Rows and vaults hold revisions; the index holds no tombstone.
TypeOK ==
  /\ vault \in [Nodes -> Notes] /\ rows \in Notes
  /\ since \in [Nodes -> Times] /\ clock \in Times
  /\ index \subseteq [path : Paths, revision : Revisions, from : Nodes]
  /\ \A entry \in index : ~entry.revision.deleted
  /\ work \in [Nodes -> Requests \cup {None}]
  /\ \A n \in Nodes : work[n] # None =>
       (work[n].step = "check") = (work[n].path = None)
  /\ torn \subseteq Paths
  /\ edits \in 0..MaxEdits /\ faults \in 0..MaxFaults

\* Last-write-wins, as the comment of upsertNote has it: no upsert replaces a
\* revision with an older one.
RowsNeverOlder ==
  [][\A p \in Paths : rows[p] # None => rows'[p].at >= rows[p].at]_vars

\* What the code keeps of it: a row becomes older only by an upsert that does
\* not find the row its check read.
OlderOnlyIfStale ==
  [][\A p \in Paths :
       rows[p] # None /\ rows'[p].at < rows[p].at =>
         \E n \in Nodes :
           At(n, "write") /\ work[n].path = p /\ work[n].existing # rows[p]]_vars

\* The index has what the row asks for: one entry of the revision of a note,
\* and none of a note that is deleted or was never there.
InStep(p) ==
  IF rows[p] = None \/ rows[p].deleted THEN EntriesOf(p) = {}
  ELSE \E n \in Nodes : EntriesOf(p) = {[path |-> p, revision |-> rows[p], from |-> n]}

\* The index kept in step, as the comment of upsertNote has it: so whenever no
\* request is at work.
SearchInStep == (\A n \in Nodes : work[n] = None) => \A p \in Paths : InStep(p)

\* What the code keeps of it: once nobody is indexing a path its entries are in
\* step, unless its last upsert began over another one's or broke off.  Another
\* path is not touched by that, and the next upsert that is left alone mends it.
SearchMended ==
  \A p \in Paths :
    p \notin torn /\ (\A n \in Nodes : ~Indexing(n, p)) => InStep(p)

\* Whatever races and breaks, the rows catch up with every vault: a node sends
\* its whole vault again, and the check lets the newest revision through.
EdgeCatchesUp ==
  <>[](\A n \in Nodes, p \in Paths : vault[n][p] # None =>
         rows[p] # None /\ rows[p].at >= vault[n][p].at)
=============================================================================
