-------------------------- MODULE DispatchJournal --------------------------
(***************************************************************************)
(* The dispatch journal of one scope (src/agent/dispatch-state.ts): the    *)
(* records of all issue work, in one file.  A transaction works unlocked    *)
(* on a snapshot; each save merges its edits into the file under the        *)
(* file's lease.  A save that projects finished records gives the lease up  *)
(* while their originals go to the cold store, takes it again and fails if  *)
(* anything moved.  A notification reset fences all transactions out,       *)
(* empties the journal and gives it a new generation.                       *)
(*                                                                         *)
(* The lease is exclusive (StateLock), so all that happens between taking   *)
(* and releasing it is one step.  Compaction of live records under storage  *)
(* pressure, OpenClaw passes and project pickups are left out.              *)
(***************************************************************************)
EXTENDS Naturals

CONSTANTS
    Txn,        \* transactions, one after the other by each of these owners
    NoTxn,
    Id,         \* record ids
    Issue,
    IssueOf,    \* the issue a record works on
    Note,       \* values of the fields that merge
    FirstNote,  \* their value in a new record
    MaxGen      \* bound on resets

ASSUME JournalAssumption ==
    /\ NoTxn \notin Txn
    /\ IssueOf \in [Id -> Issue]
    /\ FirstNote \in Note
    /\ MaxGen \in Nat

VARIABLES
    gen,        \* resetGeneration of the file
    file,       \* its records
    cold,       \* originals written to the cold store under gen (history)
    fence,      \* the notification-reset record exists
    target,     \* its id, and the generation the journal is to have
    cleared,    \* it notes that the journal was emptied
    pc,         \* where each transaction is
    since,      \* the generation of its snapshot
    snap,       \* "before": its snapshot at the last synchronisation
    work,       \* "state": the snapshot with its edits
    base,       \* "committed": what it read under the lease it gave up
    plan,       \* "retained": what it will write when it has the lease again
    goal        \* where it goes then

vars == <<gen, file, cold, fence, target, cleared, pc, since, snap, work, base, plan, goal>>
journal == <<gen, file, cold>>
reset == <<fence, target, cleared>>
suspended == <<base, plan, goal>>

(* A record: thread is its native session and, like life, protected; note    *)
(* stands for the fields that merge; gen is the generation it was admitted   *)
(* under (history).  A terminal record refers to its original in the cold    *)
(* store by a digest, of which the thread and the note are left here.        *)
Record(life, thread, note, g) == [life |-> life, thread |-> thread, note |-> note, gen |-> g]
Records == [life : {"live", "retired", "terminal"}, thread : Txn \union {NoTxn},
            note : Note, gen : 0..MaxGen]
Absent == [life |-> "absent", thread |-> NoTxn, note |-> FirstNote, gen |-> 0]
Tables == [Id -> Records \union {Absent}]
Empty == [i \in Id |-> Absent]

(* A file of an earlier version may hold finished records in full.           *)
Legacy(i) == [Empty EXCEPT ![i] = Record("retired", NoTxn, FirstNote, 0)]

Init ==
    /\ gen = 0
    /\ file \in {Empty} \union {Legacy(i) : i \in Id}
    /\ cold = {}
    /\ fence = FALSE
    /\ target = 0
    /\ cleared = FALSE
    /\ pc = [t \in Txn |-> "idle"]
    /\ since = [t \in Txn |-> 0]
    /\ snap = [t \in Txn |-> Empty]
    /\ work = [t \in Txn |-> Empty]
    /\ base = [t \in Txn |-> Empty]
    /\ plan = [t \in Txn |-> Empty]
    /\ goal = [t \in Txn |-> "idle"]

-----------------------------------------------------------------------------
(* validate: at most one record works on an issue.                          *)
Unique(table) ==
    \A i, j \in Id :
        table[i].life = "live" /\ table[j].life = "live" /\ IssueOf[i] = IssueOf[j] => i = j

(* Records whose cleanup is verified, and their projections.                *)
Finished(table) == {i \in Id : table[i].life = "retired"}
Originals(table) == {<<i, table[i]>> : i \in Finished(table)}
Original(r) == Record("retired", r.thread, r.note, r.gen)
Terminal(r) == Record("terminal", r.thread, r.note, r.gen)
Projected(table) ==
    [i \in Id |-> IF table[i].life = "retired" THEN Terminal(table[i]) ELSE table[i]]

MergeableNotes(b, p, c) ==  \* mutant: the protected fields are not compared
    p # b /\ c # b =>
        /\ b # Absent
        /\ p # Absent
        /\ p.note # b.note /\ c.note # b.note => p.note = c.note

(* mergeStateSnapshot, preceded by the check of the protected fields: b is   *)
(* what the transaction saw, p what it proposes, c what the file holds.      *)
SameProtected(b, c) == b.life = c.life /\ b.thread = c.thread

Mergeable(b, p, c) ==
    p # b /\ c # b =>
        /\ b # Absent
        /\ p # Absent
        /\ SameProtected(b, c)
        /\ p.note # b.note /\ c.note # b.note => p.note = c.note

MergeRecord(b, p, c) ==
    IF p = b THEN c
    ELSE IF c = b THEN p
    ELSE Record(p.life, p.thread, IF p.note = b.note THEN c.note ELSE p.note, p.gen)

Conflict(t) == \E i \in Id : ~Mergeable(snap[t][i], work[t][i], file[i])
Merged(t) == [i \in Id |-> MergeRecord(snap[t][i], work[t][i], file[i])]

-----------------------------------------------------------------------------
Goto(t, place) == pc' = [pc EXCEPT ![t] = place]

(* A transaction's snapshot and working copy are refreshed.                  *)
Sync(t, table) ==
    /\ snap' = [snap EXCEPT ![t] = table]
    /\ work' = [work EXCEPT ![t] = table]

Begin(t) ==
    /\ pc[t] = "idle"
    /\ ~fence
    /\ Goto(t, "reconciling")
    /\ UNCHANGED <<journal, reset, since, snap, work, suspended>>

(* The lease is released over a plan to write table, projected.              *)
Suspend(t, table, next) ==
    /\ base' = [base EXCEPT ![t] = file]
    /\ plan' = [plan EXCEPT ![t] = table]
    /\ goal' = [goal EXCEPT ![t] = next]
    /\ Goto(t, "archiving")

(* reconcile: finished records of the file are projected first.  (exclusive   *)
(* does so before every save; since nothing finished is written in full,      *)
(* later saves find nothing.)                                                 *)
Reclaim(t) ==
    /\ pc[t] = "reconciling"
    /\ ~fence
    /\ Finished(file) # {}
    /\ Suspend(t, file, "reading")
    /\ since' = [since EXCEPT ![t] = gen]
    /\ UNCHANGED <<journal, reset, snap, work>>

Reconciled(t) ==
    /\ pc[t] = "reconciling"
    /\ ~fence
    /\ Finished(file) = {}
    /\ Goto(t, "reading")
    /\ UNCHANGED <<journal, reset, since, snap, work, suspended>>

(* The snapshot is read without the lease.                                   *)
Read(t) ==
    /\ pc[t] = "reading"
    /\ since' = [since EXCEPT ![t] = gen]
    /\ Sync(t, file)
    /\ Goto(t, "open")
    /\ UNCHANGED <<journal, reset, suspended>>

-----------------------------------------------------------------------------
(* Edits of the working copy, between external effects.                      *)
Edit(t, i, r) ==
    /\ pc[t] = "open"
    /\ work' = [work EXCEPT ![t] = [j \in Id |-> IF j = i THEN r ELSE work[t][j]]]
    /\ UNCHANGED <<journal, reset, pc, since, snap, suspended>>

Admit(t, i) ==
    /\ work[t][i] = Absent
    /\ Edit(t, i, Record("live", NoTxn, FirstNote, since[t]))

Bind(t, i) ==
    LET r == work[t][i] IN
    /\ r.life = "live" /\ r.thread = NoTxn
    /\ Edit(t, i, Record("live", t, r.note, r.gen))

Annotate(t, i, n) ==
    LET r == work[t][i] IN
    /\ r.life = "live" /\ r.note # n
    /\ Edit(t, i, Record("live", r.thread, n, r.gen))

RetireAway(t, i) ==  \* mutant: a retired record is taken for one that is gone
    LET r == work[t][i] IN
    /\ r.life = "live"
    /\ Edit(t, i, Record("absent", r.thread, r.note, r.gen))

Retire(t, i) ==
    LET r == work[t][i] IN
    /\ r.life = "live"
    /\ Edit(t, i, Record("retired", r.thread, r.note, r.gen))

-----------------------------------------------------------------------------
CheckedAlone(t) ==  \* mutant: what is validated is the proposal, not the merge
    /\ pc[t] = "open"
    /\ ~fence
    /\ since[t] = gen
    /\ ~Conflict(t)
    /\ Unique(work[t])

(* save: the transaction's edits, checked against the file as it is now, are *)
(* written at once unless they finish a record.                              *)
Checked(t) ==
    /\ pc[t] = "open"
    /\ ~fence
    /\ since[t] = gen
    /\ ~Conflict(t)
    /\ Unique(Merged(t))

Commit(t) ==
    /\ Checked(t)
    /\ Finished(Merged(t)) = {}
    /\ file' = Merged(t)
    /\ Sync(t, Merged(t))
    /\ UNCHANGED <<gen, cold, reset, pc, since, suspended>>

CommitFinished(t) ==
    /\ Checked(t)
    /\ Finished(Merged(t)) # {}
    /\ Suspend(t, Merged(t), "open")
    /\ UNCHANGED <<journal, reset, since, snap, work>>

(* The history notes what is retained for the generation of the file.         *)
Retain(t, originals) ==
    cold' = IF since[t] = gen THEN cold \union originals ELSE cold

ArchiveAnyway(t) ==  \* mutant: a failure to retain goes unnoticed
    /\ pc[t] = "archiving"
    /\ \E written \in SUBSET Originals(plan[t]) : Retain(t, written)
    /\ Goto(t, "archived")
    /\ UNCHANGED <<gen, file, reset, since, snap, work, suspended>>

(* Without the journal's lease: retain the originals.                         *)
Archive(t) ==
    /\ pc[t] = "archiving"
    /\ Retain(t, Originals(plan[t]))
    /\ Goto(t, "archived")
    /\ UNCHANGED <<gen, file, reset, since, snap, work, suspended>>

UnmovedFile(t) ==  \* mutant: the generation is not looked at again
    /\ ~fence
    /\ file = base[t]

UnmovedGeneration(t) ==  \* mutant: the records are not compared again
    /\ ~fence
    /\ gen = since[t]

(* The lease is back: neither a reset nor another save came in between.      *)
Unmoved(t) ==
    /\ ~fence
    /\ gen = since[t]
    /\ file = base[t]

Rewrite(t) ==
    LET table == Projected(plan[t]) IN
    /\ pc[t] = "archived"
    /\ Unmoved(t)
    /\ file' = table
    /\ IF goal[t] = "open" THEN Sync(t, table) ELSE UNCHANGED <<snap, work>>
    /\ Goto(t, goal[t])
    /\ base' = [base EXCEPT ![t] = Empty]
    /\ plan' = [plan EXCEPT ![t] = Empty]
    /\ goal' = [goal EXCEPT ![t] = "idle"]
    /\ UNCHANGED <<gen, cold, reset, since>>

(* The end of a transaction: done, refused, conflicting, aborted or crashed;  *)
(* what it leaves behind does not matter.                                     *)
End(t) ==
    /\ pc[t] # "idle"
    /\ Goto(t, "idle")
    /\ since' = [since EXCEPT ![t] = 0]
    /\ Sync(t, Empty)
    /\ base' = [base EXCEPT ![t] = Empty]
    /\ plan' = [plan EXCEPT ![t] = Empty]
    /\ goal' = [goal EXCEPT ![t] = "idle"]
    /\ IF pc[t] = "archiving"
         THEN \E written \in SUBSET Originals(plan[t]) : Retain(t, written)
         ELSE UNCHANGED cold
    /\ UNCHANGED <<gen, file, reset>>

-----------------------------------------------------------------------------
(* The notification reset.  Its record is written under the journal's lease,  *)
(* when exclusive has nothing left to project.  A repeated reset continues,   *)
(* or begins afresh with a new id; then the journal is emptied again unless   *)
(* the coordinator was already replaced (late).                               *)
Fence ==
    /\ target < MaxGen
    /\ Finished(file) = {}
    /\ fence' = TRUE
    /\ target' = target + 1
    /\ \E late \in BOOLEAN :
         /\ late => fence /\ cleared
         /\ cleared' = late
    /\ UNCHANGED <<journal, pc, since, snap, work, suspended>>

(* The journal is emptied once for an id ...                                  *)
Clear ==
    /\ fence
    /\ ~cleared
    /\ gen # target
    /\ file' = Empty
    /\ cold' = {}
    /\ gen' = target
    /\ UNCHANGED <<reset, pc, since, snap, work, suspended>>

(* ... however often the step is repeated before its end is noted.            *)
Cleared ==
    /\ fence
    /\ ~cleared
    /\ gen = target
    /\ cleared' = TRUE
    /\ UNCHANGED <<journal, fence, target, pc, since, snap, work, suspended>>

Restore ==
    /\ fence
    /\ cleared
    /\ fence' = FALSE
    /\ cleared' = FALSE
    /\ UNCHANGED <<journal, target, pc, since, snap, work, suspended>>

-----------------------------------------------------------------------------
Saving(t) ==
    \/ Begin(t) \/ Reclaim(t) \/ Reconciled(t) \/ Read(t) \/ Commit(t)
    \/ CommitFinished(t) \/ Archive(t) \/ Rewrite(t) \/ End(t)
Editing(t, i) ==
    Admit(t, i) \/ Bind(t, i) \/ Retire(t, i) \/ \E n \in Note : Annotate(t, i, n)

Next ==
    \/ \E t \in Txn : Saving(t) \/ \E i \in Id : Editing(t, i)
    \/ Fence \/ Clear \/ Cleared \/ Restore

Spec == Init /\ [][Next]_vars

-----------------------------------------------------------------------------
(* Types.                                                                   *)
TypeOK ==
    /\ gen \in 0..MaxGen
    /\ file \in Tables
    /\ cold \subseteq Id \X Records
    /\ fence \in BOOLEAN
    /\ target \in 0..MaxGen
    /\ cleared \in BOOLEAN
    /\ pc \in [Txn -> {"idle", "reconciling", "reading", "open", "archiving", "archived"}]
    /\ since \in [Txn -> 0..MaxGen]
    /\ snap \in [Txn -> Tables]
    /\ work \in [Txn -> Tables]
    /\ base \in [Txn -> Tables]
    /\ plan \in [Txn -> Tables]
    /\ goal \in [Txn -> {"idle", "reading", "open"}]

(* After a reset no transaction that began before it brings a record back,   *)
(* not even one that was archiving while the reset came and went.            *)
NoStaleAdmission == \A i \in Id : file[i] # Absent => file[i].gen = gen

(* Two transactions that each admitted a record, seeing none, never both     *)
(* start work on the issue.                                                  *)
OneActive == Unique(file)

(* A record only shrinks to a reference when the very original it refers to   *)
(* was retained: whatever failed or was repeated on the way.                  *)
ArchivedFirst ==
    \A i \in Id : file[i].life = "terminal" => <<i, Original(file[i])>> \in cold

(* The native session of a record is never exchanged for one that another     *)
(* transaction made meanwhile.                                                *)
SessionKept ==
    [][\A i \in Id :
         gen' = gen /\ file[i].thread # NoTxn => file'[i].thread = file[i].thread]_vars

(* The journal implements JournalSpec: no save undoes what its transaction    *)
(* has not seen, and projection changes nothing anyone can tell.              *)
Restored(table) ==
    [i \in Id |-> IF table[i].life = "terminal" THEN Original(table[i]) ELSE table[i]]
Opened(t) == pc[t] = "open" \/ goal[t] = "open"
J == INSTANCE JournalSpec WITH
       table <- Restored(file),
       open <- {t \in Txn : Opened(t)},
       seen <- [t \in Txn |-> IF Opened(t) THEN Restored(snap[t]) ELSE Empty],
       seenGen <- [t \in Txn |-> IF Opened(t) THEN since[t] ELSE 0]
ImplementsJournal == J!Spec
=============================================================================
