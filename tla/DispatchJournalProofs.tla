----------------------- MODULE DispatchJournalProofs -----------------------
(* Proofs about DispatchJournal, for any number of transactions, records,    *)
(* issues and resets.                                                        *)
EXTENDS DispatchJournal, TLAPS

(* What the steps of the protocol do with records stays among records.       *)
LEMMA RecordsType ==
    ASSUME NEW life \in {"live", "retired", "terminal"}, NEW thread \in Txn \union {NoTxn},
           NEW note \in Note, NEW g \in 0..MaxGen
    PROVE  Record(life, thread, note, g) \in Records
  BY DEF Record, Records

LEMMA AbsentFields ==
    /\ Absent.life = "absent" /\ Absent.thread = NoTxn
    /\ \A r \in Records : r # Absent /\ r.life # "absent"
  BY DEF Absent, Records

LEMMA MergedType ==
    ASSUME NEW b \in Records \union {Absent}, NEW p \in Records \union {Absent},
           NEW c \in Records \union {Absent}, Mergeable(b, p, c)
    PROVE  MergeRecord(b, p, c) \in Records \union {Absent}
  <1>1. CASE p = b \/ c = b
    BY <1>1 DEF MergeRecord
  <1>2. CASE p # b /\ c # b
    <2>1. b \in Records /\ p \in Records /\ c.life = b.life
      BY <1>2 DEF Mergeable, SameProtected
    <2>2. c \in Records
      BY <2>1, AbsentFields
    <2>3. /\ p.life \in {"live", "retired", "terminal"}
          /\ p.thread \in Txn \union {NoTxn}
          /\ p.note \in Note /\ c.note \in Note
          /\ p.gen \in 0..MaxGen
      BY <2>1, <2>2 DEF Records
    <2> QED BY <1>2, <2>3, RecordsType DEF MergeRecord
  <1> QED BY <1>1, <1>2

LEMMA ProjectedType ==
    ASSUME NEW table \in Tables
    PROVE  Projected(table) \in Tables
  <1>1. ASSUME NEW i \in Id, table[i].life = "retired"
        PROVE  Terminal(table[i]) \in Records
    <2>1. table[i] \in Records
      BY <1>1, AbsentFields DEF Tables
    <2> QED BY <2>1, RecordsType DEF Terminal, Records
  <1> QED BY <1>1 DEF Projected, Tables

LEMMA OriginalsType ==
    ASSUME NEW table \in Tables
    PROVE  Originals(table) \subseteq Id \X Records
  <1>1. \A i \in Id : table[i].life = "retired" => table[i] \in Records
    BY AbsentFields DEF Tables
  <1> QED BY <1>1 DEF Originals, Finished

LEMMA EmptyType == Empty \in Tables
  BY DEF Empty, Tables

(* Every reachable state is well typed.                                      *)
LEMMA TypeInit == Init => TypeOK
  <1> SUFFICES ASSUME Init PROVE TypeOK
    OBVIOUS
  <1>1. file \in Tables
    <2>1. Record("retired", NoTxn, FirstNote, 0) \in Records
      BY JournalAssumption, RecordsType
    <2>2. \A i \in Id : Legacy(i) \in Tables
      BY <2>1, EmptyType DEF Legacy, Tables
    <2> QED BY <2>2, EmptyType DEF Init
  <1>2. /\ snap \in [Txn -> Tables] /\ work \in [Txn -> Tables]
        /\ base \in [Txn -> Tables] /\ plan \in [Txn -> Tables]
    BY EmptyType DEF Init
  <1>3. gen \in 0..MaxGen /\ target \in 0..MaxGen /\ since \in [Txn -> 0..MaxGen]
    BY JournalAssumption DEF Init
  <1>4. cold \subseteq Id \X Records /\ fence \in BOOLEAN /\ cleared \in BOOLEAN
    BY DEF Init
  <1>5. /\ pc \in [Txn -> {"idle", "reconciling", "reading", "open", "archiving", "archived"}]
        /\ goal \in [Txn -> {"idle", "reading", "open"}]
    BY DEF Init
  <1> QED BY <1>1, <1>2, <1>3, <1>4, <1>5 DEF TypeOK

LEMMA MergedTable ==
    ASSUME TypeOK, NEW t \in Txn, ~Conflict(t)
    PROVE  Merged(t) \in Tables
  <1>1. ASSUME NEW i \in Id
        PROVE  MergeRecord(snap[t][i], work[t][i], file[i]) \in Records \union {Absent}
    <2>1. Mergeable(snap[t][i], work[t][i], file[i])
      BY DEF Conflict
    <2>2. /\ snap[t][i] \in Records \union {Absent}
          /\ work[t][i] \in Records \union {Absent}
          /\ file[i] \in Records \union {Absent}
      BY DEF TypeOK, Tables
    <2> QED BY <2>1, <2>2, MergedType
  <1> QED BY <1>1 DEF Merged, Tables

LEMMA EditType ==
    ASSUME TypeOK, NEW t \in Txn, NEW i \in Id, NEW r \in Records, Edit(t, i, r)
    PROVE  TypeOK'
  <1>1. [j \in Id |-> IF j = i THEN r ELSE work[t][j]] \in Tables
    BY DEF TypeOK, Tables
  <1>2. work' \in [Txn -> Tables]
    BY <1>1 DEF Edit, TypeOK
  <1> QED BY <1>2 DEF Edit, TypeOK, journal, reset, suspended

LEMMA EditedRecords ==
    ASSUME TypeOK, NEW t \in Txn, NEW i \in Id, Editing(t, i)
    PROVE  \E r \in Records :
             /\ Edit(t, i, r)
             /\ r.life \in {"live", "retired"}
             /\ work[t][i] = Absent \/ work[t][i].life = "live"
             /\ work[t][i] # Absent => r.gen = work[t][i].gen
             /\ work[t][i] = Absent => r.gen = since[t]
             /\ work[t][i].thread # NoTxn => r.thread = work[t][i].thread
  <1> DEFINE w == work[t][i]
  <1>1. w \in Records \union {Absent} /\ since[t] \in 0..MaxGen
    BY DEF TypeOK, Tables
  <1>2. w.life = "live" => w \in Records
    BY <1>1, AbsentFields
  <1> HIDE DEF w
  <1>3. w \in Records =>
          w.thread \in Txn \union {NoTxn} /\ w.note \in Note /\ w.gen \in 0..MaxGen
    BY DEF Records
  <1>4. CASE Admit(t, i)
    <2>1. Record("live", NoTxn, FirstNote, since[t]) \in Records
      BY <1>1, RecordsType, JournalAssumption
    <2>2. w = Absent /\ w.thread = NoTxn
      BY <1>4, AbsentFields DEF Admit, w
    <2> QED BY <1>4, <2>1, <2>2 DEF Admit, Record, w
  <1>5. CASE Bind(t, i)
    <2>1. w.life = "live" /\ w.thread = NoTxn /\ Edit(t, i, Record("live", t, w.note, w.gen))
      BY <1>5 DEF Bind, w
    <2>2. Record("live", t, w.note, w.gen) \in Records
      BY <1>2, <1>3, <2>1, RecordsType
    <2>3. w # Absent
      BY <2>1, AbsentFields
    <2> QED BY <2>1, <2>2, <2>3 DEF Record, w
  <1>6. ASSUME NEW n \in Note, Annotate(t, i, n)
        PROVE  \E r \in Records :
                 /\ Edit(t, i, r)
                 /\ r.life \in {"live", "retired"}
                 /\ w = Absent \/ w.life = "live"
                 /\ w # Absent => r.gen = w.gen
                 /\ w = Absent => r.gen = since[t]
                 /\ w.thread # NoTxn => r.thread = w.thread
    <2>1. w.life = "live" /\ Edit(t, i, Record("live", w.thread, n, w.gen))
      BY <1>6 DEF Annotate, w
    <2>2. Record("live", w.thread, n, w.gen) \in Records
      BY <1>2, <1>3, <2>1, RecordsType
    <2>3. w # Absent
      BY <2>1, AbsentFields
    <2> QED BY <2>1, <2>2, <2>3 DEF Record
  <1>7. CASE Retire(t, i)
    <2>1. w.life = "live" /\ Edit(t, i, Record("retired", w.thread, w.note, w.gen))
      BY <1>7 DEF Retire, w
    <2>2. Record("retired", w.thread, w.note, w.gen) \in Records
      BY <1>2, <1>3, <2>1, RecordsType
    <2>3. w # Absent
      BY <2>1, AbsentFields
    <2> QED BY <2>1, <2>2, <2>3 DEF Record, w
  <1> QED BY <1>4, <1>5, <1>6, <1>7 DEF Editing, w

LEMMA TypeNext == TypeOK /\ [Next]_vars => TypeOK'
  <1> SUFFICES ASSUME TypeOK, [Next]_vars PROVE TypeOK'
    OBVIOUS
  <1> USE DEF journal, reset, suspended, Goto, Sync
  <1>1. ASSUME NEW t \in Txn, Begin(t) \/ Reconciled(t) PROVE TypeOK'
    BY <1>1 DEF Begin, Reconciled, TypeOK
  <1>2. ASSUME NEW t \in Txn, Reclaim(t) PROVE TypeOK'
    BY <1>2 DEF Reclaim, Suspend, TypeOK
  <1>3. ASSUME NEW t \in Txn, Read(t) PROVE TypeOK'
    BY <1>3 DEF Read, TypeOK
  <1>4. ASSUME NEW t \in Txn, Commit(t) PROVE TypeOK'
    <2>1. Merged(t) \in Tables
      BY <1>4, MergedTable DEF Commit, Checked
    <2> QED BY <1>4, <2>1 DEF Commit, TypeOK
  <1>5. ASSUME NEW t \in Txn, CommitFinished(t) PROVE TypeOK'
    <2>1. Merged(t) \in Tables
      BY <1>5, MergedTable DEF CommitFinished, Checked
    <2> QED BY <1>5, <2>1 DEF CommitFinished, Suspend, TypeOK
  <1>6. ASSUME NEW t \in Txn, Archive(t) PROVE TypeOK'
    <2>1. Originals(plan[t]) \subseteq Id \X Records
      BY OriginalsType DEF TypeOK
    <2>2. cold' \subseteq Id \X Records
      BY <1>6, <2>1 DEF Archive, Retain, TypeOK
    <2> QED BY <1>6, <2>2 DEF Archive, TypeOK
  <1>7. ASSUME NEW t \in Txn, Rewrite(t) PROVE TypeOK'
    <2>1. Projected(plan[t]) \in Tables
      BY ProjectedType DEF TypeOK
    <2>2. pc' \in [Txn -> {"idle", "reconciling", "reading", "open", "archiving", "archived"}]
      BY <1>7 DEF Rewrite, TypeOK
    <2>3. snap' \in [Txn -> Tables] /\ work' \in [Txn -> Tables]
      BY <1>7, <2>1 DEF Rewrite, TypeOK
    <2>4. base' \in [Txn -> Tables] /\ plan' \in [Txn -> Tables]
      BY <1>7, EmptyType DEF Rewrite, TypeOK
    <2>5. goal' \in [Txn -> {"idle", "reading", "open"}]
      BY <1>7 DEF Rewrite, TypeOK
    <2>6. file' \in Tables /\ UNCHANGED <<gen, cold, fence, target, cleared, since>>
      BY <1>7, <2>1 DEF Rewrite
    <2> QED BY <2>2, <2>3, <2>4, <2>5, <2>6 DEF TypeOK
  <1>8. ASSUME NEW t \in Txn, End(t) PROVE TypeOK'
    <2>1. Originals(plan[t]) \subseteq Id \X Records
      BY OriginalsType DEF TypeOK
    <2>2. cold' \subseteq Id \X Records
      BY <1>8, <2>1 DEF End, Retain, TypeOK
    <2>3. /\ snap' \in [Txn -> Tables] /\ work' \in [Txn -> Tables]
          /\ base' \in [Txn -> Tables] /\ plan' \in [Txn -> Tables]
      BY <1>8, EmptyType DEF End, TypeOK
    <2>4. /\ since' \in [Txn -> 0..MaxGen]
          /\ pc' \in [Txn -> {"idle", "reconciling", "reading", "open", "archiving",
                              "archived"}]
          /\ goal' \in [Txn -> {"idle", "reading", "open"}]
      BY <1>8, JournalAssumption DEF End, TypeOK
    <2> QED BY <1>8, <2>2, <2>3, <2>4 DEF End, TypeOK
  <1>9. ASSUME NEW t \in Txn, NEW i \in Id, Editing(t, i) PROVE TypeOK'
    BY <1>9, EditedRecords, EditType
  <1>10. CASE Fence
    <2>1. target + 1 \in 0..MaxGen
      BY <1>10, JournalAssumption DEF Fence, TypeOK
    <2> QED BY <1>10, <2>1 DEF Fence, TypeOK
  <1>11. CASE Clear
    BY <1>11, EmptyType DEF Clear, TypeOK
  <1>12. CASE Cleared \/ Restore
    BY <1>12 DEF Cleared, Restore, TypeOK
  <1>13. CASE UNCHANGED vars
    BY <1>13 DEF vars, TypeOK
  <1> QED
    BY <1>1, <1>2, <1>3, <1>4, <1>5, <1>6, <1>7, <1>8, <1>9, <1>10, <1>11, <1>12, <1>13
       DEF Next, Saving

THEOREM TypeCorrect == Spec => []TypeOK
  BY TypeInit, TypeNext, PTL DEF Spec
-----------------------------------------------------------------------------
(* Places and generations: a plan exists while the lease is given up, and no  *)
(* snapshot is younger than the file.                                         *)
Away(t) == pc[t] \in {"archiving", "archived"}
PlaceInv == \A t \in Txn : IF Away(t) THEN goal[t] \in {"reading", "open"} ELSE goal[t] = "idle"
AgeInv == gen <= target /\ \A t \in Txn : since[t] <= gen

LEMMA PlaceInit == Init => PlaceInv /\ AgeInv
  BY DEF Init, PlaceInv, AgeInv, Away

LEMMA PlaceNext == TypeOK /\ PlaceInv /\ AgeInv /\ [Next]_vars => PlaceInv' /\ AgeInv'
  <1> SUFFICES ASSUME TypeOK, PlaceInv, AgeInv, [Next]_vars PROVE PlaceInv' /\ AgeInv'
    OBVIOUS
  <1> USE DEF PlaceInv, AgeInv, Away, journal, reset, suspended, Goto, Sync
  <1>0. gen \in Nat /\ target \in Nat /\ \A t \in Txn : since[t] \in Nat
    BY JournalAssumption DEF TypeOK
  <1>1. ASSUME NEW t \in Txn, Begin(t) \/ Reconciled(t) PROVE PlaceInv' /\ AgeInv'
    BY <1>1 DEF Begin, Reconciled, TypeOK
  <1>2. ASSUME NEW t \in Txn, Reclaim(t) PROVE PlaceInv' /\ AgeInv'
    BY <1>0, <1>2 DEF Reclaim, Suspend, TypeOK
  <1>3. ASSUME NEW t \in Txn, Read(t) PROVE PlaceInv' /\ AgeInv'
    BY <1>0, <1>3 DEF Read, TypeOK
  <1>4. ASSUME NEW t \in Txn, Commit(t) PROVE PlaceInv' /\ AgeInv'
    BY <1>4 DEF Commit
  <1>5. ASSUME NEW t \in Txn, CommitFinished(t) PROVE PlaceInv' /\ AgeInv'
    BY <1>5 DEF CommitFinished, Suspend, TypeOK
  <1>6. ASSUME NEW t \in Txn, Archive(t) PROVE PlaceInv' /\ AgeInv'
    BY <1>6 DEF Archive, TypeOK
  <1>7. ASSUME NEW t \in Txn, Rewrite(t) PROVE PlaceInv' /\ AgeInv'
    <2>1. goal[t] \in {"reading", "open"}
      BY <1>7 DEF Rewrite
    <2>2. PlaceInv'
      BY <1>7, <2>1 DEF Rewrite, TypeOK
    <2>3. AgeInv'
      BY <1>7 DEF Rewrite
    <2> QED BY <2>2, <2>3
  <1>8. ASSUME NEW t \in Txn, End(t) PROVE PlaceInv' /\ AgeInv'
    BY <1>0, <1>8 DEF End, TypeOK
  <1>9. ASSUME NEW t \in Txn, NEW i \in Id, Editing(t, i) PROVE PlaceInv' /\ AgeInv'
    <2>1. PICK r \in Records : Edit(t, i, r)
      BY <1>9, EditedRecords
    <2> QED BY <2>1 DEF Edit
  <1>10. CASE Fence
    BY <1>0, <1>10 DEF Fence
  <1>11. CASE Clear
    BY <1>0, <1>11 DEF Clear
  <1>12. CASE Cleared \/ Restore
    BY <1>12 DEF Cleared, Restore
  <1>13. CASE UNCHANGED vars
    BY <1>13 DEF vars
  <1> QED
    BY <1>1, <1>2, <1>3, <1>4, <1>5, <1>6, <1>7, <1>8, <1>9, <1>10, <1>11, <1>12, <1>13
       DEF Next, Saving

-----------------------------------------------------------------------------
(* Generations of records.                                                    *)
Born(table, g) == \A i \in Id : table[i] # Absent => table[i].gen = g
BornInv ==
    /\ Born(file, gen)
    /\ \A t \in Txn : Opened(t) => Born(work[t], since[t])
    /\ \A t \in Txn : Away(t) => Born(plan[t], since[t])

LEMMA MergedBorn ==
    ASSUME NEW t \in Txn, NEW g, ~Conflict(t), Born(work[t], g), Born(file, g)
    PROVE  Born(Merged(t), g)
  <1> SUFFICES ASSUME NEW i \in Id, MergeRecord(snap[t][i], work[t][i], file[i]) # Absent
               PROVE  MergeRecord(snap[t][i], work[t][i], file[i]).gen = g
    BY DEF Born, Merged
  <1>1. Mergeable(snap[t][i], work[t][i], file[i])
    BY DEF Conflict
  <1>2. /\ work[t][i] # Absent => work[t][i].gen = g
        /\ file[i] # Absent => file[i].gen = g
    BY DEF Born
  <1> QED BY <1>1, <1>2 DEF MergeRecord, Mergeable, Record

LEMMA ProjectedBorn ==
    ASSUME NEW table \in Tables, NEW g, Born(table, g)
    PROVE  Born(Projected(table), g)
  <1> SUFFICES ASSUME NEW i \in Id, Projected(table)[i] # Absent
               PROVE  Projected(table)[i].gen = g
    BY DEF Born
  <1>1. CASE table[i].life = "retired"
    <2>1. table[i] # Absent
      BY <1>1, AbsentFields
    <2> QED BY <1>1, <2>1 DEF Projected, Terminal, Record, Born
  <1>2. CASE table[i].life # "retired"
    BY <1>2 DEF Projected, Born
  <1> QED BY <1>1, <1>2

LEMMA BornInit == Init => BornInv
  <1> SUFFICES ASSUME Init PROVE BornInv
    OBVIOUS
  <1>1. \A i \in Id : Born(Legacy(i), 0)
    BY DEF Born, Legacy, Empty, Record
  <1>2. Born(Empty, 0)
    BY DEF Born, Empty
  <1> QED BY <1>1, <1>2 DEF Init, BornInv, Opened, Away

LEMMA BornNext == TypeOK /\ PlaceInv /\ AgeInv /\ BornInv /\ [Next]_vars => BornInv'
  <1> SUFFICES ASSUME TypeOK, PlaceInv, AgeInv, BornInv, [Next]_vars PROVE BornInv'
    OBVIOUS
  <1> USE DEF BornInv, Opened, Away, journal, reset, suspended, Goto, Sync
  <1>1. ASSUME NEW t \in Txn, Begin(t) \/ Reconciled(t) PROVE BornInv'
    BY <1>1 DEF Begin, Reconciled, TypeOK, Born
  <1>2. ASSUME NEW t \in Txn, Reclaim(t) PROVE BornInv'
    BY <1>2 DEF Reclaim, Suspend, TypeOK, PlaceInv, Born
  <1>3. ASSUME NEW t \in Txn, Read(t) PROVE BornInv'
    BY <1>3 DEF Read, TypeOK, PlaceInv, Born
  <1>4. ASSUME NEW t \in Txn, Commit(t) PROVE BornInv'
    <2>1. Born(Merged(t), gen)
      BY <1>4, MergedBorn DEF Commit, Checked
    <2>2. /\ file' = Merged(t) /\ work' = [work EXCEPT ![t] = Merged(t)]
          /\ UNCHANGED <<gen, pc, since, plan, goal>> /\ since[t] = gen
      BY <1>4 DEF Commit, Checked
    <2> QED BY <2>1, <2>2 DEF TypeOK, Born
  <1>5. ASSUME NEW t \in Txn, CommitFinished(t) PROVE BornInv'
    <2>1. Born(Merged(t), gen)
      BY <1>5, MergedBorn DEF CommitFinished, Checked
    <2>2. /\ plan' = [plan EXCEPT ![t] = Merged(t)] /\ goal' = [goal EXCEPT ![t] = "open"]
          /\ pc' = [pc EXCEPT ![t] = "archiving"] /\ pc[t] = "open"
          /\ UNCHANGED <<gen, file, since, work>> /\ since[t] = gen
      BY <1>5 DEF CommitFinished, Checked, Suspend
    <2> QED BY <2>1, <2>2 DEF TypeOK, Born
  <1>6. ASSUME NEW t \in Txn, Archive(t) PROVE BornInv'
    BY <1>6 DEF Archive, TypeOK, Born
  <1>7. ASSUME NEW t \in Txn, Rewrite(t) PROVE BornInv'
    <2>1. Born(Projected(plan[t]), gen)
      BY <1>7, ProjectedBorn DEF Rewrite, Unmoved, TypeOK
    <2>2. /\ file' = Projected(plan[t]) /\ since[t] = gen /\ UNCHANGED <<gen, since>>
          /\ goal[t] = "open" => work' = [work EXCEPT ![t] = Projected(plan[t])]
          /\ goal[t] # "open" => work' = work
          /\ pc' = [pc EXCEPT ![t] = goal[t]] /\ pc[t] = "archived"
          /\ plan' = [plan EXCEPT ![t] = Empty] /\ goal' = [goal EXCEPT ![t] = "idle"]
      BY <1>7 DEF Rewrite, Unmoved
    <2>3. goal[t] \in {"reading", "open"}
      BY <2>2 DEF PlaceInv
    <2>4. ASSUME NEW u \in Txn, Opened(u)' PROVE Born(work'[u], since'[u])
      BY <2>1, <2>2, <2>3, <2>4 DEF TypeOK
    <2>5. ASSUME NEW u \in Txn, Away(u)' PROVE Born(plan'[u], since'[u])
      BY <2>2, <2>3, <2>5 DEF TypeOK
    <2>6. Born(file', gen')
      BY <2>1, <2>2
    <2> QED BY <2>4, <2>5, <2>6 DEF Born
  <1>8. ASSUME NEW t \in Txn, End(t) PROVE BornInv'
    BY <1>8 DEF End, TypeOK, Born
  <1>9. ASSUME NEW t \in Txn, NEW i \in Id, Editing(t, i) PROVE BornInv'
    <2>1. PICK r \in Records :
            /\ Edit(t, i, r)
            /\ work[t][i] # Absent => r.gen = work[t][i].gen
            /\ work[t][i] = Absent => r.gen = since[t]
      BY <1>9, EditedRecords
    <2>2. /\ pc[t] = "open"
          /\ work' = [work EXCEPT ![t] = [j \in Id |-> IF j = i THEN r ELSE work[t][j]]]
          /\ UNCHANGED <<gen, file>> /\ UNCHANGED <<pc, since, plan, goal>>
      BY <2>1 DEF Edit
    <2>3. Born(work'[t], since[t])
      <3>1. Born(work[t], since[t])
        BY <2>2
      <3>2. work'[t] = [j \in Id |-> IF j = i THEN r ELSE work[t][j]]
        BY <2>2 DEF TypeOK
      <3>3. r.gen = since[t]
        BY <2>1, <3>1 DEF Born
      <3> QED BY <3>1, <3>2, <3>3 DEF Born
    <2>4. \A u \in Txn : u # t => work'[u] = work[u]
      BY <2>2 DEF TypeOK
    <2> QED BY <2>2, <2>3, <2>4 DEF Born
  <1>10. CASE Fence \/ Cleared \/ Restore
    BY <1>10 DEF Fence, Cleared, Restore, Born
  <1>11. CASE Clear
    BY <1>11 DEF Clear, Born, Empty
  <1>12. CASE UNCHANGED vars
    BY <1>12 DEF vars, Born
  <1> QED
    BY <1>1, <1>2, <1>3, <1>4, <1>5, <1>6, <1>7, <1>8, <1>9, <1>10, <1>11, <1>12
       DEF Next, Saving

(* Whatever transactions were doing when a reset began, once the journal was  *)
(* emptied only records admitted since are in it.                             *)
THEOREM ResetIsFinal == Spec => []NoStaleAdmission
  <1>1. BornInv => NoStaleAdmission
    BY DEF BornInv, Born, NoStaleAdmission
  <1> QED
    BY <1>1, BornInit, BornNext, PlaceInit, PlaceNext, TypeCorrect, PTL DEF Spec

-----------------------------------------------------------------------------
(* One record at work on an issue: what is planned is as unique as the file.  *)
UniqueInv ==
    /\ Unique(file)
    /\ \A t \in Txn : Away(t) => Unique(plan[t])

LEMMA UniqueInit == Init => UniqueInv
  <1>1. Unique(Empty) /\ \A i \in Id : Unique(Legacy(i))
    BY DEF Unique, Empty, Absent, Legacy, Record
  <1> QED BY <1>1 DEF Init, UniqueInv, Away

LEMMA ProjectedUnique ==
    ASSUME NEW table, Unique(table)
    PROVE  Unique(Projected(table))
  <1>1. ASSUME NEW i \in Id, Projected(table)[i].life = "live"
        PROVE  table[i].life = "live"
    BY <1>1 DEF Projected, Terminal, Record
  <1> QED BY <1>1 DEF Unique

LEMMA UniqueNext == TypeOK /\ PlaceInv /\ UniqueInv /\ [Next]_vars => UniqueInv'
  <1> SUFFICES ASSUME TypeOK, PlaceInv, UniqueInv, [Next]_vars PROVE UniqueInv'
    OBVIOUS
  <1> USE DEF UniqueInv, Away, journal, reset, suspended, Goto, Sync
  <1>1. ASSUME NEW t \in Txn, Begin(t) \/ Reconciled(t) \/ Read(t) PROVE UniqueInv'
    BY <1>1 DEF Begin, Reconciled, Read, TypeOK, Unique
  <1>2. ASSUME NEW t \in Txn, Reclaim(t) PROVE UniqueInv'
    BY <1>2 DEF Reclaim, Suspend, TypeOK, Unique
  <1>3. ASSUME NEW t \in Txn, Commit(t) PROVE UniqueInv'
    <2>1. Unique(Merged(t)) /\ file' = Merged(t) /\ UNCHANGED <<pc, plan>>
      BY <1>3 DEF Commit, Checked
    <2> QED BY <2>1 DEF Unique
  <1>4. ASSUME NEW t \in Txn, CommitFinished(t) PROVE UniqueInv'
    <2>1. /\ Unique(Merged(t)) /\ UNCHANGED file
          /\ plan' = [plan EXCEPT ![t] = Merged(t)]
          /\ pc' = [pc EXCEPT ![t] = "archiving"]
      BY <1>4 DEF CommitFinished, Checked, Suspend
    <2> QED BY <2>1 DEF TypeOK, Unique
  <1>5. ASSUME NEW t \in Txn, Archive(t) PROVE UniqueInv'
    BY <1>5 DEF Archive, TypeOK, Unique
  <1>6. ASSUME NEW t \in Txn, Rewrite(t) PROVE UniqueInv'
    <2>1. /\ file' = Projected(plan[t]) /\ plan' = [plan EXCEPT ![t] = Empty]
          /\ pc' = [pc EXCEPT ![t] = goal[t]] /\ pc[t] = "archived"
      BY <1>6 DEF Rewrite
    <2>2. Unique(Projected(plan[t]))
      BY <2>1, ProjectedUnique
    <2>3. goal[t] \in {"reading", "open"}
      BY <1>6, <2>1 DEF PlaceInv
    <2>4. ASSUME NEW u \in Txn, Away(u)' PROVE Unique(plan'[u])
      BY <2>1, <2>3, <2>4 DEF TypeOK
    <2> QED BY <2>1, <2>2, <2>4 DEF Unique
  <1>7. ASSUME NEW t \in Txn, End(t) PROVE UniqueInv'
    BY <1>7 DEF End, TypeOK, Unique
  <1>8. ASSUME NEW t \in Txn, NEW i \in Id, Editing(t, i) PROVE UniqueInv'
    <2>1. PICK r \in Records : Edit(t, i, r)
      BY <1>8, EditedRecords
    <2> QED BY <2>1 DEF Edit, Unique
  <1>9. CASE Fence \/ Cleared \/ Restore \/ UNCHANGED vars
    BY <1>9 DEF Fence, Cleared, Restore, vars, Unique
  <1>10. CASE Clear
    BY <1>10 DEF Clear, Unique, Empty, Absent
  <1> QED
    BY <1>1, <1>2, <1>3, <1>4, <1>5, <1>6, <1>7, <1>8, <1>9, <1>10 DEF Next, Saving

(* However saves interleave, one record at most works on an issue.            *)
THEOREM OneRecordPerIssue == Spec => []OneActive
  <1>1. UniqueInv => OneActive
    BY DEF UniqueInv, OneActive
  <1> QED
    BY <1>1, UniqueInit, UniqueNext, PlaceInit, PlaceNext, TypeCorrect, PTL DEF Spec
-----------------------------------------------------------------------------
(* The cold store.  A projection refers to an original that was retained      *)
(* before; a plan that may still be written does too once it was archived.     *)
Kept(table) == \A i \in Id : table[i].life = "terminal" => <<i, Original(table[i])>> \in cold
StoreInv ==
    /\ Kept(file)
    /\ \A t \in Txn : Away(t) /\ since[t] = gen => Kept(plan[t])
    /\ \A t \in Txn : pc[t] = "archived" /\ since[t] = gen => Originals(plan[t]) \subseteq cold
    /\ \A t \in Txn : Opened(t) =>
         \A i \in Id : work[t][i].life = "terminal" => work[t][i] = snap[t][i]

(* A merge has no terminal record that the file has not.                      *)
LEMMA MergedTerminal ==
    ASSUME NEW t \in Txn, ~Conflict(t), NEW i \in Id,
           work[t][i].life = "terminal" => work[t][i] = snap[t][i],
           Merged(t)[i].life = "terminal"
    PROVE  Merged(t)[i] = file[i]
  <1> DEFINE b == snap[t][i]
             p == work[t][i]
             c == file[i]
  <1>1. Merged(t)[i] = MergeRecord(b, p, c)
    BY DEF Merged
  <1>2. p.life = "terminal" => p = b
    OBVIOUS
  <1> HIDE DEF b, p, c
  <1>3. CASE p = b
    BY <1>1, <1>3 DEF MergeRecord, c
  <1>4. CASE p # b /\ c = b
    BY <1>1, <1>2, <1>4 DEF MergeRecord
  <1>5. CASE p # b /\ c # b
    BY <1>1, <1>2, <1>5 DEF MergeRecord, Record
  <1> QED BY <1>3, <1>4, <1>5

LEMMA ProjectedKept ==
    ASSUME NEW table \in Tables, Kept(table), Originals(table) \subseteq cold
    PROVE  Kept(Projected(table))
  <1> SUFFICES ASSUME NEW i \in Id, Projected(table)[i].life = "terminal"
               PROVE  <<i, Original(Projected(table)[i])>> \in cold
    BY DEF Kept
  <1>1. CASE table[i].life = "retired"
    <2>1. Projected(table)[i] = Terminal(table[i])
      BY <1>1 DEF Projected
    <2>2. table[i] \in Records
      BY <1>1, AbsentFields DEF Tables
    <2>3. Original(Terminal(table[i])) = table[i]
      BY <1>1, <2>2 DEF Original, Terminal, Record, Records
    <2>4. <<i, table[i]>> \in Originals(table)
      BY <1>1 DEF Originals, Finished
    <2> QED BY <2>1, <2>3, <2>4
  <1>2. CASE table[i].life # "retired"
    <2>1. Projected(table)[i] = table[i]
      BY <1>2 DEF Projected
    <2> QED BY <2>1 DEF Kept
  <1> QED BY <1>1, <1>2

LEMMA EmptyKept == Kept(Empty) /\ \A i \in Id : Kept(Legacy(i))
  BY DEF Kept, Empty, Absent, Legacy, Record

LEMMA StoreInit == Init => StoreInv
  BY EmptyKept DEF Init, StoreInv, Opened, Away

LEMMA StoreNext == TypeOK /\ PlaceInv /\ AgeInv /\ StoreInv /\ [Next]_vars => StoreInv'
  <1> SUFFICES ASSUME TypeOK, PlaceInv, AgeInv, StoreInv, [Next]_vars PROVE StoreInv'
    OBVIOUS
  <1> USE DEF StoreInv, Opened, Away, journal, reset, suspended, Goto, Sync
  <1>1. ASSUME NEW t \in Txn, Begin(t) \/ Reconciled(t) PROVE StoreInv'
    BY <1>1 DEF Begin, Reconciled, TypeOK, Kept
  <1>2. ASSUME NEW t \in Txn, Reclaim(t) PROVE StoreInv'
    <2>1. /\ plan' = [plan EXCEPT ![t] = file] /\ goal' = [goal EXCEPT ![t] = "reading"]
          /\ pc' = [pc EXCEPT ![t] = "archiving"] /\ since' = [since EXCEPT ![t] = gen]
          /\ UNCHANGED <<gen, file, cold, work, snap>> /\ pc[t] = "reconciling"
      BY <1>2 DEF Reclaim, Suspend
    <2>2. goal[t] = "idle"
      BY <2>1 DEF PlaceInv
    <2> QED BY <2>1, <2>2 DEF TypeOK, Kept
  <1>3. ASSUME NEW t \in Txn, Read(t) PROVE StoreInv'
    <2>1. /\ since' = [since EXCEPT ![t] = gen] /\ pc' = [pc EXCEPT ![t] = "open"]
          /\ snap' = [snap EXCEPT ![t] = file] /\ work' = [work EXCEPT ![t] = file]
          /\ UNCHANGED <<gen, file, cold, plan, goal>>
      BY <1>3 DEF Read
    <2> QED BY <2>1 DEF TypeOK, Kept
  <1>4. ASSUME NEW t \in Txn, Commit(t) PROVE StoreInv'
    <2>1. /\ file' = Merged(t) /\ work' = [work EXCEPT ![t] = Merged(t)]
          /\ snap' = [snap EXCEPT ![t] = Merged(t)]
          /\ UNCHANGED <<gen, cold, pc, since, plan, goal>>
          /\ pc[t] = "open" /\ ~Conflict(t)
      BY <1>4 DEF Commit, Checked
    <2>2. \A i \in Id : Merged(t)[i].life = "terminal" => Merged(t)[i] = file[i]
      BY <2>1, MergedTerminal
    <2>3. Kept(Merged(t))
      BY <2>2 DEF Kept
    <2> QED BY <2>1, <2>3 DEF TypeOK, Kept
  <1>5. ASSUME NEW t \in Txn, CommitFinished(t) PROVE StoreInv'
    <2>1. /\ plan' = [plan EXCEPT ![t] = Merged(t)] /\ goal' = [goal EXCEPT ![t] = "open"]
          /\ pc' = [pc EXCEPT ![t] = "archiving"] /\ pc[t] = "open" /\ ~Conflict(t)
          /\ UNCHANGED <<gen, file, cold, since, work, snap>>
      BY <1>5 DEF CommitFinished, Checked, Suspend
    <2>2. \A i \in Id : Merged(t)[i].life = "terminal" => Merged(t)[i] = file[i]
      BY <2>1, MergedTerminal
    <2>3. Kept(Merged(t))
      BY <2>2 DEF Kept
    <2> QED BY <2>1, <2>3 DEF TypeOK, Kept
  <1>6. ASSUME NEW t \in Txn, Archive(t) PROVE StoreInv'
    <2>1. /\ pc' = [pc EXCEPT ![t] = "archived"] /\ pc[t] = "archiving"
          /\ UNCHANGED <<gen, file, since, snap, work, plan, goal>>
          /\ since[t] = gen => cold' = cold \union Originals(plan[t])
          /\ cold \subseteq cold'
      BY <1>6 DEF Archive, Retain
    <2>2. Kept(file)'
      BY <2>1 DEF Kept
    <2>3. \A u \in Txn : Away(u)' /\ since[u] = gen => Kept(plan[u])'
      BY <2>1 DEF TypeOK, Kept
    <2>4. \A u \in Txn : (pc'[u] = "archived" /\ since[u] = gen) => Originals(plan[u]) \subseteq cold'
      BY <2>1 DEF TypeOK
    <2>5. \A u \in Txn : Opened(u)' => Opened(u)
      BY <2>1 DEF TypeOK
    <2>6. \A u \in Txn : Originals(plan[u])' = Originals(plan[u])
      BY <2>1 DEF Originals, Finished
    <2>7. \A u \in Txn : Opened(u)' =>
            \A i \in Id : work'[u][i].life = "terminal" => work'[u][i] = snap'[u][i]
      BY <2>1, <2>5
    <2> QED BY <2>1, <2>2, <2>3, <2>4, <2>6, <2>7
  <1>7. ASSUME NEW t \in Txn, Rewrite(t) PROVE StoreInv'
    <2>1. /\ file' = Projected(plan[t]) /\ since[t] = gen /\ UNCHANGED <<gen, cold, since>>
          /\ goal[t] = "open" => /\ work' = [work EXCEPT ![t] = Projected(plan[t])]
                                 /\ snap' = [snap EXCEPT ![t] = Projected(plan[t])]
          /\ goal[t] # "open" => work' = work /\ snap' = snap
          /\ pc' = [pc EXCEPT ![t] = goal[t]] /\ pc[t] = "archived"
          /\ plan' = [plan EXCEPT ![t] = Empty] /\ goal' = [goal EXCEPT ![t] = "idle"]
      BY <1>7 DEF Rewrite, Unmoved
    <2>2. goal[t] \in {"reading", "open"} /\ plan[t] \in Tables
      BY <2>1 DEF PlaceInv, TypeOK
    <2>3. Kept(Projected(plan[t]))
      BY <2>1, <2>2, ProjectedKept
    <2>4. Kept(file)'
      BY <2>1, <2>3 DEF Kept
    <2>5. \A u \in Txn : u # t => plan'[u] = plan[u] /\ pc'[u] = pc[u] /\ goal'[u] = goal[u]
                                 /\ work'[u] = work[u] /\ snap'[u] = snap[u]
      BY <2>1, <2>2 DEF TypeOK
    <2>6. pc'[t] \in {"reading", "open"} /\ goal'[t] = "idle"
      BY <2>1, <2>2 DEF TypeOK
    <2>7. ASSUME NEW u \in Txn, Away(u)', since'[u] = gen' PROVE Kept(plan[u])' /\ u # t
      BY <2>1, <2>5, <2>6, <2>7 DEF Kept
    <2>8. ASSUME NEW u \in Txn, pc'[u] = "archived", since'[u] = gen'
          PROVE  Originals(plan[u])' \subseteq cold'
      BY <2>1, <2>5, <2>6, <2>8 DEF Originals, Finished
    <2>9. ASSUME NEW u \in Txn, Opened(u)', NEW i \in Id, work'[u][i].life = "terminal"
          PROVE  work'[u][i] = snap'[u][i]
      <3>1. CASE u = t
        <4>1. goal[t] = "open"
          BY <2>1, <2>2, <2>9, <3>1 DEF TypeOK
        <4> QED BY <2>1, <3>1, <4>1 DEF TypeOK
      <3>2. CASE u # t
        BY <2>5, <2>9, <3>2
      <3> QED BY <3>1, <3>2
    <2> QED BY <2>4, <2>7, <2>8, <2>9
  <1>8. ASSUME NEW t \in Txn, End(t) PROVE StoreInv'
    <2>1. /\ pc' = [pc EXCEPT ![t] = "idle"] /\ goal' = [goal EXCEPT ![t] = "idle"]
          /\ \A u \in Txn : u # t => /\ since'[u] = since[u] /\ work'[u] = work[u]
                                     /\ snap'[u] = snap[u] /\ plan'[u] = plan[u]
          /\ UNCHANGED <<gen, file>> /\ cold \subseteq cold'
      BY <1>8 DEF End, Retain, TypeOK
    <2>2. Kept(file)'
      BY <2>1 DEF Kept
    <2>3. \A u \in Txn : Away(u)' \/ Opened(u)' \/ pc'[u] = "archived" =>
                u # t /\ pc'[u] = pc[u] /\ goal'[u] = goal[u]
      BY <2>1 DEF TypeOK
    <2>4. ASSUME NEW u \in Txn, Away(u)', since'[u] = gen' PROVE Kept(plan[u])'
      BY <2>1, <2>3, <2>4 DEF Kept
    <2>5. ASSUME NEW u \in Txn, pc'[u] = "archived", since'[u] = gen'
          PROVE  Originals(plan[u])' \subseteq cold'
      BY <2>1, <2>3, <2>5 DEF Originals, Finished
    <2>6. ASSUME NEW u \in Txn, Opened(u)', NEW i \in Id, work'[u][i].life = "terminal"
          PROVE  work'[u][i] = snap'[u][i]
      BY <2>1, <2>3, <2>6
    <2> QED BY <2>2, <2>4, <2>5, <2>6
  <1>9. ASSUME NEW t \in Txn, NEW i \in Id, Editing(t, i) PROVE StoreInv'
    <2>1. PICK r \in Records : Edit(t, i, r) /\ r.life \in {"live", "retired"}
      BY <1>9, EditedRecords
    <2>2. /\ work' = [work EXCEPT ![t] = [j \in Id |-> IF j = i THEN r ELSE work[t][j]]]
          /\ UNCHANGED <<gen, file, cold>> /\ UNCHANGED <<pc, since, snap, plan, goal>>
      BY <2>1 DEF Edit
    <2>3. /\ work'[t] = [j \in Id |-> IF j = i THEN r ELSE work[t][j]]
          /\ \A u \in Txn : u # t => work'[u] = work[u]
      BY <2>2 DEF TypeOK
    <2>4. ASSUME NEW u \in Txn, Opened(u)', NEW k \in Id, work'[u][k].life = "terminal"
          PROVE  work'[u][k] = snap'[u][k]
      BY <2>1, <2>2, <2>3, <2>4
    <2> QED BY <2>2, <2>4 DEF Kept, Originals, Finished
  <1>10. CASE Fence \/ Cleared \/ Restore \/ UNCHANGED vars
    BY <1>10 DEF Fence, Cleared, Restore, vars, Kept, Originals, Finished
  <1>11. CASE Clear
    <2>1. /\ file' = Empty /\ gen' = target /\ gen # target
          /\ UNCHANGED <<pc, since, snap, work, plan, goal>>
      BY <1>11 DEF Clear
    <2>2. \A u \in Txn : since[u] \in Nat /\ gen \in Nat /\ target \in Nat
      BY JournalAssumption DEF TypeOK
    <2>3. \A u \in Txn : since'[u] # gen'
      BY <2>1, <2>2 DEF AgeInv
    <2>4. Kept(file)'
      BY <2>1 DEF Kept, Empty, Absent
    <2> QED BY <2>1, <2>3, <2>4
  <1> QED
    BY <1>1, <1>2, <1>3, <1>4, <1>5, <1>6, <1>7, <1>8, <1>9, <1>10, <1>11
       DEF Next, Saving

(* A record is reduced to a reference only when its original is in the cold   *)
(* store, whatever failed or was repeated on the way.                         *)
THEOREM NothingUnretained == Spec => []ArchivedFirst
  <1>1. StoreInv => ArchivedFirst
    BY DEF StoreInv, Kept, ArchivedFirst
  <1> QED
    BY <1>1, StoreInit, StoreNext, PlaceInit, PlaceNext, TypeCorrect, PTL DEF Spec
-----------------------------------------------------------------------------
(* Sessions.  A working copy keeps the session of every record it was given   *)
(* one for, and so does a plan with those it read.                            *)
Follows(old, new) == old.thread # NoTxn => new.thread = old.thread
SessionInv ==
    /\ \A t \in Txn, i \in Id : Follows(snap[t][i], work[t][i])
    /\ \A t \in Txn, i \in Id : Away(t) => Follows(base[t][i], plan[t][i])

LEMMA MergedFollows ==
    ASSUME NEW t \in Txn, NEW i \in Id, ~Conflict(t), Follows(snap[t][i], work[t][i])
    PROVE  Follows(file[i], Merged(t)[i])
  <1> DEFINE b == snap[t][i]
             p == work[t][i]
             c == file[i]
  <1>1. Mergeable(b, p, c) /\ Follows(b, p)
    BY DEF Conflict
  <1>2. Merged(t)[i] = MergeRecord(b, p, c)
    BY DEF Merged
  <1> HIDE DEF b, p, c
  <1>3. Follows(c, MergeRecord(b, p, c))
    BY <1>1 DEF Follows, Mergeable, SameProtected, MergeRecord, Record
  <1> QED BY <1>2, <1>3 DEF c

LEMMA ProjectedFollows ==
    ASSUME NEW table, NEW i \in Id
    PROVE  Projected(table)[i].thread = table[i].thread
  BY DEF Projected, Terminal, Record

LEMMA SessionInit == Init => SessionInv
  BY DEF Init, SessionInv, Follows, Away

LEMMA SessionNext == TypeOK /\ PlaceInv /\ SessionInv /\ [Next]_vars => SessionInv'
  <1> SUFFICES ASSUME TypeOK, PlaceInv, SessionInv, [Next]_vars PROVE SessionInv'
    OBVIOUS
  <1> USE DEF SessionInv, Away, journal, reset, suspended, Goto, Sync
  <1>1. ASSUME NEW t \in Txn, Begin(t) \/ Reconciled(t) \/ Archive(t) PROVE SessionInv'
    BY <1>1 DEF Begin, Reconciled, Archive, TypeOK, Follows
  <1>2. ASSUME NEW t \in Txn, Reclaim(t) PROVE SessionInv'
    BY <1>2 DEF Reclaim, Suspend, TypeOK, Follows
  <1>3. ASSUME NEW t \in Txn, Read(t) PROVE SessionInv'
    BY <1>3 DEF Read, TypeOK, Follows
  <1>4. ASSUME NEW t \in Txn, Commit(t) PROVE SessionInv'
    BY <1>4 DEF Commit, TypeOK, Follows
  <1>5. ASSUME NEW t \in Txn, CommitFinished(t) PROVE SessionInv'
    <2>1. /\ UNCHANGED <<snap, work>> /\ ~Conflict(t)
          /\ base' = [base EXCEPT ![t] = file]
          /\ plan' = [plan EXCEPT ![t] = Merged(t)]
          /\ pc' = [pc EXCEPT ![t] = "archiving"]
      BY <1>5 DEF CommitFinished, Checked, Suspend
    <2>2. \A i \in Id : Follows(file[i], Merged(t)[i])
      BY <2>1, MergedFollows
    <2> QED BY <2>1, <2>2 DEF TypeOK, Follows
  <1>6. ASSUME NEW t \in Txn, Rewrite(t) PROVE SessionInv'
    <2>1. /\ base' = [base EXCEPT ![t] = Empty] /\ plan' = [plan EXCEPT ![t] = Empty]
          /\ pc' = [pc EXCEPT ![t] = goal[t]]
      BY <1>6 DEF Rewrite
    <2>2. \A u \in Txn, i \in Id : Follows(snap[u][i], work[u][i])'
      BY <1>6 DEF Rewrite, TypeOK, Follows
    <2>3. \A u \in Txn, i \in Id : Away(u)' => Follows(base[u][i], plan[u][i])'
      BY <2>1 DEF TypeOK, Follows
    <2> QED BY <2>2, <2>3
  <1>7. ASSUME NEW t \in Txn, End(t) PROVE SessionInv'
    BY <1>7 DEF End, TypeOK, Follows
  <1>8. ASSUME NEW t \in Txn, NEW j \in Id, Editing(t, j) PROVE SessionInv'
    <2>1. PICK r \in Records : Edit(t, j, r) /\ Follows(work[t][j], r)
      BY <1>8, EditedRecords DEF Follows
    <2> QED BY <2>1 DEF Edit, TypeOK, Follows
  <1>9. CASE Fence \/ Clear \/ Cleared \/ Restore \/ UNCHANGED vars
    BY <1>9 DEF Fence, Clear, Cleared, Restore, vars, Follows
  <1> QED BY <1>1, <1>2, <1>3, <1>4, <1>5, <1>6, <1>7, <1>8, <1>9 DEF Next, Saving

LEMMA SessionStep ==
    ASSUME TypeOK, PlaceInv, SessionInv, [Next]_vars, gen' = gen
    PROVE  \A i \in Id : Follows(file[i], file'[i])
  <1> USE DEF journal, reset, suspended
  <1>1. CASE UNCHANGED file
    BY <1>1 DEF Follows
  <1>2. ASSUME NEW t \in Txn, Commit(t) PROVE \A i \in Id : Follows(file[i], file'[i])
    <2>1. ~Conflict(t) /\ file' = Merged(t)
      BY <1>2 DEF Commit, Checked
    <2> QED BY <2>1, MergedFollows DEF SessionInv
  <1>3. ASSUME NEW t \in Txn, Rewrite(t) PROVE \A i \in Id : Follows(file[i], file'[i])
    <2>1. pc[t] = "archived" /\ file = base[t] /\ file' = Projected(plan[t])
      BY <1>3 DEF Rewrite, Unmoved
    <2>2. \A i \in Id : Follows(base[t][i], plan[t][i])
      BY <2>1 DEF SessionInv, Away
    <2> QED BY <2>1, <2>2, ProjectedFollows DEF Follows
  <1>4. CASE Clear
    BY <1>4 DEF Clear, TypeOK
  <1>5. ASSUME NEW t \in Txn, NEW i \in Id, Editing(t, i) PROVE UNCHANGED file
    <2>1. PICK r \in Records : Edit(t, i, r)
      BY <1>5, EditedRecords
    <2> QED BY <2>1 DEF Edit
  <1>6. ASSUME NEW t \in Txn,
               Begin(t) \/ Reclaim(t) \/ Reconciled(t) \/ Read(t) \/ CommitFinished(t)
                 \/ Archive(t) \/ End(t)
        PROVE  UNCHANGED file
    BY <1>6 DEF Begin, Reclaim, Reconciled, Read, CommitFinished, Archive, End
  <1>7. CASE Fence \/ Cleared \/ Restore \/ UNCHANGED vars
    BY <1>1, <1>7 DEF Fence, Cleared, Restore, vars
  <1> QED BY <1>1, <1>2, <1>3, <1>4, <1>5, <1>6, <1>7 DEF Next, Saving

(* The session of a record is never exchanged, whoever saves after whom,      *)
(* until a reset empties the journal.                                         *)
THEOREM SessionStays == Spec => SessionKept
  <1>1. TypeOK /\ PlaceInv /\ SessionInv /\ [Next]_vars =>
          [\A i \in Id :
             gen' = gen /\ file[i].thread # NoTxn => file'[i].thread = file[i].thread]_vars
    BY SessionStep DEF Follows
  <1>2. Init => TypeOK /\ PlaceInv /\ SessionInv
    BY TypeInit, PlaceInit, SessionInit
  <1> QED BY <1>1, <1>2, SessionNext, PlaceInit, PlaceNext, TypeCorrect, PTL DEF Spec, SessionKept
-----------------------------------------------------------------------------
(* JournalSpec.  Its table is the file with the originals of what is only      *)
(* referred to, so that projecting changes nothing.  A plan holds what its     *)
(* transaction may save over what it read, and once it reads it again          *)
(* unchanged, that is a save.                                                 *)
Whole(r) == IF r.life = "terminal" THEN Original(r) ELSE r

PlanInv ==
    \A t \in Txn :
        /\ Away(t) /\ goal[t] = "reading" => plan[t] = base[t]
        /\ Away(t) /\ goal[t] = "open" =>
             \A i \in Id : J!Allowed(snap[t][i], base[t][i], plan[t][i])

LEMMA RestoredWhole == ASSUME NEW table, NEW i \in Id PROVE Restored(table)[i] = Whole(table[i])
  BY DEF Restored, Whole

LEMMA WholeFields ==
    ASSUME NEW r
    PROVE  /\ Whole(r).thread = r.thread /\ Whole(r).note = r.note
           /\ Whole(r).life = IF r.life = "terminal" THEN "retired" ELSE r.life
  BY DEF Whole, Original, Record

(* A projection stands for the record it was made of.                         *)
LEMMA RestoredProjected ==
    ASSUME NEW table \in Tables
    PROVE  Restored(Projected(table)) = Restored(table)
  <1>1. ASSUME NEW i \in Id
        PROVE  Whole(Projected(table)[i]) = Whole(table[i])
    <2>1. CASE table[i].life = "retired"
      <3>1. table[i] \in Records
        BY <2>1, AbsentFields DEF Tables
      <3>2. Original(Terminal(table[i])) = table[i]
        BY <2>1, <3>1 DEF Original, Terminal, Record, Records
      <3>3. Projected(table)[i] = Terminal(table[i]) /\ Terminal(table[i]).life = "terminal"
        BY <2>1 DEF Projected, Terminal, Record
      <3> QED BY <2>1, <3>2, <3>3 DEF Whole
    <2>2. CASE table[i].life # "retired"
      BY <2>2 DEF Projected
    <2> QED BY <2>1, <2>2
  <1> QED BY <1>1 DEF Restored, Whole

LEMMA MergedAllowed ==
    ASSUME NEW t \in Txn, NEW i \in Id, ~Conflict(t)
    PROVE  J!Allowed(snap[t][i], file[i], Merged(t)[i])
  <1> DEFINE b == snap[t][i]
             p == work[t][i]
             c == file[i]
  <1>1. Mergeable(b, p, c)
    BY DEF Conflict
  <1>2. Merged(t)[i] = MergeRecord(b, p, c)
    BY DEF Merged
  <1> HIDE DEF b, p, c
  <1>3. J!Allowed(b, c, MergeRecord(b, p, c))
    BY <1>1 DEF J!Allowed, Mergeable, SameProtected, MergeRecord, Record
  <1> QED BY <1>2, <1>3 DEF b, c

LEMMA WholeAllowed ==
    ASSUME NEW old, NEW now, NEW new, J!Allowed(old, now, new)
    PROVE  J!Allowed(Whole(old), Whole(now), Whole(new))
  <1>1. CASE new = now \/ now = old
    BY <1>1 DEF J!Allowed
  <1>2. CASE /\ old # Absent /\ old.life = now.life /\ old.thread = now.thread
             /\ new.note = now.note \/ old.note = now.note
    <2>1. Whole(old) # Absent
      BY <1>2, WholeFields DEF Whole, Absent, Original, Record
    <2> QED BY <1>2, <2>1, WholeFields DEF J!Allowed
  <1> QED BY <1>1, <1>2 DEF J!Allowed

LEMMA RestoredUnique ==
    ASSUME NEW table, Unique(table)
    PROVE  J!Unique(Restored(table))
  <1>1. ASSUME NEW i \in Id
        PROVE  Restored(table)[i].life = "live" => table[i].life = "live"
    BY RestoredWhole, WholeFields
  <1> QED BY <1>1 DEF Unique, J!Unique

LEMMA PlanInit == Init => PlanInv
  BY DEF Init, PlanInv, Away

LEMMA PlanNext == TypeOK /\ PlaceInv /\ PlanInv /\ [Next]_vars => PlanInv'
  <1> SUFFICES ASSUME TypeOK, PlaceInv, PlanInv, [Next]_vars PROVE PlanInv'
    OBVIOUS
  <1> USE DEF PlanInv, Away, journal, reset, suspended, Goto, Sync
  <1>1. ASSUME NEW t \in Txn, Begin(t) \/ Reconciled(t) \/ Archive(t) PROVE PlanInv'
    BY <1>1 DEF Begin, Reconciled, Archive, TypeOK, PlaceInv
  <1>2. ASSUME NEW t \in Txn, Reclaim(t) PROVE PlanInv'
    BY <1>2 DEF Reclaim, Suspend, TypeOK, PlaceInv
  <1>3. ASSUME NEW t \in Txn, Read(t) PROVE PlanInv'
    BY <1>3 DEF Read, TypeOK, PlaceInv
  <1>4. ASSUME NEW t \in Txn, Commit(t) PROVE PlanInv'
    BY <1>4 DEF Commit, Checked, TypeOK, PlaceInv
  <1>5. ASSUME NEW t \in Txn, CommitFinished(t) PROVE PlanInv'
    <2>1. /\ UNCHANGED <<snap, work>> /\ ~Conflict(t)
          /\ base' = [base EXCEPT ![t] = file]
          /\ plan' = [plan EXCEPT ![t] = Merged(t)]
          /\ goal' = [goal EXCEPT ![t] = "open"]
          /\ pc' = [pc EXCEPT ![t] = "archiving"]
      BY <1>5 DEF CommitFinished, Checked, Suspend
    <2>2. \A i \in Id : J!Allowed(snap[t][i], file[i], Merged(t)[i])
      BY <2>1, MergedAllowed
    <2> QED BY <2>1, <2>2 DEF TypeOK
  <1>6. ASSUME NEW t \in Txn, Rewrite(t) PROVE PlanInv'
    BY <1>6 DEF Rewrite, TypeOK, PlaceInv
  <1>7. ASSUME NEW t \in Txn, End(t) PROVE PlanInv'
    BY <1>7 DEF End, TypeOK, PlaceInv
  <1>8. ASSUME NEW t \in Txn, NEW j \in Id, Editing(t, j) PROVE PlanInv'
    <2>1. PICK r \in Records : Edit(t, j, r)
      BY <1>8, EditedRecords
    <2> QED BY <2>1 DEF Edit
  <1>9. CASE Fence \/ Clear \/ Cleared \/ Restore \/ UNCHANGED vars
    BY <1>9 DEF Fence, Clear, Cleared, Restore, vars
  <1> QED BY <1>1, <1>2, <1>3, <1>4, <1>5, <1>6, <1>7, <1>8, <1>9 DEF Next, Saving
-----------------------------------------------------------------------------
(* The refinement, step by step.                                             *)
Openers == {t \in Txn : Opened(t)}
SeenBy == [t \in Txn |-> IF Opened(t) THEN Restored(snap[t]) ELSE Empty]
SeenGen == [t \in Txn |-> IF Opened(t) THEN since[t] ELSE 0]

LEMMA Mapped ==
    ASSUME UNCHANGED <<gen, file, Openers, SeenBy, SeenGen>>
    PROVE  UNCHANGED J!vars
  BY DEF J!vars, Openers, SeenBy, SeenGen, Restored

(* A step that opens and closes no snapshot and leaves the file alone.        *)
LEMMA Silent ==
    ASSUME UNCHANGED <<gen, file>>,
           \A t \in Txn : /\ Opened(t)' = Opened(t)
                          /\ Opened(t) => since'[t] = since[t] /\ snap'[t] = snap[t]
    PROVE  UNCHANGED J!vars
  <1>1. Openers' = Openers
    BY DEF Openers
  <1>2. SeenBy' = SeenBy
    BY DEF SeenBy, Restored, Empty
  <1>3. SeenGen' = SeenGen
    BY DEF SeenGen
  <1> QED BY <1>1, <1>2, <1>3, Mapped

(* What a transaction writes over the file it has checked is a save.          *)
LEMMA Saves ==
    ASSUME TypeOK, NEW t \in Txn, Opened(t), since[t] = gen, UNCHANGED <<gen, since>>,
           \A i \in Id : J!Allowed(snap[t][i], file[i], file'[i]), Unique(file'),
           snap' = [snap EXCEPT ![t] = file'],
           \A u \in Txn : Opened(u)' = Opened(u)
    PROVE  J!Save(t)
  <1>1. UNCHANGED Openers /\ UNCHANGED SeenGen
    BY DEF Openers, SeenGen
  <1>2. SeenBy' = [SeenBy EXCEPT ![t] = Restored(file)']
    BY DEF SeenBy, Restored, Empty, TypeOK
  <1>3. t \in Openers /\ SeenGen[t] = gen /\ SeenBy[t] = Restored(snap[t])
    BY DEF Openers, SeenGen, SeenBy
  <1>4. \A i \in Id : J!Allowed(Restored(snap[t])[i], Restored(file)[i], Restored(file')[i])
    BY RestoredWhole, WholeAllowed
  <1>5. J!Unique(Restored(file'))
    BY RestoredUnique
  <1>6. Restored(file)' = Restored(file')
    BY DEF Restored
  <1> QED BY <1>1, <1>2, <1>3, <1>4, <1>5, <1>6 DEF J!Save, J!Unique, Openers, SeenGen, SeenBy

LEMMA JournalInit == Init => J!Init
  <1> SUFFICES ASSUME Init PROVE J!Init
    OBVIOUS
  <1>1. J!Unique(Restored(file))
    BY UniqueInit, RestoredUnique DEF UniqueInv
  <1>2. \A t \in Txn : ~Opened(t)
    BY DEF Init, Opened
  <1> QED BY <1>1, <1>2 DEF Init, J!Init, J!Empty, Empty

LEMMA JournalStep ==
    ASSUME TypeOK, PlaceInv, AgeInv, UniqueInv, PlanInv, PlanInv', [Next]_vars
    PROVE  [J!Next]_(J!vars)
  <1> USE DEF journal, reset, suspended, Goto, Sync
  <1>1. ASSUME NEW t \in Txn, Begin(t) \/ Reclaim(t) \/ Reconciled(t) \/ Archive(t)
                                \/ CommitFinished(t)
        PROVE  UNCHANGED J!vars
    <2>1. /\ UNCHANGED <<gen, file>>
          /\ \A u \in Txn : /\ Opened(u)' = Opened(u)
                            /\ Opened(u) => since'[u] = since[u] /\ snap'[u] = snap[u]
      BY <1>1 DEF Begin, Reclaim, Reconciled, Archive, CommitFinished, Checked, Suspend, Opened,
                  TypeOK, PlanInv, PlaceInv, Away
    <2> QED BY <2>1, Silent
  <1>2. ASSUME NEW t \in Txn, Read(t) PROVE J!Open(t)
    <2>1. /\ UNCHANGED <<gen, file, goal>> /\ pc[t] = "reading" /\ goal[t] = "idle"
          /\ since' = [since EXCEPT ![t] = gen] /\ snap' = [snap EXCEPT ![t] = file]
          /\ pc' = [pc EXCEPT ![t] = "open"]
      BY <1>2 DEF Read, PlaceInv, Away
    <2>2. ~Opened(t) /\ Opened(t)' /\ \A u \in Txn \ {t} : Opened(u)' = Opened(u)
      BY <2>1 DEF Opened, TypeOK
    <2>3. t \notin Openers /\ Openers' = Openers \union {t}
      BY <2>2 DEF Openers
    <2>4. SeenBy' = [SeenBy EXCEPT ![t] = Restored(file)]
      BY <2>1, <2>2 DEF SeenBy, Restored, Empty, TypeOK
    <2>5. SeenGen' = [SeenGen EXCEPT ![t] = gen]
      BY <2>1, <2>2 DEF SeenGen, TypeOK
    <2>6. UNCHANGED Restored(file)
      BY <2>1 DEF Restored
    <2> QED BY <2>1, <2>3, <2>4, <2>5, <2>6 DEF J!Open, Openers, SeenGen, SeenBy
  <1>3. ASSUME NEW t \in Txn, Commit(t) PROVE J!Save(t)
    <2>1. /\ UNCHANGED <<gen, pc, since, goal>> /\ pc[t] = "open" /\ since[t] = gen
          /\ ~Conflict(t) /\ Unique(Merged(t)) /\ file' = Merged(t)
          /\ snap' = [snap EXCEPT ![t] = file']
      BY <1>3 DEF Commit, Checked
    <2>2. \A i \in Id : J!Allowed(snap[t][i], file[i], file'[i])
      BY <2>1, MergedAllowed
    <2>3. Opened(t) /\ \A u \in Txn : Opened(u)' = Opened(u)
      BY <2>1 DEF Opened
    <2> QED BY <2>1, <2>2, <2>3, Saves
  <1>4. ASSUME NEW t \in Txn, Rewrite(t) PROVE [J!Next]_(J!vars)
    <2>1. /\ UNCHANGED <<gen, since>> /\ pc[t] = "archived" /\ gen = since[t] /\ file = base[t]
          /\ file' = Projected(plan[t])
          /\ pc' = [pc EXCEPT ![t] = goal[t]] /\ goal' = [goal EXCEPT ![t] = "idle"]
      BY <1>4 DEF Rewrite, Unmoved
    <2>2. plan[t] \in Tables
      BY DEF TypeOK
    <2>3. Restored(file') = Restored(plan[t]) /\ Restored(file)' = Restored(file')
      BY <2>1, <2>2, RestoredProjected DEF Restored
    <2>4. \A u \in Txn : Opened(u)' = Opened(u)
      BY <2>1 DEF Opened, TypeOK, PlaceInv, Away
    <2>5. CASE goal[t] = "open"
      <3>1. \A i \in Id : J!Allowed(snap[t][i], file[i], plan[t][i])
        BY <2>1, <2>5 DEF PlanInv, Away
      <3>2. J!Unique(Restored(plan[t]))
        BY <2>1, RestoredUnique DEF UniqueInv, Away
      <3>3. \A i \in Id : J!Allowed(Restored(snap[t])[i], Restored(file)[i], Restored(plan[t])[i])
        BY <3>1, RestoredWhole, WholeAllowed
      <3>4. Opened(t) /\ snap' = [snap EXCEPT ![t] = file']
        BY <1>4, <2>1, <2>5 DEF Rewrite, Opened
      <3>5. UNCHANGED Openers /\ UNCHANGED SeenGen
        BY <2>1, <2>4 DEF Openers, SeenGen
      <3>6. SeenBy' = [SeenBy EXCEPT ![t] = Restored(file)']
        BY <2>3, <2>4, <3>4 DEF SeenBy, Restored, Empty, TypeOK
      <3>7. t \in Openers /\ SeenGen[t] = gen /\ SeenBy[t] = Restored(snap[t])
        BY <2>1, <3>4 DEF Openers, SeenGen, SeenBy
      <3>8. J!Save(t)
        BY <2>1, <2>3, <3>2, <3>3, <3>5, <3>6, <3>7 DEF J!Save, J!Unique, Openers, SeenGen, SeenBy
      <3> QED BY <3>8 DEF J!Next
    <2>6. CASE goal[t] = "reading"
      <3>1. Restored(file)' = Restored(file)
        BY <2>1, <2>3, <2>6 DEF PlanInv, Away
      <3>2. UNCHANGED snap
        BY <1>4, <2>6 DEF Rewrite
      <3>3. UNCHANGED Openers /\ UNCHANGED SeenGen /\ UNCHANGED SeenBy
        BY <2>1, <2>4, <3>2 DEF Openers, SeenGen, SeenBy, Restored, Empty
      <3> QED BY <2>1, <3>1, <3>3 DEF J!vars, Openers, SeenGen, SeenBy
    <2> QED BY <2>1, <2>5, <2>6 DEF PlaceInv, Away
  <1>5. ASSUME NEW t \in Txn, End(t) PROVE [J!Next]_(J!vars)
    <2>1. /\ UNCHANGED <<gen, file>>
          /\ since' = [since EXCEPT ![t] = 0] /\ snap' = [snap EXCEPT ![t] = Empty]
          /\ pc' = [pc EXCEPT ![t] = "idle"] /\ goal' = [goal EXCEPT ![t] = "idle"]
      BY <1>5 DEF End
    <2>2. ~Opened(t)' /\ \A u \in Txn \ {t} : Opened(u)' = Opened(u)
      BY <2>1 DEF Opened, TypeOK
    <2>3. CASE Opened(t)
      <3>1. t \in Openers /\ Openers' = Openers \ {t}
        BY <2>2, <2>3 DEF Openers
      <3>2. SeenBy' = [SeenBy EXCEPT ![t] = Empty]
        BY <2>1, <2>2 DEF SeenBy, Restored, Empty, TypeOK
      <3>3. SeenGen' = [SeenGen EXCEPT ![t] = 0]
        BY <2>1, <2>2 DEF SeenGen, TypeOK
      <3>4. UNCHANGED Restored(file)
        BY <2>1 DEF Restored
      <3>5. J!Close(t)
        BY <2>1, <3>1, <3>2, <3>3, <3>4
           DEF J!Close, J!Empty, Empty, Openers, SeenGen, SeenBy
      <3> QED BY <3>5 DEF J!Next
    <2>4. CASE ~Opened(t)
      <3>1. \A u \in Txn : /\ Opened(u)' = Opened(u)
                           /\ Opened(u) => since'[u] = since[u] /\ snap'[u] = snap[u]
        <4>1. ASSUME NEW u \in Txn, u # t
              PROVE  since'[u] = since[u] /\ snap'[u] = snap[u]
          BY <2>1, <4>1 DEF TypeOK
        <4>2. Opened(t)' = Opened(t)
          BY <2>2, <2>4 DEF Opened
        <4> QED BY <2>2, <2>4, <4>1, <4>2
      <3> QED BY <2>1, <3>1, Silent
    <2> QED BY <2>3, <2>4
  <1>6. ASSUME NEW t \in Txn, NEW i \in Id, Editing(t, i) PROVE UNCHANGED J!vars
    <2>1. PICK r \in Records : Edit(t, i, r)
      BY <1>6, EditedRecords
    <2> QED BY <2>1, Silent DEF Edit, Opened
  <1>7. CASE Clear
    <2>1. gen' > gen
      BY <1>7, JournalAssumption DEF Clear, AgeInv, TypeOK
    <2>2. Restored(file)' = Empty
      BY <1>7 DEF Clear, Restored, Empty, Absent
    <2>3. UNCHANGED Openers /\ UNCHANGED SeenGen /\ UNCHANGED SeenBy
      BY <1>7 DEF Clear, Openers, SeenGen, SeenBy, Restored, Empty, Opened
    <2>4. J!Reset
      BY <2>1, <2>2, <2>3 DEF J!Reset, J!Empty, Empty, Openers, SeenGen, SeenBy
    <2> QED BY <2>4 DEF J!Next
  <1>8. CASE Fence \/ Cleared \/ Restore \/ UNCHANGED vars
    BY <1>8, Silent DEF Fence, Cleared, Restore, vars, Opened
  <1> QED BY <1>1, <1>2, <1>3, <1>4, <1>5, <1>6, <1>7, <1>8 DEF Next, Saving, J!Next

(* Whatever is archived, projected, lost or given up on the way: a record is  *)
(* saved only as far as its transaction has seen it, and never across a reset. *)
THEOREM JournalKeepsItsPromise == Spec => ImplementsJournal
  <1>1. Init => TypeOK /\ PlaceInv /\ AgeInv /\ UniqueInv /\ PlanInv
    BY TypeInit, PlaceInit, UniqueInit, PlanInit
  <1>2. TypeOK /\ PlaceInv /\ AgeInv /\ UniqueInv /\ PlanInv /\ [Next]_vars
        => PlaceInv' /\ AgeInv' /\ UniqueInv' /\ PlanInv' /\ [J!Next]_(J!vars)
    BY PlaceNext, UniqueNext, PlanNext, JournalStep
  <1> QED
    BY <1>1, <1>2, JournalInit, TypeCorrect, PTL DEF Spec, ImplementsJournal, J!Spec
=============================================================================
