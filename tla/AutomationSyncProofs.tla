------------------------- MODULE AutomationSyncProofs -------------------------
(* Proofs about AutomationSync, for any declarations, jobs and mishaps.        *)
EXTENDS AutomationSync, TLAPS, FiniteSetTheorems

Places == {"idle", "plan", "apply", "adding", "added", "updating", "updated", "finish"}
Requests == [kind : {"add"}, id : {0}, before : {None}, want : Settings]
       \cup [kind : {"update"}, id : Ids, before : Natives, want : Settings]

WorldType ==
  /\ decl \in Jobs \cup {None}
  /\ jobs \in [Ids -> Natives \cup {None}]
  /\ made \in 0..MaxNative
  /\ late \subseteq Requests
  /\ mishaps \in 0..MaxMishaps
  /\ ran \in [Gens -> 0..2]
  /\ tampered \in BOOLEAN /\ upset \in BOOLEAN

ExecType ==
  /\ exec \in [rec : Records \cup {None}, fit : {"none", "unread", "fits", "drifted"}]
  /\ exec # Asleep => exec.rec # None /\ Admissible(exec.rec, exec.rec.hash)

SyncType ==
  /\ sync \in [pc : Places, man : Jobs \cup {None}, rec : Records \cup {None}, id : Ids \cup {0},
               native : Natives \cup {None}, want : Settings \cup {None}]
  /\ sync.pc \in {"adding", "added", "updating", "updated", "finish"} => sync.want \in Settings
  /\ sync.pc \in {"updating", "updated", "finish"} => sync.native # None /\ sync.id \in Ids
  /\ sync.pc \in {"plan", "apply"} => sync.man # None \/ sync.rec # None
  /\ sync.native # None => sync.id \in Ids

(* The synchronization has the record of the file, the lock keeps others out. *)
Held ==
  /\ sync.pc = "plan" => sync.rec = file
  /\ sync.pc = "apply" =>
       \/ sync.rec = file /\ file # None
       \/ file = None /\ sync.man # None /\ sync.rec = NewRecord(sync.man) /\ sync.native = None
  /\ sync.pc \in {"adding", "added", "updating", "updated", "finish"} => sync.rec = file /\ file # None

(* A generation of the record costs an edit of the manifest.                 *)
Paid(rec) == /\ rec.gen <= mishaps + 1
             /\ decl # None /\ decl.trigger # rec.hash.trigger => rec.gen <= mishaps
Counted == file # None => Paid(file)

TypeInv == WorldType /\ file \in Records \cup {None} /\ ExecType /\ SyncType /\ Held /\ Counted

-------------------------------------------------------------------------------
(* The helpers.                                                              *)
LEMMA GensFacts ==
  /\ 1 \in Gens
  /\ \A g \in Gens : g \in Nat /\ g >= 1 /\ g <= MaxMishaps + 1
  /\ \A n \in Nat : n >= 1 /\ n <= MaxMishaps + 1 => n \in Gens
  BY BoundsAssumption DEF Gens

LEMMA NewRecordType ==
  ASSUME NEW man \in Jobs
  PROVE  NewRecord(man) \in Records
  BY GensFacts DEF NewRecord, Records

LEMMA RenewedType ==
  ASSUME NEW rec \in Records, NEW man \in Jobs,
         rec.hash.trigger # man.trigger => rec.gen <= MaxMishaps
  PROVE  /\ Renewed(rec, man) \in Records
         /\ Renewed(rec, man).hash = man
         /\ Renewed(rec, man).gen = IF rec.hash.trigger # man.trigger THEN rec.gen + 1 ELSE rec.gen
         /\ \A f \in {"id", "is", "removed", "retired", "pend"} : Renewed(rec, man)[f] = rec[f]
  <1>1. rec.gen \in Nat /\ rec.gen >= 1 /\ rec.gen <= MaxMishaps + 1
    BY GensFacts DEF Records
  <1>2. rec.hash.trigger # man.trigger => rec.gen + 1 \in Gens
    BY <1>1, GensFacts, BoundsAssumption
  <1> QED BY <1>1, <1>2 DEF Renewed, Records

LEMMA DesiredType ==
  ASSUME NEW man \in Jobs, NEW rec \in Records, NEW n \in Natives \cup {None}
  PROVE  /\ Desired(man, rec, n) \in Settings
         /\ Desired(man, rec, n).at = rec.gen
         /\ Desired(man, rec, n).job = man
  <1>1. man.enabled \in BOOLEAN
    BY JobsAssumption
  <1>2. KeepsCompletion(rec, n) \in BOOLEAN
    BY DEF KeepsCompletion, Completed
  <1> QED BY <1>1, <1>2 DEF Desired, Settings, Records

LEMMA FirstSettingsType ==
  ASSUME NEW man \in Jobs, NEW rec \in Records
  PROVE  /\ FirstSettings(man, rec) \in Settings
         /\ FirstSettings(man, rec).on = FALSE
         /\ FirstSettings(man, rec).at = rec.gen
  <1>1. Desired(man, rec, None) \in Settings /\ Desired(man, rec, None).at = rec.gen
    BY DesiredType
  <1> QED BY <1>1 DEF FirstSettings, Settings

LEMMA PatchedType ==
  ASSUME NEW n \in Natives, NEW before \in Natives, NEW want \in Settings
  PROVE  Patched(n, before, want) \in Natives
  BY DEF Patched, Natives, Settings

LEMMA IntentType ==
  ASSUME NEW rec \in Records, NEW kind \in {"create", "update"}, NEW is \in Settings,
         NEW capture \in BOOLEAN
  PROVE  LET r == [rec EXCEPT !.pend = [kind |-> kind, is |-> is, capture |-> capture]]
         IN  /\ r \in Records /\ r.pend # None
             /\ r.pend = [kind |-> kind, is |-> is, capture |-> capture]
             /\ \A f \in {"id", "is", "removed", "retired", "hash", "gen"} : r[f] = rec[f]
  <1> DEFINE p == [kind |-> kind, is |-> is, capture |-> capture]
  <1>1. p \in Pendings /\ p # None
    BY NoneAssumption DEF Pendings
  <1> QED BY <1>1 DEF Records

LEMMA PatchedFields ==
  ASSUME NEW n \in Natives, NEW before \in Natives, NEW want \in Settings
  PROVE  /\ Patched(n, before, want).is \in Settings
         /\ \A f \in {"job", "at", "on", "cap"} :
              Patched(n, before, want).is[f] = IF before.is[f] = want[f] THEN n.is[f] ELSE want[f]
  BY DEF Patched, Natives, Settings

-------------------------------------------------------------------------------
(* The state is well formed.                                                 *)
LEMMA TypeInit == Init => TypeInv
  <1> SUFFICES ASSUME Init PROVE TypeInv
    OBVIOUS
  <1>1. decl \in Jobs /\ Gens # {} /\ late = {} /\ mishaps = 0 /\ sync = Idle /\ exec = Asleep
    BY GensFacts DEF Init
  <1>2. /\ jobs \in [Ids -> Natives \cup {None}] /\ made \in 0..MaxNative
        /\ file \in Records \cup {None}
        /\ file # None => file.gen = 1 /\ file.hash = decl
    <2>1. CASE made = 0 /\ file = None /\ jobs = [j \in Ids |-> None]
      BY <2>1, BoundsAssumption
    <2>2. CASE Installed(decl)
      <3> DEFINE is == [job |-> decl, at |-> 1, on |-> decl.enabled, cap |-> "old"]
      <3>1. is \in Settings
        BY <1>1, GensFacts, JobsAssumption DEF Settings
      <3>2. [is |-> is, fired |-> "no"] \in Natives
        BY <3>1 DEF Natives
      <3>3. 1 \in Ids /\ made = 1 /\ made \in 0..MaxNative
        BY <2>2, BoundsAssumption DEF Installed, Ids
      <3>4. file = [NewRecord(decl) EXCEPT !.id = 1, !.is = is]
        BY <2>2 DEF Installed
      <3>5. file \in Records /\ file.gen = 1 /\ file.hash = decl
        BY <1>1, <3>1, <3>3, <3>4, GensFacts DEF NewRecord, Records
      <3>6. jobs \in [Ids -> Natives \cup {None}]
        BY <2>2, <3>2 DEF Installed
      <3> QED BY <3>3, <3>5, <3>6
    <2> QED BY <2>1, <2>2 DEF Init
  <1>3. /\ ran = [g \in Gens |-> 0] /\ tampered = FALSE /\ upset = FALSE
    BY DEF Init
  <1>4. WorldType
    <2>1. ran \in [Gens -> 0..2]
      BY <1>3
    <2>2. mishaps \in 0..MaxMishaps
      BY <1>1, BoundsAssumption
    <2>3. late \subseteq Requests
      BY <1>1
    <2> QED BY <1>1, <1>2, <1>3, <2>1, <2>2, <2>3 DEF WorldType
  <1>5. ExecType /\ SyncType /\ Held
    BY <1>1 DEF ExecType, SyncType, Held, Asleep, Idle, Places
  <1>6. Counted
    BY <1>1, <1>2 DEF Counted, Paid
  <1> QED BY <1>2, <1>4, <1>5, <1>6 DEF TypeInv

(* The record that a synchronization at work has.                            *)
LEMMA RecordAtHand ==
  ASSUME TypeInv, sync.pc = "apply"
  PROVE  /\ sync.rec \in Records /\ sync.rec # None
         /\ sync.native # None => sync.native \in Natives /\ sync.id \in Ids
         /\ sync.rec = file \/ decl = sync.man => Paid(sync.rec)
         /\ sync.rec # file => file = None /\ sync.man \in Jobs /\ sync.native = None
  <1>1. CASE sync.rec = file /\ file # None
    BY <1>1, NoneAssumption DEF TypeInv, SyncType, Counted
  <1>2. CASE file = None /\ sync.man # None /\ sync.rec = NewRecord(sync.man)
    <2>1. sync.man \in Jobs /\ mishaps \in Nat
      BY <1>2, BoundsAssumption DEF TypeInv, SyncType, WorldType
    <2>2. sync.rec \in Records /\ sync.rec.gen = 1 /\ sync.rec.hash = sync.man
      BY <1>2, <2>1, NewRecordType DEF NewRecord
    <2>3. sync.rec # None
      BY <2>2, NoneAssumption
    <2>4. decl = sync.man => Paid(sync.rec)
      BY <2>1, <2>2 DEF Paid
    <2> QED BY <1>2, <2>1, <2>2, <2>3, <2>4 DEF TypeInv, Held
  <1>3. sync.native # None => sync.native \in Natives /\ sync.id \in Ids
    BY DEF TypeInv, SyncType
  <1>4. sync.native # None => sync.rec = file /\ file # None
    BY DEF TypeInv, Held
  <1> QED BY <1>1, <1>2, <1>3, <1>4 DEF TypeInv, Held

(* A saved record, renewed for the declaration, is paid for.                 *)
LEMMA RenewedPaid ==
  ASSUME TypeInv, NEW rec \in Records, Paid(rec), decl \in Jobs
  PROVE  /\ Renewed(rec, decl) \in Records
         /\ Renewed(rec, decl).hash = decl
         /\ Paid(Renewed(rec, decl))
         /\ \A f \in {"id", "is", "removed", "retired", "pend"} : Renewed(rec, decl)[f] = rec[f]
  <1>1. mishaps \in Nat /\ mishaps <= MaxMishaps /\ rec.gen \in Nat
    BY GensFacts, BoundsAssumption DEF TypeInv, WorldType, Records
  <1>2. rec.hash.trigger # decl.trigger => rec.gen <= mishaps
    BY JobsAssumption DEF Paid
  <1>3. rec.hash.trigger # decl.trigger => rec.gen <= MaxMishaps
    BY <1>1, <1>2, BoundsAssumption
  <1>4. /\ Renewed(rec, decl) \in Records /\ Renewed(rec, decl).hash = decl
        /\ Renewed(rec, decl).gen =
             IF rec.hash.trigger # decl.trigger THEN rec.gen + 1 ELSE rec.gen
        /\ \A f \in {"id", "is", "removed", "retired", "pend"} : Renewed(rec, decl)[f] = rec[f]
    BY <1>3, RenewedType
  <1>5. Paid(Renewed(rec, decl))
    BY <1>1, <1>2, <1>4 DEF Paid
  <1> QED BY <1>4, <1>5

(* What a step of a synchronization leaves alone.                            *)
Beside == UNCHANGED <<decl, late, exec, mishaps, tampered, ran>>

LEMMA SyncStep ==
  ASSUME TypeInv, Beside,
         file' \in Records \cup {None}, file' # None => Paid(file'),
         jobs' \in [Ids -> Natives \cup {None}], made' \in 0..MaxNative, upset' \in BOOLEAN,
         SyncType', Held'
  PROVE  TypeInv'
  <1>1. WorldType'
    BY DEF TypeInv, WorldType, Beside
  <1>2. ExecType'
    BY DEF TypeInv, ExecType, Beside, Asleep
  <1>3. Counted'
    BY DEF Beside, Counted, Paid
  <1> QED BY <1>1, <1>2, <1>3 DEF TypeInv

LEMMA IdleHolds ==
  ASSUME sync' = Idle
  PROVE  SyncType' /\ Held'
  BY DEF Idle, SyncType, Held, Places

LEMMA TypeBegin ==
  ASSUME TypeInv, Begin
  PROVE  TypeInv'
  <1>1. SyncType'
    BY DEF TypeInv, WorldType, Begin, SyncType, Idle, Places
  <1>2. Held'
    BY DEF Begin, Held, Idle
  <1> QED BY <1>1, <1>2, SyncStep DEF TypeInv, WorldType, Counted, Begin, Beside

LEMMA OwnedType ==
  ASSUME TypeInv
  PROVE  /\ OwnedId \in Ids \cup {0} /\ OwnedJob \in Natives \cup {None}
         /\ OwnedJob # None <=> Live # {}
         /\ Live # {} => OwnedId \in Live /\ OwnedJob = jobs[OwnedId]
         /\ Live \subseteq Ids /\ \A j \in Live : jobs[j] \in Natives
  <1>1. Live \subseteq Ids /\ \A j \in Live : jobs[j] \in Natives
    BY DEF Live, TypeInv, WorldType
  <1>2. CASE Live = {}
    BY <1>1, <1>2 DEF OwnedId, OwnedJob
  <1>3. CASE Live # {}
    <2>1. OwnedId \in Live
      BY <1>3 DEF OwnedId
    <2> QED BY <1>1, <1>3, <2>1 DEF OwnedJob, Live
  <1> QED BY <1>1, <1>2, <1>3

LEMMA TypePlan ==
  ASSUME TypeInv, Plan
  PROVE  TypeInv'
  <1>1. /\ sync.pc = "plan" /\ sync.rec = file /\ Planned
        /\ sync' = [sync EXCEPT !.pc = "apply", !.id = OwnedId, !.native = OwnedJob,
                          !.rec = IF sync.rec = None THEN NewRecord(sync.man) ELSE sync.rec]
        /\ UNCHANGED <<file, jobs, made, upset>> /\ Beside
    BY DEF Plan, TypeInv, Held, Beside
  <1>2. sync.rec = None => sync.man \in Jobs
    BY <1>1 DEF TypeInv, SyncType
  <1>3. sync.rec = None => NewRecord(sync.man) \in Records /\ NewRecord(sync.man) # None
    BY <1>2, NewRecordType, NoneAssumption
  <1>4. SyncType'
    <2>1. OwnedId \in Ids \cup {0} /\ OwnedJob \in Natives \cup {None}
          /\ (OwnedJob # None => OwnedId \in Ids)
      BY OwnedType
    <2>2. sync'.rec \in Records \cup {None} /\ sync'.rec # None
      BY <1>1, <1>3 DEF TypeInv, SyncType
    <2> QED BY <1>1, <2>1, <2>2 DEF TypeInv, SyncType, Places
  <1>5. Held'
    <2>1. sync.rec = None => sync.man # None /\ OwnedJob = None
      BY <1>1, <1>2, JobsAssumption, OwnedType DEF Planned
    <2> QED BY <1>1, <2>1 DEF Held, TypeInv, SyncType
  <1> QED BY <1>1, <1>4, <1>5, SyncStep DEF TypeInv, WorldType, Counted

LEMMA TypeAdopt ==
  ASSUME TypeInv, Adopt
  PROVE  TypeInv'
  <1> DEFINE rec == [sync.rec EXCEPT !.id = sync.id, !.is = sync.native.is, !.pend = None]
  <1>1. /\ sync.pc = "apply" /\ sync.native # None /\ sync.man # None
        /\ sync' = [sync EXCEPT !.rec = rec] /\ file' = rec
        /\ UNCHANGED <<jobs, made, upset>> /\ Beside
    BY DEF Adopt, Adoptable, Save, Beside
  <1>2. sync.rec \in Records /\ sync.native \in Natives /\ sync.id \in Ids /\ Paid(sync.rec)
    BY <1>1, RecordAtHand
  <1>3. rec \in Records /\ Paid(rec) /\ rec # None
    <2>1. rec \in Records /\ rec.gen = sync.rec.gen /\ rec.hash = sync.rec.hash
      BY <1>2 DEF Records, Natives
    <2> QED BY <1>2, <2>1, NoneAssumption DEF Paid
  <1> HIDE DEF rec
  <1>4. SyncType' /\ Held'
    BY <1>1, <1>3 DEF TypeInv, SyncType, Held, Places
  <1> QED BY <1>1, <1>3, <1>4, SyncStep DEF TypeInv, WorldType

LEMMA TypeIntendCreate ==
  ASSUME TypeInv, IntendCreate
  PROVE  TypeInv'
  <1> DEFINE rec == Renewed(sync.rec, sync.man)
             is == FirstSettings(sync.man, rec)
             intent == [rec EXCEPT !.pend = [kind |-> "create", is |-> is, capture |-> FALSE]]
  <1>1. /\ sync.pc = "apply" /\ sync.man # None /\ decl = sync.man
        /\ sync' = [sync EXCEPT !.pc = "adding", !.rec = intent, !.want = is] /\ file' = intent
        /\ UNCHANGED <<jobs, made, upset>> /\ Beside
    BY DEF IntendCreate, Creatable, Save, Beside
  <1>2. decl \in Jobs /\ sync.rec \in Records /\ Paid(sync.rec)
    BY <1>1, RecordAtHand DEF TypeInv, SyncType
  <1>3. rec \in Records /\ Paid(rec)
    BY <1>1, <1>2, RenewedPaid
  <1> HIDE DEF rec
  <1>4. is \in Settings
    BY <1>1, <1>2, <1>3, FirstSettingsType
  <1> HIDE DEF is
  <1>5. intent \in Records /\ intent.gen = rec.gen /\ intent.hash = rec.hash
    BY <1>3, <1>4, IntentType
  <1> HIDE DEF intent
  <1>6. Paid(intent) /\ intent # None
    BY <1>3, <1>5, NoneAssumption DEF Paid
  <1>7. SyncType' /\ Held'
    BY <1>1, <1>4, <1>5, <1>6 DEF TypeInv, SyncType, Held, Places
  <1> QED BY <1>1, <1>5, <1>6, <1>7, SyncStep DEF TypeInv, WorldType

LEMMA CreatedJob ==
  ASSUME TypeInv, NEW is \in Settings, CreateJob(is)
  PROVE  /\ jobs' \in [Ids -> Natives \cup {None}] /\ made' \in 0..MaxNative /\ made' \in Ids
         /\ jobs' = [jobs EXCEPT ![made'] = [is |-> is, fired |-> "no"]]
         /\ [is |-> is, fired |-> "no"] \in Natives
         /\ upset' \in BOOLEAN
  <1>1. made' \in 0..MaxNative /\ made' \in Ids
    BY BoundsAssumption DEF CreateJob, TypeInv, WorldType, Ids
  <1>2. [is |-> is, fired |-> "no"] \in Natives
    BY DEF Natives
  <1> QED BY <1>1, <1>2 DEF CreateJob, TypeInv, WorldType

LEMMA TypeAdded ==
  ASSUME TypeInv, Added
  PROVE  TypeInv'
  <1>1. sync.want \in Settings /\ CreateJob(sync.want)
    BY DEF TypeInv, SyncType, Added
  <1>2. /\ jobs' \in [Ids -> Natives \cup {None}] /\ made' \in 0..MaxNative /\ made' \in Ids
        /\ upset' \in BOOLEAN
    BY <1>1, CreatedJob
  <1>3. sync.pc = "adding" /\ sync' = [sync EXCEPT !.pc = "added", !.id = made']
        /\ UNCHANGED file /\ Beside
    BY DEF Added, Beside
  <1>4. SyncType' /\ Held'
    BY <1>1, <1>2, <1>3 DEF TypeInv, SyncType, Held, Places
  <1> QED BY <1>2, <1>3, <1>4, SyncStep DEF TypeInv, Counted

LEMMA TypeAcknowledge ==
  ASSUME TypeInv, Acknowledge
  PROVE  TypeInv'
  <1> DEFINE rec == [sync.rec EXCEPT !.id = sync.id, !.is = sync.want, !.pend = None]
  <1>1. /\ sync.pc = "added" /\ ReadBack
        /\ sync' = [sync EXCEPT !.pc = "apply", !.rec = rec, !.native = jobs[sync.id]]
        /\ file' = rec
        /\ UNCHANGED <<jobs, made, upset>> /\ Beside
    BY DEF Acknowledge, Save, Beside
  <1>2. /\ sync.rec \in Records /\ Paid(sync.rec) /\ sync.want \in Settings
        /\ sync.id \in Ids /\ jobs[sync.id] \in Natives
    BY <1>1, OwnedType DEF TypeInv, Held, SyncType, Counted, ReadBack
  <1>3. rec \in Records /\ Paid(rec) /\ rec # None
    <2>1. rec \in Records /\ rec.gen = sync.rec.gen /\ rec.hash = sync.rec.hash
      BY <1>2 DEF Records
    <2> QED BY <1>2, <2>1, NoneAssumption DEF Paid
  <1> HIDE DEF rec
  <1>4. SyncType' /\ Held'
    BY <1>1, <1>2, <1>3 DEF TypeInv, SyncType, Held, Places
  <1> QED BY <1>1, <1>3, <1>4, SyncStep DEF TypeInv, WorldType

LEMMA IntendedUpdate ==
  ASSUME TypeInv, NEW rec \in Records, Paid(rec), NEW want \in Settings, sync.id \in Live,
         IntendUpdate(rec, want), UNCHANGED <<jobs, made, upset>>, Beside
  PROVE  TypeInv'
  <1> DEFINE before == jobs[sync.id]
             capture == CaptureOnly(rec, before, want)
             intent == [rec EXCEPT !.pend = [kind |-> "update", is |-> want, capture |-> capture]]
  <1>1. /\ sync' = [sync EXCEPT !.pc = "updating", !.rec = intent, !.native = before, !.want = want]
        /\ file' = intent
    BY DEF IntendUpdate, Save
  <1>2. before \in Natives /\ before # None /\ sync.id \in Ids
    BY OwnedType, NoneAssumption
  <1>3. capture \in BOOLEAN
    BY DEF CaptureOnly
  <1> HIDE DEF before, capture
  <1>4. intent \in Records /\ intent.gen = rec.gen /\ intent.hash = rec.hash
    BY <1>3, IntentType
  <1> HIDE DEF intent
  <1>5. Paid(intent) /\ intent # None
    BY <1>4, NoneAssumption DEF Paid
  <1>6. SyncType' /\ Held'
    BY <1>1, <1>2, <1>4, <1>5 DEF TypeInv, SyncType, Held, Places
  <1> QED BY <1>1, <1>4, <1>5, <1>6, SyncStep DEF TypeInv, WorldType

LEMMA SettledType ==
  ASSUME NEW rec \in Records, NEW is \in Settings
  PROVE  /\ Settled(rec, is) \in Records /\ (Paid(rec) => Paid(Settled(rec, is)))
         /\ Settled(rec, is).id = rec.id /\ Settled(rec, is).pend = None
         /\ Settled(rec, is).is = is /\ Settled(rec, is).hash = rec.hash
         /\ Settled(rec, is).gen = rec.gen /\ Settled(rec, is).retired = rec.retired
         /\ Settled(rec, is) # None
  <1>1. /\ Settled(rec, is) \in Records
        /\ Settled(rec, is).id = rec.id /\ Settled(rec, is).pend = None
        /\ Settled(rec, is).is = is /\ Settled(rec, is).hash = rec.hash
        /\ Settled(rec, is).gen = rec.gen /\ Settled(rec, is).retired = rec.retired
    BY DEF Settled, Records
  <1> QED BY <1>1, NoneAssumption DEF Paid

LEMMA DisabledType ==
  ASSUME NEW rec \in Records, NEW is \in Settings, sync.id \in Ids
  PROVE  /\ Disabled(rec, is) \in Records /\ (Paid(rec) => Paid(Disabled(rec, is)))
         /\ Disabled(rec, is).id \in {rec.id, sync.id}
         /\ ~(rec.removed /\ rec.pend = None) => Disabled(rec, is).id = sync.id
         /\ Disabled(rec, is).pend = None /\ Disabled(rec, is).removed
         /\ Disabled(rec, is).gen = rec.gen
         /\ Disabled(rec, is) # None
  <1>1. CASE rec.removed /\ rec.pend = None
    BY <1>1, NoneAssumption DEF Disabled
  <1>2. CASE ~(rec.removed /\ rec.pend = None)
    <2> DEFINE r == [rec EXCEPT !.removed = TRUE, !.id = sync.id, !.is = [is EXCEPT !.on = FALSE],
                                !.pend = None]
    <2>1. [is EXCEPT !.on = FALSE] \in Settings
      BY DEF Settings
    <2>2. /\ r \in Records /\ r.id = sync.id /\ r.pend = None /\ r.removed
          /\ r.gen = rec.gen /\ r.hash = rec.hash
      BY <2>1 DEF Records
    <2>3. Disabled(rec, is) = r
      BY <1>2 DEF Disabled
    <2> HIDE DEF r
    <2> QED BY <2>2, <2>3, NoneAssumption DEF Paid
  <1> QED BY <1>1, <1>2

LEMMA SavedIdle ==
  ASSUME TypeInv, NEW rec \in Records, Paid(rec), file' = rec, sync' = Idle,
         UNCHANGED <<jobs, made, upset>>, Beside
  PROVE  TypeInv'
  BY IdleHolds, SyncStep DEF TypeInv, WorldType

LEMMA TypeSettle ==
  ASSUME TypeInv, Settle
  PROVE  TypeInv'
  <1> DEFINE rec == Renewed(sync.rec, sync.man)
             want == Desired(sync.man, rec, jobs[sync.id])
  <1>1. /\ sync.pc = "apply" /\ sync.man # None /\ sync.native # None
        /\ sync.id \in Live /\ decl = sync.man
        /\ IF want # jobs[sync.id].is THEN IntendUpdate(rec, want)
           ELSE Save(Settled(rec, sync.native.is)) /\ sync' = Idle
        /\ UNCHANGED <<jobs, made, upset>> /\ Beside
    BY DEF Settle, Settleable, Unmoved, Takes, Beside
  <1>2. decl \in Jobs /\ sync.rec \in Records /\ Paid(sync.rec) /\ sync.native \in Natives
    BY <1>1, RecordAtHand DEF TypeInv, SyncType
  <1>3. rec \in Records /\ Paid(rec)
    BY <1>1, <1>2, RenewedPaid
  <1> HIDE DEF rec
  <1>4. want \in Settings
    BY <1>1, <1>2, <1>3, DesiredType, OwnedType
  <1> HIDE DEF want
  <1>5. CASE want # jobs[sync.id].is
    BY <1>1, <1>3, <1>4, <1>5, IntendedUpdate
  <1>6. CASE want = jobs[sync.id].is
    <2>1. sync.native.is \in Settings
      BY <1>2 DEF Natives
    <2>2. /\ Settled(rec, sync.native.is) \in Records /\ Paid(Settled(rec, sync.native.is))
      BY <1>3, <2>1, SettledType
    <2> QED BY <1>1, <1>6, <2>2, SavedIdle DEF Save
  <1> QED BY <1>5, <1>6

LEMMA TypeDisable ==
  ASSUME TypeInv, Disable
  PROVE  TypeInv'
  <1> DEFINE is == jobs[sync.id].is
  <1>1. /\ sync.pc = "apply" /\ sync.native # None /\ sync.id \in Live
        /\ IF is.on THEN IntendUpdate(sync.rec, [is EXCEPT !.on = FALSE])
           ELSE Save(Disabled(sync.rec, is)) /\ sync' = Idle
        /\ UNCHANGED <<jobs, made, upset>> /\ Beside
    BY DEF Disable, Unmoved, Takes, Beside
  <1>2. sync.rec \in Records /\ Paid(sync.rec) /\ sync.id \in Ids
    BY <1>1, RecordAtHand
  <1>3. is \in Settings
    BY <1>1, OwnedType DEF Natives
  <1> HIDE DEF is
  <1>4. [is EXCEPT !.on = FALSE] \in Settings
    BY <1>3 DEF Settings
  <1>5. CASE is.on
    BY <1>1, <1>2, <1>4, <1>5, IntendedUpdate
  <1>6. CASE ~is.on
    <2>1. Disabled(sync.rec, is) \in Records /\ Paid(Disabled(sync.rec, is))
      BY <1>2, <1>3, DisabledType
    <2> QED BY <1>1, <1>6, <2>1, SavedIdle DEF Save
  <1> QED BY <1>5, <1>6

LEMMA UpdatedJob ==
  ASSUME TypeInv, NEW j \in Live, NEW before \in Natives, NEW want \in Settings,
         UpdateJob(j, before, want)
  PROVE  /\ jobs' = [jobs EXCEPT ![j] = Patched(jobs[j], before, want)]
         /\ jobs[j] \in Natives
         /\ Patched(jobs[j], before, want) \in Natives
         /\ jobs' \in [Ids -> Natives \cup {None}]
  <1>1. jobs[j] \in Natives /\ j \in Ids /\ jobs \in [Ids -> Natives \cup {None}]
    BY OwnedType DEF TypeInv, WorldType
  <1>2. Patched(jobs[j], before, want) \in Natives
    BY <1>1, PatchedType
  <1>3. jobs' = [jobs EXCEPT ![j] = Patched(jobs[j], before, want)]
    BY DEF UpdateJob
  <1> QED BY <1>1, <1>2, <1>3

LEMMA TypeUpdated ==
  ASSUME TypeInv, Updated
  PROVE  TypeInv'
  <1>1. /\ sync.pc = "updating" /\ sync.id \in Live /\ UpdateJob(sync.id, sync.native, sync.want)
        /\ sync' = [sync EXCEPT !.pc = "updated"] /\ UNCHANGED <<file, made, upset>> /\ Beside
    BY DEF Updated, Takes, Beside
  <1>2. sync.native \in Natives /\ sync.want \in Settings
    BY <1>1 DEF TypeInv, SyncType
  <1>3. jobs' \in [Ids -> Natives \cup {None}]
    BY <1>1, <1>2, UpdatedJob
  <1>4. SyncType' /\ Held'
    BY <1>1 DEF TypeInv, SyncType, Held, Places
  <1> QED BY <1>1, <1>3, <1>4, SyncStep DEF TypeInv, WorldType, Counted

LEMMA TypeConfirm ==
  ASSUME TypeInv, Confirm
  PROVE  TypeInv'
  <1> DEFINE rec == [sync.rec EXCEPT !.is = sync.want, !.pend = None]
  <1>1. /\ sync.pc = "updated"
        /\ sync' = [sync EXCEPT !.pc = "finish", !.rec = rec] /\ file' = rec
        /\ UNCHANGED <<jobs, made, upset>> /\ Beside
    BY DEF Confirm, Save, Beside
  <1>2. sync.rec \in Records /\ Paid(sync.rec) /\ sync.want \in Settings
    BY <1>1 DEF TypeInv, Held, SyncType, Counted
  <1>3. rec \in Records /\ Paid(rec) /\ rec # None
    <2>1. rec \in Records /\ rec.gen = sync.rec.gen /\ rec.hash = sync.rec.hash
      BY <1>2 DEF Records
    <2> QED BY <1>2, <2>1, NoneAssumption DEF Paid
  <1> HIDE DEF rec
  <1>4. SyncType' /\ Held'
    BY <1>1, <1>2, <1>3 DEF TypeInv, SyncType, Held, Places
  <1> QED BY <1>1, <1>3, <1>4, SyncStep DEF TypeInv, WorldType

LEMMA TypeFinish ==
  ASSUME TypeInv, Finish
  PROVE  TypeInv'
  <1>1. /\ sync.pc = "finish" /\ sync' = Idle
        /\ file' = IF sync.man # None THEN Settled(sync.rec, sync.want)
                   ELSE Disabled(sync.rec, sync.want)
        /\ UNCHANGED <<jobs, made, upset>> /\ Beside
    BY DEF Finish, Save, Beside
  <1>2. sync.rec \in Records /\ Paid(sync.rec) /\ sync.want \in Settings /\ sync.id \in Ids
    BY <1>1 DEF TypeInv, Held, SyncType, Counted
  <1>3. file' \in Records /\ Paid(file')
    BY <1>1, <1>2, SettledType, DisabledType
  <1> QED BY <1>1, <1>3, SavedIdle

LEMMA TypeRetire ==
  ASSUME TypeInv, Retire
  PROVE  TypeInv'
  <1>1. /\ sync.pc = "apply" /\ sync' = Idle /\ sync.man = None
        /\ file' = [sync.rec EXCEPT !.removed = TRUE, !.retired = TRUE]
        /\ UNCHANGED <<jobs, made, upset>> /\ Beside
    BY DEF Retire, Save, Beside
  <1>2. sync.rec \in Records /\ Paid(sync.rec)
    BY <1>1, RecordAtHand, JobsAssumption
  <1>3. /\ file' \in Records /\ file'.gen = sync.rec.gen /\ file'.hash = sync.rec.hash
    BY <1>1, <1>2 DEF Records
  <1>4. Paid(file')
    BY <1>2, <1>3 DEF Paid
  <1> QED BY <1>1, <1>3, <1>4, SavedIdle

LEMMA TypeRefuse ==
  ASSUME TypeInv, Refuse
  PROVE  TypeInv'
  <1>1. sync' = Idle /\ upset' \in BOOLEAN /\ UNCHANGED <<file, jobs, made>> /\ Beside
    BY DEF Refuse, Beside, Estranged, TypeInv, WorldType
  <1> QED BY <1>1, IdleHolds, SyncStep DEF TypeInv, WorldType, Counted

LEMMA TypeSync ==
  ASSUME TypeInv, Sync
  PROVE  TypeInv'
  BY TypeBegin, TypePlan, TypeAdopt, TypeIntendCreate, TypeAdded, TypeAcknowledge, TypeSettle,
     TypeUpdated, TypeConfirm, TypeFinish, TypeDisable, TypeRetire, TypeRefuse DEF Sync

-------------------------------------------------------------------------------
LEMMA RequestType ==
  ASSUME TypeInv
  PROVE  Request \subseteq Requests
  <1>1. CASE sync.pc = "adding"
    BY <1>1 DEF Request, Requests, TypeInv, SyncType
  <1>2. CASE sync.pc = "updating"
    BY <1>2 DEF Request, Requests, TypeInv, SyncType
  <1>3. CASE sync.pc \notin {"adding", "updating"}
    BY <1>3 DEF Request
  <1> QED BY <1>1, <1>2, <1>3

LEMMA OneMore ==
  ASSUME TypeInv, mishaps < MaxMishaps, mishaps' = mishaps + 1
  PROVE  mishaps' \in 0..MaxMishaps /\ mishaps \in Nat /\ mishaps' > mishaps
  BY BoundsAssumption DEF TypeInv, WorldType

LEMMA TypeFail ==
  ASSUME TypeInv, Fail
  PROVE  TypeInv'
  <1>1. /\ sync' = Idle /\ upset' \in BOOLEAN
        /\ mishaps < MaxMishaps /\ mishaps' = mishaps + 1
        /\ late' \subseteq late \cup Request
        /\ UNCHANGED <<decl, file, jobs, made, exec, tampered, ran>>
    BY DEF Fail, Estranged, TypeInv, WorldType
  <1>2. mishaps' \in 0..MaxMishaps /\ mishaps \in Nat
    BY <1>1, OneMore
  <1>3. WorldType'
    BY <1>1, <1>2, RequestType DEF TypeInv, WorldType
  <1>4. ExecType'
    BY <1>1 DEF TypeInv, ExecType, Asleep
  <1>5. Counted'
    <2> SUFFICES ASSUME file # None PROVE Paid(file)'
      BY <1>1 DEF Counted
    <2>1. file.gen \in Nat
      BY GensFacts, NoneAssumption DEF TypeInv, Records
    <2> QED BY <1>1, <1>2, <2>1 DEF TypeInv, Counted, Paid
  <1> QED BY <1>1, <1>3, <1>4, <1>5, IdleHolds DEF TypeInv

(* A step that leaves ledger and synchronization alone.                      *)
LEMMA WorldStep ==
  ASSUME TypeInv, UNCHANGED <<decl, file, sync, exec, mishaps>>, WorldType'
  PROVE  TypeInv'
  <1>1. ExecType' /\ Counted'
    BY DEF TypeInv, ExecType, Counted, Paid, Asleep
  <1>2. SyncType' /\ Held'
    BY DEF TypeInv, SyncType, Held
  <1> QED BY <1>1, <1>2 DEF TypeInv

LEMMA TypeTakesEffect ==
  ASSUME TypeInv, NEW r \in late, TakesEffect(r)
  PROVE  TypeInv'
  <1>1. /\ r.want \in Settings /\ r.kind \in {"add", "update"}
        /\ r.kind = "update" => r.before \in Natives
    BY DEF TypeInv, WorldType, Requests
  <1>2. late' \subseteq late /\ UNCHANGED <<decl, file, sync, exec, mishaps, ran>>
    BY DEF TakesEffect
  <1>3. CASE r.kind = "add"
    <2>1. CreateJob(r.want) /\ UNCHANGED tampered
      BY <1>3 DEF TakesEffect
    <2>2. jobs' \in [Ids -> Natives \cup {None}] /\ made' \in 0..MaxNative /\ upset' \in BOOLEAN
      BY <1>1, <2>1, CreatedJob
    <2> QED BY <1>2, <2>1, <2>2, WorldStep DEF TypeInv, WorldType
  <1>4. CASE r.kind = "update"
    <2>1. UNCHANGED made
      BY <1>4 DEF TakesEffect
    <2>2. CASE Takes(r.id, r.before)
      <3>1. r.id \in Live /\ UpdateJob(r.id, r.before, r.want)
            /\ upset' \in BOOLEAN /\ tampered' \in BOOLEAN
        BY <1>4, <2>2 DEF TakesEffect, Takes, Intended, TypeInv, WorldType
      <3>2. jobs' \in [Ids -> Natives \cup {None}]
        BY <1>1, <1>4, <3>1, UpdatedJob
      <3> QED BY <1>2, <2>1, <3>1, <3>2, WorldStep DEF TypeInv, WorldType
    <2>3. CASE ~Takes(r.id, r.before)
      <3>1. UNCHANGED <<jobs, upset, tampered>>
        BY <1>4, <2>3 DEF TakesEffect
      <3> QED BY <1>2, <2>1, <3>1, WorldStep DEF TypeInv, WorldType
    <2> QED BY <2>2, <2>3
  <1> QED BY <1>1, <1>3, <1>4

LEMMA TypeDeclare ==
  ASSUME TypeInv, Declare
  PROVE  TypeInv'
  <1>1. /\ decl' \in Jobs \cup {None} /\ upset' \in BOOLEAN
        /\ mishaps < MaxMishaps /\ mishaps' = mishaps + 1
        /\ UNCHANGED <<file, jobs, made, late, sync, exec, tampered, ran>>
    BY DEF Declare, TypeInv, WorldType
  <1>2. mishaps' \in 0..MaxMishaps /\ mishaps \in Nat
    BY <1>1, OneMore
  <1>3. WorldType' /\ ExecType'
    BY <1>1, <1>2 DEF TypeInv, WorldType, ExecType, Asleep
  <1>4. Counted'
    <2> SUFFICES ASSUME file # None PROVE Paid(file)'
      BY <1>1 DEF Counted
    <2>1. file.gen \in Nat
      BY GensFacts, NoneAssumption DEF TypeInv, Records
    <2> QED BY <1>1, <1>2, <2>1 DEF TypeInv, Counted, Paid
  <1>5. SyncType' /\ Held'
    BY <1>1 DEF TypeInv, SyncType, Held
  <1> QED BY <1>1, <1>3, <1>4, <1>5 DEF TypeInv

LEMMA TypeFire ==
  ASSUME TypeInv, NEW j \in Ids, Fire(j)
  PROVE  TypeInv'
  <1>1. PICK how \in {"ok", "failed"}, on \in BOOLEAN :
          /\ jobs' = [jobs EXCEPT ![j].fired = how, ![j].is.on = on]
          /\ ran' = IF how = "ok" /\ ran[jobs[j].is.at] < 2 THEN [ran EXCEPT ![jobs[j].is.at] = @ + 1]
                    ELSE ran
    BY DEF Fire
  <1>2. jobs[j] \in Natives /\ jobs \in [Ids -> Natives \cup {None}] /\ ran \in [Gens -> 0..2]
    BY OwnedType DEF Fire, TypeInv, WorldType
  <1>3. jobs' = [jobs EXCEPT ![j] = [jobs[j] EXCEPT !.fired = how, !.is.on = on]]
    BY <1>1, <1>2
  <1>4. [jobs[j] EXCEPT !.fired = how, !.is.on = on] \in Natives
    BY <1>2 DEF Natives, Settings
  <1>5. jobs' \in [Ids -> Natives \cup {None}]
    BY <1>2, <1>3, <1>4
  <1>6. ran' \in [Gens -> 0..2]
    <2>1. jobs[j].is.at \in Gens
      BY <1>2 DEF Natives, Settings
    <2>2. ran[jobs[j].is.at] \in 0..2
      BY <1>2, <2>1
    <2> QED BY <1>1, <1>2, <2>1, <2>2
  <1>7. UNCHANGED <<decl, file, made, late, sync, exec, mishaps, tampered>> /\ upset' \in BOOLEAN
    BY DEF Fire, TypeInv, WorldType
  <1> QED BY <1>5, <1>6, <1>7, WorldStep DEF TypeInv, WorldType

(* What somebody may do to a job.                                            *)
LEMMA TamperedJob ==
  ASSUME TypeInv, NEW j \in Ids, Tamper(j)
  PROVE  /\ j \in Live /\ jobs[j] \in Natives
         /\ \/ jobs' = [jobs EXCEPT ![j] = None]
            \/ \E d \in Jobs :
                 jobs' = [jobs EXCEPT ![j] = [jobs[j] EXCEPT !.is = [jobs[j].is EXCEPT !.job = d]]]
            \/ jobs' = [jobs EXCEPT ![j] = [jobs[j] EXCEPT !.is = [jobs[j].is EXCEPT !.on = FALSE]]]
            \/ /\ jobs' = [jobs EXCEPT ![j] = [jobs[j] EXCEPT !.is = [jobs[j].is EXCEPT !.on = TRUE]]]
               /\ ~jobs[j].is.on /\ jobs[j].fired = "no" /\ file # None /\ file.id = j /\ file.pend = None
               /\ Live = {j}
  <1>1. j \in Live /\ jobs[j] \in Natives
    BY OwnedType DEF Tamper
  <1>2. \/ jobs' = [jobs EXCEPT ![j] = None]
        \/ \E d \in Jobs : jobs' = [jobs EXCEPT ![j].is.job = d]
        \/ jobs' = [jobs EXCEPT ![j].is.on = FALSE]
        \/ /\ jobs' = [jobs EXCEPT ![j].is.on = TRUE]
           /\ ~jobs[j].is.on /\ jobs[j].fired = "no" /\ file # None /\ file.id = j /\ file.pend = None
           /\ Live = {j}
    BY DEF Tamper
  <1> QED BY <1>1, <1>2

LEMMA TypeTamper ==
  ASSUME TypeInv, NEW j \in Ids, Tamper(j)
  PROVE  TypeInv'
  <1>1. jobs[j] \in Natives /\ jobs \in [Ids -> Natives \cup {None}]
    BY TamperedJob DEF TypeInv, WorldType
  <1>2. /\ \A d \in Jobs : [jobs[j] EXCEPT !.is = [jobs[j].is EXCEPT !.job = d]] \in Natives
        /\ \A on \in BOOLEAN : [jobs[j] EXCEPT !.is = [jobs[j].is EXCEPT !.on = on]] \in Natives
    BY <1>1 DEF Natives, Settings
  <1>3. jobs' \in [Ids -> Natives \cup {None}]
    <2>1. \E n \in Natives \cup {None} : jobs' = [jobs EXCEPT ![j] = n]
      BY <1>2, TamperedJob
    <2> QED BY <1>1, <2>1
  <1>4. /\ UNCHANGED <<decl, file, made, late, sync, exec, ran>>
        /\ mishaps < MaxMishaps /\ mishaps' = mishaps + 1
        /\ upset' \in BOOLEAN /\ tampered' \in BOOLEAN
    BY DEF Tamper, TypeInv, WorldType
  <1>5. mishaps' \in 0..MaxMishaps /\ mishaps \in Nat
    BY <1>4, OneMore
  <1>6. WorldType' /\ ExecType'
    BY <1>3, <1>4, <1>5 DEF TypeInv, WorldType, ExecType, Asleep
  <1>7. Counted'
    <2> SUFFICES ASSUME file # None PROVE Paid(file)'
      BY <1>4 DEF Counted
    <2>1. file.gen \in Nat
      BY GensFacts, NoneAssumption DEF TypeInv, Records
    <2> QED BY <1>4, <1>5, <2>1 DEF TypeInv, Counted, Paid
  <1>8. SyncType' /\ Held'
    BY <1>4 DEF TypeInv, SyncType, Held
  <1> QED BY <1>4, <1>6, <1>7, <1>8 DEF TypeInv

LEMMA TypeExecution ==
  ASSUME TypeInv, Execution
  PROVE  TypeInv'
  <1>1. UNCHANGED <<decl, file, jobs, made, late, sync, mishaps, tampered, ran, upset>>
    BY DEF Execution, StartRun, GetJob, LookAgain, Admit, EndRun, LookUp
  <1>2. ExecType'
    <2>1. ASSUME NEW hash, LookUp(hash) PROVE ExecType'
      BY <2>1 DEF LookUp, Admissible, ExecType, TypeInv
    <2>2. CASE GetJob
      BY <2>2 DEF GetJob, ExecType, TypeInv, Asleep
    <2>3. CASE Admit \/ EndRun
      BY <2>3 DEF Admit, EndRun, ExecType, Asleep
    <2> QED BY <2>1, <2>2, <2>3 DEF Execution, StartRun, LookAgain
  <1>3. WorldType' /\ SyncType' /\ Held' /\ Counted'
    BY <1>1 DEF TypeInv, WorldType, SyncType, Held, Counted, Paid
  <1> QED BY <1>1, <1>2, <1>3 DEF TypeInv

LEMMA TypeStep == TypeInv /\ [Next]_vars => TypeInv'
  <1> SUFFICES ASSUME TypeInv, [Next]_vars PROVE TypeInv'
    OBVIOUS
  <1>1. CASE UNCHANGED vars
    BY <1>1 DEF vars, TypeInv, WorldType, ExecType, SyncType, Held, Counted, Paid, Asleep
  <1>2. CASE Next
    BY <1>2, TypeSync, TypeFail, TypeTakesEffect, TypeFire, TypeExecution, TypeDeclare, TypeTamper
       DEF Next, Scheduler, People
  <1> QED BY <1>1, <1>2

LEMMA TypeInvImplies == TypeInv => TypeOK
  BY DEF TypeInv, WorldType, ExecType, SyncType, Held, TypeOK

(* The ledger, the jobs and what is under way have the shapes that the service *)
(* expects; in particular the generations that a record goes through are      *)
(* never more than the manifest's edits.                                     *)
THEOREM WellFormed == Spec => []TypeOK
  <1>1. Init => TypeInv
    BY TypeInit
  <1>2. TypeInv /\ [Next]_vars => TypeInv'
    BY TypeStep
  <1> QED BY <1>1, <1>2, TypeInvImplies, PTL DEF Spec

-------------------------------------------------------------------------------
(* One job is enabled.  Only the one that the record names is ever on, and an  *)
(* update, under way or late, is of that job: the name is not exchanged, and a *)
(* record that has none yet has nothing but a disabled job to find.           *)
Names(j) == file # None /\ file.id = j
OnlyNamed == \A j \in Live : jobs[j].is.on => Names(j)
LateKnown == \A r \in late : IF r.kind = "add" THEN ~r.want.on ELSE Names(r.id)
Unnamed == file # None /\ file.id = 0 => file.pend # None /\ file.is = None
Matched ==
  /\ sync.pc = "apply" /\ sync.native # None =>
       sync.rec.id = sync.id \/ (sync.rec.id = 0 /\ Adoptable)
  /\ sync.pc = "apply" /\ sync.native = None /\ sync.man # None => sync.rec.id = 0
  /\ sync.pc \in {"adding", "added"} => sync.rec.id = 0 /\ ~sync.want.on
  /\ sync.pc \in {"updating", "updated", "finish"} => sync.rec.id = sync.id

OneInv == OnlyNamed /\ LateKnown /\ Unnamed /\ Matched

IdKept == file # None /\ file.id # 0 => file' # None /\ file'.id = file.id

LEMMA OneInit == Init => OneInv
  <1> SUFFICES ASSUME Init PROVE OneInv
    OBVIOUS
  <1>1. late = {} /\ sync = Idle /\ decl \in Jobs
    BY DEF Init
  <1>2. LateKnown /\ Matched
    BY <1>1 DEF LateKnown, Matched, Idle
  <1>3. CASE file = None /\ jobs = [j \in Ids |-> None]
    BY <1>2, <1>3 DEF OneInv, OnlyNamed, Unnamed, Live
  <1>4. CASE Installed(decl)
    <2>1. file.id = 1 /\ file \in Records
      <3> DEFINE is == [job |-> decl, at |-> 1, on |-> decl.enabled, cap |-> "old"]
      <3>1. is \in Settings /\ NewRecord(decl) \in Records /\ 1 \in Ids
        BY <1>1, <1>4, GensFacts, JobsAssumption, NewRecordType, BoundsAssumption
           DEF Settings, Installed, Ids
      <3>2. file = [NewRecord(decl) EXCEPT !.id = 1, !.is = is]
        BY <1>4 DEF Installed
      <3> HIDE DEF is
      <3> QED BY <3>1, <3>2 DEF Records
    <2>2. \A j \in Live : j = 1
      BY <1>4 DEF Installed, Live
    <2>3. OnlyNamed /\ Unnamed
      BY <2>1, <2>2, NoneAssumption DEF OnlyNamed, Unnamed, Names
    <2> QED BY <1>2, <2>3 DEF OneInv
  <1> QED BY <1>3, <1>4 DEF Init

LEMMA PendingHashType ==
  ASSUME NEW rec \in Records, NEW n \in Natives
  PROVE  PendingHash(rec, n) \in Settings /\ PendingHash(rec, n) # None
  <1>1. PendingHash(rec, n) \in Settings
    BY DEF PendingHash, Natives, Settings
  <1> QED BY <1>1, NoneAssumption

LEMMA NamesKept ==
  ASSUME TypeInv, OneInv, IdKept, UNCHANGED <<jobs, late>>
  PROVE  OnlyNamed' /\ LateKnown'
  <1>1. \A j \in Ids : Names(j) => Names(j)'
    BY DEF IdKept, Names, Ids
  <1>2. OnlyNamed'
    BY <1>1, OwnedType DEF OneInv, OnlyNamed, Live
  <1>3. \A r \in late : r.kind # "add" => r.id \in Ids
    BY DEF TypeInv, WorldType, Requests
  <1>4. LateKnown'
    BY <1>1, <1>3 DEF OneInv, LateKnown
  <1> QED BY <1>2, <1>4

LEMMA OneIdle ==
  ASSUME TypeInv, OneInv, IdKept, Unnamed', sync' = Idle, UNCHANGED <<jobs, late>>
  PROVE  OneInv'
  BY NamesKept DEF OneInv, Matched, Idle

LEMMA OneBegin ==
  ASSUME TypeInv, OneInv, Begin
  PROVE  OneInv'
  <1>1. UNCHANGED <<file, jobs, late>> /\ sync'.pc = "plan"
    BY DEF Begin, Idle
  <1>2. IdKept /\ Unnamed'
    BY <1>1 DEF IdKept, OneInv, Unnamed
  <1> QED BY <1>1, <1>2, NamesKept DEF OneInv, Matched

LEMMA OnePlan ==
  ASSUME TypeInv, OneInv, Plan
  PROVE  OneInv'
  <1>1. /\ sync.pc = "plan" /\ sync.rec = file /\ Planned
        /\ sync' = [sync EXCEPT !.pc = "apply", !.id = OwnedId, !.native = OwnedJob,
                          !.rec = IF sync.rec = None THEN NewRecord(sync.man) ELSE sync.rec]
        /\ UNCHANGED <<file, jobs, late>>
    BY DEF Plan, TypeInv, Held
  <1>2. IdKept /\ Unnamed'
    BY <1>1 DEF IdKept, OneInv, Unnamed
  <1>3. /\ sync'.pc = "apply" /\ sync'.id = OwnedId /\ sync'.native = OwnedJob
        /\ sync'.man = sync.man
        /\ sync'.rec = IF file = None THEN NewRecord(sync.man) ELSE file
    BY <1>1 DEF TypeInv, SyncType
  <1>4. CASE file = None
    <2>1. OwnedJob = None /\ sync'.rec.id = 0
      BY <1>1, <1>3, <1>4, OwnedType DEF Planned, NewRecord
    <2> QED BY <1>1, <1>2, <1>3, <2>1, NamesKept DEF OneInv, Matched
  <1>5. CASE file # None
    <2>1. /\ sync'.rec = file /\ file \in Records
          /\ ~Conflict(file) /\ Valid(file, sync.man, OwnedJob)
      BY <1>1, <1>3, <1>5 DEF Planned, TypeInv
    <2>2. OwnedJob = None /\ sync.man # None => file.id = 0
      BY <2>1 DEF Valid
    <2>3. CASE OwnedJob # None
      <3>1. OwnedId \in Live /\ OwnedJob \in Natives
        BY <2>3, OwnedType
      <3>2. file.id # 0 => file.id = OwnedId
        BY <2>1, <3>1 DEF Conflict
      <3>3. CASE file.id = 0
        <4>1. file.pend # None /\ file.is = None
          BY <1>5, <3>3 DEF OneInv, Unnamed
        <4>2. PendingHash(file, OwnedJob) = file.pend.is
          BY <2>1, <2>3, <3>1, <4>1, PendingHashType DEF Valid
        <4>3. Adoptable'
          BY <1>3, <2>1, <2>3, <4>1, <4>2 DEF Adoptable, PendingHash, Completed
        <4> QED BY <1>1, <1>2, <1>3, <2>1, <2>2, <3>3, <4>3, NamesKept DEF OneInv, Matched
      <3> QED BY <1>1, <1>2, <1>3, <2>1, <2>3, <3>2, <3>3, NamesKept DEF OneInv, Matched
    <2> QED BY <1>1, <1>2, <1>3, <2>1, <2>2, <2>3, NamesKept DEF OneInv, Matched
  <1> QED BY <1>4, <1>5

LEMMA OneAdopt ==
  ASSUME TypeInv, OneInv, Adopt
  PROVE  OneInv'
  <1> DEFINE rec == [sync.rec EXCEPT !.id = sync.id, !.is = sync.native.is, !.pend = None]
  <1>1. /\ sync.pc = "apply" /\ sync.native # None
        /\ sync' = [sync EXCEPT !.rec = rec] /\ file' = rec /\ UNCHANGED <<jobs, late>>
    BY DEF Adopt, Adoptable, Save
  <1>2. /\ sync.rec \in Records /\ sync.id \in Ids /\ sync.rec = file /\ file # None
        /\ sync.rec.id \in {sync.id, 0}
    BY <1>1, RecordAtHand DEF TypeInv, Held, OneInv, Matched
  <1>3. sync.id # 0
    BY <1>2 DEF Ids
  <1>4. rec.id = sync.id /\ rec # None
    <2>1. sync.native.is \in Settings
      BY <1>1, RecordAtHand DEF Natives
    <2>2. rec \in Records /\ rec.id = sync.id
      BY <1>2, <2>1 DEF Records
    <2> QED BY <2>2, NoneAssumption
  <1> HIDE DEF rec
  <1>5. IdKept /\ Unnamed'
    BY <1>1, <1>2, <1>3, <1>4 DEF IdKept, Unnamed
  <1>6. Matched'
    BY <1>1, <1>4 DEF Matched, TypeInv, SyncType
  <1> QED BY <1>1, <1>5, <1>6, NamesKept DEF OneInv

LEMMA OneIntendCreate ==
  ASSUME TypeInv, OneInv, IntendCreate
  PROVE  OneInv'
  <1> DEFINE rec == Renewed(sync.rec, sync.man)
             is == FirstSettings(sync.man, rec)
             intent == [rec EXCEPT !.pend = [kind |-> "create", is |-> is, capture |-> FALSE]]
  <1>1. /\ sync.pc = "apply" /\ sync.man # None /\ decl = sync.man /\ sync.native = None
        /\ sync' = [sync EXCEPT !.pc = "adding", !.rec = intent, !.want = is] /\ file' = intent
        /\ UNCHANGED <<jobs, late>>
    BY DEF IntendCreate, Creatable, Save
  <1>2. decl \in Jobs /\ sync.rec \in Records /\ Paid(sync.rec) /\ sync.rec.id = 0
        /\ (file # None => file = sync.rec)
    BY <1>1, RecordAtHand DEF TypeInv, SyncType, OneInv, Matched
  <1>3. rec \in Records /\ rec.id = 0 /\ rec.is = sync.rec.is
    BY <1>1, <1>2, RenewedPaid
  <1> HIDE DEF rec
  <1>4. is \in Settings /\ ~is.on
    BY <1>1, <1>2, <1>3, FirstSettingsType
  <1> HIDE DEF is
  <1>5. /\ intent \in Records /\ intent.id = 0 /\ intent.is = sync.rec.is /\ intent.pend # None
    BY <1>3, <1>4, IntentType
  <1> HIDE DEF intent
  <1>6. sync.rec.is = None
    <2>1. CASE file # None
      BY <1>2, <2>1 DEF OneInv, Unnamed
    <2>2. CASE file = None
      BY <1>1, <2>2, RecordAtHand DEF TypeInv, Held, NewRecord
    <2> QED BY <2>1, <2>2
  <1>7. IdKept /\ Unnamed'
    BY <1>1, <1>2, <1>5, <1>6 DEF IdKept, Unnamed
  <1>8. Matched'
    BY <1>1, <1>4, <1>5 DEF Matched, TypeInv, SyncType
  <1> QED BY <1>1, <1>7, <1>8, NamesKept DEF OneInv

(* A new job is off.                                                         *)
LEMMA OffKept ==
  ASSUME TypeInv, OneInv, NEW is \in Settings, ~is.on, CreateJob(is), UNCHANGED file
  PROVE  OnlyNamed'
  <1>1. /\ jobs' = [jobs EXCEPT ![made'] = [is |-> is, fired |-> "no"]]
        /\ jobs \in [Ids -> Natives \cup {None}]
    BY CreatedJob DEF TypeInv, WorldType
  <1>2. ASSUME NEW j \in Ids, jobs'[j] # None, jobs'[j].is.on
        PROVE  Names(j)
    <2>1. jobs'[j] = jobs[j]
      BY <1>1, <1>2
    <2> QED BY <1>2, <2>1 DEF OneInv, OnlyNamed, Live
  <1> QED BY <1>2 DEF OnlyNamed, Live, Names

LEMMA OneAdded ==
  ASSUME TypeInv, OneInv, Added
  PROVE  OneInv'
  <1>1. /\ sync.pc = "adding" /\ sync.want \in Settings /\ CreateJob(sync.want) /\ ~sync.want.on
        /\ sync' = [sync EXCEPT !.pc = "added", !.id = made'] /\ UNCHANGED <<file, late>>
    BY DEF TypeInv, SyncType, Added, OneInv, Matched
  <1>2. OnlyNamed'
    BY <1>1, OffKept
  <1>3. LateKnown' /\ Unnamed'
    BY <1>1 DEF OneInv, LateKnown, Unnamed, Names
  <1>4. Matched'
    BY <1>1 DEF OneInv, Matched, TypeInv, SyncType
  <1> QED BY <1>2, <1>3, <1>4 DEF OneInv

LEMMA OneAcknowledge ==
  ASSUME TypeInv, OneInv, Acknowledge
  PROVE  OneInv'
  <1> DEFINE rec == [sync.rec EXCEPT !.id = sync.id, !.is = sync.want, !.pend = None]
  <1>1. /\ sync.pc = "added" /\ sync.id \in Live
        /\ sync' = [sync EXCEPT !.pc = "apply", !.rec = rec, !.native = jobs[sync.id]]
        /\ file' = rec /\ UNCHANGED <<jobs, late>>
    BY DEF Acknowledge, Save, ReadBack
  <1>2. /\ sync.rec \in Records /\ sync.rec.id = 0 /\ sync.rec = file /\ sync.want \in Settings
        /\ sync.id \in Ids /\ jobs[sync.id] # None
    BY <1>1, OwnedType, NoneAssumption DEF TypeInv, Held, SyncType, OneInv, Matched
  <1>3. rec.id = sync.id /\ sync.id # 0 /\ rec \in Records
    <2>1. sync.id # 0
      BY <1>2 DEF Ids
    <2>2. rec \in Records /\ rec.id = sync.id
      BY <1>2 DEF Records
    <2> QED BY <2>1, <2>2
  <1> HIDE DEF rec
  <1>4. IdKept /\ Unnamed'
    BY <1>1, <1>2, <1>3 DEF IdKept, Unnamed
  <1>5. Matched'
    BY <1>1, <1>2, <1>3 DEF Matched, TypeInv, SyncType
  <1> QED BY <1>1, <1>4, <1>5, NamesKept DEF OneInv

(* What an update is intended for is the named job.                          *)
LEMMA OneIntended ==
  ASSUME TypeInv, OneInv, NEW rec \in Records, NEW want \in Settings, sync.id \in Live,
         IntendUpdate(rec, want), UNCHANGED <<jobs, late>>, rec.id = sync.id,
         file # None => file.id = rec.id
  PROVE  OneInv'
  <1> DEFINE before == jobs[sync.id]
             capture == CaptureOnly(rec, before, want)
             intent == [rec EXCEPT !.pend = [kind |-> "update", is |-> want, capture |-> capture]]
  <1>1. /\ sync' = [sync EXCEPT !.pc = "updating", !.rec = intent, !.native = before, !.want = want]
        /\ file' = intent
    BY DEF IntendUpdate, Save
  <1>2. capture \in BOOLEAN
    BY DEF CaptureOnly
  <1> HIDE DEF before, capture
  <1>3. intent \in Records /\ intent.id = sync.id /\ intent # None
    BY <1>2, IntentType, NoneAssumption
  <1> HIDE DEF intent
  <1>4. sync.id # 0
    BY OwnedType DEF Ids
  <1>5. IdKept /\ Unnamed'
    BY <1>1, <1>3, <1>4 DEF IdKept, Unnamed
  <1>6. Matched'
    BY <1>1, <1>3 DEF Matched, TypeInv, SyncType
  <1> QED BY <1>5, <1>6, NamesKept DEF OneInv

LEMMA OneSettle ==
  ASSUME TypeInv, OneInv, Settle
  PROVE  OneInv'
  <1> DEFINE rec == Renewed(sync.rec, sync.man)
             want == Desired(sync.man, rec, jobs[sync.id])
  <1>1. /\ sync.pc = "apply" /\ sync.man # None /\ sync.native # None /\ ~Adoptable
        /\ sync.id \in Live /\ decl = sync.man
        /\ IF want # jobs[sync.id].is THEN IntendUpdate(rec, want)
           ELSE file' = Settled(rec, sync.native.is) /\ sync' = Idle
        /\ UNCHANGED <<jobs, late>>
    BY DEF Settle, Settleable, Unmoved, Takes, Save
  <1>2. decl \in Jobs /\ sync.rec \in Records /\ Paid(sync.rec) /\ sync.native \in Natives
        /\ sync.rec = file /\ sync.rec.id = sync.id
    BY <1>1, RecordAtHand DEF TypeInv, SyncType, OneInv, Matched
  <1>3. rec \in Records /\ rec.id = sync.id
    BY <1>1, <1>2, RenewedPaid
  <1> HIDE DEF rec
  <1>4. want \in Settings
    BY <1>1, <1>2, <1>3, DesiredType, OwnedType
  <1> HIDE DEF want
  <1>5. CASE want # jobs[sync.id].is
    BY <1>1, <1>2, <1>3, <1>4, <1>5, OneIntended
  <1>6. CASE want = jobs[sync.id].is
    <2>1. sync.native.is \in Settings /\ sync.id # 0
      BY <1>1, <1>2, OwnedType DEF Natives, Ids
    <2>2. file' # None /\ file'.id = sync.id
      BY <1>1, <1>3, <1>6, <2>1, SettledType
    <2>3. IdKept /\ Unnamed'
      BY <1>2, <2>1, <2>2 DEF IdKept, Unnamed
    <2> QED BY <1>1, <1>6, <2>3, OneIdle
  <1> QED BY <1>5, <1>6

LEMMA OneDisable ==
  ASSUME TypeInv, OneInv, Disable
  PROVE  OneInv'
  <1> DEFINE is == jobs[sync.id].is
  <1>1. /\ sync.pc = "apply" /\ sync.native # None /\ sync.id \in Live
        /\ IF is.on THEN IntendUpdate(sync.rec, [is EXCEPT !.on = FALSE])
           ELSE file' = Disabled(sync.rec, is) /\ sync' = Idle
        /\ UNCHANGED <<jobs, late>>
    BY DEF Disable, Unmoved, Takes, Save
  <1>2. /\ sync.rec \in Records /\ sync.id \in Ids /\ sync.rec = file /\ file # None
        /\ sync.rec.id \in {sync.id, 0} /\ sync.id # 0
    BY <1>1, RecordAtHand DEF TypeInv, Held, OneInv, Matched, Ids
  <1>3. is \in Settings
    BY <1>1, OwnedType DEF Natives
  <1>4. is.on => file.id = sync.id
    BY <1>1 DEF OneInv, OnlyNamed, Names
  <1> HIDE DEF is
  <1>5. [is EXCEPT !.on = FALSE] \in Settings
    BY <1>3 DEF Settings
  <1>6. CASE is.on
    BY <1>1, <1>2, <1>4, <1>5, <1>6, OneIntended
  <1>7. CASE ~is.on
    <2>1. file' # None /\ file'.id \in {file.id, sync.id}
          /\ (~(file.removed /\ file.pend = None) => file'.id = sync.id)
      BY <1>1, <1>2, <1>3, <1>7, DisabledType
    <2>2. file'.id = sync.id
      BY <1>2, <2>1 DEF OneInv, Unnamed
    <2>3. IdKept /\ Unnamed'
      BY <1>2, <2>1, <2>2 DEF IdKept, Unnamed
    <2> QED BY <1>1, <1>7, <2>3, OneIdle
  <1> QED BY <1>6, <1>7

LEMMA PatchedOn ==
  ASSUME TypeInv, OneInv, NEW j \in Live, NEW before \in Natives, NEW want \in Settings,
         UpdateJob(j, before, want), Names(j), UNCHANGED file
  PROVE  OnlyNamed'
  <1>1. /\ jobs' = [jobs EXCEPT ![j] = Patched(jobs[j], before, want)]
        /\ jobs \in [Ids -> Natives \cup {None}]
    BY UpdatedJob DEF TypeInv, WorldType
  <1>2. ASSUME NEW i \in Ids, i # j, jobs'[i] # None, jobs'[i].is.on
        PROVE  Names(i)
    <2>1. jobs'[i] = jobs[i]
      BY <1>1, <1>2
    <2> QED BY <1>2, <2>1 DEF OneInv, OnlyNamed, Live
  <1> QED BY <1>2 DEF OnlyNamed, Live, Names

LEMMA OneUpdated ==
  ASSUME TypeInv, OneInv, Updated
  PROVE  OneInv'
  <1>1. /\ sync.pc = "updating" /\ sync.id \in Live /\ UpdateJob(sync.id, sync.native, sync.want)
        /\ sync' = [sync EXCEPT !.pc = "updated"] /\ UNCHANGED <<file, late>>
    BY DEF Updated, Takes
  <1>2. sync.native \in Natives /\ sync.want \in Settings /\ Names(sync.id)
    BY <1>1 DEF TypeInv, SyncType, Held, OneInv, Matched, Names
  <1>3. OnlyNamed'
    BY <1>1, <1>2, PatchedOn
  <1>4. LateKnown' /\ Unnamed'
    BY <1>1 DEF OneInv, LateKnown, Unnamed, Names
  <1>5. Matched'
    BY <1>1 DEF OneInv, Matched, TypeInv, SyncType
  <1> QED BY <1>3, <1>4, <1>5 DEF OneInv

LEMMA OneConfirm ==
  ASSUME TypeInv, OneInv, Confirm
  PROVE  OneInv'
  <1> DEFINE rec == [sync.rec EXCEPT !.is = sync.want, !.pend = None]
  <1>1. /\ sync.pc = "updated"
        /\ sync' = [sync EXCEPT !.pc = "finish", !.rec = rec] /\ file' = rec
        /\ UNCHANGED <<jobs, late>>
    BY DEF Confirm, Save
  <1>2. /\ sync.rec \in Records /\ sync.want \in Settings /\ sync.rec = file
        /\ sync.rec.id = sync.id /\ sync.id \in Ids /\ sync.id # 0
    BY <1>1 DEF TypeInv, Held, SyncType, OneInv, Matched, Ids
  <1>3. rec \in Records /\ rec.id = sync.id /\ rec # None
    <2>1. rec \in Records /\ rec.id = sync.id
      BY <1>2 DEF Records
    <2> QED BY <2>1, NoneAssumption
  <1> HIDE DEF rec
  <1>4. IdKept /\ Unnamed'
    BY <1>1, <1>2, <1>3 DEF IdKept, Unnamed
  <1>5. Matched'
    BY <1>1, <1>3 DEF Matched, TypeInv, SyncType
  <1> QED BY <1>1, <1>4, <1>5, NamesKept DEF OneInv

LEMMA OneFinish ==
  ASSUME TypeInv, OneInv, Finish
  PROVE  OneInv'
  <1>1. /\ sync.pc = "finish" /\ sync' = Idle
        /\ file' = IF sync.man # None THEN Settled(sync.rec, sync.want)
                   ELSE Disabled(sync.rec, sync.want)
        /\ UNCHANGED <<jobs, late>>
    BY DEF Finish, Save
  <1>2. /\ sync.rec \in Records /\ sync.want \in Settings /\ sync.rec = file
        /\ sync.rec.id = sync.id /\ sync.id \in Ids /\ sync.id # 0
    BY <1>1 DEF TypeInv, Held, SyncType, OneInv, Matched, Ids
  <1>3. file' # None /\ file'.id = sync.id
    BY <1>1, <1>2, SettledType, DisabledType
  <1>4. IdKept /\ Unnamed'
    BY <1>2, <1>3 DEF IdKept, Unnamed
  <1> QED BY <1>1, <1>4, OneIdle

LEMMA OneRetire ==
  ASSUME TypeInv, OneInv, Retire
  PROVE  OneInv'
  <1>1. /\ sync.pc = "apply" /\ sync' = Idle /\ sync.man = None
        /\ file' = [sync.rec EXCEPT !.removed = TRUE, !.retired = TRUE]
        /\ UNCHANGED <<jobs, late>>
    BY DEF Retire, Save
  <1>2. sync.rec \in Records /\ sync.rec = file
    BY <1>1, RecordAtHand, JobsAssumption
  <1>3. /\ file' \in Records /\ file'.id = file.id /\ file'.pend = file.pend /\ file'.is = file.is
    BY <1>1, <1>2 DEF Records
  <1>4. IdKept /\ Unnamed'
    BY <1>2, <1>3, NoneAssumption DEF IdKept, Unnamed, OneInv
  <1> QED BY <1>1, <1>4, OneIdle

LEMMA OneRefuse ==
  ASSUME TypeInv, OneInv, Refuse
  PROVE  OneInv'
  <1>1. sync' = Idle /\ UNCHANGED <<file, jobs, late>>
    BY DEF Refuse
  <1>2. IdKept /\ Unnamed'
    BY <1>1 DEF IdKept, Unnamed, OneInv
  <1> QED BY <1>1, <1>2, OneIdle

LEMMA OneSync ==
  ASSUME TypeInv, OneInv, Sync
  PROVE  OneInv'
  BY OneBegin, OnePlan, OneAdopt, OneIntendCreate, OneAdded, OneAcknowledge, OneSettle,
     OneUpdated, OneConfirm, OneFinish, OneDisable, OneRetire, OneRefuse DEF Sync

LEMMA OneFail ==
  ASSUME TypeInv, OneInv, Fail
  PROVE  OneInv'
  <1>1. sync' = Idle /\ late' \subseteq late \cup Request /\ UNCHANGED <<file, jobs>>
    BY DEF Fail
  <1>2. ASSUME NEW r \in Request
        PROVE  IF r.kind = "add" THEN ~r.want.on ELSE Names(r.id)
    <2>1. CASE sync.pc = "adding"
      BY <1>2, <2>1 DEF Request, OneInv, Matched
    <2>2. CASE sync.pc = "updating"
      BY <1>2, <2>2 DEF Request, OneInv, Matched, Names, TypeInv, Held
    <2>3. CASE sync.pc \notin {"adding", "updating"}
      BY <1>2, <2>3 DEF Request
    <2> QED BY <2>1, <2>2, <2>3
  <1>3. LateKnown'
    BY <1>1, <1>2 DEF OneInv, LateKnown, Names
  <1>4. OnlyNamed' /\ Unnamed' /\ Matched'
    BY <1>1 DEF OneInv, OnlyNamed, Unnamed, Matched, Names, Live, Idle
  <1> QED BY <1>3, <1>4 DEF OneInv

(* A step of the world that keeps ledger and synchronization.                *)
LEMMA OneWorld ==
  ASSUME OneInv, UNCHANGED <<file, sync>>, late' \subseteq late, OnlyNamed'
  PROVE  OneInv'
  BY DEF OneInv, LateKnown, Unnamed, Matched, Names, Adoptable, PendingHash

LEMMA OneTakesEffect ==
  ASSUME TypeInv, OneInv, NEW r \in late, TakesEffect(r)
  PROVE  OneInv'
  <1>1. /\ r.want \in Settings /\ r.kind \in {"add", "update"}
        /\ r.kind = "update" => r.before \in Natives
    BY DEF TypeInv, WorldType, Requests
  <1>2. late' \subseteq late /\ UNCHANGED <<file, sync>>
    BY DEF TakesEffect
  <1>3. IF r.kind = "add" THEN ~r.want.on ELSE Names(r.id)
    BY DEF OneInv, LateKnown
  <1>4. OnlyNamed'
    <2>1. CASE r.kind = "add"
      BY <1>1, <1>2, <1>3, <2>1, OffKept DEF TakesEffect
    <2>2. CASE r.kind = "update" /\ Takes(r.id, r.before)
      BY <1>1, <1>2, <1>3, <2>2, PatchedOn DEF TakesEffect, Takes
    <2>3. CASE r.kind = "update" /\ ~Takes(r.id, r.before)
      BY <1>2, <2>3 DEF TakesEffect, OneInv, OnlyNamed, Live, Names
    <2> QED BY <1>1, <2>1, <2>2, <2>3
  <1> QED BY <1>2, <1>4, OneWorld

LEMMA OneFire ==
  ASSUME TypeInv, OneInv, NEW j \in Ids, Fire(j)
  PROVE  OneInv'
  <1>1. PICK how, on : jobs' = [jobs EXCEPT ![j].fired = how, ![j].is.on = on]
    BY DEF Fire
  <1>2. j \in Live /\ jobs[j].is.on /\ UNCHANGED <<file, sync, late>>
    BY DEF Fire
  <1>3. Names(j)
    BY <1>2 DEF OneInv, OnlyNamed
  <1>4. \A i \in Ids : i # j => jobs'[i] = jobs[i]
    BY <1>1 DEF TypeInv, WorldType
  <1>5. OnlyNamed'
    BY <1>2, <1>3, <1>4 DEF OneInv, OnlyNamed, Live, Names
  <1> QED BY <1>2, <1>5, OneWorld

LEMMA OneTamper ==
  ASSUME TypeInv, OneInv, NEW j \in Ids, Tamper(j)
  PROVE  OneInv'
  <1>1. UNCHANGED <<file, sync, late>>
    BY DEF Tamper
  <1>2. /\ j \in Live /\ jobs[j] \in Natives /\ jobs \in [Ids -> Natives \cup {None}]
    BY TamperedJob DEF TypeInv, WorldType
  <1>3. \A i \in Ids : i # j => jobs'[i] = jobs[i]
    BY <1>2, TamperedJob
  <1>4. jobs'[j] # None /\ jobs'[j].is.on => Names(j)
    <2>1. CASE jobs' = [jobs EXCEPT ![j] = None]
      BY <1>2, <2>1
    <2>2. ASSUME NEW d \in Jobs,
                 jobs' = [jobs EXCEPT ![j] = [jobs[j] EXCEPT !.is = [jobs[j].is EXCEPT !.job = d]]]
          PROVE  jobs'[j] # None /\ jobs'[j].is.on => Names(j)
      <3>1. jobs'[j].is.on = jobs[j].is.on
        BY <1>2, <2>2 DEF Natives, Settings
      <3> QED BY <1>2, <3>1 DEF OneInv, OnlyNamed
    <2>3. CASE jobs' = [jobs EXCEPT ![j] = [jobs[j] EXCEPT !.is = [jobs[j].is EXCEPT !.on = FALSE]]]
      BY <1>2, <2>3 DEF Natives, Settings
    <2>4. CASE file # None /\ file.id = j
      BY <2>4 DEF Names
    <2> QED BY <2>1, <2>2, <2>3, <2>4, TamperedJob
  <1>5. OnlyNamed'
    BY <1>1, <1>3, <1>4 DEF OneInv, OnlyNamed, Live, Names
  <1> QED BY <1>1, <1>5, OneWorld

LEMMA OneStep ==
  ASSUME TypeInv, OneInv, [Next]_vars
  PROVE  OneInv'
  <1>1. CASE UNCHANGED vars
    BY <1>1, OneWorld DEF vars, OneInv, OnlyNamed, Live, Names
  <1>2. CASE Execution
    <2>1. UNCHANGED <<file, sync, late, jobs>>
      BY <1>2 DEF Execution, StartRun, GetJob, LookAgain, Admit, EndRun, LookUp
    <2> QED BY <2>1, OneWorld DEF OneInv, OnlyNamed, Live, Names
  <1>3. CASE Declare
    BY <1>3, OneWorld DEF Declare, OneInv, OnlyNamed, Live, Names
  <1> QED BY <1>1, <1>2, <1>3, OneSync, OneFail, OneTakesEffect, OneFire, OneTamper
          DEF Next, Scheduler, People

LEMMA OneImplies ==
  ASSUME TypeInv, OneInv
  PROVE  OneEnabled
  <1> DEFINE on == {j \in Live : jobs[j].is.on}
  <1>1. \A i, j \in on : i = j
    BY DEF OneInv, OnlyNamed, Names
  <1>2. CASE on = {}
    BY <1>2, FS_EmptySet DEF OneEnabled
  <1>3. CASE on # {}
    <2>1. PICK j \in on : TRUE
      BY <1>3
    <2>2. on = {j}
      BY <1>1, <2>1
    <2>3. Cardinality(on) = 1
      BY <2>2, FS_Singleton
    <2> QED BY <2>3 DEF OneEnabled
  <1> QED BY <1>2, <1>3

(* However many jobs lost answers create, and whatever people do, two jobs of   *)
(* an automation are never enabled together.                                 *)
THEOREM OneJobEnabled == Spec => []OneEnabled
  <1>1. Init => TypeInv /\ OneInv
    BY TypeInit, OneInit
  <1>2. TypeInv /\ OneInv /\ [Next]_vars => (TypeInv /\ OneInv)'
    BY TypeStep, OneStep
  <1>3. TypeInv /\ OneInv => OneEnabled
    BY OneImplies
  <1> QED BY <1>1, <1>2, <1>3, PTL DEF Spec

-------------------------------------------------------------------------------
(* One run for a trigger.  The named job never goes back to an earlier         *)
(* generation, and what arms it again for the same one is an update that was   *)
(* computed from a failed job: of those there is one at a time, and none once  *)
(* the job has completed.                                                    *)
Sent == [kind |-> "update", id |-> sync.id, before |-> sync.native, want |-> sync.want]
Late == {r \in late : r.kind = "update"}
Updates == Late \cup (IF sync.pc = "updating" THEN {Sent} ELSE {})

Made ==
  /\ \A j \in Live : j <= made
  /\ file # None => file.id <= made
  /\ sync.id <= made

Dated ==
  /\ late # {} => file # None
  /\ \A j \in Live : file # None /\ jobs[j].is.at <= file.gen
  /\ \A r \in late : r.want.at <= file.gen
  /\ sync.pc \in {"adding", "added", "updating", "updated", "finish"} => sync.want.at <= file.gen

Ran ==
  \A g \in Gens : ran[g] # 0 =>
    /\ ran[g] = 1
    /\ file # None /\ file.id \in Ids
    /\ jobs[file.id] # None =>
         /\ g <= jobs[file.id].is.at
         /\ g = jobs[file.id].is.at => jobs[file.id].fired = "ok"

Forward ==
  \A r \in Updates :
    /\ r.before.is.at <= r.want.at
    /\ jobs[r.id] # None => r.before.is.at <= jobs[r.id].is.at
    /\ r.want.on /\ r.want.at = r.before.is.at => r.before.fired # "ok"

(* The update would arm the job again for the same generation.               *)
Rearms(r) == r.before.fired = "failed" /\ ~r.before.is.on /\ r.want.on /\ r.before.is.at = r.want.at
Again(r) == Rearms(r) /\ jobs[r.id] # None /\ r.before.is.at = jobs[r.id].is.at

Shown(n) ==
  \A r \in Late : Again(r) /\ n # None /\ n.is.at = jobs[r.id].is.at => n.fired = "failed"

Rearmed ==
  /\ \A r \in Updates : Again(r) => jobs[r.id].fired = "failed"
  /\ \A r, q \in Late : Again(r) /\ Again(q) => r = q
  /\ sync.pc = "updating" /\ Again(Sent) => \A r \in Late : ~Again(r)
  /\ sync.pc = "apply" => Shown(sync.native)

RunInv == Made /\ Dated /\ Ran /\ Forward /\ Rearmed

LEMMA RunInit == Init => RunInv
  <1> SUFFICES ASSUME Init PROVE RunInv
    OBVIOUS
  <1>1. late = {} /\ sync = Idle /\ decl \in Jobs /\ ran = [g \in Gens |-> 0] /\ made \in Nat
    BY BoundsAssumption DEF Init, Installed
  <1>2. Ran /\ Forward /\ Rearmed
    BY <1>1 DEF Ran, Forward, Rearmed, Updates, Late, Idle
  <1>3. CASE made = 0 /\ file = None /\ jobs = [j \in Ids |-> None]
    BY <1>1, <1>2, <1>3 DEF RunInv, Made, Dated, Live, Idle
  <1>4. CASE Installed(decl)
    <2> DEFINE is == [job |-> decl, at |-> 1, on |-> decl.enabled, cap |-> "old"]
    <2>1. /\ made = 1 /\ jobs = [j \in Ids |-> IF j = 1 THEN [is |-> is, fired |-> "no"] ELSE None]
          /\ file = [NewRecord(decl) EXCEPT !.id = 1, !.is = is]
      BY <1>4 DEF Installed
    <2>2. is \in Settings /\ is.at = 1
      BY <1>1, GensFacts, JobsAssumption DEF Settings
    <2> HIDE DEF is
    <2>3. file \in Records /\ file.id = 1 /\ file.gen = 1
      <3>1. 1 \in Ids
        BY <1>4, BoundsAssumption DEF Installed, Ids
      <3> QED BY <1>1, <2>1, <2>2, <3>1, GensFacts DEF NewRecord, Records
    <2>4. \A j \in Live : j = 1 /\ jobs[j].is.at = 1
      BY <2>1, <2>2 DEF Live
    <2>5. Made
      BY <1>1, <2>1, <2>3, <2>4 DEF Made, Idle
    <2>6. Dated
      BY <1>1, <2>3, <2>4, NoneAssumption DEF Dated, Idle
    <2> QED BY <1>2, <2>5, <2>6 DEF RunInv
  <1> QED BY <1>3, <1>4 DEF Init

(* Every update is of the named job.                                         *)
LEMMA UpdatesNamed ==
  ASSUME TypeInv, OneInv, NEW r \in Updates
  PROVE  /\ r.kind = "update" /\ r.id \in Ids /\ r.before \in Natives /\ r.want \in Settings
         /\ r.before.is \in Settings
         /\ Names(r.id)
  <1>1. CASE r \in Late
    BY <1>1 DEF Late, TypeInv, WorldType, Requests, OneInv, LateKnown, Natives
  <1>2. CASE sync.pc = "updating" /\ r = Sent
    BY <1>2 DEF Sent, TypeInv, SyncType, Held, OneInv, Matched, Names, Natives
  <1> QED BY <1>1, <1>2 DEF Updates

(* The named job may be switched, edited or deleted, but keeps its            *)
(* generation and what it has fired.                                         *)
Alike(j) == jobs'[j] # None => /\ jobs[j] # None
                               /\ jobs'[j].is.at = jobs[j].is.at
                               /\ jobs'[j].fired = jobs[j].fired

LEMMA RunKept ==
  ASSUME TypeInv, OneInv, Ran, Forward, Rearmed, IdKept, UNCHANGED ran,
         \A j \in Ids : Names(j) => Alike(j),
         late' \subseteq late,
         sync'.pc = "updating" => sync.pc = "updating" /\ Sent' = Sent,
         sync'.pc = "apply" => Shown(sync'.native)
  PROVE  Ran' /\ Forward' /\ Rearmed'
  <1>1. Late' \subseteq Late /\ Updates' \subseteq Updates
    BY DEF Late, Updates
  <1>2. \A r \in Updates : r.id \in Ids /\ Alike(r.id)
    BY UpdatesNamed
  <1>3. Ran'
    <2> SUFFICES ASSUME NEW g \in Gens, ran[g] # 0
                 PROVE  /\ ran[g] = 1 /\ file' # None /\ file'.id \in Ids
                        /\ jobs'[file'.id] # None =>
                             /\ g <= jobs'[file'.id].is.at
                             /\ g = jobs'[file'.id].is.at => jobs'[file'.id].fired = "ok"
      BY DEF Ran
    <2>1. file # None /\ file.id \in Ids /\ file.id # 0
      BY DEF Ran, Ids
    <2>2. file' # None /\ file'.id = file.id
      BY <2>1 DEF IdKept
    <2>3. Alike(file.id)
      BY <2>1 DEF Names
    <2> QED BY <2>1, <2>2, <2>3 DEF Ran, Alike
  <1>4. Forward'
    BY <1>1, <1>2 DEF Forward, Alike
  <1>5. \A r \in Updates : Again(r)' => Again(r) /\ jobs'[r.id].is.at = jobs[r.id].is.at
                                    /\ jobs'[r.id].fired = jobs[r.id].fired
    BY <1>2 DEF Again, Rearms, Alike
  <1>6. Late \subseteq Updates
    BY DEF Updates
  <1>7. \A r \in Updates' : Again(r)' => jobs'[r.id].fired = "failed"
    BY <1>1, <1>5 DEF Rearmed
  <1>8. \A r, q \in Late' : Again(r)' /\ Again(q)' => r = q
    BY <1>1, <1>5, <1>6 DEF Rearmed
  <1>9. sync'.pc = "updating" /\ Again(Sent)' => \A r \in Late' : ~Again(r)'
    <2>1. sync'.pc = "updating" => Sent \in Updates /\ Sent' = Sent
      BY DEF Updates
    <2> QED BY <1>1, <1>5, <1>6, <2>1 DEF Rearmed, Again
  <1>10. sync'.pc = "apply" => Shown(sync.native)'
    BY <1>1, <1>5, <1>6 DEF Shown
  <1> QED BY <1>3, <1>4, <1>7, <1>8, <1>9, <1>10 DEF Rearmed

(* What an update that is accepted does to the job.                          *)
LEMMA Accepted ==
  ASSUME NEW n \in Natives, NEW before \in Natives, NEW want \in Settings,
         Revision(n) = Revision(before)
  PROVE  LET p == Patched(n, before, want)
         IN  /\ n.is.at = before.is.at
             /\ p.is.at = want.at
             /\ p.fired = n.fired \/ p.fired = "no"
             /\ p.fired # n.fired /\ p.is.at = n.is.at =>
                  want.on /\ ~before.is.on /\ before.fired # "no"
  <1> DEFINE p == Patched(n, before, want)
  <1>1. n.is \in Settings /\ before.is \in Settings /\ n.fired \in {"no", "ok", "failed"}
    BY DEF Natives
  <1>2. Revision(n) = [n.is EXCEPT !.on = n.is.on \/ n.fired # "no"]
        /\ Revision(before) = [before.is EXCEPT !.on = before.is.on \/ before.fired # "no"]
    BY DEF Revision
  <1>3. n.is.at = before.is.at /\ ((n.is.on \/ n.fired # "no") <=> (before.is.on \/ before.fired # "no"))
    <2>1. Revision(n).at = n.is.at /\ Revision(before).at = before.is.at
      BY <1>1, <1>2 DEF Settings
    <2>2. /\ Revision(n).on = (n.is.on \/ n.fired # "no")
          /\ Revision(before).on = (before.is.on \/ before.fired # "no")
      BY <1>1, <1>2 DEF Settings
    <2> QED BY <2>1, <2>2
  <1>4. /\ p.is.at = IF before.is.at = want.at THEN n.is.at ELSE want.at
        /\ p.is.on = IF before.is.on = want.on THEN n.is.on ELSE want.on
    BY PatchedFields
  <1>5. p.fired = IF p.is.at # n.is.at \/ (p.is.on /\ ~n.is.on) THEN "no" ELSE n.fired
    BY DEF Patched
  <1> HIDE DEF p
  <1>6. want.on \in BOOLEAN /\ n.is.on \in BOOLEAN /\ before.is.on \in BOOLEAN
    BY <1>1 DEF Settings
  <1>7. p.fired # n.fired /\ p.is.at = n.is.at => want.on /\ ~before.is.on /\ before.fired # "no"
    <2> SUFFICES ASSUME p.fired # n.fired, p.is.at = n.is.at
                 PROVE  want.on /\ ~before.is.on /\ before.fired # "no"
      OBVIOUS
    <2>1. p.is.on /\ ~n.is.on /\ n.fired # "no"
      BY <1>5
    <2>2. want.on /\ ~before.is.on
      BY <1>4, <1>6, <2>1
    <2> QED BY <1>3, <2>1, <2>2
  <1>8. p.is.at = want.at /\ (p.fired = n.fired \/ p.fired = "no")
    BY <1>3, <1>4, <1>5
  <1> QED BY <1>3, <1>7, <1>8 DEF p

(* An update takes effect: the job moves on, or the only update that arms it   *)
(* again does so.                                                            *)
LEMMA RunPatched ==
  ASSUME TypeInv, OneInv, Ran, Forward, Rearmed, NEW r \in Updates,
         Takes(r.id, r.before), UpdateJob(r.id, r.before, r.want), UNCHANGED <<file, ran>>,
         late' \subseteq late,
         \A q \in Updates' : q \in Updates /\ ~(Again(r) /\ Again(q)),
         sync'.pc = "updating" => sync.pc = "updating" /\ Sent' = Sent,
         sync'.pc = "apply" => Shown(sync'.native)
  PROVE  Ran' /\ Forward' /\ Rearmed'
  <1> DEFINE n == jobs[r.id]
             p == Patched(n, r.before, r.want)
  <1>1. r.id \in Live /\ Revision(n) = Revision(r.before) /\ n # None /\ Names(r.id)
        /\ r.before \in Natives /\ r.want \in Settings /\ r.id \in Ids
        /\ r.before.is \in Settings
    BY UpdatesNamed DEF Takes, Live
  <1>2. n \in Natives /\ p \in Natives /\ jobs' = [jobs EXCEPT ![r.id] = p]
        /\ jobs \in [Ids -> Natives \cup {None}]
    BY <1>1, UpdatedJob DEF TypeInv, WorldType
  <1>3. /\ n.is.at = r.before.is.at /\ p.is.at = r.want.at
        /\ p.fired = n.fired \/ p.fired = "no"
        /\ p.fired # n.fired /\ p.is.at = n.is.at =>
             r.want.on /\ ~r.before.is.on /\ r.before.fired # "no"
    BY <1>1, <1>2, Accepted
  <1>4. jobs'[r.id] = p /\ p # None
    BY <1>1, <1>2, NoneAssumption
  <1> HIDE DEF p
  <1>5. n.is.at \in Nat /\ p.is.at \in Nat /\ n.is.at <= p.is.at
    <2>1. r.before.is.at \in Gens /\ r.want.at \in Gens /\ r.before.is.at <= r.want.at
      BY <1>1 DEF Forward, Settings
    <2> QED BY <1>3, <2>1, GensFacts
  <1>6. p.is.at = n.is.at /\ p.fired # n.fired => Again(r) /\ n.fired = "failed"
    <2> SUFFICES ASSUME p.is.at = n.is.at, p.fired # n.fired
                 PROVE  Again(r) /\ n.fired = "failed"
      OBVIOUS
    <2>1. r.before.fired = "failed"
      BY <1>1, <1>3 DEF Forward, Natives
    <2>2. Again(r)
      BY <1>1, <1>3, <2>1 DEF Again, Rearms
    <2> QED BY <2>2 DEF Rearmed
  <1> HIDE DEF n
  <1>7. \A q \in Updates : q.id = r.id /\ q.before.is.at \in Nat
    <2> SUFFICES ASSUME NEW q \in Updates PROVE q.id = r.id /\ q.before.is.at \in Nat
      OBVIOUS
    <2>1. Names(q.id) /\ q.before.is \in Settings
      BY UpdatesNamed
    <2> QED BY <1>1, <2>1, GensFacts DEF Names, Settings
  <1>8. jobs[r.id] = n
    BY DEF n
  <1>9. Ran'
    <2> SUFFICES ASSUME NEW g \in Gens, ran[g] # 0
                 PROVE  /\ ran[g] = 1 /\ file # None /\ file.id = r.id
                        /\ g <= p.is.at
                        /\ g = p.is.at => p.fired = "ok"
      BY <1>1, <1>4 DEF Ran
    <2>1. file # None /\ file.id = r.id
      BY <1>1 DEF Names
    <2>2. ran[g] = 1 /\ g <= n.is.at /\ (g = n.is.at => n.fired = "ok")
      BY <1>1, <1>8, <2>1 DEF Ran
    <2> QED BY <1>5, <1>6, <2>1, <2>2, GensFacts
  <1>10. Forward'
    <2> SUFFICES ASSUME NEW q \in Updates'
                 PROVE  /\ q.before.is.at <= q.want.at
                        /\ q.before.is.at <= jobs'[q.id].is.at
                        /\ q.want.on /\ q.want.at = q.before.is.at => q.before.fired # "ok"
      BY DEF Forward
    <2>1. q.before.is.at <= n.is.at
      BY <1>1, <1>7, <1>8 DEF Forward
    <2> QED BY <1>4, <1>5, <1>7, <2>1 DEF Forward
  <1>11. \A q \in Updates : Again(q)' => Again(q) /\ p.is.at = n.is.at
    <2> SUFFICES ASSUME NEW q \in Updates, Again(q)' PROVE Again(q) /\ p.is.at = n.is.at
      OBVIOUS
    <2>1. Rearms(q) /\ q.before.is.at = p.is.at
      BY <1>4, <1>7 DEF Again, Rearms
    <2>2. q.before.is.at <= n.is.at
      BY <1>1, <1>7, <1>8 DEF Forward
    <2>3. q.before.is.at = n.is.at
      BY <1>5, <1>7, <2>1, <2>2
    <2> QED BY <1>1, <1>7, <1>8, <2>1, <2>3 DEF Again
  <1>12. Late' \subseteq Late /\ Late \subseteq Updates
    BY DEF Late, Updates
  <1>13. \A q \in Updates' : Again(q)' => jobs'[q.id].fired = "failed"
    <2> SUFFICES ASSUME NEW q \in Updates', Again(q)' PROVE p.fired = "failed"
      BY <1>4, <1>7
    <2>1. Again(q) /\ p.is.at = n.is.at /\ n.fired = "failed" /\ ~Again(r)
      BY <1>7, <1>8, <1>11 DEF Rearmed
    <2> QED BY <1>6, <2>1
  <1>14. \A q, s \in Late' : Again(q)' /\ Again(s)' => q = s
    BY <1>11, <1>12 DEF Rearmed
  <1>15. sync'.pc = "updating" /\ Again(Sent)' => \A q \in Late' : ~Again(q)'
    <2>1. sync'.pc = "updating" => Sent \in Updates /\ Sent' = Sent
      BY DEF Updates
    <2> QED BY <1>11, <1>12, <2>1 DEF Rearmed, Again
  <1>16. sync'.pc = "apply" => Shown(sync.native)'
    <2> SUFFICES ASSUME sync'.pc = "apply", NEW q \in Late', Again(q)', sync'.native # None,
                        sync'.native.is.at = jobs'[q.id].is.at
                 PROVE  sync'.native.fired = "failed"
      BY DEF Shown
    <2>1. Again(q) /\ p.is.at = n.is.at /\ q.id = r.id
      BY <1>7, <1>11, <1>12
    <2> QED BY <1>4, <1>8, <1>12, <2>1 DEF Shown
  <1> QED BY <1>9, <1>10, <1>13, <1>14, <1>15, <1>16 DEF Rearmed

-------------------------------------------------------------------------------
(* The synchronization's steps.                                              *)
Grown == file # None => file' # None /\ file.gen <= file'.gen

LEMMA DatedKept ==
  ASSUME TypeInv, TypeInv', Dated, Grown, UNCHANGED <<jobs, late>>,
         sync'.pc \in {"adding", "added", "updating", "updated", "finish"} =>
           sync'.want.at <= file'.gen
  PROVE  Dated'
  <1>1. file # None => file.gen \in Nat /\ file'.gen \in Nat
    BY GensFacts, NoneAssumption DEF TypeInv, Records, Grown
  <1>2. \A j \in Live : jobs[j].is.at \in Nat
    BY OwnedType, GensFacts DEF Natives, Settings
  <1>3. \A r \in late : r.want.at \in Nat
    BY GensFacts DEF TypeInv, WorldType, Requests, Settings
  <1>4. \A j \in Live : file' # None /\ jobs[j].is.at <= file'.gen
    BY <1>1, <1>2 DEF Dated, Grown
  <1>5. \A r \in late : file' # None /\ r.want.at <= file'.gen
    BY <1>1, <1>3 DEF Dated, Grown
  <1> QED BY <1>4, <1>5 DEF Dated, Live

LEMMA RunSaved ==
  ASSUME TypeInv, TypeInv', OneInv, RunInv, UNCHANGED <<jobs, made, late, ran>>, IdKept, Grown,
         file' # None => file'.id <= made,
         sync'.id <= made,
         sync'.pc \in {"adding", "added", "updating", "updated", "finish"} =>
           sync'.want.at <= file'.gen,
         sync'.pc # "updating",
         sync'.pc = "apply" => Shown(sync'.native)
  PROVE  RunInv'
  <1>1. \A j \in Ids : Alike(j)
    BY DEF Alike
  <1>2. Ran' /\ Forward' /\ Rearmed'
    BY <1>1, RunKept DEF RunInv
  <1>3. Dated'
    BY DatedKept DEF RunInv
  <1>4. Made'
    BY DEF RunInv, Made, Live
  <1> QED BY <1>2, <1>3, <1>4 DEF RunInv

LEMMA RunIdle ==
  ASSUME TypeInv, TypeInv', OneInv, RunInv, UNCHANGED <<jobs, made, late, ran>>, IdKept, Grown,
         file' # None => file'.id <= made, sync' = Idle
  PROVE  RunInv'
  <1>1. sync'.pc = "idle" /\ sync'.id <= made
    BY BoundsAssumption DEF Idle, TypeInv, WorldType
  <1> QED BY <1>1, RunSaved

LEMMA RunBegin ==
  ASSUME TypeInv, OneInv, RunInv, Begin
  PROVE  RunInv'
  <1>1. /\ UNCHANGED <<file, jobs, made, late, ran>> /\ sync'.pc = "plan" /\ sync'.id = 0
        /\ made \in Nat
    BY BoundsAssumption DEF Begin, Idle, TypeInv, WorldType
  <1>2. IdKept /\ Grown
    BY <1>1, GensFacts, NoneAssumption DEF IdKept, Grown, TypeInv, Records
  <1>3. TypeInv'
    BY TypeBegin
  <1> QED BY <1>1, <1>2, <1>3, RunSaved DEF RunInv, Made

(* A listing that is acted upon shows the named job.                         *)
LEMMA ListedShown ==
  ASSUME TypeInv, OneInv, RunInv, file # None => ~Conflict(file)
  PROVE  Shown(OwnedJob)
  <1> SUFFICES ASSUME NEW r \in Late, Again(r), OwnedJob # None PROVE OwnedJob.fired = "failed"
    BY DEF Shown
  <1>1. r \in Updates
    BY DEF Updates
  <1>2. Names(r.id) /\ r.id \in Ids
    BY <1>1, UpdatesNamed
  <1>3. OwnedId \in Live /\ OwnedJob = jobs[OwnedId]
    BY OwnedType
  <1>4. OwnedId = r.id
    BY <1>2, <1>3 DEF Conflict, Names, Ids
  <1> QED BY <1>1, <1>3, <1>4 DEF RunInv, Rearmed

LEMMA RunPlan ==
  ASSUME TypeInv, OneInv, RunInv, Plan
  PROVE  RunInv'
  <1>1. /\ sync.pc = "plan" /\ sync.rec = file /\ Planned
        /\ sync' = [sync EXCEPT !.pc = "apply", !.id = OwnedId, !.native = OwnedJob,
                          !.rec = IF sync.rec = None THEN NewRecord(sync.man) ELSE sync.rec]
        /\ UNCHANGED <<file, jobs, made, late, ran>>
    BY DEF Plan, TypeInv, Held
  <1>2. sync'.pc = "apply" /\ sync'.id = OwnedId /\ sync'.native = OwnedJob
    BY <1>1 DEF TypeInv, SyncType
  <1>3. IdKept /\ Grown
    BY <1>1, GensFacts, NoneAssumption DEF IdKept, Grown, TypeInv, Records
  <1>4. TypeInv'
    BY TypePlan
  <1>5. OwnedId <= made
    BY OwnedType, BoundsAssumption DEF RunInv, Made, OwnedId, TypeInv, WorldType
  <1>6. Shown(sync'.native)
    BY <1>1, <1>2, ListedShown DEF Planned
  <1> QED BY <1>1, <1>2, <1>3, <1>4, <1>5, <1>6, RunSaved DEF RunInv, Made

LEMMA RunAdopt ==
  ASSUME TypeInv, OneInv, RunInv, Adopt
  PROVE  RunInv'
  <1> DEFINE rec == [sync.rec EXCEPT !.id = sync.id, !.is = sync.native.is, !.pend = None]
  <1>1. /\ sync.pc = "apply" /\ sync.native # None
        /\ sync' = [sync EXCEPT !.rec = rec] /\ file' = rec /\ UNCHANGED <<jobs, made, late, ran>>
    BY DEF Adopt, Adoptable, Save
  <1>2. /\ sync.rec \in Records /\ sync.id \in Ids /\ sync.rec = file /\ file # None
        /\ sync.rec.id \in {sync.id, 0} /\ sync.native.is \in Settings
    BY <1>1, RecordAtHand DEF TypeInv, Held, OneInv, Matched, Natives
  <1>3. rec \in Records /\ rec.id = sync.id /\ rec.gen = file.gen /\ file.gen \in Nat
    BY <1>2, GensFacts DEF Records
  <1> HIDE DEF rec
  <1>4. IdKept /\ Grown
    BY <1>1, <1>2, <1>3, NoneAssumption DEF IdKept, Grown
  <1>5. sync'.pc = "apply" /\ sync'.native = sync.native /\ sync'.id = sync.id
    BY <1>1 DEF TypeInv, SyncType
  <1>6. TypeInv'
    BY TypeAdopt
  <1> QED BY <1>1, <1>3, <1>4, <1>5, <1>6, RunSaved DEF RunInv, Made, Rearmed

LEMMA RenewedGrown ==
  ASSUME TypeInv, NEW rec \in Records, Paid(rec), decl \in Jobs
  PROVE  rec.gen <= Renewed(rec, decl).gen /\ rec.gen \in Nat /\ Renewed(rec, decl).gen \in Nat
  <1>1. /\ rec.gen \in Nat
        /\ Renewed(rec, decl).gen = IF rec.hash.trigger # decl.trigger THEN rec.gen + 1 ELSE rec.gen
    BY GensFacts DEF Records, Renewed
  <1> QED BY <1>1

LEMMA RunIntendCreate ==
  ASSUME TypeInv, OneInv, RunInv, IntendCreate
  PROVE  RunInv'
  <1> DEFINE rec == Renewed(sync.rec, sync.man)
             is == FirstSettings(sync.man, rec)
             intent == [rec EXCEPT !.pend = [kind |-> "create", is |-> is, capture |-> FALSE]]
  <1>1. /\ sync.pc = "apply" /\ sync.man # None /\ decl = sync.man /\ sync.native = None
        /\ sync' = [sync EXCEPT !.pc = "adding", !.rec = intent, !.want = is] /\ file' = intent
        /\ UNCHANGED <<jobs, made, late, ran>>
    BY DEF IntendCreate, Creatable, Save
  <1>2. decl \in Jobs /\ sync.rec \in Records /\ Paid(sync.rec) /\ sync.rec.id = 0
        /\ (file # None => file = sync.rec)
    BY <1>1, RecordAtHand DEF TypeInv, SyncType, OneInv, Matched
  <1>3. /\ rec \in Records /\ rec.id = 0
        /\ sync.rec.gen <= rec.gen /\ rec.gen \in Nat /\ sync.rec.gen \in Nat
    BY <1>1, <1>2, RenewedPaid, RenewedGrown
  <1> HIDE DEF rec
  <1>4. is \in Settings /\ is.at = rec.gen
    BY <1>1, <1>2, <1>3, FirstSettingsType
  <1> HIDE DEF is
  <1>5. intent \in Records /\ intent.id = 0 /\ intent.gen = rec.gen
    BY <1>3, <1>4, IntentType
  <1> HIDE DEF intent
  <1>6. IdKept /\ Grown
    BY <1>1, <1>2, <1>3, <1>5, NoneAssumption DEF IdKept, Grown
  <1>7. sync'.pc = "adding" /\ sync'.want = is /\ sync'.id = sync.id
    BY <1>1 DEF TypeInv, SyncType
  <1>8. TypeInv'
    BY TypeIntendCreate
  <1>9. 0 <= made /\ is.at <= rec.gen
    BY <1>3, <1>4, BoundsAssumption DEF TypeInv, WorldType
  <1> QED BY <1>1, <1>4, <1>5, <1>6, <1>7, <1>8, <1>9, RunSaved DEF RunInv, Made

(* A new job has a number of its own, and is not the named one.              *)
LEMMA RunCreated ==
  ASSUME TypeInv, OneInv, RunInv, NEW is \in Settings, CreateJob(is),
         file # None, is.at <= file.gen,
         UNCHANGED <<file, ran>>, late' \subseteq late,
         sync'.pc = "updating" => sync.pc = "updating" /\ Sent' = Sent,
         sync'.pc = "apply" => Shown(sync'.native),
         sync'.id <= made',
         sync'.pc \in {"adding", "added", "updating", "updated", "finish"} =>
           sync'.want.at <= file.gen
  PROVE  RunInv'
  <1>1. /\ jobs' = [jobs EXCEPT ![made'] = [is |-> is, fired |-> "no"]]
        /\ jobs \in [Ids -> Natives \cup {None}] /\ made' \in Ids
    BY CreatedJob DEF TypeInv, WorldType
  <1>2. made' = made + 1 /\ made \in Nat
    BY BoundsAssumption DEF CreateJob, TypeInv, WorldType
  <1>3. \A j \in Ids : j # made' => jobs'[j] = jobs[j]
    BY <1>1
  <1>4. file.id # made'
    <2>1. file.id \in Nat /\ file.id <= made
      BY NoneAssumption DEF TypeInv, Records, Ids, RunInv, Made
    <2> QED BY <1>2, <2>1
  <1>5. \A j \in Ids : Names(j) => Alike(j)
    BY <1>3, <1>4 DEF Names, Alike
  <1>6. IdKept
    BY DEF IdKept
  <1>7. Ran' /\ Forward' /\ Rearmed'
    BY <1>5, <1>6, RunKept DEF RunInv
  <1>8. jobs'[made'].is.at = is.at
    BY <1>1
  <1>9. \A j \in Live' : j = made' \/ (j \in Live /\ jobs'[j] = jobs[j])
    BY <1>3 DEF Live
  <1>10. Dated'
    BY <1>8, <1>9 DEF RunInv, Dated
  <1>11. Made'
    <2>1. \A j \in Live : j \in Nat /\ j <= made'
      BY <1>2 DEF Live, Ids, RunInv, Made
    <2>2. file.id <= made'
      BY <1>2, NoneAssumption DEF TypeInv, Records, Ids, RunInv, Made
    <2>3. made' <= made'
      BY <1>2
    <2> QED BY <1>9, <2>1, <2>2, <2>3 DEF Made
  <1> QED BY <1>7, <1>10, <1>11 DEF RunInv

LEMMA RunAdded ==
  ASSUME TypeInv, OneInv, RunInv, Added
  PROVE  RunInv'
  <1>1. /\ sync.pc = "adding" /\ sync.want \in Settings /\ CreateJob(sync.want)
        /\ sync' = [sync EXCEPT !.pc = "added", !.id = made'] /\ UNCHANGED <<file, late, ran>>
        /\ file # None
    BY DEF TypeInv, SyncType, Held, Added
  <1>2. sync'.pc = "added" /\ sync'.id = made' /\ sync'.want = sync.want
    BY <1>1 DEF TypeInv, SyncType
  <1>3. sync.want.at <= file.gen
    BY <1>1 DEF RunInv, Dated
  <1>4. made' <= made'
    <2>1. made' \in Ids
      BY <1>1, CreatedJob
    <2> QED BY <2>1, BoundsAssumption DEF Ids
  <1> QED BY <1>1, <1>2, <1>3, <1>4, RunCreated

LEMMA RunAcknowledge ==
  ASSUME TypeInv, OneInv, RunInv, Acknowledge
  PROVE  RunInv'
  <1> DEFINE rec == [sync.rec EXCEPT !.id = sync.id, !.is = sync.want, !.pend = None]
  <1>1. /\ sync.pc = "added" /\ sync.id \in Live
        /\ sync' = [sync EXCEPT !.pc = "apply", !.rec = rec, !.native = jobs[sync.id]]
        /\ file' = rec /\ UNCHANGED <<jobs, made, late, ran>>
    BY DEF Acknowledge, Save, ReadBack
  <1>2. /\ sync.rec \in Records /\ sync.rec.id = 0 /\ sync.rec = file /\ sync.want \in Settings
        /\ sync.id \in Ids /\ sync.id # 0
    BY <1>1, OwnedType DEF TypeInv, Held, SyncType, OneInv, Matched, Ids
  <1>3. rec \in Records /\ rec.id = sync.id /\ rec.gen = file.gen /\ file.gen \in Nat
    BY <1>2, GensFacts DEF Records
  <1> HIDE DEF rec
  <1>4. IdKept /\ Grown
    BY <1>1, <1>2, <1>3, NoneAssumption DEF IdKept, Grown
  <1>5. sync'.pc = "apply" /\ sync'.id = sync.id
    BY <1>1 DEF TypeInv, SyncType
  <1>6. \A r \in Late : FALSE
    <2> SUFFICES ASSUME NEW r \in Late PROVE FALSE
      OBVIOUS
    <2>1. Names(r.id) /\ r.id \in Ids
      BY UpdatesNamed DEF Updates
    <2> QED BY <1>2, <2>1 DEF Names, Ids
  <1>7. Shown(sync'.native)
    BY <1>6 DEF Shown
  <1>8. TypeInv'
    BY TypeAcknowledge
  <1> QED BY <1>1, <1>3, <1>4, <1>5, <1>7, <1>8, RunSaved DEF RunInv, Made

(* A job that an update changes is not renamed, nor dated beyond the record.  *)
LEMMA PatchedDated ==
  ASSUME TypeInv, Made, Dated, NEW j \in Live, NEW before \in Natives, NEW want \in Settings,
         Takes(j, before), UpdateJob(j, before, want), UNCHANGED <<file, made>>,
         want.at <= file.gen, late' \subseteq late, sync'.id = sync.id,
         sync'.pc \in {"adding", "added", "updating", "updated", "finish"} =>
           sync'.want.at <= file.gen
  PROVE  Made' /\ Dated'
  <1> DEFINE p == Patched(jobs[j], before, want)
  <1>1. /\ jobs' = [jobs EXCEPT ![j] = p] /\ jobs[j] \in Natives /\ p \in Natives /\ j \in Ids
        /\ jobs \in [Ids -> Natives \cup {None}]
    BY UpdatedJob, OwnedType DEF TypeInv, WorldType
  <1>2. p.is.at = want.at
    BY <1>1, Accepted DEF Takes
  <1> HIDE DEF p
  <1>3. jobs'[j].is.at = want.at /\ \A i \in Ids : i # j => jobs'[i] = jobs[i]
    BY <1>1, <1>2
  <1>4. Live' \subseteq Live
    BY <1>3 DEF Live
  <1>5. file # None
    BY DEF Dated
  <1>6. \A i \in Live' : jobs'[i].is.at <= file.gen
    BY <1>3, <1>4 DEF Dated, Live
  <1>7. Dated'
    BY <1>5, <1>6 DEF Dated
  <1> QED BY <1>4, <1>7 DEF Made

(* What an intended update is computed from.                                 *)
LEMMA RunIntended ==
  ASSUME TypeInv, TypeInv', OneInv, RunInv, NEW rec \in Records, NEW want \in Settings,
         sync.pc = "apply", sync.id \in Live, Unmoved, sync.native \in Natives,
         IntendUpdate(rec, want), UNCHANGED <<jobs, made, late, ran>>, rec.id = sync.id,
         file # None => file.id = rec.id /\ file.gen <= rec.gen,
         want.at <= rec.gen,
         jobs[sync.id].is.at <= want.at,
         want.on /\ want.at = jobs[sync.id].is.at =>
           jobs[sync.id].fired # "ok" /\ ~(sync.native.is.at = want.at /\ Ambiguous(sync.native))
  PROVE  RunInv'
  <1> DEFINE before == jobs[sync.id]
             capture == CaptureOnly(rec, before, want)
             intent == [rec EXCEPT !.pend = [kind |-> "update", is |-> want, capture |-> capture]]
  <1>1. /\ sync' = [sync EXCEPT !.pc = "updating", !.rec = intent, !.native = before, !.want = want]
        /\ file' = intent
    BY DEF IntendUpdate, Save
  <1>2. capture \in BOOLEAN /\ before \in Natives /\ before # None /\ sync.id \in Ids
    BY OwnedType, NoneAssumption DEF CaptureOnly
  <1>3. Revision(before) = Revision(sync.native)
    BY DEF Unmoved, Takes
  <1>4. before.is \in Settings /\ sync.native.is \in Settings /\ before.is.at = sync.native.is.at
    <2>1. before.is \in Settings /\ sync.native.is \in Settings
      BY <1>2 DEF Natives
    <2>2. Revision(before).at = before.is.at /\ Revision(sync.native).at = sync.native.is.at
      BY <2>1 DEF Revision, Settings
    <2> QED BY <1>3, <2>1, <2>2
  <1>5. jobs[sync.id] = before
    OBVIOUS
  <1> HIDE DEF before, capture
  <1>6. intent \in Records /\ intent.id = sync.id /\ intent # None /\ intent.gen = rec.gen
    BY <1>2, IntentType, NoneAssumption
  <1> HIDE DEF intent
  <1>7. IdKept /\ Grown
    BY <1>1, <1>6 DEF IdKept, Grown
  <1>8. /\ sync'.pc = "updating" /\ sync'.id = sync.id /\ sync'.native = before /\ sync'.want = want
    BY <1>1 DEF TypeInv, SyncType
  <1>9. Dated'
    BY <1>1, <1>6, <1>7, <1>8, DatedKept DEF RunInv
  <1>10. Made'
    BY <1>1, <1>6, <1>8 DEF RunInv, Made, Live
  <1>11. \A j \in Ids : Alike(j)
    BY DEF Alike
  <1>12. Late \subseteq Updates /\ Updates' = Late \cup {Sent'}
    BY <1>8 DEF Late, Updates
  <1>13. Sent' = [kind |-> "update", id |-> sync.id, before |-> before, want |-> want]
    BY <1>8 DEF Sent
  <1>14. /\ Sent'.id = sync.id /\ Sent'.before = before /\ Sent'.want = want
    BY <1>13
  <1>15. Ran'
    <2> SUFFICES ASSUME NEW g \in Gens, ran[g] # 0
                 PROVE  /\ ran[g] = 1 /\ file' # None /\ file'.id \in Ids
                        /\ jobs[file'.id] # None =>
                             /\ g <= jobs[file'.id].is.at
                             /\ g = jobs[file'.id].is.at => jobs[file'.id].fired = "ok"
      BY DEF Ran
    <2>1. file # None /\ file.id \in Ids /\ file.id # 0
      BY DEF RunInv, Ran, Ids
    <2>2. file' # None /\ file'.id = file.id
      BY <1>7, <2>1 DEF IdKept
    <2> QED BY <2>1, <2>2 DEF RunInv, Ran
  <1>16. before.is.at \in Nat
    BY <1>4, GensFacts DEF Settings
  <1>17. Forward'
    <2> SUFFICES ASSUME NEW q \in Updates'
                 PROVE  /\ q.before.is.at <= q.want.at
                        /\ jobs[q.id] # None => q.before.is.at <= jobs[q.id].is.at
                        /\ q.want.on /\ q.want.at = q.before.is.at => q.before.fired # "ok"
      BY DEF Forward
    <2>1. CASE q \in Late
      BY <1>12, <2>1 DEF RunInv, Forward
    <2>2. CASE q = Sent'
      BY <1>5, <1>14, <1>16, <2>2
    <2> QED BY <1>12, <2>1, <2>2
  <1>18. Again(Sent') => \A r \in Late : ~Again(r)
    <2> SUFFICES ASSUME Again(Sent'), NEW r \in Late, Again(r) PROVE FALSE
      OBVIOUS
    <2>1. want.on /\ before.is.at = want.at
      BY <1>14 DEF Again, Rearms
    <2>2. sync.native.fired # "failed"
      BY <1>4, <1>5, <2>1 DEF Ambiguous
    <2>3. r.id = sync.id
      <3>1. Names(r.id) /\ r.id \in Ids
        BY <1>12, UpdatesNamed
      <3> QED BY <3>1 DEF Names
    <2>4. sync.native # None
      BY NoneAssumption
    <2> QED BY <1>4, <1>5, <2>2, <2>3, <2>4 DEF RunInv, Rearmed, Shown
  <1>19. Late' = Late /\ \A r : Again(r)' <=> Again(r)
    BY DEF Late, Again, Rearms
  <1>20. Rearmed'
    <2>1. \A r \in Updates' : Again(r) => jobs[r.id].fired = "failed"
      <3> SUFFICES ASSUME NEW r \in Updates', Again(r) PROVE jobs[r.id].fired = "failed"
        OBVIOUS
      <3>1. CASE r \in Late
        BY <1>12, <3>1 DEF RunInv, Rearmed
      <3>2. CASE r = Sent'
        BY <1>5, <1>14, <3>2 DEF Again, Rearms
      <3> QED BY <1>12, <3>1, <3>2
    <2>2. \A r, q \in Late : Again(r) /\ Again(q) => r = q
      BY DEF RunInv, Rearmed
    <2>3. Again(Sent)' => Again(Sent')
      BY DEF Again, Rearms
    <2> QED BY <1>8, <1>18, <1>19, <2>1, <2>2, <2>3 DEF Rearmed
  <1> QED BY <1>9, <1>10, <1>15, <1>17, <1>20 DEF RunInv

LEMMA RunSettle ==
  ASSUME TypeInv, OneInv, RunInv, Settle
  PROVE  RunInv'
  <1> DEFINE rec == Renewed(sync.rec, sync.man)
             want == Desired(sync.man, rec, jobs[sync.id])
  <1>1. /\ sync.pc = "apply" /\ sync.man # None /\ sync.native # None /\ ~Adoptable
        /\ sync.id \in Live /\ decl = sync.man /\ Unmoved
        /\ ~(sync.native.is.at = rec.gen /\ Ambiguous(sync.native))
        /\ IF want # jobs[sync.id].is THEN IntendUpdate(rec, want)
           ELSE file' = Settled(rec, sync.native.is) /\ sync' = Idle
        /\ UNCHANGED <<jobs, made, late, ran>>
    BY DEF Settle, Settleable, Unmoved, Takes, Save
  <1>2. decl \in Jobs /\ sync.rec \in Records /\ Paid(sync.rec) /\ sync.native \in Natives
        /\ sync.rec = file /\ sync.rec.id = sync.id /\ file # None
    BY <1>1, RecordAtHand DEF TypeInv, SyncType, Held, OneInv, Matched
  <1>3. /\ rec \in Records /\ rec.id = sync.id
        /\ file.gen <= rec.gen /\ rec.gen \in Nat /\ file.gen \in Nat
    BY <1>1, <1>2, RenewedPaid, RenewedGrown
  <1> HIDE DEF rec
  <1>4. /\ want \in Settings /\ want.at = rec.gen
        /\ want.on => ~KeepsCompletion(rec, jobs[sync.id])
    <2>1. jobs[sync.id] \in Natives /\ sync.man \in Jobs
      BY <1>1, <1>2, OwnedType
    <2>2. want \in Settings /\ want.at = rec.gen
      BY <1>3, <2>1, DesiredType
    <2> QED BY <2>2 DEF Desired
  <1>5. want.on /\ want.at = jobs[sync.id].is.at => jobs[sync.id].fired # "ok"
    BY <1>1, <1>4 DEF KeepsCompletion, Completed, Live
  <1> HIDE DEF want
  <1>6. jobs[sync.id].is.at <= want.at
    <2>1. jobs[sync.id].is.at \in Nat /\ jobs[sync.id].is.at <= file.gen
      BY <1>1, OwnedType, GensFacts DEF Natives, Settings, RunInv, Dated
    <2> QED BY <1>3, <1>4, <2>1
  <1>7. TypeInv'
    BY TypeSettle
  <1>8. CASE want # jobs[sync.id].is
    BY <1>1, <1>2, <1>3, <1>4, <1>5, <1>6, <1>7, <1>8, RunIntended
  <1>9. CASE want = jobs[sync.id].is
    <2>1. sync.native.is \in Settings
      BY <1>2 DEF Natives
    <2>2. file' # None /\ file'.id = sync.id /\ file'.gen = rec.gen
      BY <1>1, <1>3, <1>9, <2>1, SettledType
    <2>3. IdKept /\ Grown
      BY <1>2, <1>3, <2>2 DEF IdKept, Grown
    <2> QED BY <1>1, <1>7, <1>9, <2>2, <2>3, RunIdle DEF RunInv, Made
  <1> QED BY <1>8, <1>9

LEMMA RunDisable ==
  ASSUME TypeInv, OneInv, RunInv, Disable
  PROVE  RunInv'
  <1> DEFINE is == jobs[sync.id].is
             want == [is EXCEPT !.on = FALSE]
  <1>1. /\ sync.pc = "apply" /\ sync.native # None /\ sync.id \in Live /\ Unmoved
        /\ IF is.on THEN IntendUpdate(sync.rec, want)
           ELSE file' = Disabled(sync.rec, is) /\ sync' = Idle
        /\ UNCHANGED <<jobs, made, late, ran>>
    BY DEF Disable, Unmoved, Takes, Save
  <1>2. /\ sync.rec \in Records /\ sync.id \in Ids /\ sync.rec = file /\ file # None
        /\ sync.rec.id \in {sync.id, 0} /\ sync.id # 0 /\ sync.native \in Natives
    BY <1>1, RecordAtHand DEF TypeInv, Held, OneInv, Matched, Ids
  <1>3. is \in Settings /\ is.at \in Nat /\ is.at <= file.gen /\ file.gen \in Nat
    BY <1>1, <1>2, OwnedType, GensFacts DEF Natives, Settings, Records, RunInv, Dated
  <1>4. is.on => file.id = sync.id
    BY <1>1 DEF OneInv, OnlyNamed, Names
  <1>5. want \in Settings /\ want.at = is.at /\ ~want.on
    BY <1>3 DEF Settings
  <1>6. TypeInv'
    BY TypeDisable
  <1>7. CASE is.on
    <2> HIDE DEF want
    <2>1. IntendUpdate(sync.rec, want) /\ sync.rec.id = sync.id
      BY <1>1, <1>2, <1>4, <1>7
    <2>2. want.at <= sync.rec.gen /\ file.gen <= sync.rec.gen /\ is.at <= want.at
      BY <1>2, <1>3, <1>5
    <2> QED BY <1>1, <1>2, <1>5, <1>6, <2>1, <2>2, RunIntended
  <1> HIDE DEF is
  <1>8. CASE ~is.on
    <2>1. /\ file' # None /\ file'.id \in {file.id, sync.id} /\ file'.gen = file.gen
          /\ (~(file.removed /\ file.pend = None) => file'.id = sync.id)
      BY <1>1, <1>2, <1>3, <1>8, DisabledType
    <2>2. file'.id = sync.id
      BY <1>2, <2>1 DEF OneInv, Unnamed
    <2>3. IdKept /\ Grown
      BY <1>2, <1>3, <2>1, <2>2 DEF IdKept, Grown
    <2> QED BY <1>1, <1>6, <1>8, <2>2, <2>3, RunIdle DEF RunInv, Made
  <1> QED BY <1>7, <1>8

LEMMA RunUpdated ==
  ASSUME TypeInv, OneInv, RunInv, Updated
  PROVE  RunInv'
  <1>1. /\ sync.pc = "updating" /\ sync.id \in Live /\ UpdateJob(sync.id, sync.native, sync.want)
        /\ Takes(sync.id, sync.native)
        /\ sync' = [sync EXCEPT !.pc = "updated"] /\ UNCHANGED <<file, made, late, ran>>
    BY DEF Updated, Takes
  <1>2. Sent \in Updates /\ Sent.id = sync.id /\ Sent.before = sync.native /\ Sent.want = sync.want
    BY <1>1 DEF Updates, Sent
  <1>3. sync'.pc = "updated" /\ sync'.id = sync.id /\ sync'.want = sync.want
    BY <1>1 DEF TypeInv, SyncType
  <1>4. Updates' \subseteq Late /\ Late \subseteq Updates
    BY <1>1, <1>3 DEF Updates, Late
  <1>5. \A q \in Updates' : q \in Updates /\ ~(Again(Sent) /\ Again(q))
    BY <1>1, <1>4 DEF RunInv, Rearmed
  <1>6. Ran' /\ Forward' /\ Rearmed'
    BY <1>1, <1>2, <1>3, <1>5, RunPatched DEF RunInv
  <1>7. sync.native \in Natives /\ sync.want \in Settings
    BY <1>1 DEF TypeInv, SyncType
  <1>8. sync.want.at <= file.gen
    BY <1>1 DEF RunInv, Dated
  <1>9. Made' /\ Dated'
    BY <1>1, <1>3, <1>7, <1>8, PatchedDated DEF RunInv
  <1> QED BY <1>6, <1>9 DEF RunInv

LEMMA RunConfirm ==
  ASSUME TypeInv, OneInv, RunInv, Confirm
  PROVE  RunInv'
  <1> DEFINE rec == [sync.rec EXCEPT !.is = sync.want, !.pend = None]
  <1>1. /\ sync.pc = "updated"
        /\ sync' = [sync EXCEPT !.pc = "finish", !.rec = rec] /\ file' = rec
        /\ UNCHANGED <<jobs, made, late, ran>>
    BY DEF Confirm, Save
  <1>2. /\ sync.rec \in Records /\ sync.want \in Settings /\ sync.rec = file /\ file # None
    BY <1>1 DEF TypeInv, Held, SyncType
  <1>3. rec \in Records /\ rec.id = file.id /\ rec.gen = file.gen /\ file.gen \in Nat
    BY <1>2, GensFacts DEF Records
  <1> HIDE DEF rec
  <1>4. IdKept /\ Grown
    BY <1>1, <1>3, NoneAssumption DEF IdKept, Grown
  <1>5. sync'.pc = "finish" /\ sync'.id = sync.id /\ sync'.want = sync.want
    BY <1>1 DEF TypeInv, SyncType
  <1>6. TypeInv'
    BY TypeConfirm
  <1>7. sync.want.at <= file.gen
    BY <1>1 DEF RunInv, Dated
  <1> QED BY <1>1, <1>2, <1>3, <1>4, <1>5, <1>6, <1>7, RunSaved DEF RunInv, Made

LEMMA RunFinish ==
  ASSUME TypeInv, OneInv, RunInv, Finish
  PROVE  RunInv'
  <1>1. /\ sync.pc = "finish" /\ sync' = Idle
        /\ file' = IF sync.man # None THEN Settled(sync.rec, sync.want)
                   ELSE Disabled(sync.rec, sync.want)
        /\ UNCHANGED <<jobs, made, late, ran>>
    BY DEF Finish, Save
  <1>2. /\ sync.rec \in Records /\ sync.want \in Settings /\ sync.rec = file /\ file # None
        /\ sync.rec.id = sync.id /\ sync.id \in Ids /\ file.gen \in Nat
    BY <1>1, GensFacts DEF TypeInv, Held, SyncType, OneInv, Matched, Records
  <1>3. file' # None /\ file'.id = sync.id /\ file'.gen = file.gen
    BY <1>1, <1>2, SettledType, DisabledType
  <1>4. IdKept /\ Grown
    BY <1>2, <1>3 DEF IdKept, Grown
  <1>5. TypeInv'
    BY TypeFinish
  <1> QED BY <1>1, <1>3, <1>4, <1>5, RunIdle DEF RunInv, Made

LEMMA RunRetire ==
  ASSUME TypeInv, OneInv, RunInv, Retire
  PROVE  RunInv'
  <1>1. /\ sync.pc = "apply" /\ sync' = Idle /\ sync.man = None
        /\ file' = [sync.rec EXCEPT !.removed = TRUE, !.retired = TRUE]
        /\ UNCHANGED <<jobs, made, late, ran>>
    BY DEF Retire, Save
  <1>2. sync.rec \in Records /\ sync.rec = file /\ file # None
    BY <1>1, RecordAtHand, JobsAssumption
  <1>3. file' \in Records /\ file'.id = file.id /\ file'.gen = file.gen /\ file.gen \in Nat
    BY <1>1, <1>2, GensFacts DEF Records
  <1>4. IdKept /\ Grown
    BY <1>3, NoneAssumption DEF IdKept, Grown
  <1>5. TypeInv'
    BY TypeRetire
  <1> QED BY <1>1, <1>2, <1>3, <1>4, <1>5, RunIdle DEF RunInv, Made

LEMMA RunRefuse ==
  ASSUME TypeInv, OneInv, RunInv, Refuse
  PROVE  RunInv'
  <1>1. sync' = Idle /\ UNCHANGED <<file, jobs, made, late, ran>>
    BY DEF Refuse
  <1>2. IdKept /\ Grown
    BY <1>1, GensFacts, NoneAssumption DEF IdKept, Grown, TypeInv, Records
  <1>3. TypeInv'
    BY TypeRefuse
  <1> QED BY <1>1, <1>2, <1>3, RunIdle DEF RunInv, Made

LEMMA RunSync ==
  ASSUME TypeInv, OneInv, RunInv, Sync
  PROVE  RunInv'
  BY RunBegin, RunPlan, RunAdopt, RunIntendCreate, RunAdded, RunAcknowledge, RunSettle,
     RunUpdated, RunConfirm, RunFinish, RunDisable, RunRetire, RunRefuse DEF Sync

(* What is sent by a synchronization that fails is late instead of under way. *)
LEMMA RunFail ==
  ASSUME TypeInv, OneInv, RunInv, Fail
  PROVE  RunInv'
  <1>1. sync' = Idle /\ late' \subseteq late \cup Request /\ UNCHANGED <<file, jobs, made, ran>>
    BY DEF Fail
  <1>2. sync'.pc = "idle" /\ sync'.id = 0 /\ made \in Nat
    BY <1>1, BoundsAssumption DEF Idle, TypeInv, WorldType
  <1>3. \A r \in Request : /\ file # None /\ r.want.at <= file.gen
                           /\ r.kind = "update" => sync.pc = "updating" /\ r = Sent
    <2>1. CASE sync.pc = "adding"
      BY <2>1 DEF Request, RunInv, Dated, TypeInv, Held
    <2>2. CASE sync.pc = "updating"
      BY <2>2 DEF Request, RunInv, Dated, TypeInv, Held, Sent
    <2>3. CASE sync.pc \notin {"adding", "updating"}
      BY <2>3 DEF Request
    <2> QED BY <2>1, <2>2, <2>3
  <1>4. Made' /\ Dated'
    BY <1>1, <1>2, <1>3 DEF RunInv, Made, Dated, Live
  <1>5. /\ Late' \subseteq Updates /\ Updates' = Late'
        /\ \A r \in Late' : r \in Late \/ (sync.pc = "updating" /\ r = Sent)
    BY <1>1, <1>2, <1>3 DEF Late, Updates
  <1>6. Ran' /\ Forward'
    BY <1>1, <1>5 DEF RunInv, Ran, Forward
  <1>7. \A r : Again(r)' <=> Again(r)
    BY <1>1 DEF Again, Rearms
  <1>8. \A r \in Updates' : Again(r)' => jobs'[r.id].fired = "failed"
    BY <1>1, <1>5, <1>7 DEF RunInv, Rearmed
  <1>9. \A r, q \in Late' : Again(r)' /\ Again(q)' => r = q
    BY <1>5, <1>7 DEF RunInv, Rearmed
  <1>10. Rearmed'
    BY <1>2, <1>8, <1>9 DEF Rearmed
  <1> QED BY <1>4, <1>6, <1>10 DEF RunInv

LEMMA ShownKept ==
  ASSUME RunInv, UNCHANGED sync
  PROVE  /\ sync'.pc = "updating" => sync.pc = "updating" /\ Sent' = Sent
         /\ sync'.pc = "apply" => Shown(sync'.native)
  BY DEF RunInv, Rearmed, Sent

LEMMA RunTakesEffect ==
  ASSUME TypeInv, OneInv, RunInv, NEW r \in late, TakesEffect(r)
  PROVE  RunInv'
  <1>1. /\ r.want \in Settings /\ r.kind \in {"add", "update"}
        /\ r.kind = "update" => r.before \in Natives
    BY DEF TypeInv, WorldType, Requests
  <1>2. late' = late \ {r} /\ UNCHANGED <<file, sync, ran>>
    BY DEF TakesEffect
  <1>3. file # None /\ r.want.at <= file.gen
    BY DEF RunInv, Dated
  <1>4. /\ sync'.pc = "updating" => sync.pc = "updating" /\ Sent' = Sent
        /\ sync'.pc = "apply" => Shown(sync'.native)
    BY <1>2, ShownKept
  <1>5. sync'.pc \in {"adding", "added", "updating", "updated", "finish"} =>
          sync'.want.at <= file.gen
    BY <1>2 DEF RunInv, Dated
  <1>6. CASE r.kind = "add"
    <2>1. CreateJob(r.want)
      BY <1>6 DEF TakesEffect
    <2>2. sync'.id <= made'
      <3>1. made' = made + 1 /\ made \in Nat /\ sync.id \in Nat /\ sync.id <= made
        BY <2>1, BoundsAssumption DEF CreateJob, TypeInv, WorldType, SyncType, Ids, RunInv, Made
      <3> QED BY <1>2, <3>1
    <2> QED BY <1>1, <1>2, <1>3, <1>4, <1>5, <2>1, <2>2, RunCreated
  <1>7. CASE r.kind = "update" /\ Takes(r.id, r.before)
    <2>1. UpdateJob(r.id, r.before, r.want) /\ UNCHANGED made /\ r.id \in Live
      BY <1>7 DEF TakesEffect, Takes
    <2>2. r \in Late /\ r \in Updates
      BY <1>7 DEF Late, Updates
    <2>3. \A q \in Updates' : q \in Updates /\ ~(Again(r) /\ Again(q))
      <3> SUFFICES ASSUME NEW q \in Updates', Again(r), Again(q) PROVE q \in Updates /\ FALSE
        BY <1>2, <1>4 DEF Updates, Late
      <3>1. CASE q \in Late'
        BY <1>2, <2>2, <3>1 DEF Late, RunInv, Rearmed
      <3>2. CASE sync'.pc = "updating" /\ q = Sent'
        BY <1>4, <2>2, <3>2 DEF RunInv, Rearmed
      <3> QED BY <3>1, <3>2 DEF Updates
    <2>4. Ran' /\ Forward' /\ Rearmed'
      BY <1>2, <1>4, <1>7, <2>1, <2>2, <2>3, RunPatched DEF RunInv
    <2>5. Made' /\ Dated'
      BY <1>1, <1>2, <1>3, <1>5, <1>7, <2>1, PatchedDated DEF RunInv
    <2> QED BY <2>4, <2>5 DEF RunInv
  <1>8. CASE r.kind = "update" /\ ~Takes(r.id, r.before)
    <2>1. UNCHANGED <<jobs, made>>
      BY <1>8 DEF TakesEffect
    <2>2. IdKept /\ \A j \in Ids : Alike(j)
      BY <1>2, <2>1 DEF IdKept, Alike
    <2>3. Ran' /\ Forward' /\ Rearmed'
      BY <1>2, <1>4, <2>2, RunKept DEF RunInv
    <2>4. Made' /\ Dated'
      BY <1>2, <2>1 DEF RunInv, Made, Dated, Live
    <2> QED BY <2>3, <2>4 DEF RunInv
  <1> QED BY <1>1, <1>6, <1>7, <1>8

LEMMA RunFire ==
  ASSUME TypeInv, OneInv, RunInv, NEW j \in Ids, Fire(j)
  PROVE  RunInv'
  <1>1. PICK how \in {"ok", "failed"}, on \in BOOLEAN :
          /\ jobs' = [jobs EXCEPT ![j].fired = how, ![j].is.on = on]
          /\ ran' = IF how = "ok" /\ ran[jobs[j].is.at] < 2 THEN [ran EXCEPT ![jobs[j].is.at] = @ + 1]
                    ELSE ran
    BY DEF Fire
  <1>2. /\ j \in Live /\ jobs[j].is.on /\ jobs[j].fired = "no"
        /\ UNCHANGED <<file, sync, late, made>>
    BY DEF Fire
  <1>3. /\ Names(j) /\ jobs[j] # None /\ jobs[j] \in Natives /\ jobs[j].is.at \in Gens
        /\ jobs \in [Ids -> Natives \cup {None}] /\ ran \in [Gens -> 0..2]
    BY <1>2, OwnedType DEF OneInv, OnlyNamed, Live, TypeInv, WorldType, Natives, Settings
  <1>4. /\ jobs'[j] # None /\ jobs'[j].is.at = jobs[j].is.at /\ jobs'[j].fired = how
        /\ \A i \in Ids : i # j => jobs'[i] = jobs[i]
    <2> DEFINE n == [jobs[j] EXCEPT !.fired = how, !.is.on = on]
    <2>1. jobs' = [jobs EXCEPT ![j] = n]
      BY <1>1, <1>3
    <2>2. n \in Natives /\ n.is.at = jobs[j].is.at /\ n.fired = how
      BY <1>3 DEF Natives, Settings
    <2> HIDE DEF n
    <2> QED BY <1>3, <2>1, <2>2, NoneAssumption
  <1>5. ran[jobs[j].is.at] = 0
    BY <1>2, <1>3 DEF RunInv, Ran, Names
  <1>6. \A r \in Updates : r.id = j /\ ~Again(r)
    <2> SUFFICES ASSUME NEW r \in Updates PROVE r.id = j /\ ~Again(r)
      OBVIOUS
    <2>1. r.id = j
      BY <1>3, UpdatesNamed DEF Names
    <2> QED BY <1>2, <2>1 DEF RunInv, Rearmed
  <1>7. Updates' = Updates /\ Late \subseteq Updates /\ Late' = Late
        /\ (sync.pc = "updating" => Sent' = Sent /\ Sent \in Updates)
    BY <1>2 DEF Updates, Late, Sent
  <1>8. \A r \in Updates : ~Again(r)'
    BY <1>3, <1>4, <1>6 DEF Again, Rearms
  <1>9. Rearmed'
    <2>1. \A r \in Updates' : Again(r)' => jobs'[r.id].fired = "failed"
      BY <1>7, <1>8
    <2>2. \A r, q \in Late' : Again(r)' /\ Again(q)' => r = q
      BY <1>7, <1>8
    <2>3. sync'.pc = "updating" /\ Again(Sent)' => \A r \in Late' : ~Again(r)'
      BY <1>7, <1>8
    <2>4. Shown(sync.native)'
      BY <1>7, <1>8 DEF Shown
    <2> QED BY <2>1, <2>2, <2>3, <2>4 DEF Rearmed
  <1>10. Forward'
    BY <1>3, <1>4, <1>6, <1>7 DEF RunInv, Forward
  <1>11. Ran'
    <2> SUFFICES ASSUME NEW g \in Gens, ran'[g] # 0
                 PROVE  /\ ran'[g] = 1
                        /\ g <= jobs[j].is.at /\ (g = jobs[j].is.at => how = "ok")
      BY <1>2, <1>3, <1>4 DEF Ran, Names
    <2>1. CASE g = jobs[j].is.at
      <3>1. how = "ok" /\ ran' = [ran EXCEPT ![jobs[j].is.at] = @ + 1]
        BY <1>1, <1>5, <2>1
      <3>2. ran'[g] = 1
        BY <1>3, <1>5, <2>1, <3>1
      <3>3. g <= g
        BY GensFacts
      <3> QED BY <2>1, <3>1, <3>2, <3>3
    <2>2. CASE g # jobs[j].is.at
      <3>1. ran'[g] = ran[g]
        BY <1>1, <1>3, <2>2
      <3> QED BY <1>3, <2>2, <3>1 DEF RunInv, Ran, Names
    <2> QED BY <2>1, <2>2
  <1>12. Live' = Live
    BY <1>3, <1>4 DEF Live
  <1>13. \A i \in Live : jobs'[i].is.at = jobs[i].is.at
    BY <1>4 DEF Live
  <1>14. Made' /\ Dated'
    BY <1>2, <1>12, <1>13 DEF RunInv, Made, Dated
  <1> QED BY <1>9, <1>10, <1>11, <1>14 DEF RunInv

LEMMA RunTamper ==
  ASSUME TypeInv, OneInv, RunInv, NEW j \in Ids, Tamper(j)
  PROVE  RunInv'
  <1>1. UNCHANGED <<file, sync, late, made, ran>>
    BY DEF Tamper
  <1>2. /\ j \in Live /\ jobs[j] \in Natives /\ jobs[j] # None
        /\ jobs \in [Ids -> Natives \cup {None}]
    BY TamperedJob DEF TypeInv, WorldType, Live
  <1>3. \A i \in Ids : i # j => jobs'[i] = jobs[i]
    BY <1>2, TamperedJob
  <1>4. Alike(j)
    <2>1. CASE jobs' = [jobs EXCEPT ![j] = None]
      BY <1>2, <2>1 DEF Alike
    <2>2. ASSUME NEW is \in Settings, is.at = jobs[j].is.at,
                 jobs' = [jobs EXCEPT ![j] = [jobs[j] EXCEPT !.is = is]]
          PROVE  Alike(j)
      BY <1>2, <2>2 DEF Alike, Natives
    <2>3. /\ \A d \in Jobs : LET is == [jobs[j].is EXCEPT !.job = d]
                             IN  is \in Settings /\ is.at = jobs[j].is.at
          /\ \A on \in BOOLEAN : LET is == [jobs[j].is EXCEPT !.on = on]
                                 IN  is \in Settings /\ is.at = jobs[j].is.at
      BY <1>2 DEF Natives, Settings
    <2> QED BY <2>1, <2>2, <2>3, TamperedJob
  <1>5. \A i \in Ids : Alike(i)
    BY <1>3, <1>4 DEF Alike
  <1>6. IdKept
    BY <1>1 DEF IdKept
  <1>7. Ran' /\ Forward' /\ Rearmed'
    BY <1>1, <1>5, <1>6, ShownKept, RunKept DEF RunInv
  <1>8. Live' \subseteq Live /\ \A i \in Live' : jobs'[i].is.at = jobs[i].is.at
    BY <1>5 DEF Live, Alike
  <1>9. Made' /\ Dated'
    BY <1>1, <1>8 DEF RunInv, Made, Dated
  <1> QED BY <1>7, <1>9 DEF RunInv

LEMMA RunQuiet ==
  ASSUME RunInv, UNCHANGED <<file, jobs, made, late, sync, ran>>
  PROVE  RunInv'
  BY DEF RunInv, Made, Dated, Live, Ran, Forward, Rearmed, Updates, Late, Sent, Again, Rearms, Shown

LEMMA RunStep ==
  ASSUME TypeInv, OneInv, RunInv, [Next]_vars
  PROVE  RunInv'
  <1>1. CASE UNCHANGED vars
    BY <1>1, RunQuiet DEF vars
  <1>2. CASE Execution
    BY <1>2, RunQuiet DEF Execution, StartRun, GetJob, LookAgain, Admit, EndRun, LookUp
  <1>3. CASE Declare
    BY <1>3, RunQuiet DEF Declare
  <1> QED BY <1>1, <1>2, <1>3, RunSync, RunFail, RunTakesEffect, RunFire, RunTamper
          DEF Next, Scheduler, People

LEMMA RunImplies ==
  ASSUME TypeInv, RunInv
  PROVE  RunsOncePerTrigger
  <1>1. \A g \in Gens : ran[g] \in {0, 1}
    BY DEF RunInv, Ran, TypeInv, WorldType
  <1> QED BY <1>1 DEF RunsOncePerTrigger

(* A one-shot completes once for each trigger it was given, for any number of   *)
(* edits, failures, and people's changes below a synchronization.             *)
THEOREM OneRun == Spec => []RunsOncePerTrigger
  <1>1. Init => TypeInv /\ OneInv /\ RunInv
    BY TypeInit, OneInit, RunInit
  <1>2. TypeInv /\ OneInv /\ RunInv /\ [Next]_vars => (TypeInv /\ OneInv /\ RunInv)'
    BY TypeStep, OneStep, RunStep
  <1>3. TypeInv /\ OneInv /\ RunInv => RunsOncePerTrigger
    BY RunImplies
  <1> QED BY <1>1, <1>2, <1>3, PTL DEF Spec

-------------------------------------------------------------------------------
(* What an execution relies on.  As long as nothing but the output limit of a  *)
(* record that is on is being changed, and nobody interferes, the named job is *)
(* there at a revision that the record knows; firing does not change it.      *)
Captured ==
  file # None /\ file.pend # None /\ file.pend.capture =>
    file.is # None /\ \A f \in {"job", "at", "on"} : file.pend.is[f] = file.is[f]

Meant ==
  /\ file # None /\ file.pend # None /\ file.pend.is.on => file.pend.is.job = file.hash
  /\ sync.pc \in {"updating", "updated"} => file.pend # None /\ file.pend.is = sync.want
  /\ sync.pc = "finish" => file.pend = None /\ file.is = sync.want

Watched == /\ file # None /\ file.id # 0 /\ file.is # None /\ file.is.on
           /\ file.pend # None => file.pend.capture

Kept ==
  Watched =>
    /\ file.is.job = file.hash
    /\ ~tampered => jobs[file.id] # None /\ Revision(jobs[file.id]) \in Recorded(file)

Listed ==
  sync.pc = "apply" /\ sync.native # None /\ Adoptable /\ sync.native.is.on /\ ~tampered =>
    jobs[sync.id] # None /\ Revision(jobs[sync.id]) = sync.native.is

Found == exec.fit = "fits" => \E s \in Recorded(exec.rec) : s # None /\ s.on

AdmitInv == Captured /\ Meant /\ Kept /\ Listed /\ Found

LEMMA SameSettings ==
  ASSUME NEW a \in Settings, NEW b \in Settings,
         \A f \in {"job", "at", "on", "cap"} : a[f] = b[f]
  PROVE  a = b
  BY DEF Settings

LEMMA Revisions ==
  ASSUME NEW n \in Natives
  PROVE  /\ Revision(n) \in Settings /\ n.is \in Settings
         /\ Revision(n).job = n.is.job /\ Revision(n).at = n.is.at /\ Revision(n).cap = n.is.cap
         /\ Revision(n).on = (n.is.on \/ n.fired # "no")
         /\ n.is.on \/ n.fired = "no" => Revision(n) = n.is
  <1>1. n.is \in Settings
    BY DEF Natives
  <1>2. /\ Revision(n) \in Settings
        /\ Revision(n).job = n.is.job /\ Revision(n).at = n.is.at /\ Revision(n).cap = n.is.cap
        /\ Revision(n).on = (n.is.on \/ n.fired # "no")
    BY <1>1 DEF Revision, Settings
  <1>3. ASSUME n.is.on \/ n.fired = "no" PROVE Revision(n) = n.is
    <2>1. Revision(n).on = n.is.on
      BY <1>1, <1>2, <1>3 DEF Settings
    <2> QED BY <1>1, <1>2, <2>1, SameSettings
  <1> QED BY <1>1, <1>2, <1>3

(* An accepted update of the same generation that leaves the job on leads to   *)
(* what it intends, fired or not.                                            *)
LEMMA PatchedRevision ==
  ASSUME NEW n \in Natives, NEW before \in Natives, NEW want \in Settings,
         Revision(n) = Revision(before), want.on, want.at = n.is.at
  PROVE  Revision(Patched(n, before, want)) = want
  <1> DEFINE p == Patched(n, before, want)
  <1>1. p \in Natives
    BY PatchedType
  <1>2. \A f \in {"job", "at", "on", "cap"} :
          p.is[f] = IF before.is[f] = want[f] THEN n.is[f] ELSE want[f]
    BY PatchedFields
  <1>3. p.fired = IF p.is.at # n.is.at \/ (p.is.on /\ ~n.is.on) THEN "no" ELSE n.fired
    BY DEF Patched
  <1> HIDE DEF p
  <1>4. /\ n.is.job = before.is.job /\ n.is.at = before.is.at /\ n.is.cap = before.is.cap
        /\ (n.is.on \/ n.fired # "no") = (before.is.on \/ before.fired # "no")
    <2>1. /\ Revision(n).job = n.is.job /\ Revision(n).at = n.is.at /\ Revision(n).cap = n.is.cap
          /\ Revision(n).on = (n.is.on \/ n.fired # "no")
      BY Revisions
    <2>2. /\ Revision(before).job = before.is.job /\ Revision(before).at = before.is.at
          /\ Revision(before).cap = before.is.cap
          /\ Revision(before).on = (before.is.on \/ before.fired # "no")
      BY Revisions
    <2> QED BY <2>1, <2>2
  <1>5. p.is.job = want.job /\ p.is.at = want.at /\ p.is.cap = want.cap
    BY <1>2, <1>4
  <1>6. n.is.on \in BOOLEAN /\ before.is.on \in BOOLEAN /\ p.is.on \in BOOLEAN /\ want.on = TRUE
    BY <1>1 DEF Natives, Settings
  <1>7. p.is.on \/ p.fired # "no"
    <2>1. CASE before.is.on
      BY <1>2, <1>3, <1>4, <1>5, <1>6, <2>1
    <2>2. CASE ~before.is.on
      BY <1>2, <1>6, <2>2
    <2> QED BY <2>1, <2>2
  <1>8. /\ Revision(p) \in Settings
        /\ \A f \in {"job", "at", "on", "cap"} : Revision(p)[f] = want[f]
    BY <1>1, <1>5, <1>6, <1>7, Revisions
  <1>9. Revision(p) = want
    BY <1>8, SameSettings
  <1> QED BY <1>9 DEF p

LEMMA AdmitInit == Init => AdmitInv
  <1> SUFFICES ASSUME Init PROVE AdmitInv
    OBVIOUS
  <1>1. sync = Idle /\ exec = Asleep /\ decl \in Jobs
    BY DEF Init
  <1>2. Listed /\ Found
    BY <1>1 DEF Listed, Found, Idle, Asleep
  <1>3. CASE file = None
    BY <1>1, <1>2, <1>3 DEF AdmitInv, Captured, Meant, Kept, Watched, Idle
  <1>4. CASE Installed(decl)
    <2> DEFINE is == [job |-> decl, at |-> 1, on |-> decl.enabled, cap |-> "old"]
    <2>1. /\ jobs = [j \in Ids |-> IF j = 1 THEN [is |-> is, fired |-> "no"] ELSE None]
          /\ file = [NewRecord(decl) EXCEPT !.id = 1, !.is = is] /\ 1 \in Ids
      BY <1>4, BoundsAssumption DEF Installed, Ids
    <2>2. is \in Settings /\ is.job = decl /\ is # None
      BY <1>1, GensFacts, JobsAssumption, NoneAssumption DEF Settings
    <2> HIDE DEF is
    <2>3. file \in Records /\ file.id = 1 /\ file.is = is /\ file.hash = decl /\ file.pend = None
      BY <1>1, <2>1, <2>2, NewRecordType DEF NewRecord, Records
    <2>4. jobs[1] = [is |-> is, fired |-> "no"] /\ jobs[1] \in Natives /\ jobs[1] # None
      BY <2>1, <2>2, NoneAssumption DEF Natives
    <2>5. Revision(jobs[1]) = is
      BY <2>4, Revisions
    <2>6. Kept
      BY <2>2, <2>3, <2>4, <2>5 DEF Kept, Recorded
    <2>7. Captured /\ Meant
      BY <1>1, <2>3 DEF Captured, Meant, Idle
    <2> QED BY <1>2, <2>6, <2>7 DEF AdmitInv
  <1> QED BY <1>3, <1>4 DEF Init

(* The revision of a job stays, or becomes the pending one.                  *)
Holds(j) ==
  jobs[j] # None =>
    /\ jobs'[j] # None
    /\ \/ Revision(jobs'[j]) = Revision(jobs[j])
       \/ /\ file.pend # None
          /\ file.pend.is.on /\ file.pend.is.at = jobs[j].is.at =>
               Revision(jobs'[j]) = file.pend.is

LEMMA HoldsPatched ==
  ASSUME TypeInv, NEW j \in Ids, NEW before \in Natives, file # None, file.pend # None,
         file.pend.is \in Settings, Takes(j, before), UpdateJob(j, before, file.pend.is)
  PROVE  Holds(j)
  <1>1. /\ j \in Live /\ jobs[j] \in Natives
        /\ jobs' = [jobs EXCEPT ![j] = Patched(jobs[j], before, file.pend.is)]
        /\ Patched(jobs[j], before, file.pend.is) \in Natives
        /\ jobs \in [Ids -> Natives \cup {None}]
    BY UpdatedJob DEF Takes, TypeInv, WorldType
  <1>2. Revision(jobs[j]) = Revision(before)
    BY DEF Takes
  <1>3. jobs'[j] = Patched(jobs[j], before, file.pend.is) /\ jobs'[j] # None
    BY <1>1, NoneAssumption
  <1> QED BY <1>1, <1>2, <1>3, PatchedRevision DEF Holds

LEMMA FileShape ==
  ASSUME TypeInv, file # None
  PROVE  /\ file \in Records /\ file.id \in Ids \cup {0}
         /\ file.is # None => file.is \in Settings
         /\ file.pend # None => file.pend \in Pendings /\ file.pend.is \in Settings
  BY DEF TypeInv, Records, Pendings

LEMMA KeptHolds ==
  ASSUME TypeInv, OneInv, Captured, Kept, UNCHANGED file, tampered => tampered',
         ~tampered' => \A j \in Ids : Names(j) => Holds(j)
  PROVE  Kept' /\ Captured'
  <1>1. Captured'
    BY DEF Captured
  <1>2. Kept'
    <2> SUFFICES ASSUME Watched, ~tampered'
                 PROVE  jobs'[file.id] # None /\ Revision(jobs'[file.id]) \in Recorded(file)
      BY DEF Kept, Watched, Recorded
    <2>1. file.id \in Ids /\ Names(file.id) /\ file # None /\ file.is \in Settings
      BY FileShape DEF Watched, Names
    <2>2. jobs[file.id] # None /\ Revision(jobs[file.id]) \in Recorded(file) /\ Holds(file.id)
      BY <2>1 DEF Kept
    <2>3. CASE Revision(jobs'[file.id]) = Revision(jobs[file.id])
      BY <2>2, <2>3 DEF Holds
    <2>4. CASE Revision(jobs'[file.id]) # Revision(jobs[file.id])
      <3>1. /\ file.pend # None
            /\ file.pend.is.on /\ file.pend.is.at = jobs[file.id].is.at =>
                 Revision(jobs'[file.id]) = file.pend.is
        BY <2>2, <2>4 DEF Holds
      <3>2. file.pend.is.on /\ file.pend.is.at = file.is.at
        BY <2>1, <3>1 DEF Captured, Watched, Settings
      <3>3. jobs[file.id] \in Natives
        BY <2>1, <2>2 DEF TypeInv, WorldType
      <3>4. Revision(jobs[file.id]).at = jobs[file.id].is.at
        BY <3>3, Revisions
      <3>5. jobs[file.id].is.at = file.is.at
        BY <2>2, <3>1, <3>2, <3>4 DEF Recorded
      <3> QED BY <2>2, <3>1, <3>2, <3>5 DEF Holds, Recorded
    <2> QED BY <2>3, <2>4
  <1> QED BY <1>1, <1>2

(* A job that is listed on, and is what is pending, is listed as it is.       *)
LEMMA AdoptableOn ==
  ASSUME TypeInv, sync.pc = "apply", sync.native # None, Adoptable, sync.native.is.on
  PROVE  sync.rec = file /\ file # None /\ file.pend # None /\ sync.native.is = file.pend.is
  BY DEF TypeInv, Held, Adoptable, PendingHash

LEMMA ListedHolds ==
  ASSUME TypeInv, OneInv, Listed, UNCHANGED <<file, sync>>, tampered => tampered',
         ~tampered' => \A j \in Ids : Names(j) \/ j = sync.id => Holds(j)
  PROVE  Listed'
  <1> SUFFICES ASSUME sync.pc = "apply", sync.native # None, Adoptable, sync.native.is.on, ~tampered'
               PROVE  jobs'[sync.id] # None /\ Revision(jobs'[sync.id]) = sync.native.is
    BY DEF Listed, Adoptable, PendingHash, Completed
  <1>1. file # None /\ file.pend # None /\ sync.native.is = file.pend.is
    BY AdoptableOn
  <1>2. jobs[sync.id] # None /\ Revision(jobs[sync.id]) = sync.native.is
    BY DEF Listed
  <1>3. sync.id \in Ids /\ sync.native \in Natives
    BY RecordAtHand
  <1>4. Holds(sync.id) /\ jobs[sync.id] \in Natives
    BY <1>2, <1>3 DEF TypeInv, WorldType
  <1>5. jobs[sync.id].is.at = file.pend.is.at
    <2>1. Revision(jobs[sync.id]).at = jobs[sync.id].is.at
      BY <1>4, Revisions
    <2> QED BY <1>1, <1>2, <2>1
  <1> QED BY <1>1, <1>2, <1>4, <1>5 DEF Holds

(* The ledger is not written and no job changes.                             *)
LEMMA AdmitUnsaved ==
  ASSUME TypeInv, OneInv, AdmitInv, UNCHANGED <<file, jobs, tampered, exec>>,
         sync'.pc \notin {"updating", "updated", "finish"}, Listed'
  PROVE  AdmitInv'
  <1>1. \A j \in Ids : Holds(j)
    BY DEF Holds
  <1>2. Kept' /\ Captured'
    BY <1>1, KeptHolds DEF AdmitInv
  <1>3. Meant'
    BY DEF AdmitInv, Meant
  <1>4. Found'
    BY DEF AdmitInv, Found, Recorded
  <1> QED BY <1>2, <1>3, <1>4 DEF AdmitInv

LEMMA CreatedHolds ==
  ASSUME TypeInv, NEW is \in Settings, CreateJob(is)
  PROVE  \A j \in Ids : j <= made => Holds(j)
  <1>1. /\ jobs' = [jobs EXCEPT ![made'] = [is |-> is, fired |-> "no"]]
        /\ jobs \in [Ids -> Natives \cup {None}]
    BY CreatedJob DEF TypeInv, WorldType
  <1>2. made' = made + 1 /\ made \in Nat
    BY BoundsAssumption DEF CreateJob, TypeInv, WorldType
  <1>3. \A j \in Ids : j <= made => j # made'
    BY <1>2 DEF Ids
  <1> QED BY <1>1, <1>3 DEF Holds

-------------------------------------------------------------------------------
(* The ledger is written while no job changes.                               *)
LEMMA AdmitSaved ==
  ASSUME AdmitInv, UNCHANGED exec, Captured', Meant', Kept', sync'.pc # "apply"
  PROVE  AdmitInv'
  <1>1. Found'
    BY DEF AdmitInv, Found, Recorded
  <1> QED BY <1>1 DEF AdmitInv, Listed

LEMMA AdmitBegin ==
  ASSUME TypeInv, OneInv, AdmitInv, Begin
  PROVE  AdmitInv'
  <1>1. sync'.pc = "plan" /\ UNCHANGED <<file, jobs, tampered, exec>>
    BY DEF Begin, Idle
  <1> QED BY <1>1, AdmitUnsaved DEF Listed

LEMMA AdmitPlan ==
  ASSUME TypeInv, OneInv, AdmitInv, Plan
  PROVE  AdmitInv'
  <1>1. /\ sync' = [sync EXCEPT !.pc = "apply", !.id = OwnedId, !.native = OwnedJob,
                          !.rec = IF sync.rec = None THEN NewRecord(sync.man) ELSE sync.rec]
        /\ UNCHANGED <<file, jobs, tampered, exec>>
    BY DEF Plan
  <1>2. sync'.pc = "apply" /\ sync'.id = OwnedId /\ sync'.native = OwnedJob
    BY <1>1 DEF TypeInv, SyncType
  <1>3. OwnedJob # None => jobs[OwnedId] = OwnedJob /\ OwnedJob \in Natives
    BY OwnedType
  <1>4. OwnedJob # None /\ OwnedJob.is.on => Revision(OwnedJob) = OwnedJob.is
    BY <1>3, Revisions
  <1>5. Listed'
    BY <1>1, <1>2, <1>3, <1>4 DEF Listed, Revision
  <1> QED BY <1>1, <1>2, <1>5, AdmitUnsaved

LEMMA AdmitAdopt ==
  ASSUME TypeInv, OneInv, AdmitInv, Adopt
  PROVE  AdmitInv'
  <1> DEFINE rec == [sync.rec EXCEPT !.id = sync.id, !.is = sync.native.is, !.pend = None]
  <1>1. /\ sync.pc = "apply" /\ sync.native # None /\ Adoptable
        /\ sync' = [sync EXCEPT !.rec = rec] /\ file' = rec
        /\ UNCHANGED <<jobs, tampered, exec>>
    BY DEF Adopt, Adoptable, Save
  <1>2. /\ sync.rec \in Records /\ sync.id \in Ids /\ sync.rec = file /\ file # None
        /\ sync.native.is \in Settings
    BY <1>1, RecordAtHand DEF TypeInv, Held, Natives
  <1>3. /\ rec \in Records /\ rec.id = sync.id /\ rec.is = sync.native.is /\ rec.pend = None
        /\ rec.hash = file.hash
    BY <1>2 DEF Records
  <1> HIDE DEF rec
  <1>4. sync'.pc = "apply" /\ sync'.rec = rec
    BY <1>1 DEF TypeInv, SyncType
  <1>5. Captured' /\ Meant' /\ Listed'
    BY <1>1, <1>3, <1>4 DEF Captured, Meant, Listed, Adoptable
  <1>6. Kept'
    <2> SUFFICES ASSUME sync.native.is.on
                 PROVE  /\ sync.native.is.job = file.hash
                        /\ ~tampered => /\ jobs[sync.id] # None
                                        /\ Revision(jobs[sync.id]) = sync.native.is
      BY <1>1, <1>3 DEF Kept, Watched, Recorded, Revision
    <2>1. file.pend # None /\ sync.native.is = file.pend.is
      BY <1>1, AdoptableOn
    <2> QED BY <1>1, <1>2, <2>1 DEF AdmitInv, Meant, Listed
  <1>7. Found'
    BY <1>1 DEF AdmitInv, Found, Recorded
  <1> QED BY <1>5, <1>6, <1>7 DEF AdmitInv

LEMMA AdmitIntendCreate ==
  ASSUME TypeInv, OneInv, AdmitInv, IntendCreate
  PROVE  AdmitInv'
  <1> DEFINE rec == Renewed(sync.rec, sync.man)
             is == FirstSettings(sync.man, rec)
             intent == [rec EXCEPT !.pend = [kind |-> "create", is |-> is, capture |-> FALSE]]
  <1>1. /\ sync.pc = "apply" /\ sync.man # None /\ decl = sync.man
        /\ sync' = [sync EXCEPT !.pc = "adding", !.rec = intent, !.want = is] /\ file' = intent
        /\ UNCHANGED <<jobs, tampered, exec>>
    BY DEF IntendCreate, Creatable, Save
  <1>2. decl \in Jobs /\ sync.rec \in Records /\ Paid(sync.rec)
    BY <1>1, RecordAtHand DEF TypeInv, SyncType
  <1>3. rec \in Records
    BY <1>1, <1>2, RenewedPaid
  <1> HIDE DEF rec
  <1>4. is \in Settings /\ is.on = FALSE
    BY <1>1, <1>2, <1>3, FirstSettingsType
  <1> HIDE DEF is
  <1>5. /\ intent.pend = [kind |-> "create", is |-> is, capture |-> FALSE] /\ intent.pend # None
    BY <1>3, <1>4, IntentType
  <1>6. intent.pend.capture = FALSE /\ intent.pend.is = is
    BY <1>5
  <1> HIDE DEF intent
  <1>7. sync'.pc = "adding"
    BY <1>1 DEF TypeInv, SyncType
  <1>8. Captured' /\ Meant' /\ Kept'
    BY <1>1, <1>4, <1>5, <1>6, <1>7 DEF Captured, Meant, Kept, Watched
  <1> QED BY <1>1, <1>7, <1>8, AdmitSaved

LEMMA AdmitAdded ==
  ASSUME TypeInv, OneInv, RunInv, AdmitInv, Added
  PROVE  AdmitInv'
  <1>1. /\ sync.pc = "adding" /\ sync.want \in Settings /\ CreateJob(sync.want)
        /\ sync' = [sync EXCEPT !.pc = "added", !.id = made']
        /\ UNCHANGED <<file, tampered, exec>>
    BY DEF TypeInv, SyncType, Added
  <1>2. sync'.pc = "added"
    BY <1>1 DEF TypeInv, SyncType
  <1>3. \A j \in Ids : j <= made => Holds(j)
    BY <1>1, CreatedHolds
  <1>4. \A j \in Ids : Names(j) => Holds(j)
    BY <1>3 DEF Names, RunInv, Made
  <1>5. Kept' /\ Captured'
    BY <1>1, <1>4, KeptHolds DEF AdmitInv
  <1>6. Meant'
    BY <1>1, <1>2 DEF AdmitInv, Meant
  <1> QED BY <1>1, <1>2, <1>5, <1>6, AdmitSaved

LEMMA AdmitAcknowledge ==
  ASSUME TypeInv, OneInv, AdmitInv, Acknowledge
  PROVE  AdmitInv'
  <1> DEFINE rec == [sync.rec EXCEPT !.id = sync.id, !.is = sync.want, !.pend = None]
  <1>1. /\ sync.pc = "added" /\ sync.id \in Live
        /\ sync' = [sync EXCEPT !.pc = "apply", !.rec = rec, !.native = jobs[sync.id]]
        /\ file' = rec /\ UNCHANGED <<jobs, tampered, exec>>
    BY DEF Acknowledge, Save, ReadBack
  <1>2. /\ sync.rec \in Records /\ sync.want \in Settings /\ sync.id \in Ids /\ ~sync.want.on
    BY <1>1, OwnedType DEF TypeInv, Held, SyncType, OneInv, Matched
  <1>3. rec \in Records /\ rec.is = sync.want /\ rec.pend = None
    BY <1>2 DEF Records
  <1> HIDE DEF rec
  <1>4. sync'.pc = "apply" /\ sync'.rec = rec
    BY <1>1 DEF TypeInv, SyncType
  <1>5. Captured' /\ Meant' /\ Kept' /\ Listed'
    BY <1>1, <1>2, <1>3, <1>4 DEF Captured, Meant, Kept, Watched, Listed, Adoptable
  <1>6. Found'
    BY <1>1 DEF AdmitInv, Found, Recorded
  <1> QED BY <1>5, <1>6 DEF AdmitInv

(* An update is intended; it is of the output limit only if the job is as      *)
(* recorded.                                                                 *)
LEMMA AdmitIntended ==
  ASSUME TypeInv, OneInv, AdmitInv, NEW rec \in Records, NEW want \in Settings, sync.id \in Live,
         IntendUpdate(rec, want), UNCHANGED <<jobs, tampered, exec>>, rec.id = sync.id,
         want.on => want.job = rec.hash
  PROVE  AdmitInv'
  <1> DEFINE before == jobs[sync.id]
             capture == CaptureOnly(rec, before, want)
             intent == [rec EXCEPT !.pend = [kind |-> "update", is |-> want, capture |-> capture]]
  <1>1. /\ sync' = [sync EXCEPT !.pc = "updating", !.rec = intent, !.native = before, !.want = want]
        /\ file' = intent
    BY DEF IntendUpdate, Save
  <1>2. /\ capture \in BOOLEAN /\ before \in Natives /\ before # None /\ sync.id \in Ids
        /\ before.is \in Settings
    BY OwnedType, NoneAssumption DEF CaptureOnly, Natives
  <1>3. capture => before.is = rec.is /\ \A f \in {"job", "at", "on"} : want[f] = before.is[f]
    <2> SUFFICES ASSUME capture
                 PROVE  before.is = rec.is /\ \A f \in {"job", "at", "on"} : want[f] = before.is[f]
      OBVIOUS
    <2>1. before.is = rec.is /\ want = [before.is EXCEPT !.cap = want.cap]
      BY DEF CaptureOnly
    <2> QED BY <1>2, <2>1 DEF Settings
  <1>4. jobs[sync.id] = before
    OBVIOUS
  <1> HIDE DEF before, capture
  <1>5. /\ intent \in Records /\ intent.id = sync.id /\ intent.is = rec.is /\ intent.hash = rec.hash
        /\ intent.pend = [kind |-> "update", is |-> want, capture |-> capture] /\ intent.pend # None
    BY <1>2, IntentType
  <1>6. intent.pend.is = want /\ intent.pend.capture = capture
    BY <1>5
  <1> HIDE DEF intent
  <1>7. sync'.pc = "updating" /\ sync'.want = want
    BY <1>1 DEF TypeInv, SyncType
  <1>8. Captured'
    BY <1>1, <1>2, <1>3, <1>5, <1>6, NoneAssumption DEF Captured
  <1>9. Meant'
    BY <1>1, <1>5, <1>6, <1>7 DEF Meant
  <1>10. Kept'
    <2> SUFFICES ASSUME rec.is # None, rec.is.on, capture
                 PROVE  rec.is.job = rec.hash /\ Revision(before) = rec.is
      BY <1>1, <1>2, <1>4, <1>5, <1>6 DEF Kept, Watched, Recorded, Revision
    <2>1. before.is = rec.is /\ want.on /\ want.job = rec.is.job
      BY <1>3
    <2>2. Revision(before) = before.is
      BY <1>2, <2>1, Revisions
    <2> QED BY <2>1, <2>2
  <1> QED BY <1>7, <1>8, <1>9, <1>10, AdmitSaved

LEMMA AdmitSettle ==
  ASSUME TypeInv, OneInv, AdmitInv, Settle
  PROVE  AdmitInv'
  <1> DEFINE rec == Renewed(sync.rec, sync.man)
             want == Desired(sync.man, rec, jobs[sync.id])
  <1>1. /\ sync.pc = "apply" /\ sync.man # None /\ sync.native # None /\ ~Adoptable
        /\ sync.id \in Live /\ decl = sync.man
        /\ Revision(jobs[sync.id]) = Revision(sync.native)
        /\ IF want # jobs[sync.id].is THEN IntendUpdate(rec, want)
           ELSE file' = Settled(rec, sync.native.is) /\ sync' = Idle
        /\ UNCHANGED <<jobs, tampered, exec>>
    BY DEF Settle, Settleable, Unmoved, Takes, Save
  <1>2. decl \in Jobs /\ sync.rec \in Records /\ Paid(sync.rec) /\ sync.native \in Natives
        /\ sync.rec.id = sync.id
    BY <1>1, RecordAtHand DEF TypeInv, SyncType, OneInv, Matched
  <1>3. rec \in Records /\ rec.id = sync.id /\ rec.hash = sync.man
    BY <1>1, <1>2, RenewedPaid
  <1> HIDE DEF rec
  <1>4. jobs[sync.id] \in Natives /\ jobs[sync.id] # None
    BY <1>1, OwnedType, NoneAssumption
  <1>5. want \in Settings /\ want.job = sync.man
    BY <1>1, <1>2, <1>3, <1>4, DesiredType
  <1> HIDE DEF want
  <1>6. CASE want # jobs[sync.id].is
    BY <1>1, <1>3, <1>5, <1>6, AdmitIntended
  <1>7. CASE want = jobs[sync.id].is
    <2>1. sync.native.is \in Settings
      BY <1>2 DEF Natives
    <2>2. /\ file'.id = sync.id /\ file'.pend = None /\ file'.is = sync.native.is
          /\ file'.hash = sync.man /\ sync' = Idle
      BY <1>1, <1>3, <1>7, <2>1, SettledType
    <2>3. Captured' /\ Meant'
      BY <2>2 DEF Captured, Meant, Idle
    <2>4. sync.native.is.job = sync.man
      <3>1. Revision(jobs[sync.id]).job = jobs[sync.id].is.job
        BY <1>4, Revisions
      <3>2. Revision(sync.native).job = sync.native.is.job
        BY <1>2, Revisions
      <3> QED BY <1>1, <1>5, <1>7, <3>1, <3>2
    <2>5. sync.native.is.on => Revision(jobs[sync.id]) = sync.native.is
      BY <1>1, <1>2, Revisions
    <2>6. Kept'
      BY <1>1, <1>4, <2>2, <2>4, <2>5 DEF Kept, Watched, Recorded, Revision
    <2>7. sync'.pc = "idle"
      BY <2>2 DEF Idle
    <2> QED BY <1>1, <2>3, <2>6, <2>7, AdmitSaved
  <1> QED BY <1>6, <1>7

(* A record that becomes, or already is, that of a disabled job.             *)
LEMMA AdmitDisabled ==
  ASSUME TypeInv, AdmitInv, UNCHANGED <<jobs, tampered, exec>>, sync' = Idle, file # None,
         NEW is \in Settings, sync.id \in Ids, file' = Disabled(file, is)
  PROVE  AdmitInv'
  <1>1. sync'.pc = "idle"
    BY DEF Idle
  <1>2. CASE file.removed /\ file.pend = None
    <2>1. file' = file
      BY <1>2 DEF Disabled
    <2>2. Captured' /\ Meant' /\ Kept'
      BY <1>1, <2>1 DEF AdmitInv, Captured, Meant, Kept, Watched, Recorded, Revision
    <2> QED BY <1>1, <2>2, AdmitSaved
  <1>3. CASE ~(file.removed /\ file.pend = None)
    <2>1. file' = [file EXCEPT !.removed = TRUE, !.id = sync.id, !.is = [is EXCEPT !.on = FALSE],
                               !.pend = None]
      BY <1>3 DEF Disabled
    <2>2. file'.pend = None /\ file'.is = [is EXCEPT !.on = FALSE]
      BY <2>1, FileShape DEF Records
    <2>3. file'.is.on = FALSE
      BY <2>2 DEF Settings
    <2>4. Captured' /\ Meant' /\ Kept'
      BY <1>1, <2>2, <2>3 DEF Captured, Meant, Kept, Watched
    <2> QED BY <1>1, <2>4, AdmitSaved
  <1> QED BY <1>2, <1>3

LEMMA AdmitDisable ==
  ASSUME TypeInv, OneInv, AdmitInv, Disable
  PROVE  AdmitInv'
  <1> DEFINE is == jobs[sync.id].is
             want == [is EXCEPT !.on = FALSE]
  <1>1. /\ sync.pc = "apply" /\ sync.native # None /\ sync.id \in Live
        /\ IF is.on THEN IntendUpdate(sync.rec, want)
           ELSE file' = Disabled(sync.rec, is) /\ sync' = Idle
        /\ UNCHANGED <<jobs, tampered, exec>>
    BY DEF Disable, Unmoved, Takes, Save
  <1>2. /\ sync.rec \in Records /\ sync.id \in Ids /\ sync.rec = file /\ file # None
    BY <1>1, RecordAtHand DEF TypeInv, Held
  <1>3. is \in Settings
    BY <1>1, OwnedType DEF Natives
  <1>4. is.on => file.id = sync.id
    BY <1>1 DEF OneInv, OnlyNamed, Names
  <1>5. want \in Settings /\ ~want.on
    BY <1>3 DEF Settings
  <1> HIDE DEF want
  <1>6. CASE is.on
    BY <1>1, <1>2, <1>4, <1>5, <1>6, AdmitIntended
  <1> HIDE DEF is
  <1>7. CASE ~is.on
    BY <1>1, <1>2, <1>3, <1>7, AdmitDisabled
  <1> QED BY <1>6, <1>7

LEMMA AdmitUpdated ==
  ASSUME TypeInv, OneInv, AdmitInv, Updated
  PROVE  AdmitInv'
  <1>1. /\ sync.pc = "updating" /\ UpdateJob(sync.id, sync.native, sync.want)
        /\ Takes(sync.id, sync.native)
        /\ sync' = [sync EXCEPT !.pc = "updated"] /\ UNCHANGED <<file, tampered, exec>>
    BY DEF Updated
  <1>2. /\ sync.native \in Natives /\ sync.want \in Settings /\ sync.id \in Ids
        /\ sync.rec = file /\ file # None /\ file.id = sync.id
        /\ file.pend # None /\ file.pend.is = sync.want
    BY <1>1 DEF TypeInv, SyncType, Held, OneInv, Matched, AdmitInv, Meant
  <1>3. Holds(sync.id)
    BY <1>1, <1>2, HoldsPatched
  <1>4. Kept' /\ Captured'
    BY <1>1, <1>2, <1>3, KeptHolds DEF AdmitInv, Names
  <1>5. sync'.pc = "updated" /\ sync'.want = sync.want
    BY <1>1 DEF TypeInv, SyncType
  <1>6. Meant'
    BY <1>1, <1>2, <1>5 DEF AdmitInv, Meant
  <1> QED BY <1>1, <1>4, <1>5, <1>6, AdmitSaved

LEMMA AdmitConfirm ==
  ASSUME TypeInv, OneInv, AdmitInv, Confirm
  PROVE  AdmitInv'
  <1> DEFINE rec == [sync.rec EXCEPT !.is = sync.want, !.pend = None]
  <1>1. /\ sync.pc = "updated" /\ sync.id \in Live /\ jobs[sync.id].is = sync.want
        /\ sync' = [sync EXCEPT !.pc = "finish", !.rec = rec] /\ file' = rec
        /\ UNCHANGED <<jobs, tampered, exec>>
    BY DEF Confirm, Save, ReadBack
  <1>2. /\ sync.rec \in Records /\ sync.want \in Settings /\ sync.rec = file /\ file # None
        /\ file.id = sync.id /\ file.pend # None /\ file.pend.is = sync.want
        /\ jobs[sync.id] \in Natives /\ jobs[sync.id] # None
    BY <1>1, OwnedType, NoneAssumption
       DEF TypeInv, Held, SyncType, OneInv, Matched, AdmitInv, Meant
  <1>3. /\ rec \in Records /\ rec.id = sync.id /\ rec.is = sync.want /\ rec.pend = None
        /\ rec.hash = file.hash
    BY <1>2 DEF Records
  <1> HIDE DEF rec
  <1>4. sync'.pc = "finish" /\ sync'.want = sync.want
    BY <1>1 DEF TypeInv, SyncType
  <1>5. Captured' /\ Meant'
    BY <1>1, <1>3, <1>4 DEF Captured, Meant
  <1>6. sync.want.on => sync.want.job = file.hash
    BY <1>2 DEF AdmitInv, Meant
  <1>7. sync.want.on => Revision(jobs[sync.id]) = sync.want
    BY <1>1, <1>2, Revisions
  <1>8. Kept'
    BY <1>1, <1>2, <1>3, <1>6, <1>7 DEF Kept, Watched, Recorded, Revision
  <1> QED BY <1>1, <1>4, <1>5, <1>8, AdmitSaved

LEMMA AdmitFinish ==
  ASSUME TypeInv, OneInv, AdmitInv, Finish
  PROVE  AdmitInv'
  <1>1. /\ sync.pc = "finish" /\ sync' = Idle
        /\ file' = IF sync.man # None THEN Settled(sync.rec, sync.want)
                   ELSE Disabled(sync.rec, sync.want)
        /\ UNCHANGED <<jobs, tampered, exec>>
    BY DEF Finish, Save
  <1>2. /\ sync.rec = file /\ file # None /\ file \in Records /\ sync.want \in Settings
        /\ sync.id \in Ids /\ file.pend = None /\ file.is = sync.want
    BY <1>1 DEF TypeInv, Held, SyncType, AdmitInv, Meant
  <1>3. CASE sync.man # None
    <2>1. /\ file'.id = file.id /\ file'.is = file.is /\ file'.pend = None
          /\ file'.hash = file.hash /\ sync'.pc = "idle"
      BY <1>1, <1>2, <1>3, SettledType DEF Idle
    <2>2. Captured' /\ Meant'
      BY <2>1 DEF Captured, Meant
    <2>3. Watched' => Watched
      BY <1>2, <2>1 DEF Watched
    <2>4. Recorded(file)' = Recorded(file)
      BY <1>2, <2>1 DEF Recorded
    <2>5. Kept'
      BY <1>1, <2>1, <2>3, <2>4 DEF AdmitInv, Kept, Revision
    <2> QED BY <1>1, <2>1, <2>2, <2>5, AdmitSaved
  <1>4. CASE sync.man = None
    BY <1>1, <1>2, <1>4, AdmitDisabled
  <1> QED BY <1>3, <1>4

LEMMA AdmitRetire ==
  ASSUME TypeInv, OneInv, AdmitInv, Retire
  PROVE  AdmitInv'
  <1>1. /\ sync.pc = "apply" /\ sync' = Idle /\ sync.man = None
        /\ file' = [sync.rec EXCEPT !.removed = TRUE, !.retired = TRUE]
        /\ UNCHANGED <<jobs, tampered, exec>>
    BY DEF Retire, Save
  <1>2. sync.rec \in Records /\ sync.rec = file /\ file # None
    BY <1>1, RecordAtHand, JobsAssumption
  <1>3. /\ file'.id = file.id /\ file'.is = file.is /\ file'.pend = file.pend
        /\ file'.hash = file.hash /\ sync'.pc = "idle"
    BY <1>1, <1>2 DEF Records, Idle
  <1>4. Captured' /\ Meant' /\ Kept'
    BY <1>1, <1>2, <1>3 DEF AdmitInv, Captured, Meant, Kept, Watched, Recorded, Revision
  <1> QED BY <1>1, <1>3, <1>4, AdmitSaved

LEMMA AdmitRefuse ==
  ASSUME TypeInv, OneInv, AdmitInv, Refuse
  PROVE  AdmitInv'
  <1>1. sync'.pc = "idle" /\ UNCHANGED <<file, jobs, tampered, exec>>
    BY DEF Refuse, Idle
  <1> QED BY <1>1, AdmitUnsaved DEF Listed

LEMMA AdmitSync ==
  ASSUME TypeInv, OneInv, RunInv, AdmitInv, Sync
  PROVE  AdmitInv'
  BY AdmitBegin, AdmitPlan, AdmitAdopt, AdmitIntendCreate, AdmitAdded, AdmitAcknowledge,
     AdmitSettle, AdmitUpdated, AdmitConfirm, AdmitFinish, AdmitDisable, AdmitRetire,
     AdmitRefuse DEF Sync

LEMMA AdmitFail ==
  ASSUME TypeInv, OneInv, AdmitInv, Fail
  PROVE  AdmitInv'
  <1>1. sync'.pc = "idle" /\ UNCHANGED <<file, jobs, tampered, exec>>
    BY DEF Fail, Idle
  <1> QED BY <1>1, AdmitUnsaved DEF Listed

(* Steps that leave ledger, synchronization and execution alone.             *)
LEMMA AdmitWorld ==
  ASSUME TypeInv, OneInv, AdmitInv, UNCHANGED <<file, sync, exec>>, tampered => tampered',
         ~tampered' => \A j \in Ids : Names(j) \/ j = sync.id => Holds(j)
  PROVE  AdmitInv'
  <1>1. Kept' /\ Captured'
    BY KeptHolds DEF AdmitInv
  <1>2. Listed'
    BY ListedHolds DEF AdmitInv
  <1>3. Meant' /\ Found'
    BY DEF AdmitInv, Meant, Found, Recorded
  <1> QED BY <1>1, <1>2, <1>3 DEF AdmitInv

LEMMA AdmitTakesEffect ==
  ASSUME TypeInv, OneInv, RunInv, AdmitInv, NEW r \in late, TakesEffect(r)
  PROVE  AdmitInv'
  <1>1. /\ r.want \in Settings /\ r.kind \in {"add", "update"}
        /\ r.kind = "update" => r.before \in Natives /\ r.id \in Ids
    BY DEF TypeInv, WorldType, Requests
  <1>2. UNCHANGED <<file, sync, exec>>
    BY DEF TakesEffect
  <1>3. CASE r.kind = "add"
    <2>1. CreateJob(r.want) /\ UNCHANGED tampered
      BY <1>3 DEF TakesEffect
    <2>2. \A j \in Ids : j <= made => Holds(j)
      BY <1>1, <2>1, CreatedHolds
    <2>3. \A j \in Ids : Names(j) \/ j = sync.id => Holds(j)
      BY <2>2 DEF Names, RunInv, Made
    <2> QED BY <1>2, <2>1, <2>3, AdmitWorld
  <1>4. CASE r.kind = "update" /\ Takes(r.id, r.before)
    <2>1. UpdateJob(r.id, r.before, r.want) /\ tampered' = (tampered \/ ~Intended(r.want))
      BY <1>4 DEF TakesEffect
    <2>2. /\ jobs' = [jobs EXCEPT ![r.id] = Patched(jobs[r.id], r.before, r.want)]
          /\ jobs \in [Ids -> Natives \cup {None}]
      BY <2>1 DEF UpdateJob, TypeInv, WorldType
    <2>3. \A j \in Ids : j # r.id => Holds(j)
      BY <2>2 DEF Holds
    <2>4. Intended(r.want) => Holds(r.id)
      <3> SUFFICES ASSUME Intended(r.want) PROVE Holds(r.id)
        OBVIOUS
      <3>1. file # None
        BY <1>4 DEF OneInv, LateKnown, Names
      <3>2. file.pend # None /\ file.pend.is = r.want
        BY DEF Intended
      <3> QED BY <1>1, <1>4, <2>1, <3>1, <3>2, HoldsPatched
    <2> QED BY <1>2, <2>1, <2>3, <2>4, AdmitWorld
  <1>5. CASE r.kind = "update" /\ ~Takes(r.id, r.before)
    <2>1. UNCHANGED <<jobs, tampered>>
      BY <1>5 DEF TakesEffect
    <2>2. \A j \in Ids : Holds(j)
      BY <2>1 DEF Holds
    <2> QED BY <1>2, <2>1, <2>2, AdmitWorld
  <1> QED BY <1>1, <1>3, <1>4, <1>5

LEMMA AdmitFire ==
  ASSUME TypeInv, OneInv, AdmitInv, NEW j \in Ids, Fire(j)
  PROVE  AdmitInv'
  <1>1. PICK how \in {"ok", "failed"}, on \in BOOLEAN :
          jobs' = [jobs EXCEPT ![j].fired = how, ![j].is.on = on]
    BY DEF Fire
  <1>2. j \in Live /\ jobs[j].is.on /\ UNCHANGED <<file, sync, exec, tampered>>
    BY DEF Fire
  <1>3. jobs[j] \in Natives /\ jobs \in [Ids -> Natives \cup {None}]
    BY <1>2, OwnedType DEF TypeInv, WorldType
  <1> DEFINE n == [jobs[j] EXCEPT !.fired = how, !.is.on = on]
  <1>4. jobs' = [jobs EXCEPT ![j] = n]
    BY <1>1, <1>3
  <1>5. /\ n \in Natives /\ n.is.job = jobs[j].is.job /\ n.is.at = jobs[j].is.at
        /\ n.is.cap = jobs[j].is.cap /\ n.fired = how
    BY <1>3 DEF Natives, Settings
  <1> HIDE DEF n
  <1>6. Revision(n) = Revision(jobs[j])
    <2>1. /\ Revision(n) \in Settings /\ Revision(jobs[j]) \in Settings
          /\ Revision(n).job = n.is.job /\ Revision(n).at = n.is.at /\ Revision(n).cap = n.is.cap
          /\ Revision(n).on = (n.is.on \/ n.fired # "no")
      BY <1>3, <1>5, Revisions
    <2>2. /\ Revision(jobs[j]).job = jobs[j].is.job /\ Revision(jobs[j]).at = jobs[j].is.at
          /\ Revision(jobs[j]).cap = jobs[j].is.cap
          /\ Revision(jobs[j]).on = (jobs[j].is.on \/ jobs[j].fired # "no")
      BY <1>3, Revisions
    <2>3. Revision(n).on = Revision(jobs[j]).on
      BY <1>2, <1>5, <2>1, <2>2
    <2> QED BY <1>5, <2>1, <2>2, <2>3, SameSettings
  <1>7. jobs'[j] = n /\ n # None /\ \A i \in Ids : i # j => jobs'[i] = jobs[i]
    BY <1>3, <1>4, <1>5, NoneAssumption
  <1>8. \A i \in Ids : Holds(i)
    BY <1>6, <1>7 DEF Holds
  <1> QED BY <1>2, <1>8, AdmitWorld

LEMMA AdmitTamper ==
  ASSUME TypeInv, OneInv, AdmitInv, NEW j \in Ids, Tamper(j)
  PROVE  AdmitInv'
  BY AdmitWorld DEF Tamper

LEMMA AdmitDeclare ==
  ASSUME TypeInv, OneInv, AdmitInv, Declare
  PROVE  AdmitInv'
  <1>1. UNCHANGED <<file, sync, exec, jobs, tampered>>
    BY DEF Declare
  <1>2. \A j \in Ids : Holds(j)
    BY <1>1 DEF Holds
  <1> QED BY <1>1, <1>2, AdmitWorld

LEMMA AdmitExecution ==
  ASSUME TypeInv, OneInv, AdmitInv, Execution
  PROVE  AdmitInv'
  <1>1. UNCHANGED <<file, sync, jobs, tampered>>
    BY DEF Execution, StartRun, GetJob, LookAgain, Admit, EndRun, LookUp
  <1>2. Found'
    <2>1. ASSUME NEW hash, LookUp(hash) PROVE Found'
      BY <2>1 DEF LookUp, Found
    <2>2. CASE GetJob
      <3> DEFINE n == jobs[exec.rec.id]
      <3>1. n \in Natives /\ n # None
        BY <2>2, OwnedType, NoneAssumption DEF GetJob
      <3>2. n.is # None
        BY <3>1, NoneAssumption DEF Natives
      <3>3. exec' = [exec EXCEPT !.fit = IF n.is.on /\ n.is \in Recorded(exec.rec)
                                         THEN "fits" ELSE "drifted"]
        BY <2>2 DEF GetJob
      <3> HIDE DEF n
      <3>4. exec'.fit = "fits" => n.is.on /\ n.is \in Recorded(exec.rec)
        BY <3>3 DEF TypeInv, ExecType
      <3>5. exec'.rec = exec.rec
        BY <3>3 DEF TypeInv, ExecType
      <3> QED BY <3>2, <3>4, <3>5 DEF Found, Recorded
    <2>3. CASE Admit \/ EndRun
      BY <2>3 DEF Admit, EndRun, Found, Asleep
    <2> QED BY <2>1, <2>2, <2>3 DEF Execution, StartRun, LookAgain
  <1>3. \A j \in Ids : Holds(j)
    BY <1>1 DEF Holds
  <1>4. Kept' /\ Captured'
    BY <1>1, <1>3, KeptHolds DEF AdmitInv
  <1>5. Listed'
    BY <1>1, <1>3, ListedHolds DEF AdmitInv
  <1>6. Meant'
    BY <1>1 DEF AdmitInv, Meant
  <1> QED BY <1>2, <1>4, <1>5, <1>6 DEF AdmitInv

LEMMA AdmitStep ==
  ASSUME TypeInv, OneInv, RunInv, AdmitInv, [Next]_vars
  PROVE  AdmitInv'
  <1>1. CASE UNCHANGED vars
    <2>1. UNCHANGED <<file, sync, exec, jobs, tampered>>
      BY <1>1 DEF vars
    <2>2. \A j \in Ids : Holds(j)
      BY <2>1 DEF Holds
    <2> QED BY <2>1, <2>2, AdmitWorld
  <1> QED BY <1>1, AdmitSync, AdmitFail, AdmitTakesEffect, AdmitFire, AdmitTamper, AdmitDeclare,
             AdmitExecution DEF Next, Scheduler, People

Current ==
  /\ Admissible(file, exec.rec.hash)
  /\ ~tampered => /\ file.id \in Live
                    /\ jobs[file.id].is.job = exec.rec.hash
                    /\ jobs[file.id].fired = "no" => jobs[file.id].is \in Recorded(file)

LEMMA AdmitImplies ==
  ASSUME TypeInv, AdmitInv, Admit
  PROVE  Current
  <1>1. exec.fit = "fits" /\ file = exec.rec
    BY DEF Admit, Unchanged
  <1>2. file # None /\ Admissible(file, file.hash)
    BY <1>1 DEF TypeInv, ExecType, Asleep
  <1>3. file.id \in Ids /\ file.id # 0 /\ (file.pend # None => file.pend.capture)
    BY <1>2, FileShape DEF Admissible
  <1>4. Watched
    BY <1>1, <1>2, <1>3 DEF Watched, AdmitInv, Found, Captured, Recorded
  <1>5. ASSUME ~tampered
        PROVE  /\ file.id \in Live /\ jobs[file.id].is.job = file.hash
               /\ jobs[file.id].fired = "no" => jobs[file.id].is \in Recorded(file)
    <2>1. /\ file.is.job = file.hash /\ jobs[file.id] # None
          /\ Revision(jobs[file.id]) \in Recorded(file)
      BY <1>4, <1>5 DEF AdmitInv, Kept
    <2>2. \A s \in Recorded(file) : s.job = file.hash
      BY <1>2, <1>3, <2>1 DEF Recorded, AdmitInv, Captured
    <2>3. jobs[file.id] \in Natives /\ file.id \in Live
      BY <1>3, <2>1 DEF TypeInv, WorldType, Live
    <2>4. /\ Revision(jobs[file.id]).job = jobs[file.id].is.job
          /\ jobs[file.id].fired = "no" => Revision(jobs[file.id]) = jobs[file.id].is
      BY <2>3, Revisions
    <2> QED BY <2>1, <2>2, <2>3, <2>4
  <1> QED BY <1>1, <1>2, <1>5 DEF Current

(* What is admitted is current, although the execution does not take the lock  *)
(* and although the ledger may have moved and come back while it read the job. *)
THEOREM AdmitsTheRecorded == Spec => AdmitsCurrent
  <1>1. Init => TypeInv /\ OneInv /\ RunInv /\ AdmitInv
    BY TypeInit, OneInit, RunInit, AdmitInit
  <1>2. TypeInv /\ OneInv /\ RunInv /\ AdmitInv /\ [Next]_vars
          => (TypeInv /\ OneInv /\ RunInv /\ AdmitInv)'
    BY TypeStep, OneStep, RunStep, AdmitStep
  <1>3. TypeInv /\ AdmitInv => (Admit => Current)
    BY AdmitImplies
  <1>4. TypeInv /\ AdmitInv /\ [Next]_vars => [Admit => Current]_vars
    BY <1>3
  <1>5. Spec => [][Admit => Current]_vars
    BY <1>1, <1>2, <1>4, PTL DEF Spec
  <1> QED BY <1>5 DEF AdmitsCurrent, Current
===============================================================================
