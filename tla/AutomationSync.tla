---------------------------- MODULE AutomationSync ----------------------------
(***************************************************************************)
(* The synchronization of one declared automation with the scheduler of    *)
(* the gateway (agent/automation-service.ts, automation-store.ts,          *)
(* automation-projection.ts): the ledger's record with its pending intent, *)
(* the native jobs that carry the record's marker, one synchronization at  *)
(* a time (the store's lock), and a command execution that is admitted     *)
(* without that lock.                                                      *)
(*                                                                         *)
(* All schedules are one-shots, the harder kind.  A hash of settings is    *)
(* the settings.  The gateway is external: a request may take effect after *)
(* its caller is gone, cron.add always makes a new job, cron.update        *)
(* insists on the revision it was computed from, and a job that completes  *)
(* keeps its revision.                                                     *)
(***************************************************************************)
EXTENDS Integers, FiniteSets

CONSTANTS
  Jobs,        \* declarations: records [text, trigger, enabled]
  None,        \* no declaration, record, job or pending intent
  MaxNative,   \* bound: native jobs ever created
  MaxMishaps   \* bound: edits of the manifest, interventions of people in
               \* the scheduler and failed synchronizations, together

ASSUME JobsAssumption ==
  /\ \A d \in Jobs : DOMAIN d = {"text", "trigger", "enabled"} /\ d.enabled \in BOOLEAN
  /\ None \notin Jobs
ASSUME BoundsAssumption == {MaxNative, MaxMishaps} \subseteq Nat

VARIABLES
  decl,     \* the manifest's declaration
  file,     \* the ledger's record
  jobs,     \* the native jobs with the record's marker, by id
  made,     \* native jobs created so far
  late,     \* requests of ended synchronizations that may still take effect
  sync,     \* the synchronization that holds the lock
  exec,     \* one command execution
  mishaps,  \* used up of the bound
  tampered, \* history: a job was changed in a way the ledger does not intend
  ran,      \* history: completed runs of each trigger the scheduler was given
  upset     \* history: something only an operator can settle has happened

vars == <<decl, file, jobs, made, late, sync, exec, mishaps, tampered, ran, upset>>

Ids == 1..MaxNative
Gens == 1..(MaxMishaps + 1)

(* Executable settings; what outputMaxBytes is set to: nothing, an old     *)
(* limit, or the one limit that updates migrate to.                        *)
Settings == [job : Jobs, at : Gens, on : BOOLEAN, cap : {"none", "old", "max"}]
Natives == [is : Settings, fired : {"no", "ok", "failed"}]
Pendings == [kind : {"create", "update"}, is : Settings, capture : BOOLEAN]

(* is: nativeHash; hash stands for the trigger's hash as well.             *)
Records == [id : Ids \cup {0}, hash : Jobs, is : Settings \cup {None}, gen : Gens,
            removed : BOOLEAN, retired : BOOLEAN, pend : Pendings \cup {None}]

ASSUME NoneAssumption == None \notin Settings \cup Natives \cup Pendings \cup Records

Idle == [pc |-> "idle", man |-> None, rec |-> None, id |-> 0, native |-> None, want |-> None]
Asleep == [rec |-> None, fit |-> "none"]

Live == {j \in Ids : jobs[j] # None}

-------------------------------------------------------------------------------
(* Ownership, projection and their comparison.                             *)

Completed(n) == n.fired = "ok"
Ambiguous(n) == n.fired = "failed"

(* What firing changes is not part of the revision.                        *)
Revision(n) == [n.is EXCEPT !.on = @ \/ n.fired # "no"]

Conflict(rec) ==
  \/ rec.retired /\ Live # {}
  \/ Cardinality(Live) > 1
  \/ rec.id # 0 /\ Live \ {rec.id} # {}

OwnedId == IF Live = {} THEN 0 ELSE CHOOSE j \in Live : TRUE
OwnedJob == IF Live = {} THEN None ELSE jobs[OwnedId]

PendingHashPlain(rec, n) == n.is   \* mutant: completion below an update diverges

(* A one-shot may complete, and disable itself, below an update of its     *)
(* output limit: that is not a divergence.                                 *)
PendingHash(rec, n) ==
  LET before == [n.is EXCEPT !.on = TRUE]
  IN  IF rec.pend.capture /\ ~n.is.on /\ Completed(n) /\ before \in {rec.pend.is, rec.is}
      THEN before ELSE n.is

Valid(rec, man, n) ==
  /\ man # None => ~rec.retired
  /\ n = None => IF man # None THEN rec.id = 0 ELSE rec.id # 0 /\ rec.pend = None
  /\ man # None /\ n # None =>
       /\ rec.pend # None => rec.hash = man
       /\ ~(rec.hash.trigger = man.trigger /\ Ambiguous(n))
  /\ rec.pend # None /\ n # None => PendingHash(rec, n) \in {rec.pend.is, rec.is}

(* A new trigger is a new generation and a new anchor.                     *)
Renewed(rec, man) ==
  [rec EXCEPT !.hash = man, !.gen = IF rec.hash.trigger # man.trigger THEN @ + 1 ELSE @]

NewRecord(man) ==
  [id |-> 0, hash |-> man, is |-> None, gen |-> 1,
   removed |-> FALSE, retired |-> FALSE, pend |-> None]

KeepsCompletionLost(rec, n) == FALSE   \* mutant: desired as declared, completed or not

KeepsCompletion(rec, n) == n # None /\ n.is.at = rec.gen /\ Completed(n)

Desired(man, rec, n) ==
  [job |-> man, at |-> rec.gen,
   on |-> man.enabled /\ ~KeepsCompletion(rec, n),
   cap |-> IF n = None \/ n.is.cap = "none" THEN "none" ELSE "max"]

(* cron.update changes what its sender found different.  A new schedule,   *)
(* or an enabled job, is armed again.                                      *)
Patched(n, before, want) ==
  LET is == [f \in DOMAIN want |-> IF before.is[f] = want[f] THEN n.is[f] ELSE want[f]]
  IN  [is |-> is, fired |-> IF is.at # n.is.at \/ (is.on /\ ~n.is.on) THEN "no" ELSE n.fired]

CaptureOnly(rec, before, want) ==
  before.is = rec.is /\ want.cap # before.is.cap /\ [before.is EXCEPT !.cap = want.cap] = want

-------------------------------------------------------------------------------
(* The synchronization.                                                    *)

Save(rec) == file' = rec

Begin ==
  /\ sync.pc = "idle"
  /\ decl # None \/ file # None
  /\ sync' = [Idle EXCEPT !.pc = "plan", !.man = decl, !.rec = file]
  /\ UNCHANGED <<decl, file, jobs, made, late, exec, mishaps, tampered, ran, upset>>

Planned ==
  /\ IF sync.rec = None THEN Live = {}
     ELSE ~Conflict(sync.rec) /\ Valid(sync.rec, sync.man, OwnedJob)
  /\ decl = sync.man

(* The whole plan is validated against the listing before any change.      *)
Plan ==
  /\ sync.pc = "plan" /\ Planned
  /\ sync' = [sync EXCEPT !.pc = "apply", !.id = OwnedId, !.native = OwnedJob,
                          !.rec = IF @ = None THEN NewRecord(sync.man) ELSE @]
  /\ UNCHANGED <<decl, file, jobs, made, late, exec, mishaps, tampered, ran, upset>>

Adoptable ==
  sync.rec.pend # None /\ sync.native # None
    /\ PendingHash(sync.rec, sync.native) = sync.rec.pend.is

(* A pending intent that took effect is acknowledged, never sent again.    *)
Adopt ==
  /\ sync.pc = "apply" /\ sync.man # None /\ Adoptable
  /\ LET rec == [sync.rec EXCEPT !.id = sync.id, !.is = sync.native.is, !.pend = None]
     IN  sync' = [sync EXCEPT !.rec = rec] /\ Save(rec)
  /\ UNCHANGED <<decl, jobs, made, late, exec, mishaps, tampered, ran, upset>>

FirstSettingsEnabled(man, rec) == Desired(man, rec, None)   \* mutant: created enabled

(* A job is created disabled, after its intent is saved.                   *)
FirstSettings(man, rec) == [Desired(man, rec, None) EXCEPT !.on = FALSE]

Creatable ==
  /\ sync.rec.pend # None => sync.rec.pend.kind = "create" /\ sync.rec.hash = sync.man
  /\ decl = sync.man

IntendCreate ==
  /\ sync.pc = "apply" /\ sync.man # None /\ sync.native = None /\ Creatable
  /\ LET rec == Renewed(sync.rec, sync.man)
         is == FirstSettings(sync.man, rec)
         intent == [rec EXCEPT !.pend = [kind |-> "create", is |-> is, capture |-> FALSE]]
     IN  sync' = [sync EXCEPT !.pc = "adding", !.rec = intent, !.want = is] /\ Save(intent)
  /\ UNCHANGED <<decl, jobs, made, late, exec, mishaps, tampered, ran, upset>>

CreateJob(is) ==
  /\ made < MaxNative
  /\ made' = made + 1
  /\ jobs' = [jobs EXCEPT ![made'] = [is |-> is, fired |-> "no"]]
  /\ upset' = (upset \/ Live # {})

Added ==
  /\ sync.pc = "adding"
  /\ CreateJob(sync.want)
  /\ sync' = [sync EXCEPT !.pc = "added", !.id = made']
  /\ UNCHANGED <<decl, file, late, exec, mishaps, tampered, ran>>

ReadBack == sync.id \in Live /\ jobs[sync.id].is = sync.want

Acknowledge ==
  /\ sync.pc = "added" /\ ReadBack
  /\ LET rec == [sync.rec EXCEPT !.id = sync.id, !.is = sync.want, !.pend = None]
     IN  sync' = [sync EXCEPT !.pc = "apply", !.rec = rec, !.native = jobs[sync.id]] /\ Save(rec)
  /\ UNCHANGED <<decl, jobs, made, late, exec, mishaps, tampered, ran, upset>>

Takes(j, before) == j \in Live /\ Revision(jobs[j]) = Revision(before)

(* The job is read again and must be as it was listed.                     *)
Unmoved ==
  Takes(sync.id, sync.native) /\ decl = sync.man

IntendUpdateUnsaved(rec, want) ==   \* mutant: the intent is not saved before the update
  LET before == jobs[sync.id]
      intent == [rec EXCEPT !.pend = [kind |-> "update", is |-> want,
                                      capture |-> CaptureOnly(rec, before, want)]]
  IN  /\ sync' = [sync EXCEPT !.pc = "updating", !.rec = intent, !.native = before, !.want = want]
      /\ UNCHANGED file

IntendUpdate(rec, want) ==
  LET before == jobs[sync.id]
      intent == [rec EXCEPT !.pend = [kind |-> "update", is |-> want,
                                      capture |-> CaptureOnly(rec, before, want)]]
  IN  /\ sync' = [sync EXCEPT !.pc = "updating", !.rec = intent, !.native = before, !.want = want]
      /\ Save(intent)

Settled(rec, is) == [rec EXCEPT !.is = is, !.removed = FALSE, !.pend = None]
Disabled(rec, is) ==
  IF rec.removed /\ rec.pend = None THEN rec
  ELSE [rec EXCEPT !.removed = TRUE, !.id = sync.id, !.is = [is EXCEPT !.on = FALSE], !.pend = None]

Settleable ==
  /\ Unmoved
  /\ ~(sync.native.is.at = Renewed(sync.rec, sync.man).gen /\ Ambiguous(sync.native))

Settle ==
  /\ sync.pc = "apply" /\ sync.man # None /\ sync.native # None /\ ~Adoptable /\ Settleable
  /\ LET rec == Renewed(sync.rec, sync.man)
         want == Desired(sync.man, rec, jobs[sync.id])
     IN  IF want # jobs[sync.id].is THEN IntendUpdate(rec, want)
         ELSE Save(Settled(rec, sync.native.is)) /\ sync' = Idle
  /\ UNCHANGED <<decl, jobs, made, late, exec, mishaps, tampered, ran, upset>>

Disable ==
  /\ sync.pc = "apply" /\ sync.man = None /\ sync.native # None
  /\ Unmoved
  /\ IF jobs[sync.id].is.on THEN IntendUpdate(sync.rec, [jobs[sync.id].is EXCEPT !.on = FALSE])
     ELSE Save(Disabled(sync.rec, jobs[sync.id].is)) /\ sync' = Idle
  /\ UNCHANGED <<decl, jobs, made, late, exec, mishaps, tampered, ran, upset>>

UpdateJob(j, before, want) ==
  jobs' = [jobs EXCEPT ![j] = Patched(@, before, want)]

Updated ==
  /\ sync.pc = "updating" /\ Takes(sync.id, sync.native)
  /\ UpdateJob(sync.id, sync.native, sync.want)
  /\ sync' = [sync EXCEPT !.pc = "updated"]
  /\ UNCHANGED <<decl, file, made, late, exec, mishaps, tampered, ran, upset>>

Confirm ==
  /\ sync.pc = "updated" /\ ReadBack
  /\ LET rec == [sync.rec EXCEPT !.is = sync.want, !.pend = None]
     IN  sync' = [sync EXCEPT !.pc = "finish", !.rec = rec] /\ Save(rec)
  /\ UNCHANGED <<decl, jobs, made, late, exec, mishaps, tampered, ran, upset>>

Finish ==
  /\ sync.pc = "finish"
  /\ Save(IF sync.man # None THEN Settled(sync.rec, sync.want)
          ELSE Disabled(sync.rec, sync.want))
  /\ sync' = Idle
  /\ UNCHANGED <<decl, jobs, made, late, exec, mishaps, tampered, ran, upset>>

(* The declaration and the job are both gone, seen in a complete listing.  *)
Gone == Live = {} /\ decl = None

Retire ==
  /\ sync.pc = "apply" /\ sync.man = None /\ sync.native = None
  /\ ~sync.rec.retired /\ Gone
  /\ Save([sync.rec EXCEPT !.removed = TRUE, !.retired = TRUE])
  /\ sync' = Idle
  /\ UNCHANGED <<decl, jobs, made, late, exec, mishaps, tampered, ran, upset>>

(* A job that was not as recorded when its update was intended has neither *)
(* of the two hashes that recovery knows.                                  *)
Estranged == sync.pc \in {"updating", "updated"} /\ sync.native.is # sync.rec.is

(* What was read forbids to go on, or there is nothing left to do.         *)
Refuse ==
  /\ CASE sync.pc = "plan" -> ~Planned
       [] sync.pc \in {"added", "updated"} -> ~ReadBack
       [] sync.pc = "updating" -> ~Takes(sync.id, sync.native)
       [] sync.pc = "apply" /\ sync.man # None ->
            IF sync.native = None THEN ~Creatable ELSE ~Adoptable /\ ~Settleable
       [] sync.pc = "apply" /\ sync.man = None ->
            IF sync.native = None THEN sync.rec.retired \/ ~Gone ELSE ~Unmoved
       [] OTHER -> FALSE
  /\ sync' = Idle
  /\ upset' = (upset \/ Estranged)
  /\ UNCHANGED <<decl, file, jobs, made, late, exec, mishaps, tampered, ran>>

Request ==
  CASE sync.pc = "adding" -> {[kind |-> "add", id |-> 0, before |-> None, want |-> sync.want]}
    [] sync.pc = "updating" -> {[kind |-> "update", id |-> sync.id, before |-> sync.native,
                                 want |-> sync.want]}
    [] OTHER -> {}

(* A call fails or the process dies; what was sent may take effect later.  *)
Fail ==
  /\ sync.pc # "idle" /\ mishaps < MaxMishaps
  /\ mishaps' = mishaps + 1
  /\ \E sent \in SUBSET Request : late' = late \cup sent
  /\ sync' = Idle
  /\ upset' = (upset \/ Estranged)
  /\ UNCHANGED <<decl, file, jobs, made, exec, tampered, ran>>

Intended(is) == file.pend # None /\ file.pend.is = is

(* An update that is no longer of the job's revision is rejected.          *)
TakesEffect(r) ==
  /\ late' = late \ {r}
  /\ CASE r.kind = "add" -> CreateJob(r.want) /\ UNCHANGED tampered
       [] r.kind = "update" ->
            /\ IF Takes(r.id, r.before)
               THEN /\ UpdateJob(r.id, r.before, r.want)
                    /\ upset' = (upset \/ ~Intended(r.want))
                    /\ tampered' = (tampered \/ ~Intended(r.want))
               ELSE UNCHANGED <<jobs, upset, tampered>>
            /\ UNCHANGED made
  /\ UNCHANGED <<decl, file, sync, exec, mishaps, ran>>

-------------------------------------------------------------------------------
(* The manifest, the scheduler's own steps, and people.                    *)

(* Content that changes below a pending intent is refused from then on.    *)
Declare ==
  /\ mishaps < MaxMishaps
  /\ \E d \in (Jobs \cup {None}) \ {decl} : decl' = d
  /\ mishaps' = mishaps + 1
  /\ upset' = (upset \/ sync.pc # "idle" \/ (file # None /\ file.pend # None))
  /\ UNCHANGED <<file, jobs, made, late, sync, exec, tampered, ran>>

(* A one-shot runs: it completes, and may disable itself, or it fails and  *)
(* is not tried again.                                                     *)
Fire(j) ==
  /\ j \in Live /\ jobs[j].is.on /\ jobs[j].fired = "no"
  /\ \E how \in {"ok", "failed"}, on \in BOOLEAN :
       /\ jobs' = [jobs EXCEPT ![j].fired = how, ![j].is.on = on]
       /\ ran' = IF how = "ok" /\ ran[jobs[j].is.at] < 2 THEN [ran EXCEPT ![jobs[j].is.at] = @ + 1]
                 ELSE ran
       /\ upset' = (upset \/ how = "failed"
                      \/ (file # None /\ file.pend # None /\ ~file.pend.capture))
  /\ UNCHANGED <<decl, file, made, late, sync, exec, mishaps, tampered>>

(* Somebody disables, edits or deletes a job, or enables the one that the  *)
(* ledger names, as a notification reset does that paused it.              *)
Tamper(j) ==
  /\ mishaps < MaxMishaps /\ j \in Live
  /\ mishaps' = mishaps + 1 /\ tampered' = TRUE
  /\ \/ /\ jobs' = [jobs EXCEPT ![j] = None]
        /\ upset' = TRUE
     \/ /\ \/ \E d \in Jobs \ {jobs[j].is.job} : jobs' = [jobs EXCEPT ![j].is.job = d]
           \/ jobs[j].is.on /\ jobs' = [jobs EXCEPT ![j].is.on = FALSE]
           \/ /\ ~jobs[j].is.on /\ jobs[j].fired = "no"
              /\ file # None /\ file.id = j /\ file.pend = None /\ Live = {j}
              /\ jobs' = [jobs EXCEPT ![j].is.on = TRUE]
        /\ upset' = (upset \/ (file # None /\ file.pend # None))
  /\ UNCHANGED <<decl, file, made, late, sync, exec, ran>>

-------------------------------------------------------------------------------
(* A command execution, from the hash in its job's arguments.              *)

(* The ledger names a job for this hash, and at most its output limit is   *)
(* being changed.                                                          *)
Admissible(rec, hash) ==
  /\ rec # None
  /\ ~rec.retired /\ ~rec.removed /\ rec.id # 0 /\ rec.hash = hash
  /\ rec.pend # None => rec.pend.capture

Recorded(rec) == {rec.is} \cup (IF rec.pend # None THEN {rec.pend.is} ELSE {})

LookUp(hash) ==
  /\ Admissible(file, hash)
  /\ exec' = [rec |-> file, fit |-> "unread"]
  /\ UNCHANGED <<decl, file, jobs, made, late, sync, mishaps, tampered, ran, upset>>

(* A job starts its command, which loads the manifest and reads the ledger.*)
StartRun(j) ==
  /\ exec = Asleep /\ j \in Live /\ jobs[j].is.on
  /\ decl = jobs[j].is.job /\ decl.enabled
  /\ LookUp(decl)

GetJob ==
  /\ exec.fit = "unread" /\ exec.rec.id \in Live
  /\ LET n == jobs[exec.rec.id]
     IN  exec' = [exec EXCEPT !.fit = IF n.is.on /\ n.is \in Recorded(exec.rec)
                                      THEN "fits" ELSE "drifted"]
  /\ UNCHANGED <<decl, file, jobs, made, late, sync, mishaps, tampered, ran, upset>>

UnchangedUnread == TRUE   \* mutant: the ledger is not read again

Unchanged == file = exec.rec

(* The ledger moved while the job was read: look again.  (The code tries   *)
(* three times.)                                                           *)
LookAgain == exec.fit \in {"fits", "drifted"} /\ ~Unchanged /\ LookUp(exec.rec.hash)

Admit ==
  /\ exec.fit = "fits" /\ Unchanged
  /\ exec' = Asleep
  /\ UNCHANGED <<decl, file, jobs, made, late, sync, mishaps, tampered, ran, upset>>

(* Stale, drifted, failed, or done.                                        *)
EndRun ==
  /\ exec # Asleep
  /\ exec' = Asleep
  /\ UNCHANGED <<decl, file, jobs, made, late, sync, mishaps, tampered, ran, upset>>

-------------------------------------------------------------------------------
(* Nothing is installed, or a job is that was made before outputMaxBytes   *)
(* was left to the gateway.                                                *)
Installed(d) ==
  LET is == [job |-> d, at |-> 1, on |-> d.enabled, cap |-> "old"]
  IN  /\ made = 1 /\ MaxNative > 0
      /\ file = [NewRecord(d) EXCEPT !.id = 1, !.is = is]
      /\ jobs = [j \in Ids |-> IF j = 1 THEN [is |-> is, fired |-> "no"] ELSE None]

Init ==
  /\ decl \in Jobs
  /\ \/ made = 0 /\ file = None /\ jobs = [j \in Ids |-> None]
     \/ Installed(decl)
  /\ late = {} /\ sync = Idle /\ exec = Asleep
  /\ mishaps = 0 /\ tampered = FALSE
  /\ ran = [g \in Gens |-> 0]
  /\ upset = FALSE

Sync ==
  \/ Begin \/ Plan \/ Adopt \/ IntendCreate \/ Added \/ Acknowledge
  \/ Settle \/ Updated \/ Confirm \/ Finish \/ Disable \/ Retire \/ Refuse

Scheduler ==
  \/ \E r \in late : TakesEffect(r)
  \/ \E j \in Ids : Fire(j)

Execution ==
  \/ \E j \in Ids : StartRun(j)
  \/ GetJob \/ LookAgain \/ Admit \/ EndRun

People == Declare \/ \E j \in Ids : Tamper(j)

Next == Sync \/ Fail \/ Scheduler \/ Execution \/ People

(* Synchronizations are repeated, and one that has not failed goes on.     *)
Fairness == WF_vars(Sync)

Spec == Init /\ [][Next]_vars /\ Fairness

-------------------------------------------------------------------------------
(* Properties.                                                             *)

(* The ledger's record, the native jobs and the calls under way have the   *)
(* shapes that the store's schema and the service expect.                  *)
TypeOK ==
  /\ decl \in Jobs \cup {None}
  /\ file \in Records \cup {None}
  /\ jobs \in [Ids -> Natives \cup {None}]
  /\ made \in 0..MaxNative
  /\ sync.rec \in Records \cup {None}
  /\ sync.pc \in {"adding", "added", "updating", "updated", "finish"} =>
       file = sync.rec /\ sync.want \in Settings
  /\ exec.rec \in Records \cup {None}
  /\ ran \in [Gens -> 0..2]

(* However often answers are lost and synchronizations die, and although   *)
(* cron.add may then create a second job, two jobs of one automation are   *)
(* never enabled together: jobs are created disabled, and only the one     *)
(* that the ledger names is enabled, after the listing showed no other.    *)
OneEnabled == Cardinality({j \in Live : jobs[j].is.on}) <= 1

(* A completed one-shot runs again only for another trigger, through edits *)
(* of its payload, removal and return, recovery of pending updates, and    *)
(* completion in the middle of an update.                                  *)
RunsOncePerTrigger == \A g \in Gens : ran[g] <= 1

(* An execution is admitted only for a job that, unless people edit it, is *)
(* still as the ledger records it, while the ledger intends no change of   *)
(* it but of its output limit.                                             *)
AdmitsCurrent ==
  [][Admit =>
       /\ Admissible(file, exec.rec.hash)
       /\ ~tampered => /\ file.id \in Live
                         /\ jobs[file.id].is.job = exec.rec.hash
                         /\ jobs[file.id].fired = "no" => jobs[file.id].is \in Recorded(file)]_vars

Synchronized ==
  IF decl = None
  THEN file = None \/ (file.removed /\ file.pend = None /\ \A j \in Live : ~jobs[j].is.on)
  ELSE /\ file # None /\ ~file.removed /\ file.pend = None /\ file.hash = decl
       /\ file.id \in Live
       /\ jobs[file.id].is = Desired(decl, file, jobs[file.id])

(* Lost answers, deaths at any step and requests that take effect late     *)
(* never strand a synchronization: it ends with the job as declared,       *)
(* unless something happened that the code leaves to an operator.          *)
Converges == <>[](Synchronized \/ upset)
=============================================================================
