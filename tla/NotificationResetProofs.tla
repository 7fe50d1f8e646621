------------------------ MODULE NotificationResetProofs ------------------------
(* Proofs about NotificationReset, for any bounds and settings.                *)
EXTENDS NotificationReset, Integers, TLAPS

-------------------------------------------------------------------------------
(* The types.  A run is in the phase that its step belongs to.                 *)
Runs == [pc : Step \cup {"idle"}, part : Part, prev : BOOLEAN, rev : Nat]

InPhase ==
  /\ run # Idle => op # NoOp
  /\ run.pc \in {"intend", "pause", "paused"} => op.phase = "pause"
  /\ run.pc \in {"clear", "cleared"} => op.phase = "clear"
  /\ run.pc \in {"purge", "archiveChat", "removeTree", "listTree", "dropTree",
                "chatPurged", "treePurged"}
       => op.phase = "purge"
  /\ run.pc \in {"baseline", "baselined"} => op.phase = "baseline"
  /\ run.pc \in {"gate", "turns"} => op.phase \in {"drain", "clear", "purge", "baseline"}
  /\ run.pc \in {"coordinator", "archive", "replace", "create", "retarget", "update", "readback"}
       => op.phase = "coordinator"
  /\ run.pc \in {"restore", "remove"} => op.phase = "restore"

RunType == op \in Record \cup {NoOp} /\ run \in Runs /\ InPhase
WorldType ==
  /\ tracked \in {"work", "empty"} /\ intake \in {"old", "baselined"}
  /\ chat \in Chat /\ tree \in BOOLEAN
  /\ busy \in Flags /\ before \in Flags
  /\ count \in [ops : 0..MaxOps, faults : 0..MaxUpsets, syncs : 0..MaxSyncs]
NativeType ==
  /\ job \in [Part -> [on : BOOLEAN, target : Key, rev : Nat]]
  /\ conv \in [Part -> [Key -> {"absent", "live", "archived"}]]
  /\ binding \in [Part -> [key : Key, ready : BOOLEAN]]
  /\ inflight \subseteq Request
SubmittedType == submitted \in [{"archive", "retarget"} -> [Part -> Nat]]
TypeInv == RunType /\ WorldType /\ NativeType /\ SubmittedType

LateOK == late \in BOOLEAN

LEMMA TypeImplies == TypeInv /\ LateOK => TypeOK
  BY DEF LateOK, TypeInv, RunType, WorldType, NativeType, SubmittedType, InPhase, TypeOK, Runs

LEMMA NoOpAside == NoOp \notin Record
  <1>1. ASSUME NEW rec \in Record
        PROVE  rec.phase # "none"
    BY DEF Record, Phase
  <1> QED BY <1>1 DEF NoOp

LEMMA AtType ==
  ASSUME NEW pc \in Step, NEW p \in Part
  PROVE  /\ At(pc, p) \in Runs
         /\ At(pc, p).pc = pc /\ At(pc, p).part = p
  BY DEF At, Idle, Runs, Part

LEMMA IdleType == Idle \in Runs /\ Idle.pc = "idle"
  BY DEF Idle, Runs, Part

(* The record's changes keep it a record, and what they do not name.          *)
LEMMA PhaseSet ==
  ASSUME NEW rec \in Record, NEW phase \in Phase
  PROVE  /\ [rec EXCEPT !.phase = phase] \in Record
         /\ [rec EXCEPT !.phase = phase].phase = phase
  BY DEF Record

LEMMA ChatSet ==
  ASSUME NEW rec \in Record, NEW state \in Progress
  PROVE  /\ [rec EXCEPT !.chat = state] \in Record
         /\ [rec EXCEPT !.tree = state] \in Record
         /\ [rec EXCEPT !.chat = state].phase = rec.phase
         /\ [rec EXCEPT !.tree = state].phase = rec.phase
  BY DEF Record

LEMMA FlagSet ==
  ASSUME NEW rec \in Record, NEW p \in Part
  PROVE  /\ [rec EXCEPT !.paused[p] = TRUE] \in Record
         /\ [rec EXCEPT !.archived[p] = TRUE] \in Record
         /\ [rec EXCEPT !.updated[p] = TRUE] \in Record
         /\ [rec EXCEPT !.paused[p] = TRUE].phase = rec.phase
         /\ [rec EXCEPT !.archived[p] = TRUE].phase = rec.phase
         /\ [rec EXCEPT !.updated[p] = TRUE].phase = rec.phase
  BY DEF Record, Flags

(* What a native request changes is well formed, carried out or not.          *)
LEMMA CarriedType ==
  ASSUME TypeInv, NEW r \in Request, Carried(r)
  PROVE  /\ job' \in [Part -> [on : BOOLEAN, target : Key, rev : Nat]]
         /\ conv' \in [Part -> [Key -> {"absent", "live", "archived"}]]
         /\ chat' \in Chat
  <1>0. NativeType /\ chat \in Chat
    BY DEF TypeInv, WorldType
  <1>1. CASE r \in [kind : {"toggle"}, part : Part, rev : Nat, on : BOOLEAN]
    <2>1. /\ r.kind = "toggle" /\ r.part \in Part /\ r.on \in BOOLEAN
          /\ job[r.part] \in [on : BOOLEAN, target : Key, rev : Nat]
      BY <1>0, <1>1 DEF NativeType
    <2>2. /\ \/ job' = job
             \/ job' = [job EXCEPT ![r.part] = [on |-> r.on, target |-> job[r.part].target,
                                               rev |-> job[r.part].rev + 1]]
          /\ conv' = conv /\ chat' = chat
      BY <1>0, <2>1 DEF Carried, NativeType
    <2> QED BY <1>0, <2>1, <2>2 DEF NativeType
  <1>2. CASE r \in [kind : {"retarget"}, part : Part, rev : Nat, to : Key]
    <2>1. /\ r.kind = "retarget" /\ r.part \in Part /\ r.to \in Key
          /\ job[r.part] \in [on : BOOLEAN, target : Key, rev : Nat]
      BY <1>0, <1>2 DEF NativeType
    <2>2. /\ job' = job \/ job' = [job EXCEPT ![r.part].target = r.to, ![r.part].rev = @ + 1]
          /\ conv' = conv /\ chat' = chat
      BY <2>1 DEF Carried
    <2> QED BY <1>0, <2>1, <2>2 DEF NativeType
  <1>3. CASE r \in [kind : {"archive", "create"}, part : Part, key : Key]
    <2>1. /\ r.kind = "archive" \/ r.kind = "create"
          /\ r.part \in Part /\ r.key \in Key
      BY <1>3
    <2>2. /\ \/ conv' = [conv EXCEPT ![r.part][r.key] = "archived"]
             \/ conv' = [conv EXCEPT ![r.part][r.key] = "live"]
             \/ conv' = conv
          /\ job' = job /\ chat' = chat
      <3>1. CASE r.kind = "archive" \/ conv[r.part][r.key] = "absent"
        BY <2>1, <3>1 DEF Carried
      <3>2. CASE r.kind = "create" /\ conv[r.part][r.key] # "absent"
        BY <1>0, <2>1, <3>2 DEF Carried, NativeType
      <3> QED BY <2>1, <3>1, <3>2
    <2>3. ASSUME NEW state \in {"absent", "live", "archived"},
                 conv' = [conv EXCEPT ![r.part][r.key] = state]
          PROVE  conv' \in [Part -> [Key -> {"absent", "live", "archived"}]]
      BY <1>0, <2>1, <2>3 DEF NativeType
    <2> QED BY <1>0, <2>1, <2>2, <2>3 DEF NativeType
  <1>4. CASE r \in [kind : {"chat"}, born : Nat]
    BY <1>0, <1>4 DEF Carried, NativeType, Chat
  <1> QED BY <1>1, <1>2, <1>3, <1>4 DEF Request

LEMMA CallType ==
  ASSUME TypeInv, NEW r \in Request, NEW next, Call(r, next),
         tracked' = tracked, intake' = intake, tree' \in BOOLEAN,
         binding' = binding, busy' = busy, before' = before, submitted' = submitted
  PROVE  /\ run' = next \/ run' = Idle
         /\ (WorldType /\ NativeType /\ SubmittedType)'
  <1>1. CASE Carried(r) /\ run' = next /\ UNCHANGED <<inflight, count>>
    BY <1>1, CarriedType DEF TypeInv, WorldType, NativeType, SubmittedType
  <1>2. CASE /\ Upsets < MaxUpsets
             /\ count' = [count EXCEPT !.faults = @ + 1]
             /\ inflight' = inflight \cup {r}
             /\ run' = Idle
             /\ UNCHANGED <<job, conv, chat>>
    BY <1>2, BoundsAssumption DEF TypeInv, WorldType, NativeType, SubmittedType, Upsets
  <1> QED BY <1>1, <1>2 DEF Call

LEMMA LocalType ==
  ASSUME TypeInv, Local, tracked' \in {"work", "empty"}, intake' \in {"old", "baselined"}
  PROVE  (WorldType /\ NativeType /\ SubmittedType)'
  BY DEF TypeInv, Local, purgeable, threads, history, WorldType, NativeType, SubmittedType

(* What stays well formed when the runs are left alone.                       *)
LEMMA RunKept ==
  ASSUME TypeInv, op' = op, run' = run
  PROVE  RunType'
  BY DEF TypeInv, RunType, InPhase

(* A run that stops leaves a well formed record.                              *)
LEMMA Stopped ==
  ASSUME TypeInv, op' \in Record \cup {NoOp}, run' = Idle
  PROVE  RunType'
  BY IdleType DEF RunType, InPhase, Step

(* A run that goes on does so in the phase of its next step.                  *)
PhasesOf(pc) ==
  IF pc \in {"intend", "pause", "paused"} THEN {"pause"}
  ELSE IF pc \in {"gate", "turns"} THEN {"drain", "clear", "purge", "baseline"}
  ELSE IF pc \in {"clear", "cleared"} THEN {"clear"}
  ELSE IF pc \in {"purge", "archiveChat", "removeTree", "listTree", "dropTree", "chatPurged",
                  "treePurged"}
       THEN {"purge"}
  ELSE IF pc \in {"baseline", "baselined"} THEN {"baseline"}
  ELSE IF pc \in {"restore", "remove"} THEN {"restore"}
  ELSE {"coordinator"}
LEMMA GoesOn ==
  ASSUME TypeInv, op' \in Record, run' \in Runs, run'.pc # "idle", op'.phase \in PhasesOf(run'.pc)
  PROVE  RunType'
  BY NoOpAside DEF RunType, InPhase, PhasesOf

(* Whoever is at a step has a record, in the phase of the step.               *)
LEMMA AtWork ==
  ASSUME TypeInv, run.pc # "idle"
  PROVE  op \in Record /\ run.pc \in Step /\ run.part \in Part /\ op.phase \in PhasesOf(run.pc)
  BY IdleType DEF TypeInv, RunType, InPhase, PhasesOf, Runs, Step

LEMMA GateType == ASSUME TypeInv, Gate PROVE TypeInv'
  <1>1. op \in Record /\ op' = op /\ op.phase \in {"drain", "clear", "purge", "baseline"}
    BY AtWork DEF Gate, PhasesOf
  <1>2. (WorldType /\ NativeType /\ SubmittedType)'
    BY LocalType DEF Gate, managed, TypeInv, WorldType
  <1>3. CASE run' = At("turns", "intake")
    BY <1>1, <1>2, <1>3, GoesOn, AtType DEF TypeInv, PhasesOf, Step, Part
  <1>4. CASE run' = Idle
    BY <1>1, <1>2, <1>4, Stopped DEF TypeInv
  <1> QED BY <1>3, <1>4 DEF Gate

LEMMA IntendType == ASSUME TypeInv, Intend PROVE TypeInv'
  <1>1. op \in Record /\ run.part \in Part /\ op.phase = "pause"
    BY AtWork DEF Intend, PhasesOf
  <1>2. (WorldType /\ NativeType /\ SubmittedType)'
    BY LocalType DEF Intend, managed, TypeInv, WorldType
  <1>3. op' \in Record /\ op'.phase = "pause"
    BY <1>1, FlagSet DEF Intend
  <1>4. run' \in Runs /\ run'.pc = "pause"
    BY <1>1 DEF Intend, At, Idle, Runs, Record, Flags, Step
  <1> QED BY <1>2, <1>3, <1>4, GoesOn DEF TypeInv, PhasesOf

LEMMA PauseType == ASSUME TypeInv, Pause PROVE TypeInv'
  <1>1. op \in Record /\ op' = op /\ run.part \in Part /\ op.phase = "pause"
    BY AtWork DEF Pause, PhasesOf, Stop
  <1>2. RunType' \/ (run' # AfterPause /\ run' # Idle)
    <2>1. CASE run' = AfterPause
      BY <1>1, <2>1, GoesOn, AtType DEF AfterPause, PhasesOf, Step, Part
    <2>2. CASE run' = Idle
      BY <1>1, <2>2, Stopped
    <2> QED BY <2>1, <2>2
  <1>3. CASE Local /\ run' \in {AfterPause, Idle}
    BY <1>2, <1>3, LocalType DEF Pause, managed, TypeInv, WorldType
  <1>4. CASE /\ Call([kind |-> "toggle", part |-> run.part, rev |-> job[run.part].rev, on |-> FALSE],
                     AfterPause)
             /\ UNCHANGED <<op, tree, binding, busy, history>>
    <2>1. [kind |-> "toggle", part |-> run.part, rev |-> job[run.part].rev, on |-> FALSE] \in Request
      BY <1>1 DEF Request, TypeInv, NativeType
    <2>2. /\ run' = AfterPause \/ run' = Idle
          /\ (WorldType /\ NativeType /\ SubmittedType)'
      BY <1>4, <2>1, CallType DEF Pause, managed, history, TypeInv, WorldType
    <2> QED BY <1>2, <2>2 DEF TypeInv
  <1> QED BY <1>3, <1>4 DEF Pause, Stop

LEMMA PausedType == ASSUME TypeInv, Paused PROVE TypeInv'
  <1>1. op \in Record
    BY AtWork DEF Paused
  <1>2. (WorldType /\ NativeType /\ SubmittedType)'
    BY LocalType DEF Paused, managed, TypeInv, WorldType
  <1>3. op' \in Record /\ op'.phase = "drain"
    BY <1>1, PhaseSet DEF Paused, Phase
  <1> QED BY <1>2, <1>3, GoesOn, AtType DEF Paused, TypeInv, PhasesOf, Step, Part

LEMMA PreservingType ==
  ASSUME op \in Record
  PROVE  Preserving \in Record /\ Preserving.phase = op.phase
  BY ChatSet DEF Preserving, Progress

LEMMA TurnsType == ASSUME TypeInv, Turns PROVE TypeInv'
  <1>1. op \in Record /\ op.phase \in {"drain", "clear", "purge", "baseline"}
    BY AtWork DEF Turns, PhasesOf
  <1>2. (WorldType /\ NativeType /\ SubmittedType)'
    BY LocalType DEF Turns, managed, TypeInv, WorldType
  <1>3. CASE /\ op' = [Preserving EXCEPT !.phase = IF @ = "drain" THEN "clear" ELSE @]
             /\ run' = At(op'.phase, "intake")
    <2>1. op' \in Record /\ op'.phase \in {"clear", "purge", "baseline"}
      BY <1>1, <1>3, PreservingType DEF Record, Phase
    <2> QED BY <1>2, <1>3, <2>1, GoesOn, AtType DEF TypeInv, PhasesOf, Step, Part
  <1>4. CASE run' = Idle /\ op' \in {op, Preserving}
    BY <1>1, <1>2, <1>4, PreservingType, Stopped DEF TypeInv
  <1> QED BY <1>3, <1>4 DEF Turns, Stop

LEMMA ClearType == ASSUME TypeInv, Clear PROVE TypeInv'
  <1>1. op \in Record /\ op' = op /\ op.phase = "clear"
    BY AtWork DEF Clear, PhasesOf
  <1>2. (WorldType /\ NativeType /\ SubmittedType)'
    BY LocalType DEF Clear, TypeInv, WorldType
  <1> QED BY <1>1, <1>2, GoesOn, AtType DEF Clear, TypeInv, PhasesOf, Step, Part

LEMMA ClearedType == ASSUME TypeInv, Cleared PROVE TypeInv'
  <1>1. op \in Record
    BY AtWork DEF Cleared
  <1>2. (WorldType /\ NativeType /\ SubmittedType)'
    BY LocalType DEF Cleared, managed, TypeInv, WorldType
  <1>3. op' \in Record /\ op'.phase \in {"purge", "baseline"}
    <2>1. op' = [op EXCEPT !.phase = "purge"] \/ op' = [op EXCEPT !.phase = "baseline"]
      BY DEF Cleared
    <2>2. CASE op' = [op EXCEPT !.phase = "purge"]
      BY <1>1, <2>2, PhaseSet DEF Phase
    <2>3. CASE op' = [op EXCEPT !.phase = "baseline"]
      BY <1>1, <2>3, PhaseSet DEF Phase
    <2> QED BY <2>1, <2>2, <2>3
  <1> QED BY <1>2, <1>3, GoesOn, AtType DEF Cleared, TypeInv, PhasesOf, Step, Part

LEMMA PurgeType == ASSUME TypeInv, Purge PROVE TypeInv'
  <1>1. op \in Record /\ op.phase = "purge"
    BY AtWork DEF Purge, PhasesOf
  <1>2. (WorldType /\ NativeType /\ SubmittedType)'
    BY LocalType DEF Purge, managed, TypeInv, WorldType
  <1>3. CASE op' = [op EXCEPT !.chat = "attempted"] /\ run' = At("archiveChat", "intake")
    <2>1. op' \in Record /\ op'.phase = "purge"
      BY <1>1, <1>3, ChatSet DEF Progress
    <2> QED BY <1>2, <1>3, <2>1, GoesOn, AtType DEF TypeInv, PhasesOf, Step, Part
  <1>4. CASE op' = [op EXCEPT !.tree = "attempted"] /\ run' = At("removeTree", "intake")
    <2>1. op' \in Record /\ op'.phase = "purge"
      BY <1>1, <1>4, ChatSet DEF Progress
    <2> QED BY <1>2, <1>4, <2>1, GoesOn, AtType DEF TypeInv, PhasesOf, Step, Part
  <1>5. CASE op' = [op EXCEPT !.phase = "baseline"] /\ run' = At("baseline", "intake")
    <2>1. op' \in Record /\ op'.phase = "baseline"
      BY <1>1, <1>5, PhaseSet DEF Phase
    <2> QED BY <1>2, <1>5, <2>1, GoesOn, AtType DEF TypeInv, PhasesOf, Step, Part
  <1> QED BY <1>3, <1>4, <1>5 DEF Purge

LEMMA ArchiveChatType == ASSUME TypeInv, ArchiveChat PROVE TypeInv'
  <1>1. op \in Record /\ op' = op /\ op.phase = "purge"
    BY AtWork DEF ArchiveChat, PhasesOf, Stop
  <1>2. CASE Local /\ run' \in {Idle, At("chatPurged", "intake")}
    <2>1. (WorldType /\ NativeType /\ SubmittedType)'
      BY <1>2, LocalType DEF ArchiveChat, managed, TypeInv, WorldType
    <2> QED BY <1>1, <1>2, <2>1, Stopped, GoesOn, AtType DEF TypeInv, PhasesOf, Step, Part
  <1>3. CASE /\ Call([kind |-> "chat", born |-> chat.born], At("chatPurged", "intake"))
             /\ UNCHANGED <<op, tree, binding, busy, history>>
    <2>1. [kind |-> "chat", born |-> chat.born] \in Request
      BY DEF Request, TypeInv, WorldType, Chat
    <2>2. /\ run' = At("chatPurged", "intake") \/ run' = Idle
          /\ (WorldType /\ NativeType /\ SubmittedType)'
      BY <1>3, <2>1, CallType DEF ArchiveChat, managed, history, TypeInv, WorldType
    <2> QED BY <1>1, <2>2, Stopped, GoesOn, AtType DEF TypeInv, PhasesOf, Step, Part
  <1> QED BY <1>2, <1>3 DEF ArchiveChat, Stop

LEMMA RemoveTreeType == ASSUME TypeInv, RemoveTree PROVE TypeInv'
  <1>1. op \in Record /\ op.phase = "purge"
    BY AtWork DEF RemoveTree, ObserveTree, ListTree, DropTree, PhasesOf
  <1>2. (WorldType /\ NativeType /\ SubmittedType)'
    <2>1. CASE ObserveTree \/ ListTree
      BY <2>1 DEF ObserveTree, ListTree, managed, purgeable, threads, history, TypeInv, WorldType,
                  NativeType, SubmittedType
    <2>2. CASE DropTree
      BY <2>2 DEF DropTree, managed, threads, history, TypeInv, WorldType, NativeType,
                  SubmittedType
    <2> QED BY <2>1, <2>2 DEF RemoveTree
  <1>3. CASE run' = Idle /\ op' \in {op, Preserving}
    BY <1>1, <1>2, <1>3, PreservingType, Stopped DEF TypeInv
  <1>4. CASE op' = [op EXCEPT !.tree = "preserved"] /\ run' = At("purge", "intake")
    <2>1. op' \in Record /\ op'.phase = "purge"
      BY <1>1, <1>4, ChatSet DEF Progress
    <2> QED BY <1>2, <1>4, <2>1, GoesOn, AtType DEF TypeInv, PhasesOf, Step, Part
  <1>5. CASE op' = op /\ \E pc \in {"listTree", "dropTree", "treePurged"} : run' = At(pc, "intake")
    BY <1>1, <1>2, <1>5, GoesOn, AtType DEF TypeInv, PhasesOf, Step, Part
  <1> QED BY <1>3, <1>4, <1>5 DEF RemoveTree, ObserveTree, ListTree, DropTree, Stop

LEMMA PurgedType == ASSUME TypeInv, Purged PROVE TypeInv'
  <1>1. op \in Record /\ op.phase = "purge"
    BY AtWork DEF Purged, PhasesOf
  <1>2. (WorldType /\ NativeType /\ SubmittedType)'
    BY LocalType DEF Purged, managed, TypeInv, WorldType
  <1>3. op' \in Record /\ op'.phase = "purge"
    BY <1>1, ChatSet DEF Purged, Progress
  <1> QED BY <1>2, <1>3, GoesOn, AtType DEF Purged, TypeInv, PhasesOf, Step, Part

LEMMA BaselineType == ASSUME TypeInv, Baseline PROVE TypeInv'
  <1>1. op \in Record /\ op' = op /\ op.phase = "baseline"
    BY AtWork DEF Baseline, PhasesOf
  <1>2. (WorldType /\ NativeType /\ SubmittedType)'
    BY LocalType DEF Baseline, TypeInv, WorldType
  <1> QED BY <1>1, <1>2, GoesOn, AtType DEF Baseline, TypeInv, PhasesOf, Step, Part

LEMMA BaselinedType == ASSUME TypeInv, Baselined PROVE TypeInv'
  <1>1. op \in Record
    BY AtWork DEF Baselined
  <1>2. (WorldType /\ NativeType /\ SubmittedType)'
    BY LocalType DEF Baselined, managed, TypeInv, WorldType
  <1>3. op' \in Record /\ op'.phase = "coordinator"
    BY <1>1, PhaseSet DEF Baselined, Phase
  <1> QED BY <1>2, <1>3, GoesOn, AtType DEF Baselined, TypeInv, PhasesOf, Step, Part

LEMMA CoordinatorType == ASSUME TypeInv, Coordinator PROVE TypeInv'
  <1>1. op \in Record /\ op.phase = "coordinator"
    BY AtWork DEF Coordinator, PhasesOf
  <1>2. ASSUME submitted' \in [{"archive", "retarget"} -> [Part -> Nat]]
        PROVE  (WorldType /\ NativeType /\ SubmittedType)'
    BY <1>2 DEF Coordinator, managed, Quiet, purgeable, threads, TypeInv, WorldType, NativeType,
                SubmittedType
  <1>3. CASE op' = [op EXCEPT !.phase = "restore"] /\ run' = At("restore", "intake")
             /\ UNCHANGED submitted
    <2>1. op' \in Record /\ op'.phase = "restore"
      BY <1>1, <1>3, PhaseSet DEF Phase
    <2> QED BY <1>2, <1>3, <2>1, GoesOn, AtType DEF TypeInv, SubmittedType, PhasesOf, Step, Part
  <1>4. ASSUME NEW p \in Part, op' = op, submitted' = submitted, run' \in {Idle, At("replace", p)}
        PROVE  TypeInv'
    BY <1>1, <1>2, <1>4, Stopped, GoesOn, AtType DEF TypeInv, SubmittedType, PhasesOf, Step
  <1>5. ASSUME NEW p \in Part, op' = [op EXCEPT !.archived[p] = TRUE], Submit("archive", p),
               run' = At("archive", p)
        PROVE  TypeInv'
    <2>1. op' \in Record /\ op'.phase = "coordinator"
      BY <1>1, <1>5, FlagSet
    <2>2. submitted' \in [{"archive", "retarget"} -> [Part -> Nat]]
      BY <1>5 DEF Submit, TypeInv, SubmittedType
    <2> QED BY <1>2, <1>5, <2>1, <2>2, GoesOn, AtType DEF TypeInv, PhasesOf, Step
  <1> QED BY <1>3, <1>4, <1>5 DEF Coordinator, Stop

LEMMA ArchiveType == ASSUME TypeInv, Archive PROVE TypeInv'
  <1>1. op \in Record /\ op' = op /\ run.part \in Part /\ op.phase = "coordinator"
    BY AtWork DEF Archive, PhasesOf
  <1>2. [kind |-> "archive", part |-> run.part, key |-> op.key[run.part]] \in Request
    BY <1>1 DEF Request, Record
  <1>3. /\ run' = At("replace", run.part) \/ run' = Idle
        /\ (WorldType /\ NativeType /\ SubmittedType)'
    BY <1>2, CallType DEF Archive, managed, history, TypeInv, WorldType
  <1> QED BY <1>1, <1>3, Stopped, GoesOn, AtType DEF TypeInv, PhasesOf, Step, Part

LEMMA ReplaceType == ASSUME TypeInv, Replace PROVE TypeInv'
  <1> DEFINE p == run.part
             here == [At("create", p) EXCEPT !.rev = job[p].rev]
  <1>1. op \in Record /\ op' = op /\ p \in Part /\ op.phase = "coordinator"
    BY AtWork DEF Replace, PhasesOf, Stop
  <1>2. here \in Runs /\ here.pc = "create"
    BY <1>1 DEF At, Idle, Runs, Step, TypeInv, NativeType
  <1>3. run' = Idle \/ run' = here
    BY DEF Replace, Stop
  <1>4. \/ binding' = binding
        \/ Bound(p) \in Key /\ binding' = [binding EXCEPT ![p] = [key |-> Bound(p), ready |-> FALSE]]
    BY DEF Replace
  <1>5. binding' \in [Part -> [key : Key, ready : BOOLEAN]]
    <2>1. CASE binding' = binding
      BY <2>1 DEF TypeInv, NativeType
    <2>2. ASSUME NEW new \in [key : Key, ready : BOOLEAN], binding' = [binding EXCEPT ![p] = new]
          PROVE  binding' \in [Part -> [key : Key, ready : BOOLEAN]]
      BY <1>1, <2>2 DEF TypeInv, NativeType
    <2> QED BY <1>4, <2>1, <2>2
  <1>6. (WorldType /\ NativeType /\ SubmittedType)'
    BY <1>5 DEF Replace, managed, purgeable, history, TypeInv, WorldType, NativeType, SubmittedType
  <1> QED BY <1>1, <1>2, <1>3, <1>6, Stopped, GoesOn DEF TypeInv, PhasesOf

LEMMA CreateType == ASSUME TypeInv, Create PROVE TypeInv'
  <1> DEFINE p == run.part
             key == binding[p].key
  <1>1. op \in Record /\ op' = op /\ p \in Part /\ op.phase = "coordinator" /\ run \in Runs
        /\ run.pc = "create"
    BY AtWork DEF Create, PhasesOf, TypeInv, RunType
  <1>2. binding[p] \in [key : Key, ready : BOOLEAN]
    BY <1>1 DEF TypeInv, NativeType
  <1>3. CASE Call([kind |-> "create", part |-> p, key |-> key], run) /\ binding' = binding
    <2>1. [kind |-> "create", part |-> p, key |-> key] \in Request
      BY <1>1, <1>2 DEF Request
    <2>2. /\ run' = run \/ run' = Idle
          /\ (WorldType /\ NativeType /\ SubmittedType)'
      BY <1>3, <2>1, CallType DEF Create, managed, history, TypeInv, WorldType
    <2> QED BY <1>1, <2>2, Stopped, RunKept DEF TypeInv
  <1>4. CASE /\ binding' = [binding EXCEPT ![p].ready = conv[p][key] = "live"]
             /\ run' = IF conv[p][key] = "live" THEN [run EXCEPT !.pc = "retarget"] ELSE Idle
             /\ UNCHANGED <<op, conv, job, chat, inflight, count>>
    <2>1. binding' \in [Part -> [key : Key, ready : BOOLEAN]]
      BY <1>1, <1>2, <1>4 DEF TypeInv, NativeType
    <2>2. (WorldType /\ NativeType /\ SubmittedType)'
      BY <1>4, <2>1 DEF Create, managed, history, TypeInv, WorldType, NativeType, SubmittedType
    <2>3. [run EXCEPT !.pc = "retarget"] \in Runs /\ [run EXCEPT !.pc = "retarget"].pc = "retarget"
      BY <1>1 DEF Runs, Step
    <2> QED BY <1>1, <1>4, <2>2, <2>3, Stopped, GoesOn DEF TypeInv, PhasesOf
  <1> QED BY <1>3, <1>4 DEF Create

LEMMA RetargetType == ASSUME TypeInv, Retarget PROVE TypeInv'
  <1>1. op \in Record /\ run.part \in Part /\ op.phase = "coordinator" /\ run \in Runs
    BY AtWork DEF Retarget, PhasesOf, TypeInv, RunType
  <1>2. ASSUME submitted' \in [{"archive", "retarget"} -> [Part -> Nat]]
        PROVE  (WorldType /\ NativeType /\ SubmittedType)'
    BY <1>2 DEF Retarget, managed, Quiet, purgeable, threads, TypeInv, WorldType, NativeType,
                SubmittedType
  <1>3. ASSUME NEW pc \in {"readback", "update"}
        PROVE  [run EXCEPT !.pc = pc] \in Runs /\ [run EXCEPT !.pc = pc].pc = pc
    BY <1>1 DEF Runs, Step
  <1>4. CASE op' = op /\ submitted' = submitted /\ run' \in {Idle, [run EXCEPT !.pc = "readback"]}
    BY <1>1, <1>2, <1>3, <1>4, Stopped, GoesOn DEF TypeInv, SubmittedType, PhasesOf
  <1>5. CASE /\ op' = [op EXCEPT !.updated[run.part] = TRUE] /\ Submit("retarget", run.part)
             /\ run' = [run EXCEPT !.pc = "update"]
    <2>1. op' \in Record /\ op'.phase = "coordinator"
      BY <1>1, <1>5, FlagSet
    <2>2. submitted' \in [{"archive", "retarget"} -> [Part -> Nat]]
      BY <1>1, <1>5 DEF Submit, TypeInv, SubmittedType
    <2> QED BY <1>2, <1>3, <1>5, <2>1, <2>2, GoesOn DEF TypeInv, PhasesOf
  <1> QED BY <1>4, <1>5 DEF Retarget, Stop

LEMMA UpdateType == ASSUME TypeInv, Update PROVE TypeInv'
  <1> DEFINE next == [run EXCEPT !.pc = "readback"]
  <1>1. op \in Record /\ op' = op /\ run.part \in Part /\ op.phase = "coordinator" /\ run \in Runs
    BY AtWork DEF Update, PhasesOf, TypeInv, RunType
  <1>2. next \in Runs /\ next.pc = "readback"
    BY <1>1 DEF Runs, Step
  <1>3. binding[run.part] \in [key : Key, ready : BOOLEAN] /\ run.rev \in Nat
    BY <1>1 DEF TypeInv, NativeType, Runs
  <1>4. [kind |-> "retarget", part |-> run.part, rev |-> run.rev, to |-> binding[run.part].key]
          \in Request
    BY <1>1, <1>3 DEF Request
  <1>5. /\ run' = next \/ run' = Idle
        /\ (WorldType /\ NativeType /\ SubmittedType)'
    BY <1>4, CallType DEF Update, managed, history, TypeInv, WorldType
  <1> QED BY <1>1, <1>2, <1>5, Stopped, GoesOn DEF TypeInv, PhasesOf

LEMMA ReadbackType == ASSUME TypeInv, Readback PROVE TypeInv'
  <1>1. op \in Record /\ run.part \in Part /\ op.phase = "coordinator"
    BY AtWork DEF Readback, PhasesOf
  <1>2. (WorldType /\ NativeType /\ SubmittedType)'
    BY LocalType DEF Readback, managed, TypeInv, WorldType
  <1>3. binding[run.part].key \in Key
    BY <1>1 DEF TypeInv, NativeType
  <1>4. \/ op' = op /\ run' = Idle
        \/ /\ op' = [op EXCEPT !.key[run.part] = binding[run.part].key, !.replaced[run.part] = TRUE]
           /\ run' = At("coordinator", "intake")
    BY DEF Readback
  <1>5. op' \in Record /\ op'.phase = "coordinator"
    <2>1. CASE op' = op
      BY <1>1, <2>1
    <2>2. CASE op' = [op EXCEPT !.key[run.part] = binding[run.part].key, !.replaced[run.part] = TRUE]
      BY <1>1, <1>3, <2>2 DEF Record, Flags
    <2> QED BY <1>4, <2>1, <2>2
  <1> QED BY <1>2, <1>4, <1>5, Stopped, GoesOn, AtType DEF TypeInv, PhasesOf, Step, Part

LEMMA RestoreType == ASSUME TypeInv, Restore PROVE TypeInv'
  <1> DEFINE r == [kind |-> "toggle", part |-> run.part, rev |-> job[run.part].rev,
                   on |-> op.setting[run.part]]
  <1>1. op \in Record /\ op' = op /\ run.part \in Part /\ op.phase = "restore"
    BY AtWork DEF Restore, PhasesOf
  <1>2. ASSUME run' = AfterRestore \/ run' = Idle
        PROVE  RunType'
    BY <1>1, <1>2, Stopped, GoesOn, AtType DEF AfterRestore, PhasesOf, Step, Part
  <1>3. CASE Call(r, AfterRestore) /\ UNCHANGED <<tree, binding, busy, history>>
    <2>1. r \in Request
      BY <1>1 DEF Request, TypeInv, NativeType, Record, Flags
    <2>2. /\ run' = AfterRestore \/ run' = Idle
          /\ (WorldType /\ NativeType /\ SubmittedType)'
      BY <1>3, <2>1, CallType DEF Restore, managed, history, TypeInv, WorldType
    <2> QED BY <1>2, <2>2 DEF TypeInv
  <1>4. CASE run' \in {AfterRestore, Idle} /\ Local
    BY <1>2, <1>4, LocalType DEF Restore, managed, TypeInv, WorldType
  <1> QED BY <1>3, <1>4 DEF Restore

LEMMA RemoveType == ASSUME TypeInv, Remove PROVE TypeInv'
  BY LocalType, Stopped DEF Remove, managed, TypeInv, WorldType

LEMMA FoundType ==
  ASSUME TypeInv, NEW fresh \in BOOLEAN, NEW purge \in BOOLEAN
  PROVE  Found(fresh, purge) \in Record /\ Found(fresh, purge).phase = "pause"
  <1>1. /\ [p \in Part |-> job[p].on] \in Flags /\ [p \in Part |-> job[p].target] \in [Part -> Key]
        /\ None \in Flags
    BY DEF TypeInv, NativeType, Flags, None
  <1> QED BY <1>1 DEF Found, Record, Phase, Progress

LEMMA RestartedType ==
  ASSUME op \in Record
  PROVE  /\ Restarted \in Record
         /\ Restarted.archived = op.archived /\ Restarted.updated = op.updated
         /\ Restarted.chat = op.chat /\ Restarted.purge = op.purge
         /\ Restarted.phase = IF op.phase \in {"coordinator", "restore"} THEN op.phase ELSE "pause"
  BY DEF Restarted, Record, Phase

LEMMA StartType ==
  ASSUME TypeInv, NEW fresh \in BOOLEAN, Start(fresh)
  PROVE  TypeInv'
  <1>1. op' \in Record
    BY FoundType, RestartedType DEF Start, TypeInv, RunType
  <1>2. run' \in Runs /\ run'.pc # "idle" /\ op'.phase \in PhasesOf(run'.pc)
    <2>1. op'.phase \in Phase
      BY <1>1 DEF Record
    <2>2. EntryOf(op'.phase) \in Step /\ op'.phase \in PhasesOf(EntryOf(op'.phase))
      BY <2>1 DEF EntryOf, Phase, Step, PhasesOf
    <2> QED BY <2>2, AtType DEF Start, Part, Step
  <1>3. submitted' \in [{"archive", "retarget"} -> [Part -> Nat]]
    BY DEF Start, TypeInv, SubmittedType
  <1>4. count' \in [ops : 0..MaxOps, faults : 0..MaxUpsets, syncs : 0..MaxSyncs]
    BY BoundsAssumption DEF Start, TypeInv, WorldType
  <1>5. (WorldType /\ NativeType /\ SubmittedType)'
    BY <1>3, <1>4 DEF Start, managed, purgeable, threads, TypeInv, WorldType, NativeType,
                      SubmittedType
  <1> QED BY <1>1, <1>2, <1>5, GoesOn DEF TypeInv

LEMMA CrashType == ASSUME TypeInv, Crash PROVE TypeInv'
  <1>1. count' \in [ops : 0..MaxOps, faults : 0..MaxUpsets, syncs : 0..MaxSyncs]
    BY BoundsAssumption DEF Crash, Upsets, TypeInv, WorldType
  <1>2. (WorldType /\ NativeType /\ SubmittedType)'
    BY <1>1 DEF Crash, managed, purgeable, threads, history, TypeInv, WorldType, NativeType,
                SubmittedType
  <1> QED BY <1>2, Stopped DEF Crash, TypeInv, RunType

LEMMA ArriveType == ASSUME TypeInv, Arrive PROVE TypeInv'
  <1>1. PICK r \in inflight : Carried(r) /\ inflight' = inflight \ {r}
    BY DEF Arrive
  <1>2. r \in Request
    BY DEF TypeInv, NativeType
  <1>3. (WorldType /\ NativeType /\ SubmittedType)'
    BY <1>1, <1>2, CarriedType DEF Arrive, managed, history, TypeInv, WorldType, NativeType,
                                   SubmittedType
  <1> QED BY <1>3, RunKept DEF Arrive, TypeInv

LEMMA PassType == ASSUME TypeInv, Pass PROVE TypeInv'
  <1>1. chat' \in Chat
    <2>1. CASE chat' = [chat EXCEPT !.turn = TRUE]
      BY <2>1 DEF TypeInv, WorldType, Chat
    <2>2. CASE chat' = [kind |-> "known", turn |-> TRUE, archived |-> FALSE, born |-> chat.born + 1]
      BY <2>2 DEF TypeInv, WorldType, Chat
    <2> QED BY <2>1, <2>2 DEF Pass
  <1>2. (WorldType /\ NativeType /\ SubmittedType)'
    BY <1>1 DEF Pass, managed, threads, history, TypeInv, WorldType, NativeType, SubmittedType
  <1> QED BY <1>2, RunKept DEF Pass, TypeInv

LEMMA TurnEndsType == ASSUME TypeInv, TurnEnds PROVE TypeInv'
  <1>1. (WorldType /\ NativeType /\ SubmittedType)'
    BY DEF TurnEnds, managed, threads, history, TypeInv, WorldType, NativeType, SubmittedType, Chat
  <1> QED BY <1>1, RunKept DEF TurnEnds, TypeInv

LEMMA SessionAppearsType == ASSUME TypeInv, SessionAppears PROVE TypeInv'
  <1>1. (WorldType /\ NativeType /\ SubmittedType)'
    BY DEF SessionAppears, managed, threads, history, TypeInv, WorldType, NativeType,
           SubmittedType, Chat
  <1> QED BY <1>1, RunKept DEF SessionAppears, TypeInv

LEMMA PartType ==
  ASSUME TypeInv, NEW p \in Part, Fire(p) \/ CoordinatorEnds(p) \/ OperatorPauses(p)
  PROVE  TypeInv'
  <1>1. (WorldType /\ NativeType /\ SubmittedType)'
    <2>1. CASE Fire(p) \/ CoordinatorEnds(p)
      BY <2>1 DEF Fire, CoordinatorEnds, managed, purgeable, threads, history, TypeInv, WorldType,
                  NativeType, SubmittedType, Flags
    <2>2. CASE OperatorPauses(p)
      BY <2>2 DEF OperatorPauses, managed, purgeable, threads, history, TypeInv, WorldType,
                  NativeType, SubmittedType
    <2> QED BY <2>1, <2>2
  <1> QED BY <1>1, RunKept DEF Fire, CoordinatorEnds, OperatorPauses, TypeInv

LEMMA SyncsType == ASSUME TypeInv, OperatorSyncs PROVE TypeInv'
  <1> DEFINE to == [p \in Part |-> Bound(p)]
  <1>1. \A p \in Part : Bound(p) \in Key
    BY DEF OperatorSyncs
  <1>2. binding' \in [Part -> [key : Key, ready : BOOLEAN]]
    BY <1>1 DEF OperatorSyncs
  <1>3. conv' \in [Part -> [Key -> {"absent", "live", "archived"}]]
    BY <1>1 DEF OperatorSyncs, TypeInv, NativeType
  <1>4. job' \in [Part -> [on : BOOLEAN, target : Key, rev : Nat]]
    BY <1>1 DEF OperatorSyncs, TypeInv, NativeType
  <1>5. count' \in [ops : 0..MaxOps, faults : 0..MaxUpsets, syncs : 0..MaxSyncs]
    BY BoundsAssumption DEF OperatorSyncs, Upsets, TypeInv, WorldType
  <1>6. (WorldType /\ NativeType /\ SubmittedType)'
    BY <1>2, <1>3, <1>4, <1>5 DEF OperatorSyncs, managed, purgeable, history, TypeInv, WorldType,
                                  NativeType, SubmittedType
  <1> QED BY <1>6, RunKept DEF OperatorSyncs, TypeInv

LEMMA TypeInit == Init => TypeInv
  <1> SUFFICES ASSUME Init PROVE TypeInv
    OBVIOUS
  <1>1. RunType
    BY IdleType DEF Init, RunType, InPhase, Step
  <1>2. 1 \in Key
    BY BoundsAssumption DEF Key
  <1>3. NativeType
    <2>1. job \in [Part -> [on : BOOLEAN, target : Key, rev : Nat]]
      BY <1>2, BoundsAssumption DEF Init, Part
    <2> QED BY <1>2, <2>1 DEF Init, NativeType
  <1>4. WorldType /\ SubmittedType
    BY <1>3, BoundsAssumption DEF Init, WorldType, SubmittedType, NativeType, Flags, None, Chat
  <1> QED BY <1>1, <1>3, <1>4 DEF TypeInv

LEMMA TypeStep == TypeInv /\ [Next]_vars => TypeInv'
  <1> SUFFICES ASSUME TypeInv, [Next]_vars PROVE TypeInv'
    OBVIOUS
  <1>1. CASE Steps
    BY <1>1, GateType, IntendType, PauseType, PausedType, TurnsType, ClearType, ClearedType,
       PurgeType, ArchiveChatType, RemoveTreeType, PurgedType, BaselineType, BaselinedType,
       CoordinatorType, ArchiveType, ReplaceType, CreateType, RetargetType, UpdateType,
       ReadbackType, RestoreType, RemoveType DEF Steps
  <1>2. CASE \E fresh \in BOOLEAN : Start(fresh)
    BY <1>2, StartType
  <1>3. CASE Crash \/ Arrive \/ Pass \/ TurnEnds \/ SessionAppears \/ OperatorSyncs
    BY <1>3, CrashType, ArriveType, PassType, TurnEndsType, SessionAppearsType, SyncsType
  <1>4. CASE \E p \in Part : Fire(p) \/ CoordinatorEnds(p) \/ OperatorPauses(p)
    BY <1>4, PartType
  <1>5. CASE UNCHANGED vars
    BY <1>5 DEF vars, managed, purgeable, threads, history, TypeInv, RunType, InPhase, WorldType,
                NativeType, SubmittedType
  <1> QED BY <1>1, <1>2, <1>3, <1>4, <1>5 DEF Next

(* Only two steps are about a session that turns up.                          *)
LEMMA LateSteps ==
  ASSUME [Next]_vars
  PROVE  late' = late \/ ListTree \/ SessionAppears
  <1>1. CASE Gate \/ Intend \/ Paused \/ Turns \/ Clear \/ Cleared \/ Purge \/ ObserveTree
               \/ DropTree \/ Purged \/ Baseline \/ Baselined \/ Readback \/ Remove
    BY <1>1 DEF Gate, Intend, Paused, Turns, Clear, Cleared, Purge, ObserveTree, DropTree, Purged,
                Baseline, Baselined, Readback, Remove, Local, history
  <1>2. CASE Coordinator \/ Replace \/ Retarget
    BY <1>2 DEF Coordinator, Replace, Retarget, Quiet, history
  <1>3. CASE Pause \/ ArchiveChat \/ Archive \/ Create \/ Update \/ Restore
    BY <1>3 DEF Pause, ArchiveChat, Archive, Create, Update, Restore, Local, history
  <1>4. CASE \E fresh \in BOOLEAN : Start(fresh)
    BY <1>4 DEF Start
  <1>5. CASE Crash \/ Arrive \/ Pass \/ TurnEnds \/ OperatorSyncs \/ UNCHANGED vars
    BY <1>5 DEF Crash, Arrive, Pass, TurnEnds, OperatorSyncs, vars, history
  <1>6. CASE \E p \in Part : Fire(p) \/ CoordinatorEnds(p) \/ OperatorPauses(p)
    BY <1>6 DEF Fire, CoordinatorEnds, OperatorPauses, history
  <1> QED BY <1>1, <1>2, <1>3, <1>4, <1>5, <1>6 DEF Next, Steps, RemoveTree

LEMMA LateType == LateOK /\ [Next]_vars => LateOK'
  BY LateSteps DEF LateOK, ListTree, SessionAppears

(* The state keeps its shape, for any bounds.                                 *)
THEOREM WellFormed == Spec => []TypeOK
  <1>1. Init => LateOK
    BY DEF Init, LateOK
  <1> QED BY <1>1, LateType, TypeInit, TypeStep, TypeImplies, PTL DEF Spec

-------------------------------------------------------------------------------
(* What was submitted is noted in the record, which forbids to submit it again. *)
Noted ==
  op # NoOp => \A p \in Part : /\ submitted.archive[p] = 1 => op.archived[p]
                               /\ submitted.retarget[p] = 1 => op.updated[p]
OnceInv == ActionsOnce /\ Noted

LEMMA OnceKept ==
  ASSUME OnceInv, submitted' = submitted,
         op' = NoOp \/ (op # NoOp /\ op'.archived = op.archived /\ op'.updated = op.updated)
  PROVE  OnceInv'
  BY DEF OnceInv, ActionsOnce, Noted

(* The steps of a run that change other parts of the record.                  *)
LEMMA OnceRecord ==
  ASSUME TypeInv, OnceInv,
         Intend \/ Paused \/ Turns \/ Cleared \/ Purge \/ RemoveTree \/ Purged \/ Baselined
           \/ Readback
  PROVE  OnceInv'
  <1>1. op \in Record /\ op # NoOp
    BY AtWork, NoOpAside DEF Intend, Paused, Turns, Cleared, Purge, RemoveTree, ObserveTree,
                             ListTree, DropTree, Purged, Baselined,
                             Readback
  <1>2. submitted' = submitted
    BY DEF Intend, Paused, Turns, Cleared, Purge, RemoveTree, ObserveTree, ListTree, DropTree,
           Purged, Baselined, Readback, Local,
           history
  <1>3. Preserving.archived = op.archived /\ Preserving.updated = op.updated
        /\ Preserving \in Record
    BY <1>1, PreservingType DEF Preserving, Record
  <1>4. op'.archived = op.archived /\ op'.updated = op.updated
    <2>1. CASE Intend \/ Paused \/ Cleared
      BY <1>1, <2>1 DEF Intend, Paused, Cleared, Record
    <2>2. CASE Turns
      BY <1>1, <1>3, <2>2 DEF Turns, Stop, Record
    <2>3. CASE Purge \/ Purged \/ Baselined
      BY <1>1, <2>3 DEF Purge, Purged, Baselined, Record
    <2>4. CASE RemoveTree
      BY <1>1, <1>3, <2>4 DEF RemoveTree, ObserveTree, ListTree, DropTree, Stop, Record
    <2>5. CASE Readback
      BY <1>1, <2>5 DEF Readback, Record
    <2> QED BY <2>1, <2>2, <2>3, <2>4, <2>5
  <1> QED BY <1>1, <1>2, <1>4, OnceKept

(* The two steps that submit.                                                 *)
LEMMA OnceCoordinator ==
  ASSUME TypeInv, OnceInv, Coordinator
  PROVE  OnceInv'
  <1>1. op \in Record /\ op # NoOp
    BY AtWork, NoOpAside DEF Coordinator
  <1>2. CASE submitted' = submitted /\ (op' = op \/ op' = [op EXCEPT !.phase = "restore"])
    <2>1. op'.archived = op.archived /\ op'.updated = op.updated
      BY <1>1, <1>2 DEF Record
    <2> QED BY <1>1, <1>2, <2>1, OnceKept
  <1>3. ASSUME NEW p \in Part, ~op.archived[p], op' = [op EXCEPT !.archived[p] = TRUE],
               Submit("archive", p)
        PROVE  OnceInv'
    <2>1. /\ submitted'.archive = [submitted.archive EXCEPT ![p] = @ + 1]
          /\ submitted'.retarget = submitted.retarget
          /\ submitted.archive \in [Part -> Nat]
      BY <1>3 DEF Submit, TypeInv, SubmittedType
    <2>2. op'.archived = [op.archived EXCEPT ![p] = TRUE] /\ op'.updated = op.updated
      BY <1>1, <1>3 DEF Record
    <2>3. op.archived \in [Part -> BOOLEAN]
      BY <1>1 DEF Record, Flags
    <2>4. submitted.archive[p] = 0
      BY <1>1, <1>3, <2>1 DEF OnceInv, ActionsOnce, Noted
    <2> QED BY <1>1, <2>1, <2>2, <2>3, <2>4 DEF OnceInv, ActionsOnce, Noted
  <1> QED BY <1>2, <1>3 DEF Coordinator, Stop

LEMMA OnceRetarget ==
  ASSUME TypeInv, OnceInv, Retarget
  PROVE  OnceInv'
  <1> DEFINE p == run.part
  <1>1. op \in Record /\ op # NoOp /\ p \in Part
    BY AtWork, NoOpAside DEF Retarget
  <1>2. CASE submitted' = submitted /\ op' = op
    BY <1>1, <1>2, OnceKept
  <1>3. CASE ~op.updated[p] /\ op' = [op EXCEPT !.updated[p] = TRUE] /\ Submit("retarget", p)
    <2>1. /\ submitted'.retarget = [submitted.retarget EXCEPT ![p] = @ + 1]
          /\ submitted'.archive = submitted.archive
          /\ submitted.retarget \in [Part -> Nat]
      BY <1>3 DEF Submit, TypeInv, SubmittedType
    <2>2. op'.updated = [op.updated EXCEPT ![p] = TRUE] /\ op'.archived = op.archived
      BY <1>1, <1>3 DEF Record
    <2>3. op.updated \in [Part -> BOOLEAN]
      BY <1>1 DEF Record, Flags
    <2>4. submitted.retarget[p] = 0
      BY <1>1, <1>3, <2>1 DEF OnceInv, ActionsOnce, Noted
    <2> QED BY <1>1, <2>1, <2>2, <2>3, <2>4 DEF OnceInv, ActionsOnce, Noted
  <1> QED BY <1>2, <1>3 DEF Retarget, Stop

LEMMA OnceStart ==
  ASSUME TypeInv, OnceInv, NEW fresh \in BOOLEAN, Start(fresh)
  PROVE  OnceInv'
  <1>1. CASE submitted' = [kind \in DOMAIN submitted |-> [p \in Part |-> 0]]
    BY <1>1 DEF OnceInv, ActionsOnce, Noted, TypeInv, SubmittedType
  <1>2. CASE op # NoOp /\ op' \in {op, Restarted} /\ submitted' = submitted
    <2>1. op'.archived = op.archived /\ op'.updated = op.updated
      BY <1>2, RestartedType DEF TypeInv, RunType
    <2> QED BY <1>2, <2>1, OnceKept
  <1> QED BY <1>1, <1>2 DEF Start

LEMMA OnceInit == Init => OnceInv
  BY DEF Init, OnceInv, ActionsOnce, Noted, Part

LEMMA OnceStep == TypeInv /\ OnceInv /\ [Next]_vars => OnceInv'
  <1> SUFFICES ASSUME TypeInv, OnceInv, [Next]_vars PROVE OnceInv'
    OBVIOUS
  <1>1. ASSUME op' \in {op, NoOp}, submitted' = submitted
        PROVE  OnceInv'
    BY <1>1, OnceKept DEF OnceInv, ActionsOnce, Noted
  <1>2. CASE Intend \/ Paused \/ Turns \/ Cleared \/ Purge \/ RemoveTree \/ Purged \/ Baselined
               \/ Readback
    BY <1>2, OnceRecord
  <1>3. CASE Coordinator \/ Retarget
    BY <1>3, OnceCoordinator, OnceRetarget
  <1>4. CASE Gate \/ Pause \/ Clear \/ ArchiveChat \/ Baseline
    <2>1. op' = op /\ submitted' = submitted
      BY <1>4 DEF Gate, Pause, Clear, ArchiveChat, Baseline, Stop, Local, history
    <2> QED BY <1>1, <2>1
  <1>5. CASE Archive \/ Replace \/ Create \/ Update \/ Restore \/ Remove
    <2>1. op' \in {op, NoOp} /\ submitted' = submitted
      BY <1>5 DEF Archive, Replace, Create, Update, Restore, Remove, Stop, Local, history
    <2> QED BY <1>1, <2>1
  <1>6. CASE \E fresh \in BOOLEAN : Start(fresh)
    BY <1>6, OnceStart
  <1>7. CASE Crash \/ Arrive \/ Pass \/ TurnEnds \/ SessionAppears \/ OperatorSyncs
    <2>1. op' = op /\ submitted' = submitted
      BY <1>7 DEF Crash, Arrive, Pass, TurnEnds, SessionAppears, OperatorSyncs, history
    <2> QED BY <1>1, <2>1
  <1>8. CASE \E p \in Part : Fire(p) \/ CoordinatorEnds(p) \/ OperatorPauses(p)
    <2>1. op' = op /\ submitted' = submitted
      BY <1>8 DEF Fire, CoordinatorEnds, OperatorPauses, history
    <2> QED BY <1>1, <2>1
  <1>9. CASE UNCHANGED vars
    BY <1>1, <1>9 DEF vars
  <1> QED BY <1>2, <1>3, <1>4, <1>5, <1>6, <1>7, <1>8, <1>9 DEF Next, Steps

(* However often a reset is repeated, restarted fresh or interrupted, it      *)
(* archives each coordinator and reconnects each schedule at most once.       *)
THEOREM NothingTwice == Spec => []ActionsOnce
  <1>1. OnceInv => ActionsOnce
    BY DEF OnceInv
  <1> QED BY <1>1, TypeInit, TypeStep, OnceInit, OnceStep, PTL DEF Spec

-------------------------------------------------------------------------------
(* A request to archive the conversation that is still to come was sent when   *)
(* it had no turn.  None begins as long as a reset is retained, and the record *)
(* is not given up before the conversation is known to be archived.            *)
Beyond == {"baseline", "coordinator", "restore"}
Purging == op # NoOp /\ (~op.purge \/ op.phase \in Beyond) => ~Unpurged(op.chat)
Noting == run.pc = "archiveChat" => op.chat = "attempted"
Seen == run.pc = "chatPurged" => chat.archived
Quieted == ~chat.turn /\ op # NoOp /\ op.chat = "attempted"
Late == \A r \in inflight :
          r.kind = "chat" => /\ r.born <= chat.born
                             /\ r.born = chat.born /\ ~chat.archived => Quieted
PurgeInv == Purging /\ Noting /\ Seen /\ Late

(* No request to archive the conversation is added.                           *)
NoneSent == \A r \in inflight' : r.kind = "chat" => r \in inflight

LEMMA LateKept ==
  ASSUME Late, NoneSent, chat'.born = chat.born, chat.archived => chat'.archived,
         chat'.turn => chat.turn,
         op # NoOp /\ op.chat = "attempted" => op' # NoOp /\ op'.chat = "attempted"
  PROVE  Late'
  BY DEF Late, Quieted, NoneSent

LEMMA OtherCall ==
  ASSUME NEW r \in Request, r.kind # "chat", NEW next, Call(r, next)
  PROVE  chat' = chat /\ NoneSent /\ (run' = next \/ run' = Idle)
  <1>1. CASE Carried(r) /\ run' = next /\ UNCHANGED <<inflight, count>>
    <2>1. r.kind \in {"toggle", "retarget", "archive", "create"}
      BY DEF Request
    <2> QED BY <1>1, <2>1 DEF Carried, NoneSent
  <1>2. CASE inflight' = inflight \cup {r} /\ run' = Idle /\ UNCHANGED <<job, conv, chat>>
    BY <1>2 DEF NoneSent
  <1> QED BY <1>1, <1>2 DEF Call

(* The steps that leave the conversation and its requests alone, and what of  *)
(* the record is about it.                                                    *)
LEMMA PurgeKept ==
  ASSUME TypeInv, PurgeInv, chat' = chat, NoneSent,
         \/ op' = NoOp /\ op # NoOp /\ op.phase = "restore"
         \/ op' = op
         \/ /\ op # NoOp /\ op' # NoOp /\ op'.chat = op.chat /\ op'.purge = op.purge
            /\ op'.phase \in Beyond => ~op.purge \/ op.phase \in Beyond,
         run' = run \/ run'.pc \notin {"archiveChat", "chatPurged"}
  PROVE  PurgeInv'
  <1>1. Purging'
    BY DEF PurgeInv, Purging, Unpurged, Beyond
  <1>2. Noting'
    <2>1. CASE run' = run /\ run.pc = "archiveChat"
      <3>1. op \in Record /\ op.phase = "purge"
        BY <2>1, AtWork DEF PhasesOf
      <3> QED BY <2>1, <3>1, NoOpAside DEF PurgeInv, Noting
    <2> QED BY <2>1 DEF Noting
  <1>3. Seen'
    BY DEF PurgeInv, Seen
  <1>4. op # NoOp /\ op.chat = "attempted" => op' # NoOp /\ op'.chat = "attempted"
    BY DEF PurgeInv, Purging, Unpurged, Beyond
  <1>5. Late'
    BY <1>4, LateKept DEF PurgeInv
  <1> QED BY <1>1, <1>2, <1>3, <1>5 DEF PurgeInv

LEMMA PcAt ==
  ASSUME NEW pc, NEW p
  PROVE  At(pc, p).pc = pc
  BY DEF At, Idle

(* Gate, Clear, Baseline, Replace: the record stays.                          *)
LEMMA PurgeSameRecord ==
  ASSUME TypeInv, PurgeInv, Gate \/ Clear \/ Baseline \/ Replace
  PROVE  PurgeInv'
  <1>1. op' = op /\ chat' = chat /\ inflight' = inflight
    BY DEF Gate, Clear, Baseline, Replace, Local, purgeable, Stop
  <1>2. run'.pc \notin {"archiveChat", "chatPurged"}
    <2>1. CASE Gate
      BY <2>1, PcAt, IdleType DEF Gate
    <2>2. CASE Clear
      BY <2>2, PcAt DEF Clear
    <2>3. CASE Baseline
      BY <2>3, PcAt DEF Baseline
    <2>4. CASE Replace
      BY <2>4, IdleType DEF Replace, Stop, At, Idle
    <2> QED BY <2>1, <2>2, <2>3, <2>4
  <1> QED BY <1>1, <1>2, PurgeKept DEF NoneSent

(* The requests that are not about the conversation.                          *)
LEMMA OtherCalls ==
  ASSUME TypeInv, Pause \/ Archive \/ Create \/ Update \/ Restore
  PROVE  op' = op /\ chat' = chat /\ NoneSent /\ run'.pc \notin {"archiveChat", "chatPurged"}
  <1>0. op \in Record /\ run.part \in Part /\ run \in Runs
    BY AtWork DEF Pause, Archive, Create, Update, Restore, TypeInv, RunType
  <1>1. op' = op
    BY DEF Pause, Archive, Create, Update, Restore, Stop, Local
  <1>3. /\ AfterPause.pc \notin {"archiveChat", "chatPurged"}
        /\ AfterRestore.pc \notin {"archiveChat", "chatPurged"}
    BY PcAt DEF AfterPause, AfterRestore
  <1>4. /\ job[run.part] \in [on : BOOLEAN, target : Key, rev : Nat]
        /\ binding[run.part] \in [key : Key, ready : BOOLEAN]
    BY <1>0 DEF TypeInv, NativeType
  <1>5. CASE Pause
    <2>1. CASE Local /\ run' \in {AfterPause, Idle}
      BY <1>1, <1>3, <2>1, IdleType DEF Local, purgeable, NoneSent
    <2>2. CASE Call([kind |-> "toggle", part |-> run.part, rev |-> job[run.part].rev,
                     on |-> FALSE], AfterPause)
      <3>1. [kind |-> "toggle", part |-> run.part, rev |-> job[run.part].rev, on |-> FALSE]
              \in Request
        BY <1>0, <1>4 DEF Request
      <3> QED BY <1>1, <1>3, <2>2, <3>1, OtherCall, IdleType
    <2> QED BY <1>5, <2>1, <2>2 DEF Pause, Stop
  <1>6. CASE Archive
    <2>1. [kind |-> "archive", part |-> run.part, key |-> op.key[run.part]] \in Request
      BY <1>0 DEF Request, Record
    <2> QED BY <1>1, <1>6, <2>1, OtherCall, IdleType, PcAt DEF Archive
  <1>7. CASE Create
    <2>1. CASE Call([kind |-> "create", part |-> run.part, key |-> binding[run.part].key], run)
      <3>1. [kind |-> "create", part |-> run.part, key |-> binding[run.part].key] \in Request
        BY <1>0, <1>4 DEF Request
      <3>2. run.pc = "create"
        BY <1>7 DEF Create
      <3> QED BY <1>1, <2>1, <3>1, <3>2, OtherCall, IdleType
    <2>2. CASE /\ run' = IF conv[run.part][binding[run.part].key] = "live"
                         THEN [run EXCEPT !.pc = "retarget"] ELSE Idle
               /\ UNCHANGED <<chat, inflight>>
      BY <1>1, <1>0, <2>2, IdleType DEF NoneSent, Runs
    <2> QED BY <1>7, <2>1, <2>2 DEF Create
  <1>8. CASE Update
    <2>1. run.rev \in Nat
      BY <1>0 DEF Runs
    <2>2. [kind |-> "retarget", part |-> run.part, rev |-> run.rev, to |-> binding[run.part].key]
            \in Request
      BY <1>0, <1>4, <2>1 DEF Request
    <2>3. [run EXCEPT !.pc = "readback"].pc = "readback"
      BY <1>0 DEF Runs
    <2> QED BY <1>1, <1>8, <2>2, <2>3, OtherCall, IdleType DEF Update
  <1>9. CASE Restore
    <2>1. CASE Call([kind |-> "toggle", part |-> run.part, rev |-> job[run.part].rev,
                     on |-> op.setting[run.part]], AfterRestore)
      <3>1. [kind |-> "toggle", part |-> run.part, rev |-> job[run.part].rev,
             on |-> op.setting[run.part]] \in Request
        BY <1>0, <1>4 DEF Request, Record, Flags
      <3> QED BY <1>1, <1>3, <2>1, <3>1, OtherCall, IdleType
    <2>2. CASE Local /\ run' \in {AfterRestore, Idle}
      BY <1>1, <1>3, <2>2, IdleType DEF Local, purgeable, NoneSent
    <2> QED BY <1>9, <2>1, <2>2 DEF Restore
  <1> QED BY <1>1, <1>5, <1>6, <1>7, <1>8, <1>9

LEMMA PurgeOtherCall ==
  ASSUME TypeInv, PurgeInv, Pause \/ Archive \/ Create \/ Update \/ Restore
  PROVE  PurgeInv'
  BY OtherCalls, PurgeKept

(* The steps that change something else in the record.                        *)
LEMMA PurgeOtherField ==
  ASSUME TypeInv, PurgeInv,
         Intend \/ Paused \/ Turns \/ Cleared \/ RemoveTree \/ Baselined \/ Coordinator
           \/ Retarget \/ Readback \/ Remove
  PROVE  PurgeInv'
  <1>1. op \in Record /\ op # NoOp /\ run \in Runs /\ op.phase \in PhasesOf(run.pc)
    BY AtWork, NoOpAside DEF Intend, Paused, Turns, Cleared, RemoveTree, ObserveTree, ListTree,
                             DropTree, Baselined, Coordinator,
                             Retarget, Readback, Remove, TypeInv, RunType
  <1>2. chat' = chat /\ NoneSent
    BY DEF Intend, Paused, Turns, Cleared, RemoveTree, ObserveTree, ListTree, DropTree, Baselined,
           Coordinator, Retarget, Readback,
           Remove, Local, Quiet, purgeable, NoneSent
  <1>3. ASSUME op' # NoOp, op'.chat = op.chat, op'.purge = op.purge,
               op'.phase \in Beyond => ~op.purge \/ op.phase \in Beyond,
               run'.pc \notin {"archiveChat", "chatPurged"}
        PROVE  PurgeInv'
    BY <1>1, <1>2, <1>3, PurgeKept
  <1>4. /\ Preserving \in Record /\ Preserving.chat = op.chat /\ Preserving.purge = op.purge
        /\ Preserving.phase = op.phase /\ Preserving # NoOp
    BY <1>1, PreservingType, NoOpAside DEF Preserving, Record
  <1>5. CASE Intend
    <2>1. /\ op' \in Record /\ op'.chat = op.chat /\ op'.purge = op.purge /\ op'.phase = op.phase
          /\ run'.pc = "pause"
      <3>1. run.part \in Part
        BY <1>1 DEF Runs
      <3>2. op' \in Record
        BY <1>1, <1>5, <3>1, FlagSet DEF Intend
      <3> QED BY <1>1, <1>5, <3>2 DEF Intend, Record, At, Idle
    <2> QED BY <1>3, <2>1, NoOpAside
  <1>6. CASE Paused
    <2>1. op' # NoOp /\ op'.chat = op.chat /\ op'.purge = op.purge /\ op'.phase = "drain"
      <3>1. op' = [op EXCEPT !.phase = "drain"] /\ "drain" \in Phase
        BY <1>6 DEF Paused, Phase
      <3>2. op' \in Record /\ op'.phase = "drain"
        BY <1>1, <3>1, PhaseSet
      <3> QED BY <1>1, <3>1, <3>2, NoOpAside DEF Record
    <2> QED BY <1>3, <1>6, <2>1, PcAt DEF Paused, Beyond
  <1>7. CASE Turns
    <2>1. CASE /\ op' = [Preserving EXCEPT !.phase = IF @ = "drain" THEN "clear" ELSE @]
               /\ run' = At(op'.phase, "intake")
      <3>1. op.phase \in {"drain", "clear", "purge", "baseline"}
        BY <1>1, <1>7 DEF Turns, PhasesOf
      <3>2. /\ op' \in Record /\ op'.chat = op.chat /\ op'.purge = op.purge
            /\ op'.phase = IF op.phase = "drain" THEN "clear" ELSE op.phase
        BY <1>4, <2>1, <3>1 DEF Record, Phase
      <3> QED BY <1>3, <2>1, <3>1, <3>2, PcAt, NoOpAside DEF Beyond
    <2>2. CASE op' \in {op, Preserving} /\ run' = Idle
      BY <1>1, <1>3, <1>4, <2>2, IdleType
    <2> QED BY <1>7, <2>1, <2>2 DEF Turns, Stop
  <1>8. CASE Cleared
    <2>1. op' # NoOp /\ op'.chat = op.chat /\ op'.purge = op.purge
          /\ op'.phase = IF op.purge THEN "purge" ELSE "baseline"
      BY <1>1, <1>8 DEF Cleared, Record, NoOp
    <2> QED BY <1>3, <1>8, <2>1, PcAt DEF Cleared, Beyond
  <1>9. CASE RemoveTree
    <2>1. CASE /\ op' \in {op, Preserving}
               /\ \/ run' = Idle
                  \/ \E pc \in {"listTree", "dropTree", "treePurged"} : run' = At(pc, "intake")
      BY <1>1, <1>3, <1>4, <2>1, IdleType, PcAt
    <2>2. CASE op' = [op EXCEPT !.tree = "preserved"] /\ run' = At("purge", "intake")
      <3>1. /\ op' \in Record /\ op'.chat = op.chat /\ op'.purge = op.purge
            /\ op'.phase = op.phase
        <4>1. op' \in Record /\ op'.phase = op.phase
          BY <1>1, <2>2, ChatSet DEF Progress
        <4> QED BY <1>1, <2>2, <4>1 DEF Record
      <3> QED BY <1>3, <2>2, <3>1, PcAt, NoOpAside
    <2> QED BY <1>9, <2>1, <2>2 DEF RemoveTree, ObserveTree, ListTree, DropTree, Stop
  <1>10. CASE Baselined
    <2>1. op' # NoOp /\ op'.chat = op.chat /\ op'.purge = op.purge
      BY <1>1, <1>10 DEF Baselined, Record, NoOp
    <2>2. op.phase = "baseline"
      BY <1>1, <1>10 DEF Baselined, PhasesOf
    <2> QED BY <1>3, <1>10, <2>1, <2>2, PcAt DEF Baselined, Beyond
  <1>11. CASE Coordinator
    <2>1. op.phase = "coordinator"
      BY <1>1, <1>11 DEF Coordinator, PhasesOf
    <2>2. op' # NoOp /\ op'.chat = op.chat /\ op'.purge = op.purge
      BY <1>1, <1>11 DEF Coordinator, Stop, Record, NoOp
    <2>3. run'.pc \notin {"archiveChat", "chatPurged"}
      BY <1>11, PcAt, IdleType DEF Coordinator, Stop
    <2> QED BY <1>3, <2>1, <2>2, <2>3 DEF Beyond
  <1>12. CASE Retarget
    <2>1. op.phase = "coordinator"
      BY <1>1, <1>12 DEF Retarget, PhasesOf
    <2>2. op' # NoOp /\ op'.chat = op.chat /\ op'.purge = op.purge
      BY <1>1, <1>12 DEF Retarget, Stop, Record, NoOp
    <2>3. run'.pc \notin {"archiveChat", "chatPurged"}
      BY <1>1, <1>12, IdleType DEF Retarget, Stop, Runs
    <2> QED BY <1>3, <2>1, <2>2, <2>3 DEF Beyond
  <1>13. CASE Readback
    <2>1. op.phase = "coordinator"
      BY <1>1, <1>13 DEF Readback, PhasesOf
    <2>2. op' # NoOp /\ op'.chat = op.chat /\ op'.purge = op.purge
      BY <1>1, <1>13 DEF Readback, Record, NoOp
    <2>3. run'.pc \notin {"archiveChat", "chatPurged"}
      BY <1>13, PcAt, IdleType DEF Readback
    <2> QED BY <1>3, <2>1, <2>2, <2>3 DEF Beyond
  <1>14. CASE Remove
    <2>1. op.phase = "restore" /\ op' = NoOp /\ run'.pc = "idle"
      BY <1>1, <1>14, IdleType DEF Remove, PhasesOf
    <2> QED BY <1>1, <1>2, <2>1, PurgeKept
  <1> QED BY <1>5, <1>6, <1>7, <1>8, <1>9, <1>10, <1>11, <1>12, <1>13, <1>14

(* The archiving itself.                                                      *)
LEMMA PurgePurge == ASSUME TypeInv, PurgeInv, Purge PROVE PurgeInv'
  <1>1. op \in Record /\ op # NoOp /\ op.phase = "purge"
    BY AtWork, NoOpAside DEF Purge, PhasesOf
  <1>2. chat' = chat /\ NoneSent
    BY DEF Purge, Local, purgeable, NoneSent
  <1>3. CASE /\ Unpurged(op.chat) /\ op' = [op EXCEPT !.chat = "attempted"]
             /\ run' = At("archiveChat", "intake")
    <2>1. op' \in Record /\ op'.phase = "purge" /\ op'.chat = "attempted" /\ op'.purge = op.purge
      <3>1. op' \in Record /\ op'.phase = op.phase
        BY <1>1, <1>3, ChatSet DEF Progress
      <3> QED BY <1>1, <1>3, <3>1 DEF Record
    <2>2. Late'
      BY <1>2, <2>1, LateKept, NoOpAside DEF PurgeInv
    <2>3. Purging'
      BY <1>1, <1>3, <2>1 DEF PurgeInv, Purging, Beyond
    <2> QED BY <1>3, <2>1, <2>2, <2>3, PcAt DEF PurgeInv, Noting, Seen
  <1>4. CASE /\ ~Unpurged(op.chat) /\ op' = [op EXCEPT !.tree = "attempted"]
             /\ run' = At("removeTree", "intake")
    <2>1. op' \in Record /\ op'.phase = op.phase
      BY <1>1, <1>4, ChatSet DEF Progress
    <2>2. op'.chat = op.chat /\ op'.purge = op.purge
      BY <1>1, <1>4 DEF Record
    <2>3. run'.pc = "removeTree"
      BY <1>4, PcAt
    <2> QED BY <1>1, <1>2, <2>1, <2>2, <2>3, PurgeKept, NoOpAside
  <1>5. CASE /\ ~Unpurged(op.chat) /\ op' = [op EXCEPT !.phase = "baseline"]
             /\ run' = At("baseline", "intake")
    <2>1. op' # NoOp /\ op'.chat = op.chat
      BY <1>1, <1>5 DEF Record, NoOp
    <2>2. Late'
      BY <1>2, <2>1, LateKept DEF PurgeInv
    <2>3. Purging'
      BY <1>5, <2>1 DEF Purging
    <2> QED BY <1>5, <2>2, <2>3, PcAt DEF PurgeInv, Noting, Seen
  <1> QED BY <1>3, <1>4, <1>5 DEF Purge

LEMMA PurgeArchiveChat == ASSUME TypeInv, PurgeInv, ArchiveChat PROVE PurgeInv'
  <1> DEFINE r == [kind |-> "chat", born |-> chat.born]
  <1>1. op \in Record /\ op # NoOp /\ op' = op /\ op.chat = "attempted"
    BY AtWork, NoOpAside DEF ArchiveChat, Stop, PurgeInv, Noting
  <1>2. Purging'
    BY <1>1 DEF PurgeInv, Purging
  <1>3. CASE Local /\ run' = Idle
    BY <1>1, <1>3, PurgeKept, IdleType DEF Local, purgeable, NoneSent
  <1>4. CASE Local /\ chat.archived /\ run' = At("chatPurged", "intake")
    <2>1. Late'
      BY <1>1, <1>4, LateKept DEF Local, purgeable, NoneSent, PurgeInv
    <2> QED BY <1>2, <1>4, <2>1, PcAt DEF Local, purgeable, PurgeInv, Noting, Seen
  <1>5. CASE ~Active /\ ~chat.archived /\ Carried(r) /\ run' = At("chatPurged", "intake")
               /\ UNCHANGED <<inflight, count>>
    <2>1. chat' = [chat EXCEPT !.archived = TRUE]
      BY <1>5 DEF Carried
    <2>2. chat'.archived /\ chat'.born = chat.born /\ chat'.turn = chat.turn
      BY <2>1 DEF TypeInv, WorldType, Chat
    <2>3. Late'
      BY <1>1, <1>5, <2>2, LateKept DEF NoneSent, PurgeInv
    <2> QED BY <1>2, <1>5, <2>2, <2>3, PcAt DEF PurgeInv, Noting, Seen
  <1>6. CASE ~Active /\ ~chat.archived /\ inflight' = inflight \cup {r} /\ run' = Idle
               /\ UNCHANGED <<job, conv, chat>>
    <2>1. Quieted' /\ chat.born \in Nat
      BY <1>1, <1>6 DEF Active, Quieted, TypeInv, WorldType, Chat
    <2>2. Late'
      BY <1>6, <2>1 DEF PurgeInv, Late
    <2> QED BY <1>2, <1>6, <2>2, IdleType DEF PurgeInv, Noting, Seen
  <1> QED BY <1>3, <1>4, <1>5, <1>6 DEF ArchiveChat, Call, Stop

LEMMA PurgePurged == ASSUME TypeInv, PurgeInv, Purged PROVE PurgeInv'
  <1>1. op \in Record /\ op # NoOp /\ op.phase = "purge"
    BY AtWork, NoOpAside DEF Purged, PhasesOf
  <1>2. chat' = chat /\ inflight' = inflight /\ NoneSent /\ run'.pc = "purge"
    BY PcAt DEF Purged, Local, purgeable, NoneSent
  <1>3. CASE run.pc = "chatPurged" /\ op' = [op EXCEPT !.chat = "done"]
    <2>1. op' # NoOp /\ op'.chat = "done"
      <3>1. op' \in Record
        BY <1>1, <1>3, ChatSet DEF Progress
      <3> QED BY <1>1, <1>3, <3>1, NoOpAside DEF Record
    <2>2. chat.archived
      BY <1>3 DEF PurgeInv, Seen
    <2>3. Late'
      BY <1>2, <2>2 DEF PurgeInv, Late
    <2> QED BY <1>2, <2>1, <2>3 DEF PurgeInv, Purging, Unpurged, Noting, Seen
  <1>4. CASE op' = [op EXCEPT !.tree = "done"]
    <2>1. op' \in Record /\ op'.phase = op.phase
      BY <1>1, <1>4, ChatSet DEF Progress
    <2>2. op'.chat = op.chat /\ op'.purge = op.purge
      BY <1>1, <1>4 DEF Record
    <2> QED BY <1>1, <1>2, <2>1, <2>2, PurgeKept, NoOpAside
  <1> QED BY <1>3, <1>4 DEF Purged

LEMMA PurgeStart ==
  ASSUME TypeInv, PurgeInv, NEW fresh \in BOOLEAN, Start(fresh)
  PROVE  PurgeInv'
  <1>1. chat' = chat /\ NoneSent
    BY DEF Start, purgeable, NoneSent
  <1>2. run'.pc \notin {"archiveChat", "chatPurged"}
    <2>1. EntryOf(op'.phase) \notin {"archiveChat", "chatPurged"} \/ op'.phase \notin Phase
      BY DEF EntryOf, Phase
    <2>2. op'.phase \in Phase
      BY FoundType, RestartedType DEF Start, TypeInv, RunType, Record
    <2> QED BY <2>1, <2>2, PcAt DEF Start
  <1>3. ASSUME op = NoOp, NEW purge \in BOOLEAN, op' = Found(fresh, purge)
        PROVE  PurgeInv'
    <2>1. Purging'
      BY <1>3 DEF Purging, Found, Beyond, Unpurged
    <2>2. Late'
      BY <1>1, <1>3, LateKept DEF PurgeInv
    <2> QED BY <1>2, <2>1, <2>2 DEF PurgeInv, Noting, Seen
  <1>4. CASE op # NoOp /\ op' = op
    BY <1>1, <1>2, <1>4, PurgeKept
  <1>5. CASE op # NoOp /\ op' = Restarted
    BY <1>1, <1>2, <1>5, PurgeKept, RestartedType, NoOpAside DEF TypeInv, RunType, Beyond
  <1> QED BY <1>3, <1>4, <1>5 DEF Start

LEMMA PurgeArrive == ASSUME TypeInv, PurgeInv, Arrive PROVE PurgeInv'
  <1>1. PICK r \in inflight : Carried(r) /\ inflight' = inflight \ {r}
    BY DEF Arrive
  <1>2. r.kind \in {"toggle", "retarget", "archive", "create", "chat"}
    BY DEF TypeInv, NativeType, Request
  <1>3. chat'.born = chat.born /\ (chat.archived => chat'.archived) /\ chat'.turn = chat.turn
    <2>1. CASE r.kind = "chat"
      BY <1>1, <2>1 DEF Carried, TypeInv, WorldType, Chat
    <2>2. CASE r.kind # "chat"
      BY <1>1, <1>2, <2>2 DEF Carried
    <2> QED BY <2>1, <2>2
  <1>4. Late'
    BY <1>1, <1>3, LateKept DEF Arrive, NoneSent, PurgeInv
  <1> QED BY <1>3, <1>4 DEF Arrive, PurgeInv, Purging, Noting, Seen

(* A turn only begins while no reset is retained.                             *)
LEMMA PurgePass == ASSUME TypeInv, PurgeInv, Pass PROVE PurgeInv'
  <1>1. op = NoOp /\ op' = op /\ run' = run /\ inflight' = inflight
    BY DEF Pass
  <1>2. run.pc \notin {"archiveChat", "chatPurged"}
    <2>1. run = Idle
      BY <1>1 DEF TypeInv, RunType, InPhase
    <2> QED BY <2>1, IdleType
  <1>3. Late'
    <2>1. CASE chat' = [chat EXCEPT !.turn = TRUE]
      <3>1. chat'.born = chat.born /\ chat'.archived = chat.archived
        BY <2>1 DEF TypeInv, WorldType, Chat
      <3> QED BY <1>1, <3>1 DEF PurgeInv, Late, Quieted
    <2>2. CASE chat' = [kind |-> "known", turn |-> TRUE, archived |-> FALSE, born |-> chat.born + 1]
      <3>1. chat'.born = chat.born + 1 /\ chat.born \in Nat
        BY <2>2 DEF TypeInv, WorldType, Chat
      <3>2. \A r \in inflight : r.kind = "chat" => r.born \in Nat
        BY DEF TypeInv, NativeType, Request
      <3> QED BY <1>1, <3>1, <3>2 DEF PurgeInv, Late
    <2> QED BY <2>1, <2>2 DEF Pass
  <1> QED BY <1>1, <1>2, <1>3 DEF PurgeInv, Purging, Noting, Seen

LEMMA PurgeOther ==
  ASSUME TypeInv, PurgeInv,
         \/ Crash \/ TurnEnds \/ SessionAppears \/ OperatorSyncs \/ UNCHANGED vars
         \/ \E p \in Part : Fire(p) \/ CoordinatorEnds(p) \/ OperatorPauses(p)
  PROVE  PurgeInv'
  <1>1. CASE TurnEnds \/ SessionAppears
    <2>1. chat'.born = chat.born /\ chat'.archived = chat.archived /\ (chat'.turn => chat.turn)
      BY <1>1 DEF TurnEnds, SessionAppears, TypeInv, WorldType, Chat
    <2>2. op' = op /\ run' = run /\ inflight' = inflight
      BY <1>1 DEF TurnEnds, SessionAppears
    <2>3. Late'
      BY <2>1, <2>2, LateKept DEF NoneSent, PurgeInv
    <2> QED BY <2>1, <2>2, <2>3 DEF PurgeInv, Purging, Noting, Seen
  <1>2. CASE Crash
    BY <1>2, PurgeKept, IdleType DEF Crash, purgeable, NoneSent
  <1>3. CASE OperatorSyncs \/ UNCHANGED vars
    BY <1>3, PurgeKept DEF OperatorSyncs, vars, purgeable, NoneSent
  <1>4. CASE \E p \in Part : Fire(p) \/ CoordinatorEnds(p) \/ OperatorPauses(p)
    BY <1>4, PurgeKept DEF Fire, CoordinatorEnds, OperatorPauses, purgeable, NoneSent
  <1> QED BY <1>1, <1>2, <1>3, <1>4

LEMMA PurgeInit == Init => PurgeInv
  BY IdleType DEF Init, PurgeInv, Purging, Noting, Seen, Late

LEMMA PurgeStep == TypeInv /\ PurgeInv /\ [Next]_vars => PurgeInv'
  <1> SUFFICES ASSUME TypeInv, PurgeInv, [Next]_vars PROVE PurgeInv'
    OBVIOUS
  <1>1. CASE Steps
    BY <1>1, PurgeSameRecord, PurgeOtherCall, PurgeOtherField, PurgePurge, PurgeArchiveChat,
       PurgePurged DEF Steps
  <1>2. CASE \E fresh \in BOOLEAN : Start(fresh)
    BY <1>2, PurgeStart
  <1> QED BY <1>1, <1>2, PurgeArrive, PurgePass, PurgeOther DEF Next

-------------------------------------------------------------------------------
(* What may archive the conversation and remove the checkout.                 *)
CutsNone ==
  /\ chat.turn /\ chat.born = chat'.born => ~chat'.archived \/ chat.archived
  /\ tree /\ ~tree' => ~chat.turn /\ (chat.kind = "found" => late)

LEMMA ArchivesQuiet ==
  ASSUME TypeInv, PurgeInv, NEW r \in Request, Carried(r),
         r.kind = "chat" /\ r.born = chat.born /\ ~chat.archived => ~chat.turn
  PROVE  chat.turn => ~chat'.archived \/ chat.archived
  <1>1. CASE r.kind = "chat"
    BY <1>1 DEF Carried, TypeInv, WorldType, Chat
  <1>2. CASE r.kind # "chat"
    <2>1. r.kind \in {"toggle", "retarget", "archive", "create"}
      BY <1>2 DEF Request
    <2> QED BY <2>1 DEF Carried
  <1> QED BY <1>1, <1>2

(* A run that is about to remove the checkout has seen no turn, and listed no  *)
(* session that is not known; one may have appeared since.                     *)
Removing == {"listTree", "dropTree"}
CutInv ==
  /\ run.pc \in Removing => ~chat.turn
  /\ run.pc = "dropTree" /\ chat.kind = "found" => late

LEMMA CutInit == Init => CutInv
  BY IdleType DEF Init, CutInv, Removing

LEMMA CutNext == TypeInv /\ TypeInv' /\ CutInv /\ [Next]_vars => CutInv'
  <1> SUFFICES ASSUME TypeInv, TypeInv', CutInv, [Next]_vars PROVE CutInv'
    OBVIOUS
  <1>1. ASSUME run'.pc \notin Removing PROVE CutInv'
    BY <1>1 DEF CutInv, Removing
  <1>2. ASSUME run' = run, late' = late, chat'.kind = chat.kind, chat'.turn => chat.turn
        PROVE  CutInv'
    BY <1>2 DEF CutInv
  <1>3. ASSUME run' = At(op'.phase, "intake"), run.pc # "idle" PROVE CutInv'
    <2>1. run'.pc = op'.phase
      BY <1>3, PcAt
    <2>2. op'.phase \in Phase \cup {"none"}
      BY DEF TypeInv, RunType, Record, NoOp
    <2> QED BY <1>1, <2>1, <2>2 DEF Phase, Removing
  <1>4. CASE Gate \/ Intend \/ Paused \/ Clear \/ Purge \/ Purged \/ Baseline \/ Baselined
               \/ Remove \/ Crash
    <2>1. run'.pc \notin Removing
      <3>1. CASE Gate \/ Paused \/ Clear \/ Purged
        BY <3>1, PcAt, IdleType DEF Gate, Paused, Clear, Purged, Removing
      <3>2. CASE Intend
        BY <3>2 DEF Intend, At, Idle, Removing
      <3>3. CASE Purge
        BY <3>3, PcAt DEF Purge, Removing
      <3>4. CASE Baseline \/ Baselined \/ Remove \/ Crash
        BY <3>4, PcAt, IdleType DEF Baseline, Baselined, Remove, Crash, Removing
      <3> QED BY <1>4, <3>1, <3>2, <3>3, <3>4
    <2> QED BY <1>1, <2>1
  <1>5. CASE Turns \/ Cleared
    BY <1>1, <1>3, <1>5, IdleType DEF Turns, Cleared, Stop, Removing
  <1>6. CASE ObserveTree
    <2>1. CASE run' = At("listTree", "intake") /\ ~Active
      <3>1. run'.pc = "listTree" /\ ~chat.turn /\ chat' = chat
        BY <1>6, <2>1, PcAt DEF Active, ObserveTree, purgeable
      <3> QED BY <3>1 DEF CutInv
    <2> QED BY <1>1, <1>6, <2>1, PcAt, IdleType DEF ObserveTree, Stop, Removing
  <1>7. CASE ListTree
    <2>1. CASE run' = At("dropTree", "intake") /\ chat.kind # "found"
      <3>1. run'.pc = "dropTree" /\ run.pc = "listTree" /\ chat' = chat
        BY <1>7, <2>1, PcAt DEF ListTree, purgeable
      <3> QED BY <2>1, <3>1 DEF CutInv, Removing
    <2> QED BY <1>1, <1>7, <2>1, PcAt, IdleType DEF ListTree, Removing
  <1>8. CASE DropTree
    BY <1>1, <1>8, PcAt DEF DropTree, Removing
  <1>9. CASE Pause \/ ArchiveChat \/ Archive \/ Create \/ Update \/ Restore
    <2>1. run'.pc \notin Removing
      <3>1. CASE Pause
        BY <3>1, PcAt, IdleType DEF Pause, AfterPause, Call, Stop, Removing
      <3>2. CASE ArchiveChat \/ Archive
        BY <3>2, PcAt, IdleType DEF ArchiveChat, Archive, Call, Stop, Removing
      <3>3. CASE Create \/ Update
        BY <3>3, IdleType DEF Create, Update, Call, Removing, TypeInv, RunType, Runs
      <3>4. CASE Restore
        BY <3>4, PcAt, IdleType DEF Restore, AfterRestore, Call, Removing
      <3> QED BY <1>9, <3>1, <3>2, <3>3, <3>4
    <2> QED BY <1>1, <2>1
  <1>10. CASE Coordinator \/ Replace \/ Retarget \/ Readback
    <2>1. run'.pc \notin Removing
      <3>1. CASE Coordinator
        BY <3>1, PcAt, IdleType DEF Coordinator, Stop, Removing
      <3>2. CASE Replace
        BY <3>2, IdleType DEF Replace, Stop, Removing, At, Idle
      <3>3. CASE Retarget
        BY <3>3, IdleType DEF Retarget, Stop, Removing, TypeInv, RunType, Runs
      <3>4. CASE Readback
        BY <3>4, PcAt, IdleType DEF Readback, Removing
      <3> QED BY <1>10, <3>1, <3>2, <3>3, <3>4
    <2> QED BY <1>1, <2>1
  <1>11. CASE \E fresh \in BOOLEAN : Start(fresh)
    <2>1. run' = At(EntryOf(op'.phase), "intake")
      BY <1>11 DEF Start
    <2>2. EntryOf(op'.phase) \in {"intend", "coordinator", "restore", "gate"}
      BY DEF EntryOf
    <2> QED BY <1>1, <2>1, <2>2, PcAt DEF Removing
  <1>12. CASE Arrive
    <2>1. chat'.kind = chat.kind /\ chat'.turn = chat.turn
      <3>1. PICK r \in inflight : Carried(r)
        BY <1>12 DEF Arrive
      <3>2. r.kind \in {"toggle", "retarget", "archive", "create", "chat"}
        BY DEF TypeInv, NativeType, Request
      <3> QED BY <3>1, <3>2 DEF Carried, TypeInv, WorldType, Chat
    <2> QED BY <1>2, <1>12, <2>1 DEF Arrive, history
  <1>13. CASE Pass
    <2>1. run = Idle /\ run' = run
      BY <1>13 DEF Pass, TypeInv, RunType, InPhase
    <2> QED BY <1>1, <2>1, IdleType DEF Removing
  <1>14. CASE TurnEnds
    BY <1>2, <1>14 DEF TurnEnds, history, TypeInv, WorldType, Chat
  <1>15. CASE SessionAppears
    <2>1. run' = run /\ chat'.turn = chat.turn /\ late' = (run.pc = "dropTree")
      BY <1>15 DEF SessionAppears, TypeInv, WorldType, Chat
    <2> QED BY <2>1 DEF CutInv
  <1>16. CASE OperatorSyncs \/ UNCHANGED vars
    BY <1>2, <1>16 DEF OperatorSyncs, vars, history, purgeable
  <1>17. CASE \E p \in Part : Fire(p) \/ CoordinatorEnds(p) \/ OperatorPauses(p)
    BY <1>2, <1>17 DEF Fire, CoordinatorEnds, OperatorPauses, history, purgeable
  <1> QED
    BY <1>4, <1>5, <1>6, <1>7, <1>8, <1>9, <1>10, <1>11, <1>12, <1>13, <1>14, <1>15, <1>16, <1>17
    DEF Next, Steps, RemoveTree

LEMMA CutsStep == TypeInv /\ PurgeInv /\ CutInv /\ [Next]_vars => CutsNone
  <1> SUFFICES ASSUME TypeInv, PurgeInv, CutInv, [Next]_vars PROVE CutsNone
    OBVIOUS
  <1>1. ASSUME chat' = chat \/ chat' = [chat EXCEPT !.turn = FALSE]
                 \/ chat' = [chat EXCEPT !.kind = "found"],
               tree' = tree
        PROVE  CutsNone
    BY <1>1 DEF CutsNone, TypeInv, WorldType, Chat
  <1>2. CASE Gate \/ Intend \/ Paused \/ Turns \/ Clear \/ Cleared \/ Purge \/ Purged \/ Baseline
               \/ Baselined \/ Readback \/ Remove
    BY <1>1, <1>2 DEF Gate, Intend, Paused, Turns, Clear, Cleared, Purge, Purged, Baseline,
                      Baselined, Readback, Remove, Local, purgeable
  <1>3. CASE Coordinator \/ Replace \/ Retarget
    BY <1>1, <1>3 DEF Coordinator, Replace, Retarget, Quiet, purgeable
  <1>4. CASE Pause \/ Archive \/ Create \/ Update \/ Restore
    <2>1. chat' = chat
      BY <1>4, OtherCalls
    <2>2. tree' = tree
      BY <1>4 DEF Pause, Archive, Create, Update, Restore, Local, purgeable
    <2> QED BY <1>1, <2>1, <2>2
  <1>5. CASE ArchiveChat
    <2>1. CASE Local
      BY <1>1, <2>1 DEF Local, purgeable
    <2>2. CASE ~Active /\ tree' = tree
      BY <2>2 DEF CutsNone, Active
    <2> QED BY <1>5, <2>1, <2>2 DEF ArchiveChat
  <1>6. CASE ObserveTree \/ ListTree
    BY <1>1, <1>6 DEF ObserveTree, ListTree, purgeable
  <1>12. CASE DropTree
    BY <1>12 DEF DropTree, CutsNone, CutInv, Removing
  <1>7. CASE \E fresh \in BOOLEAN : Start(fresh)
    BY <1>1, <1>7 DEF Start, purgeable
  <1>8. CASE Arrive
    <2>1. PICK r \in inflight : Carried(r)
      BY <1>8 DEF Arrive
    <2>2. chat.turn => ~chat'.archived \/ chat.archived
      BY <2>1, ArchivesQuiet DEF TypeInv, NativeType, PurgeInv, Late, Quieted
    <2> QED BY <1>8, <2>2 DEF Arrive, CutsNone
  <1>9. CASE Pass
    <2>1. tree /\ ~tree' => FALSE
      BY <1>9 DEF Pass
    <2>2. chat' = [chat EXCEPT !.turn = TRUE] => chat'.archived = chat.archived
      BY DEF TypeInv, WorldType, Chat
    <2>3. chat' = [chat EXCEPT !.turn = TRUE] \/ ~chat'.archived
      BY <1>9 DEF Pass
    <2> QED BY <2>1, <2>2, <2>3 DEF CutsNone
  <1>10. CASE Crash \/ TurnEnds \/ SessionAppears \/ OperatorSyncs \/ UNCHANGED vars
    BY <1>1, <1>10 DEF Crash, TurnEnds, SessionAppears, OperatorSyncs, vars, purgeable
  <1>11. CASE \E p \in Part : Fire(p) \/ CoordinatorEnds(p) \/ OperatorPauses(p)
    BY <1>1, <1>11 DEF Fire, CoordinatorEnds, OperatorPauses, purgeable
  <1> QED BY <1>2, <1>3, <1>4, <1>5, <1>6, <1>7, <1>8, <1>9, <1>10, <1>11, <1>12
    DEF Next, Steps, RemoveTree

(* No reset, interrupted or repeated however often, archives a conversation   *)
(* in the middle of its turn, or removes a checkout under one or under a      *)
(* session that turned up unknown before the run that removes it had listed   *)
(* the sessions; nor does a request that is carried out after its run is      *)
(* gone, even after its reset is over.                                        *)
THEOREM NothingCutOff == Spec => CutsNothingOff
  <1>1. TypeInv /\ PurgeInv /\ CutInv /\ [Next]_vars => [CutsNone]_<<chat, tree>>
    BY CutsStep
  <1>2. Spec => [][CutsNone]_<<chat, tree>>
    BY <1>1, TypeInit, TypeStep, PurgeInit, PurgeStep, CutInit, CutNext, PTL DEF Spec
  <1> QED BY <1>2 DEF CutsNothingOff, CutsNone

-------------------------------------------------------------------------------
(* Up to the baseline a run changes only how far its record came, and nothing *)
(* of the schedules and their conversations but to pause them.                *)
Early == {"pause", "drain", "clear", "purge", "baseline"}
NativeSame == UNCHANGED <<job, threads, inflight, before, count>>
EarlyPlaces == {"idle", "pause", "turns", "clear", "purge", "baseline", "archiveChat",
                "removeTree", "listTree", "dropTree", "treePurged"}

LEMMA Preserved ==
  ASSUME op \in Record
  PROVE  /\ Preserving \in Record /\ Preserving.phase = op.phase
         /\ Preserving.key = op.key /\ Preserving.replaced = op.replaced
         /\ Preserving.setting = op.setting
  BY PreservingType DEF Preserving, Record

LEMMA EarlySteps ==
  ASSUME TypeInv, Intend \/ Paused \/ Turns \/ Cleared \/ Purge \/ RemoveTree \/ Purged
  PROVE  /\ op \in Record /\ op.phase \in Early
         /\ op' \in Record /\ op'.phase \in Early
         /\ op'.key = op.key /\ op'.replaced = op.replaced /\ op'.setting = op.setting
         /\ UNCHANGED managed /\ NativeSame
         /\ run'.pc \in EarlyPlaces
  <1>1. op \in Record /\ op.phase \in PhasesOf(run.pc)
    BY AtWork DEF Intend, Paused, Turns, Cleared, Purge, RemoveTree, ObserveTree, ListTree,
                  DropTree, Purged
  <1>2. op.phase \in Early
    BY <1>1 DEF Intend, Paused, Turns, Cleared, Purge, RemoveTree, ObserveTree, ListTree, DropTree,
                Purged, PhasesOf, Early
  <1>3. UNCHANGED managed /\ NativeSame
    BY DEF Intend, Paused, Turns, Cleared, Purge, RemoveTree, ObserveTree, ListTree, DropTree,
           Purged, Local, history, managed,
           NativeSame
  <1>4. op' \in Record /\ op'.phase \in Early /\ run'.pc \in EarlyPlaces
          /\ op'.key = op.key /\ op'.replaced = op.replaced /\ op'.setting = op.setting
    <2>1. CASE Intend
      <3>1. run.part \in Part
        BY <2>1, AtWork DEF Intend
      <3>2. op' \in Record /\ op'.phase = op.phase
        BY <1>1, <2>1, <3>1, FlagSet DEF Intend
      <3>3. op'.key = op.key /\ op'.replaced = op.replaced /\ op'.setting = op.setting
        BY <1>1, <2>1 DEF Intend, Record
      <3>4. run'.pc = "pause"
        BY <2>1 DEF Intend, At, Idle
      <3> QED BY <1>2, <3>2, <3>3, <3>4 DEF EarlyPlaces
    <2>2. CASE Paused
      <3>1. op' \in Record /\ op'.phase = "drain"
        BY <1>1, <2>2, PhaseSet DEF Paused, Phase
      <3>2. op'.key = op.key /\ op'.replaced = op.replaced /\ op'.setting = op.setting
        BY <1>1, <2>2 DEF Paused, Record
      <3> QED BY <2>2, <3>1, <3>2, PcAt DEF Paused, Early, EarlyPlaces
    <2>3. CASE Turns
      <3>1. CASE /\ op' = [Preserving EXCEPT !.phase = IF @ = "drain" THEN "clear" ELSE @]
                 /\ run' = At(op'.phase, "intake")
        <4>1. op.phase \in {"drain", "clear", "purge", "baseline"}
          BY <1>1, <2>3 DEF Turns, PhasesOf
        <4>2. op' \in Record /\ op'.phase = IF op.phase = "drain" THEN "clear" ELSE op.phase
          BY <1>1, <3>1, <4>1, Preserved DEF Record, Phase
        <4>3. op'.key = op.key /\ op'.replaced = op.replaced /\ op'.setting = op.setting
          BY <1>1, <3>1, Preserved DEF Record
        <4> QED BY <3>1, <4>1, <4>2, <4>3, PcAt DEF Early, EarlyPlaces
      <3>2. CASE op' \in {op, Preserving} /\ run' = Idle
        BY <1>1, <1>2, <3>2, Preserved, IdleType DEF EarlyPlaces
      <3> QED BY <2>3, <3>1, <3>2 DEF Turns, Stop
    <2>4. CASE Cleared
      <3>1. CASE op.purge
        <4>1. op' = [op EXCEPT !.phase = "purge"]
          BY <2>4, <3>1 DEF Cleared
        <4>2. op' \in Record /\ op'.phase = "purge"
          BY <1>1, <4>1, PhaseSet DEF Phase
        <4>3. op'.key = op.key /\ op'.replaced = op.replaced /\ op'.setting = op.setting
          BY <1>1, <4>1 DEF Record
        <4> QED BY <2>4, <4>2, <4>3, PcAt DEF Cleared, Early, EarlyPlaces
      <3>2. CASE ~op.purge
        <4>1. op' = [op EXCEPT !.phase = "baseline"]
          BY <2>4, <3>2 DEF Cleared
        <4>2. op' \in Record /\ op'.phase = "baseline"
          BY <1>1, <4>1, PhaseSet DEF Phase
        <4>3. op'.key = op.key /\ op'.replaced = op.replaced /\ op'.setting = op.setting
          BY <1>1, <4>1 DEF Record
        <4> QED BY <2>4, <4>2, <4>3, PcAt DEF Cleared, Early, EarlyPlaces
      <3> QED BY <3>1, <3>2
    <2>5. ASSUME NEW state \in Progress, op' = [op EXCEPT !.chat = state]
                                           \/ op' = [op EXCEPT !.tree = state]
          PROVE  /\ op' \in Record /\ op'.phase = op.phase
                 /\ op'.key = op.key /\ op'.replaced = op.replaced /\ op'.setting = op.setting
      BY <1>1, <2>5, ChatSet DEF Record
    <2>6. CASE Purge
      <3>1. CASE op' = [op EXCEPT !.chat = "attempted"] /\ run' = At("archiveChat", "intake")
        BY <1>2, <2>5, <3>1, PcAt DEF EarlyPlaces, Progress
      <3>2. CASE op' = [op EXCEPT !.tree = "attempted"] /\ run' = At("removeTree", "intake")
        BY <1>2, <2>5, <3>2, PcAt DEF EarlyPlaces, Progress
      <3>3. CASE op' = [op EXCEPT !.phase = "baseline"] /\ run' = At("baseline", "intake")
        <4>1. op' \in Record /\ op'.phase = "baseline"
          BY <1>1, <3>3, PhaseSet DEF Phase
        <4>2. op'.key = op.key /\ op'.replaced = op.replaced /\ op'.setting = op.setting
          BY <1>1, <3>3 DEF Record
        <4> QED BY <3>3, <4>1, <4>2, PcAt DEF Early, EarlyPlaces
      <3> QED BY <2>6, <3>1, <3>2, <3>3 DEF Purge
    <2>7. CASE RemoveTree
      <3>1. CASE /\ op' \in {op, Preserving}
                 /\ \/ run' = Idle
                    \/ \E pc \in {"listTree", "dropTree", "treePurged"} : run' = At(pc, "intake")
        BY <1>1, <1>2, <3>1, Preserved, IdleType, PcAt DEF EarlyPlaces
      <3>2. CASE op' = [op EXCEPT !.tree = "preserved"] /\ run' = At("purge", "intake")
        BY <1>2, <2>5, <3>2, PcAt DEF EarlyPlaces, Progress
      <3> QED BY <2>7, <3>1, <3>2 DEF RemoveTree, ObserveTree, ListTree, DropTree, Stop
    <2>8. CASE Purged
      <3>1. run' = At("purge", "intake")
        BY <2>8 DEF Purged
      <3>2. CASE op' = [op EXCEPT !.chat = "done"]
        BY <1>2, <2>5, <3>1, <3>2, PcAt DEF EarlyPlaces, Progress
      <3>3. CASE op' = [op EXCEPT !.tree = "done"]
        BY <1>2, <2>5, <3>1, <3>3, PcAt DEF EarlyPlaces, Progress
      <3> QED BY <2>8, <3>2, <3>3 DEF Purged
    <2> QED BY <2>1, <2>2, <2>3, <2>4, <2>6, <2>7, <2>8
  <1> QED BY <1>1, <1>2, <1>3, <1>4

-------------------------------------------------------------------------------
(* An empty journal is one whose intake has a baseline, once its reset is over. *)
Based ==
  /\ op = NoOp /\ tracked = "empty" => intake = "baselined"
  /\ op # NoOp /\ op.phase \in {"coordinator", "restore"} => intake = "baselined"
  /\ run.pc = "baselined" => intake = "baselined"

LEMMA BasedKept ==
  ASSUME Based, tracked' = tracked, intake' = intake,
         op' = NoOp => op = NoOp,
         op' # NoOp /\ op'.phase \in {"coordinator", "restore"}
           => op # NoOp /\ op.phase \in {"coordinator", "restore"},
         run'.pc = "baselined" => run.pc = "baselined"
  PROVE  Based'
  BY DEF Based

LEMMA BasedStep == TypeInv /\ Based /\ [Next]_vars => Based'
  <1> SUFFICES ASSUME TypeInv, Based, [Next]_vars PROVE Based'
    OBVIOUS
  <1>1. ASSUME UNCHANGED managed, op' = op, run' = run \/ run'.pc # "baselined"
        PROVE  Based'
    BY <1>1, BasedKept DEF managed
  <1>2. CASE Gate \/ Pause \/ ArchiveChat
    <2>1. /\ UNCHANGED managed /\ op' = op
          /\ run' \in {Idle, At("turns", "intake"), AfterPause, At("chatPurged", "intake")}
      BY <1>2 DEF Gate, Pause, ArchiveChat, Stop, Call
    <2> QED BY <1>1, <2>1, PcAt, IdleType DEF AfterPause
  <1>3. CASE Intend \/ Paused \/ Turns \/ Cleared \/ Purge \/ RemoveTree \/ Purged
    BY <1>3, EarlySteps, BasedKept, NoOpAside DEF managed, Early, EarlyPlaces
  <1>4. CASE Clear
    <2>1. op # NoOp /\ op' = op /\ op.phase = "clear" /\ run'.pc = "cleared" /\ intake' = intake
      BY <1>4, AtWork, NoOpAside, PcAt DEF Clear, PhasesOf
    <2> QED BY <2>1 DEF Based
  <1>5. CASE Baseline
    <2>1. op # NoOp /\ op' = op /\ intake' = "baselined"
      BY <1>5, AtWork, NoOpAside DEF Baseline
    <2> QED BY <2>1 DEF Based
  <1>6. CASE Baselined \/ Coordinator \/ Retarget \/ Readback \/ Remove
    <2>1. /\ op \in Record /\ op # NoOp
          /\ Baselined \/ op.phase \in {"coordinator", "restore"}
      BY <1>6, AtWork, NoOpAside DEF Baselined, Coordinator, Retarget, Readback, Remove, PhasesOf
    <2>2. intake = "baselined" /\ intake' = intake
      BY <1>6, <2>1 DEF Based, Baselined, Coordinator, Retarget, Readback, Remove, managed
    <2> QED BY <2>2 DEF Based
  <1>7. CASE Archive \/ Replace \/ Create \/ Update \/ Restore
    <2>1. /\ op \in Record /\ op # NoOp /\ op' = op /\ UNCHANGED managed
          /\ op.phase \in {"coordinator", "restore"}
      BY <1>7, AtWork, NoOpAside DEF Archive, Replace, Create, Update, Restore, PhasesOf, Stop
    <2> QED BY <2>1 DEF Based, managed
  <1>8. CASE \E fresh \in BOOLEAN : Start(fresh)
    <2>1. PICK fresh \in BOOLEAN : Start(fresh)
      BY <1>8
    <2>2. op' \in Record /\ UNCHANGED managed
      BY <2>1, FoundType, RestartedType DEF Start, TypeInv, RunType
    <2>3. op'.phase \in {"coordinator", "restore"} =>
            op # NoOp /\ op.phase \in {"coordinator", "restore"}
      <3>1. CASE op = NoOp
        BY <2>1, <3>1, FoundType DEF Start
      <3>2. CASE op # NoOp
        BY <2>1, <3>2, RestartedType DEF Start, TypeInv, RunType
      <3> QED BY <3>1, <3>2
    <2>4. run'.pc # "baselined"
      <3>1. op'.phase \in Phase
        BY <2>2 DEF Record
      <3> QED BY <2>1, <3>1, PcAt DEF Start, EntryOf, Phase
    <2> QED BY <2>2, <2>3, <2>4, NoOpAside, BasedKept DEF managed
  <1>9. CASE Pass
    BY <1>9, IdleType DEF Pass, Based, managed, TypeInv, RunType, InPhase
  <1>10. CASE Crash \/ Arrive \/ TurnEnds \/ SessionAppears \/ OperatorSyncs \/ UNCHANGED vars
    <2>1. UNCHANGED managed /\ op' = op /\ (run' = run \/ run' = Idle)
      <3>1. CASE Arrive
        BY <3>1 DEF Arrive
      <3>2. CASE Crash \/ TurnEnds \/ SessionAppears \/ OperatorSyncs \/ UNCHANGED vars
        BY <3>2 DEF Crash, TurnEnds, SessionAppears, OperatorSyncs, vars, managed
      <3> QED BY <1>10, <3>1, <3>2
    <2> QED BY <1>1, <2>1, IdleType
  <1>11. CASE \E p \in Part : Fire(p) \/ CoordinatorEnds(p) \/ OperatorPauses(p)
    BY <1>1, <1>11 DEF Fire, CoordinatorEnds, OperatorPauses
  <1> QED BY <1>2, <1>3, <1>4, <1>5, <1>6, <1>7, <1>8, <1>9, <1>10, <1>11 DEF Next, Steps

-------------------------------------------------------------------------------
(* The newest conversation of p that was ever woken or will be.               *)
Newest(p) == IF binding[p].ready THEN binding[p].key ELSE binding[p].key - 1
Replacing(p) == op # NoOp /\ op.phase = "coordinator" /\ ~op.replaced[p]

(* The schedule's conversation is live, unless it is the one being replaced;  *)
(* a conversation that is still to come was never live.                       *)
Steady(p) ==
  /\ job[p].target <= Newest(p)
  /\ op # NoOp => op.key[p] <= Newest(p) /\ conv[p][op.key[p]] # "absent"
  /\ \A k \in Key : /\ k > binding[p].key => conv[p][k] = "absent"
                    /\ conv[p][k] = "archived" => k <= Newest(p)
  /\ conv[p][job[p].target] = "live" \/ (Replacing(p) /\ job[p].target = op.key[p])

(* A late request can do no harm: an archive only takes what is archived or   *)
(* being replaced; a reconnection that would still be carried out is to a     *)
(* live conversation and of a schedule that is being replaced.                *)
Harmless(r) ==
  /\ r.kind = "create" => r.key <= binding[r.part].key
  /\ r.kind = "archive" => \/ conv[r.part][r.key] = "archived"
                           \/ Replacing(r.part) /\ r.key = op.key[r.part]
  /\ r.kind = "retarget" =>
       /\ r.rev <= job[r.part].rev
       /\ r.rev = job[r.part].rev =>
            /\ Replacing(r.part) /\ job[r.part].target = op.key[r.part] /\ r.to # op.key[r.part]
            /\ conv[r.part][r.to] = "live" /\ r.to <= Newest(r.part)

(* What the run that replaces a coordinator has established.                  *)
Anew == {"create", "retarget", "update", "readback"}
Working ==
  LET p == run.part
  IN /\ run.pc \in {"archive", "replace"} \cup Anew => ~op.replaced[p]
     /\ run.pc \in {"replace"} \cup Anew => conv[p][op.key[p]] = "archived"
     /\ run.pc \in Anew => /\ run.rev <= job[p].rev
                           /\ binding[p].ready => conv[p][binding[p].key] = "live"
     /\ run.pc \in {"retarget", "update", "readback"} => binding[p].ready
     /\ run.pc \in {"update", "readback"} => binding[p].key # op.key[p]
     /\ run.pc = "update" /\ run.rev = job[p].rev => job[p].target = op.key[p]
Finished == op # NoOp /\ op.phase = "restore" => \A p \in Part : op.replaced[p]

World == (\A p \in Part : Steady(p)) /\ (\A r \in inflight : Harmless(r)) /\ Finished
TargetInv == World /\ Working

(* What of the record matters for the coordinators.                           *)
SameRecord ==
  \/ op' = op
  \/ /\ op # NoOp /\ op' # NoOp
     /\ op'.key = op.key /\ op'.replaced = op.replaced
     /\ op.phase = "coordinator" => op'.phase = "coordinator"
     /\ op'.phase = "restore" => op.phase = "restore"

LEMMA WorldKept ==
  ASSUME World, SameRecord, job' = job, conv' = conv, binding' = binding,
         \A r \in inflight' : r \in inflight \/ r.kind \in {"toggle", "chat"}
  PROVE  World'
  <1>1. \A p \in Part : Replacing(p) => Replacing(p)'
    BY DEF SameRecord, Replacing
  <1>2. \A p : Newest(p)' = Newest(p)
    BY DEF Newest
  <1>3. \A p \in Part : Steady(p)'
    BY <1>1, <1>2 DEF World, Steady, SameRecord, Replacing
  <1>4. ASSUME NEW r \in inflight'
        PROVE  Harmless(r)'
    <2>1. CASE r.kind \in {"toggle", "chat"}
      BY <2>1 DEF Harmless
    <2>2. CASE r \in inflight
      BY <1>2, <2>2 DEF World, Harmless, SameRecord, Replacing
    <2> QED BY <1>4, <2>1, <2>2
  <1>5. Finished'
    BY DEF World, Finished, SameRecord
  <1> QED BY <1>3, <1>4, <1>5 DEF World

LEMMA NotWorking ==
  ASSUME run'.pc \notin {"archive", "replace"} \cup Anew
  PROVE  Working'
  BY DEF Working, Anew

(* A request that does no harm leaves things as they should be.               *)
Grows ==
  /\ \A p \in Part : \A k \in Key :
       /\ conv[p][k] = "archived" => conv'[p][k] = "archived"
       /\ conv[p][k] = "live" =>
            \/ conv'[p][k] = "live"
            \/ conv'[p][k] = "archived" /\ Replacing(p) /\ k = op.key[p]
       /\ conv[p][k] = "absent" => conv'[p][k] \in {"absent", "live"}
  /\ \A p \in Part : job'[p] = job[p] \/ job'[p].rev = job[p].rev + 1

LEMMA CarriedGrows ==
  ASSUME TypeInv, World, NEW r \in Request, Harmless(r), Carried(r)
  PROVE  Grows
  <1>1. NativeType
    BY DEF TypeInv
  <1>2. CASE r.kind = "toggle"
    <2>1. r.part \in Part
      BY <1>2 DEF Request
    <2> QED BY <1>1, <1>2, <2>1 DEF Carried, Grows, NativeType
  <1>3. CASE r.kind = "retarget"
    <2>1. r.part \in Part
      BY <1>3 DEF Request
    <2> QED BY <1>1, <1>3, <2>1 DEF Carried, Grows, NativeType
  <1>4. CASE r.kind = "archive"
    <2>1. r.part \in Part /\ r.key \in Key
      BY <1>4 DEF Request
    <2>2. conv' = [conv EXCEPT ![r.part][r.key] = "archived"] /\ job' = job
      BY <1>4 DEF Carried
    <2>3. conv[r.part][r.key] # "absent"
      BY <1>4, <2>1 DEF Harmless, World, Steady, Replacing
    <2> QED BY <1>1, <1>4, <2>1, <2>2, <2>3 DEF Grows, NativeType, Harmless
  <1>5. CASE r.kind = "create"
    <2>1. r.part \in Part /\ r.key \in Key
      BY <1>5 DEF Request
    <2>2. CASE conv[r.part][r.key] = "absent"
      <3>1. conv' = [conv EXCEPT ![r.part][r.key] = "live"] /\ job' = job
        BY <1>5, <2>2 DEF Carried
      <3> QED BY <1>1, <2>1, <2>2, <3>1 DEF Grows, NativeType
    <2>3. CASE conv[r.part][r.key] # "absent"
      <3>1. /\ job' = job
            /\ conv' = [conv EXCEPT ![r.part] = [@ EXCEPT ![r.key] = conv[r.part][r.key]]]
        BY <1>5, <2>3 DEF Carried
      <3> QED BY <1>1, <2>1, <3>1 DEF Grows, NativeType
    <2> QED BY <2>2, <2>3
  <1>6. CASE r.kind = "chat"
    BY <1>6 DEF Carried, Grows
  <1> QED BY <1>2, <1>3, <1>4, <1>5, <1>6 DEF Request

LEMMA CarriedSteady ==
  ASSUME TypeInv, World, NEW r \in Request, Harmless(r), Carried(r), op' = op, binding' = binding,
         NEW p \in Part
  PROVE  Steady(p)'
  <1>1. Grows
    BY CarriedGrows
  <1>2. Newest(p)' = Newest(p) /\ Replacing(p)' = Replacing(p)
    BY DEF Newest, Replacing
  <1>3. Steady(p) /\ NativeType /\ (op # NoOp => op.key[p] \in Key)
    BY DEF World, TypeInv, RunType, Record
  <1>4. \A k \in Key : conv[p][k] \in {"absent", "live", "archived"}
    BY DEF TypeInv, NativeType
  <1>5. \A k \in Key : conv'[p][k] = "archived" /\ conv[p][k] # "archived"
                         => op # NoOp /\ k = op.key[p]
    <2>1. CASE conv'[p] = conv[p]
      BY <2>1
    <2>2. CASE r.kind = "archive" /\ r.part = p
      <3>1. r.key \in Key /\ conv' = [conv EXCEPT ![p][r.key] = "archived"]
        BY <2>2 DEF Carried, Request
      <3>2. ASSUME NEW k \in Key, conv'[p][k] = "archived", conv[p][k] # "archived"
            PROVE  k = r.key
        BY <1>3, <3>1, <3>2 DEF NativeType
      <3> QED BY <2>2, <3>2 DEF Harmless, Replacing
    <2>3. CASE r.kind = "create" /\ r.part = p
      <3>1. r.key \in Key /\ conv' = [conv EXCEPT ![p][r.key] = IF @ = "absent" THEN "live" ELSE @]
        BY <2>3 DEF Carried, Request
      <3> QED BY <1>3, <3>1 DEF NativeType
    <2>4. CASE r.kind \notin {"archive", "create"} \/ r.part # p
      <3>1. conv'[p] = conv[p]
        BY <1>3, <2>4 DEF Carried, Request, NativeType
      <3> QED BY <3>1
    <2> QED BY <2>2, <2>3, <2>4
  <1>6. \A k \in Key : conv'[p][k] = "live" /\ conv[p][k] = "absent" => k <= binding[p].key
    <2>1. CASE r.kind = "create" /\ r.part = p
      <3>1. r.key \in Key /\ conv' = [conv EXCEPT ![p][r.key] = IF @ = "absent" THEN "live" ELSE @]
        BY <2>1 DEF Carried, Request
      <3>2. \A k \in Key : k # r.key => conv'[p][k] = conv[p][k]
        BY <1>3, <2>1, <3>1 DEF NativeType
      <3> QED BY <2>1, <3>2 DEF Harmless
    <2>2. CASE r.kind = "archive" /\ r.part = p
      <3>1. r.key \in Key /\ conv' = [conv EXCEPT ![p][r.key] = "archived"]
        BY <2>2 DEF Carried, Request
      <3> QED BY <1>3, <3>1 DEF NativeType
    <2>3. CASE r.kind \notin {"archive", "create"} \/ r.part # p
      <3>1. conv'[p] = conv[p]
        BY <1>3, <2>3 DEF Carried, Request, NativeType
      <3> QED BY <3>1
    <2> QED BY <2>1, <2>2, <2>3
  <1>7. \A k \in Key : /\ k > binding'[p].key => conv'[p][k] = "absent"
                       /\ conv'[p][k] = "archived" => k <= Newest(p)
    <2> SUFFICES ASSUME NEW k \in Key
                 PROVE  /\ k > binding[p].key => conv'[p][k] = "absent"
                        /\ conv'[p][k] = "archived" => k <= Newest(p)
      OBVIOUS
    <2>1. binding[p].key \in Key /\ k \in Nat /\ binding[p].key \in Nat
      BY <1>3 DEF NativeType, Key
    <2>2. k > binding[p].key => ~(k <= binding[p].key)
      BY <2>1
    <2>3. conv'[p][k] \in {"absent", "live", "archived"}
      BY CarriedType
    <2>4. k > binding[p].key => conv'[p][k] # "archived"
      BY <1>1, <1>3, <2>1 DEF Grows, Steady
    <2> QED BY <1>2, <1>3, <1>5, <1>6, <2>2, <2>3, <2>4 DEF Steady
  <1>8. op # NoOp => op.key[p] <= Newest(p) /\ conv'[p][op.key[p]] # "absent"
    BY <1>1, <1>3, <1>4 DEF Steady, Grows
  <1>9. \/ job'[p].target = job[p].target
        \/ conv[p][job'[p].target] = "live" /\ job'[p].target <= Newest(p) /\ Replacing(p)
           /\ job'[p].target # op.key[p]
    <2>1. CASE r.kind = "retarget" /\ r.part = p
      <3>1. r.to \in Key
        BY <2>1 DEF Request
      <3>2. CASE job[p].rev = r.rev
        <4>1. job'[p].target = r.to
          BY <1>3, <2>1, <3>2 DEF Carried, NativeType
        <4> QED BY <2>1, <3>2, <4>1 DEF Harmless
      <3>3. CASE job[p].rev # r.rev
        BY <2>1, <3>3 DEF Carried
      <3> QED BY <3>2, <3>3
    <2>2. CASE r.kind = "toggle" /\ r.part = p
      BY <1>3, <2>2 DEF Carried, NativeType
    <2>3. CASE r.kind \notin {"toggle", "retarget"} \/ r.part # p
      BY <1>3, <2>3 DEF Carried, Request, NativeType
    <2> QED BY <2>1, <2>2, <2>3
  <1>10. job'[p].target <= Newest(p)
    BY <1>3, <1>9 DEF Steady
  <1>11. conv'[p][job'[p].target] = "live" \/ (Replacing(p) /\ job'[p].target = op.key[p])
    <2>1. job[p].target \in Key /\ job'[p].target \in Key
      BY <1>3, CarriedType DEF NativeType
    <2> QED BY <1>1, <1>3, <1>9, <2>1 DEF Steady, Grows
  <1> QED BY <1>2, <1>7, <1>8, <1>10, <1>11 DEF Steady

LEMMA CarriedHarmless ==
  ASSUME TypeInv, World, NEW r \in Request, Harmless(r), Carried(r), op' = op, binding' = binding,
         NEW q \in Request, Harmless(q)
  PROVE  Harmless(q)'
  <1> DEFINE p == q.part
  <1>1. Grows /\ NativeType
    BY CarriedGrows DEF TypeInv
  <1>2. \A x : Newest(x)' = Newest(x) /\ Replacing(x)' = Replacing(x)
    BY DEF Newest, Replacing
  <1>3. CASE q.kind = "create"
    BY <1>3 DEF Harmless
  <1>4. CASE q.kind = "archive"
    <2>1. p \in Part /\ q.key \in Key
      BY <1>4 DEF Request
    <2> QED BY <1>1, <1>2, <1>4, <2>1 DEF Harmless, Grows
  <1>5. CASE q.kind = "retarget"
    <2>1. p \in Part /\ q.to \in Key /\ q.rev \in Nat /\ job[p].rev \in Nat
      BY <1>1, <1>5 DEF Request, NativeType
    <2>2. CASE job'[p] = job[p]
      BY <1>1, <1>2, <1>5, <2>1, <2>2 DEF Harmless, Grows
    <2>3. CASE job'[p].rev = job[p].rev + 1
      BY <1>5, <2>1, <2>3 DEF Harmless
    <2> QED BY <1>1, <2>1, <2>2, <2>3 DEF Grows
  <1>6. CASE q.kind \in {"toggle", "chat"}
    BY <1>6 DEF Harmless
  <1> QED BY <1>3, <1>4, <1>5, <1>6 DEF Request

(* One lemma for a request that is answered, lost, or carried out late.       *)
LEMMA CarriedWorld ==
  ASSUME TypeInv, World, NEW r \in Request, Harmless(r), Carried(r), op' = op, binding' = binding,
         inflight' \subseteq inflight
  PROVE  World'
  <1>1. \A p \in Part : Steady(p)'
    BY CarriedSteady
  <1>2. \A q \in inflight' : Harmless(q)'
    BY CarriedHarmless DEF World, TypeInv, NativeType
  <1>3. Finished'
    BY DEF World, Finished
  <1> QED BY <1>1, <1>2, <1>3 DEF World

LEMMA CallWorld ==
  ASSUME TypeInv, World, NEW r \in Request, Harmless(r), NEW next, Call(r, next), op' = op,
         binding' = binding
  PROVE  World'
  <1>1. CASE Carried(r) /\ run' = next /\ UNCHANGED <<inflight, count>>
    BY <1>1, CarriedWorld
  <1>2. CASE inflight' = inflight \cup {r} /\ UNCHANGED <<job, conv, chat>>
    <2>1. (\A p \in Part : Steady(p)') /\ Finished'
      BY <1>2 DEF World, Steady, Newest, Replacing, Finished
    <2>2. \A q \in inflight' : Harmless(q)'
      BY <1>2 DEF World, Harmless, Newest, Replacing
    <2> QED BY <2>1, <2>2 DEF World
  <1> QED BY <1>1, <1>2 DEF Call

(* What a run relies on is not undone by a request that does no harm.         *)
LEMMA WorkingKept ==
  ASSUME TypeInv, TargetInv, Grows, op' = op, binding' = binding, run' = run
  PROVE  Working'
  <1> DEFINE p == run.part
  <1>1. p \in Part /\ run.rev \in Nat /\ NativeType
    BY DEF TypeInv, RunType, Runs
  <1>2. /\ binding[p].key \in Key
        /\ run.pc # "idle" => op \in Record /\ op.key[p] \in Key
    BY <1>1, AtWork DEF NativeType, Record
  <1>3. job[p].rev \in Nat /\ (job'[p] = job[p] \/ job'[p].rev = job[p].rev + 1)
    BY <1>1 DEF Grows, NativeType
  <1>4. CASE run.pc \notin {"archive", "replace"} \cup Anew
    BY <1>4 DEF Working, Anew
  <1>5. CASE run.pc \in {"archive", "replace"}
    BY <1>1, <1>2, <1>5 DEF TargetInv, Working, Grows, Anew
  <1>6. CASE run.pc \in Anew
    <2>1. run.rev <= job'[p].rev /\ (run.rev = job'[p].rev => job'[p] = job[p])
      BY <1>1, <1>3, <1>6 DEF TargetInv, Working
    <2>2. conv'[p][op.key[p]] = "archived" /\ conv[p][op.key[p]] = "archived"
      BY <1>1, <1>2, <1>6 DEF TargetInv, Working, Grows, Anew
    <2>3. binding[p].ready => conv'[p][binding[p].key] = "live"
      BY <1>1, <1>2, <1>6, <2>2 DEF TargetInv, Working, Grows
    <2> QED BY <1>6, <2>1, <2>2, <2>3 DEF TargetInv, Working, Anew
  <1> QED BY <1>4, <1>5, <1>6

LEMMA TargetArrive == ASSUME TypeInv, TargetInv, Arrive PROVE TargetInv'
  <1>1. PICK r \in inflight : Carried(r) /\ inflight' = inflight \ {r}
    BY DEF Arrive
  <1>2. r \in Request /\ Harmless(r) /\ op' = op /\ binding' = binding /\ run' = run
    BY DEF Arrive, TargetInv, World, TypeInv, NativeType
  <1>3. World'
    BY <1>1, <1>2, CarriedWorld DEF TargetInv
  <1>4. Grows
    BY <1>1, <1>2, CarriedGrows DEF TargetInv
  <1> QED BY <1>2, <1>3, <1>4, WorkingKept DEF TargetInv

(* The pauses and their reverse, and the other requests of no matter here.    *)
LEMMA TargetToggle == ASSUME TypeInv, TargetInv, Pause \/ Restore PROVE TargetInv'
  <1>0. op \in Record /\ run.part \in Part
    BY AtWork DEF Pause, Restore
  <1>1. op' = op /\ binding' = binding
    BY DEF Pause, Restore, Stop, Local, threads
  <1>2. Working'
    <2>1. run' \in {AfterPause, AfterRestore, Idle}
      BY DEF Pause, Restore, Call, Stop
    <2> QED BY <2>1, NotWorking, PcAt, IdleType DEF AfterPause, AfterRestore, Anew
  <1>3. ASSUME NEW on \in BOOLEAN, NEW next,
               Call([kind |-> "toggle", part |-> run.part, rev |-> job[run.part].rev, on |-> on],
                    next)
        PROVE  World'
    <2> DEFINE r == [kind |-> "toggle", part |-> run.part, rev |-> job[run.part].rev, on |-> on]
    <2>1. r \in Request
      BY <1>0, <1>3 DEF Request, TypeInv, NativeType
    <2>2. Harmless(r)
      BY DEF Harmless
    <2> HIDE DEF r
    <2> QED BY <1>1, <1>3, <2>1, <2>2, CallWorld DEF TargetInv, r
  <1>4. ASSUME Local
        PROVE  World'
    BY <1>1, <1>4, WorldKept DEF Local, threads, TargetInv, SameRecord
  <1>5. World'
    <2>1. CASE Pause
      BY <1>3, <1>4, <2>1 DEF Pause
    <2>2. CASE Restore
      <3>1. op.setting[run.part] \in BOOLEAN
        BY <1>0 DEF Record, Flags
      <3> QED BY <1>3, <1>4, <2>2, <3>1 DEF Restore
    <2> QED BY <2>1, <2>2
  <1> QED BY <1>2, <1>5 DEF TargetInv

LEMMA TargetArchiveChat == ASSUME TypeInv, TargetInv, ArchiveChat PROVE TargetInv'
  <1>1. op' = op /\ binding' = binding /\ job' = job /\ conv' = conv
    BY DEF ArchiveChat, Stop, Local, threads, Call, Carried
  <1>2. \A r \in inflight' : r \in inflight \/ r.kind = "chat"
    BY DEF ArchiveChat, Stop, Local, Call
  <1>3. World'
    BY <1>1, <1>2, WorldKept DEF TargetInv, SameRecord
  <1>4. run' \in {Idle, At("chatPurged", "intake")}
    BY DEF ArchiveChat, Stop, Call
  <1> QED BY <1>3, <1>4, NotWorking, PcAt, IdleType DEF Anew, TargetInv

(* The steps that change nothing of this.                                     *)
LEMMA TargetEarly ==
  ASSUME TypeInv, TargetInv,
         Gate \/ Intend \/ Paused \/ Turns \/ Clear \/ Cleared \/ Purge \/ RemoveTree \/ Purged
           \/ Baseline \/ Baselined
  PROVE  TargetInv'
  <1>1. CASE Gate \/ Clear \/ Baseline
    <2>1. op' = op /\ NativeSame /\ run' \in {Idle, At("turns", "intake"), At("cleared", "intake"),
                                             At("baselined", "intake")}
      BY <1>1 DEF Gate, Clear, Baseline, Local, history, NativeSame
    <2>2. World'
      BY <2>1, WorldKept DEF NativeSame, threads, TargetInv, SameRecord
    <2> QED BY <2>1, <2>2, NotWorking, PcAt, IdleType DEF Anew, TargetInv
  <1>2. CASE Intend \/ Paused \/ Turns \/ Cleared \/ Purge \/ RemoveTree \/ Purged
    <2>1. SameRecord /\ NativeSame /\ run'.pc \in EarlyPlaces
      BY <1>2, EarlySteps, NoOpAside DEF SameRecord, Early
    <2>2. World'
      BY <2>1, WorldKept DEF NativeSame, threads, TargetInv
    <2> QED BY <2>1, <2>2, NotWorking DEF EarlyPlaces, Anew, TargetInv
  <1>3. CASE Baselined
    <2>1. op \in Record /\ op.phase = "baseline" /\ op # NoOp
      BY <1>3, AtWork, NoOpAside DEF Baselined, PhasesOf
    <2>2. op' \in Record /\ op'.phase = "coordinator"
      BY <1>3, <2>1, PhaseSet DEF Baselined, Phase
    <2>3. op'.key = op.key /\ op'.replaced = op.replaced
      BY <1>3, <2>1 DEF Baselined, Record
    <2>4. SameRecord
      BY <2>1, <2>2, <2>3, NoOpAside DEF SameRecord
    <2>5. World'
      BY <1>3, <2>4, WorldKept DEF Baselined, Local, threads, TargetInv
    <2> QED BY <1>3, <2>5, NotWorking, PcAt DEF Baselined, Anew, TargetInv
  <1> QED BY <1>1, <1>2, <1>3

(* A reset begins where every schedule wakes a live conversation.             *)
LEMMA TargetStart ==
  ASSUME TypeInv, TargetInv, NEW fresh \in BOOLEAN, Start(fresh)
  PROVE  TargetInv'
  <1>1. Working'
    <2>1. op'.phase \in Phase
      BY FoundType, RestartedType DEF Start, TypeInv, RunType, Record
    <2> QED BY <2>1, PcAt, NotWorking DEF Start, EntryOf, Phase, Anew
  <1>2. job' = job /\ conv' = conv /\ binding' = binding /\ inflight' = inflight
    BY DEF Start, threads
  <1>3. ASSUME op = NoOp, NEW purge \in BOOLEAN, op' = Found(fresh, purge)
        PROVE  World'
    <2>1. op' \in Record /\ op'.phase = "pause" /\ op'.key = [p \in Part |-> job[p].target]
      BY <1>3, FoundType DEF Found
    <2>2. \A p \in Part : Steady(p)'
      BY <1>2, <1>3, <2>1 DEF TargetInv, World, Steady, Newest, Replacing
    <2>3. \A r \in inflight' : Harmless(r)'
      BY <1>2, <1>3, <2>1 DEF TargetInv, World, Harmless, Newest, Replacing
    <2> QED BY <2>1, <2>2, <2>3 DEF World, Finished
  <1>4. CASE op # NoOp /\ op' \in {op, Restarted}
    <2>1. SameRecord
      <3>1. CASE op' = Restarted
        <4>1. op \in Record /\ Restarted.key = op.key /\ Restarted.replaced = op.replaced
          BY <1>4 DEF TypeInv, RunType, Restarted, Record
        <4> QED BY <1>4, <3>1, <4>1, RestartedType, NoOpAside DEF SameRecord
      <3> QED BY <1>4, <3>1 DEF SameRecord
    <2> QED BY <1>1, <1>2, <2>1, WorldKept DEF TargetInv
  <1> QED BY <1>1, <1>3, <1>4 DEF Start, TargetInv

(* The replacement of a coordinator, step by step.                            *)
LEMMA TargetCoordinator == ASSUME TypeInv, TargetInv, Coordinator PROVE TargetInv'
  <1>1. op \in Record /\ op # NoOp /\ op.phase = "coordinator"
    BY AtWork, NoOpAside DEF Coordinator, PhasesOf
  <1>2. job' = job /\ conv' = conv /\ binding' = binding /\ inflight' = inflight
    BY DEF Coordinator, Quiet, threads
  <1>3. CASE /\ \A p \in Part : op.replaced[p]
             /\ op' = [op EXCEPT !.phase = "restore"] /\ run' = At("restore", "intake")
    <2>1. /\ op' \in Record /\ op' # NoOp /\ op'.phase = "restore"
          /\ op'.key = op.key /\ op'.replaced = op.replaced
      <3>1. op' \in Record /\ op'.phase = "restore"
        BY <1>1, <1>3, PhaseSet DEF Phase
      <3> QED BY <1>1, <1>3, <3>1, NoOpAside DEF Record
    <2>2. \A p \in Part : ~Replacing(p) /\ ~Replacing(p)' /\ Newest(p)' = Newest(p)
      BY <1>2, <1>3, <2>1 DEF Replacing, Newest
    <2>3. \A p \in Part : Steady(p)'
      BY <1>1, <1>2, <2>1, <2>2 DEF TargetInv, World, Steady
    <2>4. \A r \in inflight' : Harmless(r)'
      <3> SUFFICES ASSUME NEW r \in inflight PROVE Harmless(r)'
        BY <1>2
      <3>1. r.kind \in {"create", "archive", "retarget"} => r.part \in Part
        BY DEF TypeInv, NativeType, Request
      <3> QED BY <1>2, <2>2, <3>1 DEF TargetInv, World, Harmless
    <2>5. Finished'
      BY <1>3, <2>1 DEF Finished
    <2> QED BY <1>3, <2>3, <2>4, <2>5, NotWorking, PcAt DEF TargetInv, World, Anew
  <1>4. ASSUME NEW p \in Part, ~op.replaced[p], conv[p][op.key[p]] # "live", op' = op,
               run' = At("replace", p)
        PROVE  TargetInv'
    <2>1. World'
      BY <1>2, <1>4, WorldKept DEF TargetInv, SameRecord
    <2>2. conv[p][op.key[p]] = "archived"
      <3>1. op.key[p] \in Key
        BY <1>1 DEF Record
      <3> QED BY <1>1, <1>4, <3>1 DEF TargetInv, World, Steady, TypeInv, NativeType
    <2>3. run'.pc = "replace" /\ run'.part = p
      BY <1>4 DEF At, Idle
    <2> QED BY <1>2, <1>4, <2>1, <2>2, <2>3 DEF TargetInv, Working, Anew
  <1>5. ASSUME NEW p \in Part, ~op.replaced[p], op' = [op EXCEPT !.archived[p] = TRUE],
               run' = At("archive", p)
        PROVE  TargetInv'
    <2>1. /\ op' \in Record /\ op'.phase = "coordinator" /\ op' # NoOp
      BY <1>1, <1>5, FlagSet, NoOpAside
    <2>2. op'.key = op.key /\ op'.replaced = op.replaced
      BY <1>1, <1>5 DEF Record
    <2>3. World'
      BY <1>1, <1>2, <2>1, <2>2, WorldKept DEF TargetInv, SameRecord
    <2>4. run'.pc = "archive" /\ run'.part = p
      BY <1>5 DEF At, Idle
    <2> QED BY <1>5, <2>2, <2>3, <2>4 DEF TargetInv, Working, Anew
  <1>6. CASE op' = op /\ run' = Idle
    BY <1>2, <1>6, WorldKept, NotWorking, IdleType DEF TargetInv, SameRecord, Anew
  <1> QED BY <1>3, <1>4, <1>5, <1>6 DEF Coordinator, Stop

LEMMA TargetArchive == ASSUME TypeInv, TargetInv, Archive PROVE TargetInv'
  <1> DEFINE p == run.part
             r == [kind |-> "archive", part |-> p, key |-> op.key[p]]
  <1>1. op \in Record /\ op # NoOp /\ op.phase = "coordinator" /\ p \in Part /\ op.key[p] \in Key
    BY AtWork, NoOpAside DEF Archive, PhasesOf, Record
  <1>2. r \in Request /\ Call(r, At("replace", p)) /\ op' = op /\ binding' = binding
    BY <1>1 DEF Archive, Request
  <1>3. ~op.replaced[p]
    BY DEF Archive, TargetInv, Working
  <1>4. Harmless(r)
    BY <1>1, <1>3 DEF Harmless, Replacing
  <1>5. World'
    BY <1>2, <1>4, CallWorld DEF TargetInv
  <1>6. CASE run' = Idle
    BY <1>5, <1>6, NotWorking, IdleType DEF TargetInv, Anew
  <1>7. CASE Carried(r) /\ run' = At("replace", p)
    <2>1. conv' = [conv EXCEPT ![p][op.key[p]] = "archived"]
      BY <1>7 DEF Carried
    <2>2. conv'[p][op.key[p]] = "archived"
      BY <1>1, <2>1 DEF TypeInv, NativeType
    <2>3. run'.pc = "replace" /\ run'.part = p
      BY <1>7 DEF At, Idle
    <2> QED BY <1>2, <1>3, <1>5, <2>2, <2>3 DEF TargetInv, Working, Anew
  <1> QED BY <1>2, <1>6, <1>7 DEF Call

LEMMA TargetReplace == ASSUME TypeInv, TargetInv, Replace PROVE TargetInv'
  <1>0. PICK p \in Part : p = run.part
    BY AtWork DEF Replace
  <1> DEFINE here == [At("create", p) EXCEPT !.rev = job[p].rev]
  <1>1. op \in Record /\ op # NoOp /\ op' = op
    BY AtWork, NoOpAside DEF Replace, Stop
  <1>2. job' = job /\ conv' = conv /\ inflight' = inflight
    BY DEF Replace
  <1>3. /\ job[p] \in [on : BOOLEAN, target : Key, rev : Nat]
        /\ binding[p] \in [key : Key, ready : BOOLEAN] /\ binding[p].key \in Nat
    BY <1>1 DEF TypeInv, NativeType, Key
  <1>4. here.pc = "create" /\ here.part = p /\ here.rev = job[p].rev
    BY DEF At, Idle
  <1>5. CASE run' = Idle /\ binding' = binding
    BY <1>1, <1>2, <1>5, WorldKept, NotWorking, IdleType DEF TargetInv, SameRecord, Anew
  <1>6. ~op.replaced[p] /\ conv[p][op.key[p]] = "archived"
    BY <1>0 DEF Replace, TargetInv, Working
  <1>7. CASE /\ run' = here /\ binding' = binding
             /\ ~(binding[p].ready /\ conv[p][binding[p].key] # "live")
    <2>1. World'
      BY <1>1, <1>2, <1>7, WorldKept DEF TargetInv, SameRecord
    <2> QED BY <1>1, <1>2, <1>3, <1>4, <1>6, <1>7, <2>1 DEF TargetInv, Working, Anew
  <1>8. CASE /\ run' = here /\ binding[p].ready /\ conv[p][binding[p].key] # "live"
             /\ Bound(p) \in Key
             /\ binding' = [binding EXCEPT ![p] = [key |-> Bound(p), ready |-> FALSE]]
    <2>1. Bound(p) = binding[p].key + 1
      BY <1>8 DEF Bound
    <2>2. /\ binding'[p].key = binding[p].key + 1 /\ ~binding'[p].ready
          /\ \A q \in Part : q # p => binding'[q] = binding[q]
      BY <1>1, <1>8, <2>1 DEF TypeInv, NativeType
    <2>3. \A q \in Part : Newest(q)' = Newest(q) /\ Replacing(q)' = Replacing(q)
      BY <1>1, <1>3, <1>8, <2>2 DEF Newest, Replacing
    <2>4. \A q \in Part : \A k \in Key : k > binding'[q].key => k > binding[q].key
      BY <1>1, <1>3, <2>2 DEF Key
    <2>5. \A q \in Part : Steady(q)'
      BY <1>1, <1>2, <2>3, <2>4 DEF TargetInv, World, Steady
    <2>6. \A r \in inflight' : Harmless(r)'
      <3> SUFFICES ASSUME NEW r \in inflight PROVE Harmless(r)'
        BY <1>2
      <3>1. /\ r.kind \in {"create", "archive", "retarget"} => r.part \in Part
            /\ r.kind = "create" => r.key \in Nat
        BY DEF TypeInv, NativeType, Request, Key
      <3>2. Harmless(r)
        BY DEF TargetInv, World
      <3>3. r.kind = "create" => r.key <= binding'[r.part].key
        BY <1>3, <2>2, <3>1, <3>2 DEF Harmless
      <3> QED BY <1>1, <1>2, <2>3, <3>1, <3>2, <3>3 DEF Harmless
    <2>7. World'
      BY <1>1, <2>5, <2>6 DEF TargetInv, World, Finished
    <2> QED BY <1>1, <1>2, <1>3, <1>4, <1>6, <1>8, <2>2, <2>7 DEF TargetInv, Working, Anew
  <1> QED BY <1>0, <1>5, <1>7, <1>8 DEF Replace, Stop

LEMMA TargetCreate == ASSUME TypeInv, TargetInv, Create PROVE TargetInv'
  <1>0. PICK p \in Part : p = run.part
    BY AtWork DEF Create
  <1> DEFINE key == binding[p].key
         r == [kind |-> "create", part |-> p, key |-> key]
  <1>1. op \in Record /\ op # NoOp /\ op' = op /\ run \in Runs
    BY AtWork, NoOpAside DEF Create, TypeInv, RunType
  <1>2. /\ binding[p] \in [key : Key, ready : BOOLEAN] /\ key \in Key /\ key \in Nat
        /\ conv[p][key] \in {"absent", "live", "archived"}
    <2>1. binding[p] \in [key : Key, ready : BOOLEAN] /\ conv[p] \in [Key -> {"absent", "live", "archived"}]
      BY DEF TypeInv, NativeType
    <2>2. key \in Key
      BY <2>1
    <2>3. key \in Nat
      BY <2>2 DEF Key
    <2> QED BY <2>1, <2>2, <2>3
  <1>3. CASE Call(r, run) /\ binding' = binding
    <2>1. r \in Request /\ Harmless(r)
      BY <1>1, <1>2 DEF Request, Harmless
    <2>2. World'
      BY <1>1, <1>3, <2>1, CallWorld DEF TargetInv
    <2>3. CASE Carried(r) /\ run' = run
      BY <1>1, <1>3, <2>1, <2>2, <2>3, CarriedGrows, WorkingKept DEF TargetInv
    <2>4. CASE run' = Idle
      BY <2>2, <2>4, NotWorking, IdleType DEF TargetInv, Anew
    <2> QED BY <1>3, <2>3, <2>4 DEF Call
  <1>4. CASE /\ conv[p][key] # "absent"
             /\ binding' = [binding EXCEPT ![p].ready = conv[p][key] = "live"]
             /\ run' = IF conv[p][key] = "live" THEN [run EXCEPT !.pc = "retarget"] ELSE Idle
             /\ UNCHANGED <<op, conv, job, chat, inflight, count>>
    <2>1. conv[p][key] = "live"
      <3>1. CASE binding[p].ready
        BY <1>0, <3>1 DEF Create, TargetInv, Working, Anew
      <3>2. CASE ~binding[p].ready
        <4>1. Newest(p) = key - 1
          BY <3>2 DEF Newest
        <4>2. ~(key <= key - 1)
          BY <1>2
        <4> QED BY <1>1, <1>2, <1>4, <4>1, <4>2 DEF TargetInv, World, Steady
      <3> QED BY <3>1, <3>2
    <2>2. /\ binding'[p].key = key /\ binding'[p].ready
          /\ \A q \in Part : q # p => binding'[q] = binding[q]
      BY <1>1, <1>2, <1>4, <2>1 DEF TypeInv, NativeType
    <2>3. /\ \A q \in Part : Replacing(q)' = Replacing(q)
          /\ \A q \in Part : q # p => Newest(q)' = Newest(q)
          /\ Newest(p)' = key
          /\ Newest(p) = key \/ Newest(p) = key - 1
      BY <1>1, <1>4, <2>2 DEF Newest, Replacing
    <2>4. \A n \in Nat : n <= Newest(p) => n <= key
      BY <1>2, <2>3
    <2>5. Steady(p)'
      <3>1. job[p].target \in Nat /\ op.key[p] \in Nat /\ \A k \in Key : k \in Nat
        BY <1>1 DEF TypeInv, NativeType, Record, Key
      <3> QED BY <1>1, <1>4, <2>2, <2>3, <2>4, <3>1 DEF TargetInv, World, Steady
    <2>6. \A q \in Part : Steady(q)'
      <3> SUFFICES ASSUME NEW q \in Part, q # p PROVE Steady(q)'
        BY <2>5
      <3> QED BY <1>4, <2>2, <2>3 DEF TargetInv, World, Steady
    <2>7. \A x \in inflight' : Harmless(x)'
      <3> SUFFICES ASSUME NEW x \in inflight PROVE Harmless(x)'
        BY <1>4
      <3>1. /\ x.kind \in {"create", "archive", "retarget"} => x.part \in Part
            /\ x.kind = "retarget" => x.to \in Nat
        BY DEF TypeInv, NativeType, Request, Key
      <3>2. Harmless(x)
        BY DEF TargetInv, World
      <3>3. x.kind = "create" => x.key <= binding'[x.part].key
        BY <2>2, <3>1, <3>2 DEF Harmless
      <3>4. x.kind = "retarget" /\ x.to <= Newest(x.part) => x.to <= Newest(x.part)'
        BY <2>3, <2>4, <3>1
      <3> QED BY <1>4, <2>3, <3>1, <3>2, <3>3, <3>4 DEF Harmless
    <2>8. World'
      BY <1>4, <2>6, <2>7 DEF TargetInv, World, Finished
    <2>9. run' = [run EXCEPT !.pc = "retarget"] /\ run'.pc = "retarget" /\ run'.part = p
            /\ run'.rev = run.rev
      BY <1>0, <1>1, <1>4, <2>1 DEF Runs
    <2>10. /\ ~op.replaced[p] /\ conv[p][op.key[p]] = "archived" /\ run.rev <= job[p].rev
      BY <1>0 DEF Create, TargetInv, Working, Anew
    <2> QED BY <1>4, <2>1, <2>2, <2>8, <2>9, <2>10 DEF TargetInv, Working, Anew
  <1> QED BY <1>0, <1>3, <1>4 DEF Create

LEMMA TargetRetarget == ASSUME TypeInv, TargetInv, Retarget PROVE TargetInv'
  <1> DEFINE p == run.part
             to == binding[p].key
  <1>1. op \in Record /\ op # NoOp /\ p \in Part /\ run \in Runs /\ op.phase = "coordinator"
    BY AtWork, NoOpAside DEF Retarget, PhasesOf, TypeInv, RunType
  <1>2. job' = job /\ conv' = conv /\ binding' = binding /\ inflight' = inflight
    BY DEF Retarget, Quiet, threads
  <1>3. /\ ~op.replaced[p] /\ conv[p][op.key[p]] = "archived" /\ run.rev <= job[p].rev
        /\ binding[p].ready /\ conv[p][to] = "live"
    BY DEF Retarget, TargetInv, Working, Anew
  <1>4. CASE to # op.key[p] /\ op' = op /\ run' = [run EXCEPT !.pc = "readback"]
    <2>1. World'
      BY <1>2, <1>4, WorldKept DEF TargetInv, SameRecord
    <2>2. run'.pc = "readback" /\ run'.part = p /\ run'.rev = run.rev
      BY <1>1, <1>4 DEF Runs
    <2> QED BY <1>2, <1>3, <1>4, <2>1, <2>2 DEF TargetInv, Working, Anew
  <1>5. CASE /\ job[p].target # to /\ Unchanged(p) /\ op' = [op EXCEPT !.updated[p] = TRUE]
             /\ run' = [run EXCEPT !.pc = "update"]
    <2>1. op' \in Record /\ op' # NoOp /\ op'.phase = "coordinator"
      BY <1>1, <1>5, FlagSet, NoOpAside
    <2>2. op'.key = op.key /\ op'.replaced = op.replaced
      BY <1>1, <1>5 DEF Record
    <2>3. World'
      BY <1>1, <1>2, <2>1, <2>2, WorldKept DEF TargetInv, SameRecord
    <2>4. run'.pc = "update" /\ run'.part = p /\ run'.rev = run.rev
      BY <1>1, <1>5 DEF Runs
    <2>5. job[p].target = op.key[p] /\ to # op.key[p]
      BY <1>5 DEF Unchanged
    <2> QED BY <1>2, <1>3, <2>2, <2>3, <2>4, <2>5 DEF TargetInv, Working, Anew
  <1>6. CASE op' = op /\ run' = Idle
    BY <1>2, <1>6, WorldKept, NotWorking, IdleType DEF TargetInv, SameRecord, Anew
  <1> QED BY <1>4, <1>5, <1>6 DEF Retarget, Stop

LEMMA TargetUpdate == ASSUME TypeInv, TargetInv, Update PROVE TargetInv'
  <1> DEFINE p == run.part
             r == [kind |-> "retarget", part |-> p, rev |-> run.rev, to |-> binding[p].key]
             next == [run EXCEPT !.pc = "readback"]
  <1>1. op \in Record /\ op # NoOp /\ p \in Part /\ run \in Runs /\ op.phase = "coordinator"
        /\ run.pc = "update"
    BY AtWork, NoOpAside DEF Update, PhasesOf, TypeInv, RunType
  <1>2. binding[p] \in [key : Key, ready : BOOLEAN] /\ binding[p].key \in Key
        /\ binding[p].key \in Nat
    BY <1>1 DEF TypeInv, NativeType, Key
  <1>3. /\ ~op.replaced[p] /\ conv[p][op.key[p]] = "archived" /\ run.rev <= job[p].rev
        /\ binding[p].ready /\ conv[p][binding[p].key] = "live" /\ binding[p].key # op.key[p]
        /\ run.rev = job[p].rev => job[p].target = op.key[p]
    BY <1>1 DEF TargetInv, Working, Anew
  <1>4. r \in Request /\ Call(r, next) /\ op' = op /\ binding' = binding
    BY <1>1, <1>2 DEF Update, Request, Runs
  <1>5. Newest(p) = binding[p].key
    BY <1>3 DEF Newest
  <1>6. Harmless(r)
    BY <1>1, <1>2, <1>3, <1>5 DEF Harmless, Replacing
  <1>7. World'
    BY <1>4, <1>6, CallWorld DEF TargetInv
  <1>8. CASE run' = Idle
    BY <1>7, <1>8, NotWorking, IdleType DEF TargetInv, Anew
  <1>9. CASE Carried(r) /\ run' = next
    <2>1. run'.pc = "readback" /\ run'.part = p /\ run'.rev = run.rev
      BY <1>1, <1>9 DEF Runs
    <2>2. conv' = conv
      BY <1>9 DEF Carried
    <2>3. Grows
      BY <1>4, <1>6, <1>9, CarriedGrows DEF TargetInv
    <2>4. run.rev <= job'[p].rev
      <3>1. run.rev \in Nat /\ job[p].rev \in Nat
        BY <1>1 DEF Runs, TypeInv, NativeType
      <3> QED BY <1>1, <1>3, <2>3, <3>1 DEF Grows
    <2> QED BY <1>3, <1>4, <1>7, <2>1, <2>2, <2>4 DEF TargetInv, Working, Anew
  <1> QED BY <1>4, <1>8, <1>9 DEF Call

LEMMA TargetReadback == ASSUME TypeInv, TargetInv, Readback PROVE TargetInv'
  <1>0. PICK p \in Part : p = run.part
    BY AtWork DEF Readback
  <1>1. op \in Record /\ op # NoOp /\ op.phase = "coordinator"
    BY AtWork, NoOpAside DEF Readback, PhasesOf
  <1>2. job' = job /\ conv' = conv /\ binding' = binding /\ inflight' = inflight
    BY DEF Readback, Local, threads
  <1>3. /\ ~op.replaced[p] /\ conv[p][op.key[p]] = "archived" /\ binding[p].ready
        /\ conv[p][binding[p].key] = "live" /\ binding[p].key # op.key[p]
    BY <1>0 DEF Readback, TargetInv, Working, Anew
  <1>4. CASE op' = op /\ run' = Idle
    BY <1>2, <1>4, WorldKept, NotWorking, IdleType DEF TargetInv, SameRecord, Anew
  <1>5. CASE /\ job[p].target = binding[p].key
             /\ op' = [op EXCEPT !.key[p] = binding[p].key, !.replaced[p] = TRUE]
             /\ run' = At("coordinator", "intake")
    <2>1. /\ op'.phase = "coordinator" /\ op'.key = [op.key EXCEPT ![p] = binding[p].key]
          /\ op'.replaced = [op.replaced EXCEPT ![p] = TRUE]
      BY <1>1, <1>5 DEF Record
    <2>2. op.key \in [Part -> Key] /\ op.replaced \in [Part -> BOOLEAN] /\ op' # NoOp
      BY <1>1, <2>1 DEF Record, Flags, NoOp
    <2>3. binding[p].key \in Nat /\ Newest(p) = binding[p].key
      BY <1>1, <1>3 DEF TypeInv, NativeType, Key, Newest
    <2>4. \A q \in Part : /\ Newest(q)' = Newest(q)
                          /\ q # p => Replacing(q)' = Replacing(q) /\ op'.key[q] = op.key[q]
      BY <1>1, <1>2, <2>1, <2>2 DEF Newest, Replacing
    <2>5. Steady(p)'
      BY <1>1, <1>2, <1>3, <1>5, <2>1, <2>2, <2>3, <2>4 DEF TargetInv, World, Steady
    <2>6. \A q \in Part : Steady(q)'
      <3> SUFFICES ASSUME NEW q \in Part, q # p PROVE Steady(q)'
        BY <2>5
      <3> QED BY <1>1, <1>2, <2>2, <2>4 DEF TargetInv, World, Steady
    <2>7. \A r \in inflight' : Harmless(r)'
      <3> SUFFICES ASSUME NEW r \in inflight PROVE Harmless(r)'
        BY <1>2
      <3>1. r.kind \in {"create", "archive", "retarget"} => r.part \in Part
        BY DEF TypeInv, NativeType, Request
      <3>2. Harmless(r)
        BY DEF TargetInv, World
      <3>3. CASE r.part = p
        BY <1>2, <1>3, <1>5, <3>2, <3>3 DEF Harmless
      <3>4. CASE r.part # p
        BY <1>2, <2>4, <3>1, <3>2, <3>4 DEF Harmless
      <3> QED BY <3>3, <3>4
    <2>8. Finished'
      BY <2>1 DEF Finished
    <2> QED BY <1>5, <2>6, <2>7, <2>8, NotWorking, PcAt DEF TargetInv, World, Anew
  <1> QED BY <1>0, <1>4, <1>5 DEF Readback

(* A record is given up when every schedule is replaced.                      *)
LEMMA TargetRemove == ASSUME TypeInv, TargetInv, Remove PROVE TargetInv'
  <1>1. op \in Record /\ op # NoOp /\ op.phase = "restore" /\ op' = NoOp
    BY AtWork, NoOpAside DEF Remove, PhasesOf
  <1>2. job' = job /\ conv' = conv /\ binding' = binding /\ inflight' = inflight
    BY DEF Remove, Local, threads
  <1>3. \A p \in Part : ~Replacing(p) /\ ~Replacing(p)' /\ Newest(p)' = Newest(p)
    BY <1>1, <1>2 DEF Replacing, Newest
  <1>4. \A p \in Part : Steady(p)'
    BY <1>1, <1>2, <1>3 DEF TargetInv, World, Steady
  <1>5. \A r \in inflight' : Harmless(r)'
    <2> SUFFICES ASSUME NEW r \in inflight PROVE Harmless(r)'
      BY <1>2
    <2>1. r.kind \in {"create", "archive", "retarget"} => r.part \in Part
      BY DEF TypeInv, NativeType, Request
    <2> QED BY <1>2, <1>3, <2>1 DEF TargetInv, World, Harmless
  <1> QED BY <1>1, <1>4, <1>5, NotWorking, IdleType DEF Remove, Finished, TargetInv, World, Anew

(* The operator's synchronization is kept out while a run replaces under the  *)
(* lock; otherwise it binds a schedule to a live conversation.                *)
LEMMA TargetSyncs == ASSUME TypeInv, TargetInv, OperatorSyncs PROVE TargetInv'
  <1> DEFINE to == [p \in Part |-> Bound(p)]
  <1>1. op' = op /\ run' = run /\ inflight' = inflight /\ ~Locked /\ NativeType
    BY DEF OperatorSyncs, TypeInv
  <1>2. ASSUME NEW p \in Part
        PROVE  /\ Bound(p) \in Key /\ Bound(p) \in Nat
               /\ binding'[p].key = Bound(p) /\ binding'[p].ready
               /\ job'[p].target = Bound(p)
               /\ job'[p] = job[p] \/ job'[p].rev = job[p].rev + 1
               /\ \A k \in Key : conv'[p][k] = IF k = Bound(p) THEN "live" ELSE conv[p][k]
    <2>1. Bound(p) \in Key
      BY <1>2 DEF OperatorSyncs
    <2>2. binding'[p] = [key |-> Bound(p), ready |-> TRUE]
      BY <1>2 DEF OperatorSyncs
    <2>3. job'[p] = IF job[p].on /\ job[p].target = Bound(p) THEN job[p]
                    ELSE [on |-> TRUE, target |-> Bound(p), rev |-> job[p].rev + 1]
      BY <1>2 DEF OperatorSyncs
    <2>4. conv'[p] = [conv[p] EXCEPT ![Bound(p)] = "live"]
      BY <1>2 DEF OperatorSyncs
    <2>5. conv[p] \in [Key -> {"absent", "live", "archived"}]
      BY <1>1, <1>2 DEF NativeType
    <2>6. \A k \in Key : conv'[p][k] = IF k = Bound(p) THEN "live" ELSE conv[p][k]
      BY <2>1, <2>4, <2>5
    <2>7. job'[p].target = Bound(p) /\ (job'[p] = job[p] \/ job'[p].rev = job[p].rev + 1)
      BY <2>3
    <2> QED BY <2>1, <2>2, <2>6, <2>7 DEF Key
  <1>3. ASSUME NEW p \in Part
        PROVE  /\ Newest(p)' = Bound(p)
               /\ Newest(p) <= Bound(p) /\ binding[p].key <= Bound(p)
               /\ conv[p][Bound(p)] # "archived"
    <2>1. /\ binding[p].key \in Nat /\ binding[p].key \in Key
          /\ conv[p] \in [Key -> {"absent", "live", "archived"}]
      BY <1>1, <1>3 DEF NativeType, Key
    <2>2. Newest(p)' = Bound(p)
      BY <1>2, <1>3 DEF Newest
    <2>3. Steady(p)
      BY <1>3 DEF TargetInv, World
    <2>4. CASE binding[p].ready /\ conv[p][binding[p].key] # "live"
      <3>1. Bound(p) = binding[p].key + 1 /\ Newest(p) = binding[p].key
        BY <2>4 DEF Bound, Newest
      <3>2. conv[p][Bound(p)] = "absent"
        BY <1>2, <1>3, <2>1, <2>3, <3>1 DEF Steady
      <3> QED BY <2>1, <2>2, <3>1, <3>2
    <2>5. CASE ~binding[p].ready
      <3>1. Bound(p) = binding[p].key /\ Newest(p) = binding[p].key - 1
        BY <2>5 DEF Bound, Newest
      <3>2. ~(binding[p].key <= Newest(p))
        BY <2>1, <3>1
      <3> QED BY <2>1, <2>2, <2>3, <3>1, <3>2 DEF Steady
    <2>6. CASE binding[p].ready /\ conv[p][binding[p].key] = "live"
      <3>1. Bound(p) = binding[p].key /\ Newest(p) = binding[p].key
        BY <2>6 DEF Bound, Newest
      <3> QED BY <2>1, <2>2, <2>6, <3>1
    <2> QED BY <2>4, <2>5, <2>6
  <1>4. \A p \in Part : \A k \in Key :
          /\ conv'[p][k] = IF k = Bound(p) THEN "live" ELSE conv[p][k]
          /\ conv[p][k] = "archived" => conv'[p][k] = "archived"
    BY <1>2, <1>3
  <1>5. \A p \in Part : Replacing(p)' = Replacing(p)
    BY <1>1 DEF Replacing
  <1>6. ASSUME NEW p \in Part
        PROVE  Steady(p)'
    <2>1. /\ Bound(p) \in Nat /\ binding[p].key \in Nat
          /\ Newest(p) \in Int /\ \A k \in Key : k \in Nat
          /\ op # NoOp => op.key[p] \in Key
      <3>1. binding[p].key \in Key
        BY <1>1, <1>6 DEF NativeType
      <3>2. op # NoOp => op.key[p] \in Key
        BY <1>6 DEF TypeInv, RunType, Record
      <3>3. \A k \in Key : k \in Nat
        BY DEF Key
      <3> QED BY <1>2, <1>6, <3>1, <3>2, <3>3 DEF Newest
    <2>2. Steady(p)
      BY <1>6 DEF TargetInv, World
    <2>3. job'[p].target = Bound(p)
      BY <1>2, <1>6
    <2>4. job'[p].target <= Newest(p)' /\ conv'[p][job'[p].target] = "live"
      BY <1>2, <1>3, <1>4, <1>6, <2>1, <2>3
    <2>5. op # NoOp => op.key[p] <= Newest(p)' /\ conv'[p][op.key[p]] # "absent"
      BY <1>3, <1>4, <1>6, <2>1, <2>2 DEF Steady
    <2>6. ASSUME NEW k \in Key
          PROVE  /\ k > Bound(p) => conv'[p][k] = "absent"
                 /\ conv'[p][k] = "archived" => k <= Newest(p)'
      BY <1>3, <1>4, <1>6, <2>1, <2>2, <2>6 DEF Steady
    <2>7. binding'[p].key = Bound(p)
      BY <1>2, <1>6
    <2> QED BY <1>1, <2>4, <2>5, <2>6, <2>7 DEF Steady
  <1>7. ASSUME NEW r \in inflight
        PROVE  Harmless(r)'
    <2>1. r \in Request /\ Harmless(r)
      BY <1>1, <1>7 DEF NativeType, TargetInv, World
    <2>2. CASE r.kind = "create"
      <3>1. r.part \in Part /\ r.key \in Nat
        BY <2>1, <2>2 DEF Request, Key
      <3>2. binding'[r.part].key = Bound(r.part) /\ Bound(r.part) \in Nat
              /\ binding[r.part].key \in Nat
        BY <1>1, <1>2, <3>1 DEF Key, NativeType
      <3> QED BY <1>3, <2>1, <2>2, <3>1, <3>2 DEF Harmless
    <2>3. CASE r.kind = "archive"
      <3>1. r.part \in Part /\ r.key \in Key
        BY <2>1, <2>3 DEF Request
      <3> QED BY <1>1, <1>4, <1>5, <2>1, <2>3, <3>1 DEF Harmless
    <2>4. CASE r.kind = "retarget"
      <3>1. r.part \in Part /\ r.to \in Key /\ r.to \in Nat /\ r.rev \in Nat
        BY <2>1, <2>4 DEF Request, Key
      <3>2. job[r.part].rev \in Nat /\ Newest(r.part) \in Int /\ Bound(r.part) \in Nat
        <4>1. binding[r.part].key \in Key /\ job[r.part].rev \in Nat
          BY <1>1, <3>1 DEF NativeType
        <4> QED BY <1>2, <3>1, <4>1 DEF Newest, Key
      <3>3. CASE job'[r.part] = job[r.part]
        BY <1>1, <1>3, <1>4, <1>5, <2>1, <2>4, <3>1, <3>2, <3>3 DEF Harmless
      <3>4. CASE job'[r.part].rev = job[r.part].rev + 1
        BY <2>1, <2>4, <3>1, <3>2, <3>4 DEF Harmless
      <3> QED BY <1>2, <3>1, <3>3, <3>4
    <2>5. CASE r.kind \in {"toggle", "chat"}
      BY <2>5 DEF Harmless
    <2> QED BY <2>1, <2>2, <2>3, <2>4, <2>5 DEF Request
  <1>8. Finished'
    BY <1>1 DEF TargetInv, World, Finished
  <1>9. Working'
    <2>1. run.pc \notin Anew
      BY <1>1 DEF Locked, Anew
    <2>2. CASE run.pc \in {"archive", "replace"}
      <3>1. op \in Record /\ run.part \in Part /\ op.key[run.part] \in Key
        BY <2>2, AtWork DEF Record
      <3> QED BY <1>1, <1>4, <2>1, <2>2, <3>1 DEF TargetInv, Working, Anew
    <2>3. CASE run.pc \notin {"archive", "replace"}
      BY <1>1, <2>1, <2>3 DEF Working, Anew
    <2> QED BY <2>2, <2>3
  <1> QED BY <1>1, <1>6, <1>7, <1>8, <1>9 DEF TargetInv, World

LEMMA TargetPauses ==
  ASSUME TypeInv, TargetInv, NEW p \in Part, OperatorPauses(p)
  PROVE  TargetInv'
  <1>1. /\ op' = op /\ run' = run /\ run = Idle /\ conv' = conv /\ binding' = binding
        /\ inflight' = inflight /\ NativeType
    BY DEF OperatorPauses, threads, TypeInv
  <1>2. \A q \in Part : /\ job'[q].target = job[q].target
                        /\ job'[q] = job[q] \/ job'[q].rev = job[q].rev + 1
    BY <1>1 DEF OperatorPauses, NativeType
  <1>3. \A q : Newest(q)' = Newest(q) /\ Replacing(q)' = Replacing(q)
    BY <1>1 DEF Newest, Replacing
  <1>4. \A q \in Part : Steady(q)'
    BY <1>1, <1>2, <1>3 DEF TargetInv, World, Steady
  <1>5. ASSUME NEW r \in inflight
        PROVE  Harmless(r)'
    <2>1. r \in Request /\ Harmless(r)
      BY <1>1, <1>5 DEF NativeType, TargetInv, World
    <2>2. CASE r.kind = "retarget"
      <3>1. r.part \in Part /\ r.rev \in Nat /\ job[r.part].rev \in Nat
        BY <1>1, <2>1, <2>2 DEF Request, NativeType
      <3> QED BY <1>1, <1>2, <1>3, <2>1, <2>2, <3>1 DEF Harmless
    <2>3. CASE r.kind # "retarget"
      BY <1>1, <1>3, <2>1, <2>3 DEF Harmless
    <2> QED BY <2>2, <2>3
  <1>6. Working'
    BY <1>1, NotWorking, IdleType DEF Anew
  <1> QED BY <1>1, <1>4, <1>5, <1>6 DEF TargetInv, World, Finished

LEMMA TargetOther ==
  ASSUME TypeInv, TargetInv,
         \/ Crash \/ Pass \/ TurnEnds \/ SessionAppears \/ UNCHANGED vars
         \/ \E p \in Part : Fire(p) \/ CoordinatorEnds(p)
  PROVE  TargetInv'
  <1>1. job' = job /\ conv' = conv /\ binding' = binding /\ op' = op
    BY DEF Crash, Pass, TurnEnds, SessionAppears, Fire, CoordinatorEnds, vars, threads
  <1>2. inflight' = inflight /\ (run' = run \/ run' = Idle)
    BY DEF Crash, Pass, TurnEnds, SessionAppears, Fire, CoordinatorEnds, vars
  <1>3. World'
    BY <1>1, <1>2, WorldKept DEF SameRecord, TargetInv
  <1>4. Working'
    BY <1>1, <1>2, NotWorking, IdleType DEF TargetInv, Working, Anew
  <1> QED BY <1>3, <1>4 DEF TargetInv

LEMMA TargetInit == Init => TargetInv
  <1> SUFFICES ASSUME Init PROVE TargetInv
    OBVIOUS
  <1>1. 1 \in Key /\ \A k \in Key : k \in Nat
    BY BoundsAssumption DEF Key
  <1>2. /\ \A p \in Part : job[p].target = 1 /\ binding[p] = [key |-> 1, ready |-> TRUE]
        /\ \A p \in Part : \A k \in Key : conv[p][k] = IF k = 1 THEN "live" ELSE "absent"
        /\ op = NoOp /\ inflight = {} /\ run = Idle
    BY DEF Init
  <1>3. \A p \in Part : Newest(p) = 1
    BY <1>2 DEF Newest
  <1>4. ASSUME NEW p \in Part
        PROVE  Steady(p)
    <2>1. \A k \in Key : k > 1 => k # 1
      BY <1>1
    <2> QED BY <1>1, <1>2, <1>3, <1>4, <2>1 DEF Steady
  <1> QED BY <1>2, <1>4, IdleType DEF TargetInv, World, Working, Finished, Anew

LEMMA TargetStep == TypeInv /\ TargetInv /\ [Next]_vars => TargetInv'
  <1> SUFFICES ASSUME TypeInv, TargetInv, [Next]_vars PROVE TargetInv'
    OBVIOUS
  <1>1. CASE Steps
    BY <1>1, TargetEarly, TargetToggle, TargetArchiveChat, TargetCoordinator, TargetArchive,
       TargetReplace, TargetCreate, TargetRetarget, TargetUpdate, TargetReadback, TargetRemove
       DEF Steps
  <1>2. CASE \E fresh \in BOOLEAN : Start(fresh)
    BY <1>2, TargetStart
  <1>3. CASE \E p \in Part : Fire(p) \/ CoordinatorEnds(p) \/ OperatorPauses(p)
    BY <1>3, TargetPauses, TargetOther
  <1> QED BY <1>1, <1>2, <1>3, TargetArrive, TargetSyncs, TargetOther DEF Next

-------------------------------------------------------------------------------
(* Unless the operator synchronizes, each schedule gets back its setting.  A   *)
(* late pause or its reverse that would still be carried out is one that the   *)
(* reset is still to see carried out.                                          *)
Timely(r) ==
  r.kind = "toggle" =>
    /\ r.rev <= job[r.part].rev
    /\ r.rev = job[r.part].rev =>
         /\ op # NoOp
         /\ \/ op.phase = "pause" /\ ~r.on /\ job[r.part].on
            \/ /\ op.phase = "restore"
               /\ r.on = op.setting[r.part] /\ job[r.part].on # op.setting[r.part]

Remembered == /\ op = NoOp => \A p \in Part : job[p].on = before[p]
              /\ op # NoOp => op.setting = before

(* What a run has seen of the schedules it is done with.                      *)
Turned ==
  /\ (run.pc \in {"intend", "pause"} /\ run.part = "pickup") \/ run.pc = "paused"
       => ~job["intake"].on
  /\ run.pc = "paused" => ~job["pickup"].on
  /\ (run.pc = "restore" /\ run.part = "pickup") \/ run.pc = "remove"
       => job["intake"].on = op.setting["intake"]
  /\ run.pc = "remove" => job["pickup"].on = op.setting["pickup"]

Given == Remembered /\ (\A r \in inflight : Timely(r)) /\ Turned
SettingInv == count.syncs = 0 => Given

LEMMA NotTurning ==
  ASSUME \/ run'.pc \notin {"intend", "pause", "paused", "restore", "remove"}
         \/ run'.pc \in {"intend", "pause", "restore"} /\ run'.part = "intake"
  PROVE  Turned'
  BY DEF Turned

LEMMA GivenKept ==
  ASSUME Given, job' = job, before' = before,
         \A r \in inflight' : r \in inflight \/ r.kind # "toggle",
         \/ op' = op
         \/ /\ op # NoOp /\ op' # NoOp /\ op'.setting = op.setting
            /\ op.phase = "pause" => op'.phase = "pause"
            /\ op.phase = "restore" => op'.phase = "restore",
         Turned'
  PROVE  Given'
  <1>1. Remembered'
    BY DEF Given, Remembered
  <1>2. ASSUME NEW r \in inflight'
        PROVE  Timely(r)'
    <2>1. CASE r.kind # "toggle"
      BY <2>1 DEF Timely
    <2>2. CASE r \in inflight
      BY <2>2 DEF Given, Timely
    <2> QED BY <1>2, <2>1, <2>2
  <1> QED BY <1>1, <1>2 DEF Given

(* The steps with a request other than a toggle, or none.                     *)
LEMMA GivenCarried ==
  ASSUME TypeInv, Given, NEW r \in Request, Timely(r), Carried(r), op' = op, before' = before,
         inflight' \subseteq inflight
  PROVE  /\ Remembered' /\ \A q \in inflight' : Timely(q)'
         /\ \A p \in Part :
              \/ job'[p].on = job[p].on
              \/ /\ op # NoOp
                 /\ \/ op.phase = "pause" /\ ~job'[p].on
                    \/ op.phase = "restore" /\ job'[p].on = op.setting[p]
  <1>1. NativeType
    BY DEF TypeInv
  <1>2. ASSUME NEW p \in Part
        PROVE  /\ job'[p] = job[p] \/ job'[p].rev = job[p].rev + 1
               /\ \/ job'[p].on = job[p].on
                  \/ /\ op # NoOp
                     /\ \/ op.phase = "pause" /\ ~job'[p].on
                        \/ op.phase = "restore" /\ job'[p].on = op.setting[p]
    <2>1. CASE r.kind = "toggle" /\ r.part = p /\ job[p].rev = r.rev
      <3>1. job' = [job EXCEPT ![p].on = r.on, ![p].rev = @ + 1]
        BY <2>1 DEF Carried
      <3>2. job'[p].on = r.on /\ job'[p].rev = job[p].rev + 1
        BY <1>1, <1>2, <3>1 DEF NativeType
      <3> QED BY <2>1, <3>2 DEF Timely
    <2>2. CASE r.kind = "toggle" /\ ~(r.part = p /\ job[p].rev = r.rev)
      <3>1. r.part \in Part
        BY <2>2 DEF Request
      <3>2. job'[p] = job[p]
        BY <1>1, <1>2, <2>2, <3>1 DEF Carried, NativeType
      <3> QED BY <3>2
    <2>3. CASE r.kind = "retarget"
      <3>1. r.part \in Part
        BY <2>3 DEF Request
      <3> QED BY <1>1, <1>2, <2>3, <3>1 DEF Carried, NativeType
    <2>4. CASE r.kind \in {"archive", "create", "chat"}
      BY <2>4 DEF Carried
    <2> QED BY <2>1, <2>2, <2>3, <2>4 DEF Request
  <1>3. Remembered'
    BY <1>2 DEF Given, Remembered
  <1>4. ASSUME NEW q \in inflight
        PROVE  Timely(q)'
    <2>1. q \in Request /\ Timely(q)
      BY <1>1, <1>4 DEF NativeType, Given
    <2>2. CASE q.kind = "toggle"
      <3>1. q.part \in Part /\ q.rev \in Nat /\ job[q.part].rev \in Nat
        BY <1>1, <2>1, <2>2 DEF Request, NativeType
      <3>2. CASE job'[q.part] = job[q.part]
        BY <2>1, <3>2 DEF Timely
      <3>3. CASE job'[q.part].rev = job[q.part].rev + 1
        BY <2>1, <2>2, <3>1, <3>3 DEF Timely
      <3> QED BY <1>2, <3>1, <3>2, <3>3
    <2>3. CASE q.kind # "toggle"
      BY <2>3 DEF Timely
    <2> QED BY <2>2, <2>3
  <1> QED BY <1>2, <1>3, <1>4

LEMMA GivenOtherCall ==
  ASSUME TypeInv, Given, NEW r \in Request, r.kind # "toggle", NEW next, Call(r, next), op' = op,
         before' = before, Turned'
  PROVE  Given'
  <1>1. Timely(r)
    BY DEF Timely
  <1>2. CASE Carried(r) /\ inflight' = inflight
    BY <1>1, <1>2, GivenCarried DEF Given
  <1>3. CASE inflight' = inflight \cup {r} /\ UNCHANGED <<job, conv, chat>>
    BY <1>3, GivenKept
  <1> QED BY <1>2, <1>3 DEF Call

LEMMA GivenArrive == ASSUME TypeInv, Given, Arrive PROVE Given'
  <1>1. PICK r \in inflight : Carried(r) /\ inflight' = inflight \ {r}
    BY DEF Arrive
  <1>2. r \in Request /\ Timely(r) /\ op' = op /\ before' = before /\ run' = run
    BY DEF Arrive, history, Given, TypeInv, NativeType
  <1>3. /\ Remembered' /\ \A q \in inflight' : Timely(q)'
        /\ \A p \in Part :
             \/ job'[p].on = job[p].on
             \/ /\ op # NoOp
                /\ \/ op.phase = "pause" /\ ~job'[p].on
                   \/ op.phase = "restore" /\ job'[p].on = op.setting[p]
    BY <1>1, <1>2, GivenCarried
  <1>4. /\ run.pc \in {"intend", "pause", "paused"} => op.phase = "pause"
        /\ run.pc \in {"restore", "remove"} => op.phase = "restore"
    BY DEF TypeInv, RunType, InPhase
  <1>5. "intake" \in Part /\ "pickup" \in Part
    BY DEF Part
  <1>6. Turned'
    BY <1>2, <1>3, <1>4, <1>5 DEF Given, Turned
  <1> QED BY <1>3, <1>6 DEF Given

(* A pause is requested of a schedule that is on, its reverse of one that is  *)
(* not as it was found.                                                       *)
LEMMA GivenToggle ==
  ASSUME TypeInv, Given, NEW on \in BOOLEAN, NEW next, op' = op, before' = before, op # NoOp,
         NEW p \in Part,
         Call([kind |-> "toggle", part |-> p, rev |-> job[p].rev, on |-> on], next),
         \/ op.phase = "pause" /\ ~on /\ job[p].on
         \/ op.phase = "restore" /\ on = op.setting[p] /\ job[p].on # op.setting[p]
  PROVE  /\ Remembered' /\ \A q \in inflight' : Timely(q)'
         /\ run' = Idle \/ /\ run' = next /\ job'[p].on = on
                           /\ \A q \in Part : q # p => job'[q].on = job[q].on
  <1> DEFINE r == [kind |-> "toggle", part |-> p, rev |-> job[p].rev, on |-> on]
  <1>1. NativeType /\ job[p] \in [on : BOOLEAN, target : Key, rev : Nat]
    BY DEF TypeInv, NativeType
  <1>2. r \in Request /\ Timely(r)
    BY <1>1 DEF Request, Timely
  <1>3. CASE Carried(r) /\ run' = next /\ inflight' = inflight
    <2>1. job' = [job EXCEPT ![p].on = on, ![p].rev = @ + 1]
      BY <1>3 DEF Carried
    <2>2. job'[p].on = on /\ \A q \in Part : q # p => job'[q].on = job[q].on
      BY <1>1, <2>1 DEF NativeType
    <2> HIDE DEF r
    <2>3. Remembered' /\ \A q \in inflight' : Timely(q)'
      BY <1>2, <1>3, GivenCarried
    <2> QED BY <1>3, <2>2, <2>3
  <1>4. CASE inflight' = inflight \cup {r} /\ run' = Idle /\ UNCHANGED <<job, conv, chat>>
    <2>1. Remembered'
      BY <1>4 DEF Given, Remembered
    <2>2. \A q \in inflight : Timely(q)'
      BY <1>4 DEF Given, Timely
    <2>3. Timely(r)'
      BY <1>2, <1>4 DEF Timely
    <2> QED BY <1>4, <2>1, <2>2, <2>3
  <1> QED BY <1>3, <1>4 DEF Call

LEMMA GivenPause == ASSUME TypeInv, Given, Pause PROVE Given'
  <1>0. PICK p \in Part : p = run.part
    BY AtWork DEF Pause
  <1>1. op \in Record /\ op # NoOp /\ op.phase = "pause" /\ run.pc = "pause" /\ op' = op
    BY AtWork, NoOpAside DEF Pause, PhasesOf, Stop
  <1>2. p = "intake" \/ p = "pickup"
    BY DEF Part
  <1>3. /\ p = "pickup" => ~job["intake"].on
    BY <1>0, <1>1 DEF Given, Turned
  <1>4. CASE ~job[p].on /\ run' = AfterPause /\ Local
    <2>1. Turned'
      BY <1>0, <1>2, <1>3, <1>4 DEF AfterPause, At, Idle, Turned, Local
    <2> QED BY <1>1, <1>4, <2>1, GivenKept DEF Local, history
  <1>5. CASE /\ job[p].on
             /\ Call([kind |-> "toggle", part |-> p, rev |-> job[p].rev, on |-> FALSE], AfterPause)
             /\ UNCHANGED history
    <2>1. /\ Remembered' /\ \A q \in inflight' : Timely(q)'
          /\ run' = Idle \/ /\ run' = AfterPause /\ job'[p].on = FALSE
                            /\ \A q \in Part : q # p => job'[q].on = job[q].on
      BY <1>1, <1>5, GivenToggle DEF history
    <2>2. CASE run' = Idle
      BY <2>1, <2>2, NotTurning, IdleType DEF Given
    <2>3. CASE /\ run' = AfterPause /\ job'[p].on = FALSE
               /\ \A q \in Part : q # p => job'[q].on = job[q].on
      <3>1. Turned'
        BY <1>0, <1>2, <1>3, <2>3 DEF AfterPause, At, Idle, Turned, Part
      <3> QED BY <2>1, <3>1 DEF Given
    <2> QED BY <2>1, <2>2, <2>3
  <1>6. CASE run' = Idle /\ Local
    BY <1>1, <1>6, NotTurning, IdleType, GivenKept DEF Local, history
  <1> QED BY <1>0, <1>4, <1>5, <1>6 DEF Pause, Stop

LEMMA GivenRestore == ASSUME TypeInv, Given, Restore PROVE Given'
  <1>0. PICK p \in Part : p = run.part
    BY AtWork DEF Restore
  <1>1. op \in Record /\ op # NoOp /\ op.phase = "restore" /\ run.pc = "restore" /\ op' = op
    BY AtWork, NoOpAside DEF Restore, PhasesOf
  <1>2. p = "intake" \/ p = "pickup"
    BY DEF Part
  <1>3. p = "pickup" => job["intake"].on = op.setting["intake"]
    BY <1>0, <1>1 DEF Given, Turned
  <1>4. CASE job[p].on = op.setting[p] /\ run' = AfterRestore /\ Local
    <2>1. Turned'
      BY <1>0, <1>1, <1>2, <1>3, <1>4 DEF AfterRestore, At, Idle, Turned, Local
    <2> QED BY <1>1, <1>4, <2>1, GivenKept DEF Local, history
  <1>5. CASE /\ job[p].on # op.setting[p]
             /\ Call([kind |-> "toggle", part |-> p, rev |-> job[p].rev, on |-> op.setting[p]],
                     AfterRestore)
             /\ UNCHANGED history
    <2>0. op.setting[p] \in BOOLEAN
      BY <1>1 DEF Record, Flags
    <2>1. /\ Remembered' /\ \A q \in inflight' : Timely(q)'
          /\ run' = Idle \/ /\ run' = AfterRestore /\ job'[p].on = op.setting[p]
                            /\ \A q \in Part : q # p => job'[q].on = job[q].on
      BY <1>1, <1>5, <2>0, GivenToggle DEF history
    <2>2. CASE run' = Idle
      BY <2>1, <2>2, NotTurning, IdleType DEF Given
    <2>3. CASE /\ run' = AfterRestore /\ job'[p].on = op.setting[p]
               /\ \A q \in Part : q # p => job'[q].on = job[q].on
      <3>1. Turned'
        BY <1>0, <1>1, <1>2, <1>3, <2>3 DEF AfterRestore, At, Idle, Turned, Part
      <3> QED BY <2>1, <3>1 DEF Given
    <2> QED BY <2>1, <2>2, <2>3
  <1>6. CASE run' = Idle /\ Local
    BY <1>1, <1>6, NotTurning, IdleType, GivenKept DEF Local, history
  <1> QED BY <1>0, <1>4, <1>5, <1>6 DEF Restore

LEMMA GivenEarly ==
  ASSUME TypeInv, Given,
         Gate \/ Intend \/ Paused \/ Turns \/ Clear \/ Cleared \/ Purge \/ RemoveTree \/ Purged
           \/ Baseline \/ Baselined \/ ArchiveChat
  PROVE  Given'
  <1>1. CASE Gate \/ Clear \/ Baseline
    <2>1. op' = op /\ NativeSame /\ run' \in {Idle, At("turns", "intake"), At("cleared", "intake"),
                                             At("baselined", "intake")}
      BY <1>1 DEF Gate, Clear, Baseline, Local, history, NativeSame
    <2>2. Turned'
      BY <2>1, NotTurning, PcAt, IdleType
    <2> QED BY <2>1, <2>2, GivenKept DEF NativeSame
  <1>2. CASE Intend
    <2>1. /\ op \in Record /\ op' \in Record /\ op'.setting = op.setting /\ NativeSame
          /\ op.phase = "pause" /\ run.pc = "intend" /\ run.part \in Part
      BY <1>2, EarlySteps, AtWork DEF Intend, PhasesOf
    <2>2. op'.phase = "pause"
      BY <1>2, <2>1, FlagSet DEF Intend
    <2>3. run'.pc = "pause" /\ run'.part = run.part
      BY <1>2 DEF Intend, At, Idle
    <2>4. Turned'
      BY <2>1, <2>3 DEF Given, Turned, NativeSame
    <2> QED BY <2>1, <2>2, <2>4, GivenKept, NoOpAside DEF NativeSame
  <1>3. CASE Paused
    <2>1. /\ op \in Record /\ op' \in Record /\ op'.setting = op.setting /\ NativeSame
          /\ op.phase = "pause"
      BY <1>3, EarlySteps, AtWork DEF Paused, PhasesOf
    <2>2. \A p \in Part : ~job[p].on
      BY <1>3 DEF Paused, Given, Turned, Part
    <2>3. \A r \in inflight' : Timely(r)'
      <3> SUFFICES ASSUME NEW r \in inflight PROVE Timely(r)'
        BY <2>1 DEF NativeSame
      <3>1. r.kind = "toggle" => r.part \in Part
        BY DEF TypeInv, NativeType, Request
      <3> QED BY <2>1, <2>2, <3>1 DEF Given, Timely, NativeSame
    <2>4. Remembered'
      BY <2>1, NoOpAside DEF Given, Remembered, NativeSame
    <2> QED BY <1>3, <2>3, <2>4, NotTurning, PcAt DEF Paused, Given
  <1>4. CASE Turns \/ Cleared \/ Purge \/ RemoveTree \/ Purged
    <2>1. /\ op \in Record /\ op' \in Record /\ op'.setting = op.setting /\ NativeSame
          /\ op.phase \in Early
      BY <1>4, EarlySteps
    <2>2. op.phase # "pause"
      BY <1>4, AtWork DEF Turns, Cleared, Purge, RemoveTree, ObserveTree, ListTree, DropTree,
                          Purged, PhasesOf
    <2>3. run'.pc \notin {"intend", "pause", "paused", "restore", "remove"}
      <3>1. CASE Turns
        <4>1. op.phase \in {"drain", "clear", "purge", "baseline"} /\ op \in Record
          BY <3>1, AtWork DEF Turns, PhasesOf
        <4>2. CASE op' = [Preserving EXCEPT !.phase = IF @ = "drain" THEN "clear" ELSE @]
                     /\ run' = At(op'.phase, "intake")
          <5>1. op'.phase \in {"clear", "purge", "baseline"}
            BY <4>1, <4>2, Preserved DEF Record
          <5> QED BY <4>2, <5>1, PcAt
        <4> QED BY <3>1, <4>2, IdleType DEF Turns, Stop
      <3>2. CASE Cleared
        <4>1. op'.phase \in {"purge", "baseline"}
          BY <2>1, <3>2 DEF Cleared, Record
        <4> QED BY <3>2, <4>1, PcAt DEF Cleared
      <3>3. CASE Purge \/ Purged
        BY <3>3, PcAt DEF Purge, Purged
      <3>4. CASE RemoveTree
        BY <3>4, PcAt, IdleType DEF RemoveTree, ObserveTree, ListTree, DropTree, Stop
      <3> QED BY <1>4, <3>1, <3>2, <3>3, <3>4
    <2>4. op.phase # "restore"
      BY <2>1 DEF Early
    <2> QED BY <2>1, <2>2, <2>3, <2>4, NotTurning, GivenKept, NoOpAside DEF NativeSame
  <1>5. CASE Baselined
    <2>1. op \in Record /\ op.phase = "baseline"
      BY <1>5, AtWork DEF Baselined, PhasesOf
    <2>2. op' \in Record /\ op'.setting = op.setting
      <3>1. op' \in Record
        BY <1>5, <2>1, PhaseSet DEF Baselined, Phase
      <3> QED BY <1>5, <2>1, <3>1 DEF Baselined, Record
    <2>3. Turned'
      BY <1>5, NotTurning, PcAt DEF Baselined
    <2> QED BY <1>5, <2>1, <2>2, <2>3, GivenKept, NoOpAside DEF Baselined, Local, history
  <1>6. CASE ArchiveChat
    <2>1. job' = job /\ op' = op /\ before' = before
      BY <1>6 DEF ArchiveChat, Stop, Local, history, Call, Carried
    <2>2. \A r \in inflight' : r \in inflight \/ r.kind # "toggle"
      BY <1>6 DEF ArchiveChat, Local, Call
    <2>3. run' \in {Idle, At("chatPurged", "intake")}
      BY <1>6 DEF ArchiveChat, Stop, Call
    <2>4. Turned'
      BY <2>3, NotTurning, PcAt, IdleType
    <2> QED BY <2>1, <2>2, <2>4, GivenKept
  <1> QED BY <1>1, <1>2, <1>3, <1>4, <1>5, <1>6

(* The replacement leaves the settings alone.                                 *)
LEMMA GivenReplacement ==
  ASSUME TypeInv, Given,
         Coordinator \/ Archive \/ Replace \/ Create \/ Retarget \/ Update \/ Readback
  PROVE  Given'
  <1>1. /\ op \in Record /\ op # NoOp /\ op.phase = "coordinator" /\ run.part \in Part
        /\ run \in Runs
        /\ run.pc \in {"coordinator", "archive", "replace", "create", "retarget", "update",
                       "readback"}
    BY AtWork, NoOpAside DEF Coordinator, Archive, Replace, Create, Retarget, Update, Readback,
                             PhasesOf, TypeInv, RunType
  <1>2. before' = before
    BY DEF Coordinator, Archive, Replace, Create, Retarget, Update, Readback, Quiet, Local, history
  <1>3. Turned'
    <2>1. CASE Coordinator \/ Archive \/ Readback
      <3>1. \/ \E p : run' \in {At("replace", p), At("archive", p)}
            \/ run' \in {Idle, At("restore", "intake"), At("coordinator", "intake")}
        BY <2>1 DEF Coordinator, Archive, Readback, Call, Stop
      <3>2. At("restore", "intake").part = "intake"
        BY DEF At
      <3> QED BY <3>1, <3>2, NotTurning, PcAt, IdleType
    <2>2. CASE Replace
      <3>1. \/ run' = Idle
            \/ run' = [At("create", run.part) EXCEPT !.rev = job[run.part].rev]
        BY <2>2 DEF Replace, Stop
      <3>2. [At("create", run.part) EXCEPT !.rev = job[run.part].rev].pc = "create"
        BY DEF At, Idle
      <3> QED BY <3>1, <3>2, NotTurning, IdleType
    <2>3. CASE Create \/ Retarget \/ Update
      <3>1. \/ run' \in {Idle, run}
            \/ \E pc \in {"retarget", "readback", "update"} : run' = [run EXCEPT !.pc = pc]
        BY <2>3 DEF Create, Retarget, Update, Call, Stop
      <3>2. \A pc \in {"retarget", "readback", "update"} : [run EXCEPT !.pc = pc].pc = pc
        BY <1>1 DEF Runs
      <3> QED BY <1>1, <3>1, <3>2, NotTurning, IdleType
    <2> QED BY <2>1, <2>2, <2>3
  <1>4. CASE Coordinator \/ Retarget \/ Readback
    <2>1. op' # NoOp /\ op'.setting = op.setting
      <3>1. CASE Coordinator
        BY <1>1, <3>1 DEF Coordinator, Stop, Record, NoOp
      <3>2. CASE Retarget
        BY <1>1, <3>2 DEF Retarget, Stop, Record, NoOp
      <3>3. CASE Readback
        BY <1>1, <3>3 DEF Readback, Record, NoOp
      <3> QED BY <1>4, <3>1, <3>2, <3>3
    <2>2. job' = job /\ inflight' = inflight
      BY <1>4 DEF Coordinator, Retarget, Readback, Quiet, Local
    <2> QED BY <1>1, <1>2, <1>3, <2>1, <2>2, GivenKept
  <1>5. CASE Archive
    <2>1. [kind |-> "archive", part |-> run.part, key |-> op.key[run.part]] \in Request
      BY <1>1 DEF Request, Record
    <2> QED BY <1>2, <1>3, <1>5, <2>1, GivenOtherCall DEF Archive
  <1>6. CASE Replace
    BY <1>2, <1>3, <1>6, GivenKept DEF Replace, Stop
  <1>7. CASE Create
    <2>1. CASE Call([kind |-> "create", part |-> run.part, key |-> binding[run.part].key], run)
                 /\ op' = op
      <3>1. binding[run.part].key \in Key
        BY <1>1 DEF TypeInv, NativeType
      <3>2. [kind |-> "create", part |-> run.part, key |-> binding[run.part].key] \in Request
        BY <1>1, <3>1 DEF Request
      <3> QED BY <1>2, <1>3, <2>1, <3>2, GivenOtherCall
    <2>2. CASE UNCHANGED <<op, conv, job, chat, inflight, count>>
      BY <1>2, <1>3, <2>2, GivenKept
    <2> QED BY <1>7, <2>1, <2>2 DEF Create
  <1>8. CASE Update
    <2>1. binding[run.part].key \in Key /\ run.rev \in Nat
      BY <1>1 DEF TypeInv, NativeType, Runs
    <2>2. [kind |-> "retarget", part |-> run.part, rev |-> run.rev, to |-> binding[run.part].key]
            \in Request
      BY <1>1, <2>1 DEF Request
    <2> QED BY <1>2, <1>3, <1>8, <2>2, GivenOtherCall DEF Update
  <1> QED BY <1>4, <1>5, <1>6, <1>7, <1>8

LEMMA GivenRemove == ASSUME TypeInv, Given, Remove PROVE Given'
  <1>1. op \in Record /\ op # NoOp /\ op.phase = "restore" /\ op' = NoOp
    BY AtWork, NoOpAside DEF Remove, PhasesOf
  <1>2. job' = job /\ before' = before /\ inflight' = inflight
    BY DEF Remove, Local, history
  <1>3. \A p \in Part : job[p].on = op.setting[p] /\ op.setting[p] = before[p]
    BY <1>1 DEF Remove, Given, Turned, Remembered, Part
  <1>4. Remembered'
    BY <1>1, <1>2, <1>3 DEF Remembered
  <1>5. \A r \in inflight' : Timely(r)'
    <2> SUFFICES ASSUME NEW r \in inflight PROVE Timely(r)'
      BY <1>2
    <2>1. r.kind = "toggle" => r.part \in Part
      BY DEF TypeInv, NativeType, Request
    <2> QED BY <1>1, <1>2, <1>3, <2>1 DEF Given, Timely
  <1> QED BY <1>4, <1>5, NotTurning, IdleType DEF Remove, Given

LEMMA GivenStart ==
  ASSUME TypeInv, Given, NEW fresh \in BOOLEAN, Start(fresh)
  PROVE  Given'
  <1>1. job' = job /\ before' = before /\ inflight' = inflight
    BY DEF Start
  <1>2. Turned'
    <2>1. run'.part = "intake"
      BY DEF Start, At
    <2>2. op'.phase \in Phase
      BY FoundType, RestartedType DEF Start, TypeInv, RunType, Record
    <2>3. EntryOf(op'.phase) \notin {"paused", "remove"}
      BY <2>2 DEF EntryOf, Phase
    <2> QED BY <2>1, <2>3, PcAt, NotTurning DEF Start
  <1>3. ASSUME op = NoOp, NEW purge \in BOOLEAN, op' = Found(fresh, purge)
        PROVE  Given'
    <2>1. op'.setting = [p \in Part |-> job[p].on]
      BY <1>3 DEF Found
    <2>2. op'.setting = before
      BY <1>3, <2>1 DEF Given, Remembered, TypeInv, WorldType, Flags
    <2>3. op' # NoOp
      BY <1>3, FoundType, NoOpAside
    <2>4. \A r \in inflight' : Timely(r)'
      BY <1>1, <1>3 DEF Given, Timely
    <2> QED BY <1>1, <1>2, <2>2, <2>3, <2>4 DEF Given, Remembered
  <1>4. CASE op # NoOp /\ op' = op
    BY <1>1, <1>2, <1>4, GivenKept
  <1>5. CASE op # NoOp /\ op' = Restarted
    <2>1. op \in Record /\ Restarted.setting = op.setting
      BY <1>5 DEF TypeInv, RunType, Restarted, Record
    <2> QED BY <1>1, <1>2, <1>5, <2>1, RestartedType, GivenKept, NoOpAside
  <1> QED BY <1>3, <1>4, <1>5 DEF Start

LEMMA GivenPauses ==
  ASSUME TypeInv, Given, NEW p \in Part, OperatorPauses(p)
  PROVE  Given'
  <1>1. /\ op' = op /\ op # NoOp /\ run' = Idle /\ before' = before /\ inflight' = inflight
        /\ NativeType
    BY DEF OperatorPauses, history, TypeInv
  <1>2. \A q \in Part : job'[q] = job[q] \/ job'[q].rev = job[q].rev + 1
    BY <1>1 DEF OperatorPauses, NativeType
  <1>3. ASSUME NEW r \in inflight
        PROVE  Timely(r)'
    <2>1. r \in Request /\ Timely(r)
      BY <1>1, <1>3 DEF NativeType, Given
    <2>2. CASE r.kind = "toggle"
      <3>1. r.part \in Part /\ r.rev \in Nat /\ job[r.part].rev \in Nat
        BY <1>1, <2>1, <2>2 DEF Request, NativeType
      <3> QED BY <1>1, <1>2, <2>1, <2>2, <3>1 DEF Timely
    <2>3. CASE r.kind # "toggle"
      BY <2>3 DEF Timely
    <2> QED BY <2>2, <2>3
  <1> QED BY <1>1, <1>3, NotTurning, IdleType DEF Given, Remembered

LEMMA GivenOther ==
  ASSUME TypeInv, Given,
         \/ Crash \/ Pass \/ TurnEnds \/ SessionAppears \/ UNCHANGED vars
         \/ \E p \in Part : Fire(p) \/ CoordinatorEnds(p)
  PROVE  Given'
  <1>1. job' = job /\ op' = op /\ before' = before /\ inflight' = inflight
    BY DEF Crash, Pass, TurnEnds, SessionAppears, Fire, CoordinatorEnds, vars, history
  <1>2. run' = run \/ run' = Idle
    BY DEF Crash, Pass, TurnEnds, SessionAppears, Fire, CoordinatorEnds, vars
  <1>3. Turned'
    BY <1>1, <1>2, NotTurning, IdleType DEF Given, Turned
  <1> QED BY <1>1, <1>3, GivenKept

LEMMA SettingInit == Init => SettingInv
  BY IdleType DEF Init, SettingInv, Given, Remembered, Turned

LEMMA SettingStep == TypeInv /\ SettingInv /\ [Next]_vars => SettingInv'
  <1> SUFFICES ASSUME TypeInv, SettingInv, [Next]_vars, count'.syncs = 0 PROVE Given'
    BY DEF SettingInv
  <1>0. CASE OperatorSyncs
    <2>1. count'.syncs = count.syncs + 1 /\ count.syncs \in Nat
      BY <1>0 DEF OperatorSyncs, TypeInv, WorldType
    <2> QED BY <2>1
  <1>1. CASE Steps
    <2>1. count'.syncs = count.syncs
      <3>1. count' = count \/ count' = [count EXCEPT !.faults = @ + 1]
        <4>1. CASE Gate \/ Intend \/ Paused \/ Turns \/ Clear \/ Cleared \/ Purge \/ RemoveTree
                   \/ Purged \/ Baseline \/ Baselined
          BY <4>1 DEF Gate, Intend, Paused, Turns, Clear, Cleared, Purge, RemoveTree, ObserveTree,
                      ListTree, DropTree, Purged,
                      Baseline, Baselined, Local
        <4>2. CASE Coordinator \/ Replace \/ Retarget \/ Readback \/ Remove
          BY <4>2 DEF Coordinator, Replace, Retarget, Readback, Remove, Local, Quiet
        <4>3. CASE Pause \/ ArchiveChat \/ Archive
          BY <4>3 DEF Pause, ArchiveChat, Archive, Local, Call
        <4>4. CASE Create \/ Update \/ Restore
          BY <4>4 DEF Create, Update, Restore, Local, Call
        <4> QED BY <1>1, <4>1, <4>2, <4>3, <4>4 DEF Steps
      <3> QED BY <3>1 DEF TypeInv, WorldType
    <2>2. Given
      BY <2>1 DEF SettingInv
    <2> QED BY <1>1, <2>2, GivenEarly, GivenPause, GivenRestore, GivenReplacement, GivenRemove
            DEF Steps
  <1>2. CASE \E fresh \in BOOLEAN : Start(fresh)
    <2>1. count'.syncs = count.syncs
      BY <1>2 DEF Start, TypeInv, WorldType
    <2> QED BY <1>2, <2>1, GivenStart DEF SettingInv
  <1>3. CASE Crash \/ Arrive \/ Pass \/ TurnEnds \/ SessionAppears \/ UNCHANGED vars
               \/ \E p \in Part : Fire(p) \/ CoordinatorEnds(p) \/ OperatorPauses(p)
    <2>1. count'.syncs = count.syncs
      <3>1. count' = count \/ count' = [count EXCEPT !.faults = @ + 1]
        <4>1. CASE Arrive
          BY <4>1 DEF Arrive
        <4>2. CASE Crash \/ Pass \/ TurnEnds \/ SessionAppears \/ UNCHANGED vars
          BY <4>2 DEF Crash, Pass, TurnEnds, SessionAppears, vars
        <4>3. CASE \E p \in Part : Fire(p) \/ CoordinatorEnds(p) \/ OperatorPauses(p)
          BY <4>3 DEF Fire, CoordinatorEnds, OperatorPauses
        <4> QED BY <1>3, <4>1, <4>2, <4>3
      <3> QED BY <3>1 DEF TypeInv, WorldType
    <2>2. Given
      BY <2>1 DEF SettingInv
    <2> QED BY <1>3, <2>2, GivenArrive, GivenPauses, GivenOther
  <1> QED BY <1>0, <1>1, <1>2, <1>3 DEF Next

(* Whatever was lost, repeated or carried out late: when no reset is retained *)
(* intake has its baseline, every schedule wakes a live conversation, and is  *)
(* on or off as it was, unless the operator synchronized.                     *)
THEOREM WholeAgain == Spec => []WholeWhenOver
  <1>1. Init => Based
    BY IdleType DEF Init, Based
  <1>2. Based /\ TargetInv /\ SettingInv => WholeWhenOver
    BY DEF Based, TargetInv, World, Steady, Replacing, SettingInv, Given, Remembered,
           WholeWhenOver
  <1> QED BY <1>1, <1>2, TypeInit, TypeStep, BasedStep, TargetInit, TargetStep, SettingInit,
             SettingStep, PTL DEF Spec
===============================================================================
