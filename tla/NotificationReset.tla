------------------------- MODULE NotificationReset -------------------------
(***************************************************************************)
(* The reset of everything an agent manages on OpenClaw                     *)
(* (src/agent/notification-reset.ts with its adapter for the two builtin    *)
(* schedules, notification-reset-pickup.ts and                              *)
(* openclaw-notification-reset.ts, and the operations of                    *)
(* automation-service.ts and automation-threads.ts they call).              *)
(*                                                                         *)
(* A reset is one operation that survives its runs.  A retained record says *)
(* how far it came and which native requests it has submitted; a run that   *)
(* throws, waits or dies is repeated by the operator.  A native request may *)
(* be lost or be carried out after its run is gone; then it still insists   *)
(* on the revision its sender read.                                         *)
(*                                                                         *)
(* The two schedules, of intake and of project pickup, each wake a          *)
(* coordinator conversation.  Chat stands for the managed conversations,    *)
(* tree for their checkouts.  While the record exists the coordinators may  *)
(* be woken but manage nothing.                                             *)
(*                                                                         *)
(* Left out: the confirmation (a changed preview refuses a run before it    *)
(* has done anything); people who archive, pin or type into conversations;  *)
(* pull requests (never touched); the Codex adapter; the wait for the       *)
(* locks of intake and journal, which a pass holds while it manages.        *)
(***************************************************************************)
EXTENDS Naturals, FiniteSets

CONSTANTS
    MaxKey,     \* conversations each coordinator may go through
    MaxOps,     \* resets that are begun
    MaxUpsets,  \* runs that die or get no answer, and synchronizations together
    MaxSyncs,   \* synchronizations of the automations by the operator
    Settings    \* which schedules may be on to begin with

ASSUME BoundsAssumption ==
    /\ MaxKey \in Nat \ {0}
    /\ MaxOps \in Nat
    /\ MaxUpsets \in Nat
    /\ MaxSyncs \in Nat
    /\ Settings \subseteq [{"intake", "pickup"} -> BOOLEAN]

(* The builtin automations, in the order in which a run takes them.          *)
Part == {"intake", "pickup"}
Key == 1..MaxKey

VARIABLES
    op,         \* the retained record, or NoOp
    run,        \* the run at work, if any
    tracked,    \* the journal of issue work
    intake,     \* what intake remembers
    chat,       \* the managed conversation
    tree,       \* its checkout exists
    job,        \* the native schedules
    conv,       \* the coordinators' conversations
    binding,    \* the conversation bound to each automation
    busy,       \* coordinators with a turn
    inflight,   \* native requests whose answer nobody waits for
    submitted,  \* archives and reconnections submitted by the operation (history)
    before,     \* the settings of the schedules before any reset (history)
    late,       \* the session appeared after a run had listed the sessions of the
                \* checkout and before that run removed it (history)
    count       \* resets begun, faults, synchronizations

vars == <<op, run, tracked, intake, chat, tree, job, conv, binding, busy, inflight, submitted,
          before, late, count>>
managed == <<tracked, intake>>
purgeable == <<chat, tree>>
threads == <<conv, binding>>
history == <<submitted, before, late>>

Phase == {"pause", "drain", "clear", "purge", "baseline", "coordinator", "restore"}
Progress == {"pending", "attempted", "done", "preserved"}
Flags == [Part -> BOOLEAN]
None == [p \in Part |-> FALSE]

(* paused, archived, updated: pauseAttempted, coordinatorArchiveAttempted and *)
(* coordinatorUpdateAttempted; setting and key: the schedule as it was found. *)
Record == [phase : Phase, fresh : BOOLEAN, purge : BOOLEAN, paused : Flags, archived : Flags,
           updated : Flags, replaced : Flags, setting : Flags, key : [Part -> Key],
           chat : Progress, tree : Progress]
NoOp == [phase |-> "none"]

(* What a run does next, for which schedule; whether this was already         *)
(* submitted; the revision of the schedule it read.                           *)
Step == {"gate", "intend", "pause", "paused", "turns", "clear", "cleared", "purge", "archiveChat",
         "removeTree", "listTree", "dropTree", "chatPurged", "treePurged", "baseline", "baselined",
         "coordinator", "archive", "replace", "create", "retarget", "update", "readback", "restore",
         "remove"}
Idle == [pc |-> "idle", part |-> "intake", prev |-> FALSE, rev |-> 0]
At(pc, p) == [Idle EXCEPT !.pc = pc, !.part = p]

(* unresolved: a session was asked for and is not known to exist; found: it   *)
(* does exist.  born counts the conversations.                                *)
Chat == [kind : {"none", "unresolved", "found", "known"}, turn : BOOLEAN, archived : BOOLEAN,
         born : Nat]

Request == [kind : {"toggle"}, part : Part, rev : Nat, on : BOOLEAN]
      \cup [kind : {"retarget"}, part : Part, rev : Nat, to : Key]
      \cup [kind : {"archive", "create"}, part : Part, key : Key]
      \cup [kind : {"chat"}, born : Nat]

Init ==
    /\ op = NoOp
    /\ run = Idle
    /\ tracked = "work"
    /\ intake = "old"
    /\ \E kind \in {"unresolved", "known"} :
        chat = [kind |-> kind, turn |-> kind = "known", archived |-> FALSE, born |-> 1]
    /\ tree = TRUE
    /\ \E on \in Settings : job = [p \in Part |-> [on |-> on[p], target |-> 1, rev |-> 1]]
    /\ conv = [p \in Part |-> [k \in Key |-> IF k = 1 THEN "live" ELSE "absent"]]
    /\ binding = [p \in Part |-> [key |-> 1, ready |-> TRUE]]
    /\ busy = None
    /\ inflight = {}
    /\ submitted = [archive |-> [p \in Part |-> 0], retarget |-> [p \in Part |-> 0]]
    /\ before = [p \in Part |-> job[p].on]
    /\ late = FALSE
    /\ count = [ops |-> 0, faults |-> 0, syncs |-> 0]

-----------------------------------------------------------------------------
(* Native requests.                                                           *)

(* A schedule changes only from the revision the request insists on; an       *)
(* archive or a creation that is repeated changes nothing.                    *)
Carried(r) ==
    CASE r.kind = "toggle" ->
           /\ job' = IF job[r.part].rev = r.rev
                     THEN [job EXCEPT ![r.part].on = r.on, ![r.part].rev = @ + 1]
                     ELSE job
           /\ UNCHANGED <<conv, chat>>
      [] r.kind = "retarget" ->
           /\ job' = IF job[r.part].rev = r.rev
                     THEN [job EXCEPT ![r.part].target = r.to, ![r.part].rev = @ + 1]
                     ELSE job
           /\ UNCHANGED <<conv, chat>>
      [] r.kind = "archive" ->
           /\ conv' = [conv EXCEPT ![r.part][r.key] = "archived"]
           /\ UNCHANGED <<job, chat>>
      [] r.kind = "create" ->
           /\ conv' = [conv EXCEPT ![r.part][r.key] = IF @ = "absent" THEN "live" ELSE @]
           /\ UNCHANGED <<job, chat>>
      [] r.kind = "chat" ->
           /\ chat' = [chat EXCEPT !.archived = @ \/ chat.born = r.born]
           /\ UNCHANGED <<job, conv>>

Upsets == count.faults + count.syncs

(* The call is answered, or the run ends without the answer.                  *)
Call(r, next) ==
    \/ /\ Carried(r)
       /\ run' = next
       /\ UNCHANGED <<inflight, count>>
    \/ /\ Upsets < MaxUpsets
       /\ count' = [count EXCEPT !.faults = @ + 1]
       /\ inflight' = inflight \cup {r}
       /\ run' = Idle
       /\ UNCHANGED <<job, conv, chat>>

Arrive ==
    \E r \in inflight :
        /\ Carried(r)
        /\ inflight' = inflight \ {r}
        /\ UNCHANGED <<op, run, managed, tree, binding, busy, history, count>>

-----------------------------------------------------------------------------
(* What goes on beside the runs.                                              *)

Fire(p) ==
    /\ job[p].on /\ ~busy[p] /\ conv[p][job[p].target] = "live"
    /\ busy' = [busy EXCEPT ![p] = TRUE]
    /\ UNCHANGED <<op, run, managed, purgeable, job, threads, inflight, history, count>>

CoordinatorEnds(p) ==
    /\ busy[p]
    /\ busy' = [busy EXCEPT ![p] = FALSE]
    /\ UNCHANGED <<op, run, managed, purgeable, job, threads, inflight, history, count>>

(* A pass of intake manages nothing while a reset is retained.  Its journal   *)
(* may send the chat to work; an empty one takes in what intake holds, or     *)
(* what was assigned since.                                                   *)
Pass ==
    /\ busy["intake"]
    /\ op = NoOp
    /\ \/ /\ tracked = "work" /\ chat.kind = "known" /\ ~chat.archived
          /\ chat' = [chat EXCEPT !.turn = TRUE]
          /\ UNCHANGED <<managed, tree>>
       \/ /\ tracked = "empty"
          /\ tracked' = "work" /\ intake' = "old"
          /\ chat' = [kind |-> "known", turn |-> TRUE, archived |-> FALSE, born |-> chat.born + 1]
          /\ tree' = TRUE
    /\ UNCHANGED <<op, run, job, threads, busy, inflight, history, count>>

TurnEnds ==
    /\ chat.turn
    /\ chat' = [chat EXCEPT !.turn = FALSE]
    /\ UNCHANGED <<op, run, managed, tree, job, threads, busy, inflight, history, count>>

(* A session asked for before the reset comes into being.                     *)
SessionAppears ==
    /\ chat.kind = "unresolved"
    /\ chat' = [chat EXCEPT !.kind = "found"]
    /\ late' = (run.pc = "dropTree")
    /\ UNCHANGED <<op, run, managed, tree, job, threads, busy, inflight, submitted, before, count>>

(* The operator pauses a schedule that a reset waits for.                     *)
OperatorPauses(p) ==
    /\ op # NoOp /\ op.phase # "restore" /\ run = Idle /\ job[p].on
    /\ job' = [job EXCEPT ![p].on = FALSE, ![p].rev = @ + 1]
    /\ UNCHANGED <<op, run, managed, purgeable, threads, busy, inflight, history, count>>

(* automations sync, which the lock of the automations keeps out of a         *)
(* replacement only: both schedules as declared, each bound to a live         *)
(* conversation.                                                              *)
Locked == run.pc \in {"create", "retarget", "update", "readback"}
BoundSame(p) == binding[p].key  \* mutant: an archived conversation is not replaced
Bound(p) ==
    IF binding[p].ready /\ conv[p][binding[p].key] # "live"
    THEN binding[p].key + 1
    ELSE binding[p].key
OperatorSyncs ==
    /\ ~Locked /\ count.syncs < MaxSyncs /\ Upsets < MaxUpsets
    /\ \A p \in Part : Bound(p) \in Key
    /\ LET to == [p \in Part |-> Bound(p)]
       IN /\ binding' = [p \in Part |-> [key |-> to[p], ready |-> TRUE]]
          /\ conv' = [p \in Part |-> [conv[p] EXCEPT ![to[p]] = "live"]]
          /\ job' = [p \in Part |->
                       IF job[p].on /\ job[p].target = to[p] THEN job[p]
                       ELSE [on |-> TRUE, target |-> to[p], rev |-> job[p].rev + 1]]
    /\ count' = [count EXCEPT !.syncs = @ + 1]
    /\ UNCHANGED <<op, run, managed, purgeable, busy, inflight, history>>

-----------------------------------------------------------------------------
(* A run.                                                                     *)

Found(fresh, purge) ==
    [phase |-> "pause", fresh |-> fresh, purge |-> purge, paused |-> None, archived |-> None,
     updated |-> None, replaced |-> None, setting |-> [p \in Part |-> job[p].on],
     key |-> [p \in Part |-> job[p].target],
     chat |-> IF purge /\ tracked = "work" /\ chat.kind = "known" THEN "pending" ELSE "done",
     tree |-> IF purge /\ tracked = "work" THEN "pending" ELSE "done"]

(* A fresh reset over one that was not goes through everything again, except  *)
(* that submitted coordinator actions are never issued again.                 *)
RestartedClean ==  \* mutant: a fresh reset forgets what was submitted
    [op EXCEPT !.fresh = TRUE, !.phase = "pause", !.archived = None, !.updated = None]
Restarted ==
    [op EXCEPT !.fresh = TRUE,
               !.phase = IF @ \in {"coordinator", "restore"} THEN @ ELSE "pause"]

EntryOfSaved(phase) == phase  \* mutant: a run goes on at once where the last one ended
EntryOf(phase) ==
    CASE phase = "pause" -> "intend"
      [] phase \in {"coordinator", "restore"} -> phase
      [] OTHER -> "gate"

Start(fresh) ==
    /\ run = Idle
    /\ \/ /\ op = NoOp /\ count.ops < MaxOps
          /\ \E purge \in BOOLEAN : op' = Found(fresh, purge)
          /\ submitted' = [kind \in DOMAIN submitted |-> [p \in Part |-> 0]]
          /\ count' = [count EXCEPT !.ops = @ + 1]
       \/ /\ op # NoOp
          /\ op' = IF fresh /\ ~op.fresh THEN Restarted ELSE op
          /\ UNCHANGED <<submitted, count>>
    /\ run' = At(EntryOf(op'.phase), "intake")
    /\ UNCHANGED <<managed, purgeable, job, threads, busy, inflight, before, late>>

(* A step that leaves the native side alone.                                  *)
Local == UNCHANGED <<purgeable, job, threads, busy, inflight, history, count>>

(* The run throws, waits or dies: only its record remains.                    *)
Crash ==
    /\ run # Idle /\ Upsets < MaxUpsets
    /\ run' = Idle
    /\ count' = [count EXCEPT !.faults = @ + 1]
    /\ UNCHANGED <<op, managed, purgeable, job, threads, busy, inflight, history>>
Stop == run' = Idle /\ UNCHANGED op

(* hash and nativeId: everything of the schedule but its setting.             *)
Unchanged(p) == job[p].target = op.key[p]

(* Past the pause a run only observes that both schedules still are paused.   *)
Gate ==
    /\ run.pc = "gate"
    /\ UNCHANGED op
    /\ run' = IF \A p \in Part : Unchanged(p) /\ ~job[p].on THEN At("turns", "intake") ELSE Idle
    /\ UNCHANGED managed /\ Local

Intend ==
    /\ run.pc = "intend"
    /\ op' = [op EXCEPT !.paused[run.part] = TRUE]
    /\ run' = [At("pause", run.part) EXCEPT !.prev = op.paused[run.part]]
    /\ UNCHANGED managed /\ Local

AfterPause == IF run.part = "intake" THEN At("intend", "pickup") ELSE At("paused", "pickup")
Pause ==
    /\ run.pc = "pause"
    /\ \/ /\ Unchanged(run.part) /\ ~job[run.part].on
          /\ run' = AfterPause /\ UNCHANGED op
          /\ Local
       \/ /\ Unchanged(run.part) /\ job[run.part].on /\ ~run.prev
          /\ Call([kind |-> "toggle", part |-> run.part, rev |-> job[run.part].rev, on |-> FALSE],
                  AfterPause)
          /\ UNCHANGED <<op, tree, binding, busy, history>>
       \/ /\ ~Unchanged(run.part) \/ (job[run.part].on /\ run.prev)
          /\ Stop
          /\ Local
    /\ UNCHANGED managed

Paused ==
    /\ run.pc = "paused"
    /\ op' = [op EXCEPT !.phase = "drain"]
    /\ run' = At("turns", "intake")
    /\ UNCHANGED managed /\ Local

(* An unresolved session is only accepted where it does not exist, or by a    *)
(* fresh reset, which leaves its checkout alone.                              *)
Active == chat.turn \/ \E p \in Part : busy[p]
Preserving ==
    IF op.fresh /\ chat.kind = "found" /\ op.tree # "done"
    THEN [op EXCEPT !.tree = "preserved"]
    ELSE op
Turns ==
    /\ run.pc = "turns"
    /\ \/ /\ ~Active /\ (chat.kind = "found" => op.fresh)
          /\ op' = [Preserving EXCEPT !.phase = IF @ = "drain" THEN "clear" ELSE @]
          /\ run' = At(op'.phase, "intake")
       \/ Active /\ run' = Idle /\ op' = IF busy["intake"] THEN op ELSE Preserving
       \/ chat.kind = "found" /\ ~op.fresh /\ Stop
    /\ UNCHANGED managed /\ Local

Clear ==
    /\ run.pc = "clear"
    /\ tracked' = "empty"
    /\ run' = At("cleared", "intake")
    /\ UNCHANGED <<op, intake>> /\ Local

Cleared ==
    /\ run.pc = "cleared"
    /\ op' = [op EXCEPT !.phase = IF op.purge THEN "purge" ELSE "baseline"]
    /\ run' = At(op'.phase, "intake")
    /\ UNCHANGED managed /\ Local

(* The conversation is archived before its checkout is removed, each noted    *)
(* before it is tried.                                                        *)
Unpurged(state) == state \in {"pending", "attempted"}
Purge ==
    /\ run.pc = "purge"
    /\ \/ /\ Unpurged(op.chat)
          /\ op' = [op EXCEPT !.chat = "attempted"]
          /\ run' = At("archiveChat", "intake")
       \/ /\ ~Unpurged(op.chat) /\ Unpurged(op.tree)
          /\ op' = [op EXCEPT !.tree = "attempted"]
          /\ run' = At("removeTree", "intake")
       \/ /\ ~Unpurged(op.chat) /\ ~Unpurged(op.tree)
          /\ op' = [op EXCEPT !.phase = "baseline"]
          /\ run' = At("baseline", "intake")
    /\ UNCHANGED managed /\ Local

ArchiveChat ==
    /\ run.pc = "archiveChat"
    /\ \/ Active /\ Stop /\ Local
       \/ /\ ~Active /\ chat.archived
          /\ run' = At("chatPurged", "intake")
          /\ UNCHANGED op /\ Local
       \/ /\ ~Active /\ ~chat.archived
          /\ Call([kind |-> "chat", born |-> chat.born], At("chatPurged", "intake"))
          /\ UNCHANGED <<op, tree, binding, busy, history>>
    /\ UNCHANGED managed

(* A checkout goes unless a session that is not known works there.  The run    *)
(* looks for one twice: when it observes the turns ...                        *)
ObserveTree ==
    /\ run.pc = "removeTree"
    /\ \/ Active /\ run' = Idle /\ op' = IF busy["intake"] THEN op ELSE Preserving
       \/ /\ ~Active /\ chat.kind = "found" /\ op.fresh
          /\ op' = [op EXCEPT !.tree = "preserved"]
          /\ run' = At("purge", "intake")
       \/ chat.kind = "found" /\ ~op.fresh /\ Stop
       \/ /\ ~Active /\ chat.kind # "found"
          /\ run' = At("listTree", "intake")
          /\ UNCHANGED op
    /\ UNCHANGED <<managed, purgeable, job, threads, busy, inflight, history, count>>

ListNone ==  \* mutant: the sessions of the checkout are not listed
    /\ run.pc = "listTree"
    /\ run' = At(IF tree THEN "dropTree" ELSE "treePurged", "intake")
    /\ late' = FALSE
    /\ UNCHANGED <<op, managed, purgeable, job, threads, busy, inflight, submitted, before, count>>

(* ... and, after GitHub has answered, when it lists the sessions that work    *)
(* in a checkout that is still there.                                         *)
ListTree ==
    /\ run.pc = "listTree"
    /\ run' = IF ~tree THEN At("treePurged", "intake")
              ELSE IF chat.kind # "found" THEN At("dropTree", "intake")
              ELSE Idle
    /\ late' = FALSE
    /\ UNCHANGED <<op, managed, purgeable, job, threads, busy, inflight, submitted, before, count>>

(* The removal itself; a failed one is a Crash before it.                      *)
DropTree ==
    /\ run.pc = "dropTree"
    /\ tree' = FALSE
    /\ run' = At("treePurged", "intake")
    /\ UNCHANGED <<op, managed, chat, job, threads, busy, inflight, history, count>>

RemoveTree == ObserveTree \/ ListTree \/ DropTree

Purged ==
    /\ run.pc \in {"chatPurged", "treePurged"}
    /\ op' = IF run.pc = "chatPurged" THEN [op EXCEPT !.chat = "done"]
             ELSE [op EXCEPT !.tree = "done"]
    /\ run' = At("purge", "intake")
    /\ UNCHANGED managed /\ Local

Baseline ==
    /\ run.pc = "baseline"
    /\ intake' = "baselined"
    /\ run' = At("baselined", "intake")
    /\ UNCHANGED <<op, tracked>> /\ Local

Baselined ==
    /\ run.pc = "baselined"
    /\ op' = [op EXCEPT !.phase = "coordinator"]
    /\ run' = At("coordinator", "intake")
    /\ UNCHANGED managed /\ Local

-----------------------------------------------------------------------------
(* The replacement of the coordinators, one schedule after the other.         *)

Submit(kind, p) == submitted' = [submitted EXCEPT ![kind][p] = @ + 1]
Quiet == UNCHANGED <<purgeable, job, threads, busy, inflight, before, late, count>>

Coordinator ==
    /\ run.pc = "coordinator"
    /\ \/ /\ \A p \in Part : op.replaced[p]
          /\ op' = [op EXCEPT !.phase = "restore"]
          /\ run' = At("restore", "intake")
          /\ UNCHANGED submitted
       \/ \E p \in Part :
            /\ ~op.replaced[p] /\ (p = "pickup" => op.replaced["intake"])
            /\ \/ /\ conv[p][op.key[p]] # "live"
                  /\ run' = At("replace", p)
                  /\ UNCHANGED <<op, submitted>>
               \/ /\ conv[p][op.key[p]] = "live"
                  /\ ~job[p].on /\ Unchanged(p) /\ ~busy[p] /\ ~op.archived[p]
                  /\ op' = [op EXCEPT !.archived[p] = TRUE]
                  /\ Submit("archive", p)
                  /\ run' = At("archive", p)
               \/ /\ conv[p][op.key[p]] = "live"
                  /\ job[p].on \/ ~Unchanged(p) \/ busy[p] \/ op.archived[p]
                  /\ Stop
                  /\ UNCHANGED submitted
    /\ UNCHANGED managed /\ Quiet

Archive ==
    /\ run.pc = "archive"
    /\ Call([kind |-> "archive", part |-> run.part, key |-> op.key[run.part]],
            At("replace", run.part))
    /\ UNCHANGED <<op, managed, tree, binding, busy, history>>

(* Under the lock of the automations: a schedule that is still paused; a live *)
(* conversation bound to it, which is a new one after the old is gone.        *)
Replace ==
    /\ run.pc = "replace"
    /\ LET p == run.part
           here == [At("create", p) EXCEPT !.rev = job[p].rev]
       IN \/ /\ job[p].on /\ Stop /\ UNCHANGED binding
          \/ /\ ~job[p].on /\ binding[p].ready /\ conv[p][binding[p].key] # "live"
             /\ Bound(p) \in Key
             /\ binding' = [binding EXCEPT ![p] = [key |-> Bound(p), ready |-> FALSE]]
             /\ run' = here /\ UNCHANGED op
          \/ /\ ~job[p].on /\ ~(binding[p].ready /\ conv[p][binding[p].key] # "live")
             /\ run' = here /\ UNCHANGED <<op, binding>>
    /\ UNCHANGED <<managed, purgeable, job, conv, busy, inflight, history, count>>

Create ==
    /\ run.pc = "create"
    /\ LET p == run.part
           key == binding[p].key
       IN \/ /\ conv[p][key] = "absent"
             /\ Call([kind |-> "create", part |-> p, key |-> key], run)
             /\ UNCHANGED <<op, binding>>
          \/ /\ conv[p][key] # "absent"
             /\ binding' = [binding EXCEPT ![p].ready = conv[p][key] = "live"]
             /\ run' = IF conv[p][key] = "live" THEN [run EXCEPT !.pc = "retarget"] ELSE Idle
             /\ UNCHANGED <<op, conv, job, chat, inflight, count>>
    /\ UNCHANGED <<managed, tree, busy, history>>

(* The schedule is reconnected at most once by an operation.                  *)
Retarget ==
    /\ run.pc = "retarget"
    /\ LET p == run.part
           to == binding[p].key
       IN \/ /\ job[p].target = to /\ to # op.key[p]
             /\ run' = [run EXCEPT !.pc = "readback"]
             /\ UNCHANGED <<op, submitted>>
          \/ /\ job[p].target # to /\ Unchanged(p) /\ ~op.updated[p]
             /\ op' = [op EXCEPT !.updated[p] = TRUE]
             /\ Submit("retarget", p)
             /\ run' = [run EXCEPT !.pc = "update"]
          \/ /\ to = op.key[p] \/ (job[p].target # to /\ (~Unchanged(p) \/ op.updated[p]))
             /\ Stop
             /\ UNCHANGED submitted
    /\ UNCHANGED managed /\ Quiet

Update ==
    /\ run.pc = "update"
    /\ Call([kind |-> "retarget", part |-> run.part, rev |-> run.rev,
              to |-> binding[run.part].key], [run EXCEPT !.pc = "readback"])
    /\ UNCHANGED <<op, managed, tree, binding, busy, history>>

Readback ==
    /\ run.pc = "readback"
    /\ LET p == run.part
           verified == ~job[p].on /\ job[p].target = binding[p].key
       IN /\ op' = IF verified
                   THEN [op EXCEPT !.key[p] = binding[p].key, !.replaced[p] = TRUE]
                   ELSE op
          /\ run' = IF verified THEN At("coordinator", "intake") ELSE Idle
    /\ UNCHANGED managed /\ Local

(* Each schedule gets back the setting it was found with; then the record goes. *)
AfterRestoreIntake == At("remove", "intake")  \* mutant: pickup is not given back
AfterRestore == IF run.part = "intake" THEN At("restore", "pickup") ELSE At("remove", "intake")
Restore ==
    /\ run.pc = "restore"
    /\ IF Unchanged(run.part) /\ job[run.part].on # op.setting[run.part]
       THEN Call([kind |-> "toggle", part |-> run.part, rev |-> job[run.part].rev,
                  on |-> op.setting[run.part]], AfterRestore)
            /\ UNCHANGED <<tree, binding, busy, history>>
       ELSE /\ run' = IF Unchanged(run.part) THEN AfterRestore ELSE Idle
            /\ Local
    /\ UNCHANGED <<op, managed>>

Remove ==
    /\ run.pc = "remove"
    /\ op' = NoOp
    /\ run' = Idle
    /\ UNCHANGED managed /\ Local

-----------------------------------------------------------------------------
Steps ==
    \/ Gate \/ Intend \/ Pause \/ Paused \/ Turns \/ Clear \/ Cleared
    \/ Purge \/ ArchiveChat \/ RemoveTree \/ Purged \/ Baseline \/ Baselined
    \/ Coordinator \/ Archive \/ Replace \/ Create \/ Retarget \/ Update \/ Readback
    \/ Restore \/ Remove

Next ==
    \/ Steps
    \/ \E fresh \in BOOLEAN : Start(fresh)
    \/ Crash \/ Arrive
    \/ Pass \/ TurnEnds \/ SessionAppears
    \/ \E p \in Part : Fire(p) \/ CoordinatorEnds(p) \/ OperatorPauses(p)
    \/ OperatorSyncs

(* Runs go on; a reset that is retained is repeated, sooner or later as a     *)
(* fresh one; turns end; the operator pauses what a reset waits for.          *)
Fairness ==
    /\ WF_vars(Steps)
    /\ SF_vars(op # NoOp /\ Start(TRUE))
    /\ WF_vars(TurnEnds)
    /\ \A p \in Part : WF_vars(CoordinatorEnds(p)) /\ SF_vars(OperatorPauses(p))

Spec == Init /\ [][Next]_vars /\ Fairness

-----------------------------------------------------------------------------
(* Properties.                                                                *)

(* The shape of the state.                                                    *)
TypeOK ==
    /\ op \in Record \cup {NoOp}
    /\ run.pc \in Step \cup {"idle"} /\ run.part \in Part /\ run.prev \in BOOLEAN /\ run.rev \in Nat
    /\ tracked \in {"work", "empty"} /\ intake \in {"old", "baselined"}
    /\ chat \in Chat /\ tree \in BOOLEAN
    /\ job \in [Part -> [on : BOOLEAN, target : Key, rev : Nat]]
    /\ conv \in [Part -> [Key -> {"absent", "live", "archived"}]]
    /\ binding \in [Part -> [key : Key, ready : BOOLEAN]]
    /\ busy \in Flags /\ inflight \subseteq Request
    /\ submitted \in [{"archive", "retarget"} -> [Part -> Nat]]
    /\ before \in Flags /\ late \in BOOLEAN
    /\ count \in [ops : 0..MaxOps, faults : 0..MaxUpsets, syncs : 0..MaxSyncs]
    /\ run # Idle => op # NoOp

(* However often a reset is repeated or restarted fresh, it archives each     *)
(* coordinator and reconnects each schedule at most once: an action whose     *)
(* outcome it could not see is never issued again.                            *)
ActionsOnce ==
    \A p \in Part : submitted.archive[p] <= 1 /\ submitted.retarget[p] <= 1

(* A reset cuts no turn off: nobody's conversation is archived while it has a *)
(* turn of its own, and no checkout is removed under one, nor under a session *)
(* that was asked for before the reset and turned up without being known,     *)
(* unless it turned up after the sessions of the checkout had been listed.    *)
CutsNothingOff ==
    [][/\ chat.turn /\ chat.born = chat'.born => ~chat'.archived \/ chat.archived
       /\ tree /\ ~tree' => ~chat.turn /\ (chat.kind = "found" => late)]_<<chat, tree>>

(* Whenever no reset is retained: an empty journal means that intake has a    *)
(* baseline, so that a pass takes in nothing from before it; no schedule      *)
(* wakes a conversation that a reset archived; and each is on or off as it    *)
(* was, unless the operator synchronized them.                                *)
WholeWhenOver ==
    op = NoOp =>
        /\ tracked = "empty" => intake = "baselined"
        /\ \A p \in Part : conv[p][job[p].target] = "live"
        /\ count.syncs = 0 => \A p \in Part : job[p].on = before[p]

(* A reset ends, however it is interrupted, unless one of its actions was     *)
(* submitted and never carried out.                                           *)
Unverified ==
    /\ op # NoOp
    /\ \E p \in Part :
        \/ op.archived[p] /\ conv[p][op.key[p]] = "live"
        \/ op.updated[p] /\ ~op.replaced[p] /\ job[p].target = op.key[p]
Ends == []<>(op = NoOp) \/ <>[]Unverified
=============================================================================
