-------------------------- MODULE AssignmentClaim --------------------------
(***************************************************************************)
(* The election of one owner for one GitHub assignment among the           *)
(* installations that share the receiving account                          *)
(* (src/agent/assignment-claim.ts, assignment-claim-store.ts,              *)
(* assignment-claim-recovery.ts).  An installation records its attempt,    *)
(* posts a claim comment, and in a later native pass takes the work if its *)
(* comment is the earliest; losers remove theirs.  Nothing but comments    *)
(* connects the installations.                                             *)
(*                                                                         *)
(* A claimAssignment call lists the comments once and works on that view.  *)
(* A listing may miss comments posted since the caller's pass began, and   *)
(* only those: the bounded lag that the two passes are there to cover.     *)
(* Whether the route admits the installation and whether it has capacity   *)
(* are inputs of each call, so any call may also stop short.               *)
(***************************************************************************)
EXTENDS Naturals, FiniteSets

CONSTANTS
    Inst,           \* installations, one private store each
    LocalInst,      \* installations whose route may be local in some passes
    Receipt,        \* native session receipts
    NoReceipt,
    MaxRotations,   \* bound on identity rotations of one installation
    MayTamper       \* may people delete claim comments?

ASSUME ClaimAssumption ==
    /\ LocalInst \subseteq Inst
    /\ NoReceipt \notin Receipt
    /\ MaxRotations \in Nat
    /\ MayTamper \in BOOLEAN

VARIABLES
    last,       \* number of claim comments ever posted; comments are 1..last
    author,     \* the installation and identity a comment names
    live,       \* comments that were not removed
    accepted,   \* comments whose body says accepted
    assigned,   \* the assignment event is still the latest and the issue open
    gen,        \* which of its identities an installation uses
    registered, \* installations whose store holds a record of this assignment;
                \* the record has the fields
    made,       \*   the identity that made it
    attempted,  \*   a comment may have been posted
    comment,    \*   the own comment, 0 while unknown
    winner,     \*   the earliest comment seen, 0 while unknown
    cleanup,    \*   removal of a losing comment: none, pending or done
    receipt,    \*   the native session that took the work
    reserved,   \*   a recovery holds the claim ...
    successor,  \*   ... and gave it to this session
    first,      \* the installation is still in the pass that made its record
    recent,     \* comments posted since the installation's pass began
    pc,         \* where the installation is in a claim call
    view,       \* the comments listed by that call
    owner,      \* installations that were told "owned" (history)
    other,      \* installations that found another's claim winning (history)
    local       \* the call of an installation whose route is local: how far it
                \* is, the comments its listing will show while they stand, and
                \* whether it was made after a claim (history)

vars == <<last, author, live, accepted, assigned, gen, registered, made, attempted,
          comment, winner, cleanup, receipt, reserved, successor, first, recent, pc,
          view, owner, other, local>>

github == <<last, author, live, accepted, assigned>>
own == <<attempted, comment, winner, cleanup>>
recovery == <<receipt, reserved, successor>>
store == <<gen, registered, made, own, recovery>>
told == <<owner, other, local>>

Identity == [inst : Inst, gen : Nat]
Me(i) == [inst |-> i, gen |-> gen[i]]
NoCall == [at |-> "none", sees |-> {}, claimed |-> FALSE]

Init ==
    /\ last = 0
    /\ author = [c \in 1..0 |-> c]
    /\ live = {}
    /\ accepted = {}
    /\ assigned = TRUE
    /\ gen = [i \in Inst |-> 0]
    /\ registered = {}
    /\ made = [i \in Inst |-> 0]
    /\ attempted = [i \in Inst |-> FALSE]
    /\ comment = [i \in Inst |-> 0]
    /\ winner = [i \in Inst |-> 0]
    /\ cleanup = [i \in Inst |-> "none"]
    /\ receipt = [i \in Inst |-> NoReceipt]
    /\ reserved = [i \in Inst |-> FALSE]
    /\ successor = [i \in Inst |-> NoReceipt]
    /\ first = [i \in Inst |-> FALSE]
    /\ recent = [i \in Inst |-> {}]
    /\ pc = [i \in Inst |-> "idle"]
    /\ view = [i \in Inst |-> {}]
    /\ owner = {}
    /\ other = {}
    /\ local = [i \in Inst |-> NoCall]

-----------------------------------------------------------------------------
(* Shared parts of the calls.                                              *)

Goto(i, place) == pc' = [pc EXCEPT ![i] = place]
Forget(i) == view' = [view EXCEPT ![i] = {}]

Register(i) ==
    /\ registered' = registered \union {i}
    /\ made' = [made EXCEPT ![i] = gen[i]]

(* The comments a listing by i can return.                                 *)
Lists(i, S) == live \ recent[i] \subseteq S /\ S \subseteq live

Earliest(c, S) == c \in S /\ \A d \in S : c <= d

LookInSamePass(i) ==  \* mutant: the pass that posted a claim may also elect on it
    /\ pc[i] = "idle"
    /\ assigned
    /\ i \in registered => made[i] = gen[i] /\ ~reserved[i] /\ attempted[i]
    /\ \E S \in SUBSET live :
         /\ Lists(i, S)
         /\ i \in registered /\ winner[i] # 0 => Earliest(winner[i], S)
         /\ view' = [view EXCEPT ![i] = S]
    /\ Goto(i, "looked")
    /\ UNCHANGED <<github, store, first, recent, told>>

(* verify and list, then the checks of a retained record: the identity that *)
(* made it, no recovery, and its winner still the earliest.                  *)
Look(i) ==
    /\ pc[i] = "idle"
    /\ assigned
    /\ i \in registered =>
         /\ made[i] = gen[i]
         /\ ~reserved[i]
         /\ attempted[i]
         /\ ~first[i]
    /\ \E S \in SUBSET live :
         /\ Lists(i, S)
         /\ i \in registered /\ winner[i] # 0 => Earliest(winner[i], S)
         /\ view' = [view EXCEPT ![i] = S]
    /\ Goto(i, "looked")
    /\ UNCHANGED <<github, store, first, recent, told>>

DeferUnsaved(i) ==  \* mutant: the other's claim is reported but not remembered
    /\ pc[i] = "looked"
    /\ i \notin registered
    /\ view[i] # {}
    /\ other' = other \union {i}
    /\ Goto(i, "idle")
    /\ Forget(i)
    /\ UNCHANGED <<github, store, first, recent, owner, local>>

(* No record, and a claim is visible: remember its owner.                  *)
Defer(i) ==
    /\ pc[i] = "looked"
    /\ i \notin registered
    /\ \E w \in view[i] :
         /\ Earliest(w, view[i])
         /\ winner' = [winner EXCEPT ![i] = w]
    /\ Register(i)
    /\ other' = other \union {i}
    /\ first' = [first EXCEPT ![i] = TRUE]
    /\ Goto(i, "idle")
    /\ Forget(i)
    /\ UNCHANGED <<github, gen, attempted, comment, cleanup, recovery, recent, owner,
                   local>>

ClaimUnsaved(i) ==  \* mutant: the comment is sent before the attempt is saved
    /\ pc[i] = "looked"
    /\ i \notin registered
    /\ view[i] = {}
    /\ first' = [first EXCEPT ![i] = TRUE]
    /\ Goto(i, "creating")
    /\ UNCHANGED <<github, store, recent, view, told>>

(* No record and no claim: the attempt is saved before the comment is sent. *)
Claim(i) ==
    /\ pc[i] = "looked"
    /\ i \notin registered
    /\ view[i] = {}
    /\ Register(i)
    /\ attempted' = [attempted EXCEPT ![i] = TRUE]
    /\ first' = [first EXCEPT ![i] = TRUE]
    /\ Goto(i, "creating")
    /\ UNCHANGED <<github, gen, comment, winner, cleanup, recovery, recent, view, told>>

(* GitHub takes the comment; its answer reaches the caller or is lost.      *)
Create(i) ==
    /\ pc[i] = "creating"
    /\ assigned
    /\ last' = last + 1
    /\ author' = [c \in 1..last' |-> IF c = last' THEN Me(i) ELSE author[c]]
    /\ live' = live \union {last'}
    /\ recent' = [j \in Inst |-> recent[j] \union {last'}]
    /\ \E place \in {"created", "idle"} : Goto(i, place)
    /\ UNCHANGED <<accepted, assigned, store, first, view, told>>

CreatedNext(i) ==  \* mutant: the number after the answered comment's is saved
    /\ pc[i] = "created"
    /\ comment' = [comment EXCEPT ![i] = last + 1]
    /\ Goto(i, "idle")
    /\ UNCHANGED <<github, gen, registered, made, attempted, winner, cleanup, recovery,
                   first, recent, view, told>>

Created(i) ==
    /\ pc[i] = "created"
    /\ \E c \in 1..last :
         /\ author[c] = Me(i)
         /\ comment' = [comment EXCEPT ![i] = c]
    /\ Goto(i, "idle")
    /\ UNCHANGED <<github, gen, registered, made, attempted, winner, cleanup, recovery,
                   first, recent, view, told>>

AdoptKnownWinner(i) ==  \* mutant: a lost answer is looked for only after an election
    /\ pc[i] = "looked"
    /\ i \in registered
    /\ comment[i] = 0
    /\ winner[i] # 0
    /\ \E c \in view[i] :
         /\ Earliest(c, {d \in view[i] : author[d] = Me(i)})
         /\ comment' = [comment EXCEPT ![i] = c]
    /\ UNCHANGED <<github, gen, registered, made, attempted, winner, cleanup, recovery,
                   first, recent, pc, view, told>>

(* A later pass finds the comment whose answer was lost.                    *)
Adopt(i) ==
    /\ pc[i] = "looked"
    /\ i \in registered
    /\ comment[i] = 0
    /\ \E c \in view[i] :
         /\ Earliest(c, {d \in view[i] : author[d] = Me(i)})
         /\ comment' = [comment EXCEPT ![i] = c]
    /\ UNCHANGED <<github, gen, registered, made, attempted, winner, cleanup, recovery,
                   first, recent, pc, view, told>>

(* ... and the winner is the earliest comment, once and for all.            *)
Elect(i) ==
    /\ pc[i] = "looked"
    /\ i \in registered
    /\ comment[i] # 0
    /\ \E w \in view[i] :
         /\ Earliest(w, view[i])
         /\ winner[i] \in {0, w}
         /\ winner' = [winner EXCEPT ![i] = w]
    /\ Goto(i, "elected")
    /\ UNCHANGED <<github, gen, registered, made, attempted, comment, cleanup, recovery,
                   first, recent, view, told>>

(* Lost: note the cleanup, remove the own comment, note that it is gone.    *)
Concede(i) ==
    /\ pc[i] = "elected"
    /\ author[winner[i]] # Me(i)
    /\ comment[i] \in view[i]
    /\ author[comment[i]] = Me(i)
    /\ cleanup' = [cleanup EXCEPT ![i] = "pending"]
    /\ other' = other \union {i}
    /\ Goto(i, "removing")
    /\ Forget(i)
    /\ UNCHANGED <<github, gen, registered, made, attempted, comment, winner, recovery,
                   first, recent, owner, local>>

RemoveWinner(i) ==  \* mutant: the cleanup removes the winning comment
    /\ pc[i] = "removing"
    /\ assigned
    /\ winner[i] \in live
    /\ live' = live \ {winner[i]}
    /\ \E place \in {"removed", "idle"} : Goto(i, place)
    /\ UNCHANGED <<last, author, accepted, assigned, store, first, recent, view, told>>

(* The deletion can succeed without its answer; a later call sees it gone.  *)
Remove(i) ==
    /\ pc[i] = "removing"
    /\ assigned
    /\ comment[i] \in live
    /\ live' = live \ {comment[i]}
    /\ \E place \in {"removed", "idle"} : Goto(i, place)
    /\ UNCHANGED <<last, author, accepted, assigned, store, first, recent, view, told>>

Removed(i) ==
    /\ \/ pc[i] = "removed"
       \/ /\ pc[i] = "elected"
          /\ author[winner[i]] # Me(i)
          /\ comment[i] \notin view[i]
          /\ cleanup[i] = "pending"
    /\ cleanup' = [cleanup EXCEPT ![i] = "done"]
    /\ Goto(i, "idle")
    /\ Forget(i)
    /\ UNCHANGED <<github, gen, registered, made, attempted, comment, winner, recovery,
                   first, recent, told>>

(* Won: the call returns "owned", and the native session may be created.    *)
Own(i) ==
    /\ pc[i] = "elected"
    /\ assigned
    /\ author[winner[i]] = Me(i)
    /\ comment[i] \in view[i]
    /\ comment[i] = winner[i]
    /\ owner' = owner \union {i}
    /\ Goto(i, "idle")
    /\ Forget(i)
    /\ UNCHANGED <<github, store, first, recent, other, local>>

(* An early return, a thrown error or a crash: what was saved stays.        *)
Stop(i) ==
    /\ pc[i] # "idle"
    /\ Goto(i, "idle")
    /\ Forget(i)
    /\ UNCHANGED <<github, store, first, recent, told>>

-----------------------------------------------------------------------------
(* A pass whose route is local makes no claim.  It looks for a record without *)
(* the store's lock, then verifies, then lists: calls of another pass of the  *)
(* same installation may come in between.                                     *)
Claimed(i) == i \in owner \union other \/ \E c \in 1..last : author[c].inst = i

AskLocalUnchecked(i) ==  \* mutant: the local route does not look for a record
    /\ i \in LocalInst
    /\ local[i].at = "none"
    /\ local' = [local EXCEPT ![i] =
                   [at |-> "asked", sees |-> live \ recent[i], claimed |-> Claimed(i)]]
    /\ UNCHANGED <<github, store, first, recent, pc, view, owner, other>>

AskLocal(i) ==
    /\ i \in LocalInst
    /\ local[i].at = "none"
    /\ i \notin registered
    /\ local' = [local EXCEPT ![i] =
                   [at |-> "asked", sees |-> live \ recent[i], claimed |-> Claimed(i)]]
    /\ UNCHANGED <<github, store, first, recent, pc, view, owner, other>>

VerifyLocal(i) ==
    /\ local[i].at = "asked"
    /\ assigned
    /\ local' = [local EXCEPT ![i].at = "verified"]
    /\ UNCHANGED <<github, store, first, recent, pc, view, owner, other>>

(* No comment in sight: the call returns "local".                           *)
StartLocal(i) ==
    /\ local[i].at = "verified"
    /\ local[i].sees \intersect live = {}
    /\ local' = [local EXCEPT ![i] = [@ EXCEPT !.at = "told", !.sees = {}]]
    /\ UNCHANGED <<github, store, first, recent, pc, view, owner, other>>

(* A comment in sight, a thrown error or a crash.                           *)
StopLocal(i) ==
    /\ local[i].at \in {"asked", "verified"}
    /\ local' = [local EXCEPT ![i] = NoCall]
    /\ UNCHANGED <<github, store, first, recent, pc, view, owner, other>>

-----------------------------------------------------------------------------
(* The verified native session is recorded, then announced on the comment.  *)
Accept(i, r) ==
    /\ pc[i] = "idle"
    /\ i \in owner
    /\ made[i] = gen[i]
    /\ comment[i] = winner[i]
    /\ reserved[i] => successor[i] = r
    /\ receipt[i] \in {NoReceipt, r}
    /\ receipt' = [receipt EXCEPT ![i] = r]
    /\ Goto(i, "accepting")
    /\ UNCHANGED <<github, gen, registered, made, own, reserved, successor,
                   first, recent, view, told>>

Announce(i) ==
    /\ pc[i] = "accepting"
    /\ assigned
    /\ \E S \in SUBSET live :
         Lists(i, S) /\ Earliest(winner[i], S) /\ comment[i] \in S
    /\ author[comment[i]] = Me(i)
    /\ accepted' = accepted \union {comment[i]}
    /\ Goto(i, "idle")
    /\ UNCHANGED <<last, author, live, assigned, store, first, recent, view, told>>

(* Managed recovery moves an accepted claim to another session of the same   *)
(* installation: first reserved for it, then given its receipt.              *)
Recoverable(i) ==
    /\ pc[i] = "idle"
    /\ assigned
    /\ i \in registered
    /\ made[i] = gen[i]
    /\ receipt[i] # NoReceipt
    /\ winner[i] = comment[i]
    /\ \E S \in SUBSET live : Lists(i, S) /\ Earliest(comment[i], S)
    /\ author[comment[i]] = Me(i)
    /\ cleanup[i] # "pending"
    /\ comment[i] \in accepted

Reserve(i) ==
    /\ Recoverable(i)
    /\ reserved' = [reserved EXCEPT ![i] = TRUE]
    /\ UNCHANGED <<github, gen, registered, made, own, receipt, successor,
                   first, recent, pc, view, told>>

Transfer(i, r) ==
    /\ Recoverable(i)
    /\ reserved[i]
    /\ successor[i] \in {NoReceipt, r}
    /\ successor' = [successor EXCEPT ![i] = r]
    /\ receipt' = [receipt EXCEPT ![i] = r]
    /\ UNCHANGED <<github, gen, registered, made, own, reserved, first, recent, pc, view, told>>

-----------------------------------------------------------------------------
(* A new native pass begins; what was posted before it is listed from now on.*)
NewPass(i) ==
    /\ pc[i] = "idle"
    /\ first[i] \/ recent[i] # {}
    /\ first' = [first EXCEPT ![i] = FALSE]
    /\ recent' = [recent EXCEPT ![i] = {}]
    /\ UNCHANGED <<github, store, pc, view, told>>

(* The operator replaces the installation's identity; its records keep the   *)
(* old one.                                                                  *)
Rotate(i) ==
    /\ pc[i] = "idle"
    /\ gen[i] < MaxRotations
    /\ gen' = [gen EXCEPT ![i] = @ + 1]
    /\ UNCHANGED <<github, registered, made, own, recovery, first, recent, pc, view, told>>

(* The issue is closed or reassigned: verify refuses from now on.           *)
Unassign ==
    /\ assigned
    /\ assigned' = FALSE
    /\ UNCHANGED <<last, author, live, accepted, store, first, recent, pc, view, told>>

Tamper ==
    /\ MayTamper
    /\ \E c \in live : live' = live \ {c}
    /\ UNCHANGED <<last, author, accepted, assigned, store, first, recent, pc, view, told>>

-----------------------------------------------------------------------------
Call(i) ==
    \/ Look(i) \/ Defer(i) \/ Claim(i) \/ Create(i) \/ Created(i) \/ Adopt(i)
    \/ Elect(i) \/ Concede(i) \/ Remove(i) \/ Removed(i) \/ Own(i) \/ Stop(i)
    \/ Announce(i) \/ \E r \in Receipt : Accept(i, r)

LocalCall(i) == AskLocal(i) \/ VerifyLocal(i) \/ StartLocal(i) \/ StopLocal(i)

Next ==
    \/ \E i \in Inst :
         \/ Call(i) \/ LocalCall(i) \/ NewPass(i) \/ Rotate(i) \/ Reserve(i)
         \/ \E r \in Receipt : Transfer(i, r)
    \/ Unassign
    \/ Tamper

(* Passes come round, and a call that can go on does so in the end.          *)
Fairness ==
    \A i \in Inst :
        /\ WF_vars(NewPass(i))
        /\ SF_vars(Look(i))
        /\ SF_vars(Adopt(i))
        /\ SF_vars(Elect(i))
        /\ SF_vars(Own(i))
        /\ WF_vars(Stop(i) /\ pc[i] \in {"creating", "created", "removing", "removed"})

Spec == Init /\ [][Next]_vars /\ Fairness

-----------------------------------------------------------------------------
(* Types.                                                                   *)
TypeOK ==
    /\ last \in Nat
    /\ author \in [1..last -> Identity]
    /\ live \subseteq 1..last
    /\ accepted \subseteq 1..last
    /\ assigned \in BOOLEAN
    /\ gen \in [Inst -> 0..MaxRotations]
    /\ registered \subseteq Inst
    /\ made \in [Inst -> Nat]
    /\ attempted \in [Inst -> BOOLEAN]
    /\ comment \in [Inst -> 0..last]
    /\ winner \in [Inst -> 0..last]
    /\ cleanup \in [Inst -> {"none", "pending", "done"}]
    /\ receipt \in [Inst -> Receipt \union {NoReceipt}]
    /\ reserved \in [Inst -> BOOLEAN]
    /\ successor \in [Inst -> Receipt \union {NoReceipt}]
    /\ first \in [Inst -> BOOLEAN]
    /\ recent \in [Inst -> SUBSET (1..last)]
    /\ pc \in [Inst -> {"idle", "looked", "creating", "created", "elected",
                        "removing", "removed", "accepting"}]
    /\ view \in [Inst -> SUBSET (1..last)]
    /\ owner \subseteq Inst
    /\ other \subseteq Inst
    /\ local \in [Inst -> [at : {"none", "asked", "verified", "told"},
                          sees : SUBSET (1..last), claimed : BOOLEAN]]

(* One installation at most is ever told that it owns the assignment.       *)
AtMostOneOwner == ~MayTamper => \A i, j \in owner : i = j

(* An owner's comment is never removed by another's cleanup, and stays the   *)
(* earliest there is.                                                        *)
OwnerKept == ~MayTamper => \A i \in owner : Earliest(comment[i], live)

(* Lost answers, crashes and rotations never make an installation claim the  *)
(* same assignment twice.                                                    *)
OneComment == \A c, d \in 1..last : author[c].inst = author[d].inst => c = d

(* Who found the assignment claimed by another never takes it over, even     *)
(* after that comment was deleted.                                           *)
NoTakeover == owner \intersect other = {}

(* Work that starts without a claim starts only from a call made before its    *)
(* installation posted a claim or was told who owns the assignment, whatever   *)
(* answer was lost, comment deleted or identity rotated until then.            *)
LocalUnclaimed == \A i \in Inst : local[i].at = "told" => ~local[i].claimed

(* Once a claim is posted the election comes to an end: lost answers, failed *)
(* cleanups and crashes strand nobody's win.                                 *)
ElectionDecides == live # {} ~> owner # {} \/ ~assigned

(* Claiming follows AttemptOnce: no comment is posted before the attempt is on  *)
(* record, none again after a lost answer, a crash or a rotation, and no        *)
(* comment is taken for the installation's own that is not.                   *)
PostedBy(i) == {c \in 1..last : author[c].inst = i}
A == INSTANCE AttemptOnce WITH
       Effect <- Inst,
       noted <- {i \in Inst : attempted[i]},
       sent <- [i \in Inst |-> Cardinality(PostedBy(i))],
       done <- {i \in Inst : PostedBy(i) # {}},
       known <- {i \in Inst : comment[i] # 0}
ImplementsAttempts == A!Spec
=============================================================================
