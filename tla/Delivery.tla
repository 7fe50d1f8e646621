------------------------------ MODULE Delivery ------------------------------
(***************************************************************************)
(* The delivery of one issue's work: its branch is pushed, its pull         *)
(* request created or updated (src/agent/openclaw-delivery.ts,              *)
(* publish-issue-delivery.ts, issue-delivery.ts), and one comment announces *)
(* it on the issue (delivery-announcement.ts, task-update.ts,               *)
(* public-response.ts, comment-publisher.ts).                               *)
(*                                                                         *)
(* Operations run unlocked on a copy of the record; a save fails if the     *)
(* record's work changed since the operation last read it (DispatchJournal, *)
(* preserveOpenClawProgress).  Requests may go unanswered and be carried    *)
(* out at any later time, and an operation may die at any point.  What      *)
(* GitHub has answered, later reads show, but for a pull request's head,    *)
(* which follows its branch with a delay.  GitHub itself is not assumed to  *)
(* refuse a second pull request for a branch.                               *)
(*                                                                         *)
(* Commits are the line 1..MaxHead, and the titles and bodies the agent has *)
(* written, one after another, are 1..MaxContent; 0 is none.                *)
(***************************************************************************)
EXTENDS Naturals, Sequences, FiniteSets

CONSTANTS
    Proc,       \* processes, each of which runs operations one after another
    Text,       \* texts of an announcement
    NoText,
    MaxHead,    \* bound on commits
    MaxContent, \* bound on titles and bodies
    Feedback,   \* whether a feedback event's turns deliver too
    MaxMishaps  \* bound on failures, rejections and overlapping operations

ASSUME DeliveryAssumption ==
    /\ NoText \notin Text
    /\ MaxHead \in Nat \ {0}
    /\ MaxContent \in Nat \ {0}
    /\ Feedback \in BOOLEAN
    /\ MaxMishaps \in Nat

VARIABLES
    head,      \* HEAD of the worktree
    file,      \* the record: the issue chat's delivery and the event's copy
    remote,    \* head of the branch at origin
    prs,       \* pull requests created for the branch
    pull,      \* what GitHub shows of the first
    comments,  \* announcements on the issue
    late,      \* unanswered requests that may still be carried out
    pc,        \* where each process is
    own,       \* the copy its operation works on
    mem,       \* the delivery as the operation has it
    seen,      \* the record when the operation last read or saved it
    plan,      \* what the operation has fixed
    mishaps,   \* used up of the bound
    overlapped \* history: two operations have run at once

vars == <<head, file, remote, prs, pull, comments, late,
          pc, own, mem, seen, plan, mishaps, overlapped>>
github == <<remote, prs, pull, comments>>
process == <<pc, own, mem, seen, plan>>
environment == <<head, late, mishaps, overlapped>>

Copies == {"chat", "event"}
Heads == 0..MaxHead
Contents == 0..MaxContent
Snapshots == Heads \X Contents

(* An announcement: the pull request it describes, its text, and whether its  *)
(* comment was attempted and confirmed.                                       *)
NoAnnouncement == [composed |-> FALSE, snapshot |-> <<0, 0>>, text |-> NoText,
                   attempted |-> FALSE, receipt |-> FALSE]
Composed(snapshot) == [NoAnnouncement EXCEPT !.composed = TRUE, !.snapshot = snapshot]
Announcements == [composed : BOOLEAN, snapshot : Snapshots, text : Text \union {NoText},
                  attempted : BOOLEAN, receipt : BOOLEAN]

(* A delivery: head of its binding, content, creationAttempted, the head of    *)
(* pendingPush, pushedHead, whether the pull request is known, contentUpdate,  *)
(* reconciled, and the announcement.                                          *)
NoDelivery == [made |-> FALSE, head |-> 0, content |-> 0, creating |-> FALSE,
               pending |-> 0, pushed |-> 0, pr |-> FALSE, update |-> FALSE,
               reconciled |-> FALSE, announcement |-> NoAnnouncement]
Deliveries == [made : BOOLEAN, head : Heads, content : Contents,
               creating : BOOLEAN, pending : Heads, pushed : Heads, pr : BOOLEAN,
               update : BOOLEAN, reconciled : BOOLEAN, announcement : Announcements]
Records == [Copies -> Deliveries]
NoRecord == [c \in Copies |-> NoDelivery]

NoPlan == [operation |-> "none", head |-> 0, content |-> 0, patch |-> 0,
           existing |-> FALSE, text |-> NoText]
Plans == [operation : {"none", "publish", "reconcile", "compose", "candidate", "announce"},
          head : Heads, content : Contents,
          patch : Contents, existing : BOOLEAN, text : Text \union {NoText}]

Publishing == {"bind", "open", "look", "reserve", "push", "check", "find", "create", "verify",
               "patch", "finish"}
Announcing == {"confirm", "survey", "search", "claim", "post", "receive"}

Requests == [kind : {"push", "create", "post"}, head : Heads,
             content : Contents, text : Text \union {NoText}]
PushOf(h) == [kind |-> "push", head |-> h, content |-> 0, text |-> NoText]
CreationOf(c) == [kind |-> "create", head |-> 0, content |-> c, text |-> NoText]
PostOf(t) == [kind |-> "post", head |-> 0, content |-> 0, text |-> t]

Init ==
    /\ head = 1
    /\ file = NoRecord
    /\ remote = 0
    /\ prs = 0
    /\ pull = [head |-> 0, content |-> 0]
    /\ comments = <<>>
    /\ late = {}
    /\ pc = [p \in Proc |-> "idle"]
    /\ own = [p \in Proc |-> "chat"]
    /\ mem = [p \in Proc |-> NoDelivery]
    /\ seen = [p \in Proc |-> NoRecord]
    /\ plan = [p \in Proc |-> NoPlan]
    /\ mishaps = 0
    /\ overlapped = FALSE

-----------------------------------------------------------------------------
(* An operation ends; its copy is gone.                                       *)
Leave(p) ==
    /\ pc' = [pc EXCEPT ![p] = "idle"]
    /\ own' = [own EXCEPT ![p] = "chat"]
    /\ mem' = [mem EXCEPT ![p] = NoDelivery]
    /\ seen' = [seen EXCEPT ![p] = NoRecord]
    /\ plan' = [plan EXCEPT ![p] = NoPlan]

Goto(p, place) == pc' = [pc EXCEPT ![p] = place]

(* What an operation's record is once its delivery is d: an event's delivery   *)
(* is the issue's too when it is reconciled.                                  *)
With(record, copy, d) ==
    [c \in Copies |-> IF c = copy \/ (copy = "event" /\ d.reconciled) THEN d ELSE record[c]]

(* Saves.  One that changes nothing reads what others have saved instead.      *)
Continue(p, record, place) ==
    IF place = "idle" THEN Leave(p)
    ELSE /\ Goto(p, place)
         /\ mem' = [mem EXCEPT ![p] = record[own[p]]]
         /\ seen' = [seen EXCEPT ![p] = record]
         /\ UNCHANGED <<own, plan>>

Refresh(p, place) ==
    /\ Continue(p, file, place)
    /\ UNCHANGED file

Conflict(p) ==
    /\ seen[p]["chat"] # file["chat"]
    /\ Leave(p)
    /\ UNCHANGED file

Commit(p, d, place) ==
    /\ seen[p]["chat"] = file["chat"]
    /\ file' = With(file, own[p], d)
    /\ Continue(p, file', place)

Save(p, d, place) ==
    IF With(seen[p], own[p], d) = seen[p] THEN Refresh(p, place)
    ELSE Commit(p, d, place) \/ Conflict(p)

-----------------------------------------------------------------------------
(* The delivery an operation starts from: an event's turns work on a copy of   *)
(* their own, taken from the issue's when they have none.                     *)
Start(copy) == IF copy = "event" /\ ~file["event"].made THEN file["chat"] ELSE file[copy]

(* An event's work is on the last commit and belongs to a known pull request;  *)
(* its turns run one operation at a time.                                     *)
Entitled(copy) ==
    copy = "event" =>
        /\ Feedback
        /\ head = MaxHead
        /\ file["chat"].pr
        /\ \A q \in Proc : pc[q] # "idle" => own[q] = "chat"

Begin(p, copy, d, place, fixed) ==
    /\ pc[p] = "idle"
    /\ Entitled(copy)
    /\ Goto(p, place)
    /\ own' = [own EXCEPT ![p] = copy]
    /\ mem' = [mem EXCEPT ![p] = d]
    /\ seen' = [seen EXCEPT ![p] = file]
    /\ plan' = [plan EXCEPT ![p] = fixed]
    /\ IF \A q \in Proc : pc[q] = "idle"
         THEN UNCHANGED <<mishaps, overlapped>>
         ELSE /\ mishaps < MaxMishaps
              /\ mishaps' = mishaps + 1
              /\ overlapped' = TRUE
    /\ UNCHANGED <<head, file, github, late>>

(* publish, with the digest of what prepare shows: the content of a delivery    *)
(* whose creation is uncertain is frozen.                                     *)
Frozen(d) == d.creating /\ ~d.pr

UpdatesForgotten(d, c) == d.pr /\ c # d.content  \* mutant: an unfinished update is dropped

Updates(d, c) == d.update \/ (d.pr /\ c # d.content)

StartPublish(p, copy, c) ==
    LET d == Start(copy) IN
    /\ c >= d.content
    /\ Frozen(d) => c = d.content
    /\ Begin(p, copy,
             [d EXCEPT !.made = TRUE, !.head = head, !.content = c,
                       !.update = Updates(d, c), !.reconciled = FALSE],
             "bind",
             [NoPlan EXCEPT !.operation = "publish", !.head = head, !.content = c])

(* reconcile: a reconciled delivery is only inspected.                         *)
StartReconcile(p, copy) ==
    LET d == Start(copy) IN
    /\ d.made
    /\ ~d.reconciled
    /\ remote = d.head
    /\ Begin(p, copy, d, "open",
             [NoPlan EXCEPT !.operation = "reconcile", !.head = d.head, !.content = d.content])

Bind(p) ==
    /\ pc[p] = "bind"
    /\ Save(p, mem[p], "open")
    /\ UNCHANGED <<github, environment>>

(* publishIssueDelivery: the delivery is not reconciled from here on; the branch *)
(* and its pull request are looked at, a pull request that still shows the head *)
(* before a push as often as that takes.                                      *)
Open(p) ==
    /\ pc[p] = "open"
    /\ Save(p, [mem[p] EXCEPT !.reconciled = FALSE], "look")
    /\ UNCHANGED <<github, environment>>

Inspected == prs = 0 \/ (prs = 1 /\ pull.head = remote)

PushableOnce(p) ==  \* mutant: a push that did reach the branch is not recognised
    /\ remote = 0 \/ remote = plan[p].head \/ mem[p].pr
    /\ remote <= plan[p].head
    /\ mem[p].pending = 0

Pushable(p) ==
    /\ remote = 0 \/ remote = plan[p].head \/ mem[p].pr
    /\ remote <= plan[p].head
    /\ remote = plan[p].head \/ mem[p].pending = 0

Look(p) ==
    /\ pc[p] = "look"
    /\ Inspected
    /\ Pushable(p)
    /\ Goto(p, IF remote = plan[p].head THEN "check" ELSE "reserve")
    /\ plan' = [plan EXCEPT ![p].patch = IF mem[p].update THEN mem[p].content ELSE 0]
    /\ UNCHANGED <<file, github, environment, own, mem, seen>>

Reserve(p) ==
    /\ pc[p] = "reserve"
    /\ Save(p, [mem[p] EXCEPT !.pending = plan[p].head], "push")
    /\ UNCHANGED <<github, environment>>

Push(p) ==
    /\ pc[p] = "push"
    /\ remote <= plan[p].head
    /\ remote' = plan[p].head
    /\ Goto(p, "check")
    /\ UNCHANGED <<file, prs, pull, comments, environment, own, mem, seen, plan>>

Check(p) ==
    /\ pc[p] = "check"
    /\ remote = plan[p].head
    /\ Save(p, [mem[p] EXCEPT !.pushed = plan[p].head], "find")
    /\ UNCHANGED <<github, environment>>

(* IssueDeliveryProvider.publish: the branch's pull request is found, or one is *)
(* created, at most once.  An event with a pull request never creates one.     *)
Found(p) ==
    /\ pc[p] = "find"
    /\ prs = 1
    /\ Goto(p, "verify")
    /\ plan' = [plan EXCEPT ![p].existing = TRUE]
    /\ UNCHANGED <<file, github, environment, own, mem, seen>>

ReserveCreationUnread(p) ==  \* mutant: the retained attempt is not looked at
    /\ pc[p] = "find"
    /\ prs = 0
    /\ own[p] = "chat"
    /\ Save(p, [mem[p] EXCEPT !.creating = TRUE], "create")
    /\ UNCHANGED <<github, environment>>

ReserveCreation(p) ==
    /\ pc[p] = "find"
    /\ prs = 0
    /\ own[p] = "chat"
    /\ ~mem[p].creating
    /\ Save(p, [mem[p] EXCEPT !.creating = TRUE], "create")
    /\ UNCHANGED <<github, environment>>

Opened(c) ==
    /\ prs' = prs + 1
    /\ pull' = IF prs = 0 THEN [head |-> remote, content |-> c] ELSE pull

Create(p) ==
    /\ pc[p] = "create"
    /\ Opened(plan[p].content)
    /\ Goto(p, "verify")
    /\ UNCHANGED <<file, remote, comments, environment, own, mem, seen, plan>>

Verify(p) ==
    /\ pc[p] = "verify"
    /\ pull.head = plan[p].head
    /\ Save(p, [mem[p] EXCEPT !.pr = TRUE],
            IF plan[p].existing /\ plan[p].patch # 0 THEN "patch" ELSE "finish")
    /\ UNCHANGED <<github, environment>>

Patch(p) ==
    /\ pc[p] = "patch"
    /\ pull' = [pull EXCEPT !.content = plan[p].patch]
    /\ Goto(p, "finish")
    /\ UNCHANGED <<file, remote, prs, comments, environment, own, mem, seen, plan>>

Finish(p) ==
    /\ pc[p] = "finish"
    /\ Save(p, [mem[p] EXCEPT !.pending = 0, !.update = FALSE, !.reconciled = TRUE], "idle")
    /\ UNCHANGED <<github, environment>>

-----------------------------------------------------------------------------
(* deliveryAnnouncement, and the coordinator's recheck of a retained one: what  *)
(* was attempted is only ever looked for.                                     *)
SettledConfirmed(a) == a.receipt  \* mutant: an unconfirmed attempt counts for nothing

Settled(a) == a.attempted \/ a.receipt

StartAnnounce(p, copy, operation, t) ==
    LET d == Start(copy) IN
    /\ d.pr
    /\ d.reconciled
    /\ Begin(p, copy, d, IF Settled(d.announcement) THEN "confirm" ELSE "survey",
             [NoPlan EXCEPT !.operation = operation, !.text = t])

Posted(text) == comments # <<>> /\ Head(comments) = text

Confirm(p) ==
    /\ pc[p] = "confirm"
    /\ Posted(mem[p].announcement.text)
    /\ Save(p, [mem[p] EXCEPT !.announcement.receipt = TRUE], "idle")
    /\ UNCHANGED <<github, environment>>

(* provider.announcement: the pull request as it is, at the delivery's head.    *)
Shown(p) == prs = 1 /\ pull.head = mem[p].head
Snapshot == <<pull.head, pull.content>>
Current(p) ==
    /\ Shown(p)
    /\ mem[p].announcement.composed
    /\ mem[p].announcement.snapshot = Snapshot

Compose(p) ==
    /\ pc[p] = "survey"
    /\ plan[p].operation = "compose"
    /\ Shown(p)
    /\ Save(p, [mem[p] EXCEPT !.announcement = Composed(Snapshot)], "idle")
    /\ UNCHANGED <<github, environment>>

Candidate(p) ==
    /\ pc[p] = "survey"
    /\ plan[p].operation = "candidate"
    /\ Current(p)
    /\ mem[p].announcement.text \in {NoText, plan[p].text}
    /\ Save(p, [mem[p] EXCEPT !.announcement.text = plan[p].text], "idle")
    /\ UNCHANGED <<github, environment>>

AnnounceUnwritten(p) ==  \* mutant: the candidate is not required
    /\ pc[p] = "survey"
    /\ plan[p].operation = "announce"
    /\ Current(p)
    /\ Goto(p, "search")
    /\ UNCHANGED <<file, github, environment, own, mem, seen, plan>>

Announce(p) ==
    /\ pc[p] = "survey"
    /\ plan[p].operation = "announce"
    /\ Current(p)
    /\ mem[p].announcement.text # NoText
    /\ Goto(p, "search")
    /\ UNCHANGED <<file, github, environment, own, mem, seen, plan>>

(* GitHubNotificationCommentPublisher: the comment is looked for, and created    *)
(* when there is none and the pull request is still the one it describes.      *)
Discover(p) ==
    /\ pc[p] = "search"
    /\ Posted(mem[p].announcement.text)
    /\ Save(p, [mem[p] EXCEPT !.announcement.receipt = TRUE], "idle")
    /\ UNCHANGED <<github, environment>>

Search(p) ==
    /\ pc[p] = "search"
    /\ comments = <<>>
    /\ Current(p)
    /\ Goto(p, "claim")
    /\ UNCHANGED <<file, github, environment, own, mem, seen, plan>>

Claim(p) ==
    /\ pc[p] = "claim"
    /\ Save(p, [mem[p] EXCEPT !.announcement.attempted = TRUE], "post")
    /\ UNCHANGED <<github, environment>>

Post(p) ==
    /\ pc[p] = "post"
    /\ comments' = Append(comments, mem[p].announcement.text)
    /\ Goto(p, "receive")
    /\ UNCHANGED <<file, remote, prs, pull, environment, own, mem, seen, plan>>

Receive(p) ==
    /\ pc[p] = "receive"
    /\ Save(p, [mem[p] EXCEPT !.announcement.receipt = TRUE], "idle")
    /\ UNCHANGED <<github, environment>>

-----------------------------------------------------------------------------
(* An operation throws where its conditions do not hold.                       *)
Refused(p) ==
    LET a == mem[p].announcement IN
    \/ pc[p] = "look" /\ ~(Inspected /\ Pushable(p))
    \/ pc[p] = "push" /\ remote > plan[p].head
    \/ pc[p] = "check" /\ remote # plan[p].head
    \/ pc[p] = "find" /\ prs = 0 /\ (own[p] = "event" \/ mem[p].creating)
    \/ pc[p] = "find" /\ prs > 1
    \/ pc[p] = "verify" /\ pull.head # plan[p].head
    \/ pc[p] = "confirm" /\ ~Posted(a.text)
    \/ pc[p] = "survey" /\ plan[p].operation = "compose" /\ ~Shown(p)
    \/ pc[p] = "survey" /\ plan[p].operation # "compose" /\ ~Current(p)
    \/ pc[p] = "survey" /\ plan[p].operation = "candidate" /\ a.text \notin {NoText, plan[p].text}
    \/ pc[p] = "survey" /\ plan[p].operation = "announce" /\ a.text = NoText
    \/ pc[p] = "search" /\ ~Posted(a.text) /\ (comments = <<>> => ~Current(p))

Refuse(p) ==
    /\ Refused(p)
    /\ Leave(p)
    /\ UNCHANGED <<file, github, environment>>

Mishap ==
    /\ mishaps < MaxMishaps
    /\ mishaps' = mishaps + 1

(* GitHub definitely rejects a creation: it may be attempted again.            *)
CreateRejected(p) ==
    /\ pc[p] = "create"
    /\ Mishap
    /\ Save(p, [mem[p] EXCEPT !.creating = FALSE], "idle")
    /\ UNCHANGED <<github, head, late, overlapped>>

PostRejected(p) ==
    /\ pc[p] = "post"
    /\ Mishap
    /\ Save(p, [mem[p] EXCEPT !.announcement.attempted = FALSE], "idle")
    /\ UNCHANGED <<github, head, late, overlapped>>

(* A call fails or the process dies; a request may be under way.               *)
Pending(p) ==
    CASE pc[p] = "push" -> {PushOf(plan[p].head)}
      [] pc[p] = "create" -> {CreationOf(plan[p].content)}
      [] pc[p] = "post" -> {PostOf(mem[p].announcement.text)}
      [] OTHER -> {}

Fail(p) ==
    /\ pc[p] # "idle"
    /\ Mishap
    /\ \E left \in SUBSET Pending(p) : late' = late \union left
    /\ pull' \in {pull} \union
         (IF pc[p] = "patch" THEN {[pull EXCEPT !.content = plan[p].patch]} ELSE {})
    /\ Leave(p)
    /\ UNCHANGED <<head, file, remote, prs, comments, overlapped>>

(* An unanswered request is carried out after all.                             *)
Land(r) ==
    /\ late' = late \ {r}
    /\ \/ /\ r.kind = "push"
          /\ remote' = IF remote < r.head THEN r.head ELSE remote
          /\ UNCHANGED <<prs, pull, comments>>
       \/ /\ r.kind = "create"
          /\ Opened(r.content)
          /\ UNCHANGED <<remote, comments>>
       \/ /\ r.kind = "post"
          /\ comments' = Append(comments, r.text)
          /\ UNCHANGED <<remote, prs, pull>>
    /\ UNCHANGED <<head, file, process, mishaps, overlapped>>

(* GitHub shows a pull request's new head.                                     *)
Observe ==
    /\ prs > 0
    /\ pull.head # remote
    /\ pull' = [pull EXCEPT !.head = remote]
    /\ UNCHANGED <<file, remote, prs, comments, environment, process>>

(* The agent commits; a person pushes what an uncertain push may not have.      *)
Work ==
    /\ head < MaxHead
    /\ head' = head + 1
    /\ UNCHANGED <<file, github, late, process, mishaps, overlapped>>

PushByHand ==
    /\ file["chat"].pending # 0
    /\ remote < head
    /\ remote' = head
    /\ UNCHANGED <<file, prs, pull, comments, environment, process>>

-----------------------------------------------------------------------------
Operate(p) ==
    \/ Bind(p) \/ Open(p) \/ Look(p) \/ Reserve(p) \/ Push(p) \/ Check(p)
    \/ Found(p) \/ ReserveCreation(p) \/ Create(p) \/ Verify(p) \/ Patch(p) \/ Finish(p)
    \/ Confirm(p) \/ Compose(p) \/ Candidate(p) \/ Announce(p)
    \/ Discover(p) \/ Search(p) \/ Claim(p) \/ Post(p) \/ Receive(p)
    \/ Refuse(p)

Deliver ==
    /\ ~file["chat"].reconciled
    /\ \E p \in Proc, c \in 1..MaxContent : StartPublish(p, "chat", c)

Next ==
    \/ \E p \in Proc : \/ Operate(p) \/ CreateRejected(p) \/ PostRejected(p) \/ Fail(p)
    \/ \E p \in Proc, copy \in Copies :
         \/ \E c \in 1..MaxContent : StartPublish(p, copy, c)
         \/ StartReconcile(p, copy)
         \/ \E operation \in {"compose", "announce"} : StartAnnounce(p, copy, operation, NoText)
         \/ \E t \in Text : StartAnnounce(p, copy, "candidate", t)
    \/ \E r \in late : Land(r)
    \/ Observe \/ Work \/ PushByHand

(* A running operation goes on, GitHub shows new heads, and the agent publishes *)
(* again what is not delivered.  Each subscript names what its action always     *)
(* changes.                                                                   *)
Fairness ==
    /\ \A p \in Proc : WF_(pc[p])(Operate(p))
    /\ WF_pull(Observe)
    /\ WF_pc(Deliver)

Spec == Init /\ [][Next]_vars /\ Fairness

-----------------------------------------------------------------------------
TypeOK ==
    /\ head \in 1..MaxHead
    /\ file \in Records
    /\ remote \in Heads
    /\ prs \in Nat
    /\ pull \in [head : Heads, content : Contents]
    /\ comments \in Seq(Text)
    /\ late \subseteq Requests
    /\ pc \in [Proc -> {"idle"} \union Publishing \union Announcing]
    /\ own \in [Proc -> Copies]
    /\ mem \in [Proc -> Deliveries]
    /\ seen \in [Proc -> Records]
    /\ plan \in [Proc -> Plans]
    /\ mishaps \in 0..MaxMishaps
    /\ overlapped \in BOOLEAN

At(place) == Cardinality({p \in Proc : pc[p] = place})
Unanswered(kind) == Cardinality({r \in late : r.kind = kind})

(* Of all announcements that were posted, may still be posted or are being       *)
(* posted there is at most one, whatever goes unanswered, is rejected or runs at *)
(* once: "absence after an attempted write never permits another post"          *)
(* (delivery-announcement.ts:49).                                              *)
AnnouncedOnce == Len(comments) + Unanswered("post") + At("post") <= 1

(* The same of pull requests; and no push is started while another may still    *)
(* change the branch.                                                          *)
PublishedOnce ==
    /\ prs + Unanswered("create") + At("create") <= 1
    /\ ~overlapped => Cardinality({r \in late : r.kind = "push" /\ r.head > remote})
                        + At("push") <= 1

(* What the record says is so: a receipt has its comment, a known pull request   *)
(* exists, and nothing of a reconciled delivery is still to do.  If operations   *)
(* never overlapped, it is its own head that was pushed and its own content that *)
(* the pull request shows.                                                      *)
Truthful ==
    \A copy \in Copies :
        LET d == file[copy] IN
        /\ d.announcement.receipt => comments # <<>>
        /\ d.pr => prs > 0
        /\ d.pushed <= remote
        /\ d.reconciled => d.pr /\ d.pushed # 0
        /\ (copy = "chat" /\ d.reconciled /\ ~overlapped) =>
               /\ d.pending = 0
               /\ ~d.update
               /\ d.pushed = d.head
               /\ pull.content = d.content

(* Delivery stops for a person in three cases only: a push whose outcome is      *)
(* unknown did not reach the branch, a creation whose outcome is unknown shows   *)
(* no pull request, and the branch of a pull request that was never recorded     *)
(* has another head.                                                            *)
Held ==
    LET d == file["chat"] IN
    \/ d.pending # 0 /\ remote # head
    \/ Frozen(d) /\ prs = 0
    \/ ~d.pr /\ remote \notin {0, head}

(* Otherwise it is reconciled sooner or later, and again after every new         *)
(* publication.                                                                 *)
Settles == []<>(file["chat"].reconciled \/ Held)

(* Posting the announcement and creating the pull request follow AttemptOnce,    *)
(* whatever goes unanswered, is rejected or runs at once, when no feedback event  *)
(* delivers from a copy of its own.                                             *)
Effects == {"comment", "pull"}
A == INSTANCE AttemptOnce WITH
       Effect <- Effects,
       noted <- {e \in Effects : IF e = "comment" THEN Settled(file["chat"].announcement)
                                 ELSE file["chat"].creating},
       sent <- [e \in Effects |-> IF e = "comment" THEN Len(comments) + Unanswered("post")
                                  ELSE prs + Unanswered("create")],
       done <- {e \in Effects : IF e = "comment" THEN comments # <<>> ELSE prs # 0},
       known <- {e \in Effects : IF e = "comment" THEN file["chat"].announcement.receipt
                                 ELSE file["chat"].pr}
ImplementsAttempts == A!Spec
=============================================================================
