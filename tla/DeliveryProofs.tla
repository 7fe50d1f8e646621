--------------------------- MODULE DeliveryProofs ---------------------------
(* Proofs about Delivery, for any number of processes and failures.          *)
EXTENDS Delivery, TLAPS, FiniteSetTheorems

Places == {"idle"} \union Publishing \union Announcing

(* What the steps of a process have in common.                               *)
Others(p) ==
    \A q \in Proc \ {p} : /\ pc'[q] = pc[q] /\ own'[q] = own[q] /\ mem'[q] = mem[q]
                          /\ seen'[q] = seen[q] /\ plan'[q] = plan[q]

Left(p) ==
    /\ pc'[p] = "idle" /\ own'[p] = "chat" /\ mem'[p] = NoDelivery
    /\ seen'[p] = NoRecord /\ plan'[p] = NoPlan

Gone(p, place) ==
    /\ place # "idle"
    /\ pc'[p] = place /\ own'[p] = own[p] /\ mem'[p] = file'[own[p]]
    /\ seen'[p] = file' /\ plan'[p] = plan[p]

ProcessType ==
    /\ pc \in [Proc -> Places]
    /\ own \in [Proc -> Copies]
    /\ mem \in [Proc -> Deliveries]
    /\ seen \in [Proc -> Records]
    /\ plan \in [Proc -> Plans]

WorldType ==
    /\ head \in 1..MaxHead
    /\ remote \in Heads
    /\ prs \in Nat
    /\ pull \in [head : Heads, content : Contents]
    /\ comments \in Seq(Text)
    /\ late \subseteq Requests
    /\ mishaps \in 0..MaxMishaps
    /\ overlapped \in BOOLEAN

LEMMA Types == TypeOK <=> file \in Records /\ ProcessType /\ WorldType
  BY DEF TypeOK, ProcessType, WorldType, Places

LEMMA Empties ==
    /\ 0 \in Heads /\ 0 \in Contents
    /\ NoAnnouncement \in Announcements
    /\ NoDelivery \in Deliveries
    /\ NoRecord \in Records
    /\ NoPlan \in Plans
    /\ "chat" \in Copies /\ "event" \in Copies
  <1>1. 0 \in Heads /\ 0 \in Contents
    BY DeliveryAssumption DEF Heads, Contents
  <1>2. NoAnnouncement \in Announcements
    BY <1>1 DEF NoAnnouncement, Announcements, Snapshots
  <1>3. NoDelivery \in Deliveries
    BY <1>1, <1>2 DEF NoDelivery, Deliveries
  <1>4. NoRecord \in Records
    BY <1>3 DEF NoRecord, Records
  <1>5. NoPlan \in Plans
    BY <1>1 DEF NoPlan, Plans
  <1> QED BY <1>1, <1>2, <1>3, <1>4, <1>5 DEF Copies

LEMMA WithType ==
    ASSUME NEW record \in Records, NEW copy \in Copies, NEW d \in Deliveries
    PROVE  /\ With(record, copy, d) \in Records
           /\ With(record, copy, d)[copy] = d
           /\ \A c \in Copies : With(record, copy, d)[c] \in {d, record[c]}
           /\ copy = "chat" => With(record, copy, d)["event"] = record["event"]
  BY DEF With, Records, Copies

-----------------------------------------------------------------------------
LEMMA LeaveEffect ==
    ASSUME TypeOK, NEW p \in Proc, Leave(p)
    PROVE  ProcessType' /\ Others(p) /\ Left(p)
  BY Empties DEF TypeOK, Leave, ProcessType, Others, Left, Places

LEMMA GotoEffect ==
    ASSUME TypeOK, NEW p \in Proc, NEW place \in Places, Goto(p, place)
    PROVE  /\ pc' \in [Proc -> Places]
           /\ pc'[p] = place
           /\ \A q \in Proc \ {p} : pc'[q] = pc[q]
  BY DEF TypeOK, Goto, Places

LEMMA ContinueEffect ==
    ASSUME TypeOK, NEW p \in Proc, NEW place \in Places, file' \in Records,
           Continue(p, file', place)
    PROVE  ProcessType' /\ Others(p) /\ (Left(p) \/ Gone(p, place))
  <1>1. CASE place = "idle"
    BY <1>1, LeaveEffect DEF Continue
  <1>2. CASE place # "idle"
    <2>1. Goto(p, place)
      BY <1>2 DEF Continue
    <2>2. file'[own[p]] \in Deliveries
      BY DEF TypeOK, Records
    <2>3. ProcessType'
      BY <1>2, <2>1, <2>2, GotoEffect DEF Continue, TypeOK, ProcessType
    <2> QED BY <1>2, <2>1, <2>3, GotoEffect DEF Continue, TypeOK, Others, Gone
  <1> QED BY <1>1, <1>2

(* A save writes, finds nothing to write, or fails.                           *)
LEMMA SaveEffect ==
    ASSUME TypeOK, NEW p \in Proc, NEW d \in Deliveries, NEW place \in Places,
           Save(p, d, place)
    PROVE  /\ file' \in Records /\ ProcessType' /\ Others(p)
           /\ \/ /\ seen[p]["chat"] = file["chat"]
                 /\ file' = With(file, own[p], d)
                 /\ Left(p) \/ Gone(p, place)
              \/ /\ d = seen[p][own[p]]
                 /\ own[p] = "event" /\ d.reconciled => d = seen[p]["chat"]
                 /\ file' = file
                 /\ Left(p) \/ Gone(p, place)
              \/ file' = file /\ Left(p)
  <1>0. file \in Records /\ seen[p] \in Records /\ own[p] \in Copies
    BY DEF TypeOK
  <1>1. CASE With(seen[p], own[p], d) = seen[p]
    <2>1. Continue(p, file', place) /\ file' = file
      BY <1>1 DEF Save, Refresh
    <2>2. d = seen[p][own[p]]
      BY <1>0, <1>1, WithType
    <2>3. own[p] = "event" /\ d.reconciled => d = seen[p]["chat"]
      BY <1>1, Empties DEF With
    <2> QED BY <1>0, <2>1, <2>2, <2>3, ContinueEffect
  <1>2. CASE Commit(p, d, place)
    <2>1. file' = With(file, own[p], d) /\ Continue(p, file', place)
          /\ seen[p]["chat"] = file["chat"]
      BY <1>2 DEF Commit
    <2>2. file' \in Records
      BY <1>0, <2>1, WithType
    <2> QED BY <2>1, <2>2, ContinueEffect
  <1>3. CASE Conflict(p)
    BY <1>0, <1>3, LeaveEffect DEF Conflict
  <1> QED BY <1>1, <1>2, <1>3 DEF Save

-----------------------------------------------------------------------------
(* What the saving actions make of a delivery.                                *)
Reopened(d) == [d EXCEPT !.reconciled = FALSE]
Reserved(d, h) == [d EXCEPT !.pending = h]
Pushed(d, h) == [d EXCEPT !.pushed = h]
Tried(d) == [d EXCEPT !.creating = TRUE]
Untried(d) == [d EXCEPT !.creating = FALSE]
Known(d) == [d EXCEPT !.pr = TRUE]
Done(d) == [d EXCEPT !.pending = 0, !.update = FALSE, !.reconciled = TRUE]
Described(d, snapshot) == [d EXCEPT !.announcement = Composed(snapshot)]
Written(d, t) == [d EXCEPT !.announcement.text = t]
Attempted(d) == [d EXCEPT !.announcement.attempted = TRUE]
Unattempted(d) == [d EXCEPT !.announcement.attempted = FALSE]
Received(d) == [d EXCEPT !.announcement.receipt = TRUE]

(* The fields that two deliveries have in common.                             *)
SameWork(e, d) == e.made = d.made /\ e.head = d.head /\ e.content = d.content
SameMarks(e, d) == e.creating = d.creating /\ e.pending = d.pending
SameResult(e, d) == e.pushed = d.pushed /\ e.pr = d.pr
SameEnd(e, d) == e.update = d.update /\ e.reconciled = d.reconciled
SamePublication(e, d) ==
    SameWork(e, d) /\ SameMarks(e, d) /\ SameResult(e, d) /\ SameEnd(e, d)
SameAnnouncement(e, d) == e.announcement = d.announcement

LEMMA ReopenedFields ==
    ASSUME NEW d \in Deliveries
    PROVE  /\ Reopened(d) \in Deliveries
           /\ SameWork(Reopened(d), d) /\ SameMarks(Reopened(d), d)
           /\ SameResult(Reopened(d), d) /\ Reopened(d).update = d.update
           /\ ~Reopened(d).reconciled
           /\ SameAnnouncement(Reopened(d), d)
  BY DEF Reopened, Deliveries, SameWork, SameMarks, SameResult, SameAnnouncement

LEMMA ReservedFields ==
    ASSUME NEW d \in Deliveries, NEW h \in Heads
    PROVE  /\ Reserved(d, h) \in Deliveries
           /\ SameWork(Reserved(d, h), d) /\ Reserved(d, h).creating = d.creating
           /\ SameResult(Reserved(d, h), d) /\ SameEnd(Reserved(d, h), d)
           /\ Reserved(d, h).pending = h
           /\ SameAnnouncement(Reserved(d, h), d)
  BY DEF Reserved, Deliveries, SameWork, SameResult, SameEnd, SameAnnouncement

LEMMA PushedFields ==
    ASSUME NEW d \in Deliveries, NEW h \in Heads
    PROVE  /\ Pushed(d, h) \in Deliveries
           /\ SameWork(Pushed(d, h), d) /\ SameMarks(Pushed(d, h), d)
           /\ Pushed(d, h).pr = d.pr /\ SameEnd(Pushed(d, h), d)
           /\ Pushed(d, h).pushed = h
           /\ SameAnnouncement(Pushed(d, h), d)
  BY DEF Pushed, Deliveries, SameWork, SameMarks, SameEnd, SameAnnouncement

LEMMA TriedFields ==
    ASSUME NEW d \in Deliveries
    PROVE  /\ Tried(d) \in Deliveries
           /\ SameWork(Tried(d), d) /\ Tried(d).pending = d.pending
           /\ SameResult(Tried(d), d) /\ SameEnd(Tried(d), d)
           /\ Tried(d).creating
           /\ SameAnnouncement(Tried(d), d)
  BY DEF Tried, Deliveries, SameWork, SameResult, SameEnd, SameAnnouncement

LEMMA UntriedFields ==
    ASSUME NEW d \in Deliveries
    PROVE  /\ Untried(d) \in Deliveries
           /\ SameWork(Untried(d), d) /\ Untried(d).pending = d.pending
           /\ SameResult(Untried(d), d) /\ SameEnd(Untried(d), d)
           /\ ~Untried(d).creating
           /\ SameAnnouncement(Untried(d), d)
  BY DEF Untried, Deliveries, SameWork, SameResult, SameEnd, SameAnnouncement

LEMMA KnownFields ==
    ASSUME NEW d \in Deliveries
    PROVE  /\ Known(d) \in Deliveries
           /\ SameWork(Known(d), d) /\ SameMarks(Known(d), d)
           /\ Known(d).pushed = d.pushed /\ SameEnd(Known(d), d)
           /\ Known(d).pr
           /\ SameAnnouncement(Known(d), d)
  BY DEF Known, Deliveries, SameWork, SameMarks, SameEnd, SameAnnouncement

LEMMA DoneFields ==
    ASSUME NEW d \in Deliveries
    PROVE  /\ Done(d) \in Deliveries
           /\ SameWork(Done(d), d) /\ Done(d).creating = d.creating
           /\ SameResult(Done(d), d)
           /\ Done(d).pending = 0 /\ ~Done(d).update /\ Done(d).reconciled
           /\ SameAnnouncement(Done(d), d)
  BY Empties DEF Done, Deliveries, SameWork, SameResult, SameAnnouncement

LEMMA PublicationKept ==
    ASSUME NEW d \in Deliveries, NEW t, NEW snapshot
    PROVE  /\ SamePublication(Described(d, snapshot), d)
           /\ SamePublication(Written(d, t), d)
           /\ SamePublication(Attempted(d), d)
           /\ SamePublication(Unattempted(d), d)
           /\ SamePublication(Received(d), d)
  BY DEF Deliveries, SamePublication, SameWork, SameMarks, SameResult, SameEnd,
         Described, Written, Attempted, Unattempted, Received

LEMMA AnnouncementEdits ==
    ASSUME NEW d \in Deliveries, NEW t \in Text \union {NoText}, NEW snapshot \in Snapshots
    PROVE  /\ Described(d, snapshot) \in Deliveries
           /\ Described(d, snapshot).announcement = Composed(snapshot)
           /\ ~Described(d, snapshot).announcement.receipt
           /\ Written(d, t) \in Deliveries
           /\ Written(d, t).announcement.receipt = d.announcement.receipt
           /\ Attempted(d) \in Deliveries
           /\ Attempted(d).announcement.attempted
           /\ Attempted(d).announcement.text = d.announcement.text
           /\ Attempted(d).announcement.receipt = d.announcement.receipt
           /\ Unattempted(d) \in Deliveries
           /\ ~Unattempted(d).announcement.attempted
           /\ Unattempted(d).announcement.receipt = d.announcement.receipt
           /\ Received(d) \in Deliveries
           /\ Received(d).announcement.receipt
  <1>1. d.announcement \in Announcements
    BY DEF Deliveries
  <1>2. Composed(snapshot) \in Announcements /\ ~Composed(snapshot).receipt
    BY Empties DEF Composed, NoAnnouncement, Announcements
  <1>3. Described(d, snapshot) \in Deliveries
        /\ Described(d, snapshot).announcement = Composed(snapshot)
    BY <1>2 DEF Described, Deliveries
  <1>4. /\ Written(d, t) \in Deliveries
        /\ Attempted(d) \in Deliveries
        /\ Unattempted(d) \in Deliveries
        /\ Received(d) \in Deliveries
    BY <1>1 DEF Deliveries, Announcements, Written, Attempted, Unattempted, Received
  <1>5. SUFFICES ASSUME NEW a \in Announcements, d.announcement = a
                 PROVE  /\ Written(d, t).announcement.receipt = a.receipt
                        /\ Attempted(d).announcement.attempted
                        /\ Attempted(d).announcement.text = a.text
                        /\ Attempted(d).announcement.receipt = a.receipt
                        /\ ~Unattempted(d).announcement.attempted
                        /\ Unattempted(d).announcement.receipt = a.receipt
                        /\ Received(d).announcement.receipt
    BY <1>1, <1>2, <1>3, <1>4
  <1>6. Written(d, t).announcement.receipt = a.receipt
    BY <1>5, <1>4 DEF Deliveries, Announcements, Written, Attempted, Unattempted, Received
  <1>7. /\ Attempted(d).announcement.attempted
        /\ Attempted(d).announcement.text = a.text
        /\ Attempted(d).announcement.receipt = a.receipt
    BY <1>5, <1>4 DEF Deliveries, Announcements, Written, Attempted, Unattempted, Received
  <1>8. /\ ~Unattempted(d).announcement.attempted
        /\ Unattempted(d).announcement.receipt = a.receipt
    BY <1>5, <1>4 DEF Deliveries, Announcements, Written, Attempted, Unattempted, Received
  <1>9. Received(d).announcement.receipt
    BY <1>5, <1>4 DEF Deliveries, Announcements, Written, Attempted, Unattempted, Received
  <1> QED BY <1>6, <1>7, <1>8, <1>9

-----------------------------------------------------------------------------
(* The actions that save, by what they make of the delivery and where they    *)
(* lead.                                                                      *)
Saving(p) ==
    \/ Bind(p) \/ Open(p) \/ Reserve(p) \/ Check(p) \/ ReserveCreation(p) \/ Verify(p)
    \/ Finish(p) \/ Confirm(p) \/ Compose(p) \/ Candidate(p) \/ Discover(p) \/ Claim(p)
    \/ Receive(p) \/ CreateRejected(p) \/ PostRejected(p)

Aside == UNCHANGED <<head, github, late, overlapped>> /\ mishaps' \in 0..MaxMishaps

Publication(p, d, place) ==
    \/ pc[p] = "bind" /\ d = mem[p] /\ place = "open"
    \/ pc[p] = "open" /\ d = Reopened(mem[p]) /\ place = "look"
    \/ pc[p] = "reserve" /\ d = Reserved(mem[p], plan[p].head) /\ place = "push"
    \/ pc[p] = "check" /\ remote = plan[p].head /\ d = Pushed(mem[p], remote) /\ place = "find"
    \/ pc[p] = "find" /\ prs = 0 /\ ~mem[p].creating /\ d = Tried(mem[p]) /\ place = "create"
    \/ pc[p] = "verify" /\ d = Known(mem[p])
       /\ place = IF plan[p].existing /\ plan[p].patch # 0 THEN "patch" ELSE "finish"
    \/ pc[p] = "finish" /\ d = Done(mem[p]) /\ place = "idle"
    \/ pc[p] = "create" /\ d = Untried(mem[p]) /\ place = "idle"

Announcement(p, d, place) ==
    \/ pc[p] = "survey" /\ d = Described(mem[p], Snapshot) /\ place = "idle"
    \/ pc[p] = "survey" /\ d = Written(mem[p], plan[p].text) /\ place = "idle"
    \/ pc[p] = "claim" /\ d = Attempted(mem[p]) /\ place = "post"
    \/ pc[p] = "post" /\ d = Unattempted(mem[p]) /\ place = "idle"
    \/ /\ pc[p] \in {"confirm", "search", "receive"}
       /\ pc[p] # "receive" => comments # <<>>
       /\ d = Received(mem[p]) /\ place = "idle"

Edit(p, d, place) == Publication(p, d, place) \/ Announcement(p, d, place)

LEMMA EverySave ==
    ASSUME TypeOK, NEW p \in Proc, Saving(p)
    PROVE  Aside /\ \E d, place : Save(p, d, place) /\ Edit(p, d, place)
  <1>1. ASSUME UNCHANGED <<github, environment>>
        PROVE  Aside
    BY <1>1 DEF Aside, environment, TypeOK
  <1>2. ASSUME Mishap, UNCHANGED <<github, head, late, overlapped>>
        PROVE  Aside
    BY <1>2, DeliveryAssumption DEF Aside, Mishap, TypeOK
  <1>3. Aside
    BY <1>1, <1>2 DEF Saving, Bind, Open, Reserve, Check, ReserveCreation, Verify, Finish,
          Confirm, Compose, Candidate, Discover, Claim, Receive, CreateRejected, PostRejected
  <1> DEFINE To(d, place) == Save(p, d, place) /\ Edit(p, d, place)
  <1>4. CASE Bind(p)
    <2>1. To(mem[p], "open")
      BY <1>4 DEF Bind, Edit, Publication
    <2> QED BY <1>3, <2>1
  <1>5. CASE Open(p)
    <2>1. To(Reopened(mem[p]), "look")
      BY <1>5 DEF Open, Edit, Publication, Reopened
    <2> QED BY <1>3, <2>1
  <1>6. CASE Reserve(p)
    <2>1. To(Reserved(mem[p], plan[p].head), "push")
      BY <1>6 DEF Reserve, Edit, Publication, Reserved
    <2> QED BY <1>3, <2>1
  <1>7. CASE Check(p)
    <2>1. To(Pushed(mem[p], remote), "find")
      BY <1>7 DEF Check, Edit, Publication, Pushed
    <2> QED BY <1>3, <2>1
  <1>8. CASE ReserveCreation(p)
    <2>1. To(Tried(mem[p]), "create")
      BY <1>8 DEF ReserveCreation, Edit, Publication, Tried
    <2> QED BY <1>3, <2>1
  <1>9. CASE Verify(p)
    <2>1. To(Known(mem[p]),
             IF plan[p].existing /\ plan[p].patch # 0 THEN "patch" ELSE "finish")
      BY <1>9 DEF Verify, Edit, Publication, Known
    <2> QED BY <1>3, <2>1
  <1>10. CASE Finish(p)
    <2>1. To(Done(mem[p]), "idle")
      BY <1>10 DEF Finish, Edit, Publication, Done
    <2> QED BY <1>3, <2>1
  <1>11. CASE CreateRejected(p)
    <2>1. To(Untried(mem[p]), "idle")
      BY <1>11 DEF CreateRejected, Edit, Publication, Untried
    <2> QED BY <1>3, <2>1
  <1>12. CASE Compose(p)
    <2>1. To(Described(mem[p], Snapshot), "idle")
      BY <1>12 DEF Compose, Edit, Announcement, Described
    <2> QED BY <1>3, <2>1
  <1>13. CASE Candidate(p)
    <2>1. To(Written(mem[p], plan[p].text), "idle")
      BY <1>13 DEF Candidate, Edit, Announcement, Written
    <2> QED BY <1>3, <2>1
  <1>14. CASE Claim(p)
    <2>1. To(Attempted(mem[p]), "post")
      BY <1>14 DEF Claim, Edit, Announcement, Attempted
    <2> QED BY <1>3, <2>1
  <1>15. CASE PostRejected(p)
    <2>1. To(Unattempted(mem[p]), "idle")
      BY <1>15 DEF PostRejected, Edit, Announcement, Unattempted
    <2> QED BY <1>3, <2>1
  <1>16. CASE Confirm(p) \/ Discover(p) \/ Receive(p)
    <2>1. To(Received(mem[p]), "idle")
      BY <1>16 DEF Confirm, Discover, Receive, Posted, Edit, Announcement, Received
    <2> QED BY <1>3, <2>1
  <1> QED BY <1>4, <1>5, <1>6, <1>7, <1>8, <1>9, <1>10, <1>11, <1>12, <1>13, <1>14, <1>15,
            <1>16 DEF Saving

LEMMA EditType ==
    ASSUME TypeOK, NEW p \in Proc, NEW d, NEW place, Edit(p, d, place)
    PROVE  /\ pc[p] # "idle"
           /\ d \in Deliveries /\ d.made = mem[p].made
           /\ place \in {"idle", "post"} \union Publishing
           /\ place = "post" => /\ pc[p] = "claim"
                                /\ d.announcement.attempted
                                /\ d.announcement.text = mem[p].announcement.text
  <1>1. /\ mem[p] \in Deliveries /\ plan[p].head \in Heads /\ remote \in Heads
        /\ plan[p].text \in Text \union {NoText} /\ Snapshot \in Snapshots
    BY DEF TypeOK, Plans, Snapshot, Snapshots
  <1>2. CASE Publication(p, d, place)
    <2>1. d \in Deliveries /\ SameWork(d, mem[p])
      <3>1. CASE d = mem[p]
        BY <1>1, <3>1 DEF SameWork
      <3>2. CASE d = Reopened(mem[p])
        BY <1>1, <3>2, ReopenedFields
      <3>3. CASE d = Reserved(mem[p], plan[p].head)
        BY <1>1, <3>3, ReservedFields
      <3>4. CASE d = Pushed(mem[p], remote)
        BY <1>1, <3>4, PushedFields
      <3>5. CASE d = Tried(mem[p])
        BY <1>1, <3>5, TriedFields
      <3>6. CASE d = Known(mem[p])
        BY <1>1, <3>6, KnownFields
      <3>7. CASE d = Done(mem[p])
        BY <1>1, <3>7, DoneFields
      <3>8. CASE d = Untried(mem[p])
        BY <1>1, <3>8, UntriedFields
      <3> QED BY <1>2, <3>1, <3>2, <3>3, <3>4, <3>5, <3>6, <3>7, <3>8 DEF Publication
    <2>2. pc[p] # "idle" /\ place # "post" /\ place \in {"idle"} \union Publishing
      BY <1>2 DEF Publication, Publishing
    <2> QED BY <2>1, <2>2 DEF SameWork
  <1>3. CASE Announcement(p, d, place)
    <2>1. d \in Deliveries /\ SamePublication(d, mem[p])
      <3>1. CASE d = Described(mem[p], Snapshot)
        BY <1>1, <3>1, PublicationKept, AnnouncementEdits
      <3>2. CASE d = Written(mem[p], plan[p].text)
        BY <1>1, <3>2, PublicationKept, AnnouncementEdits
      <3>3. CASE d = Attempted(mem[p])
        BY <1>1, <3>3, PublicationKept, AnnouncementEdits
      <3>4. CASE d = Unattempted(mem[p])
        BY <1>1, <3>4, PublicationKept, AnnouncementEdits
      <3>5. CASE d = Received(mem[p])
        BY <1>1, <3>5, PublicationKept, AnnouncementEdits
      <3> QED BY <1>3, <3>1, <3>2, <3>3, <3>4, <3>5 DEF Announcement
    <2>2. /\ pc[p] # "idle" /\ place \in {"idle", "post"}
          /\ place = "post" => pc[p] = "claim" /\ d = Attempted(mem[p])
      BY <1>3 DEF Announcement
    <2>3. place = "post" => /\ d.announcement.attempted
                            /\ d.announcement.text = mem[p].announcement.text
      BY <1>1, <2>2, AnnouncementEdits
    <2> QED BY <2>1, <2>2, <2>3 DEF SamePublication, SameWork
  <1> QED BY <1>2, <1>3 DEF Edit

-----------------------------------------------------------------------------
(* Type correctness.  An operation works on a delivery that was made, and     *)
(* what it goes on to post has a text.                                        *)
Begun(p) ==
    pc[p] # "idle" =>
        /\ mem[p].made
        /\ \A c \in Copies : seen[p][c].made => file[c].made
        /\ pc[p] \in {"survey", "search", "claim"} =>
             ~Settled(mem[p].announcement) /\ ~seen[p][own[p]].announcement.attempted
        /\ pc[p] \in {"search", "claim", "post"} => mem[p].announcement.text # NoText

Made == \A c \in Copies : file[c].made \/ file[c] = NoDelivery
Worded == \A r \in late : r.kind = "post" => r.text \in Text

TypeInv == TypeOK /\ Made /\ Worded /\ \A p \in Proc : Begun(p)

LEMMA TypeSaving ==
    ASSUME TypeInv, NEW p \in Proc, Saving(p)
    PROVE  TypeInv'
  <1>0. TypeOK /\ Made /\ Worded /\ file \in Records /\ \A q \in Proc : Begun(q)
    BY DEF TypeInv, TypeOK
  <1>1. PICK d, place : Save(p, d, place) /\ Edit(p, d, place) /\ Aside
    BY <1>0, EverySave
  <1>2. /\ pc[p] # "idle"
        /\ d \in Deliveries /\ d.made
        /\ place \in Places /\ place \notin {"survey", "search", "claim"}
        /\ place = "post" => /\ d # seen[p][own[p]]
                             /\ d.announcement.text # NoText
    BY <1>0, <1>1, EditType DEF Begun, Places, Publishing, Announcing
  <1>3. own[p] \in Copies
    BY <1>0 DEF TypeOK
  <1>4. /\ file' \in Records /\ ProcessType' /\ Others(p)
        /\ \/ /\ seen[p]["chat"] = file["chat"]
              /\ file' = With(file, own[p], d)
              /\ Left(p) \/ Gone(p, place)
           \/ /\ d = seen[p][own[p]]
              /\ file' = file
              /\ Left(p) \/ Gone(p, place)
           \/ file' = file /\ Left(p)
    BY <1>0, <1>1, <1>2, SaveEffect
  <1>5. TypeOK' /\ Worded'
    <2>1. WorldType'
      BY <1>0, <1>1 DEF Aside, github, TypeOK, WorldType
    <2>2. Worded'
      BY <1>0, <1>1 DEF Aside, Worded
    <2> QED BY <1>4, <2>1, <2>2, Types DEF TypeOK, ProcessType, WorldType, Places
  <1>6. /\ \A c \in Copies : file'[c] \in {d, file[c]}
        /\ file' # file => file'[own[p]] = d
    BY <1>0, <1>2, <1>3, <1>4, WithType
  <1>7. Made' /\ \A c \in Copies : file[c].made => file'[c].made
    BY <1>0, <1>2, <1>6 DEF Made
  <1>8. Begun(p)'
    <2>1. CASE Left(p)
      BY <2>1 DEF Left, Begun
    <2>2. CASE Gone(p, place)
      <3>1. pc'[p] = place /\ mem'[p] = file'[own[p]] /\ seen'[p] = file'
        BY <2>2 DEF Gone
      <3>2. file'[own[p]].made
        <4>1. CASE file' # file
          BY <1>2, <1>6, <4>1
        <4>2. CASE file' = file
          BY <1>0, <1>2, <1>3, <1>4, <2>2, <4>2, WithType DEF Left, Gone, Begun
        <4> QED BY <4>1, <4>2
      <3>3. place = "post" => file'[own[p]].announcement.text # NoText
        BY <1>0, <1>2, <1>3, <1>4, <2>2, WithType DEF Left, Gone
      <3> QED BY <1>2, <3>1, <3>2, <3>3 DEF Begun
    <2> QED BY <1>4, <2>1, <2>2, <1>2 DEF Begun
  <1>9. ASSUME NEW q \in Proc, q # p
        PROVE  Begun(q)'
    BY <1>0, <1>4, <1>7, <1>9 DEF Others, Begun
  <1> QED BY <1>5, <1>7, <1>8, <1>9 DEF TypeInv

(* The steps of an operation that save nothing.                               *)
Moving(p) ==
    \/ Look(p) \/ Push(p) \/ Found(p) \/ Create(p) \/ Patch(p)
    \/ Announce(p) \/ Search(p) \/ Post(p)

LEMMA MoveEffect ==
    ASSUME TypeOK, NEW p \in Proc, Moving(p)
    PROVE  /\ UNCHANGED <<head, late, mishaps, overlapped, file, own, mem, seen>>
           /\ pc[p] # "idle" /\ pc'[p] \in Publishing \union Announcing
           /\ \/ pc[p] \in Publishing /\ pc'[p] \in Publishing
              \/ pc[p] = "survey" /\ pc'[p] = "search" /\ mem[p].announcement.text # NoText
              \/ pc[p] = "search" /\ pc'[p] = "claim"
              \/ pc[p] = "post" /\ pc'[p] = "receive"
           /\ Others(p)
           /\ pc' \in [Proc -> Places]
           /\ plan' \in [Proc -> Plans]
  <1>1. mem[p] \in Deliveries /\ mem[p].content \in Contents
    BY DEF TypeOK, Deliveries
  <1>2. CASE Look(p)
    <2>1. plan' \in [Proc -> Plans]
      BY <1>1, <1>2, Empties DEF TypeOK, Look, Plans
    <2> QED BY <1>2, <2>1 DEF TypeOK, Look, Goto, Others, Places, Publishing, Announcing,
              environment
  <1>3. CASE Found(p)
    <2>1. plan \in [Proc -> Plans] /\ plan[p] \in Plans
      BY DEF TypeOK
    <2>2. [plan[p] EXCEPT !.existing = TRUE] \in Plans
      BY <2>1 DEF Plans
    <2>3. plan' = [plan EXCEPT ![p] = [plan[p] EXCEPT !.existing = TRUE]]
      BY <1>3, <2>1 DEF Found
    <2>4. plan' \in [Proc -> Plans]
      BY <2>1, <2>2, <2>3
    <2> QED BY <1>3, <2>4 DEF TypeOK, Found, Goto, Others, Places, Publishing, Announcing,
              environment
  <1>4. CASE Push(p) \/ Create(p) \/ Patch(p)
    BY <1>4 DEF TypeOK, Push, Create, Patch, Goto, Others, Places, Publishing, Announcing,
       environment
  <1>5. CASE Announce(p) \/ Search(p) \/ Post(p)
    BY <1>5 DEF TypeOK, Announce, Search, Post, Goto, Others, Places, Publishing, Announcing,
       environment
  <1> QED BY <1>2, <1>3, <1>4, <1>5 DEF Moving

LEMMA OpenedType ==
    ASSUME TypeOK, NEW c \in Contents, Opened(c)
    PROVE  prs' \in Nat /\ pull' \in [head : Heads, content : Contents]
  BY DEF TypeOK, Opened

LEMMA TypeMoving ==
    ASSUME TypeInv, NEW p \in Proc, Moving(p)
    PROVE  TypeInv'
  <1>0. TypeOK /\ Made /\ Worded /\ \A q \in Proc : Begun(q)
    BY DEF TypeInv
  <1>1. /\ UNCHANGED <<head, late, mishaps, overlapped, file, own, mem, seen>>
        /\ pc[p] # "idle"
        /\ \/ pc[p] \in Publishing /\ pc'[p] \in Publishing
           \/ pc[p] = "survey" /\ pc'[p] = "search" /\ mem[p].announcement.text # NoText
           \/ pc[p] = "search" /\ pc'[p] = "claim"
           \/ pc[p] = "post" /\ pc'[p] = "receive"
        /\ Others(p)
        /\ pc' \in [Proc -> Places]
        /\ plan' \in [Proc -> Plans]
    BY <1>0, MoveEffect
  <1>2. /\ plan[p].head \in Heads /\ plan[p].content \in Contents /\ plan[p].patch \in Contents
        /\ mem[p].announcement.text \in Text \union {NoText}
    BY <1>0 DEF TypeOK, Plans, Deliveries, Announcements
  <1>3. /\ remote' \in Heads /\ prs' \in Nat
        /\ pull' \in [head : Heads, content : Contents]
        /\ comments' \in Seq(Text)
    <2>1. CASE Look(p) \/ Found(p) \/ Announce(p) \/ Search(p)
      BY <1>0, <2>1 DEF Look, Found, Announce, Search, github, TypeOK
    <2>2. CASE Push(p)
      BY <1>0, <1>2, <2>2 DEF Push, TypeOK
    <2>3. CASE Create(p)
      BY <1>0, <1>2, <2>3, OpenedType DEF Create, TypeOK
    <2>4. CASE Patch(p)
      BY <1>0, <1>2, <2>4 DEF Patch, TypeOK
    <2>5. CASE Post(p)
      <3>1. mem[p].announcement.text \in Text
        BY <1>0, <1>2, <2>5 DEF Post, Begun
      <3> QED BY <1>0, <2>5, <3>1 DEF Post, TypeOK
    <2> QED BY <2>1, <2>2, <2>3, <2>4, <2>5 DEF Moving
  <1>4. TypeOK'
    BY <1>0, <1>1, <1>3 DEF TypeOK, Places
  <1>5. Made' /\ Worded'
    BY <1>0, <1>1 DEF Made, Worded
  <1>6. Begun(p)'
    BY <1>0, <1>1 DEF Begun, Publishing
  <1>7. ASSUME NEW q \in Proc, q # p
        PROVE  Begun(q)'
    BY <1>0, <1>1, <1>7 DEF Others, Begun
  <1> QED BY <1>4, <1>5, <1>6, <1>7 DEF TypeInv

-----------------------------------------------------------------------------
(* An operation is refused or fails.                                          *)
Stopping(p) == Refuse(p) \/ Fail(p)

LEMMA StopEffect ==
    ASSUME TypeOK, NEW p \in Proc, Stopping(p)
    PROVE  /\ ProcessType' /\ Others(p) /\ Left(p) /\ pc[p] # "idle"
           /\ UNCHANGED <<head, file, remote, prs, comments, overlapped>>
           /\ pull' \in [head : Heads, content : Contents]
           /\ late \subseteq late' /\ late' \subseteq late \union Pending(p)
           /\ mishaps' \in 0..MaxMishaps
  <1>1. Leave(p) /\ pc[p] # "idle"
    BY DEF Stopping, Refuse, Refused, Fail
  <1>2. ProcessType' /\ Others(p) /\ Left(p)
    BY <1>1, LeaveEffect
  <1>3. CASE Refuse(p)
    BY <1>1, <1>2, <1>3 DEF Refuse, github, environment, TypeOK
  <1>4. CASE Fail(p)
    <2>1. mishaps' \in 0..MaxMishaps
      BY <1>4, DeliveryAssumption DEF Fail, Mishap, TypeOK
    <2>2. plan[p].patch \in Contents
      BY DEF TypeOK, Plans
    <2>3. pull' \in [head : Heads, content : Contents]
      BY <1>4, <2>2 DEF Fail, TypeOK
    <2> QED BY <1>1, <1>2, <1>4, <2>1, <2>3 DEF Fail
  <1> QED BY <1>3, <1>4 DEF Stopping

LEMMA PendingType ==
    ASSUME TypeInv, NEW p \in Proc
    PROVE  /\ Pending(p) \subseteq Requests
           /\ \A r \in Pending(p) : r.kind = "post" => r.text \in Text
  <1>1. /\ plan[p].head \in Heads /\ plan[p].content \in Contents
        /\ mem[p].announcement.text \in Text \union {NoText}
        /\ pc[p] = "post" => mem[p].announcement.text \in Text
    BY DEF TypeInv, TypeOK, Plans, Deliveries, Announcements, Begun
  <1>2. CASE pc[p] = "push"
    BY <1>1, <1>2, Empties DEF Pending, PushOf, Requests
  <1>3. CASE pc[p] = "create"
    BY <1>1, <1>3, Empties DEF Pending, CreationOf, Requests
  <1>4. CASE pc[p] = "post"
    BY <1>1, <1>4, Empties DEF Pending, PostOf, Requests
  <1>5. CASE pc[p] \notin {"push", "create", "post"}
    BY <1>5 DEF Pending
  <1> QED BY <1>2, <1>3, <1>4, <1>5

LEMMA TypeStopping ==
    ASSUME TypeInv, NEW p \in Proc, Stopping(p)
    PROVE  TypeInv'
  <1>0. TypeOK /\ Made /\ Worded /\ \A q \in Proc : Begun(q)
    BY DEF TypeInv
  <1>1. /\ ProcessType' /\ Others(p) /\ Left(p)
        /\ UNCHANGED <<head, file, remote, prs, comments, overlapped>>
        /\ pull' \in [head : Heads, content : Contents]
        /\ late' \subseteq late \union Pending(p)
        /\ mishaps' \in 0..MaxMishaps
    BY <1>0, StopEffect
  <1>2. late' \subseteq Requests /\ Worded'
    BY <1>0, <1>1, PendingType DEF TypeOK, Worded
  <1>3. TypeOK'
    BY <1>0, <1>1, <1>2 DEF TypeOK, ProcessType, Places
  <1>4. Made'
    BY <1>0, <1>1 DEF Made
  <1>5. ASSUME NEW q \in Proc
        PROVE  Begun(q)'
    BY <1>0, <1>1, <1>5 DEF Others, Left, Begun
  <1> QED BY <1>2, <1>3, <1>4, <1>5 DEF TypeInv

-----------------------------------------------------------------------------
(* An operation begins.                                                       *)
Bound(d, c) ==
    [d EXCEPT !.made = TRUE, !.head = head, !.content = c,
              !.update = Updates(d, c), !.reconciled = FALSE]

Beginning(p, copy) ==
    \/ \E c \in 1..MaxContent : StartPublish(p, copy, c)
    \/ StartReconcile(p, copy)
    \/ \E operation \in {"compose", "announce"} : StartAnnounce(p, copy, operation, NoText)
    \/ \E t \in Text : StartAnnounce(p, copy, "candidate", t)

Begins(p, copy, d, place, fixed) ==
    /\ Begin(p, copy, d, place, fixed)
    /\ \/ \E c \in 1..MaxContent :
            /\ c >= Start(copy).content
            /\ Frozen(Start(copy)) => c = Start(copy).content
            /\ d = Bound(Start(copy), c) /\ place = "bind"
            /\ fixed = [NoPlan EXCEPT !.operation = "publish", !.head = head, !.content = c]
       \/ /\ d = Start(copy) /\ d.made /\ ~d.reconciled /\ remote = d.head /\ place = "open"
          /\ fixed = [NoPlan EXCEPT !.operation = "reconcile", !.head = d.head,
                                    !.content = d.content]
       \/ /\ d = Start(copy) /\ d.pr /\ d.reconciled
          /\ place = IF Settled(d.announcement) THEN "confirm" ELSE "survey"
          /\ \E operation \in {"compose", "candidate", "announce"}, t \in Text \union {NoText} :
               fixed = [NoPlan EXCEPT !.operation = operation, !.text = t]

LEMMA EveryBegin ==
    ASSUME NEW p \in Proc, NEW copy \in Copies, Beginning(p, copy)
    PROVE  \E d, place, fixed : Begins(p, copy, d, place, fixed)
  <1> DEFINE s == Start(copy)
  <1>1. ASSUME NEW c \in 1..MaxContent, StartPublish(p, copy, c)
        PROVE  \E d, place, fixed : Begins(p, copy, d, place, fixed)
    <2>1. Begins(p, copy, Bound(s, c), "bind",
                 [NoPlan EXCEPT !.operation = "publish", !.head = head, !.content = c])
      BY <1>1 DEF StartPublish, Begins, Bound
    <2> QED BY <2>1
  <1>2. ASSUME StartReconcile(p, copy)
        PROVE  \E d, place, fixed : Begins(p, copy, d, place, fixed)
    <2>1. Begins(p, copy, s, "open",
                 [NoPlan EXCEPT !.operation = "reconcile", !.head = s.head, !.content = s.content])
      BY <1>2 DEF StartReconcile, Begins
    <2> QED BY <2>1
  <1>3. ASSUME NEW operation \in {"compose", "candidate", "announce"},
               NEW t \in Text \union {NoText}, StartAnnounce(p, copy, operation, t)
        PROVE  \E d, place, fixed : Begins(p, copy, d, place, fixed)
    <2>1. Begins(p, copy, s, IF Settled(s.announcement) THEN "confirm" ELSE "survey",
                 [NoPlan EXCEPT !.operation = operation, !.text = t])
      BY <1>3 DEF StartAnnounce, Begins
    <2> QED BY <2>1
  <1> QED BY <1>1, <1>2, <1>3 DEF Beginning

LEMMA BoundFields ==
    ASSUME TypeOK, NEW d \in Deliveries, NEW c \in 1..MaxContent
    PROVE  /\ Bound(d, c) \in Deliveries
           /\ Bound(d, c).made /\ Bound(d, c).head = head /\ Bound(d, c).content = c
           /\ SameMarks(Bound(d, c), d) /\ SameResult(Bound(d, c), d)
           /\ Bound(d, c).update = Updates(d, c) /\ ~Bound(d, c).reconciled
           /\ SameAnnouncement(Bound(d, c), d)
  <1>1. head \in Heads /\ c \in Contents /\ Updates(d, c) \in BOOLEAN
    BY DeliveryAssumption DEF TypeOK, Heads, Contents, Updates, Deliveries
  <1> DEFINE u == Updates(d, c)
  <1> HIDE DEF u
  <1> QED BY <1>1 DEF Bound, Deliveries, SameMarks, SameResult, SameAnnouncement

LEMMA BeginEffect ==
    ASSUME TypeOK, NEW p \in Proc, NEW copy \in Copies, NEW d \in Deliveries,
           NEW place \in Places, NEW fixed \in Plans, Begin(p, copy, d, place, fixed)
    PROVE  /\ ProcessType' /\ Others(p)
           /\ pc[p] = "idle" /\ pc'[p] = place /\ own'[p] = copy /\ mem'[p] = d
           /\ seen'[p] = file /\ plan'[p] = fixed
           /\ mishaps' \in 0..MaxMishaps
           /\ UNCHANGED <<head, file, github, late>>
           /\ overlapped' \in BOOLEAN
           /\ ~overlapped' => ~overlapped /\ \A q \in Proc : pc[q] = "idle"
           /\ Entitled(copy)
  <1>1. /\ mishaps' \in 0..MaxMishaps
        /\ overlapped' \in BOOLEAN
        /\ ~overlapped' => ~overlapped /\ \A q \in Proc : pc[q] = "idle"
    <2>1. CASE \A q \in Proc : pc[q] = "idle"
      BY <2>1 DEF Begin, TypeOK
    <2>2. CASE ~\A q \in Proc : pc[q] = "idle"
      <3>1. mishaps < MaxMishaps /\ mishaps' = mishaps + 1 /\ overlapped' = TRUE
        BY <2>2 DEF Begin
      <3> QED BY <3>1, DeliveryAssumption DEF TypeOK
    <2> QED BY <2>1, <2>2
  <1>2. ProcessType' /\ Others(p) /\ pc'[p] = place
    BY DEF Begin, Goto, TypeOK, ProcessType, Others, Places
  <1> QED BY <1>1, <1>2 DEF Begin, Goto, TypeOK

LEMMA StartType ==
    ASSUME TypeOK, Made, NEW copy \in Copies
    PROVE  /\ Start(copy) \in Deliveries
           /\ Start(copy).made \/ Start(copy) = NoDelivery
           /\ \/ Start(copy) = file[copy]
              \/ file[copy] = NoDelivery /\ Start(copy) = file["chat"]
           /\ copy = "chat" => Start(copy) = file["chat"]
  BY DEF TypeOK, Made, Start, Records, Copies, NoDelivery

LEMMA BeginType ==
    ASSUME TypeOK, Made, NEW p \in Proc, NEW copy \in Copies, NEW d, NEW place, NEW fixed,
           Begins(p, copy, d, place, fixed)
    PROVE  /\ d \in Deliveries /\ d.made /\ place \in Places /\ fixed \in Plans
           /\ place \in {"bind", "open", "confirm", "survey"}
           /\ place = "survey" => /\ ~Settled(d.announcement)
                                  /\ d = file[copy] \/ file[copy] = NoDelivery
  <1>1. /\ Start(copy) \in Deliveries
        /\ Start(copy).made \/ Start(copy) = NoDelivery
        /\ Start(copy) = file[copy] \/ file[copy] = NoDelivery
        /\ head \in Heads
    BY StartType, DeliveryAssumption DEF TypeOK, Heads
  <1>2. ~NoDelivery.pr
    BY DEF NoDelivery
  <1>3. CASE place = "bind"
    <2>1. PICK c \in 1..MaxContent :
            /\ d = Bound(Start(copy), c)
            /\ fixed = [NoPlan EXCEPT !.operation = "publish", !.head = head, !.content = c]
      BY <1>3 DEF Begins
    <2>2. d \in Deliveries /\ d.made
      BY <1>1, <2>1, BoundFields
    <2>3. c \in Contents
      BY DEF Contents
    <2>4. fixed \in Plans
      BY <1>1, <2>1, <2>3, Empties DEF Plans, NoPlan
    <2> QED BY <1>3, <2>2, <2>4 DEF Places, Publishing
  <1>4. CASE place = "open"
    <2>1. /\ d = Start(copy) /\ d.made
          /\ fixed = [NoPlan EXCEPT !.operation = "reconcile", !.head = d.head,
                                    !.content = d.content]
      BY <1>4 DEF Begins
    <2>2. d.head \in Heads /\ d.content \in Contents
      BY <1>1, <2>1 DEF Deliveries
    <2>3. fixed \in Plans
      BY <2>1, <2>2, Empties DEF Plans, NoPlan
    <2> QED BY <1>1, <1>4, <2>1, <2>3 DEF Places, Publishing
  <1>5. CASE place \in {"confirm", "survey"}
    <2>1. /\ d = Start(copy) /\ d.pr
          /\ place = IF Settled(d.announcement) THEN "confirm" ELSE "survey"
      BY <1>5 DEF Begins
    <2>2. PICK operation \in {"compose", "candidate", "announce"}, t \in Text \union {NoText} :
            fixed = [NoPlan EXCEPT !.operation = operation, !.text = t]
      BY <1>5 DEF Begins
    <2>3. fixed \in Plans
      BY <2>2, Empties DEF Plans, NoPlan
    <2>4. d.made
      BY <1>1, <1>2, <2>1
    <2> QED BY <1>1, <1>5, <2>1, <2>3, <2>4 DEF Places, Announcing
  <1>6. place \in {"bind", "open", "confirm", "survey"}
    BY DEF Begins
  <1> QED BY <1>3, <1>4, <1>5, <1>6

LEMMA TypeBeginning ==
    ASSUME TypeInv, NEW p \in Proc, NEW copy \in Copies, Beginning(p, copy)
    PROVE  TypeInv'
  <1>0. TypeOK /\ Made /\ Worded /\ \A q \in Proc : Begun(q)
    BY DEF TypeInv
  <1>1. PICK d, place, fixed : Begins(p, copy, d, place, fixed)
    BY EveryBegin
  <1>2. /\ d \in Deliveries /\ d.made /\ place \in Places /\ fixed \in Plans
        /\ place \in {"bind", "open", "confirm", "survey"}
        /\ place = "survey" => /\ ~Settled(d.announcement)
                               /\ d = file[copy] \/ file[copy] = NoDelivery
    BY <1>0, <1>1, BeginType
  <1>3. /\ ProcessType' /\ Others(p)
        /\ pc'[p] = place /\ own'[p] = copy /\ mem'[p] = d /\ seen'[p] = file
        /\ mishaps' \in 0..MaxMishaps
        /\ UNCHANGED <<head, file, github, late>>
        /\ overlapped' \in BOOLEAN
    <2>1. Begin(p, copy, d, place, fixed)
      BY <1>1 DEF Begins
    <2> QED BY <1>0, <1>2, <2>1, BeginEffect
  <1>4. TypeOK'
    BY <1>0, <1>3 DEF TypeOK, ProcessType, Places, github
  <1>5. Made' /\ Worded'
    BY <1>0, <1>3 DEF Made, Worded
  <1>6. Begun(p)'
    <2>1. place = "survey" => ~file[copy].announcement.attempted
      BY <1>2 DEF Settled, NoDelivery, NoAnnouncement
    <2> QED BY <1>2, <1>3, <2>1 DEF Begun
  <1>7. ASSUME NEW q \in Proc, q # p
        PROVE  Begun(q)'
    BY <1>0, <1>3, <1>7 DEF Others, Begun
  <1> QED BY <1>4, <1>5, <1>6, <1>7 DEF TypeInv

-----------------------------------------------------------------------------
(* What happens outside the operations.                                       *)
World == Observe \/ Work \/ PushByHand \/ \E r \in late : Land(r)

LEMMA TypeWorld ==
    ASSUME TypeInv, World
    PROVE  TypeInv'
  <1>0. TypeOK /\ Made /\ Worded /\ \A q \in Proc : Begun(q)
    BY DEF TypeInv
  <1>1. UNCHANGED <<file, process, mishaps, overlapped>> /\ late' \subseteq late
    BY DEF World, Observe, Work, PushByHand, Land, environment
  <1>2. /\ head' \in 1..MaxHead /\ remote' \in Heads /\ prs' \in Nat
        /\ pull' \in [head : Heads, content : Contents]
        /\ comments' \in Seq(Text)
    <2>1. CASE Observe
      BY <1>0, <2>1 DEF Observe, environment, TypeOK
    <2>2. CASE Work
      BY <1>0, <2>2, DeliveryAssumption DEF Work, github, TypeOK
    <2>3. CASE PushByHand
      BY <1>0, <2>3, DeliveryAssumption DEF PushByHand, environment, TypeOK, Heads
    <2>4. CASE \E r \in late : Land(r)
      <3>1. PICK r \in late : Land(r)
        BY <2>4
      <3>2. /\ r.head \in Heads /\ r.content \in Contents
            /\ r.kind = "post" => r.text \in Text
        BY <1>0 DEF TypeOK, Requests, Worded
      <3>0. /\ head \in 1..MaxHead /\ remote \in Heads /\ prs \in Nat
            /\ pull \in [head : Heads, content : Contents]
            /\ comments \in Seq(Text)
        BY <1>0 DEF TypeOK
      <3>3. CASE r.kind = "push"
        BY <3>0, <3>1, <3>2, <3>3 DEF Land
      <3>4. CASE r.kind = "create"
        BY <1>0, <3>1, <3>2, <3>4, OpenedType DEF Land, TypeOK
      <3>5. CASE r.kind = "post"
        BY <3>0, <3>1, <3>2, <3>5 DEF Land
      <3> QED BY <3>1, <3>3, <3>4, <3>5 DEF Land
    <2> QED BY <2>1, <2>2, <2>3, <2>4 DEF World
  <1>3. TypeOK'
    BY <1>0, <1>1, <1>2 DEF TypeOK, process
  <1>4. Made' /\ Worded' /\ \A q \in Proc : Begun(q)'
    BY <1>0, <1>1 DEF Made, Worded, Begun, process
  <1> QED BY <1>3, <1>4 DEF TypeInv

LEMMA EveryStep ==
    ASSUME Next
    PROVE  \/ \E p \in Proc : Saving(p) \/ Moving(p) \/ Stopping(p)
           \/ \E p \in Proc, copy \in Copies : Beginning(p, copy)
           \/ World
  <1>1. CASE \E p \in Proc : Operate(p) \/ CreateRejected(p) \/ PostRejected(p) \/ Fail(p)
    BY <1>1 DEF Operate, Saving, Moving, Stopping
  <1>2. CASE \E p \in Proc, copy \in Copies :
               \/ \E c \in 1..MaxContent : StartPublish(p, copy, c)
               \/ StartReconcile(p, copy)
               \/ \E operation \in {"compose", "announce"} :
                    StartAnnounce(p, copy, operation, NoText)
               \/ \E t \in Text : StartAnnounce(p, copy, "candidate", t)
    BY <1>2 DEF Beginning
  <1>3. CASE (\E r \in late : Land(r)) \/ Observe \/ Work \/ PushByHand
    BY <1>3 DEF World
  <1> QED BY <1>1, <1>2, <1>3 DEF Next

LEMMA TypeInit == Init => TypeInv
  <1> SUFFICES ASSUME Init PROVE TypeInv
    OBVIOUS
  <1>1. head \in 1..MaxHead /\ mishaps \in 0..MaxMishaps
    BY DeliveryAssumption DEF Init
  <1>2. TypeOK
    <2>1. ProcessType
      BY Empties DEF Init, ProcessType, Places
    <2>2. comments \in Seq(Text) /\ late \subseteq Requests
      BY DEF Init
    <2>3. pull \in [head : Heads, content : Contents]
      BY Empties DEF Init
    <2>4. WorldType
      BY <1>1, <2>2, <2>3, Empties DEF Init, WorldType
    <2>5. file \in Records
      BY Empties DEF Init
    <2> QED BY <2>1, <2>4, <2>5, Types
  <1>3. Made /\ Worded /\ \A q \in Proc : Begun(q)
    BY DEF Init, Made, Worded, Begun, NoRecord
  <1> QED BY <1>2, <1>3 DEF TypeInv

LEMMA TypeStep == TypeInv /\ [Next]_vars => TypeInv'
  <1> SUFFICES ASSUME TypeInv, [Next]_vars PROVE TypeInv'
    OBVIOUS
  <1>1. CASE UNCHANGED vars
    BY <1>1 DEF vars, github, TypeInv, TypeOK, Made, Worded, Begun
  <1>2. CASE Next
    BY <1>2, EveryStep, TypeSaving, TypeMoving, TypeStopping, TypeBeginning, TypeWorld
  <1> QED BY <1>1, <1>2

(* Every state of the delivery is well formed; in particular whatever is         *)
(* posted, or may be carried out late, has a text.                              *)
THEOREM WellFormed == Spec => []TypeOK
  <1>1. TypeInv => TypeOK
    BY DEF TypeInv
  <1> QED BY <1>1, TypeInit, TypeStep, PTL DEF Spec

-----------------------------------------------------------------------------
(* One announcement and one pull request, when no feedback event delivers.     *)
(* The attempted mark is in the file before the request is sent, and it is       *)
(* removed only by the operation whose request was rejected: as long as it is    *)
(* not in the file, nothing was or can be posted.                               *)
Single(S) == \A x, y \in S : x = y

Once(P, L, n) ==
    /\ Single(P) /\ Single(L) /\ n <= 1
    /\ P # {} => L = {} /\ n = 0
    /\ L # {} => n = 0

None(P, L, n) == P = {} /\ L = {} /\ n = 0

LEMMA OnceIsOne ==
    ASSUME NEW P, NEW L, NEW n \in Nat, Once(P, L, n)
    PROVE  n + Cardinality(L) + Cardinality(P) <= 1
  <1>1. ASSUME NEW S, Single(S)
        PROVE  IF S = {} THEN Cardinality(S) = 0 ELSE Cardinality(S) = 1
    <2>1. CASE S = {}
      BY <2>1, FS_EmptySet
    <2>2. CASE S # {}
      <3>1. PICK x \in S : S = {x}
        BY <1>1, <2>2 DEF Single
      <3> QED BY <2>2, <3>1, FS_Singleton
    <2> QED BY <2>1, <2>2
  <1>2. /\ IF P = {} THEN Cardinality(P) = 0 ELSE Cardinality(P) = 1
        /\ IF L = {} THEN Cardinality(L) = 0 ELSE Cardinality(L) = 1
    BY <1>1 DEF Once
  <1> QED BY <1>2 DEF Once

LEMMA OnceKept ==
    ASSUME NEW P, NEW L, NEW n \in Nat, NEW Q \in SUBSET P, NEW M \in SUBSET L
    PROVE  /\ Once(P, L, n) => Once(Q, M, n)
           /\ None(P, L, n) => None(Q, M, n)
  BY DEF Once, None, Single

LEMMA OnceMoved ==
    ASSUME NEW P, NEW L, NEW n \in Nat, NEW x
    PROVE  /\ None(P, L, n) => Once({x}, L, n)
           /\ Once(P, L, n) /\ x \in P => /\ P = {x} /\ L = {} /\ n = 0
                                          /\ None({}, L, n)
                                          /\ Once({}, {}, n + 1)
           /\ Once(P, L, n) /\ x \in P => \A y : Once({}, {y}, n) /\ Once({}, {}, n)
           /\ Once(P, L, n) /\ x \in L => P = {} /\ L = {x} /\ n = 0 /\ Once({}, {}, n + 1)
  BY DEF Once, None, Single

Posting == {p \in Proc : pc[p] = "post"}
LatePosts == {r \in late : r.kind = "post"}
Creating == {p \in Proc : pc[p] = "create"}
LateCreations == {r \in late : r.kind = "create"}

Copied(p) ==
    /\ own[p] = "chat"
    /\ pc[p] # "idle" => /\ mem[p].announcement = seen[p]["chat"].announcement
                         /\ mem[p].creating = seen[p]["chat"].creating

PostInv ==
    /\ Once(Posting, LatePosts, Len(comments))
    /\ ~Settled(file["chat"].announcement) => None(Posting, LatePosts, Len(comments))

CreationInv ==
    /\ Once(Creating, LateCreations, prs)
    /\ ~file["chat"].creating => None(Creating, LateCreations, prs)

OnceInv == PostInv /\ CreationInv /\ \A p \in Proc : Copied(p)

(* A save of the issue's own copy.                                            *)
LEMMA ChatSave ==
    ASSUME TypeInv, NEW p \in Proc, Saving(p), own[p] = "chat"
    PROVE  \E d, place :
             /\ Edit(p, d, place) /\ Aside /\ Others(p) /\ d \in Deliveries
             /\ place \in {"idle", "post"} \union Publishing
             /\ \/ /\ seen[p]["chat"] = file["chat"]
                   /\ file'["chat"] = d
                   /\ Left(p) \/ Gone(p, place)
                \/ /\ d = seen[p]["chat"]
                   /\ file' = file
                   /\ Left(p) \/ Gone(p, place)
                \/ file' = file /\ Left(p)
             /\ file'["event"] = file["event"]
  <1>0. TypeOK /\ file \in Records
    BY DEF TypeInv, TypeOK
  <1>1. PICK d, place : Save(p, d, place) /\ Edit(p, d, place) /\ Aside
    BY <1>0, EverySave
  <1>2. d \in Deliveries /\ place \in {"idle", "post"} \union Publishing
    BY <1>0, <1>1, EditType
  <1>3. place \in Places
    BY <1>2 DEF Places, Announcing
  <1>4. /\ Others(p)
        /\ \/ /\ seen[p]["chat"] = file["chat"]
              /\ file' = With(file, "chat", d)
              /\ Left(p) \/ Gone(p, place)
           \/ /\ d = seen[p]["chat"]
              /\ file' = file
              /\ Left(p) \/ Gone(p, place)
           \/ file' = file /\ Left(p)
    BY <1>0, <1>1, <1>2, <1>3, SaveEffect
  <1>5. "chat" \in Copies
    BY DEF Copies
  <1>6. With(file, "chat", d)["chat"] = d /\ With(file, "chat", d)["event"] = file["event"]
    BY <1>0, <1>2, <1>5, WithType
  <1> QED BY <1>1, <1>2, <1>4, <1>6

LEMMA EditKeeps ==
    ASSUME TypeOK, NEW p \in Proc, NEW d, NEW place, Edit(p, d, place)
    PROVE  /\ Publication(p, d, place) => SameAnnouncement(d, mem[p])
           /\ Announcement(p, d, place) => SamePublication(d, mem[p])
  <1>1. /\ mem[p] \in Deliveries /\ plan[p].head \in Heads /\ remote \in Heads
    BY DEF TypeOK, Plans
  <1>2. ASSUME Publication(p, d, place)
        PROVE  SameAnnouncement(d, mem[p])
    <2>1. CASE d = mem[p]
      BY <2>1 DEF SameAnnouncement
    <2>2. CASE d = Reopened(mem[p])
      BY <1>1, <2>2, ReopenedFields
    <2>3. CASE d = Reserved(mem[p], plan[p].head)
      BY <1>1, <2>3, ReservedFields
    <2>4. CASE d = Pushed(mem[p], remote)
      BY <1>1, <2>4, PushedFields
    <2>5. CASE d = Tried(mem[p])
      BY <1>1, <2>5, TriedFields
    <2>6. CASE d = Known(mem[p])
      BY <1>1, <2>6, KnownFields
    <2>7. CASE d = Done(mem[p])
      BY <1>1, <2>7, DoneFields
    <2>8. CASE d = Untried(mem[p])
      BY <1>1, <2>8, UntriedFields
    <2> QED BY <1>2, <2>1, <2>2, <2>3, <2>4, <2>5, <2>6, <2>7, <2>8 DEF Publication
  <1>3. ASSUME Announcement(p, d, place)
        PROVE  SamePublication(d, mem[p])
    BY <1>1, <1>3, PublicationKept DEF Announcement
  <1> QED BY <1>2, <1>3

(* What a step must leave for PostInv to go on: nobody comes to the post, and    *)
(* the mark stays.                                                              *)
LEMMA PostKept ==
    ASSUME TypeOK, PostInv, Posting' \subseteq Posting, LatePosts' \subseteq LatePosts,
           comments' = comments,
           ~Settled(file'["chat"].announcement) =>
             \/ ~Settled(file["chat"].announcement)
             \/ None(Posting', LatePosts', Len(comments'))
    PROVE  PostInv'
  <1>1. Len(comments) \in Nat
    BY DEF TypeOK
  <1> QED BY <1>1, OnceKept DEF PostInv

LEMMA CreationKept ==
    ASSUME TypeOK, CreationInv, Creating' \subseteq Creating,
           LateCreations' \subseteq LateCreations, prs' = prs,
           ~file'["chat"].creating =>
             \/ ~file["chat"].creating
             \/ None(Creating', LateCreations', prs')
    PROVE  CreationInv'
  <1>1. prs \in Nat
    BY DEF TypeOK
  <1> QED BY <1>1, OnceKept DEF CreationInv

LEMMA CreationSaving ==
    ASSUME TypeInv, CreationInv, NEW p \in Proc, Saving(p), own[p] = "chat",
           mem[p].creating = seen[p]["chat"].creating
    PROVE  CreationInv'
  <1>0. TypeOK /\ mem[p] \in Deliveries
    BY DEF TypeInv, TypeOK
  <1>1. PICK d, place :
             /\ Edit(p, d, place) /\ Aside /\ Others(p) /\ d \in Deliveries
             /\ place \in {"idle", "post"} \union Publishing
             /\ \/ /\ seen[p]["chat"] = file["chat"]
                   /\ file'["chat"] = d
                   /\ Left(p) \/ Gone(p, place)
                \/ /\ d = seen[p]["chat"]
                   /\ file' = file
                   /\ Left(p) \/ Gone(p, place)
                \/ file' = file /\ Left(p)
    BY <1>0, ChatSave
  <1>2. mem[p].creating = seen[p]["chat"].creating
    OBVIOUS
  <1>4. prs' = prs /\ LateCreations' = LateCreations /\ prs \in Nat
    BY <1>0, <1>1 DEF Aside, github, LateCreations, TypeOK
  <1>5. /\ Creating' \subseteq Creating \union {p}
        /\ pc'[p] # "create" => Creating' = Creating \ {p}
        /\ pc'[p] \in {"idle", place}
    BY <1>1 DEF Others, Left, Gone, Creating
  <1>6. CASE place = "create"
    <2>1. pc[p] = "find" /\ ~mem[p].creating /\ d = Tried(mem[p])
      BY <1>1, <1>6 DEF Edit, Publication, Announcement
    <2>2. d.creating
      BY <1>0, <2>1, TriedFields
    <2>3. CASE pc'[p] = "create"
      <3>1. d # seen[p]["chat"]
        BY <1>2, <2>1, <2>2
      <3>2. seen[p]["chat"] = file["chat"] /\ file'["chat"] = d
        BY <1>1, <2>3, <3>1 DEF Left
      <3>3. None(Creating, LateCreations, prs)
        BY <1>0, <1>2, <2>1, <3>2 DEF CreationInv
      <3>4. Creating' = {p}
        BY <1>5, <2>3, <3>3 DEF None, Creating
      <3>5. Once({p}, LateCreations, prs)
        BY <1>4, <3>3, OnceMoved
      <3> QED BY <1>4, <2>2, <3>2, <3>4, <3>5 DEF CreationInv
    <2>4. CASE pc'[p] # "create"
      <3>1. file'["chat"] = file["chat"] \/ file'["chat"] = d
        BY <1>1
      <3> QED BY <1>0, <1>4, <1>5, <2>2, <2>4, <3>1, CreationKept
    <2> QED BY <2>3, <2>4
  <1>7. CASE place # "create"
    <2>1. Creating' = Creating \ {p}
      BY <1>5, <1>7
    <2>2. CASE file'["chat"] = file["chat"]
      BY <1>0, <1>4, <2>1, <2>2, CreationKept
    <2>3. CASE seen[p]["chat"] = file["chat"] /\ file'["chat"] = d
      <3>1. CASE d.creating = mem[p].creating
        BY <1>0, <1>2, <1>4, <2>1, <2>3, <3>1, CreationKept
      <3>2. CASE pc[p] = "create"
        <4>1. Once(Creating, LateCreations, prs) /\ p \in Creating
          BY <1>0, <3>2 DEF CreationInv, Creating
        <4>2. Creating = {p} /\ None({}, LateCreations, prs)
          BY <1>4, <4>1, OnceMoved
        <4> QED BY <1>0, <1>4, <2>1, <4>2, CreationKept
      <3>3. CASE pc[p] # "create"
        <4>1. plan[p].head \in Heads /\ remote \in Heads
          BY <1>0 DEF TypeOK, Plans
        <4>2. d.creating = mem[p].creating
          <5>1. CASE Announcement(p, d, place)
            BY <1>0, <1>1, <5>1, EditKeeps DEF SamePublication, SameMarks
          <5>2. CASE d = mem[p]
            BY <5>2
          <5>3. CASE d = Reopened(mem[p])
            BY <1>0, <5>3, ReopenedFields DEF SameMarks
          <5>4. CASE d = Reserved(mem[p], plan[p].head)
            BY <1>0, <4>1, <5>4, ReservedFields
          <5>5. CASE d = Pushed(mem[p], remote)
            BY <1>0, <4>1, <5>5, PushedFields DEF SameMarks
          <5>6. CASE d = Known(mem[p])
            BY <1>0, <5>6, KnownFields DEF SameMarks
          <5>7. CASE d = Done(mem[p])
            BY <1>0, <5>7, DoneFields
          <5> QED BY <1>1, <1>7, <3>3, <5>1, <5>2, <5>3, <5>4, <5>5, <5>6, <5>7
                  DEF Edit, Publication
        <4> QED BY <3>1, <4>2
      <3> QED BY <3>2, <3>3
    <2> QED BY <1>1, <2>2, <2>3
  <1> QED BY <1>6, <1>7

LEMMA PostSaving ==
    ASSUME TypeInv, PostInv, NEW p \in Proc, Saving(p), own[p] = "chat",
           mem[p].announcement = seen[p]["chat"].announcement
    PROVE  PostInv'
  <1>0. /\ TypeOK /\ Begun(p) /\ PostInv
        /\ file \in Records /\ seen[p] \in Records /\ mem[p] \in Deliveries
    BY DEF TypeInv, TypeOK
  <1>1. PICK d, place :
             /\ Edit(p, d, place) /\ Aside /\ Others(p) /\ d \in Deliveries
             /\ place \in {"idle", "post"} \union Publishing
             /\ \/ /\ seen[p]["chat"] = file["chat"]
                   /\ file'["chat"] = d
                   /\ Left(p) \/ Gone(p, place)
                \/ /\ d = seen[p]["chat"]
                   /\ file' = file
                   /\ Left(p) \/ Gone(p, place)
                \/ file' = file /\ Left(p)
    BY <1>0, ChatSave
  <1>2. /\ pc[p] # "idle" /\ own[p] = "chat"
        /\ mem[p].announcement = seen[p]["chat"].announcement
    BY <1>0, <1>1, EditType
  <1>4. comments' = comments /\ LatePosts' = LatePosts /\ Len(comments) \in Nat
    BY <1>0, <1>1 DEF Aside, github, LatePosts, TypeOK
  <1>5. /\ Posting' \subseteq Posting \union {p}
        /\ pc'[p] # "post" => Posting' = Posting \ {p}
        /\ pc'[p] \in {"idle", place}
    BY <1>1 DEF Others, Left, Gone, Posting
  <1>6. CASE place = "post" /\ pc[p] = "claim"
    <2>1. /\ ~Settled(mem[p].announcement) /\ ~seen[p]["chat"].announcement.attempted
          /\ d.announcement.attempted
      BY <1>0, <1>1, <1>2, <1>6, EditType DEF Begun
    <2>2. CASE pc'[p] = "post"
      <3>1. d # seen[p]["chat"]
        BY <2>1
      <3>2. seen[p]["chat"] = file["chat"] /\ file'["chat"] = d
        BY <1>1, <2>2, <3>1 DEF Left
      <3>3. None(Posting, LatePosts, Len(comments))
        BY <1>0, <1>2, <2>1, <3>2 DEF PostInv
      <3>4. Posting' = {p}
        BY <1>5, <2>2, <3>3 DEF None, Posting
      <3>5. Once({p}, LatePosts, Len(comments))
        BY <1>4, <3>3, OnceMoved
      <3> QED BY <1>4, <2>1, <3>2, <3>4, <3>5 DEF PostInv, Settled
    <2>3. CASE pc'[p] # "post"
      <3>1. file'["chat"] = file["chat"] \/ file'["chat"] = d
        BY <1>1
      <3> QED BY <1>0, <1>4, <1>5, <2>1, <2>3, <3>1, PostKept DEF Settled
    <2> QED BY <2>2, <2>3
  <1>7. CASE place # "post"
    <2>1. Posting' = Posting \ {p}
      BY <1>5, <1>7
    <2>2. CASE file'["chat"] = file["chat"]
      BY <1>0, <1>4, <2>1, <2>2, PostKept
    <2>3. CASE seen[p]["chat"] = file["chat"] /\ file'["chat"] = d
      <3>1. CASE Publication(p, d, place)
        <4>1. d.announcement = file["chat"].announcement
          BY <1>0, <1>1, <1>2, <2>3, <3>1, EditKeeps DEF SameAnnouncement
        <4> QED BY <1>0, <1>4, <2>1, <2>3, <4>1, PostKept
      <3>2. CASE pc[p] = "survey"
        <4>1. ~Settled(file["chat"].announcement)
          BY <1>0, <1>2, <2>3, <3>2 DEF Begun
        <4> QED BY <1>0, <1>4, <2>1, <4>1, PostKept
      <3>3. CASE pc[p] = "post"
        <4>1. Once(Posting, LatePosts, Len(comments)) /\ p \in Posting
          BY <1>0, <3>3 DEF PostInv, Posting
        <4>2. Posting = {p} /\ None({}, LatePosts, Len(comments))
          BY <1>4, <4>1, OnceMoved
        <4> QED BY <1>0, <1>4, <2>1, <4>2, PostKept
      <3>4. CASE d = Received(mem[p])
        <4>1. d.announcement.receipt
          <5>1. Snapshot \in Snapshots /\ NoText \in Text \union {NoText}
            BY <1>0 DEF TypeOK, Snapshot, Snapshots
          <5> QED BY <1>0, <3>4, <5>1, AnnouncementEdits
        <4> QED BY <1>0, <1>4, <2>1, <2>3, <4>1, PostKept DEF Settled
      <3> QED BY <1>1, <1>7, <3>1, <3>2, <3>3, <3>4 DEF Edit, Announcement
    <2> QED BY <1>1, <2>2, <2>3
  <1> QED BY <1>1, <1>6, <1>7 DEF Edit, Publication, Announcement

LEMMA OnceSaving ==
    ASSUME TypeInv, OnceInv, NEW p \in Proc, Saving(p)
    PROVE  OnceInv'
  <1>0. TypeOK /\ PostInv /\ CreationInv /\ \A q \in Proc : Copied(q)
    BY DEF TypeInv, OnceInv
  <1>1. PICK d, place :
             /\ Edit(p, d, place) /\ Others(p)
             /\ \/ file'["chat"] = d /\ (Left(p) \/ Gone(p, place))
                \/ d = seen[p]["chat"] /\ (Left(p) \/ Gone(p, place))
                \/ Left(p)
    BY <1>0, ChatSave DEF Copied
  <1>2. /\ own[p] = "chat"
        /\ mem[p].announcement = seen[p]["chat"].announcement
        /\ mem[p].creating = seen[p]["chat"].creating
    BY <1>0, <1>1, EditType DEF Copied
  <1>3. \A q \in Proc : Copied(q)'
    BY <1>0, <1>1, <1>2 DEF Copied, Others, Left, Gone
  <1> QED BY <1>0, <1>2, <1>3, PostSaving, CreationSaving DEF OnceInv

LEMMA CreationMoving ==
    ASSUME TypeInv, CreationInv, NEW p \in Proc, Moving(p)
    PROVE  CreationInv'
  <1>0. TypeOK /\ prs \in Nat
    BY DEF TypeInv, TypeOK
  <1>1. UNCHANGED <<late, file>> /\ Others(p) /\ pc' \in [Proc -> Places]
    BY <1>0, MoveEffect
  <1>2. LateCreations' = LateCreations
    BY <1>1 DEF LateCreations
  <1>3. pc'[p] # "create"
    BY <1>0 DEF Moving, Look, Push, Found, Create, Patch, Announce, Search, Post, Goto, TypeOK
  <1>4. Creating' = Creating \ {p}
    BY <1>1, <1>3 DEF Creating, Others
  <1>5. CASE Create(p)
    <2>1. p \in Creating /\ Once(Creating, LateCreations, prs)
      BY <1>0, <1>5 DEF Create, Creating, CreationInv
    <2>2. Creating = {p} /\ LateCreations = {} /\ Once({}, {}, prs + 1)
      BY <1>0, <2>1, OnceMoved
    <2>3. Creating' = {} /\ LateCreations' = {} /\ file["chat"].creating
      BY <1>0, <1>2, <1>4, <2>2 DEF CreationInv, None
    <2>4. prs' = prs + 1
      BY <1>5 DEF Create, Opened
    <2> QED BY <1>1, <2>2, <2>3, <2>4 DEF CreationInv
  <1>6. CASE ~Create(p)
    <2>1. prs' = prs
      BY <1>6 DEF Moving, Look, Push, Found, Patch, Announce, Search, Post, github
    <2> QED BY <1>0, <1>1, <1>2, <1>4, <2>1, CreationKept
  <1> QED BY <1>5, <1>6

LEMMA PostMoving ==
    ASSUME TypeInv, PostInv, NEW p \in Proc, Moving(p)
    PROVE  PostInv'
  <1>0. TypeOK /\ PostInv /\ Len(comments) \in Nat
    BY DEF TypeInv, TypeOK
  <1>1. UNCHANGED <<late, file>> /\ Others(p) /\ pc' \in [Proc -> Places]
    BY <1>0, MoveEffect
  <1>2. LatePosts' = LatePosts
    BY <1>1 DEF LatePosts
  <1>3. pc'[p] # "post"
    BY <1>0 DEF Moving, Look, Push, Found, Create, Patch, Announce, Search, Post, Goto, TypeOK
  <1>4. Posting' = Posting \ {p}
    BY <1>1, <1>3 DEF Posting, Others
  <1>5. CASE Post(p)
    <2>1. p \in Posting /\ Once(Posting, LatePosts, Len(comments))
      BY <1>0, <1>5 DEF Post, Posting, PostInv
    <2>2. /\ Posting = {p} /\ LatePosts = {} /\ Once({}, {}, Len(comments) + 1)
      BY <1>0, <2>1, OnceMoved
    <2>3. Posting' = {} /\ LatePosts' = {} /\ Settled(file["chat"].announcement)
      BY <1>0, <1>2, <1>4, <2>2 DEF PostInv, None
    <2>4. Len(comments') = Len(comments) + 1
      BY <1>0, <1>5 DEF Post, TypeOK
    <2> QED BY <1>1, <2>2, <2>3, <2>4 DEF PostInv
  <1>6. CASE ~Post(p)
    <2>1. comments' = comments
      BY <1>6 DEF Moving, Look, Push, Found, Create, Patch, Announce, Search, github
    <2> QED BY <1>0, <1>1, <1>2, <1>4, <2>1, PostKept
  <1> QED BY <1>5, <1>6

LEMMA OnceMoving ==
    ASSUME TypeInv, OnceInv, NEW p \in Proc, Moving(p)
    PROVE  OnceInv'
  <1>1. UNCHANGED <<own, mem, seen>> /\ pc[p] # "idle" /\ Others(p)
    BY MoveEffect DEF TypeInv
  <1>2. \A q \in Proc : Copied(q)'
    BY <1>1 DEF OnceInv, Copied, Others
  <1> QED BY <1>2, PostMoving, CreationMoving DEF OnceInv

LEMMA CreationStopping ==
    ASSUME TypeInv, CreationInv, NEW p \in Proc, Stopping(p)
    PROVE  CreationInv'
  <1>0. TypeOK /\ prs \in Nat
    BY DEF TypeInv, TypeOK
  <1>1. /\ UNCHANGED <<file, prs>> /\ Others(p) /\ Left(p)
        /\ late \subseteq late' /\ late' \subseteq late \union Pending(p)
    BY <1>0, StopEffect
  <1>2. Creating' = Creating \ {p}
    BY <1>1 DEF Others, Left, Creating
  <1>3. CASE pc[p] = "create"
    <2>1. p \in Creating /\ Once(Creating, LateCreations, prs)
      BY <1>0, <1>3 DEF Creating, CreationInv
    <2>2. /\ Creating = {p} /\ LateCreations = {}
          /\ \A y : Once({}, {y}, prs) /\ Once({}, {}, prs)
      BY <1>0, <2>1, OnceMoved
    <2>3. Creating' = {} /\ file["chat"].creating
      BY <1>0, <1>2, <2>2 DEF CreationInv, None
    <2>4. Pending(p) = {CreationOf(plan[p].content)}
      BY <1>3 DEF Pending
    <2>5. LateCreations' = {} \/ LateCreations' = {CreationOf(plan[p].content)}
      BY <1>1, <2>2, <2>4 DEF LateCreations
    <2> QED BY <1>1, <2>2, <2>3, <2>5 DEF CreationInv
  <1>4. CASE pc[p] # "create"
    <2>1. \A r \in Pending(p) : r.kind # "create"
      BY <1>4 DEF Pending, PushOf, PostOf
    <2>2. LateCreations' \subseteq LateCreations
      BY <1>1, <2>1 DEF LateCreations
    <2> QED BY <1>0, <1>1, <1>2, <2>2, CreationKept
  <1> QED BY <1>3, <1>4

LEMMA PostStopping ==
    ASSUME TypeInv, PostInv, NEW p \in Proc, Stopping(p)
    PROVE  PostInv'
  <1>0. TypeOK /\ PostInv /\ Len(comments) \in Nat
    BY DEF TypeInv, TypeOK
  <1>1. /\ UNCHANGED <<file, comments>> /\ Others(p) /\ Left(p)
        /\ late \subseteq late' /\ late' \subseteq late \union Pending(p)
    BY <1>0, StopEffect
  <1>2. Posting' = Posting \ {p}
    BY <1>1 DEF Others, Left, Posting
  <1>3. CASE pc[p] = "post"
    <2>1. p \in Posting /\ Once(Posting, LatePosts, Len(comments))
      BY <1>0, <1>3 DEF Posting, PostInv
    <2> DEFINE n == Len(comments)
    <2> HIDE DEF n
    <2>2. /\ Posting = {p} /\ LatePosts = {}
          /\ \A y : Once({}, {y}, n) /\ Once({}, {}, n)
      <3>1. n \in Nat /\ Once(Posting, LatePosts, n)
        BY <1>0, <2>1 DEF n
      <3> QED BY <2>1, <3>1, OnceMoved
    <2>3. Posting' = {} /\ Settled(file["chat"].announcement)
      BY <1>0, <1>2, <2>2 DEF PostInv, None
    <2>4. Pending(p) = {PostOf(mem[p].announcement.text)}
      BY <1>3 DEF Pending
    <2>5. LatePosts' = {} \/ LatePosts' = {PostOf(mem[p].announcement.text)}
      BY <1>1, <2>2, <2>4 DEF LatePosts
    <2> QED BY <1>1, <2>2, <2>3, <2>5 DEF PostInv, n
  <1>4. CASE pc[p] # "post"
    <2>1. \A r \in Pending(p) : r.kind # "post"
      BY <1>4 DEF Pending, PushOf, CreationOf
    <2>2. LatePosts' \subseteq LatePosts
      BY <1>1, <2>1 DEF LatePosts
    <2> QED BY <1>0, <1>1, <1>2, <2>2, PostKept
  <1> QED BY <1>3, <1>4

LEMMA OnceStopping ==
    ASSUME TypeInv, OnceInv, NEW p \in Proc, Stopping(p)
    PROVE  OnceInv'
  <1>1. Others(p) /\ Left(p)
    BY StopEffect DEF TypeInv
  <1>2. \A q \in Proc : Copied(q)'
    BY <1>1 DEF OnceInv, Copied, Others, Left
  <1> QED BY <1>2, PostStopping, CreationStopping DEF OnceInv

(* An operation on the issue's copy, which is all there is without feedback.     *)
LEMMA ChatBegin ==
    ASSUME TypeInv, ~Feedback, NEW p \in Proc, NEW copy \in Copies, Beginning(p, copy)
    PROVE  \E d, place, fixed :
             /\ Begins(p, "chat", d, place, fixed)
             /\ d \in Deliveries
             /\ Others(p)
             /\ pc[p] = "idle" /\ pc'[p] = place /\ own'[p] = "chat" /\ mem'[p] = d
             /\ seen'[p] = file /\ plan'[p] = fixed
             /\ UNCHANGED <<head, file, github, late>>
             /\ ~overlapped' => ~overlapped /\ \A q \in Proc : pc[q] = "idle"
             /\ place \in {"bind", "open", "confirm", "survey"}
             /\ Start("chat") = file["chat"] /\ file["chat"] \in Deliveries
  <1>0. TypeOK /\ Made
    BY DEF TypeInv
  <1>1. PICK d, place, fixed : Begins(p, copy, d, place, fixed)
    BY EveryBegin
  <1>2. /\ d \in Deliveries /\ place \in Places /\ fixed \in Plans
        /\ place \in {"bind", "open", "confirm", "survey"}
    BY <1>0, <1>1, BeginType
  <1>3. Begin(p, copy, d, place, fixed)
    BY <1>1 DEF Begins
  <1>4. /\ Others(p)
        /\ pc[p] = "idle" /\ pc'[p] = place /\ own'[p] = copy /\ mem'[p] = d
        /\ seen'[p] = file /\ plan'[p] = fixed
        /\ UNCHANGED <<head, file, github, late>>
        /\ ~overlapped' => ~overlapped /\ \A q \in Proc : pc[q] = "idle"
        /\ Entitled(copy)
    BY <1>0, <1>2, <1>3, BeginEffect
  <1>5. copy = "chat"
    BY <1>4 DEF Entitled, Copies
  <1>6. Start("chat") = file["chat"] /\ file["chat"] \in Deliveries
    BY <1>0, <1>5, StartType
  <1> QED BY <1>1, <1>2, <1>4, <1>5, <1>6

LEMMA OnceBeginning ==
    ASSUME TypeInv, OnceInv, ~Feedback, NEW p \in Proc, NEW copy \in Copies,
           Beginning(p, copy)
    PROVE  OnceInv'
  <1>0. TypeOK /\ PostInv /\ CreationInv /\ \A q \in Proc : Copied(q)
    BY DEF TypeInv, OnceInv
  <1>1. PICK d, place, fixed :
             /\ Begins(p, "chat", d, place, fixed)
             /\ Others(p)
             /\ pc[p] = "idle" /\ pc'[p] = place /\ own'[p] = "chat" /\ mem'[p] = d
             /\ seen'[p] = file
             /\ UNCHANGED <<head, file, github, late>>
             /\ place \in {"bind", "open", "confirm", "survey"}
             /\ Start("chat") = file["chat"] /\ file["chat"] \in Deliveries
    BY ChatBegin
  <1>2. d.announcement = file["chat"].announcement /\ d.creating = file["chat"].creating
    <2>1. CASE d = file["chat"]
      BY <2>1
    <2>2. CASE \E c \in 1..MaxContent : d = Bound(file["chat"], c)
      BY <1>0, <1>1, <2>2, BoundFields DEF SameMarks, SameAnnouncement
    <2> QED BY <1>1, <2>1, <2>2 DEF Begins
  <1>3. \A q \in Proc : Copied(q)'
    BY <1>0, <1>1, <1>2 DEF Copied, Others
  <1>4. /\ Posting' \subseteq Posting /\ Creating' \subseteq Creating
        /\ LatePosts' = LatePosts /\ LateCreations' = LateCreations
        /\ comments' = comments /\ prs' = prs
    BY <1>1 DEF Posting, Creating, Others, LatePosts, LateCreations, github
  <1> QED BY <1>0, <1>1, <1>3, <1>4, PostKept, CreationKept DEF OnceInv

LEMMA CreationWorld ==
    ASSUME TypeInv, CreationInv, World
    PROVE  CreationInv'
  <1>0. TypeOK /\ prs \in Nat
    BY DEF TypeInv, TypeOK
  <1>1. file' = file /\ pc' = pc /\ late' \subseteq late
    BY DEF World, Observe, Work, PushByHand, Land, environment, process
  <1>2. Creating' = Creating /\ LateCreations' \subseteq LateCreations
    BY <1>1 DEF Creating, LateCreations
  <1>3. CASE prs' = prs
    BY <1>0, <1>1, <1>2, <1>3, CreationKept
  <1>4. CASE prs' # prs
    <2>1. PICK r \in late : Land(r) /\ r.kind = "create"
      BY <1>4 DEF World, Observe, Work, PushByHand, Land, github
    <2>2. prs' = prs + 1 /\ late' = late \ {r}
      BY <2>1 DEF Land, Opened
    <2>3. r \in LateCreations /\ Once(Creating, LateCreations, prs)
      BY <2>1 DEF LateCreations, CreationInv
    <2>4. Creating = {} /\ LateCreations = {r} /\ Once({}, {}, prs + 1)
      BY <1>0, <2>3, OnceMoved
    <2>5. r \notin LateCreations'
      BY <2>2 DEF LateCreations
    <2>6. LateCreations' = {} /\ Creating' = {}
      BY <1>2, <2>4, <2>5
    <2>7. file["chat"].creating
      BY <2>4 DEF CreationInv, None
    <2> QED BY <1>1, <2>2, <2>4, <2>6, <2>7 DEF CreationInv
  <1> QED BY <1>3, <1>4

LEMMA PostWorld ==
    ASSUME TypeInv, PostInv, World
    PROVE  PostInv'
  <1>0. TypeOK /\ Len(comments) \in Nat
    BY DEF TypeInv, TypeOK
  <1>1. file' = file /\ pc' = pc /\ late' \subseteq late
    BY DEF World, Observe, Work, PushByHand, Land, environment, process
  <1>2. Posting' = Posting /\ LatePosts' \subseteq LatePosts
    BY <1>1 DEF Posting, LatePosts
  <1>3. CASE comments' = comments
    BY <1>0, <1>1, <1>2, <1>3, PostKept
  <1>4. CASE comments' # comments
    <2>1. PICK r \in late : Land(r) /\ r.kind = "post"
      BY <1>4 DEF World, Observe, Work, PushByHand, Land, github
    <2>2. Len(comments') = Len(comments) + 1 /\ late' = late \ {r}
      BY <1>0, <2>1 DEF Land, TypeOK
    <2>3. r \in LatePosts /\ Once(Posting, LatePosts, Len(comments))
      BY <2>1 DEF LatePosts, PostInv
    <2>4. Posting = {} /\ LatePosts = {r} /\ Once({}, {}, Len(comments) + 1)
      BY <1>0, <2>3, OnceMoved
    <2>5. r \notin LatePosts'
      BY <2>2 DEF LatePosts
    <2>6. LatePosts' = {} /\ Posting' = {}
      BY <1>2, <2>4, <2>5
    <2>7. Settled(file["chat"].announcement)
      BY <2>4 DEF PostInv, None
    <2> QED BY <1>1, <2>2, <2>4, <2>6, <2>7 DEF PostInv
  <1> QED BY <1>3, <1>4

LEMMA OnceWorld ==
    ASSUME TypeInv, OnceInv, World
    PROVE  OnceInv'
  <1>1. UNCHANGED <<pc, own, mem, seen>>
    BY DEF World, Observe, Work, PushByHand, Land, environment, process
  <1>2. \A q \in Proc : Copied(q)'
    BY <1>1 DEF OnceInv, Copied
  <1> QED BY <1>2, PostWorld, CreationWorld DEF OnceInv

LEMMA OnceInit == Init => OnceInv
  <1> SUFFICES ASSUME Init PROVE OnceInv
    OBVIOUS
  <1>1. Posting = {} /\ Creating = {} /\ LatePosts = {} /\ LateCreations = {}
    BY DEF Init, Posting, Creating, LatePosts, LateCreations
  <1>2. Len(comments) = 0 /\ prs = 0
    BY DEF Init
  <1>3. None({}, {}, 0) /\ Once({}, {}, 0)
    BY DEF None, Once, Single
  <1>4. \A p \in Proc : Copied(p)
    BY DEF Init, Copied
  <1> QED BY <1>1, <1>2, <1>3, <1>4 DEF OnceInv, PostInv, CreationInv

LEMMA OnceStep ==
    ASSUME ~Feedback
    PROVE  TypeInv /\ OnceInv /\ [Next]_vars => OnceInv'
  <1> SUFFICES ASSUME TypeInv, OnceInv, [Next]_vars PROVE OnceInv'
    OBVIOUS
  <1>1. CASE UNCHANGED vars
    BY <1>1 DEF vars, github, OnceInv, PostInv, CreationInv, Copied, Posting, Creating,
       LatePosts, LateCreations
  <1>2. CASE Next
    BY <1>2, EveryStep, OnceSaving, OnceMoving, OnceStopping, OnceBeginning, OnceWorld
  <1> QED BY <1>1, <1>2

LEMMA OnceCounts ==
    ASSUME TypeOK, OnceInv
    PROVE  AnnouncedOnce /\ prs + Unanswered("create") + At("create") <= 1
  <1>1. /\ Len(comments) + Cardinality(LatePosts) + Cardinality(Posting) <= 1
        /\ prs + Cardinality(LateCreations) + Cardinality(Creating) <= 1
    BY OnceIsOne DEF TypeOK, OnceInv, PostInv, CreationInv
  <1> QED BY <1>1 DEF AnnouncedOnce, Unanswered, At, LatePosts, Posting, LateCreations,
          Creating

(* One announcement at most is ever posted, however many processes there are     *)
(* and however often they fail, as long as no feedback event delivers from a     *)
(* copy of its own (the run delivery_feedback shows that then it need not hold).  *)
THEOREM OneAnnouncement ==
    ASSUME ~Feedback
    PROVE  Spec => []AnnouncedOnce
  <1>1. TypeInv /\ OnceInv => AnnouncedOnce
    BY OnceCounts DEF TypeInv
  <1>2. TypeInv /\ OnceInv /\ [Next]_vars => (TypeInv /\ OnceInv)'
    BY TypeStep, OnceStep
  <1>3. Init => TypeInv /\ OnceInv
    BY TypeInit, OnceInit
  <1> QED BY <1>1, <1>2, <1>3, PTL DEF Spec
=============================================================================
