---------------------------- MODULE JournalSpec ----------------------------
(***************************************************************************)
(* What the dispatch journal promises its transactions                     *)
(* (src/agent/dispatch-state.ts, "external work runs unlocked; each save    *)
(* commits only checked changes to fresh state"): one table of records,     *)
(* changed by whole saves.  A save changes a record only as far as the      *)
(* transaction has seen it, and nothing is saved across a reset.            *)
(* DispatchJournal implements it, cold store, leases and failures included. *)
(***************************************************************************)
EXTENDS Naturals

CONSTANTS Txn, Id, IssueOf, Absent

VARIABLES
    gen,        \* the generation of the table
    table,      \* the record under each id
    open,       \* transactions that have a snapshot
    seen,       \* the snapshot
    seenGen     \* ... and its generation

vars == <<gen, table, open, seen, seenGen>>

Empty == [i \in Id |-> Absent]

Unique(records) ==
    \A i, j \in Id :
        records[i].life = "live" /\ records[j].life = "live" /\ IssueOf[i] = IssueOf[j]
        => i = j

Init ==
    /\ gen = 0
    /\ Unique(table)
    /\ open = {}
    /\ seen = [t \in Txn |-> Empty]
    /\ seenGen = [t \in Txn |-> 0]

Open(t) ==
    /\ t \notin open
    /\ open' = open \union {t}
    /\ seen' = [seen EXCEPT ![t] = table]
    /\ seenGen' = [seenGen EXCEPT ![t] = gen]
    /\ UNCHANGED <<gen, table>>

(* A record may change in any way while it is as it was seen; one that        *)
(* others have changed keeps what they changed.                               *)
Allowed(old, now, new) ==
    \/ new = now
    \/ now = old
    \/ /\ old # Absent
       /\ old.life = now.life
       /\ old.thread = now.thread
       /\ new.note = now.note \/ old.note = now.note

Save(t) ==
    /\ t \in open
    /\ seenGen[t] = gen
    /\ \A i \in Id : Allowed(seen[t][i], table[i], table'[i])
    /\ Unique(table')
    /\ seen' = [seen EXCEPT ![t] = table']
    /\ UNCHANGED <<gen, open, seenGen>>

Close(t) ==
    /\ t \in open
    /\ open' = open \ {t}
    /\ seen' = [seen EXCEPT ![t] = Empty]
    /\ seenGen' = [seenGen EXCEPT ![t] = 0]
    /\ UNCHANGED <<gen, table>>

Reset ==
    /\ gen' > gen
    /\ table' = Empty
    /\ UNCHANGED <<open, seen, seenGen>>

Next == (\E t \in Txn : Open(t) \/ Save(t) \/ Close(t)) \/ Reset

Spec == Init /\ [][Next]_vars
=============================================================================
