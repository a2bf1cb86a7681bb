-------------------------- MODULE SessionRepository --------------------------
(***************************************************************************)
(* The Sessions a browser keeps in Web Storage, and the tabs that use them: *)
(*   - session-persistence/session-repository.js, one index and one         *)
(*     enveloped record per Session;                                       *)
(*   - session-persistence/reversible-session-write.js, a write its owner   *)
(*     may still take back;                                                *)
(*   - session-store/session-store.js, the durable Session operations;      *)
(*   - session-browser-ui/session-browser.js, which of them a tab calls.    *)
(* A synchronous operation of one tab is one step.  Its storage writes may  *)
(* fail, and the tab may end between two of them.                          *)
(***************************************************************************)
EXTENDS Naturals, FiniteSets

CONSTANTS
    Tab,          \* tabs open on the same storage
    Session,      \* Session identities, random and never used twice
    None,         \* no record, no open Session, no pending write
    MaxRevision,  \* bound on the revision of a record
    MaxFaults     \* bound on storage faults and on tabs that end

ASSUME SessionAssumption ==
    /\ MaxRevision \in Nat /\ MaxFaults \in Nat
    /\ None \notin Session
    /\ None \notin [revision : Nat, generation : Nat, writer : Tab]

VARIABLES
    index,   \* Sessions of the index
    entry,   \* entry[s]: the bytes of the record of s, or None
    tab,     \* tab[t]: open Session, its activation generation, pending write
    acked,   \* history: acked[s], highest revision a writer was told is final
    gone,    \* history: Sessions whose deletion was confirmed
    faults

vars == <<index, entry, tab, acked, gone, faults>>

\* The bytes of a record: two tabs never write the same ones.
Entry == [revision : Nat, generation : Nat, writer : Tab]
Pending == [previous : Entry, next : Entry]
Away == [open |-> None, generation |-> 0, pending |-> None]

Init ==
    /\ index = {}
    /\ entry = [s \in Session |-> None]
    /\ tab = [t \in Tab |-> Away]
    /\ acked = [s \in Session |-> 0]
    /\ gone = {}
    /\ faults = 0
-----------------------------------------------------------------------------
Fault == faults < MaxFaults /\ faults' = faults + 1

\* Operations are called between transactions, not while a write is pending.
Calls(t) == tab[t].pending = None

Exists(s) == entry[s] # None

\* What a storage operation leaves when it ends without an error.
Put(s, bytes) == entry' = [entry EXCEPT ![s] = bytes]
Drop(s) == entry' = [entry EXCEPT ![s] = None]

\* The tab ends: what it had not finished stays as it is in storage.
TabEnds(t) == Fault /\ tab' = [tab EXCEPT ![t] = Away]

Ack(s, revision) == acked' = [acked EXCEPT ![s] = IF revision > @ THEN revision ELSE @]
-----------------------------------------------------------------------------
(* insert() and remove(): two writes each.                                 *)

FirstEntryUnversioned(t) == [generation |-> 0, writer |-> t]
FirstEntry(t) == [revision |-> 1, generation |-> 0, writer |-> t]

InsertIndexFirst(t, s) ==
    \/ Put(s, FirstEntry(t)) /\ index' = index \union {s} /\ Ack(s, 1) /\ UNCHANGED <<tab, faults>>
    \/ index' = index \union {s} /\ TabEnds(t) /\ UNCHANGED <<entry, acked>>

\* The record, then the index; a failed index takes the record back.
Insert(t, s) ==
    \/ Put(s, FirstEntry(t)) /\ index' = index \union {s} /\ Ack(s, 1) /\ UNCHANGED <<tab, faults>>
    \/ \* the index fails: the record is removed, or its removal fails as well
       Fault /\ (Put(s, FirstEntry(t)) \/ UNCHANGED entry) /\ UNCHANGED <<index, tab, acked>>
    \/ \* the tab ends between the two
       Put(s, FirstEntry(t)) /\ TabEnds(t) /\ UNCHANGED <<index, acked>>

CreateSession(t, s) ==
    /\ Calls(t)
    /\ tab[t].open = None
    /\ ~Exists(s)
    /\ s \notin index \union gone
    /\ Insert(t, s)
    /\ UNCHANGED gone

\* The index, then the record; a failed record puts the index back.
Remove(t, s) ==
    \/ Drop(s) /\ index' = index \ {s} /\ gone' = gone \union {s} /\ UNCHANGED <<tab, faults>>
    \/ \* the record fails: the index is restored, or stays without it
       Fault /\ index' \in {index, index \ {s}} /\ UNCHANGED <<entry, tab, gone>>
    \/ \* the tab ends between the two
       index' = index \ {s} /\ TabEnds(t) /\ UNCHANGED <<entry, gone>>

DeleteSession(t, s) ==
    /\ Calls(t)
    /\ tab[t].open = None
    /\ Exists(s)
    /\ s \in index
    /\ Remove(t, s)
    /\ UNCHANGED acked
-----------------------------------------------------------------------------
(* compareAndSwapReversible(): write, read back, and repair on failure.    *)

Bump(s, t, generation) ==
    [revision |-> entry[s].revision + 1, generation |-> generation, writer |-> t]

\* Reading the record and comparing its revision are one step here.
Writable(s) == Exists(s) /\ entry[s].revision < MaxRevision

\* compareAndSwap(): finalized at once.  A write that fails leaves the prior
\* bytes, and the tab may end before it knows.
Swap(t, s, bytes, told) ==
    \/ Put(s, bytes) /\ Ack(s, bytes.revision) /\ tab' = told /\ UNCHANGED faults
    \/ Fault /\ UNCHANGED <<entry, acked, tab>>
    \/ Put(s, bytes) /\ TabEnds(t) /\ UNCHANGED acked

SameGeneration(s) == IF entry[s].generation = 0 THEN 1 ELSE entry[s].generation
NextGeneration(s) == entry[s].generation + 1

\* activateSession(): the generation advances with the revision.
OpenSession(t, s) ==
    /\ Calls(t)
    /\ tab[t].open = None
    /\ Writable(s)
    /\ LET generation == NextGeneration(s) IN
       Swap(t, s, Bump(s, t, generation),
            [tab EXCEPT ![t] = [open |-> s, generation |-> generation, pending |-> None]])
    /\ UNCHANGED <<index, gone>>

\* savePaneLayout(), saveLayoutSync(), saveWorkspaceCheckpoint()
Save(t) ==
    LET s == tab[t].open IN
    /\ Calls(t)
    /\ s # None
    /\ Writable(s)
    /\ Swap(t, s, Bump(s, t, entry[s].generation), tab)
    /\ UNCHANGED <<index, gone>>

\* saveWorkspaceCheckpointReversible(), in the apply of a transaction.
SaveReversible(t) ==
    LET s == tab[t].open IN
    /\ Calls(t)
    /\ s # None
    /\ Writable(s)
    /\ LET bytes == Bump(s, t, entry[s].generation) IN
       \/ /\ Put(s, bytes)
          /\ tab' = [tab EXCEPT ![t].pending = [previous |-> entry[s], next |-> bytes]]
          /\ UNCHANGED faults
       \/ Fault /\ UNCHANGED <<entry, tab>>
    /\ UNCHANGED <<index, acked, gone>>

Finalize(t) ==
    /\ tab[t].pending # None
    /\ Ack(tab[t].open, tab[t].pending.next.revision)
    /\ tab' = [tab EXCEPT ![t].pending = None]
    /\ UNCHANGED <<index, entry, gone, faults>>

RestorableAlways(t) == TRUE
RestorableByRevision(t) ==
    /\ Exists(tab[t].open)
    /\ entry[tab[t].open].revision >= tab[t].pending.next.revision
Restorable(t) == entry[tab[t].open] = tab[t].pending.next

\* The bytes go back only over the ones this tab wrote.  Anything else, and a
\* write that fails, is reported and poisons the activation.
Rollback(t) ==
    /\ tab[t].pending # None
    /\ \/ /\ Restorable(t)
          /\ Put(tab[t].open, tab[t].pending.previous)
          /\ tab' = [tab EXCEPT ![t].pending = None]
          /\ UNCHANGED faults
       \/ /\ ~Restorable(t)
          /\ tab' = [tab EXCEPT ![t] = Away]
          /\ UNCHANGED <<entry, faults>>
       \/ /\ Restorable(t)
          /\ TabEnds(t)
          /\ UNCHANGED entry
    /\ UNCHANGED <<index, acked, gone>>

\* Back to the list, or the end of the tab at any moment.
Leave(t) ==
    /\ Calls(t)
    /\ tab[t].open # None
    /\ tab' = [tab EXCEPT ![t] = Away]
    /\ UNCHANGED <<index, entry, acked, gone, faults>>

Crash(t) ==
    /\ tab[t] # Away
    /\ TabEnds(t)
    /\ UNCHANGED <<index, entry, acked, gone>>

Next ==
    \E t \in Tab :
       \/ \E s \in Session : CreateSession(t, s) \/ DeleteSession(t, s) \/ OpenSession(t, s)
       \/ Save(t) \/ SaveReversible(t) \/ Finalize(t) \/ Rollback(t) \/ Leave(t) \/ Crash(t)

Spec == Init /\ [][Next]_vars
-----------------------------------------------------------------------------
\* Every variable has its type.
TypeOK ==
    /\ index \subseteq Session
    /\ entry \in [Session -> Entry \union {None}]
    /\ tab \in [Tab -> [open : Session \union {None}, generation : Nat,
                        pending : Pending \union {None}]]
    /\ acked \in [Session -> Nat]
    /\ gone \subseteq Session
    /\ faults \in 0..MaxFaults

\* Every Session of the index has its record, whatever insert() and remove()
\* could not finish: listSessions() throws for the whole list otherwise.
IndexedSessionsLoad == \A s \in index : Exists(s)

\* Two activations of a Session never share a generation, and none is ahead
\* of the record: activateSession() advances it in the swap of the revision,
\* and no rollback takes it back under a tab that holds it.
GenerationsDistinct ==
    \A t \in Tab : LET s == tab[t].open IN
       s # None =>
          /\ Exists(s) => tab[t].generation <= entry[s].generation
          /\ \A u \in Tab \ {t} : tab[u].open = s => tab[u].generation # tab[t].generation

\* What a writer was told is final stays: no rollback of another tab's
\* reversible write, and no repair, takes the record below it.
AckedWritesStay == \A s \in Session : Exists(s) => acked[s] <= entry[s].revision

\* A confirmed deletion is final, whatever the tabs that have the Session
\* open save or roll back.
DeletedStaysDeleted == \A s \in gone : ~Exists(s) /\ s \notin index
=============================================================================
