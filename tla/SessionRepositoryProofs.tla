------------------------ MODULE SessionRepositoryProofs ------------------------
(***************************************************************************)
(* Theorems about SessionRepository, for any tabs, Sessions and bounds.     *)
(***************************************************************************)
EXTENDS SessionRepository, TLAPS

\* A Session that a tab has open, or of which a write was final, is stored or
\* its deletion was confirmed.
Known(s) == Exists(s) \/ s \in gone
OpenIsKnown ==
    /\ \A t \in Tab : tab[t].open # None => Known(tab[t].open)
    /\ \A s \in Session : acked[s] # 0 => Known(s)

\* A pending write is one revision above what it replaced, in the same
\* generation; the record has not fallen below it, and nobody was told that
\* its revision is final.
PendingIsSound ==
    \A t \in Tab : LET s == tab[t].open
                       p == tab[t].pending IN
       p # None =>
          /\ s # None
          /\ p.next.revision = p.previous.revision + 1
          /\ p.next.generation = p.previous.generation
          /\ Exists(s) => /\ p.next.revision <= entry[s].revision
                          /\ p.next.revision # acked[s]

\* Reversible writes of several tabs lie on top of one another, never side by
\* side: at most one of them finds its own bytes and may put the prior ones back.
PendingAreOrdered ==
    \A t, u \in Tab :
       /\ t # u
       /\ tab[t].pending # None /\ tab[u].pending # None
       /\ tab[t].open = tab[u].open
       /\ Exists(tab[t].open)
       => tab[t].pending.next.revision # tab[u].pending.next.revision

\* The inductive invariant.
RecordsInv ==
    /\ TypeOK
    /\ IndexedSessionsLoad
    /\ DeletedStaysDeleted
    /\ OpenIsKnown
    /\ PendingIsSound
    /\ PendingAreOrdered
    /\ AckedWritesStay
    /\ GenerationsDistinct
-----------------------------------------------------------------------------
\* The bytes of a record are never taken for no record, and a pending write
\* never for no write that has bytes.
LEMMA NoneIsNoEntry == None \notin Entry /\ None \notin Session
BY SessionAssumption DEF Entry

\* The initial states satisfy the invariant.
LEMMA RecordsInit == Init => RecordsInv
BY SessionAssumption DEF Init, RecordsInv, TypeOK, IndexedSessionsLoad, DeletedStaysDeleted,
   OpenIsKnown, Known, PendingIsSound, PendingAreOrdered, AckedWritesStay,
   GenerationsDistinct, Away, Exists

\* A swap writes an entry one revision above the one it read.
LEMMA BumpType ==
    ASSUME TypeOK, NEW s \in Session, NEW t \in Tab, Exists(s), NEW g \in Nat
    PROVE  /\ Bump(s, t, g) \in Entry
           /\ Bump(s, t, g).revision = entry[s].revision + 1
           /\ Bump(s, t, g).generation = g
           /\ entry[s] \in Entry
BY DEF TypeOK, Exists, Bump, Entry

\* insert() writes an entry.
LEMMA FirstEntryType == ASSUME NEW t \in Tab PROVE FirstEntry(t) \in Entry
BY DEF FirstEntry, Entry

\* Every step keeps the types.
LEMMA TypeStep == TypeOK /\ [Next]_vars => TypeOK'
<1> SUFFICES ASSUME TypeOK, [Next]_vars PROVE TypeOK'
  OBVIOUS
<1> USE SessionAssumption DEF TypeOK
<1>1. ASSUME NEW t \in Tab, NEW s \in Session, CreateSession(t, s) PROVE TypeOK'
  BY <1>1, FirstEntryType DEF CreateSession, Insert, Put, Ack, TabEnds, Fault, Away, Pending
<1>2. ASSUME NEW t \in Tab, NEW s \in Session, DeleteSession(t, s) PROVE TypeOK'
  BY <1>2 DEF DeleteSession, Remove, Drop, TabEnds, Fault, Away
<1>3. ASSUME NEW t \in Tab, NEW s \in Session, OpenSession(t, s) PROVE TypeOK'
  <2>1. Exists(s) /\ NextGeneration(s) \in Nat
    BY <1>3 DEF OpenSession, Writable, Exists, NextGeneration, Entry
  <2>2. Bump(s, t, NextGeneration(s)) \in Entry
    BY <2>1, BumpType
  <2> QED
    BY <1>3, <2>1, <2>2, SMTT(30) DEF OpenSession, Swap, Put, Ack, TabEnds, Fault, Away, Entry
<1>4. ASSUME NEW t \in Tab, Save(t) PROVE TypeOK'
  <2>1. tab[t].open \in Session /\ Exists(tab[t].open)
    BY <1>4 DEF Save, Writable
  <2>2. Bump(tab[t].open, t, entry[tab[t].open].generation) \in Entry
    BY <2>1, BumpType DEF Exists, Entry
  <2> QED
    BY <1>4, <2>1, <2>2 DEF Save, Swap, Put, Ack, TabEnds, Fault, Away, Entry
<1>5. ASSUME NEW t \in Tab, SaveReversible(t) PROVE TypeOK'
  <2>1. tab[t].open \in Session /\ Exists(tab[t].open)
    BY <1>5 DEF SaveReversible, Writable
  <2>2. /\ Bump(tab[t].open, t, entry[tab[t].open].generation) \in Entry
        /\ entry[tab[t].open] \in Entry
    BY <2>1, BumpType DEF Exists, Entry
  <2> QED
    BY <1>5, <2>1, <2>2 DEF SaveReversible, Put, Fault, Pending
<1>6. ASSUME NEW t \in Tab, Finalize(t) PROVE TypeOK'
  BY <1>6 DEF Finalize, Ack, Pending, Entry
<1>7. ASSUME NEW t \in Tab, Rollback(t) PROVE TypeOK'
  BY <1>7 DEF Rollback, Put, TabEnds, Fault, Away, Pending
<1>8. ASSUME NEW t \in Tab, Leave(t) PROVE TypeOK'
  BY <1>8 DEF Leave, Away
<1>9. ASSUME NEW t \in Tab, Crash(t) PROVE TypeOK'
  BY <1>9 DEF Crash, TabEnds, Fault, Away
<1>10. CASE UNCHANGED vars
  BY <1>10 DEF vars
<1> QED
  BY <1>1, <1>2, <1>3, <1>4, <1>5, <1>6, <1>7, <1>8, <1>9, <1>10 DEF Next

\* What a tab with a Session open may do to its record.
LEMMA OpenEntry ==
    ASSUME TypeOK, NEW t \in Tab, tab[t].open # None, Writable(tab[t].open)
    PROVE  /\ tab[t].open \in Session
           /\ entry[tab[t].open] \in Entry
           /\ LET bytes == Bump(tab[t].open, t, entry[tab[t].open].generation) IN
              /\ bytes \in Entry
              /\ bytes.revision = entry[tab[t].open].revision + 1
              /\ bytes.generation = entry[tab[t].open].generation
<1>1. tab[t].open \in Session /\ Exists(tab[t].open)
  BY DEF TypeOK, Writable
<1>2. entry[tab[t].open] \in Entry /\ entry[tab[t].open].generation \in Nat
  BY <1>1 DEF TypeOK, Exists, Entry
<1> QED
  BY <1>1, <1>2, BumpType

\* The same for the Session a tab opens.
LEMMA OpenedEntry ==
    ASSUME TypeOK, NEW t \in Tab, NEW s \in Session, Writable(s)
    PROVE  /\ entry[s] \in Entry
           /\ NextGeneration(s) \in Nat
           /\ NextGeneration(s) = entry[s].generation + 1
           /\ LET bytes == Bump(s, t, NextGeneration(s)) IN
              /\ bytes \in Entry
              /\ bytes.revision = entry[s].revision + 1
              /\ bytes.generation = NextGeneration(s)
<1>1. entry[s] \in Entry /\ NextGeneration(s) \in Nat
  BY DEF TypeOK, Exists, Entry, Writable, NextGeneration
<1> QED
  BY <1>1, BumpType DEF Writable, NextGeneration

\* A pending write of a tab, its parts and its Session.
LEMMA PendingEntry ==
    ASSUME TypeOK, PendingIsSound, NEW t \in Tab, tab[t].pending # None
    PROVE  /\ tab[t].open \in Session
           /\ tab[t].pending \in Pending
           /\ tab[t].pending.previous \in Entry
           /\ tab[t].pending.next \in Entry
           /\ tab[t].pending.previous.revision \in Nat
           /\ tab[t].pending.next.revision = tab[t].pending.previous.revision + 1
<1>1. tab[t].pending \in Pending /\ tab[t].open \in Session
  BY DEF TypeOK, PendingIsSound
<1> QED
  BY <1>1 DEF PendingIsSound, Pending, Entry

\* No step loses the record of an indexed Session, brings back a deleted one,
\* or opens one that is neither stored nor deleted.
LEMMA PresenceStep ==
    ASSUME TypeOK, IndexedSessionsLoad, DeletedStaysDeleted, OpenIsKnown, PendingIsSound,
           [Next]_vars
    PROVE  IndexedSessionsLoad' /\ DeletedStaysDeleted' /\ OpenIsKnown'
<1> USE NoneIsNoEntry DEF TypeOK, IndexedSessionsLoad, DeletedStaysDeleted, OpenIsKnown, Known, Exists
<1>1. ASSUME NEW t \in Tab, NEW s \in Session, CreateSession(t, s)
      PROVE  IndexedSessionsLoad' /\ DeletedStaysDeleted' /\ OpenIsKnown'
  BY <1>1, FirstEntryType DEF CreateSession, Insert, Put, Ack, TabEnds, Fault, Away
<1>2. ASSUME NEW t \in Tab, NEW s \in Session, DeleteSession(t, s)
      PROVE  IndexedSessionsLoad' /\ DeletedStaysDeleted' /\ OpenIsKnown'
  BY <1>2 DEF DeleteSession, Remove, Drop, TabEnds, Fault, Away
<1>3. ASSUME NEW t \in Tab, NEW s \in Session, OpenSession(t, s)
      PROVE  IndexedSessionsLoad' /\ DeletedStaysDeleted' /\ OpenIsKnown'
  <2>1. Exists(s) /\ index' = index /\ gone' = gone
    BY <1>3 DEF OpenSession, Writable
  <2>2. \A r \in Session : entry'[r] # None <=> entry[r] # None
    BY <1>3, <2>1, OpenedEntry DEF OpenSession, Swap, Put
  <2>3. \A r \in Session \ {s} : acked'[r] = acked[r]
    BY <1>3 DEF OpenSession, Swap, Ack
  <2>4. \A u \in Tab : tab'[u].open \in {tab[u].open, s, None}
    BY <1>3 DEF OpenSession, Swap, TabEnds, Away
  <2> QED
    BY <2>1, <2>2, <2>3, <2>4
<1>4. ASSUME NEW t \in Tab, Save(t)
      PROVE  IndexedSessionsLoad' /\ DeletedStaysDeleted' /\ OpenIsKnown'
  <2> DEFINE s == tab[t].open
  <2>1. s \in Session /\ Exists(s) /\ index' = index /\ gone' = gone
    BY <1>4 DEF Save, Writable
  <2>2. \A r \in Session : entry'[r] # None <=> entry[r] # None
    BY <1>4, <2>1, OpenEntry DEF Save, Swap, Put
  <2>3. \A r \in Session \ {s} : acked'[r] = acked[r]
    BY <1>4 DEF Save, Swap, Ack
  <2>4. \A u \in Tab : tab'[u].open \in {tab[u].open, None}
    BY <1>4 DEF Save, Swap, TabEnds, Away
  <2> QED
    BY <2>1, <2>2, <2>3, <2>4
<1>5. ASSUME NEW t \in Tab, SaveReversible(t)
      PROVE  IndexedSessionsLoad' /\ DeletedStaysDeleted' /\ OpenIsKnown'
  BY <1>5, OpenEntry DEF SaveReversible, Writable, Put, Fault
<1>6. ASSUME NEW t \in Tab, Finalize(t)
      PROVE  IndexedSessionsLoad' /\ DeletedStaysDeleted' /\ OpenIsKnown'
  BY <1>6 DEF Finalize, Ack
<1>7. ASSUME NEW t \in Tab, Rollback(t)
      PROVE  IndexedSessionsLoad' /\ DeletedStaysDeleted' /\ OpenIsKnown'
  BY <1>7, PendingEntry DEF Rollback, Restorable, Put, TabEnds, Fault, Away
<1>8. ASSUME NEW t \in Tab, Leave(t)
      PROVE  IndexedSessionsLoad' /\ DeletedStaysDeleted' /\ OpenIsKnown'
  BY <1>8 DEF Leave, Away
<1>9. ASSUME NEW t \in Tab, Crash(t)
      PROVE  IndexedSessionsLoad' /\ DeletedStaysDeleted' /\ OpenIsKnown'
  BY <1>9 DEF Crash, TabEnds, Fault, Away
<1>10. CASE UNCHANGED vars
  BY <1>10 DEF vars
<1> QED
  BY <1>1, <1>2, <1>3, <1>4, <1>5, <1>6, <1>7, <1>8, <1>9, <1>10 DEF Next

\* A swap writes the bytes or nothing, tells the tab or ends it.
LEMMA SwapEffect ==
    ASSUME TypeOK, AckedWritesStay, NEW t \in Tab, NEW s \in Session, NEW bytes, NEW told,
           entry[s] \in Entry, bytes.revision = entry[s].revision + 1,
           Swap(t, s, bytes, told)
    PROVE  /\ tab' \in {tab, told, [tab EXCEPT ![t] = Away]}
           /\ \/ entry' = entry /\ acked' = acked
              \/ /\ entry' = [entry EXCEPT ![s] = bytes]
                 /\ acked' \in {acked, [acked EXCEPT ![s] = bytes.revision]}
<1>1. entry[s].revision \in Nat /\ acked[s] \in Nat /\ acked[s] <= entry[s].revision
  BY NoneIsNoEntry DEF TypeOK, Entry, AckedWritesStay, Exists
<1> QED
  BY <1>1 DEF TypeOK, Swap, Put, Ack, TabEnds

\* What a tab does with the record of its own Session.
LEMMA SaveEffect ==
    ASSUME TypeOK, AckedWritesStay, NEW t \in Tab, Save(t)
    PROVE  LET s == tab[t].open IN
           /\ s \in Session
           /\ entry[s] \in Entry
           /\ \E bytes \in Entry :
               /\ bytes.revision = entry[s].revision + 1
               /\ bytes.generation = entry[s].generation
               /\ tab' \in {tab, [tab EXCEPT ![t] = Away]}
               /\ \/ entry' = entry /\ acked' = acked
                  \/ /\ entry' = [entry EXCEPT ![s] = bytes]
                     /\ acked' \in {acked, [acked EXCEPT ![s] = bytes.revision]}
<1> DEFINE s == tab[t].open
           bytes == Bump(s, t, entry[s].generation)
<1>1. s # None /\ Writable(s) /\ Swap(t, s, bytes, tab)
  BY DEF Save
<1>2. /\ s \in Session /\ entry[s] \in Entry /\ bytes \in Entry
      /\ bytes.revision = entry[s].revision + 1 /\ bytes.generation = entry[s].generation
  BY <1>1, OpenEntry
<1> HIDE DEF s, bytes
<1>3. /\ tab' \in {tab, tab, [tab EXCEPT ![t] = Away]}
      /\ \/ entry' = entry /\ acked' = acked
         \/ /\ entry' = [entry EXCEPT ![s] = bytes]
            /\ acked' \in {acked, [acked EXCEPT ![s] = bytes.revision]}
  BY <1>1, <1>2, SwapEffect
<1> QED
  BY <1>2, <1>3 DEF s, bytes

\* An activation: the tab has the Session open in the next generation, or the
\* swap has failed.
LEMMA OpenEffect ==
    ASSUME TypeOK, AckedWritesStay, NEW t \in Tab, NEW s \in Session, OpenSession(t, s)
    PROVE  /\ entry[s] \in Entry
           /\ \E bytes \in Entry :
               /\ bytes.revision = entry[s].revision + 1
               /\ bytes.generation = entry[s].generation + 1
               /\ \A u \in Tab \ {t} : tab'[u] = tab[u]
               /\ \/ tab'[t] \in {tab[t], Away}
                  \/ /\ tab'[t] = [open |-> s, generation |-> bytes.generation, pending |-> None]
                     /\ entry' = [entry EXCEPT ![s] = bytes]
               /\ \/ entry' = entry /\ acked' = acked
                  \/ /\ entry' = [entry EXCEPT ![s] = bytes]
                     /\ acked' \in {acked, [acked EXCEPT ![s] = bytes.revision]}
<1> DEFINE bytes == Bump(s, t, NextGeneration(s))
           told == [tab EXCEPT ![t] = [open |-> s, generation |-> NextGeneration(s),
                                       pending |-> None]]
<1>1. Writable(s) /\ Swap(t, s, bytes, told)
  BY DEF OpenSession
<1>2. /\ entry[s] \in Entry /\ bytes \in Entry
      /\ bytes.revision = entry[s].revision + 1
      /\ bytes.generation = NextGeneration(s) /\ NextGeneration(s) = entry[s].generation + 1
  BY <1>1, OpenedEntry
<1> HIDE DEF bytes
<1>3. \/ entry' = entry /\ acked' = acked
      \/ /\ entry' = [entry EXCEPT ![s] = bytes]
         /\ acked' \in {acked, [acked EXCEPT ![s] = bytes.revision]}
  BY <1>1, <1>2, SwapEffect
<1>4. \/ tab' = told /\ entry' = [entry EXCEPT ![s] = bytes]
      \/ tab' \in {tab, [tab EXCEPT ![t] = Away]}
  BY <1>1 DEF Swap, Put, TabEnds
<1>5. \A u \in Tab \ {t} : tab'[u] = tab[u]
  BY <1>4 DEF TypeOK
<1>6. \/ tab'[t] \in {tab[t], Away}
      \/ /\ tab'[t] = [open |-> s, generation |-> bytes.generation, pending |-> None]
         /\ entry' = [entry EXCEPT ![s] = bytes]
  BY <1>2, <1>4 DEF TypeOK
<1> QED
  BY <1>2, <1>3, <1>5, <1>6 DEF bytes

\* Only the tab's own write is taken back, and only while it is on top.
LEMMA RollbackEffect ==
    ASSUME TypeOK, PendingIsSound, NEW t \in Tab, Rollback(t)
    PROVE  LET s == tab[t].open
               p == tab[t].pending IN
           /\ p # None /\ s \in Session
           /\ p.previous \in Entry /\ p.next \in Entry
           /\ p.next.revision = p.previous.revision + 1
           /\ p.next.generation = p.previous.generation
           /\ acked' = acked
           /\ \A u \in Tab \ {t} : tab'[u] = tab[u]
           /\ tab'[t].pending = None
           /\ tab'[t] = Away \/ (tab'[t].open = s /\ tab'[t].generation = tab[t].generation)
           /\ \/ entry' = entry
              \/ entry[s] = p.next /\ entry' = [entry EXCEPT ![s] = p.previous]
<1>1. /\ tab[t].pending # None /\ tab[t].open \in Session
      /\ tab[t].pending.previous \in Entry /\ tab[t].pending.next \in Entry
      /\ tab[t].pending.next.revision = tab[t].pending.previous.revision + 1
  BY PendingEntry DEF Rollback
<1>2. tab[t].pending.next.generation = tab[t].pending.previous.generation
  BY <1>1 DEF PendingIsSound
<1>3. /\ acked' = acked
      /\ tab' \in {[tab EXCEPT ![t].pending = None], [tab EXCEPT ![t] = Away]}
      /\ \/ entry' = entry
         \/ /\ entry[tab[t].open] = tab[t].pending.next
            /\ entry' = [entry EXCEPT ![tab[t].open] = tab[t].pending.previous]
  BY DEF Rollback, Restorable, Put, TabEnds
<1>4. /\ \A u \in Tab \ {t} : tab'[u] = tab[u]
      /\ tab'[t].pending = None
      /\ \/ tab'[t] = Away
         \/ tab'[t].open = tab[t].open /\ tab'[t].generation = tab[t].generation
  BY <1>3 DEF TypeOK, Away
<1> QED
  BY <1>1, <1>2, <1>3, <1>4

\* What lies below the successor of a number is at most that number.
LEMMA BelowSuccessor ==
    \A low, previous, next \in Nat :
       next = previous + 1 /\ low <= next /\ low # next => low <= previous
OBVIOUS

\* What a tab may still take back stays above what others were told.
LEMMA PendingStep ==
    ASSUME TypeOK, OpenIsKnown, PendingIsSound, PendingAreOrdered, AckedWritesStay,
           [Next]_vars
    PROVE  PendingIsSound'
<1> USE NoneIsNoEntry DEF TypeOK, PendingIsSound, PendingAreOrdered, AckedWritesStay, OpenIsKnown, Known, Exists, Entry
<1>1. ASSUME NEW t \in Tab, NEW s \in Session, CreateSession(t, s)
      PROVE  PendingIsSound'
  BY <1>1, FirstEntryType DEF CreateSession, Insert, Put, Ack, TabEnds, Fault, Away, FirstEntry
<1>2. ASSUME NEW t \in Tab, NEW s \in Session, DeleteSession(t, s)
      PROVE  PendingIsSound'
  BY <1>2 DEF DeleteSession, Remove, Drop, TabEnds, Fault, Away
<1>3. ASSUME NEW t \in Tab, NEW s \in Session, OpenSession(t, s)
      PROVE  PendingIsSound'
  <2> SUFFICES ASSUME NEW u \in Tab, tab'[u].pending # None
               PROVE  /\ tab'[u].open # None
                      /\ tab'[u].pending.next.revision = tab'[u].pending.previous.revision + 1
                      /\ tab'[u].pending.next.generation = tab'[u].pending.previous.generation
                      /\ entry'[tab'[u].open] # None =>
                           /\ tab'[u].pending.next.revision <= entry'[tab'[u].open].revision
                           /\ tab'[u].pending.next.revision # acked'[tab'[u].open]
    OBVIOUS
  <2>1. PICK bytes \in Entry :
          /\ entry[s] \in Entry
          /\ bytes.revision = entry[s].revision + 1
          /\ bytes.generation = entry[s].generation + 1
          /\ \A other \in Tab \ {t} : tab'[other] = tab[other]
          /\ \/ tab'[t] \in {tab[t], Away}
             \/ /\ tab'[t] = [open |-> s, generation |-> bytes.generation, pending |-> None]
                /\ entry' = [entry EXCEPT ![s] = bytes]
          /\ \/ entry' = entry /\ acked' = acked
             \/ /\ entry' = [entry EXCEPT ![s] = bytes]
                /\ acked' \in {acked, [acked EXCEPT ![s] = bytes.revision]}
    BY <1>3, OpenEffect
  <2>2. tab'[u] = tab[u]
    BY <2>1 DEF Away
  <2>3. tab[u].open \in Session /\ tab[u].pending.next.revision \in Nat
    BY <2>2, PendingEntry
  <2> QED
    BY <2>1, <2>2, <2>3
<1>4. ASSUME NEW t \in Tab, Save(t)
      PROVE  PendingIsSound'
  <2> SUFFICES ASSUME NEW u \in Tab, tab'[u].pending # None
               PROVE  /\ tab'[u].open # None
                      /\ tab'[u].pending.next.revision = tab'[u].pending.previous.revision + 1
                      /\ tab'[u].pending.next.generation = tab'[u].pending.previous.generation
                      /\ entry'[tab'[u].open] # None =>
                           /\ tab'[u].pending.next.revision <= entry'[tab'[u].open].revision
                           /\ tab'[u].pending.next.revision # acked'[tab'[u].open]
    OBVIOUS
  <2>1. PICK bytes \in Entry :
          LET s == tab[t].open IN
          /\ s \in Session
          /\ entry[s] \in Entry
          /\ bytes.revision = entry[s].revision + 1
          /\ bytes.generation = entry[s].generation
          /\ tab' \in {tab, [tab EXCEPT ![t] = Away]}
          /\ \/ entry' = entry /\ acked' = acked
             \/ /\ entry' = [entry EXCEPT ![s] = bytes]
                /\ acked' \in {acked, [acked EXCEPT ![s] = bytes.revision]}
    BY <1>4, SaveEffect
  <2>2. tab'[u] = tab[u]
    BY <2>1 DEF Away
  <2>3. tab[u].open \in Session /\ tab[u].pending.next.revision \in Nat
    BY <2>2, PendingEntry
  <2> QED
    BY <2>1, <2>2, <2>3
<1>5. ASSUME NEW t \in Tab, SaveReversible(t)
      PROVE  PendingIsSound'
  BY <1>5, OpenEntry, SMTT(30) DEF SaveReversible, Put, Fault, Pending
<1>6. ASSUME NEW t \in Tab, Finalize(t)
      PROVE  PendingIsSound'
  BY <1>6, PendingEntry DEF Finalize, Ack
<1>7. ASSUME NEW t \in Tab, Rollback(t)
      PROVE  PendingIsSound'
  <2> SUFFICES ASSUME NEW u \in Tab, tab'[u].pending # None
               PROVE  /\ tab'[u].open # None
                      /\ tab'[u].pending.next.revision = tab'[u].pending.previous.revision + 1
                      /\ tab'[u].pending.next.generation = tab'[u].pending.previous.generation
                      /\ entry'[tab'[u].open] # None =>
                           /\ tab'[u].pending.next.revision <= entry'[tab'[u].open].revision
                           /\ tab'[u].pending.next.revision # acked'[tab'[u].open]
    OBVIOUS
  <2>1. /\ tab[t].pending # None /\ tab[t].open \in Session
        /\ tab[t].pending.previous \in Entry /\ tab[t].pending.next \in Entry
        /\ tab[t].pending.next.revision = tab[t].pending.previous.revision + 1
        /\ tab[t].pending.next.generation = tab[t].pending.previous.generation
        /\ acked' = acked
        /\ \A other \in Tab \ {t} : tab'[other] = tab[other]
        /\ tab'[t].pending = None
        /\ \/ tab'[t] = Away
           \/ tab'[t].open = tab[t].open /\ tab'[t].generation = tab[t].generation
    BY <1>7, RollbackEffect
  <2>2. \/ entry' = entry
        \/ /\ entry[tab[t].open] = tab[t].pending.next
           /\ entry' = [entry EXCEPT ![tab[t].open] = tab[t].pending.previous]
    BY <1>7, RollbackEffect
  <2>3. u # t /\ tab'[u] = tab[u]
    BY <2>1
  <2>4. tab[u].open \in Session /\ tab[u].pending.next.revision \in Nat
    BY <2>3, PendingEntry
  <2>5. CASE entry' = entry
    BY <2>1, <2>3, <2>4, <2>5
  <2>6. CASE /\ entry[tab[t].open] = tab[t].pending.next
             /\ entry' = [entry EXCEPT ![tab[t].open] = tab[t].pending.previous]
    <3>1. CASE tab[u].open = tab[t].open
      <4>1. tab[u].pending.next.revision # tab[t].pending.next.revision
        BY <2>1, <2>3, <2>6, <3>1
      <4>2. tab[u].pending.next.revision <= tab[t].pending.next.revision
        BY <2>1, <2>3, <2>6, <3>1
      <4>3. entry'[tab[u].open] = tab[t].pending.previous
        BY <2>1, <2>6, <3>1
      <4>4. tab[u].pending.next.revision # acked[tab[u].open]
        BY <2>1, <2>3, <2>6, <3>1
      <4>5. tab[t].pending.previous.revision \in Nat
        BY <2>1
      <4>6. tab[u].pending.next.revision <= tab[t].pending.previous.revision
        <5>1. /\ tab[t].pending.next.revision \in Nat
              /\ tab[t].pending.next.revision = tab[t].pending.previous.revision + 1
          BY <2>1
        <5> HIDE DEF TypeOK, PendingIsSound, PendingAreOrdered, AckedWritesStay, OpenIsKnown
        <5> QED
          BY <2>4, <4>1, <4>2, <4>5, <5>1, BelowSuccessor
      <4>7. /\ tab[u].open # None
            /\ tab[u].pending.next.revision = tab[u].pending.previous.revision + 1
            /\ tab[u].pending.next.generation = tab[u].pending.previous.generation
        BY <2>3
      <4> QED
        BY <2>1, <2>3, <4>3, <4>4, <4>6, <4>7
    <3>2. CASE tab[u].open # tab[t].open
      BY <2>1, <2>3, <2>4, <2>6, <3>2
    <3> QED
      BY <3>1, <3>2
  <2> QED
    BY <2>2, <2>5, <2>6
<1>8. ASSUME NEW t \in Tab, Leave(t)
      PROVE  PendingIsSound'
  BY <1>8 DEF Leave, Away
<1>9. ASSUME NEW t \in Tab, Crash(t)
      PROVE  PendingIsSound'
  BY <1>9 DEF Crash, TabEnds, Fault, Away
<1>10. CASE UNCHANGED vars
  BY <1>10 DEF vars
<1> QED
  BY <1>1, <1>2, <1>3, <1>4, <1>5, <1>6, <1>7, <1>8, <1>9, <1>10 DEF Next

\* A new reversible write lies on top of all the others.
LEMMA OrderStep ==
    ASSUME TypeOK, OpenIsKnown, PendingIsSound, PendingAreOrdered,
           [Next]_vars
    PROVE  PendingAreOrdered'
<1> USE NoneIsNoEntry DEF TypeOK, PendingIsSound, PendingAreOrdered, OpenIsKnown, Known, Exists, Entry
<1>1. ASSUME NEW t \in Tab, NEW s \in Session, CreateSession(t, s)
      PROVE  PendingAreOrdered'
  BY <1>1, FirstEntryType DEF CreateSession, Insert, Put, Ack, TabEnds, Fault, Away, FirstEntry
<1>2. ASSUME NEW t \in Tab, NEW s \in Session, DeleteSession(t, s)
      PROVE  PendingAreOrdered'
  BY <1>2 DEF DeleteSession, Remove, Drop, TabEnds, Fault, Away
<1>3. ASSUME NEW t \in Tab, NEW s \in Session, OpenSession(t, s)
      PROVE  PendingAreOrdered'
  <2>1. \A u \in Tab : tab'[u].pending # None => tab'[u] = tab[u]
    BY <1>3 DEF OpenSession, Swap, TabEnds, Away
  <2>2. \A r \in Session : entry'[r] # None => entry[r] # None
    BY <1>3, OpenedEntry DEF OpenSession, Swap, Put
  <2> QED
    BY <2>1, <2>2
<1>4. ASSUME NEW t \in Tab, Save(t)
      PROVE  PendingAreOrdered'
  <2>1. \A u \in Tab : tab'[u].pending # None => tab'[u] = tab[u]
    BY <1>4 DEF Save, Swap, TabEnds, Away
  <2>2. \A r \in Session : entry'[r] # None => entry[r] # None
    <3>1. tab[t].open \in Session /\ entry[tab[t].open] # None
      BY <1>4 DEF Save, Writable
    <3>2. \/ entry' = entry
          \/ entry' = [entry EXCEPT ![tab[t].open] =
                          Bump(tab[t].open, t, entry[tab[t].open].generation)]
      BY <1>4 DEF Save, Swap, Put
    <3> QED
      BY <3>1, <3>2
  <2> QED
    BY <2>1, <2>2
<1>5. ASSUME NEW t \in Tab, SaveReversible(t)
      PROVE  PendingAreOrdered'
  BY <1>5, OpenEntry, SMTT(30) DEF SaveReversible, Put, Fault, Pending
<1>6. ASSUME NEW t \in Tab, Finalize(t)
      PROVE  PendingAreOrdered'
  BY <1>6, PendingEntry DEF Finalize, Ack
<1>7. ASSUME NEW t \in Tab, Rollback(t)
      PROVE  PendingAreOrdered'
  BY <1>7, PendingEntry DEF Rollback, Restorable, Put, TabEnds, Fault, Away
<1>8. ASSUME NEW t \in Tab, Leave(t)
      PROVE  PendingAreOrdered'
  BY <1>8 DEF Leave, Away
<1>9. ASSUME NEW t \in Tab, Crash(t)
      PROVE  PendingAreOrdered'
  BY <1>9 DEF Crash, TabEnds, Fault, Away
<1>10. CASE UNCHANGED vars
  BY <1>10 DEF vars
<1> QED
  BY <1>1, <1>2, <1>3, <1>4, <1>5, <1>6, <1>7, <1>8, <1>9, <1>10 DEF Next

\* What a writer was told is final stays.
LEMMA AckedStep ==
    ASSUME TypeOK, OpenIsKnown, PendingIsSound, AckedWritesStay,
           [Next]_vars
    PROVE  AckedWritesStay'
<1> USE NoneIsNoEntry DEF TypeOK, PendingIsSound, OpenIsKnown, Known, AckedWritesStay, Exists, Entry
<1>1. ASSUME NEW t \in Tab, NEW s \in Session, CreateSession(t, s)
      PROVE  AckedWritesStay'
  <2>1. FirstEntry(t) \in Entry /\ FirstEntry(t).revision = 1
    BY FirstEntryType DEF FirstEntry
  <2>2. entry[s] = None
    BY <1>1 DEF CreateSession
  <2>3. \/ entry' = [entry EXCEPT ![s] = FirstEntry(t)] /\ Ack(s, 1)
        \/ entry' \in {entry, [entry EXCEPT ![s] = FirstEntry(t)]} /\ acked' = acked
    BY <1>1 DEF CreateSession, Insert, Put
  <2>4. acked[s] = 0
    BY <1>1, <2>2 DEF CreateSession
  <2> QED
    BY <2>1, <2>2, <2>3, <2>4 DEF Ack
<1>2. ASSUME NEW t \in Tab, NEW s \in Session, DeleteSession(t, s)
      PROVE  AckedWritesStay'
  BY <1>2 DEF DeleteSession, Remove, Drop, TabEnds, Fault, Away
<1>3. ASSUME NEW t \in Tab, NEW s \in Session, OpenSession(t, s)
      PROVE  AckedWritesStay'
  <2>1. PICK bytes \in Entry :
          /\ entry[s] \in Entry
          /\ bytes.revision = entry[s].revision + 1
          /\ bytes.generation = entry[s].generation + 1
          /\ \A u \in Tab \ {t} : tab'[u] = tab[u]
          /\ \/ tab'[t] \in {tab[t], Away}
             \/ /\ tab'[t] = [open |-> s, generation |-> bytes.generation, pending |-> None]
                /\ entry' = [entry EXCEPT ![s] = bytes]
          /\ \/ entry' = entry /\ acked' = acked
             \/ /\ entry' = [entry EXCEPT ![s] = bytes]
                /\ acked' \in {acked, [acked EXCEPT ![s] = bytes.revision]}
    BY <1>3, OpenEffect
  <2> QED
    BY <2>1
<1>4. ASSUME NEW t \in Tab, Save(t)
      PROVE  AckedWritesStay'
  BY <1>4, SaveEffect
<1>5. ASSUME NEW t \in Tab, SaveReversible(t)
      PROVE  AckedWritesStay'
  BY <1>5, OpenEntry DEF SaveReversible, Put, Fault, Pending
<1>6. ASSUME NEW t \in Tab, Finalize(t)
      PROVE  AckedWritesStay'
  BY <1>6, PendingEntry DEF Finalize, Ack
<1>7. ASSUME NEW t \in Tab, Rollback(t)
      PROVE  AckedWritesStay'
  <2>1. /\ tab[t].pending # None /\ tab[t].open \in Session
        /\ tab[t].pending.previous \in Entry /\ tab[t].pending.next \in Entry
        /\ tab[t].pending.next.revision = tab[t].pending.previous.revision + 1
        /\ tab[t].pending.next.generation = tab[t].pending.previous.generation
        /\ acked' = acked
        /\ \A u \in Tab \ {t} : tab'[u] = tab[u]
        /\ tab'[t].pending = None
        /\ \/ tab'[t] = Away
           \/ tab'[t].open = tab[t].open /\ tab'[t].generation = tab[t].generation
    BY <1>7, RollbackEffect
  <2>2. \/ entry' = entry
        \/ /\ entry[tab[t].open] = tab[t].pending.next
           /\ entry' = [entry EXCEPT ![tab[t].open] = tab[t].pending.previous]
    BY <1>7, RollbackEffect
  <2>3. ASSUME entry[tab[t].open] = tab[t].pending.next
        PROVE  acked[tab[t].open] <= tab[t].pending.previous.revision
    <3>1. /\ acked[tab[t].open] \in Nat
          /\ tab[t].pending.previous.revision \in Nat
      BY <2>1
    <3>2. /\ acked[tab[t].open] <= tab[t].pending.next.revision
          /\ acked[tab[t].open] # tab[t].pending.next.revision
      BY <2>1, <2>3
    <3>3. /\ tab[t].pending.next.revision \in Nat
          /\ tab[t].pending.next.revision = tab[t].pending.previous.revision + 1
      BY <2>1
    <3> HIDE DEF TypeOK, PendingIsSound, AckedWritesStay, OpenIsKnown
    <3> QED
      BY <3>1, <3>2, <3>3, BelowSuccessor
  <2> QED
    BY <2>1, <2>2, <2>3
<1>8. ASSUME NEW t \in Tab, Leave(t)
      PROVE  AckedWritesStay'
  BY <1>8 DEF Leave, Away
<1>9. ASSUME NEW t \in Tab, Crash(t)
      PROVE  AckedWritesStay'
  BY <1>9 DEF Crash, TabEnds, Fault, Away
<1>10. CASE UNCHANGED vars
  BY <1>10 DEF vars
<1> QED
  BY <1>1, <1>2, <1>3, <1>4, <1>5, <1>6, <1>7, <1>8, <1>9, <1>10 DEF Next

\* Only an activation changes a generation, and it takes the next one.
LEMMA GenerationStep ==
    ASSUME TypeOK, OpenIsKnown, PendingIsSound, AckedWritesStay, GenerationsDistinct,
           [Next]_vars
    PROVE  GenerationsDistinct'
<1> USE NoneIsNoEntry DEF TypeOK, PendingIsSound, GenerationsDistinct, OpenIsKnown, Known, Exists, Entry
<1>1. ASSUME NEW t \in Tab, NEW s \in Session, CreateSession(t, s)
      PROVE  GenerationsDistinct'
  <2>1. FirstEntry(t) \in Entry /\ FirstEntry(t).generation = 0
    BY FirstEntryType DEF FirstEntry
  <2>2. \A u \in Tab : tab'[u] = tab[u] \/ tab'[u].open = None
    BY <1>1 DEF CreateSession, Insert, TabEnds, Away
  <2>3. \A u \in Tab : tab[u].open # s
    BY <1>1 DEF CreateSession
  <2>4. \A r \in Session \ {s} : entry'[r] = entry[r]
    BY <1>1 DEF CreateSession, Insert, Put
  <2> QED
    BY <2>1, <2>2, <2>3, <2>4
<1>2. ASSUME NEW t \in Tab, NEW s \in Session, DeleteSession(t, s)
      PROVE  GenerationsDistinct'
  BY <1>2 DEF DeleteSession, Remove, Drop, TabEnds, Fault, Away
<1>3. ASSUME NEW t \in Tab, NEW s \in Session, OpenSession(t, s)
      PROVE  GenerationsDistinct'
  <2>1. PICK bytes \in Entry :
          /\ entry[s] \in Entry
          /\ bytes.revision = entry[s].revision + 1
          /\ bytes.generation = entry[s].generation + 1
          /\ \A u \in Tab \ {t} : tab'[u] = tab[u]
          /\ \/ tab'[t] \in {tab[t], Away}
             \/ /\ tab'[t] = [open |-> s, generation |-> bytes.generation, pending |-> None]
                /\ entry' = [entry EXCEPT ![s] = bytes]
          /\ \/ entry' = entry /\ acked' = acked
             \/ /\ entry' = [entry EXCEPT ![s] = bytes]
                /\ acked' \in {acked, [acked EXCEPT ![s] = bytes.revision]}
    BY <1>3, OpenEffect
  <2>2. entry[s].generation \in Nat /\ entry[s] # None
    BY <2>1
  <2>3. \A u \in Tab : tab[u].open = s => tab[u].generation <= entry[s].generation
    BY <2>2
  <2>4. \A u \in Tab : \/ tab'[u] \in {tab[u], Away}
                       \/ u = t /\ tab'[u].open = s /\ tab'[u].generation = bytes.generation
                          /\ entry' = [entry EXCEPT ![s] = bytes]
    BY <2>1
  <2> HIDE DEF Entry
  <2>5. bytes.generation > entry[s].generation
    BY <2>1, <2>2
  <2> QED
    BY <2>1, <2>2, <2>3, <2>4, <2>5 DEF Away
<1>4. ASSUME NEW t \in Tab, Save(t)
      PROVE  GenerationsDistinct'
  <2>1. PICK bytes \in Entry :
          LET s == tab[t].open IN
          /\ s \in Session
          /\ entry[s] \in Entry
          /\ bytes.generation = entry[s].generation
          /\ tab' \in {tab, [tab EXCEPT ![t] = Away]}
          /\ entry' = entry \/ entry' = [entry EXCEPT ![s] = bytes]
    BY <1>4, SaveEffect
  <2>2. \A u \in Tab : tab'[u] = tab[u] \/ tab'[u].open = None
    BY <2>1 DEF Away
  <2>3. \A r \in Session : /\ entry'[r] # None => entry[r] # None
                           /\ entry'[r] # None => entry'[r].generation = entry[r].generation
    BY <2>1
  <2> QED
    BY <2>2, <2>3
<1>5. ASSUME NEW t \in Tab, SaveReversible(t)
      PROVE  GenerationsDistinct'
  <2>1. \A u \in Tab : tab'[u].open = tab[u].open /\ tab'[u].generation = tab[u].generation
    BY <1>5 DEF SaveReversible
  <2>2. tab[t].open \in Session /\ entry[tab[t].open] \in Entry
    BY <1>5, OpenEntry DEF SaveReversible
  <2>3. \/ entry' = entry
        \/ \E bytes \in Entry : /\ bytes.generation = entry[tab[t].open].generation
                                /\ entry' = [entry EXCEPT ![tab[t].open] = bytes]
    BY <1>5, OpenEntry DEF SaveReversible, Put
  <2>4. \A u \in Tab : LET r == tab[u].open IN
          r # None => /\ r \in Session
                      /\ entry'[r] # None => entry[r] # None
                      /\ entry'[r] # None => entry'[r].generation = entry[r].generation
    BY <2>2, <2>3
  <2> QED
    BY <2>1, <2>4
<1>6. ASSUME NEW t \in Tab, Finalize(t)
      PROVE  GenerationsDistinct'
  BY <1>6, PendingEntry DEF Finalize, Ack
<1>7. ASSUME NEW t \in Tab, Rollback(t)
      PROVE  GenerationsDistinct'
  <2>1. /\ tab[t].pending # None /\ tab[t].open \in Session
        /\ tab[t].pending.previous \in Entry /\ tab[t].pending.next \in Entry
        /\ tab[t].pending.next.revision = tab[t].pending.previous.revision + 1
        /\ tab[t].pending.next.generation = tab[t].pending.previous.generation
        /\ acked' = acked
        /\ \A u \in Tab \ {t} : tab'[u] = tab[u]
        /\ tab'[t].pending = None
        /\ \/ tab'[t] = Away
           \/ tab'[t].open = tab[t].open /\ tab'[t].generation = tab[t].generation
    BY <1>7, RollbackEffect
  <2>2. \/ entry' = entry
        \/ /\ entry[tab[t].open] = tab[t].pending.next
           /\ entry' = [entry EXCEPT ![tab[t].open] = tab[t].pending.previous]
    BY <1>7, RollbackEffect
  <2>3. \A u \in Tab : LET r == tab[u].open IN
          r # None => /\ r \in Session
                      /\ entry'[r] # None => entry[r] # None
                      /\ entry'[r] # None => entry'[r].generation = entry[r].generation
    BY <2>1, <2>2
  <2> QED
    BY <2>1, <2>3 DEF Away
<1>8. ASSUME NEW t \in Tab, Leave(t)
      PROVE  GenerationsDistinct'
  BY <1>8 DEF Leave, Away
<1>9. ASSUME NEW t \in Tab, Crash(t)
      PROVE  GenerationsDistinct'
  BY <1>9 DEF Crash, TabEnds, Fault, Away
<1>10. CASE UNCHANGED vars
  BY <1>10 DEF vars
<1> QED
  BY <1>1, <1>2, <1>3, <1>4, <1>5, <1>6, <1>7, <1>8, <1>9, <1>10 DEF Next

\* The invariant holds in every reachable state.
THEOREM RecordsAlways == Spec => []RecordsInv
<1>1. RecordsInv /\ [Next]_vars => RecordsInv'
  BY TypeStep, PresenceStep, PendingStep, OrderStep, AckedStep, GenerationStep DEF RecordsInv
<1> QED
  BY <1>1, RecordsInit, PTL DEF Spec

\* Every variable keeps its type, for any tabs, Sessions and bounds.
THEOREM RecordTypes == Spec => []TypeOK
BY RecordsAlways, PTL DEF RecordsInv

\* The list of Sessions always loads: whatever insert() and remove() leave
\* unfinished, an indexed Session has its record
\* (session-repository.js:144-191).
THEOREM ListAlwaysLoads == Spec => []IndexedSessionsLoad
BY RecordsAlways, PTL DEF RecordsInv

\* No number of tabs that save, take back and crash brings a deleted Session
\* back (session-repository.js:109-138, reversible-session-write.js:55-84).
THEOREM DeletionIsFinal == Spec => []DeletedStaysDeleted
BY RecordsAlways, PTL DEF RecordsInv

\* No rollback takes a record below a revision whose writer was told it is
\* final (reversible-session-write.js:55-84).
THEOREM AcknowledgedWritesStay == Spec => []AckedWritesStay
BY RecordsAlways, PTL DEF RecordsInv

\* Activations of one Session never share a generation
\* (session-store.js:128-141).
THEOREM ActivationsAreDistinct == Spec => []GenerationsDistinct
BY RecordsAlways, PTL DEF RecordsInv
=============================================================================
