---------------------------- MODULE SharedHistory ----------------------------
(***************************************************************************)
(* What the state service promises to the devices of one user: the         *)
(* snapshots form one line, and only a device that has seen the last       *)
(* snapshot can replace it.  There is no last-write-wins and no merge      *)
(* behind a device's back.  StateSync implements this specification.       *)
(***************************************************************************)
EXTENDS Naturals, Sequences

CONSTANTS Device,  \* devices of one user
          Content  \* what a snapshot may hold

VARIABLES history,  \* the snapshots, in the order they were accepted
          seen      \* seen[d]: revisions some response has shown device d

vars == <<history, seen>>

Init == history = <<>> /\ seen = [d \in Device |-> {}]

\* An answer may arrive long after the server gave it.
Read(d) == /\ \E r \in 0..Len(history) : seen' = [seen EXCEPT ![d] = @ \union {r}]
           /\ UNCHANGED history

\* Revision 0 is the empty snapshot, which nobody has to see.
Replace(d) == /\ Len(history) \in seen[d] \union {0}
              /\ \E c \in Content : history' = Append(history, c)
              /\ UNCHANGED seen

Next == \E d \in Device : Read(d) \/ Replace(d)

Spec == Init /\ [][Next]_vars
=============================================================================
