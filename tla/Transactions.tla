---------------------------- MODULE Transactions ----------------------------
(***************************************************************************)
(* The identities and values every module of the prepared-commit           *)
(* transaction speaks about.                                               *)
(***************************************************************************)
EXTENDS Naturals, FiniteSets

CONSTANTS Tx,     \* transaction identities of one Session activation
          NoTx    \* no transaction: the identity of the initial snapshot

ASSUME TransactionsAssumption == NoTx \notin Tx /\ IsFiniteSet(Tx)

Names == Tx \union {NoTx}

\* A semantic workspace value, and the checkpoint that serializes it: the
\* transaction it was accepted from, and how many of the user's local viewport
\* edits it contains.
Values == [tx : Names, edits : Nat]
InitialValue == [tx |-> NoTx, edits |-> 0]
=============================================================================
