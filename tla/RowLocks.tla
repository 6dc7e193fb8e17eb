------------------------------ MODULE RowLocks ------------------------------
(***************************************************************************)
(* Postgres row locks as the transactions of this service meet them: each  *)
(* transaction asks for rows one at a time (need), waits while another     *)
(* holds a conflicting lock, and keeps what it was granted (held) until it *)
(* ends.  Betting and Sessions instantiate this module with their own      *)
(* workers and transaction records.                                        *)
(***************************************************************************)
EXTENDS Sequences, SequencesExt

CONSTANT Workers     \* whoever can have a transaction open
VARIABLE trx         \* the transaction of each worker

Shared(row) == [row |-> row, mode |-> "SHARE"]
Exclusive(row) == [row |-> row, mode |-> "UPDATE"]

Conflict(l, m) == l.row = m.row /\ (l.mode = "UPDATE" \/ m.mode = "UPDATE")

Blockers(p) ==
  IF trx[p].need = <<>> THEN {}
  ELSE {q \in Workers \ {p} :
          \E l \in trx[q].held : Conflict(l, Head(trx[p].need))}

\* p waits, through whatever chain of transactions, for itself: it is in every
\* set of workers that holds its blockers and the blockers of its members.
InWaitCycle(p) ==
  \A S \in SUBSET Workers :
    (Blockers(p) \subseteq S /\ \A q \in S : Blockers(q) \subseteq S) => p \in S

\* p has every lock it asked for and runs its next statement.
Ready(p, pc) == trx[p].pc = pc /\ trx[p].need = <<>>

\* p asks for these locks, in this order, before it goes on at pc.
GoOn(p, pc, locks) == trx' = [trx EXCEPT ![p].pc = pc, ![p].need = locks]

\* p is granted the lock it waits for.
Granted(p) ==
  /\ trx[p].need # <<>>
  /\ Blockers(p) = {}
  /\ trx' = [trx EXCEPT ![p].need = Tail(@),
                        ![p].held = @ \cup {Head(trx[p].need)}]

\* The locks p does not hold yet, each once, in the order they are first asked.
Missing(p, locks) ==
  FoldLeft(LAMBDA rows, l : IF l \in trx[p].held \cup ToSet(rows)
                              THEN rows ELSE Append(rows, l),
           <<>>, locks)

=============================================================================
