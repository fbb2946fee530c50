---------------------------- MODULE SerialStore ----------------------------
(***************************************************************************)
(* What ReadWriteTx promises: transactions that take effect one at a time, *)
(* each at a single moment, and a revision handed out at that moment.      *)
(* A transaction is described by what it read before writing and by its    *)
(* net changes; the store knows nothing of locks, retries or snapshots.    *)
(***************************************************************************)
EXTENDS Naturals, Sequences

CONSTANTS Keys, Cells, Absent, Untouched

VARIABLES
  store,   \* the rows
  log,     \* the transactions that took effect, in order
  serving, \* the store has not been closed
  acked    \* revisions handed out, each with the number of the state it names

storeVars == <<store, log, serving, acked>>

Init ==
  /\ store = [k \in Keys |-> Absent]
  /\ log = <<>>
  /\ serving = TRUE
  /\ acked = {}

\* A transaction whose reads still hold changes the rows it names, no others.
TakesEffect ==
  /\ Len(log') = Len(log) + 1
  /\ \A i \in DOMAIN log : log'[i] = log[i]
  /\ LET t == log'[Len(log')]
     IN  /\ \A k \in Keys : t.reads[k] \in {Untouched, store[k]}
         /\ store' = [k \in Keys |->
                        IF t.changes[k] = Untouched THEN store[k] ELSE t.changes[k]]

\* A new acknowledgement names the state the store is in from now on.
NamesNewState(a) == a.root = Len(log') + 1

Commit ==
  /\ serving
  /\ TakesEffect
  /\ \E a \in acked' : /\ NamesNewState(a)
                       /\ a.revision = log'[Len(log')].revision
                       /\ acked' = acked \cup {a}
  /\ UNCHANGED serving

\* A transaction that did nothing is acknowledged too.
CommitNothing ==
  /\ serving
  /\ \E a \in acked' : NamesNewState(a) /\ acked' = acked \cup {a}
  /\ UNCHANGED <<store, log, serving>>

\* Closed under the transaction: it takes effect and its caller gets an error.
CommitUnanswered ==
  /\ ~serving
  /\ TakesEffect
  /\ UNCHANGED <<serving, acked>>

Close ==
  /\ serving' = FALSE
  /\ UNCHANGED <<store, log, acked>>

Next == Commit \/ CommitNothing \/ CommitUnanswered \/ Close

Spec == Init /\ [][Next]_storeVars
=============================================================================
