------------------------------ MODULE ChangeLog ------------------------------
(***************************************************************************)
(* What Changes promises to who tracks changes by revision: each revision  *)
(* nets out to one change of each thing, whatever the order its changes    *)
(* come in, and taking the changes before a bound takes them all, in the   *)
(* order of revisions, at once and once only.                              *)
(***************************************************************************)
EXTENDS Naturals, Sequences, FiniteSets

CONSTANTS
  Revisions,  \* what changes are tracked at
  Bounds,     \* the revisions that may be asked for
  First,      \* one of them, from before all changes
  Precedes(_, _),  \* the order of revisions and bounds
  Relevant    \* the changes of things a watcher asked for: [op, item] records

VARIABLES
  log,      \* the changes tracked of each revision
  bound,    \* changes before it have been taken, or are being taken
  changes   \* the changes taken, revision by revision

logVars == <<log, bound, changes>>

\* A thing both touched and deleted at one revision was touched.
Net(rev, added) ==
  LET of(op) == {c.item : c \in {d \in added : d.op = op}}
  IN [revision |-> rev, touched |-> of("touch"), deleted |-> of("delete") \ of("touch"),
      metadatas |-> of("metadata")]

InOrder(revs) ==
  {s \in [1..Cardinality(revs) -> revs] : \A i, j \in DOMAIN s : i < j => Precedes(s[i], s[j])}

\* Changes come at revisions that have not been asked for.
Add(rev, c) ==
  /\ ~Precedes(rev, bound)
  /\ log' = [log EXCEPT ![rev] = @ \cup {c}]
  /\ UNCHANGED <<bound, changes>>

AskBefore ==
  /\ bound' \in Bounds
  /\ ~Precedes(bound', bound)
  /\ UNCHANGED <<log, changes>>

Taken == {r \in Revisions : Precedes(r, bound) /\ log[r] # {}}

Take ==
  /\ log' = [r \in Revisions |-> IF r \in Taken THEN {} ELSE log[r]]
  /\ \E revs \in InOrder(Taken) :
       changes' = changes \o [i \in DOMAIN revs |-> Net(revs[i], log[revs[i]])]
  /\ UNCHANGED bound

Init ==
  /\ log = [r \in Revisions |-> {}]
  /\ bound = First
  /\ changes = <<>>

Next ==
  \/ \E rev \in Revisions, c \in Relevant : Add(rev, c)
  \/ AskBefore
  \/ Take

Spec == Init /\ [][Next]_logVars
=============================================================================
