---------------------------- MODULE RemoteClock ----------------------------
(***************************************************************************)
(* internal/datastore/revisions/remoteclock.go: revisions of a datastore   *)
(* that dates its transactions with a clock of its own.                    *)
(***************************************************************************)
EXTENDS Integers, Sequences, FiniteSets

CONSTANTS
  Window,        \* the garbage collection window
  MaxStaleness,  \* the configured maximum staleness
  Delay,         \* followerReadDelayNanos
  Quantum,       \* quantizationNanos, 0 for none
  MaxTime        \* bound: the clock

ASSUME ClockAssumption ==
  /\ Window \in Nat /\ MaxStaleness \in Nat /\ Delay \in Nat
  /\ Quantum \in Nat /\ MaxTime \in Nat \ {0}

VARIABLE time  \* the datastore's clock

\* NewRemoteClockRevisions: never more than the window.
maxRevisionStaleness == IF MaxStaleness > Window THEN Window - 1 ELSE MaxStaleness

AfterLastQuantization(now) == IF Quantum > 0 THEN (now - Delay) % Quantum ELSE 0

\* optimizedRevisionFunc, when nowFunc returns now.
optimizedRevision(now) == (now - Delay) - AfterLastQuantization(now)

validFor(now) == IF Quantum > 0 THEN Quantum - AfterLastQuantization(now) ELSE 0

CheckRevision(revision) ==
  CASE revision < time - Window -> "stale"
    [] revision > time          -> "unknown"
    [] OTHER                    -> "ok"
=============================================================================
