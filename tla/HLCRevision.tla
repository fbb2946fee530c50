----------------------------- MODULE HLCRevision -----------------------------
(***************************************************************************)
(* internal/datastore/revisions/hlcrevision.go: revisions of a hybrid      *)
(* logical clock. A decimal is the text of one: its timestamp, and its     *)
(* fraction read as the ten digits it is padded to.                        *)
(***************************************************************************)
EXTENDS Integers

CONSTANTS
  Width,   \* how many values a uint32 has
  Offset   \* logicalClockOffset: what uint32() makes of 10^11, which none has

\* 10^11 is out of range: what it is converted to depends on the processor.
ASSUME WidthAssumption == Width \in Nat \ {0} /\ Offset \in 0..(Width - 1)

Decimal == [time : Nat, logical : Nat]
HLC == [time : Nat, logicalclock : 0..(Width - 1)]

\* What parsing refuses of the decimals with ten digits.
Refused(d) == d.logical >= Width

HLCRevisionFromString(d) ==
  [time |-> d.time, logicalclock |-> (d.logical + Offset) % Width]

NewHLCForTime(time) == [time |-> time, logicalclock |-> Offset]

\* A negative logical clock has no ten digits: the call panics on it, or gives
\* what cannot be parsed.
String(hlc) == [time |-> hlc.time, logical |-> hlc.logicalclock - Offset]

HLCKeyLessThanFunc(lhs, rhs) ==
  \/ lhs.time < rhs.time
  \/ lhs.time = rhs.time /\ lhs.logicalclock < rhs.logicalclock

GreaterThan(hlc, rhs) ==
  \/ hlc.time > rhs.time
  \/ hlc.time = rhs.time /\ hlc.logicalclock > rhs.logicalclock

\* The order of decimals, and those whose logical clock does not wrap.
Precedes(c, d) == c.time < d.time \/ (c.time = d.time /\ c.logical < d.logical)
Fits(d) == d.logical + Offset < Width
=============================================================================
