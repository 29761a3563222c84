------------------------- MODULE BoundedReservation -------------------------
(***************************************************************************)
(* What a call that secures resources "between start_time and start_time   *)
(* + time_window" promises its caller, whatever happens underneath:        *)
(*   - the right edge of the interval is fixed when the call is made;      *)
(*   - every new round looks strictly later than the one before, and a new *)
(*     round starts only while the interval is not empty;                  *)
(*   - a granted date lies in the interval that is left.                   *)
(* So a call makes at most hi - lo + 2 rounds.  Providers implements it.   *)
(***************************************************************************)
EXTENDS Integers

CONSTANT NoDate    \* granted without a date: everything existed already

VARIABLES
  phase,  \* "closed", "open", "granted", "refused" or "aborted"
  lo,     \* first date still considered
  hi,     \* last date considered
  date    \* the date granted by the last call

vars == <<phase, lo, hi, date>>

Init ==
  /\ phase = "closed"
  /\ lo = 0
  /\ hi = 0
  /\ date = NoDate

\* A caller opens a non-empty interval.
Open ==
  /\ phase # "open"
  /\ phase' = "open"
  /\ lo' \in Nat
  /\ hi' \in Nat
  /\ lo' <= hi'
  /\ date' = NoDate

\* The round failed: the left edge moves, the right edge stays.
Narrow ==
  /\ phase = "open"
  /\ lo <= hi
  /\ lo' \in Nat
  /\ lo' > lo
  /\ UNCHANGED <<phase, hi, date>>

\* A date of the interval, or no date when there was nothing to reserve.
Grant ==
  /\ phase = "open"
  /\ phase' = "granted"
  /\ date' \in (lo .. hi) \cup {NoDate}
  /\ UNCHANGED <<lo, hi>>

\* No date is left, an unexpected error or the death of the caller.
GiveUp ==
  /\ phase = "open"
  /\ phase' \in {"refused", "aborted"}
  /\ UNCHANGED <<lo, hi, date>>

Next == Open \/ Narrow \/ Grant \/ GiveUp

Spec == Init /\ [][Next]_vars
=============================================================================
