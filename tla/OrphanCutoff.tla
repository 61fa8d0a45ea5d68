---------------------------- MODULE OrphanCutoff ----------------------------
(***************************************************************************)
(* When the orphan cleanup calls a row or a motion state old.  Times are   *)
(* minutes since the last local midnight.  The repositories subtract the   *)
(* timeout, in hours and with its fraction, from the hour of a Date; the   *)
(* cleanup of motion states subtracts it from the instant.  In module      *)
(* Persistence a row may grow old at any time, so that all it shows holds  *)
(* with this cutoff.                                                       *)
(***************************************************************************)
EXTENDS Integers, TLAPS

Hours   == 0..23
Minutes == 0..59

Now(hour, minute) == 60 * hour + minute

\* Date.setHours drops the fraction of its argument towards zero.
Truncated(minutes) == IF minutes >= 0 THEN minutes \div 60 ELSE -((-minutes) \div 60)

\* findOrphanTrips, findOrphanStops: setHours(getHours() - timeout), which leaves
\* the minutes of the hour alone.
RowCutoff(hour, minute, timeout) == 60 * Truncated(60 * hour - timeout) + minute

\* cleanupOrphanRedisStates
StateCutoff(hour, minute, timeout) == Now(hour, minute) - timeout

-----------------------------------------------------------------------------

\* A row and the motion state of its device, equally old, are judged alike but
\* for less than an hour, whatever the timeout and the time of the day.
THEOREM CutoffsDifferByLessThanAnHour ==
  ASSUME NEW hour \in Hours, NEW minute \in Minutes, NEW timeout \in Nat
  PROVE  /\ StateCutoff(hour, minute, timeout) - RowCutoff(hour, minute, timeout) < 60
         /\ RowCutoff(hour, minute, timeout) - StateCutoff(hour, minute, timeout) < 60
BY DEF StateCutoff, RowCutoff, Now, Truncated, Hours, Minutes

\* The two cutoffs agree when the timeout is a number of whole hours, as the four
\* hours it once was, also across midnight.
THEOREM WholeHoursAgree ==
  ASSUME NEW hour \in Hours, NEW minute \in Minutes, NEW n \in Nat
  PROVE  RowCutoff(hour, minute, 60 * n) = StateCutoff(hour, minute, 60 * n)
BY DEF StateCutoff, RowCutoff, Now, Truncated, Hours, Minutes

\* With a fraction of an hour, the thirty minutes of DEFAULT_THRESHOLDS among
\* them, a row is given a full hour, and in the hour after midnight no time at
\* all: every active row not refreshed in this instant counts as an orphan.
THEOREM FractionsAreNotKept ==
  ASSUME NEW hour \in Hours, NEW minute \in Minutes, NEW timeout \in 1..59
  PROVE  RowCutoff(hour, minute, timeout)
           = IF hour = 0 THEN Now(hour, minute) ELSE Now(hour, minute) - 60
BY DEF RowCutoff, Now, Truncated, Hours, Minutes

=============================================================================
