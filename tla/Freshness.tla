----------------------------- MODULE Freshness -----------------------------
(***************************************************************************)
(* The freshness test that every signed request goes through.  The same    *)
(* few lines occur three times in the code: on a check-in request          *)
(* (checkin_service.cpp), on a ticket request (checkin_service.cpp) and on *)
(* a voter-ID request (voter_id_service.cpp).  Both timestamps are         *)
(* uint64_t milliseconds, their difference is stored in an int64_t, and    *)
(* std::abs of that is compared with the configured uint32_t interval.     *)
(*                                                                         *)
(* HALF stands for 2^63, so that the wrap of the conversion and the one    *)
(* argument std::abs has no result for (INT64_MIN, undefined behaviour)    *)
(* are part of the model and TLC can still enumerate the whole type.       *)
(***************************************************************************)
EXTENDS Integers

CONSTANTS HALF,                        \* 2^63
          REQUEST_FRESHNESS_INTERVAL   \* a uint32_t, in milliseconds

ASSUME FreshnessAssumption ==
  /\ HALF \in Nat \ {0}
  /\ REQUEST_FRESHNESS_INTERVAL \in Nat
  /\ REQUEST_FRESHNESS_INTERVAL < HALF

UInt64 == 0 .. 2 * HALF - 1

\* The conditional expression: the larger value minus the smaller, unsigned.
UnsignedDifference(current, ts) ==
  IF current > ts THEN current - ts ELSE ts - current

\* The implicit conversion of that uint64_t to the int64_t it initialises.
AsInt64(n) == IF n < HALF THEN n ELSE n - 2 * HALF

\* std::abs on an int64_t.  For INT64_MIN the behaviour is undefined: builds
\* return INT64_MIN itself, or compare as if the true magnitude was returned.
AbsOutcomes(d) ==
  IF d = -HALF THEN {-HALF, HALF} ELSE {IF d < 0 THEN -d ELSE d}

Magnitudes(current, ts) == AbsOutcomes(AsInt64(UnsignedDifference(current, ts)))

\* Mutants of MayBeFresh: only the age is tested, so the future is always
\* fresh; and the comparison is strict.
MayBeFreshOneSided(current, ts) == current - ts <= REQUEST_FRESHNESS_INTERVAL
MayBeFreshStrict(current, ts) ==
  \E a \in Magnitudes(current, ts) : a < REQUEST_FRESHNESS_INTERVAL

\* The two outcomes of the comparison with the interval.  For all but one
\* difference exactly one of them is possible.
MayBeFresh(current, ts) ==
  \E a \in Magnitudes(current, ts) : a <= REQUEST_FRESHNESS_INTERVAL
MayBeStale(current, ts) ==
  \E a \in Magnitudes(current, ts) : a > REQUEST_FRESHNESS_INTERVAL

----------------------------------------------------------------------------
(* What the test is for, independent of machine integers. *)

Within(current, ts) ==
  /\ current - ts <= REQUEST_FRESHNESS_INTERVAL
  /\ ts - current <= REQUEST_FRESHNESS_INTERVAL

\* A clock the service can show: past the first interval after the epoch, and
\* before the sign bit (milliseconds since 1970 use 41 of the 63 bits).
PlausibleClock == REQUEST_FRESHNESS_INTERVAL + 1 .. HALF - 1

\* On a plausible clock the machine test gives exactly one answer and it is the
\* intended one, except for the one timestamp whose distance is 2^63.
FreshCorrect(current, ts) ==
  ts # current + HALF =>
    /\ MayBeFresh(current, ts) <=> Within(current, ts)
    /\ MayBeStale(current, ts) <=> ~Within(current, ts)
=============================================================================
