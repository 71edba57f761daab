-------------------------- MODULE ThrPrgrValProofs ---------------------------
(***************************************************************************)
(* Comparison of thread progress values, for every width of the counter:   *)
(* what erts_thr_progress_has_reached_this() answers is right as long as a *)
(* value is not kept for more than a quarter of the range.                 *)
(***************************************************************************)
EXTENDS ThrPrgrVal, TLAPS

\* The value after n steps of progress.
Advance(val, n) ==
  IF val + n < ERTS_THR_PRGR_VAL_WAITING THEN val + n ELSE val + n - ERTS_THR_PRGR_VAL_WAITING

\* A step of progress is Inc: the reserved value is left out.
LEMMA AdvanceByInc ==
  ASSUME NEW val \in ProgressVal, NEW n \in 0 .. 4 * Quarter - 3
  PROVE  Advance(val, n + 1) = Inc(Advance(val, n)) /\ Advance(val, n) \in ProgressVal
BY QuarterAssumption DEF Advance, Inc, ProgressVal, ERTS_THR_PRGR_VAL_WAITING

\* current_to_later() is two steps of progress ahead.
LEMMA LaterIsTwoAhead ==
  ASSUME NEW val \in ProgressVal
  PROVE  current_to_later(val) = Advance(val, 2)
BY QuarterAssumption DEF Advance, current_to_later, ProgressVal, ERTS_THR_PRGR_VAL_WAITING

\* A value that progress has got to is reached, and stays so for a quarter of the
\* range, over the wrap of the counter too (erts_thr_progress_has_passed__).
THEOREM ReachedStaysReached ==
  ASSUME NEW val \in ProgressVal, NEW n \in 0 .. Quarter - 2
  PROVE  has_reached_this(Advance(val, n), val)
<1>1. CASE val + n < ERTS_THR_PRGR_VAL_WAITING
  BY <1>1 DEF Advance, has_reached_this, has_passed, ProgressVal
<1>2. CASE ~(val + n < ERTS_THR_PRGR_VAL_WAITING)
  \* What has wrapped is in the first quarter, and val still in the last one.
  <2>1. Advance(val, n) < Quarter /\ Advance(val, n) \in Nat
    BY <1>2, QuarterAssumption DEF Advance, ProgressVal, ERTS_THR_PRGR_VAL_WAITING
  <2>2. val > 3 * Quarter
    BY <1>2, QuarterAssumption DEF ProgressVal, ERTS_THR_PRGR_VAL_WAITING
  <2>3. val \in Nat
    BY QuarterAssumption DEF ProgressVal, ERTS_THR_PRGR_VAL_WAITING
  <2> QED
    BY <2>1, <2>2, <2>3, QuarterAssumption DEF has_reached_this, has_passed
<1> QED
  BY <1>1, <1>2

\* A value that lies ahead is not taken for reached, up to the last value before
\* the counter wraps.
THEOREM AheadIsNotReached ==
  ASSUME NEW val \in ProgressVal, NEW n \in 1 .. 2 * Quarter,
         val + n < ERTS_THR_PRGR_VAL_WAITING
  PROVE  ~ has_reached_this(val, Advance(val, n))
BY QuarterAssumption DEF Advance, has_reached_this, has_passed, ProgressVal, ERTS_THR_PRGR_VAL_WAITING

\* The comparison is not symmetric: when what is waited for has wrapped and
\* progress has not, has_passed() compares the numbers, and a value that is two
\* steps ahead counts as reached.  With values of 64 bits no run gets there.
THEOREM LaterOverTheWrap ==
  ASSUME NEW val \in {ERTS_THR_PRGR_VAL_WAITING - 2, ERTS_THR_PRGR_VAL_WAITING - 1}
  PROVE  has_reached_this(val, current_to_later(val))
BY QuarterAssumption DEF current_to_later, has_reached_this, has_passed, ERTS_THR_PRGR_VAL_WAITING
=============================================================================
