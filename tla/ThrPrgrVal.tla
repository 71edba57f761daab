----------------------------- MODULE ThrPrgrVal -----------------------------
(***************************************************************************)
(* Thread progress values: erl_thr_progress.h.  They are unsigned integers *)
(* of 64 bits whose largest value is reserved.  The code tells values that *)
(* have wrapped by the quarter of the range they are in; a quarter is 2^62 *)
(* values in the emulator.                                                 *)
(***************************************************************************)
EXTENDS Integers

CONSTANT Quarter

ASSUME QuarterAssumption == Quarter \in Nat /\ Quarter >= 2

ERTS_THR_PRGR_VAL_FIRST == 0

\* Also the value of a thread that sleeps, and of no value at all.
ERTS_THR_PRGR_VAL_WAITING == 4 * Quarter - 1

ErtsThrPrgrVal == 0 .. ERTS_THR_PRGR_VAL_WAITING

\* The values progress runs through.
ProgressVal == 0 .. ERTS_THR_PRGR_VAL_WAITING - 1

\* val++, and over the reserved value.
Inc(val) == IF val + 1 = ERTS_THR_PRGR_VAL_WAITING THEN 0 ELSE val + 1

\* Subtraction of unsigned integers.
Sub(val, n) == (val - n) % (4 * Quarter)

\* Mutant: the value after the next.
LaterByOne(val) == Inc(val)

current_to_later(val) ==
  IF val = ERTS_THR_PRGR_VAL_WAITING - 2 THEN 0
  ELSE IF val = ERTS_THR_PRGR_VAL_WAITING - 1 THEN 1
  ELSE val + 2

has_passed(val1, val0) ==
  \/ /\ (val1 >= 2 * Quarter) # (val0 >= 2 * Quarter)
     /\ val1 < Quarter
     /\ val0 > 3 * Quarter
  \/ val1 > val0

has_reached_this(this, val) == this = val \/ has_passed(this, val)

ERTS_THR_PRGR_WAKEUP_DATA_SIZE == 4

ERTS_THR_PRGR_WAKEUP_IX(val) == val % ERTS_THR_PRGR_WAKEUP_DATA_SIZE
=============================================================================
