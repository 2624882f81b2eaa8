------------------------------- MODULE Draws -------------------------------
(***************************************************************************)
(* integers of src/src/dataipsum/seeds.py: one integer of [lo, hi) for     *)
(* every row of a batch.  The code promises that the integer of a row is a *)
(* function of (seed_col, row, slot): a chunk done again by another worker *)
(* or cut in another size gives the same data.  Wide ranges make that hard *)
(* because the rows of a batch are sampled together by rejection, and each *)
(* takes as many draws as it needs.                                        *)
(*                                                                         *)
(* draw_u64 for the column at hand is the function raw, from rows and      *)
(* slots to words, one of those of the Columns.  A behaviour makes calls   *)
(* for one after another of the Batches, the chunks of any worker that     *)
(* draws this column; calls share nothing, so their interleaving does not  *)
(* matter.                                                                 *)
(***************************************************************************)
EXTENDS WordArithmetic, Sequences, FiniteSets

CONSTANTS
  Rows,                  \* global row numbers
  Batches,               \* the values of `rows`: sequences of rows
  BaseSlot,              \* the slot of the generator that draws
  FirstRejectionSlot,    \* 64
  MaxRejectionAttempts,  \* 64
  Columns                \* pairs of a draw_u64 and the [lo, hi) of a column,
                         \* records [words |-> ..., range |-> <<lo, hi>>]

Slots == {BaseSlot} \cup FirstRejectionSlot .. FirstRejectionSlot + MaxRejectionAttempts - 1

Ranges == {c.range : c \in Columns}

ASSUME DrawsAssumption ==
  /\ \A c \in Columns : c.words \in [Rows -> [Slots -> Word]]
  /\ Batches \subseteq Seq(Rows)
  /\ BaseSlot \in Nat /\ FirstRejectionSlot \in Nat /\ MaxRejectionAttempts \in Nat
  /\ BaseSlot < FirstRejectionSlot
  \* np.int64(lo) and np.uint64(hi - lo) exist, and hi - 1 is an int64
  /\ \A range \in Ranges :
       /\ range \in Int \X Int
       /\ -Modulus <= 2 * range[1] /\ 2 * range[2] <= Modulus
       /\ range[2] - range[1] < Modulus

VARIABLES
  raw,       \* draw_u64 of the column: row and slot to word
  lo, hi,    \* the range of the column
  pc,        \* "idle" between calls, "lemire" in the loop of _lemire_offsets
  rows,      \* the rows of the call
  pending,   \* positions of rows that have no offset yet
  offsets,   \* position to offset
  slot,      \* current_slot
  attempt,   \* how many times the loop has run
  outcome,   \* how the last call ended
  published  \* row to the set of integers calls have returned for it

column == <<raw, lo, hi>>
loop   == <<rows, pending, offsets, slot, attempt>>
vars   == <<column, pc, loop, outcome, published>>

span == hi - lo

TypeOK ==
  /\ raw \in [Rows -> [Slots -> Word]]
  /\ <<lo, hi>> \in Ranges
  /\ pc \in {"idle", "lemire"}
  /\ rows \in Batches \cup {<<>>}
  /\ pending \in SUBSET DOMAIN rows
  /\ offsets \in [DOMAIN rows -> Word]
  /\ attempt \in 0 .. MaxRejectionAttempts + 1
  /\ pc = "lemire" /\ attempt <= MaxRejectionAttempts => slot \in Slots
  /\ outcome \in {"none", "ok", "ValueError", "RuntimeError"}
  /\ published \in [Rows -> SUBSET Int]

Init ==
  /\ \E c \in Columns : raw = c.words /\ lo = c.range[1] /\ hi = c.range[2]
  /\ pc = "idle"
  /\ rows = <<>>
  /\ pending = {}
  /\ offsets = <<>>
  /\ slot = BaseSlot
  /\ attempt = 0
  /\ outcome = "none"
  /\ published = [r \in Rows |-> {}]

(* np.int64(lo) + offsets, where both offsets and the sum wrap. *)
Value(offset) == Signed(lo + Signed(offset))

(* A call returns the values at these offsets for the rows of its batch. *)
Publish(batch, offsetAt) ==
  published' = [r \in Rows |-> published[r] \cup
                  {Value(offsetAt[i]) : i \in {j \in DOMAIN batch : batch[j] = r}}]

-----------------------------------------------------------------------------
RejectRange ==
  /\ pc = "idle"
  /\ span <= 0
  /\ outcome' = "ValueError"
  /\ UNCHANGED <<column, pc, loop, published>>

(* span <= 2**53: the offset goes through a float64. *)
IntegersByUniform(batch) ==
  /\ pc = "idle"
  /\ 0 < span /\ span <= UniformLimit
  /\ Publish(batch, [i \in DOMAIN batch |-> UniformOffset(raw[batch[i]][BaseSlot], span)])
  /\ outcome' = "ok"
  /\ UNCHANGED <<column, pc, loop>>

BugStartFromZero(batch) ==   \* positions counted from 0, rows from 1
  /\ pc = "idle"
  /\ span > UniformLimit
  /\ pc' = "lemire"
  /\ rows' = batch
  /\ pending' = 0 .. Len(batch) - 1
  /\ offsets' = [i \in DOMAIN batch |-> 0]
  /\ slot' = BaseSlot
  /\ attempt' = 0
  /\ outcome' = "none"
  /\ UNCHANGED <<column, published>>

StartLemire(batch) ==
  /\ pc = "idle"
  /\ span > UniformLimit
  /\ pc' = "lemire"
  /\ rows' = batch
  /\ pending' = DOMAIN batch
  /\ offsets' = [i \in DOMAIN batch |-> 0]
  /\ slot' = BaseSlot
  /\ attempt' = 0
  /\ outcome' = "none"
  /\ UNCHANGED <<column, published>>

BugAttemptForgetsToCount ==  \* a while loop without the ceiling
  /\ pc = "lemire" /\ pending # {}
  /\ pending' = {i \in pending : ~Accepts(raw[rows[i]][slot], span)}
  /\ UNCHANGED <<column, pc, rows, offsets, slot, attempt, outcome, published>>

BugAttemptOverwrites ==      \* offsets[...] = high for every row, accepted before or not
  /\ pc = "lemire" /\ pending # {} /\ attempt <= MaxRejectionAttempts
  /\ LET candidate == [i \in DOMAIN rows |-> raw[rows[i]][slot]]
     IN  /\ offsets' = [i \in DOMAIN rows |-> High(candidate[i], span)]
         /\ pending' = {i \in pending : ~Accepts(candidate[i], span)}
  /\ slot' = FirstRejectionSlot + attempt
  /\ attempt' = attempt + 1
  /\ UNCHANGED <<column, pc, rows, outcome, published>>

(* One turn of the loop: all pending rows draw at the same slot. *)
LemireAttempt ==
  /\ pc = "lemire" /\ pending # {} /\ attempt <= MaxRejectionAttempts
  /\ LET candidate == [i \in pending |-> raw[rows[i]][slot]]
         accepted  == {i \in pending : Accepts(candidate[i], span)}
     IN  /\ offsets' = [i \in DOMAIN rows |->
                          IF i \in accepted THEN High(candidate[i], span) ELSE offsets[i]]
         /\ pending' = pending \ accepted
  /\ slot' = FirstRejectionSlot + attempt
  /\ attempt' = attempt + 1
  /\ UNCHANGED <<column, pc, rows, outcome, published>>

LemireReturn ==
  /\ pc = "lemire" /\ pending = {}
  /\ Publish(rows, offsets)
  /\ pc' = "idle"
  /\ outcome' = "ok"
  /\ UNCHANGED <<column, loop>>

BugRaiseEarly ==             \* range(MAX_REJECTION_ATTEMPTS)
  /\ pc = "lemire" /\ pending # {} /\ attempt >= MaxRejectionAttempts
  /\ pc' = "idle"
  /\ outcome' = "RuntimeError"
  /\ UNCHANGED <<column, loop, published>>

LemireRaise ==
  /\ pc = "lemire" /\ pending # {} /\ attempt > MaxRejectionAttempts
  /\ pc' = "idle"
  /\ outcome' = "RuntimeError"
  /\ UNCHANGED <<column, loop, published>>

DrawBatch == \E batch \in Batches : IntegersByUniform(batch) \/ StartLemire(batch)
Loop      == LemireAttempt \/ LemireReturn \/ LemireRaise
Next      == RejectRange \/ DrawBatch \/ Loop

Spec     == Init /\ [][Next]_vars
FairSpec == Spec /\ WF_vars(Loop)     \* a call that has begun keeps running

-----------------------------------------------------------------------------
(* What the value of a row is, by itself: a wide offset comes from the first *)
(* of the row's slots whose word is accepted, and is the high word of an     *)
(* exact product.                                                            *)
SlotOf(a) == IF a = 0 THEN BaseSlot ELSE FirstRejectionSlot + a - 1

Fair(candidate) == (candidate * span) % Modulus >= Threshold(span)

Exhausted(r) == \A a \in 0..MaxRejectionAttempts : ~Fair(raw[r][SlotOf(a)])

FirstFair(r) == CHOOSE a \in 0..MaxRejectionAttempts :
                  Fair(raw[r][SlotOf(a)]) /\ \A b \in 0 .. a - 1 : ~Fair(raw[r][SlotOf(b)])

WideOffset(r) == (raw[r][SlotOf(FirstFair(r))] * span) \div Modulus

ValueOfRow(r) ==
  IF span > UniformLimit THEN lo + WideOffset(r)
                         ELSE Value(UniformOffset(raw[r][BaseSlot], span))

(* Every call that has returned an integer for a row, whatever its batch and *)
(* whatever the other rows of the batch needed, returned the same one.       *)
RowIsPure == \A r \in Rows : \A v \in published[r] : v = ValueOfRow(r)

(* The integers are in [lo, hi): neither the wrap of offsets above 2^63 to   *)
(* negative int64 nor the rounding of the float64 product takes them out.    *)
InRange == \A r \in Rows : \A v \in published[r] : lo <= v /\ v < hi

(* The call gives up only for a row that was refused at every slot: the      *)
(* ceiling never costs a row a draw that it was entitled to.                 *)
RaisesOnlyWhenExhausted ==
  outcome = "RuntimeError" => \E i \in DOMAIN rows : Exhausted(rows[i])

(* Rejection removes the bias: of the words that are accepted, each offset   *)
(* gets as many as any other.  (A statement about span alone: it is looked   *)
(* at once, when the first loop is about to run for it.)                     *)
Unbiased ==
  pc = "lemire" /\ attempt = 0 /\ (\A r \in Rows : published[r] = {}) =>
    LET accepted == {w \in Word : Accepts(w, span)}
        Hits(o)  == {w \in accepted : High(w, span) = o}
    IN  \A o \in 0 .. span - 1 : Cardinality(Hits(o)) = Modulus \div span

(* Every call ends: the loop is bounded even if no word is ever accepted. *)
CallsEnd == pc = "lemire" ~> pc = "idle"
=============================================================================
