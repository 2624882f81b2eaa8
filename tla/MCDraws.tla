------------------------------ MODULE MCDraws ------------------------------
(* An instance of Draws: words of six bits, a mantissa of four, two rows and *)
(* two retry slots.  Where batches matter, words that are refused or not and *)
(* ranges on either side of the mantissa; where the arithmetic does, every   *)
(* word and every span, at both ends of int and between.                     *)
EXTENDS Draws

\* Each row alone, both, both the other way round with one of them twice.
MCBatches == {<<1>>, <<2>>, <<1, 2>>, <<2, 1, 2>>}

\* Of span 33, 0 is refused; 1 and 63 are accepted, with offsets 0 and 32.
AnyWords    == [Rows -> [Slots -> {0, 1, 63}]]
SomeRanges  == {<<-32, 1>>, <<-7, 9>>, <<1, 1>>}

\* Every first word, with retries that every span accepts.
EveryWord == {[r \in Rows |-> [s \in Slots |-> IF s = BaseSlot THEN w ELSE Modulus - 1]] : w \in Word}
AllSpans  == {<<-32, h>> : h \in -31 .. 31} \cup {<<l, 32>> : l \in {-31, -17, -9, 5}}
              \cup {<<-5, h>> : h \in {-4, 6, 11, 29}}

MCColumns == [words : AnyWords, range : SomeRanges] \cup [words : EveryWord, range : AllSpans]
=============================================================================
