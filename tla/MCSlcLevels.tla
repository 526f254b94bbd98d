----------------------------- MODULE MCSlcLevels -----------------------------
(* Small instance: the engines in lockstep, and the structure of short histories. *)
EXTENDS SlcLevels, SequencesExt

\* What a bar's structure is does not depend on the bars after it: the reducer, which has
\* only the completed ones, reads what the batch engine reads with the whole history
\* (classify_structure).  Zigzags of up to eight bars, with pivots of one bar a side.
Histories == BoundedSeq([high : {2, 3}, low : {0, 1}], 6)
             \cup {[i \in 1..8 |-> [high |-> 3 * (i % 2) + d * i + 20, low |-> 3 * (i % 2) + d * i]] :
                     d \in {-1, 0, 1}}
ASSUME StructureOfPrefix ==
    \A bars \in Histories : \A n \in 0..Len(bars) :
        ClassifyStructure(bars, n) = ClassifyStructure(SubSeq(bars, 1, n), n)
ASSUME EveryStructureOccurs ==
    {"uptrend", "downtrend", "consolidation"}
        \subseteq {ClassifyStructure(bars, Len(bars)) : bars \in Histories}
=============================================================================
