--------------------------------- MODULE Lists ---------------------------------
(***************************************************************************)
(* Python lists as sequences: the list comprehension with a condition. It  *)
(* is a recursive function, and its condition a set, so that it can be     *)
(* reasoned about; SelectSeq takes an operator, which no lemma can be      *)
(* stated for.                                                             *)
(***************************************************************************)
EXTENDS Integers, Sequences

SE == INSTANCE SequencesExt
FE == INSTANCE FiniteSetsExt

\* [x for x in s if x in T]
Filter(s, T) ==
    LET kept[i \in 0 .. Len(s)] ==
            IF i = 0 THEN <<>>
            ELSE IF s[i] \in T THEN Append(kept[i - 1], s[i])
            ELSE kept[i - 1]
    IN  kept[Len(s)]

=============================================================================
