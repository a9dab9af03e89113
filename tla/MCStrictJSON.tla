---------------------------- MODULE MCStrictJSON ----------------------------
(***************************************************************************)
(* Every sequence of up to MaxAny symbols, every JSON value of up to       *)
(* MaxSymbols, and every one of up to MaxNear with one symbol replaced.    *)
(***************************************************************************)
EXTENDS StrictJSON

CONSTANTS MaxAny, MaxNear

MCNames == {"s1", "s2"}
MCNumerals == {"n"}

MCDocuments ==
  LET WellFormed(n) == UNION {{v.toks : v \in Grammar[k].values} : k \in 1..n}
  IN  BoundedSeq(Symbols, MaxAny) \cup WellFormed(MaxSymbols) \cup
      UNION {{[doc EXCEPT ![k] = c] : k \in 1..Len(doc), c \in Symbols} :
               doc \in WellFormed(MaxNear)}
MCTexts == TextKinds
=============================================================================
