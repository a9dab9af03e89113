----------------------------- MODULE MCTailScan -----------------------------
(***************************************************************************)
(* Every file of up to MaxLen bytes, over one newline and one other byte.  *)
(***************************************************************************)
EXTENDS TailScan

CONSTANT MaxLen

MCBytes == {"x", "nl", "hole"}
MCNL == "nl"
MCLineBreaks == {"nl"}
MCHole == "hole"
MCContents == UNION {[1..n -> {"x", "nl"}] : n \in 0..MaxLen}
=============================================================================
