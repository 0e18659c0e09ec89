--------------------------- MODULE MCJudgeCompare ---------------------------
(***************************************************************************)
(* Characters and texts for checking JudgeCompare: two letters, a blank    *)
(* and the character 255.                                                  *)
(***************************************************************************)
EXTENDS JudgeCompare

CONSTANT MaxLength

Chars == {"x", "y", "blank", "ff"}

Texts == UNION {[1..n -> Chars] : n \in 0..MaxLength}

=============================================================================
