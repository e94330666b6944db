----------------------------- MODULE LogPattern -----------------------------
(***************************************************************************)
(* ocean_net/src/log.cpp, LogFormatter::init: the loops over the pattern.  *)
(* The fragments it collects are local and dropped at the end (m_items     *)
(* stays empty), so only where the loops are is kept.  A position is one   *)
(* more than in the code.  Nothing calls init yet.                         *)
(***************************************************************************)
EXTENDS Integers, Sequences

CONSTANTS Patterns  \* sequences of characters: "%", "{", "}", " " and letters

VARIABLES m_pattern, i, n, fmt_status,
          at    \* the outer loop, the inner loop, behind it, or the end

vars == <<m_pattern, i, n, fmt_status, at>>

size == Len(m_pattern)

Init == m_pattern \in Patterns /\ i = 1 /\ n = 0 /\ fmt_status = 0 /\ at = "outer"

(* Mutant: the second of two percent signs is skipped. *)
OuterSkipsPercent ==
    /\ at = "outer" /\ i <= size
    /\ IF m_pattern[i] # "%"
       THEN i' = i + 1 /\ UNCHANGED <<n, fmt_status, at>>
       ELSE IF i + 1 <= size /\ m_pattern[i + 1] = "%"
       THEN i' = i + 2 /\ UNCHANGED <<n, fmt_status, at>>
       ELSE n' = i + 1 /\ fmt_status' = 0 /\ at' = "inner" /\ UNCHANGED i
    /\ UNCHANGED m_pattern

(* A character that is not a percent sign, or is followed by another one,  *)
(* is text.                                                                *)
Outer ==
    /\ at = "outer" /\ i <= size
    /\ IF m_pattern[i] # "%" \/ (i + 1 <= size /\ m_pattern[i + 1] = "%")
       THEN i' = i + 1 /\ UNCHANGED <<n, fmt_status, at>>
       ELSE n' = i + 1 /\ fmt_status' = 0 /\ at' = "inner" /\ UNCHANGED i
    /\ UNCHANGED m_pattern

(* One turn of the inner loop.  n moves only past an opening brace: at any *)
(* other character that does not end the loop, it turns for ever.          *)
Inner ==
    /\ at = "inner"
    /\ IF n > size \/ m_pattern[n] = " "
       THEN at' = "after" /\ UNCHANGED <<n, fmt_status>>
       ELSE IF fmt_status = 0 /\ m_pattern[n] = "{"
       THEN fmt_status' = 1 /\ n' = n + 1 /\ UNCHANGED at
       ELSE IF fmt_status = 1 /\ m_pattern[n] = "}"
       THEN fmt_status' = 2 /\ at' = "after" /\ UNCHANGED n
       ELSE UNCHANGED <<n, fmt_status, at>>
    /\ UNCHANGED <<m_pattern, i>>

(* The fragment is recorded; an unclosed brace is an error and the text    *)
(* behind the percent sign is read again.                                  *)
After ==
    /\ at = "after"
    /\ i' = (IF fmt_status = 1 THEN i ELSE n) + 1
    /\ at' = "outer" /\ UNCHANGED <<m_pattern, n, fmt_status>>

End == at = "outer" /\ i > size /\ at' = "end" /\ UNCHANGED <<m_pattern, i, n, fmt_status>>

Next == Outer \/ Inner \/ After \/ End

(* init is a plain loop: it goes on as long as it can. *)
Spec == Init /\ [][Next]_vars /\ WF_vars(Next)

-----------------------------------------------------------------------------
(* Properties *)

(* A percent sign with text behind it, or with a brace that has text in    *)
(* it, anywhere in the pattern.                                            *)
Hangs ==
    \E k \in 1..(size - 1) :
        /\ m_pattern[k] = "%"
        /\ \/ m_pattern[k + 1] \notin {"%", " ", "{"}
           \/ m_pattern[k + 1] = "{" /\ k + 2 <= size /\ m_pattern[k + 2] \notin {"}", " "}

(* LogFormatter::init returns exactly for the patterns without such a      *)
(* percent sign: all others, "%d" and "%d{...}" among them, never end.     *)
EndsUnlessItHangs == []<>((at = "end") <=> ~Hangs)
=============================================================================
