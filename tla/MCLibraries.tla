---------------------------- MODULE MCLibraries ----------------------------
(* The two parts of the logging library, which no program of the           *)
(* repository runs yet.  A behaviour exercises one of them, the other      *)
(* stays as it starts.                                                     *)
EXTENDS Integers, Sequences

CONSTANTS a1, a2, f1, f2, l1, l2, Null

VARIABLES unit,
          m_formatter, m_level, m_appenders, formatter, level, nulled, state,
          m_pattern, i, n, fmt_status, at

Characters == {"%", "{", "}", " ", "d"}

Logger == INSTANCE NetLogger WITH
            Loggers <- {l1, l2}, Appenders <- {a1, a2}, Formatters <- {f1, f2},
            Levels <- {1, 2}, MaxEntries <- 2
Pattern == INSTANCE LogPattern WITH
            Patterns <- UNION {[1..k -> Characters] : k \in 0..5}

LoggerIdle  == m_level = [l \in {l1, l2} |-> 1] /\ Logger!Init
PatternIdle == m_pattern = <<>> /\ i = 1 /\ n = 0 /\ fmt_status = 0 /\ at = "end"

Init ==
    \/ unit = "logger" /\ Logger!Init /\ PatternIdle
    \/ unit = "pattern" /\ LoggerIdle /\ Pattern!Init

loggerVars  == <<m_formatter, m_level, m_appenders, formatter, level, nulled, state>>
patternVars == <<m_pattern, i, n, fmt_status, at>>
vars == <<unit, loggerVars, patternVars>>

PatternStep == unit = "pattern" /\ Pattern!Next /\ UNCHANGED <<unit, loggerVars>>

Next ==
    \/ unit = "logger" /\ Logger!Next /\ UNCHANGED <<unit, patternVars>>
    \/ PatternStep

Spec == Init /\ [][Next]_vars /\ WF_vars(PatternStep)

(* The properties, stated and explained in their own modules. *)
FormatterForAll   == Logger!FormatterForAll
EndsUnlessItHangs == Pattern!EndsUnlessItHangs
=============================================================================
