------------------------------ MODULE NetLogger ------------------------------
(***************************************************************************)
(* ocean_net/src/log: loggers, their appenders and the formatters they     *)
(* share.  An appender may be registered with several loggers, and more    *)
(* than once.  No program of the repository uses the library.              *)
(*                                                                         *)
(* LogFormatter::format returns an empty string whatever the event, so     *)
(* that an appender calls it is all there is to see of a log call.         *)
(***************************************************************************)
EXTENDS Integers, SequencesExt

CONSTANTS Loggers, Appenders,
          Formatters, \* what callers pass to setLogFormatter, or null
          Levels,     \* LogLevel::Level
          Null,       \* the null shared_ptr
          MaxEntries  \* bound: entries of an appender list

VARIABLES m_formatter,  \* Logger::m_formatter
          m_level,      \* Logger::m_level, uninitialised until setLogLevel
          m_appenders,  \* Logger::m_appenders
          formatter,    \* LogAppender::m_formatter
          level,        \* LogAppender::m_level
          nulled,       \* history: the appenders a caller last gave a null formatter
          state         \* running, or undefined behaviour

vars == <<m_formatter, m_level, m_appenders, formatter, level, nulled, state>>

Init ==
    /\ m_formatter = [l \in Loggers |-> Null] /\ m_level \in [Loggers -> Levels]
    /\ m_appenders = [l \in Loggers |-> <<>>]
    /\ formatter = [a \in Appenders |-> Null] /\ level = [a \in Appenders |-> 1]
    /\ nulled = {} /\ state = "running"

-----------------------------------------------------------------------------
(* Mutant: an appender without a formatter is registered as it is. *)
addAppenderOnly(l, a) ==
    /\ Len(m_appenders[l]) < MaxEntries
    /\ m_appenders' = [m_appenders EXCEPT ![l] = Append(@, a)]
    /\ UNCHANGED <<m_formatter, m_level, formatter, level, nulled, state>>

(* The logger lends its formatter to an appender that has none. *)
addAppender(l, a) ==
    /\ Len(m_appenders[l]) < MaxEntries
    /\ formatter' = [formatter EXCEPT ![a] = IF @ = Null THEN m_formatter[l] ELSE @]
    /\ m_appenders' = [m_appenders EXCEPT ![l] = Append(@, a)]
    /\ nulled' = IF formatter'[a] # Null THEN nulled \ {a} ELSE nulled
    /\ UNCHANGED <<m_formatter, m_level, level, state>>

(* The first entry that is the appender goes. *)
delAppender(l, a) ==
    /\ m_appenders' = [m_appenders EXCEPT ![l] = RemoveFirst(@, a)]
    /\ UNCHANGED <<m_formatter, m_level, formatter, level, nulled, state>>

(* A caller gives the appenders a formatter, which may be null. *)
Give(as, f) ==
    /\ formatter' = [a \in Appenders |-> IF a \in as THEN f ELSE formatter[a]]
    /\ nulled' = IF f = Null THEN nulled \cup as ELSE nulled \ as

(* Logger::setLogFormatter, with a formatter or with a pattern (isError is *)
(* always false).  m_hasFormatter is never set, so every appender of the   *)
(* logger gets the new formatter, its own one or not.                      *)
setLogFormatter(l, f) ==
    /\ m_formatter' = [m_formatter EXCEPT ![l] = f]
    /\ Give(ToSet(m_appenders[l]), f)
    /\ UNCHANGED <<m_level, m_appenders, level, state>>

(* LogAppender::setLogFormatter *)
SetAppenderFormatter(a, f) ==
    /\ Give({a}, f)
    /\ UNCHANGED <<m_formatter, m_level, m_appenders, level, state>>

setLogLevel(l, v) ==
    /\ m_level' = [m_level EXCEPT ![l] = v]
    /\ UNCHANGED <<m_formatter, m_appenders, formatter, level, nulled, state>>

setLevel(a, v) ==
    /\ level' = [level EXCEPT ![a] = v]
    /\ UNCHANGED <<m_formatter, m_level, m_appenders, formatter, nulled, state>>

(* The appenders whose log calls m_formatter->format. *)
Formatting(l, v) == {a \in ToSet(m_appenders[l]) : v >= m_level[l] /\ v >= level[a]}

(* Logger::log and the log of the appenders; a null formatter is followed. *)
log(l, v) ==
    /\ state' = IF \E a \in Formatting(l, v) : formatter[a] = Null THEN "undefined" ELSE state
    /\ UNCHANGED <<m_formatter, m_level, m_appenders, formatter, level, nulled>>

Next ==
    /\ state = "running"
    /\ \/ \E l \in Loggers, a \in Appenders : addAppender(l, a) \/ delAppender(l, a)
       \/ \E f \in Formatters \cup {Null} :
                                \/ \E l \in Loggers : setLogFormatter(l, f)
                                \/ \E a \in Appenders : SetAppenderFormatter(a, f)
       \/ \E v \in Levels : \/ \E l \in Loggers : setLogLevel(l, v) \/ log(l, v)
                            \/ \E a \in Appenders : setLevel(a, v)

Spec == Init /\ [][Next]_vars

-----------------------------------------------------------------------------
(* Properties *)

(* A logger that has a formatter makes an appender follow a null one only  *)
(* if a caller of setLogFormatter last gave that appender a null one, in   *)
(* whatever order appenders and formatters were added, shared between      *)
(* loggers, replaced and removed (addAppender against setLogFormatter).    *)
(* A logger without a formatter of its own does.                           *)
FormatterForAll ==
    \A l \in Loggers : m_formatter[l] # Null =>
        \A a \in ToSet(m_appenders[l]) : formatter[a] = Null => a \in nulled
=============================================================================
