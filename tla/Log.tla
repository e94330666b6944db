-------------------------------- MODULE Log --------------------------------
(***************************************************************************)
(* ocean_http/log/log.cpp: the logger every thread calls through the LOG_  *)
(* macros (write_log, then flush).  m_mutex protects the line counter, the *)
(* file pointer and the shared format buffer, but write_log takes it       *)
(* several times and lets go in between.  With m_is_async the line goes    *)
(* through a block_queue to the thread of async_write_log.  push, pop and  *)
(* full are single steps here: the module BlockQueue has their detail.     *)
(*                                                                         *)
(* fopen and fclose are what their FILE is: m_fp is the name of the open   *)
(* file, Closed between fclose and fopen, or Null after a failed fopen.    *)
(* init builds the first name from the whole of file_name, directory part  *)
(* included, and its caller ignores what it returns: Init has both         *)
(* outcomes.  fputs and fclose on a null FILE, and any call on a closed    *)
(* one, kill the process (dead).                                           *)
(***************************************************************************)
EXTENDS LockWrappers, FiniteSets, SequencesExt

CONSTANTS Writers, Flusher,     \* the calling threads, the one init creates
          LinesPerWriter,       \* bound: how often each calls a LOG_ macro
          m_split_lines, max_queue_size,
          MaxDay                \* bound: the clock stops at this day

ASSUME LogAssumption ==
    /\ IsFiniteSet(Writers) /\ Flusher \notin Writers /\ Unlocked \notin Writers \cup {Flusher}
    /\ LinesPerWriter \in Nat /\ MaxDay \in Nat \ {0}
    /\ m_split_lines \in Nat \ {0} /\ max_queue_size \in Nat \ {0}

VARIABLES m_is_async, m_mutex, m_count, m_today, m_fp, m_buf, m_log_queue,
          day,        \* the clock
          pc, my_tm,  \* per writer: the local copy of the clock
          log_str,    \* per thread: log_str and single_log
          called,     \* per writer: how many calls it has begun
          out,        \* what was written, in order, with the file it went to
          flushed,    \* how much of out has left the stdio buffer
          lost,       \* lines that push refused
          dead

fileVars == <<m_count, m_today, m_fp, out, flushed, dead>>
vars == <<fileVars, m_is_async, m_mutex, m_buf, m_log_queue, day, pc, my_tm, log_str, called, lost>>

Threads == Writers \cup {Flusher}
Closed == <<"closed">>
Null == <<"null">>
NoLine == <<>>

Goto(t, from, to) == ~dead /\ pc[t] = from /\ pc' = [pc EXCEPT ![t] = to]

(* log::init, before any thread but the flusher runs. *)
Init ==
    /\ m_is_async \in BOOLEAN
    /\ m_mutex = Unlocked /\ m_count = 0 /\ m_today = 1 /\ day = 1
    /\ m_fp \in {<<1, 0>>, Null}
    /\ m_buf = NoLine /\ m_log_queue = <<>>
    /\ pc = [t \in Threads |-> IF t = Flusher THEN "pop" ELSE "idle"]
    /\ my_tm = [w \in Writers |-> 1]
    /\ log_str = [t \in Threads |-> NoLine]
    /\ called = [w \in Writers |-> 0]
    /\ out = <<>> /\ flushed = 0 /\ lost = {} /\ dead = FALSE

Midnight ==
    /\ ~dead /\ day < MaxDay /\ day' = day + 1
    /\ UNCHANGED <<fileVars, m_is_async, m_mutex, m_buf, m_log_queue, pc, my_tm, log_str, called, lost>>

(* fputs on m_fp. *)
Fputs(line) ==
    IF m_fp \in {Closed, Null} THEN dead' = TRUE /\ UNCHANGED out
    ELSE out' = Append(out, [file |-> m_fp, line |-> line]) /\ UNCHANGED dead

-----------------------------------------------------------------------------
(* write_log *)

(* gettimeofday and localtime, before the first lock. *)
ReadClock(w) ==
    /\ called[w] < LinesPerWriter
    /\ Goto(w, "idle", "count")
    /\ my_tm' = [my_tm EXCEPT ![w] = day]
    /\ called' = [called EXCEPT ![w] = @ + 1]
    /\ UNCHANGED <<fileVars, m_is_async, m_mutex, m_buf, m_log_queue, day, log_str, lost>>

Rotates(w) == m_today # my_tm[w] \/ (m_count + 1) % m_split_lines = 0

(* The first critical section, when the file stays. *)
CountLine(w) ==
    /\ m_mutex = Unlocked /\ ~Rotates(w)
    /\ Goto(w, "count", "format")
    /\ m_count' = m_count + 1
    /\ UNCHANGED <<m_today, m_fp, out, flushed, dead, m_is_async, m_mutex, m_buf, m_log_queue,
                   day, my_tm, log_str, called, lost>>

(* Otherwise fflush and fclose ... *)
CloseFile(w) ==
    /\ Rotates(w)
    /\ Lock(m_mutex, m_mutex', w)
    /\ Goto(w, "count", "open")
    /\ m_count' = m_count + 1
    /\ IF m_fp \in {Closed, Null} THEN dead' = TRUE /\ UNCHANGED <<m_fp, flushed>>
       ELSE m_fp' = Closed /\ flushed' = Len(out) /\ UNCHANGED dead
    /\ UNCHANGED <<m_today, out, m_is_async, m_buf, m_log_queue, day, my_tm, log_str, called, lost>>

(* ... and fopen of the file of the day, or of the next part. *)
OpenFile(w) ==
    /\ Goto(w, "open", "format")
    /\ LET newDay == m_today # my_tm[w]
           name == <<my_tm[w], IF newDay THEN 0 ELSE m_count \div m_split_lines>> IN
       /\ m_today' = my_tm[w]
       /\ m_count' = IF newDay THEN 0 ELSE m_count
       /\ m_fp' \in {name, Null}
    /\ Unlock(m_mutex, m_mutex')
    /\ UNCHANGED <<out, flushed, dead, m_is_async, m_buf, m_log_queue, day, my_tm, log_str, called, lost>>

Line(w) == <<w, called[w]>>

(* Mutant: the text is formatted outside the lock. *)
Format_unlocked(w) ==
    /\ Goto(w, "format", "copy")
    /\ m_buf' = Line(w)
    /\ UNCHANGED <<fileVars, m_is_async, m_mutex, m_log_queue, day, my_tm, log_str, called, lost>>

(* The second critical section formats into m_buf ... *)
Format(w) ==
    /\ Lock(m_mutex, m_mutex', w)
    /\ Goto(w, "format", "copy")
    /\ m_buf' = Line(w)
    /\ UNCHANGED <<fileVars, m_is_async, m_log_queue, day, my_tm, log_str, called, lost>>

(* ... and copies m_buf to log_str. *)
Copy(w) ==
    /\ Goto(w, "copy", "route")
    /\ log_str' = [log_str EXCEPT ![w] = m_buf]
    /\ Unlock(m_mutex, m_mutex')
    /\ UNCHANGED <<fileVars, m_is_async, m_buf, m_log_queue, day, my_tm, called, lost>>

(* m_is_async and m_log_queue->full(): looked at here, used in the next    *)
(* step.                                                                   *)
Route(w) ==
    /\ Goto(w, "route", IF m_is_async /\ Len(m_log_queue) < max_queue_size THEN "push" ELSE "fputs")
    /\ UNCHANGED <<fileVars, m_is_async, m_mutex, m_buf, m_log_queue, day, my_tm, log_str, called, lost>>

(* push, whose result is not looked at. *)
Push(w) ==
    /\ Goto(w, "push", "flush")
    /\ IF Len(m_log_queue) < max_queue_size
       THEN m_log_queue' = Append(m_log_queue, log_str[w]) /\ UNCHANGED lost
       ELSE lost' = lost \cup {log_str[w]} /\ UNCHANGED m_log_queue
    /\ UNCHANGED <<fileVars, m_is_async, m_mutex, m_buf, day, my_tm, log_str, called>>

(* Mutant: the direct write does not take the lock. *)
WriteDirect_unlocked(w) ==
    /\ Goto(w, "fputs", "flush")
    /\ Fputs(log_str[w])
    /\ UNCHANGED <<m_count, m_today, m_fp, flushed, m_is_async, m_mutex, m_buf, m_log_queue,
                   day, my_tm, log_str, called, lost>>

(* The line goes to the file at once: not asynchronous, or a full queue. *)
WriteDirect(w) ==
    /\ m_mutex = Unlocked
    /\ Goto(w, "fputs", "flush")
    /\ Fputs(log_str[w])
    /\ UNCHANGED <<m_count, m_today, m_fp, flushed, m_is_async, m_mutex, m_buf, m_log_queue,
                   day, my_tm, log_str, called, lost>>

(* Mutant: flush does nothing. *)
Flush_nothing(w) ==
    /\ m_mutex = Unlocked
    /\ Goto(w, "flush", "idle")
    /\ UNCHANGED <<fileVars, m_is_async, m_mutex, m_buf, m_log_queue, day, my_tm, log_str, called, lost>>

(* log::flush, the second half of the LOG_ macros.  fflush of a null FILE  *)
(* flushes all streams.                                                    *)
Flush(w) ==
    /\ m_mutex = Unlocked
    /\ Goto(w, "flush", "idle")
    /\ IF m_fp = Closed THEN dead' = TRUE /\ UNCHANGED flushed
       ELSE flushed' = Len(out) /\ UNCHANGED dead
    /\ UNCHANGED <<m_count, m_today, m_fp, out, m_is_async, m_mutex, m_buf, m_log_queue,
                   day, my_tm, log_str, called, lost>>

-----------------------------------------------------------------------------
(* async_write_log *)

(* Mutant: the line is read but stays in the queue. *)
PopLine_peek ==
    /\ m_log_queue # <<>>
    /\ Goto(Flusher, "pop", "put")
    /\ log_str' = [log_str EXCEPT ![Flusher] = Head(m_log_queue)]
    /\ UNCHANGED <<fileVars, m_is_async, m_mutex, m_buf, m_log_queue, day, my_tm, called, lost>>

PopLine ==
    /\ m_log_queue # <<>>
    /\ Goto(Flusher, "pop", "put")
    /\ log_str' = [log_str EXCEPT ![Flusher] = Head(m_log_queue)]
    /\ m_log_queue' = Tail(m_log_queue)
    /\ UNCHANGED <<fileVars, m_is_async, m_mutex, m_buf, day, my_tm, called, lost>>

(* Mutant: the loop ends after a line when the queue is empty. *)
PutLine_once ==
    /\ m_mutex = Unlocked
    /\ Goto(Flusher, "put", IF m_log_queue = <<>> THEN "ended" ELSE "pop")
    /\ Fputs(log_str[Flusher])
    /\ UNCHANGED <<m_count, m_today, m_fp, flushed, m_is_async, m_mutex, m_buf, m_log_queue,
                   day, my_tm, log_str, called, lost>>

PutLine ==
    /\ m_mutex = Unlocked
    /\ Goto(Flusher, "put", "pop")
    /\ Fputs(log_str[Flusher])
    /\ UNCHANGED <<m_count, m_today, m_fp, flushed, m_is_async, m_mutex, m_buf, m_log_queue,
                   day, my_tm, log_str, called, lost>>

-----------------------------------------------------------------------------
WriteStep(w) ==
    \/ CountLine(w) \/ CloseFile(w) \/ OpenFile(w) \/ Format(w) \/ Copy(w)
    \/ Route(w) \/ Push(w) \/ WriteDirect(w) \/ Flush(w)

FlusherStep == PopLine \/ PutLine

Next == Midnight \/ FlusherStep \/ (\E w \in Writers : ReadClock(w) \/ WriteStep(w))

Spec == Init /\ [][Next]_vars

(* Threads run: a call that has begun goes on, and so does the flusher.    *)
(* The number of calls is bounded, so weak fairness passes the mutex on.   *)
FairSpec == Spec /\ WF_vars(FlusherStep) /\ \A w \in Writers : WF_vars(WriteStep(w))

-----------------------------------------------------------------------------
Lines == Writers \X (1..LinesPerWriter)
Written(k) == {out[i].line : i \in 1..k}

TypeOK ==
    /\ m_mutex \in Threads \cup {Unlocked}
    /\ m_count \in Nat /\ m_today \in 1..MaxDay /\ day \in 1..MaxDay
    /\ m_fp \in ((1..MaxDay) \X Nat) \cup {Closed, Null}
    /\ Len(m_log_queue) <= max_queue_size
    /\ flushed \in 0..Len(out)
    /\ \A t \in Threads : log_str[t] \in Lines \cup {NoLine}

(* A writer that leaves the second critical section carries its own line:  *)
(* the shared m_buf never gives it another thread's text.                  *)
OwnText ==
    \A w \in Writers : pc[w] \in {"route", "push", "fputs", "flush"} => log_str[w] = Line(w)

(* How often a line is in the file, in the queue, in the flusher's hands,  *)
(* or was refused by push.                                                 *)
Places(l) ==
    Cardinality({i \in DOMAIN out : out[i].line = l})
    + Cardinality({i \in DOMAIN m_log_queue : m_log_queue[i] = l})
    + (IF pc[Flusher] = "put" /\ log_str[Flusher] = l THEN 1 ELSE 0)
    + (IF l \in lost THEN 1 ELSE 0)

(* A line of a call that has returned is in exactly one place: the race    *)
(* between full() and push, rotation and the two ways to the file neither  *)
(* duplicate a line nor lose one that push did not refuse.                 *)
LineOnce ==
    ~dead => \A w \in Writers, i \in 1..LinesPerWriter :
        i < called[w] \/ (i = called[w] /\ pc[w] = "idle") => Places(<<w, i>>) = 1

(* No thread writes to, flushes or closes again the FILE that a rotation   *)
(* has closed: the process dies only of an fopen that failed.              *)
NoUseAfterClose == dead => m_fp = Null

(* Without the queue, a LOG_ call that has returned has its line out of    *)
(* the stdio buffer, whichever file it went to.                            *)
SyncIsDurable ==
    ~m_is_async /\ ~dead => \A w \in Writers : pc[w] = "idle" =>
        \A i \in 1..called[w] : <<w, i>> \in Written(flushed)

(* Every queued line reaches a file, unless the process dies first. *)
QueuedIsWritten ==
    \A w \in Writers : \A i \in 1..LinesPerWriter :
        (<<w, i>> \in ToSet(m_log_queue)) ~> (dead \/ <<w, i>> \in Written(Len(out)))
=============================================================================
