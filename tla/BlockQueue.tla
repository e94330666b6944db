----------------------------- MODULE BlockQueue -----------------------------
(***************************************************************************)
(* ocean_http/log/block_queue.h: a ring buffer behind one mutex and one    *)
(* condition variable.  Every operation runs entirely under the mutex, so  *)
(* an operation is one action; only the two pops give the mutex up, inside *)
(* pthread_cond_wait and pthread_cond_timedwait.                           *)
(***************************************************************************)
EXTENDS Integers, Sequences

CONSTANTS Threads,     \* the threads that use the queue
          Items,       \* the elements
          m_max_size,  \* argument of the constructor
          NoItem       \* a slot or an output parameter never written

(* The constructor exits unless max_size > 0. *)
ASSUME QueueAssumption == m_max_size \in Nat \ {0} /\ NoItem \notin Items

VARIABLES m_array, m_size, m_front, m_back,
          waiting,  \* threads blocked in a condition wait
          woken,    \* threads whose wait ended, about to take the mutex again
          timed,    \* which of them called pop(item, ms_timeout)
          item      \* the output parameter of each thread's last pop

vars == <<m_array, m_size, m_front, m_back, waiting, woken, timed, item>>
ring == <<m_array, m_size, m_front, m_back>>

Outside == Threads \ (waiting \cup woken)

Init ==
    /\ m_array = [i \in 0..(m_max_size - 1) |-> NoItem]
    /\ m_size = 0 /\ m_front = -1 /\ m_back = -1
    /\ waiting = {} /\ woken = {} /\ timed = {}
    /\ item = [t \in Threads |-> NoItem]

-----------------------------------------------------------------------------
(* cond::broadcast: every blocked thread will return from its wait. *)
Broadcast == woken' = woken \cup waiting /\ waiting' = {}

(* push into a full queue returns false. *)
PushFull(t) ==
    /\ t \in Outside
    /\ m_size >= m_max_size
    /\ Broadcast
    /\ UNCHANGED <<ring, timed, item>>

(* Mutant: waiters are not woken. *)
PushNoBroadcast(t, x) ==
    /\ t \in Outside
    /\ m_size < m_max_size
    /\ m_back' = (m_back + 1) % m_max_size
    /\ m_array' = [m_array EXCEPT ![m_back'] = x]
    /\ m_size' = m_size + 1
    /\ UNCHANGED <<m_front, waiting, woken, timed, item>>

Push(t, x) ==
    /\ t \in Outside
    /\ m_size < m_max_size
    /\ m_back' = (m_back + 1) % m_max_size
    /\ m_array' = [m_array EXCEPT ![m_back'] = x]
    /\ m_size' = m_size + 1
    /\ Broadcast
    /\ UNCHANGED <<m_front, timed, item>>

(* Mutant: the element is read before m_front moves, as front() does. *)
TakeBefore(t) ==
    /\ m_size > 0
    /\ m_front' = (m_front + 1) % m_max_size
    /\ item' = [item EXCEPT ![t] = IF m_front < 0 THEN NoItem ELSE m_array[m_front]]
    /\ m_size' = m_size - 1
    /\ UNCHANGED <<m_array, m_back>>

(* The last lines of both pops, under the mutex and with m_size > 0. *)
Take(t) ==
    /\ m_size > 0
    /\ m_front' = (m_front + 1) % m_max_size
    /\ item' = [item EXCEPT ![t] = m_array[m_front']]
    /\ m_size' = m_size - 1
    /\ UNCHANGED <<m_array, m_back>>

(* Either pop finds an element at once. *)
Pop(t) ==
    /\ t \in Outside
    /\ Take(t)
    /\ UNCHANGED <<waiting, woken, timed>>

(* pop(item) or, for isTimed, pop(item, ms_timeout) finds none and waits. *)
PopWait(t, isTimed) ==
    /\ t \in Outside
    /\ m_size <= 0
    /\ waiting' = waiting \cup {t}
    /\ timed' = IF isTimed THEN timed \cup {t} ELSE timed
    /\ UNCHANGED <<ring, woken, item>>

(* A condition wait may return without a broadcast. *)
SpuriousWakeup(t) ==
    /\ t \in waiting
    /\ waiting' = waiting \ {t} /\ woken' = woken \cup {t}
    /\ UNCHANGED <<ring, timed, item>>

(* The deadline passes: timewait returns false, and so does the pop.  The  *)
(* deadline is now.tv_sec + ms/1000 seconds and (ms % 100) microseconds,   *)
(* which may already lie in the past, so a timeout is possible at any time *)
(* after the wait began, also after a broadcast.                           *)
PopTimeout(t) ==
    /\ t \in timed
    /\ waiting' = waiting \ {t} /\ woken' = woken \ {t} /\ timed' = timed \ {t}
    /\ UNCHANGED <<ring, item>>

(* The wait returned and the mutex is held again, with an element there. *)
Resume(t) ==
    /\ t \in woken
    /\ Take(t)
    /\ woken' = woken \ {t} /\ timed' = timed \ {t}
    /\ UNCHANGED waiting

(* Still empty: pop(item) waits again. *)
ResumeWait(t) ==
    /\ t \in woken \ timed
    /\ m_size <= 0
    /\ woken' = woken \ {t} /\ waiting' = waiting \cup {t}
    /\ UNCHANGED <<ring, timed, item>>

(* Still empty: pop(item, ms_timeout) returns false. *)
ResumeFails(t) ==
    /\ t \in woken \cap timed
    /\ m_size <= 0
    /\ woken' = woken \ {t} /\ timed' = timed \ {t}
    /\ UNCHANGED <<ring, waiting, item>>

(* Mutant: m_back is not reset. *)
ClearKeepsBack(t) ==
    /\ t \in Outside
    /\ m_size' = 0 /\ m_front' = -1
    /\ UNCHANGED <<m_array, m_back, waiting, woken, timed, item>>

Clear(t) ==
    /\ t \in Outside
    /\ m_size' = 0 /\ m_front' = -1 /\ m_back' = -1
    /\ UNCHANGED <<m_array, waiting, woken, timed, item>>

(* The element back() assigns to its argument. *)
BackResult == m_array[m_back]

Next == \E t \in Threads :
    \/ PushFull(t) \/ \E x \in Items : Push(t, x)
    \/ Pop(t) \/ \E isTimed \in BOOLEAN : PopWait(t, isTimed)
    \/ SpuriousWakeup(t) \/ PopTimeout(t)
    \/ Resume(t) \/ ResumeWait(t) \/ ResumeFails(t)
    \/ Clear(t)

Spec == Init /\ [][Next]_vars

-----------------------------------------------------------------------------
(* Properties *)

TypeOK ==
    /\ m_array \in [0..(m_max_size - 1) -> Items \cup {NoItem}]
    /\ m_size \in 0..m_max_size
    /\ m_front \in -1..(m_max_size - 1) /\ m_back \in -1..(m_max_size - 1)
    /\ waiting \subseteq Threads /\ woken \subseteq Threads /\ waiting \cap woken = {}
    /\ timed \subseteq waiting \cup woken
    /\ item \in [Threads -> Items \cup {NoItem}]

(* The queue the ring represents: m_size elements after m_front. *)
Contents == [i \in 1..m_size |-> m_array[(m_front + i) % m_max_size]]

Fifo == INSTANCE BoundedFifo WITH q <- Contents, got <- item, Capacity <- m_max_size

(* The ring buffer is a bounded FIFO queue: pushes add at the end, pops    *)
(* return the oldest element, across wrap-around, clear and every kind of  *)
(* wake-up, and an element that was never pushed is never returned.        *)
RingIsFifo == Fifo!Spec

(* No lost wake-up: a thread stays blocked only while there is nothing to  *)
(* pop (push broadcasts under the mutex that guards the waiters' test).    *)
BlockedOnlyWhenEmpty == waiting # {} => m_size = 0

(* back() returns the newest element (block_queue.h:34). *)
BackIsNewest == m_size > 0 => m_back >= 0 /\ BackResult = Contents[m_size]
=============================================================================
