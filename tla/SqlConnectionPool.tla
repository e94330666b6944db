-------------------------- MODULE SqlConnectionPool --------------------------
(***************************************************************************)
(* ocean_http/cgimysql/sql_connection_pool: a list of MySQL handles behind *)
(* a mutex (lock) and a counting semaphore (reserve).  A thread borrows a  *)
(* handle with GetConnection (the constructor of connectionRAII) and gives *)
(* it back with ReleaseConnection (its destructor).                        *)
(*                                                                         *)
(* The handles are opaque: Conns is the set of handles mysql_real_connect  *)
(* returns to init, one per requested connection, so MaxConn is its size.  *)
(***************************************************************************)
EXTENDS LockWrappers, FiniteSets, SequencesExt

CONSTANTS Threads,  \* the threads that borrow connections (pool workers)
          Conns,    \* the MYSQL* handles that init obtains
          Null      \* the null MYSQL*

ASSUME PoolAssumption ==
    /\ IsFiniteSet(Conns) /\ Null \notin Conns
    /\ IsFiniteSet(Threads) /\ Unlocked \notin Threads

VARIABLES connList,    \* std::list of free handles
          m_FreeConn,  \* free handles, as counted by the pool
          m_CurConn,   \* borrowed handles, as counted by the pool
          reserve,     \* semaphore
          lock,        \* mutex
          phase,       \* life of the singleton: init, ready, exited, destroyed
          closed,      \* handles passed to mysql_close
          pc,          \* where each thread is in Get/ReleaseConnection
          con          \* the handle in each thread's connectionRAII

vars == <<connList, m_FreeConn, m_CurConn, reserve, lock, phase, closed, pc, con>>

MaxConn == Cardinality(Conns)

(* The free handles, as a set. *)
Listed == ToSet(connList)

Goto(t, from, to) == pc[t] = from /\ pc' = [pc EXCEPT ![t] = to]

Init ==
    /\ connList = <<>> /\ m_FreeConn = 0 /\ m_CurConn = 0
    /\ reserve = 0 /\ lock = Unlocked
    /\ phase = "init" /\ closed = {}
    /\ pc = [t \in Threads |-> "idle"] /\ con = [t \in Threads |-> Null]

-----------------------------------------------------------------------------
(* init(): runs on the main thread before any worker exists. *)

(* One turn of the loop: mysql_init and mysql_real_connect succeed. *)
Connect ==
    /\ phase = "init"
    /\ \E c \in Conns \ Listed : connList' = Append(connList, c)
    /\ m_FreeConn' = m_FreeConn + 1
    /\ UNCHANGED <<m_CurConn, reserve, lock, phase, closed, pc, con>>

(* One of the two calls returns NULL: exit(1). *)
ConnectFails ==
    /\ phase = "init" /\ Len(connList) < MaxConn
    /\ phase' = "exited"
    /\ UNCHANGED <<connList, m_FreeConn, m_CurConn, reserve, lock, closed, pc, con>>

(* The loop is over: the semaphore is replaced by one that counts the list. *)
InitDone ==
    /\ phase = "init" /\ Len(connList) = MaxConn
    /\ reserve' = m_FreeConn
    /\ phase' = "ready"
    /\ UNCHANGED <<connList, m_FreeConn, m_CurConn, lock, closed, pc, con>>

-----------------------------------------------------------------------------
(* GetConnection *)

(* The size is read without the mutex; an empty list returns NULL at once. *)
GetConnection(t) ==
    /\ phase \in {"ready", "destroyed"}
    /\ Goto(t, "idle", IF connList = <<>> THEN "use" ELSE "wait")
    /\ UNCHANGED <<connList, m_FreeConn, m_CurConn, reserve, lock, phase, closed, con>>

(* Mutant: the semaphore is not waited for. *)
GetWaitNoWait(t) ==
    /\ Goto(t, "wait", "getLock")
    /\ UNCHANGED <<connList, m_FreeConn, m_CurConn, reserve, lock, phase, closed, con>>

GetWait(t) ==
    /\ Goto(t, "wait", "getLock")
    /\ SemWait(reserve, reserve')
    /\ UNCHANGED <<connList, m_FreeConn, m_CurConn, lock, phase, closed, con>>

GetLock(t) ==
    /\ Goto(t, "getLock", "front")
    /\ Lock(lock, lock', t)
    /\ UNCHANGED <<connList, m_FreeConn, m_CurConn, reserve, phase, closed, con>>

(* front() of an empty std::list is undefined behaviour: the thread is lost. *)
GetFront(t) ==
    /\ Goto(t, "front", IF connList = <<>> THEN "undefined" ELSE "pop")
    /\ con' = [con EXCEPT ![t] = IF connList = <<>> THEN @ ELSE Head(connList)]
    /\ UNCHANGED <<connList, m_FreeConn, m_CurConn, reserve, lock, phase, closed>>

(* Mutant: pop_front is missing. *)
GetPopNoPop(t) ==
    /\ Goto(t, "pop", "getUnlock")
    /\ m_FreeConn' = m_FreeConn - 1
    /\ m_CurConn' = m_CurConn + 1
    /\ UNCHANGED <<connList, reserve, lock, phase, closed, con>>

GetPop(t) ==
    /\ Goto(t, "pop", "getUnlock")
    /\ connList' = Tail(connList)
    /\ m_FreeConn' = m_FreeConn - 1
    /\ m_CurConn' = m_CurConn + 1
    /\ UNCHANGED <<reserve, lock, phase, closed, con>>

GetUnlock(t) ==
    /\ Goto(t, "getUnlock", "use")
    /\ Unlock(lock, lock')
    /\ UNCHANGED <<connList, m_FreeConn, m_CurConn, reserve, phase, closed, con>>

-----------------------------------------------------------------------------
(* ReleaseConnection *)

(* Mutant: the NULL test is missing. *)
ReleaseConnectionNoTest(t) ==
    /\ Goto(t, "use", "relLock")
    /\ UNCHANGED <<connList, m_FreeConn, m_CurConn, reserve, lock, phase, closed, con>>

(* Mutant: the handle is dropped instead of released. *)
ReleaseConnectionLeak(t) ==
    /\ Goto(t, "use", "idle")
    /\ con' = [con EXCEPT ![t] = Null]
    /\ m_CurConn' = IF con[t] = Null THEN m_CurConn ELSE m_CurConn - 1
    /\ UNCHANGED <<connList, m_FreeConn, reserve, lock, phase, closed>>

(* A NULL handle is refused: the call returns false and changes nothing. *)
ReleaseConnection(t) ==
    /\ Goto(t, "use", IF con[t] = Null THEN "idle" ELSE "relLock")
    /\ UNCHANGED <<connList, m_FreeConn, m_CurConn, reserve, lock, phase, closed, con>>

RelLock(t) ==
    /\ Goto(t, "relLock", "put")
    /\ Lock(lock, lock', t)
    /\ UNCHANGED <<connList, m_FreeConn, m_CurConn, reserve, phase, closed, con>>

RelPut(t) ==
    /\ Goto(t, "put", "relUnlock")
    /\ connList' = Append(connList, con[t])
    /\ con' = [con EXCEPT ![t] = Null]
    /\ m_FreeConn' = m_FreeConn + 1
    /\ m_CurConn' = m_CurConn - 1
    /\ UNCHANGED <<reserve, lock, phase, closed>>

RelUnlock(t) ==
    /\ Goto(t, "relUnlock", "post")
    /\ Unlock(lock, lock')
    /\ UNCHANGED <<connList, m_FreeConn, m_CurConn, reserve, phase, closed, con>>

(* Mutant: the semaphore is not posted. *)
RelPostNoPost(t) ==
    /\ Goto(t, "post", "idle")
    /\ UNCHANGED <<connList, m_FreeConn, m_CurConn, reserve, lock, phase, closed, con>>

RelPost(t) ==
    /\ Goto(t, "post", "idle")
    /\ SemPost(reserve, reserve')
    /\ UNCHANGED <<connList, m_FreeConn, m_CurConn, lock, phase, closed, con>>

(* Mutant: every handle is closed, borrowed or not. *)
DestroyPoolAll ==
    /\ phase = "ready" /\ lock = Unlocked
    /\ phase' = "destroyed"
    /\ closed' = Conns
    /\ m_CurConn' = 0 /\ m_FreeConn' = 0 /\ connList' = <<>>
    /\ UNCHANGED <<reserve, lock, pc, con>>

-----------------------------------------------------------------------------
(* DestroyPool, from the destructor of the static instance when main has   *)
(* returned; the detached workers may still run.  Only listed handles are      *)
(* closed and the semaphore keeps its count.                               *)
DestroyPool ==
    /\ phase = "ready" /\ lock = Unlocked
    /\ phase' = "destroyed"
    /\ IF connList # <<>>
       THEN /\ closed' = closed \cup Listed
            /\ m_CurConn' = 0 /\ m_FreeConn' = 0
            /\ connList' = <<>>
       ELSE UNCHANGED <<closed, m_CurConn, m_FreeConn, connList>>
    /\ UNCHANGED <<reserve, lock, pc, con>>

(* After exit(1), and at the end of main, the process may be gone. *)
Exited == phase \in {"exited", "destroyed"} /\ UNCHANGED vars

(* What a thread does once it has called GetConnection; connectionRAII     *)
(* pairs every GetConnection with one ReleaseConnection.                   *)
Continue(t) ==
    \/ GetWait(t) \/ GetLock(t) \/ GetFront(t) \/ GetPop(t) \/ GetUnlock(t)
    \/ ReleaseConnection(t) \/ RelLock(t) \/ RelPut(t) \/ RelUnlock(t) \/ RelPost(t)

Next ==
    \/ Connect \/ ConnectFails \/ InitDone \/ DestroyPool \/ Exited
    \/ \E t \in Threads : GetConnection(t) \/ Continue(t)

Spec == Init /\ [][Next]_vars

(* A thread that is inside Get/ReleaseConnection is scheduled again; no    *)
(* thread has to ask for a connection.                                     *)
FairSpec == Spec /\ \A t \in Threads : WF_vars(Continue(t))

-----------------------------------------------------------------------------
(* Properties *)

(* A thread owns its handle from pop_front until push_back. *)
Owning == {"getUnlock", "use", "relLock", "put"}

TypeOK ==
    /\ connList \in Seq(Conns)
    /\ m_FreeConn \in Int /\ m_CurConn \in Int /\ reserve \in Nat
    /\ lock \in Threads \cup {Unlocked}
    /\ phase \in {"init", "ready", "exited", "destroyed"}
    /\ closed \subseteq Conns
    /\ pc \in [Threads -> {"idle", "wait", "getLock", "front", "pop", "undefined", "post",
                           "relUnlock"} \cup Owning]
    /\ con \in [Threads -> Conns \cup {Null}]

(* No two threads ever run mysql queries on the same handle, and a handle  *)
(* that is borrowed is not in the free list (GetConnection l.23-32 against *)
(* ReleaseConnection l.44-52, in any interleaving).                        *)
ExclusiveBorrow ==
    \A t \in Threads : pc[t] \in Owning /\ con[t] # Null =>
        /\ con[t] \notin Listed
        /\ \A u \in Threads \ {t} : pc[u] \in Owning => con[u] # con[t]

(* The threads that own a handle. *)
Owners == {t \in Threads : pc[t] \in Owning /\ con[t] # Null}

(* Until the pool is destroyed, the handles init obtained are never lost   *)
(* and never listed twice.                                                 *)
NoHandleLost ==
    phase = "ready" =>
        /\ Conns = Listed \cup {con[t] : t \in Owners}
        /\ Len(connList) = Cardinality(Listed)

(* Until the pool is destroyed, the unlocked size test and the semaphore   *)
(* together guarantee that the front() and pop_front() of l.26-27 never    *)
(* see an empty list.  (DestroyPool empties the list and leaves the        *)
(* semaphore its count, so later the guarantee is gone.)                   *)
FrontNonEmpty ==
    phase # "destroyed" => \A t \in Threads : pc[t] \in {"front", "pop"} => connList # <<>>

(* Until the pool is destroyed, the two counters are exact at every point, *)
(* also between the steps of a call: they count the list and the borrowed  *)
(* handles.                                                                *)
CountersExact ==
    phase # "destroyed" => m_FreeConn = Len(connList) /\ m_CurConn = Cardinality(Owners)

(* While some thread is blocked on the semaphore of a live pool, borrowing *)
(* goes on: the releases of the others let somebody obtain a handle.       *)
WaitersServed ==
    (\E t \in Threads : pc[t] = "wait")
        ~> (phase = "destroyed" \/ \E t \in Threads : pc[t] = "getUnlock")

(* DestroyPool may run while workers hold handles (main has returned, the  *)
(* workers are detached): a handle some thread may still query is never    *)
(* closed.                                                                 *)
NoQueryOnClosed == \A t \in Threads : pc[t] \in Owning => con[t] \notin closed
=============================================================================
