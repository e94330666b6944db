----------------------------- MODULE ThreadPool -----------------------------
(***************************************************************************)
(* ocean_http/threadpool/threadpool.h: a request list behind a mutex       *)
(* (m_queuelocker) and a semaphore that counts it (m_queuestat).  The      *)
(* event loop appends, detached workers take from the front.               *)
(*                                                                         *)
(* The constructor checks two of its arguments and stores none of them, so *)
(* m_thread_number, m_max_requests, m_actor_model and m_connPool keep      *)
(* whatever the allocation left: Init chooses them.                        *)
(*                                                                         *)
(* append takes any http_conn at any time: the caller (see WebServer) may  *)
(* append one that is queued or in a worker's hands, since the number of a *)
(* closed socket, and with it the object users + sockfd, is used again.    *)
(***************************************************************************)
EXTENDS LockWrappers, FiniteSets, SequencesExt

CONSTANTS Workers,      \* the threads the constructor creates
          Requests,     \* the http_conn objects
          Main,         \* the event loop's thread
          Garbage,      \* values an uninitialised int may hold
          MaxConn,      \* the handles of the connection pool
          MaxListed,    \* bound: append is called while fewer are listed
          NoRequest     \* a local that holds no request yet

ASSUME ThreadPoolAssumption ==
    /\ IsFiniteSet(Workers) /\ Unlocked \notin Workers
    /\ Main \notin Workers /\ Main # Unlocked
    /\ IsFiniteSet(Requests) /\ NoRequest \notin Requests
    /\ Garbage \subseteq Int /\ MaxConn \in Nat /\ MaxListed \in Nat

VARIABLES m_thread_number, m_max_requests, m_actor_model, m_connPool,  \* never assigned
          m_workqueue, m_queuelocker, m_queuestat,
          m_state,   \* per request, written by append
          phase,     \* of the process: ctor, running, aborted
          pc,        \* of the workers in run(), of Main in append
          request,   \* the local of run() and the argument of append
          state,     \* the argument of append, or KeepState for append_p
          pending    \* history: how often accepted and not yet done with

garbageVars == <<m_thread_number, m_max_requests, m_actor_model, m_connPool>>
ctorVars  == <<garbageVars, phase>>
queueVars == <<m_workqueue, m_queuelocker, m_queuestat>>
vars == <<ctorVars, queueVars, m_state, pc, request, state, pending>>

(* append_p leaves m_state alone. *)
KeepState == -1

Threads == Workers \cup {Main}

Queued == ToSet(m_workqueue)

Goto(t, from, to) == pc[t] = from /\ pc' = [pc EXCEPT ![t] = to]

Init ==
    /\ m_thread_number \in Garbage /\ m_max_requests \in Garbage
    /\ m_actor_model \in {0, 1}          \* 0: any other than 1
    /\ m_connPool \in {"pool", "wild"}   \* wild: any other pointer
    /\ phase = "ctor"
    /\ m_workqueue = <<>> /\ m_queuelocker = Unlocked /\ m_queuestat = 0
    /\ m_state = [r \in Requests |-> 0]
    /\ pc = [t \in Threads |-> "none"]
    /\ request = [t \in Threads |-> NoRequest] /\ state = KeepState
    /\ pending = [r \in Requests |-> 0]

-----------------------------------------------------------------------------
(* The constructor. *)

Created == {w \in Workers : pc[w] # "none"}

(* pthread_create and pthread_detach for the next slot of m_threads, which *)
(* has m_thread_number of them.                                            *)
CreateWorker(w) ==
    /\ phase = "ctor"
    /\ Cardinality(Created) < m_thread_number
    /\ Goto(w, "none", "wait")
    /\ UNCHANGED <<ctorVars, queueVars, m_state, request, state, pending>>

(* new[] throws for a negative size, pthread_create or pthread_detach      *)
(* fails, or the slot lies past the array (undefined behaviour): the       *)
(* process is lost.                                                        *)
CtorFails ==
    /\ phase = "ctor" /\ Created # Workers
    /\ phase' = "aborted"
    /\ UNCHANGED <<garbageVars, queueVars, m_state, pc, request, state, pending>>

CtorDone ==
    /\ phase = "ctor" /\ Created = Workers
    /\ phase' = "running"
    /\ Goto(Main, "none", "idle")
    /\ UNCHANGED <<garbageVars, queueVars, m_state, request, state, pending>>

-----------------------------------------------------------------------------
(* append(request, state) and append_p(request), called by the event loop. *)

CallAppend(r, s) ==
    /\ Len(m_workqueue) < MaxListed
    /\ Goto(Main, "idle", "lock")
    /\ request' = [request EXCEPT ![Main] = r] /\ state' = s
    /\ UNCHANGED <<ctorVars, queueVars, m_state, pending>>

AppendLock ==
    /\ Goto(Main, "lock", "push")
    /\ Lock(m_queuelocker, m_queuelocker', Main)
    /\ UNCHANGED <<ctorVars, m_workqueue, m_queuestat, m_state, request, state, pending>>

(* m_workqueue.size() >= m_max_requests compares a size_t with an int, so  *)
(* a negative limit is a huge one.                                         *)
Full == m_max_requests >= 0 /\ Len(m_workqueue) >= m_max_requests

(* The arguments of append are not used after the push. *)
DropArguments == request' = [request EXCEPT ![Main] = NoRequest] /\ state' = KeepState

AppendReject ==
    /\ Full
    /\ Goto(Main, "push", "idle")
    /\ Unlock(m_queuelocker, m_queuelocker')
    /\ DropArguments
    /\ UNCHANGED <<ctorVars, m_workqueue, m_queuestat, m_state, pending>>

(* Mutant: the newest request is put first. *)
AppendPushFront ==
    /\ ~Full
    /\ Goto(Main, "push", "unlock")
    /\ m_state' = IF state = KeepState THEN m_state ELSE [m_state EXCEPT ![request[Main]] = state]
    /\ m_workqueue' = <<request[Main]>> \o m_workqueue
    /\ pending' = [pending EXCEPT ![request[Main]] = @ + 1]
    /\ DropArguments
    /\ UNCHANGED <<ctorVars, m_queuelocker, m_queuestat>>

AppendPush ==
    /\ ~Full
    /\ Goto(Main, "push", "unlock")
    /\ m_state' = IF state = KeepState THEN m_state ELSE [m_state EXCEPT ![request[Main]] = state]
    /\ m_workqueue' = Append(m_workqueue, request[Main])
    /\ pending' = [pending EXCEPT ![request[Main]] = @ + 1]
    /\ DropArguments
    /\ UNCHANGED <<ctorVars, m_queuelocker, m_queuestat>>

AppendUnlock ==
    /\ Goto(Main, "unlock", "post")
    /\ Unlock(m_queuelocker, m_queuelocker')
    /\ UNCHANGED <<ctorVars, m_workqueue, m_queuestat, m_state, request, state, pending>>

(* Mutant: post is called twice. *)
AppendPostTwice ==
    /\ Goto(Main, "post", "idle")
    /\ m_queuestat' = m_queuestat + 2
    /\ UNCHANGED <<ctorVars, m_workqueue, m_queuelocker, m_state, request, state, pending>>

(* Mutant: the semaphore is not posted. *)
AppendPostNoPost ==
    /\ Goto(Main, "post", "idle")
    /\ UNCHANGED <<ctorVars, queueVars, m_state, request, state, pending>>

AppendPost ==
    /\ Goto(Main, "post", "idle")
    /\ SemPost(m_queuestat, m_queuestat')
    /\ UNCHANGED <<ctorVars, m_workqueue, m_queuelocker, m_state, request, state, pending>>

-----------------------------------------------------------------------------
(* run(), the loop of a worker. *)

RunWait(w) ==
    /\ Goto(w, "wait", "lock")
    /\ SemWait(m_queuestat, m_queuestat')
    /\ UNCHANGED <<ctorVars, m_workqueue, m_queuelocker, m_state, request, state, pending>>

(* Mutant: the mutex is not taken. *)
RunLockNoLock(w) ==
    /\ Goto(w, "lock", "front")
    /\ UNCHANGED <<ctorVars, queueVars, m_state, request, state, pending>>

RunLock(w) ==
    /\ Goto(w, "lock", "front")
    /\ Lock(m_queuelocker, m_queuelocker', w)
    /\ UNCHANGED <<ctorVars, m_workqueue, m_queuestat, m_state, request, state, pending>>

(* An empty list sends the worker back to the semaphore. *)
RunFront(w) ==
    /\ IF m_workqueue = <<>>
       THEN Goto(w, "front", "wait") /\ Unlock(m_queuelocker, m_queuelocker') /\ UNCHANGED request
       ELSE Goto(w, "front", "pop") /\ request' = [request EXCEPT ![w] = Head(m_workqueue)]
                                    /\ UNCHANGED m_queuelocker
    /\ UNCHANGED <<ctorVars, m_workqueue, m_queuestat, m_state, state, pending>>

RunPop(w) ==
    /\ Goto(w, "pop", "unlock")
    /\ m_workqueue' = Tail(m_workqueue)
    /\ UNCHANGED <<ctorVars, m_queuelocker, m_queuestat, m_state, request, state, pending>>

RunUnlock(w) ==
    /\ Goto(w, "unlock", "handle")
    /\ Unlock(m_queuelocker, m_queuelocker')
    /\ UNCHANGED <<ctorVars, m_workqueue, m_queuestat, m_state, request, state, pending>>

(* The end of the loop's body: write, or read_once when it failed, or      *)
(* process, has returned.  WebServer has the details.                      *)
Finish(w) ==
    /\ pending' = [pending EXCEPT ![request[w]] = @ - 1]
    /\ request' = [request EXCEPT ![w] = NoRequest]

(* A worker calls write for an append of state 1 and read_once for one of  *)
(* state 0 if m_actor_model happens to be 1, and process otherwise or when *)
(* read_once succeeded; process runs with a connectionRAII.  The null test *)
(* before it never fires, since users + sockfd is not null.                *)
RunHandle(w) ==
    /\ \/ Goto(w, "handle", "wait") /\ m_actor_model = 1 /\ Finish(w)
       \/ /\ Goto(w, "handle", "borrow")
          /\ m_actor_model = 1 => m_state[request[w]] = 0
          /\ UNCHANGED <<pending, request>>
    /\ UNCHANGED <<ctorVars, queueVars, m_state, state>>

(* Handles that no connectionRAII has: SqlConnectionPool has the details. *)
Free == MaxConn - Cardinality({w \in Workers : pc[w] = "process"})

(* conn_pool->GetConnection() answers NULL for an empty list.  Otherwise   *)
(* it waits for a handle, which others may have taken meanwhile.           *)
RunBorrow(w) ==
    /\ m_connPool = "pool"
    /\ IF Free = 0 THEN Goto(w, "borrow", "process_null") ELSE Goto(w, "borrow", "reserve")
    /\ UNCHANGED <<ctorVars, queueVars, m_state, request, state, pending>>

(* The pointer the constructor did not store is dereferenced. *)
RunWild(w) ==
    /\ m_connPool = "wild" /\ pc[w] = "borrow"
    /\ phase' = "aborted"
    /\ UNCHANGED <<garbageVars, queueVars, m_state, pc, request, state, pending>>

RunReserve(w) ==
    /\ Free > 0
    /\ Goto(w, "reserve", "process")
    /\ UNCHANGED <<ctorVars, queueVars, m_state, request, state, pending>>

(* process() returns and ~connectionRAII gives the handle back. *)
RunProcess(w) ==
    /\ Goto(w, "process", "wait") \/ Goto(w, "process_null", "wait")
    /\ Finish(w)
    /\ UNCHANGED <<ctorVars, queueVars, m_state, state>>

(* A registration without a handle calls mysql_query with NULL. *)
ProcessNull(w) ==
    /\ pc[w] = "process_null"
    /\ phase' = "aborted"
    /\ UNCHANGED <<garbageVars, queueVars, m_state, pc, request, state, pending>>

-----------------------------------------------------------------------------
Aborted == phase = "aborted" /\ UNCHANGED vars

AppendStep == AppendLock \/ AppendReject \/ AppendPush \/ AppendUnlock \/ AppendPost

RunStep(w) ==
    \/ RunWait(w) \/ RunFront(w) \/ RunPop(w) \/ RunUnlock(w) \/ RunHandle(w)
    \/ RunBorrow(w) \/ RunWild(w) \/ RunReserve(w) \/ RunProcess(w)

Next ==
    \/ CtorFails \/ CtorDone \/ Aborted
    \/ \E w \in Workers : CreateWorker(w)
    \/ /\ phase # "aborted"
       /\ \/ \E r \in Requests, s \in {0, 1, KeepState} : CallAppend(r, s)
          \/ AppendStep
          \/ \E w \in Workers : RunStep(w) \/ RunLock(w) \/ ProcessNull(w)

Spec == Init /\ [][Next]_vars

(* Every thread keeps running, and a worker that wants the mutex obtains   *)
(* it although the event loop takes it again and again: between two        *)
(* appends the event loop is outside the critical section for at least an  *)
(* epoll_wait.  read_once, process and write return.  Nobody has to call   *)
(* append, and a worker waiting for a handle may be overtaken for ever.    *)
FairSpec ==
    /\ Spec
    /\ WF_vars(phase # "aborted" /\ AppendStep)
    /\ WF_vars(CtorDone)
    /\ \A w \in Workers :
        /\ WF_vars(phase # "aborted" /\ RunStep(w))
        /\ SF_vars(phase # "aborted" /\ RunLock(w))
-----------------------------------------------------------------------------
(* Properties *)

TypeOK ==
    /\ m_thread_number \in Int /\ m_max_requests \in Int
    /\ m_actor_model \in {0, 1} /\ m_connPool \in {"pool", "wild"}
    /\ phase \in {"ctor", "running", "aborted"}
    /\ m_workqueue \in Seq(Requests) /\ m_queuestat \in Nat
    /\ m_queuelocker \in Threads \cup {Unlocked}
    /\ m_state \in [Requests -> {0, 1}]
    /\ pc \in [Threads -> {"none", "idle", "wait", "lock", "push", "front", "pop", "unlock",
                           "post", "handle", "borrow", "reserve", "process", "process_null"}]
    /\ request \in [Threads -> Requests \cup {NoRequest}]
    /\ state \in {0, 1, KeepState}
    /\ pending \in [Requests -> Nat]

(* The workers whose semaphore unit stands for a request still listed. *)
Taking == {w \in Workers : pc[w] \in {"lock", "front", "pop"}}

(* The semaphore counts the list exactly: every listed request has either  *)
(* a unit to wake a worker, a worker already on its way to it, or the unit *)
(* the event loop is about to post (append l.82-85 against run l.118-128). *)
SemaphoreCountsQueue ==
    Len(m_workqueue) =
        m_queuestat + Cardinality(Taking) + (IF pc[Main] \in {"unlock", "post"} THEN 1 ELSE 0)

(* A worker that got through the semaphore always finds a request: the     *)
(* empty() test of run l.120 is never true and no unit is wasted.          *)
NoEmptyWakeup == \A w \in Workers : pc[w] \in {"front", "pop"} => m_workqueue # <<>>

(* Who has taken a request off the list and is not done with it. *)
Working == {"unlock", "handle", "borrow", "reserve", "process", "process_null"}

Holding(r) == {w \in Workers : pc[w] \in Working /\ request[w] = r}

(* Every accepted append is listed or in the hands of one worker, never    *)
(* both and never neither, also when the same connection was appended      *)
(* again meanwhile: run neither loses an entry of m_workqueue nor hands it *)
(* to two workers (front l.126, pop_front l.127 and push_back l.83 under   *)
(* the mutex).                                                             *)
EachRequestOnce ==
    \A r \in Requests :
        pending[r] = Cardinality({i \in DOMAIN m_workqueue : m_workqueue[i] = r})
                        + Cardinality(Holding(r))

(* A listed request is taken by some worker, unless the process is lost:   *)
(* the list is first in first out, every unit of the semaphore wakes a     *)
(* worker, and the workers never all wait for a connection at once.        *)
ListedIsTaken ==
    \A r \in Requests :
        r \in Queued ~> \/ phase = "aborted"
                        \/ \E w \in Workers : pc[w] = "unlock" /\ request[w] = r
=============================================================================
