------------------------------ MODULE WebServer ------------------------------
(***************************************************************************)
(* The running server of ocean_http: the event loop (webserver.cpp), the   *)
(* connections (http_conn.cpp), their timers (timer/lst_timer.cpp) and the *)
(* bodies of the pool's workers (threadpool.h), on top of a kernel that    *)
(* reuses descriptor numbers.                                              *)
(*                                                                         *)
(* The timer list is used through what TimerQueue promises (tick takes     *)
(* exactly the timers that are due), so that its order does not matter     *)
(* here; the request queue through what ThreadPool establishes: one action *)
(* per call.  A handler of the event loop is one action up to the point    *)
(* where it waits for a worker (the loop on improv); a worker's handler is *)
(* cut wherever the event loop can see or overwrite what it does.          *)
(*                                                                         *)
(* accept, epoll, recv and the clients are the environment.  What a client *)
(* sent decides only which of its outcomes read_once or process has.       *)
(***************************************************************************)
EXTENDS Integers, Sequences, FiniteSets

CONSTANTS Fds,           \* descriptor numbers accept may return
          Clients,       \* client connections, each made once
          Workers,       \* threads of the pool
          Timers,        \* addresses of util_timer objects
          None,          \* no client, no timer
          MAX_FD,        \* limit on m_user_count
          Lifetime,      \* 3, the deadline of a timer in units of TIMESLOT
          ListenET,      \* m_LISTENTrigmode = 1
          Configs        \* how the server may have been started, see ServerAssumption

ASSUME ServerAssumption ==
    /\ Fds \subseteq Nat /\ IsFiniteSet(Fds)
    /\ MAX_FD \in Nat /\ Lifetime \in Nat \ {0}
    /\ ListenET \in BOOLEAN
    \* the option -a, and the pool's m_actor_model, m_max_requests and m_connPool,
    \* which its constructor leaves uninitialised
    /\ Configs \subseteq [m_actormodel : {0, 1}, m_actor_model : Int, m_max_requests : Nat,
                          m_connPool : {"pool", "wild"}]
    /\ None \notin Clients /\ None \notin Timers

VARIABLES
  \* kernel
    connecting,    \* clients that have not been accepted
    kern,          \* the client behind each descriptor number
    epoll,         \* one-shot registration: absent, off, in or out
    alarm,         \* an alarm(TIMESLOT) is running
    pipe,          \* signals written by sig_handler and not yet read
  \* users[] and http_conn's static
    m_sokcfd, m_state, improv, timer_flag, m_user_count,
  \* users_timer[] and the timer list
    timer,         \* users_timer[fd].timer
    timer_lst,     \* the timers in the list
    left,          \* per timer, slots until it is due
    user_data,     \* per timer, the descriptor number it will close
    of,            \* history: per timer, the client it was created for
  \* event loop
    main,          \* wait, events, spin, flag, stopped, crashed or undefined
    events,        \* what epoll_wait returned and is still to be handled
    sockfd,        \* the descriptor the loop on improv is about
    timeout, stop_server,
    config,        \* m_actormodel, and three members of the pool
  \* pool
    m_workqueue,
    run,           \* per worker, where it is in run()
    request,       \* per worker, its users + sockfd
    count          \* per worker, m_user_count loaded by close_conn

kernelVars == <<connecting, kern, epoll, alarm, pipe>>
userVars   == <<m_sokcfd, m_state, improv, timer_flag, m_user_count>>
timerVars  == <<timer, timer_lst, left, user_data, of>>
loopVars   == <<main, events, sockfd, timeout, stop_server, config>>
poolVars   == <<m_workqueue, run, request, count>>
vars == <<kernelVars, userVars, timerVars, loopVars, poolVars>>

Init ==
    /\ connecting = Clients /\ kern = [fd \in Fds |-> None] /\ epoll = [fd \in Fds |-> "absent"]
    /\ alarm = TRUE /\ pipe = {}
    /\ m_sokcfd = [fd \in Fds |-> -1] /\ m_state = [fd \in Fds |-> 0]
    /\ improv = [fd \in Fds |-> 0] /\ timer_flag = [fd \in Fds |-> 0] /\ m_user_count = 0
    /\ timer = [fd \in Fds |-> None] /\ timer_lst = {}
    /\ left = [t \in Timers |-> 0] /\ user_data = [t \in Timers |-> 0]
    /\ of = [t \in Timers |-> None]
    /\ main = "wait" /\ events = {} /\ sockfd = 0 /\ timeout = FALSE /\ stop_server = FALSE
    /\ config \in Configs
    /\ m_workqueue = <<>> /\ run = [w \in Workers |-> "wait"]
    /\ request = [w \in Workers |-> 0] /\ count = [w \in Workers |-> 0]

-----------------------------------------------------------------------------
(* Kernel calls. *)

(* close after EPOLL_CTL_DEL of a set of descriptors; closing one that is  *)
(* not open fails and changes nothing.                                     *)
Close(fds) ==
    /\ kern' = [fd \in Fds |-> IF fd \in fds THEN None ELSE kern[fd]]
    /\ epoll' = [fd \in Fds |-> IF fd \in fds THEN "absent" ELSE epoll[fd]]

(* modfd: EPOLL_CTL_MOD fails for a descriptor that is not registered, and *)
(* for -1.                                                                 *)
modfd(fd, ev) ==
    epoll' = IF fd # -1 /\ epoll[fd] # "absent" THEN [epoll EXCEPT ![fd] = ev] ELSE epoll

(* A slot passes; a running alarm expires and sig_handler writes SIGALRM.  *)
TimePasses ==
    /\ alarm \/ \E t \in timer_lst : left[t] > 0
    /\ left' = [t \in Timers |-> IF left[t] > 0 THEN left[t] - 1 ELSE 0]
    /\ alarm' = FALSE
    /\ pipe' = IF alarm THEN pipe \cup {"SIGALRM"} ELSE pipe
    /\ UNCHANGED <<connecting, kern, epoll, userVars, timer, timer_lst, user_data, of,
                   loopVars, poolVars>>

Sigterm ==
    /\ pipe' = pipe \cup {"SIGTERM"}
    /\ UNCHANGED <<connecting, kern, epoll, alarm, userVars, timerVars, loopVars, poolVars>>

-----------------------------------------------------------------------------
(* Timers, as the event loop uses them. *)

(* delete: the objects leave the list and their members are gone. *)
Delete(ts) ==
    /\ timer_lst' = timer_lst \ ts
    /\ left' = [t \in Timers |-> IF t \in ts THEN 0 ELSE left[t]]
    /\ user_data' = [t \in Timers |-> IF t \in ts THEN 0 ELSE user_data[t]]
    /\ of' = [t \in Timers |-> IF t \in ts THEN None ELSE of[t]]

(* webserver::adjust_timer: the timer gets a full lifetime from now and    *)
(* stays in the list.  A pointer to a timer that was deleted must not be   *)
(* followed.                                                               *)
adjust_timer(t, then) ==
    /\ IF t \in timer_lst
       THEN left' = [left EXCEPT ![t] = Lifetime] /\ main' = then
       ELSE main' = "undefined" /\ UNCHANGED left
    /\ UNCHANGED timer_lst

(* Mutant: the timer is deleted but its callback is not run. *)
deal_timer_no_callback(t, fd) ==
    /\ IF t \in timer_lst
       THEN Delete({t}) /\ main' = "events"
       ELSE main' = "undefined" /\ UNCHANGED <<timer_lst, left, user_data, of>>
    /\ UNCHANGED <<connecting, kern, epoll, alarm, pipe, timer, m_user_count>>

(* webserver::deal_timer: cb_func closes the descriptor and counts, then   *)
(* del_timer.  users_timer[fd].timer and users[fd].m_sokcfd stay as they   *)
(* were.                                                                   *)
deal_timer(t, fd) ==
    /\ Close({fd})
    /\ m_user_count' = m_user_count - 1
    /\ IF t \in timer_lst
       THEN Delete({t}) /\ main' = "events"
       ELSE main' = "undefined" /\ UNCHANGED <<timer_lst, left, user_data, of>>
    /\ UNCHANGED <<connecting, alarm, pipe, timer>>

-----------------------------------------------------------------------------
(* The event loop. *)

Armed == {fd \in Fds : epoll[fd] \in {"in", "out"}}

(* epoll_wait returns at most one event per descriptor, and a one-shot     *)
(* registration that is reported is disarmed.  Which armed descriptors are *)
(* ready, and which of them hung up, is up to the clients.                 *)
epoll_wait ==
    /\ main = "wait"
    /\ \E ready \in SUBSET Armed, acc \in SUBSET ({"listen"} \X {0}) : \E hup \in SUBSET ready :
        /\ acc # {} => connecting # {}
        /\ events' = acc \cup (IF pipe # {} THEN {<<"pipe", 0>>} ELSE {})
                         \cup {<<"hup", fd>> : fd \in hup}
                         \cup {<<epoll[fd], fd>> : fd \in ready \ hup}
        /\ epoll' = [fd \in Fds |-> IF fd \in ready THEN "off" ELSE epoll[fd]]
    /\ events' # {}
    /\ main' = "events"
    /\ UNCHANGED <<connecting, kern, alarm, pipe, userVars, timerVars, sockfd, timeout,
                   stop_server, config, poolVars>>

Take(ev) == main = "events" /\ ev \in events /\ events' = events \ {ev}

(* accept fails: no client is left or there is no free descriptor. *)
AcceptFails ==
    /\ Take(<<"listen", 0>>)
    /\ connecting = {} \/ \A fd \in Fds : kern[fd] # None
    /\ UNCHANGED <<kernelVars, userVars, timerVars, main, sockfd, timeout, stop_server, config, poolVars>>

(* The count is at its limit: show_error closes the new connection. *)
AcceptBusy ==
    /\ Take(<<"listen", 0>>)
    /\ \E fd \in Fds : kern[fd] = None
    /\ m_user_count >= MAX_FD
    /\ \E c \in connecting : connecting' = connecting \ {c}
    /\ UNCHANGED <<kern, epoll, alarm, pipe, userVars, timerVars, main, sockfd, timeout,
                   stop_server, config, poolVars>>

(* accept returns the lowest free descriptor; timer() initialises users[]  *)
(* and users_timer[] and adds a new timer.  With an edge-triggered listen  *)
(* socket the handler goes on to the next client.                          *)
Accept ==
    /\ main = "events" /\ <<"listen", 0>> \in events
    /\ m_user_count < MAX_FD
    /\ \E c \in connecting, fd \in Fds, t \in Timers \ timer_lst :
        /\ kern[fd] = None /\ \A f \in Fds : kern[f] = None => fd <= f
        /\ connecting' = connecting \ {c}
        /\ kern' = [kern EXCEPT ![fd] = c] /\ epoll' = [epoll EXCEPT ![fd] = "in"]
        /\ m_sokcfd' = [m_sokcfd EXCEPT ![fd] = fd] /\ m_state' = [m_state EXCEPT ![fd] = 0]
        /\ improv' = [improv EXCEPT ![fd] = 0] /\ timer_flag' = [timer_flag EXCEPT ![fd] = 0]
        /\ timer' = [timer EXCEPT ![fd] = t] /\ timer_lst' = timer_lst \cup {t}
        /\ left' = [left EXCEPT ![t] = Lifetime]
        /\ user_data' = [user_data EXCEPT ![t] = fd] /\ of' = [of EXCEPT ![t] = c]
    /\ m_user_count' = m_user_count + 1
    /\ events' = IF ListenET THEN events ELSE events \ {<<"listen", 0>>}
    /\ UNCHANGED <<alarm, pipe, main, sockfd, timeout, stop_server, config, poolVars>>

(* EPOLLRDHUP, EPOLLHUP or EPOLLERR. *)
HangUp(fd) ==
    /\ Take(<<"hup", fd>>)
    /\ deal_timer(timer[fd], fd)
    /\ UNCHANGED <<m_sokcfd, m_state, improv, timer_flag, sockfd, timeout, stop_server, config, poolVars>>

dealwithsignal ==
    /\ Take(<<"pipe", 0>>)
    /\ timeout' = (timeout \/ "SIGALRM" \in pipe)
    /\ stop_server' = (stop_server \/ "SIGTERM" \in pipe)
    /\ pipe' = {}
    /\ UNCHANGED <<connecting, kern, epoll, alarm, userVars, timerVars, main, sockfd, config, poolVars>>

(* What read_once may return: recv on -1 or on a closed descriptor fails.  *)
ReadOnce(fd) == IF m_sokcfd[fd] = -1 \/ kern[fd] = None THEN {FALSE} ELSE BOOLEAN

(* append and append_p: a full queue drops the request, and no caller      *)
(* looks at the result.                                                    *)
Full == Len(m_workqueue) >= config.m_max_requests

append(fd) == m_workqueue' = IF Full THEN m_workqueue ELSE Append(m_workqueue, fd)

(* Reactor: dealwithread and dealwithwrite hand the event to a worker and  *)
(* spin on improv.                                                         *)
DealReactor(fd, ev, state) ==
    /\ config.m_actormodel = 1
    /\ Take(<<ev, fd>>)
    /\ adjust_timer(timer[fd], "spin")
    /\ append(fd)
    /\ m_state' = IF Full THEN m_state ELSE [m_state EXCEPT ![fd] = state]
    /\ sockfd' = fd
    /\ UNCHANGED <<kernelVars, m_sokcfd, improv, timer_flag, m_user_count, timer, user_data, of,
                   timeout, stop_server, config, run, request, count>>

(* The loop sees improv = 1 ... *)
SpinSeen ==
    /\ main = "spin" /\ improv[sockfd] = 1
    /\ main' = "flag"
    /\ UNCHANGED <<kernelVars, userVars, timerVars, events, sockfd, timeout, stop_server, config, poolVars>>

(* ... then reads timer_flag, and resets improv. *)
SpinFlag ==
    /\ main = "flag" /\ sockfd' = 0
    /\ improv' = [improv EXCEPT ![sockfd] = 0]
    /\ IF timer_flag[sockfd] = 1
       THEN /\ deal_timer(timer[sockfd], sockfd)
            /\ timer_flag' = [timer_flag EXCEPT ![sockfd] = 0]
       ELSE main' = "events" /\ UNCHANGED <<kernelVars, timer_flag, m_user_count, timerVars>>
    /\ UNCHANGED <<m_sokcfd, m_state, events, timeout, stop_server, config, poolVars>>

(* Proactor: the event loop reads and hands the request over ... *)
dealwithread(fd) ==
    /\ config.m_actormodel # 1 /\ Take(<<"in", fd>>)
    /\ \E ok \in ReadOnce(fd) :
        IF ok THEN append(fd) /\ adjust_timer(timer[fd], "events")
                   /\ UNCHANGED <<kernelVars, m_user_count, timer, user_data, of>>
              ELSE deal_timer(timer[fd], fd) /\ UNCHANGED m_workqueue
    /\ UNCHANGED <<m_sokcfd, m_state, improv, timer_flag, sockfd, timeout, stop_server, config,
                   run, request, count>>

(* ... and writes.  write() has no return statement: any result. *)
dealwithwrite(fd) ==
    /\ config.m_actormodel # 1 /\ Take(<<"out", fd>>)
    /\ \/ adjust_timer(timer[fd], "events")
          /\ UNCHANGED <<kernelVars, m_user_count, timer, user_data, of>>
       \/ deal_timer(timer[fd], fd)
    /\ UNCHANGED <<m_sokcfd, m_state, improv, timer_flag, sockfd, timeout, stop_server, config, poolVars>>

(* Mutant: due timers are deleted but their callback is not run. *)
timer_handler_no_callback ==
    /\ Delete({t \in timer_lst : left[t] = 0})
    /\ alarm' = TRUE
    /\ UNCHANGED <<kern, epoll, m_user_count>>

(* timer_handler: tick closes the descriptor of every due timer, and the   *)
(* next alarm is set.                                                      *)
timer_handler ==
    LET due == {t \in timer_lst : left[t] = 0}
    IN  /\ Close({user_data[t] : t \in due})
        /\ m_user_count' = m_user_count - Cardinality(due)
        /\ Delete(due)
        /\ alarm' = TRUE

(* All events are handled. *)
EndOfEvents ==
    /\ main = "events" /\ events = {}
    /\ IF timeout THEN timer_handler ELSE UNCHANGED <<kern, epoll, m_user_count, timer_lst, left, user_data, of, alarm>>
    /\ timeout' = FALSE
    /\ main' = IF stop_server THEN "stopped" ELSE "wait"
    /\ UNCHANGED <<connecting, pipe, m_sokcfd, m_state, improv, timer_flag, timer, events, sockfd, stop_server, config, poolVars>>

-----------------------------------------------------------------------------
(* The workers: run() of the pool and the http_conn methods it calls. *)

Running == main \notin {"stopped", "crashed", "undefined"}

(* A worker that goes back to the semaphore has no request. *)
Goto(w, from, to) ==
    /\ run[w] = from
    /\ run' = [run EXCEPT ![w] = to]
    /\ request' = IF to = "wait" THEN [request EXCEPT ![w] = 0] ELSE request

workerRest == <<connecting, alarm, pipe, m_state, timerVars, loopVars>>

(* The worker takes a request off the queue and looks at the actor model   *)
(* and at m_state.                                                         *)
RunTake(w) ==
    /\ m_workqueue # <<>>
    /\ run[w] = "wait"
    /\ run' = [run EXCEPT ![w] =
                  CASE config.m_actor_model # 1 -> "process"
                    [] config.m_actor_model = 1 /\ m_state[Head(m_workqueue)] = 0 -> "read"
                    [] config.m_actor_model = 1 /\ m_state[Head(m_workqueue)] = 1 -> "write"]
    /\ request' = [request EXCEPT ![w] = Head(m_workqueue)]
    /\ m_workqueue' = Tail(m_workqueue)
    /\ UNCHANGED <<workerRest, kern, epoll, m_sokcfd, improv, timer_flag, m_user_count, count>>

(* Mutant: a failed read does not set improv. *)
RunReadSilent(w) ==
    /\ run[w] = "read"
    /\ \E ok \in ReadOnce(request[w]) :
        /\ Goto(w, "read", IF ok THEN "process" ELSE "flag")
        /\ improv' = IF ok THEN [improv EXCEPT ![request[w]] = 1] ELSE improv
    /\ UNCHANGED <<workerRest, kern, epoll, m_sokcfd, timer_flag, m_user_count, m_workqueue, count>>

(* read_once, then improv = 1 in either case. *)
RunRead(w) ==
    /\ run[w] = "read"
    /\ \E ok \in ReadOnce(request[w]) : Goto(w, "read", IF ok THEN "process" ELSE "flag")
    /\ improv' = [improv EXCEPT ![request[w]] = 1]
    /\ UNCHANGED <<workerRest, kern, epoll, m_sokcfd, timer_flag, m_user_count, m_workqueue, count>>

(* write() returns anything; improv = 1 in either case. *)
RunWrite(w) ==
    /\ \E ok \in BOOLEAN : Goto(w, "write", IF ok THEN "wait" ELSE "flag")
    /\ improv' = [improv EXCEPT ![request[w]] = 1]
    /\ UNCHANGED <<workerRest, kern, epoll, m_sokcfd, timer_flag, m_user_count, m_workqueue, count>>

(* timer_flag = 1, after improv. *)
RunFlag(w) ==
    /\ Goto(w, "flag", "wait")
    /\ timer_flag' = [timer_flag EXCEPT ![request[w]] = 1]
    /\ UNCHANGED <<workerRest, kern, epoll, m_sokcfd, improv, m_user_count, m_workqueue, count>>

(* connectionRAII follows m_connPool before process starts.  A pointer     *)
(* that happens to be wild ends the program; so does a registration whose  *)
(* GetConnection found that other workers have every handle, and answered  *)
(* NULL.  (A call that waits for a handle gets one: SqlConnectionPool.)    *)
ProcessDies(w) ==
    /\ run[w] = "process"
    /\ \/ config.m_connPool = "wild"
       \/ \E v \in Workers \ {w} : run[v] \in {"process", "reset", "load", "store", "modfd"}
    /\ main' = "crashed"
    /\ UNCHANGED <<kernelVars, userVars, timerVars, events, sockfd, timeout, stop_server, config, poolVars>>

(* process: the request is incomplete (EPOLLIN) or a response is prepared  *)
(* (EPOLLOUT).                                                             *)
ProcessRearm(w, ev) ==
    /\ config.m_connPool = "pool"
    /\ Goto(w, "process", "wait")
    /\ modfd(m_sokcfd[request[w]], ev)
    /\ UNCHANGED <<workerRest, kern, m_sokcfd, improv, timer_flag, m_user_count, m_workqueue, count>>

(* process: process_write fails, close_conn removes the descriptor unless  *)
(* m_sokcfd is -1 already ...                                              *)
ProcessClose(w) ==
    LET fd == m_sokcfd[request[w]]
    IN  /\ config.m_connPool = "pool"
        /\ Goto(w, "process", IF fd # -1 THEN "reset" ELSE "modfd")
        /\ Close({fd})
        /\ UNCHANGED <<workerRest, m_sokcfd, improv, timer_flag, m_user_count, m_workqueue, count>>

(* ... m_sokcfd = -1 ... *)
CloseReset(w) ==
    /\ Goto(w, "reset", "load")
    /\ m_sokcfd' = [m_sokcfd EXCEPT ![request[w]] = -1]
    /\ UNCHANGED <<workerRest, kern, epoll, improv, timer_flag, m_user_count, m_workqueue, count>>

(* ... m_user_count-- without synchronisation: a load and a store.  (The   *)
(* event loop's own updates are single steps: of two racing updates one is *)
(* lost either way.)                                                       *)
CloseLoad(w) ==
    /\ Goto(w, "load", "store")
    /\ count' = [count EXCEPT ![w] = m_user_count]
    /\ UNCHANGED <<workerRest, kern, epoll, m_sokcfd, improv, timer_flag, m_user_count, m_workqueue>>

CloseStore(w) ==
    /\ Goto(w, "store", "modfd")
    /\ m_user_count' = count[w] - 1
    /\ count' = [count EXCEPT ![w] = 0]
    /\ UNCHANGED <<workerRest, kern, epoll, m_sokcfd, improv, timer_flag, m_workqueue>>

(* ... and process goes on to modfd with whatever m_sokcfd is by then. *)
ProcessModfd(w) ==
    /\ Goto(w, "modfd", "wait")
    /\ modfd(m_sokcfd[request[w]], "out")
    /\ UNCHANGED <<workerRest, kern, m_sokcfd, improv, timer_flag, m_user_count, m_workqueue, count>>

RunStep(w) ==
    \/ RunTake(w) \/ RunRead(w) \/ RunWrite(w) \/ RunFlag(w) \/ ProcessDies(w)
    \/ \E ev \in {"in", "out"} : ProcessRearm(w, ev)
    \/ ProcessClose(w) \/ CloseReset(w) \/ CloseLoad(w) \/ CloseStore(w) \/ ProcessModfd(w)

LoopStep ==
    \/ epoll_wait \/ AcceptFails \/ AcceptBusy \/ Accept \/ dealwithsignal \/ EndOfEvents
    \/ \E fd \in Fds :
        \/ HangUp(fd) \/ dealwithread(fd) \/ dealwithwrite(fd)
        \/ DealReactor(fd, "in", 0) \/ DealReactor(fd, "out", 1)
    \/ SpinSeen \/ SpinFlag

Stopped == ~Running /\ UNCHANGED vars

Next ==
    \/ LoopStep
    \/ Running /\ (TimePasses \/ Sigterm \/ \E w \in Workers : RunStep(w))
    \/ Stopped

Spec == Init /\ [][Next]_vars

(* The threads are scheduled and time passes; clients, signals other than  *)
(* the alarm, and the outcome of a read or of process are not fair.        *)
FairSpec ==
    /\ Spec
    /\ WF_vars(LoopStep) /\ WF_vars(Running /\ TimePasses)
    /\ \A w \in Workers : WF_vars(Running /\ RunStep(w))

-----------------------------------------------------------------------------
(* Properties *)

TypeOK ==
    /\ connecting \subseteq Clients /\ kern \in [Fds -> Clients \cup {None}]
    /\ epoll \in [Fds -> {"absent", "off", "in", "out"}]
    /\ alarm \in BOOLEAN /\ pipe \subseteq {"SIGALRM", "SIGTERM"}
    /\ \A fd \in Fds : m_sokcfd[fd] \in {-1, fd}
    /\ m_state \in [Fds -> {0, 1}] /\ improv \in [Fds -> {0, 1}] /\ timer_flag \in [Fds -> {0, 1}]
    /\ m_user_count \in Int
    /\ timer \in [Fds -> Timers \cup {None}]
    /\ timer_lst \subseteq Timers
    /\ left \in [Timers -> 0..Lifetime] /\ user_data \in [Timers -> Fds \cup {0}]
    /\ of \in [Timers -> Clients \cup {None}]
    /\ main \in {"wait", "events", "spin", "flag", "stopped", "crashed", "undefined"}
    /\ events \subseteq ({"listen", "pipe"} \X {0}) \cup ({"hup", "in", "out"} \X Fds)
    /\ config \in Configs /\ sockfd \in Fds \cup {0} /\ timeout \in BOOLEAN /\ stop_server \in BOOLEAN
    /\ \A i \in 1..Len(m_workqueue) : m_workqueue[i] \in Fds
    /\ request \in [Workers -> Fds \cup {0}]

(* The event loop never follows a pointer to a deleted timer, although     *)
(* deal_timer and tick leave users_timer[fd].timer dangling: a descriptor  *)
(* is reported only while its latest timer is in the list.                 *)
NoDanglingTimer == main # "undefined"

(* No connection can be forgotten: whoever closed and reopened descriptors *)
(* in between, the connection that is open on a descriptor has its own     *)
(* timer in the list, and users_timer points to it.                        *)
OpenHasTimer ==
    \A fd \in Fds : kern[fd] # None =>
        /\ timer[fd] \in timer_lst
        /\ of[timer[fd]] = kern[fd] /\ user_data[timer[fd]] = fd

(* In reactor mode the event loop waits for ever when the pool cannot do   *)
(* what it waits for: the members its constructor leaves uninitialised     *)
(* make it reject the request, or process it without setting improv.       *)
Stalled ==
    /\ main = "spin"
    /\ config.m_actor_model # 1 \/ config.m_max_requests = 0

(* An accepted connection never just stays: again and again it is closed   *)
(* or its client gave a sign of life that renewed the timer (the alarm     *)
(* chain of timer_handler, tick and the closing callback together), unless *)
(* the event loop is stalled.                                              *)
IdleIsClosed ==
    \A c \in Clients : []<>(\/ ~Running \/ Stalled
                           \/ \A fd \in Fds : kern[fd] = c => left[timer[fd]] = Lifetime)

(* lst_timer.cpp:205: the timer is set again so that SIGALRM keeps coming. *)
(* It does, in every handler of both actor models, unless the event loop   *)
(* is stalled.                                                             *)
AlarmKeepsComing == []<>(~Running \/ Stalled \/ "SIGALRM" \in pipe)

(* http_conn.cpp:108: closing a connection takes one off the number of     *)
(* clients.  Between the steps of a close the count is allowed to lag.     *)
UserCountExact ==
    (\A w \in Workers : run[w] \notin {"reset", "load", "store"}) =>
        m_user_count = Cardinality({fd \in Fds : kern[fd] # None})
=============================================================================
