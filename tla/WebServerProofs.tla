-------------------------- MODULE WebServerProofs --------------------------
(***************************************************************************)
(* Proofs about WebServer, for any number of descriptors, clients, workers *)
(* and timers, any limits, both actor models and any value of the members  *)
(* the pool's constructor leaves uninitialised.                            *)
(***************************************************************************)
EXTENDS WebServer, SequenceTheorems, FiniteSetTheorems, TLAPS

-----------------------------------------------------------------------------
(* The inductive invariant *)

(* What the invariant needs to know of the shape of the state. *)
Shape ==
    /\ connecting \subseteq Clients /\ kern \in [Fds -> Clients \cup {None}]
    /\ epoll \in [Fds -> {"absent", "off", "in", "out"}]
    /\ timer \in [Fds -> Timers \cup {None}] /\ timer_lst \subseteq Timers
    /\ user_data \in [Timers -> Fds \cup {0}] /\ of \in [Timers -> Clients \cup {None}]
    /\ main \in {"wait", "events", "spin", "flag", "stopped", "crashed"}

(* Only an open descriptor is registered. *)
Registered == \A fd \in Fds : epoll[fd] # "absent" => kern[fd] # None

(* users_timer[fd] points to a timer of the list that will close fd. *)
Guarded(fd) == timer[fd] \in timer_lst /\ user_data[timer[fd]] = fd

(* The events of connections. *)
Io == {"hup", "in", "out"}

(* epoll_wait reported each descriptor at most once, and the timer of a    *)
(* reported descriptor stays until its event is handled, even when a       *)
(* worker closes the connection or another client gets the descriptor.     *)
Reported ==
    /\ \A ev \in Io, fd \in Fds : <<ev, fd>> \in events => Guarded(fd)
    /\ \A a, b \in Io, fd \in Fds : <<a, fd>> \in events /\ <<b, fd>> \in events => a = b

(* The same of the descriptor whose improv the event loop is waiting for. *)
Spinning ==
    main \in {"spin", "flag"} =>
        sockfd \in Fds /\ Guarded(sockfd) /\ \A ev \in Io : <<ev, sockfd>> \notin events

Inv == Shape /\ Registered /\ OpenHasTimer /\ Reported /\ Spinning

(* No descriptor is open and nothing has been reported. *)
LEMMA InvInit == Init => Inv
<1>. SUFFICES ASSUME Init PROVE Inv
  OBVIOUS
<1>1. Shape
  BY DEF Init, Shape
<1>2. Registered /\ OpenHasTimer
  BY DEF Init, Registered, OpenHasTimer
<1>3. Reported /\ Spinning
  BY DEF Init, Reported, Spinning
<1>. QED  BY <1>1, <1>2, <1>3 DEF Inv

-----------------------------------------------------------------------------
(* What the helpers of the event loop preserve *)

(* Everything but the kernel's table of descriptors and registrations. *)
LoopUnchanged ==
    UNCHANGED <<connecting, timer, timer_lst, user_data, of, main, events, sockfd>>

(* Steps outside the event loop may close descriptors and rearm registered *)
(* ones, as long as they leave timers and events alone.                    *)
LEMMA KernelStep ==
    ASSUME Inv, LoopUnchanged, Shape',
           \A fd \in Fds : kern'[fd] = kern[fd] \/ kern'[fd] = None,
           \A fd \in Fds : epoll'[fd] # "absent" => kern'[fd] # None
    PROVE  Inv'
<1>1. Registered'
  BY DEF Registered
<1>2. OpenHasTimer'
  BY DEF Inv, OpenHasTimer, LoopUnchanged
<1>3. Reported' /\ Spinning'
  BY DEF Inv, Reported, Spinning, Guarded, LoopUnchanged
<1>. QED  BY <1>1, <1>2, <1>3 DEF Inv

(* cb_func and del_timer for a descriptor that has no further event.       *)
LEMMA DealTimer ==
    ASSUME Inv, NEW fd \in Fds, Guarded(fd), deal_timer(timer[fd], fd),
           events' \subseteq events, \A ev \in Io : <<ev, fd>> \notin events'
    PROVE  Inv'
<1>. USE DEF Inv
<1>1. /\ kern' = [f \in Fds |-> IF f = fd THEN None ELSE kern[f]]
      /\ epoll' = [f \in Fds |-> IF f = fd THEN "absent" ELSE epoll[f]]
      /\ timer' = timer /\ connecting' = connecting /\ main' = "events"
      /\ timer_lst' = timer_lst \ {timer[fd]}
      /\ user_data' = [t \in Timers |-> IF t = timer[fd] THEN 0 ELSE user_data[t]]
      /\ of' = [t \in Timers |-> IF t = timer[fd] THEN None ELSE of[t]]
  BY DEF deal_timer, Close, Delete, Guarded
<1>2. \A f \in Fds : Guarded(f) /\ f # fd => Guarded(f)'
  BY <1>1 DEF Guarded, Shape
<1>3. Shape'
  BY <1>1 DEF Shape
<1>4. Registered'
  BY <1>1 DEF Registered
<1>5. OpenHasTimer'
  BY <1>1 DEF OpenHasTimer, Guarded, Shape
<1>6. Reported'
  BY <1>2 DEF Reported
<1>7. Spinning'
  BY <1>1 DEF Spinning
<1>. QED  BY <1>3, <1>4, <1>5, <1>6, <1>7

(* adjust_timer for a descriptor that has no further event: the loop goes  *)
(* on with the next event, or waits for this descriptor's worker.          *)
LEMMA AdjustTimer ==
    ASSUME Inv, NEW fd \in Fds, Guarded(fd), NEW then \in {"events", "spin"},
           adjust_timer(timer[fd], then),
           UNCHANGED <<connecting, kern, epoll, timer, user_data, of>>,
           then = "spin" => sockfd' = fd,
           events' \subseteq events, \A ev \in Io : <<ev, fd>> \notin events'
    PROVE  Inv'
<1>. USE DEF Inv
<1>1. main' = then /\ timer_lst' = timer_lst
  BY DEF adjust_timer, Guarded
<1>2. \A f \in Fds : Guarded(f)' <=> Guarded(f)
  BY <1>1 DEF Guarded
<1>3. Shape' /\ Registered' /\ OpenHasTimer'
  BY <1>1 DEF Shape, Registered, OpenHasTimer
<1>4. Reported'
  BY <1>2 DEF Reported
<1>5. Spinning'
  BY <1>1, <1>2 DEF Spinning
<1>. QED  BY <1>3, <1>4, <1>5

(* The event that is taken is the only one of its descriptor. *)
LEMMA TakeIo ==
    ASSUME Inv, NEW fd \in Fds, NEW ev \in Io, Take(<<ev, fd>>)
    PROVE  /\ Guarded(fd) /\ events' \subseteq events
           /\ \A e \in Io : <<e, fd>> \notin events'
  BY DEF Inv, Reported, Take

-----------------------------------------------------------------------------
(* One lemma per kind of step *)

(* epoll_wait reports registered descriptors, which are open and so have   *)
(* their timer.                                                            *)
LEMMA WaitStep == Inv /\ epoll_wait => Inv'
<1>. SUFFICES ASSUME Inv, epoll_wait PROVE Inv'
  OBVIOUS
<1>. USE DEF Inv
<1>1. UNCHANGED <<connecting, kern, timer, timer_lst, user_data, of>> /\ main' = "events"
  BY DEF epoll_wait, timerVars
<1>2. PICK ready \in SUBSET Armed, acc \in SUBSET ({"listen"} \X {0}) : \E hup \in SUBSET ready :
        /\ events' = acc \cup (IF pipe # {} THEN {<<"pipe", 0>>} ELSE {})
                         \cup {<<"hup", fd>> : fd \in hup}
                         \cup {<<epoll[fd], fd>> : fd \in ready \ hup}
        /\ epoll' = [fd \in Fds |-> IF fd \in ready THEN "off" ELSE epoll[fd]]
  BY DEF epoll_wait
<1>3. PICK hup \in SUBSET ready :
        events' = acc \cup (IF pipe # {} THEN {<<"pipe", 0>>} ELSE {})
                      \cup {<<"hup", fd>> : fd \in hup}
                      \cup {<<epoll[fd], fd>> : fd \in ready \ hup}
  BY <1>2
<1>4. \A ev \in Io, fd \in Fds : <<ev, fd>> \in events' <=>
          \/ ev = "hup" /\ fd \in hup
          \/ ev = epoll[fd] /\ fd \in ready \ hup
  BY <1>3 DEF Io
<1>5. \A fd \in ready : Guarded(fd)' /\ epoll[fd] # "absent" /\ epoll[fd] # "hup"
  BY <1>1 DEF Armed, Registered, OpenHasTimer, Guarded
<1>6. Shape' /\ Registered'
  BY <1>1, <1>2, <1>5 DEF Shape, Registered
<1>7. OpenHasTimer'
  BY <1>1 DEF OpenHasTimer
<1>8. Reported'
  BY <1>4, <1>5 DEF Reported
<1>9. Spinning'
  BY <1>1 DEF Spinning
<1>. QED  BY <1>6, <1>7, <1>8, <1>9

(* accept: the new timer is not in the list, so it is not the timer of any *)
(* other descriptor, and it guards the new connection.                     *)
LEMMA AcceptStep == Inv /\ Accept => Inv'
<1>. SUFFICES ASSUME Inv, Accept PROVE Inv'
  OBVIOUS
<1>. USE DEF Inv
<1>1. PICK c \in connecting, fd \in Fds, t \in Timers \ timer_lst :
        /\ kern[fd] = None /\ \A f \in Fds : kern[f] = None => fd <= f
        /\ connecting' = connecting \ {c}
        /\ kern' = [kern EXCEPT ![fd] = c] /\ epoll' = [epoll EXCEPT ![fd] = "in"]
        /\ m_sokcfd' = [m_sokcfd EXCEPT ![fd] = fd] /\ m_state' = [m_state EXCEPT ![fd] = 0]
        /\ improv' = [improv EXCEPT ![fd] = 0] /\ timer_flag' = [timer_flag EXCEPT ![fd] = 0]
        /\ timer' = [timer EXCEPT ![fd] = t] /\ timer_lst' = timer_lst \cup {t}
        /\ left' = [left EXCEPT ![t] = Lifetime]
        /\ user_data' = [user_data EXCEPT ![t] = fd] /\ of' = [of EXCEPT ![t] = c]
  BY DEF Accept
<1>2. events' \subseteq events /\ main = "events" /\ UNCHANGED <<main, sockfd>>
  BY DEF Accept
<1>3. c \in Clients /\ c # None
  BY ServerAssumption DEF Shape
<1>4. Guarded(fd)' /\ \A f \in Fds : Guarded(f) => Guarded(f)'
  BY <1>1 DEF Guarded, Shape
<1>5. Shape'
  BY <1>1, <1>2 DEF Shape
<1>6. Registered'
  BY <1>1, <1>3 DEF Registered, Shape
<1>7. OpenHasTimer'
  BY <1>1, <1>3 DEF OpenHasTimer, Shape
<1>8. Reported'
  BY <1>2, <1>4 DEF Reported
<1>9. Spinning'
  BY <1>2 DEF Spinning
<1>. QED  BY <1>5, <1>6, <1>7, <1>8, <1>9

(* timer_handler runs when no event is left, and closes the descriptor of  *)
(* every timer it deletes.                                                 *)
LEMMA EndStep == Inv /\ EndOfEvents => Inv'
<1>. SUFFICES ASSUME Inv, EndOfEvents PROVE Inv'
  OBVIOUS
<1>. USE DEF Inv
<1>1. /\ events' = {} /\ main' \in {"wait", "stopped"}
      /\ UNCHANGED <<connecting, timer>>
  BY DEF EndOfEvents
<1>2. Reported' /\ Spinning'
  BY <1>1 DEF Reported, Spinning
<1>3. CASE timeout
  <2>. DEFINE due == {t \in timer_lst : left[t] = 0}
  <2>1. /\ kern' = [fd \in Fds |-> IF fd \in {user_data[t] : t \in due} THEN None ELSE kern[fd]]
        /\ epoll' = [fd \in Fds |-> IF fd \in {user_data[t] : t \in due} THEN "absent" ELSE epoll[fd]]
        /\ timer_lst' = timer_lst \ due
        /\ user_data' = [t \in Timers |-> IF t \in due THEN 0 ELSE user_data[t]]
        /\ of' = [t \in Timers |-> IF t \in due THEN None ELSE of[t]]
    BY <1>3 DEF EndOfEvents, timer_handler, Close, Delete
  <2>2. Shape' /\ Registered'
    BY <1>1, <2>1 DEF Shape, Registered
  <2>3. OpenHasTimer'
    <3>. SUFFICES ASSUME NEW fd \in Fds, kern'[fd] # None
                  PROVE  /\ timer[fd] \in timer_lst'
                         /\ of'[timer[fd]] = kern'[fd] /\ user_data'[timer[fd]] = fd
      BY <1>1 DEF OpenHasTimer
    <3>1. kern'[fd] = kern[fd] /\ fd \notin {user_data[t] : t \in due}
      BY <2>1
    <3>2. timer[fd] \in timer_lst /\ of[timer[fd]] = kern[fd] /\ user_data[timer[fd]] = fd
      BY <3>1 DEF OpenHasTimer
    <3>3. timer[fd] \notin due
      BY <3>1, <3>2
    <3>. QED  BY <2>1, <3>1, <3>2, <3>3 DEF Shape
  <2>. QED  BY <1>2, <2>2, <2>3
<1>4. CASE ~timeout
  BY <1>1, <1>2, <1>4 DEF EndOfEvents, Shape, Registered, OpenHasTimer
<1>. QED  BY <1>3, <1>4

(* The handlers of the events of one connection. *)
LEMMA IoStep ==
    ASSUME Inv, NEW fd \in Fds,
           \/ HangUp(fd) \/ dealwithread(fd) \/ dealwithwrite(fd)
           \/ DealReactor(fd, "in", 0) \/ DealReactor(fd, "out", 1)
    PROVE  Inv'
<1>1. CASE HangUp(fd)
  BY <1>1, TakeIo, DealTimer DEF HangUp, Io
<1>2. CASE dealwithread(fd)
  <2>1. Guarded(fd) /\ events' \subseteq events /\ \A e \in Io : <<e, fd>> \notin events'
    BY <1>2, TakeIo DEF dealwithread, Io
  <2>2. \/ adjust_timer(timer[fd], "events") /\ UNCHANGED <<kernelVars, timer, user_data, of>>
        \/ deal_timer(timer[fd], fd)
    BY <1>2 DEF dealwithread
  <2>. QED  BY <2>1, <2>2, DealTimer, AdjustTimer DEF kernelVars
<1>3. CASE dealwithwrite(fd)
  <2>1. Guarded(fd) /\ events' \subseteq events /\ \A e \in Io : <<e, fd>> \notin events'
    BY <1>3, TakeIo DEF dealwithwrite, Io
  <2>2. \/ adjust_timer(timer[fd], "events") /\ UNCHANGED <<kernelVars, timer, user_data, of>>
        \/ deal_timer(timer[fd], fd)
    BY <1>3 DEF dealwithwrite
  <2>. QED  BY <2>1, <2>2, DealTimer, AdjustTimer DEF kernelVars
<1>4. ASSUME NEW ev \in {"in", "out"}, NEW state \in {0, 1}, DealReactor(fd, ev, state)
      PROVE  Inv'
  <2>1. Guarded(fd) /\ events' \subseteq events /\ \A e \in Io : <<e, fd>> \notin events'
    BY <1>4, TakeIo DEF DealReactor, Io
  <2>2. /\ adjust_timer(timer[fd], "spin") /\ sockfd' = fd
        /\ UNCHANGED <<kernelVars, timer, user_data, of>>
    BY <1>4 DEF DealReactor
  <2>. QED  BY <2>1, <2>2, AdjustTimer DEF kernelVars
<1>. QED  BY <1>1, <1>2, <1>3, <1>4

(* The end of the loop on improv: the timer it may deal with is that of    *)
(* the descriptor it was waiting for.                                      *)
LEMMA SpinFlagStep == Inv /\ SpinFlag => Inv'
<1>. SUFFICES ASSUME Inv, SpinFlag PROVE Inv'
  OBVIOUS
<1>1. /\ sockfd \in Fds /\ Guarded(sockfd) /\ events' = events
      /\ \A ev \in Io : <<ev, sockfd>> \notin events
  BY DEF Inv, Spinning, SpinFlag
<1>2. CASE timer_flag[sockfd] = 1
  BY <1>1, <1>2, DealTimer DEF SpinFlag
<1>3. CASE timer_flag[sockfd] # 1
  <2>1. UNCHANGED <<connecting, kern, epoll, timer, timer_lst, user_data, of>> /\ main' = "events"
    BY <1>3 DEF SpinFlag, kernelVars, timerVars
  <2>. QED  BY <1>1, <2>1 DEF Inv, Shape, Registered, OpenHasTimer, Reported, Spinning, Guarded
<1>. QED  BY <1>2, <1>3

(* The other steps of the event loop take an event that is not of a        *)
(* connection, or read improv.                                             *)
LEMMA OtherLoopSteps ==
    Inv /\ (AcceptFails \/ AcceptBusy \/ dealwithsignal \/ SpinSeen) => Inv'
<1>. SUFFICES ASSUME Inv, AcceptFails \/ AcceptBusy \/ dealwithsignal \/ SpinSeen PROVE Inv'
  OBVIOUS
<1>1. /\ UNCHANGED <<kern, epoll, timer, timer_lst, user_data, of, sockfd>>
      /\ connecting' \subseteq connecting /\ events' \subseteq events
      /\ main' = main \/ (main = "spin" /\ main' = "flag")
  <2>. USE DEF Take, kernelVars, timerVars
  <2>1. CASE AcceptFails  BY <2>1 DEF AcceptFails
  <2>2. CASE AcceptBusy  BY <2>2 DEF AcceptBusy
  <2>3. CASE dealwithsignal  BY <2>3 DEF dealwithsignal
  <2>4. CASE SpinSeen  BY <2>4 DEF SpinSeen
  <2>. QED  BY <2>1, <2>2, <2>3, <2>4
<1>2. \A fd \in Fds : Guarded(fd)' <=> Guarded(fd)
  BY <1>1 DEF Guarded
<1>3. Shape' /\ Registered' /\ OpenHasTimer'
  BY <1>1 DEF Inv, Shape, Registered, OpenHasTimer
<1>4. Reported' /\ Spinning'
  BY <1>1, <1>2 DEF Inv, Reported, Spinning
<1>. QED  BY <1>3, <1>4 DEF Inv

(* A worker closes a descriptor, or rearms one that is registered, or      *)
(* leaves both tables alone; timers and events are the event loop's.  Or   *)
(* it ends the program.                                                    *)
LEMMA WorkerStep ==
    ASSUME Inv, NEW w \in Workers, RunStep(w)
    PROVE  Inv'
<1>. USE DEF workerRest, timerVars, loopVars, LoopUnchanged
<1>1. ASSUME LoopUnchanged, kern' = kern, epoll' = epoll PROVE Inv'
  BY <1>1, KernelStep DEF Inv, Shape, Registered
<1>2. ASSUME LoopUnchanged, NEW fd, Close({fd}) PROVE Inv'
  <2>1. Shape'
    BY <1>2 DEF Inv, Shape, Close
  <2>. QED  BY <1>2, <2>1, KernelStep DEF Inv, Registered, Close
<1>3. ASSUME LoopUnchanged, kern' = kern, NEW fd, NEW ev \in {"in", "out"}, modfd(fd, ev) PROVE Inv'
  <2>1. Shape'
    BY <1>3 DEF Inv, Shape, modfd
  <2>2. \A f \in Fds : epoll'[f] # "absent" => epoll[f] # "absent"
    BY <1>3 DEF Inv, Shape, modfd
  <2>. QED  BY <1>3, <2>1, <2>2, KernelStep DEF Inv, Registered
<1>4. CASE \/ RunTake(w) \/ RunRead(w) \/ RunWrite(w) \/ RunFlag(w)
           \/ CloseReset(w) \/ CloseLoad(w) \/ CloseStore(w)
  <2>1. LoopUnchanged /\ kern' = kern /\ epoll' = epoll
    BY <1>4 DEF RunTake, RunRead, RunWrite, RunFlag, CloseReset, CloseLoad, CloseStore
  <2>. QED  BY <1>1, <2>1
<1>5. CASE ProcessClose(w)
  BY <1>2, <1>5 DEF ProcessClose
<1>6. ASSUME NEW ev \in {"in", "out"}, ProcessRearm(w, ev) PROVE Inv'
  BY <1>3, <1>6 DEF ProcessRearm
<1>7. CASE ProcessModfd(w)
  BY <1>3, <1>7 DEF ProcessModfd
<1>8. CASE ProcessDies(w)
  <2>1. /\ UNCHANGED <<connecting, kern, epoll, timer, timer_lst, user_data, of, events>>
        /\ main' = "crashed"
    BY <1>8 DEF ProcessDies, kernelVars
  <2>2. Shape'
    BY <2>1 DEF Inv, Shape
  <2>3. Registered' /\ OpenHasTimer'
    BY <2>1 DEF Inv, Registered, OpenHasTimer
  <2>4. Reported' /\ Spinning'
    BY <2>1 DEF Inv, Reported, Spinning, Guarded
  <2>. QED  BY <2>2, <2>3, <2>4 DEF Inv
<1>. QED  BY <1>4, <1>5, <1>6, <1>7, <1>8 DEF RunStep

-----------------------------------------------------------------------------
(* The invariant and what follows from it *)

(* Every step preserves the invariant. *)
LEMMA InvStep == Inv /\ [Next]_vars => Inv'
<1>. SUFFICES ASSUME Inv, [Next]_vars PROVE Inv'
  OBVIOUS
<1>1. CASE LoopStep
  BY <1>1, WaitStep, AcceptStep, EndStep, IoStep, SpinFlagStep, OtherLoopSteps DEF LoopStep
<1>2. CASE \E w \in Workers : RunStep(w)
  BY <1>2, WorkerStep
<1>3. CASE TimePasses \/ Sigterm \/ UNCHANGED vars
  <2>1. LoopUnchanged /\ kern' = kern /\ epoll' = epoll
    BY <1>3 DEF TimePasses, Sigterm, vars, kernelVars, timerVars, loopVars, LoopUnchanged
  <2>. QED  BY <2>1 DEF LoopUnchanged, Inv, Shape, Registered, OpenHasTimer, Reported, Spinning, Guarded
<1>. QED  BY <1>1, <1>2, <1>3 DEF Next, Stopped

(* The invariant holds in every reachable state. *)
LEMMA Invariance == Spec => []Inv
  BY InvInit, InvStep, PTL DEF Spec

(* The event loop never follows a dangling users_timer[fd].timer, in any   *)
(* handler of either actor model and whatever the workers close meanwhile. *)
THEOREM TimersNeverDangle == Spec => []NoDanglingTimer
<1>1. Inv => NoDanglingTimer  BY DEF Inv, Shape, NoDanglingTimer
<1>. QED  BY <1>1, Invariance, PTL

(* The connection that is open on a descriptor has its own timer in the    *)
(* list, however often workers and timers closed that descriptor before.   *)
THEOREM ConnectionsAreTimed == Spec => []OpenHasTimer
<1>1. Inv => OpenHasTimer  BY DEF Inv
<1>. QED  BY <1>1, Invariance, PTL

-----------------------------------------------------------------------------
(* Types.  Shape has those that matter to the timers; these are the others. *)

(* users[] and the count. *)
UserTypes ==
    /\ m_sokcfd \in [Fds -> Fds \cup {-1}] /\ \A fd \in Fds : m_sokcfd[fd] \in {-1, fd}
    /\ m_state \in [Fds -> {0, 1}] /\ improv \in [Fds -> {0, 1}] /\ timer_flag \in [Fds -> {0, 1}]
    /\ m_user_count \in Int

(* The timers that are left: only finitely many are ever created. *)
LeftTypes == left \in [Timers -> 0..Lifetime] /\ IsFiniteSet(timer_lst)

(* Signals, events and the event loop's variables. *)
LoopTypes ==
    /\ alarm \in BOOLEAN /\ pipe \subseteq {"SIGALRM", "SIGTERM"}
    /\ events \subseteq ({"listen", "pipe"} \X {0}) \cup ({"hup", "in", "out"} \X Fds)
    /\ config \in Configs /\ sockfd \in Fds \cup {0} /\ timeout \in BOOLEAN /\ stop_server \in BOOLEAN

(* The queue and the workers. *)
PoolTypes ==
    m_workqueue \in Seq(Fds) /\ request \in [Workers -> Fds \cup {0}] /\ count \in [Workers -> Int]

Types == UserTypes /\ LeftTypes /\ LoopTypes /\ PoolTypes

(* The constructors establish the types. *)
LEMMA TypesInit == Init => Types
<1>. SUFFICES ASSUME Init PROVE Types
  OBVIOUS
<1>1. UserTypes
  BY DEF Init, UserTypes
<1>2. LeftTypes
  BY FS_EmptySet, ServerAssumption DEF Init, LeftTypes
<1>3. LoopTypes
  BY DEF Init, LoopTypes
<1>4. PoolTypes
  BY DEF Init, PoolTypes
<1>. QED  BY <1>1, <1>2, <1>3, <1>4 DEF Types

(* deleting timers keeps the types of those that are left. *)
LEMMA DeleteTypes ==
    ASSUME LeftTypes, NEW ts, Delete(ts)
    PROVE  LeftTypes'
<1>1. IsFiniteSet(timer_lst')
  BY FS_Subset DEF Delete, LeftTypes
<1>2. left' \in [Timers -> 0..Lifetime]
  BY ServerAssumption DEF Delete, LeftTypes
<1>. QED  BY <1>1, <1>2 DEF LeftTypes

(* deal_timer and adjust_timer. *)
LEMMA TimerTypes ==
    ASSUME LeftTypes, NEW t, NEW fd, NEW then, deal_timer(t, fd) \/ adjust_timer(t, then)
    PROVE  LeftTypes'
<1>1. CASE deal_timer(t, fd) /\ t \in timer_lst
  BY <1>1, DeleteTypes DEF deal_timer
<1>2. CASE deal_timer(t, fd) /\ t \notin timer_lst
  BY <1>2 DEF deal_timer, LeftTypes
<1>3. CASE adjust_timer(t, then)
  BY <1>3, ServerAssumption DEF adjust_timer, LeftTypes
<1>. QED  BY <1>1, <1>2, <1>3

(* append puts a descriptor into the queue. *)
LEMMA AppendTypes ==
    ASSUME m_workqueue \in Seq(Fds), NEW fd \in Fds, append(fd)
    PROVE  m_workqueue' \in Seq(Fds)
<1>1. Append(m_workqueue, fd) \in Seq(Fds)
  BY AppendProperties
<1>. QED  BY <1>1 DEF append

(* A step of the event loop keeps the types. *)
LEMMA LoopKeepsTypes == Inv /\ Types /\ LoopStep => Types'
<1>. SUFFICES ASSUME Inv, Types, LoopStep PROVE Types'
  OBVIOUS
<1>0. UserTypes /\ LeftTypes /\ LoopTypes /\ PoolTypes
  BY DEF Types
<1>. USE DEF Take, kernelVars, userVars, timerVars, loopVars, poolVars
<1>1. CASE epoll_wait
  <2>1. UserTypes' /\ LeftTypes' /\ PoolTypes'
    BY <1>0, <1>1 DEF epoll_wait, UserTypes, LeftTypes, PoolTypes
  <2>2. events' \subseteq ({"listen", "pipe"} \X {0}) \cup ({"hup", "in", "out"} \X Fds)
    BY <1>1 DEF epoll_wait, Armed
  <2>3. LoopTypes'
    BY <1>0, <1>1, <2>2 DEF epoll_wait, LoopTypes
  <2>. QED  BY <2>1, <2>3 DEF Types
<1>2. CASE AcceptFails
  BY <1>0, <1>2 DEF AcceptFails, Types, UserTypes, LeftTypes, LoopTypes, PoolTypes
<1>3. CASE AcceptBusy
  BY <1>0, <1>3 DEF AcceptBusy, Types, UserTypes, LeftTypes, LoopTypes, PoolTypes
<1>4. CASE Accept
  <2>1. PICK c \in connecting, fd \in Fds, t \in Timers \ timer_lst :
          /\ m_sokcfd' = [m_sokcfd EXCEPT ![fd] = fd] /\ m_state' = [m_state EXCEPT ![fd] = 0]
          /\ improv' = [improv EXCEPT ![fd] = 0] /\ timer_flag' = [timer_flag EXCEPT ![fd] = 0]
          /\ timer_lst' = timer_lst \cup {t} /\ left' = [left EXCEPT ![t] = Lifetime]
    BY <1>4 DEF Accept
  <2>5. m_user_count' = m_user_count + 1
    BY <1>4 DEF Accept
  <2>6. m_sokcfd' \in [Fds -> Fds \cup {-1}] /\ \A f \in Fds : m_sokcfd'[f] \in {-1, f}
    BY <1>0, <2>1 DEF UserTypes
  <2>2. UserTypes'
    BY <1>0, <2>1, <2>5, <2>6 DEF UserTypes
  <2>3. LeftTypes'
    <3>1. IsFiniteSet(timer_lst')
      BY <1>0, <2>1, FS_AddElement DEF LeftTypes
    <3>. QED  BY <1>0, <2>1, <3>1, ServerAssumption DEF LeftTypes
  <2>4. LoopTypes' /\ PoolTypes'
    BY <1>0, <1>4 DEF Accept, LoopTypes, PoolTypes
  <2>. QED  BY <2>2, <2>3, <2>4 DEF Types
<1>5. CASE dealwithsignal
  BY <1>0, <1>5 DEF dealwithsignal, Types, UserTypes, LeftTypes, LoopTypes, PoolTypes
<1>6. CASE EndOfEvents
  <2>1. LoopTypes' /\ PoolTypes'
    BY <1>0, <1>6 DEF EndOfEvents, timer_handler, LoopTypes, PoolTypes
  <2>2. CASE timeout
    <3>1. LeftTypes'
      BY <1>0, <1>6, <2>2, DeleteTypes DEF EndOfEvents, timer_handler
    <3>2. Cardinality({t \in timer_lst : left[t] = 0}) \in Int
      <4>1. IsFiniteSet({t \in timer_lst : left[t] = 0})
        BY <1>0, FS_Subset DEF LeftTypes
      <4>. QED  BY <4>1, FS_CardinalityType
    <3>3. m_user_count' = m_user_count - Cardinality({t \in timer_lst : left[t] = 0})
      BY <1>6, <2>2 DEF EndOfEvents, timer_handler
    <3>4. UserTypes'
      BY <1>0, <1>6, <3>2, <3>3 DEF EndOfEvents, UserTypes
    <3>. QED  BY <2>1, <3>1, <3>4 DEF Types
  <2>3. CASE ~timeout
    BY <1>0, <1>6, <2>1, <2>3 DEF EndOfEvents, Types, UserTypes, LeftTypes
  <2>. QED  BY <2>2, <2>3
<1>7. ASSUME NEW fd \in Fds, HangUp(fd) PROVE Types'
  <2>1. LeftTypes'
    BY <1>0, <1>7, TimerTypes DEF HangUp
  <2>2. UserTypes'
    BY <1>0, <1>7 DEF HangUp, deal_timer, UserTypes
  <2>3. LoopTypes' /\ PoolTypes'
    BY <1>0, <1>7 DEF HangUp, deal_timer, LoopTypes, PoolTypes
  <2>. QED  BY <2>1, <2>2, <2>3 DEF Types
<1>8. ASSUME NEW fd \in Fds, dealwithread(fd) PROVE Types'
  <2>1. LeftTypes'
    BY <1>0, <1>8, TimerTypes DEF dealwithread
  <2>2. PoolTypes'
    BY <1>0, <1>8, AppendTypes DEF dealwithread, PoolTypes
  <2>3. /\ UNCHANGED <<alarm, pipe>> /\ m_user_count' \in {m_user_count, m_user_count - 1}
    BY <1>8 DEF dealwithread, deal_timer
  <2>4. /\ UNCHANGED <<m_sokcfd, m_state, improv, timer_flag, sockfd, timeout, stop_server, config>>
        /\ events' \subseteq events
    BY <1>8 DEF dealwithread
  <2>5. UserTypes'
    BY <1>0, <2>3, <2>4 DEF UserTypes
  <2>6. LoopTypes'
    BY <1>0, <2>3, <2>4 DEF LoopTypes
  <2>. QED  BY <2>1, <2>2, <2>5, <2>6 DEF Types
<1>9. ASSUME NEW fd \in Fds, dealwithwrite(fd) PROVE Types'
  <2>1. LeftTypes'
    BY <1>0, <1>9, TimerTypes DEF dealwithwrite
  <2>2. /\ UNCHANGED <<alarm, pipe>> /\ m_user_count' \in {m_user_count, m_user_count - 1}
    BY <1>9 DEF dealwithwrite, deal_timer
  <2>3. /\ UNCHANGED <<m_sokcfd, m_state, improv, timer_flag, sockfd, timeout, stop_server, config,
                      m_workqueue, request, count>>
        /\ events' \subseteq events
    BY <1>9 DEF dealwithwrite
  <2>4. UserTypes'
    BY <1>0, <2>2, <2>3 DEF UserTypes
  <2>5. LoopTypes' /\ PoolTypes'
    BY <1>0, <2>2, <2>3 DEF LoopTypes, PoolTypes
  <2>. QED  BY <2>1, <2>4, <2>5 DEF Types
<1>10. ASSUME NEW fd \in Fds, NEW ev, NEW state \in {0, 1}, DealReactor(fd, ev, state) PROVE Types'
  <2>1. LeftTypes'
    BY <1>0, <1>10, TimerTypes DEF DealReactor
  <2>2. PoolTypes'
    BY <1>0, <1>10, AppendTypes DEF DealReactor, PoolTypes
  <2>3. UserTypes' /\ LoopTypes'
    BY <1>0, <1>10 DEF DealReactor, UserTypes, LoopTypes
  <2>. QED  BY <2>1, <2>2, <2>3 DEF Types
<1>11. CASE SpinSeen
  BY <1>0, <1>11 DEF SpinSeen, Types, UserTypes, LeftTypes, LoopTypes, PoolTypes
<1>12. CASE SpinFlag
  <2>1. LeftTypes'
    <3>1. CASE timer_flag[sockfd] = 1
      BY <1>0, <1>12, <3>1, TimerTypes DEF SpinFlag
    <3>2. CASE timer_flag[sockfd] # 1
      BY <1>0, <1>12, <3>2 DEF SpinFlag, LeftTypes
    <3>. QED  BY <3>1, <3>2
  <2>2. /\ UNCHANGED <<alarm, pipe>> /\ m_user_count' \in {m_user_count, m_user_count - 1}
        /\ timer_flag' \in {timer_flag, [timer_flag EXCEPT ![sockfd] = 0]}
    BY <1>12 DEF SpinFlag, deal_timer
  <2>3. /\ UNCHANGED <<m_sokcfd, m_state, events, timeout, stop_server, config, m_workqueue, request, count>>
        /\ sockfd' = 0 /\ improv' = [improv EXCEPT ![sockfd] = 0]
    BY <1>12 DEF SpinFlag
  <2>4. UserTypes'
    <3>1. timer_flag' \in [Fds -> {0, 1}] /\ improv' \in [Fds -> {0, 1}]
      BY <1>0, <2>2, <2>3 DEF UserTypes
    <3>. QED  BY <1>0, <2>2, <2>3, <3>1 DEF UserTypes
  <2>5. LoopTypes' /\ PoolTypes'
    BY <1>0, <2>2, <2>3 DEF LoopTypes, PoolTypes
  <2>. QED  BY <2>1, <2>4, <2>5 DEF Types
<1>. QED  BY <1>1, <1>2, <1>3, <1>4, <1>5, <1>6, <1>7, <1>8, <1>9, <1>10, <1>11, <1>12 DEF LoopStep

(* A step of a worker keeps the types. *)
LEMMA WorkersKeepTypes ==
    ASSUME Types, NEW w \in Workers, RunStep(w)
    PROVE  Types'
<1>0. UserTypes /\ LeftTypes /\ LoopTypes /\ PoolTypes
  BY DEF Types
<1>. USE DEF workerRest, timerVars, loopVars
<1>1. ASSUME UNCHANGED workerRest PROVE LeftTypes' /\ LoopTypes'
  BY <1>0, <1>1 DEF LeftTypes, LoopTypes
<1>2. CASE RunTake(w)
  <2>1. Head(m_workqueue) \in Fds /\ Tail(m_workqueue) \in Seq(Fds)
    BY <1>0, <1>2, HeadTailProperties DEF RunTake, PoolTypes
  <2>. QED  BY <1>0, <1>1, <1>2, <2>1 DEF RunTake, Types, UserTypes, PoolTypes
<1>3. CASE RunRead(w)
  BY <1>0, <1>1, <1>3 DEF RunRead, Goto, Types, UserTypes, PoolTypes
<1>4. CASE RunWrite(w)
  BY <1>0, <1>1, <1>4 DEF RunWrite, Goto, Types, UserTypes, PoolTypes
<1>5. CASE RunFlag(w)
  BY <1>0, <1>1, <1>5 DEF RunFlag, Goto, Types, UserTypes, PoolTypes
<1>6. ASSUME NEW ev, ProcessRearm(w, ev) PROVE Types'
  BY <1>0, <1>1, <1>6 DEF ProcessRearm, Goto, Types, UserTypes, PoolTypes
<1>7. CASE ProcessClose(w)
  BY <1>0, <1>1, <1>7 DEF ProcessClose, Goto, Types, UserTypes, PoolTypes
<1>8. CASE CloseReset(w)
  BY <1>0, <1>1, <1>8 DEF CloseReset, Goto, Types, UserTypes, PoolTypes
<1>9. CASE CloseLoad(w)
  BY <1>0, <1>1, <1>9 DEF CloseLoad, Goto, Types, UserTypes, PoolTypes
<1>10. CASE CloseStore(w)
  <2>1. UserTypes'
    BY <1>0, <1>10 DEF CloseStore, UserTypes, PoolTypes
  <2>2. PoolTypes'
    BY <1>0, <1>10 DEF CloseStore, Goto, PoolTypes
  <2>. QED  BY <1>1, <1>10, <2>1, <2>2 DEF CloseStore, Types
<1>11. CASE ProcessModfd(w)
  BY <1>0, <1>1, <1>11 DEF ProcessModfd, Goto, Types, UserTypes, PoolTypes
<1>12. CASE ProcessDies(w)
  BY <1>0, <1>12 DEF ProcessDies, kernelVars, userVars, poolVars,
                     Types, UserTypes, LeftTypes, LoopTypes, PoolTypes
<1>. QED  BY <1>2, <1>3, <1>4, <1>5, <1>6, <1>7, <1>8, <1>9, <1>10, <1>11, <1>12 DEF RunStep

(* The variables keep their types: users[fd] never refers to another       *)
(* descriptor than its own, a request in the pool is a descriptor, and the *)
(* count stays a number however the lost updates of close_conn fall.       *)
THEOREM ServerTypes == Spec => []TypeOK
<1>1. Inv /\ Types /\ [Next]_vars => Types'
  <2>. SUFFICES ASSUME Inv, Types, [Next]_vars PROVE Types'
    OBVIOUS
  <2>0. UserTypes /\ LeftTypes /\ LoopTypes /\ PoolTypes
    BY DEF Types
  <2>1. CASE TimePasses
    <3>1. LeftTypes'
      BY <2>0, <2>1, ServerAssumption DEF TimePasses, LeftTypes
    <3>. QED  BY <2>0, <2>1, <3>1 DEF TimePasses, Types, UserTypes, LoopTypes, PoolTypes, userVars, loopVars, poolVars
  <2>2. CASE Sigterm \/ UNCHANGED vars
    BY <2>0, <2>2 DEF Sigterm, vars, kernelVars, userVars, timerVars, loopVars, poolVars,
                      Types, UserTypes, LeftTypes, LoopTypes, PoolTypes
  <2>. QED  BY <2>1, <2>2, LoopKeepsTypes, WorkersKeepTypes DEF Next, Stopped
<1>2. Inv /\ Types => TypeOK
  <2>. SUFFICES ASSUME Inv, Types PROVE TypeOK
    OBVIOUS
  <2>1. \A i \in 1..Len(m_workqueue) : m_workqueue[i] \in Fds
    BY ElementOfSeq DEF Types, PoolTypes
  <2>. QED  BY <2>1 DEF Inv, Shape, Types, UserTypes, LeftTypes, LoopTypes, PoolTypes, TypeOK
<1>. QED  BY <1>1, <1>2, TypesInit, Invariance, PTL DEF Spec
=============================================================================
