--------------------------- MODULE SortTimerList ---------------------------
(***************************************************************************)
(* ocean_http/timer: sort_timer_lst, the doubly linked list of util_timer  *)
(* objects, at the level of its pointers.  The list belongs to the event   *)
(* loop's thread; each method is a function from list to list, and an      *)
(* action is one call.                                                     *)
(*                                                                         *)
(* Timers are addresses: new returns one that is not allocated, delete     *)
(* makes it available again, so an address may come back while an old      *)
(* pointer to it survives (tick leaves tail alone).                        *)
(***************************************************************************)
EXTENDS Integers, Sequences, FiniteSets

CONSTANTS Timers,   \* addresses of util_timer objects
          Null,     \* the null pointer
          MaxTime,  \* bound: the clock stops here
          MaxSpan   \* bound: deadlines lie at most this far ahead

ASSUME ListAssumption ==
    IsFiniteSet(Timers) /\ Null \notin Timers /\ MaxTime \in Nat /\ MaxSpan \in Nat \ {0}

VARIABLES lst,    \* head, tail, and the members prev, next, expire of every object
          alive,  \* allocated objects
          now,    \* time(NULL)
          fired   \* the callbacks the last call ran, in order

vars == <<lst, alive, now, fired>>

Nobody == [t \in Timers |-> Null]

Init ==
    /\ lst = [head |-> Null, tail |-> Null, prev |-> Nobody, next |-> Nobody,
              expire |-> [t \in Timers |-> 0]]
    /\ alive = {} /\ now = 0 /\ fired = <<>>

-----------------------------------------------------------------------------
(* The walks.  c is the list l: the nodes from head along next to Null.    *)
IsChain(l, c) ==
    /\ l.head = IF c = <<>> THEN Null ELSE c[1]
    /\ \A i \in 1..Len(c) : l.next[c[i]] = IF i = Len(c) THEN Null ELSE c[i + 1]

Paths == UNION {[1..n -> Timers] : n \in 0..Cardinality(Timers)}

Nodes(c) == {c[i] : i \in 1..Len(c)}

(* The nodes a loop over the list visits (WellLinked: there is an end). *)
Chain(l) == CHOOSE c \in Paths : IsChain(l, c)

(* The private add_timer(timer, lst_head): the loop stops at the first     *)
(* node from lst_head on that has no successor or one due later.           *)
Slot(l, timer, lst_head) ==
    LET c == Chain(l)
        Stops(i) == i = Len(c) \/ l.expire[timer] < l.expire[c[i + 1]]
    IN  CHOOSE k \in 1..Len(c) :
            /\ Stops(k)
            /\ \E h \in 1..k : c[h] = lst_head /\ \A i \in h..(k - 1) : ~Stops(i)

add_timer_from(l, timer, lst_head) ==
    LET prev == Chain(l)[Slot(l, timer, lst_head)]
        tmp  == l.next[prev]
    IN  IF tmp # Null
        THEN [l EXCEPT !.next[prev] = timer, !.next[timer] = tmp,
                       !.prev[tmp] = timer, !.prev[timer] = prev]
        ELSE [l EXCEPT !.next[prev] = timer, !.prev[timer] = prev,
                       !.next[timer] = Null, !.tail = timer]

add_timer(l, timer) ==
    CASE l.head = Null -> [l EXCEPT !.head = timer, !.tail = timer]
      [] l.head # Null /\ l.expire[timer] < l.expire[l.head] ->
            [l EXCEPT !.next[timer] = l.head, !.prev[l.head] = timer, !.head = timer]
      [] OTHER -> add_timer_from(l, timer, l.head)

adjust_timer(l, timer) ==
    LET tmp == l.next[timer]
    IN  IF tmp = Null \/ l.expire[timer] < l.expire[tmp] THEN l
        ELSE add_timer_from(
                IF timer = l.head
                THEN [l EXCEPT !.head = tmp, !.prev[tmp] = Null, !.next[timer] = Null]
                ELSE [l EXCEPT !.next[l.prev[timer]] = tmp, !.prev[tmp] = l.prev[timer]],
                timer, tmp)

(* Mutant: deleting the last timer does not move tail. *)
del_timer_keep_tail(l, timer) ==
    CASE timer = l.head /\ timer = l.tail -> [l EXCEPT !.head = Null, !.tail = Null]
      [] timer = l.head /\ timer # l.tail ->
            [l EXCEPT !.head = l.next[timer], !.prev[l.next[timer]] = Null]
      [] timer # l.head /\ l.next[timer] = Null -> [l EXCEPT !.next[l.prev[timer]] = Null]
      [] OTHER ->
            [l EXCEPT !.next[l.prev[timer]] = l.next[timer], !.prev[l.next[timer]] = l.prev[timer]]

del_timer(l, timer) ==
    CASE timer = l.head /\ timer = l.tail -> [l EXCEPT !.head = Null, !.tail = Null]
      [] timer = l.head /\ timer # l.tail ->
            [l EXCEPT !.head = l.next[timer], !.prev[l.next[timer]] = Null]
      [] timer # l.head /\ timer = l.tail ->
            [l EXCEPT !.tail = l.prev[timer], !.next[l.prev[timer]] = Null]
      [] OTHER ->
            [l EXCEPT !.next[l.prev[timer]] = l.next[timer], !.prev[l.next[timer]] = l.prev[timer]]

(* Mutant: a timer due at this very second is left in the list. *)
DueLate(l, cur) ==
    LET c == Chain(l)
    IN  CHOOSE k \in 0..Len(c) : /\ \A i \in 1..k : cur > l.expire[c[i]]
                                 /\ k = Len(c) \/ cur <= l.expire[c[k + 1]]

(* How many nodes the loop of tick runs through: up to the first one that  *)
(* is not due.                                                             *)
Due(l, cur) ==
    LET c == Chain(l)
    IN  CHOOSE k \in 0..Len(c) : /\ \A i \in 1..k : cur >= l.expire[c[i]]
                                 /\ k = Len(c) \/ cur < l.expire[c[k + 1]]

(* head moves behind them; tail is not touched. *)
tick(l, cur) ==
    LET k == Due(l, cur)
    IN  CASE k = 0 -> l
          [] k > 0 /\ k = Len(Chain(l)) -> [l EXCEPT !.head = Null]
          [] OTHER -> [l EXCEPT !.head = Chain(l)[k + 1], !.prev[Chain(l)[k + 1]] = Null]

-----------------------------------------------------------------------------
(* new util_timer, its deadline e, and add_timer. *)
AddTimer(t, e) ==
    /\ t \notin alive
    /\ alive' = alive \cup {t}
    /\ lst' = add_timer([lst EXCEPT !.prev[t] = Null, !.next[t] = Null, !.expire[t] = e], t)
    /\ fired' = <<>> /\ UNCHANGED now

(* The deadline moves to e, no earlier than before, then adjust_timer. *)
AdjustTimer(t, e) ==
    /\ t \in alive /\ e >= lst.expire[t]
    /\ lst' = adjust_timer([lst EXCEPT !.expire[t] = e], t)
    /\ fired' = <<>> /\ UNCHANGED <<alive, now>>

DelTimer(t) ==
    /\ t \in alive
    /\ lst' = del_timer(lst, t)
    /\ alive' = alive \ {t}
    /\ fired' = <<>> /\ UNCHANGED now

Tick ==
    /\ lst' = tick(lst, now)
    /\ fired' = SubSeq(Chain(lst), 1, Due(lst, now))
    /\ alive' = alive \ Nodes(fired')
    /\ UNCHANGED now

Advance ==
    /\ now < MaxTime
    /\ now' = now + 1
    /\ fired' = <<>> /\ UNCHANGED <<lst, alive>>

Next ==
    \/ \E t \in Timers, e \in now..(now + MaxSpan) : AddTimer(t, e) \/ AdjustTimer(t, e)
    \/ \E t \in Timers : DelTimer(t)
    \/ Tick \/ Advance

Spec == Init /\ [][Next]_vars

-----------------------------------------------------------------------------
(* Properties *)

Pointers == Timers \cup {Null}

Lists == [head : Pointers, tail : Pointers, prev : [Timers -> Pointers],
          next : [Timers -> Pointers], expire : [Timers -> 0..(MaxTime + MaxSpan)]]

TypeOK ==
    /\ lst \in Lists
    /\ alive \subseteq Timers /\ now \in 0..MaxTime /\ fired \in Seq(Timers)

(* The list is well linked: from head, next runs once through exactly the  *)
(* allocated timers and ends in Null, prev is its inverse, and tail is the *)
(* last node.  (When the list is empty tail may point to a deleted timer:  *)
(* tick does not reset it, and nothing may rely on it.)                    *)
WellLinked ==
    LET c == Chain(lst)
    IN  /\ Nodes(c) = alive /\ Len(c) = Cardinality(alive)
        /\ \A i \in 1..Len(c) :
            /\ lst.prev[c[i]] = IF i = 1 THEN Null ELSE c[i - 1]
            /\ lst.next[c[i]] = IF i = Len(c) THEN Null ELSE c[i + 1]
        /\ c # <<>> => lst.tail = c[Len(c)]

Queue == INSTANCE TimerQueue WITH q <- Chain(lst), expire <- lst.expire

(* The pointer operations implement the queue: a timer is inserted and     *)
(* postponed in deadline order, and a tick runs the callback of every due  *)
(* timer although it stops at the first one that is not due.               *)
ListIsQueue == Queue!Spec
=============================================================================
