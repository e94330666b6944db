----------------------------- MODULE TimerQueue -----------------------------
(***************************************************************************)
(* What sort_timer_lst promises the event loop: the pending timers in the  *)
(* order of their deadlines, oldest first among equals; a tick fires every *)
(* timer that is due, in that order, and no other.                         *)
(***************************************************************************)
EXTENDS Integers, Sequences

CONSTANTS Timers

VARIABLES q,       \* pending timers
          expire,  \* deadline of each timer
          now,     \* the clock
          fired    \* the timers whose callback the last operation ran

vars == <<q, expire, now, fired>>

Pending == {q[i] : i \in 1..Len(q)}

(* s without its ith element, and with t as its ith element. *)
Without(s, i) == SubSeq(s, 1, i - 1) \o SubSeq(s, i + 1, Len(s))

With(s, i, t) == SubSeq(s, 1, i - 1) \o <<t>> \o SubSeq(s, i, Len(s))

(* s with t behind every timer that is due no later than e, and before all *)
(* the others.                                                             *)
Inserted(s, t, e, r) ==
    \E k \in 0..Len(s) :
        /\ \A i \in 1..k : expire[s[i]] <= e
        /\ \A i \in (k + 1)..Len(s) : e < expire[s[i]]
        /\ r = With(s, k + 1, t)

Init == q = <<>> /\ fired = <<>> /\ now \in Int /\ expire \in [Timers -> Int]

Add(t, e) ==
    /\ t \notin Pending
    /\ Inserted(q, t, e, q')
    /\ expire' = [expire EXCEPT ![t] = e]
    /\ fired' = <<>> /\ UNCHANGED now

(* A timer is only ever postponed. *)
Adjust(t, e) ==
    /\ e >= expire[t]
    /\ \E i \in 1..Len(q) : q[i] = t /\ Inserted(Without(q, i), t, e, q')
    /\ expire' = [expire EXCEPT ![t] = e]
    /\ fired' = <<>> /\ UNCHANGED now

Del(t) ==
    /\ \E i \in 1..Len(q) : q[i] = t /\ q' = Without(q, i)
    /\ fired' = <<>> /\ UNCHANGED <<expire, now>>

(* Every timer that is due fires, and no other. *)
Tick ==
    /\ \E k \in 0..Len(q) :
        /\ \A i \in 1..k : now >= expire[q[i]]
        /\ \A i \in (k + 1)..Len(q) : now < expire[q[i]]
        /\ fired' = SubSeq(q, 1, k) /\ q' = SubSeq(q, k + 1, Len(q))
    /\ UNCHANGED <<expire, now>>

Advance == now' > now /\ fired' = <<>> /\ UNCHANGED <<q, expire>>

Next ==
    \/ \E t \in Timers : LET e == expire'[t] IN Add(t, e) \/ Adjust(t, e) \/ Del(t)
    \/ Tick \/ Advance

Spec == Init /\ [][Next]_vars
=============================================================================
