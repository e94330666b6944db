-------------------------- MODULE ThreadPoolProofs --------------------------
(***************************************************************************)
(* Proofs about ThreadPool, for any number of workers and requests and for *)
(* any value of the members the constructor leaves uninitialised.          *)
(***************************************************************************)
EXTENDS ThreadPool, SequenceTheorems, FiniteSetTheorems, TLAPS

-----------------------------------------------------------------------------
(* The request list *)

(* The places of a list that hold an element. *)
PlacesOf(s, e) == {i \in DOMAIN s : s[i] = e}

(* The places of an element are finitely many, and an empty list has none. *)
LEMMA PlacesFinite ==
    ASSUME NEW S, NEW s \in Seq(S), NEW e
    PROVE  /\ IsFiniteSet(PlacesOf(s, e)) /\ Cardinality(PlacesOf(s, e)) \in Nat
           /\ s = <<>> => Cardinality(PlacesOf(s, e)) = 0
<1>1. PlacesOf(s, e) \subseteq 1..Len(s) /\ Len(s) \in Nat
  BY LenProperties DEF PlacesOf
<1>2. IsFiniteSet(PlacesOf(s, e))
  <2>1. IsFiniteSet(1..Len(s))  BY <1>1, FS_Interval
  <2>. QED  BY <1>1, <2>1, FS_Subset
<1>3. s = <<>> => PlacesOf(s, e) = {}
  BY DEF PlacesOf
<1>. QED  BY <1>2, <1>3, FS_CardinalityType, FS_EmptySet

(* push_back adds a place of the new element and no other. *)
LEMMA PlacesAppend ==
    ASSUME NEW S, NEW s \in Seq(S), NEW x \in S, NEW e
    PROVE  Cardinality(PlacesOf(Append(s, x), e)) =
           Cardinality(PlacesOf(s, e)) + (IF x = e THEN 1 ELSE 0)
<1>1. /\ Len(s) \in Nat /\ Append(s, x) \in Seq(S) /\ Len(Append(s, x)) = Len(s) + 1
      /\ DOMAIN s = 1..Len(s) /\ DOMAIN Append(s, x) = 1..(Len(s) + 1)
      /\ \A i \in 1..Len(s) : Append(s, x)[i] = s[i]
      /\ Append(s, x)[Len(s) + 1] = x
  BY AppendProperties, LenProperties
<1>2. 1..(Len(s) + 1) = (1..Len(s)) \cup {Len(s) + 1} /\ Len(s) + 1 \notin 1..Len(s)
  BY <1>1
<1>3. IsFiniteSet(PlacesOf(s, e)) /\ Cardinality(PlacesOf(s, e)) \in Nat
  BY PlacesFinite
<1>4. Len(s) + 1 \notin PlacesOf(s, e)
  BY <1>1, <1>2 DEF PlacesOf
<1>5. CASE x = e
  <2>1. PlacesOf(Append(s, x), e) = PlacesOf(s, e) \cup {Len(s) + 1}
    BY <1>1, <1>2, <1>5 DEF PlacesOf
  <2>. QED  BY <1>3, <1>4, <1>5, <2>1, FS_AddElement
<1>6. CASE x # e
  <2>1. PlacesOf(Append(s, x), e) = PlacesOf(s, e)
    BY <1>1, <1>2, <1>6 DEF PlacesOf
  <2>. QED  BY <1>3, <1>6, <2>1
<1>. QED  BY <1>5, <1>6

(* pop_front takes the place of the head and no other. *)
LEMMA PlacesTail ==
    ASSUME NEW S, NEW s \in Seq(S), s # <<>>, NEW e
    PROVE  Cardinality(PlacesOf(s, e)) =
           Cardinality(PlacesOf(Tail(s), e)) + (IF Head(s) = e THEN 1 ELSE 0)
<1>1. /\ Len(s) \in Nat \ {0} /\ Tail(s) \in Seq(S) /\ Len(Tail(s)) = Len(s) - 1
      /\ \A i \in 1..Len(Tail(s)) : Tail(s)[i] = s[i + 1]
      /\ Head(s) = s[1]
      /\ DOMAIN s = 1..Len(s) /\ DOMAIN Tail(s) = 1..(Len(s) - 1)
  BY HeadTailProperties, EmptySeq, LenProperties
<1>. DEFINE R == {i \in 2..Len(s) : s[i] = e}
            f == [i \in PlacesOf(Tail(s), e) |-> i + 1]
<1>2. f \in [PlacesOf(Tail(s), e) -> R]
  BY <1>1 DEF PlacesOf
<1>3. \A a, b \in PlacesOf(Tail(s), e) : f[a] = f[b] => a = b
  BY <1>1 DEF PlacesOf
<1>4. \A j \in R : \E i \in PlacesOf(Tail(s), e) : f[i] = j
  <2>. SUFFICES ASSUME NEW j \in R PROVE \E i \in PlacesOf(Tail(s), e) : f[i] = j
    OBVIOUS
  <2>1. j - 1 \in PlacesOf(Tail(s), e)
    BY <1>1 DEF PlacesOf
  <2>2. f[j - 1] = j
    BY <2>1
  <2>. QED  BY <2>1, <2>2
<1>5. ExistsBijection(PlacesOf(Tail(s), e), R)
  <2>. HIDE DEF f, R
  <2>1. f \in Bijection(PlacesOf(Tail(s), e), R)
    BY <1>2, <1>3, <1>4 DEF Bijection, Injection, Surjection, IsInjective
  <2>. QED  BY <2>1 DEF ExistsBijection
<1>6. IsFiniteSet(PlacesOf(Tail(s), e)) /\ Cardinality(PlacesOf(Tail(s), e)) \in Nat
  BY <1>1, PlacesFinite
<1>7. IsFiniteSet(R) /\ Cardinality(R) = Cardinality(PlacesOf(Tail(s), e))
  BY <1>5, <1>6, FS_Bijection
<1>8. 1..Len(s) = {1} \cup (2..Len(s)) /\ 1 \notin R
  BY <1>1
<1>9. CASE Head(s) = e
  <2>1. PlacesOf(s, e) = R \cup {1}
    BY <1>1, <1>8, <1>9 DEF PlacesOf
  <2>. QED  BY <1>6, <1>7, <1>8, <1>9, <2>1, FS_AddElement
<1>10. CASE Head(s) # e
  <2>1. PlacesOf(s, e) = R
    BY <1>1, <1>8, <1>10 DEF PlacesOf
  <2>. QED  BY <1>6, <1>7, <1>10, <2>1
<1>. QED  BY <1>9, <1>10

-----------------------------------------------------------------------------
(* The mutex and the local variables *)

(* A thread in a critical section owns the mutex; a worker holds the head  *)
(* of the list between front() and pop_front() and a request until it is   *)
(* done.                                                                   *)
Control ==
    /\ pc[Main] \in {"none", "idle", "lock", "push", "unlock", "post"}
    /\ \A w \in Workers : pc[w] \in {"none", "wait", "lock", "front", "pop"} \cup Working
    /\ \A w \in Workers : pc[w] \in {"front", "pop", "unlock"} => m_queuelocker = w
    /\ pc[Main] \in {"push", "unlock"} => m_queuelocker = Main
    /\ pc[Main] \in {"lock", "push"} => request[Main] \in Requests
    /\ \A w \in Workers : pc[w] = "pop" =>
           m_workqueue # <<>> /\ request[w] = Head(m_workqueue)
    /\ \A w \in Workers : pc[w] \in {"pop"} \cup Working => request[w] \in Requests

Inv1 == TypeOK /\ Control

(* The constructor starts in Inv1. *)
LEMMA Inv1Init == Init => Inv1
  BY ThreadPoolAssumption DEF Init, Inv1, TypeOK, Control, Threads, KeepState, Working

-----------------------------------------------------------------------------
(* Where the accepted requests are *)

Held(r) == Cardinality(Holding(r))
Listed(r) == Cardinality(PlacesOf(m_workqueue, r))

(* EachRequestOnce, with the two counts. *)
LEMMA OnceForm == EachRequestOnce <=> \A r \in Requests : pending[r] = Listed(r) + Held(r)
  BY DEF EachRequestOnce, Listed, Held, PlacesOf

(* Both counts are natural numbers. *)
LEMMA Counts ==
    ASSUME TypeOK, NEW r \in Requests
    PROVE  /\ IsFiniteSet(Holding(r)) /\ Held(r) \in Nat /\ Listed(r) \in Nat
           /\ Holding(r) # {} => Held(r) # 0
<1>1. IsFiniteSet(Holding(r))
  BY ThreadPoolAssumption, FS_Subset DEF Holding
<1>2. Listed(r) \in Nat
  BY PlacesFinite DEF TypeOK, Listed
<1>. QED  BY <1>1, <1>2, FS_CardinalityType, FS_EmptySet DEF Held

(* What a worker that is done with its request has given back. *)
Done(w) == /\ pc[w] \in Working /\ pc' = [pc EXCEPT ![w] = "wait"]
           /\ Finish(w)
           /\ UNCHANGED <<ctorVars, queueVars, m_state, state>>

(* The steps that neither push nor pop nor finish a request. *)
Quiet ==
    \/ CtorFails \/ CtorDone \/ UNCHANGED vars \/ \E w \in Workers : CreateWorker(w)
    \/ \E r \in Requests, s \in {0, 1, KeepState} : CallAppend(r, s)
    \/ AppendLock \/ AppendReject \/ AppendUnlock \/ AppendPost
    \/ \E w \in Workers : \/ RunWait(w) \/ RunLock(w) \/ RunFront(w) \/ RunUnlock(w)
                          \/ RunBorrow(w) \/ RunWild(w) \/ RunReserve(w) \/ ProcessNull(w)
                          \/ RunHandle(w) /\ UNCHANGED <<request, pending>>

(* Every step is a quiet one, a push, a pop, or the end of a request. *)
LEMMA StepKinds ==
    ASSUME Inv1, [Next]_vars
    PROVE  \/ Quiet \/ AppendPush
           \/ \E w \in Workers : RunPop(w) \/ Done(w)
<1>1. ASSUME NEW w \in Workers, RunHandle(w)
      PROVE  Done(w) \/ (RunHandle(w) /\ UNCHANGED <<request, pending>>)
  BY <1>1 DEF RunHandle, Done, Goto, Working
<1>2. ASSUME NEW w \in Workers, RunProcess(w) PROVE Done(w)
  BY <1>2 DEF RunProcess, Done, Goto, Working
<1>. QED  BY <1>1, <1>2 DEF Next, AppendStep, RunStep, Aborted, Quiet

(* A quiet step leaves the list, the history and the holders alone. *)
LEMMA QuietHolders ==
    ASSUME Inv1, Quiet
    PROVE  m_workqueue' = m_workqueue /\ pending' = pending /\ \A r \in Requests : Holding(r)' = Holding(r)
<1>. USE ThreadPoolAssumption
     DEF Inv1, TypeOK, Control, Holding, Working, Threads, Goto, ctorVars, queueVars
<1>1. CASE CtorFails \/ CtorDone \/ UNCHANGED vars
  BY <1>1 DEF CtorFails, CtorDone, vars
<1>2. CASE AppendLock \/ AppendReject \/ AppendUnlock \/ AppendPost
  BY <1>2 DEF AppendLock, AppendReject, AppendUnlock, AppendPost, DropArguments
<1>3. ASSUME NEW r \in Requests, NEW s \in {0, 1, KeepState}, CallAppend(r, s)
      PROVE  m_workqueue' = m_workqueue /\ pending' = pending /\ \A q \in Requests : Holding(q)' = Holding(q)
  BY <1>3 DEF CallAppend
<1>4. ASSUME NEW w \in Workers,
             CreateWorker(w) \/ RunWait(w) \/ RunLock(w) \/ RunFront(w) \/ RunUnlock(w)
      PROVE  m_workqueue' = m_workqueue /\ pending' = pending /\ \A q \in Requests : Holding(q)' = Holding(q)
  <2>1. CASE CreateWorker(w)  BY <2>1 DEF CreateWorker
  <2>2. CASE RunWait(w)  BY <2>2 DEF RunWait
  <2>3. CASE RunLock(w)  BY <2>3 DEF RunLock
  <2>4. CASE RunFront(w)  BY <2>4 DEF RunFront
  <2>5. CASE RunUnlock(w)  BY <2>5 DEF RunUnlock
  <2>. QED  BY <1>4, <2>1, <2>2, <2>3, <2>4, <2>5
<1>5. ASSUME NEW w \in Workers,
             \/ RunBorrow(w) \/ RunWild(w) \/ RunReserve(w) \/ ProcessNull(w)
             \/ RunHandle(w) /\ UNCHANGED <<request, pending>>
      PROVE  m_workqueue' = m_workqueue /\ pending' = pending /\ \A q \in Requests : Holding(q)' = Holding(q)
  <2>1. CASE RunBorrow(w)  BY <2>1 DEF RunBorrow
  <2>2. CASE RunWild(w)  BY <2>2 DEF RunWild
  <2>3. CASE RunReserve(w)  BY <2>3 DEF RunReserve
  <2>4. CASE ProcessNull(w)  BY <2>4 DEF ProcessNull
  <2>5. CASE RunHandle(w) /\ UNCHANGED <<request, pending>>
    <3>1. request[w] \in Requests  BY <2>5 DEF RunHandle
    <3>2. request' = request /\ pending' = pending /\ m_workqueue' = m_workqueue
      BY <2>5 DEF RunHandle
    <3>3. CASE Goto(w, "handle", "borrow")
      BY <3>2, <3>3
    <3>4. CASE Goto(w, "handle", "wait") /\ Finish(w)
      BY <3>1, <3>2, <3>4 DEF Finish
    <3>. QED  BY <2>5, <3>3, <3>4 DEF RunHandle
  <2>. QED  BY <1>5, <2>1, <2>2, <2>3, <2>4, <2>5
<1>. QED  BY <1>1, <1>2, <1>3, <1>4, <1>5 DEF Quiet

(* push_back: one more of the request is accepted, and listed. *)
LEMMA PushStep ==
    ASSUME Inv1, EachRequestOnce, AppendPush
    PROVE  EachRequestOnce' /\ pending' \in [Requests -> Nat] /\ Len(m_workqueue') = Len(m_workqueue) + 1
<1>. DEFINE q == request[Main]
<1>1. /\ m_workqueue \in Seq(Requests) /\ m_workqueue' = Append(m_workqueue, q)
      /\ q \in Requests /\ pending' = [pending EXCEPT ![q] = @ + 1]
      /\ pending \in [Requests -> Nat] /\ TypeOK
  BY DEF AppendPush, Goto, Inv1, TypeOK, Control
<1>2. \A r \in Requests : Holding(r)' = Holding(r)
  BY ThreadPoolAssumption
     DEF AppendPush, DropArguments, Goto, Inv1, TypeOK, Control, Holding, Working, Threads
<1>3. ASSUME NEW r \in Requests PROVE pending'[r] = Listed(r)' + Held(r)'
  <2>1. Listed(r)' = Listed(r) + (IF q = r THEN 1 ELSE 0)
    BY <1>1, PlacesAppend DEF Listed
  <2>2. Held(r)' = Held(r)
    BY <1>2 DEF Held
  <2>3. pending[r] = Listed(r) + Held(r) /\ Listed(r) \in Nat /\ Held(r) \in Nat
    BY <1>1, OnceForm, Counts
  <2>. HIDE DEF q
  <2>. QED  BY <1>1, <2>1, <2>2, <2>3
<1>4. EachRequestOnce'
  BY <1>3 DEF EachRequestOnce, Listed, Held, PlacesOf
<1>5. Len(m_workqueue') = Len(m_workqueue) + 1
  BY <1>1, AppendProperties
<1>. QED  BY <1>1, <1>4, <1>5

(* pop_front: what leaves the list is in the worker's hands. *)
LEMMA PopStep ==
    ASSUME Inv1, EachRequestOnce, NEW w \in Workers, RunPop(w)
    PROVE  EachRequestOnce' /\ Len(m_workqueue') = Len(m_workqueue) - 1
<1>1. /\ m_workqueue \in Seq(Requests) /\ m_workqueue # <<>>
      /\ m_workqueue' = Tail(m_workqueue) /\ request[w] = Head(m_workqueue)
      /\ pending' = pending /\ request' = request /\ TypeOK
  BY DEF RunPop, Goto, Inv1, TypeOK, Control
<1>2. ASSUME NEW r \in Requests PROVE pending'[r] = Listed(r)' + Held(r)'
  <2>1. Listed(r) = Listed(r)' + (IF request[w] = r THEN 1 ELSE 0)
    BY <1>1, PlacesTail DEF Listed
  <2>2. Holding(r)' = (IF request[w] = r THEN Holding(r) \cup {w} ELSE Holding(r)) /\ w \notin Holding(r)
    BY <1>1 DEF RunPop, Goto, TypeOK, Holding, Working, Threads
  <2>3. IsFiniteSet(Holding(r)) /\ Held(r) \in Nat
    BY <1>1, Counts
  <2>4. Held(r)' = Held(r) + (IF request[w] = r THEN 1 ELSE 0)
    BY <2>2, <2>3, FS_AddElement DEF Held
  <2>5. Listed(r)' \in Nat
    <3>1. Tail(m_workqueue) \in Seq(Requests)  BY <1>1, HeadTailProperties
    <3>. QED  BY <1>1, <3>1, PlacesFinite DEF Listed
  <2>6. pending[r] = Listed(r) + Held(r)
    BY OnceForm
  <2>. QED  BY <1>1, <2>1, <2>3, <2>4, <2>5, <2>6
<1>3. EachRequestOnce'
  BY <1>2 DEF EachRequestOnce, Listed, Held, PlacesOf
<1>4. Len(m_workqueue') = Len(m_workqueue) - 1
  BY <1>1, HeadTailProperties
<1>. QED  BY <1>3, <1>4

(* The end of a request: it was counted, and nobody has it any more. *)
LEMMA DoneStep ==
    ASSUME Inv1, EachRequestOnce, NEW w \in Workers, Done(w)
    PROVE  EachRequestOnce' /\ pending' \in [Requests -> Nat]
<1>. DEFINE q == request[w]
<1>1. /\ m_workqueue' = m_workqueue /\ pending' = [pending EXCEPT ![q] = @ - 1]
      /\ q \in Requests /\ pending \in [Requests -> Nat] /\ TypeOK
  BY DEF Done, Finish, Inv1, TypeOK, Control, queueVars
<1>2. \A r \in Requests : Holding(r)' = Holding(r) \ {w} /\ (w \in Holding(r) <=> q = r)
  BY <1>1 DEF Done, Finish, TypeOK, Holding, Working, Threads
<1>3. ASSUME NEW r \in Requests PROVE pending'[r] = Listed(r)' + Held(r)' /\ pending'[r] \in Nat
  <2>1. Listed(r)' = Listed(r) /\ Listed(r) \in Nat
    BY <1>1, Counts DEF Listed
  <2>2. IsFiniteSet(Holding(r)) /\ Held(r) \in Nat /\ (q = r => Held(r) # 0)
    BY <1>1, <1>2, Counts
  <2>3. Held(r)' = Held(r) - (IF q = r THEN 1 ELSE 0)
    <3>1. CASE q = r
      BY <1>2, <2>2, <3>1, FS_RemoveElement DEF Held
    <3>2. CASE q # r
      <4>1. Holding(r)' = Holding(r)  BY <1>2, <3>2
      <4>. QED  BY <2>2, <3>2, <4>1 DEF Held
    <3>. QED  BY <3>1, <3>2
  <2>4. pending[r] = Listed(r) + Held(r)
    BY OnceForm
  <2>. HIDE DEF q
  <2>. QED  BY <1>1, <2>1, <2>2, <2>3, <2>4
<1>4. EachRequestOnce'
  BY <1>3 DEF EachRequestOnce, Listed, Held, PlacesOf
<1>. QED  BY <1>1, <1>3, <1>4

(* Every step preserves the place of every accepted append. *)
LEMMA OnceStep == Inv1 /\ EachRequestOnce /\ [Next]_vars => EachRequestOnce' /\ pending' \in [Requests -> Nat]
<1>. SUFFICES ASSUME Inv1, EachRequestOnce, [Next]_vars
              PROVE  EachRequestOnce' /\ pending' \in [Requests -> Nat]
  OBVIOUS
<1>1. CASE Quiet
  <2>1. m_workqueue' = m_workqueue /\ pending' = pending /\ \A r \in Requests : Holding(r)' = Holding(r)
    BY <1>1, QuietHolders
  <2>. QED  BY <2>1 DEF EachRequestOnce, Inv1, TypeOK
<1>2. CASE \E w \in Workers : RunPop(w)
  BY <1>2, PopStep DEF RunPop, Inv1, TypeOK
<1>. QED  BY <1>1, <1>2, StepKinds, PushStep, DoneStep

(* A worker goes from one stage of its request to the next. *)
LEMMA StageStep ==
    ASSUME Inv1, NEW w \in Workers, NEW to \in Working \ {"unlock"},
           pc[w] \in Working \ {"unlock"}, pc' = [pc EXCEPT ![w] = to],
           UNCHANGED <<ctorVars, queueVars, m_state, request, state, pending>>
    PROVE  Inv1'
<1>. USE ThreadPoolAssumption DEF Inv1, Threads, Working, ctorVars, garbageVars, queueVars, KeepState
<1>1. TypeOK'  BY DEF TypeOK
<1>2. Control'  BY DEF TypeOK, Control
<1>. QED  BY <1>1, <1>2

(* A worker is done with its request. *)
LEMMA DoneInv1 ==
    ASSUME Inv1, NEW w \in Workers, Done(w), pending' \in [Requests -> Nat], pc[w] # "unlock"
    PROVE  Inv1'
<1>. USE ThreadPoolAssumption
     DEF Inv1, Done, Finish, Threads, Working, ctorVars, garbageVars, queueVars, KeepState
<1>1. TypeOK'  BY DEF TypeOK
<1>2. Control'  BY DEF TypeOK, Control
<1>. QED  BY <1>1, <1>2

(* Every step of a worker after the critical section preserves Inv1. *)
LEMMA WorkInv1 ==
    ASSUME Inv1, pending' \in [Requests -> Nat], NEW w \in Workers,
           RunHandle(w) \/ RunBorrow(w) \/ RunReserve(w) \/ RunProcess(w)
    PROVE  Inv1'
<1>1. CASE RunHandle(w)
  <2>1. CASE Goto(w, "handle", "wait") /\ Finish(w)
    <3>1. Done(w) /\ pc[w] # "unlock"  BY <1>1, <2>1 DEF RunHandle, Done, Goto, Working
    <3>. QED  BY <3>1, DoneInv1
  <2>2. CASE Goto(w, "handle", "borrow") /\ UNCHANGED <<pending, request>>
    BY <1>1, <2>2, StageStep DEF RunHandle, Goto, Working
  <2>. QED  BY <1>1, <2>1, <2>2 DEF RunHandle
<1>2. CASE RunBorrow(w)
  BY <1>2, StageStep DEF RunBorrow, Goto, Working
<1>3. CASE RunReserve(w)
  BY <1>3, StageStep DEF RunReserve, Goto, Working
<1>4. CASE RunProcess(w)
  <2>1. Done(w) /\ pc[w] # "unlock"  BY <1>4 DEF RunProcess, Done, Goto, Working
  <2>. QED  BY <2>1, DoneInv1
<1>. QED  BY <1>1, <1>2, <1>3, <1>4

(* Every step preserves Inv1. *)
LEMMA Inv1Step == Inv1 /\ EachRequestOnce /\ [Next]_vars => Inv1'
<1>. SUFFICES ASSUME Inv1, EachRequestOnce, [Next]_vars PROVE Inv1'
  OBVIOUS
<1>0. pending' \in [Requests -> Nat]
  BY OnceStep
<1>. USE <1>0, ThreadPoolAssumption
     DEF Inv1, TypeOK, Control, Threads, Goto, ctorVars, garbageVars, queueVars, KeepState, Working
<1>1. CASE CtorFails
  BY <1>1 DEF CtorFails
<1>2. CASE CtorDone
  BY <1>2 DEF CtorDone
<1>3. CASE UNCHANGED vars
  BY <1>3 DEF vars
<1>4. ASSUME NEW w \in Workers, CreateWorker(w) PROVE Inv1'
  BY <1>4 DEF CreateWorker
<1>5. ASSUME NEW r \in Requests, NEW s \in {0, 1, KeepState}, CallAppend(r, s) PROVE Inv1'
  BY <1>5 DEF CallAppend
<1>6. CASE AppendLock
  BY <1>6 DEF AppendLock, Lock
<1>7. CASE AppendReject
  BY <1>7 DEF AppendReject, Unlock, DropArguments
<1>8. CASE AppendPush
  <2>1. m_state' \in [Requests -> {0, 1}]
    BY <1>8 DEF AppendPush
  <2>2. m_workqueue' \in Seq(Requests)
    BY <1>8, AppendProperties DEF AppendPush
  <2>. QED  BY <1>8, <2>1, <2>2 DEF AppendPush, DropArguments
<1>9. CASE AppendUnlock
  BY <1>9 DEF AppendUnlock, Unlock
<1>10. CASE AppendPost
  BY <1>10 DEF AppendPost, SemPost
<1>11. ASSUME NEW w \in Workers, RunStep(w) PROVE Inv1'
  <2>1. CASE RunWait(w)
    BY <2>1 DEF RunWait, SemWait
  <2>2. CASE RunFront(w)
    <3>1. CASE m_workqueue = <<>>
      BY <2>2, <3>1 DEF RunFront, Unlock
    <3>2. CASE m_workqueue # <<>>
      <4>1. Head(m_workqueue) \in Requests
        BY <3>2, HeadTailProperties
      <4>2. /\ pc' = [pc EXCEPT ![w] = "pop"] /\ pc[w] = "front"
            /\ request' = [request EXCEPT ![w] = Head(m_workqueue)]
            /\ UNCHANGED <<ctorVars, m_workqueue, m_queuelocker, m_queuestat, m_state, state>>
        BY <2>2, <3>2 DEF RunFront
      <4>3. TypeOK'  BY <4>1, <4>2
      <4>4. Control'  BY <3>2, <4>1, <4>2
      <4>. QED  BY <4>3, <4>4
    <3>. QED  BY <3>1, <3>2
  <2>3. CASE RunPop(w)
    BY <2>3, HeadTailProperties DEF RunPop
  <2>4. CASE RunUnlock(w)
    BY <2>4 DEF RunUnlock, Unlock
  <2>5. CASE RunWild(w)
    BY <2>5 DEF RunWild
  <2>6. CASE RunHandle(w) \/ RunBorrow(w) \/ RunReserve(w) \/ RunProcess(w)
    <3>. HIDE DEF Inv1
    <3>. QED  BY <2>6, WorkInv1
  <2>. QED  BY <1>11, <2>1, <2>2, <2>3, <2>4, <2>5, <2>6 DEF RunStep
<1>12. ASSUME NEW w \in Workers, RunLock(w) PROVE Inv1'
  BY <1>12 DEF RunLock, Lock
<1>13. ASSUME NEW w \in Workers, ProcessNull(w) PROVE Inv1'
  BY <1>13 DEF ProcessNull
<1>. QED  BY <1>1, <1>2, <1>3, <1>4, <1>5, <1>6, <1>7, <1>8, <1>9, <1>10, <1>11, <1>12, <1>13
          DEF Next, AppendStep, Aborted

(* The constructor starts with nothing accepted. *)
LEMMA OnceInit == Init => EachRequestOnce
<1>. SUFFICES ASSUME Init, NEW r \in Requests PROVE pending[r] = Listed(r) + Held(r)
  BY OnceForm
<1>1. Holding(r) = {}
  BY DEF Init, Holding, Working, Threads
<1>2. Held(r) = 0
  BY <1>1, FS_EmptySet DEF Held
<1>3. Listed(r) = 0
  BY EmptySeq, PlacesFinite DEF Init, Listed
<1>. QED  BY <1>2, <1>3 DEF Init

-----------------------------------------------------------------------------
(* The semaphore *)

(* The unit append still owes the semaphore. *)
Owed == IF pc[Main] \in {"unlock", "post"} THEN 1 ELSE 0

(* SemaphoreCountsQueue, with Owed. *)
LEMMA CountForm ==
    SemaphoreCountsQueue <=> Len(m_workqueue) = m_queuestat + Cardinality(Taking) + Owed
  BY DEF SemaphoreCountsQueue, Owed

(* Taking is a set of workers, hence finite, and the numbers are naturals. *)
LEMMA CountTypes ==
    ASSUME Inv1
    PROVE  /\ IsFiniteSet(Taking) /\ Cardinality(Taking) \in Nat /\ Owed \in {0, 1}
           /\ m_queuestat \in Nat /\ Len(m_workqueue) \in Nat
           /\ Taking # {} => Cardinality(Taking) # 0
<1>1. IsFiniteSet(Taking)
  BY ThreadPoolAssumption, FS_Subset DEF Taking
<1>. QED  BY <1>1, FS_CardinalityType, FS_EmptySet, LenProperties DEF Inv1, TypeOK, Owed

(* The constructor starts with an empty list and a semaphore at zero. *)
LEMMA CountInit == Init => SemaphoreCountsQueue
<1>. SUFFICES ASSUME Init PROVE SemaphoreCountsQueue
  OBVIOUS
<1>1. Taking = {} /\ pc[Main] = "none"
  BY DEF Init, Taking, Threads
<1>2. Cardinality(Taking) = 0
  BY <1>1, FS_EmptySet
<1>. QED  BY <1>1, <1>2 DEF Init, SemaphoreCountsQueue

(* While the count is exact, a worker inside the critical section finds a  *)
(* request.                                                                *)
LEMMA CountWakeup == Inv1 /\ SemaphoreCountsQueue => NoEmptyWakeup
<1>. SUFFICES ASSUME Inv1, SemaphoreCountsQueue, NEW w \in Workers, pc[w] \in {"front", "pop"}
              PROVE  m_workqueue # <<>>
  BY DEF NoEmptyWakeup
<1>1. w \in Taking  BY DEF Taking
<1>2. Len(m_workqueue) # 0
  BY <1>1, CountForm, CountTypes
<1>. QED  BY <1>2

(* Every step preserves the count. *)
LEMMA CountStep == Inv1 /\ EachRequestOnce /\ SemaphoreCountsQueue /\ [Next]_vars => SemaphoreCountsQueue'
<1>. SUFFICES ASSUME Inv1, EachRequestOnce, SemaphoreCountsQueue, [Next]_vars
              PROVE  Len(m_workqueue') = m_queuestat' + Cardinality(Taking') + Owed'
  BY CountForm DEF SemaphoreCountsQueue, Owed
<1>0. /\ IsFiniteSet(Taking) /\ Cardinality(Taking) \in Nat /\ Owed \in {0, 1}
      /\ m_queuestat \in Nat /\ Len(m_workqueue) \in Nat
      /\ Len(m_workqueue) = m_queuestat + Cardinality(Taking) + Owed
  BY CountForm, CountTypes
<1>. USE ThreadPoolAssumption
     DEF Inv1, TypeOK, Control, Working, Threads, Goto, ctorVars, queueVars
<1>1. CASE CtorFails \/ CtorDone \/ UNCHANGED vars \/ AppendLock \/ AppendReject \/ AppendUnlock
  <2>1. Taking' = Taking /\ Owed' = Owed /\ m_queuestat' = m_queuestat /\ m_workqueue' = m_workqueue
    <3>1. CASE CtorFails \/ CtorDone \/ UNCHANGED vars
      BY <3>1 DEF CtorFails, CtorDone, vars, Taking, Owed
    <3>2. CASE AppendLock \/ AppendReject \/ AppendUnlock
      BY <3>2 DEF AppendLock, AppendReject, AppendUnlock, Taking, Owed
    <3>. QED  BY <1>1, <3>1, <3>2
  <2>. QED  BY <1>0, <2>1
<1>2. ASSUME NEW r \in Requests, NEW s \in {0, 1, KeepState}, CallAppend(r, s)
      PROVE  Len(m_workqueue') = m_queuestat' + Cardinality(Taking') + Owed'
  <2>1. Taking' = Taking /\ Owed' = Owed /\ m_queuestat' = m_queuestat /\ m_workqueue' = m_workqueue
    BY <1>2 DEF CallAppend, Taking, Owed
  <2>. QED  BY <1>0, <2>1
<1>3. CASE AppendPush
  <2>1. /\ pc[Main] = "push" /\ pc' = [pc EXCEPT ![Main] = "unlock"]
        /\ m_queuestat' = m_queuestat
    BY <1>3 DEF AppendPush
  <2>2. Taking' = Taking /\ Owed' = 1 /\ Owed = 0
    BY <2>1 DEF Taking, Owed
  <2>3. Len(m_workqueue') = Len(m_workqueue) + 1
    <3>. HIDE DEF Inv1
    <3>. QED  BY <1>3, PushStep
  <2>. QED  BY <1>0, <2>1, <2>2, <2>3
<1>4. CASE AppendPost
  <2>1. /\ Taking' = Taking /\ Owed' = 0 /\ Owed = 1 /\ m_queuestat' = m_queuestat + 1
        /\ m_workqueue' = m_workqueue
    BY <1>4 DEF AppendPost, SemPost, Taking, Owed
  <2>. QED  BY <1>0, <2>1
<1>5. ASSUME NEW w \in Workers, RunWait(w)
      PROVE  Len(m_workqueue') = m_queuestat' + Cardinality(Taking') + Owed'
  <2>1. /\ Taking' = Taking \cup {w} /\ w \notin Taking /\ Owed' = Owed
        /\ m_queuestat' = m_queuestat - 1 /\ m_workqueue' = m_workqueue
    BY <1>5 DEF RunWait, SemWait, Taking, Owed
  <2>2. Cardinality(Taking') = Cardinality(Taking) + 1
    BY <1>0, <2>1, FS_AddElement
  <2>. QED  BY <1>0, <2>1, <2>2
<1>6. ASSUME NEW w \in Workers, RunPop(w)
      PROVE  Len(m_workqueue') = m_queuestat' + Cardinality(Taking') + Owed'
  <2>1. /\ Taking' = Taking \ {w} /\ w \in Taking /\ Owed' = Owed
        /\ m_queuestat' = m_queuestat
    BY <1>6 DEF RunPop, Taking, Owed
  <2>2. Cardinality(Taking') = Cardinality(Taking) - 1
    BY <1>0, <2>1, FS_RemoveElement
  <2>. QED  BY <1>0, <1>6, <2>1, <2>2, PopStep
<1>7. ASSUME NEW w \in Workers, RunFront(w)
      PROVE  Len(m_workqueue') = m_queuestat' + Cardinality(Taking') + Owed'
  <2>1. pc[w] = "front" /\ m_workqueue # <<>>
    BY <1>7, CountWakeup DEF RunFront, NoEmptyWakeup
  <2>2. Taking' = Taking /\ Owed' = Owed /\ m_queuestat' = m_queuestat /\ m_workqueue' = m_workqueue
    BY <1>7, <2>1 DEF RunFront, Taking, Owed
  <2>. QED  BY <1>0, <2>2
<1>8. ASSUME NEW w \in Workers, \/ CreateWorker(w) \/ RunLock(w) \/ RunUnlock(w)
                               \/ RunHandle(w) \/ RunBorrow(w) \/ RunWild(w) \/ RunReserve(w)
                               \/ RunProcess(w) \/ ProcessNull(w)
      PROVE  Len(m_workqueue') = m_queuestat' + Cardinality(Taking') + Owed'
  <2>1. Taking' = Taking /\ Owed' = Owed /\ m_queuestat' = m_queuestat /\ m_workqueue' = m_workqueue
    <3>1. CASE CreateWorker(w) \/ RunLock(w) \/ RunUnlock(w)
      BY <3>1 DEF CreateWorker, RunLock, RunUnlock, Taking, Owed
    <3>2. CASE RunHandle(w)
      BY <3>2 DEF RunHandle, Taking, Owed
    <3>3. CASE RunBorrow(w) \/ RunReserve(w)
      BY <3>3 DEF RunBorrow, RunReserve, Taking, Owed
    <3>4. CASE RunWild(w) \/ ProcessNull(w)
      BY <3>4 DEF RunWild, ProcessNull, Taking, Owed
    <3>5. CASE RunProcess(w)
      BY <3>5 DEF RunProcess, Taking, Owed
    <3>. QED  BY <1>8, <3>1, <3>2, <3>3, <3>4, <3>5
  <2>. QED  BY <1>0, <2>1
<1>. QED  BY <1>1, <1>2, <1>3, <1>4, <1>5, <1>6, <1>7, <1>8
          DEF Next, AppendStep, RunStep, Aborted

-----------------------------------------------------------------------------
(* Theorems *)

(* The inductive invariant holds in every state of the pool. *)
THEOREM Invariance == Spec => [](Inv1 /\ EachRequestOnce /\ SemaphoreCountsQueue)
<1>1. Init => Inv1 /\ EachRequestOnce /\ SemaphoreCountsQueue
  BY Inv1Init, OnceInit, CountInit
<1>2. (Inv1 /\ EachRequestOnce /\ SemaphoreCountsQueue) /\ [Next]_vars
        => (Inv1 /\ EachRequestOnce /\ SemaphoreCountsQueue)'
  BY Inv1Step, OnceStep, CountStep
<1>. QED  BY <1>1, <1>2, PTL DEF Spec

(* Every variable of the pool keeps its type, whatever the uninitialised   *)
(* limits are; in particular the semaphore is never negative.              *)
THEOREM TypeCorrect == Spec => []TypeOK
<1>1. Inv1 => TypeOK  BY DEF Inv1
<1>. QED  BY <1>1, Invariance, PTL

(* append and run together keep the semaphore equal to the number of       *)
(* listed requests nobody is on the way to.                                *)
THEOREM SemaphoreExact == Spec => []SemaphoreCountsQueue
  BY Invariance, PTL

(* The empty() test of run never sends a worker back to the semaphore. *)
THEOREM WakeupFindsRequest == Spec => []NoEmptyWakeup
  BY Invariance, CountWakeup, PTL

(* No accepted append is lost or handed to two workers, however often the  *)
(* same connection is appended.                                            *)
THEOREM RequestsOnce == Spec => []EachRequestOnce
  BY Invariance, PTL
=============================================================================
