----------------------- MODULE SqlConnectionPoolProofs -----------------------
(***************************************************************************)
(* Proofs about SqlConnectionPool, for any number of threads and handles.  *)
(***************************************************************************)
EXTENDS SqlConnectionPool, SequenceTheorems, FiniteSetTheorems, TLAPS

-----------------------------------------------------------------------------
(* The free list *)

(* push_back of a new element adds it to the elements of the list. *)
LEMMA PushBack ==
    ASSUME NEW S, NEW s \in Seq(S), IsInjective(s), NEW x \in S, x \notin ToSet(s)
    PROVE  /\ Append(s, x) \in Seq(S) /\ IsInjective(Append(s, x))
           /\ ToSet(Append(s, x)) = ToSet(s) \cup {x}
           /\ Len(Append(s, x)) = Len(s) + 1
<1>1. /\ Append(s, x) \in Seq(S) /\ Len(s) \in Nat /\ Len(Append(s, x)) = Len(s) + 1
      /\ \A i \in 1..Len(s) : Append(s, x)[i] = s[i]
      /\ Append(s, x)[Len(s) + 1] = x
  BY AppendProperties, LenProperties
<1>2. 1..(Len(s) + 1) = (1..Len(s)) \cup {Len(s) + 1}
  BY <1>1
<1>3. \A i \in 1..Len(s) : s[i] # x
  BY DEF ToSet
<1>4. ToSet(Append(s, x)) = ToSet(s) \cup {x}
  BY <1>1, <1>2 DEF ToSet
<1>5. IsInjective(Append(s, x))
  BY <1>1, <1>3 DEF IsInjective
<1>. QED  BY <1>1, <1>4, <1>5

(* pop_front of a list without repetitions removes its head. *)
LEMMA PopFront ==
    ASSUME NEW S, NEW s \in Seq(S), IsInjective(s), s # <<>>
    PROVE  /\ Tail(s) \in Seq(S) /\ IsInjective(Tail(s))
           /\ Head(s) \in ToSet(s) /\ ToSet(Tail(s)) = ToSet(s) \ {Head(s)}
           /\ Len(Tail(s)) = Len(s) - 1
<1>1. /\ Len(s) \in Nat \ {0} /\ Tail(s) \in Seq(S) /\ Len(Tail(s)) = Len(s) - 1
      /\ \A i \in 1..Len(Tail(s)) : Tail(s)[i] = s[i + 1]
      /\ Head(s) = s[1]
  BY HeadTailProperties, EmptySeq, LenProperties
<1>2. \A i \in 2..Len(s) : i - 1 \in 1..Len(Tail(s)) /\ Tail(s)[i - 1] = s[i] /\ s[i] # s[1]
  BY <1>1 DEF IsInjective
<1>3. ASSUME NEW x \in ToSet(s) \ {Head(s)} PROVE x \in ToSet(Tail(s))
  <2>1. PICK i \in 1..Len(s) : x = s[i]  BY DEF ToSet
  <2>2. i \in 2..Len(s)  BY <1>1, <1>3, <2>1
  <2>3. i - 1 \in DOMAIN Tail(s) /\ x = Tail(s)[i - 1]  BY <1>1, <1>2, <2>1, <2>2
  <2>. QED  BY <2>3, Zenon DEF ToSet
<1>4. ASSUME NEW x \in ToSet(Tail(s)) PROVE x \in ToSet(s) \ {Head(s)}
  <2>1. PICK i \in 1..Len(Tail(s)) : x = Tail(s)[i]  BY <1>1 DEF ToSet
  <2>. QED  BY <1>1, <2>1 DEF ToSet, IsInjective
<1>5. Head(s) \in ToSet(s)
  BY <1>1 DEF ToSet
<1>6. IsInjective(Tail(s))
  BY <1>1 DEF IsInjective
<1>. QED  BY <1>1, <1>3, <1>4, <1>5, <1>6

(* A list without repetitions has as many elements as positions. *)
LEMMA ListSize ==
    ASSUME NEW S, NEW s \in Seq(S), IsInjective(s)
    PROVE  /\ ToSet(s) \subseteq S /\ IsFiniteSet(ToSet(s))
           /\ Len(s) \in Nat /\ Cardinality(ToSet(s)) = Len(s)
<1>1. /\ Len(s) \in Nat /\ s \in [1..Len(s) -> ToSet(s)] /\ ToSet(s) \subseteq S
  BY LenProperties DEF ToSet
<1>2. s \in Bijection(1..Len(s), ToSet(s))
  BY <1>1 DEF ToSet, IsInjective, Bijection, Injection, Surjection
<1>3. ExistsBijection(1..Len(s), ToSet(s))
  BY <1>2 DEF ExistsBijection
<1>4. IsFiniteSet(1..Len(s)) /\ Cardinality(1..Len(s)) = Len(s)
  BY <1>1, FS_Interval
<1>. QED  BY <1>1, <1>3, <1>4, FS_Bijection

-----------------------------------------------------------------------------
(* The mutex and the local variables *)

(* Where a thread is between lock.lock() and lock.unlock(). *)
InSection == {"front", "pop", "undefined", "getUnlock", "put", "relUnlock"}

(* The labels at which the connectionRAII of a thread holds no handle. *)
Empty == {"idle", "wait", "getLock", "front", "undefined", "relUnlock", "post"}

(* A thread in a critical section owns the mutex; its handle is the head   *)
(* of the list between front() and pop_front(), never NULL where it is     *)
(* used, and NULL where it has none; no thread runs before init is done,   *)
(* and init counts the handles it lists.                                   *)
Control ==
    /\ \A t \in Threads : pc[t] \in InSection => lock = t
    /\ \A t \in Threads : pc[t] \in Empty => con[t] = Null
    /\ \A t \in Threads : pc[t] \in {"pop", "getUnlock", "relLock", "put"} => con[t] # Null
    /\ \A t \in Threads : pc[t] = "pop" => connList # <<>> /\ con[t] = Head(connList)
    /\ phase \in {"init", "exited"} => \A t \in Threads : pc[t] = "idle"
    /\ phase = "init" => m_FreeConn = Len(connList)

Inv1 == TypeOK /\ Control

(* The constructor establishes Inv1. *)
LEMMA Inv1Init == Init => Inv1
  BY PoolAssumption DEF Init, Inv1, TypeOK, Control, InSection, Empty, Owning

(* Every step preserves Inv1. *)
LEMMA Inv1Step == Inv1 /\ [Next]_vars => Inv1'
<1>. SUFFICES ASSUME Inv1, [Next]_vars PROVE Inv1'
  OBVIOUS
<1>. USE PoolAssumption DEF Inv1, TypeOK, Control, InSection, Empty, Owning, Goto
<1>1. CASE Connect
  <2>1. PICK c \in Conns \ Listed : connList' = Append(connList, c)  BY <1>1 DEF Connect
  <2>2. connList' \in Seq(Conns) /\ Len(connList') = Len(connList) + 1  BY <2>1, AppendProperties
  <2>. QED  BY <1>1, <2>2 DEF Connect
<1>2. CASE ConnectFails
  BY <1>2 DEF ConnectFails
<1>3. CASE InitDone
  <2>1. m_FreeConn \in Nat  BY <1>3, LenProperties DEF InitDone
  <2>. QED  BY <1>3, <2>1 DEF InitDone
<1>4. CASE DestroyPool
  <2>1. Listed \subseteq Conns  BY ElementOfSeq DEF Listed, ToSet
  <2>0. /\ closed' = closed \/ closed' = closed \cup Listed
        /\ connList' = connList \/ connList' = <<>>
    BY <1>4 DEF DestroyPool
  <2>2. closed' \subseteq Conns /\ connList' \in Seq(Conns)
    <3>1. closed' \subseteq Conns  BY <2>0, <2>1
    <3>2. connList' \in Seq(Conns)  BY <2>0, EmptySeq
    <3>. QED  BY <3>1, <3>2
  <2>3. m_FreeConn' \in Int /\ m_CurConn' \in Int  BY <1>4 DEF DestroyPool
  <2>4. \A t \in Threads : pc[t] \notin InSection  BY <1>4 DEF DestroyPool
  <2>. QED  BY <1>4, <2>2, <2>3, <2>4 DEF DestroyPool
<1>5. CASE Exited
  BY <1>5 DEF Exited, vars
<1>6. CASE UNCHANGED vars
  BY <1>6 DEF vars
<1>7. ASSUME NEW t \in Threads, GetConnection(t) PROVE Inv1'
  BY <1>7 DEF GetConnection
<1>8. ASSUME NEW t \in Threads, Continue(t) PROVE Inv1'
  <2>1. CASE GetWait(t)
    BY <2>1 DEF GetWait, SemWait
  <2>2. CASE GetLock(t)
    BY <2>2 DEF GetLock, Lock
  <2>3. CASE GetFront(t)
    BY <2>3, HeadTailProperties DEF GetFront
  <2>4. CASE GetPop(t)
    BY <2>4, HeadTailProperties DEF GetPop
  <2>5. CASE GetUnlock(t)
    BY <2>5 DEF GetUnlock, Unlock
  <2>6. CASE ReleaseConnection(t)
    BY <2>6 DEF ReleaseConnection
  <2>7. CASE RelLock(t)
    BY <2>7 DEF RelLock, Lock
  <2>8. CASE RelPut(t)
    BY <2>8, AppendProperties DEF RelPut
  <2>9. CASE RelUnlock(t)
    BY <2>9 DEF RelUnlock, Unlock
  <2>10. CASE RelPost(t)
    BY <2>10 DEF RelPost, SemPost
  <2>. QED  BY <1>8, <2>1, <2>2, <2>3, <2>4, <2>5, <2>6, <2>7, <2>8, <2>9, <2>10 DEF Continue
<1>. QED  BY <1>1, <1>2, <1>3, <1>4, <1>5, <1>6, <1>7, <1>8 DEF Next

-----------------------------------------------------------------------------
(* Who has which handle *)

(* Every handle has one place: listed once, or owned by one thread, or     *)
(* closed.  In a live pool all handles are listed or owned.                *)
Inv2 ==
    /\ IsInjective(connList)
    /\ \A t \in Owners : con[t] \notin Listed /\ con[t] \notin closed
    /\ \A t, u \in Owners : con[t] = con[u] => t = u
    /\ Listed \cap closed = {}
    /\ phase # "destroyed" => closed = {}
    /\ phase = "ready" => Conns = Listed \cup {con[t] : t \in Owners}

(* The free list holds handles of init, each at one position. *)
LEMMA ListedSize == Inv1 /\ Inv2 => Listed \subseteq Conns /\ Cardinality(Listed) = Len(connList)
  BY ListSize DEF Inv1, TypeOK, Inv2, Listed

(* The constructor establishes Inv2. *)
LEMMA Inv2Init == Init => Inv2
<1>. SUFFICES ASSUME Init PROVE Inv2
  OBVIOUS
<1>1. Listed = {} /\ Owners = {}
  BY DEF Init, Listed, ToSet, Owners
<1>. QED  BY <1>1 DEF Init, Inv2, IsInjective

(* A step that leaves the list, the closed handles and the owners alone. *)
LEMMA Inv2Quiet ==
    ASSUME Inv2, connList' = connList, closed' = closed, Owners' = Owners,
           \A t \in Owners : con'[t] = con[t],
           phase' \in {phase, "exited"}, phase = "destroyed" => phase' = phase
    PROVE  Inv2'
<1>1. Listed' = Listed  BY DEF Listed
<1>2. {con'[t] : t \in Owners'} = {con[t] : t \in Owners}  OBVIOUS
<1>. QED  BY <1>1, <1>2 DEF Inv2

(* pop_front by a thread that then owns the former head. *)
LEMMA Inv2Pop ==
    ASSUME Inv1, Inv2, NEW t \in Threads, GetPop(t)
    PROVE  Inv2' /\ Owners' = Owners \cup {t} /\ t \notin Owners /\ Len(connList') = Len(connList) - 1
<1>1. /\ connList \in Seq(Conns) /\ connList # <<>> /\ connList' = Tail(connList)
      /\ con[t] = Head(connList) /\ con[t] # Null /\ con' = con
      /\ pc[t] = "pop" /\ pc'[t] = "getUnlock" /\ \A u \in Threads \ {t} : pc'[u] = pc[u]
      /\ UNCHANGED <<closed, phase>>
  BY DEF GetPop, Goto, Inv1, TypeOK, Control, Owning
<1>2. /\ Listed' = Listed \ {con[t]} /\ con[t] \in Listed
      /\ IsInjective(connList') /\ Len(connList') = Len(connList) - 1
  BY <1>1, PopFront DEF Inv2, Listed
<1>3. Owners' = Owners \cup {t} /\ t \notin Owners
  BY <1>1 DEF Owners, Owning
<1>4. \A u, v \in Owners' : con'[u] = con'[v] => u = v
  BY <1>1, <1>2, <1>3 DEF Inv2
<1>5. {con'[u] : u \in Owners'} = {con[u] : u \in Owners} \cup {con[t]}
  BY <1>1, <1>3
<1>. QED  BY <1>1, <1>2, <1>3, <1>4, <1>5 DEF Inv2

(* push_back by a thread that no longer owns its handle. *)
LEMMA Inv2Put ==
    ASSUME Inv1, Inv2, NEW t \in Threads, RelPut(t)
    PROVE  Inv2' /\ Owners' = Owners \ {t} /\ t \in Owners /\ Len(connList') = Len(connList) + 1
<1>1. /\ connList \in Seq(Conns) /\ connList' = Append(connList, con[t])
      /\ con[t] \in Conns /\ con[t] # Null /\ con' = [con EXCEPT ![t] = Null]
      /\ con \in [Threads -> Conns \cup {Null}]
      /\ pc[t] = "put" /\ pc'[t] = "relUnlock" /\ \A u \in Threads \ {t} : pc'[u] = pc[u]
      /\ UNCHANGED <<closed, phase>>
  BY DEF RelPut, Goto, Inv1, TypeOK, Control, Owning
<1>2. Owners' = Owners \ {t} /\ t \in Owners
  BY <1>1 DEF Owners, Owning
<1>3. con[t] \notin Listed /\ con[t] \notin closed
  BY <1>2 DEF Inv2
<1>4. /\ Listed' = Listed \cup {con[t]}
      /\ IsInjective(connList') /\ Len(connList') = Len(connList) + 1
  BY <1>1, <1>3, PushBack DEF Listed, Inv2
<1>5. \A u \in Owners' : con'[u] = con[u] /\ con[u] # con[t]
  BY <1>1, <1>2 DEF Owners, Inv2
<1>6. {con'[u] : u \in Owners'} = {con[u] : u \in Owners} \ {con[t]}
  BY <1>2, <1>5 DEF Inv2
<1>. QED  BY <1>1, <1>2, <1>3, <1>4, <1>5, <1>6 DEF Inv2

(* The steps of a thread between which it neither gains nor gives a handle. *)
Quiet(t) ==
    \/ GetConnection(t) \/ GetWait(t) \/ GetLock(t) \/ GetFront(t) \/ GetUnlock(t)
    \/ ReleaseConnection(t) \/ RelLock(t) \/ RelUnlock(t) \/ RelPost(t)

(* A quiet step leaves the list, the owners and the counters alone. *)
LEMMA QuietOwners ==
    ASSUME Inv1, NEW t \in Threads, Quiet(t)
    PROVE  /\ Owners' = Owners /\ \A u \in Owners : con'[u] = con[u]
           /\ connList' = connList /\ closed' = closed /\ phase' = phase
           /\ m_FreeConn' = m_FreeConn /\ m_CurConn' = m_CurConn
<1>. USE DEF Inv1, TypeOK, Control, Empty, Owners, Owning, Goto
<1>1. CASE GetConnection(t)  BY <1>1 DEF GetConnection
<1>2. CASE GetWait(t)  BY <1>2 DEF GetWait
<1>3. CASE GetLock(t)  BY <1>3 DEF GetLock
<1>4. CASE GetFront(t)  BY <1>4 DEF GetFront
<1>5. CASE GetUnlock(t)  BY <1>5 DEF GetUnlock
<1>6. CASE ReleaseConnection(t)  BY <1>6 DEF ReleaseConnection
<1>7. CASE RelLock(t)  BY <1>7 DEF RelLock
<1>8. CASE RelUnlock(t)  BY <1>8 DEF RelUnlock
<1>9. CASE RelPost(t)  BY <1>9 DEF RelPost
<1>. QED  BY <1>1, <1>2, <1>3, <1>4, <1>5, <1>6, <1>7, <1>8, <1>9 DEF Quiet

(* Before init is done nobody owns a handle. *)
LEMMA NoOwnerBefore == Inv1 /\ phase \in {"init", "exited"} => Owners = {}
  BY DEF Inv1, Control, Owners, Owning

(* Every step preserves Inv2. *)
LEMMA Inv2Step == Inv1 /\ Inv2 /\ [Next]_vars => Inv2'
<1>. SUFFICES ASSUME Inv1, Inv2, [Next]_vars PROVE Inv2'
  OBVIOUS
<1>1. CASE Connect
  <2>1. PICK c \in Conns \ Listed : connList' = Append(connList, c)  BY <1>1 DEF Connect
  <2>2. connList \in Seq(Conns) /\ phase = "init" /\ UNCHANGED <<phase, closed, pc, con>>
    BY <1>1 DEF Connect, Inv1, TypeOK
  <2>3. Listed' = Listed \cup {c} /\ IsInjective(connList')
    BY <2>1, <2>2, PushBack DEF Listed, Inv2
  <2>4. Owners = {} /\ Owners' = {}
    BY <2>2, NoOwnerBefore DEF Owners
  <2>. QED  BY <2>2, <2>3, <2>4 DEF Inv2
<1>2. CASE ConnectFails
  <2>1. /\ connList' = connList /\ closed' = closed /\ Owners' = Owners
        /\ phase' = "exited" /\ phase = "init"
        /\ \A t \in Owners : con'[t] = con[t]
    BY <1>2 DEF ConnectFails, Owners
  <2>. QED  BY <2>1, Inv2Quiet
<1>3. CASE InitDone
  <2>1. phase = "init" /\ phase' = "ready" /\ UNCHANGED <<connList, closed, pc, con>>
        /\ Len(connList) = Cardinality(Conns)
    BY <1>3 DEF InitDone, MaxConn
  <2>2. Listed = Conns
    BY <2>1, PoolAssumption, ListedSize, FS_Subset
  <2>3. Owners = {} /\ Owners' = {} /\ Listed' = Listed
    BY <2>1, NoOwnerBefore DEF Owners, Listed
  <2>. QED  BY <2>1, <2>2, <2>3 DEF Inv2
<1>4. CASE DestroyPool
  <2>1. phase' = "destroyed" /\ closed = {} /\ Owners' = Owners /\ con' = con
    BY <1>4 DEF DestroyPool, Owners, Inv2
  <2>2. CASE connList = <<>>
    <3>1. UNCHANGED <<connList, closed>> /\ Listed' = Listed
      BY <1>4, <2>2 DEF DestroyPool, Listed
    <3>. QED  BY <2>1, <3>1 DEF Inv2
  <2>3. CASE connList # <<>>
    <3>1. closed' = Listed /\ connList' = <<>>
      BY <1>4, <2>1, <2>3 DEF DestroyPool
    <3>2. Listed' = {} /\ IsInjective(connList')
      BY <3>1 DEF Listed, ToSet, IsInjective
    <3>. QED  BY <2>1, <3>1, <3>2 DEF Inv2
  <2>. QED  BY <2>2, <2>3
<1>5. CASE UNCHANGED vars
  <2>1. /\ connList' = connList /\ closed' = closed /\ phase' = phase /\ Owners' = Owners
        /\ \A t \in Owners : con'[t] = con[t]
    BY <1>5 DEF vars, Owners
  <2>. QED  BY <2>1, Inv2Quiet
<1>6. ASSUME NEW t \in Threads, Quiet(t) PROVE Inv2'
  BY <1>6, QuietOwners, Inv2Quiet
<1>7. ASSUME NEW t \in Threads, GetPop(t) PROVE Inv2'
  BY <1>7, Inv2Pop
<1>8. ASSUME NEW t \in Threads, RelPut(t) PROVE Inv2'
  BY <1>8, Inv2Put
<1>. QED  BY <1>1, <1>2, <1>3, <1>4, <1>5, <1>6, <1>7, <1>8 DEF Next, Continue, Quiet, Exited

-----------------------------------------------------------------------------
(* The counters and the semaphore *)

(* The threads that hold a unit of the semaphore for a handle in the list: *)
(* on their way to pop it, or from push_back to post.                      *)
Taking == {t \in Threads : pc[t] \in {"getLock", "front", "pop", "relUnlock", "post"}}

Inv3 ==
    /\ phase # "destroyed" => m_FreeConn = Len(connList) /\ m_CurConn = Cardinality(Owners)
    /\ phase = "ready" => Len(connList) = reserve + Cardinality(Taking)

(* Owners and Taking are sets of threads, hence finite. *)
LEMMA FiniteThreads == IsFiniteSet(Owners) /\ IsFiniteSet(Taking)
  BY PoolAssumption, FS_Subset DEF Owners, Taking

(* The constructor establishes Inv3. *)
LEMMA Inv3Init == Init => Inv3
<1>. SUFFICES ASSUME Init PROVE Inv3
  OBVIOUS
<1>1. Owners = {}  BY DEF Init, Owners
<1>. QED  BY <1>1, FS_EmptySet DEF Init, Inv3

(* A quiet step of a thread moves a unit between reserve and Taking, or    *)
(* leaves both alone.                                                      *)
LEMMA Inv3Quiet ==
    ASSUME Inv1, Inv3, NEW t \in Threads, Quiet(t)
    PROVE  Inv3'
<1>1. /\ Owners' = Owners /\ connList' = connList /\ phase' = phase
      /\ m_FreeConn' = m_FreeConn /\ m_CurConn' = m_CurConn
  BY QuietOwners
<1>2. /\ reserve \in Nat /\ Cardinality(Taking) \in Nat /\ IsFiniteSet(Taking)
      /\ \A u \in Threads : pc'[u] = IF u = t THEN pc'[t] ELSE pc[u]
  <2>1. \A u \in Threads : pc'[u] = IF u = t THEN pc'[t] ELSE pc[u]
    BY DEF Quiet, GetConnection, GetWait, GetLock, GetFront, GetUnlock, ReleaseConnection,
           RelLock, RelUnlock, RelPost, Goto, Inv1, TypeOK
  <2>. QED  BY <2>1, FiniteThreads, FS_CardinalityType DEF Inv1, TypeOK
<1>3. CASE GetWait(t)
  <2>1. pc[t] = "wait" /\ pc'[t] = "getLock" /\ reserve' = reserve - 1
    BY <1>3 DEF GetWait, Goto, SemWait, Inv1, TypeOK
  <2>2. Taking' = Taking \cup {t} /\ t \notin Taking
    BY <1>2, <2>1 DEF Taking
  <2>3. Cardinality(Taking') = Cardinality(Taking) + 1
    BY <1>2, <2>2, FS_AddElement
  <2>. QED  BY <1>1, <1>2, <2>1, <2>3 DEF Inv3
<1>4. CASE RelPost(t)
  <2>1. pc[t] = "post" /\ pc'[t] = "idle" /\ reserve' = reserve + 1
    BY <1>4 DEF RelPost, Goto, SemPost, Inv1, TypeOK
  <2>2. Taking' = Taking \ {t} /\ t \in Taking
    BY <1>2, <2>1 DEF Taking
  <2>3. Cardinality(Taking') = Cardinality(Taking) - 1
    BY <1>2, <2>2, FS_RemoveElement
  <2>. QED  BY <1>1, <1>2, <2>1, <2>3 DEF Inv3
<1>5. CASE ~GetWait(t) /\ ~RelPost(t) /\ pc'[t] # "undefined"
  <2>1. Taking' = Taking /\ reserve' = reserve
    BY <1>2, <1>5 DEF Quiet, GetConnection, GetLock, GetFront, GetUnlock, ReleaseConnection,
           RelLock, RelUnlock, Goto, Inv1, TypeOK, Taking
  <2>. QED  BY <1>1, <2>1 DEF Inv3
<1>6. CASE pc'[t] = "undefined"
  (* front() found the list empty: impossible while the pool is alive,     *)
  (* because t itself is in Taking.                                        *)
  <2>1. connList = <<>> /\ pc[t] = "front" /\ reserve' = reserve
    BY <1>6 DEF Quiet, GetConnection, GetWait, GetLock, GetFront, GetUnlock, ReleaseConnection,
           RelLock, RelUnlock, RelPost, Goto, Inv1, TypeOK
  <2>2. t \in Taking  BY <2>1 DEF Taking
  <2>3. Cardinality(Taking) # 0  BY <1>2, <2>2, FS_EmptySet
  <2>4. Len(connList) = 0  BY <2>1
  <2>5. phase # "ready"  BY <1>2, <2>3, <2>4 DEF Inv3
  <2>. QED  BY <1>1, <2>5 DEF Inv3
<1>. QED  BY <1>3, <1>4, <1>5, <1>6

(* Every step preserves Inv3. *)
LEMMA Inv3Step == Inv1 /\ Inv2 /\ Inv3 /\ [Next]_vars => Inv3'
<1>. SUFFICES ASSUME Inv1, Inv2, Inv3, [Next]_vars PROVE Inv3'
  OBVIOUS
<1>. USE FiniteThreads, FS_CardinalityType
<1>1. CASE Connect
  <2>1. /\ phase' = "init" /\ Owners' = Owners /\ m_FreeConn' = m_FreeConn + 1
        /\ m_CurConn' = m_CurConn /\ phase = "init"
    BY <1>1 DEF Connect, Owners
  <2>2. Len(connList') = Len(connList) + 1
    BY <1>1, AppendProperties DEF Connect, Inv1, TypeOK
  <2>. QED  BY <2>1, <2>2 DEF Inv3
<1>2. CASE ConnectFails
  <2>1. /\ phase' = "exited" /\ Owners' = Owners /\ m_FreeConn' = m_FreeConn /\ phase = "init"
        /\ m_CurConn' = m_CurConn /\ connList' = connList
    BY <1>2 DEF ConnectFails, Owners
  <2>. QED  BY <2>1 DEF Inv3
<1>3. CASE InitDone
  <2>1. /\ phase = "init" /\ Owners' = Owners /\ m_FreeConn' = m_FreeConn /\ Taking' = Taking
        /\ m_CurConn' = m_CurConn /\ connList' = connList /\ reserve' = m_FreeConn
    BY <1>3 DEF InitDone, Owners, Taking
  <2>2. Taking = {}  BY <2>1 DEF Inv1, Control, Taking
  <2>3. Cardinality(Taking) = 0 /\ m_FreeConn \in Int
    BY <2>2, FS_EmptySet DEF Inv1, TypeOK
  <2>. QED  BY <2>1, <2>3 DEF Inv3
<1>4. CASE DestroyPool
  BY <1>4 DEF DestroyPool, Inv3
<1>5. CASE UNCHANGED vars
  <2>1. /\ phase' = phase /\ Owners' = Owners /\ m_FreeConn' = m_FreeConn /\ Taking' = Taking
        /\ m_CurConn' = m_CurConn /\ connList' = connList /\ reserve' = reserve
    BY <1>5 DEF vars, Owners, Taking
  <2>. QED  BY <2>1 DEF Inv3
<1>6. ASSUME NEW t \in Threads, Quiet(t) PROVE Inv3'
  BY <1>6, Inv3Quiet
<1>7. ASSUME NEW t \in Threads, GetPop(t) PROVE Inv3'
  <2>1. Owners' = Owners \cup {t} /\ t \notin Owners /\ Len(connList') = Len(connList) - 1
    BY <1>7, Inv2Pop
  <2>2. Taking' = Taking \ {t} /\ t \in Taking
    BY <1>7 DEF GetPop, Goto, Taking, Inv1, TypeOK
  <2>3. /\ Cardinality(Owners') = Cardinality(Owners) + 1
        /\ Cardinality(Taking') = Cardinality(Taking) - 1
    BY <2>1, <2>2, FS_AddElement, FS_RemoveElement
  <2>4. /\ m_FreeConn' = m_FreeConn - 1 /\ m_CurConn' = m_CurConn + 1 /\ phase' = phase
        /\ reserve' = reserve /\ reserve \in Nat /\ Len(connList) \in Nat
    BY <1>7, LenProperties DEF GetPop, Inv1, TypeOK
  <2>. QED  BY <2>1, <2>3, <2>4 DEF Inv3
<1>8. ASSUME NEW t \in Threads, RelPut(t) PROVE Inv3'
  <2>1. Owners' = Owners \ {t} /\ t \in Owners /\ Len(connList') = Len(connList) + 1
    BY <1>8, Inv2Put
  <2>2. Taking' = Taking \cup {t} /\ t \notin Taking
    BY <1>8 DEF RelPut, Goto, Taking, Inv1, TypeOK
  <2>3. /\ Cardinality(Owners') = Cardinality(Owners) - 1
        /\ Cardinality(Taking') = Cardinality(Taking) + 1
    BY <2>1, <2>2, FS_AddElement, FS_RemoveElement
  <2>4. /\ m_FreeConn' = m_FreeConn + 1 /\ m_CurConn' = m_CurConn - 1 /\ phase' = phase
        /\ reserve' = reserve /\ reserve \in Nat /\ Len(connList) \in Nat
    BY <1>8, LenProperties DEF RelPut, Inv1, TypeOK
  <2>. QED  BY <2>1, <2>3, <2>4 DEF Inv3
<1>. QED  BY <1>1, <1>2, <1>3, <1>4, <1>5, <1>6, <1>7, <1>8 DEF Next, Continue, Quiet, Exited

-----------------------------------------------------------------------------
(* Theorems *)

(* The inductive invariant holds in every state of the pool. *)
THEOREM Invariance == Spec => [](Inv1 /\ Inv2 /\ Inv3)
<1>1. Init => Inv1 /\ Inv2 /\ Inv3
  BY Inv1Init, Inv2Init, Inv3Init
<1>2. (Inv1 /\ Inv2 /\ Inv3) /\ [Next]_vars => (Inv1 /\ Inv2 /\ Inv3)'
  BY Inv1Step, Inv2Step, Inv3Step
<1>. QED  BY <1>1, <1>2, PTL DEF Spec

(* Every variable of the pool keeps its type; in particular the semaphore  *)
(* is never negative and only handles of init are ever listed.             *)
THEOREM TypeCorrect == Spec => []TypeOK
<1>1. Inv1 => TypeOK  BY DEF Inv1
<1>. QED  BY <1>1, Invariance, PTL

(* However many threads share however many handles, no handle is borrowed  *)
(* by two threads or listed while it is borrowed.                          *)
THEOREM Exclusive == Spec => []ExclusiveBorrow
<1>1. Inv2 => ExclusiveBorrow
  BY DEF Inv2, ExclusiveBorrow, Owners
<1>. QED  BY <1>1, Invariance, PTL

(* Until DestroyPool every handle init obtained is in the list, exactly    *)
(* once, or with a thread.                                                 *)
THEOREM NothingLost == Spec => []NoHandleLost
<1>1. Inv1 /\ Inv2 => NoHandleLost
  BY ListedSize DEF Inv2, NoHandleLost
<1>. QED  BY <1>1, Invariance, PTL

(* front() and pop_front() of GetConnection never see an empty list while  *)
(* the pool is alive.                                                      *)
THEOREM FrontSafe == Spec => []FrontNonEmpty
<1>1. ASSUME Inv1, Inv3 PROVE FrontNonEmpty
  <2>. SUFFICES ASSUME phase # "destroyed", NEW t \in Threads, pc[t] \in {"front", "pop"}
                PROVE  connList # <<>>
    BY DEF FrontNonEmpty
  <2>1. phase = "ready"  BY <1>1 DEF Inv1, TypeOK, Control
  <2>2. t \in Taking  BY DEF Taking
  <2>3. Cardinality(Taking) \in Nat /\ Cardinality(Taking) # 0
    BY <2>2, FiniteThreads, FS_CardinalityType, FS_EmptySet
  <2>4. Len(connList) # 0  BY <1>1, <2>1, <2>3 DEF Inv3, Inv1, TypeOK
  <2>. QED  BY <2>4
<1>. QED  BY <1>1, Invariance, PTL

(* m_FreeConn and m_CurConn are exact between any two steps of any thread. *)
THEOREM Counters == Spec => []CountersExact
<1>1. Inv3 => CountersExact  BY DEF Inv3, CountersExact
<1>. QED  BY <1>1, Invariance, PTL

(* DestroyPool never closes a handle that a detached worker still uses.    *)
THEOREM NotClosed == Spec => []NoQueryOnClosed
<1>1. ASSUME Inv1, Inv2 PROVE NoQueryOnClosed
  BY <1>1, PoolAssumption DEF Inv1, TypeOK, Inv2, NoQueryOnClosed, Owners
<1>. QED  BY <1>1, Invariance, PTL
=============================================================================
