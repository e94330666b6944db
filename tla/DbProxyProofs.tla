---------------------------- MODULE DbProxyProofs ----------------------------
(***************************************************************************)
(* Proofs about DbProxy, for any workload and any size of the pool.        *)
(***************************************************************************)
EXTENDS DbProxy, SequenceTheorems, WellFoundedInduction, TLAPS

-----------------------------------------------------------------------------
(* Lists and times *)

(* Some times have a newest one. *)
LEMMA NewestTime ==
    ASSUME NEW B \in Int, NEW T \in SUBSET Int, \A t \in T : t <= B, T # {}
    PROVE  Max(T) \in T /\ \A t \in T : t <= Max(T)
<1>. DEFINE U == {B - t : t \in T}
<1>1. U \subseteq Nat /\ U # {}
  <2>1. U \subseteq Nat  OBVIOUS
  <2>2. PICK t \in T : TRUE  OBVIOUS
  <2>3. B - t \in U  BY <2>2
  <2>. QED  BY <2>1, <2>3
<1>2. PICK x \in U : \A y \in U : ~(<<y, x>> \in OpToRel(<, Nat))
  BY <1>1, WFMin, NatLessThanWellFounded
<1>3. PICK m \in T : x = B - m
  OBVIOUS
<1>4. \A t \in T : t <= m
  <2>. SUFFICES ASSUME NEW t \in T, t > m PROVE FALSE
    OBVIOUS
  <2>1. B - t \in U /\ B - t < x /\ B - t \in Nat /\ x \in Nat
    BY <1>1, <1>3
  <2>. QED  BY <1>2, <2>1 DEF OpToRel
<1>. HIDE DEF U
<1>5. \E n \in T : \A t \in T : n >= t
  BY <1>4
<1>. QED  BY <1>5 DEF Max

(* The times of the messages have a bound. *)
LEMMA Int32Bound == \E B \in Int : \A t \in Int32 : t \in Int /\ t <= B
<1>1. Int32Max \in Nat
  BY DEF Int32Max
<1>2. \A t \in Int32 : t \in Int /\ t <= Int32Max
  BY <1>1 DEF Int32
<1>. QED  BY <1>1, <1>2

(* A list without the element at one of its places. *)
LEMMA RemoveAtProperties ==
    ASSUME NEW S, NEW s \in Seq(S), NEW i \in 1..Len(s)
    PROVE  /\ RemoveAt(s, i) \in Seq(S) /\ Len(RemoveAt(s, i)) = Len(s) - 1
           /\ \A j \in 1..(Len(s) - 1) : RemoveAt(s, i)[j] = IF j < i THEN s[j] ELSE s[j + 1]
<1>1. Len(s) \in Nat
  BY LenProperties
<1>. DEFINE a == SubSeq(s, 1, i - 1)
            b == SubSeq(s, i + 1, Len(s))
<1>2. a \in Seq(S) /\ Len(a) = i - 1 /\ \A j \in 1..(i - 1) : a[j] = s[j]
  BY <1>1, SubSeqProperties
<1>3. b \in Seq(S) /\ Len(b) = Len(s) - i /\ \A j \in 1..(Len(s) - i) : b[j] = s[i + j]
  <2>1. \A j \in (i + 1)..Len(s) : s[j] \in S
    BY <1>1, ElementOfSeq
  <2>2. /\ b \in Seq(S) /\ Len(b) = IF i + 1 <= Len(s) THEN Len(s) - (i + 1) + 1 ELSE 0
        /\ \A j \in 1..(Len(s) - (i + 1) + 1) : b[j] = s[i + 1 + j - 1]
    BY <1>1, <2>1, SubSeqProperties
  <2>. HIDE DEF b
  <2>. QED  BY <1>1, <2>2
<1>. HIDE DEF a, b
<1>4. /\ a \o b \in Seq(S) /\ Len(a \o b) = Len(s) - 1
      /\ \A j \in 1..(Len(s) - 1) : (a \o b)[j] = IF j < i THEN a[j] ELSE b[j - (i - 1)]
  <2>1. /\ a \o b \in Seq(S) /\ Len(a \o b) = Len(a) + Len(b)
        /\ \A j \in 1..(Len(a) + Len(b)) : (a \o b)[j] = IF j <= Len(a) THEN a[j] ELSE b[j - Len(a)]
    BY <1>2, <1>3, ConcatProperties
  <2>. QED  BY <1>1, <1>2, <1>3, <2>1
<1>5. \A j \in 1..(Len(s) - 1) : (a \o b)[j] = IF j < i THEN s[j] ELSE s[j + 1]
  <2>. SUFFICES ASSUME NEW j \in 1..(Len(s) - 1)
                PROVE  (a \o b)[j] = IF j < i THEN s[j] ELSE s[j + 1]
    OBVIOUS
  <2>1. CASE j < i
    BY <1>1, <1>2, <1>4, <2>1
  <2>2. CASE ~(j < i)
    <3>1. j - (i - 1) \in 1..(Len(s) - i) /\ i + (j - (i - 1)) = j + 1
      BY <1>1, <2>2
    <3>2. (a \o b)[j] = b[j - (i - 1)]
      BY <1>4, <2>2
    <3>. QED  BY <1>3, <2>2, <3>1, <3>2
  <2>. QED  BY <2>1, <2>2
<1>. QED  BY <1>4, <1>5 DEF RemoveAt, a, b

-----------------------------------------------------------------------------
(* The saves *)

Steps == {"new", "lease", "sql", "redis", "ok", "failed", "lost"}

(* Where the handlers can be, and what is in flight. *)
Types ==
    /\ requests \in Workloads
    /\ pc \in [requests -> Steps] /\ done \in [requests -> Nat]
    /\ DOMAIN reply = requests /\ DOMAIN seen = requests
    /\ wire \in Seq(requests) /\ stray \subseteq requests

(* The rows of a save after k of its statements. *)
RowsUpTo(r, k) == {<<u, r>> : u \in UNION {Inserts(r)[i] : i \in 1..k}}

RowsOf(r) == {row \in messages : row[2] = r}

(* A save executes its statements one by one; only the last statement of a *)
(* save that failed may have left rows the handler does not know of.       *)
Progress(r) ==
    /\ done[r] \in 0..Len(Inserts(r))
    /\ pc[r] \in {"lease", "sql"} => done[r] < Len(Inserts(r))
    /\ pc[r] \in {"redis", "ok"} => done[r] = Len(Inserts(r))
    /\ pc[r] = "new" => done[r] = 0
    /\ \/ RowsOf(r) = RowsUpTo(r, done[r])
       \/ pc[r] = "failed" /\ done[r] < Len(Inserts(r)) /\ RowsOf(r) = RowsUpTo(r, done[r] + 1)

(* Every row belongs to a save. *)
Saves ==
    /\ \A row \in messages : /\ row[2] \in requests /\ IsSave(row[2])
                             /\ row = <<row[1], row[2]>>
    /\ \A r \in requests : IsSave(r) => Progress(r)

(* The script that would cache a record never runs; GetUserLastSendData    *)
(* has to respect rows that are still there.                               *)
LastSend ==
    /\ lastSend = [u \in Users |-> None]
    /\ \A r \in requests : r.op = "GetUserLastSendData" => seen[r] \subseteq OwnTimes(r.user)
    /\ LastSendTruthful

-----------------------------------------------------------------------------
(* The sessions *)

(* On the list w, every s is before every q. *)
Ahead(w, s, q) == \A i, j \in DOMAIN w : w[i] = s /\ w[j] = q => i < j

Replaces(q) == q.op \in {"AuthAndSaveSession", "ClearSession"}

(* A sign-in that has ended stays ahead, on the wire, of whatever was      *)
(* called afterwards to replace it, and is not left over from a process    *)
(* that ended; once the replacement is carried out and acknowledged, the   *)
(* sign-in is neither on its way nor in Redis.                             *)
Sessions ==
    /\ sessions \in [Users -> requests \cup {None}]
    /\ \A u \in Users : sessions[u] # None => sessions[u] \in SignIns(u)
    /\ \A r \in requests : pc[r] = "new" => r \notin ToSet(wire) \cup stray
    /\ \A q \in requests : Replaces(q) => \A s \in seen[q] :
         /\ s \in SignIns(q.user) /\ pc[s] \in {"ok", "failed"} /\ Ahead(wire, s, q)
         /\ pc[q] = "redis" => s \notin stray
    /\ \A s \in gone : /\ s \in requests /\ s.op = "AuthAndSaveSession" /\ pc[s] \in {"ok", "failed"}
                       /\ s \notin ToSet(wire) \cup stray /\ sessions[s.user] # s
    /\ \A r \in requests : r.op = "GetSessions" => seen[r] \subseteq gone
    /\ SessionsFresh

Inv == Types /\ Saves /\ LastSend /\ Sessions

-----------------------------------------------------------------------------
(* The saves: what a step may do *)

(* The moves of a handler between two statements of a save. *)
Moves(r) ==
    \/ pc'[r] = pc[r]
    \/ pc'[r] \in {"failed", "lost"} /\ pc[r] # "failed"
    \/ pc[r] = "lease" /\ pc'[r] = "sql"
    \/ pc[r] = "redis" /\ pc'[r] = "ok"
    \/ pc[r] = "new" /\ pc'[r] = AfterInserts(r, 0)

(* A save has a list of statements. *)
LEMMA InsertsLen ==
    ASSUME Types, NEW r \in requests, IsSave(r)
    PROVE  /\ Len(Inserts(r)) \in Nat
           /\ r.op = "SavePrivateMsg" => Inserts(r) = << {r.sender, r.receiver} >>
           /\ r.op = "SaveGroupMsg" => /\ Len(Inserts(r)) = Len(r.users)
                                       /\ \A i \in 1..Len(r.users) : Inserts(r)[i] = {r.users[i]}
<1>1. r \in UNION Workloads
  BY DEF Types
<1>2. CASE r.op = "SavePrivateMsg"
  BY <1>2 DEF Inserts, PrivateInserts, ChooseDatabase
<1>3. CASE r.op = "SaveGroupMsg"
  <2>1. r.users \in Seq(ToSet(r.users))
    BY <1>1, <1>3, ProxyAssumption
  <2>2. Len(r.users) \in Nat /\ DOMAIN r.users = 1..Len(r.users)
    BY <2>1, LenProperties
  <2>3. Inserts(r) = [i \in 1..Len(r.users) |-> {r.users[i]}]
    BY <1>3, <2>2 DEF Inserts, GroupInserts
  <2>4. Inserts(r) \in Seq(SUBSET ToSet(r.users))
    <3>1. Inserts(r) \in [1..Len(r.users) -> SUBSET ToSet(r.users)]
      BY <2>2, <2>3 DEF ToSet
    <3>. QED  BY <2>2, <3>1, SeqDef
  <2>5. Len(Inserts(r)) = Len(r.users)
    BY <2>2, <2>3, <2>4, LenProperties
  <2>. QED  BY <1>3, <2>2, <2>3, <2>5
<1>. QED  BY <1>2, <1>3 DEF IsSave

(* A step that executes no statement of a save. *)
LEMMA SavesQuiet ==
    ASSUME Types, Saves, UNCHANGED <<requests, done, messages>>,
           \A r \in requests : IsSave(r) => Moves(r)
    PROVE  Saves'
<1>1. ASSUME NEW r \in requests, IsSave(r) PROVE Progress(r)'
  <2>1. Progress(r) /\ Moves(r)
    BY <1>1 DEF Saves
  <2>2. Len(Inserts(r)) \in Nat
    BY <1>1, InsertsLen
  <2>3. RowsOf(r)' = RowsOf(r)
    BY DEF RowsOf
  <2>. QED  BY <2>1, <2>2, <2>3 DEF Progress, Moves, AfterInserts
<1>. QED  BY <1>1 DEF Saves

(* The rows after one more statement. *)
LEMMA NextRows ==
    ASSUME Types, Saves, NEW r \in requests, IsSave(r), pc[r] = "sql",
           messages' = messages \cup Rows(r)
    PROVE  /\ RowsOf(r) = RowsUpTo(r, done[r])
           /\ RowsOf(r)' = RowsUpTo(r, done[r] + 1)
           /\ \A x \in requests : x # r => RowsOf(x)' = RowsOf(x)
<1>1. RowsOf(r) = RowsUpTo(r, done[r]) /\ done[r] \in Nat
  BY DEF Saves, Progress, Types
<1>2. 1..(done[r] + 1) = (1..done[r]) \cup {done[r] + 1}
  BY <1>1
<1>3. RowsUpTo(r, done[r] + 1) = RowsUpTo(r, done[r]) \cup Rows(r)
  BY <1>2 DEF RowsUpTo, Rows
<1>4. \A row \in Rows(r) : row[2] = r
  BY DEF Rows
<1>5. RowsOf(r)' = RowsOf(r) \cup Rows(r)
  BY <1>4 DEF RowsOf
<1>6. \A x \in requests : x # r => RowsOf(x)' = RowsOf(x)
  BY <1>4 DEF RowsOf
<1>. QED  BY <1>1, <1>3, <1>5, <1>6

(* A statement of a save was executed, whether or not its handler knows. *)
LEMMA SavesStatement ==
    ASSUME Types, Saves, NEW r \in requests, IsSave(r), pc[r] = "sql",
           requests' = requests, messages' = messages \cup Rows(r),
           \/ /\ pc' = [pc EXCEPT ![r] = AfterInserts(r, done[r] + 1)]
              /\ done' = [done EXCEPT ![r] = @ + 1]
           \/ pc' = [pc EXCEPT ![r] = "failed"] /\ done' = done
    PROVE  Saves'
<1>1. /\ RowsOf(r)' = RowsUpTo(r, done[r] + 1)
      /\ \A x \in requests : x # r => RowsOf(x)' = RowsOf(x)
  BY NextRows
<1>2. Len(Inserts(r)) \in Nat /\ done[r] \in Nat /\ done[r] < Len(Inserts(r))
  BY InsertsLen DEF Saves, Progress, Types
<1>3. Progress(r)'
  BY <1>1, <1>2 DEF Progress, Types, AfterInserts
<1>4. ASSUME NEW x \in requests, x # r, IsSave(x) PROVE Progress(x)'
  <2>1. pc'[x] = pc[x] /\ done'[x] = done[x]
    BY <1>4 DEF Types
  <2>2. Progress(x)
    BY <1>4 DEF Saves
  <2>. QED  BY <1>1, <1>4, <2>1, <2>2 DEF Progress
<1>5. \A row \in messages' : row[2] \in requests /\ IsSave(row[2]) /\ row = <<row[1], row[2]>>
  BY DEF Saves, Rows
<1>. QED  BY <1>3, <1>4, <1>5 DEF Saves

-----------------------------------------------------------------------------
(* The last send: what a step may do *)

(* The times of a user's own messages are those of saves. *)
LEMMA OwnTimesBound ==
    ASSUME Types, Saves, NEW u
    PROVE  OwnTimes(u) \subseteq Int32
<1>1. \A row \in messages : row[2] \in UNION Workloads /\ IsSave(row[2])
  BY DEF Types, Saves
<1>. QED  BY <1>1, ProxyAssumption DEF OwnTimes, IsSave

(* A save of which anybody has a copy is among the sender's own, if the    *)
(* statements come in an order that stores the sender's row first.         *)
LEMMA SentIsOwn ==
    ASSUME Types, Saves, NEW u
    PROVE  SentTimes(u) \subseteq OwnTimes(u)
<1>. SUFFICES ASSUME NEW t \in SentTimes(u) PROVE t \in OwnTimes(u)
  OBVIOUS
<1>0. PICK row \in messages : row[2].sender = u /\ OwnFirst(row[2]) /\ t = row[2].time
  BY DEF SentTimes
<1>. DEFINE x == row[2]
            own == <<u, x>>
<1>1. x \in requests /\ IsSave(x) /\ Progress(x)
  BY DEF Saves
<1>2. Len(Inserts(x)) \in Nat /\ row \in RowsOf(x)
  BY <1>1, InsertsLen DEF RowsOf
<1>3. PICK k \in 0..Len(Inserts(x)) : RowsOf(x) = RowsUpTo(x, k)
  BY <1>1, <1>2 DEF Progress
<1>4. k \in Nat \ {0} /\ 1 \in 1..k /\ 1 \in 1..Len(Inserts(x))
  BY <1>2, <1>3 DEF RowsUpTo
<1>5. u \in Inserts(x)[1]
  <2>1. CASE x.op = "SavePrivateMsg"
    BY <1>0, <1>1, <2>1, InsertsLen
  <2>2. CASE x.op = "SaveGroupMsg"
    <3>1. Inserts(x)[1] = {x.users[1]}
      BY <1>1, <1>4, <2>2, InsertsLen
    <3>. QED  BY <1>0, <2>2, <3>1 DEF OwnFirst
  <2>. QED  BY <1>1, <2>1, <2>2 DEF IsSave
<1>6. own \in RowsUpTo(x, k)
  BY <1>4, <1>5 DEF RowsUpTo
<1>7. own \in messages
  BY <1>3, <1>6 DEF RowsOf
<1>8. own[1] = u /\ own[2].sender = u /\ own[2].time = t
  BY <1>0
<1>. HIDE DEF own
<1>. QED  BY <1>7, <1>8 DEF OwnTimes

(* Rows are never removed, so an answer stays true. *)
LEMMA LastSendStep ==
    ASSUME Types, LastSend, UNCHANGED <<requests, lastSend>>, messages \subseteq messages',
           \A r \in requests : r.op = "GetUserLastSendData" =>
               /\ seen'[r] = seen[r] \/ seen'[r] \subseteq OwnTimes(r.user)
               /\ pc'[r] = "ok" =>
                    \/ pc[r] = "ok" /\ reply'[r] = reply[r] /\ seen'[r] = seen[r]
                    \/ /\ reply'[r] \in OwnTimes(r.user) \cup {0}
                       /\ \A t \in OwnTimes(r.user) : t <= reply'[r]
    PROVE  LastSend'
<1>1. \A u : OwnTimes(u) \subseteq OwnTimes(u)'
  BY DEF OwnTimes
<1>2. ASSUME NEW r \in requests, r.op = "GetUserLastSendData"
      PROVE  seen'[r] \subseteq OwnTimes(r.user) /\ seen'[r] \subseteq OwnTimes(r.user)'
  BY <1>1, <1>2 DEF LastSend
<1>3. ASSUME NEW r \in requests, r.op = "GetUserLastSendData", pc'[r] = "ok"
      PROVE  /\ reply'[r] \in OwnTimes(r.user)' \cup {0}
             /\ \A t \in seen'[r] : t <= reply'[r]
  <2>1. CASE pc[r] = "ok" /\ reply'[r] = reply[r] /\ seen'[r] = seen[r]
    BY <1>1, <1>3, <2>1 DEF LastSend, LastSendTruthful
  <2>2. CASE /\ reply'[r] \in OwnTimes(r.user) \cup {0}
             /\ \A t \in OwnTimes(r.user) : t <= reply'[r]
    BY <1>1, <1>2, <1>3, <2>2
  <2>. QED  BY <1>3, <2>1, <2>2
<1>4. lastSend' = [u \in Users |-> None]
  BY DEF LastSend
<1>. QED  BY <1>2, <1>3, <1>4 DEF LastSend, LastSendTruthful

-----------------------------------------------------------------------------
(* The sessions: what a step may do *)

(* The list v is made of w by leaving elements out and appending some of N. *)
Later(w, v, N) ==
    /\ v \in Seq(requests)
    /\ ToSet(v) \subseteq ToSet(w) \cup N
    /\ \A s, q : s \notin N /\ Ahead(w, s, q) => Ahead(v, s, q)

(* The order on the wire survives sending at the end. *)
LEMMA LaterAppend ==
    ASSUME NEW w \in Seq(requests), NEW r \in requests
    PROVE  Later(w, Append(w, r), {r})
<1>1. /\ Append(w, r) \in Seq(requests) /\ Len(Append(w, r)) = Len(w) + 1 /\ Len(w) \in Nat
      /\ \A i \in 1..Len(w) : Append(w, r)[i] = w[i]
      /\ Append(w, r)[Len(w) + 1] = r
      /\ DOMAIN w = 1..Len(w) /\ DOMAIN Append(w, r) = 1..(Len(w) + 1)
  BY AppendProperties, LenProperties
<1>. DEFINE v == Append(w, r)
<1>. HIDE DEF v
<1>2. ToSet(v) \subseteq ToSet(w) \cup {r}
  BY <1>1 DEF ToSet, v
<1>3. ASSUME NEW s, NEW q, s # r, Ahead(w, s, q) PROVE Ahead(v, s, q)
  BY <1>1, <1>3 DEF Ahead, v
<1>. QED  BY <1>1, <1>2, <1>3 DEF Later, v

(* ... the execution of the oldest command ... *)
LEMMA LaterTail ==
    ASSUME NEW w \in Seq(requests), w # <<>>
    PROVE  Later(w, Tail(w), {})
<1>1. /\ Tail(w) \in Seq(requests) /\ Len(Tail(w)) = Len(w) - 1 /\ Len(w) \in Nat \ {0}
      /\ \A i \in 1..(Len(w) - 1) : Tail(w)[i] = w[i + 1]
      /\ DOMAIN w = 1..Len(w) /\ DOMAIN Tail(w) = 1..(Len(w) - 1)
  BY HeadTailProperties, LenProperties, EmptySeq
<1>. DEFINE v == Tail(w)
<1>. HIDE DEF v
<1>2. ToSet(v) \subseteq ToSet(w)
  BY <1>1 DEF ToSet, v
<1>3. ASSUME NEW s, NEW q, Ahead(w, s, q) PROVE Ahead(v, s, q)
  <2>. SUFFICES ASSUME NEW i \in 1..(Len(w) - 1), NEW j \in 1..(Len(w) - 1), v[i] = s, v[j] = q
                PROVE  i < j
    BY <1>1 DEF Ahead, v
  <2>1. w[i + 1] = s /\ w[j + 1] = q /\ i + 1 \in DOMAIN w /\ j + 1 \in DOMAIN w
    BY <1>1 DEF v
  <2>2. i + 1 < j + 1
    BY <1>3, <2>1 DEF Ahead
  <2>. QED  BY <2>2
<1>. QED  BY <1>1, <1>2, <1>3 DEF Later, v

(* ... and the loss of any command. *)
LEMMA LaterRemove ==
    ASSUME NEW w \in Seq(requests), NEW k \in DOMAIN w
    PROVE  Later(w, RemoveAt(w, k), {})
<1>. DEFINE v == RemoveAt(w, k)
            at(i) == IF i < k THEN i ELSE i + 1
<1>1. /\ v \in Seq(requests) /\ Len(v) = Len(w) - 1 /\ Len(w) \in Nat /\ k \in 1..Len(w)
      /\ \A i \in 1..(Len(w) - 1) : v[i] = IF i < k THEN w[i] ELSE w[i + 1]
      /\ DOMAIN w = 1..Len(w) /\ DOMAIN v = 1..(Len(w) - 1)
  BY RemoveAtProperties, LenProperties
<1>. HIDE DEF v
<1>2. \A i \in 1..(Len(w) - 1) : at(i) \in DOMAIN w /\ v[i] = w[at(i)]
  BY <1>1
<1>3. \A i, j \in 1..(Len(w) - 1) : at(i) < at(j) => i < j
  BY <1>1
<1>. HIDE DEF at
<1>4. ToSet(v) \subseteq ToSet(w)
  BY <1>1, <1>2 DEF ToSet
<1>5. ASSUME NEW s, NEW q, Ahead(w, s, q) PROVE Ahead(v, s, q)
  BY <1>1, <1>2, <1>3, <1>5 DEF Ahead
<1>. QED  BY <1>1, <1>4, <1>5 DEF Later, v

(* Leaving out and then appending. *)
LEMMA LaterTrans ==
    ASSUME NEW w, NEW v, NEW x, NEW N, Later(w, v, {}), Later(v, x, N)
    PROVE  Later(w, x, N)
BY DEF Later

(* The users of a request are among the users. *)
LEMMA UserOf ==
    ASSUME Types, NEW r \in requests
    PROVE  /\ ~IsSave(r) /\ r.op # "GetSessions" => r.user \in Users
           /\ r.op = "GetSessions" => ToSet(r.users) \subseteq Users
           /\ r # None
<1>1. r \in UNION Workloads
  BY DEF Types
<1>. QED  BY <1>1, ProxyAssumption DEF Users, IsSave

Ended == {"ok", "failed"}

(* Who has ended has ended. *)
EndedStays == \A s \in requests : pc[s] \in Ended => pc'[s] = pc[s]

(* Only a new handler is at its beginning, and it has sent nothing. *)
NewStays(N) == \A r \in requests : pc'[r] = "new" => pc[r] = "new" /\ r \notin N

(* A session is left, removed, or set by a command on its way. *)
SessionsMove ==
    /\ sessions' \in [Users -> requests \cup {None}]
    /\ \A u \in Users : \/ sessions'[u] \in {sessions[u], None}
                        \/ sessions'[u] \in SignIns(u) /\ sessions'[u] \in ToSet(wire) \cup stray

(* What a call has to respect, once it is called. *)
SeenMove ==
    /\ \A q \in requests : Replaces(q) => \A s \in seen'[q] :
        s \in seen[q] \/ (s \in SignIns(q.user) /\ pc[s] \in Ended /\ Ahead(wire', s, q))
    /\ \A r \in requests : r.op = "GetSessions" => seen'[r] \subseteq seen[r] \cup gone

(* A sign-in is gone for a reason. *)
GoneMove ==
    /\ gone \subseteq gone'
    /\ \A s \in gone' : s \in gone \/ (/\ s \in requests /\ s.op = "AuthAndSaveSession"
                                       /\ pc[s] \in Ended /\ s \notin ToSet(wire) \cup stray
                                       /\ sessions'[s.user] # s)

(* Commands are left over only when all handlers are lost. *)
StrayMove ==
    /\ stray' \subseteq stray \cup ToSet(wire)
    /\ \A q \in requests : Replaces(q) /\ pc'[q] = "redis" =>
        \/ pc[q] = "redis" /\ seen'[q] = seen[q] /\ stray' \subseteq stray
        \/ seen'[q] \cap stray' = {}

(* GetSessions is answered with what is not gone. *)
ReplyMove ==
    \A r \in requests : r.op = "GetSessions" /\ pc'[r] = "ok" =>
        reply'[r] \notin gone \/ (pc[r] = "ok" /\ reply'[r] = reply[r] /\ seen'[r] = seen[r])

(* Such steps keep the sessions fresh: those who send have not ended. *)
LEMMA SessionsStep ==
    ASSUME Types, Sessions, NEW N \in SUBSET requests, requests' = requests,
           Later(wire, wire', N), \A s \in N : pc[s] \notin Ended,
           EndedStays, NewStays(N), SessionsMove, SeenMove, GoneMove, StrayMove, ReplyMove
    PROVE  Sessions'
<1>1. ToSet(wire') \subseteq ToSet(wire) \cup N
  BY DEF Later
<1>2. (\A u \in Users : sessions[u] # None => sessions[u] \in SignIns(u))'
  BY DEF SessionsMove, Sessions, SignIns
<1>3. (\A r \in requests : pc[r] = "new" => r \notin ToSet(wire) \cup stray)'
  BY <1>1 DEF NewStays, Sessions, StrayMove
<1>4. ASSUME NEW q \in requests, Replaces(q), NEW s \in seen'[q]
      PROVE  s \in SignIns(q.user)' /\ pc'[s] \in Ended /\ Ahead(wire', s, q)
  <2>1. CASE s \in seen[q]
    <3>1. s \in SignIns(q.user) /\ pc[s] \in Ended /\ Ahead(wire, s, q)
      BY <1>4, <2>1 DEF Sessions, Ended
    <3>2. s \in requests /\ s \notin N
      BY <3>1 DEF SignIns
    <3>. QED  BY <3>1, <3>2 DEF Later, EndedStays, SignIns
  <2>2. CASE s \in SignIns(q.user) /\ pc[s] \in Ended /\ Ahead(wire', s, q)
    BY <2>2 DEF EndedStays, SignIns
  <2>. QED  BY <1>4, <2>1, <2>2 DEF SeenMove
<1>9. ASSUME NEW q \in requests, Replaces(q), NEW s \in seen'[q], pc'[q] = "redis"
      PROVE  s \notin stray'
  <2>1. CASE pc[q] = "redis" /\ seen'[q] = seen[q] /\ stray' \subseteq stray
    BY <1>9, <2>1 DEF Sessions
  <2>2. CASE seen'[q] \cap stray' = {}
    BY <1>9, <2>2
  <2>. QED  BY <1>9, <2>1, <2>2 DEF StrayMove
<1>5. ASSUME NEW s \in gone'
      PROVE  /\ s \in requests /\ s.op = "AuthAndSaveSession" /\ pc'[s] \in Ended
             /\ s \notin ToSet(wire') \cup stray' /\ sessions'[s.user] # s
  <2>1. CASE s \in gone
    <3>1. /\ s \in requests /\ s.op = "AuthAndSaveSession" /\ pc[s] \in Ended
          /\ s \notin ToSet(wire) \cup stray /\ sessions[s.user] # s
      BY <2>1 DEF Sessions, Ended
    <3>2. s.user \in Users /\ s # None
      BY <3>1, UserOf DEF IsSave
    <3>3. sessions'[s.user] # s
      BY <3>1, <3>2 DEF SessionsMove
    <3>. QED  BY <1>1, <3>1, <3>3 DEF EndedStays, StrayMove
  <2>2. CASE /\ s \in requests /\ s.op = "AuthAndSaveSession" /\ pc[s] \in Ended
             /\ s \notin ToSet(wire) \cup stray /\ sessions'[s.user] # s
    BY <1>1, <2>2 DEF EndedStays, StrayMove
  <2>. QED  BY <1>5, <2>1, <2>2 DEF GoneMove
<1>6. ASSUME NEW r \in requests, r.op = "GetSessions"
      PROVE  seen'[r] \subseteq gone /\ seen'[r] \subseteq gone'
  BY <1>6 DEF SeenMove, GoneMove, Sessions
<1>7. ASSUME NEW r \in requests, r.op = "GetSessions", pc'[r] = "ok"
      PROVE  reply'[r] \notin seen'[r]
  BY <1>6, <1>7 DEF ReplyMove, Sessions, SessionsFresh
<1>8. sessions' \in [Users -> requests \cup {None}]
  BY DEF SessionsMove
<1>. QED  BY <1>2, <1>3, <1>4, <1>5, <1>6, <1>7, <1>8, <1>9 DEF Sessions, SessionsFresh, Ended

(* A step that neither fixes nor vouches for anything. *)
LEMMA SessionsQuiet ==
    ASSUME Types, Sessions, NEW N \in SUBSET requests, UNCHANGED <<requests, seen, gone>>,
           Later(wire, wire', N), \A s \in N : pc[s] \notin Ended,
           EndedStays, NewStays(N), SessionsMove, StrayMove, ReplyMove
    PROVE  Sessions'
<1>1. SeenMove /\ GoneMove
  BY DEF SeenMove, GoneMove
<1>. QED  BY <1>1, SessionsStep

(* A handler goes on by itself, and sends its command when it is there. *)
LEMMA LocalSessions ==
    ASSUME Types, Sessions, NEW r \in requests, NEW to, to # "new", pc[r] \notin Ended,
           UNCHANGED <<requests, sessions, stray, seen, gone>>, pc' = [pc EXCEPT ![r] = to],
           to = "redis" => ~Replaces(r),
           wire' = IF to = "redis" THEN Append(wire, r) ELSE wire,
           \A x \in requests : x.op = "GetSessions" /\ pc'[x] = "ok" =>
                                   pc[x] = "ok" /\ reply'[x] = reply[x]
    PROVE  Sessions'
<1>. DEFINE N == IF to = "redis" THEN {r} ELSE {}
<1>1. Later(wire, wire', N)
  <2>1. CASE to = "redis"
    BY <2>1, LaterAppend DEF Types
  <2>2. CASE to # "redis"
    BY <2>2 DEF Later, Types
  <2>. QED  BY <2>1, <2>2
<1>2. EndedStays /\ NewStays(N)
  BY DEF EndedStays, NewStays, Types
<1>3. SessionsMove
  BY DEF SessionsMove, Sessions
<1>4. ReplyMove /\ StrayMove
  BY DEF ReplyMove, StrayMove, Types
<1>5. N \in SUBSET requests /\ \A s \in N : pc[s] \notin Ended
  OBVIOUS
<1>. HIDE DEF N
<1>. QED  BY <1>1, <1>2, <1>3, <1>4, <1>5, SessionsQuiet

-----------------------------------------------------------------------------
(* The actions *)

(* Nothing is called, stored or cached at the beginning. *)
LEMMA InvInit == Init => Inv
<1>. SUFFICES ASSUME Init PROVE Inv
  OBVIOUS
<1>1. Types
  BY EmptySeq DEF Init, Types, Steps
<1>2. Saves
  <2>1. ASSUME NEW r \in requests, IsSave(r) PROVE Progress(r)
    <3>1. Len(Inserts(r)) \in Nat
      BY <1>1, <2>1, InsertsLen
    <3>2. 1..0 = {}
      OBVIOUS
    <3>3. RowsOf(r) = {} /\ RowsUpTo(r, 0) = {}
      BY <3>2 DEF RowsOf, RowsUpTo, Init
    <3>. QED  BY <2>1, <3>1, <3>3 DEF Init, Progress
  <2>. QED  BY <2>1 DEF Saves, Init
<1>3. LastSend
  BY DEF LastSend, LastSendTruthful, Init
<1>4. Sessions
  BY DEF Sessions, SessionsFresh, Init, ToSet
<1>. QED  BY <1>1, <1>2, <1>3, <1>4 DEF Inv

(* A request arrives. *)
LEMMA CallStep ==
    ASSUME Inv, NEW r \in requests, Call(r)
    PROVE  Inv'
<1>. DEFINE to == CASE r.op = "Test" -> "ok"
                    [] IsSave(r) -> AfterInserts(r, 0)
                    [] r.op \in {"GetMsgs", "GetGroupMembers"} \cup Malformed -> "lease"
                    [] OTHER -> "redis"
            fixed == CASE r.op \in {"AuthAndSaveSession", "ClearSession"} ->
                            {s \in SignIns(r.user) \ stray : pc[s] \in {"ok", "failed"}}
                       [] r.op = "GetSessions" -> gone
                       [] r.op = "GetUserLastSendData" -> OwnTimes(r.user) \cup SentTimes(r.user)
                       [] OTHER -> {}
            N == IF to = "redis" THEN {r} ELSE {}
<1>1. Types /\ Saves /\ LastSend /\ Sessions
  BY DEF Inv
<1>2. /\ pc[r] = "new" /\ pc' = [pc EXCEPT ![r] = to]
      /\ wire' = IF to = "redis" THEN Append(wire, r) ELSE wire
      /\ seen' = [seen EXCEPT ![r] = fixed]
      /\ UNCHANGED <<requests, done, reply, messages, sessions, lastSend, stray, gone>>
  BY DEF Call, Proceed, Goto, stores
<1>3. /\ to \in {"ok", "lease", "redis"}
      /\ r.op \in {"AuthAndSaveSession", "ClearSession", "GetSessions", "GetUserLastSendData"} => to = "redis"
      /\ IsSave(r) => to = AfterInserts(r, 0)
  BY DEF IsSave, AfterInserts, Malformed
<1>4. /\ Replaces(r) => fixed = {s \in SignIns(r.user) \ stray : pc[s] \in Ended}
      /\ r.op = "GetSessions" => fixed = gone
      /\ r.op = "GetUserLastSendData" => fixed \subseteq OwnTimes(r.user)
  BY <1>1, SentIsOwn DEF Replaces, Ended
<1>. HIDE DEF to, fixed
<1>5. Later(wire, wire', N)
  <2>1. CASE to = "redis"
    BY <1>1, <1>2, <2>1, LaterAppend DEF Types
  <2>2. CASE to # "redis"
    BY <1>1, <1>2, <2>2 DEF Later, Types
  <2>. QED  BY <2>1, <2>2
<1>6. Types'
  BY <1>1, <1>2, <1>3, <1>5 DEF Types, Steps, Later
<1>7. Saves'
  <2>1. \A x \in requests : IsSave(x) => Moves(x)
    BY <1>1, <1>2, <1>3 DEF Moves, Types
  <2>. QED  BY <1>1, <1>2, <2>1, SavesQuiet
<1>8. LastSend'
  BY <1>1, <1>2, <1>3, <1>4, LastSendStep DEF Types
<1>9. Sessions'
  <2>1. EndedStays /\ NewStays(N) /\ \A s \in N : pc[s] \notin Ended
    BY <1>1, <1>2, <1>3 DEF EndedStays, NewStays, Types, Ended
  <2>2. SessionsMove /\ GoneMove
    BY <1>1, <1>2 DEF SessionsMove, GoneMove, Sessions
  <2>3. SeenMove
    <3>1. ASSUME Replaces(r), NEW s \in fixed PROVE Ahead(wire', s, r)
      <4>1. wire' = Append(wire, r) /\ r \notin ToSet(wire) /\ s # r
        BY <1>1, <1>2, <1>3, <1>4, <3>1 DEF Replaces, Sessions, Ended
      <4>2. /\ Len(wire) \in Nat /\ DOMAIN wire = 1..Len(wire) /\ DOMAIN wire' = 1..(Len(wire) + 1)
            /\ \A i \in 1..Len(wire) : wire'[i] = wire[i]
        BY <1>1, <4>1, AppendProperties, LenProperties DEF Types
      <4>3. wire'[Len(wire) + 1] = r /\ \A i \in 1..Len(wire) : wire'[i] # r
        BY <1>1, <4>1, <4>2, AppendProperties DEF ToSet, Types
      <4>. QED  BY <4>1, <4>2, <4>3 DEF Ahead
    <3>2. \A q \in requests : q # r => seen'[q] = seen[q]
      BY <1>1, <1>2 DEF Types
    <3>3. seen'[r] = fixed
      BY <1>1, <1>2 DEF Types
    <3>. QED  BY <1>4, <3>1, <3>2, <3>3 DEF SeenMove
  <2>4. ReplyMove /\ StrayMove
    BY <1>1, <1>2, <1>3, <1>4 DEF ReplyMove, StrayMove, Types
  <2>5. N \in SUBSET requests
    OBVIOUS
  <2>. HIDE DEF N
  <2>. QED  BY <1>1, <1>2, <1>5, <2>1, <2>2, <2>3, <2>4, <2>5, SessionsStep
<1>. QED  BY <1>6, <1>7, <1>8, <1>9 DEF Inv

(* A lease, an error of a statement without rows, and a timeout. *)
LEMMA QuietStep ==
    ASSUME Inv, NEW r \in requests, NEW from, NEW to, Goto(r, from, to),
           <<from, to>> \in {<<"lease", "sql">>, <<"sql", "failed">>, <<"redis", "failed">>},
           UNCHANGED <<requests, done, reply, messages, sessions, lastSend, wire, stray, seen, gone>>
    PROVE  Inv'
<1>1. Types /\ Saves /\ LastSend /\ Sessions
  BY DEF Inv
<1>2. pc[r] = from /\ pc' = [pc EXCEPT ![r] = to]
  BY DEF Goto
<1>3. Types'
  BY <1>1, <1>2 DEF Types, Steps
<1>4. Saves'
  <2>1. \A x \in requests : IsSave(x) => Moves(x)
    BY <1>1, <1>2 DEF Moves, Types
  <2>. QED  BY <1>1, <2>1, SavesQuiet
<1>5. LastSend'
  BY <1>1, <1>2, LastSendStep DEF Types
<1>6. Sessions'
  BY <1>1, <1>2, LocalSessions DEF Types, Ended
<1>. QED  BY <1>3, <1>4, <1>5, <1>6 DEF Inv

(* A statement of a save was executed. *)
LEMMA StatementStep ==
    ASSUME Inv, NEW r \in requests, Insert(r) \/ SqlFails(r)
    PROVE  Inv'
<1>1. Types /\ Saves /\ LastSend /\ Sessions
  BY DEF Inv
<1>2. CASE SqlFails(r) /\ UNCHANGED messages
  BY <1>2, QuietStep DEF SqlFails
<1>3. CASE Insert(r) \/ (SqlFails(r) /\ IsSave(r) /\ messages' = messages \cup Rows(r))
  <2>. DEFINE to == IF Insert(r) THEN AfterInserts(r, done[r] + 1) ELSE "failed"
  <2>1. /\ IsSave(r) /\ pc[r] = "sql" /\ pc' = [pc EXCEPT ![r] = to]
        /\ messages' = messages \cup Rows(r)
        /\ wire' = IF to = "redis" THEN Append(wire, r) ELSE wire
        /\ UNCHANGED <<requests, reply, sessions, lastSend, stray, seen, gone>>
        /\ \/ to = AfterInserts(r, done[r] + 1) /\ done' = [done EXCEPT ![r] = @ + 1]
           \/ to = "failed" /\ done' = done
    BY <1>3 DEF Insert, SqlFails, Proceed, Goto
  <2>2. to \in {"lease", "redis", "failed"}
    BY DEF AfterInserts
  <2>. HIDE DEF to
  <2>3. Types'
    <3>1. pc' \in [requests -> Steps]
      BY <1>1, <2>1, <2>2 DEF Types, Steps
    <3>3. done' \in [requests -> Nat]
      <4>0. done \in [requests -> Nat]
        BY <1>1, Zenon DEF Types
      <4>1. done[r] + 1 \in Nat
        BY <4>0
      <4>2. done' = done \/ done' = [done EXCEPT ![r] = done[r] + 1]
        BY <2>1
      <4>. QED  BY <4>0, <4>1, <4>2
    <3>2. wire' \in Seq(requests)
      BY <1>1, <2>1, AppendProperties DEF Types
    <3>. QED  BY <1>1, <2>1, <3>1, <3>2, <3>3 DEF Types
  <2>4. Saves'
    BY <1>1, <2>1, SavesStatement
  <2>5. LastSend'
    <3>1. \A x \in requests : x.op = "GetUserLastSendData" => x # r
      BY <2>1 DEF IsSave
    <3>2. messages \subseteq messages'
      BY <2>1
    <3>. QED  BY <1>1, <2>1, <3>1, <3>2, LastSendStep DEF Types
  <2>6. Sessions'
    <3>1. ~Replaces(r)
      BY <2>1 DEF IsSave, Replaces
    <3>. QED  BY <1>1, <2>1, <2>2, <3>1, LocalSessions DEF Types, Ended
  <2>. QED  BY <2>3, <2>4, <2>5, <2>6 DEF Inv
<1>. QED  BY <1>2, <1>3 DEF SqlFails

(* A SELECT was executed. *)
LEMMA SelectedStep ==
    ASSUME Inv, NEW r \in requests, GetMsgs(r) \/ GetGroupMembers(r) \/ SelectLastSend(r)
    PROVE  Inv'
<1>1. Types /\ Saves /\ LastSend /\ Sessions
  BY DEF Inv
<1>. DEFINE newest == IF OwnTimes(r.user) = {} THEN 0 ELSE Max(OwnTimes(r.user))
<1>2. PICK answer : /\ Selected(r, answer)
                    /\ r.op \in {"GetMsgs", "GetGroupMembers", "GetUserLastSendData"}
                    /\ r.op = "GetUserLastSendData" => answer = newest
  BY DEF GetMsgs, GetGroupMembers, SelectLastSend
<1>3. newest \in OwnTimes(r.user) \cup {0} /\ \A t \in OwnTimes(r.user) : t <= newest
  <2>1. PICK B \in Int : \A t \in Int32 : t \in Int /\ t <= B
    BY Int32Bound
  <2>2. OwnTimes(r.user) \in SUBSET Int /\ \A t \in OwnTimes(r.user) : t <= B
    BY <1>1, <2>1, OwnTimesBound
  <2>3. CASE OwnTimes(r.user) = {}
    BY <2>3
  <2>4. CASE OwnTimes(r.user) # {}
    BY <2>2, <2>4, NewestTime
  <2>. QED  BY <2>3, <2>4
<1>. HIDE DEF newest
<1>4. /\ pc[r] = "sql" /\ pc' = [pc EXCEPT ![r] = "ok"] /\ reply' = [reply EXCEPT ![r] = answer]
      /\ UNCHANGED <<requests, done, messages, sessions, lastSend, wire, stray, seen, gone>>
  BY <1>2 DEF Selected, Goto, stores
<1>5. Types'
  BY <1>1, <1>4 DEF Types, Steps
<1>6. Saves'
  <2>1. \A x \in requests : IsSave(x) => Moves(x)
    BY <1>1, <1>2, <1>4 DEF Moves, Types, IsSave
  <2>. QED  BY <1>1, <1>4, <2>1, SavesQuiet
<1>7. LastSend'
  BY <1>1, <1>2, <1>3, <1>4, LastSendStep DEF Types
<1>8. Sessions'
  BY <1>1, <1>2, <1>4, LocalSessions DEF Types, Ended
<1>. QED  BY <1>5, <1>6, <1>7, <1>8 DEF Inv

(* The steps in which no handler moves: on the wire, in Redis, a restart. *)
LEMMA HandlersStay ==
    ASSUME Inv, NEW N \in SUBSET requests, Later(wire, wire', N),
           \A s \in N : pc[s] \notin Ended \cup {"new"}, SessionsMove, stray' \subseteq stray,
           UNCHANGED <<requests, pc, done, reply, messages, lastSend, seen, gone>>
    PROVE  Inv'
<1>1. Types /\ Saves /\ LastSend /\ Sessions
  BY DEF Inv
<1>2. Types'
  BY <1>1 DEF Types, Later
<1>3. Saves'
  BY <1>1, SavesQuiet DEF Moves
<1>4. LastSend'
  BY <1>1, LastSendStep
<1>5. Sessions'
  <2>1. EndedStays /\ NewStays(N) /\ ReplyMove /\ StrayMove
    BY DEF EndedStays, NewStays, ReplyMove, StrayMove
  <2>. QED  BY <1>1, <2>1, SessionsQuiet
<1>. QED  BY <1>2, <1>3, <1>4, <1>5 DEF Inv

(* A broken connection, a session that expires, a restart. *)
LEMMA OutsideStep ==
    ASSUME Inv, \/ \E r \in requests : Resend(r)
                \/ \E u \in Users : Expire(u)
                \/ Restart
                \/ UNCHANGED vars
    PROVE  Inv'
<1>1. Types /\ Saves /\ LastSend /\ Sessions
  BY DEF Inv
<1>2. sessions' = sessions => SessionsMove
  BY <1>1 DEF SessionsMove, Sessions
<1>3. Later(wire, wire, {})
  BY <1>1 DEF Later, Types
<1>4. ASSUME NEW r \in requests, Resend(r) PROVE Inv'
  <2>1. PICK i \in DOMAIN wire :
        wire' = IF pc[r] = "redis" THEN Append(RemoveAt(wire, i), r) ELSE RemoveAt(wire, i)
    BY <1>4 DEF Resend
  <2>2. Later(wire, RemoveAt(wire, i), {}) /\ RemoveAt(wire, i) \in Seq(requests)
    BY <1>1, LaterRemove DEF Types, Later
  <2>3. UNCHANGED <<requests, pc, done, reply, messages, sessions, lastSend, stray, seen, gone>>
    BY <1>4 DEF Resend, stores
  <2>4. CASE pc[r] = "redis"
    <3>1. Later(wire, wire', {r})
      BY <2>1, <2>2, <2>4, LaterAppend, LaterTrans
    <3>. QED  BY <1>2, <2>3, <2>4, <3>1, HandlersStay DEF Ended
  <2>5. CASE pc[r] # "redis"
    BY <1>2, <2>1, <2>2, <2>3, <2>5, HandlersStay
  <2>. QED  BY <2>4, <2>5
<1>5. ASSUME NEW u \in Users, Expire(u) PROVE Inv'
  <2>1. SessionsMove
    BY <1>1, <1>5 DEF SessionsMove, Sessions, Expire
  <2>. QED  BY <1>3, <1>5, <2>1, HandlersStay DEF Expire
<1>6. CASE Restart
  BY <1>2, <1>3, <1>6, HandlersStay DEF Restart, stores
<1>7. CASE UNCHANGED vars
  BY <1>2, <1>3, <1>7, HandlersStay DEF vars, stores
<1>. QED  BY <1>4, <1>5, <1>6, <1>7

(* The process ends. *)
LEMMA DieStep ==
    ASSUME Inv, NEW sent, Die(sent), ToSet(sent) \subseteq ToSet(wire),
           SessionsMove, UNCHANGED <<messages, lastSend>>
    PROVE  Inv'
<1>1. Types /\ Saves /\ LastSend /\ Sessions
  BY DEF Inv
<1>2. /\ pc' = [r \in requests |-> IF pc[r] \in {"lease", "sql", "redis"} THEN "lost" ELSE pc[r]]
      /\ wire' = <<>> /\ stray' \subseteq stray \cup ToSet(wire)
      /\ UNCHANGED <<requests, done, reply, seen, gone>>
  BY DEF Die
<1>7. Later(wire, wire', {})
  BY <1>2, EmptySeq DEF Later, Ahead, ToSet
<1>3. Types'
  <2>1. ToSet(wire) \subseteq requests
    BY <1>1, LenProperties, ElementOfSeq DEF Types, ToSet
  <2>. QED  BY <1>1, <1>2, <1>7, <2>1 DEF Types, Steps, Later
<1>4. Saves'
  <2>1. \A x \in requests : Moves(x)
    BY <1>1, <1>2 DEF Moves
  <2>. QED  BY <1>1, <1>2, <2>1, SavesQuiet
<1>5. LastSend'
  BY <1>1, <1>2, LastSendStep
<1>6. Sessions'
  <2>1. EndedStays /\ NewStays({})
    BY <1>2 DEF EndedStays, NewStays, Ended
  <2>2. ReplyMove
    BY <1>2 DEF ReplyMove
  <2>3. StrayMove
    BY <1>1, <1>2 DEF StrayMove, Types
  <2>. QED  BY <1>1, <1>2, <1>7, <2>1, <2>2, <2>3, SessionsQuiet
<1>. QED  BY <1>3, <1>4, <1>5, <1>6 DEF Inv

(* The command Redis executes. *)
LEMMA HeadOfWire ==
    ASSUME Types, wire # <<>>
    PROVE  /\ Head(wire) \in requests /\ Head(wire) \in ToSet(wire)
           /\ 1 \in DOMAIN wire /\ Head(wire) = wire[1]
           /\ \A i \in DOMAIN wire : ~(i < 1)
<1>1. wire \in Seq(requests) /\ Len(wire) \in Nat \ {0} /\ DOMAIN wire = 1..Len(wire)
  BY LenProperties, EmptySeq DEF Types
<1>2. Head(wire) = wire[1] /\ 1 \in DOMAIN wire
  BY <1>1, HeadTailProperties
<1>. QED  BY <1>1, <1>2, ElementOfSeq DEF ToSet

(* What Redis does with a command: only the session of its user can        *)
(* change.                                                                 *)
LEMMA ExecuteFacts ==
    ASSUME Types, LastSend, Sessions, NEW r \in requests, r \in ToSet(wire) \cup stray, Execute(r)
    PROVE  /\ SessionsMove /\ UNCHANGED <<messages, lastSend>>
           /\ Replaces(r) => r.user \in Users /\ sessions'[r.user] \in {r, None}
<1>1. UNCHANGED <<messages, lastSend>>
  BY DEF Execute, Eval
<1>2. CASE Replaces(r)
  <2>1. r.user \in Users
    BY <1>2, UserOf DEF Replaces, IsSave
  <2>2. PICK v \in {r, None} : sessions' = [sessions EXCEPT ![r.user] = v] /\ (v = r => r \in SignIns(r.user))
    <3>1. r # None
      BY UserOf
    <3>2. CASE r.op = "AuthAndSaveSession"
      BY <3>2 DEF Execute, SetSession, SignIns
    <3>3. CASE r.op = "ClearSession"
      BY <3>1, <3>3 DEF Execute, DelSession
    <3>. QED  BY <1>2, <3>2, <3>3 DEF Replaces
  <2>3. sessions' \in [Users -> requests \cup {None}] /\ sessions'[r.user] = v
    BY <2>1, <2>2 DEF Sessions
  <2>4. \A u \in Users : u # r.user => sessions'[u] = sessions[u]
    BY <2>1, <2>2 DEF Sessions
  <2>. QED  BY <1>1, <2>1, <2>2, <2>3, <2>4 DEF SessionsMove
<1>3. CASE ~Replaces(r)
  <2>1. sessions' = sessions
    BY <1>3 DEF Execute, Replaces
  <2>. QED  BY <1>1, <1>3, <2>1 DEF SessionsMove, Sessions
<1>. QED  BY <1>2, <1>3

(* ... and nothing does, if it is refused. *)
LEMMA EffectFacts ==
    ASSUME Types, LastSend, Sessions, NEW r \in requests, r \in ToSet(wire) \cup stray,
           NEW refused \in BOOLEAN, IF refused THEN UNCHANGED stores ELSE Execute(r)
    PROVE  /\ SessionsMove /\ UNCHANGED <<messages, lastSend>>
           /\ ~refused /\ Replaces(r) => r.user \in Users /\ sessions'[r.user] \in {r, None}
<1>1. CASE refused
  BY <1>1 DEF stores, SessionsMove, Sessions
<1>2. CASE ~refused
  BY <1>2, ExecuteFacts
<1>. QED  BY <1>1, <1>2

(* A list of one has an element. *)
LEMMA OneElement ==
    ASSUME NEW us, us \in Seq(ToSet(us)), Len(us) = 1
    PROVE  us[1] \in ToSet(us)
<1>1. 1 \in 1..Len(us)
  OBVIOUS
<1>. QED  BY <1>1, ElementOfSeq

(* The reply reaches the handler. *)
LEMMA AnsweredStep ==
    ASSUME Inv, wire # <<>>, NEW r, r = Head(wire), NEW refused \in BOOLEAN,
           IF refused THEN UNCHANGED stores ELSE Execute(r),
           Answered(r, refused), wire' = Tail(wire)
    PROVE  Inv'
<1>1. Types /\ Saves /\ LastSend /\ Sessions
  BY DEF Inv
<1>2. r \in requests /\ r \in ToSet(wire)
  BY <1>1, HeadOfWire
<1>3. /\ SessionsMove /\ UNCHANGED <<messages, lastSend>>
      /\ ~refused /\ Replaces(r) => r.user \in Users /\ sessions'[r.user] \in {r, None}
  BY <1>1, <1>2, EffectFacts
<1>4. Later(wire, wire', {})
  BY <1>1, LaterTail DEF Types
<1>. DEFINE to == AfterReply(r, refused)
            answer == CASE r.op = "GetSessions" ->
                              IF OneSession(r, refused) THEN sessions[r.users[1]] ELSE None
                        [] r.op = "GetUserLastSendData" /\ ~refused -> lastSend[r.user]
                        [] OTHER -> None
<1>5. /\ pc[r] = "redis" /\ pc' = [pc EXCEPT ![r] = to]
      /\ gone' = IF ~refused /\ Replaces(r) THEN gone \cup seen[r] ELSE gone
      /\ reply' = [reply EXCEPT ![r] = answer]
      /\ UNCHANGED <<requests, done, stray, seen>>
  BY DEF Answered, Goto, Vouched, Replaces
<1>6. to \in {"ok", "lease"} /\ (r.op = "GetUserLastSendData" <=> to = "lease")
  <2>1. r.op = "GetUserLastSendData" => r.user \in Users
    BY <1>1, <1>2, UserOf DEF IsSave
  <2>2. r.op = "GetUserLastSendData" => lastSend[r.user] = None
    BY <1>1, <2>1 DEF LastSend
  <2>. QED  BY <2>2 DEF AfterReply
<1>7. r.op = "GetSessions" => answer \notin gone
  <2>. SUFFICES ASSUME r.op = "GetSessions" PROVE answer \notin gone
    OBVIOUS
  <2>1. None \notin gone
    BY <1>1, UserOf DEF Sessions
  <2>2. CASE ~OneSession(r, refused)
    BY <2>1, <2>2
  <2>3. CASE OneSession(r, refused)
    <3>1. r.users \in Seq(ToSet(r.users))
      BY <1>1, <1>2, ProxyAssumption DEF Types
    <3>2. r.users[1] \in ToSet(r.users)
      <4>1. Len(r.users) = 1
        BY <2>3, Zenon DEF OneSession
      <4>. QED  BY <3>1, <4>1, OneElement, Zenon
    <3>3. r.users[1] \in Users
      BY <1>1, <1>2, <3>2, UserOf
    <3>4. sessions[r.users[1]] \notin gone
      BY <1>1, <2>1, <3>3 DEF Sessions, SignIns
    <3>. QED  BY <2>3, <3>4
  <2>. QED  BY <2>2, <2>3
<1>. HIDE DEF to, answer
<1>8. Types'
  BY <1>1, <1>4, <1>5, <1>6 DEF Types, Steps, Later
<1>9. Saves'
  <2>1. \A x \in requests : IsSave(x) => Moves(x)
    BY <1>1, <1>5, <1>6 DEF Moves, Types, IsSave
  <2>. QED  BY <1>1, <1>3, <1>5, <2>1, SavesQuiet
<1>10. LastSend'
  BY <1>1, <1>2, <1>3, <1>5, <1>6, LastSendStep DEF Types
<1>11. Sessions'
  <2>1. EndedStays /\ NewStays({})
    BY <1>1, <1>2, <1>5, <1>6 DEF EndedStays, NewStays, Types, Ended
  <2>2. SeenMove
    BY <1>5 DEF SeenMove
  <2>3. GoneMove
    <3>1. ASSUME ~refused, Replaces(r), NEW s \in seen[r]
          PROVE  /\ s \in requests /\ s.op = "AuthAndSaveSession" /\ pc[s] \in Ended
                 /\ s \notin ToSet(wire) \cup stray /\ sessions'[s.user] # s
      <4>1. s \in SignIns(r.user) /\ pc[s] \in Ended /\ Ahead(wire, s, r)
        BY <1>1, <1>2, <3>1 DEF Sessions, Ended
      <4>2. s \in requests /\ s.op = "AuthAndSaveSession" /\ s.user = r.user
        BY <4>1 DEF SignIns
      <4>3. s \notin ToSet(wire)
        BY <1>1, <4>1, HeadOfWire DEF Ahead, ToSet
      <4>5. s \notin stray
        BY <1>1, <1>2, <1>5, <3>1 DEF Sessions
      <4>4. s # r /\ s # None
        BY <1>1, <1>5, <4>1, <4>2, UserOf DEF Ended
      <4>. QED  BY <1>3, <3>1, <4>1, <4>2, <4>3, <4>4, <4>5
    <3>. QED  BY <1>5, <3>1 DEF GoneMove
  <2>4. ReplyMove
    BY <1>1, <1>2, <1>5, <1>7 DEF ReplyMove, Types
  <2>5. StrayMove
    BY <1>1, <1>2, <1>5, <1>6 DEF StrayMove, Types
  <2>. QED  BY <1>1, <1>3, <1>4, <1>5, <2>1, <2>2, <2>3, <2>4, <2>5, SessionsStep
<1>. QED  BY <1>8, <1>9, <1>10, <1>11 DEF Inv

(* Redis executes or refuses the oldest command. *)
LEMMA RedisStep ==
    ASSUME Inv, RedisExecutes
    PROVE  Inv'
<1>. DEFINE r == Head(wire)
<1>1. Types /\ Saves /\ LastSend /\ Sessions
  BY DEF Inv
<1>2. PICK refused \in BOOLEAN :
        /\ IF refused THEN UNCHANGED stores ELSE Execute(r)
        /\ \/ Answered(r, refused) /\ wire' = Tail(wire)
           \/ Die(Tail(wire))
           \/ /\ pc[r] = "redis" /\ wire' = Append(Tail(wire), r)
              /\ UNCHANGED <<requests, pc, done, reply, stray, seen, gone>>
           \/ wire' = Tail(wire) /\ UNCHANGED <<requests, pc, done, reply, stray, seen, gone>>
  BY DEF RedisExecutes
<1>3. wire # <<>> /\ r \in requests /\ r \in ToSet(wire)
  BY <1>1, HeadOfWire DEF RedisExecutes
<1>. HIDE DEF r
<1>4. SessionsMove /\ UNCHANGED <<messages, lastSend>>
  BY <1>1, <1>2, <1>3, EffectFacts
<1>5. /\ Later(wire, Tail(wire), {}) /\ Tail(wire) \in Seq(requests)
      /\ ToSet(Tail(wire)) \subseteq ToSet(wire)
  BY <1>1, <1>3, LaterTail DEF Types, Later
<1>6. CASE Answered(r, refused) /\ wire' = Tail(wire)
  BY <1>2, <1>3, <1>6, AnsweredStep DEF r
<1>7. CASE Die(Tail(wire))
  BY <1>4, <1>5, <1>7, DieStep
<1>8. CASE /\ pc[r] = "redis" /\ wire' = Append(Tail(wire), r)
           /\ UNCHANGED <<requests, pc, done, reply, stray, seen, gone>>
  <2>1. Later(wire, wire', {r})
    BY <1>3, <1>5, <1>8, LaterAppend, LaterTrans
  <2>. QED  BY <1>3, <1>4, <1>8, <2>1, HandlersStay DEF Ended
<1>9. CASE wire' = Tail(wire) /\ UNCHANGED <<requests, pc, done, reply, stray, seen, gone>>
  BY <1>4, <1>5, <1>9, HandlersStay
<1>. QED  BY <1>2, <1>6, <1>7, <1>8, <1>9

(* Redis comes to a command of a process that has ended. *)
LEMMA StrayStep ==
    ASSUME Inv, RedisReadsStray
    PROVE  Inv'
<1>1. Types /\ Saves /\ LastSend /\ Sessions
  BY DEF Inv
<1>2. PICK r \in stray : stray' = stray \ {r} /\ (Execute(r) \/ UNCHANGED stores)
  BY DEF RedisReadsStray
<1>3. SessionsMove /\ UNCHANGED <<messages, lastSend>>
  <2>1. CASE Execute(r)
    BY <1>1, <1>2, <2>1, ExecuteFacts DEF Types
  <2>2. CASE UNCHANGED stores
    BY <1>1, <2>2 DEF stores, SessionsMove, Sessions
  <2>. QED  BY <1>2, <2>1, <2>2
<1>4. UNCHANGED <<requests, pc, done, reply, wire, seen, gone>> /\ stray' \subseteq stray
  BY <1>2 DEF RedisReadsStray
<1>5. Later(wire, wire', {})
  BY <1>1, <1>4 DEF Later, Types
<1>. QED  BY <1>3, <1>4, <1>5, HandlersStay

(* A crash: what was sent is left to Redis. *)
LEMMA CrashStep ==
    ASSUME Inv, Crash
    PROVE  Inv'
<1>1. UNCHANGED <<messages, lastSend>> /\ sessions' = sessions
  BY DEF Crash, stores
<1>2. SessionsMove
  BY <1>1 DEF SessionsMove, Inv, Sessions
<1>. QED  BY <1>1, <1>2, DieStep DEF Crash

(* The invariant holds for any workload, any size of the pool, and         *)
(* whatever fails where.                                                   *)
LEMMA Invariance == Spec => []Inv
<1>1. ASSUME Inv, [Next]_vars PROVE Inv'
  <2>1. ASSUME NEW r \in requests, Step(r) PROVE Inv'
    <3>1. CASE Lease(r) \/ RedisFails(r)
      <4>1. CASE Lease(r)
        BY <1>1, <4>1, QuietStep DEF Lease, stores
      <4>2. CASE RedisFails(r)
        BY <1>1, <4>2, QuietStep DEF RedisFails, stores
      <4>. QED  BY <3>1, <4>1, <4>2
    <3>2. CASE Insert(r) \/ SqlFails(r)
      BY <3>2, <1>1, StatementStep
    <3>3. CASE GetMsgs(r) \/ GetGroupMembers(r) \/ SelectLastSend(r)
      BY <3>3, <1>1, SelectedStep
    <3>. QED  BY <2>1, <3>1, <3>2, <3>3 DEF Step
  <2>2. CASE RedisExecutes
    BY <1>1, <2>2, RedisStep
  <2>3. CASE Crash \/ RedisReadsStray
    BY <1>1, <2>3, CrashStep, StrayStep
  <2>4. CASE \/ \E r \in requests : Resend(r)
             \/ \E u \in Users : Expire(u)
             \/ Restart
             \/ UNCHANGED vars
    BY <1>1, <2>4, OutsideStep
  <2>5. ASSUME NEW r \in requests, Call(r) PROVE Inv'
    BY <1>1, <2>5, CallStep
  <2>. QED  BY <1>1, <2>1, <2>2, <2>3, <2>4, <2>5 DEF Next
<1>. QED  BY InvInit, <1>1, PTL DEF Spec

-----------------------------------------------------------------------------
(* The theorems *)

(* The copies of a message are never torn further than the code intends:   *)
(* both users of a private message or neither (SavePrivateMsg), the        *)
(* members of a group up to some place in the list (SaveGroupMsg), for any *)
(* messages, groups of any size, and failures and crashes anywhere.        *)
THEOREM SaveOrder == Spec => []StoredInOrder
<1>1. ASSUME Inv PROVE StoredInOrder
  <2>1. Types /\ Saves
    BY <1>1 DEF Inv
  <2>2. ASSUME NEW r \in requests, IsSave(r), NEW u
        PROVE  Stored(u, r) <=> <<u, r>> \in RowsOf(r)
    BY DEF Stored, RowsOf
  <2>3. ASSUME NEW r \in requests, IsSave(r)
        PROVE  \E k \in 0..Len(Inserts(r)) : RowsOf(r) = RowsUpTo(r, k)
    <3>1. Progress(r) /\ Len(Inserts(r)) \in Nat
      BY <2>1, <2>3, InsertsLen DEF Saves
    <3>2. CASE RowsOf(r) = RowsUpTo(r, done[r])
      BY <3>1, <3>2 DEF Progress
    <3>3. CASE done[r] < Len(Inserts(r)) /\ RowsOf(r) = RowsUpTo(r, done[r] + 1)
      <4>1. done[r] + 1 \in 0..Len(Inserts(r))
        BY <3>1, <3>3 DEF Progress
      <4>. QED  BY <3>3, <4>1
    <3>. QED  BY <3>1, <3>2, <3>3 DEF Progress
  <2>4. ASSUME NEW r, NEW k, NEW u
        PROVE  <<u, r>> \in RowsUpTo(r, k) <=> \E i \in 1..k : u \in Inserts(r)[i]
    BY DEF RowsUpTo
  <2>5. ASSUME NEW r \in requests, IsSave(r), NEW k, RowsOf(r) = RowsUpTo(r, k), NEW u
        PROVE  Stored(u, r) <=> \E i \in 1..k : u \in Inserts(r)[i]
    <3>1. Stored(u, r) <=> <<u, r>> \in RowsUpTo(r, k)
      BY <2>2, <2>5
    <3>. QED  BY <2>4, <3>1
  <2>6. ASSUME NEW r \in requests, r.op = "SavePrivateMsg"
        PROVE  Stored(r.sender, r) <=> Stored(r.receiver, r)
    <3>1. IsSave(r) /\ Inserts(r) = << {r.sender, r.receiver} >>
      BY <2>1, <2>6, InsertsLen DEF IsSave
    <3>2. PICK k \in 0..1 : RowsOf(r) = RowsUpTo(r, k)
      BY <2>3, <3>1
    <3>3. \A i \in 1..k : Inserts(r)[i] = {r.sender, r.receiver}
      BY <3>1
    <3>4. \A u : Stored(u, r) <=> \E i \in 1..k : u \in Inserts(r)[i]
      BY <2>5, <3>1, <3>2
    <3>. QED  BY <3>3, <3>4
  <2>7. ASSUME NEW r \in requests, r.op = "SaveGroupMsg"
        PROVE  \E k \in 0..Len(r.users) : \A u \in ToSet(r.users) :
                    Stored(u, r) <=> \E i \in 1..k : u = r.users[i]
    <3>1. /\ IsSave(r) /\ Len(Inserts(r)) = Len(r.users) /\ Len(Inserts(r)) \in Nat
          /\ \A i \in 1..Len(r.users) : Inserts(r)[i] = {r.users[i]}
      BY <2>1, <2>7, InsertsLen DEF IsSave
    <3>2. PICK k \in 0..Len(r.users) : RowsOf(r) = RowsUpTo(r, k)
      BY <2>3, <3>1
    <3>3. \A i \in 1..k : Inserts(r)[i] = {r.users[i]}
      BY <3>1
    <3>4. \A u : Stored(u, r) <=> \E i \in 1..k : u \in Inserts(r)[i]
      BY <2>5, <3>1, <3>2
    <3>. QED  BY <3>1, <3>3, <3>4
  <2>. QED  BY <2>6, <2>7 DEF StoredInOrder
<1>. QED  BY Invariance, <1>1, PTL

(* A save that was answered without an error is in the table for everybody *)
(* (the catch blocks of SavePrivateMsg and SaveGroupMsg).                  *)
THEOREM SavedIsStored == Spec => []AckedIsStored
<1>1. ASSUME Inv PROVE AckedIsStored
  <2>. SUFFICES ASSUME NEW r \in requests, IsSave(r), pc[r] = "ok", NEW u \in UNION ToSet(Inserts(r))
                PROVE  Stored(u, r)
    BY DEF AckedIsStored
  <2>1. Types /\ Progress(r) /\ Len(Inserts(r)) \in Nat
    BY <1>1, InsertsLen DEF Inv, Saves
  <2>2. RowsOf(r) = RowsUpTo(r, Len(Inserts(r)))
    BY <2>1 DEF Progress
  <2>3. PICK i \in DOMAIN Inserts(r) : u \in Inserts(r)[i]
    BY DEF ToSet
  <2>4. DOMAIN Inserts(r) = 1..Len(Inserts(r))
    <3>1. CASE r.op = "SavePrivateMsg"
      BY <2>1, <3>1, InsertsLen
    <3>2. CASE r.op = "SaveGroupMsg"
      <4>1. r.users \in Seq(ToSet(r.users))
        BY <2>1, <3>2, ProxyAssumption DEF Types
      <4>. QED  BY <2>1, <3>2, <4>1, InsertsLen, LenProperties DEF Inserts, GroupInserts
    <3>. QED  BY <3>1, <3>2 DEF IsSave
  <2>5. <<u, r>> \in RowsUpTo(r, Len(Inserts(r)))
    BY <2>3, <2>4 DEF RowsUpTo
  <2>. QED  BY <2>2, <2>5 DEF RowsOf, Stored
<1>. QED  BY Invariance, <1>1, PTL

(* GetUserLastSendData reports the time of a stored message of the user,   *)
(* and none older than any message of the user that anybody had a copy of  *)
(* when it was called, whatever became of the saves; of a group message    *)
(* this needs the sender's copy to be stored, which it is if the sender    *)
(* comes first in the list.                                                *)
THEOREM LastSendIsTruthful == Spec => []LastSendTruthful
<1>1. Inv => LastSendTruthful
  BY DEF Inv, LastSend
<1>. QED  BY Invariance, <1>1, PTL

(* GetSessions never reports an address from before a newer sign-in or     *)
(* clear (AuthAndSaveSession, ClearSession) that Redis carried out and     *)
(* that was acknowledged, although commands time out, are refused, are     *)
(* sent again, and are executed after their handler gave up or their       *)
(* process ended.                                                          *)
THEOREM SessionsAreFresh == Spec => []SessionsFresh
<1>1. Inv => SessionsFresh
  BY DEF Inv, Sessions
<1>. QED  BY Invariance, <1>1, PTL
=============================================================================
