--------------------------- MODULE AccountsProofs ---------------------------
(***************************************************************************)
(* Proofs about Accounts, for any number of workers, names and passwords,  *)
(* for a table with and without unique usernames.                          *)
(***************************************************************************)
EXTENDS Accounts, TLAPS

-----------------------------------------------------------------------------
(* The inductive invariant *)

(* The lock is held from mysql_query to the end of users.insert, and the   *)
(* form of a request stays in the worker's locals until it is answered.    *)
Control ==
    /\ pc \in [Workers -> {"idle", "register", "login", "lock", "query", "inserting", "answer"}]
    /\ name = [w \in Workers |-> name[w]] /\ password = [w \in Workers |-> password[w]]
    /\ res \in [Workers -> BOOLEAN] /\ unique \in BOOLEAN /\ failed \in BOOLEAN
    /\ \A w \in Workers : pc[w] # "idle" => name[w] \in Names /\ password[w] \in Passwords
    /\ \A w \in Workers : pc[w] \in {"query", "inserting"} <=> m_lock = w

(* Whatever was or may still be acknowledged has been stored. *)
Stored ==
    /\ acked \subseteq table
    /\ \A w \in Workers : pc[w] \in {"inserting", "answer"} /\ res[w] => Row(w) \in table

(* A table with unique usernames has one row of a name. *)
OneRow == unique => \A r, s \in table : r[1] = s[1] => r = s

(* The map follows the table: a name of the table is missing in the map    *)
(* only while the thread that stored it is about to insert it, and a       *)
(* thread whose INSERT was refused finds its name in the map.              *)
MapFollows ==
    ~failed =>
      /\ \A r \in table : \/ r[1] \in DOMAIN users
                          \/ \E w \in Workers : pc[w] = "inserting" /\ name[w] = r[1]
      /\ \A n \in DOMAIN users : <<n, users[n]>> \in table
      /\ \A w \in Workers : pc[w] = "inserting" /\ ~res[w] => name[w] \in DOMAIN users

Inv == TypeOK /\ Control /\ Stored /\ OneRow /\ MapFollows /\ LoginSound

(* initmysql_result: the map has a password of the table for each of its   *)
(* names.                                                                  *)
LEMMA LoadedProperties ==
    ASSUME NEW rows \in SUBSET Rows, NEW u \in Loaded(rows)
    PROVE  /\ DOMAIN u \subseteq Names /\ Range(u) \subseteq Passwords
           /\ \A r \in rows : r[1] \in DOMAIN u
           /\ \A n \in DOMAIN u : <<n, u[n]>> \in rows
  BY DEF Loaded, Rows, Range

-----------------------------------------------------------------------------
(* The invariant is inductive *)

(* A server that starts on any table satisfies the invariant.              *)
LEMMA InvInit == Init => Inv
<1>. SUFFICES ASSUME Init PROVE Inv
  OBVIOUS
<1>1. table \subseteq Rows /\ OneRow
  BY DEF Init, OneRow
<1>2. TypeOK /\ MapFollows
  BY <1>1, LoadedProperties DEF Init, TypeOK, MapFollows
<1>3. Control /\ Stored /\ LoginSound
  BY AccountsAssumption DEF Init, Control, Stored, LoginSound
<1>. QED  BY <1>1, <1>2, <1>3 DEF Inv

(* A step of a worker that leaves table, map, lock and res alone keeps     *)
(* what is said of the map: no thread starts or ends its users.insert.     *)
LEMMA QuietStep ==
    ASSUME Inv, UNCHANGED <<dbVars, users>>,
           \A w \in Workers : pc'[w] = "inserting" <=> pc[w] = "inserting",
           \A w \in Workers : pc[w] = "inserting" => name'[w] = name[w] /\ res'[w] = res[w]
    PROVE  OneRow' /\ MapFollows'
  BY DEF Inv, OneRow, MapFollows, dbVars

(* The steps of a worker other than the two writes under the lock. *)
LEMMA OtherSteps ==
    ASSUME Inv, NEW w \in Workers,
           \/ Request(w, "register") \/ Request(w, "login") \/ Login(w)
           \/ NameTaken(w) \/ NameFree(w) \/ RegisterLock(w) \/ RegisterAnswer(w)
    PROVE  Inv'
<1>. USE DEF Goto, Answer, dbVars, reqVars
<1>1. OneRow' /\ MapFollows'
  <2>1. UNCHANGED <<dbVars, users>>
    BY DEF Request, Login, NameTaken, NameFree, RegisterLock, RegisterAnswer
  <2>2. \A v \in Workers : pc'[v] = "inserting" <=> pc[v] = "inserting"
    BY DEF Request, Login, NameTaken, NameFree, RegisterLock, RegisterAnswer, Inv, Control
  <2>3. \A v \in Workers : pc[v] = "inserting" => name'[v] = name[v] /\ res'[v] = res[v]
    BY DEF Request, Login, NameTaken, NameFree, RegisterLock, RegisterAnswer, Inv, Control
  <2>. QED  BY <2>1, <2>2, <2>3, QuietStep
<1>. USE DEF Inv
<1>2. ASSUME NEW kind \in {"register", "login"}, Request(w, kind) PROVE Inv'
  <2>1. TypeOK'  BY <1>2 DEF Request, TypeOK
  <2>2. Control'  BY <1>2 DEF Request, Control
  <2>3. Stored'  BY <1>2 DEF Request, Control, Stored, Row
  <2>4. LoginSound'  BY <1>2 DEF Request, TypeOK, Control, LoginSound, Row
  <2>. QED  BY <1>1, <2>1, <2>2, <2>3, <2>4
<1>3. CASE Login(w)
  <2>1. TypeOK' /\ Control' /\ Stored'
    BY <1>3 DEF Login, TypeOK, Control, Stored, Row
  <2>2. LoginSound'
    <3>. SUFFICES ASSUME ~failed, NEW v \in Workers, reply'[v] = "welcome.html"
                  PROVE  Row(v) \in table
      BY <1>3 DEF Login, LoginSound, Row
    <3>1. CASE v # w
      BY <1>3, <3>1 DEF Login, LoginSound, TypeOK
    <3>2. CASE v = w
      <4>1. name[w] \in DOMAIN users /\ users[name[w]] = password[w]
        BY <1>3, <3>2 DEF Login, Finds, TypeOK
      <4>. QED  BY <3>2, <4>1 DEF MapFollows, Row
    <3>. QED  BY <3>1, <3>2
  <2>. QED  BY <1>1, <2>1, <2>2
<1>4. CASE NameTaken(w) \/ NameFree(w)
  <2>1. TypeOK'
    BY <1>4 DEF NameTaken, NameFree, TypeOK
  <2>2. Control'
    BY <1>4 DEF NameTaken, NameFree, Control
  <2>3. Stored'
    BY <1>4 DEF NameTaken, NameFree, Control, Stored, Row
  <2>4. LoginSound'
    BY <1>4 DEF NameTaken, NameFree, TypeOK, LoginSound, Row
  <2>. QED  BY <1>1, <2>1, <2>2, <2>3, <2>4
<1>5. CASE RegisterLock(w)
  <2>1. TypeOK' /\ Control'
    BY <1>5, AccountsAssumption DEF RegisterLock, Lock, TypeOK, Control
  <2>2. Stored' /\ LoginSound'
    BY <1>5 DEF RegisterLock, Control, Stored, LoginSound, Row
  <2>. QED  BY <1>1, <2>1, <2>2
<1>6. CASE RegisterAnswer(w)
  <2>1. TypeOK'
    BY <1>6 DEF RegisterAnswer, TypeOK, Control, Row, Rows
  <2>2. Control' /\ Stored'
    BY <1>6 DEF RegisterAnswer, Control, Stored, Row
  <2>3. LoginSound'
    BY <1>6 DEF RegisterAnswer, LoginSound, TypeOK, Row
  <2>. QED  BY <1>1, <2>1, <2>2, <2>3
<1>. QED  BY <1>2, <1>3, <1>4, <1>5, <1>6

(* mysql_query: nobody else is inserting, so without a failure the map has *)
(* every name of the table; the new row's name is the worker's own.        *)
LEMMA InsertRowStep ==
    ASSUME Inv, NEW w \in Workers, InsertRow(w)
    PROVE  Inv'
<1>. USE DEF Inv, Goto, dbVars
<1>1. table \subseteq table' /\ (failed => failed') /\ UNCHANGED <<users, name, password, unique>>
  <2>1. table \subseteq table'  BY DEF InsertRow
  <2>2. failed => failed'  BY Zenon DEF InsertRow
  <2>. QED  BY <2>1, <2>2 DEF InsertRow
<1>2. /\ pc[w] = "query" /\ pc' = [pc EXCEPT ![w] = "inserting"]
      /\ Row(w) \in Rows
      /\ \A v \in Workers : pc[v] # "inserting"
  BY DEF InsertRow, Control, Row, Rows
<1>3. TypeOK'
  BY <1>2 DEF InsertRow, TypeOK
<1>4. Control'
  BY DEF InsertRow, Control
<1>5. Stored'
  <2>1. res'[w] => Row(w) \in table'
    BY DEF InsertRow, Control
  <2>2. \A v \in Workers : v # w => res'[v] = res[v] /\ pc'[v] = pc[v]
    BY DEF InsertRow, Control
  <2>3. acked' = acked
    BY DEF InsertRow
  <2>. QED  BY <1>1, <2>1, <2>2, <2>3 DEF Stored, Row
<1>6. OneRow'
  BY DEF InsertRow, OneRow, Refused, Row
<1>7. MapFollows'
  <2>. SUFFICES ASSUME ~failed' PROVE MapFollows'
    BY DEF MapFollows
  <2>1. \A r \in table : r[1] \in DOMAIN users
    BY <1>1, <1>2 DEF MapFollows
  <2>2. table' = table \/ table' = table \cup {Row(w)}
    BY DEF InsertRow
  <2>3. \A r \in table' : r[1] \in DOMAIN users \/ (pc'[w] = "inserting" /\ name[w] = r[1])
    BY <1>2, <2>1, <2>2 DEF Control, Row
  <2>4. ~res'[w] => name[w] \in DOMAIN users
    BY <2>1 DEF InsertRow, Refused, Control
  <2>5. \A v \in Workers : pc'[v] = "inserting" => v = w
    BY <1>2 DEF Control
  <2>6. \A n \in DOMAIN users : <<n, users[n]>> \in table'
    BY <1>1 DEF MapFollows
  <2>. QED  BY <1>1, <2>3, <2>4, <2>5, <2>6 DEF MapFollows
<1>8. LoginSound'
  BY <1>1 DEF InsertRow, LoginSound, Row, Control
<1>. QED  BY <1>3, <1>4, <1>5, <1>6, <1>7, <1>8

(* users.insert: an entry that is there stays, and a new one is the row    *)
(* the worker has stored.                                                  *)
LEMMA InsertUserStep ==
    ASSUME Inv, NEW w \in Workers, InsertUser(w)
    PROVE  Inv'
<1>. USE DEF Inv, Goto, dbVars, reqVars
<1>1. /\ pc[w] = "inserting" /\ pc' = [pc EXCEPT ![w] = "answer"] /\ m_lock = w
      /\ name[w] \in Names /\ password[w] \in Passwords
      /\ \A v \in Workers : pc[v] = "inserting" => v = w
  BY DEF InsertUser, Control
<1>2. /\ DOMAIN users' = DOMAIN users \cup {name[w]}
      /\ \A n \in DOMAIN users : users'[n] = users[n]
      /\ name[w] \notin DOMAIN users => users'[name[w]] = password[w]
  BY DEF InsertUser
<1>3. TypeOK'
  <2>1. DOMAIN users' \subseteq Names /\ Range(users') \subseteq Passwords
    BY <1>1, <1>2 DEF TypeOK, Range
  <2>. QED  BY <2>1 DEF InsertUser, Unlock, TypeOK
<1>4. Control'
  BY <1>1, AccountsAssumption DEF InsertUser, Unlock, Control
<1>5. Stored' /\ OneRow' /\ LoginSound'
  BY <1>1 DEF InsertUser, Stored, OneRow, LoginSound, Row, Control
<1>6. MapFollows'
  <2>. SUFFICES ASSUME ~failed PROVE MapFollows'
    BY DEF InsertUser, MapFollows
  <2>1. UNCHANGED <<table, failed, name, res>>
    BY DEF InsertUser
  <2>2. \A r \in table : r[1] \in DOMAIN users'
    BY <1>1, <1>2 DEF MapFollows
  <2>3. name[w] \notin DOMAIN users => Row(w) \in table
    BY <1>1 DEF MapFollows, Stored, Control
  <2>4. \A n \in DOMAIN users' : <<n, users'[n]>> \in table
    BY <1>2, <2>3 DEF MapFollows, Row
  <2>5. \A v \in Workers : pc'[v] # "inserting"
    BY <1>1 DEF Control
  <2>. QED  BY <2>1, <2>2, <2>4, <2>5 DEF MapFollows
<1>. QED  BY <1>3, <1>4, <1>5, <1>6

(* A restart, also in the middle of a registration, reads the map anew.    *)
LEMMA RestartStep ==
    ASSUME Inv, Restart
    PROVE  Inv'
<1>. USE DEF Inv, dbVars
<1>1. /\ DOMAIN users' \subseteq Names /\ Range(users') \subseteq Passwords
      /\ \A r \in table : r[1] \in DOMAIN users'
      /\ \A n \in DOMAIN users' : <<n, users'[n]>> \in table
  BY LoadedProperties DEF Restart, TypeOK
<1>2. TypeOK'
  BY <1>1 DEF Restart, TypeOK
<1>3. Control' /\ Stored' /\ OneRow' /\ LoginSound'
  BY AccountsAssumption DEF Restart, Control, Stored, OneRow, LoginSound, Row
<1>4. MapFollows'
  BY <1>1 DEF Restart, MapFollows
<1>. QED  BY <1>2, <1>3, <1>4

(* Every step preserves the invariant. *)
LEMMA InvStep == Inv /\ [Next]_vars => Inv'
<1>. SUFFICES ASSUME Inv, [Next]_vars PROVE Inv'
  OBVIOUS
<1>1. CASE UNCHANGED vars
  BY <1>1 DEF vars, dbVars, reqVars, Inv, TypeOK, Control, Stored, OneRow, MapFollows,
              LoginSound, Row
<1>2. CASE Restart
  BY <1>2, RestartStep
<1>3. ASSUME NEW w \in Workers,
             Request(w, "register") \/ Request(w, "login") \/ RegisterStep(w) \/ Login(w)
      PROVE  Inv'
  BY <1>3, OtherSteps, InsertRowStep, InsertUserStep DEF RegisterStep
<1>. QED  BY <1>1, <1>2, <1>3 DEF Next

(* The invariant holds in every reachable state. *)
LEMMA Invariance == Spec => []Inv
  BY InvInit, InvStep, PTL DEF Spec

-----------------------------------------------------------------------------
(* What follows for the account check of do_request *)

(* The type invariant of the account check. *)
THEOREM AccountTypes == Spec => []TypeOK
<1>1. Inv => TypeOK  BY DEF Inv
<1>. QED  BY <1>1, Invariance, PTL

(* A registration answered with log.html is in the table, whatever races   *)
(* with it and wherever the server ends: res is only true after an INSERT  *)
(* that was carried out, and the row is still that of the worker's request.*)
THEOREM RegistrationDurable == Spec => []AckedIsDurable
<1>1. Inv => AckedIsDurable  BY DEF Inv, Stored, AckedIsDurable
<1>. QED  BY <1>1, Invariance, PTL

(* With unique usernames and without other failures, whoever was told that *)
(* a registration succeeded can log in: the map has the one row of the     *)
(* name whenever nobody is between the two writes.                         *)
THEOREM RegisteredCanLogin == Spec => []AckedCanLogin
<1>1. Inv => AckedCanLogin
  <2>. SUFFICES ASSUME Inv, unique, ~failed, NEW r \in acked, m_lock = Unlocked
                PROVE  r[1] \in DOMAIN users /\ users[r[1]] = r[2]
    BY DEF AckedCanLogin
  <2>1. r \in table /\ r \in Rows
    BY DEF Inv, Stored, TypeOK
  <2>2. r[1] \in DOMAIN users
    BY <2>1, AccountsAssumption DEF Inv, MapFollows, Control
  <2>3. <<r[1], users[r[1]]>> \in table
    BY <2>2 DEF Inv, MapFollows
  <2>4. <<r[1], users[r[1]]>> = r
    BY <2>1, <2>3 DEF Inv, OneRow
  <2>. QED  BY <2>2, <2>4
<1>. QED  BY <1>1, Invariance, PTL

(* Without other failures a login succeeds only with a row of the table,   *)
(* with and without unique usernames and although find runs unlocked.      *)
THEOREM LoginIsSound == Spec => []LoginSound
<1>1. Inv => LoginSound  BY DEF Inv
<1>. QED  BY <1>1, Invariance, PTL
=============================================================================
