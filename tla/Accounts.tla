------------------------------ MODULE Accounts ------------------------------
(***************************************************************************)
(* ocean_http/http/http_conn.cpp: the account check of do_request.  The    *)
(* map users, filled from the table when the server starts, answers every  *)
(* login; a registration writes to the table and to the map.  m_lock       *)
(* protects the two writes, but both find calls run without it.            *)
(*                                                                         *)
(* A find that runs while another thread inserts is a data race.  Such a   *)
(* find may miss a key that is there (inFlux); that it may also crash the  *)
(* process is the action Restart.                                          *)
(*                                                                         *)
(* The table belongs to MySQL.  The repository has no schema for it: Init  *)
(* chooses whether usernames are unique.  A query may also fail for        *)
(* another reason, after which failed stays TRUE.                          *)
(***************************************************************************)
EXTENDS LockWrappers, Functions

CONSTANTS Workers, Names, Passwords

ASSUME AccountsAssumption == Unlocked \notin Workers

VARIABLES table,    \* the rows <<name, password>> of the table user
          unique,   \* whether the table refuses a second row of a name
          failed,   \* a query has failed for another reason
          users, m_lock,
          pc, name, password, \* per worker: the request it handles
          res,      \* per worker: whether its INSERT succeeded
          reply,    \* per worker: the page of its last request
          acked     \* history: rows whose registration was answered log.html

dbVars == <<table, unique, failed>>
reqVars == <<name, password, res, reply>>
vars == <<dbVars, users, m_lock, pc, reqVars, acked>>

Rows == Names \X Passwords

(* initmysql_result: users[row] = password for every row the SELECT        *)
(* returns, in no order in particular: of two rows of a name either stays. *)
Loaded(rows) ==
    {u \in [{r[1] : r \in rows} -> Passwords] : \A n \in DOMAIN u : <<n, u[n]>> \in rows}

Init ==
    /\ table \in SUBSET Rows /\ unique \in BOOLEAN /\ failed = FALSE
    /\ unique => \A r, s \in table : r[1] = s[1] => r = s
    /\ users \in Loaded(table) /\ m_lock = Unlocked
    /\ pc = [w \in Workers |-> "idle"]
    /\ name \in [Workers -> {CHOOSE n \in Names : TRUE}]
    /\ password \in [Workers -> {CHOOSE p \in Passwords : TRUE}]
    /\ res = [w \in Workers |-> FALSE]
    /\ reply = [w \in Workers |-> "none"]
    /\ acked = {}

Goto(w, from, to) == pc[w] = from /\ pc' = [pc EXCEPT ![w] = to]

Answer(w, page) == reply' = [reply EXCEPT ![w] = page]

(* A thread is inside users.insert. *)
inFlux == \E w \in Workers : pc[w] = "inserting"

(* What users.find(n) != users.end() may say. *)
Finds(n) == {n \in DOMAIN users} \cup (IF inFlux THEN {FALSE} ELSE {})

(* The form of a POST: the name and the password, copied to locals. *)
Request(w, kind) ==
    /\ Goto(w, "idle", kind)
    /\ name' \in {[name EXCEPT ![w] = n] : n \in Names}
    /\ password' \in {[password EXCEPT ![w] = p] : p \in Passwords}
    /\ Answer(w, "none")
    /\ UNCHANGED <<dbVars, users, m_lock, res, acked>>

-----------------------------------------------------------------------------
(* Registration *)

NameTaken(w) ==
    /\ TRUE \in Finds(name[w])
    /\ Goto(w, "register", "idle") /\ Answer(w, "registerError.html")
    /\ UNCHANGED <<dbVars, users, m_lock, name, password, res, acked>>

NameFree(w) ==
    /\ FALSE \in Finds(name[w])
    /\ Goto(w, "register", "lock")
    /\ UNCHANGED <<dbVars, users, m_lock, reqVars, acked>>

RegisterLock(w) ==
    /\ Goto(w, "lock", "query")
    /\ Lock(m_lock, m_lock', w)
    /\ UNCHANGED <<dbVars, users, reqVars, acked>>

Row(w) == <<name[w], password[w]>>
Refused(w) == unique /\ \E r \in table : r[1] = name[w]

(* mysql_query(INSERT): done, refused, or failed; the answer to a query    *)
(* that was carried out may be lost.                                       *)
InsertRow(w) ==
    /\ Goto(w, "query", "inserting")
    /\ \/ /\ ~Refused(w)
          /\ table' = table \cup {Row(w)}
          /\ res' = [res EXCEPT ![w] = TRUE]
          /\ UNCHANGED failed
       \/ /\ res' = [res EXCEPT ![w] = FALSE]
          /\ failed' = (failed \/ ~Refused(w))
          /\ table' \in IF Refused(w) THEN {table} ELSE {table, table \cup {Row(w)}}
    /\ UNCHANGED <<unique, users, m_lock, name, password, reply, acked>>

(* Mutant: users[name] = password, which replaces an older entry. *)
InsertUser_assign(w) ==
    /\ Goto(w, "inserting", "answer")
    /\ users' = [n \in DOMAIN users \cup {name[w]} |-> IF n = name[w] THEN password[w] ELSE users[n]]
    /\ Unlock(m_lock, m_lock')
    /\ UNCHANGED <<dbVars, reqVars, acked>>

(* users.insert, which keeps an entry that is there, whatever the INSERT   *)
(* returned.                                                               *)
InsertUser(w) ==
    /\ Goto(w, "inserting", "answer")
    /\ users' = [n \in DOMAIN users \cup {name[w]} |->
                   IF n \in DOMAIN users THEN users[n] ELSE password[w]]
    /\ Unlock(m_lock, m_lock')
    /\ UNCHANGED <<dbVars, reqVars, acked>>

(* Mutant: the result of the INSERT is not looked at. *)
RegisterAnswer_always(w) ==
    /\ Goto(w, "answer", "idle")
    /\ Answer(w, "log.html") /\ acked' = acked \cup {Row(w)}
    /\ UNCHANGED <<dbVars, users, m_lock, name, password, res>>

RegisterAnswer(w) ==
    /\ Goto(w, "answer", "idle")
    /\ IF res[w] THEN Answer(w, "log.html") /\ acked' = acked \cup {Row(w)}
       ELSE Answer(w, "registerError.html") /\ UNCHANGED acked
    /\ UNCHANGED <<dbVars, users, m_lock, name, password, res>>

-----------------------------------------------------------------------------
(* Login: find, then the password. *)

(* Mutant: only the name is looked up. *)
Login_name_only(w) ==
    /\ Goto(w, "login", "idle")
    /\ \E found \in Finds(name[w]) :
         Answer(w, IF found THEN "welcome.html" ELSE "logError.html")
    /\ UNCHANGED <<dbVars, users, m_lock, name, password, res, acked>>

Login(w) ==
    /\ Goto(w, "login", "idle")
    /\ \E found \in Finds(name[w]) :
         Answer(w, IF found /\ users[name[w]] = password[w] THEN "welcome.html" ELSE "logError.html")
    /\ UNCHANGED <<dbVars, users, m_lock, name, password, res, acked>>

-----------------------------------------------------------------------------
(* The process ends at any point and is started again: the table stays,    *)
(* initmysql_result fills the map anew.                                    *)
Restart ==
    /\ users' \in Loaded(table) /\ m_lock' = Unlocked
    /\ pc' = [w \in Workers |-> "idle"] /\ reply' = [w \in Workers |-> "none"]
    /\ UNCHANGED <<dbVars, name, password, res, acked>>

-----------------------------------------------------------------------------
RegisterStep(w) ==
    NameTaken(w) \/ NameFree(w) \/ RegisterLock(w) \/ InsertRow(w) \/ InsertUser(w)
    \/ RegisterAnswer(w)

Next == Restart \/ (\E w \in Workers : Request(w, "register") \/ Request(w, "login")
                                        \/ RegisterStep(w) \/ Login(w))

Spec == Init /\ [][Next]_vars

-----------------------------------------------------------------------------
TypeOK ==
    /\ table \subseteq Rows /\ acked \subseteq Rows
    /\ DOMAIN users \subseteq Names /\ Range(users) \subseteq Passwords
    /\ m_lock \in Workers \cup {Unlocked}
    /\ reply \in [Workers -> {"none", "log.html", "registerError.html", "welcome.html", "logError.html"}]

(* A registration that was answered with the login page is in the table,   *)
(* and so survives the server.                                             *)
AckedIsDurable == acked \subseteq table

(* As long as queries fail only for a username that is taken, whoever was  *)
(* told that a registration succeeded can log in with its password, also   *)
(* after a restart and whatever registrations raced with it.               *)
AckedCanLogin ==
    unique /\ ~failed =>
        \A r \in acked : m_lock = Unlocked => r[1] \in DOMAIN users /\ users[r[1]] = r[2]

(* As long as queries fail only for a username that is taken, a login      *)
(* succeeds only with a row of the table.                                  *)
LoginSound ==
    ~failed => \A w \in Workers : reply[w] = "welcome.html" => Row(w) \in table
=============================================================================
