------------------------------- MODULE DbProxy -------------------------------
(***************************************************************************)
(* ocean_im/oceanim/server/dbproxy: the RPC service in front of Redis (the *)
(* sessions, and a record of each user's last message) and MySQL (one row  *)
(* of the table messages for every user who has a copy of a message).      *)
(*                                                                         *)
(* Each request is handled by a thread of its own, from Call to its        *)
(* answer.  The steps are the calls that leave the process: leasing a      *)
(* session of the soci pool, a statement, a Redis command.                 *)
(*                                                                         *)
(* Redis and MySQL are external.  All commands share one connection (the   *)
(* default of brpc for Redis), so Redis executes them in the order they    *)
(* were sent, also those whose caller has given up after redis_timeout_ms; *)
(* a command is sent again when Redis closes the connection.  Redis may    *)
(* answer any command with an error (out of memory, read-only) and leave   *)
(* everything as it was.  What a process that ended has sent can still be  *)
(* executed, also after a restart.  A statement can fail without a trace   *)
(* or after its row was committed.                                         *)
(***************************************************************************)
EXTENDS Integers, SequencesExt

CONSTANTS Workloads,  \* sets of requests; the callers send one of the sets
          PoolSize,   \* kConnectNumEachDb
          None        \* no session, no cached record, no answer

Int32Max == 2147483647
Int32 == (-Int32Max - 1)..Int32Max

ASSUME ProxyAssumption ==
    /\ PoolSize \in Nat \ {0} /\ None \notin UNION Workloads
    \* messages.proto: a time is an int32, users are repeated fields
    /\ \A r \in UNION Workloads :
        /\ r.op \in {"SavePrivateMsg", "SaveGroupMsg"} => r.time \in Int32
        /\ r.op \in {"SaveGroupMsg", "GetSessions"} => r.users \in Seq(ToSet(r.users))

VARIABLES requests,  \* the chosen workload
          pc,        \* where each request's handler is
          done,      \* statements of a save that were executed
          reply,     \* what a request was answered
          pool,      \* free sessions of db_message_connect_pool_
          messages,  \* the table: <<user_id, the save that wrote the row>>
          sessions,  \* Redis, the keys {id}a: the sign-in whose address is stored
          lastSend,  \* Redis, the keys {id}u: a client_time
          wire,      \* commands sent and not yet executed by Redis
          stray,     \* what is left of the connections of ended processes
          up,        \* the process runs
          seen,      \* history: per request, what its answer has to respect
          gone       \* history: sign-ins that were replaced or cleared in Redis, with an answer

stores == <<messages, sessions, lastSend>>
vars == <<requests, pc, done, reply, pool, stores, wire, stray, up, seen, gone>>

(* The address a sign-in stores is represented by the sign-in itself. *)
IsSave(r) == r.op \in {"SavePrivateMsg", "SaveGroupMsg"}
SignIns(u) == {s \in requests : s.op = "AuthAndSaveSession" /\ s.user = u}
Users == UNION {CASE r.op = "SavePrivateMsg" -> {r.sender, r.receiver}
                  [] r.op \in {"SaveGroupMsg", "GetSessions"} -> ToSet(r.users)
                  [] OTHER -> {r.user} : r \in UNION Workloads}

Init ==
    /\ requests \in Workloads
    /\ pc = [r \in requests |-> "new"] /\ done = [r \in requests |-> 0]
    /\ reply = [r \in requests |-> None] /\ seen = [r \in requests |-> {}]
    /\ pool = PoolSize /\ up = TRUE /\ wire = <<>> /\ stray = {} /\ gone = {}
    /\ messages = {} /\ sessions = [u \in Users |-> None] /\ lastSend = [u \in Users |-> None]

-----------------------------------------------------------------------------
(* What the handlers send. *)

(* Mutant: the users are spread over databases. *)
ChooseDatabaseOf(u) == u

(* Every user's messages are in the same pool. *)
ChooseDatabase(u) == "db_message_connect_pool_"

(* The statements of SavePrivateMsg, each with the users whose row it      *)
(* inserts.                                                                *)
PrivateInserts(r) ==
    IF ChooseDatabase(r.sender) = ChooseDatabase(r.receiver)
    THEN << {r.sender, r.receiver} >>
    ELSE << {r.sender}, {r.receiver} >>

(* SaveGroupMsg has one statement per entry of user_and_msgids. *)
GroupInserts(r) == [i \in DOMAIN r.users |-> {r.users[i]}]

Inserts(r) == IF r.op = "SavePrivateMsg" THEN PrivateInserts(r) ELSE GroupInserts(r)

(* The SELECTs of GetFriends and GetGroups run their words together and    *)
(* are always refused by MySQL.                                            *)
Malformed == {"GetFriends", "GetGroups"}

(* The rows SELECT finds for a user and a sender. *)
OwnTimes(u) == {row[2].time : row \in {x \in messages : x[1] = u /\ x[2].sender = u}}

(* The times of the saves of a sender of which anybody has a copy, where   *)
(* the sender's own copy is not stored after another's.                    *)
OwnFirst(r) == r.op = "SavePrivateMsg" \/ r.users[1] = r.sender
SentTimes(u) == {row[2].time : row \in {x \in messages : x[2].sender = u /\ OwnFirst(x[2])}}

Goto(r, from, to) == pc[r] = from /\ pc' = [pc EXCEPT ![r] = to]

(* The handler goes on to its next Redis command, which is sent at once,   *)
(* or to anything else.                                                    *)
Proceed(r, from, to) ==
    /\ Goto(r, from, to)
    /\ wire' = IF to = "redis" THEN Append(wire, r) ELSE wire

(* A sign-in or a clear that Redis carried out vouches for what it         *)
(* replaced.  (One that Redis refused is answered in the same way.)        *)
Vouched(r, refused) ==
    gone' = IF ~refused /\ r.op \in {"AuthAndSaveSession", "ClearSession"}
            THEN gone \cup seen[r] ELSE gone

(* A save after k of its statements. *)
AfterInserts(r, k) == IF k < Len(Inserts(r)) THEN "lease" ELSE "redis"

(* A request arrives.  What it has to respect is fixed here: for a sign-in *)
(* or a clear the sign-ins that have ended and left nothing stray, for     *)
(* GetSessions those that are gone, for GetUserLastSendData the messages   *)
(* that are stored.                                                        *)
Call(r) ==
    /\ up
    /\ Proceed(r, "new",
               CASE r.op = "Test" -> "ok"
                 [] IsSave(r) -> AfterInserts(r, 0)
                 [] r.op \in {"GetMsgs", "GetGroupMembers"} \cup Malformed -> "lease"
                 [] OTHER -> "redis")
    /\ seen' = [seen EXCEPT ![r] =
                  CASE r.op \in {"AuthAndSaveSession", "ClearSession"} ->
                            {s \in SignIns(r.user) \ stray : pc[s] \in {"ok", "failed"}}
                    [] r.op = "GetSessions" -> gone
                    [] r.op = "GetUserLastSendData" -> OwnTimes(r.user) \cup SentTimes(r.user)
                    [] OTHER -> {}]
    /\ UNCHANGED <<requests, done, reply, pool, stores, stray, up, gone>>

-----------------------------------------------------------------------------
(* MySQL.  soci::session takes a connection of the pool and waits for one  *)
(* without a limit; its destructor gives the connection back, also when    *)
(* the statement throws.                                                   *)
Lease(r) ==
    /\ pool > 0 /\ pool' = pool - 1
    /\ Goto(r, "lease", "sql")
    /\ UNCHANGED <<requests, done, reply, stores, wire, stray, up, seen, gone>>

Rows(r) == {<<u, r>> : u \in Inserts(r)[done[r] + 1]}

(* An INSERT of a save. *)
Insert(r) ==
    /\ IsSave(r)
    /\ Proceed(r, "sql", AfterInserts(r, done[r] + 1))
    /\ done' = [done EXCEPT ![r] = @ + 1]
    /\ messages' = messages \cup Rows(r)
    /\ pool' = pool + 1
    /\ UNCHANGED <<requests, reply, sessions, lastSend, stray, up, seen, gone>>

(* A SELECT was executed, the answer is complete. *)
Selected(r, answer) ==
    /\ Goto(r, "sql", "ok")
    /\ reply' = [reply EXCEPT ![r] = answer]
    /\ pool' = pool + 1
    /\ UNCHANGED <<requests, done, stores, wire, stray, up, seen, gone>>

GetMsgs(r) == r.op = "GetMsgs" /\ Selected(r, {row \in messages : row[1] = r.user})

(* The table group_members is only read. *)
GetGroupMembers(r) == r.op = "GetGroupMembers" /\ Selected(r, None)

(* Mutant: the condition on MAX(client_time) is dropped, so the first row  *)
(* found is reported.                                                      *)
SelectSomeSend(r) ==
    /\ r.op = "GetUserLastSendData"
    /\ \E t \in IF OwnTimes(r.user) = {} THEN {0} ELSE OwnTimes(r.user) : Selected(r, t)

(* The newest own message; no row leaves the zeros the locals start with,  *)
(* whatever is in the indicator that nothing has set.                      *)
SelectLastSend(r) ==
    /\ r.op = "GetUserLastSendData"
    /\ Selected(r, IF OwnTimes(r.user) = {} THEN 0 ELSE Max(OwnTimes(r.user)))

(* Mutant: the exception is swallowed and the save goes on. *)
SqlFailsOn(r) ==
    /\ IF IsSave(r)
       THEN /\ Proceed(r, "sql", AfterInserts(r, done[r] + 1))
            /\ done' = [done EXCEPT ![r] = @ + 1]
       ELSE Goto(r, "sql", "failed") /\ UNCHANGED <<done, wire>>
    /\ pool' = pool + 1
    /\ UNCHANGED <<requests, reply, stores, stray, up, seen, gone>>

(* Mutant: the connection is not given back after an error. *)
SqlFailsLeak(r) ==
    /\ Goto(r, "sql", "failed")
    /\ UNCHANGED <<requests, done, reply, pool, stores, wire, stray, up, seen, gone>>

(* The statement throws; the rows of an INSERT may be there nevertheless.  *)
(* The handler answers with an error and does not go on.                   *)
SqlFails(r) ==
    /\ Goto(r, "sql", "failed")
    /\ \/ UNCHANGED messages
       \/ IsSave(r) /\ messages' = messages \cup Rows(r)
    /\ pool' = pool + 1
    /\ UNCHANGED <<requests, done, reply, sessions, lastSend, wire, stray, up, seen, gone>>

-----------------------------------------------------------------------------
(* Redis *)

(* Mutant: the address is stored only when there is none. *)
SetIfNone(r) ==
    sessions' = [sessions EXCEPT ![r.user] = IF @ = None THEN r ELSE @]

SetSession(r) == sessions' = [sessions EXCEPT ![r.user] = r]

(* The script of SetUserLastSendData_ lacks a quote: Redis answers that it *)
(* does not compile, which is an answer like any other to the handler.     *)
Eval(u, time) == UNCHANGED lastSend

DelSession(r) == sessions' = [sessions EXCEPT ![r.user] = None]

(* The user whose record a request hands to the script. *)
RecordOf(r) == IF IsSave(r) THEN r.sender ELSE r.user

(* Redis executes a command. *)
Execute(r) ==
    /\ CASE r.op = "AuthAndSaveSession" -> SetSession(r)
         [] r.op = "ClearSession" -> DelSession(r)
         [] OTHER -> UNCHANGED sessions
    /\ IF IsSave(r) \/ r.op = "SetUserLastSendData" THEN Eval(RecordOf(r), r.time) ELSE UNCHANGED lastSend
    /\ UNCHANGED messages

(* GetUserLastSendData turns to MySQL when the reply is not a string. *)
AfterReply(r, refused) ==
    IF r.op = "GetUserLastSendData" /\ (refused \/ lastSend[r.user] = None) THEN "lease" ELSE "ok"

(* The keys of an MGET are not separated, so its reply has one element     *)
(* for any number of users; without a key, or refused, it is an error,     *)
(* and the size of an error is the length of its text.  Only for one user  *)
(* is the size the one CHECK_EQ expects.                                   *)
OneSession(r, refused) == Len(r.users) = 1 /\ ~refused

(* The handler goes on with the reply, whether or not it is an error. *)
Answered(r, refused) ==
    /\ Goto(r, "redis", AfterReply(r, refused))
    /\ Vouched(r, refused)
    /\ reply' = [reply EXCEPT ![r] =
                    CASE r.op = "GetSessions" ->
                            IF OneSession(r, refused) THEN sessions[r.users[1]] ELSE None
                      [] r.op = "GetUserLastSendData" /\ ~refused -> lastSend[r.user]
                      [] OTHER -> None]
    /\ UNCHANGED <<requests, done, pool, stray, up, seen>>

(* The process ends; handlers that had not answered never do.  Commands    *)
(* that were sent are left to Redis.                                       *)
Die(sent) ==
    /\ up /\ up' = FALSE
    /\ pc' = [r \in requests |-> IF pc[r] \in {"lease", "sql", "redis"} THEN "lost" ELSE pc[r]]
    /\ wire' = <<>> /\ stray' = stray \cup ToSet(sent)
    /\ UNCHANGED <<requests, done, reply, pool, seen, gone>>

(* Redis executes or refuses the oldest command.  The reply reaches the    *)
(* handler; or it fails CHECK_EQ, which ends the process unless brpc is    *)
(* told only to log; or it is lost with the connection and the command is  *)
(* sent again; or nobody waits for it any more.                            *)
RedisExecutes ==
    /\ wire # <<>>
    /\ LET r == Head(wire)
       IN  \E refused \in BOOLEAN :
           /\ IF refused THEN UNCHANGED stores ELSE Execute(r)
           /\ \/ Answered(r, refused) /\ wire' = Tail(wire)
              \/ /\ pc[r] = "redis" /\ r.op = "GetSessions" /\ ~OneSession(r, refused)
                 /\ Die(Tail(wire))
              \/ /\ pc[r] = "redis" /\ wire' = Append(Tail(wire), r)
                 /\ UNCHANGED <<requests, pc, done, reply, pool, stray, up, seen, gone>>
              \/ /\ pc[r] # "redis" /\ wire' = Tail(wire)
                 /\ UNCHANGED <<requests, pc, done, reply, pool, stray, up, seen, gone>>

(* A command of an ended process is executed after all, in any order, or   *)
(* dropped with its connection.                                            *)
RedisReadsStray ==
    /\ \E r \in stray : /\ stray' = stray \ {r}
                        /\ Execute(r) \/ UNCHANGED stores
    /\ UNCHANGED <<requests, pc, done, reply, pool, wire, up, seen, gone>>

(* Redis closes the connection before it has read the command.  (A request *)
(* has at most one command on the wire.)                                   *)
Resend(r) ==
    /\ \E i \in DOMAIN wire :
        /\ wire[i] = r
        /\ wire' = IF pc[r] = "redis" THEN Append(RemoveAt(wire, i), r) ELSE RemoveAt(wire, i)
    /\ UNCHANGED <<requests, pc, done, reply, pool, stores, stray, up, seen, gone>>

(* cntl.Failed(): no reply in time, or no retry left. *)
RedisFails(r) ==
    /\ Goto(r, "redis", "failed")
    /\ UNCHANGED <<requests, done, reply, pool, stores, wire, stray, up, seen, gone>>

(* EX 3600. *)
Expire(u) ==
    /\ sessions[u] # None
    /\ sessions' = [sessions EXCEPT ![u] = None]
    /\ UNCHANGED <<requests, pc, done, reply, pool, messages, lastSend, wire, stray, up, seen, gone>>

Crash == Die(wire) /\ UNCHANGED stores

(* The constructor opens all sessions and a new connection. *)
Restart ==
    /\ ~up
    /\ up' = TRUE /\ pool' = PoolSize
    /\ UNCHANGED <<requests, pc, done, reply, stores, wire, stray, seen, gone>>

-----------------------------------------------------------------------------
Step(r) == up /\ (\/ Lease(r) \/ Insert(r) \/ SqlFails(r) \/ RedisFails(r)
                  \/ GetMsgs(r) \/ GetGroupMembers(r) \/ SelectLastSend(r))

Next ==
    \/ \E r \in requests : Call(r) \/ Step(r) \/ Resend(r)
    \/ \E u \in Users : Expire(u)
    \/ RedisExecutes \/ RedisReadsStray \/ Crash \/ Restart

Spec == Init /\ [][Next]_vars

(* Some handler goes on: threads are scheduled, MySQL ends a statement     *)
(* with a result or an error, and redis_timeout_ms ends the wait for       *)
(* Redis.  (No handler is promised more: a lease is not first come, first  *)
(* served.)                                                                *)
FairSpec == Spec /\ WF_vars(\E r \in requests : Step(r))

-----------------------------------------------------------------------------
(* Properties *)

Stored(u, r) == <<u, r>> \in messages

(* The copies of a message are never torn further than the code intends:   *)
(* of a private message both users have their row or neither has           *)
(* (SavePrivateMsg), and a group message is stored for the members up to   *)
(* some place in the list and for none behind it, unless the list repeats  *)
(* somebody (SaveGroupMsg), with failing statements and crashes anywhere.  *)
StoredInOrder ==
    \A r \in requests :
        /\ r.op = "SavePrivateMsg" => (Stored(r.sender, r) <=> Stored(r.receiver, r))
        /\ r.op = "SaveGroupMsg" => \E k \in 0..Len(r.users) : \A u \in ToSet(r.users) :
                Stored(u, r) <=> \E i \in 1..k : u = r.users[i]

(* A save that is answered without an error is in the table for everybody, *)
(* whatever failed at other requests (the catch blocks of the saves).      *)
AckedIsStored ==
    \A r \in requests : IsSave(r) /\ pc[r] = "ok" =>
        \A u \in UNION ToSet(Inserts(r)) : Stored(u, r)

(* messages.proto:18: the record of the last message is there to make      *)
(* sending idempotent.  GetUserLastSendData reports the time of a message  *)
(* of the user that is stored, and none older than any message of the user *)
(* that anybody had a copy of when it was called, even if the save was     *)
(* reported as failed or was lost in a crash: who asks before sending a    *)
(* message again does not store a private message twice, nor a group       *)
(* message whose list begins with the sender.  (With the sender further    *)
(* down the list of SaveGroupMsg nothing is promised: a save cut short     *)
(* before the sender's row is not reported.  Nor is the record in Redis    *)
(* covered: its script never stores one.)                                  *)
LastSendTruthful ==
    \A r \in requests : r.op = "GetUserLastSendData" /\ pc[r] = "ok" =>
        /\ reply[r] \in OwnTimes(r.user) \cup {0}
        /\ \A t \in seen[r] : t <= reply[r]

(* GetSessions never reports an address from before a newer sign-in or     *)
(* clear that Redis carried out and that was acknowledged: a sign-in that  *)
(* ended, even with a timeout, before AuthAndSaveSession or ClearSession   *)
(* of the same user was called, is not seen by a GetSessions called after  *)
(* that was acknowledged, with commands sent again, refused, and left over *)
(* from a process that crashed.  (A refused SET or DEL is acknowledged     *)
(* all the same, because the handlers look at cntl.Failed() alone; it      *)
(* replaces nothing, and nothing is promised for it.)                      *)
SessionsFresh ==
    \A r \in requests : r.op = "GetSessions" /\ pc[r] = "ok" => reply[r] \notin seen[r]

(* Every call is answered, with more calls than sessions in the pool and   *)
(* whatever MySQL and Redis do, unless the process ends: again and again   *)
(* no handler is under way.                                                *)
CallAnswered == []<>(\A r \in requests : pc[r] \in {"new", "ok", "failed", "lost"})
=============================================================================
