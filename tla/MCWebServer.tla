---------------------------- MODULE MCWebServer ----------------------------
EXTENDS WebServer, TLC

(* Clients, workers and timer addresses are interchangeable: only safety   *)
(* runs use this.                                                          *)
Symmetric == Permutations(Clients) \cup Permutations(Workers) \cup Permutations(Timers)

Config(actormodel, pool, limit, connPool) ==
    [m_actormodel |-> actormodel, m_actor_model |-> pool, m_max_requests |-> limit,
     m_connPool |-> connPool]

(* Proactor with a queue that rejects at times; reactor as intended; the   *)
(* two reactor servers whose event loop gets stuck; and a server whose     *)
(* first request ends it.                                                  *)
Proactor     == Config(0, 0, 1, "pool")
Reactor      == Config(1, 1, 2, "pool")
AllConfigs   == {Proactor, Reactor, Config(1, 0, 2, "pool"), Config(1, 1, 0, "pool"),
                 Config(1, 1, 2, "wild")}
OnlyProactor == {Proactor}
=============================================================================
