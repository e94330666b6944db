----------------------------- MODULE MCDbProxy -----------------------------
EXTENDS DbProxy

SignIn(n, u)       == [op |-> "AuthAndSaveSession", n |-> n, user |-> u]
Private(n, s, r, t) == [op |-> "SavePrivateMsg", n |-> n, sender |-> s, receiver |-> r, time |-> t]
Group(n, s, us, t) == [op |-> "SaveGroupMsg", n |-> n, sender |-> s, users |-> us, time |-> t]
Ask(op, u)         == [op |-> op, user |-> u]
Sessions(us)       == [op |-> "GetSessions", users |-> us]

(* Two sign-ins, a clear and a query of one user; a query that aborts.     *)
(* Messages of one user, sent again with the same time or followed by a    *)
(* newer one, with the queries of a sender.  The reads, competing for the  *)
(* pool.                                                                   *)
AllWorkloads == {
    {SignIn(1, "u"), SignIn(2, "u"), Ask("ClearSession", "u"), Sessions(<<"u">>)},
    {SignIn(1, "u"), SignIn(2, "v"), Sessions(<<"u">>), Sessions(<<"u", "v">>)},
    {Private(1, "u", "v", 1), Private(2, "u", "v", 1), Ask("GetUserLastSendData", "u"), Sessions(<<>>)},
    {Private(1, "u", "v", 1), Group(2, "u", <<"u", "w">>, 2), Ask("GetUserLastSendData", "u"), Ask("GetMsgs", "v")},
    {Group(1, "u", <<"v", "u", "v", "w">>, 1), Group(2, "u", <<>>, 2), Private(3, "u", "u", 3),
     Ask("GetUserLastSendData", "u")},
    {[op |-> "SetUserLastSendData", user |-> "u", time |-> 2], Private(1, "u", "v", 1),
     Ask("GetUserLastSendData", "u"), Ask("Test", "u")},
    {Ask("GetFriends", "u"), Ask("GetGroups", "u"), Ask("GetGroupMembers", "u"), Ask("GetMsgs", "u")}}
=============================================================================
