----------------------------- MODULE MCHttpConn -----------------------------
(* Streams for the model checker: requests with and without a body, one    *)
(* followed by the start of another, bodies with line ends and with what   *)
(* looks like a header, a negative length and one beyond the buffer,       *)
(* streams that fill the buffer exactly, one that overruns it, and         *)
(* malformed ones.                                                         *)
EXTENDS HttpConn

Ends(text) == <<text, CR, LF>>

Post(length, body) == Ends("POST /3") \o Ends(length) \o <<CR, LF>> \o body

Get == Ends("GET /") \o Ends("Connection: keep-alive") \o <<CR, LF>>

AllStreams ==
    { Get,
      Get \o <<"GET /5", CR>>,
      Get \o <<"GET /5", CR, LF, "Host: h", CR, LF, CR, LF>>,
      Ends("GET /0") \o Ends(KeepAlive) \o Ends("Host: h") \o <<CR, LF>>,
      Post("Content-length: 0", <<>>),
      Post("Content-length: 1", <<"a">>),
      Post("Content-length: 2", <<"a", "b">>),
      Post("Content-length: 2", <<"a", "b", "c", "d", "e", "f", "g", "h">>),
      Post("Content-length: 2", <<"a", "b", "c", "d", "e", "f", "g", "h", "i", "j">>),
      Ends("POST /2") \o Ends("Content-length: 1") \o Ends("Content-length: 2") \o <<CR, LF, "a", "b", "c", "d">>,
      Post("Content-length: 4", <<"a", CR, LF, "b", "c", "d", "e", "f">>),
      Post("Content-length: 4", <<KeepAlive, CR, LF, "Content-length: 1", "b", "c", "d", "e">>),
      Post("Content-length: -1", <<"a", "b">>),
      Post("Content-length: 99", <<"a", "b", "c", "d", "e", "f", "g", "h">>),
      Ends("PUT /") \o <<CR, LF>>,
      <<"GET /", LF, CR, LF>>,
      <<"GET /", CR, "Host: h", CR, LF, CR, LF>> }

(* Built as CMakeLists.txt says (no optimisation), the missing return of   *)
(* parse_content yields the sum it has just computed, which is above the   *)
(* value of GET_REQUEST.                                                   *)
FallsThrough == {"OTHER"}
=============================================================================
