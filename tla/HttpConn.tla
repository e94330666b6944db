------------------------------ MODULE HttpConn ------------------------------
(***************************************************************************)
(* ocean_http/http/http_conn.cpp: one connection, from the bytes a client  *)
(* sends to the response process_write prepares.  read_once fills the      *)
(* buffer in the chunks the network delivers; process_read is the two      *)
(* level state machine (parse_line below, the CHECK_STATEs above) and      *)
(* keeps its position in the buffer from one chunk to the next.            *)
(*                                                                         *)
(* The unit of the stream is a symbol: CR, LF, the text of one line, or    *)
(* one byte of a body.  A chunk may end between any two symbols.  Buffer   *)
(* positions count from 0, as in the code.                                 *)
(*                                                                         *)
(* write() is an empty function and nothing else re-arms EPOLLIN after a   *)
(* response, so a connection answers once.                                 *)
(***************************************************************************)
EXTENDS Integers, SequencesExt

CONSTANTS Streams,           \* the symbol sequences a client may send
          READ_BUFFER_SIZE,
          FallOff            \* what parse_content returns at its missing return

CR == "CR"
LF == "LF"
NUL == "NUL"

(* What parse_request_line finds in each request line it accepts.  The     *)
(* url / has become /judge.html.  Every other text is a BAD_REQUEST.       *)
RequestLine ==
    "GET /" :> [cgi |-> 0, m_url |-> "/judge.html"] @@
    "GET /0" :> [cgi |-> 0, m_url |-> "/0"] @@
    "GET /5" :> [cgi |-> 0, m_url |-> "/5"] @@
    "POST /2" :> [cgi |-> 1, m_url |-> "/2"] @@
    "POST /3" :> [cgi |-> 1, m_url |-> "/3"]

(* atol of the Content-length headers, one of them longer than the buffer. *)
(* Lengths below -1, for which parse_content may write in front of the     *)
(* buffer, and lengths with which its sum overflows are left out.          *)
ContentLength ==
    "Content-length: -1" :> -1 @@ "Content-length: 0" :> 0 @@ "Content-length: 1" :> 1 @@
    "Content-length: 2" :> 2 @@ "Content-length: 4" :> 4 @@ "Content-length: 99" :> 99

KeepAlive == "Connection: keep-alive"

ASSUME HttpConnAssumption ==
    /\ READ_BUFFER_SIZE \in Nat \ {0}
    /\ FallOff \subseteq {"GET_REQUEST", "OTHER"} /\ FallOff # {}

VARIABLES stream,      \* what the client sends in all
          arrived,     \* how many symbols of it the socket holds or gave
          fin,         \* the client has shut its side down
          m_TRIGMode,  \* 0: level triggered, 1: edge triggered
          m_read_buf, m_read_idx, m_checked_idx, m_start_line,
          m_check_state, m_content_length, m_linger, cgi, m_url,
          m_string,    \* where the body starts, or Stale: init() leaves it
          m_real_file, m_file_stat,
          line_status, \* the local of process_read
          short,       \* history: how often parse_content missed bytes of the body
          ret,         \* what process_read returned
          response,    \* what process_write put into m_write_buf and m_iv
          pc

netVars == <<stream, arrived, fin, m_TRIGMode>>
bufVars == <<m_read_buf, m_read_idx, m_checked_idx, m_start_line>>
reqVars == <<m_check_state, m_content_length, m_linger, cgi, m_url, m_string>>
fileVars == <<m_real_file, m_file_stat>>
vars == <<netVars, bufVars, reqVars, fileVars, line_status, short, ret, response, pc>>

Stale == -1
NoResponse == [status |-> 0, keep_alive |-> FALSE, iov |-> <<>>]

(* http_conn::init for a fresh connection. *)
Init ==
    /\ stream \in Streams /\ arrived = 0 /\ fin = FALSE
    /\ m_TRIGMode \in {0, 1}
    /\ m_read_buf = [i \in 0..READ_BUFFER_SIZE - 1 |-> NUL]
    /\ m_read_idx = 0 /\ m_checked_idx = 0 /\ m_start_line = 0
    /\ m_check_state = "REQUESTLINE" /\ m_content_length = 0
    /\ m_linger = FALSE /\ cgi = 0 /\ m_url = NUL /\ m_string = Stale
    /\ m_real_file = NUL /\ m_file_stat = "none"
    /\ line_status = "LINE_OK" /\ short = 0 /\ ret = "NO_REQUEST"
    /\ response = NoResponse /\ pc = "idle"

-----------------------------------------------------------------------------
(* The client and the network. *)

Arrive ==
    /\ ~fin
    /\ arrived' \in arrived + 1..Len(stream)
    /\ UNCHANGED <<stream, fin, m_TRIGMode, bufVars, reqVars, fileVars, line_status, short, ret, response, pc>>

ClientShutdown ==
    /\ ~fin /\ fin' = TRUE
    /\ UNCHANGED <<stream, arrived, m_TRIGMode, bufVars, reqVars, fileVars, line_status, short, ret, response, pc>>

-----------------------------------------------------------------------------
(* read_once, called when the socket is readable. *)

Readable == pc = "idle" /\ (arrived > m_read_idx \/ fin)

(* What recv can hand over: the socket's bytes, up to the room left. *)
Received == Min({arrived, READ_BUFFER_SIZE}) - m_read_idx

(* The call ends with false: the buffer was full on entry, recv returned   *)
(* 0, or, edge triggered, the loop met recv's 0 after some bytes: the end  *)
(* of the stream, or no room left.                                         *)
ReadOnceFails ==
    \/ m_read_idx >= READ_BUFFER_SIZE
    \/ m_TRIGMode = 0 /\ Received = 0
    \/ m_TRIGMode = 1 /\ (fin \/ m_read_idx + Received = READ_BUFFER_SIZE)

(* read_once is true: process_read starts, with line_status = LINE_OK. *)
ReadOnce ==
    /\ Readable /\ ~ReadOnceFails
    /\ m_read_buf' = [i \in DOMAIN m_read_buf |->
                        IF i \in m_read_idx..m_read_idx + Received - 1
                        THEN stream[i + 1] ELSE m_read_buf[i]]
    /\ m_read_idx' = m_read_idx + Received
    /\ line_status' = "LINE_OK" /\ pc' = "parse"
    /\ UNCHANGED <<netVars, m_checked_idx, m_start_line, reqVars, fileVars, short, ret, response>>

(* read_once is false: the server closes the connection.  What the call    *)
(* left in the buffer is wiped by init() before the object is used again.  *)
ReadClose ==
    /\ Readable /\ ReadOnceFails
    /\ pc' = "closed"
    /\ UNCHANGED <<netVars, bufVars, reqVars, fileVars, line_status, short, ret, response>>

(* recv fails with an error other than EAGAIN. *)
RecvError ==
    /\ Readable /\ m_read_idx < READ_BUFFER_SIZE
    /\ ret' = "RECV_ERROR" /\ pc' = "closed"
    /\ UNCHANGED <<netVars, bufVars, reqVars, fileVars, line_status, short, response>>

-----------------------------------------------------------------------------
(* parse_line: the status it returns, where it leaves m_checked_idx, and   *)
(* the positions it overwrites with NUL.                                   *)

LineResult(s, checked, zeroed) == [status |-> s, checked |-> checked, zeroed |-> zeroed]

(* The first line end at or after m_checked_idx, or m_read_idx. *)
Stop == Min({i \in m_checked_idx..m_read_idx :
               i = m_read_idx \/ m_read_buf[i] \in {CR, LF}})

(* Mutant: a CR that ends the chunk is passed over, and the LF that comes  *)
(* with the next one is not matched with it.                               *)
parse_line_forgets_cr ==
    IF Stop = m_read_idx THEN LineResult("LINE_OPEN", Stop, {})
    ELSE IF m_read_buf[Stop] = CR /\ Stop + 1 = m_read_idx THEN LineResult("LINE_OPEN", Stop + 1, {})
    ELSE IF m_read_buf[Stop] = CR /\ m_read_buf[Stop + 1] = LF
         THEN LineResult("LINE_OK", Stop + 2, {Stop, Stop + 1})
    ELSE LineResult("LINE_BAD", Stop, {})

parse_line ==
    CASE Stop = m_read_idx -> LineResult("LINE_OPEN", Stop, {})
      [] Stop < m_read_idx /\ m_read_buf[Stop] = CR ->
            IF Stop + 1 = m_read_idx THEN LineResult("LINE_OPEN", Stop, {})
            ELSE IF m_read_buf[Stop + 1] = LF THEN LineResult("LINE_OK", Stop + 2, {Stop, Stop + 1})
            ELSE LineResult("LINE_BAD", Stop, {})
      [] OTHER ->
            IF Stop > 1 /\ m_read_buf[Stop - 1] = CR
            THEN LineResult("LINE_OK", Stop + 1, {Stop - 1, Stop})
            ELSE LineResult("LINE_BAD", Stop, {})

-----------------------------------------------------------------------------
(* process_read, one iteration of its loop at a time. *)

(* The loop condition: in CHECK_STATE_CONTENT with line_status still       *)
(* LINE_OK, parse_line is not called.                                      *)
Line == IF m_check_state = "CONTENT" /\ line_status = "LINE_OK"
        THEN LineResult("LINE_OK", m_checked_idx, {})
        ELSE parse_line

(* get_line: where the text starts, and its first symbol. *)
Text == IF m_start_line \in Line.zeroed THEN NUL ELSE m_read_buf[m_start_line]

(* A line was found: NULs written, m_start_line = m_checked_idx.  Its      *)
(* handler may write further NULs.                                         *)
TakeLine(zeroed) ==
    /\ pc = "parse" /\ Line.status = "LINE_OK"
    /\ m_read_buf' = [i \in DOMAIN m_read_buf |->
                        IF i \in Line.zeroed \cup zeroed THEN NUL ELSE m_read_buf[i]]
    /\ m_checked_idx' = Line.checked /\ m_start_line' = Line.checked
    /\ UNCHANGED <<netVars, m_read_idx, fileVars, response>>

(* No complete line: NO_REQUEST, and process re-arms EPOLLIN.  A malformed *)
(* line end (LINE_BAD) is treated alike.                                   *)
NoLine ==
    /\ pc = "parse" /\ Line.status # "LINE_OK"
    /\ m_checked_idx' = Line.checked /\ line_status' = Line.status
    /\ pc' = "idle"
    /\ UNCHANGED <<netVars, m_read_buf, m_read_idx, m_start_line, reqVars, fileVars, short, ret, response>>

BadRequestLine ==
    /\ m_check_state = "REQUESTLINE" /\ TakeLine({})
    /\ Text \notin DOMAIN RequestLine
    /\ ret' = "BAD_REQUEST" /\ pc' = "write"
    /\ UNCHANGED <<reqVars, line_status, short>>

parse_request_line ==
    /\ m_check_state = "REQUESTLINE" /\ TakeLine({})
    /\ Text \in DOMAIN RequestLine
    /\ cgi' = RequestLine[Text].cgi /\ m_url' = RequestLine[Text].m_url
    /\ m_check_state' = "HEADER" /\ line_status' = "LINE_OK"
    /\ UNCHANGED <<m_content_length, m_linger, m_string, short, ret, pc>>

(* Mutant: a header that says nothing of the connection resets m_linger. *)
HeaderResetsLinger ==
    /\ m_check_state = "HEADER" /\ TakeLine({})
    /\ Text # NUL
    /\ m_content_length' = IF Text \in DOMAIN ContentLength THEN ContentLength[Text] ELSE m_content_length
    /\ m_linger' = (Text = KeepAlive)
    /\ line_status' = "LINE_OK"
    /\ UNCHANGED <<m_check_state, cgi, m_url, m_string, short, ret, pc>>

(* parse_headers on a header.  The ones it does not know change nothing;   *)
(* Host is one of them: its name is compared over five characters.         *)
Header ==
    /\ m_check_state = "HEADER" /\ TakeLine({})
    /\ Text # NUL
    /\ m_content_length' = IF Text \in DOMAIN ContentLength THEN ContentLength[Text] ELSE m_content_length
    /\ m_linger' = (m_linger \/ Text = KeepAlive)
    /\ line_status' = "LINE_OK"
    /\ UNCHANGED <<m_check_state, cgi, m_url, m_string, short, ret, pc>>

(* parse_headers on the blank line. *)
BlankLine ==
    /\ m_check_state = "HEADER" /\ TakeLine({})
    /\ Text = NUL
    /\ IF m_content_length # 0
       THEN m_check_state' = "CONTENT" /\ UNCHANGED pc
       ELSE UNCHANGED m_check_state /\ pc' = "do_request"
    /\ line_status' = "LINE_OK"
    /\ UNCHANGED <<m_content_length, m_linger, cgi, m_url, m_string, short, ret>>

(* Mutant: the received bytes are compared with the length alone. *)
BodyComplete_no_offset == m_read_idx >= m_content_length

BodyComplete == m_read_idx >= m_content_length + Line.checked

(* Mutant: the body is taken to be the last bytes received. *)
parse_content_last_bytes ==
    /\ m_check_state = "CONTENT" /\ TakeLine({})
    /\ BodyComplete
    /\ m_string' = m_read_idx - m_content_length /\ pc' = "do_request"
    /\ UNCHANGED <<line_status, short, m_check_state, m_content_length, m_linger, cgi, m_url, ret>>

(* parse_content.  The body starts where get_line pointed, at m_start_line *)
(* before this line was taken, and a NUL is written behind its announced   *)
(* length.  (Behind a full buffer that byte is padding or the low byte of  *)
(* m_read_idx, which is 0 then.)  Without the whole body the function ends *)
(* without a return statement; process_read then compares whatever it got  *)
(* with GET_REQUEST.                                                       *)
parse_content ==
    /\ m_check_state = "CONTENT"
    /\ \/ /\ BodyComplete /\ TakeLine({m_start_line + m_content_length})
          /\ m_string' = m_start_line /\ pc' = "do_request"
          /\ UNCHANGED <<line_status, short>>
       \/ /\ ~BodyComplete /\ TakeLine({})
          /\ short' = short + 1
          /\ \E result \in FallOff :
                IF result = "GET_REQUEST" THEN pc' = "do_request" /\ UNCHANGED line_status
                ELSE line_status' = "LINE_OPEN" /\ UNCHANGED pc
          /\ UNCHANGED m_string
    /\ UNCHANGED <<m_check_state, m_content_length, m_linger, cgi, m_url, ret>>

-----------------------------------------------------------------------------
(* do_request *)

(* The page of a url whose last segment starts with a digit. *)
Page == "/0" :> "/register.html" @@ "/1" :> "/log.html" @@ "/5" :> "/picture.html" @@
        "/6" :> "/video.html" @@ "/7" :> "/fans.html"

(* The url after the account check of a POST: the module Accounts models   *)
(* how the answer comes about.                                             *)
Targets ==
    CASE cgi = 1 /\ m_url = "/2" -> {"/welcome.html", "/logError.html"}
      [] cgi = 1 /\ m_url = "/3" -> {"/log.html", "/registerError.html"}
      [] OTHER -> {m_url}

(* What stat says of m_real_file, and the code do_request returns. *)
FileCode ==
    "missing" :> "NO_RESOURCE" @@ "unreadable" :> "FORBIDDEN_REQUEST" @@
    "directory" :> "BAD_REQUEST" @@ "empty" :> "FILE_REQUEST" @@ "plain" :> "FILE_REQUEST"

(* do_request: the account check, the page, then stat (and mmap). *)
do_request ==
    /\ pc = "do_request"
    /\ \E url \in Targets, file \in DOMAIN FileCode :
         /\ m_url' = url
         /\ m_real_file' = IF url \in DOMAIN Page THEN Page[url] ELSE url
         /\ m_file_stat' = file
         /\ ret' = FileCode[file]
    /\ pc' = "write"
    /\ UNCHANGED <<netVars, bufVars, m_check_state, m_content_length, m_linger, cgi,
                   m_string, line_status, short, response>>

-----------------------------------------------------------------------------
(* process_write and the end of process.  A response is its status line,   *)
(* its Connection header and its buffers (m_iv); a file is the second one. *)
(* m_write_idx is 0 here and the longest head plus form is far below       *)
(* WRITE_BUFFER_SIZE, so no add_response fails.                            *)

Form == "INTERNAL_ERROR" :> [status |-> 500, form |-> "error_500_form"] @@
        "BAD_REQUEST" :> [status |-> 404, form |-> "error_404_form"] @@
        "FORBIDDEN_REQUEST" :> [status |-> 403, form |-> "error_403_form"]

(* process_write returns false for NO_RESOURCE, and for an empty file: its *)
(* case has no break and runs into the default.                            *)
WriteFails == ret = "NO_RESOURCE" \/ (ret = "FILE_REQUEST" /\ m_file_stat = "empty")

(* add_response and its callers: a head with the status and what m_linger  *)
(* says of the connection.  It always fits m_write_buf.                    *)
Response(status, iov) == [status |-> status, keep_alive |-> m_linger, iov |-> iov]

process_write ==
    /\ pc = "write" /\ ~WriteFails
    /\ response' =
         IF ret = "FILE_REQUEST" THEN Response(200, <<"head", m_real_file>>)
                                 ELSE Response(Form[ret].status, <<Form[ret].form>>)
    /\ pc' = "ready"
    /\ UNCHANGED <<netVars, bufVars, reqVars, fileVars, line_status, short, ret>>

(* process: close_conn, then modfd on the descriptor -1, which fails. *)
WriteClose ==
    /\ pc = "write" /\ WriteFails
    /\ pc' = "closed"
    /\ UNCHANGED <<netVars, bufVars, reqVars, fileVars, line_status, short, ret, response>>

-----------------------------------------------------------------------------
ReadStep == ReadOnce \/ ReadClose \/ RecvError

ParseStep == NoLine \/ BadRequestLine \/ parse_request_line \/ Header \/ BlankLine
             \/ parse_content

Next == Arrive \/ ClientShutdown \/ ReadStep \/ ParseStep \/ do_request
        \/ process_write \/ WriteClose

Spec == Init /\ [][Next]_vars

-----------------------------------------------------------------------------
(* The reference: what the stream says, without a parser. *)

(* The length of the head: up to the first blank line. *)
HeadEnds(s) == {n \in 4..Len(s) : SubSeq(s, n - 3, n) = <<CR, LF, CR, LF>>}

HasHead(s) == HeadEnds(s) # {}

HeadLength(s) == Min(HeadEnds(s))

(* The lengths announced in the head: the last one counts. *)
LengthHeaders(s) == {i \in 1..HeadLength(s) : s[i] \in DOMAIN ContentLength}

Announced(s) ==
    IF LengthHeaders(s) = {} THEN 0 ELSE ContentLength[s[Max(LengthHeaders(s))]]

BodyLength(s) == Max({0, Announced(s)})

RequestLength(s) == HeadLength(s) + BodyLength(s)

(* Every line of the head ends with CR LF, and the first is understood. *)
WellFormed(s) ==
    /\ HasHead(s) /\ s[1] \in DOMAIN RequestLine
    /\ \A i \in 1..HeadLength(s) : (s[i] = CR) <=> (i < Len(s) /\ s[i + 1] = LF)

(* All of the request has reached the buffer. *)
WholeRequest == HasHead(stream) /\ m_read_idx >= RequestLength(stream)

-----------------------------------------------------------------------------
TypeOK ==
    /\ arrived \in 0..Len(stream) /\ fin \in BOOLEAN
    /\ m_read_buf \in [0..READ_BUFFER_SIZE - 1 -> ToSet(stream) \cup {NUL}]
    /\ 0 <= m_start_line /\ m_start_line <= m_checked_idx
    /\ m_checked_idx <= m_read_idx /\ m_read_idx <= READ_BUFFER_SIZE
    /\ m_check_state \in {"REQUESTLINE", "HEADER", "CONTENT"}
    /\ m_linger \in BOOLEAN /\ m_string \in {Stale} \cup 0..READ_BUFFER_SIZE
    /\ line_status \in {"LINE_OK", "LINE_BAD", "LINE_OPEN"}
    /\ pc \in {"idle", "parse", "do_request", "write", "ready", "closed"}

(* However the bytes are cut into chunks, do_request runs only once the    *)
(* whole head and the whole announced body are in the buffer, and never    *)
(* for a stream whose line ends or request line are malformed.             *)
NeverEarly ==
    pc = "do_request" => WellFormed(stream) /\ WholeRequest

(* A connection that waits for more bytes does not hold a whole well       *)
(* formed request already, as long as no chunk cut the body: the position  *)
(* kept between two chunks is right at every cut of the head.  (Once       *)
(* parse_content has missed bytes of the body, parse_line walks into it,   *)
(* and the length is counted from there: the request is answered only if   *)
(* further bytes follow it.)                                               *)
WaitsOnlyForMore ==
    pc = "idle" /\ WellFormed(stream) /\ WholeRequest => short > 0

(* What do_request knows of the head is what the client sent, at whatever  *)
(* symbols the chunks were cut, whichever headers follow each other, and   *)
(* whatever a body or a second request behind the head looks like.         *)
HeadAsSent ==
    pc = "do_request" =>
        /\ [cgi |-> cgi, m_url |-> m_url] = RequestLine[stream[1]]
        /\ m_content_length = Announced(stream)
        /\ m_linger = \E i \in 1..HeadLength(stream) : stream[i] = KeepAlive

(* The account check reads the body of this request: the announced number  *)
(* of bytes right behind the blank line, as they were sent, also when one  *)
(* chunk end cut the body.  When parse_content missed bytes twice, text    *)
(* has moved on, and the body may start too late: then all that holds is   *)
(* that it lies behind the head and within the bytes received.             *)
BodyExact ==
    pc = "do_request" /\ m_content_length # 0 =>
        /\ HeadLength(stream) <= m_string /\ m_string + m_content_length <= m_read_idx
        /\ short < 2 => m_string = HeadLength(stream)
        /\ short < 2 => \A i \in m_string..m_string + m_content_length - 1 :
                            m_read_buf[i] = stream[i + 1]
=============================================================================
