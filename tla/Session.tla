------------------------------- MODULE Session -------------------------------
(* Calls of a client to the UName*It server: libconn/clntcall.c (the commands   *)
(* of the client and its event loop), server.c and Unameit_Conn_Loop (the       *)
(* server), auth.c, and the keys of desmd5.c, over connections that carry whole *)
(* messages (module Conn is about how).  The client's commands wait in an event *)
(* loop that may run other commands: stack holds what is waiting for what.      *)
EXTENDS Integers, Sequences, FiniteSets, Functions

CONSTANTS
    Auths,           \* the authentication modules in use
    Nested,          \* whether a handler run by a waiting command may reconnect
    MaxConns,        \* bound: connections made
    MaxCalls         \* bound: commands that wait

ASSUME Bounds == Auths \subseteq {"ukrbv", "ukrbiv", "trivial", "upasswd"} /\ Nested \in BOOLEAN /\ MaxConns \in Nat /\ MaxCalls \in Nat

VARIABLES
    serverInfo,      \* the client's ServerInfo
    stack,           \* commands waiting in io_wait and the handlers run for them
    calls,           \* how many commands have waited
    link,            \* link[c]: messages on their way, and which ends are open
    crypto,          \* crypto[c][end]: read_crypto and write_crypto
    server,          \* server[c]: the server's conn_t
    term,            \* conn_terminate_flag, and by what; "down" after the loop
    committed,       \* calls whose scripts were committed, in order
    returned,        \* what scripts and cancelled commands have returned
    marks            \* cancelled calls, and the login each script was run under

vars == <<serverInfo, stack, calls, link, crypto, server, term, committed, returned, marks>>

Conns == 1..MaxConns
Calls == 1..MaxCalls
\* What runs: the top level of the application is like a handler of its main loop.
Top == IF stack = <<>> THEN [kind |-> "handler", id |-> 0] ELSE stack[Len(stack)]
Popped == SubSeq(stack, 1, Len(stack) - 1)

\* A checksum context, or a checksum: the login its key is of and the sequence number.
Key(login, seq) == [key |-> login, seq |-> seq]
None == Key(0, 0)
NoCrypto == [read |-> None, write |-> None]

\* What a command returns: an error of the client, or the answer to call id.
Value(code, id) == [code |-> code, id |-> id]
NoValue == Value("", 0)

-----------------------------------------------------------------------------
(* desmd5.c: what a checksummed message does to the contexts of an end. *)

\* A new context for one direction replaces the one that is there.
Mic_Enable(k, side, login, seq) == [k EXCEPT ![side] = Key(login, seq)]

\* Update_Mic of a complete message sent with context k, or received and found good.
\* The first one of a key also turns on checksums in the other direction.
AfterWrite(k) ==
    IF k.write = None THEN k
    ELSE LET on == IF k.write.seq = 0 THEN Mic_Enable(k, "read", k.write.key, 1) ELSE k
         IN [on EXCEPT !.write.seq = @ + 1]

mic_ok(k, mic) == k.read = None \/ k.read = mic

\* Mutant: checksums in the other direction start from the first number again.
AfterReadFromZero(k, mic) ==
    IF k.read = None \/ ~mic_ok(k, mic) THEN k
    ELSE LET on == IF k.read.seq = 0 THEN Mic_Enable(k, "write", k.read.key, 0) ELSE k
         IN [on EXCEPT !.read.seq = @ + 1]

AfterRead(k, mic) ==
    IF k.read = None \/ ~mic_ok(k, mic) THEN k
    ELSE LET on == IF k.read.seq = 0 THEN Mic_Enable(k, "write", k.read.key, 1) ELSE k
         IN [on EXCEPT !.read.seq = @ + 1]

-----------------------------------------------------------------------------
(* The authentication modules: what a login does to the keys of the client's end *)
(* when it is written, and to those of the server's end when it is read.        *)

\* A module with a shared key expects the answer to be checksummed with it.
Uk5_write_auth(k, login) == Mic_Enable(k, "read", login, 0)
Uk4_write_auth(k, login) == Mic_Enable(k, "read", login, 0)
Trivial_write_auth(k, login) == k
Upasswd_write_auth(k, login) == k

Auth_Write(auth, k, login) ==
    CASE auth = "ukrbv"   -> Uk5_write_auth(k, login)
      [] auth = "ukrbiv"  -> Uk4_write_auth(k, login)
      [] auth = "trivial" -> Trivial_write_auth(k, login)
      [] auth = "upasswd" -> Upasswd_write_auth(k, login)

\* The login is found invalid before there is a key; the key is installed for the
\* answer, and unameit_login_* then accepts or refuses the principal.
Outcome(result, k) == [result |-> result, crypto |-> k]
Uk5_read_auth(k, login) ==
    {Outcome("ERROR", k)} \cup {Outcome(r, Mic_Enable(k, "write", login, 0)) : r \in {"OK", "ERROR"}}
Uk4_read_auth(k, login) ==
    {Outcome("ERROR", k)} \cup {Outcome(r, Mic_Enable(k, "write", login, 0)) : r \in {"OK", "ERROR"}}
Trivial_read_auth(k, login) == {Outcome(r, k) : r \in {"OK", "ERROR"}}
Upasswd_read_auth(k, login) == {Outcome(r, k) : r \in {"OK", "ERROR"}}

\* The checksum comes first; a module may be one the server does not have.
Auth_Read(msg, good, k) ==
    {Outcome("ERROR", k)} \cup
    IF ~good THEN {}
    ELSE CASE msg.auth = "ukrbv"   -> Uk5_read_auth(k, msg.id)
           [] msg.auth = "ukrbiv"  -> Uk4_read_auth(k, msg.id)
           [] msg.auth = "trivial" -> Trivial_read_auth(k, msg.id)
           [] msg.auth = "upasswd" -> Upasswd_read_auth(k, msg.id)

-----------------------------------------------------------------------------
(* The client. *)

\* Code runs outside the event loop: at the top level or in a handler.
Running == Top.kind = "handler"
\* The event loop runs: idle, or in io_wait of the last command.
Looping == stack = <<>> \/ Top.kind # "handler"

do_close(si) == [si EXCEPT !.conn = 0, !.state = "IDLE"]
make_error(si, code) == [si EXCEPT !.value = Value(code, 0), !.result = "ERROR"]
break_conn(si, code) == do_close(make_error(si, code))

\* The client's end of connection c is closed: what was on its way to it is lost.
Shut(l) == [l EXCEPT !.client = FALSE, !.down = <<>>]

\* A connection attempt: asynchronous, so it is made and then waited for.
Connect ==
    /\ Running /\ (stack = <<>> \/ Nested)
    /\ serverInfo.conn = 0 /\ calls < MaxCalls
    /\ \E c \in Conns :
         /\ link[c].fresh /\ \A d \in Conns : d < c => ~link[d].fresh
         /\ serverInfo' = [serverInfo EXCEPT !.conn = c, !.conn_state = "NEW", !.state = "BUSY"]
         /\ link' = [link EXCEPT ![c].fresh = FALSE, ![c].client = TRUE]
         /\ stack' = Append(stack, [kind |-> "connect", id |-> calls + 1])
    /\ calls' = calls + 1
    /\ UNCHANGED <<crypto, server, term, committed, returned, marks>>

\* A command that sends msg and waits for the answer.
Request(kind, msg, channel) ==
    /\ Running
    /\ serverInfo.conn # 0 /\ serverInfo.state = "IDLE" /\ calls < MaxCalls
    /\ serverInfo' = [serverInfo EXCEPT !.conn_state = "WRITING", !.state = "BUSY", !.msg = msg,
                                        !.channel = channel]
    /\ stack' = Append(stack, [kind |-> kind, id |-> calls + 1])
    /\ calls' = calls + 1
    /\ UNCHANGED <<link, server, term, committed, returned>>

\* Auth_Write starts the login, on the keys of the client's end.
Send_Auth(auth) ==
    /\ Request("auth", [id |-> calls + 1, auth |-> auth, login |-> calls + 1, mic |-> None], serverInfo.channel)
    /\ crypto' = [crypto EXCEPT ![serverInfo.conn]["client"] = Auth_Write(auth, @, calls + 1)]
    /\ marks' = [marks EXCEPT !.login = calls + 1]

\* A script, whose result is returned or written to a channel.
Send(channel) ==
    /\ Request("send", [id |-> calls + 1, auth |-> "none", login |-> marks.login, mic |-> None], channel)
    /\ UNCHANGED <<crypto, marks>>

\* Mutant: a call in progress is not marked as cancelled.
CancelSilent ==
    /\ stack # <<>> /\ Top.kind # "handler" /\ serverInfo.state = "BUSY"
    /\ link' = [link EXCEPT ![serverInfo.conn] = Shut(@)]
    /\ serverInfo' = do_close(serverInfo)
    /\ stack' = Append(stack, [kind |-> "handler", id |-> 0])
    /\ marks' = [marks EXCEPT !.cancelled = @ \cup {Top.id}]
    /\ UNCHANGED <<calls, crypto, server, term, committed, returned>>

\* Disconnect of a busy connection, by a handler of the application that io_wait
\* runs (the only command with an effect then): the waiting call is cancelled.
Cancel ==
    /\ stack # <<>> /\ Top.kind # "handler" /\ serverInfo.state = "BUSY"
    /\ link' = [link EXCEPT ![serverInfo.conn] = Shut(@)]
    /\ serverInfo' = do_close(make_error(serverInfo, "OPCANCELED"))
    /\ stack' = Append(stack, [kind |-> "handler", id |-> 0])
    /\ marks' = [marks EXCEPT !.cancelled = @ \cup {Top.id}]
    /\ UNCHANGED <<calls, crypto, server, term, committed, returned>>

\* Disconnect of an idle connection.
Disconnect ==
    /\ Running /\ serverInfo.conn # 0
    /\ link' = [link EXCEPT ![serverInfo.conn] = Shut(@)]
    /\ serverInfo' = do_close(serverInfo)
    /\ UNCHANGED <<stack, calls, crypto, server, term, committed, returned, marks>>

\* The handler returns to io_wait.
EndHandler ==
    /\ stack # <<>> /\ Top.kind = "handler"
    /\ stack' = Popped
    /\ UNCHANGED <<serverInfo, calls, link, crypto, server, term, committed, returned, marks>>

\* Mutant: the value stays for the next command.
io_wait_keeps ==
    /\ stack # <<>> /\ Top.kind # "handler" /\ serverInfo.state # "BUSY"
    /\ returned' = IF Top.kind # "send" /\ Top.id \notin marks.cancelled THEN returned
                   ELSE returned \cup {[id |-> Top.id, kind |-> Top.kind,
                                        result |-> serverInfo.result, value |-> serverInfo.value]}
    /\ stack' = Popped
    /\ UNCHANGED <<serverInfo, calls, link, crypto, server, term, committed, marks>>

\* io_wait returns the result of the connection, and the value if there is one.
io_wait ==
    /\ stack # <<>> /\ Top.kind # "handler" /\ serverInfo.state # "BUSY"
    /\ returned' = IF Top.kind # "send" /\ Top.id \notin marks.cancelled THEN returned
                   ELSE returned \cup {[id |-> Top.id, kind |-> Top.kind,
                                        result |-> serverInfo.result, value |-> serverInfo.value]}
    /\ serverInfo' = [serverInfo EXCEPT !.value = NoValue]
    /\ stack' = Popped
    /\ UNCHANGED <<calls, link, crypto, server, term, committed, marks>>

\* file_proc, by what the connection is doing.
Doing(states) == Looping /\ serverInfo.conn # 0 /\ serverInfo.conn_state \in states
FileProc(si, l, k) ==
    /\ serverInfo' = si
    /\ link' = [link EXCEPT ![serverInfo.conn] = l]
    /\ crypto' = [crypto EXCEPT ![serverInfo.conn]["client"] = k]
    /\ UNCHANGED <<stack, calls, server, term, committed, returned, marks>>

Link == link[serverInfo.conn]
Crypto == crypto[serverInfo.conn]["client"]

\* The connection is there, or was refused.
Connected ==
    /\ Doing({"NEW"})
    /\ \/ term # "down" /\ FileProc([serverInfo EXCEPT !.conn_state = "IODONE", !.state = "IDLE",
                                                      !.result = "OK"], Link, Crypto)
       \/ FileProc(break_conn(serverInfo, "EAGAIN"), Shut(Link), Crypto)

\* The request is out, checksummed as messages were before it; wait for the reply.
Written ==
    /\ Doing({"WRITING"})
    /\ FileProc([serverInfo EXCEPT !.conn_state = "READING"],
                [Link EXCEPT !.up = IF Link.server THEN <<[serverInfo.msg EXCEPT !.mic = Crypto.write]>> ELSE <<>>],
                AfterWrite(Crypto))

\* iodone: a reply whose checksum is bad ends the connection; one of an expected
\* length without a checksum where one is expected is known as that only at
\* the end of file.  A result goes to the channel, if the command named one.
Read ==
    /\ Doing({"READING"}) /\ Link.down # <<>>
    /\ LET reply == Head(Link.down)
           got == [serverInfo EXCEPT !.conn_state = "IODONE", !.state = "IDLE"]
           l == [Link EXCEPT !.down = <<>>]
       IN  /\ reply.mic = None /\ Crypto.read # None => ~Link.server
           /\ \/ /\ ~mic_ok(Crypto, reply.mic)
                 /\ \E code \in {"REPLY", "EBADMIC"} :
                      FileProc(do_close([make_error(got, code) EXCEPT
                                  !.value.id = IF code = "REPLY" THEN reply.id ELSE 0]),
                               Shut(l), AfterRead(Crypto, reply.mic))
              \/ /\ mic_ok(Crypto, reply.mic)
                 /\ ~(reply.result = "OK" /\ serverInfo.channel)
                 /\ FileProc([got EXCEPT !.value = Value("REPLY", reply.id), !.result = reply.result],
                             l, AfterRead(Crypto, reply.mic))
              \/ /\ mic_ok(Crypto, reply.mic)
                 /\ reply.result = "OK" /\ serverInfo.channel
                 /\ \E written \in {"OK", "ERROR"} :
                      FileProc([got EXCEPT !.result = written], l, AfterRead(Crypto, reply.mic))

\* The server is gone, or the connection is: noticed while writing, while waiting
\* for the reply, and while idle.
Lost ==
    /\ Doing({"WRITING", "READING", "IODONE"})
    /\ serverInfo.conn_state = "IODONE" => ~Link.server
    /\ FileProc(break_conn(serverInfo, "EIO"), Shut(Link), Crypto)

\* Mutant: an end of file while waiting for a reply is not noticed.
EofMissed ==
    /\ Doing({"READING"}) /\ ~Link.server /\ Link.down # <<>>
    /\ FileProc(break_conn(serverInfo, "EIO"), Shut(Link), Crypto)

\* Of those, the end of file after everything else: what the client can rely on.
Eof ==
    /\ Doing({"READING"}) /\ ~Link.server /\ Link.down = <<>>
    /\ FileProc(break_conn(serverInfo, "EIO"), Shut(Link), Crypto)

-----------------------------------------------------------------------------
(* The server. *)

\* server[c] as it was before the connection and as it is after it.
Gone == [state |-> "none", interp |-> 0, reply |-> [id |-> 0, result |-> "OK", mic |-> None]]

ServerStep(c, s, l, k) ==
    /\ server' = [server EXCEPT ![c] = s]
    /\ link' = [link EXCEPT ![c] = l]
    /\ crypto' = [crypto EXCEPT ![c]["server"] = k]
    /\ UNCHANGED <<serverInfo, stack, calls, returned>>

\* Unameit_Conn_Reap: the session goes with the connection.
ReapLink(l) == [l EXCEPT !.server = FALSE, !.up = <<>>]
Reap(c) == ServerStep(c, Gone, ReapLink(link[c]), NoCrypto) /\ UNCHANGED <<committed, marks>>

\* server_accept, and the callback for a new connection.
server_accept(c) ==
    /\ term = "no" /\ link[c].server /\ ~link[c].fresh /\ server[c].state = "none"
    /\ ServerStep(c, [Gone EXCEPT !.state = "READING"], link[c], crypto[c]["server"])
    /\ UNCHANGED <<term, committed, marks>>

\* Unameit_Conn_Interp_Reply to the request msg, with session interp from now on.
Reply(c, msg, interp, result, k) ==
    ServerStep(c, [state |-> "WRITING", interp |-> interp,
                   reply |-> [id |-> msg.id, result |-> result, mic |-> None]],
               [link[c] EXCEPT !.up = <<>>], k)

\* Conn_Execute: a bad checksum, and a script unameit_begin rejects, end the session;
\* a script is committed if it succeeds, and aborted if not.  A script may end
\* the loop (unameit_shutdown).
Conn_Execute(c, msg) ==
    LET k == crypto[c]["server"]
        as == server[c].interp
        read == AfterRead(k, msg.mic)
        Ran == marks' = [marks EXCEPT !.ran = @ \cup {<<msg.login, as>>}]
    IN  \/ Reply(c, msg, 0, "ERROR", read) /\ UNCHANGED <<term, committed, marks>>
        \/ /\ mic_ok(k, msg.mic) /\ Ran
           /\ Reply(c, msg, as, "OK", read)
           /\ committed' = Append(committed, msg.id)
           /\ term' \in {"no", "shutdown"}
        \/ /\ mic_ok(k, msg.mic) /\ Ran
           /\ Reply(c, msg, as, "ERROR", read) /\ UNCHANGED <<term, committed>>

\* Mutant: a session that exists is not replaced.
LoginFirstStays(c, msg) ==
    /\ \E o \in Auth_Read(msg, mic_ok(crypto[c]["server"], msg.mic), AfterRead(crypto[c]["server"], msg.mic)) :
         Reply(c, msg, IF o.result # "OK" THEN 0
                       ELSE IF server[c].interp # 0 THEN server[c].interp ELSE msg.id,
               o.result, o.crypto)
    /\ UNCHANGED <<term, committed, marks>>

\* Read_Done of a login: the old session ends, and Auth_Read may start a new one.
Login(c, msg) ==
    /\ \E o \in Auth_Read(msg, mic_ok(crypto[c]["server"], msg.mic), AfterRead(crypto[c]["server"], msg.mic)) :
         Reply(c, msg, IF o.result = "OK" THEN msg.id ELSE 0, o.result, o.crypto)
    /\ UNCHANGED <<term, committed, marks>>

\* Server_Iodone after a request was read.
Read_Done(c) ==
    /\ term = "no" /\ server[c].state = "READING" /\ link[c].up # <<>>
    /\ LET msg == Head(link[c].up)
       IN  \/ msg.auth # "none" /\ Login(c, msg)
           \/ msg.auth = "none" /\ server[c].interp # 0 /\ Conn_Execute(c, msg)
           \/ /\ msg.auth = "none" /\ server[c].interp = 0
              /\ Reply(c, msg, 0, "ERROR", AfterRead(crypto[c]["server"], msg.mic))
              /\ UNCHANGED <<term, committed, marks>>

\* The reply is out; a client without a session is dropped, the others are polled.
\* Once the loop is told to end by a request no reply is sent any more.
Write_Done(c) ==
    /\ term \in {"no", "signal"} /\ server[c].state = "WRITING"
    /\ LET k == crypto[c]["server"]
           l == [link[c] EXCEPT !.down = IF link[c].client THEN <<[server[c].reply EXCEPT !.mic = k.write]>>
                                         ELSE <<>>]
       IN  IF server[c].interp = 0 THEN ServerStep(c, Gone, ReapLink(l), NoCrypto)
           ELSE ServerStep(c, [server[c] EXCEPT !.state = "READING"], l, AfterWrite(k))
    /\ UNCHANGED <<term, committed, marks>>

\* The client is gone (its last request may be lost with it).
ServerEof(c) ==
    /\ term = "no" /\ server[c].state \in {"READING", "WRITING"} /\ ~link[c].client
    /\ Reap(c) /\ UNCHANGED term

\* Idle for too long, or the network fails.
Timeout(c) ==
    /\ term = "no" /\ server[c].state \in {"READING", "WRITING"}
    /\ Reap(c) /\ UNCHANGED term

\* SIGINT or SIGTERM (EndLoop).
Signal ==
    /\ term = "no" /\ term' = "signal"
    /\ UNCHANGED <<serverInfo, stack, calls, link, crypto, server, committed, returned, marks>>

\* The end of Unameit_Conn_Loop: stop listening and reap every connection.
LoopEnd ==
    /\ term \in {"signal", "shutdown"}
    /\ term' = "down"
    /\ server' = [c \in Conns |-> Gone]
    /\ link' = [c \in Conns |-> ReapLink(link[c])]
    /\ crypto' = [c \in Conns |-> [crypto[c] EXCEPT !["server"] = NoCrypto]]
    /\ UNCHANGED <<serverInfo, stack, calls, committed, returned, marks>>

-----------------------------------------------------------------------------
Init ==
    /\ serverInfo = [conn |-> 0, conn_state |-> "IODONE", state |-> "IDLE", result |-> "ERROR",
                     value |-> NoValue, channel |-> FALSE,
                     msg |-> [id |-> 0, auth |-> "none", login |-> 0, mic |-> None]]
    /\ stack = <<>> /\ calls = 0
    /\ link = [c \in Conns |-> [fresh |-> TRUE, client |-> FALSE, server |-> TRUE,
                                up |-> <<>>, down |-> <<>>]]
    /\ crypto = [c \in Conns |-> [e \in {"client", "server"} |-> NoCrypto]]
    /\ server = [c \in Conns |-> Gone]
    /\ term = "no" /\ committed = <<>> /\ returned = {}
    /\ marks = [cancelled |-> {}, login |-> 0, ran |-> {}]

\* What the client's event loop, and the server's, do when they are not stopped.
EventLoop == Connected \/ Written \/ Read \/ Eof \/ io_wait \/ EndHandler
ServerLoop == LoopEnd \/ \E c \in Conns : server_accept(c) \/ Read_Done(c) \/ Write_Done(c)

\* The client is done: all calls or connections the bounds allow are made.
Finished ==
    /\ stack = <<>> /\ serverInfo.conn = 0
    /\ calls = MaxCalls \/ \A c \in Conns : ~link[c].fresh
    /\ UNCHANGED vars

Next ==
    \/ Connect \/ Disconnect \/ Cancel
    \/ \E auth \in Auths : Send_Auth(auth)
    \/ \E channel \in BOOLEAN : Send(channel)
    \/ EventLoop \/ Lost
    \/ ServerLoop \/ Signal
    \/ \E c \in Conns : ServerEof(c) \/ Timeout(c)
    \/ Finished

\* Each of the two loops goes on while there is something for it to do.
Spec == Init /\ [][Next]_vars /\ WF_vars(EventLoop) /\ WF_vars(ServerLoop)

-----------------------------------------------------------------------------
(* Properties. *)

\* Every part of the state has its type.
TypeOK ==
    /\ serverInfo.conn \in 0..MaxConns /\ serverInfo.conn_state \in {"NEW", "IODONE", "WRITING", "READING"}
    /\ serverInfo.state \in {"IDLE", "BUSY"} /\ serverInfo.result \in {"OK", "ERROR"}
    /\ serverInfo.state = "BUSY" => serverInfo.conn # 0 /\ stack # <<>>
    /\ calls \in 0..MaxCalls /\ term \in {"no", "signal", "shutdown", "down"}
    /\ \A c \in Conns :
         /\ server[c].state \in {"none", "READING", "WRITING"} /\ server[c].interp \in 0..MaxCalls
         /\ Len(link[c].up) <= 1 /\ Len(link[c].down) <= 1

\* A script is committed at most once, whatever becomes of its connection; a command
\* that returns success was committed and returns its own result, and one that
\* returns the server's error was not committed.
ResultIsOwn ==
    /\ \A m, n \in DOMAIN committed : committed[m] = committed[n] => m = n
    /\ \A r \in returned : r.kind = "send" =>
         /\ r.result = "OK" => r.id \in Range(committed) /\ (r.value = NoValue \/ r.value = Value("REPLY", r.id))
         /\ r.result = "ERROR" /\ r.value.code = "REPLY" => r.value.id = r.id /\ r.id \notin Range(committed)

\* The two ends agree on the checksum of every message: whether there is one, its
\* key and its number.  The one exception is the answer to a failed login, after
\* which the server drops the client ("failed key exchange" in conn.c).
ChecksumsAgree ==
    \A c \in Conns :
        /\ link[c].up # <<>> /\ server[c].state = "READING" =>
             Head(link[c].up).mic = crypto[c]["server"].read
        /\ link[c].down # <<>> =>
             \/ Head(link[c].down).mic = crypto[c]["client"].read
             \/ Head(link[c].down).result = "ERROR" /\ ~link[c].server

\* A script runs only under the login its client sent last on that connection,
\* never under one that a later login of the connection was to replace.
RunsAsLoggedIn == \A r \in marks.ran : r[1] = r[2]

\* "mark the operation as cancelled so that the operation in progress unwinds (it
\* will notice this in io_wait)": a call that Disconnect cancelled returns that error.
CancelNoticed ==
    \A r \in returned : r.id \in marks.cancelled => r.result = "ERROR" /\ r.value.code = "OPCANCELED"

\* Every command that waits returns, with no timeout of its own: the server's
\* answer, its end of file, or the error of a cancelled call always arrives.
Returns == stack # <<>> ~> stack = <<>>

=============================================================================
