---------------------------- MODULE SessionClient ----------------------------
(* The invariants of the calls of a client, for any number of connections and    *)
(* calls and any of the authentication modules: all steps keep the types, and    *)
(* those of the client keep the keys of the two ends in agreement.               *)
EXTENDS Session, TLAPS

(* The state, part by part. *)
Mic == [key : Nat, seq : Nat]
Context == [read : Mic, write : Mic]
Message == [id : Nat, auth : Auths \cup {"none"}, login : Nat, mic : Mic]
Answer == [id : Nat, result : {"OK", "ERROR"}, mic : Mic]
Wire == [fresh : BOOLEAN, client : BOOLEAN, server : BOOLEAN, up : Seq(Message), down : Seq(Answer)]
Codes == {"", "OPCANCELED", "EAGAIN", "EIO", "EBADMIC", "REPLY"}
Values == [code : Codes, id : Nat]
ConnId == Conns \cup {0}
Frame == [kind : {"connect", "auth", "send", "handler"}, id : Nat]
Info == [conn : ConnId, conn_state : {"NEW", "IODONE", "WRITING", "READING"},
         state : {"IDLE", "BUSY"}, result : {"OK", "ERROR"},
         value : Values, channel : BOOLEAN, msg : Message]
ServerConn == [state : {"none", "READING", "WRITING"}, interp : Nat, reply : Answer]
Pair == Nat \X Nat
Marks == [cancelled : SUBSET Nat, login : Nat, ran : SUBSET Pair]

Typed ==
    /\ serverInfo \in Info
    /\ stack \in Seq(Frame)
    /\ calls \in Nat
    /\ link \in [Conns -> Wire]
    /\ crypto \in [Conns -> [{"client", "server"} -> Context]]
    /\ server \in [Conns -> ServerConn]
    /\ term \in {"no", "signal", "shutdown", "down"}
    /\ committed \in Seq(Nat)
    /\ marks \in Marks

Client(c) == crypto[c]["client"]
Server(c) == crypto[c]["server"]
Current(c) == serverInfo.conn = c
Sending == serverInfo.conn_state = "WRITING"
Waiting == serverInfo.conn_state = "READING"

\* One message at a time is on its way, and it is of the call that is waiting.
HalfDuplex(c) ==
    /\ link[c].client <=> Current(c)
    /\ Current(c) /\ Sending => serverInfo.msg.id # 0
    /\ link[c].fresh => ~link[c].client /\ link[c].up = <<>> /\ server[c].state = "none" /\ Client(c) = NoCrypto
    /\ link[c].up # <<>> =>
         /\ link[c].server /\ link[c].down = <<>> /\ server[c].state # "WRITING" /\ Len(link[c].up) = 1
         /\ Head(link[c].up).id # 0
         /\ Current(c) => Waiting /\ Head(link[c].up).id = serverInfo.msg.id
                          /\ Head(link[c].up).auth = serverInfo.msg.auth
    /\ link[c].down # <<>> => Current(c) /\ Waiting /\ Len(link[c].down) = 1 /\ server[c].state # "WRITING"
    /\ server[c].state = "WRITING" =>
         /\ link[c].server /\ link[c].down = <<>> /\ (Current(c) => Waiting)
         /\ server[c].interp = 0 => server[c].reply.result = "ERROR"
    /\ server[c].state = "none" => server[c].interp = 0 /\ Server(c) = NoCrypto
    /\ ~link[c].server => server[c].state = "none"

\* The number of the next message in a direction once it has been sent.
Bump(m) == IF m = None THEN None ELSE [m EXCEPT !.seq = @ + 1]
SharedKey == serverInfo.msg.auth \in {"ukrbv", "ukrbiv"}

\* Which keys the two ends have, from request to answer.
KeysMatch(c) ==
    /\ Server(c).read # None => Server(c).read.seq # 0
    /\ Client(c).write # None => Client(c).write.seq # 0
    /\ link[c].up # <<>> => Head(link[c].up).mic = Server(c).read
    /\ link[c].down # <<>> =>
         \/ Head(link[c].down).mic = Client(c).read
         \/ Head(link[c].down).result = "ERROR" /\ ~link[c].server
    /\ Current(c) /\ link[c].server =>
         /\ serverInfo.conn_state \in {"NEW", "IODONE"} =>
              Client(c).write = Server(c).read /\ Client(c).read = Server(c).write
         /\ Sending \/ link[c].up # <<>> =>
              Client(c).read = IF SharedKey THEN Key(serverInfo.msg.id, 0) ELSE Server(c).write
         /\ Sending => Client(c).write = Server(c).read
         /\ link[c].up # <<>> => Client(c).write = Bump(Server(c).read)
         /\ server[c].state = "WRITING" /\ server[c].interp # 0 =>
              Client(c).write = Server(c).read /\ Client(c).read = Server(c).write
         /\ link[c].down # <<>> =>
              /\ AfterRead(Client(c), Client(c).read).write = Server(c).read
              /\ AfterRead(Client(c), Client(c).read).read = Server(c).write

\* A connection is idle when nothing waits for it.
IdleIsDone == serverInfo.state = "IDLE" <=> serverInfo.conn = 0 \/ serverInfo.conn_state = "IODONE"

Paired(c) == HalfDuplex(c) /\ KeysMatch(c)
KeyInv == Typed /\ IdleIsDone /\ \A c \in Conns : Paired(c)

\* Which login a connection is under.
LoginMatches(c) ==
    /\ link[c].up # <<>> /\ Head(link[c].up).auth = "none" /\ server[c].interp # 0 =>
         Head(link[c].up).login = server[c].interp
    /\ Current(c) /\ server[c].interp # 0 =>
         \/ server[c].interp = marks.login
         \/ serverInfo.msg.auth # "none" /\ (Sending \/ link[c].up # <<>>)
    /\ Current(c) /\ Sending /\ serverInfo.msg.auth = "none" => serverInfo.msg.login = marks.login
    /\ Current(c) /\ (Sending \/ link[c].up # <<>>) /\ serverInfo.msg.auth # "none" => serverInfo.msg.id = marks.login

LoginInv == (\A c \in Conns : LoginMatches(c)) /\ RunsAsLoggedIn

-----------------------------------------------------------------------------
(* Types. *)

LEMMA NoneType == None \in Mic /\ NoCrypto \in Context /\ \A n, s \in Nat : Key(n, s) \in Mic
BY DEF None, Key, Mic, NoCrypto, Context

LEMMA EnableType ==
    ASSUME NEW k \in Context, NEW n \in Nat, NEW s \in Nat, NEW side \in {"read", "write"}
    PROVE  Mic_Enable(k, side, n, s) \in Context
BY DEF Context, Mic_Enable, Key, Mic

LEMMA AfterWriteType == ASSUME NEW k \in Context PROVE AfterWrite(k) \in Context
<1>1. CASE k.write = None
  BY <1>1 DEF AfterWrite
<1>2. CASE k.write # None
  <2>1. Mic_Enable(k, "read", k.write.key, 1) \in Context
    BY EnableType, Zenon DEF Context, Mic
  <2>2. QED
    BY <1>2, <2>1 DEF AfterWrite, Context, Mic
<1>3. QED
  BY <1>1, <1>2

LEMMA AfterReadType == ASSUME NEW k \in Context, NEW m PROVE AfterRead(k, m) \in Context
<1>1. CASE k.read = None \/ ~mic_ok(k, m)
  BY <1>1 DEF AfterRead
<1>2. CASE ~(k.read = None \/ ~mic_ok(k, m))
  <2>1. Mic_Enable(k, "write", k.read.key, 1) \in Context
    BY EnableType, Zenon DEF Context, Mic
  <2>2. QED
    BY <1>2, <2>1 DEF AfterRead, Context, Mic
<1>3. QED
  BY <1>1, <1>2

LEMMA AuthWriteType ==
    ASSUME NEW auth \in Auths, NEW k \in Context, NEW n \in Nat
    PROVE  Auth_Write(auth, k, n) \in Context
<1>1. auth \in {"ukrbv", "ukrbiv", "trivial", "upasswd"}
  BY Bounds
<1>2. Mic_Enable(k, "read", n, 0) \in Context
  BY EnableType
<1>3. QED
  BY <1>1, <1>2 DEF Auth_Write, Uk5_write_auth, Uk4_write_auth, Trivial_write_auth, Upasswd_write_auth

LEMMA AuthReadType ==
    ASSUME NEW msg \in Message, msg.auth # "none", NEW good \in BOOLEAN, NEW k \in Context,
           NEW o \in Auth_Read(msg, good, k)
    PROVE  o.result \in {"OK", "ERROR"} /\ o.crypto \in Context
<1>1. msg.auth \in {"ukrbv", "ukrbiv", "trivial", "upasswd"} /\ msg.id \in Nat
  BY Bounds, Zenon DEF Message
<1>2. Mic_Enable(k, "write", msg.id, 0) \in Context
  BY <1>1, EnableType
<1>3. QED
  BY <1>1, <1>2 DEF Auth_Read, Outcome, Uk5_read_auth, Uk4_read_auth, Trivial_read_auth, Upasswd_read_auth

LEMMA Empty == \A S : <<>> \in Seq(S)
OBVIOUS

LEMMA One == ASSUME NEW S, NEW m \in S
             PROVE  <<m>> \in Seq(S) /\ <<m>> # <<>> /\ Len(<<m>>) = 1 /\ Head(<<m>>) = m
OBVIOUS

LEMMA CloseType == ASSUME NEW si \in Info PROVE do_close(si) \in Info
BY Zenon DEF Info, ConnId, do_close

LEMMA ErrorType == ASSUME NEW si \in Info, NEW code \in Codes PROVE make_error(si, code) \in Info
BY Zenon DEF Info, Values, make_error, Value

LEMMA ValueType ==
    ASSUME NEW si \in Info
    PROVE  /\ [si EXCEPT !.value = NoValue] \in Info
           /\ \A id \in Nat : [si EXCEPT !.value = Value("REPLY", id)] \in Info
<1>1. NoValue \in Values /\ \A id \in Nat : Value("REPLY", id) \in Values
  BY DEF NoValue, Value, Values, Codes
<1>2. QED
  BY <1>1 DEF Info

LEMMA WireType == ASSUME NEW l \in Wire PROVE Shut(l) \in Wire /\ ReapLink(l) \in Wire
BY Empty, Zenon DEF Wire, Shut, ReapLink

LEMMA MarksType ==
    ASSUME NEW m \in Marks, NEW n \in Nat
    PROVE  [m EXCEPT !.login = n] \in Marks /\ [m EXCEPT !.cancelled = @ \cup {n}] \in Marks
BY DEF Marks

LEMMA MessageType ==
    ASSUME NEW id \in Nat, NEW auth \in Auths \cup {"none"}, NEW login \in Nat
    PROVE  [id |-> id, auth |-> auth, login |-> login, mic |-> None] \in Message
BY NoneType DEF Message

LEMMA TopType ==
    ASSUME stack \in Seq(Frame)
    PROVE  Top \in Frame
<1>1. CASE stack = <<>>
  BY <1>1 DEF Top, Frame
<1>2. CASE stack # <<>>
  BY <1>2 DEF Top
<1>3. QED
  BY <1>1, <1>2

LEMMA ConnectTyped == ASSUME Typed, Connect PROVE Typed'
<1>1. PICK c \in Conns :
        /\ serverInfo' = [serverInfo EXCEPT !.conn = c, !.conn_state = "NEW", !.state = "BUSY"]
        /\ link' = [link EXCEPT ![c].fresh = FALSE, ![c].client = TRUE]
        /\ stack' = Append(stack, [kind |-> "connect", id |-> calls + 1])
  BY Zenon DEF Connect
<1>2. serverInfo' \in Info
  BY <1>1, Zenon DEF Typed, Info, ConnId
<1>3. link' \in [Conns -> Wire]
  BY <1>1, ZenonT(30) DEF Typed, Wire
<1>4. stack' \in Seq(Frame)
  <2>1. [kind |-> "connect", id |-> calls + 1] \in Frame
    BY DEF Typed, Frame
  <2>2. QED
    BY <1>1, <2>1 DEF Typed
<1>5. QED
  BY <1>2, <1>3, <1>4 DEF Typed, Connect

LEMMA RequestTyped ==
    ASSUME Typed, NEW kind \in {"auth", "send"}, NEW msg \in Message, NEW channel \in BOOLEAN,
           Request(kind, msg, channel)
    PROVE  /\ serverInfo.conn \in Conns /\ serverInfo' \in Info /\ stack' \in Seq(Frame) /\ calls' \in Nat
           /\ UNCHANGED <<link, server, term, committed>>
<1>1. serverInfo' \in Info
  BY Zenon DEF Request, Typed, Info
<1>2. [kind |-> kind, id |-> calls + 1] \in Frame
  BY DEF Typed, Frame
<1>3. stack' \in Seq(Frame)
  BY <1>2 DEF Request, Typed
<1>4. QED
  BY <1>1, <1>3 DEF Request, Typed, Info, ConnId

LEMMA SendAuthTyped == ASSUME Typed, NEW auth \in Auths, Send_Auth(auth) PROVE Typed'
<1> DEFINE msg == [id |-> calls + 1, auth |-> auth, login |-> calls + 1, mic |-> None]
<1>1. msg \in Message /\ serverInfo.channel \in BOOLEAN
  BY MessageType DEF Typed, Info
<1>2. Request("auth", msg, serverInfo.channel)
  BY DEF Send_Auth
<1> HIDE DEF msg
<1>3. /\ serverInfo.conn \in Conns /\ serverInfo' \in Info /\ stack' \in Seq(Frame) /\ calls' \in Nat
      /\ UNCHANGED <<link, server, term, committed>>
  BY <1>1, <1>2, RequestTyped
<1>4. Auth_Write(auth, crypto[serverInfo.conn]["client"], calls + 1) \in Context
  BY <1>3, AuthWriteType DEF Typed
<1>5. crypto' \in [Conns -> [{"client", "server"} -> Context]]
  BY <1>3, <1>4 DEF Typed, Send_Auth
<1>6. marks' \in Marks
  <2>1. marks \in Marks /\ calls + 1 \in Nat /\ marks' = [marks EXCEPT !.login = calls + 1]
    BY DEF Typed, Send_Auth
  <2>2. QED
    BY <2>1, MarksType, Zenon
<1>7. QED
  BY <1>3, <1>5, <1>6 DEF Typed

LEMMA SendTyped == ASSUME Typed, NEW channel \in BOOLEAN, Send(channel) PROVE Typed'
<1> DEFINE msg == [id |-> calls + 1, auth |-> "none", login |-> marks.login, mic |-> None]
<1>1. msg \in Message
  <2>1. marks.login \in Nat /\ calls + 1 \in Nat
    BY DEF Typed, Marks
  <2>2. QED
    BY <2>1, MessageType
<1>2. Request("send", msg, channel)
  BY DEF Send
<1> HIDE DEF msg
<1>3. QED
  BY <1>1, <1>2, RequestTyped DEF Typed, Send

LEMMA CancelTyped == ASSUME Typed, Cancel PROVE Typed'
<1>1. serverInfo' \in Info
  <2>1. serverInfo \in Info /\ serverInfo' = do_close(make_error(serverInfo, "OPCANCELED"))
    BY DEF Typed, Cancel
  <2>2. make_error(serverInfo, "OPCANCELED") \in Info
    BY <2>1, ErrorType, Zenon DEF Codes
  <2>3. QED
    BY <2>1, <2>2, CloseType
<1>2. link' \in [Conns -> Wire]
  BY WireType, Zenon DEF Typed, Cancel
<1>3. [kind |-> "handler", id |-> 0] \in Frame
  BY DEF Frame
<1>4. stack' \in Seq(Frame)
  BY <1>3 DEF Typed, Cancel
<1>5. Top.id \in Nat
  BY TopType DEF Typed, Frame
<1>6. marks' \in Marks
  BY <1>5, MarksType, Zenon DEF Typed, Cancel
<1>7. QED
  BY <1>1, <1>2, <1>4, <1>6 DEF Typed, Cancel

LEMMA DisconnectTyped == ASSUME Typed, Disconnect PROVE Typed'
<1>1. serverInfo' \in Info
  BY CloseType DEF Typed, Disconnect
<1>2. link' \in [Conns -> Wire]
  BY WireType, Zenon DEF Typed, Disconnect
<1>3. QED
  BY <1>1, <1>2 DEF Typed, Disconnect

LEMMA PoppedType == ASSUME stack \in Seq(Frame), stack # <<>> PROVE Popped \in Seq(Frame)
BY DEF Popped

LEMMA ReturnTyped == ASSUME Typed, EndHandler \/ io_wait PROVE Typed'
<1>1. stack' \in Seq(Frame)
  BY PoppedType DEF Typed, EndHandler, io_wait
<1>2. [serverInfo EXCEPT !.value = NoValue] \in Info
  BY ValueType DEF Typed
<1>3. serverInfo' \in Info
  BY <1>2, Zenon DEF Typed, EndHandler, io_wait
<1>4. QED
  BY <1>1, <1>3 DEF Typed, EndHandler, io_wait

LEMMA FileProcTyped ==
    ASSUME Typed, serverInfo.conn \in Conns, NEW si \in Info, NEW l \in Wire, NEW k \in Context, FileProc(si, l, k)
    PROVE  Typed'
<1>1. link' \in [Conns -> Wire] /\ crypto' \in [Conns -> [{"client", "server"} -> Context]]
  BY DEF Typed, FileProc
<1>2. QED
  BY <1>1 DEF Typed, FileProc

\* What file_proc works on.
LEMMA DoingTyped ==
    ASSUME Typed, NEW states, Doing(states)
    PROVE  /\ serverInfo \in Info /\ serverInfo.conn \in Conns
           /\ Link \in Wire /\ Crypto \in Context
<1>1. serverInfo.conn \in Conns
  BY DEF Typed, Info, ConnId, Doing
<1>2. QED
  BY <1>1 DEF Typed, Link, Crypto

LEMMA BreakType == ASSUME NEW si \in Info, NEW code \in Codes PROVE break_conn(si, code) \in Info
BY ErrorType, CloseType DEF break_conn

LEMMA ConnectedTyped == ASSUME Typed, Connected PROVE Typed'
<1>1. serverInfo \in Info /\ serverInfo.conn \in Conns /\ Link \in Wire /\ Crypto \in Context
  BY DoingTyped DEF Connected
<1>2. [serverInfo EXCEPT !.conn_state = "IODONE", !.state = "IDLE", !.result = "OK"] \in Info
  BY <1>1, Zenon DEF Info
<1>3. break_conn(serverInfo, "EAGAIN") \in Info
  BY <1>1, BreakType, Zenon DEF Codes
<1>4. Shut(Link) \in Wire
  BY <1>1, WireType
<1>5. QED
  BY <1>1, <1>2, <1>3, <1>4, FileProcTyped DEF Connected

LEMMA LostTyped == ASSUME Typed, Lost \/ Eof PROVE Typed'
<1>1. serverInfo \in Info /\ serverInfo.conn \in Conns /\ Link \in Wire /\ Crypto \in Context
  BY DoingTyped DEF Lost, Eof
<1>2. break_conn(serverInfo, "EIO") \in Info
  BY <1>1, BreakType, Zenon DEF Codes
<1>3. Shut(Link) \in Wire
  BY <1>1, WireType
<1>4. FileProc(break_conn(serverInfo, "EIO"), Shut(Link), Crypto)
  BY DEF Lost, Eof
<1>5. QED
  BY <1>1, <1>2, <1>3, <1>4, FileProcTyped

LEMMA WrittenTyped == ASSUME Typed, Written PROVE Typed'
<1> DEFINE msg == [serverInfo.msg EXCEPT !.mic = Crypto.write]
           l == [Link EXCEPT !.up = IF Link.server THEN <<msg>> ELSE <<>>]
           si == [serverInfo EXCEPT !.conn_state = "READING"]
<1>1. serverInfo \in Info /\ serverInfo.conn \in Conns /\ Link \in Wire /\ Crypto \in Context
  BY DoingTyped DEF Written
<1>2. msg \in Message
  BY <1>1 DEF Info, Message, Context
<1>3. <<msg>> \in Seq(Message) /\ <<>> \in Seq(Message)
  BY <1>2, One, Empty
<1>4. l \in Wire
  <2> HIDE DEF msg
  <2>1. QED
    BY <1>1, <1>3, Zenon DEF Wire
<1>5. si \in Info
  BY <1>1 DEF Info
<1>6. AfterWrite(Crypto) \in Context
  BY <1>1, AfterWriteType
<1>7. FileProc(si, l, AfterWrite(Crypto))
  BY DEF Written
<1> HIDE DEF l, si
<1>8. QED
  BY <1>1, <1>4, <1>5, <1>6, <1>7, FileProcTyped

LEMMA ReadTyped == ASSUME Typed, Read PROVE Typed'
<1> DEFINE reply == Head(Link.down)
           got == [serverInfo EXCEPT !.conn_state = "IODONE", !.state = "IDLE"]
           l == [Link EXCEPT !.down = <<>>]
           k == AfterRead(Crypto, reply.mic)
           bad(code) == do_close([make_error(got, code) EXCEPT !.value.id = IF code = "REPLY" THEN reply.id ELSE 0])
           good == [got EXCEPT !.value = Value("REPLY", reply.id), !.result = reply.result]
           done(written) == [got EXCEPT !.result = written]
<1>1. serverInfo \in Info /\ serverInfo.conn \in Conns /\ Link \in Wire /\ Crypto \in Context
  BY DoingTyped DEF Read
<1>2. reply \in Answer
  <2>1. Link.down \in Seq(Answer) /\ Link.down # <<>>
    BY <1>1 DEF Wire, Read
  <2>2. QED
    BY <2>1
<1>3. got \in Info
  BY <1>1, Zenon DEF Info
<1>4. l \in Wire /\ Shut(l) \in Wire
  <2>1. l \in Wire
    BY <1>1, Empty, Zenon DEF Wire
  <2>2. QED
    BY <2>1, WireType
<1>5. k \in Context
  BY <1>1, AfterReadType
<1>6. reply.id \in Nat /\ reply.result \in {"OK", "ERROR"}
  BY <1>2 DEF Answer
<1>7. \/ \E code \in {"REPLY", "EBADMIC"} : FileProc(bad(code), Shut(l), k)
      \/ FileProc(good, l, k)
      \/ \E written \in {"OK", "ERROR"} : FileProc(done(written), l, k)
  BY DEF Read
<1> HIDE DEF reply, got, l, k
<1>8. good \in Info
  <2>1. [got EXCEPT !.value = Value("REPLY", reply.id)] \in Info
    BY <1>3, <1>6, ValueType, Zenon
  <2>2. QED
    BY <1>3, <1>6, <2>1, Zenon DEF Info
<1>9. ASSUME NEW code \in {"REPLY", "EBADMIC"} PROVE bad(code) \in Info
  <2>1. make_error(got, code) \in Info
    BY <1>3, ErrorType, Zenon DEF Codes
  <2>2. [make_error(got, code) EXCEPT !.value.id = IF code = "REPLY" THEN reply.id ELSE 0] \in Info
    BY <1>6, <2>1 DEF Info, Values
  <2>3. QED
    BY <2>2, CloseType
<1>10. ASSUME NEW written \in {"OK", "ERROR"} PROVE done(written) \in Info
  BY <1>3 DEF Info
<1> HIDE DEF good, bad, done
<1>11. QED
  BY <1>1, <1>4, <1>5, <1>7, <1>8, <1>9, <1>10, FileProcTyped

LEMMA ServerStepTyped ==
    ASSUME Typed, NEW c \in Conns, NEW s \in ServerConn, NEW l \in Wire, NEW k \in Context, ServerStep(c, s, l, k),
           term' \in {"no", "signal", "shutdown", "down"}, committed' \in Seq(Nat), marks' \in Marks
    PROVE  Typed'
<1>1. link' \in [Conns -> Wire] /\ crypto' \in [Conns -> [{"client", "server"} -> Context]]
  BY DEF Typed, ServerStep
<1>2. server' \in [Conns -> ServerConn]
  BY DEF Typed, ServerStep
<1>3. QED
  BY <1>1, <1>2 DEF Typed, ServerStep

LEMMA GoneType == Gone \in ServerConn /\ [Gone EXCEPT !.state = "READING"] \in ServerConn
BY NoneType DEF Gone, ServerConn, Answer

LEMMA AcceptTyped == ASSUME Typed, NEW c \in Conns, server_accept(c) PROVE Typed'
<1>1. link[c] \in Wire /\ crypto[c]["server"] \in Context
  BY DEF Typed
<1>2. ServerStep(c, [Gone EXCEPT !.state = "READING"], link[c], crypto[c]["server"])
  BY DEF server_accept
<1>3. QED
  BY <1>1, <1>2, GoneType, ServerStepTyped DEF server_accept, Typed

LEMMA ReapTyped == ASSUME Typed, NEW c \in Conns, ServerEof(c) \/ Timeout(c) PROVE Typed'
<1>1. link[c] \in Wire
  BY DEF Typed
<1>2. ReapLink(link[c]) \in Wire
  BY <1>1, WireType
<1>3. ServerStep(c, Gone, ReapLink(link[c]), NoCrypto)
  BY DEF ServerEof, Timeout, Reap
<1>4. UNCHANGED <<term, committed, marks>>
  BY DEF ServerEof, Timeout, Reap
<1>5. QED
  BY <1>2, <1>3, <1>4, GoneType, NoneType, ServerStepTyped DEF Typed

LEMMA LoopEndTyped == ASSUME Typed, LoopEnd PROVE Typed'
<1>1. server' \in [Conns -> ServerConn]
  BY GoneType DEF LoopEnd
<1>2. link' \in [Conns -> Wire]
  BY WireType DEF LoopEnd, Typed
<1>3. crypto' \in [Conns -> [{"client", "server"} -> Context]]
  BY NoneType DEF LoopEnd, Typed
<1>4. QED
  BY <1>1, <1>2, <1>3 DEF LoopEnd, Typed

LEMMA RequestRead ==
    ASSUME Typed, NEW c \in Conns, link[c].up # <<>>
    PROVE  /\ Head(link[c].up) \in Message /\ Server(c) \in Context
           /\ AfterRead(Server(c), Head(link[c].up).mic) \in Context
<1>1. link[c] \in Wire /\ Server(c) \in Context
  BY DEF Typed, Server
<1>2. link[c].up \in Seq(Message)
  BY <1>1 DEF Wire
<1>3. Head(link[c].up) \in Message
  BY <1>2
<1>4. QED
  BY <1>1, <1>3, AfterReadType

\* What the server makes of a request, whichever it is.
Answers(c, msg, interp, result, k) ==
    /\ interp = 0 => result = "ERROR"
    /\ \/ /\ msg.auth # "none" /\ interp = IF result = "OK" THEN msg.id ELSE 0
          /\ \E o \in Auth_Read(msg, mic_ok(Server(c), msg.mic), AfterRead(Server(c), msg.mic)) :
               o.crypto = k /\ o.result = result
       \/ msg.auth = "none" /\ interp \in {0, server[c].interp} /\ k = AfterRead(Server(c), msg.mic)

LEMMA ReadDoneReplies ==
    ASSUME Typed, NEW c \in Conns, Read_Done(c), Head(link[c].up).id # 0
    PROVE  \E interp \in Nat, result \in {"OK", "ERROR"}, k \in Context :
             /\ Reply(c, Head(link[c].up), interp, result, k)
             /\ Answers(c, Head(link[c].up), interp, result, k)
<1> DEFINE msg == Head(link[c].up)
           read == AfterRead(Server(c), msg.mic)
<1>1. msg \in Message /\ Server(c) \in Context /\ read \in Context
  BY RequestRead DEF Read_Done
<1>2. server[c].interp \in Nat /\ msg.id \in Nat
  BY <1>1 DEF Typed, ServerConn, Message
<1>3. CASE msg.auth # "none" /\ Login(c, msg)
  <2> DEFINE good == mic_ok(Server(c), msg.mic)
  <2>1. PICK o \in Auth_Read(msg, good, read) :
          Reply(c, msg, IF o.result = "OK" THEN msg.id ELSE 0, o.result, o.crypto)
    BY <1>3 DEF Login, Server
  <2>2. good \in BOOLEAN
    BY DEF mic_ok
  <2> HIDE DEF good
  <2>3. o.result \in {"OK", "ERROR"} /\ o.crypto \in Context
    BY <1>1, <1>3, <2>1, <2>2, AuthReadType
  <2> DEFINE interp == IF o.result = "OK" THEN msg.id ELSE 0
  <2>4. interp \in Nat /\ (interp = 0 => o.result = "ERROR")
    BY <1>2, <2>3
  <2>5. Answers(c, msg, interp, o.result, o.crypto)
    BY <1>3, <2>1, <2>4 DEF Answers, good
  <2>6. QED
    BY <2>1, <2>3, <2>4, <2>5
<1>4. CASE msg.auth = "none" /\ server[c].interp # 0 /\ Conn_Execute(c, msg)
  <2>1. PICK interp \in {0, server[c].interp}, result \in {"OK", "ERROR"} :
          (interp = 0 => result = "ERROR") /\ Reply(c, msg, interp, result, read)
    BY <1>4 DEF Conn_Execute, Server
  <2>2. Answers(c, msg, interp, result, read)
    BY <1>4, <2>1 DEF Answers
  <2>3. QED
    BY <1>1, <1>2, <2>1, <2>2
<1>5. CASE msg.auth = "none" /\ Reply(c, msg, 0, "ERROR", read)
  <2>1. Answers(c, msg, 0, "ERROR", read)
    BY <1>5 DEF Answers
  <2>2. QED
    BY <1>1, <1>5, <2>1
<1>6. QED
  BY <1>3, <1>4, <1>5 DEF Read_Done, Server

LEMMA ReadDoneTyped == ASSUME Typed, NEW c \in Conns, Read_Done(c), Head(link[c].up).id # 0 PROVE Typed'
<1> DEFINE msg == Head(link[c].up)
           s(interp, result) == [state |-> "WRITING", interp |-> interp,
                                 reply |-> [id |-> msg.id, result |-> result, mic |-> None]]
           l == [link[c] EXCEPT !.up = <<>>]
<1>1. PICK interp \in Nat, result \in {"OK", "ERROR"}, k \in Context : Reply(c, msg, interp, result, k)
  BY ReadDoneReplies
<1>2. msg \in Message
  BY RequestRead DEF Read_Done
<1>3. l \in Wire
  BY Empty, ZenonT(30) DEF Typed, Wire
<1>4. s(interp, result) \in ServerConn
  BY <1>2, NoneType DEF ServerConn, Answer, Message
<1>5. ServerStep(c, s(interp, result), l, k)
  BY <1>1 DEF Reply
<1> HIDE DEF l, s
<1>6. term' \in {"no", "signal", "shutdown", "down"}
  BY DEF Typed, Read_Done, Login, Conn_Execute
<1>7. committed' \in Seq(Nat)
  <2>1. committed' = committed \/ committed' = Append(committed, msg.id)
    BY Zenon DEF Read_Done, Login, Conn_Execute
  <2>2. msg.id \in Nat /\ committed \in Seq(Nat)
    BY <1>2 DEF Typed, Message
  <2>3. QED
    BY <2>1, <2>2
<1>8. marks' \in Marks
  <2>1. msg.login \in Nat /\ server[c].interp \in Nat /\ marks \in Marks
    BY <1>2 DEF Typed, ServerConn, Message
  <2>2. marks' = marks \/ marks' = [marks EXCEPT !.ran = @ \cup {<<msg.login, server[c].interp>>}]
    BY Zenon DEF Read_Done, Login, Conn_Execute
  <2>3. <<msg.login, server[c].interp>> \in Pair
    BY <2>1 DEF Pair
  <2>4. QED
    BY <2>1, <2>2, <2>3 DEF Marks
<1>9. QED
  BY <1>3, <1>4, <1>5, <1>6, <1>7, <1>8, ServerStepTyped

LEMMA WriteDoneTyped == ASSUME Typed, NEW c \in Conns, Write_Done(c) PROVE Typed'
<1> DEFINE k == crypto[c]["server"]
           reply == [server[c].reply EXCEPT !.mic = k.write]
           l == [link[c] EXCEPT !.down = IF link[c].client THEN <<reply>> ELSE <<>>]
           s == [server[c] EXCEPT !.state = "READING"]
<1>1. server[c] \in ServerConn /\ link[c] \in Wire /\ k \in Context
  BY DEF Typed
<1>2. reply \in Answer
  BY <1>1 DEF ServerConn, Answer, Context
<1>3. l \in Wire
  <2>1. <<reply>> \in Seq(Answer) /\ <<>> \in Seq(Answer)
    BY <1>2, One, Empty
  <2> HIDE DEF reply
  <2>2. QED
    BY <1>1, <2>1, Zenon DEF Wire
<1>4. s \in ServerConn
  BY <1>1 DEF ServerConn
<1>5. ReapLink(l) \in Wire /\ AfterWrite(k) \in Context
  BY <1>1, <1>3, WireType, AfterWriteType
<1>6. ServerStep(c, Gone, ReapLink(l), NoCrypto) \/ ServerStep(c, s, l, AfterWrite(k))
  BY DEF Write_Done
<1> HIDE DEF l, s, k
<1>7. UNCHANGED <<term, committed, marks>>
  BY DEF Write_Done
<1>8. QED
  BY <1>3, <1>4, <1>5, <1>6, <1>7, GoneType, NoneType, ServerStepTyped DEF Typed

-----------------------------------------------------------------------------
(* Keys. *)

\* What the client does about the server does not change.
SameCall == serverInfo'.conn = serverInfo.conn /\ serverInfo'.conn_state = serverInfo.conn_state /\ serverInfo'.msg = serverInfo.msg

\* A step is about one connection.
LEMMA OtherConn ==
    ASSUME NEW d \in Conns, Paired(d), link'[d] = link[d], crypto'[d] = crypto[d], server'[d] = server[d],
           SameCall \/ (~Current(d) /\ ~Current(d)')
    PROVE  Paired(d)'
<1>1. Client(d)' = Client(d) /\ Server(d)' = Server(d)
  BY DEF Client, Server
<1>2. CASE SameCall
  BY <1>1, <1>2 DEF SameCall, Paired, HalfDuplex, KeysMatch, Current, Sending, Waiting, SharedKey
<1>3. CASE ~Current(d) /\ ~Current(d)'
  BY <1>1, <1>3, Zenon DEF Paired, HalfDuplex, KeysMatch
<1>4. QED
  BY <1>2, <1>3

LEMMA ConnectKeys == ASSUME KeyInv, Connect PROVE \A d \in Conns : Paired(d)'
<1>1. PICK c \in Conns :
        /\ link[c].fresh
        /\ serverInfo' = [serverInfo EXCEPT !.conn = c, !.conn_state = "NEW", !.state = "BUSY"]
        /\ link' = [link EXCEPT ![c].fresh = FALSE, ![c].client = TRUE]
  BY Zenon DEF Connect
<1>2. serverInfo.conn = 0 /\ crypto' = crypto /\ server' = server /\ serverInfo'.conn = c
  BY <1>1, Zenon DEF Connect, KeyInv, Typed, Info
<1>3. ASSUME NEW d \in Conns, d # c PROVE Paired(d)'
  BY <1>1, <1>2, <1>3, OtherConn DEF KeyInv, Typed, Current, Conns
<1>4. Paired(c)'
  <2>1. /\ link'[c].up = <<>> /\ link'[c].down = <<>> /\ link'[c].server = link[c].server
        /\ ~link'[c].fresh /\ link'[c].client
    BY <1>1, <1>2 DEF KeyInv, Paired, Typed, Wire, HalfDuplex, Current, Conns
  <2>2. Client(c)' = NoCrypto /\ Server(c)' = NoCrypto /\ server'[c].state = "none" /\ server'[c].interp = 0
    BY <1>1, <1>2 DEF KeyInv, Paired, HalfDuplex, Client, Server
  <2>3. Current(c)' /\ serverInfo'.conn_state = "NEW"
    BY <1>1 DEF KeyInv, Typed, Info, Current
  <2>4. HalfDuplex(c)'
    BY <2>1, <2>2, <2>3 DEF HalfDuplex, Sending
  <2>5. KeysMatch(c)'
    BY <2>1, <2>2, <2>3 DEF KeysMatch, NoCrypto, Sending
  <2>6. QED
    BY <2>4, <2>5 DEF Paired
<1>5. QED
  BY <1>3, <1>4

\* The keys of the client's end once a login is written.
LEMMA AuthWriteKeys ==
    ASSUME NEW auth \in Auths, NEW k \in Context, NEW n \in Nat
    PROVE  /\ Auth_Write(auth, k, n).write = k.write
           /\ Auth_Write(auth, k, n).read = IF auth \in {"ukrbv", "ukrbiv"} THEN Key(n, 0) ELSE k.read
<1>1. auth \in {"ukrbv", "ukrbiv", "trivial", "upasswd"}
  BY Bounds
<1>2. /\ Mic_Enable(k, "read", n, 0).write = k.write
      /\ Mic_Enable(k, "read", n, 0).read = Key(n, 0)
  BY DEF Mic_Enable, Context
<1>3. QED
  BY <1>1, <1>2 DEF Auth_Write, Uk5_write_auth, Uk4_write_auth, Trivial_write_auth, Upasswd_write_auth

LEMMA RequestKeys ==
    ASSUME KeyInv, NEW kind, NEW msg, msg.id # 0, NEW channel, Request(kind, msg, channel),
           NEW c \in Conns, c = serverInfo.conn,
           \A d \in Conns : d # c => crypto'[d] = crypto[d],
           Server(c)' = Server(c), Client(c)'.write = Client(c).write,
           Client(c)'.read = IF msg.auth \in {"ukrbv", "ukrbiv"} THEN Key(msg.id, 0) ELSE Client(c).read
    PROVE  \A d \in Conns : Paired(d)'
<1>1. /\ serverInfo'.conn = c /\ serverInfo'.conn_state = "WRITING" /\ serverInfo'.msg = msg
      /\ link' = link /\ server' = server
  BY DEF KeyInv, Typed, Info, Request
<1>2. ASSUME NEW d \in Conns, d # c PROVE Paired(d)'
  BY <1>1, <1>2, OtherConn DEF KeyInv, Current
<1>3. HalfDuplex(c) /\ KeysMatch(c) /\ Current(c) /\ serverInfo.conn_state = "IODONE"
  BY DEF KeyInv, Paired, Current, IdleIsDone, Request, Conns
<1>4. link[c].up = <<>> /\ link[c].down = <<>> /\ server[c].state # "WRITING"
  BY <1>3 DEF HalfDuplex, Waiting
<1>5. HalfDuplex(c)'
  BY <1>1, <1>3, <1>4 DEF HalfDuplex, Current
<1>6. KeysMatch(c)'
  BY <1>1, <1>3, <1>4, Zenon DEF KeysMatch, Current, Sending, SharedKey
<1>7. QED
  BY <1>2, <1>5, <1>6 DEF Paired

LEMMA CurrentConn ==
    ASSUME KeyInv, serverInfo.conn # 0
    PROVE  serverInfo.conn \in Conns
<1>1. serverInfo \in Info
  BY DEF KeyInv, Typed
<1>2. QED
  BY <1>1 DEF Info, ConnId

LEMMA SendAuthKeys == ASSUME KeyInv, NEW auth \in Auths, Send_Auth(auth) PROVE \A d \in Conns : Paired(d)'
<1> DEFINE msg == [id |-> calls + 1, auth |-> auth, login |-> calls + 1, mic |-> None]
<1>1. Request("auth", msg, serverInfo.channel)
  BY DEF Send_Auth
<1>2. PICK c \in Conns : c = serverInfo.conn
  BY <1>1, CurrentConn DEF Request
<1>3. /\ \A d \in Conns : d # c => crypto'[d] = crypto[d]
      /\ Server(c)' = Server(c) /\ Client(c)' = Auth_Write(auth, Client(c), calls + 1)
  BY <1>2 DEF Send_Auth, KeyInv, Typed, Server, Client
<1>4. Client(c) \in Context /\ calls + 1 \in Nat /\ msg.id # 0
  BY <1>2 DEF KeyInv, Typed, Client
<1>5. /\ Client(c)'.write = Client(c).write
      /\ Client(c)'.read = IF msg.auth \in {"ukrbv", "ukrbiv"} THEN Key(msg.id, 0) ELSE Client(c).read
  BY <1>3, <1>4, AuthWriteKeys
<1> HIDE DEF msg
<1>6. QED
  BY <1>1, <1>2, <1>3, <1>4, <1>5, RequestKeys

LEMMA SendKeys == ASSUME KeyInv, NEW channel \in BOOLEAN, Send(channel) PROVE \A d \in Conns : Paired(d)'
<1> DEFINE msg == [id |-> calls + 1, auth |-> "none", login |-> marks.login, mic |-> None]
<1>1. Request("send", msg, channel)
  BY DEF Send
<1>2. PICK c \in Conns : c = serverInfo.conn
  BY <1>1, CurrentConn DEF Request
<1>3. crypto' = crypto /\ Server(c)' = Server(c) /\ Client(c)' = Client(c) /\ msg.auth = "none" /\ msg.id # 0
  BY DEF KeyInv, Typed, Send, Server, Client
<1> HIDE DEF msg
<1>4. QED
  BY <1>1, <1>2, <1>3, RequestKeys

\* The client closes its end.
LEMMA ClosedKeys ==
    ASSUME NEW c \in Conns, Paired(c), c = serverInfo.conn, serverInfo'.conn = 0,
           NEW l \in Wire, l.up = link[c].up, l.server = link[c].server, l.fresh = link[c].fresh, link'[c] = Shut(l),
           Client(c)'.write # None => Client(c)'.write.seq # 0, Server(c)' = Server(c), server'[c] = server[c]
    PROVE  Paired(c)'
<1>1. HalfDuplex(c) /\ KeysMatch(c) /\ Current(c) /\ ~Current(c)'
  BY DEF Paired, Current, Conns
<1>2. link'[c].up = link[c].up /\ link'[c].down = <<>> /\ link'[c].server = link[c].server /\ ~link'[c].client
  BY DEF Wire, Shut
<1>3. link'[c].fresh = l.fresh
  BY DEF Wire, Shut
<1>4. HalfDuplex(c)'
  BY <1>1, <1>2, <1>3, Zenon DEF HalfDuplex
<1>5. KeysMatch(c)'
  BY <1>1, <1>2, Zenon DEF KeysMatch
<1>6. QED
  BY <1>4, <1>5 DEF Paired

\* ... and does nothing else.
LEMMA OnlyClosedKeys ==
    ASSUME KeyInv, NEW c \in Conns, c = serverInfo.conn, serverInfo'.conn = 0,
           link' = [link EXCEPT ![c] = Shut(@)], crypto' = crypto, server' = server
    PROVE  \A d \in Conns : Paired(d)'
<1>1. ASSUME NEW d \in Conns, d # c PROVE Paired(d)'
  BY <1>1, OtherConn DEF KeyInv, Typed, Current, Conns
<1>2. Paired(c) /\ Client(c)' = Client(c) /\ Server(c)' = Server(c) /\ link[c] \in Wire /\ link'[c] = Shut(link[c])
  BY DEF KeyInv, Typed, Client, Server
<1>3. Client(c).write # None => Client(c).write.seq # 0
  BY <1>2 DEF Paired, KeysMatch
<1>4. Paired(c)'
  BY <1>2, <1>3, ClosedKeys
<1>5. QED
  BY <1>1, <1>4

LEMMA CloseClears == ASSUME NEW si \in Info PROVE do_close(si).conn = 0 /\ do_close(si).state = "IDLE"
BY DEF Info, do_close

LEMMA CancelKeys == ASSUME KeyInv, Cancel PROVE \A d \in Conns : Paired(d)'
<1>1. PICK c \in Conns : c = serverInfo.conn
  BY CurrentConn DEF Cancel, KeyInv, IdleIsDone
<1>2. serverInfo'.conn = 0
  <2>1. serverInfo \in Info /\ serverInfo' = do_close(make_error(serverInfo, "OPCANCELED"))
    BY DEF Cancel, KeyInv, Typed
  <2>2. QED
    BY <2>1, ErrorType, CloseClears, Zenon DEF Codes
<1>3. link' = [link EXCEPT ![c] = Shut(@)] /\ crypto' = crypto /\ server' = server
  BY <1>1 DEF Cancel
<1>4. QED
  BY <1>1, <1>2, <1>3, OnlyClosedKeys, Zenon

LEMMA DisconnectKeys == ASSUME KeyInv, Disconnect PROVE \A d \in Conns : Paired(d)'
<1>1. PICK c \in Conns : c = serverInfo.conn
  BY CurrentConn DEF Disconnect
<1>2. serverInfo'.conn = 0
  BY CloseClears DEF Disconnect, KeyInv, Typed
<1>3. link' = [link EXCEPT ![c] = Shut(@)] /\ crypto' = crypto /\ server' = server
  BY <1>1 DEF Disconnect
<1>4. QED
  BY <1>1, <1>2, <1>3, OnlyClosedKeys, Zenon

\* What file_proc does to the connection it is about.
LEMMA FileProcAt ==
    ASSUME KeyInv, NEW c \in Conns, c = serverInfo.conn, NEW si \in Info, NEW l, NEW k, FileProc(si, l, k),
           si.conn \in {0, c}
    PROVE  /\ serverInfo' = si /\ link'[c] = l /\ Client(c)' = k /\ Server(c)' = Server(c) /\ server' = server
           /\ \A d \in Conns : d # c => Paired(d)'
<1>1. /\ serverInfo' = si /\ link'[c] = l /\ Client(c)' = k /\ Server(c)' = Server(c) /\ server' = server
      /\ \A d \in Conns : d # c => link'[d] = link[d] /\ crypto'[d] = crypto[d]
  BY DEF FileProc, KeyInv, Typed, Client, Server
<1>2. ASSUME NEW d \in Conns, d # c PROVE Paired(d)'
  BY <1>1, <1>2, OtherConn DEF KeyInv, Current, Conns
<1>3. QED
  BY <1>1, <1>2

LEMMA BreakClears == ASSUME NEW si \in Info, NEW code \in Codes PROVE break_conn(si, code).conn = 0 /\ break_conn(si, code).state = "IDLE"
BY ErrorType, CloseClears DEF break_conn

LEMMA BrokenKeys ==
    ASSUME KeyInv, serverInfo.conn # 0, NEW code \in Codes,
           FileProc(break_conn(serverInfo, code), Shut(Link), Crypto)
    PROVE  \A d \in Conns : Paired(d)'
<1>1. PICK c \in Conns : c = serverInfo.conn
  BY CurrentConn
<1>2. serverInfo \in Info /\ link[c] \in Wire /\ Paired(c) /\ Link = link[c] /\ Crypto = Client(c)
  BY <1>1 DEF KeyInv, Typed, Link, Crypto, Client
<1> DEFINE si == break_conn(serverInfo, code)
<1>3. si \in Info /\ si.conn = 0
  BY <1>2, BreakType, BreakClears
<1>4. FileProc(si, Shut(link[c]), Client(c))
  BY <1>2
<1> HIDE DEF si
<1>5. /\ serverInfo' = si /\ link'[c] = Shut(link[c]) /\ Client(c)' = Client(c) /\ Server(c)' = Server(c)
      /\ server' = server /\ \A d \in Conns : d # c => Paired(d)'
  BY <1>1, <1>3, <1>4, FileProcAt
<1>6. Client(c).write # None => Client(c).write.seq # 0
  BY <1>2 DEF Paired, KeysMatch
<1>7. Paired(c)'
  BY <1>1, <1>2, <1>3, <1>5, <1>6, ClosedKeys
<1>8. QED
  BY <1>5, <1>7

LEMMA ConnectedKeys == ASSUME KeyInv, Connected PROVE \A d \in Conns : Paired(d)'
<1>1. CASE FileProc(break_conn(serverInfo, "EAGAIN"), Shut(Link), Crypto)
  BY <1>1, BrokenKeys, Zenon DEF Connected, Doing, Codes
<1> DEFINE si == [serverInfo EXCEPT !.conn_state = "IODONE", !.state = "IDLE", !.result = "OK"]
<1>2. CASE FileProc(si, Link, Crypto)
  <2>1. PICK c \in Conns : c = serverInfo.conn
    BY CurrentConn DEF Connected, Doing
  <2>2. Paired(c) /\ Link = link[c] /\ Crypto = Client(c) /\ serverInfo.conn_state = "NEW"
    BY <2>1 DEF KeyInv, Link, Crypto, Client, Connected, Doing
  <2>3. si \in Info /\ si.conn = c /\ si.conn_state = "IODONE" /\ si.msg = serverInfo.msg
    BY <2>1, Zenon DEF KeyInv, Typed, Info
  <2>4. FileProc(si, link[c], Client(c))
    BY <1>2, <2>2
  <2> HIDE DEF si
  <2>5. /\ serverInfo' = si /\ link'[c] = link[c] /\ Client(c)' = Client(c) /\ Server(c)' = Server(c)
        /\ server' = server /\ \A d \in Conns : d # c => Paired(d)'
    BY <2>1, <2>3, <2>4, FileProcAt
  <2>6. Paired(c)'
    BY <2>1, <2>2, <2>3, <2>5, Zenon DEF Paired, HalfDuplex, KeysMatch, Current, Sending, Waiting
  <2>7. QED
    BY <2>5, <2>6
<1>3. QED
  BY <1>1, <1>2 DEF Connected

LEMMA LostKeys == ASSUME KeyInv, Lost \/ Eof PROVE \A d \in Conns : Paired(d)'
BY BrokenKeys, Zenon DEF Lost, Eof, Doing, Codes

LEMMA AfterWriteKeys ==
    ASSUME NEW k \in Context, k.write # None => k.write.seq # 0
    PROVE  /\ AfterWrite(k).read = k.read /\ AfterWrite(k).write = Bump(k.write)
           /\ Bump(k.write) # None => Bump(k.write).seq # 0
<1>1. CASE k.write = None
  BY <1>1 DEF AfterWrite, Bump
<1>2. CASE k.write # None
  <2>1. k.write \in Mic /\ k.write.seq # 0
    BY <1>2 DEF Context
  <2>2. AfterWrite(k) = [k EXCEPT !.write.seq = @ + 1]
    BY <1>2, <2>1 DEF AfterWrite
  <2>3. Bump(k.write) = [k.write EXCEPT !.seq = @ + 1]
    BY <1>2 DEF Bump
  <2>4. QED
    BY <2>1, <2>2, <2>3 DEF Context, Mic
<1>3. QED
  BY <1>1, <1>2

LEMMA WrittenKeys == ASSUME KeyInv, Written PROVE \A d \in Conns : Paired(d)'
<1>1. PICK c \in Conns : c = serverInfo.conn
  BY CurrentConn DEF Written, Doing
<1> DEFINE msg == [serverInfo.msg EXCEPT !.mic = Client(c).write]
           l == [link[c] EXCEPT !.up = IF link[c].server THEN <<msg>> ELSE <<>>]
           si == [serverInfo EXCEPT !.conn_state = "READING"]
           k == AfterWrite(Client(c))
<1>2. HalfDuplex(c) /\ KeysMatch(c) /\ Current(c) /\ Sending /\ link[c] \in Wire /\ Client(c) \in Context
  BY <1>1 DEF KeyInv, Typed, Paired, Client, Current, Sending, Written, Doing
<1>3. link[c].up = <<>> /\ link[c].down = <<>> /\ server[c].state # "WRITING"
  BY <1>2 DEF HalfDuplex, Sending, Waiting
<1>4. FileProc(si, l, k)
  BY <1>1 DEF Written, Link, Crypto, Client
<1>5. si \in Info /\ si.conn = c /\ si.conn_state = "READING" /\ si.msg = serverInfo.msg
  BY <1>1 DEF KeyInv, Typed, Info
<1>6. msg.id = serverInfo.msg.id /\ msg.auth = serverInfo.msg.auth /\ msg.mic = Client(c).write
  BY DEF KeyInv, Typed, Info, Message
<1>7. /\ l.up = IF link[c].server THEN <<msg>> ELSE <<>>
      /\ l.down = link[c].down /\ l.server = link[c].server /\ l.fresh = link[c].fresh /\ l.client = link[c].client
  BY <1>2 DEF Wire
<1>8. k.read = Client(c).read /\ k.write = Bump(Client(c).write) /\ (k.write # None => k.write.seq # 0)
  BY <1>2, AfterWriteKeys DEF KeysMatch
<1> HIDE DEF l, si, k
<1>9. /\ serverInfo' = si /\ link'[c] = l /\ Client(c)' = k /\ Server(c)' = Server(c)
      /\ server' = server /\ \A d \in Conns : d # c => Paired(d)'
  BY <1>1, <1>4, <1>5, FileProcAt
<1> HIDE DEF msg
<1>10. <<msg>> # <<>> /\ Len(<<msg>>) = 1 /\ Head(<<msg>>) = msg
  OBVIOUS
<1>11. HalfDuplex(c)'
  BY <1>2, <1>3, <1>5, <1>6, <1>7, <1>9, <1>10, ZenonT(30) DEF HalfDuplex, Current, Sending, Waiting
<1>12. KeysMatch(c)'
  <2>1. /\ serverInfo'.conn_state = "READING" /\ ~Sending' /\ SharedKey' = SharedKey
        /\ link'[c].down = <<>> /\ server'[c].state # "WRITING" /\ link'[c].server = link[c].server
    BY <1>3, <1>5, <1>7, <1>9 DEF Sending, SharedKey
  <2>2. link'[c].up # <<>> => link[c].server /\ Head(link'[c].up).mic = Client(c).write
    BY <1>6, <1>7, <1>9, <1>10
  <2>3. /\ Server(c).read # None => Server(c).read.seq # 0
        /\ link[c].server => /\ Client(c).write = Server(c).read
                             /\ Client(c).read = IF SharedKey THEN Key(serverInfo.msg.id, 0) ELSE Server(c).write
    BY <1>2 DEF KeysMatch
  <2>4. serverInfo'.msg.id = serverInfo.msg.id
    BY <1>5, <1>9
  <2>5. QED
    BY <1>8, <1>9, <2>1, <2>2, <2>3, <2>4, Zenon DEF KeysMatch
<1>13. QED
  BY <1>9, <1>11, <1>12 DEF Paired

LEMMA AfterReadKeys ==
    ASSUME NEW k \in Context, NEW m, k.write # None => k.write.seq # 0
    PROVE  /\ AfterRead(k, m).write # None => AfterRead(k, m).write.seq # 0
           /\ mic_ok(k, m) => AfterRead(k, m) = AfterRead(k, k.read)
<1>1. mic_ok(k, m) => AfterRead(k, m) = AfterRead(k, k.read)
  BY DEF AfterRead, mic_ok
<1>2. CASE k.read = None \/ ~mic_ok(k, m)
  BY <1>1, <1>2 DEF AfterRead
<1>3. CASE k.read # None /\ k.read.seq = 0 /\ mic_ok(k, m)
  <2>1. AfterRead(k, m) = [Mic_Enable(k, "write", k.read.key, 1) EXCEPT !.read.seq = @ + 1]
    BY <1>3 DEF AfterRead
  <2>2. AfterRead(k, m).write = Key(k.read.key, 1)
    BY <2>1, Zenon DEF Mic_Enable, Context
  <2>3. QED
    BY <1>1, <2>2 DEF Key
<1>4. CASE k.read # None /\ k.read.seq # 0 /\ mic_ok(k, m)
  <2>1. AfterRead(k, m) = [k EXCEPT !.read.seq = @ + 1]
    BY <1>4 DEF AfterRead
  <2>2. AfterRead(k, m).write = k.write
    BY <2>1 DEF Context
  <2>3. QED
    BY <1>1, <2>2
<1>5. QED
  BY <1>2, <1>3, <1>4

LEMMA ReadKeys == ASSUME KeyInv, Read PROVE \A d \in Conns : Paired(d)'
<1>1. PICK c \in Conns : c = serverInfo.conn
  BY CurrentConn DEF Read, Doing
<1> DEFINE reply == Head(link[c].down)
           got == [serverInfo EXCEPT !.conn_state = "IODONE", !.state = "IDLE"]
           l == [link[c] EXCEPT !.down = <<>>]
           k == AfterRead(Client(c), reply.mic)
           bad(code) == do_close([make_error(got, code) EXCEPT !.value.id = IF code = "REPLY" THEN reply.id ELSE 0])
           good == [got EXCEPT !.value = Value("REPLY", reply.id), !.result = reply.result]
           done(written) == [got EXCEPT !.result = written]
<1>2. HalfDuplex(c) /\ KeysMatch(c) /\ Current(c) /\ Waiting /\ link[c] \in Wire /\ Client(c) \in Context
  BY <1>1 DEF KeyInv, Typed, Paired, Client, Current, Waiting, Read, Doing
<1>3. link[c].down # <<>> /\ link[c].up = <<>> /\ server[c].state # "WRITING"
  BY <1>1, <1>2, Zenon DEF HalfDuplex, Read, Link
<1>4. got \in Info /\ got.conn = c /\ got.conn_state = "IODONE" /\ got.msg = serverInfo.msg
  BY <1>1, Zenon DEF KeyInv, Typed, Info
<1>5. /\ l.up = <<>> /\ l.down = <<>> /\ l.server = link[c].server
      /\ l.fresh = link[c].fresh /\ l.client = link[c].client /\ l \in Wire
  BY <1>2, <1>3, Empty DEF Wire
<1>6. \/ \E code \in {"REPLY", "EBADMIC"} : FileProc(bad(code), Shut(l), k)
      \/ mic_ok(Client(c), reply.mic) /\ FileProc(good, l, k)
      \/ mic_ok(Client(c), reply.mic) /\ \E written \in {"OK", "ERROR"} : FileProc(done(written), l, k)
  BY <1>1, Zenon DEF Read, Link, Crypto, Client
<1>7. reply.id \in Nat /\ reply.result \in {"OK", "ERROR"}
  <2>1. link[c].down \in Seq(Answer)
    BY <1>2 DEF Wire
  <2>2. reply \in Answer
    BY <1>3, <2>1
  <2>3. QED
    BY <2>2 DEF Answer
<1>8. /\ k.write # None => k.write.seq # 0
      /\ mic_ok(Client(c), reply.mic) => k = AfterRead(Client(c), Client(c).read)
  BY <1>2, AfterReadKeys, Zenon DEF KeysMatch
<1> HIDE DEF got, l, k, reply
<1>9. ASSUME NEW code \in {"REPLY", "EBADMIC"}, FileProc(bad(code), Shut(l), k) PROVE \A d \in Conns : Paired(d)'
  <2> DEFINE err == [make_error(got, code) EXCEPT !.value.id = IF code = "REPLY" THEN reply.id ELSE 0]
  <2>1. make_error(got, code) \in Info
    BY <1>4, ErrorType, Zenon DEF Codes
  <2>2. err \in Info
    BY <1>7, <2>1 DEF Info, Values
  <2> HIDE DEF err
  <2>3. do_close(err) \in Info /\ do_close(err).conn = 0
    BY <2>2, CloseType, CloseClears
  <2>4. FileProc(do_close(err), Shut(l), k)
    BY <1>9 DEF err
  <2>5. /\ serverInfo'.conn = 0 /\ link'[c] = Shut(l) /\ Client(c)' = k /\ Server(c)' = Server(c)
        /\ server' = server /\ \A d \in Conns : d # c => Paired(d)'
    BY <1>1, <2>3, <2>4, FileProcAt
  <2>6. Paired(c)'
    BY <1>1, <1>2, <1>3, <1>5, <1>8, <2>5, ClosedKeys DEF Paired
  <2>7. QED
    BY <2>5, <2>6
<1>10. ASSUME NEW si \in Info, si.conn = c, si.conn_state = "IODONE", FileProc(si, l, k),
              mic_ok(Client(c), reply.mic)
       PROVE  \A d \in Conns : Paired(d)'
  <2>1. /\ serverInfo' = si /\ link'[c] = l /\ Client(c)' = k /\ Server(c)' = Server(c)
        /\ server' = server /\ \A d \in Conns : d # c => Paired(d)'
    BY <1>1, <1>10, FileProcAt
  <2>2. HalfDuplex(c)'
    BY <1>2, <1>3, <1>5, <1>10, <2>1, Zenon DEF HalfDuplex, Current, Sending
  <2>3. KeysMatch(c)'
    BY <1>2, <1>3, <1>5, <1>8, <1>10, <2>1, Zenon DEF KeysMatch, Current, Sending
  <2>4. QED
    BY <2>1, <2>2, <2>3 DEF Paired
<1>11. good \in Info /\ good.conn = c /\ good.conn_state = "IODONE"
  BY <1>4, <1>7, Zenon DEF Info, Values, Codes, Value
<1>12. ASSUME NEW written \in {"OK", "ERROR"}
       PROVE  done(written) \in Info /\ done(written).conn = c /\ done(written).conn_state = "IODONE"
  BY <1>4 DEF Info
<1> HIDE DEF good, bad, done
<1>13. QED
  BY <1>6, <1>9, <1>10, <1>11, <1>12 DEF bad

LEMMA ReturnKeys == ASSUME KeyInv, EndHandler \/ io_wait PROVE \A d \in Conns : Paired(d)'
<1>1. SameCall
  BY DEF KeyInv, Typed, Info, SameCall, EndHandler, io_wait
<1>2. link' = link /\ crypto' = crypto /\ server' = server
  BY DEF EndHandler, io_wait
<1>3. QED
  BY <1>1, <1>2, OtherConn DEF KeyInv

=============================================================================
