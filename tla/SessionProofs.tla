---------------------------- MODULE SessionProofs ----------------------------
(* Proofs about the calls of a client, for any number of connections and calls   *)
(* and any of the authentication modules: the steps of the server, and the       *)
(* theorems about checksums and logins.                                          *)
EXTENDS SessionClient

\* The server reaps a connection.
LEMMA ReapedKeys ==
    ASSUME NEW c \in Conns, Paired(c), NEW l \in Wire, l.up = link[c].up, l.client = link[c].client,
           l.fresh = link[c].fresh,
           \/ l.down \in {link[c].down, <<>>}
           \/ Current(c) /\ Waiting /\ Len(l.down) = 1 /\ Head(l.down).result = "ERROR",
           link'[c] = ReapLink(l), server'[c] = Gone, Server(c)' = NoCrypto, Client(c)' = Client(c),
           serverInfo' = serverInfo
    PROVE  Paired(c)'
<1>1. HalfDuplex(c) /\ KeysMatch(c)
  BY DEF Paired
<1>2. /\ link'[c].up = <<>> /\ link'[c].down = l.down /\ ~link'[c].server
      /\ link'[c].client = link[c].client /\ link'[c].fresh = link[c].fresh
  BY DEF Wire, ReapLink
<1>3. server'[c].state = "none" /\ server'[c].interp = 0
  BY DEF Gone
<1>4. HalfDuplex(c)'
  BY <1>1, <1>2, <1>3, ZenonT(30) DEF HalfDuplex, Current, Sending, Waiting
<1>5. KeysMatch(c)'
  <2>1. Server(c)'.read = None /\ (Client(c)'.write # None => Client(c)'.write.seq # 0)
    BY <1>1 DEF KeysMatch, NoCrypto
  <2>2. link'[c].down # <<>> =>
          Head(link'[c].down).mic = Client(c)'.read \/ Head(link'[c].down).result = "ERROR"
    BY <1>1, <1>2 DEF KeysMatch
  <2>3. QED
    BY <1>2, <2>1, <2>2, Zenon DEF KeysMatch
<1>6. QED
  BY <1>4, <1>5 DEF Paired

\* What a step of the server does to the connection it is about.
LEMMA ServerStepAt ==
    ASSUME KeyInv, NEW c \in Conns, NEW s, NEW l, NEW k, ServerStep(c, s, l, k)
    PROVE  /\ server'[c] = s /\ link'[c] = l /\ Server(c)' = k /\ Client(c)' = Client(c) /\ serverInfo' = serverInfo
           /\ \A d \in Conns : d # c => Paired(d)'
<1>1. /\ server'[c] = s /\ link'[c] = l /\ Server(c)' = k /\ Client(c)' = Client(c) /\ serverInfo' = serverInfo
      /\ \A d \in Conns : d # c => link'[d] = link[d] /\ crypto'[d] = crypto[d] /\ server'[d] = server[d]
  BY DEF ServerStep, KeyInv, Typed, Client, Server
<1>2. ASSUME NEW d \in Conns, d # c PROVE Paired(d)'
  BY <1>1, <1>2, OtherConn, ZenonT(30) DEF KeyInv, SameCall
<1>3. QED
  BY <1>1, <1>2, Zenon

LEMMA OnlyReapedKeys ==
    ASSUME KeyInv, NEW c \in Conns, link'[c] = ReapLink(link[c]), server'[c] = Gone, Server(c)' = NoCrypto,
           Client(c)' = Client(c), serverInfo' = serverInfo
    PROVE  Paired(c)'
<1>1. PICK l \in Wire : l = link[c]
  BY DEF KeyInv, Typed
<1>2. Paired(c) /\ l.up = link[c].up /\ l.client = link[c].client /\ l.fresh = link[c].fresh /\ l.down = link[c].down
  BY <1>1 DEF KeyInv
<1>3. link'[c] = ReapLink(l)
  BY <1>1
<1>4. QED
  BY <1>2, <1>3, ReapedKeys, Zenon

LEMMA ReapKeys == ASSUME KeyInv, NEW c \in Conns, ServerEof(c) \/ Timeout(c) PROVE \A d \in Conns : Paired(d)'
<1>1. ServerStep(c, Gone, ReapLink(link[c]), NoCrypto)
  BY DEF ServerEof, Timeout, Reap
<1>2. /\ server'[c] = Gone /\ link'[c] = ReapLink(link[c]) /\ Server(c)' = NoCrypto /\ Client(c)' = Client(c)
      /\ serverInfo' = serverInfo /\ \A d \in Conns : d # c => Paired(d)'
  BY <1>1, ServerStepAt
<1>3. Paired(c)'
  BY <1>2, OnlyReapedKeys
<1>4. QED
  BY <1>2, <1>3

LEMMA LoopEndKeys == ASSUME KeyInv, LoopEnd PROVE \A d \in Conns : Paired(d)'
<1>1. ASSUME NEW d \in Conns PROVE Paired(d)'
  <2>1. /\ link'[d] = ReapLink(link[d]) /\ server'[d] = Gone /\ Server(d)' = NoCrypto /\ Client(d)' = Client(d)
        /\ serverInfo' = serverInfo
    BY DEF LoopEnd, KeyInv, Typed, Server, Client
  <2>2. QED
    BY <2>1, OnlyReapedKeys
<1>2. QED
  BY <1>1

LEMMA AcceptKeys == ASSUME KeyInv, NEW c \in Conns, server_accept(c) PROVE \A d \in Conns : Paired(d)'
<1> DEFINE s == [Gone EXCEPT !.state = "READING"]
<1>1. ServerStep(c, s, link[c], Server(c))
  BY DEF server_accept, Server
<1>2. s.state = "READING" /\ s.interp = 0
  BY DEF Gone
<1> HIDE DEF s
<1>3. /\ server'[c] = s /\ link'[c] = link[c] /\ Server(c)' = Server(c) /\ Client(c)' = Client(c)
      /\ serverInfo' = serverInfo /\ \A d \in Conns : d # c => Paired(d)'
  BY <1>1, ServerStepAt
<1>4. Paired(c) /\ link[c].server /\ ~link[c].fresh /\ server[c].state = "none"
  BY DEF KeyInv, server_accept
<1>5. HalfDuplex(c)'
  BY <1>2, <1>3, <1>4, Zenon DEF Paired, HalfDuplex, Current, Sending, Waiting
<1>6. KeysMatch(c)'
  BY <1>2, <1>3, <1>4, Zenon DEF Paired, KeysMatch, Current, Sending, SharedKey
<1>7. QED
  BY <1>3, <1>5, <1>6 DEF Paired

\* The keys of the server's end once a login is read.
LEMMA AuthReadKeys ==
    ASSUME NEW msg \in Message, msg.auth # "none", NEW good, NEW k \in Context,
           NEW o \in Auth_Read(msg, good, k)
    PROVE  /\ o.crypto.read = k.read
           /\ o.result = "OK" => o.crypto.write = IF msg.auth \in {"ukrbv", "ukrbiv"} THEN Key(msg.id, 0) ELSE k.write
<1>1. msg.auth \in {"ukrbv", "ukrbiv", "trivial", "upasswd"}
  BY Bounds, Zenon DEF Message
<1>2. /\ Mic_Enable(k, "write", msg.id, 0).read = k.read
      /\ Mic_Enable(k, "write", msg.id, 0).write = Key(msg.id, 0)
  BY DEF Mic_Enable, Context
<1>3. o = Outcome("ERROR", k) => o.result # "OK" /\ o.crypto = k
  BY DEF Outcome
<1>4. CASE good /\ msg.auth \in {"ukrbv", "ukrbiv"}
  <2>1. o = Outcome("ERROR", k) \/ \E r \in {"OK", "ERROR"} : o = Outcome(r, Mic_Enable(k, "write", msg.id, 0))
    BY <1>4 DEF Auth_Read, Uk5_read_auth, Uk4_read_auth
  <2>2. QED
    BY <1>2, <1>3, <1>4, <2>1 DEF Outcome
<1>5. CASE good /\ msg.auth \in {"trivial", "upasswd"}
  <2>1. \E r \in {"OK", "ERROR"} : o = Outcome(r, k)
    BY <1>5 DEF Auth_Read, Trivial_read_auth, Upasswd_read_auth
  <2>2. QED
    BY <1>5, <2>1 DEF Outcome
<1>6. CASE ~good
  BY <1>3, <1>6 DEF Auth_Read
<1>7. QED
  BY <1>1, <1>4, <1>5, <1>6, Zenon

LEMMA AfterReadNext ==
    ASSUME NEW k \in Context, k.read # None => k.read.seq # 0
    PROVE  /\ AfterRead(k, k.read).read = Bump(k.read) /\ AfterRead(k, k.read).write = k.write
           /\ Bump(k.read) # None => Bump(k.read).seq # 0
<1>1. CASE k.read = None
  BY <1>1 DEF AfterRead, Bump
<1>2. CASE k.read # None
  <2>1. k.read \in Mic /\ k.read.seq # 0
    BY <1>2 DEF Context
  <2>2. AfterRead(k, k.read) = [k EXCEPT !.read.seq = @ + 1]
    BY <1>2, <2>1 DEF AfterRead, mic_ok
  <2>3. Bump(k.read) = [k.read EXCEPT !.seq = @ + 1]
    BY <1>2 DEF Bump
  <2>4. QED
    BY <2>1, <2>2, <2>3 DEF Context, Mic
<1>3. QED
  BY <1>1, <1>2

LEMMA ReadDoneKeys == ASSUME KeyInv, NEW c \in Conns, Read_Done(c) PROVE \A d \in Conns : Paired(d)'
<1> DEFINE msg == Head(link[c].up)
<1>1. Typed /\ HalfDuplex(c) /\ KeysMatch(c) /\ link[c].up # <<>> /\ msg.id # 0
  BY Zenon DEF KeyInv, Paired, Read_Done, HalfDuplex
<1>2. msg \in Message /\ Server(c) \in Context /\ AfterRead(Server(c), msg.mic) \in Context
  BY <1>1, RequestRead
<1>3. PICK interp \in Nat, result \in {"OK", "ERROR"}, k \in Context :
        Reply(c, msg, interp, result, k) /\ Answers(c, msg, interp, result, k)
  BY <1>1, ReadDoneReplies
<1> DEFINE s == [state |-> "WRITING", interp |-> interp,
                 reply |-> [id |-> msg.id, result |-> result, mic |-> None]]
           l == [link[c] EXCEPT !.up = <<>>]
<1>4. ServerStep(c, s, l, k)
  BY <1>3 DEF Reply
<1>5. s.state = "WRITING" /\ s.interp = interp /\ s.reply.result = result
  OBVIOUS
<1>6. /\ l.up = <<>> /\ l.down = link[c].down /\ l.server = link[c].server
      /\ l.fresh = link[c].fresh /\ l.client = link[c].client
  BY <1>1 DEF Typed, Wire
<1> HIDE DEF s, l, msg
<1>7. /\ server'[c] = s /\ link'[c] = l /\ Server(c)' = k /\ Client(c)' = Client(c)
      /\ serverInfo' = serverInfo /\ \A d \in Conns : d # c => Paired(d)'
  BY <1>4, ServerStepAt
<1>8. HalfDuplex(c)'
  <2>1. interp = 0 => result = "ERROR"
    BY <1>3 DEF Answers
  <2>2. link[c].server /\ link[c].down = <<>> /\ ~link[c].fresh /\ (Current(c) => Waiting)
    BY <1>1, Zenon DEF HalfDuplex
  <2>3. (link[c].client <=> Current(c)) /\ (Current(c) /\ Sending => serverInfo.msg.id # 0)
    BY <1>1 DEF HalfDuplex
  <2>4. QED
    BY <1>5, <1>6, <1>7, <2>1, <2>2, <2>3, Zenon DEF HalfDuplex, Current, Sending, Waiting
<1>9. KeysMatch(c)'
  <2> DEFINE read == AfterRead(Server(c), Server(c).read)
  <2>1. msg.mic = Server(c).read
    BY <1>1, Zenon DEF KeysMatch, msg
  <2>2. read.read = Bump(Server(c).read) /\ read.write = Server(c).write /\ (read.read # None => read.read.seq # 0)
    BY <1>1, <1>2, AfterReadNext, Zenon DEF KeysMatch
  <2>3. /\ k.read = read.read
        /\ interp # 0 => k.write = IF msg.auth \in {"ukrbv", "ukrbiv"} THEN Key(msg.id, 0) ELSE read.write
    BY <1>2, <1>3, <2>1, AuthReadKeys DEF Answers
  <2> HIDE DEF read
  <2>4. link[c].server /\ link[c].down = <<>> /\ (Current(c) => Waiting)
    BY <1>1 DEF HalfDuplex
  <2>5. Current(c) => /\ Client(c).write = Bump(Server(c).read)
                      /\ Client(c).read = IF SharedKey THEN Key(serverInfo.msg.id, 0) ELSE Server(c).write
                      /\ msg.auth = serverInfo.msg.auth /\ msg.id = serverInfo.msg.id
    BY <1>1, <2>4, Zenon DEF KeysMatch, HalfDuplex, msg
  <2>6. Client(c).write # None => Client(c).write.seq # 0
    BY <1>1, Zenon DEF KeysMatch
  <2>7. QED
    BY <1>5, <1>6, <1>7, <2>2, <2>3, <2>4, <2>5, <2>6, ZenonT(30) DEF KeysMatch, Current, Sending, Waiting, SharedKey
<1>10. QED
  BY <1>7, <1>8, <1>9 DEF Paired

\* The end that writes a message and the end that reads it go on alike.
LEMMA KeysAlike ==
    ASSUME NEW k \in Context, NEW m \in Context, k.write = m.read, k.read = m.write
    PROVE  /\ AfterRead(k, k.read).write = AfterWrite(m).read
           /\ AfterRead(k, k.read).read = AfterWrite(m).write
           /\ (m.read # None => m.read.seq # 0) => (AfterWrite(m).read # None => AfterWrite(m).read.seq # 0)
<1>1. CASE m.write = None
  BY <1>1 DEF AfterRead, AfterWrite
<1>2. CASE m.write # None /\ m.write.seq = 0
  <2>1. AfterRead(k, k.read) = [Mic_Enable(k, "write", k.read.key, 1) EXCEPT !.read.seq = @ + 1]
    BY <1>2 DEF AfterRead, mic_ok
  <2>2. AfterWrite(m) = [Mic_Enable(m, "read", m.write.key, 1) EXCEPT !.write.seq = @ + 1]
    BY <1>2 DEF AfterWrite
  <2>3. AfterRead(k, k.read).write = Key(k.read.key, 1) /\ AfterRead(k, k.read).read = [k.read EXCEPT !.seq = @ + 1]
    BY <2>1, Zenon DEF Mic_Enable, Context, Mic
  <2>4. AfterWrite(m).read = Key(m.write.key, 1) /\ AfterWrite(m).write = [m.write EXCEPT !.seq = @ + 1]
    BY <2>2, Zenon DEF Mic_Enable, Context, Mic
  <2>5. QED
    BY <2>3, <2>4 DEF Key
<1>3. CASE m.write # None /\ m.write.seq # 0
  <2>1. AfterRead(k, k.read) = [k EXCEPT !.read.seq = @ + 1]
    BY <1>3 DEF AfterRead, mic_ok
  <2>2. AfterWrite(m) = [m EXCEPT !.write.seq = @ + 1]
    BY <1>3 DEF AfterWrite
  <2>3. AfterRead(k, k.read).write = k.write /\ AfterRead(k, k.read).read = [k.read EXCEPT !.seq = @ + 1]
    BY <2>1 DEF Context, Mic
  <2>4. AfterWrite(m).read = m.read /\ AfterWrite(m).write = [m.write EXCEPT !.seq = @ + 1]
    BY <2>2 DEF Context, Mic
  <2>5. QED
    BY <2>3, <2>4
<1>4. QED
  BY <1>1, <1>2, <1>3

LEMMA WriteDoneKeys == ASSUME KeyInv, NEW c \in Conns, Write_Done(c) PROVE \A d \in Conns : Paired(d)'
<1> DEFINE reply == [server[c].reply EXCEPT !.mic = Server(c).write]
           l == [link[c] EXCEPT !.down = IF link[c].client THEN <<reply>> ELSE <<>>]
           s == [server[c] EXCEPT !.state = "READING"]
<1>1. HalfDuplex(c) /\ KeysMatch(c) /\ server[c] \in ServerConn /\ link[c] \in Wire /\ Server(c) \in Context
  BY DEF KeyInv, Typed, Paired, Server
<1>2. /\ link[c].server /\ link[c].up = <<>> /\ link[c].down = <<>> /\ ~link[c].fresh
      /\ link[c].client <=> Current(c)
      /\ Current(c) => Waiting
      /\ server[c].interp = 0 => server[c].reply.result = "ERROR"
  BY <1>1 DEF Write_Done, HalfDuplex
<1>3. reply \in Answer /\ reply.result = server[c].reply.result /\ reply.mic = Server(c).write
  BY <1>1 DEF ServerConn, Answer, Context
<1> HIDE DEF reply
<1>4. <<reply>> \in Seq(Answer) /\ <<>> \in Seq(Answer) /\ <<reply>> # <<>> /\ Len(<<reply>>) = 1 /\ Head(<<reply>>) = reply
  BY <1>3, One, Empty
<1>5. /\ l.down = IF link[c].client THEN <<reply>> ELSE <<>>
      /\ l.up = link[c].up /\ l.server = link[c].server /\ l.fresh = link[c].fresh /\ l.client = link[c].client
      /\ l \in Wire
  BY <1>1, <1>4, Zenon DEF Wire
<1>6. s.state = "READING" /\ s.interp = server[c].interp
  BY <1>1 DEF ServerConn
<1>7. IF server[c].interp = 0 THEN ServerStep(c, Gone, ReapLink(l), NoCrypto) ELSE ServerStep(c, s, l, AfterWrite(Server(c)))
  BY DEF Write_Done, Server, reply
<1> HIDE DEF l, s
<1>8. CASE server[c].interp = 0
  <2>1. /\ server'[c] = Gone /\ link'[c] = ReapLink(l) /\ Server(c)' = NoCrypto /\ Client(c)' = Client(c)
        /\ serverInfo' = serverInfo /\ \A d \in Conns : d # c => Paired(d)'
    BY <1>7, <1>8, ServerStepAt
  <2>2. \/ l.down \in {link[c].down, <<>>}
        \/ Current(c) /\ Waiting /\ Len(l.down) = 1 /\ Head(l.down).result = "ERROR"
    BY <1>2, <1>3, <1>4, <1>5, <1>8
  <2>3. Paired(c)'
    BY <1>1, <1>5, <2>1, <2>2, ReapedKeys, Zenon DEF Paired
  <2>4. QED
    BY <2>1, <2>3
<1>9. CASE server[c].interp # 0
  <2>1. /\ server'[c] = s /\ link'[c] = l /\ Server(c)' = AfterWrite(Server(c)) /\ Client(c)' = Client(c)
        /\ serverInfo' = serverInfo /\ \A d \in Conns : d # c => Paired(d)'
    BY <1>7, <1>9, ServerStepAt
  <2>2. HalfDuplex(c)'
    BY <1>1, <1>2, <1>4, <1>5, <1>6, <2>1, ZenonT(30) DEF HalfDuplex, Current, Sending, Waiting
  <2>3. ASSUME Current(c) PROVE KeysMatch(c)'
    <3>1. Client(c).write = Server(c).read /\ Client(c).read = Server(c).write
      BY <1>1, <1>2, <1>9, <2>3 DEF KeysMatch, Write_Done
    <3>2. Client(c) \in Context
      BY DEF KeyInv, Typed, Client
    <3>3. /\ AfterRead(Client(c), Client(c).read).write = AfterWrite(Server(c)).read
          /\ AfterRead(Client(c), Client(c).read).read = AfterWrite(Server(c)).write
          /\ AfterWrite(Server(c)).read # None => AfterWrite(Server(c)).read.seq # 0
      BY <1>1, <3>1, <3>2, KeysAlike, Zenon DEF KeysMatch
    <3>4. Client(c).write # None => Client(c).write.seq # 0
      BY <1>1, Zenon DEF KeysMatch
    <3>5. QED
      BY <1>2, <1>3, <1>4, <1>5, <1>6, <2>1, <2>3, <3>1, <3>3, <3>4, ZenonT(30) DEF KeysMatch, Current, Sending, Waiting
  <2>4. ASSUME ~Current(c) PROVE KeysMatch(c)'
    <3>1. PICK k \in Context : k.write = Server(c).read /\ k.read = Server(c).write
      <4>1. [read |-> Server(c).write, write |-> Server(c).read] \in Context
        BY <1>1, Zenon DEF Context
      <4>2. QED
        BY <4>1
    <3>2. AfterWrite(Server(c)).read # None => AfterWrite(Server(c)).read.seq # 0
      BY <1>1, <3>1, KeysAlike, Zenon DEF KeysMatch
    <3>3. Client(c).write # None => Client(c).write.seq # 0
      BY <1>1 DEF KeysMatch
    <3>4. QED
      BY <1>2, <1>5, <2>1, <2>4, <3>2, <3>3, Zenon DEF KeysMatch, Current
  <2>5. KeysMatch(c)'
    BY <2>3, <2>4
  <2>6. QED
    BY <2>1, <2>2, <2>5 DEF Paired
<1>10. QED
  BY <1>8, <1>9

LEMMA ReadIdle == ASSUME KeyInv, Read PROVE IdleIsDone'
<1> DEFINE reply == Head(Link.down)
           got == [serverInfo EXCEPT !.conn_state = "IODONE", !.state = "IDLE"]
           err(code) == [make_error(got, code) EXCEPT !.value.id = IF code = "REPLY" THEN reply.id ELSE 0]
<1>1. got \in Info /\ got.conn_state = "IODONE" /\ got.state = "IDLE"
  BY Zenon DEF KeyInv, Typed, Info
<1>2. \/ \E code \in {"REPLY", "EBADMIC"} : serverInfo' = do_close(err(code))
      \/ serverInfo' = [got EXCEPT !.value = Value("REPLY", reply.id), !.result = reply.result]
      \/ \E written \in {"OK", "ERROR"} : serverInfo' = [got EXCEPT !.result = written]
  BY DEF Read, FileProc
<1> HIDE DEF got, reply
<1>3. ASSUME NEW code \in {"REPLY", "EBADMIC"}, serverInfo' = do_close(err(code)) PROVE serverInfo'.conn = 0 /\ serverInfo'.state = "IDLE"
  BY <1>1, <1>3 DEF make_error, do_close, Info
<1>4. QED
  BY <1>1, <1>2, <1>3, Zenon DEF IdleIsDone, Info

LEMMA IdleStep == ASSUME KeyInv, Next PROVE IdleIsDone'
<1>1. serverInfo \in Info /\ IdleIsDone
  BY DEF KeyInv, Typed
<1>2. CASE Connect
  <2>1. PICK c \in Conns : serverInfo' = [serverInfo EXCEPT !.conn = c, !.conn_state = "NEW", !.state = "BUSY"]
    BY <1>2, Zenon DEF Connect
  <2>2. serverInfo'.conn = c /\ serverInfo'.conn_state = "NEW" /\ serverInfo'.state = "BUSY" /\ c # 0
    BY <1>1, <2>1 DEF Info, Conns
  <2>3. QED
    BY <2>2 DEF IdleIsDone
<1>3. ASSUME NEW kind, NEW msg, NEW channel, Request(kind, msg, channel) PROVE IdleIsDone'
  BY <1>1, <1>3 DEF Request, Info, IdleIsDone
<1>4. CASE \/ \E auth \in Auths : Send_Auth(auth)
           \/ \E channel \in BOOLEAN : Send(channel)
  BY <1>3, <1>4, Zenon DEF Send_Auth, Send
<1>5. ASSUME NEW code \in Codes, serverInfo' = break_conn(serverInfo, code) PROVE IdleIsDone'
  BY <1>1, <1>5, BreakClears DEF IdleIsDone
<1>6. CASE Disconnect
  BY <1>1, <1>6, CloseClears DEF Disconnect, IdleIsDone
<1>7. CASE Cancel \/ Lost \/ Eof
  BY <1>5, <1>7, Zenon DEF Cancel, Lost, Eof, FileProc, Codes, break_conn
<1>8. CASE Connected
  <2>1. \/ serverInfo' = break_conn(serverInfo, "EAGAIN")
        \/ serverInfo' = [serverInfo EXCEPT !.conn_state = "IODONE", !.state = "IDLE", !.result = "OK"]
    BY <1>8 DEF Connected, FileProc
  <2>2. QED
    BY <1>1, <1>5, <2>1, Zenon DEF Codes, IdleIsDone, Info
<1>9. CASE Written
  BY <1>1, <1>9 DEF Written, Doing, FileProc, IdleIsDone, Info
<1>10. CASE Read
  BY <1>10, ReadIdle
<1>11. CASE io_wait
  BY <1>1, <1>11 DEF io_wait, IdleIsDone, Info
<1>12. CASE UNCHANGED serverInfo
  BY <1>1, <1>12 DEF IdleIsDone
<1>13. QED
  <2>1. CASE ServerLoop \/ \E c \in Conns : ServerEof(c) \/ Timeout(c)
    BY <1>12, <2>1, ZenonT(30) DEF ServerLoop, ServerStep, Reap, Reply, LoopEnd, server_accept, Read_Done, Login, Conn_Execute,
                       Write_Done, ServerEof, Timeout
  <2>2. CASE Signal \/ Finished \/ EndHandler
    BY <1>12, <2>2 DEF Signal, Finished, EndHandler, vars
  <2>3. QED
    BY <1>2, <1>4, <1>6, <1>7, <1>8, <1>9, <1>10, <1>11, <2>1, <2>2 DEF Next, EventLoop

\* The inductive invariant about keys.
LEMMA KeyInit == Init => KeyInv
<1> SUFFICES ASSUME Init PROVE KeyInv
  OBVIOUS
<1>1. serverInfo \in Info
  BY NoneType, ZenonT(30) DEF Init, Info, ConnId, NoValue, Value, Values, Codes, Message
<1>2. link \in [Conns -> Wire]
  BY Empty, Zenon DEF Init, Wire
<1>3. crypto \in [Conns -> [{"client", "server"} -> Context]]
  BY NoneType DEF Init
<1>4. server \in [Conns -> ServerConn]
  BY GoneType DEF Init
<1>5. Typed
  BY <1>1, <1>2, <1>3, <1>4, Empty DEF Typed, Init, Marks
<1>6. ASSUME NEW c \in Conns PROVE Paired(c)
  <2>1. link[c].fresh /\ ~link[c].client /\ link[c].server /\ link[c].up = <<>> /\ link[c].down = <<>>
    BY DEF Init
  <2>2. server[c].state = "none" /\ server[c].interp = 0 /\ Client(c) = NoCrypto /\ Server(c) = NoCrypto
    BY DEF Init, Gone, Client, Server
  <2>3. ~Current(c)
    BY DEF Init, Current, Conns
  <2>4. QED
    BY <2>1, <2>2, <2>3 DEF Paired, HalfDuplex, KeysMatch, NoCrypto
<1>7. QED
  BY <1>5, <1>6 DEF KeyInv, IdleIsDone, Init

LEMMA KeyStep == ASSUME KeyInv, [Next]_vars PROVE KeyInv'
<1> SUFFICES ASSUME KeyInv, [Next]_vars PROVE Typed' /\ IdleIsDone' /\ \A d \in Conns : Paired(d)'
  BY DEF KeyInv
<1>1. CASE UNCHANGED vars
  <2>1. Typed' /\ IdleIsDone'
    BY <1>1 DEF vars, KeyInv, Typed, IdleIsDone
  <2>2. ASSUME NEW d \in Conns PROVE Paired(d)'
    BY <1>1, <2>2, OtherConn DEF vars, KeyInv, SameCall
  <2>3. QED
    BY <2>1, <2>2
<1>2. CASE Next
  <2>1. Typed /\ IdleIsDone'
    BY <1>2, IdleStep DEF KeyInv
  <2>2. CASE Connect \/ Disconnect \/ Cancel
    BY <2>1, <2>2, ConnectTyped, DisconnectTyped, CancelTyped, ConnectKeys, DisconnectKeys, CancelKeys
  <2>3. CASE \E auth \in Auths : Send_Auth(auth)
    BY <2>1, <2>3, SendAuthTyped, SendAuthKeys
  <2>4. CASE \E channel \in BOOLEAN : Send(channel)
    BY <2>1, <2>4, SendTyped, SendKeys
  <2>5. CASE EventLoop \/ Lost
    BY <2>1, <2>5, ConnectedTyped, WrittenTyped, ReadTyped, LostTyped, ReturnTyped,
       ConnectedKeys, WrittenKeys, ReadKeys, LostKeys, ReturnKeys DEF EventLoop
  <2>6. CASE LoopEnd
    BY <2>1, <2>6, LoopEndTyped, LoopEndKeys
  <2>7. ASSUME NEW c \in Conns, server_accept(c) \/ Write_Done(c) \/ ServerEof(c) \/ Timeout(c)
        PROVE  Typed' /\ \A d \in Conns : Paired(d)'
    BY <2>1, <2>7, AcceptTyped, WriteDoneTyped, ReapTyped, AcceptKeys, WriteDoneKeys, ReapKeys
  <2>8. ASSUME NEW c \in Conns, Read_Done(c) PROVE Typed' /\ \A d \in Conns : Paired(d)'
    <3>1. Head(link[c].up).id # 0
      BY <2>8, Zenon DEF Read_Done, KeyInv, Paired, HalfDuplex
    <3>2. QED
      BY <2>1, <2>8, <3>1, ReadDoneTyped, ReadDoneKeys
  <2>9. CASE Signal
    <3>1. Typed'
      BY <2>1, <2>9 DEF Signal, Typed
    <3>2. ASSUME NEW d \in Conns PROVE Paired(d)'
      BY <2>9, <3>2, OtherConn DEF Signal, KeyInv, SameCall
    <3>3. QED
      BY <2>1, <3>1, <3>2
  <2>10. CASE Finished
    BY <1>1, <2>10 DEF Finished
  <2>11. QED
    BY <1>2, <2>1, <2>2, <2>3, <2>4, <2>5, <2>6, <2>7, <2>8, <2>9, <2>10 DEF Next, ServerLoop
<1>3. QED
  BY <1>1, <1>2

LEMMA KeyInvariance == Spec => []KeyInv
BY KeyInit, KeyStep, PTL DEF Spec

\* The two ends agree on the checksum of every message on its way, but for the answer to
\* a failed login (Update_Mic in desmd5.c, read_auth and write_auth of the modules).
THEOREM EndsAgree == Spec => []ChecksumsAgree
<1>1. KeyInv => ChecksumsAgree
  BY Zenon DEF KeyInv, Paired, KeysMatch, ChecksumsAgree, Client, Server
<1>2. QED
  BY <1>1, KeyInvariance, PTL

-----------------------------------------------------------------------------
(* Logins. *)

\* A connection the client does not use, or does not start to use: nothing to match.
LEMMA OtherLogin ==
    ASSUME NEW d \in Conns, LoginMatches(d), link'[d].up = link[d].up, server'[d].interp = server[d].interp,
           ~Current(d)' \/ (SameCall /\ marks'.login = marks.login)
    PROVE  LoginMatches(d)'
<1>1. CASE ~Current(d)'
  BY <1>1 DEF LoginMatches
<1>2. CASE SameCall /\ marks'.login = marks.login
  BY <1>2 DEF LoginMatches, SameCall, Current, Sending
<1>3. QED
  BY <1>1, <1>2

\* A connection that has no session any more.
LEMMA NoLogin ==
    ASSUME NEW d \in Conns, server'[d].interp = 0,
           ~Current(d)' \/ (LoginMatches(d) /\ SameCall /\ link'[d].up \in {link[d].up, <<>>} /\ marks' = marks)
    PROVE  LoginMatches(d)'
<1>1. CASE ~Current(d)'
  BY <1>1 DEF LoginMatches
<1>2. CASE LoginMatches(d) /\ SameCall /\ link'[d].up \in {link[d].up, <<>>} /\ marks' = marks
  BY <1>2 DEF LoginMatches, SameCall, Current, Sending
<1>3. QED
  BY <1>1, <1>2

LEMMA ConnectLogin == ASSUME KeyInv, LoginInv, Connect PROVE LoginInv'
<1>1. PICK c \in Conns :
        /\ link[c].fresh
        /\ serverInfo' = [serverInfo EXCEPT !.conn = c, !.conn_state = "NEW", !.state = "BUSY"]
        /\ link' = [link EXCEPT ![c].fresh = FALSE, ![c].client = TRUE]
  BY Zenon DEF Connect
<1>2. server' = server /\ marks' = marks /\ serverInfo'.conn = c /\ serverInfo'.conn_state = "NEW"
  BY <1>1, Zenon DEF Connect, KeyInv, Typed, Info
<1>3. ASSUME NEW d \in Conns PROVE link'[d].up = link[d].up
  BY <1>1, <1>3 DEF KeyInv, Typed, Wire
<1>4. ASSUME NEW d \in Conns, d # c PROVE LoginMatches(d)'
  BY <1>2, <1>3, <1>4, OtherLogin DEF LoginInv, Current
<1>5. link[c].up = <<>> /\ server[c].interp = 0
  BY <1>1 DEF KeyInv, Paired, HalfDuplex
<1>6. LoginMatches(c)'
  BY <1>2, <1>3, <1>5 DEF LoginMatches, Sending
<1>7. QED
  BY <1>2, <1>4, <1>6 DEF LoginInv, RunsAsLoggedIn

LEMMA SendAuthLogin == ASSUME KeyInv, LoginInv, NEW auth \in Auths, Send_Auth(auth) PROVE LoginInv'
<1> DEFINE msg == [id |-> calls + 1, auth |-> auth, login |-> calls + 1, mic |-> None]
<1>1. Request("auth", msg, serverInfo.channel)
  BY DEF Send_Auth
<1>2. PICK c \in Conns : c = serverInfo.conn
  BY <1>1, CurrentConn DEF Request
<1>3. /\ serverInfo'.conn = c /\ serverInfo'.conn_state = "WRITING" /\ serverInfo'.msg = msg
      /\ link' = link /\ server' = server
  BY <1>1, <1>2 DEF KeyInv, Typed, Info, Request
<1>4. marks'.login = calls + 1 /\ marks'.ran = marks.ran
  BY DEF Send_Auth, KeyInv, Typed, Marks
<1>5. msg.auth # "none" /\ msg.id = calls + 1
  BY Bounds
<1> HIDE DEF msg
<1>6. ASSUME NEW d \in Conns, d # c PROVE LoginMatches(d)'
  BY <1>3, <1>6, OtherLogin DEF LoginInv, Current
<1>7. link[c].up = <<>>
  <2>1. HalfDuplex(c) /\ Current(c) /\ serverInfo.conn_state = "IODONE"
    BY <1>1, <1>2 DEF KeyInv, Paired, Current, IdleIsDone, Request
  <2>2. QED
    BY <2>1 DEF HalfDuplex, Waiting
<1>8. LoginMatches(c)'
  BY <1>3, <1>4, <1>5, <1>7 DEF LoginMatches, Sending
<1>9. QED
  BY <1>4, <1>6, <1>8 DEF LoginInv, RunsAsLoggedIn

LEMMA SendLogin == ASSUME KeyInv, LoginInv, NEW channel \in BOOLEAN, Send(channel) PROVE LoginInv'
<1> DEFINE msg == [id |-> calls + 1, auth |-> "none", login |-> marks.login, mic |-> None]
<1>1. Request("send", msg, channel) /\ marks' = marks
  BY DEF Send
<1>2. PICK c \in Conns : c = serverInfo.conn
  BY <1>1, CurrentConn DEF Request
<1>3. /\ serverInfo'.conn = c /\ serverInfo'.conn_state = "WRITING" /\ serverInfo'.msg = msg
      /\ link' = link /\ server' = server
  BY <1>1, <1>2 DEF KeyInv, Typed, Info, Request
<1>4. msg.auth = "none" /\ msg.login = marks.login
  OBVIOUS
<1> HIDE DEF msg
<1>5. ASSUME NEW d \in Conns, d # c PROVE LoginMatches(d)'
  BY <1>3, <1>5, OtherLogin DEF LoginInv, Current
<1>6. HalfDuplex(c) /\ Current(c) /\ serverInfo.conn_state = "IODONE" /\ LoginMatches(c)
  BY <1>1, <1>2 DEF KeyInv, Paired, Current, IdleIsDone, Request, LoginInv
<1>7. link[c].up = <<>> /\ (server[c].interp # 0 => server[c].interp = marks.login)
  BY <1>6 DEF HalfDuplex, Waiting, LoginMatches, Sending
<1>8. LoginMatches(c)'
  BY <1>1, <1>3, <1>4, <1>7 DEF LoginMatches, Sending
<1>9. QED
  BY <1>1, <1>5, <1>8 DEF LoginInv, RunsAsLoggedIn

\* The connection is closed, or goes on without a new request.
LEMMA CalmLogin ==
    ASSUME LoginInv, \A d \in Conns : link'[d].up = link[d].up, server' = server, marks'.ran = marks.ran,
           \/ serverInfo'.conn = 0
           \/ /\ serverInfo'.conn = serverInfo.conn /\ serverInfo'.msg = serverInfo.msg /\ marks'.login = marks.login
              /\ ~Sending /\ ~Sending'
    PROVE  LoginInv'
<1>1. ASSUME NEW d \in Conns PROVE LoginMatches(d)'
  <2>1. LoginMatches(d)
    BY DEF LoginInv
  <2>2. CASE serverInfo'.conn = 0
    BY <2>1, <2>2, OtherLogin DEF Current, Conns
  <2>3. CASE ~(serverInfo'.conn = 0)
    BY <2>1, <2>3 DEF LoginMatches, Current
  <2>4. QED
    BY <2>2, <2>3
<1>2. QED
  BY <1>1 DEF LoginInv, RunsAsLoggedIn

LEMMA ShutUp == ASSUME NEW l \in Wire PROVE Shut(l).up = l.up
BY DEF Wire, Shut

\* What file_proc leaves alone when it writes nothing.
LEMMA FileProcUp ==
    ASSUME KeyInv, NEW c \in Conns, c = serverInfo.conn, NEW si, NEW l, NEW k, FileProc(si, l, k), l.up = link[c].up
    PROVE  (\A d \in Conns : link'[d].up = link[d].up) /\ server' = server /\ marks' = marks /\ serverInfo' = si
BY DEF FileProc, KeyInv, Typed

LEMMA BrokenLogin ==
    ASSUME KeyInv, LoginInv, serverInfo.conn # 0, NEW code \in Codes,
           FileProc(break_conn(serverInfo, code), Shut(Link), Crypto)
    PROVE  LoginInv'
<1>1. PICK c \in Conns : c = serverInfo.conn
  BY CurrentConn
<1>2. serverInfo \in Info /\ Shut(Link).up = link[c].up
  BY <1>1, ShutUp DEF KeyInv, Typed, Link
<1>3. serverInfo'.conn = 0 /\ (\A d \in Conns : link'[d].up = link[d].up) /\ server' = server /\ marks' = marks
  BY <1>1, <1>2, FileProcUp, BreakClears
<1>4. QED
  BY <1>3, CalmLogin

LEMMA CloseLogin == ASSUME KeyInv, LoginInv, Cancel \/ Disconnect PROVE LoginInv'
<1>1. ASSUME NEW d \in Conns PROVE link'[d].up = link[d].up
  <2>1. link[d] \in Wire /\ link'[d] \in {link[d], Shut(link[d])}
    BY <1>1 DEF KeyInv, Typed, Cancel, Disconnect
  <2>2. QED
    BY <2>1, ShutUp
<1>2. serverInfo'.conn = 0
  <2>1. serverInfo \in Info /\ serverInfo' \in {break_conn(serverInfo, "OPCANCELED"), do_close(serverInfo)}
    BY DEF KeyInv, Typed, Cancel, Disconnect, break_conn
  <2>2. QED
    BY <2>1, BreakClears, CloseClears, Zenon DEF Codes
<1>3. server' = server /\ marks'.ran = marks.ran
  BY DEF KeyInv, Typed, Marks, Cancel, Disconnect
<1>4. QED
  BY <1>1, <1>2, <1>3, CalmLogin

LEMMA ConnectedLogin == ASSUME KeyInv, LoginInv, Connected PROVE LoginInv'
<1>1. CASE FileProc(break_conn(serverInfo, "EAGAIN"), Shut(Link), Crypto)
  BY <1>1, BrokenLogin DEF Connected, Doing, Codes
<1>2. CASE FileProc([serverInfo EXCEPT !.conn_state = "IODONE", !.state = "IDLE", !.result = "OK"], Link, Crypto)
  <2>1. PICK c \in Conns : c = serverInfo.conn
    BY CurrentConn DEF Connected, Doing
  <2>2. Link.up = link[c].up
    BY <2>1 DEF Link
  <2>3. /\ \A d \in Conns : link'[d].up = link[d].up
        /\ server' = server /\ marks' = marks
        /\ serverInfo' = [serverInfo EXCEPT !.conn_state = "IODONE", !.state = "IDLE", !.result = "OK"]
    BY <1>2, <2>1, <2>2, FileProcUp
  <2>4. /\ serverInfo'.conn = serverInfo.conn /\ serverInfo'.msg = serverInfo.msg
        /\ ~Sending /\ ~Sending'
    BY <2>3 DEF KeyInv, Typed, Info, Sending, Connected, Doing
  <2>5. QED
    BY <2>3, <2>4, CalmLogin
<1>3. QED
  BY <1>1, <1>2 DEF Connected

LEMMA LostLogin == ASSUME KeyInv, LoginInv, Lost \/ Eof PROVE LoginInv'
BY BrokenLogin, Zenon DEF Lost, Eof, Doing, Codes

LEMMA ReadLogin == ASSUME KeyInv, LoginInv, Read PROVE LoginInv'
<1>1. PICK c \in Conns : c = serverInfo.conn
  BY CurrentConn DEF Read, Doing
<1> DEFINE reply == Head(Link.down)
           got == [serverInfo EXCEPT !.conn_state = "IODONE", !.state = "IDLE"]
           l == [Link EXCEPT !.down = <<>>]
           err(code) == [make_error(got, code) EXCEPT !.value.id = IF code = "REPLY" THEN reply.id ELSE 0]
<1>2. got \in Info /\ got.conn = c /\ got.conn_state = "IODONE" /\ got.msg = serverInfo.msg /\ ~Sending
  BY <1>1, Zenon DEF KeyInv, Typed, Info, Read, Doing, Sending
<1>3. l \in Wire /\ l.up = link[c].up
  BY <1>1, Empty, ZenonT(30) DEF KeyInv, Typed, Wire, Link
<1>4. Shut(l).up = link[c].up
  BY <1>3, ShutUp, Zenon
<1>5. PICK si, m, k :
        /\ FileProc(si, m, k) /\ m \in {l, Shut(l)}
        /\ \/ \E code \in {"REPLY", "EBADMIC"} : si = do_close(err(code))
           \/ si = [got EXCEPT !.value = Value("REPLY", reply.id), !.result = reply.result]
           \/ \E written \in {"OK", "ERROR"} : si = [got EXCEPT !.result = written]
  BY DEF Read
<1> HIDE DEF got, l, reply
<1>6. m.up = link[c].up
  BY <1>3, <1>4, <1>5
<1>7. (\A d \in Conns : link'[d].up = link[d].up) /\ server' = server /\ marks' = marks /\ serverInfo' = si
  BY <1>1, <1>5, <1>6, FileProcUp
<1>8. \/ si.conn = 0
      \/ si.conn = c /\ si.msg = serverInfo.msg /\ si.conn_state = "IODONE"
  BY <1>2, <1>5, Zenon DEF make_error, do_close, Info
<1>9. QED
  BY <1>1, <1>2, <1>7, <1>8, CalmLogin DEF Sending

LEMMA ReturnLogin == ASSUME KeyInv, LoginInv, EndHandler \/ io_wait PROVE LoginInv'
<1>1. SameCall /\ link' = link /\ server' = server /\ marks' = marks
  BY DEF KeyInv, Typed, Info, SameCall, EndHandler, io_wait
<1>2. QED
  BY <1>1, OtherLogin DEF LoginInv, RunsAsLoggedIn

LEMMA WrittenLogin == ASSUME KeyInv, LoginInv, Written PROVE LoginInv'
<1>1. PICK c \in Conns : c = serverInfo.conn
  BY CurrentConn DEF Written, Doing
<1> DEFINE msg == [serverInfo.msg EXCEPT !.mic = Crypto.write]
           up == IF link[c].server THEN <<msg>> ELSE <<>>
<1>2. /\ link'[c].up = up /\ server' = server /\ marks' = marks
      /\ \A d \in Conns : d # c => link'[d].up = link[d].up
  BY <1>1 DEF Written, FileProc, KeyInv, Typed, Wire, Link
<1>3. serverInfo'.conn = c /\ serverInfo'.conn_state = "READING" /\ serverInfo'.msg = serverInfo.msg
  BY <1>1 DEF Written, FileProc, KeyInv, Typed, Info
<1>4. msg.auth = serverInfo.msg.auth /\ msg.login = serverInfo.msg.login
  BY DEF KeyInv, Typed, Info, Message
<1> HIDE DEF msg
<1>5. <<msg>> # <<>> /\ Head(<<msg>>) = msg
  OBVIOUS
<1>6. ASSUME NEW d \in Conns, d # c PROVE LoginMatches(d)'
  BY <1>2, <1>3, <1>6, OtherLogin DEF LoginInv, Current
<1>7. HalfDuplex(c) /\ LoginMatches(c) /\ Current(c) /\ Sending
  BY <1>1 DEF KeyInv, Paired, LoginInv, Current, Sending, Written, Doing
<1>8. ~link[c].server => server[c].interp = 0
  BY <1>7, ZenonT(30) DEF HalfDuplex
<1>9. LoginMatches(c)'
  BY <1>2, <1>3, <1>4, <1>5, <1>7, <1>8 DEF LoginMatches, Current, Sending
<1>10. QED
  BY <1>2, <1>6, <1>9 DEF LoginInv, RunsAsLoggedIn

\* What a step of the server leaves of the logins of other connections.
LEMMA ServerStepLogin ==
    ASSUME KeyInv, LoginInv, NEW c \in Conns, NEW s, NEW l, NEW k, ServerStep(c, s, l, k), marks'.login = marks.login
    PROVE  server'[c] = s /\ link'[c] = l /\ SameCall /\ \A d \in Conns : d # c => LoginMatches(d)'
<1>1. /\ server'[c] = s /\ link'[c] = l /\ SameCall
      /\ \A d \in Conns : d # c => link'[d] = link[d] /\ server'[d] = server[d]
  BY DEF ServerStep, KeyInv, Typed, SameCall
<1>2. ASSUME NEW d \in Conns, d # c PROVE LoginMatches(d)'
  BY <1>1, <1>2, OtherLogin DEF LoginInv
<1>3. QED
  BY <1>1, <1>2

LEMMA ReapUp == ASSUME NEW l \in Wire PROVE ReapLink(l).up = <<>>
BY DEF Wire, ReapLink

LEMMA QuietLogin == ASSUME KeyInv, LoginInv, NEW c \in Conns, server_accept(c) \/ ServerEof(c) \/ Timeout(c) PROVE LoginInv'
<1>1. marks' = marks
  BY DEF server_accept, ServerEof, Timeout, Reap
<1>2. \/ ServerStep(c, Gone, ReapLink(link[c]), NoCrypto)
      \/ ServerStep(c, [Gone EXCEPT !.state = "READING"], link[c], crypto[c]["server"])
  BY Zenon DEF server_accept, ServerEof, Timeout, Reap
<1>3. Gone.interp = 0 /\ [Gone EXCEPT !.state = "READING"].interp = 0
  BY DEF Gone
<1>4. ReapLink(link[c]).up = <<>>
  BY ReapUp DEF KeyInv, Typed
<1>5. PICK s, l, k : /\ ServerStep(c, s, l, k) /\ s.interp = 0
                     /\ l.up = link[c].up \/ l.up = <<>>
  BY <1>2, <1>3, <1>4, Zenon
<1>6. /\ server'[c] = s /\ link'[c] = l /\ SameCall
      /\ \A d \in Conns : d # c => LoginMatches(d)'
  BY <1>1, <1>5, ServerStepLogin
<1>7. LoginMatches(c)'
  BY <1>1, <1>5, <1>6, NoLogin DEF LoginInv
<1>8. QED
  BY <1>1, <1>6, <1>7 DEF LoginInv, RunsAsLoggedIn

LEMMA LoopEndLogin == ASSUME KeyInv, LoginInv, LoopEnd PROVE LoginInv'
<1>1. SameCall /\ marks' = marks
  BY DEF LoopEnd, SameCall
<1>2. ASSUME NEW d \in Conns PROVE LoginMatches(d)'
  <2>1. server'[d].interp = 0 /\ link'[d] = ReapLink(link[d]) /\ link[d] \in Wire
    BY DEF LoopEnd, Gone, KeyInv, Typed
  <2>2. QED
    BY <1>1, <2>1, ReapUp, NoLogin DEF LoginInv
<1>3. QED
  BY <1>1, <1>2 DEF LoginInv, RunsAsLoggedIn

LEMMA ReadDoneLogin == ASSUME KeyInv, LoginInv, NEW c \in Conns, Read_Done(c) PROVE LoginInv'
<1> DEFINE msg == Head(link[c].up)
<1>1. Typed /\ HalfDuplex(c) /\ LoginMatches(c) /\ link[c].up # <<>> /\ msg.id # 0
  BY ZenonT(30) DEF KeyInv, Paired, Read_Done, HalfDuplex, LoginInv
<1>2. PICK interp \in Nat, result \in {"OK", "ERROR"}, k \in Context :
        Reply(c, msg, interp, result, k) /\ Answers(c, msg, interp, result, k)
  BY <1>1, ReadDoneReplies, Zenon
<1> DEFINE s == [state |-> "WRITING", interp |-> interp,
                 reply |-> [id |-> msg.id, result |-> result, mic |-> None]]
           l == [link[c] EXCEPT !.up = <<>>]
<1>3. ServerStep(c, s, l, k) /\ s.interp = interp /\ l.up = <<>>
  BY <1>1, <1>2 DEF Reply, Typed, Wire
<1>4. \/ marks' = marks
      \/ /\ msg.auth = "none" /\ server[c].interp # 0
         /\ marks' = [marks EXCEPT !.ran = @ \cup {<<msg.login, server[c].interp>>}]
  BY Zenon DEF Read_Done, Login, Conn_Execute
<1> HIDE DEF s, l, msg
<1>5. marks'.login = marks.login /\ RunsAsLoggedIn'
  <2>1. msg.auth = "none" /\ server[c].interp # 0 => msg.login = server[c].interp
    BY <1>1 DEF LoginMatches, msg
  <2>2. marks \in Marks /\ RunsAsLoggedIn
    BY <1>1 DEF Typed, LoginInv
  <2>3. QED
    BY <1>4, <2>1, <2>2 DEF RunsAsLoggedIn, Marks
<1>6. server'[c].interp = interp /\ link'[c].up = <<>> /\ SameCall /\ \A d \in Conns : d # c => LoginMatches(d)'
  BY <1>3, <1>5, ServerStepLogin
<1>7. Current(c) => Waiting /\ msg.auth = serverInfo.msg.auth /\ msg.id = serverInfo.msg.id
  BY <1>1 DEF HalfDuplex, msg
<1>8. Current(c) /\ interp # 0 => interp = marks.login
  BY <1>1, <1>2, <1>7 DEF LoginMatches, Answers
<1>9. LoginMatches(c)'
  BY <1>5, <1>6, <1>7, <1>8 DEF LoginMatches, SameCall, Current, Sending, Waiting
<1>10. QED
  BY <1>5, <1>6, <1>9 DEF LoginInv

LEMMA WriteDoneLogin == ASSUME KeyInv, LoginInv, NEW c \in Conns, Write_Done(c) PROVE LoginInv'
<1>1. PICK l, k : /\ l.up = link[c].up /\ l \in Wire
                  /\ \/ ServerStep(c, Gone, ReapLink(l), NoCrypto)
                     \/ ServerStep(c, [server[c] EXCEPT !.state = "READING"], l, k)
  <2> DEFINE down == IF link[c].client THEN <<[server[c].reply EXCEPT !.mic = crypto[c]["server"].write]>> ELSE <<>>
             l == [link[c] EXCEPT !.down = down]
  <2>1. \/ ServerStep(c, Gone, ReapLink(l), NoCrypto)
        \/ ServerStep(c, [server[c] EXCEPT !.state = "READING"], l, AfterWrite(crypto[c]["server"]))
    BY DEF Write_Done
  <2>2. down \in Seq(Answer)
    <3>1. server[c] \in ServerConn /\ crypto[c]["server"] \in Context
      BY DEF KeyInv, Typed
    <3>2. [server[c].reply EXCEPT !.mic = crypto[c]["server"].write] \in Answer
      BY <3>1 DEF ServerConn, Answer, Context
    <3>3. QED
      BY <3>2, One, Empty
  <2> HIDE DEF down
  <2>3. l.up = link[c].up /\ l \in Wire
    BY <2>2, Zenon DEF KeyInv, Typed, Wire
  <2>4. QED
    BY <2>1, <2>3, Zenon
<1>2. marks' = marks /\ LoginMatches(c) /\ HalfDuplex(c)
  BY DEF Write_Done, LoginInv, KeyInv, Paired
<1>3. [server[c] EXCEPT !.state = "READING"].interp = server[c].interp
  BY DEF KeyInv, Typed, ServerConn
<1>4. Gone.interp = 0 /\ ReapLink(l).up = <<>>
  BY <1>1, ReapUp DEF Gone
<1>5. /\ SameCall /\ \A d \in Conns : d # c => LoginMatches(d)'
      /\ \/ server'[c].interp = 0 /\ link'[c].up = <<>>
         \/ server'[c].interp = server[c].interp /\ link'[c].up = link[c].up
  BY <1>1, <1>2, <1>3, <1>4, ServerStepLogin, ZenonT(30)
<1>6. LoginMatches(c)'
  BY <1>2, <1>5, OtherLogin, NoLogin
<1>7. QED
  BY <1>2, <1>5, <1>6 DEF LoginInv, RunsAsLoggedIn

LEMMA LoginStep == ASSUME KeyInv, LoginInv, [Next]_vars PROVE LoginInv'
<1>1. CASE UNCHANGED vars \/ Signal \/ Finished
  <2>1. SameCall /\ link' = link /\ server' = server /\ marks' = marks
    BY <1>1 DEF vars, Signal, Finished, SameCall
  <2>2. QED
    BY <2>1, OtherLogin DEF LoginInv, RunsAsLoggedIn
<1>2. CASE \/ Connect \/ Disconnect \/ Cancel
           \/ \E auth \in Auths : Send_Auth(auth)
           \/ \E channel \in BOOLEAN : Send(channel)
  BY <1>2, ConnectLogin, CloseLogin, SendAuthLogin, SendLogin
<1>3. CASE EventLoop \/ Lost
  BY <1>3, ConnectedLogin, WrittenLogin, ReadLogin, LostLogin, ReturnLogin DEF EventLoop
<1>4. CASE ServerLoop \/ \E c \in Conns : ServerEof(c) \/ Timeout(c)
  BY <1>4, LoopEndLogin, QuietLogin, ReadDoneLogin, WriteDoneLogin DEF ServerLoop
<1>5. QED
  BY <1>1, <1>2, <1>3, <1>4 DEF Next

\* A script runs under the login its client sent last on that connection (Read_Done ends
\* the session it replaces before Auth_Read starts the new one).
THEOREM ScriptsRunAsLoggedIn == Spec => []RunsAsLoggedIn
<1>1. Init => LoginInv
  <2> SUFFICES ASSUME Init PROVE LoginInv
    OBVIOUS
  <2>1. ASSUME NEW c \in Conns PROVE LoginMatches(c)
    BY DEF Init, LoginMatches, Current, Conns
  <2>2. QED
    BY <2>1 DEF Init, LoginInv, RunsAsLoggedIn
<1>2. LoginInv => RunsAsLoggedIn
  BY DEF LoginInv
<1>3. QED
  BY <1>1, <1>2, KeyInvariance, LoginStep, PTL DEF Spec

=============================================================================
