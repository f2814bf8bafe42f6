---------------------------- MODULE SessionResults ----------------------------
(* What the commands of a client return, for any number of connections and calls:  *)
(* a handler that cancels a call does not connect again (Nested is FALSE).          *)
EXTENDS SessionProofs

Sync == serverInfo.conn # 0 /\ serverInfo.conn_state \in {"WRITING", "READING"}
Call == stack[1]

\* A command waits in io_wait, alone, or with the handler that cancelled it.
CallShape ==
    /\ Len(stack) <= 2
    /\ stack # <<>> => Call.id = calls /\ Call.kind # "handler" /\ calls # 0
    /\ Len(stack) = 2 => stack[2].kind = "handler" /\ Call.id \in marks.cancelled
    /\ serverInfo.state = "BUSY" => Len(stack) = 1 /\ (Call.kind = "connect" <=> serverInfo.conn_state = "NEW")
    /\ Sync => /\ serverInfo.value = NoValue /\ serverInfo.msg.id = calls
               /\ Call.kind = "send" <=> serverInfo.msg.auth = "none"
    /\ stack = <<>> /\ serverInfo.conn # 0 => serverInfo.value = NoValue

\* A cancelled call finds the error of its cancellation.
CancelInv ==
    /\ \A id \in marks.cancelled : id <= calls
    /\ \A r \in returned : r.id \in Nat /\ r.id <= calls /\ (stack # <<>> => r.id # calls)
    /\ stack # <<>> /\ calls \in marks.cancelled =>
         serverInfo.conn = 0 /\ serverInfo.result = "ERROR" /\ serverInfo.value.code = "OPCANCELED"

InFlight(c) == link[c].up # <<>>
Rid(c) == Head(link[c].up).id

\* A call whose script may still be run: its request is not written, or not read.
Pending(id) ==
    \/ serverInfo.conn # 0 /\ Sending /\ serverInfo.msg.id = id
    \/ \E c \in Conns : InFlight(c) /\ Rid(c) = id

\* No two requests that may still be run are of the same call, nor of one that was run.
CommitInv ==
    /\ \A m, n \in DOMAIN committed : committed[m] = committed[n] => m = n
    /\ \A id \in Range(committed) : id <= calls
    /\ \A c \in Conns : InFlight(c) =>
         /\ Rid(c) <= calls /\ Rid(c) \notin Range(committed)
         /\ \A d \in Conns : InFlight(d) /\ Rid(c) = Rid(d) => c = d
         /\ Sync /\ Rid(c) = serverInfo.msg.id => Current(c)
    /\ Sync /\ Sending => serverInfo.msg.id \notin Range(committed)

IsAnswer(reply) ==
    /\ reply.id = serverInfo.msg.id
    /\ serverInfo.msg.auth = "none" => (reply.result = "OK" <=> reply.id \in Range(committed))

\* The answer to the call that waits is its own.
Answered(c) ==
    Current(c) /\ Waiting =>
        /\ server[c].state = "WRITING" => IsAnswer(server[c].reply)
        /\ link[c].down # <<>> => IsAnswer(Head(link[c].down))
AnswerInv == \A c \in Conns : Answered(c)

\* What a script of call id may return.
Fits(id, result, value) ==
    /\ result = "OK" => id \in Range(committed) /\ (value = NoValue \/ value = Value("REPLY", id))
    /\ result = "ERROR" /\ value.code = "REPLY" => value.id = id /\ id \notin Range(committed) /\ ~Pending(id)

ResultInv ==
    /\ stack # <<>> /\ Call.kind = "send" /\ serverInfo.state = "IDLE" => Fits(calls, serverInfo.result, serverInfo.value)
    /\ \A r \in returned : r.kind = "send" => Fits(r.id, r.result, r.value)

-----------------------------------------------------------------------------
(* The commands that wait. *)

LEMMA StackOne ==
    ASSUME stack \in Seq(Frame), Len(stack) = 1
    PROVE  stack # <<>> /\ Top = Call /\ Popped = <<>>
BY DEF Top, Call, Popped

LEMMA StackTwo ==
    ASSUME stack \in Seq(Frame), Len(stack) = 2
    PROVE  /\ stack # <<>> /\ Top = stack[2]
           /\ Popped # <<>> /\ Len(Popped) = 1 /\ Popped[1] = Call
<1>1. stack # <<>> /\ Top = stack[2]
  BY DEF Top
<1>2. Popped = SubSeq(stack, 1, 1)
  BY DEF Popped
<1>3. Len(SubSeq(stack, 1, 1)) = 1 /\ SubSeq(stack, 1, 1)[1] = Call /\ SubSeq(stack, 1, 1) \in Seq(Frame)
  BY DEF Call
<1>4. QED
  BY <1>1, <1>2, <1>3

LEMMA StackPush ==
    ASSUME stack \in Seq(Frame), NEW f \in Frame
    PROVE  /\ Append(stack, f) # <<>> /\ Len(Append(stack, f)) = Len(stack) + 1
           /\ Append(stack, f)[Len(stack) + 1] = f
           /\ stack # <<>> => Append(stack, f)[1] = Call
<1>1. Len(Append(stack, f)) = Len(stack) + 1 /\ Len(stack) \in Nat /\ Append(stack, f) \in Seq(Frame)
  OBVIOUS
<1>2. Append(stack, f)[Len(stack) + 1] = f
  OBVIOUS
<1>3. stack # <<>> => Append(stack, f)[1] = Call
  BY DEF Call
<1>4. Append(stack, f) # <<>>
  <2>1. Len(Append(stack, f)) # 0 /\ Len(<<>>) = 0
    BY <1>1
  <2>2. QED
    BY <2>1, Zenon
<1>5. QED
  BY <1>1, <1>2, <1>3, <1>4

LEMMA StackEmpty == ASSUME stack \in Seq(Frame) PROVE stack = <<>> <=> Len(stack) = 0
OBVIOUS

WaitInv == CallShape /\ CancelInv

\* What waits when something runs, and when the event loop does.
LEMMA WaitingFor ==
    ASSUME Typed, CallShape
    PROVE  /\ Running <=> Len(stack) # 1
           /\ stack # <<>> /\ Top.kind # "handler" => Len(stack) = 1
           /\ stack # <<>> /\ Top.kind = "handler" => Len(stack) = 2
           /\ Len(stack) \in {0, 1, 2}
<1>1. stack \in Seq(Frame)
  BY DEF Typed
<1>2. Len(stack) \in {0, 1, 2}
  <2>1. Len(stack) \in Nat /\ Len(stack) <= 2
    BY <1>1 DEF CallShape
  <2>2. \A n \in Nat : n <= 2 => n \in {0, 1, 2}
    OBVIOUS
  <2>3. QED
    BY <2>1, <2>2, Zenon
<1>3. CASE Len(stack) = 0
  BY <1>1, <1>3, StackEmpty DEF Running, Top
<1>4. CASE Len(stack) = 1
  BY <1>1, <1>4, StackOne DEF Running, CallShape
<1>5. CASE Len(stack) = 2
  BY <1>1, <1>5, StackTwo DEF Running, CallShape
<1>6. QED
  BY <1>2, <1>3, <1>4, <1>5

LEMMA ConnectWait == ASSUME KeyInv, WaitInv, Connect, ~Nested PROVE WaitInv'
<1> DEFINE f == [kind |-> "connect", id |-> calls + 1]
<1>1. stack = <<>> /\ stack' = Append(stack, f) /\ calls' = calls + 1 /\ UNCHANGED <<returned, marks>> /\ calls \in Nat
  BY DEF Connect, KeyInv, Typed
<1>2. serverInfo'.conn # 0 /\ serverInfo'.conn_state = "NEW" /\ serverInfo'.state = "BUSY"
  <2>1. PICK c \in Conns : serverInfo' = [serverInfo EXCEPT !.conn = c, !.conn_state = "NEW", !.state = "BUSY"]
    BY Zenon DEF Connect
  <2>2. QED
    BY <2>1 DEF KeyInv, Typed, Info, Conns
<1>3. f \in Frame /\ f.kind = "connect" /\ f.id = calls + 1
  BY <1>1 DEF Frame
<1> HIDE DEF f
<1>4. stack' # <<>> /\ Len(stack') = 1 /\ Call' = f
  BY <1>1, <1>3, StackPush DEF KeyInv, Typed, Call
<1>5. CallShape'
  BY <1>1, <1>2, <1>3, <1>4 DEF CallShape, Sync
<1>6. CancelInv'
  BY <1>1, <1>4 DEF WaitInv, CancelInv, KeyInv, Typed, Marks
<1>7. QED
  BY <1>5, <1>6 DEF WaitInv

\* A request is made when no other call waits.
LEMMA RequestAlone ==
    ASSUME KeyInv, WaitInv, NEW kind, NEW msg, NEW channel, Request(kind, msg, channel)
    PROVE  stack = <<>> /\ serverInfo.value = NoValue
<1>1. Typed /\ CallShape /\ CancelInv /\ Running /\ serverInfo.conn # 0
  BY DEF KeyInv, WaitInv, Request
<1>2. stack \in Seq(Frame) /\ Len(stack) \in {0, 2}
  BY <1>1, WaitingFor DEF Typed
<1>3. Len(stack) # 2
  BY <1>1, <1>2, StackTwo DEF CallShape, CancelInv
<1>4. stack = <<>>
  BY <1>2, <1>3, StackEmpty
<1>5. QED
  BY <1>1, <1>4 DEF CallShape

LEMMA RequestWait ==
    ASSUME KeyInv, WaitInv, NEW kind \in {"auth", "send"}, NEW msg, NEW channel, Request(kind, msg, channel),
           msg.id = calls + 1, kind = "send" <=> msg.auth = "none", marks'.cancelled = marks.cancelled
    PROVE  WaitInv'
<1> DEFINE f == [kind |-> kind, id |-> calls + 1]
<1>1. stack = <<>> /\ stack' = Append(stack, f) /\ calls' = calls + 1 /\ returned' = returned /\ calls \in Nat
  BY RequestAlone, Zenon DEF Request, KeyInv, Typed
<1>2. /\ serverInfo'.conn = serverInfo.conn /\ serverInfo'.conn_state = "WRITING" /\ serverInfo'.state = "BUSY"
      /\ serverInfo'.value = NoValue /\ serverInfo'.msg = msg
  BY RequestAlone, Zenon DEF Request, KeyInv, Typed, Info
<1>3. f \in Frame /\ f.kind = kind /\ f.id = calls + 1
  BY <1>1 DEF Frame
<1> HIDE DEF f
<1>4. stack' # <<>> /\ Len(stack') = 1 /\ Call' = f
  BY <1>1, <1>3, StackPush DEF KeyInv, Typed, Call
<1>5. CallShape'
  BY <1>1, <1>2, <1>3, <1>4 DEF CallShape, Sync
<1>6. CancelInv'
  BY <1>1, <1>4 DEF WaitInv, CancelInv, KeyInv, Typed, Marks
<1>7. QED
  BY <1>5, <1>6 DEF WaitInv

LEMMA SendWait ==
    ASSUME KeyInv, WaitInv, \/ \E auth \in Auths : Send_Auth(auth)
                            \/ \E channel \in BOOLEAN : Send(channel)
    PROVE  WaitInv'
<1>1. ASSUME NEW auth \in Auths, Send_Auth(auth) PROVE WaitInv'
  <2> DEFINE msg == [id |-> calls + 1, auth |-> auth, login |-> calls + 1, mic |-> None]
  <2>1. Request("auth", msg, serverInfo.channel) /\ msg.id = calls + 1 /\ msg.auth # "none"
    BY <1>1, Bounds DEF Send_Auth
  <2>2. marks'.cancelled = marks.cancelled
    BY <1>1 DEF Send_Auth, KeyInv, Typed, Marks
  <2> HIDE DEF msg
  <2>3. QED
    BY <2>1, <2>2, RequestWait
<1>2. ASSUME NEW channel \in BOOLEAN, Send(channel) PROVE WaitInv'
  <2> DEFINE msg == [id |-> calls + 1, auth |-> "none", login |-> marks.login, mic |-> None]
  <2>1. Request("send", msg, channel) /\ msg.id = calls + 1 /\ msg.auth = "none" /\ marks' = marks
    BY <1>2 DEF Send
  <2> HIDE DEF msg
  <2>2. QED
    BY <2>1, RequestWait
<1>3. QED
  BY <1>1, <1>2

LEMMA CancelWait == ASSUME KeyInv, WaitInv, Cancel PROVE WaitInv'
<1> DEFINE f == [kind |-> "handler", id |-> 0]
<1>1. Typed /\ CallShape /\ CancelInv /\ stack \in Seq(Frame) /\ calls \in Nat
  BY DEF KeyInv, WaitInv, Typed
<1>2. Len(stack) = 1 /\ stack # <<>> /\ Top = Call
  BY <1>1, WaitingFor, StackOne DEF Cancel
<1>3. stack' = Append(stack, f) /\ calls' = calls /\ returned' = returned /\ f \in Frame /\ f.kind = "handler"
  BY DEF Cancel, Frame
<1> HIDE DEF f
<1>4. stack' # <<>> /\ Len(stack') = 2 /\ Call' = Call /\ stack'[2] = f
  BY <1>1, <1>2, <1>3, StackPush DEF Call
<1>5. marks'.cancelled = marks.cancelled \cup {calls} /\ Call.id = calls
  BY <1>1, <1>2 DEF Cancel, CallShape, Typed, Marks
<1>6. /\ serverInfo'.conn = 0 /\ serverInfo'.state = "IDLE" /\ serverInfo'.result = "ERROR"
      /\ serverInfo'.value.code = "OPCANCELED"
  BY <1>1 DEF Cancel, Typed, Info, do_close, make_error, Value
<1>7. CallShape'
  BY <1>1, <1>2, <1>3, <1>4, <1>5, <1>6 DEF CallShape, Sync
<1>8. CancelInv'
  BY <1>1, <1>2, <1>3, <1>4, <1>5, <1>6 DEF CancelInv
<1>9. QED
  BY <1>7, <1>8 DEF WaitInv

LEMMA DisconnectWait == ASSUME KeyInv, WaitInv, Disconnect PROVE WaitInv'
<1>1. Typed /\ CallShape /\ CancelInv /\ stack \in Seq(Frame) /\ Running /\ serverInfo.conn # 0
  BY DEF KeyInv, WaitInv, Typed, Disconnect
<1>2. Len(stack) # 1 /\ Len(stack) # 2
  BY <1>1, WaitingFor, StackTwo DEF CallShape, CancelInv
<1>3. stack = <<>>
  BY <1>1, <1>2, WaitingFor, StackEmpty
<1>4. serverInfo'.conn = 0 /\ serverInfo'.state = "IDLE" /\ UNCHANGED <<stack, calls, returned, marks>>
  BY <1>1, CloseClears DEF Disconnect, Typed
<1>5. QED
  BY <1>1, <1>3, <1>4 DEF WaitInv, CallShape, CancelInv, Sync, Call

LEMMA EndHandlerWait == ASSUME KeyInv, WaitInv, EndHandler PROVE WaitInv'
<1>1. Typed /\ CallShape /\ CancelInv /\ stack \in Seq(Frame)
  BY DEF KeyInv, WaitInv, Typed
<1>2. Len(stack) = 2 /\ UNCHANGED <<serverInfo, calls, returned, marks>> /\ stack' = Popped
  BY <1>1, WaitingFor DEF EndHandler
<1>3. stack # <<>> /\ stack' # <<>> /\ Len(stack') = 1 /\ Call' = Call
  BY <1>1, <1>2, StackTwo DEF Call
<1>4. serverInfo.conn = 0 /\ serverInfo.state # "BUSY"
  BY <1>1, <1>2, <1>3 DEF CallShape, CancelInv
<1>5. CallShape'
  BY <1>1, <1>2, <1>3, <1>4 DEF CallShape, Sync
<1>6. CancelInv'
  BY <1>1, <1>2, <1>3 DEF CancelInv
<1>7. QED
  BY <1>5, <1>6 DEF WaitInv

LEMMA io_waitWait == ASSUME KeyInv, WaitInv, io_wait PROVE WaitInv'
<1>1. Typed /\ CallShape /\ CancelInv /\ stack \in Seq(Frame) /\ calls \in Nat
  BY DEF KeyInv, WaitInv, Typed
<1>2. Len(stack) = 1 /\ Top = Call /\ stack' = <<>> /\ stack # <<>> /\ Len(stack') = 0
  BY <1>1, WaitingFor, StackOne DEF io_wait
<1>3. serverInfo' = [serverInfo EXCEPT !.value = NoValue] /\ UNCHANGED <<calls, marks>> /\ serverInfo.state = "IDLE"
  BY <1>1 DEF io_wait, Typed, Info
<1>4. /\ serverInfo'.conn = serverInfo.conn /\ serverInfo'.conn_state = serverInfo.conn_state
      /\ serverInfo'.state = "IDLE" /\ serverInfo'.value = NoValue
  BY <1>1, <1>3 DEF Typed, Info
<1>5. ~Sync'
  BY <1>3, <1>4 DEF Sync, KeyInv, IdleIsDone
<1>6. CallShape'
  BY <1>2, <1>4, <1>5 DEF CallShape
<1>7. \A r \in returned' : r \in returned \/ r.id = calls
  BY <1>1, <1>2 DEF io_wait, CallShape
<1>8. CancelInv'
  BY <1>1, <1>2, <1>3, <1>7 DEF CancelInv
<1>9. QED
  BY <1>6, <1>8 DEF WaitInv

\* file_proc: the call goes on, or is done, or its connection is closed.
LEMMA FileProcWait ==
    ASSUME KeyInv, WaitInv, serverInfo.conn # 0, NEW si \in Info, NEW l, NEW k, FileProc(si, l, k),
           \/ si.conn = 0 /\ si.state = "IDLE"
           \/ /\ si.conn = serverInfo.conn /\ serverInfo.conn_state # "IODONE"
              /\ si.conn_state = "IODONE" /\ si.state = "IDLE"
           \/ /\ Sync /\ si.conn = serverInfo.conn /\ si.conn_state = "READING" /\ si.state = serverInfo.state
              /\ si.msg = serverInfo.msg /\ si.value = serverInfo.value
    PROVE  WaitInv'
<1>1. Typed /\ CallShape /\ CancelInv /\ stack \in Seq(Frame)
  BY DEF KeyInv, WaitInv, Typed
<1>2. UNCHANGED <<stack, calls, returned, marks>> /\ serverInfo' = si /\ Call' = Call
  BY DEF FileProc, Call
<1>3. stack # <<>> => calls \notin marks.cancelled
  BY <1>1 DEF CancelInv
<1>4. CancelInv'
  BY <1>1, <1>2, <1>3 DEF CancelInv
<1>5. serverInfo.conn_state # "IODONE" => serverInfo.state = "BUSY" /\ stack # <<>>
  BY <1>1, StackOne DEF KeyInv, IdleIsDone, Typed, Info, CallShape
<1>6. CallShape'
  <2>1. Len(stack) # 2
    BY <1>1, <1>3, StackTwo DEF CallShape
  <2>2. QED
    BY <1>1, <1>2, <1>5, <2>1 DEF CallShape, Sync
<1>7. QED
  BY <1>4, <1>6 DEF WaitInv

LEMMA EventWait == ASSUME KeyInv, WaitInv, Connected \/ Written \/ Read \/ Lost \/ Eof PROVE WaitInv'
<1>1. serverInfo \in Info /\ serverInfo.conn # 0
  BY DEF KeyInv, Typed, Connected, Written, Read, Lost, Eof, Doing
<1>2. ASSUME NEW code \in Codes, FileProc(break_conn(serverInfo, code), Shut(Link), Crypto) PROVE WaitInv'
  BY <1>1, <1>2, BreakType, BreakClears, FileProcWait
<1>3. CASE Lost \/ Eof
  BY <1>2, <1>3, Zenon DEF Lost, Eof, Codes
<1>4. CASE Connected
  <2> DEFINE si == [serverInfo EXCEPT !.conn_state = "IODONE", !.state = "IDLE", !.result = "OK"]
  <2>1. si \in Info /\ si.conn = serverInfo.conn /\ si.conn_state = "IODONE" /\ si.state = "IDLE"
    BY <1>1, Zenon DEF Info
  <2>2. serverInfo.conn_state # "IODONE" /\ (FileProc(si, Link, Crypto) \/ FileProc(break_conn(serverInfo, "EAGAIN"), Shut(Link), Crypto))
    BY <1>4 DEF Connected, Doing
  <2> HIDE DEF si
  <2>3. QED
    BY <1>1, <1>2, <2>1, <2>2, FileProcWait, Zenon DEF Codes
<1>5. CASE Written
  <2> DEFINE si == [serverInfo EXCEPT !.conn_state = "READING"]
  <2>1. /\ si \in Info /\ si.conn = serverInfo.conn /\ si.conn_state = "READING" /\ si.state = serverInfo.state
        /\ si.msg = serverInfo.msg /\ si.value = serverInfo.value
    BY <1>1 DEF Info
  <2>2. PICK l, k : FileProc(si, l, k)
    BY <1>5 DEF Written
  <2>3. Sync
    BY <1>1, <1>5 DEF Written, Doing, Sync
  <2> HIDE DEF si
  <2>4. QED
    BY <1>1, <2>1, <2>2, <2>3, FileProcWait
<1>6. CASE Read
  <2> DEFINE reply == Head(Link.down)
             got == [serverInfo EXCEPT !.conn_state = "IODONE", !.state = "IDLE"]
             err(code) == [make_error(got, code) EXCEPT !.value.id = IF code = "REPLY" THEN reply.id ELSE 0]
  <2>1. /\ got \in Info /\ got.conn = serverInfo.conn /\ got.conn_state = "IODONE" /\ got.state = "IDLE"
        /\ serverInfo.conn_state # "IODONE"
    BY <1>1, <1>6, Zenon DEF Info, Read, Doing
  <2>2. PICK si, l, k :
          /\ FileProc(si, l, k)
          /\ \/ \E code \in {"REPLY", "EBADMIC"} : si = do_close(err(code))
             \/ si = [got EXCEPT !.value = Value("REPLY", reply.id), !.result = reply.result]
             \/ \E written \in {"OK", "ERROR"} : si = [got EXCEPT !.result = written]
    BY <1>6 DEF Read
  <2>3. si \in Info
    BY <1>6, <2>2, ReadTyped DEF KeyInv, Typed, FileProc
  <2> HIDE DEF got, reply
  <2>4. \/ si.conn = 0 /\ si.state = "IDLE"
        \/ si.conn = serverInfo.conn /\ si.conn_state = "IODONE" /\ si.state = "IDLE"
    BY <2>1, <2>2, Zenon DEF make_error, do_close, Info
  <2>5. QED
    BY <1>1, <2>1, <2>2, <2>3, <2>4, FileProcWait
<1>7. QED
  BY <1>3, <1>4, <1>5, <1>6

\* The server does not know of the client's calls.
LEMMA ServerWait ==
    ASSUME KeyInv, WaitInv, UNCHANGED <<serverInfo, stack, calls, returned>>, marks'.cancelled = marks.cancelled
    PROVE  WaitInv'
BY DEF WaitInv, CallShape, CancelInv, Sync, Call

LEMMA ServerQuiet ==
    ASSUME KeyInv, ServerLoop \/ Signal \/ (\E c \in Conns : ServerEof(c) \/ Timeout(c)) \/ UNCHANGED vars
    PROVE  UNCHANGED <<serverInfo, stack, calls, returned>> /\ marks'.cancelled = marks.cancelled
<1>1. UNCHANGED <<serverInfo, stack, calls, returned>>
  BY ZenonT(30) DEF ServerLoop, LoopEnd, server_accept, Read_Done, Login, Conn_Execute, Write_Done, Reply, Reap, ServerEof,
         Timeout, ServerStep, Signal, vars
<1>2. UNCHANGED marks \/ \E p : marks' = [marks EXCEPT !.ran = @ \cup {p}]
  BY Zenon DEF ServerLoop, LoopEnd, server_accept, Read_Done, Login, Conn_Execute, Write_Done, Reap, ServerEof,
         Timeout, Signal, vars
<1>3. QED
  BY <1>1, <1>2 DEF KeyInv, Typed, Marks

LEMMA WaitStep == ASSUME KeyInv, WaitInv, ~Nested, [Next]_vars PROVE WaitInv'
<1>1. CASE \/ Connect \/ Disconnect \/ Cancel
           \/ \E auth \in Auths : Send_Auth(auth)
           \/ \E channel \in BOOLEAN : Send(channel)
  BY <1>1, ConnectWait, DisconnectWait, CancelWait, SendWait
<1>2. CASE EventLoop \/ Lost
  BY <1>2, EventWait, io_waitWait, EndHandlerWait DEF EventLoop
<1>3. CASE ServerLoop \/ Signal \/ (\E c \in Conns : ServerEof(c) \/ Timeout(c)) \/ UNCHANGED vars
  BY <1>3, ServerQuiet, ServerWait
<1>4. QED
  BY <1>1, <1>2, <1>3 DEF Next, Finished

LEMMA WaitInvariance == ~Nested => (Spec => [](KeyInv /\ WaitInv))
<1> SUFFICES ASSUME ~Nested PROVE Spec => [](KeyInv /\ WaitInv)
  OBVIOUS
<1>1. Init => WaitInv
  BY DEF Init, WaitInv, CallShape, CancelInv, Sync
<1>2. KeyInv /\ WaitInv /\ [Next]_vars => WaitInv'
  BY WaitStep
<1>3. QED
  BY <1>1, <1>2, KeyInvariance, PTL DEF Spec

\* What the other steps of the client leave alone.
LEMMA ClientQuiet ==
    ASSUME KeyInv, \/ Connect \/ Disconnect \/ EndHandler \/ Connected \/ Written \/ Read \/ Lost \/ Eof
                   \/ \E auth \in Auths : Send_Auth(auth)
                   \/ \E channel \in BOOLEAN : Send(channel)
    PROVE  returned' = returned /\ marks'.cancelled = marks.cancelled /\ committed' = committed
<1>1. returned' = returned /\ committed' = committed
  BY Zenon DEF Connect, Disconnect, EndHandler, Connected, Written, Read, Lost, Eof, FileProc, Send_Auth, Send, Request
<1>2. UNCHANGED marks \/ marks' = [marks EXCEPT !.login = calls + 1]
  BY Zenon DEF Connect, Disconnect, EndHandler, Connected, Written, Read, Lost, Eof, FileProc, Send_Auth, Send
<1>3. QED
  BY <1>1, <1>2 DEF KeyInv, Typed, Marks

LEMMA CancelStep == ASSUME KeyInv, WaitInv, CancelNoticed, [Next]_vars PROVE CancelNoticed'
<1>1. CASE returned' = returned /\ marks'.cancelled = marks.cancelled
  BY <1>1 DEF CancelNoticed
<1>2. CASE Cancel
  <2>1. Typed /\ CallShape /\ CancelInv /\ stack \in Seq(Frame)
    BY DEF KeyInv, WaitInv, Typed
  <2>2. Len(stack) = 1 /\ stack # <<>> /\ Top = Call
    BY <1>2, <2>1, WaitingFor, StackOne DEF Cancel
  <2>3. marks'.cancelled = marks.cancelled \cup {calls} /\ returned' = returned
    BY <1>2, <2>1, <2>2 DEF Cancel, CallShape, Typed, Marks
  <2>4. QED
    BY <2>1, <2>2, <2>3 DEF CancelNoticed, CancelInv
<1>3. CASE io_wait
  <2>1. Typed /\ CallShape /\ CancelInv /\ stack \in Seq(Frame)
    BY DEF KeyInv, WaitInv, Typed
  <2>2. stack # <<>> /\ Top.id = calls /\ marks' = marks
    BY <1>3, <2>1, WaitingFor, StackOne DEF io_wait, CallShape
  <2>3. \A r \in returned' : r \in returned \/ (r.id = calls /\ r.result = serverInfo.result /\ r.value = serverInfo.value)
    BY <1>3, <2>2 DEF io_wait
  <2>4. QED
    BY <2>1, <2>2, <2>3 DEF CancelNoticed, CancelInv
<1>4. QED
  BY <1>1, <1>2, <1>3, ClientQuiet, ServerQuiet DEF Next, EventLoop, Finished

\* A command whose connection a handler closes while it waits returns that it was
\* cancelled, if that handler does not connect again (io_wait in clntcall.c).
THEOREM CancelsAreNoticed == ~Nested => (Spec => []CancelNoticed)
<1> SUFFICES ASSUME ~Nested PROVE Spec => []CancelNoticed
  OBVIOUS
<1>1. Init => CancelNoticed
  BY DEF Init, CancelNoticed
<1>2. Spec => [](KeyInv /\ WaitInv)
  BY WaitInvariance
<1>3. QED
  BY <1>1, <1>2, CancelStep, PTL DEF Spec

-----------------------------------------------------------------------------
(* Scripts that are committed. *)

LEMMA CommittedSet ==
    ASSUME Typed, NEW id \in Nat, committed' = Append(committed, id)
    PROVE  Range(committed)' = Range(committed) \cup {id}
<1>1. committed \in Seq(Nat) /\ Len(committed) \in Nat
  BY DEF Typed
<1>2. DOMAIN committed' = 1..(Len(committed) + 1) /\ DOMAIN committed = 1..Len(committed)
  BY <1>1
<1>3. committed'[Len(committed) + 1] = id /\ \A i \in DOMAIN committed : committed'[i] = committed[i]
  BY <1>1
<1>4. QED
  BY <1>1, <1>2, <1>3 DEF Range

LEMMA InFlightId == ASSUME Typed, NEW c \in Conns, InFlight(c) PROVE Rid(c) \in Nat
<1>1. link[c] \in Wire
  BY DEF Typed
<1>2. link[c].up \in Seq(Message) /\ link[c].up # <<>>
  BY <1>1 DEF Wire, InFlight
<1>3. Head(link[c].up) \in Message
  BY <1>2
<1>4. QED
  BY <1>3 DEF Message, Rid

LEMMA CommittedIds == ASSUME Typed PROVE Range(committed) \subseteq Nat
BY DEF Typed, Range

\* A step that writes no request and runs no script.
Still ==
    /\ committed' = committed /\ calls' \in Nat /\ calls <= calls'
    /\ \A c \in Conns : link'[c].up \in {link[c].up, <<>>}
    /\ Sync' => \/ /\ Sync /\ serverInfo'.conn = serverInfo.conn /\ serverInfo'.msg = serverInfo.msg
                   /\ Sending' => Sending
                \/ serverInfo'.msg.id = calls' /\ calls < calls'

LEMMA StillCommit == ASSUME Typed, CommitInv, Still PROVE CommitInv'
<1>1. Range(committed)' = Range(committed) /\ calls \in Nat
  BY DEF Still, Typed, Range
<1>2. ASSUME NEW c \in Conns, InFlight(c)' PROVE InFlight(c) /\ Rid(c)' = Rid(c) /\ Rid(c) \in Nat
  BY <1>2, InFlightId DEF Still, InFlight, Rid
<1>3. ASSUME NEW c \in Conns, InFlight(c)'
      PROVE  /\ Rid(c)' <= calls' /\ Rid(c)' \notin Range(committed)'
             /\ \A d \in Conns : InFlight(d)' /\ Rid(c)' = Rid(d)' => c = d
             /\ Sync' /\ Rid(c)' = serverInfo'.msg.id => Current(c)'
  <2>1. InFlight(c) /\ Rid(c)' = Rid(c) /\ Rid(c) \in Nat
    BY <1>2, <1>3
  <2>2. /\ Rid(c) <= calls /\ Rid(c) \notin Range(committed)
        /\ \A d \in Conns : InFlight(d) /\ Rid(c) = Rid(d) => c = d
        /\ Sync /\ Rid(c) = serverInfo.msg.id => Current(c)
    BY <2>1 DEF CommitInv
  <2>3. Rid(c)' <= calls' /\ Rid(c)' \notin Range(committed)'
    BY <1>1, <2>1, <2>2 DEF Still
  <2>4. Sync' /\ Rid(c)' = serverInfo'.msg.id => Current(c)'
    BY <1>1, <2>1, <2>2 DEF Still, Current
  <2>5. QED
    BY <1>2, <2>1, <2>2, <2>3, <2>4
<1>4. Sync' /\ Sending' => serverInfo'.msg.id \notin Range(committed)'
  <2>1. \A id \in Range(committed) : id \in Nat /\ id <= calls
    BY CommittedIds DEF CommitInv
  <2>2. QED
    BY <1>1, <2>1 DEF Still, CommitInv
<1>5. \A id \in Range(committed)' : id <= calls'
  BY <1>1, CommittedIds DEF CommitInv, Still
<1>6. \A m, n \in DOMAIN committed' : committed'[m] = committed'[n] => m = n
  BY DEF CommitInv, Still
<1>7. QED
  BY <1>3, <1>4, <1>5, <1>6 DEF CommitInv

\* The calls that are over stay over.
NoMore ==
    /\ Range(committed) \subseteq Range(committed)'
    /\ \A id \in Nat : id <= calls =>
         /\ Pending(id)' => Pending(id)
         /\ id \in Range(committed)' => id \in Range(committed) \/ Pending(id)

LEMMA StillNoMore == ASSUME Typed, Still PROVE NoMore
<1>1. Range(committed)' = Range(committed) /\ calls \in Nat
  BY DEF Still, Typed, Range
<1>2. ASSUME NEW id \in Nat, id <= calls, Pending(id)' PROVE Pending(id)
  <2>1. CASE serverInfo'.conn # 0 /\ Sending' /\ serverInfo'.msg.id = id
    BY <1>1, <1>2, <2>1 DEF Still, Sync, Sending, Pending
  <2>2. CASE \E c \in Conns : InFlight(c)' /\ Rid(c)' = id
    BY <2>2 DEF Still, InFlight, Rid, Pending
  <2>3. QED
    BY <1>2, <2>1, <2>2 DEF Pending
<1>3. QED
  BY <1>1, <1>2 DEF NoMore

\* Once a connection is closed or idle, no call is on its way on it.
LEMMA EventStill == ASSUME KeyInv, Connected \/ Read \/ Lost \/ Eof PROVE Still /\ ~Sync'
<1>1. PICK c \in Conns : c = serverInfo.conn
  BY CurrentConn DEF Connected, Read, Lost, Eof, Doing
<1>2. serverInfo \in Info /\ link[c] \in Wire /\ Link = link[c] /\ calls \in Nat
  BY <1>1 DEF KeyInv, Typed, Link
<1>3. Shut(link[c]).up = link[c].up
  BY <1>2, ShutUp
<1>4. ASSUME NEW si, NEW m, NEW k, FileProc(si, m, k), m.up = link[c].up, si.conn = 0 \/ si.conn_state = "IODONE"
      PROVE  Still /\ ~Sync'
  <2>1. (\A d \in Conns : link'[d].up = link[d].up) /\ serverInfo' = si /\ committed' = committed /\ calls' = calls
    BY <1>1, <1>4, FileProcUp DEF FileProc
  <2>2. QED
    BY <1>2, <1>4, <2>1 DEF Still, Sync
<1>5. ASSUME NEW code \in Codes, FileProc(break_conn(serverInfo, code), Shut(Link), Crypto) PROVE Still /\ ~Sync'
  BY <1>2, <1>3, <1>4, <1>5, BreakClears
<1>6. CASE Connected
  <2> DEFINE done == [serverInfo EXCEPT !.conn_state = "IODONE", !.state = "IDLE", !.result = "OK"]
  <2>1. done.conn_state = "IODONE"
    BY <1>2 DEF Info
  <2>2. FileProc(done, link[c], Crypto) \/ FileProc(break_conn(serverInfo, "EAGAIN"), Shut(Link), Crypto)
    BY <1>2, <1>6 DEF Connected
  <2> HIDE DEF done
  <2>3. QED
    BY <1>4, <1>5, <2>1, <2>2, Zenon DEF Codes
<1>7. CASE Lost \/ Eof
  BY <1>5, <1>7, Zenon DEF Lost, Eof, Codes
<1>8. CASE Read
  <2> DEFINE reply == Head(link[c].down)
             l == [link[c] EXCEPT !.down = <<>>]
             got == [serverInfo EXCEPT !.conn_state = "IODONE", !.state = "IDLE"]
             err(code) == [make_error(got, code) EXCEPT !.value.id = IF code = "REPLY" THEN reply.id ELSE 0]
  <2>1. l \in Wire /\ l.up = link[c].up
    BY <1>2, Empty, Zenon DEF Wire
  <2>2. Shut(l).up = link[c].up
    BY <2>1, ShutUp, Zenon
  <2>3. PICK si, m, k :
          /\ FileProc(si, m, k) /\ m \in {l, Shut(l)}
          /\ \/ \E code \in {"REPLY", "EBADMIC"} : si = do_close(err(code))
             \/ si = [got EXCEPT !.value = Value("REPLY", reply.id), !.result = reply.result]
             \/ \E written \in {"OK", "ERROR"} : si = [got EXCEPT !.result = written]
    BY <1>2, <1>8, Zenon DEF Read
  <2>4. got \in Info /\ got.conn_state = "IODONE"
    BY <1>2, Zenon DEF Info
  <2> HIDE DEF l, got, reply
  <2>5. si.conn = 0 \/ si.conn_state = "IODONE"
    BY <2>3, <2>4, Zenon DEF Info, do_close, make_error
  <2>6. m.up = link[c].up
    BY <2>1, <2>2, <2>3
  <2>7. QED
    BY <1>4, <2>3, <2>5, <2>6
<1>9. QED
  BY <1>6, <1>7, <1>8

LEMMA CommandStill ==
    ASSUME KeyInv, \/ Connect \/ Disconnect \/ Cancel
                   \/ \E auth \in Auths : Send_Auth(auth)
                   \/ \E channel \in BOOLEAN : Send(channel)
    PROVE  Still
<1>1. serverInfo \in Info /\ calls \in Nat /\ link \in [Conns -> Wire]
  BY DEF KeyInv, Typed
<1>2. CASE Connect
  <2>1. PICK c \in Conns :
          /\ serverInfo' = [serverInfo EXCEPT !.conn = c, !.conn_state = "NEW", !.state = "BUSY"]
          /\ link' = [link EXCEPT ![c].fresh = FALSE, ![c].client = TRUE]
    BY <1>2, Zenon DEF Connect
  <2>2. serverInfo'.conn_state = "NEW"
    BY <1>1, <2>1 DEF Info
  <2>3. ASSUME NEW d \in Conns PROVE link'[d].up = link[d].up
    BY <1>1, <2>1, <2>3 DEF Wire
  <2>4. committed' = committed /\ calls' = calls + 1
    BY <1>2, Zenon DEF Connect
  <2>5. QED
    BY <1>1, <2>2, <2>3, <2>4 DEF Still, Sync
<1>3. CASE Disconnect \/ Cancel
  <2>1. serverInfo' \in {break_conn(serverInfo, "OPCANCELED"), do_close(serverInfo)}
    BY <1>3 DEF Cancel, Disconnect, break_conn
  <2>2. serverInfo'.conn = 0
    BY <1>1, <2>1, BreakClears, CloseClears, Zenon DEF Codes
  <2>3. ASSUME NEW d \in Conns PROVE link'[d].up = link[d].up
    <3>1. link'[d] \in {link[d], Shut(link[d])}
      BY <1>1, <1>3, <2>3 DEF Cancel, Disconnect
    <3>2. QED
      BY <1>1, <3>1, ShutUp
  <2>4. QED
    BY <1>1, <1>3, <2>2, <2>3 DEF Cancel, Disconnect, Still, Sync
<1>4. ASSUME NEW kind, NEW msg, NEW channel, Request(kind, msg, channel), msg.id = calls + 1 PROVE Still
  BY <1>1, <1>4 DEF Request, Still, Info
<1>5. QED
  BY <1>2, <1>3, <1>4, Zenon DEF Send_Auth, Send

LEMMA ReturnStill == ASSUME KeyInv, EndHandler \/ io_wait PROVE Still
<1>1. SameCall /\ link' = link /\ committed' = committed /\ calls' = calls /\ calls \in Nat
  BY DEF KeyInv, Typed, Info, SameCall, EndHandler, io_wait
<1>2. QED
  BY <1>1 DEF Still, SameCall, Sync, Sending

LEMMA ServerStill ==
    ASSUME KeyInv, \/ LoopEnd \/ Signal \/ UNCHANGED vars
                   \/ \E c \in Conns : server_accept(c) \/ Write_Done(c) \/ ServerEof(c) \/ Timeout(c)
    PROVE  Still
<1>1. link \in [Conns -> Wire] /\ calls \in Nat
  BY DEF KeyInv, Typed
<1>2. UNCHANGED <<serverInfo, calls, committed>>
  BY Zenon DEF LoopEnd, Signal, vars, server_accept, Write_Done, ServerEof, Timeout, Reap, ServerStep
<1>3. ASSUME NEW d \in Conns PROVE link'[d].up \in {link[d].up, <<>>}
  <2>1. CASE LoopEnd \/ Signal \/ UNCHANGED vars
    BY <1>1, <2>1, ReapUp DEF LoopEnd, Signal, vars
  <2>2. ASSUME NEW c \in Conns, server_accept(c) \/ ServerEof(c) \/ Timeout(c) PROVE link'[d].up \in {link[d].up, <<>>}
    BY <1>1, <2>2, ReapUp DEF server_accept, ServerEof, Timeout, Reap, ServerStep
  <2>3. ASSUME NEW c \in Conns, Write_Done(c) PROVE link'[d].up \in {link[d].up, <<>>}
    <3>1. PICK l : l \in Wire /\ l.up = link[c].up /\ \E s, k : ServerStep(c, s, l, k) \/ ServerStep(c, s, ReapLink(l), k)
      <4> DEFINE down == IF link[c].client THEN <<[server[c].reply EXCEPT !.mic = crypto[c]["server"].write]>> ELSE <<>>
                 l == [link[c] EXCEPT !.down = down]
      <4>1. \E s, k : ServerStep(c, s, l, k) \/ ServerStep(c, s, ReapLink(l), k)
        BY <2>3 DEF Write_Done
      <4>2. [server[c].reply EXCEPT !.mic = crypto[c]["server"].write] \in Answer
        <5>1. server[c] \in ServerConn /\ crypto[c]["server"] \in Context
          BY DEF KeyInv, Typed
        <5>2. QED
          BY <5>1 DEF ServerConn, Answer, Context
      <4>3. down \in Seq(Answer)
        BY <4>2, One, Empty
      <4> HIDE DEF down
      <4>4. l.up = link[c].up /\ l \in Wire
        BY <1>1, <4>3, Zenon DEF Wire
      <4>5. QED
        BY <4>1, <4>4, Zenon
    <3>2. ReapLink(l).up = <<>>
      BY <3>1, ReapUp
    <3>3. link'[c] \in {l, ReapLink(l)} /\ (d # c => link'[d] = link[d])
      BY <1>1, <3>1 DEF ServerStep
    <3>4. QED
      BY <3>1, <3>2, <3>3
  <2>4. QED
    BY <2>1, <2>2, <2>3
<1>4. QED
  BY <1>1, <1>2, <1>3 DEF Still, Sync, Sending

LEMMA WrittenCommits == ASSUME KeyInv, WaitInv, CommitInv, Written PROVE CommitInv' /\ NoMore
<1>1. PICK c \in Conns : c = serverInfo.conn
  BY CurrentConn DEF Written, Doing
<1> DEFINE msg == [serverInfo.msg EXCEPT !.mic = Crypto.write]
<1>2. /\ link'[c].up \in {<<msg>>, <<>>}
      /\ \A d \in Conns : d # c => link'[d].up = link[d].up
      /\ calls' = calls /\ committed' = committed
  BY <1>1 DEF Written, FileProc, KeyInv, Typed, Wire, Link
<1>3. serverInfo'.conn = c /\ serverInfo'.conn_state = "READING" /\ serverInfo'.msg = serverInfo.msg
  BY <1>1 DEF Written, FileProc, KeyInv, Typed, Info
<1>4. msg.id = serverInfo.msg.id
  BY DEF KeyInv, Typed, Info, Message
<1> HIDE DEF msg
<1>5. <<msg>> # <<>> /\ Head(<<msg>>) = msg
  OBVIOUS
<1>6. Sync /\ Sending /\ serverInfo.msg.id = calls /\ calls \in Nat /\ serverInfo.msg.id \notin Range(committed)
  BY DEF Written, Doing, Sync, Sending, WaitInv, CallShape, KeyInv, Typed, CommitInv
<1>7. Range(committed)' = Range(committed) /\ ~Sending'
  BY <1>2, <1>3 DEF Range, Sending
<1>8. ASSUME NEW d \in Conns, InFlight(d)'
      PROVE  \/ d = c /\ Rid(d)' = calls
             \/ d # c /\ InFlight(d) /\ Rid(d)' = Rid(d) /\ Rid(d) # calls
  <2>1. CASE d = c
    BY <1>2, <1>4, <1>5, <1>6, <1>8, <2>1 DEF InFlight, Rid
  <2>2. CASE d # c
    BY <1>1, <1>2, <1>6, <1>8, <2>2 DEF InFlight, Rid, CommitInv, Current
  <2>3. QED
    BY <2>1, <2>2
<1>9. CommitInv'
  <2>1. ASSUME NEW d \in Conns, InFlight(d)'
        PROVE  /\ Rid(d)' <= calls' /\ Rid(d)' \notin Range(committed)'
               /\ \A e \in Conns : InFlight(e)' /\ Rid(d)' = Rid(e)' => d = e
               /\ Sync' /\ Rid(d)' = serverInfo'.msg.id => Current(d)'
    BY <1>2, <1>3, <1>6, <1>7, <1>8, <2>1 DEF CommitInv, Current
  <2>2. QED
    BY <1>2, <1>7, <2>1 DEF CommitInv
<1>10. NoMore
  <2>1. Pending(calls)
    BY <1>6 DEF Pending, Sync
  <2>2. ASSUME NEW id \in Nat, Pending(id)' PROVE Pending(id)
    BY <1>7, <1>8, <2>1, <2>2 DEF Pending
  <2>3. QED
    BY <1>7, <2>2 DEF NoMore
<1>11. QED
  BY <1>9, <1>10

\* What the server has done when it has read a request.
LEMMA ReadDoneDid ==
    ASSUME KeyInv, NEW c \in Conns, Read_Done(c)
    PROVE  /\ InFlight(c) /\ server[c].state = "READING" /\ UNCHANGED <<serverInfo, calls, stack, returned>>
           /\ link'[c].up = <<>> /\ link'[c].down = link[c].down
           /\ server'[c].state = "WRITING" /\ server'[c].reply.id = Rid(c)
           /\ \A d \in Conns : d # c => link'[d] = link[d] /\ server'[d] = server[d]
           /\ LET runs == Head(link[c].up).auth = "none" /\ server'[c].reply.result = "OK"
              IN  committed' = IF runs THEN Append(committed, Rid(c)) ELSE committed
<1> DEFINE msg == Head(link[c].up)
<1>1. Typed /\ InFlight(c) /\ server[c].state = "READING"
  BY DEF KeyInv, Read_Done, InFlight
<1>2. PICK interp, result, k :
        /\ Reply(c, msg, interp, result, k)
        /\ committed' = IF msg.auth = "none" /\ result = "OK" THEN Append(committed, msg.id) ELSE committed
  <2>1. CASE msg.auth # "none" /\ Login(c, msg)
    BY <2>1 DEF Login
  <2>2. CASE msg.auth = "none" /\ Conn_Execute(c, msg)
    BY <2>2 DEF Conn_Execute
  <2>3. CASE /\ msg.auth = "none"
             /\ Reply(c, msg, 0, "ERROR", AfterRead(crypto[c]["server"], msg.mic))
             /\ UNCHANGED <<term, committed, marks>>
    BY <2>3
  <2>4. QED
    BY <2>1, <2>2, <2>3, ZenonT(30) DEF Read_Done
<1> HIDE DEF msg
<1>3. /\ server'[c] = [state |-> "WRITING", interp |-> interp, reply |-> [id |-> msg.id, result |-> result, mic |-> None]]
      /\ link'[c] = [link[c] EXCEPT !.up = <<>>]
      /\ \A d \in Conns : d # c => link'[d] = link[d] /\ server'[d] = server[d]
      /\ UNCHANGED <<serverInfo, calls, stack, returned>>
  BY <1>1, <1>2 DEF Reply, ServerStep, Typed
<1>4. link'[c].up = <<>> /\ link'[c].down = link[c].down
  BY <1>1, <1>3 DEF Typed, Wire
<1>5. server'[c].state = "WRITING" /\ server'[c].reply.id = msg.id /\ server'[c].reply.result = result
  BY <1>3
<1>6. QED
  BY <1>1, <1>2, <1>3, <1>4, <1>5 DEF msg, Rid

LEMMA ReadDoneCommits == ASSUME KeyInv, CommitInv, NEW c \in Conns, Read_Done(c) PROVE CommitInv' /\ NoMore
<1>1. /\ InFlight(c) /\ UNCHANGED <<serverInfo, calls>> /\ ~InFlight(c)'
      /\ \A d \in Conns : d # c => link'[d] = link[d]
      /\ committed' \in {committed, Append(committed, Rid(c))}
  BY ReadDoneDid DEF InFlight
<1>2. Typed /\ Rid(c) \in Nat /\ Rid(c) <= calls /\ Rid(c) \notin Range(committed) /\ committed \in Seq(Nat)
  BY <1>1, InFlightId DEF KeyInv, Typed, CommitInv
<1>3. Range(committed)' \in {Range(committed), Range(committed) \cup {Rid(c)}}
  BY <1>1, <1>2, CommittedSet, Zenon DEF Range
<1>4. ASSUME NEW d \in Conns, InFlight(d)' PROVE d # c /\ InFlight(d) /\ Rid(d)' = Rid(d) /\ Rid(d) # Rid(c)
  BY <1>1, <1>4 DEF InFlight, Rid, CommitInv
<1>5. \A m, n \in DOMAIN committed' : committed'[m] = committed'[n] => m = n
  <2>1. CASE committed' = committed
    BY <2>1 DEF CommitInv
  <2>2. CASE committed' = Append(committed, Rid(c))
    <3>1. /\ DOMAIN committed' = 1..(Len(committed) + 1) /\ Len(committed) \in Nat /\ DOMAIN committed = 1..Len(committed)
          /\ committed'[Len(committed) + 1] = Rid(c) /\ \A i \in DOMAIN committed : committed'[i] = committed[i]
      BY <1>2, <2>2
    <3>2. \A i \in DOMAIN committed : committed[i] # Rid(c)
      BY <1>2 DEF Range
    <3>3. QED
      BY <3>1, <3>2 DEF CommitInv
  <2>3. QED
    BY <1>1, <2>1, <2>2
<1>6. Sync' /\ Sending' => serverInfo'.msg.id \notin Range(committed)'
  <2>1. Sync /\ Sending => Rid(c) # serverInfo.msg.id
    BY <1>1 DEF CommitInv, KeyInv, Paired, HalfDuplex, InFlight, Sending, Waiting
  <2>2. QED
    BY <1>1, <1>3, <2>1 DEF CommitInv, Sync, Sending
<1>7. CommitInv'
  <2>1. ASSUME NEW d \in Conns, InFlight(d)'
        PROVE  /\ Rid(d)' <= calls' /\ Rid(d)' \notin Range(committed)'
               /\ \A e \in Conns : InFlight(e)' /\ Rid(d)' = Rid(e)' => d = e
               /\ Sync' /\ Rid(d)' = serverInfo'.msg.id => Current(d)'
    BY <1>1, <1>3, <1>4, <2>1 DEF CommitInv, Current, Sync
  <2>2. \A id \in Range(committed)' : id <= calls'
    BY <1>1, <1>2, <1>3 DEF CommitInv
  <2>3. QED
    BY <1>5, <1>6, <2>1, <2>2 DEF CommitInv
<1>8. NoMore
  <2>1. Pending(Rid(c))
    BY <1>1 DEF Pending
  <2>2. ASSUME NEW id \in Nat, Pending(id)' PROVE Pending(id)
    BY <1>1, <1>4, <2>2 DEF Pending, Sending
  <2>3. QED
    BY <1>3, <2>1, <2>2 DEF NoMore
<1>9. QED
  BY <1>7, <1>8

LEMMA CommitStep == ASSUME KeyInv, WaitInv, CommitInv, [Next]_vars PROVE CommitInv' /\ NoMore
<1>1. CASE Still
  BY <1>1, StillCommit, StillNoMore DEF KeyInv
<1>2. QED
  BY <1>1, WrittenCommits, ReadDoneCommits, EventStill, CommandStill, ReturnStill, ServerStill
     DEF Next, EventLoop, ServerLoop, Finished

-----------------------------------------------------------------------------
(* The answer to the call that waits. *)

\* A step that leaves the call and what is committed alone, and answers nothing.
Mute(c) ==
    /\ SameCall /\ committed' = committed
    /\ server'[c].state = "WRITING" => server'[c] = server[c]
    /\ link'[c].down # <<>> => link'[c].down = link[c].down

LEMMA ConnsNatural == 0 \notin Conns
BY Bounds DEF Conns

LEMMA MuteAnswer == ASSUME NEW c \in Conns, Answered(c), Mute(c) PROVE Answered(c)'
<1>1. Current(c)' = Current(c) /\ Waiting' = Waiting /\ serverInfo'.msg = serverInfo.msg /\ Range(committed)' = Range(committed)
  BY DEF Mute, SameCall, Current, Waiting, Range
<1>2. QED
  BY <1>1 DEF Answered, Mute, IsAnswer

LEMMA WrittenAnswer == ASSUME KeyInv, NEW c \in Conns, Written PROVE Answered(c)'
<1>1. link \in [Conns -> Wire] /\ serverInfo \in Info /\ HalfDuplex(c)
  BY DEF KeyInv, Typed, Paired
<1>2. server' = server /\ link'[c].down = link[c].down /\ serverInfo'.conn = serverInfo.conn /\ Sending /\ ~Waiting
  BY <1>1 DEF Written, Doing, FileProc, Sending, Waiting, Info, Wire, Link
<1>3. QED
  BY <1>1, <1>2 DEF Answered, HalfDuplex, Current

LEMMA CommandAnswer ==
    ASSUME KeyInv, KeyInv', NEW c \in Conns,
           \/ Connect \/ Disconnect \/ Cancel \/ Connected \/ Read \/ Lost \/ Eof
           \/ \E auth \in Auths : Send_Auth(auth)
           \/ \E channel \in BOOLEAN : Send(channel)
    PROVE  Answered(c)'
<1>1. CASE Connected \/ Read \/ Lost \/ Eof
  BY <1>1, EventStill, ConnsNatural DEF Sync, Waiting, Current, Answered
<1>2. CASE Connect
  <2>1. serverInfo'.conn_state = "NEW"
    BY <1>2, Zenon DEF Connect, KeyInv, Typed, Info
  <2>2. QED
    BY <2>1 DEF Answered, Waiting
<1>3. CASE Disconnect \/ Cancel
  <2>1. serverInfo' \in {break_conn(serverInfo, "OPCANCELED"), do_close(serverInfo)}
    BY <1>3 DEF Cancel, Disconnect, break_conn
  <2>2. serverInfo'.conn = 0
    BY <2>1, BreakClears, CloseClears, Zenon DEF Codes, KeyInv, Typed
  <2>3. QED
    BY <2>2, ConnsNatural DEF Answered, Current
<1>4. ASSUME NEW kind, NEW msg, NEW channel, Request(kind, msg, channel) PROVE Answered(c)'
  <2>1. serverInfo'.conn_state = "WRITING"
    BY <1>4 DEF Request, KeyInv, Typed, Info
  <2>2. QED
    BY <2>1 DEF Answered, Waiting
<1>5. QED
  BY <1>1, <1>2, <1>3, <1>4, ZenonT(30) DEF Send_Auth, Send

LEMMA ReadDoneAnswer ==
    ASSUME KeyInv, CommitInv, AnswerInv, NEW c \in Conns, NEW d \in Conns, Read_Done(d)
    PROVE  Answered(c)'
<1> SUFFICES ASSUME Current(c)', Waiting'
             PROVE  /\ server'[c].state = "WRITING" => IsAnswer(server[c].reply)'
                    /\ link'[c].down # <<>> => IsAnswer(Head(link[c].down))'
  BY DEF Answered
<1>1. InFlight(d) /\ Rid(d) \notin Range(committed) /\ Rid(d) \in Nat /\ Typed
  BY ReadDoneDid, InFlightId DEF CommitInv, KeyInv
<1>2. serverInfo' = serverInfo /\ Current(c) /\ Waiting /\ Sync
  BY ReadDoneDid, ConnsNatural DEF Current, Waiting, Sync
<1>3. Range(committed)' \in {Range(committed), Range(committed) \cup {Rid(d)}}
  BY <1>1, ReadDoneDid, CommittedSet DEF Range
<1>4. CASE c = d
  <2>1. /\ link'[c].down = <<>> /\ Rid(c) = serverInfo.msg.id /\ Head(link[c].up).auth = serverInfo.msg.auth
    BY <1>1, <1>2, <1>4, ReadDoneDid, ZenonT(30) DEF KeyInv, Paired, HalfDuplex, InFlight, Rid
  <2>2. /\ server'[c].reply.id = Rid(c)
        /\ serverInfo.msg.auth = "none" /\ server'[c].reply.result = "OK" => committed' = Append(committed, Rid(c))
        /\ ~(serverInfo.msg.auth = "none" /\ server'[c].reply.result = "OK") => committed' = committed
    BY <1>4, <2>1, ReadDoneDid
  <2>3. /\ serverInfo.msg.auth = "none" /\ server'[c].reply.result = "OK" => Rid(c) \in Range(committed)'
        /\ ~(serverInfo.msg.auth = "none" /\ server'[c].reply.result = "OK") => Rid(c) \notin Range(committed)'
    BY <1>1, <1>4, <2>2, CommittedSet DEF Range
  <2>4. QED
    BY <1>2, <2>1, <2>2, <2>3 DEF IsAnswer
<1>5. CASE c # d
  <2>1. Rid(d) # serverInfo.msg.id
    BY <1>1, <1>2, <1>5 DEF CommitInv, Current
  <2>2. server'[c] = server[c] /\ link'[c] = link[c]
    BY <1>5, ReadDoneDid
  <2>3. QED
    BY <1>2, <1>3, <2>1, <2>2, Zenon DEF AnswerInv, Answered, IsAnswer
<1>6. QED
  BY <1>4, <1>5

LEMMA WriteDoneAnswer ==
    ASSUME KeyInv, AnswerInv, NEW c \in Conns, NEW d \in Conns, Write_Done(d)
    PROVE  Answered(c)'
<1>1. link \in [Conns -> Wire] /\ server \in [Conns -> ServerConn] /\ Answered(c)
  BY DEF KeyInv, Typed, AnswerInv
<1>2. serverInfo' = serverInfo /\ committed' = committed /\ server[d].state = "WRITING"
  BY DEF Write_Done, ServerStep
<1>3. CASE c # d
  <2>1. server'[c] = server[c] /\ link'[c] = link[c]
    BY <1>1, <1>3 DEF Write_Done, ServerStep
  <2>2. QED
    BY <1>1, <1>2, <2>1, MuteAnswer DEF Mute, SameCall
<1>4. CASE c = d
  <2> DEFINE answer == [server[d].reply EXCEPT !.mic = crypto[d]["server"].write]
             l == [link[d] EXCEPT !.down = IF link[d].client THEN <<answer>> ELSE <<>>]
  <2>1. answer.id = server[d].reply.id /\ answer.result = server[d].reply.result
    BY <1>1 DEF ServerConn, Answer
  <2>2. /\ link'[d] \in {l, ReapLink(l)}
        /\ server'[d] \in {Gone, [server[d] EXCEPT !.state = "READING"]}
    BY <1>1 DEF Write_Done, ServerStep
  <2>3. link'[d].down \in {<<answer>>, <<>>}
    <3> HIDE DEF answer
    <3>1. l.down \in {<<answer>>, <<>>} /\ ReapLink(l).down = l.down
      BY <1>1 DEF Wire, ReapLink
    <3>2. QED
      BY <2>2, <3>1, Zenon
  <2>4. server'[d].state # "WRITING"
    BY <1>1, <2>2 DEF Gone, ServerConn
  <2> HIDE DEF answer
  <2>5. link'[d].down # <<>> => Head(link'[d].down) = answer
    BY <2>3
  <2>6. Current(d)' /\ Waiting' => IsAnswer(server[d].reply) /\ serverInfo'.msg = serverInfo.msg /\ Range(committed)' = Range(committed)
    BY <1>1, <1>2, <1>4 DEF Answered, Current, Waiting, Range
  <2>7. QED
    BY <1>4, <2>1, <2>4, <2>5, <2>6, Zenon DEF Answered, IsAnswer
<1>5. QED
  BY <1>3, <1>4

LEMMA ServerMute ==
    ASSUME KeyInv, NEW c \in Conns,
           \/ EndHandler \/ io_wait \/ LoopEnd \/ Signal \/ UNCHANGED vars
           \/ \E d \in Conns : server_accept(d) \/ ServerEof(d) \/ Timeout(d)
    PROVE  Mute(c)
<1>1. link \in [Conns -> Wire] /\ server \in [Conns -> ServerConn] /\ serverInfo \in Info
  BY DEF KeyInv, Typed
<1>2. SameCall /\ committed' = committed
  BY <1>1 DEF SameCall, EndHandler, io_wait, LoopEnd, Signal, vars, server_accept, ServerEof, Timeout, Reap, ServerStep, Info
<1>3. ReapLink(link[c]).down = link[c].down
  BY <1>1 DEF ReapLink, Wire
<1>4. Gone.state = "none" /\ [Gone EXCEPT !.state = "READING"].state = "READING"
  BY DEF Gone
<1>5. CASE EndHandler \/ io_wait \/ Signal \/ UNCHANGED vars
  BY <1>2, <1>5 DEF EndHandler, io_wait, Signal, vars, Mute
<1>6. CASE LoopEnd
  BY <1>2, <1>3, <1>4, <1>6 DEF LoopEnd, Mute
<1>7. ASSUME NEW d \in Conns, server_accept(d) \/ ServerEof(d) \/ Timeout(d) PROVE Mute(c)
  <2>1. /\ link'[c] \in {link[c], ReapLink(link[c])}
        /\ server'[c] \in {server[c], Gone, [Gone EXCEPT !.state = "READING"]}
    BY <1>1, <1>7 DEF server_accept, ServerEof, Timeout, Reap, ServerStep
  <2>2. QED
    BY <1>2, <1>3, <1>4, <2>1, Zenon DEF Mute
<1>8. QED
  BY <1>5, <1>6, <1>7

LEMMA AnswerStep == ASSUME KeyInv, CommitInv, AnswerInv, [Next]_vars PROVE AnswerInv'
<1> SUFFICES ASSUME NEW c \in Conns PROVE Answered(c)'
  BY DEF AnswerInv
<1>1. Answered(c) /\ KeyInv'
  BY KeyStep DEF AnswerInv
<1>2. CASE Mute(c)
  BY <1>1, <1>2, MuteAnswer
<1>3. QED
  BY <1>1, <1>2, WrittenAnswer, CommandAnswer, ReadDoneAnswer, WriteDoneAnswer, ServerMute
     DEF Next, EventLoop, ServerLoop, Finished

-----------------------------------------------------------------------------
(* What a script returns. *)

LEMMA FitsStays ==
    ASSUME NoMore, NEW id \in Nat, id <= calls, NEW result, NEW value, Fits(id, result, value)
    PROVE  Fits(id, result, value)'
BY DEF NoMore, Fits

LEMMA ReturnedStay ==
    ASSUME CancelInv, ResultInv, NoMore, NEW r \in returned, r.kind = "send"
    PROVE  Fits(r.id, r.result, r.value)'
BY FitsStays DEF CancelInv, ResultInv

\* A step that leaves the command that waits alone.
LEMMA AloneResult ==
    ASSUME Typed, CancelInv, ResultInv, NoMore, returned' = returned, serverInfo' = serverInfo, calls' = calls,
           stack' # <<>> => stack # <<>> /\ Call' = Call
    PROVE  ResultInv'
<1>1. \A r \in returned' : r.kind = "send" => Fits(r.id, r.result, r.value)'
  BY ReturnedStay
<1>2. ASSUME stack' # <<>>, Call'.kind = "send", serverInfo'.state = "IDLE"
      PROVE  Fits(calls, serverInfo.result, serverInfo.value)'
  <2>1. PICK result, value : result = serverInfo.result /\ value = serverInfo.value
    OBVIOUS
  <2>2. Fits(calls, result, value) /\ calls \in Nat
    BY <1>2, <2>1 DEF ResultInv, Typed
  <2>3. PICK id \in Nat : id = calls
    BY <2>2
  <2>4. Fits(id, result, value)'
    BY <2>2, <2>3, FitsStays
  <2>5. QED
    BY <2>1, <2>3, <2>4
<1>3. QED
  BY <1>1, <1>2 DEF ResultInv

\* An error of the client itself fits any call.
LEMMA ErrorFits ==
    ASSUME CancelInv, ResultInv, NoMore, returned' = returned,
           \/ stack' = <<>> \/ Call'.kind # "send" \/ serverInfo'.state = "BUSY"
           \/ serverInfo'.result = "ERROR" /\ serverInfo'.value.code # "REPLY"
    PROVE  ResultInv'
<1>1. \A r \in returned' : r.kind = "send" => Fits(r.id, r.result, r.value)'
  BY ReturnedStay
<1>2. QED
  BY <1>1 DEF ResultInv, Fits

LEMMA CommandResult ==
    ASSUME KeyInv, WaitInv, ResultInv, NoMore,
           \/ Connect \/ Disconnect \/ Cancel \/ Connected \/ Written \/ Lost \/ Eof
           \/ \E auth \in Auths : Send_Auth(auth)
           \/ \E channel \in BOOLEAN : Send(channel)
    PROVE  ResultInv'
<1>1. /\ Typed /\ serverInfo \in Info /\ CallShape /\ CancelInv /\ stack \in Seq(Frame) /\ IdleIsDone
  BY DEF KeyInv, WaitInv, Typed
<1>2. returned' = returned
  BY Zenon DEF Connect, Disconnect, Cancel, Connected, Written, Lost, Eof, FileProc, Send_Auth, Send, Request
<1>3. CASE Connect \/ Written
  <2>1. serverInfo'.state = "BUSY"
    BY <1>1, <1>3, Zenon DEF Connect, Written, FileProc, Doing, IdleIsDone, Info
  <2>2. QED
    BY <1>1, <1>2, <2>1, ErrorFits
<1>4. ASSUME NEW kind, NEW msg, NEW channel, Request(kind, msg, channel) PROVE ResultInv'
  <2>1. serverInfo'.state = "BUSY"
    BY <1>1, <1>4 DEF Request, Info
  <2>2. QED
    BY <1>1, <1>2, <2>1, ErrorFits
<1>5. ASSUME NEW code \in {"OPCANCELED", "EIO", "EAGAIN"}, serverInfo' = break_conn(serverInfo, code) PROVE ResultInv'
  <2>1. serverInfo'.result = "ERROR" /\ serverInfo'.value.code = code
    BY <1>1, <1>5 DEF break_conn, do_close, make_error, Value, Info
  <2>2. QED
    BY <1>1, <1>2, <2>1, ErrorFits
<1>6. CASE Disconnect
  <2>1. stack' = stack /\ stack = <<>>
    <3>1. Len(stack) \in {0, 2} /\ stack' = stack /\ serverInfo.conn # 0
      BY <1>1, <1>6, WaitingFor DEF Disconnect
    <3>2. Len(stack) # 2
      BY <1>1, <3>1, StackTwo DEF CallShape, CancelInv
    <3>3. QED
      BY <1>1, <3>1, <3>2, StackEmpty
  <2>2. QED
    BY <1>1, <1>2, <2>1, ErrorFits
<1>7. CASE Connected
  <2>1. serverInfo.state = "BUSY" /\ serverInfo.conn_state = "NEW" /\ stack' = stack
    BY <1>1, <1>7 DEF Connected, Doing, IdleIsDone, FileProc, Info
  <2>2. Call'.kind = "connect"
    BY <1>1, <2>1 DEF CallShape, Call
  <2>3. QED
    BY <1>1, <1>2, <2>2, ErrorFits
<1>8. QED
  BY <1>3, <1>4, <1>5, <1>6, <1>7, Zenon DEF Cancel, Lost, Eof, FileProc, Send_Auth, Send, break_conn

LEMMA ReturnResult == ASSUME KeyInv, WaitInv, ResultInv, NoMore, EndHandler \/ io_wait PROVE ResultInv'
<1>1. Typed /\ serverInfo \in Info /\ CallShape /\ CancelInv /\ stack \in Seq(Frame)
  BY DEF KeyInv, WaitInv, Typed
<1>2. CASE EndHandler
  <2>1. Len(stack) = 2 /\ stack' = Popped
    BY <1>1, <1>2, WaitingFor DEF EndHandler
  <2>2. stack # <<>> /\ Call' = Call
    BY <1>1, <2>1, StackTwo DEF Call
  <2>3. QED
    BY <1>1, <1>2, <2>2, AloneResult DEF EndHandler
<1>3. CASE io_wait
  <2>1. Len(stack) = 1 /\ stack # <<>> /\ Top = Call /\ stack' = <<>> /\ Call.id = calls
    BY <1>1, <1>3, WaitingFor, StackOne DEF io_wait, CallShape
  <2>2. PICK result, value : result = serverInfo.result /\ value = serverInfo.value
    OBVIOUS
  <2>3. \A r \in returned' : r \in returned \/ (r.id = calls /\ r.kind = Call.kind /\ r.result = result /\ r.value = value)
    BY <1>3, <2>1, <2>2 DEF io_wait
  <2>4. PICK id \in Nat : id = calls
    BY <1>1 DEF Typed
  <2>5. Call.kind = "send" => Fits(id, result, value)
    BY <1>1, <1>3, <2>1, <2>2, <2>4 DEF io_wait, ResultInv, Info
  <2>6. Call.kind = "send" => Fits(id, result, value)'
    BY <2>4, <2>5, FitsStays
  <2>7. ASSUME NEW r \in returned', r.kind = "send" PROVE Fits(r.id, r.result, r.value)'
    <3>1. CASE r \in returned
      BY <1>1, <2>7, <3>1, ReturnedStay
    <3>2. CASE r.id = calls /\ r.kind = Call.kind /\ r.result = result /\ r.value = value
      BY <2>4, <2>6, <2>7, <3>2
    <3>3. QED
      BY <2>3, <2>7, <3>1, <3>2
  <2>8. QED
    BY <2>1, <2>7 DEF ResultInv
<1>4. QED
  BY <1>2, <1>3

\* The answer that is read is the one to the call that waits, and it is the last of it.
LEMMA ReadAnswers ==
    ASSUME KeyInv, WaitInv, CommitInv, AnswerInv, Read, NEW c \in Conns, c = serverInfo.conn
    PROVE  /\ link[c].down # <<>> /\ serverInfo.state = "BUSY" /\ serverInfo.value = NoValue
           /\ Head(link[c].down).id = calls /\ Head(link[c].down) \in Answer
           /\ ~mic_ok(Client(c), Head(link[c].down).mic) => Head(link[c].down).result = "ERROR"
           /\ Call.kind = "send" => (Head(link[c].down).result = "OK" <=> calls \in Range(committed))
           /\ ~Pending(calls)'
<1>1. Typed /\ IdleIsDone /\ CallShape /\ HalfDuplex(c) /\ KeysMatch(c) /\ Answered(c)
  BY DEF KeyInv, Paired, WaitInv, AnswerInv
<1>2. link[c].down # <<>> /\ serverInfo.conn_state = "READING" /\ serverInfo.conn # 0
  BY ZenonT(30) DEF Read, Doing, Link
<1>3. Sync /\ serverInfo.state = "BUSY" /\ Waiting /\ Current(c)
  BY <1>1, <1>2 DEF Sync, IdleIsDone, Waiting, Current, Typed, Info
<1>4. serverInfo.value = NoValue /\ serverInfo.msg.id = calls /\ (Call.kind = "send" <=> serverInfo.msg.auth = "none")
  BY <1>1, <1>3 DEF CallShape
<1>5. IsAnswer(Head(link[c].down))
  BY <1>1, <1>2, <1>3 DEF Answered
<1>6. Head(link[c].down) \in Answer
  <2>1. link[c].down \in Seq(Answer)
    BY <1>1 DEF Typed, Wire
  <2>2. QED
    BY <1>2, <2>1
<1>7. ~mic_ok(Client(c), Head(link[c].down).mic) => Head(link[c].down).result = "ERROR"
  BY <1>1, <1>2, Zenon DEF KeysMatch, mic_ok
<1>8. ~Pending(calls)'
  <2>1. Still /\ ~Sync'
    BY EventStill
  <2>2. ASSUME NEW d \in Conns, InFlight(d)', Rid(d)' = calls' PROVE FALSE
    <3>1. InFlight(d) /\ Rid(d) = calls
      BY <2>1, <2>2 DEF Still, InFlight, Rid, Read, FileProc
    <3>2. d = c
      BY <1>3, <1>4, <3>1 DEF CommitInv, Current
    <3>3. QED
      BY <1>1, <1>2, <3>1, <3>2, ZenonT(30) DEF HalfDuplex, InFlight
  <2>3. QED
    BY <2>1, <2>2 DEF Pending, Sync, Sending
<1>9. QED
  BY <1>2, <1>3, <1>4, <1>5, <1>6, <1>7, <1>8 DEF IsAnswer

LEMMA ReadResult == ASSUME KeyInv, WaitInv, CommitInv, AnswerInv, ResultInv, NoMore, Read PROVE ResultInv'
<1>1. PICK c \in Conns : c = serverInfo.conn
  BY CurrentConn DEF Read, Doing
<1>2. serverInfo \in Info /\ CancelInv
  BY DEF KeyInv, Typed, WaitInv
<1>3. UNCHANGED <<stack, calls, committed, returned>>
  BY DEF Read, FileProc
<1> DEFINE reply == Head(link[c].down)
           got == [serverInfo EXCEPT !.conn_state = "IODONE", !.state = "IDLE"]
<1>4. /\ serverInfo.value = NoValue /\ reply.id = calls /\ reply.result \in {"OK", "ERROR"}
      /\ ~mic_ok(Client(c), reply.mic) => reply.result = "ERROR"
      /\ Call.kind = "send" => (reply.result = "OK" <=> calls \in Range(committed))
      /\ ~Pending(calls)'
  BY <1>1, ReadAnswers DEF Answer
<1>5. \/ /\ ~mic_ok(Client(c), reply.mic)
         /\ \E code \in {"REPLY", "EBADMIC"} :
              serverInfo' = do_close([make_error(got, code) EXCEPT !.value.id = IF code = "REPLY" THEN reply.id ELSE 0])
      \/ serverInfo' = [got EXCEPT !.value = Value("REPLY", reply.id), !.result = reply.result]
      \/ reply.result = "OK" /\ \E written \in {"OK", "ERROR"} : serverInfo' = [got EXCEPT !.result = written]
  BY <1>1, Zenon DEF Read, FileProc, Link, Crypto, Client
<1> HIDE DEF reply
<1>6. \/ reply.result = "ERROR" /\ serverInfo'.result = "ERROR" /\ serverInfo'.value.code = "REPLY" /\ serverInfo'.value.id = reply.id
      \/ serverInfo'.result = "ERROR" /\ serverInfo'.value.code # "REPLY"
      \/ serverInfo'.result = reply.result /\ serverInfo'.value = Value("REPLY", reply.id)
      \/ reply.result = "OK" /\ serverInfo'.result = "OK" /\ serverInfo'.value = NoValue
  <2>1. ASSUME NEW code \in {"REPLY", "EBADMIC"}, ~mic_ok(Client(c), reply.mic),
               serverInfo' = do_close([make_error(got, code) EXCEPT !.value.id = IF code = "REPLY" THEN reply.id ELSE 0])
        PROVE  /\ serverInfo'.result = "ERROR" /\ serverInfo'.value.code = code
               /\ code = "REPLY" => reply.result = "ERROR" /\ serverInfo'.value.id = reply.id
    BY <1>2, <1>4, <2>1 DEF do_close, make_error, Value, Info
  <2>2. CASE serverInfo' = [got EXCEPT !.value = Value("REPLY", reply.id), !.result = reply.result]
    BY <1>2, <2>2 DEF Info
  <2>3. ASSUME reply.result = "OK", NEW written \in {"OK", "ERROR"}, serverInfo' = [got EXCEPT !.result = written]
        PROVE  reply.result = "OK" /\ serverInfo'.result = written /\ serverInfo'.value = NoValue
    BY <1>2, <1>4, <2>3 DEF Info
  <2>4. NoValue.code # "REPLY"
    BY DEF NoValue, Value
  <2>5. QED
    BY <1>5, <2>1, <2>2, <2>3, <2>4
<1>7. ASSUME Call.kind = "send" PROVE Fits(calls, serverInfo.result, serverInfo.value)'
  <2>1. Range(committed)' = Range(committed) /\ calls' = calls
    BY <1>3 DEF Range
  <2>2. Value("REPLY", reply.id).id = reply.id /\ NoValue.code # "REPLY"
    BY DEF Value, NoValue
  <2>3. QED
    BY <1>4, <1>6, <1>7, <2>1, <2>2 DEF Fits
<1>8. Call' = Call /\ \A r \in returned' : r.kind = "send" => Fits(r.id, r.result, r.value)'
  BY <1>2, <1>3, ReturnedStay DEF Call
<1>9. QED
  BY <1>7, <1>8 DEF ResultInv

LEMMA ResultStep == ASSUME KeyInv, WaitInv, CommitInv, AnswerInv, ResultInv, [Next]_vars PROVE ResultInv'
<1>1. NoMore /\ Typed /\ CancelInv
  BY CommitStep DEF KeyInv, WaitInv
<1>2. CASE UNCHANGED <<serverInfo, stack, calls, returned>>
  BY <1>1, <1>2, AloneResult DEF Call
<1>3. UNCHANGED <<serverInfo, stack, calls, returned>> \/ Connect \/ Disconnect \/ Cancel \/ EventLoop \/ Lost
      \/ (\E auth \in Auths : Send_Auth(auth)) \/ (\E channel \in BOOLEAN : Send(channel))
  BY ServerQuiet, ReadDoneDid, Zenon DEF Next, ServerLoop, Finished, vars
<1>4. QED
  BY <1>1, <1>2, <1>3, CommandResult, ReturnResult, ReadResult DEF EventLoop

\* A script is committed at most once; a command that returns success returns the
\* result of its own script, and one that returns the server's error was not
\* committed and never will be (Unameit_Conn_Loop and iodone in clntcall.c), if no
\* handler connects again in the middle of a call.
THEOREM ResultsAreOwn == ~Nested => (Spec => []ResultIsOwn)
<1> SUFFICES ASSUME ~Nested PROVE Spec => []ResultIsOwn
  OBVIOUS
<1> DEFINE Inv == CommitInv /\ AnswerInv /\ ResultInv
<1>1. Init => Inv
  <2> SUFFICES ASSUME Init PROVE CommitInv /\ AnswerInv /\ ResultInv
    OBVIOUS
  <2>1. /\ committed = <<>> /\ returned = {} /\ stack = <<>> /\ serverInfo.conn = 0
        /\ \A c \in Conns : link[c].up = <<>>
    BY DEF Init
  <2>2. Range(committed) = {} /\ DOMAIN committed = {}
    BY <2>1 DEF Range
  <2>3. QED
    BY <2>1, <2>2, ConnsNatural, Zenon DEF CommitInv, AnswerInv, Answered, Current, ResultInv, InFlight, Sync
<1>2. KeyInv /\ WaitInv /\ Inv /\ [Next]_vars => Inv'
  BY CommitStep, AnswerStep, ResultStep
<1>3. Inv => ResultIsOwn
  BY Zenon DEF CommitInv, ResultInv, Fits, ResultIsOwn
<1>4. Spec => [](KeyInv /\ WaitInv)
  BY WaitInvariance
<1> HIDE DEF Inv
<1>5. QED
  BY <1>1, <1>2, <1>3, <1>4, PTL DEF Spec

==============================================================================
