-------------------------------- MODULE Conn --------------------------------
(* The message transport of libconn/conn.c over the streams of conn_stream.c: *)
(* a client and a server exchange length-prefixed messages, each optionally   *)
(* followed by a checksum, in reads and writes of any size.  A connection     *)
(* keeps a window (iov) onto the part of its message the next read or write   *)
(* is for.  A byte is named by its message, its buffer and its position.      *)
EXTENDS Integers, Sequences, FiniteSets, SequencesExt, FiniteSetsExt, Functions

CONSTANTS
    HDR,             \* sizeof(message->header.data)
    CONN_PKT_LEN,
    MIC_LEN,
    MAX_COPY_SIZE,   \* bytes one write gathers
    MaxLen,          \* message->maxlen of the server
    Lengths,         \* data lengths of messages
    Pipe,            \* bound: bytes in flight in a direction
    MaxCalls         \* bound: requests of the client

Sizes ==
    /\ {HDR, MIC_LEN, MaxLen, Pipe, MaxCalls} \subseteq Nat \ {0} /\ Lengths \subseteq Nat
    /\ CONN_PKT_LEN > HDR /\ MAX_COPY_SIZE = CONN_PKT_LEN + MIC_LEN

VARIABLES
    mode,            \* "none": no checksums; "mic": on every message; "failed":
                     \* the client expects one, the server failed to log it in
    conn,            \* conn[e]: the conn_t of each end
    wire,            \* wire[e]: bytes sent by e and not yet received
    sent,            \* sent[e]: lengths of the messages e has begun to send
    got              \* got[e]: the message Unameit_Conn_Read last returned at e, and
                     \* how many it has returned

vars == <<mode, conn, wire, sent, got>>

Ends == {"client", "server"}
Peer(e) == IF e = "client" THEN "server" ELSE "client"
Bufs == {"header", "data", "trailer"}
Window(buf, at, len) == [buf |-> buf, at |-> at, len |-> len]
Nothing == [p \in {} |-> 0]

\* A trailer byte also tells how much of the data its checksum was made from.
Byte(m, buf, k, digest) == <<m, buf, k, digest>>

\* update_mic of the write and read side of an end.
WriteMic(e) == mode = "mic"
ReadMic(e) == mode = "mic" \/ (mode = "failed" /\ e = "client")
Mic(e, state) == IF state = "READING" THEN ReadMic(e) ELSE WriteMic(e)

-----------------------------------------------------------------------------
(* Windows.  Each operator takes and returns the connection of end e.  *)

iov_init_trailer(e, c) ==
    LET vec == Cardinality({b \in {"header", "data"} :
                   IF b = "header" THEN c.hoff < HDR ELSE c.off < c.len})
    IN  IF Mic(e, c.state)
        THEN [c EXCEPT !.toff = 0, !.iov = SubSeq(@, 1, vec) \o <<Window("trailer", 0, MIC_LEN)>>]
        ELSE [c EXCEPT !.iov = SubSeq(@, 1, vec)]

iov_init_data(e, c) ==
    LET vec == IF c.hoff < HDR THEN 1 ELSE 0
        first == CONN_PKT_LEN - HDR
        With(len) == [c EXCEPT !.off = 0, !.iov = SubSeq(@, 1, vec) \o <<Window("data", 0, len)>>]
    IN  IF c.len > first THEN With(first) ELSE iov_init_trailer(e, With(c.len))

iov_init_header(e, c) ==
    LET h == [c EXCEPT !.hoff = 0, !.iov = <<Window("header", 0, HDR)>>]
    IN  IF c.state = "WRITING" THEN iov_init_data(e, h) ELSE h

\* alloc_data: the length found in the complete header, unless the header is not
\* one or announces too much.
alloc_data(e, c) ==
    LET m == c.store[<<"header", 0>>][1]
        valid == \A k \in 0..(HDR - 1) : c.store[<<"header", k>>] = Byte(m, "header", k, 0)
        datalen == sent[Peer(e)][m]
    IN  CASE ~valid -> [c EXCEPT !.errno = "MAGIC"]
          [] valid /\ e = "server" /\ MaxLen < datalen -> [c EXCEPT !.errno = "SIZE"]
          [] OTHER -> [c EXCEPT !.len = datalen]

\* The first window after n more of its bytes went through.
Advance(c, n) == [c EXCEPT !.iov[1] = Window(@.buf, @.at + n, @.len - n)]

\* slide_window in its three parts, each of which leaves the next what it did not
\* use of n.
SlideHeader(e, c, n) ==
    LET tail == HDR - c.hoff - n
        done == [c EXCEPT !.hoff = HDR]
    IN  CASE c.hoff >= HDR -> <<c, n>>
          [] c.hoff < HDR /\ tail > 0 -> <<[Advance(c, n) EXCEPT !.hoff = @ + n], 0>>
          [] c.hoff < HDR /\ tail <= 0 ->
                <<iov_init_data(e, IF c.state = "READING" THEN alloc_data(e, done) ELSE done), -tail>>

\* Mutant: the data window grows again but still starts where it did.
SlideDataStill(e, c, n) ==
    LET tail == c.len - c.off - n
    IN  IF n = 0 \/ c.off >= c.len THEN <<c, n>>
        ELSE IF tail > CONN_PKT_LEN
        THEN <<[c EXCEPT !.off = @ + n, !.iov[1].len = CONN_PKT_LEN], 0>>
        ELSE IF tail > 0 THEN <<iov_init_trailer(e, [c EXCEPT !.off = @ + n, !.iov[1].len = tail]), 0>>
        ELSE <<iov_init_trailer(e, [c EXCEPT !.off = c.len]), -tail>>

SlideData(e, c, n) ==
    LET tail == c.len - c.off - n
        With(len) == [Advance(c, n) EXCEPT !.off = @ + n, !.iov[1].len = len]
    IN  CASE n = 0 \/ c.off >= c.len -> <<c, n>>
          [] n > 0 /\ c.off < c.len /\ tail > CONN_PKT_LEN -> <<With(CONN_PKT_LEN), 0>>
          [] n > 0 /\ c.off < c.len /\ tail \in 1..CONN_PKT_LEN -> <<iov_init_trailer(e, With(tail)), 0>>
          [] n > 0 /\ c.off < c.len /\ tail <= 0 -> <<iov_init_trailer(e, [c EXCEPT !.off = c.len]), -tail>>

SlideTrailer(e, c, n) ==
    CASE n = 0 \/ c.iov = <<>> -> c
      [] n > 0 /\ c.iov # <<>> /\ c.toff + n < MIC_LEN -> [Advance(c, n) EXCEPT !.toff = @ + n]
      [] n > 0 /\ c.iov # <<>> /\ c.toff + n >= MIC_LEN -> [c EXCEPT !.toff = MIC_LEN, !.iov = <<>>]

\* The one outcome, in a set.
slide_window(e, c, n) ==
    {SlideTrailer(e, d[1], d[2]) : d \in {SlideData(e, h[1], h[2]) : h \in {SlideHeader(e, c, n)}}}

\* newstate: a change of state in the middle of an operation is an error.
newstate(c, state) ==
    IF c.errno # "OK" THEN c
    ELSE [c EXCEPT !.errno = IF c.state # "IODONE" /\ (c.hoff # 0 \/ c.state # state)
                             THEN "INVAL" ELSE @,
                   !.state = state, !.len = 0, !.off = 0, !.hoff = 0]

Unameit_Conn_Read(c) == newstate(c, "IODONE")

Unameit_Conn_Write(e, c, len) ==
    LET d == newstate(c, "WRITING")
    IN  IF d.errno # "OK" THEN d ELSE iov_init_header(e, [d EXCEPT !.len = len, !.moff = 0])

Unameit_Conn_Poll(e, c) ==
    LET d == newstate(c, "READING")
    IN  IF d.errno # "OK" THEN d ELSE iov_init_header(e, [d EXCEPT !.store = Nothing, !.moff = 0])

\* Tear down: close the stream.
Unameit_Conn_Reap(c) == [c EXCEPT !.open = FALSE, !.iov = <<>>]

-----------------------------------------------------------------------------
(* Reads and writes. *)

\* The positions the windows stand for, in order; a write gathers no more than
\* fits its buffer, and only the first window if that alone does not.
Run(iov, k) ==
    IF k > Len(iov) THEN <<>> ELSE [j \in 1..iov[k].len |-> <<iov[k].buf, iov[k].at + j - 1>>]
Positions(iov) == Run(iov, 1) \o Run(iov, 2) \o Run(iov, 3)
Unameit_Stream_Writev(iov) ==
    LET all == IF iov[1].len > MAX_COPY_SIZE THEN Positions(<<iov[1]>>) ELSE Positions(iov)
    IN  SubSeq(all, 1, Min({Len(all), MAX_COPY_SIZE}))
Unameit_Stream_Readv(iov) == Positions(iov)

-----------------------------------------------------------------------------
(* The checksum of desmd5.c, by what it covers: it is computed as windows are *)
(* sent and as data arrives, and written once the last data window is set.    *)

Update_Mic(c) ==
    LET reading == c.state = "READING"
        begun == IF c.moff = 0 THEN [c EXCEPT !.moff = HDR, !.final = FALSE] ELSE c
        end == IF reading THEN c.off
               ELSE IF c.hoff < HDR /\ c.len > 0 THEN c.off + c.iov[2].len
               ELSE IF c.off < c.len THEN c.off + c.iov[1].len ELSE c.len
        summed == [begun EXCEPT !.moff = Max({@, end + HDR})]
        ended == [summed EXCEPT !.final = TRUE]
        covers == summed.moff - HDR
        m == c.store[<<"header", 0>>][1]
    IN  CASE end < c.len -> summed
          [] end >= c.len /\ ~reading ->
                IF summed.final THEN summed ELSE [ended EXCEPT !.digest = covers]
          [] end >= c.len /\ reading ->
                IF c.toff < MIC_LEN THEN ended
                ELSE [ended EXCEPT !.mic_ok = \A k \in 0..(MIC_LEN - 1) :
                          c.store[<<"trailer", k>>] = Byte(m, "trailer", k, covers)]

-----------------------------------------------------------------------------
Fresh == [open |-> TRUE, state |-> "IODONE", errno |-> "OK", hoff |-> 0, off |-> 0, len |-> 0,
          toff |-> 0, iov |-> <<>>, store |-> Nothing,
          moff |-> 0, final |-> FALSE, digest |-> 0, mic_ok |-> FALSE]

\* A new connection: the server polls it (Server_Iodone on CONN_NEW), the client
\* has its answer to the connect and is idle.
Init ==
    /\ mode \in {"none", "mic", "failed"}
    /\ conn = [e \in Ends |-> IF e = "server" THEN Unameit_Conn_Poll(e, Fresh) ELSE Fresh]
    /\ wire = [e \in Ends |-> <<>>]
    /\ sent = [e \in Ends |-> <<>>]
    /\ got = [e \in Ends |-> [n |-> 0, len |-> 0, store |-> Nothing, mic_ok |-> TRUE]]

\* A closed end drops what was on its way to it.
Set(e, c) ==
    /\ conn' = [conn EXCEPT ![e] = c]
    /\ wire' = IF c.open THEN wire ELSE [wire EXCEPT ![Peer(e)] = <<>>]

\* Mutant: a client that is busy may send.
SendBusy(len) ==
    /\ conn["client"].open /\ Len(sent["client"]) < MaxCalls
    /\ conn' = [conn EXCEPT !["client"] = Unameit_Conn_Write("client", @, len)]
    /\ sent' = [sent EXCEPT !["client"] = Append(@, len)]
    /\ UNCHANGED <<mode, wire, got>>

\* Unameit_Client_Send of an idle client.
Send(len) ==
    /\ conn["client"].open /\ conn["client"].state = "IODONE"
    /\ Len(sent["client"]) < MaxCalls
    /\ conn' = [conn EXCEPT !["client"] = Unameit_Conn_Write("client", @, len)]
    /\ sent' = [sent EXCEPT !["client"] = Append(@, len)]
    /\ UNCHANGED <<mode, wire, got>>

\* What happens when an end's windows are used up: the client polls for the answer,
\* or takes the answer and drops the connection if its checksum is wrong; the
\* server answers, or polls for the next request, or is done with a client that
\* it did not log in.  A broken connection is reaped without a callback.
Callback(e, c, reply) ==
    LET done == [c EXCEPT !.state = "IODONE"]
        read == Unameit_Conn_Read(done)
    IN  CASE c.errno # "OK" -> Unameit_Conn_Reap(c)
          [] c.errno = "OK" /\ c.iov # <<>> -> c
          [] c.errno = "OK" /\ c.iov = <<>> /\ c.state = "WRITING" ->
                IF e = "server" /\ mode = "failed" THEN Unameit_Conn_Reap(done)
                ELSE Unameit_Conn_Poll(e, done)
          [] c.errno = "OK" /\ c.iov = <<>> /\ c.state = "READING" ->
                IF e = "server" THEN Unameit_Conn_Write(e, read, reply)
                ELSE IF c.mic_ok THEN read ELSE Unameit_Conn_Reap(read)

Reading(e) == conn[e].open /\ conn[e].state = "READING"
Writing(e) == conn[e].open /\ conn[e].state = "WRITING"

\* The end e goes on with connection c after a successful read or write.
Proceed(e, c, reply) ==
    LET complete == c.errno = "OK" /\ c.iov = <<>> /\ c.state = "READING"
    IN  /\ conn' = [conn EXCEPT ![e] = Callback(e, c, reply)]
        /\ sent' = IF complete /\ e = "server" THEN [sent EXCEPT ![e] = Append(@, reply)] ELSE sent
        /\ got' = IF complete
                  THEN [got EXCEPT ![e] = [n |-> @.n + 1, len |-> c.len, store |-> c.store,
                                           mic_ok |-> c.mic_ok]]
                  ELSE got

\* Unameit_Conn_Progress, one write: any part of the windows may go out.
ProgressWrite(e) ==
    /\ Writing(e)
    /\ \E c \in {IF WriteMic(e) THEN Update_Mic(conn[e]) ELSE conn[e]} :
       \E out \in {Unameit_Stream_Writev(c.iov)} : \E n \in 1..Len(out) :
         /\ conn[Peer(e)].open => Len(wire[e]) + n <= Pipe
         /\ \E next \in slide_window(e, c, n) : Proceed(e, next, 0)
         /\ wire' = [d \in Ends |->
                IF d # e THEN IF conn'[e].open THEN wire[d] ELSE <<>>
                ELSE IF ~conn[Peer(e)].open THEN <<>>
                ELSE wire[e] \o [k \in 1..n |-> Byte(Len(sent[e]), out[k][1], out[k][2],
                                   IF out[k][1] = "trailer" THEN c.digest ELSE 0)]]
    /\ UNCHANGED mode

\* After a read: the checksum goes on once the header is there.
AfterRead(e, c, reply) ==
    LET d == IF ~ReadMic(e) THEN [c EXCEPT !.mic_ok = TRUE]
             ELSE IF c.hoff < HDR \/ c.errno # "OK" THEN c ELSE Update_Mic(c)
    IN  (\E next \in {d} : Proceed(e, next, reply)) /\ UNCHANGED mode

\* Unameit_Conn_Progress, one read: any part of what has arrived and is wanted.
ProgressRead(e, reply) ==
    /\ Reading(e)
    /\ \E c \in {conn[e]}, into \in {Unameit_Stream_Readv(conn[e].iov)}, from \in {wire[Peer(e)]} :
       \E n \in 1..Min({Len(into), Len(from)}) :
         /\ \E filled \in {[p \in DOMAIN c.store \cup {into[k] : k \in 1..n} |->
                              IF \E k \in 1..n : into[k] = p
                              THEN from[CHOOSE k \in 1..n : into[k] = p] ELSE c.store[p]]} :
            \E next \in slide_window(e, [c EXCEPT !.store = filled], n) : AfterRead(e, next, reply)
         /\ wire' = [wire EXCEPT ![Peer(e)] = IF conn'[e].open THEN SubSeq(@, n + 1, Len(@)) ELSE <<>>]

\* Mutant: an end of file after the data is the end of the message.
ProgressEofComplete(e) ==
    /\ Reading(e) /\ wire[Peer(e)] = <<>> /\ ~conn[Peer(e)].open
    /\ LET c == conn[e]
       IN  IF c.hoff < HDR \/ c.off < c.len
           THEN Set(e, Unameit_Conn_Reap(c)) /\ UNCHANGED <<mode, sent, got>>
           ELSE /\ Proceed(e, [c EXCEPT !.iov = <<>>, !.mic_ok = TRUE], 0)
                /\ UNCHANGED <<mode, wire>>

\* Mutant: an end of file between messages is taken for a read that would block.
ProgressEofIgnored(e) ==
    /\ Reading(e) /\ wire[Peer(e)] = <<>> /\ ~conn[Peer(e)].open
    /\ conn[e].hoff > 0
    /\ Set(e, [Unameit_Conn_Reap(conn[e]) EXCEPT !.errno = "SHORT"])
    /\ UNCHANGED <<mode, sent, got>>

\* Unameit_Conn_Progress, end of file: between messages it ends the connection, in
\* the middle of one it is an error, and just before the trailer it stands for a
\* trailer of zeros.
ProgressEof(e) ==
    /\ Reading(e) /\ wire[Peer(e)] = <<>> /\ ~conn[Peer(e)].open
    /\ LET c == conn[e]
           zeros == [p \in DOMAIN c.store \cup ({"trailer"} \X (0..(MIC_LEN - 1))) |->
                        IF p[1] = "trailer" THEN Byte(0, "trailer", p[2], 0) ELSE c.store[p]]
       IN  IF c.hoff = 0
           THEN Set(e, [Unameit_Conn_Reap(c) EXCEPT !.state = "EOF"]) /\ UNCHANGED <<mode, sent, got>>
           ELSE IF c.hoff < HDR \/ c.off < c.len \/ c.toff > 0
           THEN /\ Set(e, [Unameit_Conn_Reap(c) EXCEPT !.errno = "SHORT"])
                /\ UNCHANGED <<mode, sent, got>>
           ELSE /\ \E next \in slide_window(e, [c EXCEPT !.store = zeros], MIC_LEN) :
                      AfterRead(e, next, 0)
                /\ UNCHANGED wire

\* Unameit_Conn_Progress, a failing read or write: the peer is gone.
ProgressError(e) ==
    /\ Reading(e) \/ Writing(e)
    /\ ~conn[Peer(e)].open
    /\ Set(e, [Unameit_Conn_Reap(conn[e]) EXCEPT !.errno = IF Reading(e) THEN "READ" ELSE "WRITE"])
    /\ UNCHANGED <<mode, sent, got>>

\* Disconnect, the idle timeout, the end of the server or of the client.
Close(e) ==
    /\ conn[e].open
    /\ Set(e, Unameit_Conn_Reap(conn[e]))
    /\ UNCHANGED <<mode, sent, got>>

Progress(e) ==
    \/ ProgressWrite(e)
    \/ \E reply \in {l \in Lengths : l <= MaxLen} : ProgressRead(e, reply)
    \/ ProgressEof(e)

\* Nothing more can happen on a connection both ends have closed.
Finished == (\A e \in Ends : ~conn[e].open) /\ UNCHANGED vars

Next ==
    \/ \E len \in Lengths : Send(len)
    \/ \E e \in Ends : Progress(e) \/ ProgressError(e) \/ Close(e)
    \/ Finished

\* select and the Tcl event loop serve every stream that is ready; nothing says
\* that a connection whose peer is gone ever reports an error.
Spec == Init /\ [][Next]_vars /\ WF_vars(\E e \in Ends : Progress(e))

-----------------------------------------------------------------------------
(* Properties. *)

\* Every part of the state has its type.
TypeOK ==
    /\ mode \in {"none", "mic", "failed"}
    /\ \A e \in Ends :
         /\ conn[e].state \in {"IODONE", "READING", "WRITING", "EOF"}
         /\ conn[e].hoff \in 0..HDR /\ conn[e].off \in 0..conn[e].len /\ conn[e].toff \in 0..MIC_LEN
         /\ \A k \in DOMAIN conn[e].iov : conn[e].iov[k].buf \in Bufs /\ conn[e].iov[k].len \in Nat \ {0}
         /\ sent[e] \in Seq(Lengths) /\ got[e].n \in Nat

\* The bytes of message m of end e, as it should be laid out by who reads it.
Message(e, m, trailer) ==
    LET len == sent[e][m]
    IN  [p \in {<<"header", k>> : k \in 0..(HDR - 1)} \cup {<<"data", k>> : k \in 0..(len - 1)}
               \cup {<<"trailer", k>> : k \in IF trailer THEN 0..(MIC_LEN - 1) ELSE {}} |->
           Byte(m, p[1], p[2], IF p[1] = "trailer" THEN len ELSE 0)]

\* Whatever the sizes of the reads and the writes, what Unameit_Conn_Read returns as
\* good is the message the peer sent at that turn, every byte in its place; a
\* message its sender stopped in the middle of is never returned, except as a bad
\* one if all that is missing is an expected checksum.
Intact ==
    \A e \in Ends : got[e].n > 0 =>
        /\ got[e].n <= Len(sent[Peer(e)])
        /\ got[e].len = sent[Peer(e)][got[e].n]
        /\ IF got[e].mic_ok THEN got[e].store = Message(Peer(e), got[e].n, ReadMic(e))
           ELSE ReadMic(e) /\ ~conn[Peer(e)].open

\* The whole order of the bytes of a message of length len.
Layout(len, trailer) ==
    Positions(<<Window("header", 0, HDR)>> \o (IF len = 0 THEN <<>> ELSE <<Window("data", 0, len)>>)
              \o (IF trailer THEN <<Window("trailer", 0, MIC_LEN)>> ELSE <<>>))

\* The windows of a connection that is reading or writing are the next bytes of the
\* message, none skipped and none again, and are never more than one write gathers
\* (iov_init_data, slide_window; Unameit_Stream_Writev would send the first part
\* of a longer list only).
WindowsNext ==
    \A e \in Ends :
        LET c == conn[e]
            layout == Layout(c.len, Mic(e, c.state))
            past == c.hoff + c.off + (IF c.hoff = HDR /\ c.off = c.len /\ Mic(e, c.state)
                                      THEN c.toff ELSE 0)
            next == Positions(c.iov)
        IN  c.open /\ c.state \in {"READING", "WRITING"} =>
              /\ next = SubSeq(layout, past + 1, past + Len(next))
              /\ next # <<>>
              /\ Len(next) <= MAX_COPY_SIZE

\* No step of the client or the server changes the state of a connection in the
\* middle of a message (ERR_CONN_INVAL), and the reader never takes anything
\* for a header that is not one (ERR_CONN_MAGIC).
NeverOutOfStep == \A e \in Ends : conn[e].errno \notin {"INVAL", "MAGIC"}

\* "They must eat everything before they can ask for more! (We operate half-duplex)":
\* there are never bytes on their way in both directions, and an idle client has
\* nothing left to read.
HalfDuplex ==
    /\ wire["client"] = <<>> \/ wire["server"] = <<>>
    /\ conn["client"].state = "IODONE" => wire["server"] = <<>>

\* A request is answered, or its connection is found broken: with every ready
\* stream served, a client never waits for ever.
Answered == conn["client"].state = "WRITING" ~> (conn["client"].state \in {"IODONE", "EOF"} \/ ~conn["client"].open)

=============================================================================
