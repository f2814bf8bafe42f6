------------------------------ MODULE MCWire ------------------------------
(* Sessions of a client and the server over two connections, message by message *)
(* (Session), and one connection byte by byte (Conn).  A behaviour is of one of *)
(* the two.                                                                      *)
EXTENDS Session

VARIABLES part, mode, conn, wire, sent, got

bytes == <<mode, conn, wire, sent, got>>
NoBytes == mode = 0 /\ conn = 0 /\ wire = 0 /\ sent = 0 /\ got = 0

FewLengths == {0, 2, 7, 8}
W == INSTANCE Conn WITH
    HDR <- 2, CONN_PKT_LEN <- 4, MIC_LEN <- 2, MAX_COPY_SIZE <- 6, MaxLen <- 7,
    Lengths <- FewLengths, Pipe <- 6, MaxCalls <- 2

ASSUME W!Sizes

MCInit == /\ Init
          /\ \/ part = "session" /\ NoBytes
             \/ part = "bytes" /\ W!Init

MCNext == /\ UNCHANGED part
          /\ \/ part = "session" /\ Next /\ UNCHANGED bytes
             \/ part = "bytes" /\ W!Next /\ UNCHANGED vars

BytesMove == part = "bytes" /\ \E e \in W!Ends : W!Progress(e)

\* The loops go on while there is something for them to do, and serve every stream
\* that is ready.
MCSpec == /\ MCInit /\ [][MCNext]_<<part, vars, bytes>>
          /\ WF_vars(EventLoop) /\ WF_vars(ServerLoop) /\ WF_bytes(BytesMove)

Settled == part = "bytes" => conn["client"].state \in {"IODONE", "EOF"} \/ ~conn["client"].open

-----------------------------------------------------------------------------
\* Whatever the sizes of the reads and the writes, what Unameit_Conn_Read returns as
\* good is the message the peer sent at that turn, every byte in its place.
Intact == part = "bytes" => W!Intact

\* No step changes the state of a connection in the middle of a message, the reader
\* never takes anything for a header that is not one, and there are never bytes on
\* their way in both directions: "We operate half-duplex" (newstate, Conn_Loop).
InStep == part = "bytes" => W!NeverOutOfStep /\ W!HalfDuplex

\* The windows of a connection are the next bytes of the message, none skipped and
\* none again, and are never more than one write gathers (slide_window).
WindowsNext == part = "bytes" => W!WindowsNext

\* A request is answered, or its connection is found broken.
Answered == (part = "bytes" /\ conn["client"].state = "WRITING") ~> Settled

=============================================================================
