------------------------------- MODULE Bridge -------------------------------
(***************************************************************************)
(* The one-to-one mode of the adapter, adapter/displayxr_mcp.c: one pump   *)
(* thread moves messages from stdin to the connection, one from the        *)
(* connection to stdout, and main waits for the first and then takes the   *)
(* connection down.  It composes StdioFraming (stdin, stdout) with         *)
(* Transport (the connection).  The client and the server are external.    *)
(***************************************************************************)
EXTENDS StdioFraming, Transport

CONSTANT ServerBodies   \* bound: the messages the server may write, in order

ASSUME BridgeAssumption ==
    /\ ServerBodies \in Seq(Seq(Bytes))
    /\ \A i \in 1..Len(ServerBodies) : Len(ServerBodies[i]) \in 1..Len(Digits)
    \* replies: how many of them it may write; drains: how many of these the client
    \* takes from stdout, or the pipe holds, before it lets the pipe fill up for ever
    /\ \A in \in Inputs : /\ in.replies \in 0..Len(ServerBodies) /\ in.drains \in Nat
                         /\ in.build \in {"posix", "win32"}

VARIABLES
    upc,        \* where pump_thread of stdin is
    dpc,        \* where pump_thread of the connection is
    mpc,        \* where main is
    latch,      \* struct dxr_stdio_framing_latch
    got,        \* number of the frame the down pump has read
    forwarded,  \* messages the server has been written in full
    sent,       \* parts the server has written: two for each frame
    stdout,     \* bytes on stdout
    stdoutOpen  \* the client has not closed it

pumpVars == <<upc, dpc, mpc, latch, got, forwarded>>
peerVars == <<sent, stdoutOpen>>
vars == <<clientVars, readerVars, connVars, pumpVars, peerVars, stdout>>

Init ==
    /\ ReaderInit /\ ConnInit /\ build = input.build
    /\ upc = "next" /\ dpc = "header" /\ mpc = "join up"
    /\ latch = UNKNOWN
    /\ got = 0 /\ forwarded = <<>>
    /\ sent = 0 /\ stdout = <<>> /\ stdoutOpen = TRUE

-----------------------------------------------------------------------------
\* Mutant of LatchSet: the last call wins.
LatchSetAgain(f) == latch' = f /\ dpc' = IF dpc = "asleep" THEN "latch" ELSE dpc

\* Mutant of Woken: nobody is woken.
WokenNobody == dpc

\* pthread_cond_broadcast.
Woken == IF dpc = "asleep" THEN "latch" ELSE dpc

\* dxr_stdio_framing_latch_set: the first call wins.
LatchSet(f) ==
    IF latch = UNKNOWN THEN latch' = f /\ dpc' = Woken ELSE UNCHANGED <<latch, dpc>>

(***************************************************************************)
(* The up pump.                                                            *)
(***************************************************************************)
UpReads ==
    /\ upc = "next"
    /\ NextBegins \/ dxr_stdio_reader_next
    /\ UNCHANGED <<clientVars, connVars, pumpVars, peerVars, stdout>>

\* The reader returns: latch the framing, or stop at the end of stdin.
UpHasMessage ==
    /\ upc = "next" /\ rpc = "ret"
    /\ IF body = NULL THEN upc' = "done" /\ UNCHANGED <<latch, dpc>>
                      ELSE upc' = "header" /\ LatchSet(framing)
    /\ rpc' = "idle"
    /\ UNCHANGED <<given, buf, pos, eof, framing, scan, header, body, mpc, got, forwarded,
                   clientVars, connVars, peerVars, stdout>>

\* dxr_conn_write_frame: the header, then the body.
UpWrites ==
    /\ upc \in {"header", "body"} /\ WriteOk
    /\ IF upc = "header" THEN upc' = "body" /\ UNCHANGED forwarded
                         ELSE upc' = "next" /\ forwarded' = Append(forwarded, body)
    /\ UNCHANGED <<dpc, mpc, latch, got, clientVars, readerVars, connVars, peerVars, stdout>>

\* Mutant of UpWriteFails: the pump goes on.
UpWriteFailsIgnored ==
    /\ upc \in {"header", "body"} /\ WriteFails
    /\ upc' = "next"
    /\ UNCHANGED <<dpc, mpc, latch, got, forwarded, clientVars, readerVars, connVars, peerVars, stdout>>

UpWriteFails ==
    /\ upc \in {"header", "body"} /\ WriteFails
    /\ upc' = "done"
    /\ UNCHANGED <<dpc, mpc, latch, got, forwarded, clientVars, readerVars, connVars, peerVars, stdout>>

Up == UpReads \/ UpHasMessage \/ UpWrites \/ UpWriteFails

(***************************************************************************)
(* The down pump.                                                          *)
(***************************************************************************)
DownReads ==
    /\ dpc \in {"header", "body"}
    /\ ReadBegin \/ mcp_conn_read
    /\ UNCHANGED <<clientVars, readerVars, pumpVars, peerVars, stdout>>

\* dxr_conn_read_frame has one of the two parts of a frame, or fails.
DownHasPart ==
    /\ dpc \in {"header", "body"} /\ rd \in {"ok", "failed"}
    /\ dpc' = IF rd = "failed" THEN "done" ELSE IF dpc = "header" THEN "body" ELSE "latch"
    /\ got' = IF rd = "ok" /\ dpc = "body" THEN got + 1 ELSE got
    /\ rd' = "idle"
    /\ UNCHANGED <<build, inq, peer, aborted, conn, upc, mpc, latch, forwarded, clientVars, readerVars,
                   peerVars, stdout>>

\* dxr_stdio_framing_latch_wait.
DownWaits ==
    /\ dpc = "latch" /\ latch = UNKNOWN
    /\ dpc' = "asleep"
    /\ UNCHANGED <<upc, mpc, latch, got, forwarded, clientVars, readerVars, connVars, peerVars, stdout>>

\* The framing is known: encode the message and write it.  The write blocks
\* while the pipe is full, and nothing but the client ends it.
DownWrites ==
    /\ dpc = "latch" /\ latch # UNKNOWN /\ (stdoutOpen => got <= input.drains)
    /\ IF stdoutOpen
       THEN /\ stdout' = stdout \o dxr_stdio_encode(latch, ServerBodies[got])
            /\ dpc' = "header"
       ELSE dpc' = "done" /\ UNCHANGED stdout
    /\ UNCHANGED <<upc, mpc, latch, got, forwarded, clientVars, readerVars, connVars, peerVars>>

Down == DownReads \/ DownHasPart \/ DownWaits \/ DownWrites

(***************************************************************************)
(* main, once both pumps run.                                              *)
(***************************************************************************)
MainGoes(from, to) == mpc = from /\ mpc' = to

\* Mutant of MainLatches: the latch is left as it is.
MainLatchesNot ==
    /\ MainGoes("join up", "abort") /\ upc = "done"
    /\ UNCHANGED <<latch, upc, dpc, got, forwarded, clientVars, readerVars, connVars, peerVars, stdout>>

\* pthread_join(t_up); a down pump that waits for the framing gets one.
MainLatches ==
    /\ MainGoes("join up", "abort") /\ upc = "done"
    /\ LatchSet(NDJSON)
    /\ UNCHANGED <<upc, got, forwarded, clientVars, readerVars, connVars, peerVars, stdout>>

MainPoisons ==
    /\ MainGoes("abort", "cancel") /\ Poison
    /\ UNCHANGED <<upc, dpc, latch, got, forwarded, clientVars, readerVars, peerVars, stdout>>

MainCancels ==
    /\ MainGoes("cancel", "join down") /\ Cancel
    /\ UNCHANGED <<upc, dpc, latch, got, forwarded, clientVars, readerVars, peerVars, stdout>>

\* pthread_join(t_down), and the connection is freed.
MainCloses ==
    /\ MainGoes("join down", "done") /\ dpc = "done"
    /\ mcp_conn_close
    /\ UNCHANGED <<upc, dpc, latch, got, forwarded, clientVars, readerVars, peerVars, stdout>>

Main == MainLatches \/ MainPoisons \/ MainCancels \/ MainCloses

-----------------------------------------------------------------------------
(***************************************************************************)
(* The client and the server, external.  The client may close its stdout   *)
(* at any time, drained or not.  The server writes a frame in two parts    *)
(* and may close its end between them.                                     *)
(***************************************************************************)
Client ==
    /\ \/ ClientCloses /\ UNCHANGED stdoutOpen
       \/ stdoutOpen /\ input.replies > 0 /\ stdoutOpen' = FALSE /\ UNCHANGED clientVars
    /\ UNCHANGED <<sent, readerVars, connVars, pumpVars, stdout>>

Server ==
    /\ \/ sent < 2 * input.replies /\ PeerWrites(sent) /\ sent' = sent + 1
       \/ PeerCloses /\ UNCHANGED sent
       \/ PeerHangs /\ UNCHANGED sent
    /\ UNCHANGED <<stdoutOpen, clientVars, readerVars, pumpVars, stdout>>

Next == Up \/ Down \/ Main \/ Client \/ Server

\* The threads run.
Fairness == WF_vars(Up) /\ WF_vars(Down) /\ WF_vars(Main)

Spec == Init /\ [][Next]_vars /\ Fairness

-----------------------------------------------------------------------------
\* Every variable keeps its type, and the buffer never outgrows its limit.
TypeOK ==
    /\ given \in 0..Len(input.bytes) /\ buf \in Seq(Bytes) /\ Len(buf) <= MAX_MESSAGE
    /\ pos \in 0..Len(buf) /\ scan \in Nat
    /\ closed \in BOOLEAN /\ eof \in BOOLEAN
    /\ framing \in {UNKNOWN, NDJSON, CONTENT_LENGTH} /\ latch \in {UNKNOWN, NDJSON, CONTENT_LENGTH}
    /\ rpc \in {"idle", "detect", "line", "header", "body", "ret"}
    /\ header.length \in Nat /\ header.have \in BOOLEAN /\ header.any \in BOOLEAN
    /\ body \in Seq(Bytes)
    /\ peer \in {"up", "hung", "closed"} /\ aborted \in BOOLEAN /\ conn \in {"open", "freed"}
    /\ rd \in {"idle", "check", "issue", "pending", "ok", "failed"}
    /\ upc \in {"next", "header", "body", "done"}
    /\ dpc \in {"header", "body", "latch", "asleep", "done"}
    /\ mpc \in {"join up", "abort", "cancel", "join down", "done"}
    /\ got \in 0..Len(ServerBodies) /\ sent \in 0..(2 * Len(ServerBodies))

Prefix(s, t) == Len(s) <= Len(t) /\ s = SubSeq(t, 1, Len(s))

\* The messages of the input up to the first header line that the reader may
\* take one way or another.
Certain == {i \in 1..Len(input.msgs) : \A j \in 1..i : input.msgs[j] # NULL}

\* The server gets the messages that the client wrote, whole, unchanged and in
\* order, however stdin was cut into pieces by read; and all of them, once the
\* up pump has come to the end of stdin (adapter/stdio_framing.c, detect,
\* next_ndjson, next_content_length).  Nothing is said of what follows an
\* overlong header line or a length without a value: there the pieces matter.
ForwardsWhatWasWritten ==
    /\ \A i \in Certain : i <= Len(forwarded) => forwarded[i] = input.msgs[i]
    /\ Certain = 1..Len(input.msgs) => Len(forwarded) <= Len(input.msgs)
    /\ upc = "done" /\ peer # "closed" => \A i \in Certain : i <= Len(forwarded)

\* A message up to the kind of its blanks.
Flat(msg) == [i \in 1..Len(msg) |-> IF msg[i] \in Blank THEN "s" ELSE msg[i]]

\* At i there is a frame with a body of d bytes.
FrameAt(s, i, d) ==
    /\ i + 7 + d <= Len(s)
    /\ SubSeq(s, i + 1, i + 7) = <<"c", ":", Digits[d], "r", "n", "r", "n">>

\* What a client that speaks framing f reads in the bytes s: the messages, up to
\* the kind of their blanks; NULL stands for bytes that are no message.
DecodeNext(f, s, i) ==
    IF f = NDJSON
    THEN IF LineFeeds(s, i) = {} THEN i ELSE Min(LineFeeds(s, i))
    ELSE IF \E d \in 1..Len(Digits) : FrameAt(s, i, d)
         THEN i + 7 + (CHOOSE d \in 1..Len(Digits) : FrameAt(s, i, d)) ELSE i

DecodeOut(f, s, i) ==
    LET e == DecodeNext(f, s, i)
    IN  IF i = Len(s) THEN <<>>
        ELSE IF e = i THEN <<NULL>>
        ELSE <<Flat(IF f = NDJSON THEN SubSeq(s, i + 1, e - 1) ELSE SubSeq(s, i + 8, e))>>

DecodeFrom(f, s) ==
    LET dec[i \in 0..Len(s)] ==
            IF DecodeNext(f, s, i) = i THEN DecodeOut(f, s, i)
            ELSE DecodeOut(f, s, i) \o dec[DecodeNext(f, s, i)]
    IN  dec

Decode(f, s) == DecodeFrom(f, s)[0]

\* The frames that went to stdout.
Written == IF dpc \in {"latch", "asleep"} THEN got - 1 ELSE got

\* The framing of the client: of its messages, or newline-delimited when it sent
\* none.  The first header may be one of those that the reader takes or not.
ClientFramings ==
    IF input.msgs = <<>> THEN {NDJSON}
    ELSE IF input.msgs[1] = NULL THEN {NDJSON, input.framing} ELSE {input.framing}

\* The client finds on stdout the messages of the server, whole and in order,
\* in the framing of its own messages: adapter/stdio_framing.h, "the writer
\* replies in the same framing".
OutputDecodes ==
    \E f \in ClientFramings :
        /\ Prefix(Decode(f, stdout), [i \in 1..got |-> Flat(ServerBodies[i])])
        /\ stdoutOpen => Len(Decode(f, stdout)) = Written

\* mcp_conn_close frees the connection only when no thread is in a call on it.
NoIoAfterClose == conn = "freed" => rd = "idle" /\ upc = "done" /\ dpc = "done"

\* On Win32, a read that was issued after the cancellation: nobody ends it.
MissedCancel == Win32 /\ mpc = "join down" /\ rd = "pending"

\* The down pump is in a write to stdout that the client does not drain.
StuckOnStdout == dpc = "latch" /\ latch # UNKNOWN /\ stdoutOpen /\ got > input.drains

\* When the client closes stdin the adapter exits: the end of the up pump, the
\* latch and mcp_conn_abort unblock every thread (main, pump_thread).  Three
\* things can keep it from that: a server that hangs, on Win32 a missed cancellation,
\* and a client that neither drains nor closes its stdout, for mcp_conn_abort
\* does not end a write there.
BridgeExits ==
    \/ <>[]StuckOnStdout
    \/ closed ~> mpc = "done" \/ peer = "hung" \/ MissedCancel

\* When the server has gone, the next message of the client ends the adapter,
\* unless the client leaves a reply unread or a cancellation is missed.
ServerGoneEndsBridge ==
    \/ <>[]StuckOnStdout
    \/ peer = "closed" /\ upc \in {"header", "body"} ~> mpc = "done" \/ MissedCancel

\* A frame that the server has written in full reaches stdout once the first
\* message of the client has fixed the framing, if the client drains its stdout;
\* the teardown may cut it off.
RepliesDelivered ==
    \A i \in 1..Len(ServerBodies) :
        sent >= 2 * i /\ i <= input.drains /\ forwarded # <<>> ~>
            Written >= i \/ upc = "done" \/ peer = "closed" \/ ~stdoutOpen

\* include/displayxr_mcp/mcp_transport.h, mcp_conn_abort: "wake any thread
\* blocked in mcp_conn_read / mcp_conn_write on it (they return false) and make
\* all subsequent I/O on it fail".  A write to stdout is none of these.
AbortUnblocks == <>[]StuckOnStdout \/ (mpc = "join down" ~> dpc = "done")

=============================================================================
