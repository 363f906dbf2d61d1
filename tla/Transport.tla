----------------------------- MODULE Transport -----------------------------
(***************************************************************************)
(* One client connection of src/mcp_transport.c, as its owner process uses *)
(* it: one thread reads, one writes, and a third may abort it.             *)
(*                                                                         *)
(* The POSIX half reads a socket, and abort shuts it down for good.  The   *)
(* Win32 half polls the aborted flag, issues an overlapped read and waits  *)
(* for it; abort sets the flag and cancels what is pending at that moment. *)
(* What the peer has written is a queue of parts: the header of a frame or *)
(* its body.  The operating system and the peer are external.              *)
(***************************************************************************)
EXTENDS Naturals, Sequences

CONSTANT MayHang   \* the peer may stop reading and writing for ever

ASSUME TransportAssumption == MayHang \in BOOLEAN

VARIABLES
    build,     \* which half of the file: posix or win32
    inq,       \* parts the peer has written that are not yet read
    peer,      \* up, hung, or closed
    aborted,   \* conn->aborted, or the socket is shut down
    conn,      \* open, or freed by mcp_conn_close
    rd         \* where mcp_conn_read is, or what it returned

connVars == <<build, inq, peer, aborted, conn, rd>>

Win32 == build = "win32"

ConnInit ==
    /\ inq = <<>> /\ peer = "up"
    /\ aborted = FALSE /\ conn = "open"
    /\ rd = "idle"

\* mcp_conn_read is called.
ReadBegin ==
    /\ rd = "idle"
    /\ rd' = IF Win32 THEN "check" ELSE "pending"
    /\ UNCHANGED <<build, inq, peer, aborted, conn>>

\* Win32: the flag is polled first ...
ReadCheck ==
    /\ rd = "check"
    /\ rd' = IF aborted THEN "failed" ELSE "issue"
    /\ UNCHANGED <<build, inq, peer, aborted, conn>>

\* ... and the read is issued next.
ReadIssue ==
    /\ rd = "issue"
    /\ rd' = "pending"
    /\ UNCHANGED <<build, inq, peer, aborted, conn>>

\* Bytes are there.  A socket that was shut down still hands out the bytes
\* that it holds.
ReadData ==
    /\ rd = "pending" /\ inq # <<>>
    /\ rd' = "ok" /\ inq' = Tail(inq)
    /\ UNCHANGED <<build, peer, aborted, conn>>

\* End of file, or the socket is shut down.
ReadFails ==
    /\ rd = "pending"
    /\ \/ peer = "closed" /\ inq = <<>>
       \/ ~Win32 /\ aborted
    /\ rd' = "failed"
    /\ UNCHANGED <<build, inq, peer, aborted, conn>>

mcp_conn_read == ReadCheck \/ ReadIssue \/ ReadData \/ ReadFails

\* mcp_conn_write of one part: done, or failed.  It blocks while the peer
\* does not read.
WriteOk == conn = "open" /\ ~aborted /\ peer = "up"
WriteFails == aborted \/ peer = "closed"

\* The first half of mcp_conn_abort: shutdown, or the flag.
Poison ==
    /\ aborted' = TRUE
    /\ UNCHANGED <<build, inq, peer, conn, rd>>

\* The second half: CancelIoEx ends what is pending now.
Cancel ==
    /\ rd' = IF Win32 /\ rd = "pending" THEN "failed" ELSE rd
    /\ UNCHANGED <<build, inq, peer, aborted, conn>>

mcp_conn_close ==
    /\ conn = "open"
    /\ aborted' = TRUE /\ conn' = "freed"
    /\ rd' = IF Win32 /\ rd = "pending" THEN "failed" ELSE rd
    /\ UNCHANGED <<build, inq, peer>>

-----------------------------------------------------------------------------
\* The peer's side, external.
PeerWrites(part) ==
    /\ peer = "up" /\ ~aborted
    /\ inq' = Append(inq, part)
    /\ UNCHANGED <<build, peer, aborted, conn, rd>>

PeerCloses ==
    /\ peer = "up"
    /\ peer' = "closed"
    /\ UNCHANGED <<build, inq, aborted, conn, rd>>

PeerHangs ==
    /\ MayHang /\ peer = "up"
    /\ peer' = "hung"
    /\ UNCHANGED <<build, inq, aborted, conn, rd>>

=============================================================================
