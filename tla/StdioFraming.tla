---------------------------- MODULE StdioFraming ----------------------------
(***************************************************************************)
(* The agent's side of the adapter, adapter/stdio_framing.c: the reader    *)
(* that guesses the framing from the first bytes and cuts stdin into       *)
(* messages, the encoder, and the latch that hands the framing from the    *)
(* reader to the writers.                                                  *)
(*                                                                         *)
(* Bytes are drawn from a small alphabet.  "n" is the line feed, "r" the   *)
(* carriage return, "s" another blank; CL_KEY stands for content-length:   *)
(* and BOM for the byte order mark.  fill takes any number of the bytes    *)
(* that the client has written, so every cutting into pieces is explored.  *)
(***************************************************************************)
EXTENDS Naturals, Sequences, FiniteSetsExt

CONSTANTS
    Inputs,       \* bound: what the client writes (bytes) and means (framing, msgs)
    MAX_MESSAGE,  \* the largest message, and the largest buffer
    MAX_HEADER,   \* a header line that is longer by then is given up
    Past          \* bound: what memory may hold behind the bytes of the buffer

Blank == {"s", "r", "n"}
CL_KEY == <<"c", ":">>
BOM == <<"E", "F">>
Digits == <<"1", "2", "3">>   \* "1" is Digits[1]
Bytes == Blank \cup {"c", "C", ":", "E", "F", "1", "2", "3", "x", "y", "h"}
lower(b) == IF b = "C" THEN "c" ELSE b

\* The buffer holds what detect has to look at.
ASSUME FramingAssumption ==
    /\ MAX_MESSAGE \in Nat /\ MAX_MESSAGE >= Len(CL_KEY) /\ MAX_MESSAGE >= Len(BOM)
    /\ MAX_HEADER \in Nat \ {0}
    /\ Past # {} /\ \A past \in Past : past \in Seq(Bytes)

UNKNOWN == "unknown"
NDJSON == "ndjson"
CONTENT_LENGTH == "content-length"
NULL == <<>>      \* no message: its body is never empty

VARIABLES
    input,     \* the client's input
    given,     \* bytes of it that read has returned
    closed,    \* the client has closed stdin
    buf, pos, eof, framing,   \* struct dxr_stdio_reader
    rpc,       \* where dxr_stdio_reader_next is
    scan,      \* next_ndjson: no line feed before here
    header,    \* next_content_length: its three variables
    body       \* what it returned

clientVars == <<input, closed>>
readerVars == <<given, buf, pos, eof, framing, rpc, scan, header, body>>

NoHeader == [length |-> 0, have |-> FALSE, any |-> FALSE]

ReaderInit ==
    /\ input \in Inputs /\ given = 0 /\ closed = FALSE
    /\ buf = <<>> /\ pos = 0 /\ eof = FALSE /\ framing = UNKNOWN
    /\ rpc = "idle" /\ scan = 0 /\ header = NoHeader /\ body = NULL

Rest == SubSeq(buf, pos + 1, Len(buf))

\* s begins with all of t, up to the case of letters
StartsWith(s, t) == Len(s) >= Len(t) /\ \A i \in 1..Len(t) : lower(s[i]) = t[i]
\* s is shorter than t and agrees with it so far
Begins(s, t) == Len(s) < Len(t) /\ \A i \in 1..Len(s) : lower(s[i]) = t[i]

\* s without the blanks around it
Trim(s) ==
    LET ink == {i \in 1..Len(s) : s[i] \notin Blank}
    IN  IF ink = {} THEN <<>> ELSE SubSeq(s, Min(ink), Max(ink))

-----------------------------------------------------------------------------
(***************************************************************************)
(* fill: compact the buffer, then read some bytes after what it holds.     *)
(***************************************************************************)
Filled(rest, k) ==
    /\ ~eof
    /\ k <= Len(input.bytes) - given /\ Len(rest) + k <= MAX_MESSAGE
    /\ buf' = rest \o SubSeq(input.bytes, given + 1, given + k)
    /\ pos' = 0
    /\ given' = given + k
    /\ UNCHANGED eof

\* End of file, or the buffer cannot grow any more.
FillFails(rest) ==
    /\ \/ eof
       \/ Len(rest) = MAX_MESSAGE
       \/ closed /\ given = Len(input.bytes)
    /\ eof' = (eof \/ Len(rest) < MAX_MESSAGE)

Pieces == 1..(MAX_MESSAGE + 1)

-----------------------------------------------------------------------------
(***************************************************************************)
(* detect.                                                                 *)
(***************************************************************************)
\* One blank or byte order mark further, if there is one at i.
SkipOne(s, i) ==
    IF i < Len(s) /\ s[i + 1] \in Blank THEN i + 1
    ELSE IF i + 2 <= Len(s) /\ SubSeq(s, i + 1, i + 2) = BOM THEN i + 2
    ELSE i

\* Where the blanks and byte order marks from p on end.
SkipFrom(s, p) ==
    LET skip[i \in 0..Len(s)] == IF SkipOne(s, i) = i THEN i ELSE skip[SkipOne(s, i)]
    IN  skip[p]

Leading == SubSeq(buf, SkipFrom(buf, pos) + 1, Len(buf))

Undecided(s) == s = <<>> \/ Begins(s, BOM) \/ Begins(s, CL_KEY)

\* The first bytes decide; next_ndjson or next_content_length goes on.
DetectDecides ==
    /\ rpc = "detect" /\ ~Undecided(Leading)
    /\ pos' = SkipFrom(buf, pos) /\ scan' = pos'
    /\ framing' = IF StartsWith(Leading, CL_KEY) THEN CONTENT_LENGTH ELSE NDJSON
    /\ rpc' = IF framing' = NDJSON THEN "line" ELSE "header"
    /\ UNCHANGED <<given, buf, eof, header, body>>

DetectMore(k) ==
    /\ rpc = "detect" /\ Undecided(Leading)
    /\ Filled(Leading, k)
    /\ UNCHANGED <<framing, rpc, scan, header, body>>

\* End of file in the middle of it: what is left is a line.
DetectEnds ==
    /\ rpc = "detect" /\ Undecided(Leading)
    /\ FillFails(Leading)
    /\ pos' = SkipFrom(buf, pos) /\ scan' = pos'
    /\ IF Leading = <<>>
       THEN rpc' = "ret" /\ body' = NULL /\ UNCHANGED framing
       ELSE rpc' = "line" /\ framing' = NDJSON /\ UNCHANGED body
    /\ UNCHANGED <<given, buf, header>>

-----------------------------------------------------------------------------
(***************************************************************************)
(* next_ndjson.                                                            *)
(***************************************************************************)
LineFeeds(s, p) == {i \in (p + 1)..Len(s) : s[i] = "n"}

\* A line: its message, or on to the next when it is blank.
LineFound ==
    /\ rpc = "line" /\ LineFeeds(buf, scan) # {}
    /\ pos' = Min(LineFeeds(buf, scan)) /\ scan' = pos'
    /\ LET line == Trim(SubSeq(buf, pos + 1, pos' - 1))
       IN  IF line = <<>> THEN UNCHANGED <<rpc, body>> ELSE rpc' = "ret" /\ body' = line
    /\ UNCHANGED <<given, buf, eof, framing, header>>

\* Mutant of LineMore: scan keeps its place while fill moves the bytes.
LineMoreStays(k) ==
    /\ rpc = "line" /\ LineFeeds(buf, scan) = {}
    /\ Filled(Rest, k)
    /\ scan' = Len(buf)
    /\ UNCHANGED <<framing, rpc, header, body>>

LineMore(k) ==
    /\ rpc = "line" /\ LineFeeds(buf, scan) = {}
    /\ Filled(Rest, k)
    /\ scan' = pos' + Len(Rest)
    /\ UNCHANGED <<framing, rpc, header, body>>

\* End of file: the last line need not be terminated.
LineEnds ==
    /\ rpc = "line" /\ LineFeeds(buf, scan) = {}
    /\ FillFails(Rest)
    /\ body' = IF eof' THEN Trim(Rest) ELSE NULL
    /\ pos' = Len(buf) /\ rpc' = "ret"
    /\ UNCHANGED <<given, buf, framing, scan, header>>

-----------------------------------------------------------------------------
(***************************************************************************)
(* next_content_length: header lines up to a blank one, then the body.     *)
(***************************************************************************)
\* the digits that a number begins with, after the blanks
DigitsOf(s) ==
    LET t == Trim(s)
        run == {n \in 0..Len(t) : \A i \in 1..n : \E d \in 1..Len(Digits) : Digits[d] = t[i]}
    IN  SubSeq(t, 1, Max(run))

strtoul(s) ==
    LET t == DigitsOf(s)
        val[i \in 0..Len(t)] ==
            IF i = 0 THEN 0 ELSE 10 * val[i - 1] + Max({d \in 1..Len(Digits) : Digits[d] = t[i]})
    IN  val[Len(t)]

Headers == [length : Nat, have : BOOLEAN, any : BOOLEAN]
BlankLines == {<<"n">>, <<"r", "n">>}

IsLength(line) == Len(line) > Len(CL_KEY) /\ StartsWith(line, CL_KEY)
ValueOf(line) == SubSeq(line, Len(CL_KEY) + 1, Len(line))

\* What a header line makes of the three variables h; text is what memory holds
\* from the value on.  strtoul knows no end of the line: where the value is empty,
\* it takes the line feed for a blank and goes on behind it.
WithHeader(h, line, text) ==
    IF line \in BlankLines THEN h
    ELSE IF IsLength(line) THEN [length |-> strtoul(text), have |-> TRUE, any |-> TRUE]
    ELSE [h EXCEPT !.any = TRUE]

\* A blank line ends the headers; one before any header is skipped.
EndOfHeaders(h, line) == line \in BlankLines /\ h.any

HeaderLine ==
    /\ rpc = "header" /\ LineFeeds(buf, pos) # {}
    /\ pos' = Min(LineFeeds(buf, pos))
    /\ LET line == SubSeq(buf, pos + 1, pos')
       IN  /\ rpc' = IF EndOfHeaders(header, line) THEN "body" ELSE "header"
           /\ \E text \in {ValueOf(Rest) \o past : past \in Past} :
                 header' = WithHeader(header, line, text)
    /\ UNCHANGED <<given, buf, eof, framing, scan, body>>

HeaderMore(k) ==
    /\ rpc = "header" /\ LineFeeds(buf, pos) = {} /\ Len(Rest) <= MAX_HEADER
    /\ Filled(Rest, k)
    /\ UNCHANGED <<framing, rpc, scan, header, body>>

\* An overlong header line, or end of file.
HeaderEnds ==
    /\ rpc = "header" /\ LineFeeds(buf, pos) = {}
    /\ \/ Len(Rest) > MAX_HEADER /\ UNCHANGED eof
       \/ Len(Rest) <= MAX_HEADER /\ FillFails(Rest)
    /\ rpc' = "ret" /\ body' = NULL
    /\ UNCHANGED <<given, buf, pos, framing, scan, header>>

GoodLength(h) == h.have /\ h.length \in 1..MAX_MESSAGE

BodyTaken ==
    /\ rpc = "body" /\ GoodLength(header) /\ Len(Rest) >= header.length
    /\ body' = SubSeq(Rest, 1, header.length)
    /\ pos' = pos + header.length
    /\ rpc' = "ret"
    /\ UNCHANGED <<given, buf, eof, framing, scan, header>>

BodyMore(k) ==
    /\ rpc = "body" /\ GoodLength(header) /\ Len(Rest) < header.length
    /\ Filled(Rest, k)
    /\ UNCHANGED <<framing, rpc, scan, header, body>>

\* No length, one out of range, or end of file before the body is complete.
BodyEnds ==
    /\ rpc = "body"
    /\ \/ ~GoodLength(header) /\ UNCHANGED eof
       \/ GoodLength(header) /\ Len(Rest) < header.length /\ FillFails(Rest)
    /\ rpc' = "ret" /\ body' = NULL
    /\ UNCHANGED <<given, buf, pos, framing, scan, header>>

-----------------------------------------------------------------------------
\* The call of dxr_stdio_reader_next.
NextBegins ==
    /\ rpc = "idle"
    /\ rpc' = CASE framing = UNKNOWN -> "detect" [] framing = NDJSON -> "line" [] OTHER -> "header"
    /\ scan' = pos /\ header' = NoHeader
    /\ UNCHANGED <<given, buf, pos, eof, framing, body>>

\* Its steps up to the return.
dxr_stdio_reader_next ==
    \/ DetectDecides \/ DetectEnds \/ LineFound \/ LineEnds
    \/ HeaderLine \/ HeaderEnds \/ BodyTaken \/ BodyEnds
    \/ \E k \in Pieces : DetectMore(k) \/ LineMore(k) \/ HeaderMore(k) \/ BodyMore(k)

\* The client closes stdin: what it has written is still read.
ClientCloses == ~closed /\ closed' = TRUE /\ UNCHANGED input

-----------------------------------------------------------------------------
\* A message in the framing f.  For a line, its line breaks become blanks.
dxr_stdio_encode(f, msg) ==
    IF f = CONTENT_LENGTH THEN <<"c", ":", Digits[Len(msg)], "r", "n", "r", "n">> \o msg
    ELSE Append([i \in 1..Len(msg) |-> IF msg[i] \in {"r", "n"} THEN "s" ELSE msg[i]], "n")

-----------------------------------------------------------------------------
(***************************************************************************)
(* What the bytes s of a client mean, read in one piece: the reference for *)
(* the reader, which sees them in any number of pieces through a buffer of *)
(* MAX_MESSAGE bytes.                                                      *)
(***************************************************************************)
AsMessage(t) == IF t = <<>> THEN <<>> ELSE <<t>>

\* The line from p on; the last one need not be terminated.
HasLine(s, p) == LineFeeds(s, p) # {} /\ Min(LineFeeds(s, p)) - p <= MAX_MESSAGE
LineNext(s, p) == IF HasLine(s, p) THEN Min(LineFeeds(s, p)) ELSE p
LineOut(s, p) ==
    IF HasLine(s, p) THEN AsMessage(Trim(SubSeq(s, p + 1, Min(LineFeeds(s, p)) - 1)))
    ELSE IF Len(s) - p < MAX_MESSAGE THEN AsMessage(Trim(SubSeq(s, p + 1, Len(s)))) ELSE <<>>

LinesOf(s) ==
    LET lines[p \in 0..Len(s)] ==
            IF LineNext(s, p) = p THEN LineOut(s, p) ELSE LineOut(s, p) \o lines[LineNext(s, p)]
    IN  lines

\* The body that begins at p, and the header line from p on; d is <<p, h>>.
HasBody(s, p, h) == GoodLength(h) /\ p + h.length <= Len(s)

\* A header line of n bytes that the reader may take one way or another,
\* depending on the pieces in which it comes: an overlong one, which it takes or
\* gives up, and a length with an empty value, which it reads elsewhere.
Unsure(line, n) ==
    \/ n > MAX_HEADER + 1
    \/ IsLength(line) /\ Trim(ValueOf(line)) = <<>>

HeaderNext(s, d) ==
    LET m == Min(LineFeeds(s, d[1]))
        line == SubSeq(s, d[1] + 1, m)
    IN  IF ~HasLine(s, d[1]) \/ Unsure(line, m - d[1]) THEN d
        ELSE IF ~EndOfHeaders(d[2], line) THEN <<m, WithHeader(d[2], line, ValueOf(line))>>
        ELSE IF HasBody(s, m, d[2]) THEN <<m + d[2].length, NoHeader>> ELSE d

\* NULL marks such a line: behind it, nothing is said.
HeaderOut(s, d) ==
    LET m == Min(LineFeeds(s, d[1]))
        line == SubSeq(s, d[1] + 1, m)
    IN  IF ~HasLine(s, d[1]) THEN <<>>
        ELSE IF Unsure(line, m - d[1]) THEN <<NULL>>
        ELSE IF EndOfHeaders(d[2], line) /\ HasBody(s, m, d[2])
             THEN <<SubSeq(s, m + 1, m + d[2].length)>> ELSE <<>>

FramesOf(s) ==
    LET frames[d \in (0..Len(s)) \X Headers] ==
            IF HeaderNext(s, d) = d THEN HeaderOut(s, d) ELSE HeaderOut(s, d) \o frames[HeaderNext(s, d)]
    IN  frames

FramingOf(s) ==
    IF StartsWith(SubSeq(s, SkipFrom(s, 0) + 1, Len(s)), CL_KEY) THEN CONTENT_LENGTH ELSE NDJSON

MessagesFrom(s, f, p) == IF f = NDJSON THEN LinesOf(s)[p] ELSE FramesOf(s)[<<p, NoHeader>>]
MessagesOf(s) == MessagesFrom(s, FramingOf(s), SkipFrom(s, 0))

\* The inputs say what they mean.
ASSUME InputAssumption ==
    \A in \in Inputs :
        /\ in.bytes \in Seq(Bytes)
        /\ in.msgs = MessagesOf(in.bytes)
        /\ in.msgs # <<>> => in.framing = FramingOf(in.bytes)

=============================================================================
