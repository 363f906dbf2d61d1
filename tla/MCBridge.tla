------------------------------ MODULE MCBridge ------------------------------
(* Instances of the bridge: what a client may write, in both framings, with *)
(* the noise that the reader is to tolerate.                                *)
EXTENDS Bridge

\* What comes before the first message.
Noise == {<<>>, <<"s", "n">>, BOM \o <<"r">>}

\* With many inputs the server is silent; with a few it writes two frames, and
\* both builds are tried.
In(f, msgs, bytes) == [framing |-> f, msgs |-> msgs, bytes |-> bytes, replies |-> 0, drains |-> 0, build |-> "posix"]

x == <<"x">>
y == <<"y">>
cx == <<"c", "x">>          \* a message that begins like CL_KEY

Lines(noise, eol) ==
    {In(NDJSON, <<>>, noise),
     In(NDJSON, <<x>>, noise \o x),                            \* not terminated
     In(NDJSON, <<cx, y>>, noise \o cx \o eol \o y \o eol),
     In(NDJSON, <<x, y>>, noise \o x \o eol \o <<"s", "n">> \o <<"s">> \o y \o eol),  \* a blank line
     In(NDJSON, <<<<"c">>>>, noise \o <<"c">>),                \* ends like a cut key
     \* a line that the buffer cannot hold
     In(NDJSON, <<x>>, noise \o x \o eol \o <<"y", "y", "y", "y", "y", "y", "y", "y", "y">> \o eol)}

Frame(key, len, msg) == <<key, ":">> \o len \o <<"r", "n", "r", "n">> \o msg
xy == <<"x", "n", "y">>     \* a message with a line break in it

Frames(noise) ==
    {In(CONTENT_LENGTH, <<x>>, noise \o Frame("C", <<"1">>, x)),
     In(CONTENT_LENGTH, <<xy, y>>, noise \o Frame("c", <<"s", "3">>, xy) \o <<"r", "n">> \o Frame("c", <<"1">>, y)),
     \* a length without a value: what follows is taken for one, or not
     In(CONTENT_LENGTH, <<NULL>>, noise \o <<"c", ":", "r", "n", "r", "n", "1", "x">>)}

OddFrames ==
    {In(CONTENT_LENGTH, <<x>>, <<"c", ":", "1", "n", "h", "n", "n">> \o x),           \* another header
     In(CONTENT_LENGTH, <<x>>, Frame("c", <<"1">>, x) \o Frame("c", <<"2">>, y)),    \* cut short
     In(CONTENT_LENGTH, <<>>, Frame("c", <<"h">>, x)),                             \* no number
     In(CONTENT_LENGTH, <<x, NULL>>, Frame("c", <<"1">>, x) \o <<"c", ":", "s", "n", "1", "n", "n">> \o y),
     \* a header line that is too long
     In(CONTENT_LENGTH, <<x, NULL>>, Frame("c", <<"1">>, x) \o <<"h", "h", "h", "h", "h", "h", "h", "n", "n">>),
     In(CONTENT_LENGTH, <<x>>, Frame("c", <<"1">>, x) \o <<"h", "h", "h", "h", "h", "h", "h", "h", "h">>)}

FewInputs ==
    {In(NDJSON, <<x>>, x \o <<"n">>),
     In(CONTENT_LENGTH, <<x>>, Frame("c", <<"1">>, x)),
     In(NDJSON, <<>>, <<>>)}

\* The client drains all of stdout, or of two replies only the first, or none.
TalkInputs ==
    {[in EXCEPT !.replies = 2, !.drains = 2] : in \in FewInputs}
        \cup {[in EXCEPT !.replies = 2, !.drains = 1] : in \in {In(NDJSON, <<x>>, x \o <<"n">>)}}
        \cup {[in EXCEPT !.replies = 1, !.drains = 1, !.build = "win32"] : in \in FewInputs}
        \cup {[in EXCEPT !.replies = 1, !.build = "win32"] : in \in {In(NDJSON, <<>>, <<>>)}}

MCInputs ==
    Lines(<<>>, <<"n">>) \cup UNION {Lines(noise, <<"r", "n">>) : noise \in Noise \ {<<>>}}
        \cup UNION {Frames(noise) : noise \in Noise} \cup OddFrames
        \cup TalkInputs

\* Behind the bytes: no digit, or one.
MCPast == {<<>>, <<"1">>}

MCServerBodies == <<xy, x>>

=============================================================================
