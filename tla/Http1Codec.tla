----------------------------- MODULE Http1Codec -----------------------------
(***************************************************************************)
(* crates/http1_codec: an HTTP/1 parser that is fed TCP segments and keeps *)
(* what it cannot use yet.  A stream is a sequence of tokens: a request    *)
(* line, header fields, the end of the header block, and the bytes of      *)
(* bodies.  A segment may end between any two tokens.                      *)
(***************************************************************************)
EXTENDS Integers, SequencesExt

CONSTANTS
    Scripts,        \* streams: sequences of messages [head, body, host, good]
    MAX_HEADERS

VARIABLES
    script,         \* the messages of this connection
    fed, before,    \* how many tokens were fed, and before the last call
    parser,         \* Http1Parser
    out             \* what the last call returned

vars == <<script, fed, before, parser, out>>

(* tokens: a request line, a header field, or a byte *)
Line(l, absolute) == [line |-> l, absolute |-> absolute]
Field(f, v) == [field |-> f, value |-> v]
Byte(b) == [byte |-> b]

(* a decimal or hexadecimal number of one digit; -1 for anything else *)
Number(s) == CASE s = "0" -> 0 [] s = "1" -> 1 [] s = "2" -> 2 [] s = "3" -> 3 [] OTHER -> -1

CR == Byte("cr")
LF == Byte("lf")
End == Byte("end")
IsByte(t) == "byte" \in DOMAIN t
IsLine(t) == "line" \in DOMAIN t
IsField(t) == "field" \in DOMAIN t
From(s, i) == SubSeq(s, i, Len(s))

-----------------------------------------------------------------------------
(* Headers *)

(* httparse::Request::parse: empty lines are skipped, then a request line,   *)
(* at most MAX_HEADERS fields and the end.  `lenient`: bytes that are no     *)
(* request line may still look like the beginning of one.                    *)
RECURSIVE EmptyLines(_)
EmptyLines(buf) ==
    IF buf # << >> /\ buf[1] = LF THEN 1 + EmptyLines(Tail(buf))
    ELSE IF Len(buf) > 1 /\ buf[1] = CR /\ buf[2] = LF THEN 2 + EmptyLines(From(buf, 3))
    ELSE 0

httparse(buf, lenient) ==
    LET skip == EmptyLines(buf)
        rest == From(buf, skip + 1)
        strange == {i \in 2..Len(rest) : ~IsField(rest[i])}
        stop == CHOOSE i \in strange : \A j \in strange : i <= j
        fields == SubSeq(rest, 2, IF strange = {} THEN Len(rest) ELSE stop - 1)
    IN  IF rest \in {<< >>, <<CR>>} THEN [status |-> "partial"]
        ELSE IF ~IsLine(rest[1])
             THEN [status |-> IF lenient /\ \A i \in DOMAIN rest : IsByte(rest[i]) /\ rest[i] \notin {CR, LF, End}
                              THEN "partial" ELSE "error"]
        ELSE IF Len(fields) > MAX_HEADERS THEN [status |-> "error"]
        ELSE IF strange = {} THEN [status |-> "partial"]
        ELSE IF rest[stop] # End THEN [status |-> "error"]
        ELSE [status |-> "complete", consumed |-> skip + stop, line |-> rest[1], fields |-> fields]

(* only an absolute target names a host *)
parse_request_target(line) == IF line.absolute THEN "target" ELSE ""

(* the part before the last colon *)
WithoutPort(v) == IF v = "h:80" THEN "h" ELSE v

(* Changed: the first Host field wins. *)
resolve_host_field(target_host, fields) ==
    LET hosts == SelectSeq(fields, LAMBDA f : f.field = "host")
    IN  IF hosts = << >> THEN target_host ELSE WithoutPort(hosts[1].value)

(* the host of the target wins over the first Host field *)
resolve_host(target_host, fields) ==
    LET hosts == SelectSeq(fields, LAMBDA f : f.field = "host")
    IN  IF target_host # "" THEN target_host
        ELSE IF hosts = << >> THEN "" ELSE WithoutPort(hosts[1].value)

ValuesOf(fields, name) == {fields[i].value : i \in {k \in DOMAIN fields : fields[k].field = name}}

(* lengths that are no number (-1) or that differ, or a length of a chunked  *)
(* body, are errors                                                          *)
try_parse_headers(buf, lenient) ==
    LET req == httparse(buf, lenient)
        lengths == {Number(v) : v \in ValuesOf(req.fields, "content-length")}
        chunked == "chunked" \in ValuesOf(req.fields, "transfer-encoding")
    IN  IF req.status # "complete" THEN req
        ELSE IF -1 \in lengths \/ Cardinality(lengths) > 1 \/ (chunked /\ lengths # {}) THEN [status |-> "error"]
        ELSE [status |-> "complete", consumed |-> req.consumed, chunked |-> chunked,
              content_length |-> IF lengths = {} THEN 0 ELSE CHOOSE n \in lengths : TRUE,
              header |-> [line |-> req.line, host |-> resolve_host(parse_request_target(req.line), req.fields), fields |-> req.fields]]

-----------------------------------------------------------------------------
(* Bodies: BodyFraming *)

Framing(at, n) == [at |-> at, n |-> n]
HeadersPhase == Framing("headers", 0)

start(content_length, chunked) ==
    IF chunked THEN Framing("size", 0)
    ELSE IF content_length = 0 THEN Framing("none", 0)
    ELSE Framing("length", content_length)

(* the length of the line at the beginning of s, -1 if it does not end in it *)
find_crlf(s) ==
    LET ends == {i \in 1..(Len(s) - 1) : s[i] = CR /\ s[i + 1] = LF}
    IN  IF ends = {} THEN -1 ELSE (CHOOSE i \in ends : \A j \in ends : i <= j) - 1

(* the hexadecimal number in front of the chunk extensions *)
SizeOf(line) ==
    LET semicolons == {i \in DOMAIN line : line[i] = Byte(";")}
        hex == IF semicolons = {} THEN line ELSE SubSeq(line, 1, Min(semicolons) - 1)
    IN  IF Len(hex) = 1 /\ IsByte(hex[1]) THEN Number(hex[1].byte) ELSE -1

More(pos, framing) == [ok |-> TRUE, consumed |-> pos, complete |-> FALSE, framing |-> framing]
Malformed == [ok |-> FALSE]

RECURSIVE advance_chunked(_, _, _)
advance_chunked(framing, buf, pos) ==
    LET rest == From(buf, pos + 1)
        line_len == find_crlf(rest)
        size == SizeOf(SubSeq(rest, 1, line_len))
        take == IF framing.n < Len(rest) THEN framing.n ELSE Len(rest)
        tail == From(rest, take + 1)
        left == Framing("data", framing.n - take)
    IN  CASE framing.at = "size" ->
               IF line_len = -1 THEN More(pos, framing)
               ELSE IF size = -1 THEN Malformed
               ELSE advance_chunked(IF size = 0 THEN Framing("trailer", 0) ELSE Framing("data", size),
                                    buf, pos + line_len + 2)
          [] framing.at = "data" ->
               IF left.n > 0 \/ Len(tail) < 2 THEN More(pos + take, left)
               ELSE IF SubSeq(tail, 1, 2) # <<CR, LF>> THEN Malformed
               ELSE advance_chunked(Framing("size", 0), buf, pos + take + 2)
          [] framing.at = "trailer" ->
               IF line_len = -1 THEN More(pos, framing)
               ELSE IF line_len = 0 THEN [ok |-> TRUE, consumed |-> pos + 2, complete |-> TRUE, framing |-> framing]
               ELSE advance_chunked(framing, buf, pos + line_len + 2)

(* Changed: what is left of a body is not written back. *)
advance_forgets(framing, buf) ==
    LET take == IF framing.n < Len(buf) THEN framing.n ELSE Len(buf)
    IN  CASE framing.at = "none" -> [ok |-> TRUE, consumed |-> 0, complete |-> TRUE, framing |-> framing]
          [] framing.at = "length" ->
               [ok |-> TRUE, consumed |-> take, complete |-> framing.n = take, framing |-> framing]
          [] OTHER -> advance_chunked(framing, buf, 0)

advance(framing, buf) ==
    LET take == IF framing.n < Len(buf) THEN framing.n ELSE Len(buf)
    IN  CASE framing.at = "none" -> [ok |-> TRUE, consumed |-> 0, complete |-> TRUE, framing |-> framing]
          [] framing.at = "length" ->
               [ok |-> TRUE, consumed |-> take, complete |-> framing.n = take, framing |-> Framing("length", framing.n - take)]
          [] OTHER -> advance_chunked(framing, buf, 0)

-----------------------------------------------------------------------------
(* Http1Parser::dispatch *)

NewParser == [buf |-> << >>, phase |-> HeadersPhase]
Continue == [state |-> "continue"]
Done(header) == [state |-> "done", header |-> header]
Answer(p, r) == [parser |-> p, out |-> r]
(* Changed: the phase is left as it was found in a body. *)
Failed_in_body == Answer([NewParser EXCEPT !.phase = Framing("size", 0)], [state |-> "error"])
Failed == Answer(NewParser, [state |-> "error"])

(* bytes that are no further message do not take back what the call found,   *)
(* and stay in the buffer; a malformed body does                             *)
RECURSIVE Loop(_, _, _)
Loop(p, result, lenient) ==
    IF p.phase.at = "headers" THEN
       LET h == try_parse_headers(p.buf, lenient)
       IN  CASE h.status = "partial" -> Answer(p, result)
             [] h.status = "error" -> IF result.state = "done" THEN Answer(p, result) ELSE Failed
             [] h.status = "complete" ->
                  Loop([buf |-> From(p.buf, h.consumed + 1), phase |-> start(h.content_length, h.chunked)],
                       Done(h.header), lenient)
    ELSE
       LET a == advance(p.phase, p.buf)
           rest == From(p.buf, a.consumed + 1)
       IN  IF ~a.ok THEN Failed
           ELSE IF a.complete THEN Loop([buf |-> rest, phase |-> HeadersPhase], result, lenient)
           ELSE Answer([buf |-> rest, phase |-> a.framing], result)

dispatch(p, data, lenient) == Loop([p EXCEPT !.buf = @ \o data], Continue, lenient)

-----------------------------------------------------------------------------
(* A connection *)

Bytes(m) == m.head \o m.body
Stream == FlattenSeq([i \in DOMAIN script |-> Bytes(script[i])])

Init ==
    /\ script \in Scripts
    /\ fed = 0 /\ before = 0
    /\ parser = NewParser /\ out = Continue

(* the next segment arrives, and its length is the network's choice *)
Segment(n, lenient) ==
    LET a == dispatch(parser, SubSeq(Stream, fed + 1, n), lenient)
    IN  /\ parser' = a.parser /\ out' = a.out
        /\ before' = fed /\ fed' = n
        /\ UNCHANGED script

Next == \E n \in (fed + 1)..Len(Stream), lenient \in BOOLEAN : Segment(n, lenient)

Spec == Init /\ [][Next]_vars

-----------------------------------------------------------------------------
(* Properties *)

AllGood == \A i \in DOMAIN script : script[i].good

(* where message i begins, and where its header block ends *)
RECURSIVE Begins(_)
Begins(i) == IF i = 1 THEN 0 ELSE Begins(i - 1) + Len(Bytes(script[i - 1]))
HeadEnds(i) == Begins(i) + Len(script[i].head)
Ends(i) == Begins(i) + Len(Bytes(script[i]))

(* However the segments fall, a call reports a header exactly when a header  *)
(* block ended in its segment, and then the one that ended last with the     *)
(* host it addresses: bodies are skipped to the token, also when they look   *)
(* like requests, and no later message is misread (Http1Parser::dispatch,    *)
(* BodyFraming::advance).                                                    *)
ReportsHeaders ==
    AllGood =>
        LET ended == {i \in DOMAIN script : before < HeadEnds(i) /\ HeadEnds(i) <= fed}
            last == script[Max(ended)]
        IN  IF ended = {} THEN out = Continue
            ELSE out = Done([line |-> last.head[1], host |-> last.host,
                             fields |-> SubSeq(last.head, 2, Len(last.head) - 1)])

(* The parser's state depends on the stream alone, never on how it was cut   *)
(* into segments: feeding all of it at once gives the same.                  *)
SegmentsInvisible == AllGood => parser = dispatch(NewParser, SubSeq(Stream, 1, fed), TRUE).parser

(* The parser keeps no body: inside a body it holds at most the unfinished   *)
(* line of a chunk, never its data.                                          *)
KeepsNoBody ==
    /\ parser.phase.at \in {"none", "length"} => parser.buf = << >>
    /\ parser.phase.at = "data" => parser.buf = << >> \/ (parser.phase.n = 0 /\ Len(parser.buf) < 2)
    /\ parser.phase.at \in {"size", "trailer"} => find_crlf(parser.buf) = -1

(* The parser's state is what the stream determines, and no more of it than  *)
(* needed: the two properties above together (dispatch, advance).            *)
ParserIsExact == SegmentsInvisible /\ KeepsNoBody

(* A malformed message, however it was cut, costs the connection little: the *)
(* next message that arrives in a segment of its own is reported, unless the *)
(* malformed one came in one segment with the end of a reported message and  *)
(* stayed in the buffer.  Then that next message fails too and the parser is *)
(* reset (the error arms of Http1Parser::dispatch).                          *)
Resyncs ==
    \A i \in DOMAIN script :
        fed = Begins(i) /\ fed' = Ends(i) /\ script[i].good =>
            \/ out'.state = "done"
            \/ out.state = "done" /\ out'.state = "error" /\ parser' = NewParser

RecoversAfterError == [][Resyncs]_vars
=============================================================================
