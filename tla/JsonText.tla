------------------------------ MODULE JsonText ------------------------------
(***************************************************************************)
(* cjson.c, the text functions: printing an item into a growing or a fixed *)
(* buffer, minifying, and parsing.  A text is a sequence of bytes.  An     *)
(* item is a tree; a number is the digits sprintf gives for it, none if it *)
(* is not finite, so what strtod and valueint make of the digits is left   *)
(* out.                                                                    *)
(*                                                                         *)
(* Sizes near INT_MAX, which ensure refuses, are beyond the texts here.    *)
(* The strings and comments of a text that is minified are closed: behind  *)
(* one that is not, cJSON_Minify would read on after the final zero.       *)
(***************************************************************************)
EXTENDS Integers, SequencesExt

CONSTANTS
    Values,         \* the items that are printed
    Bare,           \* raw texts, and what each is without comments and white space
    Units,          \* sequences of UTF-16 units, sent as escapes by a peer
    Sizes,          \* sizes of the buffers given to the print functions
    Mallocs,        \* how many allocations of a call succeed: a set of numbers
    default_buffer_size,
    CJSON_NESTING_LIMIT

VARIABLES
    value,          \* the item
    printed,        \* the outcome of the last print
    wire,           \* a text, complete, and the item it was printed from (if any)
    result          \* the outcome of the last parse

vars == <<value, printed, wire, result>>

(* items *)
Leaf(kind, text) == [kind |-> kind, text |-> text, named |-> FALSE, key |-> << >>, items |-> << >>]
Box(kind, items) == [Leaf(kind, << >>) EXCEPT !.items = items]
Member(key, v) == [v EXCEPT !.named = TRUE, !.key = key]

(* bytes *)
Tab == 9
NewLine == 10
Space == 32
Quote == 34
Star == 42
Comma == 44
Slash == 47
Colon == 58
Backslash == 92
LetterU == 117
Open(kind) == IF kind = "array" THEN 91 ELSE 123
Close(kind) == IF kind = "array" THEN 93 ELSE 125
Tabs(n) == [i \in 1..n |-> Tab]
Literal(kind) == CASE kind = "null" -> <<110, 117, 108, 108>>
                   [] kind = "true" -> <<116, 114, 117, 101>>
                   [] kind = "false" -> <<102, 97, 108, 115, 101>>

(* the one-letter escapes: the byte and its letter *)
Escapes == {<<34, 34>>, <<92, 92>>, <<8, 98>>, <<12, 102>>, <<10, 110>>, <<13, 114>>, <<9, 116>>}
Escapable(c) == \E e \in Escapes : e[1] = c
Hex(d) == IF d < 10 THEN 48 + d ELSE 87 + d

-----------------------------------------------------------------------------
(* Printing: the buffer holds `out`, of `length` bytes when it was last      *)
(* allocated; `overrun` records a write behind its end                       *)

Buffer(length, noalloc, format, left) ==
    [out |-> << >>, length |-> length, noalloc |-> noalloc, format |-> format, depth |-> 0,
     left |-> left, ok |-> TRUE, overrun |-> FALSE]

ensure_from_start(p, needed) ==
    IF needed + 1 <= p.length THEN p
    ELSE IF p.noalloc THEN [p EXCEPT !.ok = FALSE]
    ELSE [p EXCEPT !.length = 2 * (needed + 1), !.left = @ - 1]

(* room for `needed` bytes and one more behind the offset; a buffer that     *)
(* cannot grow is freed                                                      *)
ensure(p, needed) ==
    LET all == needed + Len(p.out) + 1
    IN  IF p.length > 0 /\ Len(p.out) >= p.length THEN [p EXCEPT !.ok = FALSE]
        ELSE IF all <= p.length THEN p
        ELSE IF p.noalloc THEN [p EXCEPT !.ok = FALSE]
        ELSE IF p.left = 0 THEN [p EXCEPT !.ok = FALSE, !.length = 0]
        ELSE [p EXCEPT !.length = 2 * all, !.left = @ - 1]

(* write bytes, and perhaps the zero behind them, after asking for room *)
Put(p, needed, bytes, zero) ==
    LET e == ensure(p, needed)
    IN  IF ~p.ok \/ ~e.ok THEN [p EXCEPT !.ok = FALSE]
        ELSE [e EXCEPT !.out = @ \o bytes,
                       !.overrun = @ \/ Len(e.out) + Len(bytes) + (IF zero THEN 1 ELSE 0) > e.length]

(* the bytes escaping adds, counted first, and the escaped bytes *)
EscapeCharacters(s) == Cardinality({i \in DOMAIN s : Escapable(s[i])})
                       + 5 * Cardinality({i \in DOMAIN s : s[i] < 32 /\ ~Escapable(s[i])})
Escaped(c) ==
    IF Escapable(c) THEN <<Backslash, (CHOOSE e \in Escapes : e[1] = c)[2]>>
    ELSE IF c < 32 THEN <<Backslash, LetterU, 48, 48, Hex(c \div 16), Hex(c % 16)>>
    ELSE <<c>>

print_string_ptr(p, s) ==
    LET output_length == Len(s) + EscapeCharacters(s)
        escaped == FlattenSeq([i \in DOMAIN s |-> Escaped(s[i])])
    IN  Put(p, output_length + 3, <<Quote>> \o SubSeq(escaped, 1, output_length) \o <<Quote>>, TRUE)

(* NaN and the infinities have no digits and are printed as null *)
Digits(digits) == IF digits = << >> THEN Literal("null") ELSE digits
print_number(p, digits) == Put(p, Len(Digits(digits)) + 1, Digits(digits), TRUE)

Deeper(p, n) == [p EXCEPT !.depth = @ + n]
Separator(p, more) == (IF more THEN <<Comma>> ELSE << >>) \o (IF p.format THEN <<NewLine>> ELSE << >>)

RECURSIVE print_value(_, _), print_elements(_, _, _), print_members(_, _, _)

print_elements(p, items, i) ==
    IF ~p.ok \/ i > Len(items) THEN p
    ELSE LET v == print_value(p, items[i])
             gap == <<Comma>> \o (IF p.format THEN <<Space>> ELSE << >>)
         IN  print_elements(IF i < Len(items) THEN Put(v, Len(gap) + 1, gap, TRUE) ELSE v, items, i + 1)

print_array(p, items) ==
    Deeper(Put(print_elements(Deeper(Put(p, 1, <<Open("array")>>, FALSE), 1), items, 1),
               2, <<Close("array")>>, TRUE), -1)

print_members(p, items, i) ==
    IF ~p.ok \/ i > Len(items) THEN p
    ELSE LET indented == IF p.format THEN Put(p, p.depth, Tabs(p.depth), FALSE) ELSE p
             colon == <<Colon>> \o (IF p.format THEN <<Tab>> ELSE << >>)
             named == Put(print_string_ptr(indented, items[i].key), Len(colon), colon, FALSE)
             v == print_value(named, items[i])
             sep == Separator(p, i < Len(items))
         IN  print_members(Put(v, Len(sep) + 1, sep, TRUE), items, i + 1)

print_object(p, items) ==
    LET start == <<Open("object")>> \o (IF p.format THEN <<NewLine>> ELSE << >>)
        body == print_members(Deeper(Put(p, Len(start) + 1, start, FALSE), 1), items, 1)
        end == (IF p.format THEN Tabs(body.depth - 1) ELSE << >>) \o <<Close("object")>>
    IN  Deeper(Put(body, IF p.format THEN body.depth + 1 ELSE 2, end, TRUE), -1)

print_value(p, v) ==
    CASE v.kind \in {"null", "true", "false"} -> Put(p, Len(Literal(v.kind)) + 1, Literal(v.kind), TRUE)
      [] v.kind = "number" -> print_number(p, v.text)
      [] v.kind = "raw" -> Put(p, Len(v.text) + 1, v.text, TRUE)
      [] v.kind = "string" -> print_string_ptr(p, v.text)
      [] v.kind = "array" -> print_array(p, v.items)
      [] v.kind = "object" -> print_object(p, v.items)

(* print: a buffer of the default size, and at the end one of the exact size *)
Provided(p, allocations) == IF allocations THEN p ELSE [p EXCEPT !.ok = FALSE]
Trimmed(p, left) == Provided(p, left > 0 /\ p.ok /\ p.left > 0)
print(v, format, left) ==
    Trimmed(print_value(Buffer(default_buffer_size, FALSE, format, left - 1), v), left)
cJSON_PrintBuffered(v, prebuffer, format, left) ==
    Provided(print_value(Buffer(prebuffer, FALSE, format, left - 1), v), left > 0)
cJSON_PrintPreallocated(v, len, format) == print_value(Buffer(len, TRUE, format, 0), v)

-----------------------------------------------------------------------------
(* cJSON_Minify                                                             *)

RECURSIVE StringEnd(_, _)
(* the position of the quote that closes the string, 0 if none does *)
StringEnd(t, i) ==
    IF i > Len(t) THEN 0
    ELSE IF t[i] = Quote THEN i
    ELSE IF t[i] = Backslash THEN IF i + 1 > Len(t) THEN 0 ELSE StringEnd(t, i + 2)
    ELSE StringEnd(t, i + 1)

(* does a comment start here, and where does the text go on: at the end of   *)
(* the line, or behind the first star and slash                              *)
Starts(t, i, second) == i < Len(t) /\ t[i] = Slash /\ t[i + 1] = second
LineEnd(t, i) == Min({j \in i..Len(t) : t[j] = NewLine} \cup {Len(t) + 1})
CommentEnd(t, i) == Min({j \in i..(Len(t) - 1) : t[j] = Star /\ t[j + 1] = Slash}) + 2

RECURSIVE MinifyFrom(_, _)
MinifyFrom(t, i) ==
    IF i > Len(t) THEN << >>
    ELSE IF t[i] \in {Space, Tab, NewLine, 13} THEN MinifyFrom(t, i + 1)
    ELSE IF Starts(t, i, Slash) THEN MinifyFrom(t, LineEnd(t, i))
    ELSE IF Starts(t, i, Star) THEN MinifyFrom(t, CommentEnd(t, i))
    ELSE IF t[i] = Quote THEN SubSeq(t, i, StringEnd(t, i + 1)) \o MinifyFrom(t, StringEnd(t, i + 1) + 1)
    ELSE <<t[i]>> \o MinifyFrom(t, i + 1)
cJSON_Minify(t) == MinifyFrom(t, 1)

-----------------------------------------------------------------------------
(* Parsing: b is the input with its final zero, the offset (from 0), the     *)
(* nesting depth, the allocations that will succeed and those outstanding    *)

At(b) == b.text[b.offset + 1]
Accessible(b) == b.offset < Len(b.text)
Move(b, n) == [b EXCEPT !.offset = @ + n]
Allocated(b) == [b EXCEPT !.left = @ - 1, !.live = @ + 1]
Fail(b) == [b |-> b, ok |-> FALSE, v |-> Leaf("invalid", << >>)]
Done(b, v) == [b |-> b, ok |-> TRUE, v |-> v]

(* the blocks an item consists of *)
RECURSIVE Weight(_), Weights(_)
Weight(v) == 1 + (IF v.named THEN 1 ELSE 0) + (IF v.kind = "string" THEN 1 ELSE 0) + Weights(v.items)
Weights(items) == IF items = << >> THEN 0 ELSE Weight(Head(items)) + Weights(Tail(items))

(* the final zero counts as white space, and is then stepped back to *)
buffer_skip_whitespace(b) ==
    LET next == {i \in b.offset..(Len(b.text) - 1) : b.text[i + 1] > 32}
    IN  [b EXCEPT !.offset = IF next = {} THEN Len(b.text) - 1 ELSE CHOOSE i \in next : \A j \in next : i <= j]

skip_utf8_bom(b) ==
    IF 4 < Len(b.text) /\ SubSeq(b.text, 1, 3) = <<239, 187, 191>> THEN Move(b, 3) ELSE b

HexDigit(c) == IF c \in 48..57 THEN c - 48 ELSE IF c \in 65..70 THEN c - 55 ELSE IF c \in 97..102 THEN c - 87 ELSE -1
parse_hex4(t, i) ==
    IF \E k \in 0..3 : HexDigit(t[i + k]) = -1 THEN 0
    ELSE 4096 * HexDigit(t[i]) + 256 * HexDigit(t[i + 1]) + 16 * HexDigit(t[i + 2]) + HexDigit(t[i + 3])

(* the bytes of the code point of one or two \uXXXX and how long they are;   *)
(* used = 0 is a failure.  t[i] is the backslash, t[end] the closing quote.  *)
EncodeUtf8(c) ==
    CASE c < 128 -> <<c>>
      [] c \in 128..2047 -> <<192 + (c \div 64), 128 + (c % 64)>>
      [] c \in 2048..65535 -> <<224 + (c \div 4096), 128 + ((c \div 64) % 64), 128 + (c % 64)>>
      [] OTHER -> <<240 + (c \div 262144), 128 + ((c \div 4096) % 64), 128 + ((c \div 64) % 64), 128 + (c % 64)>>

PairToUtf8(t, i, end, first, second) ==
    LET none == [used |-> 0, out |-> << >>]
    IN  IF end - i < 6 \/ first \in 56320..57343 THEN none
        ELSE IF first \notin 55296..56319 THEN [used |-> 6, out |-> EncodeUtf8(first)]
        ELSE IF end - i < 12 \/ t[i + 6] # Backslash \/ t[i + 7] # LetterU THEN none
        ELSE IF second \notin 56320..57343 THEN none
        ELSE [used |-> 12, out |-> EncodeUtf8(65536 + ((first % 1024) * 1024) + (second % 1024))]
utf16_literal_to_utf8(t, i, end) == PairToUtf8(t, i, end, parse_hex4(t, i + 2), parse_hex4(t, i + 8))

(* the string up to the quote at `end`: what is unescaped, and where it stops *)
RECURSIVE Unescape(_, _, _, _)
Unescape(t, i, end, out) ==
    IF i >= end THEN [ok |-> TRUE, at |-> i, out |-> out]
    ELSE IF t[i] # Backslash THEN Unescape(t, i + 1, end, Append(out, t[i]))
    ELSE IF t[i + 1] = LetterU THEN
         LET u == utf16_literal_to_utf8(t, i, end)
         IN  IF u.used = 0 THEN [ok |-> FALSE, at |-> i, out |-> out]
             ELSE Unescape(t, i + u.used, end, out \o u.out)
    ELSE IF t[i + 1] = 47 THEN Unescape(t, i + 2, end, Append(out, 47))
    ELSE IF \E e \in Escapes : e[2] = t[i + 1] THEN
         Unescape(t, i + 2, end, Append(out, (CHOOSE e \in Escapes : e[2] = t[i + 1])[1]))
    ELSE [ok |-> FALSE, at |-> i, out |-> out]

(* the C string in an array of bytes ends before the first zero *)
CString(s) ==
    IF 0 \in ToSet(s) THEN SubSeq(s, 1, (CHOOSE i \in DOMAIN s : s[i] = 0 /\ \A j \in 1..(i - 1) : s[j] # 0) - 1)
    ELSE s

(* the escapes that the measuring loop passes, each saving a byte *)
RECURSIVE Skipped(_, _, _)
Skipped(t, i, end) ==
    IF i >= end THEN 0
    ELSE IF t[i] = Backslash THEN 1 + Skipped(t, i + 2, end) ELSE Skipped(t, i + 1, end)

(* the unescaped bytes u in a new block of `room` bytes *)
Copied(b, end, u, room) ==
    LET got == [Allocated(b) EXCEPT !.overrun = @ \/ Len(u.out) + 1 > room]
    IN  IF u.ok THEN Done([got EXCEPT !.offset = end], Leaf("string", CString(u.out)))
        ELSE Fail([got EXCEPT !.live = @ - 1, !.offset = u.at - 1])

(* the string that starts at the offset and is closed at `end` *)
Quoted(b, end) ==
    IF At(b) # Quote \/ end = 0 \/ b.left = 0 THEN Fail(Move(b, 1))
    ELSE Copied(b, end, Unescape(b.text, b.offset + 2, end, << >>),
                end - b.offset - Skipped(b.text, b.offset + 2, end))

parse_string(b) == Quoted(b, StringEnd(b.text, b.offset + 2))

(* the digits that strtod accepts: the longest number at the offset *)
NumberBytes == {43, 45, 46, 69, 101} \cup 48..57
strtod(s) ==
    LET Numeric(k) == \E n \in 0..1 : (n = 1 => s[1] = 45) /\ k > n /\ \A j \in (n + 1)..k : s[j] \in 48..57
        ends == {k \in 1..Len(s) : Numeric(k)}
    IN  IF ends = {} THEN 0 ELSE CHOOSE k \in ends : \A j \in ends : j <= k
parse_number(b) ==
    LET rest == SubSeq(b.text, b.offset + 1, Len(b.text))
        stops == {k \in DOMAIN rest : rest[k] \notin NumberBytes \/ k > 63}
        copied == SubSeq(rest, 1, (CHOOSE k \in stops : \A j \in stops : k <= j) - 1)
        used == strtod(copied)
    IN  IF used = 0 THEN Fail(b) ELSE Done(Move(b, used), Leaf("number", SubSeq(copied, 1, used)))

RECURSIVE parse_value(_), ParseItems(_, _, _), parse_box(_, _)

StartsWith(b, word) == SubSeq(b.text, b.offset + 1, b.offset + Len(word)) = word
CanRead(b, n) == b.offset + n <= Len(b.text)

parse_value(b) ==
    LET words == {k \in {"null", "true", "false"} : CanRead(b, Len(Literal(k))) /\ StartsWith(b, Literal(k))}
    IN  IF words # {} THEN
           LET k == CHOOSE k \in words : TRUE IN Done(Move(b, Len(Literal(k))), Leaf(k, << >>))
        ELSE IF ~Accessible(b) THEN Fail(b)
        ELSE IF At(b) = Quote THEN parse_string(b)
        ELSE IF At(b) = 45 \/ At(b) \in 48..57 THEN parse_number(b)
        ELSE IF At(b) = Open("array") THEN parse_box(b, "array")
        ELSE IF At(b) = Open("object") THEN parse_box(b, "object")
        ELSE Fail(b)

(* parse_array and parse_object delete their list when they fail *)
Abandon(b, items) == Fail([b EXCEPT !.live = @ - Weights(items)])

Fresh == Leaf("invalid", << >>)

(* behind an item: another one, or the end of the box *)
BehindItem(b, kind, items) ==
    IF At(b) = Comma THEN ParseItems(b, kind, items)
    ELSE IF At(b) # Close(kind) THEN Abandon(b, items)
    ELSE Done(Move([b EXCEPT !.depth = @ - 1], 1), Box(kind, items))

(* the value v has been read into the item *)
WithValue(v, kind, items, item) ==
    IF ~v.ok THEN Abandon(v.b, Append(items, item))
    ELSE BehindItem(buffer_skip_whitespace(v.b), kind,
                    Append(items, [v.v EXCEPT !.named = item.named, !.key = item.key]))

(* a member's name has been read: a colon, then the value *)
BehindName(b, items, member) ==
    IF At(b) # Colon THEN Abandon(b, Append(items, member))
    ELSE WithValue(parse_value(buffer_skip_whitespace(Move(b, 1))), "object", items, member)
WithName(name, items) ==
    IF ~name.ok THEN Abandon(name.b, Append(items, Fresh))
    ELSE BehindName(buffer_skip_whitespace(name.b), items, Member(name.v.text, Fresh))

(* the loop over the items: an item is allocated, in an object its name is   *)
(* read, then its value                                                      *)
ParseItems(b, kind, items) ==
    LET start == buffer_skip_whitespace(Move(Allocated(b), 1))
    IN  IF b.left = 0 THEN Abandon(b, items)
        ELSE IF kind = "object" THEN WithName(parse_string(start), items)
        ELSE WithValue(parse_value(start), kind, items, Fresh)

(* the first byte inside the box *)
Inside(b, kind) ==
    IF At(b) = Close(kind) THEN Done(Move([b EXCEPT !.depth = @ - 1], 1), Box(kind, << >>))
    ELSE ParseItems(Move(b, -1), kind, << >>)
Entered(b) == buffer_skip_whitespace(Move([b EXCEPT !.depth = @ + 1], 1))

parse_box_deeper(b, kind) ==
    IF b.depth > CJSON_NESTING_LIMIT THEN Fail(b) ELSE Inside(Entered(b), kind)

(* parse_array and parse_object *)
parse_box(b, kind) ==
    IF b.depth >= CJSON_NESTING_LIMIT THEN Fail(b) ELSE Inside(Entered(b), kind)

Refused(b, live) ==
    [ok |-> FALSE, v |-> Fresh, live |-> live, overrun |-> b.overrun,
     position |-> IF Accessible(b) THEN b.offset ELSE Len(b.text) - 1]

(* the outcome r of the root, with the input behind it when it must end there *)
Parsed(r, after, require_null_terminated) ==
    IF ~r.ok THEN Refused(r.b, r.b.live - 1)
    ELSE IF require_null_terminated /\ At(after) # 0 THEN Refused(after, r.b.live - Weight(r.v))
    ELSE [ok |-> TRUE, v |-> r.v, live |-> r.b.live, overrun |-> r.b.overrun, position |-> r.b.offset]
RootParsed(r, require_null_terminated) ==
    Parsed(r, buffer_skip_whitespace(r.b), require_null_terminated)

cJSON_ParseWithOpts(bytes, require_null_terminated, left) ==
    LET b == [text |-> Append(bytes, 0), offset |-> 0, depth |-> 0, left |-> left, live |-> 0, overrun |-> FALSE]
    IN  IF left = 0 THEN Refused(b, 0)
        ELSE RootParsed(parse_value(buffer_skip_whitespace(skip_utf8_bom(Allocated(b)))),
                        require_null_terminated)

-----------------------------------------------------------------------------
(* A caller that prints its item, sends the text and parses what arrives *)

None == [done |-> FALSE]
Text(text, of, format, minified, units) ==
    [done |-> TRUE, text |-> text, of |-> of, format |-> format, minified |-> minified, units |-> units]
Outcome(p, size, format, left) ==
    [done |-> TRUE, ok |-> p.ok, out |-> p.out, overrun |-> p.overrun,
     size |-> size, format |-> format, left |-> left]

(* a string of \uXXXX escapes, perhaps behind a byte order mark *)
EscapedUnits(units, bom) ==
    (IF bom THEN <<239, 187, 191>> ELSE << >>) \o <<Quote>>
    \o FlattenSeq([i \in DOMAIN units |->
         <<Backslash, LetterU>> \o [k \in 1..4 |-> Hex((units[i] \div 16^(4 - k)) % 16)]])
    \o <<Quote>>

(* into a buffer that grows: print, or cJSON_PrintBuffered of some size *)
PrintGrowing(format, left) ==
    /\ ~printed.done /\ ~wire.done
    /\ \/ printed' = Outcome(print(value, format, left), -1, format, left)
       \/ \E size \in Sizes :
            printed' = Outcome(cJSON_PrintBuffered(value, size, format, left), -1, format, left)
    /\ UNCHANGED <<value, wire, result>>

PrintPreallocated(size, format) ==
    /\ ~printed.done /\ ~wire.done
    /\ printed' = Outcome(cJSON_PrintPreallocated(value, size, format), size, format, 0)
    /\ UNCHANGED <<value, wire, result>>

Send(minify) ==
    /\ printed.done /\ printed.ok
    /\ wire' = Text(IF minify THEN cJSON_Minify(printed.out) ELSE printed.out, <<value>>,
                    printed.format, minify, << >>)
    /\ printed' = None /\ UNCHANGED <<value, result>>

(* parse the first n bytes *)
Parse(n, strict, left) ==
    /\ ~result.done
    /\ result' = [done |-> TRUE, n |-> n, left |-> left,
                  r |-> cJSON_ParseWithOpts(SubSeq(wire.text, 1, n), strict, left)]
    /\ UNCHANGED <<value, printed, wire>>

Again ==
    /\ printed.done \/ result.done
    /\ printed' = None /\ wire' = None /\ result' = None /\ UNCHANGED value

Init ==
    /\ printed = None /\ result = None
    /\ \/ value \in Values /\ wire = None
       \/ /\ value = Leaf("null", << >>)
          /\ \E units \in Units, bom \in BOOLEAN :
               wire = Text(EscapedUnits(units, bom), << >>, FALSE, FALSE, units)

Next ==
    \/ \E format \in BOOLEAN, left \in Mallocs : PrintGrowing(format, left)
    \/ \E format \in BOOLEAN, size \in Sizes : PrintPreallocated(size, format)
    \/ \E minify \in BOOLEAN : Send(minify)
    \/ /\ wire.done
       /\ \E n \in 0..Len(wire.text), strict \in BOOLEAN, left \in Mallocs : Parse(n, strict, left)
    \/ Again

Spec == Init /\ [][Next]_vars

-----------------------------------------------------------------------------
(* Properties *)

(* the text of an item, defined without a buffer *)
RECURSIVE Render(_, _, _)
Render(v, depth, format) ==
    LET Str(t) == <<Quote>> \o FlattenSeq([i \in DOMAIN t |-> Escaped(t[i])]) \o <<Quote>>
        n == Len(v.items)
        Element(i) == Render(v.items[i], depth + 1, format)
                      \o (IF i = n THEN << >> ELSE IF format THEN <<Comma, Space>> ELSE <<Comma>>)
        MemberText(i) ==
            (IF format THEN Tabs(depth + 1) ELSE << >>) \o Str(v.items[i].key)
            \o (IF format THEN <<Colon, Tab>> ELSE <<Colon>>) \o Render(v.items[i], depth + 1, format)
            \o (IF i = n THEN << >> ELSE <<Comma>>) \o (IF format THEN <<NewLine>> ELSE << >>)
    IN  CASE v.kind \in {"null", "true", "false"} -> Literal(v.kind)
          [] v.kind = "number" -> IF v.text = << >> THEN Literal("null") ELSE v.text
          [] v.kind = "raw" -> v.text
          [] v.kind = "string" -> Str(v.text)
          [] v.kind = "array" -> <<91>> \o FlattenSeq([i \in 1..n |-> Element(i)]) \o <<93>>
          [] v.kind = "object" ->
               <<123>> \o (IF format THEN <<NewLine>> ELSE << >>) \o FlattenSeq([i \in 1..n |-> MemberText(i)])
               \o (IF format THEN Tabs(depth) ELSE << >>) \o <<125>>

Plenty == CHOOSE m \in Mallocs : \A k \in Mallocs : k <= m

(* The room the print functions ask for with ensure is always what they      *)
(* then write: no byte, the final zero included, is written behind the       *)
(* buffer, and no string is unescaped into more than parse_string allocated. *)
StaysInside == (printed.done => ~printed.overrun) /\ (result.done => ~result.r.overrun)

(* Growing the buffer loses and repeats nothing: a print that succeeds has   *)
(* written the rendering of the item, from whatever size it started, and     *)
(* only a failed allocation makes it fail.                                   *)
PrintIsRendering ==
    printed.done =>
        /\ printed.ok => printed.out = Render(value, 0, printed.format)
        /\ printed.size = -1 /\ printed.left = Plenty => printed.ok

(* cJSON_PrintPreallocated succeeds exactly when the buffer holds the text,  *)
(* its zero and one byte more; the five spare bytes that cjson.h advises are *)
(* always enough.                                                            *)
PreallocatedNeed ==
    printed.done /\ printed.size >= 0 =>
        (printed.ok <=> printed.size >= Len(Render(value, 0, printed.format)) + 2)

(* What the print functions promise: the three properties above together     *)
(* (print, print_value, cJSON_PrintPreallocated).                            *)
PrintingIsExact == StaysInside /\ PrintIsRendering /\ PreallocatedNeed

(* the item with the comments taken out of its raw texts, if none has a line *)
(* comment that goes on behind it                                            *)
RECURSIVE Strippable(_), Stripped(_)
Strippable(v) == (v.kind = "raw" => v.text \in DOMAIN Bare) /\ \A i \in DOMAIN v.items : Strippable(v.items[i])
Stripped(v) == [v EXCEPT !.text = IF v.kind = "raw" THEN Bare[@] ELSE @,
                         !.items = [i \in DOMAIN @ |-> Stripped(@[i])]]

(* cJSON_Minify undoes the formatting, takes the comments out of raw texts   *)
(* and does only that: white space and what looks like a comment stay inside *)
(* strings.  A raw text with a line comment that it does not end itself is   *)
(* the exception: what follows on the line goes too.                         *)
MinifyUnformats ==
    wire.done /\ wire.of # << >> =>
        LET v == wire.of[1]
        IN  IF ~wire.minified THEN wire.text = Render(v, 0, wire.format)
            ELSE Strippable(v) => wire.text = Render(Stripped(v), 0, FALSE)

RECURSIVE Depth(_), Readable(_), AsRead(_)
Depth(v) == IF v.items = << >> THEN (IF v.kind \in {"array", "object"} THEN 1 ELSE 0)
            ELSE 1 + Max({Depth(v.items[i]) : i \in DOMAIN v.items})
Readable(v) == v.kind # "raw" /\ \A i \in DOMAIN v.items : Readable(v.items[i])
AsRead(v) == IF v.kind = "number" /\ v.text = << >> THEN [v EXCEPT !.kind = "null"]
             ELSE [v EXCEPT !.items = [i \in DOMAIN @ |-> AsRead(@[i])]]

(* What was printed is read back as the same item, but for NaN and the       *)
(* infinities, which are read back as null, unless it is nested deeper than  *)
(* CJSON_NESTING_LIMIT; and a text that was cut short is refused (a number   *)
(* is the exception: its beginning is a number).                             *)
ParseUndoesPrint ==
    wire.done /\ wire.of # << >> /\ result.done =>
        LET v == wire.of[1]
            whole == result.n = Len(wire.text)
        IN  Readable(v) =>
              /\ whole /\ result.left = Plenty => (result.r.ok <=> Depth(v) <= CJSON_NESTING_LIMIT)
              /\ whole /\ result.r.ok => result.r.v = AsRead(v)
              /\ ~whole /\ AsRead(v).kind # "number" => ~result.r.ok

(* A parse that fails, wherever the text stops or memory runs out, has freed *)
(* all it allocated and points at a byte of the text; one that succeeds has  *)
(* allocated exactly the item it returns.                                    *)
FailureIsClean ==
    result.done =>
        /\ result.r.live = IF result.r.ok THEN Weight(result.r.v) ELSE 0
        /\ result.r.position \in 0..result.n

(* the code points of a sequence of UTF-16 units, and of a UTF-8 string *)
RECURSIVE FromUtf16(_), FromUtf8(_)
High(u) == u \in 55296..56319
Low(u) == u \in 56320..57343
WellFormed(us) == \A i \in DOMAIN us :
    /\ High(us[i]) => i < Len(us) /\ Low(us[i + 1])
    /\ Low(us[i]) => i > 1 /\ High(us[i - 1])
FromUtf16(us) ==
    IF us = << >> THEN << >>
    ELSE IF High(us[1]) THEN <<65536 + (us[1] - 55296) * 1024 + us[2] - 56320>> \o FromUtf16(SubSeq(us, 3, Len(us)))
    ELSE <<us[1]>> \o FromUtf16(Tail(us))
FromUtf8(s) ==
    LET Bits(i) == s[i] - 128
        n == IF s[1] < 128 THEN 1 ELSE IF s[1] < 224 THEN 2 ELSE IF s[1] < 240 THEN 3 ELSE 4
        c == CASE n = 1 -> s[1]
               [] n = 2 -> (s[1] - 192) * 64 + Bits(2)
               [] n = 3 -> (s[1] - 224) * 4096 + Bits(2) * 64 + Bits(3)
               [] n = 4 -> (s[1] - 240) * 262144 + Bits(2) * 4096 + Bits(3) * 64 + Bits(4)
    IN  IF s = << >> THEN << >> ELSE <<c>> \o FromUtf8(SubSeq(s, n + 1, Len(s)))

(* A string of \u escapes is accepted exactly when its surrogates are        *)
(* paired, and stands for the same code points in UTF-8, also behind a byte  *)
(* order mark (utf16_literal_to_utf8, skip_utf8_bom).                        *)
EscapesDecode ==
    wire.done /\ wire.units # << >> /\ result.done /\ result.left = Plenty /\ result.n = Len(wire.text) =>
        /\ result.r.ok <=> WellFormed(wire.units)
        /\ result.r.ok => FromUtf8(result.r.v.text) = FromUtf16(wire.units)

(* What cJSON_Minify and cJSON_ParseWithOpts promise: the four properties    *)
(* above together.                                                           *)
ReadingIsExact == MinifyUnformats /\ ParseUndoesPrint /\ FailureIsClean /\ EscapesDecode
=============================================================================
