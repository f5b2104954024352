---------------------------- MODULE MCHttp1Codec ----------------------------
EXTENDS Http1Codec

Message(head, body, host, good) == [head |-> Append(head, End), body |-> body, host |-> host, good |-> good]
D == Byte("d")
Size(n) == <<Byte(n), CR, LF>>
Get == Line("GET", FALSE)
Host == Field("host", "h:80")
Identity == Field("transfer-encoding", "identity")
Chunked == Field("transfer-encoding", "chunked")
CL(n) == Field("content-length", n)

Good == {
    Message(<<Get, Host>>, << >>, "h", TRUE),
    Message(<<Line("GET", TRUE), Host, CL("0")>>, << >>, "target", TRUE),
    (* bodies that look like requests and like line ends *)
    Message(<<Line("POST", FALSE), CL("3"), Identity, CL("3")>>, <<Get, CR, LF>>, "", TRUE)}
ChunkedGood ==
    Message(<<Line("PUT", FALSE), Chunked>>, Size("2") \o <<CR, LF, CR, LF>> \o <<Byte("1"), Byte(";"), D, CR, LF, D, CR, LF>>
                                             \o Size("0") \o <<D, CR, LF, CR, LF>>, "", TRUE)
Bad == {
    Message(<<D, Host>>, << >>, "", FALSE),
    Message(<<Get, Host, Host, Host, Host>>, << >>, "", FALSE),
    Message(<<Get, CL("1"), CL("2")>>, << >>, "", FALSE),
    Message(<<Get, CL("-1")>>, << >>, "", FALSE),
    Message(<<Get, CL("1"), Chunked>>, << >>, "", FALSE),
    Message(<<Line("PUT", FALSE), Chunked>>, Size("x"), "", FALSE),
    Message(<<Line("PUT", FALSE), Chunked>>, Size("1") \o <<D, D, CR, LF>>, "", FALSE)}

(* three good messages, or a bad one before or between good ones *)
MCScripts == {<<a, b, c>> : a, c \in Good, b \in Good \cup Bad \cup {ChunkedGood}}
             \cup {<<ChunkedGood, b, ChunkedGood>> : b \in Good}
             \cup {<<a, b>> : a \in Bad, b \in Good \cup {ChunkedGood}}
=============================================================================
