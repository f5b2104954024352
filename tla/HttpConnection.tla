--------------------------- MODULE HttpConnection ---------------------------
(***************************************************************************)
(* What http::Connection::onData does with the payload of one packet: the  *)
(* protocol inspector that runs until a codec exists, then the HTTP/1      *)
(* codec that accumulates header bytes (http/connection.cc,                *)
(* http/http_inspector.cc, crates/http1_codec).  HTTP/2 and message bodies *)
(* are left out.                                                           *)
(*                                                                         *)
(* A payload is one piece of a request header: the whole header, a stub    *)
(* that ends inside the request line, a head that ends after the request   *)
(* line, or the tail that follows a stub or a head.  onData yields the set *)
(* of possible results, because a split header may break anywhere and      *)
(* because a stub is kept by the code as a pointer into a packet buffer    *)
(* that is freed before the next packet.                                   *)
(***************************************************************************)
EXTENDS Naturals

CONSTANTS
  Headers,    \* the request headers that the HTTP rules tell apart
  NoHeader    \* no header was completed

Payload == [part : {"whole", "stub", "head", "tail"}, hdr : Headers]

(***************************************************************************)
(* inspect  no codec yet, nothing received                                 *)
(* stub     no codec yet, the inspector asked for more                     *)
(* wedged   no codec, and llhttp keeps returning its first error           *)
(* headers  codec created, its buffer is empty                             *)
(* partial  codec created, it holds the beginning of the header hdr        *)
(***************************************************************************)
Conn == [at : {"inspect", "stub", "wedged", "headers", "partial"},
         hdr : Headers \cup {NoHeader}]

NewConn == [at |-> "inspect", hdr |-> NoHeader]

Headless(at) == [at |-> at, hdr |-> NoHeader]
Partial(h) == [at |-> "partial", hdr |-> h]

Result(conn, header) == [conn |-> conn, header |-> header]
Results == [conn : Conn, header : Headers \cup {NoHeader}]

\* Changed: an incomplete header is not kept for the next packet.
dispatchForgets(conn, d) ==
  {Result(Headless("headers"), IF d.part = "whole" THEN d.hdr ELSE NoHeader)}

\* Http1Parser::dispatch: an error clears the buffer and expects new headers.
dispatch(conn, d) ==
  CASE conn.at = "headers" /\ d.part = "whole" ->
         {Result(Headless("headers"), d.hdr)}
    [] conn.at = "headers" /\ d.part \in {"stub", "head"} ->
         {Result(Partial(d.hdr), NoHeader)}
    [] conn.at = "headers" /\ d.part = "tail" ->
         {Result(Headless("headers"), NoHeader)}
    [] conn.at = "partial" /\ d.part = "tail" ->
         {Result(Headless("headers"), conn.hdr)}
    [] conn.at = "partial" /\ d.part = "whole" ->
         {Result(Headless("headers"), NoHeader), Result(Headless("headers"), conn.hdr)}
    [] OTHER ->
         {Result(Headless("headers"), NoHeader), Result(conn, NoHeader)}

\* HttpInspector::parseHttpHeader on the first payload of a connection.
inspect(d) ==
  CASE d.part \in {"whole", "head"} -> dispatch(Headless("headers"), d)
    [] d.part = "stub" -> {Result([at |-> "stub", hdr |-> d.hdr], NoHeader)}
    [] d.part = "tail" -> {Result(Headless("wedged"), NoHeader),
                           Result(Headless("inspect"), NoHeader)}

(***************************************************************************)
(* The payload after a stub: an inspector error, or the codec is created   *)
(* and fed the stub, whose memory may hold anything by now, and then this  *)
(* payload.                                                                *)
(***************************************************************************)
afterStub(conn, d) ==
  {Result(conn, NoHeader), Result(Headless("wedged"), NoHeader)}
    \cup {Result(c, h) : c \in {Headless("headers")} \cup {Partial(g) : g \in Headers},
                         h \in Headers \cup {NoHeader}}

onData(conn, d) ==
  CASE conn.at = "inspect" -> inspect(d)
    [] conn.at = "stub"    -> afterStub(conn, d)
    [] conn.at = "wedged"  -> {Result(conn, NoHeader)}
    [] conn.at \in {"headers", "partial"} -> dispatch(conn, d)
=============================================================================
