----------------------------- MODULE MCHttpServer -----------------------------
(* Requests with and without body, for both versions, one after the other  *)
(* on a connection, and lines that are no requests; a buffer of six units, *)
(* which one request fits and two do not.                                  *)
EXTENDS HttpServer

Get == <<Http11, "crlf", "crlf">>
GetHeader == <<Http11, "crlf", "header", "crlf", "crlf">>
GetClose == <<Http11, "crlf", "header", "crlf", "close", "crlf", "crlf">>
Get10 == <<Http10, "crlf", "crlf">>
Get10Keep == <<Http10, "crlf", "keep", "crlf", "crlf">>
Post == <<Http11, "crlf", "crlf", "text">>
Noise == <<"text", "crlf">>

MCStreams ==
    {GetHeader \o Get \o GetClose, Get10Keep \o GetHeader \o Get10, Post \o Get \o Get,
     GetClose \o Get, Get \o Noise \o Get, Get \o GetHeader \o GetHeader,
     GetHeader \o GetHeader \o Post}
=============================================================================
