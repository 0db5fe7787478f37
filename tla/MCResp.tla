------------------------------- MODULE MCResp -------------------------------
(* Resp for TLC.  The names: "get", "PING", "sort_ro", "json.get", and one   *)
(* of 24 letters.  The arguments: a letter, letters, "k:1", a NUL, "é" in     *)
(* UTF-8, and bytes that are no text: a stray lead byte, half a character.    *)
EXTENDS Resp

Get == <<103, 101, 116>>
Ping == <<80, 73, 78, 71>>
SortRo == <<115, 111, 114, 116, 95, 114, 111>>
JsonGet == <<106, 115, 111, 110, 46, 103, 101, 116>>
LongName == [i \in 1 .. 24 |-> 97]
KeyA == <<97>>
KeyUser == <<117, 115, 101, 114>>
KeyK1 == <<107, 58, 49>>
KeyNul == <<0>>
KeyE == <<195, 169>>
KeyStray == <<255>>
KeyHalf == <<97, 226, 130>>

MCRequests ==
    {<<Ping>>, <<Get, KeyA>>, <<Get, KeyUser>>, <<Get, KeyNul>>, <<SortRo>>,
     <<SortRo, KeyUser>>, <<JsonGet, KeyK1>>, <<LongName>>, <<LongName, KeyA>>,
     <<JsonGet, KeyE>>, <<JsonGet, KeyStray>>, <<JsonGet, KeyHalf>>}

\* The names in them are ASCII.
MCToUppercase(s) == Uppercase(s)

\* "PING" and CR LF; text with a number that is too long, and with one that
\* makes usize wrap.
MCInlines ==
    {Ping \o <<Cr, Lf>>,
     <<120, 32, 36, 57, 57, 57, 57, 57>> \o <<Cr, Lf>> \o KeyUser,
     <<120, 32, 36, 54, 53, 53, 51, 53>> \o <<Cr, Lf>> \o KeyUser}
=============================================================================
