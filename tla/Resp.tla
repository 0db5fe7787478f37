-------------------------------- MODULE Resp --------------------------------
(***************************************************************************)
(* The command classifier of aya-test/src/resp.rs and the buffer it reads: *)
(* the first bytes of what a tcp_recvmsg left in Redis's buffer, followed  *)
(* by what earlier calls left there.                                       *)
(*                                                                         *)
(* try_static returns the bytes it matches, so the static table and the    *)
(* allocated upper-case copy are one case here.  Integers are those of a   *)
(* release build; a debug build stops where an addition overflows.         *)
(***************************************************************************)
EXTENDS Integers, Sequences, SequencesExt, FiniteSetsExt

CONSTANTS
    Requests,    \* RESP requests: sequences of arguments, the name first
    Inlines,     \* what a client sends outside RESP, as bytes
    Width,       \* bytes in req_data
    UsizeMod,    \* 2^64: usize wraps, and parse refuses what exceeds it
    MaxReceives, \* bound: calls of tcp_recvmsg
    to_uppercase(_)  \* str::to_uppercase, on the UTF-8 bytes of a text

Byte == 0 .. 255

ASSUME RespConstants ==
    /\ \A r \in Requests : r \in Seq(Seq(Byte)) /\ r # <<>>
    /\ Inlines \subseteq Seq(Byte)
    /\ Width \in Nat /\ UsizeMod \in Nat /\ MaxReceives \in Nat
    /\ Width < UsizeMod

Nul == 0
Lf == 10
Cr == 13
Dollar == 36
Star == 42
Digit == 48 .. 57
Upper == 65 .. 90
Lower == 97 .. 122

Other == <<79, 84, 72, 69, 82>>

VARIABLES
    buf,         \* req_data as the probe reads it
    request,     \* the request that starts at buf[1]; <<>> if none does
    got,         \* how many bytes of it have been received
    rest,        \* bytes sent that no call has received yet
    receives     \* calls so far

vars == <<buf, request, got, rest, receives>>

-----------------------------------------------------------------------------
(* classify_command *)

\* make_ascii_uppercase.  Mutant: the bytes as they are.
UppercaseNot(s) == s
Uppercase(s) == [i \in DOMAIN s |-> IF s[i] \in Lower THEN s[i] - 32 ELSE s[i]]

\* Up to the first NUL.  Mutant: the whole array.
TextUncut(b) == b
Text(b) ==
    LET nuls == {i \in DOMAIN b : b[i] = Nul}
    IN IF nuls = {} THEN b ELSE SubSeq(b, 1, Min(nuls) - 1)

\* The position after the digits that start at i.
DigitEnd(d, i) == Min({k \in i .. Len(d) : d[k] \notin Digit} \cup {Len(d) + 1})

\* <byte>, at least one digit, CR LF.
IsHeader(d, i) ==
    LET e == DigitEnd(d, i + 1)
    IN /\ e > i + 1
       /\ e + 1 <= Len(d)
       /\ d[e] = Cr /\ d[e + 1] = Lf

\* The number that digits spell, UsizeMod if that is too large for usize.
Number(s) ==
    LET value[k \in 0 .. Len(s)] ==
            IF k = 0 THEN 0
            ELSE Min({10 * value[k - 1] + s[k] - 48, UsizeMod})
    IN value[Len(s)]

HeaderNumber(d, i) == Number(SubSeq(d, i + 1, DigitEnd(d, i + 1) - 1))

BodyStart(d, i) == DigitEnd(d, i + 1) + 2

\* cmd_end, exclusive: cmd_start + len may wrap.  Mutant: it keeps the CR.
BodyEndLate(d, i) ==
    Min({1 + ((BodyStart(d, i) + HeaderNumber(d, i)) % UsizeMod), Len(d) + 1})
BodyEnd(d, i) ==
    Min({1 + ((BodyStart(d, i) + HeaderNumber(d, i) - 1) % UsizeMod), Len(d) + 1})

Body(d, i) == SubSeq(d, BodyStart(d, i), BodyEnd(d, i) - 1)

\* A number that does not parse ends the scan (`ok()?`); a name with another
\* character than a letter, or none, is passed over.
TooLong(d, i) == HeaderNumber(d, i) >= UsizeMod

IsName(d, i) ==
    /\ BodyEnd(d, i) > BodyStart(d, i)
    /\ \A k \in DOMAIN Body(d, i) : Body(d, i)[k] \in Upper \cup Lower

\* The positions at which scan_resp_command returns; it returns at the first.
ScanEnds(d) ==
    {i \in DOMAIN d :
        d[i] = Dollar /\ IsHeader(d, i) /\ (TooLong(d, i) \/ IsName(d, i))}

ScanFinds(d) == ScanEnds(d) # {} /\ ~TooLong(d, Min(ScanEnds(d)))

\* How many bytes follow a lead byte in UTF-8, and which ones may come next.
Continuation == 128 .. 191
Trailing(b) ==
    CASE b \in 0 .. 127 -> 0
      [] b \in 194 .. 223 -> 1
      [] b \in 224 .. 239 -> 2
      [] b \in 240 .. 244 -> 3
      [] OTHER -> -1
Second(b) ==
    CASE b = 224 -> 160 .. 191
      [] b = 237 -> 128 .. 159
      [] b = 240 -> 144 .. 191
      [] b = 244 -> 128 .. 143
      [] OTHER -> Continuation

\* A character starts at i and has all its bytes.
CharAt(s, i) ==
    LET n == Trailing(s[i])
    IN /\ n >= 0 /\ i + n <= Len(s)
       /\ n > 0 => s[i + 1] \in Second(s[i])
       /\ \A k \in i + 1 .. i + n : s[k] \in Continuation

\* String::from_utf8 accepts s: every byte belongs to a character.
IsUtf8(s) ==
    \A i \in DOMAIN s :
        \E j \in Max({1, i - 3}) .. i : CharAt(s, j) /\ i <= j + Trailing(s[j])

\* The crate resp: an array of complete bulk strings at the start of the data.
\* Each becomes a String; one that is not UTF-8 fails the whole array.
AfterBulk(d, p) ==
    LET after == BodyStart(d, p) + HeaderNumber(d, p) + 2
    IN IF /\ p \in 1 .. Len(d) /\ d[p] = Dollar /\ IsHeader(d, p)
          /\ after <= Len(d) + 1
          /\ d[after - 2] = Cr /\ d[after - 1] = Lf
          /\ IsUtf8(SubSeq(d, BodyStart(d, p), after - 3))
       THEN after ELSE 0

\* Mutant: there is no fallback.
DecodesNever(d) == FALSE
Decodes(d) ==
    /\ d[1] = Star /\ IsHeader(d, 1) /\ HeaderNumber(d, 1) > 0
    /\ LET after[k \in 0 .. HeaderNumber(d, 1)] ==
               IF k = 0 THEN BodyStart(d, 1) ELSE AfterBulk(d, after[k - 1])
       IN after[HeaderNumber(d, 1)] # 0

\* Not the default.
IsRecognised(b) ==
    LET d == Text(b)
    IN Len(d) >= 4 /\ (ScanFinds(d) \/ Decodes(d))

classify_command(b) ==
    LET d == Text(b)
    IN IF ~IsRecognised(b) THEN Other
       ELSE IF ScanFinds(d) THEN Uppercase(Body(d, Min(ScanEnds(d))))
       ELSE to_uppercase(Body(d, BodyStart(d, 1)))

-----------------------------------------------------------------------------
(* The bytes a client sends, and what a receive leaves in the buffer         *)

Decimal(n) ==
    LET digits[k \in 0 .. n] ==
            IF k < 10 THEN <<48 + k>>
            ELSE Append(digits[k \div 10], 48 + (k % 10))
    IN digits[n]

Header(byte, n) == <<byte>> \o Decimal(n) \o <<Cr, Lf>>

Bulk(s) == Header(Dollar, Len(s)) \o s \o <<Cr, Lf>>

Encode(r) == Header(Star, Len(r)) \o FlattenSeq([i \in DOMAIN r |-> Bulk(r[i])])

\* Where a request's name starts, and where it ends.
NameStart(r) == Len(Header(Star, Len(r))) + Len(Header(Dollar, Len(r[1]))) + 1
NameEnd(r) == NameStart(r) + Len(r[1]) - 1

\* The protocol's limits, 1048576 arguments and 512 MB, make 22 bytes of headers.
ASSUME NamesInReach ==
    \A r \in Requests : NameStart(r) <= Width /\ Width + Len(r[1]) < UsizeMod

\* The bytes over those of earlier calls, as far as the probe's copy reaches.
\* Mutant: the copy is as long as what was received.
OverlaidLong(s) ==
    [i \in 1 .. Max({Width, Len(s)}) |-> IF i <= Len(s) THEN s[i] ELSE buf[i]]
Overlaid(s) == [i \in 1 .. Width |-> IF i <= Len(s) THEN s[i] ELSE buf[i]]

TypeOK ==
    /\ buf \in [1 .. Width -> Byte]
    /\ request \in Requests \cup {<<>>}
    /\ got \in Nat
    /\ rest \in Seq(Byte)
    /\ receives \in 0 .. MaxReceives

Init ==
    /\ buf = [i \in 1 .. Width |-> Nul]
    /\ request = <<>>
    /\ got = 0
    /\ rest = <<>>
    /\ receives = 0

\* tcp_recvmsg returns the first n of the bytes s; r starts with them.
Received(s, n, r) ==
    /\ receives < MaxReceives
    /\ receives' = receives + 1
    /\ buf' = Overlaid(SubSeq(s, 1, n))
    /\ rest' = SubSeq(s, n + 1, Len(s))
    /\ request' = r
    /\ got' = IF r = <<>> THEN 0 ELSE n

\* A request arrives, in one piece or in part.
receive_request(r) ==
    /\ rest = <<>>
    /\ \E n \in 1 .. Len(Encode(r)) : Received(Encode(r), n, r)

\* The rest of it, into a buffer of its own.
receive_rest ==
    /\ rest # <<>>
    /\ Received(rest, Len(rest), <<>>)

receive_inline(s) ==
    /\ rest = <<>>
    /\ Received(s, Len(s), <<>>)

Next ==
    \/ \E r \in Requests : receive_request(r)
    \/ receive_rest
    \/ \E s \in Inlines : receive_inline(s)

Spec == Init /\ [][Next]_vars

-----------------------------------------------------------------------------
(* Properties *)

\* A request whose name is made of letters is counted under that name in upper
\* case, as far as the name fits in the buffer, once the name has been
\* received: neither arguments nor bytes of earlier requests interfere.
LettersNamed ==
    /\ request # <<>> /\ request[1] # <<>>
    /\ \A k \in DOMAIN request[1] : request[1][k] \in Upper \cup Lower
    /\ got >= Min({NameEnd(request), Width})
    => classify_command(buf) =
          Uppercase(SubSeq(request[1], 1,
                       Len(request[1]) - (Max({NameEnd(request), Width}) - Width)))

\* A request of UTF-8 texts without NUL that fits in the buffer and has been
\* received does not end in the default, OTHER, whatever characters its name
\* has: the decoder takes what the scan passes over.  It refuses the request if
\* any argument is not UTF-8, and Redis's arguments may be any bytes.
NeverOther ==
    /\ request # <<>>
    /\ \A k \in DOMAIN request :
          Nul \notin Range(request[k]) /\ IsUtf8(request[k])
    /\ Len(Encode(request)) <= got /\ got <= Width
    => IsRecognised(buf)
=============================================================================
