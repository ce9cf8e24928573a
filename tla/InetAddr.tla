------------------------------ MODULE InetAddr -------------------------------
(***************************************************************************)
(* InetAddr: the constructors that read an address from text, the           *)
(* conversions back to text, and the number parsing of string_view_util     *)
(* with the conversions of optional underneath.  A text is a sequence of    *)
(* characters, the digits being the numbers 0..9.  Widths are small: a port *)
(* has PortMod values in two bytes, a uint32_t U32Mod, an unsigned long     *)
(* ULongMod.                                                                *)
(***************************************************************************)
EXTENDS Integers, Sequences, SequencesExt, FiniteSetsExt, Folds

CONSTANTS
  Byte,      \* the values of a byte
  U32Mod,    \* the values of uint32_t, a multiple of Byte * Byte
  ULongMod,  \* the values of unsigned long, a multiple of U32Mod
  BufSize,   \* the static buffer of StringViewToU32()
  MaxHead,   \* bound: what precedes the separator of an input
  MaxTail    \* bound: what follows it

VARIABLE text  \* the argument of InetAddr(StringView)

Digit == 0..9
Dot == 10
Colon == 11
Star == 12
Open == 13
Close == 14
Letter == 15
Minus == 16
Nul == 17

npos == -1

PortMod == Byte * Byte

\* What a constructor or conversion that does not return a value does instead.
Throw == [kind |-> "throw"]
Abort == [kind |-> "abort"]

Found(t, c) == IF \E i \in DOMAIN t : t[i] = c
               THEN Min({i \in DOMAIN t : t[i] = c}) - 1 ELSE npos

Prefix(t, n) == SubSeq(t, 1, n)

Rest(t, n) == SubSeq(t, n + 1, Len(t))

first(t) == IF t = <<>> THEN Nul ELSE t[1]

isalpha(c) == c = Letter

isalnum(c) == c \in Digit \cup {Letter}

Value(digits) == FoldLeft(LAMBDA v, d : 10 * v + d, 0, digits)

\* strtoul(): the value of the number the text starts with, and whether it has one.
strtoul(t) ==
  LET body == IF first(t) = Minus THEN Tail(t) ELSE t
      n == Max({k \in 0..Len(body) : \A i \in 1..k : body[i] \in Digit})
      v == Value(Prefix(body, n))
  IN  [ret |-> IF v >= ULongMod THEN ULongMod - 1
               ELSE IF first(t) = Minus THEN (ULongMod - v) % ULongMod ELSE v,
       any |-> n > 0]

\* optional<T>: a value, or none.
None == [kind |-> "none"]

Some(v) == [kind |-> "some", val |-> v]

\* The assertion on the size, the narrowing to 32 bits, and the test for no digits.
StringViewToU32(t) ==
  LET ret == strtoul(t).ret % U32Mod
  IN  IF Len(t) >= BufSize THEN Abort
      ELSE IF ret = 0 /\ ~strtoul(t).any THEN None ELSE Some(ret)

\* The converting constructor: value() of the other asserts has_value() (without
\* assertions the none is passed on, and the callers throw).
ToOptional(other, width) ==
  IF other.kind = "some" THEN Some(other.val % width) ELSE Abort

StringViewToU16(t) == ToOptional(StringViewToU32(t), PortMod)

\* The bytes of a port swapped, on a little-endian machine.
ToNetworkByteOrder16(p) == (p % Byte) * Byte + (p \div Byte)

ToHostByteOrder16(p) == ToNetworkByteOrder16(p)

\* What inet_pton() accepts: a digit, a dot, a digit; hexadecimal with a double colon,
\* which may end in an IPv4 address.
IsIp4(ip) == Len(ip) = 3 /\ ip[1] \in Digit /\ ip[2] = Dot /\ ip[3] \in Digit

IsHex6(ip) ==
  /\ \A i \in DOMAIN ip : ip[i] \in Digit \cup {Letter, Colon}
  /\ Cardinality({i \in 2..Len(ip) : ip[i - 1] = Colon /\ ip[i] = Colon}) = 1

IsDotted6(ip) ==
  \E n \in DOMAIN ip : ip[n] = Colon /\ IsHex6(Prefix(ip, n)) /\ IsIp4(Rest(ip, n))

IsIp6(ip) == IsHex6(ip) \/ IsDotted6(ip)

\* The two FromIpPort(): LOG_SYSFATAL aborts on a text that is no ip.
FromIpPort4(ip, port) ==
  IF IsIp4(ip) THEN [kind |-> "v4", ip |-> ip, port |-> ToNetworkByteOrder16(port)] ELSE Abort

FromIpPort6(ip, port) ==
  IF IsIp6(ip) THEN [kind |-> "v6", ip |-> ip, port |-> ToNetworkByteOrder16(port)] ELSE Abort

INADDR_ANY == <<0, Dot, 0>>
INADDR_LOOPBACK == <<1, Dot, 1>>
in6addr_any == <<Colon, Colon>>
in6addr_loopback == <<Colon, Colon, 1>>

\* An IPv4 address as an IPv6 one, "::ffff:1.2.3.4", which inet_ntop() prints with dots.
mapped == <<Colon, Colon, 1, Dot, 0>>

\* InetAddr(port, loopback, v6).
InetAddrOfPort(port, loopback, v6) ==
  [kind |-> IF v6 THEN "v6" ELSE "v4",
   port |-> ToNetworkByteOrder16(port),
   ip |-> IF v6 THEN IF loopback THEN in6addr_loopback ELSE in6addr_any
          ELSE IF loopback THEN INADDR_LOOPBACK ELSE INADDR_ANY]

\* InetAddr(ip, port): the text "This is invalid ip argument" it throws an InetAddr of is
\* no address, so the exception is the one of that constructor.
InetAddrOfIp(ip, port) ==
  IF Found(ip, Dot) # npos THEN FromIpPort4(ip, port)
  ELSE IF Found(ip, Colon) # npos THEN FromIpPort6(ip, port)
  ELSE Throw

\* InetAddr(hostname, service): the first address of getaddrinfo().
InetAddrOfHost(hostname, service) == [kind |-> "host", ip |-> hostname, port |-> service]

\* if (o_port): an abort of the conversion comes first.
WithPort(o_port, addr) ==
  CASE o_port.kind = "some" -> addr
    [] o_port.kind = "none" -> Throw
    [] o_port.kind = "abort" -> Abort

\* substr(right_pos + 2) of a text that ends there or earlier: beyond the end the length
\* wraps around, and the assertion of StringViewToU32() fails.
PortAfter(addr, right_pos) ==
  IF right_pos + 2 > Len(addr) THEN Abort ELSE StringViewToU16(Rest(addr, right_pos + 2))

\* InetAddr(address).
InetAddrOfText(addr) ==
  LET colon_pos == Found(addr, Colon)
      right_pos == Found(addr, Close)
  IN  IF isalpha(first(addr)) THEN
        IF colon_pos = npos THEN Throw
        ELSE InetAddrOfHost(Prefix(addr, colon_pos), Rest(addr, colon_pos + 1))
      ELSE IF (isalnum(first(addr)) /\ Found(addr, Dot) # npos) \/ first(addr) = Star THEN
        IF colon_pos = npos THEN Throw
        ELSE LET given == Prefix(addr, colon_pos)
                 ip == IF given = <<Star>> THEN INADDR_ANY ELSE given
                 o_port == StringViewToU16(Rest(addr, colon_pos + 1))
             IN  WithPort(o_port, FromIpPort4(ip, o_port.val))
      ELSE IF first(addr) = Open /\ right_pos # npos THEN
        LET o_port == PortAfter(addr, right_pos)
        IN  WithPort(o_port, FromIpPort6(SubSeq(addr, 2, right_pos), o_port.val))
      ELSE Throw

GetPort(a) == ToHostByteOrder16(a.port)

IsIpv4(a) == a.kind = "v4"

ToIp(a) == a.ip

\* "%hu".
Decimal(n) == IF n < 10 THEN <<n>> ELSE <<n \div 10, n % 10>>

ToIpPort(a) ==
  (IF IsIpv4(a) THEN ToIp(a) ELSE <<Open>> \o ToIp(a) \o <<Close>>)
    \o <<Colon>> \o Decimal(ToHostByteOrder16(a.port))

\* sock::IsSelfConnect(): an address that could not be read is the value None; the two
\* addresses of a socket have one family.
IsSelfConnect(local, peer) ==
  /\ local # None /\ peer # None
  /\ local.port = peer.port
  /\ local.ip = peer.ip

WordsOf(S, n) == UNION {[1..k -> S] : k \in 0..n}

\* Heads with and without a separator, and tails: numbers too large for a port, for 32
\* bits, for the buffer; negative ones; words that are no number.
Inputs ==
  {h \o sep \o t :
     h \in WordsOf({1, Dot, Star, Open, Close, Letter, Colon}, MaxHead),
     sep \in {<<>>, <<Colon>>},
     t \in WordsOf({0, 1, Minus, Letter}, MaxTail)
             \cup {<<1, 6>>, <<2, 0>>, <<3, 3>>, <<1, 0, 0>>, <<1, 1, 1, 1>>}}
  \cup {<<Open>> \o ip \o <<Close>> \o sep \o t :
     ip \in WordsOf({1, Colon}, 3) \cup {mapped},
     sep \in {<<>>, <<Colon>>, <<Letter>>},
     t \in WordsOf({0, 1, Minus, Letter}, MaxTail) \cup {<<2, 0>>, <<3, 3>>}}

Init == text \in Inputs

Next == UNCHANGED text

Spec == Init /\ [][Next]_text

-----------------------------------------------------------------------------
Ips4 == {<<1, Dot, 0>>, INADDR_ANY, INADDR_LOOPBACK}
Ips6 == {<<1, Colon, Colon>>, in6addr_any, in6addr_loopback, mapped}

Addresses == [kind : {"v4"}, ip : Ips4, port : 0..(PortMod - 1)]
               \cup [kind : {"v6"}, ip : Ips6, port : 0..(PortMod - 1)]

(* What ToIpPort() prints, InetAddr(address) reads back as the same address *)
(* (peers exchange addresses as text), and the port survives the byte order *)
(* both ways.  InetAddr(ip, port) builds the same address from the parts,   *)
(* but for an IPv6 address printed with dots: it takes that for an IPv4     *)
(* address and the program aborts.                                          *)
(* IsSelfConnect() holds exactly when both ends are known and equal.        *)
PrintedAddressesRead ==
  text = <<>> =>
    /\ \A a \in Addresses :
         /\ InetAddrOfText(ToIpPort(a)) = a
         /\ InetAddrOfIp(ToIp(a), GetPort(a)) = IF IsDotted6(a.ip) THEN Abort ELSE a
    /\ \A port \in 0..(PortMod - 1), loopback, v6 \in BOOLEAN :
         LET a == InetAddrOfPort(port, loopback, v6)
         IN  GetPort(a) = port /\ IsIpv4(a) # v6 /\ a \in Addresses
    /\ \A a \in Addresses, b \in {c \in Addresses : IsIpv4(c)} \cup {None} :
         b = None \/ IsIpv4(a) => (IsSelfConnect(a, b) <=> a = b)

\* t is a number, with nothing around it, that fits a port.
IsPort(t) ==
  /\ t # <<>> /\ Len(t) < BufSize
  /\ \A i \in DOMAIN t : t[i] \in Digit
  /\ Value(t) < PortMod

(* InetAddr(address) understands every text of the documented forms and     *)
(* returns the ip and port written there; an address it returns for another *)
(* text still has the ip written before the first colon or in the brackets; *)
(* a port is never made up when the text has no digit after the ip: then    *)
(* there is no address (the program stops or throws).                       *)
AddressesRead ==
  LET a == InetAddrOfText(text)
  IN  /\ \A p \in 0..Len(text) :
           LET port == Rest(text, p + 1)
           IN  p < Len(text) /\ text[p + 1] = Colon /\ IsPort(port) =>
                 /\ IsIp4(Prefix(text, p)) =>
                      a.kind = "v4" /\ a.ip = Prefix(text, p) /\ GetPort(a) = Value(port)
                 /\ Prefix(text, p) = <<Star>> =>
                      a.kind = "v4" /\ a.ip = INADDR_ANY /\ GetPort(a) = Value(port)
                 /\ p > 2 /\ text[1] = Open /\ text[p] = Close /\ IsIp6(SubSeq(text, 2, p - 1)) =>
                      a.kind = "v6" /\ a.ip = SubSeq(text, 2, p - 1) /\ GetPort(a) = Value(port)
      /\ a.kind = "v4" =>
           \E p \in DOMAIN text :
             /\ text[p] = Colon /\ Prefix(text, p - 1) \in {a.ip, <<Star>>}
             /\ \E i \in (p + 1)..Len(text) : text[i] \in Digit
      /\ a.kind = "v6" =>
           \E p \in DOMAIN text :
             /\ text[p] = Close /\ SubSeq(text, 2, p - 1) = a.ip
             /\ \E i \in (p + 2)..Len(text) : text[i] \in Digit
=============================================================================
