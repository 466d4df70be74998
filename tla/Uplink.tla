------------------------------- MODULE Uplink -------------------------------
(***************************************************************************)
(* The bytes of a session on their way up: an application asks in SOCKS5      *)
(* (src/proxy/socks5), the client puts the question in a VLESS header         *)
(* (toVlessRequest, Encoder), the server reads it (Decoder) and takes what    *)
(* follows for a stream, for datagrams or for a stream in Vision frames.      *)
(* A byte stream arrives in chunks cut anywhere, may end anywhere, and both   *)
(* parsers read through a BufferedStream.                                    *)
(*                                                                          *)
(* Addresses are shorter than real ones.  A client of another make sends the *)
(* addons that ask for Vision: this one sends none.                          *)
(***************************************************************************)
EXTENDS VisionFlow

CONSTANTS
  V4, V6,      \* addresses of the two IP versions, sequences of bytes
  Domains,     \* domain names, sequences of bytes
  Chunks,      \* what a Vision client reads at once: bytes and TLS properties
  Pads,        \* padding lengths the generator may draw
  MaxPieces    \* bound: pieces of the body

ASSUME UplinkAssumption ==
  /\ V4 \in Seq(Nat) /\ V6 \in Seq(Nat) /\ Len(V4) # Len(V6)
  /\ Domains \subseteq Seq(Nat) /\ MaxPieces \in Nat
  \* A length field holds what is read at once (8192 bytes) and what is drawn.
  /\ \A c \in Chunks : c.bytes \in Seq(Nat) /\ Len(c.bytes) < Base * Base
  /\ Pads \subseteq 0 .. Base * Base - 1

Port == <<1, 2>>
Kinds == {"v4", "domain", "v6"}
Modes == {"tcp", "udp", "vision"}
Asked == {[kind |-> "v4", addr |-> V4, port |-> Port],
          [kind |-> "v6", addr |-> V6, port |-> Port]}
           \cup {[kind |-> "domain", addr |-> d, port |-> Port] : d \in Domains}

VARIABLES
  mode,       \* what the session carries
  ask,        \* the destination the application asks for
  side,       \* the stream being read: the application's, or the tunnel
  line,       \* bytes sent and not yet read
  over,       \* the sender has closed the stream; with bytes missing
  buf,        \* BufferedStream::buffer_; then pending of the UDP relay
  parse,      \* the parser: what it waits for and what it has found
  writer, ctx, reader,   \* the Vision writer, its TLS detection, the reader
  first,      \* bytes of the first chunk the Vision reader was given
  given,      \* the content sent: bytes, or datagrams
  pieces,     \* pieces of content sent
  delivered   \* the content written to the target

conversation == <<mode, ask>>
vision == <<writer, ctx, reader, first>>
vars == <<conversation, side, line, over, buf, parse, vision, given, pieces, delivered>>

Take(s, n) == SubSeq(s, 1, n)
Drop(s, n) == SubSeq(s, n + 1, Len(s))

-----------------------------------------------------------------------------
(* The two headers.                                                         *)

\* writeAddrPort() and Encoder::writeAddress(): SOCKS5 and VLESS number the
\* kinds differently and put the port on different sides of the address.
SocksType == [v4 |-> 1, domain |-> 3, v6 |-> 4]
VlessType == [v4 |-> 1, domain |-> 2, v6 |-> 3]

Sized(q) == IF q.kind = "domain" THEN <<Len(q.addr)>> \o q.addr ELSE q.addr
SocksAddress(q) == <<SocksType[q.kind]>> \o Sized(q) \o q.port
VlessAddress(q) == q.port \o <<VlessType[q.kind]>> \o Sized(q)

Command == [tcp |-> 1, udp |-> 2, vision |-> 1]
VisionName == <<7>>

\* Encoder::encodeRequest(): version, UUID, no addons, command, address.
EncodeRequest(q, cmd) == <<0>> \o Uuid \o <<0, cmd>> \o VlessAddress(q)

\* What a Vision client sends: Flow alone, Seed before it, or an unknown
\* number before it.  The name is the last byte.
VisionAddons == {<<10, 1, 7>>, <<18, 1, 9, 10, 1, 7>>, <<24, 5, 10, 1, 7>>}
ForeignRequest(q, addons) ==
  <<0>> \o Uuid \o <<Len(addons)>> \o addons \o <<1>> \o VlessAddress(q)

\* A SOCKS5 client's greeting and request.
SocksRequest(q, methods) ==
  <<5, Len(methods)>> \o methods \o <<5, 1, 0>> \o SocksAddress(q)

\* toVlessRequest() carries the address over as it is.
ToVlessRequest(p) == [kind |-> p.kind, addr |-> p.addr, port |-> p.port]

-----------------------------------------------------------------------------
(* The parsers.  parse.step names what is read next, parse.need its length.  *)

At(p, step, need) == [p EXCEPT !.step = step, !.need = need]
Bad(p) == At(p, "error", 0)
Start(step) ==
  [step |-> step, need |-> 1, kind |-> "v4", addr |-> << >>, port |-> << >>,
   flow |-> << >>, cmd |-> 0]

KindOf(types, n) == CHOOSE k \in Kinds : types[k] = n
Known(types, n) == \E k \in Kinds : types[k] = n

\* The address of the kind n in the numbering types.
AddressAfter(p, types, n) ==
  IF ~Known(types, n) THEN Bad(p)
  ELSE LET k == KindOf(types, n)
           q == [p EXCEPT !.kind = k]
       IN  CASE k = "v4"     -> At(q, "addr", Len(V4))
             [] k = "v6"     -> At(q, "addr", Len(V6))
             [] k = "domain" -> At(q, "len", 1)

\* Parser::readGreeting() and readRequest(), one read() after the other.
SocksStep(p, b) ==
  CASE p.step = "ver"      -> IF b = <<5>> THEN At(p, "nmethods", 1) ELSE Bad(p)
    [] p.step = "nmethods" -> IF b = <<0>> THEN Bad(p) ELSE At(p, "methods", b[1])
    [] p.step = "methods"  -> IF \E i \in DOMAIN b : b[i] = 0
                                THEN At(p, "ver2", 1) ELSE Bad(p)
    [] p.step = "ver2"     -> IF b = <<5>> THEN At(p, "cmd", 1) ELSE Bad(p)
    [] p.step = "cmd"      -> At([p EXCEPT !.cmd = b[1]], "rsv", 1)
    [] p.step = "rsv"      -> At(p, "atyp", 1)
    [] p.step = "atyp"     -> AddressAfter(p, SocksType, b[1])
    [] p.step = "len"      -> At(p, "addr", b[1])
    [] p.step = "addr"     -> At([p EXCEPT !.addr = b], "port", 2)
    [] p.step = "port"     -> At([p EXCEPT !.port = b], "done", 0)

\* parseAddons(): field 1 is the flow, other fields are skipped, and a field
\* that does not fit is an error.  (Numbers below 128, one byte each.)
Addons(p, b) ==
  LET field[s \in (1 .. Len(b) + 1) \X {p.flow, VisionName}] ==
        LET i    == s[1]
            flow == s[2]
            wire == b[i] % 8
            last == i + 1 + b[i + 1]
        IN  IF i > Len(b) THEN At([p EXCEPT !.flow = flow], "command", 1)
            ELSE IF i = Len(b) THEN Bad(p)
            ELSE CASE wire = 0 -> field[<<i + 2, flow>>]
                   [] wire = 2 -> IF last > Len(b) THEN Bad(p)
                                  ELSE field[<<last + 1, IF b[i] \div 8 = 1
                                                           THEN SubSeq(b, i + 2, last)
                                                           ELSE flow>>]
                   [] OTHER -> Bad(p)
  IN  field[<<1, p.flow>>]

\* Fault: the port is read in the place SOCKS5 has it.
VlessStepPortLast(p, b) ==
  CASE p.step = "version" -> IF b = <<0>> THEN At(p, "uuid", Len(Uuid)) ELSE Bad(p)
    [] p.step = "uuid"    -> IF b = Uuid THEN At(p, "addonsLen", 1) ELSE Bad(p)
    [] p.step = "addonsLen" -> IF b = <<0>> THEN At(p, "command", 1)
                                ELSE At(p, "addons", b[1])
    [] p.step = "addons"  -> Addons(p, b)
    [] p.step = "command" -> At([p EXCEPT !.cmd = b[1]], "atyp", 1)
    [] p.step = "atyp"    -> AddressAfter(p, VlessType, b[1])
    [] p.step = "len"     -> At(p, "addr", b[1])
    [] p.step = "addr"    -> At([p EXCEPT !.addr = b], "port", 2)
    [] p.step = "port"    -> At([p EXCEPT !.port = b], "done", 0)

\* Decoder::decode(), parseAddons() and readAddress().  (Mux and Rvs have no
\* address; VlessConnection refuses them.)
VlessStep(p, b) ==
  CASE p.step = "version" -> IF b = <<0>> THEN At(p, "uuid", Len(Uuid)) ELSE Bad(p)
    [] p.step = "uuid"    -> IF b = Uuid THEN At(p, "addonsLen", 1) ELSE Bad(p)
    [] p.step = "addonsLen" -> IF b = <<0>> THEN At(p, "command", 1)
                                ELSE At(p, "addons", b[1])
    [] p.step = "addons"  -> Addons(p, b)
    [] p.step = "command" -> IF b[1] \in {1, 2}
                               THEN At([p EXCEPT !.cmd = b[1]], "port", 2) ELSE Bad(p)
    [] p.step = "port"    -> At([p EXCEPT !.port = b], "atyp", 1)
    [] p.step = "atyp"    -> AddressAfter(p, VlessType, b[1])
    [] p.step = "len"     -> At(p, "addr", b[1])
    [] p.step = "addr"    -> At([p EXCEPT !.addr = b], "done", 0)

-----------------------------------------------------------------------------
\* Parser::parseUdpDatagram(): the whole datagram is there; what does not fit
\* is refused.
ParseUdpDatagram(d) ==
  LET type == d[4]
      k    == KindOf(SocksType, type)
      size == CASE k = "v4" -> Len(V4) [] k = "v6" -> Len(V6) [] k = "domain" -> d[5]
      at   == IF k = "domain" THEN 6 ELSE 5
  IN  IF Len(d) < 5 \/ d[3] # 0 \/ ~Known(SocksType, type) THEN {}
      ELSE IF Len(d) < at + size + 1 THEN {}
      ELSE {[kind |-> k, addr |-> SubSeq(d, at, at + size - 1),
             port |-> SubSeq(d, at + size, at + size + 1),
             payload |-> Drop(d, at + size + 1)]}

\* Parser::encodeUdpDatagram().
EncodeUdpDatagram(q, payload) == <<0, 0, 0>> \o SocksAddress(q) \o payload

\* The length-prefixed frame of a datagram (recvLoop, socks5_udp_relay.cpp).
FramePacket(payload) == Digits(Len(payload)) \o payload

-----------------------------------------------------------------------------
\* (The header is the same in all modes: one kind of address is enough for Vision.)
Init ==
  /\ mode \in Modes /\ ask \in Asked /\ (mode = "vision" => ask.kind = "v4")
  /\ side = (IF mode = "tcp" THEN "socks" ELSE "tunnel")
  /\ CASE mode = "tcp" ->
            /\ \E methods \in {<<0>>, <<2>>, <<2, 0>>} : line = SocksRequest(ask, methods)
            /\ parse = Start("ver")
       [] mode = "vision" ->
            /\ \E a \in VisionAddons : line = ForeignRequest(ask, a)
            /\ parse = Start("version")
       [] mode = "udp" ->
            /\ \E q \in ParseUdpDatagram(EncodeUdpDatagram(ask, <<1>>)) :
                 line = EncodeRequest(ToVlessRequest(q), Command[mode])
            /\ parse = Start("version")
  /\ over = "no" /\ buf = << >>
  /\ writer = NewWriter /\ ctx = NewContext /\ reader = NewReader /\ first = 0
  /\ given = << >> /\ pieces = 0 /\ delivered = << >>

Waits == parse.step \notin {"done", "error", "relay"}

\* BufferedStream::read() reads on until it has what is needed.
Receive ==
  /\ Waits /\ Len(buf) < parse.need
  /\ \E n \in 1 .. Len(line) : buf' = buf \o Take(line, n) /\ line' = Drop(line, n)
  /\ UNCHANGED <<conversation, side, over, parse, vision, given, pieces, delivered>>

\* It returns less at the end of the stream, which every parser takes for an
\* error.
ReceiveEnd ==
  /\ Waits /\ Len(buf) < parse.need /\ line = << >> /\ over # "no"
  /\ parse' = Bad(parse)
  /\ UNCHANGED <<conversation, side, line, over, buf, vision, given, pieces, delivered>>

\* A parser consumes what it asked for, and leaves the rest in the buffer.
Consume ==
  /\ Waits /\ Len(buf) >= parse.need
  /\ LET b == Take(buf, parse.need)
     IN  parse' = IF side = "socks" THEN SocksStep(parse, b) ELSE VlessStep(parse, b)
  /\ buf' = Drop(buf, parse.need)
  /\ UNCHANGED <<conversation, side, line, over, vision, given, pieces, delivered>>

\* The client sends its header once it has read the request; the application
\* stays with it.
Ask ==
  /\ side = "socks" /\ parse.step = "done"
  /\ side' = "tunnel" /\ over' = "no" /\ buf' = << >>
  /\ line' = EncodeRequest(ToVlessRequest(parse), Command[mode])
  /\ parse' = Start("version")
  /\ UNCHANGED <<conversation, vision, given, pieces, delivered>>

\* What a relay in Vision mode writes of a chunk: nothing is read past it.
Unwrap(chunk) ==
  LET u == ReaderProcess(reader, chunk)
  IN  /\ reader' = u.r
      /\ delivered' = delivered \o u.out
      /\ first' = IF first = 0 THEN Len(chunk) ELSE first

\* Fault: what was read along with the header is forgotten.
RelayDropping ==
  /\ side = "tunnel" /\ parse.step = "done"
  /\ parse' = At(parse, "relay", 0) /\ buf' = << >>
  /\ UNCHANGED <<conversation, side, line, over, vision, given, pieces, delivered>>

\* The relay starts with the bytes read along with the header: a UDP relay
\* keeps them, the others pass them on (drainRemaining, forwardHandshakeRemaining).
Relay ==
  /\ side = "tunnel" /\ parse.step = "done"
  /\ parse' = At(parse, "relay", 0)
  /\ \/ mode = "udp" /\ UNCHANGED <<buf, reader, first, delivered>>
     \/ mode # "udp" /\ buf = << >> /\ UNCHANGED <<buf, reader, first, delivered>>
     \/ /\ mode = "tcp" /\ buf # << >>
        /\ delivered' = buf /\ buf' = << >> /\ UNCHANGED <<reader, first>>
     \/ mode = "vision" /\ buf # << >> /\ Unwrap(buf) /\ buf' = << >>
  /\ UNCHANGED <<conversation, side, line, over, writer, ctx, given, pieces>>

PacketLen == buf[1] * Base + buf[2]
PacketThere == Len(buf) >= 2 /\ Len(buf) >= 2 + PacketLen

\* Fault: the rest of a chunk is dropped with the frame that does not fit.
CutDroppingRest ==
  /\ mode = "udp" /\ parse.step = "relay" /\ buf # << >>
  /\ IF PacketThere
       THEN /\ buf' = Drop(buf, 2 + PacketLen)
            /\ delivered' = IF PacketLen = 0 THEN delivered
                            ELSE Append(delivered, SubSeq(buf, 3, 2 + PacketLen))
       ELSE buf' = << >> /\ UNCHANGED delivered
  /\ UNCHANGED <<conversation, side, line, over, parse, vision, given, pieces>>

\* relayUdpClientToTarget() cuts off a whole frame; an empty one is skipped.
Cut ==
  /\ mode = "udp" /\ parse.step = "relay" /\ PacketThere
  /\ buf' = Drop(buf, 2 + PacketLen)
  /\ delivered' = IF PacketLen = 0 THEN delivered
                  ELSE Append(delivered, SubSeq(buf, 3, 2 + PacketLen))
  /\ UNCHANGED <<conversation, side, line, over, parse, vision, given, pieces>>

\* The relay reads a chunk once it has nothing left to cut.
RelayRead ==
  /\ parse.step = "relay"
  /\ mode = "udp" => ~PacketThere
  /\ \E n \in 1 .. Len(line) :
       /\ line' = Drop(line, n)
       /\ \/ /\ mode = "udp" /\ buf' = buf \o Take(line, n)
             /\ UNCHANGED <<reader, first, delivered>>
          \/ /\ mode = "tcp" /\ delivered' = delivered \o Take(line, n)
             /\ UNCHANGED <<buf, reader, first>>
          \/ mode = "vision" /\ Unwrap(Take(line, n)) /\ UNCHANGED buf
  /\ UNCHANGED <<conversation, side, over, parse, writer, ctx, given, pieces>>

-----------------------------------------------------------------------------
(* The sender.                                                              *)

MaySend == side = "tunnel" /\ over = "no" /\ pieces < MaxPieces

\* The pieces of a stream are its bytes, numbered.
SendBytes ==
  /\ MaySend /\ mode = "tcp"
  /\ given' = Append(given, pieces + 1)
  /\ line' = Append(line, pieces + 1)
  /\ pieces' = pieces + 1
  /\ UNCHANGED <<conversation, side, over, buf, parse, vision, delivered>>

\* recvLoop frames the datagrams the application sends, empty ones excepted.
SendDatagram ==
  /\ MaySend /\ mode = "udp"
  /\ \E size \in 1 .. Base + 1 :
       LET d == [i \in 1 .. size |-> 10 * (pieces + 1) + i]
       IN  \E q \in ParseUdpDatagram(EncodeUdpDatagram(ask, d)) :
             /\ given' = Append(given, d)
             /\ line' = line \o FramePacket(q.payload)
  /\ pieces' = pieces + 1
  /\ UNCHANGED <<conversation, side, over, buf, parse, vision, delivered>>

SendChunk ==
  /\ MaySend /\ mode = "vision"
  /\ \E c \in Chunks, pad \in Pads :
       LET s == WriterProcess(writer, ctx, c, pad)
       IN  /\ writer' = s.w /\ ctx' = s.ctx
           /\ line' = line \o s.out
           /\ given' = given \o c.bytes
  /\ pieces' = pieces + 1
  /\ UNCHANGED <<conversation, side, over, buf, parse, reader, first, delivered>>

\* The other direction of the same client finds a ClientHello, or does not.
OtherDirection ==
  /\ mode = "vision" /\ ctx.packets > 0 /\ MaySend
  /\ \E hello \in BOOLEAN : ctx' = DetectUplink(ctx, hello)
  /\ UNCHANGED <<conversation, side, line, over, buf, parse, writer, reader, first,
                 given, pieces, delivered>>

\* The sender closes its stream, or the connection breaks and what has not been
\* read is lost.
Finish ==
  /\ over = "no"
  /\ \/ over' = "ended" /\ UNCHANGED line
     \/ over' = "broken" /\ line' = << >>
  /\ UNCHANGED <<conversation, side, buf, parse, vision, given, pieces, delivered>>

Next ==
  \/ Receive \/ ReceiveEnd \/ Consume \/ Ask \/ Relay \/ Cut \/ RelayRead
  \/ SendBytes \/ SendDatagram \/ SendChunk \/ OtherDirection \/ Finish

Spec == Init /\ [][Next]_vars
-----------------------------------------------------------------------------
\* The server connects where the application asked, whatever the cuts and
\* however the stream ends: a header is understood as meant, or refused.
RequestHeard ==
  side = "tunnel" /\ parse.step \in {"done", "relay"}
    => /\ ToVlessRequest(parse) = ask /\ parse.cmd = Command[mode]
       /\ parse.flow = IF mode = "vision" THEN VisionName ELSE << >>

\* What the target gets is a prefix of what was given, and all of it when there
\* is nothing more to read.
Heard ==
  /\ IsPrefix(delivered, given)
  /\ parse.step = "relay" /\ line = << >> /\ over # "broken"
       => delivered = given

\* Datagrams keep their bounds and their order however frames are cut and
\* joined (vless_connection_relay_udp.cpp:18-40), and a stream its bytes.
PacketsWhole == mode = "udp" /\ ~PacketThere => Heard
StreamExact == mode = "tcp" => Heard

\* Vision framing is transparent, and ends in the same place for both, if the
\* first chunk the reader is given holds the UUID and a header (vision.cpp:40-52
\* takes a shorter one for a stream without padding).
VisionTransparent == mode = "vision" /\ (first = 0 \/ first >= FullHeader) => Heard
=============================================================================
