----------------------------- MODULE VisionFlow -----------------------------
(***************************************************************************)
(* The Vision flow (src/proxy/vless/vision.cpp): a writer wraps the first     *)
(* chunks of a stream in frames with random padding until it has seen which  *)
(* TLS the stream carries, and a reader unwraps them, whatever the cuts.     *)
(*                                                                          *)
(*   [UUID, first frame only] command, content length, padding length,       *)
(*   content, padding                                                        *)
(*                                                                          *)
(* Writer and reader are records, process() an operator on them.  A chunk is *)
(* its bytes and what the TLS detection finds in them.  Lengths are two      *)
(* digits of base Base, most significant first.                              *)
(***************************************************************************)
EXTENDS Integers, Sequences, SequencesExt

CONSTANTS
  Uuid,       \* the user's UUID, a sequence of bytes
  Base,       \* values of a byte of a length field
  MaxFrame,   \* VISION_MAX_FRAME_SIZE
  Packets     \* chunks the TLS detection looks at

ASSUME VisionAssumption ==
  /\ Uuid \in Seq(Nat) /\ Uuid # << >>
  /\ Base \in Nat \ {0, 1} /\ MaxFrame \in Nat /\ Packets \in Nat

CONTINUE == 0
END == 1
DIRECT == 2
ShortHeader == 5
FullHeader == Len(Uuid) + ShortHeader

Digits(n) == << (n \div Base) % Base, n % Base >>

-----------------------------------------------------------------------------
(* TLS detection, in the context reader and writer of a connection share.   *)

NewContext ==
  [packets |-> Packets, tls |-> FALSE, tls12 |-> FALSE, xtls |-> FALSE,
   ccm |-> FALSE, hello |-> 0]

\* VisionWriter::filterTls(): a ServerHello is scanned, over several chunks if
\* need be, for the extension that tells TLS 1.3.  One too short to hold a cipher
\* (vision.cpp:186) leaves the cipher found before.
FilterTls(ctx, c) ==
  LET seen == [ctx EXCEPT !.packets = @ - 1,
                 !.tls = @ \/ c.hello # "none",
                 !.tls12 = @ \/ c.hello = "server",
                 !.ccm = IF c.hello = "server" /\ c.cipher # "none"
                           THEN c.cipher = "ccm8" ELSE @,
                 !.hello = IF c.hello = "server" THEN c.helloLen ELSE @]
      rest == seen.hello - Len(c.bytes)
  IN  IF seen.hello <= 0 THEN seen
      ELSE [seen EXCEPT !.hello = rest,
              !.xtls = @ \/ (c.versions /\ ~seen.ccm),
              !.packets = IF c.versions \/ rest <= 0 THEN 0 ELSE @]

\* What a reader adds when it has returned output: a ClientHello is TLS.
DetectUplink(ctx, isClientHello) ==
  IF ctx.packets > 0
    THEN [ctx EXCEPT !.packets = @ - 1, !.tls = @ \/ isClientHello]
    ELSE ctx

-----------------------------------------------------------------------------
(* VisionWriter.                                                            *)

NewWriter == [uuidWritten |-> FALSE, isPadding |-> TRUE, directCopy |-> FALSE]

\* padding(): no more of it than fits the largest frame.
Frame(w, bytes, command, pad) ==
  LET head == IF w.uuidWritten THEN ShortHeader ELSE FullHeader
      most == MaxFrame - head - Len(bytes)
      n    == IF pad <= most THEN pad ELSE IF most > 0 THEN most ELSE 0
  IN  (IF w.uuidWritten THEN << >> ELSE Uuid)
        \o <<command>> \o Digits(Len(bytes)) \o Digits(n)
        \o bytes \o [i \in 1 .. n |-> 0]

\* The command of the frame for c, given what has been detected.
FrameCommand(ctx, c) ==
  CASE ctx.tls /\ c.app                   -> IF ctx.xtls THEN DIRECT ELSE END
    [] ~(ctx.tls /\ c.app) /\ ~ctx.tls12 /\ ctx.packets <= 1 -> END
    [] OTHER                              -> CONTINUE

\* process(): the writer, the context and the bytes for the wire.
WriterProcess(w, ctx, c, pad) ==
  IF w.directCopy THEN [w |-> w, ctx |-> ctx, out |-> c.bytes]
  ELSE LET seen == IF ctx.packets > 0 THEN FilterTls(ctx, c) ELSE ctx
           cmd  == FrameCommand(seen, c)
       IN  IF ~w.isPadding
             THEN [w |-> [w EXCEPT !.directCopy = TRUE], ctx |-> seen, out |-> c.bytes]
             ELSE [w |-> [uuidWritten |-> TRUE, isPadding |-> cmd = CONTINUE,
                          directCopy |-> cmd = DIRECT],
                   ctx |-> seen, out |-> Frame(w, c.bytes, cmd, pad)]

-----------------------------------------------------------------------------
(* VisionReader.                                                            *)

NewReader ==
  [started |-> FALSE, directCopy |-> FALSE, header |-> 0, command |-> CONTINUE,
   content |-> 0, padding |-> 0]

Copied(r, b) == [r |-> r, out |-> <<b>>]
Skipped(r) == [r |-> r, out |-> << >>]

HeaderByte(r, b) ==
  Skipped(CASE r.header = 5 -> [r EXCEPT !.header = 4, !.command = b]
            [] r.header = 4 -> [r EXCEPT !.header = 3, !.content = b * Base]
            [] r.header = 3 -> [r EXCEPT !.header = 2, !.content = @ + b]
            [] r.header = 2 -> [r EXCEPT !.header = 1, !.padding = b * Base]
            [] r.header = 1 -> [r EXCEPT !.header = 0, !.padding = @ + b])

\* Fault: a frame ends with its content.
ReaderByteNoPadding(r, b) ==
  CASE r.directCopy    -> Copied(r, b)
    [] ~r.directCopy /\ r.header > 0  -> HeaderByte(r, b)
    [] ~r.directCopy /\ r.header = 0 /\ r.content > 0 ->
         Copied([r EXCEPT !.content = @ - 1], b)
    [] OTHER ->
         IF r.command = CONTINUE
           THEN HeaderByte([r EXCEPT !.header = 5], b)
           ELSE Copied([r EXCEPT !.directCopy = TRUE], b)

\* One byte through the unpadding state machine.  A frame's end is noticed with
\* the byte after it: another header, or what follows the padded part.
ReaderByte(r, b) ==
  CASE r.directCopy -> Copied(r, b)
    [] ~r.directCopy /\ r.header > 0 -> HeaderByte(r, b)
    [] ~r.directCopy /\ r.header = 0 /\ r.content > 0 ->
         Copied([r EXCEPT !.content = @ - 1], b)
    [] ~r.directCopy /\ r.header = 0 /\ r.content = 0 /\ r.padding > 0 ->
         Skipped([r EXCEPT !.padding = @ - 1])
    [] OTHER ->
         IF r.command = CONTINUE
           THEN HeaderByte([r EXCEPT !.header = 5], b)
           ELSE Copied([r EXCEPT !.directCopy = TRUE], b)

\* The bytes of a chunk one after the other: the reader after the first i of them,
\* and what it has returned.
ReaderBytes(r, bytes) ==
  LET run[i \in 0 .. Len(bytes)] ==
        IF i = 0 THEN [r |-> r, out |-> << >>]
        ELSE LET had == run[i - 1]
                 s   == ReaderByte(had.r, bytes[i])
             IN  [r |-> s.r, out |-> had.out \o s.out]
  IN  run[Len(bytes)]

\* process(): a first chunk that does not hold the UUID and a whole header is
\* taken for a stream without padding.
ReaderProcess(r, chunk) ==
  IF r.started \/ r.directCopy THEN ReaderBytes(r, chunk)
  ELSE IF Len(chunk) >= FullHeader /\ SubSeq(chunk, 1, Len(Uuid)) = Uuid
    THEN ReaderBytes([r EXCEPT !.started = TRUE, !.header = 5],
                     SubSeq(chunk, Len(Uuid) + 1, Len(chunk)))
    ELSE [r |-> [r EXCEPT !.directCopy = TRUE], out |-> chunk]
=============================================================================
