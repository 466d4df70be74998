------------------------------ MODULE MCUplink ------------------------------
(* A small instance of Uplink: three-byte addresses, two-byte UUIDs, length   *)
(* fields of base 2, and chunks for each case of the TLS detection.           *)
EXTENDS Uplink

MCUuid    == <<8, 9>>
MCV4      == <<1>>
MCV6      == <<3, 4>>
MCDomains == {<< >>, <<5, 6>>}

Chunk(hello, size, bytes, versions, cipher, app) ==
  [hello |-> hello, helloLen |-> size, bytes |-> bytes, versions |-> versions,
   cipher |-> cipher, app |-> app]

MCChunks ==
  {Chunk("none", 0, <<1>>, FALSE, "none", FALSE),
   Chunk("none", 0, <<2, 3, 2>>, TRUE, "none", FALSE),
   Chunk("client", 0, <<1, 0>>, FALSE, "none", FALSE),
   Chunk("server", 2, <<0, 1>>, TRUE, "other", FALSE),
   Chunk("server", 2, <<0, 2>>, TRUE, "none", FALSE),
   Chunk("server", 5, <<0, 3>>, FALSE, "ccm8", FALSE),
   Chunk("none", 0, <<2>>, FALSE, "none", TRUE)}
=============================================================================
