----------------------------- MODULE ServerStart -----------------------------
(***************************************************************************)
(* The server's start (src/main.cpp), which creates what is missing: a       *)
(* configuration with a random user (src/common/config.cpp) and a            *)
(* self-signed certificate (src/net/tls.cpp).  Both live in plain files that *)
(* are truncated and then written, one after the other.  The process may be  *)
(* killed between any two steps, a file operation may fail, certificates     *)
(* age, and the administrator replaces a certificate of his own; the         *)
(* supervisor starts the server again.                                       *)
(*                                                                          *)
(* Users are numbered as they are generated, certificates too; a key has the *)
(* number of its certificate.  An existing configuration can be read, and    *)
(* one server uses the files.                                                *)
(***************************************************************************)
EXTENDS Integers, FiniteSets

CONSTANTS
  MaxStarts,   \* bound: starts of the server
  MaxOwn       \* bound: certificates of the administrator's

ASSUME StartAssumption == MaxStarts \in Nat \ {0} /\ MaxOwn \in Nat \ {0}

EnvUser == 0       \* the user VLESS_USERS adds
Admin == -1        \* a user the administrator has configured
Modes == {"plain", "self", "own", "half"}
States == {"absent", "empty", "torn", "whole"}

VARIABLES
  mode,        \* TLS settings: none, --tls-port alone, with both files or one
  config,      \* the configuration file: its state and its users
  cert, key,   \* cert.pem and key.pem, or the administrator's files
  pc,          \* where main() is
  users,       \* ServerConfig::users
  required,    \* the configuration is being created, not amended
  pem,         \* the certificate in memory
  ctx,         \* the certificate loaded into the SSL_CTX
  finger,      \* TlsConfig::certSha256, as the certificate it was taken from
  faulted,     \* history: a file operation of this start has failed
  harmed,      \* history: a kill or a fault fell where a file is half changed
  due,         \* certificates with 30 days or less to go, or replaced
  published,   \* history: generated or configured users the banner has shown
  unsaved,     \* history: users shown with the warning that they are not saved
  pins,        \* history: fingerprints in the links of starts without a fault
  made, certs, \* users and certificates generated
  starts

files == <<config, cert, key>>
memory == <<users, required, pem, ctx, finger>>
history == <<published, unsaved, pins>>
counts == <<made, certs, starts>>
vars == <<mode, files, pc, memory, faulted, harmed, due, history, counts>>

Steps == {"down", "load", "openConfig", "writeConfig", "args", "tls", "openCert",
          "writeCert", "openKey", "writeKey", "loadCert", "loadKey", "banner",
          "serving", "failed"}

TypeOK ==
  /\ mode \in Modes /\ pc \in Steps
  /\ config \in [st : States, users : SUBSET (Admin .. made)]
  /\ cert \in [st : States, gen : 0 .. MaxStarts + MaxOwn]
  /\ key \in [st : States, gen : 0 .. MaxStarts + MaxOwn]
  /\ users \subseteq Admin .. made
  /\ {pem, ctx, finger} \subseteq 0 .. certs
  /\ {required, faulted, harmed} \subseteq BOOLEAN
  /\ due \subseteq 1 .. certs /\ pins \subseteq 1 .. certs
  /\ published \cup unsaved \subseteq (Admin .. made) \ {EnvUser}
  /\ made \in 0 .. starts /\ certs \in 0 .. MaxStarts + MaxOwn
  /\ starts \in 0 .. MaxStarts

Empty(f) == [f EXCEPT !.st = "empty"]
Torn(f) == [f EXCEPT !.st = "torn"]
Pem(n) == [st |-> "whole", gen |-> n]
Absent == [st |-> "absent", gen |-> 0]

Init ==
  /\ mode \in Modes
  /\ config \in {[st |-> "absent", users |-> {}], [st |-> "whole", users |-> {}],
                 [st |-> "whole", users |-> {Admin}]}
  /\ cert = (IF mode = "own" THEN Pem(1) ELSE Absent) /\ key = cert
  /\ certs = (IF mode = "own" THEN 1 ELSE 0)
  /\ pc = "down" /\ users = {} /\ required = FALSE
  /\ pem = 0 /\ ctx = 0 /\ finger = 0
  /\ faulted = FALSE /\ harmed = FALSE /\ due = {}
  /\ published = {} /\ unsaved = {} /\ pins = {}
  /\ made = 0 /\ starts = 0

-----------------------------------------------------------------------------
(* The process.                                                             *)

Goto(s) == pc' = s
Fault(s) == faulted' = TRUE /\ Goto(s)

Start ==
  /\ pc = "down" /\ starts < MaxStarts
  /\ starts' = starts + 1
  /\ Goto("load")
  /\ users' = {} /\ required' = FALSE /\ pem' = 0 /\ ctx' = 0 /\ finger' = 0
  /\ faulted' = FALSE
  /\ UNCHANGED <<mode, files, harmed, due, history, made, certs>>

\* A random UUID becomes the only user, and the configuration is to be written.
GenerateUser(creating) ==
  /\ made' = made + 1
  /\ users' = {made + 1}
  /\ required' = creating
  /\ Goto("openConfig")

\* loadServerConfig(): no file means a first start, an invalid one an error.
LoadConfig ==
  /\ pc = "load"
  /\ \/ /\ config.st = "absent"
        /\ GenerateUser(TRUE)
     \/ /\ config.st \in {"empty", "torn"}
        /\ Goto("failed") /\ UNCHANGED <<users, made, required>>
     \/ /\ config.st = "whole"
        /\ users' = config.users
        /\ Goto("args") /\ UNCHANGED <<made, required>>
  /\ UNCHANGED <<mode, files, pem, ctx, finger, faulted, harmed, due, history,
                 certs, starts>>

\* A failed write is an error for loadServerConfig(), for ensureDefaultUser()
\* a warning.
WriteFails ==
  /\ Fault(IF required THEN "failed" ELSE "tls")
  /\ unsaved' = IF required THEN unsaved ELSE unsaved \cup users

OpenConfig ==
  /\ pc = "openConfig"
  /\ \/ /\ config' = Empty(config)
        /\ Goto("writeConfig") /\ UNCHANGED <<faulted, unsaved>>
     \/ /\ WriteFails /\ UNCHANGED config
  /\ UNCHANGED <<mode, cert, key, memory, harmed, due, published, pins, counts>>

\* writeServerConfig(): the file has been truncated when it is written.
WriteConfig ==
  /\ pc = "writeConfig"
  /\ \/ /\ config' = [st |-> "whole", users |-> users]
        /\ Goto(IF required THEN "args" ELSE "tls")
        /\ UNCHANGED <<faulted, harmed, unsaved>>
     \/ /\ config' \in {config, Torn(config)}
        /\ harmed' = TRUE
        /\ WriteFails
  /\ UNCHANGED <<mode, cert, key, memory, due, published, pins, counts>>

\* Fault: the users there are do not keep a default one from being generated.
FinishUsersAnyway ==
  /\ pc = "args" /\ mode # "half"
  /\ GenerateUser(FALSE)
  /\ UNCHANGED <<mode, files, pem, ctx, finger, faulted, harmed, due, history,
                 certs, starts>>

\* The certificate and key settings go together; the users of VLESS_USERS are
\* added, and when there is still none ensureDefaultUser() generates one.
FinishUsers ==
  /\ pc = "args" /\ mode # "half"
  /\ \E env \in SUBSET {EnvUser} :
       IF users \cup env # {}
         THEN /\ users' = users \cup env
              /\ Goto("tls") /\ UNCHANGED <<required, made>>
         ELSE GenerateUser(FALSE)
  /\ UNCHANGED <<mode, files, pem, ctx, finger, faulted, harmed, due, history,
                 certs, starts>>

RefuseSettings ==
  /\ pc = "args" /\ mode = "half" /\ Goto("failed")
  /\ UNCHANGED <<mode, files, memory, faulted, harmed, due, history, counts>>

-----------------------------------------------------------------------------
(* createServerSslContext().                                                *)

SkipTls ==
  /\ pc = "tls" /\ mode = "plain" /\ Goto("banner")
  /\ UNCHANGED <<mode, files, memory, faulted, harmed, due, history, counts>>

Readable(f) == f.st \in {"torn", "whole"}

\* The certificate in memory is the one the context will be given, it is hoped.
ReuseCert ==
  /\ pem' = cert.gen /\ Goto("loadCert") /\ UNCHANGED <<certs, faulted>>

GenerateCert ==
  /\ certs' = certs + 1 /\ pem' = certs + 1
  /\ Goto("openCert") /\ UNCHANGED faulted

\* readFile() of the administrator's files; they are not replaced by a
\* self-signed certificate when that fails.
ReadOwn ==
  /\ pc = "tls" /\ mode = "own"
  /\ \/ ReuseCert
     \/ Fault("failed") /\ UNCHANGED <<pem, certs>>
  /\ UNCHANGED <<mode, files, users, required, ctx, finger, harmed, due, history,
                 made, starts>>

\* Fault: an empty file counts as there.
FindCertEvenEmpty ==
  /\ pc = "tls" /\ mode = "self"
  /\ IF cert.st = "whole" /\ key.st # "absent" /\ cert.gen \notin due
       THEN ReuseCert
       ELSE GenerateCert
  /\ UNCHANGED <<mode, files, users, required, ctx, finger, harmed, due, history,
                 made, starts>>

\* Fault: every start generates a certificate.
FindCertNever ==
  /\ pc = "tls" /\ mode = "self" /\ GenerateCert
  /\ UNCHANGED <<mode, files, users, required, ctx, finger, harmed, due, history,
                 made, starts>>

\* An existing pair is reused when the certificate has more than 30 days to go
\* (one that cannot be parsed has none); files that are empty do not exist.
FindCert ==
  /\ pc = "tls" /\ mode = "self"
  /\ \/ /\ IF Readable(cert) /\ Readable(key)
             /\ cert.st = "whole" /\ cert.gen \notin due
             THEN ReuseCert
             ELSE GenerateCert
     \/ /\ Fault("failed") /\ UNCHANGED <<pem, certs>>
  /\ UNCHANGED <<mode, files, users, required, ctx, finger, harmed, due, history,
                 made, starts>>

\* What is left if one of the two files is replaced and the other is not will be
\* taken for a pair that can be reused.
MixesPair == Readable(key)
KeepsFresh == cert.st = "whole" /\ cert.gen \notin due

\* An ofstream that cannot be opened, or written, is not noticed.
OpenCert ==
  /\ pc = "openCert"
  /\ \/ cert' = Empty(cert) /\ Goto("writeCert") /\ UNCHANGED <<faulted, harmed>>
     \/ /\ Fault("openKey") /\ UNCHANGED cert
        /\ harmed' = (harmed \/ KeepsFresh)
  /\ UNCHANGED <<mode, config, key, memory, due, history, counts>>

WriteCert ==
  /\ pc = "writeCert"
  /\ \/ cert' = Pem(pem) /\ Goto("openKey") /\ UNCHANGED faulted
     \/ cert' \in {cert, Torn(cert)} /\ Fault("openKey")
  /\ UNCHANGED <<mode, config, key, memory, harmed, due, history, counts>>

OpenKey ==
  /\ pc = "openKey"
  /\ \/ key' = Empty(key) /\ Goto("writeKey") /\ UNCHANGED <<faulted, harmed>>
     \/ /\ Fault("loadCert") /\ UNCHANGED key
        /\ harmed' = (harmed \/ MixesPair)
  /\ UNCHANGED <<mode, config, cert, memory, due, history, counts>>

WriteKey ==
  /\ pc = "writeKey"
  /\ \/ key' = Pem(pem) /\ Goto("loadCert") /\ UNCHANGED <<faulted, harmed>>
     \/ key' \in {key, Torn(key)} /\ Fault("loadCert") /\ harmed' = TRUE
  /\ UNCHANGED <<mode, config, cert, memory, due, history, counts>>

\* SSL_CTX_use_certificate_chain_file(), on the file and not on what was read.
LoadCert ==
  /\ pc = "loadCert"
  /\ \/ cert.st = "whole" /\ ctx' = cert.gen /\ Goto("loadKey")
     \/ cert.st # "whole" /\ Goto("failed") /\ UNCHANGED ctx
  /\ UNCHANGED <<mode, files, users, required, pem, finger, faulted, harmed, due,
                 history, counts>>

\* SSL_CTX_use_PrivateKey_file() and SSL_CTX_check_private_key(), and the
\* fingerprint of the certificate in memory.
LoadKey ==
  /\ pc = "loadKey"
  /\ \/ /\ key.st = "whole" /\ key.gen = ctx
        /\ finger' = pem /\ Goto("banner")
     \/ /\ ~(key.st = "whole" /\ key.gen = ctx)
        /\ Goto("failed") /\ UNCHANGED finger
  /\ UNCHANGED <<mode, files, users, required, pem, ctx, faulted, harmed, due,
                 history, counts>>

-----------------------------------------------------------------------------
(* Running, and ending.                                                     *)

\* printBanner(): the users, and when the public host is known (configured or
\* found by detectPublicIp) their links, which pin a self-signed certificate.
Banner ==
  /\ pc = "banner" /\ Goto("serving")
  /\ published' = published \cup (users \ {EnvUser})
  /\ \E hostKnown \in BOOLEAN :
       pins' = IF hostKnown /\ mode = "self" /\ ~faulted
                 THEN pins \cup {finger} ELSE pins
  /\ UNCHANGED <<mode, files, memory, faulted, harmed, due, unsaved, counts>>

Exit ==
  /\ pc = "failed" /\ Goto("down")
  /\ UNCHANGED <<mode, files, memory, faulted, harmed, due, history, counts>>

\* The process ends, at any point: stopped, or killed.
Kill ==
  /\ pc \notin {"down", "failed"} /\ Goto("down")
  /\ harmed' = (\/ harmed \/ pc = "writeConfig"
                \/ pc = "openKey" /\ MixesPair)
  /\ UNCHANGED <<mode, files, memory, faulted, due, history, counts>>

\* A self-signed certificate comes within 30 days of its end.
Age ==
  /\ mode = "self"
  /\ \E g \in 1 .. certs : g \notin due /\ due' = due \cup {g}
  /\ UNCHANGED <<mode, files, pc, memory, faulted, harmed, history, counts>>

\* The administrator replaces his certificate and then its key.
ReplaceOwn ==
  /\ mode = "own"
  /\ \/ /\ key = cert /\ certs < MaxOwn
        /\ cert' = Pem(certs + 1) /\ certs' = certs + 1
        /\ due' = due \cup {cert.gen} /\ UNCHANGED key
     \/ /\ key # cert
        /\ key' = cert /\ UNCHANGED <<cert, certs, due>>
  /\ UNCHANGED <<mode, config, pc, memory, faulted, harmed, history, made, starts>>

Next ==
  \/ Start \/ LoadConfig \/ OpenConfig \/ WriteConfig
  \/ FinishUsers \/ RefuseSettings
  \/ SkipTls \/ ReadOwn \/ FindCert \/ OpenCert \/ WriteCert \/ OpenKey \/ WriteKey
  \/ LoadCert \/ LoadKey \/ Banner \/ Exit \/ Kill \/ Age \/ ReplaceOwn

Spec == Init /\ [][Next]_vars
-----------------------------------------------------------------------------
\* doc/server-tls-support.md:231: the TLS port comes up without any step from
\* outside.  A start without a fault of its own fails only on settings that are
\* wrong, on an administrator's pair that has been replaced meanwhile, or after a
\* kill or a fault in one of three places: between the truncation and the writing
\* of the configuration, between a new cert.pem and the key.pem of an old one, or
\* in the writing of key.pem.
FailsForCause ==
  pc = "failed"
    => faulted \/ harmed \/ mode = "half" \/ (mode = "own" /\ due # {})

\* A user shown in the banner, unless with the warning that it was not saved, is
\* admitted by every later start (ensureDefaultUser, loadServerConfig).
UsersLast == pc = "serving" => published \ unsaved \subseteq users

\* A share link keeps working: its pinned fingerprint is that of the certificate
\* served, across kills and restarts, until that has 30 days to go (certSha256,
\* createServerSslContext).
PinsLast == pc = "serving" /\ mode = "self" => \A g \in pins : g = ctx \/ g \in due
=============================================================================
