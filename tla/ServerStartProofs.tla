-------------------------- MODULE ServerStartProofs --------------------------
(***************************************************************************)
(* The safety properties of ServerStart, for every number of starts and of   *)
(* certificates of the administrator's.  Each rests on one inductive         *)
(* invariant: on the counters, on the users, on the certificate in memory    *)
(* and on the two files.                                                     *)
(***************************************************************************)
EXTENDS ServerStart, TLAPS

\* No start generates more than one user and one certificate.
Counts ==
  /\ mode = "self" => certs <= starts
  /\ mode = "self" /\ pc \in {"load", "openConfig", "writeConfig", "args", "tls"}
       => certs < starts
  /\ mode = "own" => certs \in 1 .. MaxOwn
  /\ mode \in {"plain", "half"} => certs = 0
  /\ pc = "load" => made < starts
  /\ pc = "args" /\ users = {} => made < starts
  /\ pc \in {"openConfig", "writeConfig"} => users # {} /\ EnvUser \notin users
  /\ pc \in {"openCert", "writeCert", "openKey", "writeKey"} => mode = "self"

\* A certificate that is whole, in memory or in a link has been generated.
Gens ==
  /\ cert.gen \in 0 .. certs
  /\ cert.st = "whole" => cert.gen # 0
  /\ mode = "own" => cert.st = "whole"
  /\ pc \in {"openCert", "writeCert", "openKey", "writeKey", "loadCert", "loadKey"}
       => pem # 0
  /\ pc = "banner" /\ mode = "self" => finger # 0

Inv == TypeOK /\ Counts /\ Gens

\* What an ofstream leaves of a file: its contents are those of no pair.
LEMMA FileStates ==
  ASSUME NEW G, NEW f \in [st : States, gen : G]
  PROVE  /\ Empty(f) \in [st : States, gen : G] /\ Empty(f).st = "empty"
         /\ Torn(f) \in [st : States, gen : G] /\ Torn(f).st = "torn"
         /\ Empty(f).gen = f.gen /\ Torn(f).gen = f.gen
BY DEF Empty, Torn, States

\* The same for the configuration, whose users stay on record.
LEMMA ConfigStates ==
  ASSUME NEW U, NEW f \in [st : States, users : U]
  PROVE  /\ Empty(f) \in [st : States, users : U] /\ Empty(f).st = "empty"
         /\ Torn(f) \in [st : States, users : U] /\ Torn(f).st = "torn"
         /\ Empty(f).users = f.users /\ Torn(f).users = f.users
BY DEF Empty, Torn, States

\* A fresh installation satisfies the invariant.
LEMMA InvInit == Init => Inv
<1> SUFFICES ASSUME Init PROVE Inv
  OBVIOUS
<1> USE StartAssumption
<1>1. config \in [st : States, users : SUBSET (Admin .. made)]
  BY DEF Init, States, Admin
<1>2. cert \in [st : States, gen : 0 .. MaxStarts + MaxOwn] /\ key = cert
  BY DEF Init, States, Pem, Absent
<1>3. TypeOK
  <2>1. /\ mode \in Modes /\ pc \in Steps /\ made \in 0 .. starts
        /\ certs \in 0 .. MaxStarts + MaxOwn /\ starts \in 0 .. MaxStarts
    BY DEF Init, Steps
  <2>2. {pem, ctx, finger} \subseteq 0 .. certs
    BY DEF Init
  <2>3. {required, faulted, harmed} \subseteq BOOLEAN
    BY Zenon DEF Init
  <2>4. /\ users \subseteq Admin .. made /\ due \subseteq 1 .. certs /\ pins \subseteq 1 .. certs
        /\ published \cup unsaved \subseteq (Admin .. made) \ {EnvUser}
    BY DEF Init
  <2> QED
    BY <1>1, <1>2, <2>1, <2>2, <2>3, <2>4 DEF TypeOK
<1>4. Counts
  BY DEF Init, Counts, Modes
<1>5. Gens
  BY DEF Init, Gens, Pem, Absent
<1> QED
  BY <1>3, <1>4, <1>5 DEF Inv

\* The counters first: the types of users and of certificates rest on them.
LEMMA CountsStep == Inv /\ [Next]_vars => Counts' /\ (/\ made \in 0 .. starts
                                                      /\ starts \in 0 .. MaxStarts
                                                      /\ certs \in 0 .. MaxStarts + MaxOwn)'
<1> SUFFICES ASSUME Inv, [Next]_vars
             PROVE  Counts' /\ (/\ made \in 0 .. starts /\ starts \in 0 .. MaxStarts
                                /\ certs \in 0 .. MaxStarts + MaxOwn)'
  OBVIOUS
<1> USE StartAssumption
<1>a. /\ made \in 0 .. starts /\ starts \in 0 .. MaxStarts
      /\ certs \in 0 .. MaxStarts + MaxOwn /\ mode \in Modes
  BY DEF Inv, TypeOK
<1>b. Counts
  BY DEF Inv
<1>1. CASE Start
  BY <1>a, <1>b, <1>1 DEF Start, Counts, Goto, Modes
<1>2. CASE LoadConfig
  BY <1>a, <1>b, <1>2 DEF LoadConfig, GenerateUser, Counts, Goto, EnvUser
<1>3. CASE OpenConfig
  BY <1>a, <1>b, <1>3 DEF OpenConfig, WriteFails, Fault, Counts, Goto, memory, counts
<1>4. CASE WriteConfig
  BY <1>a, <1>b, <1>4 DEF WriteConfig, WriteFails, Fault, Counts, Goto, memory, counts
<1>5. CASE FinishUsers
  BY <1>a, <1>b, <1>5 DEF FinishUsers, GenerateUser, Counts, Goto, EnvUser
<1>6. CASE RefuseSettings \/ SkipTls \/ Exit
  BY <1>a, <1>b, <1>6
     DEF RefuseSettings, SkipTls, Exit, Counts, Goto, memory, counts
<1>7. CASE ReadOwn
  BY <1>a, <1>b, <1>7 DEF ReadOwn, ReuseCert, Fault, Counts, Goto
<1>8. CASE FindCert
  BY <1>a, <1>b, <1>8 DEF FindCert, ReuseCert, GenerateCert, Fault, Counts, Goto
<1>9. CASE OpenCert \/ WriteCert \/ OpenKey \/ WriteKey
  BY <1>a, <1>b, <1>9
     DEF OpenCert, WriteCert, OpenKey, WriteKey, Fault, Counts, Goto, memory, counts
<1>10. CASE LoadCert \/ LoadKey
  BY <1>a, <1>b, <1>10 DEF LoadCert, LoadKey, Counts, Goto, counts
<1>11. CASE Banner \/ Kill
  BY <1>a, <1>b, <1>11 DEF Banner, Kill, Counts, Goto, memory, counts
<1>12. CASE Age
  BY <1>a, <1>b, <1>12 DEF Age, Counts, memory, counts
<1>13. CASE ReplaceOwn
  BY <1>a, <1>b, <1>13 DEF ReplaceOwn, Counts, memory
<1>14. CASE UNCHANGED vars
  BY <1>a, <1>b, <1>14 DEF vars, Counts, memory, counts
<1> QED
  BY <1>1, <1>2, <1>3, <1>4, <1>5, <1>6, <1>7, <1>8, <1>9, <1>10, <1>11, <1>12,
     <1>13, <1>14 DEF Next

\* The sets of numbers that types are made of only grow.
LEMMA Growing ==
  Inv /\ [Next]_vars
    => /\ made' \in Nat /\ made <= made' /\ Admin .. made \subseteq Admin .. made'
       /\ certs' \in Nat /\ certs <= certs' /\ 0 .. certs \subseteq 0 .. certs'
       /\ 1 .. certs \subseteq 1 .. certs'
<1> SUFFICES ASSUME Inv, [Next]_vars
             PROVE  /\ made' \in Nat /\ made <= made' /\ certs' \in Nat /\ certs <= certs'
  BY DEF Inv, TypeOK, Admin
<1>1. made \in Nat /\ certs \in Nat /\ made' \in Nat /\ certs' \in Nat
  BY CountsStep, StartAssumption DEF Inv, TypeOK
<1>2. made' \in {made, made + 1}
  BY DEF Next, vars, Start, LoadConfig, GenerateUser, OpenConfig, WriteConfig, FinishUsers,
     RefuseSettings, SkipTls, ReadOwn, FindCert, OpenCert, WriteCert, OpenKey, WriteKey,
     LoadCert, LoadKey, Banner, Exit, Kill, Age, ReplaceOwn, counts
<1>3. certs' \in {certs, certs + 1}
  BY DEF Next, vars, Start, LoadConfig, OpenConfig, WriteConfig, FinishUsers,
     RefuseSettings, SkipTls, ReadOwn, FindCert, ReuseCert, GenerateCert, OpenCert, WriteCert,
     OpenKey, WriteKey, LoadCert, LoadKey, Banner, Exit, Kill, Age, ReplaceOwn, counts
<1> QED
  BY <1>1, <1>2, <1>3

\* The users, in memory and in the configuration.
LEMMA UserTypes ==
  Inv /\ [Next]_vars
    => (/\ config \in [st : States, users : SUBSET (Admin .. made)]
        /\ users \subseteq Admin .. made
        /\ published \cup unsaved \subseteq (Admin .. made) \ {EnvUser})'
<1> SUFFICES ASSUME Inv, [Next]_vars
             PROVE  (/\ config \in [st : States, users : SUBSET (Admin .. made)]
                     /\ users \subseteq Admin .. made
                     /\ published \cup unsaved \subseteq (Admin .. made) \ {EnvUser})'
  OBVIOUS
<1> DEFINE Users == Admin .. made
           Saved == [st : States, users : SUBSET Users]
<1>1. made' \in Nat /\ Users \subseteq Users' /\ Saved \subseteq Saved'
      /\ {} \in SUBSET Users' /\ {EnvUser, made'} \subseteq Users'
  BY Growing DEF EnvUser, Admin
<1>2. config \in Saved /\ users \subseteq Users /\ published \cup unsaved \subseteq Users \ {EnvUser}
  BY DEF Inv, TypeOK
<1>3. Empty(config) \in Saved /\ Torn(config) \in Saved
  BY <1>2, ConfigStates
<1>4. [st |-> "whole", users |-> users] \in Saved
  BY <1>2 DEF States
<1>5. config' \in {config, Empty(config), Torn(config), [st |-> "whole", users |-> users]}
  BY DEF Next, vars, Start, LoadConfig, GenerateUser, OpenConfig, WriteConfig, FinishUsers,
     RefuseSettings, SkipTls, ReadOwn, FindCert, OpenCert, WriteCert, OpenKey, WriteKey,
     LoadCert, LoadKey, Banner, Exit, Kill, Age, ReplaceOwn, files
<1>6. users' \in {users, {}, config.users, users \cup {EnvUser}, {made'}}
  <2>1. CASE FinishUsers
    BY <2>1 DEF FinishUsers, GenerateUser
  <2>2. CASE LoadConfig
    BY <2>2 DEF LoadConfig, GenerateUser
  <2> QED
    BY <2>1, <2>2 DEF Next, vars, Start, OpenConfig, WriteConfig,
       RefuseSettings, SkipTls, ReadOwn, FindCert, OpenCert, WriteCert, OpenKey, WriteKey,
       LoadCert, LoadKey, Banner, Exit, Kill, Age, ReplaceOwn, memory
<1>7. /\ published' \in {published, published \cup (users \ {EnvUser})}
      /\ \/ unsaved' = unsaved
         \/ unsaved' = unsaved \cup users /\ pc \in {"openConfig", "writeConfig"}
  BY DEF Next, vars, Start, LoadConfig, GenerateUser, OpenConfig, WriteConfig, WriteFails,
     FinishUsers, RefuseSettings, SkipTls, ReadOwn, FindCert, OpenCert, WriteCert, OpenKey,
     WriteKey, LoadCert, LoadKey, Banner, Exit, Kill, Age, ReplaceOwn, history
<1>8. pc \in {"openConfig", "writeConfig"} => EnvUser \notin users
  BY DEF Inv, Counts
<1>9. config' \in Saved'
  BY <1>1, <1>2, <1>3, <1>4, <1>5
<1>10. users' \subseteq Users'
  BY <1>1, <1>2, <1>6
<1>11. published' \cup unsaved' \subseteq Users' \ {EnvUser}
  BY <1>1, <1>2, <1>7, <1>8
<1> QED
  BY <1>9, <1>10, <1>11

\* The two files of a pair.
LEMMA FileTypes ==
  Inv /\ [Next]_vars
    => (/\ cert \in [st : States, gen : 0 .. MaxStarts + MaxOwn]
        /\ key \in [st : States, gen : 0 .. MaxStarts + MaxOwn])'
<1> SUFFICES ASSUME Inv, [Next]_vars
             PROVE  (/\ cert \in [st : States, gen : 0 .. MaxStarts + MaxOwn]
                     /\ key \in [st : States, gen : 0 .. MaxStarts + MaxOwn])'
  OBVIOUS
<1> DEFINE File == [st : States, gen : 0 .. MaxStarts + MaxOwn]
<1>1. /\ cert \in File /\ key \in File /\ pem \in 0 .. MaxStarts + MaxOwn
      /\ certs' \in 0 .. MaxStarts + MaxOwn
  BY CountsStep, StartAssumption DEF Inv, TypeOK
<1>2. /\ Empty(cert) \in File /\ Torn(cert) \in File
      /\ Empty(key) \in File /\ Torn(key) \in File
  BY <1>1, FileStates
<1>3. Pem(pem) \in File /\ Pem(certs') \in File
  BY <1>1 DEF Pem, States
<1>4. cert' \in {cert, Empty(cert), Torn(cert), Pem(pem), Pem(certs')}
  BY DEF Next, vars, Start, LoadConfig, GenerateUser, OpenConfig, WriteConfig, FinishUsers,
     RefuseSettings, SkipTls, ReadOwn, FindCert, OpenCert, WriteCert, OpenKey, WriteKey,
     LoadCert, LoadKey, Banner, Exit, Kill, Age, ReplaceOwn, files
<1>5. key' \in {key, Empty(key), Torn(key), Pem(pem), cert}
  BY DEF Next, vars, Start, LoadConfig, GenerateUser, OpenConfig, WriteConfig, FinishUsers,
     RefuseSettings, SkipTls, ReadOwn, FindCert, OpenCert, WriteCert, OpenKey, WriteKey,
     LoadCert, LoadKey, Banner, Exit, Kill, Age, ReplaceOwn, files
<1> QED
  BY <1>1, <1>2, <1>3, <1>4, <1>5

\* The numbers of certificates on file and in memory.
LEMMA GensStep == Inv /\ [Next]_vars => Gens' /\ ({pem, ctx, finger} \subseteq 0 .. certs)'
<1> SUFFICES ASSUME Inv, [Next]_vars
             PROVE  Gens' /\ ({pem, ctx, finger} \subseteq 0 .. certs)'
  OBVIOUS
<1>a. /\ {pem, ctx, finger} \subseteq 0 .. certs /\ Gens
      /\ certs \in Nat /\ certs' \in Nat /\ certs <= certs'
      /\ cert \in [st : States, gen : 0 .. MaxStarts + MaxOwn]
      /\ pc \in {"openCert", "writeCert", "openKey", "writeKey"} => mode = "self"
  BY Growing, StartAssumption DEF Inv, TypeOK, Counts
<1>b. /\ Empty(cert).st = "empty" /\ Torn(cert).st = "torn"
      /\ Empty(cert).gen = cert.gen /\ Torn(cert).gen = cert.gen
  BY <1>a, FileStates
<1>1. CASE Start \/ LoadConfig \/ FinishUsers
  BY <1>a, <1>1 DEF Start, LoadConfig, FinishUsers, GenerateUser, Gens, Goto, files
<1>2. CASE OpenConfig \/ WriteConfig
  BY <1>a, <1>2 DEF OpenConfig, WriteConfig, WriteFails, Fault, Gens, Goto, memory, counts
<1>3. CASE RefuseSettings \/ SkipTls \/ Exit \/ Kill
  BY <1>a, <1>3
     DEF RefuseSettings, SkipTls, Exit, Kill, Gens, Goto, files, memory, counts
<1>4. CASE ReadOwn
  BY <1>a, <1>4 DEF ReadOwn, ReuseCert, Fault, Gens, Goto, files
<1>5. CASE FindCert
  BY <1>a, <1>5 DEF FindCert, ReuseCert, GenerateCert, Fault, Gens, Goto, files
<1>6. CASE OpenCert
  BY <1>a, <1>b, <1>6 DEF OpenCert, Fault, Gens, Goto, memory, counts
<1>7. CASE WriteCert
  BY <1>a, <1>b, <1>7 DEF WriteCert, Pem, Fault, Gens, Goto, memory, counts
<1>8. CASE OpenKey \/ WriteKey
  BY <1>a, <1>8 DEF OpenKey, WriteKey, Fault, Gens, Goto, memory, counts
<1>9. CASE LoadCert \/ LoadKey
  BY <1>a, <1>9 DEF LoadCert, LoadKey, Gens, Goto, files, counts
<1>10. CASE Banner \/ Age
  BY <1>a, <1>10 DEF Banner, Age, Gens, Goto, files, memory, counts
<1>11. CASE ReplaceOwn
  BY <1>a, <1>11 DEF ReplaceOwn, Pem, Gens, memory
<1>12. CASE UNCHANGED vars
  BY <1>a, <1>12 DEF vars, Gens, files, memory, counts
<1> QED
  BY <1>1, <1>2, <1>3, <1>4, <1>5, <1>6, <1>7, <1>8, <1>9, <1>10, <1>11, <1>12 DEF Next

\* The certificates in links and past their time.
LEMMA CertTypes ==
  Inv /\ [Next]_vars => (due \subseteq 1 .. certs /\ pins \subseteq 1 .. certs)'
<1> SUFFICES ASSUME Inv, [Next]_vars
             PROVE  due' \subseteq 1 .. certs' /\ pins' \subseteq 1 .. certs'
  OBVIOUS
<1>1. /\ due \subseteq 1 .. certs /\ pins \subseteq 1 .. certs /\ finger \in 0 .. certs
      /\ 1 .. certs \subseteq 1 .. certs' /\ certs \in Nat
  BY Growing, StartAssumption DEF Inv, TypeOK
<1>2. due' \subseteq due \cup 1 .. certs
  <2>1. CASE Age
    BY <2>1 DEF Age
  <2>2. CASE ReplaceOwn
    BY <1>1, <2>2 DEF ReplaceOwn, Inv, Gens
  <2> QED
    BY <2>1, <2>2 DEF Next, vars, Start, LoadConfig, OpenConfig, WriteConfig, FinishUsers,
       RefuseSettings, SkipTls, ReadOwn, FindCert, OpenCert, WriteCert, OpenKey, WriteKey,
       LoadCert, LoadKey, Banner, Exit, Kill
<1>3. pins' \subseteq pins \cup 1 .. certs
  <2>1. CASE Banner
    BY <1>1, <2>1 DEF Banner, Inv, Gens
  <2> QED
    BY <2>1 DEF Next, vars, Start, LoadConfig, OpenConfig, WriteConfig, FinishUsers,
       RefuseSettings, SkipTls, ReadOwn, FindCert, OpenCert, WriteCert, OpenKey, WriteKey,
       LoadCert, LoadKey, Exit, Kill, Age, ReplaceOwn, history
<1> QED
  BY <1>1, <1>2, <1>3

\* Where the start is.
LEMMA PlaceTypes ==
  Inv /\ [Next]_vars
    => (/\ mode \in Modes /\ pc \in Steps
        /\ {required, faulted, harmed} \subseteq BOOLEAN)'
<1> SUFFICES ASSUME Inv, [Next]_vars
             PROVE  /\ mode' \in Modes /\ pc' \in Steps
                    /\ {required', faulted', harmed'} \subseteq BOOLEAN
  OBVIOUS
<1>1. mode \in Modes /\ pc \in Steps /\ {required, faulted, harmed} \subseteq BOOLEAN
  BY DEF Inv, TypeOK
<1>2. mode' = mode
  BY DEF Next, vars, Start, LoadConfig, OpenConfig, WriteConfig, FinishUsers,
     RefuseSettings, SkipTls, ReadOwn, FindCert, OpenCert, WriteCert, OpenKey, WriteKey,
     LoadCert, LoadKey, Banner, Exit, Kill, Age, ReplaceOwn
<1>3. pc' \in Steps
  BY <1>1 DEF Next, vars, Start, LoadConfig, GenerateUser, OpenConfig, WriteConfig,
     WriteFails, FinishUsers, RefuseSettings, SkipTls, ReadOwn, FindCert, ReuseCert,
     GenerateCert, OpenCert, WriteCert, OpenKey, WriteKey, LoadCert, LoadKey, Banner, Exit,
     Kill, Age, ReplaceOwn, Goto, Fault, Steps
<1>4. required' \in {required, TRUE, FALSE} /\ faulted' \in {faulted, TRUE, FALSE}
  BY DEF Next, vars, Start, LoadConfig, GenerateUser, OpenConfig, WriteConfig,
     WriteFails, FinishUsers, RefuseSettings, SkipTls, ReadOwn, FindCert, ReuseCert,
     GenerateCert, OpenCert, WriteCert, OpenKey, WriteKey, LoadCert, LoadKey, Banner, Exit,
     Kill, Age, ReplaceOwn, Fault, memory
<1>5. harmed' \in BOOLEAN
  BY <1>1 DEF Next, vars, Start, LoadConfig, OpenConfig, WriteConfig, FinishUsers,
     RefuseSettings, SkipTls, ReadOwn, FindCert, OpenCert, WriteCert, OpenKey, WriteKey,
     LoadCert, LoadKey, Banner, Exit, Kill, Age, ReplaceOwn
<1> QED
  BY <1>1, <1>2, <1>3, <1>4, <1>5

\* Every step keeps the types and the counters.
LEMMA InvStep == Inv /\ [Next]_vars => Inv'
BY CountsStep, UserTypes, FileTypes, GensStep, CertTypes, PlaceTypes DEF Inv, TypeOK

\* Type correctness: main() and createServerSslContext() stay within the states
\* named, and no start generates more than one user and one certificate.
THEOREM TypeCorrect == Spec => []TypeOK
<1>1. Inv => TypeOK
  BY DEF Inv
<1> QED
  BY InvInit, InvStep, <1>1, PTL DEF Spec
-----------------------------------------------------------------------------
(* The users.                                                               *)

Later == {"tls", "openCert", "writeCert", "openKey", "writeKey", "loadCert", "loadKey",
          "banner", "serving"}

\* Users that have been shown are on file, and from the reading of the file on
\* in memory; it is only rewritten when it has none.
UserInv ==
  /\ published \ unsaved \subseteq config.users
  /\ config.st = "absent" => config.users = {}
  /\ pc \in {"openConfig", "writeConfig"} => config.users = {}
  /\ pc = "args" => users = config.users
  /\ pc \in Later => /\ config.users \subseteq users
                     /\ users \ {EnvUser} \subseteq config.users \cup unsaved

\* No user has been shown yet.
LEMMA UserInvInit == Init => UserInv
BY DEF Init, UserInv, Later

\* Every step keeps what has been shown on file.
LEMMA UserInvStep == Inv /\ UserInv /\ [Next]_vars => UserInv'
<1> SUFFICES ASSUME Inv, UserInv, [Next]_vars PROVE UserInv'
  OBVIOUS
<1>a. /\ config \in [st : States, users : SUBSET (Admin .. made)]
      /\ pc \in Steps /\ UserInv
  BY DEF Inv, TypeOK
<1>b. /\ Empty(config).st = "empty" /\ Torn(config).st = "torn"
      /\ Empty(config).users = config.users /\ Torn(config).users = config.users
  BY <1>a, ConfigStates
<1>1. CASE Start
  BY <1>a, <1>1 DEF Start, UserInv, Later, Goto, files, history
<1>2. CASE LoadConfig
  BY <1>a, <1>2 DEF LoadConfig, GenerateUser, UserInv, Later, Goto, files, history
<1>3. CASE OpenConfig
  BY <1>a, <1>b, <1>3 DEF OpenConfig, WriteFails, Fault, UserInv, Later, Goto, memory
<1>4. CASE WriteConfig
  BY <1>a, <1>b, <1>4 DEF WriteConfig, WriteFails, Fault, UserInv, Later, Goto, memory
<1>5. CASE FinishUsers
  BY <1>a, <1>5 DEF FinishUsers, GenerateUser, UserInv, Later, Goto, files, history
<1>6. CASE RefuseSettings \/ SkipTls \/ Exit \/ Kill
  BY <1>a, <1>6
     DEF RefuseSettings, SkipTls, Exit, Kill, UserInv, Later, Goto, files, memory, history
<1>7. CASE ReadOwn \/ FindCert
  BY <1>a, <1>7
     DEF ReadOwn, FindCert, ReuseCert, GenerateCert, Fault, UserInv, Later, Goto, files, history
<1>8. CASE OpenCert \/ WriteCert \/ OpenKey \/ WriteKey
  BY <1>a, <1>8
     DEF OpenCert, WriteCert, OpenKey, WriteKey, Fault, UserInv, Later, Goto, memory, history
<1>9. CASE LoadCert \/ LoadKey
  BY <1>a, <1>9 DEF LoadCert, LoadKey, UserInv, Later, Goto, files, history
<1>10. CASE Banner
  BY <1>a, <1>10 DEF Banner, UserInv, Later, Goto, files, memory
<1>11. CASE Age \/ ReplaceOwn
  BY <1>a, <1>11 DEF Age, ReplaceOwn, UserInv, files, memory, history
<1>12. CASE UNCHANGED vars
  BY <1>a, <1>12 DEF vars, UserInv, files, memory, history
<1> QED
  BY <1>1, <1>2, <1>3, <1>4, <1>5, <1>6, <1>7, <1>8, <1>9, <1>10, <1>11, <1>12 DEF Next

\* Whatever start is killed and whichever file operation fails, a user shown in
\* the banner as saved is admitted by every later start.
THEOREM ShownUsersLast == Spec => []UsersLast
<1>1. UserInv => UsersLast
  BY DEF UserInv, UsersLast, Later
<1> QED
  BY InvInit, InvStep, UserInvInit, UserInvStep, <1>1, PTL DEF Spec
-----------------------------------------------------------------------------
(* The certificate in memory, the one in the context and the one in links.  *)

\* From the writing of cert.pem on, the file holds what is in memory; from its
\* loading on, what the context holds.  A pair that a link pins is on file, and
\* not replaced before its time.
PinInv ==
  /\ mode = "self" /\ ~faulted /\ pc \in {"openKey", "writeKey", "loadCert", "loadKey", "banner"}
       => cert = Pem(pem)
  /\ mode = "self" /\ pc \in {"loadKey", "banner", "serving"} => cert = Pem(ctx)
  /\ mode = "self" /\ pc = "banner" => finger = pem /\ key = Pem(ctx)
  /\ \A g \in pins \ due : /\ mode = "self" /\ cert = Pem(g) /\ key = Pem(g)
                           /\ pc \notin {"openCert", "writeCert", "openKey", "writeKey"}

\* Generations tell certificates apart, and a whole file is that of its own.
LEMMA Pems ==
  /\ \A g, h : Pem(g) = Pem(h) => g = h
  /\ \A g : Pem(g).st = "whole" /\ Pem(g).gen = g
  /\ \A G, f : f \in [st : States, gen : G] /\ f.st = "whole" => f = Pem(f.gen)
BY DEF Pem, States

\* Nothing is pinned yet.
LEMMA PinInvInit == Init => PinInv
BY DEF Init, PinInv

\* Every step keeps the pinned pair on file.
LEMMA PinInvStep == Inv /\ PinInv /\ [Next]_vars => PinInv'
<1> SUFFICES ASSUME Inv, PinInv, [Next]_vars PROVE PinInv'
  OBVIOUS
<1>a. /\ faulted \in BOOLEAN /\ PinInv
      /\ pc \in {"openCert", "writeCert", "openKey", "writeKey"} => mode = "self"
      /\ cert.st = "whole" => cert = Pem(cert.gen)
      /\ key.st = "whole" => key = Pem(key.gen)
  BY Pems DEF Inv, TypeOK, Counts
<1>1. CASE Start
  BY <1>a, <1>1 DEF Start, PinInv, Goto, files, history
<1>2. CASE LoadConfig \/ OpenConfig \/ WriteConfig \/ FinishUsers
  BY <1>a, <1>2 DEF LoadConfig, OpenConfig, WriteConfig, WriteFails, FinishUsers,
     GenerateUser, Fault, PinInv, Goto, files, memory, history
<1>3. CASE RefuseSettings \/ SkipTls \/ Exit \/ Kill
  BY <1>a, <1>3
     DEF RefuseSettings, SkipTls, Exit, Kill, PinInv, Goto, files, memory, history
<1>4. CASE ReadOwn
  BY <1>a, <1>4 DEF ReadOwn, ReuseCert, Fault, PinInv, Goto, files, history
<1>5. CASE FindCert
  <2>1. \A g \in pins \ due : Readable(cert) /\ Readable(key) /\ cert.st = "whole" /\ cert.gen \notin due
    BY <1>a, Pems DEF PinInv, Readable
  <2> QED
    BY <1>a, <1>5, <2>1 DEF FindCert, ReuseCert, GenerateCert, Fault, PinInv, Goto, files, history
<1>6. CASE OpenCert
  BY <1>a, <1>6 DEF OpenCert, Fault, PinInv, Goto, memory, history
<1>7. CASE WriteCert
  BY <1>a, <1>7 DEF WriteCert, Fault, PinInv, Goto, memory, history
<1>8. CASE OpenKey
  BY <1>a, <1>8 DEF OpenKey, Fault, PinInv, Goto, memory, history
<1>9. CASE WriteKey
  BY <1>a, <1>9 DEF WriteKey, Fault, PinInv, Goto, memory, history
<1>10. CASE LoadCert
  BY <1>a, <1>10 DEF LoadCert, PinInv, Goto, files, history
<1>11. CASE LoadKey
  BY <1>a, <1>11 DEF LoadKey, PinInv, Goto, files, history
<1>12. CASE Banner
  BY <1>a, Pems, <1>12 DEF Banner, PinInv, Goto, files, memory
<1>13. CASE Age
  BY <1>a, <1>13 DEF Age, PinInv, files, memory, history
<1>14. CASE ReplaceOwn
  BY <1>a, <1>14 DEF ReplaceOwn, PinInv, memory, history
<1>15. CASE UNCHANGED vars
  BY <1>a, <1>15 DEF vars, PinInv, files, memory, history
<1> QED
  BY <1>1, <1>2, <1>3, <1>4, <1>5, <1>6, <1>7, <1>8, <1>9, <1>10, <1>11, <1>12, <1>13,
     <1>14, <1>15 DEF Next

\* A share link keeps pinning the certificate that is served, until that has 30
\* days to go, across kills, restarts and failed file operations.
THEOREM LinksKeepWorking == Spec => []PinsLast
<1>1. PinInv => PinsLast
  BY Pems DEF PinInv, PinsLast
<1> QED
  BY InvInit, InvStep, PinInvInit, PinInvStep, <1>1, PTL DEF Spec
-----------------------------------------------------------------------------
(* Why a start fails.                                                       *)

\* A pair that would be reused is one.
Reusable == cert.st = "whole" /\ cert.gen \notin due /\ Readable(key)
Pair == cert.st = "whole" /\ key = cert

Causes == faulted \/ harmed \/ mode = "half" \/ (mode = "own" /\ due # {})

\* Unless a kill or a fault has fallen where a file is half changed, a file that
\* a later start reads is in order; a start that has met no fault is given a pair
\* that can be loaded.
FailInv ==
  /\ pc \in {"loadCert", "loadKey"} => mode \in {"self", "own"}
  /\ ~harmed /\ config.st \in {"empty", "torn"} => pc = "writeConfig"
  /\ pc = "writeCert" => cert.st = "empty"
  /\ ~harmed /\ pc \in {"openKey", "writeKey"} /\ cert.st = "whole" /\ cert.gen \notin due
       => cert = Pem(pem)
  /\ ~harmed /\ mode = "self" /\ Reusable => pc = "openKey" \/ key = cert
  /\ ~harmed /\ ~faulted /\ mode = "self" /\ pc \in {"loadCert", "loadKey"} => Pair
  /\ mode = "own" /\ due = {} => Pair
  /\ mode = "own" /\ due = {} /\ pc = "loadKey" => ctx = cert.gen
  /\ pc = "failed" => Causes

\* What a fresh installation finds is in order.
LEMMA FailInvInit == Init => FailInv
BY Pems DEF Init, FailInv, Pair, Reusable, Absent, States, Readable

\* Every step leaves the files in order, or a cause on record.
LEMMA FailInvStep == Inv /\ PinInv /\ FailInv /\ [Next]_vars => FailInv'
<1> SUFFICES ASSUME Inv, PinInv, FailInv, [Next]_vars PROVE FailInv'
  OBVIOUS
<1>a. /\ faulted \in BOOLEAN /\ harmed \in BOOLEAN /\ FailInv /\ mode \in Modes
      /\ pc \in {"openCert", "writeCert", "openKey", "writeKey"} => mode = "self"
      /\ config.st \in States /\ pc \in Steps
  BY DEF Inv, TypeOK, Counts
<1>b. /\ Empty(config).st = "empty" /\ Torn(config).st = "torn"
      /\ Empty(cert).st = "empty" /\ Torn(cert).st = "torn"
      /\ Empty(key).st = "empty" /\ Torn(key).st = "torn"
  <2>1. cert \in [st : States, gen : 0 .. MaxStarts + MaxOwn]
        /\ key \in [st : States, gen : 0 .. MaxStarts + MaxOwn]
    BY DEF Inv, TypeOK
  <2>2. config \in [st : States, users : SUBSET (Admin .. made)]
    BY DEF Inv, TypeOK
  <2>3. Empty(config).st = "empty" /\ Torn(config).st = "torn"
    BY <2>2, ConfigStates
  <2> QED
    BY <2>1, <2>3, FileStates
<1>1. CASE Start
  BY <1>a, <1>1 DEF Start, FailInv, Causes, Pair, Reusable, Goto, files
<1>2. CASE LoadConfig
  BY <1>a, <1>2 DEF LoadConfig, GenerateUser, FailInv, Causes, Pair, Reusable, Goto, files
<1>3. CASE OpenConfig
  BY <1>a, <1>b, <1>3
     DEF OpenConfig, WriteFails, Fault, FailInv, Causes, Pair, Reusable, Goto, memory
<1>4. CASE WriteConfig
  BY <1>a, <1>b, <1>4
     DEF WriteConfig, WriteFails, Fault, FailInv, Causes, Pair, Reusable, Goto, memory
<1>5. CASE FinishUsers
  BY <1>a, <1>5 DEF FinishUsers, GenerateUser, FailInv, Causes, Pair, Reusable, Goto, files
<1>6. CASE RefuseSettings \/ SkipTls \/ Exit
  BY <1>a, <1>6 DEF RefuseSettings, SkipTls, Exit, FailInv, Causes, Pair, Reusable, Goto,
                   files, memory
<1>7. CASE Kill
  BY <1>a, <1>7 DEF Kill, MixesPair, FailInv, Causes, Pair, Reusable, Goto, files, memory
<1>8. CASE ReadOwn
  BY <1>a, <1>8 DEF ReadOwn, ReuseCert, Fault, FailInv, Causes, Pair, Reusable, Goto, files
<1>9. CASE FindCert
  BY <1>a, <1>9
     DEF FindCert, ReuseCert, GenerateCert, Fault, FailInv, Causes, Pair, Reusable, Goto, files
<1>10. CASE OpenCert
  BY <1>a, <1>b, <1>10 DEF OpenCert, KeepsFresh, Fault, FailInv, Causes, Pair, Reusable,
                          Readable, Goto, memory
<1>11. CASE WriteCert
  BY <1>a, <1>b, Pems, <1>11 DEF WriteCert, Fault, FailInv, Causes, Pair, Reusable, Readable,
                                Goto, memory
<1>12. CASE OpenKey
  BY <1>a, <1>b, <1>12 DEF OpenKey, MixesPair, Fault, FailInv, Causes, Pair, Reusable,
                          Readable, Goto, memory
<1>13. CASE WriteKey
  BY <1>a, <1>b, Pems, <1>13 DEF WriteKey, Fault, FailInv, PinInv, Causes, Pair, Reusable,
                                Readable, Goto, memory
<1>14. CASE LoadCert
  BY <1>a, <1>14 DEF LoadCert, FailInv, Causes, Pair, Reusable, Goto, files
<1>15. CASE LoadKey
  BY <1>a, <1>15 DEF LoadKey, FailInv, PinInv, Pem, Causes, Pair, Reusable, Goto, files
<1>16. CASE Banner
  BY <1>a, <1>16 DEF Banner, FailInv, Causes, Pair, Reusable, Goto, files, memory
<1>17. CASE Age
  BY <1>a, <1>17 DEF Age, FailInv, Causes, Pair, Reusable, files, memory
<1>18. CASE ReplaceOwn
  BY <1>a, <1>18 DEF ReplaceOwn, FailInv, Causes, Pair, Reusable, memory
<1>19. CASE UNCHANGED vars
  BY <1>a, <1>19 DEF vars, FailInv, Causes, Pair, Reusable, Readable, files, memory
<1> QED
  BY <1>1, <1>2, <1>3, <1>4, <1>5, <1>6, <1>7, <1>8, <1>9, <1>10, <1>11, <1>12, <1>13,
     <1>14, <1>15, <1>16, <1>17, <1>18, <1>19 DEF Next

\* The TLS port comes up without a step from outside: a start fails only for a
\* fault of its own, settings that are wrong, an administrator's pair replaced
\* meanwhile, or a kill or fault at one of the three places MixesPair,
\* KeepsFresh and WriteConfig name.
THEOREM StartsFailForCause == Spec => []FailsForCause
<1>1. FailInv => FailsForCause
  BY DEF FailInv, FailsForCause, Causes
<1> QED
  BY InvInit, InvStep, PinInvInit, PinInvStep, FailInvInit, FailInvStep, <1>1, PTL DEF Spec
=============================================================================
