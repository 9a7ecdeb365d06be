----------------------------- MODULE Bootstrap ------------------------------
(***************************************************************************)
(* How server and clients come to share a certificate: the server's        *)
(* configuration, its key pair on disk, the one-time password it shows,    *)
(* the bootstrap service that hands the certificate out against it, and    *)
(* the client's copy, on disk and cached for the life of its process.      *)
(*                                                                         *)
(* A file is Missing, Torn (fs::write truncates, then writes: a kill in    *)
(* between leaves it empty) or belongs to key pair 1, 2, ...  Password n   *)
(* is the one the server's n-th run may show; 0 is a wrong one.            *)
(***************************************************************************)
EXTENDS Integers

CONSTANTS
  Client,     \* the clients
  MaxStarts,  \* bound: starts of the server
  Events      \* what the environment may do, each at most once

ASSUME StartsAssumption == MaxStarts \in Nat
ASSUME EventsAssumption == Events \subseteq {"crash", "loss", "kill"}

VARIABLES
  config,     \* the server's config.toml: "none", "torn", "bad", "ok"
  crt, key,   \* the server's certificate.crt and certificate.pk
  pairs,      \* key pairs generated so far
  srv,        \* where the server is
  starts,     \* starts of the server so far
  bootstrap,  \* --bootstrap was given, or a certificate generated, in this run
  serving,    \* the pair the TLS listener uses
  otp,        \* the password the bootstrap service accepts, 0 when spent
  aged,       \* it was shown more than 300 seconds ago
  cpc,        \* where each client is
  typed,      \* the password its user typed
  file,       \* the client's server.crt
  trust,      \* the certificate it holds: the server's reply, then CERT
  given,      \* history: certificates handed out for each password
  expired,    \* history: passwords refused as expired
  events      \* what the environment did so far

disk == <<config, crt, key, pairs>>
server == <<srv, starts, bootstrap, serving>>
service == <<otp, aged, given, expired>>
client == <<cpc, typed, file, trust>>
vars == <<disk, server, service, client, events>>

Missing == 0
Torn == -1

Init ==
  /\ config = "none" /\ crt = Missing /\ key = Missing /\ pairs = 0
  /\ srv = "down" /\ starts = 0 /\ bootstrap = FALSE /\ serving = Missing
  /\ otp = 0 /\ aged = FALSE
  /\ cpc = [c \in Client |-> "off"] /\ typed = [c \in Client |-> 0]
  /\ file = [c \in Client |-> Missing] /\ trust = [c \in Client |-> Missing]
  /\ given = [n \in 1..MaxStarts |-> 0] /\ expired = {}
  /\ events = {}

Happens(ev) == ev \in Events \ events /\ events' = events \cup {ev}

-----------------------------------------------------------------------------
\* The server's start.

\* A configuration that does not parse stops every run; the first run creates
\* the file.
StartServer ==
  /\ srv = "down" /\ starts < MaxStarts /\ config \in {"none", "ok"}
  /\ starts' = starts + 1
  /\ bootstrap' \in BOOLEAN
  /\ IF config = "none" THEN srv' = "config" /\ config' = "torn"
                        ELSE srv' = "identity" /\ config' = config
  /\ UNCHANGED <<crt, key, pairs, serving, service, client, events>>

\* What the user types is saved unseen; an address that does not parse ends
\* this run and the ones after it.
SaveConfig ==
  /\ srv = "config"
  /\ \/ config' = "ok" /\ srv' = "identity"
     \/ config' = "bad" /\ srv' = "down"
  /\ UNCHANGED <<crt, key, pairs, starts, bootstrap, serving, service, client, events>>

\* The listener's TLS configuration takes a certificate with its own key only;
\* the bootstrap service starts with a new password.
Serve(pair, offer) ==
  /\ srv' = "up" /\ serving' = pair
  /\ bootstrap' = offer
  /\ otp' = IF offer THEN starts ELSE 0
  /\ aged' = FALSE

UseIdentity ==
  /\ srv = "identity" /\ crt # Missing /\ key # Missing
  /\ IF crt = key /\ crt > 0
     THEN Serve(crt, bootstrap)
     ELSE srv' = "down" /\ UNCHANGED <<bootstrap, serving, otp, aged>>
  /\ UNCHANGED <<disk, starts, given, expired, client, events>>

\* Faulty: a certificate that is there is kept.
GenerateMissing ==
  /\ srv = "identity" /\ (crt = Missing \/ key = Missing)
  /\ pairs' = pairs + 1
  /\ IF crt = Missing THEN crt' = Torn /\ srv' = "crt" ELSE crt' = crt /\ srv' = "cut"
  /\ UNCHANGED <<config, key, starts, bootstrap, serving, service, client, events>>

Generate(when) ==
  /\ srv = "identity" /\ when
  /\ pairs' = pairs + 1
  /\ crt' = Torn /\ srv' = "crt"
  /\ UNCHANGED <<config, key, starts, bootstrap, serving, service, client, events>>

\* Faulty: --bootstrap makes a new pair.
GenerateForBootstrap == Generate(crt = Missing \/ key = Missing \/ bootstrap)

\* One file is missing: both are made anew.  The certificate is opened first.
GenerateIdentity == Generate(crt = Missing \/ key = Missing)

\* What an open file becomes, unless it was removed meanwhile.
Filled(f) == IF f = Torn THEN pairs ELSE f

WriteCertificate ==
  /\ srv = "crt"
  /\ crt' = Filled(crt) /\ srv' = "cut"
  /\ UNCHANGED <<config, key, pairs, starts, bootstrap, serving, service, client, events>>

OpenKey ==
  /\ srv = "cut"
  /\ key' = Torn /\ srv' = "key"
  /\ UNCHANGED <<config, crt, pairs, starts, bootstrap, serving, service, client, events>>

WriteKey ==
  /\ srv = "key"
  /\ key' = Filled(key)
  /\ Serve(pairs, TRUE)
  /\ UNCHANGED <<config, crt, pairs, starts, given, expired, client, events>>

Down == srv' = "down" /\ otp' = 0 /\ serving' = Missing

\* Stopped by its user, or at once: it finds no local address, or its port taken.
StopServer ==
  /\ srv \in {"identity", "up"}
  /\ Down
  /\ UNCHANGED <<disk, starts, bootstrap, aged, given, expired, client, events>>

\* Killed, or stopped by a write that fails, between two steps of its start.
Crash ==
  /\ srv \notin {"down", "up"}
  /\ Happens("crash")
  /\ Down
  /\ UNCHANGED <<disk, starts, bootstrap, aged, given, expired, client>>

\* Somebody removes one of the two files.
Lose ==
  /\ Happens("loss")
  /\ \/ crt # Missing /\ crt' = Missing /\ key' = key
     \/ key # Missing /\ key' = Missing /\ crt' = crt
  /\ UNCHANGED <<config, pairs, server, service, client>>

-----------------------------------------------------------------------------
\* The client, up to the first use of CERT.

\* get_cert: a certificate on disk is used as it is, unless --bootstrap is given.
StartClient(c) ==
  /\ cpc[c] = "off"
  /\ \/ /\ cpc' = [cpc EXCEPT ![c] = "prompt"]
        /\ UNCHANGED trust
     \/ /\ file[c] # Missing
        /\ cpc' = [cpc EXCEPT ![c] = "run"]
        /\ trust' = [trust EXCEPT ![c] = file[c]]
  /\ UNCHANGED <<disk, server, service, typed, file, events>>

Type(c) ==
  /\ cpc[c] = "prompt"
  /\ \E n \in 0..starts : typed' = [typed EXCEPT ![c] = n]
  /\ cpc' = [cpc EXCEPT ![c] = "send"]
  /\ UNCHANGED <<disk, server, service, file, trust, events>>

\* The expect in get_cert: the round panics and the process ends.
Panic(c) == cpc' = [cpc EXCEPT ![c] = "off"]

Reachable == srv = "up" /\ bootstrap

NoService(c) ==
  /\ cpc[c] = "send" /\ ~Reachable
  /\ Panic(c)
  /\ UNCHANGED <<disk, server, service, typed, file, trust, events>>

\* The handlers below hold the password's lock from the first test to the reply.
Expire(c, newOtp) ==
  /\ cpc[c] = "send" /\ Reachable /\ otp # 0 /\ aged
  /\ otp' = newOtp /\ expired' = expired \cup {otp}
  /\ Panic(c)
  /\ UNCHANGED <<disk, server, aged, given, typed, file, trust, events>>

\* Faulty: the expired password is refused, not removed.
ExpireKeeping(c) == Expire(c, otp)

RefuseExpired(c) == Expire(c, 0)

Refuse(c, newOtp) ==
  /\ cpc[c] = "send" /\ Reachable /\ ~(otp # 0 /\ aged)
  /\ otp = 0 \/ typed[c] # otp
  /\ otp' = newOtp
  /\ Panic(c)
  /\ UNCHANGED <<disk, server, aged, given, expired, typed, file, trust, events>>

\* Faulty: one try only.
RefuseSpending(c) == Refuse(c, 0)

RefuseWrong(c) == Refuse(c, otp)

\* The password is spent before the certificate is read.
Receive(c) ==
  cpc' = [cpc EXCEPT ![c] = "reply"] /\ trust' = [trust EXCEPT ![c] = crt]

Give(c, newOtp) ==
  /\ cpc[c] = "send" /\ Reachable /\ otp # 0 /\ ~aged /\ typed[c] = otp
  /\ otp' = newOtp
  /\ IF crt = Missing
     THEN Panic(c) /\ UNCHANGED <<given, trust>>
     ELSE given' = [given EXCEPT ![otp] = @ + 1] /\ Receive(c)
  /\ UNCHANGED <<disk, server, aged, expired, typed, file, events>>

\* Faulty: the password stays valid.
GiveAgain(c) == Give(c, otp)

GetCertificate(c) == Give(c, 0)

OpenFile(c) ==
  /\ cpc[c] = "reply"
  /\ cpc' = [cpc EXCEPT ![c] = "save"]
  /\ file' = [file EXCEPT ![c] = Torn]
  /\ UNCHANGED <<disk, server, service, typed, trust, events>>

SaveCertificate(c) ==
  /\ cpc[c] = "save"
  /\ cpc' = [cpc EXCEPT ![c] = "run"]
  /\ file' = [file EXCEPT ![c] = trust[c]]
  /\ UNCHANGED <<disk, server, service, typed, trust, events>>

\* The process ends: CERT is gone with it.
Leave(c) ==
  /\ cpc' = [cpc EXCEPT ![c] = "off"]
  /\ trust' = [trust EXCEPT ![c] = Missing]
  /\ UNCHANGED <<disk, server, service, typed, file>>

StopClient(c) == cpc[c] = "run" /\ Leave(c) /\ UNCHANGED events

\* Killed, or disconnected, between the server's reply and the end of the write.
KillClient(c) == cpc[c] \in {"reply", "save"} /\ Happens("kill") /\ Leave(c)

-----------------------------------------------------------------------------
Age ==
  /\ srv = "up" /\ otp # 0 /\ ~aged
  /\ aged' = TRUE
  /\ UNCHANGED <<disk, server, otp, given, expired, client, events>>

ClientStep(c) ==
  \/ StartClient(c) \/ Type(c) \/ NoService(c) \/ RefuseExpired(c)
  \/ RefuseWrong(c) \/ GetCertificate(c) \/ OpenFile(c)
  \/ SaveCertificate(c) \/ StopClient(c) \/ KillClient(c)

Next ==
  \/ StartServer \/ SaveConfig \/ UseIdentity \/ GenerateIdentity
  \/ WriteCertificate \/ OpenKey \/ WriteKey
  \/ StopServer \/ Crash \/ Lose \/ Age
  \/ \E c \in Client : ClientStep(c)

Spec == Init /\ [][Next]_vars

-----------------------------------------------------------------------------
Content == Torn..MaxStarts

\* The shape of the state.  A password is accepted in the run that shows it, and
\* never again once it has been refused as too old (bootstrap.rs:39-44).
TypeOK ==
  /\ config \in {"none", "torn", "bad", "ok"}
  /\ crt \in Torn..pairs /\ key \in Torn..pairs /\ pairs \in 0..starts
  /\ starts \in 0..MaxStarts /\ bootstrap \in BOOLEAN /\ serving \in 0..pairs
  /\ srv \in {"down", "config", "identity", "crt", "cut", "key", "up"}
  /\ otp \in {0, starts} \ expired /\ aged \in BOOLEAN
  /\ otp # 0 => srv = "up" /\ bootstrap
  /\ cpc \in [Client -> {"off", "prompt", "send", "reply", "save", "run"}]
  /\ typed \in [Client -> 0..MaxStarts]
  /\ file \in [Client -> Content] /\ trust \in [Client -> Content]
  /\ given \in [1..MaxStarts -> Nat] /\ expired \subseteq 1..MaxStarts
  /\ events \subseteq Events

\* A one-time password is good for one certificate, whichever clients use it and
\* in whatever order (bootstrap.rs:46-48).
AtMostOnce == \A n \in 1..MaxStarts : given[n] <= 1

\* A password that is gone before its time bought a certificate, unless the file
\* was lost: wrong guesses do not spend it (bootstrap.rs:38-59).
SpentOnlyOnSuccess ==
  srv = "up" /\ bootstrap /\ otp = 0 =>
    starts \in expired \/ given[starts] = 1 \/ "loss" \in events

\* The server finds its two files and cannot use them only after it was killed
\* while it wrote them: losing one of them heals by itself (server/security.rs:17-36).
BrickedOnlyByCrash ==
  srv = "identity" /\ crt # Missing /\ key # Missing /\ (crt # key \/ crt = Torn)
    => "crash" \in events

\* What a client trusts is what the server serves, unless the server had to make
\* a new pair or a kill left the client half a file.  --bootstrap, on either
\* side, does not cut off the other clients (server/security.rs:17-37, client.rs:448-468).
TrustIsCurrent ==
  \A c \in Client : srv = "up" /\ trust[c] \notin {Missing, serving} =>
    IF trust[c] = Torn THEN "kill" \in events ELSE {"loss", "crash"} \cap events # {}
=============================================================================
