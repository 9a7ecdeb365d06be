-------------------------- MODULE BootstrapProofs ---------------------------
(* Proofs about the bootstrap: a password buys one certificate, and what a  *)
(* client trusts is what the server serves.                                 *)
EXTENDS Bootstrap, TLAPS

USE DEF Missing, Torn
-----------------------------------------------------------------------------
(* The inductive invariant.                                                 *)

\* Each run makes one pair at most, and clients hold what was made.
Counted ==
  /\ srv # "down" => starts > 0
  /\ srv \in {"config", "identity"} => pairs < starts
  /\ srv \in {"crt", "cut", "key", "up"} => pairs > 0
  /\ \A c \in Client : file[c] <= pairs /\ trust[c] <= pairs

\* A password that can still be used, or will be shown, has bought nothing.
Fresh ==
  /\ \A n \in 1..MaxStarts : n > starts \/ (n = starts /\ srv \notin {"down", "up"})
       => given[n] = 0 /\ n \notin expired
  /\ otp # 0 => given[otp] = 0

\* How far the two files have come, if nobody removed them.
Lost == "loss" \in events

Stepwise ==
  /\ srv = "crt" => crt = Torn \/ (Lost /\ crt = Missing)
  /\ srv = "cut" => crt = pairs \/ (Lost /\ crt = Missing)
  /\ srv = "key" => /\ crt = pairs \/ (Lost /\ crt = Missing)
                    /\ key = Torn \/ (Lost /\ key = Missing)
  /\ srv = "up" => serving > 0 /\ (crt = serving \/ (Lost /\ crt = Missing))

\* Without a crash, files that are there at rest belong together.
Matching ==
  "crash" \notin events =>
    /\ srv \in {"down", "config", "identity", "up"} =>
         crt # Torn /\ key # Torn /\ (crt # Missing /\ key # Missing => crt = key)
    /\ srv \in {"crt", "cut"} => key # Torn

\* With neither a crash nor a loss there is one pair.
Single ==
  {"crash", "loss"} \cap events = {} =>
    \/ pairs = 0 /\ crt = Missing /\ key = Missing /\ srv \in {"down", "config", "identity"}
    \/ pairs = 1 /\ srv = "crt" /\ crt = Torn
    \/ pairs = 1 /\ srv = "cut" /\ crt = 1
    \/ pairs = 1 /\ srv = "key" /\ crt = 1 /\ key = Torn
    \/ pairs = 1 /\ srv \in {"down", "config", "identity", "up"} /\ crt = 1 /\ key = 1

\* A client's file is half written only while it is being written, or by a kill.
WrittenByClient ==
  "kill" \notin events =>
    \A c \in Client : trust[c] # Torn /\ (file[c] = Torn => cpc[c] = "save")

IInv == TypeOK /\ Counted /\ AtMostOnce /\ Fresh /\ SpentOnlyOnSuccess /\ Stepwise
        /\ Matching /\ Single /\ WrittenByClient

-----------------------------------------------------------------------------
(* The actions.                                                             *)

LEMMA InitHolds == Init => IInv
<1> SUFFICES ASSUME Init PROVE IInv
  OBVIOUS
<1>1. /\ config = "none" /\ crt = 0 /\ key = 0 /\ pairs = 0 /\ srv = "down" /\ starts = 0
      /\ bootstrap \in BOOLEAN /\ serving = 0 /\ otp = 0 /\ aged \in BOOLEAN
      /\ expired = {} /\ events = {}
  BY DEF Init
<1>2. /\ cpc \in [Client -> {"off", "prompt", "send", "reply", "save", "run"}]
      /\ typed \in [Client -> 0..MaxStarts] /\ file \in [Client -> Content]
      /\ trust \in [Client -> Content] /\ given \in [1..MaxStarts -> Nat]
      /\ \A c \in Client : file[c] = 0 /\ trust[c] = 0
      /\ \A n \in 1..MaxStarts : given[n] = 0
  BY StartsAssumption DEF Init, Content
<1>3. TypeOK
  BY <1>1, <1>2, StartsAssumption DEF TypeOK
<1>4. Counted /\ AtMostOnce /\ Fresh /\ SpentOnlyOnSuccess
  BY <1>1, <1>2 DEF Counted, AtMostOnce, Fresh, SpentOnlyOnSuccess
<1>5. Stepwise /\ Matching /\ Single /\ WrittenByClient
  BY <1>1, <1>2 DEF Stepwise, Matching, Single, WrittenByClient
<1> QED
  BY <1>3, <1>4, <1>5 DEF IInv

LEMMA StartServerKeeps == ASSUME IInv, StartServer PROVE IInv'
<1>1. TypeOK'
  BY StartsAssumption DEF IInv, TypeOK, StartServer, service, client
<1>2. Counted'
  BY DEF IInv, TypeOK, Counted, StartServer, service, client
<1>3. AtMostOnce' /\ SpentOnlyOnSuccess' /\ Stepwise' /\ Matching' /\ Single' /\ WrittenByClient'
  BY DEF IInv, AtMostOnce, SpentOnlyOnSuccess, Stepwise, Matching, Single,
       WrittenByClient, Lost, StartServer, service, client
<1>4. Fresh'
  BY DEF IInv, TypeOK, Fresh, StartServer, service, client
<1> QED
  BY <1>1, <1>2, <1>3, <1>4 DEF IInv

LEMMA SaveConfigKeeps == ASSUME IInv, SaveConfig PROVE IInv'
<1>1. TypeOK'
  BY DEF IInv, TypeOK, SaveConfig, service, client
<1>2. Counted' /\ AtMostOnce' /\ Fresh' /\ SpentOnlyOnSuccess' /\ Stepwise' /\ Matching'
     /\ Single' /\ WrittenByClient'
  BY DEF IInv, Counted, AtMostOnce, Fresh, SpentOnlyOnSuccess, Stepwise, Matching,
       Single, WrittenByClient, Lost, SaveConfig, service, client
<1> QED
  BY <1>1, <1>2 DEF IInv

LEMMA ServeKeeps ==
  ASSUME IInv, srv \in {"identity", "key"}, NEW pair \in 1..pairs, NEW offer \in BOOLEAN,
         Serve(pair, offer), key' \in Torn..pairs,
         UNCHANGED <<config, crt, pairs, starts, given, expired, client, events>>
  PROVE  TypeOK' /\ Counted' /\ AtMostOnce' /\ Fresh' /\ SpentOnlyOnSuccess' /\ WrittenByClient'
<1>1. /\ srv' = "up" /\ serving' = pair /\ bootstrap' = offer /\ aged' \in BOOLEAN
      /\ otp' = IF offer THEN starts ELSE 0
  BY DEF Serve
<1>2. /\ config' = config /\ crt' = crt /\ pairs' = pairs /\ starts' = starts /\ given' = given
      /\ expired' = expired /\ cpc' = cpc /\ typed' = typed /\ file' = file /\ trust' = trust
      /\ events' = events
  BY DEF client
<1>3. /\ starts \in 1..MaxStarts /\ pairs \in Nat /\ pairs > 0
      /\ given[starts] = 0 /\ starts \notin expired
  BY StartsAssumption DEF IInv, TypeOK, Counted, Fresh
<1>4. TypeOK'
  <2>1. otp' \in {0, starts'} \ expired' /\ (otp' # 0 => srv' = "up" /\ bootstrap')
    BY <1>1, <1>2, <1>3 DEF IInv, TypeOK
  <2>2. serving' \in 0..pairs' /\ bootstrap' \in BOOLEAN
    BY <1>1, <1>2, <1>3
  <2> QED
    BY <1>1, <1>2, <2>1, <2>2 DEF IInv, TypeOK
<1>5. Counted'
  BY <1>1, <1>2, <1>3 DEF IInv, Counted
<1>6. AtMostOnce' /\ Fresh'
  BY <1>1, <1>2, <1>3 DEF IInv, AtMostOnce, Fresh
<1>7. SpentOnlyOnSuccess'
  BY <1>1, <1>2, <1>3 DEF SpentOnlyOnSuccess
<1>8. WrittenByClient'
  BY <1>2 DEF IInv, WrittenByClient
<1> QED
  BY <1>4, <1>5, <1>6, <1>7, <1>8

LEMMA UseIdentityKeeps == ASSUME IInv, UseIdentity PROVE IInv'
<1>1. srv = "identity" /\ crt # Missing /\ key # Missing
  BY DEF UseIdentity
<1>2. /\ config' = config /\ crt' = crt /\ key' = key /\ pairs' = pairs /\ starts' = starts
      /\ given' = given /\ expired' = expired /\ cpc' = cpc /\ typed' = typed /\ file' = file
      /\ trust' = trust /\ events' = events
  BY DEF UseIdentity, disk, client
<1>3. CASE crt = key /\ crt > 0
  <2>1. crt \in 1..pairs /\ bootstrap \in BOOLEAN /\ key' \in Torn..pairs
    BY <1>2, <1>3 DEF IInv, TypeOK
  <2>2. Serve(crt, bootstrap)
    BY <1>3 DEF UseIdentity
  <2>3. TypeOK' /\ Counted' /\ AtMostOnce' /\ Fresh' /\ SpentOnlyOnSuccess' /\ WrittenByClient'
    BY <1>1, <1>2, <2>1, <2>2, ServeKeeps DEF client
  <2>4. srv' = "up" /\ serving' = crt
    BY <2>2 DEF Serve
  <2>5. Stepwise' /\ Matching' /\ Single'
    BY <1>1, <1>2, <1>3, <2>1, <2>4 DEF IInv, Stepwise, Matching, Single
  <2> QED
    BY <2>3, <2>5 DEF IInv
<1>4. CASE ~(crt = key /\ crt > 0)
  <2>1. /\ srv' = "down" /\ bootstrap' = bootstrap /\ serving' = serving /\ otp' = otp
        /\ aged' = aged
    BY <1>4 DEF UseIdentity
  <2>2. TypeOK'
    BY <1>1, <1>2, <2>1 DEF IInv, TypeOK
  <2>3. Counted' /\ AtMostOnce' /\ Fresh' /\ SpentOnlyOnSuccess' /\ WrittenByClient'
    BY <1>1, <1>2, <2>1
       DEF IInv, Counted, AtMostOnce, Fresh, SpentOnlyOnSuccess, WrittenByClient
  <2>4. Stepwise' /\ Matching' /\ Single'
    BY <1>1, <1>2, <2>1 DEF IInv, Stepwise, Matching, Single
  <2> QED
    BY <2>2, <2>3, <2>4 DEF IInv
<1> QED
  BY <1>3, <1>4

LEMMA GenerateIdentityKeeps == ASSUME IInv, GenerateIdentity PROVE IInv'
<1>1. TypeOK'
  BY StartsAssumption DEF IInv, TypeOK, Counted, GenerateIdentity, Generate, service,
       client
<1>2. Counted'
  BY StartsAssumption DEF IInv, TypeOK, Content, Counted, GenerateIdentity, Generate, client
<1>3. AtMostOnce' /\ Fresh' /\ SpentOnlyOnSuccess' /\ Stepwise' /\ Matching' /\ Single'
     /\ WrittenByClient'
  BY DEF IInv, AtMostOnce, Fresh, SpentOnlyOnSuccess, Stepwise, Matching, Single,
       WrittenByClient, Lost, GenerateIdentity, Generate, service, client
<1> QED
  BY <1>1, <1>2, <1>3 DEF IInv

LEMMA WriteCertificateKeeps == ASSUME IInv, WriteCertificate PROVE IInv'
<1>1. TypeOK'
  BY DEF IInv, TypeOK, WriteCertificate, Filled, service, client
<1>2. Counted' /\ AtMostOnce' /\ Fresh' /\ SpentOnlyOnSuccess' /\ Stepwise' /\ Matching'
     /\ Single' /\ WrittenByClient'
  BY DEF IInv, Counted, AtMostOnce, Fresh, SpentOnlyOnSuccess, Stepwise, Matching,
       Single, WrittenByClient, Lost, WriteCertificate, Filled, service, client
<1> QED
  BY <1>1, <1>2 DEF IInv

LEMMA OpenKeyKeeps == ASSUME IInv, OpenKey PROVE IInv'
<1>1. TypeOK'
  BY DEF IInv, TypeOK, OpenKey, service, client
<1>2. Counted' /\ AtMostOnce' /\ Fresh' /\ SpentOnlyOnSuccess' /\ Stepwise' /\ Matching'
     /\ Single' /\ WrittenByClient'
  BY DEF IInv, Counted, AtMostOnce, Fresh, SpentOnlyOnSuccess, Stepwise, Matching,
       Single, WrittenByClient, Lost, OpenKey, service, client
<1> QED
  BY <1>1, <1>2 DEF IInv

LEMMA WriteKeyKeeps == ASSUME IInv, WriteKey PROVE IInv'
<1>1. srv = "key" /\ key' = Filled(key) /\ Serve(pairs, TRUE)
  BY DEF WriteKey
<1>2. /\ config' = config /\ crt' = crt /\ pairs' = pairs /\ starts' = starts
      /\ given' = given /\ expired' = expired /\ cpc' = cpc /\ typed' = typed /\ file' = file
      /\ trust' = trust /\ events' = events
  BY DEF WriteKey, client
<1>3. pairs \in 1..pairs /\ key \in Torn..pairs /\ pairs > 0
  BY <1>1 DEF IInv, TypeOK, Counted
<1>4. key' = (IF key = Torn THEN pairs ELSE key) /\ key' \in Torn..pairs
  BY <1>1, <1>3 DEF Filled
<1>5. TypeOK' /\ Counted' /\ AtMostOnce' /\ Fresh' /\ SpentOnlyOnSuccess' /\ WrittenByClient'
  BY <1>1, <1>2, <1>3, <1>4, ServeKeeps DEF client
<1>6. srv' = "up" /\ serving' = pairs
  BY <1>1 DEF Serve
<1>7. Stepwise' /\ Matching' /\ Single'
  BY <1>1, <1>2, <1>3, <1>4, <1>6 DEF IInv, Stepwise, Matching, Single, Lost
<1> QED
  BY <1>5, <1>7 DEF IInv

LEMMA StopServerKeeps == ASSUME IInv, StopServer PROVE IInv'
<1>1. TypeOK'
  BY DEF IInv, TypeOK, StopServer, Down, disk, client
<1>2. Counted' /\ AtMostOnce' /\ Fresh' /\ SpentOnlyOnSuccess' /\ Stepwise' /\ Matching'
     /\ Single' /\ WrittenByClient'
  BY DEF IInv, Counted, AtMostOnce, Fresh, SpentOnlyOnSuccess, Stepwise, Matching,
       Single, WrittenByClient, Lost, StopServer, Down, disk, client
<1> QED
  BY <1>1, <1>2 DEF IInv

LEMMA CrashKeeps == ASSUME IInv, Crash PROVE IInv'
<1>1. TypeOK'
  BY DEF IInv, TypeOK, Crash, Down, Happens, disk, client
<1>2. Counted' /\ AtMostOnce' /\ Fresh' /\ SpentOnlyOnSuccess' /\ Stepwise' /\ Matching'
     /\ Single' /\ WrittenByClient'
  BY DEF IInv, Counted, AtMostOnce, Fresh, SpentOnlyOnSuccess, Stepwise, Matching,
       Single, WrittenByClient, Lost, Crash, Down, Happens, disk, client
<1> QED
  BY <1>1, <1>2 DEF IInv

LEMMA LoseKeeps == ASSUME IInv, Lose PROVE IInv'
<1>1. TypeOK'
  BY DEF IInv, TypeOK, Lose, Happens, server, service, client
<1>2. Counted' /\ AtMostOnce' /\ Fresh' /\ SpentOnlyOnSuccess' /\ Stepwise' /\ Matching'
     /\ Single' /\ WrittenByClient'
  BY DEF IInv, Counted, AtMostOnce, Fresh, SpentOnlyOnSuccess, Stepwise, Matching,
       Single, WrittenByClient, Lost, Lose, Happens, server, service, client
<1> QED
  BY <1>1, <1>2 DEF IInv

LEMMA AgeKeeps == ASSUME IInv, Age PROVE IInv'
<1>1. TypeOK'
  BY DEF IInv, TypeOK, Age, disk, server, client
<1>2. Counted' /\ AtMostOnce' /\ Fresh' /\ SpentOnlyOnSuccess' /\ Stepwise' /\ Matching'
     /\ Single' /\ WrittenByClient'
  BY DEF IInv, Counted, AtMostOnce, Fresh, SpentOnlyOnSuccess, Stepwise, Matching,
       Single, WrittenByClient, Lost, Age, disk, server, client
<1> QED
  BY <1>1, <1>2 DEF IInv

LEMMA StartClientKeeps == ASSUME IInv, NEW c \in Client, StartClient(c) PROVE IInv'
<1>1. TypeOK'
  BY StartsAssumption DEF IInv, TypeOK, Content, StartClient, disk, server, service
<1>2. Counted'
  BY DEF IInv, TypeOK, Counted, Content, StartClient, disk, server, service
<1>3. AtMostOnce' /\ Fresh' /\ SpentOnlyOnSuccess' /\ Stepwise' /\ Matching' /\ Single'
  BY DEF IInv, AtMostOnce, Fresh, SpentOnlyOnSuccess, Stepwise, Matching, Single, Lost,
       StartClient, disk, server, service
<1>4. WrittenByClient'
  BY DEF IInv, TypeOK, WrittenByClient, Content, StartClient, disk, server, service
<1> QED
  BY <1>1, <1>2, <1>3, <1>4 DEF IInv

LEMMA TypeKeeps == ASSUME IInv, NEW c \in Client, Type(c) PROVE IInv'
<1>1. TypeOK'
  BY StartsAssumption DEF IInv, TypeOK, Type, disk, server, service
<1>2. Counted' /\ AtMostOnce' /\ Fresh' /\ SpentOnlyOnSuccess' /\ Stepwise' /\ Matching'
     /\ Single' /\ WrittenByClient'
  BY DEF IInv, Counted, AtMostOnce, Fresh, SpentOnlyOnSuccess, Stepwise, Matching,
       Single, WrittenByClient, Lost, Type, disk, server, service
<1> QED
  BY <1>1, <1>2 DEF IInv

LEMMA NoServiceKeeps == ASSUME IInv, NEW c \in Client, NoService(c) PROVE IInv'
<1>1. TypeOK'
  BY DEF IInv, TypeOK, NoService, Panic, disk, server, service
<1>2. Counted' /\ AtMostOnce' /\ Fresh' /\ SpentOnlyOnSuccess' /\ Stepwise' /\ Matching'
     /\ Single' /\ WrittenByClient'
  BY DEF IInv, Counted, AtMostOnce, Fresh, SpentOnlyOnSuccess, Stepwise, Matching,
       Single, WrittenByClient, Lost, NoService, Panic, disk, server, service
<1> QED
  BY <1>1, <1>2 DEF IInv

LEMMA RefuseExpiredKeeps == ASSUME IInv, NEW c \in Client, RefuseExpired(c) PROVE IInv'
<1>1. TypeOK'
  BY DEF IInv, TypeOK, RefuseExpired, Expire, Panic, Reachable, disk, server
<1>2. Counted' /\ AtMostOnce' /\ Stepwise' /\ Matching' /\ Single' /\ WrittenByClient'
  BY DEF IInv, Counted, AtMostOnce, Stepwise, Matching, Single, WrittenByClient, Lost,
       RefuseExpired, Expire, Panic, Reachable, disk, server
<1>3. Fresh'
  BY DEF IInv, TypeOK, Fresh, RefuseExpired, Expire, Panic, Reachable, disk, server
<1>4. SpentOnlyOnSuccess'
  BY DEF IInv, TypeOK, SpentOnlyOnSuccess, RefuseExpired, Expire, Panic, Reachable,
       disk, server
<1> QED
  BY <1>1, <1>2, <1>3, <1>4 DEF IInv

LEMMA RefuseWrongKeeps == ASSUME IInv, NEW c \in Client, RefuseWrong(c) PROVE IInv'
<1>1. TypeOK'
  BY DEF IInv, TypeOK, RefuseWrong, Refuse, Panic, Reachable, disk, server
<1>2. Counted' /\ AtMostOnce' /\ Fresh' /\ SpentOnlyOnSuccess' /\ Stepwise' /\ Matching'
     /\ Single' /\ WrittenByClient'
  BY DEF IInv, Counted, AtMostOnce, Fresh, SpentOnlyOnSuccess, Stepwise, Matching,
       Single, WrittenByClient, Lost, RefuseWrong, Refuse, Panic, Reachable, disk,
       server
<1> QED
  BY <1>1, <1>2 DEF IInv

LEMMA GetCertificateKeeps == ASSUME IInv, NEW c \in Client, GetCertificate(c) PROVE IInv'
<1>1. srv = "up" /\ bootstrap /\ otp # 0 /\ cpc[c] = "send" /\ otp' = 0
  BY DEF GetCertificate, Give, Reachable
<1>2. /\ config' = config /\ crt' = crt /\ key' = key /\ pairs' = pairs /\ srv' = srv
      /\ starts' = starts /\ bootstrap' = bootstrap /\ serving' = serving /\ aged' = aged
      /\ expired' = expired /\ typed' = typed /\ file' = file /\ events' = events
  BY DEF GetCertificate, Give, disk, server
<1>3. otp = starts /\ starts \in 1..MaxStarts /\ given[starts] = 0
  BY <1>1 DEF IInv, TypeOK, Fresh
<1>4. Stepwise' /\ Matching' /\ Single'
  BY <1>2 DEF IInv, Stepwise, Matching, Single, Lost
<1>5. CASE crt = Missing
  <2>1. given' = given /\ trust' = trust /\ cpc' = [cpc EXCEPT ![c] = "off"]
    BY <1>5 DEF GetCertificate, Give, Panic
  <2>2. TypeOK'
    BY <1>1, <1>2, <2>1 DEF IInv, TypeOK
  <2>3. Counted' /\ AtMostOnce' /\ Fresh'
    BY <1>1, <1>2, <2>1 DEF IInv, Counted, AtMostOnce, Fresh
  <2>4. "loss" \in events
    BY <1>1, <1>5 DEF IInv, TypeOK, Stepwise, Lost
  <2>5. SpentOnlyOnSuccess'
    BY <1>2, <2>4 DEF SpentOnlyOnSuccess
  <2>6. WrittenByClient'
    BY <1>1, <1>2, <2>1 DEF IInv, TypeOK, WrittenByClient
  <2> QED
    BY <1>4, <2>2, <2>3, <2>5, <2>6 DEF IInv
<1>6. CASE crt # Missing
  <2>1. /\ given' = [given EXCEPT ![starts] = @ + 1] /\ trust' = [trust EXCEPT ![c] = crt]
        /\ cpc' = [cpc EXCEPT ![c] = "reply"]
    BY <1>3, <1>6 DEF GetCertificate, Give, Receive
  <2>2. given' \in [1..MaxStarts -> Nat] /\ given'[starts] = 1
        /\ \A n \in 1..MaxStarts : n # starts => given'[n] = given[n]
    BY <1>3, <2>1 DEF IInv, TypeOK
  <2>3. crt \in Content /\ crt \in Torn..pairs /\ crt = serving /\ crt > 0
    BY <1>1, <1>6, StartsAssumption DEF IInv, TypeOK, Stepwise, Content
  <2>4. /\ trust' \in [Client -> Content] /\ trust'[c] = crt
        /\ \A d \in Client : d # c => trust'[d] = trust[d]
    BY <2>1, <2>3 DEF IInv, TypeOK
  <2>5. /\ cpc' \in [Client -> {"off", "prompt", "send", "reply", "save", "run"}]
        /\ cpc'[c] = "reply" /\ \A d \in Client : d # c => cpc'[d] = cpc[d]
    BY <2>1 DEF IInv, TypeOK
  <2>6. TypeOK'
    BY <1>1, <1>2, <2>2, <2>4, <2>5 DEF IInv, TypeOK
  <2>7. Counted'
    BY <1>2, <2>3, <2>4 DEF IInv, Counted
  <2>8. AtMostOnce' /\ Fresh' /\ SpentOnlyOnSuccess'
    BY <1>1, <1>2, <1>3, <2>2 DEF IInv, AtMostOnce, Fresh, SpentOnlyOnSuccess
  <2>9. WrittenByClient'
    BY <1>1, <1>2, <2>3, <2>4, <2>5 DEF IInv, WrittenByClient
  <2> QED
    BY <1>4, <2>6, <2>7, <2>8, <2>9 DEF IInv
<1> QED
  BY <1>5, <1>6

LEMMA OpenFileKeeps == ASSUME IInv, NEW c \in Client, OpenFile(c) PROVE IInv'
<1>1. TypeOK'
  BY StartsAssumption DEF IInv, TypeOK, Content, OpenFile, disk, server, service
<1>2. Counted'
  BY DEF IInv, TypeOK, Counted, Content, OpenFile, disk, server, service
<1>3. AtMostOnce' /\ Fresh' /\ SpentOnlyOnSuccess' /\ Stepwise' /\ Matching' /\ Single'
  BY DEF IInv, AtMostOnce, Fresh, SpentOnlyOnSuccess, Stepwise, Matching, Single, Lost,
       OpenFile, disk, server, service
<1>4. WrittenByClient'
  BY DEF IInv, TypeOK, WrittenByClient, Content, OpenFile, disk, server, service
<1> QED
  BY <1>1, <1>2, <1>3, <1>4 DEF IInv

LEMMA SaveCertificateKeeps == ASSUME IInv, NEW c \in Client, SaveCertificate(c) PROVE IInv'
<1>1. TypeOK'
  BY StartsAssumption DEF IInv, TypeOK, Content, SaveCertificate, disk, server, service
<1>2. Counted' /\ AtMostOnce' /\ Fresh' /\ SpentOnlyOnSuccess' /\ Stepwise' /\ Matching' /\ Single'
  BY DEF IInv, Counted, AtMostOnce, Fresh, SpentOnlyOnSuccess, Stepwise, Matching,
       Single, Lost, SaveCertificate, disk, server, service
<1>3. WrittenByClient'
  BY DEF IInv, TypeOK, WrittenByClient, Content, SaveCertificate, disk, server, service
<1> QED
  BY <1>1, <1>2, <1>3 DEF IInv

LEMMA StopClientKeeps == ASSUME IInv, NEW c \in Client, StopClient(c) PROVE IInv'
<1>1. TypeOK'
  BY StartsAssumption DEF IInv, TypeOK, Content, StopClient, Leave, disk, server,
       service
<1>2. Counted'
  BY DEF IInv, TypeOK, Counted, Content, StopClient, Leave, disk, server, service
<1>3. AtMostOnce' /\ Fresh' /\ SpentOnlyOnSuccess' /\ Stepwise' /\ Matching' /\ Single'
     /\ WrittenByClient'
  BY DEF IInv, AtMostOnce, Fresh, SpentOnlyOnSuccess, Stepwise, Matching, Single,
       WrittenByClient, Lost, StopClient, Leave, disk, server, service
<1> QED
  BY <1>1, <1>2, <1>3 DEF IInv

LEMMA KillClientKeeps == ASSUME IInv, NEW c \in Client, KillClient(c) PROVE IInv'
<1>1. TypeOK'
  BY StartsAssumption DEF IInv, TypeOK, Content, KillClient, Leave, Happens, disk,
       server, service
<1>2. Counted'
  BY DEF IInv, TypeOK, Counted, Content, KillClient, Leave, Happens, disk, server,
       service
<1>3. AtMostOnce' /\ Fresh' /\ SpentOnlyOnSuccess' /\ Stepwise' /\ Matching' /\ Single'
     /\ WrittenByClient'
  BY DEF IInv, AtMostOnce, Fresh, SpentOnlyOnSuccess, Stepwise, Matching, Single,
       WrittenByClient, Lost, KillClient, Leave, Happens, disk, server, service
<1> QED
  BY <1>1, <1>2, <1>3 DEF IInv

LEMMA StutterKeeps == ASSUME IInv, UNCHANGED vars PROVE IInv'
<1>1. TypeOK' /\ Counted' /\ AtMostOnce'
  BY DEF IInv, TypeOK, Counted, AtMostOnce, vars, disk, server, service, client
<1>2. Fresh' /\ SpentOnlyOnSuccess' /\ Stepwise'
  BY DEF IInv, Fresh, SpentOnlyOnSuccess, Stepwise, Lost, vars, disk, server, service, client
<1>3. Matching' /\ Single' /\ WrittenByClient'
  BY DEF IInv, Matching, Single, WrittenByClient, vars, disk, server, service, client
<1> QED
  BY <1>1, <1>2, <1>3 DEF IInv

LEMMA StepKeeps == ASSUME IInv, Next PROVE IInv'
<1>1. CASE StartServer
  BY <1>1, StartServerKeeps
<1>2. CASE SaveConfig
  BY <1>2, SaveConfigKeeps
<1>3. CASE UseIdentity
  BY <1>3, UseIdentityKeeps
<1>4. CASE GenerateIdentity
  BY <1>4, GenerateIdentityKeeps
<1>5. CASE WriteCertificate
  BY <1>5, WriteCertificateKeeps
<1>6. CASE OpenKey
  BY <1>6, OpenKeyKeeps
<1>7. CASE WriteKey
  BY <1>7, WriteKeyKeeps
<1>8. CASE StopServer
  BY <1>8, StopServerKeeps
<1>9. CASE Crash
  BY <1>9, CrashKeeps
<1>10. CASE Lose
  BY <1>10, LoseKeeps
<1>11. CASE Age
  BY <1>11, AgeKeeps
<1>12. ASSUME NEW c \in Client, ClientStep(c) PROVE IInv'
  <2>1. CASE StartClient(c)
    BY <2>1, StartClientKeeps
  <2>2. CASE Type(c)
    BY <2>2, TypeKeeps
  <2>3. CASE NoService(c)
    BY <2>3, NoServiceKeeps
  <2>4. CASE RefuseExpired(c)
    BY <2>4, RefuseExpiredKeeps
  <2>5. CASE RefuseWrong(c)
    BY <2>5, RefuseWrongKeeps
  <2>6. CASE GetCertificate(c)
    BY <2>6, GetCertificateKeeps
  <2>7. CASE OpenFile(c)
    BY <2>7, OpenFileKeeps
  <2>8. CASE SaveCertificate(c)
    BY <2>8, SaveCertificateKeeps
  <2>9. CASE StopClient(c)
    BY <2>9, StopClientKeeps
  <2>10. CASE KillClient(c)
    BY <2>10, KillClientKeeps
  <2> QED
    BY <1>12, <2>1, <2>2, <2>3, <2>4, <2>5, <2>6, <2>7, <2>8, <2>9, <2>10 DEF ClientStep
<1> QED
  BY <1>1, <1>2, <1>3, <1>4, <1>5, <1>6, <1>7, <1>8, <1>9, <1>10, <1>11, <1>12 DEF Next

-----------------------------------------------------------------------------
(* What holds of every behaviour.                                           *)

\* The inductive invariant holds throughout.
THEOREM BootstrapInvariance == Spec => []IInv
<1>1. Init => IInv
  BY InitHolds
<1>2. IInv /\ [Next]_vars => IInv'
  BY StepKeeps, StutterKeeps
<1> QED
  BY <1>1, <1>2, PTL DEF Spec

\* The state keeps its shape: a password is accepted only by the run that shows
\* it, while its service is up, and not once it was refused as expired
\* (bootstrap.rs:28-61).
THEOREM BootstrapTyped == Spec => []TypeOK
<1>1. IInv => TypeOK
  BY DEF IInv
<1> QED
  BY <1>1, BootstrapInvariance, PTL

\* However many clients try it, one password hands out one certificate
\* (bootstrap.rs:46-48: it is removed under the lock that compared it).
THEOREM OneCertificatePerPassword == Spec => []AtMostOnce
<1>1. IInv => AtMostOnce
  BY DEF IInv
<1> QED
  BY <1>1, BootstrapInvariance, PTL

\* Wrong guesses never use a password up (bootstrap.rs:38-59).
THEOREM GuessesAreFree == Spec => []SpentOnlyOnSuccess
<1>1. IInv => SpentOnlyOnSuccess
  BY DEF IInv
<1> QED
  BY <1>1, BootstrapInvariance, PTL

\* A server that was never killed in its start can use the files it finds
\* (server/security.rs:17-36).
THEOREM LossHeals == Spec => []BrickedOnlyByCrash
<1>1. IInv => BrickedOnlyByCrash
  BY DEF IInv, TypeOK, Matching, BrickedOnlyByCrash
<1> QED
  BY <1>1, BootstrapInvariance, PTL

\* Without a kill, a crash or a lost file every client that holds a certificate
\* holds the one that is served (client.rs:448-468).
THEOREM TrustHolds == Spec => []TrustIsCurrent
<1>1. IInv => TrustIsCurrent
  <2> SUFFICES ASSUME IInv, srv = "up", NEW c \in Client, trust[c] \notin {Missing, serving}
               PROVE  IF trust[c] = Torn THEN "kill" \in events
                                         ELSE {"loss", "crash"} \cap events # {}
    BY DEF TrustIsCurrent
  <2>1. CASE trust[c] = Torn
    BY <2>1 DEF IInv, WrittenByClient
  <2>2. CASE trust[c] # Torn
    <3>1. trust[c] \in 1..pairs
      BY <2>2, StartsAssumption DEF IInv, TypeOK, Counted, Content
    <3> SUFFICES ASSUME {"crash", "loss"} \cap events = {}
                 PROVE  FALSE
      BY <2>2
    <3>2. pairs = 1 /\ crt = 1
      BY DEF IInv, Single
    <3>3. serving = 1
      BY <3>2 DEF IInv, Stepwise
    <3> QED
      BY <3>1, <3>2, <3>3
  <2> QED
    BY <2>1, <2>2
<1> QED
  BY <1>1, BootstrapInvariance, PTL
=============================================================================
