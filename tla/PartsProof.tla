----------------------------- MODULE PartsProof -----------------------------
(***************************************************************************)
(* Proofs about the parts that share no state with another: for any number *)
(* of calls the credentials and the pool of the API, for any number of     *)
(* files and folders their way in, for any entries what the cache lists,   *)
(* for any tables the tabs of a workbook, for any records and filters the  *)
(* rows on screen.                                                         *)
(***************************************************************************)
EXTENDS TableView, Intake, Downloads, Cache, Converting, Workspace, Credentials, Counting,
        SequenceTheorems

-----------------------------------------------------------------------------
(* Credentials.  A call is somewhere on one of three ways: to the files, to*)
(* the exchanger, to the pool.  What it has passed is there, whoever made  *)
(* it so.                                                                  *)

FilesWay == {"asking", "comparing", "opening the token", "writing the token",
             "opening the config", "writing the config"}
Exchanged == IF federated THEN "built" ELSE "none"
OnDisk == pointed /\ tokenFile # {0} /\ configFile # "none"

\* What a call may rely on where it is.
Reached(c) ==
    LET a == api[c] IN
    /\ a.at \in FilesWay => a.does \in {"sign", "stat"}
    /\ a.at = "exchanging" => a.does = "publish"
    /\ a.at \in {"pooling", "awaiting"} => a.does = "query"
    /\ a.at \in FilesWay \ {"asking"} => a.token # 0
    /\ a.at \in {"opening the config", "writing the config"} => tokenFile # {0}
    /\ a.at = "writing the config" => configFile # "none"
    /\ a.at = "ready" =>
         \/ a.does \in {"sign", "stat"} /\ (federated => OnDisk)
         \/ a.does = "publish" /\ client = Exchanged
         \/ a.does = "query" /\ pool

CredentialInv ==
    /\ api \in [ApiCalls -> [at : FilesWay \cup {"resting", "exchanging", "pooling", "awaiting", "ready"},
                             does : {"sign", "stat", "publish", "query"}, token : Nat]]
    /\ token \in Nat \ {0}
    /\ lastToken # 0 => OnDisk
    /\ client \in {"unset", Exchanged}
    /\ \A c \in ApiCalls : Reached(c)

\* A pool, a promise of one, or neither.
PoolInv ==
    /\ creating \in Nat /\ pools \in Nat /\ creating + pools <= 1
    /\ ~pool /\ connecting = "none" => creating = 0 /\ pools = 0

\* What a call does to its own entry, where it goes on from a place on its way.
LEMMA GoesOn ==
  ASSUME CredentialInv, NEW c \in ApiCalls, NEW at, Goes(c, at),
         at \in FilesWay \cup {"resting", "exchanging", "pooling", "awaiting", "ready"}
  PROVE  /\ api' \in [ApiCalls -> [at : FilesWay \cup {"resting", "exchanging", "pooling", "awaiting", "ready"},
                                   does : {"sign", "stat", "publish", "query"}, token : Nat]]
         /\ api'[c].at = at /\ api'[c].does = api[c].does /\ api'[c].token = api[c].token
         /\ \A d \in ApiCalls : d # c => api'[d] = api[d]
<1> DEFINE A == [at : FilesWay \cup {"resting", "exchanging", "pooling", "awaiting", "ready"},
                 does : {"sign", "stat", "publish", "query"}, token : Nat]
           e == [api[c] EXCEPT !.at = at]
<1>1. api \in [ApiCalls -> A] /\ api[c] \in A
  BY DEF CredentialInv
<1>2. e \in A /\ e.at = at /\ e.does = api[c].does /\ e.token = api[c].token
  BY <1>1
<1>3. api' = [api EXCEPT ![c] = e]
  BY DEF Goes
<1> HIDE DEF A, e
<1> QED
  BY <1>1, <1>2, <1>3 DEF A

\* A step that takes nothing away leaves the other calls what they rely on.
LEMMA OthersRely ==
  ASSUME CredentialInv, federated' = federated, NEW d \in ApiCalls, api'[d] = api[d],
         pointed => pointed', tokenFile # {0} => tokenFile' # {0},
         configFile # "none" => configFile' # "none", client' \in {client, Exchanged}, pool => pool'
  PROVE  Reached(d)'
<1>1. Reached(d) /\ client \in {"unset", Exchanged}
  BY DEF CredentialInv
<1>2. OnDisk => OnDisk'
  BY DEF OnDisk
<1>3. Exchanged' = Exchanged
  BY DEF Exchanged
<1>4. Exchanged # "unset"
  BY DEF Exchanged
<1>5. client = Exchanged => client' = Exchanged'
  BY <1>1, <1>3
<1> HIDE DEF Exchanged, OnDisk
<1> QED
  BY <1>1, <1>2, <1>5 DEF Reached

\* What a call that begins, or begins again, may rely on.
LEMMA BeginsAnew ==
  ASSUME CredentialInv, NEW c \in ApiCalls,
         NEW e \in [at : FilesWay \cup {"resting", "exchanging", "pooling", "awaiting", "ready"},
                    does : {"sign", "stat", "publish", "query"}, token : Nat],
         api' = [api EXCEPT ![c] = e],
         \/ e.at = "resting"
         \/ e.at = "exchanging" /\ e.does = "publish"
         \/ e.at = "pooling" /\ e.does = "query"
         \/ e.at = "asking" /\ e.does \in {"sign", "stat"}
         \/ e.at = "ready" /\ e.does \in {"sign", "stat"} /\ ~federated,
         UNCHANGED <<federated, token, lastToken, tokenFile, configFile, pointed, client, pool>>
  PROVE  CredentialInv'
<1> DEFINE A == [at : FilesWay \cup {"resting", "exchanging", "pooling", "awaiting", "ready"},
                 does : {"sign", "stat", "publish", "query"}, token : Nat]
<1>1. api \in [ApiCalls -> A] /\ e \in A
  BY DEF CredentialInv
<1> HIDE DEF A
<1>2. api' \in [ApiCalls -> A] /\ api'[c] = e /\ \A d \in ApiCalls : d # c => api'[d] = api[d]
  BY <1>1
<1>3. Reached(c)'
  BY <1>2 DEF Reached, FilesWay
<1>4. \A d \in ApiCalls : d # c => Reached(d)'
  BY <1>2, OthersRely
<1> QED
  BY <1>2, <1>3, <1>4 DEF CredentialInv, OnDisk, Exchanged, A

LEMMA CredentialStart == CredentialInit => CredentialInv /\ PoolInv
<1> SUFFICES ASSUME CredentialInit PROVE CredentialInv /\ PoolInv
  OBVIOUS
<1> DEFINE A == [at : FilesWay \cup {"resting", "exchanging", "pooling", "awaiting", "ready"},
                 does : {"sign", "stat", "publish", "query"}, token : Nat]
<1>1. Resting \in A /\ Resting.at = "resting"
  BY DEF Resting
<1>2. api = [c \in ApiCalls |-> Resting]
  BY DEF CredentialInit
<1> HIDE DEF A
<1>3. api \in [ApiCalls -> A] /\ \A c \in ApiCalls : api[c].at = "resting"
  BY <1>1, <1>2
<1>4. \A c \in ApiCalls : Reached(c)
  BY <1>3 DEF Reached, FilesWay
<1>5. PoolInv
  BY DEF CredentialInit, PoolInv
<1> QED
  BY <1>3, <1>4, <1>5 DEF CredentialInit, CredentialInv, A

\* A step of a call on its way to the files.
LEMMA FilesStep ==
  ASSUME CredentialInv, NEW c \in ApiCalls,
         \/ TokenArrives(c) \/ Compares(c) \/ OpensTokenFile(c) \/ WritesTokenFile(c)
         \/ OpensConfigFile(c) \/ WritesConfigFile(c)
  PROVE  CredentialInv'
<1> DEFINE A == [at : FilesWay \cup {"resting", "exchanging", "pooling", "awaiting", "ready"},
                 does : {"sign", "stat", "publish", "query"}, token : Nat]
<1>1. api \in [ApiCalls -> A] /\ api[c] \in A /\ Reached(c) /\ token \in Nat \ {0}
      /\ client \in {"unset", Exchanged} /\ (lastToken # 0 => OnDisk)
  BY DEF CredentialInv
<1>2. CASE TokenArrives(c)
  <2> DEFINE e == [[api[c] EXCEPT !.token = token] EXCEPT !.at = "comparing"]
  <2>1. api[c].at = "asking" /\ api' = [api EXCEPT ![c] = e]
    BY <1>1, <1>2 DEF TokenArrives
  <2>2. e \in A /\ e.at = "comparing" /\ e.does = api[c].does /\ e.token = token
    BY <1>1 DEF FilesWay
  <2> HIDE DEF A, e
  <2>3. api' \in [ApiCalls -> A] /\ api'[c] = e /\ \A d \in ApiCalls : d # c => api'[d] = api[d]
    BY <1>1, <2>1, <2>2
  <2>4. UNCHANGED <<federated, token, lastToken, tokenFile, configFile, pointed, client, pool>>
    BY <1>2 DEF TokenArrives, poolVars
  <2>5. Reached(c)'
    BY <1>1, <2>1, <2>2, <2>3 DEF Reached, FilesWay
  <2>6. \A d \in ApiCalls : d # c => Reached(d)'
    BY <2>3, <2>4, OthersRely
  <2> QED
    BY <1>1, <2>3, <2>4, <2>5, <2>6 DEF CredentialInv, OnDisk, Exchanged, A
<1>3. CASE Compares(c)
  <2> DEFINE at == IF api[c].token = lastToken THEN "ready" ELSE "opening the token"
  <2>1. api[c].at = "comparing" /\ Goes(c, at)
    BY <1>3 DEF Compares
  <2>2. at \in FilesWay \cup {"resting", "exchanging", "pooling", "awaiting", "ready"}
    BY DEF FilesWay
  <2>3. /\ api' \in [ApiCalls -> A]
        /\ api'[c].at = at /\ api'[c].does = api[c].does /\ api'[c].token = api[c].token
        /\ \A d \in ApiCalls : d # c => api'[d] = api[d]
    BY <2>1, <2>2, GoesOn
  <2>4. UNCHANGED <<federated, token, lastToken, tokenFile, configFile, pointed, client, pool>>
    BY <1>3 DEF Compares, poolVars
  <2>5. Reached(c)'
    BY <1>1, <2>1, <2>3, <2>4 DEF Reached, FilesWay, OnDisk
  <2>6. \A d \in ApiCalls : d # c => Reached(d)'
    BY <2>3, <2>4, OthersRely
  <2> QED
    BY <1>1, <2>3, <2>4, <2>5, <2>6 DEF CredentialInv, OnDisk, Exchanged
<1>4. CASE OpensTokenFile(c) \/ WritesTokenFile(c) \/ OpensConfigFile(c) \/ WritesConfigFile(c)
  <2>1. PICK at \in FilesWay \cup {"ready"} :
          /\ Goes(c, at)
          /\ \/ OpensTokenFile(c) /\ at = "writing the token"
             \/ WritesTokenFile(c) /\ at = "opening the config"
             \/ OpensConfigFile(c) /\ at = "writing the config"
             \/ WritesConfigFile(c) /\ at = "ready"
    BY <1>4 DEF OpensTokenFile, WritesTokenFile, OpensConfigFile, WritesConfigFile, FilesWay
  <2>2. /\ api' \in [ApiCalls -> A]
        /\ api'[c].at = at /\ api'[c].does = api[c].does /\ api'[c].token = api[c].token
        /\ \A d \in ApiCalls : d # c => api'[d] = api[d]
    BY <2>1, GoesOn DEF FilesWay
  <2>3. UNCHANGED <<federated, token, client, pool>>
    BY <1>4 DEF OpensTokenFile, WritesTokenFile, OpensConfigFile, WritesConfigFile, poolVars
  <2>4. /\ pointed => pointed'
        /\ tokenFile # {0} => tokenFile' # {0}
        /\ configFile # "none" => configFile' # "none"
        /\ lastToken' = lastToken \/ OnDisk'
    BY <1>1, <1>4 DEF OpensTokenFile, WritesTokenFile, OpensConfigFile, WritesConfigFile,
                      Reached, FilesWay, OnDisk
  <2>5. Reached(c)'
    BY <1>1, <1>4, <2>1, <2>2 DEF OpensTokenFile, WritesTokenFile, OpensConfigFile, WritesConfigFile,
                                  Reached, FilesWay, OnDisk
  <2>6. \A d \in ApiCalls : d # c => Reached(d)'
    BY <2>2, <2>3, <2>4, OthersRely
  <2>7. lastToken' # 0 => OnDisk'
    BY <1>1, <2>4 DEF OnDisk
  <2> QED
    BY <1>1, <2>2, <2>3, <2>5, <2>6, <2>7 DEF CredentialInv, Exchanged
<1> QED
  BY <1>2, <1>3, <1>4

\* A step of a call on its way to the exchanger or to the pool.
LEMMA OtherWays ==
  ASSUME CredentialInv, NEW c \in ApiCalls, ClientBuilt(c) \/ AwaitsPool(c) \/ PoolArrives(c)
  PROVE  CredentialInv'
<1> DEFINE A == [at : FilesWay \cup {"resting", "exchanging", "pooling", "awaiting", "ready"},
                 does : {"sign", "stat", "publish", "query"}, token : Nat]
<1>1. api \in [ApiCalls -> A] /\ api[c] \in A /\ Reached(c) /\ token \in Nat \ {0}
      /\ client \in {"unset", Exchanged} /\ (lastToken # 0 => OnDisk)
  BY DEF CredentialInv
<1>2. PICK at \in {"ready", "awaiting", "resting"} :
        /\ Goes(c, at)
        /\ \/ ClientBuilt(c) /\ at = "ready"
           \/ AwaitsPool(c) /\ at = (IF pool THEN "ready" ELSE "awaiting")
           \/ PoolArrives(c) /\ (at = "resting" \/ (at = "ready" /\ pool))
  BY DEF ClientBuilt, AwaitsPool, PoolArrives
<1>3. /\ api' \in [ApiCalls -> A]
      /\ api'[c].at = at /\ api'[c].does = api[c].does /\ api'[c].token = api[c].token
      /\ \A d \in ApiCalls : d # c => api'[d] = api[d]
  BY <1>2, GoesOn
<1>4. UNCHANGED <<federated, token, lastToken, tokenFile, configFile, pointed, pool>>
  BY <1>2 DEF ClientBuilt, AwaitsPool, PoolArrives, poolVars
<1>5. Exchanger = Exchanged /\ Exchanged' = Exchanged
  BY <1>1, <1>4 DEF Exchanger, Exchanged
<1>6. client' = client \/ (client' = Exchanged /\ ClientBuilt(c))
  BY <1>2, <1>5 DEF ClientBuilt, AwaitsPool, PoolArrives
<1>7. Reached(c)'
  <2> HIDE DEF A
  <2>1. CASE ClientBuilt(c) /\ at = "ready"
    <3>1. client' = Exchanged' /\ api[c].does = "publish"
      BY <1>1, <1>5, <2>1 DEF ClientBuilt, Reached
    <3> QED
      BY <1>3, <2>1, <3>1 DEF Reached, FilesWay
  <2>2. CASE AwaitsPool(c) /\ at = (IF pool THEN "ready" ELSE "awaiting")
    <3>1. api[c].does = "query"
      BY <1>1, <2>2 DEF AwaitsPool, Reached
    <3> QED
      BY <1>3, <1>4, <2>2, <3>1 DEF Reached, FilesWay
  <2>3. CASE PoolArrives(c) /\ (at = "resting" \/ (at = "ready" /\ pool))
    <3>1. api[c].does = "query"
      BY <1>1, <2>3 DEF PoolArrives, Reached
    <3> QED
      BY <1>3, <1>4, <2>3, <3>1 DEF Reached, FilesWay
  <2> QED
    BY <1>2, <2>1, <2>2, <2>3
<1>8. \A d \in ApiCalls : d # c => Reached(d)'
  BY <1>1, <1>3, <1>4, <1>5, <1>6, OthersRely
<1> QED
  BY <1>1, <1>3, <1>4, <1>5, <1>6, <1>7, <1>8 DEF CredentialInv, OnDisk

\* A step that begins a call, ends one, or is nobody's.
LEMMA EdgeStep ==
  ASSUME CredentialInv,
         \/ \E c \in ApiCalls : CallBegins(c) \/ Serves(c) \/ Fails(c)
         \/ PoolCreated \/ PoolRefused \/ TokenRotates \/ UNCHANGED credentialVars
  PROVE  CredentialInv'
<1>1. /\ token \in Nat \ {0} /\ client \in {"unset", Exchanged} /\ (lastToken # 0 => OnDisk)
      /\ \A d \in ApiCalls : Reached(d)
  BY DEF CredentialInv
<1>2. ASSUME NEW c \in ApiCalls, CallBegins(c) PROVE CredentialInv'
  <2>1. PICK does \in {"sign", "stat", "publish", "query"} :
          api' = [api EXCEPT ![c] = [Resting EXCEPT !.does = does,
                     !.at = CASE does = "publish" -> "exchanging"
                              [] does = "query" -> "pooling"
                              [] OTHER -> IF federated THEN "asking" ELSE "ready"]]
    BY <1>2 DEF CallBegins
  <2> DEFINE at == CASE does = "publish" -> "exchanging"
                     [] does = "query" -> "pooling"
                     [] OTHER -> IF federated THEN "asking" ELSE "ready"
  <2> DEFINE e == [Resting EXCEPT !.does = does, !.at = at]
  <2>2. api' = [api EXCEPT ![c] = e]
    BY <2>1
  <2>3. e \in [at : FilesWay \cup {"resting", "exchanging", "pooling", "awaiting", "ready"},
               does : {"sign", "stat", "publish", "query"}, token : Nat]
        /\ e.does = does /\ e.at = at
    BY DEF Resting, FilesWay
  <2>4. \/ at = "exchanging" /\ does = "publish"
        \/ at = "pooling" /\ does = "query"
        \/ at = "asking" /\ does \in {"sign", "stat"}
        \/ at = "ready" /\ does \in {"sign", "stat"} /\ ~federated
    OBVIOUS
  <2>5. UNCHANGED <<federated, token, lastToken, tokenFile, configFile, pointed, client, pool>>
    BY <1>2 DEF CallBegins, poolVars
  <2> HIDE DEF at, e
  <2> QED
    BY <2>2, <2>3, <2>4, <2>5, BeginsAnew
<1>3. ASSUME NEW c \in ApiCalls, Serves(c) \/ Fails(c) PROVE CredentialInv'
  <2>1. UNCHANGED <<federated, token, lastToken, tokenFile, configFile, pointed, client, pool>>
    BY <1>3 DEF Serves, Fails, poolVars
  <2>2. \/ api' = [api EXCEPT ![c] = Resting]
        \/ api' = [api EXCEPT ![c] = [Resting EXCEPT !.at = IF federated THEN "asking" ELSE "ready"]]
    BY <1>3 DEF Serves, Fails
  <2> DEFINE e == [Resting EXCEPT !.at = IF federated THEN "asking" ELSE "ready"]
  <2>3. e \in [at : FilesWay \cup {"resting", "exchanging", "pooling", "awaiting", "ready"},
               does : {"sign", "stat", "publish", "query"}, token : Nat]
        /\ e.does = "sign" /\ (e.at = "asking" \/ (e.at = "ready" /\ ~federated))
    BY DEF Resting, FilesWay
  <2>4. Resting \in [at : FilesWay \cup {"resting", "exchanging", "pooling", "awaiting", "ready"},
                    does : {"sign", "stat", "publish", "query"}, token : Nat]
        /\ Resting.at = "resting"
    BY DEF Resting
  <2> HIDE DEF e
  <2>5. CASE api' = [api EXCEPT ![c] = Resting]
    BY <2>1, <2>4, <2>5, BeginsAnew
  <2>6. CASE api' = [api EXCEPT ![c] = e]
    BY <2>1, <2>3, <2>6, BeginsAnew
  <2> QED
    BY <2>2, <2>5, <2>6 DEF e
<1>4. CASE PoolCreated \/ PoolRefused
  <2>1. UNCHANGED <<federated, token, lastToken, tokenFile, configFile, pointed, api>> /\ (pool => pool')
        /\ client' \in {client, Exchanger}
    BY <1>4 DEF PoolCreated, PoolRefused
  <2>2. Exchanger = Exchanged /\ Exchanged' = Exchanged
    BY <1>1, <2>1 DEF Exchanger, Exchanged
  <2>3. \A d \in ApiCalls : Reached(d)'
    BY <2>1, <2>2, OthersRely
  <2> QED
    BY <1>1, <2>1, <2>2, <2>3 DEF CredentialInv, OnDisk
<1>5. CASE TokenRotates \/ UNCHANGED credentialVars
  <2>1. UNCHANGED <<federated, lastToken, tokenFile, configFile, pointed, client, pool, api>>
        /\ token' \in Nat \ {0}
    BY <1>1, <1>5 DEF TokenRotates, credentialVars, poolVars
  <2>2. \A d \in ApiCalls : Reached(d)'
    BY <2>1, OthersRely
  <2> QED
    BY <1>1, <2>1, <2>2 DEF CredentialInv, OnDisk, Exchanged
<1> QED
  BY <1>2, <1>3, <1>4, <1>5

\* A file that is not whole is being written, or its last write was broken off.
FilesInHand ==
    /\ tokenFile = {} => InHand("token")
    /\ configFile = "torn" => InHand("config")

\* A step of a call that is not writing a file, or of none, leaves it so.
LEMMA StaysInHand ==
  ASSUME FilesInHand, UNCHANGED <<tokenFile, configFile>>, cut \subseteq cut',
         \A d \in ApiCalls, f \in {"token", "config"} :
            api[d].at = Writing[f] => api'[d].at = Writing[f] \/ f \in cut'
  PROVE  FilesInHand'
BY DEF FilesInHand, InHand

LEMMA InHandStep == CredentialInv /\ FilesInHand /\ [CredentialNext]_credentialVars => FilesInHand'
<1> SUFFICES ASSUME CredentialInv, FilesInHand, [CredentialNext]_credentialVars PROVE FilesInHand'
  OBVIOUS
<1>1. Writing["token"] = "writing the token" /\ Writing["config"] = "writing the config"
  BY DEF Writing
<1>2. DOMAIN api = ApiCalls
  BY DEF CredentialInv
<1>3. CASE PoolCreated \/ PoolRefused \/ TokenRotates \/ UNCHANGED credentialVars
  <2>1. UNCHANGED <<tokenFile, configFile, cut, api>>
    BY <1>3 DEF PoolCreated, PoolRefused, TokenRotates, credentialVars
  <2> QED
    BY <2>1, StaysInHand
<1>4. ASSUME NEW c \in ApiCalls, CallBegins(c) \/ TokenArrives(c) \/ Compares(c) \/ ClientBuilt(c)
                                  \/ AwaitsPool(c) \/ PoolArrives(c) \/ Serves(c)
      PROVE  FilesInHand'
  <2>1. UNCHANGED <<tokenFile, configFile, cut>>
    BY <1>4 DEF CallBegins, TokenArrives, Compares, ClientBuilt, AwaitsPool, PoolArrives, Serves
  <2>2. api[c].at \notin {"writing the token", "writing the config"}
    BY <1>4 DEF CallBegins, TokenArrives, Compares, ClientBuilt, AwaitsPool, PoolArrives, Serves
  <2>3. \A d \in ApiCalls : d # c => api'[d] = api[d]
    BY <1>2, <1>4 DEF CallBegins, TokenArrives, Compares, ClientBuilt, AwaitsPool, PoolArrives, Serves, Goes
  <2>4. \A d \in ApiCalls, f \in {"token", "config"} : api[d].at = Writing[f] => api'[d].at = Writing[f]
    BY <1>1, <2>2, <2>3
  <2> QED
    BY <2>1, <2>4, StaysInHand
<1>5. ASSUME NEW c \in ApiCalls, Fails(c) PROVE FilesInHand'
  <2>1. /\ UNCHANGED <<tokenFile, configFile>> /\ cut \subseteq cut'
        /\ \A f \in {"token", "config"} : api[c].at = Writing[f] => f \in cut'
        /\ \A d \in ApiCalls : d # c => api'[d] = api[d]
    BY <1>2, <1>5 DEF Fails
  <2>2. \A d \in ApiCalls, f \in {"token", "config"} :
           api[d].at = Writing[f] => api'[d].at = Writing[f] \/ f \in cut'
    BY <2>1
  <2> QED
    BY <2>1, <2>2, StaysInHand
\* The writers: the file at hand is whole, or theirs; the other one stays as it was.
<1>6. ASSUME NEW c \in ApiCalls, OpensTokenFile(c) \/ WritesTokenFile(c) \/ OpensConfigFile(c) \/ WritesConfigFile(c)
      PROVE  FilesInHand'
  <2>1. PICK at \in FilesWay \cup {"ready"} :
          /\ Goes(c, at)
          /\ \/ OpensTokenFile(c) /\ at = "writing the token"
             \/ WritesTokenFile(c) /\ at = "opening the config"
             \/ OpensConfigFile(c) /\ at = "writing the config"
             \/ WritesConfigFile(c) /\ at = "ready"
    BY <1>6 DEF OpensTokenFile, WritesTokenFile, OpensConfigFile, WritesConfigFile, FilesWay
  <2>2. api'[c].at = at /\ \A d \in ApiCalls : d # c => api'[d] = api[d]
    BY <2>1, GoesOn DEF FilesWay
  <2>3. CASE OpensTokenFile(c) /\ at = "writing the token"
    BY <1>1, <2>2, <2>3 DEF OpensTokenFile, FilesInHand, InHand
  <2>4. CASE WritesTokenFile(c) /\ at = "opening the config"
    BY <1>1, <2>2, <2>4 DEF WritesTokenFile, FilesInHand, InHand
  <2>5. CASE OpensConfigFile(c) /\ at = "writing the config"
    BY <1>1, <2>2, <2>5 DEF OpensConfigFile, FilesInHand, InHand
  <2>6. CASE WritesConfigFile(c) /\ at = "ready"
    BY <1>1, <2>2, <2>6 DEF WritesConfigFile, FilesInHand, InHand
  <2> QED
    BY <2>1, <2>3, <2>4, <2>5, <2>6
<1> QED
  BY <1>3, <1>4, <1>5, <1>6 DEF CredentialNext

\* However calls overlap and fail, one of them signs, publishes or queries only
\* after what it needs was put on disk or in memory, whichever call put it there
\* (writeAdcCredentials, gcpAuthClient, getPool), for any number of calls; a file
\* that it finds emptied is one that another call is writing, or failed to write.
THEOREM SignedWithCredentials == CredentialSpec => []SignsWithCredentials
<1>1. CredentialInit => CredentialInv
  BY CredentialStart
<1>2. CredentialInv /\ [CredentialNext]_credentialVars => CredentialInv'
  BY FilesStep, OtherWays, EdgeStep DEF CredentialNext
<1>3. CredentialInit => FilesInHand
  BY DEF CredentialInit, FilesInHand
<1>4. CredentialInv /\ FilesInHand => SignsWithCredentials
  <2> SUFFICES ASSUME CredentialInv, FilesInHand, NEW c \in ApiCalls, api[c].at = "ready"
               PROVE  CASE api[c].does \in {"sign", "stat"} ->
                             federated =>
                                 /\ pointed /\ tokenFile # {0} /\ configFile # "none"
                                 /\ tokenFile = {} => InHand("token")
                                 /\ configFile = "torn" => InHand("config")
                        [] api[c].does = "publish" -> client = (IF federated THEN "built" ELSE "none")
                        [] OTHER -> pool
    BY DEF SignsWithCredentials
  <2> QED
    BY DEF CredentialInv, Reached, OnDisk, Exchanged, FilesInHand
<1> QED
  BY <1>1, <1>2, <1>3, <1>4, InHandStep, PTL DEF CredentialSpec

\* There is one pool, or one on its way, however many first calls meet (getPool).
THEOREM OnePoolOnly == CredentialSpec => []OnePool
<1>1. CredentialInit => PoolInv
  BY CredentialStart
<1>2. PoolInv /\ [CredentialNext]_credentialVars => PoolInv'
  <2> SUFFICES ASSUME PoolInv, [CredentialNext]_credentialVars PROVE PoolInv'
    OBVIOUS
  <2>1. ASSUME NEW c \in ApiCalls, AwaitsPool(c) PROVE PoolInv'
    BY <2>1 DEF AwaitsPool, PoolInv
  <2>2. CASE PoolCreated
    BY <2>2 DEF PoolCreated, PoolInv
  <2>3. CASE PoolRefused
    BY <2>3 DEF PoolRefused, PoolInv
  <2>4. CASE UNCHANGED poolVars
    BY <2>4 DEF poolVars, PoolInv
  <2> QED
    BY <2>1, <2>2, <2>3, <2>4 DEF CredentialNext, credentialVars, CallBegins, TokenArrives, Compares,
       OpensTokenFile, WritesTokenFile, OpensConfigFile, WritesConfigFile, ClientBuilt, PoolArrives,
       Serves, Fails, TokenRotates
<1>3. PoolInv => OnePool
  BY DEF PoolInv, OnePool
<1> QED
  BY <1>1, <1>2, <1>3, PTL DEF CredentialSpec

-----------------------------------------------------------------------------
(* Intake.  What has been dropped is still to be read, got or lost, and the*)
(* surface it was dropped on stays shut while the workspace stands.        *)

SurfaceRow == [handing : BOOLEAN, emptyDrop : BOOLEAN, picking : BOOLEAN]
WalkRow == [live : BOOLEAN, visit : Nat, dropped : SUBSET Things, left : SUBSET Things,
            got : SUBSET Things, lost : SUBSET Things]
BatchRow == [by : Surfaces, visit : Nat, chosen : SUBSET Things,
             staged : {StageFiles(fit) : fit \in SUBSET Things}, lost : SUBSET Things]

IntakeTyped ==
    /\ surface \in [Surfaces -> SurfaceRow]
    /\ walk \in [Surfaces -> WalkRow]
    /\ batch \in Seq(BatchRow)
    /\ visits \in Nat

\* A walk has lost nothing it does not know of; a batch is what was not lost.
Accounted(w) ==
    /\ w.left \subseteq w.dropped /\ w.lost \subseteq w.dropped /\ w.left \cap w.lost = {}
    /\ w.got = w.dropped \ (w.left \cup w.lost)
NothingSlips ==
    /\ \A s \in Surfaces : walk[s].live => Accounted(walk[s])
    /\ \A i \in 1..Len(batch) : batch[i].staged = StageFiles(batch[i].chosen \ batch[i].lost)

\* The surface is shut while a walk of this visit, or a batch of it, is its own.
StaysShut ==
    /\ \A s \in Surfaces : walk[s].live =>
         /\ walk[s].visit <= visits
         /\ walk[s].visit = visits /\ screen = 0 => surface[s].handing
         /\ \A i \in 1..Len(batch) : batch[i].by = s => batch[i].visit # walk[s].visit
    /\ \A i \in 1..Len(batch) :
         /\ batch[i].visit <= visits
         /\ batch[i].visit = visits /\ screen = 0 => surface[batch[i].by].handing
         /\ \A j \in 1..Len(batch) : batch[i].by = batch[j].by /\ batch[i].visit = batch[j].visit => i = j

IntakeInv == IntakeTyped /\ NothingSlips /\ StaysShut

LEMMA Appended ==
  ASSUME NEW S, NEW q \in Seq(S), NEW e \in S
  PROVE  /\ Append(q, e) \in Seq(S) /\ Len(Append(q, e)) = Len(q) + 1 /\ Len(q) \in Nat
         /\ \A i \in 1..Len(q) : Append(q, e)[i] = q[i]
         /\ Append(q, e)[Len(q) + 1] = e
OBVIOUS

\* A hand-over of a selection that is accounted for, by a surface that shuts.
LEMMA HandedOver ==
  ASSUME IntakeInv, NEW s \in Surfaces, NEW when \in Nat, NEW chosen \in SUBSET Things,
         NEW lost \in SUBSET Things, NEW fit, NEW emptyDrop \in BOOLEAN, fit = chosen \ lost,
         Hand(s, when, chosen, fit, lost, emptyDrop), when <= visits,
         \A i \in 1..Len(batch) : batch[i].by = s => batch[i].visit # when,
         walk' \in [Surfaces -> WalkRow], \A r \in Surfaces : walk'[r].live => walk'[r] = walk[r] /\ walk[r].live,
         walk'[s].live => walk[s].visit # when,
         UNCHANGED <<screen, visits>>
  PROVE  IntakeInv'
<1> DEFINE e == [by |-> s, visit |-> when, chosen |-> chosen, staged |-> StageFiles(fit), lost |-> lost]
           row == [handing |-> fit # {}, emptyDrop |-> emptyDrop, picking |-> FALSE]
           n == Len(batch)
<1>1. /\ surface \in [Surfaces -> SurfaceRow] /\ walk \in [Surfaces -> WalkRow]
      /\ batch \in Seq(BatchRow) /\ visits \in Nat
  BY DEF IntakeInv, IntakeTyped
<1>2. e \in BatchRow /\ e.by = s /\ e.visit = when /\ e.chosen = chosen /\ e.lost = lost
      /\ e.staged = StageFiles(chosen \ lost)
  BY DEF BatchRow
<1>3. row \in SurfaceRow /\ (row.handing <=> fit # {})
  BY DEF SurfaceRow
<1>4. surface' = IF screen # 0 \/ when # visits THEN surface ELSE [surface EXCEPT ![s] = row]
  BY DEF Hand
<1>5. IF fit = {} THEN batch' = batch ELSE batch' = Append(batch, e)
  BY DEF Hand, OnFiles
<1> HIDE DEF e, row
<1>6. /\ surface' \in [Surfaces -> SurfaceRow]
      /\ \A r \in Surfaces : surface'[r] = surface[r] \/ (r = s /\ surface'[r] = row /\ when = visits)
      /\ screen = 0 /\ when = visits => surface'[s] = row
  BY <1>1, <1>3, <1>4
<1>7. n \in Nat /\ batch' \in Seq(BatchRow)
      /\ (\A i \in 1..n : batch'[i] = batch[i])
      /\ \/ fit = {} /\ Len(batch') = n
         \/ fit # {} /\ Len(batch') = n + 1 /\ batch'[n + 1] = e
  <2>1. CASE fit = {}
    BY <1>1, <1>5, <2>1
  <2>2. CASE fit # {}
    <3>1. batch' = Append(batch, e)
      BY <1>5, <2>2
    <3>2. /\ Append(batch, e) \in Seq(BatchRow) /\ Len(Append(batch, e)) = n + 1 /\ n \in Nat
          /\ \A i \in 1..n : Append(batch, e)[i] = batch[i]
          /\ Append(batch, e)[n + 1] = e
      BY <1>1, <1>2, Appended
    <3> HIDE DEF n
    <3> QED
      BY <2>2, <3>1, <3>2
  <2> QED
    BY <2>1, <2>2
<1> HIDE DEF n
<1>8. \A i \in 1..Len(batch') : (i \in 1..n /\ batch'[i] = batch[i]) \/ (i = n + 1 /\ batch'[i] = e /\ fit # {})
  BY <1>7
<1>9. NothingSlips /\ StaysShut
  BY DEF IntakeInv
<1>10. IntakeTyped'
  BY <1>1, <1>6, <1>7 DEF IntakeTyped
<1>11. NothingSlips'
  BY <1>2, <1>8, <1>9 DEF NothingSlips, n, Accounted, StageFiles
<1>12. StaysShut'
  <2>1. ASSUME NEW r \in Surfaces, walk'[r].live
        PROVE  /\ walk'[r].visit <= visits
               /\ walk'[r].visit = visits /\ screen = 0 => surface'[r].handing
               /\ \A i \in 1..Len(batch') : batch'[i].by = r => batch'[i].visit # walk'[r].visit
    <3>1. /\ walk'[r] = walk[r] /\ walk[r].live /\ walk[r].visit <= visits
          /\ walk[r].visit = visits /\ screen = 0 => surface[r].handing
          /\ \A i \in 1..n : batch[i].by = r => batch[i].visit # walk[r].visit
      BY <1>9, <2>1 DEF StaysShut, n
    <3>2. r = s => walk[r].visit # when
      BY <2>1
    <3> QED
      BY <1>2, <1>6, <1>8, <3>1, <3>2
  <2>2. ASSUME NEW i \in 1..Len(batch')
        PROVE  /\ batch'[i].visit <= visits
               /\ batch'[i].visit = visits /\ screen = 0 => surface'[batch'[i].by].handing
               /\ \A j \in 1..Len(batch') : batch'[i].by = batch'[j].by /\ batch'[i].visit = batch'[j].visit => i = j
    <3>1. \A k \in 1..n :
            /\ batch[k].visit <= visits /\ batch[k].by \in Surfaces
            /\ batch[k].visit = visits /\ screen = 0 => surface[batch[k].by].handing
            /\ \A j \in 1..n : batch[k].by = batch[j].by /\ batch[k].visit = batch[j].visit => k = j
      <4>1. \A k \in 1..n : batch[k] \in BatchRow
        BY <1>1 DEF n
      <4>2. \A k \in 1..n : batch[k].by \in Surfaces
        BY <4>1 DEF BatchRow
      <4> QED
        BY <1>9, <4>2 DEF StaysShut, n
    <3>2. \A k \in 1..n : batch[k].by = s => batch[k].visit # when
      BY DEF n
    <3> QED
      BY <1>2, <1>3, <1>6, <1>8, <2>2, <3>1, <3>2
  <2> QED
    BY <2>1, <2>2 DEF StaysShut
<1> QED
  BY <1>10, <1>11, <1>12 DEF IntakeInv

\* A step that makes no batch and ends no walk: the walks go on accounted for.
LEMMA NothingHanded ==
  ASSUME IntakeInv, UNCHANGED <<batch, visits>>, walk' \in [Surfaces -> WalkRow],
         surface' \in [Surfaces -> SurfaceRow],
         \A s \in Surfaces : walk'[s].live =>
           /\ Accounted(walk'[s])
           /\ \/ walk[s].live /\ walk'[s].visit = walk[s].visit
              \/ walk'[s].visit = visits /\ screen = 0 /\ ~surface[s].handing /\ surface'[s].handing,
         screen' # 0 \/ (screen = 0 /\ \A s \in Surfaces : surface[s].handing => surface'[s].handing)
  PROVE  IntakeInv'
<1>1. IntakeTyped /\ NothingSlips /\ StaysShut
  BY DEF IntakeInv
<1>2. \A i \in 1..Len(batch) : batch[i] \in BatchRow /\ batch[i].by \in Surfaces
  <2>1. \A i \in 1..Len(batch) : batch[i] \in BatchRow
    BY <1>1 DEF IntakeTyped
  <2> QED
    BY <2>1 DEF BatchRow
<1>3. IntakeTyped' /\ NothingSlips'
  BY <1>1 DEF IntakeTyped, NothingSlips
<1>4. ASSUME NEW s \in Surfaces, walk'[s].live
      PROVE  /\ walk'[s].visit <= visits
             /\ walk'[s].visit = visits /\ screen' = 0 => surface'[s].handing
             /\ \A i \in 1..Len(batch) : batch[i].by = s => batch[i].visit # walk'[s].visit
  <2>1. CASE walk[s].live /\ walk'[s].visit = walk[s].visit
    BY <1>1, <2>1 DEF StaysShut
  <2>2. CASE walk'[s].visit = visits /\ screen = 0 /\ ~surface[s].handing /\ surface'[s].handing
    BY <1>1, <1>2, <2>2 DEF StaysShut, IntakeTyped
  <2> QED
    BY <1>4, <2>1, <2>2
<1>5. StaysShut'
  BY <1>1, <1>2, <1>4 DEF StaysShut
<1> QED
  BY <1>3, <1>5 DEF IntakeInv

LEMMA IntakeStart == IntakeInit => IntakeInv
<1> SUFFICES ASSUME IntakeInit PROVE IntakeInv
  OBVIOUS
<1>1. NoWalk \in WalkRow /\ ~NoWalk.live
  BY DEF NoWalk, WalkRow
<1>2. Fresh \in [Surfaces -> SurfaceRow]
  BY DEF Fresh, SurfaceRow
<1>3. walk \in [Surfaces -> WalkRow] /\ \A s \in Surfaces : ~walk[s].live
  BY <1>1 DEF IntakeInit
<1>4. batch = <<>> /\ Len(batch) = 0 /\ visits = 0 /\ surface = Fresh
  BY DEF IntakeInit
<1> QED
  BY <1>2, <1>3, <1>4 DEF IntakeInv, IntakeTyped, NothingSlips, StaysShut

LEMMA IntakeStep == IntakeInv /\ [IntakeNext]_intakeVars => IntakeInv'
<1> SUFFICES ASSUME IntakeInv, [IntakeNext]_intakeVars PROVE IntakeInv'
  OBVIOUS
<1>1. /\ surface \in [Surfaces -> SurfaceRow] /\ walk \in [Surfaces -> WalkRow]
      /\ batch \in Seq(BatchRow) /\ visits \in Nat
      /\ NothingSlips /\ StaysShut
  BY DEF IntakeInv, IntakeTyped
<1>2. \A s \in Surfaces : walk[s].live => Accounted(walk[s])
  BY <1>1 DEF NothingSlips
<1>3. \A s \in Surfaces : surface[s].handing \in BOOLEAN /\ walk[s] \in WalkRow /\ surface[s] \in SurfaceRow
  BY <1>1 DEF SurfaceRow
<1>4. CASE SessionKnown \/ UNCHANGED intakeVars
  BY <1>1, <1>2, <1>4, NothingHanded DEF SessionKnown, intakeVars
<1>5. CASE Arrive
  <2>1. Fresh \in [Surfaces -> SurfaceRow]
    BY DEF Fresh, SurfaceRow
  <2> QED
    BY <1>1, <1>2, <1>5, <2>1, NothingHanded DEF Arrive
<1>6. CASE BackToWorkspace
  <2>1. UNCHANGED <<surface, walk, batch>> /\ visits' = visits + 1
    BY <1>6 DEF BackToWorkspace
  <2>2. \A i \in 1..Len(batch) : batch[i].visit \in Nat
    <3>1. \A i \in 1..Len(batch) : batch[i] \in BatchRow
      BY <1>1
    <3> QED
      BY <3>1 DEF BatchRow
  <2>3. \A s \in Surfaces : walk[s].visit \in Nat
    BY <1>3 DEF WalkRow
  <2>4. IntakeTyped' /\ NothingSlips'
    BY <1>1, <2>1 DEF IntakeTyped, NothingSlips
  <2>5. StaysShut'
    BY <1>1, <2>1, <2>2, <2>3 DEF StaysShut
  <2> QED
    BY <2>4, <2>5 DEF IntakeInv
<1>7. ASSUME NEW s \in Surfaces, NEW chosen \in Selections, Drop(s, chosen) PROVE IntakeInv'
  <2> DEFINE w == WalkThrough(chosen)
             row == [surface[s] EXCEPT !.handing = TRUE]
  <2>1. chosen \subseteq Things /\ Entered(chosen) \subseteq chosen
    BY IntakeAssumption DEF Entered
  <2>2. w \in WalkRow /\ w.live /\ w.visit = visits /\ Accounted(w)
    BY <1>1, <2>1 DEF WalkThrough, WalkRow, Accounted
  <2>3. row \in SurfaceRow /\ row.handing
    BY <1>3 DEF SurfaceRow
  <2>4. /\ walk' = [walk EXCEPT ![s] = w] /\ surface' = [surface EXCEPT ![s] = row]
        /\ screen = 0 /\ ~surface[s].handing /\ UNCHANGED <<batch, visits, screen>>
    BY <1>7 DEF Drop, Inert
  <2> HIDE DEF w, row
  <2>5. walk' \in [Surfaces -> WalkRow] /\ surface' \in [Surfaces -> SurfaceRow]
    BY <1>1, <2>2, <2>3, <2>4
  <2>6. \A r \in Surfaces : walk'[r].live =>
           /\ Accounted(walk'[r])
           /\ \/ walk[r].live /\ walk'[r].visit = walk[r].visit
              \/ walk'[r].visit = visits /\ screen = 0 /\ ~surface[r].handing /\ surface'[r].handing
    BY <1>1, <1>2, <2>2, <2>3, <2>4
  <2>7. \A r \in Surfaces : surface[r].handing => surface'[r].handing
    BY <1>1, <2>3, <2>4
  <2> QED
    BY <2>4, <2>5, <2>6, <2>7, NothingHanded
<1>8. ASSUME NEW s \in Surfaces, ReadEntries(s) PROVE IntakeInv'
  <2>1. PICK read \in SUBSET walk[s].left, gone \in SUBSET walk[s].left :
          Walked(s, read, gone) /\ read \cap gone = {}
    BY <1>8 DEF ReadEntries, InFolder
  <2> DEFINE w == [walk[s] EXCEPT !.left = @ \ (read \cup gone), !.got = @ \cup (read \ Broken),
                                  !.lost = @ \cup gone \cup (read \cap Broken)]
  <2>2. /\ walk' = [walk EXCEPT ![s] = w] /\ UNCHANGED <<surface, batch, screen, visits>>
    BY <1>1, <2>1 DEF Walked
  <2>3. walk[s].live /\ Accounted(walk[s]) /\ walk[s] \in WalkRow
    BY <1>2, <1>3, <1>8 DEF ReadEntries
  <2>4. /\ w \in WalkRow /\ w.live = walk[s].live /\ w.visit = walk[s].visit /\ w.dropped = walk[s].dropped
        /\ w.left = walk[s].left \ (read \cup gone) /\ w.got = walk[s].got \cup (read \ Broken)
        /\ w.lost = walk[s].lost \cup gone \cup (read \cap Broken)
    BY <2>3 DEF WalkRow
  <2> HIDE DEF w
  <2>5. Accounted(w)
    BY <2>1, <2>3, <2>4 DEF Accounted
  <2>6. walk' \in [Surfaces -> WalkRow] /\ walk'[s] = w /\ \A r \in Surfaces : r # s => walk'[r] = walk[r]
    BY <1>1, <2>2, <2>4
  <2>7. \A r \in Surfaces : walk'[r].live =>
           Accounted(walk'[r]) /\ walk[r].live /\ walk'[r].visit = walk[r].visit
    BY <1>2, <2>3, <2>4, <2>5, <2>6
  <2> QED
    BY <1>1, <2>2, <2>6, <2>7, NothingHanded DEF StaysShut
<1>9. ASSUME NEW s \in Surfaces, WalkEnded(s) PROVE IntakeInv'
  <2>1. /\ walk[s].live /\ walk[s].left = {} /\ walk' = [walk EXCEPT ![s] = NoWalk]
        /\ Hand(s, walk[s].visit, walk[s].dropped, walk[s].got, walk[s].lost, walk[s].got = {})
        /\ UNCHANGED <<screen, visits>>
    BY <1>9 DEF WalkEnded
  <2>2. /\ walk[s].visit \in Nat /\ walk[s].dropped \in SUBSET Things /\ walk[s].lost \in SUBSET Things
        /\ walk[s].got = walk[s].dropped \ walk[s].lost /\ (walk[s].got = {}) \in BOOLEAN
    BY <1>2, <1>3, <2>1 DEF WalkRow, Accounted
  <2>3. NoWalk \in WalkRow /\ ~NoWalk.live
    BY DEF NoWalk, WalkRow
  <2>4. walk' \in [Surfaces -> WalkRow] /\ ~walk'[s].live /\ \A r \in Surfaces : r # s => walk'[r] = walk[r]
    BY <1>1, <2>1, <2>3
  <2>5. walk[s].visit <= visits /\ \A i \in 1..Len(batch) : batch[i].by = s => batch[i].visit # walk[s].visit
    BY <1>1, <2>1 DEF StaysShut
  <2> QED
    BY <2>1, <2>2, <2>4, <2>5, HandedOver
<1>10. ASSUME NEW s \in Surfaces, PickerOpened(s) PROVE IntakeInv'
  <2> DEFINE row == [surface[s] EXCEPT !.picking = TRUE]
  <2>1. row \in SurfaceRow /\ row.handing = surface[s].handing
    BY <1>3 DEF SurfaceRow
  <2>2. surface' = [surface EXCEPT ![s] = row] /\ screen = 0 /\ UNCHANGED <<walk, batch, screen, visits>>
    BY <1>10 DEF PickerOpened
  <2> HIDE DEF row
  <2>3. surface' \in [Surfaces -> SurfaceRow] /\ \A r \in Surfaces : surface'[r].handing = surface[r].handing
    BY <1>1, <2>1, <2>2
  <2> QED
    BY <1>1, <1>2, <2>2, <2>3, NothingHanded
<1>11. ASSUME NEW s \in Surfaces, NEW chosen \in Selections, PickerAnswered(s, chosen) PROVE IntakeInv'
  <2>1. CASE Inert(s)
    <3> DEFINE row == [surface[s] EXCEPT !.picking = FALSE]
    <3>1. row \in SurfaceRow /\ row.handing = surface[s].handing
      BY <1>3 DEF SurfaceRow
    <3>2. surface' = [surface EXCEPT ![s] = row] /\ screen = 0 /\ UNCHANGED <<walk, batch, screen, visits>>
      BY <1>11, <2>1 DEF PickerAnswered
    <3> HIDE DEF row
    <3>3. surface' \in [Surfaces -> SurfaceRow] /\ \A r \in Surfaces : surface'[r].handing = surface[r].handing
      BY <1>1, <3>1, <3>2
    <3> QED
      BY <1>1, <1>2, <3>2, <3>3, NothingHanded
  <2>2. CASE ~Inert(s)
    <3>1. /\ screen = 0 /\ ~surface[s].handing /\ UNCHANGED <<walk, screen, visits>>
          /\ Hand(s, visits, chosen, chosen, {}, surface[s].emptyDrop /\ chosen = {})
      BY <1>11, <2>2 DEF PickerAnswered, Inert
    <3>2. (surface[s].emptyDrop /\ chosen = {}) \in BOOLEAN /\ chosen \in SUBSET Things
          /\ {} \in SUBSET Things /\ chosen = chosen \ {}
      BY IntakeAssumption
    <3>3. /\ \A i \in 1..Len(batch) : batch[i].by = s => batch[i].visit # visits
          /\ walk[s].live => walk[s].visit # visits
      BY <1>1, <3>1 DEF StaysShut
    <3>4. /\ walk' \in [Surfaces -> WalkRow] /\ visits <= visits
          /\ (\A r \in Surfaces : walk'[r].live => walk'[r] = walk[r] /\ walk[r].live)
          /\ (walk'[s].live => walk[s].visit # visits)
      BY <1>1, <3>1, <3>3
    <3> QED
      BY <1>1, <3>1, <3>2, <3>3, <3>4, HandedOver
  <2> QED
    BY <2>1, <2>2
<1> QED
  BY <1>4, <1>5, <1>6, <1>7, <1>8, <1>9, <1>10, <1>11 DEF IntakeNext

\* However a folder comes in, in whatever answers of readEntries, every file of a
\* selection is staged, refused ones with their reason, but for those the walk gave
\* up (collectDropped, onFiles), for any set of files, folders and surfaces.
THEOREM DroppedIsStaged == IntakeSpec => []EveryDroppedFileIsStaged
<1>1. IntakeInv => EveryDroppedFileIsStaged
  <2> SUFFICES ASSUME IntakeInv, NEW i \in DOMAIN batch
               PROVE  /\ {f.thing : f \in batch[i].staged} = batch[i].chosen \ batch[i].lost
                      /\ {f.thing : f \in {g \in batch[i].staged : g.refused}}
                            = Unfit \cap (batch[i].chosen \ batch[i].lost)
    BY DEF EveryDroppedFileIsStaged
  <2>1. i \in 1..Len(batch)
    BY DEF IntakeInv, IntakeTyped
  <2>2. batch[i].staged = StageFiles(batch[i].chosen \ batch[i].lost)
    BY <2>1 DEF IntakeInv, NothingSlips
  <2> DEFINE F == batch[i].chosen \ batch[i].lost
             row(t) == [thing |-> t, refused |-> t \in Unfit]
  <2>3. \A t \in F : row(t).thing = t
    OBVIOUS
  <2>4. \A t \in F : row(t).refused <=> t \in Unfit
    OBVIOUS
  <2>5. batch[i].staged = {row(t) : t \in F}
    BY <2>2 DEF StageFiles
  <2> HIDE DEF row, F
  <2>6. {f.thing : f \in batch[i].staged} = F
    BY <2>3, <2>5
  <2>7. {f.thing : f \in {g \in batch[i].staged : g.refused}} = Unfit \cap F
    BY <2>3, <2>4, <2>5
  <2> QED
    BY <2>6, <2>7 DEF F
<1> QED
  BY <1>1, IntakeStart, IntakeStep, PTL DEF IntakeSpec

\* A surface hands over once on a visit: neither a walk that ends late nor a picker
\* left open makes a second batch behind the first (useFileIntake's lock), for any
\* number of surfaces, visits and batches.
THEOREM HandsOverOnce == IntakeSpec => []OneHandOver
<1>1. IntakeInv => OneHandOver
  <2> SUFFICES ASSUME IntakeInv PROVE OneHandOver
    OBVIOUS
  <2>1. DOMAIN batch = 1..Len(batch)
    BY DEF IntakeInv, IntakeTyped
  <2> QED
    BY <2>1 DEF OneHandOver, IntakeInv, StaysShut
<1> QED
  BY <1>1, IntakeStart, IntakeStep, PTL DEF IntakeSpec

-----------------------------------------------------------------------------
(* Converting.  What a poll answers was true of the server when it was     *)
(* read, and what is final there stays so.                                 *)

FileStages == {"INSPECTING", "CONVERTING", "COMPLETED", "FAILED"}
RequestStages == {"CONVERTING", "COMPLETED", "FAILED"}
Marks == {"none", "QUEUED", "DONE", "FAILED"}
AnswerRow == [status : RequestStages \cup {"none"}, rows : [Documents -> Marks]]
AskRow == [at : {"idle", "asking"}, left : SUBSET Queries, status : RequestStages \cup {"none"},
           shaped : SUBSET Documents, files : [Documents -> FileStages], results : [Documents -> Marks]]
VisitRow == [open : BOOLEAN, known : AnswerRow, noted : SUBSET Documents, failed : SUBSET Documents,
             awaited : BOOLEAN]

ServerHolds ==
    /\ fileStage \in [Documents -> FileStages] /\ results \in [Documents -> Marks]
    /\ shaped \subseteq Documents /\ status \in RequestStages
    /\ status # "CONVERTING" => \A f \in Documents : HasEnded(f)
    /\ \A f \in Documents :
         /\ f \in shaped <=> results[f] # "none"
         /\ fileStage[f] = "INSPECTING" => f \notin shaped
         /\ fileStage[f] = "CONVERTING" => results[f] = "QUEUED"
         /\ fileStage[f] = "COMPLETED" => results[f] = "DONE"

\* The tables of a file are over: they ended, or their file failed.
IsOver(f) == fileStage[f] = "FAILED" \/ results[f] \in {"DONE", "FAILED"}
BorneOut(a) ==
    /\ a \in AnswerRow
    /\ \A f \in Documents :
         /\ a.rows[f] # "none" => f \in shaped
         /\ a.rows[f] \in {"DONE", "FAILED"} => IsOver(f)
    /\ Ended(a) => \A f \in Documents : HasEnded(f) /\ a.rows[f] # "QUEUED"

\* A poll that has read an ended request reads a server that stands still.
ReadOfTheEnd(a) ==
    /\ "request" \notin a.left /\ status # "CONVERTING"
    /\ "files" \notin a.left => a.files = fileStage
    /\ "results" \notin a.left => a.results = results
ReadsTruly(a) ==
    /\ IF "request" \in a.left THEN a.left = Queries ELSE a.status # "none"
    /\ a.status \in {"COMPLETED", "FAILED"} => ReadOfTheEnd(a)
    /\ a.shaped \subseteq shaped
    /\ \A f \in Documents :
         /\ a.files[f] = "FAILED" => fileStage[f] = "FAILED"
         /\ a.results[f] \in {"DONE", "FAILED"} => results[f] \in {"DONE", "FAILED"}
\* What the screen shows is, or will be, in the answer under way.
WillShow(a, shown) ==
    \A f \in Documents :
        /\ shown.rows[f] # "none" /\ "schemas" \notin a.left => f \in a.shaped
        /\ shown.rows[f] \in {"DONE", "FAILED"} =>
             \/ a.files[f] = "FAILED" \/ ("files" \in a.left /\ fileStage[f] = "FAILED")
             \/ a.results[f] \in {"DONE", "FAILED"}
             \/ ("results" \in a.left /\ results[f] \in {"DONE", "FAILED"})

ConvertingInv ==
    /\ ServerHolds
    /\ visit \in VisitRow /\ asking \in AskRow
    /\ BorneOut(data) /\ BorneOut(kept) /\ BorneOut(visit.known)
    /\ asking.at = "asking" => ReadsTruly(asking) /\ WillShow(asking, Result)

\* What the server does takes back nothing that is final, and nothing once it ended.
GoesForward ==
    /\ ServerHolds' /\ shaped \subseteq shaped'
    /\ \A f \in Documents :
         /\ fileStage[f] = "FAILED" => fileStage'[f] = "FAILED"
         /\ results[f] \in {"DONE", "FAILED"} => results'[f] \in {"DONE", "FAILED"}
         /\ HasEnded(f) => HasEnded(f)'
    /\ status # "CONVERTING" => status' # "CONVERTING" /\ UNCHANGED <<fileStage, results>>

LEMMA ServerGoesForward ==
  ASSUME ServerHolds,
         \/ \E f \in Documents : ShapesLand(f) \/ Converts(f) \/ FileFails(f)
         \/ RequestEnds \/ UNCHANGED serverVars
  PROVE  GoesForward
<1>1. ASSUME NEW f \in Documents, NEW s \in FileStages, NEW m \in Marks,
             fileStage' = [fileStage EXCEPT ![f] = s], results' = [results EXCEPT ![f] = m],
             fileStage[f] \in {"INSPECTING", "CONVERTING"}, results[f] \notin {"DONE", "FAILED"},
             shaped' = shaped \/ (shaped' = shaped \cup {f} /\ m # "none"), status' = status,
             m # "none" <=> f \in shaped',
             s # "INSPECTING",
             s = "CONVERTING" => m = "QUEUED", s = "COMPLETED" => m = "DONE"
      PROVE  GoesForward
  <2>1. /\ fileStage' \in [Documents -> FileStages] /\ results' \in [Documents -> Marks]
        /\ fileStage'[f] = s /\ results'[f] = m
        /\ \A g \in Documents : g # f => fileStage'[g] = fileStage[g] /\ results'[g] = results[g]
    BY <1>1 DEF ServerHolds
  <2>2. status = "CONVERTING"
    BY <1>1 DEF ServerHolds, HasEnded, RequestStages
  <2>3. ServerHolds'
    BY <1>1, <2>1, <2>2 DEF ServerHolds, RequestStages
  <2> QED
    BY <1>1, <2>1, <2>2, <2>3 DEF GoesForward, HasEnded
<1>2. \A f \in Documents : /\ fileStage[f] = "INSPECTING" => results[f] = "none" /\ f \notin shaped
                           /\ fileStage[f] = "CONVERTING" => results[f] = "QUEUED" /\ f \in shaped
                           /\ results[f] \in Marks
  BY DEF ServerHolds
<1>3. ASSUME NEW f \in Documents, ShapesLand(f) PROVE GoesForward
  <2>1. /\ fileStage' = [fileStage EXCEPT ![f] = "CONVERTING"] /\ results' = [results EXCEPT ![f] = "QUEUED"]
        /\ shaped' = shaped \cup {f} /\ status' = status /\ fileStage[f] = "INSPECTING"
    BY <1>3 DEF ShapesLand
  <2> QED
    BY <1>1, <1>2, <2>1 DEF FileStages, Marks
<1>4. ASSUME NEW f \in Documents, Converts(f) PROVE GoesForward
  <2>1. /\ fileStage' = [fileStage EXCEPT ![f] = "COMPLETED"] /\ results' = [results EXCEPT ![f] = "DONE"]
        /\ shaped' = shaped /\ status' = status /\ fileStage[f] = "CONVERTING"
    BY <1>4 DEF Converts
  <2> QED
    BY <1>1, <1>2, <2>1 DEF FileStages, Marks
<1>5. ASSUME NEW f \in Documents, FileFails(f) PROVE GoesForward
  <2>1. PICK r \in {results[f], "FAILED"} :
          /\ fileStage' = [fileStage EXCEPT ![f] = "FAILED"]
          /\ results' = [results EXCEPT ![f] = IF f \in shaped THEN r ELSE results[f]]
          /\ shaped' = shaped /\ status' = status /\ fileStage[f] \in {"INSPECTING", "CONVERTING"}
    BY <1>5 DEF FileFails
  <2> DEFINE m == IF f \in shaped THEN r ELSE results[f]
  <2>2. m \in Marks /\ (m # "none" <=> f \in shaped)
    BY <1>2, <2>1 DEF ServerHolds, Marks
  <2>3. results' = [results EXCEPT ![f] = m] /\ results[f] \notin {"DONE", "FAILED"}
    BY <1>2, <2>1
  <2> HIDE DEF m
  <2> QED
    BY <1>1, <2>1, <2>2, <2>3 DEF FileStages
<1>6. CASE RequestEnds
  BY <1>6 DEF RequestEnds, ServerHolds, GoesForward, HasEnded, RequestStages
<1>7. CASE UNCHANGED serverVars
  BY <1>7 DEF serverVars, ServerHolds, GoesForward, HasEnded
<1> QED
  BY <1>3, <1>4, <1>5, <1>6, <1>7

LEMMA StaysBorneOut ==
  ASSUME GoesForward
  PROVE  /\ BorneOut(data) /\ data' = data => BorneOut(data)'
         /\ BorneOut(kept) /\ kept' = kept => BorneOut(kept)'
         /\ BorneOut(visit.known) /\ visit'.known = visit.known => BorneOut(visit.known)'
         /\ BorneOut(kept) /\ visit'.known = kept => BorneOut(visit.known)'
  BY DEF GoesForward, BorneOut, IsOver, Ended

\* A poll under way goes on reading truly while the server goes forward.
LEMMA GoesOnReading ==
  ASSUME GoesForward, ReadsTruly(asking), WillShow(asking, Result), asking \in AskRow,
         UNCHANGED <<asking, data>>, visit'.known = visit.known
  PROVE  ReadsTruly(asking)' /\ WillShow(asking, Result)'
<1>1. Result' = Result
  BY DEF Result, NoAnswer
<1>2. ReadsTruly(asking)'
  BY DEF GoesForward, ReadsTruly, ReadOfTheEnd, AskRow
<1>3. WillShow(asking, Result)'
  BY <1>1 DEF GoesForward, WillShow
<1> QED
  BY <1>2, <1>3

\* What a poll that has read everything answers is so, and takes back nothing.
LEMMA AnswersTruly ==
  ASSUME ConvertingInv, asking.at = "asking", asking.left = {}
  PROVE  /\ BorneOut(Answer(asking)) /\ Answer(asking).status # "none"
         /\ \A f \in Documents :
              /\ Result.rows[f] # "none" => Answer(asking).rows[f] # "none"
              /\ Result.rows[f] \in {"DONE", "FAILED"} => Answer(asking).rows[f] \in {"DONE", "FAILED"}
<1> DEFINE a == asking
           row(f) == IF f \in a.shaped THEN StageOf(a, f) ELSE "none"
           answer == [status |-> a.status, rows |-> [f \in Documents |-> row(f)]]
<1>1. /\ ServerHolds /\ a \in AskRow /\ ReadsTruly(a) /\ WillShow(a, Result) /\ a.left = {}
      /\ a.status # "none"
  BY DEF ConvertingInv, ReadsTruly
<1>2. \A f \in Documents : a.files[f] \in FileStages /\ a.results[f] \in Marks
  BY <1>1 DEF AskRow
<1>3. \A f \in Documents :
        /\ row(f) \in Marks
        /\ row(f) # "none" <=> f \in a.shaped
        /\ row(f) \in {"DONE", "FAILED"} <=>
             f \in a.shaped /\ (a.files[f] = "FAILED" \/ a.results[f] \in {"DONE", "FAILED"})
  BY <1>2 DEF StageOf, Marks
<1>4. a.status \in {"COMPLETED", "FAILED"} => status # "CONVERTING" /\ a.files = fileStage /\ a.results = results
  BY <1>1 DEF ReadsTruly, ReadOfTheEnd
<1>5. a.status \in {"COMPLETED", "FAILED"} => \A f \in Documents : HasEnded(f) /\ row(f) # "QUEUED"
  BY <1>1, <1>4 DEF ServerHolds, HasEnded, StageOf
<1>6. answer.status = a.status /\ \A f \in Documents : answer.rows[f] = row(f)
  OBVIOUS
<1>7. answer \in AnswerRow
  BY <1>1, <1>3 DEF AnswerRow, AskRow
<1>8. Answer(asking) = answer
  BY DEF Answer
<1>9. \A f \in Documents : Result.rows[f] \in {"DONE", "FAILED"} => f \in a.shaped
  BY <1>1 DEF WillShow
<1> HIDE DEF row, answer
<1>10. BorneOut(answer)
  BY <1>1, <1>3, <1>5, <1>6, <1>7 DEF BorneOut, IsOver, Ended, ReadsTruly
<1>11. \A f \in Documents :
         /\ Result.rows[f] # "none" => row(f) # "none"
         /\ Result.rows[f] \in {"DONE", "FAILED"} => row(f) \in {"DONE", "FAILED"}
  BY <1>1, <1>3, <1>9 DEF WillShow
<1> QED
  BY <1>1, <1>6, <1>8, <1>10, <1>11

LEMMA NothingAnswered == BorneOut(NoAnswer) /\ NotAsking \in AskRow /\ NotAsking.at = "idle" /\ Away \in VisitRow
                         /\ Away.known = NoAnswer
<1>1. NoAnswer \in AnswerRow /\ NoAnswer.status = "none" /\ \A f \in Documents : NoAnswer.rows[f] = "none"
  BY DEF NoAnswer, AnswerRow, Marks
<1>2. NotAsking \in AskRow /\ NotAsking.at = "idle"
  BY DEF NotAsking, AskRow, FileStages, Marks
<1>3. Away \in VisitRow /\ Away.known = NoAnswer
  BY <1>1 DEF Away, VisitRow
<1> QED
  BY <1>1, <1>2, <1>3 DEF BorneOut, Ended

LEMMA ShownIsBorneOut == ConvertingInv => BorneOut(Result)
  BY DEF ConvertingInv, Result

LEMMA ConvertingStart == ConvertingInit => ConvertingInv
<1> SUFFICES ASSUME ConvertingInit PROVE ConvertingInv
  OBVIOUS
<1>1. ServerHolds
  <2>1. \A f \in Documents : fileStage[f] \in {"INSPECTING", "CONVERTING", "FAILED"}
    BY DEF ConvertingInit
  <2>2. \A f \in Documents : results[f] = IF f \in shaped THEN "QUEUED" ELSE "none"
    BY DEF ConvertingInit
  <2>3. \A f \in Documents : f \in shaped <=> fileStage[f] = "CONVERTING"
    BY DEF ConvertingInit
  <2>4. fileStage \in [Documents -> FileStages] /\ results \in [Documents -> Marks]
        /\ shaped \subseteq Documents /\ status = "CONVERTING"
    BY DEF ConvertingInit, FileStages, Marks
  <2> QED
    BY <2>1, <2>2, <2>3, <2>4 DEF ServerHolds, RequestStages
<1> QED
  BY <1>1, NothingAnswered DEF ConvertingInit, ConvertingInv

\* What a query brings is true of the server at that moment.
LEMMA QueryReads ==
  ASSUME ConvertingInv, NEW q \in Queries, Query(q)
  PROVE  ConvertingInv'
<1> DEFINE a == asking
           b == [asking EXCEPT
                  !.left = @ \ {q},
                  !.status = IF q = "request" THEN status ELSE @,
                  !.files = IF q = "files" THEN fileStage ELSE @,
                  !.shaped = IF q = "schemas" THEN shaped ELSE @,
                  !.results = IF q = "results" THEN results ELSE @]
<1>1. /\ ServerHolds /\ a \in AskRow /\ visit \in VisitRow
      /\ BorneOut(data) /\ BorneOut(kept) /\ BorneOut(visit.known)
      /\ (a.at = "asking" => ReadsTruly(a) /\ WillShow(a, Result))
  BY DEF ConvertingInv
<1>2. /\ q \in a.left /\ ("request" \in a.left => q = "request")
      /\ asking' = b /\ UNCHANGED <<serverVars, kept, visit, data>>
  BY DEF Query, ReadsNext
<1>3. /\ b.at = a.at /\ b.left = a.left \ {q}
      /\ b.status = IF q = "request" THEN status ELSE a.status
      /\ b.files = IF q = "files" THEN fileStage ELSE a.files
      /\ b.shaped = IF q = "schemas" THEN shaped ELSE a.shaped
      /\ b.results = IF q = "results" THEN results ELSE a.results
      /\ b \in AskRow
  BY <1>1 DEF AskRow, ServerHolds
<1> HIDE DEF a, b
<1>4. UNCHANGED <<fileStage, shaped, results, status>>
  BY <1>2 DEF serverVars
<1>5. Result' = Result /\ BorneOut(Result)
  BY <1>2, ShownIsBorneOut DEF Result, NoAnswer
<1>6. ASSUME a.at = "asking" PROVE ReadsTruly(b) /\ WillShow(b, Result)
  <2>1. ReadsTruly(a) /\ WillShow(a, Result)
    BY <1>1, <1>6
  <2>2. b.status \in {"COMPLETED", "FAILED"} => ReadOfTheEnd(b)
    <3>1. CASE q = "request"
      <4>1. b.status = status /\ "request" \notin b.left
        BY <1>3, <3>1
      <4>2. {"files", "results"} \subseteq a.left
        BY <1>2, <2>1, <3>1 DEF ReadsTruly, Queries
      <4> QED
        BY <1>3, <3>1, <4>1, <4>2 DEF ReadOfTheEnd
    <3>2. CASE q # "request"
      BY <1>2, <1>3, <2>1, <3>2 DEF ReadsTruly, ReadOfTheEnd
    <3> QED
      BY <3>1, <3>2
  <2>3. ReadsTruly(b)
    BY <1>1, <1>2, <1>3, <2>1, <2>2 DEF ReadsTruly, ServerHolds, RequestStages
  <2>4. WillShow(b, Result)
    <3>1. ASSUME NEW f \in Documents, Result.rows[f] # "none", "schemas" \notin b.left
          PROVE  f \in b.shaped
      BY <1>3, <1>5, <2>1, <3>1 DEF WillShow, BorneOut
    <3>2. ASSUME NEW f \in Documents, Result.rows[f] \in {"DONE", "FAILED"}
          PROVE  \/ b.files[f] = "FAILED" \/ ("files" \in b.left /\ fileStage[f] = "FAILED")
                 \/ b.results[f] \in {"DONE", "FAILED"}
                 \/ ("results" \in b.left /\ results[f] \in {"DONE", "FAILED"})
      <4>1. \/ a.files[f] = "FAILED" \/ ("files" \in a.left /\ fileStage[f] = "FAILED")
            \/ a.results[f] \in {"DONE", "FAILED"}
            \/ ("results" \in a.left /\ results[f] \in {"DONE", "FAILED"})
        BY <2>1, <3>2 DEF WillShow
      <4>2. /\ a.files[f] = "FAILED" => fileStage[f] = "FAILED"
            /\ a.results[f] \in {"DONE", "FAILED"} => results[f] \in {"DONE", "FAILED"}
        BY <2>1 DEF ReadsTruly
      <4> QED
        BY <1>3, <4>1, <4>2
    <3> QED
      BY <3>1, <3>2 DEF WillShow
  <2> QED
    BY <2>3, <2>4
<1>7. asking'.at = "asking" => ReadsTruly(asking)' /\ WillShow(asking, Result)'
  BY <1>2, <1>3, <1>4, <1>5, <1>6 DEF ReadsTruly, WillShow, ReadOfTheEnd
<1>8. ServerHolds' /\ BorneOut(data)' /\ BorneOut(kept)' /\ BorneOut(visit.known)'
  BY <1>1, <1>2, <1>4 DEF ServerHolds, HasEnded, BorneOut, IsOver, Ended
<1> QED
  BY <1>1, <1>2, <1>3, <1>7, <1>8 DEF ConvertingInv

LEMMA ConvertingStep == ConvertingInv /\ [ConvertingNext]_convertingVars => ConvertingInv'
<1> SUFFICES ASSUME ConvertingInv, [ConvertingNext]_convertingVars PROVE ConvertingInv'
  OBVIOUS
<1>1. /\ ServerHolds /\ asking \in AskRow /\ visit \in VisitRow
      /\ BorneOut(data) /\ BorneOut(kept) /\ BorneOut(visit.known)
      /\ (asking.at = "asking" => ReadsTruly(asking) /\ WillShow(asking, Result))
  BY DEF ConvertingInv
<1>2. CASE \/ \E f \in Documents : ShapesLand(f) \/ Converts(f) \/ FileFails(f)
           \/ RequestEnds \/ UNCHANGED convertingVars
  <2>1. UNCHANGED <<kept, visit, data, asking>>
    BY <1>2 DEF ShapesLand, Converts, FileFails, RequestEnds, convertingVars, pollVars
  <2>2. GoesForward
    BY <1>1, <1>2, ServerGoesForward DEF convertingVars
  <2>3. ServerHolds'
    BY <2>2 DEF GoesForward
  <2> QED
    BY <1>1, <2>1, <2>2, <2>3, GoesOnReading, StaysBorneOut DEF ConvertingInv
<1>3. ASSUME NEW q \in Queries, Query(q) PROVE ConvertingInv'
  BY <1>3, QueryReads
<1>4. ASSUME UNCHANGED serverVars PROVE GoesForward /\ ServerHolds' /\ BorneOut(NoAnswer)'
  <2>1. GoesForward
    BY <1>1, <1>4, ServerGoesForward
  <2>2. BorneOut(NoAnswer)'
    BY <1>4, NothingAnswered DEF BorneOut, serverVars, HasEnded, IsOver, NoAnswer, Ended
  <2> QED
    BY <2>1, <2>2 DEF GoesForward
<1>5. CASE ScreenOpened \/ ScreenLeft
  <2>1. /\ UNCHANGED <<serverVars, kept>> /\ data' = NoAnswer /\ asking' = NotAsking
        /\ \/ visit' = Away
           \/ \E noted \in SUBSET Notable :
                visit' = [Away EXCEPT !.open = TRUE, !.known = kept, !.noted = noted, !.awaited = TRUE]
    BY <1>5 DEF ScreenOpened, ScreenLeft
  <2>2. visit' \in VisitRow /\ visit'.known \in {NoAnswer, kept}
    <3>1. kept \in AnswerRow /\ Notable \subseteq Documents
      BY <1>1 DEF BorneOut, Notable
    <3>2. CASE visit' = Away
      BY <3>2, NothingAnswered
    <3>3. ASSUME NEW noted \in SUBSET Notable,
                 visit' = [Away EXCEPT !.open = TRUE, !.known = kept, !.noted = noted, !.awaited = TRUE]
          PROVE  visit' \in VisitRow /\ visit'.known \in {NoAnswer, kept}
      BY <3>1, <3>3, NothingAnswered DEF VisitRow
    <3> QED
      BY <2>1, <3>2, <3>3
  <2>3. GoesForward /\ ServerHolds' /\ BorneOut(NoAnswer)'
    BY <1>4, <2>1
  <2>4. BorneOut(visit.known)'
    <3>1. CASE visit'.known = kept
      BY <1>1, <2>3, <3>1, StaysBorneOut
    <3>2. CASE visit'.known = NoAnswer
      BY <2>3, <3>2 DEF BorneOut, NoAnswer
    <3> QED
      BY <2>2, <3>1, <3>2
  <2>5. BorneOut(kept)' /\ BorneOut(data)'
    BY <1>1, <2>1, <2>3, StaysBorneOut DEF BorneOut, NoAnswer
  <2> QED
    BY <2>1, <2>2, <2>3, <2>4, <2>5, NothingAnswered DEF ConvertingInv, NotAsking
<1>6. CASE ShapesAnswered \/ ShapesFail
  <2>1. /\ UNCHANGED <<serverVars, kept, data, asking>>
        /\ \/ visit' = [visit EXCEPT !.awaited = FALSE, !.failed = Notable]
           \/ visit' = [visit EXCEPT !.awaited = FALSE]
    BY <1>6 DEF ShapesAnswered, ShapesFail, pollVars
  <2>2. visit' \in VisitRow /\ visit'.known = visit.known
    BY <1>1, <2>1 DEF VisitRow, Notable
  <2>3. GoesForward /\ ServerHolds'
    BY <1>4, <2>1
  <2> QED
    BY <1>1, <2>1, <2>2, <2>3, GoesOnReading, StaysBorneOut DEF ConvertingInv
<1>7. CASE PollBegins
  <2> DEFINE a == [NotAsking EXCEPT !.at = "asking", !.left = Queries]
  <2>1. UNCHANGED <<serverVars, kept, visit, data>> /\ asking' = a
    BY <1>7 DEF PollBegins
  <2>2. /\ a \in AskRow /\ a.at = "asking" /\ a.left = Queries /\ a.status = "none" /\ a.shaped = {}
        /\ \A f \in Documents : a.files[f] = "INSPECTING" /\ a.results[f] = "none"
    BY DEF NotAsking, AskRow, FileStages, Marks
  <2> HIDE DEF a
  <2>3. BorneOut(Result) /\ Result' = Result
    BY <2>1, ShownIsBorneOut DEF Result, NoAnswer
  <2>4. ReadsTruly(a) /\ WillShow(a, Result)
    BY <2>2, <2>3 DEF ReadsTruly, WillShow, Queries, BorneOut, IsOver
  <2>5. ReadsTruly(asking)' /\ WillShow(asking, Result)'
    BY <2>1, <2>3, <2>4 DEF ReadsTruly, WillShow, ReadOfTheEnd, serverVars
  <2>6. GoesForward /\ ServerHolds'
    BY <1>4, <2>1
  <2> QED
    BY <1>1, <2>1, <2>2, <2>5, <2>6, StaysBorneOut DEF ConvertingInv
<1>8. CASE PollAnswers
  <2>1. /\ asking.at = "asking" /\ asking.left = {} /\ UNCHANGED <<serverVars, visit>>
        /\ data' = Answer(asking) /\ kept' \in {kept, Answer(asking)} /\ asking' = NotAsking
    BY <1>8 DEF PollAnswers
  <2>2. BorneOut(Answer(asking))
    BY <2>1, AnswersTruly
  <2>3. GoesForward /\ ServerHolds'
    BY <1>4, <2>1
  <2>4. BorneOut(data)' /\ BorneOut(kept)' /\ BorneOut(visit.known)'
    BY <1>1, <2>1, <2>2 DEF BorneOut, IsOver, HasEnded, Ended, serverVars
  <2> QED
    BY <1>1, <2>1, <2>3, <2>4, NothingAnswered DEF ConvertingInv, NotAsking
<1>9. CASE PollFails \/ CheckAgain
  <2>1. UNCHANGED <<serverVars, kept, visit, data>> /\ asking' \in {asking, NotAsking}
    BY <1>9 DEF PollFails, CheckAgain
  <2>2. GoesForward /\ ServerHolds'
    BY <1>4, <2>1
  <2>3. BorneOut(data)' /\ BorneOut(kept)' /\ BorneOut(visit.known)'
    BY <1>1, <2>1, <2>2, StaysBorneOut
  <2>4. CASE asking' = asking
    BY <1>1, <2>1, <2>2, <2>3, <2>4, GoesOnReading DEF ConvertingInv
  <2>5. CASE asking' = NotAsking
    BY <1>1, <2>1, <2>2, <2>3, <2>5, NothingAnswered DEF ConvertingInv, NotAsking
  <2> QED
    BY <2>1, <2>4, <2>5
<1> QED
  BY <1>2, <1>3, <1>5, <1>6, <1>7, <1>8, <1>9 DEF ConvertingNext

\* What the screen says only of a batch that is over is true of the server, and no
\* row is left running: a poll reads the request before the rest (results.ts), for
\* any number of files and tables.
THEOREM SaidWhenOver == ConvertingSpec => []FinishedIsFinished
<1>1. ConvertingInv => FinishedIsFinished
  <2> SUFFICES ASSUME ConvertingInv, Finished
               PROVE  /\ \A f \in Documents : HasEnded(f)
                      /\ \A f \in Documents : RowOf(f) \notin {"detecting", "converting"}
                      /\ ~SaysWaiting /\ CurrentStage # "process"
    BY DEF FinishedIsFinished, ResultsTicked, RailPhase, MergeOffered
  <2>1. BorneOut(Result) /\ Ended(Result)
    BY ShownIsBorneOut DEF Finished
  <2>2. \A f \in Documents : HasEnded(f) /\ Result.rows[f] \in Marks \ {"QUEUED"}
    BY <2>1 DEF BorneOut, AnswerRow
  <2>3. Awaiting = {} /\ Cardinality(Awaiting) = 0
    BY FS_EmptySet DEF Awaiting
  <2>4. Processing = 0
    <3>1. {g \in Documents : Result.rows[g] \in {"QUEUED"}} = {}
      BY <2>2
    <3>2. (UNION {{f} \X (1..TablesIn[f]) : f \in {g \in Documents : Result.rows[g] \in {"QUEUED"}}}) = {}
      BY <3>1
    <3> QED
      BY <3>2, FS_EmptySet DEF Processing, Count
  <2>5. \A f \in Documents : RowOf(f) \notin {"detecting", "converting"}
    BY <2>2, <2>3 DEF RowOf, RowState, Listed, Marks
  <2>6. Result.status # "CONVERTING"
    BY <2>1 DEF Ended
  <2>7. ~SaysWaiting /\ CurrentStage # "process"
    BY <2>3, <2>4, <2>6 DEF SaysWaiting, CurrentStage
  <2> QED
    BY <2>2, <2>5, <2>7
<1> QED
  BY <1>1, ConvertingStart, ConvertingStep, PTL DEF ConvertingSpec

\* While the screen stays open no row goes back, whichever polls fail and whatever
\* was cached (usePoll, Converting), for any number of files.
THEOREM NoRowGoesBack == ConvertingSpec => RowsMoveForward
<1> DEFINE Forward == visit.open /\ visit'.open =>
                        \A f \in Documents : Progress(RowOf(f)') >= Progress(RowOf(f))
<1>1. ConvertingInv /\ [ConvertingNext]_convertingVars => Forward
  <2> SUFFICES ASSUME ConvertingInv, [ConvertingNext]_convertingVars, visit.open, visit'.open, NEW f \in Documents
               PROVE  Progress(RowOf(f)') >= Progress(RowOf(f))
    OBVIOUS
  <2> DEFINE was == Result.rows[f]
             is == Result'.rows[f]
  <2>1. was \in Marks
    BY ShownIsBorneOut DEF BorneOut, AnswerRow
  <2>2. ConvertingInv'
    BY ConvertingStep
  <2>3. is \in Marks
    BY <2>2 DEF ConvertingInv, Result, BorneOut, AnswerRow
  <2>4. /\ was # "none" => is # "none"
        /\ was \in {"DONE", "FAILED"} => is \in {"DONE", "FAILED"}
    <3>1. CASE PollAnswers
      <4>1. Answer(asking) # NoAnswer
        BY <3>1, AnswersTruly DEF PollAnswers, NoAnswer
      <4>2. Result' = Answer(asking)
        BY <3>1, <4>1 DEF PollAnswers, Result, NoAnswer
      <4> QED
        BY <3>1, <4>2, AnswersTruly DEF PollAnswers
    <3>2. CASE ~PollAnswers
      <4>1. data' = data /\ visit'.known = visit.known
        <5>1. visit \in VisitRow /\ ~Away.open
          BY DEF ConvertingInv, Away
        <5> QED
          BY <3>2, <5>1 DEF ConvertingNext, convertingVars, serverVars, pollVars, VisitRow, ShapesLand, Converts,
             FileFails, RequestEnds, ScreenOpened, ScreenLeft, ShapesAnswered, ShapesFail, PollBegins,
             Query, PollFails, CheckAgain
      <4> QED
        BY <4>1 DEF Result, NoAnswer
    <3> QED
      BY <3>1, <3>2
  <2>5. /\ Progress(RowOf(f)) = IF was = "none" THEN 0 ELSE IF was \in {"DONE", "FAILED"} THEN 2 ELSE 1
        /\ Progress(RowOf(f)') = IF is = "none" THEN 0 ELSE IF is \in {"DONE", "FAILED"} THEN 2 ELSE 1
    <3>1. f \in Listed => RowOf(f) = RowState(was)
      BY DEF RowOf, Awaiting
    <3>2. f \notin Listed => RowOf(f) \in {"none", "detecting"}
      BY DEF RowOf
    <3>3. f \in Listed' => RowOf(f)' = RowState(is)
      BY DEF RowOf, Awaiting, RowState
    <3>4. f \notin Listed' => RowOf(f)' \in {"none", "detecting"}
      BY DEF RowOf
    <3>5. (f \in Listed <=> was # "none") /\ (f \in Listed' <=> is # "none")
      BY DEF Listed
    <3> HIDE DEF was, is
    <3>6. \A m \in Marks \ {"none"} : Progress(RowState(m)) = IF m \in {"DONE", "FAILED"} THEN 2 ELSE 1
      BY DEF Progress, RowState, Marks
    <3>7. \A row \in {"none", "detecting"} : Progress(row) = 0
      BY DEF Progress
    <3>8. Progress(RowOf(f)) = IF was = "none" THEN 0 ELSE IF was \in {"DONE", "FAILED"} THEN 2 ELSE 1
      BY <2>1, <3>1, <3>2, <3>5, <3>6, <3>7
    <3>9. Progress(RowOf(f)') = IF is = "none" THEN 0 ELSE IF is \in {"DONE", "FAILED"} THEN 2 ELSE 1
      BY <2>3, <3>3, <3>4, <3>5, <3>6, <3>7
    <3> QED
      BY <3>8, <3>9 DEF was, is
  <2> HIDE DEF was, is
  <2> QED
    BY <2>1, <2>3, <2>4, <2>5
<1> QED
  BY <1>1, ConvertingStart, ConvertingStep, PTL DEF ConvertingSpec, RowsMoveForward

-----------------------------------------------------------------------------
(* Workspace.  The cards: of the list that is shown and of those that are  *)
(* parked, none for the identity that the browser has now.                 *)

Ids == Users \cup {"none"}
Phases == {"none", "prepare", "converting", "done"}
Lists == [Requests -> Phases] \cup {<<>>}
ServerStages == {"empty", "shaped", "converting", "done", "closed"}
IsOpen(r) == owner[r] # "none" /\ stage[r] # "closed"

StorageTyped ==
    /\ key \in Ids /\ list \in Lists /\ parked \in [Users -> Lists]
    /\ owner \in [Requests -> Ids] /\ stage \in [Requests -> ServerStages]
CardsInv ==
    /\ StorageTyped
    /\ \A u \in Users : key \in {u, "none"} => parked[u] = <<>>
    /\ NoCardIsLost

LEMMA CardsAreACard == \A cards \in [Requests -> Phases], r \in Requests : cards # <<>>
OBVIOUS

\* One card is written, as by updateBatch or addBatch.
LEMMA CardWritten ==
  ASSUME CardsInv, NEW r, NEW phase \in Phases, WriteCard(r, phase), UNCHANGED <<key, parked, evicted>>,
         owner' \in [Requests -> Ids], stage' \in [Requests -> ServerStages],
         \A s \in Requests : IsOpen(s)' => IF s = r THEN phase # "none" ELSE IsOpen(s)
  PROVE  CardsInv'
<1>1. list \in Lists
  BY DEF CardsInv, StorageTyped
<1>2. Cards \in [Requests -> Phases] /\ (list # <<>> => Cards = list)
  BY <1>1 DEF Cards, NoCards, Phases, Lists
<1>3. list' = [Cards EXCEPT ![r] = phase]
  BY DEF WriteCard
<1> HIDE DEF Cards
<1>4. list' \in [Requests -> Phases] /\ (r \in Requests => list'[r] = phase)
      /\ \A s \in Requests : s # r => list'[s] = Cards[s]
  BY <1>2, <1>3
<1>5. StorageTyped'
  BY <1>4 DEF CardsInv, StorageTyped, Lists
<1>6. NoCardIsLost'
  <2> SUFFICES ASSUME evicted' = {}, NEW s \in Requests \ Shared, IsOpen(s)'
               PROVE  Holds(list, s)' \/ \E u \in Users : Holds(parked[u], s)'
    BY DEF NoCardIsLost, IsOpen
  <2>1. list' # <<>>
    BY <1>4, CardsAreACard
  <2>2. CASE s = r
    BY <1>4, <2>1, <2>2 DEF Holds
  <2>3. CASE s # r
    <3>1. Holds(list, s) \/ \E u \in Users : Holds(parked[u], s)
      BY <2>3 DEF CardsInv, NoCardIsLost, IsOpen
    <3> QED
      BY <1>2, <1>4, <2>1, <2>3, <3>1 DEF Holds
  <2> QED
    BY <2>2, <2>3
<1> QED
  BY <1>5, <1>6 DEF CardsInv

LEMMA CardsStay ==
  ASSUME CardsInv, UNCHANGED <<key, list, parked, evicted>>,
         owner' \in [Requests -> Ids], stage' \in [Requests -> ServerStages],
         \A s \in Requests : IsOpen(s)' => IsOpen(s)
  PROVE  CardsInv'
<1>1. StorageTyped'
  BY DEF CardsInv, StorageTyped
<1>2. NoCardIsLost'
  BY DEF CardsInv, NoCardIsLost, IsOpen, Holds
<1> QED
  BY <1>1, <1>2 DEF CardsInv

\* Another identity: what is parked and not evicted is still somewhere.
LEMMA IdentitySwitched ==
  ASSUME CardsInv, NEW b \in Tabs, NEW id \in Ids, NEW view, EnsureSession(b, id, view),
         id = key \/ id \in Users, UNCHANGED <<owner, stage>>
  PROVE  CardsInv'
<1>1. /\ key \in Ids /\ list \in Lists /\ parked \in [Users -> Lists]
      /\ \A u \in Users : key \in {u, "none"} => parked[u] = <<>>
      /\ NoCardIsLost
  BY DEF CardsInv, StorageTyped
<1>2. CASE id = key
  BY <1>2, CardsStay DEF EnsureSession, CardsInv, StorageTyped, IsOpen
<1>3. CASE id # key /\ key = "none"
  <2>1. key' = id /\ UNCHANGED <<list, parked, evicted>>
    BY <1>3 DEF EnsureSession, SwitchWorkspace
  <2>2. StorageTyped' /\ \A u \in Users : parked'[u] = <<>>
    BY <1>1, <1>3, <2>1 DEF CardsInv, StorageTyped
  <2>3. NoCardIsLost'
    BY <1>1, <2>1 DEF NoCardIsLost, Holds
  <2> QED
    BY <2>2, <2>3 DEF CardsInv
<1>4. CASE id # key /\ key # "none"
  <2> DEFINE stay == IF list = <<>> THEN parkedOrder
                     ELSE LeftOver(Append(SelectSeq(parkedOrder, LAMBDA u : u # key), key))
             lists == [u \in Users |-> IF list # <<>> /\ u = key THEN list
                                       ELSE IF u \in ToSet(stay) THEN parked[u] ELSE <<>>]
  <2>1. /\ key' = id /\ list' = lists[id] /\ parked' = [lists EXCEPT ![id] = <<>>]
        /\ evicted' = evicted \cup {u \in Users : parked[u] # <<>> /\ u # key /\ lists[u] = <<>>}
    BY <1>4 DEF EnsureSession, SwitchWorkspace
  <2>2. id \in Users /\ key \in Users /\ id # "none"
    BY <1>1, <1>4, WorkspaceAssumption DEF Ids
  <2> HIDE DEF stay
  <2>3. /\ lists \in [Users -> Lists]
        /\ list # <<>> => lists[key] = list
        /\ \A u \in Users : u # key => lists[u] \in {parked[u], <<>>}
    BY <1>1, <2>2 DEF Lists
  <2> HIDE DEF lists
  <2>4. /\ list' \in Lists /\ parked' \in [Users -> Lists] /\ parked'[id] = <<>>
        /\ \A u \in Users : u # id => parked'[u] = lists[u]
    BY <2>1, <2>2, <2>3 DEF Lists
  <2>5. StorageTyped' /\ \A u \in Users : key' \in {u, "none"} => parked'[u] = <<>>
    BY <2>1, <2>2, <2>4 DEF CardsInv, StorageTyped, Ids
  <2>6. NoCardIsLost'
    <3> SUFFICES ASSUME evicted' = {}, NEW r \in Requests \ Shared, IsOpen(r)'
                 PROVE  Holds(list, r)' \/ \E u \in Users : Holds(parked[u], r)'
      BY DEF NoCardIsLost, IsOpen
    <3>1. evicted = {} /\ \A u \in Users : parked[u] # <<>> /\ u # key => lists[u] = parked[u]
      BY <2>1, <2>3
    <3>2. Holds(list, r) \/ \E u \in Users : Holds(parked[u], r)
      BY <1>1, <3>1 DEF NoCardIsLost, IsOpen
    <3>3. CASE Holds(list, r)
      BY <1>4, <2>2, <2>3, <2>4, <3>3 DEF Holds
    <3>4. ASSUME NEW u \in Users, Holds(parked[u], r)
          PROVE  Holds(list, r)' \/ \E v \in Users : Holds(parked[v], r)'
      <4>1. parked[u] # <<>> /\ u # key
        BY <1>1, <2>2, <3>4 DEF Holds
      <4>2. lists[u] = parked[u]
        BY <3>1, <4>1
      <4> QED
        BY <2>1, <2>4, <3>4, <4>2 DEF Holds
    <3> QED
      BY <3>2, <3>3, <3>4
  <2> QED
    BY <2>5, <2>6 DEF CardsInv
<1> QED
  BY <1>2, <1>3, <1>4

\* The calls and the pages of the tabs.
CallPlaces == {"idle", "sent", "denied", "resent", "answer", "refused"}
CallRow == [at : CallPlaces, kind : {"poll", "probe", "convert"}, claim : Ids, live : BOOLEAN,
            said : ServerStages \cup {"none"}, quiet : BOOLEAN]
PageRow == [at : {"closed", "list", "batch"}, user : Ids, req : Requests \cup {"none"},
            running : SUBSET Requests, ran : Ids, asked : SUBSET Requests, askedFor : Ids,
            probe : {"unknown", "started", "not-started"}, stopped : BOOLEAN]
Calls == [Tabs -> [Requests -> CallRow]]

\* A call that nothing disturbed claims what the storage names, and was answered
\* by whoever read that cookie.
Claimed(c) ==
    /\ c.quiet => c.claim = key
    /\ c.at = "refused" => ~c.quiet
    /\ c.at = "resent" /\ c.quiet => cookie = c.claim
\* The page of a batch has a batch, and probes only while it does not know.
OnItsBatch(t, calls) ==
    t.at = "batch" =>
      /\ t.req \in Requests /\ owner[t.req] # "none"
      /\ calls[t.req].at # "idle" /\ calls[t.req].kind = "probe" => t.probe = "unknown"

TabsInv ==
    /\ cookie \in Ids /\ tab \in [Tabs -> PageRow] /\ call \in Calls
    /\ ensure \in [Tabs -> Ids] /\ reauth \in [Tabs -> Ids]
    /\ \A b \in Tabs, r \in Requests : Claimed(call[b][r])
    /\ \A b \in Tabs : OnItsBatch(tab[b], call[b])
WorkspaceInv == CardsInv /\ TabsInv

\* All the calls of one tab are set.
LEMMA CallsSet ==
  ASSUME call \in Calls, NEW b \in Tabs, NEW row \in [Requests -> CallRow], call' = [call EXCEPT ![b] = row]
  PROVE  call' \in Calls /\ \A c \in Tabs : call'[c] = IF c = b THEN row ELSE call[c]
  BY DEF Calls

LEMMA NoCallIsARow ==
  /\ NoCall \in CallRow /\ NoCall.at = "idle" /\ ~NoCall.quiet
  /\ Idle \in [Requests -> CallRow] /\ \A r \in Requests : Idle[r] = NoCall
<1>1. NoCall \in CallRow /\ NoCall.at = "idle" /\ ~NoCall.quiet
  BY DEF NoCall, CallRow, CallPlaces, Ids
<1> QED
  BY <1>1 DEF Idle

LEMMA DisturbedCalls ==
  ASSUME NEW calls \in Calls
  PROVE  /\ Disturbed(calls) \in Calls
         /\ \A b \in Tabs, r \in Requests :
              /\ Disturbed(calls)[b][r].at = calls[b][r].at /\ Disturbed(calls)[b][r].kind = calls[b][r].kind
              /\ ~Disturbed(calls)[b][r].quiet
<1> DEFINE e(b, r) == [calls[b][r] EXCEPT !.quiet = FALSE]
<1>1. \A b \in Tabs, r \in Requests : calls[b][r] \in CallRow
  BY DEF Calls
<1>2. \A b \in Tabs, r \in Requests :
        e(b, r) \in CallRow /\ e(b, r).at = calls[b][r].at /\ e(b, r).kind = calls[b][r].kind /\ ~e(b, r).quiet
  BY <1>1 DEF CallRow
<1>3. Disturbed(calls) = [b \in Tabs |-> [r \in Requests |-> e(b, r)]]
  BY DEF Disturbed
<1> HIDE DEF e
<1> QED
  BY <1>2, <1>3 DEF Calls

LEMMA RetriedCalls ==
  ASSUME call \in Calls, NEW b \in Tabs, NEW at \in CallPlaces \ {"idle"}
  PROVE  /\ Retried(b, at) \in Calls
         /\ \A c \in Tabs, r \in Requests :
              LET now == Retried(b, at)[c][r]
                  was == call[c][r]
              IN  \/ now = was /\ ~(c = b /\ was.at = "denied")
                  \/ /\ c = b /\ was.at = "denied" /\ now.at = at /\ now.kind = was.kind
                     /\ now.claim = was.claim /\ now.quiet = was.quiet
<1> DEFINE e(r) == [call[b][r] EXCEPT !.at = at]
           row == [r \in Requests |-> IF call[b][r].at = "denied" THEN e(r) ELSE call[b][r]]
<1>1. \A r \in Requests : call[b][r] \in CallRow
  BY DEF Calls
<1>2. \A r \in Requests : /\ e(r) \in CallRow /\ e(r).at = at /\ e(r).kind = call[b][r].kind
                          /\ e(r).claim = call[b][r].claim /\ e(r).quiet = call[b][r].quiet
  BY <1>1 DEF CallRow
<1>3. Retried(b, at) = [call EXCEPT ![b] = row]
  BY DEF Retried
<1> HIDE DEF e
<1>4. row \in [Requests -> CallRow] /\ \A r \in Requests : row[r] = IF call[b][r].at = "denied" THEN e(r) ELSE call[b][r]
  BY <1>1, <1>2
<1> HIDE DEF row
<1>5. /\ Retried(b, at) \in Calls /\ Retried(b, at)[b] = row
      /\ \A c \in Tabs : c # b => Retried(b, at)[c] = call[c]
  BY <1>3, <1>4 DEF Calls
<1> QED
  BY <1>1, <1>2, <1>4, <1>5

LEMMA SentCall ==
  ASSUME TabsInv, key \in Ids, NEW b \in Tabs, NEW r, NEW kind \in {"poll", "probe", "convert"}
  PROVE  /\ Send(b, r, kind) \in CallRow /\ Send(b, r, kind).at = "sent" /\ Send(b, r, kind).kind = kind
         /\ Claimed(Send(b, r, kind))
<1> DEFINE quiet == tab[b].user = key
           e == [NoCall EXCEPT !.at = "sent", !.kind = kind, !.claim = tab[b].user, !.live = TRUE, !.quiet = quiet]
<1>1. tab[b].user \in Ids
  BY DEF TabsInv, PageRow
<1>2. Send(b, r, kind) = e
  BY DEF Send
<1>3. quiet \in BOOLEAN /\ (quiet => tab[b].user = key)
  OBVIOUS
<1> HIDE DEF quiet
<1>4. e \in CallRow /\ e.at = "sent" /\ e.kind = kind /\ e.claim = tab[b].user /\ e.quiet = quiet
  BY <1>1, <1>3, NoCallIsARow DEF CallRow, CallPlaces
<1> QED
  BY <1>2, <1>3, <1>4 DEF Claimed

\* A step that leaves the identity and the cookie, and every page of a batch, as
\* they are: its calls are as before, or sound anew.
LEMMA TabsGoOn ==
  ASSUME TabsInv, UNCHANGED <<key, cookie>>, tab' \in [Tabs -> PageRow], call' \in Calls,
         ensure' \in [Tabs -> Ids], reauth' \in [Tabs -> Ids],
         \A r \in Requests : owner[r] # "none" => owner'[r] # "none",
         \A b \in Tabs, r \in Requests : call'[b][r] = call[b][r] \/ Claimed(call'[b][r]),
         \A b \in Tabs : tab'[b].at = "batch" =>
           \/ /\ tab[b].at = "batch" /\ tab'[b].req = tab[b].req /\ tab'[b].probe = tab[b].probe
              /\ LET now == call'[b][tab[b].req]
                     was == call[b][tab[b].req]
                 IN  now.at # "idle" /\ now.kind = "probe" => was.at # "idle" /\ was.kind = "probe"
           \/ /\ tab'[b].req \in Requests /\ owner'[tab'[b].req] # "none"
              /\ LET now == call'[b][tab'[b].req]
                 IN  now.at # "idle" /\ now.kind = "probe" => tab'[b].probe = "unknown"
  PROVE  TabsInv'
<1>1. \A b \in Tabs, r \in Requests : Claimed(call[b][r])'
  BY DEF TabsInv, Claimed
<1>2. ASSUME NEW b \in Tabs PROVE OnItsBatch(tab[b], call[b])'
  BY DEF TabsInv, OnItsBatch
<1> QED
  BY <1>1, <1>2 DEF TabsInv

\* A step after which no call of any tab is undisturbed.
LEMMA AllDisturbed ==
  ASSUME TabsInv, cookie' \in Ids, tab' \in [Tabs -> PageRow], call' \in Calls,
         ensure' \in [Tabs -> Ids], reauth' \in [Tabs -> Ids],
         \A r \in Requests : owner[r] # "none" => owner'[r] # "none",
         \A b \in Tabs, r \in Requests :
           /\ ~call'[b][r].quiet /\ call'[b][r].kind = call[b][r].kind
           /\ call'[b][r].at # "idle" => call[b][r].at # "idle",
         \A b \in Tabs : tab'[b].at = "batch" =>
           tab[b].at = "batch" /\ tab'[b].req = tab[b].req /\ tab'[b].probe = tab[b].probe
  PROVE  TabsInv'
<1>1. \A b \in Tabs, r \in Requests : Claimed(call[b][r])'
  BY DEF Claimed
<1>2. ASSUME NEW b \in Tabs PROVE OnItsBatch(tab[b], call[b])'
  BY DEF TabsInv, OnItsBatch
<1> QED
  BY <1>1, <1>2 DEF TabsInv

LEMMA PageIsARow ==
  ASSUME NEW at \in {"closed", "list", "batch"}, NEW user \in Ids, NEW r \in Requests \cup {"none"}
  PROVE  /\ Page(at, user, r) \in PageRow /\ Page(at, user, r).at = at /\ Page(at, user, r).req = r
         /\ Page(at, user, r).probe = "unknown"
  BY DEF Page, PageRow, Ids

LEMMA PageEntered ==
  ASSUME NEW b \in Tabs, NEW id \in Ids, NEW view \in PageRow, Enters(b, id, view),
         tab \in [Tabs -> PageRow], ensure \in [Tabs -> Ids]
  PROVE  /\ tab' \in [Tabs -> PageRow] /\ ensure' \in [Tabs -> Ids]
         /\ \A c \in Tabs : c # b => tab'[c] = tab[c]
         /\ tab'[b].at = view.at /\ tab'[b].req = view.req /\ tab'[b].probe = view.probe
<1> DEFINE e == IF registered' = id THEN [view EXCEPT !.user = id] ELSE view
           i == IF registered' = id THEN "none" ELSE id
<1>1. e \in PageRow /\ e.at = view.at /\ e.req = view.req /\ e.probe = view.probe
  BY DEF PageRow
<1>2. i \in Ids
  BY DEF Ids
<1>3. tab' = [tab EXCEPT ![b] = e] /\ ensure' = [ensure EXCEPT ![b] = i]
  BY DEF Enters
<1> HIDE DEF e, i
<1> QED
  BY <1>1, <1>2, <1>3

\* An identity is adopted, or a page asks for its session.
LEMMA Adopts ==
  ASSUME WorkspaceInv, NEW b \in Tabs, NEW id \in Ids, NEW view \in PageRow, EnsureSession(b, id, view),
         id = key \/ id \in Users, view.at # "batch", UNCHANGED <<cookie, owner, stage, reauth>>,
         call' = IF id = key THEN call ELSE Disturbed(call)
  PROVE  WorkspaceInv'
<1>1. CardsInv /\ TabsInv
  BY DEF WorkspaceInv
<1>2. CardsInv'
  BY <1>1, IdentitySwitched
<1>3. key' = id /\ Enters(b, id, view)
  BY DEF EnsureSession
<1>4. /\ cookie \in Ids /\ call \in Calls /\ tab \in [Tabs -> PageRow] /\ ensure \in [Tabs -> Ids]
      /\ reauth \in [Tabs -> Ids]
  BY <1>1 DEF TabsInv
<1>5. /\ tab' \in [Tabs -> PageRow] /\ ensure' \in [Tabs -> Ids]
      /\ \A c \in Tabs : c # b => tab'[c] = tab[c]
      /\ tab'[b].at = view.at
  BY <1>3, <1>4, PageEntered
<1>6. \A c \in Tabs : tab'[c].at = "batch" => tab'[c] = tab[c]
  BY <1>5
<1>7. CASE id = key
  <2>1. call' = call /\ UNCHANGED <<key, cookie>>
    BY <1>3, <1>7
  <2> QED
    BY <1>1, <1>2, <1>4, <1>5, <1>6, <2>1, TabsGoOn DEF WorkspaceInv
<1>8. CASE id # key
  <2>1. call' = Disturbed(call)
    BY <1>8
  <2>2. /\ call' \in Calls
        /\ \A c \in Tabs, r \in Requests :
             /\ ~call'[c][r].quiet /\ call'[c][r].kind = call[c][r].kind /\ call'[c][r].at = call[c][r].at
    BY <1>4, <2>1, DisturbedCalls
  <2>3. TabsInv'
    BY <1>1, <1>4, <1>5, <1>6, <2>2, AllDisturbed
  <2> QED
    BY <1>2, <2>3 DEF WorkspaceInv
<1> QED
  BY <1>7, <1>8

\* Who this browser is, and what its cookie says.
LEMMA IdentityStep ==
  ASSUME WorkspaceInv, NEW b \in Tabs,
         \/ \E u \in Users : Load(b, u) \/ SwitchBack(b, u)
         \/ Registered(b) \/ Reauthenticate(b) \/ Reauthenticated(b) \/ LoseCookie
  PROVE  WorkspaceInv'
<1>1. /\ CardsInv /\ TabsInv /\ StorageTyped
      /\ cookie \in Ids /\ call \in Calls /\ tab \in [Tabs -> PageRow] /\ ensure \in [Tabs -> Ids]
      /\ reauth \in [Tabs -> Ids] /\ key \in Ids /\ "none" \in Ids
  BY DEF WorkspaceInv, CardsInv, TabsInv, StorageTyped, Ids
<1>2. UNCHANGED <<key, list, parked, evicted, owner, stage>> => CardsInv'
  BY <1>1, CardsStay DEF StorageTyped, IsOpen
<1>3. ASSUME NEW u \in Users, Load(b, u) \/ SwitchBack(b, u) PROVE WorkspaceInv'
  <2>1. Page("list", "none", "none") \in PageRow /\ Page("list", "none", "none").at # "batch"
    BY <1>1, PageIsARow
  <2>2. tab[b] \in PageRow /\ u \in Ids
    BY <1>1 DEF Ids
  <2>3. CASE Load(b, u)
    BY <2>1, <2>2, <2>3, Adopts DEF Load, server
  <2>4. CASE SwitchBack(b, u)
    <3>1. /\ EnsureSession(b, u, tab[b]) /\ tab[b].at # "batch" /\ u # key
          /\ call' = Disturbed(call) /\ UNCHANGED <<cookie, owner, stage, reauth>>
      BY <2>4 DEF SwitchBack, server
    <3> QED
      BY <2>2, <3>1, Adopts
  <2> QED
    BY <1>3, <2>3, <2>4
<1>4. CASE Registered(b)
  <2>1. /\ ensure' = [ensure EXCEPT ![b] = "none"] /\ UNCHANGED <<key, list, parked, evicted, owner, stage, reauth>>
        /\ \/ /\ cookie' = ensure[b] /\ tab' = [tab EXCEPT ![b].user = ensure[b]]
              /\ call' = IF ensure[b] = key THEN call ELSE Disturbed(call)
           \/ UNCHANGED <<cookie, tab, call>>
    BY <1>4 DEF Registered
  <2>2. ensure' \in [Tabs -> Ids] /\ ensure[b] \in Ids /\ CardsInv'
    BY <1>1, <1>2, <2>1
  <2>3. CASE UNCHANGED <<cookie, tab, call>>
    BY <1>1, <2>1, <2>2, <2>3, TabsGoOn DEF WorkspaceInv
  <2>4. CASE /\ cookie' = ensure[b] /\ tab' = [tab EXCEPT ![b].user = ensure[b]]
             /\ call' = IF ensure[b] = key THEN call ELSE Disturbed(call)
    <3> DEFINE view == [tab[b] EXCEPT !.user = ensure[b]]
    <3>1. view \in PageRow /\ view.at = tab[b].at /\ view.req = tab[b].req /\ view.probe = tab[b].probe
      BY <1>1, <2>2 DEF PageRow
    <3>2. tab' = [tab EXCEPT ![b] = view]
      BY <2>4
    <3> HIDE DEF view
    <3>3. /\ tab' \in [Tabs -> PageRow]
          /\ \A c \in Tabs : tab'[c].at = tab[c].at /\ tab'[c].req = tab[c].req /\ tab'[c].probe = tab[c].probe
      BY <1>1, <3>1, <3>2
    <3>4. CASE ensure[b] = key
      <4>1. call' = call /\ cookie' = key
        BY <2>4, <3>4
      <4>2. \A c \in Tabs, r \in Requests : Claimed(call[c][r])'
        BY <1>1, <2>1, <4>1 DEF TabsInv, Claimed
      <4>3. ASSUME NEW c \in Tabs PROVE OnItsBatch(tab[c], call[c])'
        BY <1>1, <2>1, <3>3, <4>1 DEF TabsInv, OnItsBatch
      <4> QED
        BY <1>1, <2>1, <2>2, <3>3, <4>1, <4>2, <4>3 DEF WorkspaceInv, TabsInv
    <3>5. CASE ensure[b] # key
      <4>1. /\ call' \in Calls
            /\ \A c \in Tabs, r \in Requests :
                 /\ ~call'[c][r].quiet /\ call'[c][r].kind = call[c][r].kind /\ call'[c][r].at = call[c][r].at
        BY <1>1, <2>4, <3>5, DisturbedCalls
      <4>2. TabsInv'
        BY <1>1, <2>1, <2>2, <2>4, <3>3, <4>1, AllDisturbed
      <4> QED
        BY <2>2, <4>2 DEF WorkspaceInv
    <3> QED
      BY <3>4, <3>5
  <2> QED
    BY <2>1, <2>3, <2>4
<1>5. CASE Reauthenticate(b)
  <2>1. /\ reauth' = [reauth EXCEPT ![b] = key]
        /\ UNCHANGED <<key, list, parked, evicted, owner, stage, cookie, tab, ensure, call>>
    BY <1>5 DEF Reauthenticate, storage, server
  <2>2. reauth' \in [Tabs -> Ids]
    BY <1>1, <2>1
  <2> QED
    BY <1>1, <1>2, <2>1, <2>2, TabsGoOn DEF WorkspaceInv
<1>6. CASE Reauthenticated(b)
  <2>1. /\ reauth[b] # "none" /\ reauth' = [reauth EXCEPT ![b] = "none"]
        /\ UNCHANGED <<key, list, parked, evicted, owner, stage, tab, ensure>>
        /\ \/ /\ cookie' = reauth[b]
              /\ call' = IF reauth[b] = key THEN Retried(b, "resent") ELSE Disturbed(Retried(b, "resent"))
           \/ cookie' = cookie /\ call' = Disturbed(Retried(b, "refused"))
    BY <1>6 DEF Reauthenticated, storage
  <2>2. reauth' \in [Tabs -> Ids] /\ reauth[b] \in Ids /\ CardsInv'
    BY <1>1, <1>2, <2>1
  <2>3. cookie' \in Ids
    BY <1>1, <2>1, <2>2
  <2>4. ASSUME NEW at \in {"resent", "refused"}, call' = Disturbed(Retried(b, at)) PROVE TabsInv'
    <3>1. /\ Retried(b, at) \in Calls
          /\ \A c \in Tabs, r \in Requests :
               /\ Retried(b, at)[c][r].kind = call[c][r].kind
               /\ Retried(b, at)[c][r].at # "idle" => call[c][r].at # "idle"
      BY <1>1, RetriedCalls DEF CallPlaces
    <3>2. /\ call' \in Calls
          /\ \A c \in Tabs, r \in Requests :
               /\ ~call'[c][r].quiet /\ call'[c][r].kind = Retried(b, at)[c][r].kind
               /\ call'[c][r].at = Retried(b, at)[c][r].at
      BY <2>4, <3>1, DisturbedCalls
    <3> QED
      BY <1>1, <2>1, <2>2, <2>3, <3>1, <3>2, AllDisturbed
  <2>5. CASE cookie' = reauth[b] /\ reauth[b] = key /\ call' = Retried(b, "resent")
    <3>1. /\ call' \in Calls
          /\ \A c \in Tabs, r \in Requests :
              \/ call'[c][r] = call[c][r]
              \/ /\ call[c][r].at = "denied" /\ call'[c][r].at = "resent" /\ call'[c][r].kind = call[c][r].kind
                 /\ call'[c][r].claim = call[c][r].claim /\ call'[c][r].quiet = call[c][r].quiet
      BY <1>1, <2>5, RetriedCalls DEF CallPlaces
    <3>2. \A c \in Tabs, r \in Requests : Claimed(call[c][r])'
      BY <1>1, <2>1, <2>5, <3>1 DEF TabsInv, Claimed
    <3>3. ASSUME NEW c \in Tabs PROVE OnItsBatch(tab[c], call[c])'
      BY <1>1, <2>1, <3>1 DEF TabsInv, OnItsBatch
    <3> QED
      BY <1>1, <2>1, <2>2, <2>3, <3>1, <3>2, <3>3 DEF TabsInv, WorkspaceInv
  <2> QED
    BY <2>1, <2>2, <2>4, <2>5 DEF WorkspaceInv
<1>7. CASE LoseCookie
  <2>1. /\ cookie' = "none" /\ call' = Disturbed(call)
        /\ UNCHANGED <<key, list, parked, evicted, owner, stage, tab, ensure, reauth>>
    BY <1>7 DEF LoseCookie, storage
  <2>2. /\ call' \in Calls
        /\ \A c \in Tabs, r \in Requests :
             /\ ~call'[c][r].quiet /\ call'[c][r].kind = call[c][r].kind /\ call'[c][r].at = call[c][r].at
    BY <1>1, <2>1, DisturbedCalls
  <2>3. TabsInv'
    BY <1>1, <2>1, <2>2, AllDisturbed
  <2> QED
    BY <1>2, <2>1, <2>3 DEF WorkspaceInv
<1> QED
  BY <1>3, <1>4, <1>5, <1>6, <1>7

\* The server answers, or a call fails on its way.
LEMMA ServedStep ==
  ASSUME WorkspaceInv, NEW b \in Tabs, NEW r \in Requests, Serve(b, r) \/ CallFails(b, r)
  PROVE  WorkspaceInv'
<1>1. /\ CardsInv /\ TabsInv /\ StorageTyped
      /\ cookie \in Ids /\ call \in Calls /\ tab \in [Tabs -> PageRow] /\ ensure \in [Tabs -> Ids]
      /\ reauth \in [Tabs -> Ids] /\ key \in Ids /\ stage \in [Requests -> ServerStages]
      /\ owner \in [Requests -> Ids] /\ Claimed(call[b][r])
  BY DEF WorkspaceInv, CardsInv, TabsInv, StorageTyped
<1> DEFINE mine == call[b][r]
<1>2. mine \in CallRow
  BY <1>1 DEF Calls
<1>3. /\ stage' \in [Requests -> ServerStages] /\ \A s \in Requests : stage'[s] # "closed" => stage[s] # "closed"
      /\ UNCHANGED <<key, list, parked, evicted, cookie, owner, tab, ensure, reauth>>
  <2>1. CASE Serve(b, r)
    BY <1>1, <2>1 DEF Serve, storage, ServerStages
  <2>2. CASE CallFails(b, r)
    BY <1>1, <2>2 DEF CallFails, storage, server
  <2> QED
    BY <2>1, <2>2
<1>4. CardsInv'
  BY <1>1, <1>3, CardsStay DEF IsOpen
<1>5. PICK e \in CallRow : call' = [call EXCEPT ![b][r] = e] /\ Claimed(e) /\ e.kind = mine.kind /\ mine.at # "idle"
  <2>1. CASE CallFails(b, r)
    <3> DEFINE e == [mine EXCEPT !.at = "refused", !.quiet = FALSE]
    <3>1. call' = [call EXCEPT ![b][r] = e] /\ mine.at # "idle"
      BY <1>1, <2>1 DEF CallFails, Calls
    <3>2. e \in CallRow /\ e.at = "refused" /\ ~e.quiet /\ e.kind = mine.kind
      BY <1>2 DEF CallRow, CallPlaces
    <3> HIDE DEF e
    <3>3. Claimed(e)
      BY <3>2 DEF Claimed
    <3> QED
      BY <3>1, <3>2, <3>3
  <2>2. CASE Serve(b, r)
    <3>1. mine.at \in {"sent", "resent"}
      BY <2>2 DEF Serve
    <3>2. CASE cookie # mine.claim
      <4> DEFINE e == [mine EXCEPT !.at = IF mine.at = "sent" THEN "denied" ELSE "refused"]
      <4>1. call' = [call EXCEPT ![b][r] = e]
        BY <2>2, <3>2 DEF Serve
      <4>2. /\ e \in CallRow /\ e.quiet = mine.quiet /\ e.claim = mine.claim /\ e.kind = mine.kind
            /\ e.at = IF mine.at = "sent" THEN "denied" ELSE "refused"
        BY <1>2 DEF CallRow, CallPlaces
      <4> HIDE DEF e
      <4>3. Claimed(e)
        BY <1>1, <3>1, <3>2, <4>2 DEF Claimed
      <4> QED
        BY <3>1, <4>1, <4>2, <4>3
    <3>3. CASE cookie = mine.claim /\ owner[r] # mine.claim
      <4> DEFINE e == [mine EXCEPT !.at = "refused", !.quiet = FALSE]
      <4>1. call' = [call EXCEPT ![b][r] = e]
        BY <2>2, <3>3 DEF Serve
      <4>2. e \in CallRow /\ e.at = "refused" /\ ~e.quiet /\ e.kind = mine.kind
        BY <1>2 DEF CallRow, CallPlaces
      <4> HIDE DEF e
      <4>3. Claimed(e)
        BY <4>2 DEF Claimed
      <4> QED
        BY <3>1, <4>1, <4>2, <4>3
    <3>4. CASE cookie = mine.claim /\ owner[r] = mine.claim
      <4> DEFINE e == [mine EXCEPT !.at = "answer", !.said = stage'[r]]
      <4>1. call' = [call EXCEPT ![b][r] = e]
        BY <2>2, <3>4 DEF Serve
      <4>2. e \in CallRow /\ e.at = "answer" /\ e.quiet = mine.quiet /\ e.claim = mine.claim /\ e.kind = mine.kind
        BY <1>2, <1>3 DEF CallRow, CallPlaces
      <4> HIDE DEF e
      <4>3. Claimed(e)
        BY <1>1, <4>2 DEF Claimed
      <4> QED
        BY <3>1, <4>1, <4>2, <4>3
    <3> QED
      BY <3>2, <3>3, <3>4
  <2> QED
    BY <2>1, <2>2
<1>6. /\ call' \in Calls /\ call'[b][r] = e
      /\ \A d \in Tabs, s \in Requests : d # b \/ s # r => call'[d][s] = call[d][s]
  <2> HIDE DEF mine
  <2> DEFINE row == [call[b] EXCEPT ![r] = e]
  <2>1. call' = [call EXCEPT ![b] = row]
    BY <1>5
  <2>2. call \in Calls /\ call[b] \in [Requests -> CallRow] /\ e \in CallRow
    BY <1>1 DEF Calls
  <2>3. row \in [Requests -> CallRow] /\ \A s \in Requests : row[s] = IF s = r THEN e ELSE call[b][s]
    BY <2>2
  <2> HIDE DEF row
  <2>4. call' \in Calls /\ \A d \in Tabs : call'[d] = IF d = b THEN row ELSE call[d]
    BY <2>1, <2>2, <2>3, CallsSet
  <2> QED
    BY <2>3, <2>4
<1>7. /\ \A d \in Tabs, s \in Requests : call'[d][s] = call[d][s] \/ Claimed(call'[d][s])
      /\ \A d \in Tabs : tab[d].at = "batch" =>
           /\ tab[d].req \in Requests
           /\ LET now == call'[d][tab[d].req]
                  was == call[d][tab[d].req]
              IN  now.at # "idle" /\ now.kind = "probe" => was.at # "idle" /\ was.kind = "probe"
  <2> HIDE DEF mine
  <2>1. \A d \in Tabs, s \in Requests : call'[d][s] = call[d][s] \/ Claimed(call'[d][s])
    BY <1>5, <1>6
  <2>2. \A d \in Tabs, s \in Requests :
          call'[d][s].at # "idle" /\ call'[d][s].kind = "probe" => call[d][s].at # "idle" /\ call[d][s].kind = "probe"
    BY <1>5, <1>6 DEF mine
  <2>3. \A d \in Tabs : tab[d].at = "batch" => tab[d].req \in Requests
    BY <1>1 DEF TabsInv, OnItsBatch
  <2> QED
    BY <2>1, <2>2, <2>3
<1>8. TabsInv'
  BY <1>1, <1>3, <1>6, <1>7, TabsGoOn
<1> QED
  BY <1>4, <1>8 DEF WorkspaceInv

\* Calls are sent: by the list for its running batches, by the page of a batch.
LEMMA AskedStep ==
  ASSUME WorkspaceInv, NEW b \in Tabs, Refresh(b) \/ AskBatch(b)
  PROVE  WorkspaceInv'
<1>1. /\ CardsInv /\ TabsInv /\ StorageTyped
      /\ cookie \in Ids /\ call \in Calls /\ tab \in [Tabs -> PageRow] /\ ensure \in [Tabs -> Ids]
      /\ reauth \in [Tabs -> Ids] /\ key \in Ids
      /\ owner \in [Requests -> Ids] /\ stage \in [Requests -> ServerStages]
  BY DEF WorkspaceInv, CardsInv, TabsInv, StorageTyped
<1>2. UNCHANGED <<key, list, parked, evicted, owner, stage, cookie, ensure, reauth>>
  BY DEF Refresh, AskBatch, storage, server
<1>3. CardsInv'
  BY <1>1, <1>2, CardsStay DEF IsOpen
<1>4. call[b] \in [Requests -> CallRow] /\ tab[b] \in PageRow
      /\ \A r \in Requests : Claimed(call[b][r]) /\ call[b][r] \in CallRow
  BY <1>1 DEF TabsInv, Calls
<1>5. CASE Refresh(b)
  <2>1. PICK new \in SUBSET Requests, view \in PageRow :
          view.at = "list" /\ tab[b].at = "list" /\ tab' = [tab EXCEPT ![b] = view]
          /\ call' = [call EXCEPT ![b] = Ask(b, new)]
    <3> DEFINE t == tab[b]
               asked == IF t.askedFor = t.user THEN t.asked ELSE {}
    <3>1. Running \subseteq Requests /\ asked \subseteq Requests /\ t.at = "list" /\ t.user \in Ids
      BY <1>4, <1>5 DEF Refresh, Running, PageRow
    <3>2. CASE t.user = "none" \/ Running = {}
      <4> DEFINE view == [t EXCEPT !.running = Running, !.ran = t.user]
      <4>1. view \in PageRow /\ view.at = "list"
        BY <1>4, <3>1 DEF PageRow
      <4>2. tab' = [tab EXCEPT ![b] = view] /\ call' = [call EXCEPT ![b] = Ask(b, {})]
        BY <1>1, <1>5, <3>2 DEF Refresh
      <4> HIDE DEF view
      <4> QED
        BY <3>1, <4>1, <4>2
    <3>3. CASE ~(t.user = "none" \/ Running = {})
      <4> DEFINE view == [t EXCEPT !.running = Running, !.ran = t.user,
                                   !.asked = asked \cup Running, !.askedFor = t.user]
      <4>1. view \in PageRow /\ view.at = "list"
        BY <1>4, <3>1 DEF PageRow
      <4>2. tab' = [tab EXCEPT ![b] = view] /\ call' = [call EXCEPT ![b] = Ask(b, Running \ asked)]
        BY <1>1, <1>5, <3>3 DEF Refresh
      <4> HIDE DEF view
      <4> QED
        BY <3>1, <4>1, <4>2
    <3> QED
      BY <3>2, <3>3
  <2> DEFINE row == Ask(b, new)
             e(r) == [call[b][r] EXCEPT !.live = FALSE]
  <2>2. \A r \in Requests : e(r) \in CallRow /\ Claimed(e(r))
    <3>1. \A r \in Requests : e(r) \in CallRow /\ e(r).at = call[b][r].at /\ e(r).quiet = call[b][r].quiet
                              /\ e(r).claim = call[b][r].claim
      BY <1>4 DEF CallRow
    <3> QED
      BY <1>4, <3>1 DEF Claimed
  <2>3. row = [r \in Requests |-> IF r \in new THEN Send(b, r, "poll") ELSE e(r)]
    BY DEF Ask
  <2> HIDE DEF e, row
  <2>4. \A r \in Requests : Send(b, r, "poll") \in CallRow /\ Claimed(Send(b, r, "poll"))
    BY <1>1, SentCall
  <2>5. row \in [Requests -> CallRow] /\ \A r \in Requests : Claimed(row[r])
    BY <2>2, <2>3, <2>4
  <2>6. call' \in Calls /\ \A d \in Tabs : call'[d] = IF d = b THEN row ELSE call[d]
    BY <1>1, <2>1, <2>5, CallsSet DEF row
  <2>7. /\ tab' \in [Tabs -> PageRow] /\ \A d \in Tabs : d # b => tab'[d] = tab[d]
        /\ tab'[b].at = "list"
    BY <1>1, <2>1
  <2>8. TabsInv'
    BY <1>1, <1>2, <2>5, <2>6, <2>7, TabsGoOn
  <2> QED
    BY <1>3, <2>8 DEF WorkspaceInv
<1>6. CASE AskBatch(b)
  <2> DEFINE r == tab[b].req
  <2>1. /\ r \in Requests /\ owner[r] # "none" /\ tab[b].at = "batch" /\ UNCHANGED tab
    BY <1>1, <1>6 DEF AskBatch, TabsInv, OnItsBatch
  <2>2. PICK kind \in {"poll", "probe", "convert"} :
          call' = [call EXCEPT ![b][r] = Send(b, r, kind)] /\ (kind = "probe" => tab[b].probe = "unknown")
    BY <1>6 DEF AskBatch
  <2> DEFINE e == Send(b, r, kind)
             row == [call[b] EXCEPT ![r] = e]
  <2>3. e \in CallRow /\ e.kind = kind /\ Claimed(e)
    BY <1>1, SentCall
  <2> HIDE DEF e
  <2>4. row \in [Requests -> CallRow] /\ \A s \in Requests : row[s] = IF s = r THEN e ELSE call[b][s]
    BY <1>4, <2>3
  <2>5. call' = [call EXCEPT ![b] = row]
    BY <2>2 DEF e
  <2> HIDE DEF row, r
  <2>6. call' \in Calls /\ \A d \in Tabs : call'[d] = IF d = b THEN row ELSE call[d]
    BY <1>1, <2>4, <2>5, CallsSet
  <2>7. \A d \in Tabs, s \in Requests : call'[d][s] = call[d][s] \/ Claimed(call'[d][s])
    BY <2>3, <2>4, <2>6
  <2>8. \A d \in Tabs : tab'[d].at = "batch" =>
           \/ /\ tab[d].at = "batch" /\ tab'[d].req = tab[d].req /\ tab'[d].probe = tab[d].probe
              /\ call'[d] = call[d]
           \/ /\ tab'[d].req \in Requests /\ owner'[tab'[d].req] # "none"
              /\ call'[d][tab'[d].req].kind = "probe" => tab'[d].probe = "unknown"
    <3>1. call'[b][r].kind = "probe" => tab[b].probe = "unknown"
      BY <2>1, <2>2, <2>3, <2>4, <2>6
    <3> QED
      BY <1>2, <2>1, <2>6, <3>1 DEF r
  <2>9. TabsInv'
    BY <1>1, <1>2, <2>1, <2>6, <2>7, <2>8, TabsGoOn
  <2> QED
    BY <1>3, <2>9 DEF WorkspaceInv
<1> QED
  BY <1>5, <1>6

\* An answer arrives: a card may be written, never taken away.
LEMMA AnsweredStep ==
  ASSUME WorkspaceInv, NEW b \in Tabs, NEW r, NEW view \in PageRow,
         tab[b].at = "batch" => r = tab[b].req, tab[b].at # "batch" => r \in Requests,
         call' = [call EXCEPT ![b][r] = NoCall], tab' = [tab EXCEPT ![b] = view],
         view.at = tab[b].at, view.req = tab[b].req,
         view.probe = tab[b].probe \/ (call[b][r].kind = "probe" /\ call[b][r].at # "idle"),
         UNCHANGED list \/ \E phase \in {"converting", "done"} : WriteCard(r, phase),
         UNCHANGED <<key, parked, evicted, cookie, owner, stage, ensure, reauth>>
  PROVE  WorkspaceInv'
<1>1. /\ CardsInv /\ TabsInv /\ StorageTyped
      /\ cookie \in Ids /\ call \in Calls /\ tab \in [Tabs -> PageRow] /\ ensure \in [Tabs -> Ids]
      /\ reauth \in [Tabs -> Ids] /\ key \in Ids
      /\ owner \in [Requests -> Ids] /\ stage \in [Requests -> ServerStages]
  BY DEF WorkspaceInv, CardsInv, TabsInv, StorageTyped
<1>2. CardsInv'
  <2>1. CASE UNCHANGED list
    BY <1>1, <2>1, CardsStay DEF IsOpen
  <2>2. CASE \E phase \in {"converting", "done"} : WriteCard(r, phase)
    <3>1. PICK phase \in {"converting", "done"} : WriteCard(r, phase)
      BY <2>2
    <3>2. phase \in Phases /\ phase # "none"
      BY DEF Phases
    <3>3. \A s \in Requests : IsOpen(s)' => IF s = r THEN phase # "none" ELSE IsOpen(s)
      BY <3>2 DEF IsOpen
    <3> QED
      BY <1>1, <3>1, <3>2, <3>3, CardWritten
  <2> QED
    BY <2>1, <2>2
<1> DEFINE row == [call[b] EXCEPT ![r] = NoCall]
<1>3. call[b] \in [Requests -> CallRow]
  BY <1>1 DEF Calls
<1>4. row \in [Requests -> CallRow] /\ \A s \in Requests : row[s] = IF s = r THEN NoCall ELSE call[b][s]
  BY <1>3, NoCallIsARow
<1>5. call' = [call EXCEPT ![b] = row]
  OBVIOUS
<1> HIDE DEF row
<1>6. call' \in Calls /\ \A d \in Tabs : call'[d] = IF d = b THEN row ELSE call[d]
  BY <1>1, <1>4, <1>5, CallsSet
<1>7. Claimed(NoCall)
  BY NoCallIsARow DEF Claimed
<1>8. \A d \in Tabs, s \in Requests : call'[d][s] = call[d][s] \/ Claimed(call'[d][s])
  BY <1>4, <1>6, <1>7
<1>9. tab' \in [Tabs -> PageRow] /\ \A d \in Tabs : tab'[d] = IF d = b THEN view ELSE tab[d]
  BY <1>1
<1>10. \A d \in Tabs : tab'[d].at = "batch" =>
           \/ /\ tab[d].at = "batch" /\ tab'[d].req = tab[d].req /\ tab'[d].probe = tab[d].probe
              /\ call'[d] = call[d]
           \/ /\ tab'[d].req \in Requests /\ owner'[tab'[d].req] # "none"
              /\ call'[d][tab'[d].req].at = "idle"
  <2>1. tab[b].at = "batch" => tab[b].req \in Requests /\ owner[tab[b].req] # "none"
    BY <1>1 DEF TabsInv, OnItsBatch
  <2> QED
    BY <1>4, <1>6, <1>9, <2>1, NoCallIsARow
<1>11. TabsInv'
  BY <1>1, <1>6, <1>8, <1>9, <1>10, TabsGoOn
<1> QED
  BY <1>2, <1>11 DEF WorkspaceInv

LEMMA AnswersStep ==
  ASSUME WorkspaceInv, NEW b \in Tabs, BatchAnswered(b) \/ \E r \in Requests : Answered(b, r)
  PROVE  WorkspaceInv'
<1>1. tab \in [Tabs -> PageRow] /\ tab[b] \in PageRow
  BY DEF WorkspaceInv, TabsInv
<1>2. \A said : PhaseOf(said) \in {"converting", "done"}
  BY DEF PhaseOf
<1>3. ASSUME NEW r \in Requests, Answered(b, r) PROVE WorkspaceInv'
  <2>1. /\ tab[b].at # "batch" /\ call' = [call EXCEPT ![b][r] = NoCall]
        /\ UNCHANGED list \/ \E phase \in {"converting", "done"} : WriteCard(r, phase)
        /\ UNCHANGED <<key, parked, evicted, cookie, owner, stage, ensure, reauth>>
    BY <1>2, <1>3 DEF Answered, server
  <2>2. CASE call[b][r].at = "answer"
    <3>1. tab' = tab
      BY <1>3, <2>2 DEF Answered
    <3>2. tab' = [tab EXCEPT ![b] = tab[b]]
      BY <1>1, <3>1
    <3> QED
      BY <1>1, <2>1, <3>2, AnsweredStep
  <2>3. CASE call[b][r].at # "answer"
    <3> DEFINE view == [tab[b] EXCEPT !.asked = tab[b].asked \ {r}]
    <3>1. view \in PageRow /\ view.at = tab[b].at /\ view.req = tab[b].req /\ view.probe = tab[b].probe
      BY <1>1 DEF PageRow
    <3>2. tab' = [tab EXCEPT ![b] = view]
      BY <1>1, <1>3, <2>3 DEF Answered
    <3> HIDE DEF view
    <3> QED
      BY <2>1, <3>1, <3>2, AnsweredStep
  <2> QED
    BY <2>2, <2>3
<1>4. CASE BatchAnswered(b)
  <2>1. PICK r : r = tab[b].req
    OBVIOUS
  <2> DEFINE c == call[b][r]
  <2>2. /\ tab[b].at = "batch" /\ call' = [call EXCEPT ![b][r] = NoCall] /\ c.at \in {"answer", "refused"}
        /\ UNCHANGED <<key, parked, evicted, cookie, owner, stage, ensure, reauth>>
    BY <1>4, <2>1 DEF BatchAnswered, server
  <2>3. CASE tab' = tab /\ (UNCHANGED list \/ \E phase \in {"converting", "done"} : WriteCard(r, phase))
    <3>1. tab' = [tab EXCEPT ![b] = tab[b]]
      BY <1>1, <2>3
    <3>2. UNCHANGED list \/ \E phase \in {"converting", "done"} : WriteCard(r, phase)
      BY <2>3
    <3> QED
      BY <1>1, <2>1, <2>2, <3>1, <3>2, AnsweredStep
  <2>4. CASE c.at = "answer" /\ c.kind = "probe"
    <3> DEFINE view == [tab[b] EXCEPT !.probe = ProbeOf(c.said)]
    <3>1. view \in PageRow /\ view.at = tab[b].at /\ view.req = tab[b].req
      BY <1>1 DEF PageRow, ProbeOf
    <3>2. tab' = [tab EXCEPT ![b] = view] /\ (UNCHANGED list \/ WriteCard(r, "converting"))
      BY <1>4, <2>1, <2>4 DEF BatchAnswered
    <3>3. /\ call[b][r].kind = "probe" /\ call[b][r].at # "idle"
          /\ UNCHANGED list \/ \E phase \in {"converting", "done"} : WriteCard(r, phase)
      BY <2>4, <3>2
    <3> HIDE DEF view
    <3> QED
      BY <2>1, <2>2, <3>1, <3>2, <3>3, AnsweredStep
  <2>5. CASE c.at = "answer" /\ c.kind = "poll"
    <3> DEFINE stopped == c.said = "done"
               view == [tab[b] EXCEPT !.stopped = stopped]
    <3>1. stopped \in BOOLEAN
      OBVIOUS
    <3>2. tab' = [tab EXCEPT ![b] = view] /\ \E phase \in {"converting", "done"} : WriteCard(r, phase)
      BY <1>2, <1>4, <2>1, <2>5 DEF BatchAnswered
    <3> HIDE DEF stopped
    <3>3. view \in PageRow /\ view.at = tab[b].at /\ view.req = tab[b].req /\ view.probe = tab[b].probe
      BY <1>1, <3>1 DEF PageRow
    <3> HIDE DEF view
    <3> QED
      BY <2>1, <2>2, <3>2, <3>3, AnsweredStep
  <2>6. \/ tab' = tab /\ (UNCHANGED list \/ \E phase \in {"converting", "done"} : WriteCard(r, phase))
        \/ c.at = "answer" /\ c.kind = "probe"
        \/ c.at = "answer" /\ c.kind = "poll"
    BY <1>4, <2>1 DEF BatchAnswered
  <2> QED
    BY <2>3, <2>4, <2>5, <2>6
<1> QED
  BY <1>3, <1>4

\* A tab goes from the list to a batch, or back.
LEMMA MovesStep ==
  ASSUME WorkspaceInv, NEW b \in Tabs,
         \/ CloseBatch(b) \/ Leave(b)
         \/ \E r \in Requests : DropFiles(b, r) \/ OpenBatch(b, r)
  PROVE  WorkspaceInv'
<1>1. /\ CardsInv /\ TabsInv /\ StorageTyped
      /\ cookie \in Ids /\ call \in Calls /\ tab \in [Tabs -> PageRow] /\ ensure \in [Tabs -> Ids]
      /\ reauth \in [Tabs -> Ids] /\ key \in Ids /\ "none" \in Ids
      /\ owner \in [Requests -> Ids] /\ stage \in [Requests -> ServerStages] /\ tab[b].user \in Ids
  BY DEF WorkspaceInv, CardsInv, TabsInv, StorageTyped, PageRow, Ids
<1>2. call' = [call EXCEPT ![b] = Idle] /\ UNCHANGED <<key, cookie>>
  BY DEF CloseBatch, Leave, DropFiles, OpenBatch, storage, server, EnsureSession
<1>3. /\ call' \in Calls /\ \A d \in Tabs : call'[d] = IF d = b THEN Idle ELSE call[d]
      /\ \A r \in Requests : Idle[r].at = "idle" /\ Claimed(Idle[r])
  BY <1>1, <1>2, NoCallIsARow, CallsSet DEF Claimed
<1>4. \A d \in Tabs, r \in Requests : call'[d][r] = call[d][r] \/ Claimed(call'[d][r])
  BY <1>3
<1>5. ASSUME tab' \in [Tabs -> PageRow], ensure' \in [Tabs -> Ids], reauth' \in [Tabs -> Ids],
             \A r \in Requests : owner[r] # "none" => owner'[r] # "none",
             \A d \in Tabs : d # b => tab'[d] = tab[d],
             tab'[b].at = "batch" => tab'[b].req \in Requests /\ owner'[tab'[b].req] # "none",
             CardsInv'
      PROVE  WorkspaceInv'
  <2>1. \A d \in Tabs : tab'[d].at = "batch" =>
           \/ tab[d].at = "batch" /\ tab'[d] = tab[d] /\ call'[d] = call[d]
           \/ /\ tab'[d].req \in Requests /\ owner'[tab'[d].req] # "none"
              /\ call'[d][tab'[d].req].at = "idle"
    BY <1>3, <1>5
  <2>2. TabsInv'
    BY <1>1, <1>2, <1>3, <1>4, <1>5, <2>1, TabsGoOn
  <2> QED
    BY <1>5, <2>2 DEF WorkspaceInv
<1>6. CASE Leave(b)
  <2>1. Closed \in PageRow /\ Closed.at = "closed"
    BY <1>1, PageIsARow DEF Closed
  <2>2. /\ tab' = [tab EXCEPT ![b] = Closed] /\ reauth' = [reauth EXCEPT ![b] = "none"] /\ ensure' = ensure
        /\ UNCHANGED <<key, list, parked, evicted, owner, stage>>
    BY <1>6 DEF Leave, storage, server
  <2>3. CardsInv'
    BY <1>1, <2>2, CardsStay DEF IsOpen
  <2>4. tab' \in [Tabs -> PageRow] /\ reauth' \in [Tabs -> Ids] /\ tab'[b].at = "closed"
        /\ \A d \in Tabs : d # b => tab'[d] = tab[d]
    BY <1>1, <2>1, <2>2
  <2> QED
    BY <1>1, <1>5, <2>2, <2>3, <2>4
<1>7. CASE CloseBatch(b)
  <2> DEFINE r == tab[b].req
             view == Page("list", "none", "none")
  <2>1. /\ WriteCard(r, "none") /\ stage' = [stage EXCEPT ![r] = "closed"] /\ Enters(b, key, view)
        /\ UNCHANGED <<key, parked, evicted, owner, reauth>>
    BY <1>7 DEF CloseBatch
  <2>2. view \in PageRow /\ view.at = "list"
    BY <1>1, PageIsARow
  <2>3. /\ stage' \in [Requests -> ServerStages]
        /\ \A s \in Requests : IsOpen(s)' => IF s = r THEN "none" # "none" ELSE IsOpen(s)
    BY <1>1, <2>1 DEF IsOpen, ServerStages
  <2>4. CardsInv'
    BY <1>1, <2>1, <2>3, CardWritten DEF Phases
  <2> HIDE DEF view
  <2>5. /\ tab' \in [Tabs -> PageRow] /\ ensure' \in [Tabs -> Ids]
        /\ \A d \in Tabs : d # b => tab'[d] = tab[d]
        /\ tab'[b].at = "list"
    BY <1>1, <2>1, <2>2, PageEntered
  <2> QED
    BY <1>1, <1>5, <2>1, <2>4, <2>5
<1>8. ASSUME NEW r \in Requests, OpenBatch(b, r) PROVE WorkspaceInv'
  <2> DEFINE view == Page("batch", "none", r)
  <2>1. owner[r] # "none" /\ EnsureSession(b, key, view) /\ UNCHANGED <<owner, stage, reauth>>
    BY <1>8 DEF OpenBatch, server
  <2>2. view \in PageRow /\ view.at = "batch" /\ view.req = r
    BY <1>1, PageIsARow
  <2> HIDE DEF view
  <2>3. CardsInv'
    BY <1>1, <2>1, IdentitySwitched
  <2>4. Enters(b, key, view)
    BY <2>1 DEF EnsureSession
  <2>5. /\ tab' \in [Tabs -> PageRow] /\ ensure' \in [Tabs -> Ids]
        /\ \A d \in Tabs : d # b => tab'[d] = tab[d]
        /\ tab'[b].at = "batch" /\ tab'[b].req = r
    BY <1>1, <2>2, <2>4, PageEntered
  <2> QED
    BY <1>1, <1>5, <2>1, <2>3, <2>5
<1>9. ASSUME NEW r \in Requests, DropFiles(b, r) PROVE WorkspaceInv'
  <2> DEFINE view == Page("batch", tab[b].user, r)
  <2>1. /\ tab[b].user # "none" /\ owner[r] = "none" /\ WriteCard(r, "prepare")
        /\ owner' = [owner EXCEPT ![r] = tab[b].user] /\ tab' = [tab EXCEPT ![b] = view]
        /\ UNCHANGED <<key, parked, evicted, stage, ensure, reauth>>
    BY <1>9 DEF DropFiles
  <2>2. view \in PageRow /\ view.at = "batch" /\ view.req = r
    BY <1>1, PageIsARow
  <2> HIDE DEF view
  <2>3. /\ owner' \in [Requests -> Ids] /\ owner'[r] = tab[b].user
        /\ \A s \in Requests : s # r => owner'[s] = owner[s]
    BY <1>1, <2>1
  <2>4. \A s \in Requests : IsOpen(s)' => IF s = r THEN "prepare" # "none" ELSE IsOpen(s)
    BY <2>1, <2>3 DEF IsOpen
  <2>5. CardsInv'
    BY <1>1, <2>1, <2>3, <2>4, CardWritten DEF Phases
  <2>6. tab' \in [Tabs -> PageRow] /\ tab'[b] = view /\ \A d \in Tabs : d # b => tab'[d] = tab[d]
    BY <1>1, <2>1, <2>2
  <2> QED
    BY <1>1, <1>5, <2>1, <2>2, <2>3, <2>5, <2>6
<1> QED
  BY <1>6, <1>7, <1>8, <1>9

LEMMA WorkspaceStart == WorkspaceInit => WorkspaceInv
<1> SUFFICES ASSUME WorkspaceInit PROVE WorkspaceInv
  OBVIOUS
<1>1. "none" \in Ids /\ Closed \in PageRow /\ Closed.at = "closed"
  BY PageIsARow DEF Closed, Ids
<1>2. StorageTyped
  <2>1. \A s \in Shared : OwnerOf[s] \in Users
    BY WorkspaceAssumption
  <2>2. owner \in [Requests -> Ids]
    BY <1>1, <2>1 DEF WorkspaceInit, Ids
  <2>3. stage \in [Requests -> ServerStages] /\ parked \in [Users -> Lists] /\ list \in Lists
    BY DEF WorkspaceInit, ServerStages, Lists
  <2> QED
    BY <1>1, <2>2, <2>3 DEF WorkspaceInit, StorageTyped
<1>3. NoCardIsLost
  BY DEF WorkspaceInit, NoCardIsLost
<1>4. CardsInv
  BY <1>2, <1>3 DEF WorkspaceInit, CardsInv
<1>5. call \in Calls /\ \A b \in Tabs, r \in Requests : call[b][r] = NoCall
  BY NoCallIsARow DEF WorkspaceInit, Calls
<1>6. tab \in [Tabs -> PageRow] /\ \A b \in Tabs : tab[b].at = "closed"
  BY <1>1 DEF WorkspaceInit
<1>7. \A b \in Tabs, r \in Requests : Claimed(call[b][r])
  BY <1>5, NoCallIsARow DEF Claimed
<1>8. \A b \in Tabs : OnItsBatch(tab[b], call[b])
  BY <1>6 DEF OnItsBatch
<1> QED
  BY <1>1, <1>4, <1>5, <1>6, <1>7, <1>8 DEF WorkspaceInit, WorkspaceInv, TabsInv

LEMMA WorkspaceStep == WorkspaceInv /\ [WorkspaceNext]_workspaceVars => WorkspaceInv'
<1> SUFFICES ASSUME WorkspaceInv, [WorkspaceNext]_workspaceVars PROVE WorkspaceInv'
  OBVIOUS
<1>1. ASSUME NEW b \in Tabs,
             \/ \E u \in Users : Load(b, u) \/ SwitchBack(b, u)
             \/ Registered(b) \/ Reauthenticate(b) \/ Reauthenticated(b)
      PROVE  WorkspaceInv'
  BY <1>1, IdentityStep
<1>2. ASSUME NEW b \in Tabs, Refresh(b) \/ AskBatch(b) \/ BatchAnswered(b) \/ CloseBatch(b) \/ Leave(b)
      PROVE  WorkspaceInv'
  BY <1>2, AskedStep, AnswersStep, MovesStep
<1>3. ASSUME NEW b \in Tabs, NEW r \in Requests,
             Serve(b, r) \/ CallFails(b, r) \/ Answered(b, r) \/ DropFiles(b, r) \/ OpenBatch(b, r)
      PROVE  WorkspaceInv'
  BY <1>3, ServedStep, AnswersStep, MovesStep
<1>4. /\ CardsInv /\ TabsInv /\ StorageTyped /\ call \in Calls /\ tab \in [Tabs -> PageRow]
      /\ ensure \in [Tabs -> Ids] /\ reauth \in [Tabs -> Ids]
      /\ owner \in [Requests -> Ids] /\ stage \in [Requests -> ServerStages]
  BY DEF WorkspaceInv, CardsInv, TabsInv, StorageTyped
<1>5. CASE LoseCookie
  <2>1. /\ cookie' = "none" /\ call' = Disturbed(call) /\ "none" \in Ids
        /\ UNCHANGED <<key, list, parked, evicted, owner, stage, tab, ensure, reauth>>
    BY <1>5 DEF LoseCookie, storage, Ids
  <2>2. /\ call' \in Calls
        /\ \A c \in Tabs, r \in Requests :
             /\ ~call'[c][r].quiet /\ call'[c][r].kind = call[c][r].kind /\ call'[c][r].at = call[c][r].at
    BY <1>4, <2>1, DisturbedCalls
  <2>3. TabsInv'
    BY <1>4, <2>1, <2>2, AllDisturbed
  <2>4. CardsInv'
    BY <1>4, <2>1, CardsStay DEF IsOpen
  <2> QED
    BY <2>3, <2>4 DEF WorkspaceInv
<1>6. CASE (\E r \in Requests : ServerMoves(r)) \/ UNCHANGED workspaceVars
  <2>1. /\ UNCHANGED <<key, list, parked, evicted, owner, cookie, tab, ensure, reauth, call>>
        /\ stage' \in [Requests -> ServerStages]
        /\ \A s \in Requests : stage'[s] # "closed" => stage[s] # "closed"
    BY <1>4, <1>6 DEF ServerMoves, workspaceVars, storage, server, browser, ServerStages
  <2>2. CardsInv'
    BY <1>4, <2>1, CardsStay DEF IsOpen
  <2>3. TabsInv'
    BY <1>4, <2>1, TabsGoOn
  <2> QED
    BY <2>2, <2>3 DEF WorkspaceInv
<1> QED
  BY <1>1, <1>2, <1>3, <1>5, <1>6 DEF WorkspaceNext

\* While no list was dropped for want of room, a card of this browser is on the list
\* or on a parked one, whatever links are opened in whatever tab (switchWorkspace,
\* updateBatch), for any number of identities, batches and tabs.
THEOREM CardsAreKept == WorkspaceSpec => []NoCardIsLost
<1>1. WorkspaceInv => NoCardIsLost
  BY DEF WorkspaceInv, CardsInv
<1> QED
  BY <1>1, WorkspaceStart, WorkspaceStep, PTL DEF WorkspaceSpec

\* A lost cookie is recovered from: a call is refused for want of a session only if
\* the identity changed, or another fault struck, on its way (http.ts), for any
\* number of tabs whose calls and registrations overlap.
THEOREM RecoversItsSession == WorkspaceSpec => []DeniedOnlyWhenDisturbed
<1>1. WorkspaceInv => DeniedOnlyWhenDisturbed
  BY DEF WorkspaceInv, TabsInv, Claimed, DeniedOnlyWhenDisturbed
<1> QED
  BY <1>1, WorkspaceStart, WorkspaceStep, PTL DEF WorkspaceSpec

\* No answer, and no other tab, throws a page out of a batch that it knows has
\* converted (useConversionProbe, updateBatch), for any number of tabs.
THEOREM StaysInsideItsBatch == WorkspaceSpec => NeverThrownOut
<1> DEFINE Stays == \A b \in Tabs : /\ tab[b].at = "batch" /\ tab'[b].at = "batch" /\ key' = key
                                    /\ tab'[b].req = tab[b].req /\ Converting(b)
                                    => Converting(b)'
<1>1. WorkspaceInv /\ [WorkspaceNext]_workspaceVars => Stays
  <2> SUFFICES ASSUME WorkspaceInv, [WorkspaceNext]_workspaceVars, NEW b \in Tabs,
                      tab[b].at = "batch", tab'[b].at = "batch", key' = key,
                      tab'[b].req = tab[b].req, Converting(b)
               PROVE  Converting(b)'
    OBVIOUS
  <2> DEFINE r == tab[b].req
  <2>1. /\ tab \in [Tabs -> PageRow] /\ list \in Lists /\ r \in Requests /\ owner[r] # "none"
        /\ call[b][r].at # "idle" /\ call[b][r].kind = "probe" => tab[b].probe = "unknown"
    BY DEF WorkspaceInv, TabsInv, CardsInv, StorageTyped, OnItsBatch
  <2>2. Cards \in [Requests -> Phases]
    BY <2>1 DEF Cards, NoCards, Lists, Phases
  <2>3. ASSUME NEW s, NEW phase, WriteCard(s, phase),
               s = r => phase \in {"converting", "done"} \/ ~Noted(r)
        PROVE  Noted(r) => Noted(r)'
    <3>1. list' = [Cards EXCEPT ![s] = phase]
      BY <2>3 DEF WriteCard
    <3>2. (s = r /\ ~Noted(r)) \/ list'[r] = Cards[r] \/ list'[r] \in {"converting", "done"}
      BY <2>1, <2>2, <2>3, <3>1
    <3>3. Noted(r) => list'[r] \in {"converting", "done"}
      BY <3>2 DEF Noted
    <3>4. list' # <<>>
      BY <2>1, <2>2, <3>1
    <3>5. Cards' = list'
      BY <3>4 DEF Cards
    <3> QED
      BY <3>3, <3>5 DEF Noted
  <2>4. Noted(r) => Noted(r)'
    <3>1. CASE UNCHANGED list
      BY <3>1 DEF Noted, Cards, NoCards
    <3>2. ASSUME NEW c \in Tabs, NEW s \in Requests, DropFiles(c, s) PROVE Noted(r) => Noted(r)'
      <4>1. WriteCard(s, "prepare") /\ s # r
        BY <2>1, <3>2 DEF DropFiles
      <4> QED
        BY <2>3, <4>1
    <3>3. ASSUME NEW c \in Tabs, CloseBatch(c) PROVE Noted(r) => Noted(r)'
      <4>1. WriteCard(tab[c].req, "none") /\ ~Noted(tab[c].req)
        BY <3>3 DEF CloseBatch, Converting
      <4> QED
        BY <2>3, <4>1
    <3>4. ASSUME NEW s, NEW phase \in {"converting", "done"}, WriteCard(s, phase) PROVE Noted(r) => Noted(r)'
      BY <2>3, <3>4
    <3>5. ASSUME NEW c \in Tabs, BatchAnswered(c) \/ \E s \in Requests : Answered(c, s)
          PROVE  UNCHANGED list \/ \E s, phase : phase \in {"converting", "done"} /\ WriteCard(s, phase)
      BY <3>5 DEF BatchAnswered, Answered, PhaseOf
    <3>6. ASSUME NEW c \in Tabs, NEW id, NEW view, EnsureSession(c, id, view) PROVE UNCHANGED list
      BY <3>6 DEF EnsureSession
    <3>7. ASSUME NEW c \in Tabs,
                 \/ \E u \in Users : Load(c, u) \/ SwitchBack(c, u)
                 \/ Registered(c) \/ Reauthenticate(c) \/ Reauthenticated(c)
                 \/ Refresh(c) \/ AskBatch(c) \/ Leave(c)
                 \/ \E s \in Requests : Serve(c, s) \/ CallFails(c, s) \/ OpenBatch(c, s)
          PROVE  UNCHANGED list
      BY <3>6, <3>7 DEF Load, SwitchBack, Registered, Reauthenticate, Reauthenticated, Refresh, AskBatch, Leave,
         Serve, CallFails, OpenBatch, storage
    <3>8. CASE LoseCookie \/ (\E s \in Requests : ServerMoves(s)) \/ UNCHANGED workspaceVars
      BY <3>1, <3>8 DEF LoseCookie, ServerMoves, workspaceVars, storage
    <3> QED
      BY <3>1, <3>2, <3>3, <3>4, <3>5, <3>7, <3>8 DEF WorkspaceNext
  <2>5. tab[b].probe = "started" => tab'[b].probe = "started" \/ Noted(r)'
    <3> SUFFICES ASSUME tab[b].probe = "started" PROVE tab'[b].probe = "started"
      OBVIOUS
    <3>1. CASE tab'[b] = tab[b]
      BY <3>1
    <3>2. ASSUME NEW c \in Tabs, c # b, \E e : tab' = [tab EXCEPT ![c] = e] PROVE tab'[b] = tab[b]
      BY <2>1, <3>2
    <3>3. CASE BatchAnswered(b)
      <4>1. call[b][r].at # "idle" /\ call[b][r].kind # "probe"
        BY <2>1, <3>3 DEF BatchAnswered
      <4>2. UNCHANGED tab \/ tab' = [tab EXCEPT ![b].stopped = call[b][r].said = "done"]
        BY <3>3, <4>1 DEF BatchAnswered
      <4> QED
        BY <2>1, <4>2 DEF PageRow
    <3>4. CASE Registered(b)
      <4>1. UNCHANGED tab \/ tab' = [tab EXCEPT ![b].user = ensure[b]]
        BY <3>4 DEF Registered
      <4> QED
        BY <2>1, <4>1 DEF PageRow
    <3>5. ASSUME NEW u \in Users, Load(b, u) \/ SwitchBack(b, u) PROVE FALSE
      BY <3>5 DEF Load, SwitchBack
    <3>6. ASSUME NEW s \in Requests, Answered(b, s) \/ DropFiles(b, s) \/ OpenBatch(b, s) PROVE FALSE
      BY <3>6 DEF Answered, DropFiles, OpenBatch
    <3>7. ~Refresh(b)
      BY DEF Refresh
    <3>8. CASE Leave(b) \/ CloseBatch(b)
      <4>1. tab' = [tab EXCEPT ![b] = Closed] \/ Enters(b, key, Page("list", "none", "none"))
        BY <3>8 DEF Leave, CloseBatch
      <4>2. tab'[b].at # "batch"
        <5>1. Closed.at = "closed" /\ Page("list", "none", "none") \in PageRow
              /\ Page("list", "none", "none").at = "list"
          BY PageIsARow DEF Closed, Ids
        <5>2. CASE tab' = [tab EXCEPT ![b] = Closed]
          BY <2>1, <5>1, <5>2
        <5>3. CASE Enters(b, key, Page("list", "none", "none"))
          <6>1. key \in Ids /\ ensure \in [Tabs -> Ids]
            BY DEF WorkspaceInv, CardsInv, StorageTyped, TabsInv
          <6> QED
            BY <2>1, <5>1, <5>3, <6>1, PageEntered
        <5> QED
          BY <4>1, <5>2, <5>3
      <4> QED
        BY <4>2
    <3>9. ASSUME NEW c \in Tabs,
                 \/ Reauthenticate(c) \/ Reauthenticated(c) \/ AskBatch(c)
                 \/ \E s \in Requests : Serve(c, s) \/ CallFails(c, s)
          PROVE  tab' = tab
      BY <3>9 DEF Reauthenticate, Reauthenticated, AskBatch, Serve, CallFails
    <3>10. CASE LoseCookie \/ (\E s \in Requests : ServerMoves(s)) \/ UNCHANGED workspaceVars
      BY <3>10 DEF LoseCookie, ServerMoves, workspaceVars, browser
    <3>11. ASSUME NEW c \in Tabs, c # b, NEW id, NEW view, Enters(c, id, view) PROVE tab'[b] = tab[b]
      BY <3>2, <3>11 DEF Enters
    <3>12. ASSUME NEW c \in Tabs, c # b,
                  \/ \E u \in Users : Load(c, u) \/ SwitchBack(c, u)
                  \/ CloseBatch(c) \/ \E s \in Requests : OpenBatch(c, s)
           PROVE  tab'[b] = tab[b]
      BY <3>11, <3>12 DEF Load, SwitchBack, CloseBatch, OpenBatch, EnsureSession
    <3>13. ASSUME NEW c \in Tabs, c # b,
                  \/ Registered(c) \/ Refresh(c) \/ BatchAnswered(c) \/ Leave(c)
                  \/ \E s \in Requests : Answered(c, s) \/ DropFiles(c, s)
           PROVE  tab'[b] = tab[b]
      BY <2>1, <3>13 DEF Registered, Refresh, BatchAnswered, Leave, Answered, DropFiles
    <3> QED
      BY <3>1, <3>3, <3>4, <3>5, <3>6, <3>7, <3>8, <3>9, <3>10, <3>12, <3>13 DEF WorkspaceNext
  <2> QED
    BY <2>4, <2>5 DEF Converting
<1> QED
  BY <1>1, WorkspaceStart, WorkspaceStep, PTL DEF WorkspaceSpec, NeverThrownOut

-----------------------------------------------------------------------------
(* The cache.  The list's lengths, added line by line, and the store's,    *)
(* added entry by entry in no order, come to the same because each line is *)
(* one entry; the eviction looks at the one and the budget is of the other.*)

\* What is held and what is listed, as numbers that are added up.
LEMMA HeldIsSummed ==
  ASSUME NEW store \in [Entries -> Nat]
  PROVE  HeldTotal(store) = SumOf(store, Entries)
<1> DEFINE pick(S) == CHOOSE k \in S : TRUE
           F(g) == [S \in SUBSET Entries |-> IF S = {} THEN 0 ELSE store[pick(S)] + g[S \ {pick(S)}]]
           sum == CHOOSE g : g = F(g)
           G == [S \in SUBSET Entries |-> SumOf(store, S)]
<1>1. HeldTotal(store) = sum[Entries]
  BY DEF HeldTotal
<1>2. IsFiniteSet(Entries)
  BY CacheAssumption
<1>3. /\ SumOf(store, {}) = 0
      /\ \A S \in SUBSET Entries : \A e \in S : SumOf(store, S) = store[e] + SumOf(store, S \ {e})
  BY <1>2, SumOfOthers
<1>4. ASSUME NEW S \in SUBSET Entries, S # {} PROVE pick(S) \in S
  BY <1>4
<1> HIDE DEF pick
<1>5. G = F(G)
  <2>1. ASSUME NEW S \in SUBSET Entries PROVE G[S] = F(G)[S]
    <3>1. CASE S = {}
      BY <1>3, <3>1
    <3>2. CASE S # {}
      <4>1. pick(S) \in S /\ S \ {pick(S)} \in SUBSET Entries
        BY <1>4, <3>2
      <4> QED
        BY <1>3, <3>2, <4>1
    <3> QED
      BY <3>1, <3>2
  <2> QED
    BY <2>1
<1>6. sum = F(sum)
  <2> HIDE DEF F, G
  <2> QED
    BY <1>5
<1> HIDE DEF sum
<1>7. AddsUp(Entries, store, sum)
  <2>1. sum[{}] = 0
    BY <1>6
  <2>2. ASSUME NEW S \in SUBSET Entries, S # {}
        PROVE  \E e \in S : sum[S \ {e}] \in Nat => sum[S] = store[e] + sum[S \ {e}]
    <3>1. sum[S] = store[pick(S)] + sum[S \ {pick(S)}]
      BY <1>6, <2>2
    <3> QED
      BY <1>4, <2>2, <3>1
  <2>3. \A S \in SUBSET Entries : S # {} => \E e \in S : sum[S \ {e}] \in Nat => sum[S] = store[e] + sum[S \ {e}]
    BY <2>2, Zenon
  <2> QED
    BY <2>1, <2>3 DEF AddsUp
<1>8. \A S \in SUBSET Entries : sum[S] = SumOf(store, S)
  <2>1. ASSUME NEW g, AddsUp(Entries, store, g) PROVE \A S \in SUBSET Entries : g[S] = SumOf(store, S)
    BY <1>2, <2>1, AddedUp
  <2> QED
    BY <1>7, <2>1, Zenon
<1> QED
  BY <1>1, <1>8

\* The characters of the list, added from the front, are the sum over its lines.
LEMMA TotalIsSummed ==
  ASSUME NEW lengths \in Seq(Nat)
  PROVE  Total(lengths) = SumOf(lengths, DOMAIN lengths)
<1> DEFINE N == Len(lengths)
           F(g) == [n \in 0..N |-> IF n = 0 THEN 0 ELSE g[n - 1] + lengths[n]]
           sum == CHOOSE g : g = F(g)
           G == [n \in 0..N |-> SumOf(lengths, 1..n)]
<1>1. Total(lengths) = sum[N]
  BY DEF Total
<1>2. N \in Nat /\ DOMAIN lengths = 1..N /\ lengths \in [1..N -> Nat]
  OBVIOUS
<1>3. IsFiniteSet(1..N)
  BY <1>2, FS_Interval
<1>4. /\ SumOf(lengths, {}) = 0
      /\ \A S \in SUBSET (1..N) : \A e \in S : SumOf(lengths, S) = lengths[e] + SumOf(lengths, S \ {e})
  <2>1. PICK E : E = 1..N
    OBVIOUS
  <2>2. PICK w : w = lengths
    OBVIOUS
  <2>3. IsFiniteSet(E) /\ w \in [E -> Nat]
    BY <1>2, <1>3, <2>1, <2>2
  <2>4. /\ SumOf(w, {}) = 0
        /\ \A S \in SUBSET E : \A e \in S : SumOf(w, S) = w[e] + SumOf(w, S \ {e})
    BY <2>3, SumOfOthers
  <2> QED
    BY <2>1, <2>2, <2>4
<1>5. \A S \in SUBSET (1..N) : SumOf(lengths, S) \in Nat
  BY <1>2, <1>3, PilesAreFinite
<1> HIDE DEF N
<1>6. G = F(G)
  <2>1. ASSUME NEW n \in 0..N PROVE G[n] = F(G)[n]
    <3>1. CASE n = 0
      <4>1. 1..0 = {}
        OBVIOUS
      <4> QED
        BY <1>2, <1>4, <3>1, <4>1
    <3>2. CASE n # 0
      <4>1. n \in 1..n /\ 1..n \in SUBSET (1..N) /\ (1..n) \ {n} = 1..(n - 1) /\ n - 1 \in 0..N
            /\ 1..(n - 1) \in SUBSET (1..N)
        <5>1. n \in Nat /\ n <= N /\ n >= 1
          BY <1>2, <3>2
        <5>2. n \in 1..n /\ n - 1 \in 0..N
          BY <1>2, <5>1
        <5>3. (1..n) \ {n} = 1..(n - 1)
          BY <5>1
        <5>4. 1..n \in SUBSET (1..N) /\ 1..(n - 1) \in SUBSET (1..N)
          BY <1>2, <5>1
        <5> QED
          BY <5>2, <5>3, <5>4
      <4>2. SumOf(lengths, 1..n) = lengths[n] + SumOf(lengths, 1..(n - 1))
        BY <1>4, <4>1
      <4>3. lengths[n] \in Nat /\ SumOf(lengths, 1..(n - 1)) \in Nat
        BY <1>2, <1>5, <4>1
      <4> QED
        BY <3>2, <4>1, <4>2, <4>3
    <3> QED
      BY <3>1, <3>2
  <2> QED
    BY <2>1
<1>7. sum = F(sum)
  <2> HIDE DEF F, G
  <2> QED
    BY <1>6
<1> HIDE DEF sum
<1> DEFINE K == {n \in Nat : n <= N => sum[n] = G[n]}
<1>8. 0 \in K
  <2>1. sum[0] = 0 /\ G[0] = 0
    <3>1. 0 \in 0..N
      BY <1>2
    <3> HIDE DEF G
    <3> QED
      BY <1>6, <1>7, <3>1
  <2> QED
    BY <2>1
<1>9. ASSUME NEW n \in K PROVE n + 1 \in K
  <2> SUFFICES ASSUME n + 1 <= N PROVE sum[n + 1] = G[n + 1]
    OBVIOUS
  <2>1. n + 1 \in 0..N /\ n + 1 # 0 /\ n + 1 - 1 = n /\ n <= N
    BY <1>2
  <2>2. sum[n + 1] = sum[n] + lengths[n + 1]
    BY <1>7, <2>1
  <2>3. G[n + 1] = G[n] + lengths[n + 1]
    <3> HIDE DEF G
    <3> QED
      BY <1>6, <2>1
  <2>4. sum[n] = G[n]
    BY <2>1
  <2> QED
    BY <2>2, <2>3, <2>4
<1>10. K = Nat
  <2> HIDE DEF K
  <2>1. K \in SUBSET Nat
    BY DEF K
  <2> QED
    BY <1>8, <1>9, <2>1, FromZero
<1>11. sum[N] = G[N]
  <2>1. N \in K
    <3> HIDE DEF K
    <3> QED
      BY <1>2, <1>10
  <2>2. N <= N
    BY <1>2
  <2> QED
    BY <2>1, <2>2
<1> QED
  BY <1>1, <1>2, <1>11


\* The numbers of w that are not zero are those of v, each under one name.
Renamed(E, w, n, v, name) ==
    /\ n \in Nat /\ w \in [E -> Nat] /\ v \in [1..n -> Nat] /\ name \in [1..n -> E]
    /\ \A i, j \in 1..n : name[i] = name[j] => i = j
    /\ \A i \in 1..n : w[name[i]] = v[i]
    /\ \A e \in E : w[e] > 0 => \E i \in 1..n : name[i] = e

\* The same numbers under other names come to the same.
LEMMA SumRenamed ==
  ASSUME NEW E, IsFiniteSet(E), NEW n, NEW w, NEW v, NEW name, Renamed(E, w, n, v, name)
  PROVE  SumOf(w, E) = SumOf(v, 1..n)
<1> USE DEF Renamed
<1> DEFINE A == Piles(v, 1..n)
           B == Piles(w, E)
           f == [p \in A |-> <<name[p[1]], p[2]>>]
<1>1. \A p \in A : p[1] \in 1..n /\ p[2] \in 1..v[p[1]] /\ p = <<p[1], p[2]>> /\ p[2] \in Nat
  BY DEF Piles
<1>2. \A p \in B : p[1] \in E /\ p[2] \in 1..w[p[1]] /\ p = <<p[1], p[2]>> /\ p[2] \in Nat
  BY DEF Piles
<1>3. \A i \in 1..n, k \in Nat : k \in 1..v[i] => <<i, k>> \in A
  BY DEF Piles
<1>4. \A e \in E, k \in Nat : k \in 1..w[e] => <<e, k>> \in B
  BY DEF Piles
<1> HIDE DEF A, B
<1>5. ASSUME NEW p \in A PROVE f[p] \in B
  <2>1. name[p[1]] \in E /\ p[2] \in 1..w[name[p[1]]] /\ p[2] \in Nat
    BY <1>1
  <2> QED
    BY <1>4, <2>1
<1>6. ASSUME NEW p \in A, NEW q \in A, f[p] = f[q] PROVE p = q
  <2>1. name[p[1]] = name[q[1]] /\ p[2] = q[2]
    BY <1>6
  <2>2. p[1] = q[1]
    BY <1>1, <2>1
  <2> QED
    BY <1>1, <2>1, <2>2
<1>7. ASSUME NEW r \in B PROVE \E p \in A : f[p] = r
  <2>1. PICK e \in E, k \in Nat : r = <<e, k>> /\ k \in 1..w[e]
    BY <1>2
  <2>2. w[e] > 0
    BY <2>1
  <2>3. PICK i \in 1..n : name[i] = e
    BY <2>2
  <2>4. <<i, k>> \in A
    BY <1>3, <2>1, <2>3
  <2>5. f[<<i, k>>] = <<name[i], k>>
    BY <2>4
  <2> QED
    BY <2>1, <2>3, <2>4, <2>5
<1> HIDE DEF f
<1>8. f \in Bijection(A, B)
  <2>1. f \in [A -> B]
    BY <1>5 DEF f
  <2>2. f \in Injection(A, B)
    BY <1>6, <2>1 DEF Injection, IsInjective
  <2>3. f \in Surjection(A, B)
    BY <1>7, <2>1 DEF Surjection
  <2> QED
    BY <2>2, <2>3 DEF Bijection
<1>9. IsFiniteSet(A)
  <2>1. IsFiniteSet(1..n)
    BY FS_Interval
  <2>2. PICK D : D = 1..n
    OBVIOUS
  <2>3. IsFiniteSet(D) /\ v \in [D -> Nat]
    BY <2>1, <2>2
  <2>4. IsFiniteSet(Piles(v, D))
    BY <2>3, PilesAreFinite
  <2> QED
    BY <2>2, <2>4 DEF A
<1>10. Cardinality(B) = Cardinality(A)
  <2>1. ExistsBijection(A, B)
    BY <1>8 DEF ExistsBijection
  <2> QED
    BY <1>9, <2>1, FS_Bijection
<1> QED
  BY <1>10 DEF SumOf, A, B

\* Smaller numbers come to no more.
LEMMA SumOfSmaller ==
  ASSUME NEW E, IsFiniteSet(E), NEW w \in [E -> Nat], NEW v \in [E -> Nat], \A e \in E : v[e] <= w[e]
  PROVE  SumOf(v, E) <= SumOf(w, E) /\ SumOf(v, E) \in Nat /\ SumOf(w, E) \in Nat
<1>1. Piles(v, E) \in SUBSET Piles(w, E)
  BY DEF Piles
<1>2. IsFiniteSet(Piles(w, E))
  BY PilesAreFinite
<1>3. SumOf(v, E) \in Nat /\ SumOf(w, E) \in Nat
  BY PilesAreFinite
<1> QED
  BY <1>1, <1>2, <1>3, FS_Subset DEF SumOf

\* Nothing comes to nothing.
LEMMA SumOfNone ==
  ASSUME NEW E, NEW w \in [E -> Nat], \A e \in E : w[e] = 0
  PROVE  SumOf(w, E) = 0
<1>1. Piles(w, E) = {}
  BY DEF Piles
<1> QED
  BY <1>1, FS_EmptySet DEF SumOf


-----------------------------------------------------------------------------
Line == [key : Entries, chars : Nat \ {0}]

\* A list of what a store holds: each key of it once, with its length.
ListOf(store, lines) ==
    /\ store \in [Entries -> Nat] /\ lines \in Seq(Line)
    /\ \A i, j \in DOMAIN lines : lines[i].key = lines[j].key => i = j
    /\ \A k \in Entries : store[k] > 0 => \E i \in DOMAIN lines : lines[i].key = k
    /\ \A i \in DOMAIN lines : store[lines[i].key] = lines[i].chars

\* The lengths of a list come to what the store holds.
LEMMA ListedTotal ==
  ASSUME NEW store, NEW lines, ListOf(store, lines)
  PROVE  HeldTotal(store) = Total(CharsOf(lines)) /\ HeldTotal(store) \in Nat
<1>1. /\ store \in [Entries -> Nat] /\ lines \in Seq(Line) /\ Len(lines) \in Nat /\ DOMAIN lines = 1..Len(lines)
      /\ \A i \in 1..Len(lines) : lines[i] \in Line
  <2>1. store \in [Entries -> Nat] /\ lines \in Seq(Line)
    BY DEF ListOf
  <2> QED
    BY <2>1
<1>2. IsFiniteSet(Entries)
  BY CacheAssumption
<1>3. PICK n : n = Len(lines)
  OBVIOUS
<1>4. PICK v : v = CharsOf(lines)
  OBVIOUS
<1> DEFINE name == [i \in 1..n |-> lines[i].key]
<1>5. v = [i \in 1..n |-> lines[i].chars]
  BY <1>1, <1>3, <1>4 DEF CharsOf
<1>6. \A i \in 1..n : lines[i].key \in Entries /\ lines[i].chars \in Nat
  BY <1>1, <1>3 DEF Line
<1>7. name \in [1..n -> Entries] /\ v \in [1..n -> Nat]
  BY <1>5, <1>6
<1>8. /\ \A i, j \in 1..n : name[i] = name[j] => i = j
      /\ \A i \in 1..n : store[name[i]] = v[i]
      /\ \A e \in Entries : store[e] > 0 => \E i \in 1..n : name[i] = e
  <2>1. /\ \A i, j \in 1..n : lines[i].key = lines[j].key => i = j
        /\ \A e \in Entries : store[e] > 0 => \E i \in 1..n : lines[i].key = e
        /\ \A i \in 1..n : store[lines[i].key] = lines[i].chars
    BY <1>1, <1>3 DEF ListOf
  <2>2. \A i \in 1..n : name[i] = lines[i].key /\ v[i] = lines[i].chars
    BY <1>5
  <2> HIDE DEF name
  <2> QED
    BY <2>1, <2>2
<1> HIDE DEF name
<1>9. n \in Nat
  BY <1>1, <1>3
<1>10. SumOf(store, Entries) = SumOf(v, 1..n)
  <2>1. PICK m : m = name
    OBVIOUS
  <2>2. m \in [1..n -> Entries]
    BY <1>7, <2>1
  <2>3. \A i, j \in 1..n : m[i] = m[j] => i = j
    BY <1>8, <2>1
  <2>4. \A i \in 1..n : store[m[i]] = v[i]
    BY <1>8, <2>1
  <2>5. \A e \in Entries : store[e] > 0 => \E i \in 1..n : m[i] = e
    BY <1>8, <2>1
  <2>6. Renamed(Entries, store, n, v, m)
    BY <1>1, <1>7, <1>9, <2>2, <2>3, <2>4, <2>5, Zenon DEF Renamed
  <2> QED
    BY <1>2, <2>6, SumRenamed
<1>11. v \in Seq(Nat) /\ DOMAIN v = 1..n
  BY <1>7, <1>9
<1>12. Total(v) = SumOf(v, 1..n)
  BY <1>11, TotalIsSummed
<1>13. HeldTotal(store) = SumOf(store, Entries)
  BY <1>1, HeldIsSummed
<1>14. SumOf(store, Entries) \in Nat
  BY <1>1, <1>2, PilesAreFinite
<1> QED
  BY <1>4, <1>10, <1>12, <1>13, <1>14

\* A list without some of its lines lists what is held without them.
LEMMA Filtered ==
  ASSUME NEW store, NEW lines, ListOf(store, lines), NEW P \in SUBSET DOMAIN lines,
         NEW less \in [Entries -> Nat],
         \A e \in Entries : less[e] = IF \E i \in P : lines[i].key = e THEN store[e] ELSE 0
  PROVE  ListOf(less, AtPlaces(lines, P)) /\ Len(AtPlaces(lines, P)) = Cardinality(P)
<1>1. PICK r : r = AtPlaces(lines, P)
  OBVIOUS
<1>2. PICK o : o = InOrder(P)
  OBVIOUS
<1>3. PICK N : N = Cardinality(P)
  OBVIOUS
<1>4. lines \in Seq(Line)
  BY DEF ListOf
<1>5. /\ r \in Seq(Line) /\ Len(r) = N /\ N \in Nat
      /\ o \in [1..N -> P]
      /\ \A n \in 1..N : r[n] = lines[o[n]]
      /\ \A i \in P : \E n \in 1..N : o[n] = i
      /\ \A n, m \in 1..N : n < m => o[n] < o[m]
  <2>1. /\ AtPlaces(lines, P) \in Seq(Line) /\ Len(AtPlaces(lines, P)) = Cardinality(P)
        /\ Cardinality(P) \in Nat
    BY <1>4, AtPlacesHolds
  <2>2. InOrder(P) \in [1..Cardinality(P) -> P]
    BY <1>4, AtPlacesHolds
  <2>3. \A n \in 1..Cardinality(P) : AtPlaces(lines, P)[n] = lines[InOrder(P)[n]]
    BY <1>4, AtPlacesHolds
  <2>4. \A i \in P : \E n \in 1..Cardinality(P) : InOrder(P)[n] = i
    BY <1>4, AtPlacesHolds
  <2>5. \A n, m \in 1..Cardinality(P) : n < m => InOrder(P)[n] < InOrder(P)[m]
    BY <1>4, AtPlacesHolds
  <2> QED
    BY <1>1, <1>2, <1>3, <2>1, <2>2, <2>3, <2>4, <2>5
<1>6. DOMAIN r = 1..N
  BY <1>5
<1>7. \A i \in P : i \in DOMAIN lines /\ i \in Nat /\ lines[i].key \in Entries
  <2>1. \A i \in DOMAIN lines : i \in Nat /\ lines[i] \in Line
    BY <1>4
  <2>2. \A e \in Line : e.key \in Entries
    BY DEF Line
  <2> QED
    BY <2>1, <2>2
<1>8. ASSUME NEW n \in 1..N, NEW m \in 1..N, r[n].key = r[m].key PROVE n = m
  <2>1. lines[o[n]].key = lines[o[m]].key /\ o[n] \in P /\ o[m] \in P
    BY <1>5, <1>8
  <2>2. o[n] = o[m] /\ o[n] \in Nat
    BY <1>7, <2>1 DEF ListOf
  <2>3. ~(n < m) /\ ~(m < n)
    BY <1>5, <2>2
  <2> QED
    BY <1>5, <2>3
<1>9. ASSUME NEW k \in Entries, less[k] > 0 PROVE \E n \in 1..N : r[n].key = k
  <2>1. PICK i \in P : lines[i].key = k
    BY <1>9
  <2>2. PICK n \in 1..N : o[n] = i
    BY <1>5
  <2> QED
    BY <1>5, <2>1, <2>2
<1>10. ASSUME NEW n \in 1..N PROVE less[r[n].key] = r[n].chars
  <2>1. PICK i \in P : i = o[n] /\ r[n] = lines[i]
    BY <1>5
  <2>2. less[lines[i].key] = store[lines[i].key]
    BY <1>7
  <2>3. store[lines[i].key] = lines[i].chars
    BY <1>7 DEF ListOf
  <2> QED
    BY <2>1, <2>2, <2>3
<1>11. ListOf(less, r)
  BY <1>5, <1>6, <1>8, <1>9, <1>10 DEF ListOf
<1> QED
  BY <1>1, <1>3, <1>5, <1>11

\* The entry that is written is listed, once and last.
LEMMA KeptIsListed ==
  ASSUME ListOf(held, order), NEW k \in Entries, NEW n \in Nat \ {0},
         NEW written, written = Kept(k, n), NEW store, store = [held EXCEPT ![k] = n]
  PROVE  ListOf(store, written) /\ Len(written) \in Nat \ {0}
<1> DEFINE P == {i \in DOMAIN order : order[i].key # k}
           less == [held EXCEPT ![k] = 0]
<1>1. held \in [Entries -> Nat] /\ order \in Seq(Line)
  BY DEF ListOf
<1>2. \A e \in Entries : less[e] = IF \E i \in P : order[i].key = e THEN held[e] ELSE 0
  <2> SUFFICES ASSUME NEW e \in Entries
               PROVE  less[e] = IF \E i \in P : order[i].key = e THEN held[e] ELSE 0
    OBVIOUS
  <2>1. CASE e = k
    BY <1>1, <2>1
  <2>2. CASE e # k
    <3>1. less[e] = held[e] /\ held[e] \in Nat
      BY <1>1, <2>2
    <3>2. held[e] > 0 => \E i \in P : order[i].key = e
      BY <2>2 DEF ListOf
    <3> QED
      BY <3>1, <3>2
  <2> QED
    BY <2>1, <2>2
<1>3. P \in SUBSET DOMAIN order /\ less \in [Entries -> Nat]
  BY <1>1
<1>4. PICK r : r = AtPlaces(order, P)
  OBVIOUS
<1>5. written = Append(r, [key |-> k, chars |-> n])
  BY <1>4 DEF Kept, WithoutKey
<1> HIDE DEF P, less
<1>6. ListOf(less, r)
  BY <1>2, <1>3, <1>4, Filtered
<1>7. PICK e : e = [key |-> k, chars |-> n]
  OBVIOUS
<1>8. e \in Line /\ e.key = k /\ e.chars = n
  BY <1>7 DEF Line
<1>9. r \in Seq(Line)
  BY <1>6 DEF ListOf
<1>10. /\ written \in Seq(Line) /\ Len(written) = Len(r) + 1 /\ Len(r) \in Nat
       /\ \A i \in 1..Len(r) : written[i] = r[i]
       /\ written[Len(r) + 1] = e
  BY <1>5, <1>7, <1>8, <1>9, AppendProperties
<1>11. PICK L : L = Len(r)
  OBVIOUS
<1>12. DOMAIN r = 1..L /\ DOMAIN written = 1..(L + 1) /\ L \in Nat
  BY <1>9, <1>10, <1>11
<1>13. \A i \in 1..(L + 1) : (i \in 1..L /\ written[i] = r[i]) \/ (i = L + 1 /\ written[i] = e)
  BY <1>10, <1>11, <1>12
<1>14. \A i \in 1..L : r[i].key # k
  <2> SUFFICES ASSUME NEW i \in 1..L, r[i].key = k PROVE FALSE
    OBVIOUS
  <2>1. less[k] = 0
    BY <1>1 DEF less
  <2>2. less[r[i].key] = r[i].chars
    BY <1>6, <1>12 DEF ListOf
  <2>4. r[i] \in Line
    BY <1>9, <1>12
  <2>3. r[i].chars # 0
    BY <2>4 DEF Line
  <2> QED
    BY <2>1, <2>2, <2>3
<1>15. store \in [Entries -> Nat] /\ store[k] = n /\ \A d \in Entries : d # k => store[d] = less[d]
  BY <1>1 DEF less
<1>16. ASSUME NEW i \in 1..(L + 1), NEW j \in 1..(L + 1), written[i].key = written[j].key PROVE i = j
  <2>1. \A a, b \in 1..L : r[a].key = r[b].key => a = b
    BY <1>6, <1>12 DEF ListOf
  <2> QED
    BY <1>8, <1>13, <1>14, <1>16, <2>1
<1>17. ASSUME NEW d \in Entries, store[d] > 0 PROVE \E i \in 1..(L + 1) : written[i].key = d
  <2>1. CASE d = k
    BY <1>8, <1>10, <1>11, <1>12, <2>1
  <2>2. CASE d # k
    <3>1. PICK i \in 1..L : r[i].key = d
      BY <1>6, <1>12, <1>15, <1>17, <2>2 DEF ListOf
    <3>2. i \in 1..(L + 1) /\ written[i] = r[i]
      BY <1>10, <1>11, <1>12
    <3> QED
      BY <3>1, <3>2
  <2> QED
    BY <2>1, <2>2
<1>18. ASSUME NEW i \in 1..(L + 1) PROVE store[written[i].key] = written[i].chars
  <2>1. CASE i \in 1..L /\ written[i] = r[i]
    <3>1. less[r[i].key] = r[i].chars /\ r[i].key # k
      BY <1>6, <1>12, <1>14, <2>1 DEF ListOf
    <3>2. r[i] \in Line
      BY <1>9, <1>12, <2>1
    <3>3. r[i].key \in Entries
      BY <3>2 DEF Line
    <3> QED
      BY <1>15, <2>1, <3>1, <3>3
  <2>2. CASE written[i] = e
    BY <1>8, <1>15, <2>2
  <2> QED
    BY <1>13, <2>1, <2>2
<1>19. ListOf(store, written)
  BY <1>10, <1>12, <1>15, <1>16, <1>17, <1>18 DEF ListOf
<1> QED
  BY <1>10, <1>11, <1>12, <1>19


\* The oldest are dropped from the list and from the store together.
LEMMA OldestDropped ==
  ASSUME NEW store, NEW lines, ListOf(store, lines), NEW d \in 0..(Len(lines) - 1),
         NEW less, less = [e \in Entries |-> IF e \in {lines[i].key : i \in 1..d} THEN 0 ELSE store[e]]
  PROVE  /\ ListOf(less, SubSeq(lines, d + 1, Len(lines)))
         /\ Len(SubSeq(lines, d + 1, Len(lines))) = Len(lines) - d
<1>1. PICK N : N = Len(lines)
  OBVIOUS
<1>2. PICK r : r = SubSeq(lines, d + 1, N)
  OBVIOUS
<1>3. store \in [Entries -> Nat] /\ lines \in Seq(Line)
  BY DEF ListOf
<1>4. N \in Nat /\ DOMAIN lines = 1..N /\ d \in Nat /\ d < N
  BY <1>1, <1>3
<1>5. \A i \in 1..N : lines[i] \in Line /\ lines[i].key \in Entries
  <2>1. \A i \in 1..N : lines[i] \in Line
    BY <1>3, <1>4
  <2>2. \A e \in Line : e.key \in Entries
    BY DEF Line
  <2> QED
    BY <2>1, <2>2
<1>6. r = [i \in 1..(N - d) |-> lines[i + d]]
  <2>1. r = [i \in 1..(N - (d + 1) + 1) |-> lines[i + (d + 1) - 1]]
    BY <1>2, <1>4 DEF SubSeq
  <2>2. N - (d + 1) + 1 = N - d
    BY <1>4
  <2>3. \A i \in 1..(N - d) : i + (d + 1) - 1 = i + d
    BY <1>4
  <2> QED
    BY <2>1, <2>2, <2>3
<1>7. \A i \in 1..(N - d) : i + d \in 1..N /\ i + d \in (d + 1)..N /\ r[i] = lines[i + d]
  BY <1>4, <1>6
<1>8. r \in Seq(Line) /\ Len(r) = N - d /\ DOMAIN r = 1..(N - d)
  <2>1. \A i \in 1..(N - d) : lines[i + d] \in Line
    BY <1>5, <1>7
  <2>2. N - d \in Nat
    BY <1>4
  <2>3. r \in [1..(N - d) -> Line]
    BY <1>6, <2>1
  <2> QED
    BY <1>6, <2>2, <2>3
<1>9. less \in [Entries -> Nat]
  BY <1>3
<1>10. \A i, j \in 1..N : lines[i].key = lines[j].key => i = j
  BY <1>4 DEF ListOf
<1>11. ASSUME NEW i \in 1..(N - d), NEW j \in 1..(N - d), r[i].key = r[j].key PROVE i = j
  <2>1. i + d = j + d
    BY <1>7, <1>10, <1>11
  <2> QED
    BY <1>4, <2>1
<1>12. ASSUME NEW k \in Entries, less[k] > 0 PROVE \E i \in 1..(N - d) : r[i].key = k
  <2>1. store[k] > 0 /\ ~(\E i \in 1..d : lines[i].key = k)
    BY <1>12
  <2>2. PICK i \in 1..N : lines[i].key = k
    BY <1>4, <2>1 DEF ListOf
  <2>3. i \notin 1..d
    BY <2>1, <2>2
  <2>4. i - d \in 1..(N - d) /\ i - d + d = i
    BY <1>4, <2>3
  <2> QED
    BY <1>7, <2>2, <2>4
<1>13. ASSUME NEW i \in 1..(N - d) PROVE less[r[i].key] = r[i].chars
  <2>1. PICK j \in (d + 1)..N : j = i + d /\ r[i] = lines[j] /\ j \in 1..N
    BY <1>7
  <2>2. ~(\E h \in 1..d : lines[h].key = lines[j].key)
    <3> SUFFICES ASSUME NEW h \in 1..d, lines[h].key = lines[j].key PROVE FALSE
      OBVIOUS
    <3>1. h \in 1..N
      BY <1>4
    <3>2. h = j
      BY <1>10, <2>1, <3>1
    <3> QED
      BY <1>4, <3>2
  <2>3. less[lines[j].key] = store[lines[j].key]
    BY <1>5, <2>1, <2>2
  <2>4. store[lines[j].key] = lines[j].chars
    BY <1>4, <2>1 DEF ListOf
  <2> QED
    BY <2>1, <2>3, <2>4
<1>14. ListOf(less, r)
  BY <1>8, <1>9, <1>11, <1>12, <1>13 DEF ListOf
<1> QED
  BY <1>1, <1>2, <1>8, <1>14

\* What is evicted is enough, or all but the one just written.
LEMMA EvictedIsEnough ==
  ASSUME NEW written, Len(written) \in Nat \ {0}
  PROVE  /\ Evicted(written) \in 0..(Len(written) - 1)
         /\ \/ Evicted(written) = Len(written) - 1
            \/ Total(CharsOf(SubSeq(written, Evicted(written) + 1, Len(written)))) <= MAX_TOTAL_CHARS
<1> DEFINE N == Len(written)
           Enough(e) == e = N - 1 \/ Total(CharsOf(SubSeq(written, e + 1, N))) <= MAX_TOTAL_CHARS
           S == {e \in 0..(N - 1) : Enough(e)}
<1>1. Evicted(written) = CHOOSE d \in 0..(N - 1) : Enough(d) /\ \A e \in 0..(d - 1) : ~Enough(e)
  BY DEF Evicted
<1>2. N \in Nat /\ N > 0
  OBVIOUS
<1> HIDE DEF N
<1>3. N - 1 \in 0..(N - 1) /\ Enough(N - 1)
  BY <1>2
<1> HIDE DEF Enough
<1>4. S \in SUBSET Nat /\ S # {}
  BY <1>2, <1>3
<1>5. PICK d \in S : \A e \in S : d <= e
  <2> HIDE DEF S
  <2> QED
    BY <1>4, Least
<1>6. d \in 0..(N - 1) /\ Enough(d) /\ \A e \in 0..(d - 1) : ~Enough(e)
  <2> SUFFICES ASSUME NEW e \in 0..(d - 1), Enough(e) PROVE FALSE
    OBVIOUS
  <2>1. e \in 0..(N - 1) /\ ~(d <= e)
    BY <1>2
  <2> QED
    BY <1>5, <2>1
<1>7. Evicted(written) \in 0..(N - 1) /\ Enough(Evicted(written))
  BY <1>1, <1>6
<1> QED
  BY <1>7 DEF N, Enough

-----------------------------------------------------------------------------
WithinBudget(store, lines) == HeldTotal(store) <= MAX_TOTAL_CHARS \/ Len(lines) = 1

\* Less of a list within the budget is within it.
LEMMA StaysWithin ==
  ASSUME NEW store, NEW lines, ListOf(store, lines), WithinBudget(store, lines),
         NEW less, NEW shorter, ListOf(less, shorter), Len(shorter) <= Len(lines),
         \A e \in Entries : less[e] <= store[e]
  PROVE  WithinBudget(less, shorter)
<1>1. /\ store \in [Entries -> Nat] /\ less \in [Entries -> Nat]
      /\ lines \in Seq(Line) /\ shorter \in Seq(Line)
  BY DEF ListOf
<1>2. IsFiniteSet(Entries) /\ MAX_TOTAL_CHARS \in Nat
  BY CacheAssumption
<1>3. HeldTotal(less) = SumOf(less, Entries) /\ HeldTotal(store) = SumOf(store, Entries)
  BY <1>1, HeldIsSummed
<1>4. HeldTotal(less) <= HeldTotal(store) /\ HeldTotal(less) \in Nat /\ HeldTotal(store) \in Nat
  BY <1>1, <1>2, <1>3, SumOfSmaller
<1>5. CASE HeldTotal(store) <= MAX_TOTAL_CHARS
  BY <1>2, <1>4, <1>5 DEF WithinBudget
<1>6. CASE Len(lines) = 1 /\ Len(shorter) # 1
  <2>1. Len(shorter) = 0 /\ DOMAIN shorter = {}
    BY <1>1, <1>6
  <2>2. \A e \in Entries : less[e] = 0
    BY <1>1, <2>1 DEF ListOf
  <2>3. SumOf(less, Entries) = 0
    BY <1>1, <2>2, SumOfNone
  <2> QED
    BY <1>2, <1>3, <2>3 DEF WithinBudget
<1> QED
  BY <1>5, <1>6 DEF WithinBudget

(* Until a write of the list is refused, the list is of what is held and   *)
(* within the budget.                                                      *)
CacheInv ==
    /\ listRefused \in BOOLEAN
    /\ ~listRefused => ListOf(held, order) /\ WithinBudget(held, order)

\* The first state.
LEMMA CacheStart == CacheInit => CacheInv
<1> SUFFICES ASSUME CacheInit PROVE CacheInv
  OBVIOUS
<1>1. held \in [Entries -> Nat] /\ order \in Seq(Line) /\ DOMAIN order = {} /\ \A e \in Entries : held[e] = 0
  BY DEF CacheInit
<1>2. ListOf(held, order)
  BY <1>1 DEF ListOf
<1>3. HeldTotal(held) = 0
  BY <1>1, HeldIsSummed, SumOfNone
<1>4. WithinBudget(held, order)
  BY <1>3, CacheAssumption DEF WithinBudget
<1>5. listRefused = FALSE
  BY DEF CacheInit
<1> QED
  BY <1>2, <1>4, <1>5 DEF CacheInv

\* An answer is written, and the oldest go.
LEMMA WriteStep ==
  ASSUME CacheInv, NEW k \in Entries, NEW n \in Sizes, Write(k, n)
  PROVE  CacheInv'
<1> DEFINE written == Kept(k, n)
           d == Evicted(written)
           gone == {written[i].key : i \in 1..d}
           lines == SubSeq(written, d + 1, Len(written))
           store == [e \in Entries |-> IF e \in gone THEN 0 ELSE IF e = k THEN n ELSE held[e]]
           full == [held EXCEPT ![k] = n]
<1>1. /\ held' = store
      /\ \/ order' = lines /\ listRefused' = listRefused
         \/ listRefused' = TRUE
  BY DEF Write
<1>2. SUFFICES ASSUME ~listRefused, order' = lines, listRefused' = FALSE PROVE CacheInv'
  BY <1>1 DEF CacheInv
<1>3. ListOf(held, order)
  BY <1>2 DEF CacheInv
<1>4. n \in Nat \ {0}
  BY CacheAssumption
<1>5. PICK a : a = written
  OBVIOUS
<1>6. PICK f : f = full
  OBVIOUS
<1>7. ListOf(f, a) /\ Len(a) \in Nat \ {0}
  BY <1>3, <1>4, <1>5, <1>6, KeptIsListed
<1>8. PICK c : c = d
  OBVIOUS
<1>9. /\ c \in 0..(Len(a) - 1)
      /\ c = Len(a) - 1 \/ Total(CharsOf(SubSeq(a, c + 1, Len(a)))) <= MAX_TOTAL_CHARS
  BY <1>5, <1>7, <1>8, EvictedIsEnough
<1>10. held' = [e \in Entries |-> IF e \in {a[i].key : i \in 1..c} THEN 0 ELSE f[e]]
  <2>1. held \in [Entries -> Nat]
    BY <1>3 DEF ListOf
  <2>2. \A e \in Entries : f[e] = IF e = k THEN n ELSE held[e]
    BY <1>6, <2>1
  <2>3. held' = [e \in Entries |-> IF e \in {a[i].key : i \in 1..c} THEN 0 ELSE IF e = k THEN n ELSE held[e]]
    BY <1>1, <1>5, <1>8
  <2> QED
    BY <2>2, <2>3
<1>11. order' = SubSeq(a, c + 1, Len(a))
  BY <1>2, <1>5, <1>8
<1> HIDE DEF written, d, gone, lines, store, full
<1>12. PICK s, l : s = held' /\ l = order'
  OBVIOUS
<1>13. ListOf(s, l) /\ Len(l) = Len(a) - c
  BY <1>7, <1>9, <1>10, <1>11, <1>12, OldestDropped
<1>14. HeldTotal(s) = Total(CharsOf(l))
  BY <1>13, ListedTotal
<1>15. Len(l) = 1 \/ Total(CharsOf(l)) <= MAX_TOTAL_CHARS
  <2>1. CASE c = Len(a) - 1
    BY <1>7, <1>13, <2>1
  <2>2. CASE Total(CharsOf(SubSeq(a, c + 1, Len(a)))) <= MAX_TOTAL_CHARS
    BY <1>11, <1>12, <2>2
  <2> QED
    BY <1>9, <2>1, <2>2
<1>16. WithinBudget(s, l)
  BY <1>14, <1>15 DEF WithinBudget
<1>17. ListOf(held, order)' /\ WithinBudget(held, order)'
  BY <1>12, <1>13, <1>16 DEF ListOf, WithinBudget, HeldTotal
<1> QED
  BY <1>2, <1>17 DEF CacheInv

\* What is forgotten goes from the list as well.
LEMMA ForgottenStep ==
  ASSUME CacheInv, listRefused' = listRefused, NEW P \in SUBSET DOMAIN order,
         order' = AtPlaces(order, P), held' \in [Entries -> Nat],
         ~listRefused => \A e \in Entries : held'[e] = IF \E i \in P : order[i].key = e THEN held[e] ELSE 0
  PROVE  CacheInv'
<1> SUFFICES ASSUME ~listRefused PROVE CacheInv'
  BY DEF CacheInv
<1>1. ListOf(held, order) /\ WithinBudget(held, order)
  BY DEF CacheInv
<1>2. PICK s, l : s = held' /\ l = order'
  OBVIOUS
<1>3. s \in [Entries -> Nat]
  BY <1>2
<1>4. \A e \in Entries : s[e] = IF \E i \in P : order[i].key = e THEN held[e] ELSE 0
  BY <1>2
<1>5. ListOf(s, l) /\ Len(l) = Cardinality(P)
  BY <1>1, <1>2, <1>3, <1>4, Filtered
<1>6. held \in [Entries -> Nat] /\ order \in Seq(Line)
  BY <1>1 DEF ListOf
<1>7. Cardinality(P) <= Len(order)
  BY <1>6, AtPlacesHolds
<1>8. \A e \in Entries : s[e] <= held[e]
  BY <1>4, <1>6
<1>9. WithinBudget(s, l)
  BY <1>1, <1>5, <1>7, <1>8, StaysWithin
<1>10. ListOf(held, order)' /\ WithinBudget(held, order)'
  BY <1>2, <1>5, <1>9 DEF ListOf, WithinBudget, HeldTotal
<1> QED
  BY <1>10 DEF CacheInv

\* Every step: of this cache, of the other writers, or none.
LEMMA CacheStep == CacheInv /\ [CacheNext]_cacheVars => CacheInv'
<1> SUFFICES ASSUME CacheInv, [CacheNext]_cacheVars PROVE CacheInv'
  OBVIOUS
<1>1. ~listRefused => /\ held \in [Entries -> Nat]
                      /\ \A e \in Entries : held[e] > 0 => \E i \in DOMAIN order : order[i].key = e
  BY DEF CacheInv, ListOf
<1>2. ASSUME NEW k \in Entries, Forget(k) PROVE CacheInv'
  <2> DEFINE P == {i \in DOMAIN order : order[i].key # k}
  <2>1. CASE listRefused
    BY <1>2, <2>1 DEF Forget, CacheInv
  <2>2. CASE ~listRefused
    <3>1. /\ held' = [held EXCEPT ![k] = 0] /\ order' = AtPlaces(order, P) /\ listRefused' = listRefused
      BY <1>2 DEF Forget, WithoutKey
    <3>2. held' \in [Entries -> Nat]
      BY <1>1, <2>2, <3>1
    <3>3. ASSUME NEW e \in Entries
          PROVE  held'[e] = IF \E i \in P : order[i].key = e THEN held[e] ELSE 0
      <4>1. CASE e = k
        BY <1>1, <2>2, <3>1, <4>1
      <4>2. CASE e # k
        <5>1. held'[e] = held[e] /\ held[e] \in Nat
          BY <1>1, <2>2, <3>1, <4>2
        <5>2. held[e] > 0 => \E i \in P : order[i].key = e
          BY <1>1, <2>2, <4>2
        <5> QED
          BY <5>1, <5>2
      <4> QED
        BY <4>1, <4>2
    <3>4. P \in SUBSET DOMAIN order
      OBVIOUS
    <3> HIDE DEF P
    <3> QED
      BY <3>1, <3>2, <3>3, <3>4, ForgottenStep
  <2> QED
    BY <2>1, <2>2
<1>3. ASSUME NEW b, ForgetCached(b) PROVE CacheInv'
  <2> DEFINE P == {i \in DOMAIN order : BatchOf[order[i].key] # b}
             listed == {order[i].key : i \in DOMAIN order} \cap {k \in Entries : BatchOf[k] = b}
  <2>1. CASE listRefused
    BY <1>3, <2>1 DEF ForgetCached, CacheInv
  <2>2. CASE ~listRefused
    <3>1. /\ held' = [k \in Entries |-> IF k \in listed THEN 0 ELSE held[k]]
          /\ order' = AtPlaces(order, P) /\ listRefused' = listRefused
      BY <1>3 DEF ForgetCached
    <3>2. held' \in [Entries -> Nat]
      BY <1>1, <2>2, <3>1
    <3>3. ASSUME NEW e \in Entries
          PROVE  held'[e] = IF \E i \in P : order[i].key = e THEN held[e] ELSE 0
      <4>1. CASE e \in listed
        <5>1. ~(\E i \in P : order[i].key = e)
          BY <4>1
        <5> QED
          BY <3>1, <4>1, <5>1
      <4>2. CASE e \notin listed
        <5>1. held'[e] = held[e] /\ held[e] \in Nat
          BY <1>1, <2>2, <3>1, <4>2
        <5>2. ASSUME held[e] > 0 PROVE \E i \in P : order[i].key = e
          <6>1. PICK i \in DOMAIN order : order[i].key = e
            BY <1>1, <2>2, <5>2
          <6>2. BatchOf[e] # b
            BY <4>2, <6>1
          <6> QED
            BY <6>1, <6>2
        <5> QED
          BY <5>1, <5>2
      <4> QED
        BY <4>1, <4>2
    <3>4. P \in SUBSET DOMAIN order
      OBVIOUS
    <3> HIDE DEF P
    <3> QED
      BY <3>1, <3>2, <3>3, <3>4, ForgottenStep
  <2> QED
    BY <2>1, <2>2
<1>4. CASE UNCHANGED <<held, order, listRefused>>
  BY <1>4 DEF CacheInv, ListOf, WithinBudget, HeldTotal
<1>5. CASE OthersWrite
  BY <1>4, <1>5 DEF OthersWrite
<1>6. CASE UNCHANGED cacheVars
  BY <1>4, <1>6 DEF cacheVars
<1> QED
  BY <1>2, <1>3, <1>5, <1>6, WriteStep DEF CacheNext

(* What the browser holds of a batch is what its list says it holds, each  *)
(* entry once, and within the budget or one entry alone, for any number of *)
(* entries, lengths and quota, as long as the list itself could be written *)
(* (remember and forget of lib/cache.ts).                                  *)
THEOREM CacheIsListed == CacheSpec => []HeldIsListed
<1>1. CacheInv => HeldIsListed
  <2> SUFFICES ASSUME CacheInv, ~listRefused PROVE HeldIsListed
    BY DEF HeldIsListed
  <2>1. ListOf(held, order) /\ WithinBudget(held, order)
    BY DEF CacheInv
  <2>2. order \in Seq(Line)
    BY <2>1 DEF ListOf
  <2>3. \A i, j \in DOMAIN order : order[i].key = order[j].key => i = j
    BY <2>1 DEF ListOf
  <2>4. \A i \in DOMAIN order : held[order[i].key] = order[i].chars
    BY <2>1 DEF ListOf
  <2>5. ASSUME NEW k \in Entries, held[k] > 0
        PROVE  \E i \in DOMAIN order : order[i] = [key |-> k, chars |-> held[k]]
    <3>1. PICK i \in DOMAIN order : order[i].key = k
      BY <2>1, <2>5 DEF ListOf
    <3>2. order[i] \in Line /\ order[i].chars = held[k]
      BY <2>2, <2>4, <3>1
    <3>3. order[i] = [key |-> k, chars |-> held[k]]
      BY <3>1, <3>2 DEF Line
    <3> QED
      BY <3>3
  <2>6. HeldTotal(held) <= MAX_TOTAL_CHARS \/ Len(order) = 1
    BY <2>1 DEF WithinBudget
  <2> QED
    BY <2>3, <2>4, <2>5, <2>6 DEF HeldIsListed
<1> QED
  BY <1>1, CacheStart, CacheStep, PTL DEF CacheSpec

-----------------------------------------------------------------------------
(* Downloads.  A name of a sheet is new among those taken, because there   *)
(* are more numbers than names taken; so names given one after the other   *)
(* are apart.                                                              *)

\* The literals are named because no prover takes a literal for a STRING.
Character == STRING \cup {" ", "(", ")", "S", "h", "e", "t"}
Text == Seq(Character)

\* What the code itself writes into a name.
LEMMA Characters ==
  /\ " " \in Character /\ "(" \in Character /\ ")" \in Character
  /\ "S" \in Character /\ "h" \in Character /\ "e" \in Character /\ "t" \in Character
BY DEF Character

\* A text is a text over more characters too.
LEMMA LargerAlphabet == ASSUME NEW A, NEW B, A \subseteq B PROVE Seq(A) \subseteq Seq(B)
<1> SUFFICES ASSUME NEW s \in Seq(A) PROVE s \in Seq(B)
  OBVIOUS
<1>1. Len(s) \in Nat /\ s \in [1..Len(s) -> A]
  OBVIOUS
<1> QED
  BY <1>1

\* Names and numbers are written in these characters.
LEMMA NumeralsAreCharacters ==
  /\ Numerals \in Seq(Character)
  /\ \A i, j \in DOMAIN Numerals : Numerals[i] = Numerals[j] => i = j
  /\ \A e \in Exports : e \in Seq(Text) /\ Len(e) <= Len(Numerals)
<1>1. PICK A : A = STRING
  OBVIOUS
<1>2. A \subseteq Character
  BY <1>1, Zenon DEF Character
<1>3. Seq(A) \subseteq Text
  BY <1>2, LargerAlphabet DEF Text
<1>4. Seq(Seq(A)) \subseteq Seq(Text)
  BY <1>3, LargerAlphabet
<1>5. Numerals \in Seq(A)
  BY <1>1, DownloadsAssumption, Zenon
<1>6. \A e \in Exports : e \in Seq(Seq(A)) /\ Len(e) <= Len(Numerals)
  BY <1>1, DownloadsAssumption, Zenon
<1>7. \A i, j \in DOMAIN Numerals : Numerals[i] = Numerals[j] => i = j
  BY DownloadsAssumption, Zenon
<1>8. Numerals \in Seq(Character)
  BY <1>3, <1>5 DEF Text
<1>9. \A e \in Exports : e \in Seq(Text) /\ Len(e) <= Len(Numerals)
  BY <1>4, <1>6
<1> QED
  BY <1>7, <1>8, <1>9

\* A part of a text.
LEMMA PartOfText ==
  ASSUME NEW s \in Text, NEW a \in Nat \ {0}, NEW b \in Nat, b <= Len(s)
  PROVE  /\ SubSeq(s, a, b) \in Text
         /\ Len(SubSeq(s, a, b)) \in Nat
         /\ Len(SubSeq(s, a, b)) = IF a <= b THEN b - a + 1 ELSE 0
<1>1. CASE a <= b
  <2>1. \A i \in a..b : i \in 1..Len(s) /\ s[i] \in Character
    BY DEF Text
  <2>2. SubSeq(s, a, b) \in Seq(Character) /\ Len(SubSeq(s, a, b)) = b - a + 1
    BY <1>1, SubSeqProperties DEF Text
  <2> QED
    BY <1>1, <2>2 DEF Text
<1>2. CASE ~(a <= b)
  <2>1. SubSeq(s, a, b) = << >>
    BY <1>2
  <2> QED
    BY <1>2, <2>1 DEF Text
<1> QED
  BY <1>1, <1>2

\* The least and the greatest of a set of places are in it.
LEMMA EndsOfPlaces ==
  ASSUME NEW n \in Nat, NEW S \in SUBSET (1..n), S # {}
  PROVE  LeastOf(S) \in S /\ GreatestOf(S) \in S /\ LeastOf(S) <= GreatestOf(S)
<1>1. S \in SUBSET Nat /\ \A m \in S : m <= n
  OBVIOUS
<1>2. LeastOf(S) \in S /\ \A m \in S : LeastOf(S) <= m
  <2>1. \E t \in S : \A u \in S : t <= u
    BY <1>1, Least
  <2> QED
    BY <2>1 DEF LeastOf
<1>3. GreatestOf(S) \in S
  <2>1. \E t \in S : \A u \in S : u <= t
    BY <1>1, Greatest
  <2>2. \E t \in S : \A u \in S : t >= u
    BY <1>1, <2>1
  <2> QED
    BY <2>2 DEF GreatestOf
<1> QED
  BY <1>2, <1>3

\* What is left of a text that is cut at a length.
LEMMA SlicedText ==
  ASSUME NEW s \in Text, NEW n \in Nat
  PROVE  /\ Sliced(s, n) \in Text /\ Len(Sliced(s, n)) \in Nat /\ Len(Sliced(s, n)) <= n
         /\ Sliced(s, n) = << >> \/ Len(Sliced(s, n)) > 0
<1>1. Len(s) \in Nat
  BY DEF Text
<1> DEFINE k == IF Len(s) < n THEN Len(s) ELSE n
<1>2. k \in Nat /\ k <= Len(s) /\ k <= n
  BY <1>1
<1>3. Sliced(s, n) = SubSeq(s, 1, k)
  BY DEF Sliced
<1> HIDE DEF k
<1>4. Sliced(s, n) \in Text /\ Len(Sliced(s, n)) \in Nat /\ Len(Sliced(s, n)) = IF 1 <= k THEN k - 1 + 1 ELSE 0
  BY <1>2, <1>3, PartOfText
<1>5. Sliced(s, n) = << >> \/ Len(Sliced(s, n)) > 0
  BY <1>4 DEF Text
<1> QED
  BY <1>2, <1>4, <1>5

\* What a tab starts from is a text that fits it.
LEMMA BaseIsText ==
  ASSUME NEW raw \in Text
  PROVE  Base(raw) \in Text /\ Len(Base(raw)) \in 1..MAX_SHEET_NAME
<1>1. WithoutExtension(raw) \in Text
  <2> DEFINE dots == {i \in 1..(Len(raw) - 1) : raw[i] = "." /\ \A j \in (i + 1)..Len(raw) : raw[j] # "."}
  <2>1. Len(raw) \in Nat
    BY DEF Text
  <2>2. WithoutExtension(raw) = IF dots = {} THEN raw ELSE SubSeq(raw, 1, LeastOf(dots) - 1)
    BY DEF WithoutExtension
  <2>3. dots \in SUBSET (1..Len(raw))
    BY <2>1
  <2> HIDE DEF dots
  <2>4. CASE dots # {}
    <3>1. LeastOf(dots) \in 1..Len(raw)
      BY <2>1, <2>3, <2>4, EndsOfPlaces
    <3>2. LeastOf(dots) - 1 \in Nat /\ LeastOf(dots) - 1 <= Len(raw)
      BY <2>1, <3>1
    <3> QED
      BY <2>2, <2>4, <3>2, PartOfText
  <2> QED
    BY <2>2, <2>4
<1>2. PICK r : r = WithoutExtension(raw)
  OBVIOUS
<1>3. Legal(r) \in Text
  <2> DEFINE spaced == [i \in DOMAIN r |-> IF r[i] \in Illegal \cup Blanks THEN " " ELSE r[i]]
             left == {i \in DOMAIN spaced : ~(i > 1 /\ spaced[i] = " " /\ spaced[i - 1] = " ")}
  <2>1. Legal(r) = Trim(AtPlaces(spaced, left))
    BY DEF Legal
  <2>2. r \in Seq(Character)
    BY <1>1, <1>2 DEF Text
  <2>3. spaced \in Seq(Character)
    <3>1. \A i \in 1..Len(r) : r[i] \in Character
      BY <2>2
    <3>2. DOMAIN r = 1..Len(r) /\ Len(r) \in Nat
      BY <2>2
    <3>3. spaced \in [1..Len(r) -> Character]
      <4>1. \A i \in 1..Len(r) : (IF r[i] \in Illegal \cup Blanks THEN " " ELSE r[i]) \in Character
        BY <3>1, Characters
      <4>2. spaced = [i \in 1..Len(r) |-> IF r[i] \in Illegal \cup Blanks THEN " " ELSE r[i]]
        BY <3>2
      <4> QED
        BY <4>1, <4>2, Zenon
    <3> HIDE DEF spaced
    <3> QED
      BY <3>2, <3>3
  <2>4. left \in SUBSET DOMAIN spaced
    OBVIOUS
  <2>5. PICK s : s = AtPlaces(spaced, left)
    OBVIOUS
  <2> HIDE DEF spaced, left
  <2>6. s \in Text
    BY <2>3, <2>4, <2>5, AtPlacesHolds DEF Text
  <2> DEFINE ink == 1..Len(s) \ Places(s, Blanks)
  <2>7. Trim(s) = IF ink = {} THEN <<>> ELSE SubSeq(s, LeastOf(ink), GreatestOf(ink))
    BY DEF Trim
  <2>8. ink \in SUBSET (1..Len(s)) /\ Len(s) \in Nat
    BY <2>6 DEF Text
  <2> HIDE DEF ink
  <2>9. CASE ink = {}
    BY <2>1, <2>5, <2>7, <2>9 DEF Text
  <2>10. CASE ink # {}
    <3>1. LeastOf(ink) \in 1..Len(s) /\ GreatestOf(ink) \in 1..Len(s)
      BY <2>8, <2>10, EndsOfPlaces
    <3>2. LeastOf(ink) \in Nat \ {0} /\ GreatestOf(ink) \in Nat /\ GreatestOf(ink) <= Len(s)
      BY <2>8, <3>1
    <3>3. SubSeq(s, LeastOf(ink), GreatestOf(ink)) \in Text
      BY <2>6, <3>2, PartOfText
    <3> QED
      BY <2>1, <2>5, <2>7, <2>10, <3>3
  <2> QED
    BY <2>9, <2>10
<1>4. PICK l : l = Sliced(Legal(r), MAX_SHEET_NAME)
  OBVIOUS
<1>5. MAX_SHEET_NAME \in Nat /\ MAX_SHEET_NAME > 4
  BY DownloadsAssumption
<1>6. l \in Text /\ Len(l) \in Nat /\ Len(l) <= MAX_SHEET_NAME /\ (l = << >> \/ Len(l) > 0)
  BY <1>3, <1>4, <1>5, SlicedText
<1>7. Base(raw) = IF l = <<>> THEN <<"S", "h", "e", "e", "t">> ELSE l
  BY <1>2, <1>4 DEF Base
<1>8. <<"S", "h", "e", "e", "t">> \in Text /\ Len(<<"S", "h", "e", "e", "t">>) = 5
  <2>1. PICK a, b, c, d : a = "S" /\ b = "h" /\ c = "e" /\ d = "t"
    OBVIOUS
  <2>2. a \in Character /\ b \in Character /\ c \in Character /\ d \in Character
    BY <2>1, Characters
  <2>3. <<a, b, c, c, d>> \in Seq(Character) /\ Len(<<a, b, c, c, d>>) = 5
    BY <2>2
  <2> QED
    BY <2>1, <2>3 DEF Text
<1>9. CASE l = << >>
  BY <1>5, <1>7, <1>8, <1>9
<1>10. CASE l # << >>
  BY <1>5, <1>6, <1>7, <1>10
<1> QED
  BY <1>9, <1>10

\* Every number makes another text of a name.
LEMMA CandidatesAreApart ==
  ASSUME NEW base \in Text, NEW n \in DOMAIN Numerals
  PROVE  /\ Candidate(base, n) \in Text /\ Len(Candidate(base, n)) \in 1..MAX_SHEET_NAME
         /\ \A m \in DOMAIN Numerals : Candidate(base, m) = Candidate(base, n) => m = n
<1>1. MAX_SHEET_NAME \in Nat /\ MAX_SHEET_NAME > 4
  BY DownloadsAssumption
<1>2. \A m \in DOMAIN Numerals : Numerals[m] \in Character
  <2>1. Numerals \in Seq(Character)
    BY NumeralsAreCharacters
  <2> QED
    BY <2>1
<1>3. \A m \in DOMAIN Numerals : Suffix(m) \in Seq(Character) /\ Len(Suffix(m)) = 4 /\ Suffix(m)[3] = Numerals[m]
  <2> SUFFICES ASSUME NEW m \in DOMAIN Numerals
               PROVE  Suffix(m) \in Seq(Character) /\ Len(Suffix(m)) = 4 /\ Suffix(m)[3] = Numerals[m]
    OBVIOUS
  <2>1. Suffix(m) = <<" ", "(", Numerals[m], ")">>
    BY DEF Suffix
  <2>2. PICK a, b, c, d : a = " " /\ b = "(" /\ c = Numerals[m] /\ d = ")"
    OBVIOUS
  <2>3. a \in Character /\ b \in Character /\ c \in Character /\ d \in Character
    BY <1>2, <2>2, Characters
  <2>4. Suffix(m) = <<a, b, c, d>>
    BY <2>1, <2>2
  <2>5. <<a, b, c, d>> \in Seq(Character) /\ Len(<<a, b, c, d>>) = 4 /\ <<a, b, c, d>>[3] = c
    BY <2>3
  <2> QED
    BY <2>2, <2>4, <2>5
<1>4. PICK p : p = Sliced(base, MAX_SHEET_NAME - 4)
  OBVIOUS
<1>5. p \in Seq(Character) /\ Len(p) \in Nat /\ Len(p) <= MAX_SHEET_NAME - 4
  <2>1. MAX_SHEET_NAME - 4 \in Nat
    BY <1>1
  <2> QED
    BY <1>4, <2>1, SlicedText DEF Text
<1>6. \A m \in DOMAIN Numerals : Candidate(base, m) = p \o Suffix(m)
  BY <1>3, <1>4 DEF Candidate
<1>7. \A m \in DOMAIN Numerals : /\ p \o Suffix(m) \in Seq(Character)
                                 /\ Len(p \o Suffix(m)) = Len(p) + 4
                                 /\ (p \o Suffix(m))[Len(p) + 3] = Numerals[m]
  <2> SUFFICES ASSUME NEW m \in DOMAIN Numerals
               PROVE  /\ p \o Suffix(m) \in Seq(Character)
                      /\ Len(p \o Suffix(m)) = Len(p) + 4
                      /\ (p \o Suffix(m))[Len(p) + 3] = Numerals[m]
    OBVIOUS
  <2>1. PICK q : q = Suffix(m)
    OBVIOUS
  <2>2. q \in Seq(Character) /\ Len(q) = 4 /\ q[3] = Numerals[m]
    BY <1>3, <2>1
  <2>3. p \o q \in Seq(Character) /\ Len(p \o q) = Len(p) + Len(q)
    BY <1>5, <2>2, ConcatProperties
  <2>4. (p \o q)[Len(p) + 3] = q[3]
    <3>1. Len(p) + 3 \in 1..(Len(p) + Len(q)) /\ ~(Len(p) + 3 <= Len(p)) /\ Len(p) + 3 - Len(p) = 3
      BY <1>5, <2>2
    <3> QED
      BY <1>5, <2>2, <3>1, ConcatProperties
  <2> QED
    BY <2>1, <2>2, <2>3, <2>4
<1>8. Candidate(base, n) \in Text /\ Len(Candidate(base, n)) \in 1..MAX_SHEET_NAME
  <2>1. Candidate(base, n) \in Text /\ Len(Candidate(base, n)) = Len(p) + 4
    BY <1>6, <1>7 DEF Text
  <2> QED
    BY <1>1, <1>5, <2>1
<1>9. ASSUME NEW m \in DOMAIN Numerals, Candidate(base, m) = Candidate(base, n) PROVE m = n
  <2>1. Numerals[m] = Numerals[n]
    BY <1>6, <1>7, <1>9
  <2> QED
    BY <2>1, NumeralsAreCharacters
<1> QED
  BY <1>8, <1>9

\* A name that is given is of a tab's length, and new.
LEMMA NameIsNew ==
  ASSUME NEW raw \in Text, NEW taken, IsFiniteSet(taken), Cardinality(taken) < Len(Numerals)
  PROVE  SheetName(raw, taken) \notin taken /\ Len(SheetName(raw, taken)) \in 1..MAX_SHEET_NAME
<1>1. PICK base : base = Base(raw)
  OBVIOUS
<1>2. base \in Text /\ Len(base) \in 1..MAX_SHEET_NAME
  BY <1>1, BaseIsText
<1> DEFINE D == DOMAIN Numerals
           free == {n \in D : Candidate(base, n) \notin taken}
<1>3. SheetName(raw, taken) = IF base \notin taken THEN base ELSE Candidate(base, LeastOf(free))
  BY <1>1 DEF SheetName
<1>4. Len(Numerals) \in Nat /\ D = 1..Len(Numerals)
  <2>1. Numerals \in Seq(Character)
    BY NumeralsAreCharacters
  <2> QED
    BY <2>1
<1>5. free # {}
  <2> SUFFICES ASSUME free = {} PROVE FALSE
    OBVIOUS
  <2> DEFINE f == [n \in D |-> Candidate(base, n)]
  <2>1. IsFiniteSet(D) /\ Cardinality(D) = Len(Numerals)
    BY <1>4, FS_Interval
  <2>2. f \in [D -> taken]
    OBVIOUS
  <2>3. Cardinality(D) > Cardinality(taken)
    <3>1. Cardinality(taken) \in Nat
      BY FS_CardinalityType
    <3> QED
      BY <1>4, <2>1, <3>1
  <2> HIDE DEF D
  <2>4. \A n, m \in D : f[n] = f[m] => n = m
    <3>1. \A n, m \in D : Candidate(base, n) = Candidate(base, m) => n = m
      BY <1>2, CandidatesAreApart DEF D
    <3> QED
      BY <3>1
  <2> HIDE DEF f
  <2>5. \E n, m \in D : n # m /\ f[n] = f[m]
    BY <2>1, <2>2, <2>3, FS_PigeonHole
  <2> QED
    BY <2>4, <2>5
<1>6. LeastOf(free) \in free
  <2>1. free \in SUBSET (1..Len(Numerals))
    BY <1>4
  <2> HIDE DEF free
  <2> QED
    BY <1>4, <1>5, <2>1, EndsOfPlaces
<1>7. LeastOf(free) \in DOMAIN Numerals /\ Candidate(base, LeastOf(free)) \notin taken
  BY <1>6
<1>8. Len(Candidate(base, LeastOf(free))) \in 1..MAX_SHEET_NAME
  BY <1>2, <1>7, CandidatesAreApart
<1> QED
  BY <1>2, <1>3, <1>7, <1>8


\* The names given one after the other: what is taken after each.
Taking(raws, N, taken) ==
    taken = [n \in 0..N |-> IF n = 0 THEN {} ELSE taken[n - 1] \cup {SheetName(raws[n], taken[n - 1])}]

\* For each list of names there is such a run of the loop of toWorkbook.
LEMMA NamesAreTaken == ASSUME NEW raws, NEW N \in Nat PROVE \E taken : Taking(raws, N, taken)
<1> DEFINE K == {n \in Nat : \E taken : Taking(raws, n, taken)}
<1>1. 0 \in K
  <2> DEFINE t == [n \in 0..0 |-> {}]
  <2>1. \A n \in 0..0 : n = 0
    OBVIOUS
  <2>2. Taking(raws, 0, t)
    BY <2>1 DEF Taking
  <2> QED
    BY <2>2
<1>2. ASSUME NEW n \in K PROVE n + 1 \in K
  <2>1. PICK t : Taking(raws, n, t)
    OBVIOUS
  <2>2. \A i \in 0..n : t[i] = IF i = 0 THEN {} ELSE t[i - 1] \cup {SheetName(raws[i], t[i - 1])}
    BY <2>1 DEF Taking
  <2> DEFINE u == [i \in 0..(n + 1) |-> IF i <= n THEN t[i]
                                        ELSE t[n] \cup {SheetName(raws[n + 1], t[n])}]
  <2>3. ASSUME NEW i \in 0..(n + 1)
        PROVE  u[i] = IF i = 0 THEN {} ELSE u[i - 1] \cup {SheetName(raws[i], u[i - 1])}
    <3>1. CASE i = 0
      <4>1. 0 <= n /\ 0 \in 0..n /\ 0 \in 0..(n + 1)
        OBVIOUS
      <4>2. u[0] = t[0]
        BY <4>1
      <4>3. t[0] = {}
        BY <2>2, <4>1
      <4> QED
        BY <3>1, <4>2, <4>3
    <3>2. CASE i # 0
      <4>1. i - 1 \in 0..n /\ i - 1 \in 0..(n + 1)
        BY <3>2
      <4>2. u[i - 1] = t[i - 1]
        BY <4>1
      <4>3. CASE i <= n
        <5>1. i \in 0..n
          BY <4>3
        <5>2. u[i] = t[i]
          BY <4>3
        <5> QED
          BY <2>2, <3>2, <4>2, <5>1, <5>2
      <4>4. CASE ~(i <= n)
        <5>1. i = n + 1 /\ i - 1 = n
          BY <4>4
        <5>2. u[i] = t[n] \cup {SheetName(raws[n + 1], t[n])}
          BY <4>4
        <5> QED
          BY <3>2, <4>2, <5>1, <5>2
      <4> QED
        BY <4>3, <4>4
    <3> QED
      BY <3>1, <3>2
  <2>4. Taking(raws, n + 1, u)
    <3>1. u = [i \in 0..(n + 1) |-> u[i]]
      OBVIOUS
    <3> HIDE DEF u
    <3> QED
      BY <2>3, <3>1 DEF Taking
  <2> QED
    BY <2>4
<1>3. K = Nat
  <2> HIDE DEF K
  <2>1. K \in SUBSET Nat
    BY DEF K
  <2> QED
    BY <1>1, <1>2, <2>1, FromZero
<1> QED
  BY <1>3

Apart(names, N) ==
    /\ \A n, m \in 1..N : names[n] = names[m] => n = m
    /\ \A n \in 1..N : Len(names[n]) \in 1..MAX_SHEET_NAME

\* Each is new among those before it, as there are numbers enough.
LEMMA NamesAreApart ==
  ASSUME NEW raws, NEW N \in Nat, N <= Len(Numerals), \A n \in 1..N : raws[n] \in Text,
         NEW taken, Taking(raws, N, taken),
         NEW names, \A n \in 1..N : names[n] = SheetName(raws[n], taken[n - 1])
  PROVE  Apart(names, N)
<1>1. /\ 0 \in 0..N => taken[0] = {}
      /\ \A n \in 1..N : taken[n] = taken[n - 1] \cup {names[n]}
  <2>1. \A n \in 0..N : taken[n] = IF n = 0 THEN {} ELSE taken[n - 1] \cup {SheetName(raws[n], taken[n - 1])}
    BY DEF Taking
  <2>2. \A n \in 1..N : n \in 0..N /\ n # 0
    OBVIOUS
  <2> QED
    BY <2>1, <2>2
<1> DEFINE Held(n) == /\ IsFiniteSet(taken[n]) /\ Cardinality(taken[n]) <= n
                      /\ \A m \in 1..n : names[m] \in taken[n]
           K == {n \in Nat : n <= N => Held(n)}
<1>2. 0 \in K
  <2>1. taken[0] = {}
    BY <1>1
  <2>2. IsFiniteSet(taken[0]) /\ Cardinality(taken[0]) = 0
    BY <2>1, FS_EmptySet
  <2>3. \A m \in 1..0 : names[m] \in taken[0]
    OBVIOUS
  <2>4. Held(0)
    BY <2>2, <2>3
  <2> HIDE DEF Held
  <2> QED
    BY <2>4
<1>3. ASSUME NEW n \in K PROVE n + 1 \in K
  <2> SUFFICES ASSUME n + 1 <= N PROVE Held(n + 1)
    OBVIOUS
  <2>1. n \in Nat /\ n <= N /\ Held(n)
    OBVIOUS
  <2>2. taken[n + 1] = taken[n] \cup {names[n + 1]}
    <3>1. n + 1 \in 1..N /\ n + 1 - 1 = n
      BY <2>1
    <3> QED
      BY <1>1, <3>1
  <2>3. PICK T : T = taken[n]
    OBVIOUS
  <2>4. IsFiniteSet(T \cup {names[n + 1]}) /\ Cardinality(T \cup {names[n + 1]}) <= n + 1
    <3>1. IsFiniteSet(T) /\ Cardinality(T) \in Nat /\ Cardinality(T) <= n
      BY <2>1, <2>3, FS_CardinalityType
    <3>2. /\ IsFiniteSet(T \cup {names[n + 1]})
          /\ Cardinality(T \cup {names[n + 1]}) =
                IF names[n + 1] \in T THEN Cardinality(T) ELSE Cardinality(T) + 1
      BY <3>1, FS_AddElement
    <3> QED
      BY <2>1, <3>1, <3>2
  <2>5. \A m \in 1..(n + 1) : names[m] \in T \cup {names[n + 1]}
    <3>1. \A m \in 1..(n + 1) : m \in 1..n \/ m = n + 1
      BY <2>1
    <3> QED
      BY <2>1, <2>3, <3>1
  <2> QED
    BY <2>2, <2>3, <2>4, <2>5
<1> HIDE DEF Held
<1>4. K = Nat
  <2> HIDE DEF K
  <2>1. K \in SUBSET Nat
    BY DEF K
  <2> QED
    BY <1>2, <1>3, <2>1, FromZero
<1>5. ASSUME NEW n \in 1..N
      PROVE  names[n] \notin taken[n - 1] /\ Len(names[n]) \in 1..MAX_SHEET_NAME
  <2>1. n - 1 \in Nat /\ n - 1 <= N
    OBVIOUS
  <2>2. IsFiniteSet(taken[n - 1]) /\ Cardinality(taken[n - 1]) <= n - 1
    BY <1>4, <2>1 DEF Held
  <2>3. PICK T : T = taken[n - 1]
    OBVIOUS
  <2>4. IsFiniteSet(T) /\ Cardinality(T) \in Nat /\ Cardinality(T) <= n - 1
    BY <2>2, <2>3, FS_CardinalityType
  <2>5. Len(Numerals) \in Nat
    BY NumeralsAreCharacters
  <2>6. Cardinality(T) < Len(Numerals)
    BY <2>4, <2>5
  <2>7. PICK r \in Text : r = raws[n]
    OBVIOUS
  <2>8. SheetName(r, T) \notin T /\ Len(SheetName(r, T)) \in 1..MAX_SHEET_NAME
    BY <2>4, <2>6, NameIsNew
  <2> QED
    BY <2>3, <2>7, <2>8
<1>6. ASSUME NEW n \in 1..N, NEW m \in 1..N, m < n PROVE names[m] # names[n]
  <2>1. n - 1 \in Nat /\ n - 1 <= N /\ m \in 1..(n - 1)
    BY <1>6
  <2>2. names[m] \in taken[n - 1]
    BY <1>4, <2>1 DEF Held
  <2> QED
    BY <1>5, <2>2
<1>7. ASSUME NEW n \in 1..N, NEW m \in 1..N, names[n] = names[m] PROVE n = m
  <2>1. ~(n < m) /\ ~(m < n)
    BY <1>6, <1>7
  <2> QED
    BY <2>1
<1> QED
  BY <1>5, <1>7 DEF Apart

\* The sheets of the tables that came have names apart.
LEMMA SheetsAreApart ==
  ASSUME tables \in Exports, NEW N \in Nat, N <= Len(Numerals),
         NEW places \in [1..N -> DOMAIN tables]
  PROVE  Apart(SheetNames(places), N)
<1> DEFINE F(g) == [n \in 0..N |-> IF n = 0 THEN {}
                                   ELSE g[n - 1] \cup {SheetName(tables[places[n]], g[n - 1])}]
           taken == CHOOSE g : g = F(g)
           raws == [n \in 1..N |-> tables[places[n]]]
<1>1. Len(places) = N
  OBVIOUS
<1>2. SheetNames(places) = [n \in 1..N |-> SheetName(tables[places[n]], taken[n - 1])]
  BY <1>1 DEF SheetNames
<1>3. ASSUME NEW g, Taking(raws, N, g) PROVE g = F(g)
  <2>1. g = [n \in 0..N |-> IF n = 0 THEN {} ELSE g[n - 1] \cup {SheetName(raws[n], g[n - 1])}]
    BY <1>3 DEF Taking
  <2>2. \A n \in 0..N : n # 0 => raws[n] = tables[places[n]]
    OBVIOUS
  <2> HIDE DEF raws
  <2> QED
    BY <2>1, <2>2
<1>4. taken = F(taken)
  <2>1. \E g : Taking(raws, N, g)
    BY NamesAreTaken
  <2>2. \E g : g = F(g)
    BY <1>3, <2>1
  <2> HIDE DEF F
  <2> QED
    BY <2>2
<1> HIDE DEF taken
<1>5. Taking(raws, N, taken)
  <2>1. \A n \in 0..N : n # 0 => raws[n] = tables[places[n]]
    OBVIOUS
  <2> HIDE DEF raws
  <2> QED
    BY <1>4, <2>1 DEF Taking
<1>6. tables \in Seq(Text)
  BY NumeralsAreCharacters
<1>7. \A n \in 1..N : raws[n] \in Text
  BY <1>6
<1>8. PICK names : names = SheetNames(places)
  OBVIOUS
<1>9. \A n \in 1..N : names[n] = SheetName(raws[n], taken[n - 1])
  BY <1>2, <1>8
<1> HIDE DEF raws
<1>10. Apart(names, N)
  BY <1>5, <1>7, <1>9, NamesAreApart
<1> QED
  BY <1>8, <1>10

-----------------------------------------------------------------------------
(* A download answers for tables of the batch only.                        *)
DownloadInv ==
    /\ tables \in Exports /\ finished \subseteq DOMAIN tables
    /\ job = [live |-> job.live, format |-> job.format, answer |-> job.answer]
    /\ DOMAIN job.answer \subseteq DOMAIN tables

\* The first state.
LEMMA DownloadStart == DownloadInit => DownloadInv
<1> SUFFICES ASSUME DownloadInit PROVE DownloadInv
  OBVIOUS
<1>1. job = NoJob /\ DOMAIN NoJob.answer = {}
  BY DEF DownloadInit, NoJob
<1> QED
  BY <1>1 DEF DownloadInit, DownloadInv, NoJob

\* Every step.
LEMMA DownloadStep == DownloadInv /\ [DownloadNext]_downloadVars => DownloadInv'
<1> SUFFICES ASSUME DownloadInv, [DownloadNext]_downloadVars PROVE DownloadInv'
  OBVIOUS
<1> USE DEF DownloadInv
<1>1. CASE DialogOpened \/ DialogClosed \/ FormatChosen \/ UNCHANGED downloadVars
  BY <1>1 DEF DialogOpened, DialogClosed, FormatChosen, downloadVars
<1>2. CASE TableFinished
  BY <1>2 DEF TableFinished
<1>3. CASE DownloadClicked
  <2>1. /\ UNCHANGED <<tables, finished>>
        /\ job' = [live |-> TRUE, format |-> dialog.format, answer |-> [i \in finished |-> "asked"]]
    BY <1>3 DEF DownloadClicked
  <2>2. DOMAIN job'.answer = finished
    BY <2>1
  <2> QED
    BY <2>1, <2>2
<1>4. CASE TableAnswered
  <2>1. PICK i \in DOMAIN job.answer, said \in {"came", "missing"} :
           job' = [job EXCEPT !.answer[i] = said] /\ UNCHANGED <<tables, finished>>
    BY <1>4 DEF TableAnswered
  <2>2. job' = [live |-> job.live, format |-> job.format, answer |-> [job.answer EXCEPT ![i] = said]]
    BY <2>1
  <2>3. DOMAIN job'.answer = DOMAIN job.answer
    BY <2>2
  <2> QED
    BY <2>1, <2>2, <2>3
<1>5. CASE DownloadEnds
  <2>1. tables' = tables /\ finished' = finished /\ job' = NoJob
    BY <1>5 DEF DownloadEnds
  <2>2. DOMAIN job'.answer = {} /\ job' = [live |-> job'.live, format |-> job'.format, answer |-> job'.answer]
    BY <2>1 DEF NoJob
  <2> QED
    BY <2>1, <2>2
<1> QED
  BY <1>1, <1>2, <1>3, <1>4, <1>5 DEF DownloadNext

\* What came is some tables of the batch, so their names are apart.
LEMMA CameApart == DownloadInv => TabsAreApart
<1> SUFFICES ASSUME DownloadInv PROVE TabsAreApart
  OBVIOUS
<1> USE DEF DownloadInv
<1> DEFINE N == Cardinality(Came)
           places == InOrder(Came)
<1>1. /\ tables \in Seq(Text) /\ Len(tables) \in Nat /\ DOMAIN tables = 1..Len(tables)
      /\ Len(tables) <= Len(Numerals)
  BY NumeralsAreCharacters
<1>2. Came \in SUBSET (1..Len(tables))
  BY <1>1 DEF Came
<1>3. Came \in SUBSET Nat /\ IsFiniteSet(Came) /\ N <= Len(tables)
  <2>1. IsFiniteSet(1..Len(tables)) /\ Cardinality(1..Len(tables)) = Len(tables)
    BY <1>1, FS_Interval
  <2> QED
    BY <1>2, <2>1, FS_Subset
<1>4. N \in Nat /\ places \in [1..N -> Came]
  BY <1>3, InOrderRises
<1>5. PICK o : o = places
  OBVIOUS
<1>6. PICK K : K = N
  OBVIOUS
<1> HIDE DEF N, places
<1>7. o \in [1..K -> DOMAIN tables] /\ K \in Nat /\ K <= Len(Numerals)
  <2>1. Len(Numerals) \in Nat
    BY NumeralsAreCharacters
  <2> QED
    BY <1>1, <1>2, <1>3, <1>4, <1>5, <1>6, <2>1
<1>8. Apart(SheetNames(o), K)
  BY <1>7, SheetsAreApart
<1>9. DOMAIN SheetNames(o) = 1..K
  <2>1. Len(o) = K
    BY <1>7
  <2> QED
    BY <2>1 DEF SheetNames
<1> QED
  BY <1>5, <1>8, <1>9 DEF TabsAreApart, Apart, places

(* The tables that come to a workbook are given names of their own, no     *)
(* longer than a tab may be, for any number of tables and whatever their   *)
(* files are called: each name is sought among those given before it       *)
(* (sheetName of lib/xlsx.ts).  Names apart are so as sheetName compares   *)
(* them, in letters of either case.                                        *)
THEOREM SheetsHaveTabsOfTheirOwn == DownloadSpec => []TabsAreApart
<1> QED
  BY CameApart, DownloadStart, DownloadStep, PTL DEF DownloadSpec

-----------------------------------------------------------------------------
(* The table on screen.  A filter in force is one a person could have made *)
(* for its column; a cell and what is on screen of it are of one text; and *)
(* a reader and the parsers agree on the texts there are.                  *)

\* A filter of a column of a type, finished or not.
Draft(type) == [op : Offered(type), value : Operands[type] \cup {<<>>}, value2 : Operands[type] \cup {<<>>}]

TableInv ==
    /\ \E t \in Tables : typeOf = t.types /\ records = t.records
    /\ merged \in BOOLEAN
    /\ \A f \in columnFilters : f.id \in ColumnIds /\ f.value \in Draft(TypeOfColumn(f.id)) /\ IsApplied(f.value)
    /\ \A f \in form : /\ f = [id |-> f.id, draft |-> f.draft]
                       /\ f.id \in ColumnIds /\ f.draft \in Draft(TypeOfColumn(f.id))

\* What a person may choose for a field of a type.
LEMMA OfferedOperators ==
  /\ Offered("text") = {"contains", "notContains", "is", "isNot", "isEmpty", "isNotEmpty"}
  /\ Offered("number") = {"gt", "lt", "gte", "lte", "eq", "between", "isEmpty"}
  /\ Offered("currency") = {"gt", "lt", "gte", "lte", "eq", "between", "isEmpty"}
  /\ Offered("date") = {"after", "before", "on", "between", "isEmpty"}
  /\ Offered("boolean") = {"isYes", "isNo", "isEmpty"}
  /\ Offered("list") = {"hasItem", "lacksItem", "isEmpty"}
<1>1. Offered("text") = {"contains", "notContains", "is", "isNot", "isEmpty", "isNotEmpty"}
  <2>1. Operators("text") = <<"contains", "notContains", "is", "isNot", "isEmpty", "isNotEmpty">>
    BY DEF Operators
  <2>2. DOMAIN <<"contains", "notContains", "is", "isNot", "isEmpty", "isNotEmpty">> = 1..6
    OBVIOUS
  <2> QED
    BY <2>1, <2>2 DEF Offered
<1>2. \A type \in {"number", "currency"} : Offered(type) = {"gt", "lt", "gte", "lte", "eq", "between", "isEmpty"}
  <2> SUFFICES ASSUME NEW type \in {"number", "currency"}
               PROVE  Offered(type) = {"gt", "lt", "gte", "lte", "eq", "between", "isEmpty"}
    OBVIOUS
  <2>1. Operators(type) = <<"gt", "lt", "gte", "lte", "eq", "between", "isEmpty">>
    BY DEF Operators, NumericOperators
  <2>2. DOMAIN <<"gt", "lt", "gte", "lte", "eq", "between", "isEmpty">> = 1..7
    OBVIOUS
  <2> QED
    BY <2>1, <2>2 DEF Offered
<1>3. Offered("date") = {"after", "before", "on", "between", "isEmpty"}
  <2>1. Operators("date") = <<"after", "before", "on", "between", "isEmpty">>
    BY DEF Operators
  <2>2. DOMAIN <<"after", "before", "on", "between", "isEmpty">> = 1..5
    OBVIOUS
  <2> QED
    BY <2>1, <2>2 DEF Offered
<1>4. Offered("boolean") = {"isYes", "isNo", "isEmpty"}
  <2>1. Operators("boolean") = <<"isYes", "isNo", "isEmpty">>
    BY DEF Operators
  <2>2. DOMAIN <<"isYes", "isNo", "isEmpty">> = 1..3
    OBVIOUS
  <2> QED
    BY <2>1, <2>2 DEF Offered
<1>5. Offered("list") = {"hasItem", "lacksItem", "isEmpty"}
  <2>1. Operators("list") = <<"hasItem", "lacksItem", "isEmpty">>
    BY DEF Operators
  <2>2. DOMAIN <<"hasItem", "lacksItem", "isEmpty">> = 1..3
    OBVIOUS
  <2> QED
    BY <2>1, <2>2 DEF Offered
<1> QED
  BY <1>1, <1>2, <1>3, <1>4, <1>5

\* The operator a new filter starts with is among those offered.
LEMMA FirstIsOffered == \A type \in FieldTypes : Operators(type)[1] \in Offered(type)
<1> SUFFICES ASSUME NEW type \in FieldTypes PROVE Operators(type)[1] \in Offered(type)
  OBVIOUS
<1>1. 1 \in DOMAIN Operators(type)
  <2>1. CASE type = "text"
    BY <2>1 DEF Operators
  <2>2. CASE type \in {"number", "currency"}
    BY <2>2 DEF Operators, NumericOperators
  <2>3. CASE type = "date"
    BY <2>3 DEF Operators
  <2>4. CASE type = "boolean"
    BY <2>4 DEF Operators
  <2>5. CASE type = "list"
    BY <2>5 DEF Operators
  <2> QED
    BY <2>1, <2>2, <2>3, <2>4, <2>5 DEF FieldTypes
<1> QED
  BY <1>1 DEF Offered

\* A column is of a type, whichever it is.
LEMMA ColumnsAreTyped == TableInv => \A id \in ColumnIds : TypeOfColumn(id) \in FieldTypes
<1> SUFFICES ASSUME TableInv, NEW id \in ColumnIds PROVE TypeOfColumn(id) \in FieldTypes
  OBVIOUS
<1>1. PICK t \in Tables : typeOf = t.types
  BY DEF TableInv
<1>2. typeOf \in [Keys -> FieldTypes]
  BY <1>1, TableViewAssumption
<1>3. CASE id = SOURCE_ID
  BY <1>3 DEF TypeOfColumn, FieldTypes
<1>4. CASE id # SOURCE_ID
  <2>1. id \in Keys
    BY <1>4 DEF ColumnIds
  <2> QED
    BY <1>2, <1>4, <2>1 DEF TypeOfColumn
<1> QED
  BY <1>3, <1>4

\* The first state.
LEMMA TableStart == Init => TableInv
BY DEF Init, TableInv

\* What SetFilter leaves in force, of filters that were and of one that is made.
LEMMA FilterSet ==
  ASSUME TableInv, UNCHANGED <<table, form>>, NEW id \in ColumnIds, NEW values,
         \A v \in values : v \in Draft(TypeOfColumn(id)), SetFilter(id, values)
  PROVE  TableInv'
<1>1. \A f \in columnFilters' : \/ f \in columnFilters
                                \/ \E v \in values : f = [id |-> id, value |-> v] /\ IsApplied(v)
  BY DEF SetFilter
<1>2. ASSUME NEW f \in columnFilters'
      PROVE  f.id \in ColumnIds /\ f.value \in Draft(TypeOfColumn(f.id)) /\ IsApplied(f.value)
  <2>1. CASE f \in columnFilters
    BY <2>1 DEF TableInv
  <2>2. ASSUME NEW v \in values, f = [id |-> id, value |-> v], IsApplied(v)
        PROVE  f.id \in ColumnIds /\ f.value \in Draft(TypeOfColumn(f.id)) /\ IsApplied(f.value)
    BY <2>2
  <2> QED
    BY <1>1, <2>1, <2>2
<1> QED
  BY <1>2 DEF TableInv, table, ColumnIds, TypeOfColumn


\* A step that changes the open form alone, and leaves in it a draft for a column.
LEMMA FormGoesOn ==
  ASSUME TableInv, UNCHANGED <<table, columnFilters>>,
         \A f \in form' : /\ f = [id |-> f.id, draft |-> f.draft]
                          /\ f.id \in ColumnIds /\ f.draft \in Draft(TypeOfColumn(f.id))
  PROVE  TableInv'
BY DEF TableInv, table, ColumnIds, TypeOfColumn

\* Every step keeps filters and drafts such as a person can make.
LEMMA TableStep == TableInv /\ [Next]_vars => TableInv'
<1> SUFFICES ASSUME TableInv, [Next]_vars PROVE TableInv'
  OBVIOUS
<1>1. \A f \in form : /\ f = [id |-> f.id, draft |-> f.draft]
                      /\ f.id \in ColumnIds /\ f.draft \in Draft(TypeOfColumn(f.id))
  BY DEF TableInv
<1>2. \A f \in columnFilters : f.id \in ColumnIds /\ f.value \in Draft(TypeOfColumn(f.id)) /\ IsApplied(f.value)
  BY DEF TableInv
<1>3. CASE UNCHANGED <<table, columnFilters, form>>
  BY <1>1, <1>3, FormGoesOn
<1>4. CASE UNCHANGED <<table, columnFilters>> /\ form' = {}
  BY <1>4, FormGoesOn
<1>5. CASE Opened \/ OpeningFailed \/ Reload \/ SearchTyped \/ Rerendered \/ UNCHANGED vars
  BY <1>3, <1>5 DEF Opened, OpeningFailed, Reload, SearchTyped, Rerendered, vars
<1>6. CASE Dropped \/ ArrowPressed
  BY <1>3, <1>6 DEF Dropped, ArrowPressed, MoveColumn
<1>7. CASE FormOpened
  <2>1. PICK id \in ColumnIds : \E draft \in IF InForce(id) # {} THEN InForce(id)
                                            ELSE {Blank(Operators(TypeOfColumn(id))[1])} :
           form' = {[id |-> id, draft |-> draft]}
    BY <1>7 DEF FormOpened
  <2>2. PICK draft : /\ draft \in InForce(id) \/ draft = Blank(Operators(TypeOfColumn(id))[1])
                     /\ form' = {[id |-> id, draft |-> draft]}
    BY <2>1
  <2>3. draft \in Draft(TypeOfColumn(id))
    <3>1. CASE draft \in InForce(id)
      BY <1>2, <3>1 DEF InForce
    <3>2. CASE draft = Blank(Operators(TypeOfColumn(id))[1])
      <4>1. Operators(TypeOfColumn(id))[1] \in Offered(TypeOfColumn(id))
        BY ColumnsAreTyped, FirstIsOffered
      <4> QED
        BY <3>2, <4>1 DEF Blank, Draft
    <3> QED
      BY <2>2, <3>1, <3>2
  <2>4. UNCHANGED <<table, columnFilters>>
    BY <1>7 DEF FormOpened
  <2> QED
    BY <2>2, <2>3, <2>4, FormGoesOn
<1>8. CASE FormDismissed
  BY <1>4, <1>8 DEF FormDismissed
<1>9. ASSUME NEW f \in form, NEW draft, draft \in Draft(TypeOfColumn(f.id)), Redrafted(f, draft) PROVE TableInv'
  <2>1. f = [id |-> f.id, draft |-> f.draft] /\ f.id \in ColumnIds
    BY <1>1
  <2>2. form' = {[f EXCEPT !.draft = draft]} /\ UNCHANGED <<table, columnFilters>>
    BY <1>9 DEF Redrafted
  <2>3. PICK g : g = [id |-> f.id, draft |-> draft]
    OBVIOUS
  <2>4. form' = {g} /\ g.id = f.id /\ g.draft = draft /\ g = [id |-> g.id, draft |-> g.draft]
    BY <2>1, <2>2, <2>3
  <2>5. g.draft \in Draft(TypeOfColumn(g.id))
    BY <1>9, <2>4
  <2> QED
    BY <2>1, <2>2, <2>4, <2>5, FormGoesOn
<1>10. CASE OperatorChosen
  <2>1. PICK f \in form : \E op \in Offered(TypeOfColumn(f.id)) : Redrafted(f, Chosen(f.draft, op))
    BY <1>10 DEF OperatorChosen
  <2>4. PICK op \in Offered(TypeOfColumn(f.id)) : Redrafted(f, Chosen(f.draft, op))
    BY <2>1
  <2>2. f.draft \in Draft(TypeOfColumn(f.id))
    BY <1>1
  <2>3. Chosen(f.draft, op) \in Draft(TypeOfColumn(f.id))
    BY <2>2 DEF Chosen, Draft
  <2> QED
    BY <1>9, <2>3, <2>4
<1>11. CASE ValueTyped
  <2>1. PICK f \in form : \E text \in Operands[TypeOfColumn(f.id)] :
           \/ Redrafted(f, [f.draft EXCEPT !.value = text])
           \/ Redrafted(f, [f.draft EXCEPT !.value2 = text])
    BY <1>11 DEF ValueTyped
  <2>4. PICK text \in Operands[TypeOfColumn(f.id)] :
           \/ Redrafted(f, [f.draft EXCEPT !.value = text])
           \/ Redrafted(f, [f.draft EXCEPT !.value2 = text])
    BY <2>1
  <2>2. f.draft \in Draft(TypeOfColumn(f.id))
    BY <1>1
  <2>3. /\ [f.draft EXCEPT !.value = text] \in Draft(TypeOfColumn(f.id))
        /\ [f.draft EXCEPT !.value2 = text] \in Draft(TypeOfColumn(f.id))
    BY <2>2 DEF Draft
  <2> QED
    BY <1>9, <2>3, <2>4
<1>12. CASE FilterApplied
  <2>1. PICK f \in form : SetFilter(f.id, {f.draft}) /\ form' = {} /\ UNCHANGED table
    BY <1>12 DEF FilterApplied
  <2>2. f.id \in ColumnIds /\ f.draft \in Draft(TypeOfColumn(f.id))
    BY <1>1
  <2>3. \A g \in columnFilters' : g \in columnFilters \/ (g = [id |-> f.id, value |-> f.draft] /\ IsApplied(f.draft))
    BY <2>1 DEF SetFilter
  <2> QED
    BY <1>2, <2>1, <2>2, <2>3 DEF TableInv, table, ColumnIds, TypeOfColumn
<1>13. CASE FilterCleared \/ ChipRemoved \/ AllCleared
  <2>1. columnFilters' \subseteq columnFilters /\ UNCHANGED table /\ (form' = {} \/ form' = form)
    BY <1>13 DEF FilterCleared, ChipRemoved, AllCleared, SetFilter
  <2> QED
    BY <1>1, <1>2, <2>1 DEF TableInv, table, ColumnIds, TypeOfColumn
<1> QED
  BY <1>5, <1>6, <1>7, <1>8, <1>10, <1>11, <1>12, <1>13 DEF Next

-----------------------------------------------------------------------------
\* A text that is empty is so without the blanks around it.
LEMMA NothingToTrim == Trim(<<>>) = <<>>
<1>1. 1..Len(<<>>) = {}
  OBVIOUS
<1> QED
  BY <1>1 DEF Trim

\* A cell is what is on screen: blank, or of one text that is read as it is meant.
LEMMA CellIsShown ==
  ASSUME TableInv, NEW n \in DOMAIN records, NEW id \in ColumnIds
  PROVE  \/ IsBlank(CellFor(n, id)) /\ OnScreen(n, id) = <<>>
         \/ /\ ~IsBlank(CellFor(n, id)) /\ OnScreen(n, id) # <<>>
            /\ Trim(OnScreen(n, id)) = OnScreen(n, id)
            /\ id # SOURCE_ID => ReadAsMeant(TypeOfColumn(id), OnScreen(n, id))
            /\ \E c : CellFor(n, id) = {c} /\ c.text = OnScreen(n, id)
<1>1. PICK t \in Tables : typeOf = t.types /\ records = t.records
  BY DEF TableInv
<1>2. CASE id = SOURCE_ID
  <2>4. PICK c : c = Source(n)
    OBVIOUS
  <2>1. /\ CellFor(n, id) = {c} /\ c.text = Sources[n] /\ c.state = "value"
        /\ OnScreen(n, id) = Sources[n]
    BY <1>2, <2>4 DEF CellFor, Source, OnScreen
  <2>2. Trim(Sources[n]) = Sources[n]
    BY <1>1, TextsAreRead
  <2>3. IsBlank(CellFor(n, id)) <=> Sources[n] = <<>>
    BY <2>1, <2>2 DEF IsBlank
  <2> QED
    BY <1>2, <2>1, <2>2, <2>3
<1>3. CASE id # SOURCE_ID
  <2>1. id \in Keys /\ TypeOfColumn(id) = t.types[id]
    BY <1>1, <1>3 DEF ColumnIds, TypeOfColumn
  <2>2. PICK d : d = Display(records[n].data[id])
    OBVIOUS
  <2>3. ReadAsMeant(t.types[id], d)
    BY <1>1, <2>1, <2>2, TextsAreRead
  <2>4. Trim(d) = d
    BY <2>3 DEF ReadAsMeant
  <2>5. PICK c : c = Value(n, id)
    OBVIOUS
  <2>6. c.text = d /\ (c.state = "not-found" => d = <<>>)
    <3>1. c = ToCell(records[n].data[id], id \in records[n].flagged)
      BY <2>5 DEF Value
    <3> QED
      BY <2>2, <3>1 DEF ToCell
  <2>7. CASE Failed(n)
    <3>1. CellFor(n, id) = {} /\ OnScreen(n, id) = <<>>
      BY <1>3, <2>7 DEF CellFor, OnScreen
    <3> QED
      BY <3>1 DEF IsBlank
  <2>8. CASE ~Failed(n)
    <3>1. CellFor(n, id) = {c}
      BY <1>3, <2>5, <2>8 DEF CellFor
    <3>2. OnScreen(n, id) = d
      BY <1>3, <2>5, <2>6, <2>8 DEF OnScreen
    <3>3. IsBlank(CellFor(n, id)) <=> d = <<>>
      BY <2>4, <2>6, <3>1 DEF IsBlank
    <3> QED
      BY <2>1, <2>3, <2>4, <2>6, <3>1, <3>2, <3>3
  <2> QED
    BY <2>7, <2>8
<1> QED
  BY <1>2, <1>3

\* What a person typed and applied is read as meant.
LEMMA TypedIsRead ==
  ASSUME NEW type \in FieldTypes, NEW v \in Draft(type), IsApplied(v)
  PROVE  /\ Arity(v.op) > 0 => v.value \in Operands[type] /\ ReadAsMeant(type, v.value) /\ Trim(v.value) = v.value
         /\ Arity(v.op) > 1 => v.value2 \in Operands[type] /\ ReadAsMeant(type, v.value2)
<1>1. v.value \in Operands[type] \cup {<<>>} /\ v.value2 \in Operands[type] \cup {<<>>}
  BY DEF Draft
<1>2. \A text \in Operands[type] : Trim(text) = <<>> \/ ReadAsMeant(type, text)
  BY TextsAreRead
<1>3. /\ Arity(v.op) > 0 => Trim(v.value) # <<>>
      /\ Arity(v.op) > 1 => Trim(v.value2) # <<>>
  BY DEF IsApplied
<1>4. \A text : ReadAsMeant(type, text) => Trim(text) = text
  BY DEF ReadAsMeant
<1> QED
  BY <1>1, <1>2, <1>3, <1>4, NothingToTrim

\* What a reader says of a text and a filter: of figures and days, of yes and no,
\* of lists, of texts.
FiguresSay(shown, v) ==
    \/ v.op \in {"gt", "after"} /\ \E a \in Meant(shown), b \in Meant(v.value) : a > b
    \/ v.op \in {"lt", "before"} /\ \E a \in Meant(shown), b \in Meant(v.value) : a < b
    \/ v.op = "gte" /\ \E a \in Meant(shown), b \in Meant(v.value) : a >= b
    \/ v.op = "lte" /\ \E a \in Meant(shown), b \in Meant(v.value) : a <= b
    \/ v.op \in {"eq", "on"} /\ \E a \in Meant(shown), b \in Meant(v.value) : a = b
    \/ v.op = "between" /\ \E a \in Meant(shown), b \in Meant(v.value), c \in Meant(v.value2) :
          a \in {b, c} \/ (a > b) # (a > c)
AnswersSay(shown, v) ==
    \/ v.op = "isYes" /\ shown \in {<<"yes">>, <<"true">>, <<"1">>}
    \/ v.op = "isNo" /\ shown \in {<<"no">>, <<"false">>, <<"0">>}
ItemsSay(shown, v) ==
    \/ v.op = "hasItem" /\ v.value \in ReadAsList(shown)
    \/ v.op = "lacksItem" /\ shown # <<>> /\ v.value \notin ReadAsList(shown)
TextsSay(shown, v) ==
    \/ v.op = "contains" /\ shown # <<>> /\ Includes(shown, v.value)
    \/ v.op = "notContains" /\ shown # <<>> /\ ~Includes(shown, v.value)
    \/ v.op = "is" /\ shown = v.value
    \/ v.op = "isNot" /\ shown \notin {<<>>, v.value}
OfFigures == {"gt", "lt", "gte", "lte", "eq", "between", "after", "before", "on"}

\* Figures and days: the parsers compare as the reader does.
LEMMA FiguresAgree ==
  ASSUME NEW type \in {"number", "currency", "date"}, NEW v \in Draft(type), IsApplied(v),
         v.op # "isEmpty", NEW shown, ReadAsMeant(type, shown)
  PROVE  (\E cell \in Parsed(type, shown), operand \in Parsed(type, v.value) :
             Compare(cell, v.op, operand, Parsed(type, v.value2)))
         <=> FiguresSay(shown, v)
<1> USE DEF FiguresSay
<1>1. type \in FieldTypes
  BY DEF FieldTypes
<1>2. v.op \in {"gt", "lt", "gte", "lte", "eq", "between", "after", "before", "on"}
  BY OfferedOperators DEF Draft
<1>3. Arity(v.op) > 0 /\ (v.op = "between" => Arity(v.op) > 1)
  BY <1>2 DEF Arity
<1>4. v.value \in Operands[type] /\ ReadAsMeant(type, v.value)
  BY <1>1, <1>3, TypedIsRead
<1>5. v.op = "between" => v.value2 \in Operands[type] /\ ReadAsMeant(type, v.value2)
  BY <1>1, <1>3, TypedIsRead
<1> DEFINE Agree(p, q) == \A a \in Parsed(type, p), b \in Parsed(type, q), x \in Meant(p), y \in Meant(q) :
                             (a < b <=> x < y) /\ (a = b <=> x = y)
           Known(p) == Parsed(type, p) \subseteq Int /\ (Parsed(type, p) = {} <=> Meant(p) = {})
<1>6. \A p : ReadAsMeant(type, p) => Known(p) /\ \A q \in Operands[type] : Agree(p, q)
  BY DEF ReadAsMeant
<1>7. Known(shown) /\ Known(v.value) /\ Agree(shown, v.value)
  BY <1>4, <1>6
<1>8. v.op = "between" => Known(v.value2) /\ Agree(shown, v.value2)
  BY <1>5, <1>6
<1>9. \A p : Meant(p) \subseteq Int /\ \A x, y \in Meant(p) : x = y
  BY TextsAreRead DEF Meant
<1>10. CASE Parsed(type, shown) = {} \/ Parsed(type, v.value) = {}
  BY <1>7, <1>10
<1>11. CASE Parsed(type, shown) # {} /\ Parsed(type, v.value) # {}
  <2>1. PICK x, y : Meant(shown) = {x} /\ Meant(v.value) = {y} /\ x \in Int /\ y \in Int
    BY <1>7, <1>9, <1>11
  <2>2. \A a \in Parsed(type, shown), b \in Parsed(type, v.value) :
           a \in Int /\ b \in Int /\ (a < b <=> x < y) /\ (a = b <=> x = y)
    BY <1>7, <2>1
  <2>3. CASE v.op # "between"
    BY <1>2, <1>11, <2>1, <2>2, <2>3 DEF Compare
  <2>4. CASE v.op = "between"
    <3>1. CASE Parsed(type, v.value2) = {}
      BY <1>8, <2>4, <3>1 DEF Compare
    <3>2. CASE Parsed(type, v.value2) # {}
      <4>1. PICK z : Meant(v.value2) = {z} /\ z \in Int
        BY <1>8, <1>9, <2>4, <3>2
      <4>2. \A a \in Parsed(type, shown), c \in Parsed(type, v.value2) :
               a \in Int /\ c \in Int /\ (a < c <=> x < z) /\ (a = c <=> x = z)
        BY <1>7, <1>8, <2>1, <2>4, <4>1
      <4>3. (\E a \in Parsed(type, shown), b \in Parsed(type, v.value), c \in Parsed(type, v.value2) :
                 (b <= a /\ a <= c) \/ (c <= a /\ a <= b))
            <=> x \in {y, z} \/ (x > y) # (x > z)
        BY <1>11, <2>1, <2>2, <3>2, <4>1, <4>2
      <4> QED
        BY <2>1, <2>4, <4>1, <4>3 DEF Compare
    <3> QED
      BY <3>1, <3>2
  <2> QED
    BY <2>3, <2>4
<1> QED
  BY <1>10, <1>11


\* Yes and no, lists, and texts.
LEMMA AnswersAgree ==
  ASSUME NEW v \in Draft("boolean"), v.op # "isEmpty", NEW shown, Trim(shown) = shown
  PROVE  MatchesBoolean(shown, v) <=> AnswersSay(shown, v)
<1>1. v.op \in {"isYes", "isNo"}
  BY OfferedOperators DEF Draft
<1>2. {<<"yes">>, <<"true">>, <<"1">>} \cap {<<"no">>, <<"false">>, <<"0">>} = {}
  OBVIOUS
<1>3. /\ TRUE \in ParseBoolean(shown) <=> shown \in {<<"yes">>, <<"true">>, <<"1">>}
      /\ FALSE \in ParseBoolean(shown) <=> shown \in {<<"no">>, <<"false">>, <<"0">>}
  <2>1. CASE shown \in {<<"yes">>, <<"true">>, <<"1">>}
    <3>2. shown \notin {<<"no">>, <<"false">>, <<"0">>}
      BY <1>2, <2>1
    <3>1. ParseBoolean(shown) = {TRUE}
      BY <2>1, <3>2 DEF ParseBoolean
    <3> QED
      BY <1>2, <2>1, <3>1
  <2>2. CASE shown \in {<<"no">>, <<"false">>, <<"0">>}
    <3>1. shown \notin {<<"yes">>, <<"true">>, <<"1">>}
      BY <1>2, <2>2
    <3>2. ParseBoolean(shown) = {FALSE}
      BY <2>2, <3>1 DEF ParseBoolean
    <3> QED
      BY <2>2, <3>1, <3>2
  <2>3. CASE shown \notin {<<"yes">>, <<"true">>, <<"1">>} /\ shown \notin {<<"no">>, <<"false">>, <<"0">>}
    <3>1. ParseBoolean(shown) = {}
      BY <2>3 DEF ParseBoolean
    <3> QED
      BY <2>3, <3>1
  <2> QED
    BY <2>1, <2>2, <2>3
<1>4. CASE v.op = "isYes"
  <2>1. MatchesBoolean(shown, v) <=> TRUE \in ParseBoolean(shown)
    BY <1>4 DEF MatchesBoolean
  <2> QED
    BY <1>3, <1>4, <2>1 DEF AnswersSay
<1>5. CASE v.op = "isNo"
  <2>1. MatchesBoolean(shown, v) <=> FALSE \in ParseBoolean(shown)
    BY <1>5 DEF MatchesBoolean
  <2> QED
    BY <1>3, <1>5, <2>1 DEF AnswersSay
<1> QED
  BY <1>1, <1>4, <1>5

\* The same of what a list holds, and of texts.
LEMMA ItemsAgree ==
  ASSUME NEW v \in Draft("list"), IsApplied(v), v.op # "isEmpty", NEW shown, shown # <<>>,
         ReadAsMeant("list", shown)
  PROVE  MatchesList(shown, v) <=> ItemsSay(shown, v)
<1>1. v.op \in {"hasItem", "lacksItem"}
  BY OfferedOperators DEF Draft
<1>2. v.value \in Operands["list"] /\ Trim(v.value) = v.value
  BY <1>1, TypedIsRead DEF Arity, FieldTypes
<1>3. v.value \in ParseList(shown) <=> v.value \in ReadAsList(shown)
  BY <1>2 DEF ReadAsMeant
<1> QED
  BY <1>1, <1>2, <1>3 DEF MatchesList, ItemsSay

LEMMA TextsAgree ==
  ASSUME NEW v \in Draft("text"), IsApplied(v), v.op # "isEmpty", v.op # "isNotEmpty", NEW shown, shown # <<>>
  PROVE  MatchesText(shown, v) <=> TextsSay(shown, v)
<1>1. v.op \in {"contains", "notContains", "is", "isNot"}
  BY OfferedOperators DEF Draft
<1>2. Trim(v.value) = v.value
  BY <1>1, TypedIsRead DEF Arity, FieldTypes
<1> QED
  BY <1>1, <1>2 DEF MatchesText, TextsSay

\* What the reader says, operator by operator.
LEMMA ReaderSaysOfBlanks ==
  ASSUME NEW n, NEW f
  PROVE  /\ f.value.op = "isEmpty" => (ReaderAgrees(n, f) <=> OnScreen(n, f.id) = <<>>)
         /\ f.value.op = "isNotEmpty" => (ReaderAgrees(n, f) <=> OnScreen(n, f.id) # <<>>)
BY DEF ReaderAgrees

LEMMA ReaderSaysOfFigures ==
  ASSUME NEW n, NEW f, f.value.op \in OfFigures
  PROVE  ReaderAgrees(n, f) <=> FiguresSay(OnScreen(n, f.id), f.value)
<1>1. CASE f.value.op \in {"gt", "after"}
  BY <1>1 DEF ReaderAgrees, FiguresSay
<1>2. CASE f.value.op \in {"lt", "before"}
  BY <1>2 DEF ReaderAgrees, FiguresSay
<1>3. CASE f.value.op \in {"gte", "lte"}
  BY <1>3 DEF ReaderAgrees, FiguresSay
<1>4. CASE f.value.op \in {"eq", "on"}
  BY <1>4 DEF ReaderAgrees, FiguresSay
<1>5. CASE f.value.op = "between"
  BY <1>5 DEF ReaderAgrees, FiguresSay
<1> QED
  BY <1>1, <1>2, <1>3, <1>4, <1>5 DEF OfFigures

LEMMA ReaderSaysOfOthers ==
  ASSUME NEW n, NEW f
  PROVE  /\ f.value.op \in {"isYes", "isNo"} => (ReaderAgrees(n, f) <=> AnswersSay(OnScreen(n, f.id), f.value))
         /\ f.value.op \in {"hasItem", "lacksItem"} =>
              (ReaderAgrees(n, f) <=> ItemsSay(OnScreen(n, f.id), f.value))
         /\ f.value.op \in {"contains", "notContains", "is", "isNot"} =>
              (ReaderAgrees(n, f) <=> TextsSay(OnScreen(n, f.id), f.value))
<1>1. ASSUME f.value.op \in {"isYes", "isNo"}
      PROVE  ReaderAgrees(n, f) <=> AnswersSay(OnScreen(n, f.id), f.value)
  BY <1>1 DEF ReaderAgrees, AnswersSay
<1>2. ASSUME f.value.op \in {"hasItem", "lacksItem"}
      PROVE  ReaderAgrees(n, f) <=> ItemsSay(OnScreen(n, f.id), f.value)
  BY <1>2 DEF ReaderAgrees, ItemsSay
<1>3. ASSUME f.value.op \in {"contains", "notContains", "is", "isNot"}
      PROVE  ReaderAgrees(n, f) <=> TextsSay(OnScreen(n, f.id), f.value)
  BY <1>3 DEF ReaderAgrees, TextsSay
<1> QED
  BY <1>1, <1>2, <1>3

\* A cell passes a filter in force when what is on screen of it does.
LEMMA PassesAsShown ==
  ASSUME TableInv, NEW n \in DOMAIN records, NEW f \in columnFilters
  PROVE  Matches(TypeOfColumn(f.id), CellFor(n, f.id), f.value) <=> ReaderAgrees(n, f)
<1>1. PICK v, type, shown : v = f.value /\ type = TypeOfColumn(f.id) /\ shown = OnScreen(n, f.id)
  OBVIOUS
<1>2. f.id \in ColumnIds /\ v \in Draft(type) /\ IsApplied(v) /\ type \in FieldTypes
  BY <1>1, ColumnsAreTyped DEF TableInv
<1>3. PICK cell : cell = CellFor(n, f.id)
  OBVIOUS
<1>4. \/ IsBlank(cell) /\ shown = <<>>
      \/ /\ ~IsBlank(cell) /\ shown # <<>> /\ Trim(shown) = shown
         /\ f.id # SOURCE_ID => ReadAsMeant(type, shown)
         /\ \E c : cell = {c} /\ c.text = shown
  BY <1>1, <1>2, <1>3, CellIsShown
<1> DEFINE Says == ReaderAgrees(n, f)
<1> HIDE DEF Says
<1>5. SUFFICES Matches(type, cell, v) <=> Says
  BY <1>1, <1>3 DEF Says
<1>6. /\ v.op = "isEmpty" => (Says <=> shown = <<>>)
      /\ v.op = "isNotEmpty" => (Says <=> shown # <<>>)
  BY <1>1, ReaderSaysOfBlanks DEF Says
<1>7. v.op \in OfFigures => (Says <=> FiguresSay(shown, v))
  BY <1>1, ReaderSaysOfFigures DEF Says
<1>8. /\ v.op \in {"isYes", "isNo"} => (Says <=> AnswersSay(shown, v))
      /\ v.op \in {"hasItem", "lacksItem"} => (Says <=> ItemsSay(shown, v))
      /\ v.op \in {"contains", "notContains", "is", "isNot"} => (Says <=> TextsSay(shown, v))
  BY <1>1, ReaderSaysOfOthers DEF Says
<1>9. CASE v.op \in {"isEmpty", "isNotEmpty"}
  <2>2. Matches(type, cell, v) <=> \/ v.op = "isEmpty" /\ IsBlank(cell)
                                   \/ v.op = "isNotEmpty" /\ ~IsBlank(cell)
    BY <1>9 DEF Matches
  <2> QED
    BY <1>4, <1>9, <1>6, <2>2
<1>10. CASE v.op \notin {"isEmpty", "isNotEmpty"} /\ IsBlank(cell)
  <2>1. ~Matches(type, cell, v) /\ shown = <<>>
    BY <1>4, <1>10 DEF Matches
  <2>2. Meant(shown) = {}
    BY <2>1, TextsAreRead DEF Meant
  <2>3. /\ shown \notin {<<"yes">>, <<"true">>, <<"1">>} /\ shown \notin {<<"no">>, <<"false">>, <<"0">>}
        /\ ReadAsList(shown) = {}
    BY <2>1 DEF ReadAsList
  <2>4. v.op \in OfFigures \/ v.op \in {"isYes", "isNo"}
        \/ v.op \in {"hasItem", "lacksItem"} \/ v.op \in {"contains", "notContains", "is", "isNot"}
    BY <1>2, <1>10, OfferedOperators DEF FieldTypes, Draft, OfFigures
  <2>5. v.op = "is" => shown # v.value
    <3>1. v.op = "is" => Trim(v.value) # <<>>
      BY <1>2 DEF IsApplied, Arity
    <3> QED
      BY <2>1, <3>1, NothingToTrim
  <2>6. CASE v.op \in OfFigures
    <3>1. ~Says
      BY <1>7, <2>2, <2>6 DEF FiguresSay
    <3> QED
      BY <2>1, <3>1
  <2>7. CASE v.op \in {"isYes", "isNo"}
    <3>1. ~Says
      BY <1>8, <2>3, <2>7 DEF AnswersSay
    <3> QED
      BY <2>1, <3>1
  <2>8. CASE v.op \in {"hasItem", "lacksItem"}
    <3>1. ~Says
      BY <1>8, <2>1, <2>3, <2>8 DEF ItemsSay
    <3> QED
      BY <2>1, <3>1
  <2>9. CASE v.op \in {"contains", "notContains", "is", "isNot"}
    <3>1. ~Says
      BY <1>8, <2>1, <2>5, <2>9 DEF TextsSay
    <3> QED
      BY <2>1, <3>1
  <2> QED
    BY <2>4, <2>6, <2>7, <2>8, <2>9
<1>11. CASE v.op \notin {"isEmpty", "isNotEmpty"} /\ ~IsBlank(cell)
  <2>1. /\ shown # <<>> /\ Trim(shown) = shown
        /\ f.id # SOURCE_ID => ReadAsMeant(type, shown)
    BY <1>4, <1>11
  <2>2. PICK c : cell = {c} /\ c.text = shown
    BY <1>4, <1>11
  <2>3. Trim(c.text) = shown
    BY <2>1, <2>2
  <2>4. type # "text" => f.id # SOURCE_ID
    BY <1>1 DEF TypeOfColumn
  <2>5. CASE type \in {"number", "currency", "date"}
    <3>1. v.op \in OfFigures
      BY <1>2, <1>11, <2>5, OfferedOperators DEF Draft, OfFigures
    <3>2. Matches(type, cell, v) <=> \E a \in Parsed(type, shown), b \in Parsed(type, v.value) :
                                        Compare(a, v.op, b, Parsed(type, v.value2))
      <4>1. CASE type = "date"
        BY <1>11, <2>2, <2>3, <4>1 DEF Matches, MatchesParsed, Parsed
      <4>2. CASE type \in {"number", "currency"}
        BY <1>11, <2>2, <2>3, <4>2 DEF Matches, MatchesParsed, Parsed
      <4> QED
        BY <2>5, <4>1, <4>2
    <3>3. ReadAsMeant(type, shown)
      BY <2>1, <2>4, <2>5
    <3> QED
      BY <1>2, <1>11, <1>7, <2>5, <3>1, <3>2, <3>3, FiguresAgree
  <2>6. CASE type = "boolean"
    <3>1. v.op \in {"isYes", "isNo"}
      BY <1>2, <1>11, <2>6, OfferedOperators DEF Draft
    <3>2. Matches(type, cell, v) <=> MatchesBoolean(shown, v)
      BY <1>11, <2>2, <2>3, <2>6 DEF Matches
    <3> QED
      BY <1>2, <1>11, <1>8, <2>1, <2>6, <3>1, <3>2, AnswersAgree
  <2>7. CASE type = "list"
    <3>1. v.op \in {"hasItem", "lacksItem"}
      BY <1>2, <1>11, <2>7, OfferedOperators DEF Draft
    <3>2. Matches(type, cell, v) <=> MatchesList(shown, v)
      BY <1>11, <2>2, <2>3, <2>7 DEF Matches
    <3>3. ReadAsMeant("list", shown)
      BY <2>1, <2>4, <2>7
    <3> QED
      BY <1>2, <1>11, <1>8, <2>1, <2>7, <3>1, <3>2, <3>3, ItemsAgree
  <2>8. CASE type = "text"
    <3>1. v.op \in {"contains", "notContains", "is", "isNot"}
      BY <1>2, <1>11, <2>8, OfferedOperators DEF Draft
    <3>2. Matches(type, cell, v) <=> MatchesText(shown, v)
      BY <1>11, <2>2, <2>3, <2>8 DEF Matches
    <3> QED
      BY <1>2, <1>11, <1>8, <2>1, <2>8, <3>1, <3>2, TextsAgree
  <2> QED
    BY <1>2, <2>5, <2>6, <2>7, <2>8 DEF FieldTypes
<1> QED
  BY <1>9, <1>10, <1>11

(* Without a search, the rows of a table on screen are those that a reader *)
(* would say pass every chip: for any table, any filters made in any order *)
(* and however many, with failed rows, marked cells and a source column,   *)
(* whenever the parsers read the texts there are as they are meant         *)
(* (filterFn of DataTable.tsx, ColumnFilter.tsx, matches of lib/filters.ts)*)
THEOREM RowsPassTheChips == Spec => []ShownPassesTheChips
<1>1. TableInv => ShownPassesTheChips
  <2> SUFFICES ASSUME TableInv, search = <<>>
               PROVE  ModelRows = {n \in DOMAIN records : \A f \in columnFilters : ReaderAgrees(n, f)}
    BY DEF ShownPassesTheChips
  <2>1. \A n : Found(n)
    BY DEF Found
  <2>2. \A n \in DOMAIN records : \A f \in columnFilters :
           Matches(TypeOfColumn(f.id), CellFor(n, f.id), f.value) <=> ReaderAgrees(n, f)
    BY PassesAsShown
  <2>3. ModelRows = {n \in DOMAIN records :
                        \A f \in columnFilters : Matches(TypeOfColumn(f.id), CellFor(n, f.id), f.value)}
    BY <2>1 DEF ModelRows
  <2> QED
    BY <2>2, <2>3
<1> QED
  BY <1>1, TableStart, TableStep, PTL DEF Spec
=============================================================================
