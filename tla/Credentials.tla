---------------------------- MODULE Credentials ----------------------------
(***************************************************************************)
(* What the calls of a warm instance of the API share: the Google          *)
(* credentials (server/gcp-auth.ts) that objects are signed and looked up  *)
(* with (server/storage.ts) and the pool of database connections           *)
(* (server/db/client.ts).  Calls overlap; the credential is two files in   *)
(* the temporary directory and a variable of the process, written by       *)
(* whichever call finds that its token is not the last one written.  Tokens*)
(* are of one length, so nothing shows of one that is written over.        *)
(***************************************************************************)
EXTENDS Naturals, FiniteSets

CONSTANTS
    ApiCalls,
    MaxToken      \* bound: how often the platform gives out a new token

ASSUME CredentialsAssumption == MaxToken \in Nat \ {0}

VARIABLES
    federated,    \* the four variables of the federation are set
    token,        \* the token the platform hands to a call that asks now
    lastToken,    \* the module's own: the last one written, 0 for null
    tokenFile,    \* what it holds: {0} before the first, {} while it is written, then a token
    configFile,   \* "none", "torn" or "whole"
    cut,          \* the files whose last write was broken off: "token", "config"
    pointed,      \* GOOGLE_APPLICATION_CREDENTIALS names the config file
    client,       \* the exchanger for the other clients: "unset", "none" or "built"
    pool,         \* whether the module has its pool
    connecting,   \* the promise of one: "none", "promised" or "failed"
    creating,     \* how many create()s are under way
    pools,        \* how many pools were made
    api           \* [ApiCalls -> where a call is, what for, and the token it holds]

poolVars == <<pool, connecting, creating, pools>>
credentialVars == <<federated, token, lastToken, tokenFile, configFile, cut, pointed, client, poolVars, api>>

Resting == [at |-> "resting", does |-> "sign", token |-> 0]
Writing == [f \in {"token", "config"} |->
    IF f = "token" THEN "writing the token" ELSE "writing the config"]
Goes(c, at) == api' = [api EXCEPT ![c].at = at]

(* A call that signs or looks up goes through bucket(), which without the  *)
(* federation has nothing to write; one that publishes needs the exchanger *)
(* and one that queries the pool.                                          *)
CallBegins(c) ==
    /\ api[c].at = "resting"
    /\ \E does \in {"sign", "stat", "publish", "query"} :
          api' = [api EXCEPT ![c] = [Resting EXCEPT !.does = does,
                     !.at = CASE does = "publish" -> "exchanging"
                              [] does = "query" -> "pooling"
                              [] OTHER -> IF federated THEN "asking" ELSE "ready"]]
    /\ UNCHANGED <<federated, token, lastToken, tokenFile, configFile, cut, pointed, client, poolVars>>

(***************************************************************************)
(* The two files (writeAdcCredentials)                                     *)
(***************************************************************************)
TokenArrives(c) ==
    /\ api[c].at = "asking" /\ api' = [api EXCEPT ![c].token = token, ![c].at = "comparing"]
    /\ UNCHANGED <<federated, token, lastToken, tokenFile, configFile, cut, pointed, client, poolVars>>
\* Mutation: the token is noted before it is written.
ComparesAndNotes(c) ==
    /\ api[c].at = "comparing" /\ lastToken' = api[c].token
    /\ Goes(c, IF api[c].token = lastToken THEN "ready" ELSE "opening the token")
    /\ UNCHANGED <<federated, token, tokenFile, configFile, cut, pointed, client, poolVars>>
Compares(c) ==
    /\ api[c].at = "comparing"
    /\ Goes(c, IF api[c].token = lastToken THEN "ready" ELSE "opening the token")
    /\ UNCHANGED <<federated, token, lastToken, tokenFile, configFile, cut, pointed, client, poolVars>>
(* writeFile empties a file and then fills it.                             *)
OpensTokenFile(c) ==
    /\ api[c].at = "opening the token" /\ Goes(c, "writing the token")
    /\ tokenFile' = {} /\ cut' = cut \ {"token"}
    /\ UNCHANGED <<federated, token, lastToken, configFile, pointed, client, poolVars>>
WritesTokenFile(c) ==
    /\ api[c].at = "writing the token" /\ Goes(c, "opening the config")
    /\ tokenFile' = {api[c].token} /\ cut' = cut \ {"token"}
    /\ UNCHANGED <<federated, token, lastToken, configFile, pointed, client, poolVars>>
OpensConfigFile(c) ==
    /\ api[c].at = "opening the config" /\ Goes(c, "writing the config")
    /\ configFile' = "torn" /\ cut' = cut \ {"config"}
    /\ UNCHANGED <<federated, token, lastToken, tokenFile, pointed, client, poolVars>>
WritesConfigFile(c) ==
    /\ api[c].at = "writing the config" /\ Goes(c, "ready")
    /\ configFile' = "whole" /\ cut' = cut \ {"config"}
    /\ pointed' = TRUE /\ lastToken' = api[c].token
    /\ UNCHANGED <<federated, token, tokenFile, client, poolVars>>

(***************************************************************************)
(* The exchanger (gcpAuthClient): nothing is kept of one that failed, and  *)
(* two first calls build one each.                                         *)
(***************************************************************************)
Exchanger == IF client = "unset" THEN IF federated THEN "built" ELSE "none" ELSE client
ClientBuilt(c) ==
    /\ api[c].at = "exchanging" /\ client' = Exchanger /\ Goes(c, "ready")
    /\ UNCHANGED <<federated, token, lastToken, tokenFile, configFile, cut, pointed, poolVars>>

(***************************************************************************)
(* The pool (getPool): a promise of it is shared, and a failed one kept.   *)
(***************************************************************************)
\* Mutation: the promise is not looked at.
AwaitsPoolAnew(c) ==
    /\ api[c].at = "pooling"
    /\ IF pool THEN Goes(c, "ready") /\ UNCHANGED <<connecting, creating>>
       ELSE Goes(c, "awaiting") /\ creating' = creating + 1 /\ connecting' = "promised"
    /\ UNCHANGED <<federated, token, lastToken, tokenFile, configFile, cut, pointed, client, pool, pools>>
AwaitsPool(c) ==
    /\ api[c].at = "pooling"
    /\ Goes(c, IF pool THEN "ready" ELSE "awaiting")
    /\ IF ~pool /\ connecting = "none" THEN creating' = creating + 1 /\ connecting' = "promised"
       ELSE UNCHANGED <<connecting, creating>>
    /\ UNCHANGED <<federated, token, lastToken, tokenFile, configFile, cut, pointed, client, pool, pools>>
PoolCreated ==
    /\ creating > 0 /\ creating' = creating - 1 /\ pools' = pools + 1
    /\ pool' = TRUE /\ connecting' = "none" /\ client' = Exchanger
    /\ UNCHANGED <<federated, token, lastToken, tokenFile, configFile, cut, pointed, api>>
PoolRefused ==
    /\ creating > 0 /\ creating' = creating - 1 /\ connecting' = "failed" /\ client' \in {client, Exchanger}
    /\ UNCHANGED <<federated, token, lastToken, tokenFile, configFile, cut, pointed, pool, pools, api>>
PoolArrives(c) ==
    /\ api[c].at = "awaiting"
    /\ \/ pool /\ Goes(c, "ready")
       \/ connecting = "failed" /\ Goes(c, "resting")
    /\ UNCHANGED <<federated, token, lastToken, tokenFile, configFile, cut, pointed, client, poolVars>>

(***************************************************************************)
(* What the call was for.  A lookup that finds the object asks for its     *)
(* metadata through a bucket() of its own.                                 *)
(***************************************************************************)
Serves(c) ==
    /\ api[c].at = "ready"
    /\ \/ api' = [api EXCEPT ![c] = Resting]
       \/ api[c].does = "stat"
          /\ api' = [api EXCEPT ![c] = [Resting EXCEPT !.at = IF federated THEN "asking" ELSE "ready"]]
    /\ UNCHANGED <<federated, token, lastToken, tokenFile, configFile, cut, pointed, client, poolVars>>
(* The platform gives no token, the disk refuses a write, Google an        *)
(* exchange or a signature: the call answers 500, and a file that it had   *)
(* emptied stays as it is.                                                 *)
Fails(c) ==
    /\ api[c].at \notin {"resting", "pooling", "awaiting"} /\ api' = [api EXCEPT ![c] = Resting]
    /\ cut' = cut \cup {f \in {"token", "config"} : api[c].at = Writing[f]}
    /\ UNCHANGED <<federated, token, lastToken, tokenFile, configFile, pointed, client, poolVars>>
TokenRotates ==
    /\ federated /\ token < MaxToken /\ token' = token + 1
    /\ UNCHANGED <<federated, lastToken, tokenFile, configFile, cut, pointed, client, poolVars, api>>

----------------------------------------------------------------------------
CredentialInit ==
    /\ federated \in BOOLEAN /\ token = 1 /\ lastToken = 0 /\ tokenFile = {0}
    /\ configFile = "none" /\ cut = {} /\ pointed = FALSE /\ client = "unset"
    /\ pool = FALSE /\ connecting = "none" /\ creating = 0 /\ pools = 0
    /\ api = [c \in ApiCalls |-> Resting]
CredentialNext ==
    \/ \E c \in ApiCalls :
          \/ CallBegins(c) \/ TokenArrives(c) \/ Compares(c)
          \/ OpensTokenFile(c) \/ WritesTokenFile(c) \/ OpensConfigFile(c) \/ WritesConfigFile(c)
          \/ ClientBuilt(c) \/ AwaitsPool(c) \/ PoolArrives(c) \/ Serves(c) \/ Fails(c)
    \/ PoolCreated \/ PoolRefused \/ TokenRotates
CredentialSpec == CredentialInit /\ [][CredentialNext]_credentialVars

----------------------------------------------------------------------------
(* However calls overlap and fail, one of them signs or looks up only      *)
(* after a token and the configuration that names it have been written and *)
(* the environment points there: a call that returns early because "its    *)
(* token is the last one" relies on files another call wrote.  It may meet *)
(* an emptied file, but only one that another call is writing at that      *)
(* moment, or whose last write was broken off.  A call that publishes holds*)
(* an exchanger exactly when the deployment is federated.                  *)
InHand(file) == file \in cut \/ \E d \in ApiCalls : api[d].at = Writing[file]
SignsWithCredentials ==
    \A c \in ApiCalls : api[c].at = "ready" =>
        CASE api[c].does \in {"sign", "stat"} ->
                federated =>
                    /\ pointed /\ tokenFile # {0} /\ configFile # "none"
                    /\ tokenFile = {} => InHand("token")
                    /\ configFile = "torn" => InHand("config")
          [] api[c].does = "publish" -> client = (IF federated THEN "built" ELSE "none")
          [] OTHER -> pool

(* "Two concurrent first requests must not each build a pool", nor a later *)
(* one another: there is one pool, or one on its way.                      *)
OnePool == creating + pools <= 1
=============================================================================
