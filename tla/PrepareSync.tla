----------------------------- MODULE PrepareSync -----------------------------
(***************************************************************************)
(* The initialization of a sync: SyncManager::prepareSync(), with          *)
(* CredentialHandler and the parts of SyncMLProcessor that read the        *)
(* answer.  One message after the other until the server has accepted the  *)
(* client and, where the configuration asks for it, proved who it is.      *)
(*                                                                         *)
(* Kept: the retries and what drives them, nonces on both sides and across *)
(* sessions, the error code shared by everything (getLastErrorCode()), the *)
(* state of each source, the device information sent once.  Abstracted: a  *)
(* credential is its type and the nonce it was made with.                  *)
(***************************************************************************)
EXTENDS Integers

CONSTANTS
    NumSources,     \* the active sources, in the order of the caller's list
    Setups,         \* configurations and servers, see SetupType
    HdrStatuses, AlertStatuses, \* what a server that strays answers
    MaxRounds       \* bound: answers and retries are counted up to here

ASSUME NumSourcesAssumption == NumSources \in Nat \ {0}
ASSUME MaxRoundsAssumption == MaxRounds \in Nat \ {0}

Sources == 1..NumSources
Types == {"basic", "md5"}

SetupType ==
    [server : {"honest", "stranger"},   \* a stranger does not know the secret
     password : BOOLEAN,                \* the client's is right
     clientType : Types, demands : Types, \* configured; what the server accepts
     required : BOOLEAN, serverType : Types, \* of the server's authentication
     proactive : BOOLEAN,               \* credentials before they are asked for
     refused : SUBSET Sources,          \* sources the server does not have
     sendDevInfo : BOOLEAN, addressChange : BOOLEAN]

ASSUME SetupsAssumption == Setups \subseteq SetupType
ASSUME StatusesAssumption == HdrStatuses \subseteq Int /\ AlertStatuses \subseteq Int

ABORTED == 1
ERR_REPRESENTATION == 2
ERR_HTTP == 3
ERR_READING_CONTENT == 4
ERR_NO_SOURCE == 5

Nonces == 0..4
FreshNonce(used) == CHOOSE n \in Nonces : n \notin used

VARIABLES
    setup,
    pc,
    config,         \* [clientNonce, serverNonce, devInfHash], kept between sessions
    clientNonce, serverNonce, clientAuthType,   \* of credentialHandler
    isClientAuthenticated, isServerAuthenticated,
    clientAuthRetries, serverAuthRetries,
    putDevInf,
    commands,       \* the status of the server's header for the next message
    report,         \* the state of each source
    ret, lastErrorCode,
    toAbort,        \* config.isToAbort()
    reply

(* The server, external: the nonce it expects, the one it proves itself    *)
(* with, whether it accepted the client in this session, whether it was    *)
(* asked for its credentials, whether it has the device information.       *)
VARIABLES expects, proves, knows, asked, hasDevInf

(* History: messages answered; the types the server asked for; what ended  *)
(* or hindered the session; whether a session was cut short before.        *)
VARIABLES rounds, demanded, trouble, cut

handler == <<clientNonce, serverNonce, clientAuthType>>
progress == <<isClientAuthenticated, isServerAuthenticated,
              clientAuthRetries, serverAuthRetries>>
sending == <<putDevInf, commands>>
result == <<report, ret, lastErrorCode>>
serverVars == <<expects, proves, knows, asked, hasDevInf>>
history == <<rounds, demanded, trouble, cut>>
vars == <<setup, pc, config, handler, progress, sending, result, toAbort, reply,
          serverVars, history>>

NoReply == [hdr |-> -1, alerts |-> [s \in Sources |-> -1], cred |-> FALSE, chal |-> "none"]

OneMore(n) == IF n < MaxRounds THEN n + 1 ELSE n

isErrorStatus(status) == status # 0 /\ (status < 200 \/ status > 299)
isAuthFailed(status) == status \in {401, 407}
Active(r) == {s \in Sources : r[s] = "active"}
isToExit(r) == Active(r) = {}

Init ==
    /\ setup \in Setups
    /\ pc = "idle"
    /\ config = [clientNonce |-> 0, serverNonce |-> 0, devInfHash |-> "none"]
    /\ clientNonce = 0 /\ serverNonce = 0 /\ clientAuthType = setup.clientType
    /\ isClientAuthenticated = FALSE /\ isServerAuthenticated = FALSE
    /\ clientAuthRetries = 1 /\ serverAuthRetries = 1
    /\ putDevInf = FALSE /\ commands = "none"
    /\ report = [s \in Sources |-> "active"] /\ ret = 0 /\ lastErrorCode = 0
    /\ toAbort = FALSE /\ reply = NoReply
    /\ expects = 0 /\ proves = 0 /\ knows = FALSE /\ asked = FALSE /\ hasDevInf = FALSE
    /\ rounds = 0 /\ demanded = {} /\ trouble = {} /\ cut = FALSE

-----------------------------------------------------------------------------
(* Mutant: a hash that differs is as good as one that is the same. *)
SendsFirstDevInf == setup.sendDevInfo /\ config.devInfHash = "none"

SendsDevInf == setup.sendDevInfo /\ config.devInfHash # "current"

(* A new SyncManager, and prepareSync() up to the loop. *)
Start ==
    /\ pc = "idle"
    /\ clientNonce' = config.clientNonce /\ serverNonce' = config.serverNonce
    /\ isServerAuthenticated' = ~setup.required
    /\ putDevInf' = SendsDevInf
    /\ pc' = "loop"
    /\ UNCHANGED <<setup, config, clientAuthType, isClientAuthenticated, clientAuthRetries,
                   serverAuthRetries, commands, result, toAbort, reply, serverVars, history>>

(* finally: the rest of the session, when ret is 0, is sync(): its first   *)
(* message carries the commands.                                           *)
Finish(r) == pc' = "ended" /\ ret' = r /\ reply' = NoReply

InSession == pc \notin {"idle", "ended"}

Abort ==
    /\ InSession /\ ~toAbort
    /\ toAbort' = TRUE /\ trouble' = trouble \cup {"abort"}
    /\ UNCHANGED <<setup, pc, config, handler, progress, sending, result, reply,
                   serverVars, rounds, demanded, cut>>

Aborted ==
    /\ pc \in {"loop", "answered"} /\ toAbort /\ (pc = "loop" => lastErrorCode = 0)
    /\ lastErrorCode' = ABORTED
    /\ Finish(ABORTED)
    /\ UNCHANGED <<setup, config, handler, progress, sending, report, toAbort, serverVars, history>>

(* An error of any source, or of an earlier message, is taken for one of   *)
(* the connection.                                                         *)
ErrorPending == lastErrorCode # 0

ErrorBeforeSend ==
    /\ pc = "loop" /\ ErrorPending
    /\ Finish(lastErrorCode)
    /\ UNCHANGED <<setup, config, handler, progress, sending, report, lastErrorCode,
                   toAbort, serverVars, history>>

Send ==
    /\ pc = "loop" /\ ~ErrorPending /\ ~toAbort
    /\ pc' = "sent"
    /\ UNCHANGED <<setup, config, handler, progress, sending, result, toAbort, reply,
                   serverVars, history>>

(* The credentials and the alerts go in the message while the client is    *)
(* not authenticated.                                                      *)
WithAlerts == ~isClientAuthenticated

(* putDevInf is reset when the Put is built. *)
AfterSend == putDevInf' = FALSE /\ commands' = "none"

-----------------------------------------------------------------------------
(* The server, external.  It accepts credentials of its type made with the *)
(* nonce it expects; asks for others, with a new nonce for MD5, when they  *)
(* are wrong; may give a new nonce when they are right; obeys a command of *)
(* a client it knows; makes the nonce the client sent its own.             *)
Accepts ==
    \/ knows
    \/ /\ WithAlerts /\ setup.password /\ clientAuthType = setup.demands
       /\ setup.demands = "md5" => clientNonce = expects

Adopts ==
    proves' = IF commands # "none" /\ setup.serverType = "md5" THEN serverNonce ELSE proves

NextNonce == FreshNonce({expects, clientNonce, config.clientNonce})

Challenges == IF Accepts THEN {"none", setup.demands} ELSE {setup.demands}

(* The server has the message, and answers with this challenge. *)
ServerHears(chal) ==
    /\ setup.server = "honest"
    /\ chal \in Challenges
    /\ Adopts
    /\ knows' = Accepts
    /\ asked' = (asked \/ commands \in {"401", "407"})
    /\ hasDevInf' = (hasDevInf \/ (putDevInf /\ Accepts))
    /\ expects' = IF chal = "md5" THEN NextNonce ELSE expects

(* A server that does not know the client gives its alerts no status, or 401. *)
HonestReply(chal) ==
    \E told \in (IF Accepts THEN {200} ELSE {-1, 401}) :
        reply' = [hdr |-> IF Accepts THEN 200 ELSE 401,
                  alerts |-> [s \in Sources |->
                      CASE ~WithAlerts -> -1
                        [] WithAlerts /\ Accepts /\ s \in setup.refused -> 404
                        [] OTHER -> told],
                  cred |-> setup.required /\ (setup.proactive \/ asked'),
                  chal |-> chal]

StrangersReply ==
    /\ setup.server = "stranger"
    /\ \E hdr \in HdrStatuses, alerts \in [Sources -> AlertStatuses], cred \in BOOLEAN,
          chal \in Types \cup {"none"} :
          reply' = [hdr |-> hdr, alerts |-> alerts, cred |-> cred, chal |-> chal]
    /\ UNCHANGED serverVars

(* The answer reaches the client. *)
Answer ==
    /\ pc = "sent"
    /\ \/ \E chal \in Types \cup {"none"} : ServerHears(chal) /\ HonestReply(chal)
       \/ StrangersReply
    /\ AfterSend
    /\ rounds' = OneMore(rounds)
    /\ pc' = "answered"
    /\ UNCHANGED <<setup, config, handler, progress, result, toAbort, demanded, trouble, cut>>

(* NULL or an empty text comes back.  The code of the error is whatever    *)
(* the transport has set, none for an empty body (CurlTransportAgent).     *)
Excused(e) == setup.addressChange /\ WithAlerts /\ e = ERR_READING_CONTENT

RetOfNothing(e) == IF Excused(e) THEN 0 ELSE e

NoAnswer ==
    /\ pc = "sent"
    /\ (\E chal \in Types \cup {"none"} : ServerHears(chal)) \/ UNCHANGED serverVars
    /\ AfterSend
    /\ trouble' = trouble \cup {"lost"}
    /\ IF toAbort
       THEN lastErrorCode' = ABORTED /\ Finish(ABORTED)
       ELSE \E e \in {0, ERR_HTTP, ERR_READING_CONTENT} :
               lastErrorCode' = e /\ Finish(RetOfNothing(e))
    /\ UNCHANGED <<setup, config, handler, progress, report, toAbort, rounds, demanded, cut>>

-----------------------------------------------------------------------------
(* processSyncHdrStatus() *)
BadHeader ==
    /\ pc = "answered" /\ ~toAbort
    /\ \/ reply.hdr = -1 /\ lastErrorCode' = ERR_REPRESENTATION
       \/ /\ reply.hdr # -1 /\ isErrorStatus(reply.hdr) /\ ~isAuthFailed(reply.hdr)
          /\ lastErrorCode' = reply.hdr
    /\ Finish(lastErrorCode')
    /\ UNCHANGED <<setup, config, handler, progress, sending, report, toAbort, serverVars, history>>

(* processAlertStatus(): -1 when no alert was sent. *)
AlertStatus(s) == IF WithAlerts THEN reply.alerts[s] ELSE -1

(* Mutant: each status counts as it comes. *)
NothingOutlives(status) == FALSE

(* An authentication that failed outlives the sources without a status     *)
(* that come after it.                                                     *)
Outlives(status) == isAuthFailed(status)

(* ret after the sources up to n: the last status there is (the header's   *)
(* for want of another), or -1 when sources without one come after it.     *)
LastWithStatus(n) ==
    CHOOSE q \in 0..n :
        /\ q = 0 \/ (q \in Active(report) /\ AlertStatus(q) # -1)
        /\ \A s \in Active(report) : q < s /\ s <= n => AlertStatus(s) = -1

RetAfter(n) ==
    LET q == LastWithStatus(n)
        status == IF q = 0 THEN reply.hdr ELSE AlertStatus(q)
    IN  IF Outlives(status) \/ \A s \in Active(report) : ~(q < s /\ s <= n)
        THEN status ELSE -1

Refused == {s \in Active(report) : RetAfter(s) \in {-1, 404, 415}}

Alerts ==
    /\ pc = "answered" /\ ~toAbort
    /\ reply.hdr # -1 /\ (isErrorStatus(reply.hdr) => isAuthFailed(reply.hdr))
    /\ LET refused == Refused
       IN  /\ report' = [s \in Sources |-> IF s \in refused THEN "error" ELSE report[s]]
           /\ lastErrorCode' = IF refused = {} THEN lastErrorCode
                               ELSE RetAfter(CHOOSE s \in refused : \A q \in refused : q <= s)
    /\ IF isToExit(report')
       THEN Finish(lastErrorCode')
       ELSE pc' = "server" /\ ret' = RetAfter(NumSources) /\ UNCHANGED reply
    /\ UNCHANGED <<setup, config, handler, progress, sending, toAbort, serverVars,
                   history>>

-----------------------------------------------------------------------------
(* getServerChal(): for MD5 a new nonce every time it is called. *)
getServerChal ==
    serverNonce' = IF setup.serverType = "md5"
                   THEN FreshNonce({serverNonce, config.serverNonce, proves})
                   ELSE serverNonce

(* performServerAuth() *)
ServerProves ==
    /\ setup.server = "honest"
    /\ setup.serverType = "md5" => proves = serverNonce

NoServerAuth ==
    /\ pc = "server" /\ isServerAuthenticated
    /\ commands' = "200"
    /\ pc' = "client"
    /\ UNCHANGED <<setup, config, handler, progress, putDevInf, result, toAbort, reply,
                   serverVars, history>>

(* Mutant: credentials of any kind will do. *)
AnyCred == reply.cred

TrustedCred == reply.cred /\ ServerProves

ServerAuth ==
    /\ pc = "server" /\ ~isServerAuthenticated /\ TrustedCred
    /\ isServerAuthenticated' = TRUE
    /\ getServerChal
    /\ commands' = "212"
    /\ pc' = "client"
    /\ UNCHANGED <<setup, config, clientNonce, clientAuthType, isClientAuthenticated,
                   clientAuthRetries, serverAuthRetries, putDevInf, result, toAbort, reply,
                   serverVars, history>>

(* Asked once, or for wrong MD5 credentials as often as they come. *)
ServerRetries ==
    \/ serverAuthRetries = 1
    \/ reply.cred /\ setup.serverType = "md5"

ServerAuthAgain ==
    /\ pc = "server" /\ ~isServerAuthenticated /\ ~TrustedCred
    /\ ServerRetries
    /\ getServerChal
    /\ commands' = IF reply.cred THEN "401" ELSE "407"
    /\ serverAuthRetries' = OneMore(serverAuthRetries)
    /\ pc' = "client"
    /\ UNCHANGED <<setup, config, clientNonce, clientAuthType, isClientAuthenticated,
                   isServerAuthenticated, clientAuthRetries, putDevInf, result, toAbort,
                   reply, serverVars, history>>

ServerNotAuthenticated ==
    /\ pc = "server" /\ ~isServerAuthenticated /\ ~TrustedCred
    /\ ~ServerRetries
    /\ Finish(-1)
    /\ UNCHANGED <<setup, config, handler, progress, sending, report, lastErrorCode,
                   toAbort, serverVars, history>>

-----------------------------------------------------------------------------
(* The client's authentication. *)
Requested == IF reply.chal = "none" THEN clientAuthType ELSE reply.chal

TakesNonce == clientNonce' = IF reply.chal = "md5" THEN expects ELSE clientNonce

(* Mutant: MD5 is tried as often as it is asked for. *)
ClientRetriesMD5 == Requested # clientAuthType \/ Requested = "md5"

(* Another type, or once more with a new nonce. *)
ClientRetries ==
    \/ Requested # clientAuthType
    \/ Requested = "md5" /\ clientAuthRetries = 1

(* Mutant: only the nonce of the client is kept. *)
LearntByClient == [config EXCEPT !.clientNonce = clientNonce',
                                 !.devInfHash = IF setup.sendDevInfo THEN "current" ELSE "garbage"]

(* The loop ends: what was learnt goes to the configuration.  devInfHash   *)
(* is not initialized when the device information is not to be sent.       *)
Learnt == [clientNonce |-> clientNonce', serverNonce |-> serverNonce,
           devInfHash |-> IF setup.sendDevInfo THEN "current" ELSE "garbage"]

LoopEnds ==
    /\ reply' = NoReply
    /\ IF isClientAuthenticated' /\ isServerAuthenticated
       THEN config' = Learnt /\ pc' = "ended"
       ELSE pc' = "loop" /\ UNCHANGED config

ClientAuthAgain ==
    /\ pc = "client" /\ isAuthFailed(ret) /\ ClientRetries
    /\ TakesNonce
    /\ clientAuthType' = Requested
    /\ clientAuthRetries' = OneMore(clientAuthRetries)
    /\ demanded' = demanded \cup {Requested}
    /\ UNCHANGED isClientAuthenticated
    /\ LoopEnds
    /\ UNCHANGED <<setup, serverNonce, isServerAuthenticated, serverAuthRetries, sending,
                   result, toAbort, serverVars, rounds, trouble, cut>>

ClientNotAuthenticated ==
    /\ pc = "client" /\ isAuthFailed(ret) /\ ~ClientRetries
    /\ lastErrorCode' = 401
    /\ Finish(401)
    /\ UNCHANGED <<setup, config, handler, progress, sending, report, toAbort, serverVars, history>>

(* processServerAlert() sets the mode of each source, and returns 0. *)
ClientAuth ==
    /\ pc = "client" /\ ~isAuthFailed(ret)
    /\ TakesNonce
    /\ isClientAuthenticated' = TRUE
    /\ ret' = 0
    /\ LoopEnds
    /\ UNCHANGED <<setup, serverNonce, clientAuthType, isServerAuthenticated,
                   clientAuthRetries, serverAuthRetries, sending, report, lastErrorCode,
                   toAbort, serverVars, history>>

-----------------------------------------------------------------------------
(* The SyncManager and the session at the server are gone. *)
Forgotten ==
    /\ clientNonce' = 0 /\ serverNonce' = 0 /\ clientAuthType' = setup.clientType
    /\ isClientAuthenticated' = FALSE /\ isServerAuthenticated' = FALSE
    /\ clientAuthRetries' = 1 /\ serverAuthRetries' = 1
    /\ putDevInf' = FALSE /\ commands' = "none"
    /\ report' = [s \in Sources |-> "active"] /\ ret' = 0 /\ lastErrorCode' = 0
    /\ toAbort' = FALSE
    /\ knows' = FALSE /\ asked' = FALSE
    /\ rounds' = 0 /\ demanded' = {} /\ trouble' = {}

(* After prepareSync(): the first message of sync(), which carries the     *)
(* status with the new nonce, reaches the server or not.                   *)
Succeeded == pc = "ended" /\ ret = 0 /\ isClientAuthenticated /\ isServerAuthenticated

Leave ==
    /\ pc = "ended"
    /\ \/ Succeeded /\ Adopts /\ cut' = FALSE
       \/ UNCHANGED proves /\ cut' = TRUE
    /\ pc' = "idle"
    /\ Forgotten
    /\ UNCHANGED <<setup, config, reply, expects, hasDevInf>>

(* The device information or the URL of the server changes. *)
DevInfChanges ==
    /\ pc = "idle"
    /\ config.devInfHash = "current"
    /\ config' = [config EXCEPT !.devInfHash = "other"]
    /\ hasDevInf' = FALSE
    /\ UNCHANGED <<setup, pc, handler, progress, sending, result, toAbort, reply,
                   expects, proves, knows, asked, history>>

Session ==
    \/ Aborted \/ ErrorBeforeSend \/ Send \/ Answer \/ NoAnswer \/ BadHeader \/ Alerts
    \/ NoServerAuth \/ ServerAuth \/ ServerAuthAgain \/ ServerNotAuthenticated
    \/ ClientAuthAgain \/ ClientNotAuthenticated \/ ClientAuth

Next == Start \/ Abort \/ Session \/ Leave \/ DevInfChanges

Spec == Init /\ [][Next]_vars

-----------------------------------------------------------------------------
TypeOK ==
    /\ setup \in Setups
    /\ pc \in {"idle", "loop", "sent", "answered", "server", "client", "ended"}
    /\ config \in [clientNonce : Nonces, serverNonce : Nonces,
                   devInfHash : {"none", "current", "other", "garbage"}]
    /\ clientNonce \in Nonces /\ serverNonce \in Nonces /\ clientAuthType \in Types
    /\ isClientAuthenticated \in BOOLEAN /\ isServerAuthenticated \in BOOLEAN
    /\ clientAuthRetries \in 1..MaxRounds /\ serverAuthRetries \in 1..MaxRounds
    /\ putDevInf \in BOOLEAN /\ commands \in {"none", "200", "212", "401", "407"}
    /\ report \in [Sources -> {"active", "error"}]
    /\ ret \in Int /\ lastErrorCode \in Int /\ toAbort \in BOOLEAN
    /\ reply \in [hdr : Int, alerts : [Sources -> Int], cred : BOOLEAN,
                  chal : Types \cup {"none"}]
    /\ expects \in Nonces /\ proves \in Nonces
    /\ knows \in BOOLEAN /\ asked \in BOOLEAN /\ hasDevInf \in BOOLEAN
    /\ rounds \in 0..MaxRounds /\ demanded \subseteq Types
    /\ trouble \subseteq {"abort", "lost"} /\ cut \in BOOLEAN

NothingCame == "lost" \in trouble /\ (lastErrorCode = 0 \/ setup.addressChange)

(* The session goes on, prepareSync() having returned 0, only with a       *)
(* server that accepted the client, that knows the secret where this is    *)
(* asked for, and with a source that it has; unless it answered nothing    *)
(* and the transport set no error (SyncManager.cpp 603-624).               *)
GoesOnForCause ==
    pc = "ended" /\ ret = 0 /\ ~NothingCame =>
        /\ isClientAuthenticated /\ isServerAuthenticated
        /\ setup.required => setup.server = "honest"
        /\ setup.server = "honest" => knows /\ Active(report) \cap setup.refused = {}
        /\ ~isToExit(report)

(* Whatever cut the sessions before it, one that nobody disturbs, with the *)
(* right password, an honest server and a source it has, ends well; unless *)
(* the server had to be asked for its credentials.  Then the client may    *)
(* be authenticated, the next message have no alert, and each source be in *)
(* error with the status -1 of an alert never sent (SyncManager.cpp        *)
(* 484-516, 655-673).                                                      *)
ServerMustBeAsked ==
    /\ setup.required
    /\ ~setup.proactive \/ (setup.serverType = "md5" /\ config.serverNonce # proves)

HealsForCause ==
    /\ pc = "ended" /\ trouble = {}
    /\ setup.server = "honest" /\ setup.password /\ setup.refused # Sources
    => ret = 0 \/ ServerMustBeAsked

(* When the last session went well the nonces of both sides are the same   *)
(* at the next one, so that the first message is accepted.                 *)
NoncesInStep ==
    pc = "idle" /\ setup.server = "honest" /\ ~cut =>
        /\ config.clientNonce = expects
        /\ setup.required => config.serverNonce = proves

(* An honest server needs two messages at most.  More are only sent for    *)
(* one that asks for one type and then for the other, or fails again and   *)
(* again to prove itself with MD5.                                         *)
RetriesForCause ==
    rounds > 2 =>
        /\ setup.server = "stranger"
        /\ demanded = Types \/ (setup.required /\ setup.serverType = "md5")

(* The hash kept says that the server has the device information; unless   *)
(* the message with the Put could be refused for its credentials.  The Put *)
(* is not sent again with the right ones (SyncManager.cpp 529-537).        *)
DevInfForCause ==
    config.devInfHash = "current" /\ setup.server = "honest" /\ ~hasDevInf =>
        setup.demands = "md5" \/ setup.clientType = "md5"
=============================================================================
