--------------------------- MODULE PrepareSyncProofs ---------------------------
(***************************************************************************)
(* Proofs about PrepareSync for any number of sources, configurations and  *)
(* servers: types, with whom the session goes on, the nonces on both       *)
(* sides, the device information, how often the loop goes round, and that  *)
(* an undisturbed session ends well.                                       *)
(***************************************************************************)
EXTENDS PrepareSync, WellFoundedInduction, TLAPS

(* A set of numbers up to n has a largest one. *)
LEMMA Largest ==
    ASSUME NEW n \in Nat, NEW S \in SUBSET (0..n), S # {}
    PROVE  \E q \in S : \A p \in S : p <= q
<1> DEFINE T == {n - q : q \in S}
<1>1. T \subseteq Nat /\ T # {}
  <2>1. \A q \in S : n - q \in Nat
    <3>1. \A q \in S : q \in 0..n
      OBVIOUS
    <3>2. \A q \in 0..n : n - q \in Nat
      OBVIOUS
    <3> QED
      BY <3>1, <3>2
  <2> QED
    BY <2>1
<1>2. \E x \in T : \A y \in T : ~(<<y, x>> \in OpToRel(<, Nat))
  <2> HIDE DEF T
  <2> QED
    BY <1>1, NatLessThanWellFounded, WFMin
<1>3. PICK x \in T : \A y \in T : ~(<<y, x>> \in OpToRel(<, Nat))
  BY <1>2
<1>4. PICK q \in S : x = n - q
  BY <1>3
<1>5. ASSUME NEW p \in S PROVE p <= q
  <2>1. ~(<<n - p, n - q>> \in OpToRel(<, Nat))
    BY <1>3, <1>4
  <2>2. n - p \in Nat /\ n - q \in Nat /\ q \in Int /\ p \in Int
    OBVIOUS
  <2>3. ~(n - p < n - q)
    BY <2>1, <2>2 DEF OpToRel
  <2> QED
    BY <2>2, <2>3
<1> QED
  BY <1>5

LEMMA Fresh ==
    ASSUME NEW a, NEW b, NEW c
    PROVE  FreshNonce({a, b, c}) \in Nonces \ {a, b, c}
<1>1. \E n \in Nonces : n \notin {a, b, c}
  <2>1. 0 \in Nonces /\ 1 \in Nonces /\ 2 \in Nonces /\ 3 \in Nonces
    BY DEF Nonces
  <2> QED
    BY <2>1
<1> QED
  BY <1>1 DEF FreshNonce

LEMMA Counting ==
    ASSUME NEW n \in 0..MaxRounds
    PROVE  OneMore(n) \in 1..MaxRounds
  BY MaxRoundsAssumption DEF OneMore

-----------------------------------------------------------------------------
(* processAlertStatus() and ret after each source. *)
LEMMA AlertType ==
    ASSUME TypeOK, NEW s \in Sources
    PROVE  AlertStatus(s) \in Int
  BY DEF TypeOK, AlertStatus

LEMMA LastFacts ==
    ASSUME TypeOK, NEW n \in 0..NumSources
    PROVE  /\ LastWithStatus(n) \in 0..n
           /\ \/ LastWithStatus(n) = 0
              \/ LastWithStatus(n) \in Active(report) /\ AlertStatus(LastWithStatus(n)) # -1
           /\ \A s \in Active(report) : LastWithStatus(n) < s /\ s <= n => AlertStatus(s) = -1
<1> DEFINE With == {q \in 0..n : q = 0 \/ (q \in Active(report) /\ AlertStatus(q) # -1)}
           Chosen(q) == /\ q = 0 \/ (q \in Active(report) /\ AlertStatus(q) # -1)
                        /\ \A s \in Active(report) : q < s /\ s <= n => AlertStatus(s) = -1
<1>1. n \in Nat /\ NumSources \in Nat /\ Active(report) \subseteq 1..NumSources
  BY NumSourcesAssumption DEF Active, Sources
<1>2. PICK q \in With : \A p \in With : p <= q
  <2>1. 0 \in With /\ With \in SUBSET (0..n)
    BY <1>1
  <2> HIDE DEF With
  <2> QED
    BY <1>1, <2>1, Largest
<1>3. Chosen(q)
  <2>1. ASSUME NEW s \in Active(report), q < s, s <= n, AlertStatus(s) # -1 PROVE FALSE
    <3>1. s \in 0..n
      BY <1>1, <2>1
    <3>2. s \in With
      BY <2>1, <3>1
    <3> QED
      BY <1>1, <1>2, <2>1, <3>1, <3>2
  <2> QED
    BY <1>2, <2>1
<1>4. q \in 0..n
  BY <1>2
<1>5. LastWithStatus(n) = CHOOSE p \in 0..n : Chosen(p)
  BY DEF LastWithStatus
<1> HIDE DEF Chosen
<1>6. LastWithStatus(n) \in 0..n /\ Chosen(LastWithStatus(n))
  BY <1>3, <1>4, <1>5
<1> QED
  BY <1>6 DEF Chosen

LEMMA RetType ==
    ASSUME TypeOK, NEW n \in 0..NumSources
    PROVE  RetAfter(n) \in Int
<1> DEFINE q == LastWithStatus(n)
           status == IF q = 0 THEN reply.hdr ELSE AlertStatus(q)
<1>1. q = 0 \/ q \in Sources
  BY LastFacts DEF Active
<1>2. reply.hdr \in Int
  BY DEF TypeOK
<1>3. status \in Int
  BY <1>1, <1>2, AlertType
<1>4. RetAfter(n) = status \/ RetAfter(n) = -1
  BY DEF RetAfter
<1> QED
  BY <1>3, <1>4

LEMMA RefusedStatus ==
    ASSUME TypeOK, Refused # {}
    PROVE  RetAfter(CHOOSE s \in Refused : \A q \in Refused : q <= s) \in {-1, 404, 415}
<1>1. Refused \in SUBSET (0..NumSources) /\ NumSources \in Nat
  BY NumSourcesAssumption DEF Refused, Active, Sources
<1>2. \E s \in Refused : \A q \in Refused : q <= s
  BY <1>1, Largest
<1>3. (CHOOSE s \in Refused : \A q \in Refused : q <= s) \in Refused
  BY <1>2
<1> QED
  BY <1>3 DEF Refused

-----------------------------------------------------------------------------
LEMMA TypeInit == Init => TypeOK
<1> SUFFICES ASSUME Init PROVE TypeOK
  OBVIOUS
<1>1. setup \in SetupType /\ setup.clientType \in Types
  BY SetupsAssumption DEF Init, SetupType
<1>2. 0 \in Nonces /\ 1 \in 1..MaxRounds /\ 0 \in 0..MaxRounds
  BY MaxRoundsAssumption DEF Nonces
<1>3. reply \in [hdr : Int, alerts : [Sources -> Int], cred : BOOLEAN, chal : Types \cup {"none"}]
  BY DEF Init, NoReply
<1>4. /\ config \in [clientNonce : Nonces, serverNonce : Nonces,
                    devInfHash : {"none", "current", "other", "garbage"}]
      /\ clientAuthType \in Types /\ report \in [Sources -> {"active", "error"}]
  BY <1>1, <1>2 DEF Init
<1>5. /\ isClientAuthenticated \in BOOLEAN /\ isServerAuthenticated \in BOOLEAN
      /\ putDevInf \in BOOLEAN /\ toAbort \in BOOLEAN /\ knows \in BOOLEAN
      /\ asked \in BOOLEAN /\ hasDevInf \in BOOLEAN /\ cut \in BOOLEAN
  BY DEF Init
<1> QED
  BY <1>2, <1>3, <1>4, <1>5 DEF Init, TypeOK

LEMMA TypeNext == TypeOK /\ [Next]_vars => TypeOK'
<1> SUFFICES ASSUME TypeOK, [Next]_vars PROVE TypeOK'
  OBVIOUS
<1> USE DEF handler, progress, sending, result, serverVars, history
<1>a. setup \in SetupType
  BY SetupsAssumption DEF TypeOK
<1>b. 0 \in Nonces /\ 1 \in 1..MaxRounds /\ 0 \in 0..MaxRounds
  BY MaxRoundsAssumption DEF Nonces
<1>c. NoReply \in [hdr : Int, alerts : [Sources -> Int], cred : BOOLEAN, chal : Types \cup {"none"}]
  BY DEF NoReply
<1>d. \A e \in {ABORTED, ERR_REPRESENTATION, ERR_HTTP, ERR_READING_CONTENT, 0, -1, 401, 404, 415} : e \in Int
  BY DEF ABORTED, ERR_REPRESENTATION, ERR_HTTP, ERR_READING_CONTENT
<1>e. ASSUME getServerChal PROVE serverNonce' \in Nonces
  BY <1>e, Fresh DEF getServerChal, TypeOK
<1>f. ASSUME NEW chal, ServerHears(chal)
      PROVE  /\ expects' \in Nonces /\ proves' \in Nonces /\ knows' \in BOOLEAN
             /\ asked' \in BOOLEAN /\ hasDevInf' \in BOOLEAN
  <2>1. expects' \in Nonces
    BY <1>f, Fresh DEF ServerHears, NextNonce, TypeOK
  <2>2. proves' \in Nonces
    BY <1>f DEF ServerHears, Adopts, TypeOK
  <2>3. knows' \in BOOLEAN
    BY <1>f DEF ServerHears, Accepts
  <2>4. asked' \in BOOLEAN
    <3>1. asked' = (asked \/ commands \in {"401", "407"})
      BY <1>f DEF ServerHears
    <3> QED
      BY <3>1
  <2>5. hasDevInf' \in BOOLEAN
    <3>1. hasDevInf' = (hasDevInf \/ (putDevInf /\ Accepts))
      BY <1>f DEF ServerHears
    <3> QED
      BY <3>1
  <2> QED
    BY <2>1, <2>2, <2>3, <2>4, <2>5
<1>1. CASE Start
  <2>1. isServerAuthenticated' \in BOOLEAN
    <3>1. isServerAuthenticated' = ~setup.required
      BY <1>1 DEF Start
    <3> QED
      BY <3>1
  <2>2. putDevInf' \in BOOLEAN
    <3>1. putDevInf' = SendsDevInf
      BY <1>1 DEF Start
    <3> QED
      BY <3>1 DEF SendsDevInf
  <2>3. clientNonce' \in Nonces /\ serverNonce' \in Nonces
    BY <1>1 DEF Start, TypeOK
  <2> QED
    BY <1>1, <2>1, <2>2, <2>3 DEF Start, TypeOK
<1>2. CASE Abort
  BY <1>2, <1>b, <1>c, <1>d, <1>e DEF Abort, Finish, TypeOK
<1>3. CASE Aborted
  BY <1>3, <1>b, <1>c, <1>d, <1>e DEF Aborted, Finish, TypeOK
<1>4. CASE ErrorBeforeSend
  BY <1>4, <1>b, <1>c, <1>d, <1>e DEF ErrorBeforeSend, Finish, TypeOK
<1>5. CASE Send
  BY <1>5, <1>b, <1>c, <1>d, <1>e DEF Send, Finish, TypeOK
<1>6. CASE Answer
  <2>1. /\ expects' \in Nonces /\ proves' \in Nonces /\ knows' \in BOOLEAN
        /\ asked' \in BOOLEAN /\ hasDevInf' \in BOOLEAN
    <3>1. CASE StrangersReply
      BY <3>1 DEF StrangersReply, TypeOK
    <3>2. ASSUME NEW chal, ServerHears(chal)
          PROVE  /\ expects' \in Nonces /\ proves' \in Nonces /\ knows' \in BOOLEAN
                 /\ asked' \in BOOLEAN /\ hasDevInf' \in BOOLEAN
      BY <3>2, <1>f
    <3> QED
      BY <1>6, <3>1, <3>2 DEF Answer
  <2>2. reply' \in [hdr : Int, alerts : [Sources -> Int], cred : BOOLEAN, chal : Types \cup {"none"}]
    <3>1. CASE StrangersReply
      <4>1. PICK hdr \in HdrStatuses, alerts \in [Sources -> AlertStatuses],
                 cred \in BOOLEAN, chal \in Types \cup {"none"} :
              reply' = [hdr |-> hdr, alerts |-> alerts, cred |-> cred, chal |-> chal]
        BY <3>1 DEF StrangersReply
      <4>2. hdr \in Int /\ alerts \in [Sources -> Int]
        BY StatusesAssumption
      <4> QED
        BY <4>1, <4>2
    <3>2. ASSUME NEW chal \in Types \cup {"none"}, HonestReply(chal)
          PROVE  reply' \in [hdr : Int, alerts : [Sources -> Int], cred : BOOLEAN,
                             chal : Types \cup {"none"}]
      <4>1. PICK told \in {200, -1, 401} :
              reply' = [hdr |-> IF Accepts THEN 200 ELSE 401,
                  alerts |-> [s \in Sources |->
                      CASE ~WithAlerts -> -1
                        [] WithAlerts /\ Accepts /\ s \in setup.refused -> 404
                        [] OTHER -> told],
                  cred |-> setup.required /\ (setup.proactive \/ asked'),
                  chal |-> chal]
        BY <3>2 DEF HonestReply
      <4> DEFINE a == [s \in Sources |->
                      CASE ~WithAlerts -> -1
                        [] WithAlerts /\ Accepts /\ s \in setup.refused -> 404
                        [] OTHER -> told]
                 c == setup.required /\ (setup.proactive \/ asked')
                 h == IF Accepts THEN 200 ELSE 401
      <4>2. a \in [Sources -> Int]
        OBVIOUS
      <4>3. c \in BOOLEAN /\ h \in Int
        OBVIOUS
      <4>4. reply' = [hdr |-> h, alerts |-> a, cred |-> c, chal |-> chal]
        BY <4>1
      <4> HIDE DEF a, c, h
      <4> QED
        BY <4>2, <4>3, <4>4
    <3> QED
      BY <1>6, <3>1, <3>2 DEF Answer
  <2>3. rounds' \in 0..MaxRounds
    BY <1>6, Counting DEF Answer, TypeOK
  <2> QED
    BY <1>6, <2>1, <2>2, <2>3 DEF Answer, AfterSend, TypeOK
<1>7. CASE NoAnswer
  <2>1. /\ expects' \in Nonces /\ proves' \in Nonces /\ knows' \in BOOLEAN
        /\ asked' \in BOOLEAN /\ hasDevInf' \in BOOLEAN
    <3>1. CASE UNCHANGED serverVars
      BY <3>1 DEF TypeOK
    <3>2. CASE \E chal \in Types \cup {"none"} : ServerHears(chal)
      BY <3>2, <1>f
    <3> QED
      BY <1>7, <3>1, <3>2 DEF NoAnswer
  <2>2. ret' \in Int /\ lastErrorCode' \in Int /\ pc' = "ended" /\ reply' = NoReply
    BY <1>7, <1>d DEF NoAnswer, Finish, RetOfNothing
  <2>3. trouble' \subseteq {"abort", "lost"}
    BY <1>7 DEF NoAnswer, TypeOK
  <2> QED
    BY <1>7, <2>1, <2>2, <2>3, <1>c DEF NoAnswer, AfterSend, TypeOK
<1>8. CASE BadHeader
  <2>1. lastErrorCode' \in Int
    BY <1>8, <1>d DEF BadHeader, TypeOK
  <2> QED
    BY <1>8, <2>1, <1>c DEF BadHeader, Finish, TypeOK
<1>9. CASE Alerts
  <2>1. report' \in [Sources -> {"active", "error"}]
    BY <1>9 DEF Alerts, TypeOK
  <2>2. lastErrorCode' \in Int
    BY <1>9, <1>d, RefusedStatus DEF Alerts, TypeOK
  <2>3. /\ ret' \in Int /\ pc' \in {"ended", "server"}
        /\ reply' \in [hdr : Int, alerts : [Sources -> Int], cred : BOOLEAN, chal : Types \cup {"none"}]
    <3>1. RetAfter(NumSources) \in Int
      BY RetType, NumSourcesAssumption
    <3> QED
      BY <1>9, <2>2, <3>1, <1>c DEF Alerts, Finish, TypeOK
  <2> QED
    BY <1>9, <2>1, <2>2, <2>3 DEF Alerts, TypeOK
<1>10. CASE NoServerAuth
  BY <1>10, <1>b, <1>c, <1>d, <1>e DEF NoServerAuth, Finish, TypeOK
<1>11. CASE ServerAuth
  BY <1>11, <1>b, <1>c, <1>d, <1>e DEF ServerAuth, Finish, TypeOK
<1>12. CASE ServerAuthAgain
  <2>1. serverAuthRetries' \in 1..MaxRounds
    BY <1>12, Counting DEF ServerAuthAgain, TypeOK
  <2>2. serverNonce' \in Nonces /\ commands' \in {"401", "407"}
    BY <1>12, <1>e DEF ServerAuthAgain
  <2> QED
    BY <1>12, <2>1, <2>2 DEF ServerAuthAgain, TypeOK
<1>13. CASE ServerNotAuthenticated
  BY <1>13, <1>b, <1>c, <1>d, <1>e DEF ServerNotAuthenticated, Finish, TypeOK
<1>14. CASE ClientAuthAgain
  <2>1. clientNonce' \in Nonces
    BY <1>14 DEF ClientAuthAgain, TakesNonce, TypeOK
  <2>2. /\ pc' \in {"ended", "loop"} /\ reply' = NoReply
        /\ config' \in [clientNonce : Nonces, serverNonce : Nonces,
                        devInfHash : {"none", "current", "other", "garbage"}]
    BY <1>14, <2>1 DEF ClientAuthAgain, LoopEnds, Learnt, TypeOK
  <2>3. Requested \in Types
    BY DEF Requested, TypeOK
  <2>4. clientAuthRetries' \in 1..MaxRounds
    BY <1>14, Counting DEF ClientAuthAgain, TypeOK
  <2> QED
    BY <1>14, <1>c, <2>1, <2>2, <2>3, <2>4 DEF ClientAuthAgain, TypeOK
<1>15. CASE ClientNotAuthenticated
  BY <1>15, <1>b, <1>c, <1>d, <1>e DEF ClientNotAuthenticated, Finish, TypeOK
<1>16. CASE ClientAuth
  <2>1. clientNonce' \in Nonces
    BY <1>16 DEF ClientAuth, TakesNonce, TypeOK
  <2>2. /\ pc' \in {"ended", "loop"} /\ reply' = NoReply
        /\ config' \in [clientNonce : Nonces, serverNonce : Nonces,
                        devInfHash : {"none", "current", "other", "garbage"}]
    BY <1>16, <2>1 DEF ClientAuth, LoopEnds, Learnt, TypeOK
  <2>3. isClientAuthenticated' \in BOOLEAN /\ ret' \in Int
    BY <1>16 DEF ClientAuth
  <2> QED
    BY <1>16, <1>c, <2>1, <2>2, <2>3 DEF ClientAuth, TypeOK
<1>17. CASE Leave
  <2>1. proves' \in Nonces /\ cut' \in BOOLEAN
    BY <1>17 DEF Leave, Adopts, TypeOK
  <2>2. clientAuthType' \in Types
    BY <1>17, <1>a DEF Leave, Forgotten, SetupType
  <2> QED
    BY <1>17, <1>b, <1>d, <2>1, <2>2 DEF Leave, Forgotten, TypeOK
<1>18. CASE DevInfChanges
  <2>1. config' \in [clientNonce : Nonces, serverNonce : Nonces,
                        devInfHash : {"none", "current", "other", "garbage"}]
    BY <1>18 DEF DevInfChanges, TypeOK
  <2>2. hasDevInf' \in BOOLEAN
    BY <1>18 DEF DevInfChanges
  <2> QED
    BY <1>18, <2>1, <2>2 DEF DevInfChanges, TypeOK
<1>19. CASE UNCHANGED vars
  BY <1>19 DEF vars, TypeOK
<1> QED
  BY <1>1, <1>2, <1>3, <1>4, <1>5, <1>6, <1>7, <1>8, <1>9, <1>10, <1>11, <1>12, <1>13, <1>14, <1>15, <1>16, <1>17, <1>18, <1>19 DEF Next, Session

(* Every reachable state of the initialization is well typed. *)
THEOREM PrepareTypeCorrect == Spec => []TypeOK
  BY TypeInit, TypeNext, PTL DEF Spec

-----------------------------------------------------------------------------
(* Who the client trusts; what an honest server's answer says, and what is *)
(* made of it.                                                             *)
Honest == setup.server = "honest"

ServerTrusted == isServerAuthenticated /\ setup.required => Honest

SourcesLeft == InSession \/ pc = "idle" => ~isToExit(report)

Told(t) ==
    /\ knows => t = 200
    /\ ~knows => t \in {-1, 401}
    /\ \A s \in Sources :
          reply.alerts[s] = IF ~WithAlerts THEN -1
                            ELSE IF knows /\ s \in setup.refused THEN 404 ELSE t

ReplyTrue ==
    pc = "answered" /\ Honest =>
        /\ reply.hdr = IF knows THEN 200 ELSE 401
        /\ \E t \in {200, -1, 401} : Told(t)

Accepted ==
    pc \in {"server", "client"} /\ Honest /\ ~isAuthFailed(ret) =>
        knows /\ Active(report) \cap setup.refused = {}

GoesInv == ServerTrusted /\ SourcesLeft /\ ReplyTrue /\ Accepted /\ GoesOnForCause

LEMMA OwnStatus ==
    ASSUME TypeOK, NEW s \in Active(report), AlertStatus(s) # -1
    PROVE  RetAfter(s) = AlertStatus(s)
<1>1. s \in 1..NumSources /\ s \in 0..NumSources /\ NumSources \in Nat
  BY NumSourcesAssumption DEF Active, Sources
<1>2. LastWithStatus(s) = s
  BY <1>1, LastFacts
<1> QED
  BY <1>1, <1>2 DEF RetAfter

LEMMA NoStatus ==
    ASSUME TypeOK, NEW n \in 0..NumSources, \A s \in Active(report) : AlertStatus(s) = -1
    PROVE  /\ isAuthFailed(reply.hdr) => RetAfter(n) = reply.hdr
           /\ ~isAuthFailed(reply.hdr) /\ n \in Active(report) => RetAfter(n) = -1
<1>1. LastWithStatus(n) = 0
  BY LastFacts
<1>2. n \in Active(report) => 0 < n
  BY DEF Active, Sources
<1> QED
  BY <1>1, <1>2 DEF RetAfter, Outlives

(* The codes after each source, when the server is honest. *)
LEMMA HonestCodes ==
    ASSUME TypeOK, ReplyTrue, pc = "answered", Honest
    PROVE  /\ ~knows => \A n \in 0..NumSources : RetAfter(n) = 401
           /\ knows /\ WithAlerts => Refused = Active(report) \cap setup.refused
           /\ knows /\ ~WithAlerts => Refused = Active(report)
<1>1. /\ reply.hdr = IF knows THEN 200 ELSE 401
      /\ \E t \in {200, -1, 401} : Told(t)
  BY DEF ReplyTrue
<1>2. PICK t \in {200, -1, 401} : Told(t)
  BY <1>1
<1>3. Active(report) \subseteq Sources /\ Active(report) \subseteq 0..NumSources
  BY NumSourcesAssumption DEF Active, Sources
<1>4. isAuthFailed(401) /\ ~isAuthFailed(200)
  BY DEF isAuthFailed
<1>5. ASSUME ~knows, NEW n \in 0..NumSources PROVE RetAfter(n) = 401
  <2>1. CASE ~WithAlerts \/ t = -1
    <3>1. \A s \in Active(report) : AlertStatus(s) = -1
      BY <1>2, <1>3, <1>5, <2>1 DEF Told, AlertStatus
    <3> QED
      BY <1>1, <1>4, <1>5, <3>1, NoStatus
  <2>2. CASE WithAlerts /\ t = 401
    <3>1. \A s \in Active(report) : AlertStatus(s) = 401
      BY <1>2, <1>3, <1>5, <2>2 DEF Told, AlertStatus
    <3> DEFINE q == LastWithStatus(n)
    <3>2. q = 0 \/ q \in Active(report)
      BY LastFacts
    <3>3. (IF q = 0 THEN reply.hdr ELSE AlertStatus(q)) = 401
      BY <1>1, <1>5, <3>1, <3>2
    <3> QED
      BY <1>4, <3>3 DEF RetAfter, Outlives
  <2> QED
    BY <1>2, <1>5, <2>1, <2>2 DEF Told
<1>6. ASSUME knows, WithAlerts PROVE Refused = Active(report) \cap setup.refused
  <2>1. \A s \in Active(report) : AlertStatus(s) = IF s \in setup.refused THEN 404 ELSE 200
    BY <1>2, <1>3, <1>6 DEF Told, AlertStatus
  <2>2. \A s \in Active(report) : RetAfter(s) = IF s \in setup.refused THEN 404 ELSE 200
    BY <2>1, OwnStatus
  <2> QED
    BY <2>2 DEF Refused
<1>7. ASSUME knows, ~WithAlerts PROVE Refused = Active(report)
  <2>1. \A s \in Active(report) : AlertStatus(s) = -1
    BY <1>7 DEF AlertStatus
  <2>2. \A s \in Active(report) : RetAfter(s) = -1
    BY <1>1, <1>3, <1>4, <1>7, <2>1, NoStatus
  <2> QED
    BY <2>2 DEF Refused
<1> QED
  BY <1>5, <1>6, <1>7

LEMMA GoesInit == Init => GoesInv
<1> SUFFICES ASSUME Init PROVE GoesInv
  OBVIOUS
<1>1. 1 \in Sources
  BY NumSourcesAssumption DEF Sources
<1>2. ~isToExit(report)
  BY <1>1 DEF Init, isToExit, Active
<1> QED
  BY <1>2 DEF Init, GoesInv, ServerTrusted, SourcesLeft, ReplyTrue, Accepted, GoesOnForCause

LEMMA GoesNext == TypeOK /\ GoesInv /\ [Next]_vars => GoesInv'
<1> SUFFICES ASSUME TypeOK, GoesInv, [Next]_vars PROVE GoesInv'
  OBVIOUS
<1> USE DEF handler, progress, sending, result, serverVars, history
<1>a. ABORTED # 0 /\ ERR_REPRESENTATION # 0
  BY DEF ABORTED, ERR_REPRESENTATION
<1>1. CASE Start
  BY <1>1, <1>a DEF Start, Finish, GoesInv, ServerTrusted, SourcesLeft, ReplyTrue, Accepted, GoesOnForCause, Honest, InSession
<1>2. CASE Abort
  BY <1>2 DEF Abort, GoesInv, ServerTrusted, SourcesLeft, ReplyTrue, Accepted, GoesOnForCause,
     Honest, InSession, Told, WithAlerts
<1>3. CASE Aborted
  BY <1>3, <1>a DEF Aborted, Finish, GoesInv, ServerTrusted, SourcesLeft, ReplyTrue, Accepted, GoesOnForCause, Honest, InSession
<1>4. CASE ErrorBeforeSend
  <2>1. lastErrorCode # 0 /\ pc' = "ended" /\ ret' = lastErrorCode
        /\ UNCHANGED <<setup, isServerAuthenticated>>
    BY <1>4 DEF ErrorBeforeSend, ErrorPending, Finish, progress
  <2>2. UNCHANGED <<reply, handler, config, sending>> \/ reply' = NoReply
    BY <1>4 DEF ErrorBeforeSend, Finish
  <2> QED
    BY <2>1, <2>2, <1>a DEF GoesInv, ServerTrusted, SourcesLeft, ReplyTrue, Accepted, GoesOnForCause, Honest, InSession
<1>5. CASE Send
  BY <1>5, <1>a DEF Send, Finish, GoesInv, ServerTrusted, SourcesLeft, ReplyTrue, Accepted, GoesOnForCause, Honest, InSession
<1>6. CASE Answer
  <2>1. ReplyTrue'
    <3> SUFFICES ASSUME Honest'
                 PROVE  /\ reply'.hdr = IF knows' THEN 200 ELSE 401
                        /\ \E t \in {200, -1, 401} : Told(t)'
      BY DEF ReplyTrue
    <3>1. PICK chal \in Types \cup {"none"} : ServerHears(chal) /\ HonestReply(chal)
      BY <1>6 DEF Answer, StrangersReply, Honest
    <3>2. knows' = Accepts /\ WithAlerts' = WithAlerts /\ setup' = setup
      BY <1>6, <3>1 DEF ServerHears, Answer, WithAlerts
    <3>3. PICK t \in (IF Accepts THEN {200} ELSE {-1, 401}) :
             /\ reply'.hdr = IF Accepts THEN 200 ELSE 401
             /\ reply'.alerts = [s \in Sources |->
                      CASE ~WithAlerts -> -1
                        [] WithAlerts /\ Accepts /\ s \in setup.refused -> 404
                        [] OTHER -> t]
      BY <3>1 DEF HonestReply
    <3>4. \A s \in Sources :
             reply'.alerts[s] = IF ~WithAlerts THEN -1
                                ELSE IF Accepts /\ s \in setup.refused THEN 404 ELSE t
      BY <3>3
    <3>5. (Accepts => t = 200) /\ (~Accepts => t \in {-1, 401})
      BY <3>3
    <3>6. Told(t)'
      BY <3>2, <3>4, <3>5 DEF Told
    <3> QED
      BY <3>2, <3>3, <3>5, <3>6
  <2> QED
    BY <1>6, <2>1 DEF Answer, GoesInv, ServerTrusted, SourcesLeft, Accepted, GoesOnForCause,
       Honest, InSession
<1>7. CASE NoAnswer
  <2>1. pc' = "ended" /\ "lost" \in trouble' /\ isServerAuthenticated' = isServerAuthenticated
        /\ setup' = setup
    BY <1>7 DEF NoAnswer, Finish
  <2>2. ret' = 0 => NothingCame'
    BY <1>7, <1>a, <2>1 DEF NoAnswer, Finish, RetOfNothing, Excused, NothingCame
  <2> QED
    BY <2>1, <2>2 DEF GoesInv, ServerTrusted, SourcesLeft, ReplyTrue, Accepted, GoesOnForCause,
       Honest, InSession
<1>8. CASE BadHeader
  <2>1. pc' = "ended" /\ ret' # 0
    BY <1>8, <1>a DEF BadHeader, Finish, isErrorStatus
  <2> QED
    BY <1>8, <2>1 DEF BadHeader, GoesInv, ServerTrusted, SourcesLeft, ReplyTrue, Accepted,
       GoesOnForCause, Honest, InSession
<1>9. CASE Alerts
  <2>1. /\ report' = [s \in Sources |-> IF s \in Refused THEN "error" ELSE report[s]]
        /\ pc = "answered" /\ UNCHANGED <<setup, isServerAuthenticated, knows>>
    BY <1>9 DEF Alerts
  <2>2. Active(report') = Active(report) \ Refused
    BY <2>1 DEF Active, Refused
  <2>3. ServerTrusted'
    BY <2>1 DEF GoesInv, ServerTrusted, Honest
  <2>4. CASE isToExit(report')
    <3>1. Refused # {}
      BY <2>1, <2>2, <2>4 DEF GoesInv, SourcesLeft, InSession, isToExit
    <3>2. lastErrorCode' \in {-1, 404, 415}
      BY <1>9, <3>1, RefusedStatus DEF Alerts
    <3>3. pc' = "ended" /\ ret' # 0
      BY <1>9, <2>4, <3>2 DEF Alerts, Finish
    <3> QED
      BY <2>3, <3>3 DEF GoesInv, SourcesLeft, ReplyTrue, Accepted, GoesOnForCause, InSession
  <2>5. CASE ~isToExit(report')
    <3>1. pc' = "server" /\ ret' = RetAfter(NumSources)
      BY <1>9, <2>5 DEF Alerts
    <3>2. ASSUME Honest, ~isAuthFailed(ret')
          PROVE  knows /\ Active(report') \cap setup.refused = {}
      <4>1. NumSources \in 0..NumSources /\ isAuthFailed(401)
        BY NumSourcesAssumption DEF isAuthFailed
      <4>2. knows
        BY <2>1, <3>1, <3>2, <4>1, HonestCodes DEF GoesInv
      <4>3. WithAlerts
        BY <2>1, <2>2, <2>5, <3>2, <4>2, HonestCodes DEF GoesInv, isToExit
      <4> QED
        BY <2>1, <2>2, <3>2, <4>2, <4>3, HonestCodes DEF GoesInv
    <3>3. Accepted'
      BY <2>1, <3>2 DEF Accepted, Honest
    <3> QED
      BY <2>3, <2>5, <3>1, <3>3 DEF GoesInv, SourcesLeft, ReplyTrue, GoesOnForCause
  <2> QED
    BY <2>4, <2>5
<1>10. CASE NoServerAuth
  BY <1>10, <1>a DEF NoServerAuth, Finish, GoesInv, ServerTrusted, SourcesLeft, ReplyTrue, Accepted, GoesOnForCause, Honest, InSession
<1>11. CASE ServerAuth
  <2>1. Honest
    BY <1>11 DEF ServerAuth, TrustedCred, ServerProves, Honest
  <2> QED
    BY <1>11, <2>1 DEF ServerAuth, GoesInv, ServerTrusted, SourcesLeft, ReplyTrue, Accepted,
       GoesOnForCause, Honest, InSession
<1>12. CASE ServerAuthAgain
  BY <1>12, <1>a DEF ServerAuthAgain, Finish, GoesInv, ServerTrusted, SourcesLeft, ReplyTrue, Accepted, GoesOnForCause, Honest, InSession
<1>13. CASE ServerNotAuthenticated
  BY <1>13, <1>a DEF ServerNotAuthenticated, Finish, GoesInv, ServerTrusted, SourcesLeft, ReplyTrue, Accepted, GoesOnForCause, Honest, InSession
<1>14. CASE ClientAuthAgain
  <2>1. pc' \in {"loop", "ended"} /\ ret' # 0
    BY <1>14 DEF ClientAuthAgain, LoopEnds, isAuthFailed
  <2> QED
    BY <1>14, <2>1 DEF ClientAuthAgain, GoesInv, ServerTrusted, SourcesLeft, ReplyTrue, Accepted,
       GoesOnForCause, Honest, InSession
<1>15. CASE ClientNotAuthenticated
  BY <1>15, <1>a DEF ClientNotAuthenticated, Finish, GoesInv, ServerTrusted, SourcesLeft, ReplyTrue, Accepted, GoesOnForCause, Honest, InSession
<1>16. CASE ClientAuth
  <2>1. /\ pc = "client" /\ ~isAuthFailed(ret) /\ isClientAuthenticated' = TRUE
        /\ UNCHANGED <<setup, knows, report, isServerAuthenticated>>
        /\ pc' \in {"loop", "ended"} /\ (pc' = "ended" => isServerAuthenticated)
    BY <1>16 DEF ClientAuth, LoopEnds
  <2>2. ServerTrusted' /\ SourcesLeft' /\ ReplyTrue' /\ Accepted'
    BY <2>1 DEF GoesInv, ServerTrusted, SourcesLeft, ReplyTrue, Accepted, Honest, InSession
  <2>3. /\ setup.required /\ isServerAuthenticated => setup.server = "honest"
        /\ ~isToExit(report)
        /\ setup.server = "honest" => knows /\ Active(report) \cap setup.refused = {}
    BY <2>1 DEF GoesInv, ServerTrusted, SourcesLeft, Accepted, Honest, InSession
  <2>4. GoesOnForCause'
    BY <2>1, <2>3 DEF GoesOnForCause
  <2> QED
    BY <2>2, <2>4 DEF GoesInv
<1>17. CASE Leave
  <2>1. 1 \in Sources
    BY NumSourcesAssumption DEF Sources
  <2>2. ~isToExit(report')
    BY <1>17, <2>1 DEF Leave, Forgotten, isToExit, Active
  <2> QED
    BY <1>17, <2>2 DEF Leave, Forgotten, GoesInv, ServerTrusted, SourcesLeft, ReplyTrue, Accepted,
       GoesOnForCause, InSession
<1>18. CASE DevInfChanges
  BY <1>18, <1>a DEF DevInfChanges, Finish, GoesInv, ServerTrusted, SourcesLeft, ReplyTrue, Accepted, GoesOnForCause, Honest, InSession
<1>19. CASE UNCHANGED vars
  BY <1>19 DEF vars, GoesInv, ServerTrusted, SourcesLeft, ReplyTrue, Accepted, GoesOnForCause, Honest, InSession, Told, WithAlerts, NothingCame
<1> QED
  BY <1>1, <1>2, <1>3, <1>4, <1>5, <1>6, <1>7, <1>8, <1>9, <1>10, <1>11, <1>12, <1>13, <1>14, <1>15, <1>16, <1>17, <1>18, <1>19 DEF Next, Session

(* SyncManager::prepareSync() returns 0 only after the server has accepted *)
(* the client, proved itself where it has to, and has a source: for any    *)
(* number of sources, whatever a stranger answers.                         *)
THEOREM GoesOnWithCause == Spec => []GoesOnForCause
<1>1. TypeOK /\ GoesInv => GoesOnForCause
  BY DEF GoesInv
<1>2. Init => TypeOK /\ GoesInv
  BY TypeInit, GoesInit
<1>3. TypeOK /\ GoesInv /\ [Next]_vars => (TypeOK /\ GoesInv)'
  BY TypeNext, GoesNext
<1> QED
  BY <1>1, <1>2, <1>3, PTL DEF Spec

-----------------------------------------------------------------------------
(* The nonces within a session and from one to the next: without MD5 there *)
(* are none.                                                               *)
NoNonces ==
    /\ Honest /\ setup.demands = "basic" =>
           expects = 0 /\ config.clientNonce = 0 /\ clientNonce = 0
    /\ Honest /\ setup.serverType = "basic" =>
           proves = 0 /\ config.serverNonce = 0 /\ serverNonce = 0

(* What an honest server asks for: nothing of a client it accepts.         *)
Open == pc \in {"answered", "server", "client"}

Challenged ==
    Open /\ Honest =>
        /\ reply.chal \in {"none", setup.demands}
        /\ ~knows => reply.chal = setup.demands

(* After the first answer the client has the nonce the server expects, or  *)
(* the answer to take it from.                                             *)
Same ==
    Honest =>
        /\ pc \in {"loop", "sent"} /\ rounds > 0 => clientNonce = expects
        /\ Open /\ reply.chal # "md5" => clientNonce = expects
        /\ InSession /\ knows => rounds > 0
        /\ pc = "idle" => rounds = 0 /\ ~knows

(* A session that is not over lacks one of the authentications.            *)
Lacks ==
    /\ pc = "idle" => ~isClientAuthenticated
    /\ pc \in {"loop", "sent", "answered"} => ~(isClientAuthenticated /\ isServerAuthenticated)
    /\ pc = "server" /\ isClientAuthenticated => ~isServerAuthenticated
    /\ pc = "client" => commands # "none"

(* What success leaves behind. *)
Saved ==
    Succeeded /\ Honest =>
        /\ commands # "none"
        /\ clientNonce = expects
        /\ config.clientNonce = clientNonce /\ config.serverNonce = serverNonce

NonceInv == NoNonces /\ Challenged /\ Same /\ Lacks /\ Saved /\ NoncesInStep

LEMMA SameSetup == [Next]_vars => setup' = setup
  BY DEF vars, Next, Session, Start, Abort, Aborted, ErrorBeforeSend, Send, Answer, NoAnswer,
     BadHeader, Alerts, NoServerAuth, ServerAuth, ServerAuthAgain, ServerNotAuthenticated,
     ClientAuthAgain, ClientNotAuthenticated, ClientAuth, Leave, DevInfChanges

LEMMA NonceInit == Init => NonceInv
  BY DEF Init, NonceInv, NoNonces, Challenged, Same, Lacks, Saved, NoncesInStep, Open,
     InSession, Succeeded

LEMMA NonceNext == TypeOK /\ NonceInv /\ GoesInv /\ [Next]_vars => NonceInv'
<1> SUFFICES ASSUME TypeOK, NonceInv, GoesInv, [Next]_vars PROVE NonceInv'
  OBVIOUS
<1> USE DEF handler, progress, sending, result, serverVars, history, Honest
<1>a. /\ setup.demands \in Types /\ setup.serverType \in Types /\ setup' = setup
      /\ Types = {"basic", "md5"} /\ rounds \in Nat
  <2>1. setup \in SetupType /\ rounds \in 0..MaxRounds
    BY SetupsAssumption DEF TypeOK
  <2> QED
    BY <2>1, SameSetup, MaxRoundsAssumption DEF SetupType, Types
<1>b. ABORTED # 0
  BY DEF ABORTED
<1>c. ASSUME NEW chal, ServerHears(chal)
      PROVE  /\ Honest /\ chal \in {"none", setup.demands} /\ (~knows' => chal = setup.demands)
             /\ expects' = IF chal = "md5" THEN NextNonce ELSE expects
             /\ setup.demands = "basic" => expects' = expects
             /\ setup.serverType = "basic" => proves' = proves
             /\ NonceInv /\ pc = "sent" /\ chal # "md5" => clientNonce = expects
  <2>1. Honest /\ chal \in {"none", setup.demands} /\ (~knows' => chal = setup.demands)
    BY <1>c DEF ServerHears, Challenges
  <2>2. expects' = IF chal = "md5" THEN NextNonce ELSE expects
    BY <1>c DEF ServerHears
  <2>3. setup.serverType = "basic" => proves' = proves
    BY <1>c DEF ServerHears, Adopts
  <2>4. ASSUME NonceInv, pc = "sent", chal # "md5" PROVE clientNonce = expects
    <3>1. CASE setup.demands = "basic"
      BY <2>1, <2>4, <3>1 DEF NonceInv, NoNonces
    <3>2. CASE setup.demands = "md5"
      <4>1. Accepts
        BY <1>c, <2>4, <3>2 DEF ServerHears, Challenges
      <4> QED
        BY <2>1, <2>4, <3>2, <4>1 DEF Accepts, NonceInv, Same, InSession
    <3> QED
      BY <1>a, <3>1, <3>2
  <2> QED
    BY <2>1, <2>2, <2>3, <2>4
<1>d. ASSUME LoopEnds PROVE /\ pc' \in {"loop", "ended"}
                            /\ pc' = "ended" <=> isClientAuthenticated' /\ isServerAuthenticated
                            /\ pc' = "loop" => config' = config
                            /\ pc' = "ended" => /\ config'.clientNonce = clientNonce'
                                                /\ config'.serverNonce = serverNonce
  BY <1>d DEF LoopEnds, Learnt
<1>e. ASSUME TakesNonce, pc = "client", Honest
      PROVE  clientNonce' = expects
  BY <1>e, <1>a DEF TakesNonce, NonceInv, Same, Open
<1>1. CASE Start
  <2>1. /\ pc = "idle" /\ pc' = "loop"
        /\ clientNonce' = config.clientNonce /\ serverNonce' = config.serverNonce
        /\ UNCHANGED <<config, serverVars, isClientAuthenticated, rounds>>
    BY <1>1 DEF Start
  <2>2. NoNonces' /\ Same'
    BY <1>a, <2>1 DEF NonceInv, NoNonces, Same, Open, InSession
  <2>3. Lacks'
    BY <2>1 DEF NonceInv, Lacks
  <2> QED
    BY <2>1, <2>2, <2>3 DEF NonceInv, Challenged, Saved, NoncesInStep, Open, Succeeded
<1>2. CASE Abort
  BY <1>2 DEF Abort, NonceInv, NoNonces, Challenged, Same, Lacks, Saved, NoncesInStep, Open,
     InSession, Succeeded
<1>3. CASE Aborted
  BY <1>3, <1>b DEF Aborted, Finish, NonceInv, NoNonces, Challenged, Same, Lacks, Saved, NoncesInStep,
     Open, InSession, Succeeded
<1>4. CASE ErrorBeforeSend
  BY <1>4 DEF ErrorBeforeSend, ErrorPending, Finish, NonceInv, NoNonces, Challenged, Same, Lacks, Saved,
     NoncesInStep, Open, InSession, Succeeded
<1>5. CASE Send
  BY <1>5 DEF Send, NonceInv, NoNonces, Challenged, Same, Lacks, Saved, NoncesInStep, Open, InSession,
     Succeeded
<1>6. CASE Answer
  <2>1. /\ pc = "sent" /\ pc' = "answered" /\ rounds' = OneMore(rounds)
        /\ UNCHANGED <<config, clientNonce, serverNonce, isClientAuthenticated,
                       isServerAuthenticated>>
    BY <1>6 DEF Answer
  <2>2. rounds' \in Nat /\ rounds' > 0
    BY <2>1, Counting, MaxRoundsAssumption DEF TypeOK
  <2>3. ASSUME Honest
        PROVE  \E chal \in Types \cup {"none"} : ServerHears(chal) /\ reply'.chal = chal
    BY <1>6, <2>3 DEF Answer, HonestReply, StrangersReply
  <2>4. NoNonces' /\ Challenged' /\ Same'
    <3>1. CASE ~Honest
      BY <1>a, <3>1 DEF NoNonces, Challenged, Same
    <3>2. ASSUME Honest PROVE NoNonces' /\ Challenged' /\ Same'
      <4>1. PICK chal \in Types \cup {"none"} : ServerHears(chal) /\ reply'.chal = chal
        BY <2>3, <3>2
      <4>2. NoNonces'
        BY <1>a, <1>c, <2>1, <4>1 DEF NonceInv, NoNonces
      <4>3. Challenged'
        BY <1>a, <1>c, <2>1, <4>1 DEF Challenged
      <4>4. Same'
        BY <1>a, <1>c, <2>1, <2>2, <4>1 DEF Same
      <4> QED
        BY <4>2, <4>3, <4>4
    <3> QED
      BY <3>1, <3>2
  <2> QED
    BY <2>1, <2>4 DEF NonceInv, Lacks, Saved, NoncesInStep, Succeeded
<1>7. CASE NoAnswer
  <2>1. /\ pc = "sent" /\ pc' = "ended"
        /\ UNCHANGED <<config, clientNonce, serverNonce, isClientAuthenticated,
                       isServerAuthenticated>>
    BY <1>7 DEF NoAnswer, Finish
  <2>2. NoNonces'
    <3>1. CASE UNCHANGED serverVars
      BY <1>a, <2>1, <3>1 DEF NonceInv, NoNonces
    <3>2. CASE \E chal \in Types \cup {"none"} : ServerHears(chal)
      BY <1>a, <1>c, <2>1, <3>2 DEF NonceInv, NoNonces
    <3> QED
      BY <1>7, <3>1, <3>2 DEF NoAnswer
  <2> QED
    BY <2>1, <2>2 DEF NonceInv, Challenged, Same, Lacks, Saved, NoncesInStep, Open, InSession,
       Succeeded
<1>8. CASE BadHeader
  BY <1>8 DEF BadHeader, Finish, NonceInv, NoNonces, Challenged, Same, Lacks, Saved, NoncesInStep,
     Open, InSession, Succeeded
<1>9. CASE Alerts
  <2>1. /\ pc = "answered"
        /\ \/ pc' = "server" /\ reply' = reply
           \/ pc' = "ended"
        /\ UNCHANGED <<config, handler, progress, sending, serverVars, history>>
    BY <1>9 DEF Alerts, Finish
  <2> QED
    BY <1>a, <2>1 DEF NonceInv, NoNonces, Challenged, Same, Lacks, Saved, NoncesInStep, Open,
       InSession, Succeeded
<1>10. CASE NoServerAuth
  BY <1>10 DEF NoServerAuth, NonceInv, NoNonces, Challenged, Same, Lacks, Saved, NoncesInStep,
     Open, InSession, Succeeded
<1>11. CASE ServerAuth
  <2>1. setup.serverType = "basic" => serverNonce' = serverNonce
    BY <1>11 DEF ServerAuth, getServerChal
  <2> QED
    BY <1>11, <2>1 DEF ServerAuth, NonceInv, NoNonces, Challenged, Same, Lacks, Saved,
       NoncesInStep, Open, InSession, Succeeded
<1>12. CASE ServerAuthAgain
  <2>1. setup.serverType = "basic" => serverNonce' = serverNonce
    BY <1>12 DEF ServerAuthAgain, getServerChal
  <2> QED
    BY <1>12, <2>1 DEF ServerAuthAgain, NonceInv, NoNonces, Challenged, Same, Lacks, Saved,
       NoncesInStep, Open, InSession, Succeeded
<1>13. CASE ServerNotAuthenticated
  BY <1>13 DEF ServerNotAuthenticated, Finish, NonceInv, NoNonces, Challenged, Same, Lacks, Saved,
     NoncesInStep, Open, InSession, Succeeded
<1>14. CASE ClientAuthAgain
  <2>1. /\ pc = "client" /\ LoopEnds /\ TakesNonce /\ ret' # 0
        /\ UNCHANGED <<setup, serverNonce, isClientAuthenticated, isServerAuthenticated,
                       serverVars, sending, rounds, cut>>
    BY <1>14 DEF ClientAuthAgain, isAuthFailed
  <2>2. NoNonces'
    BY <1>a, <1>d, <1>e, <2>1 DEF NonceInv, NoNonces
  <2>3. Same'
    BY <1>d, <1>e, <2>1 DEF Same, Open, InSession, NonceInv
  <2> QED
    BY <1>d, <2>1, <2>2, <2>3 DEF NonceInv, Challenged, Lacks, Saved, NoncesInStep, Open, InSession,
       Succeeded
<1>15. CASE ClientNotAuthenticated
  BY <1>15 DEF ClientNotAuthenticated, Finish, NonceInv, NoNonces, Challenged, Same, Lacks, Saved,
     NoncesInStep, Open, InSession, Succeeded
<1>16. CASE ClientAuth
  <2>1. /\ pc = "client" /\ LoopEnds /\ TakesNonce /\ isClientAuthenticated'
        /\ UNCHANGED <<setup, serverNonce, isServerAuthenticated, serverVars, sending, rounds, cut>>
    BY <1>16 DEF ClientAuth
  <2>2. NoNonces'
    BY <1>a, <1>d, <1>e, <2>1 DEF NonceInv, NoNonces
  <2>3. Same'
    BY <1>d, <1>e, <2>1 DEF Same, Open, InSession, NonceInv
  <2>4. Saved'
    BY <1>d, <1>e, <2>1 DEF Saved, Succeeded, NonceInv, Lacks
  <2> QED
    BY <1>d, <2>1, <2>2, <2>3, <2>4 DEF NonceInv, Challenged, Lacks, NoncesInStep, Open, InSession
<1>17. CASE Leave
  <2>1. /\ pc' = "idle" /\ clientNonce' = 0 /\ serverNonce' = 0 /\ UNCHANGED <<config, expects>>
        /\ rounds' = 0 /\ ~knows' /\ ~isClientAuthenticated'
    BY <1>17 DEF Leave, Forgotten
  <2>2. setup.serverType = "basic" => proves' = proves
    BY <1>17 DEF Leave, Adopts
  <2>3. NoNonces'
    BY <1>a, <2>1, <2>2 DEF NonceInv, NoNonces
  <2>4. NoncesInStep'
    <3> SUFFICES ASSUME Honest, ~cut'
                 PROVE  config.clientNonce = expects /\ config.serverNonce = proves'
      BY <1>a, <2>1 DEF NoncesInStep
    <3>1. Succeeded /\ Adopts
      BY <1>17 DEF Leave
    <3> QED
      BY <1>a, <3>1 DEF Adopts, NonceInv, Saved, NoNonces
  <2> QED
    BY <2>1, <2>3, <2>4 DEF NonceInv, Challenged, Same, Lacks, Saved, Open, InSession, Succeeded
<1>18. CASE DevInfChanges
  BY <1>18 DEF DevInfChanges, TypeOK, NonceInv, NoNonces, Challenged, Same, Lacks, Saved, NoncesInStep,
     Open, InSession, Succeeded
<1>19. CASE UNCHANGED vars
  BY <1>19 DEF vars, NonceInv, NoNonces, Challenged, Same, Lacks, Saved, NoncesInStep, Open, InSession,
     Succeeded
<1> QED
  BY <1>1, <1>2, <1>3, <1>4, <1>5, <1>6, <1>7, <1>8, <1>9, <1>10, <1>11, <1>12, <1>13, <1>14, <1>15, <1>16, <1>17, <1>18, <1>19 DEF Next, Session

(* A session that went well leaves the client and an honest server with    *)
(* the same nonces (SyncManager::prepareSync() saves them at its end), so  *)
(* that the next one starts with credentials that are accepted.            *)
THEOREM NoncesStayInStep == Spec => []NoncesInStep
<1>1. TypeOK /\ GoesInv /\ NonceInv => NoncesInStep
  BY DEF NonceInv
<1>2. Init => TypeOK /\ GoesInv /\ NonceInv
  BY TypeInit, GoesInit, NonceInit
<1>3. TypeOK /\ GoesInv /\ NonceInv /\ [Next]_vars => (TypeOK /\ GoesInv /\ NonceInv)'
  BY TypeNext, GoesNext, NonceNext
<1> QED
  BY <1>1, <1>2, <1>3, PTL DEF Spec

-----------------------------------------------------------------------------
(* With Basic on both sides the first message is accepted, or none is.     *)
DevInfSent ==
    Honest /\ setup.demands = "basic" /\ setup.clientType = "basic" =>
        /\ clientAuthType = "basic"
        /\ Open => reply.chal # "md5"
        /\ config.devInfHash = "current" => hasDevInf
        /\ knows => setup.password
        /\ isClientAuthenticated => knows
        /\ InSession /\ setup.sendDevInfo /\ setup.password =>
               hasDevInf \/ (pc \in {"loop", "sent"} /\ putDevInf)

LEMMA DevInfInit == Init => DevInfSent
  BY DEF Init, DevInfSent, Open, InSession

LEMMA DevInfNext == TypeOK /\ GoesInv /\ DevInfSent /\ [Next]_vars => DevInfSent'
<1> SUFFICES ASSUME TypeOK, GoesInv, DevInfSent, [Next]_vars PROVE DevInfSent'
  OBVIOUS
<1> DEFINE Basics == Honest /\ setup.demands = "basic" /\ setup.clientType = "basic"
<1>1. setup' = setup
  BY SameSetup
<1> SUFFICES ASSUME Basics PROVE DevInfSent'
  BY <1>1 DEF DevInfSent, Honest
<1> USE DEF handler, progress, sending, result, serverVars, history, Honest
<1>2. ASSUME NEW chal, ServerHears(chal), pc = "sent"
      PROVE  /\ chal # "md5"
             /\ hasDevInf => hasDevInf'
             /\ knows => knows'
             /\ knows' => setup.password
             /\ setup.sendDevInfo /\ setup.password => hasDevInf'
  <2>1. chal # "md5" /\ hasDevInf' = (hasDevInf \/ (putDevInf /\ Accepts)) /\ knows' = Accepts
    BY <1>2 DEF ServerHears, Challenges
  <2>2. Accepts <=> knows \/ (WithAlerts /\ setup.password)
    BY DEF Accepts, DevInfSent
  <2>3. (setup.sendDevInfo /\ setup.password => hasDevInf \/ putDevInf)
        /\ (knows => setup.password) /\ (isClientAuthenticated => knows)
    BY <1>2 DEF DevInfSent, InSession
  <2> QED
    BY <2>1, <2>2, <2>3 DEF WithAlerts
<1>3. CASE Start
  BY <1>3 DEF Start, SendsDevInf, DevInfSent, Open, InSession
<1>4. CASE Answer
  <2>1. PICK chal \in Types \cup {"none"} : ServerHears(chal) /\ HonestReply(chal)
    BY <1>4 DEF Answer, StrangersReply
  <2>2. reply'.chal = chal
    BY <2>1 DEF HonestReply
  <2>3. /\ pc = "sent" /\ pc' = "answered"
        /\ UNCHANGED <<setup, clientAuthType, config, isClientAuthenticated>>
    BY <1>4 DEF Answer
  <2> QED
    BY <1>2, <2>1, <2>2, <2>3 DEF DevInfSent, Open, InSession
<1>5. CASE NoAnswer
  <2>1. /\ pc = "sent" /\ pc' = "ended"
        /\ UNCHANGED <<setup, clientAuthType, config, isClientAuthenticated>>
        /\ UNCHANGED serverVars \/ \E chal \in Types \cup {"none"} : ServerHears(chal)
    BY <1>5 DEF NoAnswer, Finish
  <2> QED
    BY <1>2, <2>1 DEF DevInfSent, Open, InSession
<1>6. CASE Alerts
  <2>1. /\ pc = "answered"
        /\ \/ pc' = "server" /\ reply' = reply
           \/ pc' = "ended"
        /\ UNCHANGED <<setup, config, handler, progress, sending, serverVars, history>>
    BY <1>6 DEF Alerts, Finish
  <2> QED
    BY <2>1 DEF DevInfSent, Open, InSession
<1>7. CASE ClientAuthAgain
  <2>1. /\ pc = "client" /\ LoopEnds /\ Requested = "basic" /\ clientAuthType' = "basic"
        /\ UNCHANGED <<setup, serverVars, sending, isClientAuthenticated, isServerAuthenticated>>
    <3>1. reply.chal \in {"none", "basic"}
      BY <1>7 DEF ClientAuthAgain, TypeOK, Types, DevInfSent, Open
    <3> QED
      BY <1>7, <3>1 DEF ClientAuthAgain, Requested, DevInfSent
  <2>2. \/ pc' = "loop" /\ config' = config
        \/ pc' = "ended" /\ isClientAuthenticated
           /\ (config'.devInfHash = "current" => setup.sendDevInfo)
    BY <2>1 DEF LoopEnds, Learnt
  <2> QED
    BY <2>1, <2>2 DEF DevInfSent, Open, InSession
<1>8. CASE ClientAuth
  <2>1. /\ pc = "client" /\ LoopEnds /\ knows
        /\ UNCHANGED <<setup, serverVars, sending, clientAuthType>>
    BY <1>8 DEF ClientAuth, GoesInv, Accepted
  <2>2. \/ pc' = "loop" /\ config' = config
        \/ pc' = "ended" /\ (config'.devInfHash = "current" => setup.sendDevInfo)
    BY <2>1 DEF LoopEnds, Learnt
  <2> QED
    BY <2>1, <2>2 DEF DevInfSent, Open, InSession
<1>9. CASE Leave
  BY <1>9 DEF Leave, Forgotten, DevInfSent, Open, InSession
<1>10. CASE DevInfChanges
  BY <1>10 DEF DevInfChanges, TypeOK, DevInfSent, Open, InSession
<1>11. CASE Abort \/ Send
  BY <1>11 DEF Abort, Send, DevInfSent, Open, InSession
<1>12. CASE Aborted \/ ErrorBeforeSend \/ BadHeader \/ ServerNotAuthenticated \/ ClientNotAuthenticated
  <2>1. pc' = "ended" /\ UNCHANGED <<setup, config, clientAuthType, isClientAuthenticated, serverVars>>
    BY <1>12 DEF Aborted, ErrorBeforeSend, BadHeader, ServerNotAuthenticated,
       ClientNotAuthenticated, Finish
  <2> QED
    BY <2>1 DEF DevInfSent, Open, InSession
<1>13. CASE NoServerAuth \/ ServerAuth \/ ServerAuthAgain
  <2>1. /\ pc = "server" /\ pc' = "client"
        /\ UNCHANGED <<setup, config, reply, clientAuthType, isClientAuthenticated, serverVars>>
    BY <1>13 DEF NoServerAuth, ServerAuth, ServerAuthAgain
  <2> QED
    BY <2>1 DEF DevInfSent, Open, InSession
<1>14. CASE UNCHANGED vars
  BY <1>14 DEF vars, DevInfSent, Open, InSession
<1> QED
  BY <1>3, <1>4, <1>5, <1>6, <1>7, <1>8, <1>9, <1>10, <1>11, <1>12, <1>13, <1>14 DEF Next, Session

(* The configuration keeps the hash of device information that an honest   *)
(* server does not have only where MD5 is in play, and the message with    *)
(* the Put may have been refused for its credentials.                      *)
THEOREM DevInfMissingForCause == Spec => []DevInfForCause
<1>1. TypeOK /\ GoesInv /\ DevInfSent => DevInfForCause
  <2>1. TypeOK => setup.demands \in Types /\ setup.clientType \in Types
    BY SetupsAssumption DEF TypeOK, SetupType
  <2> QED
    BY <2>1 DEF DevInfSent, DevInfForCause, Honest, Types
<1>2. Init => TypeOK /\ GoesInv /\ DevInfSent
  BY TypeInit, GoesInit, DevInfInit
<1>3. TypeOK /\ GoesInv /\ DevInfSent /\ [Next]_vars => (TypeOK /\ GoesInv /\ DevInfSent)'
  BY TypeNext, GoesNext, DevInfNext
<1> QED
  BY <1>1, <1>2, <1>3, PTL DEF Spec

-----------------------------------------------------------------------------
(* An honest server has two messages at most: the second is accepted, or   *)
(* has no alerts and leaves no source.                                     *)
Waiting == pc \in {"loop", "sent"}

AskedServer == isServerAuthenticated \/ commands \in {"401", "407"}

SecondTry == clientAuthType = setup.demands /\ clientAuthRetries > 1

HonestRounds ==
    Honest =>
        /\ rounds <= 2
        /\ isClientAuthenticated => knows
        /\ knows => clientAuthType = setup.demands
        /\ pc = "client" => AskedServer
        /\ Waiting => rounds = 0 \/ (rounds = 1 /\ (isClientAuthenticated \/ (SecondTry /\ AskedServer)))
        /\ Open /\ rounds = 2 =>
               \/ isClientAuthenticated /\ pc = "answered"
               \/ SecondTry /\ (isServerAuthenticated \/ (pc # "client" /\ TrustedCred))

(* A stranger that has to prove itself with Basic is asked once.           *)
BasicRounds ==
    ~Honest /\ setup.required /\ setup.serverType = "basic" =>
        /\ rounds <= 2
        /\ Waiting \/ pc = "client" => rounds <= 1
        /\ (Waiting /\ rounds = 1) \/ pc = "client" \/ (Open /\ rounds = 2) => serverAuthRetries > 1

(* One that has nothing to prove has asked for both types.                 *)
AskedOnce == clientAuthRetries > 1 /\ clientAuthType \in demanded

ClientRounds ==
    ~Honest /\ ~setup.required /\ demanded # Types =>
        /\ rounds <= 2
        /\ Waiting => rounds = 0 \/ (rounds = 1 /\ AskedOnce)
        /\ Open /\ rounds = 2 => AskedOnce

RoundsInv ==
    /\ pc = "idle" => rounds = 0 /\ ~isClientAuthenticated /\ (Honest => ~knows)
    /\ InSession => setup.required \/ isServerAuthenticated
    /\ HonestRounds /\ BasicRounds /\ ClientRounds

LEMMA RoundsInit == Init => RoundsInv
  BY DEF Init, RoundsInv, HonestRounds, BasicRounds, ClientRounds, Waiting, Open, InSession

(* What a step does to the place of the client and to the count.           *)
Ends ==
    /\ pc' = "ended"
    /\ UNCHANGED <<setup, rounds, demanded, isClientAuthenticated, isServerAuthenticated, knows,
                   clientAuthType>>

LEMMA Ending ==
    ASSUME Aborted \/ ErrorBeforeSend \/ BadHeader \/ ServerNotAuthenticated
           \/ ClientNotAuthenticated \/ (Alerts /\ isToExit(report'))
    PROVE  Ends
  BY DEF Aborted, ErrorBeforeSend, BadHeader, ServerNotAuthenticated, ClientNotAuthenticated,
     Alerts, Finish, Ends, handler, progress, history,
     serverVars

LEMMA RoundsOfHonest ==
    ASSUME TypeOK, GoesInv, NonceInv, RoundsInv, [Next]_vars, MaxRounds > 2, Honest, Honest'
    PROVE  HonestRounds'
<1> USE DEF handler, progress, sending, result, serverVars, history
<1>a. /\ rounds \in Nat /\ clientAuthRetries \in Nat \ {0} /\ MaxRounds \in Nat
      /\ rounds <= 2 /\ OneMore(rounds) = rounds + 1
      /\ OneMore(clientAuthRetries) > 1
  BY MaxRoundsAssumption DEF TypeOK, OneMore, RoundsInv, HonestRounds
<1>1. CASE Start
  BY <1>1 DEF Start, RoundsInv, HonestRounds, Waiting, Open
<1>2. CASE Answer
  <2>1. PICK chal \in Types \cup {"none"} : ServerHears(chal) /\ HonestReply(chal)
    BY <1>2 DEF Answer, StrangersReply, Honest
  <2>2. /\ pc = "sent" /\ pc' = "answered" /\ rounds' = rounds + 1
        /\ UNCHANGED <<setup, clientAuthType, clientAuthRetries, isClientAuthenticated,
                       isServerAuthenticated, serverNonce>>
    BY <1>2, <1>a DEF Answer
  <2>3. /\ isClientAuthenticated' => knows'
        /\ knows' => clientAuthType' = setup.demands
    BY <2>1, <2>2 DEF ServerHears, Accepts, RoundsInv, HonestRounds
  <2>4. ASSUME rounds = 1, ~isClientAuthenticated
        PROVE  SecondTry' /\ (isServerAuthenticated \/ TrustedCred')
    <3>1. SecondTry /\ AskedServer
      BY <2>2, <2>4, <1>a DEF RoundsInv, HonestRounds, Waiting
    <3>2. ASSUME ~isServerAuthenticated PROVE TrustedCred'
      <4>1. commands \in {"401", "407"} /\ setup.required
        BY <2>2, <3>1, <3>2 DEF AskedServer, RoundsInv, InSession
      <4>2. asked' = TRUE /\ (setup.serverType = "md5" => proves' = serverNonce)
        BY <2>1, <4>1 DEF ServerHears, Adopts
      <4>3. reply'.cred = (setup.required /\ (setup.proactive \/ asked'))
        BY <2>1 DEF HonestReply
      <4> QED
        BY <2>2, <4>1, <4>2, <4>3 DEF TrustedCred, ServerProves, Honest
    <3> QED
      BY <2>2, <3>1, <3>2 DEF SecondTry
  <2>5. rounds \in {0, 1}
    BY <2>2 DEF RoundsInv, HonestRounds, Waiting
  <2>6. Open' /\ rounds' = 2 => \/ isClientAuthenticated' /\ pc' = "answered"
                                \/ SecondTry' /\ (isServerAuthenticated' \/ (pc' # "client" /\ TrustedCred'))
    BY <1>a, <2>2, <2>4, <2>5
  <2> QED
    BY <2>2, <2>3, <2>5, <2>6 DEF HonestRounds, Waiting
<1>3. CASE NoAnswer
  <2>1. /\ pc = "sent" /\ pc' = "ended"
        /\ UNCHANGED <<setup, rounds, isClientAuthenticated, clientAuthType>>
    BY <1>3 DEF NoAnswer, Finish
  <2>2. (knows => knows') /\ (knows' => clientAuthType = setup.demands)
    <3>1. ASSUME NEW chal, ServerHears(chal)
          PROVE  (knows => knows') /\ (knows' => clientAuthType = setup.demands)
      BY <3>1 DEF ServerHears, Accepts, RoundsInv, HonestRounds
    <3>2. ASSUME UNCHANGED serverVars
          PROVE  (knows => knows') /\ (knows' => clientAuthType = setup.demands)
      BY <3>2 DEF RoundsInv, HonestRounds
    <3> QED
      BY <1>3, <3>1, <3>2 DEF NoAnswer
  <2> QED
    BY <1>a, <2>1, <2>2 DEF RoundsInv, HonestRounds, Waiting, Open
<1>4. CASE Alerts /\ ~isToExit(report')
  <2>1. /\ pc = "answered" /\ pc' = "server"
        /\ UNCHANGED <<setup, rounds, progress, clientAuthType, serverNonce, knows, commands, reply, proves>>
        /\ report' = [s \in Sources |-> IF s \in Refused THEN "error" ELSE report[s]]
    BY <1>4 DEF Alerts
  <2>2. ~isClientAuthenticated
    <3> SUFFICES ASSUME isClientAuthenticated PROVE FALSE
      OBVIOUS
    <3>1. Refused = Active(report)
      BY <2>1, HonestCodes DEF WithAlerts, RoundsInv, HonestRounds, GoesInv
    <3>2. Active(report') = {}
      BY <2>1, <3>1 DEF Active
    <3> QED
      BY <1>4, <3>2 DEF isToExit
  <2> QED
    BY <1>a, <2>1, <2>2 DEF RoundsInv, HonestRounds, Waiting, Open, SecondTry, TrustedCred, ServerProves
<1>5. CASE NoServerAuth
  BY <1>5, <1>a DEF NoServerAuth, RoundsInv, HonestRounds, Waiting, Open, SecondTry, AskedServer
<1>6. CASE ServerAuth
  BY <1>6, <1>a DEF ServerAuth, RoundsInv, HonestRounds, Waiting, Open, SecondTry, AskedServer
<1>7. CASE ServerAuthAgain
  BY <1>7, <1>a DEF ServerAuthAgain, RoundsInv, HonestRounds, Waiting, Open, SecondTry, AskedServer
<1>8. CASE ClientAuthAgain
  <2>1. /\ pc = "client" /\ clientAuthType' = Requested /\ clientAuthRetries' > 1 /\ ClientRetries
        /\ pc' \in {"loop", "ended"} /\ AskedServer
        /\ UNCHANGED <<setup, rounds, isClientAuthenticated, isServerAuthenticated, commands, knows>>
    BY <1>8, <1>a DEF ClientAuthAgain, LoopEnds, RoundsInv, HonestRounds
  <2>2. Requested = setup.demands
    <3>1. reply.chal = setup.demands \/ (reply.chal = "none" /\ knows)
      BY <2>1 DEF NonceInv, Challenged, Open
    <3>2. setup.demands \in Types
      BY SetupsAssumption DEF TypeOK, SetupType
    <3> QED
      BY <3>1, <3>2 DEF Requested, Types, RoundsInv, HonestRounds
  <2>3. rounds # 2
    <3> SUFFICES ASSUME rounds = 2 PROVE FALSE
      OBVIOUS
    <3>1. SecondTry
      BY <2>1 DEF RoundsInv, HonestRounds, Open
    <3> QED
      BY <1>a, <2>1, <2>2, <3>1 DEF SecondTry, ClientRetries
  <2> QED
    BY <1>a, <2>1, <2>2, <2>3 DEF RoundsInv, HonestRounds, Waiting, Open, SecondTry, AskedServer
<1>9. CASE ClientAuth
  <2>1. /\ pc = "client" /\ knows /\ isClientAuthenticated'
        /\ pc' = (IF isServerAuthenticated THEN "ended" ELSE "loop")
        /\ UNCHANGED <<setup, rounds, isServerAuthenticated, knows, clientAuthType>>
    BY <1>9 DEF ClientAuth, LoopEnds, GoesInv, Accepted
  <2> QED
    BY <1>a, <2>1 DEF RoundsInv, HonestRounds, Waiting, Open
<1>10. CASE Leave
  BY <1>10 DEF Leave, Forgotten, HonestRounds, Waiting, Open
<1>11. CASE Abort \/ Send \/ DevInfChanges \/ UNCHANGED vars
  BY <1>11, <1>a DEF Abort, Send, DevInfChanges, vars, RoundsInv, HonestRounds, Waiting, Open,
     SecondTry, AskedServer, TrustedCred, ServerProves
<1>12. CASE Ends
  BY <1>12, <1>a DEF Ends, RoundsInv, HonestRounds, Waiting, Open
<1> QED
  BY <1>1, <1>2, <1>3, <1>4, <1>5, <1>6, <1>7, <1>8, <1>9, <1>10, <1>11, <1>12, Ending DEF Next, Session

LEMMA RoundsOfBasic ==
    ASSUME TypeOK, GoesInv, RoundsInv, [Next]_vars, MaxRounds > 2,
           ~Honest, setup.required, setup.serverType = "basic", setup' = setup
    PROVE  BasicRounds'
<1> USE DEF handler, progress, sending, result, serverVars, history
<1>a. /\ rounds \in Nat /\ serverAuthRetries \in Nat \ {0} /\ MaxRounds \in Nat
      /\ rounds <= 2 /\ OneMore(rounds) = rounds + 1
      /\ OneMore(serverAuthRetries) > 1
      /\ ~isServerAuthenticated
  BY MaxRoundsAssumption DEF TypeOK, OneMore, RoundsInv, BasicRounds, GoesInv, ServerTrusted
<1>1. CASE Start
  BY <1>1 DEF Start, RoundsInv, BasicRounds, Waiting, Open
<1>2. CASE Answer
  BY <1>2, <1>a DEF Answer, RoundsInv, BasicRounds, Waiting, Open
<1>3. CASE NoAnswer
  BY <1>3, <1>a DEF NoAnswer, Finish, BasicRounds, Waiting, Open
<1>4. CASE Alerts /\ ~isToExit(report')
  BY <1>4, <1>a DEF Alerts, RoundsInv, BasicRounds, Waiting, Open
<1>5. CASE NoServerAuth \/ ServerAuth
  BY <1>5, <1>a DEF NoServerAuth, ServerAuth, TrustedCred, ServerProves, Honest
<1>6. CASE ServerAuthAgain
  BY <1>6, <1>a DEF ServerAuthAgain, ServerRetries, RoundsInv, BasicRounds, Waiting, Open
<1>7. CASE ClientAuthAgain
  BY <1>7, <1>a DEF ClientAuthAgain, LoopEnds, RoundsInv, BasicRounds, Waiting, Open
<1>8. CASE ClientAuth
  BY <1>8, <1>a DEF ClientAuth, LoopEnds, RoundsInv, BasicRounds, Waiting, Open
<1>9. CASE Leave
  BY <1>9 DEF Leave, Forgotten, BasicRounds, Waiting, Open
<1>10. CASE Abort \/ Send \/ DevInfChanges \/ UNCHANGED vars
  BY <1>10, <1>a DEF Abort, Send, DevInfChanges, vars, RoundsInv, BasicRounds, Waiting, Open
<1>11. CASE Ends
  BY <1>11, <1>a DEF Ends, BasicRounds, Waiting, Open
<1> QED
  BY <1>1, <1>2, <1>3, <1>4, <1>5, <1>6, <1>7, <1>8, <1>9, <1>10, <1>11, Ending DEF Next, Session

LEMMA RoundsOfClient ==
    ASSUME TypeOK, RoundsInv, [Next]_vars, MaxRounds > 2, ~Honest, ~setup.required, setup' = setup
    PROVE  ClientRounds'
<1> USE DEF handler, progress, sending, result, serverVars, history
<1> SUFFICES ASSUME demanded' # Types PROVE ClientRounds'
  BY DEF ClientRounds
<1>0. /\ rounds \in Nat /\ clientAuthRetries \in Nat \ {0} /\ MaxRounds \in Nat
      /\ OneMore(clientAuthRetries) > 1
      /\ InSession => isServerAuthenticated
  BY MaxRoundsAssumption DEF TypeOK, OneMore, RoundsInv
<1>1. CASE Leave
  BY <1>1 DEF Leave, Forgotten, ClientRounds, Waiting, Open
<1>a. CASE demanded # Types
  <2>1. rounds <= 2 /\ OneMore(rounds) = rounds + 1
    BY <1>0, <1>a DEF OneMore, RoundsInv, ClientRounds
  <2>2. CASE Start
    BY <2>2 DEF Start, RoundsInv, ClientRounds, Waiting, Open
  <2>3. CASE Answer
    BY <1>0, <1>a, <2>1, <2>3 DEF Answer, RoundsInv, ClientRounds, Waiting, Open, AskedOnce
  <2>4. CASE NoAnswer
    BY <2>1, <2>4 DEF NoAnswer, Finish, ClientRounds, Waiting, Open
  <2>5. CASE Alerts /\ ~isToExit(report')
    BY <1>a, <2>1, <2>5 DEF Alerts, RoundsInv, ClientRounds, Waiting, Open, AskedOnce
  <2>6. CASE NoServerAuth \/ ServerAuth \/ ServerAuthAgain
    BY <1>a, <2>1, <2>6 DEF NoServerAuth, ServerAuth, ServerAuthAgain, RoundsInv, ClientRounds,
       Waiting, Open, AskedOnce
  <2>7. CASE ClientAuthAgain
    <3>1. /\ pc = "client" /\ ClientRetries /\ clientAuthType' = Requested
          /\ clientAuthRetries' > 1 /\ demanded' = demanded \cup {Requested}
          /\ pc' \in {"loop", "ended"} /\ rounds' = rounds
      BY <1>0, <2>7 DEF ClientAuthAgain, LoopEnds
    <3>2. AskedOnce'
      BY <3>1 DEF AskedOnce
    <3>3. clientAuthType \in Types /\ Requested \in Types /\ demanded \subseteq Types
      BY DEF TypeOK, Requested, Types
    <3>4. rounds # 2
      <4> SUFFICES ASSUME rounds = 2 PROVE FALSE
        OBVIOUS
      <4>1. AskedOnce
        BY <1>a, <3>1 DEF RoundsInv, ClientRounds, Open
      <4>2. Requested # clientAuthType
        BY <1>0, <3>1, <4>1 DEF AskedOnce, ClientRetries
      <4>3. demanded' = Types
        BY <3>1, <3>3, <4>1, <4>2 DEF AskedOnce, Types
      <4> QED
        BY <4>3
    <3> QED
      BY <1>0, <2>1, <3>1, <3>2, <3>4 DEF ClientRounds, Waiting, Open
  <2>8. CASE ClientAuth
    <3>1. pc' = "ended" /\ rounds' = rounds
      BY <1>0, <2>8 DEF ClientAuth, LoopEnds, InSession
    <3> QED
      BY <2>1, <3>1 DEF ClientRounds, Waiting, Open
  <2>9. CASE Abort \/ Send \/ DevInfChanges \/ UNCHANGED vars
    BY <1>a, <2>1, <2>9 DEF Abort, Send, DevInfChanges, vars, RoundsInv, ClientRounds, Waiting, Open,
       AskedOnce
  <2>10. CASE Ends
    BY <2>1, <2>10 DEF Ends, ClientRounds, Waiting, Open
  <2> QED
    BY <1>1, <2>2, <2>3, <2>4, <2>5, <2>6, <2>7, <2>8, <2>9, <2>10, Ending DEF Next, Session
<1>b. CASE demanded = Types /\ ~Leave
  <2>1. demanded' = Types
    <3>1. CASE ClientAuthAgain
      BY <1>b, <3>1 DEF ClientAuthAgain, Requested, TypeOK, Types
    <3> QED
      BY <1>b, <3>1 DEF vars, Next, Session, Start, Abort, Aborted, ErrorBeforeSend, Send, Answer,
         NoAnswer, BadHeader, Alerts, NoServerAuth, ServerAuth, ServerAuthAgain,
         ServerNotAuthenticated, ClientNotAuthenticated, ClientAuth, DevInfChanges
  <2> QED
    BY <2>1
<1> QED
  BY <1>1, <1>a, <1>b

LEMMA RoundsNext ==
    ASSUME TypeOK, GoesInv, NonceInv, RoundsInv, [Next]_vars, MaxRounds > 2
    PROVE  RoundsInv'
<1>1. setup' = setup
  BY SameSetup
<1>2. HonestRounds'
  BY <1>1, RoundsOfHonest DEF HonestRounds, Honest
<1>3. BasicRounds'
  BY <1>1, RoundsOfBasic DEF BasicRounds, Honest
<1>4. ClientRounds'
  BY <1>1, RoundsOfClient DEF ClientRounds, Honest
<1>5. InSession' => setup.required \/ isServerAuthenticated'
  BY DEF RoundsInv, InSession, vars, handler, progress, Next, Session, Start, Abort, Aborted,
     ErrorBeforeSend, Send, Answer, NoAnswer, BadHeader, Alerts, NoServerAuth, ServerAuth,
     ServerAuthAgain, ServerNotAuthenticated, ClientAuthAgain, ClientNotAuthenticated,
     ClientAuth, LoopEnds, Leave, DevInfChanges, Finish
<1>6. pc' = "idle" => rounds' = 0 /\ ~isClientAuthenticated' /\ (Honest => ~knows')
  BY DEF RoundsInv, vars, handler, progress, history, serverVars, Next, Session, Start, Abort,
     Aborted, ErrorBeforeSend, Send, Answer, NoAnswer, BadHeader, Alerts, NoServerAuth,
     ServerAuth, ServerAuthAgain, ServerNotAuthenticated, ClientAuthAgain,
     ClientNotAuthenticated, ClientAuth, LoopEnds, Leave, Forgotten, DevInfChanges, Finish
<1> QED
  BY <1>1, <1>2, <1>3, <1>4, <1>5, <1>6 DEF RoundsInv, Honest

(* The loop of SyncManager::prepareSync() is over after two messages with  *)
(* an honest server; it goes round more often only with one that asks for  *)
(* both types, or keeps failing to prove itself with MD5.                  *)
THEOREM RetriesHaveCause == Spec => []RetriesForCause
<1>1. TypeOK /\ (MaxRounds > 2 => RoundsInv) => RetriesForCause
  <2> SUFFICES ASSUME TypeOK, MaxRounds > 2 => RoundsInv, rounds > 2 PROVE RetriesForCause
    BY DEF RetriesForCause
  <2>1. rounds \in 0..MaxRounds /\ MaxRounds \in Nat
    BY MaxRoundsAssumption DEF TypeOK
  <2>2. RoundsInv /\ rounds \in Nat
    BY <2>1
  <2>3. setup.server \in {"honest", "stranger"} /\ setup.serverType \in {"basic", "md5"}
    BY SetupsAssumption DEF TypeOK, SetupType, Types
  <2> QED
    BY <2>2, <2>3 DEF RoundsInv, HonestRounds, BasicRounds, ClientRounds, RetriesForCause, Honest
<1>2. Init => TypeOK /\ GoesInv /\ NonceInv /\ (MaxRounds > 2 => RoundsInv)
  BY TypeInit, GoesInit, NonceInit, RoundsInit
<1>3. TypeOK /\ GoesInv /\ NonceInv /\ (MaxRounds > 2 => RoundsInv) /\ [Next]_vars
        => (TypeOK /\ GoesInv /\ NonceInv /\ (MaxRounds > 2 => RoundsInv))'
  BY TypeNext, GoesNext, NonceNext, RoundsNext
<1> QED
  BY <1>1, <1>2, <1>3, PTL DEF Spec

-----------------------------------------------------------------------------
(* A session nobody disturbs, with an honest server that can be used.      *)
Undisturbed == trouble = {} /\ Honest /\ setup.password /\ setup.refused # Sources

Blank ==
    pc = "idle" =>
        /\ Active(report) = Sources /\ lastErrorCode = 0 /\ commands = "none"
        /\ clientAuthRetries = 1 /\ ~toAbort /\ ~isClientAuthenticated /\ ~knows

(* The server's nonce is a new one as soon as it has been told one, so     *)
(* that a server that must be asked still is at the end of the session.    *)
Renewed ==
    /\ InSession /\ setup.required /\ setup.serverType = "md5"
          /\ (commands # "none" \/ isServerAuthenticated) => serverNonce # config.serverNonce
    /\ Waiting /\ commands = "none" => serverNonce = config.serverNonce
    /\ InSession => setup.required \/ isServerAuthenticated

Warned == toAbort => "abort" \in trouble

(* A message without alerts leaves an honest server no source. *)
KnownClient ==
    Honest => /\ isClientAuthenticated => knows
              /\ pc \in {"server", "client"} => ~isClientAuthenticated

(* No error so far, and the client's next credentials are the right ones,  *)
(* or it will be told and may try again.                                   *)
Untouched == lastErrorCode = 0 /\ Active(report) = Sources

CredsRight ==
    clientAuthType = setup.demands /\ (setup.demands = "md5" => clientNonce = expects)

Smooth ==
    Undisturbed /\ ~ServerMustBeAsked /\ InSession =>
        /\ ~isClientAuthenticated
        /\ Waiting => Untouched /\ (CredsRight \/ clientAuthRetries = 1)
        /\ pc = "answered" => Untouched
        /\ Open => knows \/ (Untouched /\ ClientRetries)
        /\ pc \in {"server", "client"} /\ knows => ~isAuthFailed(ret)
        /\ pc \in {"answered", "server"} => isServerAuthenticated \/ TrustedCred
        /\ pc = "client" => isServerAuthenticated

HealInv == Blank /\ Renewed /\ Warned /\ KnownClient /\ Smooth /\ HealsForCause

(* An honest server that knows the client gives no alert a 401. *)
LEMMA AcceptedCodes ==
    ASSUME TypeOK, ReplyTrue, pc = "answered", Honest, knows, NEW n \in 0..NumSources
    PROVE  ~isAuthFailed(RetAfter(n))
<1>1. PICK t \in {200, -1, 401} : Told(t)
  BY DEF ReplyTrue
<1>2. reply.hdr = 200
  BY DEF ReplyTrue
<1>3. \A s \in Sources : AlertStatus(s) \in {200, 404, -1}
  BY <1>1 DEF Told, AlertStatus
<1>4. LastWithStatus(n) = 0 \/ LastWithStatus(n) \in Sources
  BY LastFacts DEF Active
<1>5. RetAfter(n) \in {200, 404, -1}
  BY <1>2, <1>3, <1>4 DEF RetAfter
<1> QED
  BY <1>5 DEF isAuthFailed

LEMMA HealInit == Init => HealInv
<1>1. Init => Active(report) = Sources
  BY DEF Init, Active
<1> QED
  BY <1>1 DEF Init, HealInv, Blank, Renewed, Warned, KnownClient, Smooth, HealsForCause, InSession,
     Waiting, Open

LEMMA RenewedNext == TypeOK /\ NonceInv /\ HealInv /\ [Next]_vars => Renewed'
<1> SUFFICES ASSUME TypeOK, NonceInv, HealInv, [Next]_vars PROVE Renewed'
  OBVIOUS
<1> USE DEF handler, progress, sending, result, serverVars, history
<1>1. CASE Start
  BY <1>1 DEF Start, HealInv, Blank, Renewed, InSession, Waiting
<1>2. CASE Answer
  BY <1>2 DEF Answer, AfterSend, HealInv, Renewed, InSession, Waiting
<1>3. CASE ServerAuth \/ ServerAuthAgain
  <2>1. setup.serverType = "md5" => serverNonce' # config.serverNonce
    <3>1. setup.serverType = "md5" =>
            serverNonce' = FreshNonce({serverNonce, config.serverNonce, proves})
      BY <1>3 DEF ServerAuth, ServerAuthAgain, getServerChal
    <3> QED
      BY <3>1, Fresh
  <2> QED
    BY <1>3, <2>1 DEF ServerAuth, ServerAuthAgain, HealInv, Renewed, InSession, Waiting
<1>4. CASE ClientAuthAgain \/ ClientAuth
  <2>1. /\ pc = "client" /\ commands # "none"
        /\ UNCHANGED <<setup, commands, isServerAuthenticated, serverNonce>>
        /\ pc' = "ended" \/ (pc' = "loop" /\ config' = config)
    BY <1>4 DEF ClientAuthAgain, ClientAuth, LoopEnds, NonceInv, Lacks
  <2> QED
    BY <2>1 DEF HealInv, Renewed, InSession, Waiting
<1>5. CASE pc' \in {"ended", "idle"}
  BY <1>5 DEF Renewed, InSession, Waiting
<1>6. CASE Abort \/ Send \/ NoServerAuth \/ UNCHANGED vars
  BY <1>6 DEF Abort, Send, NoServerAuth, vars, HealInv, Renewed, InSession, Waiting
<1>7. CASE Alerts
  <2>1. /\ pc = "answered" /\ pc' \in {"server", "ended"}
        /\ UNCHANGED <<setup, config, commands, isServerAuthenticated, serverNonce>>
    BY <1>7 DEF Alerts, Finish
  <2> QED
    BY <2>1 DEF HealInv, Renewed, InSession, Waiting
<1>8. ASSUME Aborted \/ ErrorBeforeSend \/ NoAnswer \/ BadHeader \/ ServerNotAuthenticated
             \/ ClientNotAuthenticated \/ Leave \/ DevInfChanges
      PROVE  pc' \in {"ended", "idle"}
  BY <1>8 DEF Aborted, ErrorBeforeSend, NoAnswer, BadHeader, ServerNotAuthenticated,
     ClientNotAuthenticated, Leave, DevInfChanges, Finish
<1> QED
  BY <1>1, <1>2, <1>3, <1>4, <1>5, <1>6, <1>7, <1>8 DEF Next, Session

LEMMA KnownClientNext == TypeOK /\ GoesInv /\ HealInv /\ [Next]_vars => KnownClient'
<1> SUFFICES ASSUME TypeOK, GoesInv, HealInv, [Next]_vars, Honest, setup' = setup
             PROVE  (isClientAuthenticated' => knows')
                    /\ (pc' \in {"server", "client"} => ~isClientAuthenticated')
  BY SameSetup DEF KnownClient, Honest
<1> USE DEF handler, progress, sending, result, serverVars, history
<1>1. CASE Start \/ Leave
  BY <1>1 DEF Start, Leave, Forgotten, HealInv, Blank
<1>2. CASE Answer \/ NoAnswer
  <2>1. knows => knows'
    <3>1. ASSUME NEW chal, ServerHears(chal), knows PROVE knows'
      BY <3>1 DEF ServerHears, Accepts
    <3> QED
      BY <1>2, <3>1 DEF Answer, NoAnswer, StrangersReply
  <2> QED
    BY <1>2, <2>1 DEF Answer, NoAnswer, Finish, HealInv, KnownClient
<1>3. CASE Alerts
  <2>1. /\ pc = "answered" /\ UNCHANGED <<isClientAuthenticated, knows>>
        /\ report' = [s \in Sources |-> IF s \in Refused THEN "error" ELSE report[s]]
        /\ pc' = IF isToExit(report') THEN "ended" ELSE "server"
    BY <1>3 DEF Alerts, Finish
  <2>2. ASSUME isClientAuthenticated PROVE isToExit(report')
    <3>1. Refused = Active(report)
      BY <2>1, <2>2, HonestCodes DEF WithAlerts, HealInv, KnownClient, GoesInv
    <3> QED
      BY <2>1, <3>1 DEF Active, isToExit
  <2> QED
    BY <2>1, <2>2 DEF HealInv, KnownClient
<1>4. CASE ClientAuth
  BY <1>4 DEF ClientAuth, LoopEnds, GoesInv, Accepted
<1>5. CASE ClientAuthAgain
  BY <1>5 DEF ClientAuthAgain, LoopEnds, HealInv, KnownClient
<1>6. CASE Ends
  BY <1>6 DEF Ends, HealInv, KnownClient
<1>7. CASE Abort \/ Send \/ DevInfChanges \/ UNCHANGED vars
  BY <1>7 DEF Abort, Send, DevInfChanges, vars, HealInv, KnownClient
<1>8. CASE NoServerAuth \/ ServerAuth \/ ServerAuthAgain
  BY <1>8 DEF NoServerAuth, ServerAuth, ServerAuthAgain, HealInv, KnownClient
<1> QED
  BY <1>1, <1>2, <1>3, <1>4, <1>5, <1>6, <1>7, <1>8, Ending DEF Next, Session

LEMMA BlankNext == HealInv /\ [Next]_vars => Blank' /\ Warned'
<1> SUFFICES ASSUME HealInv, [Next]_vars PROVE Blank' /\ Warned'
  OBVIOUS
<1> USE DEF handler, progress, sending, result, serverVars, history
<1>1. CASE Leave
  <2>1. report' = [s \in Sources |-> "active"]
    BY <1>1 DEF Leave, Forgotten
  <2>2. Active(report') = Sources
    BY <2>1 DEF Active
  <2>3. /\ lastErrorCode' = 0 /\ commands' = "none" /\ clientAuthRetries' = 1 /\ toAbort' = FALSE
        /\ isClientAuthenticated' = FALSE /\ knows' = FALSE
    BY <1>1 DEF Leave, Forgotten
  <2> QED
    BY <2>2, <2>3 DEF Blank, Warned
<1>2. CASE DevInfChanges \/ UNCHANGED vars
  BY <1>2 DEF DevInfChanges, vars, HealInv, Blank, Warned
<1>3. CASE Start \/ Abort \/ Session
  <2>1. pc' # "idle"
    BY <1>3 DEF Start, Abort, Session, InSession, Aborted, ErrorBeforeSend, Send, Answer, NoAnswer,
       BadHeader, Alerts, NoServerAuth, ServerAuth, ServerAuthAgain, ServerNotAuthenticated,
       ClientAuthAgain, ClientNotAuthenticated, ClientAuth, LoopEnds, Finish
  <2>2. \/ toAbort' = toAbort /\ trouble \subseteq trouble'
        \/ "abort" \in trouble'
    BY <1>3 DEF Start, Abort, Session, Aborted, ErrorBeforeSend, Send, Answer, NoAnswer,
       BadHeader, Alerts, NoServerAuth, ServerAuth, ServerAuthAgain, ServerNotAuthenticated,
       ClientAuthAgain, ClientNotAuthenticated, ClientAuth
  <2> QED
    BY <2>1, <2>2 DEF HealInv, Blank, Warned
<1> QED
  BY <1>1, <1>2, <1>3 DEF Next

(* A server that must be asked still must be when the session goes on, or  *)
(* ends without the configuration saved.                                   *)
LEMMA StillAsked ==
    ASSUME TypeOK, HealInv, [Next]_vars, InSession, config' = config, ServerMustBeAsked
    PROVE  ServerMustBeAsked'
<1> USE DEF handler, progress, sending, result, serverVars, history
<1>1. setup' = setup
  BY SameSetup
<1>2. proves' = proves \/ (proves' = serverNonce /\ commands # "none" /\ setup.serverType = "md5")
  <2>1. ASSUME NEW chal, ServerHears(chal)
        PROVE  proves' = proves
               \/ (proves' = serverNonce /\ commands # "none" /\ setup.serverType = "md5")
    BY <2>1 DEF ServerHears, Adopts
  <2>2. CASE Answer \/ NoAnswer
    BY <2>1, <2>2 DEF Answer, NoAnswer, StrangersReply
  <2>3. CASE ~(Answer \/ NoAnswer)
    BY <2>3 DEF InSession, vars, Next, Session, Start, Abort, Aborted, ErrorBeforeSend, Send, Answer,
       NoAnswer, BadHeader, Alerts, NoServerAuth, ServerAuth, ServerAuthAgain,
       ServerNotAuthenticated, ClientAuthAgain, ClientNotAuthenticated, ClientAuth, Leave, DevInfChanges
  <2> QED
    BY <2>2, <2>3
<1> QED
  BY <1>1, <1>2 DEF ServerMustBeAsked, HealInv, Renewed

LEMMA SmoothNext == TypeOK /\ GoesInv /\ NonceInv /\ HealInv /\ [Next]_vars => Smooth'
<1> SUFFICES ASSUME TypeOK, GoesInv, NonceInv, HealInv, [Next]_vars,
                    Undisturbed', ~ServerMustBeAsked', InSession'
             PROVE  /\ ~isClientAuthenticated'
                    /\ Waiting' => Untouched' /\ (CredsRight' \/ clientAuthRetries' = 1)
                    /\ pc' = "answered" => Untouched'
                    /\ Open' => knows' \/ (Untouched' /\ ClientRetries')
                    /\ pc' \in {"server", "client"} /\ knows' => ~isAuthFailed(ret')
                    /\ pc' \in {"answered", "server"} => isServerAuthenticated' \/ TrustedCred'
                    /\ pc' = "client" => isServerAuthenticated'
  BY DEF Smooth
<1> USE DEF handler, progress, sending, result, serverVars, history
<1>a. setup' = setup
  BY SameSetup
<1>b. /\ setup.demands \in Types /\ Types = {"basic", "md5"}
  BY SetupsAssumption DEF TypeOK, SetupType, Types
<1>c. ASSUME InSession, config' = config, trouble' = trouble
      PROVE  /\ Undisturbed /\ ~ServerMustBeAsked /\ ~isClientAuthenticated
             /\ Waiting => Untouched /\ (CredsRight \/ clientAuthRetries = 1)
             /\ pc = "answered" => Untouched
             /\ Open => knows \/ (Untouched /\ ClientRetries)
             /\ pc \in {"server", "client"} /\ knows => ~isAuthFailed(ret)
             /\ pc \in {"answered", "server"} => isServerAuthenticated \/ TrustedCred
             /\ pc = "client" => isServerAuthenticated
  <2>1. Undisturbed /\ ~ServerMustBeAsked
    BY <1>a, <1>c, StillAsked DEF Undisturbed, Honest
  <2> QED
    BY <1>c, <2>1 DEF HealInv, Smooth
<1>1. CASE Start
  <2>1. /\ pc = "idle" /\ pc' = "loop"
        /\ UNCHANGED <<report, lastErrorCode, isClientAuthenticated, clientAuthRetries>>
    BY <1>1 DEF Start
  <2> QED
    BY <2>1 DEF HealInv, Blank, Waiting, Open, Untouched
<1>2. CASE Abort
  BY <1>2 DEF Abort, Undisturbed
<1>3. CASE Send
  <2>1. /\ pc = "loop" /\ pc' = "sent" /\ config' = config /\ trouble' = trouble
        /\ UNCHANGED <<report, lastErrorCode, isClientAuthenticated, clientAuthRetries,
                       clientAuthType, clientNonce, expects>>
    BY <1>3 DEF Send
  <2> QED
    BY <1>a, <1>c, <2>1 DEF InSession, Waiting, Open, Untouched, CredsRight
<1>4. CASE Answer
  <2>1. /\ pc = "sent" /\ pc' = "answered" /\ config' = config /\ trouble' = trouble
        /\ UNCHANGED <<report, lastErrorCode, isClientAuthenticated, isServerAuthenticated,
                       clientAuthRetries, clientAuthType, clientNonce, serverNonce>>
    BY <1>4 DEF Answer
  <2>2. PICK chal \in Types \cup {"none"} : ServerHears(chal) /\ HonestReply(chal)
    BY <1>4, <1>a DEF Answer, StrangersReply, Undisturbed, Honest
  <2>3. /\ setup.password /\ Untouched /\ ~isClientAuthenticated
        /\ CredsRight \/ clientAuthRetries = 1
    BY <1>c, <2>1 DEF InSession, Waiting, Undisturbed
  <2>4. ASSUME ~knows' PROVE ClientRetries'
    <3>1. ~Accepts /\ chal = setup.demands /\ reply'.chal = chal
      BY <2>2, <2>4 DEF ServerHears, Challenges, HonestReply
    <3>2. ~CredsRight
      BY <2>3, <3>1 DEF CredsRight, Accepts, WithAlerts
    <3>3. Requested' = setup.demands
      BY <1>b, <3>1 DEF Requested
    <3> QED
      BY <1>b, <2>1, <2>3, <3>1, <3>2, <3>3 DEF ClientRetries, CredsRight, Accepts, WithAlerts
  <2>5. ASSUME ~isServerAuthenticated PROVE TrustedCred'
    <3>1. setup.required /\ setup.proactive
      BY <1>a, <2>1, <2>5 DEF InSession, HealInv, Renewed, ServerMustBeAsked
    <3>2. reply'.cred = (setup.required /\ (setup.proactive \/ asked'))
      BY <2>2 DEF HonestReply
    <3>3. ASSUME setup.serverType = "md5" PROVE proves' = serverNonce
      <4>1. config.serverNonce = proves'
        BY <1>a, <2>1, <3>1, <3>3 DEF ServerMustBeAsked
      <4>2. proves' = IF commands # "none" THEN serverNonce ELSE proves
        BY <2>2, <3>3 DEF ServerHears, Adopts
      <4>3. commands = "none" => serverNonce = config.serverNonce
        BY <2>1 DEF HealInv, Renewed, Waiting
      <4> QED
        BY <4>1, <4>2, <4>3
    <3> QED
      BY <1>a, <2>1, <3>1, <3>2, <3>3 DEF TrustedCred, ServerProves, Undisturbed, Honest
  <2> QED
    BY <2>1, <2>3, <2>4, <2>5 DEF Waiting, Untouched
<1>5. CASE Alerts
  <2>1. /\ pc = "answered" /\ pc' = "server" /\ config' = config /\ trouble' = trouble
        /\ ret' = RetAfter(NumSources)
        /\ report' = [s \in Sources |-> IF s \in Refused THEN "error" ELSE report[s]]
        /\ Refused = {} => lastErrorCode' = lastErrorCode
        /\ UNCHANGED <<isClientAuthenticated, isServerAuthenticated, clientAuthRetries,
                       clientAuthType, serverNonce, proves, knows, reply>>
    BY <1>5 DEF Alerts, Finish, InSession
  <2>2. Honest /\ ReplyTrue /\ ~isClientAuthenticated /\ Untouched
        /\ (knows \/ ClientRetries) /\ (isServerAuthenticated \/ TrustedCred)
    BY <1>c, <2>1 DEF InSession, Undisturbed, GoesInv, Open
  <2>3. ASSUME ~knows PROVE Untouched' /\ ClientRetries'
    <3>1. \A s \in Active(report) : RetAfter(s) = 401
      BY <2>1, <2>2, <2>3, HonestCodes, NumSourcesAssumption DEF Active, Sources
    <3>2. Refused = {}
      BY <3>1 DEF Refused
    <3>3. Active(report') = Active(report)
      BY <2>1, <3>2 DEF Active
    <3> QED
      BY <2>1, <2>2, <2>3, <3>2, <3>3 DEF Untouched, ClientRetries, Requested
  <2>4. ASSUME knows PROVE ~isAuthFailed(ret')
    BY <2>1, <2>2, <2>4, AcceptedCodes, NumSourcesAssumption
  <2>5. TrustedCred => TrustedCred'
    BY <1>a, <2>1 DEF TrustedCred, ServerProves
  <2> QED
    BY <2>1, <2>2, <2>3, <2>4, <2>5 DEF Waiting
<1>6. CASE NoServerAuth \/ ServerAuth
  <2>1. /\ pc = "server" /\ pc' = "client" /\ config' = config /\ trouble' = trouble
        /\ isServerAuthenticated'
        /\ UNCHANGED <<isClientAuthenticated, clientAuthRetries, clientAuthType, report,
                       lastErrorCode, ret, knows, reply>>
    BY <1>6 DEF NoServerAuth, ServerAuth
  <2> QED
    BY <1>c, <2>1 DEF InSession, Open, Waiting, Untouched, ClientRetries, Requested
<1>7. CASE ServerAuthAgain
  BY <1>7, <1>c DEF ServerAuthAgain, InSession
<1>8. CASE ClientAuthAgain
  <2>1. /\ pc = "client" /\ pc' = "loop" /\ config' = config /\ trouble' = trouble
        /\ isAuthFailed(ret) /\ TakesNonce /\ clientAuthType' = Requested
        /\ UNCHANGED <<isClientAuthenticated, report, lastErrorCode, expects>>
    BY <1>8 DEF ClientAuthAgain, LoopEnds, InSession
  <2>2. ~knows /\ Untouched /\ Honest /\ ~isClientAuthenticated
    BY <1>c, <2>1 DEF InSession, Open, Undisturbed
  <2>3. reply.chal = setup.demands
    BY <2>1, <2>2 DEF NonceInv, Challenged, Open
  <2>4. CredsRight'
    BY <1>a, <1>b, <2>1, <2>3 DEF CredsRight, Requested, TakesNonce
  <2> QED
    BY <2>1, <2>2, <2>4 DEF Waiting, Open, Untouched
<1>9. CASE ClientAuth
  <2>1. /\ pc = "client" /\ isClientAuthenticated' /\ trouble' = trouble
        /\ isServerAuthenticated' = isServerAuthenticated
        /\ ~isServerAuthenticated /\ config' = config
    BY <1>9 DEF ClientAuth, LoopEnds, InSession
  <2> QED
    BY <1>c, <2>1 DEF InSession
<1>10. ASSUME Aborted \/ ErrorBeforeSend \/ NoAnswer \/ BadHeader \/ ServerNotAuthenticated
              \/ ClientNotAuthenticated \/ Leave \/ DevInfChanges
       PROVE  FALSE
  BY <1>10 DEF Aborted, ErrorBeforeSend, NoAnswer, BadHeader, ServerNotAuthenticated,
     ClientNotAuthenticated, Leave, DevInfChanges, Finish, InSession
<1>11. CASE UNCHANGED vars
  <2>1. Smooth' <=> Smooth
    BY <1>11 DEF vars, Smooth, Undisturbed, Honest, ServerMustBeAsked, InSession, Waiting, Untouched,
       CredsRight, Open, ClientRetries, Requested, TrustedCred, ServerProves
  <2> QED
    BY <2>1 DEF HealInv, Smooth
<1> QED
  BY <1>1, <1>2, <1>3, <1>4, <1>5, <1>6, <1>7, <1>8, <1>9, <1>10, <1>11 DEF Next, Session

LEMMA HealsNext == TypeOK /\ GoesInv /\ NonceInv /\ HealInv /\ [Next]_vars => HealsForCause'
<1> SUFFICES ASSUME TypeOK, GoesInv, NonceInv, HealInv, [Next]_vars,
                    pc' = "ended", Undisturbed', ~ServerMustBeAsked'
             PROVE  ret' = 0
  BY DEF HealsForCause, Undisturbed, Honest
<1> USE DEF handler, progress, sending, result, serverVars, history
<1>a. setup' = setup
  BY SameSetup
<1>b. CASE pc = "ended"
  <2>1. UNCHANGED vars
    BY <1>b DEF Next, Session, Start, Abort, Aborted, ErrorBeforeSend, Send, Answer, NoAnswer,
       BadHeader, Alerts, NoServerAuth, ServerAuth, ServerAuthAgain, ServerNotAuthenticated,
       ClientAuthAgain, ClientNotAuthenticated, ClientAuth, Leave, DevInfChanges, InSession
  <2> QED
    BY <1>b, <2>1 DEF vars, HealInv, HealsForCause, ServerMustBeAsked, Undisturbed, Honest
<1>c. ASSUME InSession, config' = config, trouble' = trouble
      PROVE  /\ Undisturbed /\ ~isClientAuthenticated
             /\ pc \in {"loop", "answered"} => Untouched
             /\ Open => knows \/ (Untouched /\ ClientRetries)
             /\ pc \in {"server", "client"} /\ knows => ~isAuthFailed(ret)
             /\ pc = "server" => isServerAuthenticated \/ TrustedCred
  <2>1. Undisturbed /\ ~ServerMustBeAsked
    BY <1>a, <1>c, StillAsked DEF Undisturbed, Honest
  <2> QED
    BY <1>c, <2>1 DEF HealInv, Smooth, Waiting
<1>1. ASSUME Aborted PROVE FALSE
  BY <1>1 DEF Aborted, HealInv, Warned, Undisturbed
<1>2. ASSUME ErrorBeforeSend PROVE FALSE
  BY <1>2, <1>c DEF ErrorBeforeSend, ErrorPending, InSession, Untouched
<1>3. ASSUME NoAnswer PROVE FALSE
  BY <1>3 DEF NoAnswer, Undisturbed
<1>4. ASSUME BadHeader PROVE FALSE
  <2>1. pc = "answered" /\ Honest
    BY <1>4, <1>c DEF BadHeader, InSession, Undisturbed
  <2>2. reply.hdr = 200 \/ reply.hdr = 401
    BY <2>1 DEF GoesInv, ReplyTrue
  <2> QED
    BY <1>4, <2>2 DEF BadHeader, isErrorStatus, isAuthFailed
<1>5. ASSUME Alerts PROVE FALSE
  <2>1. /\ pc = "answered" /\ config' = config /\ trouble' = trouble
        /\ report' = [s \in Sources |-> IF s \in Refused THEN "error" ELSE report[s]]
        /\ isToExit(report')
    BY <1>5 DEF Alerts
  <2>2. Honest /\ setup.refused # Sources /\ ~isClientAuthenticated /\ Active(report) = Sources
    BY <1>c, <2>1 DEF InSession, Undisturbed, Untouched
  <2>3. setup.refused \subseteq Sources /\ NumSources \in Nat
    BY SetupsAssumption, NumSourcesAssumption DEF TypeOK, SetupType
  <2>4. Refused = {} \/ Refused = setup.refused
    <3>1. CASE knows
      BY <2>1, <2>2, <2>3, <3>1, HonestCodes DEF GoesInv, WithAlerts
    <3>2. CASE ~knows
      <4>1. \A s \in Active(report) : RetAfter(s) = 401
        BY <2>1, <2>2, <2>3, <3>2, HonestCodes DEF GoesInv, Sources
      <4> QED
        BY <4>1 DEF Refused
    <3> QED
      BY <3>1, <3>2
  <2>5. \E s \in Sources : s \notin Refused
    BY <2>2, <2>3, <2>4, NumSourcesAssumption DEF Sources
  <2> QED
    BY <2>1, <2>2, <2>5 DEF isToExit, Active
<1>6. ASSUME ServerNotAuthenticated PROVE FALSE
  BY <1>6, <1>c DEF ServerNotAuthenticated, InSession
<1>7. ASSUME ClientNotAuthenticated PROVE FALSE
  BY <1>7, <1>c DEF ClientNotAuthenticated, InSession, Open
<1>8. ASSUME ClientAuthAgain PROVE FALSE
  <2>1. pc = "client" /\ isClientAuthenticated
    BY <1>8 DEF ClientAuthAgain, LoopEnds
  <2>2. Honest
    BY <1>a DEF Undisturbed, Honest
  <2> QED
    BY <2>1, <2>2 DEF HealInv, KnownClient
<1>9. CASE ClientAuth
  BY <1>9 DEF ClientAuth
<1>10. ASSUME Start \/ Abort \/ Send \/ Answer \/ NoServerAuth \/ ServerAuth \/ ServerAuthAgain
              \/ Leave \/ DevInfChanges
       PROVE  pc = "ended"
  BY <1>10 DEF Start, Abort, InSession, Send, Answer, NoServerAuth, ServerAuth, ServerAuthAgain,
     Leave, DevInfChanges
<1>11. ASSUME UNCHANGED vars PROVE pc = "ended"
  BY <1>11 DEF vars
<1> QED
  BY <1>b, <1>1, <1>2, <1>3, <1>4, <1>5, <1>6, <1>7, <1>8, <1>9, <1>10, <1>11 DEF Next, Session

(* Whatever cut the sessions before it, SyncManager::prepareSync() ends    *)
(* well when nobody disturbs it, the password is right, and the server     *)
(* honest, with a source the client asks for: unless the server had to be  *)
(* asked for its credentials.                                              *)
THEOREM HealsByItself == Spec => []HealsForCause
<1>1. TypeOK /\ GoesInv /\ NonceInv /\ HealInv => HealsForCause
  BY DEF HealInv
<1>2. Init => TypeOK /\ GoesInv /\ NonceInv /\ HealInv
  BY TypeInit, GoesInit, NonceInit, HealInit
<1>3. TypeOK /\ GoesInv /\ NonceInv /\ HealInv /\ [Next]_vars
        => (TypeOK /\ GoesInv /\ NonceInv /\ HealInv)'
  <2> SUFFICES ASSUME TypeOK, GoesInv, NonceInv, HealInv, [Next]_vars PROVE HealInv'
    BY TypeNext, GoesNext, NonceNext
  <2> QED
    BY RenewedNext, KnownClientNext, BlankNext, SmoothNext, HealsNext DEF HealInv
<1> QED
  BY <1>1, <1>2, <1>3, PTL DEF Spec
=============================================================================
