--------------------------- MODULE CTPServiceProofs ---------------------------
(***************************************************************************)
(* Proofs about CTPService for any number of starts, connections and       *)
(* sessions: types, that a socket is deleted twice only by two threads     *)
(* that close at once, and, with one CTP thread, that a connection has one *)
(* reader, that none leaks while no two threads close at once, and what the*)
(* timeout closes.                                                         *)
(***************************************************************************)
EXTENDS CTPService, TLAPS

(* What each kind of thread does. *)
CTPLabels == {"none", "test", "close", "delete", "null", "state", "sleep", "asleep", "open",
              "reset", "connect", "auth", "sent", "read", "recv", "receive", "join",
              "refused", "another", "spins", "ended"}
ReceiverLabels == {"none", "read", "recv", "ended"}
HeartbeatLabels == {"none", "test", "send", "sent", "close", "delete", "null", "state", "ended"}
TimerLabels == {"idle", "close", "delete", "null", "state", "stopHeartbeat"}
AppLabels == {"idle", "stopping", "close", "delete", "null", "state"}

LabelsType ==
    /\ \A t \in CTP : pc[t] \in CTPLabels
    /\ \A t \in Receivers : pc[t] \in ReceiverLabels
    /\ \A t \in Heartbeats : pc[t] \in HeartbeatLabels
    /\ pc[Timer] \in TimerLabels /\ pc[App] \in AppLabels

(* Threads that have not begun, and the two a CTP thread is about to begin. *)
NotBegun ==
    /\ \A k \in 1..MaxStarts : k > starts => pc[<<"ctp", k>>] = "none"
    /\ \A k \in 1..MaxSessions : k > sessions =>
          pc[<<"heartbeat", k>>] = "none" /\ pc[<<"receiver", k>>] = "none"
    /\ \A t \in CTP : pc[t] = "receive" =>
          /\ session[t] \in 1..sessions
          /\ pc[<<"heartbeat", session[t]>>] = "none" /\ pc[<<"receiver", session[t]>>] = "none"
          /\ \A u \in CTP \ {t} : pc[u] = "receive" => session[u] # session[t]

Blocked == \A t \in Threads : at[t] # NULL => pc[t] = "recv"

Counted ==
    ctpSocket <= conns /\ freed \subseteq 1..conns /\ \A t \in Threads : held[t] <= conns

TypeInv == TypeOK /\ LabelsType /\ NotBegun /\ Blocked /\ Counted

-----------------------------------------------------------------------------
LEMMA Kinds ==
    /\ CTP \subseteq Threads /\ Receivers \subseteq Threads /\ Heartbeats \subseteq Threads
    /\ Timer \in Threads /\ App \in Threads
    /\ \A t \in CTP : t \notin Receivers /\ t \notin Heartbeats /\ t # Timer /\ t # App
    /\ \A t \in Receivers : t \notin Heartbeats /\ t # Timer /\ t # App
    /\ \A t \in Heartbeats : t # Timer /\ t # App
    /\ Timer # App
    /\ \A k \in 1..MaxStarts : <<"ctp", k>> \in CTP
    /\ \A k \in 1..MaxSessions : <<"receiver", k>> \in Receivers /\ <<"heartbeat", k>> \in Heartbeats
    /\ \A t \in CTP : t[2] \in 1..MaxStarts /\ t = <<"ctp", t[2]>>
    /\ \A t \in Receivers : t[2] \in 1..MaxSessions /\ t = <<"receiver", t[2]>>
    /\ \A t \in Heartbeats : t[2] \in 1..MaxSessions /\ t = <<"heartbeat", t[2]>>
  BY DEF CTP, Receivers, Heartbeats, Timer, App, Threads

(* A thread that makes a step. *)
LEMMA Moved ==
    ASSUME TypeInv, NEW t \in Threads, NEW l, Goto(t, l)
    PROVE  /\ crashed = "no" /\ pc'[t] = l
           /\ \A u \in Threads \ {t} : pc'[u] = pc[u]
           /\ l \in Labels => pc' \in [Threads -> Labels]
  BY DEF Goto, TypeInv, TypeOK

LEMMA GotoLabels ==
    ASSUME TypeInv, NEW t \in Threads, NEW l, Goto(t, l),
           t \in CTP => l \in CTPLabels, t \in Receivers => l \in ReceiverLabels,
           t \in Heartbeats => l \in HeartbeatLabels,
           t = Timer => l \in TimerLabels, t = App => l \in AppLabels
    PROVE  LabelsType' /\ pc' \in [Threads -> Labels]
<1>1. l \in Labels
  BY DEF Threads, CTPLabels, ReceiverLabels, HeartbeatLabels, TimerLabels, AppLabels, Labels
<1>2. /\ pc'[t] = l /\ \A u \in Threads \ {t} : pc'[u] = pc[u]
      /\ pc' \in [Threads -> Labels]
  BY <1>1, Moved
<1>3. LabelsType'
  BY <1>2, Kinds DEF TypeInv, LabelsType
<1> QED
  BY <1>2, <1>3

(* A step that begins no thread and neither gives nor uses a session. *)
LEMMA BegunSame ==
    ASSUME TypeInv, NEW t \in Threads, NEW l, Goto(t, l), UNCHANGED <<starts, sessions>>,
           pc[t] # "none", l # "receive",
           \A u \in CTP \ {t} : session'[u] = session[u]
    PROVE  NotBegun'
<1>1. pc'[t] = l /\ \A u \in Threads \ {t} : pc'[u] = pc[u]
  BY Moved
<1>2. \A u \in Threads : pc[u] = "none" => pc'[u] = "none"
  BY <1>1
<1>3. \A u \in CTP : pc'[u] = "receive" => u # t /\ pc[u] = "receive" /\ session'[u] = session[u]
  BY <1>1, Kinds
<1>4. sessions <= MaxSessions /\ sessions \in Nat /\ MaxSessions \in Nat
  BY BoundsAssumption DEF TypeInv, TypeOK
<1>5. \A u \in CTP : pc[u] = "receive" => session[u] \in 1..MaxSessions
  <2>1. ASSUME NEW u \in CTP, pc[u] = "receive" PROVE session[u] \in 1..MaxSessions
    <3>1. session[u] \in 1..sessions
      BY <2>1 DEF TypeInv, NotBegun
    <3> QED
      BY <1>4, <3>1
  <2> QED
    BY <2>1
<1> QED
  BY <1>1, <1>2, <1>3, <1>5, Kinds DEF TypeInv, NotBegun

(* A step that blocks nobody and moves a thread that is not blocked. *)
LEMMA BlockedSame ==
    ASSUME TypeInv, NEW t \in Threads, NEW l, Goto(t, l),
           (at' = at /\ pc[t] # "recv") \/ at' = [at EXCEPT ![t] = NULL]
    PROVE  Blocked' /\ at' \in [Threads -> Conns \cup {NULL}]
  BY Moved DEF TypeInv, TypeOK, Blocked

LEMMA States ==
    /\ DISCONNECTED \in DISCONNECTED..CLOSING /\ SLEEPING \in DISCONNECTED..CLOSING
    /\ CONNECTING \in DISCONNECTED..CLOSING /\ CONNECTED \in DISCONNECTED..CLOSING
    /\ AUTHENTICATING \in DISCONNECTED..CLOSING /\ READY \in DISCONNECTED..CLOSING
    /\ WAITING_RESPONSE \in DISCONNECTED..CLOSING /\ CLOSING \in DISCONNECTED..CLOSING
  BY DEF DISCONNECTED, SLEEPING, CONNECTING, CONNECTED, AUTHENTICATING, READY,
     WAITING_RESPONSE, CLOSING

LEMMA Answered ==
    ASSUME TypeInv, NEW t \in Threads, Answers(t)
    PROVE  owed' \in [Conns -> 0..MaxOwed] /\ raced' \in BOOLEAN /\ stop' = stop
<1>1. owed' = [owed EXCEPT ![at[t]] = @ - 1] /\ owed[at[t]] > 0 /\ stop' = stop
  BY DEF Answers
<1>2. owed \in [Conns -> 0..MaxOwed] /\ MaxOwed \in Nat
  BY BoundsAssumption DEF TypeInv, TypeOK
<1>3. owed' \in [Conns -> 0..MaxOwed]
  <2>1. CASE at[t] \in Conns
    <3>1. owed[at[t]] - 1 \in 0..MaxOwed
      BY <1>1, <1>2, <2>1
    <3> QED
      BY <1>1, <1>2, <3>1
  <2>2. CASE at[t] \notin Conns
    BY <1>1, <1>2, <2>2
  <2> QED
    BY <2>1, <2>2
<1>4. raced' \in BOOLEAN
  <2>1. raced' = (raced \/ Sending)
    BY DEF Answers
  <2> QED
    BY <2>1
<1> QED
  BY <1>1, <1>3, <1>4

LEMMA Written ==
    ASSUME TypeInv, NEW t \in Threads, Writes(t)
    PROVE  /\ owed' \in [Conns -> 0..MaxOwed] /\ armed' \in BOOLEAN
           /\ ctpSocket \in Conns /\ owed'[ctpSocket] > 0
           /\ \A c \in Conns \ {ctpSocket} : owed'[c] = owed[c]
<1>1. /\ owed' = [owed EXCEPT ![ctpSocket] = @ + 1] /\ owed[ctpSocket] < MaxOwed
      /\ armed' = FALSE /\ ctpSocket \in Conns
  BY DEF Writes, TypeInv, TypeOK
<1>2. owed \in [Conns -> 0..MaxOwed] /\ MaxOwed \in Nat
  BY BoundsAssumption DEF TypeInv, TypeOK
<1>3. owed[ctpSocket] + 1 \in 0..MaxOwed /\ owed[ctpSocket] + 1 > 0
  BY <1>1, <1>2
<1> QED
  BY <1>1, <1>2, <1>3

LEMMA HeartbeatTold ==
    ASSUME TypeInv, stopHeartbeatThread
    PROVE  terminate' \subseteq 1..MaxSessions /\ heartbeatThread' \in 0..MaxSessions
<1>1. MaxSessions \in Nat /\ heartbeatThread \in 0..MaxSessions /\ terminate \subseteq 1..MaxSessions
  BY BoundsAssumption DEF TypeInv, TypeOK
<1> QED
  BY <1>1 DEF stopHeartbeatThread, Told

LEMMA TypeInit == Init => TypeInv
<1> SUFFICES ASSUME Init PROVE TypeInv
  OBVIOUS
<1>1. ctpSocket \in {0, 1} /\ conns = ctpSocket /\ MaxConns \in Nat \ {0} /\ MaxOwed \in Nat
      /\ MaxStarts \in Nat /\ MaxSessions \in Nat
  BY BoundsAssumption DEF Init, NULL
<1>2. /\ pc \in [Threads -> Labels] /\ \A t \in Threads : pc[t] = IF t \in {Timer, App} THEN "idle" ELSE "none"
      /\ \A t \in Threads : at[t] = NULL
  BY DEF Init, Labels
<1>3. LabelsType /\ NotBegun
  BY <1>2, Kinds DEF LabelsType, NotBegun, CTPLabels, ReceiverLabels, HeartbeatLabels,
     TimerLabels, AppLabels
<1>4. TypeOK
  <2>1. ctpState \in DISCONNECTED..CLOSING /\ ctpSocket \in Conns \cup {NULL} /\ conns \in 0..MaxConns
    BY <1>1 DEF Init, DISCONNECTED, CLOSING, READY, Conns, NULL
  <2>2. leaving \in BOOLEAN
    BY DEF Init
  <2>3. /\ heartbeatThread \in 0..MaxSessions /\ starts \in 0..MaxStarts /\ sessions \in 0..MaxSessions
        /\ session \in [CTP -> 0..MaxSessions] /\ owed \in [Conns -> 0..MaxOwed]
    BY <1>1 DEF Init
  <2> QED
    BY <1>2, <2>1, <2>2, <2>3 DEF Init, TypeOK
<1>5. Blocked /\ Counted
  BY <1>1, <1>2 DEF Init, Blocked, Counted, NULL
<1> QED
  BY <1>3, <1>4, <1>5 DEF TypeInv

LEMMA AfterCloseType ==
    ASSUME TypeInv
    PROVE  /\ \A t \in CTP : AfterClose(t) \in {"reset", "sleep", "open", "refused"}
           /\ \A t \in Heartbeats : AfterClose(t) = "ended"
           /\ AfterClose(Timer) = "stopHeartbeat" /\ AfterClose(App) = "idle"
<1>1. \A t \in CTP : retry[t] \in {"no", "restore", "jump", "refused"}
  BY DEF TypeInv, TypeOK
<1> QED
  BY <1>1, Kinds DEF AfterClose

LEMMA ClosingKinds ==
    ASSUME TypeInv, NEW t \in Threads, pc[t] \in {"close", "delete", "null", "state"}
    PROVE  /\ t \in CTP \/ t \in Heartbeats \/ t = Timer \/ t = App
           /\ AfterClose(t) \in {"reset", "sleep", "open", "refused", "ended", "stopHeartbeat",
                                 "idle"}
<1>1. t \in CTP \/ t \in Heartbeats \/ t = Timer \/ t = App
  BY Kinds DEF TypeInv, LabelsType, ReceiverLabels, Threads
<1> QED
  BY <1>1, AfterCloseType

LEMMA TypeNext == TypeInv /\ [Next]_vars => TypeInv'
<1> SUFFICES ASSUME TypeInv, [Next]_vars PROVE TypeInv'
  OBVIOUS
<1> USE DEF TypeInv, own, shared, heartbeat, counts, fate, history
<1>1. ASSUME NEW t \in CTP, NextRound(t) PROVE TypeInv'
  <2>1. PICK l \in CTPLabels : Goto(t, l) /\ l # "receive" /\ pc[t] # "none"
    BY <1>1 DEF NextRound, CTPLabels
  <2>2. t \in Threads /\ LabelsType' /\ pc' \in [Threads -> Labels]
    BY <2>1, Kinds, GotoLabels
  <2>3. NotBegun'
    BY <1>1, <2>1, <2>2, BegunSame DEF NextRound
  <2>4. Blocked' /\ at' \in [Threads -> Conns \cup {NULL}]
    BY <1>1, <2>1, <2>2, BlockedSame DEF NextRound
  <2>5. TypeOK' /\ Counted'
    BY <1>1, States, <2>2, <2>4 DEF NextRound, TypeOK, Counted
  <2> QED
    BY <2>2, <2>3, <2>4, <2>5
<1>2. ASSUME NEW t \in CTP, Sleep(t) PROVE TypeInv'
  <2>1. PICK l \in CTPLabels : Goto(t, l) /\ l # "receive" /\ pc[t] # "none"
    BY <1>2 DEF Sleep, CTPLabels
  <2>2. t \in Threads /\ LabelsType' /\ pc' \in [Threads -> Labels]
    BY <2>1, Kinds, GotoLabels
  <2>3. NotBegun'
    BY <1>2, <2>1, <2>2, BegunSame DEF Sleep
  <2>4. Blocked' /\ at' \in [Threads -> Conns \cup {NULL}]
    BY <1>2, <2>1, <2>2, BlockedSame DEF Sleep
  <2>5. TypeOK' /\ Counted'
    BY <1>2, States, <2>2, <2>4 DEF Sleep, TypeOK, Counted
  <2> QED
    BY <2>2, <2>3, <2>4, <2>5
<1>3. ASSUME NEW t \in CTP, Wake(t) PROVE TypeInv'
  <2>1. PICK l \in CTPLabels : Goto(t, l) /\ l # "receive" /\ pc[t] # "none"
    BY <1>3 DEF Wake, CTPLabels
  <2>2. t \in Threads /\ LabelsType' /\ pc' \in [Threads -> Labels]
    BY <2>1, Kinds, GotoLabels
  <2>3. NotBegun'
    BY <1>3, <2>1, <2>2, BegunSame DEF Wake
  <2>4. Blocked' /\ at' \in [Threads -> Conns \cup {NULL}]
    BY <1>3, <2>1, <2>2, BlockedSame DEF Wake
  <2>5. TypeOK' /\ Counted'
    BY <1>3, States, <2>2, <2>4 DEF Wake, TypeOK, Counted
  <2> QED
    BY <2>2, <2>3, <2>4, <2>5
<1>4. ASSUME NEW t \in CTP, Open(t) PROVE TypeInv'
  <2>1. PICK l \in CTPLabels : Goto(t, l) /\ l # "receive" /\ pc[t] # "none"
    BY <1>4 DEF Open, CTPLabels
  <2>2. t \in Threads /\ LabelsType' /\ pc' \in [Threads -> Labels]
    BY <2>1, Kinds, GotoLabels
  <2>3. NotBegun'
    BY <1>4, <2>1, <2>2, BegunSame DEF Open
  <2>4. Blocked' /\ at' \in [Threads -> Conns \cup {NULL}]
    BY <1>4, <2>1, <2>2, BlockedSame DEF Open
  <2>5. TypeOK' /\ Counted'
    BY <1>4, States, <2>2, <2>4 DEF Open, TypeOK, Counted
  <2> QED
    BY <2>2, <2>3, <2>4, <2>5
<1>5. ASSUME NEW t \in CTP, Reset(t) PROVE TypeInv'
  <2>1. PICK l \in CTPLabels : Goto(t, l) /\ l # "receive" /\ pc[t] # "none"
    BY <1>5 DEF Reset, CTPLabels
  <2>2. t \in Threads /\ LabelsType' /\ pc' \in [Threads -> Labels]
    BY <2>1, Kinds, GotoLabels
  <2>3. NotBegun'
    BY <1>5, <2>1, <2>2, BegunSame DEF Reset
  <2>4. Blocked' /\ at' \in [Threads -> Conns \cup {NULL}]
    BY <1>5, <2>1, <2>2, BlockedSame DEF Reset
  <2>5. TypeOK' /\ Counted'
    BY <1>5, States, <2>2, <2>4 DEF Reset, TypeOK, Counted
  <2> QED
    BY <2>2, <2>3, <2>4, <2>5
<1>6. ASSUME NEW t \in CTP, ConnectFails(t) PROVE TypeInv'
  <2>1. PICK l \in CTPLabels : Goto(t, l) /\ l # "receive" /\ pc[t] # "none"
    BY <1>6 DEF ConnectFails, CTPLabels, Restore
  <2>2. t \in Threads /\ LabelsType' /\ pc' \in [Threads -> Labels]
    BY <2>1, Kinds, GotoLabels
  <2>3. NotBegun'
    BY <1>6, <2>1, <2>2, BegunSame DEF ConnectFails, Restore
  <2>4. Blocked' /\ at' \in [Threads -> Conns \cup {NULL}]
    BY <1>6, <2>1, <2>2, BlockedSame DEF ConnectFails, Restore
  <2>5. TypeOK' /\ Counted'
    <3>1. ctpSocket' = 0 /\ ctpSocket' \in Conns \cup {NULL} /\ conns \in Nat /\ conns' = conns
      BY <1>6 DEF ConnectFails, NULL, TypeOK
    <3> QED
      BY <1>6, <3>1, States, <2>2, <2>4 DEF ConnectFails, TypeOK, Counted, Restore
  <2> QED
    BY <2>2, <2>3, <2>4, <2>5
<1>7. ASSUME NEW t \in CTP, SendAuth(t) PROVE TypeInv'
  <2>1. PICK l \in CTPLabels : Goto(t, l) /\ l # "receive" /\ pc[t] # "none"
    BY <1>7 DEF SendAuth, CTPLabels, Writes
  <2>2. t \in Threads /\ LabelsType' /\ pc' \in [Threads -> Labels]
    BY <2>1, Kinds, GotoLabels
  <2>3. NotBegun'
    BY <1>7, <2>1, <2>2, BegunSame DEF SendAuth, Writes
  <2>4. Blocked' /\ at' \in [Threads -> Conns \cup {NULL}]
    BY <1>7, <2>1, <2>2, BlockedSame DEF SendAuth, Writes
  <2>5. TypeOK' /\ Counted'
    BY <1>7, States, Written, <2>2, <2>4 DEF SendAuth, TypeOK, Counted
  <2> QED
    BY <2>2, <2>3, <2>4, <2>5
<1>8. ASSUME NEW t \in CTP, SendAuthFails(t) PROVE TypeInv'
  <2>1. PICK l \in CTPLabels : Goto(t, l) /\ l # "receive" /\ pc[t] # "none"
    BY <1>8 DEF SendAuthFails, CTPLabels, Restore
  <2>2. t \in Threads /\ LabelsType' /\ pc' \in [Threads -> Labels]
    BY <2>1, Kinds, GotoLabels
  <2>3. NotBegun'
    BY <1>8, <2>1, <2>2, BegunSame DEF SendAuthFails, Restore
  <2>4. Blocked' /\ at' \in [Threads -> Conns \cup {NULL}]
    BY <1>8, <2>1, <2>2, BlockedSame DEF SendAuthFails, Restore
  <2>5. TypeOK' /\ Counted'
    BY <1>8, States, <2>2, <2>4 DEF SendAuthFails, TypeOK, Counted, Restore
  <2> QED
    BY <2>2, <2>3, <2>4, <2>5
<1>9. ASSUME NEW t \in Heartbeats, HeartbeatTest(t) PROVE TypeInv'
  <2>1. PICK l \in HeartbeatLabels : Goto(t, l) /\ l # "receive" /\ pc[t] # "none"
    BY <1>9 DEF HeartbeatTest, HeartbeatLabels
  <2>2. t \in Threads /\ LabelsType' /\ pc' \in [Threads -> Labels]
    BY <2>1, Kinds, GotoLabels
  <2>3. NotBegun'
    BY <1>9, <2>1, <2>2, BegunSame DEF HeartbeatTest
  <2>4. Blocked' /\ at' \in [Threads -> Conns \cup {NULL}]
    BY <1>9, <2>1, <2>2, BlockedSame DEF HeartbeatTest
  <2>5. TypeOK' /\ Counted'
    BY <1>9, States, <2>2, <2>4 DEF HeartbeatTest, TypeOK, Counted
  <2> QED
    BY <2>2, <2>3, <2>4, <2>5
<1>10. ASSUME NEW t \in Heartbeats, SendReady(t) PROVE TypeInv'
  <2>1. PICK l \in HeartbeatLabels : Goto(t, l) /\ l # "receive" /\ pc[t] # "none"
    BY <1>10 DEF SendReady, HeartbeatLabels, Writes
  <2>2. t \in Threads /\ LabelsType' /\ pc' \in [Threads -> Labels]
    BY <2>1, Kinds, GotoLabels
  <2>3. NotBegun'
    BY <1>10, <2>1, <2>2, BegunSame DEF SendReady, Writes
  <2>4. Blocked' /\ at' \in [Threads -> Conns \cup {NULL}]
    BY <1>10, <2>1, <2>2, BlockedSame DEF SendReady, Writes
  <2>5. TypeOK' /\ Counted'
    BY <1>10, States, Written, <2>2, <2>4 DEF SendReady, TypeOK, Counted
  <2> QED
    BY <2>2, <2>3, <2>4, <2>5
<1>11. ASSUME NEW t \in Heartbeats, SendReadyFails(t) PROVE TypeInv'
  <2>1. PICK l \in HeartbeatLabels : Goto(t, l) /\ l # "receive" /\ pc[t] # "none"
    BY <1>11 DEF SendReadyFails, HeartbeatLabels
  <2>2. t \in Threads /\ LabelsType' /\ pc' \in [Threads -> Labels]
    BY <2>1, Kinds, GotoLabels
  <2>3. NotBegun'
    BY <1>11, <2>1, <2>2, BegunSame DEF SendReadyFails
  <2>4. Blocked' /\ at' \in [Threads -> Conns \cup {NULL}]
    BY <1>11, <2>1, <2>2, BlockedSame DEF SendReadyFails
  <2>5. TypeOK' /\ Counted'
    BY <1>11, States, <2>2, <2>4 DEF SendReadyFails, TypeOK, Counted
  <2> QED
    BY <2>2, <2>3, <2>4, <2>5
<1>12. ASSUME NEW t \in Receivers, ReceiverLeaves(t) PROVE TypeInv'
  <2>1. PICK l \in ReceiverLabels : Goto(t, l) /\ l # "receive" /\ pc[t] # "none"
    BY <1>12 DEF ReceiverLeaves, ReceiverLabels
  <2>2. t \in Threads /\ LabelsType' /\ pc' \in [Threads -> Labels]
    BY <2>1, Kinds, GotoLabels
  <2>3. NotBegun'
    BY <1>12, <2>1, <2>2, BegunSame DEF ReceiverLeaves
  <2>4. Blocked' /\ at' \in [Threads -> Conns \cup {NULL}]
    BY <1>12, <2>1, <2>2, BlockedSame DEF ReceiverLeaves
  <2>5. TypeOK' /\ Counted'
    BY <1>12, States, <2>2, <2>4 DEF ReceiverLeaves, TypeOK, Counted
  <2> QED
    BY <2>2, <2>3, <2>4, <2>5
<1>13. CASE TimeoutExpires
  <2>1. PICK l \in TimerLabels : Goto(Timer, l) /\ l # "receive" /\ pc[Timer] # "none"
    BY <1>13 DEF TimeoutExpires, TimerLabels
  <2>2. Timer \in Threads /\ LabelsType' /\ pc' \in [Threads -> Labels]
    BY <2>1, Kinds, GotoLabels
  <2>3. NotBegun'
    BY <1>13, <2>1, <2>2, BegunSame DEF TimeoutExpires
  <2>4. Blocked' /\ at' \in [Threads -> Conns \cup {NULL}]
    BY <1>13, <2>1, <2>2, BlockedSame DEF TimeoutExpires
  <2>5. TypeOK' /\ Counted'
    BY <1>13, States, <2>2, <2>4 DEF TimeoutExpires, TypeOK, Counted
  <2> QED
    BY <2>2, <2>3, <2>4, <2>5
<1>14. CASE TimeoutStopsHeartbeat
  <2>1. PICK l \in TimerLabels : Goto(Timer, l) /\ l # "receive" /\ pc[Timer] # "none"
    BY <1>14 DEF TimeoutStopsHeartbeat, TimerLabels, stopHeartbeatThread, Told
  <2>2. Timer \in Threads /\ LabelsType' /\ pc' \in [Threads -> Labels]
    BY <2>1, Kinds, GotoLabels
  <2>3. NotBegun'
    BY <1>14, <2>1, <2>2, BegunSame DEF TimeoutStopsHeartbeat, stopHeartbeatThread, Told
  <2>4. Blocked' /\ at' \in [Threads -> Conns \cup {NULL}]
    BY <1>14, <2>1, <2>2, BlockedSame DEF TimeoutStopsHeartbeat, stopHeartbeatThread, Told
  <2>5. TypeOK' /\ Counted'
    BY <1>14, States, HeartbeatTold, <2>2, <2>4 DEF TimeoutStopsHeartbeat, TypeOK, Counted
  <2> QED
    BY <2>2, <2>3, <2>4, <2>5
<1>15. CASE StopCTP
  <2>1. PICK l \in AppLabels : Goto(App, l) /\ l # "receive" /\ pc[App] # "none"
    BY <1>15 DEF StopCTP, AppLabels
  <2>2. App \in Threads /\ LabelsType' /\ pc' \in [Threads -> Labels]
    BY <2>1, Kinds, GotoLabels
  <2>3. NotBegun'
    BY <1>15, <2>1, <2>2, BegunSame DEF StopCTP
  <2>4. Blocked' /\ at' \in [Threads -> Conns \cup {NULL}]
    BY <1>15, <2>1, <2>2, BlockedSame DEF StopCTP
  <2>5. TypeOK' /\ Counted'
    BY <1>15, States, <2>2, <2>4 DEF StopCTP, TypeOK, Counted
  <2> QED
    BY <2>2, <2>3, <2>4, <2>5
<1>16. CASE StopThreads
  <2>1. PICK l \in AppLabels : Goto(App, l) /\ l # "receive" /\ pc[App] # "none"
    BY <1>16 DEF StopThreads, AppLabels, SocketClosed, stopHeartbeatThread, Told
  <2>2. App \in Threads /\ LabelsType' /\ pc' \in [Threads -> Labels]
    BY <2>1, Kinds, GotoLabels
  <2>3. NotBegun'
    BY <1>16, <2>1, <2>2, BegunSame DEF StopThreads, SocketClosed, stopHeartbeatThread, Told
  <2>4. Blocked' /\ at' \in [Threads -> Conns \cup {NULL}]
    BY <1>16, <2>1, <2>2, BlockedSame DEF StopThreads, SocketClosed, stopHeartbeatThread, Told
  <2>5. TypeOK' /\ Counted'
    BY <1>16, States, HeartbeatTold, <2>2, <2>4 DEF StopThreads, TypeOK, Counted, SocketClosed
  <2> QED
    BY <2>2, <2>3, <2>4, <2>5
<1>17. ASSUME NEW t \in CTP, NotAuthenticated(t) PROVE TypeInv'
  <2>1. PICK l \in CTPLabels : Goto(t, l) /\ l # "receive" /\ pc[t] # "none"
    BY <1>17 DEF NotAuthenticated, CTPLabels, Receives, Answers
  <2>2. t \in Threads /\ LabelsType' /\ pc' \in [Threads -> Labels]
    BY <2>1, Kinds, GotoLabels
  <2>3. NotBegun'
    BY <1>17, <2>1, <2>2, BegunSame DEF NotAuthenticated, Receives, Answers
  <2>4. Blocked' /\ at' \in [Threads -> Conns \cup {NULL}]
    BY <1>17, <2>1, <2>2, BlockedSame DEF NotAuthenticated, Receives, Answers
  <2>5. TypeOK' /\ Counted'
    BY <1>17, States, Answered, <2>2, <2>4 DEF NotAuthenticated, TypeOK, Counted, Receives
  <2> QED
    BY <2>2, <2>3, <2>4, <2>5
<1>18. ASSUME NEW t \in CTP, AuthRefused(t) PROVE TypeInv'
  <2>1. PICK l \in CTPLabels : Goto(t, l) /\ l # "receive" /\ pc[t] # "none"
    BY <1>18 DEF AuthRefused, CTPLabels, Receives, Answers
  <2>2. t \in Threads /\ LabelsType' /\ pc' \in [Threads -> Labels]
    BY <2>1, Kinds, GotoLabels
  <2>3. NotBegun'
    BY <1>18, <2>1, <2>2, BegunSame DEF AuthRefused, Receives, Answers
  <2>4. Blocked' /\ at' \in [Threads -> Conns \cup {NULL}]
    BY <1>18, <2>1, <2>2, BlockedSame DEF AuthRefused, Receives, Answers
  <2>5. TypeOK' /\ Counted'
    BY <1>18, States, Answered, <2>2, <2>4 DEF AuthRefused, TypeOK, Counted, Receives
  <2> QED
    BY <2>2, <2>3, <2>4, <2>5
<1>19. ASSUME NEW t \in CTP, AuthRestores(t) PROVE TypeInv'
  <2>1. PICK l \in CTPLabels : Goto(t, l) /\ l # "receive" /\ pc[t] # "none"
    BY <1>19 DEF AuthRestores, CTPLabels, Receives, Answers
  <2>2. t \in Threads /\ LabelsType' /\ pc' \in [Threads -> Labels]
    BY <2>1, Kinds, GotoLabels
  <2>3. NotBegun'
    BY <1>19, <2>1, <2>2, BegunSame DEF AuthRestores, Receives, Answers
  <2>4. Blocked' /\ at' \in [Threads -> Conns \cup {NULL}]
    BY <1>19, <2>1, <2>2, BlockedSame DEF AuthRestores, Receives, Answers
  <2>5. TypeOK' /\ Counted'
    BY <1>19, States, Answered, <2>2, <2>4 DEF AuthRestores, TypeOK, Counted, Receives
  <2> QED
    BY <2>2, <2>3, <2>4, <2>5
<1>20. ASSUME NEW t \in CTP, NoAuthStatus(t) PROVE TypeInv'
  <2>1. PICK l \in CTPLabels : Goto(t, l) /\ l # "receive" /\ pc[t] # "none"
    BY <1>20 DEF NoAuthStatus, CTPLabels, Fails, Restore
  <2>2. t \in Threads /\ LabelsType' /\ pc' \in [Threads -> Labels]
    BY <2>1, Kinds, GotoLabels
  <2>3. NotBegun'
    BY <1>20, <2>1, <2>2, BegunSame DEF NoAuthStatus, Fails, Restore
  <2>4. Blocked' /\ at' \in [Threads -> Conns \cup {NULL}]
    BY <1>20, <2>1, <2>2, BlockedSame DEF NoAuthStatus, Fails, Restore
  <2>5. TypeOK' /\ Counted'
    BY <1>20, States, <2>2, <2>4 DEF NoAuthStatus, TypeOK, Counted, Fails, Restore
  <2> QED
    BY <2>2, <2>3, <2>4, <2>5
<1>21. ASSUME NEW t \in Receivers, GetOK(t) PROVE TypeInv'
  <2>1. PICK l \in ReceiverLabels : Goto(t, l) /\ l # "receive" /\ pc[t] # "none"
    BY <1>21 DEF GetOK, ReceiverLabels, Receives, Answers
  <2>2. t \in Threads /\ LabelsType' /\ pc' \in [Threads -> Labels]
    BY <2>1, Kinds, GotoLabels
  <2>3. NotBegun'
    BY <1>21, <2>1, <2>2, BegunSame DEF GetOK, Receives, Answers
  <2>4. Blocked' /\ at' \in [Threads -> Conns \cup {NULL}]
    BY <1>21, <2>1, <2>2, BlockedSame DEF GetOK, Receives, Answers
  <2>5. TypeOK' /\ Counted'
    BY <1>21, States, Answered, <2>2, <2>4 DEF GetOK, TypeOK, Counted, Receives
  <2> QED
    BY <2>2, <2>3, <2>4, <2>5
<1>22. ASSUME NEW t \in Receivers, GetSync(t) PROVE TypeInv'
  <2>1. PICK l \in ReceiverLabels : Goto(t, l) /\ l # "receive" /\ pc[t] # "none"
    BY <1>22 DEF GetSync, ReceiverLabels, Receives
  <2>2. t \in Threads /\ LabelsType' /\ pc' \in [Threads -> Labels]
    BY <2>1, Kinds, GotoLabels
  <2>3. NotBegun'
    BY <1>22, <2>1, <2>2, BegunSame DEF GetSync, Receives
  <2>4. Blocked' /\ at' \in [Threads -> Conns \cup {NULL}]
    BY <1>22, <2>1, <2>2, BlockedSame DEF GetSync, Receives
  <2>5. TypeOK' /\ Counted'
    BY <1>22, States, <2>2, <2>4 DEF GetSync, TypeOK, Counted, Receives
  <2> QED
    BY <2>2, <2>3, <2>4, <2>5
<1>23. ASSUME NEW t \in Receivers, GetBadStatus(t) PROVE TypeInv'
  <2>1. PICK l \in ReceiverLabels : Goto(t, l) /\ l # "receive" /\ pc[t] # "none"
    BY <1>23 DEF GetBadStatus, ReceiverLabels, Receives
  <2>2. t \in Threads /\ LabelsType' /\ pc' \in [Threads -> Labels]
    BY <2>1, Kinds, GotoLabels
  <2>3. NotBegun'
    BY <1>23, <2>1, <2>2, BegunSame DEF GetBadStatus, Receives
  <2>4. Blocked' /\ at' \in [Threads -> Conns \cup {NULL}]
    BY <1>23, <2>1, <2>2, BlockedSame DEF GetBadStatus, Receives
  <2>5. TypeOK' /\ Counted'
    BY <1>23, States, <2>2, <2>4 DEF GetBadStatus, TypeOK, Counted, Receives
  <2> QED
    BY <2>2, <2>3, <2>4, <2>5
<1>24. ASSUME NEW t \in Receivers, GetNothing(t) PROVE TypeInv'
  <2>1. PICK l \in ReceiverLabels : Goto(t, l) /\ l # "receive" /\ pc[t] # "none"
    BY <1>24 DEF GetNothing, ReceiverLabels, Fails, AfterFailure
  <2>2. t \in Threads /\ LabelsType' /\ pc' \in [Threads -> Labels]
    BY <2>1, Kinds, GotoLabels
  <2>3. NotBegun'
    BY <1>24, <2>1, <2>2, BegunSame DEF GetNothing, Fails, AfterFailure
  <2>4. Blocked' /\ at' \in [Threads -> Conns \cup {NULL}]
    BY <1>24, <2>1, <2>2, BlockedSame DEF GetNothing, Fails, AfterFailure
  <2>5. TypeOK' /\ Counted'
    BY <1>24, States, <2>2, <2>4 DEF GetNothing, TypeOK, Counted, Fails, AfterFailure
  <2> QED
    BY <2>2, <2>3, <2>4, <2>5
<1>25. ASSUME NEW t \in CTP, Join(t) PROVE TypeInv'
  <2>1. PICK l \in CTPLabels : Goto(t, l) /\ l # "receive" /\ pc[t] # "none"
    BY <1>25 DEF Join, CTPLabels, Restore, stopHeartbeatThread, Told
  <2>2. t \in Threads /\ LabelsType' /\ pc' \in [Threads -> Labels]
    BY <2>1, Kinds, GotoLabels
  <2>3. NotBegun'
    BY <1>25, <2>1, <2>2, BegunSame DEF Join, Restore, stopHeartbeatThread, Told
  <2>4. Blocked' /\ at' \in [Threads -> Conns \cup {NULL}]
    BY <1>25, <2>1, <2>2, BlockedSame DEF Join, Restore, stopHeartbeatThread, Told
  <2>5. TypeOK' /\ Counted'
    <3>1. 0 \in 0..MaxSessions
      BY BoundsAssumption
    <3> QED
      BY <1>25, <3>1, States, HeartbeatTold, <2>2, <2>4 DEF Join, TypeOK, Counted, Restore
  <2> QED
    BY <2>2, <2>3, <2>4, <2>5
<1>26. ASSUME NEW t \in Threads, Closing(t) PROVE TypeInv'
  <2>1. pc[t] \in {"close", "delete", "null", "state"}
    BY <1>26 DEF Closing, TestSocket, Delete, Nullify, Disconnected
  <2>2. PICK l : /\ Goto(t, l) /\ l # "receive"
                 /\ l \in {"delete", "null", "state", AfterClose(t)}
    BY <1>26, <2>1, ClosingKinds DEF Closing, TestSocket, Delete, Nullify, Disconnected
  <2>3. LabelsType' /\ pc' \in [Threads -> Labels]
    BY <2>1, <2>2, ClosingKinds, Kinds, AfterCloseType, GotoLabels DEF CTPLabels,
       HeartbeatLabels, TimerLabels, AppLabels
  <2>4. own' = own /\ counts' = counts
    BY <1>26 DEF Closing, TestSocket, Delete, Nullify, Disconnected
  <2>5. NotBegun'
    BY <2>1, <2>2, <2>4, BegunSame
  <2>6. Blocked' /\ at' \in [Threads -> Conns \cup {NULL}]
    BY <2>1, <2>2, <2>4, BlockedSame
  <2>7. TypeOK' /\ Counted'
    <3>1. CASE TestSocket(t)
      <4>1. held' \in [Threads -> Conns \cup {NULL}] /\ \A u \in Threads : held'[u] <= conns
        BY <3>1 DEF TestSocket, TypeOK, Counted
      <4>2. clash' \in BOOLEAN
        <5>1. clash' = (clash \/ (ctpSocket # NULL /\ \E u \in Threads : InClose(u)))
          BY <3>1 DEF TestSocket
        <5> QED
          BY <5>1
      <4> QED
        BY <3>1, <4>1, <4>2, <2>3, <2>6 DEF TestSocket, TypeOK, Counted
    <3>2. CASE Delete(t)
      <4>1. PICK c \in {held[t], ctpSocket} :
               freed' = Deleted(c) /\ crashed' = IF c \in freed THEN "twice" ELSE crashed
        BY <3>2 DEF Delete
      <4>2. c \in 0..conns /\ c \in Conns \cup {NULL} /\ conns \in Nat
        BY <4>1, BoundsAssumption DEF TypeOK, Counted, NULL, Conns
      <4>3. freed' \subseteq Conns /\ freed' \subseteq 1..conns
        BY <4>1, <4>2 DEF Deleted, TypeOK, Counted, NULL
      <4>4. raced' \in BOOLEAN
        <5>1. raced' = (raced \/ Sending)
          BY <3>2 DEF Delete
        <5> QED
          BY <5>1
      <4>5. owed' \in [Conns -> 0..MaxOwed]
        BY <3>2, BoundsAssumption DEF Delete, Unanswered, TypeOK
      <4>6. held' \in [Threads -> Conns \cup {NULL}] /\ \A u \in Threads : held'[u] <= conns
        BY <3>2, <4>2 DEF Delete, TypeOK, Counted, NULL
      <4> QED
        BY <3>2, <4>1, <4>3, <4>4, <4>5, <4>6, <2>3, <2>6 DEF Delete, TypeOK, Counted
    <3>3. CASE Nullify(t)
      <4>1. ctpSocket' = 0 /\ ctpSocket' \in Conns \cup {NULL} /\ conns \in Nat /\ conns' = conns
        BY <3>3 DEF Nullify, PointerAfter, NULL, TypeOK
      <4>2. raced' \in BOOLEAN
        BY <3>3 DEF Nullify, Sending
      <4> QED
        BY <3>3, <4>1, <4>2, <2>3, <2>6 DEF Nullify, TypeOK, Counted
    <3>4. CASE Disconnected(t)
      BY <3>4, <2>3, <2>6, States DEF Disconnected, TypeOK, Counted
    <3> QED
      BY <1>26, <3>1, <3>2, <3>3, <3>4 DEF Closing
  <2> QED
    BY <2>3, <2>5, <2>6, <2>7
<1>27. ASSUME NEW t \in CTP, Connect(t) PROVE TypeInv'
  <2>1. Goto(t, "auth") /\ pc[t] = "connect"
    BY <1>27 DEF Connect
  <2>2. t \in Threads /\ LabelsType' /\ pc' \in [Threads -> Labels]
    BY <2>1, Kinds, GotoLabels DEF CTPLabels
  <2>3. NotBegun'
    BY <1>27, <2>1, <2>2, BegunSame DEF Connect
  <2>4. Blocked' /\ at' \in [Threads -> Conns \cup {NULL}]
    BY <1>27, <2>1, <2>2, BlockedSame DEF Connect
  <2>5. /\ conns' \in 0..MaxConns /\ conns' = conns + 1 /\ ctpSocket' = conns'
        /\ ctpSocket' \in Conns /\ conns \in Nat
    BY <1>27, BoundsAssumption DEF Connect, TypeOK, Conns
  <2>6. freed' \subseteq 1..conns' /\ \A u \in Threads : held'[u] <= conns'
    BY <1>27, <2>5 DEF Connect, Counted, TypeOK, Conns, NULL
  <2>7. raced' \in BOOLEAN
    BY <1>27 DEF Connect, Sending
  <2> QED
    BY <1>27, <2>2, <2>3, <2>4, <2>5, <2>6, <2>7, States DEF Connect, TypeOK, Counted
<1>28. ASSUME NEW t \in CTP, AuthOK(t) PROVE TypeInv'
  <2>1. Goto(t, "receive") /\ pc[t] = "recv" /\ at' = [at EXCEPT ![t] = NULL]
    BY <1>28 DEF AuthOK, Receives
  <2>2. t \in Threads /\ LabelsType' /\ pc' \in [Threads -> Labels]
    BY <2>1, Kinds, GotoLabels DEF CTPLabels
  <2>3. pc'[t] = "receive" /\ \A u \in Threads \ {t} : pc'[u] = pc[u]
    BY <2>1, <2>2, Moved
  <2>4. /\ sessions' = sessions + 1 /\ sessions \in Nat /\ MaxSessions \in Nat /\ starts' = starts
        /\ sessions' \in 1..MaxSessions /\ session'[t] = sessions'
        /\ \A u \in CTP \ {t} : session'[u] = session[u]
        /\ session' \in [CTP -> 0..MaxSessions]
    BY <1>28, BoundsAssumption DEF AuthOK, TypeOK
  <2>5. NotBegun'
    <3>1. \A k \in 1..MaxStarts : k > starts' => pc'[<<"ctp", k>>] = "none"
      <4>1. \A k \in 1..MaxStarts : k > starts => <<"ctp", k>> # t
        BY <2>1 DEF NotBegun
      <4> QED
        BY <4>1, <2>3, <2>4, Kinds DEF NotBegun
    <3>2. \A k \in 1..MaxSessions : k > sessions =>
             pc'[<<"heartbeat", k>>] = "none" /\ pc'[<<"receiver", k>>] = "none"
      BY <2>3, Kinds DEF NotBegun
    <3>3. ASSUME NEW u \in CTP, pc'[u] = "receive"
          PROVE  /\ session'[u] \in 1..sessions'
                 /\ pc'[<<"heartbeat", session'[u]>>] = "none"
                 /\ pc'[<<"receiver", session'[u]>>] = "none"
      <4>1. CASE u = t
        BY <4>1, <3>2, <2>4
      <4>2. CASE u # t
        <5>1. pc[u] = "receive" /\ session'[u] = session[u] /\ session[u] \in 1..sessions
              /\ pc[<<"heartbeat", session[u]>>] = "none" /\ pc[<<"receiver", session[u]>>] = "none"
          BY <3>3, <4>2, <2>3, <2>4, Kinds DEF NotBegun
        <5>2. session[u] \in 1..MaxSessions
          BY <5>1, <2>4
        <5> QED
          BY <5>1, <5>2, <2>3, <2>4, Kinds
      <4> QED
        BY <4>1, <4>2
    <3>4. ASSUME NEW u \in CTP, NEW v \in CTP \ {u}, pc'[u] = "receive", pc'[v] = "receive"
          PROVE  session'[v] # session'[u]
      <4>1. \A w \in CTP \ {t} : pc'[w] = "receive" =>
               pc[w] = "receive" /\ session'[w] = session[w] /\ session[w] \in 1..sessions
        BY <2>3, <2>4, Kinds DEF NotBegun
      <4>2. CASE u = t \/ v = t
        BY <4>1, <4>2, <3>4, <2>4
      <4>3. CASE u # t /\ v # t
        <5>1. pc[u] = "receive" /\ pc[v] = "receive"
              /\ session'[u] = session[u] /\ session'[v] = session[v]
          BY <4>1, <4>3, <3>4
        <5>2. \A w \in CTP \ {u} : pc[w] = "receive" => session[w] # session[u]
          BY <5>1 DEF NotBegun
        <5> QED
          BY <5>1, <5>2
      <4> QED
        BY <4>2, <4>3
    <3> QED
      BY <3>1, <3>2, <3>3, <3>4, <2>4 DEF NotBegun
  <2>6. Blocked' /\ at' \in [Threads -> Conns \cup {NULL}]
    BY <2>1, <2>2, BlockedSame
  <2> QED
    BY <1>28, <2>2, <2>4, <2>5, <2>6, Answered, States DEF AuthOK, Receives, TypeOK, Counted
<1>29. ASSUME NEW t \in CTP, Receive(t) PROVE TypeInv'
  <2> DEFINE hb == <<"heartbeat", session[t]>>
             rc == <<"receiver", session[t]>>
  <2>1. CASE ctpSocket = NULL
    <3>1. Goto(t, "test") /\ pc[t] = "receive" /\ heartbeatThread' = heartbeatThread
      BY <1>29, <2>1 DEF Receive, Restore
    <3>2. t \in Threads /\ LabelsType' /\ pc' \in [Threads -> Labels]
      BY <3>1, Kinds, GotoLabels DEF CTPLabels
    <3>3. NotBegun'
      BY <1>29, <3>1, <3>2, BegunSame DEF Receive
    <3>4. Blocked' /\ at' \in [Threads -> Conns \cup {NULL}]
      BY <1>29, <3>1, <3>2, BlockedSame DEF Receive
    <3> QED
      BY <1>29, <2>1, <3>1, <3>2, <3>3, <3>4 DEF Receive, Restore, TypeOK, Counted
  <2>2. CASE ctpSocket # NULL
    <3>1. /\ pc[t] = "receive"
          /\ pc' = [pc EXCEPT ![hb] = "test", ![rc] = "read", ![t] = "join"]
          /\ heartbeatThread' = session[t] /\ retry' = retry
      BY <1>29, <2>2 DEF Receive
    <3>2. session[t] \in 1..sessions /\ session[t] \in 1..MaxSessions /\ sessions \in Nat
      <4>1. session[t] \in 1..sessions /\ sessions \in 0..MaxSessions
        BY <3>1 DEF NotBegun, TypeOK
      <4> QED
        BY <4>1, BoundsAssumption
    <3>3. hb \in Heartbeats /\ rc \in Receivers /\ pc[hb] = "none" /\ pc[rc] = "none"
      BY <3>1, <3>2, Kinds DEF NotBegun
    <3>4. t \in Threads /\ hb \in Threads /\ rc \in Threads /\ hb # rc /\ hb # t /\ rc # t
      BY <3>3, Kinds
    <3> HIDE DEF hb, rc
    <3>5. /\ pc'[t] = "join" /\ pc'[hb] = "test" /\ pc'[rc] = "read"
          /\ \A u \in Threads \ {t, hb, rc} : pc'[u] = pc[u]
          /\ pc' \in [Threads -> Labels]
      BY <3>1, <3>4 DEF TypeOK, Labels
    <3>6. LabelsType'
      BY <3>3, <3>4, <3>5, Kinds DEF LabelsType, CTPLabels, HeartbeatLabels, ReceiverLabels
    <3>7. \A u \in CTP \ {t} : pc'[u] = pc[u]
      BY <3>3, <3>5, Kinds
    <3>8. \A k \in 1..MaxSessions : k # session[t] =>
            /\ pc'[<<"heartbeat", k>>] = pc[<<"heartbeat", k>>]
            /\ pc'[<<"receiver", k>>] = pc[<<"receiver", k>>]
      BY <3>3, <3>5, Kinds DEF hb, rc
    <3>9. session' = session /\ sessions' = sessions /\ starts' = starts /\ at' = at
      BY <1>29 DEF Receive
    <3>10. NotBegun'
      <4>1. \A k \in 1..MaxStarts : k > starts' => pc'[<<"ctp", k>>] = "none"
        BY <3>1, <3>7, <3>9, Kinds DEF NotBegun
      <4>2. \A k \in 1..MaxSessions : k > sessions' =>
               pc'[<<"heartbeat", k>>] = "none" /\ pc'[<<"receiver", k>>] = "none"
        BY <3>2, <3>8, <3>9 DEF NotBegun
      <4>3. ASSUME NEW u \in CTP, pc'[u] = "receive"
            PROVE  /\ u # t /\ pc[u] = "receive" /\ session[u] \in 1..sessions
                   /\ session[u] # session[t]
                   /\ pc'[<<"heartbeat", session[u]>>] = "none"
                   /\ pc'[<<"receiver", session[u]>>] = "none"
        <5>1. u # t /\ pc[u] = "receive"
          BY <4>3, <3>5, <3>7
        <5>2. /\ session[u] \in 1..sessions /\ session[u] # session[t]
              /\ pc[<<"heartbeat", session[u]>>] = "none"
              /\ pc[<<"receiver", session[u]>>] = "none"
          BY <5>1, <3>1 DEF NotBegun
        <5>3. session[u] \in 1..MaxSessions
          BY <5>2, <3>2, BoundsAssumption DEF TypeOK
        <5> QED
          BY <5>1, <5>2, <5>3, <3>8
      <4>4. \A u \in CTP : \A v \in CTP \ {u} : pc'[u] = "receive" /\ pc'[v] = "receive" =>
               session[v] # session[u]
        BY <4>3 DEF NotBegun
      <4> QED
        BY <4>1, <4>2, <4>3, <4>4, <3>9 DEF NotBegun
    <3>11. Blocked'
      BY <3>1, <3>3, <3>4, <3>5, <3>9 DEF Blocked
    <3>12. heartbeatThread' \in 0..MaxSessions
      BY <3>1, <3>2, BoundsAssumption
    <3> QED
      BY <1>29, <3>1, <3>5, <3>6, <3>10, <3>11, <3>12 DEF Receive, TypeOK, Counted
  <2> QED
    BY <2>1, <2>2
<1>30. ASSUME NEW t \in CTP \cup Heartbeats, Sent(t) PROVE TypeInv'
  <2>1. PICK l \in {"read", "test"} : Goto(t, l) /\ pc[t] = "sent" /\ (l = "read" => t \in CTP)
                                      /\ (t \in CTP => l = "read")
    BY <1>30 DEF Sent
  <2>2. t \in Threads /\ LabelsType' /\ pc' \in [Threads -> Labels]
    BY <2>1, Kinds, GotoLabels DEF CTPLabels, HeartbeatLabels
  <2>3. NotBegun'
    BY <1>30, <2>1, <2>2, BegunSame DEF Sent
  <2>4. Blocked' /\ at' \in [Threads -> Conns \cup {NULL}]
    BY <1>30, <2>1, <2>2, BlockedSame DEF Sent
  <2> QED
    BY <1>30, <2>2, <2>3, <2>4, States DEF Sent, TypeOK, Counted
<1>31. ASSUME NEW t \in CTP \cup Receivers, Block(t) PROVE TypeInv'
  <2>1. Goto(t, "recv") /\ pc[t] = "read" /\ at' = [at EXCEPT ![t] = ctpSocket]
    BY <1>31 DEF Block
  <2>2. t \in Threads /\ LabelsType' /\ pc' \in [Threads -> Labels]
    BY <2>1, Kinds, GotoLabels DEF CTPLabels, ReceiverLabels
  <2>3. NotBegun'
    BY <1>31, <2>1, <2>2, BegunSame DEF Block
  <2>4. Blocked' /\ at' \in [Threads -> Conns \cup {NULL}]
    BY <2>1, <2>2, Moved DEF Blocked, TypeOK
  <2> QED
    BY <1>31, <2>2, <2>3, <2>4 DEF Block, TypeOK, Counted
<1>32. CASE StartCTP
  <2> DEFINE t == <<"ctp", starts + 1>>
  <2>1. starts + 1 \in 1..MaxStarts /\ starts \in Nat /\ starts' = starts + 1
    BY <1>32, BoundsAssumption DEF StartCTP, TypeOK
  <2>2. t \in CTP /\ pc[t] = "none" /\ Goto(t, "test")
    BY <1>32, <2>1, Kinds DEF StartCTP, NotBegun
  <2> HIDE DEF t
  <2>3. t \in Threads /\ LabelsType' /\ pc' \in [Threads -> Labels]
    BY <2>2, Kinds, GotoLabels DEF CTPLabels
  <2>4. pc'[t] = "test" /\ \A u \in Threads \ {t} : pc'[u] = pc[u]
    BY <2>2, <2>3, Moved
  <2>5. session' = session /\ sessions' = sessions /\ at' = at
    BY <1>32 DEF StartCTP
  <2>6. NotBegun'
    <3>1. \A k \in 1..MaxStarts : k > starts' => pc'[<<"ctp", k>>] = "none"
      BY <2>1, <2>4, Kinds DEF NotBegun, t
    <3>2. \A u \in Receivers \cup Heartbeats : pc'[u] = pc[u]
      BY <2>2, <2>4, Kinds
    <3>3. \A u \in CTP : pc'[u] = "receive" => pc[u] = "receive"
      BY <2>4, Kinds
    <3>4. \A u \in CTP : pc[u] = "receive" => session[u] \in 1..MaxSessions
      <4>1. \A u \in CTP : pc[u] = "receive" => session[u] \in 1..sessions
        BY DEF NotBegun
      <4> QED
        BY <4>1, BoundsAssumption DEF TypeOK
    <3> QED
      BY <2>5, <3>1, <3>2, <3>3, <3>4, Kinds DEF NotBegun
  <2>7. Blocked' /\ at' \in [Threads -> Conns \cup {NULL}]
    BY <2>2, <2>3, <2>5, BlockedSame
  <2>8. starts' \in 0..MaxStarts /\ leaving' \in BOOLEAN
    <3>1. starts' \in 0..MaxStarts
      BY <2>1, BoundsAssumption
    <3>2. leaving' \in BOOLEAN
      BY <1>32 DEF StartCTP
    <3> QED
      BY <3>1, <3>2
  <2> QED
    BY <1>32, <2>3, <2>6, <2>7, <2>8, States DEF StartCTP, TypeOK, Counted
<1>33. ASSUME NEW t \in Threads, UsesDeleted(t) PROVE TypeInv'
  <2>1. Goto(t, pc[t]) /\ pc[t] \in {"auth", "send", "read"} /\ pc \in [Threads -> Labels]
    BY <1>33 DEF UsesDeleted, TypeOK
  <2>2. pc' = pc
    BY <2>1 DEF Goto
  <2> QED
    BY <1>33, <2>2 DEF UsesDeleted, TypeOK, LabelsType, NotBegun, Blocked, Counted
<1>34. CASE UNCHANGED vars
  BY <1>34 DEF vars, TypeOK, LabelsType, NotBegun, Blocked, Counted
<1> QED
  BY <1>1, <1>2, <1>3, <1>4, <1>5, <1>6, <1>7, <1>8, <1>9, <1>10, <1>11, <1>12, <1>13, <1>14,
     <1>15, <1>16, <1>17, <1>18, <1>19, <1>20, <1>21, <1>22, <1>23, <1>24, <1>25, <1>26, <1>27,
     <1>28, <1>29, <1>30, <1>31, <1>32, <1>33, <1>34, Zenon DEF Next, CTPStep, AuthStatus

(* Every variable stays in its type, and every thread does only what its   *)
(* kind of thread does.                                                    *)
THEOREM ThreadsTypeCorrect == Spec => []TypeInv
  BY TypeInit, TypeNext, PTL DEF Spec

-----------------------------------------------------------------------------
(* While no two threads close at once, a socket that was deleted and is    *)
(* still pointed at is one a thread is about to set to NULL, and a thread  *)
(* about to delete one holds one nobody deleted.                           *)
Freed == ctpSocket # NULL /\ ctpSocket \in freed

OneCloses ==
    crashed = "no" /\ ~clash =>
        /\ Freed => \E t \in Threads : pc[t] = "null"
        /\ \A t, u \in Threads : InClose(t) /\ InClose(u) => t = u
        /\ \A t \in Threads : pc[t] = "delete" => held[t] # NULL /\ held[t] \notin freed

(* With one CTP thread, a connection is opened where there is none; and,   *)
(* while no two threads close at once, what is closed is what there is.    *)
NoneOpen ==
    starts <= 1 => \A t \in CTP : pc[t] \in {"state", "reset", "connect"} => ctpSocket = NULL

OneClosed ==
    starts <= 1 /\ crashed = "no" /\ ~clash =>
        /\ \A t \in Threads : pc[t] = "null" => Freed
        /\ \A t \in Threads : pc[t] = "delete" => held[t] = ctpSocket

(* A message noted as sent, or about to be, is not answered, or raced.     *)
Waited ==
    starts <= 1 =>
        /\ ctpState = WAITING_RESPONSE /\ Readable => raced \/ owed[ctpSocket] > 0
        /\ \A t \in Threads : pc[t] = "sent" =>
              raced \/ (Readable /\ owed[ctpSocket] > 0)

SafeInv ==
    OneCloses /\ TwiceForCause /\ NoneOpen /\ OneClosed /\ NothingLeaks /\ Waited

(* What a step leaves alone that neither closes nor opens a connection,    *)
(* and that does not send.                                                 *)
Quiet ==
    /\ crashed = "no" /\ UNCHANGED <<ctpSocket, freed, held, clash, conns>> /\ starts <= starts'
    /\ crashed' # "twice"
    /\ \A t \in Threads : pc'[t] \in {"delete", "null", "state", "reset", "connect"} =>
          pc'[t] = pc[t]
    /\ \A t \in Threads : pc[t] \in {"delete", "null"} => pc'[t] = pc[t]

Calm ==
    /\ UNCHANGED <<owed, raced>>
    /\ ctpState' = ctpState \/ ctpState' # WAITING_RESPONSE
    /\ \A t \in Threads : pc'[t] = "sent" => pc[t] = "sent"

CalmLabels == Labels \ {"delete", "null", "state", "reset", "connect", "sent"}

LEMMA QuietGoto ==
    ASSUME TypeInv, NEW t \in Threads, NEW l, Goto(t, l), pc[t] \notin {"delete", "null"},
           l \notin {"delete", "null", "state", "reset", "connect"},
           UNCHANGED <<ctpSocket, freed, held, clash, conns>>,
           starts' = starts \/ starts' = starts + 1, crashed' # "twice"
    PROVE  /\ Quiet
           /\ l # "sent" => \A u \in Threads : pc'[u] = "sent" => pc[u] = "sent"
<1>1. starts \in Nat
  BY BoundsAssumption DEF TypeInv, TypeOK
<1> QED
  BY <1>1, Moved DEF Quiet

LEMMA CalmStates ==
    /\ DISCONNECTED # WAITING_RESPONSE /\ SLEEPING # WAITING_RESPONSE
    /\ CONNECTING # WAITING_RESPONSE /\ CONNECTED # WAITING_RESPONSE
    /\ AUTHENTICATING # WAITING_RESPONSE /\ READY # WAITING_RESPONSE
    /\ CLOSING # WAITING_RESPONSE
  BY DEF DISCONNECTED, SLEEPING, CONNECTING, CONNECTED, AUTHENTICATING, READY,
     WAITING_RESPONSE, CLOSING

(* Every step is one of these. *)
Steps(t) ==
    \/ Quiet /\ Calm
    \/ TestSocket(t) \/ Delete(t) \/ Nullify(t) \/ Disconnected(t)
    \/ Quiet /\ Writes(t) /\ UNCHANGED raced
       /\ (ctpState' = ctpState \/ ctpState' # WAITING_RESPONSE)
    \/ Quiet /\ Sent(t)
    \/ Quiet /\ Answers(t) /\ ctpState' # WAITING_RESPONSE
       /\ (\A u \in Threads : pc'[u] = "sent" => pc[u] = "sent")
    \/ t \in CTP /\ (Reset(t) \/ Connect(t) \/ ConnectFails(t))

LEMMA NextSteps == TypeInv /\ Next => \E t \in Threads : Steps(t)
<1> SUFFICES ASSUME TypeInv, Next PROVE \E t \in Threads : Steps(t)
  OBVIOUS
<1> USE DEF own, shared, heartbeat, counts, fate, history
<1>1. ASSUME NEW t \in CTP, NextRound(t) PROVE Steps(t)
  <2>1. PICK l \in CalmLabels : Goto(t, l) /\ pc[t] \notin {"delete", "null"}
    BY <1>1 DEF NextRound, CalmLabels, Labels
  <2>2. t \in Threads
    BY Kinds
  <2>3. /\ UNCHANGED <<ctpSocket, freed, held, clash, conns, owed, raced, starts>> /\ crashed' # "twice"
        /\ ctpState' = ctpState \/ ctpState' # WAITING_RESPONSE
    BY <1>1, <2>1, CalmStates DEF NextRound, Goto
  <2> QED
    BY <2>1, <2>2, <2>3, QuietGoto DEF CalmLabels, Calm, Steps
<1>2. ASSUME NEW t \in CTP, Sleep(t) PROVE Steps(t)
  <2>1. PICK l \in CalmLabels : Goto(t, l) /\ pc[t] \notin {"delete", "null"}
    BY <1>2 DEF Sleep, CalmLabels, Labels
  <2>2. t \in Threads
    BY Kinds
  <2>3. /\ UNCHANGED <<ctpSocket, freed, held, clash, conns, owed, raced, starts>> /\ crashed' # "twice"
        /\ ctpState' = ctpState \/ ctpState' # WAITING_RESPONSE
    BY <1>2, <2>1, CalmStates DEF Sleep, Goto
  <2> QED
    BY <2>1, <2>2, <2>3, QuietGoto DEF CalmLabels, Calm, Steps
<1>3. ASSUME NEW t \in CTP, Wake(t) PROVE Steps(t)
  <2>1. PICK l \in CalmLabels : Goto(t, l) /\ pc[t] \notin {"delete", "null"}
    BY <1>3 DEF Wake, CalmLabels, Labels
  <2>2. t \in Threads
    BY Kinds
  <2>3. /\ UNCHANGED <<ctpSocket, freed, held, clash, conns, owed, raced, starts>> /\ crashed' # "twice"
        /\ ctpState' = ctpState \/ ctpState' # WAITING_RESPONSE
    BY <1>3, <2>1, CalmStates DEF Wake, Goto
  <2> QED
    BY <2>1, <2>2, <2>3, QuietGoto DEF CalmLabels, Calm, Steps
<1>4. ASSUME NEW t \in CTP, Open(t) PROVE Steps(t)
  <2>1. PICK l \in CalmLabels : Goto(t, l) /\ pc[t] \notin {"delete", "null"}
    BY <1>4 DEF Open, CalmLabels, Labels
  <2>2. t \in Threads
    BY Kinds
  <2>3. /\ UNCHANGED <<ctpSocket, freed, held, clash, conns, owed, raced, starts>> /\ crashed' # "twice"
        /\ ctpState' = ctpState \/ ctpState' # WAITING_RESPONSE
    BY <1>4, <2>1, CalmStates DEF Open, Goto
  <2> QED
    BY <2>1, <2>2, <2>3, QuietGoto DEF CalmLabels, Calm, Steps
<1>5. ASSUME NEW t \in CTP, SendAuth(t) PROVE Steps(t)
  <2>1. Goto(t, "sent") /\ pc[t] \notin {"delete", "null"} /\ Writes(t)
    BY <1>5 DEF SendAuth, Writes
  <2>2. t \in Threads
    BY Kinds
  <2>3. /\ UNCHANGED <<ctpSocket, freed, held, clash, conns, starts, raced>> /\ crashed' # "twice"
        /\ ctpState' = ctpState \/ ctpState' # WAITING_RESPONSE
    BY <1>5, <2>1, CalmStates DEF SendAuth, Goto
  <2> QED
    BY <2>1, <2>2, <2>3, QuietGoto DEF CalmLabels, Steps
<1>6. ASSUME NEW t \in CTP, SendAuthFails(t) PROVE Steps(t)
  <2>1. PICK l \in CalmLabels : Goto(t, l) /\ pc[t] \notin {"delete", "null"}
    BY <1>6 DEF SendAuthFails, CalmLabels, Labels, Restore
  <2>2. t \in Threads
    BY Kinds
  <2>3. /\ UNCHANGED <<ctpSocket, freed, held, clash, conns, owed, raced, starts>> /\ crashed' # "twice"
        /\ ctpState' = ctpState \/ ctpState' # WAITING_RESPONSE
    BY <1>6, <2>1, CalmStates DEF SendAuthFails, Goto, Restore
  <2> QED
    BY <2>1, <2>2, <2>3, QuietGoto DEF CalmLabels, Calm, Steps
<1>7. ASSUME NEW t \in Heartbeats, HeartbeatTest(t) PROVE Steps(t)
  <2>1. PICK l \in CalmLabels : Goto(t, l) /\ pc[t] \notin {"delete", "null"}
    BY <1>7 DEF HeartbeatTest, CalmLabels, Labels
  <2>2. t \in Threads
    BY Kinds
  <2>3. /\ UNCHANGED <<ctpSocket, freed, held, clash, conns, owed, raced, starts>> /\ crashed' # "twice"
        /\ ctpState' = ctpState \/ ctpState' # WAITING_RESPONSE
    BY <1>7, <2>1, CalmStates DEF HeartbeatTest, Goto
  <2> QED
    BY <2>1, <2>2, <2>3, QuietGoto DEF CalmLabels, Calm, Steps
<1>8. ASSUME NEW t \in Heartbeats, SendReady(t) PROVE Steps(t)
  <2>1. Goto(t, "sent") /\ pc[t] \notin {"delete", "null"} /\ Writes(t)
    BY <1>8 DEF SendReady, Writes
  <2>2. t \in Threads
    BY Kinds
  <2>3. /\ UNCHANGED <<ctpSocket, freed, held, clash, conns, starts, raced>> /\ crashed' # "twice"
        /\ ctpState' = ctpState \/ ctpState' # WAITING_RESPONSE
    BY <1>8, <2>1, CalmStates DEF SendReady, Goto
  <2> QED
    BY <2>1, <2>2, <2>3, QuietGoto DEF CalmLabels, Steps
<1>9. ASSUME NEW t \in Heartbeats, SendReadyFails(t) PROVE Steps(t)
  <2>1. PICK l \in CalmLabels : Goto(t, l) /\ pc[t] \notin {"delete", "null"}
    BY <1>9 DEF SendReadyFails, CalmLabels, Labels
  <2>2. t \in Threads
    BY Kinds
  <2>3. /\ UNCHANGED <<ctpSocket, freed, held, clash, conns, owed, raced, starts>> /\ crashed' # "twice"
        /\ ctpState' = ctpState \/ ctpState' # WAITING_RESPONSE
    BY <1>9, <2>1, CalmStates DEF SendReadyFails, Goto
  <2> QED
    BY <2>1, <2>2, <2>3, QuietGoto DEF CalmLabels, Calm, Steps
<1>10. ASSUME NEW t \in Receivers, ReceiverLeaves(t) PROVE Steps(t)
  <2>1. PICK l \in CalmLabels : Goto(t, l) /\ pc[t] \notin {"delete", "null"}
    BY <1>10 DEF ReceiverLeaves, CalmLabels, Labels
  <2>2. t \in Threads
    BY Kinds
  <2>3. /\ UNCHANGED <<ctpSocket, freed, held, clash, conns, owed, raced, starts>> /\ crashed' # "twice"
        /\ ctpState' = ctpState \/ ctpState' # WAITING_RESPONSE
    BY <1>10, <2>1, CalmStates DEF ReceiverLeaves, Goto
  <2> QED
    BY <2>1, <2>2, <2>3, QuietGoto DEF CalmLabels, Calm, Steps
<1>11. CASE TimeoutExpires
  <2>1. PICK l \in CalmLabels : Goto(Timer, l) /\ pc[Timer] \notin {"delete", "null"}
    BY <1>11 DEF TimeoutExpires, CalmLabels, Labels
  <2>2. Timer \in Threads
    BY Kinds
  <2>3. /\ UNCHANGED <<ctpSocket, freed, held, clash, conns, owed, raced, starts>> /\ crashed' # "twice"
        /\ ctpState' = ctpState \/ ctpState' # WAITING_RESPONSE
    BY <1>11, <2>1, CalmStates DEF TimeoutExpires, Goto
  <2> QED
    BY <2>1, <2>2, <2>3, QuietGoto DEF CalmLabels, Calm, Steps
<1>12. CASE TimeoutStopsHeartbeat
  <2>1. PICK l \in CalmLabels : Goto(Timer, l) /\ pc[Timer] \notin {"delete", "null"}
    BY <1>12 DEF TimeoutStopsHeartbeat, CalmLabels, Labels
  <2>2. Timer \in Threads
    BY Kinds
  <2>3. /\ UNCHANGED <<ctpSocket, freed, held, clash, conns, owed, raced, starts>> /\ crashed' # "twice"
        /\ ctpState' = ctpState \/ ctpState' # WAITING_RESPONSE
    BY <1>12, <2>1, CalmStates DEF TimeoutStopsHeartbeat, Goto
  <2> QED
    BY <2>1, <2>2, <2>3, QuietGoto DEF CalmLabels, Calm, Steps
<1>13. CASE StopCTP
  <2>1. PICK l \in CalmLabels : Goto(App, l) /\ pc[App] \notin {"delete", "null"}
    BY <1>13 DEF StopCTP, CalmLabels, Labels
  <2>2. App \in Threads
    BY Kinds
  <2>3. /\ UNCHANGED <<ctpSocket, freed, held, clash, conns, owed, raced, starts>> /\ crashed' # "twice"
        /\ ctpState' = ctpState \/ ctpState' # WAITING_RESPONSE
    BY <1>13, <2>1, CalmStates DEF StopCTP, Goto
  <2> QED
    BY <2>1, <2>2, <2>3, QuietGoto DEF CalmLabels, Calm, Steps
<1>14. CASE StopThreads
  <2>1. PICK l \in CalmLabels : Goto(App, l) /\ pc[App] \notin {"delete", "null"}
    BY <1>14 DEF StopThreads, CalmLabels, Labels, SocketClosed
  <2>2. App \in Threads
    BY Kinds
  <2>3. /\ UNCHANGED <<ctpSocket, freed, held, clash, conns, owed, raced, starts>> /\ crashed' # "twice"
        /\ ctpState' = ctpState \/ ctpState' # WAITING_RESPONSE
    BY <1>14, <2>1, CalmStates DEF StopThreads, Goto, SocketClosed
  <2> QED
    BY <2>1, <2>2, <2>3, QuietGoto DEF CalmLabels, Calm, Steps
<1>15. ASSUME NEW t \in CTP, NotAuthenticated(t) PROVE Steps(t)
  <2>1. PICK l \in CalmLabels : Goto(t, l) /\ pc[t] \notin {"delete", "null"}
    BY <1>15 DEF NotAuthenticated, CalmLabels, Labels, Receives
  <2>2. t \in Threads
    BY Kinds
  <2>3. /\ UNCHANGED <<ctpSocket, freed, held, clash, conns, starts>> /\ crashed' # "twice"
        /\ Answers(t) /\ ctpState' # WAITING_RESPONSE
    BY <1>15, <2>1, CalmStates DEF NotAuthenticated, Goto, Receives
  <2> QED
    BY <2>1, <2>2, <2>3, QuietGoto DEF CalmLabels, Steps
<1>16. ASSUME NEW t \in CTP, AuthRefused(t) PROVE Steps(t)
  <2>1. PICK l \in CalmLabels : Goto(t, l) /\ pc[t] \notin {"delete", "null"}
    BY <1>16 DEF AuthRefused, CalmLabels, Labels, Receives
  <2>2. t \in Threads
    BY Kinds
  <2>3. /\ UNCHANGED <<ctpSocket, freed, held, clash, conns, starts>> /\ crashed' # "twice"
        /\ Answers(t) /\ ctpState' # WAITING_RESPONSE
    BY <1>16, <2>1, CalmStates DEF AuthRefused, Goto, Receives
  <2> QED
    BY <2>1, <2>2, <2>3, QuietGoto DEF CalmLabels, Steps
<1>17. ASSUME NEW t \in CTP, AuthRestores(t) PROVE Steps(t)
  <2>1. PICK l \in CalmLabels : Goto(t, l) /\ pc[t] \notin {"delete", "null"}
    BY <1>17 DEF AuthRestores, CalmLabels, Labels, Receives
  <2>2. t \in Threads
    BY Kinds
  <2>3. /\ UNCHANGED <<ctpSocket, freed, held, clash, conns, starts>> /\ crashed' # "twice"
        /\ Answers(t) /\ ctpState' # WAITING_RESPONSE
    BY <1>17, <2>1, CalmStates DEF AuthRestores, Goto, Receives
  <2> QED
    BY <2>1, <2>2, <2>3, QuietGoto DEF CalmLabels, Steps
<1>18. ASSUME NEW t \in CTP, AuthOK(t) PROVE Steps(t)
  <2>1. PICK l \in CalmLabels : Goto(t, l) /\ pc[t] \notin {"delete", "null"}
    BY <1>18 DEF AuthOK, CalmLabels, Labels, Receives
  <2>2. t \in Threads
    BY Kinds
  <2>3. /\ UNCHANGED <<ctpSocket, freed, held, clash, conns, starts>> /\ crashed' # "twice"
        /\ Answers(t) /\ ctpState' # WAITING_RESPONSE
    BY <1>18, <2>1, CalmStates DEF AuthOK, Goto, Receives
  <2> QED
    BY <2>1, <2>2, <2>3, QuietGoto DEF CalmLabels, Steps
<1>19. ASSUME NEW t \in CTP, NoAuthStatus(t) PROVE Steps(t)
  <2>1. PICK l \in CalmLabels : Goto(t, l) /\ pc[t] \notin {"delete", "null"}
    BY <1>19 DEF NoAuthStatus, CalmLabels, Labels, Restore, Fails
  <2>2. t \in Threads
    BY Kinds
  <2>3. /\ UNCHANGED <<ctpSocket, freed, held, clash, conns, owed, raced, starts>> /\ crashed' # "twice"
        /\ ctpState' = ctpState \/ ctpState' # WAITING_RESPONSE
    BY <1>19, <2>1, CalmStates DEF NoAuthStatus, Goto, Restore, Fails
  <2> QED
    BY <2>1, <2>2, <2>3, QuietGoto DEF CalmLabels, Calm, Steps
<1>20. ASSUME NEW t \in Receivers, GetOK(t) PROVE Steps(t)
  <2>1. PICK l \in CalmLabels : Goto(t, l) /\ pc[t] \notin {"delete", "null"}
    BY <1>20 DEF GetOK, CalmLabels, Labels, Receives
  <2>2. t \in Threads
    BY Kinds
  <2>3. /\ UNCHANGED <<ctpSocket, freed, held, clash, conns, starts>> /\ crashed' # "twice"
        /\ Answers(t) /\ ctpState' # WAITING_RESPONSE
    BY <1>20, <2>1, CalmStates DEF GetOK, Goto, Receives
  <2> QED
    BY <2>1, <2>2, <2>3, QuietGoto DEF CalmLabels, Steps
<1>21. ASSUME NEW t \in Receivers, GetSync(t) PROVE Steps(t)
  <2>1. PICK l \in CalmLabels : Goto(t, l) /\ pc[t] \notin {"delete", "null"}
    BY <1>21 DEF GetSync, CalmLabels, Labels, Receives
  <2>2. t \in Threads
    BY Kinds
  <2>3. /\ UNCHANGED <<ctpSocket, freed, held, clash, conns, owed, raced, starts>> /\ crashed' # "twice"
        /\ ctpState' = ctpState \/ ctpState' # WAITING_RESPONSE
    BY <1>21, <2>1, CalmStates DEF GetSync, Goto, Receives
  <2> QED
    BY <2>1, <2>2, <2>3, QuietGoto DEF CalmLabels, Calm, Steps
<1>22. ASSUME NEW t \in Receivers, GetBadStatus(t) PROVE Steps(t)
  <2>1. PICK l \in CalmLabels : Goto(t, l) /\ pc[t] \notin {"delete", "null"}
    BY <1>22 DEF GetBadStatus, CalmLabels, Labels, Receives
  <2>2. t \in Threads
    BY Kinds
  <2>3. /\ UNCHANGED <<ctpSocket, freed, held, clash, conns, owed, raced, starts>> /\ crashed' # "twice"
        /\ ctpState' = ctpState \/ ctpState' # WAITING_RESPONSE
    BY <1>22, <2>1, CalmStates DEF GetBadStatus, Goto, Receives
  <2> QED
    BY <2>1, <2>2, <2>3, QuietGoto DEF CalmLabels, Calm, Steps
<1>23. ASSUME NEW t \in Receivers, GetNothing(t) PROVE Steps(t)
  <2>1. PICK l \in CalmLabels : Goto(t, l) /\ pc[t] \notin {"delete", "null"}
    BY <1>23 DEF GetNothing, CalmLabels, Labels, Fails, AfterFailure
  <2>2. t \in Threads
    BY Kinds
  <2>3. /\ UNCHANGED <<ctpSocket, freed, held, clash, conns, owed, raced, starts>> /\ crashed' # "twice"
        /\ ctpState' = ctpState \/ ctpState' # WAITING_RESPONSE
    BY <1>23, <2>1, CalmStates DEF GetNothing, Goto, Fails, AfterFailure
  <2> QED
    BY <2>1, <2>2, <2>3, QuietGoto DEF CalmLabels, Calm, Steps
<1>24. ASSUME NEW t \in CTP, Join(t) PROVE Steps(t)
  <2>1. PICK l \in CalmLabels : Goto(t, l) /\ pc[t] \notin {"delete", "null"}
    BY <1>24 DEF Join, CalmLabels, Labels, Restore
  <2>2. t \in Threads
    BY Kinds
  <2>3. /\ UNCHANGED <<ctpSocket, freed, held, clash, conns, owed, raced, starts>> /\ crashed' # "twice"
        /\ ctpState' = ctpState \/ ctpState' # WAITING_RESPONSE
    BY <1>24, <2>1, CalmStates DEF Join, Goto, Restore
  <2> QED
    BY <2>1, <2>2, <2>3, QuietGoto DEF CalmLabels, Calm, Steps
<1>25. ASSUME NEW t \in CTP, Receive(t) PROVE Steps(t)
  <2>1. CASE ctpSocket = NULL
    <3>1. Goto(t, "test") /\ pc[t] \notin {"delete", "null"} /\ t \in Threads
      BY <1>25, <2>1, Kinds DEF Receive, Restore
    <3>2. /\ UNCHANGED <<ctpSocket, freed, held, clash, conns, owed, raced, starts, ctpState>>
          /\ crashed' # "twice"
      BY <1>25, <3>1 DEF Receive, Goto
    <3> QED
      BY <3>1, <3>2, QuietGoto DEF CalmLabels, Calm, Steps
  <2>2. CASE ctpSocket # NULL
    <3>1. \A u \in Threads : pc'[u] = pc[u] \/ pc'[u] \in {"test", "read", "join"}
      BY <1>25, <2>2 DEF Receive, TypeInv, TypeOK
    <3>2. session[t] \in 1..MaxSessions /\ starts \in Nat
      <4>1. session[t] \in 1..sessions /\ sessions \in 0..MaxSessions
        BY <1>25 DEF Receive, TypeInv, NotBegun, TypeOK
      <4> QED
        BY <4>1, BoundsAssumption DEF TypeInv, TypeOK
    <3>3. /\ pc[t] = "receive" /\ pc[<<"heartbeat", session[t]>>] = "none"
          /\ pc[<<"receiver", session[t]>>] = "none"
      BY <1>25 DEF Receive, TypeInv, NotBegun
    <3>4. \A u \in Threads : pc[u] \in {"delete", "null"} => pc'[u] = pc[u]
      BY <1>25, <2>2, <3>3 DEF Receive, TypeInv, TypeOK
    <3>5. /\ UNCHANGED <<ctpSocket, freed, held, clash, conns, owed, raced, starts, ctpState, crashed>>
          /\ crashed = "no"
      BY <1>25, <2>2 DEF Receive
    <3> QED
      BY <3>1, <3>2, <3>4, <3>5, Kinds DEF Quiet, Calm, Steps
  <2> QED
    BY <2>1, <2>2
<1>26. ASSUME NEW t \in CTP \cup Heartbeats, Sent(t) PROVE Steps(t)
  <2>1. PICK l \in {"read", "test"} : Goto(t, l) /\ pc[t] \notin {"delete", "null"}
    BY <1>26 DEF Sent
  <2>2. t \in Threads /\ UNCHANGED <<ctpSocket, freed, held, clash, conns, starts>> /\ crashed' # "twice"
    BY <1>26, Kinds DEF Sent, Goto
  <2> QED
    BY <1>26, <2>1, <2>2, QuietGoto DEF CalmLabels, Steps
<1>27. ASSUME NEW t \in CTP \cup Receivers, Block(t) PROVE Steps(t)
  <2>1. Goto(t, "recv") /\ pc[t] \notin {"delete", "null"} /\ t \in Threads
    BY <1>27, Kinds DEF Block
  <2>2. /\ UNCHANGED <<ctpSocket, freed, held, clash, conns, owed, raced, starts, ctpState>>
        /\ crashed' # "twice"
    BY <1>27 DEF Block, Goto
  <2> QED
    BY <2>1, <2>2, QuietGoto DEF CalmLabels, Calm, Steps
<1>28. CASE StartCTP
  <2> DEFINE t == <<"ctp", starts + 1>>
  <2>1. t \in CTP /\ pc[t] = "none" /\ Goto(t, "test")
    <3>1. starts + 1 \in 1..MaxStarts /\ starts + 1 > starts
      BY <1>28, BoundsAssumption DEF StartCTP, TypeInv, TypeOK
    <3> QED
      BY <1>28, <3>1, Kinds DEF StartCTP, TypeInv, NotBegun
  <2> HIDE DEF t
  <2>2. /\ UNCHANGED <<ctpSocket, freed, held, clash, conns, owed, raced>> /\ starts' = starts + 1
        /\ crashed' # "twice" /\ ctpState' # WAITING_RESPONSE
    BY <1>28, CalmStates DEF StartCTP, Goto
  <2>3. t \in Threads
    BY <2>1, Kinds
  <2>4. Steps(t)
    BY <2>1, <2>2, <2>3, QuietGoto DEF CalmLabels, Calm, Steps
  <2> QED
    BY <2>3, <2>4
<1>29. ASSUME NEW t \in CTP, Reset(t) \/ Connect(t) \/ ConnectFails(t) PROVE Steps(t)
  BY <1>29 DEF Steps
<1>30. ASSUME NEW t \in Threads, Closing(t) PROVE Steps(t)
  BY <1>30 DEF Closing, Steps
<1>31. ASSUME NEW t \in Threads, UsesDeleted(t) PROVE Steps(t)
  <2>1. Goto(t, pc[t]) /\ pc[t] \in {"auth", "send", "read"}
    BY <1>31 DEF UsesDeleted
  <2>2. /\ UNCHANGED <<ctpSocket, freed, held, clash, conns, owed, raced, starts, ctpState>>
        /\ crashed' # "twice"
    BY <1>31 DEF UsesDeleted
  <2> QED
    BY <2>1, <2>2, QuietGoto DEF CalmLabels, Calm, Steps
<1> QED
  BY Kinds, <1>1, <1>2, <1>3, <1>4, <1>5, <1>6, <1>7, <1>8, <1>9, <1>10, <1>11, <1>12, <1>13,
     <1>14, <1>15, <1>16, <1>17, <1>18, <1>19, <1>20, <1>21, <1>22, <1>23, <1>24, <1>25, <1>26,
     <1>27, <1>28, <1>29, <1>30, <1>31, ZenonT(60) DEF Next, CTPStep, AuthStatus

LEMMA OneThread ==
    TypeInv /\ starts <= 1 =>
        \A t, u \in CTP : pc[t] # "none" /\ pc[u] # "none" => t = u
<1> SUFFICES ASSUME TypeInv, starts <= 1, NEW t \in CTP, NEW u \in CTP,
                    pc[t] # "none", pc[u] # "none"
             PROVE  t = u
  OBVIOUS
<1>1. \A w \in CTP : pc[w] # "none" => w[2] = 1
  <2> TAKE w \in CTP
  <2> HAVE pc[w] # "none"
  <2>1. w[2] \in 1..MaxStarts /\ w = <<"ctp", w[2]>>
    BY Kinds
  <2>2. ~(w[2] > starts)
    BY <2>1 DEF TypeInv, NotBegun
  <2> QED
    BY <2>1, <2>2, BoundsAssumption DEF TypeInv, TypeOK
<1> QED
  BY <1>1, Kinds

LEMMA SafeInit == Init => SafeInv
<1> SUFFICES ASSUME Init PROVE SafeInv
  OBVIOUS
<1>1. \A t \in Threads : pc[t] \in {"idle", "none"}
  BY DEF Init
<1>2. /\ freed = {} /\ crashed = "no" /\ ctpState # WAITING_RESPONSE
      /\ ctpSocket \in {0, 1} /\ conns = ctpSocket
  BY DEF Init, NULL, DISCONNECTED, READY, WAITING_RESPONSE
<1> QED
  BY <1>1, <1>2, Kinds DEF SafeInv, OneCloses, TwiceForCause, NoneOpen, OneClosed, NothingLeaks,
     Waited, Freed, InClose

LEMMA SafeNext == TypeInv /\ TypeInv' /\ SafeInv /\ [Next]_vars => SafeInv'
<1> SUFFICES ASSUME TypeInv, TypeInv', SafeInv, [Next]_vars PROVE SafeInv'
  OBVIOUS
<1> USE DEF own, shared, heartbeat, counts, fate, history
<1>1. CASE UNCHANGED vars
  BY <1>1 DEF vars, SafeInv, OneCloses, TwiceForCause, NoneOpen, OneClosed, NothingLeaks, Waited,
     Freed, InClose, Readable
<1>2. CASE Next
  <2> PICK t \in Threads : Steps(t)
    BY <1>2, NextSteps
  <2>0. /\ starts \in Nat /\ starts' \in Nat /\ conns \in Nat /\ conns' \in Nat
        /\ freed \subseteq 1..conns
    BY BoundsAssumption DEF TypeInv, TypeOK, Counted
  <2>1. ASSUME Quiet
        PROVE  OneCloses' /\ TwiceForCause' /\ NoneOpen' /\ OneClosed' /\ NothingLeaks'
    <3>1. OneCloses'
      BY <2>1 DEF Quiet, SafeInv, OneCloses, Freed, InClose
    <3>2. TwiceForCause'
      BY <2>1 DEF Quiet, TwiceForCause
    <3>3. starts' <= 1 => starts <= 1
      BY <2>0, <2>1 DEF Quiet
    <3>4. NoneOpen' /\ OneClosed'
      BY <2>1, <3>3, Kinds DEF Quiet, SafeInv, NoneOpen, OneClosed, Freed
    <3>5. NothingLeaks'
      BY <2>1, <3>3 DEF Quiet, SafeInv, NothingLeaks
    <3> QED
      BY <3>1, <3>2, <3>4, <3>5
  <2>2. CASE Quiet /\ Calm
    <3>1. Waited'
      <4>1. starts' <= 1 => starts <= 1
        BY <2>0, <2>2 DEF Quiet
      <4> QED
        BY <2>2, <4>1 DEF Quiet, Calm, SafeInv, Waited, Readable
    <3> QED
      BY <2>1, <2>2, <3>1 DEF SafeInv
  <2>3. CASE Quiet /\ Writes(t) /\ UNCHANGED raced
             /\ (ctpState' = ctpState \/ ctpState' # WAITING_RESPONSE)
    <3>1. Readable' /\ owed'[ctpSocket'] > 0
      BY <2>3, Written DEF Quiet, Writes, Readable
    <3> QED
      BY <2>1, <2>3, <3>1 DEF SafeInv, Waited
  <2>4. CASE Quiet /\ Sent(t)
    <3>1. starts' <= 1 => starts <= 1
      BY <2>0, <2>4 DEF Quiet
    <3>2. pc[t] = "sent" /\ owed' = owed /\ raced' = raced /\ freed' = freed /\ ctpSocket' = ctpSocket
      BY <2>4 DEF Sent
    <3>3. \A u \in Threads : pc'[u] = "sent" => pc[u] = "sent"
      BY <2>4, Moved DEF Sent
    <3>4. Waited'
      BY <3>1, <3>2, <3>3 DEF SafeInv, Waited, Readable
    <3> QED
      BY <2>1, <2>4, <3>4 DEF SafeInv
  <2>5. CASE Quiet /\ Answers(t) /\ ctpState' # WAITING_RESPONSE
             /\ (\A u \in Threads : pc'[u] = "sent" => pc[u] = "sent")
    <3>1. raced' \/ ~Sending
      <4>1. raced' = (raced \/ Sending)
        BY <2>5 DEF Answers
      <4> QED
        BY <4>1
    <3>2. Waited'
      BY <2>5, <3>1 DEF Waited, Sending
    <3> QED
      BY <2>1, <2>5, <3>2 DEF SafeInv
  <2>6. CASE TestSocket(t)
    <3>1. /\ pc[t] = "close" /\ held' = [held EXCEPT ![t] = ctpSocket]
          /\ clash' = (clash \/ (ctpSocket # NULL /\ \E u \in Threads : InClose(u)))
          /\ UNCHANGED <<ctpSocket, ctpState, freed, conns, crashed, starts, owed, raced>>
          /\ crashed = "no" /\ held'[t] = ctpSocket
          /\ \A u \in Threads \ {t} : held'[u] = held[u]
      BY <2>6 DEF TestSocket, Goto, TypeInv, TypeOK
    <3>2. /\ pc'[t] = IF ctpSocket = NULL THEN "state" ELSE "delete"
          /\ \A u \in Threads \ {t} : pc'[u] = pc[u]
      BY <2>6, Moved DEF TestSocket
    <3>3. TwiceForCause' /\ NoneOpen' /\ NothingLeaks' /\ Waited'
      BY <3>1, <3>2, Kinds DEF SafeInv, TwiceForCause, NoneOpen, NothingLeaks, Waited, Readable
    <3>4. ASSUME ~clash' PROVE ~clash /\ (ctpSocket # NULL => \A u \in Threads : ~InClose(u))
      BY <3>1, <3>4
    <3>5. OneCloses'
      <4>1. CASE ctpSocket = NULL
        BY <3>1, <3>2, <3>4, <4>1 DEF SafeInv, OneCloses, Freed, InClose
      <4>2. CASE ctpSocket # NULL
        <5> SUFFICES ASSUME ~clash' PROVE OneCloses'
          BY DEF OneCloses
        <5>1. \A u \in Threads \ {t} : pc'[u] \notin {"delete", "null"}
          BY <3>2, <3>4, <4>2 DEF InClose
        <5>2. ~Freed
          BY <3>1, <3>4, <4>2 DEF SafeInv, OneCloses, InClose
        <5> QED
          BY <3>1, <3>2, <4>2, <5>1, <5>2 DEF OneCloses, Freed, InClose
      <4> QED
        BY <4>1, <4>2
    <3>6. OneClosed'
      BY <3>1, <3>2, <3>4 DEF SafeInv, OneClosed, Freed
    <3> QED
      BY <3>3, <3>5, <3>6 DEF SafeInv
  <2>7. CASE Delete(t)
    <3>1. PICK c \in {held[t], ctpSocket} :
             freed' = Deleted(c) /\ crashed' = IF c \in freed THEN "twice" ELSE crashed
      BY <2>7 DEF Delete
    <3>2. /\ pc[t] = "delete" /\ crashed = "no" /\ held' = [held EXCEPT ![t] = NULL]
          /\ UNCHANGED <<ctpSocket, ctpState, conns, starts, clash>>
          /\ owed' = Unanswered /\ raced' = (raced \/ Sending)
      BY <2>7 DEF Delete, Goto
    <3>3. pc'[t] = "null" /\ \A u \in Threads \ {t} : pc'[u] = pc[u]
      BY <2>7, Moved DEF Delete
    <3>4. /\ \A u \in Threads : InClose(u)' <=> InClose(u)
          /\ \A u \in Threads : pc'[u] = "delete" => pc[u] = "delete" /\ u # t
      BY <3>2, <3>3 DEF InClose
    <3>5. ~clash => c \notin freed
      <4>1. ~clash => held[t] \notin freed
        BY <3>2 DEF SafeInv, OneCloses
      <4>2. ~clash => ~Freed
        BY <3>2 DEF SafeInv, OneCloses, InClose
      <4>3. NULL \notin freed
        BY <2>0 DEF NULL
      <4> QED
        BY <3>1, <4>1, <4>2, <4>3 DEF Freed
    <3>6. TwiceForCause'
      BY <3>1, <3>2, <3>5 DEF TwiceForCause
    <3>7. OneCloses'
      <4> SUFFICES ASSUME ~clash PROVE OneCloses'
        BY <3>2 DEF OneCloses
      <4>1. \A u \in Threads : pc'[u] # "delete"
        BY <3>2, <3>4 DEF SafeInv, OneCloses, InClose
      <4> QED
        BY <3>2, <3>3, <3>4, <4>1 DEF SafeInv, OneCloses
    <3>8. NoneOpen' /\ NothingLeaks'
      <4>1. NoneOpen'
        BY <3>2, <3>3, Kinds DEF SafeInv, NoneOpen
      <4>2. NothingLeaks'
        BY <3>1, <3>2 DEF SafeInv, NothingLeaks, Deleted
      <4> QED
        BY <4>1, <4>2
    <3>9. OneClosed'
      <4> SUFFICES ASSUME starts <= 1, ~clash PROVE OneClosed'
        BY <3>2 DEF OneClosed
      <4>1. \A u \in Threads : pc'[u] \in {"delete", "null"} => u = t
        BY <3>2, <3>4 DEF SafeInv, OneCloses, InClose
      <4>2. c = ctpSocket /\ ctpSocket # NULL
        BY <3>1, <3>2 DEF SafeInv, OneCloses, OneClosed
      <4> QED
        BY <3>1, <3>2, <3>3, <4>1, <4>2 DEF OneClosed, Freed, Deleted
    <3>10. Waited'
      <4>1. raced' \/ (~raced /\ ~Sending)
        BY <3>2
      <4>2. \A u \in Threads : pc'[u] = "sent" => pc[u] = "sent"
        BY <3>3
      <4>3. Readable' => Readable /\ owed'[ctpSocket] = owed[ctpSocket]
        BY <3>1, <3>2 DEF Readable, Deleted, Unanswered, TypeInv, TypeOK
      <4> QED
        BY <3>2, <4>1, <4>2, <4>3 DEF SafeInv, Waited, Sending
    <3> QED
      BY <3>6, <3>7, <3>8, <3>9, <3>10 DEF SafeInv
  <2>8. CASE Nullify(t)
    <3>1. /\ pc[t] = "null" /\ ctpSocket' = NULL /\ crashed = "no" /\ raced' = Sending
          /\ UNCHANGED <<freed, held, clash, conns, starts, crashed>>
      BY <2>8 DEF Nullify, PointerAfter, Goto
    <3>2. pc'[t] = "state" /\ \A u \in Threads \ {t} : pc'[u] = pc[u]
      BY <2>8, Moved DEF Nullify
    <3>3. ~clash => \A u \in Threads : pc'[u] \notin {"delete", "null"}
      BY <3>1, <3>2 DEF SafeInv, OneCloses, InClose
    <3>4. OneCloses' /\ TwiceForCause' /\ NoneOpen' /\ OneClosed'
      BY <3>1, <3>3 DEF OneCloses, TwiceForCause, NoneOpen, OneClosed, Freed, InClose
    <3>5. starts <= 1 /\ ~clash => ctpSocket \in freed
      BY <3>1 DEF SafeInv, OneClosed, Freed
    <3>6. NothingLeaks'
      BY <3>1, <3>5 DEF SafeInv, NothingLeaks
    <3>7. Waited'
      <4>1. \A u \in Threads : pc'[u] = "sent" => raced'
        BY <3>1, <3>2 DEF Sending
      <4> QED
        BY <3>1, <4>1 DEF Waited, Readable
    <3> QED
      BY <3>4, <3>6, <3>7 DEF SafeInv
  <2>9. CASE Disconnected(t)
    <3>1. /\ pc[t] = "state" /\ Goto(t, AfterClose(t)) /\ crashed = "no"
          /\ UNCHANGED <<ctpSocket, freed, held, clash, conns, crashed, starts, owed, raced>>
          /\ ctpState' # WAITING_RESPONSE
      BY <2>9, CalmStates DEF Disconnected, Goto
    <3>2. pc'[t] \notin {"delete", "null", "sent"} /\ \A u \in Threads \ {t} : pc'[u] = pc[u]
      BY <3>1, ClosingKinds, Moved
    <3>3. OneCloses' /\ TwiceForCause' /\ OneClosed'
      BY <3>1, <3>2 DEF SafeInv, OneCloses, TwiceForCause, OneClosed, Freed, InClose
    <3>4. NoneOpen'
      BY <3>1, <3>2, Kinds DEF SafeInv, NoneOpen
    <3>5. NothingLeaks' /\ Waited'
      BY <3>1, <3>2 DEF SafeInv, NothingLeaks, Waited, Readable
    <3> QED
      BY <3>3, <3>4, <3>5 DEF SafeInv
  <2>10. ASSUME t \in CTP, Reset(t) PROVE SafeInv'
    <3>1. /\ pc[t] = "reset" \/ (pc[t] = "open" /\ ctpSocket = NULL)
          /\ crashed = "no"
          /\ UNCHANGED <<ctpSocket, freed, held, clash, conns, starts, owed, raced, crashed>>
          /\ ctpState' # WAITING_RESPONSE
      BY <2>10, CalmStates DEF Reset, Goto
    <3>2. pc'[t] = "connect" /\ \A u \in Threads \ {t} : pc'[u] = pc[u]
      BY <2>10, Moved DEF Reset
    <3>3. OneCloses' /\ TwiceForCause' /\ OneClosed'
      BY <3>1, <3>2 DEF SafeInv, OneCloses, TwiceForCause, OneClosed, Freed, InClose
    <3>4. NoneOpen'
      BY <2>10, <3>1, <3>2 DEF SafeInv, NoneOpen
    <3>5. NothingLeaks' /\ Waited'
      BY <3>1, <3>2 DEF SafeInv, NothingLeaks, Waited, Readable
    <3> QED
      BY <3>3, <3>4, <3>5 DEF SafeInv
  <2>11. ASSUME t \in CTP, Connect(t) PROVE SafeInv'
    <3>1. /\ pc[t] = "connect" /\ conns' = conns + 1 /\ ctpSocket' = conns + 1
          /\ crashed = "no" /\ raced' = Sending
          /\ UNCHANGED <<freed, held, clash, starts, owed, crashed>>
          /\ ctpState' # WAITING_RESPONSE
      BY <2>11, CalmStates DEF Connect, Goto
    <3>2. pc'[t] = "auth" /\ \A u \in Threads \ {t} : pc'[u] = pc[u]
      BY <2>11, Moved DEF Connect
    <3>3. ctpSocket' \notin freed' /\ ctpSocket' # NULL
      BY <3>1, <2>0 DEF NULL
    <3>4. OneCloses' /\ TwiceForCause'
      BY <3>1, <3>2, <3>3 DEF SafeInv, OneCloses, TwiceForCause, Freed, InClose
    <3>5. starts <= 1 => ctpSocket = NULL
      BY <2>11, <3>1 DEF SafeInv, NoneOpen
    <3>6. starts <= 1 => \A u \in CTP \ {t} : pc[u] = "none"
      BY <2>11, <3>1, OneThread
    <3>7. NoneOpen'
      BY <3>1, <3>2, <3>6, Kinds DEF NoneOpen
    <3>8. OneClosed'
      <4>1. starts <= 1 /\ ~clash => \A u \in Threads : ~InClose(u)
        BY <3>1, <3>5 DEF SafeInv, OneCloses, OneClosed, Freed, InClose
      <4> QED
        BY <3>1, <3>2, <4>1 DEF OneClosed, InClose
    <3>9. NothingLeaks'
      <4> SUFFICES ASSUME starts <= 1, ~clash, NEW c \in 1..(conns + 1)
                   PROVE  c \in freed \/ c = conns + 1
        BY <3>1 DEF NothingLeaks
      <4>1. CASE c \in 1..conns
        <5>1. c # ctpSocket
          BY <3>5, <4>1, <2>0 DEF NULL
        <5> QED
          BY <4>1, <5>1 DEF SafeInv, NothingLeaks
      <4>2. CASE c = conns + 1
        BY <4>2
      <4> QED
        BY <4>1, <4>2, <2>0
    <3>10. Waited'
      <4>1. \A u \in Threads : pc'[u] = "sent" => raced'
        BY <3>1, <3>2 DEF Sending
      <4> QED
        BY <3>1, <4>1 DEF Waited
    <3> QED
      BY <3>4, <3>7, <3>8, <3>9, <3>10 DEF SafeInv
  <2>12. ASSUME t \in CTP, ConnectFails(t) PROVE SafeInv'
    <3>1. /\ pc[t] = "connect" /\ ctpSocket' = NULL /\ crashed = "no"
          /\ UNCHANGED <<freed, held, clash, conns, starts, owed, raced, crashed>>
          /\ ctpState' # WAITING_RESPONSE
      BY <2>12, CalmStates DEF ConnectFails, Restore, Goto
    <3>2. pc'[t] = "test" /\ \A u \in Threads \ {t} : pc'[u] = pc[u]
      BY <2>12, Moved DEF ConnectFails, Restore
    <3>3. starts <= 1 => ctpSocket = NULL
      BY <2>12, <3>1 DEF SafeInv, NoneOpen
    <3>4. OneCloses' /\ TwiceForCause' /\ NoneOpen'
      BY <3>1, <3>2 DEF SafeInv, OneCloses, TwiceForCause, NoneOpen, Freed, InClose
    <3>5. OneClosed' /\ NothingLeaks'
      BY <3>1, <3>2, <3>3 DEF SafeInv, OneClosed, NothingLeaks, Freed
    <3>6. Waited'
      BY <3>1, <3>2, <3>3 DEF SafeInv, Waited, Readable
    <3> QED
      BY <3>4, <3>5, <3>6 DEF SafeInv
  <2> QED
    BY <2>2, <2>3, <2>4, <2>5, <2>6, <2>7, <2>8, <2>9, <2>10, <2>11, <2>12 DEF Steps
<1> QED
  BY <1>1, <1>2

(* What closeConnection(), openConnection(), sendMsg() and                 *)
(* receiveStatusMsg() keep between them.                                   *)
THEOREM SafeHolds == Spec => [](TypeInv /\ SafeInv)
<1>1. Init => TypeInv /\ SafeInv
  BY TypeInit, SafeInit
<1>2. TypeInv /\ SafeInv /\ [Next]_vars => (TypeInv /\ SafeInv)'
  BY TypeNext, SafeNext
<1> QED
  BY <1>1, <1>2, PTL DEF Spec

(* CTPService::closeConnection(), for any number of threads: a socket is   *)
(* deleted twice only by two that close at once.                           *)
THEOREM DeletedTwiceForCause == Spec => []TwiceForCause
<1>1. TypeInv /\ SafeInv => TwiceForCause
  BY DEF SafeInv
<1> QED
  BY <1>1, SafeHolds, PTL

(* No connection is forgotten while it is open: with one CTP thread, and   *)
(* as long as no two threads were in closeConnection() over one at once.   *)
THEOREM NoConnectionLeaks == Spec => []NothingLeaks
<1>1. TypeInv /\ SafeInv => NothingLeaks
  BY DEF SafeInv
<1> QED
  BY <1>1, SafeHolds, PTL

(* Whose step it is: a CTP thread that does not wait for its receiver, one *)
(* that begins to or stops waiting, or another thread.                     *)
Reading == {"read", "recv"}

ByCTP(t) ==
    /\ pc[t] \notin {"none", "join"}
    /\ \A u \in Threads \ {t} : pc'[u] = pc[u]
    /\ starts' = starts

ByOther(t) ==
    /\ pc'[t] \in Reading => pc[t] \in Reading
    /\ t = Timer /\ pc'[t] = "close" => TimeoutExpires \/ pc[t] # "idle"
    /\ \A u \in Threads \ {t} : pc'[u] = pc[u]
    /\ UNCHANGED <<session, starts>>

Begins(t) == Receive(t) /\ ctpSocket # NULL

Movers ==
    \/ \E t \in CTP : ByCTP(t) \/ Begins(t) \/ Join(t)
    \/ \E t \in Threads \ CTP : ByOther(t)
    \/ StartCTP

LEMMA NextMovers == TypeInv /\ Next => Movers
<1> SUFFICES ASSUME TypeInv, Next PROVE Movers
  OBVIOUS
<1> USE DEF own, shared, heartbeat, counts, fate, history
<1>1. ASSUME NEW t \in CTP, NextRound(t) PROVE ByCTP(t)
  <2>1. PICK l \in Labels : Goto(t, l) /\ pc[t] \notin {"none", "join"}
    BY <1>1 DEF NextRound, Labels
  <2> QED
    BY <1>1, <2>1, Kinds, Moved DEF NextRound, ByCTP
<1>2. ASSUME NEW t \in CTP, Sleep(t) PROVE ByCTP(t)
  <2>1. PICK l \in Labels : Goto(t, l) /\ pc[t] \notin {"none", "join"}
    BY <1>2 DEF Sleep, Labels
  <2> QED
    BY <1>2, <2>1, Kinds, Moved DEF Sleep, ByCTP
<1>3. ASSUME NEW t \in CTP, Wake(t) PROVE ByCTP(t)
  <2>1. PICK l \in Labels : Goto(t, l) /\ pc[t] \notin {"none", "join"}
    BY <1>3 DEF Wake, Labels
  <2> QED
    BY <1>3, <2>1, Kinds, Moved DEF Wake, ByCTP
<1>4. ASSUME NEW t \in CTP, Open(t) PROVE ByCTP(t)
  <2>1. PICK l \in Labels : Goto(t, l) /\ pc[t] \notin {"none", "join"}
    BY <1>4 DEF Open, Labels
  <2> QED
    BY <1>4, <2>1, Kinds, Moved DEF Open, ByCTP
<1>5. ASSUME NEW t \in CTP, Reset(t) PROVE ByCTP(t)
  <2>1. PICK l \in Labels : Goto(t, l) /\ pc[t] \notin {"none", "join"}
    BY <1>5 DEF Reset, Labels
  <2> QED
    BY <1>5, <2>1, Kinds, Moved DEF Reset, ByCTP
<1>6. ASSUME NEW t \in CTP, Connect(t) PROVE ByCTP(t)
  <2>1. PICK l \in Labels : Goto(t, l) /\ pc[t] \notin {"none", "join"}
    BY <1>6 DEF Connect, Labels
  <2> QED
    BY <1>6, <2>1, Kinds, Moved DEF Connect, ByCTP
<1>7. ASSUME NEW t \in CTP, ConnectFails(t) PROVE ByCTP(t)
  <2>1. PICK l \in Labels : Goto(t, l) /\ pc[t] \notin {"none", "join"}
    BY <1>7 DEF ConnectFails, Labels, Restore
  <2> QED
    BY <1>7, <2>1, Kinds, Moved DEF ConnectFails, ByCTP
<1>8. ASSUME NEW t \in CTP, SendAuth(t) PROVE ByCTP(t)
  <2>1. PICK l \in Labels : Goto(t, l) /\ pc[t] \notin {"none", "join"}
    BY <1>8 DEF SendAuth, Labels, Writes
  <2> QED
    BY <1>8, <2>1, Kinds, Moved DEF SendAuth, ByCTP
<1>9. ASSUME NEW t \in CTP, SendAuthFails(t) PROVE ByCTP(t)
  <2>1. PICK l \in Labels : Goto(t, l) /\ pc[t] \notin {"none", "join"}
    BY <1>9 DEF SendAuthFails, Labels, Restore
  <2> QED
    BY <1>9, <2>1, Kinds, Moved DEF SendAuthFails, ByCTP
<1>10. ASSUME NEW t \in CTP, NotAuthenticated(t) PROVE ByCTP(t)
  <2>1. PICK l \in Labels : Goto(t, l) /\ pc[t] \notin {"none", "join"}
    BY <1>10 DEF NotAuthenticated, Labels, Receives
  <2> QED
    BY <1>10, <2>1, Kinds, Moved DEF NotAuthenticated, ByCTP
<1>11. ASSUME NEW t \in CTP, AuthRefused(t) PROVE ByCTP(t)
  <2>1. PICK l \in Labels : Goto(t, l) /\ pc[t] \notin {"none", "join"}
    BY <1>11 DEF AuthRefused, Labels, Receives
  <2> QED
    BY <1>11, <2>1, Kinds, Moved DEF AuthRefused, ByCTP
<1>12. ASSUME NEW t \in CTP, AuthRestores(t) PROVE ByCTP(t)
  <2>1. PICK l \in Labels : Goto(t, l) /\ pc[t] \notin {"none", "join"}
    BY <1>12 DEF AuthRestores, Labels, Receives
  <2> QED
    BY <1>12, <2>1, Kinds, Moved DEF AuthRestores, ByCTP
<1>13. ASSUME NEW t \in CTP, AuthOK(t) PROVE ByCTP(t)
  <2>1. PICK l \in Labels : Goto(t, l) /\ pc[t] \notin {"none", "join"}
    BY <1>13 DEF AuthOK, Labels, Receives
  <2> QED
    BY <1>13, <2>1, Kinds, Moved DEF AuthOK, ByCTP
<1>14. ASSUME NEW t \in CTP, NoAuthStatus(t) PROVE ByCTP(t)
  <2>1. PICK l \in Labels : Goto(t, l) /\ pc[t] \notin {"none", "join"}
    BY <1>14 DEF NoAuthStatus, Labels, Restore, Fails
  <2> QED
    BY <1>14, <2>1, Kinds, Moved DEF NoAuthStatus, ByCTP
<1>15. ASSUME NEW t \in CTP, Sent(t) PROVE ByCTP(t)
  <2>1. PICK l \in Labels : Goto(t, l) /\ pc[t] \notin {"none", "join"}
    BY <1>15 DEF Sent, Labels
  <2> QED
    BY <1>15, <2>1, Kinds, Moved DEF Sent, ByCTP
<1>16. ASSUME NEW t \in CTP, Block(t) PROVE ByCTP(t)
  <2>1. PICK l \in Labels : Goto(t, l) /\ pc[t] \notin {"none", "join"}
    BY <1>16 DEF Block, Labels
  <2> QED
    BY <1>16, <2>1, Kinds, Moved DEF Block, ByCTP
<1>17. ASSUME NEW t \in Heartbeats, HeartbeatTest(t) PROVE Movers
  <2>1. PICK l \in Labels : Goto(t, l) /\ (l \in Reading => pc[t] \in Reading)
    BY <1>17, Kinds DEF HeartbeatTest, Labels, Reading
  <2>2. t \in Threads \ CTP /\ t # Timer
    BY Kinds
  <2>3. UNCHANGED <<session, starts>>
    BY <1>17 DEF HeartbeatTest
  <2>4. ByOther(t)
    BY <2>1, <2>2, <2>3, Moved DEF ByOther
  <2> QED
    BY <2>2, <2>4 DEF Movers
<1>18. ASSUME NEW t \in Heartbeats, SendReady(t) PROVE Movers
  <2>1. PICK l \in Labels : Goto(t, l) /\ (l \in Reading => pc[t] \in Reading)
    BY <1>18, Kinds DEF SendReady, Labels, Reading, Writes
  <2>2. t \in Threads \ CTP /\ t # Timer
    BY Kinds
  <2>3. UNCHANGED <<session, starts>>
    BY <1>18 DEF SendReady, Writes
  <2>4. ByOther(t)
    BY <2>1, <2>2, <2>3, Moved DEF ByOther
  <2> QED
    BY <2>2, <2>4 DEF Movers
<1>19. ASSUME NEW t \in Heartbeats, SendReadyFails(t) PROVE Movers
  <2>1. PICK l \in Labels : Goto(t, l) /\ (l \in Reading => pc[t] \in Reading)
    BY <1>19, Kinds DEF SendReadyFails, Labels, Reading
  <2>2. t \in Threads \ CTP /\ t # Timer
    BY Kinds
  <2>3. UNCHANGED <<session, starts>>
    BY <1>19 DEF SendReadyFails
  <2>4. ByOther(t)
    BY <2>1, <2>2, <2>3, Moved DEF ByOther
  <2> QED
    BY <2>2, <2>4 DEF Movers
<1>20. ASSUME NEW t \in Heartbeats, Sent(t) PROVE Movers
  <2>1. PICK l \in Labels : Goto(t, l) /\ (l \in Reading => pc[t] \in Reading)
    BY <1>20, Kinds DEF Sent, Labels, Reading
  <2>2. t \in Threads \ CTP /\ t # Timer
    BY Kinds
  <2>3. UNCHANGED <<session, starts>>
    BY <1>20 DEF Sent
  <2>4. ByOther(t)
    BY <2>1, <2>2, <2>3, Moved DEF ByOther
  <2> QED
    BY <2>2, <2>4 DEF Movers
<1>21. ASSUME NEW t \in Receivers, ReceiverLeaves(t) PROVE Movers
  <2>1. PICK l \in Labels : Goto(t, l) /\ (l \in Reading => pc[t] \in Reading)
    BY <1>21, Kinds DEF ReceiverLeaves, Labels, Reading
  <2>2. t \in Threads \ CTP /\ t # Timer
    BY Kinds
  <2>3. UNCHANGED <<session, starts>>
    BY <1>21 DEF ReceiverLeaves
  <2>4. ByOther(t)
    BY <2>1, <2>2, <2>3, Moved DEF ByOther
  <2> QED
    BY <2>2, <2>4 DEF Movers
<1>22. ASSUME NEW t \in Receivers, Block(t) PROVE Movers
  <2>1. PICK l \in Labels : Goto(t, l) /\ (l \in Reading => pc[t] \in Reading)
    BY <1>22, Kinds DEF Block, Labels, Reading
  <2>2. t \in Threads \ CTP /\ t # Timer
    BY Kinds
  <2>3. UNCHANGED <<session, starts>>
    BY <1>22 DEF Block
  <2>4. ByOther(t)
    BY <2>1, <2>2, <2>3, Moved DEF ByOther
  <2> QED
    BY <2>2, <2>4 DEF Movers
<1>23. ASSUME NEW t \in Receivers, GetOK(t) PROVE Movers
  <2>1. PICK l \in Labels : Goto(t, l) /\ (l \in Reading => pc[t] \in Reading)
    BY <1>23, Kinds DEF GetOK, Labels, Reading, Receives
  <2>2. t \in Threads \ CTP /\ t # Timer
    BY Kinds
  <2>3. UNCHANGED <<session, starts>>
    BY <1>23 DEF GetOK, Receives
  <2>4. ByOther(t)
    BY <2>1, <2>2, <2>3, Moved DEF ByOther
  <2> QED
    BY <2>2, <2>4 DEF Movers
<1>24. ASSUME NEW t \in Receivers, GetSync(t) PROVE Movers
  <2>1. PICK l \in Labels : Goto(t, l) /\ (l \in Reading => pc[t] \in Reading)
    BY <1>24, Kinds DEF GetSync, Labels, Reading, Receives
  <2>2. t \in Threads \ CTP /\ t # Timer
    BY Kinds
  <2>3. UNCHANGED <<session, starts>>
    BY <1>24 DEF GetSync, Receives
  <2>4. ByOther(t)
    BY <2>1, <2>2, <2>3, Moved DEF ByOther
  <2> QED
    BY <2>2, <2>4 DEF Movers
<1>25. ASSUME NEW t \in Receivers, GetBadStatus(t) PROVE Movers
  <2>1. PICK l \in Labels : Goto(t, l) /\ (l \in Reading => pc[t] \in Reading)
    BY <1>25, Kinds DEF GetBadStatus, Labels, Reading, Receives
  <2>2. t \in Threads \ CTP /\ t # Timer
    BY Kinds
  <2>3. UNCHANGED <<session, starts>>
    BY <1>25 DEF GetBadStatus, Receives
  <2>4. ByOther(t)
    BY <2>1, <2>2, <2>3, Moved DEF ByOther
  <2> QED
    BY <2>2, <2>4 DEF Movers
<1>26. ASSUME NEW t \in Receivers, GetNothing(t) PROVE Movers
  <2>1. PICK l \in Labels : Goto(t, l) /\ (l \in Reading => pc[t] \in Reading)
    BY <1>26, Kinds DEF GetNothing, Labels, Reading, AfterFailure, Fails
  <2>2. t \in Threads \ CTP /\ t # Timer
    BY Kinds
  <2>3. UNCHANGED <<session, starts>>
    BY <1>26 DEF GetNothing, AfterFailure, Fails
  <2>4. ByOther(t)
    BY <2>1, <2>2, <2>3, Moved DEF ByOther
  <2> QED
    BY <2>2, <2>4 DEF Movers
<1>27. CASE TimeoutExpires
  <2>1. PICK l \in Labels : Goto(Timer, l) /\ (l \in Reading => pc[Timer] \in Reading) /\ (l = "close" => TimeoutExpires \/ pc[Timer] # "idle")
    BY <1>27, Kinds DEF TimeoutExpires, Labels, Reading
  <2>2. Timer \in Threads \ CTP
    BY Kinds
  <2>3. UNCHANGED <<session, starts>>
    BY <1>27 DEF TimeoutExpires
  <2>4. ByOther(Timer)
    BY <2>1, <2>2, <2>3, Moved DEF ByOther
  <2> QED
    BY <2>2, <2>4 DEF Movers
<1>28. CASE TimeoutStopsHeartbeat
  <2>1. PICK l \in Labels : Goto(Timer, l) /\ (l \in Reading => pc[Timer] \in Reading) /\ (l = "close" => TimeoutExpires \/ pc[Timer] # "idle")
    BY <1>28, Kinds DEF TimeoutStopsHeartbeat, Labels, Reading
  <2>2. Timer \in Threads \ CTP
    BY Kinds
  <2>3. UNCHANGED <<session, starts>>
    BY <1>28 DEF TimeoutStopsHeartbeat
  <2>4. ByOther(Timer)
    BY <2>1, <2>2, <2>3, Moved DEF ByOther
  <2> QED
    BY <2>2, <2>4 DEF Movers
<1>29. CASE StopCTP
  <2>1. PICK l \in Labels : Goto(App, l) /\ (l \in Reading => pc[App] \in Reading)
    BY <1>29, Kinds DEF StopCTP, Labels, Reading
  <2>2. App \in Threads \ CTP /\ App # Timer
    BY Kinds
  <2>3. UNCHANGED <<session, starts>>
    BY <1>29 DEF StopCTP
  <2>4. ByOther(App)
    BY <2>1, <2>2, <2>3, Moved DEF ByOther
  <2> QED
    BY <2>2, <2>4 DEF Movers
<1>30. CASE StopThreads
  <2>1. PICK l \in Labels : Goto(App, l) /\ (l \in Reading => pc[App] \in Reading)
    BY <1>30, Kinds DEF StopThreads, Labels, Reading, SocketClosed
  <2>2. App \in Threads \ CTP /\ App # Timer
    BY Kinds
  <2>3. UNCHANGED <<session, starts>>
    BY <1>30 DEF StopThreads, SocketClosed
  <2>4. ByOther(App)
    BY <2>1, <2>2, <2>3, Moved DEF ByOther
  <2> QED
    BY <2>2, <2>4 DEF Movers
<1>31. ASSUME NEW t \in CTP, Receive(t) PROVE Movers
  <2>1. CASE ctpSocket = NULL
    <3>1. Goto(t, "test") /\ pc[t] \notin {"none", "join"} /\ starts' = starts
      BY <1>31, <2>1 DEF Receive, Restore
    <3> QED
      BY <3>1, Kinds, Moved DEF ByCTP, Movers
  <2> QED
    BY <1>31, <2>1 DEF Begins, Movers
<1>32. ASSUME NEW t \in CTP, Join(t) PROVE Movers
  BY <1>32 DEF Movers
<1>33. CASE StartCTP
  BY <1>33 DEF Movers
<1>34. ASSUME NEW t \in Threads, Closing(t) PROVE Movers
  <2>1. PICK l : /\ Goto(t, l) /\ pc[t] \in {"close", "delete", "null", "state"}
                 /\ l \in {"delete", "null", "state", AfterClose(t)}
    BY <1>34 DEF Closing, TestSocket, Delete, Nullify, Disconnected
  <2>2. UNCHANGED <<session, starts>>
    BY <1>34 DEF Closing, TestSocket, Delete, Nullify, Disconnected
  <2>3. pc'[t] = l /\ \A u \in Threads \ {t} : pc'[u] = pc[u]
    BY <2>1, Moved
  <2>4. CASE t \in CTP
    BY <2>1, <2>2, <2>3, <2>4 DEF ByCTP, Movers
  <2>5. CASE t \notin CTP
    <3>1. l \notin Reading /\ l # "close"
      BY <2>1, ClosingKinds DEF Reading
    <3> QED
      BY <2>1, <2>2, <2>3, <2>5, <3>1 DEF ByOther, Movers
  <2> QED
    BY <2>4, <2>5
<1>35. ASSUME NEW t \in CTP, ByCTP(t) PROVE Movers
  BY <1>35 DEF Movers
<1>36. ASSUME NEW t \in Threads, UsesDeleted(t) PROVE Movers
  <2>1. Goto(t, pc[t]) /\ pc[t] \in {"auth", "send", "read"} /\ UNCHANGED <<session, starts>>
    BY <1>36 DEF UsesDeleted
  <2>2. pc'[t] = pc[t] /\ \A u \in Threads \ {t} : pc'[u] = pc[u]
    BY <2>1, Moved
  <2>3. CASE t \in CTP
    BY <2>1, <2>2, <2>3 DEF ByCTP, Movers
  <2>4. CASE t \notin CTP
    BY <2>1, <2>2, <2>4 DEF ByOther, Movers
  <2> QED
    BY <2>3, <2>4
<1> QED
  BY <1>1, <1>2, <1>3, <1>4, <1>5, <1>6, <1>7, <1>8, <1>9, <1>10, <1>11, <1>12, <1>13, <1>14, <1>15, <1>16, <1>17, <1>18, <1>19, <1>20, <1>21, <1>22, <1>23, <1>24, <1>25, <1>26, <1>27, <1>28, <1>29, <1>30, <1>31, <1>32, <1>33, <1>34, <1>35, <1>36, ZenonT(60)
     DEF Next, CTPStep, AuthStatus

(* CmdTimeoutThread::run() closes what was not answered.                   *)
THEOREM TimeoutHasCause == Spec => TimeoutForCause
<1>1. TypeInv /\ SafeInv /\ [Next]_vars =>
        [starts <= 1 /\ pc[Timer] = "idle" /\ pc'[Timer] = "close" /\ Readable
             => raced \/ owed[ctpSocket] > 0]_vars
  <2> SUFFICES ASSUME TypeInv, SafeInv, Next, starts <= 1, pc[Timer] = "idle",
                      pc'[Timer] = "close", Readable
               PROVE  raced \/ owed[ctpSocket] > 0
    OBVIOUS
  <2>1. TimeoutExpires
    <3>1. ASSUME NEW t \in CTP, ByCTP(t) PROVE FALSE
      BY <3>1, Kinds DEF ByCTP
    <3>2. ASSUME NEW t \in CTP, Begins(t) PROVE FALSE
      <4>1. pc'[Timer] = pc[Timer]
        <5> DEFINE hb == <<"heartbeat", session[t]>>
                   rc == <<"receiver", session[t]>>
        <5>1. pc' = [pc EXCEPT ![hb] = "test", ![rc] = "read", ![t] = "join"]
          BY <3>2 DEF Begins, Receive
        <5>2. hb # Timer /\ rc # Timer /\ t # Timer /\ Timer \in Threads
          BY Kinds DEF Timer
        <5> HIDE DEF hb, rc
        <5> QED
          BY <5>1, <5>2 DEF TypeInv, TypeOK
      <4> QED
        BY <4>1
    <3>3. ASSUME NEW t \in CTP, Join(t) PROVE FALSE
      BY <3>3, Kinds, Moved DEF Join, Restore
    <3>4. ASSUME NEW t \in Threads \ CTP, ByOther(t) PROVE TimeoutExpires
      <4>1. t = Timer
        BY <3>4, Kinds DEF ByOther
      <4> QED
        BY <3>4, <4>1 DEF ByOther
    <3>5. ~StartCTP
      <4>1. ASSUME StartCTP PROVE FALSE
        <5>1. Goto(<<"ctp", starts + 1>>, "test") /\ starts + 1 \in 1..MaxStarts
          BY <4>1, BoundsAssumption DEF StartCTP, TypeInv, TypeOK
        <5>2. <<"ctp", starts + 1>> \in Threads /\ <<"ctp", starts + 1>> # Timer
          BY <5>1, Kinds
        <5> QED
          BY <5>1, <5>2, Kinds, Moved
      <4> QED
        BY <4>1
    <3> QED
      BY NextMovers, <3>1, <3>2, <3>3, <3>4, <3>5 DEF Movers
  <2>2. pc'[Timer] = IF NoAnswer THEN "close" ELSE "idle"
    BY <2>1, Kinds, Moved DEF TimeoutExpires
  <2>3. ctpState = WAITING_RESPONSE
    BY <2>2 DEF NoAnswer
  <2> QED
    BY <2>3 DEF SafeInv, Waited
<1> QED
  BY <1>1, SafeHolds, PTL DEF Spec, TimeoutForCause

-----------------------------------------------------------------------------
(* A receiver that reads is one its CTP thread waits for.                  *)
Waiting ==
    wait = "join" /\ starts <= 1 =>
        \A k \in 1..MaxSessions : pc[<<"receiver", k>>] \in Reading =>
            pc[<<"ctp", 1>>] = "join" /\ session[<<"ctp", 1>>] = k

LEMMA WaitSame == Next => wait' = wait
  BY DEF Next, Closing, TestSocket, Delete, Nullify, Disconnected, UsesDeleted, CTPStep, AuthStatus, NextRound, Sleep, Wake,
     Open, Reset, Connect, ConnectFails, SendAuth, SendAuthFails, Receive, Join, AuthOK,
     NotAuthenticated, AuthRefused, AuthRestores, Sent, Block, NoAuthStatus, ReceiverLeaves,
     GetOK, GetSync, GetBadStatus, GetNothing, HeartbeatTest, SendReady, SendReadyFails,
     TimeoutExpires, TimeoutStopsHeartbeat, StartCTP, StopCTP, StopThreads, fate

LEMMA WaitingNext == TypeInv /\ TypeInv' /\ Waiting /\ [Next]_vars => Waiting'
<1> SUFFICES ASSUME TypeInv, TypeInv', Waiting, [Next]_vars PROVE Waiting'
  OBVIOUS
<1>1. CASE UNCHANGED vars
  BY <1>1 DEF vars, own, counts, fate, Waiting
<1>2. CASE Next
  <2> DEFINE c == <<"ctp", 1>>
  <2>1. starts \in Nat /\ starts' \in Nat /\ MaxStarts \in Nat /\ starts <= MaxStarts /\ c \in CTP
    BY BoundsAssumption, Kinds DEF TypeInv, TypeOK
  <2>2. wait' = wait
    BY <1>2, WaitSame
  <2> SUFFICES ASSUME wait = "join", starts' <= 1, NEW k \in 1..MaxSessions,
                      pc'[<<"receiver", k>>] \in Reading
               PROVE  pc'[c] = "join" /\ session'[c] = k
    BY <2>2 DEF Waiting
  <2> DEFINE r == <<"receiver", k>>
  <2>3. r \in Receivers /\ r \in Threads /\ r \notin CTP /\ c \in Threads
    BY <2>1, Kinds
  <2> HIDE DEF c, r
  <2>4. pc[r] \in Reading /\ starts <= 1 => pc[c] = "join" /\ session[c] = k
    BY DEF Waiting, c, r
  <2>5. ASSUME NEW t \in CTP, pc[t] # "none", starts <= 1 PROVE t = c
    <3>1. t[2] \in 1..MaxStarts /\ t = <<"ctp", t[2]>>
      BY Kinds
    <3>2. ~(t[2] > starts)
      BY <2>5, <3>1 DEF TypeInv, NotBegun
    <3>3. t[2] = 1
      BY <3>1, <3>2, <2>1, <2>5
    <3> QED
      BY <3>1, <3>3 DEF c
  <2>6. ASSUME NEW t \in CTP, ByCTP(t) PROVE FALSE
    <3>1. t # r /\ starts' = starts /\ pc[t] \notin {"none", "join"}
      BY <2>3, <2>6 DEF ByCTP
    <3>2. pc[r] \in Reading
      BY <2>3, <2>6, <3>1 DEF ByCTP, r
    <3> QED
      BY <2>4, <2>5, <3>1, <3>2
  <2>7. ASSUME NEW t \in CTP, Begins(t) PROVE pc'[c] = "join" /\ session'[c] = k
    <3>1. /\ pc[t] = "receive" /\ session' = session /\ starts' = starts
          /\ pc' = [pc EXCEPT ![<<"heartbeat", session[t]>>] = "test",
                              ![<<"receiver", session[t]>>] = "read", ![t] = "join"]
      BY <2>7 DEF Begins, Receive, own, counts
    <3>2. t = c
      BY <2>5, <3>1
    <3>3. pc[r] \notin Reading
      BY <2>4, <3>1, <3>2
    <3>4. r = <<"receiver", session[t]>> \/ r = <<"heartbeat", session[t]>>
      <4>1. t # r
        BY <2>3
      <4> QED
        BY <2>3, <3>1, <3>3, <4>1 DEF TypeInv, TypeOK, r
    <3>5. session[t] = k
      BY <3>4 DEF r
    <3>6. pc'[t] = "join"
      BY <3>1, Kinds DEF TypeInv, TypeOK
    <3> QED
      BY <3>1, <3>2, <3>5, <3>6
  <2>8. ASSUME NEW t \in CTP, Join(t) PROVE FALSE
    <3>1. pc[t] = "join" /\ Joined(t) /\ Goto(t, "test") /\ starts' = starts
      BY <2>8 DEF Join, Restore, counts
    <3>2. t = c /\ t # r /\ t \in Threads
      BY <2>3, <2>5, <3>1, Kinds
    <3>3. pc'[r] = pc[r] /\ pc[r] \in Reading
      BY <2>3, <3>1, <3>2, Moved DEF r
    <3>4. session[t] = k /\ pc[<<"receiver", session[t]>>] = "ended"
      BY <2>4, <3>1, <3>2, <3>3 DEF Joined
    <3> QED
      BY <3>3, <3>4 DEF r, Reading
  <2>9. ASSUME NEW t \in Threads \ CTP, ByOther(t) PROVE pc'[c] = "join" /\ session'[c] = k
    <3>1. pc[r] \in Reading
      BY <2>3, <2>9 DEF ByOther, r
    <3>2. pc'[c] = pc[c] /\ session' = session /\ starts' = starts
      BY <2>1, <2>3, <2>9 DEF ByOther
    <3> QED
      BY <2>4, <3>1, <3>2
  <2>10. CASE StartCTP
    <3>1. starts' = starts + 1 /\ Goto(<<"ctp", starts + 1>>, "test") /\ starts < MaxStarts
      BY <2>10 DEF StartCTP
    <3>2. starts = 0
      BY <2>1, <3>1
    <3>3. Goto(c, "test") /\ pc[c] = "none"
      <4>1. <<"ctp", 1>> = c /\ 1 \in 1..MaxStarts /\ 1 > starts
        BY <2>1, <3>1, <3>2 DEF c
      <4> QED
        BY <3>1, <3>2, <4>1 DEF TypeInv, NotBegun
    <3>4. pc'[r] = pc[r]
      BY <2>1, <2>3, <3>3, Moved
    <3> QED
      BY <2>4, <3>2, <3>3, <3>4 DEF r
  <2> QED
    BY <1>2, NextMovers, <2>6, <2>7, <2>8, <2>9, <2>10 DEF Movers
<1> QED
  BY <1>1, <1>2

(* ReceiverThread and CTPThread never read from one socket at once: with a *)
(* receiver that is waited for, and one CTP thread.                        *)
THEOREM OneReaderHolds == Spec => []OneReader
<1>1. Init => Waiting
  BY Kinds DEF Init, Waiting, Reading
<1>2. TypeInv /\ Waiting => OneReader
  <2> SUFFICES ASSUME TypeInv, Waiting, wait = "join", starts <= 1,
                      NEW t \in Threads, NEW u \in Threads, at[t] = at[u], at[t] # NULL
               PROVE  t = u
    BY DEF OneReader
  <2>1. pc[t] = "recv" /\ pc[u] = "recv"
    BY DEF TypeInv, Blocked
  <2>2. \A v \in Threads : pc[v] = "recv" => v \in CTP \/ v \in Receivers
    BY Kinds DEF TypeInv, LabelsType, HeartbeatLabels, TimerLabels, AppLabels, Threads
  <2>3. \A v \in Receivers : pc[v] = "recv" =>
           pc[<<"ctp", 1>>] = "join" /\ session[<<"ctp", 1>>] = v[2]
    BY Kinds DEF Waiting, Reading
  <2>4. <<"ctp", 1>> \in CTP
    BY BoundsAssumption, Kinds
  <2>5. \A v \in CTP : pc[v] = "recv" => pc[<<"ctp", 1>>] # "join"
    BY <2>4, OneThread
  <2>6. CASE t \in CTP \/ u \in CTP
    BY <2>1, <2>2, <2>3, <2>5, <2>6, OneThread
  <2>7. CASE t \in Receivers /\ u \in Receivers
    BY <2>1, <2>3, <2>7, Kinds
  <2> QED
    BY <2>1, <2>2, <2>6, <2>7
<1> QED
  BY <1>1, <1>2, WaitingNext, ThreadsTypeCorrect, PTL DEF Spec
=============================================================================
