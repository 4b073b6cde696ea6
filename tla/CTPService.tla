------------------------------ MODULE CTPService ------------------------------
(***************************************************************************)
(* The threads of the client-to-client push over one socket, none of them  *)
(* behind a lock: cpp/common/push/CTPService.cpp (CTPService, CTPThread,   *)
(* ReceiverThread, HeartbeatThread, CmdTimeoutThread), on the POSIX port   *)
(* of FThread and FSocket.                                                 *)
(*                                                                         *)
(* Kept: ctpState, leaving, the pointers to the socket and to the threads; *)
(* a socket deleted while others use it or delete it; the server answering *)
(* or not.  One step each: a test of ctpSocket with the call through it -  *)
(* what comes between them does what a call on a deleted socket does, see  *)
(* UsesDeleted -, and neighbouring assignments to ctpState, leaving and    *)
(* cmdTimeoutThread; closeConnection() is four.  Abstracted: a message is  *)
(* its kind; times are any; thread objects are not reclaimed, and deleted  *)
(* memory is not allocated again while a thread still uses it.             *)
(***************************************************************************)
EXTENDS Integers

CONSTANTS
    MaxStarts,   \* bound: calls of startCTP()
    MaxConns,    \* bound: connections the server accepts
    MaxSessions, \* bound: connections the server authenticates
    MaxOwed,     \* bound: messages sent and not answered
    Platforms,   \* whether recv() returns when another thread closes its socket
    Waits        \* ctpConnTimeout: "join" when it is 0, else "timed"

ASSUME BoundsAssumption ==
    /\ MaxStarts \in Nat \ {0} /\ MaxConns \in Nat \ {0} /\ MaxSessions \in Nat \ {0}
    /\ MaxOwed \in Nat \ {0}
ASSUME PlatformsAssumption == Platforms \subseteq BOOLEAN /\ Waits \subseteq {"join", "timed"}

DISCONNECTED == 0
SLEEPING == 1
CONNECTING == 2
CONNECTED == 3
AUTHENTICATING == 4
READY == 5
WAITING_RESPONSE == 6
CLOSING == 7

CTP == {"ctp"} \X (1..MaxStarts)
Receivers == {"receiver"} \X (1..MaxSessions)
Heartbeats == {"heartbeat"} \X (1..MaxSessions)
Timer == <<"timer", 0>>
App == <<"app", 0>>
Threads == CTP \cup Receivers \cup Heartbeats \cup {Timer, App}
Conns == 1..MaxConns
NULL == 0

VARIABLES
    pc,
    at,         \* the socket a thread is blocked on in recv()
    ctpState, leaving,
    ctpSocket,  \* NULL or a connection
    armed,      \* cmdTimeoutThread sleeps and was not told to terminate
    heartbeatThread, terminate, \* the last heartbeat; those told to terminate
    retry, second, session, \* of a CTP thread: restore, jump or refused; whether the
                            \* AUTH is the second one; the receiver it waits for
    starts, conns, sessions,    \* how many there were
    freed,      \* the sockets deleted
    held,       \* the socket a thread in closeConnection() found
    crashed,    \* "no", or over a socket deleted twice, NULL or deleted before its use
    wakes, wait \* of Platforms, of Waits

(* History: messages the server has not answered; an answer or a close     *)
(* that came before its message was noted as sent, since the connection was*)
(* opened; a socket found by two threads that were then both closing; what *)
(* became of a stop.                                                       *)
VARIABLES owed, raced, clash, stop

shared == <<ctpState, leaving, ctpSocket, armed>>
heartbeat == <<heartbeatThread, terminate>>
own == <<at, retry, second, session>>
counts == <<starts, conns, sessions>>
fate == <<freed, held, clash, crashed, wakes, wait>>
history == <<owed, raced, stop>>
vars == <<pc, own, shared, heartbeat, counts, fate, history>>

(* No thread makes a step when the program is down. *)
Goto(t, l) == crashed = "no" /\ pc' = [pc EXCEPT ![t] = l]

(* The program begins; or it was stopped while the CTP thread was calling  *)
(* the server: stopCTP() found no socket, and the thread, that saw the     *)
(* flag after an error status, ended with the connection open.             *)
Init ==
    /\ pc = [t \in Threads |-> IF t \in {Timer, App} THEN "idle" ELSE "none"]
    /\ at = [t \in Threads |-> NULL]
    /\ ctpSocket \in {NULL, 1} /\ conns = ctpSocket
    /\ ctpState = (IF ctpSocket = NULL THEN DISCONNECTED ELSE READY)
    /\ leaving = (ctpSocket # NULL) /\ armed = FALSE
    /\ heartbeatThread = 0 /\ terminate = {}
    /\ retry = [t \in CTP |-> "no"] /\ second = [t \in CTP |-> FALSE]
    /\ session = [t \in CTP |-> 0]
    /\ starts = 0 /\ sessions = 0
    /\ freed = {} /\ held = [t \in Threads |-> NULL] /\ crashed = "no" /\ clash = FALSE
    /\ wakes \in Platforms /\ wait \in Waits
    /\ owed = [c \in Conns |-> 0] /\ raced = FALSE /\ stop = "none"

-----------------------------------------------------------------------------
(* closeConnection(): the pointer is tested, the socket deleted, the       *)
(* pointer set to NULL, and the state changed, any thread coming between.  *)
(* What is deleted is what was found or, read again, what there is now.  A *)
(* socket deleted twice brings the program down: the destructor is virtual,*)
(* and found through memory that was freed.                                *)
AfterClose(t) ==
    CASE t \in CTP -> [no |-> "reset", restore |-> "sleep", jump |-> "open",
                       refused |-> "refused"][retry[t]]
      [] t \in Heartbeats -> "ended"
      [] t = Timer -> "stopHeartbeat"
      [] t = App -> "idle"

InClose(t) == pc[t] \in {"delete", "null"}

TestSocket(t) ==
    /\ pc[t] = "close"
    /\ held' = [held EXCEPT ![t] = ctpSocket]
    /\ clash' = (clash \/ (ctpSocket # NULL /\ \E u \in Threads : InClose(u)))
    /\ Goto(t, IF ctpSocket = NULL THEN "state" ELSE "delete")
    /\ UNCHANGED <<own, shared, heartbeat, counts, freed, crashed, wakes, wait, history>>

Sending == \E t \in Threads : pc[t] = "sent"

(* Mutant: the pointer goes, the connection stays. *)
NotDeleted(c) == freed

Deleted(c) == freed \cup ({c} \ {NULL})

(* A message on a connection that was closed is answered only where recv() *)
(* may stay in it.                                                         *)
Unanswered == [c \in Conns |-> IF wakes /\ c \in freed' THEN 0 ELSE owed[c]]

Delete(t) ==
    /\ pc[t] = "delete"
    /\ \E c \in {held[t], ctpSocket} :
          /\ freed' = Deleted(c)
          /\ crashed' = IF c \in freed THEN "twice" ELSE crashed
    /\ held' = [held EXCEPT ![t] = NULL]
    /\ raced' = (raced \/ Sending)
    /\ Goto(t, "null")
    /\ owed' = Unanswered
    /\ UNCHANGED <<own, shared, heartbeat, counts, clash, wakes, wait, stop>>

(* Mutant: the pointer to what was deleted stays. *)
PointerKept == ctpSocket

PointerAfter == NULL

Nullify(t) ==
    /\ pc[t] = "null"
    /\ ctpSocket' = PointerAfter
    /\ raced' = Sending
    /\ Goto(t, "state")
    /\ UNCHANGED <<own, ctpState, leaving, armed, heartbeat, counts, fate, owed, stop>>

Disconnected(t) ==
    /\ pc[t] = "state"
    /\ ctpState' = DISCONNECTED
    /\ Goto(t, AfterClose(t))
    /\ UNCHANGED <<own, leaving, ctpSocket, armed, heartbeat, counts, fate, history>>

(* sendMsg(): the timeout of the last message is stopped, the bytes go out *)
(* - through a socket deleted they do not, or the program goes down - and  *)
(* then, with the message on its way, the state changes and a timeout is   *)
(* started.                                                                *)
Writes(t) ==
    /\ ctpSocket # NULL /\ ctpSocket \notin freed
    /\ owed[ctpSocket] < MaxOwed
    /\ owed' = [owed EXCEPT ![ctpSocket] = @ + 1]
    /\ armed' = FALSE
    /\ Goto(t, "sent")

Sent(t) ==
    /\ pc[t] = "sent"
    /\ ctpState' = WAITING_RESPONSE
    /\ armed' = TRUE
    /\ Goto(t, IF t \in CTP THEN "read" ELSE "test")
    /\ UNCHANGED <<own, leaving, ctpSocket, heartbeat, counts, fate, history>>

(* receiveStatusMsg(): recv() blocks on the socket there is now.           *)
Readable == ctpSocket # NULL /\ ctpSocket \notin freed

Block(t) ==
    /\ t \in CTP \cup Receivers
    /\ pc[t] = "read" /\ Readable /\ (t \in Receivers => ~leaving)
    /\ at' = [at EXCEPT ![t] = ctpSocket]
    /\ Goto(t, "recv")
    /\ UNCHANGED <<retry, second, session, shared, heartbeat, counts, fate, history>>

(* writeBuffer() or readBuffer() through a pointer to what was deleted     *)
(* fails, as on any closed socket, or brings the program down here.        *)
UsesDeleted(t) ==
    /\ pc[t] \in {"auth", "send", "read"} /\ ctpSocket \in freed
    /\ Goto(t, pc[t]) /\ crashed' = "freed"
    /\ UNCHANGED <<own, shared, heartbeat, counts, freed, held, clash, wakes, wait, history>>

(* A message; from a socket closed on this side, only if recv() is still   *)
(* in it.  It answers what was sent, or is one of the server's own.        *)
Receives(t) ==
    /\ pc[t] = "recv" /\ (at[t] \in freed => ~wakes)
    /\ ctpState' = READY /\ armed' = FALSE
    /\ at' = [at EXCEPT ![t] = NULL]

Answers(t) ==
    /\ owed[at[t]] > 0
    /\ owed' = [owed EXCEPT ![at[t]] = @ - 1]
    /\ raced' = (raced \/ Sending)
    /\ UNCHANGED stop

(* No message: no socket, recv() fails, or it returns because of a close.  *)
Fails(t) ==
    /\ pc[t] = "recv" \/ (pc[t] = "read" /\ ~Readable)
    /\ armed' = FALSE
    /\ at' = [at EXCEPT ![t] = NULL]
    /\ UNCHANGED ctpState

-----------------------------------------------------------------------------
(* CTPThread::run(): the loop, from one connection to the next.            *)
NextRound(t) ==
    /\ pc[t] = "test"
    /\ \/ leaving /\ Goto(t, "ended")
       \/ ~leaving /\ retry[t] = "no" /\ Goto(t, "open")
       \/ ~leaving /\ retry[t] # "no" /\ Goto(t, "close")
    /\ UNCHANGED <<own, shared, heartbeat, counts, fate, history>>

Sleep(t) ==
    /\ pc[t] = "sleep"
    /\ ctpState' = SLEEPING
    /\ Goto(t, "asleep")
    /\ UNCHANGED <<own, leaving, ctpSocket, armed, heartbeat, counts, fate, history>>

AnotherActive == ctpState > SLEEPING

Wake(t) ==
    /\ pc[t] = "asleep"
    /\ \/ leaving /\ Goto(t, "ended")
       \/ ~leaving /\ AnotherActive /\ Goto(t, "another")
       \/ ~leaving /\ ~AnotherActive /\ Goto(t, "open")
    /\ UNCHANGED <<own, shared, heartbeat, counts, fate, history>>

(* openConnection(): an old socket is closed, leaving reset, and then the  *)
(* server called.                                                          *)
Open(t) ==
    /\ pc[t] = "open" /\ ctpSocket # NULL
    /\ Goto(t, "close") /\ retry' = [retry EXCEPT ![t] = "no"]
    /\ UNCHANGED <<at, second, session, shared, heartbeat, counts, fate, history>>

Reset(t) ==
    /\ pc[t] = "reset" \/ (pc[t] = "open" /\ ctpSocket = NULL)
    /\ ctpState' = CONNECTING /\ leaving' = FALSE
    /\ stop' = IF leaving THEN "lost" ELSE stop
    /\ Goto(t, "connect")
    /\ retry' = [retry EXCEPT ![t] = "no"] /\ second' = [second EXCEPT ![t] = FALSE]
    /\ UNCHANGED <<at, session, ctpSocket, armed, heartbeat, counts, fate, owed, raced>>

Connect(t) ==
    /\ pc[t] = "connect" /\ conns < MaxConns
    /\ conns' = conns + 1 /\ ctpSocket' = conns + 1
    /\ ctpState' = CONNECTED
    /\ Goto(t, "auth")
    /\ raced' = Sending
    /\ UNCHANGED <<own, leaving, armed, heartbeat, starts, sessions, fate, owed, stop>>

Restore(t) == Goto(t, "test") /\ retry' = [retry EXCEPT ![t] = "restore"]

ConnectFails(t) ==
    /\ pc[t] = "connect"
    /\ ctpSocket' = NULL /\ ctpState' = DISCONNECTED
    /\ Restore(t)
    /\ UNCHANGED <<at, second, session, leaving, armed, heartbeat, counts, fate,
                   history>>

(* sendAuthMsg(). *)
SendAuth(t) ==
    /\ pc[t] = "auth"
    /\ Writes(t)
    /\ ctpState' = AUTHENTICATING
    /\ UNCHANGED <<own, leaving, ctpSocket, heartbeat, counts, fate, raced, stop>>

SendAuthFails(t) ==
    /\ pc[t] = "auth"
    /\ ctpState' = AUTHENTICATING /\ armed' = FALSE
    /\ Restore(t)
    /\ UNCHANGED <<at, second, session, leaving, ctpSocket, heartbeat, counts, fate,
                   history>>

(* The status of the AUTH.  Without one, the thread restores the connection*)
(* after the first AUTH, and follows a NULL pointer after the second.      *)
NoAuthStatus(t) ==
    /\ Fails(t)
    /\ IF second[t] THEN crashed' = "null" /\ Goto(t, "ended") /\ UNCHANGED retry
                    ELSE Restore(t) /\ UNCHANGED crashed
    /\ UNCHANGED <<second, session, leaving, ctpSocket, heartbeat, counts, freed,
                   held, clash, wakes, wait, history>>

AuthOK(t) ==
    /\ Receives(t) /\ Answers(t)
    /\ sessions < MaxSessions
    /\ sessions' = sessions + 1 /\ session' = [session EXCEPT ![t] = sessions + 1]
    /\ Goto(t, "receive") /\ second' = [second EXCEPT ![t] = FALSE]
    /\ UNCHANGED <<retry, leaving, ctpSocket, heartbeat, starts, conns, fate>>

NotAuthenticated(t) ==
    /\ Receives(t) /\ Answers(t)
    /\ ~second[t] /\ second' = [second EXCEPT ![t] = TRUE]
    /\ Goto(t, "auth")
    /\ UNCHANGED <<retry, session, leaving, ctpSocket, heartbeat, counts, fate>>

(* A refusal, or any other status than OK to the second AUTH. *)
AuthRefused(t) ==
    /\ Receives(t) /\ Answers(t)
    /\ Goto(t, "close") /\ retry' = [retry EXCEPT ![t] = "refused"]
    /\ UNCHANGED <<second, session, leaving, ctpSocket, heartbeat, counts, fate>>

(* An error, an unexpected status, a missing nonce or parameters; a jump;  *)
(* a jump with a parameter that is neither FROM nor TO: the "continue" is  *)
(* the inner loop's, which goes over that parameter for ever.              *)
AuthRestores(t) ==
    /\ Receives(t) /\ Answers(t) /\ ~second[t]
    /\ \/ Goto(t, "test") /\ \E r \in {"restore", "jump"} : retry' = [retry EXCEPT ![t] = r]
       \/ Goto(t, "spins") /\ retry' = [retry EXCEPT ![t] = "restore"]
    /\ UNCHANGED <<second, session, leaving, ctpSocket, heartbeat, counts, fate>>

(* receive(): the two threads are started and the receiver waited for.     *)
Receive(t) ==
    /\ pc[t] = "receive"
    /\ IF ctpSocket = NULL
          THEN Restore(t) /\ UNCHANGED heartbeatThread
          ELSE /\ crashed = "no"
               /\ pc' = [pc EXCEPT ![<<"heartbeat", session[t]>>] = "test",
                                   ![<<"receiver", session[t]>>] = "read", ![t] = "join"]
               /\ heartbeatThread' = session[t]
               /\ UNCHANGED retry
    /\ UNCHANGED <<at, second, session, shared, terminate, counts, fate, history>>

Told == {heartbeatThread} \ {0}

stopHeartbeatThread ==
    /\ terminate' = terminate \cup Told
    /\ heartbeatThread' = 0

(* Mutant: the receiver is not waited for. *)
NotJoined(t) == TRUE

(* The wait with a timeout returns at once on POSIX, and the receiver does *)
(* not look at its terminate flag.                                         *)
Joined(t) == pc[<<"receiver", session[t]>>] = "ended" \/ wait = "timed"

Join(t) ==
    /\ pc[t] = "join" /\ Joined(t)
    /\ stopHeartbeatThread
    /\ Restore(t) /\ session' = [session EXCEPT ![t] = 0]
    /\ UNCHANGED <<at, second, shared, counts, fate, history>>

CTPStep(t) ==
    \/ NextRound(t) \/ Sleep(t) \/ Wake(t) \/ Open(t) \/ Reset(t) \/ Connect(t)
    \/ ConnectFails(t) \/ SendAuth(t) \/ SendAuthFails(t) \/ Receive(t) \/ Join(t)

AuthStatus(t) ==
    \/ AuthOK(t) \/ NotAuthenticated(t) \/ AuthRefused(t) \/ AuthRestores(t)

-----------------------------------------------------------------------------
(* ReceiverThread::run(): "read" is the loop's test and receiveStatusMsg(). *)
ReceiverLeaves(t) ==
    /\ pc[t] = "read" /\ leaving
    /\ Goto(t, "ended")
    /\ UNCHANGED <<own, shared, heartbeat, counts, fate, history>>

(* OK, or SYNC: the listener is told; and back to receive. *)
GetOK(t) ==
    /\ Receives(t) /\ Answers(t)
    /\ Goto(t, "read")
    /\ UNCHANGED <<retry, second, session, leaving, ctpSocket, heartbeat, counts, fate>>

GetSync(t) ==
    /\ Receives(t)
    /\ Goto(t, "read")
    /\ UNCHANGED <<retry, second, session, leaving, ctpSocket, heartbeat, counts, fate,
                   history>>

GetBadStatus(t) ==
    /\ Receives(t)
    /\ Goto(t, "ended")
    /\ UNCHANGED <<retry, second, session, leaving, ctpSocket, heartbeat, counts, fate,
                   history>>

(* Mutant: the receiver tries again. *)
TriesAgain == "read"

AfterFailure == "ended"

GetNothing(t) ==
    /\ Fails(t)
    /\ Goto(t, AfterFailure)
    /\ UNCHANGED <<retry, second, session, leaving, ctpSocket, heartbeat, counts, fate,
                   history>>

(* HeartbeatThread::run(); it sleeps, if it does, before the test. *)
HeartbeatTest(t) ==
    /\ pc[t] = "test"
    /\ Goto(t, IF t[2] \in terminate THEN "ended" ELSE "send")
    /\ UNCHANGED <<own, shared, heartbeat, counts, fate, history>>

SendReady(t) ==
    /\ pc[t] = "send"
    /\ Writes(t)
    /\ UNCHANGED <<own, ctpState, leaving, ctpSocket, heartbeat, counts, fate, raced, stop>>

SendReadyFails(t) ==
    /\ pc[t] = "send"
    /\ armed' = FALSE
    /\ Goto(t, "close")
    /\ UNCHANGED <<own, ctpState, leaving, ctpSocket, heartbeat, counts, fate, history>>

(* CmdTimeoutThread::run(), one at a time; stopped too late it goes on.    *)
(* Mutant: the state is not looked at. *)
NotLeaving == ~leaving

NoAnswer == ~leaving /\ ctpState = WAITING_RESPONSE

TimeoutExpires ==
    /\ armed /\ pc[Timer] = "idle"
    /\ armed' = FALSE
    /\ Goto(Timer, IF NoAnswer THEN "close" ELSE "idle")
    /\ UNCHANGED <<own, ctpState, leaving, ctpSocket, heartbeat, counts, fate, history>>

TimeoutStopsHeartbeat ==
    /\ pc[Timer] = "stopHeartbeat"
    /\ stopHeartbeatThread
    /\ Goto(Timer, "idle")
    /\ UNCHANGED <<own, shared, counts, fate, history>>

(* The application: startCTP() and stopCTP(). *)
StartCTP ==
    /\ pc[App] = "idle" /\ starts < MaxStarts
    /\ starts' = starts + 1
    /\ ctpState' = DISCONNECTED /\ leaving' = FALSE
    /\ stop' = "none"
    /\ Goto(<<"ctp", starts + 1>>, "test")
    /\ UNCHANGED <<own, ctpSocket, armed, heartbeat, conns, sessions, fate, owed, raced>>

StopCTP ==
    /\ pc[App] = "idle" /\ starts > 0 /\ stop = "none"
    /\ leaving' = TRUE /\ ctpState' = CLOSING
    /\ stop' = "asked"
    /\ Goto(App, "stopping")
    /\ UNCHANGED <<own, ctpSocket, armed, heartbeat, counts, fate, owed, raced>>

(* The rest of stopCTP(); without a socket there is nothing to close, the  *)
(* threads are left to the flag.                                           *)
(* Mutant: the socket is left to the threads. *)
SocketLeft == "idle"

SocketClosed == "close"

StopThreads ==
    /\ pc[App] = "stopping"
    /\ IF ctpSocket = NULL
          THEN /\ Goto(App, "idle") /\ stop' = "noSocket"
               /\ UNCHANGED <<armed, heartbeat>>
          ELSE /\ Goto(App, SocketClosed) /\ armed' = FALSE /\ stopHeartbeatThread
               /\ UNCHANGED stop
    /\ UNCHANGED <<own, ctpState, leaving, ctpSocket, counts, fate, owed, raced>>

-----------------------------------------------------------------------------
Closing(t) == TestSocket(t) \/ Delete(t) \/ Nullify(t) \/ Disconnected(t)

Next ==
    \/ \E t \in Threads : Closing(t) \/ UsesDeleted(t)
    \/ \E t \in CTP : CTPStep(t) \/ AuthStatus(t) \/ Sent(t) \/ Block(t) \/ NoAuthStatus(t)
    \/ \E t \in Receivers : \/ ReceiverLeaves(t) \/ Block(t) \/ GetOK(t) \/ GetSync(t)
                            \/ GetBadStatus(t) \/ GetNothing(t)
    \/ \E t \in Heartbeats : \/ HeartbeatTest(t) \/ SendReady(t) \/ SendReadyFails(t)
                             \/ Sent(t)
    \/ TimeoutExpires \/ TimeoutStopsHeartbeat
    \/ StartCTP \/ StopCTP \/ StopThreads

Spec == Init /\ [][Next]_vars

(* Every thread goes on by itself, except where it waits for the server; a *)
(* recv() on a socket closed on this side returns, where the platform says *)
(* so.  The server owes nothing, and the application neither.              *)
Returns(t) == pc[t] = "recv" => at[t] \in freed /\ wakes

Fairness ==
    /\ \A t \in CTP :
          WF_vars(Closing(t) \/ CTPStep(t) \/ Sent(t) \/ Block(t)
                  \/ (Returns(t) /\ NoAuthStatus(t)))
    /\ \A t \in Receivers :
          WF_vars(ReceiverLeaves(t) \/ Block(t) \/ (Returns(t) /\ GetNothing(t)))
    /\ \A t \in Heartbeats :
          WF_vars(Closing(t) \/ HeartbeatTest(t) \/ SendReady(t) \/ SendReadyFails(t) \/ Sent(t))
    /\ WF_vars(Closing(Timer) \/ TimeoutExpires \/ TimeoutStopsHeartbeat)
    /\ WF_vars(Closing(App) \/ StopThreads)

FairSpec == Spec /\ Fairness

-----------------------------------------------------------------------------
Labels == {"none", "idle", "test", "close", "delete", "null", "state", "sleep", "asleep",
           "open", "reset", "connect", "auth", "sent", "read", "recv", "receive", "join",
           "send", "stopping", "stopHeartbeat", "refused", "another", "spins", "ended"}

TypeOK ==
    /\ pc \in [Threads -> Labels]
    /\ at \in [Threads -> Conns \cup {NULL}]
    /\ ctpState \in DISCONNECTED..CLOSING /\ leaving \in BOOLEAN
    /\ ctpSocket \in Conns \cup {NULL} /\ armed \in BOOLEAN
    /\ heartbeatThread \in 0..MaxSessions /\ terminate \subseteq 1..MaxSessions
    /\ retry \in [CTP -> {"no", "restore", "jump", "refused"}] /\ second \in [CTP -> BOOLEAN]
    /\ session \in [CTP -> 0..MaxSessions]
    /\ starts \in 0..MaxStarts /\ conns \in 0..MaxConns /\ sessions \in 0..MaxSessions
    /\ freed \subseteq Conns /\ held \in [Threads -> Conns \cup {NULL}]
    /\ crashed \in {"no", "twice", "null", "freed"} /\ clash \in BOOLEAN
    /\ owed \in [Conns -> 0..MaxOwed]
    /\ raced \in BOOLEAN /\ stop \in {"none", "asked", "noSocket", "lost"}

(* Two threads never wait for a message on one connection, where one would *)
(* take the answer the other waits for: with a receiver that is waited for *)
(* without a timeout, and one CTP thread.                                  *)
OneReader ==
    wait = "join" /\ starts <= 1 =>
        \A t, u \in Threads : at[t] = at[u] /\ at[t] # NULL => t = u

(* No connection stays open that nobody has a pointer to: closing one      *)
(* never forgets another, opened meanwhile.  With one CTP thread, and as   *)
(* long as no two threads were in closeConnection() over a socket at once: *)
(* the one that comes second may set to NULL what was opened since.        *)
NothingLeaks ==
    starts <= 1 /\ ~clash => \A c \in 1..conns : c \in freed \/ c = ctpSocket

(* A deletion that finds the socket deleted is one of a thread that found  *)
(* it before another's was over, or the other way round: with one thread   *)
(* closing at a time there is none.                                        *)
TwiceForCause == crashed = "twice" => clash

(* The timeout closes an open connection only over a message of it the     *)
(* server did not answer, even if it was started for the connection before *)
(* - or over a message whose answer, or whose connection's end, came       *)
(* before its sender had noted that it was sent.  With one CTP thread.     *)
TimeoutForCause ==
    [][starts <= 1 /\ pc[Timer] = "idle" /\ pc'[Timer] = "close" /\ Readable
         => raced \/ owed[ctpSocket] > 0]_vars

(* A thread reads from a connection that is open and that nobody points at *)
(* any more: nothing but the server ends that. Two threads that closed at  *)
(* once leave such a thread (see NothingLeaks).                            *)
Forgotten == \E t \in CTP \cup Receivers : at[t] \notin freed \cup {ctpSocket, NULL}

(* CTPThread::run(): "In case of socket/Server errors, the whole CTP       *)
(* connection is pulled down and restored again in a while", which is what *)
(* CmdTimeoutThread relies on: the CTP thread never stays without a        *)
(* connection and without calling the server, where a close wakes who      *)
(* reads.  Unless the CTP was stopped; the server refused it; it loops over*)
(* a parameter of a jump; it reads from a forgotten connection; the program*)
(* went down, over NULL or a deleted socket; or it ended because it took   *)
(* the state that a late heartbeat had set for another instance's.         *)
TimeoutRestores ==
    []<>(\/ ~wakes \/ starts = 0 \/ Readable
         \/ \E t \in CTP : pc[t] \in {"connect", "refused", "spins", "another"}
         \/ leaving \/ Forgotten \/ crashed # "no")

(* A stop that found a connection closes it and ends the CTP thread, where *)
(* a close wakes who reads.  Unless openConnection() took the flag back    *)
(* ("lost"), the thread loops over a parameter of a jump or reads from a   *)
(* forgotten connection, or the program went down.                         *)
StopHeard ==
    <>[](wakes /\ stop = "asked" =>
            \/ \A t \in CTP : pc[t] \in {"none", "ended", "refused", "another", "spins"}
            \/ Forgotten \/ crashed # "no")

(* CTPThread::run(): "In case of socket/Server errors, the whole CTP       *)
(* connection is pulled down and restored again in a while": the thread    *)
(* ends, taking the program with it or not, for a stop, a refusal or       *)
(* another instance only.                                                  *)
EndsForCause ==
    starts = 1 /\ stop = "none" => pc[<<"ctp", 1>>] # "ended"
=============================================================================
