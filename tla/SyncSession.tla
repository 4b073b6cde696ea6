----------------------------- MODULE SyncSession -----------------------------
(***************************************************************************)
(* One client's synchronization sessions: SyncClient::sync() drives        *)
(* SyncManager::sync() (client modifications source by source, then the    *)
(* server's) and SyncManager::endSync() (mappings, anchors), in            *)
(* cpp/common/client/SyncClient.cpp and cpp/common/spds/SyncManager.cpp.   *)
(*                                                                         *)
(* Kept: every message exchange and what the code does with each kind of   *)
(* answer, the order of the tests of the abort flag, which sources are     *)
(* active, the final tag, the LUID/GUID mappings of each source and when   *)
(* they leave the mapping store, the item left over between two messages,  *)
(* the anchors.  Abstracted: what the items hold and how many fit in a     *)
(* message (a source finishes after any number of messages up to           *)
(* MaxMessages), and prepareSync(), whose outcome is any assignment of     *)
(* sync modes and any nonempty set of active sources.  The mapping store   *)
(* is the journalled PropertyFile: a reset clears it, what its journal     *)
(* still holds comes back when the next session opens it, and a crash while*)
(* it is closed takes what is not in the journal.                          *)
(***************************************************************************)
EXTENDS Naturals, FiniteSets

CONSTANTS
    NumSources,   \* sources, in the order they are synchronized
    Maps,         \* names for the LUID/GUID pairs the server's new items make
    Modes,        \* the sync modes the server may ask for
    Fallible,     \* sources that set SOURCE_ERROR on themselves for a bad item
    MaxMessages,  \* bound: messages of client modifications for one source
    MaxSessions   \* bound: sessions

AllModes == {"twoWay", "slow", "refreshFromClient", "oneWayFromClient",
             "oneWayFromServer", "refreshFromServer"}

ASSUME NumSourcesAssumption == NumSources \in Nat \ {0}
ASSUME ModesAssumption == Modes \subseteq AllModes
ASSUME MaxMessagesAssumption == MaxMessages \in Nat \ {0}
ASSUME MaxSessionsAssumption == MaxSessions \in Nat \ {0}

Sources == 1..NumSources
NoSource == 0
Mappings == Sources \X Maps

(* The modes that send the stored mappings again (sync()); the modes with  *)
(* nothing to send; the modes that expect nothing from the server.         *)
KeepsMappings == {"twoWay", "oneWayFromServer"}
SendsNothing == {"oneWayFromServer", "refreshFromServer"}
ClientOnly == {"refreshFromClient", "oneWayFromClient"}
SendsAll == {"slow", "refreshFromClient"}

VARIABLES
    pc,        \* where the session is
    phase,     \* which message: "mods", "alert", "status" or "end"
    mode,      \* sync mode of each source
    active,    \* sources whose report is not in SOURCE_ERROR
    count, iterator, toSync, last,
    good,      \* isAtLeastOneSourceCorrect
    fromServerFinal, \* isFinalfromServer
    ret,       \* the local ret: 0, or 1 for any error
    lastError, \* an error code was set since resetError()
    abort,     \* config.isToAbort()
    pending,   \* the source syncItem was read from, NoSource for NULL
    rounds,    \* messages of client modifications of this source so far
    store,     \* mappings in each source's MappingsManager
    jour,      \* of which also in the journal of its PropertyFile
    cmds,      \* Map items waiting in `commands`
    statuses,  \* `commands` holds something besides Map items
    msg,       \* the message built: its Map items and its final tag
    reply      \* what sendMessage() returned

control == <<pc, phase, mode, active, count, iterator, toSync, last, good,
             fromServerFinal, ret, lastError, pending, rounds>>
mappings == <<store, jour>>
outgoing == <<cmds, statuses, msg, reply>>

(* History: what reached the server and what the session did. *)
VARIABLES
    answered,  \* mappings sent in a message some answer came to
    accepted,  \* mappings sent in a message answered with a good header status
    dropped,   \* mappings removed because the mode does not keep them
    finals,    \* messages of client modifications sent with the final tag
    completed, \* sources all of whose modifications were sent and answered
    trouble,   \* some answer was missing, unreadable or an error
    committed, \* sources whose next anchor was committed
    endFailed, \* sources whose endSync() failed
    silent,    \* sources that put themselves in error
    skipped,   \* of which before the loop over the sources came to them
    sessions

history == <<answered, accepted, dropped, finals, completed, trouble,
             committed, endFailed, silent, skipped, sessions>>
vars == <<control, abort, mappings, outgoing, history>>

Over == {"done", "crashed", "assertFailed"}
NoMsg == [maps |-> {}, final |-> FALSE]
NoReply == [kind |-> "none", final |-> FALSE, itemError |-> FALSE]
StoreOf(s) == {s} \X store[s]
Stored == {p \in Mappings : p[2] \in store[p[1]]}

-----------------------------------------------------------------------------
Begin(m, act) ==
    /\ pc' = "source" /\ phase' = "mods"
    /\ mode' = m /\ active' = act
    /\ count' = 1 /\ iterator' = 0 /\ toSync' = Cardinality(act)
    /\ last' = FALSE /\ good' = FALSE /\ fromServerFinal' = FALSE
    /\ ret' = 0 /\ lastError' = (act # Sources)
    /\ abort' = FALSE
    /\ pending' = NoSource /\ rounds' = 0
    /\ cmds' = {} /\ statuses' = FALSE /\ msg' = NoMsg /\ reply' = NoReply
    /\ finals' = 0 /\ completed' = {} /\ trouble' = FALSE
    /\ committed' = {} /\ endFailed' = {} /\ silent' = {} /\ skipped' = {}

Init ==
    /\ pc = "source" /\ phase = "mods"
    /\ mode \in [Sources -> Modes]
    /\ active \in (SUBSET Sources) \ {{}}
    /\ count = 1 /\ iterator = 0 /\ toSync = Cardinality(active)
    /\ last = FALSE /\ good = FALSE /\ fromServerFinal = FALSE
    /\ ret = 0 /\ lastError = (active # Sources)
    /\ abort = FALSE
    /\ pending = NoSource /\ rounds = 0
    /\ store = [s \in Sources |-> {}] /\ jour = store
    /\ cmds = {} /\ statuses = FALSE /\ msg = NoMsg /\ reply = NoReply
    /\ answered = {} /\ accepted = {} /\ dropped = {}
    /\ finals = 0 /\ completed = {} /\ trouble = FALSE
    /\ committed = {} /\ endFailed = {} /\ silent = {} /\ skipped = {}
    /\ sessions = 1

(* A new SyncClient::sync() after the last one is over: prepareSync() went *)
(* well and its MappingsManagers found the node files and the journals.    *)
NewSession ==
    /\ pc \in Over
    /\ sessions < MaxSessions
    /\ sessions' = sessions + 1
    /\ \E m \in [Sources -> Modes], act \in (SUBSET Sources) \ {{}} : Begin(m, act)
    /\ store' = [s \in Sources |-> store[s] \cup jour[s]]
    /\ UNCHANGED <<jour, answered, accepted, dropped>>

(* The user interface calls setToAbort() while the session runs. *)
UserAborts ==
    /\ pc \notin Over
    /\ ~abort
    /\ abort' = TRUE
    /\ UNCHANGED <<control, mappings, outgoing, history>>

(* The process dies; the node files and the journals stay. *)
Crash ==
    /\ pc \notin Over
    /\ pc' = "crashed" /\ ret' = 1
    /\ UNCHANGED <<phase, mode, active, count, iterator, toSync, last, good,
                   fromServerFinal, lastError, pending, rounds, abort, mappings,
                   outgoing, history>>

(* The process dies inside closeMappings(): PropertyFile::close() empties  *)
(* the node file of source s and writes it again, and the journal, with    *)
(* what the items at hand have added, stays.                               *)
CrashInClose ==
    /\ pc \in {"changes", "endSync"}
    /\ pc' = "crashed" /\ ret' = 1
    /\ \E s \in Sources, written \in SUBSET Maps, new \in SUBSET Mappings :
          /\ IF pc = "changes"
             THEN /\ \A p \in new : p[1] \in active
                  /\ Cardinality(new) <= 1
                  /\ new \cap (Stored \cup answered \cup dropped) = {}
             ELSE s \in active /\ new = {}
          /\ store' = [t \in Sources |-> {m \in store[t] : t = s => m \in written \cup jour[s]}
                                          \cup {m \in Maps : <<t, m>> \in new}]
          /\ jour' = [t \in Sources |-> jour[t] \cup {m \in Maps : <<t, m>> \in new}]
    /\ UNCHANGED <<phase, mode, active, count, iterator, toSync, last, good,
                   fromServerFinal, lastError, pending, rounds, abort, outgoing,
                   history>>

(* Mutant: the flag is not looked at while the server sends its items.     *)
ToAbortOutsideServerItems == abort /\ phase # "status"

(* config.isToAbort(). *)
ToAbort == abort

(* goto finally, with an error in ret. *)
Fails ==
    /\ ret' = 1 /\ lastError' = TRUE
    /\ pc' = "finally"

-----------------------------------------------------------------------------
(* sync(): the loop over the sources.                                      *)

MoreSources == count <= NumSources

(* Mutant: `last` still says what it said for the source before. *)
LastOfNewSourceKept == last

LastOfNewSource == FALSE

(* Mutant: only the source's own report is told. *)
SourceErrorQuiet(s) == active' = active \ {s} /\ UNCHANGED lastError

(* setSourceStateAndError(), and the error of the session. *)
SourceError(s) == active' = active \ {s} /\ lastError' = TRUE

SkipSource ==
    /\ pc = "source" /\ MoreSources
    /\ count \notin active
    /\ count' = count + 1
    /\ UNCHANGED <<pc, phase, mode, active, iterator, toSync, last, good,
                   fromServerFinal, ret, lastError, pending, rounds, abort,
                   mappings, outgoing, history>>

(* beginSync() fails: the source is in error and the next one is tried. *)
BeginSyncFails ==
    /\ pc = "source" /\ count \in active
    /\ iterator' = iterator + 1 /\ last' = LastOfNewSource
    /\ SourceError(count) /\ ret' = 1
    /\ count' = count + 1
    /\ UNCHANGED <<pc, phase, mode, toSync, good, fromServerFinal, pending,
                   rounds, abort, mappings, outgoing, history>>

BeginSync ==
    /\ pc = "source" /\ count \in active
    /\ iterator' = iterator + 1 /\ last' = LastOfNewSource
    /\ good' = TRUE
    /\ rounds' = 0
    /\ pc' = "build"
    /\ UNCHANGED <<phase, mode, active, count, toSync, fromServerFinal, ret,
                   lastError, pending, abort, mappings, outgoing, history>>

(* Top of the message loop, TWO_WAY step 0: assert(syncItem == NULL). *)
AssertionFails ==
    /\ pc = "build" /\ rounds = 0
    /\ mode[count] \notin SendsAll \cup SendsNothing
    /\ pending # NoSource
    /\ pc' = "assertFailed"
    /\ UNCHANGED <<phase, mode, active, count, iterator, toSync, last, good,
                   fromServerFinal, ret, lastError, pending, rounds, abort,
                   mappings, outgoing, history>>

(* What the loop puts in the message before the items: the mappings left   *)
(* from before for the modes that keep them; the others forget them.       *)
StoredMappingsFirst ==
    IF mode[count] \in KeepsMappings
    THEN /\ msg' = [maps |-> cmds \cup StoreOf(count),
                    final |-> iterator = toSync /\ last']
         /\ UNCHANGED <<store, dropped>>
    ELSE /\ msg' = [maps |-> cmds, final |-> iterator = toSync /\ last']
         /\ store' = [store EXCEPT ![count] = {}]
         /\ dropped' = dropped \cup StoreOf(count)

(* One message of client modifications.  A source that has anything to     *)
(* send is through (last) or not; an item that did not fit, or only in     *)
(* part, stays in syncItem.  With an item of another source left there, a  *)
(* slow sync does not call getFirstItem() and sends that one.              *)
BuildModifications ==
    /\ pc = "build"
    /\ rounds = 0 /\ pending # NoSource => mode[count] \in SendsAll \cup SendsNothing
    /\ rounds < MaxMessages
    /\ rounds' = rounds + 1
    /\ \/ /\ mode[count] \in SendsNothing
          /\ last' = TRUE
          /\ UNCHANGED pending
       \/ /\ mode[count] \notin SendsNothing
          /\ \/ last' = TRUE /\ pending' = NoSource
             \/ last' = FALSE /\ rounds' < MaxMessages /\ pending' \in {NoSource, count, pending}
    /\ StoredMappingsFirst
    /\ cmds' = {} /\ statuses' = FALSE
    /\ phase' = "mods" /\ pc' = "send"
    /\ UNCHANGED <<mode, active, count, iterator, toSync, good, fromServerFinal,
                   ret, lastError, abort, jour, reply, answered, accepted, finals,
                   completed, trouble, committed, endFailed, silent, skipped,
                   sessions>>

(* The abort flag is looked at before each item ... *)
AbortWhileBuilding ==
    /\ pc = "build" /\ ToAbort
    /\ mode[count] \notin SendsNothing
    /\ UNCHANGED last /\ StoredMappingsFirst
    /\ Fails
    /\ UNCHANGED <<phase, mode, active, count, iterator, toSync, good,
                   fromServerFinal, pending, rounds, abort, jour, cmds, statuses,
                   reply, answered, accepted, finals, completed, trouble,
                   committed, endFailed, silent, skipped, sessions>>

(* ... and before every message but none after the last. *)
AbortBeforeSend ==
    /\ pc = "send" /\ ToAbort
    /\ IF phase = "end" THEN pc' = "done" /\ ret' = 1 /\ lastError' = TRUE ELSE Fails
    /\ UNCHANGED <<phase, mode, active, count, iterator, toSync, last, good,
                   fromServerFinal, pending, rounds, abort, mappings, outgoing,
                   history>>

(***************************************************************************)
(* sendMessage(): the message may be lost on its way, or its answer; an    *)
(* answer may be unreadable, carry an error status for the header, or be   *)
(* good.  A good one says whether it is the server's last message of the   *)
(* package, and for client modifications whether a Sync status is an       *)
(* error.  The server ends its package only after the client ended its own.*)
(***************************************************************************)
Exchange ==
    /\ pc = "send" /\ ~ToAbort
    /\ LET sentFinals == IF phase \in {"mods", "alert"} /\ msg.final
                         THEN finals + 1 ELSE finals
       IN  /\ finals' = sentFinals
           /\ \/ /\ reply' \in [kind : {"none", "garbled", "headerError"},
                                final : {FALSE}, itemError : {FALSE}]
                 /\ trouble' = TRUE
              \/ /\ reply' \in [kind : {"ok"}, final : BOOLEAN, itemError : BOOLEAN]
                 /\ reply'.final => sentFinals > 0
                 /\ reply'.itemError => phase = "mods"
                 /\ reply'.final => phase # "end"
                 /\ UNCHANGED trouble
    /\ answered' = IF reply'.kind = "none" THEN answered ELSE answered \cup msg.maps
    /\ accepted' = IF reply'.kind = "ok" THEN accepted \cup msg.maps ELSE accepted
    /\ pc' = "replied"
    /\ UNCHANGED <<phase, mode, active, count, iterator, toSync, last, good,
                   fromServerFinal, ret, lastError, pending, rounds, abort,
                   mappings, cmds, statuses, msg, dropped, completed,
                   committed, endFailed, silent, skipped, sessions>>

-----------------------------------------------------------------------------
(* What the answer does.  The reset of the mappings comes before anything  *)
(* of the answer is looked at.                                             *)
Reset(S) == store' = [s \in Sources |-> IF s \in S THEN {} ELSE store[s]]

(* The abort flag again, then no answer at all: nothing is reset.          *)
NoAnswer ==
    /\ pc = "replied"
    /\ \/ reply.kind = "none"
       \/ ToAbort /\ phase # "end"
    /\ IF phase = "end" THEN pc' = "done" /\ ret' = 1 /\ lastError' = TRUE ELSE Fails
    /\ UNCHANGED <<phase, mode, active, count, iterator, toSync, last, good,
                   fromServerFinal, pending, rounds, abort, mappings, outgoing,
                   history>>

(* Mutants: every answer resets every source; the last one resets none. *)
ResetByEveryAnswer == Sources
ResetByNotAtEnd == IF phase = "end" THEN {} ELSE Sources

(* The sources whose mappings an answer resets: the one being sent, none   *)
(* for the alert, all of them, or all those not in error.                  *)
ResetBy == CASE phase = "mods" -> {count}
             [] phase = "alert" -> {}
             [] phase = "status" -> Sources
             [] phase = "end" -> active

Answered ==
    /\ pc = "replied"
    /\ reply.kind # "none"
    /\ ToAbort => phase = "end"

(* Mutant: the header status is not tested. *)
HeaderReadable == reply.kind # "garbled"

(* processMsg() finds the SyncML, and no error in the header status. *)
HeaderGood == reply.kind = "ok"

(* Mutant: an earlier error stays in ret. *)
RetKept == UNCHANGED ret

(* The header status was good: ret is 0 whatever it was before. *)
RetCleared == ret' = 0

BadAnswer ==
    /\ Answered
    /\ ~HeaderGood
    /\ Reset(ResetBy)
    /\ IF phase = "end" THEN pc' = "done" /\ ret' = 1 /\ lastError' = TRUE ELSE Fails
    /\ UNCHANGED <<phase, mode, active, count, iterator, toSync, last, good,
                   fromServerFinal, pending, rounds, abort, jour, outgoing, history>>

(* processItemStatus() finds the Sync command refused: the source is in    *)
(* error and its loop left, whatever it still had in syncItem.             *)
SyncRefused ==
    /\ Answered /\ phase = "mods" /\ HeaderGood /\ reply.itemError
    /\ Reset({count})
    /\ fromServerFinal' = reply.final
    /\ RetCleared /\ SourceError(count)
    /\ count' = count + 1
    /\ pc' = "source"
    /\ UNCHANGED <<phase, mode, iterator, toSync, last, good, pending, rounds,
                   abort, jour, outgoing, history>>

ModificationsAnswered ==
    /\ Answered /\ phase = "mods" /\ HeaderGood /\ ~reply.itemError
    /\ Reset({count})
    /\ fromServerFinal' = reply.final
    /\ RetCleared
    /\ completed' = IF last THEN completed \cup {count} ELSE completed
    /\ pc' = "changes"
    /\ UNCHANGED <<phase, mode, active, count, iterator, toSync, last, good,
                   lastError, pending, rounds, abort, jour, outgoing, answered,
                   accepted, dropped, finals, trouble, committed,
                   endFailed, silent, skipped, sessions>>

(* ... and once more between the statuses and the server's items. *)
AbortAfterStatuses ==
    /\ pc = "changes" /\ phase = "mods" /\ ToAbort
    /\ Fails
    /\ UNCHANGED <<phase, mode, active, count, iterator, toSync, last, good,
                   fromServerFinal, pending, rounds, abort, mappings, outgoing,
                   history>>

(* Mutant: `last` is not read again from the answer. *)
ServerLastKept == last

(* syncml->getSyncBody()->getFinalMsg(). *)
ServerLast == reply.final

(* The answer to the alert or to a status message: `last` is now the       *)
(* server's final tag, and `commands` starts again with the header status. *)
ServerPackageAnswered ==
    /\ Answered /\ phase \in {"alert", "status"} /\ HeaderGood
    /\ Reset(ResetBy)
    /\ RetCleared
    /\ last' = ServerLast
    /\ cmds' = {} /\ statuses' = TRUE
    /\ pc' = "changes"
    /\ UNCHANGED <<phase, mode, active, count, iterator, toSync, good,
                   fromServerFinal, lastError, pending, rounds, abort, jour, msg,
                   reply, history>>

EndAnswered ==
    /\ Answered /\ phase = "end" /\ HeaderGood
    /\ Reset(ResetBy)
    /\ RetCleared
    /\ cmds' = {} /\ statuses' = FALSE
    /\ pc' = "endSources"
    /\ UNCHANGED <<phase, mode, active, count, iterator, toSync, last, good,
                   fromServerFinal, lastError, pending, rounds, abort, jour, msg,
                   reply, history>>

-----------------------------------------------------------------------------
(* checkForServerChanges() and what follows it.                            *)

(* The abort flag is set while the server's items are being processed:     *)
(* what was added so far is in the journals, and sync() leaves with ret    *)
(* still 0.                                                                *)
ServerChangesAborted ==
    /\ pc = "changes" /\ ToAbort
    /\ \E new \in SUBSET {p \in Mappings : p[1] \in active} :
          /\ Cardinality(new) <= 1
          /\ new \cap (Stored \cup answered \cup dropped) = {}
          /\ store' = [s \in Sources |-> store[s] \cup {m \in Maps : <<s, m>> \in new}]
          /\ jour' = [s \in Sources |-> jour[s] \cup {m \in Maps : <<s, m>> \in new}]
    /\ lastError' = TRUE
    /\ pc' = "finally"
    /\ UNCHANGED <<phase, mode, active, count, iterator, toSync, last, good,
                   fromServerFinal, ret, pending, rounds, abort, outgoing, history>>

(* The items are handed to their sources: an added one makes a mapping, a  *)
(* fallible source may put itself in error, in its report only.  Then      *)
(* every source's mappings go into `commands` and its store is closed.     *)
ServerChanges ==
    /\ pc = "changes"
    /\ \E new \in SUBSET {p \in Mappings : p[1] \in active}, bad \in SUBSET (active \cap Fallible) :
          /\ Cardinality(new) <= 1
          /\ new \cap (Stored \cup answered \cup dropped) = {}
          /\ store' = [s \in Sources |-> store[s] \cup {m \in Maps : <<s, m>> \in new}]
          /\ cmds' = cmds \cup Stored \cup new
          /\ active' = active \ bad
          /\ silent' = silent \cup bad
          /\ skipped' = IF phase = "mods" THEN skipped \cup {s \in bad : s > count}
                                          ELSE skipped
          /\ statuses' \in {statuses, TRUE}
          /\ new # {} \/ bad # {} => statuses'
    /\ jour' = [s \in Sources |-> {}]
    /\ IF phase = "mods"
       THEN /\ IF last THEN pc' = "source" /\ count' = count + 1
                       ELSE pc' = "build" /\ UNCHANGED count
            /\ UNCHANGED <<msg, phase>>
       ELSE /\ UNCHANGED count
            /\ IF last THEN pc' = "finally" /\ UNCHANGED <<msg, phase>>
                       ELSE /\ pc' = "send" /\ phase' = "status"
                            /\ msg' = [maps |-> cmds', final |-> FALSE]
    /\ UNCHANGED <<mode, iterator, toSync, last, good, fromServerFinal, ret,
                   lastError, pending, rounds, abort, reply, answered, accepted,
                   dropped, finals, completed, trouble, committed, endFailed,
                   sessions>>

(* Mutant: the message of the alert always closes the package. *)
SendFinalAlways == TRUE

SendFinalAfterClientMods == ~last

(* The loop over the sources is over.  With every source in error nothing  *)
(* more is sent, and ret is the error code of the session, which sources   *)
(* that failed by themselves did not set; otherwise the server is asked    *)
(* for its changes, with the final tag still owed if `last` says so.       *)
ModificationsDone ==
    /\ pc = "source" /\ ~MoreSources
    /\ IF active = {}
       THEN /\ pc' = "finally" /\ ret' = IF lastError THEN 1 ELSE 0
            /\ UNCHANGED <<phase, msg, statuses>>
       ELSE /\ UNCHANGED ret
            /\ IF ~fromServerFinal /\ good
               THEN /\ pc' = "send" /\ phase' = "alert"
                    /\ msg' = [maps |-> cmds, final |-> SendFinalAfterClientMods]
                    /\ statuses' = TRUE
               ELSE pc' = "finally" /\ UNCHANGED <<phase, msg, statuses>>
    /\ UNCHANGED <<mode, active, count, iterator, toSync, last, good,
                   fromServerFinal, lastError, pending, rounds, abort, mappings,
                   cmds, reply, history>>

(* finally: of sync(); SyncClient::sync() goes on to endSync() only on 0.  *)
Finally ==
    /\ pc = "finally"
    /\ IF ret = 0 /\ good THEN pc' = "endSync" /\ UNCHANGED ret
                          ELSE pc' = "done" /\ ret' = 1
    /\ UNCHANGED <<phase, mode, active, count, iterator, toSync, last, good,
                   fromServerFinal, lastError, pending, rounds, abort, mappings,
                   outgoing, history>>

-----------------------------------------------------------------------------
(* endSync().                                                              *)

(* A source needs the last message unless it expects nothing from the      *)
(* server and there is nothing to say.                                     *)
NeedsLastMessage ==
    {s \in active : \/ mode[s] \notin ClientOnly
                     \/ cmds # {} \/ statuses
                     \/ store[s] # {}}

LastMessage == [maps |-> cmds, final |-> TRUE]

(* The header status goes into `commands` with the first such source, so   *)
(* every active source after it is treated as one; their stores are closed.*)
EndSync ==
    /\ pc = "endSync"
    /\ jour' = [s \in Sources |->
                  IF s \in active /\ \E t \in NeedsLastMessage : t <= s THEN {} ELSE jour[s]]
    /\ IF NeedsLastMessage # {}
       THEN /\ pc' = "send" /\ phase' = "end"
            /\ msg' = LastMessage
       ELSE pc' = "endSources" /\ UNCHANGED <<phase, msg>>
    /\ UNCHANGED <<mode, active, count, iterator, toSync, last, good,
                   fromServerFinal, ret, lastError, pending, rounds, abort, store,
                   cmds, statuses, reply, history>>

(* Every source still active is asked to end; what it returns is noted,    *)
(* and the anchors of all of them are committed.                           *)
EndSources ==
    /\ pc = "endSources"
    /\ endFailed' \in SUBSET active
    /\ lastError' = (lastError \/ endFailed' # {})
    /\ committed' = active
    /\ pc' = "done"
    /\ ret' = IF lastError' THEN 1 ELSE 0
    /\ UNCHANGED <<phase, mode, active, count, iterator, toSync, last, good,
                   fromServerFinal, pending, rounds, abort, mappings, outgoing,
                   answered, accepted, dropped, finals, completed, trouble,
                   silent, skipped, sessions>>

(* A step of the thread that runs the session. *)
Step ==
    \/ SkipSource \/ BeginSyncFails \/ BeginSync \/ AssertionFails
    \/ BuildModifications \/ AbortWhileBuilding \/ AbortBeforeSend \/ Exchange
    \/ NoAnswer \/ BadAnswer \/ SyncRefused \/ ModificationsAnswered
    \/ AbortAfterStatuses \/ ServerPackageAnswered \/ EndAnswered
    \/ ServerChangesAborted \/ ServerChanges \/ ModificationsDone
    \/ Finally \/ EndSync \/ EndSources

Next == NewSession \/ UserAborts \/ Crash \/ CrashInClose \/ Step

Spec == Init /\ [][Next]_vars

(* The session has a thread of its own, and sendMessage() gives up after a *)
(* timeout: a step that can be taken is.  Nothing is asked of the server.  *)
FairSpec == Spec /\ WF_vars(Step)

-----------------------------------------------------------------------------
PCs == {"source", "build", "send", "replied", "changes", "finally", "endSync",
        "endSources"} \cup Over
Phases == {"mods", "alert", "status", "end"}
Replies == [kind : {"none", "garbled", "headerError", "ok"}, final : BOOLEAN,
            itemError : BOOLEAN]
Stores == [Sources -> SUBSET Maps]

PositionTypes ==
    /\ pc \in PCs /\ phase \in Phases
    /\ count \in 1..(NumSources + 1) /\ iterator \in 0..NumSources
    /\ ret \in {0, 1} /\ rounds \in 0..MaxMessages /\ sessions \in 1..MaxSessions

FlagTypes ==
    /\ mode \in [Sources -> Modes] /\ active \in SUBSET Sources
    /\ toSync \in Sources /\ pending \in Sources \cup {NoSource}
    /\ last \in BOOLEAN /\ good \in BOOLEAN /\ fromServerFinal \in BOOLEAN
    /\ lastError \in BOOLEAN /\ abort \in BOOLEAN /\ reply \in Replies

DataTypes ==
    /\ store \in Stores /\ jour \in Stores
    /\ cmds \in SUBSET Mappings /\ statuses \in BOOLEAN
    /\ msg \in [maps : SUBSET Mappings, final : BOOLEAN]
    /\ answered \in SUBSET Mappings /\ accepted \in SUBSET Mappings
    /\ dropped \in SUBSET Mappings
    /\ finals \in Nat /\ completed \in SUBSET Sources
    /\ trouble \in BOOLEAN
    /\ committed \in SUBSET Sources /\ endFailed \in SUBSET Sources
    /\ silent \in SUBSET Sources /\ skipped \in SUBSET silent

(* Types of the session's state and of what it exchanges. *)
TypeOK == PositionTypes /\ FlagTypes /\ DataTypes

(* A mapping leaves the store of a source only once a message that carried *)
(* it has been answered, or because the source syncs in a mode that does   *)
(* not keep mappings: what an answer resets was in the message it answers, *)
(* though the message was built from several sources' stores at an earlier *)
(* moment (the resets of sync() and endSync()).  The one exception is a    *)
(* crash inside closeMappings(), for a mapping the journal does not have.  *)
MappingsKept ==
    [][\A p \in Stored : p \notin Stored' =>
          \/ p \in answered' \cup dropped'
          \/ pc' = "crashed" /\ p[2] \notin jour[p[1]]]_vars

(* MappingsManager.h on addMapping(): "These are the values that will be   *)
(* used at the next sync if something goes wrong."  A mapping is gone only *)
(* when a message that carried it went right, or its mode drops it (or the *)
(* process dies, which nobody can promise anything about).                 *)
MappingsUsedAtNextSync ==
    [][\A p \in Stored : p \notin Stored' /\ pc' # "crashed" =>
          p \in accepted' \cup dropped']_vars

(* The client's package is never closed by two messages with the final     *)
(* tag, and once the server has been asked for its changes it has been     *)
(* closed by one, whichever source failed at its beginSync() or on a       *)
(* refused Sync command and whichever was the last (sync(): "In this case  *)
(* we MUST send the Final tag now").  The exception is what the code does: *)
(* a source that put itself in error before its turn was counted in toSync *)
(* and never in iterator, `last` is TRUE all the same, and no message      *)
(* carries the tag.                                                        *)
FinalSentOnce ==
    /\ finals <= 1
    /\ \/ phase = "status"
       \/ phase = "alert" /\ pc \in {"replied", "changes"}
       \/ pc \in {"endSync", "endSources"} /\ ~abort
       => finals = 1 \/ skipped # {} \/ active = {}

(* An anchor is committed only for a source none of whose mappings is      *)
(* still waiting to be sent.                                               *)
AnchorsMeanMapped ==
    \A s \in committed : store[s] = {}

(* Without an abort, the anchors committed are those of sources that sent  *)
(* all of their modifications in messages that were all answered well.     *)
AnchorsMeanComplete ==
    committed # {} /\ ~abort => committed \subseteq completed /\ ~trouble

(* A source that fails does not fail the others: when every message went   *)
(* well and nobody aborted, the session commits exactly the sources left;  *)
(* and the one thing that stops it before, the assertion at the top of the *)
(* message loop, is met only by a source behind one that was refused with  *)
(* an item left in syncItem (sync() says "skip the source" there).         *)
FailureIsolated ==
    /\ pc = "done" /\ ~trouble /\ ~abort => committed = active
    /\ pc = "assertFailed" => pending < count /\ pending \in Sources \ active

(* A result of 0 says that every message went well, that every source that *)
(* is asked to end did so, and that every source still stands but those    *)
(* that put themselves in error, which the error code of the session does  *)
(* not show: whatever failed in prepareSync(), at a beginSync() or on a    *)
(* refused Sync command is still in the result at the end.                 *)
SuccessMeansAll ==
    pc = "done" /\ ret = 0 => active \cup silent = Sources /\ endFailed = {} /\ ~trouble

(* SyncClient.h on sync(): "@return - 0 on success, an error otherwise".   *)
(* Success of a sync is that of its sources: none is in error at the end.  *)
ZeroOnSuccess ==
    pc = "done" /\ ret = 0 => active = Sources

(* setToAbort() ends the session, wherever it finds it and however long    *)
(* the server goes on answering (sync() and endSync(), the tests of        *)
(* config.isToAbort() before and after every message).                     *)
AbortEnds == abort ~> pc \in Over

(* A server that is always given the chance to end its package, and in the *)
(* end takes it, sees the session end, with or without an error: no count  *)
(* of failed sources, final tags or leftover items keeps it going.         *)
ServerEnds == SF_vars(Exchange /\ (reply'.final \/ reply'.kind # "ok"))
SessionEnds == ServerEnds => <>(pc \in Over)
=============================================================================
