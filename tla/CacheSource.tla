----------------------------- MODULE CacheSource -----------------------------
(***************************************************************************)
(* A CacheSyncSource over the files of one folder: how it finds what the   *)
(* user changed since the last session by comparing signatures with its    *)
(* cache, and when the cache is updated, in                                *)
(* cpp/common/client/CacheSyncSource.cpp and FileSyncSource.cpp.           *)
(*                                                                         *)
(* Kept: the scan, the order of the items sent, one step to read an item,  *)
(* one for the server's answer and one for its status, two steps to store  *)
(* an item of the server and to note it in the cache, two to save the      *)
(* cache, sessions that end anywhere, and the user who edits the files at  *)
(* any of these moments.                                                   *)
(* Abstracted: of the cache's PropertyFile, that a change is appended to   *)
(* the journal and survives, and that close() truncates the file it        *)
(* rewrites, so that a crash in it loses what the journal does not have;   *)
(* a scan and the reading of one file are atomic, the files open and the   *)
(* writes succeed, an answer carries one status.                           *)
(***************************************************************************)
EXTENDS Naturals

CONSTANTS
    Files,       \* file names
    Contents,    \* what a file can hold
    Nothing,     \* what is read of a file that is not there
    None,        \* no file, no entry in the cache
    Signature,   \* the signature of each content: the CRC
    Modes,       \* the sync modes of the sessions
    FileSource,  \* the keys and the removals are those of FileSyncSource
    MaxChanges,  \* bound: changes by the user and by other clients
    MaxFailures  \* bound: sessions cut short, items refused

AllModes == {"twoWay", "slow", "refreshFromClient", "oneWayFromClient",
             "oneWayFromServer", "refreshFromServer"}
Signatures == {Signature[c] : c \in Contents \cup {Nothing}}

ASSUME NoneAssumption == None \notin Contents \cup {Nothing} \cup Signatures
ASSUME NothingAssumption == Nothing \notin Contents
ASSUME SignatureAssumption == DOMAIN Signature = Contents \cup {Nothing}
ASSUME ModesAssumption == Modes \subseteq AllModes
ASSUME FileSourceAssumption == FileSource \in BOOLEAN
ASSUME MaxChangesAssumption == MaxChanges \in Nat
ASSUME MaxFailuresAssumption == MaxFailures \in Nat

(* sync(): which modes send what changed, or everything, and which receive.*)
SendsChanges == {"twoWay", "oneWayFromClient"}
SendsAll == {"slow", "refreshFromClient"}
Receives == {"twoWay", "slow", "oneWayFromServer", "refreshFromServer"}

(* The key of an item is the file's path or only its name; both name the   *)
(* same file (getCompleteName()).                                          *)
Keys == Files \X {"path", "name"}
File(k) == k[1]

(* getAllItemList() gives paths. *)
ListedKey(f) == <<f, "path">>

(* insertItem() of FileSyncSource leaves the name in the item; the other   *)
(* sources leave the key they list.                                        *)
AddedKey(f) == IF FileSource THEN <<f, "name">> ELSE ListedKey(f)

VARIABLES
    local,       \* the files, which the user changes
    cache,       \* the signature of each key at the last exchange
    journalled,  \* keys whose last change is in the journal of the cache
    pc,          \* what the source is doing
    mode,        \* of the session
    allKeys, newKeys, updatedKeys, deletedKeys,
    item,        \* the item being sent or stored
    status       \* the server's status for it, an error or not

lists == <<allKeys, newKeys, updatedKeys, deletedKeys>>

(* History. *)
VARIABLES
    shared,      \* what the server has been given, or has given, for each key
    unconfirmed, \* keys the cache does not know the server has changed
    lost,        \* keys whose entry was cleared, or lost by a crash
    raced,       \* keys whose signature was taken of a content not exchanged
    changes, failures

vars == <<local, cache, journalled, pc, mode, lists, item, status, shared,
          unconfirmed, lost, raced, changes, failures>>

NoItem == [key |-> None, cmd |-> "none", data |-> None]
Read(f) == IF local[f] = None THEN Nothing ELSE local[f]
Listed == {ListedKey(f) : f \in {g \in Files : local[g] # None}}

(* getItemSignature(). *)
ItemSignature(k) == Signature[Read(File(k))]

Init ==
    /\ local \in [Files -> Contents \cup {None}]
    /\ cache = [k \in Keys |-> None] /\ journalled = {}
    /\ pc = "idle" /\ mode \in Modes
    /\ allKeys = {} /\ newKeys = {} /\ updatedKeys = {} /\ deletedKeys = {}
    /\ item = NoItem /\ status = "none"
    /\ shared = [k \in Keys |-> None]
    /\ unconfirmed = {} /\ lost = {} /\ raced = {}
    /\ changes = 0 /\ failures = 0

-----------------------------------------------------------------------------
(* The user creates, changes or removes a file. *)
UserEdits ==
    /\ changes < MaxChanges
    /\ changes' = changes + 1
    /\ \E f \in Files, c \in Contents \cup {None} :
          local[f] # c /\ local' = [local EXCEPT ![f] = c]
    /\ UNCHANGED <<cache, journalled, pc, mode, lists, item, status, shared,
                   unconfirmed, lost, raced, failures>>

-----------------------------------------------------------------------------
(* A session begins.                                                       *)

(* Mutant: what is in the cache is not compared. *)
NoneUpdated == {}

(* The signature differs from that of the cache. *)
Updated == {k \in Listed : cache[k] # None /\ cache[k] # ItemSignature(k)}

(* beginSync(), then getFirstNewItem(): fillItemModifications(). *)
ScanChanges ==
    /\ pc = "idle"
    /\ mode' \in Modes \cap SendsChanges
    /\ newKeys' = {k \in Listed : cache[k] = None}
    /\ updatedKeys' = Updated
    /\ deletedKeys' = {k \in Keys : cache[k] # None} \ Listed
    /\ pc' = "sending"
    /\ UNCHANGED <<local, cache, journalled, allKeys, item, status, shared,
                   unconfirmed, lost, raced, changes, failures>>

(* The entries of all keys but these are gone.                             *)
OnlyKept(kept) ==
    /\ cache' = [k \in Keys |-> IF k \in kept THEN cache[k] ELSE None]
    /\ lost' = lost \cup {k \in Keys \ kept : cache[k] # None}

(* beginSync(), then getFirstItem(): clearCache() removes the entries and  *)
(* the file, saves an empty one and removes the journal; then everything   *)
(* is sent.                                                                *)
ScanAll ==
    /\ pc = "idle"
    /\ mode' \in Modes \cap SendsAll
    /\ OnlyKept({}) /\ journalled' = {}
    /\ allKeys' = Listed
    /\ pc' = "sending"
    /\ UNCHANGED <<local, newKeys, updatedKeys, deletedKeys, item, status,
                   shared, unconfirmed, raced, changes, failures>>

(* The process dies inside clearCache(), after the file was removed and    *)
(* before the journal was: what is in the journal is back.                 *)
ClearInterrupted ==
    /\ pc = "idle" /\ Modes \cap SendsAll # {}
    /\ failures < MaxFailures
    /\ failures' = failures + 1
    /\ OnlyKept(journalled)
    /\ UNCHANGED <<local, journalled, pc, mode, lists, item, status, shared,
                   unconfirmed, raced, changes>>

(* Nothing to send; a refresh from the server removes the files first      *)
(* (removeAllItems()), and the server maps what it sends anew.  The cache  *)
(* is left as it is, with the entries of files and items that are gone.    *)
ReceiveOnly ==
    /\ pc = "idle"
    /\ mode' \in Modes \ (SendsChanges \cup SendsAll)
    /\ IF mode' = "refreshFromServer"
       THEN /\ local' = [f \in Files |-> None]
            /\ shared' = [k \in Keys |-> None]
            /\ unconfirmed' = unconfirmed \cup {k \in Keys : cache[k] # None}
       ELSE UNCHANGED <<local, shared, unconfirmed>>
    /\ pc' = "receiving"
    /\ UNCHANGED <<cache, journalled, lists, item, status, lost, raced, changes,
                   failures>>

-----------------------------------------------------------------------------
(* The client's items, one by one: new, then updated, then deleted.        *)
Sends(cmd, k) ==
    /\ item' = [key |-> k, cmd |-> cmd,
                data |-> IF cmd = "Delete" THEN None ELSE Read(File(k))]
    /\ pc' = "sent"

SendNext ==
    /\ pc = "sending"
    /\ \/ \E k \in newKeys :
             /\ Sends("Add", k) /\ newKeys' = newKeys \ {k}
             /\ UNCHANGED <<allKeys, updatedKeys, deletedKeys>>
       \/ \E k \in updatedKeys :
             /\ newKeys = {}
             /\ Sends("Replace", k) /\ updatedKeys' = updatedKeys \ {k}
             /\ UNCHANGED <<allKeys, newKeys, deletedKeys>>
       \/ \E k \in deletedKeys :
             /\ newKeys = {} /\ updatedKeys = {}
             /\ Sends("Delete", k) /\ deletedKeys' = deletedKeys \ {k}
             /\ UNCHANGED <<allKeys, newKeys, updatedKeys>>
       \/ \E k \in allKeys :
             /\ Sends("Replace", k) /\ allKeys' = allKeys \ {k}
             /\ UNCHANGED <<newKeys, updatedKeys, deletedKeys>>
    /\ UNCHANGED <<local, cache, journalled, mode, status, shared, unconfirmed,
                   lost, raced, changes, failures>>

(* The server takes the item or refuses it, and its answer arrives.        *)
ServerAccepts ==
    /\ pc = "sent"
    /\ shared' = [shared EXCEPT ![item.key] = item.data]
    /\ unconfirmed' = unconfirmed \cup {item.key}
    /\ status' = "ok" /\ pc' = "answered"
    /\ UNCHANGED <<local, cache, journalled, mode, lists, item, lost, raced,
                   changes, failures>>

ServerRefuses ==
    /\ pc = "sent"
    /\ failures < MaxFailures
    /\ failures' = failures + 1
    /\ status' = "error" /\ pc' = "answered"
    /\ UNCHANGED <<local, cache, journalled, mode, lists, item, shared,
                   unconfirmed, lost, raced, changes>>

(* Mutant: isErrorCode() takes every code for a success. *)
EverythingSucceeds == TRUE

(* isErrorCode(). *)
Succeeded == status = "ok"

(* Mutant: only an added item gets an entry. *)
RecordedAddsOnly ==
    [cache EXCEPT ![item.key] = IF item.cmd # "Add" THEN None ELSE ItemSignature(item.key)]

(* updateInCache(): the signature of the file as it is now, or no entry. *)
Recorded ==
    [cache EXCEPT ![item.key] = IF item.cmd = "Delete" THEN None ELSE ItemSignature(item.key)]

(* The file is no longer what was sent or stored. *)
RacedAfter ==
    IF item.cmd # "Delete" /\ ItemSignature(item.key) # Signature[item.data]
    THEN raced \cup {item.key} ELSE raced \ {item.key}

(* setPropertyValue(), removeProperty(): in memory and in the journal. *)
Record ==
    /\ cache' = Recorded
    /\ journalled' = journalled \cup {item.key}
    /\ raced' = RacedAfter
    /\ unconfirmed' = unconfirmed \ {item.key}
    /\ lost' = lost \ {item.key}

(* setItemStatus(). *)
SetItemStatus ==
    /\ pc = "answered"
    /\ \/ Succeeded /\ Record
       \/ ~Succeeded /\ UNCHANGED <<cache, journalled, raced, unconfirmed, lost>>
    /\ item' = NoItem /\ status' = "none" /\ pc' = "sending"
    /\ UNCHANGED <<local, mode, lists, shared, changes, failures>>

AllSent ==
    /\ pc = "sending"
    /\ allKeys = {} /\ newKeys = {} /\ updatedKeys = {} /\ deletedKeys = {}
    /\ pc' = "receiving"
    /\ UNCHANGED <<local, cache, journalled, mode, lists, item, status, shared,
                   unconfirmed, lost, raced, changes, failures>>

-----------------------------------------------------------------------------
(* The server's items.                                                     *)

(* addFile(): the file under its name, or under the first name made from   *)
(* it that is free or holds the same already.                              *)
Fits(f, c) == local[f] = None \/ ItemSignature(ListedKey(f)) = Signature[c]

(* insertItem(). *)
InsertItem ==
    /\ pc = "receiving" /\ mode \in Receives
    /\ changes < MaxChanges
    /\ changes' = changes + 1
    /\ \E f, g \in Files, c \in Contents :
          /\ g = f \/ ~Fits(f, c)
          /\ Fits(g, c)
          /\ local' = [local EXCEPT ![g] = IF local[g] = None THEN c ELSE local[g]]
          /\ item' = [key |-> AddedKey(g), cmd |-> "Add", data |-> c]
    /\ pc' = "stored"
    /\ UNCHANGED <<cache, journalled, mode, lists, status, shared, unconfirmed,
                   lost, raced, failures>>

(* modifyItem(): the file is written, whether it is there or not. *)
ModifyItem ==
    /\ pc = "receiving" /\ mode \in Receives
    /\ changes < MaxChanges
    /\ changes' = changes + 1
    /\ \E k \in Keys, c \in Contents :
          /\ shared[k] # None
          /\ local' = [local EXCEPT ![File(k)] = c]
          /\ item' = [key |-> k, cmd |-> "Replace", data |-> c]
    /\ pc' = "stored"
    /\ UNCHANGED <<cache, journalled, mode, lists, status, shared, unconfirmed,
                   lost, raced, failures>>

(* removeItem(): FileSyncSource puts the folder before the key, which for  *)
(* a path names no file, and returns success all the same.                 *)
RemoveItem ==
    /\ pc = "receiving" /\ mode \in Receives
    /\ changes < MaxChanges
    /\ changes' = changes + 1
    /\ \E k \in Keys :
          /\ shared[k] # None
          /\ local' = IF FileSource /\ k = ListedKey(File(k)) THEN local
                      ELSE [local EXCEPT ![File(k)] = None]
          /\ item' = [key |-> k, cmd |-> "Delete", data |-> None]
    /\ pc' = "stored"
    /\ UNCHANGED <<cache, journalled, mode, lists, status, shared, unconfirmed,
                   lost, raced, failures>>

(* addItem(), updateItem(), deleteItem(), after the file: the cache. *)
NoteInCache ==
    /\ pc = "stored"
    /\ Record
    /\ shared' = [shared EXCEPT ![item.key] = item.data]
    /\ item' = NoItem /\ pc' = "receiving"
    /\ UNCHANGED <<local, mode, lists, status, changes, failures>>

-----------------------------------------------------------------------------
(* endSync(), saveCache(): PropertyFile::close() opens the file, which     *)
(* empties it ...                                                          *)
EndSync ==
    /\ pc = "receiving"
    /\ pc' = "saving"
    /\ UNCHANGED <<local, cache, journalled, mode, lists, item, status, shared,
                   unconfirmed, lost, raced, changes, failures>>

(* A session over: the lists are made again by the next one. *)
Over ==
    /\ pc' = "idle"
    /\ item' = NoItem /\ status' = "none"
    /\ allKeys' = {} /\ newKeys' = {} /\ updatedKeys' = {} /\ deletedKeys' = {}
    /\ UNCHANGED <<local, mode, raced, changes>>

(* ... writes every entry, and removes the journal. *)
CacheSaved ==
    /\ pc = "saving"
    /\ journalled' = {}
    /\ Over
    /\ UNCHANGED <<cache, shared, unconfirmed, lost, failures>>

(* A crash in between: some of the entries are in the file, and those of   *)
(* the journal are replayed.                                               *)
CrashInClose ==
    /\ pc = "saving"
    /\ failures < MaxFailures
    /\ failures' = failures + 1
    /\ \E written \in SUBSET Keys : OnlyKept(written \cup journalled)
    /\ Over
    /\ UNCHANGED <<journalled, shared, unconfirmed>>

(* A crash, an abort, an error at any other moment; the answer that was on *)
(* its way is lost, whether the server had taken the item or not.  The     *)
(* cache is not saved: the next session finds it in the journal.           *)
Interrupted ==
    /\ pc \notin {"idle", "saving"}
    /\ failures < MaxFailures
    /\ failures' = failures + 1
    /\ Over
    /\ \/ UNCHANGED <<shared, unconfirmed>>
       \/ /\ pc = "sent"
          /\ shared' = [shared EXCEPT ![item.key] = item.data]
          /\ unconfirmed' = unconfirmed \cup {item.key}
    /\ UNCHANGED <<cache, journalled, lost>>

Session ==
    \/ ScanChanges \/ ScanAll \/ ReceiveOnly \/ SendNext \/ ServerAccepts
    \/ SetItemStatus \/ AllSent \/ NoteInCache \/ EndSync \/ CacheSaved

Next ==
    \/ Session \/ UserEdits \/ ClearInterrupted \/ ServerRefuses
    \/ InsertItem \/ ModifyItem \/ RemoveItem \/ CrashInClose \/ Interrupted

Spec == Init /\ [][Next]_vars

(* A session goes on (SyncManager), and now and then the user asks for one *)
(* that sends the changes.                                                 *)
FairSpec == Spec /\ WF_vars(Session) /\ SF_vars(ScanChanges)

-----------------------------------------------------------------------------
Items == [key : Keys, cmd : {"Add", "Replace"}, data : Contents \cup {Nothing}]
             \cup [key : Keys, cmd : {"Delete"}, data : {None}]

(* Types of the source's state and of what it exchanges. *)
TypeOK ==
    /\ local \in [Files -> Contents \cup {None}]
    /\ cache \in [Keys -> Signatures \cup {None}] /\ journalled \in SUBSET Keys
    /\ pc \in {"idle", "sending", "sent", "answered", "receiving", "stored",
              "saving"}
    /\ mode \in Modes
    /\ allKeys \in SUBSET Keys /\ newKeys \in SUBSET Keys
    /\ updatedKeys \in SUBSET Keys /\ deletedKeys \in SUBSET Keys
    /\ item \in Items \cup {NoItem} /\ status \in {"none", "ok", "error"}
    /\ (item = NoItem) = (pc \notin {"sent", "answered", "stored"})
    /\ shared \in [Keys -> Contents \cup {Nothing, None}]
    /\ unconfirmed \in SUBSET Keys /\ lost \in SUBSET Keys /\ raced \in SUBSET Keys
    /\ changes \in 0..MaxChanges /\ failures \in 0..MaxFailures

(* The server has of a key what the client would send.                     *)
SameAsShared(k) ==
    shared[k] # None /\ Signature[shared[k]] = ItemSignature(k)

(* What a scan takes for unchanged is what the server has, whatever was    *)
(* refused, lost or edited on the way (fillItemModifications() rests on    *)
(* setItemStatus() and on addItem(), updateItem(), deleteItem()).  The two *)
(* exceptions: a change the server took and whose status was never         *)
(* processed, and a file edited before its signature was taken.            *)
UnchangedMeansShared ==
    \A k \in Listed :
        cache[k] = ItemSignature(k) => SameAsShared(k) \/ k \in raced \cup unconfirmed

(* A file the server has is in the cache, so that its removal is sent by   *)
(* the next scan; no refused, lost or repeated command and no deletion by  *)
(* either side leaves one behind.  The exceptions: a change the server     *)
(* took and whose status was never processed, and an entry cleared for a   *)
(* slow sync or lost by a crash inside PropertyFile::close(), until it is  *)
(* recorded again.                                                         *)
SharedIsCached ==
    \A k \in Keys :
        shared[k] # None /\ k \notin unconfirmed \cup lost => cache[k] # None

(* What a scan finds to send. *)
NothingToSend ==
    \A k \in Keys : IF k \in Listed THEN cache[k] = ItemSignature(k)
                                      ELSE cache[k] = None

(* The server has every file that is there, under its key, and nothing     *)
(* under any other key.  The exceptions: a file edited before its          *)
(* signature was taken, one changed back after a status was lost, and one  *)
(* removed after a status or its entry was lost.                           *)
InSync ==
    \A k \in Keys :
        \/ k \in unconfirmed
        \/ k \in Listed /\ (SameAsShared(k) \/ k \in raced)
        \/ k \notin Listed /\ (shared[k] = None \/ k \in lost)

(* Once nobody changes anything and sessions get through, no scan finds    *)
(* anything to send any more, and the sides agree, with the exceptions     *)
(* that InSync names.                                                      *)
Converges == <>[](pc = "idle" => NothingToSend /\ InSync)
=============================================================================
