------------------------------- MODULE MediaLuid -------------------------------
(***************************************************************************)
(* The LUIDs of a MediaSyncSource: each file is known to the server by a   *)
(* number, taken from nextLUID and kept in the LUID map, in                *)
(* cpp/common/client/MediaSyncSource.cpp over CacheSyncSource.cpp and      *)
(* PropertyFile.cpp.                                                       *)
(*                                                                         *)
(* Kept: three stores on disk (the cache, the LUID map, the next LUID),    *)
(* the order in which they are written, a crash between any two writes and *)
(* inside the close() of the cache and of the map, which truncates the     *)
(* file before it writes it and so loses what the journal does not have;   *)
(* the cache that belongs to one account, and sessions that end anywhere.  *)
(* Abstracted: a file is its last modification time; of the map's journal  *)
(* only which paths are in it, the map being what a restart reads; the     *)
(* next LUID is written at once, because it is alone in its store and in   *)
(* the journal when saveNextLUID() calls close(); the files open and the   *)
(* writes succeed; one status per answer.                                  *)
(***************************************************************************)
EXTENDS Integers

CONSTANTS
    Paths,       \* full paths of the media files
    NumAccounts, \* URL and username together
    Modes,       \* sync modes: "slow", "twoWay"
    MaxTime,     \* bound: changes of the files
    MaxLuid,     \* bound: LUIDs given out
    MaxTrouble   \* bound: crashes, sessions cut short, items refused
None == -1

Accounts == 0..NumAccounts-1
ASSUME NumAccountsAssumption == NumAccounts \in Nat \ {0}
ASSUME ModesAssumption == Modes \subseteq {"slow", "twoWay"}
ASSUME BoundsAssumption == MaxTime \in Nat /\ MaxLuid \in Nat /\ MaxTrouble \in Nat

(* The cache also holds the URL and the username, under keys of their own. *)
AccountKey == "_USERNAME_"
ASSUME AccountKeyAssumption == AccountKey \notin Paths
Keys == Paths \cup {AccountKey}
NotInJournal == -2

(* A file that is gone has a NULL signature, kept as such in memory; the   *)
(* store writes it as a text, which comes back as a value like any other.  *)
NoSignature == -3
NullText == -4

Written(v) == IF v = NoSignature THEN NullText ELSE v
Signature(f) == IF f = None THEN NoSignature ELSE f

VARIABLES
    files,    \* the modification time of each file, or None
    cache, node, journal,   \* the cache in memory, its file, its journal
    luidMap,  \* the LUID of each path, or None
    mapJournal, \* the paths whose last change is in the journal of the map
    nextLUID, \* in memory
    savedLUID,\* in the configuration, None when it is lost
    account,  \* the account the source is made for
    pc, after,
    mode,
    toSend,   \* the commands found by the scan, by path
    item      \* the item sent: [path, luid, cmd]

store == <<cache, node, journal>>
luids == <<luidMap, mapJournal>>

(* The server, and history. *)
VARIABLES
    known,    \* what the server has accepted: account, LUID and path
    given,    \* each LUID with its path
    forgotten,\* paths that may be in the cache or on the server, not in both
    lostConfig, time, trouble

history == <<known, given, forgotten, lostConfig, time, trouble>>
vars == <<files, store, luids, nextLUID, savedLUID, account, pc, after, mode,
          toSend, item, history>>

NoItem == [path |-> AccountKey, luid |-> None, cmd |-> "none"]
Empty == [k \in Keys |-> None]

Init ==
    /\ files \in [Paths -> {None, 0}]
    /\ cache = Empty /\ node = Empty /\ journal = [k \in Keys |-> NotInJournal]
    /\ luidMap = [p \in Paths |-> None] /\ mapJournal = {}
    /\ nextLUID = 0 /\ savedLUID = None
    /\ account = 0
    /\ pc = "down" /\ after = "idle" /\ mode \in Modes
    /\ toSend = [p \in Paths |-> "none"] /\ item = NoItem
    /\ known = {} /\ given = {} /\ forgotten = {}
    /\ lostConfig = FALSE /\ time = 0 /\ trouble = 0

-----------------------------------------------------------------------------
(* The constructor: the cache is read with its journal, and the next LUID  *)
(* is raised above those of the map.                                       *)
Reload(k) == IF journal[k] = NotInJournal THEN node[k] ELSE journal[k]

(* Mutant: the next LUID is the one saved. *)
VerifiedAsRead(n, m) == m = n

(* verifyNextLUIDValue(): n was read, and m is the next LUID. *)
Verified(n, m) ==
    /\ m = n \/ \E p \in Paths : luidMap[p] # None /\ m = luidMap[p] + 1
    /\ m >= n /\ \A p \in Paths : m > luidMap[p]

ReadLUID == IF savedLUID = None THEN 0 ELSE savedLUID

Construct ==
    /\ pc = "down"
    /\ cache' = [k \in Keys |-> Reload(k)]
    /\ \E m \in 0..MaxLuid :
          /\ Verified(ReadLUID, m)
          /\ nextLUID' = m
          /\ savedLUID' = IF m # ReadLUID THEN m ELSE savedLUID
    /\ pc' = "idle"
    /\ UNCHANGED <<files, node, journal, luids, account, after, mode, toSend, item,
                   history>>

-----------------------------------------------------------------------------
(* clearCache() is removeAllProperties(), which leaves the journal, then   *)
(* saveCache(), in three steps here: the special entries, close(), and the *)
(* refresh of the LUID map.                                                *)
KnownPaths == {k[3] : k \in known}

Clear ==
    /\ cache' = Empty /\ node' = Empty
    /\ UNCHANGED journal
    /\ forgotten' = forgotten \cup KnownPaths \cup {p \in Paths : cache[p] # None}

SetAccount ==
    /\ pc = "props"
    /\ cache' = [cache EXCEPT ![AccountKey] = account]
    /\ journal' = [journal EXCEPT ![AccountKey] = account]
    /\ pc' = "close"
    /\ UNCHANGED <<files, node, luids, nextLUID, savedLUID, account, after, mode,
                   toSend, item, history>>

(* FileSyncSource::saveCache(): PropertyFile::close() gets to its end ...  *)
CloseCache ==
    /\ pc = "close"
    /\ node' = [k \in Keys |-> Written(cache[k])]
    /\ journal' = [k \in Keys |-> NotInJournal]
    /\ pc' = "refresh"
    /\ UNCHANGED <<files, cache, luids, nextLUID, savedLUID, account, after,
                   mode, toSend, item, history>>

(* The program dies: memory is gone. *)
Dies ==
    /\ cache' = Empty /\ nextLUID' = 0
    /\ toSend' = [p \in Paths |-> "none"] /\ item' = NoItem
    /\ pc' = "down"
    /\ UNCHANGED <<files, journal, savedLUID, account, after, mode, known, given,
                   lostConfig, time>>

Troubled ==
    /\ trouble < MaxTrouble
    /\ trouble' = trouble + 1

(* ... or not: the file has some of the entries, or all of them, and the   *)
(* journal is still there.                                                 *)
CrashInClose ==
    /\ pc = "close" /\ Troubled /\ Dies
    /\ \E written \in SUBSET Keys :
          /\ node' = [k \in Keys |-> IF k \in written THEN Written(cache[k]) ELSE None]
          /\ forgotten' = forgotten \cup
                {p \in Paths \ written : journal[p] = NotInJournal /\ cache[p] # None}
    /\ UNCHANGED luids

(* refreshLUIDMap(): the LUIDs of paths with no value in the cache go, one *)
(* removeProperty() after the other.                                       *)
ToForget == {p \in Paths : luidMap[p] # None /\ cache[p] \in {None, NoSignature}}

RefreshLUIDMap ==
    /\ pc = "refresh"
    /\ \E p \in ToForget :
          /\ luidMap' = [luidMap EXCEPT ![p] = None]
          /\ mapJournal' = mapJournal \cup {p}
    /\ UNCHANGED <<files, store, nextLUID, savedLUID, account, pc, after, mode, toSend,
                   item, history>>

(* LUIDMap->close() gets to its end ... *)
SaveLUIDMap ==
    /\ pc = "refresh" /\ ToForget = {}
    /\ mapJournal' = {}
    /\ pc' = after
    /\ UNCHANGED <<files, store, luidMap, nextLUID, savedLUID, account, after, mode,
                   toSend, item, history>>

(* ... or not: the map has what was written and what is in the journal.    *)
CrashInMapClose ==
    /\ pc = "refresh" /\ ToForget = {} /\ Troubled /\ Dies
    /\ \E written \in SUBSET Paths :
          /\ luidMap' = [p \in Paths |-> IF p \in written \cup mapJournal
                                         THEN luidMap[p] ELSE None]
          /\ forgotten' = forgotten \cup
                {p \in Paths \ (written \cup mapJournal) : luidMap[p] # None}
    /\ UNCHANGED <<node, mapJournal>>

-----------------------------------------------------------------------------
(* Mutant: the account is not looked at. *)
CacheValidAlways == TRUE

(* checkCacheValidity(). *)
CacheValid == cache[AccountKey] = account

(* The second saveCache() of a cache just cleared changes nothing.         *)
BeginSync ==
    /\ pc = "idle"
    /\ mode' \in Modes
    /\ IF CacheValid THEN UNCHANGED <<store, forgotten>> ELSE Clear
    /\ pc' = "props" /\ after' = "begun"
    /\ UNCHANGED <<files, luids, nextLUID, savedLUID, account, toSend, item, known,
                   given, lostConfig, time, trouble>>

(* getFirstItem(): clearCache(), then all files. *)
ScanAll ==
    /\ pc = "begun" /\ mode = "slow"
    /\ Clear
    /\ toSend' = [p \in Paths |-> IF files[p] = None THEN "none" ELSE "Replace"]
    /\ pc' = "props" /\ after' = "sending"
    /\ UNCHANGED <<files, luids, nextLUID, savedLUID, account, mode, item, known, given,
                   lostConfig, time, trouble>>

(* fillItemModifications(): the signature is the modification time.        *)
ScanChanges ==
    /\ pc = "begun" /\ mode = "twoWay"
    /\ toSend' = [p \in Paths |->
                    CASE files[p] # None /\ cache[p] = None -> "Add"
                      [] files[p] # None /\ cache[p] \notin {None, files[p]} -> "Replace"
                      [] files[p] = None /\ cache[p] # None -> "Delete"
                      [] OTHER -> "none"]
    /\ pc' = "sending"
    /\ UNCHANGED <<files, store, luids, nextLUID, savedLUID, account, after, mode, item,
                   history>>

-----------------------------------------------------------------------------
(* fillSyncItem() with getLUIDFromPath(): the LUID of the map, or the next *)
(* one, which goes into the map and then into the configuration.           *)
Sent(p, l) ==
    /\ item' = [path |-> p, luid |-> l, cmd |-> toSend[p]]
    /\ toSend' = [toSend EXCEPT ![p] = "none"]

(* Mutant: an update is sent as a new file. *)
NeverLUIDFromPath(p) == None

LUIDFromPath(p) == luidMap[p]

SendKnown(p) ==
    /\ pc = "sending" /\ toSend[p] # "none" /\ LUIDFromPath(p) # None
    /\ Sent(p, luidMap[p])
    /\ pc' = "sent"
    /\ UNCHANGED <<files, store, luids, nextLUID, savedLUID, account, after, mode, history>>

(* Mutant: the map is written with the next save only. *)
MapUnchanged(p) == luidMap

MapWithNext(p) == [luidMap EXCEPT ![p] = nextLUID]

SendNew(p) ==
    /\ pc = "sending" /\ toSend[p] # "none" /\ LUIDFromPath(p) = None
    /\ nextLUID < MaxLuid
    /\ Sent(p, nextLUID)
    /\ luidMap' = MapWithNext(p) /\ mapJournal' = mapJournal \cup {p}
    /\ given' = given \cup {<<nextLUID, p>>}
    /\ pc' = "allocated"
    /\ UNCHANGED <<files, store, nextLUID, savedLUID, account, after, mode, known,
                   forgotten, lostConfig, time, trouble>>

SaveNextLUID ==
    /\ pc = "allocated"
    /\ nextLUID' = nextLUID + 1 /\ savedLUID' = nextLUID + 1
    /\ pc' = "sent"
    /\ UNCHANGED <<files, store, luids, account, after, mode, toSend, item, history>>

(* The server accepts the item; it does not know a deletion's file then.   *)
ServerAccepts ==
    /\ pc = "sent"
    /\ known' = IF item.cmd = "Delete"
                   THEN {k \in known : k[1] # account \/ k[2] # item.luid}
                   ELSE known \cup {<<account, item.luid, item.path>>}
    /\ forgotten' = forgotten \cup {item.path}
    /\ pc' = "status"
    /\ UNCHANGED <<files, store, luids, nextLUID, savedLUID, account, after, mode, toSend,
                   item, given, lostConfig, time, trouble>>

ServerRefuses ==
    /\ pc = "sent" /\ trouble < MaxTrouble
    /\ trouble' = trouble + 1
    /\ item' = NoItem /\ pc' = "sending"
    /\ UNCHANGED <<files, store, luids, nextLUID, savedLUID, account, after, mode, toSend,
                   known, given, forgotten, lostConfig, time>>

(* getPathFromLUID(). *)
PathsFromLUID(l) == {p \in Paths : luidMap[p] = l}

(* Is the LUID the only one the server has for the path?                  *)
OnlyOnServer(l, p) == \A k \in known : k[1] = account /\ k[3] = p => k[2] = l

(* setItemStatus() of a success: the cache has the entry under its path.   *)
Status(p) ==
    LET v == IF item.cmd = "Delete" THEN None ELSE Signature(files[p])
    IN  /\ cache' = [cache EXCEPT ![p] = v]
        /\ journal' = [journal EXCEPT ![p] = Written(v)]
        /\ forgotten' = IF v # NoSignature /\ OnlyOnServer(item.luid, p)
                           THEN forgotten \ {p} ELSE forgotten
        /\ UNCHANGED node

SetItemStatus ==
    /\ pc = "status"
    /\ \/ \E p \in PathsFromLUID(item.luid) : Status(p)
       \/ PathsFromLUID(item.luid) = {} /\ UNCHANGED <<store, forgotten>>
    /\ item' = NoItem /\ pc' = "sending"
    /\ UNCHANGED <<files, luids, nextLUID, savedLUID, account, after, mode, toSend, known,
                   given, lostConfig, time, trouble>>

(* endSync(): saveCache().  The session is over, or was cut short with the *)
(* status of an item on its way.                                           *)
AllSent == pc = "sending" /\ \A p \in Paths : toSend[p] = "none"

EndSync ==
    /\ pc \in {"begun", "sending", "sent", "status"}
    /\ AllSent \/ trouble < MaxTrouble
    /\ trouble' = IF AllSent THEN trouble ELSE trouble + 1
    /\ toSend' = [p \in Paths |-> "none"] /\ item' = NoItem
    /\ pc' = "props" /\ after' = "idle"
    /\ UNCHANGED <<files, store, luids, nextLUID, savedLUID, account, mode, known, given,
                   forgotten, lostConfig, time>>

-----------------------------------------------------------------------------
(* The program ends or dies: the files stay. *)
Crash ==
    /\ pc \notin {"down", "close"} /\ (pc = "refresh" => ToForget # {})
    /\ \/ pc = "idle" /\ UNCHANGED trouble
       \/ pc # "idle" /\ Troubled
    /\ Dies
    /\ UNCHANGED <<node, luids, forgotten>>

(* Another URL or username, for the next time. *)
ChangeAccount ==
    /\ pc = "down"
    /\ \E a \in Accounts \ {account} : account' = a
    /\ UNCHANGED <<files, store, luids, nextLUID, savedLUID, pc, after, mode, toSend, item,
                   history>>

(* The configuration is gone, for instance with a new installation. *)
LoseConfig ==
    /\ pc = "down" /\ savedLUID # None /\ ~lostConfig
    /\ savedLUID' = None /\ lostConfig' = TRUE
    /\ UNCHANGED <<files, store, luids, nextLUID, account, pc, after, mode, toSend, item,
                   known, given, forgotten, time, trouble>>

(* The user adds, changes or removes a file. *)
UserEdits ==
    /\ time < MaxTime
    /\ time' = time + 1
    /\ \E p \in Paths, f \in {None, time + 1} :
          files[p] # f /\ files' = [files EXCEPT ![p] = f]
    /\ UNCHANGED <<store, luids, nextLUID, savedLUID, account, pc, after, mode, toSend,
                   item, known, given, forgotten, lostConfig, trouble>>

Next ==
    \/ Construct \/ SetAccount \/ CloseCache \/ RefreshLUIDMap \/ SaveLUIDMap
    \/ BeginSync \/ ScanAll \/ ScanChanges
    \/ \E p \in Paths : SendKnown(p) \/ SendNew(p)
    \/ SaveNextLUID \/ ServerAccepts \/ ServerRefuses \/ SetItemStatus \/ EndSync
    \/ Crash \/ CrashInClose \/ CrashInMapClose \/ ChangeAccount \/ LoseConfig \/ UserEdits

Spec == Init /\ [][Next]_vars

-----------------------------------------------------------------------------
Times == 0..MaxTime
Luids == 0..MaxLuid
Commands == {"Add", "Replace", "Delete"}

TypeOK ==
    /\ files \in [Paths -> Times \cup {None}]
    /\ \A p \in Paths : cache[p] \in Times \cup {None, NoSignature, NullText}
    /\ \A p \in Paths : node[p] \in Times \cup {None, NullText}
    /\ \A p \in Paths : journal[p] \in Times \cup {None, NullText, NotInJournal}
    /\ cache[AccountKey] \in Accounts \cup {None} /\ DOMAIN cache = Keys
    /\ luidMap \in [Paths -> Luids \cup {None}] /\ mapJournal \subseteq Paths
    /\ nextLUID \in Luids /\ savedLUID \in Luids \cup {None}
    /\ account \in Accounts /\ mode \in Modes
    /\ toSend \in [Paths -> Commands \cup {"none"}]
    /\ item \in [path : Keys, luid : Luids \cup {None}, cmd : Commands \cup {"none"}]
    /\ known \subseteq Accounts \X Luids \X Paths /\ given \subseteq Luids \X Paths
    /\ forgotten \subseteq Paths

(* No LUID denotes two files: not in the map, whatever crash or loss of    *)
(* the configuration came between the two files a LUID is written to, and  *)
(* not over time as long as the configuration is there.                    *)
LuidsUnique ==
    /\ \A p, q \in Paths : luidMap[p] = luidMap[q] /\ luidMap[p] # None => p = q
    /\ ~lostConfig => \A g, h \in given : g[1] = h[1] => g[2] = h[2]

(* The path of the item a status is about is in the map: the case the code *)
(* calls "not found... should not happen!" does not happen.                *)
PathFound == pc = "status" => PathsFromLUID(item.luid) = {item.path}

(* What a fast sync does not send the server has, under the account of     *)
(* this session and the LUID of the map, unless a cache was cleared, a     *)
(* status did not arrive, the file was gone when it did, or a crash inside *)
(* the close() of the cache or of the map lost the file's entry.           *)
NotSentIsKnown ==
    \A p \in Paths \ forgotten :
        pc = "sending" /\ mode = "twoWay" /\ toSend[p] = "none" /\ cache[p] # None
            => <<account, luidMap[p], p>> \in known

(* A second LUID for a file the server has already comes from nothing else *)
(* than a cleared cache, a status that did not arrive, a file that was     *)
(* gone when it did, or a crash inside the close() of the cache or of the  *)
(* map that lost the file's entry.                                         *)
NewLuidForCause ==
    pc = "allocated" => OnlyOnServer(item.luid, item.path) \/ item.path \in forgotten
=============================================================================
