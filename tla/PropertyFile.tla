---------------------------- MODULE PropertyFile ----------------------------
(***************************************************************************)
(* The journalled key/value store of the client API                        *)
(* (cpp/common/base/util/PropertyFile.cpp on top of                        *)
(* MemoryKeyValueStore.cpp).  The mappings of a sync source, the cache of  *)
(* a CacheSyncSource and the LUID map of a MediaSyncSource are such stores.*)
(*                                                                         *)
(* Every property lives in memory; a change is also appended to a journal  *)
(* file, and close() rewrites the node file from memory and deletes the    *)
(* journal.  The constructor loads the node file and replays the journal   *)
(* over it.  A method is several steps here, one for each effect a crash   *)
(* can separate from the next; any of the file operations may fail the way *)
(* the code tests for.  The escaping of keys and values is in              *)
(* PropertyEscape; here a key and a value are atoms.                       *)
(***************************************************************************)
EXTENDS Integers, Sequences

CONSTANTS
    Keys,        \* property names
    Values,      \* property values
    NoValue,     \* what readPropertyValue returns for a name not in the list
    Removed,     \* the REMOVED marker of the journal
    MaxJournal   \* bound: entries the journal grows to before only close() runs

ASSUME NoValueAssumption == NoValue \notin Values
ASSUME RemovedAssumption == Removed \notin Values \cup {NoValue}
ASSUME MaxJournalAssumption == MaxJournal \in Nat

VARIABLES
    mem,      \* the list `data`: what the running program sees of each key
    node,     \* the node file; a missing file reads as an empty one
    jour,     \* the journal file nodeJour, in the order it was appended
    pc,       \* the step the program is at: between two calls it is "idle"
    arg,      \* prop and value of the call under way
    pos,      \* journal entries read() has replayed
    todo,     \* keys close() has not written yet
    lastCall, \* the last call that returned: its name, its key, its result
    stale     \* history: keys whose change the disk was not given

vars == <<mem, node, jour, pc, arg, pos, todo, lastCall, stale>>
files == <<node, jour>>

MaybeValue == Values \cup {NoValue}
Stores == [Keys -> MaybeValue]
Entries == [key : Keys, value : Values \cup {Removed}]
Empty == [k \in Keys |-> NoValue]
NoArg == [key |-> NoValue, value |-> NoValue]
Returned(name, key, ret) == [name |-> name, key |-> key, ret |-> ret]

(***************************************************************************)
(* What read() makes of the files, said without the replay: the last entry *)
(* for a key among the first n of the journal decides, and the node file   *)
(* decides for a key with none.                                            *)
(***************************************************************************)
Logged(j, n) == {j[i].key : i \in 1..n}

IsLast(j, n, k, i) ==
    /\ i \in 1..n
    /\ j[i].key = k
    /\ \A m \in 1..n : m > i => j[m].key # k

LastEntry(j, n, k) == CHOOSE i \in 1..n : IsLast(j, n, k, i)

Meaning(v) == IF v = Removed THEN NoValue ELSE v

Replayed(nd, j, n) ==
    [k \in Keys |-> IF k \in Logged(j, n) THEN Meaning(j[LastEntry(j, n, k)].value)
                                          ELSE nd[k]]

Recovered == Replayed(node, jour, Len(jour))

-----------------------------------------------------------------------------
Init ==
    /\ mem = Empty /\ node = Empty /\ jour = <<>>
    /\ pc = "open" /\ arg = NoArg /\ pos = 0 /\ todo = {}
    /\ lastCall = Returned("none", NoValue, 0)
    /\ stale = {}

(* read(), first half: the lines of the node file become the list. *)
ReadNode ==
    /\ pc = "open"
    /\ mem' = node
    /\ pc' = "replay" /\ pos' = 0
    /\ UNCHANGED <<files, arg, todo, lastCall, stale>>

(* read(), second half: one line of the journal, a set or a remove in memory. *)
Applied(e) == [mem EXCEPT ![e.key] = Meaning(e.value)]

ReplayEntry ==
    /\ pc = "replay"
    /\ pos < Len(jour)
    /\ pos' = pos + 1
    /\ mem' = Applied(jour[pos + 1])
    /\ UNCHANGED <<files, pc, arg, todo, lastCall, stale>>

(* The constructor is over; the journal stays as it is. *)
ReadDone ==
    /\ pc = "replay"
    /\ pos = Len(jour)
    /\ pc' = "idle"
    /\ stale' = {}
    /\ UNCHANGED <<mem, files, arg, pos, todo, lastCall>>

(* Mutant: the journal is opened with "w".                                 *)
JournalRewritten(e) == <<e>>

(* The journal is opened with "a+" and a line appended. *)
Journalled(e) == Append(jour, e)

(* setPropertyValue(): memory first. *)
SetMemory(k, v) ==
    /\ pc = "idle"
    /\ Len(jour) < MaxJournal
    /\ mem' = [mem EXCEPT ![k] = v]
    /\ arg' = [key |-> k, value |-> v]
    /\ pc' = "setJournal"
    /\ UNCHANGED <<files, pos, todo, lastCall, stale>>

(* setPropertyValue(): the journal is opened and the pair appended ... *)
SetJournal ==
    /\ pc = "setJournal"
    /\ jour' = Journalled([key |-> arg.key, value |-> arg.value])
    /\ stale' = stale \ {arg.key}
    /\ lastCall' = Returned("set", arg.key, 0)
    /\ pc' = "idle" /\ arg' = NoArg
    /\ UNCHANGED <<mem, node, pos, todo>>

(* ... or it does not open, and the call returns -1 with memory changed. *)
SetJournalFails ==
    /\ pc = "setJournal"
    /\ stale' = stale \cup {arg.key}
    /\ lastCall' = Returned("set", arg.key, -1)
    /\ pc' = "idle" /\ arg' = NoArg
    /\ UNCHANGED <<mem, files, pos, todo>>

(* removeProperty(): the journal first; if it does not open that is only logged. *)
RemoveJournal(k) ==
    /\ pc = "idle"
    /\ Len(jour) < MaxJournal
    /\ \/ /\ jour' = Journalled([key |-> k, value |-> Removed])
          /\ stale' = stale \ {k}
       \/ /\ jour' = jour
          /\ stale' = stale \cup {k}
    /\ arg' = [key |-> k, value |-> Removed]
    /\ pc' = "removeMemory"
    /\ UNCHANGED <<mem, node, pos, todo, lastCall>>

(* removeProperty(): then memory; the result is MemoryKeyValueStore's, always 0. *)
RemoveMemory ==
    /\ pc = "removeMemory"
    /\ mem' = [mem EXCEPT ![arg.key] = NoValue]
    /\ lastCall' = Returned("remove", arg.key, 0)
    /\ pc' = "idle" /\ arg' = NoArg
    /\ UNCHANGED <<files, pos, todo, stale>>

(* removeAllProperties(): the list is cleared ... *)
ClearMemory ==
    /\ pc = "idle"
    /\ mem' = Empty
    /\ pc' = "removeNode"
    /\ UNCHANGED <<files, arg, pos, todo, lastCall, stale>>

(* ... and the node file removed.  The journal is left where it is. *)
RemoveNode ==
    /\ pc = "removeNode"
    /\ \/ /\ node' = Empty
          /\ stale' = Logged(jour, Len(jour))
       \/ /\ node' = node             \* removeFile fails: only logged
          /\ stale' = Keys
    /\ lastCall' = Returned("removeAll", NoValue, 0)
    /\ pc' = "idle"
    /\ UNCHANGED <<mem, jour, arg, pos, todo>>

(* Mutants: the node file is appended to; only what changed is written.    *)
NotTruncated == UNCHANGED files
ToWriteChanged == Logged(jour, Len(jour)) \cap {k \in Keys : mem[k] # NoValue}

(* close(): fopen(node, "w") truncates the file ... *)
Truncated == node' = Empty /\ UNCHANGED jour
ToWrite == {k \in Keys : mem[k] # NoValue}

OpenNode ==
    /\ pc = "idle"
    /\ Truncated
    /\ todo' = ToWrite
    /\ pc' = "writing"
    /\ UNCHANGED <<mem, arg, pos, lastCall, stale>>

(* ... or fails, and close() returns -1. *)
OpenNodeFails ==
    /\ pc = "idle"
    /\ lastCall' = Returned("close", NoValue, -1)
    /\ UNCHANGED <<mem, files, pc, arg, pos, todo, stale>>

(* close(): one more line has reached the file. *)
WriteEntry(k) ==
    /\ pc = "writing"
    /\ k \in todo
    /\ node' = [node EXCEPT ![k] = mem[k]]
    /\ todo' = todo \ {k}
    /\ UNCHANGED <<mem, jour, pc, arg, pos, lastCall, stale>>

(* close(): every line is in the file and the journal goes, unless its     *)
(* removal fails, which is only logged.                                    *)
RemoveJournalFile ==
    /\ pc = "writing"
    /\ todo = {}
    /\ \/ /\ jour' = <<>>
          /\ stale' = {}
       \/ /\ jour' = jour
          /\ stale' = stale \cap Logged(jour, Len(jour))
    /\ lastCall' = Returned("close", NoValue, 0)
    /\ pc' = "idle"
    /\ UNCHANGED <<mem, node, arg, pos, todo>>

(* The program dies wherever it is, or deletes the store without close(),  *)
(* and constructs it again.                                                *)
Crash ==
    /\ pc # "open"
    /\ mem' = Empty
    /\ pc' = "open" /\ arg' = NoArg /\ pos' = 0 /\ todo' = {}
    /\ lastCall' = Returned("none", NoValue, 0)
    /\ UNCHANGED <<files, stale>>

Next ==
    \/ ReadNode \/ ReplayEntry \/ ReadDone
    \/ \E k \in Keys, v \in Values : SetMemory(k, v)
    \/ SetJournal \/ SetJournalFails
    \/ \E k \in Keys : RemoveJournal(k)
    \/ RemoveMemory
    \/ ClearMemory \/ RemoveNode
    \/ OpenNode \/ OpenNodeFails
    \/ \E k \in Keys : WriteEntry(k)
    \/ RemoveJournalFile
    \/ Crash

Spec == Init /\ [][Next]_vars

-----------------------------------------------------------------------------
PCs == {"open", "replay", "idle", "setJournal", "removeMemory", "removeNode",
        "writing"}
Calls == {"none", "set", "remove", "removeAll", "close"}

(* Types of the store's memory, files and call under way. *)
TypeOK ==
    /\ mem \in Stores
    /\ node \in Stores
    /\ jour \in Seq(Entries)
    /\ pc \in PCs
    /\ arg \in [key : Keys \cup {NoValue}, value : MaybeValue \cup {Removed}]
    /\ pos \in Nat
    /\ todo \in SUBSET Keys
    /\ lastCall \in [name : Calls, key : Keys \cup {NoValue}, ret : {0, -1}]
    /\ stale \in SUBSET Keys

(* The constructor's replay: line after line it arrives at what the last   *)
(* entry of each key says (PropertyFile.h: the list "is filled in the same *)
(* order the properties are read from the journal file").                  *)
ReplayIsLastWrite ==
    pc = "replay" => mem = Replayed(node, jour, pos)

(* Between two calls, a crash now would give back every key as the program *)
(* sees it, except the keys whose last change did not get to the disk      *)
(* (PropertyFile.h: "the next read() will find the journal file and        *)
(* populates properly the ArrayList in memory").                           *)
IdleIsDurable ==
    pc = "idle" => \A k \in Keys \ stale : Recovered[k] = mem[k]

(* In the middle of a set or a remove a crash spares all the other keys.   *)
OtherKeysDurable ==
    pc \in {"setJournal", "removeMemory"} =>
        \A k \in Keys \ (stale \cup {arg.key}) : Recovered[k] = mem[k]

(* In the middle of close() a crash loses no key the journal still has,    *)
(* and never brings back a value the program no longer sees.               *)
CloseKeepsJournalled ==
    pc = "writing" =>
        \A k \in Keys \ stale :
            /\ Recovered[k] \in {mem[k], NoValue}
            /\ k \in Logged(jour, Len(jour)) \/ k \notin todo => Recovered[k] = mem[k]

(* The files of a PropertyFile are a durable store: see DurableStore.  The *)
(* client's view during the constructor is what it is about to find.       *)
Durable == INSTANCE DurableStore WITH
    store <- IF pc \in {"open", "replay"} THEN Recovered ELSE mem,
    durable <- Recovered

ImplementsDurableStore == Durable!Spec
=============================================================================
