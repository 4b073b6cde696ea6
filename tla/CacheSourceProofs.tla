-------------------------- MODULE CacheSourceProofs --------------------------
(***************************************************************************)
(* Proofs about CacheSource for any files, contents and signatures, and    *)
(* for the keys of FileSyncSource as for those of the other sources.       *)
(***************************************************************************)
EXTENDS CacheSource, TLAPS

(* What is in the cache is the signature of what the server has, whatever  *)
(* the file holds meanwhile: unlike UnchangedMeansShared it says nothing   *)
(* of the files, which the user changes at any moment.                     *)
CacheIsShared ==
    \A k \in Keys : cache[k] # None /\ k \notin raced \cup unconfirmed =>
        shared[k] # None /\ Signature[shared[k]] = cache[k]

(* A success says that the server has what was sent. *)
AnswerIsTrue == pc = "answered" /\ status = "ok" => shared[item.key] = item.data

IInv == TypeOK /\ CacheIsShared /\ SharedIsCached /\ AnswerIsTrue
-----------------------------------------------------------------------------
(* A file, or none, has a signature, which is not None. *)
LEMMA Signed ==
    ASSUME local \in [Files -> Contents \cup {None}], NEW k \in Keys
    PROVE  ItemSignature(k) \in Signatures /\ ItemSignature(k) # None
<1>1. Read(File(k)) \in Contents \cup {Nothing}
  BY DEF Read, File, Keys
<1>2. ItemSignature(k) \in Signatures
  BY <1>1 DEF ItemSignature, Signatures
<1> QED
  BY <1>2, NoneAssumption

LEMMA TypeInit == Init => TypeOK
BY MaxChangesAssumption, MaxFailuresAssumption DEF Init, TypeOK

(* While one is sent or stored, item is an item; only a deletion has no    *)
(* data.                                                                   *)
LEMMA ItemTyped ==
    ASSUME TypeOK, pc \in {"sent", "answered", "stored"}
    PROVE  /\ item \in Items
           /\ item.key \in Keys
           /\ item.data \in Contents \cup {Nothing, None}
           /\ item.data = None <=> item.cmd = "Delete"
<1>1. item \in Items
  BY DEF TypeOK
<1>2. CASE item \in [key : Keys, cmd : {"Add", "Replace"}, data : Contents \cup {Nothing}]
  BY <1>1, <1>2, NoneAssumption
<1>3. CASE item \in [key : Keys, cmd : {"Delete"}, data : {None}]
  BY <1>1, <1>3
<1> QED
  BY <1>1, <1>2, <1>3 DEF Items

(* What is sent is an item. *)
LEMMA SendsTyped ==
    ASSUME TypeOK, NEW k \in Keys, NEW cmd \in {"Add", "Replace", "Delete"}, Sends(cmd, k)
    PROVE  item' \in Items /\ item' # NoItem /\ pc' = "sent"
<1>1. File(k) \in Files
  BY DEF File, Keys
<1>2. Read(File(k)) \in Contents \cup {Nothing}
  BY <1>1 DEF Read, TypeOK
<1>3. CASE cmd = "Delete"
  BY <1>3 DEF Sends, Items, NoItem
<1>4. CASE cmd # "Delete"
  BY <1>2, <1>4 DEF Sends, Items, NoItem
<1> QED
  BY <1>3, <1>4

(* The cache after a status or an item of the server, and the history.     *)
LEMMA RecordedTyped ==
    ASSUME TypeOK, item.key \in Keys
    PROVE  /\ Recorded \in [Keys -> Signatures \cup {None}]
           /\ RacedAfter \in SUBSET Keys
<1>1. ItemSignature(item.key) \in Signatures
  BY Signed DEF TypeOK
<1>2. Recorded \in [Keys -> Signatures \cup {None}]
  BY <1>1 DEF Recorded, TypeOK
<1>3. RacedAfter \in SUBSET Keys
  BY DEF RacedAfter, TypeOK
<1> QED
  BY <1>2, <1>3

LEMMA ListedTyped == Listed \subseteq Keys
BY DEF Listed, ListedKey, Keys

LEMMA KeysMade == \A f \in Files : ListedKey(f) \in Keys /\ AddedKey(f) \in Keys
BY DEF ListedKey, AddedKey, Keys

LEMMA TypeStep == TypeOK /\ [Next]_vars => TypeOK'
<1> SUFFICES ASSUME TypeOK, [Next]_vars PROVE TypeOK'
  OBVIOUS
<1> USE MaxChangesAssumption, MaxFailuresAssumption DEF lists
<1>1. CASE UserEdits
  BY <1>1 DEF UserEdits, TypeOK
<1>2. CASE ScanChanges
  BY <1>2, ListedTyped DEF ScanChanges, Updated, TypeOK, NoItem
<1>3. CASE ScanAll
  BY <1>3, ListedTyped DEF ScanAll, OnlyKept, TypeOK
<1>4. CASE ClearInterrupted
  BY <1>4 DEF ClearInterrupted, OnlyKept, TypeOK
<1>5. CASE ReceiveOnly
  BY <1>5 DEF ReceiveOnly, TypeOK
<1>6. CASE SendNext
  <2>1. \E k \in Keys, cmd \in {"Add", "Replace", "Delete"} : Sends(cmd, k)
    BY <1>6 DEF SendNext, TypeOK
  <2>2. item' \in Items /\ item' # NoItem /\ pc' = "sent"
    BY <2>1, SendsTyped
  <2>3. /\ allKeys' \in SUBSET Keys /\ newKeys' \in SUBSET Keys
        /\ updatedKeys' \in SUBSET Keys /\ deletedKeys' \in SUBSET Keys
    BY <1>6 DEF SendNext, TypeOK
  <2> QED
    BY <1>6, <2>2, <2>3 DEF SendNext, TypeOK
<1>7. CASE ServerAccepts
  <2>1. item.key \in Keys /\ item.data \in Contents \cup {Nothing, None}
    BY <1>7, ItemTyped DEF ServerAccepts
  <2> QED
    BY <1>7, <2>1 DEF ServerAccepts, TypeOK
<1>8. CASE ServerRefuses
  BY <1>8 DEF ServerRefuses, TypeOK
<1>9. CASE SetItemStatus
  <2>1. item.key \in Keys
    BY <1>9, ItemTyped DEF SetItemStatus
  <2>2. /\ cache' \in [Keys -> Signatures \cup {None}]
        /\ journalled' \in SUBSET Keys /\ lost' \in SUBSET Keys
        /\ raced' \in SUBSET Keys /\ unconfirmed' \in SUBSET Keys
    BY <1>9, <2>1, RecordedTyped DEF SetItemStatus, Record, TypeOK
  <2> QED
    BY <1>9, <2>2 DEF SetItemStatus, TypeOK
<1>10. CASE AllSent
  BY <1>10 DEF AllSent, TypeOK
<1>11. CASE InsertItem
  <2>1. PICK g \in Files, c \in Contents :
            /\ local' = [local EXCEPT ![g] = IF local[g] = None THEN c ELSE local[g]]
            /\ item' = [key |-> AddedKey(g), cmd |-> "Add", data |-> c]
    BY <1>11 DEF InsertItem
  <2>2. item' \in Items /\ item' # NoItem
    BY <2>1, KeysMade DEF Items, NoItem
  <2>3. local' \in [Files -> Contents \cup {None}]
    BY <2>1 DEF TypeOK
  <2> QED
    BY <1>11, <2>2, <2>3 DEF InsertItem, TypeOK
<1>12. CASE ModifyItem
  <2>1. PICK k \in Keys, c \in Contents :
            /\ local' = [local EXCEPT ![File(k)] = c]
            /\ item' = [key |-> k, cmd |-> "Replace", data |-> c]
    BY <1>12 DEF ModifyItem
  <2>2. item' \in Items /\ item' # NoItem
    BY <2>1 DEF Items, NoItem
  <2>3. local' \in [Files -> Contents \cup {None}]
    BY <2>1 DEF TypeOK
  <2> QED
    BY <1>12, <2>2, <2>3 DEF ModifyItem, TypeOK
<1>13. CASE RemoveItem
  <2>1. PICK k \in Keys :
            /\ local' = IF FileSource /\ k = ListedKey(File(k)) THEN local
                        ELSE [local EXCEPT ![File(k)] = None]
            /\ item' = [key |-> k, cmd |-> "Delete", data |-> None]
    BY <1>13 DEF RemoveItem
  <2>2. item' \in Items /\ item' # NoItem
    BY <2>1 DEF Items, NoItem
  <2>3. local' \in [Files -> Contents \cup {None}]
    BY <2>1 DEF TypeOK
  <2> QED
    BY <1>13, <2>2, <2>3 DEF RemoveItem, TypeOK
<1>14. CASE NoteInCache
  <2>1. item.key \in Keys /\ item.data \in Contents \cup {Nothing, None}
    BY <1>14, ItemTyped DEF NoteInCache
  <2>2. /\ cache' \in [Keys -> Signatures \cup {None}]
        /\ journalled' \in SUBSET Keys /\ lost' \in SUBSET Keys
        /\ raced' \in SUBSET Keys /\ unconfirmed' \in SUBSET Keys
    BY <1>14, <2>1, RecordedTyped DEF NoteInCache, Record, TypeOK
  <2> QED
    BY <1>14, <2>1, <2>2 DEF NoteInCache, TypeOK
<1>15. CASE EndSync
  BY <1>15 DEF EndSync, TypeOK
<1>16. CASE Interrupted
  <2>1. /\ shared' \in [Keys -> Contents \cup {Nothing, None}]
        /\ unconfirmed' \in SUBSET Keys
    <3>1. CASE UNCHANGED <<shared, unconfirmed>>
      BY <3>1 DEF TypeOK
    <3>2. CASE /\ pc = "sent"
               /\ shared' = [shared EXCEPT ![item.key] = item.data]
               /\ unconfirmed' = unconfirmed \cup {item.key}
      <4>1. item.key \in Keys /\ item.data \in Contents \cup {Nothing, None}
        BY <3>2, ItemTyped
      <4> QED
        BY <3>2, <4>1 DEF TypeOK
    <3> QED
      BY <1>16, <3>1, <3>2 DEF Interrupted
  <2> QED
    BY <1>16, <2>1 DEF Interrupted, Over, TypeOK
<1>17. CASE CacheSaved
  BY <1>17 DEF CacheSaved, Over, TypeOK
<1>18. CASE CrashInClose
  BY <1>18 DEF CrashInClose, OnlyKept, Over, TypeOK
<1>19. CASE UNCHANGED vars
  BY <1>19 DEF vars, TypeOK
<1> QED
  BY <1>1, <1>2, <1>3, <1>4, <1>5, <1>6, <1>7, <1>8, <1>9, <1>10, <1>11, <1>12,
     <1>13, <1>14, <1>15, <1>16, <1>17, <1>18, <1>19 DEF Next, Session
-----------------------------------------------------------------------------
LEMMA SharedInit == Init => CacheIsShared /\ SharedIsCached /\ AnswerIsTrue
BY DEF Init, CacheIsShared, SharedIsCached, AnswerIsTrue

(* The answer is read with the item that was sent. *)
LEMMA AnswerStep == IInv /\ [Next]_vars => AnswerIsTrue'
<1> SUFFICES ASSUME IInv, [Next]_vars, (pc = "answered" /\ status = "ok")'
             PROVE  shared'[item'.key] = item'.data
  BY DEF AnswerIsTrue
<1>1. CASE ServerAccepts
  <2>1. item.key \in Keys
    BY <1>1, ItemTyped DEF ServerAccepts, IInv
  <2> QED
    BY <1>1, <2>1 DEF ServerAccepts, IInv, TypeOK
<1>2. CASE UserEdits \/ UNCHANGED vars
  BY <1>2 DEF UserEdits, vars, IInv, AnswerIsTrue
<1>3. CASE ClearInterrupted
  BY <1>3 DEF ClearInterrupted
<1>4. CASE Session /\ ~ServerAccepts
  BY <1>4 DEF Session, ScanChanges, ScanAll, ReceiveOnly, SendNext, Sends,
              SetItemStatus, AllSent, NoteInCache, EndSync, CacheSaved, Over
<1>5. CASE \/ ServerRefuses \/ InsertItem \/ ModifyItem \/ RemoveItem
           \/ CrashInClose \/ Interrupted
  BY <1>5 DEF ServerRefuses, InsertItem, ModifyItem, RemoveItem, CrashInClose,
              Interrupted, Over
<1> QED
  BY <1>1, <1>2, <1>3, <1>4, <1>5 DEF Next

(* Actions that touch neither the cache nor what the server has. *)
LEMMA Untouched ==
    ASSUME IInv, UNCHANGED <<cache, shared, unconfirmed, lost, raced>>
    PROVE  CacheIsShared' /\ SharedIsCached'
BY DEF IInv, CacheIsShared, SharedIsCached

(* The server takes an item, whether its answer arrives or not: the key is *)
(* unconfirmed.                                                            *)
LEMMA Accepted ==
    ASSUME IInv, pc = "sent", UNCHANGED <<cache, lost, raced>>,
           shared' = [shared EXCEPT ![item.key] = item.data],
           unconfirmed' = unconfirmed \cup {item.key}
    PROVE  CacheIsShared' /\ SharedIsCached'
<1>1. item.key \in Keys
  BY ItemTyped DEF IInv
<1>2. \A k \in Keys \ {item.key} : shared'[k] = shared[k]
  BY <1>1 DEF IInv, TypeOK
<1> QED
  BY <1>2 DEF IInv, CacheIsShared, SharedIsCached

(* Entries leave the cache, and are lost. *)
LEMMA Cleared ==
    ASSUME IInv, NEW kept \in SUBSET Keys, OnlyKept(kept),
           UNCHANGED <<shared, unconfirmed, raced>>
    PROVE  CacheIsShared' /\ SharedIsCached'
<1>1. CacheIsShared'
  BY DEF OnlyKept, IInv, CacheIsShared
<1>2. SharedIsCached'
  BY DEF OnlyKept, IInv, SharedIsCached
<1> QED
  BY <1>1, <1>2

(* The cache is told of an item both sides have: its signature is taken    *)
(* now, and either it is that of what was exchanged or the key is raced.   *)
LEMMA Noted ==
    ASSUME IInv, pc \in {"answered", "stored"},
           Record,
           shared' \in [Keys -> Contents \cup {Nothing, None}],
           shared'[item.key] = item.data,
           \A k \in Keys \ {item.key} : shared'[k] = shared[k]
    PROVE  CacheIsShared' /\ SharedIsCached'
<1>1. item.key \in Keys /\ (item.data = None <=> item.cmd = "Delete")
  BY ItemTyped DEF IInv
<1>2. ItemSignature(item.key) # None
  BY <1>1, Signed DEF IInv, TypeOK
<1>3. \A k \in Keys \ {item.key} :
        cache'[k] = cache[k] /\ (k \in raced' <=> k \in raced)
  BY <1>1 DEF Record, Recorded, RacedAfter, IInv, TypeOK
<1>4. cache'[item.key] = IF item.cmd = "Delete" THEN None ELSE ItemSignature(item.key)
  BY <1>1 DEF Record, Recorded, IInv, TypeOK
<1>5. item.cmd # "Delete" /\ item.key \notin raced'
        => ItemSignature(item.key) = Signature[item.data]
  BY DEF Record, RacedAfter
<1>6. CacheIsShared'
  <2> SUFFICES ASSUME NEW k \in Keys, cache'[k] # None, k \notin raced' \cup unconfirmed'
               PROVE  shared'[k] # None /\ Signature[shared'[k]] = cache'[k]
    BY DEF CacheIsShared
  <2>1. CASE k = item.key
    BY <1>1, <1>4, <1>5, <2>1
  <2>2. CASE k # item.key
    BY <1>3, <2>2 DEF Record, IInv, CacheIsShared
  <2> QED
    BY <2>1, <2>2
<1>7. SharedIsCached'
  BY <1>1, <1>2, <1>3, <1>4 DEF Record, IInv, SharedIsCached
<1> QED
  BY <1>6, <1>7

LEMMA SharedStep == IInv /\ [Next]_vars => CacheIsShared' /\ SharedIsCached'
<1> SUFFICES ASSUME IInv, [Next]_vars PROVE CacheIsShared' /\ SharedIsCached'
  OBVIOUS
<1>1. CASE \/ UserEdits \/ ScanChanges \/ SendNext \/ ServerRefuses \/ AllSent
           \/ InsertItem \/ ModifyItem \/ RemoveItem \/ EndSync \/ CacheSaved
           \/ UNCHANGED vars
  BY <1>1, Untouched DEF UserEdits, ScanChanges, SendNext, ServerRefuses, AllSent,
        InsertItem, ModifyItem, RemoveItem, EndSync, CacheSaved, Over, vars
<1>2. CASE ScanAll
  BY <1>2, Cleared DEF ScanAll
<1>3. CASE ClearInterrupted
  BY <1>3, Cleared DEF ClearInterrupted, IInv, TypeOK
<1>4. CASE ReceiveOnly
  <2>1. CASE mode' = "refreshFromServer"
    BY <1>4, <2>1 DEF ReceiveOnly, IInv, CacheIsShared, SharedIsCached
  <2>2. CASE mode' # "refreshFromServer"
    BY <1>4, <2>2, Untouched DEF ReceiveOnly
  <2> QED
    BY <2>1, <2>2
<1>5. CASE ServerAccepts
  BY <1>5, Accepted DEF ServerAccepts
<1>6. CASE SetItemStatus
  <2>1. CASE Succeeded
    <3>1. shared[item.key] = item.data
      BY <1>6, <2>1 DEF SetItemStatus, Succeeded, IInv, AnswerIsTrue
    <3> QED
      BY <1>6, <2>1, <3>1, Noted DEF SetItemStatus, IInv, TypeOK
  <2>2. CASE ~Succeeded
    BY <1>6, <2>2, Untouched DEF SetItemStatus
  <2> QED
    BY <2>1, <2>2
<1>7. CASE NoteInCache
  <2>1. item.key \in Keys /\ item.data \in Contents \cup {Nothing, None}
    BY <1>7, ItemTyped DEF NoteInCache, IInv
  <2>2. /\ shared' \in [Keys -> Contents \cup {Nothing, None}]
        /\ shared'[item.key] = item.data
        /\ \A k \in Keys \ {item.key} : shared'[k] = shared[k]
    BY <1>7, <2>1 DEF NoteInCache, IInv, TypeOK
  <2> QED
    BY <1>7, <2>2, Noted DEF NoteInCache
<1>8. CASE Interrupted
  <2>1. CASE UNCHANGED <<shared, unconfirmed>>
    BY <1>8, <2>1, Untouched DEF Interrupted, Over
  <2>2. CASE ~UNCHANGED <<shared, unconfirmed>>
    BY <1>8, <2>2, Accepted DEF Interrupted, Over
  <2> QED
    BY <2>1, <2>2
<1>9. CASE CrashInClose
  <2>1. PICK written \in SUBSET Keys : OnlyKept(written \cup journalled)
    BY <1>9 DEF CrashInClose
  <2> QED
    BY <1>9, <2>1, Cleared DEF CrashInClose, Over, IInv, TypeOK
<1> QED
  BY <1>1, <1>2, <1>3, <1>4, <1>5, <1>6, <1>7, <1>8, <1>9 DEF Next, Session
-----------------------------------------------------------------------------
LEMMA Invariant == Spec => []IInv
<1>1. Init => IInv
  BY TypeInit, SharedInit DEF IInv
<1>2. IInv /\ [Next]_vars => IInv'
  BY TypeStep, SharedStep, AnswerStep DEF IInv
<1> QED
  BY <1>1, <1>2, PTL DEF Spec

(* The source is well typed in every reachable state. *)
THEOREM CacheTypeCorrect == Spec => []TypeOK
<1>1. IInv => TypeOK
  BY DEF IInv
<1> QED
  BY <1>1, Invariant, PTL

(* A file a scan takes for unchanged is on the server with that signature, *)
(* but for a lost status and a file edited before its signature was taken: *)
(* fillItemModifications() over what setItemStatus(), addItem(),           *)
(* updateItem() and deleteItem() keep in the cache.                        *)
THEOREM UnchangedIsShared == Spec => []UnchangedMeansShared
<1>1. IInv => UnchangedMeansShared
  <2> SUFFICES ASSUME IInv, NEW k \in Listed, cache[k] = ItemSignature(k),
                      k \notin raced \cup unconfirmed
               PROVE  SameAsShared(k)
    BY DEF UnchangedMeansShared
  <2>1. k \in Keys
    BY ListedTyped
  <2>2. ItemSignature(k) # None
    BY <2>1, Signed DEF IInv, TypeOK
  <2> QED
    BY <2>1, <2>2 DEF IInv, CacheIsShared, SameAsShared
<1> QED
  BY <1>1, Invariant, PTL

(* What the server has is in the cache, unless a status was lost, the      *)
(* cache cleared or its saving cut short by a crash: a file removed later  *)
(* is found by fillItemModifications() and its removal sent.               *)
THEOREM SharedCached == Spec => []SharedIsCached
<1>1. IInv => SharedIsCached
  BY DEF IInv
<1> QED
  BY <1>1, Invariant, PTL
=============================================================================
