------------------------------ MODULE ClientMods ------------------------------
(***************************************************************************)
(* How SyncManager::sync() turns the changes of each source into messages: *)
(* the loops over items and chunks of cpp/common/spds/SyncManager.cpp,     *)
(* with ItemReader, EncodingHelper and the input streams of the items.     *)
(*                                                                         *)
(* Kept: the loops with their breaks and their order, sizes in bytes, what *)
(* stays in syncItem, chunk, tot, step and last from one message or source *)
(* to the next.  A chunk that was deleted and is used again is undefined:  *)
(* the program dies, or finds an empty chunk in it.  Abstracted: data is   *)
(* the positions it comes from; the three ways a message ends are all of   *)
(* the server (SyncSession has the rest).  The test that a chunk fits,     *)
(* which the code repeats though it "should never happen", is FitsMessage. *)
(***************************************************************************)
EXTENDS Integers, Sequences

CONSTANTS
    NumSources,      \* active sources
    Works,           \* what a source may have to send
    MaxMsgSize,      \* maxMsgSize of the session
    FirstMaxMsgSize, \* maxMsgSize of the first session of the process
    None

Sources == 1..NumSources
Lists == {"all", "new", "updated", "deleted"}

ASSUME NumSourcesAssumption == NumSources \in Nat
ASSUME MaxMsgSizeAssumption == MaxMsgSize \in Nat /\ FirstMaxMsgSize \in Nat
ASSUME WorksAssumption ==
    \A w \in Works :
        /\ w.mode \in {"slow", "twoWay", "fromServer"}
        /\ w.b64 \in BOOLEAN /\ w.file \in BOOLEAN
        /\ \A l \in Lists : w[l] \in Seq(Nat)
ASSUME NoneAssumption == None \notin Lists /\ None \notin Sources \X Lists \X Nat

changeOverhead == 150
DELETE_ITEM_COMMAND_SIZE == 300

(* static int percMaxMsgSize: computed at the first call of the process.   *)
percMaxMsgSize == FirstMaxMsgSize \div 20

VARIABLES
    pc,        \* "source", "message", "items", "send", "done" or "dead"
    work,      \* what each source has to send
    src,       \* the source at work, count
    step, tot, last, msgSize,
    cursor,    \* where each list of the source is, 0 when not begun
    syncItem,  \* the item being sent, or None
    read,      \* the position of its input stream
    chunk,     \* "null", or "freed" when it points to a deleted one
    message    \* the chunks of the message being built

loop == <<step, tot, last>>

(* History. *)
VARIABLES
    upTo,      \* how much of each item begun was sent
    complete,  \* items whose last chunk was sent
    lost,      \* items given up, with the room left and the position
    finished,  \* sources that ended with last
    foreign,   \* sources that began with an item of another in syncItem
    garbled    \* sources that sent what was in a deleted chunk

history == <<upTo, complete, lost, finished, foreign, garbled>>
vars == <<pc, work, src, loop, msgSize, cursor, syncItem, read, chunk, message,
          history>>

Size(i) == work[i[1]][i[2]][i[3]]
ListSize(s, l) == Len(work[s][l])
Items == UNION {{s} \X {l} \X (1..ListSize(s, l)) : s \in Sources, l \in Lists}
Mode == work[src].mode

Init ==
    /\ pc = "source" /\ src = 0
    /\ work \in [Sources -> Works]
    /\ step = 0 /\ tot = 0 /\ last = FALSE /\ msgSize = 0
    /\ cursor = [l \in Lists |-> 0]
    /\ syncItem = None /\ read = 0 /\ chunk = "null" /\ message = <<>>
    /\ upTo = [i \in Items |-> 0]
    /\ complete = {} /\ lost = {} /\ finished = {} /\ foreign = {} /\ garbled = {}

-----------------------------------------------------------------------------
(* The next source: its own variables are new, syncItem and chunk are not. *)
BeginSource ==
    /\ pc = "source"
    /\ IF src = NumSources
          THEN pc' = "done" /\ UNCHANGED <<src, loop, cursor, foreign>>
          ELSE /\ src' = src + 1
               /\ pc' = "message"
               /\ tot' = 0 /\ step' = 0 /\ last' = FALSE
               /\ cursor' = [l \in Lists |-> 0]
               /\ foreign' = IF syncItem = None THEN foreign ELSE foreign \cup {src + 1}
    /\ UNCHANGED <<work, msgSize, syncItem, read, chunk, message, upTo, complete,
                   lost, finished, garbled>>

(* beginSync() fails. *)
SkipSource ==
    /\ pc = "source" /\ src < NumSources
    /\ src' = src + 1
    /\ UNCHANGED <<pc, work, loop, msgSize, cursor, syncItem, read, chunk, message,
                   history>>

(* getFirst...() and getNext...(): a list that was not begun is empty.     *)
ItemAt(l, n) == IF n \in 1..ListSize(src, l) THEN <<src, l, n>> ELSE None
Following(l) == IF cursor[l] = 0 THEN None ELSE ItemAt(l, cursor[l] + 1)
Advanced(l) == [cursor EXCEPT ![l] = IF @ = 0 THEN 0 ELSE @ + 1]

(* A message begins, with the first item in a slow sync: tot is 0 then, and*)
(* only then.  A mode without changes to send is through.                  *)
BeginMessage ==
    /\ pc = "message"
    /\ msgSize' = 0 /\ message' = <<>> /\ tot' = 0
    /\ IF Mode = "slow" /\ syncItem = None /\ tot = 0
          THEN syncItem' = ItemAt("all", 1) /\ read' = 0 /\ cursor' = [cursor EXCEPT !["all"] = 1]
          ELSE UNCHANGED <<syncItem, read, cursor>>
    /\ IF Mode = "fromServer" THEN last' = TRUE /\ pc' = "send"
                              ELSE last' = last /\ pc' = "items"
    /\ UNCHANGED <<work, src, step, chunk, history>>

(* The list the loop at hand is over, if one is.                           *)
List == CASE Mode = "slow" -> "all"
          [] Mode # "slow" /\ step = 1 -> "new"
          [] Mode # "slow" /\ step = 3 -> "updated"
          [] Mode # "slow" /\ step = 5 -> "deleted"
          [] OTHER -> None

(* Mutant: the item kept for this message is not looked at. *)
CurrentIsNext == Following(List)

(* The item an iteration is about: the one kept, or the next.              *)
Current == IF syncItem = None THEN Following(List) ELSE syncItem
Position == IF syncItem = None THEN 0 ELSE read
CursorNow == IF syncItem = None THEN Advanced(List) ELSE cursor

InLoop(ls) == pc = "items" /\ List \in ls /\ Current # None

(* while (msgSize < maxMsgSize) *)
LoopOrSend(size) == IF size < MaxMsgSize THEN "items" ELSE "send"

-----------------------------------------------------------------------------
(* The steps of a two-way sync between its loops.                          *)
FirstOf(l, s) ==
    /\ syncItem' = ItemAt(l, 1) /\ read' = 0
    /\ cursor' = [cursor EXCEPT ![l] = 1]
    /\ step' = IF ListSize(src, l) = 0 THEN s + 2 ELSE s + 1

(* assert(syncItem == NULL) guards the first two: it stops the program, or *)
(* is compiled out and the item of another source is forgotten.            *)
FirstNew ==
    /\ pc = "items" /\ Mode = "twoWay" /\ step = 0
    /\ \/ FirstOf("new", 0) /\ UNCHANGED pc
       \/ syncItem # None /\ pc' = "dead" /\ UNCHANGED <<syncItem, read, cursor, step>>
    /\ UNCHANGED <<work, src, tot, last, msgSize, chunk, message, history>>

FirstUpdated ==
    /\ pc = "items" /\ Mode = "twoWay" /\ step = 2
    /\ FirstOf("updated", 2)
    /\ UNCHANGED <<pc, work, src, tot, last, msgSize, chunk, message, history>>

FirstDeleted ==
    /\ pc = "items" /\ Mode = "twoWay" /\ step = 4
    /\ FirstOf("deleted", 4)
    /\ UNCHANGED <<pc, work, src, tot, last, msgSize, chunk, message, history>>

ListOver ==
    /\ pc = "items" /\ List # None /\ Current = None
    /\ IF Mode = "slow" THEN last' = TRUE /\ pc' = "send" /\ UNCHANGED step
                        ELSE step' = step + 1 /\ UNCHANGED <<last, pc>>
    /\ UNCHANGED <<work, src, tot, msgSize, cursor, syncItem, read, chunk, message,
                   history>>

AllListsOver ==
    /\ pc = "items" /\ Mode = "twoWay" /\ step = 6
    /\ last' = TRUE /\ pc' = "send"
    /\ UNCHANGED <<work, src, step, tot, msgSize, cursor, syncItem, read, chunk,
                   message, history>>

-----------------------------------------------------------------------------
(* An item with data.                                                      *)

(* Mutant: the room is not reduced for the encoding. *)
MaxDataSizePlain(n) == n

(* getMaxDataSizeToEncode(), getDataSizeAfterEncoding(). *)
MaxDataSizeToEncode(n) == IF work[src].b64 THEN (n \div 4) * 3 ELSE n
DataSizeAfterEncoding(n) == IF work[src].b64 THEN ((n + 2) \div 3) * 4 ELSE n

Room == MaxMsgSize - changeOverhead - msgSize
ToRead == MaxDataSizeToEncode(Room)
Remaining == Size(Current) - Position
BytesRead == IF Remaining < ToRead THEN Remaining ELSE ToRead

(* Mutant: an item must fit. *)
IsItemTooBigForRoom(size) == Room < DataSizeAfterEncoding(size)

(* isItemTooBig(): no room at all, or little room for a large item.        *)
IsItemTooBig(size) ==
    \/ Room < 0
    \/ Room < percMaxMsgSize /\ MaxDataSizeToEncode(size) > percMaxMsgSize

WaitForNextMessage ==
    /\ InLoop({"all", "new", "updated"})
    /\ IsItemTooBig(Size(Current))
    /\ syncItem' = Current /\ read' = Position /\ cursor' = CursorNow
    /\ pc' = "send"
    /\ UNCHANGED <<work, src, loop, msgSize, chunk, message, history>>

(* getNextChunk() read nothing of an item that is not empty: the item is   *)
(* given up.                                                               *)
NoChunk ==
    /\ InLoop({"all", "new", "updated"})
    /\ ~IsItemTooBig(Size(Current)) /\ chunk = "null"
    /\ Size(Current) # 0 /\ BytesRead = 0
    /\ lost' = lost \cup {[item |-> Current, room |-> Room, at |-> Position]}
    /\ syncItem' = None /\ read' = 0 /\ cursor' = CursorNow
    /\ UNCHANGED <<pc, work, src, loop, msgSize, chunk, message, upTo, complete,
                   finished, foreign, garbled>>

(* InputStream::eof(): a buffer knows its end, a file must be read beyond. *)
Eof == IF work[Current[1]].file THEN BytesRead < ToRead ELSE BytesRead = Remaining

(* Mutant: the position is not kept from one message to the next. *)
ReadFromStart == 0

(* Where the next chunk of the item begins. *)
ReadAfterChunk == Position + BytesRead

(* delete chunk; chunk = NULL; *)
ChunkAfterAdd == "null"

(* After a chunk that is not the last, a slow sync leaves the message, a   *)
(* two-way sync tests its size.                                            *)
AddChunk ==
    /\ InLoop({"all", "new", "updated"})
    /\ ~IsItemTooBig(Size(Current)) /\ chunk = "null"
    /\ Size(Current) = 0 \/ BytesRead > 0
    /\ message' = Append(message, [item |-> Current, from |-> Position,
                                   to |-> Position + BytesRead, last |-> Eof])
    /\ msgSize' = msgSize + changeOverhead + DataSizeAfterEncoding(BytesRead)
    /\ upTo' = [upTo EXCEPT ![Current] = Position + BytesRead]
    /\ IF Eof THEN /\ syncItem' = None /\ read' = 0
                   /\ complete' = complete \cup {Current}
              ELSE /\ syncItem' = Current /\ read' = ReadAfterChunk
                   /\ UNCHANGED complete
    /\ IF Eof \/ Mode = "twoWay" THEN pc' = LoopOrSend(msgSize') /\ tot' = tot + 1
                                 ELSE pc' = "send" /\ tot' = tot
    /\ cursor' = CursorNow /\ chunk' = ChunkAfterAdd
    /\ UNCHANGED <<work, src, step, last, lost, finished, foreign, garbled>>

(* chunk still points to the chunk of the last deletion: the program dies, *)
(* or sends an empty chunk, first or last as it happens, for the item.     *)
AddDeletedChunk ==
    /\ InLoop({"all", "new", "updated"})
    /\ ~IsItemTooBig(Size(Current)) /\ chunk = "freed"
    /\ \/ pc' = "dead" /\ UNCHANGED <<loop, msgSize, cursor, syncItem, read, chunk,
                                      message, history>>
       \/ \E eof \in BOOLEAN :
             /\ message' = Append(message, [item |-> Current, from |-> Position,
                                            to |-> Position, last |-> eof])
             /\ msgSize' = msgSize + changeOverhead
             /\ chunk' = "null" /\ cursor' = CursorNow
             /\ garbled' = garbled \cup {src}
             /\ IF eof THEN syncItem' = None /\ read' = 0 /\ complete' = complete \cup {Current}
                       ELSE syncItem' = Current /\ read' = Position /\ complete' = complete
             /\ IF eof \/ Mode = "twoWay" THEN pc' = LoopOrSend(msgSize') /\ tot' = tot + 1
                                          ELSE pc' = "send" /\ tot' = tot
             /\ UNCHANGED <<step, last, upTo, lost, finished, foreign>>
    /\ UNCHANGED <<work, src>>

-----------------------------------------------------------------------------
(* Mutant: a deletion that fits exactly does not fit. *)
DeletionTooBigOrExact ==
    DELETE_ITEM_COMMAND_SIZE + changeOverhead + msgSize >= MaxMsgSize

(* A deletion.  One that does not fit is given up, and the loop goes on;   *)
(* chunk is deleted then, maybe for the second time.                       *)
DeletionTooBig == DELETE_ITEM_COMMAND_SIZE + changeOverhead + msgSize > MaxMsgSize

DropDeletion ==
    /\ InLoop({"deleted"}) /\ DeletionTooBig
    /\ \/ chunk = "freed" /\ pc' = "dead" /\ UNCHANGED <<chunk, lost, syncItem, cursor>>
       \/ /\ lost' = lost \cup {[item |-> Current, room |-> Room, at |-> 0]}
          /\ syncItem' = None /\ cursor' = CursorNow /\ chunk' = "null"
          /\ UNCHANGED pc
    /\ UNCHANGED <<work, src, loop, msgSize, read, message, upTo, complete, finished,
                   foreign, garbled>>

AddDeletion ==
    /\ InLoop({"deleted"}) /\ ~DeletionTooBig
    /\ message' = Append(message, [item |-> Current, from |-> 0, to |-> 0, last |-> TRUE])
    /\ msgSize' = msgSize + changeOverhead
    /\ complete' = complete \cup {Current}
    /\ syncItem' = None /\ cursor' = CursorNow /\ chunk' = "freed"
    /\ tot' = tot + 1 /\ pc' = LoopOrSend(msgSize')
    /\ UNCHANGED <<work, src, step, last, read, upTo, lost, finished, foreign, garbled>>

-----------------------------------------------------------------------------
(* The message is sent and the statuses are good: the next one, or the     *)
(* next source.                                                            *)
Answered ==
    /\ pc = "send"
    /\ pc' = IF last THEN "source" ELSE "message"
    /\ finished' = IF last THEN finished \cup {src} ELSE finished
    /\ UNCHANGED <<work, src, loop, msgSize, cursor, syncItem, read, chunk, message,
                   upTo, complete, lost, foreign, garbled>>

(* processItemStatus() refuses the source: break, with syncItem as it is.  *)
SourceRefused ==
    /\ pc = "send"
    /\ pc' = "source"
    /\ UNCHANGED <<work, src, loop, msgSize, cursor, syncItem, read, chunk, message,
                   history>>

(* No answer, an error, an abort: sync() ends. *)
Ends ==
    /\ pc \in {"items", "send"}
    /\ pc' = "done"
    /\ UNCHANGED <<work, src, loop, msgSize, cursor, syncItem, read, chunk, message,
                   history>>

BuildStep ==
    \/ BeginSource \/ BeginMessage
    \/ FirstNew \/ FirstUpdated \/ FirstDeleted \/ ListOver \/ AllListsOver
    \/ WaitForNextMessage \/ NoChunk \/ AddChunk \/ AddDeletedChunk
    \/ DropDeletion \/ AddDeletion

Next == BuildStep \/ SkipSource \/ Answered \/ SourceRefused \/ Ends

Spec == Init /\ [][Next]_vars

(* The session thread works, and every message has an answer or fails.     *)
FairSpec == Spec /\ WF_vars(Next)

-----------------------------------------------------------------------------
Chunk == [item : Items, from : Nat, to : Nat, last : BOOLEAN]

TypeOK ==
    /\ pc \in {"source", "message", "items", "send", "done", "dead"}
    /\ work \in [Sources -> Works]
    /\ src \in 0..NumSources /\ (pc \in {"message", "items", "send"} => src > 0)
    /\ step \in 0..6 /\ tot \in Nat /\ last \in BOOLEAN /\ msgSize \in Nat
    /\ cursor \in [Lists -> Nat]
    /\ syncItem \in Items \cup {None}
    /\ read \in Nat
    /\ chunk \in {"null", "freed"}
    /\ message \in Seq(Chunk)
    /\ upTo \in [Items -> Nat] /\ complete \subseteq Items
    /\ \A l \in lost : l.item \in Items
    /\ finished \cup foreign \cup garbled \subseteq Sources

(* The estimate of a message never exceeds maxMsgSize: the chunk that      *)
(* "exceedes the the max size" (sync()) cannot happen, whatever was        *)
(* encoded, and no deletion takes a message over the limit.                *)
FitsMessage == msgSize <= MaxMsgSize

(* A chunk begins where the item's last one ended, in whatever message and *)
(* for whatever source, and nothing follows the last chunk of an item.     *)
ChunksInOrder ==
    [][\A i \in Items : upTo'[i] # upTo[i] =>
          /\ i \notin complete
          /\ message'[Len(message')].item = i
          /\ message'[Len(message')].from = upTo[i]]_vars

(* A source sends the item of another only when one of those before it was *)
(* refused, and a deleted chunk only after one that sent a deletion.       *)
DamageBounded ==
    /\ \A s \in foreign : \E r \in Sources \ finished : r < s
    /\ \A s \in garbled : \E i \in complete : i[1] < s /\ i[2] = "deleted"

(* A source that came to its end sent every item completely, whatever the  *)
(* cuts into messages, but for the items given up, for one replaced by a   *)
(* deleted chunk, and unless it began with the item of another source.     *)
(* Both need a cause (DamageBounded).                                      *)
AllSent ==
  /\ DamageBounded
  /\ \A s \in finished \ foreign : \A i \in Items :
        i[1] = s /\ i[2] \in (CASE work[s].mode = "slow" -> {"all"}
                               [] work[s].mode = "twoWay" -> {"new", "updated", "deleted"}
                               [] OTHER -> {}) =>
            \/ i \in complete /\ (i[2] # "deleted" => upTo[i] = Size(i) \/ s \in garbled)
            \/ \E l \in lost : l.item = i

(* What is given up: a deletion when there is no room for the size assumed *)
(* of it, a small item when no byte fits, the end of a file whose last     *)
(* byte was the last that fitted.  A large item is never given up.         *)
LostForCause ==
    \A l \in lost :
        \/ l.item[2] = "deleted" /\ l.room < DELETE_ITEM_COMMAND_SIZE
        \/ /\ l.room < 4
           /\ Size(l.item) * 3 <= percMaxMsgSize * 4 + 12
        \/ work[l.item[1]].file /\ l.at = Size(l.item)

(* Whatever the sizes, sync() comes to the end of its sources.             *)
Terminates == <>(pc \in {"done", "dead"})
=============================================================================
