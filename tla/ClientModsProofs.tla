-------------------------- MODULE ClientModsProofs --------------------------
(***************************************************************************)
(* Proofs about ClientMods for any number of sources, any changes of any   *)
(* sizes and any message size: types, that no message exceeds the size of  *)
(* the session, that the chunks of an item are sent in their order, that   *)
(* every item is sent or given up for a cause, and that the loops descend. *)
(***************************************************************************)
EXTENDS ClientMods, TLAPS

(* The input stream is read within its item. *)
ReadInItem == syncItem # None => read <= Size(syncItem)

TypeInv == TypeOK /\ ReadInItem

(* An item whose turn has not come. *)
Fresh(i) == i[1] > src \/ (i[1] = src /\ i[3] > cursor[i[2]])

(* Nothing was sent of it, and of the item at hand what was read. *)
FreshUntouched == \A i \in Items : Fresh(i) => upTo[i] = 0 /\ i \notin complete

SyncItemAt ==
    syncItem # None =>
        upTo[syncItem] = read /\ syncItem \notin complete /\ ~Fresh(syncItem)

(* A list is begun once: in a slow sync tot says so between two messages,  *)
(* in a two-way sync the step.                                             *)
BegunOnce ==
    /\ pc = "message" \/ (pc = "send" /\ ~last) =>
          (Mode = "slow" /\ syncItem = None /\ cursor["all"] # 0 => tot > 0)
    /\ step <= 0 => cursor["new"] = 0
    /\ step <= 2 => cursor["updated"] = 0
    /\ step <= 4 => cursor["deleted"] = 0

Order == FreshUntouched /\ SyncItemAt /\ BegunOnce

IInv == TypeInv /\ Order
-----------------------------------------------------------------------------
(* The items of a source, and what their numbers mean. *)
LEMMA WorkType ==
    ASSUME TypeOK, NEW s \in Sources, NEW l \in Lists
    PROVE  work[s][l] \in Seq(Nat) /\ ListSize(s, l) \in Nat
  BY WorksAssumption DEF TypeOK, ListSize

LEMMA ItemType ==
    ASSUME TypeOK, NEW i \in Items
    PROVE  /\ i[1] \in Sources /\ i[2] \in Lists /\ i[3] \in 1..ListSize(i[1], i[2])
           /\ i = <<i[1], i[2], i[3]>>
           /\ Size(i) \in Nat
<1>1. PICK s \in Sources, l \in Lists : i \in {s} \X {l} \X (1..ListSize(s, l))
  BY DEF Items
<1>2. /\ i[1] = s /\ i[2] = l /\ i[3] \in 1..ListSize(s, l)
      /\ i = <<i[1], i[2], i[3]>>
  BY <1>1
<1>3. work[s][l] \in Seq(Nat) /\ ListSize(s, l) = Len(work[s][l])
  BY WorkType DEF ListSize
<1>4. work[s][l][i[3]] \in Nat
  BY <1>2, <1>3
<1> QED
  BY <1>2, <1>4 DEF Size

LEMMA ItemMade ==
    ASSUME TypeOK, NEW s \in Sources, NEW l \in Lists, NEW n \in 1..ListSize(s, l)
    PROVE  <<s, l, n>> \in Items
<1> DEFINE P == {s} \X {l} \X (1..ListSize(s, l))
           F == {{t} \X {m} \X (1..ListSize(t, m)) : t \in Sources, m \in Lists}
<1>1. <<s, l, n>> \in P
  OBVIOUS
<1>2. P \in F
  OBVIOUS
<1>3. Items = UNION F
  BY DEF Items
<1> HIDE DEF P, F
<1> QED
  BY <1>1, <1>2, <1>3

LEMMA ItemAtType ==
    ASSUME TypeOK, src \in Sources, NEW l \in Lists, NEW n \in Nat
    PROVE  /\ ItemAt(l, n) \in Items \cup {None}
           /\ ItemAt(l, n) # None => ItemAt(l, n) \in Items /\ ItemAt(l, n) = <<src, l, n>>
<1>1. CASE n \in 1..ListSize(src, l)
  <2>1. <<src, l, n>> \in Items
    BY <1>1, ItemMade
  <2> QED
    BY <1>1, <2>1 DEF ItemAt
<1>2. CASE n \notin 1..ListSize(src, l)
  BY <1>2 DEF ItemAt
<1> QED
  BY <1>1, <1>2

(* The item of an iteration of a loop over one of the lists. *)
LEMMA CurrentType ==
    ASSUME TypeInv, pc = "items", List \in Lists
    PROVE  /\ src \in Sources
           /\ CursorNow \in [Lists -> Nat]
           /\ Current \in Items \cup {None}
           /\ Current # None =>
                /\ Current \in Items
                /\ Position \in Nat /\ Position <= Size(Current) /\ Size(Current) \in Nat
                /\ syncItem = None => /\ Current = <<src, List, cursor[List] + 1>>
                                      /\ cursor[List] # 0
<1>1. src \in Sources /\ cursor \in [Lists -> Nat] /\ cursor[List] \in Nat
  BY DEF TypeInv, TypeOK, Sources
<1>2. CursorNow \in [Lists -> Nat]
  BY <1>1 DEF CursorNow, Advanced
<1>3. CASE syncItem # None
  <2>1. syncItem \in Items /\ Current = syncItem /\ Position = read
    BY <1>3 DEF TypeInv, TypeOK, Current, Position
  <2>2. Size(syncItem) \in Nat
    BY <2>1, ItemType DEF TypeInv
  <2> QED
    BY <1>1, <1>2, <1>3, <2>1, <2>2 DEF TypeInv, TypeOK, ReadInItem
<1>4. CASE syncItem = None
  <2>1. Current = Following(List) /\ Position = 0
    BY <1>4 DEF Current, Position
  <2>2. /\ ItemAt(List, cursor[List] + 1) \in Items \cup {None}
        /\ ItemAt(List, cursor[List] + 1) # None =>
              /\ ItemAt(List, cursor[List] + 1) \in Items
              /\ ItemAt(List, cursor[List] + 1) = <<src, List, cursor[List] + 1>>
    <3>1. cursor[List] + 1 \in Nat
      BY <1>1
    <3> QED
      BY <1>1, <3>1, ItemAtType DEF TypeInv
  <2>3. /\ Current \in Items \cup {None}
        /\ Current # None => /\ Current \in Items /\ cursor[List] # 0
                             /\ Current = <<src, List, cursor[List] + 1>>
    BY <2>1, <2>2 DEF Following
  <2>4. Current \in Items => Size(Current) \in Nat
    BY ItemType DEF TypeInv
  <2> QED
    BY <1>1, <1>2, <1>4, <2>1, <2>3, <2>4
<1> QED
  BY <1>3, <1>4

(* The room of a message, and what is read into it: the bytes of a chunk   *)
(* fit, encoded or not.                                                    *)
LEMMA ChunkFits ==
    ASSUME TypeInv, pc = "items", List \in Lists, Current # None,
           ~IsItemTooBig(Size(Current)), Size(Current) = 0 \/ BytesRead > 0
    PROVE  /\ Room \in Nat
           /\ BytesRead \in Nat /\ BytesRead <= Size(Current) - Position
           /\ DataSizeAfterEncoding(BytesRead) \in Nat
           /\ DataSizeAfterEncoding(BytesRead) <= Room
<1>1. Position \in Nat /\ Size(Current) \in Nat /\ Position <= Size(Current)
  BY CurrentType
<1>2. Room \in Int /\ Room >= 0
  <2>1. MaxMsgSize \in Nat /\ msgSize \in Nat
    BY MaxMsgSizeAssumption DEF TypeInv, TypeOK
  <2>2. Room \in Int /\ ~(Room < 0)
    BY <2>1 DEF Room, changeOverhead, IsItemTooBig
  <2> QED
    BY <2>2
<1>3. CASE work[src].b64
  <2>1. ToRead = (Room \div 4) * 3
    BY <1>3 DEF ToRead, MaxDataSizeToEncode
  <2>2. ToRead \in Nat
    BY <1>2, <2>1
  <2>3. BytesRead \in Nat /\ BytesRead <= Size(Current) - Position /\ BytesRead <= ToRead
    BY <1>1, <2>2 DEF BytesRead, Remaining
  <2>4. ((BytesRead + 2) \div 3) * 4 <= Room /\ ((BytesRead + 2) \div 3) * 4 \in Nat
    BY <1>2, <2>1, <2>3
  <2>5. DataSizeAfterEncoding(BytesRead) = ((BytesRead + 2) \div 3) * 4
    BY <1>3 DEF DataSizeAfterEncoding
  <2> QED
    BY <1>2, <2>3, <2>4, <2>5
<1>4. CASE ~work[src].b64
  <2>1. ToRead = Room
    BY <1>4 DEF ToRead, MaxDataSizeToEncode
  <2>2. BytesRead \in Nat /\ BytesRead <= Size(Current) - Position /\ BytesRead <= Room
    BY <1>1, <1>2, <2>1 DEF BytesRead, Remaining
  <2>3. DataSizeAfterEncoding(BytesRead) = BytesRead
    BY <1>4 DEF DataSizeAfterEncoding
  <2> QED
    BY <1>2, <2>2, <2>3
<1> QED
  BY <1>3, <1>4

-----------------------------------------------------------------------------
(* Types. *)
LEMMA TypeInit == Init => TypeInv
<1> SUFFICES ASSUME Init PROVE TypeInv
  OBVIOUS
<1>1. TypeOK
  <2>1. <<>> \in Seq(Chunk)
    OBVIOUS
  <2>2. /\ message \in Seq(Chunk) /\ src \in 0..NumSources
        /\ cursor \in [Lists -> Nat] /\ upTo \in [Items -> Nat]
    BY <2>1, NumSourcesAssumption DEF Init
  <2>3. /\ pc = "source" /\ step = 0 /\ tot = 0 /\ last = FALSE /\ msgSize = 0
        /\ syncItem = None /\ read = 0 /\ chunk = "null" /\ work \in [Sources -> Works]
    BY Zenon DEF Init
  <2>4. /\ complete \subseteq Items /\ \A l \in lost : l.item \in Items
        /\ finished \cup foreign \cup garbled \subseteq Sources
    BY DEF Init
  <2>5. last \in BOOLEAN
    BY <2>3
  <2> QED
    BY <2>2, <2>3, <2>4, <2>5, NumSourcesAssumption DEF TypeOK
<1>2. ReadInItem
  BY DEF Init, ReadInItem
<1> QED
  BY <1>1, <1>2 DEF TypeInv

(* A step that puts the first item of a list in syncItem, if there is one. *)
LEMMA FirstType ==
    ASSUME TypeInv, src \in Sources, NEW l \in Lists
    PROVE  /\ ItemAt(l, 1) \in Items \cup {None}
           /\ ItemAt(l, 1) # None => 0 <= Size(ItemAt(l, 1))
           /\ [cursor EXCEPT ![l] = 1] \in [Lists -> Nat]
<1>1. /\ ItemAt(l, 1) \in Items \cup {None}
      /\ ItemAt(l, 1) # None => ItemAt(l, 1) \in Items
  BY ItemAtType DEF TypeInv
<1>2. ItemAt(l, 1) \in Items => Size(ItemAt(l, 1)) \in Nat
  BY ItemType DEF TypeInv
<1> QED
  BY <1>1, <1>2 DEF TypeInv, TypeOK

LEMMA TypeNext == TypeInv /\ [Next]_vars => TypeInv'
<1> SUFFICES ASSUME TypeInv, [Next]_vars PROVE TypeInv'
  OBVIOUS
<1>1. work' = work => Items' = Items /\ Chunk' = Chunk
  BY DEF Items, ListSize, Chunk
<1>2. work' = work /\ syncItem' = syncItem /\ read' = read => ReadInItem'
  BY DEF TypeInv, ReadInItem, Size
<1>3. CASE BeginSource
  <2>1. src \in 0..NumSources /\ (src # NumSources => src + 1 \in 1..NumSources)
    BY NumSourcesAssumption DEF TypeInv, TypeOK
  <2>2. src = NumSources => TypeOK'
    <3>1. CASE src = NumSources
      BY <1>1, <1>3, <3>1 DEF BeginSource, TypeInv, TypeOK, loop, Sources
    <3> QED
      BY <3>1
  <2>3. ASSUME src # NumSources PROVE TypeOK'
    <3>1. cursor' \in [Lists -> Nat] /\ foreign' \subseteq Sources /\ src' \in Sources
      BY <1>3, <2>1, <2>3 DEF BeginSource, TypeInv, TypeOK, Sources
    <3>2. /\ pc' = "message" /\ step' = 0 /\ tot' = 0 /\ last' = FALSE
          /\ UNCHANGED <<work, msgSize, syncItem, read, chunk, message, upTo, complete,
                         lost, finished, garbled>>
      BY <1>3, <2>3, Zenon DEF BeginSource, loop
    <3>3. last' \in BOOLEAN
      BY <3>2
    <3>4. src' \in 0..NumSources /\ src' > 0
      BY <3>1, NumSourcesAssumption DEF Sources
    <3>5. /\ step' \in 0..6 /\ tot' \in Nat /\ msgSize' \in Nat
          /\ read' \in Nat /\ chunk' \in {"null", "freed"} /\ work' \in [Sources -> Works]
          /\ finished' \cup foreign' \cup garbled' \subseteq Sources
      BY <3>1, <3>2 DEF TypeInv, TypeOK
    <3>6. /\ syncItem' \in Items' \cup {None} /\ message' \in Seq(Chunk')
          /\ upTo' \in [Items' -> Nat] /\ complete' \subseteq Items'
          /\ \A l \in lost' : l.item \in Items'
      BY <1>1, <3>2 DEF TypeInv, TypeOK
    <3> QED
      BY <3>1, <3>2, <3>3, <3>4, <3>5, <3>6 DEF TypeOK
  <2>4. TypeOK'
    BY <1>1, <1>2, <1>3, <2>2, <2>3 DEF TypeInv
  <2> QED
    BY <1>2, <1>3, <2>4 DEF BeginSource, TypeInv
<1>4. CASE SkipSource
  <2>1. src \in 0..NumSources /\ (src # NumSources => src + 1 \in 1..NumSources)
    BY NumSourcesAssumption DEF TypeInv, TypeOK
  <2>2. TypeOK'
    BY <1>1, <1>4, <2>1 DEF SkipSource, TypeInv, TypeOK, loop, history, Sources
  <2> QED
    BY <1>2, <1>4, <2>2 DEF SkipSource, TypeInv
<1>5. CASE BeginMessage
  <2>1. src \in Sources
    BY <1>5 DEF BeginMessage, TypeInv, TypeOK, Sources
  <2>2. "all" \in Lists
    BY DEF Lists
  <2>3. /\ ItemAt("all", 1) \in Items \cup {None}
        /\ ItemAt("all", 1) # None => 0 <= Size(ItemAt("all", 1))
        /\ [cursor EXCEPT !["all"] = 1] \in [Lists -> Nat]
    BY <2>1, <2>2, FirstType
  <2>4. TypeOK'
    <3>1. message' \in Seq(Chunk)
      BY <1>5 DEF BeginMessage
    <3>2. syncItem' \in Items \cup {None} /\ read' \in Nat /\ cursor' \in [Lists -> Nat]
      BY <1>5, <2>3 DEF BeginMessage, TypeInv, TypeOK
    <3>3. pc' \in {"items", "send"} /\ last' \in BOOLEAN
      BY <1>5 DEF BeginMessage, TypeInv, TypeOK
    <3> QED
      BY <1>1, <1>5, <2>1, <3>1, <3>2, <3>3 DEF BeginMessage, TypeInv, TypeOK, history, Sources
  <2>5. ReadInItem'
    <3>1. CASE syncItem' = ItemAt("all", 1) /\ read' = 0
      BY <1>5, <2>3, <3>1 DEF BeginMessage, ReadInItem, Size
    <3>2. CASE syncItem' = syncItem /\ read' = read
      BY <1>2, <1>5, <3>2 DEF BeginMessage
    <3> QED
      BY <1>5, <3>1, <3>2 DEF BeginMessage
  <2> QED
    BY <2>4, <2>5 DEF TypeInv
<1>6. CASE FirstNew
  <2>1. src \in Sources
    BY <1>6 DEF FirstNew, TypeInv, TypeOK, Sources
  <2>2. "new" \in Lists
    BY DEF Lists
  <2>3. /\ ItemAt("new", 1) \in Items \cup {None}
        /\ ItemAt("new", 1) # None => 0 <= Size(ItemAt("new", 1))
        /\ [cursor EXCEPT !["new"] = 1] \in [Lists -> Nat]
    BY <2>1, <2>2, FirstType
  <2>4. TypeOK'
    <3>1. /\ syncItem' \in Items \cup {None} /\ read' \in Nat /\ cursor' \in [Lists -> Nat]
          /\ step' \in 0..6 /\ pc' \in {"items", "dead"} /\ src' \in Sources
      <4>1. CASE FirstOf("new", 0) /\ UNCHANGED pc
        BY <1>6, <2>1, <2>3, <4>1 DEF FirstNew, FirstOf
      <4>2. CASE pc' = "dead" /\ UNCHANGED <<syncItem, read, cursor, step>>
        BY <1>6, <2>1, <4>2 DEF FirstNew, TypeInv, TypeOK
      <4> QED
        BY <1>6, <4>1, <4>2 DEF FirstNew
    <3> QED
      BY <1>1, <1>6, <3>1 DEF FirstNew, TypeInv, TypeOK, history, Sources
  <2>5. ReadInItem'
    <3>1. CASE syncItem' = ItemAt("new", 1) /\ read' = 0
      BY <1>6, <2>3, <3>1 DEF FirstNew, ReadInItem, Size
    <3>2. CASE syncItem' = syncItem /\ read' = read
      BY <1>2, <1>6, <3>2 DEF FirstNew
    <3> QED
      BY <1>6, <3>1, <3>2 DEF FirstNew, FirstOf
  <2> QED
    BY <2>4, <2>5 DEF TypeInv
<1>7. CASE FirstUpdated
  <2>1. src \in Sources
    BY <1>7 DEF FirstUpdated, TypeInv, TypeOK, Sources
  <2>2. "updated" \in Lists
    BY DEF Lists
  <2>3. /\ ItemAt("updated", 1) \in Items \cup {None}
        /\ ItemAt("updated", 1) # None => 0 <= Size(ItemAt("updated", 1))
        /\ [cursor EXCEPT !["updated"] = 1] \in [Lists -> Nat]
    BY <2>1, <2>2, FirstType
  <2>4. TypeOK'
    BY <1>1, <1>7, <2>3 DEF FirstUpdated, FirstOf, TypeInv, TypeOK, history
  <2>5. ReadInItem'
    <3>1. CASE syncItem' = ItemAt("updated", 1) /\ read' = 0
      BY <1>7, <2>3, <3>1 DEF FirstUpdated, ReadInItem, Size
    <3>2. CASE syncItem' = syncItem /\ read' = read
      BY <1>2, <1>7, <3>2 DEF FirstUpdated
    <3> QED
      BY <1>7, <3>1, <3>2 DEF FirstUpdated, FirstOf
  <2> QED
    BY <2>4, <2>5 DEF TypeInv
<1>8. CASE FirstDeleted
  <2>1. src \in Sources
    BY <1>8 DEF FirstDeleted, TypeInv, TypeOK, Sources
  <2>2. "deleted" \in Lists
    BY DEF Lists
  <2>3. /\ ItemAt("deleted", 1) \in Items \cup {None}
        /\ ItemAt("deleted", 1) # None => 0 <= Size(ItemAt("deleted", 1))
        /\ [cursor EXCEPT !["deleted"] = 1] \in [Lists -> Nat]
    BY <2>1, <2>2, FirstType
  <2>4. TypeOK'
    BY <1>1, <1>8, <2>3 DEF FirstDeleted, FirstOf, TypeInv, TypeOK, history
  <2>5. ReadInItem'
    <3>1. CASE syncItem' = ItemAt("deleted", 1) /\ read' = 0
      BY <1>8, <2>3, <3>1 DEF FirstDeleted, ReadInItem, Size
    <3>2. CASE syncItem' = syncItem /\ read' = read
      BY <1>2, <1>8, <3>2 DEF FirstDeleted
    <3> QED
      BY <1>8, <3>1, <3>2 DEF FirstDeleted, FirstOf
  <2> QED
    BY <2>4, <2>5 DEF TypeInv
<1>9. CASE ListOver
  <2>1. step \in 0..6 /\ (Mode # "slow" => step + 1 \in 0..6)
    BY <1>9 DEF ListOver, List, TypeInv, TypeOK
  <2>2. TypeOK'
    BY <1>1, <1>9, <2>1 DEF ListOver, TypeInv, TypeOK, history
  <2> QED
    BY <1>2, <1>9, <2>2 DEF ListOver, TypeInv
<1>10. CASE AllListsOver
  <2>1. TypeOK'
    BY <1>1, <1>10 DEF AllListsOver, TypeInv, TypeOK, history
  <2> QED
    BY <1>2, <1>10, <2>1 DEF AllListsOver, TypeInv
<1>11. CASE WaitForNextMessage
  <2>1. pc = "items" /\ List \in Lists /\ Current # None
    BY <1>11 DEF WaitForNextMessage, InLoop, Lists
  <2>2. /\ CursorNow \in [Lists -> Nat] /\ Current \in Items
        /\ Position \in Nat /\ Position <= Size(Current) /\ src \in Sources
    BY <2>1, CurrentType
  <2>3. TypeOK'
    BY <1>1, <1>11, <2>2 DEF WaitForNextMessage, TypeInv, TypeOK, loop, history, Sources
  <2>4. ReadInItem'
    BY <1>11, <2>2 DEF WaitForNextMessage, ReadInItem, Size
  <2> QED
    BY <2>3, <2>4 DEF TypeInv
<1>12. CASE NoChunk
  <2>1. pc = "items" /\ List \in Lists /\ Current # None
    BY <1>12 DEF NoChunk, InLoop, Lists
  <2>2. CursorNow \in [Lists -> Nat] /\ Current \in Items
    BY <2>1, CurrentType
  <2>3. TypeOK'
    BY <1>1, <1>12, <2>2 DEF NoChunk, TypeInv, TypeOK, loop
  <2>4. ReadInItem'
    BY <1>12 DEF NoChunk, ReadInItem
  <2> QED
    BY <2>3, <2>4 DEF TypeInv
<1>13. CASE AddChunk
  <2>1. pc = "items" /\ List \in Lists /\ Current # None
    BY <1>13 DEF AddChunk, InLoop, Lists
  <2>2. /\ CursorNow \in [Lists -> Nat] /\ Current \in Items
        /\ Position \in Nat /\ Size(Current) \in Nat /\ src \in Sources
    BY <2>1, CurrentType
  <2>3. /\ BytesRead \in Nat /\ BytesRead <= Size(Current) - Position
        /\ DataSizeAfterEncoding(BytesRead) \in Nat
    BY <1>13, <2>1, ChunkFits DEF AddChunk
  <2>4. Position + BytesRead \in Nat /\ Position + BytesRead <= Size(Current)
    BY <2>2, <2>3
  <2>5. /\ msgSize' \in Nat /\ tot' \in Nat
        /\ upTo' \in [Items -> Nat]
        /\ syncItem' \in Items \cup {None} /\ read' \in Nat
        /\ complete' \subseteq Items
        /\ pc' \in {"items", "send"}
        /\ chunk' \in {"null", "freed"}
    <3>1. msgSize' \in Nat /\ tot' \in Nat /\ pc' \in {"items", "send"}
      BY <1>13, <2>3 DEF AddChunk, TypeInv, TypeOK, changeOverhead, LoopOrSend
    <3>2. upTo' \in [Items -> Nat]
      BY <1>13, <2>2, <2>4 DEF AddChunk, TypeInv, TypeOK
    <3>3. /\ syncItem' \in Items \cup {None} /\ read' \in Nat
          /\ complete' \subseteq Items
      BY <1>13, <2>2, <2>4 DEF AddChunk, TypeInv, TypeOK, ReadAfterChunk
    <3> QED
      BY <1>13, <3>1, <3>2, <3>3 DEF AddChunk, ChunkAfterAdd
  <2>6. message' \in Seq(Chunk)
    <3>1. Eof \in BOOLEAN
      <4>1. Room \in Int
        BY <1>13, <2>1, ChunkFits DEF AddChunk
      <4>2. ToRead \in Int
        BY <4>1 DEF ToRead, MaxDataSizeToEncode
      <4>3. (BytesRead < ToRead) \in BOOLEAN /\ (BytesRead = Remaining) \in BOOLEAN
        BY <2>3, <4>2
      <4> QED
        BY <4>3, Zenon DEF Eof
    <3>2. [item |-> Current, from |-> Position, to |-> Position + BytesRead, last |-> Eof] \in Chunk
      BY <2>2, <2>4, <3>1 DEF Chunk
    <3> QED
      BY <1>13, <3>2 DEF AddChunk, TypeInv, TypeOK
  <2>7. TypeOK'
    BY <1>1, <1>13, <2>2, <2>5, <2>6 DEF AddChunk, TypeInv, TypeOK, Sources
  <2>8. ReadInItem'
    BY <1>13, <2>4 DEF AddChunk, ReadAfterChunk, ReadInItem, Size
  <2> QED
    BY <2>7, <2>8 DEF TypeInv
<1>14. CASE AddDeletedChunk
  <2>1. pc = "items" /\ List \in Lists /\ Current # None
    BY <1>14 DEF AddDeletedChunk, InLoop, Lists
  <2>2. /\ CursorNow \in [Lists -> Nat] /\ Current \in Items
        /\ Position \in Nat /\ Position <= Size(Current) /\ src \in Sources
    BY <2>1, CurrentType
  <2>3. CASE pc' = "dead" /\ UNCHANGED <<loop, msgSize, cursor, syncItem, read, chunk, message, history>>
    <3>1. TypeOK'
      BY <1>1, <1>14, <2>3 DEF AddDeletedChunk, TypeInv, TypeOK, loop, history
    <3> QED
      BY <1>2, <1>14, <2>3, <3>1 DEF AddDeletedChunk, TypeInv
  <2>4. ASSUME NEW eof \in BOOLEAN,
               message' = Append(message, [item |-> Current, from |-> Position,
                                           to |-> Position, last |-> eof]),
               msgSize' = msgSize + changeOverhead,
               chunk' = "null" /\ cursor' = CursorNow,
               garbled' = garbled \cup {src},
               IF eof THEN syncItem' = None /\ read' = 0 /\ complete' = complete \cup {Current}
                      ELSE syncItem' = Current /\ read' = Position /\ complete' = complete,
               IF eof \/ Mode = "twoWay" THEN pc' = LoopOrSend(msgSize') /\ tot' = tot + 1
                                         ELSE pc' = "send" /\ tot' = tot,
               UNCHANGED <<step, last, upTo, lost, finished, foreign>>
        PROVE  TypeInv'
    <3>1. [item |-> Current, from |-> Position, to |-> Position, last |-> eof] \in Chunk
      BY <2>2 DEF Chunk
    <3>2. message' \in Seq(Chunk)
      BY <2>4, <3>1 DEF TypeInv, TypeOK
    <3>3. pc' \in {"items", "send"} /\ msgSize' \in Nat /\ tot' \in Nat
      BY <2>4 DEF LoopOrSend, changeOverhead, TypeInv, TypeOK
    <3>4. TypeOK'
      BY <1>1, <1>14, <2>2, <2>4, <3>2, <3>3 DEF AddDeletedChunk, TypeInv, TypeOK, Sources
    <3>5. ReadInItem'
      BY <1>14, <2>2, <2>4 DEF AddDeletedChunk, ReadInItem, Size
    <3> QED
      BY <3>4, <3>5 DEF TypeInv
  <2> QED
    BY <1>14, <2>3, <2>4 DEF AddDeletedChunk
<1>15. CASE DropDeletion
  <2>1. pc = "items" /\ List \in Lists /\ Current # None
    BY <1>15 DEF DropDeletion, InLoop, Lists
  <2>2. CursorNow \in [Lists -> Nat] /\ Current \in Items
    BY <2>1, CurrentType
  <2>3. TypeOK'
    BY <1>1, <1>15, <2>2 DEF DropDeletion, TypeInv, TypeOK, loop
  <2>4. ReadInItem'
    BY <1>15 DEF DropDeletion, ReadInItem, TypeInv, Size
  <2> QED
    BY <2>3, <2>4 DEF TypeInv
<1>16. CASE AddDeletion
  <2>1. pc = "items" /\ List \in Lists /\ Current # None
    BY <1>16 DEF AddDeletion, InLoop, Lists
  <2>2. CursorNow \in [Lists -> Nat] /\ Current \in Items /\ src \in Sources
    BY <2>1, CurrentType
  <2>3. message' \in Seq(Chunk)
    <3>1. [item |-> Current, from |-> 0, to |-> 0, last |-> TRUE] \in Chunk
      BY <2>2 DEF Chunk
    <3> QED
      BY <1>16, <3>1 DEF AddDeletion, TypeInv, TypeOK
  <2>4. pc' \in {"items", "send"} /\ msgSize' \in Nat /\ tot' \in Nat
    BY <1>16 DEF AddDeletion, LoopOrSend, changeOverhead, TypeInv, TypeOK
  <2>5. TypeOK'
    BY <1>1, <1>16, <2>2, <2>3, <2>4 DEF AddDeletion, TypeInv, TypeOK, Sources
  <2>6. ReadInItem'
    BY <1>16 DEF AddDeletion, ReadInItem
  <2> QED
    BY <2>5, <2>6 DEF TypeInv
<1>17. CASE Answered
  <2>1. src \in Sources
    BY <1>17 DEF Answered, TypeInv, TypeOK, Sources
  <2>2. TypeOK'
    BY <1>1, <1>17, <2>1 DEF Answered, TypeInv, TypeOK, loop, Sources
  <2> QED
    BY <1>2, <1>17, <2>2 DEF Answered, TypeInv
<1>18. CASE SourceRefused
  <2>1. TypeOK'
    BY <1>1, <1>18 DEF SourceRefused, TypeInv, TypeOK, loop, history
  <2> QED
    BY <1>2, <1>18, <2>1 DEF SourceRefused, TypeInv
<1>19. CASE Ends
  <2>1. TypeOK'
    BY <1>1, <1>19 DEF Ends, TypeInv, TypeOK, loop, history
  <2> QED
    BY <1>2, <1>19, <2>1 DEF Ends, TypeInv
<1>20. CASE UNCHANGED vars
  <2>1. TypeOK'
    BY <1>1, <1>20 DEF vars, TypeInv, TypeOK, loop, history
  <2> QED
    BY <1>2, <1>20, <2>1 DEF vars, TypeInv
<1> QED
  BY <1>3, <1>4, <1>5, <1>6, <1>7, <1>8, <1>9, <1>10, <1>11, <1>12, <1>13, <1>14, <1>15,
     <1>16, <1>17, <1>18, <1>19, <1>20 DEF Next, BuildStep

-----------------------------------------------------------------------------
(* The size of a message. *)
LEMMA FitsNext == TypeInv /\ FitsMessage /\ [Next]_vars => FitsMessage'
<1> SUFFICES ASSUME TypeInv, FitsMessage, [Next]_vars PROVE FitsMessage'
  OBVIOUS
<1>1. MaxMsgSize \in Nat /\ msgSize \in Nat
  BY MaxMsgSizeAssumption DEF TypeInv, TypeOK
<1>2. CASE msgSize' = msgSize
  BY <1>2 DEF FitsMessage
<1>3. CASE BeginMessage
  BY <1>1, <1>3 DEF BeginMessage, FitsMessage
<1>4. CASE AddChunk
  <2>1. pc = "items" /\ List \in Lists /\ Current # None
    BY <1>4 DEF AddChunk, InLoop, Lists
  <2>2. /\ DataSizeAfterEncoding(BytesRead) \in Nat
        /\ DataSizeAfterEncoding(BytesRead) <= Room
    BY <1>4, <2>1, ChunkFits DEF AddChunk
  <2>3. msgSize' = msgSize + changeOverhead + DataSizeAfterEncoding(BytesRead)
    BY <1>4 DEF AddChunk
  <2> QED
    BY <1>1, <2>2, <2>3 DEF Room, changeOverhead, FitsMessage
<1>5. CASE AddDeletedChunk
  <2>1. ~(Room < 0)
    BY <1>5 DEF AddDeletedChunk, IsItemTooBig
  <2>2. msgSize' = msgSize \/ msgSize' = msgSize + changeOverhead
    BY <1>5 DEF AddDeletedChunk
  <2> QED
    BY <1>1, <2>1, <2>2 DEF Room, changeOverhead, FitsMessage
<1>6. CASE AddDeletion
  BY <1>1, <1>6 DEF AddDeletion, DeletionTooBig, DELETE_ITEM_COMMAND_SIZE, changeOverhead,
     FitsMessage
<1>7. msgSize' = msgSize \/ BeginMessage \/ AddChunk \/ AddDeletedChunk \/ AddDeletion
  BY DEF Next, BuildStep, BeginSource, SkipSource, FirstNew, FirstUpdated, FirstDeleted,
     ListOver, AllListsOver, WaitForNextMessage, NoChunk, DropDeletion, Answered,
     SourceRefused, Ends, vars
<1> QED
  BY <1>2, <1>3, <1>4, <1>5, <1>6, <1>7

(* The message being built never exceeds the size of the session: the      *)
(* chunk "too big" that sync() looks for does not happen.                  *)
THEOREM MessagesFit == Spec => []FitsMessage
<1>1. Init => FitsMessage
  BY MaxMsgSizeAssumption DEF Init, FitsMessage
<1>2. TypeInv /\ FitsMessage /\ [Next]_vars => TypeInv' /\ FitsMessage'
  BY TypeNext, FitsNext
<1> QED
  BY <1>1, <1>2, TypeInit, PTL DEF Spec

(* Every reachable state of the loops is well typed. *)
THEOREM ModsTypeCorrect == Spec => []TypeOK
<1>1. TypeInv => TypeOK
  BY DEF TypeInv
<1> QED
  BY <1>1, TypeInit, TypeNext, PTL DEF Spec

-----------------------------------------------------------------------------
(* The order of the chunks. *)
LEMMA SameOrder ==
    ASSUME Order, UNCHANGED <<work, src, cursor, syncItem, read, upTo, complete>>
    PROVE  FreshUntouched' /\ SyncItemAt'
<1>1. Items' = Items
  BY DEF Items, ListSize
<1> QED
  BY <1>1 DEF Order, FreshUntouched, SyncItemAt, Fresh

(* A list is begun: its first item was not touched. *)
LEMMA FirstOrder ==
    ASSUME IInv, src \in Sources, NEW l \in Lists, cursor[l] = 0,
           UNCHANGED <<work, src, upTo, complete>>,
           syncItem' = ItemAt(l, 1), read' = 0, cursor' = [cursor EXCEPT ![l] = 1]
    PROVE  FreshUntouched' /\ SyncItemAt'
<1>1. Items' = Items
  BY DEF Items, ListSize
<1>2. \A i \in Items : i[1] \in Sources /\ i[2] \in Lists /\ i[3] \in Nat
  <2>1. ASSUME NEW i \in Items PROVE i[1] \in Sources /\ i[2] \in Lists /\ i[3] \in Nat
    <3>1. i[1] \in Sources /\ i[2] \in Lists /\ i[3] \in 1..ListSize(i[1], i[2])
      BY ItemType DEF IInv, TypeInv
    <3>2. ListSize(i[1], i[2]) \in Nat
      BY <3>1, WorkType DEF IInv, TypeInv
    <3> QED
      BY <3>1, <3>2
  <2> QED
    BY <2>1
<1>3. cursor \in [Lists -> Nat] /\ src \in Int
  BY DEF IInv, TypeInv, TypeOK, Sources
<1>4. \A i \in Items : Fresh(i)' => Fresh(i)
  BY <1>2, <1>3 DEF Fresh
<1>5. FreshUntouched'
  BY <1>1, <1>4 DEF IInv, Order, FreshUntouched
<1>6. ASSUME syncItem' # None
      PROVE  /\ syncItem' \in Items /\ Fresh(syncItem') /\ ~Fresh(syncItem)'
  <2>1. syncItem' \in Items /\ syncItem' = <<src, l, 1>>
    <3>1. ItemAt(l, 1) # None => ItemAt(l, 1) \in Items /\ ItemAt(l, 1) = <<src, l, 1>>
      BY ItemAtType DEF IInv, TypeInv
    <3> QED
      BY <1>6, <3>1
  <2>2. syncItem'[1] = src /\ syncItem'[2] = l /\ syncItem'[3] = 1
    BY <2>1
  <2> QED
    BY <1>3, <2>1, <2>2 DEF Fresh
<1> QED
  BY <1>5, <1>6 DEF IInv, Order, FreshUntouched, SyncItemAt

(* The items whose turn has not come after an iteration. *)
FreshAfter(i) == i[1] > src \/ (i[1] = src /\ i[3] > CursorNow[i[2]])

LEMMA CurrentOrder ==
    ASSUME IInv, pc = "items", List \in Lists, Current # None
    PROVE  /\ Current \in Items
           /\ upTo[Current] = Position /\ Current \notin complete
           /\ ~FreshAfter(Current)
           /\ \A i \in Items : FreshAfter(i) => upTo[i] = 0 /\ i \notin complete
           /\ \A l \in Lists : cursor[l] = 0 => CursorNow[l] = 0
<1>1. /\ src \in Sources /\ src \in Int /\ cursor \in [Lists -> Nat]
      /\ Current \in Items
      /\ syncItem = None => /\ Current = <<src, List, cursor[List] + 1>>
                            /\ cursor[List] # 0
  BY CurrentType DEF IInv, TypeInv, TypeOK, Sources
<1>2. ASSUME NEW i \in Items PROVE i[1] \in Int /\ i[2] \in Lists /\ i[3] \in Int
  <2>1. i[1] \in Sources /\ i[2] \in Lists /\ i[3] \in 1..ListSize(i[1], i[2])
    BY ItemType DEF IInv, TypeInv
  <2> QED
    BY <2>1 DEF Sources
<1>3. CASE syncItem # None
  <2>1. Current = syncItem /\ Position = read /\ CursorNow = cursor
    BY <1>3 DEF Current, Position, CursorNow
  <2> QED
    BY <1>1, <1>3, <2>1 DEF IInv, Order, FreshUntouched, SyncItemAt, FreshAfter, Fresh
<1>4. CASE syncItem = None
  <2>1. Position = 0 /\ CursorNow = [cursor EXCEPT ![List] = cursor[List] + 1]
    BY <1>1, <1>4 DEF Position, CursorNow, Advanced
  <2>2. Current[1] = src /\ Current[2] = List /\ Current[3] = cursor[List] + 1
    BY <1>1, <1>4
  <2>3. Fresh(Current) /\ ~FreshAfter(Current)
    BY <1>1, <2>1, <2>2 DEF Fresh, FreshAfter
  <2>4. \A i \in Items : FreshAfter(i) => Fresh(i)
    BY <1>1, <1>2, <2>1 DEF Fresh, FreshAfter
  <2>5. \A l \in Lists : cursor[l] = 0 => CursorNow[l] = 0
    BY <1>1, <1>4, <2>1
  <2> QED
    BY <1>1, <2>1, <2>3, <2>4, <2>5 DEF IInv, Order, FreshUntouched
<1> QED
  BY <1>3, <1>4

LEMMA OrderInit == Init => Order
<1> SUFFICES ASSUME Init PROVE Order
  OBVIOUS
<1>1. FreshUntouched
  BY DEF Init, FreshUntouched
<1>2. SyncItemAt
  BY DEF Init, SyncItemAt
<1>3. BegunOnce
  BY DEF Init, BegunOnce, Lists
<1> QED
  BY <1>1, <1>2, <1>3 DEF Order

(* An iteration that leaves its item as it is, or for good. *)
LEMMA IterationOrder ==
    ASSUME IInv, pc = "items", List \in Lists, Current # None,
           UNCHANGED <<work, src>>, cursor' = CursorNow,
           \A i \in Items \ {Current} : upTo'[i] = upTo[i] /\ (i \in complete' => i \in complete),
           \/ syncItem' = None
           \/ syncItem' = Current /\ upTo'[Current] = read' /\ Current \notin complete'
    PROVE  FreshUntouched' /\ SyncItemAt'
<1>1. Items' = Items
  BY DEF Items, ListSize
<1>2. /\ Current \in Items /\ ~FreshAfter(Current)
      /\ \A i \in Items : FreshAfter(i) => upTo[i] = 0 /\ i \notin complete
  BY CurrentOrder
<1>3. \A i : Fresh(i)' <=> FreshAfter(i)
  BY DEF Fresh, FreshAfter
<1>4. FreshUntouched'
  BY <1>1, <1>2, <1>3 DEF FreshUntouched
<1>5. SyncItemAt'
  BY <1>2, <1>3 DEF SyncItemAt
<1> QED
  BY <1>4, <1>5

LEMMA OrderNext == IInv /\ [Next]_vars => Order'
<1> SUFFICES ASSUME IInv, [Next]_vars PROVE Order'
  OBVIOUS
<1> USE DEF loop, history
<1>1. CASE BeginSource
  <2>1. CASE src = NumSources
    <3>1. UNCHANGED <<work, src, cursor, syncItem, read, upTo, complete, step>> /\ pc' = "done"
      BY <1>1, <2>1 DEF BeginSource
    <3> QED
      BY <3>1, SameOrder DEF IInv, Order, BegunOnce
  <2>2. CASE src # NumSources
    <3>1. /\ src' = src + 1 /\ cursor' = [l \in Lists |-> 0]
          /\ UNCHANGED <<work, syncItem, read, upTo, complete>>
      BY <1>1, <2>2 DEF BeginSource
    <3>2. Items' = Items
      BY <3>1 DEF Items, ListSize
    <3>3. src \in Int /\ \A i \in Items : i[1] \in Int /\ i[2] \in Lists /\ i[3] \in Int
      <4>1. ASSUME NEW i \in Items PROVE i[1] \in Int /\ i[2] \in Lists /\ i[3] \in Int
        <5>1. i[1] \in Sources /\ i[2] \in Lists /\ i[3] \in 1..ListSize(i[1], i[2])
          BY ItemType DEF IInv, TypeInv
        <5> QED
          BY <5>1 DEF Sources
      <4> QED
        BY <4>1 DEF IInv, TypeInv, TypeOK
    <3>4. \A i \in Items : Fresh(i)' => Fresh(i)
      BY <3>1, <3>3 DEF Fresh
    <3>5. FreshUntouched'
      BY <3>1, <3>2, <3>4 DEF IInv, Order, FreshUntouched
    <3>6. SyncItemAt'
      BY <3>1, <3>4 DEF IInv, Order, SyncItemAt, TypeInv, TypeOK
    <3>7. BegunOnce'
      BY <3>1 DEF BegunOnce, Lists
    <3> QED
      BY <3>5, <3>6, <3>7 DEF Order
  <2> QED
    BY <2>1, <2>2
<1>2. CASE SkipSource
  <2>1. src' = src + 1 /\ pc' = "source" /\ UNCHANGED <<work, cursor, syncItem, read, upTo, complete, step>>
    BY <1>2 DEF SkipSource
  <2>2. Items' = Items
    BY <2>1 DEF Items, ListSize
  <2>3. src \in Int /\ \A i \in Items : i[1] \in Int
    <3>1. ASSUME NEW i \in Items PROVE i[1] \in Int
      BY ItemType DEF IInv, TypeInv, Sources
    <3> QED
      BY <3>1 DEF IInv, TypeInv, TypeOK
  <2>4. \A i \in Items : Fresh(i)' => i[1] > src
    BY <2>1, <2>3 DEF Fresh
  <2>5. FreshUntouched' /\ SyncItemAt'
    BY <2>1, <2>2, <2>4 DEF IInv, Order, FreshUntouched, SyncItemAt, Fresh, TypeInv, TypeOK
  <2> QED
    BY <2>1, <2>5 DEF IInv, Order, BegunOnce
<1>3. CASE BeginMessage
  <2>1. src \in Sources /\ tot \in Nat /\ cursor \in [Lists -> Nat]
    BY <1>3 DEF BeginMessage, IInv, TypeInv, TypeOK, Sources
  <2>2. UNCHANGED <<work, src, upTo, complete, step>> /\ pc' \in {"items", "send"} /\ pc = "message"
    BY <1>3 DEF BeginMessage
  <2>3. CASE Mode = "slow" /\ syncItem = None /\ tot = 0
    <3>1. syncItem' = ItemAt("all", 1) /\ read' = 0 /\ cursor' = [cursor EXCEPT !["all"] = 1]
      BY <1>3, <2>3 DEF BeginMessage
    <3>2. cursor["all"] = 0
      BY <2>2, <2>3 DEF IInv, Order, BegunOnce
    <3>3. FreshUntouched' /\ SyncItemAt'
      BY <2>1, <2>2, <3>1, <3>2, FirstOrder DEF Lists
    <3>4. pc' = "items"
      BY <1>3, <2>3 DEF BeginMessage
    <3>5. BegunOnce'
      BY <2>1, <2>2, <3>1, <3>4 DEF IInv, Order, BegunOnce, Lists
    <3> QED
      BY <3>3, <3>5 DEF Order
  <2>4. CASE ~(Mode = "slow" /\ syncItem = None /\ tot = 0)
    <3>1. UNCHANGED <<syncItem, read, cursor>>
      BY <1>3, <2>4 DEF BeginMessage
    <3>2. pc' = "items" \/ last'
      BY <1>3 DEF BeginMessage
    <3>3. BegunOnce'
      BY <2>2, <3>1, <3>2 DEF IInv, Order, BegunOnce
    <3> QED
      BY <2>2, <3>1, <3>3, SameOrder DEF IInv, Order
  <2> QED
    BY <2>3, <2>4
<1>4. CASE FirstNew
  <2>1. src \in Sources /\ cursor \in [Lists -> Nat] /\ pc' \in {"items", "dead"}
    BY <1>4 DEF FirstNew, IInv, TypeInv, TypeOK, Sources
  <2>2. UNCHANGED <<work, src, upTo, complete>> /\ step = 0
    BY <1>4 DEF FirstNew
  <2>3. CASE FirstOf("new", 0)
    <3>1. /\ syncItem' = ItemAt("new", 1) /\ read' = 0 /\ cursor' = [cursor EXCEPT !["new"] = 1]
          /\ step' \in {1, 2}
      BY <2>3 DEF FirstOf
    <3>2. cursor["new"] = 0 /\ cursor["updated"] = 0 /\ cursor["deleted"] = 0
      BY <2>2 DEF IInv, Order, BegunOnce
    <3>3. FreshUntouched' /\ SyncItemAt'
      BY <2>1, <2>2, <3>1, <3>2, FirstOrder DEF Lists
    <3>4. BegunOnce'
      BY <2>1, <3>1, <3>2 DEF BegunOnce, Lists
    <3> QED
      BY <3>3, <3>4 DEF Order
  <2>4. CASE UNCHANGED <<syncItem, read, cursor, step>>
    BY <2>1, <2>2, <2>4, SameOrder DEF IInv, Order, BegunOnce
  <2> QED
    BY <1>4, <2>3, <2>4 DEF FirstNew
<1>5. CASE FirstUpdated
  <2>1. src \in Sources /\ cursor \in [Lists -> Nat] /\ pc' = "items"
    BY <1>5 DEF FirstUpdated, IInv, TypeInv, TypeOK, Sources
  <2>2. UNCHANGED <<work, src, upTo, complete>> /\ step = 2
    BY <1>5 DEF FirstUpdated
  <2>3. /\ syncItem' = ItemAt("updated", 1) /\ read' = 0
        /\ cursor' = [cursor EXCEPT !["updated"] = 1] /\ step' \in {3, 4}
    BY <1>5 DEF FirstUpdated, FirstOf
  <2>4. cursor["updated"] = 0 /\ cursor["deleted"] = 0
    BY <2>2 DEF IInv, Order, BegunOnce
  <2>5. FreshUntouched' /\ SyncItemAt'
    BY <2>1, <2>2, <2>3, <2>4, FirstOrder DEF Lists
  <2>6. BegunOnce'
    BY <2>1, <2>3, <2>4 DEF BegunOnce, Lists
  <2> QED
    BY <2>5, <2>6 DEF Order
<1>6. CASE FirstDeleted
  <2>1. src \in Sources /\ cursor \in [Lists -> Nat] /\ pc' = "items"
    BY <1>6 DEF FirstDeleted, IInv, TypeInv, TypeOK, Sources
  <2>2. UNCHANGED <<work, src, upTo, complete>> /\ step = 4
    BY <1>6 DEF FirstDeleted
  <2>3. /\ syncItem' = ItemAt("deleted", 1) /\ read' = 0
        /\ cursor' = [cursor EXCEPT !["deleted"] = 1] /\ step' \in {5, 6}
    BY <1>6 DEF FirstDeleted, FirstOf
  <2>4. cursor["deleted"] = 0
    BY <2>2 DEF IInv, Order, BegunOnce
  <2>5. FreshUntouched' /\ SyncItemAt'
    BY <2>1, <2>2, <2>3, <2>4, FirstOrder DEF Lists
  <2>6. BegunOnce'
    BY <2>1, <2>3 DEF BegunOnce, Lists
  <2> QED
    BY <2>5, <2>6 DEF Order
<1>7. CASE ListOver
  <2>1. /\ UNCHANGED <<work, src, cursor, syncItem, read, upTo, complete>>
        /\ step' = step \/ step' = step + 1
        /\ pc' = "items" \/ (pc' = "send" /\ last')
        /\ step \in Int
    BY <1>7 DEF ListOver, List, IInv, TypeInv, TypeOK
  <2>2. BegunOnce'
    BY <2>1 DEF IInv, Order, BegunOnce
  <2> QED
    BY <2>1, <2>2, SameOrder DEF IInv, Order
<1>8. CASE AllListsOver
  <2>1. UNCHANGED <<work, src, cursor, syncItem, read, upTo, complete, step>> /\ last' /\ pc' = "send"
    BY <1>8 DEF AllListsOver
  <2> QED
    BY <2>1, SameOrder DEF IInv, Order, BegunOnce
<1>9. ASSUME pc = "items", List \in Lists, Current # None,
             UNCHANGED <<work, src, step>>, cursor' = CursorNow,
             pc' \in {"items", "dead"} \/ syncItem' # None \/ tot' > 0 \/ Mode # "slow",
             FreshUntouched', SyncItemAt'
      PROVE  Order'
  <2>1. \A l \in Lists : cursor[l] = 0 => cursor'[l] = 0
    BY <1>9, CurrentOrder
  <2>2. BegunOnce'
    BY <1>9, <2>1 DEF IInv, Order, BegunOnce, Lists, Mode
  <2> QED
    BY <1>9, <2>2 DEF Order
<1>10. CASE WaitForNextMessage
  <2>1. pc = "items" /\ List \in Lists /\ Current # None
    BY <1>10 DEF WaitForNextMessage, InLoop, Lists
  <2>2. upTo[Current] = Position /\ Current \notin complete
    BY <2>1, CurrentOrder
  <2>3. /\ UNCHANGED <<work, src, step, upTo, complete>> /\ cursor' = CursorNow
        /\ syncItem' = Current /\ read' = Position
    BY <1>10 DEF WaitForNextMessage
  <2>4. FreshUntouched' /\ SyncItemAt'
    BY <2>1, <2>2, <2>3, IterationOrder
  <2> QED
    BY <1>9, <2>1, <2>3, <2>4
<1>11. CASE NoChunk
  <2>1. pc = "items" /\ List \in Lists /\ Current # None
    BY <1>11 DEF NoChunk, InLoop, Lists
  <2>2. /\ UNCHANGED <<work, src, step, upTo, complete>> /\ cursor' = CursorNow
        /\ syncItem' = None /\ pc' = "items"
    BY <1>11, <2>1 DEF NoChunk
  <2>3. FreshUntouched' /\ SyncItemAt'
    BY <2>1, <2>2, IterationOrder
  <2> QED
    BY <1>9, <2>1, <2>2, <2>3
<1>12. CASE AddChunk
  <2>1. pc = "items" /\ List \in Lists /\ Current # None
    BY <1>12 DEF AddChunk, InLoop, Lists
  <2>2. Current \in Items /\ upTo[Current] = Position /\ Current \notin complete
    BY <2>1, CurrentOrder
  <2>3. /\ UNCHANGED <<work, src, step>> /\ cursor' = CursorNow
        /\ upTo' = [upTo EXCEPT ![Current] = Position + BytesRead]
        /\ \/ syncItem' = None /\ complete' = complete \cup {Current}
           \/ syncItem' = Current /\ read' = Position + BytesRead /\ complete' = complete
        /\ \/ pc' = "send" /\ syncItem' # None
           \/ tot' = tot + 1
    BY <1>12, <2>1 DEF AddChunk, ReadAfterChunk
  <2>4. upTo \in [Items -> Nat] /\ tot \in Nat
    BY DEF IInv, TypeInv, TypeOK
  <2>5. /\ \A i \in Items \ {Current} : upTo'[i] = upTo[i] /\ (i \in complete' => i \in complete)
        /\ upTo'[Current] = Position + BytesRead
    BY <2>2, <2>3, <2>4
  <2>6. FreshUntouched' /\ SyncItemAt'
    BY <2>1, <2>2, <2>3, <2>5, IterationOrder
  <2> QED
    BY <1>9, <2>1, <2>3, <2>4, <2>6
<1>13. CASE AddDeletedChunk
  <2>1. pc = "items" /\ List \in Lists /\ Current # None
    BY <1>13 DEF AddDeletedChunk, InLoop, Lists
  <2>2. Current \in Items /\ upTo[Current] = Position /\ Current \notin complete
    BY <2>1, CurrentOrder
  <2>3. CASE pc' = "dead" /\ UNCHANGED <<loop, msgSize, cursor, syncItem, read, chunk, message, history>>
    <3>1. UNCHANGED <<work, src, cursor, syncItem, read, upTo, complete, step>> /\ pc' = "dead"
      BY <1>13, <2>3 DEF AddDeletedChunk
    <3> QED
      BY <3>1, SameOrder DEF IInv, Order, BegunOnce
  <2>4. ASSUME NEW eof \in BOOLEAN,
               cursor' = CursorNow,
               IF eof THEN syncItem' = None /\ read' = 0 /\ complete' = complete \cup {Current}
                      ELSE syncItem' = Current /\ read' = Position /\ complete' = complete,
               IF eof \/ Mode = "twoWay" THEN pc' = LoopOrSend(msgSize') /\ tot' = tot + 1
                                         ELSE pc' = "send" /\ tot' = tot,
               UNCHANGED <<step, last, upTo, lost, finished, foreign>>
        PROVE  Order'
    <3>1. UNCHANGED <<work, src, step, upTo>>
      BY <1>13, <2>4 DEF AddDeletedChunk
    <3>2. \/ syncItem' = None /\ complete' = complete \cup {Current} /\ tot' = tot + 1
          \/ syncItem' = Current /\ read' = Position /\ complete' = complete
      BY <2>4
    <3>3. FreshUntouched' /\ SyncItemAt'
      BY <2>1, <2>2, <2>4, <3>1, <3>2, IterationOrder
    <3>4. tot \in Nat
      BY DEF IInv, TypeInv, TypeOK
    <3> QED
      BY <1>9, <2>1, <2>4, <3>1, <3>2, <3>3, <3>4
  <2> QED
    BY <1>13, <2>3, <2>4 DEF AddDeletedChunk
<1>14. CASE DropDeletion
  <2>1. pc = "items" /\ List \in Lists /\ Current # None /\ Mode # "slow"
    BY <1>14 DEF DropDeletion, InLoop, Lists, List
  <2>2. UNCHANGED <<work, src, step, upTo, complete, read>>
    BY <1>14 DEF DropDeletion
  <2>3. CASE pc' = "dead" /\ UNCHANGED <<syncItem, cursor>>
    BY <2>2, <2>3, SameOrder DEF IInv, Order, BegunOnce
  <2>4. CASE syncItem' = None /\ cursor' = CursorNow
    <3>1. FreshUntouched' /\ SyncItemAt'
      BY <2>1, <2>2, <2>4, IterationOrder
    <3> QED
      BY <1>9, <2>1, <2>2, <2>4, <3>1
  <2> QED
    BY <1>14, <2>3, <2>4 DEF DropDeletion
<1>15. CASE AddDeletion
  <2>1. pc = "items" /\ List \in Lists /\ Current # None /\ Mode # "slow"
    BY <1>15 DEF AddDeletion, InLoop, Lists, List
  <2>2. /\ UNCHANGED <<work, src, step, upTo>> /\ cursor' = CursorNow /\ syncItem' = None
        /\ complete' = complete \cup {Current}
    BY <1>15 DEF AddDeletion
  <2>3. FreshUntouched' /\ SyncItemAt'
    BY <2>1, <2>2, IterationOrder
  <2> QED
    BY <1>9, <2>1, <2>2, <2>3
<1>16. CASE Answered
  <2>1. /\ UNCHANGED <<work, src, cursor, syncItem, read, upTo, complete, step, tot, last>>
        /\ pc = "send" /\ (pc' = "source" \/ (pc' = "message" /\ ~last))
    BY <1>16 DEF Answered
  <2>2. BegunOnce'
    BY <2>1 DEF IInv, Order, BegunOnce, Mode
  <2> QED
    BY <2>1, <2>2, SameOrder DEF IInv, Order
<1>17. CASE SourceRefused
  <2>1. UNCHANGED <<work, src, cursor, syncItem, read, upTo, complete, step>> /\ pc' = "source"
    BY <1>17 DEF SourceRefused
  <2> QED
    BY <2>1, SameOrder DEF IInv, Order, BegunOnce
<1>18. CASE Ends
  <2>1. UNCHANGED <<work, src, cursor, syncItem, read, upTo, complete, step>> /\ pc' = "done"
    BY <1>18 DEF Ends
  <2> QED
    BY <2>1, SameOrder DEF IInv, Order, BegunOnce
<1>19. CASE UNCHANGED vars
  <2>1. UNCHANGED <<work, src, cursor, syncItem, read, upTo, complete, step, pc, tot, last>>
    BY <1>19 DEF vars
  <2>2. BegunOnce'
    BY <2>1 DEF IInv, Order, BegunOnce, Mode
  <2> QED
    BY <2>1, <2>2, SameOrder DEF IInv, Order
<1> QED
  BY <1>1, <1>2, <1>3, <1>4, <1>5, <1>6, <1>7, <1>8, <1>10, <1>11, <1>12, <1>13, <1>14,
     <1>15, <1>16, <1>17, <1>18, <1>19 DEF Next, BuildStep

LEMMA ChunkStep ==
    IInv /\ [Next]_vars =>
        [\A i \in Items : upTo'[i] # upTo[i] =>
            /\ i \notin complete
            /\ message'[Len(message')].item = i
            /\ message'[Len(message')].from = upTo[i]]_vars
<1> SUFFICES ASSUME IInv, Next, NEW i \in Items, upTo'[i] # upTo[i]
             PROVE  /\ i \notin complete
                    /\ message'[Len(message')].item = i
                    /\ message'[Len(message')].from = upTo[i]
  OBVIOUS
<1>1. AddChunk
  BY DEF Next, BuildStep, BeginSource, SkipSource, BeginMessage, FirstNew, FirstUpdated,
     FirstDeleted, ListOver, AllListsOver, WaitForNextMessage, NoChunk, AddDeletedChunk,
     DropDeletion, AddDeletion, Answered, SourceRefused, Ends, history
<1>2. pc = "items" /\ List \in Lists /\ Current # None
  BY <1>1 DEF AddChunk, InLoop, Lists
<1>3. Current \in Items /\ upTo[Current] = Position /\ Current \notin complete
  BY <1>2, CurrentOrder
<1>4. i = Current
  BY <1>1, <1>3 DEF AddChunk, IInv, TypeInv, TypeOK
<1>5. /\ Position \in Nat /\ BytesRead \in Nat /\ message \in Seq(Chunk)
      /\ message' = Append(message, [item |-> Current, from |-> Position,
                                     to |-> Position + BytesRead, last |-> Eof])
  BY <1>1, <1>2, CurrentType, ChunkFits DEF AddChunk, IInv, TypeInv, TypeOK
<1>6. Len(message') = Len(message) + 1
  BY <1>5
<1>7. message'[Len(message')] = [item |-> Current, from |-> Position,
                                 to |-> Position + BytesRead, last |-> Eof]
  BY <1>5, <1>6
<1> QED
  BY <1>3, <1>4, <1>7

(* A chunk begins where the one before it of the same item ended, whatever *)
(* the messages and the sources in between, and none follows the last.     *)
THEOREM ChunksOrdered == Spec => ChunksInOrder
<1>1. Init => IInv
  BY TypeInit, OrderInit DEF IInv
<1>2. IInv /\ [Next]_vars => IInv'
  BY TypeNext, OrderNext DEF IInv
<1> QED
  BY <1>1, <1>2, ChunkStep, PTL DEF Spec, ChunksInOrder

-----------------------------------------------------------------------------
(* What the sources have sent: the items before the cursors are settled,   *)
(* and what syncItem, last and chunk mean between messages and sources.    *)

InSource == pc \in {"message", "items", "send"}

(* Sources end and begin in their order, and last is for the last message. *)
Marks ==
    /\ foreign \subseteq 1..src /\ finished \subseteq 1..src
    /\ InSource => src \notin finished
    /\ InSource /\ Mode # "twoWay" => step = 0
    /\ pc \in {"message", "items"} => ~last

(* The item kept is the one the cursor of the list at hand is at, but for  *)
(* an item of another source before the first list begins.                 *)
OwnItem ==
    InSource /\ (src \notin foreign \/ step > 0) /\ syncItem # None =>
        List \in Lists /\ syncItem = <<src, List, cursor[List]>>

(* An item is carried to the next source by one that was refused.          *)
Carried ==
    /\ pc = "send" /\ last /\ syncItem # None => src \in foreign
    /\ pc = "source" /\ syncItem # None => \E r \in Sources \ finished : r <= src
    /\ \A s \in foreign : \E r \in Sources \ finished : r < s

(* A deleted chunk is left by a deletion, the last list of its source.     *)
Freed ==
    /\ chunk = "freed" => \E i \in complete :
          /\ i[2] = "deleted"
          /\ i[1] < src \/ (i[1] = src /\ (InSource => Mode = "twoWay" /\ step >= 5))
    /\ \A s \in garbled : \E i \in complete : i[1] < s /\ i[2] = "deleted"

(* The list at hand was begun. *)
Begun ==
    InSource /\ src \notin foreign =>
        /\ Mode = "slow" /\ pc = "message" /\ cursor["all"] = 0 => tot = 0 /\ syncItem = None
        /\ Mode = "slow" /\ pc # "message" => cursor["all"] > 0
        /\ Mode = "twoWay" /\ List \in Lists => cursor[List] > 0

Over(l) == \A i \in Items : i[1] = src /\ i[2] = l => i[3] <= cursor[l]

(* The lists that are over. *)
Overs ==
    InSource /\ src \notin foreign =>
        /\ step >= 2 => Over("new")
        /\ step >= 4 => Over("updated")
        /\ step >= 6 => Over("deleted")
        /\ pc = "send" /\ last /\ Mode = "slow" => Over("all")
        /\ pc = "send" /\ last /\ Mode = "twoWay" => step = 6

(* What AllSent says of an item. *)
Settled(i) ==
    \/ i \in complete /\ (i[2] # "deleted" => upTo[i] = Size(i) \/ i[1] \in garbled)
    \/ \E l \in lost : l.item = i

Handled ==
    InSource /\ src \notin foreign =>
        \A i \in Items : i[1] = src /\ i[3] <= cursor[i[2]] /\ i # syncItem => Settled(i)

ListsOf(s) == CASE work[s].mode = "slow" -> {"all"}
                [] work[s].mode = "twoWay" -> {"new", "updated", "deleted"}
                [] OTHER -> {}

Ended ==
    \A s \in finished \ foreign : \A i \in Items :
        i[1] = s /\ i[2] \in ListsOf(s) => Settled(i)

(* A buffer is never kept at its end, only a file.                         *)
ReadShort ==
    syncItem # None =>
        work[syncItem[1]].file \/ Size(syncItem) = 0 \/ read < Size(syncItem)

Sequence == Marks /\ OwnItem /\ Carried /\ Begun /\ Overs /\ Handled /\ Ended

SentInv == IInv /\ Sequence /\ Freed /\ ReadShort

-----------------------------------------------------------------------------
(* Work does not change, and what is sent, given up or damaged stays so.   *)
LEMMA Grows ==
    ASSUME [Next]_vars
    PROVE  /\ work' = work /\ Items' = Items /\ \A i : Size(i)' = Size(i)
           /\ \A s : ListsOf(s)' = ListsOf(s)
           /\ complete \subseteq complete' /\ lost \subseteq lost'
           /\ garbled \subseteq garbled'
           /\ finished \subseteq finished' /\ foreign \subseteq foreign'
<1>1. /\ work' = work
      /\ complete \subseteq complete' /\ lost \subseteq lost'
      /\ garbled \subseteq garbled'
      /\ finished \subseteq finished' /\ foreign \subseteq foreign'
  <2>2. CASE BeginSource
    BY <2>2 DEF BeginSource, history
  <2>3. CASE SkipSource
    BY <2>3 DEF SkipSource, history
  <2>4. CASE BeginMessage
    BY <2>4 DEF BeginMessage, history
  <2>5. CASE FirstNew
    BY <2>5 DEF FirstNew, history
  <2>6. CASE FirstUpdated
    BY <2>6 DEF FirstUpdated, history
  <2>7. CASE FirstDeleted
    BY <2>7 DEF FirstDeleted, history
  <2>8. CASE ListOver
    BY <2>8 DEF ListOver, history
  <2>9. CASE AllListsOver
    BY <2>9 DEF AllListsOver, history
  <2>10. CASE WaitForNextMessage
    BY <2>10 DEF WaitForNextMessage, history
  <2>11. CASE NoChunk
    BY <2>11 DEF NoChunk, history
  <2>12. CASE AddChunk
    BY <2>12 DEF AddChunk, history
  <2>13. CASE AddDeletedChunk
    BY <2>13 DEF AddDeletedChunk, history
  <2>14. CASE DropDeletion
    BY <2>14 DEF DropDeletion, history
  <2>15. CASE AddDeletion
    BY <2>15 DEF AddDeletion, history
  <2>16. CASE Answered
    BY <2>16 DEF Answered, history
  <2>17. CASE SourceRefused
    BY <2>17 DEF SourceRefused, history
  <2>18. CASE Ends
    BY <2>18 DEF Ends, history
  <2>19. CASE UNCHANGED vars
    BY <2>19 DEF vars, history
  <2> QED
    BY <2>2, <2>3, <2>4, <2>5, <2>6, <2>7, <2>8, <2>9, <2>10, <2>11, <2>12, <2>13, <2>14, <2>15, <2>16, <2>17, <2>18, <2>19
    DEF Next, BuildStep
<1> QED
  BY <1>1 DEF Items, ListSize, Size, ListsOf

LEMMA SettledStays ==
    ASSUME IInv, [Next]_vars, NEW i \in Items, Settled(i)
    PROVE  Settled(i)'
<1>1. /\ Size(i)' = Size(i) /\ complete \subseteq complete' /\ lost \subseteq lost'
      /\ garbled \subseteq garbled'
  BY Grows
<1>2. i \in complete => upTo'[i] = upTo[i]
  <2>1. CASE UNCHANGED vars
    BY <2>1 DEF vars, history
  <2>2. CASE ~UNCHANGED vars
    BY <2>2, ChunkStep
  <2> QED
    BY <2>1, <2>2
<1> QED
  BY <1>1, <1>2 DEF Settled

LEMMA EndedStays ==
    ASSUME SentInv, [Next]_vars, finished' = finished
    PROVE  Ended'
BY Grows, SettledStays DEF SentInv, Sequence, Ended

(* Out of the messages of a source, little is to show. *)
LEMMA OutOfSource ==
    ASSUME SentInv, [Next]_vars, pc' \notin {"message", "items", "send"},
           finished' = finished, foreign' = foreign, src' >= src, src' \in Nat,
           pc' = "source" /\ syncItem' # None => \E r \in Sources \ finished : r <= src'
    PROVE  Sequence'
<1>1. ~InSource'
  BY DEF InSource
<1>2. foreign \subseteq 1..src /\ finished \subseteq 1..src /\ src \in Nat
  BY DEF SentInv, Sequence, Marks, IInv, TypeInv, TypeOK
<1>3. Marks'
  BY <1>1, <1>2 DEF Marks
<1>4. Carried'
  BY DEF SentInv, Sequence, Carried
<1> QED
  BY <1>1, <1>3, <1>4, EndedStays DEF Sequence, OwnItem, Begun, Overs, Handled

LEMMA NoneNoItem ==
    ASSUME SentInv
    PROVE  \A i \in Items : i # None
<1> SUFFICES ASSUME NEW i \in Items PROVE i # None
  OBVIOUS
<1>1. /\ i[1] \in Sources /\ i[2] \in Lists /\ i[3] \in 1..ListSize(i[1], i[2])
      /\ i = <<i[1], i[2], i[3]>>
  BY ItemType DEF SentInv, IInv, TypeInv
<1>2. i[3] \in Nat
  BY <1>1
<1> QED
  BY <1>1, <1>2, NoneAssumption

(* The item of an iteration, and the cursor after it. *)
LEMMA OwnCurrent ==
    ASSUME SentInv, pc = "items", List \in Lists, Current # None,
           src \notin foreign \/ step > 0
    PROVE  /\ Current \in Items /\ Current = <<src, List, CursorNow[List]>>
           /\ CursorNow \in [Lists -> Nat]
           /\ cursor[List] \in Nat /\ cursor[List] <= CursorNow[List]
           /\ \A l \in Lists : l # List => CursorNow[l] = cursor[l]
           /\ CursorNow[List] = (IF syncItem = None THEN cursor[List] + 1 ELSE cursor[List])
           /\ CursorNow[List] > 0
<1>1. /\ Current \in Items /\ CursorNow \in [Lists -> Nat] /\ cursor \in [Lists -> Nat]
      /\ syncItem = None => Current = <<src, List, cursor[List] + 1>> /\ cursor[List] # 0
  BY CurrentType DEF SentInv, IInv, TypeInv, TypeOK
<1>2. CASE syncItem = None
  <2>1. CursorNow = [cursor EXCEPT ![List] = cursor[List] + 1]
    BY <1>1, <1>2 DEF CursorNow, Advanced
  <2> QED
    BY <1>1, <1>2, <2>1
<1>3. CASE syncItem # None
  <2>1. CursorNow = cursor /\ Current = syncItem
    BY <1>3 DEF CursorNow, Current
  <2>2. syncItem = <<src, List, cursor[List]>>
    BY <1>3 DEF SentInv, Sequence, OwnItem, InSource
  <2>3. cursor[List] > 0
    <3>1. Current[3] \in 1..ListSize(Current[1], Current[2])
      BY <1>1, ItemType DEF SentInv, IInv, TypeInv
    <3>2. Current[3] = cursor[List]
      BY <2>1, <2>2
    <3>3. cursor[List] \in Nat
      BY <1>1
    <3> QED
      BY <3>1, <3>2, <3>3
  <2> QED
    BY <1>1, <1>3, <2>1, <2>2, <2>3
<1> QED
  BY <1>2, <1>3

(* An iteration of a loop keeps its item, or settles it. *)
LEMMA Iteration ==
    ASSUME SentInv, [Next]_vars, pc = "items", List \in Lists, Current # None,
           UNCHANGED <<work, src, step, last, finished, foreign>>,
           pc' \in {"items", "send"}, cursor' = CursorNow, syncItem' \in {None, Current},
           \A i \in Items : i = Current /\ src \notin foreign /\ syncItem' = None => Settled(i)'
    PROVE  Sequence'
<1>t. TypeOK /\ src \in Nat /\ cursor \in [Lists -> Nat] /\ InSource
  BY DEF SentInv, IInv, TypeInv, TypeOK, InSource
<1>1. Mode' = Mode /\ List' = List /\ Items' = Items
  BY Grows DEF Mode, List
<1>2. Marks'
  BY <1>t, <1>1 DEF SentInv, Sequence, Marks, InSource
<1>3. ~last
  BY DEF SentInv, Sequence, Marks
<1>4. OwnItem'
  <2> SUFFICES ASSUME src \notin foreign \/ step > 0, syncItem' # None
               PROVE  syncItem' = <<src, List, CursorNow[List]>>
    BY <1>1 DEF OwnItem
  <2> QED
    BY OwnCurrent
<1>5. Carried'
  BY <1>3 DEF SentInv, Sequence, Carried
<1>6. Ended'
  BY EndedStays
<1>7. CASE src \in foreign
  BY <1>2, <1>4, <1>5, <1>6, <1>7 DEF Sequence, Begun, Overs, Handled
<1>8. CASE src \notin foreign
  <2>1. /\ Current \in Items /\ Current = <<src, List, CursorNow[List]>>
        /\ CursorNow \in [Lists -> Nat]
        /\ cursor[List] \in Nat /\ cursor[List] <= CursorNow[List]
        /\ \A l \in Lists : l # List => CursorNow[l] = cursor[l]
        /\ CursorNow[List] = (IF syncItem = None THEN cursor[List] + 1 ELSE cursor[List])
        /\ CursorNow[List] > 0
    BY <1>8, OwnCurrent
  <2>2. \A l \in Lists : cursor[l] \in Nat /\ CursorNow[l] \in Nat /\ cursor[l] <= CursorNow[l]
    BY <1>t, <2>1
  <2>3. \A i \in Items : /\ i[1] \in Sources /\ i[2] \in Lists /\ i[3] \in Int
                         /\ i = <<i[1], i[2], i[3]>>
    <3> SUFFICES ASSUME NEW i \in Items PROVE i[1] \in Sources /\ i[2] \in Lists /\ i[3] \in Int
                                              /\ i = <<i[1], i[2], i[3]>>
      OBVIOUS
    <3>1. /\ i[1] \in Sources /\ i[2] \in Lists /\ i[3] \in 1..ListSize(i[1], i[2])
          /\ i = <<i[1], i[2], i[3]>>
      BY <1>t, ItemType
    <3> QED
      BY <3>1
  <2>4. Mode = "slow" => List = "all"
    BY DEF List
  <2>5. Begun'
    <3>1. Mode = "slow" => cursor'["all"] > 0
      BY <2>1, <2>4
    <3>2. Mode = "twoWay" => cursor'[List] > 0
      BY <2>1
    <3>3. pc' # "message"
      OBVIOUS
    <3> QED
      BY <1>1, <3>1, <3>2, <3>3 DEF Begun
  <2>6. Overs'
    <3>1. ASSUME NEW l \in Lists, Over(l) PROVE Over(l)'
      <4> SUFFICES ASSUME NEW i \in Items, i[1] = src, i[2] = l PROVE i[3] <= CursorNow[l]
        BY <1>1 DEF Over
      <4>1. i[3] <= cursor[l] /\ i[3] \in Int
        BY <2>3, <3>1 DEF Over
      <4> QED
        BY <2>2, <4>1
    <3>2. {"new", "updated", "deleted"} \subseteq Lists
      BY DEF Lists
    <3>3. /\ step >= 2 => Over("new")
          /\ step >= 4 => Over("updated")
          /\ step >= 6 => Over("deleted")
      BY <1>t, <1>8 DEF SentInv, Sequence, Overs
    <3>4. ~last'
      BY <1>3
    <3> QED
      BY <3>1, <3>2, <3>3, <3>4 DEF Overs
  <2>7. Handled'
    <3> SUFFICES ASSUME NEW i \in Items, i[1] = src, i[3] <= CursorNow[i[2]], i # syncItem'
                 PROVE  Settled(i)'
      BY <1>1 DEF Handled
    <3>1. CASE i = Current
      BY <1>8, <3>1
    <3>2. CASE i # Current
      <4>1. i[3] <= cursor[i[2]]
        <5>1. i[2] \in Lists /\ i[3] \in Int /\ i = <<src, i[2], i[3]>>
          BY <2>3
        <5>2. CASE i[2] # List
          BY <2>1, <5>1, <5>2
        <5>3. CASE i[2] = List
          <6>1. i[3] # CursorNow[List]
            BY <2>1, <3>2, <5>1, <5>3
          <6>2. i[3] <= CursorNow[List]
            BY <5>3
          <6> QED
            BY <2>1, <2>2, <5>1, <5>3, <6>1, <6>2
        <5> QED
          BY <5>2, <5>3
      <4>2. i # syncItem
        BY <3>2, NoneNoItem DEF Current
      <4>3. Settled(i)
        BY <1>t, <1>8, <4>1, <4>2 DEF SentInv, Sequence, Handled
      <4> QED
        BY <4>3, SettledStays DEF SentInv
    <3> QED
      BY <3>1, <3>2
  <2> QED
    BY <1>2, <1>4, <1>5, <1>6, <2>5, <2>6, <2>7 DEF Sequence
<1> QED
  BY <1>7, <1>8

(* A list begins: its first item is kept, when there is one. *)
LEMMA FirstOfList ==
    ASSUME SentInv, [Next]_vars, NEW l \in Lists, src \in Sources, src \notin foreign,
           UNCHANGED <<work, src, foreign>>,
           syncItem = None, syncItem' = ItemAt(l, 1), cursor' = [cursor EXCEPT ![l] = 1],
           cursor[l] = 0, InSource
    PROVE  /\ syncItem' # None => syncItem' = <<src, l, cursor'[l]>>
           /\ cursor'[l] = 1
           /\ \A m \in Lists : m # l => cursor'[m] = cursor[m]
           /\ \A m \in Lists : m # l /\ Over(m) => Over(m)'
           /\ ListSize(src, l) = 0 => Over(l)' /\ syncItem' = None
           /\ ListSize(src, l) # 0 => syncItem' # None
           /\ Handled'
<1>t. TypeOK /\ cursor \in [Lists -> Nat]
  BY DEF SentInv, IInv, TypeInv, TypeOK
<1>1. /\ cursor'[l] = 1 /\ \A m \in Lists : m # l => cursor'[m] = cursor[m]
  BY <1>t
<1>2. Items' = Items /\ ListSize(src, l) \in Nat
  BY <1>t, Grows, WorkType
<1>3. ListSize(src, l) = 0 => syncItem' = None
  BY <1>2 DEF ItemAt
<1>4. ListSize(src, l) # 0 => syncItem' = <<src, l, 1>> /\ syncItem' # None
  BY <1>2, NoneAssumption DEF ItemAt
<1>5. \A i \in Items : /\ i[1] \in Sources /\ i[2] \in Lists /\ i[3] \in 1..ListSize(i[1], i[2])
                       /\ i = <<i[1], i[2], i[3]>>
  BY <1>t, ItemType
<1>6. ASSUME NEW m \in Lists, m # l, Over(m) PROVE Over(m)'
  BY <1>1, <1>2, <1>6 DEF Over
<1>7. ListSize(src, l) = 0 => Over(l)'
  <2> SUFFICES ASSUME ListSize(src, l) = 0, NEW i \in Items, i[1] = src, i[2] = l PROVE FALSE
    BY <1>2 DEF Over
  <2> QED
    BY <1>5
<1>8. Handled'
  <2> SUFFICES ASSUME NEW i \in Items, i[1] = src, i[3] <= cursor'[i[2]], i # syncItem'
               PROVE  Settled(i)'
    BY <1>2 DEF Handled
  <2>1. i[2] \in Lists /\ i[3] \in 1..ListSize(src, i[2]) /\ i = <<src, i[2], i[3]>>
    BY <1>5
  <2>2. ListSize(src, i[2]) \in Nat
    BY <1>t, <2>1, WorkType
  <2>3. i[2] # l
    <3> SUFFICES ASSUME i[2] = l PROVE FALSE
      OBVIOUS
    <3>1. i[3] = 1 /\ ListSize(src, l) # 0
      BY <1>1, <2>1, <2>2
    <3> QED
      BY <1>4, <2>1, <3>1
  <2>4. Settled(i)
    BY <1>1, <2>1, <2>3, NoneNoItem DEF SentInv, Sequence, Handled
  <2> QED
    BY <2>4, SettledStays DEF SentInv
<1> QED
  BY <1>1, <1>3, <1>4, <1>6, <1>7, <1>8

(* The steps that keep the item and the cursors, in the messages of a      *)
(* source.                                                                 *)
LEMMA HandledStays ==
    ASSUME SentInv, [Next]_vars, UNCHANGED <<src, foreign, cursor, syncItem>>, InSource
    PROVE  Handled' /\ \A l \in Lists : Over(l) => Over(l)'
<1>1. Items' = Items
  BY Grows
<1>2. Handled'
  BY <1>1, SettledStays DEF SentInv, Sequence, Handled
<1> QED
  BY <1>1, <1>2 DEF Over

LEMMA SequenceSource ==
    ASSUME SentInv, [Next]_vars, BeginSource \/ SkipSource
    PROVE  Sequence'
<1>t. /\ TypeOK /\ src \in Nat /\ NumSources \in Nat /\ src <= NumSources /\ pc = "source"
      /\ foreign \subseteq 1..src /\ finished \subseteq 1..src
  BY NumSourcesAssumption DEF SentInv, IInv, TypeInv, TypeOK, Sequence, Marks, BeginSource, SkipSource
<1>c. /\ syncItem # None => \E r \in Sources \ finished : r <= src
      /\ \A s \in foreign : \E r \in Sources \ finished : r < s
  BY <1>t DEF SentInv, Sequence, Carried
<1>1. CASE SkipSource
  <2>1. src' = src + 1 /\ UNCHANGED <<pc, syncItem, finished, foreign>>
    BY <1>1 DEF SkipSource, history
  <2>2. syncItem # None => \E r \in Sources \ finished : r <= src'
    BY <1>t, <1>c, <2>1 DEF Sources
  <2> QED
    BY <1>t, <2>1, <2>2, OutOfSource
<1>2. CASE BeginSource /\ src = NumSources
  <2>1. pc' = "done" /\ UNCHANGED <<src, syncItem, finished, foreign>>
    BY <1>2 DEF BeginSource
  <2> QED
    BY <1>t, <2>1, OutOfSource
<1>3. CASE BeginSource /\ src # NumSources
  <2>1. /\ src' = src + 1 /\ pc' = "message" /\ tot' = 0 /\ step' = 0 /\ last' = FALSE
        /\ cursor' = [l \in Lists |-> 0] /\ UNCHANGED <<syncItem, finished>>
        /\ foreign' = IF syncItem = None THEN foreign ELSE foreign \cup {src + 1}
    BY <1>3 DEF BeginSource
  <2>2. Marks'
    BY <1>t, <2>1 DEF Marks, InSource
  <2>3. OwnItem'
    BY <2>1 DEF OwnItem
  <2>4. Carried'
    <3>1. \A s \in foreign' : s \in foreign \/ (s = src + 1 /\ syncItem # None)
      BY <2>1
    <3>2. ASSUME NEW s \in foreign' PROVE \E r \in Sources \ finished : r < s
      <4>1. CASE s \in foreign
        BY <1>c, <4>1
      <4>2. CASE s = src + 1 /\ syncItem # None
        BY <1>t, <1>c, <4>2 DEF Sources
      <4> QED
        BY <3>1, <4>1, <4>2
    <3> QED
      BY <2>1, <3>2 DEF Carried
  <2>5. Begun'
    BY <2>1, NoneAssumption DEF Begun, List, Mode
  <2>6. Overs'
    BY <2>1 DEF Overs
  <2>7. Handled'
    <3>1. \A i \in Items' : i[2] \in Lists /\ i[3] \in Nat /\ i[3] > 0
      <4> SUFFICES ASSUME NEW i \in Items PROVE i[2] \in Lists /\ i[3] \in Nat /\ i[3] > 0
        BY Grows
      <4>1. i[2] \in Lists /\ i[3] \in 1..ListSize(i[1], i[2])
        BY <1>t, ItemType
      <4> QED
        BY <4>1
    <3> QED
      BY <2>1, <3>1 DEF Handled
  <2>8. Ended'
    BY <2>1, EndedStays
  <2> QED
    BY <2>2, <2>3, <2>4, <2>5, <2>6, <2>7, <2>8 DEF Sequence
<1> QED
  BY <1>1, <1>2, <1>3

LEMMA SequenceMessage ==
    ASSUME SentInv, [Next]_vars, BeginMessage
    PROVE  Sequence'
<1>t. /\ TypeOK /\ src \in Sources /\ cursor \in [Lists -> Nat] /\ "all" \in Lists /\ InSource
      /\ pc = "message" /\ ~last /\ src \notin finished
      /\ foreign \subseteq 1..src /\ finished \subseteq 1..src /\ tot \in Nat
      /\ Mode # "twoWay" => step = 0
  BY DEF SentInv, IInv, TypeInv, TypeOK, Sequence, Marks, BeginMessage, InSource, Lists, Sources
<1>1. /\ UNCHANGED <<work, src, step, foreign, finished>> /\ tot' = 0
      /\ IF Mode = "slow" /\ syncItem = None /\ tot = 0
            THEN syncItem' = ItemAt("all", 1) /\ cursor' = [cursor EXCEPT !["all"] = 1]
            ELSE UNCHANGED <<syncItem, cursor>>
      /\ IF Mode = "fromServer" THEN last' = TRUE /\ pc' = "send" ELSE last' = last /\ pc' = "items"
  BY DEF BeginMessage, history
<1>2. Mode' = Mode /\ List' = List
  BY <1>1 DEF Mode, List
<1>3. Marks'
  BY <1>t, <1>1, <1>2 DEF Marks, InSource
<1>4. Ended'
  BY <1>1, EndedStays
<1>5. Mode = "slow" => List = "all"
  BY DEF List
<1>6. CASE Mode = "slow" /\ syncItem = None /\ tot = 0
  <2>1. pc' = "items" /\ ~last'
    BY <1>t, <1>1, <1>6
  <2>2. Carried'
    BY <1>1, <2>1 DEF SentInv, Sequence, Carried
  <2>3. CASE src \in foreign
    BY <1>1, <1>2, <1>3, <1>4, <1>t, <1>6, <2>2, <2>3 DEF Sequence, OwnItem, Begun, Overs, Handled
  <2>4. CASE src \notin foreign
    <3>1. cursor["all"] = 0
      BY <1>t, <1>6 DEF SentInv, IInv, Order, BegunOnce
    <3>2. /\ syncItem' # None => syncItem' = <<src, "all", cursor'["all"]>>
          /\ cursor'["all"] = 1 /\ Handled'
          /\ \A m \in Lists : m # "all" /\ Over(m) => Over(m)'
      BY <1>t, <1>1, <1>6, <2>4, <3>1, FirstOfList
    <3>3. OwnItem'
      BY <1>1, <1>2, <1>5, <1>6, <1>t, <3>2 DEF OwnItem
    <3>4. Begun'
      BY <1>1, <1>2, <1>6, <2>1, <3>2 DEF Begun
    <3>5. Overs'
      BY <1>1, <1>2, <1>6, <1>t, <2>1 DEF Overs
    <3> QED
      BY <1>3, <1>4, <2>2, <3>2, <3>3, <3>4, <3>5 DEF Sequence
  <2> QED
    BY <2>3, <2>4
<1>7. CASE ~(Mode = "slow" /\ syncItem = None /\ tot = 0)
  <2>1. UNCHANGED <<syncItem, cursor>>
    BY <1>1, <1>7
  <2>2. Handled' /\ \A l \in Lists : Over(l) => Over(l)'
    BY <1>t, <1>1, <2>1, HandledStays
  <2>3. OwnItem'
    BY <1>t, <1>1, <1>2, <2>1 DEF SentInv, Sequence, OwnItem
  <2>4. Begun'
    BY <1>t, <1>1, <1>2, <1>7, <2>1 DEF SentInv, Sequence, Begun
  <2>5. Overs'
    <3>1. {"new", "updated", "deleted"} \subseteq Lists
      BY DEF Lists
    <3> QED
      BY <1>t, <1>1, <1>2, <2>2, <3>1 DEF SentInv, Sequence, Overs
  <2>6. Mode = "fromServer" /\ syncItem # None => src \in foreign
    <3>1. Mode = "fromServer" => List = None
      BY <1>t DEF List
    <3> QED
      BY <1>t, <3>1, NoneAssumption DEF SentInv, Sequence, OwnItem
  <2>7. Carried'
    BY <1>t, <1>1, <2>1, <2>6 DEF SentInv, Sequence, Carried
  <2> QED
    BY <1>3, <1>4, <2>2, <2>3, <2>4, <2>5, <2>7 DEF Sequence
<1> QED
  BY <1>6, <1>7

(* The steps of a two-way sync between its loops. *)
LEMMA SequenceFirst ==
    ASSUME SentInv, [Next]_vars, NEW l \in {"new", "updated", "deleted"}, NEW n \in {0, 2, 4},
           pc = "items", Mode = "twoWay", step = n, FirstOf(l, n), pc' = pc,
           n = 0 => l = "new", n = 2 => l = "updated", n = 4 => l = "deleted",
           UNCHANGED <<work, src, last, foreign, finished>>
    PROVE  Sequence'
<1>t. /\ TypeOK /\ src \in Sources /\ cursor \in [Lists -> Nat] /\ InSource /\ l \in Lists
      /\ ~last /\ src \notin finished
      /\ foreign \subseteq 1..src /\ finished \subseteq 1..src
  BY DEF SentInv, IInv, TypeInv, TypeOK, Sequence, Marks, InSource, Lists, Sources
<1>1. /\ syncItem' = ItemAt(l, 1) /\ cursor' = [cursor EXCEPT ![l] = 1]
      /\ step' = IF ListSize(src, l) = 0 THEN n + 2 ELSE n + 1
  BY DEF FirstOf
<1>2. /\ Mode' = Mode /\ List = None
      /\ step' = n + 1 => List' = l
      /\ step' = n + 2 => List' = None
  BY <1>1 DEF Mode, List
<1>3. Marks'
  BY <1>t, <1>2 DEF Marks, InSource
<1>4. Carried'
  BY <1>t DEF SentInv, Sequence, Carried
<1>5. Ended'
  BY EndedStays
<1>6. ListSize(src, l) \in Nat
  BY <1>t, WorkType
<1>7. /\ cursor'[l] = 1
      /\ ListSize(src, l) = 0 => syncItem' = None
      /\ ListSize(src, l) # 0 => syncItem' = <<src, l, 1>>
  BY <1>t, <1>1, <1>6 DEF ItemAt
<1>8. OwnItem'
  BY <1>1, <1>2, <1>7, <1>t DEF OwnItem
<1>9. Begun'
  BY <1>1, <1>2, <1>7, NoneAssumption DEF Begun
<1>10. CASE src \in foreign
  BY <1>3, <1>4, <1>5, <1>8, <1>9, <1>10 DEF Sequence, Overs, Handled
<1>11. CASE src \notin foreign
  <2>1. syncItem = None
    BY <1>t, <1>2, <1>11, NoneAssumption DEF SentInv, Sequence, OwnItem
  <2>2. cursor[l] = 0
    BY DEF SentInv, IInv, Order, BegunOnce
  <2>3. /\ \A m \in Lists : m # l /\ Over(m) => Over(m)'
        /\ ListSize(src, l) = 0 => Over(l)'
        /\ Handled'
    BY <1>t, <1>1, <1>11, <2>1, <2>2, FirstOfList
  <2>4. Overs'
    <3>1. /\ n >= 2 => Over("new")
          /\ n >= 4 => Over("updated")
      BY <1>t, <1>11 DEF SentInv, Sequence, Overs
    <3>2. {"new", "updated", "deleted"} \subseteq Lists
      BY DEF Lists
    <3>3. step' = n + 2 => ListSize(src, l) = 0
      BY <1>1
    <3>4. /\ step' \in {n + 1, n + 2} /\ ~last'
      BY <1>1, <1>t
    <3> QED
      BY <2>3, <3>1, <3>2, <3>3, <3>4 DEF Overs
  <2> QED
    BY <1>3, <1>4, <1>5, <1>8, <1>9, <2>3, <2>4 DEF Sequence
<1> QED
  BY <1>10, <1>11

LEMMA SequenceOver ==
    ASSUME SentInv, [Next]_vars, ListOver \/ AllListsOver
    PROVE  Sequence'
<1>t. /\ TypeOK /\ src \in Sources /\ cursor \in [Lists -> Nat] /\ InSource /\ pc = "items"
      /\ ~last /\ src \notin finished /\ step \in 0..6
      /\ foreign \subseteq 1..src /\ finished \subseteq 1..src
      /\ Mode # "twoWay" => step = 0
  BY DEF SentInv, IInv, TypeInv, TypeOK, Sequence, Marks, InSource, Sources, ListOver, AllListsOver
<1>1. /\ UNCHANGED <<work, src, cursor, syncItem, foreign, finished>> /\ Mode' = Mode
  BY DEF ListOver, AllListsOver, history, Mode
<1>2. Ended'
  BY <1>1, EndedStays
<1>3. Handled' /\ \A l \in Lists : Over(l) => Over(l)'
  BY <1>t, <1>1, HandledStays
<1>4. syncItem # None /\ src \notin foreign => List \in Lists
  BY <1>t DEF SentInv, Sequence, OwnItem
<1>5. CASE AllListsOver
  <2>1. step = 6 /\ Mode = "twoWay" /\ last' = TRUE /\ pc' = "send" /\ step' = step
    BY <1>5 DEF AllListsOver
  <2>2. List = None /\ List' = None
    BY <1>1, <2>1 DEF List
  <2>3. Marks'
    BY <1>t, <1>1, <2>1 DEF Marks, InSource
  <2>4. syncItem = None
    BY <1>t, <2>1, <2>2, NoneAssumption DEF SentInv, Sequence, OwnItem
  <2>5. OwnItem' /\ Carried'
    BY <1>1, <2>1, <2>4 DEF SentInv, Sequence, OwnItem, Carried
  <2>6. Begun'
    BY <1>1, <2>1, <2>2, NoneAssumption DEF Begun
  <2>7. Overs'
    <3>1. {"new", "updated", "deleted"} \subseteq Lists
      BY DEF Lists
    <3> QED
      BY <1>t, <1>1, <1>3, <2>1, <3>1 DEF SentInv, Sequence, Overs
  <2> QED
    BY <1>2, <1>3, <2>3, <2>5, <2>6, <2>7 DEF Sequence
<1>6. CASE ListOver
  <2>1. /\ List # None /\ Current = None
        /\ IF Mode = "slow" THEN last' = TRUE /\ pc' = "send" /\ UNCHANGED step
                            ELSE step' = step + 1 /\ UNCHANGED <<last, pc>>
    BY <1>6 DEF ListOver
  <2>2. syncItem = None /\ Following(List) = None
    BY <2>1 DEF Current
  <2>3. List \in Lists
    BY <2>1 DEF List, Lists
  <2>4. ASSUME src \notin foreign PROVE Over(List)
    <3>1. cursor[List] > 0 /\ cursor[List] \in Nat
      BY <1>t, <2>1, <2>3, <2>4 DEF SentInv, Sequence, Begun, List
    <3>2. ListSize(src, List) \in Nat
      BY <1>t, <2>3, WorkType
    <3>3. cursor[List] + 1 \notin 1..ListSize(src, List)
      <4>1. CASE cursor[List] + 1 \in 1..ListSize(src, List)
        <5>1. <<src, List, cursor[List] + 1>> = None
          BY <2>2, <3>1, <4>1 DEF Following, ItemAt
        <5>2. cursor[List] + 1 \in Nat
          BY <3>1
        <5> QED
          BY <1>t, <2>3, <5>1, <5>2, NoneAssumption
      <4> QED
        BY <4>1
    <3>4. cursor[List] >= ListSize(src, List)
      BY <3>1, <3>2, <3>3
    <3> SUFFICES ASSUME NEW i \in Items, i[1] = src, i[2] = List PROVE i[3] <= cursor[List]
      BY DEF Over
    <3>5. i[3] \in 1..ListSize(src, List)
      BY <1>t, ItemType
    <3> QED
      BY <3>1, <3>2, <3>4, <3>5
  <2>5. CASE Mode = "slow"
    <3>1. last' = TRUE /\ pc' = "send" /\ step' = step /\ List = "all" /\ List' = List /\ step = 0
      BY <1>t, <1>1, <2>1, <2>5 DEF List
    <3>2. Marks'
      BY <1>t, <1>1, <3>1 DEF Marks, InSource
    <3>3. OwnItem' /\ Carried'
      BY <1>1, <2>2, <3>1 DEF SentInv, Sequence, OwnItem, Carried
    <3>4. Begun'
      BY <1>t, <1>1, <2>5, <3>1 DEF SentInv, Sequence, Begun
    <3>5. Overs'
      BY <1>t, <1>1, <1>3, <2>3, <2>4, <2>5, <3>1 DEF Overs
    <3> QED
      BY <1>2, <1>3, <3>2, <3>3, <3>4, <3>5 DEF Sequence
  <2>6. CASE Mode # "slow"
    <3>1. step' = step + 1 /\ UNCHANGED <<last, pc>> /\ Mode = "twoWay"
      BY <1>t, <2>1, <2>6 DEF List
    <3>2. \/ step = 1 /\ List = "new"
          \/ step = 3 /\ List = "updated"
          \/ step = 5 /\ List = "deleted"
      BY <1>t, <2>1, <2>6 DEF List
    <3>3. Marks'
      BY <1>t, <1>1, <3>1 DEF Marks, InSource
    <3>4. OwnItem' /\ Carried'
      BY <1>t, <1>1, <2>2, <3>1 DEF SentInv, Sequence, OwnItem, Carried
    <3>5. List' = None
      BY <1>1, <3>1, <3>2 DEF List
    <3>6. Begun'
      BY <1>1, <3>1, <3>5, NoneAssumption DEF Begun
    <3>7. Overs'
      <4>1. {"new", "updated", "deleted"} \subseteq Lists
        BY DEF Lists
      <4>2. src \notin foreign =>
               /\ step >= 2 => Over("new")
               /\ step >= 4 => Over("updated")
        BY <1>t DEF SentInv, Sequence, Overs
      <4>3. /\ step' >= 2 <=> step >= 1
            /\ step' >= 4 <=> step >= 3
            /\ step' >= 6 <=> step >= 5
        BY <1>t, <3>1
      <4> QED
        BY <1>t, <1>1, <1>3, <2>4, <3>1, <3>2, <4>1, <4>2, <4>3 DEF Overs
    <3> QED
      BY <1>2, <1>3, <3>3, <3>4, <3>6, <3>7 DEF Sequence
  <2> QED
    BY <2>5, <2>6
<1> QED
  BY <1>5, <1>6

(* The iterations. *)
LEMMA SequenceItems ==
    ASSUME SentInv, [Next]_vars,
           WaitForNextMessage \/ NoChunk \/ AddChunk \/ AddDeletedChunk \/ DropDeletion \/ AddDeletion
    PROVE  Sequence'
<1>t. TypeOK /\ src \in Nat
  BY DEF SentInv, IInv, TypeInv, TypeOK
<1>1. pc = "items" /\ List \in Lists /\ Current # None
  BY DEF WaitForNextMessage, NoChunk, AddChunk, AddDeletedChunk, DropDeletion, AddDeletion,
     InLoop, Lists
<1>2. /\ UNCHANGED <<work, src, step, last, finished, foreign>>
  BY DEF WaitForNextMessage, NoChunk, AddChunk, AddDeletedChunk, DropDeletion, AddDeletion,
     history, loop
<1>3. CASE pc' = "dead"
  BY <1>t, <1>2, <1>3, OutOfSource
<1>4. ASSUME pc' # "dead"
      PROVE  pc' \in {"items", "send"} /\ cursor' = CursorNow /\ syncItem' \in {None, Current}
  BY <1>1, <1>4 DEF WaitForNextMessage, NoChunk, AddChunk, AddDeletedChunk, DropDeletion,
     AddDeletion, LoopOrSend, loop
<1>5. ASSUME pc' # "dead", syncItem' = None, src \notin foreign,
             NEW i \in Items, i = Current
      PROVE  Settled(i)'
  <2>1. i[1] = src /\ i[2] = List /\ Size(i)' = Size(i)
    BY <1>1, <1>5, OwnCurrent, Grows
  <2>2. ~WaitForNextMessage
    BY <1>1, <1>5 DEF WaitForNextMessage
  <2>3. CASE NoChunk \/ DropDeletion
    <3>1. \/ [item |-> Current, room |-> Room, at |-> Position] \in lost'
          \/ [item |-> Current, room |-> Room, at |-> 0] \in lost'
      BY <1>5, <2>3 DEF NoChunk, DropDeletion
    <3>2. \E l \in lost' : l.item = Current
      BY <3>1
    <3> QED
      BY <1>5, <3>2 DEF Settled
  <2>4. CASE AddChunk
    <3>1. /\ ~IsItemTooBig(Size(Current)) /\ (Size(Current) = 0 \/ BytesRead > 0)
          /\ upTo' = [upTo EXCEPT ![Current] = Position + BytesRead]
          /\ Eof /\ complete' = complete \cup {Current}
      BY <1>1, <1>5, <2>4 DEF AddChunk
    <3>2. /\ Position \in Nat /\ Size(Current) \in Nat /\ BytesRead \in Nat
          /\ BytesRead <= Size(Current) - Position
      BY <1>1, <3>1, CurrentType, ChunkFits DEF SentInv, IInv
    <3>3. BytesRead = Remaining
      BY <3>1, <3>2 DEF Eof, BytesRead
    <3>4. Position + BytesRead = Size(Current)
      BY <3>2, <3>3 DEF Remaining
    <3>5. upTo'[i] = Size(i) /\ i \in complete'
      BY <1>t, <1>5, <3>1, <3>4 DEF TypeOK
    <3> QED
      BY <2>1, <3>5 DEF Settled
  <2>5. CASE AddDeletedChunk
    <3>1. complete' = complete \cup {Current} /\ garbled' = garbled \cup {src}
      BY <1>1, <1>5, <2>5 DEF AddDeletedChunk
    <3> QED
      BY <1>5, <2>1, <3>1 DEF Settled
  <2>6. CASE AddDeletion
    <3>1. complete' = complete \cup {Current} /\ List = "deleted"
      BY <2>6 DEF AddDeletion, InLoop
    <3> QED
      BY <1>5, <2>1, <3>1 DEF Settled
  <2> QED
    BY <2>2, <2>3, <2>4, <2>5, <2>6
<1>6. CASE pc' # "dead"
  BY <1>1, <1>2, <1>4, <1>5, <1>6, Iteration
<1> QED
  BY <1>3, <1>6

(* The end of a message. *)
LEMMA SequenceSend ==
    ASSUME SentInv, [Next]_vars, Answered \/ SourceRefused \/ Ends
    PROVE  Sequence'
<1>t. /\ TypeOK /\ src \in Nat /\ src \in Sources /\ InSource /\ src \notin finished
      /\ foreign \subseteq 1..src /\ finished \subseteq 1..src
      /\ \A s \in foreign : \E r \in Sources \ finished : r < s
      /\ UNCHANGED <<work, src, step, tot, last, cursor, syncItem, foreign>>
  BY DEF SentInv, IInv, TypeInv, TypeOK, Sequence, Marks, Carried, InSource, Sources, Answered,
     SourceRefused, Ends, history, loop
<1>1. CASE Ends \/ SourceRefused
  <2>1. pc' \in {"done", "source"} /\ finished' = finished
    BY <1>1 DEF Ends, SourceRefused, history
  <2>2. src \in Sources \ finished /\ src <= src'
    BY <1>t
  <2> QED
    BY <1>t, <2>1, <2>2, OutOfSource
<1>2. CASE Answered /\ ~last
  <2>1. pc = "send" /\ pc' = "message" /\ finished' = finished
    BY <1>2 DEF Answered
  <2>2. Mode' = Mode /\ List' = List
    BY <1>t DEF Mode, List
  <2>3. Handled' /\ \A l \in Lists : Over(l) => Over(l)'
    BY <1>t, HandledStays
  <2>4. Marks'
    BY <1>t, <1>2, <2>1, <2>2 DEF SentInv, Sequence, Marks, InSource
  <2>5. OwnItem'
    BY <1>t, <2>1, <2>2 DEF SentInv, Sequence, OwnItem
  <2>6. Carried'
    BY <1>t, <2>1 DEF Carried
  <2>7. Begun'
    BY <1>t, <2>1, <2>2 DEF SentInv, Sequence, Begun
  <2>8. Overs'
    <3>1. {"new", "updated", "deleted"} \subseteq Lists
      BY DEF Lists
    <3> QED
      BY <1>t, <2>1, <2>2, <2>3, <3>1 DEF SentInv, Sequence, Overs
  <2>9. Ended'
    BY <2>1, EndedStays
  <2> QED
    BY <2>3, <2>4, <2>5, <2>6, <2>7, <2>8, <2>9 DEF Sequence
<1>3. CASE Answered /\ last
  <2>1. pc = "send" /\ pc' = "source" /\ finished' = finished \cup {src}
    BY <1>3 DEF Answered
  <2>2. ~InSource'
    BY <2>1 DEF InSource
  <2>3. Marks'
    <3>1. src \in 1..src
      BY <1>t DEF Sources
    <3> QED
      BY <1>t, <2>1, <2>2, <3>1 DEF Marks
  <2>4. \A s \in foreign : \E r \in Sources \ finished' : r < s
    <3> SUFFICES ASSUME NEW s \in foreign PROVE \E r \in Sources \ finished' : r < s
      OBVIOUS
    <3>1. PICK r \in Sources \ finished : r < s
      BY <1>t
    <3>2. s <= src /\ s \in Nat /\ r \in Nat
      BY <1>t DEF Sources
    <3> QED
      BY <1>t, <2>1, <3>1, <3>2
  <2>5. syncItem # None => src \in foreign
    BY <1>3, <2>1 DEF SentInv, Sequence, Carried
  <2>6. Carried'
    <3>1. ASSUME syncItem # None PROVE \E r \in Sources \ finished' : r <= src
      <4>1. PICK r \in Sources \ finished' : r < src
        BY <2>4, <2>5, <3>1
      <4> QED
        BY <1>t, <4>1 DEF Sources
    <3> QED
      BY <1>t, <2>1, <2>4, <3>1 DEF Carried
  <2>7. ASSUME src \notin foreign, NEW i \in Items, i[1] = src, i[2] \in ListsOf(src)
        PROVE  Settled(i)
    <3>1. syncItem = None
      BY <2>5, <2>7
    <3>2. Over(i[2])
      <4>1. CASE Mode = "slow"
        <5>1. i[2] = "all"
          BY <2>7, <4>1 DEF ListsOf, Mode
        <5> QED
          BY <1>t, <1>3, <2>1, <2>7, <4>1, <5>1 DEF SentInv, Sequence, Overs
      <4>2. CASE Mode = "twoWay"
        <5>1. i[2] \in {"new", "updated", "deleted"}
          BY <2>7, <4>2 DEF ListsOf, Mode
        <5>2. step = 6
          BY <1>t, <1>3, <2>1, <2>7, <4>2 DEF SentInv, Sequence, Overs
        <5>3. Over("new") /\ Over("updated") /\ Over("deleted")
          BY <1>t, <2>7, <5>2 DEF SentInv, Sequence, Overs
        <5> QED
          BY <5>1, <5>3
      <4>3. Mode \in {"slow", "twoWay"}
        BY <2>7 DEF ListsOf, Mode
      <4> QED
        BY <4>1, <4>2, <4>3
    <3>3. i[3] <= cursor[i[2]]
      BY <2>7, <3>2 DEF Over
    <3>4. i # syncItem
      BY <3>1, NoneNoItem
    <3> QED
      BY <1>t, <2>7, <3>3, <3>4 DEF SentInv, Sequence, Handled
  <2>8. Ended'
    <3> SUFFICES ASSUME NEW s \in finished' \ foreign, NEW i \in Items, i[1] = s, i[2] \in ListsOf(s)
                 PROVE  Settled(i)'
      BY <1>t, Grows DEF Ended
    <3>1. Settled(i)
      <4>1. CASE s = src
        BY <2>7, <4>1
      <4>2. CASE s # src
        BY <2>1, <4>2 DEF SentInv, Sequence, Ended
      <4> QED
        BY <4>1, <4>2
    <3> QED
      BY <3>1, SettledStays DEF SentInv
  <2> QED
    BY <2>2, <2>3, <2>6, <2>8 DEF Sequence, OwnItem, Begun, Overs, Handled
<1> QED
  BY <1>1, <1>2, <1>3

LEMMA SequenceNext == SentInv /\ [Next]_vars => Sequence'
<1> SUFFICES ASSUME SentInv, [Next]_vars PROVE Sequence'
  OBVIOUS
<1>t. src \in Nat
  BY DEF SentInv, IInv, TypeInv, TypeOK
<1>1. CASE BeginSource \/ SkipSource
  BY <1>1, SequenceSource
<1>2. CASE BeginMessage
  BY <1>2, SequenceMessage
<1>3. CASE FirstNew
  <2>1. pc = "items" /\ Mode = "twoWay" /\ step = 0 /\ UNCHANGED <<work, src, last, foreign, finished>>
    BY <1>3 DEF FirstNew, history
  <2>2. CASE FirstOf("new", 0) /\ UNCHANGED pc
    BY <2>1, <2>2, SequenceFirst
  <2>3. CASE pc' = "dead"
    BY <1>t, <2>1, <2>3, OutOfSource
  <2> QED
    BY <1>3, <2>2, <2>3 DEF FirstNew
<1>4. CASE FirstUpdated
  <2>1. /\ pc = "items" /\ Mode = "twoWay" /\ step = 2 /\ FirstOf("updated", 2)
        /\ UNCHANGED <<pc, work, src, last, foreign, finished>>
    BY <1>4 DEF FirstUpdated, history
  <2> QED
    BY <2>1, SequenceFirst
<1>5. CASE FirstDeleted
  <2>1. /\ pc = "items" /\ Mode = "twoWay" /\ step = 4 /\ FirstOf("deleted", 4)
        /\ UNCHANGED <<pc, work, src, last, foreign, finished>>
    BY <1>5 DEF FirstDeleted, history
  <2> QED
    BY <2>1, SequenceFirst
<1>6. CASE ListOver \/ AllListsOver
  BY <1>6, SequenceOver
<1>7. CASE WaitForNextMessage \/ NoChunk \/ AddChunk \/ AddDeletedChunk \/ DropDeletion \/ AddDeletion
  BY <1>7, SequenceItems
<1>8. CASE Answered \/ SourceRefused \/ Ends
  BY <1>8, SequenceSend
<1>9. CASE UNCHANGED vars
  <2>1. UNCHANGED <<pc, work, src, step, tot, last, cursor, syncItem, upTo, complete, lost,
                    finished, foreign, garbled>>
    BY <1>9 DEF vars, loop, history
  <2>2. /\ Mode' = Mode /\ List' = List /\ InSource' = InSource /\ Items' = Items
        /\ \A l : Over(l)' = Over(l)
        /\ \A i : Settled(i)' = Settled(i)
        /\ \A s : ListsOf(s)' = ListsOf(s)
    BY <2>1 DEF Mode, List, InSource, Items, ListSize, Over, Settled, Size, ListsOf
  <2>3. Marks' /\ OwnItem' /\ Carried'
    BY <2>1, <2>2 DEF SentInv, Sequence, Marks, OwnItem, Carried
  <2>4. Begun' /\ Overs'
    BY <2>1, <2>2 DEF SentInv, Sequence, Begun, Overs
  <2>5. Handled' /\ Ended'
    BY <2>1, <2>2 DEF SentInv, Sequence, Handled, Ended
  <2> QED
    BY <2>3, <2>4, <2>5 DEF Sequence
<1> QED
  BY <1>1, <1>2, <1>3, <1>4, <1>5, <1>6, <1>7, <1>8, <1>9 DEF Next, BuildStep

-----------------------------------------------------------------------------
(* A deletion leaves its chunk for the sources after it only. *)
LEMMA FreedStays ==
    ASSUME SentInv, [Next]_vars, chunk' = "freed" => chunk = "freed", src' \in Nat, src' >= src,
           garbled' = garbled,
           src' = src /\ InSource' => InSource /\ (step >= 5 => step' >= 5)
    PROVE  Freed'
<1>t. TypeOK /\ src \in Nat /\ Mode' = (work[src'].mode)
  BY Grows DEF SentInv, IInv, TypeInv, TypeOK, Mode
<1>1. complete \subseteq complete' /\ complete \subseteq Items
  BY <1>t, Grows DEF TypeOK
<1>2. \A i \in complete : i[1] \in Int
  BY <1>t, <1>1, ItemType DEF Sources
<1>3. ASSUME chunk' = "freed"
      PROVE  \E i \in complete' :
                /\ i[2] = "deleted"
                /\ i[1] < src' \/ (i[1] = src' /\ (InSource' => Mode' = "twoWay" /\ step' >= 5))
  <2>1. PICK i \in complete :
          /\ i[2] = "deleted"
          /\ i[1] < src \/ (i[1] = src /\ (InSource => Mode = "twoWay" /\ step >= 5))
    BY <1>3 DEF SentInv, Freed
  <2>2. CASE i[1] < src'
    BY <1>1, <2>1, <2>2
  <2>3. CASE ~(i[1] < src')
    <3>1. i[1] = src /\ src' = src /\ (InSource => Mode = "twoWay" /\ step >= 5)
      BY <1>t, <1>2, <2>1, <2>3
    <3>2. InSource' => Mode' = "twoWay" /\ step' >= 5
      BY <1>t, <3>1 DEF Mode
    <3> QED
      BY <1>1, <2>1, <3>1, <3>2
  <2> QED
    BY <2>2, <2>3
<1>4. \A s \in garbled' : \E i \in complete' : i[1] < s /\ i[2] = "deleted"
  BY <1>1 DEF SentInv, Freed
<1> QED
  BY <1>3, <1>4 DEF Freed

LEMMA FreedNext == SentInv /\ [Next]_vars => Freed'
<1> SUFFICES ASSUME SentInv, [Next]_vars PROVE Freed'
  OBVIOUS
<1>t. /\ TypeOK /\ src \in Nat /\ step \in 0..6 /\ complete \subseteq Items
      /\ \A i \in complete : i[1] \in Int
  <2>1. TypeOK /\ src \in Nat /\ step \in 0..6 /\ complete \subseteq Items
    BY DEF SentInv, IInv, TypeInv, TypeOK
  <2> QED
    BY <2>1, ItemType DEF Sources
<1>1. CASE BeginSource
  <2>1. chunk' = chunk /\ garbled' = garbled
    BY <1>1 DEF BeginSource
  <2>2. CASE src = NumSources
    <3>1. src' = src /\ ~InSource'
      BY <1>1, <2>2 DEF BeginSource, InSource
    <3> QED
      BY <1>t, <2>1, <3>1, FreedStays
  <2>3. CASE src # NumSources
    <3>1. src' = src + 1
      BY <1>1, <2>3 DEF BeginSource
    <3> QED
      BY <1>t, <2>1, <3>1, FreedStays
  <2> QED
    BY <2>2, <2>3
<1>2. CASE SkipSource
  <2>1. chunk' = chunk /\ garbled' = garbled /\ src' = src + 1
    BY <1>2 DEF SkipSource, history
  <2> QED
    BY <1>t, <2>1, FreedStays
<1>3. CASE BeginMessage \/ WaitForNextMessage \/ NoChunk \/ AddChunk \/ FirstNew
           \/ FirstUpdated \/ FirstDeleted \/ ListOver \/ AllListsOver
  <2>1. src' = src /\ garbled' = garbled /\ InSource /\ (chunk' = chunk \/ chunk' = "null")
    BY <1>3 DEF BeginMessage, WaitForNextMessage, NoChunk, AddChunk, FirstNew, FirstUpdated,
       FirstDeleted, ListOver, AllListsOver, InLoop, InSource, history, ChunkAfterAdd
  <2>2. step >= 5 => step' >= 5
    BY <1>t, <1>3 DEF BeginMessage, WaitForNextMessage, NoChunk, AddChunk, FirstNew, FirstUpdated,
       FirstDeleted, ListOver, AllListsOver, FirstOf, loop
  <2> QED
    BY <1>t, <2>1, <2>2, FreedStays
<1>4. CASE Answered \/ SourceRefused \/ Ends
  <2>1. /\ src' = src /\ garbled' = garbled /\ InSource /\ chunk' = chunk /\ step' = step
    BY <1>4 DEF Answered, SourceRefused, Ends, InSource, history, loop
  <2> QED
    BY <1>t, <2>1, FreedStays
<1>5. CASE DropDeletion
  <2>1. /\ src' = src /\ garbled' = garbled /\ InSource /\ (chunk' = chunk \/ chunk' = "null")
        /\ step' = step
    BY <1>5 DEF DropDeletion, InLoop, InSource, loop
  <2> QED
    BY <1>t, <2>1, FreedStays
<1>6. CASE AddDeletedChunk
  <2>1. /\ List \in {"all", "new", "updated"} /\ chunk = "freed" /\ src' = src /\ pc = "items"
    BY <1>6 DEF AddDeletedChunk, InLoop
  <2>2. PICK i \in complete :
          /\ i[2] = "deleted"
          /\ i[1] < src \/ (i[1] = src /\ (InSource => Mode = "twoWay" /\ step >= 5))
    BY <2>1 DEF SentInv, Freed
  <2>3. i[1] < src
    <3>1. ~(Mode = "twoWay" /\ step >= 5)
      BY <1>t, <2>1, NoneAssumption DEF List, Lists
    <3> QED
      BY <2>1, <2>2, <3>1 DEF InSource
  <2>4. complete \subseteq complete'
    BY Grows
  <2>5. garbled' \subseteq garbled \cup {src}
    BY <1>6 DEF AddDeletedChunk, history
  <2>6. \A s \in garbled' : \E j \in complete' : j[1] < s /\ j[2] = "deleted"
    BY <2>2, <2>3, <2>4, <2>5 DEF SentInv, Freed
  <2>7. \E j \in complete' : j[1] < src' /\ j[2] = "deleted"
    BY <2>1, <2>2, <2>3, <2>4
  <2> QED
    BY <2>6, <2>7 DEF Freed
<1>7. CASE AddDeletion
  <2>1. /\ pc = "items" /\ List = "deleted" /\ Current # None /\ src' = src /\ step' = step
        /\ garbled' = garbled /\ complete' = complete \cup {Current} /\ work' = work
    BY <1>7 DEF AddDeletion, InLoop
  <2>2. Mode = "twoWay" /\ step = 5
    <3>1. Mode # "slow" /\ step = 5
      BY <1>t, <2>1, NoneAssumption DEF List, Lists
    <3> QED
      BY <2>1, <3>1 DEF SentInv, Sequence, Marks, InSource
  <2>3. Current[1] = src /\ Current[2] = "deleted"
    <3>1. "deleted" \in Lists
      BY DEF Lists
    <3> QED
      BY <2>1, <2>2, <3>1, OwnCurrent
  <2>4. Mode' = "twoWay"
    BY <2>1, <2>2 DEF Mode
  <2>5. \E i \in complete' : i[2] = "deleted" /\ i[1] = src'
    BY <2>1, <2>3
  <2>6. \A s \in garbled' : \E i \in complete' : i[1] < s /\ i[2] = "deleted"
    BY <2>1 DEF SentInv, Freed
  <2> QED
    BY <2>1, <2>2, <2>4, <2>5, <2>6 DEF Freed
<1>8. CASE UNCHANGED vars
  BY <1>8 DEF vars, loop, history, SentInv, Freed, InSource, Mode
<1> QED
  BY <1>1, <1>2, <1>3, <1>4, <1>5, <1>6, <1>7, <1>8 DEF Next, BuildStep

LEMMA ReadShortNext == SentInv /\ [Next]_vars => ReadShort'
<1> SUFFICES ASSUME SentInv, [Next]_vars PROVE ReadShort'
  OBVIOUS
<1>t. TypeOK /\ work' = work /\ \A i : Size(i)' = Size(i)
  BY Grows DEF SentInv, IInv, TypeInv
<1>1. CASE UNCHANGED <<syncItem, read>>
  BY <1>t, <1>1 DEF SentInv, ReadShort, Size
<1>2. CASE syncItem' = None
  BY <1>2 DEF ReadShort
<1>3. ASSUME NEW l \in Lists, syncItem' = ItemAt(l, 1), read' = 0, src \in Sources
      PROVE  ReadShort'
  <2> SUFFICES ASSUME syncItem' # None PROVE Size(syncItem') = 0 \/ 0 < Size(syncItem')
    BY <1>t, <1>3 DEF ReadShort, Size
  <2>1. ItemAt(l, 1) \in Items
    BY <1>t, <1>3, ItemAtType
  <2>2. Size(ItemAt(l, 1)) \in Nat
    BY <1>t, <2>1, ItemType
  <2> QED
    BY <1>3, <2>2
<1>4. CASE BeginMessage
  <2>1. src \in Sources /\ "all" \in Lists
    BY <1>t, <1>4 DEF BeginMessage, TypeOK, Sources, Lists
  <2>2. (syncItem' = ItemAt("all", 1) /\ read' = 0) \/ UNCHANGED <<syncItem, read>>
    BY <1>4 DEF BeginMessage
  <2> QED
    BY <1>1, <1>3, <2>1, <2>2
<1>5. CASE FirstNew \/ FirstUpdated \/ FirstDeleted
  <2>1. src \in Sources /\ {"new", "updated", "deleted"} \subseteq Lists
    BY <1>t, <1>5 DEF FirstNew, FirstUpdated, FirstDeleted, TypeOK, Sources, Lists
  <2>2. \/ \E l \in {"new", "updated", "deleted"} : syncItem' = ItemAt(l, 1) /\ read' = 0
        \/ UNCHANGED <<syncItem, read>>
    BY <1>5 DEF FirstNew, FirstUpdated, FirstDeleted, FirstOf
  <2> QED
    BY <1>1, <1>3, <2>1, <2>2
<1>6. CASE WaitForNextMessage \/ AddChunk \/ AddDeletedChunk
  <2>1. pc = "items" /\ List \in Lists /\ Current # None
    BY <1>6 DEF WaitForNextMessage, AddChunk, AddDeletedChunk, InLoop, Lists
  <2>2. Current \in Items /\ Size(Current) \in Nat /\ Position \in Nat
    BY <2>1, CurrentType DEF SentInv, IInv
  <2>3. work[Current[1]].file \/ Size(Current) = 0 \/ Position < Size(Current)
    BY <2>1, <2>2 DEF Current, Position, SentInv, ReadShort
  <2>4. CASE syncItem' = Current /\ read' = Position
    BY <1>t, <2>3, <2>4 DEF ReadShort, Size
  <2>5. CASE AddChunk /\ syncItem' # None
    <3>1. /\ ~Eof /\ syncItem' = Current /\ read' = Position + BytesRead
          /\ ~IsItemTooBig(Size(Current)) /\ (Size(Current) = 0 \/ BytesRead > 0)
      BY <2>5 DEF AddChunk, ReadAfterChunk
    <3>2. BytesRead \in Nat /\ BytesRead <= Size(Current) - Position
      BY <2>1, <3>1, ChunkFits DEF SentInv, IInv
    <3>3. ~work[Current[1]].file => Position + BytesRead < Size(Current)
      BY <2>2, <3>1, <3>2 DEF Eof, Remaining
    <3> QED
      BY <1>t, <3>1, <3>3 DEF ReadShort, Size
  <2> QED
    BY <1>1, <1>2, <1>6, <2>4, <2>5 DEF WaitForNextMessage, AddChunk, AddDeletedChunk
<1>7. CASE NoChunk \/ AddDeletion \/ DropDeletion
  BY <1>1, <1>2, <1>7 DEF NoChunk, AddDeletion, DropDeletion
<1>8. CASE BeginSource \/ SkipSource \/ ListOver \/ AllListsOver \/ Answered \/ SourceRefused
           \/ Ends \/ UNCHANGED vars
  BY <1>1, <1>8 DEF BeginSource, SkipSource, ListOver, AllListsOver, Answered, SourceRefused,
     Ends, vars
<1> QED
  BY <1>4, <1>5, <1>6, <1>7, <1>8 DEF Next, BuildStep

LEMMA SentInductive == (Init => SentInv) /\ (SentInv /\ [Next]_vars => SentInv')
<1>1. ASSUME Init PROVE SentInv
  <2>1. IInv
    BY <1>1, TypeInit, OrderInit DEF IInv
  <2>2. /\ pc = "source" /\ src = 0 /\ last = FALSE /\ syncItem = None /\ chunk = "null"
        /\ finished = {} /\ foreign = {} /\ garbled = {}
    BY <1>1 DEF Init
  <2>3. ~InSource
    BY <2>2 DEF InSource
  <2>4. Sequence
    BY <2>2, <2>3 DEF Sequence, Marks, OwnItem, Carried, Begun, Overs, Handled, Ended
  <2> QED
    BY <2>1, <2>2, <2>4 DEF SentInv, Freed, ReadShort
<1>2. SentInv /\ [Next]_vars => SentInv'
  BY TypeNext, OrderNext, SequenceNext, FreedNext, ReadShortNext DEF SentInv, IInv
<1> QED
  BY <1>1, <1>2

(* A source that ends with its last message has sent every change it had,  *)
(* each to its end, but for items given up; the damage that a refused      *)
(* source or a deletion does goes to sources after it (sync()).            *)
THEOREM AllIsSent == Spec => []AllSent
<1>1. SentInv => AllSent
  <2> SUFFICES ASSUME SentInv PROVE AllSent
    OBVIOUS
  <2>1. DamageBounded
    BY DEF SentInv, Sequence, Carried, Freed, DamageBounded
  <2>2. ASSUME NEW s \in finished \ foreign, NEW i \in Items, i[1] = s,
               i[2] \in (CASE work[s].mode = "slow" -> {"all"}
                           [] work[s].mode = "twoWay" -> {"new", "updated", "deleted"}
                           [] OTHER -> {})
        PROVE  \/ i \in complete /\ (i[2] # "deleted" => upTo[i] = Size(i) \/ s \in garbled)
               \/ \E l \in lost : l.item = i
    <3>1. Settled(i)
      BY <2>2 DEF SentInv, Sequence, Ended, ListsOf
    <3> QED
      BY <2>2, <3>1 DEF Settled
  <2> QED
    BY <2>1, <2>2 DEF AllSent
<1> QED
  BY <1>1, SentInductive, PTL DEF Spec

-----------------------------------------------------------------------------
LEMMA LostNext ==
    ASSUME FirstMaxMsgSize >= 80
    PROVE  SentInv /\ LostForCause /\ [Next]_vars => LostForCause'
<1> SUFFICES ASSUME SentInv, LostForCause, [Next]_vars PROVE LostForCause'
  OBVIOUS
<1>t. TypeOK /\ work' = work /\ \A i : Size(i)' = Size(i)
  BY Grows DEF SentInv, IInv, TypeInv
<1>p. percMaxMsgSize \in Nat /\ percMaxMsgSize >= 4
  BY MaxMsgSizeAssumption DEF percMaxMsgSize
<1>1. CASE lost' = lost
  BY <1>t, <1>1 DEF LostForCause
<1>2. CASE DropDeletion /\ lost' # lost
  <2>1. /\ pc = "items" /\ List = "deleted" /\ Current # None /\ DeletionTooBig
        /\ lost' = lost \cup {[item |-> Current, room |-> Room, at |-> 0]}
    BY <1>2 DEF DropDeletion, InLoop
  <2>2. step = 5 /\ "deleted" \in Lists
    BY <1>t, <2>1, NoneAssumption DEF List, Lists, TypeOK
  <2>3. Current[2] = "deleted"
    BY <2>1, <2>2, OwnCurrent
  <2>4. Room < DELETE_ITEM_COMMAND_SIZE
    <3>1. msgSize \in Nat /\ MaxMsgSize \in Nat
      BY <1>t, MaxMsgSizeAssumption DEF TypeOK
    <3> QED
      BY <2>1, <3>1 DEF DeletionTooBig, Room, DELETE_ITEM_COMMAND_SIZE, changeOverhead
  <2>5. \A l \in lost' : l \in lost \/ (l.item = Current /\ l.room = Room)
    BY <2>1
  <2> QED
    BY <1>t, <2>3, <2>4, <2>5 DEF LostForCause
<1>3. CASE NoChunk
  <2>1. /\ pc = "items" /\ List \in Lists /\ Current # None /\ ~IsItemTooBig(Size(Current))
        /\ Size(Current) # 0 /\ BytesRead = 0
        /\ lost' = lost \cup {[item |-> Current, room |-> Room, at |-> Position]}
    BY <1>3 DEF NoChunk, InLoop, Lists
  <2>2. /\ Current \in Items /\ Size(Current) \in Nat /\ Position \in Nat
        /\ Position <= Size(Current)
    BY <2>1, CurrentType DEF SentInv, IInv
  <2>3. Room \in Int /\ Room >= 0
    <3>1. msgSize \in Nat /\ MaxMsgSize \in Nat
      BY <1>t, MaxMsgSizeAssumption DEF TypeOK
    <3>2. Room \in Int
      BY <3>1 DEF Room, changeOverhead
    <3> QED
      BY <2>1, <3>2 DEF IsItemTooBig
  <2>4. CASE Position = Size(Current)
    <3>1. work[Current[1]].file
      BY <2>1, <2>2, <2>4 DEF Current, Position, SentInv, ReadShort
    <3>2. \A l \in lost' : l \in lost \/ (l.item = Current /\ l.at = Position)
      BY <2>1
    <3> QED
      BY <1>t, <2>4, <3>1, <3>2 DEF LostForCause
  <2>5. CASE Position # Size(Current)
    <3>1. Remaining \in Nat /\ Remaining > 0
      BY <2>2, <2>5 DEF Remaining
    <3>2. ToRead = 0
      BY <2>1, <3>1 DEF BytesRead
    <3>3. Room < 4
      BY <2>3, <3>2 DEF ToRead, MaxDataSizeToEncode
    <3>4. MaxDataSizeToEncode(Size(Current)) <= percMaxMsgSize
      <4>1. MaxDataSizeToEncode(Size(Current)) \in Int
        BY <2>2 DEF MaxDataSizeToEncode
      <4> QED
        BY <1>p, <2>1, <2>3, <3>3, <4>1 DEF IsItemTooBig
    <3>5. Size(Current) * 3 <= percMaxMsgSize * 4 + 12
      BY <1>p, <2>2, <3>4 DEF MaxDataSizeToEncode
    <3>6. \A l \in lost' : l \in lost \/ (l.item = Current /\ l.room = Room)
      BY <2>1
    <3> QED
      BY <1>t, <3>3, <3>5, <3>6 DEF LostForCause
  <2> QED
    BY <2>4, <2>5
<1> QED
  BY <1>1, <1>2, <1>3 DEF Next, BuildStep, BeginSource, SkipSource, BeginMessage, FirstNew,
     FirstUpdated, FirstDeleted, ListOver, AllListsOver, WaitForNextMessage, AddChunk,
     AddDeletedChunk, AddDeletion, Answered, SourceRefused, Ends, vars, history

(* An item is given up for want of room only, and a large one never, when  *)
(* a twentieth of the first session's message size is four bytes at least: *)
(* with less, room that no byte of base64 fits in counts as enough         *)
(* (isItemTooBig(), getNextChunk() and the deletions of sync()).           *)
THEOREM LostOnlyForCause ==
    ASSUME FirstMaxMsgSize >= 80
    PROVE  Spec => []LostForCause
<1>1. Init => LostForCause
  BY DEF Init, LostForCause
<1> QED
  BY <1>1, SentInductive, LostNext, PTL DEF Spec

-----------------------------------------------------------------------------
(* What the loops have left to do in this session: a source, a step, an    *)
(* item, a byte; or the message goes on to where one of them is done.      *)
Alive == IF pc \in {"done", "dead"} THEN 0 ELSE 1

AtList == InSource /\ List \in Lists

(* A list not begun counts one more than its items. *)
Unbegun(n, size) == IF n = 0 THEN size + 1 ELSE IF n < size THEN size - n ELSE 0

ItemsLeft ==
    IF AtList THEN Unbegun(cursor[List], ListSize(src, List)) + (IF syncItem = None THEN 0 ELSE 1)
              ELSE 0

BytesLeft == IF AtList /\ Current # None THEN Remaining ELSE 0

Phase ==
    CASE pc = "items" /\ msgSize = 0 -> 1
      [] pc = "items" /\ msgSize > 0 -> IF Room >= 0 THEN 5 ELSE 4
      [] pc = "message" -> 2
      [] pc = "send" -> 3
      [] OTHER -> 0

Variant ==
    <<Alive, NumSources - src, IF last THEN 0 ELSE 1, 6 - step, ItemsLeft, BytesLeft,
      IF chunk = "freed" THEN 1 ELSE 0, Phase>>

LexLess(a, b) == \E k \in 1..8 : a[k] < b[k] /\ \A j \in 1..8 : j < k => a[j] = b[j]

LEMMA Lex ==
    ASSUME NEW a1, NEW a2, NEW a3, NEW a4, NEW a5, NEW a6, NEW a7, NEW a8,
           NEW b1, NEW b2, NEW b3, NEW b4, NEW b5, NEW b6, NEW b7, NEW b8,
           \/ a1 < b1
           \/ a1 = b1 /\ a2 < b2
           \/ a1 = b1 /\ a2 = b2 /\ a3 < b3
           \/ a1 = b1 /\ a2 = b2 /\ a3 = b3 /\ a4 < b4
           \/ a1 = b1 /\ a2 = b2 /\ a3 = b3 /\ a4 = b4 /\ a5 < b5
           \/ a1 = b1 /\ a2 = b2 /\ a3 = b3 /\ a4 = b4 /\ a5 = b5 /\ a6 < b6
           \/ a1 = b1 /\ a2 = b2 /\ a3 = b3 /\ a4 = b4 /\ a5 = b5 /\ a6 = b6 /\ a7 < b7
           \/ a1 = b1 /\ a2 = b2 /\ a3 = b3 /\ a4 = b4 /\ a5 = b5 /\ a6 = b6 /\ a7 = b7 /\ a8 < b8
    PROVE  LexLess(<<a1, a2, a3, a4, a5, a6, a7, a8>>, <<b1, b2, b3, b4, b5, b6, b7, b8>>)
<1> DEFINE a == <<a1, a2, a3, a4, a5, a6, a7, a8>>
           b == <<b1, b2, b3, b4, b5, b6, b7, b8>>
<1>1. ASSUME NEW k \in 1..8, a[k] < b[k], \A j \in 1..8 : j < k => a[j] = b[j]
      PROVE  LexLess(a, b)
  BY <1>1 DEF LexLess
<1>2. /\ a[1] = a1 /\ a[2] = a2 /\ a[3] = a3 /\ a[4] = a4
      /\ a[5] = a5 /\ a[6] = a6 /\ a[7] = a7 /\ a[8] = a8
      /\ b[1] = b1 /\ b[2] = b2 /\ b[3] = b3 /\ b[4] = b4
      /\ b[5] = b5 /\ b[6] = b6 /\ b[7] = b7 /\ b[8] = b8
  OBVIOUS
<1>3. \A j \in 1..8 : j \in {1, 2, 3, 4, 5, 6, 7, 8}
  OBVIOUS
<1> HIDE DEF a, b
<1>4. /\ 1 \in 1..8 /\ 2 \in 1..8 /\ 3 \in 1..8 /\ 4 \in 1..8
      /\ 5 \in 1..8 /\ 6 \in 1..8 /\ 7 \in 1..8 /\ 8 \in 1..8
  OBVIOUS
<1>a. ASSUME a1 < b1 PROVE LexLess(a, b)
  BY <1>a, <1>1, <1>2, <1>4
<1>b. ASSUME a1 = b1, a2 < b2 PROVE LexLess(a, b)
  <2>1. \A j \in 1..8 : j < 2 => a[j] = b[j]
    BY <1>b, <1>2, <1>3
  <2> QED
    BY <1>b, <1>1, <1>2, <1>4, <2>1
<1>c. ASSUME a1 = b1, a2 = b2, a3 < b3 PROVE LexLess(a, b)
  <2>1. \A j \in 1..8 : j < 3 => a[j] = b[j]
    BY <1>c, <1>2, <1>3
  <2> QED
    BY <1>c, <1>1, <1>2, <1>4, <2>1
<1>d. ASSUME a1 = b1, a2 = b2, a3 = b3, a4 < b4 PROVE LexLess(a, b)
  <2>1. \A j \in 1..8 : j < 4 => a[j] = b[j]
    BY <1>d, <1>2, <1>3
  <2> QED
    BY <1>d, <1>1, <1>2, <1>4, <2>1
<1>e. ASSUME a1 = b1, a2 = b2, a3 = b3, a4 = b4, a5 < b5 PROVE LexLess(a, b)
  <2>1. \A j \in 1..8 : j < 5 => a[j] = b[j]
    BY <1>e, <1>2, <1>3
  <2> QED
    BY <1>e, <1>1, <1>2, <1>4, <2>1
<1>f. ASSUME a1 = b1, a2 = b2, a3 = b3, a4 = b4, a5 = b5, a6 < b6 PROVE LexLess(a, b)
  <2>1. \A j \in 1..8 : j < 6 => a[j] = b[j]
    BY <1>f, <1>2, <1>3
  <2> QED
    BY <1>f, <1>1, <1>2, <1>4, <2>1
<1>g. ASSUME a1 = b1, a2 = b2, a3 = b3, a4 = b4, a5 = b5, a6 = b6, a7 < b7 PROVE LexLess(a, b)
  <2>1. \A j \in 1..8 : j < 7 => a[j] = b[j]
    BY <1>g, <1>2, <1>3
  <2> QED
    BY <1>g, <1>1, <1>2, <1>4, <2>1
<1>h. ASSUME a1 = b1, a2 = b2, a3 = b3, a4 = b4, a5 = b5, a6 = b6, a7 = b7, a8 < b8
      PROVE LexLess(a, b)
  <2>1. \A j \in 1..8 : j < 8 => a[j] = b[j]
    BY <1>h, <1>2, <1>3
  <2> QED
    BY <1>h, <1>1, <1>2, <1>4, <2>1
<1>5. LexLess(a, b)
  BY <1>a, <1>b, <1>c, <1>d, <1>e, <1>f, <1>g, <1>h
<1> QED
  BY <1>5 DEF a, b

LEMMA VariantType == TypeInv => \A k \in 1..8 : Variant[k] \in Nat
<1> SUFFICES ASSUME TypeInv PROVE \A k \in 1..8 : Variant[k] \in Nat
  OBVIOUS
<1>1. /\ src \in 0..NumSources /\ step \in 0..6 /\ NumSources \in Nat
      /\ InSource => src \in Sources
  BY NumSourcesAssumption DEF TypeInv, TypeOK, InSource, Sources
<1>2. ItemsLeft \in Nat
  <2>1. CASE AtList
    <3>1. cursor[List] \in Nat /\ ListSize(src, List) \in Nat
      BY <1>1, <2>1, WorkType DEF TypeInv, TypeOK, AtList
    <3>2. Unbegun(cursor[List], ListSize(src, List)) \in Nat
      BY <3>1 DEF Unbegun
    <3> QED
      BY <2>1, <3>2 DEF ItemsLeft
  <2> QED
    BY <2>1 DEF ItemsLeft
<1>3. BytesLeft \in Nat
  <2>1. ASSUME AtList, Current # None PROVE Remaining \in Nat
    <3>1. CASE syncItem # None
      <4>1. Current = syncItem /\ Position = read /\ syncItem \in Items
        BY <3>1 DEF Current, Position, TypeInv, TypeOK
      <4>2. Size(syncItem) \in Nat
        BY <4>1, ItemType DEF TypeInv
      <4> QED
        BY <3>1, <4>1, <4>2 DEF Remaining, TypeInv, TypeOK, ReadInItem
    <3>2. CASE syncItem = None
      <4>1. cursor[List] + 1 \in Nat
        BY <2>1 DEF TypeInv, TypeOK, AtList
      <4>2. Current \in Items /\ Position = 0
        BY <1>1, <2>1, <3>2, <4>1, ItemAtType DEF Current, Position, Following, AtList, TypeInv
      <4>3. Size(Current) \in Nat
        BY <4>2, ItemType DEF TypeInv
      <4> QED
        BY <4>2, <4>3 DEF Remaining
    <3> QED
      BY <3>1, <3>2
  <2> QED
    BY <2>1 DEF BytesLeft
<1>4. /\ Alive \in Nat /\ Phase \in Nat /\ NumSources - src \in Nat /\ 6 - step \in Nat
      /\ (IF last THEN 0 ELSE 1) \in Nat /\ (IF chunk = "freed" THEN 1 ELSE 0) \in Nat
  BY <1>1 DEF Alive, Phase
<1>5. /\ Variant[1] \in Nat /\ Variant[2] \in Nat /\ Variant[3] \in Nat /\ Variant[4] \in Nat
      /\ Variant[5] \in Nat /\ Variant[6] \in Nat /\ Variant[7] \in Nat /\ Variant[8] \in Nat
  BY <1>2, <1>3, <1>4 DEF Variant
<1>6. \A k \in 1..8 : k \in {1, 2, 3, 4, 5, 6, 7, 8}
  OBVIOUS
<1> QED
  BY <1>5, <1>6

(* An iteration takes its item on, or is through with it. *)
LEMMA Turn ==
    ASSUME TypeInv, pc = "items", List \in Lists, Current # None,
           cursor' = CursorNow, UNCHANGED <<work, src, step>>
    PROVE  /\ List' = List /\ BytesLeft = Remaining
           /\ syncItem' = None => ItemsLeft' < ItemsLeft
           /\ syncItem' = Current /\ InSource' =>
                 ItemsLeft' = ItemsLeft /\ BytesLeft' = Size(Current) - read'
<1> DEFINE size == ListSize(src, List)
           n == cursor[List]
<1>1. /\ List' = List /\ AtList /\ BytesLeft = Remaining
      /\ ListSize(src, List)' = size
  BY DEF List, Mode, AtList, InSource, BytesLeft, ListSize
<1>2. src \in Sources /\ n \in Nat /\ size \in Nat /\ cursor \in [Lists -> Nat]
  <2>1. src \in Sources /\ cursor \in [Lists -> Nat]
    BY DEF TypeInv, TypeOK, Sources
  <2> QED
    BY <2>1, WorkType DEF TypeInv
<1>3. ItemsLeft = Unbegun(n, size) + (IF syncItem = None THEN 0 ELSE 1)
  BY <1>1 DEF ItemsLeft
<1>4. ItemsLeft' = IF AtList' THEN Unbegun(cursor'[List], size)
                                   + (IF syncItem' = None THEN 0 ELSE 1) ELSE 0
  BY <1>1 DEF ItemsLeft
<1>5. Unbegun(cursor'[List], size) \in Nat
      /\ IF syncItem = None THEN Unbegun(n, size) = Unbegun(cursor'[List], size) + 1
                            ELSE cursor' = cursor
  <2>1. CASE syncItem = None
    <3>1. Current = ItemAt(List, n + 1) /\ n # 0
      BY <2>1 DEF Current, Following
    <3>2. n + 1 \in 1..size
      BY <3>1 DEF ItemAt
    <3>3. cursor' = [cursor EXCEPT ![List] = n + 1]
      BY <2>1, <3>1 DEF CursorNow, Advanced
    <3>4. cursor'[List] = n + 1
      BY <1>2, <3>3
    <3> QED
      BY <1>2, <2>1, <3>1, <3>2, <3>4 DEF Unbegun
  <2>2. CASE syncItem # None
    <3>1. cursor' = cursor
      BY <2>2 DEF CursorNow
    <3> QED
      BY <1>2, <2>2, <3>1 DEF Unbegun
  <2> QED
    BY <2>1, <2>2
<1>6. Unbegun(n, size) \in Nat
  BY <1>2 DEF Unbegun
<1>7. ASSUME syncItem' = None PROVE ItemsLeft' < ItemsLeft
  <2>1. CASE syncItem = None
    BY <1>3, <1>4, <1>5, <1>6, <1>7, <2>1
  <2>2. CASE syncItem # None
    BY <1>3, <1>4, <1>5, <1>6, <1>7, <2>2
  <2> QED
    BY <2>1, <2>2
<1>8. ASSUME syncItem' = Current, InSource'
      PROVE  ItemsLeft' = ItemsLeft /\ BytesLeft' = Size(Current) - read'
  <2>1. AtList'
    BY <1>1, <1>8 DEF AtList
  <2>2. ItemsLeft' = ItemsLeft
    <3>1. CASE syncItem = None
      BY <1>3, <1>4, <1>5, <1>6, <1>8, <2>1, <3>1
    <3>2. CASE syncItem # None
      BY <1>3, <1>4, <1>5, <1>6, <1>8, <2>1, <3>2
    <3> QED
      BY <3>1, <3>2
  <2>3. Current' = Current /\ Position' = read'
    BY <1>8 DEF Current, Position
  <2>4. Size(Current)' = Size(Current)
    BY <2>3 DEF Size
  <2> QED
    BY <2>1, <2>2, <2>3, <2>4 DEF BytesLeft, Remaining
<1> QED
  BY <1>1, <1>7, <1>8

(* From one message to the next nothing is done. *)
LEMMA Stays ==
    ASSUME InSource, InSource', UNCHANGED <<work, src, step, cursor, syncItem, read>>
    PROVE  ItemsLeft' = ItemsLeft /\ BytesLeft' = BytesLeft
<1>1. List' = List
  BY DEF List, Mode
<1>2. (AtList' <=> AtList) /\ ListSize(src, List)' = ListSize(src, List)
  BY <1>1 DEF AtList, ListSize
<1>3. Current' = Current /\ Position' = Position
  BY <1>1 DEF Current, Following, ItemAt, ListSize, Position
<1>4. Remaining' = Remaining
  BY <1>3 DEF Remaining, Size
<1> QED
  BY <1>1, <1>2, <1>3, <1>4 DEF ItemsLeft, BytesLeft

(* Every step lowers the variant, if a message without items has room for  *)
(* any: enough for a byte of base64, and for an item of any size.          *)
RoomForAny == MaxMsgSize >= 154 /\ MaxMsgSize - changeOverhead >= percMaxMsgSize

LEMMA VariantNext ==
    ASSUME SentInv, Next, RoomForAny
    PROVE  LexLess(Variant', Variant)
<1> USE DEF loop, history
<1> DEFINE NotLast == IF last THEN 0 ELSE 1
           ChunkLeft == IF chunk = "freed" THEN 1 ELSE 0
<1>a. /\ TypeInv /\ src \in 0..NumSources /\ NumSources \in Nat /\ msgSize \in Nat
      /\ step \in 0..6 /\ MaxMsgSize \in Nat
      /\ InSource => src \in Sources
  BY NumSourcesAssumption, MaxMsgSizeAssumption
     DEF SentInv, IInv, TypeInv, TypeOK, InSource, Sources
<1>b. pc \in {"message", "items"} => ~last
  BY DEF SentInv, Sequence, Marks
<1>c. /\ pc \notin {"done", "dead"} => Alive = 1
      /\ pc' \notin {"done", "dead"} => Alive' = 1
      /\ pc' \in {"done", "dead"} => Alive' = 0
  BY DEF Alive
<1>1. ASSUME Alive' < Alive PROVE LexLess(Variant', Variant)
  BY <1>1, Lex DEF Variant
<1>2. ASSUME Alive' = Alive, NumSources - src' < NumSources - src PROVE LexLess(Variant', Variant)
  BY <1>2, Lex DEF Variant
<1>3. ASSUME Alive' = Alive, src' = src, NotLast' < NotLast PROVE LexLess(Variant', Variant)
  BY <1>3, Lex DEF Variant
<1>4. ASSUME Alive' = Alive, src' = src, NotLast' = NotLast, 6 - step' < 6 - step
      PROVE  LexLess(Variant', Variant)
  BY <1>4, Lex DEF Variant
<1>5. ASSUME Alive' = Alive, src' = src, NotLast' = NotLast, step' = step,
             ItemsLeft' < ItemsLeft
      PROVE  LexLess(Variant', Variant)
  BY <1>5, Lex DEF Variant
<1>6. ASSUME Alive' = Alive, src' = src, NotLast' = NotLast, step' = step,
             ItemsLeft' = ItemsLeft, BytesLeft' < BytesLeft
      PROVE  LexLess(Variant', Variant)
  BY <1>6, Lex DEF Variant
<1>7. ASSUME Alive' = Alive, src' = src, NotLast' = NotLast, step' = step,
             ItemsLeft' = ItemsLeft, BytesLeft' = BytesLeft, ChunkLeft' < ChunkLeft
      PROVE  LexLess(Variant', Variant)
  BY <1>7, Lex DEF Variant
<1>8. ASSUME Alive' = Alive, src' = src, NotLast' = NotLast, step' = step,
             ItemsLeft' = ItemsLeft, BytesLeft' = BytesLeft, ChunkLeft' = ChunkLeft,
             Phase' < Phase
      PROVE  LexLess(Variant', Variant)
  BY <1>8, Lex DEF Variant
<1>10. CASE BeginSource
  BY <1>10, <1>a, <1>c, <1>1, <1>2 DEF BeginSource
<1>11. CASE SkipSource
  BY <1>11, <1>a, <1>c, <1>2 DEF SkipSource
<1>12. CASE BeginMessage
  <2>1. /\ pc = "message" /\ Alive' = Alive /\ UNCHANGED <<work, src, step, chunk>>
    BY <1>12, <1>c DEF BeginMessage
  <2>2. CASE Mode = "fromServer"
    BY <1>12, <1>3, <1>b, <2>1, <2>2 DEF BeginMessage
  <2>3. CASE Mode # "fromServer" /\ Mode = "slow" /\ syncItem = None /\ tot = 0
    <3>1. /\ pc' = "items" /\ last' = last /\ syncItem' = ItemAt("all", 1)
          /\ cursor' = [cursor EXCEPT !["all"] = 1]
      BY <1>12, <2>3 DEF BeginMessage
    <3>2. cursor \in [Lists -> Nat] /\ cursor["all"] = 0
      <4>1. tot \in Nat /\ cursor \in [Lists -> Nat]
        BY <1>a DEF TypeInv, TypeOK
      <4> QED
        BY <2>1, <2>3, <4>1 DEF SentInv, IInv, Order, BegunOnce
    <3>3. /\ List = "all" /\ List' = "all" /\ "all" \in Lists /\ AtList /\ AtList'
      BY <2>1, <2>3, <3>1 DEF List, Mode, Lists, AtList, InSource
    <3>4. /\ src \in Sources /\ ListSize(src, "all") \in Nat
          /\ ListSize(src, "all")' = ListSize(src, "all")
      BY <1>a, <2>1, <3>3, WorkType DEF ListSize, InSource, TypeInv
    <3>5. ItemsLeft = ListSize(src, "all") + 1
      BY <2>3, <3>2, <3>3, <3>4 DEF ItemsLeft, Unbegun
    <3>6. ItemsLeft' = Unbegun(1, ListSize(src, "all"))
                       + (IF ItemAt("all", 1) = None THEN 0 ELSE 1)
      BY <3>1, <3>2, <3>3, <3>4 DEF ItemsLeft
    <3>7. ListSize(src, "all") = 0 => ItemAt("all", 1) = None
      BY <3>4 DEF ItemAt
    <3>8. ItemsLeft' < ItemsLeft
      BY <3>4, <3>5, <3>6, <3>7 DEF Unbegun
    <3> QED
      BY <1>5, <2>1, <3>1, <3>8
  <2>4. CASE Mode # "fromServer" /\ ~(Mode = "slow" /\ syncItem = None /\ tot = 0)
    <3>1. /\ pc' = "items" /\ last' = last /\ msgSize' = 0
          /\ UNCHANGED <<syncItem, read, cursor>>
      BY <1>12, <2>4 DEF BeginMessage
    <3>2. ItemsLeft' = ItemsLeft /\ BytesLeft' = BytesLeft
      BY <2>1, <3>1, Stays DEF InSource
    <3>3. Phase' = 1 /\ Phase = 2
      BY <2>1, <3>1 DEF Phase
    <3> QED
      BY <1>8, <2>1, <3>1, <3>2, <3>3
  <2> QED
    BY <2>2, <2>3, <2>4
<1>13. CASE FirstNew \/ FirstUpdated \/ FirstDeleted
  <2>1. CASE pc' = "dead"
    BY <1>13, <1>c, <1>1, <2>1 DEF FirstNew, FirstUpdated, FirstDeleted
  <2>2. CASE pc' # "dead"
    <3>1. /\ pc = "items" /\ pc' = "items" /\ UNCHANGED <<src, last>>
          /\ step' > step /\ step' \in Nat
      BY <1>13, <2>2, <1>a DEF FirstNew, FirstUpdated, FirstDeleted, FirstOf
    <3>2. Alive' = Alive /\ NotLast' = NotLast
      BY <1>c, <3>1
    <3>3. 6 - step' < 6 - step
      <4>1. step \in Int /\ step' \in Int /\ step' > step
        BY <1>a, <3>1
      <4>2. \A m, n \in Int : n > m => 6 - n < 6 - m
        OBVIOUS
      <4> QED
        BY <4>1, <4>2
    <3> QED
      BY <1>4, <3>1, <3>2, <3>3
  <2> QED
    BY <2>1, <2>2
<1>14. CASE ListOver
  BY <1>14, <1>a, <1>b, <1>c, <1>3, <1>4 DEF ListOver
<1>15. CASE AllListsOver
  BY <1>15, <1>b, <1>c, <1>3 DEF AllListsOver
<1>16. CASE WaitForNextMessage
  <2>1. /\ pc = "items" /\ List \in Lists /\ Current # None /\ IsItemTooBig(Size(Current))
        /\ syncItem' = Current /\ read' = Position /\ cursor' = CursorNow /\ pc' = "send"
        /\ UNCHANGED <<work, src, step, last, chunk>>
    BY <1>16 DEF WaitForNextMessage, InLoop, Lists
  <2>2. ItemsLeft' = ItemsLeft /\ BytesLeft' = BytesLeft
    <3>1. InSource'
      BY <2>1 DEF InSource
    <3> QED
      BY <1>a, <2>1, <3>1, Turn DEF Remaining
  <2>3. msgSize # 0
    <3> SUFFICES ASSUME msgSize = 0 PROVE FALSE
      OBVIOUS
    <3>1. percMaxMsgSize \in Nat
      BY MaxMsgSizeAssumption DEF percMaxMsgSize
    <3>2. Room = MaxMsgSize - changeOverhead /\ Room \in Nat
      BY <1>a DEF Room, RoomForAny, changeOverhead
    <3> QED
      BY <2>1, <3>1, <3>2 DEF IsItemTooBig, RoomForAny, changeOverhead
  <2>4. Phase' = 3 /\ Phase \in {4, 5}
    BY <1>a, <2>1, <2>3 DEF Phase
  <2> QED
    BY <1>8, <1>c, <2>1, <2>2, <2>4
<1>17. CASE NoChunk
  <2>1. /\ pc = "items" /\ List \in Lists /\ Current # None /\ pc' = pc
        /\ syncItem' = None /\ cursor' = CursorNow /\ UNCHANGED <<work, src, step, last>>
    BY <1>17 DEF NoChunk, InLoop, Lists
  <2> QED
    BY <1>5, <1>a, <1>c, <2>1, Turn
<1>18. CASE AddChunk
  <2>1. /\ pc = "items" /\ List \in Lists /\ Current # None /\ pc' \in {"items", "send"}
        /\ cursor' = CursorNow /\ UNCHANGED <<work, src, step, last>>
        /\ ~IsItemTooBig(Size(Current)) /\ (Size(Current) = 0 \/ BytesRead > 0)
        /\ chunk = "null" /\ chunk' = "null"
        /\ msgSize' = msgSize + changeOverhead + DataSizeAfterEncoding(BytesRead)
        /\ IF Eof THEN syncItem' = None ELSE syncItem' = Current /\ read' = Position + BytesRead
    BY <1>18 DEF AddChunk, InLoop, Lists, LoopOrSend, ChunkAfterAdd, ReadAfterChunk
  <2>2. CASE Eof
    BY <1>5, <1>a, <1>c, <2>1, <2>2, Turn
  <2>3. CASE ~Eof
    <3>1. /\ Room \in Nat /\ BytesRead \in Nat /\ BytesRead <= Size(Current) - Position
      BY <1>a, <2>1, ChunkFits
    <3>2. /\ Position \in Nat /\ Size(Current) \in Nat /\ Position <= Size(Current)
      BY <1>a, <2>1, CurrentType
    <3>3. ItemsLeft' = ItemsLeft /\ BytesLeft' = BytesLeft - BytesRead /\ BytesLeft \in Nat
      <4>1. InSource'
        BY <2>1 DEF InSource
      <4> QED
        BY <1>a, <2>1, <2>3, <3>1, <3>2, <4>1, Turn DEF Remaining
    <3>4. CASE BytesRead > 0
      BY <1>6, <1>c, <2>1, <3>1, <3>3, <3>4
    <3>5. CASE BytesRead = 0
      <4>1. Size(Current) = 0 /\ Remaining = 0
        BY <2>1, <3>1, <3>2, <3>5 DEF Remaining
      <4>2. ~(0 < ToRead)
        BY <2>3, <3>5, <4>1 DEF Eof
      <4>3. Room < 4
        BY <3>1, <4>2 DEF ToRead, MaxDataSizeToEncode
      <4>4. msgSize > 0
        BY <1>a, <4>3 DEF Room, RoomForAny, changeOverhead
      <4>5. Phase = 5
        BY <1>a, <2>1, <3>1, <4>4 DEF Phase
      <4>6. msgSize' = msgSize + 150
        BY <1>a, <2>1, <3>5 DEF DataSizeAfterEncoding, changeOverhead
      <4>7. msgSize' > 0 /\ ~(Room' >= 0)
        BY <1>a, <4>3, <4>6 DEF Room, changeOverhead
      <4>8. Phase' < 5
        BY <2>1, <4>7 DEF Phase
      <4> QED
        BY <1>8, <1>c, <2>1, <3>3, <3>5, <4>5, <4>8
    <3> QED
      BY <3>1, <3>4, <3>5
  <2> QED
    BY <2>2, <2>3
<1>19. CASE AddDeletedChunk
  <2>1. CASE pc' = "dead"
    BY <1>19, <1>1, <1>c, <2>1 DEF AddDeletedChunk, InLoop
  <2>2. CASE pc' # "dead"
    <3>1. /\ pc = "items" /\ List \in Lists /\ Current # None /\ pc' \in {"items", "send"}
          /\ cursor' = CursorNow /\ UNCHANGED <<work, src, step, last>>
          /\ chunk = "freed" /\ chunk' = "null"
          /\ \/ syncItem' = None
             \/ syncItem' = Current /\ read' = Position
      BY <1>19, <2>2 DEF AddDeletedChunk, InLoop, Lists, LoopOrSend
    <3>2. CASE syncItem' = None
      BY <1>5, <1>a, <1>c, <3>1, <3>2, Turn
    <3>3. CASE syncItem' = Current /\ read' = Position
      <4>1. InSource'
        BY <3>1 DEF InSource
      <4>2. ItemsLeft' = ItemsLeft /\ BytesLeft' = BytesLeft
        BY <1>a, <3>1, <3>3, <4>1, Turn DEF Remaining
      <4> QED
        BY <1>7, <1>c, <3>1, <4>2
    <3> QED
      BY <3>1, <3>2, <3>3
  <2> QED
    BY <2>1, <2>2
<1>20. CASE DropDeletion
  <2>1. CASE pc' = "dead"
    BY <1>20, <1>1, <1>c, <2>1 DEF DropDeletion, InLoop
  <2>2. CASE pc' # "dead"
    <3>1. /\ pc = "items" /\ List \in Lists /\ Current # None /\ pc' = pc
          /\ syncItem' = None /\ cursor' = CursorNow /\ UNCHANGED <<work, src, step, last>>
      BY <1>20, <2>2 DEF DropDeletion, InLoop, Lists
    <3> QED
      BY <1>5, <1>a, <1>c, <3>1, Turn
  <2> QED
    BY <2>1, <2>2
<1>21. CASE AddDeletion
  <2>1. /\ pc = "items" /\ List \in Lists /\ Current # None /\ pc' \in {"items", "send"}
        /\ syncItem' = None /\ cursor' = CursorNow /\ UNCHANGED <<work, src, step, last>>
    BY <1>21 DEF AddDeletion, InLoop, Lists, LoopOrSend
  <2> QED
    BY <1>5, <1>a, <1>c, <2>1, Turn
<1>22. CASE Answered \/ SourceRefused
  <2>1. /\ pc = "send" /\ pc' \in {"message", "source"}
        /\ UNCHANGED <<work, src, step, last, cursor, syncItem, read, chunk>>
    BY <1>22 DEF Answered, SourceRefused
  <2>2. Phase = 3 /\ Phase' \in {0, 2}
    BY <2>1 DEF Phase
  <2>3. CASE AtList'
    <3>1. ItemsLeft' = ItemsLeft /\ BytesLeft' = BytesLeft
      BY <2>1, <2>3, Stays DEF AtList, InSource
    <3> QED
      BY <1>8, <1>c, <2>1, <2>2, <3>1
  <2>4. CASE ~AtList'
    <3>1. ItemsLeft' = 0 /\ BytesLeft' = 0
      BY <2>4 DEF ItemsLeft, BytesLeft
    <3>2. ItemsLeft \in Nat /\ BytesLeft \in Nat
      <4>1. Variant[5] \in Nat /\ Variant[6] \in Nat
        BY <1>a, VariantType
      <4> QED
        BY <4>1 DEF Variant
    <3>3. ItemsLeft' < ItemsLeft \/ (ItemsLeft' = ItemsLeft /\ BytesLeft' < BytesLeft)
          \/ (ItemsLeft' = ItemsLeft /\ BytesLeft' = BytesLeft)
      BY <3>1, <3>2
    <3> QED
      BY <1>5, <1>6, <1>8, <1>c, <2>1, <2>2, <3>3
  <2> QED
    BY <2>3, <2>4
<1>23. CASE Ends
  BY <1>23, <1>1, <1>c DEF Ends
<1> QED
  BY <1>10, <1>11, <1>12, <1>13, <1>14, <1>15, <1>16, <1>17, <1>18, <1>19, <1>20, <1>21, <1>22,
     <1>23 DEF Next, BuildStep

(* The loops of sync() cannot go on for ever, whatever the server answers: *)
(* each step lowers a variant of eight natural numbers, compared from the  *)
(* first, when a message without items has room for any.  That they need   *)
(* this is no formality: percMaxMsgSize is of the process's first session, *)
(* and an item larger than it waits for room that no later message has.    *)
THEOREM LoopsDescend ==
    ASSUME RoomForAny
    PROVE  Spec => /\ [](\A k \in 1..8 : Variant[k] \in Nat)
                   /\ [][LexLess(Variant', Variant)]_vars
<1>1. SentInv => \A k \in 1..8 : Variant[k] \in Nat
  BY VariantType DEF SentInv, IInv
<1>2. SentInv /\ [Next]_vars => [LexLess(Variant', Variant)]_vars
  BY VariantNext
<1> QED
  BY <1>1, <1>2, SentInductive, PTL DEF Spec
=============================================================================
