-------------------------- MODULE ServerItemsProofs --------------------------
(***************************************************************************)
(* Proofs about ServerItems for any objects, cuts and sources: types, that *)
(* no chunk goes beyond the buffer, that client and server agree between   *)
(* messages on the object that is under way, that the server knows what    *)
(* became of each object, that a source gets whole objects, and that none  *)
(* is refused without a cause.                                             *)
(***************************************************************************)
EXTENDS ServerItems, FiniteSetTheorems, SequenceTheorems, TLAPS

(* At most one object is under way, and its next chunk has data. *)
OneSending ==
    /\ \A o, p \in Sending : o = p
    /\ \A o \in Sending : position < o.size

(* An object with a status is one of the message, with a single status,    *)
(* and the one that is buffered will go on.                                *)
StatusesInMessage ==
    /\ \A s \in reply.statuses : s[1] \in Sent
    /\ \A s, t \in reply.statuses : s[1] = t[1] => s = t
    /\ \A o \in Objects : <<o, "buffered">> \in reply.statuses => o \in Sending
    /\ \A o \in Sent : outcome[o] \in {"sending", "unanswered"}

TypeInv == TypeOK /\ OneSending /\ StatusesInMessage

(* The client holds what it has buffered, until the server goes on. *)
Held ==
    \A o \in Sending : o \notin Sent \/ <<o, "buffered">> \in reply.statuses =>
        /\ incoming # None
        /\ incoming.obj = o
        /\ incoming.data[Len(incoming.data)].to = position

(* The items without a status, for no error of their source. *)
Silent == {o \in Sent : CodesFor(o) = {} /\ o.source \notin inError}

OneSilent ==
    /\ message.skipped => message.source \in inError
    /\ \A o, p \in Silent : o = p
    /\ Silent # {} => (incoming = None \/ message.full)
                      /\ \E s \in Sources : <<223, s>> \in reply.alerts

Codes == {"stored", "exists", "failed"}

Known ==
    /\ \A s \in reply.statuses : s[2] \in Codes =>
          \E g \in given : g.obj = s[1] /\ g.code = s[2]
    /\ \A o \in Objects : outcome[o] \in Codes => \E g \in given : g.obj = o /\ g.code = outcome[o]
    /\ \A g \in given : /\ g.code \in Codes
                        /\ outcome[g.obj] = g.code \/ <<g.obj, g.code>> \in reply.statuses
                        /\ g.obj \notin Sending

-----------------------------------------------------------------------------
(* The chunk that comes next, and the state after it. *)
LEMMA NextItemType ==
    ASSUME TypeInv, NEW o \in Objects, NEW c \in ChunksFrom(o, 0) \cup ChunksFrom(o, position),
           NextItem(c)
    PROVE  /\ c \in Chunk /\ c.obj = o /\ Length(c) \in Nat /\ o \notin Sent
           /\ o.size \in Nat
           /\ o \in Sending \/ (Sending = {} /\ outcome[o] = "unsent")
           /\ message' = [message EXCEPT !.items = @ \cup {c}, !.full = MoreData(c)]
           /\ message' \in [items : SUBSET Chunk, source : Sources \cup {1}, open : BOOLEAN,
                            skipped : BOOLEAN, full : BOOLEAN]
           /\ Sent' = Sent \cup {o}
           /\ outcome' = [outcome EXCEPT ![o] = IF MoreData(c) THEN "sending" ELSE "unanswered"]
           /\ outcome' \in [Objects -> Outcomes]
           /\ position' \in Nat
           /\ Sending' = IF MoreData(c) THEN {o} ELSE {}
           /\ MoreData(c) => position' = c.to
           /\ OneSending'
           /\ message.source = o.source /\ ~message.full
<1>1. position \in Nat /\ o.size \in Nat /\ Cuts \subseteq Nat
  BY ObjectsAssumption, CutsAssumption DEF TypeInv, TypeOK
<1>2. c.obj = o
  BY DEF ChunksFrom
<1>3. outcome \in [Objects -> Outcomes]
  BY DEF TypeInv, TypeOK
<1>4. \/ Sending = {} /\ outcome[o] = "unsent" /\ c \in ChunksFrom(o, 0)
      \/ o \in Sending /\ o \notin Sent /\ c \in ChunksFrom(o, position)
  <2>1. CASE Sending = {}
    BY <1>2, <2>1 DEF NextItem, Unsent
  <2>2. CASE Sending # {}
    BY <1>2, <2>2 DEF NextItem, Sent
  <2> QED
    BY <2>1, <2>2
<1>5. o \notin Sent
  BY <1>4 DEF TypeInv, StatusesInMessage
<1>6. PICK p \in Nat : p <= o.size /\ c \in ChunksFrom(o, p)
  BY <1>1, <1>4 DEF TypeInv, OneSending
<1>7. PICK t \in {k \in Cuts : p < k /\ k < o.size} \cup {o.size} :
        c = [obj |-> o, from |-> p, to |-> t]
  BY <1>6 DEF ChunksFrom
<1>8. t \in Nat /\ p <= t /\ t <= o.size /\ c.from = p /\ c.to = t
  BY <1>1, <1>6, <1>7
<1>9. c \in Chunk
  BY <1>7, <1>8 DEF Chunk
<1>10. Length(c) \in Nat
  BY <1>8 DEF Length
<1>11. MoreData(c) \in BOOLEAN /\ (MoreData(c) => c.to < o.size)
  BY <1>2, <1>8, <1>1 DEF MoreData
<1>12. /\ message \in [items : SUBSET Chunk, source : Sources \cup {1}, open : BOOLEAN,
                       skipped : BOOLEAN, full : BOOLEAN]
       /\ message' = [message EXCEPT !.items = @ \cup {c}, !.full = MoreData(c)]
       /\ outcome' = [outcome EXCEPT ![o] = IF MoreData(c) THEN "sending" ELSE "unanswered"]
       /\ position' = IF MoreData(c) THEN c.to ELSE 0
       /\ message.source = o.source /\ ~message.full
  BY <1>2 DEF NextItem, TypeInv, TypeOK
<1>13. message' \in [items : SUBSET Chunk, source : Sources \cup {1}, open : BOOLEAN,
                     skipped : BOOLEAN, full : BOOLEAN]
  BY <1>9, <1>11, <1>12
<1>14. Sent' = Sent \cup {o}
  BY <1>2, <1>12 DEF Sent
<1>15. outcome' \in [Objects -> Outcomes]
  BY <1>3, <1>12 DEF Outcomes
<1>16. Sending' = IF MoreData(c) THEN {o} ELSE {}
  <2>1. \A q \in Sending : q = o
    BY <1>4 DEF TypeInv, OneSending
  <2>2. \A q \in Objects : q \in Sending' <=> (q = o /\ MoreData(c))
    BY <1>3, <1>12, <2>1 DEF Sending
  <2>3. Sending' \subseteq Objects
    BY DEF Sending
  <2> QED
    BY <2>2, <2>3
<1>17. position' \in Nat /\ (MoreData(c) => position' = c.to)
  BY <1>8, <1>12
<1>18. OneSending'
  BY <1>11, <1>16, <1>17 DEF OneSending
<1> HIDE DEF TypeInv
<1> QED
  BY <1>1, <1>2, <1>4, <1>5, <1>9, <1>10, <1>12, <1>13, <1>14, <1>15, <1>16, <1>17, <1>18

(* At most one status more, for the object of the chunk. *)
LEMMA StatusAdded ==
    ASSUME TypeInv, NEW o \in Objects, NEW c \in ChunksFrom(o, 0) \cup ChunksFrom(o, position),
           NextItem(c), NEW code \in StatusCodes,
           reply'.statuses = reply.statuses \/ reply'.statuses = reply.statuses \cup {<<o, code>>},
           code = "buffered" => MoreData(c)
    PROVE  StatusesInMessage'
<1>1. /\ o \notin Sent /\ Sent' = Sent \cup {o}
      /\ o \in Sending \/ Sending = {}
      /\ Sending' = IF MoreData(c) THEN {o} ELSE {}
      /\ outcome' = [outcome EXCEPT ![o] = IF MoreData(c) THEN "sending" ELSE "unanswered"]
      /\ outcome \in [Objects -> Outcomes]
  BY NextItemType DEF TypeInv, TypeOK
<1>2. \A s \in reply'.statuses : s \in reply.statuses \/ (s = <<o, code>> /\ s[1] = o)
  OBVIOUS
<1>3. \A s \in reply.statuses : s[1] \in Sent
  BY DEF TypeInv, StatusesInMessage
<1>4. \A q \in Objects : <<q, "buffered">> \notin reply.statuses
  <2>1. ASSUME NEW q \in Objects, <<q, "buffered">> \in reply.statuses PROVE FALSE
    <3>1. q \in Sending /\ q \in Sent
      BY <1>3, <2>1 DEF TypeInv, StatusesInMessage
    <3> QED
      BY <1>1, <3>1 DEF TypeInv, OneSending
  <2> QED
    BY <2>1
<1>5. \A s \in reply'.statuses : s[1] \in Sent'
  BY <1>1, <1>2, <1>3
<1>6. \A s, t \in reply'.statuses : s[1] = t[1] => s = t
  BY <1>1, <1>2, <1>3 DEF TypeInv, StatusesInMessage
<1>7. \A q \in Objects : <<q, "buffered">> \in reply'.statuses => q \in Sending'
  <2>1. ASSUME NEW q \in Objects, <<q, "buffered">> \in reply'.statuses PROVE q \in Sending'
    <3>1. <<q, "buffered">> = <<o, code>>
      BY <1>2, <1>4, <2>1
    <3>2. q = o /\ code = "buffered"
      BY <3>1
    <3> QED
      BY <1>1, <3>2
  <2> QED
    BY <2>1
<1>8. \A q \in Sent' : outcome'[q] \in {"sending", "unanswered"}
  BY <1>1 DEF TypeInv, StatusesInMessage
<1> QED
  BY <1>5, <1>6, <1>7, <1>8 DEF StatusesInMessage

(* What the buffer holds. *)
Fits(b) ==
    /\ b.offset <= b.size
    /\ MaxObjSize # 0 => b.size <= ToleranceDataSize(MaxObjSize)

Buffer ==
    /\ incoming # None => Fits(incoming)
    /\ \A g \in given : g.spare >= 0

(* A chunk that is taken fits. *)
LEMMA ChunkTaken ==
    ASSUME TypeInv, Buffer, NEW o \in Objects,
           NEW c \in ChunksFrom(o, 0) \cup ChunksFrom(o, position), Takes(c)
    PROVE  /\ WithChunk(c) \in Item
           /\ WithChunk(c).obj = o
           /\ WithChunk(c).data[Len(WithChunk(c).data)] = c
           /\ WithChunk(c).offset <= WithChunk(c).size
           /\ MoreData(c) => Fits(WithChunk(c))
<1>1. /\ c \in Chunk /\ c.obj = o /\ Length(c) \in Nat
  BY NextItemType DEF Takes
<1>2. o.declared \in Int /\ MaxObjSize \in Nat
  BY ObjectsAssumption, MaxObjSizeAssumption
<1>3. \A n \in Int : ToleranceDataSize(n) \in Int
  BY DEF ToleranceDataSize
<1>4. \A n \in Nat : n <= MaxObjSize => ToleranceDataSize(n) <= ToleranceDataSize(MaxObjSize)
  BY <1>2 DEF ToleranceDataSize
<1>5. CASE Begins(c)
  <2>1. /\ incoming = None /\ ~Continues(c) /\ Received(c) = 0
        /\ Reserved(c) = ToleranceDataSize(o.declared)
    BY <1>1, <1>5 DEF Begins, Continues, Received, Reserved
  <2>2. Reserved(c) \in Int
    BY <1>2, <1>3, <2>1
  <2>3. /\ WithChunk(c).obj = o /\ WithChunk(c).data = <<c>>
        /\ WithChunk(c).size = (IF MoreData(c) THEN Reserved(c) ELSE Length(c))
        /\ WithChunk(c).offset = Length(c)
        /\ WithChunk(c) = [obj |-> o, size |-> WithChunk(c).size, data |-> <<c>>,
                           offset |-> Length(c)]
    BY <1>1, <1>5, <2>1 DEF WithChunk
  <2>4. MoreData(c) => Length(c) <= Reserved(c)
    BY <1>1, <2>1, <2>2 DEF Takes, Overflows
  <2>5. WithChunk(c) \in Item
    <3> DEFINE n == WithChunk(c).size
    <3>1. n \in Int
      BY <1>1, <2>2, <2>3
    <3>2. WithChunk(c) = [obj |-> o, size |-> n, data |-> <<c>>, offset |-> Length(c)]
      BY <2>3
    <3> HIDE DEF n
    <3>3. [obj |-> o, size |-> n, data |-> <<c>>, offset |-> Length(c)] \in Item
      BY <1>1, <3>1 DEF Item
    <3> QED
      BY <3>2, <3>3
  <2>6. MoreData(c) /\ MaxObjSize # 0 => Reserved(c) <= ToleranceDataSize(MaxObjSize)
    BY <1>1, <1>2, <1>4, <1>5, <2>1 DEF Takes, TooLarge
  <2> QED
    BY <1>1, <2>3, <2>4, <2>5, <2>6 DEF Fits
<1>6. CASE ~Begins(c)
  <2>1. /\ incoming # None /\ Continues(c) /\ incoming \in Item /\ Fits(incoming)
        /\ Received(c) = incoming.offset /\ Reserved(c) = incoming.size
    BY <1>6 DEF Takes, Begins, Continues, Received, Reserved, TypeInv, TypeOK, Buffer
  <2>2. /\ incoming.data \in Seq(Chunk) /\ incoming.offset \in Nat /\ incoming.size \in Int
    BY <2>1 DEF Item
  <2>3. /\ WithChunk(c).obj = o /\ WithChunk(c).data = Append(incoming.data, c)
        /\ WithChunk(c).size = incoming.size
        /\ WithChunk(c).offset = incoming.offset + Length(c)
        /\ WithChunk(c) = [obj |-> o, size |-> incoming.size, data |-> Append(incoming.data, c),
                           offset |-> incoming.offset + Length(c)]
    BY <1>1, <1>6, <2>1 DEF WithChunk
  <2>4. incoming.offset + Length(c) <= incoming.size
    BY <1>1, <2>1, <2>2 DEF Takes, Overflows
  <2>5. WithChunk(c) \in Item
    BY <1>1, <2>2, <2>3 DEF Item
  <2>6. Append(incoming.data, c)[Len(Append(incoming.data, c))] = c
    BY <1>1, <2>2
  <2> QED
    BY <2>1, <2>3, <2>4, <2>5, <2>6 DEF Fits
<1> QED
  BY <1>5, <1>6

LEMMA TypeInit == Init => TypeInv /\ Buffer
<1> SUFFICES ASSUME Init PROVE TypeInv /\ Buffer
  OBVIOUS
<1>1. TypeOK
  BY FallibleAssumption DEF Init, TypeOK, NoReply, NewMessage, Outcomes
<1>2. Sending = {} /\ Sent = {} /\ reply.statuses = {}
  BY DEF Init, Sending, Sent, NoReply, NewMessage
<1>3. OneSending /\ StatusesInMessage
  BY <1>2 DEF OneSending, StatusesInMessage
<1>4. Buffer
  BY DEF Init, Buffer
<1> QED
  BY <1>1, <1>3, <1>4 DEF TypeInv

LEMMA TypeNext == TypeInv /\ Buffer /\ [Next]_vars => TypeInv' /\ Buffer'
<1> SUFFICES ASSUME TypeInv, Buffer, [Next]_vars PROVE TypeInv' /\ Buffer'
  OBVIOUS
<1>1. /\ reply \in [statuses : SUBSET (Objects \X StatusCodes),
                    alerts : SUBSET ({222, 223} \X Sources)]
      /\ message \in [items : SUBSET Chunk, source : Sources \cup {1}, open : BOOLEAN,
                      skipped : BOOLEAN, full : BOOLEAN]
      /\ outcome \in [Objects -> Outcomes] /\ incoming \in Item \cup {None}
  BY DEF TypeInv, TypeOK
<1>2. CASE \E s \in Sources : OpenSync(s)
  <2>1. PICK s \in Sources : OpenSync(s)
    BY <1>2
  <2>2. /\ message' = [message EXCEPT !.source = s, !.open = TRUE, !.skipped = s \in inError]
        /\ UNCHANGED <<incoming, inError, given, mappings, reply, outcome, position, running>>
    BY <2>1 DEF OpenSync
  <2>3. /\ message' \in [items : SUBSET Chunk, source : Sources \cup {1}, open : BOOLEAN,
                         skipped : BOOLEAN, full : BOOLEAN]
        /\ Sent' = Sent /\ Sending' = Sending
    <3>1. (s \in inError) \in BOOLEAN
      OBVIOUS
    <3>2. \A b \in BOOLEAN :
            [message EXCEPT !.source = s, !.open = TRUE, !.skipped = b] \in
                [items : SUBSET Chunk, source : Sources \cup {1}, open : BOOLEAN,
                 skipped : BOOLEAN, full : BOOLEAN]
      BY <1>1
    <3>3. message'.items = message.items
      BY <1>1, <2>2
    <3> QED
      BY <2>2, <3>1, <3>2, <3>3 DEF Sent, Sending
  <2>4. TypeOK'
    BY <2>2, <2>3 DEF TypeInv, TypeOK
  <2> QED
    BY <2>2, <2>3, <2>4 DEF TypeInv, OneSending, StatusesInMessage, Buffer
<1>3. CASE GiveUp
  <2>1. PICK o \in Sending : outcome' = [outcome EXCEPT ![o] = "abandoned"]
    BY <1>3 DEF GiveUp
  <2>2. /\ position' = 0 /\ message.items = {}
        /\ UNCHANGED <<incoming, inError, given, mappings, reply, message, running>>
    BY <1>3 DEF GiveUp
  <2>3. o \in Objects /\ outcome' \in [Objects -> Outcomes]
    BY <1>1, <2>1 DEF Sending, Outcomes
  <2>4. Sent = {} /\ Sent' = {}
    BY <2>2 DEF Sent
  <2>5. \A s \in reply'.statuses : FALSE
    BY <2>2, <2>4 DEF TypeInv, StatusesInMessage
  <2>6. Sending' = {}
    BY <1>1, <2>1, <2>3 DEF TypeInv, OneSending, Sending
  <2>7. TypeOK'
    BY <2>2, <2>3 DEF TypeInv, TypeOK
  <2> QED
    BY <2>2, <2>4, <2>5, <2>6, <2>7 DEF TypeInv, OneSending, StatusesInMessage, Buffer
<1>4. CASE \E o \in Objects : \E c \in ChunksFrom(o, 0) \cup ChunksFrom(o, position) : ProcessItem(c)
  <2>0. PICK o \in Objects : \E c \in ChunksFrom(o, 0) \cup ChunksFrom(o, position) : ProcessItem(c)
    BY <1>4
  <2>1. PICK c \in ChunksFrom(o, 0) \cup ChunksFrom(o, position) : ProcessItem(c)
    BY <2>0
  <2>2. NextItem(c) /\ c.obj = o /\ running' = running
    <3>1. NextItem(c)
      BY <2>1, Zenon DEF ProcessItem, Skipped, Nameless, DropsBoth, Refuses, Buffers,
         GivesToSource, Takes
    <3> QED
      BY <3>1 DEF NextItem, ChunksFrom
  <2>3. /\ c.obj = o /\ position' \in Nat /\ OneSending' /\ outcome' \in [Objects -> Outcomes]
        /\ message' \in [items : SUBSET Chunk, source : Sources \cup {1}, open : BOOLEAN,
                         skipped : BOOLEAN, full : BOOLEAN]
    BY <2>2, NextItemType
  <2>4. ASSUME NEW code \in StatusCodes,
               reply'.statuses = reply.statuses \/ reply'.statuses = reply.statuses \cup {<<o, code>>},
               code = "buffered" => MoreData(c),
               reply' \in [statuses : SUBSET (Objects \X StatusCodes),
                           alerts : SUBSET ({222, 223} \X Sources)],
               incoming' \in Item \cup {None}, inError' \subseteq Sources,
               mappings' \subseteq Objects,
               \A g \in given' : g.obj \in Objects /\ g.data \in Seq(Chunk) /\ g.spare \in Int
        PROVE  TypeInv'
    <3>1. StatusesInMessage'
      BY <2>2, <2>4, StatusAdded
    <3>2. TypeOK'
      BY <2>2, <2>3, <2>4, Zenon DEF TypeInv, TypeOK
    <3> QED
      BY <2>3, <3>1, <3>2 DEF TypeInv
  <2>5. /\ inError \subseteq Sources /\ mappings \subseteq Objects
        /\ \A g \in given : g.obj \in Objects /\ g.data \in Seq(Chunk) /\ g.spare \in Int
    BY DEF TypeInv, TypeOK
  <2>6. ASSUME NEW code \in StatusCodes, Answer(c, code)
        PROVE  /\ reply'.statuses = reply.statuses \cup {<<o, code>>}
               /\ reply' \in [statuses : SUBSET (Objects \X StatusCodes),
                              alerts : SUBSET ({222, 223} \X Sources)]
    BY <1>1, <2>2, <2>6 DEF Answer
  <2>7. CASE Skipped(c)
    <3>1. UNCHANGED <<incoming, inError, given, mappings, reply>> /\ "nameless" \in StatusCodes
      BY <2>7 DEF Skipped, StatusCodes
    <3> QED
      BY <1>1, <2>4, <2>5, <3>1 DEF Buffer
  <2>8. CASE Nameless(c)
    <3>1. UNCHANGED <<incoming, inError, given, mappings>> /\ Answer(c, "nameless")
      BY <2>8 DEF Nameless
    <3>2. "nameless" \in StatusCodes
      BY DEF StatusCodes
    <3> QED
      BY <1>1, <2>4, <2>5, <2>6, <3>1, <3>2 DEF Buffer
  <2>9. CASE DropsBoth(c)
    <3>1. UNCHANGED <<inError, given, mappings>> /\ incoming' = None /\ reply' = ReplyOfDropped
      BY <2>9 DEF DropsBoth
    <3>2. incoming.obj \in Objects
      BY <1>1, <2>9 DEF DropsBoth, IsNewItem, Item
    <3>3. incoming.obj.source \in Sources
      BY <3>2, ObjectsAssumption
    <3>4. /\ reply'.statuses = reply.statuses
          /\ reply' \in [statuses : SUBSET (Objects \X StatusCodes),
                         alerts : SUBSET ({222, 223} \X Sources)]
      BY <1>1, <3>1, <3>3 DEF ReplyOfDropped
    <3>5. "nameless" \in StatusCodes
      BY DEF StatusCodes
    <3> QED
      BY <2>4, <2>5, <3>1, <3>4, <3>5 DEF Buffer
  <2>10. CASE Refuses(c)
    <3>1. UNCHANGED <<inError, given, mappings>> /\ incoming' = None /\ Answer(c, "refused")
      BY <2>10 DEF Refuses
    <3>2. "refused" \in StatusCodes
      BY DEF StatusCodes
    <3> QED
      BY <2>4, <2>5, <2>6, <3>1, <3>2 DEF Buffer
  <2>11. CASE Buffers(c)
    <3>1. /\ UNCHANGED <<inError, given, mappings>> /\ incoming' = WithChunk(c)
          /\ Takes(c) /\ MoreData(c)
          /\ reply' = [statuses |-> reply.statuses \cup {<<o, "buffered">>},
                       alerts |-> reply.alerts \cup {<<222, o.source>>}]
      BY <2>2, <2>11 DEF Buffers
    <3>2. WithChunk(c) \in Item /\ Fits(WithChunk(c))
      BY <3>1, ChunkTaken
    <3>3. o.source \in Sources
      BY ObjectsAssumption
    <3>4. /\ reply'.statuses = reply.statuses \cup {<<o, "buffered">>}
          /\ reply' \in [statuses : SUBSET (Objects \X StatusCodes),
                         alerts : SUBSET ({222, 223} \X Sources)]
      <4>1. /\ reply.statuses \cup {<<o, "buffered">>} \subseteq Objects \X StatusCodes
            /\ reply.alerts \cup {<<222, o.source>>} \subseteq {222, 223} \X Sources
        BY <1>1, <3>3 DEF StatusCodes
      <4> QED
        BY <3>1, <4>1
    <3>5. "buffered" \in StatusCodes
      BY DEF StatusCodes
    <3> QED
      BY <2>4, <2>5, <3>1, <3>2, <3>4, <3>5 DEF Buffer
  <2>12. CASE GivesToSource(c)
    <3>1. PICK code \in {"stored", "exists", "failed"} :
            /\ given' = given \cup {[obj |-> c.obj, data |-> WithChunk(c).data, code |-> code,
                                     spare |-> WithChunk(c).size - WithChunk(c).offset]}
            /\ mappings' = IF c.obj.cmd = "Add" /\ code # "failed"
                              THEN mappings \cup {c.obj} ELSE mappings
            /\ incoming' = None
            /\ Answer(c, StatusOf(code))
      BY <2>12 DEF GivesToSource
    <3>2. code \in StatusCodes /\ StatusOf(code) = code /\ code # "buffered"
      BY DEF StatusCodes, StatusOf
    <3>3. inError' \subseteq Sources
      BY <2>5, <2>12, FallibleAssumption DEF GivesToSource
    <3>4. WithChunk(c) \in Item /\ WithChunk(c).offset <= WithChunk(c).size
      BY <2>12, ChunkTaken DEF GivesToSource
    <3>5. /\ WithChunk(c).data \in Seq(Chunk)
          /\ WithChunk(c).size - WithChunk(c).offset \in Int
          /\ WithChunk(c).size - WithChunk(c).offset >= 0
      BY <3>4 DEF Item
    <3>6. \A g \in given' : /\ g.obj \in Objects /\ g.data \in Seq(Chunk) /\ g.spare \in Int
                            /\ g.spare >= 0
      BY <2>2, <2>5, <3>1, <3>5 DEF Buffer
    <3>7. mappings' \subseteq Objects
      BY <2>2, <2>5, <3>1
    <3>8. TypeInv'
      BY <2>4, <2>6, <3>1, <3>2, <3>3, <3>6, <3>7
    <3> QED
      BY <3>1, <3>6, <3>8 DEF Buffer
  <2> QED
    BY <2>1, <2>7, <2>8, <2>9, <2>10, <2>11, <2>12 DEF ProcessItem
<1>5. CASE EndMessage
  <2>1. /\ outcome' = [o \in Objects |-> AfterReply(o)]
        /\ position' = IF \E o \in Objects : AfterReply(o) = "sending" THEN position ELSE 0
        /\ reply' = NoReply /\ message' = NewMessage(message.source)
        /\ incoming' = incoming /\ UNCHANGED <<inError, given, mappings, running>>
    BY <1>5 DEF EndMessage, IncomingKept
  <2>2. ASSUME NEW o \in Objects
        PROVE  AfterReply(o) \in Outcomes /\ (AfterReply(o) = "sending" => o \in Sending)
    <3>1. CASE o \notin Sent
      BY <1>1, <3>1 DEF AfterReply, Sending
    <3>2. CASE o \in Sent /\ CodesFor(o) = {}
      BY <3>2 DEF AfterReply, Outcomes
    <3>3. CASE o \in Sent /\ CodesFor(o) # {}
      <4> DEFINE code == CHOOSE x \in CodesFor(o) : TRUE
      <4>1. code \in CodesFor(o)
        BY <3>3
      <4>2. <<o, code>> \in reply.statuses
        BY <1>1, <4>1 DEF CodesFor
      <4>3. code \in StatusCodes
        BY <1>1, <4>2
      <4>4. AfterReply(o) = IF code = "buffered" THEN "sending" ELSE code
        BY <3>3 DEF AfterReply
      <4> HIDE DEF code
      <4> QED
        BY <4>2, <4>3, <4>4 DEF Outcomes, StatusCodes, TypeInv, StatusesInMessage
    <3> QED
      BY <3>1, <3>2, <3>3
  <2>3. Sending' \subseteq Sending
    BY <2>1, <2>2 DEF Sending
  <2>4. Sent' = {} /\ reply'.statuses = {}
    BY <2>1 DEF Sent, NewMessage, NoReply
  <2>5. OneSending'
    <3>1. \A o \in Sending' : position' = position
      BY <2>1 DEF Sending
    <3> QED
      BY <2>3, <3>1 DEF TypeInv, OneSending
  <2>6. position' \in Nat
    BY <2>1 DEF TypeInv, TypeOK
  <2>7. TypeOK'
    BY <1>1, <2>1, <2>2, <2>6 DEF TypeInv, TypeOK, NoReply, NewMessage
  <2> QED
    BY <2>1, <2>4, <2>5, <2>7 DEF TypeInv, StatusesInMessage, Buffer
<1>6. CASE Abort
  <2>1. TypeOK'
    BY <1>6 DEF Abort, TypeInv, TypeOK
  <2>2. Sent' = Sent /\ Sending' = Sending
    BY <1>6 DEF Abort, Sent, Sending
  <2> QED
    BY <1>6, <2>1, <2>2 DEF Abort, TypeInv, OneSending, StatusesInMessage, Buffer
<1>7. CASE UNCHANGED vars
  <2>1. TypeOK'
    BY <1>7 DEF vars, TypeInv, TypeOK
  <2>2. Sent' = Sent /\ Sending' = Sending
    BY <1>7 DEF vars, Sent, Sending
  <2> QED
    BY <1>7, <2>1, <2>2 DEF vars, TypeInv, OneSending, StatusesInMessage, Buffer
<1> QED
  BY <1>2, <1>3, <1>4, <1>5, <1>6, <1>7 DEF Next

(* Every reachable state of the server's items is well typed. *)
THEOREM ItemsTypeCorrect == Spec => []TypeOK
<1>1. TypeInv => TypeOK
  BY DEF TypeInv
<1> QED
  BY <1>1, TypeInit, TypeNext, PTL DEF Spec

(* No chunk is copied beyond the end of the buffer, whatever size the      *)
(* server has declared, and no buffer is beyond the limit.                 *)
THEOREM BuffersBounded == Spec => []BufferBounded
<1>1. Buffer => BufferBounded
  BY DEF Buffer, Fits, BufferBounded
<1> QED
  BY <1>1, TypeInit, TypeNext, PTL DEF Spec

-----------------------------------------------------------------------------
(* The object under way. *)
IInv == TypeInv /\ Buffer /\ Held /\ OneSilent /\ Known

(* No object is buffered in a message that is still open. *)
LEMMA NotBuffered ==
    ASSUME TypeInv, NEW o \in Objects, NEW c \in ChunksFrom(o, 0) \cup ChunksFrom(o, position),
           NextItem(c), NEW q \in Objects
    PROVE  <<q, "buffered">> \notin reply.statuses
<1>1. o \notin Sent /\ (o \in Sending \/ Sending = {})
  BY NextItemType
<1>2. ASSUME <<q, "buffered">> \in reply.statuses PROVE FALSE
  <2>1. q \in Sending /\ q \in Sent
    BY <1>2 DEF TypeInv, StatusesInMessage
  <2> QED
    BY <1>1, <2>1 DEF TypeInv, OneSending
<1> QED
  BY <1>2

LEMMA HeldNext == IInv /\ [Next]_vars => Held'
<1> SUFFICES ASSUME IInv, [Next]_vars PROVE Held'
  OBVIOUS
<1>1. TypeInv /\ Buffer /\ Held
  BY DEF IInv
<1>2. CASE \E s \in Sources : OpenSync(s)
  <2>1. PICK s \in Sources : message' = [message EXCEPT !.source = s, !.open = TRUE,
                                                        !.skipped = s \in inError]
    BY <1>2 DEF OpenSync
  <2>2. message'.items = message.items
    BY <1>1, <2>1 DEF TypeInv, TypeOK
  <2>3. UNCHANGED <<incoming, reply, outcome, position>>
    BY <1>2 DEF OpenSync
  <2> QED
    BY <1>1, <2>2, <2>3 DEF Held, Sent, Sending
<1>3. CASE GiveUp
  <2>1. PICK o \in Sending : outcome' = [outcome EXCEPT ![o] = "abandoned"]
    BY <1>3 DEF GiveUp
  <2>2. Sending' = {}
    BY <1>1, <2>1 DEF TypeInv, TypeOK, OneSending, Sending
  <2> QED
    BY <2>2 DEF Held
<1>4. CASE \E o \in Objects : \E c \in ChunksFrom(o, 0) \cup ChunksFrom(o, position) : ProcessItem(c)
  <2>0. PICK o \in Objects : \E c \in ChunksFrom(o, 0) \cup ChunksFrom(o, position) : ProcessItem(c)
    BY <1>4
  <2>1. PICK c \in ChunksFrom(o, 0) \cup ChunksFrom(o, position) : ProcessItem(c)
    BY <2>0
  <2>2. NextItem(c) /\ c.obj = o
    <3>1. NextItem(c)
      BY <2>1, Zenon DEF ProcessItem, Skipped, Nameless, DropsBoth, Refuses, Buffers,
         GivesToSource, Takes
    <3> QED
      BY <3>1 DEF NextItem, ChunksFrom
  <2>3. /\ Sent' = Sent \cup {o} /\ Sending' = (IF MoreData(c) THEN {o} ELSE {})
        /\ MoreData(c) => position' = c.to
    BY <1>1, <2>2, NextItemType
  <2>4. <<o, "buffered">> \notin reply.statuses
    BY <1>1, <2>2, NotBuffered
  <2>5. ASSUME NEW code, code # "buffered", Answer(c, code) PROVE <<o, "buffered">> \notin reply'.statuses
    <3>1. reply'.statuses = reply.statuses \cup {<<o, code>>}
      BY <1>1, <2>2, <2>5 DEF Answer, TypeInv, TypeOK
    <3> QED
      BY <2>4, <2>5, <3>1
  <2>6. CASE <<o, "buffered">> \notin reply'.statuses \/ ~MoreData(c)
    BY <2>3, <2>6 DEF Held
  <2>7. CASE Skipped(c) \/ Nameless(c) \/ Refuses(c)
    <3>1. CASE Skipped(c)
      BY <2>4, <2>6, <3>1 DEF Skipped
    <3>2. CASE Nameless(c)
      BY <2>5, <2>6, <3>2 DEF Nameless
    <3>3. CASE Refuses(c)
      BY <2>5, <2>6, <3>3 DEF Refuses
    <3> QED
      BY <2>7, <3>1, <3>2, <3>3
  <2>8. CASE DropsBoth(c)
    <3>1. reply'.statuses = reply.statuses
      BY <1>1, <2>8 DEF DropsBoth, ReplyOfDropped, TypeInv, TypeOK
    <3> QED
      BY <2>4, <2>6, <3>1
  <2>9. CASE Buffers(c)
    <3>1. incoming' = WithChunk(c) /\ MoreData(c) /\ Takes(c)
      BY <2>9 DEF Buffers
    <3>2. /\ WithChunk(c) \in Item /\ WithChunk(c).obj = o
          /\ WithChunk(c).data[Len(WithChunk(c).data)] = c
      BY <1>1, <3>1, ChunkTaken
    <3> QED
      BY <2>3, <3>1, <3>2, NoneAssumption DEF Held
  <2>10. CASE GivesToSource(c)
    BY <2>6, <2>10 DEF GivesToSource
  <2> QED
    BY <2>1, <2>7, <2>8, <2>9, <2>10 DEF ProcessItem
<1>5. CASE EndMessage
  <2>1. /\ outcome' = [o \in Objects |-> AfterReply(o)]
        /\ position' = IF \E o \in Objects : AfterReply(o) = "sending" THEN position ELSE 0
        /\ incoming' = incoming
    BY <1>5 DEF EndMessage, IncomingKept
  <2>2. ASSUME NEW o \in Sending'
        PROVE  o \in Sending /\ (o \notin Sent \/ <<o, "buffered">> \in reply.statuses) /\ position' = position
    <3>1. o \in Objects /\ AfterReply(o) = "sending"
      BY <2>1 DEF Sending
    <3>2. position' = position
      BY <2>1, <3>1
    <3>3. CASE o \notin Sent
      BY <3>1, <3>2, <3>3 DEF AfterReply, Sending
    <3>4. CASE o \in Sent
      <4>1. CodesFor(o) # {}
        BY <3>1, <3>4 DEF AfterReply
      <4> DEFINE code == CHOOSE x \in CodesFor(o) : TRUE
      <4>2. code \in CodesFor(o)
        BY <4>1
      <4>3. <<o, code>> \in reply.statuses /\ code \in StatusCodes
        BY <1>1, <4>2 DEF CodesFor, TypeInv, TypeOK
      <4>4. AfterReply(o) = IF code = "buffered" THEN "sending" ELSE code
        BY <3>4, <4>1 DEF AfterReply
      <4> HIDE DEF code
      <4>5. <<o, "buffered">> \in reply.statuses
        BY <3>1, <4>3, <4>4 DEF StatusCodes
      <4> QED
        BY <1>1, <3>1, <3>2, <4>5 DEF TypeInv, StatusesInMessage
    <3> QED
      BY <3>3, <3>4
  <2> QED
    BY <1>1, <2>1, <2>2 DEF Held
<1>6. CASE Abort \/ UNCHANGED vars
  <2>1. UNCHANGED <<incoming, reply, message, outcome, position>>
    BY <1>6 DEF Abort, vars
  <2> QED
    BY <1>1, <2>1 DEF Held, Sent, Sending
<1> QED
  BY <1>2, <1>3, <1>4, <1>5, <1>6 DEF Next

(* What a chunk adds: its object may be silent, with a cause. *)
LEMMA OneSilentNext == IInv /\ [Next]_vars => OneSilent'
<1> SUFFICES ASSUME IInv, [Next]_vars PROVE OneSilent'
  OBVIOUS
<1>1. TypeInv /\ OneSilent
  BY DEF IInv
<1>2. CASE \E s \in Sources : OpenSync(s)
  <2>1. PICK s \in Sources : message' = [message EXCEPT !.source = s, !.open = TRUE,
                                                        !.skipped = s \in inError]
    BY <1>2 DEF OpenSync
  <2>2. /\ message'.items = message.items /\ message'.full = message.full
        /\ message'.source = s /\ (message'.skipped <=> s \in inError)
    BY <1>1, <2>1 DEF TypeInv, TypeOK
  <2>3. UNCHANGED <<incoming, inError, reply>>
    BY <1>2 DEF OpenSync
  <2>4. Silent' = Silent
    BY <2>2, <2>3 DEF Silent, Sent, CodesFor
  <2> QED
    BY <1>1, <2>2, <2>3, <2>4 DEF OneSilent
<1>3. CASE GiveUp
  <2>1. UNCHANGED <<incoming, inError, reply, message>>
    BY <1>3 DEF GiveUp
  <2> QED
    BY <1>1, <2>1 DEF OneSilent, Silent, Sent, CodesFor
<1>4. CASE \E o \in Objects : \E c \in ChunksFrom(o, 0) \cup ChunksFrom(o, position) : ProcessItem(c)
  <2>0. PICK o \in Objects : \E c \in ChunksFrom(o, 0) \cup ChunksFrom(o, position) : ProcessItem(c)
    BY <1>4
  <2>1. PICK c \in ChunksFrom(o, 0) \cup ChunksFrom(o, position) : ProcessItem(c)
    BY <2>0
  <2>2. NextItem(c) /\ c.obj = o
    <3>1. NextItem(c)
      BY <2>1, Zenon DEF ProcessItem, Skipped, Nameless, DropsBoth, Refuses, Buffers,
         GivesToSource, Takes
    <3> QED
      BY <3>1 DEF NextItem, ChunksFrom
  <2>3. /\ Sent' = Sent \cup {o} /\ ~message.full /\ message.source = o.source
        /\ message'.full = MoreData(c) /\ message'.skipped = message.skipped
        /\ message'.source = message.source
    <3>1. /\ Sent' = Sent \cup {o} /\ ~message.full /\ message.source = o.source
          /\ message' = [message EXCEPT !.items = @ \cup {c}, !.full = MoreData(c)]
      BY <1>1, <2>2, NextItemType
    <3>2. message \in [items : SUBSET Chunk, source : Sources \cup {1}, open : BOOLEAN,
                      skipped : BOOLEAN, full : BOOLEAN]
      BY <1>1 DEF TypeInv, TypeOK
    <3> QED
      BY <3>1, <3>2
  <2>4. ASSUME inError \subseteq inError', reply.statuses \subseteq reply'.statuses
        PROVE  /\ \A q \in Silent' : q \in Silent \/ q = o
               /\ message'.skipped => message'.source \in inError'
    <3>1. \A q : CodesFor(q)' = {} => CodesFor(q) = {}
      BY <2>4 DEF CodesFor
    <3> QED
      BY <1>1, <2>3, <2>4, <3>1 DEF Silent, OneSilent
  <2>5. ASSUME inError \subseteq inError', reply.statuses \subseteq reply'.statuses,
               reply.alerts \subseteq reply'.alerts, o \notin Silent',
               incoming' \in {incoming, None} \/ MoreData(c)
        PROVE  OneSilent'
    <3>1. /\ \A q \in Silent' : q \in Silent
          /\ message'.skipped => message'.source \in inError'
      BY <2>4, <2>5
    <3>2. Silent' # {} => incoming' = None \/ message'.full
      BY <1>1, <2>3, <2>5, <3>1 DEF OneSilent
    <3>3. Silent' # {} => \E s \in Sources : <<223, s>> \in reply'.alerts
      BY <1>1, <2>5, <3>1 DEF OneSilent
    <3> QED
      BY <1>1, <3>1, <3>2, <3>3 DEF OneSilent
  <2>6. ASSUME NEW code, Answer(c, code)
        PROVE  /\ reply.statuses \subseteq reply'.statuses /\ reply'.alerts = reply.alerts
               /\ o \notin Silent'
    <3>1. reply'.statuses = reply.statuses \cup {<<o, code>>} /\ reply'.alerts = reply.alerts
      BY <1>1, <2>2, <2>6 DEF Answer, TypeInv, TypeOK
    <3>2. code \in CodesFor(o)'
      BY <3>1 DEF CodesFor
    <3> QED
      BY <3>1, <3>2 DEF Silent
  <2>7. CASE Skipped(c)
    <3>1. UNCHANGED <<incoming, inError, reply>> /\ message.skipped
      BY <2>7 DEF Skipped
    <3>2. o.source \in inError'
      BY <1>1, <2>3, <3>1 DEF OneSilent
    <3>3. o \notin Silent'
      BY <3>2 DEF Silent
    <3> QED
      BY <2>5, <3>1, <3>3
  <2>8. CASE Nameless(c)
    <3>1. UNCHANGED <<incoming, inError>> /\ Answer(c, "nameless")
      BY <2>8 DEF Nameless
    <3> QED
      BY <2>5, <2>6, <3>1
  <2>9. CASE DropsBoth(c)
    <3>1. UNCHANGED inError /\ incoming' = None /\ reply' = ReplyOfDropped /\ incoming # None
      BY <2>9 DEF DropsBoth, IsNewItem
    <3>2. incoming.obj.source \in Sources
      BY <1>1, <3>1, ObjectsAssumption DEF TypeInv, TypeOK, Item
    <3>3. /\ reply'.statuses = reply.statuses
          /\ <<223, incoming.obj.source>> \in reply'.alerts
      BY <1>1, <3>1 DEF ReplyOfDropped, TypeInv, TypeOK
    <3>4. Silent = {}
      BY <1>1, <2>3, <3>1 DEF OneSilent
    <3>5. /\ \A q \in Silent' : q = o
          /\ message'.skipped => message'.source \in inError'
      BY <2>4, <3>1, <3>3, <3>4
    <3> QED
      BY <3>1, <3>2, <3>3, <3>5 DEF OneSilent
  <2>10. CASE Refuses(c)
    <3>1. UNCHANGED inError /\ incoming' = None /\ Answer(c, "refused")
      BY <2>10 DEF Refuses
    <3> QED
      BY <2>5, <2>6, <3>1
  <2>11. CASE Buffers(c)
    <3>1. /\ UNCHANGED inError /\ MoreData(c)
          /\ reply'.statuses = reply.statuses \cup {<<o, "buffered">>}
          /\ reply'.alerts = reply.alerts \cup {<<222, o.source>>}
      BY <2>2, <2>11 DEF Buffers
    <3>2. "buffered" \in CodesFor(o)'
      <4>1. <<o, "buffered">> \in {t \in reply'.statuses : t[1] = o}
        BY <3>1
      <4> QED
        BY <4>1 DEF CodesFor
    <3>3. o \notin Silent'
      BY <3>2 DEF Silent
    <3> QED
      BY <2>5, <3>1, <3>3
  <2>12. CASE GivesToSource(c)
    <3>1. PICK code : incoming' = None /\ Answer(c, StatusOf(code))
      BY <2>12 DEF GivesToSource
    <3>2. inError \subseteq inError'
      BY <2>12 DEF GivesToSource
    <3> QED
      BY <2>5, <2>6, <3>1, <3>2
  <2> QED
    BY <2>1, <2>7, <2>8, <2>9, <2>10, <2>11, <2>12 DEF ProcessItem
<1>5. CASE EndMessage
  <2>1. Sent' = {} /\ message'.skipped = FALSE
    BY <1>5 DEF EndMessage, NewMessage, Sent
  <2>2. Silent' = {}
    BY <2>1 DEF Silent
  <2> QED
    BY <2>1, <2>2 DEF OneSilent
<1>6. CASE Abort \/ UNCHANGED vars
  <2>1. UNCHANGED <<incoming, inError, reply, message>>
    BY <1>6 DEF Abort, vars
  <2> QED
    BY <1>1, <2>1 DEF OneSilent, Silent, Sent, CodesFor
<1> QED
  BY <1>2, <1>3, <1>4, <1>5, <1>6 DEF Next

LEMMA KnownNext == IInv /\ [Next]_vars => Known'
<1> SUFFICES ASSUME IInv, [Next]_vars PROVE Known'
  OBVIOUS
<1>1. TypeInv /\ Known /\ outcome \in [Objects -> Outcomes]
  BY DEF IInv, TypeInv, TypeOK
<1>2. CASE (\E s \in Sources : OpenSync(s)) \/ Abort \/ UNCHANGED vars
  <2>1. UNCHANGED <<given, reply, outcome>>
    BY <1>2 DEF OpenSync, Abort, vars
  <2> QED
    BY <1>1, <2>1 DEF Known, Sending
<1>3. CASE GiveUp
  <2>1. PICK o \in Sending : outcome' = [outcome EXCEPT ![o] = "abandoned"]
    BY <1>3 DEF GiveUp
  <2>2. UNCHANGED <<given, reply>>
    BY <1>3 DEF GiveUp
  <2>3. Sending' \subseteq Sending
    BY <1>1, <2>1 DEF Sending
  <2>4. \A q \in Objects : q # o => outcome'[q] = outcome[q]
    BY <1>1, <2>1
  <2>5. o \in Objects /\ outcome'[o] = "abandoned"
    BY <1>1, <2>1 DEF Sending
  <2>6. \A g \in given : g.obj \in Objects /\ g.obj # o
    BY <1>1 DEF Known, TypeInv, TypeOK
  <2>7. \A q \in Objects : outcome'[q] \in Codes => \E g \in given : g.obj = q /\ g.code = outcome'[q]
    BY <1>1, <2>4, <2>5 DEF Known, Codes
  <2> QED
    BY <1>1, <2>2, <2>3, <2>4, <2>6, <2>7 DEF Known
<1>4. CASE \E o \in Objects : \E c \in ChunksFrom(o, 0) \cup ChunksFrom(o, position) : ProcessItem(c)
  <2>0. PICK o \in Objects : \E c \in ChunksFrom(o, 0) \cup ChunksFrom(o, position) : ProcessItem(c)
    BY <1>4
  <2>1. PICK c \in ChunksFrom(o, 0) \cup ChunksFrom(o, position) : ProcessItem(c)
    BY <2>0
  <2>2. NextItem(c) /\ c.obj = o
    <3>1. NextItem(c)
      BY <2>1, Zenon DEF ProcessItem, Skipped, Nameless, DropsBoth, Refuses, Buffers,
         GivesToSource, Takes
    <3> QED
      BY <3>1 DEF NextItem, ChunksFrom
  <2>3. /\ o \notin Sent /\ (o \in Sending \/ outcome[o] = "unsent")
        /\ Sending' = (IF MoreData(c) THEN {o} ELSE {})
        /\ outcome' = [outcome EXCEPT ![o] = IF MoreData(c) THEN "sending" ELSE "unanswered"]
    BY <1>1, <2>2, NextItemType
  <2>4. ASSUME NEW g \in given
        PROVE  g.obj \in Objects /\ g.obj # o /\ outcome'[g.obj] = outcome[g.obj] /\ g.obj \notin Sending'
    <3>1. /\ g.obj \in Objects /\ g.code \in Codes /\ g.obj \notin Sending
          /\ outcome[g.obj] = g.code \/ <<g.obj, g.code>> \in reply.statuses
      BY <1>1, <2>4 DEF Known, TypeInv, TypeOK
    <3>2. <<g.obj, g.code>> \in reply.statuses => g.obj \in Sent
      BY <1>1 DEF TypeInv, StatusesInMessage
    <3>3. g.obj # o
      BY <2>3, <3>1, <3>2 DEF Codes
    <3> QED
      BY <1>1, <2>3, <3>1, <3>3
  <2>5. /\ \A q \in Objects : outcome'[q] \in Codes => outcome'[q] = outcome[q]
        /\ reply.statuses \subseteq reply'.statuses => \A g \in given :
              outcome'[g.obj] = g.code \/ <<g.obj, g.code>> \in reply'.statuses
    <3>1. \A q \in Objects : outcome'[q] \in Codes => outcome'[q] = outcome[q]
      BY <1>1, <2>3 DEF Codes
    <3> QED
      BY <1>1, <2>4, <3>1 DEF Known
  <2>6. ASSUME given' = given, NEW code, code \notin Codes,
               reply'.statuses = reply.statuses \/ reply'.statuses = reply.statuses \cup {<<o, code>>}
        PROVE  Known'
    <3>1. \A s \in reply'.statuses : s[2] \in Codes => s \in reply.statuses
      BY <2>6
    <3>2. \A s \in reply'.statuses : s[2] \in Codes => \E g \in given' : g.obj = s[1] /\ g.code = s[2]
      BY <1>1, <2>6, <3>1 DEF Known
    <3>3. \A q \in Objects : outcome'[q] \in Codes => \E g \in given' : g.obj = q /\ g.code = outcome'[q]
      BY <1>1, <2>5, <2>6 DEF Known
    <3>4. reply.statuses \subseteq reply'.statuses
      BY <2>6
    <3>5. \A g \in given' : /\ g.code \in Codes /\ g.obj \notin Sending'
                            /\ outcome'[g.obj] = g.code \/ <<g.obj, g.code>> \in reply'.statuses
      BY <1>1, <2>4, <2>5, <2>6, <3>4 DEF Known
    <3> QED
      BY <3>2, <3>3, <3>5 DEF Known
  <2>7. ASSUME NEW code, Answer(c, code) PROVE reply'.statuses = reply.statuses \cup {<<o, code>>}
    BY <1>1, <2>2, <2>7 DEF Answer, TypeInv, TypeOK
  <2>8. CASE Skipped(c) \/ DropsBoth(c)
    <3>1. given' = given /\ reply'.statuses = reply.statuses
      BY <1>1, <2>8 DEF Skipped, DropsBoth, ReplyOfDropped, TypeInv, TypeOK
    <3>2. "nameless" \notin Codes
      BY DEF Codes
    <3> QED
      BY <2>6, <3>1, <3>2
  <2>9. CASE Nameless(c)
    <3>1. given' = given /\ Answer(c, "nameless") /\ "nameless" \notin Codes
      BY <2>9 DEF Nameless, Codes
    <3> QED
      BY <2>6, <2>7, <3>1
  <2>10. CASE Refuses(c)
    <3>1. given' = given /\ Answer(c, "refused") /\ "refused" \notin Codes
      BY <2>10 DEF Refuses, Codes
    <3> QED
      BY <2>6, <2>7, <3>1
  <2>11. CASE Buffers(c)
    <3>1. /\ given' = given /\ "buffered" \notin Codes
          /\ reply'.statuses = reply.statuses \cup {<<o, "buffered">>}
      BY <2>2, <2>11 DEF Buffers, Codes
    <3> QED
      BY <2>6, <3>1
  <2>12. CASE GivesToSource(c)
    <3>1. PICK code \in Codes :
            /\ given' = given \cup {[obj |-> o, data |-> WithChunk(c).data, code |-> code,
                                     spare |-> WithChunk(c).size - WithChunk(c).offset]}
            /\ Answer(c, code)
      BY <2>2, <2>12 DEF GivesToSource, StatusOf, Codes
    <3>2. reply'.statuses = reply.statuses \cup {<<o, code>>}
      BY <2>7, <3>1
    <3>3. PICK n \in given' : n.obj = o /\ n.code = code /\ given' = given \cup {n}
      BY <3>1
    <3>4. Sending' = {}
      BY <2>3, <2>12 DEF GivesToSource
    <3>5. \A s \in reply'.statuses : s[2] \in Codes => \E g \in given' : g.obj = s[1] /\ g.code = s[2]
      BY <1>1, <3>2, <3>3 DEF Known
    <3>6. \A q \in Objects : outcome'[q] \in Codes => \E g \in given' : g.obj = q /\ g.code = outcome'[q]
      BY <1>1, <2>5, <3>3 DEF Known
    <3>7. \A g \in given' : /\ g.code \in Codes /\ g.obj \notin Sending'
                            /\ outcome'[g.obj] = g.code \/ <<g.obj, g.code>> \in reply'.statuses
      BY <1>1, <2>5, <3>1, <3>2, <3>3, <3>4 DEF Known
    <3> QED
      BY <3>5, <3>6, <3>7 DEF Known
  <2> QED
    BY <2>1, <2>8, <2>9, <2>10, <2>11, <2>12 DEF ProcessItem
<1>5. CASE EndMessage
  <2>1. outcome' = [o \in Objects |-> AfterReply(o)] /\ reply'.statuses = {} /\ given' = given
    BY <1>5 DEF EndMessage, NoReply
  <2>2. ASSUME NEW o \in Objects, o \in Sent, CodesFor(o) # {}
        PROVE  \E code \in StatusCodes : /\ <<o, code>> \in reply.statuses
                                         /\ AfterReply(o) = IF code = "buffered" THEN "sending" ELSE code
    <3> DEFINE code == CHOOSE x \in CodesFor(o) : TRUE
    <3>1. code \in CodesFor(o)
      BY <2>2
    <3>2. <<o, code>> \in reply.statuses /\ code \in StatusCodes
      BY <1>1, <3>1 DEF CodesFor, TypeInv, TypeOK
    <3>3. AfterReply(o) = IF code = "buffered" THEN "sending" ELSE code
      BY <2>2 DEF AfterReply
    <3> HIDE DEF code
    <3> QED
      BY <3>2, <3>3
  <2>3. ASSUME NEW o \in Objects, AfterReply(o) \in Codes
        PROVE  \E g \in given : g.obj = o /\ g.code = AfterReply(o)
    <3>1. CASE o \notin Sent
      BY <1>1, <2>3, <3>1 DEF AfterReply, Known
    <3>2. CASE o \in Sent
      <4>1. CodesFor(o) # {}
        BY <2>3, <3>2 DEF AfterReply, Codes
      <4>2. PICK code \in StatusCodes : /\ <<o, code>> \in reply.statuses
                                        /\ AfterReply(o) = IF code = "buffered" THEN "sending" ELSE code
        BY <2>2, <3>2, <4>1
      <4>3. AfterReply(o) = code /\ code \in Codes
        BY <2>3, <4>2 DEF Codes
      <4> QED
        BY <1>1, <4>2, <4>3 DEF Known
    <3> QED
      BY <3>1, <3>2
  <2>4. ASSUME NEW g \in given
        PROVE  g.obj \in Objects /\ g.code \in Codes /\ AfterReply(g.obj) = g.code
    <3>1. /\ g.obj \in Objects /\ g.code \in Codes
          /\ outcome[g.obj] = g.code \/ <<g.obj, g.code>> \in reply.statuses
      BY <1>1, <2>4 DEF Known, TypeInv, TypeOK
    <3>2. CASE <<g.obj, g.code>> \in reply.statuses
      <4>1. g.obj \in Sent
        BY <1>1, <3>2 DEF TypeInv, StatusesInMessage
      <4>2. g.code \in CodesFor(g.obj)
        BY <3>2 DEF CodesFor
      <4>3. PICK code \in StatusCodes : /\ <<g.obj, code>> \in reply.statuses
                                        /\ AfterReply(g.obj) = IF code = "buffered" THEN "sending" ELSE code
        BY <2>2, <3>1, <4>1, <4>2
      <4>4. <<g.obj, code>> = <<g.obj, g.code>>
        BY <1>1, <3>2, <4>3 DEF TypeInv, StatusesInMessage
      <4>5. code = g.code
        BY <4>4
      <4> QED
        BY <3>1, <4>3, <4>5 DEF Codes
    <3>3. CASE outcome[g.obj] = g.code
      <4>1. g.obj \notin Sent
        BY <1>1, <3>1, <3>3 DEF TypeInv, StatusesInMessage, Codes
      <4> QED
        BY <3>1, <3>3, <4>1 DEF AfterReply
    <3> QED
      BY <3>1, <3>2, <3>3
  <2>5. \A g \in given : g.obj \notin Sending'
    BY <2>1, <2>4 DEF Sending, Codes
  <2> QED
    BY <2>1, <2>3, <2>4, <2>5 DEF Known
<1> QED
  BY <1>2, <1>3, <1>4, <1>5 DEF Next

LEMMA ItemsInductive == (Init => IInv) /\ (IInv /\ [Next]_vars => IInv')
<1>1. ASSUME Init PROVE IInv
  <2>1. Sending = {} /\ Sent = {} /\ reply.statuses = {} /\ given = {} /\ ~message.skipped
    BY <1>1 DEF Init, Sending, Sent, NoReply, NewMessage
  <2>2. Held /\ OneSilent
    BY <2>1 DEF Held, OneSilent, Silent
  <2>3. Known
    BY <1>1, <2>1 DEF Init, Known, Codes
  <2> QED
    BY <1>1, <2>2, <2>3, TypeInit DEF IInv
<1>2. IInv /\ [Next]_vars => IInv'
  BY TypeNext, HeldNext, OneSilentNext, KnownNext DEF IInv
<1> QED
  BY <1>1, <1>2

(* Between messages the client holds what the server has sent of the       *)
(* object it will go on with, up to the position it will go on from.       *)
THEOREM ClientInStep == Spec => []InStep
<1>1. IInv => InStep
  BY DEF IInv, Held, InStep, Sent
<1> QED
  BY <1>1, ItemsInductive, PTL DEF Spec

(* What a source has said of an object reaches the server, nothing else    *)
(* does, and the one item that may go without a status comes with a 223.   *)
THEOREM ServerIsTold == Spec => []ServerKnows
<1>1. IInv => ServerKnows
  <2> SUFFICES ASSUME IInv PROVE ServerKnows
    OBVIOUS
  <2>1. \A o, p \in Silent : o = p
    BY DEF IInv, OneSilent
  <2>2. Cardinality(Silent) <= 1
    <3>1. CASE Silent = {}
      BY <3>1, FS_EmptySet
    <3>2. CASE Silent # {}
      <4>1. PICK o : Silent = {o}
        BY <2>1, <3>2
      <4>2. Cardinality({o}) = 1
        BY FS_Singleton
      <4> QED
        BY <4>1, <4>2
    <3> QED
      BY <3>1, <3>2
  <2>3. SilentOnlyAfter223
    BY <2>2 DEF IInv, OneSilent, SilentOnlyAfter223, Silent
  <2> QED
    BY <2>3 DEF IInv, Known, Codes, ServerKnows
<1> QED
  BY <1>1, ItemsInductive, PTL DEF Spec

-----------------------------------------------------------------------------
(* What the chunks given to a source, or held for it, are.                 *)

Gone == {o \in Objects : outcome[o] = "abandoned"}

(* The chunks d are k chunks of versions of o in gone, and then o from its *)
(* first byte, without a gap.                                              *)
Built(o, d, k, gone) ==
    /\ k \in 0..Len(d)-1 /\ d[k+1].from = 0
    /\ \A i \in k+1..Len(d) : d[i].obj = o
    /\ \A i \in k+1..Len(d)-1 : d[i+1].from = d[i].to
    /\ \A i \in 1..k : Same(d[i].obj, o) /\ d[i].obj \in gone

(* The incomplete item is what the server is sending, or has given up, or  *)
(* of a source in error, which will not be given any more of it.           *)
Pending ==
    incoming # None =>
        /\ incoming.obj.key # NoKey
        /\ \/ outcome[incoming.obj] = "abandoned"
           \/ /\ outcome[incoming.obj] = "sending"
              /\ incoming.obj \in Sent => <<incoming.obj, "buffered">> \in reply.statuses
           \/ /\ outcome[incoming.obj] \in {"sending", "unanswered"}
              /\ incoming.obj.source \in inError
              /\ \A s \in reply.statuses : s[1] # incoming.obj
              /\ message.open /\ message.source = incoming.obj.source => message.skipped

(* Its buffer has the size for the object the first chunk is of.           *)
Pieces ==
    incoming # None => \E k \in Nat :
        /\ Built(incoming.obj, incoming.data, k, Gone)
        /\ k = 0 => /\ incoming.offset = incoming.data[Len(incoming.data)].to
                    /\ incoming.size = ToleranceDataSize(incoming.obj.declared)

Wholes ==
    \A g \in given : \E k \in Nat :
        Built(g.obj, g.data, k, Gone) /\ g.data[Len(g.data)].to = g.obj.size

(* What RefusedForCause says of a refused object.                          *)
Cause(o) ==
    \/ o.declared < 0
    \/ MaxObjSize # 0 /\ o.declared > MaxObjSize
    \/ o.size > ToleranceDataSize(o.declared)
    \/ \E p \in Objects \ {o} : Same(o, p) /\ outcome[p] = "abandoned"

Causes ==
    /\ \A s \in reply.statuses : s[2] = "refused" => Cause(s[1])
    /\ \A o \in Objects : outcome[o] = "refused" => Cause(o)

ChunksInv == IInv /\ Pending /\ Pieces /\ Wholes /\ Causes

-----------------------------------------------------------------------------
(* The chunks from the first of o on are the whole o.                      *)
LEMMA BuiltIsWhole ==
    ASSUME NEW o, NEW d \in Seq(Chunk), NEW k \in Nat, NEW gone, Built(o, d, k, gone), d[Len(d)].to = o.size
    PROVE  IsWhole(o, SubSeq(d, k+1, Len(d)))
<1> DEFINE n == Len(d)
           e == SubSeq(d, k+1, n)
<1>1. n \in Nat /\ k+1 <= n /\ k+1 \in 1..n /\ n \in 1..n
  BY DEF Built
<1>2. /\ e \in Seq(Chunk) /\ Len(e) = n - k
      /\ \A i \in 1..n-k : e[i] = d[k+i]
  <2>1. /\ Len(e) = n - (k+1) + 1
        /\ \A i \in 1..n - (k+1) + 1 : e[i] = d[(k+1) + i - 1]
        /\ e \in Seq(Chunk)
    BY <1>1, SubSeqProperties
  <2>2. n - (k+1) + 1 = n - k /\ \A i \in 1..n-k : (k+1) + i - 1 = k+i
    BY <1>1
  <2> QED
    BY <2>1, <2>2
<1>3. /\ d[k+1].from = 0
      /\ \A i \in k+1..n : d[i].obj = o
      /\ \A i \in k+1..n-1 : d[i+1].from = d[i].to
  BY DEF Built
<1> HIDE DEF e
<1>4. e # <<>> /\ e[1].from = 0
  BY <1>1, <1>2, <1>3
<1>5. e[Len(e)].to = o.size
  BY <1>1, <1>2
<1>6. \A i \in 1..Len(e) : e[i].obj = o
  <2>1. \A i \in 1..n-k : k+i \in k+1..n
    BY <1>1
  <2> QED
    BY <1>2, <1>3, <2>1
<1>7. \A i \in 1..Len(e)-1 : e[i+1].from = e[i].to
  <2>1. \A i \in 1..n-k-1 : k+i \in k+1..n-1 /\ i \in 1..n-k /\ i+1 \in 1..n-k /\ k+(i+1) = (k+i)+1
    BY <1>1
  <2> QED
    BY <1>2, <1>3, <2>1
<1> QED
  BY <1>4, <1>5, <1>6, <1>7 DEF IsWhole, e

(* What a status becomes with the answer. *)
LEMMA AnswerCounts ==
    ASSUME TypeInv, NEW o \in Objects, NEW code, <<o, code>> \in reply.statuses
    PROVE  AfterReply(o) = IF code = "buffered" THEN "sending" ELSE code
<1>1. o \in Sent /\ \A s \in reply.statuses : s[1] = o => s = <<o, code>>
  BY DEF TypeInv, StatusesInMessage
<1>2. CodesFor(o) = {code}
  <2>1. code \in CodesFor(o)
    BY DEF CodesFor
  <2>2. ASSUME NEW x \in CodesFor(o) PROVE x = code
    <3>1. PICK t \in reply.statuses : t[1] = o /\ x = t[2]
      BY DEF CodesFor
    <3> QED
      BY <1>1, <3>1
  <2> QED
    BY <2>1, <2>2
<1>3. (CHOOSE x \in CodesFor(o) : TRUE) = code
  BY <1>2
<1> QED
  BY <1>1, <1>2, <1>3 DEF AfterReply

(* The server never takes an object up again that it has given up. *)
LEMMA AbandonedStays ==
    ASSUME TypeInv, [Next]_vars, NEW q \in Objects, outcome[q] = "abandoned"
    PROVE  outcome'[q] = "abandoned"
<1>1. outcome \in [Objects -> Outcomes]
  BY DEF TypeInv, TypeOK
<1>2. CASE (\E s \in Sources : OpenSync(s)) \/ Abort \/ UNCHANGED vars
  BY <1>2 DEF OpenSync, Abort, vars
<1>3. CASE GiveUp
  BY <1>1, <1>3 DEF GiveUp, Sending
<1>4. CASE \E o \in Objects : \E c \in ChunksFrom(o, 0) \cup ChunksFrom(o, position) : ProcessItem(c)
  <2>1. PICK o \in Objects : \E c \in ChunksFrom(o, 0) \cup ChunksFrom(o, position) : ProcessItem(c)
    BY <1>4
  <2>2. PICK c \in ChunksFrom(o, 0) \cup ChunksFrom(o, position) : NextItem(c)
    BY <2>1, Zenon DEF ProcessItem, Skipped, Nameless, DropsBoth, Refuses, Buffers,
       GivesToSource, Takes
  <2>3. /\ o \in Sending \/ outcome[o] = "unsent"
        /\ outcome' = [outcome EXCEPT ![o] = IF MoreData(c) THEN "sending" ELSE "unanswered"]
    BY <2>2, NextItemType
  <2> QED
    BY <1>1, <2>3 DEF Sending
<1>5. CASE EndMessage
  <2>1. q \notin Sent
    BY DEF TypeInv, StatusesInMessage
  <2>2. outcome'[q] = AfterReply(q)
    BY <1>5 DEF EndMessage
  <2> QED
    BY <2>1, <2>2 DEF AfterReply
<1> QED
  BY <1>2, <1>3, <1>4, <1>5 DEF Next

LEMMA BuiltStays ==
    ASSUME TypeInv, [Next]_vars, NEW o, NEW d, NEW k, Built(o, d, k, Gone)
    PROVE  Built(o, d, k, Gone')
<1>1. Gone \subseteq Gone'
  BY AbandonedStays DEF Gone
<1> QED
  BY <1>1 DEF Built

LEMMA CauseStays ==
    ASSUME TypeInv, [Next]_vars, NEW o, Cause(o)
    PROVE  Cause(o)'
BY AbandonedStays DEF Cause

(* A chunk that goes on with the incomplete item goes on where the item    *)
(* ends, or begins another version of it.                                  *)
LEMMA GoesOn ==
    ASSUME ChunksInv, NEW o \in Objects,
           NEW c \in ChunksFrom(o, 0) \cup ChunksFrom(o, position),
           NextItem(c), ~message.skipped, Continues(c)
    PROVE  /\ incoming # None /\ incoming \in Item /\ Same(incoming.obj, o)
           /\ \/ /\ o = incoming.obj /\ outcome[o] = "sending"
                 /\ c.from = incoming.data[Len(incoming.data)].to
              \/ /\ o # incoming.obj /\ outcome[incoming.obj] = "abandoned"
                 /\ c.from = 0
<1>1. /\ c.obj = o /\ o \notin Sent
      /\ o \in Sending \/ (Sending = {} /\ outcome[o] = "unsent")
      /\ message.source = o.source /\ message.open
  BY NextItemType DEF ChunksInv, IInv, NextItem
<1>2. incoming # None /\ incoming \in Item /\ Same(incoming.obj, o)
  BY <1>1 DEF Continues, IsNewItem, ChunksInv, IInv, TypeInv, TypeOK
<1>3. incoming.obj.source = o.source
  BY <1>2 DEF Same, Identity
<1>4. outcome[incoming.obj] \in {"abandoned", "sending"}
  BY <1>1, <1>2, <1>3 DEF ChunksInv, Pending
<1>5. incoming.obj \in Objects
  BY <1>2 DEF Item
<1>6. CASE o = incoming.obj
  <2>1. o \in Sending /\ outcome[o] = "sending"
    BY <1>1, <1>4, <1>6 DEF Sending
  <2>2. c \in ChunksFrom(o, position)
    BY <1>1, <2>1 DEF NextItem
  <2>3. c.from = position
    BY <2>2 DEF ChunksFrom
  <2> QED
    BY <1>1, <1>2, <1>6, <2>1, <2>3 DEF ChunksInv, IInv, Held
<1>7. CASE o # incoming.obj
  <2>1. o \notin Sending
    BY <1>1, <1>7 DEF ChunksInv, IInv, Held
  <2>2. outcome[incoming.obj] = "abandoned"
    BY <1>1, <1>4, <1>5, <2>1 DEF Sending
  <2>3. c \in ChunksFrom(o, 0)
    BY <1>1, <2>1 DEF NextItem
  <2>4. c.from = 0
    BY <2>3 DEF ChunksFrom
  <2> QED
    BY <1>2, <1>7, <2>2, <2>4
<1> QED
  BY <1>6, <1>7

(* The item with the chunk that is taken. *)
LEMMA ChunkAdded ==
    ASSUME ChunksInv, NEW o \in Objects,
           NEW c \in ChunksFrom(o, 0) \cup ChunksFrom(o, position), Takes(c)
    PROVE  \E k \in Nat :
              /\ Built(o, WithChunk(c).data, k, Gone)
              /\ k = 0 /\ MoreData(c) => /\ WithChunk(c).offset = c.to
                                         /\ WithChunk(c).size = ToleranceDataSize(o.declared)
<1>0. TypeInv /\ NextItem(c) /\ ~message.skipped
  BY DEF Takes, ChunksInv, IInv
<1>a. /\ c \in Chunk /\ c.obj = o
      /\ o \in Sending \/ (Sending = {} /\ outcome[o] = "unsent")
  BY <1>0, NextItemType
<1>1. /\ c \in Chunk /\ c.obj = o
      /\ c.from \in Nat /\ c.to \in Nat
      /\ o \in Sending \/ (Sending = {} /\ outcome[o] = "unsent")
  BY <1>a DEF Chunk
<1>2. CASE Begins(c)
  <2>1. /\ incoming = None /\ ~Continues(c) /\ Received(c) = 0
        /\ Reserved(c) = ToleranceDataSize(o.declared)
    BY <1>1, <1>2 DEF Begins, Continues, Received, Reserved
  <2>2. Sending = {}
    BY <1>0, <1>1, <2>1, NextItemType DEF ChunksInv, IInv, Held, Takes, TypeInv, OneSending
  <2>3. c.from = 0
    BY <1>0, <1>1, <2>2 DEF NextItem, ChunksFrom
  <2>4. /\ WithChunk(c).data = <<c>> /\ WithChunk(c).offset = 0 + Length(c)
        /\ MoreData(c) => WithChunk(c).size = ToleranceDataSize(o.declared)
    BY <1>2, <2>1 DEF WithChunk
  <2>5. Built(o, <<c>>, 0, Gone)
    BY <1>1, <2>3 DEF Built
  <2> QED
    BY <1>1, <2>3, <2>4, <2>5 DEF Length
<1>3. CASE ~Begins(c)
  <2>1. /\ incoming # None /\ Continues(c)
        /\ Received(c) = incoming.offset /\ Reserved(c) = incoming.size
    BY <1>3 DEF Takes, Begins, Continues, Received, Reserved
  <2>2. /\ incoming \in Item /\ Same(incoming.obj, o)
        /\ \/ /\ o = incoming.obj /\ outcome[o] = "sending"
              /\ c.from = incoming.data[Len(incoming.data)].to
           \/ /\ o # incoming.obj /\ outcome[incoming.obj] = "abandoned"
              /\ c.from = 0
    BY <1>0, <2>1, GoesOn
  <2> DEFINE d == incoming.data
             n == Len(d)
  <2>3. d \in Seq(Chunk) /\ n \in Nat /\ incoming.offset \in Nat /\ incoming.obj \in Objects
    BY <2>2 DEF Item
  <2>4. /\ WithChunk(c).data = Append(d, c)
        /\ WithChunk(c).offset = incoming.offset + Length(c)
        /\ WithChunk(c).size = incoming.size
    BY <1>3, <2>1 DEF WithChunk
  <2>5. PICK k \in Nat :
          /\ Built(incoming.obj, d, k, Gone)
          /\ k = 0 => /\ incoming.offset = d[n].to
                      /\ incoming.size = ToleranceDataSize(incoming.obj.declared)
    BY <2>1 DEF ChunksInv, Pieces
  <2>6. /\ k \in 0..n-1 /\ d[k+1].from = 0
        /\ \A i \in k+1..n : d[i].obj = incoming.obj
        /\ \A i \in k+1..n-1 : d[i+1].from = d[i].to
        /\ \A i \in 1..k : Same(d[i].obj, incoming.obj) /\ d[i].obj \in Gone
    BY <2>5 DEF Built
  <2>7. \A x, y, z : Same(x, y) /\ Same(y, z) => Same(x, z)
    BY DEF Same
  <2> HIDE DEF d, n
  <2> DEFINE e == Append(d, c)
  <2>8. /\ Len(e) = n + 1 /\ e[n+1] = c /\ \A i \in 1..n : e[i] = d[i]
    BY <1>1, <2>3 DEF n
  <2> HIDE DEF e
  <2>9. CASE o = incoming.obj
    <3>1. c.from = d[n].to
      BY <2>2, <2>9 DEF d, n
    <3>2. /\ k \in 0..Len(e)-1 /\ e[k+1].from = 0
      BY <2>3, <2>6, <2>8
    <3>3. \A i \in k+1..Len(e) : e[i].obj = o
      <4> SUFFICES ASSUME NEW i \in k+1..Len(e) PROVE e[i].obj = o
        OBVIOUS
      <4>1. CASE i = n+1
        BY <1>1, <2>8, <4>1
      <4>2. CASE i # n+1
        <5>1. i \in k+1..n /\ i \in 1..n
          BY <2>3, <2>6, <2>8, <4>2
        <5> QED
          BY <2>6, <2>8, <2>9, <5>1
      <4> QED
        BY <4>1, <4>2
    <3>4. \A i \in k+1..Len(e)-1 : e[i+1].from = e[i].to
      <4> SUFFICES ASSUME NEW i \in k+1..Len(e)-1 PROVE e[i+1].from = e[i].to
        OBVIOUS
      <4>1. CASE i = n
        BY <2>3, <2>6, <2>8, <3>1, <4>1
      <4>2. CASE i # n
        <5>1. i \in k+1..n-1 /\ i+1 \in 1..n /\ i \in 1..n
          BY <2>3, <2>6, <2>8, <4>2
        <5> QED
          BY <2>6, <2>8, <5>1
      <4> QED
        BY <4>1, <4>2
    <3>5. \A i \in 1..k : Same(e[i].obj, o) /\ e[i].obj \in Gone
      <4>1. \A i \in 1..k : i \in 1..n
        BY <2>3, <2>6
      <4> QED
        BY <2>6, <2>8, <2>9, <4>1
    <3>6. Built(o, e, k, Gone)
      BY <3>2, <3>3, <3>4, <3>5 DEF Built
    <3>7. k = 0 => incoming.offset + Length(c) = c.to
      <4>1. k = 0 => incoming.offset = c.from
        BY <2>5, <3>1
      <4> QED
        BY <1>1, <4>1 DEF Length
    <3> QED
      BY <2>4, <2>5, <2>9, <3>6, <3>7 DEF e
  <2>10. CASE o # incoming.obj
    <3>1. incoming.obj \in Gone /\ c.from = 0 /\ Same(incoming.obj, o)
      BY <2>2, <2>3, <2>10 DEF Gone
    <3>2. n \in 0..Len(e)-1 /\ e[n+1].from = 0
      BY <2>3, <2>8, <3>1
    <3>3. \A i \in n+1..Len(e) : e[i].obj = o
      BY <1>1, <2>3, <2>8
    <3>4. \A i \in n+1..Len(e)-1 : e[i+1].from = e[i].to
      BY <2>3, <2>8
    <3>5. \A i \in 1..n : Same(e[i].obj, o) /\ e[i].obj \in Gone
      <4> SUFFICES ASSUME NEW i \in 1..n PROVE Same(d[i].obj, o) /\ d[i].obj \in Gone
        BY <2>8
      <4>1. i \in 1..k \/ i \in k+1..n
        BY <2>3
      <4>2. CASE i \in 1..k
        BY <2>6, <2>7, <3>1, <4>2
      <4>3. CASE i \in k+1..n
        BY <2>6, <3>1, <4>3
      <4> QED
        BY <4>1, <4>2, <4>3
    <3>6. Built(o, e, n, Gone)
      BY <3>2, <3>3, <3>4, <3>5 DEF Built
    <3>7. n # 0
      BY <2>3, <2>6
    <3> QED
      BY <2>3, <2>4, <3>6, <3>7 DEF e
  <2> QED
    BY <2>9, <2>10
<1> QED
  BY <1>2, <1>3

(* A chunk is refused for the object itself, or for another version that   *)
(* was given up.                                                           *)
LEMMA RefusalHasCause ==
    ASSUME ChunksInv, NEW o \in Objects,
           NEW c \in ChunksFrom(o, 0) \cup ChunksFrom(o, position), Refuses(c)
    PROVE  Cause(o)
<1>0. TypeInv /\ NextItem(c) /\ ~message.skipped
  BY DEF Refuses, ChunksInv, IInv
<1>a. /\ c \in Chunk /\ c.obj = o /\ Length(c) \in Nat
      /\ o \in Sending \/ (Sending = {} /\ outcome[o] = "unsent")
      /\ o \notin Sent /\ o.size \in Nat
  BY <1>0, NextItemType
<1>1. /\ c \in Chunk /\ c.obj = o
      /\ c.from \in Nat /\ c.to \in Nat /\ Length(c) \in Nat
      /\ o \in Sending \/ (Sending = {} /\ outcome[o] = "unsent")
      /\ o \notin Sent /\ o.size \in Nat
  BY <1>a DEF Chunk
<1>2. c.to <= o.size
  <2>1. \A p \in Nat : c \in ChunksFrom(o, p) => c.to <= o.size
    <3> SUFFICES ASSUME NEW p \in Nat, c \in ChunksFrom(o, p) PROVE c.to <= o.size
      OBVIOUS
    <3>1. PICK t \in {k \in Cuts : p < k /\ k < o.size} \cup {o.size} :
            c = [obj |-> o, from |-> p, to |-> t]
      BY DEF ChunksFrom
    <3>2. t <= o.size
      BY <1>1, <3>1, CutsAssumption
    <3> QED
      BY <3>1, <3>2
  <2>2. position \in Nat
    BY DEF ChunksInv, IInv, TypeInv, TypeOK
  <2> QED
    BY <2>1, <2>2
<1>3. o.declared \in Int /\ ToleranceDataSize(o.declared) \in Int
  BY ObjectsAssumption DEF ToleranceDataSize
<1>4. CASE TooLarge(c)
  BY <1>1, <1>4 DEF TooLarge, Cause
<1>5. CASE Overflows(c) /\ Begins(c)
  <2>1. Received(c) = 0 /\ Reserved(c) = ToleranceDataSize(o.declared)
    BY <1>1, <1>5 DEF Begins, Received, Reserved
  <2>2. Length(c) > ToleranceDataSize(o.declared)
    BY <1>1, <1>3, <1>5, <2>1 DEF Overflows
  <2>3. o.size > ToleranceDataSize(o.declared)
    BY <1>1, <1>2, <1>3, <2>2 DEF Length
  <2> QED
    BY <2>3 DEF Cause
<1>6. CASE Overflows(c) /\ ~Begins(c)
  <2>1. /\ incoming # None /\ Continues(c)
        /\ Received(c) = incoming.offset /\ Reserved(c) = incoming.size
    BY <1>6 DEF Refuses, Begins, Continues, Received, Reserved
  <2>2. /\ incoming \in Item /\ Same(incoming.obj, o)
        /\ \/ /\ o = incoming.obj /\ outcome[o] = "sending"
              /\ c.from = incoming.data[Len(incoming.data)].to
           \/ /\ o # incoming.obj /\ outcome[incoming.obj] = "abandoned"
              /\ c.from = 0
    BY <1>0, <2>1, GoesOn
  <2>3. /\ incoming.obj \in Objects /\ incoming.offset \in Nat /\ incoming.size \in Int
        /\ incoming.data \in Seq(Chunk)
    BY <2>2 DEF Item
  <2>4. \A p \in Objects : Same(p, o) => Same(o, p)
    BY DEF Same
  <2>5. CASE o # incoming.obj
    BY <2>2, <2>3, <2>4, <2>5 DEF Cause
  <2>6. CASE o = incoming.obj
    <3>1. PICK k \in Nat :
            /\ Built(incoming.obj, incoming.data, k, Gone)
            /\ k = 0 => /\ incoming.offset = incoming.data[Len(incoming.data)].to
                        /\ incoming.size = ToleranceDataSize(incoming.obj.declared)
      BY <2>1 DEF ChunksInv, Pieces
    <3>2. CASE k = 0
      <4>1. incoming.offset = c.from /\ incoming.size = ToleranceDataSize(o.declared)
        BY <2>2, <2>6, <3>1, <3>2
      <4>2. incoming.offset + Length(c) > incoming.size
        BY <1>6, <2>1 DEF Overflows
      <4>3. o.size > ToleranceDataSize(o.declared)
        BY <1>1, <1>2, <1>3, <4>1, <4>2 DEF Length
      <4> QED
        BY <4>3 DEF Cause
    <3>3. CASE k # 0
      <4> DEFINE p == incoming.data[1].obj
      <4>1. 1 \in 1..k /\ 1 \in 1..Len(incoming.data)
        BY <2>3, <3>1, <3>3 DEF Built
      <4>2. Same(p, o) /\ outcome[p] = "abandoned"
        BY <2>6, <3>1, <4>1 DEF Built, Gone
      <4>3. p \in Objects
        <5>1. incoming.data[1] \in Chunk
          BY <2>3, <4>1
        <5> QED
          BY <5>1 DEF Chunk
      <4>4. p # o
        BY <2>2, <2>6, <4>2
      <4> QED
        BY <2>4, <4>2, <4>3, <4>4 DEF Cause
    <3> QED
      BY <3>2, <3>3
  <2> QED
    BY <2>5, <2>6
<1> QED
  BY <1>4, <1>5, <1>6 DEF Refuses

(* What processSyncItem() does with a chunk, for the four parts. *)
LEMMA ChunksItem ==
    ASSUME ChunksInv, [Next]_vars, NEW o \in Objects,
           NEW c \in ChunksFrom(o, 0) \cup ChunksFrom(o, position), ProcessItem(c)
    PROVE  Pending' /\ Pieces' /\ Wholes' /\ Causes'
<1>0. NextItem(c)
  BY Zenon DEF ProcessItem, Skipped, Nameless, DropsBoth, Refuses, Buffers, GivesToSource, Takes
<1>t. /\ TypeInv /\ outcome \in [Objects -> Outcomes] /\ incoming \in Item \cup {None}
      /\ reply \in [statuses : SUBSET (Objects \X StatusCodes),
                    alerts : SUBSET ({222, 223} \X Sources)]
      /\ message \in [items : SUBSET Chunk, source : Sources \cup {1}, open : BOOLEAN,
                      skipped : BOOLEAN, full : BOOLEAN]
  BY DEF ChunksInv, IInv, TypeInv, TypeOK
<1>1. /\ c.obj = o /\ o \notin Sent /\ Sent' = Sent \cup {o}
      /\ o \in Sending \/ (Sending = {} /\ outcome[o] = "unsent")
      /\ outcome' = [outcome EXCEPT ![o] = IF MoreData(c) THEN "sending" ELSE "unanswered"]
      /\ message' = [message EXCEPT !.items = @ \cup {c}, !.full = MoreData(c)]
  BY <1>0, <1>t, NextItemType
<1>2. /\ message'.open = message.open /\ message'.source = message.source
      /\ message'.skipped = message.skipped
  BY <1>t, <1>1
<1>3. incoming # None => incoming \in Item /\ incoming.obj \in Objects /\ incoming.data \in Seq(Chunk)
  BY <1>t DEF Item
<1>4. incoming' = incoming => Pieces'
  <2> SUFFICES ASSUME incoming' = incoming, incoming # None PROVE Pieces'
    BY DEF Pieces
  <2>1. PICK k \in Nat :
          /\ Built(incoming.obj, incoming.data, k, Gone)
          /\ k = 0 => /\ incoming.offset = incoming.data[Len(incoming.data)].to
                      /\ incoming.size = ToleranceDataSize(incoming.obj.declared)
    BY DEF ChunksInv, Pieces
  <2>2. Built(incoming.obj, incoming.data, k, Gone')
    BY <1>t, <2>1, BuiltStays
  <2> QED
    BY <2>1, <2>2 DEF Pieces
<1>5. given' = given => Wholes'
  <2> SUFFICES ASSUME given' = given, NEW g \in given
               PROVE  \E k \in Nat : Built(g.obj, g.data, k, Gone') /\ g.data[Len(g.data)].to = g.obj.size
    BY DEF Wholes
  <2>1. g.data \in Seq(Chunk)
    BY <1>t DEF TypeInv, TypeOK
  <2>2. PICK k \in Nat : Built(g.obj, g.data, k, Gone) /\ g.data[Len(g.data)].to = g.obj.size
    BY DEF ChunksInv, Wholes
  <2> QED
    BY <1>t, <2>1, <2>2, BuiltStays
<1>6. ASSUME NEW code,
             reply'.statuses = reply.statuses \/ reply'.statuses = reply.statuses \cup {<<o, code>>},
             code = "refused" => Cause(o)
      PROVE  Causes'
  <2>1. \A s \in reply'.statuses : s[2] = "refused" => Cause(s[1])
    BY <1>6 DEF ChunksInv, Causes
  <2>2. \A q \in Objects : outcome'[q] = "refused" => outcome[q] = "refused"
    BY <1>t, <1>1
  <2>3. \A q : Cause(q) => Cause(q)'
    BY <1>t, CauseStays
  <2> QED
    BY <2>1, <2>2, <2>3 DEF ChunksInv, Causes
<1>7. ASSUME NEW code, Answer(c, code)
      PROVE  reply'.statuses = reply.statuses \cup {<<o, code>>}
  BY <1>t, <1>1, <1>7 DEF Answer
<1>8. incoming' = None => Pending' /\ Pieces'
  BY DEF Pending, Pieces
<1>9. CASE Skipped(c)
  <2>1. UNCHANGED <<incoming, inError, given, mappings, reply>> /\ message.skipped
    BY <1>9 DEF Skipped
  <2>2. message.source \in inError /\ message.source = o.source
    BY <1>0, <1>1, <2>1 DEF ChunksInv, IInv, OneSilent, NextItem
  <2>3. ASSUME incoming # None, incoming.obj = o PROVE Pending'
    BY <1>t, <1>1, <1>2, <1>3, <2>1, <2>2, <2>3 DEF ChunksInv, Pending, TypeInv, StatusesInMessage
  <2>4. ASSUME incoming # None, incoming.obj # o PROVE Pending'
    BY <1>t, <1>1, <1>2, <1>3, <2>1, <2>4 DEF ChunksInv, Pending
  <2>5. Pending'
    BY <2>1, <2>3, <2>4 DEF Pending
  <2> QED
    BY <1>4, <1>5, <1>6, <2>1, <2>5
<1>10. CASE Nameless(c)
  <2>1. UNCHANGED <<incoming, inError, given>> /\ Answer(c, "nameless") /\ o.key = NoKey
    BY <1>1, <1>10 DEF Nameless
  <2>2. reply'.statuses = reply.statuses \cup {<<o, "nameless">>}
    BY <1>7, <2>1
  <2>3. incoming # None => incoming.obj # o
    BY <2>1 DEF ChunksInv, Pending
  <2>4. incoming # None => outcome'[incoming.obj] = outcome[incoming.obj]
    BY <1>t, <1>1, <1>3, <2>3
  <2>5. Pending'
    BY <1>1, <1>2, <2>1, <2>2, <2>3, <2>4 DEF ChunksInv, Pending
  <2> QED
    BY <1>4, <1>5, <1>6, <2>1, <2>2, <2>5
<1>11. CASE DropsBoth(c)
  <2>1. given' = given /\ incoming' = None /\ reply'.statuses = reply.statuses
    BY <1>t, <1>11 DEF DropsBoth, ReplyOfDropped
  <2> QED
    BY <1>5, <1>6, <1>8, <2>1
<1>12. CASE Refuses(c)
  <2>1. given' = given /\ incoming' = None /\ Answer(c, "refused")
    BY <1>12 DEF Refuses
  <2>2. Cause(o)
    BY <1>12, RefusalHasCause
  <2> QED
    BY <1>5, <1>6, <1>7, <1>8, <2>1, <2>2
<1>13. CASE Buffers(c)
  <2>1. /\ Takes(c) /\ MoreData(c) /\ incoming' = WithChunk(c) /\ given' = given
        /\ reply'.statuses = reply.statuses \cup {<<o, "buffered">>}
    BY <1>1, <1>13 DEF Buffers
  <2>2. /\ WithChunk(c).obj = o /\ WithChunk(c).data \in Seq(Chunk)
        /\ WithChunk(c).data[Len(WithChunk(c).data)] = c
    <3>1. WithChunk(c) \in Item /\ WithChunk(c).obj = o
          /\ WithChunk(c).data[Len(WithChunk(c).data)] = c
      BY <2>1, ChunkTaken DEF ChunksInv, IInv
    <3> QED
      BY <3>1 DEF Item
  <2>3. PICK k \in Nat :
          /\ Built(o, WithChunk(c).data, k, Gone)
          /\ k = 0 => /\ WithChunk(c).offset = c.to
                      /\ WithChunk(c).size = ToleranceDataSize(o.declared)
    BY <2>1, ChunkAdded
  <2>4. Built(o, WithChunk(c).data, k, Gone')
    BY <1>t, <2>3, BuiltStays
  <2>6. Pieces'
    <3>1. /\ incoming'.obj = o /\ incoming'.data = WithChunk(c).data
          /\ incoming'.size = WithChunk(c).size /\ incoming'.offset = WithChunk(c).offset
      BY <2>1, <2>2
    <3>2. Built(incoming'.obj, incoming'.data, k, Gone')
      BY <2>4, <3>1
    <3>3. k = 0 => /\ incoming'.offset = incoming'.data[Len(incoming'.data)].to
                   /\ incoming'.size = ToleranceDataSize(incoming'.obj.declared)
      BY <2>2, <2>3, <3>1
    <3> QED
      BY <3>2, <3>3 DEF Pieces
  <2>7. Pending'
    <3>1. incoming'.obj = o /\ o.key # NoKey
      BY <1>1, <2>1, <2>2 DEF Takes
    <3>2. outcome'[o] = "sending" /\ <<o, "buffered">> \in reply'.statuses
      BY <1>t, <1>1, <2>1
    <3> QED
      BY <3>1, <3>2 DEF Pending
  <2> QED
    BY <1>5, <1>6, <2>1, <2>6, <2>7
<1>14. CASE GivesToSource(c)
  <2>1. PICK code \in {"stored", "exists", "failed"} :
          /\ given' = given \cup {[obj |-> o, data |-> WithChunk(c).data, code |-> code,
                                   spare |-> WithChunk(c).size - WithChunk(c).offset]}
          /\ incoming' = None /\ Answer(c, code)
    BY <1>1, <1>14 DEF GivesToSource, StatusOf
  <2> DEFINE w == [obj |-> o, data |-> WithChunk(c).data, code |-> code,
                   spare |-> WithChunk(c).size - WithChunk(c).offset]
  <2>2. Takes(c) /\ ~MoreData(c)
    BY <1>14 DEF GivesToSource
  <2>3. given' = given \cup {w} /\ w.obj = o /\ w.data = WithChunk(c).data
    BY <2>1
  <2> HIDE DEF w
  <2>4. /\ w.data \in Seq(Chunk) /\ w.data[Len(w.data)] = c
    <3>1. WithChunk(c) \in Item /\ WithChunk(c).data[Len(WithChunk(c).data)] = c
      BY <2>2, ChunkTaken DEF ChunksInv, IInv
    <3> QED
      BY <2>3, <3>1 DEF Item
  <2>5. c.to = o.size
    <3>1. o.size \in Nat
      BY ObjectsAssumption
    <3>2. \A p : c \in ChunksFrom(o, p) => c.to < o.size \/ c.to = o.size
      BY DEF ChunksFrom
    <3> QED
      BY <1>1, <2>2, <3>1, <3>2 DEF MoreData
  <2>6. PICK k \in Nat : Built(o, WithChunk(c).data, k, Gone)
    BY <2>2, ChunkAdded
  <2>7. Built(w.obj, w.data, k, Gone')
    BY <1>t, <2>3, <2>4, <2>6, BuiltStays
  <2>8. Wholes'
    <3> SUFFICES ASSUME NEW g \in given'
                 PROVE  \E j \in Nat : Built(g.obj, g.data, j, Gone') /\ g.data[Len(g.data)].to = g.obj.size
      BY DEF Wholes
    <3>1. CASE g = w
      BY <2>3, <2>4, <2>5, <2>7, <3>1
    <3>2. CASE g \in given
      <4>1. g.data \in Seq(Chunk)
        BY <1>t, <3>2 DEF TypeInv, TypeOK
      <4>2. PICK j \in Nat : Built(g.obj, g.data, j, Gone) /\ g.data[Len(g.data)].to = g.obj.size
        BY <3>2 DEF ChunksInv, Wholes
      <4> QED
        BY <1>t, <4>1, <4>2, BuiltStays
    <3> QED
      BY <2>3, <3>1, <3>2
  <2>9. Causes'
    BY <1>6, <1>7, <2>1
  <2> QED
    BY <1>8, <2>1, <2>8, <2>9
<1> QED
  BY <1>9, <1>10, <1>11, <1>12, <1>13, <1>14 DEF ProcessItem

LEMMA ChunksNext == ChunksInv /\ [Next]_vars => Pending' /\ Pieces' /\ Wholes' /\ Causes'
<1> SUFFICES ASSUME ChunksInv, [Next]_vars PROVE Pending' /\ Pieces' /\ Wholes' /\ Causes'
  OBVIOUS
<1>t. /\ TypeInv /\ outcome \in [Objects -> Outcomes] /\ incoming \in Item \cup {None}
      /\ message \in [items : SUBSET Chunk, source : Sources \cup {1}, open : BOOLEAN,
                      skipped : BOOLEAN, full : BOOLEAN]
  BY DEF ChunksInv, IInv, TypeInv, TypeOK
<1>1. CASE \E o \in Objects : \E c \in ChunksFrom(o, 0) \cup ChunksFrom(o, position) : ProcessItem(c)
  <2>1. PICK o \in Objects : \E c \in ChunksFrom(o, 0) \cup ChunksFrom(o, position) : ProcessItem(c)
    BY <1>1
  <2>2. PICK c \in ChunksFrom(o, 0) \cup ChunksFrom(o, position) : ProcessItem(c)
    BY <2>1
  <2> QED
    BY <2>2, ChunksItem
<1>2. ASSUME incoming' = incoming, given' = given PROVE Pieces' /\ Wholes'
  <2>3. Pieces'
    <3> SUFFICES ASSUME incoming # None PROVE Pieces'
      BY <1>2 DEF Pieces
    <3>1. PICK k \in Nat :
            /\ Built(incoming.obj, incoming.data, k, Gone)
            /\ k = 0 => /\ incoming.offset = incoming.data[Len(incoming.data)].to
                        /\ incoming.size = ToleranceDataSize(incoming.obj.declared)
      BY DEF ChunksInv, Pieces
    <3>2. incoming.data \in Seq(Chunk)
      BY <1>t DEF Item
    <3>3. Built(incoming.obj, incoming.data, k, Gone')
      BY <1>t, <3>1, BuiltStays
    <3> QED
      BY <1>2, <3>1, <3>3 DEF Pieces
  <2>4. Wholes'
    <3> SUFFICES ASSUME NEW g \in given
                 PROVE  \E k \in Nat : Built(g.obj, g.data, k, Gone') /\ g.data[Len(g.data)].to = g.obj.size
      BY <1>2 DEF Wholes
    <3>1. g.data \in Seq(Chunk)
      BY <1>t DEF TypeInv, TypeOK
    <3>2. PICK k \in Nat : Built(g.obj, g.data, k, Gone) /\ g.data[Len(g.data)].to = g.obj.size
      BY DEF ChunksInv, Wholes
    <3> QED
      BY <1>t, <3>1, <3>2, BuiltStays
  <2> QED
    BY <2>3, <2>4
<1>3. \A q : Cause(q) => Cause(q)'
  BY <1>t, CauseStays
<1>4. CASE \E s \in Sources : OpenSync(s)
  <2>1. PICK s \in Sources : OpenSync(s)
    BY <1>4
  <2>2. /\ message' = [message EXCEPT !.source = s, !.open = TRUE, !.skipped = s \in inError]
        /\ UNCHANGED <<incoming, inError, given, mappings, reply, outcome, position, running>>
    BY <2>1 DEF OpenSync
  <2>3. /\ message'.source = s /\ message'.skipped = (s \in inError)
        /\ message'.items = message.items
    BY <1>t, <2>2
  <2>4. Sent' = Sent
    BY <2>3 DEF Sent
  <2>5. Pending'
    BY <2>2, <2>3, <2>4 DEF ChunksInv, Pending
  <2>6. Causes'
    BY <1>3, <2>2 DEF ChunksInv, Causes
  <2> QED
    BY <1>2, <2>2, <2>5, <2>6
<1>5. CASE GiveUp
  <2>1. PICK o \in Sending : outcome' = [outcome EXCEPT ![o] = "abandoned"]
    BY <1>5 DEF GiveUp
  <2>2. UNCHANGED <<incoming, inError, given, reply, message>> /\ Sent' = Sent
    BY <1>5 DEF GiveUp, Sent
  <2>3. \A q \in Objects : outcome'[q] = (IF q = o THEN "abandoned" ELSE outcome[q])
    BY <1>t, <2>1
  <2>4. incoming # None => incoming.obj \in Objects
    BY <1>t DEF Item
  <2>5. Pending'
    BY <2>2, <2>3, <2>4 DEF ChunksInv, Pending
  <2>6. Causes'
    BY <1>3, <2>2, <2>3 DEF ChunksInv, Causes
  <2> QED
    BY <1>2, <2>2, <2>5, <2>6
<1>6. CASE EndMessage
  <2>1. /\ outcome' = [o \in Objects |-> AfterReply(o)]
        /\ reply' = NoReply /\ message' = NewMessage(message.source)
        /\ UNCHANGED <<incoming, inError, given>>
    BY <1>6 DEF EndMessage, IncomingKept
  <2>2. Sent' = {} /\ message'.open = FALSE /\ reply'.statuses = {}
    BY <2>1 DEF NewMessage, NoReply, Sent
  <2>3. ASSUME NEW q \in Objects, q \in Sent, CodesFor(q) # {}
        PROVE  \E code : <<q, code>> \in reply.statuses
    <3>1. PICK x : x \in CodesFor(q)
      BY <2>3
    <3>2. PICK t \in reply.statuses : t[1] = q
      BY <3>1 DEF CodesFor
    <3>3. t = <<t[1], t[2]>>
      BY <1>t, <3>2 DEF TypeInv, TypeOK
    <3> QED
      BY <3>2, <3>3
  <2>4. Pending'
    <3> SUFFICES ASSUME incoming # None PROVE Pending'
      BY <2>1 DEF Pending
    <3> DEFINE q == incoming.obj
    <3>1. q \in Objects /\ q.key # NoKey
      BY <1>t DEF Item, ChunksInv, Pending
    <3>2. outcome'[q] = AfterReply(q)
      BY <2>1, <3>1
    <3>3. CASE outcome[q] = "abandoned"
      <4>1. outcome'[q] = "abandoned"
        BY <1>t, <3>1, <3>3, AbandonedStays
      <4> QED
        BY <2>1, <3>1, <4>1 DEF Pending
    <3>4. CASE outcome[q] = "sending" /\ (q \in Sent => <<q, "buffered">> \in reply.statuses)
      <4>1. AfterReply(q) = "sending"
        <5>1. CASE q \in Sent
          BY <1>t, <3>1, <3>4, <5>1, AnswerCounts
        <5>2. CASE q \notin Sent
          BY <3>4, <5>2 DEF AfterReply
        <5> QED
          BY <5>1, <5>2
      <4> QED
        BY <2>1, <2>2, <3>1, <3>2, <4>1 DEF Pending
    <3>5. CASE /\ outcome[q] \in {"sending", "unanswered"} /\ q.source \in inError
               /\ \A s \in reply.statuses : s[1] # q
               /\ ~(outcome[q] = "sending" /\ (q \in Sent => <<q, "buffered">> \in reply.statuses))
      <4>1. CASE q \notin Sent \/ CodesFor(q) = {}
        <5>1. AfterReply(q) \in {"sending", "unanswered"}
          BY <3>5, <4>1 DEF AfterReply
        <5> QED
          BY <2>1, <2>2, <3>1, <3>2, <3>5, <5>1 DEF Pending
      <4>2. CASE q \in Sent /\ CodesFor(q) # {}
        <5>1. PICK code : <<q, code>> \in reply.statuses
          BY <2>3, <3>1, <4>2
        <5> QED
          BY <3>5, <4>2, <5>1
      <4> QED
        BY <4>1, <4>2
    <3> QED
      BY <3>3, <3>4, <3>5 DEF ChunksInv, Pending
  <2>5. ASSUME NEW q \in Objects, AfterReply(q) = "refused" PROVE Cause(q)
    <3>1. CASE q \notin Sent
      BY <2>5, <3>1 DEF AfterReply, ChunksInv, Causes
    <3>2. CASE q \in Sent
      <4>1. CodesFor(q) # {}
        BY <2>5, <3>2 DEF AfterReply
      <4>2. PICK code : <<q, code>> \in reply.statuses
        BY <2>3, <3>2, <4>1
      <4>3. code = "refused"
        BY <1>t, <2>5, <4>2, AnswerCounts
      <4>4. <<q, code>>[1] = q /\ <<q, code>>[2] = code
        OBVIOUS
      <4> QED
        BY <4>2, <4>3, <4>4 DEF ChunksInv, Causes
    <3> QED
      BY <3>1, <3>2
  <2>6. Causes'
    BY <1>3, <2>1, <2>2, <2>5 DEF Causes
  <2> QED
    BY <1>2, <2>1, <2>4, <2>6
<1>7. CASE Abort \/ UNCHANGED vars
  <2>1. UNCHANGED <<incoming, inError, given, reply, message, outcome>>
    BY <1>7 DEF Abort, vars
  <2>2. Pending'
    BY <2>1 DEF ChunksInv, Pending, Sent
  <2>3. Causes'
    BY <1>3, <2>1 DEF ChunksInv, Causes
  <2> QED
    BY <1>2, <2>1, <2>2, <2>3
<1> QED
  BY <1>1, <1>4, <1>5, <1>6, <1>7 DEF Next

LEMMA ChunksInductive == (Init => ChunksInv) /\ (ChunksInv /\ [Next]_vars => ChunksInv')
<1>1. ASSUME Init PROVE Pending /\ Pieces /\ Wholes /\ Causes
  <2>1. incoming = None /\ given = {} /\ reply.statuses = {} /\ \A o \in Objects : outcome[o] = "unsent"
    BY <1>1 DEF Init, NoReply
  <2> QED
    BY <2>1 DEF Pending, Pieces, Wholes, Causes
<1> QED
  BY <1>1, ItemsInductive, ChunksNext DEF ChunksInv

(* A source is given whole objects only: the chunks of the object from its *)
(* first byte to its last in order, whatever the server does with messages *)
(* and the source with errors; before them only what the server had begun  *)
(* and given up under the same identity (processSyncItem()).               *)
THEOREM ObjectsGivenWhole == Spec => []GivenWhole
<1>1. ChunksInv => GivenWhole
  <2> SUFFICES ASSUME ChunksInv, NEW g \in given
               PROVE  \E k \in 0..Len(g.data)-1 :
                        /\ IsWhole(g.obj, SubSeq(g.data, k+1, Len(g.data)))
                        /\ \A i \in 1..k : /\ Same(g.data[i].obj, g.obj)
                                           /\ outcome[g.data[i].obj] = "abandoned"
    BY DEF GivenWhole
  <2>1. g.data \in Seq(Chunk)
    BY DEF ChunksInv, IInv, TypeInv, TypeOK
  <2>2. PICK k \in Nat : Built(g.obj, g.data, k, Gone) /\ g.data[Len(g.data)].to = g.obj.size
    BY DEF ChunksInv, Wholes
  <2>3. IsWhole(g.obj, SubSeq(g.data, k+1, Len(g.data)))
    BY <2>1, <2>2, BuiltIsWhole
  <2> QED
    BY <2>2, <2>3 DEF Built, Gone
<1> QED
  BY <1>1, ChunksInductive, PTL DEF Spec

(* An object is refused for its size or the size declared for it, or after *)
(* another version of it that the server gave up: the tolerance makes no   *)
(* honest object too large (processSyncItem(), getToleranceDataSize()).    *)
THEOREM RefusedOnlyForCause == Spec => []RefusedForCause
<1>1. ChunksInv => RefusedForCause
  BY DEF ChunksInv, Causes, Cause, RefusedForCause
<1> QED
  BY <1>1, ChunksInductive, PTL DEF Spec
=============================================================================
