----------------------------- MODULE ServerItems -----------------------------
(***************************************************************************)
(* The server's items of one session, in the messages of the server: how   *)
(* the client puts the chunks of an object together, gives the object to   *)
(* its source and answers, in checkForServerChanges() and                  *)
(* processSyncItem() of cpp/common/spds/SyncManager.cpp.                   *)
(*                                                                         *)
(* Kept: one step per item, with the tests in the order of the code, the   *)
(* source tested once per Sync, the alerts, the mappings, an abort between *)
(* any two items.  Data is the sequence of the chunks received, each an    *)
(* object and two positions.  The server obeys SyncML: a chunk with        *)
(* MoreData ends its message, the rest comes only after the client's       *)
(* answer, and never after a refusal; it may give up an object it has      *)
(* begun, begin another version of it, and lie about sizes.                *)
(***************************************************************************)
EXTENDS Integers, Sequences, FiniteSets

CONSTANTS
    NumSources,  \* sources in the order of sortedSourcesFromServer
    Objects,     \* what the server has to send
    NoKey,       \* the key of an object that has neither source nor target
    Cuts,        \* positions at which the server may cut an object
    MaxObjSize,  \* maxObjSize of the configuration, 0 for no limit
    Fallible,    \* sources that may put themselves in error
    None

Sources == 1..NumSources
Commands == {"Add", "Replace", "Delete"}

ASSUME NumSourcesAssumption == NumSources \in Nat
ASSUME MaxObjSizeAssumption == MaxObjSize \in Nat
ASSUME ObjectsAssumption ==
    \A o \in Objects : /\ o.source \in Sources /\ o.cmd \in Commands
                       /\ o.size \in Nat /\ o.declared \in Int
ASSUME CutsAssumption == Cuts \subseteq Nat
ASSUME FallibleAssumption == Fallible \subseteq Sources

Chunk == [obj : Objects, from : Nat, to : Nat]

(* IncomingSyncItem: the buffer has this size, and holds these chunks.     *)
Item == [obj : Objects, size : Int, data : Seq(Chunk), offset : Nat]
ASSUME NoneAssumption == None \notin Item

Identity(o) == <<o.key, o.cmd, o.source>>
Same(o, p) == Identity(o) = Identity(p)

(* The chunks the server may send of o from a position on. *)
ChunksFrom(o, p) ==
    {[obj |-> o, from |-> p, to |-> t] : t \in {c \in Cuts : p < c /\ c < o.size} \cup {o.size}}
MoreData(c) == c.to < c.obj.size
Length(c) == c.to - c.from

(* getToleranceDataSize(): (long)(size*1.06 + 0.5). *)
ToleranceDataSize(size) == (size * 106 + 50) \div 100

VARIABLES
    incoming,  \* incomingItem: the item that is not complete yet, or None
    inError,   \* sources whose report is in error
    given,     \* the calls to addItem(), updateItem() and deleteItem(), with
               \* what was left of the buffer
    mappings,  \* of all the sources, keyed by the object
    reply,     \* statuses and alerts gathered for the answer
    message,   \* the server's message: the items so far, the Sync open in it
    outcome,   \* what the server knows of each object
    position,  \* how much of the object being sent has been sent
    running    \* no abort

vars == <<incoming, inError, given, mappings, reply, message, outcome,
          position, running>>

NoReply == [statuses |-> {}, alerts |-> {}]
Outcomes == {"unsent", "sending", "stored", "exists", "failed", "refused",
             "nameless", "abandoned", "unanswered"}
StatusCodes == {"stored", "exists", "failed", "refused", "nameless", "buffered"}

(* A new message goes on with the source of the last one. *)
NewMessage(s) == [items |-> {}, source |-> s, open |-> FALSE, skipped |-> FALSE,
                  full |-> FALSE]

Init ==
    /\ incoming = None
    /\ inError \in SUBSET Fallible
    /\ given = {}
    /\ mappings = {}
    /\ reply = NoReply
    /\ message = NewMessage(1)
    /\ outcome = [o \in Objects |-> "unsent"]
    /\ position = 0
    /\ running = TRUE

Sending == {o \in Objects : outcome[o] = "sending"}
Unsent(s) == {o \in Objects : outcome[o] = "unsent" /\ o.source = s}

-----------------------------------------------------------------------------
(* The server. *)

(* It opens the Sync of a source.  checkForServerChanges() looks at the    *)
(* state of the source once, here.                                         *)
OpenSync(s) ==
    /\ running /\ ~message.full
    /\ s >= message.source /\ (s = message.source => ~message.open)
    /\ Unsent(s) # {} \/ \E o \in Sending : o.source = s
    /\ \A o \in Sending : o.source = s
    /\ message' = [message EXCEPT !.source = s, !.open = TRUE,
                                  !.skipped = s \in inError]
    /\ UNCHANGED <<incoming, inError, given, mappings, reply, outcome, position, running>>

(* It gives up the object it was sending. *)
GiveUp ==
    /\ running /\ message.items = {}
    /\ \E o \in Sending : outcome' = [outcome EXCEPT ![o] = "abandoned"]
    /\ position' = 0
    /\ UNCHANGED <<incoming, inError, given, mappings, reply, message, running>>

(* The next item: the next chunk of what it is sending, or an object.      *)
NextItem(c) ==
    /\ running /\ message.open /\ ~message.full
    /\ c.obj.source = message.source
    /\ IF Sending = {}
          THEN c.obj \in Unsent(message.source) /\ c \in ChunksFrom(c.obj, 0)
          ELSE c.obj \in Sending \ {m.obj : m \in message.items}
               /\ c \in ChunksFrom(c.obj, position)
    /\ message' = [message EXCEPT !.items = @ \cup {c}, !.full = MoreData(c)]
    /\ outcome' = [outcome EXCEPT ![c.obj] = IF MoreData(c) THEN "sending" ELSE "unanswered"]
    /\ position' = IF MoreData(c) THEN c.to ELSE 0
    /\ UNCHANGED running

-----------------------------------------------------------------------------
(* processSyncItem(), for the item c of the message.                       *)

(* Mutant: only the keys are compared. *)
IsNewItemByKey(c) == incoming # None /\ incoming.obj.key # c.obj.key

(* Another item before the incomplete one is complete. *)
IsNewItem(c) == incoming # None /\ ~Same(incoming.obj, c.obj)
Continues(c) == incoming # None /\ ~IsNewItem(c)
Begins(c) == incoming = None

Answer(c, code) == reply' = [reply EXCEPT !.statuses = @ \cup {<<c.obj, code>>}]

(* The buffer reserved when an object in chunks begins, and what it holds. *)
Reserved(c) == IF Begins(c) THEN ToleranceDataSize(c.obj.declared) ELSE incoming.size
Received(c) == IF Begins(c) THEN 0 ELSE incoming.offset

(* Mutants: the size is never compared, or compared with an off-by-one.    *)
OverflowsNever(c) == FALSE
OverflowsWhenFull(c) ==
    (Continues(c) \/ MoreData(c)) /\ Received(c) + Length(c) >= Reserved(c)

(* The data is appended unless it is the whole object. *)
Overflows(c) ==
    (Continues(c) \/ MoreData(c)) /\ Received(c) + Length(c) > Reserved(c)

TooLarge(c) ==
    /\ Begins(c) /\ MoreData(c)
    /\ c.obj.declared < 0 \/ (MaxObjSize # 0 /\ c.obj.declared > MaxObjSize)

Skipped(c) ==
    /\ message.skipped
    /\ NextItem(c)
    /\ UNCHANGED <<incoming, inError, given, mappings, reply>>

Nameless(c) ==
    /\ ~message.skipped /\ c.obj.key = NoKey
    /\ NextItem(c)
    /\ Answer(c, "nameless")
    /\ UNCHANGED <<incoming, inError, given, mappings>>

(* Mutant: the alert is not sent. *)
ReplyWithoutAlert == reply

(* The item takes the old one with it: a 223 alert, and no status. *)
ReplyOfDropped == [reply EXCEPT !.alerts = @ \cup {<<223, incoming.obj.source>>}]

DropsBoth(c) ==
    /\ ~message.skipped /\ c.obj.key # NoKey /\ IsNewItem(c)
    /\ NextItem(c)
    /\ reply' = ReplyOfDropped
    /\ incoming' = None
    /\ UNCHANGED <<inError, given, mappings>>

(* 416 to the first chunk, 424 to a later one. *)
Refuses(c) ==
    /\ ~message.skipped /\ c.obj.key # NoKey /\ ~IsNewItem(c)
    /\ TooLarge(c) \/ Overflows(c)
    /\ NextItem(c)
    /\ Answer(c, "refused")
    /\ incoming' = None
    /\ UNCHANGED <<inError, given, mappings>>

(* The item with the data of c.  A whole object has a buffer of its size.  *)
WithChunk(c) ==
    [obj |-> c.obj,
     size |-> IF Continues(c) \/ MoreData(c) THEN Reserved(c) ELSE Length(c),
     data |-> IF Begins(c) THEN <<c>> ELSE Append(incoming.data, c),
     offset |-> Received(c) + Length(c)]

Takes(c) ==
    /\ ~message.skipped /\ c.obj.key # NoKey /\ ~IsNewItem(c)
    /\ ~TooLarge(c) /\ ~Overflows(c)
    /\ NextItem(c)

(* "Chunked item accepted and buffered", and a 222 alert. *)
Buffers(c) ==
    /\ Takes(c) /\ MoreData(c)
    /\ incoming' = WithChunk(c)
    /\ reply' = [statuses |-> reply.statuses \cup {<<c.obj, "buffered">>},
                 alerts |-> reply.alerts \cup {<<222, c.obj.source>>}]
    /\ UNCHANGED <<inError, given, mappings>>

(* The code of the source becomes the status. *)
StatusOf(code) == code

GivesToSource(c) ==
    /\ Takes(c) /\ ~MoreData(c)
    /\ \E code \in {"stored", "exists", "failed"} :
          /\ code = "exists" => c.obj.cmd = "Add"
          /\ given' = given \cup {[obj |-> c.obj, data |-> WithChunk(c).data, code |-> code,
                                  spare |-> WithChunk(c).size - WithChunk(c).offset]}
          /\ mappings' = IF c.obj.cmd = "Add" /\ code # "failed"
                            THEN mappings \cup {c.obj} ELSE mappings
          /\ incoming' = None
          /\ Answer(c, StatusOf(code))
    /\ inError' \in {inError} \cup {inError \cup ({c.obj.source} \cap Fallible)}

ProcessItem(c) ==
    \/ Skipped(c) \/ Nameless(c) \/ DropsBoth(c)
    \/ Refuses(c) \/ Buffers(c) \/ GivesToSource(c)

-----------------------------------------------------------------------------
(* The message is over: the answer goes out and the server acts on it.  An *)
(* object without a status is not sent again in this session.              *)
CodesFor(o) == {s[2] : s \in {t \in reply.statuses : t[1] = o}}
Sent == {m.obj : m \in message.items}
AfterReply(o) ==
    IF o \notin Sent THEN outcome[o]
    ELSE IF CodesFor(o) = {} THEN "unanswered"
    ELSE LET code == CHOOSE x \in CodesFor(o) : TRUE
         IN  IF code = "buffered" THEN "sending" ELSE code

(* Mutant: the incomplete item belongs to the message. *)
IncomingOfMessage == None

(* It belongs to the session. *)
IncomingKept == incoming

EndMessage ==
    /\ running /\ message.items # {}
    /\ outcome' = [o \in Objects |-> AfterReply(o)]
    /\ position' = IF \E o \in Objects : AfterReply(o) = "sending" THEN position ELSE 0
    /\ reply' = NoReply
    /\ message' = NewMessage(message.source)
    /\ incoming' = IncomingKept
    /\ UNCHANGED <<inError, given, mappings, running>>

(* setToAbort(), seen before a Sync or an item: the answer is not sent. *)
Abort ==
    /\ running
    /\ running' = FALSE
    /\ UNCHANGED <<incoming, inError, given, mappings, reply, message, outcome, position>>

Next ==
    \/ \E s \in Sources : OpenSync(s)
    \/ GiveUp
    \/ \E o \in Objects : \E c \in ChunksFrom(o, 0) \cup ChunksFrom(o, position) : ProcessItem(c)
    \/ EndMessage
    \/ Abort

Spec == Init /\ [][Next]_vars

-----------------------------------------------------------------------------
TypeOK ==
    /\ incoming \in Item \cup {None}
    /\ inError \subseteq Sources
    /\ \A g \in given : g.obj \in Objects /\ g.data \in Seq(Chunk) /\ g.spare \in Int
    /\ mappings \subseteq Objects
    /\ reply \in [statuses : SUBSET (Objects \X StatusCodes),
                  alerts : SUBSET ({222, 223} \X Sources)]
    /\ message \in [items : SUBSET Chunk, source : Sources \cup {1}, open : BOOLEAN,
                    skipped : BOOLEAN, full : BOOLEAN]
    /\ outcome \in [Objects -> Outcomes]
    /\ position \in Nat
    /\ running \in BOOLEAN

(* The chunks d are o from its first byte to its last. *)
IsWhole(o, d) ==
    /\ d # <<>> /\ d[1].from = 0 /\ d[Len(d)].to = o.size
    /\ \A i \in 1..Len(d) : d[i].obj = o
    /\ \A i \in 1..Len(d)-1 : d[i+1].from = d[i].to

(* A source is given whole objects only (processSyncItem() gives it the    *)
(* item when a chunk has no MoreData).  The one exception: the beginning   *)
(* of a version of the object that the server gave up stays in front.      *)
GivenWhole ==
    \A g \in given : \E k \in 0..Len(g.data)-1 :
        /\ IsWhole(g.obj, SubSeq(g.data, k+1, Len(g.data)))
        /\ \A i \in 1..k : /\ Same(g.data[i].obj, g.obj)
                           /\ outcome[g.data[i].obj] = "abandoned"

(* Every chunk fits the buffer that memcpy() writes to, and no buffer is   *)
(* larger than the limit allows.                                           *)
BufferBounded ==
    /\ incoming # None =>
          /\ incoming.offset <= incoming.size
          /\ MaxObjSize # 0 => incoming.size <= ToleranceDataSize(MaxObjSize)
    /\ \A g \in given : g.spare >= 0

(* Between messages the client holds exactly what the server has sent of   *)
(* the object it will go on with: the next chunk is appended to the right  *)
(* item at the right place.                                                *)
InStep ==
    message.items = {} => \A o \in Sending :
        /\ incoming # None
        /\ incoming.obj = o
        /\ incoming.data[Len(incoming.data)].to = position

(* A message loses at most one item without a status: one that was        *)
(* dropped with the item it interrupted, for which the answer has a 223    *)
(* alert.  A source in error says nothing of its items.                    *)
SilentOnlyAfter223 ==
    LET silent == {o \in Sent : CodesFor(o) = {} /\ o.source \notin inError}
    IN  /\ Cardinality(silent) <= 1
        /\ silent # {} => \E s \in Sources : <<223, s>> \in reply.alerts

(* The server knows what the source said of an object as soon as the       *)
(* answer is out, knows of nothing the source has not said, and is told    *)
(* when an item gets no status (processSyncItem(), the alerts and statuses *)
(* of an answer).                                                          *)
ServerKnows ==
    /\ \A o \in Objects : outcome[o] \in {"stored", "exists", "failed"} =>
          \E g \in given : g.obj = o /\ g.code = outcome[o]
    /\ \A g \in given : \/ outcome[g.obj] = g.code
                        \/ <<g.obj, g.code>> \in reply.statuses
    /\ SilentOnlyAfter223

(* 416 and 424 are for objects larger than the limit or than declared: the *)
(* tolerance never makes an honest object too large, except after a        *)
(* version of it that the server gave up.                                  *)
RefusedForCause ==
    \A o \in Objects : outcome[o] = "refused" =>
        \/ o.declared < 0
        \/ MaxObjSize # 0 /\ o.declared > MaxObjSize
        \/ o.size > ToleranceDataSize(o.declared)
        \/ \E p \in Objects \ {o} : Same(o, p) /\ outcome[p] = "abandoned"
=============================================================================
