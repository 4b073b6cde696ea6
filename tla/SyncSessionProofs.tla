------------------------- MODULE SyncSessionProofs -------------------------
(***************************************************************************)
(* Proofs about SyncSession for any number of sources, any mappings, modes *)
(* and bounds: types, that no mapping is lost before it was sent, that     *)
(* anchors are committed with nothing left to send, that a failure touches *)
(* no other source, and what the final tag and the result say.             *)
(***************************************************************************)
EXTENDS SyncSession, FiniteSetTheorems, TLAPS

(* What the types rest on: where the loop over the sources stands.         *)
LoopBounds ==
    /\ pc \in {"source", "build"} => phase = "mods"
    /\ phase = "mods" /\ pc \in {"build", "send", "replied", "changes"} => count \in Sources
    /\ iterator <= count
    /\ pc = "source" => iterator < count
    /\ pc = "endSync" => ret = 0

TypeInv == TypeOK /\ LoopBounds

(* All the mappings of the sources in S are in M. *)
Covered(S, M) == \A s \in S : \A m \in store[s] : <<s, m>> \in M

(* The active sources the loop has been through. *)
Before == {s \in active : s < count}

(* Where the mappings that the next answer may reset have got to: in the   *)
(* message to send once it is built, in an answered one once the answer is *)
(* there; between two messages, in `commands`.                             *)
MappingsSent ==
    /\ pc \in {"source", "build"} => Covered(Before, cmds \cup answered)
    /\ pc = "send" /\ phase = "mods" => Covered(Before \cup {count}, msg.maps \cup answered)
    /\ pc = "send" /\ phase = "status" => Covered(Sources, msg.maps \cup answered)
    /\ pc = "send" /\ phase = "end" /\ ~abort => Covered(active, msg.maps \cup answered)
    /\ pc = "replied" /\ reply.kind # "none" =>
         /\ phase = "mods" => Covered(Before \cup {count}, answered)
         /\ phase = "status" => Covered(Sources, answered)
         /\ phase = "end" => Covered(active, answered)
    /\ pc \in {"finally", "endSync"} /\ ret = 0 /\ ~abort => Covered(active, cmds \cup answered)

(* When the anchors are about to be committed nothing is left to send, and *)
(* they are committed at the very end.                                     *)
AnchorsLast ==
    /\ pc = "endSources" => \A s \in active : store[s] = {}
    /\ committed # {} => pc = "done" /\ \A s \in committed : store[s] = {}

IInv == TypeInv /\ MappingsSent /\ AnchorsLast
-----------------------------------------------------------------------------
(* Between one source and all of them can be active. *)
LEMMA ActiveCount ==
    ASSUME NEW S \in SUBSET Sources, S # {}
    PROVE  Cardinality(S) \in Sources
<1>1. IsFiniteSet(Sources) /\ Cardinality(Sources) = NumSources
  BY NumSourcesAssumption, FS_Interval DEF Sources
<1>2. IsFiniteSet(S) /\ Cardinality(S) <= NumSources
  BY <1>1, FS_Subset
<1>3. Cardinality(S) \in Nat /\ Cardinality(S) # 0
  BY <1>2, FS_CardinalityType, FS_EmptySet
<1> QED
  BY <1>2, <1>3, NumSourcesAssumption DEF Sources

(* There is nothing between a number and the next. *)
LEMMA Between == \A a, b \in Nat : a < b + 1 /\ a # b => a < b
OBVIOUS

LEMMA TypeInit == Init => TypeInv
<1> SUFFICES ASSUME Init PROVE TypeInv
  OBVIOUS
<1>1. active \in SUBSET Sources /\ toSync \in Sources /\ 1 \in Sources
  <2>1. active \in SUBSET Sources /\ active # {} /\ toSync = Cardinality(active)
    BY DEF Init
  <2> QED
    BY <2>1, ActiveCount, NumSourcesAssumption DEF Sources
<1>2. PositionTypes
  BY <1>1, NumSourcesAssumption, MaxMessagesAssumption, MaxSessionsAssumption
     DEF Init, PositionTypes, PCs, Phases
<1>3. FlagTypes
  BY <1>1 DEF Init, FlagTypes, NoReply, Replies
<1>4. DataTypes
  BY DEF Init, DataTypes, Stores, NoMsg
<1>5. LoopBounds
  BY <1>1 DEF Init, LoopBounds
<1> QED
  BY <1>2, <1>3, <1>4, <1>5 DEF TypeInv, TypeOK

(* Where the session is, in the loops and among its sources. *)
LEMMA PositionStep ==
    ASSUME TypeInv, [Next]_vars
    PROVE  PositionTypes' /\ LoopBounds'
<1> USE NumSourcesAssumption, MaxMessagesAssumption, MaxSessionsAssumption
    DEF PositionTypes, LoopBounds, PCs, Phases, Over, control, outgoing, history
<1>t. PositionTypes /\ LoopBounds /\ active \in SUBSET Sources
  BY DEF TypeInv, TypeOK, FlagTypes
<1>s. Sources = 1..NumSources
  BY DEF Sources
<1> USE <1>t, <1>s
<1>1. CASE NewSession
  BY <1>1 DEF NewSession, Begin
<1>2. CASE UserAborts
  BY <1>2 DEF UserAborts
<1>3. CASE Crash
  BY <1>3 DEF Crash
<1>4. CASE SkipSource
  BY <1>4 DEF SkipSource, MoreSources
<1>5. CASE BeginSyncFails
  BY <1>5 DEF BeginSyncFails, SourceError
<1>6. CASE BeginSync
  BY <1>6 DEF BeginSync
<1>7. CASE AssertionFails
  BY <1>7 DEF AssertionFails
<1>8. CASE BuildModifications
  BY <1>8 DEF BuildModifications
<1>9. CASE AbortWhileBuilding
  BY <1>9 DEF AbortWhileBuilding, Fails
<1>10. CASE AbortBeforeSend
  BY <1>10 DEF AbortBeforeSend, Fails
<1>11. CASE Exchange
  BY <1>11 DEF Exchange
<1>12. CASE NoAnswer
  BY <1>12 DEF NoAnswer, Fails
<1>13. CASE BadAnswer
  BY <1>13 DEF BadAnswer, Answered, Fails
<1>14. CASE SyncRefused
  BY <1>14 DEF SyncRefused, Answered, RetCleared, SourceError
<1>15. CASE ModificationsAnswered
  BY <1>15 DEF ModificationsAnswered, Answered, RetCleared
<1>16. CASE AbortAfterStatuses
  BY <1>16 DEF AbortAfterStatuses, Fails
<1>17. CASE ServerPackageAnswered
  BY <1>17 DEF ServerPackageAnswered, Answered, RetCleared
<1>18. CASE EndAnswered
  BY <1>18 DEF EndAnswered, Answered, RetCleared
<1>19. CASE ServerChangesAborted
  BY <1>19 DEF ServerChangesAborted
<1>20. CASE ServerChanges
  BY <1>20 DEF ServerChanges
<1>21. CASE ModificationsDone
  BY <1>21 DEF ModificationsDone, MoreSources
<1>22. CASE Finally
  BY <1>22 DEF Finally
<1>23. CASE EndSync
  BY <1>23 DEF EndSync
<1>24. CASE EndSources
  BY <1>24 DEF EndSources
<1>25. CASE UNCHANGED vars
  BY <1>25 DEF vars
<1>26. CASE CrashInClose
  BY <1>26 DEF CrashInClose
<1> QED
  BY <1>1, <1>2, <1>3, <1>4, <1>5, <1>6, <1>7, <1>8, <1>9, <1>10, <1>11, <1>12, <1>13, <1>14, <1>15, <1>16,
     <1>17, <1>18, <1>19, <1>20, <1>21, <1>22, <1>23, <1>24, <1>25, <1>26
     DEF Next, Step

(* What it knows of its sources and of the last answer. *)
LEMMA FlagStep ==
    ASSUME TypeInv, [Next]_vars
    PROVE  FlagTypes'
<1> USE DEF FlagTypes, control, outgoing, history
<1>t. FlagTypes /\ LoopBounds
  BY DEF TypeInv, TypeOK
<1> USE <1>t
<1>1. CASE NewSession
  <2>1. PICK m \in [Sources -> Modes], act \in (SUBSET Sources) \ {{}} : Begin(m, act)
    BY <1>1 DEF NewSession
  <2>2. toSync' \in Sources
    BY <2>1, ActiveCount DEF Begin
  <2>3. mode' \in [Sources -> Modes] /\ active' \in SUBSET Sources /\ reply' \in Replies
    BY <2>1 DEF Begin, NoReply, Replies
  <2>4. /\ last' \in BOOLEAN /\ good' \in BOOLEAN /\ fromServerFinal' \in BOOLEAN
        /\ lastError' \in BOOLEAN /\ abort' \in BOOLEAN /\ pending' = NoSource
    BY <2>1 DEF Begin
  <2> QED
    BY <2>2, <2>3, <2>4
<1>2. CASE UserAborts
  BY <1>2 DEF UserAborts
<1>3. CASE Crash
  BY <1>3 DEF Crash
<1>4. CASE SkipSource
  BY <1>4 DEF SkipSource
<1>5. CASE BeginSyncFails
  BY <1>5 DEF BeginSyncFails, LastOfNewSource, SourceError
<1>6. CASE BeginSync
  BY <1>6 DEF BeginSync, LastOfNewSource
<1>7. CASE AssertionFails
  BY <1>7 DEF AssertionFails
<1>8. CASE BuildModifications
  <2>1. count \in Sources
    BY <1>8 DEF BuildModifications, LoopBounds
  <2>2. last' \in BOOLEAN
    BY <1>8 DEF BuildModifications
  <2>3. pending' \in {NoSource, count, pending}
    BY <1>8 DEF BuildModifications
  <2> QED
    BY <1>8, <2>1, <2>2, <2>3 DEF BuildModifications
<1>9. CASE AbortWhileBuilding
  BY <1>9 DEF AbortWhileBuilding, Fails
<1>10. CASE AbortBeforeSend
  BY <1>10 DEF AbortBeforeSend, Fails
<1>11. CASE Exchange
  BY <1>11 DEF Exchange, Replies
<1>12. CASE NoAnswer
  BY <1>12 DEF NoAnswer, Fails
<1>13. CASE BadAnswer
  BY <1>13 DEF BadAnswer, Fails
<1>14. CASE SyncRefused
  BY <1>14 DEF SyncRefused, SourceError, Replies
<1>15. CASE ModificationsAnswered
  BY <1>15 DEF ModificationsAnswered, Replies
<1>16. CASE AbortAfterStatuses
  BY <1>16 DEF AbortAfterStatuses, Fails
<1>17. CASE ServerPackageAnswered
  BY <1>17 DEF ServerPackageAnswered, ServerLast, Replies
<1>18. CASE EndAnswered
  BY <1>18 DEF EndAnswered
<1>19. CASE ServerChangesAborted
  BY <1>19 DEF ServerChangesAborted
<1>20. CASE ServerChanges
  BY <1>20 DEF ServerChanges
<1>21. CASE ModificationsDone
  BY <1>21 DEF ModificationsDone
<1>22. CASE Finally
  BY <1>22 DEF Finally
<1>23. CASE EndSync
  BY <1>23 DEF EndSync
<1>24. CASE EndSources
  BY <1>24 DEF EndSources
<1>25. CASE UNCHANGED vars
  BY <1>25 DEF vars
<1>26. CASE CrashInClose
  BY <1>26 DEF CrashInClose
<1> QED
  BY <1>1, <1>2, <1>3, <1>4, <1>5, <1>6, <1>7, <1>8, <1>9, <1>10, <1>11, <1>12, <1>13, <1>14, <1>15, <1>16,
     <1>17, <1>18, <1>19, <1>20, <1>21, <1>22, <1>23, <1>24, <1>25, <1>26
     DEF Next, Step

(* What it stores and sends. *)
LEMMA DataStep ==
    ASSUME TypeInv, [Next]_vars
    PROVE  DataTypes'
<1> USE DEF FlagTypes, DataTypes, Stores, Mappings, mappings, outgoing, history
<1>t. FlagTypes /\ DataTypes /\ LoopBounds
  BY DEF TypeInv, TypeOK
<1> USE <1>t
<1>1. CASE NewSession
  <2>1. PICK m \in [Sources -> Modes], act \in (SUBSET Sources) \ {{}} : Begin(m, act)
    BY <1>1 DEF NewSession
  <2>2. store' \in [Sources -> SUBSET Maps] /\ jour' \in [Sources -> SUBSET Maps]
    BY <1>1 DEF NewSession
  <2> QED
    BY <1>1, <2>1, <2>2 DEF NewSession, Begin, NoMsg
<1>2. CASE UserAborts
  BY <1>2 DEF UserAborts
<1>3. CASE Crash
  BY <1>3 DEF Crash
<1>4. CASE SkipSource
  BY <1>4 DEF SkipSource
<1>5. CASE BeginSyncFails
  BY <1>5 DEF BeginSyncFails
<1>6. CASE BeginSync
  BY <1>6 DEF BeginSync
<1>7. CASE AssertionFails
  BY <1>7 DEF AssertionFails
<1>8. CASE BuildModifications
  <2>1. StoredMappingsFirst
    BY <1>8 DEF BuildModifications
  <2>2. count \in Sources
    BY <1>8 DEF BuildModifications, LoopBounds
  <2>3. store' \in [Sources -> SUBSET Maps]
    BY <2>1 DEF StoredMappingsFirst
  <2>4. msg' \in [maps : SUBSET Mappings, final : BOOLEAN] /\ dropped' \in SUBSET Mappings
    <3>1. (iterator = toSync /\ last') \in BOOLEAN
      OBVIOUS
    <3>2. StoreOf(count) \subseteq Sources \X Maps
      BY <2>2 DEF StoreOf
    <3>3. PICK D \in SUBSET Mappings, f \in BOOLEAN : msg' = [maps |-> D, final |-> f]
      BY <2>1, <3>1, <3>2 DEF StoredMappingsFirst
    <3>4. dropped' \in SUBSET Mappings
      BY <2>1, <3>2 DEF StoredMappingsFirst
    <3> QED
      BY <3>3, <3>4
  <2> QED
    BY <1>8, <2>3, <2>4 DEF BuildModifications
<1>9. CASE AbortWhileBuilding
  <2>1. StoredMappingsFirst
    BY <1>9 DEF AbortWhileBuilding
  <2>2. count \in Sources
    BY <1>9 DEF AbortWhileBuilding, LoopBounds
  <2>3. store' \in [Sources -> SUBSET Maps]
    BY <2>1 DEF StoredMappingsFirst
  <2>4. msg' \in [maps : SUBSET Mappings, final : BOOLEAN] /\ dropped' \in SUBSET Mappings
    <3>1. (iterator = toSync /\ last') \in BOOLEAN
      OBVIOUS
    <3>2. StoreOf(count) \subseteq Sources \X Maps
      BY <2>2 DEF StoreOf
    <3>3. PICK D \in SUBSET Mappings, f \in BOOLEAN : msg' = [maps |-> D, final |-> f]
      BY <2>1, <3>1, <3>2 DEF StoredMappingsFirst
    <3>4. dropped' \in SUBSET Mappings
      BY <2>1, <3>2 DEF StoredMappingsFirst
    <3> QED
      BY <3>3, <3>4
  <2> QED
    BY <1>9, <2>3, <2>4 DEF AbortWhileBuilding, Fails
<1>10. CASE AbortBeforeSend
  BY <1>10 DEF AbortBeforeSend, Fails
<1>11. CASE Exchange
  <2>1. answered' \in SUBSET Mappings /\ accepted' \in SUBSET Mappings
    BY <1>11 DEF Exchange
  <2>2. finals' \in Nat
    BY <1>11 DEF Exchange
  <2>3. trouble' \in {trouble, TRUE}
    BY <1>11 DEF Exchange
  <2> QED
    BY <1>11, <2>1, <2>2, <2>3 DEF Exchange
<1>12. CASE NoAnswer
  BY <1>12 DEF NoAnswer, Fails
<1>13. CASE BadAnswer
  BY <1>13 DEF BadAnswer, Reset, Fails
<1>14. CASE SyncRefused
  BY <1>14 DEF SyncRefused, Reset
<1>15. CASE ModificationsAnswered
  <2>1. completed' \in SUBSET Sources
    BY <1>15 DEF ModificationsAnswered, Answered, LoopBounds
  <2> QED
    BY <1>15, <2>1 DEF ModificationsAnswered, Reset
<1>16. CASE AbortAfterStatuses
  BY <1>16 DEF AbortAfterStatuses, Fails
<1>17. CASE ServerPackageAnswered
  BY <1>17 DEF ServerPackageAnswered, Reset
<1>18. CASE EndAnswered
  BY <1>18 DEF EndAnswered, Reset
<1>19. CASE ServerChangesAborted
  BY <1>19 DEF ServerChangesAborted
<1>20. CASE ServerChanges
  <2>1. PICK new \in SUBSET {p \in Mappings : p[1] \in active} :
           /\ store' = [s \in Sources |-> store[s] \cup {m \in Maps : <<s, m>> \in new}]
           /\ cmds' = cmds \cup Stored \cup new
    BY <1>20 DEF ServerChanges
  <2>2. store' \in [Sources -> SUBSET Maps]
    BY <2>1
  <2>3. cmds' \in SUBSET Mappings
    BY <2>1 DEF Stored
  <2>4. statuses' \in BOOLEAN
    BY <1>20 DEF ServerChanges
  <2>5. msg' \in [maps : SUBSET Mappings, final : BOOLEAN]
    <3>1. msg' = msg \/ msg' = [maps |-> cmds', final |-> FALSE]
      BY <1>20 DEF ServerChanges
    <3>2. CASE msg' = msg
      BY <3>2
    <3>3. CASE msg' = [maps |-> cmds', final |-> FALSE]
      BY <2>3, <3>3
    <3> QED
      BY <3>1, <3>2, <3>3
  <2>6. jour' \in [Sources -> SUBSET Maps]
    BY <1>20 DEF ServerChanges
  <2> QED
    BY <1>20, <2>2, <2>3, <2>4, <2>5, <2>6 DEF ServerChanges
<1>21. CASE ModificationsDone
  <2>1. statuses' \in BOOLEAN
    BY <1>21 DEF ModificationsDone
  <2>2. msg' \in [maps : SUBSET Mappings, final : BOOLEAN]
    BY <1>21 DEF ModificationsDone, SendFinalAfterClientMods
  <2> QED
    BY <1>21, <2>1, <2>2 DEF ModificationsDone
<1>22. CASE Finally
  BY <1>22 DEF Finally
<1>23. CASE EndSync
  <2>1. jour' \in [Sources -> SUBSET Maps]
    BY <1>23 DEF EndSync
  <2>2. msg' \in [maps : SUBSET Mappings, final : BOOLEAN]
    <3>1. msg' = msg \/ msg' = [maps |-> cmds, final |-> TRUE]
      BY <1>23 DEF EndSync, LastMessage
    <3>2. CASE msg' = msg
      BY <3>2
    <3>3. CASE msg' = [maps |-> cmds, final |-> TRUE]
      BY <3>3
    <3> QED
      BY <3>1, <3>2, <3>3
  <2> QED
    BY <1>23, <2>1, <2>2 DEF EndSync
<1>24. CASE EndSources
  BY <1>24 DEF EndSources
<1>25. CASE UNCHANGED vars
  BY <1>25 DEF vars
<1>26. CASE CrashInClose
  <2>1. PICK S \in [Sources -> SUBSET Maps], J \in [Sources -> SUBSET Maps] : store' = S /\ jour' = J
    BY <1>26 DEF CrashInClose
  <2>2. UNCHANGED <<cmds, statuses, msg, answered, accepted, dropped, finals, completed,
                    trouble, committed, endFailed, silent, skipped>>
    BY <1>26 DEF CrashInClose
  <2> QED
    BY <2>1, <2>2
<1> QED
  BY <1>1, <1>2, <1>3, <1>4, <1>5, <1>6, <1>7, <1>8, <1>9, <1>10, <1>11, <1>12, <1>13, <1>14, <1>15, <1>16,
     <1>17, <1>18, <1>19, <1>20, <1>21, <1>22, <1>23, <1>24, <1>25, <1>26
     DEF Next, Step

LEMMA TypeStep == TypeInv /\ [Next]_vars => TypeInv'
BY PositionStep, FlagStep, DataStep DEF TypeInv, TypeOK

(* The types hold in every state of every session: no counter of the loop  *)
(* over the sources leaves its range, whatever fails (sync(), endSync()).  *)
THEOREM SessionTypeCorrect == Spec => []TypeOK
<1>1. TypeInv => TypeOK
  BY DEF TypeInv
<1> QED
  BY TypeInit, TypeStep, <1>1, PTL DEF Spec

-----------------------------------------------------------------------------
LEMMA SentInit == Init => MappingsSent /\ AnchorsLast
<1> SUFFICES ASSUME Init PROVE MappingsSent /\ AnchorsLast
  OBVIOUS
<1>1. pc = "source" /\ committed = {} /\ \A s \in Sources : store[s] = {}
  BY DEF Init
<1>2. Before \subseteq Sources
  BY DEF Init, Before
<1> QED
  BY <1>1, <1>2 DEF MappingsSent, AnchorsLast, Covered

(* A step keeps the mappings of every store in what will be sent of it.    *)
LEMMA SentStep ==
    ASSUME TypeInv, TypeInv', MappingsSent, [Next]_vars
    PROVE  MappingsSent'
<1> USE DEF MappingsSent, Covered, control, mappings, outgoing, history
<1>t. /\ count \in Nat /\ active \in SUBSET Sources /\ Sources \subseteq Nat
      /\ store \in [Sources -> SUBSET Maps]
  BY NumSourcesAssumption DEF TypeInv, TypeOK, PositionTypes, FlagTypes, DataTypes, Stores, Sources
<1> USE <1>t
<1>1. CASE NewSession
  <2>1. PICK m \in [Sources -> Modes], act \in (SUBSET Sources) \ {{}} : Begin(m, act)
    BY <1>1 DEF NewSession
  <2>2. pc' = "source" /\ count' = 1 /\ active' \subseteq Sources
    BY <2>1 DEF Begin
  <2>3. \A s \in Sources : ~(s < 1)
    BY NumSourcesAssumption DEF Sources
  <2>4. Before' = {}
    BY <2>2, <2>3 DEF Before
  <2> QED
    BY <2>2, <2>4
<1>2. CASE UserAborts
  BY <1>2 DEF UserAborts, Before
<1>3. CASE Crash
  BY <1>3 DEF Crash
<1>4. CASE SkipSource
  BY <1>4 DEF SkipSource, Before
<1>5. CASE BeginSyncFails
  BY <1>5 DEF BeginSyncFails, SourceError, Before
<1>6. CASE BeginSync
  BY <1>6 DEF BeginSync, Before
<1>7. CASE AssertionFails
  BY <1>7 DEF AssertionFails
<1>8. CASE BuildModifications
  <2>1. /\ pc = "build" /\ pc' = "send" /\ phase' = "mods" /\ StoredMappingsFirst
        /\ answered' = answered /\ active' = active /\ count' = count
    BY <1>8 DEF BuildModifications
  <2>2. Before' = Before /\ Before \subseteq Sources
    BY <2>1 DEF Before
  <2>3. count \in Sources
    BY <2>1 DEF TypeInv, LoopBounds, TypeOK, PositionTypes, Phases
  <2>4. Covered(Before, cmds \cup answered)
    BY <2>1
  <2>5. CASE mode[count] \in KeepsMappings
    <3>1. msg'.maps = cmds \cup StoreOf(count) /\ store' = store
      BY <2>1, <2>5 DEF StoredMappingsFirst
    <3> QED
      BY <2>1, <2>2, <2>4, <3>1 DEF StoreOf
  <2>6. CASE mode[count] \notin KeepsMappings
    <3>1. msg'.maps = cmds /\ store' = [store EXCEPT ![count] = {}]
      BY <2>1, <2>6 DEF StoredMappingsFirst
    <3>2. store'[count] = {} /\ \A s \in Sources \ {count} : store'[s] = store[s]
      BY <2>3, <3>1
    <3> QED
      BY <2>1, <2>2, <2>4, <3>1, <3>2
  <2> QED
    BY <2>5, <2>6
<1>9. CASE AbortWhileBuilding
  BY <1>9 DEF AbortWhileBuilding, Fails
<1>10. CASE AbortBeforeSend
  BY <1>10 DEF AbortBeforeSend, Fails
<1>11. CASE Exchange
  BY <1>11 DEF Exchange, ToAbort, Before
<1>12. CASE NoAnswer
  BY <1>12 DEF NoAnswer, Fails
<1>13. CASE BadAnswer
  BY <1>13 DEF BadAnswer, Fails
<1>14. CASE SyncRefused
  <2>1. /\ pc = "replied" /\ phase = "mods" /\ reply.kind # "none" /\ pc' = "source"
        /\ cmds' = cmds /\ answered' = answered
        /\ active' = active \ {count} /\ count' = count + 1
    BY <1>14 DEF SyncRefused, Answered, SourceError
  <2>2. Before' \subseteq Before /\ Before \subseteq Sources
    <3>1. \A s \in Sources : s < count + 1 /\ s # count => s < count
      BY Between
    <3> QED
      BY <2>1, <3>1 DEF Before
  <2>3. \A s \in Sources : store'[s] \subseteq store[s]
    BY <1>14 DEF SyncRefused, Reset
  <2> QED
    BY <2>1, <2>2, <2>3
<1>15. CASE ModificationsAnswered
  BY <1>15 DEF ModificationsAnswered
<1>16. CASE AbortAfterStatuses
  BY <1>16 DEF AbortAfterStatuses, Fails
<1>17. CASE ServerPackageAnswered
  BY <1>17 DEF ServerPackageAnswered
<1>18. CASE EndAnswered
  BY <1>18 DEF EndAnswered
<1>19. CASE ServerChangesAborted
  BY <1>19 DEF ServerChangesAborted, ToAbort
<1>20. CASE ServerChanges
  <2>1. PICK new \in SUBSET Mappings :
           /\ store' = [s \in Sources |-> store[s] \cup {m \in Maps : <<s, m>> \in new}]
           /\ cmds' = cmds \cup Stored \cup new
    BY <1>20 DEF ServerChanges
  <2>2. \A s \in Sources : \A m \in store'[s] : <<s, m>> \in cmds'
    <3> SUFFICES ASSUME NEW s \in Sources, NEW m \in store'[s] PROVE <<s, m>> \in cmds'
      OBVIOUS
    <3>1. m \in Maps /\ (m \in store[s] \/ <<s, m>> \in new)
      BY <2>1
    <3> QED
      BY <2>1, <3>1 DEF Stored, Mappings
  <2>3. pc' = "send" => phase' = "status" /\ msg'.maps = cmds'
    BY <1>20 DEF ServerChanges
  <2>4. pc' \in {"source", "build", "send", "finally"}
    BY <1>20 DEF ServerChanges
  <2>5. Before' \subseteq Sources /\ active' \subseteq Sources
    BY <1>20 DEF ServerChanges, Before
  <2>6. answered' = answered
    BY <1>20 DEF ServerChanges
  <2> QED
    BY <2>2, <2>3, <2>4, <2>5, <2>6
<1>21. CASE ModificationsDone
  <2>1. /\ pc = "source" /\ count > NumSources /\ UNCHANGED <<active, cmds, answered, store>>
    BY <1>21, NumSourcesAssumption DEF ModificationsDone, MoreSources
  <2>2. \A s \in Sources : s < count
    BY <2>1, NumSourcesAssumption DEF Sources
  <2>3. active = Before
    BY <2>2 DEF Before
  <2>4. CASE active = {} \/ ~(~fromServerFinal /\ good)
    <3>1. pc' = "finally"
      BY <1>21, <2>4 DEF ModificationsDone
    <3> QED
      BY <2>1, <2>3, <3>1
  <2>5. CASE active # {} /\ ~fromServerFinal /\ good
    <3>1. pc' = "send" /\ phase' = "alert"
      BY <1>21, <2>5 DEF ModificationsDone
    <3> QED
      BY <3>1
  <2> QED
    BY <2>4, <2>5
<1>22. CASE Finally
  BY <1>22 DEF Finally
<1>23. CASE EndSync
  <2>1. pc = "endSync" /\ UNCHANGED <<active, abort, cmds, answered, store>>
    BY <1>23 DEF EndSync
  <2>2. ret = 0
    BY <2>1 DEF TypeInv, LoopBounds
  <2>3. CASE NeedsLastMessage # {}
    <3>1. pc' = "send" /\ phase' = "end" /\ msg'.maps = cmds
      BY <1>23, <2>3 DEF EndSync, LastMessage
    <3> QED
      BY <2>1, <2>2, <3>1
  <2>4. CASE NeedsLastMessage = {}
    BY <1>23, <2>4 DEF EndSync
  <2> QED
    BY <2>3, <2>4
<1>24. CASE EndSources
  BY <1>24 DEF EndSources
<1>25. CASE UNCHANGED vars
  BY <1>25 DEF vars, Before
<1>26. CASE CrashInClose
  BY <1>26 DEF CrashInClose
<1> QED
  BY <1>1, <1>2, <1>3, <1>4, <1>5, <1>6, <1>7, <1>8, <1>9, <1>10, <1>11, <1>12, <1>13, <1>14, <1>15, <1>16,
     <1>17, <1>18, <1>19, <1>20, <1>21, <1>22, <1>23, <1>24, <1>25, <1>26
     DEF Next, Step

LEMMA AnchorsStep ==
    ASSUME TypeInv, AnchorsLast, [Next]_vars
    PROVE  AnchorsLast'
<1> USE DEF AnchorsLast, Over, control, mappings, outgoing, history
<1>t. active \in SUBSET Sources /\ store \in [Sources -> SUBSET Maps]
  BY DEF TypeInv, TypeOK, FlagTypes, DataTypes, Stores
<1> USE <1>t
<1>1. CASE NewSession
  BY <1>1 DEF NewSession, Begin
<1>2. CASE UserAborts
  BY <1>2 DEF UserAborts
<1>3. CASE Crash
  BY <1>3 DEF Crash
<1>4. CASE SkipSource
  BY <1>4 DEF SkipSource
<1>5. CASE BeginSyncFails
  BY <1>5 DEF BeginSyncFails, SourceError
<1>6. CASE BeginSync
  BY <1>6 DEF BeginSync
<1>7. CASE AssertionFails
  BY <1>7 DEF AssertionFails
<1>8. CASE BuildModifications
  BY <1>8 DEF BuildModifications
<1>9. CASE AbortWhileBuilding
  BY <1>9 DEF AbortWhileBuilding, Fails
<1>10. CASE AbortBeforeSend
  BY <1>10 DEF AbortBeforeSend, Fails
<1>11. CASE Exchange
  BY <1>11 DEF Exchange
<1>12. CASE NoAnswer
  BY <1>12 DEF NoAnswer, Fails
<1>13. CASE BadAnswer
  BY <1>13 DEF BadAnswer, Fails, Answered
<1>14. CASE SyncRefused
  BY <1>14 DEF SyncRefused, Answered
<1>15. CASE ModificationsAnswered
  BY <1>15 DEF ModificationsAnswered, Answered
<1>16. CASE AbortAfterStatuses
  BY <1>16 DEF AbortAfterStatuses, Fails
<1>17. CASE ServerPackageAnswered
  BY <1>17 DEF ServerPackageAnswered, Answered
<1>18. CASE EndAnswered
  <2>1. /\ pc = "replied" /\ phase = "end" /\ pc' = "endSources"
        /\ active' = active /\ committed' = committed
    BY <1>18 DEF EndAnswered, Answered
  <2>2. \A s \in active : store'[s] = {}
    BY <1>18, <2>1 DEF EndAnswered, Reset, ResetBy
  <2> QED
    BY <2>1, <2>2
<1>19. CASE ServerChangesAborted
  BY <1>19 DEF ServerChangesAborted
<1>20. CASE ServerChanges
  BY <1>20 DEF ServerChanges
<1>21. CASE ModificationsDone
  BY <1>21 DEF ModificationsDone
<1>22. CASE Finally
  BY <1>22 DEF Finally
<1>23. CASE EndSync
  BY <1>23 DEF EndSync, NeedsLastMessage
<1>24. CASE EndSources
  BY <1>24 DEF EndSources
<1>25. CASE UNCHANGED vars
  BY <1>25 DEF vars
<1>26. CASE CrashInClose
  BY <1>26 DEF CrashInClose
<1> QED
  BY <1>1, <1>2, <1>3, <1>4, <1>5, <1>6, <1>7, <1>8, <1>9, <1>10, <1>11, <1>12, <1>13, <1>14, <1>15, <1>16,
     <1>17, <1>18, <1>19, <1>20, <1>21, <1>22, <1>23, <1>24, <1>25, <1>26
     DEF Next, Step

LEMMA SessionInductive == Spec => []IInv
<1>1. Init => IInv
  BY TypeInit, SentInit DEF IInv
<1>2. IInv /\ [Next]_vars => IInv'
  BY TypeStep, SentStep, AnchorsStep DEF IInv
<1> QED
  BY <1>1, <1>2, PTL DEF Spec

(* Whatever answer the server gives and whatever source fails, a source    *)
(* whose anchor endSync() commits has no mapping left to send.             *)
THEOREM AnchorsAreMapped == Spec => []AnchorsMeanMapped
<1>1. IInv => AnchorsMeanMapped
  BY DEF IInv, AnchorsLast, AnchorsMeanMapped
<1> QED
  BY <1>1, SessionInductive, PTL

LEMMA KeptStep ==
    ASSUME TypeInv, MappingsSent, [Next]_vars
    PROVE  \A p \in Stored : p \notin Stored' =>
              \/ p \in answered' \cup dropped'
              \/ pc' = "crashed" /\ p[2] \notin jour[p[1]]
<1> USE DEF Stored, control, mappings, outgoing, history
<1>t. /\ count \in Nat /\ active \in SUBSET Sources
      /\ store \in [Sources -> SUBSET Maps]
  BY NumSourcesAssumption DEF TypeInv, TypeOK, PositionTypes, FlagTypes, DataTypes, Stores
<1> USE <1>t
<1>1. CASE NewSession
  <2>1. store' = [s \in Sources |-> store[s] \cup jour[s]]
    BY <1>1 DEF NewSession
  <2> QED
    BY <2>1 DEF Mappings
<1>2. CASE UserAborts
  BY <1>2 DEF UserAborts
<1>3. CASE Crash
  BY <1>3 DEF Crash
<1>4. CASE SkipSource
  BY <1>4 DEF SkipSource
<1>5. CASE BeginSyncFails
  BY <1>5 DEF BeginSyncFails
<1>6. CASE BeginSync
  BY <1>6 DEF BeginSync
<1>7. CASE AssertionFails
  BY <1>7 DEF AssertionFails
<1>8. CASE BuildModifications
  <2>1. StoredMappingsFirst
    BY <1>8 DEF BuildModifications
  <2> QED
    BY <2>1 DEF StoredMappingsFirst, StoreOf, Mappings
<1>9. CASE AbortWhileBuilding
  <2>1. StoredMappingsFirst
    BY <1>9 DEF AbortWhileBuilding
  <2> QED
    BY <2>1 DEF StoredMappingsFirst, StoreOf, Mappings
<1>10. CASE AbortBeforeSend
  BY <1>10 DEF AbortBeforeSend
<1>11. CASE Exchange
  BY <1>11 DEF Exchange
<1>12. CASE NoAnswer
  BY <1>12 DEF NoAnswer
<1>13. CASE BadAnswer
  <2>1. Reset(ResetBy) /\ answered' = answered
    BY <1>13 DEF BadAnswer
  <2>2. pc = "replied" /\ reply.kind # "none" /\ phase \in Phases
    BY <1>13 DEF BadAnswer, Answered, TypeInv, TypeOK, PositionTypes
  <2>3. Covered(ResetBy, answered)
    BY <2>2 DEF MappingsSent, Covered, ResetBy, Phases
  <2> QED
    BY <2>1, <2>3 DEF Reset, Covered, Mappings
<1>14. CASE SyncRefused
  <2>1. Reset({count}) /\ answered' = answered
    BY <1>14 DEF SyncRefused
  <2>2. Covered({count}, answered)
    BY <1>14 DEF SyncRefused, Answered, MappingsSent, Covered, Before, ResetBy
  <2> QED
    BY <2>1, <2>2 DEF Reset, Covered, Mappings
<1>15. CASE ModificationsAnswered
  <2>1. Reset({count}) /\ answered' = answered
    BY <1>15 DEF ModificationsAnswered
  <2>2. Covered({count}, answered)
    BY <1>15 DEF ModificationsAnswered, Answered, MappingsSent, Covered, Before, ResetBy
  <2> QED
    BY <2>1, <2>2 DEF Reset, Covered, Mappings
<1>16. CASE AbortAfterStatuses
  BY <1>16 DEF AbortAfterStatuses
<1>17. CASE ServerPackageAnswered
  <2>1. Reset(ResetBy) /\ answered' = answered
    BY <1>17 DEF ServerPackageAnswered
  <2>2. Covered(ResetBy, answered)
    BY <1>17 DEF ServerPackageAnswered, Answered, MappingsSent, Covered, Before, ResetBy
  <2> QED
    BY <2>1, <2>2 DEF Reset, Covered, Mappings
<1>18. CASE EndAnswered
  <2>1. Reset(ResetBy) /\ answered' = answered
    BY <1>18 DEF EndAnswered
  <2>2. Covered(ResetBy, answered)
    BY <1>18 DEF EndAnswered, Answered, MappingsSent, Covered, Before, ResetBy
  <2> QED
    BY <2>1, <2>2 DEF Reset, Covered, Mappings
<1>19. CASE ServerChangesAborted
  <2>1. PICK new \in SUBSET Mappings :
            store' = [s \in Sources |-> store[s] \cup {m \in Maps : <<s, m>> \in new}]
    BY <1>19 DEF ServerChangesAborted
  <2> QED
    BY <2>1 DEF Mappings
<1>20. CASE ServerChanges
  <2>1. PICK new \in SUBSET Mappings :
            store' = [s \in Sources |-> store[s] \cup {m \in Maps : <<s, m>> \in new}]
    BY <1>20 DEF ServerChanges
  <2> QED
    BY <2>1 DEF Mappings
<1>21. CASE ModificationsDone
  BY <1>21 DEF ModificationsDone
<1>22. CASE Finally
  BY <1>22 DEF Finally
<1>23. CASE EndSync
  BY <1>23 DEF EndSync
<1>24. CASE EndSources
  BY <1>24 DEF EndSources
<1>25. CASE UNCHANGED vars
  BY <1>25 DEF vars
<1>26. CASE CrashInClose
  <2>1. PICK s \in Sources, written \in SUBSET Maps, new \in SUBSET Mappings :
          /\ IF pc = "changes"
             THEN /\ \A p \in new : p[1] \in active
                  /\ Cardinality(new) <= 1
                  /\ new \cap (Stored \cup answered \cup dropped) = {}
             ELSE s \in active /\ new = {}
          /\ store' = [t \in Sources |-> {m \in store[t] : t = s => m \in written \cup jour[s]}
                                          \cup {m \in Maps : <<t, m>> \in new}]
          /\ jour' = [t \in Sources |-> jour[t] \cup {m \in Maps : <<t, m>> \in new}]
    BY <1>26, Zenon DEF CrashInClose
  <2>2. pc' = "crashed"
    BY <1>26 DEF CrashInClose
  <2>3. \A p \in Stored : p \notin Stored' => p[2] \notin jour[p[1]]
    BY <2>1 DEF Mappings
  <2> QED
    BY <2>2, <2>3
<1> QED
  BY <1>1, <1>2, <1>3, <1>4, <1>5, <1>6, <1>7, <1>8, <1>9, <1>10, <1>11, <1>12, <1>13, <1>14, <1>15, <1>16,
     <1>17, <1>18, <1>19, <1>20, <1>21, <1>22, <1>23, <1>24, <1>25, <1>26
     DEF Next, Step

(* No reset of a MappingsManager removes a mapping that no answered message*)
(* carried, unless the sync mode drops it (sync(), endSync()).             *)
THEOREM MappingsAreKept == Spec => MappingsKept
<1>1. IInv /\ [Next]_vars =>
        [\A p \in Stored : p \notin Stored' =>
            \/ p \in answered' \cup dropped'
            \/ pc' = "crashed" /\ p[2] \notin jour[p[1]]]_vars
  BY KeptStep DEF IInv
<1> QED
  BY <1>1, SessionInductive, PTL DEF Spec, MappingsKept

-----------------------------------------------------------------------------
(* The loop over the sources, inside sync(), and the sources it has still  *)
(* to begin.                                                               *)
InLoop == phase = "mods" /\ pc \in {"source", "build", "send", "replied", "changes"}
Ahead == {s \in active : s >= count /\ (pc = "source" \/ s # count)}

(* `iterator` and the sources ahead make up `toSync`: no more than it, and *)
(* exactly it when no source put itself in error before its turn.          *)
Counted ==
    InLoop => /\ iterator + Cardinality(Ahead) <= toSync
              /\ skipped = {} => iterator + Cardinality(Ahead) = toSync

(* The final tag goes with the last message of the last source to begin,   *)
(* and the server's comes only after it.                                   *)
FinalInLoop ==
    InLoop =>
    /\ pc \in {"build", "send"} => finals = 0 /\ ~fromServerFinal
    /\ pc \in {"send", "replied", "changes"} => (msg.final <=> iterator = toSync /\ last)
    /\ pc \in {"replied", "changes"} => finals = IF msg.final THEN 1 ELSE 0
    /\ pc = "replied" /\ reply.final => finals = 1
    /\ pc \in {"source", "changes"} /\ fromServerFinal => finals = 1 /\ ret = 0
    /\ pc = "source" => finals = IF iterator = toSync /\ last THEN 1 ELSE 0

(* It never goes out twice.                                                *)
NotTwice ==
    /\ finals <= 1
    /\ phase = "alert" /\ pc = "send" /\ msg.final => finals = 0

(* ... or with the alert that asks the server for its changes.             *)
FinalAfterLoop ==
    skipped = {} =>
    /\ phase = "alert" /\ pc = "send" => finals = IF msg.final THEN 0 ELSE 1
    /\ \/ phase = "alert" /\ pc \in {"replied", "changes"}
       \/ phase = "status"
       \/ pc \in {"endSync", "endSources"} /\ ~abort
       \/ pc = "finally" /\ ret = 0 /\ ~abort
       \/ phase = "end" /\ pc \in {"send", "replied"} /\ ~abort
       => finals = 1 \/ active = {}

(* What the loop leaves behind it: sources that have sent everything, and  *)
(* one that began if any is left.                                          *)
Complete ==
    /\ InLoop => /\ Before \subseteq completed
                 /\ pc = "changes" /\ last => count \in completed
                 /\ ~good => pc = "source" /\ Before = {}
    /\ phase # "mods" \/ pc = "endSync" => good
    /\ phase = "end" => pc # "changes"
    /\ \/ phase \in {"alert", "status"} /\ pc \in {"send", "replied", "changes"}
       \/ pc = "finally" /\ ret = 0 /\ ~abort
       \/ pc \in {"endSync", "endSources"} /\ ~abort
       \/ phase = "end" /\ pc \in {"send", "replied"} /\ ~abort
       => active \subseteq completed
    /\ pc = "changes" => ret = 0
    /\ committed # {} /\ ~abort => committed \subseteq completed

(* What went wrong with a message leads to an error.                       *)
Noted ==
    /\ trouble => \/ pc \in Over
                  \/ pc = "finally" /\ ret = 1
                  \/ pc = "replied" /\ reply.kind # "ok"
    /\ pc = "replied" => (trouble <=> reply.kind # "ok")
    /\ trouble => committed = {}
    /\ pc = "finally" /\ ~abort /\ ~trouble => active = {} \/ (ret = 0 /\ good)
    /\ pc = "done" /\ ~abort /\ ~trouble => committed = active

(* What an item left over by a source may meet: that source, or one behind *)
(* it when the source was refused.                                         *)
LeftBehind == pending # NoSource => pending < count /\ pending \notin active
LeftOver ==
    /\ pc = "source" \/ (pc = "build" /\ rounds = 0) => LeftBehind
    /\ phase = "mods" /\ pc \in {"build", "send", "replied", "changes"} =>
         /\ LeftBehind \/ pending = count
         /\ pc # "build" => rounds # 0
         /\ mode[count] \in SendsNothing => LeftBehind
         /\ pc # "build" /\ last => LeftBehind
    /\ pc = "assertFailed" => pending # NoSource /\ LeftBehind

(* Every error is kept until the end, but that of a source that failed by  *)
(* itself.                                                                 *)
ErrorKept ==
    /\ active \cup silent # Sources \/ endFailed # {} => lastError
    /\ trouble => \/ lastError \/ pc = "crashed"
                  \/ pc = "replied" /\ reply.kind # "ok"
    /\ pc = "done" /\ ret = 0 => ~lastError

LEMMA AheadFinite ==
    ASSUME TypeInv
    PROVE  IsFiniteSet(Ahead) /\ Cardinality(Ahead) \in Nat
<1>1. IsFiniteSet(Sources)
  BY NumSourcesAssumption, FS_Interval DEF Sources
<1>2. Ahead \subseteq Sources
  BY DEF Ahead, TypeInv, TypeOK, FlagTypes
<1> QED
  BY <1>1, <1>2, FS_Subset, FS_CardinalityType

LEMMA CountedInit == Init => Counted
<1> SUFFICES ASSUME Init PROVE Counted
  OBVIOUS
<1>1. Ahead = active
  <2>1. \A s \in Sources : s >= 1
    BY NumSourcesAssumption DEF Sources
  <2> QED
    BY <2>1 DEF Init, Ahead
<1>2. Cardinality(active) \in Nat
  BY ActiveCount, NumSourcesAssumption DEF Init, Sources
<1> QED
  BY <1>1, <1>2 DEF Init, Counted

(* A source that begins is no longer ahead. *)
LEMMA OneLessAhead ==
    ASSUME TypeInv, pc = "source", count \in active, Ahead' = Ahead \ {count}
    PROVE  Cardinality(Ahead') = Cardinality(Ahead) - 1
<1>1. count \in Ahead
  BY DEF Ahead, TypeInv, TypeOK, PositionTypes
<1> QED
  BY <1>1, AheadFinite, FS_RemoveElement

(* A step of the loop counts each source that begins, and no other. *)
LEMMA CountedStep ==
    ASSUME TypeInv, Counted, [Next]_vars
    PROVE  Counted'
<1> USE DEF Counted, InLoop, control, outgoing, history
<1>t. /\ count \in Nat /\ active \in SUBSET Sources /\ Sources \subseteq Nat
      /\ iterator \in Nat /\ toSync \in Nat /\ Cardinality(Ahead) \in Nat
  BY NumSourcesAssumption, AheadFinite
     DEF TypeInv, TypeOK, PositionTypes, FlagTypes, Sources
<1> USE <1>t
<1>1. CASE NewSession
  <2>1. PICK act \in (SUBSET Sources) \ {{}} :
          /\ active' = act /\ count' = 1 /\ iterator' = 0
          /\ toSync' = Cardinality(act) /\ pc' = "source"
    BY <1>1 DEF NewSession, Begin
  <2>2. \A s \in Sources : s >= 1
    BY NumSourcesAssumption DEF Sources
  <2>3. Ahead' = act
    BY <2>1, <2>2 DEF Ahead
  <2>4. Cardinality(act) \in Nat
    BY ActiveCount, NumSourcesAssumption DEF Sources
  <2> QED
    BY <2>1, <2>3, <2>4
<1>2. CASE UserAborts
  BY <1>2 DEF UserAborts, Ahead
<1>3. CASE Crash
  BY <1>3 DEF Crash, Ahead
<1>4. CASE SkipSource
  <2>1. \A s \in active : s >= count + 1 <=> s >= count
    BY <1>4 DEF SkipSource
  <2>2. Ahead' = Ahead
    BY <1>4, <2>1 DEF SkipSource, Ahead
  <2> QED
    BY <1>4, <2>2 DEF SkipSource
<1>5. CASE BeginSyncFails
  <2>1. /\ pc = "source" /\ pc' = pc /\ count \in active /\ active' = active \ {count}
        /\ count' = count + 1 /\ iterator' = iterator + 1 /\ UNCHANGED <<toSync, phase, skipped>>
    BY <1>5 DEF BeginSyncFails, SourceError
  <2>2. Ahead' = Ahead \ {count}
    <3>1. \A s \in active \ {count} : s >= count + 1 <=> s >= count
      OBVIOUS
    <3> QED
      BY <2>1, <3>1 DEF Ahead
  <2> QED
    BY <2>1, <2>2, OneLessAhead
<1>6. CASE BeginSync
  <2>1. /\ pc = "source" /\ pc' = "build" /\ count \in active /\ active' = active
        /\ count' = count /\ iterator' = iterator + 1 /\ UNCHANGED <<toSync, phase, skipped>>
    BY <1>6 DEF BeginSync
  <2>2. Ahead' = Ahead \ {count}
    BY <2>1 DEF Ahead
  <2> QED
    BY <2>1, <2>2, OneLessAhead
<1>7. CASE AssertionFails
  BY <1>7 DEF AssertionFails, Ahead
<1>8. CASE BuildModifications
  <2>1. /\ pc = "build" /\ pc' = "send" /\ phase = "mods"
        /\ UNCHANGED <<active, count, iterator, toSync, skipped>>
    BY <1>8 DEF BuildModifications, TypeInv, LoopBounds
  <2>2. Ahead' = Ahead
    BY <2>1 DEF Ahead
  <2> QED
    BY <2>1, <2>2
<1>9. CASE AbortWhileBuilding
  BY <1>9 DEF AbortWhileBuilding, Fails, ToAbort, Ahead
<1>10. CASE AbortBeforeSend
  BY <1>10 DEF AbortBeforeSend, Fails, ToAbort, Ahead
<1>11. CASE Exchange
  BY <1>11 DEF Exchange, ToAbort, Ahead
<1>12. CASE NoAnswer
  BY <1>12 DEF NoAnswer, Fails, ToAbort, Ahead
<1>13. CASE BadAnswer
  BY <1>13 DEF BadAnswer, Answered, Fails, HeaderGood, Ahead
<1>14. CASE SyncRefused
  <2>1. /\ pc = "replied" /\ pc' = "source" /\ active' = active \ {count} /\ phase = "mods"
        /\ count' = count + 1 /\ UNCHANGED <<iterator, toSync, phase, skipped>>
    BY <1>14 DEF SyncRefused, Answered, SourceError
  <2>2. \A s \in active \ {count} : s >= count + 1 <=> s >= count
    OBVIOUS
  <2>3. Ahead' = Ahead
    BY <2>1, <2>2 DEF Ahead
  <2> QED
    BY <2>1, <2>3
<1>15. CASE ModificationsAnswered
  BY <1>15 DEF ModificationsAnswered, Answered, RetCleared, HeaderGood, Ahead
<1>16. CASE AbortAfterStatuses
  BY <1>16 DEF AbortAfterStatuses, Fails, ToAbort, Ahead
<1>17. CASE ServerPackageAnswered
  BY <1>17 DEF ServerPackageAnswered, Answered, RetCleared, HeaderGood, Ahead
<1>18. CASE EndAnswered
  BY <1>18 DEF EndAnswered, Answered, RetCleared, HeaderGood, Ahead
<1>19. CASE ServerChangesAborted
  BY <1>19 DEF ServerChangesAborted, ToAbort, Ahead
<1>20. CASE ServerChanges
  <2>1. CASE phase = "mods"
    <3>1. /\ pc = "changes" /\ iterator' = iterator /\ toSync' = toSync /\ phase' = phase
          /\ \/ pc' = "source" /\ count' = count + 1
             \/ pc' = "build" /\ count' = count
      BY <1>20, <2>1 DEF ServerChanges
    <3>2. PICK bad \in SUBSET (active \cap Fallible) :
            /\ active' = active \ bad
            /\ skipped' = IF phase = "mods" THEN skipped \cup {s \in bad : s > count}
                                            ELSE skipped
      BY <1>20 DEF ServerChanges
    <3>3. \A s \in active : s >= count + 1 <=> s >= count /\ s # count
      OBVIOUS
    <3>4. Ahead' = Ahead \ bad
      BY <3>1, <3>2, <3>3 DEF Ahead
    <3>5. Cardinality(Ahead') <= Cardinality(Ahead) /\ Cardinality(Ahead') \in Nat
      BY <3>4, AheadFinite, FS_Subset, FS_CardinalityType
    <3>6. skipped' = {} => skipped = {} /\ Ahead' = Ahead
      <4>1. \A s \in Ahead : s > count
        BY <1>20, <2>1 DEF ServerChanges, Ahead
      <4> QED
        BY <2>1, <3>2, <3>4, <4>1 DEF Ahead
    <3> QED
      BY <2>1, <3>1, <3>5, <3>6
  <2>2. CASE phase # "mods"
    BY <1>20, <2>2 DEF ServerChanges
  <2> QED
    BY <2>1, <2>2
<1>21. CASE ModificationsDone
  BY <1>21 DEF ModificationsDone, Ahead
<1>22. CASE Finally
  BY <1>22 DEF Finally, Ahead
<1>23. CASE EndSync
  BY <1>23 DEF EndSync, LastMessage, Ahead
<1>24. CASE EndSources
  BY <1>24 DEF EndSources, Ahead
<1>25. CASE UNCHANGED vars
  BY <1>25 DEF vars, Ahead
<1>26. CASE CrashInClose
  BY <1>26 DEF CrashInClose, Ahead
<1> QED
  BY <1>1, <1>2, <1>3, <1>4, <1>5, <1>6, <1>7, <1>8, <1>9, <1>10, <1>11,
     <1>12, <1>13, <1>14, <1>15, <1>16, <1>17, <1>18, <1>19, <1>20, <1>21,
     <1>22, <1>23, <1>24, <1>25, <1>26
     DEF Next, Step

LEMMA FinalInit == Init => FinalInLoop /\ FinalAfterLoop
<1> SUFFICES ASSUME Init PROVE FinalInLoop /\ FinalAfterLoop
  OBVIOUS
<1> QED
  BY DEF Init, FinalInLoop, FinalAfterLoop, InLoop

(* Once the final tag has gone out no source is left to begin. *)
LEMMA NoneAhead ==
    ASSUME TypeInv, Counted, InLoop, pc = "source", iterator = toSync
    PROVE  count \notin active
<1>1. Cardinality(Ahead) = 0
  BY AheadFinite, NumSourcesAssumption DEF Counted, TypeInv, TypeOK, PositionTypes, FlagTypes, Sources
<1>2. Ahead = {}
  BY <1>1, AheadFinite, FS_EmptySet
<1> QED
  BY <1>2, NumSourcesAssumption DEF Ahead, TypeInv, TypeOK, PositionTypes, Sources

(* The final tag goes with no message but the last one of the loop. *)
LEMMA FinalInLoopStep ==
    ASSUME TypeInv, Counted, FinalInLoop, [Next]_vars
    PROVE  FinalInLoop'
<1> USE DEF FinalInLoop, InLoop, Over, control, outgoing, history
<1>t. /\ iterator \in Nat /\ toSync \in Nat /\ toSync # 0 /\ last \in BOOLEAN
      /\ (pc \in {"source", "build"} => phase = "mods")
  BY NumSourcesAssumption DEF TypeInv, TypeOK, LoopBounds, PositionTypes, FlagTypes, Sources
<1>a. InLoop /\ pc = "source" /\ iterator = toSync => count \notin active
  BY NoneAhead
<1> USE <1>t
<1>1. CASE NewSession
  BY <1>1 DEF NewSession, Begin
<1>2. CASE UserAborts
  BY <1>2 DEF UserAborts
<1>3. CASE Crash
  BY <1>3 DEF Crash
<1>4. CASE SkipSource
  BY <1>4 DEF SkipSource
<1>5. CASE BeginSyncFails
  BY <1>5, <1>a DEF BeginSyncFails, SourceError, LastOfNewSource
<1>6. CASE BeginSync
  BY <1>6, <1>a DEF BeginSync, LastOfNewSource
<1>7. CASE AssertionFails
  BY <1>7 DEF AssertionFails
<1>8. CASE BuildModifications
  <2>1. /\ pc = "build" /\ pc' = "send" /\ phase' = "mods" /\ finals' = finals
        /\ UNCHANGED <<iterator, toSync, fromServerFinal>>
    BY <1>8 DEF BuildModifications
  <2>2. msg'.final <=> iterator = toSync /\ last'
    <3>1. \E D : msg' = [maps |-> D, final |-> iterator = toSync /\ last']
      BY <1>8 DEF BuildModifications, StoredMappingsFirst
    <3>2. msg'.final = (iterator = toSync /\ last')
      BY <3>1
    <3> QED
      BY <3>2
  <2> QED
    BY <2>1, <2>2
<1>9. CASE AbortWhileBuilding
  BY <1>9 DEF AbortWhileBuilding, Fails, ToAbort
<1>10. CASE AbortBeforeSend
  BY <1>10 DEF AbortBeforeSend, Fails, ToAbort
<1>11. CASE Exchange
  <2>1. /\ pc = "send" /\ pc' = "replied" /\ phase' = phase /\ msg' = msg
        /\ iterator' = iterator /\ toSync' = toSync /\ last' = last
    BY <1>11 DEF Exchange
  <2>2. phase = "mods" => finals' = IF msg.final THEN finals + 1 ELSE finals
    BY <1>11 DEF Exchange
  <2>3. reply'.final => finals' > 0
    BY <1>11 DEF Exchange
  <2> QED
    BY <2>1, <2>2, <2>3
<1>12. CASE NoAnswer
  BY <1>12 DEF NoAnswer, Fails, ToAbort
<1>13. CASE BadAnswer
  BY <1>13 DEF BadAnswer, Answered, Fails, HeaderGood
<1>14. CASE SyncRefused
  BY <1>14 DEF SyncRefused, Answered, SourceError, RetCleared, HeaderGood
<1>15. CASE ModificationsAnswered
  BY <1>15 DEF ModificationsAnswered, Answered, RetCleared, HeaderGood
<1>16. CASE AbortAfterStatuses
  BY <1>16 DEF AbortAfterStatuses, Fails, ToAbort
<1>17. CASE ServerPackageAnswered
  BY <1>17 DEF ServerPackageAnswered, Answered, RetCleared, HeaderGood
<1>18. CASE EndAnswered
  BY <1>18 DEF EndAnswered, Answered, RetCleared, HeaderGood
<1>19. CASE ServerChangesAborted
  BY <1>19 DEF ServerChangesAborted, ToAbort
<1>20. CASE ServerChanges
  BY <1>20 DEF ServerChanges
<1>21. CASE ModificationsDone
  BY <1>21 DEF ModificationsDone, MoreSources, SendFinalAfterClientMods
<1>22. CASE Finally
  BY <1>22 DEF Finally
<1>23. CASE EndSync
  BY <1>23 DEF EndSync, LastMessage
<1>24. CASE EndSources
  BY <1>24 DEF EndSources
<1>25. CASE UNCHANGED vars
  BY <1>25 DEF vars
<1>26. CASE CrashInClose
  BY <1>26 DEF CrashInClose
<1> QED
  BY <1>1, <1>2, <1>3, <1>4, <1>5, <1>6, <1>7, <1>8, <1>9, <1>10, <1>11,
     <1>12, <1>13, <1>14, <1>15, <1>16, <1>17, <1>18, <1>19, <1>20, <1>21,
     <1>22, <1>23, <1>24, <1>25, <1>26
     DEF Next, Step

LEMMA CompleteInit == Init => Complete
<1> SUFFICES ASSUME Init PROVE Complete
  OBVIOUS
<1>1. \A s \in Sources : ~(s < 1)
  BY NumSourcesAssumption DEF Sources
<1>2. Before = {}
  BY <1>1 DEF Init, Before
<1> QED
  BY <1>2 DEF Init, Complete, InLoop

(* Every source the loop has been through has sent everything, and stays so. *)
LEMMA CompleteStep ==
    ASSUME TypeInv, AnchorsLast, Complete, [Next]_vars
    PROVE  Complete'
<1> USE DEF Complete, InLoop, Over, control, outgoing, history
<1>t. /\ count \in Nat /\ active \in SUBSET Sources /\ Sources \subseteq Nat
      /\ (pc \in {"source", "build"} => phase = "mods")
      /\ (pc = "endSync" => ret = 0)
  BY NumSourcesAssumption
     DEF TypeInv, TypeOK, LoopBounds, PositionTypes, FlagTypes, Sources
<1>b. Before \subseteq Sources
  BY <1>t DEF Before
<1> USE <1>t, <1>b
<1>1. CASE NewSession
  <2>1. \A s \in Sources : ~(s < 1)
    BY NumSourcesAssumption DEF Sources
  <2>2. Before' = {}
    BY <1>1, <2>1 DEF NewSession, Begin, Before
  <2> QED
    BY <1>1, <2>2 DEF NewSession, Begin
<1>2. CASE UserAborts
  <2>1. Before' = Before
    BY <1>2 DEF UserAborts, Before
  <2> QED
    BY <1>2, <2>1 DEF UserAborts
<1>3. CASE Crash
  <2>1. Before' = Before
    BY <1>3 DEF Crash, Before
  <2> QED
    BY <1>3, <2>1 DEF Crash
<1>4. CASE SkipSource
  <2>1. \A s \in active : s < count + 1 <=> s < count
    BY <1>4 DEF SkipSource
  <2>2. Before' = Before
    BY <1>4, <2>1 DEF SkipSource, Before
  <2> QED
    BY <1>4, <2>2 DEF SkipSource
<1>5. CASE BeginSyncFails
  <2>1. \A s \in active \ {count} : s < count + 1 <=> s < count
    OBVIOUS
  <2>2. Before' \subseteq Before
    BY <1>5, <2>1 DEF BeginSyncFails, SourceError, Before
  <2> QED
    BY <1>5, <2>2 DEF BeginSyncFails, SourceError
<1>6. CASE BeginSync
  <2>1. Before' = Before
    BY <1>6 DEF BeginSync, Before
  <2> QED
    BY <1>6, <2>1 DEF BeginSync, LastOfNewSource
<1>7. CASE AssertionFails
  <2>1. Before' = Before
    BY <1>7 DEF AssertionFails, Before
  <2> QED
    BY <1>7, <2>1 DEF AssertionFails
<1>8. CASE BuildModifications
  <2>1. Before' = Before
    BY <1>8 DEF BuildModifications, Before
  <2> QED
    BY <1>8, <2>1 DEF BuildModifications
<1>9. CASE AbortWhileBuilding
  <2>1. Before' = Before
    BY <1>9 DEF AbortWhileBuilding, Before
  <2> QED
    BY <1>9, <2>1 DEF AbortWhileBuilding, Fails, ToAbort
<1>10. CASE AbortBeforeSend
  <2>1. Before' = Before
    BY <1>10 DEF AbortBeforeSend, Before
  <2> QED
    BY <1>10, <2>1 DEF AbortBeforeSend, Fails, ToAbort
<1>11. CASE Exchange
  <2>1. Before' = Before
    BY <1>11 DEF Exchange, Before
  <2> QED
    BY <1>11, <2>1 DEF Exchange, ToAbort
<1>12. CASE NoAnswer
  <2>1. Before' = Before
    BY <1>12 DEF NoAnswer, Before
  <2> QED
    BY <1>12, <2>1 DEF NoAnswer, Fails, ToAbort
<1>13. CASE BadAnswer
  <2>1. Before' = Before
    BY <1>13 DEF BadAnswer, Before
  <2> QED
    BY <1>13, <2>1 DEF BadAnswer, Answered, Fails, HeaderGood
<1>14. CASE SyncRefused
  <2>1. \A s \in active \ {count} : s < count + 1 <=> s < count
    OBVIOUS
  <2>2. Before' \subseteq Before
    BY <1>14, <2>1 DEF SyncRefused, SourceError, Before
  <2> QED
    BY <1>14, <2>2 DEF SyncRefused, SourceError, Answered
<1>15. CASE ModificationsAnswered
  <2>1. Before' = Before
    BY <1>15 DEF ModificationsAnswered, Before
  <2>2. completed \subseteq completed' /\ (last => count \in completed')
    BY <1>15 DEF ModificationsAnswered
  <2>3. /\ pc = "replied" /\ pc' = "changes" /\ phase = "mods" /\ ret' = 0
        /\ UNCHANGED <<phase, last, good, count, active, committed, abort>>
    BY <1>15 DEF ModificationsAnswered, Answered, RetCleared
  <2> QED
    BY <2>1, <2>2, <2>3
<1>16. CASE AbortAfterStatuses
  <2>1. Before' = Before
    BY <1>16 DEF AbortAfterStatuses, Before
  <2> QED
    BY <1>16, <2>1 DEF AbortAfterStatuses, Fails, ToAbort
<1>17. CASE ServerPackageAnswered
  <2>1. Before' = Before
    BY <1>17 DEF ServerPackageAnswered, Before
  <2> QED
    BY <1>17, <2>1 DEF ServerPackageAnswered, Answered, RetCleared, HeaderGood
<1>18. CASE EndAnswered
  <2>1. Before' = Before
    BY <1>18 DEF EndAnswered, Before
  <2> QED
    BY <1>18, <2>1 DEF EndAnswered, Answered, RetCleared, HeaderGood
<1>19. CASE ServerChangesAborted
  <2>1. Before' = Before
    BY <1>19 DEF ServerChangesAborted, Before
  <2> QED
    BY <1>19, <2>1 DEF ServerChangesAborted, ToAbort
<1>20. CASE ServerChanges
  <2>1. PICK bad \in SUBSET (active \cap Fallible) : active' = active \ bad
    BY <1>20 DEF ServerChanges
  <2>2. \A s \in active : s < count + 1 => s < count \/ s = count
    OBVIOUS
  <2>3. /\ count' = count => Before' \subseteq Before
        /\ count' = count + 1 => Before' \subseteq Before \cup {count}
    BY <2>1, <2>2 DEF Before
  <2>4. /\ pc = "changes" /\ completed' = completed /\ good' = good /\ ret' = ret
        /\ committed' = committed /\ abort' = abort
        /\ phase = "mods" => /\ phase' = phase
                             /\ \/ last /\ pc' = "source" /\ count' = count + 1
                                \/ ~last /\ pc' = "build" /\ count' = count
        /\ phase # "mods" => \/ pc' = "finally" /\ phase' = phase
                             \/ pc' = "send" /\ phase' = "status"
    BY <1>20 DEF ServerChanges
  <2>5. phase \in Phases
    BY DEF TypeInv, TypeOK, PositionTypes
  <2>6. CASE phase = "mods"
    BY <2>3, <2>4, <2>6
  <2>7. CASE phase \in {"alert", "status"}
    BY <2>1, <2>4, <2>7
  <2>8. CASE phase = "end"
    BY <2>4, <2>8
  <2> QED
    BY <2>5, <2>6, <2>7, <2>8 DEF Phases
<1>21. CASE ModificationsDone
  <2>1. active = Before
    <3>1. \A s \in Sources : s < count
      BY <1>21, NumSourcesAssumption DEF ModificationsDone, MoreSources, Sources
    <3> QED
      BY <3>1 DEF Before
  <2>2. active # {} => good
    BY <1>21, <2>1 DEF ModificationsDone
  <2>3. active \subseteq completed
    BY <1>21, <2>1 DEF ModificationsDone
  <2> QED
    BY <1>21, <2>2, <2>3 DEF ModificationsDone
<1>22. CASE Finally
  <2>1. Before' = Before
    BY <1>22 DEF Finally, Before
  <2> QED
    BY <1>22, <2>1 DEF Finally
<1>23. CASE EndSync
  <2>1. Before' = Before
    BY <1>23 DEF EndSync, Before
  <2> QED
    BY <1>23, <2>1 DEF EndSync, LastMessage
<1>24. CASE EndSources
  <2>1. Before' = Before
    BY <1>24 DEF EndSources, Before
  <2> QED
    BY <1>24, <2>1 DEF EndSources
<1>25. CASE UNCHANGED vars
  BY <1>25 DEF vars, Before
<1>26. CASE CrashInClose
  BY <1>26 DEF CrashInClose
<1> QED
  BY <1>1, <1>2, <1>3, <1>4, <1>5, <1>6, <1>7, <1>8, <1>9, <1>10, <1>11,
     <1>12, <1>13, <1>14, <1>15, <1>16, <1>17, <1>18, <1>19, <1>20, <1>21,
     <1>22, <1>23, <1>24, <1>25, <1>26
     DEF Next, Step

LEMMA NotedInit == Init => Noted
BY DEF Init, Noted, Over

(* No failed message is forgotten, and no session fails without one. *)
LEMMA NotedStep ==
    ASSUME TypeInv, AnchorsLast, FinalInLoop, Complete, Noted, [Next]_vars
    PROVE  Noted'
<1> USE DEF Noted, InLoop, Over, control, outgoing, history
<1>t. /\ committed # {} => pc = "done"
      /\ ret \in {0, 1} /\ good \in BOOLEAN
  BY DEF AnchorsLast, TypeInv, TypeOK, PositionTypes, FlagTypes
<1> USE <1>t
<1>1. CASE NewSession
  BY <1>1 DEF NewSession, Begin
<1>2. CASE UserAborts
  BY <1>2 DEF UserAborts
<1>3. CASE Crash
  BY <1>3 DEF Crash
<1>4. CASE SkipSource
  BY <1>4 DEF SkipSource
<1>5. CASE BeginSyncFails
  BY <1>5 DEF BeginSyncFails, SourceError, LastOfNewSource
<1>6. CASE BeginSync
  BY <1>6 DEF BeginSync, LastOfNewSource
<1>7. CASE AssertionFails
  BY <1>7 DEF AssertionFails
<1>8. CASE BuildModifications
  BY <1>8 DEF BuildModifications, StoredMappingsFirst
<1>9. CASE AbortWhileBuilding
  BY <1>9 DEF AbortWhileBuilding, Fails, ToAbort
<1>10. CASE AbortBeforeSend
  BY <1>10 DEF AbortBeforeSend, Fails, ToAbort
<1>11. CASE Exchange
  <2>1. /\ pc = "send" /\ pc' = "replied"
        /\ UNCHANGED <<committed, abort, active, lastError, endFailed>>
    BY <1>11 DEF Exchange
  <2>2. \/ reply'.kind \in {"none", "garbled", "headerError"} /\ trouble' = TRUE
        \/ reply'.kind = "ok" /\ trouble' = trouble
    <3>1. CASE /\ reply' \in [kind : {"none", "garbled", "headerError"},
                            final : {FALSE}, itemError : {FALSE}]
               /\ trouble' = TRUE
      BY <3>1
    <3>2. CASE /\ reply' \in [kind : {"ok"}, final : BOOLEAN, itemError : BOOLEAN]
               /\ UNCHANGED trouble
      BY <3>2
    <3> QED
      BY <1>11, <3>1, <3>2 DEF Exchange
  <2> QED
    BY <2>1, <2>2
<1>12. CASE NoAnswer
  BY <1>12 DEF NoAnswer, Fails, ToAbort
<1>13. CASE BadAnswer
  BY <1>13 DEF BadAnswer, Answered, Fails, HeaderGood
<1>14. CASE SyncRefused
  BY <1>14 DEF SyncRefused, Answered, SourceError, RetCleared, HeaderGood
<1>15. CASE ModificationsAnswered
  BY <1>15 DEF ModificationsAnswered, Answered, RetCleared, HeaderGood
<1>16. CASE AbortAfterStatuses
  BY <1>16 DEF AbortAfterStatuses, Fails, ToAbort
<1>17. CASE ServerPackageAnswered
  BY <1>17 DEF ServerPackageAnswered, Answered, RetCleared, HeaderGood
<1>18. CASE EndAnswered
  BY <1>18 DEF EndAnswered, Answered, RetCleared, HeaderGood
<1>19. CASE ServerChangesAborted
  BY <1>19 DEF ServerChangesAborted, ToAbort
<1>20. CASE ServerChanges
  <2>1. ret = 0 /\ (phase # "mods" => good)
    BY <1>20 DEF ServerChanges, Complete
  <2>2. /\ pc = "changes" /\ UNCHANGED <<trouble, reply, good, ret, committed>>
        /\ pc' \in {"source", "build", "send", "finally"} /\ (pc' = "finally" => phase # "mods")
    BY <1>20 DEF ServerChanges
  <2> QED
    BY <2>1, <2>2
<1>21. CASE ModificationsDone
  <2>1. active # {} => good
    <3>1. \A s \in Sources : s < count
      BY <1>21, NumSourcesAssumption DEF ModificationsDone, MoreSources, Sources, TypeInv, TypeOK, PositionTypes
    <3>2. active = Before
      BY <3>1 DEF Before, TypeInv, TypeOK, FlagTypes
    <3>3. phase = "mods"
      BY <1>21 DEF ModificationsDone, TypeInv, LoopBounds
    <3> QED
      BY <1>21, <3>2, <3>3 DEF ModificationsDone, Complete
  <2>2. fromServerFinal => ret = 0
    <3>1. phase = "mods" /\ pc = "source"
      BY <1>21 DEF ModificationsDone, TypeInv, LoopBounds
    <3> QED
      BY <3>1 DEF FinalInLoop
  <2>3. /\ pc = "source" /\ pc' \in {"send", "finally"}
        /\ UNCHANGED <<trouble, reply, good, active, committed>>
        /\ pc' = "finally" => active = {} \/ (ret' = ret /\ (fromServerFinal \/ ~good))
    BY <1>21 DEF ModificationsDone
  <2> QED
    BY <2>1, <2>2, <2>3
<1>22. CASE Finally
  BY <1>22 DEF Finally
<1>23. CASE EndSync
  BY <1>23 DEF EndSync, LastMessage
<1>24. CASE EndSources
  BY <1>24 DEF EndSources
<1>25. CASE UNCHANGED vars
  BY <1>25 DEF vars
<1>26. CASE CrashInClose
  BY <1>26 DEF CrashInClose
<1> QED
  BY <1>1, <1>2, <1>3, <1>4, <1>5, <1>6, <1>7, <1>8, <1>9, <1>10, <1>11,
     <1>12, <1>13, <1>14, <1>15, <1>16, <1>17, <1>18, <1>19, <1>20, <1>21,
     <1>22, <1>23, <1>24, <1>25, <1>26
     DEF Next, Step

(* The tag that is owed goes with the alert, unless a source was skipped.  *)
LEMMA FinalAfterLoopStep ==
    ASSUME TypeInv, Counted, FinalInLoop, Complete, FinalAfterLoop,
           [Next]_vars
    PROVE  FinalAfterLoop'
<1> USE DEF FinalAfterLoop, InLoop, Over, control, outgoing, history
<1>t. /\ (pc \in {"source", "build"} => phase = "mods")
      /\ phase \in {"mods", "alert", "status", "end"} /\ ret \in {0, 1} /\ last \in BOOLEAN
      /\ (pc = "endSync" => ret = 0)
  BY DEF TypeInv, TypeOK, LoopBounds, PositionTypes, FlagTypes, Phases
<1>f. InLoop => FinalInLoop
  OBVIOUS
<1> USE <1>t
<1>1. CASE NewSession
  BY <1>1 DEF NewSession, Begin
<1>2. CASE UserAborts
  BY <1>2 DEF UserAborts
<1>3. CASE Crash
  BY <1>3 DEF Crash
<1>4. CASE SkipSource
  BY <1>4 DEF SkipSource
<1>5. CASE BeginSyncFails
  BY <1>5 DEF BeginSyncFails, SourceError, LastOfNewSource
<1>6. CASE BeginSync
  BY <1>6 DEF BeginSync, LastOfNewSource
<1>7. CASE AssertionFails
  BY <1>7 DEF AssertionFails
<1>8. CASE BuildModifications
  BY <1>8 DEF BuildModifications, StoredMappingsFirst
<1>9. CASE AbortWhileBuilding
  BY <1>9 DEF AbortWhileBuilding, Fails, ToAbort
<1>10. CASE AbortBeforeSend
  BY <1>10 DEF AbortBeforeSend, Fails, ToAbort
<1>11. CASE Exchange
  <2>1. pc = "send" /\ pc' = "replied" /\ UNCHANGED <<phase, msg, abort, active, skipped>>
    BY <1>11 DEF Exchange
  <2>2. finals' = IF phase \in {"mods", "alert"} /\ msg.final THEN finals + 1 ELSE finals
    BY <1>11 DEF Exchange
  <2>3. phase = "mods" => finals = 0
    BY <2>1 DEF FinalInLoop
  <2> QED
    BY <2>1, <2>2, <2>3
<1>12. CASE NoAnswer
  BY <1>12 DEF NoAnswer, Fails, ToAbort
<1>13. CASE BadAnswer
  BY <1>13 DEF BadAnswer, Answered, Fails, HeaderGood
<1>14. CASE SyncRefused
  BY <1>14 DEF SyncRefused, Answered, SourceError, RetCleared, HeaderGood
<1>15. CASE ModificationsAnswered
  BY <1>15 DEF ModificationsAnswered, Answered, RetCleared, HeaderGood
<1>16. CASE AbortAfterStatuses
  BY <1>16 DEF AbortAfterStatuses, Fails, ToAbort
<1>17. CASE ServerPackageAnswered
  BY <1>17 DEF ServerPackageAnswered, Answered, RetCleared, HeaderGood
<1>18. CASE EndAnswered
  BY <1>18 DEF EndAnswered, Answered, RetCleared, HeaderGood
<1>19. CASE ServerChangesAborted
  BY <1>19 DEF ServerChangesAborted, ToAbort
<1>20. CASE ServerChanges
  <2>1. /\ pc = "changes" /\ UNCHANGED <<finals, abort, ret>> /\ active' \subseteq active
        /\ phase # "mods" => skipped' = skipped
        /\ phase = "mods" => phase' = "mods" /\ pc' \in {"source", "build"}
        /\ phase # "mods" => \/ pc' = "finally" /\ phase' = phase
                             \/ pc' = "send" /\ phase' = "status"
    BY <1>20 DEF ServerChanges
  <2>2. phase # "end"
    BY <2>1 DEF Complete
  <2> QED
    BY <2>1, <2>2
<1>21. CASE ModificationsDone
  <2>1. phase = "mods" /\ pc = "source" /\ UNCHANGED <<finals, abort, active, skipped>>
    BY <1>21 DEF ModificationsDone
  <2>2. /\ finals = IF iterator = toSync /\ last THEN 1 ELSE 0
        /\ fromServerFinal => finals = 1
    BY <2>1 DEF FinalInLoop
  <2>3. skipped = {} => iterator = toSync
    <3>1. \A s \in Sources : ~(s >= count)
      BY <1>21, NumSourcesAssumption
         DEF ModificationsDone, MoreSources, Sources, TypeInv, TypeOK, PositionTypes
    <3>2. Ahead = {}
      BY <3>1 DEF Ahead, TypeInv, TypeOK, FlagTypes
    <3>3. Cardinality(Ahead) = 0
      BY <3>2, FS_EmptySet
    <3> QED
      BY <2>1, <3>3 DEF Counted, TypeInv, TypeOK, PositionTypes, FlagTypes, Sources
  <2>4. active # {} => good
    <3>1. \A s \in Sources : s < count
      BY <1>21, NumSourcesAssumption DEF ModificationsDone, MoreSources, Sources, TypeInv, TypeOK, PositionTypes
    <3>2. active = Before
      BY <3>1 DEF Before, TypeInv, TypeOK, FlagTypes
    <3> QED
      BY <2>1, <3>2 DEF Complete
  <2>5. CASE active = {}
    BY <1>21, <2>1, <2>2, <2>5 DEF ModificationsDone
  <2>6. CASE active # {} /\ fromServerFinal
    BY <1>21, <2>1, <2>2, <2>6 DEF ModificationsDone
  <2>7. CASE active # {} /\ ~fromServerFinal
    <3>1. pc' = "send" /\ phase' = "alert" /\ msg'.final = ~last
      BY <1>21, <2>4, <2>7 DEF ModificationsDone, SendFinalAfterClientMods
    <3> QED
      BY <2>1, <2>2, <2>3, <3>1
  <2> QED
    BY <2>5, <2>6, <2>7
<1>22. CASE Finally
  BY <1>22 DEF Finally
<1>23. CASE EndSync
  BY <1>23 DEF EndSync, LastMessage
<1>24. CASE EndSources
  BY <1>24 DEF EndSources
<1>25. CASE UNCHANGED vars
  BY <1>25 DEF vars
<1>26. CASE CrashInClose
  BY <1>26 DEF CrashInClose
<1> QED
  BY <1>1, <1>2, <1>3, <1>4, <1>5, <1>6, <1>7, <1>8, <1>9, <1>10, <1>11,
     <1>12, <1>13, <1>14, <1>15, <1>16, <1>17, <1>18, <1>19, <1>20, <1>21,
     <1>22, <1>23, <1>24, <1>25, <1>26
     DEF Next, Step

(* No two messages carry the final tag, whatever fails. *)
LEMMA NotTwiceStep ==
    ASSUME TypeInv, FinalInLoop, NotTwice, [Next]_vars
    PROVE  NotTwice'
<1> USE DEF NotTwice, Over, control, outgoing, history
<1>t. /\ (pc \in {"source", "build"} => phase = "mods")
      /\ last \in BOOLEAN
  BY DEF TypeInv, TypeOK, LoopBounds, FlagTypes
<1> USE <1>t
<1>1. CASE NewSession
  BY <1>1 DEF NewSession, Begin
<1>2. CASE UserAborts
  BY <1>2 DEF UserAborts
<1>3. CASE Crash
  BY <1>3 DEF Crash
<1>4. CASE SkipSource
  BY <1>4 DEF SkipSource
<1>5. CASE BeginSyncFails
  BY <1>5 DEF BeginSyncFails, SourceError, LastOfNewSource
<1>6. CASE BeginSync
  BY <1>6 DEF BeginSync, LastOfNewSource
<1>7. CASE AssertionFails
  BY <1>7 DEF AssertionFails
<1>8. CASE BuildModifications
  BY <1>8 DEF BuildModifications, StoredMappingsFirst
<1>9. CASE AbortWhileBuilding
  BY <1>9 DEF AbortWhileBuilding, Fails, ToAbort
<1>10. CASE AbortBeforeSend
  BY <1>10 DEF AbortBeforeSend, Fails, ToAbort
<1>11. CASE Exchange
  <2>1. pc = "send" /\ pc' = "replied" /\ UNCHANGED <<phase, msg>>
    BY <1>11 DEF Exchange
  <2>2. finals' = IF phase \in {"mods", "alert"} /\ msg.final THEN finals + 1 ELSE finals
    BY <1>11 DEF Exchange
  <2>3. phase = "mods" => finals = 0
    BY <2>1 DEF FinalInLoop, InLoop
  <2> QED
    BY <2>1, <2>2, <2>3
<1>12. CASE NoAnswer
  BY <1>12 DEF NoAnswer, Fails, ToAbort
<1>13. CASE BadAnswer
  BY <1>13 DEF BadAnswer, Answered, Fails, HeaderGood
<1>14. CASE SyncRefused
  BY <1>14 DEF SyncRefused, Answered, SourceError, RetCleared, HeaderGood
<1>15. CASE ModificationsAnswered
  BY <1>15 DEF ModificationsAnswered, Answered, RetCleared, HeaderGood
<1>16. CASE AbortAfterStatuses
  BY <1>16 DEF AbortAfterStatuses, Fails, ToAbort
<1>17. CASE ServerPackageAnswered
  BY <1>17 DEF ServerPackageAnswered, Answered, RetCleared, HeaderGood
<1>18. CASE EndAnswered
  BY <1>18 DEF EndAnswered, Answered, RetCleared, HeaderGood
<1>19. CASE ServerChangesAborted
  BY <1>19 DEF ServerChangesAborted, ToAbort
<1>20. CASE ServerChanges
  BY <1>20 DEF ServerChanges
<1>21. CASE ModificationsDone
  <2>1. phase = "mods" /\ pc = "source" /\ UNCHANGED finals
    BY <1>21 DEF ModificationsDone
  <2>2. finals = IF iterator = toSync /\ last THEN 1 ELSE 0
    BY <2>1 DEF FinalInLoop, InLoop
  <2>3. phase' = "alert" => msg'.final = ~last
    BY <1>21, <2>1 DEF ModificationsDone, SendFinalAfterClientMods
  <2> QED
    BY <2>1, <2>2, <2>3
<1>22. CASE Finally
  BY <1>22 DEF Finally
<1>23. CASE EndSync
  BY <1>23 DEF EndSync, LastMessage
<1>24. CASE EndSources
  BY <1>24 DEF EndSources
<1>25. CASE UNCHANGED vars
  BY <1>25 DEF vars
<1>26. CASE CrashInClose
  BY <1>26 DEF CrashInClose
<1> QED
  BY <1>1, <1>2, <1>3, <1>4, <1>5, <1>6, <1>7, <1>8, <1>9, <1>10, <1>11,
     <1>12, <1>13, <1>14, <1>15, <1>16, <1>17, <1>18, <1>19, <1>20, <1>21,
     <1>22, <1>23, <1>24, <1>25, <1>26
     DEF Next, Step

LEMMA ErrorInit == Init => ErrorKept
BY DEF Init, ErrorKept

(* No error is forgotten but that of a source that fails by itself. *)
LEMMA ErrorStep ==
    ASSUME TypeInv, ErrorKept, [Next]_vars
    PROVE  ErrorKept'
<1> USE DEF ErrorKept, Over, control, outgoing, history
<1>t. lastError \in BOOLEAN /\ ret \in {0, 1}
  BY DEF TypeInv, TypeOK, PositionTypes, FlagTypes
<1> USE <1>t
<1>1. CASE NewSession
  <2>1. /\ pc' = "source" /\ trouble' = FALSE /\ endFailed' = {} /\ silent' = {}
        /\ lastError' = (active' # Sources)
    BY <1>1 DEF NewSession, Begin
  <2> QED
    BY <2>1
<1>2. CASE UserAborts
  BY <1>2 DEF UserAborts
<1>3. CASE Crash
  BY <1>3 DEF Crash
<1>4. CASE SkipSource
  BY <1>4 DEF SkipSource
<1>5. CASE BeginSyncFails
  BY <1>5 DEF BeginSyncFails, SourceError, LastOfNewSource
<1>6. CASE BeginSync
  BY <1>6 DEF BeginSync, LastOfNewSource
<1>7. CASE AssertionFails
  BY <1>7 DEF AssertionFails
<1>8. CASE BuildModifications
  BY <1>8 DEF BuildModifications, StoredMappingsFirst
<1>9. CASE AbortWhileBuilding
  BY <1>9 DEF AbortWhileBuilding, Fails, ToAbort
<1>10. CASE AbortBeforeSend
  BY <1>10 DEF AbortBeforeSend, Fails, ToAbort
<1>11. CASE Exchange
  <2>1. /\ pc = "send" /\ pc' = "replied"
        /\ UNCHANGED <<committed, abort, active, silent, lastError, endFailed>>
    BY <1>11 DEF Exchange
  <2>2. \/ reply'.kind \in {"none", "garbled", "headerError"} /\ trouble' = TRUE
        \/ reply'.kind = "ok" /\ trouble' = trouble
    <3>1. CASE /\ reply' \in [kind : {"none", "garbled", "headerError"},
                            final : {FALSE}, itemError : {FALSE}]
               /\ trouble' = TRUE
      BY <3>1
    <3>2. CASE /\ reply' \in [kind : {"ok"}, final : BOOLEAN, itemError : BOOLEAN]
               /\ UNCHANGED trouble
      BY <3>2
    <3> QED
      BY <1>11, <3>1, <3>2 DEF Exchange
  <2> QED
    BY <2>1, <2>2
<1>12. CASE NoAnswer
  BY <1>12 DEF NoAnswer, Fails, ToAbort
<1>13. CASE BadAnswer
  BY <1>13 DEF BadAnswer, Answered, Fails, HeaderGood
<1>14. CASE SyncRefused
  BY <1>14 DEF SyncRefused, Answered, SourceError, RetCleared, HeaderGood
<1>15. CASE ModificationsAnswered
  BY <1>15 DEF ModificationsAnswered, Answered, RetCleared, HeaderGood
<1>16. CASE AbortAfterStatuses
  BY <1>16 DEF AbortAfterStatuses, Fails, ToAbort
<1>17. CASE ServerPackageAnswered
  BY <1>17 DEF ServerPackageAnswered, Answered, RetCleared, HeaderGood
<1>18. CASE EndAnswered
  BY <1>18 DEF EndAnswered, Answered, RetCleared, HeaderGood
<1>19. CASE ServerChangesAborted
  BY <1>19 DEF ServerChangesAborted, ToAbort
<1>20. CASE ServerChanges
  BY <1>20 DEF ServerChanges
<1>21. CASE ModificationsDone
  BY <1>21 DEF ModificationsDone, MoreSources, SendFinalAfterClientMods
<1>22. CASE Finally
  BY <1>22 DEF Finally
<1>23. CASE EndSync
  BY <1>23 DEF EndSync, LastMessage
<1>24. CASE EndSources
  <2>1. /\ pc = "endSources" /\ pc' = "done" /\ UNCHANGED <<active, silent, trouble>>
        /\ (lastError' <=> lastError \/ endFailed' # {})
        /\ (lastError' => ret' = 1)
    BY <1>24 DEF EndSources
  <2> QED
    BY <2>1
<1>25. CASE UNCHANGED vars
  BY <1>25 DEF vars
<1>26. CASE CrashInClose
  BY <1>26 DEF CrashInClose
<1> QED
  BY <1>1, <1>2, <1>3, <1>4, <1>5, <1>6, <1>7, <1>8, <1>9, <1>10, <1>11,
     <1>12, <1>13, <1>14, <1>15, <1>16, <1>17, <1>18, <1>19, <1>20, <1>21,
     <1>22, <1>23, <1>24, <1>25, <1>26
     DEF Next, Step

LEMMA LeftInit == Init => LeftOver
BY DEF Init, LeftOver, LeftBehind

(* An item left over goes to its own source, or that source is in error.   *)
LEMMA LeftOverStep ==
    ASSUME TypeInv, LeftOver, [Next]_vars
    PROVE  LeftOver'
<1> USE DEF LeftOver, LeftBehind, NoSource, Over, control, outgoing, history
<1>t. /\ (pc \in {"source", "build"} => phase = "mods")
      /\ count \in Nat /\ pending \in Sources \cup {NoSource} /\ Sources \subseteq Nat
      /\ last \in BOOLEAN /\ rounds \in Nat /\ phase \in Phases
  BY NumSourcesAssumption, MaxMessagesAssumption
     DEF TypeInv, TypeOK, LoopBounds, PositionTypes, FlagTypes, Sources
<1>n. pending \in Nat
  BY <1>t
<1> USE <1>t, <1>n
<1>1. CASE NewSession
  BY <1>1 DEF NewSession, Begin
<1>2. CASE UserAborts
  BY <1>2 DEF UserAborts
<1>3. CASE Crash
  BY <1>3 DEF Crash
<1>4. CASE SkipSource
  BY <1>4 DEF SkipSource
<1>5. CASE BeginSyncFails
  BY <1>5 DEF BeginSyncFails, SourceError, LastOfNewSource
<1>6. CASE BeginSync
  BY <1>6 DEF BeginSync, LastOfNewSource
<1>7. CASE AssertionFails
  BY <1>7 DEF AssertionFails
<1>8. CASE BuildModifications
  <2>1. /\ pc = "build" /\ pc' = "send" /\ phase' = "mods" /\ rounds' = rounds + 1
        /\ UNCHANGED <<count, active, mode>>
        /\ \/ mode[count] \in SendsNothing /\ pending' = pending
           \/ mode[count] \notin SendsNothing /\ last' = TRUE /\ pending' = NoSource
           \/ mode[count] \notin SendsNothing /\ last' = FALSE /\ pending' \in {NoSource, count, pending}
    BY <1>8 DEF BuildModifications
  <2> QED
    BY <2>1
<1>9. CASE AbortWhileBuilding
  BY <1>9 DEF AbortWhileBuilding, Fails, ToAbort
<1>10. CASE AbortBeforeSend
  BY <1>10 DEF AbortBeforeSend, Fails, ToAbort
<1>11. CASE Exchange
  BY <1>11 DEF Exchange
<1>12. CASE NoAnswer
  BY <1>12 DEF NoAnswer, Fails, ToAbort
<1>13. CASE BadAnswer
  BY <1>13 DEF BadAnswer, Answered, Fails, HeaderGood
<1>14. CASE SyncRefused
  BY <1>14 DEF SyncRefused, Answered, SourceError, RetCleared, HeaderGood
<1>15. CASE ModificationsAnswered
  BY <1>15 DEF ModificationsAnswered, Answered, RetCleared, HeaderGood
<1>16. CASE AbortAfterStatuses
  BY <1>16 DEF AbortAfterStatuses, Fails, ToAbort
<1>17. CASE ServerPackageAnswered
  BY <1>17 DEF ServerPackageAnswered, Answered, RetCleared, HeaderGood
<1>18. CASE EndAnswered
  BY <1>18 DEF EndAnswered, Answered, RetCleared, HeaderGood
<1>19. CASE ServerChangesAborted
  BY <1>19 DEF ServerChangesAborted, ToAbort
<1>20. CASE ServerChanges
  <2>1. /\ pc = "changes" /\ active' \subseteq active
        /\ UNCHANGED <<pending, mode, last, rounds>>
        /\ phase = "mods" => /\ phase' = phase
                             /\ \/ last /\ pc' = "source" /\ count' = count + 1
                                \/ ~last /\ pc' = "build" /\ count' = count
        /\ phase # "mods" => /\ count' = count
                             /\ \/ pc' = "finally" /\ phase' = phase
                                \/ pc' = "send" /\ phase' = "status"
    BY <1>20 DEF ServerChanges
  <2> QED
    BY <2>1
<1>21. CASE ModificationsDone
  BY <1>21 DEF ModificationsDone
<1>22. CASE Finally
  BY <1>22 DEF Finally
<1>23. CASE EndSync
  BY <1>23 DEF EndSync
<1>24. CASE EndSources
  BY <1>24 DEF EndSources
<1>25. CASE UNCHANGED vars
  BY <1>25 DEF vars
<1>26. CASE CrashInClose
  BY <1>26 DEF CrashInClose
<1> QED
  BY <1>1, <1>2, <1>3, <1>4, <1>5, <1>6, <1>7, <1>8, <1>9, <1>10, <1>11,
     <1>12, <1>13, <1>14, <1>15, <1>16, <1>17, <1>18, <1>19, <1>20, <1>21,
     <1>22, <1>23, <1>24, <1>25, <1>26
     DEF Next, Step
-----------------------------------------------------------------------------
RunInv == IInv /\ Counted /\ FinalInLoop /\ Complete /\ Noted
          /\ NotTwice /\ FinalAfterLoop /\ LeftOver /\ ErrorKept

LEMMA RunInductive == Spec => []RunInv
<1>1. Init => RunInv
  BY TypeInit, SentInit, CountedInit, FinalInit, CompleteInit, NotedInit, LeftInit, ErrorInit
     DEF RunInv, IInv, NotTwice, Init
<1>2. RunInv /\ [Next]_vars => RunInv'
  <2> SUFFICES ASSUME RunInv, [Next]_vars
               PROVE  RunInv'
    OBVIOUS
  <2>1. IInv'
    BY TypeStep, SentStep, AnchorsStep DEF RunInv, IInv
  <2>2. Counted' /\ FinalInLoop' /\ Complete' /\ Noted' /\ NotTwice'
    BY CountedStep, FinalInLoopStep, CompleteStep, NotedStep, NotTwiceStep DEF RunInv, IInv
  <2>3. FinalAfterLoop' /\ LeftOver' /\ ErrorKept'
    BY FinalAfterLoopStep, LeftOverStep, ErrorStep DEF RunInv, IInv
  <2> QED
    BY <2>1, <2>2, <2>3 DEF RunInv
<1> QED
  BY <1>1, <1>2, PTL DEF Spec

(* Without an abort, endSync() commits an anchor only for a source whose   *)
(* modifications were all sent in messages that were answered well, for    *)
(* any number of sources, of which any may fail by itself at any time.     *)
THEOREM AnchorsAreComplete == Spec => []AnchorsMeanComplete
<1>1. RunInv => AnchorsMeanComplete
  BY DEF RunInv, Complete, Noted, AnchorsMeanComplete
<1> QED
  BY <1>1, RunInductive, PTL

(* As long as the messages go well and nobody aborts, a session that ends  *)
(* commits all the sources that are left, however many failed before and   *)
(* between them; and one that meets the assertion on syncItem instead has  *)
(* a refused source before the one at hand to thank for it (the `continue`s*)
(* and `break`s of sync()).                                                *)
THEOREM FailuresAreIsolated == Spec => []FailureIsolated
<1>1. RunInv => FailureIsolated
  <2> SUFFICES ASSUME RunInv PROVE FailureIsolated
    OBVIOUS
  <2>1. pc = "done" /\ ~trouble /\ ~abort => committed = active
    BY DEF RunInv, Noted
  <2>2. pending \in Sources \cup {NoSource}
    BY DEF RunInv, IInv, TypeInv, TypeOK, FlagTypes
  <2>3. pc = "assertFailed" => pending < count /\ pending \in Sources \ active
    BY <2>2 DEF RunInv, LeftOver, LeftBehind
  <2> QED
    BY <2>1, <2>3 DEF FailureIsolated
<1> QED
  BY <1>1, RunInductive, PTL

(* The client's package is never closed twice, and it is closed once when  *)
(* the server's is asked for, unless a source put itself in error before   *)
(* its turn, behind the back of the count in `iterator` and `toSync`       *)
(* (sync(), what `last` and isFinalfromServer decide).                     *)
THEOREM FinalIsSentOnce == Spec => []FinalSentOnce
<1>1. RunInv => FinalSentOnce
  BY DEF RunInv, NotTwice, FinalAfterLoop, FinalSentOnce
<1> QED
  BY <1>1, RunInductive, PTL

(* SyncClient::sync() returns 0 only when every source went through, but   *)
(* those that put themselves in error, which sets no error code of the     *)
(* session.                                                                *)
THEOREM SuccessIsTrue == Spec => []SuccessMeansAll
<1>1. RunInv => SuccessMeansAll
  BY DEF RunInv, ErrorKept, SuccessMeansAll
<1> QED
  BY <1>1, RunInductive, PTL
=============================================================================
