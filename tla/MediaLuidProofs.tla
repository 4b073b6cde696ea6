--------------------------- MODULE MediaLuidProofs ---------------------------
(***************************************************************************)
(* Proofs about MediaLuid for any paths, accounts and bounds: types, that  *)
(* no LUID is given to two files, that the status of an item finds its     *)
(* path, that what is not sent is on the server, and why a file gets a new *)
(* LUID, whatever crashes and losses come between the files of a source.   *)
(***************************************************************************)
EXTENDS MediaLuid, TLAPS

(* The values of the files of the cache. *)
StoreType ==
    /\ DOMAIN node = Keys /\ DOMAIN journal = Keys
    /\ node[AccountKey] \in Accounts \cup {None}
    /\ journal[AccountKey] \in Accounts \cup {NotInJournal}

Running == {"idle", "props", "close", "refresh", "begun", "sending", "allocated",
            "sent", "status"}

ControlType ==
    /\ pc \in Running \cup {"down"} /\ after \in {"idle", "begun", "sending"}
    /\ time \in Times
    /\ pc = "allocated" => nextLUID < MaxLuid
    /\ pc \in {"allocated", "sent", "status"} => item.path \in Paths /\ item.luid \in Luids

TypeInv == TypeOK /\ StoreType /\ ControlType

(* The next LUID is the one of the configuration as long as the program    *)
(* runs, and above every LUID of the map but the one being given.          *)
NextIsRead == pc # "down" => nextLUID = ReadLUID

NextIsAbove ==
    /\ pc \notin {"down", "allocated"} => \A p \in Paths : luidMap[p] < nextLUID
    /\ pc = "allocated" => \A p \in Paths : luidMap[p] <= nextLUID

(* A LUID that the configuration does not count yet is in the map.         *)
GivenCounted ==
    ~lostConfig =>
        \A g \in given :
            \/ g[1] < ReadLUID
            \/ pc \in {"down", "allocated"} /\ luidMap[g[2]] = g[1]

(* The item on its way is in the map. *)
ItemInMap ==
    pc \in {"allocated", "sent", "status"} =>
        luidMap[item.path] = item.luid

IInv == TypeInv /\ NextIsRead /\ NextIsAbove /\ GivenCounted /\ ItemInMap /\ LuidsUnique

-----------------------------------------------------------------------------
(* Types. *)
LEMMA KeyFacts ==
    /\ Paths \subseteq Keys /\ AccountKey \in Keys /\ AccountKey \notin Paths
    /\ \A k \in Keys : k \in Paths \/ k = AccountKey
  BY AccountKeyAssumption DEF Keys

LEMMA ClearType ==
    ASSUME TypeInv, Clear
    PROVE  /\ DOMAIN cache' = Keys /\ DOMAIN node' = Keys /\ journal' = journal
           /\ \A k \in Keys : cache'[k] = None /\ node'[k] = None
           /\ forgotten' \subseteq Paths
<1>1. KnownPaths \subseteq Paths
  BY DEF KnownPaths, TypeInv, TypeOK
<1> QED
  BY <1>1 DEF Clear, Empty, TypeInv, TypeOK

LEMMA TypeInit == Init => TypeInv
<1> SUFFICES ASSUME Init PROVE TypeInv
  OBVIOUS
<1>1. 0 \in Times /\ 0 \in Luids /\ 0 \in Accounts
  BY BoundsAssumption, NumAccountsAssumption DEF Times, Luids, Accounts
<1>2. TypeOK
  BY <1>1, KeyFacts DEF Init, TypeOK, Empty, NoItem, Luids
<1>3. StoreType
  BY KeyFacts DEF Init, StoreType, Empty
<1>4. ControlType
  BY <1>1 DEF Init, ControlType, Running
<1> QED
  BY <1>2, <1>3, <1>4 DEF TypeInv

LEMMA TypeNext == TypeInv /\ [Next]_vars => TypeInv'
<1> SUFFICES ASSUME TypeInv, [Next]_vars PROVE TypeInv'
  OBVIOUS
<1> USE DEF TypeInv, store, luids, history
<1>1. CASE Construct
  <2>1. /\ \A p \in Paths : cache'[p] \in Times \cup {None, NoSignature, NullText}
        /\ cache'[AccountKey] \in Accounts \cup {None} /\ DOMAIN cache' = Keys
    BY <1>1, KeyFacts DEF Construct, Reload, TypeOK, StoreType
  <2>2. nextLUID' \in Luids /\ savedLUID' \in Luids \cup {None}
    BY <1>1 DEF Construct, TypeOK, Luids
  <2>3. TypeOK'
    BY <1>1, <2>1, <2>2, Zenon DEF Construct, TypeOK
  <2> QED
    BY <1>1, <2>3 DEF Construct, StoreType, ControlType, Running
<1>2. CASE SetAccount
  <2>1. account \in Accounts
    BY DEF TypeOK
  <2>2. /\ DOMAIN cache' = Keys /\ DOMAIN journal' = Keys
        /\ cache'[AccountKey] = account /\ journal'[AccountKey] = account
        /\ \A p \in Paths : cache'[p] = cache[p] /\ journal'[p] = journal[p]
    BY <1>2, KeyFacts DEF SetAccount, TypeOK, StoreType
  <2>3. TypeOK'
    BY <1>2, <2>1, <2>2 DEF SetAccount, TypeOK
  <2> QED
    BY <1>2, <2>1, <2>2, <2>3 DEF SetAccount, StoreType, ControlType, Running
<1>3. CASE CloseCache
  <2>1. /\ DOMAIN node' = Keys /\ DOMAIN journal' = Keys
        /\ \A k \in Keys : node'[k] = Written(cache[k]) /\ journal'[k] = NotInJournal
    BY <1>3 DEF CloseCache
  <2>2. \A a \in Accounts \cup {None} : Written(a) = a
    BY DEF Written, Accounts, NoSignature, None
  <2>3. /\ node'[AccountKey] \in Accounts \cup {None}
        /\ \A p \in Paths : node'[p] \in Times \cup {None, NullText}
    BY <2>1, <2>2, KeyFacts DEF TypeOK, Written
  <2>4. TypeOK'
    BY <1>3, <2>1, <2>3, KeyFacts DEF CloseCache, TypeOK
  <2> QED
    BY <1>3, <2>1, <2>3, <2>4, KeyFacts DEF CloseCache, StoreType, ControlType, Running
<1>4. CASE RefreshLUIDMap
  <2>1. luidMap' \in [Paths -> Luids \cup {None}] /\ mapJournal' \subseteq Paths
    BY <1>4 DEF RefreshLUIDMap, ToForget, TypeOK
  <2>2. TypeOK'
    BY <1>4, <2>1 DEF RefreshLUIDMap, TypeOK
  <2> QED
    BY <1>4, <2>2 DEF RefreshLUIDMap, StoreType, ControlType, Running
<1>5. CASE BeginSync
  <2>1. mode' \in Modes /\ pc' = "props" /\ after' = "begun"
        /\ UNCHANGED <<files, luids, nextLUID, savedLUID, account, toSend, item, known,
                       given, lostConfig, time, trouble>>
    BY <1>5 DEF BeginSync
  <2>2. CASE UNCHANGED <<store, forgotten>>
    <3>1. TypeOK'
      BY <2>1, <2>2 DEF TypeOK
    <3> QED
      BY <2>1, <2>2, <3>1 DEF StoreType, ControlType, Running
  <2>3. CASE Clear
    <3>1. TypeOK'
      BY <2>1, <2>3, ClearType, KeyFacts DEF TypeOK
    <3>2. StoreType'
      BY <2>3, ClearType, KeyFacts DEF StoreType
    <3> QED
      BY <2>1, <3>1, <3>2 DEF ControlType, Running
  <2> QED
    BY <1>5, <2>2, <2>3 DEF BeginSync
<1>6. CASE ScanAll
  <2>1. toSend' \in [Paths -> Commands \cup {"none"}]
    BY <1>6 DEF ScanAll, Commands
  <2>2. TypeOK'
    BY <1>6, <2>1, ClearType, KeyFacts DEF ScanAll, TypeOK
  <2>3. StoreType'
    BY <1>6, ClearType, KeyFacts DEF ScanAll, StoreType
  <2> QED
    BY <1>6, <2>2, <2>3 DEF ScanAll, ControlType, Running
<1>7. CASE ScanChanges
  <2>1. toSend' \in [Paths -> Commands \cup {"none"}]
    BY <1>7 DEF ScanChanges, Commands
  <2>2. TypeOK'
    BY <1>7, <2>1 DEF ScanChanges, TypeOK
  <2> QED
    BY <1>7, <2>2 DEF ScanChanges, StoreType, ControlType, Running
<1>8. ASSUME NEW p \in Paths, NEW l \in Luids, toSend[p] # "none", Sent(p, l)
      PROVE  /\ item' \in [path : Keys, luid : Luids \cup {None}, cmd : Commands \cup {"none"}]
             /\ toSend' \in [Paths -> Commands \cup {"none"}]
             /\ item'.path = p /\ item'.luid = l
  BY <1>8, KeyFacts DEF Sent, TypeOK
<1>9. CASE \E p \in Paths : SendKnown(p)
  <2>1. PICK p \in Paths : SendKnown(p)
    BY <1>9
  <2>2. luidMap[p] \in Luids
    BY <2>1 DEF SendKnown, LUIDFromPath, TypeOK
  <2>3. TypeOK'
    BY <1>8, <2>1, <2>2 DEF SendKnown, TypeOK
  <2>4. item'.path \in Paths /\ item'.luid \in Luids
    BY <1>8, <2>1, <2>2 DEF SendKnown
  <2> QED
    BY <2>1, <2>3, <2>4 DEF SendKnown, StoreType, ControlType, Running
<1>10. CASE \E p \in Paths : SendNew(p)
  <2>1. PICK p \in Paths : SendNew(p)
    BY <1>10
  <2>2. nextLUID \in Luids
    BY DEF TypeOK
  <2>3. /\ luidMap' \in [Paths -> Luids \cup {None}] /\ mapJournal' \subseteq Paths
        /\ given' \subseteq Luids \X Paths
    BY <2>1, <2>2 DEF SendNew, MapWithNext, TypeOK
  <2>4. TypeOK'
    BY <1>8, <2>1, <2>2, <2>3 DEF SendNew, TypeOK
  <2>5. item'.path \in Paths /\ item'.luid \in Luids
    BY <1>8, <2>1, <2>2 DEF SendNew
  <2> QED
    BY <2>1, <2>4, <2>5 DEF SendNew, StoreType, ControlType, Running
<1>11. CASE SaveNextLUID
  <2>1. nextLUID + 1 \in Luids
    BY <1>11, BoundsAssumption DEF SaveNextLUID, TypeOK, ControlType, Luids
  <2>2. TypeOK'
    BY <1>11, <2>1 DEF SaveNextLUID, TypeOK
  <2> QED
    BY <1>11, <2>2 DEF SaveNextLUID, StoreType, ControlType, Running
<1>12. CASE ServerAccepts
  <2>1. PICK p \in Paths, l \in Luids : item.path = p /\ item.luid = l
    BY <1>12 DEF ServerAccepts, ControlType
  <2>2. TypeOK'
    BY <1>12, <2>1 DEF ServerAccepts, TypeOK
  <2> QED
    BY <1>12, <2>2 DEF ServerAccepts, StoreType, ControlType, Running
<1>13. NoItem \in [path : Keys, luid : Luids \cup {None}, cmd : Commands \cup {"none"}]
  BY KeyFacts DEF NoItem
<1>14. CASE ServerRefuses
  <2>1. TypeOK'
    BY <1>13, <1>14 DEF ServerRefuses, TypeOK
  <2> QED
    BY <1>14, <2>1 DEF ServerRefuses, StoreType, ControlType, Running
<1>15. CASE SetItemStatus
  <2>1. /\ \A p \in Paths : cache'[p] \in Times \cup {None, NoSignature, NullText}
        /\ \A p \in Paths : journal'[p] \in Times \cup {None, NullText, NotInJournal}
        /\ cache'[AccountKey] = cache[AccountKey] /\ DOMAIN cache' = Keys
        /\ journal'[AccountKey] = journal[AccountKey] /\ DOMAIN journal' = Keys
        /\ forgotten' \subseteq Paths /\ node' = node
    <3>1. CASE PathsFromLUID(item.luid) = {} /\ UNCHANGED <<store, forgotten>>
      BY <3>1 DEF TypeOK, StoreType
    <3>2. CASE \E p \in PathsFromLUID(item.luid) : Status(p)
      <4>1. PICK p \in Paths : Status(p)
        BY <3>2 DEF PathsFromLUID
      <4>2. p # AccountKey /\ files[p] \in Times \cup {None}
        BY KeyFacts DEF TypeOK
      <4> DEFINE v == IF item.cmd = "Delete" THEN None ELSE Signature(files[p])
      <4>3. /\ cache' = [cache EXCEPT ![p] = v]
            /\ journal' = [journal EXCEPT ![p] = Written(v)]
            /\ forgotten' = forgotten \/ forgotten' = forgotten \ {p}
            /\ node' = node
        BY <4>1 DEF Status
      <4>4. /\ v \in Times \cup {None, NoSignature, NullText}
            /\ Written(v) \in Times \cup {None, NullText, NotInJournal}
        BY <4>2 DEF Signature, Written, NoSignature, None
      <4> HIDE DEF v
      <4> QED
        BY <4>2, <4>3, <4>4 DEF TypeOK, StoreType
    <3> QED
      BY <1>15, <3>1, <3>2 DEF SetItemStatus
  <2>2. TypeOK'
    BY <1>13, <1>15, <2>1 DEF SetItemStatus, TypeOK
  <2> QED
    BY <1>15, <2>1, <2>2 DEF SetItemStatus, StoreType, ControlType, Running
<1>16. [p \in Paths |-> "none"] \in [Paths -> Commands \cup {"none"}]
  OBVIOUS
<1>17. CASE EndSync
  <2>1. TypeOK'
    BY <1>13, <1>16, <1>17 DEF EndSync, TypeOK
  <2> QED
    BY <1>17, <2>1 DEF EndSync, StoreType, ControlType, Running
<1>18. CASE SaveLUIDMap
  <2>1. TypeOK'
    BY <1>18 DEF SaveLUIDMap, TypeOK
  <2> QED
    BY <1>18, <2>1 DEF SaveLUIDMap, StoreType, ControlType, Running
<1>d. ASSUME Dies, DOMAIN node' = Keys, node'[AccountKey] \in Accounts \cup {None},
             \A p \in Paths : node'[p] \in Times \cup {None, NullText},
             luidMap' \in [Paths -> Luids \cup {None}], mapJournal' = mapJournal,
             forgotten' \subseteq Paths
      PROVE  TypeInv'
  <2>1. 0 \in Luids
    BY BoundsAssumption DEF Luids
  <2>2. TypeOK'
    BY <1>13, <1>16, <1>d, <2>1, KeyFacts DEF Dies, Empty, TypeOK
  <2> QED
    BY <1>d, <2>2 DEF Dies, StoreType, ControlType, Running
<1>23. CASE Crash
  BY <1>23, <1>d DEF Crash, TypeOK, StoreType
<1>24. CASE CrashInClose
  <2>1. PICK written \in SUBSET Keys :
          /\ node' = [k \in Keys |-> IF k \in written THEN Written(cache[k]) ELSE None]
          /\ forgotten' = forgotten \cup
                {p \in Paths \ written : journal[p] = NotInJournal /\ cache[p] # None}
    BY <1>24 DEF CrashInClose
  <2>2. \A a \in Accounts \cup {None} : Written(a) = a
    BY DEF Written, Accounts, NoSignature, None
  <2>3. DOMAIN node' = Keys /\ node'[AccountKey] \in Accounts \cup {None}
    BY <2>1, <2>2, KeyFacts DEF TypeOK
  <2>4. \A p \in Paths : node'[p] \in Times \cup {None, NullText}
    BY <2>1, KeyFacts DEF TypeOK, Written
  <2> QED
    BY <1>24, <1>d, <2>1, <2>3, <2>4 DEF CrashInClose, TypeOK
<1>25. CASE CrashInMapClose
  BY <1>25, <1>d DEF CrashInMapClose, TypeOK, StoreType
<1>19. CASE ChangeAccount
  <2>1. TypeOK'
    BY <1>19 DEF ChangeAccount, TypeOK
  <2> QED
    BY <1>19, <2>1 DEF ChangeAccount, StoreType, ControlType, Running
<1>20. CASE LoseConfig
  <2>1. TypeOK'
    BY <1>20 DEF LoseConfig, TypeOK
  <2> QED
    BY <1>20, <2>1 DEF LoseConfig, StoreType, ControlType, Running
<1>21. CASE UserEdits
  <2>1. time + 1 \in Times
    BY <1>21, BoundsAssumption DEF UserEdits, ControlType, Times
  <2>2. files' \in [Paths -> Times \cup {None}]
    BY <1>21, <2>1 DEF UserEdits, TypeOK
  <2>3. TypeOK'
    BY <1>21, <2>2 DEF UserEdits, TypeOK
  <2> QED
    BY <1>21, <2>1, <2>3 DEF UserEdits, StoreType, ControlType, Running
<1>22. CASE UNCHANGED vars
  BY <1>22 DEF vars, TypeOK, StoreType, ControlType
<1> QED
  BY <1>1, <1>2, <1>3, <1>4, <1>5, <1>6, <1>7, <1>9, <1>10, <1>11, <1>12, <1>14, <1>15,
     <1>17, <1>18, <1>19, <1>20, <1>21, <1>22, <1>23, <1>24, <1>25 DEF Next

(* Every reachable state of a source, its files and the server is well typed. *)
THEOREM LuidTypeCorrect == Spec => []TypeOK
<1>1. TypeInv => TypeOK
  BY DEF TypeInv
<1> QED
  BY <1>1, TypeInit, TypeNext, PTL DEF Spec

-----------------------------------------------------------------------------
(* The LUIDs. *)
LEMMA LuidInit == Init => IInv
<1> SUFFICES ASSUME Init PROVE IInv
  OBVIOUS
<1>1. TypeInv
  BY TypeInit
<1>2. NextIsRead /\ NextIsAbove /\ GivenCounted /\ ItemInMap
  BY DEF Init, NextIsRead, NextIsAbove, GivenCounted, ItemInMap
<1>3. LuidsUnique
  BY DEF Init, LuidsUnique
<1> QED
  BY <1>1, <1>2, <1>3 DEF IInv

(* What all but a few actions leave alone. *)
LEMMA LuidSame ==
    ASSUME IInv, UNCHANGED <<luidMap, nextLUID, savedLUID, given, lostConfig>>,
           pc' = "down" <=> pc = "down", pc' # "allocated", pc # "allocated",
           pc' \in {"sent", "status"} => item' = item /\ pc \in {"sent", "status"}
    PROVE  NextIsRead' /\ NextIsAbove' /\ GivenCounted' /\ ItemInMap' /\ LuidsUnique'
<1>1. NextIsRead' /\ NextIsAbove'
  BY DEF IInv, NextIsRead, NextIsAbove, ReadLUID
<1>2. GivenCounted'
  BY DEF IInv, GivenCounted, ReadLUID
<1>3. ItemInMap'
  BY DEF IInv, ItemInMap
<1>4. LuidsUnique'
  BY DEF IInv, LuidsUnique
<1> QED
  BY <1>1, <1>2, <1>3, <1>4

LEMMA LuidNext == IInv /\ [Next]_vars => IInv'
<1> SUFFICES ASSUME IInv, [Next]_vars PROVE IInv'
  OBVIOUS
<1>0. TypeInv'
  BY TypeNext DEF IInv
<1>1. SUFFICES NextIsRead' /\ NextIsAbove' /\ GivenCounted' /\ ItemInMap' /\ LuidsUnique'
  BY <1>0 DEF IInv
<1>2. /\ luidMap \in [Paths -> Luids \cup {None}] /\ Luids \subseteq Nat /\ None = -1
      /\ nextLUID \in Luids /\ ReadLUID \in Luids /\ pc \in Running \cup {"down"}
      /\ given \subseteq Luids \X Paths
  BY BoundsAssumption DEF IInv, TypeInv, TypeOK, ControlType, None, Luids, ReadLUID
<1>20. nextLUID \in Int /\ \A q \in Paths : luidMap[q] \in Int
  <2>1. ASSUME NEW q \in Paths PROVE luidMap[q] \in Int
    <3>1. luidMap[q] \in Luids \/ luidMap[q] = None
      BY <1>2
    <3>2. None \in Int
      BY DEF None
    <3>3. luidMap[q] \in Luids => luidMap[q] \in Int
      BY DEF Luids
    <3> QED
      BY <3>1, <3>2, <3>3
  <2>2. nextLUID \in Int
    BY DEF IInv, TypeInv, TypeOK, Luids
  <2> QED
    BY <2>1, <2>2
<1> USE DEF store, luids, history
<1>3. CASE Construct
  <2>1. PICK m \in 0..MaxLuid : /\ Verified(ReadLUID, m)
                                /\ nextLUID' = m
                                /\ savedLUID' = IF m # ReadLUID THEN m ELSE savedLUID
    BY <1>3 DEF Construct
  <2>2. pc = "down" /\ pc' = "idle" /\ UNCHANGED <<luidMap, given, lostConfig>>
    BY <1>3 DEF Construct
  <2>3. m \in Nat /\ m >= ReadLUID /\ \A p \in Paths : m > luidMap[p]
    BY <2>1 DEF Verified
  <2>4. ReadLUID' = m
    BY <1>2, <2>1, <2>3 DEF ReadLUID, None
  <2>5. NextIsRead' /\ NextIsAbove'
    BY <2>1, <2>2, <2>3, <2>4 DEF NextIsRead, NextIsAbove
  <2>6. GivenCounted'
    <3>1. ASSUME NEW g \in given, ~lostConfig PROVE g[1] < m
      <4>1. g[1] \in Nat /\ g[2] \in Paths
        BY <1>2
      <4>2. g[1] < ReadLUID \/ luidMap[g[2]] = g[1]
        BY <3>1 DEF IInv, GivenCounted
      <4> QED
        BY <1>2, <2>3, <4>1, <4>2
    <3> QED
      BY <2>2, <2>4, <3>1 DEF GivenCounted
  <2>7. ItemInMap' /\ LuidsUnique'
    BY <2>2 DEF IInv, ItemInMap, LuidsUnique
  <2> QED
    BY <2>5, <2>6, <2>7
<1>4. CASE SetAccount
  BY <1>4, LuidSame DEF SetAccount
<1>5. CASE CloseCache
  BY <1>5, LuidSame DEF CloseCache
<1>6. CASE RefreshLUIDMap
  <2>1. /\ pc = "refresh" /\ pc' = "refresh"
        /\ \A p \in Paths : luidMap'[p] = None \/ luidMap'[p] = luidMap[p]
        /\ UNCHANGED <<nextLUID, savedLUID, given, lostConfig>>
    BY <1>2, <1>6 DEF RefreshLUIDMap, ToForget
  <2>2. NextIsRead' /\ NextIsAbove'
    BY <1>2, <2>1 DEF IInv, NextIsRead, NextIsAbove, ReadLUID
  <2>3. GivenCounted'
    BY <2>1 DEF IInv, GivenCounted, ReadLUID
  <2>4. ItemInMap' /\ LuidsUnique'
    BY <2>1 DEF IInv, ItemInMap, LuidsUnique
  <2> QED
    BY <2>2, <2>3, <2>4
<1>22. CASE SaveLUIDMap
  BY <1>22, LuidSame DEF SaveLUIDMap, IInv, TypeInv, ControlType
<1>7. CASE BeginSync
  BY <1>7, LuidSame DEF BeginSync
<1>8. CASE ScanAll
  BY <1>8, LuidSame DEF ScanAll
<1>9. CASE ScanChanges
  BY <1>9, LuidSame DEF ScanChanges
<1>10. CASE \E p \in Paths : SendKnown(p)
  <2>1. PICK p \in Paths : SendKnown(p)
    BY <1>10
  <2>2. /\ pc = "sending" /\ pc' = "sent"
        /\ UNCHANGED <<luidMap, nextLUID, savedLUID, given, lostConfig>>
        /\ item'.path = p /\ item'.luid = luidMap[p]
    BY <2>1 DEF SendKnown, Sent
  <2> QED
    BY <2>2 DEF IInv, NextIsRead, NextIsAbove, GivenCounted, ItemInMap, LuidsUnique, ReadLUID
<1>11. CASE \E p \in Paths : SendNew(p)
  <2>1. PICK p \in Paths : SendNew(p)
    BY <1>11
  <2>2. /\ pc = "sending" /\ pc' = "allocated"
        /\ UNCHANGED <<nextLUID, savedLUID, lostConfig>>
        /\ item'.path = p /\ item'.luid = nextLUID
        /\ luidMap' = [luidMap EXCEPT ![p] = nextLUID]
        /\ given' = given \cup {<<nextLUID, p>>}
    BY <2>1 DEF SendNew, Sent, MapWithNext
  <2>3. /\ luidMap'[p] = nextLUID
        /\ \A q \in Paths \ {p} : luidMap'[q] = luidMap[q]
        /\ \A q \in Paths : luidMap[q] < nextLUID /\ luidMap[q] \in Int
        /\ nextLUID \in Int
    BY <1>2, <1>20, <2>2 DEF IInv, NextIsAbove
  <2>4. NextIsRead' /\ ItemInMap'
    BY <2>2, <2>3 DEF IInv, NextIsRead, ItemInMap, ReadLUID
  <2>5. NextIsAbove'
    <3>1. \A q \in Paths : luidMap'[q] <= nextLUID
      BY <2>3
    <3> QED
      BY <2>2, <3>1 DEF NextIsAbove
  <2>6. ~lostConfig => \A g \in given : g[1] < nextLUID
    BY <2>2 DEF IInv, GivenCounted, NextIsRead
  <2>7. GivenCounted'
    <3>1. ReadLUID' = nextLUID
      BY <2>2 DEF IInv, NextIsRead, ReadLUID
    <3> QED
      BY <2>2, <2>3, <2>6, <3>1 DEF GivenCounted
  <2>8. LuidsUnique'
    <3>1. ASSUME NEW q \in Paths, NEW r \in Paths, luidMap'[q] = luidMap'[r], luidMap'[q] # None
          PROVE  q = r
      BY <1>2, <2>3, <3>1 DEF IInv, LuidsUnique
    <3>2. ASSUME ~lostConfig, NEW g \in given', NEW h \in given', g[1] = h[1] PROVE g[2] = h[2]
      <4>1. /\ g \in given \/ (g[1] = nextLUID /\ g[2] = p)
            /\ h \in given \/ (h[1] = nextLUID /\ h[2] = p)
        BY <2>2, <3>2
      <4>2. \A k \in given : k[1] # nextLUID
        BY <1>2, <2>6, <3>2
      <4> QED
        BY <3>2, <4>1, <4>2 DEF IInv, LuidsUnique
    <3> QED
      BY <2>2, <3>1, <3>2 DEF LuidsUnique
  <2> QED
    BY <2>4, <2>5, <2>7, <2>8
<1>12. CASE SaveNextLUID
  <2>1. /\ pc = "allocated" /\ pc' = "sent" /\ UNCHANGED <<luidMap, given, lostConfig, item>>
        /\ nextLUID' = nextLUID + 1 /\ savedLUID' = nextLUID + 1
    BY <1>12 DEF SaveNextLUID
  <2>2. nextLUID + 1 # None /\ ReadLUID' = nextLUID + 1
    BY <1>2, <2>1 DEF ReadLUID
  <2>3. NextIsRead' /\ NextIsAbove'
    <3>1. \A q \in Paths : luidMap[q] <= nextLUID /\ luidMap[q] \in Int /\ nextLUID \in Int
      BY <1>20, <2>1 DEF IInv, NextIsAbove
    <3>2. \A q \in Paths : luidMap[q] < nextLUID + 1
      BY <3>1
    <3> QED
      BY <2>1, <2>2, <3>2 DEF NextIsRead, NextIsAbove
  <2>4. GivenCounted'
    <3>1. ASSUME NEW g \in given, ~lostConfig PROVE g[1] < nextLUID + 1
      <4>1. g[1] \in Nat /\ g[2] \in Paths
        BY <1>2
      <4>2. g[1] < ReadLUID \/ luidMap[g[2]] = g[1]
        BY <3>1 DEF IInv, GivenCounted
      <4>3. luidMap[g[2]] <= nextLUID /\ ReadLUID = nextLUID
        BY <2>1, <4>1 DEF IInv, NextIsAbove, NextIsRead
      <4> QED
        BY <1>2, <4>1, <4>2, <4>3
    <3> QED
      BY <2>1, <2>2, <3>1 DEF GivenCounted
  <2>5. ItemInMap' /\ LuidsUnique'
    BY <2>1 DEF IInv, ItemInMap, LuidsUnique
  <2> QED
    BY <2>3, <2>4, <2>5
<1>13. CASE ServerAccepts
  BY <1>13, LuidSame DEF ServerAccepts
<1>14. CASE ServerRefuses
  BY <1>14, LuidSame DEF ServerRefuses
<1>15. CASE SetItemStatus
  BY <1>15, LuidSame DEF SetItemStatus
<1>16. CASE EndSync
  BY <1>16, LuidSame DEF EndSync, AllSent
<1>17. CASE Crash \/ CrashInClose
  <2>1. pc # "down" /\ pc' = "down" /\ UNCHANGED <<luidMap, savedLUID, given, lostConfig>>
    BY <1>17 DEF Crash, CrashInClose, Dies
  <2>2. NextIsRead' /\ NextIsAbove' /\ ItemInMap' /\ LuidsUnique'
    BY <2>1 DEF IInv, NextIsRead, NextIsAbove, ItemInMap, LuidsUnique
  <2>3. GivenCounted'
    BY <2>1 DEF IInv, GivenCounted, ReadLUID
  <2> QED
    BY <2>2, <2>3
<1>21. CASE CrashInMapClose
  <2>1. /\ pc = "refresh" /\ pc' = "down" /\ UNCHANGED <<savedLUID, given, lostConfig>>
        /\ \A p \in Paths : luidMap'[p] = None \/ luidMap'[p] = luidMap[p]
    BY <1>21 DEF CrashInMapClose, Dies
  <2>2. NextIsRead' /\ NextIsAbove' /\ ItemInMap' /\ LuidsUnique'
    BY <2>1 DEF IInv, NextIsRead, NextIsAbove, ItemInMap, LuidsUnique
  <2>3. GivenCounted'
    BY <2>1 DEF IInv, GivenCounted, ReadLUID
  <2> QED
    BY <2>2, <2>3
<1>18. CASE ChangeAccount \/ UserEdits \/ UNCHANGED vars
  <2>1. UNCHANGED <<luidMap, nextLUID, savedLUID, given, lostConfig, pc, item>>
    BY <1>18 DEF ChangeAccount, UserEdits, vars
  <2> QED
    BY <2>1 DEF IInv, NextIsRead, NextIsAbove, GivenCounted, ItemInMap, LuidsUnique, ReadLUID
<1>19. CASE LoseConfig
  <2>1. pc = "down" /\ pc' = "down" /\ lostConfig' /\ UNCHANGED <<luidMap, given>>
    BY <1>19 DEF LoseConfig
  <2> QED
    BY <2>1 DEF IInv, NextIsRead, NextIsAbove, GivenCounted, ItemInMap, LuidsUnique
<1> QED
  BY <1>3, <1>4, <1>5, <1>6, <1>7, <1>8, <1>9, <1>10, <1>11, <1>12, <1>13, <1>14, <1>15,
     <1>16, <1>17, <1>18, <1>19, <1>21, <1>22 DEF Next

(* No LUID denotes two files, in the map or, as long as the configuration  *)
(* is not lost, over time, wherever the program dies between the map and   *)
(* the configuration.                                                      *)
THEOREM LuidsAreUnique == Spec => []LuidsUnique
<1>1. IInv => LuidsUnique
  BY DEF IInv
<1> QED
  BY <1>1, LuidInit, LuidNext, PTL DEF Spec

(* getPathFromLUID() finds the path of every item whose status arrives. *)
THEOREM StatusPathFound == Spec => []PathFound
<1>1. IInv => PathFound
  <2> SUFFICES ASSUME IInv, pc = "status" PROVE PathsFromLUID(item.luid) = {item.path}
    BY DEF PathFound
  <2>1. item.path \in Paths /\ item.luid \in Luids /\ luidMap[item.path] = item.luid
    BY DEF IInv, ItemInMap, TypeInv, ControlType
  <2>2. item.luid # None
    BY <2>1, BoundsAssumption DEF Luids, None
  <2>3. \A p \in Paths : luidMap[p] = item.luid => p = item.path
    BY <2>1, <2>2 DEF IInv, LuidsUnique
  <2> QED
    BY <2>1, <2>3 DEF PathsFromLUID
<1> QED
  BY <1>1, LuidInit, LuidNext, PTL DEF Spec

-----------------------------------------------------------------------------
(* What a restart would have of a key: what the files hold while the       *)
(* program is down, the cache while it runs; and the account it is of.     *)
Kept(k) == IF pc = "down" THEN Reload(k) ELSE cache[k]
Owner == Kept(AccountKey)

(* The cache in memory and the files belong to one account, or the cache   *)
(* was just cleared; in a session it is the account of the session.        *)
OwnerInv ==
    /\ pc # "down" => cache[AccountKey] \in {None, Reload(AccountKey)}
    /\ pc = "props" => cache[AccountKey] \in {None, account}
    /\ pc \in {"close", "refresh", "begun", "sending", "allocated", "sent", "status"}
          => cache[AccountKey] = account
    /\ pc = "close" => journal[AccountKey] = account

(* What the files of the cache say of a path is what the cache says.       *)
Backed ==
    \A p \in Paths \ forgotten :
        Kept(p) # NoSignature /\ (pc # "down" => Reload(p) = cache[p])

(* ... and what the server of that account has: the path once, under the   *)
(* LUID of the map, or not at all.                                         *)
Faithful ==
    \A p \in Paths \ forgotten :
        /\ Kept(p) = None => \A k \in known : k[3] = p => Owner # None /\ k[1] # Owner
        /\ Kept(p) # None =>
             /\ <<Owner, luidMap[p], p>> \in known
             /\ \A k \in known : k[1] = Owner /\ k[3] = p => k[2] = luidMap[p]

(* What the server did with the item whose status is on its way.           *)
StatusInv ==
    pc = "status" =>
        /\ item.path \in forgotten
        /\ IF item.cmd = "Delete"
           THEN \A k \in known : k[1] = account => k[2] # item.luid
           ELSE <<account, item.luid, item.path>> \in known

FaithInv == OwnerInv /\ Backed /\ Faithful /\ StatusInv

LEMMA FaithInit == Init => FaithInv
BY DEF Init, FaithInv, OwnerInv, Backed, Faithful, StatusInv, Kept, Reload, Owner,
       NotInJournal, NoSignature, None, Empty, Keys

(* The steps that touch neither the cache nor its files nor the server. *)
LEMMA FaithSame ==
    ASSUME FaithInv, UNCHANGED <<store, luidMap, known, forgotten>>,
           pc' = "down" <=> pc = "down"
    PROVE  Backed' /\ Faithful'
<1>1. /\ UNCHANGED <<cache, node, journal>> /\ \A k : Reload(k)' = Reload(k)
  BY DEF store, Reload
<1>2. \A k : Kept(k)' = Kept(k)
  BY <1>1 DEF Kept
<1>3. Owner' = Owner
  BY <1>2 DEF Owner
<1> QED
  BY <1>1, <1>2, <1>3 DEF FaithInv, Backed, Faithful

(* A cleared cache says nothing, and only of paths the server has not. *)
LEMMA FaithCleared ==
    ASSUME TypeInv, FaithInv, Clear, pc # "down", pc' = "props",
           UNCHANGED <<luidMap, known>>
    PROVE  FaithInv'
<1>1. /\ \A k \in Keys : cache'[k] = None /\ node'[k] = None
      /\ journal' = journal
  BY ClearType
<1>2. \A p \in Paths \ forgotten' : p \notin forgotten /\ cache[p] = None /\ p \notin KnownPaths
  BY DEF Clear
<1>3. Backed'
  <2> SUFFICES ASSUME NEW p \in Paths, p \notin forgotten'
               PROVE  Kept(p)' # NoSignature /\ Reload(p)' = cache'[p]
    BY DEF Backed
  <2>1. cache'[p] = None /\ node'[p] = None /\ Reload(p) = None
    BY <1>1, <1>2, KeyFacts DEF FaithInv, Backed
  <2>2. journal[p] \in {None, NotInJournal}
    BY <2>1 DEF Reload
  <2> QED
    BY <1>1, <2>1, <2>2 DEF Kept, Reload, None, NoSignature
<1>4. Faithful'
  <2>1. Owner' = None /\ \A p \in Paths : Kept(p)' = None
    BY <1>1, KeyFacts DEF Owner, Kept
  <2>2. \A p \in Paths \ forgotten' : \A k \in known : k[3] # p
    BY <1>2 DEF KnownPaths
  <2> QED
    BY <2>1, <2>2 DEF Faithful
<1>5. OwnerInv' /\ StatusInv'
  BY <1>1, KeyFacts DEF OwnerInv, StatusInv
<1> QED
  BY <1>3, <1>4, <1>5 DEF FaithInv

(* The cache stays true to the server, file by file and account by account. *)
LEMMA FaithNext ==
    ASSUME IInv, FaithInv, [Next]_vars
    PROVE  FaithInv'
<1> USE DEF luids, history
<1>t. /\ pc \in Running \cup {"down"} /\ account \in Accounts /\ None \notin Accounts
      /\ after \in {"idle", "begun", "sending"}
      /\ known \subseteq Accounts \X Luids \X Paths
  BY NumAccountsAssumption DEF IInv, TypeInv, TypeOK, ControlType, Accounts, None
<1>o. \A a \in Accounts \cup {None} : Written(a) = a /\ a # NotInJournal
  BY DEF Written, Accounts, NoSignature, None, NotInJournal
<1>k. /\ AccountKey \in Keys /\ Paths \subseteq Keys /\ AccountKey \notin Paths
  BY KeyFacts
<1>r. Reload(AccountKey) \in Accounts \cup {None}
  BY DEF IInv, TypeInv, StoreType, Reload
<1>1. CASE Construct
  <2>1. /\ pc = "down" /\ pc' = "idle" /\ \A k \in Keys : cache'[k] = Reload(k)
        /\ UNCHANGED <<node, journal, luidMap, known, forgotten>>
    BY <1>1 DEF Construct
  <2>2. \A k \in Keys : Reload(k)' = Reload(k) /\ Kept(k)' = Kept(k)
    BY <2>1 DEF Reload, Kept
  <2>3. Owner' = Owner
    BY <1>k, <2>2 DEF Owner
  <2>4. Backed' /\ Faithful'
    BY <1>k, <2>1, <2>2, <2>3 DEF FaithInv, Backed, Faithful
  <2>5. OwnerInv' /\ StatusInv'
    BY <1>k, <2>1, <2>2 DEF OwnerInv, StatusInv
  <2> QED
    BY <2>4, <2>5 DEF FaithInv
<1>2. CASE SetAccount
  <2>1. /\ pc = "props" /\ pc' = "close" /\ UNCHANGED <<node, luidMap, known, forgotten, account>>
        /\ cache' = [cache EXCEPT ![AccountKey] = account]
        /\ journal' = [journal EXCEPT ![AccountKey] = account]
    BY <1>2 DEF SetAccount
  <2>2. /\ cache'[AccountKey] = account /\ journal'[AccountKey] = account
        /\ \A p \in Paths : cache'[p] = cache[p] /\ journal'[p] = journal[p]
    BY <1>k, <2>1 DEF IInv, TypeInv, TypeOK, StoreType
  <2>3. \A p \in Paths : Reload(p)' = Reload(p) /\ Kept(p)' = Kept(p)
    BY <2>1, <2>2 DEF Reload, Kept
  <2>4. Owner' = account /\ (Owner = None \/ Owner = account)
    BY <2>1, <2>2 DEF Owner, Kept, FaithInv, OwnerInv
  <2>5. Backed'
    BY <2>1, <2>2, <2>3 DEF FaithInv, Backed
  <2>6. Faithful'
    <3>1. CASE Owner = account
      BY <2>1, <2>3, <2>4, <3>1 DEF FaithInv, Faithful
    <3>2. CASE Owner = None
      <4> SUFFICES ASSUME NEW p \in Paths, p \notin forgotten
                   PROVE  Kept(p) = None /\ \A k \in known : k[3] # p
        BY <2>1, <2>3 DEF Faithful
      <4>1. Kept(p) = None
        BY <1>t, <3>2 DEF FaithInv, Faithful
      <4> QED
        BY <3>2, <4>1 DEF FaithInv, Faithful
    <3> QED
      BY <2>4, <3>1, <3>2
  <2>7. OwnerInv' /\ StatusInv'
    <3>1. Reload(AccountKey)' = account
      BY <1>t, <1>o, <2>2 DEF Reload
    <3> QED
      BY <2>1, <2>2, <3>1 DEF OwnerInv, StatusInv
  <2> QED
    BY <2>5, <2>6, <2>7 DEF FaithInv
<1>3. CASE CloseCache
  <2>1. /\ pc = "close" /\ pc' = "refresh" /\ UNCHANGED <<cache, luidMap, known, forgotten, account>>
        /\ \A k \in Keys : node'[k] = Written(cache[k]) /\ journal'[k] = NotInJournal
    BY <1>3 DEF CloseCache
  <2>2. \A k \in Keys : Kept(k)' = Kept(k) /\ Reload(k)' = Written(cache[k])
    BY <2>1 DEF Kept, Reload
  <2>3. Owner' = Owner
    BY <1>k, <2>2 DEF Owner
  <2>4. cache[AccountKey] = account /\ Reload(AccountKey)' = account
    BY <1>t, <1>o, <1>k, <2>1, <2>2 DEF FaithInv, OwnerInv
  <2>5. Backed'
    BY <1>k, <2>1, <2>2 DEF FaithInv, Backed, Kept, Written
  <2>6. Faithful'
    BY <1>k, <2>1, <2>2, <2>3 DEF FaithInv, Faithful
  <2>7. OwnerInv' /\ StatusInv'
    BY <2>1, <2>4 DEF OwnerInv, StatusInv
  <2> QED
    BY <2>5, <2>6, <2>7 DEF FaithInv
<1>4. CASE RefreshLUIDMap
  <2>1. /\ pc = "refresh" /\ pc' = "refresh" /\ UNCHANGED <<store, known, forgotten, account>>
        /\ \A p \in Paths : cache[p] \notin {None, NoSignature} => luidMap'[p] = luidMap[p]
    BY <1>4 DEF RefreshLUIDMap, ToForget, IInv, TypeInv, TypeOK
  <2>2. \A k : Kept(k)' = Kept(k) /\ Reload(k)' = Reload(k)
    BY <1>t, <2>1 DEF Kept, Reload, store
  <2>3. Owner' = Owner
    BY <2>2 DEF Owner
  <2>4. Backed'
    BY <1>t, <2>1, <2>2 DEF FaithInv, Backed, store
  <2>5. Faithful'
    <3>1. \A p \in Paths \ forgotten : Kept(p) # None => luidMap'[p] = luidMap[p]
      BY <2>1 DEF FaithInv, Backed, Kept
    <3> QED
      BY <2>1, <2>2, <2>3, <3>1 DEF FaithInv, Faithful
  <2>6. OwnerInv' /\ StatusInv'
    BY <1>t, <2>1, <2>2 DEF FaithInv, OwnerInv, StatusInv, store
  <2> QED
    BY <2>4, <2>5, <2>6 DEF FaithInv
<1>20. CASE SaveLUIDMap
  <2>1. /\ UNCHANGED <<store, luidMap, known, forgotten, account>>
        /\ pc = "refresh" /\ pc' = after
    BY <1>20 DEF SaveLUIDMap
  <2>2. Backed' /\ Faithful'
    BY <1>t, <2>1, FaithSame
  <2>3. OwnerInv' /\ StatusInv'
    BY <1>t, <2>1 DEF FaithInv, OwnerInv, StatusInv, Reload, store
  <2> QED
    BY <2>2, <2>3 DEF FaithInv
<1>5. CASE BeginSync
  <2>1. CASE CacheValid
    <3>1. /\ pc = "idle" /\ pc' = "props" /\ UNCHANGED <<store, forgotten, luidMap, known, account>>
      BY <1>5, <2>1 DEF BeginSync
    <3>2. Backed' /\ Faithful'
      BY <3>1, FaithSame
    <3>3. OwnerInv' /\ StatusInv'
      BY <2>1, <3>1 DEF FaithInv, OwnerInv, StatusInv, CacheValid, Reload, store
    <3> QED
      BY <3>2, <3>3 DEF FaithInv
  <2>2. CASE ~CacheValid
    <3>1. pc = "idle" /\ pc' = "props" /\ Clear /\ UNCHANGED <<luidMap, known>>
      BY <1>5, <2>2 DEF BeginSync
    <3> QED
      BY <3>1, FaithCleared DEF IInv
  <2> QED
    BY <2>1, <2>2
<1>6. CASE ScanAll
  <2>1. pc = "begun" /\ pc' = "props" /\ Clear /\ UNCHANGED <<luidMap, known>>
    BY <1>6 DEF ScanAll
  <2> QED
    BY <2>1, FaithCleared DEF IInv
<1>7. CASE ScanChanges
  <2>1. /\ UNCHANGED <<store, luidMap, known, forgotten, account>>
        /\ pc # "down" /\ pc' # "down" /\ pc' # "status"
    BY <1>7 DEF ScanChanges
  <2>2. Backed' /\ Faithful'
    BY <2>1, FaithSame
  <2>3. OwnerInv' /\ StatusInv'
    BY <1>7, <2>1 DEF ScanChanges, FaithInv, OwnerInv, StatusInv, Reload, store
  <2> QED
    BY <2>2, <2>3 DEF FaithInv
<1>8. CASE \E p \in Paths : SendKnown(p)
  <2>0. PICK p \in Paths : SendKnown(p)
    BY <1>8
  <2>1. /\ UNCHANGED <<store, luidMap, known, forgotten, account>>
        /\ pc # "down" /\ pc' # "down" /\ pc' # "status"
    BY <2>0 DEF SendKnown
  <2>2. Backed' /\ Faithful'
    BY <2>1, FaithSame
  <2>3. OwnerInv' /\ StatusInv'
    BY <2>0, <2>1 DEF SendKnown, FaithInv, OwnerInv, StatusInv, Reload, store
  <2> QED
    BY <2>2, <2>3 DEF FaithInv
<1>9. CASE \E p \in Paths : SendNew(p)
  <2>1. PICK p \in Paths : SendNew(p)
    BY <1>9
  <2>2. /\ pc = "sending" /\ pc' = "allocated" /\ luidMap[p] = None
        /\ luidMap' = [luidMap EXCEPT ![p] = nextLUID]
        /\ UNCHANGED <<store, known, forgotten, account>>
    BY <2>1 DEF SendNew, LUIDFromPath, MapWithNext
  <2>3. \A q \in Paths \ {p} : luidMap'[q] = luidMap[q]
    BY <2>2 DEF IInv, TypeInv, TypeOK
  <2>4. /\ UNCHANGED <<cache, node, journal>>
        /\ \A k : Kept(k)' = Kept(k) /\ Reload(k)' = Reload(k)
    BY <2>2 DEF Kept, Reload, store
  <2>5. Owner' = Owner
    BY <2>4 DEF Owner
  <2>6. Backed'
    BY <2>2, <2>4 DEF FaithInv, Backed
  <2>7. ASSUME p \notin forgotten, Kept(p) # None
        PROVE  FALSE
    <3>1. <<Owner, luidMap[p], p>> \in known
      BY <2>7 DEF FaithInv, Faithful
    <3>2. luidMap[p] \in Luids
      BY <1>t, <3>1
    <3> QED
      BY <2>2, <3>2, BoundsAssumption DEF None, Luids
  <2>8. Faithful'
    <3> SUFFICES ASSUME NEW q \in Paths, q \notin forgotten'
                 PROVE  /\ Kept(q)' = None => \A k \in known' : k[3] = q => Owner' # None /\ k[1] # Owner'
                        /\ Kept(q)' # None =>
                             /\ <<Owner', luidMap'[q], q>> \in known'
                             /\ \A k \in known' : k[1] = Owner' /\ k[3] = q => k[2] = luidMap'[q]
      BY DEF Faithful
    <3>1. CASE q = p
      BY <2>2, <2>3, <2>4, <2>5, <2>7, <3>1 DEF FaithInv, Faithful
    <3>2. CASE q # p
      BY <2>2, <2>3, <2>4, <2>5, <3>2 DEF FaithInv, Faithful
    <3> QED
      BY <3>1, <3>2
  <2>9. OwnerInv' /\ StatusInv'
    BY <2>2, <2>4 DEF FaithInv, OwnerInv, StatusInv
  <2> QED
    BY <2>6, <2>8, <2>9 DEF FaithInv
<1>10. CASE SaveNextLUID
  <2>1. /\ UNCHANGED <<store, luidMap, known, forgotten, account>>
        /\ pc # "down" /\ pc' # "down" /\ pc' # "status"
    BY <1>10 DEF SaveNextLUID
  <2>2. Backed' /\ Faithful'
    BY <2>1, FaithSame
  <2>3. OwnerInv' /\ StatusInv'
    BY <1>10, <2>1 DEF SaveNextLUID, FaithInv, OwnerInv, StatusInv, Reload, store
  <2> QED
    BY <2>2, <2>3 DEF FaithInv
<1>11. CASE ServerAccepts
  <2>1. /\ pc = "sent" /\ pc' = "status" /\ UNCHANGED <<store, luidMap, account, item>>
        /\ forgotten' = forgotten \cup {item.path}
    BY <1>11 DEF ServerAccepts
  <2>2. /\ item.path \in Paths /\ item.luid \in Luids /\ luidMap[item.path] = item.luid
        /\ item.luid # None
    BY <2>1, BoundsAssumption DEF IInv, ItemInMap, TypeInv, ControlType, None, Luids
  <2>3. /\ UNCHANGED <<cache, node, journal>>
        /\ \A k : Kept(k)' = Kept(k) /\ Reload(k)' = Reload(k)
    BY <2>1 DEF Kept, Reload, store
  <2>4. Owner' = Owner /\ Owner = account
    BY <2>1, <2>3 DEF Owner, Kept, FaithInv, OwnerInv
  <2>5. Backed'
    BY <2>1, <2>3 DEF FaithInv, Backed
  <2>6. OwnerInv'
    BY <2>1, <2>3 DEF FaithInv, OwnerInv
  <2>7. CASE item.cmd = "Delete"
    <3>1. known' = {k \in known : k[1] # account \/ k[2] # item.luid}
      BY <1>11, <2>7 DEF ServerAccepts
    <3>2. StatusInv'
      BY <2>1, <2>7, <3>1 DEF StatusInv
    <3>3. Faithful'
      <4> SUFFICES ASSUME NEW p \in Paths, p \notin forgotten, p # item.path, Kept(p) # None
                   PROVE  <<account, luidMap[p], p>> \in known'
        BY <2>1, <2>2, <2>3, <2>4, <3>1 DEF FaithInv, Faithful
      <4>1. <<account, luidMap[p], p>> \in known
        BY <2>4 DEF FaithInv, Faithful
      <4>2. luidMap[p] # item.luid
        BY <2>2 DEF IInv, LuidsUnique
      <4> QED
        BY <3>1, <4>1, <4>2
    <3> QED
      BY <2>5, <2>6, <3>2, <3>3 DEF FaithInv
  <2>8. CASE item.cmd # "Delete"
    <3>1. known' = known \cup {<<account, item.luid, item.path>>}
      BY <1>11, <2>8 DEF ServerAccepts
    <3>2. StatusInv'
      BY <2>1, <2>8, <3>1 DEF StatusInv
    <3>3. Faithful'
      BY <2>1, <2>2, <2>3, <2>4, <3>1 DEF FaithInv, Faithful
    <3> QED
      BY <2>5, <2>6, <3>2, <3>3 DEF FaithInv
  <2> QED
    BY <2>7, <2>8
<1>12. CASE ServerRefuses
  <2>1. /\ UNCHANGED <<store, luidMap, known, forgotten, account>>
        /\ pc # "down" /\ pc' # "down" /\ pc' # "status"
    BY <1>12 DEF ServerRefuses
  <2>2. Backed' /\ Faithful'
    BY <2>1, FaithSame
  <2>3. OwnerInv' /\ StatusInv'
    BY <1>12, <2>1 DEF ServerRefuses, FaithInv, OwnerInv, StatusInv, Reload, store
  <2> QED
    BY <2>2, <2>3 DEF FaithInv
<1>13. CASE SetItemStatus
  <2>1. /\ pc = "status" /\ pc' = "sending" /\ UNCHANGED <<luidMap, known, account>>
    BY <1>13 DEF SetItemStatus
  <2>2. CASE UNCHANGED <<store, forgotten>>
    <3>1. Backed' /\ Faithful'
      BY <2>1, <2>2, FaithSame
    <3>2. OwnerInv' /\ StatusInv'
      BY <2>1, <2>2 DEF FaithInv, OwnerInv, StatusInv, Reload, store
    <3> QED
      BY <3>1, <3>2 DEF FaithInv
  <2>3. CASE \E p \in PathsFromLUID(item.luid) : Status(p)
    <3>1. PICK p \in Paths : luidMap[p] = item.luid /\ Status(p)
      BY <2>3 DEF PathsFromLUID
    <3>2. p = item.path /\ item.luid # None
      <4>1. luidMap[item.path] = item.luid /\ item.path \in Paths /\ item.luid \in Luids
        BY <2>1 DEF IInv, ItemInMap, TypeInv, ControlType
      <4>2. item.luid # None
        BY <4>1, BoundsAssumption DEF Luids, None
      <4> QED
        BY <3>1, <4>1, <4>2 DEF IInv, LuidsUnique
    <3> DEFINE v == IF item.cmd = "Delete" THEN None ELSE Signature(files[p])
    <3>3. /\ cache' = [cache EXCEPT ![p] = v]
          /\ journal' = [journal EXCEPT ![p] = Written(v)]
          /\ forgotten' = IF v # NoSignature /\ OnlyOnServer(item.luid, p)
                           THEN forgotten \ {p} ELSE forgotten
          /\ node' = node
      BY <3>1 DEF Status
    <3>4. /\ p \in forgotten
          /\ v \in Times \cup {None, NoSignature}
          /\ v = None => \A k \in known : k[1] = account => k[2] # item.luid
          /\ v \notin {None, NoSignature} => <<account, item.luid, p>> \in known
      <4>1. files[p] \in Times \cup {None}
        BY DEF IInv, TypeInv, TypeOK
      <4>2. CASE item.cmd = "Delete"
        BY <2>1, <3>2, <4>2 DEF FaithInv, StatusInv, None, NoSignature
      <4>3. CASE item.cmd # "Delete"
        <5>1. v \in Times \cup {NoSignature} /\ v # None
          BY <4>1, <4>3, BoundsAssumption DEF Signature, None, NoSignature, Times
        <5> QED
          BY <2>1, <3>2, <4>3, <5>1 DEF FaithInv, StatusInv
      <4> QED
        BY <4>2, <4>3
    <3>5. v # NoSignature => Written(v) = v /\ v # NotInJournal
      BY <3>4, BoundsAssumption DEF Written, Times, None, NoSignature, NotInJournal
    <3> HIDE DEF v
    <3>6. /\ cache'[p] = v /\ journal'[p] = Written(v)
          /\ \A k \in Keys \ {p} : cache'[k] = cache[k] /\ Reload(k)' = Reload(k)
      BY <1>k, <3>3 DEF IInv, TypeInv, TypeOK, StoreType, Reload
    <3>7. cache'[AccountKey] = account /\ Owner' = account /\ Owner = account
          /\ Reload(AccountKey)' = Reload(AccountKey) /\ Reload(AccountKey) = account
      BY <1>t, <1>k, <2>1, <3>6 DEF Owner, Kept, FaithInv, OwnerInv
    <3>8. OwnerInv' /\ StatusInv'
      BY <2>1, <3>7 DEF OwnerInv, StatusInv
    <3>9. Backed'
      <4> SUFFICES ASSUME NEW q \in Paths, q \notin forgotten'
                   PROVE  cache'[q] # NoSignature /\ Reload(q)' = cache'[q]
        BY <2>1 DEF Backed, Kept
      <4>1. CASE q = p
        <5>1. v # NoSignature
          BY <3>3, <3>4, <4>1
        <5> QED
          BY <3>5, <3>6, <4>1, <5>1 DEF Reload
      <4>2. CASE q # p
        BY <1>k, <2>1, <3>3, <3>6, <4>2 DEF FaithInv, Backed, Kept
      <4> QED
        BY <4>1, <4>2
    <3>10. Faithful'
      <4> SUFFICES ASSUME NEW q \in Paths, q \notin forgotten'
                   PROVE  /\ cache'[q] = None => \A k \in known : k[3] = q => k[1] # account
                          /\ cache'[q] # None =>
                               /\ <<account, luidMap[q], q>> \in known
                               /\ \A k \in known : k[1] = account /\ k[3] = q => k[2] = luidMap[q]
        BY <1>t, <2>1, <3>7 DEF Faithful, Kept
      <4>1. CASE q = p
        <5>1. v # NoSignature /\ OnlyOnServer(item.luid, p)
          BY <3>3, <3>4, <4>1
        <5> QED
          BY <3>1, <3>4, <3>6, <4>1, <5>1 DEF OnlyOnServer
      <4>2. CASE q # p
        BY <1>k, <2>1, <3>3, <3>6, <3>7, <4>2 DEF FaithInv, Faithful, Kept
      <4> QED
        BY <4>1, <4>2
    <3> QED
      BY <3>8, <3>9, <3>10 DEF FaithInv
  <2> QED
    BY <1>13, <2>2, <2>3 DEF SetItemStatus
<1>14. CASE EndSync
  <2>1. /\ UNCHANGED <<store, luidMap, known, forgotten, account>>
        /\ pc # "down" /\ pc' # "down" /\ pc' # "status"
    BY <1>14 DEF EndSync
  <2>2. Backed' /\ Faithful'
    BY <2>1, FaithSame
  <2>3. OwnerInv' /\ StatusInv'
    BY <1>14, <2>1 DEF EndSync, FaithInv, OwnerInv, StatusInv, Reload, store
  <2> QED
    BY <2>2, <2>3 DEF FaithInv
<1>15. CASE Crash \/ CrashInClose \/ CrashInMapClose
  <2>1. pc # "down" /\ pc' = "down" /\ UNCHANGED <<journal, known>>
    BY <1>15 DEF Crash, CrashInClose, CrashInMapClose, Dies
  <2>2. \A k : Kept(k) = cache[k] /\ Kept(k)' = Reload(k)'
    BY <2>1 DEF Kept
  <2>3. /\ forgotten \subseteq forgotten'
        /\ \A p \in Paths \ forgotten' : Reload(p)' = cache[p]
    <3>1. CASE UNCHANGED <<node, forgotten>>
      <4>1. \A k : Reload(k)' = Reload(k)
        BY <2>1, <3>1 DEF Reload
      <4> QED
        BY <2>1, <3>1, <4>1 DEF FaithInv, Backed
    <3>2. CASE CrashInMapClose
      <4>1. /\ UNCHANGED node /\ forgotten \subseteq forgotten'
            /\ \A k : Reload(k)' = Reload(k)
        BY <2>1, <3>2 DEF CrashInMapClose, Reload
      <4> QED
        BY <2>1, <4>1 DEF FaithInv, Backed
    <3>3. CASE CrashInClose
      <4>1. PICK written \in SUBSET Keys :
              /\ node' = [k \in Keys |-> IF k \in written THEN Written(cache[k]) ELSE None]
              /\ forgotten' = forgotten \cup
                    {p \in Paths \ written : journal[p] = NotInJournal /\ cache[p] # None}
        BY <3>3 DEF CrashInClose
      <4>2. ASSUME NEW p \in Paths, p \notin forgotten'
            PROVE  Reload(p)' = cache[p]
        <5>1. p \notin forgotten /\ p \in Keys /\ cache[p] # NoSignature /\ Reload(p) = cache[p]
          BY <1>k, <2>1, <2>2, <4>1, <4>2 DEF FaithInv, Backed
        <5>2. CASE journal[p] = NotInJournal
          BY <2>1, <4>1, <4>2, <5>1, <5>2 DEF Reload, Written
        <5>3. CASE journal[p] # NotInJournal
          BY <2>1, <5>1, <5>3 DEF Reload
        <5> QED
          BY <5>2, <5>3
      <4> QED
        BY <4>1, <4>2
    <3> QED
      BY <1>15, <3>1, <3>2, <3>3 DEF Crash
  <2>4. Owner = None \/ Owner' = Owner
    <3>1. CASE UNCHANGED node
      BY <2>1, <2>2, <3>1 DEF Owner, Reload, FaithInv, OwnerInv
    <3>2. CASE CrashInClose
      <4>1. cache[AccountKey] = account /\ journal[AccountKey] = account
        BY <3>2 DEF CrashInClose, FaithInv, OwnerInv
      <4> QED
        BY <1>t, <1>o, <2>1, <2>2, <4>1 DEF Owner, Reload
    <3> QED
      BY <1>15, <3>1, <3>2 DEF Crash, CrashInMapClose
  <2>8. \A p \in Paths \ forgotten' : cache[p] = None \/ luidMap'[p] = luidMap[p]
    <3>1. CASE UNCHANGED luidMap
      BY <3>1
    <3>2. CASE CrashInMapClose
      <4>1. PICK written \in SUBSET Paths :
              /\ luidMap' = [p \in Paths |-> IF p \in written \cup mapJournal
                                             THEN luidMap[p] ELSE None]
              /\ forgotten' = forgotten \cup
                    {p \in Paths \ (written \cup mapJournal) : luidMap[p] # None}
        BY <3>2 DEF CrashInMapClose
      <4> QED
        BY <4>1
    <3> QED
      BY <1>15, <3>1, <3>2 DEF Crash, CrashInClose
  <2>5. Backed'
    BY <2>1, <2>2, <2>3 DEF FaithInv, Backed
  <2>6. Faithful'
    <3>1. CASE Owner' = Owner
      BY <2>1, <2>2, <2>3, <2>8, <3>1 DEF FaithInv, Faithful
    <3>2. CASE Owner = None
      <4> SUFFICES ASSUME NEW p \in Paths, p \notin forgotten'
                   PROVE  Kept(p)' = None /\ \A k \in known : k[3] # p
        BY <2>1 DEF Faithful
      <4>1. Kept(p) = None
        BY <1>t, <2>3, <3>2 DEF FaithInv, Faithful
      <4> QED
        BY <2>2, <2>3, <3>2, <4>1 DEF FaithInv, Faithful
    <3> QED
      BY <2>4, <3>1, <3>2
  <2>7. OwnerInv' /\ StatusInv'
    BY <2>1 DEF OwnerInv, StatusInv
  <2> QED
    BY <2>5, <2>6, <2>7 DEF FaithInv
<1>16. CASE ChangeAccount
  <2>1. pc = "down" /\ pc' = "down" /\ UNCHANGED <<store, luidMap, known, forgotten>>
    BY <1>16 DEF ChangeAccount
  <2>2. Backed' /\ Faithful'
    BY <2>1, FaithSame
  <2> QED
    BY <2>1, <2>2 DEF FaithInv, OwnerInv, StatusInv
<1>17. CASE LoseConfig
  <2>1. pc = "down" /\ pc' = "down" /\ UNCHANGED <<store, luidMap, known, forgotten>>
    BY <1>17 DEF LoseConfig
  <2>2. Backed' /\ Faithful'
    BY <2>1, FaithSame
  <2> QED
    BY <2>1, <2>2 DEF FaithInv, OwnerInv, StatusInv
<1>18. CASE UserEdits
  <2>1. UNCHANGED <<store, luidMap, known, forgotten, account, pc, item>>
    BY <1>18 DEF UserEdits
  <2>2. Backed' /\ Faithful'
    BY <2>1, FaithSame
  <2>3. OwnerInv' /\ StatusInv'
    BY <2>1 DEF FaithInv, OwnerInv, StatusInv, Reload, store
  <2> QED
    BY <2>2, <2>3 DEF FaithInv
<1>19. CASE UNCHANGED vars
  <2>1. UNCHANGED <<store, luidMap, known, forgotten, account, pc, item>>
    BY <1>19 DEF vars
  <2>2. Backed' /\ Faithful'
    BY <2>1, FaithSame
  <2>3. OwnerInv' /\ StatusInv'
    BY <2>1 DEF FaithInv, OwnerInv, StatusInv, Reload, store
  <2> QED
    BY <2>2, <2>3 DEF FaithInv
<1> QED
  BY <1>1, <1>2, <1>3, <1>4, <1>5, <1>6, <1>7, <1>8, <1>9, <1>10, <1>11,
     <1>12, <1>13, <1>14, <1>15, <1>16, <1>17, <1>18, <1>19, <1>20
     DEF Next

LEMMA FaithInductive == Spec => [](IInv /\ FaithInv)
<1>1. Init => IInv /\ FaithInv
  BY LuidInit, FaithInit
<1>2. IInv /\ FaithInv /\ [Next]_vars => (IInv /\ FaithInv)'
  BY LuidNext, FaithNext
<1> QED
  BY <1>1, <1>2, PTL DEF Spec

(* What a fast sync leaves out the server of this account has, under the   *)
(* LUID of the map, but for the causes the property names: for any number  *)
(* of files and accounts, wherever the program dies while it writes the    *)
(* cache, the map and the configuration.                                   *)
THEOREM NotSentKnown == Spec => []NotSentIsKnown
<1>1. IInv /\ FaithInv => NotSentIsKnown
  BY DEF FaithInv, Faithful, OwnerInv, Owner, Kept, NotSentIsKnown
<1> QED
  BY <1>1, FaithInductive, PTL

(* getLUIDFromPath() takes a second LUID for a file that the server has    *)
(* already only for one of the causes the property names.                  *)
THEOREM NewLuidHasCause == Spec => []NewLuidForCause
<1>1. IInv /\ FaithInv => NewLuidForCause
  <2> SUFFICES ASSUME IInv, FaithInv, pc = "allocated", item.path \notin forgotten
               PROVE  OnlyOnServer(item.luid, item.path)
    BY DEF NewLuidForCause
  <2>1. item.path \in Paths /\ luidMap[item.path] = item.luid /\ Owner = account
    BY DEF IInv, ItemInMap, TypeInv, ControlType, FaithInv, OwnerInv, Owner, Kept
  <2> QED
    BY <2>1 DEF FaithInv, Faithful, OnlyOnServer
<1> QED
  BY <1>1, FaithInductive, PTL
=============================================================================
