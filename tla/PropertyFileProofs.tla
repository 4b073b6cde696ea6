------------------------- MODULE PropertyFileProofs -------------------------
(***************************************************************************)
(* Proofs about PropertyFile for every set of keys and values and every    *)
(* length of the journal: types, what the constructor's replay computes,   *)
(* what a crash can cost at each step, and that the store implements       *)
(* DurableStore.                                                           *)
(***************************************************************************)
EXTENDS PropertyFile, TLAPS

-----------------------------------------------------------------------------
(* The journal as a sequence: which entry decides.                         *)

(* Every key the first n entries name has a last entry among them.  It is  *)
(* part of the inductive invariant because the journal only grows at its   *)
(* end: no induction over sequences is needed.                             *)
LastExists(j) ==
    \A n \in 0..Len(j) : \A k \in Logged(j, n) : \E i \in 1..n : IsLast(j, n, k, i)

(* The last entry of a key is unique, so LastEntry is it. *)
LEMMA LastUnique ==
    ASSUME NEW j, NEW n \in Nat, NEW k, NEW i, IsLast(j, n, k, i)
    PROVE  LastEntry(j, n, k) = i
<1>1. \A c \in 1..n : IsLast(j, n, k, c) => c = i
  BY DEF IsLast
<1>2. i \in 1..n
  BY DEF IsLast
<1>3. IsLast(j, n, k, LastEntry(j, n, k)) /\ LastEntry(j, n, k) \in 1..n
  BY <1>2 DEF LastEntry
<1> QED
  BY <1>1, <1>3

(* One more entry of the prefix is one set or one remove in memory: the    *)
(* loop body of read().                                                    *)
LEMMA ReplayStep ==
    ASSUME NEW j \in Seq(Entries), NEW n \in 0..(Len(j) - 1), NEW nd,
           LastExists(j)
    PROVE  Replayed(nd, j, n + 1) =
             [Replayed(nd, j, n) EXCEPT ![j[n + 1].key] = Meaning(j[n + 1].value)]
<1> DEFINE e == j[n + 1]
           old == Replayed(nd, j, n)
           new == Replayed(nd, j, n + 1)
<1>1. n \in Nat /\ n + 1 \in Nat /\ n + 1 \in 1..Len(j)
  OBVIOUS
<1>2. e \in Entries
  BY <1>1
<1>3. e.key \in Keys
  BY <1>2 DEF Entries
<1>4. Logged(j, n + 1) = Logged(j, n) \cup {e.key}
  BY <1>1 DEF Logged
<1>5. new[e.key] = Meaning(e.value)
  <2>1. IsLast(j, n + 1, e.key, n + 1)
    BY <1>1 DEF IsLast
  <2>2. LastEntry(j, n + 1, e.key) = n + 1
    BY <2>1, <1>1, LastUnique
  <2> QED
    BY <2>2, <1>3, <1>4 DEF Replayed
<1>6. ASSUME NEW k \in Keys, k # e.key
      PROVE  new[k] = old[k]
  <2>1. CASE k \in Logged(j, n)
    <3>1. PICK i \in 1..n : IsLast(j, n, k, i)
      BY <2>1, <1>1 DEF LastExists
    <3>2. IsLast(j, n + 1, k, i)
      BY <3>1, <1>6, <1>1 DEF IsLast
    <3>3. LastEntry(j, n, k) = i /\ LastEntry(j, n + 1, k) = i
      BY <3>1, <3>2, <1>1, LastUnique
    <3> QED
      BY <3>3, <2>1, <1>4 DEF Replayed
  <2>2. CASE k \notin Logged(j, n)
    BY <2>2, <1>4, <1>6 DEF Replayed
  <2> QED
    BY <2>1, <2>2
<1> QED
  BY <1>3, <1>5, <1>6 DEF Replayed

(* Appending changes nothing about the entries before. *)
LEMMA AppendPrefix ==
    ASSUME NEW j \in Seq(Entries), NEW e \in Entries, NEW n \in 0..Len(j),
           LastExists(j)
    PROVE  /\ Logged(Append(j, e), n) = Logged(j, n)
           /\ \A k, i : IsLast(Append(j, e), n, k, i) <=> IsLast(j, n, k, i)
           /\ \A nd : Replayed(nd, Append(j, e), n) = Replayed(nd, j, n)
<1>1. \A i \in 1..n : Append(j, e)[i] = j[i]
  OBVIOUS
<1>2. Logged(Append(j, e), n) = Logged(j, n)
  BY <1>1 DEF Logged
<1>3. \A k, i : IsLast(Append(j, e), n, k, i) <=> IsLast(j, n, k, i)
  BY <1>1 DEF IsLast
<1>4. ASSUME NEW nd, NEW k \in Keys
      PROVE  Replayed(nd, Append(j, e), n)[k] = Replayed(nd, j, n)[k]
  <2>1. LastEntry(Append(j, e), n, k) = LastEntry(j, n, k)
    BY <1>3 DEF LastEntry
  <2>2. CASE \E i \in 1..n : IsLast(j, n, k, i)
    <3>1. LastEntry(j, n, k) \in 1..n
      BY <2>2 DEF LastEntry
    <3> QED
      BY <3>1, <2>1, <1>1, <1>2 DEF Replayed
  <2>3. CASE ~ \E i \in 1..n : IsLast(j, n, k, i)
    <3>1. k \notin Logged(j, n)
      BY <2>3 DEF LastExists
    <3> QED
      BY <3>1, <1>2 DEF Replayed
  <2> QED
    BY <2>2, <2>3
<1> QED
  BY <1>2, <1>3, <1>4 DEF Replayed

(* What a set or a remove that reaches the journal does to a restart. *)
LEMMA AppendRecovers ==
    ASSUME NEW j \in Seq(Entries), NEW e \in Entries, NEW nd, LastExists(j)
    PROVE  /\ LastExists(Append(j, e))
           /\ Replayed(nd, Append(j, e), Len(Append(j, e))) =
                [Replayed(nd, j, Len(j)) EXCEPT ![e.key] = Meaning(e.value)]
           /\ Logged(Append(j, e), Len(Append(j, e))) =
                Logged(j, Len(j)) \cup {e.key}
<1> DEFINE j2 == Append(j, e)
           N == Len(j)
<1>1. j2 \in Seq(Entries) /\ Len(j2) = N + 1 /\ N \in Nat /\ j2[N + 1] = e
  OBVIOUS
<1>2. Logged(j2, N + 1) = Logged(j2, N) \cup {e.key}
  BY <1>1 DEF Logged
<1>3. N \in 0..Len(j)
  BY <1>1
<1>4. Logged(j2, N) = Logged(j, N) /\ Replayed(nd, j2, N) = Replayed(nd, j, N)
  BY <1>3, AppendPrefix
<1>5. LastExists(j2)
  <2> SUFFICES ASSUME NEW n \in 0..(N + 1), NEW k \in Logged(j2, n)
               PROVE  \E i \in 1..n : IsLast(j2, n, k, i)
    BY <1>1 DEF LastExists
  <2>1. CASE n \in 0..N
    <3>1. k \in Logged(j, n)
      BY <2>1, AppendPrefix
    <3>2. PICK i \in 1..n : IsLast(j, n, k, i)
      BY <2>1, <3>1 DEF LastExists
    <3> QED
      BY <2>1, <3>2, AppendPrefix
  <2>2. CASE n = N + 1 /\ k = e.key
    <3>1. IsLast(j2, N + 1, k, N + 1)
      BY <2>2, <1>1 DEF IsLast
    <3> QED
      BY <3>1, <2>2, <1>1
  <2>3. CASE n = N + 1 /\ k # e.key
    <3>1. k \in Logged(j, N)
      BY <2>3, <1>2, <1>4
    <3>2. PICK i \in 1..N : IsLast(j, N, k, i)
      BY <1>3, <3>1 DEF LastExists
    <3>3. IsLast(j2, N, k, i)
      BY <1>3, <3>2, AppendPrefix
    <3>4. IsLast(j2, N + 1, k, i)
      BY <3>3, <2>3, <1>1 DEF IsLast
    <3> QED
      BY <3>4, <2>3, <1>1
  <2> QED
    BY <2>1, <2>2, <2>3, <1>1
<1>6. Replayed(nd, j2, N + 1) =
        [Replayed(nd, j2, N) EXCEPT ![j2[N + 1].key] = Meaning(j2[N + 1].value)]
  <2>1. N \in 0..(Len(j2) - 1)
    BY <1>1
  <2> HIDE DEF j2, N
  <2> QED
    BY <2>1, <1>1, <1>5, ReplayStep
<1> QED
  BY <1>1, <1>2, <1>4, <1>5, <1>6

-----------------------------------------------------------------------------
(* The inductive invariant.                                                *)

(* Where the call under way has got to, beyond what the properties say. *)
CallInProgress ==
    /\ pc = "replay" => pos \in 0..Len(jour)
    /\ pc = "setJournal" => /\ arg.key \in Keys /\ arg.value \in Values
                            /\ mem[arg.key] = arg.value
    /\ pc = "removeMemory" => /\ arg.key \in Keys
                              /\ arg.key \notin stale => Recovered[arg.key] = NoValue
    /\ pc = "removeNode" => mem = Empty

(* The half-written node file: a line for every key written, none for the  *)
(* others; and the journal still decides for the keys it names.            *)
HalfWritten ==
    pc = "writing" =>
        /\ todo = {k \in todo : mem[k] # NoValue}
        /\ \A k \in Keys : node[k] = IF k \in todo THEN NoValue ELSE mem[k]
        /\ \A k \in Logged(jour, Len(jour)) \ stale : Recovered[k] = mem[k]

IInv ==
    /\ TypeOK
    /\ LastExists(jour)
    /\ ReplayIsLastWrite
    /\ IdleIsDurable
    /\ OtherKeysDurable
    /\ CallInProgress
    /\ HalfWritten

LEMMA RecoveredType ==
    ASSUME TypeOK, LastExists(jour), NEW n \in 0..Len(jour)
    PROVE  /\ Replayed(node, jour, n) \in Stores
           /\ Logged(jour, n) \in SUBSET Keys
<1>1. \A i \in 1..n : jour[i].key \in Keys /\ Meaning(jour[i].value) \in MaybeValue
  <2> SUFFICES ASSUME NEW i \in 1..n
               PROVE  jour[i].key \in Keys /\ Meaning(jour[i].value) \in MaybeValue
    OBVIOUS
  <2>1. jour[i] \in Entries
    BY DEF TypeOK
  <2> QED
    BY <2>1 DEF Entries, Meaning, MaybeValue
<1>2. ASSUME NEW k \in Keys
      PROVE  Replayed(node, jour, n)[k] \in MaybeValue
  <2>1. CASE k \in Logged(jour, n)
    <3>1. PICK i \in 1..n : IsLast(jour, n, k, i)
      BY <2>1 DEF LastExists
    <3>2. LastEntry(jour, n, k) = i
      BY <3>1, LastUnique
    <3> QED
      BY <3>2, <2>1, <1>1 DEF Replayed
  <2>2. CASE k \notin Logged(jour, n)
    BY <2>2 DEF Replayed, TypeOK, Stores
  <2> QED
    BY <2>1, <2>2
<1>3. Replayed(node, jour, n) \in [Keys -> MaybeValue]
  BY <1>2 DEF Replayed
<1> QED
  BY <1>1, <1>3 DEF Logged, Stores

LEMMA EmptyJournal ==
    ASSUME NEW nd \in Stores
    PROVE  /\ Replayed(nd, <<>>, 0) = nd
           /\ Logged(<<>>, 0) = {}
           /\ LastExists(<<>>)
BY DEF Replayed, Logged, LastExists, Stores

(* A replay that has not begun has found the node file as it is. *)
LEMMA ReplayNothing ==
    ASSUME NEW nd \in Stores, NEW j
    PROVE  Replayed(nd, j, 0) = nd
BY DEF Replayed, Logged, Stores

LEMMA InitIInv == Init => IInv
<1> SUFFICES ASSUME Init PROVE IInv
  OBVIOUS
<1> USE DEF Init
<1>1. TypeOK
  BY DEF TypeOK, Stores, Empty, MaybeValue, PCs, Calls, NoArg, Returned, Entries
<1>2. LastExists(jour)
  BY <1>1, EmptyJournal DEF TypeOK
<1> QED
  BY <1>1, <1>2 DEF IInv, ReplayIsLastWrite, IdleIsDurable, OtherKeysDurable,
                    CallInProgress, HalfWritten

(* Types are kept by every step. *)
LEMMA StepTypeOK == TypeOK /\ LastExists(jour) /\ CallInProgress /\ [Next]_vars => TypeOK'
<1> SUFFICES ASSUME TypeOK, LastExists(jour), CallInProgress, [Next]_vars
             PROVE  TypeOK'
  OBVIOUS
<1> USE DEF TypeOK
<1>0. Logged(jour, Len(jour)) \in SUBSET Keys
  BY RecoveredType
<1>1. CASE ReadNode
  BY <1>1 DEF ReadNode, files, PCs
<1>2. CASE ReplayEntry
  <2>1. jour[pos + 1] \in Entries
    BY <1>2 DEF ReplayEntry, Applied
  <2>2. Meaning(jour[pos + 1].value) \in MaybeValue
    BY <2>1 DEF Entries, Meaning, MaybeValue
  <2>3. mem' \in Stores
    BY <1>2, <2>2 DEF ReplayEntry, Applied, Stores
  <2> QED
    BY <1>2, <2>3 DEF ReplayEntry, Applied, files
<1>3. CASE ReadDone
  BY <1>3 DEF ReadDone, files, PCs
<1>4. ASSUME NEW k \in Keys, NEW v \in Values, SetMemory(k, v)
      PROVE  TypeOK'
  BY <1>4 DEF SetMemory, files, PCs, Stores, MaybeValue
<1>5. CASE SetJournal
  <2>1. jour' \in Seq(Entries)
    BY <1>5 DEF SetJournal, Journalled, CallInProgress, Entries
  <2> QED
    BY <1>5, <2>1 DEF SetJournal, Journalled, CallInProgress, PCs, Calls, Returned, NoArg, MaybeValue
<1>6. CASE SetJournalFails
  BY <1>6 DEF SetJournalFails, CallInProgress, files, PCs, Calls, Returned, NoArg, MaybeValue
<1>7. ASSUME NEW k \in Keys, RemoveJournal(k)
      PROVE  TypeOK'
  <2>1. jour' \in Seq(Entries)
    <3>1. [key |-> k, value |-> Removed] \in Entries
      BY DEF Entries
    <3> QED
      BY <1>7, <3>1 DEF RemoveJournal, Journalled
  <2> QED
    BY <1>7, <2>1 DEF RemoveJournal, Journalled, PCs
<1>8. CASE RemoveMemory
  <2>1. arg.key \in Keys
    BY <1>8 DEF RemoveMemory, CallInProgress
  <2> QED
    BY <1>8, <2>1 DEF RemoveMemory, files, PCs, Calls, Returned, NoArg, MaybeValue, Stores
<1>9. CASE ClearMemory
  BY <1>9 DEF ClearMemory, files, PCs, Stores, Empty, MaybeValue
<1>10. CASE RemoveNode
  BY <1>10, <1>0 DEF RemoveNode, PCs, Stores, Empty, MaybeValue, Calls, Returned
<1>11. CASE OpenNode
  BY <1>11 DEF OpenNode, Truncated, ToWrite, PCs, Stores, Empty, MaybeValue
<1>12. CASE OpenNodeFails
  BY <1>12 DEF OpenNodeFails, files, Calls, Returned
<1>13. ASSUME NEW k \in Keys, WriteEntry(k)
       PROVE  TypeOK'
  BY <1>13 DEF WriteEntry, Stores
<1>14. CASE RemoveJournalFile
  <2>1. jour' \in Seq(Entries)
    <3>1. <<>> \in Seq(Entries)
      OBVIOUS
    <3>2. jour' = <<>> \/ jour' = jour
      BY <1>14 DEF RemoveJournalFile
    <3> QED
      BY <3>1, <3>2
  <2>2. stale' \in SUBSET Keys
    BY <1>14, <1>0 DEF RemoveJournalFile
  <2> QED
    BY <1>14, <2>1, <2>2 DEF RemoveJournalFile, PCs, Calls, Returned
<1>15. CASE Crash
  BY <1>15 DEF Crash, files, PCs, Calls, Returned, NoArg, MaybeValue, Stores, Empty
<1>16. CASE UNCHANGED vars
  BY <1>16 DEF vars
<1> QED
  BY <1>1, <1>2, <1>3, <1>4, <1>5, <1>6, <1>7, <1>8, <1>9, <1>10, <1>11, <1>12,
     <1>13, <1>14, <1>15, <1>16 DEF Next

(* What a restart would find does not depend on anything but the files. *)
LEMMA SameFiles ==
    ASSUME UNCHANGED files
    PROVE  /\ Recovered' = Recovered
           /\ LastExists(jour) => LastExists(jour)'
           /\ Logged(jour, Len(jour))' = Logged(jour, Len(jour))
BY DEF files, Recovered

LEMMA StepIInv == IInv /\ [Next]_vars => IInv'
<1> SUFFICES ASSUME IInv, [Next]_vars
             PROVE  IInv'
  OBVIOUS
<1> USE DEF IInv
<1> DEFINE N == Len(jour)
<1>0. TypeOK'
  BY StepTypeOK
<1>t. N \in Nat /\ N \in 0..N /\ Recovered \in Stores /\ Logged(jour, N) \in SUBSET Keys
  BY RecoveredType DEF TypeOK, Recovered
<1>1. CASE ReadNode
  <2>1. UNCHANGED files
    BY <1>1 DEF ReadNode
  <2>2. ReplayIsLastWrite'
    BY <1>1, ReplayNothing DEF ReadNode, files, ReplayIsLastWrite, TypeOK
  <2> QED
    BY <1>0, <1>1, <1>t, <2>1, <2>2, SameFiles
       DEF ReadNode, IdleIsDurable, OtherKeysDurable, CallInProgress, HalfWritten, files
<1>2. CASE ReplayEntry
  <2>1. UNCHANGED files
    BY <1>2 DEF ReplayEntry, Applied
  <2>2. pos \in 0..(N - 1) /\ mem = Replayed(node, jour, pos)
    BY <1>2 DEF ReplayEntry, Applied, CallInProgress, ReplayIsLastWrite
  <2>3. mem' = Replayed(node, jour, pos + 1)
    BY <1>2, <2>2, ReplayStep DEF ReplayEntry, Applied, TypeOK
  <2>4. ReplayIsLastWrite'
    BY <1>2, <2>1, <2>3 DEF ReplayEntry, Applied, ReplayIsLastWrite, files
  <2>5. CallInProgress'
    BY <1>2, <2>1, <2>2 DEF ReplayEntry, Applied, CallInProgress, files
  <2> QED
    BY <1>0, <1>2, <2>1, <2>4, <2>5, SameFiles
       DEF ReplayEntry, Applied, IdleIsDurable, OtherKeysDurable, HalfWritten
<1>3. CASE ReadDone
  <2>1. UNCHANGED files
    BY <1>3 DEF ReadDone
  <2>2. mem = Recovered
    BY <1>3 DEF ReadDone, ReplayIsLastWrite, Recovered
  <2>3. IdleIsDurable'
    BY <1>3, <2>1, <2>2, SameFiles DEF ReadDone, IdleIsDurable
  <2> QED
    BY <1>0, <1>3, <2>1, <2>3, SameFiles
       DEF ReadDone, ReplayIsLastWrite, OtherKeysDurable, CallInProgress, HalfWritten
<1>4. ASSUME NEW k \in Keys, NEW v \in Values, SetMemory(k, v)
      PROVE  IInv'
  <2>1. UNCHANGED files
    BY <1>4 DEF SetMemory
  <2>2. OtherKeysDurable'
    BY <1>4, <2>1, SameFiles DEF SetMemory, OtherKeysDurable, IdleIsDurable, TypeOK, Stores
  <2>3. CallInProgress'
    BY <1>4 DEF SetMemory, CallInProgress, TypeOK, Stores
  <2> QED
    BY <1>0, <1>4, <2>1, <2>2, <2>3, SameFiles
       DEF SetMemory, ReplayIsLastWrite, IdleIsDurable, HalfWritten
<1>5. CASE SetJournal
  <2> DEFINE e == [key |-> arg.key, value |-> arg.value]
  <2>1. arg.key \in Keys /\ arg.value \in Values /\ mem[arg.key] = arg.value
    BY <1>5 DEF SetJournal, Journalled, CallInProgress
  <2>2. e \in Entries /\ Meaning(e.value) = arg.value
    BY <2>1, RemovedAssumption DEF Entries, Meaning
  <2>3. LastExists(jour)' /\ Recovered' = [Recovered EXCEPT ![arg.key] = arg.value]
    <3> HIDE DEF e
    <3>1. jour' = Append(jour, e) /\ node' = node
      BY <1>5 DEF SetJournal, Journalled, e
    <3>2. e.key = arg.key
      BY DEF e
    <3> QED
      BY <2>2, <3>1, <3>2, AppendRecovers DEF Recovered, TypeOK
  <2>4. IdleIsDurable'
    <3> SUFFICES ASSUME NEW k \in Keys \ stale'
                 PROVE  Recovered'[k] = mem'[k]
      BY DEF IdleIsDurable
    <3>1. CASE k = arg.key
      BY <1>5, <1>t, <2>1, <2>3, <3>1 DEF SetJournal, Journalled, Stores
    <3>2. CASE k # arg.key
      BY <1>5, <1>t, <2>3, <3>2 DEF SetJournal, Journalled, OtherKeysDurable, Stores
    <3> QED
      BY <3>1, <3>2
  <2> QED
    BY <1>0, <1>5, <2>3, <2>4
       DEF SetJournal, Journalled, ReplayIsLastWrite, OtherKeysDurable, CallInProgress, HalfWritten
<1>6. CASE SetJournalFails
  <2>1. UNCHANGED files
    BY <1>6 DEF SetJournalFails
  <2>2. IdleIsDurable'
    BY <1>6, <2>1, SameFiles DEF SetJournalFails, IdleIsDurable, OtherKeysDurable
  <2> QED
    BY <1>0, <1>6, <2>1, <2>2, SameFiles
       DEF SetJournalFails, ReplayIsLastWrite, OtherKeysDurable, CallInProgress, HalfWritten
<1>7. ASSUME NEW k \in Keys, RemoveJournal(k)
      PROVE  IInv'
  <2> DEFINE e == [key |-> k, value |-> Removed]
  <2>1. e \in Entries /\ Meaning(e.value) = NoValue
    BY DEF Entries, Meaning
  <2>2. CASE jour' = Append(jour, e) /\ stale' = stale \ {k}
    <3>1. LastExists(jour)' /\ Recovered' = [Recovered EXCEPT ![k] = NoValue]
      <4> HIDE DEF e
      <4>1. jour' = Append(jour, e) /\ node' = node
        BY <1>7, <2>2 DEF RemoveJournal, Journalled
      <4>2. e.key = k
        BY DEF e
      <4> QED
        BY <2>1, <4>1, <4>2, AppendRecovers DEF Recovered, TypeOK
    <3>2. OtherKeysDurable'
      BY <1>7, <1>t, <2>2, <3>1 DEF RemoveJournal, Journalled, OtherKeysDurable, IdleIsDurable, Stores
    <3>3. CallInProgress'
      BY <1>7, <1>t, <3>1 DEF RemoveJournal, Journalled, CallInProgress, Stores
    <3> QED
      BY <1>0, <1>7, <3>1, <3>2, <3>3
         DEF RemoveJournal, Journalled, ReplayIsLastWrite, IdleIsDurable, HalfWritten
  <2>3. CASE jour' = jour /\ stale' = stale \cup {k}
    <3>1. UNCHANGED files
      BY <1>7, <2>3 DEF RemoveJournal, Journalled, files
    <3>2. OtherKeysDurable'
      BY <1>7, <2>3, <3>1, SameFiles DEF RemoveJournal, Journalled, OtherKeysDurable, IdleIsDurable
    <3>3. CallInProgress'
      BY <1>7, <2>3 DEF RemoveJournal, Journalled, CallInProgress
    <3> QED
      BY <1>0, <1>7, <3>1, <3>2, <3>3, SameFiles
         DEF RemoveJournal, Journalled, ReplayIsLastWrite, IdleIsDurable, HalfWritten
  <2> QED
    BY <1>7, <2>2, <2>3 DEF RemoveJournal, Journalled
<1>8. CASE RemoveMemory
  <2>1. UNCHANGED files
    BY <1>8 DEF RemoveMemory
  <2>2. IdleIsDurable'
    <3> SUFFICES ASSUME NEW k \in Keys \ stale'
                 PROVE  Recovered'[k] = mem'[k]
      BY DEF IdleIsDurable
    <3>1. CASE k = arg.key
      BY <1>8, <2>1, <3>1, SameFiles DEF RemoveMemory, CallInProgress, TypeOK, Stores
    <3>2. CASE k # arg.key
      BY <1>8, <2>1, <3>2, SameFiles DEF RemoveMemory, OtherKeysDurable, TypeOK, Stores
    <3> QED
      BY <3>1, <3>2
  <2> QED
    BY <1>0, <1>8, <2>1, <2>2, SameFiles
       DEF RemoveMemory, ReplayIsLastWrite, OtherKeysDurable, CallInProgress, HalfWritten
<1>9. CASE ClearMemory
  <2>1. UNCHANGED files
    BY <1>9 DEF ClearMemory
  <2> QED
    BY <1>0, <1>9, <2>1, SameFiles
       DEF ClearMemory, ReplayIsLastWrite, IdleIsDurable, OtherKeysDurable,
           CallInProgress, HalfWritten
<1>10. CASE RemoveNode
  <2>1. jour' = jour /\ mem' = mem /\ mem = Empty
    BY <1>10 DEF RemoveNode, CallInProgress
  <2>2. LastExists(jour)'
    BY <2>1
  <2>3. IdleIsDurable'
    <3>1. CASE stale' = Keys
      BY <3>1 DEF IdleIsDurable
    <3>2. CASE node' = Empty /\ stale' = Logged(jour, N)
      <4> SUFFICES ASSUME NEW k \in Keys \ Logged(jour, N)
                   PROVE  Replayed(node', jour, N)[k] = mem[k]
        BY <2>1, <3>2 DEF IdleIsDurable, Recovered
      <4> QED
        BY <2>1, <3>2 DEF Replayed, Empty
    <3> QED
      BY <1>10, <3>1, <3>2 DEF RemoveNode
  <2> QED
    BY <1>0, <1>10, <2>2, <2>3
       DEF RemoveNode, ReplayIsLastWrite, OtherKeysDurable, CallInProgress, HalfWritten
<1>11. CASE OpenNode
  <2>1. jour' = jour /\ mem' = mem /\ stale' = stale /\ node' = Empty
        /\ pc = "idle" /\ pc' = "writing" /\ todo' = {k \in Keys : mem[k] # NoValue}
    BY <1>11 DEF OpenNode, Truncated, ToWrite
  <2>2. LastExists(jour)'
    BY <2>1
  <2>3. \A k \in Logged(jour, N) : Replayed(node', jour, N)[k] = Recovered[k]
    BY <1>t DEF Replayed, Recovered
  <2>4. HalfWritten'
    <3>1. \A k \in Logged(jour, N) \ stale : Recovered'[k] = mem[k]
      BY <1>t, <2>1, <2>3 DEF IdleIsDurable, Recovered
    <3>2. \A k \in Keys : Empty[k] = IF k \in todo' THEN NoValue ELSE mem[k]
      BY <2>1 DEF Empty
    <3>3. todo' = {k \in todo' : mem[k] # NoValue}
      BY <2>1
    <3>4. Logged(jour, Len(jour))' = Logged(jour, N)
      BY <2>1 DEF Logged
    <3> QED
      BY <2>1, <3>1, <3>2, <3>3, <3>4 DEF HalfWritten
  <2> QED
    BY <1>0, <2>1, <2>2, <2>4
       DEF ReplayIsLastWrite, IdleIsDurable, OtherKeysDurable, CallInProgress
<1>12. CASE OpenNodeFails
  <2>1. UNCHANGED files
    BY <1>12 DEF OpenNodeFails
  <2> QED
    BY <1>0, <1>12, <2>1, SameFiles
       DEF OpenNodeFails, ReplayIsLastWrite, IdleIsDurable, OtherKeysDurable,
           CallInProgress, HalfWritten
<1>13. ASSUME NEW k \in Keys, WriteEntry(k)
       PROVE  IInv'
  <2>1. jour' = jour /\ mem' = mem /\ stale' = stale /\ pc = "writing" /\ pc' = "writing"
        /\ k \in todo /\ todo' = todo \ {k} /\ node' = [node EXCEPT ![k] = mem[k]]
    BY <1>13 DEF WriteEntry
  <2>2. LastExists(jour)'
    BY <2>1
  <2>3. \A l \in Logged(jour, N) : Replayed(node', jour, N)[l] = Recovered[l]
    BY <1>t DEF Replayed, Recovered
  <2>4. HalfWritten'
    <3>1. \A l \in Logged(jour, N) \ stale : Recovered'[l] = mem[l]
      BY <1>t, <2>1, <2>3 DEF HalfWritten, Recovered
    <3>2. \A l \in Keys : node'[l] = IF l \in todo' THEN NoValue ELSE mem[l]
      BY <2>1 DEF HalfWritten, TypeOK, Stores
    <3>3. todo' = {l \in todo' : mem[l] # NoValue}
      BY <2>1 DEF HalfWritten
    <3>4. Logged(jour, Len(jour))' = Logged(jour, N)
      BY <2>1 DEF Logged
    <3> QED
      BY <2>1, <3>1, <3>2, <3>3, <3>4 DEF HalfWritten
  <2> QED
    BY <1>0, <2>1, <2>2, <2>4
       DEF ReplayIsLastWrite, IdleIsDurable, OtherKeysDurable, CallInProgress
<1>14. CASE RemoveJournalFile
  <2>1. mem' = mem /\ node' = node /\ pc = "writing" /\ pc' = "idle" /\ todo = {}
    BY <1>14 DEF RemoveJournalFile
  <2>2. node = mem
    BY <2>1 DEF HalfWritten, TypeOK, Stores
  <2>3. LastExists(jour)' /\ IdleIsDurable'
    <3>1. CASE jour' = <<>>
      <4>1. Recovered' = node
        BY <2>1, <3>1, EmptyJournal DEF Recovered, TypeOK
      <4> QED
        BY <2>1, <2>2, <3>1, <4>1, EmptyJournal DEF IdleIsDurable, TypeOK
    <3>2. CASE jour' = jour /\ stale' = stale \cap Logged(jour, N)
      <4>1. UNCHANGED files
        BY <2>1, <3>2 DEF files
      <4>2. ASSUME NEW k \in Keys \ stale'
            PROVE  Recovered[k] = mem[k]
        <5>1. CASE k \in Logged(jour, N)
          BY <2>1, <3>2, <4>2, <5>1 DEF HalfWritten
        <5>2. CASE k \notin Logged(jour, N)
          BY <2>2, <5>2 DEF Recovered, Replayed
        <5> QED
          BY <5>1, <5>2
      <4> QED
        BY <2>1, <4>1, <4>2, SameFiles DEF IdleIsDurable
    <3> QED
      BY <1>14, <3>1, <3>2 DEF RemoveJournalFile
  <2> QED
    BY <1>0, <2>1, <2>3
       DEF ReplayIsLastWrite, OtherKeysDurable, CallInProgress, HalfWritten
<1>15. CASE Crash
  <2>1. UNCHANGED files
    BY <1>15 DEF Crash
  <2> QED
    BY <1>0, <1>15, <2>1, SameFiles
       DEF Crash, ReplayIsLastWrite, IdleIsDurable, OtherKeysDurable,
           CallInProgress, HalfWritten
<1>16. CASE UNCHANGED vars
  <2>1. UNCHANGED files
    BY <1>16 DEF vars, files
  <2> QED
    BY <1>0, <1>16, <2>1, SameFiles
       DEF vars, files, ReplayIsLastWrite, IdleIsDurable, OtherKeysDurable,
           CallInProgress, HalfWritten
<1> QED
  BY <1>1, <1>2, <1>3, <1>4, <1>5, <1>6, <1>7, <1>8, <1>9, <1>10, <1>11, <1>12,
     <1>13, <1>14, <1>15, <1>16 DEF Next

-----------------------------------------------------------------------------
(* The theorems.                                                           *)

LEMMA Invariance == Spec => []IInv
<1>1. Init => IInv
  BY InitIInv
<1>2. IInv /\ [Next]_vars => IInv'
  BY StepIInv
<1> QED
  BY <1>1, <1>2, PTL DEF Spec

(* Every variable keeps its type: in particular the constructor's replay   *)
(* only ever puts real values, or none, in the list.                       *)
THEOREM TypeCorrect == Spec => []TypeOK
<1>1. IInv => TypeOK
  BY DEF IInv
<1> QED
  BY <1>1, Invariance, PTL

(* Replaying a journal of any length line by line gives each key what its  *)
(* last entry says (read()).                                               *)
THEOREM ReplayCorrect == Spec => []ReplayIsLastWrite
<1>1. IInv => ReplayIsLastWrite
  BY DEF IInv
<1> QED
  BY <1>1, Invariance, PTL

(* Between two calls a restart would find every key as the program sees    *)
(* it, except those whose last change the disk was not given.              *)
THEOREM DurableWhenIdle == Spec => []IdleIsDurable
<1>1. IInv => IdleIsDurable
  BY DEF IInv
<1> QED
  BY <1>1, Invariance, PTL

(* A crash inside setPropertyValue() or removeProperty() spares every      *)
(* other key.                                                              *)
THEOREM OthersDurable == Spec => []OtherKeysDurable
<1>1. IInv => OtherKeysDurable
  BY DEF IInv
<1> QED
  BY <1>1, Invariance, PTL

(* A crash inside close() loses no key the journal names or the file has   *)
(* again, and revives none.                                                *)
THEOREM CloseCrashBounded == Spec => []CloseKeepsJournalled
<1>1. IInv => CloseKeepsJournalled
  <2> SUFFICES ASSUME IInv, pc = "writing", NEW k \in Keys \ stale
               PROVE  /\ Recovered[k] \in {mem[k], NoValue}
                      /\ k \in Logged(jour, Len(jour)) \/ k \notin todo
                            => Recovered[k] = mem[k]
    BY DEF CloseKeepsJournalled
  <2>1. CASE k \in Logged(jour, Len(jour))
    BY <2>1 DEF IInv, HalfWritten
  <2>2. CASE k \notin Logged(jour, Len(jour))
    <3>1. Recovered[k] = node[k]
      BY <2>2 DEF Recovered, Replayed
    <3> QED
      BY <3>1, <2>2 DEF IInv, HalfWritten
  <2> QED
    BY <2>1, <2>2
<1> QED
  BY <1>1, Invariance, PTL

-----------------------------------------------------------------------------
(* The files implement DurableStore.                                       *)

View == IF pc \in {"open", "replay"} THEN Recovered ELSE mem

LEMMA InitRefines == Init => Durable!Init
<1> SUFFICES ASSUME Init PROVE Durable!Init
  OBVIOUS
<1>1. Empty \in Stores
  BY DEF Empty, Stores, MaybeValue
<1>2. Recovered = Empty
  BY <1>1, EmptyJournal DEF Init, Recovered
<1> QED
  BY <1>2 DEF Init, Durable!Init, Empty

(* Every step is a step of DurableStore or changes neither of its variables. *)
LEMMA StepRefines == IInv /\ [Next]_vars => [Durable!Next]_<<View, Recovered>>
<1> SUFFICES ASSUME IInv, [Next]_vars
             PROVE  Durable!Next \/ (View' = View /\ Recovered' = Recovered)
  BY DEF View
<1> USE DEF IInv
<1> DEFINE N == Len(jour)
<1>t. N \in Nat /\ N \in 0..N /\ Recovered \in Stores /\ Logged(jour, N) \in SUBSET Keys
      /\ mem \in Stores /\ node \in Stores
  BY RecoveredType DEF TypeOK, Recovered
<1>1. CASE ReadNode \/ ReplayEntry \/ SetJournalFails \/ OpenNodeFails
  <2>1. UNCHANGED files
    BY <1>1 DEF ReadNode, ReplayEntry, Applied, SetJournalFails, OpenNodeFails
  <2>2. View' = View
    BY <1>1, <2>1, SameFiles DEF ReadNode, ReplayEntry, Applied, SetJournalFails, OpenNodeFails, View
  <2> QED
    BY <2>1, <2>2, SameFiles
<1>2. CASE ReadDone
  <2>1. UNCHANGED files /\ mem' = mem /\ pc = "replay" /\ pc' = "idle"
    BY <1>2 DEF ReadDone
  <2>2. mem = Recovered
    BY <1>2 DEF ReadDone, ReplayIsLastWrite, Recovered
  <2> QED
    BY <2>1, <2>2, SameFiles DEF View
<1>3. ASSUME NEW k \in Keys, NEW v \in Values, SetMemory(k, v)
      PROVE  Durable!Next
  <2>1. Recovered' = Recovered
    BY <1>3, SameFiles DEF SetMemory
  <2>2. Durable!Put(k, v)
    BY <1>3, <2>1 DEF SetMemory, Durable!Put
  <2> QED
    BY <2>2 DEF Durable!Next
<1>4. CASE SetJournal
  <2> DEFINE e == [key |-> arg.key, value |-> arg.value]
  <2>1. arg.key \in Keys /\ arg.value \in Values /\ mem[arg.key] = arg.value
    BY <1>4 DEF SetJournal, Journalled, CallInProgress
  <2>2. e \in Entries /\ Meaning(e.value) = arg.value
    BY <2>1, RemovedAssumption DEF Entries, Meaning
  <2>3. Recovered' = [Recovered EXCEPT ![arg.key] = arg.value]
    <3> HIDE DEF e
    <3>1. jour' = Append(jour, e) /\ node' = node
      BY <1>4 DEF SetJournal, Journalled, e
    <3>2. e.key = arg.key
      BY DEF e
    <3> QED
      BY <2>2, <3>1, <3>2, AppendRecovers DEF Recovered, TypeOK
  <2>4. Recovered' = [k \in Keys |-> IF k \in {arg.key} THEN mem[k] ELSE Recovered[k]]
    BY <1>t, <2>1, <2>3 DEF Stores
  <2>5. Durable!Persist({arg.key})
    BY <1>4, <2>4 DEF SetJournal, Journalled, Durable!Persist
  <2> QED
    BY <2>1, <2>5 DEF Durable!Next
<1>5. ASSUME NEW k \in Keys, RemoveJournal(k)
      PROVE  Durable!Next \/ (View' = View /\ Recovered' = Recovered)
  <2> DEFINE e == [key |-> k, value |-> Removed]
  <2>1. e \in Entries /\ Meaning(e.value) = NoValue
    BY DEF Entries, Meaning
  <2>2. CASE jour' = Append(jour, e)
    <3>1. Recovered' = [Recovered EXCEPT ![k] = NoValue]
      <4> HIDE DEF e
      <4>1. jour' = Append(jour, e) /\ node' = node
        BY <1>5, <2>2 DEF RemoveJournal, Journalled
      <4>2. e.key = k
        BY DEF e
      <4> QED
        BY <2>1, <4>1, <4>2, AppendRecovers DEF Recovered, TypeOK
    <3>2. Recovered' = [l \in Keys |-> IF l \in {k} THEN NoValue ELSE Recovered[l]]
      BY <1>t, <3>1 DEF Stores
    <3>3. Durable!Lose({k})
      BY <1>5, <3>2 DEF RemoveJournal, Journalled, Durable!Lose
    <3> QED
      BY <3>3 DEF Durable!Next
  <2>3. CASE jour' = jour
    <3>1. UNCHANGED files
      BY <1>5, <2>3 DEF RemoveJournal, Journalled, files
    <3> QED
      BY <1>5, <3>1, SameFiles DEF RemoveJournal, Journalled, View
  <2> QED
    BY <1>5, <2>2, <2>3 DEF RemoveJournal, Journalled
<1>6. CASE RemoveMemory
  <2>1. arg.key \in Keys /\ Recovered' = Recovered
    BY <1>6, SameFiles DEF RemoveMemory, CallInProgress
  <2>2. Durable!Put(arg.key, NoValue)
    BY <1>6, <2>1 DEF RemoveMemory, Durable!Put
  <2> QED
    BY <2>1, <2>2 DEF Durable!Next
<1>7. CASE ClearMemory
  <2>1. Durable!RemoveAll
    BY <1>7, SameFiles DEF ClearMemory, Empty, Durable!RemoveAll
  <2> QED
    BY <2>1 DEF Durable!Next
<1>8. ASSUME node' = Empty, jour' = jour, mem' = mem,
             pc \in {"removeNode", "idle"}, pc' \in {"idle", "writing"}
      PROVE  Durable!Next
  <2> DEFINE S == Keys \ Logged(jour, N)
  <2>1. Recovered' = [k \in Keys |-> IF k \in S THEN NoValue ELSE Recovered[k]]
    BY <1>8 DEF Recovered, Replayed, Empty
  <2>2. Durable!Lose(S)
    BY <1>8, <2>1 DEF Durable!Lose
  <2> QED
    BY <2>2 DEF Durable!Next
<1>9. CASE RemoveNode
  <2>1. CASE node' = Empty
    BY <1>8, <1>9, <2>1 DEF RemoveNode
  <2>2. CASE node' = node
    <3>1. UNCHANGED files
      BY <1>9, <2>2 DEF RemoveNode, files
    <3> QED
      BY <1>9, <3>1, SameFiles DEF RemoveNode, View
  <2> QED
    BY <1>9, <2>1, <2>2 DEF RemoveNode
<1>10. CASE OpenNode
  BY <1>8, <1>10 DEF OpenNode, Truncated, ToWrite
<1>11. ASSUME NEW k \in Keys, WriteEntry(k)
       PROVE  Durable!Next \/ (View' = View /\ Recovered' = Recovered)
  <2>1. jour' = jour /\ mem' = mem /\ pc = "writing" /\ pc' = "writing"
        /\ node' = [node EXCEPT ![k] = mem[k]]
    BY <1>11 DEF WriteEntry
  <2>2. CASE k \in Logged(jour, N)
    <3>1. Recovered' = Recovered
      BY <1>t, <2>1, <2>2 DEF Recovered, Replayed, Stores
    <3> QED
      BY <2>1, <3>1 DEF View
  <2>3. CASE k \notin Logged(jour, N)
    <3>1. Recovered' = [l \in Keys |-> IF l \in {k} THEN mem[l] ELSE Recovered[l]]
      BY <1>t, <2>1, <2>3 DEF Recovered, Replayed, Stores
    <3>2. Durable!Persist({k})
      BY <2>1, <3>1 DEF Durable!Persist
    <3> QED
      BY <3>2 DEF Durable!Next
  <2> QED
    BY <2>2, <2>3
<1>12. CASE RemoveJournalFile
  <2>1. mem' = mem /\ node' = node /\ pc = "writing" /\ pc' = "idle" /\ todo = {}
    BY <1>12 DEF RemoveJournalFile
  <2>2. node = mem
    BY <2>1 DEF HalfWritten, TypeOK, Stores
  <2>3. CASE jour' = <<>>
    <3>1. Recovered' = mem
      BY <1>t, <2>1, <2>2, <2>3, EmptyJournal DEF Recovered
    <3>2. Recovered' = [k \in Keys |-> IF k \in Keys THEN mem[k] ELSE Recovered[k]]
      BY <1>t, <3>1 DEF Stores
    <3>3. Durable!Persist(Keys)
      BY <2>1, <3>2 DEF Durable!Persist
    <3> QED
      BY <3>3 DEF Durable!Next
  <2>4. CASE jour' = jour
    <3>1. UNCHANGED files
      BY <2>1, <2>4 DEF files
    <3> QED
      BY <2>1, <3>1, SameFiles DEF View
  <2> QED
    BY <1>12, <2>3, <2>4 DEF RemoveJournalFile
<1>13. CASE Crash
  <2>1. Durable!Restart
    BY <1>13, SameFiles DEF Crash, Durable!Restart
  <2> QED
    BY <2>1 DEF Durable!Next
<1>14. CASE UNCHANGED vars
  <2>1. UNCHANGED files
    BY <1>14 DEF vars, files
  <2> QED
    BY <1>14, <2>1, SameFiles DEF vars, View
<1> QED
  BY <1>1, <1>2, <1>3, <1>4, <1>5, <1>6, <1>7, <1>9, <1>10, <1>11, <1>12, <1>13, <1>14
     DEF Next

(* A PropertyFile is a DurableStore: what a restart finds for a key only   *)
(* ever becomes what the program sees, or nothing.                         *)
THEOREM Refinement == Spec => ImplementsDurableStore
<1>1. Init => Durable!Init
  BY InitRefines
<1>2. IInv /\ [Next]_vars => [Durable!Next]_<<View, Recovered>>
  BY StepRefines
<1> QED
  BY <1>1, <1>2, Invariance, PTL DEF Spec, Durable!Spec, ImplementsDurableStore, View

=============================================================================
