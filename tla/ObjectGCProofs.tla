--------------------------- MODULE ObjectGCProofs ---------------------------
(***************************************************************************)
(* The collector of ObjectGC.tla is safe, for any number of objects.       *)
(***************************************************************************)
EXTENDS ObjectGC, Integers, TLAPS

(* What a program can load from an object is among what the collector      *)
(* visits when it scans that object.                                       *)
LEMMA ReadsAreVisited ==
  ASSUME TypeOK, NEW o \in live \ Foreigns
  PROVE  Reads(o) \subseteq References(o)
PROOF
  <1>kinds. CASE o \in Instances
    BY <1>kinds, GCAssumption, Zenon DEF Reads, References, Children, TypeOK, Objects, Collected
  <1>table. CASE o \in Tables
    BY <1>table, GCAssumption, Zenon DEF Reads, References, Children, TypeOK, Objects, Collected
  <1>global. CASE o \in Globals
    BY <1>global, GCAssumption, Zenon DEF Reads, References, Children, TypeOK, Objects, Collected
  <1>context. CASE o \in Contexts
    BY <1>context, GCAssumption, Zenon DEF Reads, References, Children, TypeOK, Objects, Collected
  <1> QED
    BY <1>kinds, <1>table, <1>global, <1>context, Zenon DEF TypeOK, Objects, Collected

(* What counts as in use when the collector deletes the rest.              *)
LEMMA InUseParts ==
  /\ Roots \subseteq InUse
  /\ HeldByCreation \subseteq InUse
  /\ \A o \in Survivors : Reads(o) \subseteq InUse
PROOF
  <1>outer. Roots \subseteq InUse /\ HeldByCreation \subseteq InUse
    BY Zenon DEF InUse
  <1>survivors. ASSUME NEW o \in Survivors, NEW r \in Reads(o) PROVE r \in InUse
    <2>member. r \in HeldBySurvivors
      BY Zenon DEF HeldBySurvivors
    <2> QED
      BY <2>member, Zenon DEF InUse
  <1> QED
    BY <1>outer, <1>survivors, Zenon

(* The compartment starts empty.                                           *)
LEMMA GCInvInit == Init => GCInv
PROOF
  <1> SUFFICES ASSUME Init PROVE GCInv
    BY Zenon
  <1>sets. /\ live \subseteq Objects /\ rooted \subseteq Objects \cup {Comp}
           /\ rootedFns \subseteq Instances /\ initialized \subseteq Globals
           /\ unreferenced \subseteq Scanned /\ pending \subseteq Scanned \ unreferenced
           /\ \A g \in Globals \cap live : index[g] # Null
           /\ mask \subseteq Slots
    BY Zenon DEF Init
  <1>count. changes \in 0..MaxChanges
    BY GCAssumption DEF Init
  <1>scalars. /\ freed \in BOOLEAN /\ raced \in BOOLEAN
              /\ building \in Instances \cup {Null} /\ phase \in {"idle", "scan"}
    BY Zenon DEF Init
  <1>functions. /\ parts \in [Instances -> SUBSET Collected] /\ elem \in [Tables -> Refs]
                /\ index \in [Globals -> Slots \cup {Null}] /\ initialValue \in [Globals -> Refs]
                /\ initialSlot \in [Slots -> Refs] /\ slot \in [Contexts -> [Slots -> Refs]]
    BY Zenon DEF Init, Refs
  <1>seen. seen \in [Globals -> Masks]
    BY Zenon DEF Init, Masks
  <1>type. TypeOK
    BY <1>sets, <1>seen, <1>count, <1>scalars, <1>functions, Zenon DEF TypeOK
  <1>rest. SlotsClean /\ BuildingAlive /\ CollectorIdle /\ FinishedIsClosed
    BY Zenon DEF Init, SlotsClean, Owned, BuildingAlive, CollectorIdle, FinishedIsClosed
  <1>safe. NoDangling /\ RootsSurvive
    BY Zenon DEF Init, NoDangling, RootsSurvive, Alive
  <1> QED
    BY <1>type, <1>rest, <1>safe, Zenon DEF GCInv

(* Every action keeps the variables in their types.                        *)
LEMMA TypeStep == TypeOK /\ [Next]_vars => TypeOK'
PROOF
  <1> SUFFICES ASSUME TypeOK, [Next]_vars PROVE TypeOK'
    BY Zenon
  <1> USE DEF TypeOK, heap, slots, gc
  <1>fill. ASSUME NEW t \in Tables, NEW ref \in Refs, fillNewTable(t, ref) PROVE TypeOK'
    BY <1>fill DEF fillNewTable, slots, Scanned
  <1>tableFails. ASSUME NEW t \in Tables, createTableFails(t) PROVE TypeOK'
    BY <1>tableFails DEF createTableFails, slots, Scanned, Refs
  <1>read. ASSUME NEW g \in Globals, getSmallestNonMember(g) PROVE TypeOK'
    <2>1. /\ seen' = [seen EXCEPT ![g] = mask]
          /\ UNCHANGED <<live, freed, rooted, rootedFns, parts, building, elem, mask, index,
                         initialized, initialValue, initialSlot, slot, phase, unreferenced,
                         pending, changes, raced>>
      BY <1>read, Zenon DEF getSmallestNonMember
    <2>2. mask \in Masks
      BY Zenon DEF Masks
    <2>3. seen' \in [Globals -> Masks]
      BY <2>1, <2>2, Zenon
    <2> QED
      BY <2>1, <2>3, Zenon DEF Scanned
  <1>createTable. ASSUME NEW t \in Tables, createTable(t) PROVE TypeOK'
    BY <1>createTable, GCAssumption DEF createTable, GiveTo, Owners, Unlocked, Objects, Collected, Scanned, Refs
  <1>setTableElement. ASSUME NEW t \in Tables, NEW ref \in Refs, setTableElement(t, ref)
                      PROVE TypeOK'
    BY <1>setTableElement, GCAssumption DEF setTableElement, Changes, Scanned
  <1>createForeign. ASSUME NEW x \in Foreigns, createForeign(x) PROVE TypeOK'
    BY <1>createForeign, GCAssumption DEF createForeign, Unlocked, Objects, Collected, Scanned
  <1>createContext. ASSUME NEW c \in Contexts, createContext(c) PROVE TypeOK'
    BY <1>createContext, GCAssumption DEF createContext, Unlocked, Objects, Collected, Scanned
  <1>allocateSlot. ASSUME NEW g \in Globals, allocateSlot(g) PROVE TypeOK'
    <2>1. PICK s \in Slots : /\ mask' = mask \cup {s} \/ mask' = seen[g] \cup {s}
                             /\ index' = [index EXCEPT ![g] = s]
                             /\ raced' = (s \in Owned \/ ~ (Owned \subseteq mask'))
                             /\ ZeroSlot(s)
      BY <1>allocateSlot, Zenon DEF allocateSlot
    <2>2. /\ seen[g] # Null /\ seen' = [seen EXCEPT ![g] = Null]
          /\ UNCHANGED <<live, freed, rooted, rootedFns, parts, building, elem, initialized,
                         initialValue, gc, changes>>
      BY <1>allocateSlot, Zenon DEF allocateSlot
    <2>3. raced' \in BOOLEAN
      BY <2>1, Zenon
    <2>4. mask' \subseteq Slots /\ seen' \in [Globals -> Masks]
      <3>1. seen[g] \subseteq Slots /\ Null \in Masks
        BY <2>2, Zenon DEF Masks
      <3> QED
        BY <2>1, <2>2, <3>1, Zenon
    <2>5. /\ index' \in [Globals -> Slots \cup {Null}]
          /\ \A h \in Globals \cap live : index'[h] # Null
      BY <2>1, GCAssumption
    <2>6. initialSlot' \in [Slots -> Refs] /\ slot' \in [Contexts -> [Slots -> Refs]]
      BY <2>1 DEF ZeroSlot, Refs
    <2> QED
      BY <2>2, <2>3, <2>4, <2>5, <2>6, Zenon DEF Scanned
  <1>createGlobal. ASSUME NEW g \in Globals, createGlobal(g) PROVE TypeOK'
    BY <1>createGlobal DEF createGlobal, GiveTo, Owners, Unlocked, Objects, Collected, Scanned
  <1>initializeGlobal. ASSUME NEW g \in Globals, NEW ref \in Refs, initializeGlobal(g, ref)
                       PROVE TypeOK'
    BY <1>initializeGlobal, GCAssumption DEF initializeGlobal, Changes, Scanned
  <1>setGlobalValue. ASSUME NEW c \in Contexts, NEW g \in Globals, NEW ref \in Refs,
                            setGlobalValue(c, g, ref)
                     PROVE TypeOK'
    BY <1>setGlobalValue, GCAssumption DEF setGlobalValue, Changes, Scanned
  <1>instantiateModule. ASSUME NEW i \in Instances, NEW imports \in SUBSET Collected,
                               instantiateModule(i, imports)
                        PROVE TypeOK'
    BY <1>instantiateModule, Zenon DEF instantiateModule, Scanned
  <1>fails. CASE instantiationFails
    BY <1>fails, Zenon DEF instantiationFails, Scanned
  <1>publish. CASE publishInstance
    BY <1>publish, GCAssumption DEF publishInstance, Unlocked, Objects, Collected, Scanned
  <1>functionRoot. ASSUME NEW i \in Instances, addFunctionRoot(i) \/ removeFunctionRoot(i)
                   PROVE TypeOK'
    BY <1>functionRoot, GCAssumption DEF addFunctionRoot, removeFunctionRoot, Changes, Scanned
  <1>root. ASSUME NEW o \in Objects \cup {Comp}, addGCRoot(o) \/ removeGCRoot(o)
           PROVE TypeOK'
    BY <1>root, GCAssumption DEF addGCRoot, removeGCRoot, Changes, Scanned
  <1>collect. CASE collectGarbage
    BY <1>collect, Zenon DEF collectGarbage, Scanned
  <1>scan. ASSUME NEW o \in Objects \cup {Comp}, scanObject(o) PROVE TypeOK'
    BY <1>scan, Zenon DEF scanObject, Visited, Scanned
  <1>delete. CASE deleteUnreferenced
    BY <1>delete, GCAssumption DEF deleteUnreferenced, Refs, Scanned
  <1>stutter. CASE UNCHANGED vars
    BY <1>stutter, Zenon DEF vars, Scanned
  <1> QED
    BY <1>fill, <1>tableFails, <1>read,
       <1>createTable, <1>setTableElement, <1>createForeign, <1>createContext, <1>allocateSlot,
       <1>createGlobal, <1>initializeGlobal, <1>setGlobalValue, <1>instantiateModule, <1>fails,
       <1>publish, <1>functionRoot, <1>root, <1>collect, <1>scan, <1>delete, <1>stutter, Zenon DEF Next

(* The collector is idle, with no change counted, whenever it does not     *)
(* hold the compartment, and after it has freed it.                        *)
LEMMA IdleStep == GCInv /\ [Next]_vars => CollectorIdle'
PROOF
  <1> SUFFICES ASSUME GCInv, [Next]_vars PROVE CollectorIdle'
    BY Zenon
  <1> USE DEF GCInv, CollectorIdle, gc
  <1>locked. CASE phase' = phase /\ changes' = changes /\ freed' = freed
    BY <1>locked, Zenon
  <1>changed. CASE Running /\ Changes /\ phase' = phase /\ freed' = freed
    BY <1>changed, Zenon DEF Running, Changes
  <1>collect. CASE collectGarbage
    BY <1>collect, Zenon DEF collectGarbage, Unlocked, Running
  <1>delete. CASE deleteUnreferenced
    BY <1>delete, Zenon DEF deleteUnreferenced
  <1> QED
    BY <1>locked, <1>changed, <1>collect, <1>delete, Zenon
    DEF Next, vars, createTable, fillNewTable, createTableFails, setTableElement, createForeign, createContext, getSmallestNonMember,
        allocateSlot, createGlobal, initializeGlobal, setGlobalValue, instantiateModule, instantiationFails,
        publishInstance, addFunctionRoot, removeFunctionRoot, addGCRoot, removeGCRoot, scanObject

(* A slot that no global of the compartment owns yet stays null, and two   *)
(* globals never share one.                                                *)
LEMMA SlotsStep == GCInv /\ [Next]_vars => SlotsClean'
PROOF
  <1> SUFFICES ASSUME GCInv, [Next]_vars PROVE SlotsClean'
    BY Zenon
  <1>clean. SlotsClean
    BY Zenon DEF GCInv
  <1>unique. ~raced => \A g, h \in Globals : index[g] = index[h] /\ index[g] # Null => g = h
    BY <1>clean, Zenon DEF SlotsClean
  <1>unwritten. ~raced => \A g \in Globals \ live : index[g] # Null =>
                        /\ initialSlot[index[g]] = Null
                        /\ \A c \in Contexts \cap live : slot[c][index[g]] = Null
    BY <1>clean, Zenon DEF SlotsClean
  <1>first. /\ \A g \in Globals \ live : initialValue[g] = Null
            /\ \A g \in Globals : seen[g] # Null => g \notin live /\ index[g] = Null
            /\ ~raced => Owned \subseteq mask
    BY <1>clean, Zenon DEF SlotsClean
  <1>types. /\ index \in [Globals -> Slots \cup {Null}] /\ seen \in [Globals -> Masks]
            /\ initialValue \in [Globals -> Refs] /\ initialSlot \in [Slots -> Refs]
            /\ slot \in [Contexts -> [Slots -> Refs]] /\ building \in Instances \cup {Null}
            /\ \A g \in Globals \cap live : index[g] # Null
    BY Zenon DEF GCInv, TypeOK
  <1>kinds. /\ (Instances \cup Tables \cup Foreigns) \cap (Globals \cup Contexts) = {}
            /\ Globals \cap Contexts = {}
    BY GCAssumption
  <1>null. Null \notin Slots
    BY GCAssumption
  <1>same. CASE /\ UNCHANGED <<slots, initialValue, initialSlot, slot, raced>>
                /\ live' \cap (Globals \cup Contexts) = live \cap (Globals \cup Contexts)
    BY <1>same, <1>clean, Zenon DEF slots, SlotsClean, Owned
  <1>unchanged. CASE UNCHANGED <<live, slots, initialValue, initialSlot, slot, raced>>
    BY <1>unchanged, <1>same, Zenon
  <1>createTable. ASSUME NEW t \in Tables, createTable(t) PROVE SlotsClean'
    <2>1. live' \cap (Globals \cup Contexts) = live \cap (Globals \cup Contexts)
      BY <1>createTable, <1>kinds, Zenon DEF createTable
    <2> QED
      BY <1>createTable, <1>same, <2>1, Zenon DEF createTable
  <1>createForeign. ASSUME NEW x \in Foreigns, createForeign(x) PROVE SlotsClean'
    <2>1. live' \cap (Globals \cup Contexts) = live \cap (Globals \cup Contexts)
      BY <1>createForeign, <1>kinds, Zenon DEF createForeign
    <2> QED
      BY <1>createForeign, <1>same, <2>1, Zenon DEF createForeign, heap
  <1>createContext. ASSUME NEW c \in Contexts, createContext(c) PROVE SlotsClean'
    <2>1. /\ UNCHANGED <<mask, seen, index, initialValue, initialSlot, raced>>
          /\ live' = live \cup {c}
          /\ \A d \in Contexts : slot'[d] = IF d = c THEN initialSlot ELSE slot[d]
      BY <1>createContext, <1>types, Zenon DEF createContext, slots
    <2>2. \A g \in Globals : g \in live' <=> g \in live
      BY <2>1, <1>kinds, Zenon
    <2> QED
      <3>1. ~raced' => \A g \in Globals \ live' : index'[g] # Null =>
                          /\ initialSlot'[index'[g]] = Null
                          /\ \A d \in Contexts \cap live' : slot'[d][index'[g]] = Null
        BY <2>1, <2>2, <1>unwritten, Zenon
      <3>2. Owned' = Owned
        BY <2>1, Zenon DEF Owned
      <3> QED
        BY <2>1, <2>2, <3>1, <3>2, <1>unique, <1>first, Zenon DEF SlotsClean
  <1>read. ASSUME NEW g \in Globals, getSmallestNonMember(g) PROVE SlotsClean'
    <2>1. /\ g \notin live /\ index[g] = Null /\ seen' = [seen EXCEPT ![g] = mask]
          /\ UNCHANGED <<live, mask, index, initialValue, initialSlot, slot, raced>>
      BY <1>read, Zenon DEF getSmallestNonMember
    <2>2. \A h \in Globals : seen'[h] # Null => h \notin live' /\ index'[h] = Null
      BY <2>1, <1>types, <1>clean, Zenon DEF SlotsClean
    <2> QED
      BY <2>1, <2>2, <1>clean, Zenon DEF SlotsClean, Owned
  <1>allocateSlot. ASSUME NEW g \in Globals, allocateSlot(g) PROVE SlotsClean'
    <2>before. g \notin live /\ index[g] = Null /\ ~raced
      BY <1>allocateSlot, <1>clean, Zenon DEF allocateSlot, Running, SlotsClean
    <2>pick. PICK s \in Slots : /\ index' = [index EXCEPT ![g] = s]
                                /\ ZeroSlot(s) /\ s \in mask'
                                /\ raced' = (s \in Owned \/ ~ (Owned \subseteq mask'))
      BY <1>allocateSlot, Zenon DEF allocateSlot
    <2>rest. UNCHANGED <<live, initialValue>> /\ seen' = [seen EXCEPT ![g] = Null]
      BY <1>allocateSlot, Zenon DEF allocateSlot
    <2>each. \A h \in Globals : index'[h] = IF h = g THEN s ELSE index[h]
      BY <2>pick, <1>types, Zenon
    <2>first. /\ \A h \in Globals \ live' : initialValue'[h] = Null
              /\ \A h \in Globals : seen'[h] # Null => h \notin live' /\ index'[h] = Null
      BY <2>before, <2>rest, <2>each, <1>types, <1>clean, Zenon DEF SlotsClean
    <2>clean. ASSUME ~raced'
              PROVE  /\ Owned' \subseteq mask'
                     /\ \A h, k \in Globals : index'[h] = index'[k] /\ index'[h] # Null => h = k
                     /\ \A h \in Globals \ live' : index'[h] # Null =>
                           /\ initialSlot'[index'[h]] = Null
                           /\ \A c \in Contexts \cap live' : slot'[c][index'[h]] = Null
      <3>1. s \notin Owned /\ Owned \subseteq mask'
        BY <2>clean, <2>pick, Zenon
      <3>2. \A h \in Globals : index[h] # s
        BY <3>1, <2>pick, <1>null, Zenon DEF Owned
      <3>3. Owned' \subseteq mask'
        BY <3>1, <2>pick, <2>each, Zenon DEF Owned
      <3>4. \A h, k \in Globals : index'[h] = index'[k] /\ index'[h] # Null => h = k
        BY <3>2, <2>before, <2>each, <1>unique, Zenon
      <3>5. ASSUME NEW h \in Globals \ live', index'[h] # Null
            PROVE  /\ initialSlot'[index'[h]] = Null
                   /\ \A c \in Contexts \cap live' : slot'[c][index'[h]] = Null
        <4>1. CASE h = g
          <5>1. initialSlot'[s] = Null /\ \A c \in Contexts \cap live : slot'[c][s] = Null
            BY <2>pick, <1>types, Zenon DEF ZeroSlot
          <5> QED
            BY <4>1, <5>1, <2>each, <2>rest, Zenon
        <4>2. CASE h # g
          <5>1. index'[h] = index[h] /\ index[h] # s /\ index[h] \in Slots /\ h \notin live
            BY <4>2, <3>2, <3>5, <2>each, <2>rest, <1>types, Zenon
          <5>2. /\ initialSlot'[index[h]] = initialSlot[index[h]]
                /\ \A c \in Contexts : slot'[c][index[h]] = slot[c][index[h]]
            BY <5>1, <2>pick, <1>types, Zenon DEF ZeroSlot
          <5>3. /\ initialSlot[index[h]] = Null
                /\ \A c \in Contexts \cap live : slot[c][index[h]] = Null
            BY <5>1, <3>5, <2>before, <1>clean, Zenon DEF SlotsClean
          <5> QED
            BY <5>1, <5>2, <5>3, <2>rest, Zenon
        <4> QED
          BY <4>1, <4>2, Zenon
      <3> QED
        BY <3>3, <3>4, <3>5, Zenon
    <2> QED
      BY <2>first, <2>clean, Zenon DEF SlotsClean
  <1>createGlobal. ASSUME NEW g \in Globals, createGlobal(g) PROVE SlotsClean'
    <2>1. /\ index[g] # Null /\ live' = live \cup {g}
          /\ UNCHANGED <<mask, seen, index, initialValue, initialSlot, slot, raced>>
      BY <1>createGlobal, Zenon DEF createGlobal, slots
    <2>2. \A c \in Contexts : c \in live' <=> c \in live
      BY <2>1, <1>kinds, Zenon
    <2> QED
      BY <2>1, <2>2, <1>clean, Zenon DEF SlotsClean, Owned
  <1>initializeGlobal. ASSUME NEW g \in Globals, NEW ref \in Refs, initializeGlobal(g, ref)
                       PROVE SlotsClean'
    <2>1. g \in live /\ index[g] \in Slots /\ ~raced
      BY <1>initializeGlobal, <1>types, Zenon DEF initializeGlobal, Running
    <2>2. UNCHANGED <<live, mask, seen, index, raced>>
      BY <1>initializeGlobal, Zenon DEF initializeGlobal, slots
    <2>3. \A h \in Globals \ live : index[h] # Null => index[h] # index[g]
      BY <2>1, <1>clean, Zenon DEF SlotsClean
    <2>4. \A h \in Globals \ {g} : initialValue'[h] = initialValue[h]
      BY <1>initializeGlobal, <1>types, Zenon DEF initializeGlobal
    <2>5. \A k \in Slots \ {index[g]} :
             initialSlot'[k] = initialSlot[k] /\ \A c \in Contexts : slot'[c][k] = slot[c][k]
      BY <1>initializeGlobal, <1>types, Zenon DEF initializeGlobal
    <2>6. \A h \in Globals \ live : index[h] # Null => index[h] \in Slots \ {index[g]}
      BY <2>3, <1>types, Zenon
    <2> QED
      <3>1. \A h \in Globals \ live' : index'[h] # Null =>
              /\ initialSlot'[index'[h]] = Null
              /\ \A d \in Contexts \cap live' : slot'[d][index'[h]] = Null
        <4> SUFFICES ASSUME NEW h \in Globals \ live, index[h] # Null
                     PROVE  /\ initialSlot'[index[h]] = Null
                            /\ \A d \in Contexts \cap live : slot'[d][index[h]] = Null
          BY <2>2, Zenon
        <4>1. /\ initialSlot'[index[h]] = initialSlot[index[h]]
              /\ \A d \in Contexts : slot'[d][index[h]] = slot[d][index[h]]
          BY <2>2, <2>5, <2>6, Zenon
        <4> QED
          BY <2>1, <4>1, <1>unwritten, Zenon
      <3>2. \A h \in Globals \ live' : initialValue'[h] = Null
        BY <2>1, <2>2, <2>4, <1>first, Zenon
      <3>3. Owned' = Owned
        BY <2>2, Zenon DEF Owned
      <3> QED
        BY <2>1, <2>2, <3>1, <3>2, <3>3, <1>unique, <1>first, Zenon DEF SlotsClean
  <1>setGlobalValue. ASSUME NEW c \in Contexts, NEW g \in Globals, NEW ref \in Refs,
                            setGlobalValue(c, g, ref)
                     PROVE SlotsClean'
    <2>1. g \in live /\ index[g] \in Slots /\ ~raced
      BY <1>setGlobalValue, <1>types, Zenon DEF setGlobalValue, Running
    <2>2. UNCHANGED <<live, mask, seen, index, initialValue, initialSlot, raced>>
      BY <1>setGlobalValue, Zenon DEF setGlobalValue, slots
    <2>3. \A h \in Globals \ live : index[h] # Null => index[h] # index[g]
      BY <2>1, <1>clean, Zenon DEF SlotsClean
    <2>4. \A k \in Slots \ {index[g]} : \A d \in Contexts : slot'[d][k] = slot[d][k]
      BY <1>setGlobalValue, <1>types, Zenon DEF setGlobalValue
    <2>5. \A h \in Globals \ live : index[h] # Null => index[h] \in Slots \ {index[g]}
      BY <2>3, <1>types, Zenon
    <2> QED
      <3>1. \A h \in Globals \ live' : index'[h] # Null =>
              /\ initialSlot'[index'[h]] = Null
              /\ \A d \in Contexts \cap live' : slot'[d][index'[h]] = Null
        <4> SUFFICES ASSUME NEW h \in Globals \ live, index[h] # Null
                     PROVE  /\ initialSlot'[index[h]] = Null
                            /\ \A d \in Contexts \cap live : slot'[d][index[h]] = Null
          BY <2>2, Zenon
        <4>1. /\ initialSlot'[index[h]] = initialSlot[index[h]]
              /\ \A d \in Contexts : slot'[d][index[h]] = slot[d][index[h]]
          BY <2>2, <2>4, <2>5, Zenon
        <4> QED
          BY <2>1, <4>1, <1>unwritten, Zenon
      <3>2. \A h \in Globals \ live' : initialValue'[h] = Null
        BY <2>1, <2>2, <1>first, Zenon
      <3>3. Owned' = Owned
        BY <2>2, Zenon DEF Owned
      <3> QED
        BY <2>1, <2>2, <3>1, <3>2, <3>3, <1>unique, <1>first, Zenon DEF SlotsClean
  <1>publish. CASE publishInstance
    <2>1. live' \cap (Globals \cup Contexts) = live \cap (Globals \cup Contexts)
      BY <1>publish, <1>kinds, <1>types, Zenon DEF publishInstance
    <2> QED
      BY <1>publish, <1>same, <2>1, Zenon DEF publishInstance
  <1>delete. CASE deleteUnreferenced
    <2>1. ~raced /\ seen' = seen /\ live' = live \ unreferenced /\ initialSlot' = initialSlot
      BY <1>delete, Zenon DEF deleteUnreferenced, Running
    <2>2. \A g \in Globals : /\ index'[g] = IF g \in unreferenced THEN Null ELSE index[g]
                             /\ initialValue'[g] = IF g \in unreferenced THEN Null ELSE initialValue[g]
      BY <1>delete, Zenon DEF deleteUnreferenced
    <2>3. mask' = mask \ {index[g] : g \in Globals \cap unreferenced}
      BY <1>delete, Zenon DEF deleteUnreferenced
    <2>4. \A c \in Contexts \cap live' : c \in live /\ slot'[c] = slot[c]
      BY <1>delete, <2>1, Zenon DEF deleteUnreferenced
    <2>5. Owned' \subseteq mask'
      <3> SUFFICES ASSUME NEW g \in Globals, index'[g] # Null PROVE index'[g] \in mask'
        BY Zenon DEF Owned
      <3>1. g \notin unreferenced /\ index'[g] = index[g] /\ index[g] # Null
        BY <2>2, Zenon
      <3>2. index[g] \in mask
        BY <2>1, <3>1, <1>clean, Zenon DEF SlotsClean, Owned
      <3>3. \A h \in Globals \cap unreferenced : index[h] # index[g]
        BY <2>1, <3>1, <1>clean, Zenon DEF SlotsClean
      <3> QED
        BY <2>3, <3>1, <3>2, <3>3, Zenon
    <2>6. \A g \in Globals \ live' : index'[g] # Null => g \notin live /\ index'[g] = index[g]
      BY <2>1, <2>2, Zenon
    <2>7. \A g \in Globals : seen'[g] # Null => g \notin live' /\ index'[g] = Null
      BY <2>1, <2>2, <1>clean, Zenon DEF SlotsClean
    <2>8. \A g \in Globals \ live' : initialValue'[g] = Null
      BY <2>1, <2>2, <1>first, Zenon
    <2>9. \A g, h \in Globals : index'[g] = index'[h] /\ index'[g] # Null => g = h
      BY <2>1, <2>2, <1>unique, Zenon
    <2>10. \A g \in Globals \ live' : index'[g] # Null =>
             /\ initialSlot'[index'[g]] = Null
             /\ \A c \in Contexts \cap live' : slot'[c][index'[g]] = Null
      <3> SUFFICES ASSUME NEW g \in Globals \ live', index'[g] # Null
                   PROVE  /\ initialSlot'[index'[g]] = Null
                          /\ \A c \in Contexts \cap live' : slot'[c][index'[g]] = Null
        BY Zenon
      <3>1. g \notin live /\ index[g] # Null /\ index'[g] = index[g]
        BY <2>6, Zenon
      <3>2. /\ initialSlot[index[g]] = Null
            /\ \A c \in Contexts \cap live : slot[c][index[g]] = Null
        BY <2>1, <3>1, <1>unwritten, Zenon
      <3> QED
        BY <2>1, <2>4, <3>1, <3>2, Zenon
    <2> QED
      BY <2>5, <2>7, <2>8, <2>9, <2>10, Zenon DEF SlotsClean
  <1> QED
    BY <1>unchanged, <1>createTable, <1>createForeign, <1>createContext, <1>read, <1>allocateSlot,
       <1>createGlobal, <1>initializeGlobal, <1>setGlobalValue, <1>publish, <1>delete, Zenon
    DEF Next, vars, heap, fillNewTable, createTableFails, setTableElement, instantiateModule,
        instantiationFails, addFunctionRoot, removeFunctionRoot, addGCRoot, removeGCRoot,
        collectGarbage, scanObject

(* What an instantiation in progress points to is not collected, unless    *)
(* the collection is counted as a race.                                    *)
LEMMA BuildingStep == GCInv /\ [Next]_vars => BuildingAlive'
PROOF
  <1> SUFFICES ASSUME GCInv, [Next]_vars PROVE BuildingAlive'
    BY Zenon
  <1> USE GCAssumption DEF GCInv, TypeOK, BuildingAlive
  <1>same. CASE UNCHANGED <<building, live, parts, elem, raced>>
    BY <1>same, Zenon
  <1>fill. ASSUME NEW t \in Tables, NEW ref \in Refs, fillNewTable(t, ref) PROVE BuildingAlive'
    BY <1>fill DEF fillNewTable
  <1>tableFails. ASSUME NEW t \in Tables, createTableFails(t) PROVE BuildingAlive'
    BY <1>tableFails DEF createTableFails
  <1>setTableElement. ASSUME NEW t \in Tables, NEW ref \in Refs, setTableElement(t, ref)
                      PROVE BuildingAlive'
    BY <1>setTableElement DEF setTableElement
  <1>allocateSlot. ASSUME NEW g \in Globals, allocateSlot(g) PROVE BuildingAlive'
    BY <1>allocateSlot DEF allocateSlot, Running
  <1>createTable. ASSUME NEW t \in Tables, createTable(t) PROVE BuildingAlive'
    BY <1>createTable DEF createTable, GiveTo, Owners
  <1>createForeign. ASSUME NEW x \in Foreigns, createForeign(x) PROVE BuildingAlive'
    BY <1>createForeign DEF createForeign, heap
  <1>createContext. ASSUME NEW c \in Contexts, createContext(c) PROVE BuildingAlive'
    BY <1>createContext DEF createContext
  <1>createGlobal. ASSUME NEW g \in Globals, createGlobal(g) PROVE BuildingAlive'
    BY <1>createGlobal DEF createGlobal, GiveTo, Owners
  <1>instantiateModule. ASSUME NEW i \in Instances, NEW imports \in SUBSET Collected,
                               instantiateModule(i, imports)
                        PROVE BuildingAlive'
    BY <1>instantiateModule DEF instantiateModule
  <1>fails. CASE instantiationFails
    BY <1>fails, Zenon DEF instantiationFails
  <1>publish. CASE publishInstance
    BY <1>publish, Zenon DEF publishInstance
  <1>delete. CASE deleteUnreferenced
    <2>new. building \notin live' /\ building' = building
      BY <1>delete DEF deleteUnreferenced, BuildingAlive
    <2>before. ~raced
      BY <1>delete, Zenon DEF deleteUnreferenced, Running
    <2>disjoint. ASSUME ~raced', HeldByCreation # {} PROVE HeldByCreation \cap unreferenced = {}
      <3>1. unreferenced \cap InUse = {}
        BY <1>delete, <2>disjoint, Zenon DEF deleteUnreferenced, Overlapped
      <3> QED
        BY <3>1, InUseParts, Zenon
    <2>parts. ASSUME building # Null, ~raced' PROVE parts'[building] \subseteq live'
      <3>present. parts[building] \subseteq live /\ building \in Instances /\ building \notin live
        BY <2>before, <2>parts, Zenon
      <3>kept. building \notin unreferenced
        BY <3>present DEF Scanned, Objects, Collected
      <3>used. parts[building] \subseteq HeldByCreation /\ HeldByCreation # {}
        BY <2>parts, Zenon DEF HeldByCreation
      <3> QED
        BY <1>delete, <2>disjoint, <2>parts, <3>present, <3>kept, <3>used, Zenon DEF deleteUnreferenced
    <2>elements. ASSUME NEW t \in Tables \ live', ~raced' PROVE elem'[t] \in live' \cup {Null}
      <3>1. elem'[t] = IF t \in unreferenced THEN Null ELSE elem[t]
        BY <1>delete, Zenon DEF deleteUnreferenced
      <3>2. live' = live \ unreferenced
        BY <1>delete, Zenon DEF deleteUnreferenced
      <3>3. CASE t \notin unreferenced /\ elem[t] # Null
        <4>1. t \notin live /\ elem[t] \in live
          BY <2>before, <3>2, <3>3, Zenon
        <4>2. elem[t] \in HeldByCreation
          BY <3>3, <4>1, Zenon DEF HeldByCreation
        <4> QED
          BY <2>disjoint, <2>elements, <3>1, <3>2, <3>3, <4>1, <4>2, Zenon
      <3> QED
        BY <3>1, <3>3, Zenon
    <2> QED
      BY <2>new, <2>parts, <2>elements, Zenon
  <1> QED
    BY <1>same, <1>fill, <1>tableFails, <1>setTableElement, <1>allocateSlot, <1>createTable, <1>createForeign, <1>createContext, <1>createGlobal,
       <1>instantiateModule, <1>fails, <1>publish, <1>delete, Zenon
    DEF Next, vars, heap, slots, getSmallestNonMember, initializeGlobal, setGlobalValue,
        addFunctionRoot, removeFunctionRoot, addGCRoot, removeGCRoot, collectGarbage, scanObject

(* A slot that is allocated without a race is no other global's, so that   *)
(* what can be loaded from the objects there are stays the same.           *)
LEMMA AllocationKeepsReads ==
  ASSUME GCInv, NEW g \in Globals, allocateSlot(g), ~raced'
  PROVE  /\ UNCHANGED <<live, freed, rooted, rootedFns, parts, elem, initialValue, gc, changes>>
         /\ g \notin live
         /\ \A o \in Globals \cap live :
               /\ index'[o] = index[o]
               /\ initialSlot'[index[o]] = initialSlot[index[o]]
               /\ \A c \in Contexts : slot'[c][index[o]] = slot[c][index[o]]
PROOF
  <1>frame. /\ UNCHANGED <<live, freed, rooted, rootedFns, parts, elem, initialValue, gc, changes>>
            /\ g \notin live
    BY Zenon DEF allocateSlot, GCInv, SlotsClean
  <1>pick. PICK s \in Slots : s \notin Owned /\ index' = [index EXCEPT ![g] = s] /\ ZeroSlot(s)
    BY Zenon DEF allocateSlot
  <1>other. ASSUME NEW o \in Globals \cap live
            PROVE  /\ index'[o] = index[o]
                   /\ initialSlot'[index[o]] = initialSlot[index[o]]
                   /\ \A c \in Contexts : slot'[c][index[o]] = slot[c][index[o]]
    <2>1. o # g /\ index[o] # Null /\ index[o] \in Slots
      BY <1>frame, Zenon DEF GCInv, TypeOK
    <2>2. index'[o] = index[o] /\ index[o] # s
      BY <1>pick, <2>1, Zenon DEF GCInv, TypeOK, Owned
    <2> QED
      BY <1>pick, <2>1, <2>2, Zenon DEF ZeroSlot, GCInv, TypeOK
  <1> QED
    BY <1>frame, <1>other, Zenon

(* The marking invariant: the references of an object the collector has    *)
(* finished with change only in steps that are counted as changes.         *)
LEMMA ClosedStep == GCInv /\ [Next]_vars => FinishedIsClosed'
PROOF
  <1> SUFFICES ASSUME GCInv, [Next]_vars, phase' = "scan", changes' = 0, ~raced'
               PROVE  FinishedIsClosed'
    BY Zenon DEF FinishedIsClosed
  <1> USE GCAssumption DEF GCInv, TypeOK
  <1>same. CASE UNCHANGED <<live, rooted, rootedFns, heap, gc, changes, raced>>
    BY <1>same DEF FinishedIsClosed, Roots, Scanned, References, Children, heap, slots, gc
  <1>outside. ASSUME /\ UNCHANGED <<live, rooted, rootedFns, parts, gc, changes, raced, index,
                                      initialValue, initialSlot, slot>>
                     /\ \A t \in Tables \cap live : elem'[t] = elem[t]
              PROVE  FinishedIsClosed'
    <2>children. \A o \in Scanned : References(o)' = References(o)
      BY <1>outside DEF References, Children, Scanned, Objects, Collected
    <2> QED
      BY <1>outside, <2>children DEF FinishedIsClosed, Roots, Scanned, gc
  <1>fill. ASSUME NEW t \in Tables, NEW ref \in Refs, fillNewTable(t, ref) PROVE FinishedIsClosed'
    <2>1. \A u \in Tables \cap live : elem'[u] = elem[u]
      BY <1>fill, Zenon DEF fillNewTable
    <2> QED
      BY <1>fill, <1>outside, <2>1, Zenon DEF fillNewTable, slots
  <1>tableFails. ASSUME NEW t \in Tables, createTableFails(t) PROVE FinishedIsClosed'
    <2>1. \A u \in Tables \cap live : elem'[u] = elem[u]
      BY <1>tableFails, Zenon DEF createTableFails
    <2> QED
      BY <1>tableFails, <1>outside, <2>1, Zenon DEF createTableFails, slots
  <1>read. ASSUME NEW g \in Globals, getSmallestNonMember(g) PROVE FinishedIsClosed'
    BY <1>read, <1>outside, Zenon DEF getSmallestNonMember
  <1>allocateSlot. ASSUME NEW g \in Globals, allocateSlot(g) PROVE FinishedIsClosed'
    <2>before. ~raced
      BY <1>allocateSlot, Zenon DEF allocateSlot, Running
    <2>children. \A o \in Scanned : References(o)' = References(o)
      BY <1>allocateSlot, AllocationKeepsReads
      DEF References, Children, Scanned, Objects, Collected
    <2>frame. UNCHANGED <<live, rooted, rootedFns, gc, changes>>
      BY <1>allocateSlot, Zenon DEF allocateSlot
    <2> QED
      BY <2>before, <2>children, <2>frame DEF FinishedIsClosed, Roots, Scanned, gc
  <1>collect. CASE collectGarbage
    BY <1>collect DEF collectGarbage, FinishedIsClosed, Roots, Scanned, heap, slots
  <1>scan. ASSUME NEW o \in Objects \cup {Comp}, scanObject(o) PROVE FinishedIsClosed'
    <2>children. \A p : References(p)' = References(p)
      BY <1>scan DEF scanObject, heap, slots, References, Children
    <2> QED
      BY <1>scan, <2>children DEF scanObject, FinishedIsClosed, Roots, Scanned, Visited, heap, slots
  <1>disturbed. ASSUME phase = "scan", Changes, phase' = phase PROVE FALSE
    BY <1>disturbed DEF Changes
  <1>excluded. ASSUME Unlocked, UNCHANGED phase PROVE FALSE
    BY <1>excluded, Zenon DEF Unlocked
  <1>delete. CASE deleteUnreferenced
    BY <1>delete, Zenon DEF deleteUnreferenced
  <1> QED
    BY <1>same, <1>fill, <1>tableFails, <1>read, <1>allocateSlot, <1>collect, <1>scan, <1>disturbed, <1>excluded, <1>delete, Zenon
    DEF Next, vars, gc, createTable, setTableElement, createForeign, createContext,
        createGlobal, initializeGlobal, setGlobalValue, instantiateModule, instantiationFails,
        publishInstance, addFunctionRoot, removeFunctionRoot, addGCRoot, removeGCRoot

(* When the collector deletes the unreferenced objects without a race,     *)
(* none of them is a root or can be loaded from an object that survives.   *)
LEMMA DeletedIsUnused ==
  ASSUME GCInv, deleteUnreferenced, ~raced'
  PROVE  /\ Roots \cap unreferenced = {}
         /\ \A o \in Survivors : Reads(o) \cap unreferenced = {}
PROOF
  <1>disturbed. CASE Overlapped
    <2>disjoint. unreferenced \cap InUse = {}
      BY <1>disturbed, Zenon DEF deleteUnreferenced
    <2> QED
      BY <2>disjoint, InUseParts, Zenon
  <1>undisturbed. CASE changes = 0
    <2>running. ~raced /\ phase = "scan" /\ pending = {}
      BY Zenon DEF deleteUnreferenced, Running
    <2>closed. /\ Roots \cap unreferenced = {}
               /\ \A o \in Scanned \ unreferenced : References(o) \cap unreferenced = {}
      BY <1>undisturbed, <2>running, Zenon DEF GCInv, FinishedIsClosed, deleteUnreferenced
    <2>survivors. \A o \in Survivors : Reads(o) \subseteq References(o)
      BY ReadsAreVisited, Zenon DEF GCInv, Survivors
    <2> QED
      BY <2>closed, <2>survivors, Zenon DEF Survivors, Scanned
  <1>count. Overlapped \/ changes = 0
    <2>1. changes > 0 \/ changes = 0
      BY GCAssumption DEF GCInv, TypeOK
    <2> QED
      BY <2>1, Zenon DEF Overlapped
  <1> QED
    BY <1>disturbed, <1>undisturbed, <1>count, Zenon

(* Deleting an object takes nothing into what a surviving object holds.    *)
LEMMA DeletionKeepsReads ==
  ASSUME TypeOK, deleteUnreferenced, NEW o \in Survivors
  PROVE  Reads(o)' \subseteq Reads(o)
PROOF
  <1>same. /\ o \in Instances => parts'[o] = parts[o]
           /\ o \in Tables => elem'[o] = elem[o]
           /\ o \in Globals => index'[o] = index[o] /\ initialValue'[o] = initialValue[o]
    BY Zenon DEF deleteUnreferenced, Survivors
  <1>slots. /\ initialSlot' = initialSlot
            /\ \A c \in Contexts \cap live' : c \in live /\ slot'[c] = slot[c]
    BY Zenon DEF deleteUnreferenced
  <1> QED
    BY <1>same, <1>slots DEF Reads

(* The roots stay alive.                                                   *)
LEMMA RootsStep == GCInv /\ [Next]_vars => RootsSurvive'
PROOF
  <1> SUFFICES ASSUME GCInv, [Next]_vars PROVE RootsSurvive'
    BY Zenon
  <1> USE GCAssumption DEF GCInv, TypeOK, RootsSurvive, Alive
  <1>allocateSlot. ASSUME NEW g \in Globals, allocateSlot(g) PROVE RootsSurvive'
    BY <1>allocateSlot, Zenon DEF allocateSlot, Running
  <1>grows. CASE live \subseteq live' /\ UNCHANGED <<rooted, rootedFns, freed, raced>>
    BY <1>grows, Zenon
  <1>functionRoot. ASSUME NEW i \in Instances, addFunctionRoot(i) \/ removeFunctionRoot(i)
                   PROVE RootsSurvive'
    BY <1>functionRoot DEF addFunctionRoot, removeFunctionRoot
  <1>root. ASSUME NEW o \in Objects \cup {Comp}, addGCRoot(o) \/ removeGCRoot(o)
           PROVE RootsSurvive'
    BY <1>root DEF addGCRoot, removeGCRoot
  <1>delete. CASE deleteUnreferenced
    <2>suffices. SUFFICES ASSUME ~raced' PROVE RootsSurvive'
      BY Zenon
    <2>unused. Roots \cap unreferenced = {}
      BY <1>delete, <2>suffices, DeletedIsUnused, Zenon
    <2>before. ~raced /\ ~freed
      BY <1>delete, Zenon DEF deleteUnreferenced, Running
    <2>functions. rootedFns \subseteq live
      BY <2>before DEF Objects, Collected
    <2> QED
      BY <1>delete, <2>unused, <2>before, <2>functions DEF deleteUnreferenced, Roots
  <1> QED
    BY <1>grows, <1>allocateSlot, <1>functionRoot, <1>root, <1>delete, Zenon
    DEF Next, vars, createTable, fillNewTable, createTableFails, setTableElement, createForeign,
        createContext, getSmallestNonMember, createGlobal, initializeGlobal, setGlobalValue, instantiateModule, instantiationFails,
        publishInstance, collectGarbage, scanObject

(* Nothing a program can load dangles.                                     *)
LEMMA ReadsStep == GCInv /\ [Next]_vars => NoDangling'
PROOF
  <1> SUFFICES ASSUME GCInv, [Next]_vars, ~raced' PROVE NoDangling'
    BY Zenon DEF NoDangling
  <1> USE GCAssumption DEF GCInv, TypeOK
  <1>delete. CASE deleteUnreferenced
    <2>before. ~raced /\ ~freed
      BY <1>delete, Zenon DEF deleteUnreferenced, Running
    <2>take. SUFFICES ASSUME NEW o \in live' \ Foreigns PROVE Reads(o)' \subseteq Alive'
      BY Zenon DEF NoDangling
    <2>survivor. o \in Survivors
      BY <1>delete, <2>take, Zenon DEF deleteUnreferenced, Survivors
    <2>reads. Reads(o)' \subseteq Reads(o)
      BY <1>delete, <2>survivor, DeletionKeepsReads, Zenon
    <2>unused. Reads(o) \cap unreferenced = {}
      BY <1>delete, <2>survivor, DeletedIsUnused, Zenon
    <2>alive. Reads(o) \subseteq Alive
      BY <2>before, <2>survivor, Zenon DEF NoDangling, Survivors
    <2> QED
      BY <1>delete, <2>before, <2>reads, <2>unused, <2>alive DEF Alive, deleteUnreferenced
  <1>quiet. CASE UNCHANGED <<live, freed, raced, heap>>
    BY <1>quiet DEF NoDangling, Reads, Alive, heap, slots
  <1> USE DEF NoDangling, Reads, Alive, Running, Unlocked
  <1>fill. ASSUME NEW t \in Tables, NEW ref \in Refs, fillNewTable(t, ref) PROVE NoDangling'
    BY <1>fill DEF fillNewTable, slots
  <1>tableFails. ASSUME NEW t \in Tables, createTableFails(t) PROVE NoDangling'
    BY <1>tableFails DEF createTableFails, slots
  <1>read. ASSUME NEW g \in Globals, getSmallestNonMember(g) PROVE NoDangling'
    BY <1>read DEF getSmallestNonMember
  <1>createTable. ASSUME NEW t \in Tables, createTable(t) PROVE NoDangling'
    BY <1>createTable DEF createTable, slots, GiveTo, Owners, BuildingAlive, Objects, Collected
  <1>setTableElement. ASSUME NEW t \in Tables, NEW ref \in Refs, setTableElement(t, ref)
                      PROVE NoDangling'
    BY <1>setTableElement DEF setTableElement, slots
  <1>createForeign. ASSUME NEW x \in Foreigns, createForeign(x) PROVE NoDangling'
    BY <1>createForeign DEF createForeign, heap, slots
  <1>createContext. ASSUME NEW c \in Contexts, createContext(c) PROVE NoDangling'
    BY <1>createContext DEF createContext, slots, Objects, Collected
  <1>allocateSlot. ASSUME NEW g \in Globals, allocateSlot(g) PROVE NoDangling'
    <2>before. ~raced
      BY <1>allocateSlot, Zenon DEF allocateSlot
    <2>reads. \A o \in live \ Foreigns : Reads(o)' = Reads(o)
      BY <1>allocateSlot, AllocationKeepsReads DEF Objects, Collected
    <2>alive. live' = live /\ Alive' = Alive
      BY <1>allocateSlot, Zenon DEF allocateSlot
    <2> QED
      BY <2>before, <2>reads, <2>alive DEF NoDangling
  <1>createGlobal. ASSUME NEW g \in Globals, createGlobal(g) PROVE NoDangling'
    BY <1>createGlobal DEF createGlobal, slots, SlotsClean, GiveTo, Owners, BuildingAlive, Objects, Collected
  <1>initializeGlobal. ASSUME NEW g \in Globals, NEW ref \in Refs, initializeGlobal(g, ref)
                       PROVE NoDangling'
    BY <1>initializeGlobal DEF initializeGlobal, slots
  <1>setGlobalValue. ASSUME NEW c \in Contexts, NEW g \in Globals, NEW ref \in Refs,
                            setGlobalValue(c, g, ref)
                     PROVE NoDangling'
    BY <1>setGlobalValue DEF setGlobalValue, slots
  <1>instantiateModule. ASSUME NEW i \in Instances, NEW imports \in SUBSET Collected,
                               instantiateModule(i, imports)
                        PROVE NoDangling'
    BY <1>instantiateModule DEF instantiateModule, slots
  <1>fails. CASE instantiationFails
    BY <1>fails DEF instantiationFails, slots, BuildingAlive
  <1>publish. CASE publishInstance
    BY <1>publish DEF publishInstance, slots, BuildingAlive
  <1> QED
    BY <1>quiet, <1>fill, <1>tableFails, <1>read, <1>createTable, <1>setTableElement, <1>createForeign, <1>createContext,
       <1>allocateSlot, <1>createGlobal, <1>initializeGlobal, <1>setGlobalValue,
       <1>instantiateModule, <1>fails, <1>publish, <1>delete
    DEF Next, vars, addFunctionRoot, removeFunctionRoot, addGCRoot, removeGCRoot,
        collectGarbage, scanObject

(* The inductive invariant holds in every reachable state.                 *)
THEOREM GCInvAlways == Spec => []GCInv
PROOF
  <1>init. Init => GCInv
    BY GCInvInit, Zenon
  <1>step. GCInv /\ [Next]_vars => GCInv'
    <2> SUFFICES ASSUME GCInv, [Next]_vars PROVE GCInv'
      BY Zenon
    <2>type. TypeOK'
      BY TypeStep, Zenon DEF GCInv
    <2>rest. SlotsClean' /\ BuildingAlive' /\ CollectorIdle'
      BY SlotsStep, BuildingStep, IdleStep, Zenon
    <2>safe. FinishedIsClosed' /\ NoDangling' /\ RootsSurvive'
      BY ClosedStep, ReadsStep, RootsStep, Zenon
    <2> QED
      BY <2>type, <2>rest, <2>safe, Zenon DEF GCInv
  <1> QED
    BY <1>init, <1>step, PTL DEF Spec

(* For any set of objects and any graph of references between them: unless *)
(* a collection overlapped a change that the compartment's mutex does not  *)
(* keep out, no object that a program can load from the compartment has    *)
(* been deleted.                                                           *)
THEOREM NoDanglingAlways == Spec => []NoDangling
PROOF
  <1>implies. GCInv => NoDangling
    BY Zenon DEF GCInv
  <1> QED
    BY <1>implies, GCInvAlways, PTL

(* Under the same condition no rooted object, and no instance with a       *)
(* rooted function, is ever deleted.                                       *)
THEOREM RootsSurviveAlways == Spec => []RootsSurvive
PROOF
  <1>implies. GCInv => RootsSurvive
    BY Zenon DEF GCInv
  <1> QED
    BY <1>implies, GCInvAlways, PTL

(* A global enters the compartment reading null in every context, present  *)
(* and future, whichever global had its slot before, unless the choice of  *)
(* a slot raced with that of another createGlobal.  That the slot is no    *)
(* other global's, and that nothing is written to it in between, rests on  *)
(* SlotsClean.                                                             *)
THEOREM NewGlobalIsNullAlways == Spec => NewGlobalIsNull
PROOF
  <1>step. GCInv /\ [Next]_vars => [\A g \in Globals : EntersNull(g)]_vars
    <2> SUFFICES ASSUME GCInv, Next, NEW g \in Globals, ~raced, g \in live' \ live
                 PROVE /\ initialSlot'[index'[g]] = Null
                       /\ \A c \in Contexts \cap live' : slot'[c][index'[g]] = Null
      BY Zenon DEF EntersNull
    <2>cases.  \/ \E h \in Globals : createGlobal(h)
               \/ \E t \in Tables : createTable(t)
               \/ \E x \in Foreigns : createForeign(x)
               \/ \E c \in Contexts : createContext(c)
               \/ publishInstance
               \/ live' \subseteq live
      <3>value. ASSUME NEW h \in Globals, NEW ref \in Refs, NEW c \in Contexts, setGlobalValue(c, h, ref)
                PROVE  live' \subseteq live
        BY <3>value, Zenon DEF setGlobalValue
      <3>instance. ASSUME NEW i \in Instances, NEW imports \in SUBSET Collected,
                          instantiateModule(i, imports)
                   PROVE  live' \subseteq live
        BY <3>instance, Zenon DEF instantiateModule
      <3>fill. ASSUME NEW t \in Tables, NEW ref \in Refs, fillNewTable(t, ref) PROVE live' \subseteq live
        BY <3>fill, Zenon DEF fillNewTable
      <3>tableFails. ASSUME NEW t \in Tables, createTableFails(t) PROVE live' \subseteq live
        BY <3>tableFails, Zenon DEF createTableFails
      <3>read. ASSUME NEW h \in Globals, getSmallestNonMember(h) PROVE live' \subseteq live
        BY <3>read, Zenon DEF getSmallestNonMember
      <3>table. ASSUME NEW t \in Tables, NEW ref \in Refs, setTableElement(t, ref)
                PROVE  live' \subseteq live
        BY <3>table, Zenon DEF setTableElement
      <3>object. ASSUME NEW o \in Objects \cup {Comp}, addGCRoot(o) \/ removeGCRoot(o) \/ scanObject(o)
                 PROVE  live' \subseteq live
        BY <3>object, Zenon DEF addGCRoot, removeGCRoot, scanObject
      <3>whole. ASSUME instantiationFails \/ collectGarbage \/ deleteUnreferenced
                PROVE  live' \subseteq live
        BY <3>whole, Zenon DEF instantiationFails, collectGarbage, deleteUnreferenced
      <3>slot. ASSUME NEW h \in Globals, allocateSlot(h) PROVE live' \subseteq live
        BY <3>slot, Zenon DEF allocateSlot
      <3>initialize. ASSUME NEW h \in Globals, NEW ref \in Refs, initializeGlobal(h, ref)
                     PROVE  live' \subseteq live
        BY <3>initialize, Zenon DEF initializeGlobal
      <3>root. ASSUME NEW i \in Instances, addFunctionRoot(i) \/ removeFunctionRoot(i)
               PROVE  live' \subseteq live
        BY <3>root, Zenon DEF addFunctionRoot, removeFunctionRoot
      <3> QED
        BY <3>fill, <3>tableFails, <3>read, <3>value, <3>instance, <3>table, <3>object, <3>whole, <3>slot, <3>initialize, <3>root, Zenon
        DEF Next
    <2>kinds. /\ \A t \in Tables : ~ createTable(t)
              /\ \A x \in Foreigns : ~ createForeign(x)
              /\ \A c \in Contexts : ~ createContext(c)
      <3>1. g \notin Tables /\ g \notin Foreigns /\ g \notin Contexts
        BY GCAssumption
      <3> QED
        BY <3>1, Zenon DEF createTable, createForeign, createContext
    <2>publish. ~ publishInstance
      BY GCAssumption DEF publishInstance, GCInv, TypeOK
    <2>creates. createGlobal(g)
      <3>1. PICK h \in Globals : createGlobal(h)
        BY <2>cases, <2>kinds, <2>publish, Zenon
      <3>2. live' = live \cup {h}
        BY <3>1, Zenon DEF createGlobal
      <3> QED
        BY <3>1, <3>2, Zenon
    <2> QED
      <3>1. /\ g \notin live /\ index[g] # Null /\ live' = live \cup {g}
            /\ UNCHANGED <<index, initialSlot, slot>>
        BY <2>creates, Zenon DEF createGlobal, slots
      <3>2. /\ initialSlot[index[g]] = Null
            /\ \A c \in Contexts \cap live : slot[c][index[g]] = Null
        BY <3>1, Zenon DEF GCInv, SlotsClean
      <3>3. \A c \in Contexts \cap live' : c \in live
        BY <3>1, GCAssumption, Zenon
      <3> QED
        BY <3>1, <3>2, <3>3, Zenon
  <1> QED
    BY <1>step, GCInvAlways, PTL DEF Spec, NewGlobalIsNull

-----------------------------------------------------------------------------
(* The collector leaves no garbage behind.                                 *)

(* What the collector visits when it scans an object can be loaded from it.*)
LEMMA VisitsAreReads ==
  ASSUME TypeOK, NEW o \in Scanned
  PROVE  References(o) \subseteq Reads(o)
PROOF
  <1> USE GCAssumption DEF Reads, References, Children, TypeOK, Objects, Collected, Refs
  <1>instance. CASE o \in Instances
    BY <1>instance, Zenon
  <1>table. CASE o \in Tables
    BY <1>table
  <1>global. CASE o \in Globals
    <2>values. /\ initialValue[o] \in Refs /\ initialSlot[index[o]] \in Refs
               /\ \A c \in Contexts : slot[c][index[o]] \in Refs
      BY <1>global DEF Scanned
    <2> QED
      BY <1>global, <2>values
  <1>other. CASE o \in Contexts \cup {Comp}
    BY <1>other
  <1> QED
    BY <1>instance, <1>table, <1>global, <1>other, Zenon DEF Scanned

(* An object that can be loaded from a reachable one is reachable.         *)
LEMMA ReachableIsClosed ==
  ASSUME NEW o \in Reachable, NEW r \in Reads(o) \cap Alive
  PROVE  r \in Reachable
PROOF
  <1> SUFFICES ASSUME NEW S \in SUBSET Alive, ClosedFromRoots(S) PROVE r \in S
    BY Zenon DEF Reachable
  <1>member. o \in S
    BY Zenon DEF Reachable
  <1> QED
    BY <1>member, Zenon DEF ClosedFromRoots

(* A root in the compartment is reachable.                                 *)
LEMMA RootIsReachable ==
  ASSUME NEW o \in (Roots \ Foreigns) \cap Alive
  PROVE  o \in Reachable
PROOF
  BY Zenon DEF Reachable, ClosedFromRoots

(* Reachability only looks at the references of what is alive.             *)
LEMMA SameReachable ==
  ASSUME Alive' = Alive, Roots' = Roots, \A o \in Alive : Reads(o)' = Reads(o)
  PROVE  Reachable' = Reachable
PROOF
  <1>closed. ASSUME NEW S \in SUBSET Alive PROVE ClosedFromRoots(S)' <=> ClosedFromRoots(S)
    BY Zenon DEF ClosedFromRoots
  <1> QED
    BY <1>closed, Zenon DEF Reachable

LEMMA MarkedInit == Init => MarkedIsReachable
PROOF
  BY Zenon DEF Init, MarkedIsReachable

(* Whatever the collector has marked is reachable, as long as nothing has  *)
(* changed behind it.                                                      *)
LEMMA MarkedStep == GCInv /\ MarkedIsReachable /\ [Next]_vars => MarkedIsReachable'
PROOF
  <1> SUFFICES ASSUME GCInv, MarkedIsReachable, [Next]_vars, phase' = "scan", changes' = 0,
                      ~raced'
               PROVE  Scanned' \ unreferenced' \subseteq Reachable'
    BY Zenon DEF MarkedIsReachable
  <1> USE DEF GCInv
  <1>same. CASE UNCHANGED <<live, freed, rooted, rootedFns, heap, gc, changes, raced>>
    <2>reads. \A o : Reads(o)' = Reads(o)
      BY <1>same, Zenon DEF heap, slots, Reads
    <2>alive. Alive' = Alive /\ Roots' = Roots /\ Scanned' = Scanned
      BY <1>same, Zenon DEF Alive, Roots, Scanned
    <2>reachable. Reachable' = Reachable
      BY <2>reads, <2>alive, SameReachable, Zenon
    <2> QED
      BY <1>same, <2>alive, <2>reachable, Zenon DEF gc, MarkedIsReachable
  <1>outside. ASSUME ~raced, UNCHANGED <<live, freed, rooted, rootedFns, parts, initialValue, gc, changes>>,
                     \A t \in Tables \cap live : elem'[t] = elem[t],
                     \A g \in Globals \cap live :
                        /\ index'[g] = index[g]
                        /\ initialSlot'[index[g]] = initialSlot[index[g]]
                        /\ \A c \in Contexts : slot'[c][index[g]] = slot[c][index[g]]
              PROVE  Scanned' \ unreferenced' \subseteq Reachable'
    <2>alive. Alive' = Alive /\ Roots' = Roots /\ Scanned' = Scanned
      BY <1>outside, Zenon DEF Alive, Roots, Scanned
    <2>reads. \A o \in Alive : Reads(o)' = Reads(o)
      BY <1>outside, GCAssumption DEF Reads, Alive, Objects, Collected
    <2>reachable. Reachable' = Reachable
      BY <2>reads, <2>alive, SameReachable, Zenon
    <2> QED
      BY <1>outside, <2>alive, <2>reachable, Zenon DEF gc, MarkedIsReachable
  <1>fill. ASSUME NEW t \in Tables, NEW ref \in Refs, fillNewTable(t, ref)
           PROVE  Scanned' \ unreferenced' \subseteq Reachable'
    <2>1. \A u \in Tables \cap live : elem'[u] = elem[u]
      BY <1>fill, Zenon DEF fillNewTable, TypeOK
    <2> QED
      BY <1>fill, <1>outside, <2>1, Zenon DEF fillNewTable, slots
  <1>tableFails. ASSUME NEW t \in Tables, createTableFails(t)
                 PROVE  Scanned' \ unreferenced' \subseteq Reachable'
    <2>1. \A u \in Tables \cap live : elem'[u] = elem[u]
      BY <1>tableFails, Zenon DEF createTableFails, TypeOK
    <2> QED
      BY <1>tableFails, <1>outside, <2>1, Zenon DEF createTableFails, slots
  <1>read. ASSUME NEW g \in Globals, getSmallestNonMember(g)
           PROVE  Scanned' \ unreferenced' \subseteq Reachable'
    BY <1>read, <1>outside, Zenon DEF getSmallestNonMember
  <1>allocateSlot. ASSUME NEW g \in Globals, allocateSlot(g)
                   PROVE  Scanned' \ unreferenced' \subseteq Reachable'
    <2>1. ~raced
      BY <1>allocateSlot, Zenon DEF allocateSlot, Running
    <2> QED
      BY <1>allocateSlot, <1>outside, <2>1, AllocationKeepsReads, Zenon
  <1>collect. CASE collectGarbage
    <2>same. UNCHANGED <<live, freed, rooted, rootedFns>> /\ ~freed /\ unreferenced' = Scanned \ Roots
      BY <1>collect, Zenon DEF collectGarbage, Unlocked, Running
    <2>alive. Alive' = Alive /\ Roots' = Roots /\ Scanned' = Scanned
      BY <2>same, Zenon DEF Alive, Roots, Scanned
    <2>reads. \A o : Reads(o)' = Reads(o)
      BY <1>collect DEF collectGarbage, heap, slots, Reads
    <2>reachable. Reachable' = Reachable
      BY <2>reads, <2>alive, SameReachable, Zenon
    <2>roots. ASSUME NEW o \in Scanned' \ unreferenced' PROVE o \in Reachable
      <3>1. o \in (Roots \ Foreigns) \cap Alive
        BY <2>same, <2>alive, GCAssumption, Zenon DEF Scanned, Alive, Objects
      <3> QED
        BY <3>1, RootIsReachable, Zenon
    <2> QED
      BY <2>reachable, <2>roots, Zenon
  <1>scan. ASSUME NEW o \in Objects \cup {Comp}, scanObject(o)
           PROVE  Scanned' \ unreferenced' \subseteq Reachable'
    <2>same. /\ UNCHANGED <<live, freed, rooted, rootedFns>> /\ ~freed /\ ~raced /\ o \in pending
             /\ unreferenced' = unreferenced \ Visited(o)
             /\ phase = "scan" /\ changes = 0
      BY <1>scan, Zenon DEF scanObject, Running
    <2>alive. Alive' = Alive /\ Roots' = Roots /\ Scanned' = Scanned
      BY <2>same, Zenon DEF Alive, Roots, Scanned
    <2>reads. \A p : Reads(p)' = Reads(p)
      BY <1>scan, Zenon DEF scanObject, heap, slots, Reads
    <2>reachable. Reachable' = Reachable
      BY <2>reads, <2>alive, SameReachable, Zenon
    <2>scanned. o \in Scanned \ unreferenced
      BY <2>same, Zenon DEF TypeOK
    <2>marked. Scanned \ unreferenced \subseteq Reachable
      BY <2>same, Zenon DEF MarkedIsReachable
    <2>visited. ASSUME NEW r \in Visited(o) PROVE r \in Reachable
      <3>1. r \in Reads(o)
        BY <2>scanned, VisitsAreReads, Zenon DEF Visited
      <3>2. r \in Alive
        BY <2>same, Zenon DEF Visited, TypeOK, Scanned, Alive
      <3> QED
        BY <3>1, <3>2, <2>scanned, <2>marked, ReachableIsClosed, Zenon
    <2> QED
      BY <2>same, <2>alive, <2>reachable, <2>marked, <2>visited, Zenon
  <1>disturbed. ASSUME phase = "scan", Changes, phase' = phase PROVE FALSE
    BY <1>disturbed, GCAssumption DEF Changes, TypeOK
  <1>excluded. ASSUME Unlocked, UNCHANGED phase PROVE FALSE
    BY <1>excluded, Zenon DEF Unlocked
  <1>delete. CASE deleteUnreferenced
    BY <1>delete, Zenon DEF deleteUnreferenced
  <1> QED
    BY <1>same, <1>fill, <1>tableFails, <1>read, <1>allocateSlot, <1>collect, <1>scan, <1>disturbed, <1>excluded, <1>delete, Zenon
    DEF Next, vars, gc, createTable, setTableElement, createForeign, createContext,
        createGlobal, initializeGlobal, setGlobalValue, instantiateModule, instantiationFails,
        publishInstance, addFunctionRoot, removeFunctionRoot, addGCRoot, removeGCRoot

(* What is left unreferenced at the end of an undisturbed collection is    *)
(* out of reach: the objects that survive hold the roots and whatever      *)
(* they refer to.                                                          *)
LEMMA LeftIsUnreachable ==
  ASSUME GCInv, phase = "scan", pending = {}, changes = 0, ~raced
  PROVE  unreferenced \cap Reachable = {}
PROOF
  <1> USE DEF GCInv
  <1>running. ~freed /\ ~raced
    BY Zenon DEF CollectorIdle
  <1>closed. /\ Roots \cap unreferenced = {}
             /\ \A o \in Scanned \ unreferenced : References(o) \cap unreferenced = {}
    BY Zenon DEF FinishedIsClosed
  <1>roots. Roots \ Foreigns \subseteq Alive \ unreferenced
    BY <1>running, <1>closed, Zenon DEF RootsSurvive, Roots
  <1>empty. CASE Comp \in unreferenced
    <2>1. \A o \in Scanned \ unreferenced : FALSE
      BY <1>closed, <1>empty, GCAssumption, Zenon DEF References
    <2>2. Roots \ Foreigns = {}
      BY <1>roots, <2>1, Zenon DEF Scanned, Alive
    <2>3. ClosedFromRoots({})
      BY <2>2, Zenon DEF ClosedFromRoots
    <2> QED
      BY <2>3, Zenon DEF Reachable
  <1>kept. CASE Comp \notin unreferenced
    <2> DEFINE S == Alive \ unreferenced
    <2>1. ASSUME NEW o \in S PROVE Reads(o) \subseteq S
      <3>1. CASE o \in live \ Foreigns
        <4>1. Reads(o) \subseteq Alive
          BY <1>running, <3>1, Zenon DEF NoDangling
        <4>2. Reads(o) \subseteq References(o)
          BY <3>1, ReadsAreVisited, Zenon
        <4>3. o \in Scanned \ unreferenced
          BY <2>1, <3>1, Zenon DEF Scanned
        <4> QED
          BY <1>closed, <4>1, <4>2, <4>3, Zenon
      <3>2. CASE o \in Foreigns \cup {Comp}
        <4>1. Reads(o) = {Comp}
          BY <3>2, GCAssumption DEF Reads, Objects, Collected
        <4> QED
          BY <1>kept, <1>running, <4>1, Zenon DEF Alive
      <3> QED
        BY <3>1, <3>2, Zenon DEF Alive
    <2>2. ClosedFromRoots(S)
      BY <1>roots, <2>1, Zenon DEF ClosedFromRoots
    <2> QED
      BY <2>2, Zenon DEF Reachable
  <1> QED
    BY <1>empty, <1>kept, Zenon

(* "Frees any unreferenced objects owned by a compartment": for any graph  *)
(* of references, an undisturbed collection deletes exactly the objects of *)
(* the compartment that no root reaches, cycles included, in one run.      *)
THEOREM CollectsAllGarbageAlways == Spec => []CollectsAllGarbage
PROOF
  <1>init. Init => MarkedIsReachable
    BY MarkedInit, Zenon
  <1>step. GCInv /\ MarkedIsReachable /\ [Next]_vars => MarkedIsReachable'
    BY MarkedStep, Zenon
  <1>exact. GCInv /\ MarkedIsReachable => CollectsAllGarbage
    <2> SUFFICES ASSUME GCInv, MarkedIsReachable, phase = "scan", pending = {}, changes = 0,
                        ~raced
                 PROVE  unreferenced = Scanned \ Reachable
      BY Zenon DEF CollectsAllGarbage
    <2>left. unreferenced \cap Reachable = {}
      BY LeftIsUnreachable, Zenon
    <2> QED
      BY <2>left, Zenon DEF MarkedIsReachable, GCInv, TypeOK
  <1> QED
    BY <1>init, <1>step, <1>exact, GCInvAlways, PTL DEF Spec

-----------------------------------------------------------------------------
(* The ids of a compartment's objects.  A compartment has an IndexMap (see *)
(* IndexMap.tla) for every kind of object; an object holds its id as long  *)
(* as it lives.                                                            *)

CONSTANTS MinIndex, MaxIndex, Modulus, FailIndex

VARIABLES map, lastIndex, pc, result, start

Ids == INSTANCE IndexMap

(* A range of ids from which add can wrap back to minIndex.  IndexMap.h:33 *)
(* detects the end of the range with lastIndex > maxIndex, which the       *)
(* largest value of the index type never satisfies: a range may only end   *)
(* there when it starts at 0.  So it is for the maps of a compartment and  *)
(* for WASI's file descriptors.                                            *)
IdRange ==
  /\ MinIndex \in Int /\ MaxIndex \in Int /\ Modulus \in Int /\ FailIndex \in Int
  /\ 0 <= MinIndex /\ MinIndex <= MaxIndex /\ MaxIndex < Modulus
  /\ MinIndex = 0 \/ MaxIndex < Modulus - 1
  /\ FailIndex \in 0 .. Modulus - 1

\* The value of lastIndex before the first allocation.
Before == (MinIndex - 1) % Modulus

\* The place in the range that Distance counts from.
Origin == IF start \in Ids!Indices THEN start ELSE MinIndex - 1

\* Every index the current call of add has passed over is allocated.
Passed ==
  lastIndex \in Ids!Indices
  /\ \A i \in Ids!Indices : Ids!Distance(i) <= Ids!Distance(lastIndex) => i \in map

(* The inductive strengthening of AllocatedInRange and AllocatesNextFree:  *)
(* lastIndex is an index of the range once something has been probed, and  *)
(* between the place where a call of add started and the place it has      *)
(* reached everything is allocated.                                        *)
IdInv ==
  /\ map \subseteq Ids!Indices
  /\ lastIndex \in Ids!Indices \cup {Before}
  /\ start \in Ids!Indices \cup {Before}
  /\ pc \in {"idle", "probing"}
  /\ pc = "probing" => lastIndex = start \/ Passed

(* Advance goes to the next index of the range, cyclically.                *)
LEMMA AdvanceIs ==
  ASSUME IdRange
  PROVE  /\ \A i \in Ids!Indices : Ids!Advance(i) = IF i = MaxIndex THEN MinIndex ELSE i + 1
         /\ Ids!Advance(Before) = MinIndex
  <1>1. ASSUME NEW i \in Ids!Indices
        PROVE  Ids!Advance(i) = IF i = MaxIndex THEN MinIndex ELSE i + 1
    <2>1. i \in Int /\ MinIndex <= i /\ i <= MaxIndex
      BY DEF IdRange, Ids!Indices
    <2>2. CASE i = Modulus - 1
      <3>1. (i + 1) % Modulus = 0
        BY <2>2 DEF IdRange
      <3> QED
        BY <2>1, <2>2, <3>1 DEF IdRange, Ids!Advance
    <2>3. CASE i # Modulus - 1
      <3>1. (i + 1) % Modulus = i + 1
        BY <2>1, <2>3 DEF IdRange
      <3> QED
        BY <2>1, <3>1 DEF IdRange, Ids!Advance
    <2> QED
      BY <2>2, <2>3, Zenon
  <1>2. CASE MinIndex = 0
    <2>1. Before = Modulus - 1
      BY <1>2 DEF IdRange, Before
    <2>2. (Modulus - 1 + 1) % Modulus = 0
      BY DEF IdRange
    <2> QED
      BY <1>1, <1>2, <2>1, <2>2, Zenon DEF IdRange, Ids!Advance
  <1>3. CASE MinIndex # 0
    <2>1. Before = MinIndex - 1
      BY <1>3 DEF IdRange, Before
    <2>2. (MinIndex - 1 + 1) % Modulus = MinIndex
      BY DEF IdRange
    <2> QED
      BY <1>1, <2>1, <2>2, Zenon DEF IdRange, Ids!Advance
  <1> QED
    BY <1>1, <1>2, <1>3, Zenon

(* Distance without the modulus: the indices after the origin come first,  *)
(* then the ones from MinIndex on.                                         *)
LEMMA DistanceIs ==
  ASSUME IdRange
  PROVE  /\ Origin \in (MinIndex - 1) .. MaxIndex
         /\ \A i \in Ids!Indices :
               Ids!Distance(i) = IF i > Origin THEN i - Origin - 1
                                 ELSE i - Origin + MaxIndex - MinIndex
  <1>1. Origin \in Int /\ MinIndex - 1 <= Origin /\ Origin <= MaxIndex
    BY DEF IdRange, Origin, Ids!Indices
  <1>2. ASSUME NEW i \in Ids!Indices
        PROVE  Ids!Distance(i) = IF i > Origin THEN i - Origin - 1
                                 ELSE i - Origin + MaxIndex - MinIndex
    <2>1. i \in Int /\ MinIndex <= i /\ i <= MaxIndex
      BY DEF IdRange, Ids!Indices
    <2>2. Ids!Distance(i) = (i - Origin - 1) % (MaxIndex - MinIndex + 1)
      BY Zenon DEF Ids!Distance, Origin
    <2>3. PICK n \in Int : n = MaxIndex - MinIndex + 1 /\ n > 0
      BY DEF IdRange
    <2>4. PICK k \in Int : k = i - Origin - 1
      BY <1>1, <2>1
    <2>5. k < n /\ k >= 0 - n
      BY <1>1, <2>1, <2>3, <2>4 DEF IdRange
    <2>6. k % n = IF k >= 0 THEN k ELSE k + n
      BY <2>3, <2>5
    <2> QED
      BY <1>1, <2>1, <2>2, <2>3, <2>4, <2>6 DEF IdRange
  <1> QED
    BY <1>1, <1>2

(* Two indices at the same distance are the same, and the next index is at *)
(* the next distance; after the last one the count starts again.           *)
LEMMA DistanceSteps ==
  ASSUME IdRange
  PROVE  /\ \A i \in Ids!Indices :
               Ids!Distance(i) \in Int /\ 0 <= Ids!Distance(i) /\ Ids!Distance(i) <= MaxIndex - MinIndex
         /\ \A i, j \in Ids!Indices : Ids!Distance(i) = Ids!Distance(j) => i = j
         /\ \A i \in Ids!Indices :
               LET next == IF i = MaxIndex THEN MinIndex ELSE i + 1
               IN  Ids!Distance(next) = IF Ids!Distance(i) = MaxIndex - MinIndex THEN 0
                                        ELSE Ids!Distance(i) + 1
         /\ start \in Ids!Indices => Ids!Distance(start) = MaxIndex - MinIndex
         /\ start \notin Ids!Indices => Ids!Distance(MinIndex) = 0
  <1>1. Origin \in Int /\ MinIndex - 1 <= Origin /\ Origin <= MaxIndex
    BY DistanceIs DEF IdRange
  <1>2. \A i \in Ids!Indices :
               Ids!Distance(i) = IF i > Origin THEN i - Origin - 1
                                 ELSE i - Origin + MaxIndex - MinIndex
    BY DistanceIs, Zenon
  <1>3. \A i : i \in Ids!Indices <=> i \in Int /\ MinIndex <= i /\ i <= MaxIndex
    BY DEF IdRange, Ids!Indices
  <1>4. IF start \in Ids!Indices THEN start = Origin ELSE Origin = MinIndex - 1
    BY Zenon DEF Origin
  <1>5. /\ \A i \in Ids!Indices :
               Ids!Distance(i) \in Int /\ 0 <= Ids!Distance(i) /\ Ids!Distance(i) <= MaxIndex - MinIndex
        /\ \A i, j \in Ids!Indices : Ids!Distance(i) = Ids!Distance(j) => i = j
    BY <1>1, <1>2, <1>3 DEF IdRange
  <1>6. ASSUME NEW i \in Ids!Indices
        PROVE  LET next == IF i = MaxIndex THEN MinIndex ELSE i + 1
               IN  Ids!Distance(next) = IF Ids!Distance(i) = MaxIndex - MinIndex THEN 0
                                        ELSE Ids!Distance(i) + 1
    <2>1. CASE i = MaxIndex
      BY <1>1, <1>2, <1>3, <2>1 DEF IdRange
    <2>2. CASE i # MaxIndex
      BY <1>1, <1>2, <1>3, <2>2 DEF IdRange
    <2> QED
      BY <2>1, <2>2, Zenon
  <1>7. /\ start \in Ids!Indices => Ids!Distance(start) = MaxIndex - MinIndex
        /\ start \notin Ids!Indices => Ids!Distance(MinIndex) = 0
    BY <1>1, <1>2, <1>3, <1>4 DEF IdRange
  <1> QED
    BY <1>5, <1>6, <1>7, Zenon

(* An iteration of the loop of add reaches an index of the range, before   *)
(* which, counted from where the call started, there is no free one.       *)
LEMMA ProbeReaches ==
  ASSUME IdRange, IdInv, pc = "probing"
  PROVE  /\ Ids!Advance(lastIndex) \in Ids!Indices
         /\ \A i \in Ids!Indices \ map :
               Ids!Distance(Ids!Advance(lastIndex)) <= Ids!Distance(i)
  <1>1. \A i : i \in Ids!Indices <=> i \in Int /\ MinIndex <= i /\ i <= MaxIndex
    BY DEF IdRange, Ids!Indices
  <1>2. \A i \in Ids!Indices :
           Ids!Distance(i) \in Int /\ 0 <= Ids!Distance(i) /\ Ids!Distance(i) <= MaxIndex - MinIndex
    BY DistanceSteps, Zenon
  <1>3. Ids!Advance(lastIndex) \in Ids!Indices
    BY <1>1, AdvanceIs DEF IdInv, IdRange
  <1>4. CASE lastIndex = start
    <2>1. Ids!Distance(Ids!Advance(lastIndex)) = 0
      <3>1. CASE start \in Ids!Indices
        BY <1>4, <3>1, AdvanceIs, DistanceSteps, Zenon
      <3>2. CASE start \notin Ids!Indices
        BY <1>4, <3>2, AdvanceIs, DistanceSteps, Zenon DEF IdInv
      <3> QED
        BY <3>1, <3>2, Zenon
    <2> QED
      BY <1>2, <1>3, <2>1, Zenon
  <1>5. CASE Passed
    <2>1. lastIndex \in Ids!Indices
      BY <1>5, Zenon DEF Passed
    <2>2. \A i \in Ids!Indices \ map : Ids!Distance(i) > Ids!Distance(lastIndex)
      BY <1>2, <1>5, <2>1 DEF Passed
    <2>3. Ids!Distance(Ids!Advance(lastIndex)) = IF Ids!Distance(lastIndex) = MaxIndex - MinIndex THEN 0
                                        ELSE Ids!Distance(lastIndex) + 1
      BY <2>1, AdvanceIs, DistanceSteps, Zenon
    <2> QED
      BY <1>2, <1>3, <2>1, <2>2, <2>3 DEF IdRange
  <1> QED
    BY <1>3, <1>4, <1>5, Zenon DEF IdInv

(* The loop of add either passes over an allocated index or allocates the  *)
(* one it has reached.                                                     *)
LEMMA ProbeKeepsInv ==
  ASSUME IdRange, IdInv, Ids!Probe
  PROVE  IdInv'
  <1>1. PICK a : a = Ids!Advance(lastIndex)
    BY Zenon
  <1>2. pc = "probing" /\ lastIndex' = a /\ start' = start
    BY <1>1, Zenon DEF Ids!Probe
  <1>3. a \in Ids!Indices /\ \A i \in Ids!Indices \ map : Ids!Distance(a) <= Ids!Distance(i)
    BY <1>1, <1>2, ProbeReaches, Zenon
  <1>4. \A i : Ids!Distance(i)' = Ids!Distance(i)
    BY <1>2, Zenon DEF Ids!Distance, Ids!Indices
  <1>5. CASE a \in map
    <2>1. map' = map /\ pc' = pc
      BY <1>1, <1>5, Zenon DEF Ids!Probe
    <2>2. ASSUME NEW i \in Ids!Indices, Ids!Distance(i) <= Ids!Distance(a), i \notin map
          PROVE  FALSE
      BY <1>3, <1>5, <2>2, DistanceSteps
    <2>3. Passed'
      BY <1>2, <1>3, <1>4, <2>1, <2>2, Zenon DEF Passed, Ids!Indices
    <2> QED
      BY <1>2, <1>3, <2>1, <2>3, Zenon DEF IdInv, Before, Ids!Indices
  <1>6. CASE a \notin map
    <2>1. map' = map \cup {a} /\ pc' = "idle"
      BY <1>1, <1>6, Zenon DEF Ids!Probe
    <2> QED
      BY <1>2, <1>3, <2>1, Zenon DEF IdInv, Before, Ids!Indices
  <1> QED
    BY <1>5, <1>6, Zenon

(* Every operation keeps the strengthened invariant.                       *)
LEMMA IdStep ==
  ASSUME IdRange, IdInv, [Ids!Next]_(Ids!vars)
  PROVE  IdInv'
  <1> USE DEF IdInv, Passed, Before, Ids!Indices, Ids!Distance
  <1>1. CASE UNCHANGED Ids!vars
    BY <1>1, Zenon DEF Ids!vars
  <1>2. CASE Ids!Probe
    BY <1>2, ProbeKeepsInv, Zenon
  <1>3. CASE Ids!add
    BY <1>3, Zenon DEF Ids!add
  <1>4. ASSUME NEW i \in Ids!Indices, Ids!insertOrFail(i) \/ Ids!removeOrFail(i)
        PROVE  IdInv'
    BY <1>4, Zenon DEF Ids!insertOrFail, Ids!removeOrFail
  <1> QED
    BY <1>1, <1>2, <1>3, <1>4, Zenon DEF Ids!Next

(* The inductive invariant of IndexMap holds in every reachable state.     *)
THEOREM IdInvAlways == IdRange /\ Ids!Spec => []IdInv
  <1> SUFFICES ASSUME IdRange
               PROVE  Ids!Spec => []IdInv
    BY Zenon
  <1>1. Ids!Init => IdInv
    BY Zenon DEF IdRange, Ids!Init, IdInv, Ids!Indices, Before
  <1>2. IdInv /\ [Ids!Next]_(Ids!vars) => IdInv'
    BY IdStep, Zenon
  <1> QED
    BY <1>1, <1>2, PTL DEF Ids!Spec

(* The assertions of add (IndexMap.h:37-38) never fail, for any width of   *)
(* the index type and any range in IdRange: no sequence of add,            *)
(* insertOrFail and removeOrFail leaves the range.                         *)
THEOREM AllocatedInRangeAlways == IdRange /\ Ids!Spec => []Ids!AllocatedInRange
  <1>1. IdInv => Ids!AllocatedInRange
    BY Zenon DEF IdInv, Ids!AllocatedInRange
  <1> QED
    BY <1>1, IdInvAlways, PTL

(* When add returns an id nobody holds it, and it is the first free one    *)
(* after the id allocated last, cyclically (IndexMap.h:17-20): of all free *)
(* ids, the one released last is reused last.                              *)
THEOREM AllocatesNextFreeAlways == IdRange /\ Ids!Spec => Ids!AllocatesNextFree
  <1> SUFFICES ASSUME IdRange
               PROVE  Ids!Spec => Ids!AllocatesNextFree
    BY Zenon
  <1> DEFINE Returns ==
        pc = "probing" /\ pc' = "idle" =>
          /\ result' \notin map
          /\ map' = map \cup {result'}
          /\ \A free \in Ids!Indices \ map : Ids!Distance(result') <= Ids!Distance(free)
  <1>1. ASSUME IdInv, Ids!Next, pc = "probing", pc' = "idle"
        PROVE  /\ result' \notin map
               /\ map' = map \cup {result'}
               /\ \A free \in Ids!Indices \ map : Ids!Distance(result') <= Ids!Distance(free)
    <2>1. Ids!Probe
      BY <1>1, Zenon DEF Ids!Next, Ids!add, Ids!insertOrFail, Ids!removeOrFail
    <2>2. /\ Ids!Advance(lastIndex) \notin map
          /\ result' = Ids!Advance(lastIndex)
          /\ map' = map \cup {Ids!Advance(lastIndex)}
      BY <1>1, <2>1, Zenon DEF Ids!Probe
    <2> QED
      BY <1>1, <2>2, ProbeReaches, Zenon
  <1>2. IdInv /\ [Ids!Next]_(Ids!vars) => [Returns]_(Ids!vars)
    BY <1>1, Zenon
  <1> QED
    BY <1>2, IdInvAlways, PTL DEF Ids!Spec, Ids!AllocatesNextFree

=============================================================================
