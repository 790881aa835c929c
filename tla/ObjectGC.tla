------------------------------ MODULE ObjectGC ------------------------------
(***************************************************************************)
(* The objects of one compartment and the collector that frees them        *)
(* (Lib/Runtime/ObjectGC.cpp), with the operations that create objects and *)
(* change the references between them (Compartment.cpp, Context.cpp,       *)
(* Global.cpp, Table.cpp, Instance.cpp).                                   *)
(*                                                                         *)
(* The collector holds the compartment's mutex exclusively, so nothing     *)
(* that takes that mutex runs between its first and its last step.  The    *)
(* writes of running WebAssembly code (table.set, global.set), the         *)
(* initialization of a global and the reference counting of roots do not   *)
(* take it, and may fall between two of the collector's steps.             *)
(*                                                                         *)
(* A function is not an object of its own here: it lives as long as its    *)
(* instance, and the collector treats a reference to a function as a       *)
(* reference to that instance.  Memories and exception types, which hold   *)
(* no references, behave as tables whose element stays null.               *)
(***************************************************************************)
EXTENDS Naturals, FiniteSets

CONSTANTS Instances, Tables, Globals, Contexts, Foreigns,
          Comp,         \* the compartment object itself
          Null,         \* the null reference
          Referents,    \* the objects that tables and globals may refer to
          NumSlots,     \* maxMutableGlobals
          MaxChanges    \* bound on the changes that overlap one collection

Collected == Instances \cup Tables \cup Globals \cup Contexts

Objects == Collected \cup Foreigns

Slots == 0..(NumSlots - 1)

ASSUME GCAssumption ==
    /\ NumSlots \in Nat /\ MaxChanges \in Nat
    /\ Referents \subseteq Objects
    /\ Comp \notin Objects
    /\ Null \notin Objects \cup {Comp} \cup Slots
    /\ Instances \cap (Tables \cup Globals \cup Contexts \cup Foreigns) = {}
    /\ Tables \cap (Globals \cup Contexts \cup Foreigns) = {}
    /\ Globals \cap (Contexts \cup Foreigns) = {}
    /\ Contexts \cap Foreigns = {}

VARIABLES
    live,           \* the objects in the compartment's index maps
    freed,          \* whether the compartment object has been deleted
    rooted,         \* the objects with numRootReferences > 0
    rootedFns,      \* the instances one of whose functions has a root reference
    parts,          \* per instance: its functions', tables', globals' objects
    building,       \* the instance whose ID is reserved but whose slot is null
    elem,           \* per table: the reference it holds
    mask,           \* globalDataAllocationMask
    seen,           \* per createGlobal in progress: the mask it has read
    index,          \* per global: its mutableGlobalIndex
    initialized,    \* the globals with hasBeenInitialized
    initialValue,   \* per global: initialValue
    initialSlot,    \* initialContextMutableGlobals
    slot,           \* per context: its mutableGlobals
    phase,          \* the collector: "idle" or "scan"
    unreferenced,   \* GCState::unreferencedObjects
    pending,        \* GCState::pendingScanObjects
    changes,        \* the changes since the collector started
    raced           \* history: two accesses that no lock keeps apart went wrong

slots == <<mask, seen, index>>
heap == <<parts, building, elem, slots, initialized, initialValue, initialSlot, slot>>
gc == <<phase, unreferenced, pending>>
vars == <<live, freed, rooted, rootedFns, heap, gc, changes, raced>>

Refs == Referents \cup {Null}

\* What seen may be: no mask, or a set of slots.
Masks == {Null} \cup SUBSET Slots

ChildrenInitialOnly(o) ==
    CASE o \in Instances -> parts[o]
      [] o \in Tables -> {elem[o]}
      [] o \in Globals -> {initialValue[o], initialSlot[index[o]]}
      [] OTHER -> {}

\* What scanObject visits, by the kind of the object.
Children(o) ==
    CASE o \in Instances -> parts[o]
      [] o \in Tables -> {elem[o]}
      [] o \in Globals ->
            {initialValue[o], initialSlot[index[o]]}
            \cup {slot[c][index[o]] : c \in Contexts \cap live}
      [] OTHER -> {}

References(o) == ({Comp} \cup Children(o)) \ {Null}

\* What a program can load from an object: the elements of a table, the value
\* of a global in each context and in the contexts to come, an instance's
\* functions, tables, memories, globals and exception types.
Reads(o) ==
    LET values == IF o \notin Globals THEN {}
                  ELSE {initialValue[o], initialSlot[index[o]]}
                       \cup {slot[c][index[o]] : c \in Contexts \cap live}
    IN  {Comp} \cup {r \in Objects : \/ (o \in Instances /\ r \in parts[o])
                                     \/ (o \in Tables /\ r = elem[o])
                                     \/ (r \in values)}

RootsNoFunctions == rooted

Roots == rooted \cup (rootedFns \cap live)

-----------------------------------------------------------------------------
Init ==
    /\ live = {}
    /\ freed = FALSE
    /\ rooted = {Comp}
    /\ rootedFns = {}
    /\ parts = [i \in Instances |-> {}]
    /\ building = Null
    /\ elem = [t \in Tables |-> Null]
    /\ mask = {}
    /\ seen = [g \in Globals |-> Null]
    /\ index = [g \in Globals |-> Null]
    /\ initialized = {}
    /\ initialValue = [g \in Globals |-> Null]
    /\ initialSlot = [s \in Slots |-> Null]
    /\ slot = [c \in Contexts |-> [s \in Slots |-> Null]]
    /\ phase = "idle" /\ unreferenced = {} /\ pending = {}
    /\ changes = 0
    /\ raced = FALSE

Running == ~freed /\ ~raced

\* Operations that take the compartment's mutex wait for the collector.
Unlocked == Running /\ phase = "idle"

\* A change the collector's lock does not keep out.
Changes == IF phase = "idle" THEN UNCHANGED changes
           ELSE changes < MaxChanges /\ changes' = changes + 1

-----------------------------------------------------------------------------
(* Creating objects.  The objects a module defines are added to the arrays *)
(* that become the instance's; the host may also create objects itself.    *)

Owners == {building, Null}

GiveTo(owner, o) ==
    parts' = IF owner = Null THEN parts ELSE [parts EXCEPT ![owner] = @ \cup {o}]

\* createTable fills the new table before it takes the compartment's mutex.
fillNewTable(t, ref) ==
    /\ Running
    /\ t \notin live /\ elem[t] = Null
    /\ ref \in live
    /\ elem' = [elem EXCEPT ![t] = ref]
    /\ UNCHANGED <<live, freed, rooted, rootedFns, parts, building, slots, initialized,
                   initialValue, initialSlot, slot, gc, changes, raced>>

\* The table could not be grown to its minimum size.
createTableFails(t) ==
    /\ Running
    /\ t \notin live /\ elem[t] # Null
    /\ elem' = [elem EXCEPT ![t] = Null]
    /\ UNCHANGED <<live, freed, rooted, rootedFns, parts, building, slots, initialized,
                   initialValue, initialSlot, slot, gc, changes, raced>>

createTable(t) ==
    /\ Unlocked
    /\ t \notin live
    /\ live' = live \cup {t}
    /\ \E owner \in Owners : GiveTo(owner, t)
    /\ UNCHANGED <<freed, rooted, rootedFns, building, elem, slots, initialized, initialValue,
                   initialSlot, slot, gc, changes, raced>>

createForeign(x) ==
    /\ Unlocked
    /\ x \notin live
    /\ live' = live \cup {x}
    /\ UNCHANGED <<freed, rooted, rootedFns, heap, gc, changes, raced>>

createContext(c) ==
    /\ Unlocked
    /\ c \notin live
    /\ live' = live \cup {c}
    /\ slot' = [slot EXCEPT ![c] = initialSlot]
    /\ UNCHANGED <<freed, rooted, rootedFns, parts, building, elem, slots, initialized,
                   initialValue, initialSlot, gc, changes, raced>>

ZeroSlotInitial(s) ==
    /\ initialSlot' = [initialSlot EXCEPT ![s] = Null]
    /\ UNCHANGED slot

\* The value a newly allocated slot has in all current and future contexts.
ZeroSlot(s) ==
    /\ initialSlot' = [initialSlot EXCEPT ![s] = Null]
    /\ slot' = [c \in Contexts |-> IF c \in live THEN [slot[c] EXCEPT ![s] = Null] ELSE slot[c]]

\* The slots of the globals there are, in the compartment or not yet.
Owned == {index[g] : g \in Globals} \ {Null}

\* The first half of createGlobal does not take the compartment's mutex, nor
\* are its accesses to the mask atomic: getSmallestNonMember reads it ...
getSmallestNonMember(g) ==
    /\ Running
    /\ g \notin live /\ index[g] = Null /\ seen[g] = Null
    /\ Slots \ mask # {}
    /\ seen' = [seen EXCEPT ![g] = mask]
    /\ UNCHANGED <<live, freed, rooted, rootedFns, parts, building, elem, mask, index,
                   initialized, initialValue, initialSlot, slot, gc, changes, raced>>

\* ... and add sets the bit, in the mask as it is or in the one read before.
\* That goes wrong when the slot has been taken in the meantime, or when the
\* bit of another global's slot is lost.
allocateSlot(g) ==
    /\ Running
    /\ seen[g] # Null
    /\ \E s \in Slots \ seen[g] :
          /\ \A r \in 0..(s - 1) : r \in seen[g]
          /\ \E base \in {mask, seen[g]} : mask' = base \cup {s}
          /\ index' = [index EXCEPT ![g] = s]
          /\ raced' = (s \in Owned \/ ~ (Owned \subseteq mask'))
          /\ ZeroSlot(s)
    /\ seen' = [seen EXCEPT ![g] = Null]
    /\ UNCHANGED <<live, freed, rooted, rootedFns, parts, building, elem, initialized,
                   initialValue, gc, changes>>

createGlobal(g) ==
    /\ Unlocked
    /\ g \notin live /\ index[g] # Null
    /\ live' = live \cup {g}
    /\ \E owner \in Owners : GiveTo(owner, g)
    /\ UNCHANGED <<freed, rooted, rootedFns, building, elem, slots, initialized, initialValue,
                   initialSlot, slot, gc, changes, raced>>

\* "Initialize the global's mutable value for all current and future contexts."
initializeGlobal(g, ref) ==
    /\ Running
    /\ g \in live \ initialized
    /\ ref \in live \cup {Null}
    /\ initialized' = initialized \cup {g}
    /\ initialValue' = [initialValue EXCEPT ![g] = ref]
    /\ initialSlot' = [initialSlot EXCEPT ![index[g]] = ref]
    /\ slot' = [c \in Contexts |->
                  IF c \in live THEN [slot[c] EXCEPT ![index[g]] = ref] ELSE slot[c]]
    /\ Changes
    /\ UNCHANGED <<live, freed, rooted, rootedFns, parts, building, elem, slots, gc, raced>>

\* instantiateModule, up to the reservation of the instance's ID; imports are
\* the objects the host binds.
instantiateModule(i, imports) ==
    /\ Unlocked
    /\ building = Null
    /\ i \notin live
    /\ imports \subseteq live \ (Contexts \cup Foreigns)
    /\ building' = i
    /\ parts' = [parts EXCEPT ![i] = imports]
    /\ UNCHANGED <<live, freed, rooted, rootedFns, elem, slots, initialized, initialValue,
                   initialSlot, slot, gc, changes, raced>>

\* A table or memory could not be created: the ID is released, an exception is
\* thrown, and what has been created is left to the collector.
instantiationFails ==
    /\ Unlocked
    /\ building # Null
    /\ parts' = [parts EXCEPT ![building] = {}]
    /\ building' = Null
    /\ UNCHANGED <<live, freed, rooted, rootedFns, elem, slots, initialized, initialValue,
                   initialSlot, slot, gc, changes, raced>>

\* The instance is stored under its ID; its functions are its own parts.
publishInstance ==
    /\ Unlocked
    /\ building # Null
    /\ live' = live \cup {building}
    /\ parts' = [parts EXCEPT ![building] = @ \cup {building}]
    /\ building' = Null
    /\ UNCHANGED <<freed, rooted, rootedFns, elem, slots, initialized, initialValue,
                   initialSlot, slot, gc, changes, raced>>

-----------------------------------------------------------------------------
(* What the host and running code change without the compartment's mutex.  *)

setTableElement(t, ref) ==
    /\ Running
    /\ t \in live /\ ref \in live \cup {Null}
    /\ elem' = [elem EXCEPT ![t] = ref]
    /\ Changes
    /\ UNCHANGED <<live, freed, rooted, rootedFns, parts, building, slots, initialized,
                   initialValue, initialSlot, slot, gc, raced>>

setGlobalValue(c, g, ref) ==
    /\ Running
    /\ {c, g} \subseteq live /\ ref \in live \cup {Null}
    /\ slot' = [slot EXCEPT ![c][index[g]] = ref]
    /\ Changes
    /\ UNCHANGED <<live, freed, rooted, rootedFns, parts, building, elem, slots, initialized,
                   initialValue, initialSlot, gc, raced>>

addGCRoot(o) ==
    /\ Running
    /\ o \in live \ rooted
    /\ rooted' = rooted \cup {o}
    /\ Changes
    /\ UNCHANGED <<live, freed, rootedFns, heap, gc, raced>>

removeGCRoot(o) ==
    /\ Running
    /\ o \in rooted
    /\ rooted' = rooted \ {o}
    /\ Changes
    /\ UNCHANGED <<live, freed, rootedFns, heap, gc, raced>>

addFunctionRoot(i) ==
    /\ Running
    /\ i \in live \ rootedFns
    /\ rootedFns' = rootedFns \cup {i}
    /\ Changes
    /\ UNCHANGED <<live, freed, rooted, heap, gc, raced>>

removeFunctionRoot(i) ==
    /\ Running
    /\ i \in rootedFns
    /\ rootedFns' = rootedFns \ {i}
    /\ Changes
    /\ UNCHANGED <<live, freed, rooted, heap, gc, raced>>

-----------------------------------------------------------------------------
(* The collector.                                                          *)

\* A foreign object is in none of the maps the collector starts from.
Scanned == ({Comp} \cup live) \ Foreigns

collectGarbageContexts ==
    /\ Unlocked
    /\ phase' = "scan"
    /\ pending' = Scanned \cap (Roots \cup Contexts)
    /\ unreferenced' = Scanned \ (Roots \cup Contexts)
    /\ UNCHANGED <<live, freed, rooted, rootedFns, heap, changes, raced>>

collectGarbage ==
    /\ Unlocked
    /\ phase' = "scan"
    /\ pending' = Scanned \cap Roots
    /\ unreferenced' = Scanned \ Roots
    /\ UNCHANGED <<live, freed, rooted, rootedFns, heap, changes, raced>>

Visited(o) == References(o) \cap unreferenced

scanObject(o) ==
    /\ Running /\ phase = "scan"
    /\ o \in pending
    /\ pending' = (pending \ {o}) \cup Visited(o)
    /\ unreferenced' = unreferenced \ Visited(o)
    /\ UNCHANGED <<live, freed, rooted, rootedFns, heap, phase, changes, raced>>

\* What is still in use: the roots, what surviving objects refer to, and what
\* the creation of an instance or a table has pointers to.
Survivors == (live \ Foreigns) \ unreferenced

HeldBySurvivors == UNION {Reads(o) : o \in Survivors}

\* An instantiation in progress has pointers to its parts, and a table that is
\* not yet in the compartment to its element.
HeldByCreation ==
    (IF building = Null THEN {} ELSE {Comp} \cup parts[building])
    \cup ({elem[t] : t \in Tables \ live} \ {Null})

InUse == Roots \cup HeldBySurvivors \cup HeldByCreation

\* Something went on that the compartment's mutex does not keep out.
Overlapped == changes > 0 \/ HeldByCreation # {}

\* The destructors: ~Instance, ~Table and ~Context leave their map, ~Global
\* also gives its slot back.  The compartment is deleted last.
deleteUnreferenced ==
    /\ Running /\ phase = "scan" /\ pending = {}
    /\ live' = live \ unreferenced
    /\ freed' = (Comp \in unreferenced)
    /\ raced' = (Overlapped /\ unreferenced \cap InUse # {})
    /\ parts' = [i \in Instances |-> IF i \in unreferenced THEN {} ELSE parts[i]]
    /\ elem' = [t \in Tables |-> IF t \in unreferenced THEN Null ELSE elem[t]]
    /\ mask' = mask \ {index[g] : g \in Globals \cap unreferenced}
    /\ index' = [g \in Globals |-> IF g \in unreferenced THEN Null ELSE index[g]]
    /\ initialized' = initialized \ unreferenced
    /\ initialValue' = [g \in Globals |-> IF g \in unreferenced THEN Null ELSE initialValue[g]]
    /\ slot' = [c \in Contexts |->
                  IF c \in unreferenced THEN [s \in Slots |-> Null] ELSE slot[c]]
    /\ phase' = "idle" /\ unreferenced' = {} /\ changes' = 0
    /\ UNCHANGED <<rooted, rootedFns, building, seen, initialSlot, pending>>

-----------------------------------------------------------------------------
Next ==
    \/ \E t \in Tables : \/ createTable(t)
                         \/ createTableFails(t)
                         \/ \E ref \in Refs : fillNewTable(t, ref) \/ setTableElement(t, ref)
    \/ \E x \in Foreigns : createForeign(x)
    \/ \E c \in Contexts : createContext(c)
    \/ \E g \in Globals : \/ getSmallestNonMember(g)
                          \/ allocateSlot(g)
                          \/ createGlobal(g)
                          \/ \E ref \in Refs : initializeGlobal(g, ref)
                          \/ \E c \in Contexts, ref \in Refs : setGlobalValue(c, g, ref)
    \/ \E i \in Instances : \/ \E imports \in SUBSET Collected : instantiateModule(i, imports)
                            \/ addFunctionRoot(i)
                            \/ removeFunctionRoot(i)
    \/ instantiationFails
    \/ publishInstance
    \/ \E o \in Objects \cup {Comp} : addGCRoot(o) \/ removeGCRoot(o) \/ scanObject(o)
    \/ collectGarbage
    \/ deleteUnreferenced

Spec == Init /\ [][Next]_vars

-----------------------------------------------------------------------------
(* Type invariant: the collector's sets partition the objects it started   *)
(* with, and a global in the compartment has a slot.                       *)
TypeOK ==
    /\ live \subseteq Objects
    /\ freed \in BOOLEAN /\ changes \in 0..MaxChanges /\ raced \in BOOLEAN
    /\ rooted \subseteq Objects \cup {Comp}
    /\ rootedFns \subseteq Instances
    /\ parts \in [Instances -> SUBSET Collected]
    /\ building \in Instances \cup {Null}
    /\ elem \in [Tables -> Refs]
    /\ mask \subseteq Slots
    /\ seen \in [Globals -> Masks]
    /\ index \in [Globals -> Slots \cup {Null}]
    /\ initialized \subseteq Globals
    /\ initialValue \in [Globals -> Refs]
    /\ initialSlot \in [Slots -> Refs]
    /\ slot \in [Contexts -> [Slots -> Refs]]
    /\ phase \in {"idle", "scan"}
    /\ unreferenced \subseteq Scanned
    /\ pending \subseteq Scanned \ unreferenced
    /\ \A g \in Globals \cap live : index[g] # Null

Alive == live \cup (IF freed THEN {} ELSE {Comp})

(* Unless a collection overlapped something that its lock does not keep    *)
(* out and freed what was in use, or two createGlobal calls took the same  *)
(* slot (raced), nothing a program can load from an object of the          *)
(* compartment has been deleted: collectGarbageImpl marks through tables,  *)
(* instances and the values of globals in every context, and a global's    *)
(* slot is reused only after it was cleared.  In particular the            *)
(* compartment goes last.                                                  *)
NoDangling ==
    ~raced => \A o \in live \ Foreigns : Reads(o) \subseteq Alive

(* Under the same condition an object with a root reference is never       *)
(* deleted, nor an instance one of whose functions has one (the "Transfer  *)
(* root markings from functions to their instance" loop).                  *)
RootsSurvive ==
    ~raced => (rooted \ Foreigns) \cup rootedFns \subseteq Alive

(* While the collector runs undisturbed, an object it has finished with    *)
(* refers to nothing it still takes for garbage, and no root is among the  *)
(* garbage: what makes it safe to delete the rest once pendingScanObjects  *)
(* is empty.                                                               *)
FinishedIsClosed ==
    ~raced /\ phase = "scan" /\ changes = 0 =>
        /\ Roots \cap unreferenced = {}
        /\ \A o \in Scanned \ (pending \cup unreferenced) : References(o) \cap unreferenced = {}

\* A set of objects that has the roots and whatever its members refer to.
ClosedFromRoots(S) ==
    /\ Roots \ Foreigns \subseteq S
    /\ \A o \in S : Reads(o) \subseteq S

\* What the roots reach: the smallest such set.
Reachable == {o \in Alive : \A S \in SUBSET Alive : ClosedFromRoots(S) => o \in S}

(* "Frees any unreferenced objects owned by a compartment": a collection   *)
(* that nothing disturbs deletes every object that no root reaches, in one *)
(* run, cycles between tables, globals and instances included.  (Foreign   *)
(* objects are never collected.)                                           *)
CollectsAllGarbage ==
    ~raced /\ phase = "scan" /\ pending = {} /\ changes = 0 =>
        unreferenced = Scanned \ Reachable

EntersNull(g) ==
    ~raced /\ g \in live' \ live =>
        /\ initialSlot'[index'[g]] = Null
        /\ \A c \in Contexts \cap live' : slot'[c][index'[g]] = Null

(* "Zero-initialize the global's mutable value for all current and future  *)
(* contexts" (Global.cpp:30).  Unless two createGlobal calls, which choose *)
(* and claim their slots without a lock, have got in each other's way, a   *)
(* global that enters the compartment reads as null in every context there *)
(* is and in every context to come, whatever the global that had the slot  *)
(* before it left there, and contexts created between the two halves of    *)
(* createGlobal included.                                                  *)
NewGlobalIsNull == [][\A g \in Globals : EntersNull(g)]_vars

-----------------------------------------------------------------------------
(* The inductive invariant behind NoDangling and RootsSurvive, and what it *)
(* takes besides to prove CollectsAllGarbage.                              *)

\* A slot belongs to one global and is in the mask, and it reads as null until
\* its global is in the compartment.
SlotsClean ==
    /\ \A g \in Globals \ live : initialValue[g] = Null
    /\ \A g \in Globals : seen[g] # Null => g \notin live /\ index[g] = Null
    /\ ~raced =>
          /\ Owned \subseteq mask
          /\ \A g, h \in Globals : index[g] = index[h] /\ index[g] # Null => g = h
          /\ \A g \in Globals \ live : index[g] # Null =>
                /\ initialSlot[index[g]] = Null
                /\ \A c \in Contexts \cap live : slot[c][index[g]] = Null

\* The objects that an instantiation in progress has pointers to exist, and so
\* does the element of a table that is not yet in the compartment.
BuildingAlive ==
    /\ building # Null => building \notin live /\ (~raced => parts[building] \subseteq live)
    /\ ~raced => \A t \in Tables \ live : elem[t] \in live \cup {Null}

CollectorIdle ==
    /\ phase = "idle" => changes = 0
    /\ freed => phase = "idle"

\* The collector marks nothing that no root reaches.
MarkedIsReachable ==
    ~raced /\ phase = "scan" /\ changes = 0 => Scanned \ unreferenced \subseteq Reachable

GCInv ==
    /\ TypeOK /\ SlotsClean /\ BuildingAlive /\ CollectorIdle
    /\ FinishedIsClosed /\ NoDangling /\ RootsSurvive

=============================================================================
