----------------------- MODULE DecimalLifeCycle_proofs -----------------------
(***************************************************************************)
(* Theorems about DecimalLifeCycle, for any number of loads, statements    *)
(* and connected tables, and any list of functions.                        *)
(***************************************************************************)
EXTENDS DecimalLifeCycle_tables

(***************************************************************************)
(* The contexts.  A pointer is good if it points to a live context or to   *)
(* that of a load whose last registration failed.  The modules are         *)
(* registered in order, each once, so that those registered have one       *)
(* context; a load in progress is the only one to point to its context     *)
(* until it has registered the functions; and a context that is neither    *)
(* being loaded nor held by decContext belongs to a load that failed.      *)
(***************************************************************************)
RegistryTyped ==
    /\ load \in {NULL} \cup [ctx : Loads, next : 1 .. Len(Registrations) + 1]
    /\ heap \in [Loads -> {"none", "live", "freed", "corrupt"}]
    /\ failedAt \in [Loads -> Functions \cup VTabs \cup {NULL}]
    /\ pUserData \in [Functions -> Loads \cup {0}]
    /\ AuxTyped
    /\ library \in [handles : Nat, aExtension : Nat]

Good(c) == heap[c] = "live" \/ failedAt[c] = "Context"

Pointers ==
    /\ \A m \in VTabs : pAux[m] # 0 => Good(pAux[m])
    /\ \A f \in Functions : pUserData[f] # 0 => Good(pUserData[f])

Connected == \A i \in Addresses : vtable[i] # NULL => vtable[i].decCtx = pAux[vtable[i].module]

HeapKept ==
    /\ pAux["Context"] # 0 => heap[pAux["Context"]] = "live"
    /\ \A c \in Loads :
          /\ heap[c] # "corrupt"
          /\ failedAt[c] # NULL => heap[c] # "none"
          /\ heap[c] = "live" /\ failedAt[c] = NULL =>
                (load # NULL /\ load.ctx = c) \/ pAux["Context"] = c

InOrder ==
    /\ pAux["Context"] # 0 => pAux["Traps"] = pAux["Context"]
    /\ pAux["Traps"] # 0 => pAux["Status"] = pAux["Traps"]

Loading ==
    load # NULL =>
        /\ heap[load.ctx] = "live" /\ failedAt[load.ctx] = NULL /\ db = "open"
        /\ \A j \in 1 .. Len(aFunc) : j < load.next => pUserData[aFunc[j]] = load.ctx
        /\ load.next > Len(aFunc) + 1 => pAux["Status"] = load.ctx
        /\ load.next > Len(aFunc) + 2 => pAux["Traps"] = load.ctx
        /\ load.next > Len(aFunc) + 3 <=> pAux["Context"] = load.ctx

Busy == IF load # NULL THEN 1 ELSE 0
Libraries ==
    /\ library.handles >= library.aExtension + Busy
    /\ pAux["Context"] # 0 /\ (load # NULL => load.ctx # pAux["Context"]) =>
          library.handles >= 1 + Busy

ContextInv ==
    /\ RegistryTyped /\ Pointers /\ Connected /\ HeapKept /\ InOrder
    /\ Loading /\ Libraries
    /\ db = "closed" => pAux["Context"] = 0

LEMMA ConcatLength ==
    ASSUME NEW S, NEW s \in Seq(S), NEW t \in Seq(S)
    PROVE  Len(s \o t) = Len(s) + Len(t)
OBVIOUS

LEMMA RegistrationFacts ==
    /\ Len(aFunc) \in Nat
    /\ Len(Registrations) = Len(aFunc) + 3
    /\ \A j \in 1 .. Len(aFunc) : Registrations[j] = aFunc[j] /\ aFunc[j] \in Functions
    /\ Registrations[Len(aFunc) + 1] = "Status"
    /\ Registrations[Len(aFunc) + 2] = "Traps"
    /\ Registrations[Len(aFunc) + 3] = "Context"
    /\ \A f \in Functions : \E j \in 1 .. Len(aFunc) : aFunc[j] = f
    /\ \A f \in Functions : f \notin VTabs
<1>1. aFunc \in Seq(STRING)
  BY LifeCycleAssumption
<1>2. Functions = { aFunc[j] : j \in 1 .. Len(aFunc) }
  BY <1>1 DEF Functions, Range
<1>3. /\ Len(Registrations) = Len(aFunc) + 3
      /\ \A j \in 1 .. Len(aFunc) : Registrations[j] = aFunc[j]
      /\ Registrations[Len(aFunc) + 1] = "Status"
      /\ Registrations[Len(aFunc) + 2] = "Traps"
      /\ Registrations[Len(aFunc) + 3] = "Context"
  <2> DEFINE m == << "Status", "Traps", "Context" >>
             S == STRING \cup VTabs
  <2>1. m \in Seq(S) /\ Len(m) = 3
    BY DEF VTabs
  <2>2. m[1] = "Status" /\ m[2] = "Traps" /\ m[3] = "Context"
    OBVIOUS
  <2>3. aFunc \in Seq(S)
    BY <1>1
  <2>4. Registrations = aFunc \o m
    BY DEF Registrations
  <2> HIDE DEF m, S
  <2>5. Len(aFunc) \in Nat /\ Len(aFunc \o m) = Len(aFunc) + 3
    <3>1. Len(aFunc \o m) = Len(aFunc) + Len(m)
      BY <2>1, <2>3, ConcatLength
    <3> QED
      BY <2>1, <2>3, <3>1
  <2>6. \A j \in 1 .. Len(aFunc) : (aFunc \o m)[j] = aFunc[j]
    BY <2>1, <2>3
  <2>7. \A j \in 1 .. 3 : (aFunc \o m)[Len(aFunc) + j] = m[j]
    BY <2>1, <2>3, <2>5
  <2> QED
    BY <2>2, <2>4, <2>5, <2>6, <2>7
<1> QED
  BY <1>1, <1>2, <1>3, LifeCycleAssumption

LEMMA ContextInit == Init => ContextInv
<1> SUFFICES ASSUME Init PROVE ContextInv
  OBVIOUS
<1>1. RegistryTyped
  BY DEF Init, RegistryTyped, AuxTyped
<1>2. Pointers /\ Connected /\ HeapKept /\ InOrder
  BY DEF Init, Pointers, Connected, HeapKept, InOrder, VTabs
<1>3. Loading /\ Libraries
  BY DEF Init, Loading, Libraries, Busy, VTabs
<1> QED
  BY <1>1, <1>2, <1>3 DEF ContextInv, Init

\* A step that leaves the registry alone.
LEMMA QuietKeepsContexts ==
    ASSUME ContextInv, UNCHANGED <<load, heap, failedAt, pUserData, pAux, library>>,
           db' # "closed" \/ db' = db, load = NULL \/ db' = db, Connected'
    PROVE  ContextInv'
<1>1. RegistryTyped' /\ Pointers' /\ HeapKept' /\ InOrder'
  BY DEF ContextInv, RegistryTyped, AuxTyped, Pointers, Good, HeapKept, InOrder
<1>2. Loading' /\ Libraries'
  BY DEF ContextInv, Loading, Libraries, Busy
<1> QED
  BY <1>1, <1>2 DEF ContextInv

LEMMA SameTablesConnected ==
    ASSUME Connected, SameTables(vtable, vtable'), pAux' = pAux
    PROVE  Connected'
BY DEF Connected, SameTables, SameTable

LEMMA StartLoadKeepsContexts ==
    ASSUME ContextInv, StartLoad
    PROVE  ContextInv'
<1> USE DEF ContextInv
<1>1. PICK c \in Loads : /\ heap[c] = "none"
                         /\ heap' = [heap EXCEPT ![c] = "live"]
                         /\ load' = [ctx |-> c, next |-> 1]
  BY DEF StartLoad
<1>2. /\ load = NULL /\ db = "open" /\ db' = db
      /\ failedAt' = failedAt /\ pUserData' = pUserData /\ pAux' = pAux /\ vtable' = vtable
      /\ library' = [library EXCEPT !.handles = @ + 1]
  BY DEF StartLoad, Idle, registry, tables
<1>3. failedAt[c] = NULL /\ NULL # "Context" /\ c # 0
  BY <1>1, NullAssumption DEF HeapKept, VTabs, Loads
<1>4. /\ load' # NULL /\ load'.ctx = c /\ load'.next = 1
      /\ load' \in [ctx : Loads, next : 1 .. Len(Registrations) + 1]
  BY <1>1, NullAssumption, RegistrationFacts
<1>5. /\ heap' \in [Loads -> {"none", "live", "freed", "corrupt"}]
      /\ heap'[c] = "live" /\ \A d \in Loads \ {c} : heap'[d] = heap[d]
  BY <1>1 DEF RegistryTyped
<1>6. /\ library' \in [handles : Nat, aExtension : Nat]
      /\ library'.handles = library.handles + 1 /\ library'.aExtension = library.aExtension
  BY <1>2 DEF RegistryTyped
<1>7. /\ \A m \in VTabs : pAux[m] # c /\ (pAux[m] # 0 => pAux[m] \in Loads)
      /\ \A f \in Functions : pUserData[f] # c /\ (pUserData[f] # 0 => pUserData[f] \in Loads)
  BY <1>1, <1>3 DEF RegistryTyped, AuxTyped, Pointers, Good
<1>8. pAux["Context"] # c /\ (pAux["Context"] # 0 => pAux["Context"] \in Loads)
  BY <1>7 DEF VTabs
<1>9. RegistryTyped'
  BY <1>2, <1>4, <1>5, <1>6 DEF RegistryTyped, AuxTyped
<1>10. Pointers'
  BY <1>2, <1>5, <1>7 DEF Pointers, Good
<1>11. HeapKept'
  BY <1>2, <1>3, <1>4, <1>5, <1>8 DEF HeapKept
<1>12. Connected' /\ InOrder'
  BY <1>2 DEF Connected, InOrder
<1>13. Loading'
  BY <1>2, <1>3, <1>4, <1>5, <1>8, RegistrationFacts DEF Loading
<1>14. Libraries'
  BY <1>2, <1>4, <1>6 DEF Libraries, Busy, RegistryTyped
<1> QED
  BY <1>2, <1>9, <1>10, <1>11, <1>12, <1>13, <1>14

\* What a load in progress knows.
LEMMA LoadFacts ==
    ASSUME ContextInv, load # NULL
    PROVE  /\ load.ctx \in Loads /\ load.ctx # 0 /\ NULL # "Context"
           /\ load.next \in 1 .. Len(aFunc) + 4
           /\ heap[load.ctx] = "live" /\ failedAt[load.ctx] = NULL /\ db = "open"
BY RegistrationFacts, NullAssumption DEF ContextInv, RegistryTyped, Loading, Loads, VTabs

LEMMA EndLoadKeepsContexts ==
    ASSUME ContextInv, EndLoad
    PROVE  ContextInv'
<1> USE DEF ContextInv
<1>1. load # NULL /\ load.next > Len(Registrations)
  BY DEF EndLoad
<1>2. /\ load' = NULL /\ db' = db /\ heap' = heap
      /\ failedAt' = failedAt /\ pUserData' = pUserData /\ pAux' = pAux /\ vtable' = vtable
  BY DEF EndLoad, registry, tables
<1>3. PICK kept \in {0, 1} : library' = [library EXCEPT !.aExtension = @ + kept]
  BY DEF EndLoad
<1>4. /\ library' \in [handles : Nat, aExtension : Nat]
      /\ library'.handles = library.handles
      /\ library'.aExtension <= library.aExtension + 1
  BY <1>3 DEF RegistryTyped
<1>5. load.next > Len(aFunc) + 3 /\ load.ctx # 0
  BY <1>1, LoadFacts, RegistrationFacts
<1>6. pAux["Context"] = load.ctx
  BY <1>1, <1>5 DEF Loading
<1>7. \A f \in Functions : pUserData[f] = load.ctx
  <2> TAKE f \in Functions
  <2>1. PICK j \in 1 .. Len(aFunc) : aFunc[j] = f
    BY RegistrationFacts
  <2>2. j < load.next
    BY <1>1, <1>5, LoadFacts, RegistrationFacts
  <2> QED
    BY <1>1, <2>1, <2>2 DEF Loading
<1>8. RegistryTyped' /\ Pointers' /\ Connected' /\ InOrder'
  BY <1>2, <1>4 DEF RegistryTyped, AuxTyped, Pointers, Good, Connected, InOrder
<1>9. HeapKept'
  BY <1>2, <1>6 DEF HeapKept
<1>10. Libraries'
  BY <1>1, <1>2, <1>4 DEF Libraries, Busy, RegistryTyped
<1>11. Loading'
  BY <1>2, <1>6, <1>7 DEF Loading
<1> QED
  BY <1>2, <1>8, <1>9, <1>10, <1>11

LEMMA RegistrationFailsKeepsContexts ==
    ASSUME ContextInv, RegistrationFails
    PROVE  ContextInv'
<1> USE DEF ContextInv
<1> DEFINE name == Registrations[load.next]
           c == load.ctx
<1>1. load # NULL /\ load.next <= Len(Registrations)
  BY DEF RegistrationFails
<1>2. /\ load' = NULL /\ db' = db
      /\ pUserData' = pUserData /\ pAux' = pAux /\ vtable' = vtable
      /\ library' = [library EXCEPT !.handles = @ - 1]
      /\ failedAt' = [failedAt EXCEPT ![c] = name]
      /\ heap' = IF name = "Context" THEN decimalContextDestroy(heap, c) ELSE heap
  BY DEF RegistrationFails, tables
<1>3. c \in Loads /\ heap[c] = "live" /\ failedAt[c] = NULL
  BY <1>1, LoadFacts
<1>4. name \in Functions \cup VTabs
  <2>1. \/ load.next \in 1 .. Len(aFunc)
        \/ load.next = Len(aFunc) + 1 \/ load.next = Len(aFunc) + 2 \/ load.next = Len(aFunc) + 3
    BY <1>1, LoadFacts, RegistrationFacts
  <2> QED
    BY <2>1, RegistrationFacts DEF VTabs
<1>5. name # NULL
  BY <1>4, NullAssumption
<1>6. pAux["Context"] # c
  BY <1>1, LoadFacts, RegistrationFacts DEF Loading
<1> HIDE DEF name, c
<1>7. /\ failedAt' \in [Loads -> Functions \cup VTabs \cup {NULL}]
      /\ failedAt'[c] = name /\ \A d \in Loads \ {c} : failedAt'[d] = failedAt[d]
  BY <1>2, <1>3, <1>4 DEF RegistryTyped
<1>8. /\ heap' \in [Loads -> {"none", "live", "freed", "corrupt"}]
      /\ heap'[c] = IF name = "Context" THEN "freed" ELSE "live"
      /\ \A d \in Loads \ {c} : heap'[d] = heap[d]
  BY <1>2, <1>3 DEF RegistryTyped, decimalContextDestroy
<1>9. library.handles \in Nat /\ library.aExtension \in Nat /\ library.handles >= 1
  BY <1>1 DEF RegistryTyped, Libraries, Busy
<1>10. /\ library' \in [handles : Nat, aExtension : Nat]
       /\ library'.handles = library.handles - 1 /\ library'.aExtension = library.aExtension
  BY <1>2, <1>9 DEF RegistryTyped
<1>11. RegistryTyped'
  BY <1>2, <1>7, <1>8, <1>10 DEF RegistryTyped, AuxTyped
<1>13. /\ \A m \in VTabs : pAux[m] # 0 => pAux[m] \in Loads
       /\ \A f \in Functions : pUserData[f] # 0 => pUserData[f] \in Loads
  BY DEF RegistryTyped, AuxTyped
<1>14. Pointers'
  <2>1. \A m \in VTabs : pAux'[m] # 0 => heap'[pAux'[m]] = "live" \/ failedAt'[pAux'[m]] = "Context"
    BY <1>2, <1>7, <1>8, <1>13 DEF Good, Pointers
  <2>2. \A f \in Functions : pUserData'[f] # 0 =>
             heap'[pUserData'[f]] = "live" \/ failedAt'[pUserData'[f]] = "Context"
    BY <1>2, <1>7, <1>8, <1>13 DEF Good, Pointers
  <2> QED
    BY <2>1, <2>2 DEF Pointers, Good
<1>15. HeapKept'
  <2>1. pAux["Context"] # 0 => pAux["Context"] \in Loads \ {c}
    BY <1>6, <1>13 DEF VTabs
  <2>2. load # NULL /\ load.ctx = c
    BY <1>1 DEF c
  <2> QED
    BY <1>2, <1>5, <1>7, <1>8, <2>1, <2>2 DEF HeapKept
<1>16. Connected' /\ InOrder'
  BY <1>2 DEF Connected, InOrder
<1>17. Loading'
  BY <1>2, <1>3, <1>5, <1>7 DEF Loading
<1>18. Libraries'
  BY <1>1, <1>2, <1>6, <1>9, <1>10 DEF Libraries, Busy, c
<1> QED
  BY <1>1, <1>2, <1>11, <1>14, <1>15, <1>16, <1>17, <1>18

LEMMA RegisterKeepsContexts ==
    ASSUME ContextInv, Register, \A i \in Addresses : vtable[i] # NULL =>
                                     vtable[i].module \in VTabs /\ vtable[i].decCtx # 0
    PROVE  ContextInv'
<1> USE DEF ContextInv
<1> DEFINE name == Registrations[load.next]
           c == load.ctx
           n == Len(aFunc)
<1>1. load # NULL /\ load.next <= Len(Registrations)
  BY DEF Register
<1>2. /\ ~Refused(name)
      /\ pUserData' = IF name \in Functions THEN [pUserData EXCEPT ![name] = c] ELSE pUserData
      /\ pAux' = IF name \in VTabs THEN [pAux EXCEPT ![name] = c] ELSE pAux
      /\ load' = [load EXCEPT !.next = @ + 1]
      /\ db' = db /\ heap' = heap /\ failedAt' = failedAt /\ library' = library
      /\ vtable' = vtable
  BY DEF Register, tables
<1>3. c \in Loads /\ c # 0 /\ heap[c] = "live" /\ failedAt[c] = NULL /\ db = "open"
  BY <1>1, LoadFacts
<1>4. n \in Nat /\ load.next \in 1 .. n + 3
  BY <1>1, LoadFacts, RegistrationFacts
<1>5. /\ load' # NULL /\ load'.ctx = c /\ load'.next = load.next + 1
      /\ load' \in [ctx : Loads, next : 1 .. Len(Registrations) + 1]
  <2>1. load \in [ctx : Loads, next : 1 .. Len(Registrations) + 1]
    BY <1>1 DEF RegistryTyped
  <2>2. Len(Registrations) \in Nat
    BY RegistrationFacts
  <2>3. load' = [ctx |-> load.ctx, next |-> load.next + 1]
    BY <1>2, <2>1
  <2>4. load' \in [ctx : Loads, next : 1 .. Len(Registrations) + 1]
    BY <1>1, <2>1, <2>2, <2>3
  <2>5. load' # NULL
    BY <2>4, NullAssumption
  <2> QED
    BY <2>3, <2>4, <2>5
<1>6. pAux["Context"] # c
  BY <1>1, <1>4, RegistrationFacts DEF Loading
<1>7. CASE load.next <= n
  <2>1. name = aFunc[load.next] /\ name \in Functions /\ name \notin VTabs
    BY <1>4, <1>7, RegistrationFacts
  <2>2. pAux' = pAux /\ pUserData' = [pUserData EXCEPT ![name] = c]
    BY <1>2, <2>1
  <2> HIDE DEF name, c
  <2>3. /\ pUserData' \in [Functions -> Loads \cup {0}]
        /\ pUserData'[name] = c
        /\ \A f \in Functions \ {name} : pUserData'[f] = pUserData[f]
    BY <1>3, <2>1, <2>2 DEF RegistryTyped
  <2>4. RegistryTyped'
    BY <1>2, <1>5, <2>2, <2>3 DEF RegistryTyped, AuxTyped
  <2>5. Pointers'
    BY <1>2, <1>3, <2>1, <2>2, <2>3 DEF Pointers, Good
  <2>6. HeapKept' /\ Connected' /\ InOrder'
    BY <1>1, <1>2, <1>5, <2>2 DEF HeapKept, Connected, InOrder, c
  <2>7. \A j \in 1 .. n : j < load'.next => pUserData'[aFunc[j]] = c
    <3> SUFFICES ASSUME NEW j \in 1 .. n, j < load'.next PROVE pUserData'[aFunc[j]] = c
      OBVIOUS
    <3>1. j = load.next \/ j < load.next
      BY <1>4, <1>5
    <3>2. aFunc[j] \in Functions
      BY RegistrationFacts
    <3>3. j < load.next => pUserData[aFunc[j]] = c
      BY <1>1 DEF Loading, c
    <3> QED
      BY <2>1, <2>3, <3>1, <3>2, <3>3
  <2>8. /\ ~(load'.next > n + 1) /\ ~(load'.next > n + 2) /\ ~(load'.next > n + 3)
    BY <1>4, <1>5, <1>7
  <2>9. Loading'
    BY <1>2, <1>3, <1>5, <1>6, <2>2, <2>7, <2>8 DEF Loading
  <2>10. Libraries'
    BY <1>1, <1>2, <1>5, <2>2 DEF Libraries, Busy, c
  <2> QED
    BY <1>2, <1>3, <2>4, <2>5, <2>6, <2>9, <2>10
<1>8. CASE load.next > n
  <2>1. /\ name \in VTabs /\ name \notin Functions
        /\ load.next = n + 1 => name = "Status"
        /\ load.next = n + 2 => name = "Traps"
        /\ load.next = n + 3 => name = "Context"
        /\ load.next = n + 1 \/ load.next = n + 2 \/ load.next = n + 3
    BY <1>4, <1>8, RegistrationFacts DEF VTabs
  <2>2. pUserData' = pUserData /\ pAux' = [pAux EXCEPT ![name] = c]
    BY <1>2, <2>1
  <2>3. pAux[name] = 0
    BY <1>2, <2>1 DEF Refused
  <2>4. c = load.ctx
    OBVIOUS
  <2> HIDE DEF name, c, n
  <2>5. /\ pAux' \in [VTabs -> Loads \cup {0}]
        /\ pAux'[name] = c
        /\ \A m \in VTabs \ {name} : pAux'[m] = pAux[m]
    BY <1>3, <2>1, <2>2 DEF RegistryTyped, AuxTyped
  <2>6. RegistryTyped'
    BY <1>2, <1>5, <2>2, <2>5 DEF RegistryTyped, AuxTyped
  <2>7. Pointers'
    BY <1>2, <1>3, <2>1, <2>2, <2>5 DEF Pointers, Good
  <2>8. Connected'
    BY <1>2, <2>3, <2>5 DEF Connected
  <2>9. \A d \in Loads : pAux["Context"] = d => pAux'["Context"] = d
    BY <1>6, <2>1, <2>3, <2>5 DEF Loads, VTabs
  <2>10. pAux'["Context"] = pAux["Context"] \/ pAux'["Context"] = c
    BY <2>1, <2>5 DEF VTabs
  <2>11. HeapKept'
    BY <1>1, <1>2, <1>3, <1>5, <2>4, <2>9, <2>10 DEF HeapKept
  <2>12. /\ load.next = n + 2 => pAux["Status"] = c
         /\ load.next = n + 3 => pAux["Status"] = c /\ pAux["Traps"] = c
    BY <1>1, <1>4, <2>4 DEF Loading, n
  <2>13. InOrder'
    <3>1. CASE load.next = n + 1
      BY <1>3, <2>1, <2>3, <2>5, <3>1 DEF InOrder, VTabs
    <3>2. CASE load.next = n + 2
      BY <1>3, <2>1, <2>3, <2>5, <2>12, <3>2 DEF InOrder, VTabs
    <3>3. CASE load.next = n + 3
      BY <1>3, <2>1, <2>3, <2>5, <2>12, <3>3 DEF InOrder, VTabs
    <3> QED
      BY <2>1, <3>1, <3>2, <3>3
  <2>14. \A j \in 1 .. n : pUserData[aFunc[j]] = c
    BY <1>1, <1>4, <1>8, <2>4 DEF Loading, n
  <2>15. /\ load'.next > n + 1 => pAux'["Status"] = c
         /\ load'.next > n + 2 => pAux'["Traps"] = c
         /\ load'.next > n + 3 <=> pAux'["Context"] = c
    <3>1. CASE load.next = n + 1
      BY <1>4, <1>5, <1>6, <2>1, <2>5, <3>1 DEF VTabs
    <3>2. CASE load.next = n + 2
      BY <1>4, <1>5, <1>6, <2>1, <2>5, <2>12, <3>2 DEF VTabs
    <3>3. CASE load.next = n + 3
      BY <1>4, <1>5, <1>6, <2>1, <2>5, <2>12, <3>3 DEF VTabs
    <3> QED
      BY <2>1, <3>1, <3>2, <3>3
  <2>16. Loading'
    BY <1>2, <1>3, <1>5, <2>2, <2>14, <2>15 DEF Loading, n
  <2>17. Libraries'
    BY <1>1, <1>2, <1>5, <2>4, <2>10 DEF Libraries, Busy
  <2> QED
    BY <1>2, <1>3, <2>6, <2>7, <2>8, <2>11, <2>13, <2>16, <2>17
<1> QED
  BY <1>4, <1>7, <1>8

\* The connection goes: nothing is left that points to a context.
LEMMA ClosedKeepsContexts ==
    ASSUME ContextInv, Idle, load' = load, failedAt' = failedAt, db' = "closed",
           heap' = IF pAux["Context"] # 0 THEN decimalContextDestroy(heap, pAux["Context"]) ELSE heap,
           pUserData' = [f \in Functions |-> 0], pAux' = [m \in VTabs |-> 0],
           library' = [handles |-> library.handles - library.aExtension, aExtension |-> 0],
           \A i \in Addresses : vtable'[i] = NULL
    PROVE  ContextInv'
<1> USE DEF ContextInv
<1>1. load = NULL
  BY DEF Idle
<1>2. \A m \in VTabs : pAux'[m] = 0
  OBVIOUS
<1>3. pAux'["Context"] = 0 /\ pAux'["Traps"] = 0
  BY <1>2 DEF VTabs
<1>4. pAux["Context"] # 0 => pAux["Context"] \in Loads /\ heap[pAux["Context"]] = "live"
  BY DEF RegistryTyped, AuxTyped, HeapKept, VTabs
<1>5. /\ heap' \in [Loads -> {"none", "live", "freed", "corrupt"}]
      /\ \A c \in Loads : heap'[c] = IF c = pAux["Context"] THEN "freed" ELSE heap[c]
  <2>1. CASE pAux["Context"] # 0
    BY <1>4, <2>1 DEF decimalContextDestroy, RegistryTyped
  <2>2. CASE pAux["Context"] = 0
    BY <2>2 DEF RegistryTyped, Loads
  <2> QED
    BY <2>1, <2>2
<1>6. library.handles \in Nat /\ library.aExtension \in Nat /\ library.handles >= library.aExtension
  BY <1>1 DEF RegistryTyped, Libraries, Busy
<1>7. /\ library' \in [handles : Nat, aExtension : Nat]
      /\ library'.handles >= library'.aExtension
  BY <1>6
<1>8. RegistryTyped'
  BY <1>5, <1>7 DEF RegistryTyped, AuxTyped
<1>9. Pointers' /\ Connected' /\ InOrder'
  BY <1>2, <1>3 DEF Pointers, Connected, InOrder
<1>10. HeapKept'
  BY <1>1, <1>3, <1>5 DEF HeapKept
<1>11. Loading' /\ Libraries'
  BY <1>1, <1>3, <1>7, SMTT(60) DEF Loading, Libraries, Busy
<1> QED
  BY <1>3, <1>8, <1>9, <1>10, <1>11

LEMMA ClosedHasNoTable ==
    ASSUME TablesInv, db = "closed", NEW i \in Addresses
    PROVE  vtable[i] = NULL
<1>1. /\ pEpoTab \in EpoMaps /\ stmt \in StmtMaps /\ vtable \in TableMaps
      /\ \A m \in VTabs : pEpoTab[m] = 0
      /\ \A s \in Stmts : stmt[s] = NULL
  BY DEF TablesInv, TablesTyped, Closing
<1>2. CountedAll(vtable, pEpoTab, stmt, << >>)
  BY DEF TablesInv, Closing
<1> QED
  BY <1>1, <1>2, NoneLeft

\* The same, of the state after a step.
LEMMA ClosingLeavesNoTable ==
    ASSUME TablesInv', db' = "closed", NEW i \in Addresses
    PROVE  vtable'[i] = NULL
<1>1. /\ pEpoTab' \in EpoMaps /\ stmt' \in StmtMaps /\ vtable' \in TableMaps
      /\ \A m \in VTabs : pEpoTab'[m] = 0
      /\ \A s \in Stmts : stmt'[s] = NULL
  BY DEF TablesInv, TablesTyped, Closing
<1>2. CountedAll(vtable', pEpoTab', stmt', << >>)
  BY DEF TablesInv, Closing, CountedAll
<1> QED
  BY <1>1, <1>2, NoneLeft

LEMMA PrepareOnTableConnects ==
    ASSUME TablesInv, ContextInv, NEW s \in Stmts, NEW kind \in TableKinds, NEW m \in VTabs,
           PrepareOnTable(s, kind, m)
    PROVE  Connected'
<1>1. PICK i \in Addresses :
         IF pEpoTab[m] # 0
         THEN i = pEpoTab[m] /\ vtable' = sqlite3VtabLock(vtable, i)
         ELSE /\ vtable[i] = NULL
              /\ vtable' = sqlite3VtabLock([vtable EXCEPT ![i] = xConnect(m)], i)
  BY DEF PrepareOnTable
<1>2. pAux' = pAux /\ vtable \in TableMaps
  BY InvFacts DEF PrepareOnTable, registry
<1>3. \A j \in Addresses \ {i} : vtable'[j] = vtable[j]
  BY <1>1, <1>2 DEF sqlite3VtabLock, TableMaps
<1>4. vtable'[i].decCtx = pAux[vtable'[i].module]
  <2>1. CASE pEpoTab[m] # 0
    <3>1. vtable[i] # NULL
      BY <1>1, <2>1, HeldTables DEF TablesInv
    <3>2. vtable[i] \in VTables
      BY <1>2, <3>1 DEF TableMaps
    <3>3. vtable'[i].decCtx = vtable[i].decCtx /\ vtable'[i].module = vtable[i].module
      BY <1>1, <1>2, <2>1, <3>2 DEF sqlite3VtabLock, TableMaps, VTables
    <3> QED
      BY <3>1, <3>3 DEF ContextInv, Connected
  <2>2. CASE pEpoTab[m] = 0
    <3>1. vtable'[i] = [xConnect(m) EXCEPT !.nRef = @ + 1]
      BY <1>1, <1>2, <2>2 DEF sqlite3VtabLock, TableMaps
    <3>2. vtable'[i].decCtx = pAux[m] /\ vtable'[i].module = m
      BY <3>1 DEF xConnect
    <3> QED
      BY <3>2
  <2> QED
    BY <2>1, <2>2
<1> QED
  BY <1>2, <1>3, <1>4 DEF ContextInv, Connected

LEMMA FinalizeKeepsContexts ==
    ASSUME TablesInv, ContextInv, NEW s \in Stmts, Finalize(s)
    PROVE  ContextInv'
<1>1. TablesInv' /\ SameTables(vtable, vtable')
  BY FinalizeKeepsTables
<1>2. Idle /\ load = NULL /\ load' = load /\ failedAt' = failedAt /\ db # "closed"
  BY DEF Finalize, Idle
<1>3. CASE UNCHANGED <<db, heap, pUserData, pAux, library>>
  <2>1. Connected'
    BY <1>1, <1>3, SameTablesConnected DEF ContextInv
  <2> QED
    BY <1>2, <1>3, <2>1, QuietKeepsContexts
<1>4. CASE \E vt : CloseZombie(vt, TRUE)
  <2>1. \A i \in Addresses : vtable'[i] = NULL
    BY <1>1, <1>4, ClosingLeavesNoTable DEF CloseZombie
  <2> QED
    BY <1>2, <1>4, <2>1, ClosedKeepsContexts DEF CloseZombie
<1> QED
  BY <1>3, <1>4 DEF Finalize

LEMMA CloseKeepsContexts ==
    ASSUME TablesInv, ContextInv, NEW forceZombie \in BOOLEAN, Close(forceZombie)
    PROVE  ContextInv'
<1>1. TablesInv' /\ SameTables(vtable, vtable')
  BY CloseKeepsTables
<1>2. Idle /\ load = NULL /\ load' = load /\ failedAt' = failedAt
  BY DEF Close, Idle
<1>3. CASE db' # "closed" /\ UNCHANGED <<heap, pUserData, pAux, library>>
  <2>1. Connected'
    BY <1>1, <1>3, SameTablesConnected DEF ContextInv
  <2> QED
    BY <1>2, <1>3, <2>1, QuietKeepsContexts
<1>4. CASE \E vt : CloseZombie(vt, FALSE)
  <2>1. \A i \in Addresses : vtable'[i] = NULL
    BY <1>1, <1>4, ClosingLeavesNoTable DEF CloseZombie
  <2> QED
    BY <1>2, <1>4, <2>1, ClosedKeepsContexts DEF CloseZombie
<1> QED
  BY <1>3, <1>4 DEF Close

LEMMA ContextStep == TablesInv /\ ContextInv /\ [Next]_vars => ContextInv'
<1> SUFFICES ASSUME TablesInv, ContextInv, [Next]_vars PROVE ContextInv'
  OBVIOUS
<1>1. CASE LoadStep
  <2>1. \A i \in Addresses : vtable[i] # NULL =>
             vtable[i].module \in VTabs /\ vtable[i].decCtx # 0
    <3> TAKE i \in Addresses
    <3>1. vtable[i] \in {NULL} \cup VTables
      BY InvFacts DEF TableMaps
    <3> QED
      BY <3>1 DEF VTables, Loads
  <2> QED
    BY <1>1, <2>1, StartLoadKeepsContexts, RegisterKeepsContexts,
       RegistrationFailsKeepsContexts, EndLoadKeepsContexts DEF LoadStep
<1>2. ASSUME NEW s \in Stmts,
             \/ \E kind \in PlainKinds : Prepare(s, kind)
             \/ StepQuery(s) \/ EndQuery(s)
      PROVE  ContextInv'
  <2>1. UNCHANGED <<db, load, heap, failedAt, pUserData, pAux, library, vtable>>
    BY <1>2 DEF Prepare, StepQuery, EndQuery, registry, tables
  <2>2. Connected'
    BY <2>1 DEF ContextInv, Connected
  <2> QED
    BY <2>1, <2>2, QuietKeepsContexts
<1>3. ASSUME NEW s \in Stmts, NEW kind \in TableKinds, NEW m \in VTabs, PrepareOnTable(s, kind, m)
      PROVE  ContextInv'
  <2>1. UNCHANGED <<db, load, heap, failedAt, pUserData, pAux, library>>
    BY <1>3 DEF PrepareOnTable, registry
  <2>2. Connected'
    BY <1>3, PrepareOnTableConnects
  <2> QED
    BY <2>1, <2>2, QuietKeepsContexts
<1>4. ASSUME NEW s \in Stmts, StartWrite(s) \/ EndWrite(s) \/ RollbackWrite(s) \/ StepTransaction(s)
      PROVE  ContextInv'
  <2>1. UNCHANGED <<db, load, heap, failedAt, pUserData, pAux, library>>
    BY <1>4 DEF StartWrite, EndWrite, RollbackWrite, StepTransaction, registry
  <2>2. Connected'
    BY <1>4, <2>1, WriteSameTables, SameTablesConnected DEF ContextInv
  <2> QED
    BY <2>1, <2>2, QuietKeepsContexts
<1>5. ASSUME NEW s \in Stmts, Finalize(s) PROVE ContextInv'
  BY <1>5, FinalizeKeepsContexts
<1>6. ASSUME NEW forceZombie \in BOOLEAN, Close(forceZombie) PROVE ContextInv'
  BY <1>6, CloseKeepsContexts
<1>7. CASE UNCHANGED vars
  <2>1. UNCHANGED <<db, load, heap, failedAt, pUserData, pAux, library, vtable>>
    BY <1>7 DEF vars, registry, tables
  <2>2. Connected'
    BY <2>1 DEF ContextInv, Connected
  <2> QED
    BY <2>1, <2>2, QuietKeepsContexts
<1> QED
  BY <1>1, <1>2, <1>3, <1>4, <1>5, <1>6, <1>7 DEF Next, LoadStep

LEMMA Invariance == Spec => [](TablesInv /\ ContextInv)
<1>1. Init => TablesInv /\ ContextInv
  BY TablesInit, ContextInit
<1>2. TablesInv /\ ContextInv /\ [Next]_vars => (TablesInv /\ ContextInv)'
  <2>1. ContextInv => AuxTyped
    BY DEF ContextInv, RegistryTyped
  <2> QED
    BY <2>1, TablesStep, ContextStep
<1> QED
  BY <1>1, <1>2, PTL DEF Spec

-----------------------------------------------------------------------------
(***************************************************************************)
(* What the invariant is for.                                              *)
(***************************************************************************)

\* Every variable keeps its type: the handles of the library and the
\* reference counts never go below zero, and no load runs past the last
\* registration of sqlite3_decimal_init.
THEOREM TypeCorrect == Spec => []TypeOK
<1>1. TablesInv /\ ContextInv => TypeOK
  BY DEF TablesInv, TablesTyped, TableMaps, EpoMaps, StmtMaps, Closing,
         ContextInv, RegistryTyped, AuxTyped, TypeOK
<1> QED
  BY <1>1, Invariance, PTL

\* A table is disconnected (decimalStatusDisconnect, decimalTrapsDisconnect,
\* decimalContextDisconnect) exactly when its module, the statements compiled
\* for it and the transaction have all let go of it.
THEOREM References == Spec => []ReferencesCounted
BY Invariance, TablesInvImplies, PTL

\* A table has the copy that its xBegin allocates exactly while it is in the
\* transaction, so that xCommit and xRollback free each copy once.
THEOREM CopiesMatch == Spec => []CopiesMatchTransaction
BY Invariance, TablesInvImplies, PTL

\* Functions, modules and tables point to live contexts, unless the very
\* last registration of sqlite3_decimal_init failed; no context is freed
\* twice, and a completed load keeps its context and its code.
THEOREM NoDangling == Spec => []NoDanglingContext
<1>1. ASSUME TablesInv, ContextInv PROVE NoDanglingContext
  <2> USE <1>1 DEF ContextInv
  <2>1. ASSUME NEW c \in TableContexts \cup FunctionContexts
        PROVE  heap[c] = "live" \/ failedAt[c] = "Context"
    <3>1. CASE \E m \in VTabs : c = pAux[m] /\ c # 0
      BY <3>1 DEF Pointers, Good
    <3>2. CASE \E f \in Functions : c = pUserData[f] /\ c # 0
      BY <3>2 DEF Pointers, Good
    <3>3. CASE \E i \in Addresses : vtable[i] # NULL /\ c = vtable[i].decCtx
      <4>1. PICK i \in Addresses : vtable[i] # NULL /\ c = vtable[i].decCtx
        BY <3>3
      <4>2. vtable[i] \in {NULL} \cup VTables
        BY InvFacts DEF TableMaps
      <4>3. vtable[i].module \in VTabs /\ c # 0
        BY <4>1, <4>2 DEF VTables, Loads
      <4>4. c = pAux[vtable[i].module]
        BY <4>1 DEF Connected
      <4> QED
        BY <4>3, <4>4 DEF Pointers, Good
    <3> QED
      BY <2>1, <3>1, <3>2, <3>3 DEF TableContexts, FunctionContexts
  <2>2. pAux["Context"] # 0 => library.handles > 0
    BY DEF Libraries, Busy, RegistryTyped
  <2> QED
    BY <2>1, <2>2 DEF HeapKept, NoDanglingContext
<1> QED
  BY <1>1, Invariance, PTL

\* The three tables work on one context, however often the extension is
\* loaded and wherever a load fails.
THEOREM Shared == Spec => []TablesShareContext
<1>1. ASSUME TablesInv, ContextInv PROVE TablesShareContext
  <2> USE <1>1 DEF ContextInv
  <2>1. ASSUME NEW c \in TableContexts
        PROVE  c # 0 /\ c = pAux["Status"]
    <3>1. PICK m \in VTabs : c = pAux[m] /\ c # 0
      <4>1. CASE \E i \in Addresses : vtable[i] # NULL /\ c = vtable[i].decCtx
        <5>1. PICK i \in Addresses : vtable[i] # NULL /\ c = vtable[i].decCtx
          BY <4>1
        <5>2. vtable[i] \in {NULL} \cup VTables
          BY InvFacts DEF TableMaps
        <5>3. vtable[i].module \in VTabs /\ c # 0
          BY <5>1, <5>2 DEF VTables, Loads
        <5> QED
          BY <5>1, <5>3 DEF Connected
      <4> QED
        BY <2>1, <4>1 DEF TableContexts
    <3> QED
      BY <3>1 DEF InOrder, VTabs
  <2> QED
    BY <2>1 DEF TablesShareContext
<1> QED
  BY <1>1, Invariance, PTL

\* sqlite3_close and the finalisation of a zombie's last statement leave no
\* table, no copy and no context but those of loads that failed.
THEOREM CloseReleases == Spec => []CloseReleasesEverything
<1>1. ASSUME TablesInv, ContextInv PROVE CloseReleasesEverything
  <2>1. db = "closed" => \A i \in Addresses : vtable[i] = NULL
    BY <1>1, ClosedHasNoTable
  <2>2. ASSUME db = "closed", NEW c \in Loads, heap[c] = "live" PROVE failedAt[c] # NULL
    <3>1. load = NULL /\ pAux["Context"] = 0 /\ c # 0
      BY <1>1, <2>2 DEF ContextInv, Loading, Loads
    <3> QED
      BY <1>1, <2>2, <3>1 DEF ContextInv, HeapKept
  <2>3. db = "zombie" => \E s \in Stmts : stmt[s] # NULL
    BY <1>1 DEF TablesInv, Closing
  <2> QED
    BY <2>1, <2>2, <2>3 DEF CloseReleasesEverything
<1> QED
  BY <1>1, Invariance, PTL
=============================================================================
