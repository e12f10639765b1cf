--------------------------- MODULE SliceViewProofs ---------------------------
(***************************************************************************)
(* For every set of pools, layouts, slices and claims: no device is        *)
(* counted twice while pools are replaced slice by slice, and once the     *)
(* view has caught up, the counted devices, nodes and free devices are the *)
(* scheduler's under the classes the code knows, and never fewer.          *)
(*                                                                         *)
(* The view may be behind by any number of generations, and mix them.      *)
(* What orders it is the pool's history: each slice the view holds is the  *)
(* one its generation was published with.                                  *)
(***************************************************************************)
EXTENDS SliceView, FitProofs, FiniteSetTheorems, FunctionTheorems, TLAPS

Drivers == {LlmfitDriver, NvidiaDriver}

Devices == LlmfitDevice \union NvidiaDevice

Slices == [gen : Nat, devs : SUBSET Devices]

Typed ==
    /\ api \in [Pools -> [gen : 1 .. MaxGen, layout : UNION {Layouts[p] : p \in Pools}]]
    /\ \A p \in Pools : api[p].layout \in Layouts[p]
    /\ view \in [Pools -> [SliceNames -> Slices]]
    /\ held \subseteq [driver : Drivers, pool : STRING, device : STRING]
    /\ IsFiniteSet(held) /\ Cardinality(held) <= MaxHeld

(* h has the layout of every generation of the pool so far, and what the   *)
(* view holds of the pool is from it.                                      *)
History(p, h) ==
    /\ h[api[p].gen] = api[p].layout
    /\ \A s \in SliceNames : view[p][s] # NoSlice =>
          /\ view[p][s].gen \in 1 .. api[p].gen
          /\ s \in DOMAIN h[view[p][s].gen]
          /\ view[p][s].devs = h[view[p][s].gen][s]

Recorded == \A p \in Pools : \E h \in [Nat -> Layouts[p]] : History(p, h)

IndInv == Typed /\ Recorded

(* What a pool may be published with.                                      *)
LEMMA LayoutDevices ==
    ASSUME NEW p \in Pools, NEW l \in Layouts[p], NEW s \in DOMAIN l
    PROVE  s \in SliceNames /\ IsFiniteSet(l[s]) /\ l[s] \subseteq Devices
<1>1. /\ DOMAIN l \subseteq SliceNames /\ IsFiniteSet(l[s])
      /\ l[s] \subseteq IF p.driver = NvidiaDriver THEN NvidiaDevice ELSE LlmfitDevice
  BY LayoutsAssumption
<1> QED
  BY <1>1 DEF Devices

(* At first nothing is in the view.                                        *)
LEMMA InitIndInv == Init => IndInv
<1> SUFFICES ASSUME Init PROVE IndInv
  OBVIOUS
<1>0. view = [p \in Pools |-> [s \in SliceNames |-> NoSlice]] /\ held = {}
  BY DEF Init
<1>1. NoSlice \in Slices
  BY DEF NoSlice, Slices
<1>2. api \in [Pools -> [gen : {1}, layout : UNION {Layouts[p] : p \in Pools}]]
      /\ \A p \in Pools : api[p].layout \in Layouts[p]
  BY DEF Init
<1>3. Typed
  <2>1. \A p \in Pools : api[p] \in [gen : 1 .. MaxGen, layout : UNION {Layouts[q] : q \in Pools}]
    <3> SUFFICES ASSUME NEW p \in Pools
                 PROVE  api[p] \in [gen : 1 .. MaxGen, layout : UNION {Layouts[q] : q \in Pools}]
      OBVIOUS
    <3>1. api[p] \in [gen : {1}, layout : UNION {Layouts[q] : q \in Pools}]
      BY <1>2
    <3>2. 1 \in 1 .. MaxGen
      BY SliceViewAssumption
    <3> QED
      BY <3>1, <3>2
  <2>2. api \in [Pools -> [gen : 1 .. MaxGen, layout : UNION {Layouts[q] : q \in Pools}]]
    BY <1>2, <2>1
  <2>3. view \in [Pools -> [SliceNames -> Slices]]
    <3>1. [s \in SliceNames |-> NoSlice] \in [SliceNames -> Slices]
      BY <1>1
    <3> QED
      BY <1>0, <3>1
  <2>4. IsFiniteSet(held) /\ Cardinality(held) <= MaxHeld
    <3>1. IsFiniteSet({}) /\ Cardinality({}) = 0
      BY FS_EmptySet
    <3> QED
      BY <1>0, <3>1, SliceViewAssumption
  <2> QED
    BY <1>0, <1>2, <2>2, <2>3, <2>4 DEF Typed
<1>4. ASSUME NEW p \in Pools PROVE \E h \in [Nat -> Layouts[p]] : History(p, h)
  <2> DEFINE h == [g \in Nat |-> api[p].layout]
  <2>1. h \in [Nat -> Layouts[p]] /\ h[api[p].gen] = api[p].layout
    <3>1. api[p].gen = 1 /\ api[p].layout \in Layouts[p]
      BY <1>2
    <3> QED
      BY <3>1
  <2>2. \A s \in SliceNames : view[p][s] = NoSlice
    BY <1>0
  <2> QED
    BY <2>1, <2>2 DEF History
<1> QED
  BY <1>3, <1>4 DEF IndInv, Recorded

(* What is published is a slice of the newest generation.                  *)
LEMMA PublishedSlice ==
    ASSUME Typed, NEW p \in Pools, NEW s \in SliceNames
    PROVE  /\ Published(p, s) \in Slices
           /\ Published(p, s) # NoSlice <=> s \in DOMAIN api[p].layout
           /\ s \in DOMAIN api[p].layout =>
                 /\ Published(p, s).gen = api[p].gen
                 /\ Published(p, s).devs = api[p].layout[s]
<1>1. api[p].gen \in Nat /\ api[p].gen > 0
  BY SliceViewAssumption DEF Typed
<1>2. s \in DOMAIN api[p].layout => api[p].layout[s] \subseteq Devices
  BY LayoutDevices DEF Typed
<1> QED
  BY <1>1, <1>2 DEF Published, NoSlice, Slices

(* A replaced pool gets a further generation in its history.               *)
LEMMA StepRepublish ==
    ASSUME IndInv, NEW p \in Pools, Republish(p)
    PROVE  IndInv'
<1> USE SliceViewAssumption DEF IndInv
<1>1. PICK l \in Layouts[p] : api' = [api EXCEPT ![p] = [gen |-> @.gen + 1, layout |-> l]]
  BY DEF Republish
<1>2. /\ api[p].gen \in 1 .. MaxGen /\ api[p].gen + 1 \in 1 .. MaxGen
      /\ view' = view /\ held' = held
  BY DEF Republish, Typed
<1>3. Typed'
  <2> DEFINE r == [gen |-> api[p].gen + 1, layout |-> l]
  <2>1. r \in [gen : 1 .. MaxGen, layout : UNION {Layouts[q] : q \in Pools}]
    BY <1>2
  <2>2. r.layout = l
    OBVIOUS
  <2>3. api' = [api EXCEPT ![p] = r]
    BY <1>1
  <2> HIDE DEF r
  <2> QED
    BY <1>2, <2>1, <2>2, <2>3 DEF Typed
<1>4. ASSUME NEW q \in Pools PROVE (\E h \in [Nat -> Layouts[q]] : History(q, h))'
  <2>1. PICK h \in [Nat -> Layouts[q]] : History(q, h)
    BY DEF Recorded
  <2>2. CASE q # p
    <3>1. api'[q] = api[q]
      BY <1>1, <2>2 DEF Typed
    <3> QED
      BY <1>2, <2>1, <3>1 DEF History
  <2>3. CASE q = p
    <3>0. PICK next : next = [h EXCEPT ![api[p].gen + 1] = l]
      OBVIOUS
    <3>1. next \in [Nat -> Layouts[p]] /\ next[api[p].gen + 1] = l
      BY <1>2, <2>3, <3>0
    <3>2. \A g \in 1 .. api[p].gen : next[g] = h[g]
      BY <1>2, <2>3, <3>0
    <3>3. api'[p].gen = api[p].gen + 1 /\ api'[p].layout = l
      BY <1>1 DEF Typed
    <3>4. \A s \in SliceNames : view[p][s] # NoSlice =>
             /\ view[p][s].gen \in 1 .. api[p].gen + 1
             /\ s \in DOMAIN next[view[p][s].gen]
             /\ view[p][s].devs = next[view[p][s].gen][s]
      BY <1>2, <2>1, <2>3, <3>2 DEF History
    <3>5. History(p, next)'
      <4>1. next[api'[p].gen] = api'[p].layout
        BY <3>1, <3>3
      <4>2. \A s \in SliceNames : view'[p][s] # NoSlice =>
               /\ view'[p][s].gen \in 1 .. api'[p].gen
               /\ s \in DOMAIN next[view'[p][s].gen]
               /\ view'[p][s].devs = next[view'[p][s].gen][s]
        BY <1>2, <3>3, <3>4
      <4> QED
        BY <4>1, <4>2 DEF History
    <3>6. \E g \in [Nat -> Layouts[p]] : History(p, g)'
      BY <3>1, <3>5
    <3> QED
      BY <2>3, <3>6
  <2> QED
    BY <2>2, <2>3
<1> QED
  BY <1>3, <1>4 DEF Recorded

(* A delivered slice is of the newest generation.                          *)
LEMMA StepDeliver ==
    ASSUME IndInv, NEW p \in Pools, NEW s \in SliceNames, Deliver(p, s)
    PROVE  IndInv'
<1> USE DEF IndInv
<1> DEFINE v == Published(p, s)
<1>1. view' = [view EXCEPT ![p][s] = v] /\ api' = api /\ held' = held
  BY DEF Deliver
<1>2. /\ v \in Slices
      /\ v # NoSlice => /\ s \in DOMAIN api[p].layout
                        /\ v.gen = api[p].gen /\ v.devs = api[p].layout[s]
  BY PublishedSlice
<1> HIDE DEF v
<1>3. \A q \in Pools, t \in SliceNames :
         view'[q][t] = IF q = p /\ t = s THEN v ELSE view[q][t]
  BY <1>1 DEF Typed
<1>4. Typed'
  BY <1>1, <1>2 DEF Typed
<1>5. ASSUME NEW q \in Pools PROVE (\E h \in [Nat -> Layouts[q]] : History(q, h))'
  <2>1. PICK h \in [Nat -> Layouts[q]] : History(q, h)
    BY DEF Recorded
  <2>2. api[q].gen \in 1 .. api[q].gen
    BY SliceViewAssumption DEF Typed
  <2>3. History(q, h)'
    BY <1>1, <1>2, <1>3, <2>1, <2>2 DEF History
  <2> QED
    BY <2>3
<1> QED
  BY <1>4, <1>5 DEF Recorded

(* Allocations stay within their bound, and are of devices with a name.    *)
LEMMA StepHeld ==
    ASSUME IndInv, (\E p \in Pools : Allocate(p)) \/ Release
    PROVE  IndInv'
<1> USE SliceViewAssumption DEF IndInv
<1>1. api' = api /\ view' = view
  BY DEF Allocate, Release
<1>2. /\ held' \subseteq [driver : Drivers, pool : STRING, device : STRING]
      /\ IsFiniteSet(held') /\ Cardinality(held') <= MaxHeld
  <2>1. ASSUME NEW p \in Pools, Allocate(p) 
        PROVE  /\ held' \subseteq [driver : Drivers, pool : STRING, device : STRING]
               /\ IsFiniteSet(held') /\ Cardinality(held') <= MaxHeld
    <3>1. PICK d \in PoolDevices(p) : Key(p, d) \notin held /\ held' = held \union {Key(p, d)}
      BY <2>1 DEF Allocate
    <3>2. d \in Devices
      BY LayoutDevices DEF PoolDevices, Typed
    <3>3. Key(p, d) \in [driver : Drivers, pool : STRING, device : STRING]
      BY <3>2 DEF Key, Devices, LlmfitDevice, NvidiaDevice, Drivers
    <3>4. Cardinality(held) < MaxHeld /\ Cardinality(held) \in Nat
      BY <2>1, FS_CardinalityType DEF Allocate, Typed
    <3>5. IsFiniteSet(held') /\ Cardinality(held') = Cardinality(held) + 1
      BY <3>1, FS_AddElement DEF Typed
    <3> QED
      BY <3>1, <3>3, <3>4, <3>5 DEF Typed
  <2>2. CASE Release
    <3>1. PICK k \in held : held' = held \ {k}
      BY <2>2 DEF Release
    <3>2. IsFiniteSet(held') /\ Cardinality(held') <= Cardinality(held)
          /\ Cardinality(held') \in Nat /\ Cardinality(held) \in Nat
      BY <3>1, FS_Subset, FS_CardinalityType DEF Typed
    <3> QED
      BY <3>1, <3>2 DEF Typed
  <2> QED
    BY <2>1, <2>2
<1>3. Typed'
  BY <1>1, <1>2 DEF Typed
<1>4. Recorded'
  BY <1>1 DEF Recorded, History
<1> QED
  BY <1>3, <1>4

(* Every step keeps the invariant.                                         *)
THEOREM Invariance == Spec => []IndInv
<1>1. IndInv /\ [Next]_vars => IndInv'
  <2>1. ASSUME IndInv, UNCHANGED vars PROVE IndInv'
    BY <2>1 DEF IndInv, Typed, Recorded, History, vars
  <2> QED
    BY <2>1, StepRepublish, StepDeliver, StepHeld DEF Next
<1> QED
  BY InitIndInv, <1>1, PTL DEF Spec

-----------------------------------------------------------------------------
(* No device is counted twice.                                             *)

(* A finite set of numbers has a greatest one, or the sets of what is      *)
(* greater would have no smallest.                                         *)
LEMMA MaxExists ==
    ASSUME NEW G \in SUBSET Int, IsFiniteSet(G), G # {}
    PROVE  Max(G) \in G /\ \A g \in G : Max(G) >= g
<1> DEFINE Above(x) == {g \in G : g > x}
           T == {Above(x) : x \in G}
<1>1. T \subseteq FiniteSubsetsOf(G) /\ T # {}
  <2>1. \A x \in G : Above(x) \subseteq G /\ IsFiniteSet(Above(x))
    BY FS_Subset
  <2> QED
    BY <2>1 DEF FiniteSubsetsOf
<1>2. PICK U \in T : \A V \in T : <<V, U>> \notin StrictSubsetOrdering(G)
  BY <1>1, FS_StrictSubsetOrderingWellFounded, WFMin
<1>3. PICK x \in G : U = Above(x)
  OBVIOUS
<1>4. \A y \in G : x >= y
  <2> SUFFICES ASSUME NEW y \in G, y > x PROVE FALSE
    OBVIOUS
  <2>1. Above(y) \subseteq Above(x) /\ Above(y) # Above(x)
    <3>1. y \in Above(x) /\ y \notin Above(y)
      OBVIOUS
    <3>2. \A g \in G : g > y => g > x
      OBVIOUS
    <3>3. Above(y) \subseteq Above(x)
      BY <3>2
    <3>4. Above(y) # Above(x)
      BY <3>1, Zenon
    <3> QED
      BY <3>3, <3>4
  <2>2. Above(y) \in T /\ Above(y) \in SUBSET G /\ Above(x) \in SUBSET G
    OBVIOUS
  <2> QED
    BY <1>2, <1>3, <2>1, <2>2 DEF StrictSubsetOrdering
<1> QED
  BY <1>3, <1>4 DEF Max

Gens(driver, name) ==
    {view[ps[1]][ps[2]].gen : ps \in {x \in SlicesOf(driver) : x[1].node = name}}

(* Of a pool, only slices of the newest generation in the view count.      *)
LEMMA NewestGeneration ==
    ASSUME IndInv, NEW driver \in Drivers, NEW name
    PROVE  LET m == currentPoolGens(driver, name)
           IN  /\ m \in {0} \union Gens(driver, name)
               /\ \A g \in Gens(driver, name) : g \in Nat /\ m >= g
<1> DEFINE G == {0} \union Gens(driver, name)
<1>1. \A ps \in Pools \X SliceNames : view[ps[1]][ps[2]].gen \in 0 .. MaxGen
  <2> SUFFICES ASSUME NEW p \in Pools, NEW s \in SliceNames PROVE view[p][s].gen \in 0 .. MaxGen
    OBVIOUS
  <2>1. CASE view[p][s] = NoSlice
    BY <2>1, SliceViewAssumption DEF NoSlice
  <2>2. CASE view[p][s] # NoSlice
    <3>1. api[p].gen \in 1 .. MaxGen
      BY DEF IndInv, Typed
    <3>2. view[p][s].gen \in 1 .. api[p].gen
      BY <2>2 DEF IndInv, Recorded, History
    <3> QED
      BY <3>1, <3>2, SliceViewAssumption
  <2> QED
    BY <2>1, <2>2
<1>2. G \subseteq 0 .. MaxGen /\ 0 \in G
  BY <1>1, SliceViewAssumption DEF Gens, SlicesOf
<1>3. IsFiniteSet(0 .. MaxGen)
  BY FS_Interval, SliceViewAssumption
<1>4. IsFiniteSet(G)
  BY <1>2, <1>3, FS_Subset
<1>5. currentPoolGens(driver, name) = Max(G)
  BY DEF currentPoolGens, Gens
<1> HIDE DEF G
<1>6. Max(G) \in G /\ \A g \in G : Max(G) >= g
  BY <1>2, <1>4, MaxExists
<1> QED
  BY <1>2, <1>5, <1>6 DEF G

(* What an occurrence is: a device of a slice of the newest generation.    *)
LEMMA OccurrenceIs ==
    ASSUME IndInv, NEW driver \in Drivers, NEW o \in Occurrences(driver)
    PROVE  \E p \in Pools, s \in SliceNames, d \in Devices :
              /\ d \in view[p][s].devs
              /\ p.driver = driver /\ view[p][s] # NoSlice
              /\ view[p][s].gen >= currentPoolGens(driver, p.node)
              /\ o = [pool |-> p.node, slice |-> s, dev |-> d]
<1>1. PICK ps \in CurrentSlices(driver) :
          \E d \in view[ps[1]][ps[2]].devs : o = [pool |-> ps[1].node, slice |-> ps[2], dev |-> d]
  BY DEF Occurrences
<1>2. /\ ps[1] \in Pools /\ ps[2] \in SliceNames
      /\ ps[1].driver = driver /\ view[ps[1]][ps[2]] # NoSlice
      /\ view[ps[1]][ps[2]].gen >= currentPoolGens(driver, ps[1].node)
  BY DEF CurrentSlices, SlicesOf
<1>3. view[ps[1]][ps[2]].devs \subseteq Devices
  BY <1>2 DEF IndInv, Typed, Slices
<1> QED
  BY <1>1, <1>2, <1>3

(* Two slices of a pool that count are of one generation, hence of one     *)
(* layout, which has a device once.                                        *)
LEMMA CountedOnce == IndInv => NoDoubleCount
<1> SUFFICES ASSUME IndInv, NEW driver \in Drivers,
                    NEW o1 \in Occurrences(driver), NEW o2 \in Occurrences(driver),
                    o1.pool = o2.pool, o1.dev.name = o2.dev.name
             PROVE  o1 = o2
  BY DEF NoDoubleCount, Drivers
<1>1. PICK p \in Pools, s \in SliceNames, d \in Devices :
              /\ d \in view[p][s].devs
              /\ p.driver = driver /\ view[p][s] # NoSlice
              /\ view[p][s].gen >= currentPoolGens(driver, p.node)
              /\ o1 = [pool |-> p.node, slice |-> s, dev |-> d]
  BY OccurrenceIs
<1>2. PICK q \in Pools, t \in SliceNames, e \in Devices :
              /\ e \in view[q][t].devs
              /\ q.driver = driver /\ view[q][t] # NoSlice
              /\ view[q][t].gen >= currentPoolGens(driver, q.node)
              /\ o2 = [pool |-> q.node, slice |-> t, dev |-> e]
  BY OccurrenceIs
<1>3. p = q
  BY <1>1, <1>2, SliceViewAssumption
<1>4. view[p][s].gen \in Gens(driver, p.node) /\ view[p][t].gen \in Gens(driver, p.node)
  <2>1. <<p, s>> \in SlicesOf(driver) /\ <<p, t>> \in SlicesOf(driver)
    BY <1>1, <1>2, <1>3 DEF SlicesOf
  <2> QED
    BY <2>1 DEF Gens
<1>5. view[p][s].gen = view[p][t].gen
  <2> DEFINE m == currentPoolGens(driver, p.node)
  <2>1. /\ m \in {0} \union Gens(driver, p.node)
        /\ \A g \in Gens(driver, p.node) : g \in Nat /\ m >= g
    BY NewestGeneration
  <2> HIDE DEF m
  <2>2. view[p][s].gen >= m /\ view[p][t].gen >= m
    BY <1>1, <1>2, <1>3 DEF m
  <2> QED
    BY <1>4, <2>1, <2>2
<1>6. PICK h \in [Nat -> Layouts[p]] : History(p, h)
  BY DEF IndInv, Recorded
<1> DEFINE l == h[view[p][s].gen]
<1>7. /\ view[p][s].gen \in Nat
      /\ s \in DOMAIN l /\ d \in l[s]
      /\ t \in DOMAIN l /\ e \in l[t]
  BY <1>1, <1>2, <1>3, <1>5, <1>6 DEF History
<1>8. l \in Layouts[p]
  BY <1>6, <1>7
<1> HIDE DEF l
<1>9. s = t /\ d = e
  BY <1>1, <1>2, <1>7, <1>8, LayoutsAssumption
<1> QED
  BY <1>1, <1>2, <1>3, <1>9

(* satisfiable.go:48-51: whatever generations and slices of a pool the     *)
(* view mixes, no device is counted twice.                                 *)
THEOREM NeverCountedTwice == Spec => []NoDoubleCount
BY Invariance, CountedOnce, PTL

-----------------------------------------------------------------------------
(* The counts.                                                             *)

(* As many values as arguments at most.                                    *)
LEMMA ImageFinite ==
    ASSUME NEW S, IsFiniteSet(S), NEW f, DOMAIN f = S, f = [x \in S |-> f[x]]
    PROVE  /\ IsFiniteSet({f[x] : x \in S})
           /\ Cardinality({f[x] : x \in S}) <= Cardinality(S)
<1> DEFINE T == {f[x] : x \in S}
<1>1. f \in [S -> T] /\ \A t \in T : \E x \in S : f[x] = t
  OBVIOUS
<1> HIDE DEF T
<1>2. f \in Surjection(S, T)
  BY <1>1, Fun_IsSurj
<1>3. IsFiniteSet(T) /\ Cardinality(T) <= Cardinality(S)
  BY <1>2, FS_Surjection
<1> QED
  BY <1>3 DEF T

(* Every slice in the view has finitely many devices.                      *)
LEMMA ViewFinite ==
    ASSUME IndInv, NEW p \in Pools, NEW s \in SliceNames
    PROVE  IsFiniteSet(view[p][s].devs)
<1>1. CASE view[p][s] = NoSlice
  <2>1. view[p][s].devs = {}
    BY <1>1 DEF NoSlice
  <2>2. IsFiniteSet({})
    BY FS_EmptySet
  <2> QED
    BY <2>1, <2>2
<1>2. CASE view[p][s] # NoSlice
  <2>1. PICK h \in [Nat -> Layouts[p]] : History(p, h)
    BY DEF IndInv, Recorded
  <2> DEFINE l == h[view[p][s].gen]
  <2>2. view[p][s].gen \in Nat /\ s \in DOMAIN l /\ view[p][s].devs = l[s]
    BY <1>2, <2>1 DEF History
  <2>3. l \in Layouts[p]
    BY <2>1, <2>2
  <2> HIDE DEF l
  <2> QED
    BY <2>2, <2>3, LayoutDevices
<1> QED
  BY <1>1, <1>2

LEMMA OccurrencesFinite ==
    ASSUME IndInv, NEW driver \in Drivers
    PROVE  IsFiniteSet(Occurrences(driver))
<1> DEFINE C == CurrentSlices(driver)
           Of(ps) == {[pool |-> ps[1].node, slice |-> ps[2], dev |-> d] : d \in view[ps[1]][ps[2]].devs}
           f == [ps \in C |-> Of(ps)]
<1>1. C \subseteq Pools \X SliceNames
  BY DEF CurrentSlices, SlicesOf
<1>2. IsFiniteSet(C)
  <2>1. IsFiniteSet(Pools \X SliceNames)
    BY FS_Product, SliceViewAssumption
  <2> QED
    BY <1>1, <2>1, FS_Subset
<1>3. ASSUME NEW ps \in C PROVE IsFiniteSet(Of(ps))
  <2> DEFINE D == view[ps[1]][ps[2]].devs
             g == [d \in D |-> [pool |-> ps[1].node, slice |-> ps[2], dev |-> d]]
  <2>1. IsFiniteSet(D)
    BY <1>1, ViewFinite
  <2>2. Of(ps) = {g[d] : d \in D}
    OBVIOUS
  <2>3. DOMAIN g = D /\ g = [d \in D |-> g[d]]
    OBVIOUS
  <2> HIDE DEF g, D, Of
  <2> QED
    BY <2>1, <2>2, <2>3, ImageFinite
<1>4. IsFiniteSet({f[ps] : ps \in C})
  <2>1. DOMAIN f = C /\ f = [ps \in C |-> f[ps]]
    OBVIOUS
  <2> HIDE DEF f, C
  <2> QED
    BY <1>2, <2>1, ImageFinite
<1>5. {f[ps] : ps \in C} = {Of(ps) : ps \in C}
  OBVIOUS
<1>6. IsFiniteSet(UNION {Of(ps) : ps \in C})
  <2>1. \A T \in {Of(ps) : ps \in C} : IsFiniteSet(T)
    BY <1>3
  <2> HIDE DEF Of, C, f
  <2> QED
    BY <1>4, <1>5, <2>1, FS_UNION
<1> QED
  BY <1>6 DEF Occurrences

(* The rule of the claim's backend, and what it counts.                    *)
Mirror(ask, d) == IF backendFor(ask) = NvidiaDriver THEN NvidiaAdmits(ask, d) ELSE Admits(ask, d)

Matching(ask) == {o \in Occurrences(backendFor(ask)) : Mirror(ask, o.dev)}

LEMMA EvaluationIs ==
    ASSUME NEW ask
    PROVE  /\ backendFor(ask) \in Drivers
           /\ evaluateCandidates(ask) = Candidates(backendFor(ask), Matching(ask))
<1>1. backendFor(ask) \in Drivers /\ NvidiaDriver # LlmfitDriver
  BY DEF backendFor, Drivers, NvidiaDriver, LlmfitDriver
<1>2. CASE backendFor(ask) = NvidiaDriver
  <2>1. Matching(ask) = {o \in Occurrences(NvidiaDriver) : NvidiaAdmits(ask, o.dev)}
    BY <1>2 DEF Matching, Mirror
  <2>2. evaluateCandidates(ask) = EvaluateNvidiaSlices(ask)
    BY <1>2 DEF evaluateCandidates
  <2> QED
    BY <1>1, <1>2, <2>1, <2>2 DEF EvaluateNvidiaSlices
<1>3. CASE backendFor(ask) = LlmfitDriver
  <2>1. Matching(ask) = {o \in Occurrences(LlmfitDriver) : Admits(ask, o.dev)}
    BY <1>1, <1>3 DEF Matching, Mirror
  <2>2. evaluateCandidates(ask) = EvaluateSlices(ask)
    BY <1>1, <1>3 DEF evaluateCandidates
  <2> QED
    BY <1>1, <1>3, <2>1, <2>2 DEF EvaluateSlices
<1> QED
  BY <1>1, <1>2, <1>3 DEF Drivers

(* There are at most as many nodes, and free devices, as devices.          *)
LEMMA CountsBounded ==
    ASSUME IndInv, NEW ask \in Asks
    PROVE  LET c == evaluateCandidates(ask)
           IN  c.available <= c.devices /\ c.nodes <= c.devices
<1> DEFINE M == Matching(ask)
           f == [o \in M |-> o.pool]
           Free == {o \in M : [pool |-> o.pool, device |-> o.dev.name]
                                 \notin AllocatedDevices(backendFor(ask))}
<1>1. IsFiniteSet(M)
  <2>1. IsFiniteSet(Occurrences(backendFor(ask)))
    BY EvaluationIs, OccurrencesFinite
  <2>2. M \subseteq Occurrences(backendFor(ask))
    BY DEF Matching
  <2> QED
    BY <2>1, <2>2, FS_Subset
<1>2. Cardinality({o.pool : o \in M}) <= Cardinality(M)
  <2>1. DOMAIN f = M /\ f = [o \in M |-> f[o]] /\ {f[o] : o \in M} = {o.pool : o \in M}
    OBVIOUS
  <2> HIDE DEF f, M
  <2> QED
    BY <1>1, <2>1, ImageFinite
<1>3. Cardinality(Free) <= Cardinality(M)
  BY <1>1, FS_Subset
<1>4. /\ evaluateCandidates(ask).devices = Cardinality(M)
      /\ evaluateCandidates(ask).nodes = Cardinality({o.pool : o \in M})
      /\ evaluateCandidates(ask).available = Cardinality(Free)
  <2>1. evaluateCandidates(ask) = Candidates(backendFor(ask), M)
    BY EvaluationIs
  <2> HIDE DEF M
  <2> QED
    BY <2>1 DEF Candidates
<1> QED
  BY <1>2, <1>3, <1>4

(* satisfiable.go:80-150: the view is never ahead of what was published,   *)
(* and the evaluation counts at most as many nodes and free devices as     *)
(* devices, in every state of the view.                                    *)
THEOREM TypeCorrect == Spec => []TypeOK
<1>1. IndInv => TypeOK
  <2> SUFFICES ASSUME IndInv PROVE TypeOK
    OBVIOUS
  <2>1. \A p \in Pools : api[p].gen \in 1 .. MaxGen /\ api[p].layout \in Layouts[p]
    BY DEF IndInv, Typed
  <2>2. \A p \in Pools, s \in SliceNames : view[p][s].gen \in 0 .. api[p].gen
    <3> SUFFICES ASSUME NEW p \in Pools, NEW s \in SliceNames
                 PROVE  view[p][s].gen \in 0 .. api[p].gen
      OBVIOUS
    <3>1. view[p][s] = NoSlice \/ view[p][s].gen \in 1 .. api[p].gen
      BY DEF IndInv, Recorded, History
    <3> QED
      BY <2>1, <3>1, SliceViewAssumption DEF NoSlice
  <2>3. Cardinality(held) <= MaxHeld
    BY DEF IndInv, Typed
  <2> QED
    BY <2>1, <2>2, <2>3, CountsBounded DEF TypeOK
<1> QED
  BY Invariance, <1>1, PTL

-----------------------------------------------------------------------------
(* The view that has caught up.                                            *)

Occurrence(p, s, d) == [pool |-> p.node, slice |-> s, dev |-> d]

(* It has every published device, under the newest generation, and no      *)
(* other.                                                                  *)
LEMMA OccurrencesAre ==
    ASSUME IndInv, Settled, NEW driver \in Drivers, NEW o \in Occurrences(driver)
    PROVE  \E p \in Pools : /\ p.driver = driver /\ p.node = o.pool
                            /\ o.dev \in PoolDevices(p) /\ o.dev \in Devices
<1>1. PICK p \in Pools, s \in SliceNames, d \in Devices :
              /\ d \in view[p][s].devs
              /\ p.driver = driver /\ view[p][s] # NoSlice
              /\ view[p][s].gen >= currentPoolGens(driver, p.node)
              /\ o = [pool |-> p.node, slice |-> s, dev |-> d]
  BY OccurrenceIs
<1>2. s \in DOMAIN api[p].layout /\ d \in api[p].layout[s]
  BY <1>1, PublishedSlice DEF Settled, IndInv
<1> QED
  BY <1>1, <1>2 DEF PoolDevices

LEMMA PublishedOccur ==
    ASSUME IndInv, Settled, NEW p \in Pools, NEW s \in DOMAIN api[p].layout,
           NEW d \in api[p].layout[s]
    PROVE  Occurrence(p, s, d) \in Occurrences(p.driver)
<1>1. api[p].layout \in Layouts[p] /\ p.driver \in Drivers
  BY SliceViewAssumption DEF IndInv, Typed, Drivers
<1>2. s \in SliceNames
  BY <1>1, LayoutDevices
<1>3. /\ view[p][s] # NoSlice /\ view[p][s].gen = api[p].gen
      /\ view[p][s].devs = api[p].layout[s]
  BY <1>2, PublishedSlice DEF Settled, IndInv
<1>4. ASSUME NEW g \in Gens(p.driver, p.node) PROVE g = api[p].gen
  <2>1. PICK q \in Pools, t \in SliceNames :
            /\ q.driver = p.driver /\ q.node = p.node /\ view[q][t] # NoSlice
            /\ g = view[q][t].gen
    BY <1>4 DEF Gens, SlicesOf
  <2>2. q = p
    BY <2>1, SliceViewAssumption
  <2> QED
    BY <2>1, <2>2, PublishedSlice DEF Settled, IndInv
<1>5. view[p][s].gen >= currentPoolGens(p.driver, p.node)
  <2> DEFINE m == currentPoolGens(p.driver, p.node)
  <2>1. m \in {0} \union Gens(p.driver, p.node)
    BY <1>1, NewestGeneration
  <2> HIDE DEF m
  <2>2. api[p].gen \in Nat
    BY DEF IndInv, Typed
  <2>3. m = 0 \/ m = api[p].gen
    BY <1>4, <2>1
  <2>4. api[p].gen >= m
    BY <2>2, <2>3
  <2> QED
    BY <1>3, <2>4 DEF m
<1>6. <<p, s>> \in CurrentSlices(p.driver)
  BY <1>2, <1>3, <1>5 DEF CurrentSlices, SlicesOf
<1>7. {[pool |-> p.node, slice |-> s, dev |-> e] : e \in view[p][s].devs}
         \in {{[pool |-> ps[1].node, slice |-> ps[2], dev |-> e] : e \in view[ps[1]][ps[2]].devs}
                 : ps \in CurrentSlices(p.driver)}
  BY <1>6
<1> QED
  BY <1>3, <1>7 DEF Occurrences, Occurrence

(* The occurrences M stand for the devices A, pool and device.             *)
StandFor(M, A, driver) ==
    /\ A \subseteq Pools \X Devices /\ M \subseteq Occurrences(driver)
    /\ \A pd \in A : pd[1].driver = driver /\ pd[2] \in PoolDevices(pd[1])
    /\ \A o \in Occurrences(driver) :
          o \in M <=> \E pd \in A : pd[1].node = o.pool /\ pd[2] = o.dev

(* Pools and their devices count as the occurrences that stand for them:   *)
(* one for each.                                                           *)
LEMMA SameCount ==
    ASSUME IndInv, Settled, NEW driver \in Drivers, NEW M, NEW A, StandFor(M, A, driver)
    PROVE  /\ IsFiniteSet(A) /\ Cardinality(M) = Cardinality(A)
           /\ Cardinality({o.pool : o \in M}) = Cardinality({pd[1] : pd \in A})
<1> DEFINE For(o) == CHOOSE pd \in A : pd[1].node = o.pool /\ pd[2] = o.dev
           f == [o \in M |-> For(o)]
<1>0. /\ A \subseteq Pools \X Devices /\ M \subseteq Occurrences(driver)
      /\ \A pd \in A : pd[1].driver = driver /\ pd[2] \in PoolDevices(pd[1])
      /\ \A o \in Occurrences(driver) :
            o \in M <=> \E pd \in A : pd[1].node = o.pool /\ pd[2] = o.dev
  BY DEF StandFor
<1>1. \A o \in M : For(o) \in A /\ For(o)[1].node = o.pool /\ For(o)[2] = o.dev
  BY <1>0
<1> HIDE DEF For
<1>2. ASSUME NEW o1 \in M, NEW o2 \in M, For(o1) = For(o2) PROVE o1 = o2
  <2>1. o1.pool = o2.pool /\ o1.dev.name = o2.dev.name
    BY <1>1, <1>2
  <2> QED
    BY <1>0, <2>1, CountedOnce DEF NoDoubleCount, Drivers
<1>3. ASSUME NEW pd \in A PROVE \E o \in M : For(o) = pd
  <2>1. PICK s \in DOMAIN api[pd[1]].layout : pd[2] \in api[pd[1]].layout[s]
    BY <1>0 DEF PoolDevices
  <2> DEFINE o == Occurrence(pd[1], s, pd[2])
  <2>2. o \in Occurrences(driver) /\ o.pool = pd[1].node /\ o.dev = pd[2]
    BY <1>0, <2>1, PublishedOccur DEF Occurrence
  <2> HIDE DEF o
  <2>3. o \in M
    BY <1>0, <2>2
  <2>4. /\ For(o) \in A /\ For(o)[1].node = pd[1].node /\ For(o)[2] = pd[2]
        /\ For(o)[1].driver = pd[1].driver
    BY <1>0, <1>1, <2>2, <2>3
  <2>5. For(o) = pd
    BY <1>0, <2>4, SliceViewAssumption
  <2> QED
    BY <2>3, <2>5
<1>4. IsFiniteSet(M)
  BY <1>0, OccurrencesFinite, FS_Subset
<1>5. f \in Bijection(M, A)
  BY <1>1, <1>2, <1>3, Fun_IsBij
<1>6. IsFiniteSet(A) /\ Cardinality(A) = Cardinality(M)
  <2>1. ExistsBijection(M, A)
    BY <1>5 DEF ExistsBijection
  <2> QED
    BY <1>4, <2>1, FS_Bijection
<1> DEFINE P == {pd[1] : pd \in A}
           N == {o.pool : o \in M}
           g == [p \in P |-> p.node]
<1>7. \A p \in P : p.node \in N
  <2> SUFFICES ASSUME NEW pd \in A PROVE pd[1].node \in N
    OBVIOUS
  <2>1. PICK o \in M : For(o) = pd
    BY <1>3
  <2> QED
    BY <1>1, <2>1
<1>8. \A p, q \in P : p.node = q.node => p = q
  BY <1>0, SliceViewAssumption
<1>9. \A n \in N : \E p \in P : p.node = n
  <2> SUFFICES ASSUME NEW o \in M PROVE \E p \in P : p.node = o.pool
    OBVIOUS
  <2> QED
    BY <1>1
<1>10. P \subseteq Pools
  BY <1>0
<1> HIDE DEF P, N
<1>11. g \in Bijection(P, N)
  BY <1>7, <1>8, <1>9, Fun_IsBij
<1>12. IsFiniteSet(P)
  BY <1>10, FS_Subset, SliceViewAssumption
<1>13. Cardinality(N) = Cardinality(P)
  <2>1. ExistsBijection(P, N)
    BY <1>11 DEF ExistsBijection
  <2> QED
    BY <1>12, <2>1, FS_Bijection
<1> QED
  BY <1>6, <1>13 DEF P, N

(* The mirror counts every device the scheduler would admit, and under a   *)
(* class it knows no other.                                                *)
LEMMA MirrorsEligible ==
    ASSUME IndInv, NEW ask \in Asks, NEW p \in Pools, p.driver = backendFor(ask),
           NEW d \in PoolDevices(p)
    PROVE  /\ d \in Eligible(ask, p) => Mirror(ask, d)
           /\ Mirrored(ask) => (Mirror(ask, d) <=> d \in Eligible(ask, p))
<1>0. ask \in AskType
  BY SliceViewAssumption
<1>1. PICK s \in DOMAIN api[p].layout : d \in api[p].layout[s]
  BY DEF PoolDevices
<1>2. api[p].layout \in Layouts[p]
  BY DEF IndInv, Typed
<1>3. d \in IF p.driver = NvidiaDriver THEN NvidiaDevice ELSE LlmfitDevice
  BY <1>1, <1>2, LayoutsAssumption
<1>4. CASE p.driver = NvidiaDriver
  <2>1. ask.memoryGi > 0 \/ d.mem # Absent
    BY <1>1, <1>2, <1>4, AsksAssumption
  <2>2. /\ NvidiaSchedulable(ask, d) => NvidiaAdmits(ask, d)
        /\ ask.class \in NvidiaClasses /\ ask.extra = ""
              => (NvidiaAdmits(ask, d) <=> NvidiaSchedulable(ask, d))
    BY <1>0, <1>3, <1>4, <2>1, EvaluateNvidiaMirrorsScheduler
  <2> QED
    BY <1>4, <2>2 DEF Mirror, Eligible, Mirrored
<1>5. CASE p.driver # NvidiaDriver
  <2>1. /\ Schedulable(ask, d) => Admits(ask, d)
        /\ ask.class \in LlmfitClasses /\ ask.extra = ""
              => (Admits(ask, d) <=> Schedulable(ask, d))
    BY <1>0, <1>3, <1>5, EvaluateMirrorsScheduler
  <2> QED
    BY <1>5, <2>1 DEF Mirror, Eligible, Mirrored
<1> QED
  BY <1>4, <1>5

(* A device is held for the evaluation exactly when it is for its driver.  *)
LEMMA HeldIs ==
    ASSUME IndInv, NEW p \in Pools, NEW d
    PROVE  Key(p, d) \in held
              <=> [pool |-> p.node, device |-> d.name] \in AllocatedDevices(p.driver)
<1>1. \A k \in held : k = [driver |-> k.driver, pool |-> k.pool, device |-> k.device]
  BY DEF IndInv, Typed
<1>2. ASSUME Key(p, d) \in held
      PROVE  [pool |-> p.node, device |-> d.name] \in AllocatedDevices(p.driver)
  <2>1. Key(p, d).driver = p.driver /\ Key(p, d).pool = p.node /\ Key(p, d).device = d.name
    BY DEF Key
  <2>2. Key(p, d) \in {h \in held : h.driver = p.driver}
    BY <1>2, <2>1
  <2>3. [pool |-> Key(p, d).pool, device |-> Key(p, d).device] \in AllocatedDevices(p.driver)
    BY <2>2 DEF AllocatedDevices
  <2> QED
    BY <2>1, <2>3
<1>3. ASSUME [pool |-> p.node, device |-> d.name] \in AllocatedDevices(p.driver)
      PROVE  Key(p, d) \in held
  <2>1. PICK k \in held : /\ k.driver = p.driver
                          /\ [pool |-> k.pool, device |-> k.device] = [pool |-> p.node, device |-> d.name]
    BY <1>3 DEF AllocatedDevices
  <2>2. k.pool = p.node /\ k.device = d.name
    BY <2>1
  <2>3. k = Key(p, d)
    BY <1>1, <2>1, <2>2 DEF Key
  <2> QED
    BY <2>3
<1> QED
  BY <1>2, <1>3

(* The published devices that the mirror admits, with their pools.         *)
MirrorDevices(ask) ==
    UNION {{<<p, d>> : d \in {e \in PoolDevices(p) : Mirror(ask, e)}} : p \in BackendPools(ask)}

Count(pds) ==
    [devices |-> Cardinality(pds),
     nodes |-> Cardinality({pd[1] : pd \in pds}),
     available |-> Cardinality({pd \in pds : Key(pd[1], pd[2]) \notin held})]

(* Counting occurrences counts those devices, each once.                   *)
LEMMA CountsAreMirrors ==
    ASSUME IndInv, Settled, NEW ask \in Asks
    PROVE  /\ evaluateCandidates(ask) = Count(MirrorDevices(ask))
           /\ IsFiniteSet(MirrorDevices(ask))
           /\ MirrorDevices(ask) \in SUBSET (Pools \X Devices)
<1> DEFINE driver == backendFor(ask)
           all == MirrorDevices(ask)
           free == {pd \in all : Key(pd[1], pd[2]) \notin held}
           M == Matching(ask)
           F == {o \in M : [pool |-> o.pool, device |-> o.dev.name] \notin AllocatedDevices(driver)}
<1>0. driver \in Drivers /\ evaluateCandidates(ask) = Candidates(driver, M)
  BY EvaluationIs
<1>1. \A pd \in all : /\ pd = <<pd[1], pd[2]>>
                      /\ pd[1] \in Pools /\ pd[1].driver = driver
                      /\ pd[2] \in PoolDevices(pd[1]) /\ Mirror(ask, pd[2])
  BY DEF MirrorDevices, BackendPools
<1>2. \A p \in Pools : \A d \in PoolDevices(p) :
         p.driver = driver /\ Mirror(ask, d) => <<p, d>> \in all
  BY DEF MirrorDevices, BackendPools
<1> HIDE DEF all, driver
<1>3. all \in SUBSET (Pools \X Devices)
  <2> SUFFICES ASSUME NEW pd \in all PROVE pd \in Pools \X Devices
    OBVIOUS
  <2>1. PICK s \in DOMAIN api[pd[1]].layout : pd[2] \in api[pd[1]].layout[s]
    BY <1>1 DEF PoolDevices
  <2>2. api[pd[1]].layout \in Layouts[pd[1]]
    BY <1>1 DEF IndInv, Typed
  <2>3. pd[2] \in Devices
    BY <1>1, <2>1, <2>2, LayoutDevices
  <2> QED
    BY <1>1, <2>3
<1>4. M \in SUBSET Occurrences(driver) /\ F \in SUBSET Occurrences(driver)
  BY DEF Matching, driver
<1>5. ASSUME NEW o \in Occurrences(driver)
      PROVE  o \in M <=> \E pd \in all : pd[1].node = o.pool /\ pd[2] = o.dev
  <2>1. PICK p \in Pools : p.driver = driver /\ p.node = o.pool /\ o.dev \in PoolDevices(p)
    BY <1>0, OccurrencesAre
  <2>2. o \in M <=> Mirror(ask, o.dev)
    BY DEF Matching, driver
  <2>3. ASSUME Mirror(ask, o.dev)
        PROVE  \E pd \in all : pd[1].node = o.pool /\ pd[2] = o.dev
    <3>1. <<p, o.dev>> \in all
      BY <1>2, <2>1, <2>3
    <3> QED
      BY <2>1, <3>1
  <2>4. ASSUME NEW pd \in all, pd[1].node = o.pool, pd[2] = o.dev
        PROVE  Mirror(ask, o.dev)
    BY <1>1, <2>4
  <2> QED
    BY <2>2, <2>3, <2>4
<1>6. ASSUME NEW o \in Occurrences(driver)
      PROVE  o \in F <=> \E pd \in free : pd[1].node = o.pool /\ pd[2] = o.dev
  <2>1. \A pd \in all : pd[1].node = o.pool /\ pd[2] = o.dev =>
           (Key(pd[1], pd[2]) \in held
               <=> [pool |-> o.pool, device |-> o.dev.name] \in AllocatedDevices(driver))
    BY <1>1, HeldIs
  <2> HIDE DEF M
  <2> QED
    BY <1>5, <2>1
<1>7. /\ free \in SUBSET (Pools \X Devices)
      /\ \A pd \in all : pd[1].driver = driver /\ pd[2] \in PoolDevices(pd[1])
      /\ \A pd \in free : pd[1].driver = driver /\ pd[2] \in PoolDevices(pd[1])
  BY <1>1, <1>3
<1> HIDE DEF free, M, F
<1>8. /\ Cardinality(M) = Cardinality(all)
      /\ Cardinality({o.pool : o \in M}) = Cardinality({pd[1] : pd \in all})
  <2>1. StandFor(M, all, driver)
    BY <1>3, <1>4, <1>5, <1>7 DEF StandFor
  <2> QED
    BY <1>0, <2>1, SameCount
<1>9. Cardinality(F) = Cardinality(free)
  <2>1. StandFor(F, free, driver)
    BY <1>4, <1>6, <1>7 DEF StandFor
  <2> QED
    BY <1>0, <2>1, SameCount
<1>10. Candidates(driver, M) =
          [devices |-> Cardinality(M), nodes |-> Cardinality({o.pool : o \in M}),
           available |-> Cardinality(F)]
  BY DEF Candidates, F
<1>11. Count(all) =
          [devices |-> Cardinality(all), nodes |-> Cardinality({pd[1] : pd \in all}),
           available |-> Cardinality(free)]
  BY DEF Count, free
<1>12. IsFiniteSet(all)
  <2>1. StandFor(M, all, driver)
    BY <1>3, <1>4, <1>5, <1>7 DEF StandFor
  <2> QED
    BY <1>0, <2>1, SameCount
<1> QED
  BY <1>0, <1>3, <1>8, <1>9, <1>10, <1>11, <1>12 DEF all

(* A subset of a finite set of devices counts for no more.                 *)
LEMMA CountMonotone ==
    ASSUME NEW A \in SUBSET (Pools \X Devices), IsFiniteSet(A), NEW B \in SUBSET A
    PROVE  /\ Count(B).devices <= Count(A).devices
           /\ Count(B).nodes <= Count(A).nodes
           /\ Count(B).available <= Count(A).available
<1>1. Cardinality(B) <= Cardinality(A)
  BY FS_Subset
<1>2. Cardinality({pd[1] : pd \in B}) <= Cardinality({pd[1] : pd \in A})
  <2>1. IsFiniteSet({pd[1] : pd \in A})
    <3>1. {pd[1] : pd \in A} \subseteq Pools
      OBVIOUS
    <3> QED
      BY <3>1, FS_Subset, SliceViewAssumption
  <2>2. {pd[1] : pd \in B} \subseteq {pd[1] : pd \in A}
    OBVIOUS
  <2> QED
    BY <2>1, <2>2, FS_Subset
<1>3. Cardinality({pd \in B : Key(pd[1], pd[2]) \notin held})
         <= Cardinality({pd \in A : Key(pd[1], pd[2]) \notin held})
  <2>1. IsFiniteSet({pd \in A : Key(pd[1], pd[2]) \notin held})
    BY FS_Subset
  <2>2. {pd \in B : Key(pd[1], pd[2]) \notin held}
           \subseteq {pd \in A : Key(pd[1], pd[2]) \notin held}
    OBVIOUS
  <2> QED
    BY <2>1, <2>2, FS_Subset
<1> QED
  BY <1>1, <1>2, <1>3 DEF Count

(* The scheduler finds a part of what the mirror admits, and all of it     *)
(* under a class the code knows.                                           *)
LEMMA CountsMatch ==
    ASSUME IndInv, Settled, NEW ask \in Asks
    PROVE  LET c == evaluateCandidates(ask)
               s == SchedulerCount(ask)
           IN  /\ Mirrored(ask) => c = s
               /\ s.devices <= c.devices /\ s.nodes <= c.nodes
               /\ s.available <= c.available
<1> DEFINE E == UNION {{<<p, d>> : d \in Eligible(ask, p)} : p \in BackendPools(ask)}
           A == MirrorDevices(ask)
<1>1. evaluateCandidates(ask) = Count(A) /\ IsFiniteSet(A) /\ A \in SUBSET (Pools \X Devices)
  BY CountsAreMirrors
<1>2. SchedulerCount(ask) = Count(E)
  BY DEF SchedulerCount, Count
<1>3. \A p \in BackendPools(ask) : Eligible(ask, p) \subseteq PoolDevices(p)
  BY DEF Eligible
<1>4. ASSUME NEW p \in BackendPools(ask), NEW d \in PoolDevices(p)
      PROVE  /\ d \in Eligible(ask, p) => Mirror(ask, d)
             /\ Mirrored(ask) => (Mirror(ask, d) <=> d \in Eligible(ask, p))
  BY MirrorsEligible DEF BackendPools
<1>5. E \in SUBSET A
  BY <1>3, <1>4 DEF MirrorDevices
<1>6. ASSUME Mirrored(ask) PROVE E = A
  <2>1. \A p \in BackendPools(ask) :
           Eligible(ask, p) = {e \in PoolDevices(p) : Mirror(ask, e)}
    BY <1>3, <1>4, <1>6
  <2> QED
    BY <2>1 DEF MirrorDevices
<1> HIDE DEF E, A
<1> QED
  BY <1>1, <1>2, <1>5, <1>6, CountMonotone

(* satisfiable.go:80-220, satisfiable_nvidia.go: once the view has caught  *)
(* up, the devices, nodes and free devices in status are those that the    *)
(* scheduler finds under a class the code knows and the generated CEL, and *)
(* never fewer than it finds under whatever class and extraSelectors.      *)
THEOREM CountsAreTheSchedulers == Spec => []CandidatesMatchScheduler
<1>1. IndInv => CandidatesMatchScheduler
  BY CountsMatch DEF CandidatesMatchScheduler
<1> QED
  BY Invariance, <1>1, PTL

(* nvidia.go:22-68: the one memory threshold of a board tells apart        *)
(* partitions that carry the bandwidth from those that do not.             *)
THEOREM MidpointsHold == Spec => []MidpointsRobust
<1>1. IndInv => MidpointsRobust
  <2> SUFFICES ASSUME NEW ask \in Asks, NEW b \in DOMAIN Boards,
                      ask.bw > 0, migThresholdOK(Boards[b], ask),
                      Boards[b].slices * 2 <= Boards[b].mem,
                      NEW j \in 1 .. Boards[b].slices,
                      NEW mem \in midpoint(Boards[b], j) + 1
                                     .. (j * Boards[b].mem) \div Boards[b].slices
               PROVE  mem >= migThresholdMiB(Boards[b], ask)
                         <=> /\ j * Boards[b].bw >= ask.bw * Boards[b].slices
                             /\ mem >= nvidiaMemFloorMiB(ask)
    BY DEF MidpointsRobust, PublishedBoards
  <2>1. Boards[b] \in BoardType /\ ask \in AskType
    BY BoardsAssumption, SliceViewAssumption
  <2> QED
    BY <2>1, MidpointSeparates
<1> QED
  BY Invariance, <1>1, PTL
=============================================================================
