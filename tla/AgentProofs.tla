----------------------------- MODULE AgentProofs -----------------------------
(***************************************************************************)
(* Identity and confinement through the agent: the published pool has one  *)
(* device per name and, after a finished cycle, the names of the           *)
(* inventory; fabric functions are never published as compute; a prepared  *)
(* claim has the PCI functions the scheduler chose, and its AMD GPUs are   *)
(* confined to it.  For every machine, whatever cards come, go and fail,   *)
(* and every llmfit.                                                       *)
(***************************************************************************)
EXTENDS Agent, FiniteSetTheorems, SequenceTheorems, WellFoundedInduction, TLAPS

-----------------------------------------------------------------------------
(* Numbers.                                                                *)

LEMMA MinExists ==
    ASSUME NEW S \in SUBSET Nat, S # {}
    PROVE  \E m \in S : \A k \in S : m \leq k
<1> DEFINE less == OpToRel(<, Nat)
<1>1. \A x, y \in Nat : x < y => <<x, y>> \in less
  BY DEF OpToRel
<1>2. IsWellFoundedOn(less, Nat)
  BY NatLessThanWellFounded
<1> HIDE DEF less
<1>3. PICK m \in S : \A k \in S : <<k, m>> \notin less
  BY <1>2, WFMin
<1>4. \A k \in S : ~(k < m)
  BY <1>1, <1>3
<1> QED
  BY <1>4

LEMMA MaxExists ==
    ASSUME NEW S \in SUBSET Nat, S # {}, NEW b \in Nat, \A k \in S : k \leq b
    PROVE  \E m \in S : \A k \in S : k \leq m
<1> DEFINE T == {b - k : k \in S}
<1>1. T \in SUBSET Nat /\ T # {}
  <2>1. \A k \in S : b - k \in Nat
    OBVIOUS
  <2> QED
    BY <2>1
<1>2. PICK t \in T : \A u \in T : t \leq u
  BY <1>1, MinExists
<1>3. PICK m \in S : t = b - m
  OBVIOUS
<1>4. ASSUME NEW k \in S PROVE k \leq m
  <2>1. t \leq b - k
    BY <1>2
  <2> QED
    BY <1>3, <2>1
<1> QED
  BY <1>4

(* Entries are numbered from 0, and no two alike.                          *)
LEMMA PositionInRange ==
    ASSUME NEW S \in SUBSET Nat, IsFiniteSet(S), NEW m \in S
    PROVE  position(m, S) \in Nat /\ position(m, S) \leq Cardinality(S) /\ Cardinality(S) \in Nat
  BY FS_Subset, FS_CardinalityType, {k \in S : k < m} \in SUBSET S DEF position

LEMMA PositionGrows ==
    ASSUME NEW S \in SUBSET Nat, IsFiniteSet(S), NEW m \in S, NEW n \in S, m < n
    PROVE  position(m, S) < position(n, S)
<1> DEFINE below == {k \in S : k < m}
           upto == below \union {m}
<1>1. IsFiniteSet(below)
  BY FS_Subset
<1>2. Cardinality(upto) = Cardinality(below) + 1
  BY <1>1, FS_AddElement, m \notin below
<1>3. upto \in SUBSET {k \in S : k < n}
  <2>1. \A k \in upto : k \in S /\ k < n
    OBVIOUS
  <2> QED
    BY <2>1
<1>4. IsFiniteSet({k \in S : k < n})
  BY FS_Subset
<1>5. Cardinality(upto) \leq Cardinality({k \in S : k < n})
  BY <1>3, <1>4, FS_Subset
<1>6. Cardinality(below) \in Nat /\ Cardinality({k \in S : k < n}) \in Nat
  BY <1>1, <1>4, FS_CardinalityType
<1> QED
  BY <1>2, <1>5, <1>6 DEF position

LEMMA PositionsDiffer ==
    ASSUME NEW S \in SUBSET Nat, IsFiniteSet(S), NEW m \in S, NEW n \in S,
           position(m, S) = position(n, S)
    PROVE  m = n
  BY PositionGrows, PositionInRange

-----------------------------------------------------------------------------
(* Names.                                                                  *)

(* A name carries the card's PCI address where it has one.                 *)
Named(n, c) ==
    IF Facts[c].addr # NoAddr THEN n[2] = "pci" /\ n[3] = Facts[c].addr ELSE n[2] = "index"

LEMMA NameIsNamed == \A d : Named(Name(d), d.card)
  BY DEF Named, Name

LEMMA NameHasKind == \A d, e : Name(d) = Name(e) => d.kind = e.kind
  BY DEF Name

LEMMA SameFunction ==
    \A n, c, e : Named(n, c) /\ Named(n, e) /\ Facts[e].addr # NoAddr => function(c) = function(e)
  BY DEF Named, function

LEMMA PublishedFields ==
    \A d, D, s, v : Published(d, D, s, v).name = Name(d) /\ Published(d, D, s, v).card = d.card
  BY DEF Published

-----------------------------------------------------------------------------
(* Walks.  A device has a place of its own among those of its kind.        *)

Placed(D) ==
    /\ \A d \in D : d.card \in Cards /\ d.index \in Nat
    /\ \A d, e \in D : d.kind = e.kind /\ d.index = e.index => d = e
    /\ \E b \in Nat : \A d \in D : d.index \leq b
    /\ IsFiniteSet(D)

LEMMA ImageFinite ==
    ASSUME NEW S, IsFiniteSet(S), NEW f
    PROVE  IsFiniteSet({f[x] : x \in S})
<1> DEFINE g == [x \in S |-> f[x]]
           T == {f[x] : x \in S}
<1>1. g \in Surjection(S, T)
  BY DEF Surjection
<1> QED
  BY <1>1, FS_Surjection

LEMMA PlacedSubset ==
    ASSUME NEW D, NEW E, E \subseteq D, Placed(D)
    PROVE  Placed(E)
  BY FS_Subset DEF Placed

LEMMA PlacedUnion ==
    ASSUME NEW D, NEW E, Placed(D), Placed(E), \A d \in D, e \in E : d.kind # e.kind
    PROVE  Placed(D \union E)
<1>1. PICK b \in Nat : \A d \in D : d.index \leq b
  BY DEF Placed
<1>2. PICK c \in Nat : \A e \in E : e.index \leq c
  BY DEF Placed
<1>3. \A d \in D \union E : d.index \leq b + c
  BY <1>1, <1>2 DEF Placed
<1>4. b + c \in Nat
  OBVIOUS
<1> QED
  BY <1>3, <1>4, FS_Union DEF Placed

(* The devices of one class, numbered by their entries.                    *)
LEMMA PlacedEntries ==
    ASSUME NEW S \in SUBSET Nat, IsFiniteSet(S), NEW kind, NEW dev,
           \A m \in S : /\ dev[m].card \in Cards /\ dev[m].kind = kind
                        /\ dev[m].index = position(m, S)
    PROVE  Placed({dev[m] : m \in S})
<1> DEFINE D == {dev[m] : m \in S}
<1>1. \A d \in D : d.card \in Cards /\ d.index \in Nat /\ d.index \leq Cardinality(S)
  BY PositionInRange
<1>2. ASSUME NEW d \in D, NEW e \in D, d.index = e.index PROVE d = e
  <2>1. PICK m \in S : d = dev[m]
    OBVIOUS
  <2>2. PICK n \in S : e = dev[n]
    OBVIOUS
  <2>3. m = n
    BY <1>2, <2>1, <2>2, PositionsDiffer
  <2> QED
    BY <2>1, <2>2, <2>3
<1>3. Cardinality(S) \in Nat
  BY FS_CardinalityType
<1>4. IsFiniteSet(D)
  BY ImageFinite
<1> QED
  BY <1>1, <1>2, <1>3, <1>4 DEF Placed

LEMMA EntriesFinite ==
    ASSUME NEW class \in Class
    PROVE  /\ entries(class) \in SUBSET Nat /\ IsFiniteSet(entries(class))
           /\ \A m \in entries(class) : class[m] \in Cards
<1>1. PICK n \in Nat : class \in [1 .. n -> Cards \union {NoCard}]
  BY SeqDef DEF Class
<1>2. entries(class) \in SUBSET (1 .. n)
  BY <1>1 DEF entries
<1>3. IsFiniteSet(1 .. n)
  BY FS_Interval
<1> QED
  BY <1>1, <1>2, <1>3, FS_Subset DEF entries

LEMMA ClassPlaced ==
    ASSUME NEW t \in Tree, NEW class \in Class, NEW kind
    PROVE  /\ Placed(walkClass(t, class, kind))
           /\ \A d \in walkClass(t, class, kind) : d.kind = kind
<1> DEFINE dev == [m \in entries(class) |->
                     Device(kind, position(m, entries(class)), class[m],
                            IF kind = "gpu" THEN <<"card", m>> ELSE <<"accel", m>>,
                            IF kind = "gpu" THEN renderNode(t, class[m]) ELSE NoNode,
                            t)]
<1>1. walkClass(t, class, kind) = {dev[m] : m \in entries(class)}
  BY DEF walkClass
<1>2. \A m \in entries(class) : /\ dev[m].card \in Cards /\ dev[m].kind = kind
                                /\ dev[m].index = position(m, entries(class))
  BY EntriesFinite DEF Device
<1> HIDE DEF dev
<1>3. Placed({dev[m] : m \in entries(class)})
  BY <1>2, EntriesFinite, PlacedEntries
<1> QED
  BY <1>1, <1>2, <1>3

LEMMA FabricPlaced ==
    ASSUME NEW t \in Tree
    PROVE  /\ Placed(walkInfiniband(t))
           /\ \A d \in walkInfiniband(t) : d.kind = "nic"
<1> DEFINE S == firstEntries(t.ib)
           dev == [i \in S |-> Device("nic", position(i, S), t.ib[i], uverbsNode(t, t.ib[i]),
                                      NoNode, t)]
<1>1. walkInfiniband(t) = {dev[i] : i \in S}
  BY DEF walkInfiniband
<1>2. t.ib \in Class
  BY DEF Tree
<1>3. S \in SUBSET Nat /\ IsFiniteSet(S) /\ \A i \in S : t.ib[i] \in Cards
  BY <1>2, EntriesFinite, FS_Subset, S \in SUBSET entries(t.ib) DEF firstEntries
<1>4. \A i \in S : dev[i].card \in Cards /\ dev[i].kind = "nic" /\ dev[i].index = position(i, S)
  BY <1>3 DEF Device
<1> HIDE DEF dev, S
<1>5. Placed({dev[i] : i \in S})
  BY <1>3, <1>4, PlacedEntries
<1> QED
  BY <1>1, <1>4, <1>5

LEMMA WalkPlaced ==
    ASSUME NEW t \in Tree, NEW N, Placed(N), \A d \in N : d.kind = "nic"
    PROVE  Placed(Walk(t, N))
<1> DEFINE gpu == walkClass(t, t.drm, "gpu")
           npu == walkClass(t, t.accel, "npu")
           compute == dropFabricFunctions(gpu \union npu, N)
<1>1. t.drm \in Class /\ t.accel \in Class
  BY DEF Tree
<1>2. Placed(gpu) /\ \A d \in gpu : d.kind = "gpu"
  BY <1>1, ClassPlaced
<1>3. Placed(npu) /\ \A d \in npu : d.kind = "npu"
  BY <1>1, ClassPlaced
<1>4. compute \subseteq gpu \union npu
  BY DEF dropFabricFunctions
<1>5. Placed({cpuDevice(t)}) /\ cpuDevice(t).kind = "cpu"
  <2>1. cpuDevice(t).card \in Cards /\ cpuDevice(t).index = 0 /\ cpuDevice(t).kind = "cpu"
    BY ProbeAssumption DEF cpuDevice, Device
  <2>2. IsFiniteSet({cpuDevice(t)})
    BY FS_Singleton
  <2>3. \E b \in Nat : cpuDevice(t).index \leq b
    BY <2>1
  <2>4. cpuDevice(t).index \in Nat
    BY <2>1
  <2> HIDE DEF gpu, npu
  <2> QED
    BY <2>1, <2>2, <2>3, <2>4 DEF Placed
<1> HIDE DEF gpu, npu
<1>6. Placed(gpu \union npu)
  BY <1>2, <1>3, PlacedUnion
<1>7. Placed(compute) /\ \A d \in compute : d.kind \in {"gpu", "npu"}
  BY <1>2, <1>3, <1>4, <1>6, PlacedSubset
<1>8. Placed({cpuDevice(t)} \union N)
  BY <1>5, PlacedUnion
<1>9. \A d \in {cpuDevice(t)} \union N, e \in compute : d.kind # e.kind
  BY <1>5, <1>7
<1>10. Walk(t, N) = ({cpuDevice(t)} \union N) \union compute
  BY DEF Walk, gpu, npu
<1> HIDE DEF compute
<1> QED
  BY <1>7, <1>8, <1>9, <1>10, PlacedUnion

(* What the plugin looks up under a name of the inventory has that name.   *)
LEMMA LookupFinds ==
    ASSUME NEW D, Placed(D), NEW n \in names(D)
    PROVE  lookup(D, n) \in D /\ Name(lookup(D, n)) = n
<1> DEFINE S == {d.index : d \in {d \in D : Name(d) = n}}
<1>1. S \in SUBSET Nat /\ S # {}
  BY DEF Placed, names
<1>2. PICK b \in Nat : \A k \in S : k \leq b
  BY DEF Placed
<1>3. PICK m \in S : \A k \in S : k \leq m
  BY <1>1, <1>2, MaxExists
<1>4. \E d \in D : /\ Name(d) = n
                   /\ \A e \in D : Name(e) = n => e.index \leq d.index
  BY <1>3
<1> QED
  BY <1>4 DEF lookup

-----------------------------------------------------------------------------
(* Pools.                                                                  *)

Unique(P) == \A p, q \in P : p.name = q.name => p = q

(* BuildDevices publishes a device per name, and every name of the walk.   *)
LEMMA BuildUnique ==
    ASSUME NEW D, NEW s, NEW v, Placed(D)
    PROVE  Unique(BuildDevices(D, s, v))
<1> DEFINE B == BuildDevices(D, s, v)
           firsts == {d \in D : \A e \in D : Name(e) = Name(d) => d.index \leq e.index}
<1>1. B = {Published(d, D, s, v) : d \in firsts}
  BY DEF BuildDevices
<1>2. ASSUME NEW d \in firsts, NEW e \in firsts, Name(d) = Name(e) PROVE d = e
  <2>1. d.index \leq e.index /\ e.index \leq d.index
    BY <1>2
  <2>2. d.index = e.index
    BY <2>1 DEF Placed
  <2> QED
    BY <1>2, <2>2, NameHasKind DEF Placed
<1> SUFFICES ASSUME NEW p \in B, NEW q \in B, p.name = q.name PROVE p = q
  BY DEF Unique
<1>3. PICK d \in firsts : p = Published(d, D, s, v)
  BY <1>1
<1>4. PICK e \in firsts : q = Published(e, D, s, v)
  BY <1>1
<1>5. Name(d) = Name(e)
  BY <1>3, <1>4, PublishedFields
<1> QED
  BY <1>2, <1>3, <1>4, <1>5

LEMMA BuildNames ==
    ASSUME NEW D, NEW s, NEW v, Placed(D)
    PROVE  {p.name : p \in BuildDevices(D, s, v)} = names(D)
<1> DEFINE B == BuildDevices(D, s, v)
           firsts == {d \in D : \A e \in D : Name(e) = Name(d) => d.index \leq e.index}
<1>1. B = {Published(d, D, s, v) : d \in firsts}
  BY DEF BuildDevices
<1>2. \A d \in firsts : Published(d, D, s, v).name = Name(d)
  BY PublishedFields
<1>3. ASSUME NEW d \in D PROVE \E e \in firsts : Name(e) = Name(d)
  <2> DEFINE S == {e.index : e \in {e \in D : Name(e) = Name(d)}}
  <2>1. S \in SUBSET Nat /\ S # {}
    BY DEF Placed
  <2>2. PICK m \in S : \A k \in S : m \leq k
    BY <2>1, MinExists
  <2>3. PICK e \in D : Name(e) = Name(d) /\ e.index = m
    OBVIOUS
  <2>4. \A f \in D : Name(f) = Name(e) => e.index \leq f.index
    BY <2>2, <2>3
  <2> QED
    BY <2>3, <2>4
<1>4. {p.name : p \in B} = {Name(d) : d \in firsts}
  BY <1>1, <1>2
<1>5. {Name(d) : d \in firsts} = {Name(d) : d \in D}
  BY <1>3
<1> QED
  BY <1>4, <1>5 DEF names

LEMMA BuildNamed ==
    ASSUME NEW D, NEW s, NEW v
    PROVE  \A p \in BuildDevices(D, s, v) : Named(p.name, p.card)
<1> SUFFICES ASSUME NEW p \in BuildDevices(D, s, v) PROVE Named(p.name, p.card)
  OBVIOUS
<1>1. PICK d \in D : p = Published(d, D, s, v)
  BY DEF BuildDevices
<1> QED
  BY <1>1, PublishedFields, NameIsNamed

-----------------------------------------------------------------------------
(* The inductive invariant.                                                *)

TreeTyped == tree \in Tree

(* The inventory, and this walk's part of it, place every device.          *)
WalksPlaced == Placed(inv) /\ Placed(nics) /\ \A d \in nics : d.kind = "nic"

(* Everything that carries a name carries its card's.                      *)
NamedByCard(S) == \A x \in S : Named(x.name, x.card)

Claimed(S) == NamedByCard(S) /\ \A e \in S : \E p \in alloc : p.name = e.name

NamesKept ==
    /\ NamedByCard(slices) /\ NamedByCard(alloc) /\ Claimed(cdi)
    /\ spec # NoSpec => Claimed(spec.devices)

(* A walk reads the infiniband class first and the other classes later;    *)
(* what it drops is right when the hardware did not change in between, and *)
(* that is what sameWalk and sound remember.                               *)
FabricCard(c) == "ib" \in Facts[c].faces /\ Facts[c].addr # NoAddr

(* Every fabric card that is plugged in is known by its function.          *)
FabricKnown(t, N) ==
    \A c \in t.pci : FabricCard(c) => \E n \in N : Facts[n.card].addr = Facts[c].addr

FabricClear(D) == \A d \in D : FabricCard(d.card) => d.kind = "nic"

FabricInv ==
    /\ Shown(tree)
    /\ sameWalk /\ step = "walk" => FabricKnown(tree, nics)
    /\ sameWalk /\ step = "ram" => FabricClear(inv)
    /\ sound => FabricClear(slices)
    /\ \A p \in slices : p.card \in Cards

(* While prepareClaim has seen one inventory, its devices are the current   *)
(* ones of their names.                                                    *)
ClaimFromInventory ==
    spec = NoSpec /\ oneInv =>
        \A e \in cdi : e.name \in names(inv) /\ e.card = lookup(inv, e.name).card

IndInv == TypeOK /\ TreeTyped /\ WalksPlaced /\ PoolAccepted /\ NamesKept /\ FabricInv
          /\ ClaimFromInventory

LEMMA AllPlaced == Placed({})
  BY FS_EmptySet DEF Placed

LEMMA InitEstablishes == Init => IndInv
<1> SUFFICES ASSUME Init PROVE IndInv
  OBVIOUS
<1>1. tree \in Tree /\ box = tree.pci /\ tree.pci \subseteq Cards
  BY TreesAssumption DEF Init, Tree
<1>2. hidden = {} /\ inv = {} /\ nics = {} /\ slices = {} /\ alloc = {} /\ todo = {} /\ cdi = {}
  BY DEF Init
<1>3. api \in BOOLEAN /\ exec \in BOOLEAN /\ step = "down" /\ ~started /\ ~paired /\ spec = NoSpec
  BY DEF Init
<1>4. DetectorTypeOK /\ last = NoSystem
  BY DetectorAssumption DEF Init, InitDetector, DetectorTypeOK
<1>5. TypeOK
  BY <1>1, <1>2, <1>3, <1>4 DEF TypeOK
<1>6. WalksPlaced
  BY <1>2, AllPlaced DEF WalksPlaced
<1>7. PoolAccepted
  BY <1>2, <1>3 DEF PoolAccepted
<1>8. NamesKept
  BY <1>2, <1>3 DEF NamesKept, NamedByCard, Claimed
<1>9. FabricInv
  <2>1. Shown(tree) /\ ~sound
    BY TreesAssumption DEF Init
  <2> QED
    BY <1>2, <1>3, <2>1 DEF FabricInv
<1> QED
  BY <1>1, <1>2, <1>5, <1>6, <1>7, <1>8, <1>9 DEF IndInv, TreeTyped, ClaimFromInventory

(* The kernel's slots: a card is put into one, or taken out.               *)
LEMMA FreeMin ==
    ASSUME NEW class \in Class, Free(class) # {}
    PROVE  Min(Free(class)) \in Free(class)
<1>1. PICK n \in Nat : class \in [1 .. n -> Cards \union {NoCard}]
  BY SeqDef DEF Class
<1>2. Free(class) \in SUBSET Nat
  BY <1>1 DEF Free
<1>3. \E m \in Free(class) : \A k \in Free(class) : m \leq k
  BY <1>2, MinExists
<1> QED
  BY <1>3 DEF Min

(* A card takes a minor number that is not in use.                         *)
LEMMA TakesMinor ==
    ASSUME NEW class, NEW c, NEW face, NEW pci, c \notin pci, face \in Facts[c].faces,
           Lists(class, face, pci),
           NEW new, NEW m, m \notin entries(class), entries(new) = entries(class) \union {m},
           new[m] = c, \A k \in entries(class) : new[k] = class[k]
    PROVE  Lists(new, face, pci \union {c})
<1>1. {new[k] : k \in entries(new)} = {class[k] : k \in entries(class)} \union {c}
  OBVIOUS
<1>2. \A k \in entries(class) : class[k] # c
  BY DEF Lists
<1> QED
  BY <1>1, <1>2 DEF Lists

LEMMA AddInClass ==
    ASSUME NEW class \in Class, NEW c \in Cards, NEW face
    PROVE  /\ Add(class, c, face) \in Class
           /\ \A pci : c \notin pci /\ Lists(class, face, pci)
                       => Lists(Add(class, c, face), face, pci \union {c})
<1>1. CASE face \notin Facts[c].faces
  BY <1>1 DEF Add, Lists
<1>2. CASE face \in Facts[c].faces /\ Free(class) # {}
  <2> DEFINE m == Min(Free(class))
  <2>1. m \in DOMAIN class /\ class[m] = NoCard
    BY <1>2, FreeMin DEF Free
  <2>2. Add(class, c, face) = [class EXCEPT ![m] = c]
    BY <1>2 DEF Add
  <2> HIDE DEF m
  <2>3. PICK n \in Nat : class \in [1 .. n -> Cards \union {NoCard}]
    BY SeqDef DEF Class
  <2>4. [class EXCEPT ![m] = c] \in [1 .. n -> Cards \union {NoCard}]
    BY <2>3
  <2>5. [class EXCEPT ![m] = c] \in Class
    BY <2>4, SeqDef DEF Class
  <2> DEFINE new == [class EXCEPT ![m] = c]
  <2>6. /\ m \notin entries(class) /\ entries(new) = entries(class) \union {m}
        /\ new[m] = c /\ \A k \in entries(class) : new[k] = class[k]
    BY <2>1, <2>3, ProbeAssumption DEF entries
  <2> HIDE DEF new
  <2>7. \A pci : c \notin pci /\ Lists(class, face, pci) => Lists(new, face, pci \union {c})
    BY <1>2, <2>6, TakesMinor
  <2> QED
    BY <2>2, <2>5, <2>7 DEF new
<1>3. CASE face \in Facts[c].faces /\ Free(class) = {}
  <2> DEFINE new == Append(class, c)
  <2>1. Add(class, c, face) = new
    BY <1>3 DEF Add
  <2>2. class \in Seq(Cards \union {NoCard}) /\ c \in Cards \union {NoCard}
    BY DEF Class
  <2>3. /\ new \in Seq(Cards \union {NoCard})
        /\ DOMAIN class = 1 .. Len(class) /\ Len(class) \in Nat
        /\ DOMAIN new = 1 .. Len(class) + 1
        /\ \A m \in 1 .. Len(class) : new[m] = class[m]
        /\ new[Len(class) + 1] = c
    BY <2>2
  <2>4. /\ Len(class) + 1 \notin entries(class)
        /\ entries(new) = entries(class) \union {Len(class) + 1}
        /\ \A k \in entries(class) : new[k] = class[k]
    BY <2>3, ProbeAssumption DEF entries
  <2> HIDE DEF new
  <2>5. \A pci : c \notin pci /\ Lists(class, face, pci) => Lists(new, face, pci \union {c})
    BY <1>3, <2>3, <2>4, TakesMinor
  <2> QED
    BY <2>1, <2>3, <2>5 DEF Class
<1> QED
  BY <1>1, <1>2, <1>3

LEMMA DelInClass ==
    ASSUME NEW class \in Class, NEW c \in Cards
    PROVE  /\ Del(class, c) \in Class
           /\ \A face, pci : Lists(class, face, pci) => Lists(Del(class, c), face, pci \ {c})
<1>1. PICK n \in Nat : class \in [1 .. n -> Cards \union {NoCard}]
  BY SeqDef DEF Class
<1>2. Del(class, c) \in [1 .. n -> Cards \union {NoCard}]
  BY <1>1 DEF Del
<1>3. /\ entries(Del(class, c)) = {m \in entries(class) : class[m] # c}
      /\ \A m \in entries(Del(class, c)) : Del(class, c)[m] = class[m]
  BY ProbeAssumption DEF Del, entries
<1>4. ASSUME NEW face, NEW pci, Lists(class, face, pci)
      PROVE  Lists(Del(class, c), face, pci \ {c})
  <2>1. {Del(class, c)[m] : m \in entries(Del(class, c))}
          = {class[m] : m \in entries(class)} \ {c}
    BY <1>3
  <2> QED
    BY <1>3, <1>4, <2>1 DEF Lists
<1> QED
  BY <1>2, <1>4, SeqDef DEF Class

(* Hardware comes and goes only within the machine.                        *)
LEMMA TreeKept ==
    ASSUME TreeTyped, tree.pci \subseteq box, box \subseteq Cards, NEW c \in box,
           Unplug(c) \/ Plug(c) \/ Fails(c)
    PROVE  TreeTyped' /\ tree'.pci \subseteq box
<1> USE DEF TreeTyped
<1>1. CASE Unplug(c)
  <2>1. /\ Del(tree.drm, c) \in Class /\ Del(tree.rnd, c) \in Class
        /\ Del(tree.accel, c) \in Class /\ Del(tree.ib, c) \in Class
    BY DelInClass DEF Tree
  <2>2. tree' = [tree EXCEPT !.pci = @ \ {c}, !.drm = Del(@, c), !.rnd = Del(@, c),
                             !.accel = Del(@, c), !.ib = Del(@, c), !.faulty = @ \ {c}]
    BY <1>1 DEF Unplug
  <2> QED
    BY <2>1, <2>2 DEF Tree
<1>2. CASE Plug(c)
  <2>1. /\ Add(tree.drm, c, "drm") \in Class /\ Add(tree.rnd, c, "rnd") \in Class
        /\ Add(tree.accel, c, "accel") \in Class /\ Add(tree.ib, c, "ib") \in Class
    BY AddInClass DEF Tree
  <2>2. tree' = [tree EXCEPT !.pci = @ \union {c}, !.drm = Add(@, c, "drm"),
                             !.rnd = Add(@, c, "rnd"), !.accel = Add(@, c, "accel"),
                             !.ib = Add(@, c, "ib")]
    BY <1>2 DEF Plug
  <2> QED
    BY <2>1, <2>2 DEF Tree
<1>3. CASE Fails(c)
  BY <1>3 DEF Fails, Tree
<1> QED
  BY <1>1, <1>2, <1>3

(* What llmfit says and what the detector keeps of it are readings.        *)
LEMMA ReadingTyped ==
    ASSUME TypeOK, NEW complete
    PROVE  /\ DOMAIN Reading(complete) \subseteq Models
           /\ Reading(complete) \in [DOMAIN Reading(complete) -> [count : Nat, bw : BOOLEAN]]
<1> DEFINE seen == {c \in tree.pci \ hidden : Facts[c].gpu}
           group(m) == {c \in seen : Facts[c].model = m}
           M == {Facts[c].model : c \in seen}
<1>1. M \subseteq Models
  BY NamesAssumption DEF TypeOK
<1>2. \A m : Cardinality(group(m)) \in Nat
  <2> TAKE m
  <2>1. group(m) \in SUBSET Cards
    BY DEF TypeOK
  <2> QED
    BY <2>1, ProbeAssumption, FS_Subset, FS_CardinalityType
<1>3. \A m \in M : (complete /\ Price[m].bw) \in BOOLEAN
  OBVIOUS
<1>4. Reading(complete) =
        [m \in M |-> [count |-> IF Cardinality(group(m)) = 1 THEN 0 ELSE Cardinality(group(m)),
                      bw |-> complete /\ Price[m].bw]]
  BY DEF Reading
<1> HIDE DEF M, group
<1> QED
  BY <1>1, <1>2, <1>3, <1>4

LEMMA FreshTyped ==
    ASSUME DetectorTypeOK, NEW r, DOMAIN r \subseteq Models,
           r \in [DOMAIN r -> [count : Nat, bw : BOOLEAN]]
    PROVE  /\ DOMAIN Fresh(r) \subseteq Models
           /\ Fresh(r) \in [DOMAIN Fresh(r) -> [count : Nat, bw : BOOLEAN]]
<1>1. CASE last = NoSystem
  BY <1>1 DEF Fresh, backfillBandwidth
<1>2. CASE last # NoSystem
  <2>1. Fresh(r) = [m \in DOMAIN r |->
                      [r[m] EXCEPT !.bw = @ \/ (m \in DOMAIN last /\ last[m].bw)]]
    BY <1>2 DEF Fresh, backfillBandwidth
  <2>2. \A m \in DOMAIN r :
          [r[m] EXCEPT !.bw = @ \/ (m \in DOMAIN last /\ last[m].bw)] \in [count : Nat, bw : BOOLEAN]
    OBVIOUS
  <2> QED
    BY <2>1, <2>2
<1> QED
  BY <1>1, <1>2

-----------------------------------------------------------------------------
(* Types.                                                                  *)

(* The cycle: what it reads and what it publishes.                         *)
LEMMA CycleTyped == TypeOK /\ TreeTyped /\ WalksPlaced /\ Cycle => TypeOK'
<1> SUFFICES ASSUME TypeOK, TreeTyped, WalksPlaced, Cycle PROVE TypeOK'
  OBVIOUS
<1> USE DEF TypeOK, envVars, claimVars, detectorVars
<1>1. CASE Boot
  BY <1>1 DEF Boot, DetectorTypeOK
<1>2. CASE Wake
  <2>1. age' \in 0 .. MaxStale + 1
    BY <1>2, DetectorAssumption DEF Wake, IntervalPasses, DetectorTypeOK
  <2>2. UNCHANGED last
    BY <1>2 DEF Wake
  <2>3. DetectorTypeOK'
    BY <2>1, <2>2 DEF DetectorTypeOK
  <2> QED
    BY <1>2, <2>2, <2>3 DEF Wake
<1>3. CASE WalkFabric
  <2>1. \A d \in walkInfiniband(tree) : d.card \in Cards
    BY FabricPlaced DEF TreeTyped, Placed
  <2> QED
    BY <1>3, <2>1 DEF WalkFabric, DetectorTypeOK
<1>4. CASE WalkRest
  <2>1. \A d \in Walk(tree, nics) : d.card \in Cards
    BY WalkPlaced DEF TreeTyped, WalksPlaced, Placed
  <2> QED
    BY <1>4, <2>1 DEF WalkRest, DetectorTypeOK
<1>5. CASE DetectAndPublish
  <2>1. DetectorTypeOK'
    BY <1>5, ReadingTyped, FreshTyped, DetectorAssumption DEF DetectAndPublish, DetectorTypeOK
  <2> QED
    BY <1>5, <2>1 DEF DetectAndPublish, Publish
<1>6. CASE DetectFails
  BY <1>6 DEF DetectFails, Publish, DetectorTypeOK
<1> QED
  BY <1>1, <1>2, <1>3, <1>4, <1>5, <1>6 DEF Cycle

(* The plugin: it looks up and gives only names of the allocation.         *)
LEMMA PluginTyped == TypeOK /\ Plugin => TypeOK'
<1> SUFFICES ASSUME TypeOK, Plugin PROVE TypeOK'
  OBVIOUS
<1> USE DEF TypeOK, envVars, cycleVars, detectorVars
<1>1. ASSUME NEW S, Allocated(S) PROVE TypeOK'
  <2>1. todo' \subseteq {p.name : p \in alloc'}
    <3> SUFFICES ASSUME NEW p \in S PROVE p.name \in {q.name : q \in alloc'}
      BY <1>1 DEF Allocated
    <3>1. [name |-> p.name, card |-> p.card] \in alloc'
      BY <1>1 DEF Allocated
    <3> QED
      BY <3>1
  <2>2. cdi' = {}
    BY <1>1 DEF Allocated
  <2> QED
    BY <1>1, <2>1, <2>2 DEF Allocated, DetectorTypeOK
<1>2. ASSUME NEW n \in todo, Lookup(n) PROVE TypeOK'
  <2>1. {e.name : e \in cdi'} \subseteq {e.name : e \in cdi} \union {n}
    BY <1>2 DEF Lookup, withEdits
  <2> QED
    BY <1>2, <2>1 DEF Lookup, DetectorTypeOK
<1>3. ASSUME NEW n \in todo, DeviceMissing(n) PROVE TypeOK'
  BY <1>3 DEF DeviceMissing, Again, DetectorTypeOK
<1>4. CASE WriteSpec
  BY <1>4 DEF WriteSpec, DetectorTypeOK
<1> QED
  BY <1>1, <1>2, <1>3, <1>4 DEF Plugin

LEMMA DisturbanceTyped == TypeOK /\ TreeTyped /\ Disturbance => TypeOK'
<1> SUFFICES ASSUME TypeOK, TreeTyped, Disturbance PROVE TypeOK'
  OBVIOUS
<1> USE DEF envVars, cycleVars, claimVars, detectorVars
<1>1. ASSUME NEW c \in box, Unplug(c) \/ Plug(c) \/ Fails(c) PROVE TypeOK'
  <2>1. tree'.pci \subseteq box
    BY <1>1, TreeKept DEF TypeOK
  <2>2. TreeChanges
    BY <1>1 DEF Unplug, Plug, Fails
  <2> QED
    BY <2>1, <2>2 DEF TreeChanges, TypeOK, DetectorTypeOK
<1>2. ASSUME NEW c \in box, LlmfitView(c) PROVE TypeOK'
  BY <1>2 DEF LlmfitView, TypeOK, DetectorTypeOK
<1>3. CASE Transport
  BY <1>3 DEF Transport, TypeOK, DetectorTypeOK
<1>4. CASE CycleFails
  BY <1>4 DEF CycleFails, TypeOK, DetectorTypeOK
<1>5. CASE Dies
  BY <1>5, DetectorAssumption DEF Dies, Again, TypeOK, DetectorTypeOK
<1> QED
  BY <1>1, <1>2, <1>3, <1>4, <1>5 DEF Disturbance

LEMMA TypesKept == TypeOK /\ TreeTyped /\ WalksPlaced /\ [Next]_vars => TypeOK'
<1> SUFFICES ASSUME TypeOK, TreeTyped, WalksPlaced, [Next]_vars PROVE TypeOK'
  OBVIOUS
<1>1. CASE UNCHANGED vars
  BY <1>1 DEF TypeOK, DetectorTypeOK, vars, envVars, cycleVars, claimVars, detectorVars
<1> QED
  BY <1>1, CycleTyped, PluginTyped, DisturbanceTyped DEF Next

-----------------------------------------------------------------------------
(* Where the hardware, the walks, the pool and the claim change.           *)

LEMMA TreeStays == TypeOK /\ TreeTyped /\ [Next]_vars => TreeTyped'
<1> SUFFICES ASSUME TypeOK, TreeTyped, [Next]_vars PROVE TreeTyped'
  OBVIOUS
<1>1. ASSUME NEW c \in box, Unplug(c) \/ Plug(c) \/ Fails(c) PROVE TreeTyped'
  BY <1>1, TreeKept DEF TypeOK
<1>2. CASE UNCHANGED tree
  BY <1>2 DEF TreeTyped
<1>3. Cycle \/ Plugin => UNCHANGED tree
  BY DEF Cycle, Boot, Wake, WalkFabric, WalkRest, DetectAndPublish, DetectFails, Publish,
         Plugin, Allocated, Lookup, DeviceMissing, WriteSpec, envVars
<1>4. (\E c \in box : LlmfitView(c)) \/ Transport \/ CycleFails \/ Dies => UNCHANGED tree
  BY DEF LlmfitView, Transport, CycleFails, Dies, envVars
<1> QED
  BY <1>1, <1>2, <1>3, <1>4 DEF Next, Disturbance, vars, envVars

LEMMA WalksStay == TreeTyped /\ WalksPlaced /\ [Next]_vars => WalksPlaced'
<1> SUFFICES ASSUME TreeTyped, WalksPlaced, [Next]_vars PROVE WalksPlaced'
  OBVIOUS
<1>1. CASE WalkFabric
  BY <1>1, FabricPlaced DEF WalkFabric, TreeTyped, WalksPlaced
<1>2. CASE WalkRest
  BY <1>2, WalkPlaced, AllPlaced DEF WalkRest, TreeTyped, WalksPlaced
<1>3. CASE CycleFails
  BY <1>3, AllPlaced DEF CycleFails, WalksPlaced
<1>4. CASE Dies
  BY <1>4, AllPlaced DEF Dies, WalksPlaced
<1>5. CASE UNCHANGED <<inv, nics>>
  BY <1>5 DEF WalksPlaced
<1>6. Boot \/ Wake \/ DetectAndPublish \/ DetectFails => UNCHANGED <<inv, nics>>
  BY DEF Boot, Wake, DetectAndPublish, DetectFails, Publish
<1>7. Plugin => UNCHANGED <<inv, nics>>
  BY DEF Plugin, Allocated, Lookup, DeviceMissing, WriteSpec, cycleVars
<1>8. (\E c \in box : Unplug(c) \/ Plug(c) \/ Fails(c) \/ LlmfitView(c)) \/ Transport
        => UNCHANGED <<inv, nics>>
  BY DEF Unplug, Plug, Fails, LlmfitView, Transport, TreeChanges, cycleVars
<1> QED
  BY <1>1, <1>2, <1>3, <1>4, <1>5, <1>6, <1>7, <1>8 DEF Next, Cycle, Disturbance, vars, cycleVars

(* A publish makes the pool from the inventory; a new inventory waits for  *)
(* its publish.                                                            *)
LEMMA PoolStays == WalksPlaced /\ PoolAccepted /\ [Next]_vars => PoolAccepted'
<1> SUFFICES ASSUME WalksPlaced, PoolAccepted, [Next]_vars PROVE PoolAccepted'
  OBVIOUS
<1>1. ASSUME NEW sys, Publish(sys) PROVE PoolAccepted'
  <2>1. slices' = BuildDevices(inv, sys, vm) /\ inv' = inv
    BY <1>1 DEF Publish
  <2>2. Unique(slices')
    BY <2>1, BuildUnique DEF WalksPlaced
  <2>3. {p.name : p \in slices'} = names(inv)
    BY <2>1, BuildNames DEF WalksPlaced
  <2>4. names(inv)' = names(inv)
    BY <2>1 DEF names
  <2> QED
    BY <2>2, <2>3, <2>4 DEF PoolAccepted, Unique
<1>2. CASE DetectAndPublish \/ DetectFails
  BY <1>1, <1>2 DEF DetectAndPublish, DetectFails
<1>3. CASE UNCHANGED slices /\ ~paired'
  BY <1>3 DEF PoolAccepted
<1>4. CASE UNCHANGED <<slices, paired, inv>>
  BY <1>4 DEF PoolAccepted, names
<1>5. WalkRest \/ Dies => UNCHANGED slices /\ ~paired'
  BY DEF WalkRest, Dies
<1>6. Boot \/ Wake \/ WalkFabric \/ CycleFails => UNCHANGED <<slices, paired, inv>>
  BY DEF Boot, Wake, WalkFabric, CycleFails
<1>7. Plugin => UNCHANGED <<slices, paired, inv>>
  BY DEF Plugin, Allocated, Lookup, DeviceMissing, WriteSpec, cycleVars
<1>8. (\E c \in box : Unplug(c) \/ Plug(c) \/ Fails(c) \/ LlmfitView(c)) \/ Transport
        => UNCHANGED <<slices, paired, inv>>
  BY DEF Unplug, Plug, Fails, LlmfitView, Transport, TreeChanges, cycleVars
<1> QED
  BY <1>2, <1>3, <1>4, <1>5, <1>6, <1>7, <1>8 DEF Next, Cycle, Disturbance, vars, cycleVars

(* The scheduler copies names and cards from the pool; the plugin looks    *)
(* the names up and takes the card found.                                  *)
LEMMA NamesStay == TypeOK /\ WalksPlaced /\ NamesKept /\ [Next]_vars => NamesKept'
<1> SUFFICES ASSUME TypeOK, WalksPlaced, NamesKept, [Next]_vars PROVE NamesKept'
  OBVIOUS
<1>1. CASE DetectAndPublish \/ DetectFails
  <2>1. PICK sys : Publish(sys)
    BY <1>1 DEF DetectAndPublish, DetectFails
  <2>2. NamedByCard(slices')
    BY <2>1, BuildNamed DEF Publish, NamedByCard
  <2>3. UNCHANGED <<alloc, cdi, spec>>
    BY <2>1 DEF Publish, claimVars
  <2> QED
    BY <2>2, <2>3 DEF NamesKept, NamedByCard, Claimed
<1>2. ASSUME NEW p \in selected, NEW q \in selected, Allocated({p, q}) PROVE NamesKept'
  <2>1. alloc = {} /\ UNCHANGED <<slices, cdi, spec>>
    BY <1>2 DEF Allocated, cycleVars
  <2>2. cdi = {} /\ (spec # NoSpec => spec.devices = {})
    BY <2>1 DEF NamesKept, Claimed
  <2>3. \A x \in alloc' : (x.name = p.name /\ x.card = p.card) \/ (x.name = q.name /\ x.card = q.card)
    <3>1. alloc' = {[name |-> r.name, card |-> r.card] : r \in {p, q}}
      BY <1>2 DEF Allocated
    <3> TAKE x \in alloc'
    <3>2. PICK r \in {p, q} : x = [name |-> r.name, card |-> r.card]
      BY <3>1
    <3> QED
      BY <3>2
  <2>4. Named(p.name, p.card) /\ Named(q.name, q.card)
    BY DEF NamesKept, NamedByCard, selected
  <2>5. NamedByCard(alloc')
    BY <2>3, <2>4 DEF NamedByCard
  <2> QED
    BY <2>1, <2>2, <2>5 DEF NamesKept, NamedByCard, Claimed
<1>3. ASSUME NEW n \in todo, Lookup(n) PROVE NamesKept'
  <2> DEFINE d == lookup(inv, n)
  <2>1. Name(d) = n
    BY <1>3, LookupFinds DEF Lookup, WalksPlaced
  <2>2. \E p \in alloc : p.name = n
    BY DEF TypeOK
  <2>3. \A e \in cdi' \ cdi : e.name = n /\ e.card = d.card
    BY <1>3 DEF Lookup, withEdits
  <2> HIDE DEF d
  <2>4. Named(n, d.card)
    BY <2>1, NameIsNamed
  <2>5. \A e \in cdi' : Named(e.name, e.card) /\ \E p \in alloc : p.name = e.name
    BY <2>2, <2>3, <2>4 DEF NamesKept, NamedByCard, Claimed
  <2>6. UNCHANGED <<slices, alloc, spec>>
    BY <1>3 DEF Lookup, cycleVars
  <2> QED
    BY <2>5, <2>6 DEF NamesKept, NamedByCard, Claimed
<1>4. CASE UNCHANGED <<slices, alloc, spec>> /\ cdi' = {}
  BY <1>4 DEF NamesKept, NamedByCard, Claimed
<1>5. CASE WriteSpec
  <2>1. spec'.devices = cdi /\ UNCHANGED <<slices, alloc, cdi>>
    BY <1>5 DEF WriteSpec, cycleVars
  <2> QED
    BY <2>1 DEF NamesKept, NamedByCard, Claimed
<1>6. CASE UNCHANGED <<slices, alloc, cdi, spec>>
  BY <1>6 DEF NamesKept, NamedByCard, Claimed
<1>7. (\E n \in todo : DeviceMissing(n)) => UNCHANGED <<slices, alloc, spec>> /\ cdi' = {}
  BY DEF DeviceMissing, Again, cycleVars
<1>8. Dies => UNCHANGED <<slices, alloc, spec>> /\ (cdi' = {} \/ UNCHANGED cdi)
  BY DEF Dies, Again
<1>9. Boot \/ Wake \/ WalkFabric \/ WalkRest \/ CycleFails => UNCHANGED <<slices, alloc, cdi, spec>>
  BY DEF Boot, Wake, WalkFabric, WalkRest, CycleFails, claimVars
<1>10. (\E c \in box : Unplug(c) \/ Plug(c) \/ Fails(c) \/ LlmfitView(c)) \/ Transport
         => UNCHANGED <<slices, alloc, cdi, spec>>
  BY DEF Unplug, Plug, Fails, LlmfitView, Transport, TreeChanges, cycleVars, claimVars
<1> QED
  BY <1>1, <1>2, <1>3, <1>4, <1>5, <1>6, <1>7, <1>8, <1>9, <1>10
  DEF Next, Cycle, Plugin, Disturbance, vars, cycleVars, claimVars

-----------------------------------------------------------------------------
(* Fabric functions.                                                       *)

LEMMA FabricRead ==
    ASSUME NEW t \in Tree, Shown(t)
    PROVE  FabricKnown(t, walkInfiniband(t))
<1> SUFFICES ASSUME NEW c \in t.pci, FabricCard(c)
             PROVE  \E n \in walkInfiniband(t) : Facts[n.card].addr = Facts[c].addr
  BY DEF FabricKnown
<1>1. t.ib \in Class /\ c \in Cards
  BY DEF Tree
<1>2. c \in {t.ib[m] : m \in entries(t.ib)}
  BY DEF Shown, Lists, FabricCard
<1>3. PICK m \in entries(t.ib) : t.ib[m] = c
  BY <1>2
<1> DEFINE S == {k \in entries(t.ib) : function(t.ib[k]) = function(c)}
<1>4. S \in SUBSET Nat /\ S # {}
  BY <1>1, <1>3, EntriesFinite
<1>5. PICK i \in S : \A k \in S : i \leq k
  BY <1>4, MinExists
<1>6. i \in firstEntries(t.ib) /\ function(t.ib[i]) = function(c)
  BY <1>5 DEF firstEntries
<1>7. \E n \in walkInfiniband(t) : n.card = t.ib[i]
  <2> DEFINE n == Device("nic", position(i, firstEntries(t.ib)), t.ib[i],
                         uverbsNode(t, t.ib[i]), NoNode, t)
  <2>1. n \in walkInfiniband(t)
    BY <1>6 DEF walkInfiniband
  <2>2. n.card = t.ib[i]
    BY DEF Device
  <2> QED
    BY <2>1, <2>2
<1>8. Facts[t.ib[i]].addr = Facts[c].addr
  BY <1>6 DEF function, FabricCard
<1> QED
  BY <1>7, <1>8

LEMMA ClassCards ==
    \A t, class, kind : \A d \in walkClass(t, class, kind) :
        \E m \in entries(class) : d.card = class[m]
  BY DEF walkClass, Device

LEMMA FabricRest ==
    ASSUME NEW t \in Tree, Shown(t), NEW N, \A n \in N : n.kind = "nic", FabricKnown(t, N)
    PROVE  FabricClear(Walk(t, N))
<1> SUFFICES ASSUME NEW d \in Walk(t, N), FabricCard(d.card) PROVE d.kind = "nic"
  BY DEF FabricClear
<1> DEFINE compute == walkClass(t, t.drm, "gpu") \union walkClass(t, t.accel, "npu")
<1>1. d = cpuDevice(t) \/ d \in N \/ d \in dropFabricFunctions(compute, N)
  BY DEF Walk
<1>2. d # cpuDevice(t)
  BY ProbeAssumption DEF cpuDevice, Device, FabricCard
<1>3. ASSUME d \in dropFabricFunctions(compute, N) PROVE FALSE
  <2>1. d \in compute /\ Facts[d.card].addr \notin {Facts[n.card].addr : n \in N} \ {NoAddr}
    BY <1>3 DEF dropFabricFunctions
  <2>2. d.card \in t.pci
    BY <2>1, ClassCards DEF Shown, Lists
  <2> QED
    BY <2>1, <2>2 DEF FabricKnown, FabricCard
<1> QED
  BY <1>1, <1>2, <1>3

LEMMA BuiltFrom ==
    ASSUME NEW D, NEW s, NEW v, Placed(D)
    PROVE  /\ \A p \in BuildDevices(D, s, v) : p.card \in Cards
           /\ FabricClear(D) => FabricClear(BuildDevices(D, s, v))
<1>1. \A d : Published(d, D, s, v).card = d.card /\ Published(d, D, s, v).kind = d.kind
  BY DEF Published
<1>2. \A p \in BuildDevices(D, s, v) : \E d \in D : p.card = d.card /\ p.kind = d.kind
  BY <1>1 DEF BuildDevices
<1> QED
  BY <1>2 DEF Placed, FabricClear

LEMMA ShownStays ==
    ASSUME TreeTyped, Shown(tree), TypeOK, NEW c \in box, Unplug(c) \/ Plug(c) \/ Fails(c)
    PROVE  Shown(tree)'
<1> USE DEF TreeTyped
<1>1. CASE Unplug(c)
  <2>1. /\ tree'.pci = tree.pci \ {c}
        /\ tree'.drm = Del(tree.drm, c) /\ tree'.rnd = Del(tree.rnd, c)
        /\ tree'.accel = Del(tree.accel, c) /\ tree'.ib = Del(tree.ib, c)
    BY <1>1 DEF Unplug, Tree
  <2>2. /\ tree.drm \in Class /\ tree.rnd \in Class /\ tree.accel \in Class
        /\ tree.ib \in Class /\ c \in Cards
    BY DEF Tree, TypeOK
  <2> QED
    BY <2>1, <2>2, DelInClass DEF Shown
<1>2. CASE Plug(c)
  <2>1. /\ tree'.pci = tree.pci \union {c} /\ c \notin tree.pci
        /\ tree'.drm = Add(tree.drm, c, "drm") /\ tree'.rnd = Add(tree.rnd, c, "rnd")
        /\ tree'.accel = Add(tree.accel, c, "accel") /\ tree'.ib = Add(tree.ib, c, "ib")
    BY <1>2 DEF Plug, Tree
  <2>2. /\ tree.drm \in Class /\ tree.rnd \in Class /\ tree.accel \in Class
        /\ tree.ib \in Class /\ c \in Cards
    BY DEF Tree, TypeOK
  <2> QED
    BY <2>1, <2>2, AddInClass DEF Shown
<1>3. CASE Fails(c)
  BY <1>3 DEF Fails, Tree, Shown
<1> QED
  BY <1>1, <1>2, <1>3

LEMMA FabricStays ==
    TypeOK /\ TreeTyped /\ WalksPlaced /\ FabricInv /\ [Next]_vars => FabricInv'
<1> SUFFICES ASSUME TypeOK, TreeTyped, WalksPlaced, FabricInv, [Next]_vars PROVE FabricInv'
  OBVIOUS
<1>1. ASSUME NEW c \in box, Unplug(c) \/ Plug(c) \/ Fails(c) PROVE FabricInv'
  <2>1. Shown(tree)'
    BY <1>1, ShownStays DEF FabricInv
  <2>2. ~sameWalk' /\ UNCHANGED <<slices, sound>>
    BY <1>1 DEF Unplug, Plug, Fails, TreeChanges
  <2> QED
    BY <2>1, <2>2 DEF FabricInv, FabricClear
<1>2. CASE WalkFabric
  <2>1. FabricKnown(tree, walkInfiniband(tree))
    BY FabricRead DEF TreeTyped, FabricInv
  <2> QED
    BY <1>2, <2>1 DEF WalkFabric, envVars, FabricInv, FabricKnown, FabricClear, Shown
<1>3. CASE WalkRest
  <2>1. sameWalk => FabricClear(Walk(tree, nics))
    BY <1>3, FabricRest DEF WalkRest, TreeTyped, WalksPlaced, FabricInv
  <2> QED
    BY <1>3, <2>1 DEF WalkRest, envVars, FabricInv, FabricClear, Shown
<1>4. CASE DetectAndPublish \/ DetectFails
  <2>1. PICK sys : Publish(sys)
    BY <1>4 DEF DetectAndPublish, DetectFails
  <2>2. step = "ram" /\ (sound' => sameWalk)
    <3>1. CASE DetectAndPublish
      <4>1. step = "ram" /\ sound' = sameWalk
        BY <3>1 DEF DetectAndPublish
      <4> QED
        BY <4>1
    <3>2. CASE DetectFails
      <4>1. step = "ram" /\ sound' = (sameWalk /\ sameCards)
        BY <3>2 DEF DetectFails
      <4> QED
        BY <4>1, Zenon
    <3> QED
      BY <1>4, <3>1, <3>2
  <2>3. slices' = BuildDevices(inv, sys, vm) /\ step' = "select" /\ UNCHANGED tree
    BY <2>1 DEF Publish, envVars
  <2>4. \A p \in slices' : p.card \in Cards
    BY <2>3, BuiltFrom DEF WalksPlaced
  <2>5. sound' => FabricClear(slices')
    BY <2>2, <2>3, BuiltFrom DEF WalksPlaced, FabricInv
  <2> QED
    BY <2>3, <2>4, <2>5 DEF FabricInv, FabricClear, Shown
<1>5. CASE UNCHANGED <<tree, slices, sound>> /\ step' \notin {"walk", "ram"}
  BY <1>5 DEF FabricInv, FabricClear, Shown
<1>6. CASE UNCHANGED <<tree, slices, sound, sameWalk, step, nics, inv>>
  BY <1>6 DEF FabricInv, FabricClear, FabricKnown, Shown
<1>7. Boot \/ Wake \/ CycleFails \/ Dies
        => UNCHANGED <<tree, slices, sound>> /\ step' \notin {"walk", "ram"}
  BY DEF Boot, Wake, CycleFails, Dies, envVars
<1>8. Plugin \/ Transport \/ (\E c \in box : LlmfitView(c))
        => UNCHANGED <<tree, slices, sound, sameWalk, step, nics, inv>>
  BY DEF Plugin, Allocated, Lookup, DeviceMissing, WriteSpec, Transport, LlmfitView, envVars, cycleVars
<1> QED
  BY <1>1, <1>2, <1>3, <1>4, <1>5, <1>6, <1>7, <1>8
  DEF Next, Cycle, Disturbance, vars, envVars, cycleVars

-----------------------------------------------------------------------------
(* ROCm visibility: what a claim's GPUs are among the inventory's.         *)

LEMMA ClaimStays ==
    TypeOK /\ ClaimFromInventory /\ [Next]_vars => ClaimFromInventory'
<1> SUFFICES ASSUME TypeOK, ClaimFromInventory, [Next]_vars PROVE ClaimFromInventory'
  OBVIOUS
<1>1. ASSUME NEW n \in todo, Lookup(n) PROVE ClaimFromInventory'
  <2>1. n \in names(inv) /\ UNCHANGED <<inv, spec, oneInv>>
    BY <1>1 DEF Lookup, cycleVars
  <2>2. \A e \in cdi' \ cdi : e.name = n /\ e.card = lookup(inv, n).card
    BY <1>1 DEF Lookup, withEdits
  <2> QED
    BY <2>1, <2>2 DEF ClaimFromInventory, names, lookup
<1>2. CASE WalkRest
  <2>1. spec' = spec /\ cdi' = cdi /\ (oneInv' => cdi = {})
    <3>1. oneInv' = (oneInv /\ cdi = {}) /\ spec' = spec /\ cdi' = cdi
      BY <1>2 DEF WalkRest
    <3> QED
      BY <3>1, Zenon
  <2> QED
    BY <2>1 DEF ClaimFromInventory
<1>3. CASE cdi' = {}
  BY <1>3 DEF ClaimFromInventory
<1>4. CASE spec' # NoSpec
  BY <1>4 DEF ClaimFromInventory
<1>5. CASE UNCHANGED <<inv, cdi, spec, oneInv>>
  BY <1>5 DEF ClaimFromInventory, names, lookup
<1>6. Dies \/ (\E n \in todo : DeviceMissing(n)) => cdi' = {} \/ spec' # NoSpec
  BY DEF Dies, DeviceMissing, Again
<1>7. WriteSpec => spec' # NoSpec \/ UNCHANGED <<inv, cdi, spec, oneInv>>
  BY DEF WriteSpec, cycleVars
<1>8. Boot \/ Wake \/ WalkFabric \/ CycleFails => UNCHANGED <<inv, cdi, spec, oneInv>>
  BY DEF Boot, Wake, WalkFabric, CycleFails, claimVars
<1>9. DetectAndPublish \/ DetectFails => UNCHANGED <<inv, cdi, spec, oneInv>>
  BY DEF DetectAndPublish, DetectFails, Publish, claimVars
<1>10. (\E p, q \in {p \in selected : p.kind # "cpu"} : Allocated({p, q}))
         => UNCHANGED <<inv, cdi, spec, oneInv>>
  BY DEF Allocated, cycleVars
<1>11. (\E c \in box : Unplug(c) \/ Plug(c) \/ Fails(c) \/ LlmfitView(c)) \/ Transport
         => UNCHANGED <<inv, cdi, spec, oneInv>>
  BY DEF Unplug, Plug, Fails, LlmfitView, Transport, TreeChanges, cycleVars, claimVars
<1> QED
  BY <1>1, <1>2, <1>3, <1>4, <1>5, <1>6, <1>7, <1>8, <1>9, <1>10, <1>11
  DEF Next, Cycle, Plugin, Disturbance, vars, cycleVars, claimVars

(* Devices of one name have one driver.                                    *)
LEMMA NameHasDriver ==
    ASSUME NEW D, Placed(D), NEW d \in D, NEW e \in D, Name(d) = Name(e)
    PROVE  driver(d) = driver(e)
<1>1. d.kind = e.kind /\ d.card \in Cards /\ e.card \in Cards
  BY NameHasKind DEF Placed
<1>2. CASE Facts[d.card].addr # NoAddr
  <2>1. Facts[e.card].addr = Facts[d.card].addr
    BY <1>2 DEF Name
  <2> QED
    BY <1>1, <1>2, <2>1, FunctionsAssumption DEF driver
<1>3. CASE Facts[d.card].addr = NoAddr
  <2>1. d.index = e.index
    BY <1>3 DEF Name
  <2>2. d = e
    BY <1>1, <2>1 DEF Placed
  <2> QED
    BY <2>2
<1> QED
  BY <1>2, <1>3

(* Two names of a driver make driverCount exceed one.                      *)
LEMMA TwoAreCounted ==
    ASSUME NEW D, Placed(D), NEW m \in names(D), NEW n \in names(D), m # n, NEW drv,
           driver(lookup(D, m)) = drv, driver(lookup(D, n)) = drv
    PROVE  ~(driverCount(D, drv) \leq 1)
<1> DEFINE S == {k \in names(D) : driver(lookup(D, k)) = drv}
           f == [d \in D |-> Name(d)]
<1>1. IsFiniteSet(names(D))
  <2>1. names(D) = {f[d] : d \in D}
    BY DEF names
  <2>2. IsFiniteSet(D)
    BY DEF Placed
  <2> HIDE DEF f
  <2> QED
    BY <2>1, <2>2, ImageFinite
<1>2. IsFiniteSet(S) /\ Cardinality(S) \in Nat
  BY <1>1, FS_Subset, FS_CardinalityType, S \in SUBSET names(D)
<1>3. {m, n} \in SUBSET S
  OBVIOUS
<1>4. Cardinality({m, n}) = 2
  <2>1. IsFiniteSet({m}) /\ Cardinality({m}) = 1
    BY FS_Singleton
  <2>2. Cardinality({m} \union {n}) = 2
    BY <2>1, FS_AddElement, n \notin {m}
  <2>3. {m, n} = {m} \union {n}
    OBVIOUS
  <2> QED
    BY <2>2, <2>3
<1>5. 2 \leq Cardinality(S)
  BY <1>2, <1>3, <1>4, FS_Subset
<1>6. driverCount(D, drv) = Cardinality(S)
  BY DEF driverCount
<1> HIDE DEF S
<1> QED
  BY <1>2, <1>5, <1>6

-----------------------------------------------------------------------------
THEOREM Invariance == Spec => []IndInv
<1>1. IndInv /\ [Next]_vars => IndInv'
  BY TypesKept, TreeStays, WalksStay, PoolStays, NamesStay, FabricStays, ClaimStays
  DEF IndInv
<1> QED
  BY <1>1, InitEstablishes, PTL DEF Spec

(* Types, and: only a process that runs has a cycle in work, an inventory  *)
(* or a reading.                                                           *)
THEOREM TypeCorrect == Spec => []TypeOK
<1>1. IndInv => TypeOK
  BY DEF IndInv
<1> QED
  BY <1>1, Invariance, PTL

(* publisher.go:78-81: whatever quirks a walk has, no two devices of the   *)
(* published pool share a name, and the names are those Prepare can find.  *)
THEOREM PoolAlwaysAccepted == Spec => []PoolAccepted
<1>1. IndInv => PoolAccepted
  BY DEF IndInv
<1> QED
  BY <1>1, Invariance, PTL

(* probe.go:120-125: what is prepared is the silicon that was allocated,   *)
(* across hot-remove and renumbering.                                      *)
THEOREM PreparedIsAllocated == Spec => []NameIsSilicon
<1>1. ASSUME NamesKept PROVE NameIsSilicon
  <2> SUFFICES ASSUME spec # NoSpec, NEW e \in spec.devices
               PROVE  \E p \in alloc :
                        /\ p.name = e.name
                        /\ Facts[e.card].addr # NoAddr => function(p.card) = function(e.card)
    BY DEF NameIsSilicon
  <2>1. PICK p \in alloc : p.name = e.name
    BY <1>1 DEF NamesKept, Claimed
  <2>2. Named(e.name, e.card) /\ Named(e.name, p.card)
    BY <1>1, <2>1 DEF NamesKept, Claimed, NamedByCard
  <2> QED
    BY <2>1, <2>2, SameFunction
<1>2. IndInv => NamesKept
  BY DEF IndInv
<1> QED
  BY <1>1, <1>2, Invariance, PTL

(* probe.go:28-34: a card on a PCI function of the infiniband class is     *)
(* published as a NIC and never as compute, when one walk saw it whole.    *)
THEOREM FabricNeverCompute == Spec => []FabricIsNotCompute
<1>1. ASSUME TypeOK, FabricInv PROVE FabricIsNotCompute
  <2> SUFFICES ASSUME sound, NEW p \in slices, NEW c \in box,
                      "ib" \in Facts[c].faces, Facts[c].addr # NoAddr,
                      Facts[p.card].addr = Facts[c].addr
               PROVE  p.kind = "nic"
    BY DEF FabricIsNotCompute
  <2>1. c \in Cards /\ p.card \in Cards
    BY <1>1 DEF TypeOK, FabricInv
  <2>2. FabricCard(p.card)
    BY <2>1, FunctionsAssumption DEF FabricCard
  <2> QED
    BY <1>1, <2>2 DEF FabricInv, FabricClear
<1>2. IndInv => TypeOK /\ FabricInv
  BY DEF IndInv
<1> QED
  BY <1>1, <1>2, Invariance, PTL

(* plugin.go:191-196: a claim that gets an AMD GPU on a node with another  *)
(* one is confined to its own, when all of its own have an ID.             *)
THEOREM ROCmAlwaysConfined == Spec => ROCmIsConfined
<1> DEFINE mine == {e.card : e \in {e \in spec'.devices : Facts[e.card].driver = "amdgpu"}}
           others == {d \in inv : driver(d) = "amdgpu"
                                    /\ Name(d) \notin {e.name : e \in spec'.devices}}
           Confined == spec = NoSpec /\ spec' # NoSpec /\ oneInv =>
                         (mine # {} /\ others # {} /\ (\A c \in mine : Facts[c].uid)
                            => spec'.visible = mine)
<1>1. IndInv /\ [Next]_vars => [Confined]_vars
  <2> SUFFICES ASSUME IndInv, [Next]_vars, spec = NoSpec, spec' # NoSpec, oneInv,
                      mine # {}, others # {}, \A c \in mine : Facts[c].uid
               PROVE  spec'.visible = mine
    BY Zenon
  <2>1. WriteSpec
    BY DEF Next, Cycle, Boot, Wake, WalkFabric, WalkRest, DetectAndPublish, DetectFails, Publish,
           Plugin, Allocated, Lookup, DeviceMissing, Disturbance, Unplug, Plug, Fails, TreeChanges,
           LlmfitView, Transport, CycleFails, Dies, vars, claimVars
  <2>2. spec'.devices = cdi /\ spec'.visible = addROCmVisibility(inv, cdi)
    BY <2>1 DEF WriteSpec
  <2>3. PICK e \in cdi : Facts[e.card].driver = "amdgpu"
    BY <2>2
  <2>4. PICK d \in inv : driver(d) = "amdgpu" /\ Name(d) \notin {x.name : x \in cdi}
    BY <2>2
  <2>5. /\ Placed(inv) /\ e.name \in names(inv) /\ e.card = lookup(inv, e.name).card
    BY DEF IndInv, WalksPlaced, ClaimFromInventory
  <2>6. driver(lookup(inv, e.name)) = "amdgpu"
    BY <2>3, <2>5 DEF driver
  <2>7. Name(d) \in names(inv) /\ Name(d) # e.name
    BY <2>4 DEF names
  <2>8. driver(lookup(inv, Name(d))) = "amdgpu"
    BY <2>4, <2>5, <2>7, LookupFinds, NameHasDriver
  <2>9. ~(driverCount(inv, "amdgpu") \leq 1)
    BY <2>5, <2>6, <2>7, <2>8, TwoAreCounted
  <2> QED
    BY <2>2, <2>9 DEF addROCmVisibility
<1> QED
  BY <1>1, Invariance, PTL DEF Spec, ROCmIsConfined
-----------------------------------------------------------------------------
(* llmfit's numbers and a card's own.                                      *)

(* The walk sees what llmfit sees: a card of the drm class, no fabric      *)
(* function, that llmfit takes for its vendor's, or for nobody's.          *)
Walked(c) ==
    /\ "drm" \in Facts[c].faces /\ ~FabricCard(c)
    /\ Price[Facts[c].model].vendor \in {Facts[c].vendor, ""}

(* A GPU that llmfit may report is one of those, or no card of the drm     *)
(* class can be taken for it.                                              *)
NoStrayGPU ==
    \A c \in box : Facts[c].gpu =>
        \/ Walked(c)
        \/ /\ Price[Facts[c].model].vendor # ""
           /\ \A e \in box : "drm" \in Facts[e].faces
                               => Facts[e].vendor # Price[Facts[c].model].vendor

HoldsGPUs(P, D) ==
    \A c \in P : Facts[c].gpu /\ Walked(c) => \E d \in gpus(D) : d.card = c

(* A walk's GPUs are cards of the drm class, each once.                    *)
GPUsOnce(D) ==
    /\ \A d \in gpus(D) : d.card \in box /\ "drm" \in Facts[d.card].faces
    /\ \A d, e \in gpus(D) : d.card = e.card => d = e

LEMMA WalkGPUsOnce ==
    ASSUME NEW t \in Tree, Shown(t), t.pci \subseteq box, NEW N, \A n \in N : n.kind = "nic"
    PROVE  GPUsOnce(Walk(t, N))
<1> DEFINE dev(m) == Device("gpu", position(m, entries(t.drm)), t.drm[m], <<"card", m>>,
                            renderNode(t, t.drm[m]), t)
<1>1. ASSUME NEW d \in gpus(Walk(t, N)) PROVE \E m \in entries(t.drm) : d = dev(m)
  <2>1. d.kind = "gpu" /\ d \in Walk(t, N)
    BY DEF gpus
  <2>2. d # cpuDevice(t)
    BY <2>1 DEF cpuDevice, Device
  <2>3. d \notin walkClass(t, t.accel, "npu")
    BY <2>1 DEF walkClass, Device
  <2>4. d \in walkClass(t, t.drm, "gpu")
    BY <2>1, <2>2, <2>3 DEF Walk, dropFabricFunctions
  <2> QED
    BY <2>4 DEF walkClass
<1>2. \A m \in entries(t.drm) : /\ dev(m).card = t.drm[m]
                                /\ t.drm[m] \in box /\ "drm" \in Facts[t.drm[m]].faces
  BY DEF Device, Shown, Lists
<1>3. ASSUME NEW m \in entries(t.drm), NEW n \in entries(t.drm), t.drm[m] = t.drm[n]
      PROVE  m = n
  BY <1>3 DEF Shown, Lists
<1> HIDE DEF dev
<1>4. ASSUME NEW d \in gpus(Walk(t, N)), NEW e \in gpus(Walk(t, N)), d.card = e.card
      PROVE  d = e
  <2>1. PICK m \in entries(t.drm) : d = dev(m)
    BY <1>1
  <2>2. PICK n \in entries(t.drm) : e = dev(n)
    BY <1>1
  <2> QED
    BY <1>2, <1>3, <1>4, <2>1, <2>2
<1> QED
  BY <1>1, <1>2, <1>4 DEF GPUsOnce

(* Each entry of a reading stands for as many GPUs of P as it says.        *)
Describes(sys, P) ==
    \A m \in DOMAIN sys : \E S \in SUBSET P :
        /\ S # {} /\ Cardinality(S) = covered(sys[m].count)
        /\ \A c \in S : Facts[c].gpu /\ Facts[c].model = m

LEMMA OneIsSome == \A S : Cardinality(S) = 1 => S # {}
BY FS_EmptySet

(* An entry goes to a card that it stands for: the cards it stands for are *)
(* all in the walk, and not fewer than those it may go to.                 *)
LEMMA PairedOwn ==
    ASSUME NoStrayGPU, box \subseteq Cards, NEW P \in SUBSET box,
           NEW D, Placed(D), GPUsOnce(D), HoldsGPUs(P, D), NEW d \in D,
           NEW sys, sys # NoSystem => Describes(sys, P),
           matchLLMFitGPU(sys, d, D) # NoModel
    PROVE  Facts[d.card].gpu /\ Facts[d.card].model = matchLLMFitGPU(sys, d, D)
<1> DEFINE v == Facts[d.card].vendor
           same == {m \in DOMAIN sys : Price[m].vendor = v}
           T == sameVendor(D, v)
<1>1. sys # NoSystem /\ d.kind = "gpu"
  BY DEF matchLLMFitGPU
<1>2. v # ""
  BY PublisherAssumption DEF Placed
<1>3. IsFiniteSet(gpus(D)) /\ IsFiniteSet(T)
  BY FS_Subset, gpus(D) \in SUBSET D, T \in SUBSET D DEF Placed, gpus, sameVendor
<1>4. d \in T /\ d \in gpus(D) /\ d.card \in box /\ "drm" \in Facts[d.card].faces
  BY <1>1 DEF sameVendor, gpus, GPUsOnce
<1>5. CASE Cardinality(same) = 1
  <2> DEFINE m == CHOOSE m \in same : TRUE
  <2>0. same # {}
    BY <1>5, OneIsSome, Zenon
  <2>1. m \in same
    BY <2>0
  <2>2. matchLLMFitGPU(sys, d, D) = m /\ ~(Cardinality(T) > covered(sys[m].count))
    BY <1>1, <1>5 DEF matchLLMFitGPU
  <2> HIDE DEF m
  <2>3. PICK S \in SUBSET P : /\ Cardinality(S) = covered(sys[m].count)
                              /\ \A c \in S : Facts[c].gpu /\ Facts[c].model = m
    BY <1>1, <2>1 DEF Describes
  <2> DEFINE card == [e \in T |-> e.card]
             C == {card[e] : e \in T}
  <2>4. IsFiniteSet(C) /\ Cardinality(C) \leq Cardinality(T)
    <3>1. card \in Surjection(T, C)
      BY DEF Surjection
    <3> QED
      BY <1>3, <3>1, FS_Surjection
  <2>5. S \subseteq C
    <3> SUFFICES ASSUME NEW c \in S PROVE c \in C
      OBVIOUS
    <3>0. Facts[c].gpu /\ Facts[c].model = m /\ Price[m].vendor = v /\ c \in box
      BY <2>1, <2>3
    <3>2. Walked(c) /\ Facts[c].vendor = v
      BY <1>2, <1>4, <3>0 DEF NoStrayGPU, Walked
    <3>1. PICK e \in gpus(D) : e.card = c
      BY <3>0, <3>2 DEF HoldsGPUs
    <3>3. e \in T
      BY <3>1, <3>2 DEF sameVendor
    <3> QED
      BY <3>1, <3>3
  <2>6. Cardinality(S) \leq Cardinality(C) /\ (Cardinality(S) = Cardinality(C) => S = C)
    BY <2>4, <2>5, FS_Subset
  <2>7. Cardinality(T) \in Nat /\ Cardinality(C) \in Nat /\ Cardinality(S) \in Nat
    BY <1>3, <2>4, <2>5, FS_CardinalityType, FS_Subset
  <2>8. S = C
    BY <2>2, <2>3, <2>4, <2>6, <2>7
  <2>9. d.card \in C
    BY <1>4
  <2> HIDE DEF C
  <2> QED
    BY <2>2, <2>3, <2>8, <2>9
<1>6. CASE Cardinality(same) # 1
  <2> DEFINE m == CHOOSE m \in DOMAIN sys : TRUE
  <2>1. /\ matchLLMFitGPU(sys, d, D) = m
        /\ Cardinality(DOMAIN sys) = 1 /\ Cardinality(gpus(D)) = 1
        /\ Price[m].vendor = ""
    BY <1>1, <1>6 DEF matchLLMFitGPU
  <2>0. DOMAIN sys # {}
    BY <2>1, OneIsSome, Zenon
  <2>2. m \in DOMAIN sys
    BY <2>0
  <2> HIDE DEF m
  <2>3. PICK c \in P : Facts[c].gpu /\ Facts[c].model = m
    BY <1>1, <2>2 DEF Describes
  <2>4. PICK e \in gpus(D) : e.card = c
    BY <2>1, <2>3 DEF HoldsGPUs, NoStrayGPU
  <2>5. PICK x : gpus(D) = {x}
    BY <1>3, <2>1, FS_Singleton
  <2>6. d = e
    BY <1>4, <2>4, <2>5
  <2> QED
    BY <2>1, <2>3, <2>4, <2>6
<1> QED
  BY <1>5, <1>6

(* A reading stands for the GPUs that are plugged in when it is taken.     *)
LEMMA ReadingDescribes ==
    ASSUME TypeOK, NEW complete
    PROVE  Describes(Fresh(Reading(complete)), tree.pci)
<1> DEFINE seen == {c \in tree.pci \ hidden : Facts[c].gpu}
           group(m) == {c \in seen : Facts[c].model = m}
           r == Reading(complete)
<1>1. DOMAIN r = {Facts[c].model : c \in seen}
  BY DEF Reading
<1>2. \A m \in DOMAIN r :
        r[m].count = IF Cardinality(group(m)) = 1 THEN 0 ELSE Cardinality(group(m))
  BY DEF Reading
<1> HIDE DEF r
<1>3. DOMAIN Fresh(r) = DOMAIN r /\ \A m \in DOMAIN r : Fresh(r)[m].count = r[m].count
  <2>1. CASE last = NoSystem
    BY <2>1 DEF Fresh, backfillBandwidth
  <2>2. CASE last # NoSystem
    <3>1. r \in [DOMAIN r -> [count : Nat, bw : BOOLEAN]]
      BY ReadingTyped DEF r
    <3> QED
      BY <2>2, <3>1 DEF Fresh, backfillBandwidth
  <2> QED
    BY <2>1, <2>2
<1>4. ASSUME NEW m \in DOMAIN r
      PROVE  \E S \in SUBSET tree.pci :
                /\ S # {} /\ Cardinality(S) = covered(r[m].count)
                /\ \A c \in S : Facts[c].gpu /\ Facts[c].model = m
  <2>1. group(m) # {} /\ group(m) \in SUBSET tree.pci
    BY <1>1
  <2>2. IsFiniteSet(group(m))
    <3>1. group(m) \in SUBSET Cards
      BY DEF TypeOK
    <3> QED
      BY <3>1, ProbeAssumption, FS_Subset
  <2>3. Cardinality(group(m)) \in Nat /\ Cardinality(group(m)) # 0
    BY <2>1, <2>2, FS_CardinalityType, FS_EmptySet
  <2>4. Cardinality(group(m)) = covered(r[m].count)
    BY <1>2, <2>3 DEF covered
  <2> QED
    BY <2>1, <2>4
<1> QED
  BY <1>3, <1>4 DEF Describes, r

(* A walk has every GPU of the drm class that is not a fabric function.    *)
LEMMA WalkHoldsGPUs ==
    ASSUME box \subseteq Cards, NEW t \in Tree, Shown(t), t.pci \subseteq box,
           NEW N, \A n \in N : n.card \in Cards /\ "ib" \in Facts[n.card].faces
    PROVE  HoldsGPUs(t.pci, Walk(t, N))
<1> SUFFICES ASSUME NEW c \in t.pci, Walked(c)
             PROVE  \E d \in gpus(Walk(t, N)) : d.card = c
  BY DEF HoldsGPUs
<1>1. "drm" \in Facts[c].faces /\ ~FabricCard(c) /\ c \in Cards
  BY DEF Walked
<1>2. c \in {t.drm[m] : m \in entries(t.drm)}
  BY <1>1 DEF Shown, Lists
<1>3. PICK m \in entries(t.drm) : t.drm[m] = c
  BY <1>2
<1> DEFINE d == Device("gpu", position(m, entries(t.drm)), c, <<"card", m>>, renderNode(t, c), t)
<1>4. d \in walkClass(t, t.drm, "gpu")
  BY <1>3 DEF walkClass
<1>5. d.card = c /\ d.kind = "gpu"
  BY DEF Device
<1> HIDE DEF d
<1>6. Facts[c].addr \notin {Facts[n.card].addr : n \in N} \ {NoAddr}
  BY <1>1, FunctionsAssumption DEF FabricCard
<1>7. d \in Walk(t, N)
  BY <1>4, <1>5, <1>6 DEF Walk, dropFabricFunctions
<1> QED
  BY <1>5, <1>7 DEF gpus

(* No source gives a device more memory than its card has.                 *)
LEMMA CapacityOwn ==
    ASSUME NEW d, d.card \in Cards, d.kind = "cpu" => d.card = CPU,
           NEW lf, lf # NoModel => Facts[d.card].gpu /\ Facts[d.card].model = lf
    PROVE  capacity(d, lf) \leq Facts[d.card].mem
<1> DEFINE c == d.card
<1>1. /\ Facts[c].vram \in Nat /\ Facts[c].mem \in Nat /\ RAM \in Nat
      /\ Facts[c].vram \leq Facts[c].mem
  BY PublisherAssumption, SourcesAssumption
<1>2. d.kind = "cpu" => RAM \leq Facts[c].mem
  BY SourcesAssumption
<1>3. lf # NoModel => Price[lf].mem \in 0 .. Facts[c].mem
  BY SourcesAssumption
<1>4. unified(d, lf) = "yes" => RAM \leq Facts[c].mem
  BY SourcesAssumption DEF unified
<1>5. Max({Facts[c].vram, RAM}) \in {Facts[c].vram, RAM}
  BY <1>1 DEF Max
<1> QED
  BY <1>1, <1>2, <1>3, <1>4, <1>5 DEF capacity

OwnInv ==
    /\ NoStrayGPU /\ GPUsOnce(inv)
    /\ \A n \in nics : "ib" \in Facts[n.card].faces
    /\ \A d \in inv : d.kind = "cpu" => d.card = CPU
    /\ sameWalk /\ step = "ram" => HoldsGPUs(tree.pci, inv)
    /\ sameCards /\ last # NoSystem => Describes(last, tree.pci)
    /\ NumbersAreOwn /\ CapacityIsReal

LEMMA PublishOwn ==
    ASSUME IndInv, OwnInv, NEW sys, sys # NoSystem => Describes(sys, tree.pci),
           HoldsGPUs(tree.pci, inv)
    PROVE  \A p \in BuildDevices(inv, sys, vm) :
              p.model = Facts[p.card].model /\ p.mem \leq Facts[p.card].mem
<1> SUFFICES ASSUME NEW d \in inv
             PROVE  LET p == Published(d, inv, sys, vm)
                    IN  p.model = Facts[p.card].model /\ p.mem \leq Facts[p.card].mem
  BY DEF BuildDevices
<1> DEFINE lf == matchLLMFitGPU(sys, d, inv)
<1>1. /\ Placed(inv) /\ d.card \in Cards /\ tree.pci \in SUBSET box /\ box \subseteq Cards
  BY DEF IndInv, TypeOK, WalksPlaced, Placed
<1>2. lf # NoModel => Facts[d.card].gpu /\ Facts[d.card].model = lf
  BY <1>1, PairedOwn DEF OwnInv
<1>3. capacity(d, lf) \leq Facts[d.card].mem
  <2> HIDE DEF lf
  <2> QED
    BY <1>1, <1>2, CapacityOwn DEF OwnInv
<1>4. LET p == Published(d, inv, sys, vm)
      IN  /\ p.card = d.card /\ p.mem = capacity(d, lf)
          /\ p.model = IF lf # NoModel THEN lf ELSE Facts[d.card].model
  BY DEF Published
<1> HIDE DEF lf
<1> QED
  BY <1>2, <1>3, <1>4

LEMMA OwnStays == IndInv /\ OwnInv /\ [Next]_vars => OwnInv'
<1> SUFFICES ASSUME IndInv, OwnInv, [Next]_vars PROVE OwnInv'
  OBVIOUS
<1> USE DEF HoldsGPUs, gpus, GPUsOnce
<1>0. /\ TypeOK /\ TreeTyped /\ WalksPlaced /\ Shown(tree)
      /\ tree.pci \subseteq box /\ box \subseteq Cards
  BY DEF IndInv, TypeOK, FabricInv
<1>00. box' = box /\ NoStrayGPU'
  <2>1. box' = box
    BY DEF Next, Cycle, Boot, Wake, WalkFabric, WalkRest, DetectAndPublish, DetectFails, Publish,
           Plugin, Allocated, Lookup, DeviceMissing, WriteSpec, Disturbance, Unplug, Plug, Fails,
           TreeChanges, LlmfitView, Transport, CycleFails, Dies, vars, envVars
  <2> QED
    BY <2>1 DEF OwnInv, NoStrayGPU
<1>1. ASSUME NEW c \in box, Unplug(c) \/ Plug(c) PROVE OwnInv'
  <2>1. ~sameCards' /\ ~sameWalk' /\ UNCHANGED <<nics, inv, slices, sound>>
    BY <1>1 DEF Unplug, Plug, TreeChanges
  <2> QED
    BY <1>00, <2>1 DEF OwnInv, NumbersAreOwn, CapacityIsReal
<1>2. ASSUME NEW c \in box, Fails(c) PROVE OwnInv'
  <2>1. /\ ~sameWalk' /\ UNCHANGED <<nics, inv, slices, sound, sameCards, last>>
        /\ tree'.pci = tree.pci
    BY <1>0, <1>2 DEF Fails, TreeChanges, detectorVars, TreeTyped, Tree
  <2> QED
    BY <1>00, <2>1 DEF OwnInv, NumbersAreOwn, CapacityIsReal, Describes
<1>3. CASE WalkFabric
  <2>1. ASSUME NEW n \in walkInfiniband(tree) PROVE "ib" \in Facts[n.card].faces
    <3>1. PICK i \in firstEntries(tree.ib) :
             n = Device("nic", position(i, firstEntries(tree.ib)), tree.ib[i],
                        uverbsNode(tree, tree.ib[i]), NoNode, tree)
      BY DEF walkInfiniband
    <3>2. n.card = tree.ib[i] /\ i \in entries(tree.ib)
      BY <3>1 DEF Device, firstEntries
    <3> QED
      BY <1>0, <3>2 DEF Shown, Lists
  <2>2. nics' = walkInfiniband(tree) /\ step' = "walk"
        /\ UNCHANGED <<tree, inv, slices, sound, sameCards, last>>
    BY <1>3 DEF WalkFabric, envVars, detectorVars
  <2> QED
    BY <1>00, <2>1, <2>2 DEF OwnInv, NumbersAreOwn, CapacityIsReal, Describes
<1>4. CASE WalkRest
  <2>1. \A n \in nics : n.card \in Cards /\ "ib" \in Facts[n.card].faces
    BY <1>0 DEF OwnInv, WalksPlaced, Placed
  <2>2. HoldsGPUs(tree.pci, Walk(tree, nics)) /\ GPUsOnce(Walk(tree, nics))
    BY <1>0, <2>1, WalkHoldsGPUs, WalkGPUsOnce DEF TreeTyped, WalksPlaced
  <2>3. ASSUME NEW d \in Walk(tree, nics), d.kind = "cpu" PROVE d.card = CPU
    <3>1. \A e \in walkClass(tree, tree.drm, "gpu") : e.kind = "gpu"
      BY DEF walkClass, Device
    <3>2. \A e \in walkClass(tree, tree.accel, "npu") : e.kind = "npu"
      BY DEF walkClass, Device
    <3>3. \A e \in nics : e.kind = "nic"
      BY <1>0 DEF WalksPlaced
    <3>4. d = cpuDevice(tree)
      BY <2>3, <3>1, <3>2, <3>3 DEF Walk, dropFabricFunctions
    <3> QED
      BY <3>4 DEF cpuDevice, Device
  <2>4. inv' = Walk(tree, nics) /\ nics' = {} /\ UNCHANGED <<tree, slices, sound, sameCards, last>>
    BY <1>4 DEF WalkRest, envVars, detectorVars
  <2> QED
    BY <1>00, <2>2, <2>3, <2>4 DEF OwnInv, NumbersAreOwn, CapacityIsReal, Describes
<1>5. CASE DetectAndPublish
  <2> DEFINE sys == Fresh(Reading(~(api /\ ApiOmitsBandwidth)))
  <2>1. /\ step = "ram" /\ last' = sys /\ sound' = sameWalk /\ Publish(sys)
    BY <1>5 DEF DetectAndPublish
  <2>2. Describes(sys, tree.pci)
    BY <1>0, ReadingDescribes
  <2> HIDE DEF sys
  <2>3. /\ slices' = BuildDevices(inv, sys, vm) /\ step' = "select"
        /\ UNCHANGED <<tree, nics, inv>>
    BY <2>1 DEF Publish, envVars
  <2>4. sound' => \A p \in slices' : p.model = Facts[p.card].model /\ p.mem \leq Facts[p.card].mem
    BY <2>1, <2>2, <2>3, PublishOwn DEF OwnInv
  <2> QED
    BY <1>00, <2>1, <2>2, <2>3, <2>4 DEF OwnInv, NumbersAreOwn, CapacityIsReal, Describes
<1>6. CASE DetectFails
  <2>1. step = "ram" /\ Publish(Cached) /\ UNCHANGED <<sameCards, last>>
    BY <1>6 DEF DetectFails, detectorVars
  <2>2. sound' => sameWalk /\ sameCards
    <3>1. sound' = (sameWalk /\ sameCards)
      BY <1>6 DEF DetectFails
    <3> QED
      BY <3>1, Zenon
  <2>3. sameCards /\ Cached # NoSystem => Describes(Cached, tree.pci)
    BY DEF Cached, OwnInv
  <2>4. /\ slices' = BuildDevices(inv, Cached, vm) /\ step' = "select"
        /\ UNCHANGED <<tree, nics, inv>>
    BY <2>1 DEF Publish, envVars
  <2>5. sound' => \A p \in slices' : p.model = Facts[p.card].model /\ p.mem \leq Facts[p.card].mem
    BY <2>1, <2>2, <2>3, <2>4, PublishOwn DEF OwnInv
  <2> QED
    BY <1>00, <2>1, <2>4, <2>5 DEF OwnInv, NumbersAreOwn, CapacityIsReal, Describes
<1>7. CASE /\ UNCHANGED <<tree, slices, sound, sameCards>> /\ step' # "ram"
           /\ nics' \in {nics, {}} /\ inv' \in {inv, {}} /\ last' \in {last, NoSystem}
  BY <1>00, <1>7 DEF OwnInv, NumbersAreOwn, CapacityIsReal, Describes
<1>8. CASE UNCHANGED <<tree, slices, sound, sameCards, sameWalk, step, nics, inv, last>>
  BY <1>00, <1>8 DEF OwnInv, NumbersAreOwn, CapacityIsReal, Describes
<1>9. Boot \/ Wake \/ CycleFails \/ Dies
        => /\ UNCHANGED <<tree, slices, sound, sameCards>> /\ step' # "ram"
           /\ nics' \in {nics, {}} /\ inv' \in {inv, {}} /\ last' \in {last, NoSystem}
  BY DEF Boot, Wake, CycleFails, Dies, envVars, detectorVars
<1>10. Plugin \/ Transport \/ (\E c \in box : LlmfitView(c))
         => UNCHANGED <<tree, slices, sound, sameCards, sameWalk, step, nics, inv, last>>
  BY DEF Plugin, Allocated, Lookup, DeviceMissing, WriteSpec, Transport, LlmfitView, envVars,
         cycleVars, detectorVars
<1> QED
  BY <1>1, <1>2, <1>3, <1>4, <1>5, <1>6, <1>7, <1>8, <1>9, <1>10
  DEF Next, Cycle, Disturbance, vars, envVars, cycleVars, detectorVars

LEMMA OwnAlways == Spec /\ NoStrayGPU => []OwnInv
<1>1. Init /\ NoStrayGPU => OwnInv
  BY DEF Init, InitDetector, OwnInv, GPUsOnce, gpus, NumbersAreOwn, CapacityIsReal
<1> QED
  BY <1>1, OwnStays, Invariance, PTL DEF Spec

(* publisher.go:278-320: on a machine where no card can be taken for a GPU *)
(* that only llmfit sees, none is published with another model's numbers,  *)
(* whichever GPUs llmfit fails to report.                                  *)
THEOREM NumbersStayOwn == Spec /\ NoStrayGPU => []NumbersAreOwn
<1>1. OwnInv => NumbersAreOwn
  BY DEF OwnInv
<1> QED
  BY <1>1, OwnAlways, PTL

(* publisher.go:233-253: on such a machine no card is published with more  *)
(* memory than it has.                                                     *)
THEOREM CapacityStaysReal == Spec /\ NoStrayGPU => []CapacityIsReal
<1>1. OwnInv => CapacityIsReal
  BY DEF OwnInv
<1> QED
  BY <1>1, OwnAlways, PTL

-----------------------------------------------------------------------------
(* What is published of a GPU from one reading to the next.                *)

(* A card of the drm class that is a PCI function of its own, as a USB     *)
(* display adapter is not.                                                 *)
OwnFunction(c) ==
    /\ Facts[c].addr # NoAddr
    /\ \A e \in box : "drm" \in Facts[e].faces /\ Facts[e].addr = Facts[c].addr => e = c

(* What llmfit may describe is such a card.                                *)
OneCardPerFunction ==
    \A c \in box : "drm" \in Facts[c].faces =>
        \/ OwnFunction(c)
        \/ \A g \in box : Facts[g].gpu
                          => Price[Facts[g].model].vendor \notin {Facts[c].vendor, ""}

(* A reading's entries are models of the machine's GPUs.                   *)
FromBox(sys) == \A m \in DOMAIN sys : \E g \in box : Facts[g].gpu /\ Facts[g].model = m

(* Walks with the same names of GPUs have the same cards, but for those    *)
(* that share a function.                                                  *)
LEMMA SameNamesSameCards ==
    ASSUME NEW D, NEW E, GPUsOnce(D), GPUsOnce(E),
           names(gpus(D)) = names(gpus(E)), NEW d \in gpus(D), OwnFunction(d.card)
    PROVE  \E e \in gpus(E) : e.card = d.card
<1>1. Name(d) \in names(gpus(E))
  BY DEF names
<1>2. PICK e \in gpus(E) : Name(e) = Name(d)
  BY <1>1 DEF names
<1>3. Facts[e.card].addr = Facts[d.card].addr
  BY <1>2 DEF Name, OwnFunction
<1> QED
  BY <1>3 DEF OwnFunction, GPUsOnce

(* Walks with the same cards have as many GPUs, of every vendor.           *)
LEMMA SameCardsSameCount ==
    ASSUME NEW S, NEW T, IsFiniteSet(S),
           \A d, e \in S : d.card = e.card => d = e,
           \A d, e \in T : d.card = e.card => d = e,
           \A d \in S : \E e \in T : e.card = d.card,
           \A e \in T : \E d \in S : e.card = d.card
    PROVE  Cardinality(S) = Cardinality(T)
<1> DEFINE f == [d \in S |-> CHOOSE e \in T : e.card = d.card]
<1>1. \A d \in S : f[d] \in T /\ f[d].card = d.card
  OBVIOUS
<1>2. f \in [S -> T]
  BY <1>1
<1>3. \A d, e \in S : f[d] = f[e] => d = e
  BY <1>1
<1>4. \A e \in T : \E d \in S : f[d] = e
  BY <1>1
<1> HIDE DEF f
<1>5. f \in Bijection(S, T)
  BY <1>2, <1>3, <1>4 DEF Bijection, Injection, Surjection, IsInjective
<1> QED
  BY <1>5, FS_Bijection DEF ExistsBijection

(* An entry that is paired is one of the reading's.                        *)
LEMMA MatchListed ==
    ASSUME NEW sys, NEW d, NEW D, matchLLMFitGPU(sys, d, D) # NoModel
    PROVE  sys # NoSystem /\ matchLLMFitGPU(sys, d, D) \in DOMAIN sys
<1> DEFINE same == {m \in DOMAIN sys : Price[m].vendor = Facts[d.card].vendor}
<1>1. CASE Cardinality(same) = 1
  <2>1. same # {}
    BY <1>1, FS_EmptySet
  <2> QED
    BY <1>1, <2>1 DEF matchLLMFitGPU
<1>2. CASE Cardinality(same) # 1
  <2>1. Cardinality(DOMAIN sys) = 1 => DOMAIN sys # {}
    BY FS_EmptySet
  <2> QED
    BY <1>2, <2>1 DEF matchLLMFitGPU
<1> QED
  BY <1>1, <1>2

(* What is paired has a function of its own, and so have the cards that    *)
(* the pairing counts.                                                     *)
LEMMA PairedApart ==
    ASSUME OneCardPerFunction, NEW D, GPUsOnce(D), NEW d \in gpus(D),
           NEW sys, sys # NoSystem => FromBox(sys), NEW m, m = matchLLMFitGPU(sys, d, D),
           m # NoModel
    PROVE  /\ m \in DOMAIN sys /\ Price[m].vendor \in {Facts[d.card].vendor, ""}
           /\ OwnFunction(d.card)
           /\ \A c \in box : /\ "drm" \in Facts[c].faces
                             /\ Price[m].vendor \in {Facts[c].vendor, ""}
                             => OwnFunction(c)
<1> DEFINE same == {k \in DOMAIN sys : Price[k].vendor = Facts[d.card].vendor}
<1>1. sys # NoSystem /\ m \in DOMAIN sys
  BY MatchListed
<1>2. Price[m].vendor \in {Facts[d.card].vendor, ""}
  <2>1. CASE Cardinality(same) = 1
    <3>1. same # {}
      BY <2>1, OneIsSome, Zenon
    <3> QED
      BY <2>1, <3>1 DEF matchLLMFitGPU
  <2>2. CASE Cardinality(same) # 1
    BY <2>2 DEF matchLLMFitGPU
  <2> QED
    BY <2>1, <2>2
<1>3. ASSUME NEW c \in box, "drm" \in Facts[c].faces, Price[m].vendor \in {Facts[c].vendor, ""}
      PROVE  OwnFunction(c)
  <2>1. PICK g \in box : Facts[g].gpu /\ Facts[g].model = m
    BY <1>1 DEF FromBox
  <2> QED
    BY <1>3, <2>1 DEF OneCardPerFunction
<1>4. OwnFunction(d.card)
  BY <1>2, <1>3 DEF GPUsOnce
<1> QED
  BY <1>1, <1>2, <1>3, <1>4

LEMMA SameMatch ==
    ASSUME OneCardPerFunction, NEW D, NEW E, Placed(D), Placed(E), GPUsOnce(D), GPUsOnce(E),
           names(gpus(D)) = names(gpus(E)), NEW d \in gpus(D), NEW e \in gpus(E),
           d.card = e.card, NEW sys, sys # NoSystem => FromBox(sys),
           matchLLMFitGPU(sys, d, D) # NoModel
    PROVE  matchLLMFitGPU(sys, d, D) = matchLLMFitGPU(sys, e, E)
<1> DEFINE v == Facts[d.card].vendor
           same == {m \in DOMAIN sys : Price[m].vendor = v}
           m == matchLLMFitGPU(sys, d, D)
<1>1. /\ m \in DOMAIN sys /\ Price[m].vendor \in {v, ""}
      /\ \A c \in box : "drm" \in Facts[c].faces /\ Price[m].vendor \in {Facts[c].vendor, ""}
                        => OwnFunction(c)
  BY PairedApart
<1>2. d.kind = "gpu" /\ e.kind = "gpu" /\ sys # NoSystem
  BY DEF gpus, matchLLMFitGPU
<1>3. CASE Cardinality(same) = 1
  <2>1. m \in same
    <3>1. same # {}
      BY <1>3, OneIsSome, Zenon
    <3> QED
      BY <1>2, <1>3, <3>1 DEF matchLLMFitGPU
  <2>2. \A x \in sameVendor(D, v) \union sameVendor(E, v) : OwnFunction(x.card)
    BY <1>1, <2>1 DEF sameVendor, GPUsOnce
  <2>3. sameVendor(D, v) \subseteq gpus(D) /\ sameVendor(E, v) \subseteq gpus(E)
    BY DEF sameVendor
  <2>4. /\ \A x \in sameVendor(D, v) : \E y \in sameVendor(E, v) : y.card = x.card
        /\ \A y \in sameVendor(E, v) : \E x \in sameVendor(D, v) : y.card = x.card
    <3>1. ASSUME NEW x \in sameVendor(D, v) PROVE \E y \in sameVendor(E, v) : y.card = x.card
      <4>1. PICK y \in gpus(E) : y.card = x.card
        BY <2>2, <2>3, SameNamesSameCards
      <4> QED
        BY <4>1 DEF sameVendor
    <3>2. ASSUME NEW y \in sameVendor(E, v) PROVE \E x \in sameVendor(D, v) : y.card = x.card
      <4>1. PICK x \in gpus(D) : x.card = y.card
        BY <2>2, <2>3, SameNamesSameCards
      <4> QED
        BY <4>1 DEF sameVendor
    <3> QED
      BY <3>1, <3>2
  <2>5. IsFiniteSet(sameVendor(D, v))
    BY FS_Subset, sameVendor(D, v) \in SUBSET D DEF Placed, sameVendor, gpus
  <2>6. Cardinality(sameVendor(D, v)) = Cardinality(sameVendor(E, v))
    BY <2>3, <2>4, <2>5, SameCardsSameCount DEF GPUsOnce
  <2> QED
    BY <1>2, <1>3, <2>6 DEF matchLLMFitGPU
<1>4. CASE Cardinality(same) # 1
  <2>1. Price[m].vendor = ""
    BY <1>2, <1>4 DEF matchLLMFitGPU
  <2>2. \A x \in gpus(D) \union gpus(E) : OwnFunction(x.card)
    BY <1>1, <2>1 DEF GPUsOnce
  <2>3. /\ \A x \in gpus(D) : \E y \in gpus(E) : y.card = x.card
        /\ \A y \in gpus(E) : \E x \in gpus(D) : y.card = x.card
    BY <2>2, SameNamesSameCards
  <2>4. Cardinality(gpus(D)) = Cardinality(gpus(E))
    BY <2>3, SameCardsSameCount, FS_Subset, gpus(D) \in SUBSET D DEF GPUsOnce, Placed, gpus
  <2> QED
    BY <1>2, <1>4, <2>4 DEF matchLLMFitGPU
<1> QED
  BY <1>3, <1>4

(* The names of the GPUs that are published.                               *)
LEMMA BuildGPUNames ==
    ASSUME NEW D, NEW s, NEW v, Placed(D)
    PROVE  {p.name : p \in {p \in BuildDevices(D, s, v) : p.kind = "gpu"}} = names(gpus(D))
<1> DEFINE B == BuildDevices(D, s, v)
<1>1. {p.name : p \in B} = names(D)
  BY BuildNames
<1>2. ASSUME NEW p \in B PROVE \E d \in D : p.name = Name(d) /\ p.kind = d.kind
  <2>1. PICK d \in D : p = Published(d, D, s, v)
    BY DEF BuildDevices
  <2>2. p.name = Name(d) /\ p.kind = d.kind
    BY <2>1 DEF Published
  <2> QED
    BY <2>2
<1>3. ASSUME NEW p \in B, p.kind = "gpu" PROVE p.name \in names(gpus(D))
  BY <1>2, <1>3 DEF names, gpus
<1>4. ASSUME NEW d \in gpus(D) PROVE \E p \in B : p.kind = "gpu" /\ p.name = Name(d)
  <2>1. Name(d) \in {p.name : p \in B}
    BY <1>1 DEF names, gpus
  <2>2. PICK p \in B : p.name = Name(d)
    BY <2>1
  <2>3. p.kind = "gpu"
    BY <1>2, <2>2, NameHasKind DEF gpus
  <2> QED
    BY <2>2, <2>3
<1> HIDE DEF B
<1>5. {p.name : p \in {p \in B : p.kind = "gpu"}} \subseteq names(gpus(D))
  BY <1>3
<1>6. names(gpus(D)) \subseteq {p.name : p \in {p \in B : p.kind = "gpu"}}
  <2> SUFFICES ASSUME NEW d \in gpus(D)
               PROVE  Name(d) \in {p.name : p \in {p \in B : p.kind = "gpu"}}
    BY DEF names
  <2> QED
    BY <1>4
<1> QED
  BY <1>5, <1>6 DEF B

(* What is published was made from this process's reading, or from none    *)
(* because the reading was too old.                                        *)
MadeFrom(D, sys) ==
    /\ Placed(D) /\ GPUsOnce(D)
    /\ slices = BuildDevices(D, sys, vm)
    /\ sys = last \/ (sys = NoSystem /\ age > MaxStale)

FlapInv ==
    /\ OneCardPerFunction /\ GPUsOnce(inv)
    /\ last # NoSystem => FromBox(last)
    /\ last # NoSystem => \E D, sys : MadeFrom(D, sys)

LEMMA FreshFromBox ==
    ASSUME tree.pci \subseteq box, NEW complete
    PROVE  FromBox(Fresh(Reading(complete)))
<1> DEFINE r == Reading(complete)
<1>1. DOMAIN r = {Facts[c].model : c \in {c \in tree.pci \ hidden : Facts[c].gpu}}
  BY DEF Reading
<1>2. DOMAIN Fresh(r) = DOMAIN r
  <2> HIDE DEF r
  <2> QED
    BY DEF Fresh, backfillBandwidth
<1> HIDE DEF r
<1>3. FromBox(Fresh(r))
  BY <1>1, <1>2 DEF FromBox
<1> QED
  BY <1>3 DEF r

LEMMA FlapStays == IndInv /\ FlapInv /\ [Next]_vars => FlapInv'
<1> SUFFICES ASSUME IndInv, FlapInv, [Next]_vars PROVE FlapInv'
  OBVIOUS
<1>0. /\ TypeOK /\ TreeTyped /\ WalksPlaced /\ Shown(tree) /\ tree.pci \subseteq box
      /\ DetectorTypeOK
  BY DEF IndInv, TypeOK, FabricInv
<1>1. box' = box /\ vm' = vm
  BY DEF Next, Cycle, Boot, Wake, WalkFabric, WalkRest, DetectAndPublish, DetectFails, Publish,
         Plugin, Allocated, Lookup, DeviceMissing, WriteSpec, Disturbance, Unplug, Plug, Fails,
         TreeChanges, LlmfitView, Transport, CycleFails, Dies, vars, envVars, cycleVars
<1>2. OneCardPerFunction'
  BY <1>1 DEF FlapInv, OneCardPerFunction, OwnFunction
<1>22. last' \in {last, NoSystem} => (last # NoSystem => FromBox(last))'
  BY <1>1 DEF FlapInv, FromBox
<1>3. \A D : GPUsOnce(D)' <=> GPUsOnce(D)
  BY <1>1 DEF GPUsOnce
<1>4. CASE DetectAndPublish \/ DetectFails
  <2>1. PICK sys : /\ Publish(sys)
                   /\ last' # NoSystem => sys = last' \/ (sys = NoSystem /\ age' > MaxStale)
    <3>1. CASE DetectAndPublish
      BY <3>1 DEF DetectAndPublish
    <3>2. CASE DetectFails
      BY <1>0, <3>2, DetectorAssumption DEF DetectFails, Cached, detectorVars, DetectorTypeOK
    <3> QED
      BY <1>4, <3>1, <3>2
  <2>2. inv' = inv /\ slices' = BuildDevices(inv, sys, vm)
    BY <2>1 DEF Publish
  <2>3. GPUsOnce(inv)'
    BY <1>1, <2>2 DEF FlapInv, GPUsOnce, gpus
  <2>4. last' # NoSystem => MadeFrom(inv, sys)'
    BY <1>0, <1>1, <2>1, <2>2, <2>3 DEF MadeFrom, WalksPlaced, Placed
  <2>5. (last # NoSystem => FromBox(last))'
    <3>1. CASE DetectAndPublish
      <4>1. last' = Fresh(Reading(~(api /\ ApiOmitsBandwidth)))
        BY <3>1 DEF DetectAndPublish
      <4> QED
        BY <1>0, <1>1, <4>1, FreshFromBox DEF FromBox
    <3>2. CASE DetectFails
      BY <1>22, <3>2 DEF DetectFails, detectorVars
    <3> QED
      BY <1>4, <3>1, <3>2
  <2> QED
    BY <1>2, <2>3, <2>4, <2>5 DEF FlapInv
<1>5. ASSUME last' # NoSystem => last' = last /\ (age' = age \/ IntervalPasses),
             slices' = slices
      PROVE  (last # NoSystem => \E D, sys : MadeFrom(D, sys))'
  <2> SUFFICES ASSUME last' # NoSystem PROVE \E D, sys : MadeFrom(D, sys)'
    OBVIOUS
  <2>1. last' = last /\ last # NoSystem
    BY <1>5
  <2>2. PICK D, sys : MadeFrom(D, sys)
    BY <2>1 DEF FlapInv
  <2>3. age > MaxStale => age' > MaxStale
    BY <1>5, DetectorAssumption DEF IntervalPasses
  <2>4. MadeFrom(D, sys)'
    BY <1>1, <1>3, <1>5, <2>1, <2>2, <2>3 DEF MadeFrom, Placed
  <2> QED
    BY <2>4
<1>6. CASE WalkRest
  <2>1. inv' = Walk(tree, nics) /\ UNCHANGED <<slices, last, age>>
    BY <1>6 DEF WalkRest, detectorVars
  <2>2. GPUsOnce(inv')
    BY <1>0, <2>1, WalkGPUsOnce DEF TreeTyped, WalksPlaced
  <2>3. GPUsOnce(inv)'
    BY <1>1, <2>2 DEF GPUsOnce, gpus
  <2> QED
    BY <1>2, <1>22, <1>5, <2>1, <2>3 DEF FlapInv
<1>7. CASE /\ last' # NoSystem => last' = last /\ (age' = age \/ IntervalPasses)
           /\ slices' = slices /\ inv' \in {inv, {}}
  <2>1. GPUsOnce(inv)'
    BY <1>1, <1>7 DEF FlapInv, GPUsOnce, gpus
  <2>2. last' \in {last, NoSystem}
    BY <1>7
  <2> QED
    BY <1>2, <1>22, <1>5, <1>7, <2>1, <2>2 DEF FlapInv
<1>8. Boot \/ Wake \/ WalkFabric \/ CycleFails
        => /\ last' = last /\ (age' = age \/ IntervalPasses) /\ slices' = slices /\ inv' = inv
  BY DEF Boot, Wake, WalkFabric, CycleFails, detectorVars
<1>9. Dies => last' = NoSystem /\ slices' = slices /\ inv' = {}
  BY DEF Dies
<1>10. Plugin \/ (\E c \in box : Unplug(c) \/ Plug(c) \/ Fails(c) \/ LlmfitView(c)) \/ Transport
         => last' = last /\ age' = age /\ slices' = slices /\ inv' = inv
  BY DEF Plugin, Allocated, Lookup, DeviceMissing, WriteSpec, Unplug, Plug, Fails, TreeChanges,
         LlmfitView, Transport, cycleVars, detectorVars
<1> QED
  BY <1>4, <1>6, <1>7, <1>8, <1>9, <1>10
  DEF Next, Cycle, Disturbance, vars, cycleVars, detectorVars

(* A new reading keeps the bandwidths of the one before it.                *)
LEMMA FreshKeeps ==
    ASSUME DetectorTypeOK, last # NoSystem, NEW r,
           r \in [DOMAIN r -> [count : Nat, bw : BOOLEAN]],
           NEW m \in DOMAIN Fresh(r), m \in DOMAIN last, last[m].bw
    PROVE  Fresh(r)[m].bw
<1>1. Fresh(r) = [k \in DOMAIN r |->
                    [r[k] EXCEPT !.bw = @ \/ (k \in DOMAIN last /\ last[k].bw)]]
  BY DEF Fresh, backfillBandwidth
<1>2. m \in DOMAIN r /\ r[m] \in [count : Nat, bw : BOOLEAN]
  BY <1>1
<1>3. Fresh(r)[m].bw = (r[m].bw \/ (m \in DOMAIN last /\ last[m].bw))
  BY <1>1, <1>2
<1> QED
  BY <1>3, Zenon

(* A GPU that llmfit described stays described, from the same reading and  *)
(* with the same GPUs; and its bandwidth stays from reading to reading.    *)
LEMMA PublishDoesNotFlap ==
    ASSUME IndInv, FlapInv, last # NoSystem, NEW sys, slices' = BuildDevices(inv, sys, vm),
           \/ \E r : /\ sys = Fresh(r) /\ last' = sys
                    /\ r \in [DOMAIN r -> [count : Nat, bw : BOOLEAN]]
           \/ sys = Cached /\ last' = last,
           NEW p \in slices, NEW q \in slices', p.name = q.name, p.kind = "gpu",
           p.source = "llmfit"
    PROVE  /\ q.source # "llmfit" => gpuNames' # gpuNames \/ last' # last \/ age > MaxStale
           /\ q.source = "llmfit" /\ q.model = p.model /\ p.bw => q.bw
<1>1. PICK D, s : MadeFrom(D, s)
  BY DEF FlapInv
<1>2. /\ Placed(D) /\ GPUsOnce(D) /\ Placed(inv) /\ GPUsOnce(inv)
      /\ slices = BuildDevices(D, s, vm) /\ (s = last \/ s = NoSystem)
  BY <1>1 DEF MadeFrom, IndInv, WalksPlaced, FlapInv
<1>3. PICK d \in D : p = Published(d, D, s, vm)
  BY <1>2 DEF BuildDevices
<1>4. PICK e \in inv : q = Published(e, inv, sys, vm)
  BY DEF BuildDevices
<1> DEFINE lf == matchLLMFitGPU(s, d, D)
           lg == matchLLMFitGPU(sys, e, inv)
<1>5. d \in gpus(D) /\ e \in gpus(inv) /\ Name(d) = Name(e)
  <2>1. p.name = Name(d) /\ p.kind = d.kind /\ q.name = Name(e)
    BY <1>3, <1>4 DEF Published
  <2> QED
    BY <2>1, NameHasKind DEF gpus
<1>7. d.kind = "gpu" /\ e.kind = "gpu"
  BY <1>5 DEF gpus
<1>8. lf # NoModel /\ p.model = lf
  BY <1>3, <1>7 DEF Published
<1>9. s # NoSystem /\ s = last
  BY <1>2, <1>8 DEF matchLLMFitGPU
<1>6. d.card = e.card
  <2>1. OwnFunction(d.card)
    BY <1>2, <1>5, <1>8, <1>9, PairedApart DEF FlapInv
  <2>2. Facts[d.card].addr = Facts[e.card].addr
    BY <1>5, <2>1 DEF Name, OwnFunction
  <2> QED
    BY <1>2, <1>5, <2>1, <2>2 DEF OwnFunction, GPUsOnce
<1>10. ASSUME q.source # "llmfit", gpuNames' = gpuNames, last' = last, ~(age > MaxStale)
       PROVE  FALSE
  <2>1. sys = last
    BY <1>10, DetectorAssumption DEF Cached, IndInv, TypeOK, DetectorTypeOK
  <2>2. names(gpus(D)) = gpuNames /\ names(gpus(inv)) = gpuNames'
    BY <1>2, BuildGPUNames DEF gpuNames
  <2>3. lg = lf
    BY <1>2, <1>5, <1>6, <1>8, <1>9, <1>10, <2>1, <2>2, SameMatch DEF FlapInv
  <2>4. lg = NoModel
    BY <1>4, <1>7, <1>10 DEF Published
  <2> QED
    BY <1>8, <2>3, <2>4
<1>11. ASSUME q.source = "llmfit", q.model = p.model, p.bw PROVE q.bw
  <2>1. lg # NoModel /\ q.model = lg
    BY <1>4, <1>7, <1>11 DEF Published
  <2>2. lg = lf
    BY <1>8, <1>11, <2>1
  <2>3. lf \in DOMAIN last
    BY <1>8, <1>9, MatchListed
  <2>4. lg \in DOMAIN sys /\ sys # NoSystem
    BY <2>1, MatchListed
  <2> DEFINE known == d.kind \in {"gpu", "npu"} /\ Facts[d.card].model \in DOMAIN Index
                        /\ Index[Facts[d.card].model].bw
  <2>5. p.bw <=> (lf # NoModel /\ last[lf].bw) \/ known
    BY <1>3, <1>9 DEF Published
  <2>6. q.bw <=> (lg # NoModel /\ sys[lg].bw) \/ known
    BY <1>4, <1>6, <1>7 DEF Published
  <2>7. last[lf].bw => sys[lf].bw
    BY <2>2, <2>3, <2>4, FreshKeeps DEF Cached, IndInv, TypeOK
  <2> HIDE DEF lf, lg, known
  <2> QED
    BY <1>8, <1>11, <2>1, <2>2, <2>5, <2>6, <2>7, Zenon
<1> QED
  BY <1>10, <1>11

LEMMA FlapAlways == Spec /\ OneCardPerFunction => []FlapInv
<1>1. Init /\ OneCardPerFunction => FlapInv
  BY DEF Init, InitDetector, FlapInv, GPUsOnce, gpus
<1> QED
  BY <1>1, FlapStays, Invariance, PTL DEF Spec

(* detector.go:14-19 and 91-99: on a machine where the cards that llmfit   *)
(* may describe are PCI functions of their own, what it says of a GPU is   *)
(* not lost to an outage within the limit, nor its bandwidth to a change   *)
(* of transport.                                                           *)
THEOREM FactsStay == Spec /\ OneCardPerFunction => FactsDoNotFlap
<1> DEFINE Steady ==
             \A p \in slices, q \in slices' :
                p.name = q.name /\ p.kind = "gpu" /\ p.source = "llmfit" =>
                /\ q.source # "llmfit" =>
                      gpuNames' # gpuNames \/ last' # last \/ age > MaxStale \/ last = NoSystem
                /\ q.source = "llmfit" /\ q.model = p.model /\ p.bw => q.bw \/ last = NoSystem
<1>1. IndInv /\ FlapInv /\ [Next]_vars => [Steady]_vars
  <2> SUFFICES ASSUME IndInv, FlapInv, [Next]_vars PROVE Steady
    BY Zenon
  <2>1. CASE slices' = slices
    BY <2>1 DEF IndInv, PoolAccepted
  <2>2. CASE DetectAndPublish \/ DetectFails
    <3>1. PICK sys : /\ slices' = BuildDevices(inv, sys, vm)
                     /\ \/ \E r : /\ sys = Fresh(r) /\ last' = sys
                                 /\ r \in [DOMAIN r -> [count : Nat, bw : BOOLEAN]]
                        \/ sys = Cached /\ last' = last
      BY <2>2, ReadingTyped DEF IndInv, DetectAndPublish, DetectFails, Publish, detectorVars
    <3> QED
      BY <3>1, PublishDoesNotFlap
  <2> QED
    BY <2>1, <2>2
    DEF Next, Cycle, Boot, Wake, WalkFabric, WalkRest, Plugin, Allocated, Lookup, DeviceMissing,
        WriteSpec, Disturbance, Unplug, Plug, Fails, TreeChanges, LlmfitView, Transport,
        CycleFails, Dies, vars, cycleVars
<1> QED
  BY <1>1, FlapAlways, Invariance, PTL DEF Spec, FactsDoNotFlap

-----------------------------------------------------------------------------
(* Device nodes.                                                           *)

(* A device's nodes beside the node-global ones.                           *)
own(d) == {d.render, d.node} \ {NoNode}

HasNodes(d) ==
    CASE d.kind = "gpu" -> /\ d.node \in {"card"} \X Nat
                           /\ d.render \in ({"render"} \X Nat) \union {NoNode}
                           /\ Facts[d.card].driver \in preparableGPUDrivers => d.render # NoNode
      [] d.kind = "npu" -> d.node \in {"accel"} \X Nat /\ d.render = NoNode
      [] d.kind = "nic" -> d.node = uverbsNode(tree, d.card) /\ d.render = NoNode /\ d.card \in Cards
      [] d.kind = "cpu" -> d.node = NoNode /\ d.render = NoNode
      [] OTHER -> FALSE

(* No two devices of a walk share a node of their own.                     *)
Apart(D) ==
    /\ \A d \in D : HasNodes(d)
    /\ \A d, e \in D : d # e => own(d) \intersect own(e) = {}

LEMMA NodesNamed ==
    /\ \A m \in Nat : <<"card", m>> # NoNode /\ <<"render", m>> # NoNode /\ <<"accel", m>> # NoNode
    /\ \A c \in Cards : <<"uverbs", c>> # NoNode
<1>1. NoNode \notin {"card", "render", "accel", "uverbs"} \X (Nat \union Cards)
  BY ProbeAssumption
<1> QED
  BY <1>1

(* Devices of two kinds have different nodes.                              *)
LEMMA KindsApart ==
    ASSUME NEW d, NEW e, HasNodes(d), HasNodes(e), d.kind # e.kind
    PROVE  own(d) \intersect own(e) = {}
<1> DEFINE Of(k) == CASE k = "gpu" -> {"card", "render"} [] k = "npu" -> {"accel"}
                      [] k = "nic" -> {"uverbs"} [] OTHER -> {}
<1>1. \A x : HasNodes(x) => \A n \in own(x) : n[1] \in Of(x.kind)
  BY DEF HasNodes, own, uverbsNode
<1>2. d.kind \in {"gpu", "npu", "nic", "cpu"} /\ e.kind \in {"gpu", "npu", "nic", "cpu"}
  BY DEF HasNodes
<1>3. Of(d.kind) \intersect Of(e.kind) = {}
  BY <1>2
<1> HIDE DEF Of
<1> QED
  BY <1>1, <1>3

LEMMA RenderOf ==
    ASSUME NEW t \in Tree, Shown(t), NEW c \in t.pci
    PROVE  /\ renderNode(t, c) # NoNode
              => \E k \in Nat : renderNode(t, c) = <<"render", k>> /\ t.rnd[k] = c
           /\ "rnd" \in Facts[c].faces => renderNode(t, c) # NoNode
<1>1. t.rnd \in Class /\ c \in Cards /\ c # NoCard
  BY ProbeAssumption DEF Tree
<1>2. PICK n \in Nat : t.rnd \in [1 .. n -> Cards \union {NoCard}]
  BY <1>1, SeqDef DEF Class
<1>3. CASE \E m \in DOMAIN t.rnd : t.rnd[m] = c
  <2> DEFINE k == CHOOSE m \in DOMAIN t.rnd : t.rnd[m] = c
  <2>1. k \in DOMAIN t.rnd /\ t.rnd[k] = c
    BY <1>3
  <2>2. renderNode(t, c) = <<"render", k>>
    BY <1>3 DEF renderNode
  <2> HIDE DEF k
  <2>3. k \in Nat
    BY <1>2, <2>1
  <2> QED
    BY <2>1, <2>2, <2>3, NodesNamed
<1>4. CASE ~\E m \in DOMAIN t.rnd : t.rnd[m] = c
  <2>1. "rnd" \notin Facts[c].faces
    <3> SUFFICES ASSUME "rnd" \in Facts[c].faces PROVE FALSE
      OBVIOUS
    <3>1. c \in {t.rnd[m] : m \in entries(t.rnd)}
      BY DEF Shown, Lists
    <3> QED
      BY <1>4, <3>1 DEF entries
  <2> QED
    BY <1>4, <2>1 DEF renderNode
<1> QED
  BY <1>3, <1>4

LEMMA GPUsApart ==
    ASSUME NEW t \in Tree, Shown(t)
    PROVE  Apart(walkClass(t, t.drm, "gpu"))
<1> DEFINE S == entries(t.drm)
           dev(m) == Device("gpu", position(m, S), t.drm[m], <<"card", m>>,
                            renderNode(t, t.drm[m]), t)
<1>1. \A d \in walkClass(t, t.drm, "gpu") : \E m \in S : d = dev(m)
  BY DEF walkClass
<1>2. \A m \in S : /\ dev(m).kind = "gpu" /\ dev(m).card = t.drm[m] /\ dev(m).node = <<"card", m>>
                   /\ dev(m).render = renderNode(t, t.drm[m])
  BY DEF Device
<1>3. \A m \in S : /\ m \in Nat /\ t.drm[m] \in Cards /\ t.drm[m] \in t.pci
                   /\ "drm" \in Facts[t.drm[m]].faces
  BY EntriesFinite DEF Tree, Shown, Lists
<1>4. \A m, n \in S : t.drm[m] = t.drm[n] => m = n
  BY DEF Shown, Lists
<1> HIDE DEF dev, S
<1>5. ASSUME NEW m \in S PROVE HasNodes(dev(m))
  <2>1. dev(m).node \in {"card"} \X Nat
    BY <1>2, <1>3
  <2>2. dev(m).render \in ({"render"} \X Nat) \union {NoNode}
    BY <1>2, <1>3, RenderOf
  <2>3. Facts[t.drm[m]].driver \in preparableGPUDrivers => dev(m).render # NoNode
    BY <1>2, <1>3, RenderOf, DriversAssumption
  <2> QED
    BY <1>2, <2>1, <2>2, <2>3 DEF HasNodes
<1>6. ASSUME NEW m \in S, NEW n \in S, m # n PROVE own(dev(m)) \intersect own(dev(n)) = {}
  <2>1. <<"card", m>> # <<"card", n>>
    BY <1>6
  <2>2. \A k \in Nat : <<"render", k>> # <<"card", m>> /\ <<"render", k>> # <<"card", n>>
    OBVIOUS
  <2>3. ASSUME renderNode(t, t.drm[m]) # NoNode, renderNode(t, t.drm[m]) = renderNode(t, t.drm[n])
        PROVE  FALSE
    <3>1. PICK j \in Nat : renderNode(t, t.drm[m]) = <<"render", j>> /\ t.rnd[j] = t.drm[m]
      BY <1>3, <2>3, RenderOf
    <3>2. PICK k \in Nat : renderNode(t, t.drm[n]) = <<"render", k>> /\ t.rnd[k] = t.drm[n]
      BY <1>3, <2>3, RenderOf
    <3>3. <<"render", j>> = <<"render", k>>
      BY <2>3, <3>1, <3>2, Zenon
    <3>4. j = k
      BY <3>3
    <3> QED
      BY <1>4, <1>6, <3>1, <3>2, <3>4
  <2>4. \A x \in S : dev(x).render = NoNode \/ \E k \in Nat : dev(x).render = <<"render", k>>
    BY <1>2, <1>3, RenderOf
  <2> QED
    BY <1>2, <2>1, <2>2, <2>3, <2>4 DEF own
<1> QED
  BY <1>1, <1>5, <1>6 DEF Apart

LEMMA NPUsApart ==
    ASSUME NEW t \in Tree
    PROVE  Apart(walkClass(t, t.accel, "npu"))
<1> DEFINE S == entries(t.accel)
           dev(m) == Device("npu", position(m, S), t.accel[m], <<"accel", m>>, NoNode, t)
<1>1. \A d \in walkClass(t, t.accel, "npu") : \E m \in S : d = dev(m)
  BY DEF walkClass
<1>2. \A m \in S : dev(m).kind = "npu" /\ dev(m).node = <<"accel", m>> /\ dev(m).render = NoNode
  BY DEF Device
<1>3. \A m \in S : m \in Nat
  BY EntriesFinite DEF Tree
<1> HIDE DEF dev, S
<1>4. \A m \in S : HasNodes(dev(m)) /\ own(dev(m)) \subseteq {<<"accel", m>>}
  BY <1>2, <1>3 DEF HasNodes, own
<1>5. \A m, n \in S : m # n => own(dev(m)) \intersect own(dev(n)) = {}
  BY <1>4
<1> QED
  BY <1>1, <1>4, <1>5 DEF Apart

LEMMA NICsApart ==
    ASSUME NEW t \in Tree, Shown(t), t.verbs = tree.verbs
    PROVE  Apart(walkInfiniband(t))
<1> DEFINE S == firstEntries(t.ib)
           dev(i) == Device("nic", position(i, S), t.ib[i], uverbsNode(t, t.ib[i]), NoNode, t)
<1>1. \A d \in walkInfiniband(t) : \E i \in S : d = dev(i)
  BY DEF walkInfiniband
<1>2. \A i \in S : /\ dev(i).kind = "nic" /\ dev(i).card = t.ib[i]
                   /\ dev(i).node = uverbsNode(t, t.ib[i]) /\ dev(i).render = NoNode
  BY DEF Device
<1>3. \A i, j \in S : t.ib[i] \in Cards /\ (t.ib[i] = t.ib[j] => i = j)
  BY EntriesFinite DEF Tree, Shown, Lists, firstEntries
<1> HIDE DEF dev, S
<1>4. \A i \in S : HasNodes(dev(i)) /\ own(dev(i)) \subseteq {<<"uverbs", t.ib[i]>>}
  BY <1>2, <1>3 DEF HasNodes, own, uverbsNode
<1>5. \A i, j \in S : i # j => own(dev(i)) \intersect own(dev(j)) = {}
  BY <1>3, <1>4
<1> QED
  BY <1>1, <1>4, <1>5 DEF Apart

LEMMA WalkApart ==
    ASSUME NEW t \in Tree, Shown(t), NEW N, Apart(N), \A d \in N : d.kind = "nic"
    PROVE  Apart(Walk(t, N))
<1> DEFINE gpu == walkClass(t, t.drm, "gpu")
           npu == walkClass(t, t.accel, "npu")
<1>1. Apart(gpu) /\ \A d \in gpu : d.kind = "gpu"
  BY GPUsApart DEF walkClass, Device
<1>2. Apart(npu) /\ \A d \in npu : d.kind = "npu"
  BY NPUsApart DEF walkClass, Device
<1>3. Apart({cpuDevice(t)}) /\ cpuDevice(t).kind = "cpu"
  BY DEF Apart, HasNodes, cpuDevice, Device
<1>4. Walk(t, N) \subseteq {cpuDevice(t)} \union N \union gpu \union npu
  BY DEF Walk, dropFabricFunctions
<1> HIDE DEF gpu, npu
<1>5. \A d \in Walk(t, N) : HasNodes(d)
  BY <1>1, <1>2, <1>3, <1>4 DEF Apart
<1>6. ASSUME NEW d \in Walk(t, N), NEW e \in Walk(t, N), d # e, d.kind = e.kind
      PROVE  own(d) \intersect own(e) = {}
  BY <1>1, <1>2, <1>3, <1>4, <1>6 DEF Apart
<1> QED
  BY <1>5, <1>6, KindsApart DEF Apart

(* What a device brings to a claim whose other devices do not share its    *)
(* nodes.                                                                  *)
Global == {kfd, rdma_cm}

LEMMA EditsOf ==
    ASSUME NEW d, HasNodes(d)
    PROVE  /\ own(d) \subseteq editsFor(d) /\ editsFor(d) \subseteq own(d) \union Global
           /\ own(d) \intersect Global = {}
           /\ d.kind \in {"gpu", "npu"} \/ (d.kind = "nic" /\ tree.verbs) => own(d) # {}
<1>1. own(d) \subseteq editsFor(d) /\ editsFor(d) \subseteq own(d) \union Global
  BY DEF own, editsFor, Global
<1>2. own(d) \intersect Global = {}
  BY DEF HasNodes, own, Global, kfd, rdma_cm, uverbsNode
<1>3. ASSUME d.kind \in {"gpu", "npu"} \/ (d.kind = "nic" /\ tree.verbs) PROVE own(d) # {}
  <2>1. d.node # NoNode
    BY <1>3, NodesNamed DEF HasNodes, uverbsNode
  <2> QED
    BY <2>1 DEF own
<1> QED
  BY <1>1, <1>2, <1>3

NodesApart == Apart(inv) /\ Apart(nics)

PoolUsable ==
    /\ \A p \in slices : /\ p.kind \in {"gpu", "npu", "nic", "cpu"} /\ p.name[1] = p.kind
                         /\ p.kind = "nic" /\ p.healthy => tree.verbs
    /\ paired => \A p \in slices : \E d \in inv :
          /\ Name(d) = p.name
          /\ p.kind = "gpu" /\ ~p.vendorManaged => driver(d) \in preparableGPUDrivers

Brings(e, d) ==
    own(d) # {} /\ own(d) \subseteq e.nodes /\ e.nodes \subseteq own(d) \union Global

ClaimUsable ==
    /\ \A x \in alloc : /\ x.name[1] \in {"gpu", "npu", "nic"}
                        /\ x.name[1] = "nic" => tree.verbs
    /\ \A e \in cdi : e.name \notin todo
    /\ spec # NoSpec => alloc # {} /\ todo = {}
    /\ spec = NoSpec /\ oneInv => \A e \in cdi : Brings(e, lookup(inv, e.name))
    /\ spec # NoSpec /\ oneInv => \A e \in spec.devices : e.nodes \ Global # {}

UseInv == NodesApart /\ PoolUsable /\ ClaimUsable

LEMMA VerbsStay == TreeTyped /\ [Next]_vars => tree'.verbs = tree.verbs
<1> SUFFICES ASSUME TreeTyped, [Next]_vars PROVE tree'.verbs = tree.verbs
  OBVIOUS
<1>1. \A c : Unplug(c) \/ Plug(c) \/ Fails(c) => tree'.verbs = tree.verbs
  BY DEF Unplug, Plug, Fails, TreeTyped, Tree
<1>2. Cycle \/ Plugin \/ Transport \/ CycleFails \/ Dies \/ (\E c \in box : LlmfitView(c))
        => tree' = tree
  BY DEF Cycle, Boot, Wake, WalkFabric, WalkRest, DetectAndPublish, DetectFails, Publish,
         Plugin, Allocated, Lookup, DeviceMissing, WriteSpec, LlmfitView, Transport, CycleFails,
         Dies, envVars
<1> QED
  BY <1>1, <1>2 DEF Next, Disturbance, vars, envVars

LEMMA ApartStays == IndInv /\ NodesApart /\ [Next]_vars => NodesApart'
<1> SUFFICES ASSUME IndInv, NodesApart, [Next]_vars PROVE NodesApart'
  OBVIOUS
<1>0. TreeTyped /\ Shown(tree) /\ \A d \in nics : d.kind = "nic"
  BY DEF IndInv, FabricInv, WalksPlaced
<1>1. \A D : Apart(D)' <=> Apart(D)
  BY <1>0, VerbsStay DEF Apart, HasNodes, uverbsNode
<1>2. Apart({})
  BY DEF Apart
<1>3. CASE WalkFabric
  <2>1. Apart(walkInfiniband(tree))
    BY <1>0, NICsApart DEF TreeTyped
  <2>2. nics' = walkInfiniband(tree) /\ inv' = inv
    BY <1>3 DEF WalkFabric
  <2> QED
    BY <1>1, <2>1, <2>2 DEF NodesApart, Apart
<1>4. CASE WalkRest
  <2>1. Apart(Walk(tree, nics))
    BY <1>0, WalkApart DEF TreeTyped, NodesApart
  <2>2. inv' = Walk(tree, nics) /\ nics' = {}
    BY <1>4 DEF WalkRest
  <2> QED
    BY <1>1, <1>2, <2>1, <2>2 DEF NodesApart, Apart
<1>5. CASE inv' \in {inv, {}} /\ nics' \in {nics, {}}
  BY <1>1, <1>2, <1>5 DEF NodesApart, Apart
<1>6. Boot \/ Wake \/ DetectAndPublish \/ DetectFails \/ Plugin \/ Transport \/ CycleFails \/ Dies
        => inv' \in {inv, {}} /\ nics' \in {nics, {}}
  BY DEF Boot, Wake, DetectAndPublish, DetectFails, Publish, Plugin, Allocated, Lookup,
         DeviceMissing, WriteSpec, Transport, CycleFails, Dies, cycleVars
<1>7. (\E c \in box : Unplug(c) \/ Plug(c) \/ Fails(c) \/ LlmfitView(c))
        => inv' = inv /\ nics' = nics
  BY DEF Unplug, Plug, Fails, LlmfitView, TreeChanges, cycleVars
<1> QED
  BY <1>3, <1>4, <1>5, <1>6, <1>7 DEF Next, Cycle, Disturbance, vars, cycleVars

LEMMA PoolUseStays == IndInv /\ NodesApart /\ PoolUsable /\ [Next]_vars => PoolUsable'
<1> SUFFICES ASSUME IndInv, NodesApart, PoolUsable, [Next]_vars PROVE PoolUsable'
  OBVIOUS
<1>1. tree'.verbs = tree.verbs
  BY VerbsStay DEF IndInv
<1>2. ASSUME NEW sys, Publish(sys) PROVE PoolUsable'
  <2>1. slices' = BuildDevices(inv, sys, vm) /\ inv' = inv
    BY <1>2 DEF Publish
  <2>2. ASSUME NEW p \in slices'
        PROVE  /\ p.kind \in {"gpu", "npu", "nic", "cpu"} /\ p.name[1] = p.kind
               /\ p.kind = "nic" /\ p.healthy => tree.verbs
               /\ \E d \in inv :
                    /\ Name(d) = p.name
                    /\ p.kind = "gpu" /\ ~p.vendorManaged => driver(d) \in preparableGPUDrivers
    <3>1. PICK d \in inv : p = Published(d, inv, sys, vm)
      BY <2>1 DEF BuildDevices
    <3>2. /\ p.kind = d.kind /\ p.name = Name(d)
          /\ p.healthy = Healthy(d) /\ p.vendorManaged = vendorManaged(d, vm)
      BY <3>1 DEF Published
    <3>3. HasNodes(d)
      BY DEF NodesApart, Apart
    <3>4. d.kind \in {"gpu", "npu", "nic", "cpu"} /\ Name(d)[1] = d.kind
      BY <3>3 DEF HasNodes, Name
    <3>5. d.kind = "nic" /\ Healthy(d) => tree.verbs
      BY <3>3 DEF HasNodes, Healthy, uverbsNode
    <3>6. d.kind = "gpu" /\ ~vendorManaged(d, vm) => driver(d) \in preparableGPUDrivers
      BY DEF vendorManaged
    <3> QED
      BY <3>2, <3>4, <3>5, <3>6, Zenon
  <2> QED
    BY <1>1, <2>1, <2>2 DEF PoolUsable
<1>3. CASE slices' = slices /\ ~paired'
  BY <1>1, <1>3 DEF PoolUsable
<1>4. CASE UNCHANGED <<slices, paired, inv>>
  BY <1>1, <1>4 DEF PoolUsable
<1>5. DetectAndPublish \/ DetectFails => \E sys : Publish(sys)
  BY DEF DetectAndPublish, DetectFails
<1>6. WalkRest \/ Dies => slices' = slices /\ ~paired'
  BY DEF WalkRest, Dies
<1>7. Boot \/ Wake \/ WalkFabric \/ CycleFails \/ Plugin \/ Transport
        => UNCHANGED <<slices, paired, inv>>
  BY DEF Boot, Wake, WalkFabric, CycleFails, Plugin, Allocated, Lookup, DeviceMissing, WriteSpec,
         Transport, cycleVars
<1>8. (\E c \in box : Unplug(c) \/ Plug(c) \/ Fails(c) \/ LlmfitView(c))
        => UNCHANGED <<slices, paired, inv>>
  BY DEF Unplug, Plug, Fails, LlmfitView, TreeChanges, cycleVars
<1> QED
  BY <1>2, <1>3, <1>4, <1>5, <1>6, <1>7, <1>8 DEF Next, Cycle, Disturbance, vars, cycleVars

(* A looked-up device brings its own nodes, whatever the claim has already.*)
LEMMA LookupBrings ==
    ASSUME IndInv, NodesApart, ClaimUsable, NEW n \in todo, n \in names(inv), oneInv,
           NEW e \in withEdits(cdi, n, lookup(inv, n))
    PROVE  Brings(e, lookup(inv, e.name))
<1> DEFINE d == lookup(inv, n)
           seen == UNION {x.nodes : x \in cdi}
<1>1. /\ Placed(inv) /\ spec = NoSpec /\ n \in {p.name : p \in alloc}
      /\ \A x \in cdi : x.name \in names(inv) /\ x.name # n /\ Brings(x, lookup(inv, x.name))
  BY DEF IndInv, WalksPlaced, ClaimUsable, TypeOK, ClaimFromInventory
<1>2. d \in inv /\ Name(d) = n /\ HasNodes(d)
  BY <1>1, LookupFinds DEF NodesApart, Apart
<1>3. \A x \in cdi : lookup(inv, x.name) \in inv /\ Name(lookup(inv, x.name)) = x.name
  BY <1>1, LookupFinds
<1> HIDE DEF d
<1>4. \A x \in cdi : own(lookup(inv, x.name)) \intersect own(d) = {}
  BY <1>1, <1>2, <1>3 DEF NodesApart, Apart
<1>5. own(d) # {}
  <2>1. d.kind = n[1]
    BY <1>2 DEF Name
  <2>2. n[1] \in {"gpu", "npu", "nic"} /\ (n[1] = "nic" => tree.verbs)
    BY <1>1 DEF ClaimUsable
  <2> QED
    BY <1>2, <2>1, <2>2, EditsOf
<1>6. own(d) \intersect seen = {}
  BY <1>1, <1>2, <1>4, EditsOf DEF Brings
<1> HIDE DEF seen
<1>7. own(d) \subseteq editsFor(d) \ seen /\ editsFor(d) \ seen \subseteq own(d) \union Global
  BY <1>2, <1>6, EditsOf
<1>8. e \in cdi \/ (e.name = n /\ e.nodes = editsFor(d) \ seen)
  BY DEF withEdits, seen, d
<1> QED
  BY <1>1, <1>5, <1>7, <1>8 DEF Brings, d

LEMMA ClaimUseStays ==
    IndInv /\ NodesApart /\ PoolUsable /\ ClaimUsable /\ [Next]_vars => ClaimUsable'
<1> SUFFICES ASSUME IndInv, NodesApart, PoolUsable, ClaimUsable, [Next]_vars PROVE ClaimUsable'
  OBVIOUS
<1>1. tree'.verbs = tree.verbs
  BY VerbsStay DEF IndInv
<1>2. ASSUME NEW p \in selected, NEW q \in selected, p.kind # "cpu", q.kind # "cpu",
             Allocated({p, q})
      PROVE  ClaimUsable'
  <2>1. alloc = {} /\ UNCHANGED <<cdi, spec>>
    BY <1>2 DEF Allocated
  <2>2. cdi = {} /\ spec = NoSpec
    BY <2>1 DEF IndInv, TypeOK, ClaimUsable
  <2>3. \A r \in {p, q} : r.name[1] \in {"gpu", "npu", "nic"} /\ (r.name[1] = "nic" => tree.verbs)
    BY <1>2 DEF selected, selectable, PoolUsable
  <2>4. \A x \in alloc' : \E r \in {p, q} : x.name = r.name
    BY <1>2 DEF Allocated
  <2> QED
    BY <1>1, <2>1, <2>2, <2>3, <2>4 DEF ClaimUsable
<1>3. ASSUME NEW n \in todo, Lookup(n) PROVE ClaimUsable'
  <2>1. /\ n \in names(inv) /\ cdi' = withEdits(cdi, n, lookup(inv, n)) /\ todo' = todo \ {n}
        /\ UNCHANGED <<inv, alloc, spec, oneInv>>
    BY <1>3 DEF Lookup, cycleVars
  <2>2. spec = NoSpec
    BY DEF ClaimUsable
  <2>3. oneInv => \A e \in cdi' : Brings(e, lookup(inv, e.name))
    BY <2>1, LookupBrings
  <2>4. \A e \in cdi' : e \in cdi \/ e.name = n
    BY <2>1 DEF withEdits
  <2> QED
    BY <1>1, <2>1, <2>2, <2>3, <2>4 DEF ClaimUsable, lookup
<1>4. CASE WriteSpec
  <2>1. /\ spec = NoSpec /\ alloc # {} /\ todo = {} /\ spec'.devices = cdi
        /\ UNCHANGED <<alloc, todo, cdi, oneInv>>
    BY <1>4 DEF WriteSpec
  <2>2. ASSUME oneInv, NEW e \in cdi PROVE e.nodes \ Global # {}
    <3>1. Brings(e, lookup(inv, e.name)) /\ e.name \in names(inv) /\ Placed(inv)
      BY <2>1, <2>2 DEF ClaimUsable, IndInv, ClaimFromInventory, WalksPlaced
    <3>2. HasNodes(lookup(inv, e.name))
      BY <3>1, LookupFinds DEF NodesApart, Apart
    <3> QED
      BY <3>1, <3>2, EditsOf DEF Brings
  <2>3. spec' # NoSpec /\ oneInv' => \A e \in spec'.devices : e.nodes \ Global # {}
    BY <2>1, <2>2
  <2>4. spec' = NoSpec => inv' = inv
    BY <1>4 DEF WriteSpec, cycleVars
  <2> QED
    BY <1>1, <2>1, <2>3, <2>4 DEF ClaimUsable, lookup
<1>5. CASE WalkRest
  <2>1. UNCHANGED <<alloc, todo, cdi, spec>> /\ (oneInv' => oneInv /\ cdi = {})
    <3>1. oneInv' = (oneInv /\ cdi = {}) /\ UNCHANGED <<alloc, todo, cdi, spec>>
      BY <1>5 DEF WalkRest
    <3> QED
      BY <3>1, Zenon
  <2> QED
    BY <1>1, <2>1 DEF ClaimUsable
<1>6. CASE UNCHANGED <<alloc, spec>> /\ spec = NoSpec /\ cdi' = {}
  BY <1>1, <1>6 DEF ClaimUsable
<1>7. CASE UNCHANGED <<alloc, spec, todo, cdi, oneInv>> /\ (spec = NoSpec => inv' = inv)
  BY <1>1, <1>7 DEF ClaimUsable, lookup
<1>8. (\E n \in todo : DeviceMissing(n)) => UNCHANGED <<alloc, spec>> /\ spec = NoSpec /\ cdi' = {}
  BY DEF DeviceMissing, Again, ClaimUsable
<1>9. Dies => \/ UNCHANGED <<alloc, spec>> /\ spec = NoSpec /\ cdi' = {}
              \/ UNCHANGED <<alloc, spec, todo, cdi, oneInv>> /\ spec # NoSpec
  BY DEF Dies, Again
<1>10. Boot \/ Wake \/ WalkFabric \/ CycleFails \/ DetectAndPublish \/ DetectFails \/ Transport
         => UNCHANGED <<alloc, spec, todo, cdi, oneInv, inv>>
  BY DEF Boot, Wake, WalkFabric, CycleFails, DetectAndPublish, DetectFails, Publish, Transport,
         claimVars, cycleVars
<1>11. (\E c \in box : Unplug(c) \/ Plug(c) \/ Fails(c) \/ LlmfitView(c))
         => UNCHANGED <<alloc, spec, todo, cdi, oneInv, inv>>
  BY DEF Unplug, Plug, Fails, LlmfitView, TreeChanges, cycleVars, claimVars
<1>12. CASE Plugin
  BY <1>2, <1>3, <1>4, <1>6, <1>8, <1>12 DEF Plugin
<1> QED
  BY <1>5, <1>6, <1>7, <1>9, <1>10, <1>11, <1>12
  DEF Next, Cycle, Disturbance, vars, cycleVars, claimVars

LEMMA UseAlways == Spec => []UseInv
<1>1. Init => UseInv
  BY DEF Init, UseInv, NodesApart, Apart, PoolUsable, ClaimUsable
<1>2. IndInv /\ UseInv /\ [Next]_vars => UseInv'
  BY ApartStays, PoolUseStays, ClaimUseStays DEF UseInv
<1> QED
  BY <1>1, <1>2, Invariance, PTL DEF Spec

(* publisher.go:221-223 and plugin.go:144-167: what a default class        *)
(* selects can be made usable, and a node that several devices of a claim  *)
(* share is never all that one of them brings.                             *)
THEOREM SelectedIsUsable == Spec => []SelectableIsUsable
<1>1. ASSUME IndInv, UseInv PROVE SelectableIsUsable
  <2>1. ASSUME paired, NEW p \in selected
        PROVE  LET d == lookup(inv, p.name)
               IN  CASE p.kind = "gpu" -> d.render # NoNode /\ {d.render, d.node} \subseteq editsFor(d)
                     [] p.kind = "nic" -> d.node # NoNode /\ {d.node, rdma_cm} \subseteq editsFor(d)
                     [] p.kind = "npu" -> editsFor(d) # {}
                     [] OTHER -> TRUE
    <3> DEFINE d == lookup(inv, p.name)
    <3>1. p \in slices /\ p.healthy /\ ~p.vendorManaged
      BY DEF selected, selectable
    <3>2. p.name \in names(inv) /\ Placed(inv)
      BY <1>1, <2>1, <3>1 DEF IndInv, PoolAccepted, WalksPlaced
    <3>3. d \in inv /\ Name(d) = p.name
      BY <3>2, LookupFinds
    <3> HIDE DEF d
    <3>4. HasNodes(d)
      BY <1>1, <3>3 DEF UseInv, NodesApart, Apart
    <3>5. d.kind = p.kind
      BY <1>1, <3>1, <3>3 DEF UseInv, PoolUsable, Name
    <3>6. p.kind = "gpu" => Facts[d.card].driver \in preparableGPUDrivers
      BY <1>1, <2>1, <3>1, <3>2, <3>3, NameHasDriver DEF UseInv, PoolUsable, driver
    <3>7. p.kind = "gpu" => d.render # NoNode /\ {d.render, d.node} \subseteq editsFor(d)
      BY <3>4, <3>5, <3>6, NodesNamed DEF HasNodes, editsFor
    <3>8. p.kind = "nic" => d.node # NoNode /\ {d.node, rdma_cm} \subseteq editsFor(d)
      <4>1. p.kind = "nic" => tree.verbs
        BY <1>1, <3>1 DEF UseInv, PoolUsable
      <4> QED
        BY <3>4, <3>5, <4>1, NodesNamed DEF HasNodes, editsFor, uverbsNode
    <3>9. p.kind = "npu" => editsFor(d) # {}
      BY <3>4, <3>5, EditsOf
    <3> QED
      BY <3>7, <3>8, <3>9 DEF d
  <2>2. ASSUME spec # NoSpec, oneInv, NEW e \in spec.devices
        PROVE  e.nodes \ {kfd, rdma_cm} # {}
    BY <1>1, <2>2 DEF UseInv, ClaimUsable, Global
  <2> QED
    BY <2>1, <2>2 DEF SelectableIsUsable
<1> QED
  BY <1>1, UseAlways, Invariance, PTL

=============================================================================
