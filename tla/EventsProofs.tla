----------------------------- MODULE EventsProofs ----------------------------
(***************************************************************************)
(* For every set of claims and situations and every limit of the map: no   *)
(* verdict is in a status before an Event was sent for it, and the map of  *)
(* Events sent never outgrows its limit.                                   *)
(***************************************************************************)
EXTENDS Events, FiniteSetTheorems, TLAPS

Reasons ==
    {s.fail : s \in Situations} \union {s.sat : s \in Situations}
    \union {"", "TemplateConflict", "TemplateCreated", "TemplateUpdated"}

Texts == {s.text : s \in Situations} \union {s.bounds : s \in Situations} \union {""}

Letters == [reason : Reasons, text : Texts]

Works == [at : {"idle", "events"}, prev : Reasons, verdict : Reasons, out : Seq(Letters)]

(* The types of everything the proof looks at.                             *)
Typed ==
    /\ world \in [Claims -> Situations]
    /\ DOMAIN tmpl = Claims
    /\ status \in [Claims -> Reasons] /\ cached \in [Claims -> Reasons]
    /\ work \in [Claims -> Works]
    /\ sent \in [Claims -> SUBSET Reasons]
    /\ DOMAIN lastEvent \subseteq Claims \X Reasons

(* A reconcile has at most the template's Event and the verdict's to send. *)
Short == \A c \in Claims : Len(work[c].out) \leq 2

(* The map is within its limit.                                            *)
Bounded == IsFiniteSet(DOMAIN lastEvent) /\ Cardinality(DOMAIN lastEvent) \leq Limit

(* What an Event was sent for, or there is no verdict yet.                 *)
Told(c) == sent[c] \union {""}

(* So far for a status, and for what a reconcile will compare with: the    *)
(* informer's copy, and the map, which suppresses an Event.                *)
StatusTold == \A c \in Claims : status[c] \in Told(c) /\ cached[c] \in Told(c)

MemoryTold == \A k \in DOMAIN lastEvent : k[2] \in sent[k[1]]

(* A reconcile in progress was told of its verdict, or still has to send   *)
(* the Event.                                                              *)
Owed(c) == \E i \in DOMAIN work[c].out : work[c].out[i].reason = work[c].verdict

WorkTold == \A c \in Claims : work[c].at = "events" => work[c].verdict \in Told(c) \/ Owed(c)

IndInv == Typed /\ Short /\ Bounded /\ StatusTold /\ MemoryTold /\ WorkTold

(* No reconcile is in progress, nothing is left to send.                   *)
LEMMA IdleTyped == Idle \in Works /\ Idle.out = <<>> /\ Len(Idle.out) = 0 /\ Idle.at = "idle"
<1>1. <<>> \in Seq(Letters) /\ Len(<<>>) = 0 /\ "" \in Reasons
  BY DEF Reasons
<1> QED
  BY <1>1 DEF Idle, Works

(* An empty map is within any limit.                                       *)
LEMMA EmptyBounded == IsFiniteSet({}) /\ Cardinality({}) \leq Limit
BY FS_EmptySet, EventsAssumption

(* At first nothing was decided, sent or written.                          *)
LEMMA InitIndInv == Init => IndInv
<1> SUFFICES ASSUME Init PROVE IndInv
  OBVIOUS
<1>0. /\ world \in [Claims -> Situations] /\ tmpl = [c \in Claims |-> NoTemplate]
      /\ status = [c \in Claims |-> ""] /\ cached = status
      /\ work = [c \in Claims |-> Idle] /\ sent = [c \in Claims |-> {}]
  BY DEF Init
<1>1. Idle \in Works /\ Idle.out = <<>> /\ Len(Idle.out) = 0 /\ Idle.at = "idle"
  BY IdleTyped
<1>2. DOMAIN lastEvent = {}
  BY DEF Init
<1>3. Bounded
  BY <1>2, EmptyBounded DEF Bounded
<1>4. Typed
  BY <1>0, <1>1, <1>2 DEF Typed, Reasons
<1>5. Short
  <2>1. \A c \in Claims : work[c] = Idle
    BY <1>0
  <2> QED
    BY <1>1, <2>1 DEF Short
<1>6. StatusTold /\ MemoryTold /\ WorkTold
  BY <1>0, <1>1, <1>2 DEF StatusTold, MemoryTold, WorkTold, Told
<1> QED
  BY <1>3, <1>4, <1>5, <1>6 DEF IndInv

(* A reconcile that has just decided has its verdict to send, or the       *)
(* informer's copy shows it already.                                       *)
LEMMA DecidedKeeps ==
    ASSUME IndInv, NEW c \in Claims, NEW verdict \in Reasons, NEW out \in Seq(Letters),
           Len(out) \leq 2, Decided(c, verdict, out), DOMAIN tmpl' = Claims,
           verdict = cached[c] \/ \E i \in DOMAIN out : out[i].reason = verdict
    PROVE  IndInv'
<1> DEFINE r == [at |-> "events", prev |-> cached[c], verdict |-> verdict, out |-> out]
<1> USE DEF IndInv
<1>1. /\ work' = [work EXCEPT ![c] = r]
      /\ UNCHANGED <<world, status, cached, lastEvent, shown, sent, minted>>
  BY DEF Decided
<1>2. r \in Works
  BY DEF Works, Typed
<1>3. r.out = out /\ r.verdict = verdict
  OBVIOUS
<1> HIDE DEF r
<1>4. Typed' /\ Short' /\ Bounded'
  BY <1>1, <1>2, <1>3 DEF Typed, Short, Bounded
<1>5. StatusTold' /\ MemoryTold'
  BY <1>1 DEF StatusTold, MemoryTold, Told
<1>6. WorkTold'
  <2> SUFFICES ASSUME NEW d \in Claims, work'[d].at = "events"
               PROVE  work'[d].verdict \in Told(d)' \/ Owed(d)'
    BY DEF WorkTold
  <2>1. CASE d # c
    BY <1>1, <2>1 DEF WorkTold, Told, Owed, Typed
  <2>2. CASE d = c
    BY <1>1, <1>3, <2>2 DEF StatusTold, Told, Owed, Typed
  <2> QED
    BY <2>1, <2>2
<1> QED
  BY <1>4, <1>5, <1>6

(* Whatever a reconcile finds, it sends at most two Events, and one of     *)
(* them is about a verdict that the informer's copy does not show.         *)
LEMMA StepDecide ==
    ASSUME IndInv, NEW c \in Claims,
           DecideFailed(c) \/ DecideConflict(c) \/ DecideSatisfiable(c)
    PROVE  IndInv'
<1> DEFINE s == world[c]
<1>1. /\ s \in Situations /\ DOMAIN tmpl = Claims
      /\ s.fail \in Reasons /\ s.sat \in Reasons /\ s.text \in Texts /\ s.bounds \in Texts
  BY DEF IndInv, Typed, Reasons, Texts
<1>2. ASSUME NEW reason \in Reasons, NEW text \in Texts
      PROVE  Event(reason, text) \in Letters /\ Event(reason, text).reason = reason
  BY DEF Event, Letters
<1>3. /\ "" \in Texts
      /\ {"TemplateConflict", "TemplateCreated", "TemplateUpdated"} \subseteq Reasons
  BY DEF Texts, Reasons
<1>4. CASE DecideFailed(c)
  <2> DEFINE e == Event(s.fail, s.text)
  <2>1. e \in Letters /\ e.reason = s.fail
    BY <1>1, <1>2
  <2>2. Decided(c, s.fail, <<e>>) /\ UNCHANGED tmpl
    BY <1>4 DEF DecideFailed
  <2> HIDE DEF e, s
  <2>3. <<e>> \in Seq(Letters) /\ Len(<<e>>) \leq 2 /\ <<e>>[1] = e /\ 1 \in DOMAIN <<e>>
    BY <2>1
  <2>4. DOMAIN tmpl' = Claims
    BY <1>1, <2>2
  <2>5. \E i \in DOMAIN <<e>> : <<e>>[i].reason = e.reason
    BY <2>3
  <2> QED
    BY <1>1, <2>1, <2>2, <2>3, <2>4, <2>5, DecidedKeeps
<1>5. CASE DecideConflict(c)
  <2> DEFINE e == Event("TemplateConflict", "")
  <2>1. e \in Letters /\ e.reason = "TemplateConflict"
    BY <1>2, <1>3
  <2>2. Decided(c, "TemplateConflict", <<e>>) /\ UNCHANGED tmpl
    BY <1>5 DEF DecideConflict
  <2> HIDE DEF e, s
  <2>3. <<e>> \in Seq(Letters) /\ Len(<<e>>) \leq 2 /\ <<e>>[1] = e /\ 1 \in DOMAIN <<e>>
    BY <2>1
  <2>4. DOMAIN tmpl' = Claims
    BY <1>1, <2>2
  <2>5. \E i \in DOMAIN <<e>> : <<e>>[i].reason = e.reason
    BY <2>3
  <2> QED
    BY <1>1, <1>3, <2>1, <2>2, <2>3, <2>4, <2>5, DecidedKeeps
<1>6. CASE DecideSatisfiable(c)
  <2> DEFINE e == Event(s.sat, s.text)
             template == CASE tmpl[c] = NoTemplate -> <<Event("TemplateCreated", s.bounds)>>
                           [] tmpl[c] = s.bounds -> <<>>
                           [] OTHER -> <<Event("TemplateUpdated", s.bounds)>>
             flip == IF cached[c] # s.sat THEN <<e>> ELSE <<>>
  <2>1. e \in Letters /\ e.reason = s.sat
    BY <1>1, <1>2
  <2>2. template \in Seq(Letters) /\ Len(template) \leq 1
    <3>1. /\ Event("TemplateCreated", s.bounds) \in Letters
          /\ Event("TemplateUpdated", s.bounds) \in Letters
      BY <1>1, <1>2, <1>3
    <3> QED
      BY <3>1
  <2>3. Decided(c, s.sat, template \o flip) /\ tmpl' = [tmpl EXCEPT ![c] = s.bounds]
    BY <1>6 DEF DecideSatisfiable
  <2> HIDE DEF e, s, template
  <2>4. flip \in Seq(Letters) /\ Len(flip) \leq 1
    BY <2>1
  <2>5. template \o flip \in Seq(Letters) /\ Len(template \o flip) \leq 2
    <3> HIDE DEF flip
    <3> QED  BY <2>2, <2>4
  <2>6. s.sat = cached[c] \/ \E i \in DOMAIN (template \o flip) : (template \o flip)[i].reason = s.sat
    <3> SUFFICES ASSUME s.sat # cached[c]
                 PROVE  \E i \in DOMAIN (template \o flip) : (template \o flip)[i].reason = s.sat
      OBVIOUS
    <3>1. flip = <<e>>
      OBVIOUS
    <3> HIDE DEF flip
    <3>2. Len(template) + 1 \in DOMAIN (template \o flip)
      BY <2>1, <2>2, <3>1
    <3>3. (template \o flip)[Len(template) + 1] = e
      BY <2>1, <2>2, <3>1
    <3> QED
      BY <2>1, <3>2, <3>3
  <2>7. DOMAIN tmpl' = Claims
    BY <1>1, <2>3
  <2> HIDE DEF flip
  <2> QED
    BY <1>1, <2>3, <2>5, <2>6, <2>7, DecidedKeeps
<1> QED
  BY <1>4, <1>5, <1>6

(* Taking the first Event off the list keeps the list's type, and owes the *)
(* verdict's Event unless it was that one.                                 *)
LEMMA PoppedKeeps ==
    ASSUME IndInv, NEW c \in Claims, Pending(c), Popped(c)
    PROVE  /\ Head(work[c].out) \in Letters
           /\ work' \in [Claims -> Works] /\ Short'
           /\ \A d \in Claims : work'[d].at = work[d].at /\ work'[d].verdict = work[d].verdict
           /\ \A d \in Claims : Owed(d) =>
                 Owed(d)' \/ (d = c /\ Head(work[c].out).reason = work[c].verdict)
<1> DEFINE q == work[c].out
           r == [work[c] EXCEPT !.out = Tail(q)]
<1>1. work \in [Claims -> Works] /\ q \in Seq(Letters) /\ q # <<>> /\ Len(q) \leq 2
  BY DEF IndInv, Typed, Works, Pending, Short
<1>2. /\ Head(q) \in Letters /\ Head(q) = q[1] /\ Tail(q) \in Seq(Letters)
      /\ Len(Tail(q)) = Len(q) - 1 /\ Len(q) \in Nat
      /\ \A i \in 1 .. Len(q) - 1 : Tail(q)[i] = q[i + 1]
      /\ DOMAIN q = 1 .. Len(q) /\ DOMAIN Tail(q) = 1 .. (Len(q) - 1)
  <2> HIDE DEF q
  <2> QED  BY <1>1
<1>3. work' = [work EXCEPT ![c] = r]
  BY DEF Popped
<1>4. r \in Works
  BY <1>1, <1>2 DEF Works
<1>5. r.out = Tail(q) /\ r.at = work[c].at /\ r.verdict = work[c].verdict
  BY <1>1 DEF Works
<1> HIDE DEF r
<1>6. work' \in [Claims -> Works]
  BY <1>1, <1>3, <1>4
<1>7. Short'
  <2> SUFFICES ASSUME NEW d \in Claims PROVE Len(work'[d].out) \leq 2
    BY DEF Short
  <2>1. CASE d # c
    BY <1>1, <1>3, <2>1 DEF IndInv, Short
  <2>2. CASE d = c
    <3>1. work'[d].out = Tail(q)
      BY <1>1, <1>3, <1>5, <2>2
    <3> HIDE DEF q
    <3> QED
      BY <1>1, <1>2, <3>1
  <2> QED
    BY <2>1, <2>2
<1>8. \A d \in Claims : work'[d].at = work[d].at /\ work'[d].verdict = work[d].verdict
  BY <1>1, <1>3, <1>5
<1>9. ASSUME NEW d \in Claims, Owed(d)
      PROVE  Owed(d)' \/ (d = c /\ Head(q).reason = work[c].verdict)
  <2>1. CASE d # c
    BY <1>1, <1>3, <1>9, <2>1 DEF Owed
  <2>2. CASE d = c
    <3>1. PICK i \in 1 .. Len(q) : q[i].reason = work[c].verdict
      BY <1>2, <1>9, <2>2 DEF Owed
    <3>2. CASE i = 1
      BY <1>2, <2>2, <3>1, <3>2
    <3>3. CASE i # 1
      <4>1. i - 1 \in DOMAIN Tail(q) /\ Tail(q)[i - 1] = q[i]
        <5> HIDE DEF q
        <5> QED  BY <1>2, <3>3
      <4>2. work'[c].out = Tail(q) /\ work'[c].verdict = work[c].verdict
        BY <1>1, <1>3, <1>5
      <4> QED
        BY <2>2, <3>1, <4>1, <4>2 DEF Owed
    <3> QED
      BY <3>2, <3>3
  <2> QED
    BY <2>1, <2>2
<1> QED
  BY <1>2, <1>6, <1>7, <1>8, <1>9

(* An Event the map knows was sent before.                                 *)
LEMMA StepSuppress ==
    ASSUME IndInv, NEW c \in Claims, Suppress(c)
    PROVE  IndInv'
<1> DEFINE e == Head(work[c].out)
<1> USE DEF IndInv
<1>1. /\ e \in Letters /\ work' \in [Claims -> Works] /\ Short'
      /\ \A d \in Claims : work'[d].at = work[d].at /\ work'[d].verdict = work[d].verdict
      /\ \A d \in Claims : Owed(d) => Owed(d)' \/ (d = c /\ e.reason = work[c].verdict)
  BY PoppedKeeps DEF Suppress
<1>2. e.reason \in sent[c]
  BY DEF Suppress, Known, MemoryTold
<1> HIDE DEF e
<1>3. UNCHANGED <<world, tmpl, status, cached, lastEvent, sent>>
  BY DEF Suppress
<1>4. Typed' /\ Bounded' /\ StatusTold' /\ MemoryTold'
  BY <1>1, <1>3 DEF Typed, Bounded, StatusTold, MemoryTold, Told
<1>5. WorkTold'
  BY <1>1, <1>2, <1>3 DEF WorkTold, Told
<1> QED
  BY <1>1, <1>4, <1>5

(* The map keeps to its limit, and to Events that were sent.               *)
LEMMA Remembered ==
    ASSUME IndInv, NEW c \in Claims, NEW e \in Letters, lastEvent' = Remember(c, e)
    PROVE  /\ DOMAIN lastEvent' \subseteq DOMAIN lastEvent \union {<<c, e.reason>>}
           /\ Bounded'
<1> DEFINE key == <<c, e.reason>>
           keys == DOMAIN lastEvent \union {key}
<1> USE EventsAssumption DEF IndInv
<1>1. DOMAIN lastEvent' = IF Cardinality(keys) > Limit THEN {key} ELSE keys
  BY DEF Remember
<1>2. IsFiniteSet(keys) /\ Cardinality(keys) \in Nat
  BY FS_AddElement, FS_CardinalityType DEF Bounded
<1>3. IsFiniteSet({key}) /\ Cardinality({key}) = 1
  BY FS_Singleton
<1> QED
  BY <1>1, <1>2, <1>3 DEF Bounded

(* Sending keeps the map within its limit, and the verdict told.           *)
LEMMA StepSend ==
    ASSUME IndInv, NEW c \in Claims, Send(c)
    PROVE  IndInv'
<1> DEFINE e == Head(work[c].out)
<1> USE DEF IndInv
<1>1. /\ e \in Letters /\ work' \in [Claims -> Works] /\ Short'
      /\ \A d \in Claims : work'[d].at = work[d].at /\ work'[d].verdict = work[d].verdict
      /\ \A d \in Claims : Owed(d) => Owed(d)' \/ (d = c /\ e.reason = work[c].verdict)
  BY PoppedKeeps DEF Send
<1>2. /\ lastEvent' = Remember(c, e)
      /\ sent' = [sent EXCEPT ![c] = @ \union {e.reason}]
      /\ UNCHANGED <<world, tmpl, status, cached>>
  BY DEF Send
<1> HIDE DEF e
<1>3. e.reason \in Reasons
  BY <1>1 DEF Letters
<1>4. \A d \in Claims : sent[d] \subseteq sent'[d]
  BY <1>2 DEF Typed
<1>5. e.reason \in sent'[c]
  BY <1>2 DEF Typed
<1>6. DOMAIN lastEvent' \subseteq DOMAIN lastEvent \union {<<c, e.reason>>} /\ Bounded'
  BY <1>1, <1>2, Remembered
<1>7. Typed'
  BY <1>1, <1>2, <1>3, <1>6 DEF Typed
<1>8. StatusTold'
  BY <1>2, <1>4 DEF StatusTold, Told
<1>9. MemoryTold'
  <2> SUFFICES ASSUME NEW k \in DOMAIN lastEvent' PROVE k[2] \in sent'[k[1]]
    BY DEF MemoryTold
  <2>1. CASE k \in DOMAIN lastEvent
    BY <1>4, <2>1 DEF MemoryTold, Typed
  <2>2. CASE k = <<c, e.reason>>
    BY <1>5, <2>2
  <2> QED
    BY <1>6, <2>1, <2>2
<1>10. WorkTold'
  BY <1>1, <1>4, <1>5 DEF WorkTold, Told
<1> QED
  BY <1>1, <1>6, <1>7, <1>8, <1>9, <1>10

(* The status is written when nothing is left to send.                     *)
LEMMA StepFinish ==
    ASSUME IndInv, NEW c \in Claims, WriteStatus(c) \/ WriteRefused(c)
    PROVE  IndInv'
<1> USE DEF IndInv
<1>1. /\ work[c].at = "events" /\ work[c].out = <<>>
      /\ work' = [work EXCEPT ![c] = Idle]
      /\ UNCHANGED <<world, tmpl, cached, lastEvent, sent>>
      /\ status' = status \/ status' = [status EXCEPT ![c] = work[c].verdict]
  BY DEF WriteStatus, WriteRefused
<1>2. ~Owed(c)
  BY <1>1 DEF Owed
<1>3. work[c].verdict \in Told(c) /\ work[c].verdict \in Reasons
  BY <1>1, <1>2 DEF WorkTold, Typed, Works
<1>4. Idle \in Works /\ Idle.out = <<>> /\ Len(Idle.out) = 0 /\ Idle.at = "idle"
  BY IdleTyped
<1>5. Typed' /\ Short' /\ Bounded'
  BY <1>1, <1>3, <1>4 DEF Typed, Short, Bounded
<1>6. StatusTold' /\ MemoryTold'
  BY <1>1, <1>3 DEF StatusTold, MemoryTold, Told, Typed
<1>7. WorkTold'
  BY <1>1, <1>4 DEF WorkTold, Told, Owed, Typed
<1> QED
  BY <1>5, <1>6, <1>7

(* No other step sends, suppresses or writes.                              *)
LEMMA StepOthers ==
    ASSUME IndInv,
           \/ \E c \in Claims : \/ Deliver(c)
                                \/ \E s \in Situations : Changes(c, s)
                                \/ \E t \in {NoTemplate, Foreign} : TemplateTaken(c, t)
           \/ Restart
           \/ UNCHANGED vars
    PROVE  IndInv'
<1> USE DEF IndInv
<1>1. ASSUME NEW c \in Claims, Deliver(c) PROVE IndInv'
  BY <1>1 DEF Deliver, Typed, Short, Bounded, StatusTold, MemoryTold, WorkTold, Told, Owed
<1>2. ASSUME NEW c \in Claims, NEW s \in Situations, Changes(c, s) PROVE IndInv'
  BY <1>2 DEF Changes, Typed, Short, Bounded, StatusTold, MemoryTold, WorkTold, Told, Owed
<1>3. ASSUME NEW c \in Claims, NEW t, TemplateTaken(c, t) PROVE IndInv'
  BY <1>3 DEF TemplateTaken, Typed, Short, Bounded, StatusTold, MemoryTold, WorkTold, Told, Owed
<1>4. CASE Restart
  <2>1. Idle \in Works /\ Idle.out = <<>> /\ Len(Idle.out) = 0 /\ Idle.at = "idle"
    BY IdleTyped
  <2>2. /\ work' = [c \in Claims |-> Idle] /\ cached' = status
        /\ DOMAIN lastEvent' = {} /\ UNCHANGED <<world, tmpl, status, sent>>
    BY <1>4 DEF Restart
  <2>3. Bounded'
    BY <2>2, EmptyBounded DEF Bounded
  <2>4. Typed'
    BY <2>1, <2>2 DEF Typed
  <2>5. Short'
    BY <2>1, <2>2 DEF Short
  <2>6. StatusTold' /\ MemoryTold' /\ WorkTold'
    BY <2>1, <2>2 DEF StatusTold, MemoryTold, WorkTold, Told
  <2> QED
    BY <2>3, <2>4, <2>5, <2>6
<1>5. CASE UNCHANGED vars
  BY <1>5 DEF vars, Typed, Short, Bounded, StatusTold, MemoryTold, WorkTold, Told, Owed
<1> QED
  BY <1>1, <1>2, <1>3, <1>4, <1>5

(* Every step of the controller and around it keeps the invariant.         *)
THEOREM Invariance == Spec => []IndInv
<1>1. IndInv /\ [Next]_vars => IndInv'
  BY StepDecide, StepSuppress, StepSend, StepFinish, StepOthers DEF Next, Reconcile, Disturbance
<1> QED
  BY InitIndInv, <1>1, PTL DEF Spec

(* controller.go:557-583: a reconcile has at most two Events to send, and  *)
(* the map of those sent stays within its limit whatever claims come and   *)
(* whatever happens to them.                                               *)
THEOREM TypeCorrect == Spec => []TypeOK
<1>1. IndInv => TypeOK
  BY DEF IndInv, TypeOK, Typed, Works, Short, Bounded
<1> QED
  BY Invariance, <1>1, PTL

(* controller.go:418-426: no verdict stands in a status that no Event was  *)
(* ever sent for, across suppressed Events, lost writes and restarts.      *)
THEOREM AnnouncedBeforeWritten == Spec => []AnnouncedFirst
<1>1. IndInv => AnnouncedFirst
  BY DEF IndInv, StatusTold, Told, AnnouncedFirst
<1> QED
  BY Invariance, <1>1, PTL
=============================================================================
