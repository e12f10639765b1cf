---------------------------- MODULE HotplugProofs ----------------------------
(***************************************************************************)
(* Hotplug's safety for every channel capacity, every socket buffer size   *)
(* and every set of kernel subsystems.                                     *)
(***************************************************************************)
EXTENDS Hotplug, TLAPS

(* Before Listen nothing runs and nothing is buffered.                     *)
LEMMA InitIndInv == Init => IndInv
<1> SUFFICES ASSUME Init PROVE IndInv
  OBVIOUS
<1> USE CapAssumption DEF Init
<1>1. FlagsOK
  BY Zenon DEF FlagsOK
<1>2. TypeOK
  BY <1>1 DEF TypeOK
<1>3. CloseOrder
  BY DEF CloseOrder
<1>4. AcceptedEventProbed
  BY DEF AcceptedEventProbed
<1>5. NoLostWakeup
  BY DEF NoLostWakeup
<1> QED
  BY <1>2, <1>3, <1>4, <1>5 DEF IndInv

(* Every step keeps the flags Boolean.                                     *)
LEMMA StepFlags ==
    ASSUME FlagsOK, [Next]_vars
    PROVE  FlagsOK'
<1> USE DEF FlagsOK, socketVars, chanVars, mainVars
<1>1. CASE UNCHANGED vars
  BY <1>1, Zenon DEF vars
<1>2. ASSUME NEW m \in Uevent, KernelUevent(m) PROVE FlagsOK'
  BY <1>2, Zenon DEF KernelUevent
<1>3. CASE Tick \/ Cancel \/ WatcherClose
  BY <1>3, Zenon DEF Tick, Cancel, WatcherClose
<1>4. CASE ReadMessage \/ SendRaw
  BY <1>4, Zenon DEF ReadMessage, SendRaw
<1>5. ASSUME NEW err \in ReadErr, ReadError(err) PROVE FlagsOK'
  <2>1. overrun' \in BOOLEAN
    BY <1>5, Zenon DEF ReadError
  <2>2. rawClosed' \in BOOLEAN /\ fdClosed' \in BOOLEAN
    BY <1>5, Zenon DEF ReadError, ReaderExit
  <2>3. UNCHANGED <<accepted, eventsClosed, uevents, tick, cancelled>>
    BY <1>5, Zenon DEF ReadError
  <2> QED
    BY <2>1, <2>2, <2>3, Zenon
<1>6. CASE DebounceNext
  BY <1>6, Zenon DEF DebounceNext, BurstStart, DebounceExit, DrainEvent,
                     BurstSettles, DrainClosed, Signal
<1>7. CASE MainDone \/ MainWakeup \/ MainListenerDied \/ MainTick \/ Probe
  BY <1>7, Zenon DEF MainDone, MainWakeup, MainListenerDied, MainTick, Probe
<1>8. ASSUME NEW ok \in BOOLEAN, Listen(ok) PROVE FlagsOK'
  <2>1. (~ok) \in BOOLEAN
    BY Zenon
  <2>2. /\ uevents' \in BOOLEAN /\ rawClosed' \in BOOLEAN
        /\ eventsClosed' \in BOOLEAN /\ fdClosed' \in BOOLEAN
    BY <1>8, <2>1, Zenon DEF Listen
  <2>3. UNCHANGED <<accepted, overrun, tick, cancelled>>
    BY <1>8, Zenon DEF Listen
  <2> QED
    BY <2>2, <2>3, Zenon
<1> QED
  BY <1>1, <1>2, <1>3, <1>4, <1>5, <1>6, <1>7, <1>8, Zenon
     DEF Next, EnvNext, ReaderNext, MainNext

(* Every step preserves the types.                                         *)
LEMMA StepType ==
    ASSUME TypeOK, [Next]_vars
    PROVE  TypeOK'
<1> USE CapAssumption DEF TypeOK, socketVars, chanVars, mainVars
<1>0. FlagsOK'
  BY StepFlags DEF TypeOK
<1>1. CASE UNCHANGED vars
  BY <1>0, <1>1 DEF vars
<1>2. ASSUME NEW m \in Uevent, KernelUevent(m) PROVE TypeOK'
  <2>1. /\ Len(sock) \in Nat
        /\ Append(sock, m) \in Seq(Uevent)
        /\ Len(Append(sock, m)) = Len(sock) + 1
    BY <1>2
  <2>2. sock' \in Seq(Uevent) /\ Len(sock') \leq SockCap
    BY <1>2, <2>1 DEF KernelUevent
  <2>3. early' \subseteq KernelSubsystems /\ unseen' \subseteq KernelSubsystems
    BY <1>2 DEF KernelUevent, Announced, Uevent
  <2> QED
    BY <1>0, <1>2, <2>2, <2>3 DEF KernelUevent
<1>3. CASE Tick \/ Cancel \/ WatcherClose
  BY <1>0, <1>3 DEF Tick, Cancel, WatcherClose
<1>4. CASE ReadMessage
  <2>1. /\ Len(sock) \in Nat
        /\ Tail(sock) \in Seq(Uevent)
        /\ Len(Tail(sock)) = Len(sock) - 1
    BY <1>4 DEF ReadMessage
  <2> QED
    BY <1>0, <1>4, <2>1 DEF ReadMessage
<1>5. ASSUME NEW err \in ReadErr, ReadError(err) PROVE TypeOK'
  BY <1>0, <1>5 DEF ReadError, ReaderExit
<1>6. CASE SendRaw
  BY <1>0, <1>6 DEF SendRaw
<1>7. CASE DebounceNext
  BY <1>0, <1>7 DEF DebounceNext, BurstStart, DebounceExit, DrainEvent,
                    BurstSettles, DrainClosed, Signal
<1>8. CASE MainDone \/ MainWakeup \/ MainListenerDied \/ MainTick \/ Probe
  BY <1>0, <1>8 DEF MainDone, MainWakeup, MainListenerDied, MainTick, Probe
<1>9. ASSUME NEW ok \in BOOLEAN, Listen(ok) PROVE TypeOK'
  BY <1>0, <1>9 DEF Listen
<1> QED
  BY <1>1, <1>2, <1>3, <1>4, <1>5, <1>6, <1>7, <1>8, <1>9
     DEF Next, EnvNext, ReaderNext, MainNext

(* Every step preserves the order in which the channels are closed.        *)
LEMMA StepClose ==
    ASSUME TypeOK, CloseOrder, [Next]_vars
    PROVE  CloseOrder'
<1> USE DEF CloseOrder, socketVars, chanVars, mainVars
<1>1. CASE UNCHANGED vars
  BY <1>1 DEF vars
<1>2. ASSUME NEW m \in Uevent, KernelUevent(m) PROVE CloseOrder'
  BY <1>2 DEF KernelUevent
<1>3. CASE Tick \/ Cancel \/ WatcherClose
  BY <1>3 DEF Tick, Cancel, WatcherClose
<1>4. CASE ReadMessage \/ SendRaw
  BY <1>4 DEF ReadMessage, SendRaw
<1>5. ASSUME NEW err \in ReadErr, ReadError(err) PROVE CloseOrder'
  BY <1>5 DEF ReadError, ReaderExit
<1>6. CASE DebounceNext
  BY <1>6 DEF DebounceNext, BurstStart, DebounceExit, DrainEvent,
              BurstSettles, DrainClosed, Signal, TypeOK
<1>7. CASE MainDone \/ MainWakeup \/ MainListenerDied \/ MainTick \/ Probe
  BY <1>7 DEF MainDone, MainWakeup, MainListenerDied, MainTick, Probe
<1>8. ASSUME NEW ok \in BOOLEAN, Listen(ok) PROVE CloseOrder'
  <2>1. ok \in BOOLEAN
    OBVIOUS
  <2>2. CASE ok = TRUE
    BY <1>8, <2>2 DEF Listen
  <2>3. CASE ok = FALSE
    BY <1>8, <2>3 DEF Listen
  <2> QED
    BY <2>1, <2>2, <2>3
<1> QED
  BY <1>1, <1>2, <1>3, <1>4, <1>5, <1>6, <1>7, <1>8
     DEF Next, EnvNext, ReaderNext, MainNext

(* No step loses a wakeup that is owed for an accepted event.              *)
LEMMA StepAccepted ==
    ASSUME TypeOK, CloseOrder, AcceptedEventProbed, [Next]_vars
    PROVE  AcceptedEventProbed'
<1> USE CapAssumption DEF AcceptedEventProbed, SignalOwed, socketVars, chanVars, mainVars
<1>1. CASE UNCHANGED vars
  BY <1>1 DEF vars
<1>2. CASE \E m \in Uevent : KernelUevent(m)
  BY <1>2 DEF KernelUevent
<1>3. CASE Tick \/ Cancel \/ WatcherClose \/ ReadMessage
  BY <1>3 DEF Tick, Cancel, WatcherClose, ReadMessage
<1>4. CASE \E err \in ReadErr : ReadError(err)
  BY <1>4 DEF ReadError
<1>5. CASE SendRaw
  BY <1>5 DEF SendRaw, TypeOK
<1>6. CASE DebounceNext
  <2>1. UNCHANGED <<accepted, main>>
    BY <1>6, Zenon DEF DebounceNext, BurstStart, DebounceExit, DrainEvent,
                       BurstSettles, DrainClosed, Signal
  <2>2. SignalOwed => SignalOwed'
    BY <1>6 DEF DebounceNext, BurstStart, DebounceExit, DrainEvent,
                BurstSettles, DrainClosed, Signal, TypeOK
  <2> QED
    BY <2>1, <2>2, Zenon
<1>7. CASE MainDone \/ MainWakeup \/ MainListenerDied \/ MainTick \/ Probe
  BY <1>7 DEF MainDone, MainWakeup, MainListenerDied, MainTick, Probe, TypeOK
<1>8. ASSUME NEW ok \in BOOLEAN, Listen(ok) PROVE AcceptedEventProbed'
  BY <1>8 DEF Listen, CloseOrder
<1> QED
  BY <1>1, <1>2, <1>3, <1>4, <1>5, <1>6, <1>7, <1>8
     DEF Next, EnvNext, ReaderNext, MainNext

(* No step loses the wakeup of a change announced since Listen.            *)
LEMMA StepNoLostWakeup ==
    ASSUME TypeOK, CloseOrder, NoLostWakeup, [Next]_vars
    PROVE  NoLostWakeup'
<1> USE CapAssumption DEF SignalOwed, socketVars, chanVars, mainVars
<1> DEFINE InSock(s) == \E i \in 1 .. Len(s) : parseUevent(s[i]) /\ relevant(s[i])
<1>1. CASE UNCHANGED vars
  BY <1>1 DEF vars, NoLostWakeup, WakeupInFlight
<1>2. ASSUME NEW m \in Uevent, KernelUevent(m) PROVE NoLostWakeup'
  <2>0. CASE main = "starting"
    BY <1>2, <2>0 DEF KernelUevent, NoLostWakeup, WakeupInFlight
  <2>1. CASE main # "starting" /\ Len(sock) < SockCap
    <3>1. sock' = Append(sock, m)
      BY <1>2, <2>1 DEF KernelUevent
    <3>2. /\ Len(sock) \in Nat
          /\ Len(sock') = Len(sock) + 1
          /\ sock'[Len(sock) + 1] = m
          /\ \A i \in 1 .. Len(sock) : sock'[i] = sock[i]
      BY <3>1 DEF TypeOK
    <3>3. InSock(sock) => InSock(sock')
      BY <3>2
    <3>4. m.header /\ m.subsystem \in subsystems => InSock(sock')
      BY <3>2 DEF parseUevent, relevant
    <3>5. unseen' \cap subsystems # {} =>
             unseen \cap subsystems # {} \/ (m.header /\ m.subsystem \in subsystems)
      BY <1>2, <2>1 DEF KernelUevent, Announced
    <3> QED
      BY <1>2, <2>1, <3>3, <3>4, <3>5 DEF KernelUevent, NoLostWakeup, WakeupInFlight
  <2>2. CASE main # "starting" /\ ~(Len(sock) < SockCap)
    BY <1>2, <2>2 DEF KernelUevent, NoLostWakeup, WakeupInFlight
  <2> QED
    BY <2>0, <2>1, <2>2
<1>3. CASE Tick \/ Cancel \/ WatcherClose
  BY <1>3 DEF Tick, Cancel, WatcherClose, NoLostWakeup, WakeupInFlight
<1>4. CASE ReadMessage
  <2>1. /\ Len(sock) \in Nat /\ Len(sock) > 0
        /\ Head(sock) = sock[1]
        /\ Len(Tail(sock)) = Len(sock) - 1
        /\ \A i \in 1 .. Len(sock) - 1 : Tail(sock)[i] = sock[i + 1]
    BY <1>4 DEF ReadMessage, TypeOK
  <2>2. InSock(sock) => rd' = "sending" \/ InSock(sock')
    <3> SUFFICES ASSUME NEW i \in 1 .. Len(sock),
                        parseUevent(sock[i]), relevant(sock[i])
                 PROVE  rd' = "sending" \/ InSock(sock')
      OBVIOUS
    <3>1. CASE i = 1
      BY <3>1, <2>1, <1>4 DEF ReadMessage
    <3>2. CASE i # 1
      <4>1. i - 1 \in 1 .. Len(sock')
        BY <3>2, <2>1, <1>4 DEF ReadMessage
      <4>2. sock'[i - 1] = sock[i]
        BY <3>2, <2>1, <1>4, <4>1 DEF ReadMessage
      <4> QED
        BY <4>1, <4>2
    <3> QED
      BY <3>1, <3>2
  <2> HIDE DEF InSock
  <2> QED
    BY <1>4, <2>2 DEF ReadMessage, NoLostWakeup, WakeupInFlight, InSock
<1>5. ASSUME NEW err \in ReadErr, ReadError(err) PROVE NoLostWakeup'
  <2>1. \/ rd' = "exited"
        \/ rd' = "sending"
        \/ rd' = rd /\ err # "ENOBUFS"
    BY <1>5 DEF ReadError, ReaderExit, classifyReadErr, ReadErr
  <2> QED
    BY <1>5, <2>1 DEF ReadError, NoLostWakeup, WakeupInFlight, TypeOK
<1>6. CASE SendRaw
  BY <1>6 DEF SendRaw, TypeOK, NoLostWakeup, WakeupInFlight
<1>7. CASE DebounceNext
  BY <1>7 DEF DebounceNext, BurstStart, DebounceExit, DrainEvent, BurstSettles,
              DrainClosed, Signal, TypeOK, NoLostWakeup, WakeupInFlight
<1>8. CASE MainDone \/ MainWakeup \/ MainListenerDied \/ MainTick \/ Probe
  BY <1>8 DEF MainDone, MainWakeup, MainListenerDied, MainTick, Probe,
              TypeOK, NoLostWakeup, WakeupInFlight
<1>9. ASSUME NEW ok \in BOOLEAN, Listen(ok) PROVE NoLostWakeup'
  BY <1>9 DEF Listen, CloseOrder, NoLostWakeup, WakeupInFlight
<1> QED
  BY <1>1, <1>2, <1>3, <1>4, <1>5, <1>6, <1>7, <1>8, <1>9
     DEF Next, EnvNext, ReaderNext, MainNext

(* The inductive invariant holds of every behaviour.                       *)
THEOREM Invariance == Spec => []IndInv
<1>1. IndInv /\ [Next]_vars => IndInv'
  BY StepType, StepClose, StepAccepted, StepNoLostWakeup DEF IndInv
<1> QED
  BY InitIndInv, <1>1, PTL DEF Spec

(* The listener and the loop stay within their types, whatever the channel *)
(* and socket capacities.                                                  *)
THEOREM TypeCorrect == Spec => []TypeOK
<1>1. IndInv => TypeOK
  BY DEF IndInv
<1> QED
  BY Invariance, <1>1, PTL

(* No accepted event is swallowed by the full raw buffer, the one-slot     *)
(* signal or the listener's death, whatever the capacities.                *)
THEOREM AcceptedNeverLost == Spec => []AcceptedEventProbed
<1>1. IndInv => AcceptedEventProbed
  BY DEF IndInv
<1> QED
  BY Invariance, <1>1, PTL

(* While the listener lives, every accelerator change the kernel announced *)
(* since Listen still has a probe to come, whatever the capacities and     *)
(* storm length.                                                           *)
THEOREM WakeupNeverLost == Spec => []NoLostWakeup
<1>1. IndInv => NoLostWakeup
  BY DEF IndInv
<1> QED
  BY Invariance, <1>1, PTL

(* No goroutine sends on a channel that is closed, and the signal channel  *)
(* closes last, whatever the capacities.                                   *)
THEOREM ClosedInOrder == Spec => []CloseOrder
<1>1. IndInv => CloseOrder
  BY DEF IndInv
<1> QED
  BY Invariance, <1>1, PTL
=============================================================================
