------------------------------- MODULE Events -------------------------------
(***************************************************************************)
(* The Events of the ModelClaim controller (controller.event and its       *)
(* callers in reconcile): what a user who watches Events is told of the    *)
(* verdicts the controller writes into status.                             *)
(*                                                                         *)
(* Controller has the reconcile in its steps.  Here one step decides what  *)
(* a reconcile finds and does to the template; the Events it sends follow  *)
(* one by one, then the status write.  A reconcile of any claim may start  *)
(* at any time: slices, claims, resyncs and retries all queue it.          *)
(***************************************************************************)
EXTENDS Naturals, Sequences, FiniteSets

CONSTANTS
    Claims,         \* ModelClaims, by name
    Situations,     \* what a reconcile may find: fail, bounds, sat, text
    Limit,          \* entries lastEvent may have (4096)
    NoTemplate,     \* there is no template of the claim's name
    Foreign         \* there is one of someone else's

ASSUME EventsAssumption == Limit \in Nat \ {0} /\ Cardinality(Claims) \leq Limit

VARIABLES
    world,      \* claim -> the situation a reconcile would find
    tmpl,       \* claim -> bounds of its template
    status,     \* claim -> reason of its Satisfiable condition, "" if none
    cached,     \* claim -> that reason in the informer's store
    work,       \* claim -> the reconcile in progress
    lastEvent,  \* reason and claim -> text of the last Event sent
    shown,      \* claim -> reason of the last Event sent about its verdict (history)
    sent,       \* claim -> reasons an Event was sent for (history)
    minted      \* flips with every Event sent (history)

vars == <<world, tmpl, status, cached, work, lastEvent, shown, sent, minted>>

Idle == [at |-> "idle", prev |-> "", verdict |-> "", out |-> <<>>]

Event(reason, text) == [reason |-> reason, text |-> text]

Init ==
    /\ world \in [Claims -> Situations]
    /\ tmpl = [c \in Claims |-> NoTemplate]
    /\ status = [c \in Claims |-> ""] /\ cached = status
    /\ work = [c \in Claims |-> Idle]
    /\ lastEvent = [k \in {} |-> ""]
    /\ shown = [c \in Claims |-> ""] /\ sent = [c \in Claims |-> {}]
    /\ minted = FALSE

-----------------------------------------------------------------------------
(* reconcile.                                                              *)

Decided(c, verdict, out) ==
    /\ work' = [work EXCEPT ![c] = [at |-> "events", prev |-> cached[c],
                                    verdict |-> verdict, out |-> out]]
    /\ UNCHANGED <<world, status, cached, lastEvent, shown, sent, minted>>

(* The model reference is not valid, or does not resolve.                  *)
DecideFailed(c) ==
    /\ work[c].at = "idle" /\ world[c].fail # ""
    /\ Decided(c, world[c].fail, <<Event(world[c].fail, world[c].text)>>)
    /\ UNCHANGED tmpl

DecideConflict(c) ==
    /\ work[c].at = "idle" /\ world[c].fail = "" /\ tmpl[c] = Foreign
    /\ Decided(c, "TemplateConflict", <<Event("TemplateConflict", "")>>)
    /\ UNCHANGED tmpl

(* The template is written where needed; a verdict is announced when it is *)
(* not the one the cached object shows.                                    *)
DecideSatisfiable(c) ==
    LET s == world[c]
        template == CASE tmpl[c] = NoTemplate -> <<Event("TemplateCreated", s.bounds)>>
                      [] tmpl[c] = s.bounds -> <<>>
                      [] OTHER -> <<Event("TemplateUpdated", s.bounds)>>
        flip == IF cached[c] # s.sat THEN <<Event(s.sat, s.text)>> ELSE <<>>
    IN  /\ work[c].at = "idle" /\ s.fail = "" /\ tmpl[c] # Foreign
        /\ Decided(c, s.sat, template \o flip)
        /\ tmpl' = [tmpl EXCEPT ![c] = s.bounds]

(* event: one Event per object, reason and text; a map that grows past the *)
(* limit keeps the new entry alone.                                        *)
Known_never(c, e) == FALSE

Known(c, e) == <<c, e.reason>> \in DOMAIN lastEvent /\ lastEvent[<<c, e.reason>>] = e.text

Remember_noLimit(c, e) ==
    [k \in DOMAIN lastEvent \union {<<c, e.reason>>} |->
        IF k = <<c, e.reason>> THEN e.text ELSE lastEvent[k]]

Remember(c, e) ==
    LET key == <<c, e.reason>>
        keys == DOMAIN lastEvent \union {key}
    IN  [k \in IF Cardinality(keys) > Limit THEN {key} ELSE keys |->
            IF k = key THEN e.text ELSE lastEvent[k]]

Popped(c) == work' = [work EXCEPT ![c].out = Tail(@)]

Pending(c) == work[c].at = "events" /\ work[c].out # <<>>

Suppress(c) ==
    /\ Pending(c) /\ Known(c, Head(work[c].out))
    /\ Popped(c)
    /\ UNCHANGED <<world, tmpl, status, cached, lastEvent, shown, sent, minted>>

(* Whether the best-effort create call succeeds changes nothing here.      *)
Send(c) ==
    LET e == Head(work[c].out)
    IN  /\ Pending(c) /\ ~Known(c, e)
        /\ lastEvent' = Remember(c, e)
        /\ Popped(c)
        /\ sent' = [sent EXCEPT ![c] = @ \union {e.reason}]
        /\ shown' = IF e.reason = work[c].verdict THEN [shown EXCEPT ![c] = e.reason] ELSE shown
        /\ minted' = ~minted
        /\ UNCHANGED <<world, tmpl, status, cached>>

(* updateStatus; a conflict is left to the informer's next event.          *)
WriteStatus_first(c) ==
    /\ work[c].at = "events" /\ status[c] # work[c].verdict
    /\ status' = [status EXCEPT ![c] = work[c].verdict]
    /\ UNCHANGED <<world, tmpl, cached, work, lastEvent, shown, sent, minted>>

WriteStatus(c) ==
    /\ work[c].at = "events" /\ work[c].out = <<>>
    /\ status' = [status EXCEPT ![c] = work[c].verdict]
    /\ work' = [work EXCEPT ![c] = Idle]
    /\ UNCHANGED <<world, tmpl, cached, lastEvent, shown, sent, minted>>

WriteRefused(c) ==
    /\ work[c].at = "events" /\ work[c].out = <<>>
    /\ work' = [work EXCEPT ![c] = Idle]
    /\ UNCHANGED <<world, tmpl, status, cached, lastEvent, shown, sent, minted>>

Deliver(c) ==
    /\ cached[c] # status[c]
    /\ cached' = [cached EXCEPT ![c] = status[c]]
    /\ UNCHANGED <<world, tmpl, status, work, lastEvent, shown, sent, minted>>

-----------------------------------------------------------------------------
(* Around it.                                                              *)

Changes(c, s) ==
    /\ s # world[c]
    /\ world' = [world EXCEPT ![c] = s]
    /\ UNCHANGED <<tmpl, status, cached, work, lastEvent, shown, sent, minted>>

(* Someone deletes the template, or puts one of their own there.           *)
TemplateTaken(c, t) ==
    /\ t # tmpl[c]
    /\ tmpl' = [tmpl EXCEPT ![c] = t]
    /\ UNCHANGED <<world, status, cached, work, lastEvent, shown, sent, minted>>

(* The controller ends and is started again: lastEvent is gone.            *)
Restart ==
    /\ work' = [c \in Claims |-> Idle]
    /\ cached' = status
    /\ lastEvent' = [k \in {} |-> ""]
    /\ UNCHANGED <<world, tmpl, status, shown, sent, minted>>

Reconcile(c) ==
    \/ DecideFailed(c) \/ DecideConflict(c) \/ DecideSatisfiable(c)
    \/ Suppress(c) \/ Send(c)
    \/ WriteStatus(c)

Disturbance ==
    \/ \E c \in Claims : \/ \E s \in Situations : Changes(c, s)
                         \/ \E t \in {NoTemplate, Foreign} : TemplateTaken(c, t)
                         \/ WriteRefused(c)
    \/ Restart

Next == (\E c \in Claims : Reconcile(c) \/ Deliver(c)) \/ Disturbance

(* The workqueue serves every key again and again (resync), and the        *)
(* informers deliver.                                                      *)
Fairness == \A c \in Claims : WF_vars(Reconcile(c)) /\ WF_vars(Deliver(c))

Spec == Init /\ [][Next]_vars /\ Fairness
-----------------------------------------------------------------------------
(* Types; the map never outgrows its limit (controller.go:568).            *)
TypeOK ==
    /\ world \in [Claims -> Situations]
    /\ \A c \in Claims : /\ work[c].at \in {"idle", "events"}
                         /\ Len(work[c].out) \leq 2
    /\ \A k \in DOMAIN lastEvent : k[1] \in Claims
    /\ Cardinality(DOMAIN lastEvent) \leq Limit

(* controller.go:558-560: retries do not mint Events.  Once nothing around *)
(* it changes, the controller stops sending Events, although a failing    *)
(* resolve is retried for ever and other claims share a map that is at its *)
(* limit and starts over.                                                  *)
EventsStop == <>[][minted' = minted]_vars

(* controller.go:418-426: the Event goes out before the condition is       *)
(* written, so no crash in between leaves a verdict in status that no      *)
(* Event was ever sent for.                                                *)
AnnouncedFirst == \A c \in Claims : status[c] \in sent[c] \union {""}

(* controller.go:415-417: "kubectl get events -w ... should show flips     *)
(* (fits->doesn't fit, restored)": when status goes from one verdict to    *)
(* another and the cache was current, the last Event about the verdict is  *)
(* the new one.                                                            *)
FlipsShown ==
    [][\A c \in Claims :
          status[c] # "" /\ status'[c] # status[c] /\ work[c].prev = status[c]
          => shown[c] = status'[c]]_vars
=============================================================================
