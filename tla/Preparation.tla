----------------------------- MODULE Preparation -----------------------------
(***************************************************************************)
(* What the kubelet plugin promises, without how: every claim has at most  *)
(* one CDI spec file, which appears whole, is there for as long as the     *)
(* kubelet holds the claim for prepared, and is gone when the kubelet is   *)
(* told that the claim is unprepared.  NodePlugin implements this.         *)
(***************************************************************************)
CONSTANTS
    Claims,     \* ResourceClaim UIDs
    Alloc       \* claim -> the devices of ours its allocation names

VARIABLES
    phase,      \* claim -> where the kubelet is with it
    file        \* claim -> devices its spec file describes, none for no file

vars == <<phase, file>>

Init ==
    /\ phase = [c \in Claims |-> "idle"]
    /\ file = [c \in Claims |-> {}]

(* The file appears in one piece, also for a caller that no longer waits.  *)
Appears(c) ==
    /\ file' = [file EXCEPT ![c] = Alloc[c]]
    /\ UNCHANGED phase

Disappears(c) ==
    /\ phase[c] # "prepared"
    /\ file' = [file EXCEPT ![c] = {}]
    /\ UNCHANGED phase

Moves(S, from, to) ==
    /\ \A c \in S : phase[c] \in from
    /\ phase' = [c \in Claims |-> IF c \in S THEN to ELSE phase[c]]
    /\ UNCHANGED file

Wanted(S) == Moves(S, {"idle"}, "want")

Dropped(S) == Moves(S, {"want", "prepared", "release"}, "release")

Prepared(S) ==
    /\ \A c \in S : file[c] = Alloc[c] /\ Alloc[c] # {}
    /\ Moves(S, {"want"}, "prepared")

Unprepared(S) ==
    /\ \A c \in S : file[c] = {}
    /\ Moves(S, {"release"}, "idle")

(* A kubelet that restarts asks again; one whose checkpoint is lost also   *)
(* forgets the claims it was about to release.                             *)
AsksAgain == [c \in Claims |-> IF phase[c] = "prepared" THEN "want" ELSE phase[c]]

KubeletRestarts ==
    /\ phase' \in {AsksAgain,
                   [c \in Claims |-> IF phase[c] = "release" THEN "idle" ELSE AsksAgain[c]]}
    /\ UNCHANGED file

(* A node that loses power loses files together with the kubelet's memory. *)
NodeFails(lost) ==
    /\ phase' = AsksAgain
    /\ file' = [c \in Claims |-> IF c \in lost THEN {} ELSE file[c]]

Next ==
    \/ \E c \in Claims : Appears(c) \/ Disappears(c)
    \/ \E S \in SUBSET Claims : Wanted(S) \/ Dropped(S) \/ Prepared(S) \/ Unprepared(S)
                                \/ NodeFails(S)
    \/ KubeletRestarts

Spec == Init /\ [][Next]_vars
=============================================================================
