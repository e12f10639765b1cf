------------------------------ MODULE Detector ------------------------------
(***************************************************************************)
(* The capability source (internal/llmfit/detector.go): the serve API,     *)
(* else the command, else the last reading while it is not too old.        *)
(*                                                                         *)
(* A reading is a function on the GPU names it lists: how many cards of    *)
(* that name (0 when the field is missing) and whether the memory          *)
(* bandwidth is given.  Time is counted in probe intervals.                *)
(***************************************************************************)
EXTENDS Naturals, FiniteSets

CONSTANTS
    Models,     \* GPU names llmfit may report
    MaxStale,   \* intervals a reading may be served again
    NoSystem    \* no reading

ASSUME DetectorAssumption == MaxStale \in Nat

VARIABLES
    last,       \* last reading of this process
    age         \* intervals since it was taken, up to MaxStale + 1

detectorVars == <<last, age>>

InitDetector == last = NoSystem /\ age = 0

(* A name that had a bandwidth in the previous reading keeps it.           *)
backfillBandwidth_none(fresh, prev) == fresh

backfillBandwidth(fresh, prev) ==
    IF prev = NoSystem THEN fresh
    ELSE [m \in DOMAIN fresh |->
            [fresh[m] EXCEPT !.bw = @ \/ (m \in DOMAIN prev /\ prev[m].bw)]]

(* What Detect returns, and keeps, when api or else exec answered.         *)
Fresh(reading) == backfillBandwidth(reading, last)

(* What it returns when neither did; NoSystem stands for its error.        *)
Cached_forever == last

Cached == IF last # NoSystem /\ age \leq MaxStale THEN last ELSE NoSystem

IntervalPasses == age' = IF age > MaxStale THEN age ELSE age + 1

DetectorTypeOK ==
    /\ last # NoSystem => /\ DOMAIN last \subseteq Models
                          /\ last \in [DOMAIN last -> [count : Nat, bw : BOOLEAN]]
    /\ age \in 0 .. MaxStale + 1
=============================================================================
