------------------------------ MODULE Routing -------------------------------
(***************************************************************************)
(* core/value.Route: which cases measure which asset.  The seed decides    *)
(* every draw; what the draws may depend on, and how large they are, is    *)
(* what this module is about.  A shuffle is known by the cases it puts     *)
(* first: Draw(stream, S, n) is the first n of S shuffled by that stream.  *)
(* Rates are whole percentages; tags are normalized.                       *)
(***************************************************************************)
EXTENDS Integers, FiniteSets, Sums

CONSTANTS
    Case,            \* the dev cases
    Asset,           \* the pool
    Tag,
    Pairable,        \* the cases with a recoverable baseline score
    Failed,          \* those of them the baseline failed
    caseTags,        \* the tags of each case
    assetTags,       \* the tags of each asset
    Draw(_, _, _),
    Options          \* [seed, reserve, rate, controlRate, minSample, trials, disable]

ASSUME RoutingAssumption ==
    /\ IsFiniteSet(Case) /\ IsFiniteSet(Asset)
    /\ Failed \subseteq Pairable /\ Pairable \subseteq Case /\ Pairable # {}
    /\ caseTags \in [Case -> SUBSET Tag] /\ assetTags \in [Asset -> SUBSET Tag]
    /\ \A o \in Options :
          /\ {o.reserve, o.rate, o.controlRate} \subseteq Nat
          /\ {o.minSample, o.trials} \subseteq Nat \ {0}
          /\ o.disable \in BOOLEAN

(* A shuffle keeps the cases it is given, each once.                        *)
ASSUME DrawAssumption ==
    \A o \in Options, label \in Asset \cup {"reserve", "control"}, S \in SUBSET Case :
        \A n \in 0..Cardinality(S) :
            LET drawn == Draw([seed |-> o.seed, label |-> label], S, n)
            IN drawn \subseteq S /\ Cardinality(drawn) = n

-----------------------------------------------------------------------------
(* The partition, drawn before any outcome is looked at. *)

\* At least one case on each side once there are two.
ReserveSize(o) ==
    LET len == Cardinality(Pairable)
        share == (len * o.reserve) \div 100
        n == IF share < 1 /\ len > 1 THEN 1 ELSE share
    IN IF n >= len THEN len - 1 ELSE n

reserve(o) == Draw([seed |-> o.seed, label |-> "reserve"], Pairable, ReserveSize(o))

\* Mutant: the routing side of the partition is the whole of it.
BugEligible(o) == Pairable

Eligible(o) == Pairable \ reserve(o)

SampleSize(len, rate, minSample) ==
    LET share == (len * rate + 50) \div 100
        n == IF share < minSample THEN minSample ELSE share
    IN IF n > len THEN len ELSE n

sampleIDs(o, label, candidates, rate) ==
    Draw([seed |-> o.seed, label |-> label], candidates,
         SampleSize(Cardinality(candidates), rate, o.minSample))

-----------------------------------------------------------------------------
(* Clusters of failures, and the cases an asset may be measured on. *)

clusters(o) == [t \in Tag |-> {c \in Eligible(o) \cap Failed : t \in caseTags[c]}]

Mode(o) ==
    IF o.disable \/ Eligible(o) \cap Failed = {} THEN "AllDev"
    ELSE IF \A t \in Tag : clusters(o)[t] = {} THEN "AllFailed"
    ELSE "TagOverlap"

candidatesFor(a, o) ==
    CASE Mode(o) = "AllDev" -> Eligible(o)
      [] Mode(o) = "AllFailed" -> Eligible(o) \cap Failed
      [] OTHER -> IF assetTags[a] = {} THEN Eligible(o) \cap Failed
                  ELSE UNION {clusters(o)[t] : t \in assetTags[a]}

(* An asset with no candidate gets no case, and the reason IRRELEVANT.      *)
Route(o) ==
    [mode     |-> Mode(o),
     routed   |-> [a \in Asset |-> sampleIDs(o, a, candidatesFor(a, o), o.rate)],
     fresh    |-> ~o.disable,
     eligible |-> Cardinality(Eligible(o)),
     control  |-> sampleIDs(o, "control", reserve(o), o.controlRate),
     trials   |-> o.trials,
     seed     |-> o.seed]

-----------------------------------------------------------------------------
(* The schedule of a plan, and the number of measurements it is quoted at. *)

KeysOver(a, cases, arm, trials) ==
    {[asset |-> a, case |-> c, arm |-> arm, trial |-> t] : c \in cases, t \in 1..trials}

(* What an asset routed to nothing costs is nothing.                        *)
measurementsFor(p, a) ==
    IF p.routed[a] = {} THEN {}
    ELSE KeysOver(a, p.routed[a], "treatment", p.trials)
           \cup (IF p.fresh THEN KeysOver(a, p.routed[a], "control", p.trials) ELSE {})
           \cup KeysOver(a, p.control, "treatment", p.trials)

\* Mutant: the fresh control arm is not quoted.
BugAssetQuote(p, a) ==
    IF p.routed[a] = {} THEN 0
    ELSE (Cardinality(p.routed[a]) + Cardinality(p.control)) * p.trials

AssetQuote(p, a) ==
    IF p.routed[a] = {} THEN 0
    ELSE ((IF p.fresh THEN 2 ELSE 1) * Cardinality(p.routed[a]) + Cardinality(p.control))
           * p.trials

Measurements(p) == SumOver([a \in Asset |-> AssetQuote(p, a)], Asset)

=============================================================================
