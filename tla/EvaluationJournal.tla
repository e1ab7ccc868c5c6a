------------------------- MODULE EvaluationJournal -------------------------
(***************************************************************************)
(* The append-only evaluation journal (src/app/evaluation/journal.py): one *)
(* row per decision and per outcome measurement, keyed by their digests,   *)
(* each with the receipt time its caller gave first.  Every insertion is a *)
(* commit of its own and INSERT OR IGNORE keeps the first row, so a call   *)
(* is one step.                                                            *)
(***************************************************************************)
EXTENDS Naturals

CONSTANTS
    Decisions,
    EvaluatedAt,       \* [Decisions -> Times]: evaluation_at of a decision
    Measurements,      \* outcome measurements that may be recorded
    Times,
    None

MeasurementShape ==
    [decision : Decisions, valuedAt : Times, observedAt : Times, asOf : Times]

JournalAssumption ==
    /\ Times \subseteq Nat /\ None \notin Times
    /\ EvaluatedAt \in [Decisions -> Times]
    /\ Measurements \subseteq MeasurementShape

VARIABLES
    receipts,     \* table evaluation_decisions: recorded_at
    outcomes      \* table evaluation_outcomes: recorded_at

vars == <<receipts, outcomes>>

(* Types.                                                                   *)
TypeOK ==
    /\ receipts \in [Decisions -> Times \cup {None}]
    /\ outcomes \in [Measurements -> Times \cup {None}]

Init ==
    /\ receipts = [d \in Decisions |-> None]
    /\ outcomes = [m \in Measurements |-> None]

(* The decision is in the journal for a reader with the cutoff asOf.        *)
Known(d, asOf) == receipts[d] # None /\ receipts[d] <= asOf

(* record() neither backdates a decision nor a receipt.                     *)
Recordable(d, at) ==
    /\ at >= EvaluatedAt[d]
    /\ receipts[d] # None => at >= receipts[d]

Record(d, at) ==
    /\ Recordable(d, at)
    /\ receipts' = [receipts EXCEPT ![d] = IF @ = None THEN at ELSE @]

(* What OutcomeMeasurement requires of its mark.                            *)
Measurable(m) == m.valuedAt >= EvaluatedAt[m.decision] /\ m.observedAt <= m.asOf

RecordOutcome(m, at) ==
    /\ Measurable(m) /\ m.asOf <= at
    /\ Known(m.decision, m.asOf)
    /\ outcomes[m] # None => at >= outcomes[m]
    /\ outcomes' = [outcomes EXCEPT ![m] = IF @ = None THEN at ELSE @]

(* outcomes(): the measurements of a decision a reader with the cutoff sees.*)
Outcomes(d, asOf) ==
    {m \in Measurements : m.decision = d /\ outcomes[m] # None /\ outcomes[m] <= asOf}

(* A measurement never looks ahead of what it measures: the decision was in *)
(* the journal at its cutoff, in that order for every receipt on the way;   *)
(* and whatever the cutoff, an outcome is never shown without its decision. *)
OutcomesFollowDecisions ==
    /\ \A m \in Measurements : outcomes[m] # None =>
        /\ Known(m.decision, m.asOf)
        /\ EvaluatedAt[m.decision] <= receipts[m.decision] /\ m.asOf <= outcomes[m]
    /\ \A d \in Decisions : \A asOf \in Times :
        Outcomes(d, asOf) # {} => Known(d, asOf)
=============================================================================
