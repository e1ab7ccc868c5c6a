--------------------------- MODULE PaperEvaluation ---------------------------
(***************************************************************************)
(* Paper evaluations of sealed captures (src/app/capture/paper.py) over    *)
(* the evaluation journal.  evaluate() makes the attempt durable in one    *)
(* transaction of paper-evaluations.db, and in a second one replays the    *)
(* pure composition, records its decision in journal.db, which commits at  *)
(* once, and stores the result.  The second transaction holds the write    *)
(* lock over the journal's commit.                                         *)
(*                                                                         *)
(* Requests are valid and authorized, and an evaluation id is one request; *)
(* composition is deterministic, so an evaluation has one decision, which  *)
(* evaluations with the same inputs share.                                 *)
(***************************************************************************)
EXTENDS Naturals, Sequences

CONSTANTS
    Evaluators,
    Evaluations,
    DecisionOf,        \* [Evaluations -> Decisions]
    CapturedAt,        \* [Evaluations -> PaperTimes]: completed_at of the capture
    MaxAttempts,       \* bound on the attempts per evaluation
    Decisions, EvaluatedAt, Measurements, PaperTimes, Unset   \* of the journal

PaperAssumption ==
    /\ DecisionOf \in [Evaluations -> Decisions]
    /\ CapturedAt \in [Evaluations -> PaperTimes]
    /\ \A e \in Evaluations : EvaluatedAt[DecisionOf[e]] <= CapturedAt[e]
    /\ Unset \notin Evaluators

VARIABLES
    receipts, outcomes,      \* the journal
    claimed,                 \* table paper_evaluations: claimed_at
    completed,               \* table paper_evaluations: completed_at of the result
    attempts,                \* table paper_attempts, per evaluation
    lock,                    \* write transaction of paper-evaluations.db in progress
    evaluating               \* evaluate() in progress in each process

journalVars == <<receipts, outcomes>>
paperVars == <<receipts, outcomes, claimed, completed, attempts, lock, evaluating>>

Journal == INSTANCE EvaluationJournal WITH Times <- PaperTimes, None <- Unset

NotEvaluating == [pc |-> "idle"]
Calls == [pc : {"process", "store"}, evaluation : Evaluations, at : PaperTimes]

(* Types; a process that stands before its last statement holds the lock.   *)
PaperTypeOK ==
    /\ Journal!TypeOK
    /\ claimed \in [Evaluations -> PaperTimes \cup {Unset}]
    /\ completed \in [Evaluations -> PaperTimes \cup {Unset}]
    /\ attempts \in [Evaluations -> Seq(PaperTimes)]
    /\ evaluating \in [Evaluators -> Calls \cup {NotEvaluating}]
    /\ lock \in Evaluators \cup {Unset}
    /\ \A p \in Evaluators : evaluating[p].pc = "store" <=> lock = p

PaperInit ==
    /\ Journal!Init
    /\ claimed = [e \in Evaluations |-> Unset]
    /\ completed = [e \in Evaluations |-> Unset]
    /\ attempts = [e \in Evaluations |-> <<>>]
    /\ lock = Unset
    /\ evaluating = [p \in Evaluators |-> NotEvaluating]

LastAttempt(e) == attempts[e][Len(attempts[e])]

-----------------------------------------------------------------------------
(* Bug variant: an attempt is compared with the claim only.                 *)
OnTimeByClaim(e, at) == claimed[e] # Unset => at >= claimed[e]

(* An attempt is neither before the claim nor before the last attempt.      *)
OnTime(e, at) ==
    /\ claimed[e] # Unset => at >= claimed[e]
    /\ attempts[e] # <<>> => at >= LastAttempt(e)

(* The first transaction.                                                   *)
ClaimAttempt(p, e, at) ==
    /\ evaluating[p] = NotEvaluating /\ lock = Unset
    /\ at >= CapturedAt[e]
    /\ Len(attempts[e]) < MaxAttempts
    /\ OnTime(e, at)
    /\ claimed' = [claimed EXCEPT ![e] = IF @ = Unset THEN at ELSE @]
    /\ attempts' = [attempts EXCEPT ![e] = Append(@, at)]
    /\ evaluating' = [evaluating EXCEPT ![p] = [pc |-> "process", evaluation |-> e, at |-> at]]
    /\ UNCHANGED <<journalVars, completed, lock>>

(* Bug variant: any attempt that was claimed may process.                   *)
NeverSuperseded(e, at) == FALSE

(* Another attempt was claimed for a later time meanwhile.                  *)
IsSuperseded(e, at) == LastAttempt(e) > at

(* The call returns or raises, and its transaction is over.                 *)
LeaveEvaluation(p) ==
    /\ evaluating' = [evaluating EXCEPT ![p] = NotEvaluating]
    /\ lock' = IF lock = p THEN Unset ELSE lock

(* Bug variant: a refusal of the journal is waited out.                     *)
ProcessAwaitsJournal(p) ==
    LET e == evaluating[p].evaluation
        at == evaluating[p].at
        d == DecisionOf[e]
    IN
    /\ evaluating[p].pc = "process" /\ lock = Unset
    /\ \/ /\ IsSuperseded(e, at) \/ completed[e] # Unset
          /\ LeaveEvaluation(p)
          /\ UNCHANGED journalVars
       \/ /\ ~IsSuperseded(e, at) /\ completed[e] = Unset
          /\ Journal!Record(d, at)
          /\ evaluating' = [evaluating EXCEPT ![p].pc = "store"]
          /\ lock' = p
          /\ UNCHANGED outcomes
    /\ UNCHANGED <<claimed, completed, attempts>>

(* The second transaction, up to the commit of the journal: a superseded    *)
(* attempt raises, a stored result is answered, a decision the journal      *)
(* refuses raises.                                                          *)
Process(p) ==
    LET e == evaluating[p].evaluation
        at == evaluating[p].at
        d == DecisionOf[e]
    IN
    /\ evaluating[p].pc = "process" /\ lock = Unset
    /\ \/ /\ \/ IsSuperseded(e, at)
             \/ completed[e] # Unset
             \/ ~Journal!Recordable(d, at)
          /\ LeaveEvaluation(p)
          /\ UNCHANGED journalVars
       \/ /\ ~IsSuperseded(e, at) /\ completed[e] = Unset
          /\ Journal!Record(d, at)
          /\ evaluating' = [evaluating EXCEPT ![p].pc = "store"]
          /\ lock' = p
          /\ UNCHANGED outcomes
    /\ UNCHANGED <<claimed, completed, attempts>>

(* The result is stored and the second transaction commits.                 *)
Store(p) ==
    LET e == evaluating[p].evaluation IN
    /\ evaluating[p].pc = "store"
    /\ completed' = [completed EXCEPT ![e] = evaluating[p].at]
    /\ LeaveEvaluation(p)
    /\ UNCHANGED <<journalVars, claimed, attempts>>

(* SQLite gives up waiting for a lock of another process.                   *)
Busy(p) ==
    /\ evaluating[p].pc = "process" /\ lock # Unset
    /\ LeaveEvaluation(p)
    /\ UNCHANGED <<journalVars, claimed, completed, attempts>>

(* The process dies or an exception ends the call: the transaction is       *)
(* rolled back, and the journal keeps what it committed.                    *)
AbandonEvaluation(p) ==
    /\ evaluating[p] # NotEvaluating
    /\ LeaveEvaluation(p)
    /\ UNCHANGED <<journalVars, claimed, completed, attempts>>

(* Anyone may measure the outcome of a journalled decision.                 *)
Measure ==
    /\ \E m \in Measurements : \E at \in PaperTimes : Journal!RecordOutcome(m, at)
    /\ UNCHANGED <<receipts, claimed, completed, attempts, lock, evaluating>>

EvaluationStep(p) == Process(p) \/ Store(p) \/ Busy(p)

PaperNext ==
    \/ \E p \in Evaluators :
        \/ \E e \in Evaluations : \E at \in PaperTimes : ClaimAttempt(p, e, at)
        \/ EvaluationStep(p)
        \/ AbandonEvaluation(p)
    \/ Measure

(* A call runs on unless its process dies.                                  *)
Fairness == \A p \in Evaluators : WF_paperVars(EvaluationStep(p))

PaperSpec == PaperInit /\ [][PaperNext]_paperVars /\ Fairness

-----------------------------------------------------------------------------
AttemptsOf(e) == {attempts[e][i] : i \in 1 .. Len(attempts[e])}

(* A stored result can be answered again at any later time: its decision is *)
(* in the journal with a receipt no later than the result, and the result   *)
(* is dated by one of its own attempts.  A receipt is the trace of an       *)
(* attempt, also when the process died before it stored the result, and     *)
(* never stands in the way of the next attempt of its own evaluation.       *)
ResultIsExplained ==
    /\ \A e \in Evaluations : completed[e] # Unset =>
        /\ Journal!Known(DecisionOf[e], completed[e])
        /\ completed[e] \in AttemptsOf(e)
        /\ claimed[e] <= completed[e]
    /\ \A d \in Decisions : receipts[d] # Unset =>
        \E e \in Evaluations :
            /\ DecisionOf[e] = d
            /\ receipts[d] \in AttemptsOf(e)
            /\ receipts[d] <= LastAttempt(e)
    /\ Journal!OutcomesFollowDecisions

(* Stored results, first receipts and outcomes are never written again, and *)
(* of attempts that overlap only the latest stores a result.                *)
ResultsAreFinal ==
    [][/\ \A e \in Evaluations :
            /\ completed[e] # Unset => completed'[e] = completed[e]
            /\ completed'[e] # completed[e] => completed'[e] >= LastAttempt(e)
       /\ \A d \in Decisions : receipts[d] # Unset => receipts'[d] = receipts[d]
       /\ \A m \in Measurements : outcomes[m] # Unset => outcomes'[m] = outcomes[m]]_paperVars

(* evaluate() always comes to an end.                                       *)
EvaluationEnds ==
    \A p \in Evaluators : evaluating[p] # NotEvaluating ~> evaluating[p] = NotEvaluating
=============================================================================
