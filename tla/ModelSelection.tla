--------------------------- MODULE ModelSelection ---------------------------
(***************************************************************************)
(* How candidates are judged and chosen (src/AI/training/...,              *)
(* src/AI/evaluation/...): the counts behind the metrics, the trials of    *)
(* every candidate and threshold, the rules that choose one of them on     *)
(* Validation, with cost, and on Test, and the early stopping of the       *)
(* sequence model.                                                         *)
(*                                                                         *)
(* A judged row is a label, a scenario, a message index and a campaign;    *)
(* the probability of a candidate is in tenths.  A rate is a fraction      *)
(* <<n, d>>, or NoRate where the code has None or NaN.                     *)
(***************************************************************************)
EXTENDS Integers, Sequences, SequencesExt, FiniteSets, FiniteSetsExt

NoRate == <<0, 0>>
NoTrial == [candidate_id |-> "none"]

Rate(n, d) == IF d = 0 THEN NoRate ELSE <<n, d>>
RateLess(a, b) == a[1] * b[2] < b[1] * a[2]

Predicted(probability, threshold) == IF probability >= threshold THEN 1 ELSE 0

\* The counts over the rows that are selected.
Counts(rows, probability, threshold, P(_)) ==
    LET n(label, predicted) ==
            Cardinality({i \in 1..Len(rows) :
                /\ P(rows[i]) /\ rows[i].label = label
                /\ Predicted(probability[i], threshold) = predicted})
    IN  [tn |-> n(0, 0), fp |-> n(0, 1), fn |-> n(1, 0), tp |-> n(1, 1)]

FalsePositiveRate(c) == Rate(c.fp, c.fp + c.tn)
Recall(c) == Rate(c.tp, c.tp + c.fn)

\* zero_division=0 in recall and f1; the rates need rows of both labels.
calculate_metrics(rows, probability, threshold) ==
    LET c == Counts(rows, probability, threshold, LAMBDA row : TRUE)
    IN  [counts |-> c,
         recall |-> IF c.tp + c.fn = 0 THEN <<0, 1>> ELSE Recall(c),
         f1 |-> IF 2 * c.tp + c.fp + c.fn = 0 THEN <<0, 1>>
                ELSE <<2 * c.tp, 2 * c.tp + c.fp + c.fn>>,
         false_positive_rate |-> FalsePositiveRate(c)]

scenario_metrics(rows, probability, threshold) ==
    [s \in {rows[i].scenario_id : i \in 1..Len(rows)} |->
        LET c == Counts(rows, probability, threshold, LAMBDA row : row.scenario_id = s)
        IN  [counts |-> c, recall |-> Recall(c), false_positive_rate |-> FalsePositiveRate(c)]]

message_position_counts(rows, probability, threshold) ==
    [first_message |-> Counts(rows, probability, threshold,
                              LAMBDA row : row.request_index = 1),
     later_messages |-> Counts(rows, probability, threshold,
                               LAMBDA row : row.request_index # 1)]

\* compare_operational_lstm.py: by how much of the window was filled.
coverage_metrics(rows, probability, threshold, width) ==
    [length_one |-> Counts(rows, probability, threshold, LAMBDA row : row.length = 1),
     partial |-> Counts(rows, probability, threshold,
                        LAMBDA row : row.length > 1 /\ row.length < width),
     full_window |-> Counts(rows, probability, threshold,
                            LAMBDA row : row.length = width)]

\* run_operational_recovery_test.py, with the results per campaign.
evaluate_test(rows, probability, threshold) ==
    [metrics |-> calculate_metrics(rows, probability, threshold),
     by_scenario |-> scenario_metrics(rows, probability, threshold),
     by_message_position |-> message_position_counts(rows, probability, threshold),
     by_campaign |-> [c \in {rows[i].campaign_id : i \in 1..Len(rows)} |->
         Counts(rows, probability, threshold, LAMBDA row : row.campaign_id = c)]]

\* What became of each row between two predictions.
prediction_transitions(rows, before, after, threshold) ==
    LET label(i) == rows[i].label
        was(i) == Predicted(before[i], threshold)
        is(i) == Predicted(after[i], threshold)
        count(P(_)) == Cardinality({i \in 1..Len(rows) : P(i)})
    IN  [both_correct |-> count(LAMBDA i : was(i) = label(i) /\ is(i) = label(i)),
         both_wrong |-> count(LAMBDA i : was(i) # label(i) /\ is(i) # label(i)),
         corrected_fp |-> count(LAMBDA i : label(i) = 0 /\ was(i) = 1 /\ is(i) = 0),
         corrected_fn |-> count(LAMBDA i : label(i) = 1 /\ was(i) = 0 /\ is(i) = 1),
         new_fp |-> count(LAMBDA i : label(i) = 0 /\ was(i) = 0 /\ is(i) = 1),
         new_fn |-> count(LAMBDA i : label(i) = 1 /\ was(i) = 1 /\ is(i) = 0)]

-----------------------------------------------------------------------------
(* compare_operational_recovery.py *)

Exceeds(rate, limit) == rate = NoRate \/ RateLess(limit, rate)
Misses(rate, limit) == rate = NoRate \/ RateLess(rate, limit)

rejection_reasons(trial, criteria) ==
    LET batch == IF "normal_batched_chat" \in DOMAIN trial.by_scenario
                 THEN trial.by_scenario["normal_batched_chat"].false_positive_rate
                 ELSE NoRate
    IN  {reason \in {"fpr", "batched fpr", "recall"} :
            CASE reason = "fpr" -> Exceeds(trial.metrics.false_positive_rate,
                                           criteria.max_false_positive_rate)
              [] reason = "batched fpr" -> Exceeds(batch,
                                           criteria.max_normal_batched_false_positive_rate)
              [] reason = "recall" -> Misses(trial.metrics.recall, criteria.min_recall)}

make_trial(candidate, rows, probability, threshold, criteria) ==
    LET trial == [candidate_id |-> candidate, threshold |-> threshold,
                  metrics |-> calculate_metrics(rows, probability, threshold),
                  by_scenario |-> scenario_metrics(rows, probability, threshold)]
    IN  [trial |-> trial, reasons |-> rejection_reasons(trial, criteria)]

\* The order in which trials are preferred; ids are numbers.
\* Mutant: the threshold does not break a tie.
MutPreferred(a, b) ==
    \/ RateLess(b.metrics.recall, a.metrics.recall)
    \/ /\ ~RateLess(a.metrics.recall, b.metrics.recall)
       /\ RateLess(b.metrics.f1, a.metrics.f1)

Preferred(a, b) ==
    LET better == << RateLess(b.metrics.recall, a.metrics.recall),
                     RateLess(b.metrics.f1, a.metrics.f1),
                     RateLess(a.metrics.false_positive_rate, b.metrics.false_positive_rate),
                     a.candidate_id < b.candidate_id,
                     a.threshold < b.threshold >>
        worse == << RateLess(a.metrics.recall, b.metrics.recall),
                    RateLess(a.metrics.f1, b.metrics.f1),
                    RateLess(b.metrics.false_positive_rate, a.metrics.false_positive_rate),
                    b.candidate_id < a.candidate_id,
                    b.threshold < a.threshold >>
    IN  \E k \in 1..5 : better[k] /\ \A j \in 1..(k - 1) : ~worse[j]

\* Python's min: the first of the least.
FirstLeast(trials, less(_, _)) ==
    FoldLeft(LAMBDA best, trial : IF less(trial, best) THEN trial ELSE best,
             trials[1], trials)

choose_trial(trials, criteria) ==
    LET feasible == SelectSeq(trials, LAMBDA trial : rejection_reasons(trial, criteria) = {})
    IN  IF feasible = <<>> THEN NoTrial ELSE FirstLeast(feasible, Preferred)

-----------------------------------------------------------------------------
(* run_operational_validation_experiment.py, run_validation_experiment.py *)

metric_reasons(metrics, criteria) ==
    IF metrics.false_positive_rate = NoRate THEN {"invalid"}
    ELSE {reason \in {"fpr", "recall"} :
            IF reason = "fpr"
            THEN RateLess(criteria.max_false_positive_rate, metrics.false_positive_rate)
            ELSE RateLess(metrics.recall, criteria.min_recall)}

eligibility_reasons(trial, criteria) ==
    metric_reasons(trial.metrics, criteria) \cup
    (IF trial.training_acceptable THEN {} ELSE {"training"})

choose_validation_trial(trials, criteria) ==
    LET feasible == SelectSeq(trials, LAMBDA trial : eligibility_reasons(trial, criteria) = {})
    IN  IF feasible = <<>> THEN NoTrial ELSE FirstLeast(feasible, Preferred)

-----------------------------------------------------------------------------
(* Cost: operational_cost_worker.py, run_operational_final_evaluation.py,   *)
(* run_operational_recovery_cost.py                                         *)

probability_agreement(actual, expected, threshold, tolerance) ==
    \A i \in 1..Len(actual) :
        /\ actual[i] - expected[i] \in (-tolerance)..tolerance
        /\ Predicted(actual[i], threshold) = Predicted(expected[i], threshold)

NotMeasured == -1

\* Of several processes the worst counts; one without a peak leaves none.
summarize_cost(runs) ==
    [p95 |-> Max({runs[i].p95 : i \in 1..Len(runs)}),
     peak |-> IF \E i \in 1..Len(runs) : runs[i].peak = NotMeasured THEN NotMeasured
              ELSE Max({runs[i].peak : i \in 1..Len(runs)}),
     bytes |-> runs[1].bytes]

cost_rejections(cost, criteria) ==
    {name \in {"p95", "peak", "bytes"} :
        \/ cost[name] < 0
        \/ name = "peak" /\ cost[name] = 0
        \/ cost[name] > criteria[name]}

\* The final evaluation chooses among models with cost, before Test is read.
select_before_test(models, criteria) ==
    LET reasons(m) == metric_reasons(m.metrics, criteria) \cup cost_rejections(m.cost, criteria)
        cost(m) == <<m.cost.p95, m.cost.peak, m.cost.bytes, m.candidate_id>>
        cheaper(a, b) == \E k \in 1..4 : /\ cost(a)[k] < cost(b)[k]
                                         /\ \A j \in 1..(k - 1) : cost(a)[j] = cost(b)[j]
        metrics(a, b) ==   \* the order of Preferred, candidates and thresholds aside
            Preferred([a EXCEPT !.candidate_id = 0, !.threshold = 0],
                      [b EXCEPT !.candidate_id = 0, !.threshold = 0])
        less(a, b) == metrics(a, b) \/ (~metrics(b, a) /\ cheaper(a, b))
        eligible == SelectSeq(models, LAMBDA m : reasons(m) = {})
    IN  IF eligible = <<>> THEN NoTrial ELSE FirstLeast(eligible, less)

-----------------------------------------------------------------------------
(* operational_lstm.py *)

NoLoss == 1000000   \* float("inf")

NewStopState == [best_loss |-> NoLoss, best_epoch |-> 0, stale_epochs |-> 0, stopped |-> FALSE]

StopUpdate(state, epoch, loss, patience) ==
    IF loss < state.best_loss
    THEN [best_loss |-> loss, best_epoch |-> epoch, stale_epochs |-> 0, stopped |-> FALSE]
    ELSE [state EXCEPT !.stale_epochs = @ + 1,
                       !.stopped = state.stale_epochs + 1 >= patience]

BestState(epoch, improved, best_state) == IF improved THEN epoch ELSE best_state

\* The epochs of fit_candidate: losses[e] is the Validation loss after epoch
\* e, and the weights are named by the epoch that produced them.
fit_candidate(losses, patience) ==
    LET epoch(acc, e) ==
            IF acc.stop.stopped THEN acc
            ELSE LET stop == StopUpdate(acc.stop, e, losses[e], patience)
                 IN  [stop |-> stop, used |-> e,
                      best_state |-> BestState(e, stop.best_epoch = e, acc.best_state)]
        end == FoldLeft(epoch, [stop |-> NewStopState, used |-> 0, best_state |-> 0],
                        [e \in 1..Len(losses) |-> e])
    IN  IF losses[end.best_state] # end.stop.best_loss THEN [ok |-> FALSE]
        ELSE [ok |-> TRUE, epochs_used |-> end.used, best_epoch |-> end.best_state,
              best_validation_loss |-> end.stop.best_loss,
              termination |-> IF end.stop.stopped THEN "early_stopping" ELSE "max_epochs"]
=============================================================================
