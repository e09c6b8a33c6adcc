------------------------- MODULE OperationalDataset -------------------------
(***************************************************************************)
(* The algorithms of OperationalRows, ModelSelection and CollectionDesign  *)
(* on every small input.  A behaviour takes one kind of input and grows    *)
(* it, element by element, in every order the program may meet: the runs   *)
(* of campaigns, the rows of a split, the judged rows of two candidates,   *)
(* the losses of epochs, the slots of a design.  The properties compare    *)
(* what is computed with what it has to be.                                *)
(***************************************************************************)
EXTENDS OperationalRows, ModelSelection, CollectionDesign

CONSTANT MaxLength   \* per kind of input, how long it may grow

VARIABLES kind, input

Kinds == {"runs", "rows", "judged", "losses", "slots"}

\* What the next element may be.
Elements ==
    CASE kind = "runs" -> [campaign : 1..3, repeat : 0..1, start : {0, 2, 3, 4}]
      [] kind = "rows" -> [run : 1..2, session : {1}, index : 1..3, received : {20, 30}]
                              \cup [run : {1}, session : {2}, index : 1..2, received : {20}]
      [] kind = "judged" -> [scenario : {"normal_chat", "normal_batched_chat", "controlled_burst_chat"},
                             index : 1..2, p : {4, 5, 6}, q : {4, 6}]
      [] kind = "losses" -> 1..3
      [] kind = "slots" -> {"train", "validation", "test"}

\* Campaigns are given in their order; a message is recorded once; judged rows
\* are counted, so only one order of their messages is taken; the first slot
\* of a design is Train, as in the two designs of the repository.
MayFollow(x) ==
    CASE kind = "runs" -> input # <<>> => Last(input).campaign <= x.campaign
      [] kind = "rows" -> \A i \in Positions(input) :
             [input[i] EXCEPT !.received = 20] # [x EXCEPT !.received = 20]
      [] kind = "judged" -> input # <<>> => Last(input).index <= x.index
      [] kind = "slots" -> input = <<>> => x = "train"
      [] OTHER -> TRUE

Init == kind \in Kinds /\ input = <<>>

Grow ==
    /\ Len(input) < MaxLength[kind]
    /\ \E x \in Elements : MayFollow(x) /\ input' = Append(input, x)
    /\ UNCHANGED kind

Spec == Init /\ [][Grow]_<<kind, input>>

-----------------------------------------------------------------------------
(* The split *)

Features(interval, index, received) ==
    [name \in Raw |-> CASE name = "packet_size" -> 10
                        [] name = "payload_size" -> 2
                        [] name = "connection_duration_ms" -> index
                        [] name = "message_interval_ms" -> interval
                        [] name = "bytes_received_total" -> received
                        [] OTHER -> 0]

Row(campaign, run, session, index, scenario, features, split) ==
    [campaign_id |-> campaign, run_id |-> run, session_id |-> session,
     request_index |-> index, scenario_id |-> scenario,
     label |-> SCENARIO_LABELS[scenario], features |-> features,
     block_id |-> <<>>, split |-> split]

\* A normal run and then a burst, each of two sessions, recorded in the order
\* in which the sessions happened to send.
CollectedRuns ==
    LET run(k, burst) ==
            LET x == input[k]
                id == 2 * k - (IF burst THEN 0 ELSE 1)
                scenario == IF burst THEN "controlled_burst_chat" ELSE "normal_chat"
                start == IF burst THEN x.start + 1 ELSE x.start
            IN  [campaign_id |-> x.campaign, run_id |-> id, scenario_id |-> scenario,
                 repeat_index |-> x.repeat, start |-> start, end |-> start + 1,
                 rows |-> [n \in 1..2 |-> Row(x.campaign, id, 3 - n, 1, scenario,
                               Features(0, 1, x.start + 10), "none")]]
    IN  FlattenSeq([k \in Positions(input) |-> <<run(k, FALSE), run(k, TRUE)>>])

Chronological ==
    [config_version |-> "v1", split_policy |-> "chronological_repeat_blocks",
     campaign_registry |-> <<>>, validation_blocks |-> 1, test_blocks |-> 1,
     require_all_scenarios_each_split |-> TRUE]
Holdout ==
    [Chronological EXCEPT !.config_version = "v2",
        !.split_policy = "preassigned_campaign_holdout",
        !.campaign_registry = <<"train", "validation", "test">>]

ASSUME ConfigsAssumption == DatasetConfig(Chronological) /\ DatasetConfig(Holdout)

\* What split_runs accepts passes validate_partitions; no row is lost; a
\* block is in one split; by time, nothing of a later split happened before
\* an earlier one had ended; a campaign that was held out is held out as a
\* whole; and the reports add up.
SplitIsSound ==
    kind = "runs" => \A config \in {Chronological, Holdout} :
        LET runs == CollectedRuns
            result == split_runs(runs, config)
            rows(s) == result.assigned[s]
            runOf(row) == runs[row.run_id]
        IN  result.ok =>
                /\ validate_partitions(result.assigned, Preassigned(config))
                /\ Len(rows("train")) + Len(rows("validation")) + Len(rows("test")) = 2 * Len(runs)
                /\ \A pair \in SplitPairs : \A a \in Range(rows(pair[1])), b \in Range(rows(pair[2])) :
                       /\ a.block_id # b.block_id
                       /\ ~Preassigned(config) => runOf(a).end <= runOf(b).start
                /\ Preassigned(config) => \A s \in Range(Splits) : \A a \in Range(rows(s)) :
                       config.campaign_registry[a.campaign_id] = s
                /\ LET report == duplicate_report(result.assigned)
                   IN  report.cross_split_feature_groups = 0 <=>
                           \A pair \in SplitPairs : report.pairwise_shared_feature_groups[pair] = 0
                /\ \A s \in Range(Splits) :
                       LET summary == split_summary(rows(s))
                       IN  /\ summary.label_distribution[0] + summary.label_distribution[1] = summary.rows
                           /\ summary.sessions = summary.rows /\ 2 * summary.runs = summary.rows

-----------------------------------------------------------------------------
(* Windows and prefix features *)

RecordedRows(split) ==
    [i \in Positions(input) |->
        LET x == input[i]
        IN  Row(1, x.run, x.session, x.index,
                IF x.run = 1 THEN "normal_chat" ELSE "controlled_burst_chat",
                Features(IF x.index = 1 THEN 0 ELSE 10 * x.run + x.index, x.index, x.received),
                split)]

\* The rows without those of the same session that come after row i.
UpTo(rows, i) ==
    SelectSeq(rows, LAMBDA row : ~(/\ GROUP_COLUMNS(row) = GROUP_COLUMNS(rows[i])
                                   /\ row.request_index > rows[i].request_index))
PlaceOf(row, rows) == CHOOSE i \in Positions(rows) : rows[i] = row

\* A window or a prefix feature of a message is what it would have been had
\* the session ended there, whatever order the rows are stored in; a window
\* is the message and what came before it in its own session; the two
\* implementations of windows agree, and only that of the final evaluation
\* takes Test.
FeaturesLookBack ==
    kind = "rows" /\ input # <<>> =>
        LET rows == RecordedRows("train")
            test == RecordedRows("test")
        IN  /\ ~make_windows(test, 2).ok
            /\ make_evaluation_windows(test, 2).ok = make_evaluation_windows(rows, 2).ok
            /\ make_evaluation_windows(test, 2).ok => validate_test_sessions(test)
            /\ \A width \in 1..3 :
                   LET made == make_windows(rows, width)
                   IN  /\ made = make_evaluation_windows(rows, width)
                       /\ made.ok =>
                              /\ validate_windows(made.windows, rows, width)
                              /\ \A i \in Positions(rows) :
                                     LET past == UpTo(rows, i)
                                         w == made.windows[i]
                                     IN  /\ w.source_row_ids = [k \in 1..w.length |->
                                                [row_id(rows[i]) EXCEPT ![4] = rows[i].request_index - w.length + k]]
                                         /\ make_windows(past, width).windows[PlaceOf(rows[i], past)].X = w.X
            /\ \A id \in DOMAIN TRANSFORM_COLUMNS :
                   LET made == transform_prefix_features(rows, id)
                   IN  made.ok => \A i \in Positions(rows) :
                           LET past == UpTo(rows, i)
                           IN  transform_prefix_features(past, id).rows[PlaceOf(rows[i], past)]
                                   = made.rows[i]

-----------------------------------------------------------------------------
(* Choices *)

JudgedRows ==
    [i \in Positions(input) |->
        [label |-> SCENARIO_LABELS[input[i].scenario], scenario_id |-> input[i].scenario,
         request_index |-> input[i].index, campaign_id |-> input[i].index,
         length |-> input[i].index]]
Probability(candidate) ==
    [i \in Positions(input) |-> IF candidate = 1 THEN input[i].p ELSE input[i].q]

Criteria ==
    [max_false_positive_rate |-> <<1, 2>>, min_recall |-> <<1, 2>>,
     max_normal_batched_false_positive_rate |-> <<1, 2>>,
     p95 |-> 25, peak |-> 512, bytes |-> 50]

Trial(candidate, threshold) ==
    make_trial(candidate, JudgedRows, Probability(candidate), threshold, Criteria).trial
Trials == <<Trial(2, 6), Trial(1, 5), Trial(2, 5), Trial(1, 6)>>

Costs ==
    LET run(p95, peak) == [p95 |-> p95, peak |-> peak, bytes |-> 10]
    IN  {summarize_cost(<<run(5, 100), run(9, 120)>>),
         summarize_cost(<<run(30, 100), run(5, 100)>>),
         summarize_cost(<<run(5, NotMeasured), run(5, 100)>>)}

Plus(a, b) == [f \in DOMAIN a |-> a[f] + b[f]]

\* A choice meets every criterion, nothing that meets them is better, and it
\* does not depend on the order of the trials: also with cost, where a model
\* whose memory was not measured is never chosen.  The counts by position,
\* by window and by transition are those of the whole.  The weights that are
\* kept are those of the first epoch with the least loss that was seen, and
\* training stops once no better one has come for `patience' epochs.
ChosenIsBest ==
    /\ kind = "judged" /\ {0, 1} = {SCENARIO_LABELS[input[i].scenario] : i \in Positions(input)} =>
           LET rows == JudgedRows
               choice == choose_trial(Trials, Criteria)
               feasible == {t \in Range(Trials) : rejection_reasons(t, Criteria) = {}}
               Accepting(m) == m @@ [training_acceptable |-> TRUE]
               trials == [i \in 1..4 |-> Accepting(Trials[i])]
               all == Trial(1, 5).metrics.counts
               test == evaluate_test(rows, Probability(1), 5)
               coverage == coverage_metrics(rows, Probability(1), 5, 2)
               moved == prediction_transitions(rows, Probability(1), Probability(2), 5)
               model(c, cost) == Trial(c, 5) @@ [cost |-> cost]
           IN  /\ choice = NoTrial <=> feasible = {}
               /\ feasible # {} => /\ choice \in feasible
                                   /\ \A t \in feasible : ~Preferred(t, choice)
               /\ choose_trial(Reverse(Trials), Criteria) = choice
               /\ choose_validation_trial(trials, Criteria)
                      = choose_validation_trial(Reverse(trials), Criteria)
               /\ Len(input) <= 2 => \A one, two \in Costs :
                      LET models == <<model(1, one), model(2, two)>>
                          chosen == select_before_test(models, Criteria)
                      IN  /\ chosen = select_before_test(Reverse(models), Criteria)
                          /\ chosen # NoTrial => cost_rejections(chosen.cost, Criteria) = {}
                                                     /\ chosen.cost.peak > 0
               /\ Plus(test.by_message_position.first_message, test.by_message_position.later_messages) = all
               /\ Plus(coverage.length_one, Plus(coverage.partial, coverage.full_window)) = all
               /\ moved.both_correct + moved.both_wrong + moved.corrected_fp + moved.corrected_fn
                      + moved.new_fp + moved.new_fn = Len(rows)
               /\ Trial(2, 5).metrics.counts.fp = all.fp - moved.corrected_fp + moved.new_fp
               /\ probability_agreement(Probability(1), Probability(2), 5, 1) =>
                      Trial(2, 5).metrics = Trial(1, 5).metrics
    /\ kind = "losses" /\ input # <<>> =>
           LET patience == 2
               fit == fit_candidate(input, patience)
               seen == SubSeq(input, 1, fit.epochs_used)
           IN  /\ fit.ok
               /\ fit.best_epoch = Min({e \in Positions(seen) : input[e] = Min(Range(seen))})
               /\ fit.epochs_used < Len(input) => fit.epochs_used = fit.best_epoch + patience

-----------------------------------------------------------------------------
(* Designs *)

ScenarioOrder == SetToSeq(Scenarios)
Design(first_seed) ==
    [scenario_ids |-> ScenarioOrder,
     campaign_slots |-> [i \in Positions(input) |-> [split |-> input[i], seed |-> first_seed + i]]]

\* A design of six slots is compiled, whichever slots are Train, Validation
\* and Test, into plans that the generator accepts, of which Train sees every
\* scenario at all three levels; the plans of the recovery design pass their
\* own coverage check; and a batch in which one message of a split, one run,
\* one session or one summary is missing is not taken for the planned one.
DesignCovers ==
    kind = "slots" /\ ValidDesign(Design(10)) =>
        LET plans == compile_plans(Design(10))
            recovery == compile_recovery_plans(Design(20), Design(10))
            planned == summarize_recovery_design(Design(20), recovery)
            trainWaits(scenario) ==
                {p.interval_min_ms : p \in {q \in UNION {Range(profiles_for_repeat(plans[s], repeat)) :
                      s \in {i \in 1..6 : input[i] = "train"}, repeat \in 0..1} :
                   q.scenario_id = scenario}}
            collected == [s \in DOMAIN planned |->
                [rows |-> planned[s].expected_message_rows, campaigns |-> planned[s].campaigns]]
            quality == [passed |-> TRUE, runs |-> 6 * 9 * 7, passed_runs |-> 6 * 9 * 7,
                        sessions |-> 6 * 9 * 7 * 4, summaries |-> 6 * 9 * 7 * 4,
                        messages |-> collected["train"].rows + collected["validation"].rows
                                         + collected["test"].rows]
        IN  /\ plans # <<>> /\ recovery # <<>>
            /\ \A s \in 1..6 : CampaignPlan(plans[s]) /\ CampaignPlan(recovery[s])
            /\ recovery_coverage(recovery)
            /\ \A scenario \in Scenarios \ {"controlled_burst_chat"} :
                   trainWaits(scenario) = {1, 5, 20}
            /\ compile_recovery_plans(Design(10), Design(10)) = <<>>
            /\ verify_collected_counts(planned, quality, collected)
            /\ \A s \in DOMAIN planned :
                   ~verify_collected_counts(planned, quality, [collected EXCEPT ![s].rows = @ - 1])
            /\ \A count \in {"runs", "passed_runs", "sessions", "summaries"} :
                   ~verify_collected_counts(planned, [quality EXCEPT ![count] = @ - 1], collected)
=============================================================================
