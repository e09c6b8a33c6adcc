-------------------------- MODULE TrainingScripts --------------------------
(***************************************************************************)
(* The scripts that fit and select models and those that compare or audit  *)
(* them.  o is the artifact directory with the report prefix, c the        *)
(* directory of a candidate, e that of an experiment that another runs.    *)
(***************************************************************************)
EXTENDS EvaluationScripts

Reports(o) == {Out(o, "report"), Out(o, "markdown")}
Outputs(o) == {Out(o, "directory")} \cup Reports(o)

-----------------------------------------------------------------------------
(* train_operational_logistic_regression.py, train_operational_random_forest.py *)

train_logistic_regression(o) ==
    LET artifacts == {Out(o, "model"), Out(o, "schema"), Out(o, "predictions")}
    IN  <<Absent(Outputs(o))>>
        \o load_operational_data
        \o << Check,
              Create({Out(o, "directory")}),
              Put({Out(o, "model")}),
              Read({Out(o, "model")}),
              Check,
              Create({Out(o, "schema")}),
              Put({Out(o, "predictions")}),
              Hash(artifacts),
              Create({Out(o, "report")}),
              Create({Out(o, "markdown")}),
              Report(Out(o, "training_manifest"), dataset \cup artifacts \cup Reports(o) \cup {code}) >>

\* Another estimator; the same steps on the same files.
train_random_forest(o) == train_logistic_regression(o)

-----------------------------------------------------------------------------
(* run_operational_validation_experiment.py *)

fit_candidate(c) ==
    train_logistic_regression(c)
    \o << Unchanged(dataset),
          Verified({Out(c, "model")}),
          Check >>

run_experiment(o, c) ==
    LET lock == Out(o, "protocol_lock")
        artifacts == {lock, Out(o, "selection"), Out(o, "predictions")} \cup
                     {Out(c, n) : n \in {"model", "schema", "predictions", "training_manifest", "report", "markdown"}}
    IN  <<Absent(Outputs(o))>>
        \o load_operational_data
        \o << Create({Out(o, "directory")}),
              Create({lock}),
              Hash({lock}) >>
        \o fit_candidate(c)
        \o load_operational_data
        \o << Unchanged(dataset), Verify({lock}) >>
        \o Maybe(<<Put({Out(o, "predictions")})>>)
        \o << Create({Out(o, "selection")}),
              Create({Out(o, "report")}),
              Create({Out(o, "markdown")}),
              Report(Out(o, "experiment_manifest"), dataset \cup artifacts \cup Reports(o) \cup {code}) >>

-----------------------------------------------------------------------------
(* audit_frozen_operational_baseline.py and the augmentation experiment *)

selection == In("selection")
frozen == In("frozen")           \* the selected model with its schema and labels
protocol_lock == In("protocol_lock")
registry == In("registry")

\* data_collection/augmentation.py
freeze_reference ==
    << Peek({selection}),
       Claim(experiment_manifest, {selection, frozen}, {}),
       Verify({selection, frozen}),
       Described(selection, {frozen}),
       Hash({experiment_manifest}) >>

load_frozen_model ==
    freeze_reference
    \o << Read({selection}),
          Claim(experiment_manifest, {protocol_lock, frozen}, {}),
          Verified({protocol_lock, frozen}),
          Check,
          Verify({selection, frozen, protocol_lock, experiment_manifest}) >>

verify_campaign_assignment ==
    << Read({dataset_manifest}),
       Hash({registry}),
       Claim(dataset_manifest, {}, {registry}),
       Read({registry}),
       Read({documents}),
       Check >>

audit(o) ==
    LET tables == {Out(o, "predictions"), Out(o, "errors")}
    IN  <<Absent(tables \cup Reports(o))>>
        \o load_operational_data
        \o load_frozen_model
        \o verify_campaign_assignment
        \o << Check,
              VerifyAll,
              Create(tables),
              Create({Out(o, "markdown")}),
              VerifyAll,
              Publish(Out(o, "report"), tables \cup {code}) >>

audit_report == In("audit_report")
audit_table == In("audit_table")

load_audited_reference ==
    load_frozen_model
    \o verify_campaign_assignment
    \o << Claim(audit_report, {audit_table}, dataset),
          Verified({audit_table}),
          Check,
          Hash({audit_report}) >>

compare_augmentation(e, c) ==
    LET F == {Out(e, n) : n \in {"protocol_lock", "selection", "report", "markdown"}} \cup
             {Out(c, n) : n \in {"model", "training_manifest"}}
    IN  manifest_evidence(Out(e, "experiment_manifest"), F)
        \o load_verified_model(Out(c, "training_manifest"), {Out(c, "model")})
        \o << Verify(F \cup {Out(e, "experiment_manifest")}) >>

run_augmentation(o, e, c) ==
    LET lock == Out(o, "augmentation_protocol_lock")
    IN  <<Absent(Outputs(o) \cup Outputs(e))>>
        \o load_operational_data
        \o load_audited_reference
        \o << Hash({code, config}),
              Create({Out(o, "directory")}),
              Create({lock}),
              Hash({lock}) >>
        \o run_experiment(e, c)
        \o <<VerifyAll>>
        \o load_operational_data
        \o <<Unchanged(dataset)>>
        \o compare_augmentation(e, c)
        \o << VerifyAll,
              Create({Out(o, "predictions")}),
              Create({Out(o, "markdown")}),
              VerifyAll,
              Create({Out(o, "report")}),
              Publish(Out(o, "augmentation_manifest"),
                      {lock, Out(o, "predictions"), Out(e, "experiment_manifest")} \cup Reports(o) \cup Reports(e)) >>

-----------------------------------------------------------------------------
(* run_operational_recovery_experiment.py *)

previous_plan == In("previous_plan")
collection_report == In("collection_report")
completion == In("completion")
old_manifest == In("old_manifest")
old_data == In("old_data")
old_training_manifest == In("old_training_manifest")
old_model == In("old_model")

verify_provenance ==
    << Claim(collection_report, {registry}, {dataset_manifest}),
       Described(registry, {design}),
       Claim(completion, {collection_report}, dataset \cup {registry}),
       Hash({completion}),
       Verify({collection_report, registry, completion} \cup dataset),
       Check >>

load_withheld_reference ==
    << Manifest(old_manifest, {old_data}),
       Verified({old_data}) >>
    \o load_verified_model(old_training_manifest, {old_model})
    \o << Claim(registry, {}, {old_model}),
          Verify({old_model}) >>

fit_recovery_candidate(c) ==
    << Create({Out(c, "directory")}),
       Check,
       Put({Out(c, "model")}),
       Read({Out(c, "model")}),
       Check,
       Create({Out(c, "schema")}),
       Create({Out(c, "training_summary")}),
       Create({Out(c, "predictions")}),
       Read({Out(c, "predictions")}),
       Check >>

run_recovery(o, c) ==
    LET lock == Out(o, "protocol_lock")
        artifacts == {lock} \cup {Out(o, n) : n \in {"schema", "selection", "predictions"}} \cup
                     {Out(c, n) : n \in {"model", "schema", "training_summary", "predictions"}}
    IN  << Absent(Outputs(o)),
           Peek({design, previous_plan}),
           Check >>
        \o load_operational_data
        \o verify_provenance
        \o load_withheld_reference
        \o << Hash({design, previous_plan, code, config}),
              VerifyAll,
              Create({Out(o, "directory")}),
              Create({lock}),
              Hash({lock}),
              Try(Out(o, "experiment_failure")),
              Create({Out(o, "schema")}),
              VerifyAll >>
        \o fit_recovery_candidate(c)
        \o << VerifyAll,
              Check,
              Create({Out(o, "selection")}),
              Create({Out(o, "predictions")}),
              VerifyAll,
              Create({Out(o, "report")}),
              Create({Out(o, "markdown")}),
              VerifyAll,
              Publish(Out(o, "experiment_manifest"), artifacts \cup Reports(o)) >>

-----------------------------------------------------------------------------
(* run_operational_lstm_experiment.py, operational_lstm.py *)

plan == In("plan")
comparison == In("comparison")

load_plan == <<Peek({plan})>>

load_sequence_data ==
    manifest_evidence(sequence_manifest, {windows})
    \o << Read({windows}), Check >>

load_selected_reference ==
    << Claim(experiment_manifest, {selection, candidate, training_manifest}, dataset),
       Hash({experiment_manifest, comparison}),
       Verify({experiment_manifest, comparison, selection, candidate, training_manifest}),
       Read({selection}),
       Described(selection, {candidate}) >>
    \o load_verified_model(training_manifest, {candidate})
    \o << Read({comparison}), Check >>

save_checkpoint(c) == <<Create({Out(c, "model")})>>
load_checkpoint(c) == << Read({Out(c, "model")}), Check >>

\* ModelSelection has the epochs.
fit_lstm_candidate(c) ==
    << Create({Out(c, "directory")}), Check >>
    \o save_checkpoint(c)
    \o load_checkpoint(c)
    \o <<Create({Out(c, "training_history")})>>

run_lstm(o, c) ==
    LET lock == Out(o, "protocol_lock")
        artifacts == {lock} \cup {Out(o, n) : n \in {"scaler", "schema", "selected_predictions", "selection"}} \cup
                     {Out(c, n) : n \in {"model", "training_history", "candidate_report"}}
        outputs == Reports(o) \cup {Out(o, "predictions")}
    IN  <<Absent(Outputs(o) \cup outputs)>>
        \o load_plan
        \o load_operational_data
        \o load_sequence_data
        \o load_selected_reference
        \o << Hash({plan, code}),
              Create({Out(o, "directory")}),
              Create({lock}),
              Hash({lock}),
              Put({Out(o, "scaler")}),
              Read({Out(o, "scaler")}),
              Check,
              Create({Out(o, "schema")}) >>
        \o fit_lstm_candidate(c)
        \o <<Create({Out(c, "candidate_report")})>>
        \o Maybe(<<Create({Out(o, "selected_predictions")})>>)
        \o << Create({Out(o, "selection")}),
              VerifyAll,
              Create({Out(o, "predictions")}),
              Create({Out(o, "report")}),
              Create({Out(o, "markdown")}),
              Publish(Out(o, "experiment_manifest"), artifacts \cup outputs) >>

-----------------------------------------------------------------------------
(* analyze_operational_errors.py *)

experiment_report == In("experiment_report")
selected_predictions == In("selected_predictions")

\* The manifest of the candidate, read a second time, is still the one that
\* the experiment names.
load_selection ==
    << Manifest(experiment_manifest, {selection, protocol_lock, training_manifest, candidate,
                                      experiment_report, selected_predictions}),
       Agrees(selection, candidate, candidate),
       Verified({protocol_lock}),
       Check,
       Verified({candidate, training_manifest}) >>
    \o load_verified_model(training_manifest, {candidate})
    \o << Unchanged({training_manifest}),
          Verified({experiment_report}),
          Check,
          Verified({selected_predictions}) >>

augmentation_design == << Peek({plan}), Hash({plan}) >>

analyze(o) ==
    <<Absent(Reports(o) \cup {Out(o, "errors")})>>
    \o load_operational_data
    \o load_selection
    \o <<Check>>
    \o augmentation_design
    \o << Hash({code}),
          Create({Out(o, "errors")}),
          Hash({Out(o, "errors")}),
          Publish(Out(o, "report"), {}),
          Create({Out(o, "markdown")}) >>

-----------------------------------------------------------------------------
(* analyze_operational_rf_errors.py *)

final_report == In("final_report")

\* What the model's files and its manifest were when they were loaded is
\* forgotten: their digests are taken again for the lock.
run_diagnosis(o) ==
    LET lock == Out(o, "diagnosis_lock")
        tables == {Out(o, "predictions"), Out(o, "errors")}
    IN  <<Absent(Outputs(o) \cup tables)>>
        \o load_operational_data
        \o << Peek({comparison}),
              Claim(final_report, {candidate}, {}),
              Check,
              Peek({design, previous_plan}),
              Check >>
        \o load_verified_model(training_manifest, {candidate})
        \o << AsFirst({candidate}),
              Hash({config, design, previous_plan, comparison, final_report,
                    training_manifest, candidate, code}),
              Create({Out(o, "directory")}),
              Create({lock}),
              Try(Out(o, "diagnosis_failure")),
              Check,
              VerifyAll,
              Publish(Out(o, "report"), {lock}),
              Create({Out(o, "markdown")}),
              Create(tables),
              VerifyAll,
              Publish(Out(o, "diagnosis_manifest"), {lock} \cup tables \cup Reports(o)) >>

-----------------------------------------------------------------------------
(* compare_operational_baselines.py: what the report says is read once *)

compare_models(o) ==
    <<Absent(Reports(o))>>
    \o load_operational_data
    \o load_verified_model(In("lr_manifest"), {In("lr")})
    \o load_verified_model(In("rf_manifest"), {In("rf")})
    \o << Publish(Out(o, "report"), {code}),
          Create({Out(o, "markdown")}) >>

=============================================================================
