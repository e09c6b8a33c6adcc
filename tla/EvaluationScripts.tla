------------------------- MODULE EvaluationScripts -------------------------
(***************************************************************************)
(* The scripts that read a trained candidate: cost measurement, the        *)
(* evaluation on the holdout, the approved bundle and its loading by the   *)
(* API.  o is the artifact directory with the report prefix.               *)
(***************************************************************************)
EXTENDS FileSteps

(* The dataset, as one file per kind: the manifest, the documents (schema,
   label map, split manifest) and the Train and Validation tables. *)
dataset_manifest == In("dataset_manifest")
documents == In("documents")
learning == In("learning")
dataset == {dataset_manifest, documents, learning}
code == In("code")
config == In("config")

\* No step of it touches Test, not even to hash it.
load_operational_data ==
    << Manifest(dataset_manifest, {documents, learning}),
       Verified({documents}),
       Verified({learning}) >>

-----------------------------------------------------------------------------
(* The holdout *)

expected_test_hashes == <<Expect(dataset_manifest)>>

reserve_holdout(gate) ==
    << Verify({gate}),
       Read({gate}),
       Reserve,
       Settle >>

load_test(gate) ==
    << Verify({gate}),
       Read({gate}),
       Allowed(gate),
       VerifyAll,
       Read({dataset_manifest}),
       Verify({dataset_manifest}),
       AsExpected(dataset_manifest),
       OpenTest,
       Read({documents}),
       Check >>

-----------------------------------------------------------------------------
(* Frozen models *)

manifest_evidence(m, F) ==
    << Claim(m, F, dataset),
       Hash({m}),
       Verify(F \cup {m}) >>

\* The digest is compared and then the file is opened again to be loaded.
FrozenRuntime(F) ==
    << Verify(F),
       Read(F) >>

load_verified_model(m, F) ==
    << Manifest(m, F),
       Verified(F),
       Check >>

lr_rf == In("lr_rf")
lstm == In("lstm")
reports == In("reports")
training_manifest == In("training_manifest")

freeze_models ==
    <<Peek({reports})>>
    \o manifest_evidence(In("lr_rf_manifest"), {lr_rf, training_manifest, reports})
    \o manifest_evidence(In("lstm_manifest"), {lstm, reports})
    \o << Hash({reports}), VerifyAll >>
    \o load_verified_model(training_manifest, {lr_rf})
    \o <<Hash({lr_rf, lstm})>>
    \o FrozenRuntime({lr_rf, lstm})
    \o << Check, VerifyAll >>

-----------------------------------------------------------------------------
(* The measuring worker is a process of its own for which the parent waits. *)

measure(o, F) ==
    << Read({Out(o, "job")}),
       Verify({Out(o, "input")}),
       Read({Out(o, "input")}) >>
    \o FrozenRuntime(F)
    \o << Check,
          Create({Out(o, "process")}) >>

benchmark_models(o, F) ==
    << Create({Out(o, "benchmark")}),
       Create({Out(o, "input")}),
       Hash({Out(o, "input")}),
       Create({Out(o, "job")}) >>
    \o measure(o, F)
    \o << Read({Out(o, "process")}),
          Verify({Out(o, "input")}),
          Check,
          Hash({Out(o, "input"), Out(o, "job"), Out(o, "process")}) >>

-----------------------------------------------------------------------------
(* run_operational_final_evaluation.py *)

windows == In("windows")
sequence_manifest == In("sequence_manifest")

export_bundle(o) ==
    << Create({Out(o, "deployment_bundle")}),
       Copy(lr_rf, Out(o, "model")),
       Matches(Out(o, "model"), lr_rf),
       Create({Out(o, "decision_policy")}),
       Create({Out(o, "deployment_manifest")}) >>

run_evaluation(o) ==
    LET gate == Out(o, "candidate_lock")
        lock == Out(o, "protocol_lock")
        outputs == {Out(o, "report"), Out(o, "markdown"), Out(o, "predictions")}
        artifacts == {lock, gate} \cup {Out(o, n) : n \in {"input", "job", "process", "test_windows",
                         "model", "decision_policy", "deployment_manifest"}}
    IN  <<Absent({Out(o, "directory")} \cup outputs)>>
        \o load_operational_data
        \o manifest_evidence(sequence_manifest, {windows})
        \o << Read({windows}), Check >>
        \o freeze_models
        \o <<Hash({code})>>
        \o expected_test_hashes
        \o << Create({Out(o, "directory")}),
              Create({lock}),
              Hash({lock}) >>
        \o benchmark_models(o, {lr_rf, lstm})
        \o <<VerifyAll>>
        \o Maybe(
               << Create({gate}),
                  Hash({gate}) >>
               \o reserve_holdout(gate)
               \o load_test(gate)
               \o << Create({Out(o, "test_windows")}),
                     Read({Out(o, "test_windows")}),
                     Check >>
               \o Maybe(export_bundle(o))
               \o <<Create({Out(o, "predictions")})>>)
        \o << VerifyAll,
              Create({Out(o, "report")}),
              Create({Out(o, "markdown")}),
              Publish(Out(o, "evaluation_manifest"), artifacts \cup outputs) >>

-----------------------------------------------------------------------------
(* run_operational_recovery_cost.py *)

candidate == In("candidate")     \* the trained model with its schemas and summary
experiment == In("experiment")   \* protocol lock, selection and report of the experiment
experiment_manifest == In("experiment_manifest")
design == In("design")

training_evidence ==
    << Claim(experiment_manifest, {candidate, experiment}, dataset),
       Hash({experiment_manifest}),
       VerifyWithoutTest,
       Read({experiment}),
       Claim(experiment, dataset \cup {design}, dataset),
       VerifyWithoutTest,
       Read({design}) >>

freeze_selected(o) ==
    << Read({candidate}),
       Create({Out(o, "candidate_bundle")}),
       Copy(candidate, Out(o, "model")),
       Equal(Out(o, "model"), candidate),
       Hash({Out(o, "model")}),
       Create({Out(o, "decision_policy")}),
       Hash({Out(o, "decision_policy")}) >>
    \o FrozenRuntime({Out(o, "model")})
    \o << Read({candidate}), Check >>

\* Mutant: only the names in the evidence are looked at.
Mutverify_without_holdout == <<Check>>

verify_without_holdout == <<VerifyWithoutTest>>
validate_cost_runs == <<Check>>

run_cost(o) ==
    LET gate == Out(o, "candidate_lock")
        lock == Out(o, "cost_protocol_lock")
        outputs == {Out(o, "report"), Out(o, "markdown")}
        artifacts == {lock, gate} \cup {Out(o, n) : n \in {"model", "decision_policy", "input", "job", "process"}}
    IN  <<Absent({Out(o, "directory")} \cup outputs)>>
        \o load_operational_data
        \o <<Read({dataset_manifest})>>
        \o training_evidence
        \o <<Hash({code, config})>>
        \o verify_without_holdout
        \o << Create({Out(o, "directory")}),
              Try(Out(o, "cost_failure")) >>
        \o freeze_selected(o)
        \o expected_test_hashes
        \o << Create({lock}), Hash({lock}) >>
        \o benchmark_models(o, {Out(o, "model")})
        \o verify_without_holdout
        \o validate_cost_runs
        \o verify_without_holdout
        \o Maybe(expected_test_hashes \o << Create({gate}), Hash({gate}) >>)
        \o << Create({Out(o, "report")}),
              Create({Out(o, "markdown")}) >>
        \o verify_without_holdout
        \o <<Publish(Out(o, "cost_manifest"), artifacts \cup outputs)>>

-----------------------------------------------------------------------------
(* run_operational_recovery_test.py.  The digests of cost_manifest and of
   the candidate lock are given by the configuration. *)

cost == In("cost")               \* the artifacts and reports of the cost run, its model apart
cost_manifest == In("cost_manifest")
candidate_lock == In("candidate_lock")
locked == In("locked")           \* the model the lock names

verify_cost_completion ==
    << Pin({cost_manifest, candidate_lock}),
       Claim(cost_manifest, {cost, locked}, {}),
       Read({candidate_lock}),
       Hash({cost_manifest, candidate_lock}),
       VerifyWithoutTest,
       Read({cost}) >>
    \o << Expect(candidate_lock), AsExpected(dataset_manifest) >>
    \o << Claim(cost, dataset, {}),
          Claim(candidate_lock, dataset \cup {locked}, dataset),
          VerifyWithoutTest >>
    \o validate_cost_runs
    \o << Verify({cost}), Read({cost}) >>

validate_runtime == FrozenRuntime({locked}) \o <<Read({locked})>>

export_approved_bundle(o) ==
    << Read({Out(o, "test_verdict")}),
       Verify({candidate_lock}),
       Create({Out(o, "deployment_bundle")}),
       Copy(locked, Out(o, "model")),
       Matches(Out(o, "model"), locked),
       Create({Out(o, "decision_policy")}),
       Create({Out(o, "deployment_manifest")}) >>

run_test(o) ==
    LET lock == Out(o, "evaluation_protocol_lock")
        outputs == {Out(o, "report"), Out(o, "markdown"), Out(o, "predictions")}
        artifacts == {lock} \cup {Out(o, n) : n \in {"test_verdict", "model", "decision_policy", "deployment_manifest"}}
    IN  <<Absent({Out(o, "directory")} \cup outputs)>>
        \o load_operational_data
        \o verify_cost_completion
        \o validate_runtime
        \o <<Hash({code, config})>>
        \o verify_without_holdout
        \o << Create({Out(o, "directory")}),
              Try(Out(o, "evaluation_failure")),
              Create({lock}),
              Hash({lock}) >>
        \o reserve_holdout(candidate_lock)
        \o verify_without_holdout
        \o load_test(candidate_lock)
        \o << Create({Out(o, "test_verdict")}),
              VerifyAll >>
        \o Maybe(export_approved_bundle(o))
        \o << Create({Out(o, "predictions")}),
              Read({Out(o, "predictions")}),
              Read({dataset_manifest}),
              Create({Out(o, "report")}),
              Create({Out(o, "markdown")}),
              VerifyAll,
              Publish(Out(o, "evaluation_manifest"), artifacts \cup outputs) >>

-----------------------------------------------------------------------------
(* The API's start: approved_bundle.py *)

\* Every file is read once, and the bytes that were checked are the ones used.
load_verified_bundle(o) ==
    LET bundle == {Out(o, n) : n \in {"model", "decision_policy", "deployment_manifest", "test_verdict"}}
    IN  << Pinned(Out(o, "evaluation_manifest"), bundle \cup {candidate_lock}),
           Verified(bundle),
           Agrees(candidate_lock, Out(o, "model"), locked),
           Check >>

=============================================================================
