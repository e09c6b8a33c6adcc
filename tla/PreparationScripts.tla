------------------------ MODULE PreparationScripts ------------------------
(***************************************************************************)
(* The scripts that prepare and collect campaigns and build the datasets.  *)
(* What a campaign does while it runs is in CaptureCampaign, what the      *)
(* dataset holds in OperationalDataset; here are the files.                *)
(***************************************************************************)
EXTENDS TrainingScripts

scenarios == In("scenarios")
server_exe == In("server_exe")
contract == In("contract")
locked_inputs == {design, server_exe, scenarios, contract, code}

-----------------------------------------------------------------------------
(* campaign.py *)

\* The contract is hashed and then opened again for the copy in the manifest.
prepare_campaign(c) ==
    << Take({scenarios}),
       Hash({server_exe}),
       Check,
       Create({Out(c, "directory")}),
       Put({Out(c, "expectations")}),
       Hash({Out(c, "expectations")}),
       Put({Out(c, "configs")}),
       Hash({contract}),
       Peek({contract}),
       Rewrite(Out(c, "campaign_manifest"), {scenarios, server_exe, Out(c, "expectations"), contract, code}) >>

\* The run directories are created by the collector, never taken over.
run_campaign(o) ==
    << Read({In("campaign_manifest")}),
       Check,
       Create({Out(o, "captures")}) >>

audit_campaign_files(C) ==
    << Read({In("campaign_manifest")} \cup C),
       Check >>

save_quality_report(o) == <<Put({Out(o, "quality_report")})>>

-----------------------------------------------------------------------------
(* augmentation.py *)

prepare_batch(o, c) ==
    << Peek({design}), Check >>
    \o freeze_reference
    \o << Check,
          Hash(locked_inputs),
          Create({Out(o, "directory")}),
          Rewrite(Out(o, "assignment_manifest"), {selection, frozen, experiment_manifest} \cup locked_inputs) >>
    \o prepare_campaign(c)
    \o <<Rewrite(Out(o, "prepared_manifest"), {Out(o, "assignment_manifest"), Out(c, "campaign_manifest")})>>

prepared == In("prepared")
campaign_manifest == In("campaign_manifest")

snapshot_inputs(C) == <<Hash({campaign_manifest} \cup C)>>

load_runs(C) ==
    << Hash({contract}),
       Peek({registry}),
       Hash({registry}),
       Peek({campaign_manifest}) >>
    \o snapshot_inputs(C)
    \o audit_campaign_files(C)
    \o <<Read(C), Check>>

\* operational_dataset.py; C is what the campaigns recorded
build_dataset(o, C) ==
    << Absent({Out(o, "dataset")}),
       Peek({contract}),
       Hash({contract}) >>
    \o load_runs(C)
    \o << Check,
          Verify({contract, registry, campaign_manifest} \cup C),
          Create({Out(o, "dataset")}),
          Create({Out(o, "tables")}),
          Hash({Out(o, "tables")}),
          Put({Out(o, "documents")}),
          Hash({Out(o, "documents")}),
          Rewrite(Out(o, "dataset_manifest"),
                  {contract, registry, campaign_manifest, Out(o, "tables"), Out(o, "documents"), code} \cup C) >>

save_report(o) == <<Put({Out(o, "dataset_report")})>>

summarize_controls(o) ==
    <<Read({Out(o, "tables"), campaign_manifest, Out(o, "captures")})>>

save_batch_report(o) ==
    << Rewrite(Out(o, "report"), {registry, Out(o, "dataset_manifest")}),
       Put({Out(o, "markdown")}) >>

collect_batch(o) ==
    LET runtime == Out(o, "batch_runtime")
    IN  << Absent({Out(o, "dataset"), Out(o, "dataset_report"), runtime} \cup Reports(o)),
           Claim(registry, locked_inputs, {}),
           Claim(prepared, {registry, campaign_manifest}, {}),
           Try(runtime),
           VerifyAll,
           Check,
           VerifyAll >>
        \o run_campaign(o)
        \o audit_campaign_files({Out(o, "captures")})
        \o save_quality_report(o)
        \o << Put({runtime}),
              Check,
              VerifyAll,
              Put({Out(o, "dataset_config")}) >>
        \o build_dataset(o, {Out(o, "captures")})
        \o <<VerifyAll>>
        \o save_report(o)
        \o <<Hash({registry, Out(o, "dataset_manifest")})>>
        \o summarize_controls(o)
        \o save_batch_report(o)
        \o <<Put({runtime})>>

-----------------------------------------------------------------------------
(* recovery.py *)

diagnosis == In("diagnosis")

require_new_outputs(o) == <<Absent({Out(o, "dataset"), Out(o, "dataset_report")} \cup Reports(o))>>

freeze_recovery_reference ==
    << Peek({final_report}),
       Described(diagnosis, {design, final_report}),
       Claim(diagnosis, {frozen}, {}),
       Hash({final_report, diagnosis}),
       Verify({frozen, final_report, diagnosis}) >>

prepare_recovery_batch(o, c) ==
    require_new_outputs(o)
    \o << Peek({design, previous_plan}), Check >>
    \o freeze_recovery_reference
    \o << Check,
          Hash({previous_plan} \cup locked_inputs),
          Create({Out(o, "directory")}),
          Try(Out(o, "preparation_failure")),
          Rewrite(Out(o, "assignment_manifest"), {frozen, final_report, diagnosis, previous_plan} \cup locked_inputs) >>
    \o prepare_campaign(c)
    \o << Read({Out(c, "campaign_manifest")}),
          Hash({Out(c, "campaign_manifest"), Out(c, "configs"), Out(c, "expectations")}),
          VerifyAll,
          Rewrite(Out(o, "prepared_manifest"),
                 {Out(o, "assignment_manifest")} \cup {Out(c, n) : n \in {"campaign_manifest", "configs", "expectations"}}) >>

collect_recovery_batch(o) ==
    LET runtime == Out(o, "batch_runtime")
        made == Reports(o) \cup {Out(o, n) : n \in {"dataset_report", "dataset_manifest", "tables", "documents"}}
    IN  << Absent({runtime}),
           Claim(registry, {previous_plan} \cup locked_inputs, {}),
           Claim(prepared, {registry, campaign_manifest}, {}),
           Check >>
        \o require_new_outputs(o)
        \o << Hash({prepared}),
              Try(runtime),
              VerifyAll,
              Check,
              Put({runtime}),
              VerifyAll >>
        \o run_campaign(o)
        \o audit_campaign_files({Out(o, "captures")})
        \o save_quality_report(o)
        \o << Put({runtime}),
              Check,
              VerifyAll,
              Put({Out(o, "dataset_config")}) >>
        \o build_dataset(o, {Out(o, "captures")})
        \o << Check, VerifyAll >>
        \o save_report(o)
        \o summarize_controls(o)
        \o << Put({Out(o, "report")}),
              Put({Out(o, "markdown")}),
              Hash(made),
              VerifyAll,
              Rewrite(Out(o, "completion_manifest"),
                      {registry, prepared, campaign_manifest, previous_plan, Out(o, "captures")} \cup locked_inputs \cup made),
              Put({runtime}) >>

-----------------------------------------------------------------------------
(* operational_sequences.py *)

save_split(o) == <<Create({Out(o, "windows")})>>
load_split(o) == <<Read({Out(o, "windows")})>>

build_sequences(o) ==
    LET lock == Out(o, "window_protocol_lock")
    IN  <<Absent(Outputs(o))>>
        \o load_operational_data
        \o << Read({dataset_manifest}),
              Check,
              Create({Out(o, "directory")}),
              Create({lock}),
              Hash({lock}),
              Check >>
        \o save_split(o)
        \o load_split(o)
        \o << Check,
              Create({Out(o, "schema")}),
              Verify(dataset \cup {lock}),
              Publish(Out(o, "sequence_manifest"), {Out(o, "windows"), Out(o, "schema"), code}),
              Create({Out(o, "markdown")}),
              Create({Out(o, "report")}) >>

=============================================================================
