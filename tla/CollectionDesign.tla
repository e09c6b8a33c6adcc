-------------------------- MODULE CollectionDesign --------------------------
(***************************************************************************)
(* The two collection designs and the plans compiled from them:            *)
(* compile_plans (src/AI/data_collection/augmentation.py),                 *)
(* compile_recovery_plans and summarize_recovery_design                    *)
(* (recovery_design.py), recovery_coverage and verify_collected_counts     *)
(* (recovery.py).                                                          *)
(*                                                                         *)
(* A design is its slots, each with a split and a seed, and its scenarios. *)
(* The shuffle of a repeat is a rotation that depends on the seed.         *)
(***************************************************************************)
EXTENDS TrafficPlan, FiniteSets

Text == <<8, 24, 96, 384, 768>>
Waits == <<<<1, 4>>, <<5, 15>>, <<20, 40>>>>
Batches == <<1, 4, 8>>
Fragments == <<7, 19, 31>>
Concurrency == <<1, 2, 4>>
Batched == {"normal_batched_chat", "controlled_burst_chat"}

\* Python indices count from 0.
At(s, i) == s[i + 1]

CountOf(split, slots) == Cardinality({i \in Positions(slots) : slots[i].split = split})

\* Six campaigns with seeds of their own, 3/1/2, and every scenario.
ValidDesign(design) ==
    LET slots == design.campaign_slots
    IN  /\ Len(slots) = 6
        /\ IsInjective([i \in Positions(slots) |-> slots[i].seed])
        /\ CountOf("train", slots) = 3 /\ CountOf("validation", slots) = 1
        /\ CountOf("test", slots) = 2
        /\ Len(design.scenario_ids) = 7 /\ Range(design.scenario_ids) = Scenarios

shuffle(profiles, seed) ==
    LET n == Len(profiles)
    IN  [i \in 1..n |-> profiles[1 + ((i - 1 + seed) % n)]]

DesignProfile(scenario, concurrency, count, wait, batch, fragment) ==
    [scenario_id |-> scenario, sessions |-> 4, concurrency |-> concurrency,
     messages_min |-> count[1], messages_max |-> count[2], text_sizes |-> Text,
     interval_min_ms |-> IF scenario = "controlled_burst_chat" THEN 0 ELSE wait[1],
     interval_max_ms |-> IF scenario = "controlled_burst_chat" THEN 0 ELSE wait[2],
     batch_size |-> IF scenario \in Batched THEN batch ELSE 1,
     fragment_size_bytes |-> IF scenario = "normal_fragmented_chat" THEN fragment ELSE None]

PlanOf(slot, repeats, profiles(_)) ==
    LET shuffled(repeat) == shuffle(profiles(repeat), slot.seed * 1009 + repeat)
    IN  [plan_version |-> "v2", seed |-> slot.seed, repeats |-> repeats,
         profiles |-> shuffled(0),
         repeat_profiles |-> [n \in 1..repeats |-> shuffled(n - 1)]]

Level(slot_index, repeat, scenario_index) == (slot_index + repeat + scenario_index) % 3

\* The seeds of runs; a collision is an error in both compilers.
RunSeeds(plans) ==
    FlattenSeq([p \in Positions(plans) |->
        LET runs == planned_runs(plans[p])
        IN  [i \in Positions(runs) |-> runs[i].seed]])

\* One plan per slot, or none when the design is refused.
compile_plans(design) ==
    LET slots == design.campaign_slots
        ids == design.scenario_ids
        plan(s) ==
            LET profiles(repeat) == [i \in Positions(ids) |->
                    LET level == Level(s - 1, repeat, i - 1)
                    IN  DesignProfile(ids[i], At(Concurrency, level),
                            IF ids[i] = "controlled_burst_chat" THEN <<12, 24>> ELSE <<6, 24>>,
                            At(Waits, level), At(Batches, (level + 1) % 3),
                            At(Fragments, (level + 2) % 3))]
            IN  PlanOf(slots[s], 2, profiles)
        plans == [s \in Positions(slots) |-> plan(s)]
    IN  IF ValidDesign(design) /\ IsInjective(RunSeeds(plans)) THEN plans ELSE <<>>

\* Mutant: one axis of the crossing follows the other.
MutCrossing(repeat) == [batch |-> repeat % 3, wait |-> repeat % 3]

Crossing(repeat) == [batch |-> repeat \div 3, wait |-> repeat % 3]

\* Nine repeats cross the batch sizes with the waits.
compile_recovery_plans(design, previous) ==
    LET slots == design.campaign_slots
        ids == design.scenario_ids
        plan(s) ==
            LET profiles(repeat) == [i \in Positions(ids) |->
                    LET level == Crossing(repeat)
                    IN  DesignProfile(ids[i],
                            At(Concurrency, (s - 1 + level.batch + level.wait) % 3),
                            <<12, 24>>, At(Waits, level.wait), At(Batches, level.batch),
                            At(Fragments, (level.batch + level.wait) % 3))]
            IN  PlanOf(slots[s], 9, profiles)
        plans == [s \in Positions(slots) |-> plan(s)]
        seeds(d) == {d.campaign_slots[i].seed : i \in Positions(d.campaign_slots)}
        old == compile_plans(previous)
    IN  IF /\ ValidDesign(design) /\ old # <<>>
           /\ seeds(design) \cap seeds(previous) = {}
           /\ IsInjective(RunSeeds(plans))
           /\ Range(RunSeeds(plans)) \cap Range(RunSeeds(old)) = {}
        THEN plans ELSE <<>>

\* What a split is planned to hold; the draws of a session are its minimum.
summarize_recovery_design(design, plans) ==
    LET of(split) == {p \in Positions(plans) : design.campaign_slots[p].split = split}
        draws(profile) == [c \in 1..profile.sessions |->
            [m \in 1..profile.messages_min |-> [text |-> 8, wait |-> profile.interval_min_ms]]]
        messages(p) == LET runs == planned_runs(plans[p])
                       IN  Total([i \in Positions(runs) |->
                               build_expectations(runs[i].profile, draws(runs[i].profile)).expected_messages])
        sessions(p) == LET runs == planned_runs(plans[p])
                       IN  Total([i \in Positions(runs) |-> runs[i].profile.sessions])
        sum(f(_), split) == FoldLeft(LAMBDA a, p : IF p \in of(split) THEN a + f(p) ELSE a,
                                     0, [p \in Positions(plans) |-> p])
    IN  [split \in {"train", "validation", "test"} |->
            [campaigns |-> Cardinality(of(split)),
             runs |-> sum(LAMBDA p : Len(planned_runs(plans[p])), split),
             sessions |-> sum(sessions, split),
             expected_message_rows |-> sum(messages, split)]]

\* Every campaign crosses all nine combinations, and its bursts differ from
\* its batches in nothing but the wait.
recovery_coverage(plans) ==
    \A p \in Positions(plans) :
        LET profile(repeat, scenario) ==
                LET group == profiles_for_repeat(plans[p], repeat)
                IN  group[CHOOSE i \in Positions(group) : group[i].scenario_id = scenario]
            normal(repeat) == profile(repeat, "normal_batched_chat")
            burst(repeat) == profile(repeat, "controlled_burst_chat")
        IN  /\ \A repeat \in 0..(plans[p].repeats - 1) :
                   /\ \A name \in {"sessions", "concurrency", "messages_min",
                                   "messages_max", "text_sizes", "batch_size"} :
                          normal(repeat)[name] = burst(repeat)[name]
                   /\ burst(repeat).interval_min_ms = 0
                   /\ burst(repeat).interval_max_ms = 0
            /\ {<<normal(repeat).batch_size, <<normal(repeat).interval_min_ms,
                  normal(repeat).interval_max_ms>>>> : repeat \in 0..(plans[p].repeats - 1)}
                   = Range(Batches) \X Range(Waits)

\* The collected batch against the plan: quality counts runs, sessions, their
\* summaries and messages, dataset the rows of every split.
verify_collected_counts(planned, quality, dataset) ==
    LET total(f) == planned["train"][f] + planned["validation"][f] + planned["test"][f]
    IN  /\ quality.passed
        /\ quality.runs = total("runs") /\ quality.passed_runs = total("runs")
        /\ quality.sessions = total("sessions") /\ quality.summaries = total("sessions")
        /\ \A split \in DOMAIN planned :
               /\ dataset[split].rows = planned[split].expected_message_rows
               /\ dataset[split].campaigns = planned[split].campaigns
        /\ quality.messages = dataset["train"].rows + dataset["validation"].rows
                                  + dataset["test"].rows
=============================================================================
