---------------------------- MODULE TrafficPlan ----------------------------
(***************************************************************************)
(* What is decided before any traffic is sent: profiles and plans, the     *)
(* frames each client session will send and what is expected of them       *)
(* (src/AI/data_collection/traffic.py), and the designs of the collection  *)
(* batches (augmentation.py, recovery_design.py).                          *)
(*                                                                         *)
(* A frame is its size on the wire and the wait after it.  The random      *)
(* draws are functions of a seed; here a seed is the tuple they are        *)
(* derived from, and the draws of a session are a parameter.               *)
(***************************************************************************)
EXTENDS Integers, Sequences, SequencesExt

Normal == {"normal_chat", "normal_fragmented_chat", "normal_batched_chat"}
ERROR_MESSAGES == {"malformed_chat_payload", "malformed_length_chat", "invalid_frame_size"}
Scenarios == Normal \cup {"controlled_burst_chat"} \cup ERROR_MESSAGES

SCENARIO_LABELS == [s \in Scenarios |-> IF s \in Normal THEN 0 ELSE 1]

None == 0   \* an optional setting that is not given

Positions(s) == 1..Len(s)
Total(s) == FoldLeft(LAMBDA a, b : a + b, 0, s)

-----------------------------------------------------------------------------
(* Profiles and plans *)

\* TrafficProfile with its field bounds and validate_ranges.
TrafficProfile(p) ==
    /\ p.scenario_id \in Scenarios
    /\ p.sessions \in 1..16 /\ p.concurrency \in 1..4
    /\ p.messages_min \in 1..32 /\ p.messages_max \in 1..32
    /\ Len(p.text_sizes) \in 1..8
    /\ \A i \in Positions(p.text_sizes) : p.text_sizes[i] \in 1..1024
    /\ p.interval_min_ms \in 0..100 /\ p.interval_max_ms \in 0..100
    /\ p.batch_size \in 1..8 \cup {None}
    /\ p.fragment_size_bytes \in 1..256 \cup {None}
    /\ p.messages_min <= p.messages_max
    /\ p.interval_min_ms <= p.interval_max_ms
    /\ p.concurrency <= p.sessions
    /\ p.scenario_id = "controlled_burst_chat" =>
           p.messages_min >= 12 /\ p.interval_min_ms = 0 /\ p.interval_max_ms = 0

Ids(profiles) == [i \in Positions(profiles) |-> profiles[i].scenario_id]

\* repeat_profiles is <<>> when it is not given.
CampaignPlan(plan) ==
    LET groups == IF plan.repeat_profiles = <<>> THEN <<plan.profiles>>
                  ELSE plan.repeat_profiles
    IN  /\ plan.repeats \in 1..10
        /\ Len(plan.profiles) \in 1..7
        /\ IsInjective(Ids(plan.profiles))
        /\ plan.repeat_profiles # <<>> =>
               Len(groups) = plan.repeats /\ groups[1] = plan.profiles
        /\ \A g \in Positions(groups) :
               /\ \A i \in Positions(groups[g]) :
                      /\ TrafficProfile(groups[g][i])
                      /\ plan.plan_version = "v1" =>
                             groups[g][i].batch_size = None
                             /\ groups[g][i].fragment_size_bytes = None
                      /\ plan.plan_version = "v2" => groups[g][i].batch_size # None
               /\ IsInjective(Ids(groups[g]))
               /\ Range(Ids(groups[g])) = Range(Ids(plan.profiles))
        /\ plan.plan_version = "v1" => plan.repeat_profiles = <<>>

\* repeat counts from 0.
profiles_for_repeat(plan, repeat) ==
    IF plan.repeat_profiles = <<>> THEN plan.profiles
    ELSE plan.repeat_profiles[repeat + 1]

\* The runs in the order in which they are executed.  In v2 the seed is a
\* hash of what it should depend on, and not of the position.
planned_runs(plan) ==
    LET seed(repeat, i) ==
            LET p == profiles_for_repeat(plan, repeat)[i]
            IN  IF plan.plan_version = "v1"
                THEN <<plan.seed + repeat * 100 + i - 1>>
                ELSE <<plan.seed, repeat, p.scenario_id>>
        block(repeat) == [i \in Positions(profiles_for_repeat(plan, repeat)) |->
                             [repeat |-> repeat, seed |-> seed(repeat, i),
                              profile |-> profiles_for_repeat(plan, repeat)[i]]]
    IN  FlattenSeq([n \in 1..plan.repeats |-> block(n - 1)])

-----------------------------------------------------------------------------
(* What a session sends, and how *)

transport_controls(profile) ==
    LET fragmented == profile.scenario_id = "normal_fragmented_chat"
    IN  [batch_size |->
            IF profile.batch_size # None THEN profile.batch_size
            ELSE IF profile.scenario_id \in {"normal_batched_chat", "controlled_burst_chat"}
            THEN 4 ELSE 1,
         fragment_size_bytes |->
            IF ~fragmented THEN None
            ELSE IF profile.fragment_size_bytes # None
            THEN profile.fragment_size_bytes ELSE 31,
         fragment_wait_ms |-> IF fragmented THEN 1 ELSE 0]

\* frames[start:start + batch_size], start counting from 0.
Slice(frames, start, size) ==
    SubSeq(frames, start + 1, IF start + size < Len(frames) THEN start + size ELSE Len(frames))
WireSize(frames) == Total([i \in Positions(frames) |-> frames[i].wire_size])
Starts(frames, size) == [k \in 1..((Len(frames) + size - 1) \div size) |-> (k - 1) * size]
CeilDiv(a, b) == (a + b - 1) \div b

expected_send_calls(frames, controls) ==
    LET starts == Starts(frames, controls.batch_size)
    IN  Total([k \in Positions(starts) |->
            IF controls.fragment_size_bytes = None THEN 1
            ELSE CeilDiv(WireSize(Slice(frames, starts[k], controls.batch_size)),
                         controls.fragment_size_bytes)])

\* Mutant: the wait after the last group is kept.
Mutplanned_send_groups(frames, controls) ==
    LET starts == Starts(frames, controls.batch_size)
    IN  [k \in Positions(starts) |->
            LET group == Slice(frames, starts[k], controls.batch_size)
            IN  [first_frame_index |-> starts[k] + 1, frame_count |-> Len(group),
                 wire_size |-> WireSize(group),
                 wait_after_ms |-> group[Len(group)].interval_after_ms]]

planned_send_groups(frames, controls) ==
    LET starts == Starts(frames, controls.batch_size)
        last(start) == start + controls.batch_size
    IN  [k \in Positions(starts) |->
            LET group == Slice(frames, starts[k], controls.batch_size)
            IN  [first_frame_index |-> starts[k] + 1, frame_count |-> Len(group),
                 wire_size |-> WireSize(group),
                 wait_after_ms |-> IF last(starts[k]) < Len(frames)
                                   THEN frames[last(starts[k])].interval_after_ms
                                   ELSE 0]]

\* header 8, length field 2, text, integer 4
chat_frame(text_size) == 14 + text_size

\* The frame of a draw [text, wait] in a scenario.  A wrong length field does
\* not change the size.
Frame(scenario, draw) ==
    [wire_size |-> CASE scenario = "malformed_chat_payload" -> 9
                     [] scenario = "invalid_frame_size" -> 8
                     [] OTHER -> chat_frame(draw.text),
     interval_after_ms |-> draw.wait]

\* draws[c] are the draws of client c; of those an error scenario uses one.
build_expectations(profile, draws) ==
    LET scenario == profile.scenario_id
        error == scenario \in ERROR_MESSAGES
        controls == transport_controls(profile)
        explicit == profile.batch_size # None \/ profile.fragment_size_bytes # None
        session(c) ==
            LET frames == [i \in 1..(IF error THEN 1 ELSE Len(draws[c])) |->
                               Frame(scenario, draws[c][i])]
            IN  [frames |-> frames,
                 expected_message_frames |->
                     IF scenario = "invalid_frame_size" THEN <<>>
                     ELSE [i \in Positions(frames) |-> frames[i].wire_size],
                 expected_responses |-> IF error THEN 0 ELSE Len(frames),
                 expected_error_count |-> IF error THEN 1 ELSE 0,
                 expected_sendall_calls |-> expected_send_calls(frames, controls)]
        sessions == [c \in 1..profile.sessions |-> session(c)]
        messages == Total([c \in 1..profile.sessions |->
                               Len(sessions[c].expected_message_frames)])
    IN  [profile |-> profile, controls |-> controls,
         expectation_version |-> IF explicit THEN "v2" ELSE "v1",
         label |-> SCENARIO_LABELS[scenario], sessions |-> sessions,
         expected_messages |-> messages, expected_summaries |-> profile.sessions,
         expected_records |-> messages + profile.sessions,
         message_observable |-> scenario # "invalid_frame_size"]
=============================================================================
