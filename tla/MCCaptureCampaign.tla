------------------------- MODULE MCCaptureCampaign -------------------------
(* CaptureCampaign for TLC: one runner on two runs, of two fragmented       *)
(* sessions, one of which sends its three frames in two groups, and of a    *)
(* session refused at the header; and two runners on a run of one message.  *)
EXTENDS CaptureCampaign

Profile(scenario, sessions, batch, fragment) ==
    [scenario_id |-> scenario, sessions |-> sessions, concurrency |-> sessions,
     messages_min |-> 1, messages_max |-> 2, text_sizes |-> <<2, 8>>,
     interval_min_ms |-> 1, interval_max_ms |-> 2, batch_size |-> batch,
     fragment_size_bytes |-> fragment]

Draw(text, wait) == [text |-> text, wait |-> wait]

MCCampaigns ==
    {[runs |-> <<build_expectations(Profile("normal_fragmented_chat", 2, 2, 7),
                     <<<<Draw(2, 1), Draw(8, 2), Draw(2, 1)>>, <<Draw(8, 1)>>>>),
                 build_expectations(Profile("invalid_frame_size", 1, 1, None),
                     <<<<Draw(2, 1)>>>>)>>,
      runners |-> {"a"}, 
      faults |-> {"rebuilt", "hangs", "killed", "reset", "full", "lost", "dies"}],
     [runs |-> <<build_expectations(Profile("normal_chat", 1, 1, None),
                     <<<<Draw(2, 1)>>>>)>>,
      runners |-> {"a", "b"}, faults |-> {"killed"}]}

ASSUME PlanAssumption ==
    \A m \in MCCampaigns : \A n \in Positions(m.runs) : TrafficProfile(m.runs[n].profile)
=============================================================================
