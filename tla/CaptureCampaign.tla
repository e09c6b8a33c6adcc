-------------------------- MODULE CaptureCampaign --------------------------
(***************************************************************************)
(* The execution of a prepared campaign: run_campaign and run_capture      *)
(* (src/AI/data_collection/campaign.py) with the processes they start, the *)
(* clients of traffic.py, the waits and the stop of runtime.py, and the    *)
(* audit of quality.py that decides which runs may be trained on.          *)
(*                                                                         *)
(* More than one runner may work on the same campaign: a second shell, or  *)
(* a new attempt after the first was killed.  Children of a killed runner  *)
(* keep running and keep their ports, as both read "quit" from a pipe that *)
(* only ends.  A client sends a group of frames and reads its replies in   *)
(* one step.                                                               *)
(***************************************************************************)
EXTENDS TrafficPlan, FiniteSets

CONSTANTS
    Runners,
    Campaigns,   \* the campaigns, each with the runners started on it and
                 \* the kinds of the fault that may happen
    dataset_purpose

VARIABLES
    campaign,   \* which campaign it is; never changes
    runner,     \* per runner: step, index of the run, result so far
    api,        \* per runner: the API process it started last
    server,     \* per runner: the server process it started last
    client,     \* per runner: its client sessions
    port,       \* who listens on 4000 and on 8000
    captures,       \* per run: what the files of the campaign say
    refused,    \* why snapshots could not be delivered
    faults

campaignVars == <<campaign, runner, api, server, client, port, captures, refused, faults>>

Runs == campaign.runs   \* the expectations of the planned runs, in order

Nobody == "nobody"
Alive == {"starting", "ready", "up"}

NoProcess == [state |-> "none", run |-> 1, quit |-> FALSE]
NoServer == [state |-> "none", quit |-> FALSE, pending |-> <<>>, sids |-> 0, qids |-> 0]
NoResult == [written |-> FALSE, passed |-> FALSE, server |-> FALSE, api |-> FALSE, by |-> Nobody]

\* run_session's result before it connects.
NewClient ==
    [pc |-> "new", server |-> Nobody, sid |-> 0, passed |-> FALSE,
     connected |-> FALSE, frames_sent |-> 0, bytes_sent |-> 0,
     responses_received |-> 0, sendall_calls |-> 0, send_groups |-> <<>>]

\* The files of a run: the recording with its owner, and the two outcomes.
NoFiles == [recorder |-> Nobody, features |-> <<>>, dropped |-> FALSE,
            complete |-> FALSE, traffic |-> <<>>, runtime |-> NoResult]

CampaignInit ==
    /\ campaign \in Campaigns
    /\ runner = [r \in Runners |-> [pc |-> "idle", index |-> 1, passed |-> FALSE,
                                    graceful |-> <<FALSE, FALSE>>, results |-> <<>>]]
    /\ api = [r \in Runners |-> NoProcess]
    /\ server = [r \in Runners |-> NoServer]
    /\ client = [r \in Runners |-> <<>>]
    /\ port = [p \in {4000, 8000} |-> Nobody]
    /\ captures = [n \in Positions(Runs) |-> NoFiles]
    /\ refused = {} /\ faults = 0

Expected(r) == Runs[runner[r].index]
\* At most one fault happens, of a kind the campaign is exposed to.
Fault(kind) == kind \in campaign.faults /\ faults = 0 /\ faults' = 1

Goto(r, from, to) == runner[r].pc = from /\ runner' = [runner EXCEPT ![r].pc = to]

\* The finally of run_capture.  Mutant: the API is stopped first.
MutStopOrder == <<"stopApi", "stopServer", "write">>

StopOrder == <<"stopServer", "stopApi", "write">>

After(step) == StopOrder[1 + CHOOSE i \in 1..3 : StopOrder[i] = step]

-----------------------------------------------------------------------------
(* run_campaign and run_capture *)

ensure_ports_free(r) ==
    /\ Goto(r, "idle", IF port[4000] = Nobody /\ port[8000] = Nobody
                       THEN "build" ELSE "broken")
    /\ UNCHANGED <<api, server, client, port, captures, refused, faults>>

\* Server.exe has the hash of the configuration, or was rebuilt since.
CheckBuild(r) ==
    /\ \/ Goto(r, "build", "startApi") /\ UNCHANGED faults
       \/ Goto(r, "build", "broken") /\ Fault("rebuilt")
    /\ UNCHANGED <<api, server, client, port, captures, refused>>

StartApi(r) ==
    /\ Goto(r, "startApi", "waitApi")
    /\ api' = [api EXCEPT ![r] = [state |-> "starting", run |-> runner[r].index,
                                  quit |-> FALSE]]
    /\ server' = [server EXCEPT ![r] = NoServer]
    /\ UNCHANGED <<client, port, captures, refused, faults>>

\* wait_for_capture: the status is that of whoever listens on 8000.  It
\* fails when the runner's own API has ended, when another run is recorded
\* there or when records were dropped, and returns when enough are written.
Responds == port[8000] # Nobody
Status == captures[api[port[8000]].run]

WaitFails(r) ==
    \/ api[r].state = "exited"
    \/ Responds /\ (api[port[8000]].run # runner[r].index \/ Status.dropped)

WaitReturns(r, expected_records) ==
    /\ ~WaitFails(r) /\ Responds
    /\ Len(Status.features) >= expected_records

\* Mutant: without the deadline.
MutWaitExpires(r) == FALSE

\* Nothing more can arrive before the deadline.
WaitExpires(r) ==
    /\ ~WaitFails(r)
    /\ IF Responds THEN \A o \in Runners : server[o].pending = <<>>
       ELSE api[r].state \notin {"starting", "ready"}

wait_for_capture(r, from, to, expected_records) ==
    /\ \/ WaitReturns(r, expected_records) /\ Goto(r, from, to) /\ UNCHANGED faults
       \/ WaitFails(r) /\ Goto(r, from, StopOrder[1]) /\ UNCHANGED faults
       \/ /\ ~WaitReturns(r, expected_records) /\ WaitExpires(r)
          /\ Goto(r, from, StopOrder[1]) /\ UNCHANGED faults
    /\ UNCHANGED <<api, server, client, port, captures, refused>>

WaitApi(r) == wait_for_capture(r, "waitApi", "startServer", 0)

StartServer(r) ==
    /\ Goto(r, "startServer", "traffic")
    /\ server' = [server EXCEPT ![r].state = "starting"]
    /\ client' = [client EXCEPT ![r] = [c \in 1..Len(Expected(r).sessions) |-> NewClient]]
    /\ UNCHANGED <<api, port, captures, refused, faults>>

\* generate_traffic has all results; the outcome is written before it is
\* looked at.
WriteTraffic(r) ==
    LET passed == \A c \in Positions(client[r]) : client[r][c].passed
    IN  /\ \A c \in Positions(client[r]) : client[r][c].pc = "done"
        /\ Goto(r, "traffic", IF passed THEN "waitRecords" ELSE StopOrder[1])
        /\ captures' = [captures EXCEPT ![runner[r].index].traffic = client[r]]
        /\ UNCHANGED <<api, server, client, port, refused, faults>>

WaitRecords(r) ==
    /\ runner[r].pc = "waitRecords"
    /\ \/ /\ WaitReturns(r, Expected(r).expected_records)
          /\ runner' = [runner EXCEPT ![r].pc = StopOrder[1], ![r].passed = TRUE]
          /\ UNCHANGED <<api, server, client, port, captures, refused, faults>>
       \/ /\ ~WaitReturns(r, Expected(r).expected_records)
          /\ wait_for_capture(r, "waitRecords", StopOrder[1],
                              Expected(r).expected_records)

\* stop_owned_process: graceful is the exit with code 0 of a process that
\* was alive when it was told to quit.  The wait ends at the exit, or by
\* force when the process hangs.
\* Mutant: the exit code is not looked at.
MutGraceful(process) == TRUE

Graceful(process) == process.state = "exited0"

StopServer(r) ==
    /\ runner[r].pc = "stopServer"
    /\ \/ /\ server[r].state \notin Alive
          /\ runner' = [runner EXCEPT ![r].pc = After("stopServer")]
          /\ UNCHANGED server
       \/ /\ server[r].state \in Alive
          /\ server' = [server EXCEPT ![r].quit = TRUE]
          /\ runner' = [runner EXCEPT ![r].pc = "waitServer"]
    /\ UNCHANGED <<api, client, port, captures, refused, faults>>

Release(p, r) == [port EXCEPT ![p] = IF @ = r THEN Nobody ELSE @]

WaitServer(r) ==
    /\ runner[r].pc = "waitServer"
    /\ \/ /\ server[r].state \notin Alive
          /\ runner' = [runner EXCEPT ![r].pc = After("stopServer"),
                            ![r].graceful[1] = Graceful(server[r])]
          /\ UNCHANGED <<server, port, faults>>
       \/ /\ server[r].state \in Alive /\ Fault("hangs")   \* terminate, kill
          /\ server' = [server EXCEPT ![r].state = "exited", ![r].pending = <<>>]
          /\ port' = Release(4000, r)
          /\ runner' = [runner EXCEPT ![r].pc = After("stopServer")]
    /\ UNCHANGED <<api, client, captures, refused>>

StopApi(r) ==
    /\ runner[r].pc = "stopApi"
    /\ \/ /\ api[r].state \notin Alive
          /\ runner' = [runner EXCEPT ![r].pc = After("stopApi")]
          /\ UNCHANGED api
       \/ /\ api[r].state \in Alive
          /\ api' = [api EXCEPT ![r].quit = TRUE]
          /\ runner' = [runner EXCEPT ![r].pc = "waitApiEnd"]
    /\ UNCHANGED <<server, client, port, captures, refused, faults>>

WaitApiEnd(r) ==
    /\ runner[r].pc = "waitApiEnd"
    /\ \/ /\ api[r].state \notin Alive
          /\ runner' = [runner EXCEPT ![r].pc = After("stopApi"),
                            ![r].graceful[2] = Graceful(api[r])]
          /\ UNCHANGED <<api, port, faults>>
       \/ /\ api[r].state \in Alive /\ Fault("hangs")
          /\ api' = [api EXCEPT ![r].state = "exited"]
          /\ port' = Release(8000, r)
          /\ runner' = [runner EXCEPT ![r].pc = After("stopApi")]
    /\ UNCHANGED <<server, client, captures, refused>>

RunPassed(r) == runner[r].passed /\ runner[r].graceful[1] /\ runner[r].graceful[2]

\* The runtime outcome of the run; then the next run, or the end.
WriteRuntime(r) ==
    LET n == runner[r].index
    IN  /\ runner[r].pc = "write"
        /\ captures' = [captures EXCEPT ![n].runtime =
                        [written |-> TRUE, passed |-> RunPassed(r), by |-> r,
                         server |-> runner[r].graceful[1],
                         api |-> runner[r].graceful[2]]]
        /\ runner' = [runner EXCEPT ![r] =
                          [pc |-> IF n = Len(Runs) THEN "ended" ELSE "idle",
                           index |-> IF n = Len(Runs) THEN n ELSE n + 1,
                           passed |-> FALSE, graceful |-> <<FALSE, FALSE>>,
                           results |-> Append(@.results, RunPassed(r))]]
        /\ UNCHANGED <<api, server, client, port, refused, faults>>

\* An exception before the processes are started breaks the loop.
Broken(r) ==
    /\ runner[r].pc = "broken"
    /\ runner' = [runner EXCEPT ![r].pc = "ended", ![r].results = Append(@, FALSE)]
    /\ UNCHANGED <<api, server, client, port, captures, refused, faults>>

\* The runner is killed: no finally, and its children live on.
Killed(r) ==
    /\ runner[r].pc \notin {"idle", "ended", "dead"}
    /\ Fault("killed")
    /\ runner' = [runner EXCEPT ![r].pc = "dead"]
    /\ UNCHANGED <<api, server, client, port, captures, refused>>

-----------------------------------------------------------------------------
(* run_session, on a pool of profile.concurrency threads *)

Active(r) == {c \in Positions(client[r]) : client[r][c].pc \in {"connect", "open"}}
Client(r, c) == client[r][c]
Frames(r, c) == Expected(r).sessions[c].frames

BeginSession(r, c) ==
    /\ runner[r].pc = "traffic" /\ Client(r, c).pc = "new"
    /\ \A b \in 1..(c - 1) : Client(r, b).pc # "new"
    /\ Cardinality(Active(r)) < Expected(r).profile.concurrency
    /\ client' = [client EXCEPT ![r][c].pc = "connect"]
    /\ UNCHANGED <<runner, api, server, port, captures, refused, faults>>

\* connect_local retries while the connection is refused, for 15 s.
connect_local(r, c) ==
    /\ Client(r, c).pc = "connect" /\ runner[r].pc = "traffic"
    /\ \/ /\ port[4000] # Nobody
          /\ LET o == port[4000]
             IN  /\ ~server[o].quit
                 /\ server' = [server EXCEPT ![o].sids = @ + 1]
                 /\ client' = [client EXCEPT ![r][c].pc = "open",
                                   ![r][c].connected = TRUE, ![r][c].server = o,
                                   ![r][c].sid = server[o].sids + 1]
       \/ /\ port[4000] = Nobody /\ server[r].state # "starting"
          /\ client' = [client EXCEPT ![r][c].pc = "done"]
          /\ UNCHANGED server
    /\ UNCHANGED <<runner, api, port, captures, refused, faults>>

\* What server o observes of a session: a message per parsed frame, and a
\* summary when the session is closed.
Observed(o, records) ==
    [server EXCEPT ![o].qids = @ + Len(records),
                   ![o].pending = @ \o [i \in Positions(records) |->
                       [records[i] EXCEPT !.qid = server[o].qids + i]]]

Message(r, c, i) ==
    [qid |-> 0, sid |-> Client(r, c).sid, event_type |-> "message",
     request_index |-> i, size |-> Frames(r, c)[i].wire_size,
     request_count |-> i, error_count |-> 0, bytes |-> 0,
     server |-> Client(r, c).server]

Summary(r, c, sent, errors) ==
    LET parsed == IF Expected(r).message_observable THEN sent ELSE 0
    IN  [qid |-> 0, sid |-> Client(r, c).sid, event_type |-> "session_summary",
         request_index |-> 0, size |-> 0, request_count |-> parsed,
         error_count |-> errors,
         bytes |-> WireSize(SubSeq(Frames(r, c), 1, sent)),
         server |-> Client(r, c).server]

\* The next group: sent whole or in fragments, and its replies read.
SendGroup(r, c) ==
    LET x == Client(r, c)
        frames == Frames(r, c)
        controls == Expected(r).controls
        start == x.frames_sent
        group == Slice(frames, start, controls.batch_size)
        more == start + Len(group) < Len(frames)
        record == [first_frame_index |-> start + 1, frame_count |-> Len(group),
                   wire_size |-> WireSize(group),
                   wait_after_ms |-> IF more THEN group[Len(group)].interval_after_ms
                                     ELSE 0]
        calls == IF controls.fragment_size_bytes = None THEN 1
                 ELSE CeilDiv(WireSize(group), controls.fragment_size_bytes)
    IN  /\ x.pc = "open" /\ start < Len(frames)
        /\ runner[r].pc = "traffic"
        /\ server[x.server].state = "up" /\ ~server[x.server].quit
        /\ server' = Observed(x.server,
               IF Expected(r).message_observable
               THEN [i \in 1..Len(group) |-> Message(r, c, start + i)] ELSE <<>>)
        /\ client' = [client EXCEPT ![r][c] =
               [x EXCEPT !.frames_sent = @ + Len(group),
                         !.bytes_sent = @ + WireSize(group),
                         !.sendall_calls = @ + calls,
                         !.send_groups = Append(@, record),
                         !.responses_received =
                             IF Expected(r).sessions[c].expected_responses > 0
                             THEN @ + Len(group) ELSE @]]
        /\ UNCHANGED <<runner, api, port, captures, refused, faults>>

\* The client shuts its side down, or the server has refused its frame;
\* either way the server closes and the client reads the end.
FinishSession(r, c) ==
    LET x == Client(r, c)
        session == Expected(r).sessions[c]
    IN  /\ x.pc = "open" /\ x.frames_sent = Len(Frames(r, c))
        /\ runner[r].pc = "traffic"
        /\ server[x.server].state = "up" /\ ~server[x.server].quit
        /\ server' = Observed(x.server,
               <<Summary(r, c, x.frames_sent, session.expected_error_count)>>)
        /\ client' = [client EXCEPT ![r][c].pc = "done",
               ![r][c].passed = x.responses_received = session.expected_responses]
        /\ UNCHANGED <<runner, api, port, captures, refused, faults>>

\* A reset, a wrong or late reply, or the server going away: recorded, never
\* raised.  The server may still have summarised the session.
SessionFails(r, c) ==
    LET x == Client(r, c)
        gone == \/ server[x.server].quit \/ server[x.server].state # "up"
                \/ runner[r].pc = "dead"
    IN  /\ x.pc = "open"
        /\ IF gone THEN UNCHANGED faults ELSE Fault("reset")
        /\ client' = [client EXCEPT ![r][c].pc = "done"]
        /\ \/ /\ server[x.server].state = "up"
              /\ server' = Observed(x.server, <<Summary(r, c, x.frames_sent, 0)>>)
           \/ UNCHANGED server
        /\ UNCHANGED <<runner, api, port, captures, refused>>

-----------------------------------------------------------------------------
(* The server process: inference worker and exit *)

ServerStarts(o) ==
    /\ server[o].state = "starting"
    /\ IF port[4000] = Nobody
       THEN /\ server' = [server EXCEPT ![o].state = "up"]
            /\ port' = [port EXCEPT ![4000] = o]
       ELSE server' = [server EXCEPT ![o].state = "exited"] /\ UNCHANGED port
    /\ UNCHANGED <<runner, api, client, captures, refused, faults>>

\* The worker posts its oldest snapshot to whoever listens on 8000.  An API
\* that was told to quit accepts no connection any more.
Post(o) ==
    LET a == port[8000]
        n == api[a].run
        accepts == Responds /\ ~api[a].quit
    IN  /\ server[o].state = "up" /\ server[o].pending # <<>>
        /\ server' = [server EXCEPT ![o].pending = Tail(@)]
        /\ \/ /\ accepts
              /\ captures' = [captures EXCEPT ![n].features = Append(@, Head(server[o].pending))]
              /\ UNCHANGED <<refused, faults>>
           \/ /\ accepts /\ Fault("full")   \* the recorder's queue is full
              /\ captures' = [captures EXCEPT ![n].dropped = TRUE]
              /\ UNCHANGED refused
           \/ /\ IF accepts THEN Fault("lost") ELSE UNCHANGED faults
              /\ refused' = refused \cup {IF api[o].quit THEN "quit" ELSE "down"}
              /\ UNCHANGED captures
        /\ UNCHANGED <<runner, api, client, port>>

OpenOn(o) == \E r \in Runners : \E c \in Positions(client[r]) :
                 Client(r, c).pc = "open" /\ Client(r, c).server = o

ServerExits(o) ==
    /\ server[o].state = "up" /\ server[o].quit
    /\ server[o].pending = <<>> /\ ~OpenOn(o)
    /\ server' = [server EXCEPT ![o].state = "exited0"]
    /\ port' = Release(4000, o)
    /\ UNCHANGED <<runner, api, client, captures, refused, faults>>

-----------------------------------------------------------------------------
(* The API process: api_runner.main with the recorder of InferenceApi *)

\* The recorder makes the directory of the run, which must not exist.
ApiStarts(a) ==
    /\ api[a].state = "starting"
    /\ IF captures[api[a].run].recorder = Nobody
       THEN /\ api' = [api EXCEPT ![a].state = "ready"]
            /\ captures' = [captures EXCEPT ![api[a].run].recorder = a]
       ELSE api' = [api EXCEPT ![a].state = "exited"] /\ UNCHANGED captures
    /\ UNCHANGED <<runner, server, client, port, refused, faults>>

ApiBinds(a) ==
    /\ api[a].state = "ready"
    /\ IF port[8000] = Nobody
       THEN /\ api' = [api EXCEPT ![a].state = "up"]
            /\ port' = [port EXCEPT ![8000] = a]
            /\ UNCHANGED captures
       ELSE /\ api' = [api EXCEPT ![a].state = "exited"]
            /\ captures' = [captures EXCEPT ![api[a].run].complete = TRUE]
            /\ UNCHANGED port
    /\ UNCHANGED <<runner, server, client, refused, faults>>

\* wait_for_quit: the lifespan ends and the recorder writes its summary.
ApiExits(a) ==
    /\ api[a].state = "up" /\ api[a].quit
    /\ api' = [api EXCEPT ![a].state = "exited0"]
    /\ port' = Release(8000, a)
    /\ captures' = [captures EXCEPT ![api[a].run].complete = ~captures[api[a].run].dropped]
    /\ UNCHANGED <<runner, server, client, refused, faults>>

ApiDies(a) ==
    /\ api[a].state = "up" /\ Fault("dies")
    /\ api' = [api EXCEPT ![a].state = "exited"]
    /\ port' = Release(8000, a)
    /\ UNCHANGED <<runner, server, client, captures, refused>>

-----------------------------------------------------------------------------
Step(r) ==
    \/ CheckBuild(r) \/ StartApi(r) \/ WaitApi(r)
    \/ StartServer(r) \/ WriteTraffic(r) \/ WaitRecords(r)
    \/ StopServer(r) \/ WaitServer(r) \/ StopApi(r) \/ WaitApiEnd(r)
    \/ WriteRuntime(r) \/ Broken(r)
    \/ runner[r].results # <<>> /\ ensure_ports_free(r)

Process(r) ==
    \/ ServerStarts(r) \/ Post(r) \/ ServerExits(r)
    \/ ApiStarts(r) \/ ApiBinds(r) \/ ApiExits(r)

Session(r, c) == \/ BeginSession(r, c) \/ connect_local(r, c) \/ SendGroup(r, c)
                 \/ FinishSession(r, c) \/ SessionFails(r, c)

RunnerNext(r) ==
    \/ Step(r) \/ Process(r)
    \/ r \in campaign.runners /\ runner[r].results = <<>>   \* the user starts it
       /\ ensure_ports_free(r)
    \/ Killed(r) \/ ApiDies(r)
    \/ \E c \in Positions(client[r]) : Session(r, c)

CampaignNext == (\E r \in Runners : RunnerNext(r)) /\ UNCHANGED campaign

\* Every wait of the runner has a deadline, processes and client threads are
\* scheduled.
CampaignSpec ==
    /\ CampaignInit /\ [][CampaignNext]_campaignVars
    /\ \A r \in Runners :
           /\ WF_campaignVars(Step(r) /\ UNCHANGED campaign)
           /\ WF_campaignVars(Process(r) /\ UNCHANGED campaign)
           /\ WF_campaignVars((\E c \in Positions(client[r]) : Session(r, c))
                          /\ UNCHANGED campaign)

-----------------------------------------------------------------------------
(* quality.audit_run and audit_campaign *)

Of(n, sid, kind) == SelectSeq(captures[n].features,
                        LAMBDA x : x.sid = sid /\ x.event_type = kind)
Sids(n) == {captures[n].features[i].sid : i \in Positions(captures[n].features)}

\* The messages in the order of their index, the counts of the summary.
Signature(n, sid) ==
    LET messages == Of(n, sid, "message")
        summary == Of(n, sid, "session_summary")[1]
        at(i) == messages[CHOOSE k \in Positions(messages) :
                              messages[k].request_index = i]
    IN  <<[i \in Positions(messages) |-> at(i).size],
          summary.request_count, summary.error_count, summary.bytes>>

expected_signature(session) ==
    <<session.expected_message_frames, Len(session.expected_message_frames),
      session.expected_error_count, WireSize(session.frames)>>

ClientAsPlanned(e, c, actual) ==
    LET session == e.sessions[c]
    IN  /\ actual.passed /\ actual.connected
        /\ actual.frames_sent = Len(session.frames)
        /\ actual.bytes_sent = WireSize(session.frames)
        /\ actual.responses_received = session.expected_responses
        /\ e.expectation_version = "v2" =>
               /\ actual.sendall_calls = session.expected_sendall_calls
               /\ actual.send_groups = planned_send_groups(session.frames, e.controls)

\* One summary per session and its messages without a gap.
SessionWhole(n, sid) ==
    LET messages == Of(n, sid, "message")
        summaries == Of(n, sid, "session_summary")
    IN  /\ Len(summaries) = 1
        /\ {messages[i].request_index : i \in Positions(messages)} = Positions(messages)
        /\ summaries[1].request_count = Len(messages)

audit_run(n) ==
    LET e == Runs[n]
        f == captures[n]
        sessions == Positions(e.sessions)
    IN  /\ f.recorder # Nobody /\ f.complete
        /\ f.runtime.written /\ f.runtime.passed /\ f.runtime.server /\ f.runtime.api
        /\ Len(f.traffic) = Len(e.sessions)
        /\ \A c \in sessions : ClientAsPlanned(e, c, f.traffic[c])
        /\ ~f.dropped /\ Len(f.features) = e.expected_records
        /\ {f.features[i].qid : i \in Positions(f.features)} = Positions(f.features)
        /\ Cardinality(Sids(n)) = Len(e.sessions)
        /\ \A sid \in Sids(n) : SessionWhole(n, sid)
        /\ \A c \in sessions :
               LET signature == expected_signature(e.sessions[c])
               IN  Cardinality({sid \in Sids(n) : Signature(n, sid) = signature}) =
                   Cardinality({b \in sessions : expected_signature(e.sessions[b]) = signature})

eligible_for_training(n) ==
    /\ audit_run(n)
    /\ dataset_purpose = "controlled_experiment"
    /\ Runs[n].message_observable /\ Runs[n].expected_messages > 0

audit_campaign == \A n \in Positions(Runs) : audit_run(n)

-----------------------------------------------------------------------------
(* Properties *)

\* A run that may be trained on was recorded and reported as passed by the
\* same runner, and all its snapshots come from one server process.  Two
\* runners can pass the port check together; one then reads the status of
\* the other's API and sends its traffic to the other's server.  Whatever
\* they mix, the exit codes and the counts keep it out of the training data.
EligibleIsGenuine ==
    \A n \in Positions(Runs) : eligible_for_training(n) =>
        /\ captures[n].runtime.by = captures[n].recorder
        /\ \A i, j \in Positions(captures[n].features) :
               captures[n].features[i].server = captures[n].features[j].server

Alone(r) == \A s \in Runners \ {r} : runner[s].pc = "idle" /\ runner[s].results = <<>>

\* The audit raises no false alarm: a campaign executed by one runner without
\* a fault passes, and every run with messages may be trained on.  The
\* groups the clients send are those the audit computes, the records the
\* server makes are those that were expected.
UndisturbedIsEligible ==
    \A r \in Runners : runner[r].pc = "ended" /\ Alone(r) /\ faults = 0 =>
        /\ audit_campaign
        /\ \A n \in Positions(Runs) : runner[r].results[n]
        /\ dataset_purpose = "controlled_experiment" =>
               \A n \in Positions(Runs) :
                   Runs[n].expected_messages > 0 => eligible_for_training(n)

\* No snapshot is refused by an API that its runner has already told to
\* quit: the server has posted everything and exited before.
LastRecordsArePosted == "quit" \notin refused

\* A started campaign comes to its end whatever its processes do, and leaves
\* none of them behind.
CampaignEnds ==
    \A r \in Runners : runner[r].pc = "build" ~>
        \/ runner[r].pc = "dead"
        \/ runner[r].pc = "ended" /\ server[r].state \notin Alive
                                 /\ api[r].state \notin Alive
=============================================================================
