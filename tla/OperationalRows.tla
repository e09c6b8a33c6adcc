-------------------------- MODULE OperationalRows --------------------------
(***************************************************************************)
(* From recorded runs to what a model is trained on: the split into Train, *)
(* Validation and Test (src/AI/data_preparation/operational_dataset.py),   *)
(* the windows of a sequence model (operational_sequences.py and           *)
(* src/AI/evaluation/operational_final_data.py) and the prefix features    *)
(* (operational_prefix_features.py).                                       *)
(*                                                                         *)
(* A row is a message with its identity, its label and its features.  A    *)
(* function that raises returns Rejected.  Positions count from 1, and 0   *)
(* is the padding that the code writes as -1.                              *)
(***************************************************************************)
EXTENDS Integers, Sequences, SequencesExt, FiniteSets, FiniteSetsExt

Rejected == [ok |-> FALSE]

Splits == <<"train", "validation", "test">>
SplitPairs == {<<Splits[i], Splits[j]>> : i \in 1..2, j \in 2..3} \ {<<"validation", "validation">>}
RowsAt(s) == 1..Len(s)
Image(f(_), s) == {f(s[i]) : i \in RowsAt(s)}

\* Python compares tuples from the left.
TupleLess(a, b) ==
    \E i \in RowsAt(a) : a[i] < b[i] /\ \A j \in 1..(i - 1) : a[j] = b[j]
SortedBy(key(_), s) == SortSeq(s, LAMBDA a, b : TupleLess(key(a), key(b)))

GROUP_COLUMNS(row) == <<row.campaign_id, row.run_id, row.session_id>>
row_id(row) == <<row.campaign_id, row.run_id, row.session_id, row.request_index>>

-----------------------------------------------------------------------------
(* operational_dataset.py: the split *)

Preassigned(config) == config.split_policy = "preassigned_campaign_holdout"

DatasetConfig(config) ==
    /\ config.validation_blocks >= 1 /\ config.test_blocks >= 1
    /\ IF Preassigned(config)
       THEN config.config_version = "v2" /\ config.campaign_registry # <<>>
       ELSE config.campaign_registry = <<>>

\* The feature values decide the hash, and nothing else does.
fingerprint(features) == features

BlockKey(run, config) ==
    <<run.campaign_id, IF Preassigned(config) THEN 0 ELSE run.repeat_index>>

\* The blocks of runs, in the order of their start.
Blocks(runs, config) ==
    LET keys == Image(LAMBDA run : BlockKey(run, config), runs)
        block(k) ==
            LET members == SelectSeq(runs, LAMBDA run : BlockKey(run, config) = k)
            IN  [key |-> k, runs |-> members,
                 start |-> Min(Image(LAMBDA run : run.start, members)),
                 end |-> Max(Image(LAMBDA run : run.end, members))]
    IN  SortedBy(LAMBDA b : <<b.start>> \o b.key, SetToSeq({block(k) : k \in keys}))

\* Mutant: only blocks that start together are said to overlap.
MutOverlap(blocks) ==
    \E i \in 1..(Len(blocks) - 1) : blocks[i].start = blocks[i + 1].start

Overlap(blocks) ==
    \E i \in 1..(Len(blocks) - 1) : blocks[i].end > blocks[i + 1].start

\* The split of the block at an index, counted from 1.
SplitOf(blocks, index, config) ==
    LET validation_end == Len(blocks) - config.test_blocks
        train_end == validation_end - config.validation_blocks
    IN  IF Preassigned(config) THEN config.campaign_registry[blocks[index].key[1]]
        ELSE IF index <= train_end THEN "train"
        ELSE IF index <= validation_end THEN "validation" ELSE "test"

\* Runs of a block by their start, rows of a run by session and message.
BlockRows(block, split) ==
    LET runs == SortedBy(LAMBDA run : <<run.start, run.run_id>>, block.runs)
        rows(run) == SortedBy(LAMBDA row : <<row.session_id, row.request_index>>, run.rows)
        placed(row) == [row EXCEPT !.block_id = block.key, !.split = split]
    IN  FlattenSeq([r \in RowsAt(runs) |->
            [i \in RowsAt(runs[r].rows) |-> placed(rows(runs[r])[i])]])

split_runs(runs, config) ==
    LET blocks == Blocks(runs, config)
        part(split) == FlattenSeq([i \in RowsAt(blocks) |->
            IF SplitOf(blocks, i, config) = split THEN BlockRows(blocks[i], split) ELSE <<>>])
        campaigns == Image(LAMBDA run : run.campaign_id, runs)
        scenarios == Image(LAMBDA run : run.scenario_id, runs)
        placeable == IF Preassigned(config)
                     THEN DOMAIN config.campaign_registry = campaigns
                     ELSE /\ Len(blocks) >= config.validation_blocks + config.test_blocks + 1
                          /\ ~Overlap(blocks)
        assigned == [s \in Range(Splits) |-> part(s)]
    IN  IF /\ placeable
           /\ \A s \in Range(Splits) :
                  /\ Image(LAMBDA row : row.label, assigned[s]) = {0, 1}
                  /\ config.require_all_scenarios_each_split =>
                         Image(LAMBDA row : row.scenario_id, assigned[s]) = scenarios
        THEN [ok |-> TRUE, assigned |-> assigned, blocks |-> blocks]
        ELSE Rejected

validate_partitions(assigned, require_campaign_disjoint) ==
    LET session(row) == <<row.run_id, row.session_id>>
        disjoint(f(_), left, right) ==
            Image(f, assigned[left]) \cap Image(f, assigned[right]) = {}
    IN  /\ \A pair \in SplitPairs :
               /\ disjoint(LAMBDA row : row.run_id, pair[1], pair[2])
               /\ disjoint(session, pair[1], pair[2])
               /\ disjoint(row_id, pair[1], pair[2])
               /\ require_campaign_disjoint =>
                      disjoint(LAMBDA row : row.campaign_id, pair[1], pair[2])
        /\ \A s \in Range(Splits) :
               Cardinality(Image(row_id, assigned[s])) = Len(assigned[s])

\* How many feature vectors occur more than once, in several splits, with
\* several labels, and in each pair of splits.
duplicate_report(assigned) ==
    LET rows == assigned["train"] \o assigned["validation"] \o assigned["test"]
        hash(row) == fingerprint(row.features)
        group(h) == {i \in RowsAt(rows) : hash(rows[i]) = h}
        count(P(_)) == Cardinality({h \in Image(hash, rows) : P(group(h))})
    IN  [duplicate_feature_groups |-> count(LAMBDA g : Cardinality(g) > 1),
         cross_split_feature_groups |->
             count(LAMBDA g : Cardinality({rows[i].split : i \in g}) > 1),
         conflicting_label_feature_groups |->
             count(LAMBDA g : Cardinality({rows[i].label : i \in g}) > 1),
         pairwise_shared_feature_groups |->
             [pair \in SplitPairs |-> Cardinality(Image(hash, assigned[pair[1]])
                                          \cap Image(hash, assigned[pair[2]]))]]

split_summary(rows) ==
    [campaigns |-> Cardinality(Image(LAMBDA row : row.campaign_id, rows)),
     rows |-> Len(rows),
     runs |-> Cardinality(Image(LAMBDA row : row.run_id, rows)),
     sessions |-> Cardinality(Image(LAMBDA row : <<row.run_id, row.session_id>>, rows)),
     label_distribution |-> [label \in {0, 1} |->
         Len(SelectSeq(rows, LAMBDA row : row.label = label))]]

-----------------------------------------------------------------------------
(* operational_sequences.py: the rows of a session, and windows of them *)

Raw == {"packet_size", "payload_size", "connection_duration_ms",
        "message_interval_ms", "bytes_received_total", "bytes_sent_total",
        "error_count_total"}

Padding == [name \in Raw |-> 0]

Counters == {"connection_duration_ms", "bytes_received_total",
             "bytes_sent_total", "error_count_total"}

\* Mutant: sessions of different runs, which use the same ids, are one.
MutSameSession(a, b) == a.campaign_id = b.campaign_id /\ a.session_id = b.session_id

SameSession(a, b) == GROUP_COLUMNS(a) = GROUP_COLUMNS(b)

\* The positions of the rows of a session in the order of their messages.
SessionRows(rows, i) ==
    SetToSortSeq({j \in RowsAt(rows) : SameSession(rows[i], rows[j])},
                 LAMBDA a, b : rows[a].request_index < rows[b].request_index)

Contiguous(rows, group) ==
    \A k \in RowsAt(group) : rows[group[k]].request_index = k
NeverDecreases(rows, group) ==
    \A k \in 2..Len(group), name \in Counters :
        rows[group[k]].features[name] >= rows[group[k - 1]].features[name]

\* What all who read a split check first: one of the splits they take.
SplitChecked(rows, splits) ==
    /\ rows # <<>>
    /\ \A i \in RowsAt(rows), name \in DOMAIN rows[1].features :
           rows[i].features[name] >= 0
    /\ Cardinality(Image(row_id, rows)) = Len(rows)
    /\ Cardinality(Image(LAMBDA row : row.split, rows)) = 1
    /\ rows[1].split \in splits

\* Windows also need labels, and runs of one campaign each.
SourceChecked(rows, splits) ==
    /\ SplitChecked(rows, splits)
    /\ \A i \in RowsAt(rows) : rows[i].label \in {0, 1}
    /\ \A i, j \in RowsAt(rows) :
           rows[i].run_id = rows[j].run_id => rows[i].campaign_id = rows[j].campaign_id

ordered_groups(rows) ==
    LET groups == {SessionRows(rows, i) : i \in RowsAt(rows)}
    IN  IF /\ SourceChecked(rows, {"train", "validation"})
           /\ \A group \in groups : Contiguous(rows, group) /\ NeverDecreases(rows, group)
        THEN [ok |-> TRUE, groups |-> groups]
        ELSE Rejected

OffsetIn(group, anchor) == CHOOSE k \in RowsAt(group) : group[k] = anchor

\* The last window_size rows of the session up to the anchor.
History(group, anchor, window_size) ==
    LET offset == OffsetIn(group, anchor)
    IN  SubSeq(group, Max({1, offset + 1 - window_size}), offset)

\* The window at the front, zeros behind it, and where it came from.
WindowOf(rows, history, window_size) ==
    LET length == Len(history)
        valid(k) == k <= length
    IN  [X |-> [k \in 1..window_size |-> IF valid(k) THEN rows[history[k]].features ELSE Padding],
         source_positions |-> [k \in 1..window_size |-> IF valid(k) THEN history[k] ELSE 0],
         mask |-> [k \in 1..window_size |-> valid(k)],
         length |-> length,
         y |-> rows[history[length]].label,
         context_start_request_index |-> rows[history[1]].request_index,
         source_row_ids |-> [k \in 1..length |-> row_id(rows[history[k]])]]

make_windows(rows, window_size) ==
    LET ordered == ordered_groups(rows)
        group(i) == CHOOSE g \in ordered.groups : i \in Range(g)
    IN  IF ~ordered.ok THEN Rejected
        ELSE [ok |-> TRUE, windows |-> [i \in RowsAt(rows) |->
                WindowOf(rows, History(group(i), i, window_size), window_size)]]

\* What is checked of the windows again, from their own fields.
validate_windows(windows, rows, window_size) ==
    \A i \in RowsAt(rows) :
        LET w == windows[i]
            padding == {k \in 1..window_size : ~w.mask[k]}
        IN  /\ w.y = rows[i].label
            /\ w.length \in 1..window_size
            /\ \A k \in 1..window_size : w.mask[k] = (k <= w.length)
            /\ \A k \in padding : w.X[k] = Padding /\ w.source_positions[k] = 0
            /\ SubSeq(w.source_positions, 1, w.length) =
                   History(SessionRows(rows, i), i, window_size)
            /\ \A k \in 1..w.length : w.X[k] = rows[w.source_positions[k]].features

\* operational_final_data.py, for the Test split too: its own grouping and
\* slicing, so that the code hashed with the trained models stays as it was.
make_evaluation_windows(rows, width) ==
    LET rank(i) == Cardinality({j \in RowsAt(rows) : /\ SameSession(rows[i], rows[j])
                                                     /\ rows[j].request_index <= rows[i].request_index})
        history(i) ==
            SetToSortSeq({j \in RowsAt(rows) : /\ SameSession(rows[i], rows[j])
                                               /\ rank(j) \in (rank(i) + 1 - width)..rank(i)},
                         LAMBDA a, b : rank(a) < rank(b))
    IN  IF /\ SourceChecked(rows, Range(Splits))
           /\ \A i \in RowsAt(rows) :
                  LET group == SessionRows(rows, i)
                  IN  Contiguous(rows, group) /\ NeverDecreases(rows, group)
        THEN [ok |-> TRUE, windows |-> [i \in RowsAt(rows) |->
                 WindowOf(rows, history(i), width)]]
        ELSE Rejected

\* run_operational_recovery_test.py: the sessions of the Test split.
validate_test_sessions(rows) ==
    \A i \in RowsAt(rows) :
        LET group == SessionRows(rows, i)
        IN  /\ Contiguous(rows, group) /\ NeverDecreases(rows, group)
            /\ rows[group[1]].features["message_interval_ms"] = 0

-----------------------------------------------------------------------------
(* operational_prefix_features.py *)

HeaderBytes == 8

SumOver(rows, group, k, name) ==
    FoldLeft(LAMBDA acc, n : acc + rows[group[n]].features[name], 0, [n \in 1..k |-> n])

\* The mean of the intervals so far, as a fraction; the first is not counted.
PrefixMean(rows, group, k) ==
    IF k = 1 THEN <<0, 1>>
    ELSE <<SumOver(rows, group, k, "message_interval_ms"), k - 1>>

prefix_observations(rows) ==
    LET group(i) == SessionRows(rows, i)
        position(i) == OffsetIn(group(i), i)
        parsed(i) == SumOver(rows, group(i), position(i), "packet_size")
        feature(i, name) == rows[i].features[name]
        received(i) == feature(i, "bytes_received_total")
        session(i) ==
            /\ Contiguous(rows, group(i)) /\ NeverDecreases(rows, group(i))
            /\ feature(group(i)[1], "message_interval_ms") = 0
            /\ feature(i, "packet_size") = feature(i, "payload_size") + HeaderBytes
            /\ received(i) >= parsed(i)
    IN  IF /\ SplitChecked(rows, {"train", "validation"})
           /\ \A i \in RowsAt(rows) : session(i)
        THEN [ok |-> TRUE, rows |-> [i \in RowsAt(rows) |->
                [prefix_mean_interval_ms |-> PrefixMean(rows, group(i), position(i)),
                 parsed_bytes_prefix_total |-> parsed(i),
                 recv_ahead_of_parsed_bytes |-> received(i) - parsed(i),
                 recv_counter_same_as_previous |->
                     /\ position(i) > 1
                     /\ received(i) = received(group(i)[position(i) - 1]),
                 is_first_message |-> position(i) = 1]]]
        ELSE Rejected

TRANSFORM_COLUMNS ==
    LET mean5 == {"packet_size", "payload_size", "connection_duration_ms",
                  "prefix_mean_interval_ms", "error_count_total"}
    IN  [raw7_v1 |-> Raw,
         without_io5_v1 |-> Raw \ {"bytes_received_total", "bytes_sent_total"},
         prefix_mean5_v1 |-> mean5,
         prefix_mean_parsed6_v1 |-> mean5 \cup {"parsed_bytes_prefix_total"}]

transform_prefix_features(rows, transform_id) ==
    LET prefix == prefix_observations(rows)
        columns == TRANSFORM_COLUMNS[transform_id]
    IN  IF ~prefix.ok THEN Rejected
        ELSE [ok |-> TRUE, rows |-> [i \in RowsAt(rows) |-> [name \in columns |->
                IF name \in Raw THEN <<rows[i].features[name], 1>>
                ELSE IF name = "parsed_bytes_prefix_total"
                THEN <<prefix.rows[i].parsed_bytes_prefix_total, 1>>
                ELSE prefix.rows[i].prefix_mean_interval_ms]]]
=============================================================================
