------------------------------ MODULE Pipeline ------------------------------
(***************************************************************************)
(* Several scripts at work on the same files.  Each process runs one       *)
(* script, a step at a time; between any two steps another process may     *)
(* step, a file may be replaced (Edit), and a process that is never        *)
(* scheduled again is one that was killed.                                 *)
(*                                                                         *)
(* Content is abstracted to a version: 0 is what the file was first, 1     *)
(* what it became when it was replaced.  SHA-256 digests are equal exactly *)
(* when the versions are.  A manifest carries the versions it claims.      *)
(***************************************************************************)
EXTENDS PreparationScripts, Naturals, FiniteSets, Functions

CONSTANTS
    Worlds      \* what runs together: per process its script and the policy
                \* it was configured with, and how many files are replaced

\* The steps of every script; those that run beside another one write in "b".
Scripts ==
    [prepare |-> prepare_batch("a", "ac"), prepare_recovery |-> prepare_recovery_batch("a", "ac"),
     collect |-> collect_batch("a"), collect_recovery |-> collect_recovery_batch("a"),
     dataset |-> build_dataset("a", {In("captures")}) \o save_report("a"),
     sequences |-> build_sequences("a"),
     train_lr |-> train_logistic_regression("a"), train_rf |-> train_random_forest("a"),
     validation |-> run_experiment("a", "ac"), lstm |-> run_lstm("a", "ac"),
     analyze |-> analyze("a"), diagnosis |-> run_diagnosis("a"), audit |-> audit("a"), augmentation |-> run_augmentation("a", "ae", "ac"),
     recovery |-> run_recovery("a", "ac"), compare |-> compare_models("a"),
     cost |-> run_cost("a"), test |-> run_test("a"),
     final |-> run_evaluation("a"), other_final |-> run_evaluation("b"),
     serve |-> load_verified_bundle("a")]

\* What is given was written by no process; an empty receipt is no policy of
\* a configuration.
ASSUME WorldsAssumption ==
    \A w \in Worlds :
        /\ "given" \notin DOMAIN w.jobs
        /\ \A p \in DOMAIN w.jobs :
               w.jobs[p].script \in DOMAIN Scripts /\ w.jobs[p].policy # "unwritten"

VARIABLES
    world,   \* the processes; never changes
    disk,    \* per file that exists: version, writer, claims, policy
    proc,    \* per process
    edits

vars == <<world, disk, proc, edits>>

Processes == DOMAIN world.jobs
Steps(p) == Scripts[world.jobs[p].script]
Policy(p) == world.jobs[p].policy

Nothing == [f \in {} |-> 0]

\* What new says, and for the rest what old says.
Over(new, old) ==
    [f \in DOMAIN new \cup DOMAIN old |-> IF f \in DOMAIN new THEN new[f] ELSE old[f]]

Content(by, claims, policy) == [v |-> 0, by |-> by, claims |-> claims, policy |-> policy]

\* What m says of f.  A manifest that is given belongs to the files given with
\* it, and one that was replaced to what replaced them.
ClaimOf(m, f) ==
    IF disk[m].by = "given" \/ f \notin DOMAIN disk[m].claims THEN disk[m].v ELSE disk[m].claims[f]

Given(w) == {f \in UNION {Files(Scripts[w.jobs[p].script]) : p \in DOMAIN w.jobs} : f[1] = "in"}
Test == In("test")
Receipt(p) == <<"registry", IF proc[p].expect = 0 THEN "first" ELSE "changed">>

Init ==
    /\ world \in Worlds
    /\ disk = [f \in Given(world) \cup {Test} |-> Content("given", Nothing, Policy("a"))]
    /\ proc = [p \in Processes |->
                  [pc |-> 1, len |-> Len(Steps(p)), status |-> "running", handler |-> {},
                   used |-> Nothing, first |-> Nothing, evidence |-> Nothing, expect |-> 0]]
    /\ edits = 0

-----------------------------------------------------------------------------
Exists(F) == F \subseteq DOMAIN disk
Versions(F) == [f \in F |-> disk[f].v]
\* Mutant: the digests are not compared.
MutMatch(p, F) == Exists(F)

Match(p, F) == Exists(F) /\ \A f \in F : f \in DOMAIN proc[p].evidence /\ disk[f].v = proc[p].evidence[f]
Evidence(p) == DOMAIN proc[p].evidence

\* What is created under mode "x", or by mkdir, must not be there.
\* Mutant: it is opened for writing whether it exists or not.
MutFree(F) == TRUE

Free(F) == F \cap DOMAIN disk = {}

\* What the step s needs, or it raises.
Succeeds(p, s) ==
    LET evidence == proc[p].evidence
    IN  CASE s.op \in {"absent", "create", "publish", "report"} -> Free(s.files)
          [] s.op \in {"read", "peek", "hash", "take"} -> Exists(s.files)
          [] s.op = "claim" -> /\ Exists({s.from})
                               /\ \A f \in s.also : ClaimOf(s.from, f) = evidence[f]
          [] s.op = "manifest" -> Exists({s.from})
          [] s.op = "described" -> /\ Exists({s.from} \cup s.files)
                                   /\ \A f \in s.files : disk[f].v = ClaimOf(s.from, f)
          [] s.op = "unchanged" -> \A f \in s.files : evidence[f] = proc[p].first[f]
          [] s.op = "as_first" -> Exists(s.files) /\ \A f \in s.files : disk[f].v = proc[p].first[f]
          [] s.op = "pinned" -> Exists({s.from}) /\ disk[s.from].v = 0
          [] s.op = "pin" -> Exists(s.files) /\ \A f \in s.files : disk[f].v = 0
          [] s.op = "agrees" -> Match(p, {s.from}) /\ ClaimOf(s.from, s.as) = evidence[s.file]
          [] s.op \in {"verified", "verify"} -> Match(p, s.files)
          [] s.op = "verify_all" -> Match(p, Evidence(p))
          [] s.op = "verify_without_test" -> Test \notin Evidence(p) /\ Match(p, Evidence(p))
          [] s.op = "copy" -> Exists({s.from})
          [] s.op = "matches" -> \A f \in s.files : disk[f].v = evidence[s.from]
          [] s.op = "equal" -> Exists({s.from}) /\ \A f \in s.files : disk[f].v = disk[s.from].v
          [] s.op = "expect" -> Exists({s.from})
          [] s.op = "as_expected" -> Exists({s.from}) /\ ClaimOf(s.from, Test) = proc[p].expect
          [] s.op = "settle" -> disk[Receipt(p)].by = p \/ disk[Receipt(p)].policy = Policy(p)
          [] s.op = "allowed" -> disk[Receipt(p)].policy = disk[s.from].policy
          [] s.op = "open_test" -> disk[Test].v = proc[p].expect
          [] OTHER -> TRUE

\* What is read or computed may also be unacceptable for what it says.
Judged == {"read", "peek", "take", "claim", "manifest", "pinned", "verified", "agrees", "check", "open_test"}

\* The process goes on with the next step, or is done.
Go(p, r) ==
    proc' = [proc EXCEPT ![p] =
        [r EXCEPT !.pc = @ + 1, !.status = IF r.pc = r.len THEN "complete" ELSE "running"]]
Write(p, F, claims) == disk' = Over([f \in F |-> Content(p, claims, Policy(p))], disk)
Keeps == UNCHANGED <<disk, world, edits>>

Raise(p, s) ==
    /\ s.op \notin Judged => ~Succeeds(p, s)
    /\ proc' = [proc EXCEPT ![p].status = "failed"]
    /\ Write(p, proc[p].handler, Nothing)
    /\ UNCHANGED <<world, edits>>

\* Nothing but the next step: the condition was all.
Pass(p, s) ==
    /\ s.op \in {"absent", "verify", "verify_all", "verify_without_test", "check", "peek",
                  "described", "unchanged", "as_first", "pin", "matches", "equal", "as_expected", "allowed"}
    /\ Go(p, proc[p]) /\ Keeps

EnterTry(p, s) ==
    /\ s.op = "try"
    /\ Go(p, [proc[p] EXCEPT !.handler = s.files]) /\ Keeps

\* The process r after it used F, and after it took digests as evidence.
Using(r, F) == [r EXCEPT !.used = Over(Versions(F), @)]
Knowing(r, digests) == [r EXCEPT !.evidence = Over(digests, @), !.first = Over(@, digests)]

UseFiles(p, s) ==
    /\ s.op \in {"read", "verified", "agrees"}
    /\ Go(p, Using(proc[p], s.files)) /\ Keeps

HashFiles(p, s) ==
    /\ s.op = "hash"
    /\ Go(p, Knowing(proc[p], Versions(s.files))) /\ Keeps

TakeFiles(p, s) ==
    /\ s.op = "take"
    /\ Go(p, Knowing(Using(proc[p], s.files), Versions(s.files))) /\ Keeps

TakeClaims(p, s) ==
    /\ s.op \in {"claim", "manifest", "pinned"}
    /\ LET claims == [f \in s.files |-> ClaimOf(s.from, f)]
       IN  Go(p, IF s.op = "claim" THEN Knowing(proc[p], claims)
                 ELSE Knowing(Using(proc[p], {s.from}), Over(Versions({s.from}), claims)))
    /\ Keeps

WriteFiles(p, s) ==
    /\ s.op \in {"create", "put"}
    /\ Write(p, s.files, Nothing)
    /\ Go(p, proc[p])
    /\ UNCHANGED <<world, edits>>

CopyFile(p, s) ==
    /\ s.op = "copy"
    /\ disk' = Over([f \in s.files |-> [disk[s.from] EXCEPT !.by = p]], disk)
    /\ Go(p, proc[p])
    /\ UNCHANGED <<world, edits>>

\* A manifest: the digests known so far, and those taken for it now.
PublishManifest(p, s) ==
    /\ s.op \in {"publish", "report", "rewrite"}
    /\ LET now == Versions(s.inventory \cap DOMAIN disk)
           known == Restrict(proc[p].evidence, s.inventory \cap Evidence(p))
       IN  Write(p, s.files, IF s.op = "publish" THEN Over(now, proc[p].evidence) ELSE Over(known, now))
    /\ Go(p, proc[p])
    /\ UNCHANGED <<world, edits>>

Skip(p, s) ==
    /\ s.op = "maybe"
    /\ \/ Go(p, proc[p])
       \/ Go(p, [proc[p] EXCEPT !.pc = @ + s.skip])
    /\ Keeps

ExpectTest(p, s) ==
    /\ s.op = "expect"
    /\ Go(p, [proc[p] EXCEPT !.expect = ClaimOf(s.from, Test)])
    /\ Keeps

\* open(path, "x") of the receipt: from here it exists, still empty.
\* Mutant: it is opened for writing whether it exists or not.
MutReserveReceipt(p, s) ==
    /\ s.op = "reserve"
    /\ disk' = Over([f \in {Receipt(p)} |-> Content(p, Nothing, "unwritten")], disk)
    /\ Go(p, proc[p])
    /\ UNCHANGED <<world, edits>>

ReserveReceipt(p, s) ==
    /\ s.op = "reserve"
    /\ IF Exists({Receipt(p)}) THEN UNCHANGED disk
       ELSE disk' = Over([f \in {Receipt(p)} |-> Content(p, Nothing, "unwritten")], disk)
    /\ Go(p, proc[p])
    /\ UNCHANGED <<world, edits>>

\* The one that created it writes it; another must find its own policy in it.
SettleReceipt(p, s) ==
    /\ s.op = "settle"
    /\ IF disk[Receipt(p)].by = p THEN Write(p, {Receipt(p)}, Nothing) ELSE UNCHANGED disk
    /\ Go(p, Knowing(proc[p], Versions({Receipt(p)})))
    /\ UNCHANGED <<world, edits>>

ReadTest(p, s) ==
    /\ s.op = "open_test"
    /\ Go(p, Knowing(Using(proc[p], {Test}), Versions({Test})))
    /\ Keeps

\* A given file, or a file of a script that is done, is replaced; a manifest
\* is then one that claims the replaced files.
Edit(F) ==
    /\ edits < world.edits /\ edits' = edits + 1
    /\ \A f \in F :
           /\ disk[f].v = 0
           /\ disk[f].by \in Processes => proc[disk[f].by].status = "complete"
    /\ disk' = Over([f \in F |-> [disk[f] EXCEPT !.v = 1, !.claims = [g \in DOMAIN @ |-> 1]]], disk)
    /\ UNCHANGED <<world, proc>>

\* What p does in its step s, if it does not raise.
DoStep(p, s) ==
    \/ Pass(p, s) \/ EnterTry(p, s) \/ UseFiles(p, s) \/ HashFiles(p, s) \/ TakeFiles(p, s)
    \/ TakeClaims(p, s) \/ WriteFiles(p, s) \/ CopyFile(p, s) \/ PublishManifest(p, s)
    \/ Skip(p, s) \/ ExpectTest(p, s) \/ ReserveReceipt(p, s) \/ SettleReceipt(p, s) \/ ReadTest(p, s)

Run(p) ==
    /\ proc[p].status = "running"
    /\ \E s \in {Steps(p)[proc[p].pc]} : Raise(p, s) \/ (Succeeds(p, s) /\ DoStep(p, s))

Next ==
    \/ \E p \in Processes : Run(p)
    \/ \E f \in DOMAIN disk : Edit({f})
    \/ dataset \subseteq DOMAIN disk /\ Edit(dataset)

Spec == Init /\ [][Next]_vars

-----------------------------------------------------------------------------
(* Properties *)

\* The manifests that stand as a script wrote them.
Published == {m \in DOMAIN disk : disk[m].by \in Processes /\ disk[m].v = 0 /\ disk[m].claims # Nothing}

\* The diagnosis takes the digests of the model it has loaded once more,
\* from files that may be others by then.
HashedAgain(p) ==
    IF world.jobs[p].script = "diagnosis" THEN {training_manifest, candidate} ELSE {}

\* A manifest tells the truth: when a script publishes one, the digest it
\* states for a file is that of the content the script last used, although
\* files may be replaced between the time they were hashed and the time
\* they were opened.  What a script read before it had any digest of the
\* file (Peek) is not covered, nor what it hashes again (HashedAgain), nor a
\* file that was replaced and put back.
ManifestIsTrue ==
    [][\A m \in Published' \ Published :
           LET p == disk'[m].by
               used == proc[p].used
               claims == disk'[m].claims
           IN  \A f \in (DOMAIN used \cap DOMAIN claims) \ HashedAgain(p) : claims[f] = used[f]]_vars

\* What a manifest lists of its own run was written by that run: two
\* processes started on the same directory do not publish each other's
\* models, tables, captures or reports.
OneAuthor ==
    \A m \in Published : \A f \in DOMAIN disk[m].claims :
        f[1] \notin {"in", "registry"} => f \in DOMAIN disk /\ disk[f].by = disk[m].by

Opened(p) == Test \in DOMAIN proc[p].used

\* One policy per holdout: evaluators that read the same Test data, from
\* whatever script and however they interleave, had locked the same policy.
HoldoutOnce ==
    \A p, q \in Processes :
        Opened(p) /\ Opened(q) /\ proc[p].used[Test] = proc[q].used[Test] => Policy(p) = Policy(q)

\* A service that started serves what was tested: its bundle was published
\* by an evaluation that is complete, and the model it loaded is the one that
\* evaluation ran on Test.
ServedIsApproved ==
    \A p \in Processes : world.jobs[p].script = "serve" /\ proc[p].status = "complete" =>
        \E q \in Processes :
            /\ disk[Out("a", "evaluation_manifest")].by = q
            /\ world.jobs[q].script = "test" /\ proc[q].status = "complete"
            /\ proc[p].used[Out("a", "model")] = proc[q].used[locked]

=============================================================================
