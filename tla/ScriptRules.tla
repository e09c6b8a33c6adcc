---------------------------- MODULE ScriptRules ----------------------------
(***************************************************************************)
(* What the order of the steps guarantees, script by script.  Nothing here *)
(* depends on a constant or a variable: Scripts is a table, the rules are  *)
(* true or false of it, and TLC finds them true by looking at every entry. *)
(* The proofs about Pipeline use the rules and never look at a script, so  *)
(* a rule is what the author of a new script has to respect.               *)
(***************************************************************************)
EXTENDS Pipeline

\* Where a script goes on when it leaves out the steps after step k.
Landing(st, k) == k + 1 + st[k].skip

\* Whoever is at step i has done step j.
Sure(st, j, i) ==
    /\ j < i
    /\ \A k \in 1..j : st[k].op = "maybe" => Landing(st, k) <= j \/ Landing(st, k) > i

\* ... and has not changed his mind about the Test data since.
Since(st, j, i) == Sure(st, j, i) /\ \A k \in j..(i - 1) : st[k].op # "expect"

WriteOps == {"create", "put", "copy", "publish", "report", "rewrite"}
UseOps == {"read", "verified", "agrees", "take"}

Registry == {<<"registry", "first">>, <<"registry", "changed">>}

\* A script has steps, and what it may leave out lies within it.
ASSUME ScriptsAreSequences ==
    \A name \in DOMAIN Scripts :
        LET st == Scripts[name]
        IN  /\ Len(st) \in Nat \ {0} /\ DOMAIN st = 1..Len(st)
            /\ \A i \in 1..Len(st) : st[i].op = "maybe" =>
                   st[i].skip \in Nat /\ i + st[i].skip <= Len(st)

\* Test and the receipts are only handled by the steps meant for them; a
\* receipt is created before it is settled, and settled, for the Test data
\* expected, before these are opened.
ASSUME HoldoutRule ==
    \A name \in DOMAIN Scripts : \A i \in 1..Len(Scripts[name]) :
        LET st == Scripts[name]
        IN  /\ st[i].op \in WriteOps \cup {"try"} => Registry \cap st[i].files = {}
            /\ st[i].op \in UseOps => Test \notin st[i].files
            /\ st[i].op \in {"manifest", "pinned"} => Test # st[i].from
            /\ st[i].op = "settle" =>
                   \E j \in 1..Len(st) : st[j].op = "reserve" /\ Since(st, j, i)
            /\ st[i].op = "open_test" =>
                   \E j \in 1..Len(st) : st[j].op = "settle" /\ Since(st, j, i)

-----------------------------------------------------------------------------
(* Whose files are they? *)

Own(f) == f[1] \notin {"in", "registry"}

PublishOps == {"publish", "report", "rewrite"}
ClaimOps == {"claim", "manifest", "pinned"}
Exclusive == {"create", "publish", "report"}

Indices(st) == 1..Len(st)
Creates(st, j, f) == st[j].op \in Exclusive /\ f \in st[j].files
WritesAt(st, j, f) == st[j].op \in WriteOps \cup {"try"} /\ f \in st[j].files
Output(st) == UNION {st[j].files : j \in {i \in Indices(st) : st[i].op \in WriteOps \cup {"try"}}}
Publishes(st) == \E j \in Indices(st) : st[j].op \in PublishOps

\* Only the script that created k gets to write f.
Guards(st, k, f) ==
    /\ \A i \in Indices(st) : WritesAt(st, i, k) => Creates(st, i, k)
    /\ f # k => \A i \in Indices(st) : WritesAt(st, i, f) =>
           st[i].op # "try" /\ \E j \in Indices(st) : Creates(st, j, k) /\ Sure(st, j, i)

\* What the step s puts on the list a manifest is made of.
Lists(s) ==
    CASE s.op \in PublishOps -> s.inventory
      [] s.op \in {"hash", "take", "claim"} -> s.files
      [] s.op \in {"manifest", "pinned"} -> {s.from} \cup s.files
      [] OTHER -> {}

\* A script writes in its own places; what it copies was given to it; what it
\* lists of its own is an output of it that it alone can have written by then;
\* and what it believes a manifest of its own about, it has written.
ASSUME AuthorRule ==
    \A name \in DOMAIN Scripts :
        LET st == Scripts[name]
        IN  /\ \A f \in Output(st) : Own(f)
            /\ \A i \in Indices(st) : st[i].op = "copy" => st[i].from[1] = "in"
            /\ Publishes(st) => \A i \in Indices(st) : \A f \in Lists(st[i]) : Own(f) =>
                   /\ f \in Output(st)
                   /\ \E j \in Indices(st) : Sure(st, j, i) /\
                          \E k \in Output(st) : Creates(st, j, k) /\ Guards(st, k, f)
                   /\ st[i].op \in ClaimOps =>
                          \E j \in Indices(st) : Sure(st, j, i) /\ st[j].op \in WriteOps /\ f \in st[j].files

\* Every script is configured with an artifact directory and a report prefix
\* of its own; the same script may be started any number of times.
ASSUME PlacesAssumption ==
    \A w \in Worlds : \A p, q \in DOMAIN w.jobs :
        LET a == w.jobs[p].script
            b == w.jobs[q].script
        IN  a # b => Output(Scripts[a]) \cap Output(Scripts[b]) = {}

-----------------------------------------------------------------------------
(* What the service rests on *)

model == Out("a", "model")
approval == Out("a", "evaluation_manifest")
verdict == Out("a", "test_verdict")

\* What the step s takes digests of, and what it uses.
Learnt(s) == IF s.op \in PublishOps THEN {} ELSE Lists(s)
UsedIn(s) ==
    CASE s.op \in UseOps -> s.files
      [] s.op \in {"manifest", "pinned"} -> {s.from}
      [] OTHER -> {}

\* Only the test writes a verdict, and whoever writes the approval creates it.
ASSUME ApprovalRule ==
    \A name \in DOMAIN Scripts :
        LET st == Scripts[name]
        IN  /\ verdict \in Output(st) => name = "test"
            /\ \A i \in Indices(st) : WritesAt(st, i, approval) => Creates(st, i, approval)

\* Where the script learns the digest of f, uses f, takes the digest of the
\* model from the lock, and checks the model against it.
Learning(st, f) == {i \in Indices(st) : f \in Learnt(st[i])}
Reading(st, f) == {i \in Indices(st) : f \in UsedIn(st[i])}
Locking(st) ==
    {i \in Indices(st) : st[i].op = "claim" /\ st[i].from = candidate_lock /\ locked \in st[i].files}
Checking(st) == {i \in Indices(st) : st[i].op = "verify" /\ locked \in st[i].files}
Behind(st, J, i) == \E j \in J : Sure(st, j, i)

\* The test takes the digest of the lock, then that of the model from the
\* lock, then checks the model against it, and only then uses it; last it
\* verifies everything again and publishes the approval.
ASSUME TestRule ==
    LET st == Scripts["test"]
        n == Len(st)
    IN  /\ {candidate_lock, locked} \subseteq Files(st)
        /\ n > 1 /\ st[n].op = "publish" /\ st[n].files = {approval} /\ candidate_lock \notin st[n].inventory
        /\ \A i \in Indices(st) : WritesAt(st, i, approval) => i = n
        /\ st[n - 1].op = "verify_all" /\ Sure(st, n - 1, n + 1)
        /\ \A J \in {Locking(st), Checking(st), Reading(st, locked)} : Behind(st, J, n - 1)
        /\ \A i \in Learning(st, candidate_lock) : st[i].op = "hash"
        /\ \A i \in Locking(st) :
               /\ Behind(st, Learning(st, candidate_lock), i)
               /\ \A j \in Learning(st, candidate_lock) : j < i
               /\ \A j \in Learning(st, locked) : j <= i
        /\ \A i \in Checking(st) :
               /\ Behind(st, Locking(st), i)
               /\ \A j \in Learning(st, locked) : j < i
        /\ \A i \in Reading(st, locked) : Behind(st, Checking(st), i)

\* The service reads the approval, then the files it approves, then the lock.
ASSUME ServeRule ==
    LET st == Scripts["serve"]
    IN  /\ Len(st) > 3
        /\ st[1].op = "pinned" /\ st[1].from = approval /\ {candidate_lock, model} \subseteq st[1].files
        /\ st[2].op = "verified" /\ {model, verdict} \subseteq st[2].files
        /\ st[3].op = "agrees" /\ st[3].from = candidate_lock /\ st[3].file = model
        /\ \A i \in Indices(st) :
               /\ st[i].op # "maybe"
               /\ Learnt(st[i]) # {} => i = 1
               /\ model \in UsedIn(st[i]) => i = 2
=============================================================================
