--------------------------- MODULE PipelineProofs ---------------------------
(***************************************************************************)
(* Pipeline for any number of processes, any scripts of the table in any   *)
(* combination, any policies and any number of replaced files: a holdout   *)
(* is tested under one policy, every output file has one author, and the   *)
(* service serves what the approved test looked at.  And the campaign that *)
(* a collecting script executes, for any number of runners and runs.       *)
(*                                                                         *)
(* The first three rest on which files a process has already looked at     *)
(* (proc's used, first and evidence) and on the rules of the script table, *)
(* which ScriptRules states and TLC evaluates.  The campaign's two rest on *)
(* the order in which a runner stops its processes.                        *)
(***************************************************************************)
EXTENDS ScriptRules, CaptureCampaign, TLAPS

Fields == {"pc", "len", "status", "handler", "used", "first", "evidence", "expect"}
ContentFields == {"v", "by", "claims", "policy"}

ProcShape(p) ==
    /\ DOMAIN proc[p] = Fields
    /\ proc[p].pc \in Nat /\ proc[p].pc >= 1 /\ proc[p].len = Len(Steps(p))
    /\ proc[p].status = "running" => proc[p].pc <= Len(Steps(p))
    /\ Registry \cap proc[p].handler = {}

Shape ==
    /\ world \in Worlds
    /\ DOMAIN proc = Processes
    /\ \A p \in Processes : ProcShape(p)
    /\ \A f \in DOMAIN disk : DOMAIN disk[f] = ContentFields

At(p) == Steps(p)[proc[p].pc]

-----------------------------------------------------------------------------
(* The operators *)

LEMMA Overrides ==
  ASSUME NEW g, NEW h
  PROVE  /\ DOMAIN Over(g, h) = DOMAIN g \cup DOMAIN h
         /\ \A x \in DOMAIN g : Over(g, h)[x] = g[x]
         /\ \A x \in DOMAIN h \ DOMAIN g : Over(g, h)[x] = h[x]
BY DEF Over

\* What a process does next.
LEMMA AtStep ==
  ASSUME Shape, NEW p \in Processes, proc[p].status = "running"
  PROVE  /\ proc[p].pc \in 1..Len(Steps(p)) /\ Len(Steps(p)) \in Nat
         /\ DOMAIN Steps(p) = 1..Len(Steps(p))
         /\ At(p).op = "maybe" =>
                At(p).skip \in Nat /\ proc[p].pc + At(p).skip <= Len(Steps(p))
         /\ At(p).op \in WriteOps \cup {"try"} => Registry \cap At(p).files = {}
         /\ At(p).op \in UseOps => Test \notin At(p).files
         /\ At(p).op \in {"manifest", "pinned"} => Test # At(p).from
<1> DEFINE name == world.jobs[p].script
<1>1. name \in DOMAIN Scripts
  BY WorldsAssumption DEF Shape, Processes
<1>2. Steps(p) = Scripts[name]
  BY DEF Steps
<1> HIDE DEF name
<1>3. Len(Steps(p)) \in Nat /\ DOMAIN Steps(p) = 1..Len(Steps(p))
  BY <1>1, <1>2, ScriptsAreSequences
<1>4. proc[p].pc \in 1..Len(Steps(p))
  BY <1>3 DEF Shape, ProcShape
<1>5. At(p).op = "maybe" => At(p).skip \in Nat /\ proc[p].pc + At(p).skip <= Len(Steps(p))
  BY <1>1, <1>2, <1>4, ScriptsAreSequences DEF At
<1> QED
  BY <1>1, <1>2, <1>3, <1>4, <1>5, HoldoutRule DEF At

\* Go changes the process p, and in it what r says.
LEMMA Goes ==
  ASSUME NEW p \in Processes, DOMAIN proc = Processes, NEW r, DOMAIN r = Fields, Go(p, r)
  PROVE  /\ DOMAIN proc' = Processes
         /\ \A q \in Processes \ {p} : proc'[q] = proc[q]
         /\ DOMAIN proc'[p] = Fields
         /\ proc'[p].pc = r.pc + 1 /\ proc'[p].len = r.len
         /\ proc'[p].status = IF r.pc = r.len THEN "complete" ELSE "running"
         /\ proc'[p].handler = r.handler /\ proc'[p].used = r.used
         /\ proc'[p].first = r.first /\ proc'[p].evidence = r.evidence
         /\ proc'[p].expect = r.expect
<1> DEFINE new == [r EXCEPT !.pc = @ + 1, !.status = IF r.pc = r.len THEN "complete" ELSE "running"]
<1>1. proc' = [proc EXCEPT ![p] = new]
  BY DEF Go
<1>2. /\ DOMAIN new = Fields /\ new.pc = r.pc + 1 /\ new.len = r.len
      /\ new.status = (IF r.pc = r.len THEN "complete" ELSE "running")
      /\ new.handler = r.handler /\ new.used = r.used
      /\ new.first = r.first /\ new.evidence = r.evidence /\ new.expect = r.expect
  BY DEF Fields
<1> HIDE DEF new
<1>3. proc'[p] = new /\ DOMAIN proc' = Processes /\ \A q \in Processes \ {p} : proc'[q] = proc[q]
  BY <1>1
<1> QED
  BY <1>2, <1>3

LEMMA Records ==
  ASSUME NEW r, DOMAIN r = Fields, NEW F, NEW digests
  PROVE  /\ DOMAIN Using(r, F) = Fields /\ DOMAIN Knowing(r, digests) = Fields
         /\ Using(r, F).used = Over(Versions(F), r.used)
         /\ Using(r, F).evidence = r.evidence /\ Using(r, F).first = r.first
         /\ Knowing(r, digests).used = r.used
         /\ Knowing(r, digests).evidence = Over(digests, r.evidence)
         /\ Knowing(r, digests).first = Over(r.first, digests)
         /\ \A f \in {"pc", "len", "status", "handler", "expect"} :
                Using(r, F)[f] = r[f] /\ Knowing(r, digests)[f] = r[f]
BY DEF Using, Knowing, Fields

\* What a process has done it has done at its next place; it cannot have come
\* there without having done it, unless it has just done it.
LEMMA SureStep ==
  ASSUME NEW st, NEW n \in Nat, NEW i \in 1..n, NEW j \in 1..n, NEW next,
         \A k \in 1..n : st[k].op = "maybe" => st[k].skip \in Nat,
         next = i + 1 \/ (st[i].op = "maybe" /\ next = Landing(st, i)),
         Sure(st, j, next)
  PROVE  next \in Nat /\ next > i /\ (j = i \/ Sure(st, j, i))
<1>1. next \in Nat /\ next >= i + 1
  BY DEF Landing
<1>2. /\ j < next
      /\ \A k \in 1..j : st[k].op = "maybe" => Landing(st, k) <= j \/ Landing(st, k) > next
  BY DEF Sure
<1>3. j <= i
  <2>1. CASE next = i + 1
    BY <1>2, <2>1
  <2>2. CASE st[i].op = "maybe" /\ next = Landing(st, i)
    <3>1. ASSUME j > i PROVE FALSE
      <4>1. i \in 1..j
        BY <3>1
      <4>2. Landing(st, i) <= j \/ Landing(st, i) > next
        BY <1>2, <2>2, <4>1
      <4> QED
        BY <1>1, <1>2, <2>2, <4>2
    <3> QED
      BY <3>1
  <2> QED
    BY <2>1, <2>2
<1>4. CASE j < i
  <2>1. \A k \in 1..j : st[k].op = "maybe" => Landing(st, k) <= j \/ Landing(st, k) > i
    <3> SUFFICES ASSUME NEW k \in 1..j, st[k].op = "maybe"
                 PROVE  Landing(st, k) <= j \/ Landing(st, k) > i
      OBVIOUS
    <3>1. k \in 1..n
      OBVIOUS
    <3>2. Landing(st, k) \in Nat
      BY <3>1 DEF Landing
    <3> QED
      BY <1>1, <1>2, <3>2
  <2> QED
    BY <1>1, <1>4, <2>1 DEF Sure
<1> QED
  BY <1>1, <1>3, <1>4

-----------------------------------------------------------------------------
(* What a step changes *)

\* Processes other than p stand still, and p keeps its script.
Others(p) ==
    /\ world' = world /\ edits' = edits /\ DOMAIN proc' = Processes
    /\ \A q \in Processes \ {p} : proc'[q] = proc[q]
    /\ DOMAIN proc'[p] = Fields /\ proc'[p].len = proc[p].len

\* p goes on with the next step, or behind the ones it leaves out.
Advances(p) ==
    LET i == proc[p].pc
        j == proc'[p].pc
    IN  /\ j = i + 1 \/ (At(p).op = "maybe" /\ j = Landing(Steps(p), i))
        /\ proc'[p].status = IF j = proc[p].len + 1 THEN "complete" ELSE "running"
        /\ proc'[p].handler = IF At(p).op = "try" THEN At(p).files ELSE proc[p].handler
        /\ proc'[p].expect = IF At(p).op = "expect" THEN ClaimOf(At(p).from, Test)
                             ELSE proc[p].expect

\* What the step s uses, and what it takes as evidence.
UsedFiles(s) ==
    CASE s.op \in UseOps -> s.files
      [] s.op \in {"manifest", "pinned"} -> {s.from}
      [] s.op = "open_test" -> {Test}
      [] OTHER -> {}
Uses(p) ==
    LET F == UsedFiles(At(p))
        old == proc[p].used
        new == proc'[p].used
    IN  /\ DOMAIN new = F \cup DOMAIN old
        /\ \A f \in F : new[f] = disk[f].v
        /\ \A f \in DOMAIN old \ F : new[f] = old[f]

LearntFiles(p, s) ==
    CASE s.op \in {"hash", "take", "claim"} -> s.files
      [] s.op \in {"manifest", "pinned"} -> {s.from} \cup s.files
      [] s.op = "settle" -> {Receipt(p)}
      [] s.op = "open_test" -> {Test}
      [] OTHER -> {}
Digest(s, f) ==
    IF s.op = "claim" \/ (s.op \in {"manifest", "pinned"} /\ f # s.from)
    THEN ClaimOf(s.from, f) ELSE disk[f].v
Learns(p) ==
    LET F == LearntFiles(p, At(p))
        old == proc[p].evidence
        new == proc'[p].evidence
    IN  /\ DOMAIN new = F \cup DOMAIN old
        /\ \A f \in F : new[f] = Digest(At(p), f)
        /\ \A f \in DOMAIN old \ F : new[f] = old[f]

LEMMA OverLearns ==
  ASSUME NEW p, NEW g, DOMAIN g = LearntFiles(p, At(p)),
         \A f \in DOMAIN g : g[f] = Digest(At(p), f),
         proc'[p].evidence = Over(g, proc[p].evidence)
  PROVE  Learns(p)
<1> DEFINE h == proc[p].evidence
           s == At(p)
<1>1. proc'[p].evidence = Over(g, h)
  OBVIOUS
<1> HIDE DEF h, s
<1>2. /\ DOMAIN Over(g, h) = DOMAIN g \cup DOMAIN h
      /\ \A x \in DOMAIN g : Over(g, h)[x] = g[x]
      /\ \A x \in DOMAIN h \ DOMAIN g : Over(g, h)[x] = h[x]
  BY Overrides
<1>3. /\ DOMAIN Over(g, h) = LearntFiles(p, s) \cup DOMAIN h
      /\ \A f \in LearntFiles(p, s) : Over(g, h)[f] = Digest(s, f)
      /\ \A f \in DOMAIN h \ LearntFiles(p, s) : Over(g, h)[f] = h[f]
  BY <1>2 DEF s
<1> QED
  BY <1>1, <1>3 DEF Learns, h, s

\* p advances without touching the disk, using U and learning the digests of L.
LEMMA QuietStep ==
  ASSUME Shape, NEW p \in Processes, proc[p].status = "running",
         Pass(p, At(p)) \/ EnterTry(p, At(p)) \/ UseFiles(p, At(p)) \/ HashFiles(p, At(p))
         \/ TakeFiles(p, At(p)) \/ TakeClaims(p, At(p)) \/ Skip(p, At(p))
         \/ ExpectTest(p, At(p)) \/ ReadTest(p, At(p))
  PROVE  disk' = disk /\ Others(p) /\ Advances(p) /\ Uses(p) /\ Learns(p)
<1> DEFINE s == At(p)
           i == proc[p].pc
<1>0. /\ DOMAIN proc = Processes /\ DOMAIN proc[p] = Fields /\ i \in Nat
      /\ proc[p].len = Len(Steps(p)) /\ Len(Steps(p)) \in Nat
      /\ s.op = "maybe" => s.skip \in Nat
  BY AtStep DEF Shape, ProcShape
<1>a. disk' = disk /\ world' = world /\ edits' = edits
  BY DEF Pass, EnterTry, UseFiles, HashFiles, TakeFiles, TakeClaims, Skip, ExpectTest,
         ReadTest, Keeps
<1>b. /\ DOMAIN Versions(s.files) = s.files /\ \A f \in s.files : Versions(s.files)[f] = disk[f].v
      /\ DOMAIN Versions({s.from}) = {s.from} /\ Versions({s.from})[s.from] = disk[s.from].v
      /\ DOMAIN Versions({Test}) = {Test} /\ Versions({Test})[Test] = disk[Test].v
  BY DEF Versions
<1>c. ASSUME NEW r, DOMAIN r = Fields, Go(p, r), r.pc = i, r.len = proc[p].len
      PROVE  /\ Others(p) /\ proc'[p].pc = i + 1
             /\ proc'[p].status = IF i + 1 = proc[p].len + 1 THEN "complete" ELSE "running"
             /\ proc'[p].handler = r.handler /\ proc'[p].expect = r.expect
             /\ proc'[p].used = r.used /\ proc'[p].evidence = r.evidence
  <2>1. i = proc[p].len <=> i + 1 = proc[p].len + 1
    BY <1>0
  <2> QED
    BY <1>0, <1>a, <1>c, <2>1, Goes DEF Others
<1> HIDE DEF s, i
<1>1. CASE Pass(p, s)
  <2>1. Go(p, proc[p]) /\ s.op \notin UseOps \cup {"manifest", "pinned", "open_test", "hash", "claim",
                                              "settle", "try", "expect", "maybe", "take"}
    BY <1>1 DEF Pass, UseOps
  <2>2. UsedFiles(s) = {} /\ LearntFiles(p, s) = {}
    BY <2>1 DEF UsedFiles, LearntFiles
  <2> QED
    BY <1>0, <1>a, <1>c, <2>1, <2>2 DEF Advances, Uses, Learns, s, i
<1>d. ASSUME NEW F, UsedFiles(s) = F, proc'[p].used = Over(Versions(F), proc[p].used)
      PROVE  Uses(p)
  <2>1. DOMAIN Versions(F) = F /\ \A f \in F : Versions(F)[f] = disk[f].v
    BY DEF Versions
  <2> DEFINE g == Versions(F)
             h == proc[p].used
  <2> HIDE DEF g, h
  <2>2. /\ DOMAIN Over(g, h) = DOMAIN g \cup DOMAIN h
        /\ \A x \in DOMAIN g : Over(g, h)[x] = g[x]
        /\ \A x \in DOMAIN h \ DOMAIN g : Over(g, h)[x] = h[x]
    BY Overrides
  <2>3. proc'[p].used = Over(g, h)
    BY <1>d DEF g, h
  <2>4. /\ DOMAIN Over(g, h) = F \cup DOMAIN h
        /\ \A f \in F : Over(g, h)[f] = disk[f].v
        /\ \A f \in DOMAIN h \ F : Over(g, h)[f] = h[f]
    BY <2>1, <2>2 DEF g
  <2> QED
    BY <1>d, <2>3, <2>4 DEF Uses, s, h
<1>e. ASSUME NEW g, DOMAIN g = LearntFiles(p, s), \A f \in DOMAIN g : g[f] = Digest(s, f),
             proc'[p].evidence = Over(g, proc[p].evidence)
      PROVE  Learns(p)
  BY <1>e, OverLearns DEF s
<1>f. UsedFiles(s) = {} /\ proc'[p].used = proc[p].used => Uses(p)
  BY DEF Uses, s
<1>g. LearntFiles(p, s) = {} /\ proc'[p].evidence = proc[p].evidence => Learns(p)
  BY DEF Learns, s
<1>h. ASSUME NEW r, DOMAIN r = Fields, Go(p, r), r.pc = i, r.len = proc[p].len,
             s.op \notin {"try", "expect"}, r.handler = proc[p].handler, r.expect = proc[p].expect
      PROVE  /\ Others(p) /\ Advances(p)
             /\ proc'[p].used = r.used /\ proc'[p].evidence = r.evidence
  BY <1>c, <1>h DEF Advances, s, i
<1>2. CASE EnterTry(p, s)
  <2> DEFINE r == [proc[p] EXCEPT !.handler = s.files]
  <2>1. Go(p, r) /\ s.op = "try"
    BY <1>2 DEF EnterTry
  <2>2. /\ DOMAIN r = Fields /\ r.pc = i /\ r.len = proc[p].len /\ r.handler = s.files
        /\ r.expect = proc[p].expect /\ r.used = proc[p].used /\ r.evidence = proc[p].evidence
    BY <1>0 DEF Fields, i
  <2> HIDE DEF r
  <2>3. UsedFiles(s) = {} /\ LearntFiles(p, s) = {}
    BY <2>1 DEF UsedFiles, LearntFiles, UseOps
  <2> QED
    BY <1>a, <1>c, <1>f, <1>g, <2>1, <2>2, <2>3 DEF Advances, s, i
<1>3. CASE UseFiles(p, s)
  <2> DEFINE r == Using(proc[p], s.files)
  <2>1. Go(p, r) /\ s.op \in {"read", "verified", "agrees"}
    BY <1>3 DEF UseFiles
  <2>2. UsedFiles(s) = s.files /\ LearntFiles(p, s) = {}
    BY <2>1 DEF UsedFiles, LearntFiles, UseOps
  <2>3. /\ DOMAIN r = Fields /\ r.pc = i /\ r.len = proc[p].len /\ r.handler = proc[p].handler
        /\ r.expect = proc[p].expect /\ r.used = Over(Versions(s.files), proc[p].used)
        /\ r.evidence = proc[p].evidence
    BY <1>0, Records DEF i
  <2> HIDE DEF r
  <2> QED
    BY <1>a, <1>d, <1>g, <1>h, <2>1, <2>2, <2>3 DEF s
<1>4. CASE HashFiles(p, s)
  <2> DEFINE r == Knowing(proc[p], Versions(s.files))
  <2>1. Go(p, r) /\ s.op = "hash"
    BY <1>4 DEF HashFiles
  <2>2. UsedFiles(s) = {} /\ LearntFiles(p, s) = s.files
        /\ \A f \in s.files : Digest(s, f) = disk[f].v
    BY <2>1 DEF UsedFiles, LearntFiles, UseOps, Digest
  <2>3. /\ DOMAIN r = Fields /\ r.pc = i /\ r.len = proc[p].len /\ r.handler = proc[p].handler
        /\ r.expect = proc[p].expect /\ r.used = proc[p].used
        /\ r.evidence = Over(Versions(s.files), proc[p].evidence)
    BY <1>0, Records DEF i
  <2> HIDE DEF r
  <2>4. Others(p) /\ Advances(p) /\ proc'[p].used = r.used /\ proc'[p].evidence = r.evidence
    BY <1>h, <2>1, <2>3
  <2>5. Learns(p)
    BY <1>b, <1>e, <2>2, <2>3, <2>4
  <2> QED
    BY <1>a, <1>f, <2>2, <2>3, <2>4, <2>5
<1>5. CASE TakeFiles(p, s)
  <2> DEFINE u == Using(proc[p], s.files)
             r == Knowing(u, Versions(s.files))
  <2>1. Go(p, r) /\ s.op = "take"
    BY <1>5 DEF TakeFiles
  <2>2. UsedFiles(s) = s.files /\ LearntFiles(p, s) = s.files
        /\ \A f \in s.files : Digest(s, f) = disk[f].v
    BY <2>1 DEF UsedFiles, LearntFiles, UseOps, Digest
  <2>3. /\ DOMAIN u = Fields /\ u.pc = i /\ u.len = proc[p].len /\ u.handler = proc[p].handler
        /\ u.expect = proc[p].expect /\ u.used = Over(Versions(s.files), proc[p].used)
        /\ u.evidence = proc[p].evidence
    BY <1>0, Records DEF i
  <2> HIDE DEF u
  <2>4. /\ DOMAIN r = Fields /\ r.pc = i /\ r.len = proc[p].len /\ r.handler = proc[p].handler
        /\ r.expect = proc[p].expect /\ r.used = Over(Versions(s.files), proc[p].used)
        /\ r.evidence = Over(Versions(s.files), proc[p].evidence)
    BY <2>3, Records
  <2> HIDE DEF r
  <2>5. Others(p) /\ Advances(p) /\ proc'[p].used = r.used /\ proc'[p].evidence = r.evidence
    BY <1>h, <2>1, <2>4
  <2>6. Learns(p)
    BY <1>b, <1>e, <2>2, <2>4, <2>5
  <2>7. Uses(p)
    BY <1>d, <2>2, <2>4, <2>5
  <2> QED
    BY <1>a, <2>5, <2>6, <2>7
<1>6. CASE TakeClaims(p, s)
  <2> DEFINE claims == [f \in s.files |-> ClaimOf(s.from, f)]
  <2>1. CASE s.op = "claim"
    <3> DEFINE r == Knowing(proc[p], claims)
    <3>1. Go(p, r)
      BY <1>6, <2>1 DEF TakeClaims
    <3>2. UsedFiles(s) = {} /\ LearntFiles(p, s) = s.files
          /\ \A f \in s.files : Digest(s, f) = ClaimOf(s.from, f)
      BY <2>1 DEF UsedFiles, LearntFiles, UseOps, Digest
    <3>a. DOMAIN claims = s.files /\ \A f \in s.files : claims[f] = ClaimOf(s.from, f)
      OBVIOUS
    <3> HIDE DEF claims
    <3>3. /\ DOMAIN r = Fields /\ r.pc = i /\ r.len = proc[p].len /\ r.handler = proc[p].handler
          /\ r.expect = proc[p].expect /\ r.used = proc[p].used
          /\ r.evidence = Over(claims, proc[p].evidence)
      BY <1>0, Records DEF i
    <3> HIDE DEF r
    <3>4. Others(p) /\ Advances(p) /\ proc'[p].used = r.used /\ proc'[p].evidence = r.evidence
      BY <1>h, <2>1, <3>1, <3>3
    <3>5. Learns(p)
      BY <1>e, <3>a, <3>2, <3>3, <3>4
    <3> QED
      BY <1>a, <1>f, <3>2, <3>3, <3>4, <3>5
  <2>2. CASE s.op \in {"manifest", "pinned"}
    <3> DEFINE u == Using(proc[p], {s.from})
               g == Over(Versions({s.from}), claims)
               r == Knowing(u, g)
    <3>1. Go(p, r)
      BY <1>6, <2>2 DEF TakeClaims
    <3>2. UsedFiles(s) = {s.from} /\ LearntFiles(p, s) = {s.from} \cup s.files
          /\ Digest(s, s.from) = disk[s.from].v
          /\ \A f \in s.files \ {s.from} : Digest(s, f) = ClaimOf(s.from, f)
      BY <2>2 DEF UsedFiles, LearntFiles, UseOps, Digest
    <3>a. DOMAIN claims = s.files /\ \A f \in s.files : claims[f] = ClaimOf(s.from, f)
      OBVIOUS
    <3> HIDE DEF claims
    <3>b. DOMAIN g = {s.from} \cup s.files /\ \A f \in DOMAIN g : g[f] = Digest(s, f)
      <4> DEFINE w == Versions({s.from})
      <4> HIDE DEF w
      <4>1. /\ DOMAIN Over(w, claims) = DOMAIN w \cup DOMAIN claims
            /\ \A x \in DOMAIN w : Over(w, claims)[x] = w[x]
            /\ \A x \in DOMAIN claims \ DOMAIN w : Over(w, claims)[x] = claims[x]
        BY Overrides
      <4>2. DOMAIN w = {s.from} /\ w[s.from] = disk[s.from].v
        BY <1>b DEF w
      <4>3. g = Over(w, claims)
        BY DEF w
      <4> HIDE DEF g
      <4> QED
        BY <3>a, <3>2, <4>1, <4>2, <4>3
    <3> HIDE DEF g
    <3>3. /\ DOMAIN u = Fields /\ u.pc = i /\ u.len = proc[p].len /\ u.handler = proc[p].handler
          /\ u.expect = proc[p].expect /\ u.used = Over(Versions({s.from}), proc[p].used)
          /\ u.evidence = proc[p].evidence
      BY <1>0, Records DEF i
    <3> HIDE DEF u
    <3>4. /\ DOMAIN r = Fields /\ r.pc = i /\ r.len = proc[p].len /\ r.handler = proc[p].handler
          /\ r.expect = proc[p].expect /\ r.used = Over(Versions({s.from}), proc[p].used)
          /\ r.evidence = Over(g, proc[p].evidence)
      BY <3>3, Records
    <3> HIDE DEF r
    <3>5. Others(p) /\ Advances(p) /\ proc'[p].used = r.used /\ proc'[p].evidence = r.evidence
      BY <1>h, <2>2, <3>1, <3>4
    <3>6. Learns(p)
      BY <1>e, <3>b, <3>2, <3>4, <3>5
    <3>7. Uses(p)
      BY <1>d, <3>2, <3>4, <3>5
    <3> QED
      BY <1>a, <3>5, <3>6, <3>7
  <2> QED
    BY <1>6, <2>1, <2>2 DEF TakeClaims
<1>7. CASE Skip(p, s)
  <2>1. s.op = "maybe" /\ s.skip \in Nat
    BY <1>0, <1>7 DEF Skip
  <2>2. UsedFiles(s) = {} /\ LearntFiles(p, s) = {}
    BY <2>1 DEF UsedFiles, LearntFiles, UseOps
  <2>3. CASE Go(p, proc[p])
    BY <1>0, <1>a, <1>f, <1>g, <1>h, <2>1, <2>2, <2>3 DEF i
  <2>4. CASE Go(p, [proc[p] EXCEPT !.pc = @ + s.skip])
    <3> DEFINE r == [proc[p] EXCEPT !.pc = @ + s.skip]
    <3>1. /\ DOMAIN r = Fields /\ r.pc = i + s.skip /\ r.len = proc[p].len
          /\ r.handler = proc[p].handler /\ r.expect = proc[p].expect
          /\ r.used = proc[p].used /\ r.evidence = proc[p].evidence
      BY <1>0 DEF Fields, i
    <3>2. Go(p, r)
      BY <2>4
    <3> HIDE DEF r
    <3>3. /\ DOMAIN proc' = Processes /\ \A q \in Processes \ {p} : proc'[q] = proc[q]
          /\ DOMAIN proc'[p] = Fields /\ proc'[p].pc = r.pc + 1 /\ proc'[p].len = r.len
          /\ proc'[p].status = IF r.pc = r.len THEN "complete" ELSE "running"
          /\ proc'[p].handler = r.handler /\ proc'[p].used = r.used
          /\ proc'[p].evidence = r.evidence /\ proc'[p].expect = r.expect
      BY <1>0, <3>1, <3>2, Goes
    <3>4. proc'[p].pc = Landing(Steps(p), i)
      BY <1>0, <2>1, <3>1, <3>3 DEF Landing, s, i, At
    <3>5. r.pc = r.len <=> proc'[p].pc = proc[p].len + 1
      BY <1>0, <2>1, <3>1, <3>3
    <3>6. Others(p) /\ Advances(p)
      BY <1>a, <2>1, <3>1, <3>3, <3>4, <3>5 DEF Others, Advances, s, i
    <3> QED
      BY <1>a, <1>f, <1>g, <2>2, <3>1, <3>3, <3>6
  <2> QED
    BY <1>7, <2>3, <2>4 DEF Skip
<1>8. CASE ExpectTest(p, s)
  <2> DEFINE r == [proc[p] EXCEPT !.expect = ClaimOf(s.from, Test)]
  <2>1. Go(p, r) /\ s.op = "expect"
    BY <1>8 DEF ExpectTest
  <2>2. /\ DOMAIN r = Fields /\ r.pc = i /\ r.len = proc[p].len /\ r.handler = proc[p].handler
        /\ r.expect = ClaimOf(s.from, Test)
        /\ r.used = proc[p].used /\ r.evidence = proc[p].evidence
    BY <1>0 DEF Fields, i
  <2> HIDE DEF r
  <2>3. UsedFiles(s) = {} /\ LearntFiles(p, s) = {}
    BY <2>1 DEF UsedFiles, LearntFiles, UseOps
  <2> QED
    BY <1>a, <1>c, <1>f, <1>g, <2>1, <2>2, <2>3 DEF Advances, s, i
<1>9. CASE ReadTest(p, s)
  <2> DEFINE u == Using(proc[p], {Test})
             r == Knowing(u, Versions({Test}))
  <2>1. Go(p, r) /\ s.op = "open_test"
    BY <1>9 DEF ReadTest
  <2>2. UsedFiles(s) = {Test} /\ LearntFiles(p, s) = {Test} /\ Digest(s, Test) = disk[Test].v
    BY <2>1 DEF UsedFiles, LearntFiles, UseOps, Digest
  <2>3. /\ DOMAIN u = Fields /\ u.pc = i /\ u.len = proc[p].len /\ u.handler = proc[p].handler
        /\ u.expect = proc[p].expect /\ u.used = Over(Versions({Test}), proc[p].used)
        /\ u.evidence = proc[p].evidence
    BY <1>0, Records DEF i
  <2> HIDE DEF u
  <2>4. /\ DOMAIN r = Fields /\ r.pc = i /\ r.len = proc[p].len /\ r.handler = proc[p].handler
        /\ r.expect = proc[p].expect /\ r.used = Over(Versions({Test}), proc[p].used)
        /\ r.evidence = Over(Versions({Test}), proc[p].evidence)
    BY <2>3, Records
  <2> HIDE DEF r
  <2>5. Others(p) /\ Advances(p) /\ proc'[p].used = r.used /\ proc'[p].evidence = r.evidence
    BY <1>h, <2>1, <2>4
  <2>6. Learns(p)
    <3> DEFINE g == Versions({Test})
    <3>1. DOMAIN g = LearntFiles(p, s) /\ \A f \in DOMAIN g : g[f] = Digest(s, f)
      BY <1>b, <2>2
    <3>2. proc'[p].evidence = Over(g, proc[p].evidence)
      BY <2>4, <2>5
    <3> HIDE DEF g
    <3> QED
      BY <1>e, <3>1, <3>2
  <2>7. Uses(p)
    BY <1>d, <2>2, <2>4, <2>5
  <2> QED
    BY <1>a, <2>5, <2>6, <2>7
<1> QED
  BY <1>1, <1>2, <1>3, <1>4, <1>5, <1>6, <1>7, <1>8, <1>9 DEF s

\* What p writes in its step s: it never touches a receipt that is another's.
WrittenFiles(p, s) ==
    CASE s.op \in WriteOps -> s.files
      [] s.op = "reserve" -> {Receipt(p)} \ DOMAIN disk
      [] s.op = "settle" -> IF disk[Receipt(p)].by = p THEN {Receipt(p)} ELSE {}
      [] OTHER -> {}

\* What a file written in the step s may list.
ClaimedFiles(p, s) ==
    CASE s.op \in PublishOps -> (s.inventory \cap DOMAIN disk) \cup Evidence(p)
      [] s.op = "copy" -> DOMAIN disk[s.from].claims
      [] OTHER -> {}

\* Only the files F are new, and p's.
Writes(p, F) ==
    /\ DOMAIN disk' = F \cup DOMAIN disk
    /\ \A f \in DOMAIN disk \ F : disk'[f] = disk[f]
    /\ \A f \in F : DOMAIN disk'[f] = ContentFields /\ disk'[f].by = p

LEMMA OverDisk ==
  ASSUME NEW g, disk' = Over(g, disk)
  PROVE  /\ DOMAIN disk' = DOMAIN g \cup DOMAIN disk
         /\ \A f \in DOMAIN g : disk'[f] = g[f]
         /\ \A f \in DOMAIN disk \ DOMAIN g : disk'[f] = disk[f]
BY DEF Over

LEMMA OverWrites ==
  ASSUME NEW p, NEW g, disk' = Over(g, disk),
         \A f \in DOMAIN g : DOMAIN g[f] = ContentFields /\ g[f].by = p
  PROVE  Writes(p, DOMAIN g) /\ \A f \in DOMAIN g : disk'[f] = g[f]
<1>1. /\ DOMAIN disk' = DOMAIN g \cup DOMAIN disk
      /\ \A f \in DOMAIN g : disk'[f] = g[f]
      /\ \A f \in DOMAIN disk \ DOMAIN g : disk'[f] = disk[f]
  BY OverDisk
<1> QED
  BY <1>1 DEF Writes

\* What Content makes.
LEMMA Contents ==
  ASSUME NEW p, NEW claims, NEW policy
  PROVE  LET c == Content(p, claims, policy)
         IN  DOMAIN c = ContentFields /\ c.v = 0 /\ c.by = p /\ c.claims = claims /\ c.policy = policy
BY DEF Content, ContentFields

\* Write creates or truncates the files F, in the name of p.
LEMMA WriteWrites ==
  ASSUME NEW p, NEW F, NEW claims, Write(p, F, claims)
  PROVE  /\ Writes(p, F)
         /\ \A f \in F : disk'[f].v = 0 /\ disk'[f].policy = Policy(p) /\ disk'[f].claims = claims
<1> DEFINE c == Content(p, claims, Policy(p))
           g == [f \in F |-> c]
<1>1. disk' = Over(g, disk)
  BY DEF Write
<1>2. DOMAIN c = ContentFields /\ c.v = 0 /\ c.by = p /\ c.claims = claims /\ c.policy = Policy(p)
  BY Contents
<1> HIDE DEF c
<1>3. DOMAIN g = F /\ \A f \in F : g[f] = c
  OBVIOUS
<1> HIDE DEF g
<1>4. Writes(p, DOMAIN g) /\ \A f \in DOMAIN g : disk'[f] = g[f]
  BY <1>1, <1>2, <1>3, OverWrites
<1> QED
  BY <1>2, <1>3, <1>4

\* What p publishes states the digests it has, where it takes no new ones.
Tells(p, s) ==
    s.op = "publish" => \A m \in s.files :
        /\ disk'[m].v = 0
        /\ \A f \in Evidence(p) \ s.inventory :
               f \in DOMAIN disk'[m].claims /\ disk'[m].claims[f] = proc[p].evidence[f]

\* p advances, writing the files of its step and taking the digest of the
\* receipt when it settled it.
LEMMA WritingStep ==
  ASSUME Shape, NEW p \in Processes, proc[p].status = "running", Succeeds(p, At(p)),
         WriteFiles(p, At(p)) \/ CopyFile(p, At(p)) \/ PublishManifest(p, At(p))
         \/ ReserveReceipt(p, At(p)) \/ SettleReceipt(p, At(p))
  PROVE  /\ Others(p) /\ Advances(p) /\ Uses(p) /\ Learns(p)
         /\ Writes(p, WrittenFiles(p, At(p)))
         /\ At(p).op = "reserve" => \A f \in WrittenFiles(p, At(p)) : disk'[f].policy = "unwritten"
         /\ At(p).op = "settle" => \A f \in WrittenFiles(p, At(p)) : disk'[f].policy = Policy(p)
         /\ \A f \in WrittenFiles(p, At(p)) : DOMAIN disk'[f].claims \subseteq ClaimedFiles(p, At(p))
         /\ Tells(p, At(p))
<1> DEFINE s == At(p)
           i == proc[p].pc
           F == WrittenFiles(p, s)
<1>0. /\ DOMAIN proc = Processes /\ DOMAIN proc[p] = Fields /\ i \in Nat
      /\ proc[p].len = Len(Steps(p)) /\ Len(Steps(p)) \in Nat
  BY AtStep DEF Shape, ProcShape
<1>a. /\ world' = world /\ edits' = edits
      /\ s.op \in WriteOps \cup {"reserve", "settle"}
  BY DEF WriteFiles, CopyFile, PublishManifest, ReserveReceipt, SettleReceipt, WriteOps
<1>b. UsedFiles(s) = {}
  BY <1>a DEF UsedFiles, UseOps, WriteOps
<1>c. ASSUME NEW r, DOMAIN r = Fields, Go(p, r), r.pc = i, r.len = proc[p].len,
             r.handler = proc[p].handler, r.expect = proc[p].expect, r.used = proc[p].used
      PROVE  Others(p) /\ Advances(p) /\ Uses(p) /\ proc'[p].evidence = r.evidence
  <2>1. i = proc[p].len <=> i + 1 = proc[p].len + 1
    BY <1>0
  <2>2. /\ Others(p) /\ proc'[p].pc = i + 1
        /\ proc'[p].status = IF i + 1 = proc[p].len + 1 THEN "complete" ELSE "running"
        /\ proc'[p].handler = r.handler /\ proc'[p].expect = r.expect
        /\ proc'[p].used = r.used /\ proc'[p].evidence = r.evidence
    BY <1>0, <1>a, <1>c, <2>1, Goes DEF Others
  <2>3. s.op \notin {"try", "expect"}
    BY <1>a DEF WriteOps
  <2>4. Advances(p)
    BY <1>c, <2>2, <2>3 DEF Advances
  <2>5. Uses(p)
    BY <1>b, <1>c, <2>2 DEF Uses
  <2> QED
    BY <2>2, <2>4, <2>5
<1>d. s.op # "settle" => LearntFiles(p, s) = {}
  BY <1>a DEF LearntFiles, WriteOps
<1>e. ASSUME Go(p, proc[p]), s.op # "settle"
      PROVE  Others(p) /\ Advances(p) /\ Uses(p) /\ Learns(p)
  <2>1. Others(p) /\ Advances(p) /\ Uses(p) /\ proc'[p].evidence = proc[p].evidence
    BY <1>0, <1>c, <1>e
  <2>2. Learns(p)
    BY <1>d, <1>e, <2>1 DEF Learns
  <2> QED
    BY <2>1, <2>2
<1>f. (disk' = disk /\ F = {}) => Writes(p, F)
  BY DEF Writes
<1>n. DOMAIN Nothing = {}
  BY DEF Nothing
<1>t. s.op # "publish" => Tells(p, s)
  BY DEF Tells
<1> HIDE DEF s, i, F
<1>1. CASE WriteFiles(p, s)
  <2>1. Write(p, s.files, Nothing) /\ Go(p, proc[p]) /\ s.op \in {"create", "put"}
    BY <1>1 DEF WriteFiles
  <2>2. F = s.files
    BY <2>1 DEF F, WrittenFiles, WriteOps
  <2> QED
    BY <1>e, <1>n, <1>t, <2>1, <2>2, WriteWrites DEF s, F
<1>2. CASE CopyFile(p, s)
  <2> DEFINE c == [disk[s.from] EXCEPT !.by = p]
             g == [f \in s.files |-> c]
  <2>1. disk' = Over(g, disk) /\ Go(p, proc[p]) /\ s.op = "copy"
    BY <1>2 DEF CopyFile
  <2>2. F = s.files
    BY <2>1 DEF F, WrittenFiles, WriteOps
  <2>3. s.from \in DOMAIN disk
    BY <2>1 DEF Succeeds, Exists, s
  <2>4. DOMAIN disk[s.from] = ContentFields
    BY <2>3 DEF Shape
  <2>5. DOMAIN c = ContentFields /\ c.by = p /\ c.claims = disk[s.from].claims
    BY <2>4 DEF ContentFields
  <2> HIDE DEF c
  <2>6. DOMAIN g = s.files /\ \A f \in s.files : g[f] = c
    OBVIOUS
  <2> HIDE DEF g
  <2>7. Writes(p, F) /\ \A f \in F : disk'[f] = c
    BY <2>1, <2>2, <2>5, <2>6, OverWrites
  <2>8. ClaimedFiles(p, s) = DOMAIN disk[s.from].claims
    BY <2>1 DEF ClaimedFiles, PublishOps
  <2> QED
    BY <1>e, <1>t, <2>1, <2>5, <2>7, <2>8 DEF s, F
<1>3. CASE PublishManifest(p, s)
  <2> DEFINE now == Versions(s.inventory \cap DOMAIN disk)
             known == Restrict(proc[p].evidence, s.inventory \cap Evidence(p))
             claims == IF s.op = "publish" THEN Over(now, proc[p].evidence) ELSE Over(known, now)
  <2>1. Write(p, s.files, claims)
    BY <1>3 DEF PublishManifest
  <2>2. Go(p, proc[p]) /\ s.op \in {"publish", "report", "rewrite"}
    BY <1>3 DEF PublishManifest
  <2>a. DOMAIN now = s.inventory \cap DOMAIN disk /\ DOMAIN known = s.inventory \cap Evidence(p)
    BY DEF Versions, Restrict
  <2> HIDE DEF now, known
  <2>b. DOMAIN claims \subseteq (s.inventory \cap DOMAIN disk) \cup Evidence(p)
    <3>1. /\ DOMAIN Over(now, proc[p].evidence) = DOMAIN now \cup DOMAIN proc[p].evidence
          /\ DOMAIN Over(known, now) = DOMAIN known \cup DOMAIN now
      BY DEF Over
    <3> QED
      BY <2>a, <3>1 DEF Evidence
  <2>d. s.op = "publish" => \A f \in Evidence(p) \ s.inventory :
            f \in DOMAIN claims /\ claims[f] = proc[p].evidence[f]
    <3> DEFINE held == proc[p].evidence
               both == Over(now, held)
    <3>1. s.op = "publish" => claims = both
      OBVIOUS
    <3> HIDE DEF held, claims
    <3>2. /\ DOMAIN both = DOMAIN now \cup DOMAIN held
          /\ \A f \in DOMAIN held \ DOMAIN now : both[f] = held[f]
      BY Overrides
    <3>3. \A f \in DOMAIN held \ s.inventory : f \in DOMAIN both /\ both[f] = held[f]
      BY <2>a, <3>2
    <3> QED
      BY <3>1, <3>3 DEF held, Evidence
  <2> HIDE DEF claims
  <2>c. ClaimedFiles(p, s) = (s.inventory \cap DOMAIN disk) \cup Evidence(p)
    BY <2>2 DEF ClaimedFiles, PublishOps
  <2>3. F = s.files
    BY <2>2 DEF F, WrittenFiles, WriteOps
  <2> QED
    <3>1. /\ Writes(p, F)
          /\ \A f \in F : disk'[f].v = 0 /\ disk'[f].claims = claims
      BY <2>1, <2>3, WriteWrites
    <3>2. Tells(p, s)
      BY <2>3, <2>d, <3>1 DEF Tells
    <3> QED
      BY <1>e, <2>2, <2>b, <2>c, <3>1, <3>2 DEF s, F
<1>4. CASE ReserveReceipt(p, s)
  <2>1. Go(p, proc[p]) /\ s.op = "reserve"
    BY <1>4 DEF ReserveReceipt
  <2>2. F = {Receipt(p)} \ DOMAIN disk
    BY <2>1 DEF F, WrittenFiles, WriteOps
  <2>3. CASE Receipt(p) \in DOMAIN disk
    <3>1. disk' = disk /\ F = {}
      BY <1>4, <2>2, <2>3 DEF ReserveReceipt, Exists
    <3> QED
      BY <1>e, <1>f, <1>t, <2>1, <3>1 DEF s, F
  <2>4. CASE Receipt(p) \notin DOMAIN disk
    <3> DEFINE c == Content(p, Nothing, "unwritten")
               g == [f \in {Receipt(p)} |-> c]
    <3>1. disk' = Over(g, disk) /\ F = {Receipt(p)}
      BY <1>4, <2>2, <2>4 DEF ReserveReceipt, Exists
    <3>2. DOMAIN c = ContentFields /\ c.by = p /\ c.policy = "unwritten" /\ c.claims = Nothing
      BY Contents
    <3> HIDE DEF c
    <3>3. DOMAIN g = {Receipt(p)} /\ \A f \in DOMAIN g : g[f] = c
      OBVIOUS
    <3> HIDE DEF g
    <3>4. Writes(p, F) /\ \A f \in F : disk'[f] = c
      BY <3>1, <3>2, <3>3, OverWrites
    <3> QED
      BY <1>e, <1>n, <1>t, <2>1, <3>2, <3>4 DEF s, F
  <2> QED
    BY <2>3, <2>4
<1>5. CASE SettleReceipt(p, s)
  <2> DEFINE g == Versions({Receipt(p)})
             r == Knowing(proc[p], g)
  <2>1. s.op = "settle" /\ Go(p, r)
    BY <1>5 DEF SettleReceipt
  <2>2. F = IF disk[Receipt(p)].by = p THEN {Receipt(p)} ELSE {}
    BY <2>1 DEF F, WrittenFiles, WriteOps
  <2>3. LearntFiles(p, s) = {Receipt(p)} /\ \A f \in {Receipt(p)} : Digest(s, f) = disk[f].v
    BY <2>1 DEF LearntFiles, Digest
  <2>4. DOMAIN g = LearntFiles(p, s) /\ \A f \in DOMAIN g : g[f] = Digest(s, f)
    BY <2>3 DEF Versions
  <2> HIDE DEF g
  <2>5. /\ DOMAIN r = Fields /\ r.pc = i /\ r.len = proc[p].len /\ r.handler = proc[p].handler
        /\ r.expect = proc[p].expect /\ r.used = proc[p].used
        /\ r.evidence = Over(g, proc[p].evidence)
    BY <1>0, Records DEF i
  <2> HIDE DEF r
  <2>6. Others(p) /\ Advances(p) /\ Uses(p) /\ proc'[p].evidence = r.evidence
    BY <1>c, <2>1, <2>5
  <2>7. Learns(p)
    BY <2>4, <2>5, <2>6, OverLearns DEF s
  <2>8. CASE disk[Receipt(p)].by = p
    <3>1. Write(p, {Receipt(p)}, Nothing)
      BY <1>5, <2>8 DEF SettleReceipt
    <3> QED
      BY <1>n, <1>t, <2>1, <2>2, <2>6, <2>7, <2>8, <3>1, WriteWrites DEF s, F
  <2>9. CASE disk[Receipt(p)].by # p
    <3>1. disk' = disk /\ F = {}
      BY <1>5, <2>2, <2>9 DEF SettleReceipt
    <3> QED
      BY <1>f, <1>t, <2>1, <2>6, <2>7, <3>1 DEF s, F
  <2> QED
    BY <2>8, <2>9
<1> QED
  BY <1>1, <1>2, <1>3, <1>4, <1>5 DEF s

\* p gives up: its handler writes what it writes, and p stays where it is.
GivesUp(p) ==
    /\ Others(p) /\ proc'[p].status = "failed"
    /\ proc'[p].pc = proc[p].pc /\ proc'[p].handler = proc[p].handler
    /\ proc'[p].used = proc[p].used /\ proc'[p].expect = proc[p].expect
    /\ proc'[p].evidence = proc[p].evidence
    /\ Writes(p, proc[p].handler)
    /\ \A f \in proc[p].handler : disk'[f].v = 0 /\ disk'[f].claims = Nothing

LEMMA RaiseStep ==
  ASSUME Shape, NEW p \in Processes, Raise(p, At(p))
  PROVE  GivesUp(p)
<1> DEFINE new == [proc[p] EXCEPT !.status = "failed"]
<1>0. DOMAIN proc = Processes /\ DOMAIN proc[p] = Fields
  BY DEF Shape, ProcShape
<1>1. /\ proc' = [proc EXCEPT ![p] = new] /\ Write(p, proc[p].handler, Nothing)
      /\ world' = world /\ edits' = edits
  BY <1>0 DEF Raise
<1>2. /\ DOMAIN new = Fields /\ new.status = "failed" /\ new.pc = proc[p].pc
      /\ new.len = proc[p].len /\ new.handler = proc[p].handler /\ new.used = proc[p].used
      /\ new.expect = proc[p].expect /\ new.evidence = proc[p].evidence
  BY <1>0 DEF Fields
<1> HIDE DEF new
<1>3. proc'[p] = new /\ DOMAIN proc' = Processes /\ \A q \in Processes \ {p} : proc'[q] = proc[q]
  BY <1>0, <1>1
<1>4. Writes(p, proc[p].handler)
      /\ \A f \in proc[p].handler : disk'[f].v = 0 /\ disk'[f].claims = Nothing
  BY <1>1, WriteWrites
<1> QED
  BY <1>1, <1>2, <1>3, <1>4 DEF GivesUp, Others

\* p does what its step says.
Proceeds(p) ==
    /\ Succeeds(p, At(p))
    /\ Others(p) /\ Advances(p) /\ Uses(p) /\ Learns(p)
    /\ Writes(p, WrittenFiles(p, At(p)))
    /\ At(p).op = "reserve" => \A f \in WrittenFiles(p, At(p)) : disk'[f].policy = "unwritten"
    /\ At(p).op = "settle" => \A f \in WrittenFiles(p, At(p)) : disk'[f].policy = Policy(p)
    /\ \A f \in WrittenFiles(p, At(p)) : DOMAIN disk'[f].claims \subseteq ClaimedFiles(p, At(p))
    /\ Tells(p, At(p))

LEMMA RunStep ==
  ASSUME Shape, NEW p \in Processes, Run(p)
  PROVE  proc[p].status = "running" /\ (GivesUp(p) \/ Proceeds(p))
<1>1. proc[p].status = "running" /\ (Raise(p, At(p)) \/ (Succeeds(p, At(p)) /\ DoStep(p, At(p))))
  BY DEF Run, At
<1>2. CASE Raise(p, At(p))
  BY <1>1, <1>2, RaiseStep
<1>3. CASE Succeeds(p, At(p)) /\ (WriteFiles(p, At(p)) \/ CopyFile(p, At(p)) \/ PublishManifest(p, At(p))
               \/ ReserveReceipt(p, At(p)) \/ SettleReceipt(p, At(p)))
  BY <1>1, <1>3, WritingStep DEF Proceeds
<1>4. CASE Succeeds(p, At(p)) /\
           (Pass(p, At(p)) \/ EnterTry(p, At(p)) \/ UseFiles(p, At(p)) \/ HashFiles(p, At(p))
            \/ TakeFiles(p, At(p)) \/ TakeClaims(p, At(p)) \/ Skip(p, At(p))
            \/ ExpectTest(p, At(p)) \/ ReadTest(p, At(p)))
  <2>1. disk' = disk /\ Others(p) /\ Advances(p) /\ Uses(p) /\ Learns(p)
    BY <1>1, <1>4, QuietStep
  <2>2. At(p).op \notin WriteOps \cup {"reserve", "settle"}
    BY <1>4 DEF WriteOps, Pass, EnterTry, UseFiles, HashFiles, TakeFiles, TakeClaims, Skip,
                ExpectTest, ReadTest
  <2>3. WrittenFiles(p, At(p)) = {}
    BY <2>2 DEF WrittenFiles
  <2>4. Writes(p, {})
    BY <2>1 DEF Writes
  <2>5. Tells(p, At(p))
    BY <2>2 DEF Tells, WriteOps
  <2> QED
    BY <1>1, <1>4, <2>1, <2>2, <2>3, <2>4, <2>5 DEF Proceeds
<1> QED
  BY <1>1, <1>2, <1>3, <1>4 DEF DoStep

\* A file is replaced where it stands.
Replaces(F) ==
    /\ world' = world /\ proc' = proc
    /\ DOMAIN disk' = DOMAIN disk
    /\ \A f \in DOMAIN disk \ F : disk'[f] = disk[f]
    /\ \A f \in F : /\ disk[f].v = 0 /\ disk'[f].v = 1
                    /\ disk[f].by \in Processes => proc[disk[f].by].status = "complete"
    /\ \A f \in DOMAIN disk : /\ DOMAIN disk'[f] = ContentFields
                              /\ disk'[f].by = disk[f].by /\ disk'[f].policy = disk[f].policy
                              /\ DOMAIN disk'[f].claims = DOMAIN disk[f].claims

LEMMA EditStep ==
  ASSUME Shape, NEW F, F \subseteq DOMAIN disk, Edit(F)
  PROVE  Replaces(F)
<1> DEFINE c(f) == [disk[f] EXCEPT !.v = 1, !.claims = [g \in DOMAIN @ |-> 1]]
           new == [f \in F |-> c(f)]
<1>1. /\ world' = world /\ proc' = proc /\ disk' = Over(new, disk)
      /\ \A f \in F : /\ disk[f].v = 0
                      /\ disk[f].by \in Processes => proc[disk[f].by].status = "complete"
  BY DEF Edit
<1>2. ASSUME NEW f \in F
      PROVE  /\ DOMAIN c(f) = ContentFields /\ c(f).v = 1 /\ c(f).by = disk[f].by
             /\ c(f).policy = disk[f].policy /\ DOMAIN c(f).claims = DOMAIN disk[f].claims
  <2>1. DOMAIN disk[f] = ContentFields
    BY <1>2 DEF Shape
  <2> QED
    BY <2>1 DEF ContentFields
<1>3. DOMAIN new = F /\ \A f \in F : new[f] = c(f)
  OBVIOUS
<1> HIDE DEF c, new
<1>4. /\ DOMAIN disk' = DOMAIN disk
      /\ \A f \in F : disk'[f] = new[f]
      /\ \A f \in DOMAIN disk \ F : disk'[f] = disk[f]
  BY <1>1, <1>3, OverDisk
<1>5. \A f \in DOMAIN disk \ F : DOMAIN disk[f] = ContentFields
  BY DEF Shape
<1> QED
  BY <1>1, <1>2, <1>3, <1>4, <1>5 DEF Replaces

LEMMA NextStep ==
  ASSUME Shape, [Next]_vars
  PROVE  \/ UNCHANGED vars
         \/ \E p \in Processes : proc[p].status = "running" /\ (GivesUp(p) \/ Proceeds(p))
         \/ \E F \in SUBSET DOMAIN disk : Replaces(F)
<1>1. ASSUME NEW f \in DOMAIN disk, Edit({f})
      PROVE  Replaces({f})
  BY <1>1, EditStep
<1>2. ASSUME dataset \subseteq DOMAIN disk, Edit(dataset)
      PROVE  Replaces(dataset)
  BY <1>2, EditStep
<1>3. CASE \E p \in Processes : Run(p)
  BY <1>3, RunStep
<1> QED
  BY <1>1, <1>2, <1>3 DEF Next

\* The shape is kept, whatever the scripts say.
LEMMA ShapeStep ==
  ASSUME Shape, [Next]_vars
  PROVE  Shape'
<1>1. CASE UNCHANGED vars
  BY <1>1 DEF vars, Shape, ProcShape, Processes, Steps
<1>2. ASSUME NEW F \in SUBSET DOMAIN disk, Replaces(F)
      PROVE  Shape'
  BY <1>2 DEF Replaces, Shape, ProcShape, Processes, Steps
<1>a. ASSUME NEW p \in Processes, Others(p), NEW F, Writes(p, F), ProcShape(p)'
      PROVE  Shape'
  <2>1. world' = world /\ Processes' = Processes /\ DOMAIN proc' = Processes
    BY <1>a DEF Others, Processes
  <2>2. \A q \in Processes \ {p} : ProcShape(q)'
    BY <1>a DEF Others, Shape, ProcShape, Steps
  <2>3. \A f \in DOMAIN disk' : DOMAIN disk'[f] = ContentFields
    BY <1>a DEF Writes, Shape
  <2> QED
    BY <1>a, <2>1, <2>2, <2>3 DEF Shape
<1>3. ASSUME NEW p \in Processes, GivesUp(p)
      PROVE  Shape'
  <2>1. ProcShape(p)'
    BY <1>3 DEF GivesUp, Others, Shape, ProcShape, Steps
  <2> QED
    BY <1>3, <1>a, <2>1 DEF GivesUp
<1>4. ASSUME NEW p \in Processes, proc[p].status = "running", Proceeds(p)
      PROVE  Shape'
  <2>1. /\ proc[p].pc \in 1..Len(Steps(p)) /\ Len(Steps(p)) \in Nat
        /\ At(p).op = "maybe" => At(p).skip \in Nat /\ proc[p].pc + At(p).skip <= Len(Steps(p))
        /\ At(p).op \in WriteOps \cup {"try"} => Registry \cap At(p).files = {}
        /\ proc[p].len = Len(Steps(p)) /\ Registry \cap proc[p].handler = {}
    BY <1>4, AtStep DEF Shape, ProcShape
  <2>2. Steps(p)' = Steps(p) /\ DOMAIN proc'[p] = Fields /\ proc'[p].len = proc[p].len
    BY <1>4 DEF Proceeds, Others, Steps
  <2>3. /\ proc'[p].pc = proc[p].pc + 1
           \/ (At(p).op = "maybe" /\ proc'[p].pc = proc[p].pc + 1 + At(p).skip)
        /\ proc'[p].status = IF proc'[p].pc = proc[p].len + 1 THEN "complete" ELSE "running"
        /\ proc'[p].handler = IF At(p).op = "try" THEN At(p).files ELSE proc[p].handler
    BY <1>4 DEF Proceeds, Advances, Landing, At
  <2>4. proc'[p].pc \in Nat /\ proc'[p].pc >= 1
        /\ (proc'[p].status = "running" => proc'[p].pc <= Len(Steps(p)))
    <3>1. CASE proc'[p].pc = proc[p].pc + 1
      BY <2>1, <2>3, <3>1
    <3>2. CASE At(p).op = "maybe" /\ proc'[p].pc = proc[p].pc + 1 + At(p).skip
      <4> DEFINE i == proc[p].pc
                 k == At(p).skip
                 n == Len(Steps(p))
                 j == proc'[p].pc
      <4>1. i \in 1..n /\ n \in Nat /\ k \in Nat /\ i + k <= n /\ j = i + 1 + k
        BY <2>1, <3>2
      <4>2. proc'[p].status = "running" => j # n + 1
        BY <2>1, <2>3
      <4> HIDE DEF i, k, n, j
      <4>3. j \in Nat /\ j >= 1 /\ (j # n + 1 => j <= n)
        BY <4>1
      <4> QED
        BY <4>2, <4>3 DEF j, n
    <3> QED
      BY <2>3, <3>1, <3>2
  <2>5. Registry \cap proc'[p].handler = {}
    BY <2>1, <2>3
  <2>6. ProcShape(p)'
    BY <2>1, <2>2, <2>4, <2>5 DEF ProcShape, Registry
  <2> QED
    BY <1>4, <1>a, <2>6 DEF Proceeds
<1> QED
  BY <1>1, <1>2, <1>3, <1>4, NextStep

LEMMA InitShape == Init => Shape
<1> SUFFICES ASSUME Init PROVE Shape
  OBVIOUS
<1> DEFINE r(p) == [pc |-> 1, len |-> Len(Steps(p)), status |-> "running", handler |-> {},
                    used |-> Nothing, first |-> Nothing, evidence |-> Nothing, expect |-> 0]
<1>1. world \in Worlds /\ DOMAIN proc = Processes /\ \A p \in Processes : proc[p] = r(p)
  BY DEF Init
<1>2. \A p : DOMAIN r(p) = Fields /\ r(p).pc = 1 /\ r(p).len = Len(Steps(p)) /\ r(p).handler = {}
  BY DEF Fields
<1> HIDE DEF r
<1>3. \A p \in Processes : Len(Steps(p)) \in Nat \ {0}
  <2> SUFFICES ASSUME NEW p \in Processes PROVE Len(Steps(p)) \in Nat \ {0}
    OBVIOUS
  <2>1. world.jobs[p].script \in DOMAIN Scripts
    BY <1>1, WorldsAssumption DEF Processes
  <2> QED
    BY <2>1, ScriptsAreSequences DEF Steps
<1>4. \A p \in Processes : ProcShape(p)
  BY <1>1, <1>2, <1>3 DEF ProcShape
<1>5. \A f \in DOMAIN disk : DOMAIN disk[f] = ContentFields
  BY DEF Init, Content, ContentFields
<1> QED
  BY <1>1, <1>4, <1>5 DEF Shape

-----------------------------------------------------------------------------
(* One policy per holdout *)

ReceiptOf(v) == <<"registry", IF v = 0 THEN "first" ELSE "changed">>

\* A receipt says nothing yet, or what its author locked.
Receipts ==
    \A f \in Registry \cap DOMAIN disk :
        disk[f].by \in Processes /\ disk[f].policy \in {"unwritten", Policy(disk[f].by)}

Settled(p, f) == f \in DOMAIN disk /\ disk[f].policy = Policy(p)

\* What a process has behind it: the receipt for the Test data it expects
\* exists once it has reserved it, and states its policy once it has settled it.
Reserved ==
    \A p \in Processes : \A j \in 1..Len(Steps(p)) :
        Since(Steps(p), j, proc[p].pc) =>
            /\ Steps(p)[j].op = "reserve" => Receipt(p) \in DOMAIN disk
            /\ Steps(p)[j].op = "settle" => Settled(p, Receipt(p))

\* Whoever opened the Test data locked its policy for them.
OpenedUnder ==
    \A p \in Processes : Opened(p) => Settled(p, ReceiptOf(proc[p].used[Test]))

HoldoutInv == Shape /\ Receipts /\ Reserved /\ OpenedUnder

LEMMA SinceStep ==
  ASSUME NEW st, NEW n \in Nat, NEW i \in 1..n, NEW j \in 1..n, NEW next,
         \A k \in 1..n : st[k].op = "maybe" => st[k].skip \in Nat,
         next = i + 1 \/ (st[i].op = "maybe" /\ next = Landing(st, i)),
         Since(st, j, next)
  PROVE  j = i \/ (st[i].op # "expect" /\ Since(st, j, i))
<1>1. Sure(st, j, next) /\ \A k \in j..(next - 1) : st[k].op # "expect"
  BY DEF Since
<1>2. next \in Nat /\ next > i /\ (j = i \/ Sure(st, j, i))
  BY <1>1, SureStep
<1>3. CASE Sure(st, j, i)
  <2>1. j < i
    BY <1>3 DEF Sure
  <2>2. i \in j..(next - 1) /\ \A k \in j..(i - 1) : k \in j..(next - 1)
    BY <1>2, <2>1
  <2> QED
    BY <1>1, <1>3, <2>2 DEF Since
<1> QED
  BY <1>2, <1>3

\* What the rules say of the receipt where a process is.
LEMMA HoldoutAt ==
  ASSUME Shape, NEW p \in Processes, proc[p].status = "running"
  PROVE  /\ At(p).op = "settle" =>
               \E j \in 1..Len(Steps(p)) : Steps(p)[j].op = "reserve" /\ Since(Steps(p), j, proc[p].pc)
         /\ At(p).op = "open_test" =>
               \E j \in 1..Len(Steps(p)) : Steps(p)[j].op = "settle" /\ Since(Steps(p), j, proc[p].pc)
         /\ \A k \in 1..Len(Steps(p)) : Steps(p)[k].op = "maybe" => Steps(p)[k].skip \in Nat
<1> DEFINE name == world.jobs[p].script
<1>1. name \in DOMAIN Scripts
  BY WorldsAssumption DEF Shape, Processes
<1>2. Steps(p) = Scripts[name]
  BY DEF Steps
<1> HIDE DEF name
<1>3. proc[p].pc \in 1..Len(Steps(p))
  BY AtStep
<1>4. \A k \in 1..Len(Steps(p)) : Steps(p)[k].op = "maybe" => Steps(p)[k].skip \in Nat
  BY <1>1, <1>2, ScriptsAreSequences
<1> QED
  BY <1>1, <1>2, <1>3, <1>4, HoldoutRule DEF At

LEMMA ReceiptIsOne ==
  /\ \A v : ReceiptOf(v) \in Registry
  /\ \A p : Receipt(p) = ReceiptOf(proc[p].expect)
BY DEF ReceiptOf, Receipt, Registry

\* A receipt is there for good, and so is the policy it states.
KeepsReceipts ==
    \A f \in Registry \cap DOMAIN disk :
        /\ f \in DOMAIN disk'
        /\ disk[f].policy # "unwritten" => disk'[f].policy = disk[f].policy

\* Either the step does not touch the receipts, or it is the one that creates
\* its receipt, or the one that settles it.
LEMMA ReceiptsStep ==
  ASSUME HoldoutInv, [Next]_vars
  PROVE  KeepsReceipts /\ Receipts'
<1>0. Shape /\ Receipts
  BY DEF HoldoutInv
<1>a. ASSUME NEW F, Registry \cap F = {}, NEW p, Writes(p, F), world' = world
      PROVE  KeepsReceipts /\ Receipts'
  BY <1>0, <1>a DEF Writes, KeepsReceipts, Receipts, Processes, Policy
<1>1. CASE UNCHANGED vars
  BY <1>0, <1>1 DEF vars, KeepsReceipts, Receipts, Processes, Policy
<1>2. ASSUME NEW F \in SUBSET DOMAIN disk, Replaces(F)
      PROVE  KeepsReceipts /\ Receipts'
  BY <1>0, <1>2 DEF Replaces, KeepsReceipts, Receipts, Processes, Policy
<1>3. ASSUME NEW p \in Processes, GivesUp(p)
      PROVE  KeepsReceipts /\ Receipts'
  <2>1. Registry \cap proc[p].handler = {}
    BY <1>0 DEF Shape, ProcShape
  <2> QED
    BY <1>3, <1>a, <2>1 DEF GivesUp, Others
<1>4. ASSUME NEW p \in Processes, proc[p].status = "running", Proceeds(p)
      PROVE  KeepsReceipts /\ Receipts'
  <2> DEFINE F == WrittenFiles(p, At(p))
  <2>0. Writes(p, F) /\ world' = world
    BY <1>4 DEF Proceeds, Others
  <2>1. CASE At(p).op = "reserve"
    <3>1. F = {Receipt(p)} \ DOMAIN disk
      BY <2>1 DEF WrittenFiles, WriteOps
    <3>2. \A f \in F : disk'[f].policy = "unwritten" /\ disk'[f].by = p
      BY <1>4, <2>0, <2>1 DEF Proceeds, Writes
    <3> HIDE DEF F
    <3> QED
      BY <1>0, <2>0, <3>1, <3>2 DEF Writes, KeepsReceipts, Receipts, Processes, Policy
  <2>2. CASE At(p).op = "settle"
    <3>1. F = IF disk[Receipt(p)].by = p THEN {Receipt(p)} ELSE {}
      BY <2>2 DEF WrittenFiles, WriteOps
    <3>2. \A f \in F : disk'[f].policy = Policy(p) /\ disk'[f].by = p
      BY <1>4, <2>0, <2>2 DEF Proceeds, Writes
    <3> HIDE DEF F
    <3>3. Receipt(p) \in Registry
      BY ReceiptIsOne
    <3>4. \A f \in F : /\ f \in Registry /\ disk[f].by = p
      BY <3>1, <3>3
    <3>5. \A f \in F \cap DOMAIN disk : disk[f].policy \in {"unwritten", Policy(p)}
      BY <1>0, <3>4 DEF Receipts
    <3>6. KeepsReceipts
      BY <2>0, <3>2, <3>5 DEF Writes, KeepsReceipts
    <3>7. Receipts'
      BY <1>0, <2>0, <3>2 DEF Writes, Receipts, Processes, Policy
    <3> QED
      BY <3>6, <3>7
  <2>3. CASE At(p).op \notin {"reserve", "settle"}
    <3>1. Registry \cap F = {}
      BY <1>0, <1>4, <2>3, AtStep DEF WrittenFiles, WriteOps
    <3> HIDE DEF F
    <3> QED
      BY <1>a, <2>0, <3>1
  <2> QED
    BY <2>1, <2>2, <2>3
<1> QED
  BY <1>0, <1>1, <1>2, <1>3, <1>4, NextStep

\* A settled receipt stays settled, for it states a policy.
LEMMA SettledStays ==
  ASSUME Shape, KeepsReceipts, world' = world
  PROVE  \A p \in Processes : \A f \in Registry : Settled(p, f) => Settled(p, f)'
<1> SUFFICES ASSUME NEW p \in Processes, NEW f \in Registry, Settled(p, f)
             PROVE  Settled(p, f)'
  OBVIOUS
<1>1. Policy(p) # "unwritten" /\ Policy(p)' = Policy(p)
  BY WorldsAssumption DEF Shape, Processes, Policy
<1> QED
  BY <1>1 DEF Settled, KeepsReceipts

\* A process that stands still keeps what it has.
LEMMA StandsStill ==
  ASSUME HoldoutInv, KeepsReceipts, world' = world, NEW q \in Processes,
         proc'[q].pc = proc[q].pc, proc'[q].expect = proc[q].expect, proc'[q].used = proc[q].used
  PROVE  /\ \A j \in 1..Len(Steps(q)) :
                Since(Steps(q), j, proc'[q].pc) =>
                    /\ Steps(q)[j].op = "reserve" => Receipt(q)' \in DOMAIN disk'
                    /\ Steps(q)[j].op = "settle" => Settled(q, Receipt(q))'
         /\ Opened(q)' => Settled(q, ReceiptOf(proc[q].used[Test]))'
<1>0. Shape /\ Reserved /\ OpenedUnder
  BY DEF HoldoutInv
<1>1. Receipt(q)' = Receipt(q) /\ Receipt(q) \in Registry
  BY ReceiptIsOne DEF Receipt
<1>2. Receipt(q) \in DOMAIN disk => Receipt(q) \in DOMAIN disk'
  BY <1>1 DEF KeepsReceipts
<1>3. \A f \in Registry : Settled(q, f) => Settled(q, f)'
  BY <1>0, SettledStays
<1>4. Settled(q, Receipt(q)) => Settled(q, Receipt(q))'
  BY <1>1, <1>3 DEF Settled
<1>5. Opened(q)' => Settled(q, ReceiptOf(proc[q].used[Test]))
  BY <1>0 DEF Opened, OpenedUnder
<1>6. ReceiptOf(proc[q].used[Test]) \in Registry
  BY ReceiptIsOne
<1>7. Opened(q)' => Settled(q, ReceiptOf(proc[q].used[Test]))'
  <2> DEFINE f == ReceiptOf(proc[q].used[Test])
  <2>1. ReceiptOf(proc[q].used[Test])' = f
    BY DEF ReceiptOf
  <2>2. Settled(q, f) => f \in DOMAIN disk' /\ disk'[f].policy = Policy(q)'
    BY <1>3, <1>6 DEF Settled
  <2> QED
    BY <1>5, <2>1, <2>2 DEF Settled
<1>8. \A j \in 1..Len(Steps(q)) :
          Since(Steps(q), j, proc'[q].pc) =>
              /\ Steps(q)[j].op = "reserve" => Receipt(q)' \in DOMAIN disk'
              /\ Steps(q)[j].op = "settle" => Settled(q, Receipt(q))'
  BY <1>0, <1>1, <1>2, <1>4 DEF Reserved
<1> QED
  BY <1>7, <1>8

\* A process that goes on has what its new place requires.
LEMMA GoesOn ==
  ASSUME HoldoutInv, KeepsReceipts, NEW p \in Processes, proc[p].status = "running", Proceeds(p)
  PROVE  /\ \A j \in 1..Len(Steps(p)) :
                Since(Steps(p), j, proc'[p].pc) =>
                    /\ Steps(p)[j].op = "reserve" => Receipt(p)' \in DOMAIN disk'
                    /\ Steps(p)[j].op = "settle" => Settled(p, Receipt(p))'
         /\ Opened(p)' => Settled(p, ReceiptOf(proc[p].used[Test]))'
<1> DEFINE st == Steps(p)
           n == Len(Steps(p))
           i == proc[p].pc
<1>0. Shape /\ Reserved /\ OpenedUnder /\ world' = world
  BY DEF HoldoutInv, Proceeds, Others
<1>1. /\ i \in 1..n /\ n \in Nat
      /\ \A k \in 1..n : st[k].op = "maybe" => st[k].skip \in Nat
      /\ proc'[p].pc = i + 1 \/ (st[i].op = "maybe" /\ proc'[p].pc = Landing(st, i))
  BY <1>0, AtStep, HoldoutAt DEF Proceeds, Advances, At
<1>2. Receipt(p) \in Registry
  BY ReceiptIsOne
<1>3. Receipt(p) \in DOMAIN disk => Receipt(p) \in DOMAIN disk'
  BY <1>2 DEF KeepsReceipts
<1>4. Settled(p, Receipt(p)) => Receipt(p) \in DOMAIN disk' /\ disk'[Receipt(p)].policy = Policy(p)'
  BY <1>0, <1>2, SettledStays DEF Settled
<1>5. At(p).op # "expect" => Receipt(p)' = Receipt(p)
  BY DEF Proceeds, Advances, Receipt
<1>6. At(p).op = "settle" =>
          Receipt(p) \in DOMAIN disk' /\ disk'[Receipt(p)].policy = Policy(p)'
  <2> SUFFICES ASSUME At(p).op = "settle"
               PROVE  Receipt(p) \in DOMAIN disk' /\ disk'[Receipt(p)].policy = Policy(p)'
    OBVIOUS
  <2>1. Receipt(p) \in DOMAIN disk
    BY <1>0, HoldoutAt DEF Reserved
  <2>2. disk[Receipt(p)].by = p \/ disk[Receipt(p)].policy = Policy(p)
    BY DEF Proceeds, Succeeds
  <2>3. CASE disk[Receipt(p)].by = p
    <3>1. WrittenFiles(p, At(p)) = {Receipt(p)}
      BY <2>3 DEF WrittenFiles, WriteOps
    <3> QED
      BY <1>0, <3>1 DEF Proceeds, Writes, Policy
  <2>4. CASE disk[Receipt(p)].policy = Policy(p)
    BY <1>4, <2>1, <2>4 DEF Settled
  <2> QED
    BY <2>2, <2>3, <2>4
<1>7. At(p).op = "reserve" => Receipt(p) \in DOMAIN disk'
  <2> SUFFICES ASSUME At(p).op = "reserve" PROVE Receipt(p) \in DOMAIN disk'
    OBVIOUS
  <2>1. WrittenFiles(p, At(p)) = {Receipt(p)} \ DOMAIN disk
    BY DEF WrittenFiles, WriteOps
  <2> QED
    BY <2>1 DEF Proceeds, Writes
<1>8. ASSUME NEW j \in 1..n, Since(st, j, proc'[p].pc)
      PROVE  /\ st[j].op = "reserve" => Receipt(p)' \in DOMAIN disk'
             /\ st[j].op = "settle" => Settled(p, Receipt(p))'
  <2>1. j = i \/ (st[i].op # "expect" /\ Since(st, j, i))
    BY <1>1, <1>8, SinceStep
  <2>2. CASE j = i
    <3>1. st[j] = At(p)
      BY <2>2 DEF At
    <3> QED
      BY <1>5, <1>6, <1>7, <3>1 DEF Settled
  <2>3. CASE st[i].op # "expect" /\ Since(st, j, i)
    <3>1. Receipt(p)' = Receipt(p)
      BY <1>5, <2>3 DEF At
    <3>2. /\ st[j].op = "reserve" => Receipt(p) \in DOMAIN disk
          /\ st[j].op = "settle" => Settled(p, Receipt(p))
      BY <1>0, <2>3 DEF Reserved
    <3> QED
      BY <1>3, <1>4, <3>1, <3>2 DEF Settled
  <2> QED
    BY <2>1, <2>2, <2>3
<1>9. Opened(p)' => Settled(p, ReceiptOf(proc[p].used[Test]))'
  <2> SUFFICES ASSUME Opened(p)'
               PROVE  Settled(p, ReceiptOf(proc[p].used[Test]))'
    OBVIOUS
  <2>0. Test \in DOMAIN proc'[p].used /\ ReceiptOf(proc[p].used[Test])' = ReceiptOf(proc'[p].used[Test])
    BY DEF Opened, ReceiptOf, Test
  <2>1. CASE At(p).op = "open_test"
    <3>1. UsedFiles(At(p)) = {Test}
      BY <2>1 DEF UsedFiles, UseOps
    <3>2. proc'[p].used[Test] = disk[Test].v
      BY <3>1 DEF Proceeds, Uses
    <3>3. disk[Test].v = proc[p].expect
      BY <2>1 DEF Proceeds, Succeeds
    <3>4. ReceiptOf(proc'[p].used[Test]) = Receipt(p)
      BY <3>2, <3>3, ReceiptIsOne
    <3>5. Settled(p, Receipt(p))
      BY <1>0, <2>1, HoldoutAt DEF Reserved
    <3> QED
      BY <1>4, <2>0, <3>4, <3>5 DEF Settled
  <2>2. CASE At(p).op # "open_test"
    <3>1. Test \notin UsedFiles(At(p))
      BY <1>0, <2>2, AtStep DEF UsedFiles
    <3>2. Test \in DOMAIN proc[p].used /\ proc'[p].used[Test] = proc[p].used[Test]
      BY <2>0, <3>1 DEF Proceeds, Uses
    <3> DEFINE f == ReceiptOf(proc[p].used[Test])
    <3>3. Settled(p, f) /\ f \in Registry
      BY <1>0, <3>2, ReceiptIsOne DEF OpenedUnder, Opened
    <3>4. ReceiptOf(proc[p].used[Test])' = f
      BY <2>0, <3>2
    <3> HIDE DEF f
    <3>5. f \in DOMAIN disk' /\ disk'[f].policy = Policy(p)'
      BY <1>0, <3>3, SettledStays DEF Settled
    <3> QED
      BY <3>4, <3>5 DEF Settled
  <2> QED
    BY <2>1, <2>2
<1> QED
  BY <1>8, <1>9

\* Every step keeps the receipts, and everyone keeps his.
LEMMA HoldoutStep ==
  ASSUME HoldoutInv, [Next]_vars
  PROVE  HoldoutInv'
<1>0. Shape /\ Shape' /\ KeepsReceipts /\ Receipts'
  BY ShapeStep, ReceiptsStep DEF HoldoutInv
<1>a. ASSUME world' = world,
             \A q \in Processes :
                /\ \A j \in 1..Len(Steps(q)) :
                       Since(Steps(q), j, proc'[q].pc) =>
                           /\ Steps(q)[j].op = "reserve" => Receipt(q)' \in DOMAIN disk'
                           /\ Steps(q)[j].op = "settle" => Settled(q, Receipt(q))'
                /\ Opened(q)' => Settled(q, ReceiptOf(proc[q].used[Test]))'
      PROVE  HoldoutInv'
  <2>1. Processes' = Processes /\ \A q : Steps(q)' = Steps(q)
    BY <1>a DEF Processes, Steps
  <2>2. Reserved'
    BY <1>a, <2>1 DEF Reserved
  <2>3. OpenedUnder'
    BY <1>a, <2>1 DEF OpenedUnder
  <2> QED
    BY <1>0, <2>2, <2>3 DEF HoldoutInv
<1>1. CASE UNCHANGED vars
  BY <1>0, <1>1, <1>a, StandsStill DEF vars
<1>2. ASSUME NEW F \in SUBSET DOMAIN disk, Replaces(F)
      PROVE  HoldoutInv'
  BY <1>0, <1>2, <1>a, StandsStill DEF Replaces
<1>3. ASSUME NEW p \in Processes, GivesUp(p)
      PROVE  HoldoutInv'
  BY <1>0, <1>3, <1>a, StandsStill DEF GivesUp, Others
<1>4. ASSUME NEW p \in Processes, proc[p].status = "running", Proceeds(p)
      PROVE  HoldoutInv'
  BY <1>0, <1>4, <1>a, StandsStill, GoesOn DEF Proceeds, Others
<1> QED
  BY <1>0, <1>1, <1>2, <1>3, <1>4, NextStep

LEMMA HoldoutInit == Init => HoldoutInv
<1> SUFFICES ASSUME Init PROVE HoldoutInv
  OBVIOUS
<1>1. Shape
  BY InitShape
<1>2. Receipts
  <2>1. \A f \in DOMAIN disk : f[1] = "in"
    BY DEF Init, Given, Test, In
  <2>2. \A f \in Registry : f[1] = "registry"
    BY DEF Registry
  <2> QED
    BY <2>1, <2>2 DEF Receipts
<1>3. \A p \in Processes : proc[p].pc = 1 /\ proc[p].used = Nothing
  BY DEF Init
<1>4. Reserved
  BY <1>3 DEF Reserved, Since, Sure
<1>5. OpenedUnder
  BY <1>3 DEF OpenedUnder, Opened, Nothing
<1> QED
  BY <1>1, <1>2, <1>4, <1>5 DEF HoldoutInv

\* Evaluators of any number, of whatever scripts, that read the same Test data
\* had all locked the same policy: a receipt, once settled, keeps its policy
\* (operational_final_data.py opens it with "x", and compares what it finds),
\* and each of them had settled the receipt of the data it opened.
THEOREM HoldoutOnceHolds == Spec => []HoldoutOnce
<1>1. Init => HoldoutInv
  BY HoldoutInit
<1>2. HoldoutInv /\ [Next]_vars => HoldoutInv'
  BY HoldoutStep
<1>3. HoldoutInv => HoldoutOnce
  BY DEF HoldoutInv, OpenedUnder, Settled, HoldoutOnce
<1> QED
  BY <1>1, <1>2, <1>3, PTL DEF Spec

-----------------------------------------------------------------------------
(* Whose files are they? *)

\* What p writes when it gives up it named in a step before.
Handlers ==
    \A p \in Processes : \A f \in proc[p].handler :
        \E i \in Indices(Steps(p)) : Steps(p)[i].op = "try" /\ f \in Steps(p)[i].files

\* What is given is no manifest of a script.
GivenClaims == \A f \in DOMAIN disk : f[1] = "in" => DOMAIN disk[f].claims = {}

\* What a process has written is there, and what it created for good is its own.
Created ==
    \A p \in Processes : \A j \in Indices(Steps(p)) :
        Sure(Steps(p), j, proc[p].pc) /\ Steps(p)[j].op \in WriteOps =>
            \A f \in Steps(p)[j].files :
                /\ f \in DOMAIN disk
                /\ Creates(Steps(p), j, f) /\ Guards(Steps(p), f, f) => disk[f].by = p

\* A guarded file is its guard's author's.
Guarded ==
    \A p \in Processes : \A f \in Output(Steps(p)) \cap DOMAIN disk : \A k \in Output(Steps(p)) :
        Guards(Steps(p), k, f) => k \in DOMAIN disk /\ disk[f].by = disk[k].by

\* f is, and will be, p's.
Safe(p, f) ==
    /\ f \in Output(Steps(p)) \cap DOMAIN disk
    /\ \E k \in Output(Steps(p)) \cap DOMAIN disk : Guards(Steps(p), k, f) /\ disk[k].by = p

\* What a script that publishes has collected digests of, and what it has
\* published, is its own.
OwnEvidence ==
    \A p \in Processes : Publishes(Steps(p)) =>
        \A f \in Evidence(p) : Own(f) => Safe(p, f)
OwnClaims ==
    \A p \in Processes : \A m \in DOMAIN disk : disk[m].by = p =>
        \A f \in DOMAIN disk[m].claims : Own(f) => Safe(p, f)

AuthorInv ==
    Shape /\ Handlers /\ GivenClaims /\ Created /\ Guarded /\ OwnEvidence /\ OwnClaims

\* Two processes run the same script, or write different files; a script
\* writes files of its own, and copies what it was given.
LEMMA Scripted ==
  ASSUME Shape, NEW p \in Processes
  PROVE  /\ Len(Steps(p)) \in Nat /\ Indices(Steps(p)) = 1..Len(Steps(p))
         /\ \A f \in Output(Steps(p)) : Own(f)
         /\ \A i \in Indices(Steps(p)) : Steps(p)[i].op = "copy" => Steps(p)[i].from[1] = "in"
         /\ \A q \in Processes :
                Steps(q) = Steps(p) \/ Output(Steps(q)) \cap Output(Steps(p)) = {}
<1>1. \A q \in Processes : world.jobs[q].script \in DOMAIN Scripts /\ Steps(q) = Scripts[world.jobs[q].script]
  BY WorldsAssumption DEF Shape, Processes, Steps
<1>2. \A q \in Processes : world.jobs[q].script = world.jobs[p].script
          \/ Output(Scripts[world.jobs[q].script]) \cap Output(Scripts[world.jobs[p].script]) = {}
  BY PlacesAssumption DEF Shape, Processes
<1>3. Len(Steps(p)) \in Nat
  BY <1>1, ScriptsAreSequences
<1>4. /\ \A f \in Output(Steps(p)) : Own(f)
      /\ \A i \in Indices(Steps(p)) : Steps(p)[i].op = "copy" => Steps(p)[i].from[1] = "in"
  BY <1>1, AuthorRule
<1>5. \A q \in Processes : Steps(q) = Steps(p) \/ Output(Steps(q)) \cap Output(Steps(p)) = {}
  BY <1>1, <1>2
<1> QED
  BY <1>3, <1>4, <1>5 DEF Indices

LEMMA WrittenIsOutput ==
  ASSUME NEW st, NEW j \in Indices(st), NEW f, WritesAt(st, j, f)
  PROVE  f \in Output(st)
<1>1. j \in {i \in Indices(st) : st[i].op \in WriteOps \cup {"try"}} /\ f \in st[j].files
  BY DEF WritesAt
<1> DEFINE J == {i \in Indices(st) : st[i].op \in WriteOps \cup {"try"}}
<1> HIDE DEF J
<1>2. f \in UNION {st[i].files : i \in J}
  BY <1>1 DEF J
<1> QED
  BY <1>2 DEF Output, J

LEMMA GuardsItself ==
  ASSUME NEW st, NEW k, NEW f, Guards(st, k, f)
  PROVE  Guards(st, k, k)
BY DEF Guards

\* p writes F: receipts, what the step it is at writes, or what it gives up with.
Touches(p, F) ==
    /\ world' = world /\ Writes(p, F)
    /\ \A f \in F :
           \/ f[1] = "registry"
           \/ \E i \in Indices(Steps(p)) :
                  /\ WritesAt(Steps(p), i, f)
                  /\ Steps(p)[i].op # "try" =>
                         i = proc[p].pc /\ (Steps(p)[i].op \in Exclusive => f \notin DOMAIN disk)

LEMMA GivesUpTouches ==
  ASSUME AuthorInv, NEW p \in Processes, GivesUp(p)
  PROVE  Touches(p, proc[p].handler)
<1>1. \A f \in proc[p].handler :
          \E i \in Indices(Steps(p)) : Steps(p)[i].op = "try" /\ f \in Steps(p)[i].files
  BY DEF AuthorInv, Handlers
<1> QED
  BY <1>1 DEF GivesUp, Others, Touches, WritesAt

LEMMA ProceedsTouches ==
  ASSUME Shape, NEW p \in Processes, proc[p].status = "running", Proceeds(p)
  PROVE  Touches(p, WrittenFiles(p, At(p)))
<1> DEFINE F == WrittenFiles(p, At(p))
<1>0. world' = world /\ Writes(p, F)
  BY DEF Proceeds, Others
<1>1. CASE At(p).op \in WriteOps
  <2>1. F = At(p).files
    BY <1>1 DEF WrittenFiles, WriteOps
  <2>2. proc[p].pc \in Indices(Steps(p))
    BY AtStep DEF Indices
  <2>3. At(p).op \in Exclusive => F \cap DOMAIN disk = {}
    BY <2>1 DEF Proceeds, Succeeds, Exclusive, Free
  <2> HIDE DEF F
  <2> QED
    BY <1>0, <1>1, <2>1, <2>2, <2>3 DEF Touches, WritesAt, At, F
<1>2. CASE At(p).op \notin WriteOps
  <2>1. F \subseteq {Receipt(p)}
    <3>1. CASE At(p).op = "reserve"
      BY <1>2, <3>1 DEF WrittenFiles
    <3>2. CASE At(p).op = "settle"
      BY <1>2, <3>2 DEF WrittenFiles
    <3>3. CASE At(p).op \notin {"reserve", "settle"}
      BY <1>2, <3>3 DEF WrittenFiles
    <3> QED
      BY <3>1, <3>2, <3>3
  <2>2. Receipt(p)[1] = "registry"
    BY DEF Receipt
  <2> HIDE DEF F
  <2> QED
    BY <1>0, <2>1, <2>2 DEF Touches, F
<1> QED
  BY <1>1, <1>2

\* Nobody writes a guard that exists.
LEMMA GuardStays ==
  ASSUME AuthorInv, NEW p \in Processes, NEW F, Touches(p, F), NEW q \in Processes,
         NEW k \in Output(Steps(q)) \cap DOMAIN disk, Guards(Steps(q), k, k)
  PROVE  k \notin F /\ k \in DOMAIN disk' /\ disk'[k] = disk[k]
<1>1. ASSUME k \in F PROVE FALSE
  <2>0. Shape /\ Own(k)
    BY Scripted DEF AuthorInv
  <2>1. PICK i \in Indices(Steps(p)) :
            /\ WritesAt(Steps(p), i, k)
            /\ Steps(p)[i].op # "try" =>
                   i = proc[p].pc /\ (Steps(p)[i].op \in Exclusive => k \notin DOMAIN disk)
    BY <1>1, <2>0 DEF Touches, Own
  <2>2. k \in Output(Steps(p))
    BY <2>1, WrittenIsOutput
  <2>3. Steps(q) = Steps(p)
    BY <2>0, <2>2, Scripted
  <2>4. Steps(p)[i].op \in Exclusive
    BY <2>1, <2>3 DEF Guards, Creates
  <2> QED
    BY <2>1, <2>4 DEF Exclusive
<1> QED
  BY <1>1 DEF Touches, Writes

LEMMA SafeStays ==
  ASSUME AuthorInv, NEW p \in Processes, NEW F, Touches(p, F), NEW q \in Processes, NEW f, Safe(q, f)
  PROVE  Safe(q, f)'
<1>1. PICK k \in Output(Steps(q)) \cap DOMAIN disk : Guards(Steps(q), k, f) /\ disk[k].by = q
  BY DEF Safe
<1>2. k \in DOMAIN disk' /\ disk'[k] = disk[k]
  BY <1>1, GuardsItself, GuardStays
<1>3. Steps(q)' = Steps(q) /\ f \in DOMAIN disk'
  BY DEF Touches, Writes, Steps, Safe
<1> QED
  BY <1>1, <1>2, <1>3 DEF Safe

\* A file written goes to the author of its guard.
LEMMA GuardedStep ==
  ASSUME AuthorInv, NEW p \in Processes, NEW F, Touches(p, F)
  PROVE  Guarded'
<1>0. Shape /\ Created /\ Guarded
  BY DEF AuthorInv
<1>1. world' = world /\ Processes' = Processes /\ \A q : Steps(q)' = Steps(q)
  BY DEF Touches, Processes, Steps
<1> SUFFICES ASSUME NEW q \in Processes, NEW f \in Output(Steps(q)) \cap DOMAIN disk',
                    NEW k \in Output(Steps(q)), Guards(Steps(q), k, f)
             PROVE  k \in DOMAIN disk' /\ disk'[f].by = disk'[k].by
  BY <1>1 DEF Guarded
<1>2. Guards(Steps(q), k, k)
  BY GuardsItself
<1>3. CASE f = k
  BY <1>3
<1>4. CASE f # k /\ f \notin F
  <2>1. f \in DOMAIN disk /\ disk'[f] = disk[f]
    BY <1>4 DEF Touches, Writes
  <2>2. k \in DOMAIN disk /\ disk[f].by = disk[k].by
    BY <1>0, <2>1 DEF Guarded
  <2>3. k \in DOMAIN disk' /\ disk'[k] = disk[k]
    BY <1>2, <2>2, GuardStays
  <2> QED
    BY <2>1, <2>2, <2>3
<1>5. CASE f # k /\ f \in F
  <2>1. Own(f)
    BY <1>0, Scripted
  <2>2. PICK i \in Indices(Steps(p)) :
            /\ WritesAt(Steps(p), i, f)
            /\ Steps(p)[i].op # "try" => i = proc[p].pc
    BY <1>5, <2>1 DEF Touches, Own
  <2>3. f \in Output(Steps(p))
    BY <2>2, WrittenIsOutput
  <2>4. Steps(q) = Steps(p)
    BY <1>0, <2>3, Scripted
  <2>5. PICK j \in Indices(Steps(p)) : Creates(Steps(p), j, k) /\ Sure(Steps(p), j, proc[p].pc)
    BY <1>5, <2>2, <2>4 DEF Guards
  <2>6. k \in DOMAIN disk /\ disk[k].by = p
    BY <1>0, <1>2, <2>4, <2>5 DEF Created, Creates, Exclusive, WriteOps
  <2>7. k \in DOMAIN disk' /\ disk'[k] = disk[k]
    BY <1>2, <2>6, GuardStays
  <2>8. disk'[f].by = p
    BY <1>5 DEF Touches, Writes
  <2> QED
    BY <2>6, <2>7, <2>8
<1> QED
  BY <1>3, <1>4, <1>5

\* What a process that publishes lists in its step is its own, if it is there.
LEMMA ListedIsSafe ==
  ASSUME AuthorInv, NEW p \in Processes, proc[p].status = "running", Publishes(Steps(p)),
         NEW f \in Lists(At(p)), Own(f)
  PROVE  /\ f \in DOMAIN disk => Safe(p, f)
         /\ At(p).op \in ClaimOps => Safe(p, f)
<1> DEFINE st == Steps(p)
           i == proc[p].pc
<1>0. Shape /\ Created /\ i \in Indices(st) /\ At(p) = st[i]
  BY AtStep DEF AuthorInv, Indices, At
<1>1. st = Scripts[world.jobs[p].script] /\ world.jobs[p].script \in DOMAIN Scripts
  BY <1>0, WorldsAssumption DEF Shape, Processes, Steps
<1>2. /\ f \in Output(st)
      /\ \E j \in Indices(st) : Sure(st, j, i) /\
             \E k \in Output(st) : Creates(st, j, k) /\ Guards(st, k, f)
      /\ st[i].op \in ClaimOps =>
             \E j \in Indices(st) : Sure(st, j, i) /\ st[j].op \in WriteOps /\ f \in st[j].files
  BY <1>0, <1>1, AuthorRule
<1>3. PICK j \in Indices(st) : Sure(st, j, i) /\
             \E k \in Output(st) : Creates(st, j, k) /\ Guards(st, k, f)
  BY <1>2
<1>4. PICK k \in Output(st) : Creates(st, j, k) /\ Guards(st, k, f)
  BY <1>3
<1>5. Guards(st, k, k)
  BY <1>4, GuardsItself
<1>6. st[j].op \in WriteOps /\ k \in st[j].files
  BY <1>4 DEF Creates, Exclusive, WriteOps
<1>7. k \in DOMAIN disk /\ disk[k].by = p
  BY <1>0, <1>3, <1>4, <1>5, <1>6 DEF Created
<1>8. f \in DOMAIN disk => Safe(p, f)
  BY <1>2, <1>4, <1>7 DEF Safe
<1>9. At(p).op \in ClaimOps => f \in DOMAIN disk
  BY <1>0, <1>2 DEF Created
<1> QED
  BY <1>8, <1>9

\* What a process learns of its own files it may vouch for.
LEMMA LearntIsSafe ==
  ASSUME AuthorInv, NEW p \in Processes, proc[p].status = "running", Succeeds(p, At(p)),
         Publishes(Steps(p)), NEW f \in LearntFiles(p, At(p)), Own(f)
  PROVE  Safe(p, f)
<1> DEFINE s == At(p)
<1>1. CASE s.op \in {"hash", "take"}
  <2>1. f \in s.files /\ f \in Lists(s)
    BY <1>1 DEF LearntFiles, Lists, PublishOps
  <2>2. f \in DOMAIN disk
    BY <1>1, <2>1 DEF Succeeds, Exists
  <2> QED
    BY <2>1, <2>2, ListedIsSafe
<1>2. CASE s.op \in ClaimOps
  <2>1. f \in Lists(s)
    BY <1>2 DEF LearntFiles, Lists, PublishOps, ClaimOps
  <2> QED
    BY <1>2, <2>1, ListedIsSafe
<1>3. CASE s.op \notin {"hash", "take"} \cup ClaimOps
  <2>1. f \in {Receipt(p), Test}
    BY <1>3 DEF LearntFiles, ClaimOps
  <2> QED
    BY <2>1 DEF Receipt, Test, In, Own
<1> QED
  BY <1>1, <1>2, <1>3

\* Files that are touched keep what everyone else has done, knows and states.
LEMMA OthersKeep ==
  ASSUME AuthorInv, NEW p \in Processes, NEW F, Touches(p, F),
         NEW q \in Processes, proc'[q].pc = proc[q].pc, proc'[q].evidence = proc[q].evidence
  PROVE  /\ \A j \in Indices(Steps(q)) :
                Sure(Steps(q), j, proc'[q].pc) /\ Steps(q)[j].op \in WriteOps =>
                    \A f \in Steps(q)[j].files :
                        /\ f \in DOMAIN disk'
                        /\ Creates(Steps(q), j, f) /\ Guards(Steps(q), f, f) => disk'[f].by = q
         /\ Publishes(Steps(q)) => \A f \in DOMAIN proc'[q].evidence : Own(f) => Safe(q, f)'
<1>0. Created /\ OwnEvidence
  BY DEF AuthorInv
<1>1. ASSUME NEW j \in Indices(Steps(q)), Sure(Steps(q), j, proc'[q].pc), Steps(q)[j].op \in WriteOps,
             NEW f \in Steps(q)[j].files
      PROVE  /\ f \in DOMAIN disk'
             /\ Creates(Steps(q), j, f) /\ Guards(Steps(q), f, f) => disk'[f].by = q
  <2>1. /\ f \in DOMAIN disk
        /\ Creates(Steps(q), j, f) /\ Guards(Steps(q), f, f) => disk[f].by = q
    BY <1>0, <1>1 DEF Created
  <2>2. f \in Output(Steps(q))
    BY <1>1, WrittenIsOutput DEF WritesAt
  <2>3. Guards(Steps(q), f, f) => disk'[f] = disk[f]
    BY <2>1, <2>2, GuardStays
  <2> QED
    BY <2>1, <2>3 DEF Touches, Writes
<1>2. Publishes(Steps(q)) => \A f \in DOMAIN proc'[q].evidence : Own(f) => Safe(q, f)'
  <2> SUFFICES ASSUME Publishes(Steps(q)), NEW f \in DOMAIN proc'[q].evidence, Own(f)
               PROVE  Safe(q, f)'
    OBVIOUS
  <2>1. Safe(q, f)
    BY <1>0 DEF OwnEvidence, Evidence
  <2> QED
    BY <2>1, SafeStays
<1> QED
  BY <1>1, <1>2

LEMMA ClaimsKeep ==
  ASSUME AuthorInv, NEW p \in Processes, NEW F, Touches(p, F),
         \A m \in F : \A f \in DOMAIN disk'[m].claims : Own(f) => Safe(p, f)
  PROVE  OwnClaims' /\ GivenClaims'
<1>0. Shape /\ OwnClaims /\ GivenClaims
  BY DEF AuthorInv
<1>1. Processes' = Processes
  BY DEF Touches, Processes
<1>2. ASSUME NEW q \in Processes, NEW m \in DOMAIN disk', disk'[m].by = q,
             NEW f \in DOMAIN disk'[m].claims, Own(f)
      PROVE  Safe(q, f)'
  <2>1. CASE m \in F
    <3>1. q = p
      BY <1>2, <2>1 DEF Touches, Writes
    <3> QED
      BY <1>2, <2>1, <3>1, SafeStays
  <2>2. CASE m \notin F
    <3>1. m \in DOMAIN disk /\ disk'[m] = disk[m]
      BY <2>2 DEF Touches, Writes
    <3>2. Safe(q, f)
      BY <1>0, <1>2, <3>1 DEF OwnClaims
    <3> QED
      BY <3>2, SafeStays
  <2> QED
    BY <2>1, <2>2
<1>3. OwnClaims'
  BY <1>1, <1>2 DEF OwnClaims
<1>4. \A f \in F : f[1] # "in"
  <2> SUFFICES ASSUME NEW f \in F PROVE f[1] # "in"
    OBVIOUS
  <2>1. f[1] = "registry" \/ \E i \in Indices(Steps(p)) : WritesAt(Steps(p), i, f)
    BY DEF Touches
  <2>2. f[1] = "registry" \/ Own(f)
    BY <1>0, <2>1, WrittenIsOutput, Scripted
  <2> QED
    BY <2>2 DEF Own
<1>5. GivenClaims'
  BY <1>0, <1>4 DEF GivenClaims, Touches, Writes
<1> QED
  BY <1>3, <1>5

LEMMA AuthorGivesUp ==
  ASSUME AuthorInv, Shape', NEW p \in Processes, GivesUp(p)
  PROVE  AuthorInv'
<1> DEFINE F == proc[p].handler
<1>0. Touches(p, F) /\ Handlers
  BY GivesUpTouches DEF AuthorInv
<1>1. /\ world' = world /\ Processes' = Processes /\ \A q : Steps(q)' = Steps(q)
      /\ \A q \in Processes : /\ proc'[q].pc = proc[q].pc /\ proc'[q].evidence = proc[q].evidence
                              /\ proc'[q].handler = proc[q].handler
  BY DEF GivesUp, Others, Processes, Steps
<1>2. Guarded'
  BY <1>0, GuardedStep
<1>3. Created' /\ OwnEvidence'
  BY <1>0, <1>1, OthersKeep DEF Created, OwnEvidence, Evidence
<1>4. \A m \in F : DOMAIN disk'[m].claims = {}
  BY DEF GivesUp, Nothing
<1>5. OwnClaims' /\ GivenClaims'
  BY <1>0, <1>4, ClaimsKeep
<1>6. Handlers'
  BY <1>0, <1>1 DEF Handlers
<1> QED
  BY <1>2, <1>3, <1>5, <1>6 DEF AuthorInv

\* The process that goes on has done its step.
LEMMA CreatedGoesOn ==
  ASSUME AuthorInv, NEW p \in Processes, proc[p].status = "running", Proceeds(p)
  PROVE  \A j \in Indices(Steps(p)) :
             Sure(Steps(p), j, proc'[p].pc) /\ Steps(p)[j].op \in WriteOps =>
                 \A f \in Steps(p)[j].files :
                     /\ f \in DOMAIN disk'
                     /\ Creates(Steps(p), j, f) /\ Guards(Steps(p), f, f) => disk'[f].by = p
<1> DEFINE st == Steps(p)
           n == Len(Steps(p))
           i == proc[p].pc
           F == WrittenFiles(p, At(p))
<1>0. Shape /\ Created /\ Touches(p, F)
  BY ProceedsTouches DEF AuthorInv
<1>1. /\ i \in 1..n /\ n \in Nat /\ Indices(st) = 1..n
      /\ \A k \in 1..n : st[k].op = "maybe" => st[k].skip \in Nat
      /\ proc'[p].pc = i + 1 \/ (st[i].op = "maybe" /\ proc'[p].pc = Landing(st, i))
  BY <1>0, AtStep, HoldoutAt DEF Proceeds, Advances, At, Indices
<1> SUFFICES ASSUME NEW j \in Indices(st), Sure(st, j, proc'[p].pc), st[j].op \in WriteOps,
                    NEW f \in st[j].files
             PROVE  /\ f \in DOMAIN disk'
                    /\ Creates(st, j, f) /\ Guards(st, f, f) => disk'[f].by = p
  OBVIOUS
<1>2. j = i \/ Sure(st, j, i)
  BY <1>1, SureStep
<1>3. CASE j = i
  <2>1. F = st[j].files
    BY <1>3 DEF WrittenFiles, WriteOps, At
  <2> QED
    BY <1>0, <2>1 DEF Touches, Writes
<1>4. CASE Sure(st, j, i)
  <2>1. f \in DOMAIN disk /\ (Creates(st, j, f) /\ Guards(st, f, f) => disk[f].by = p)
    BY <1>0, <1>4 DEF Created
  <2>2. f \in Output(st)
    BY WrittenIsOutput DEF WritesAt
  <2>3. Guards(st, f, f) => disk'[f] = disk[f]
    BY <1>0, <2>1, <2>2, GuardStays
  <2> QED
    BY <1>0, <2>1, <2>3 DEF Touches, Writes
<1> QED
  BY <1>2, <1>3, <1>4

\* What it writes lists nothing that is not its own.
LEMMA ClaimsGoOn ==
  ASSUME AuthorInv, NEW p \in Processes, proc[p].status = "running", Proceeds(p)
  PROVE  \A m \in WrittenFiles(p, At(p)) : \A f \in DOMAIN disk'[m].claims : Own(f) => Safe(p, f)
<1> DEFINE s == At(p)
<1>0. Shape /\ OwnEvidence /\ GivenClaims /\ proc[p].pc \in Indices(Steps(p)) /\ Succeeds(p, s)
  BY AtStep DEF AuthorInv, Proceeds, Indices
<1>1. \A m \in WrittenFiles(p, s) : DOMAIN disk'[m].claims \subseteq ClaimedFiles(p, s)
  BY DEF Proceeds
<1>2. \A f \in ClaimedFiles(p, s) : Own(f) => Safe(p, f)
  <2> SUFFICES ASSUME NEW f \in ClaimedFiles(p, s), Own(f)
               PROVE  Safe(p, f)
    OBVIOUS
  <2>1. CASE s.op \in PublishOps
    <3>1. Publishes(Steps(p))
      BY <1>0, <2>1 DEF Publishes, At
    <3>2. f \in s.inventory \cap DOMAIN disk \/ f \in Evidence(p)
      BY <2>1 DEF ClaimedFiles, PublishOps
    <3>3. CASE f \in s.inventory \cap DOMAIN disk
      <4>1. f \in Lists(s)
        BY <2>1, <3>3 DEF Lists, PublishOps
      <4> QED
        BY <3>1, <3>3, <4>1, ListedIsSafe
    <3>4. CASE f \in Evidence(p)
      BY <1>0, <3>1, <3>4 DEF OwnEvidence
    <3> QED
      BY <3>2, <3>3, <3>4
  <2>2. CASE s.op = "copy"
    <3>1. s.from \in DOMAIN disk
      BY <1>0, <2>2 DEF Succeeds, Exists
    <3>2. s.from[1] = "in"
      BY <1>0, <2>2, Scripted DEF At
    <3>3. ClaimedFiles(p, s) = DOMAIN disk[s.from].claims
      BY <2>2 DEF ClaimedFiles, PublishOps
    <3> QED
      BY <1>0, <3>1, <3>2, <3>3 DEF GivenClaims
  <2>3. CASE s.op \notin PublishOps \cup {"copy"}
    BY <2>3 DEF ClaimedFiles
  <2> QED
    BY <2>1, <2>2, <2>3
<1> QED
  BY <1>1, <1>2

LEMMA AuthorProceeds ==
  ASSUME AuthorInv, Shape', NEW p \in Processes, proc[p].status = "running", Proceeds(p)
  PROVE  AuthorInv'
<1> DEFINE F == WrittenFiles(p, At(p))
<1>0. Touches(p, F) /\ Handlers /\ OwnEvidence /\ proc[p].pc \in Indices(Steps(p)) /\ Shape
  BY ProceedsTouches, AtStep DEF AuthorInv, Indices
<1>1. /\ world' = world /\ Processes' = Processes /\ \A q : Steps(q)' = Steps(q)
      /\ \A q \in Processes \ {p} : proc'[q] = proc[q]
  BY DEF Proceeds, Others, Processes, Steps
<1>2. Guarded'
  BY <1>0, GuardedStep
<1>3. \A q \in Processes \ {p} :
         /\ \A j \in Indices(Steps(q)) :
                Sure(Steps(q), j, proc'[q].pc) /\ Steps(q)[j].op \in WriteOps =>
                    \A f \in Steps(q)[j].files :
                        /\ f \in DOMAIN disk'
                        /\ Creates(Steps(q), j, f) /\ Guards(Steps(q), f, f) => disk'[f].by = q
         /\ Publishes(Steps(q)) => \A f \in DOMAIN proc'[q].evidence : Own(f) => Safe(q, f)'
  BY <1>0, <1>1, OthersKeep
<1>4. Created'
  BY <1>1, <1>3, CreatedGoesOn DEF Created
<1>5. Publishes(Steps(p)) => \A f \in DOMAIN proc'[p].evidence : Own(f) => Safe(p, f)'
  <2> SUFFICES ASSUME Publishes(Steps(p)), NEW f \in DOMAIN proc'[p].evidence, Own(f)
               PROVE  Safe(p, f)'
    OBVIOUS
  <2>1. f \in LearntFiles(p, At(p)) \/ f \in Evidence(p)
    BY DEF Proceeds, Learns, Evidence
  <2>2. Safe(p, f)
    BY <1>0, <2>1, LearntIsSafe DEF Proceeds, OwnEvidence
  <2> QED
    BY <1>0, <2>2, SafeStays
<1>6. OwnEvidence'
  BY <1>1, <1>3, <1>5 DEF OwnEvidence, Evidence
<1>7. OwnClaims' /\ GivenClaims'
  BY <1>0, ClaimsGoOn, ClaimsKeep
<1>8. Handlers'
  <2>1. proc'[p].handler = IF At(p).op = "try" THEN At(p).files ELSE proc[p].handler
    BY DEF Proceeds, Advances
  <2>2. \A f \in proc'[p].handler :
            \E i \in Indices(Steps(p)) : Steps(p)[i].op = "try" /\ f \in Steps(p)[i].files
    BY <1>0, <2>1 DEF Handlers, At
  <2> QED
    BY <1>0, <1>1, <2>2 DEF Handlers
<1> QED
  BY <1>2, <1>4, <1>6, <1>7, <1>8 DEF AuthorInv

\* Nobody becomes an author by replacing a file.
LEMMA AuthorReplaces ==
  ASSUME AuthorInv, Shape', NEW F \in SUBSET DOMAIN disk, Replaces(F)
  PROVE  AuthorInv'
<1>1. /\ Processes' = Processes /\ proc' = proc /\ DOMAIN disk' = DOMAIN disk
      /\ \A q : Steps(q)' = Steps(q)
      /\ \A f \in DOMAIN disk : disk'[f].by = disk[f].by /\ DOMAIN disk'[f].claims = DOMAIN disk[f].claims
  BY DEF Replaces, Processes, Steps
<1>2. \A p, f : Safe(p, f)' = Safe(p, f)
  BY <1>1 DEF Safe
<1>3. Handlers' /\ GivenClaims' /\ Guarded'
  BY <1>1 DEF AuthorInv, Handlers, GivenClaims, Guarded
<1>4. Created'
  BY <1>1 DEF AuthorInv, Created
<1>5. OwnEvidence' /\ OwnClaims'
  BY <1>1, <1>2 DEF AuthorInv, OwnEvidence, OwnClaims, Evidence
<1> QED
  BY <1>3, <1>4, <1>5 DEF AuthorInv

LEMMA AuthorStep ==
  ASSUME AuthorInv, [Next]_vars
  PROVE  AuthorInv'
<1>0. Shape /\ Shape'
  BY ShapeStep DEF AuthorInv
<1>1. CASE UNCHANGED vars
  <2>1. Replaces({})
    BY <1>0, <1>1 DEF vars, Replaces, Shape
  <2> QED
    BY <1>0, <2>1, AuthorReplaces
<1> QED
  BY <1>0, <1>1, NextStep, AuthorReplaces, AuthorGivesUp, AuthorProceeds

LEMMA AuthorInit == Init => AuthorInv
<1> SUFFICES ASSUME Init PROVE AuthorInv
  OBVIOUS
<1>1. Shape
  BY InitShape
<1>2. \A p \in Processes : proc[p].pc = 1 /\ proc[p].evidence = Nothing /\ proc[p].handler = {}
  BY DEF Init
<1>3. \A f \in DOMAIN disk : f[1] = "in" /\ DOMAIN disk[f].claims = {}
  BY DEF Init, Given, Test, In, Content, Nothing
<1>4. Handlers /\ GivenClaims /\ OwnClaims
  BY <1>2, <1>3 DEF Handlers, GivenClaims, OwnClaims
<1>5. Created
  BY <1>2 DEF Created, Sure, Indices
<1>6. Guarded
  <2>1. \A p \in Processes : Output(Steps(p)) \cap DOMAIN disk = {}
    BY <1>1, <1>3, Scripted DEF Own
  <2> QED
    BY <2>1 DEF Guarded
<1>7. OwnEvidence
  BY <1>2 DEF OwnEvidence, Evidence, Nothing
<1> QED
  BY <1>1, <1>4, <1>5, <1>6, <1>7 DEF AuthorInv

\* Any number of runs of any scripts, started on the same directories at the
\* same time, never publish each other's files: what a manifest lists of its
\* own run was, and stays, written by that run.  The exclusive creations of
\* the code (mkdir, open "x") carry this: each listed file has a guard.
THEOREM OneAuthorHolds == Spec => []OneAuthor
<1>1. AuthorInv => OneAuthor
  <2> SUFFICES ASSUME AuthorInv, NEW m \in Published, NEW f \in DOMAIN disk[m].claims,
                      f[1] \notin {"in", "registry"}
               PROVE  f \in DOMAIN disk /\ disk[f].by = disk[m].by
    BY DEF OneAuthor
  <2> DEFINE p == disk[m].by
  <2>1. p \in Processes /\ Safe(p, f)
    BY DEF Published, AuthorInv, OwnClaims, Own
  <2> QED
    BY <2>1 DEF Safe, AuthorInv, Guarded
<1> QED
  BY <1>1, AuthorInit, AuthorStep, PTL DEF Spec

-----------------------------------------------------------------------------
(* The service serves what was tested *)

Executes(p, name) == world.jobs[p].script = name

\* Every file of a script has an author, whose script writes it; what is
\* given is only ever replaced.
Authors ==
    \A f \in DOMAIN disk : Own(f) => disk[f].by \in Processes /\ f \in Output(Steps(disk[f].by))
Originals == \A f \in DOMAIN disk : f[1] = "in" => disk[f].by = "given" /\ disk[f].v \in {0, 1}
Present == \A p \in Processes : Executes(p, "test") => {candidate_lock, locked} \subseteq DOMAIN disk
Ended == \A p \in Processes : proc[p].status = "complete" => proc[p].pc = Len(Steps(p)) + 1

\* What is given only gets newer.  So a digest is no newer than the file, and
\* what was taken between two looks that agree is what they agree on.
KnowsLock(p) ==
    LET evidence == proc[p].evidence
    IN  /\ candidate_lock \in DOMAIN evidence
        /\ evidence[candidate_lock] \in Nat /\ evidence[candidate_lock] <= disk[candidate_lock].v
KnowsModel(p) ==
    LET evidence == proc[p].evidence
    IN  /\ {candidate_lock, locked} \subseteq DOMAIN evidence
        /\ evidence[candidate_lock] \in Nat /\ evidence[locked] \in Nat
        /\ evidence[candidate_lock] <= evidence[locked] /\ evidence[locked] <= disk[candidate_lock].v
HasChecked(p) ==
    LET evidence == proc[p].evidence
    IN  /\ locked \in DOMAIN evidence
        /\ evidence[locked] \in Nat /\ evidence[locked] <= disk[locked].v
HasRead(p) ==
    LET evidence == proc[p].evidence
        used == proc[p].used
    IN  /\ locked \in DOMAIN used /\ locked \in DOMAIN evidence
        /\ used[locked] \in Nat /\ evidence[locked] \in Nat
        /\ evidence[locked] <= used[locked] /\ used[locked] <= disk[locked].v
HasVerified(p) ==
    LET evidence == proc[p].evidence
        used == proc[p].used
    IN  /\ {candidate_lock, locked} \subseteq DOMAIN evidence /\ locked \in DOMAIN used
        /\ evidence[candidate_lock] = evidence[locked] /\ evidence[locked] = used[locked]

Bracket(p) ==
    LET st == Steps(p)
        pc == proc[p].pc
    IN  /\ Behind(st, Learning(st, candidate_lock), pc) => KnowsLock(p)
        /\ Behind(st, Locking(st), pc) => KnowsModel(p)
        /\ Behind(st, Checking(st), pc) => HasChecked(p)
        /\ Behind(st, Reading(st, locked), pc) => HasRead(p)
        /\ pc >= Len(st) => HasVerified(p)
Brackets == \A p \in Processes : Executes(p, "test") => Bracket(p)

\* The approval states the lock that its author, who is done, went by.
Approvals ==
    \A q \in Processes : Executes(q, "test") /\ approval \in DOMAIN disk /\ disk[approval].by = q =>
        /\ proc[q].status = "complete"
        /\ disk[approval].v = 0 =>
               /\ candidate_lock \in DOMAIN disk[approval].claims
               /\ disk[approval].claims[candidate_lock] = proc[q].evidence[candidate_lock]

\* What the service has found out so far.
Service(p) ==
    LET pc == proc[p].pc
        evidence == proc[p].evidence
    IN  /\ pc > 1 =>
              /\ approval \in DOMAIN disk /\ {candidate_lock, model} \subseteq DOMAIN evidence
              /\ \A q \in Processes : Executes(q, "test") /\ disk[approval].by = q =>
                     evidence[candidate_lock] = proc[q].evidence[candidate_lock]
        /\ pc > 2 => /\ verdict \in DOMAIN disk /\ model \in DOMAIN proc[p].used
                     /\ proc[p].used[model] = evidence[model]
        /\ pc > 3 => evidence[model] = evidence[candidate_lock]
Services == \A p \in Processes : Executes(p, "serve") => Service(p)

ServiceInv ==
    /\ AuthorInv /\ Authors /\ Originals /\ Present /\ Ended
    /\ Brackets /\ Approvals /\ Services

\* The names: two given files, and three of the bundle.
LEMMA Names ==
  /\ candidate_lock[1] = "in" /\ locked[1] = "in" /\ candidate_lock # Test /\ locked # Test
  /\ model[1] = "a" /\ approval[1] = "a" /\ verdict[1] = "a"
  /\ Own(model) /\ Own(approval) /\ Own(verdict)
  /\ approval # candidate_lock /\ approval # model
BY DEF candidate_lock, locked, Test, model, approval, verdict, In, Out, Own

\* What is given stays, and only gets newer.
Ages ==
    \A f \in DOMAIN disk :
        /\ f \in DOMAIN disk'
        /\ f[1] = "in" => disk'[f].v \in {0, 1} /\ disk[f].v <= disk'[f].v

\* p writes receipts, and what its script writes.
LEMMA TouchedIsOutput ==
  ASSUME Shape, NEW p \in Processes, NEW F, Touches(p, F), NEW f \in F
  PROVE  f[1] # "in" /\ (Own(f) => f \in Output(Steps(p)))
<1>1. f[1] = "registry" \/ \E i \in Indices(Steps(p)) : WritesAt(Steps(p), i, f)
  BY DEF Touches
<1>2. f[1] = "registry" \/ (Own(f) /\ f \in Output(Steps(p)))
  BY <1>1, WrittenIsOutput, Scripted
<1> QED
  BY <1>2 DEF Own

LEMMA DiskTouched ==
  ASSUME ServiceInv, NEW p \in Processes, NEW F, Touches(p, F)
  PROVE  Ages /\ Authors' /\ Originals' /\ Present'
<1>0. Shape /\ Authors /\ Originals /\ Present
  BY DEF ServiceInv, AuthorInv
<1>1. /\ Processes' = Processes /\ \A q : Steps(q)' = Steps(q) /\ \A name : Executes(q, name)' = Executes(q, name)
      /\ DOMAIN disk' = F \cup DOMAIN disk
      /\ \A f \in DOMAIN disk \ F : disk'[f] = disk[f]
      /\ \A f \in F : disk'[f].by = p
  BY DEF Touches, Writes, Processes, Steps, Executes
<1>2. \A f \in F : f[1] # "in" /\ (Own(f) => f \in Output(Steps(p)))
  BY <1>0, TouchedIsOutput
<1>3. Authors'
  BY <1>0, <1>1, <1>2 DEF Authors
<1>4. Ages /\ Originals'
  BY <1>0, <1>1, <1>2 DEF Ages, Originals
<1>5. Present'
  BY <1>0, <1>1 DEF Present
<1> QED
  BY <1>3, <1>4, <1>5

LEMMA DiskReplaced ==
  ASSUME ServiceInv, NEW F \in SUBSET DOMAIN disk, Replaces(F)
  PROVE  Ages /\ Authors' /\ Originals' /\ Present'
<1>0. Authors /\ Originals /\ Present
  BY DEF ServiceInv
<1>1. /\ Processes' = Processes /\ \A q : Steps(q)' = Steps(q) /\ \A name : Executes(q, name)' = Executes(q, name)
      /\ DOMAIN disk' = DOMAIN disk /\ \A f \in DOMAIN disk : disk'[f].by = disk[f].by
      /\ \A f \in DOMAIN disk \ F : disk'[f] = disk[f]
      /\ \A f \in F : disk[f].v = 0 /\ disk'[f].v = 1
  BY DEF Replaces, Processes, Steps, Executes
<1>2. Authors'
  BY <1>0, <1>1 DEF Authors
<1>3. Ages /\ Originals'
  BY <1>0, <1>1 DEF Ages, Originals
<1>4. Present'
  BY <1>0, <1>1 DEF Present
<1> QED
  BY <1>2, <1>3, <1>4

\* The approval is written once, by whoever creates it.
LEMMA ApprovalStays ==
  ASSUME Shape, NEW p \in Processes, NEW F, Touches(p, F), approval \in DOMAIN disk
  PROVE  approval \notin F /\ disk'[approval] = disk[approval]
<1>1. ASSUME approval \in F PROVE FALSE
  <2>1. PICK i \in Indices(Steps(p)) :
            /\ WritesAt(Steps(p), i, approval)
            /\ Steps(p)[i].op # "try" =>
                   i = proc[p].pc /\ (Steps(p)[i].op \in Exclusive => approval \notin DOMAIN disk)
    BY <1>1, Names DEF Touches
  <2>2. Creates(Steps(p), i, approval)
    BY <2>1, ApprovalRule, WorldsAssumption DEF Shape, Processes, Steps
  <2> QED
    BY <2>1, <2>2 DEF Creates, Exclusive
<1> QED
  BY <1>1 DEF Touches, Writes

LEMMA HandlersSpare ==
  ASSUME Shape, Handlers, NEW p \in Processes
  PROVE  approval \notin proc[p].handler
<1>1. ASSUME approval \in proc[p].handler PROVE FALSE
  <2>1. PICK i \in Indices(Steps(p)) : Steps(p)[i].op = "try" /\ approval \in Steps(p)[i].files
    BY <1>1 DEF Handlers
  <2>2. WritesAt(Steps(p), i, approval)
    BY <2>1 DEF WritesAt
  <2>3. Creates(Steps(p), i, approval)
    BY <2>2, ApprovalRule, WorldsAssumption DEF Shape, Processes, Steps
  <2> QED
    BY <2>1, <2>3 DEF Creates, Exclusive
<1> QED
  BY <1>1

-----------------------------------------------------------------------------
(* The test looks at the lock and at the model between two equal looks *)

\* Who has just passed J was at it, or had passed it.
LEMMA BehindStep ==
  ASSUME Shape, NEW p \in Processes, proc[p].status = "running", Proceeds(p),
         NEW J \in SUBSET Indices(Steps(p)), Behind(Steps(p), J, proc'[p].pc)
  PROVE  proc[p].pc \in J \/ Behind(Steps(p), J, proc[p].pc)
<1> DEFINE st == Steps(p)
           n == Len(Steps(p))
           i == proc[p].pc
<1>1. /\ i \in 1..n /\ n \in Nat /\ Indices(st) = 1..n
      /\ \A k \in 1..n : st[k].op = "maybe" => st[k].skip \in Nat
      /\ proc'[p].pc = i + 1 \/ (st[i].op = "maybe" /\ proc'[p].pc = Landing(st, i))
  BY AtStep, HoldoutAt DEF Proceeds, Advances, At, Indices
<1>2. PICK j \in J : Sure(st, j, proc'[p].pc)
  BY DEF Behind
<1>3. j = i \/ Sure(st, j, i)
  BY <1>1, <1>2, SureStep
<1> QED
  BY <1>2, <1>3 DEF Behind

\* A given file other than Test enters the evidence, and the list of what was
\* used, where the script says so.
LEMMA GivenLearnt ==
  ASSUME Shape, NEW p \in Processes, proc[p].status = "running", Proceeds(p),
         NEW f, f # Test, f[1] # "registry"
  PROVE  /\ proc[p].pc \notin Learning(Steps(p), f) =>
               /\ f \in DOMAIN proc'[p].evidence <=> f \in DOMAIN proc[p].evidence
               /\ f \in DOMAIN proc[p].evidence => proc'[p].evidence[f] = proc[p].evidence[f]
         /\ proc[p].pc \in Learning(Steps(p), f) =>
               f \in DOMAIN proc'[p].evidence /\ proc'[p].evidence[f] = Digest(At(p), f)
         /\ proc[p].pc \notin Reading(Steps(p), f) =>
               /\ f \in DOMAIN proc'[p].used <=> f \in DOMAIN proc[p].used
               /\ f \in DOMAIN proc[p].used => proc'[p].used[f] = proc[p].used[f]
         /\ proc[p].pc \in Reading(Steps(p), f) =>
               f \in DOMAIN proc'[p].used /\ proc'[p].used[f] = disk[f].v
<1> DEFINE s == At(p)
<1>0. proc[p].pc \in Indices(Steps(p)) /\ s = Steps(p)[proc[p].pc]
  BY AtStep DEF At, Indices
<1>1. Receipt(p)[1] = "registry"
  BY DEF Receipt
<1>2. f \in LearntFiles(p, s) <=> f \in Learnt(s)
  BY <1>1 DEF LearntFiles, Learnt, Lists, PublishOps
<1>3. f \in UsedFiles(s) <=> f \in UsedIn(s)
  BY DEF UsedFiles, UsedIn, UseOps
<1>4. /\ proc[p].pc \in Learning(Steps(p), f) <=> f \in Learnt(s)
      /\ proc[p].pc \in Reading(Steps(p), f) <=> f \in UsedIn(s)
  BY <1>0 DEF Learning, Reading
<1>5. Learns(p) /\ Uses(p)
  BY DEF Proceeds
<1> QED
  BY <1>2, <1>3, <1>4, <1>5 DEF Learns, Uses

\* Time passes for one who stands still.
LEMMA BracketStays ==
  ASSUME ServiceInv, Ages, world' = world, NEW p \in Processes, Executes(p, "test"),
         proc'[p].pc = proc[p].pc, proc'[p].evidence = proc[p].evidence, proc'[p].used = proc[p].used
  PROVE  Bracket(p)'
<1>0. Bracket(p) /\ Steps(p)' = Steps(p)
  BY DEF ServiceInv, Brackets, Steps
<1>1. /\ disk[candidate_lock].v \in Nat /\ disk'[candidate_lock].v \in Nat
      /\ disk[locked].v \in Nat /\ disk'[locked].v \in Nat
      /\ disk[candidate_lock].v <= disk'[candidate_lock].v /\ disk[locked].v <= disk'[locked].v
  BY Names DEF ServiceInv, Originals, Present, Ages
<1>2. KnowsLock(p) => KnowsLock(p)'
  BY <1>1 DEF KnowsLock
<1>3. KnowsModel(p) => KnowsModel(p)'
  BY <1>1 DEF KnowsModel
<1>4. HasChecked(p) => HasChecked(p)'
  BY <1>1 DEF HasChecked
<1>5. HasRead(p) => HasRead(p)'
  BY <1>1 DEF HasRead
<1>6. HasVerified(p) => HasVerified(p)'
  BY DEF HasVerified
<1> QED
  BY <1>0, <1>2, <1>3, <1>4, <1>5, <1>6 DEF Bracket

\* The rule of the test, for a process that runs it.
LEMMA TestSteps ==
  ASSUME NEW p, Executes(p, "test")
  PROVE  LET st == Steps(p)
             n == Len(st)
         IN  /\ n > 1 /\ st[n].op = "publish" /\ st[n].files = {approval}
             /\ candidate_lock \notin st[n].inventory
             /\ \A i \in Indices(st) : WritesAt(st, i, approval) => i = n
             /\ st[n - 1].op = "verify_all" /\ Sure(st, n - 1, n + 1)
             /\ \A J \in {Locking(st), Checking(st), Reading(st, locked)} : Behind(st, J, n - 1)
             /\ \A i \in Learning(st, candidate_lock) : st[i].op = "hash"
             /\ \A i \in Locking(st) :
                    /\ Behind(st, Learning(st, candidate_lock), i)
                    /\ \A j \in Learning(st, candidate_lock) : j < i
                    /\ \A j \in Learning(st, locked) : j <= i
             /\ \A i \in Checking(st) :
                    /\ Behind(st, Locking(st), i)
                    /\ \A j \in Learning(st, locked) : j < i
             /\ \A i \in Reading(st, locked) : Behind(st, Checking(st), i)
<1>1. Steps(p) = Scripts["test"]
  BY DEF Steps, Executes
<1> QED
  BY <1>1, TestRule

\* Behind the lock no digest is taken of it any more; and so on.
LEMMA NoMore ==
  ASSUME Shape, NEW p \in Processes, Executes(p, "test"), NEW i \in Indices(Steps(p))
  PROVE  LET st == Steps(p)
         IN  /\ i \in Locking(st) => i \notin Learning(st, candidate_lock)
             /\ Behind(st, Locking(st), i) =>
                    i \notin Learning(st, candidate_lock) /\ i \notin Learning(st, locked)
             /\ i \in Checking(st) \/ Behind(st, Checking(st), i) => i \notin Learning(st, locked)
             /\ i \in Reading(st, locked) \/ Behind(st, Reading(st, locked), i) =>
                    i \notin Learning(st, locked)
<1> DEFINE st == Steps(p)
<1>0. Indices(st) \subseteq Nat
  BY Scripted
<1>1. \A J : Behind(st, J, i) => \E j \in J : j < i
  BY DEF Behind, Sure
<1>2. /\ \A j \in Locking(st) : \A k \in Learning(st, candidate_lock) : k < j
      /\ \A j \in Locking(st) : \A k \in Learning(st, locked) : k <= j
      /\ \A j \in Checking(st) : \A k \in Learning(st, locked) : k < j
  BY TestSteps
<1>3. /\ Locking(st) \subseteq Nat /\ Checking(st) \subseteq Nat /\ Reading(st, locked) \subseteq Nat
      /\ i \in Nat
  BY <1>0 DEF Locking, Checking, Reading
<1>4. \A j \in Reading(st, locked) : \E k \in Checking(st) : k < j
  BY TestSteps DEF Behind, Sure
<1> HIDE DEF st
<1>5. i \in Locking(st) => i \notin Learning(st, candidate_lock)
  BY <1>2, <1>3
<1>6. Behind(st, Locking(st), i) => i \notin Learning(st, candidate_lock) /\ i \notin Learning(st, locked)
  BY <1>1, <1>2, <1>3
<1>7. i \in Checking(st) \/ Behind(st, Checking(st), i) => i \notin Learning(st, locked)
  BY <1>1, <1>2, <1>3
<1>8. ASSUME NEW j \in Reading(st, locked), j <= i PROVE i \notin Learning(st, locked)
  <2>1. PICK k \in Checking(st) : k < j
    BY <1>4
  <2> QED
    BY <1>2, <1>3, <1>8, <2>1
<1>9. i \in Reading(st, locked) \/ Behind(st, Reading(st, locked), i) => i \notin Learning(st, locked)
  BY <1>1, <1>3, <1>8
<1> QED
  BY <1>5, <1>6, <1>7, <1>9 DEF st

\* At the end it has just verified everything, or just published.
LEMMA LastSteps ==
  ASSUME Shape, NEW p \in Processes, Executes(p, "test"), proc[p].status = "running", Proceeds(p),
         proc'[p].pc >= Len(Steps(p))
  PROVE  proc[p].pc \in {Len(Steps(p)) - 1, Len(Steps(p))}
<1> DEFINE st == Steps(p)
           n == Len(Steps(p))
           i == proc[p].pc
           j == proc'[p].pc
<1>1. /\ i \in 1..n /\ n \in Nat
      /\ \A k \in 1..n : st[k].op = "maybe" => st[k].skip \in Nat
      /\ j = i + 1 \/ (st[i].op = "maybe" /\ j = Landing(st, i))
      /\ st[i].op = "maybe" => st[i].skip \in Nat /\ i + st[i].skip <= n
  BY AtStep, HoldoutAt DEF Proceeds, Advances, At
<1>2. Sure(st, n - 1, n + 1) /\ n > 1 /\ j >= n
  BY TestSteps
<1> HIDE DEF st, n, i, j
<1>3. j \in {n, n + 1}
  BY <1>1, <1>2 DEF Landing
<1>4. Sure(st, n - 1, j)
  <2>1. \A k \in 1..(n - 1) : st[k].op = "maybe" => Landing(st, k) \in Nat
    BY <1>1 DEF Landing
  <2> QED
    BY <1>1, <1>2, <1>3, <2>1 DEF Sure
<1>5. n - 1 \in 1..n
  BY <1>1, <1>2
<1>6. n - 1 = i \/ Sure(st, n - 1, i)
  BY <1>1, <1>4, <1>5, SureStep
<1>7. i \in {n - 1, n}
  BY <1>1, <1>6 DEF Sure
<1> QED
  BY <1>7 DEF i, n

LEMMA BracketGoesOn ==
  ASSUME ServiceInv, Ages, NEW p \in Processes, Executes(p, "test"),
         proc[p].status = "running", Proceeds(p)
  PROVE  Bracket(p)'
<1> DEFINE st == Steps(p)
           n == Len(Steps(p))
           i == proc[p].pc
           s == At(p)
           lock == candidate_lock
<1>0. /\ Shape /\ Bracket(p) /\ Steps(p)' = st /\ i \in Indices(st) /\ s = st[i]
      /\ i \in 1..n /\ n \in Nat /\ Succeeds(p, s)
  BY AtStep DEF ServiceInv, AuthorInv, Brackets, Steps, Proceeds, Others, At, Indices
<1>1. /\ disk[lock].v \in Nat /\ disk'[lock].v \in Nat /\ disk[locked].v \in Nat /\ disk'[locked].v \in Nat
      /\ disk[lock].v <= disk'[lock].v /\ disk[locked].v <= disk'[locked].v
      /\ disk[lock].by = "given"
  BY Names DEF ServiceInv, Originals, Present, Ages
<1>2. /\ i \notin Learning(st, lock) =>
            /\ lock \in DOMAIN proc'[p].evidence <=> lock \in DOMAIN proc[p].evidence
            /\ lock \in DOMAIN proc[p].evidence => proc'[p].evidence[lock] = proc[p].evidence[lock]
      /\ i \in Learning(st, lock) =>
            lock \in DOMAIN proc'[p].evidence /\ proc'[p].evidence[lock] = Digest(s, lock)
  BY <1>0, GivenLearnt, Names
<1>3. /\ i \notin Learning(st, locked) =>
            /\ locked \in DOMAIN proc'[p].evidence <=> locked \in DOMAIN proc[p].evidence
            /\ locked \in DOMAIN proc[p].evidence => proc'[p].evidence[locked] = proc[p].evidence[locked]
      /\ i \in Learning(st, locked) =>
            locked \in DOMAIN proc'[p].evidence /\ proc'[p].evidence[locked] = Digest(s, locked)
      /\ i \notin Reading(st, locked) =>
            /\ locked \in DOMAIN proc'[p].used <=> locked \in DOMAIN proc[p].used
            /\ locked \in DOMAIN proc[p].used => proc'[p].used[locked] = proc[p].used[locked]
      /\ i \in Reading(st, locked) =>
            locked \in DOMAIN proc'[p].used /\ proc'[p].used[locked] = disk[locked].v
  BY <1>0, GivenLearnt, Names
<1>4. /\ i \in Locking(st) => i \notin Learning(st, lock)
      /\ Behind(st, Locking(st), i) => i \notin Learning(st, lock) /\ i \notin Learning(st, locked)
      /\ i \in Checking(st) \/ Behind(st, Checking(st), i) => i \notin Learning(st, locked)
      /\ i \in Reading(st, locked) \/ Behind(st, Reading(st, locked), i) => i \notin Learning(st, locked)
  BY <1>0, NoMore
<1>5. /\ Learning(st, lock) \in SUBSET Indices(st) /\ Locking(st) \in SUBSET Indices(st)
      /\ Checking(st) \in SUBSET Indices(st) /\ Reading(st, locked) \in SUBSET Indices(st)
  BY DEF Learning, Locking, Checking, Reading
<1>6. \A J \in SUBSET Indices(st) : Behind(st, J, proc'[p].pc) => i \in J \/ Behind(st, J, i)
  BY <1>0, BehindStep
<1>7. /\ Behind(st, Learning(st, lock), i) => KnowsLock(p)
      /\ Behind(st, Locking(st), i) => KnowsModel(p)
      /\ Behind(st, Checking(st), i) => HasChecked(p)
      /\ Behind(st, Reading(st, locked), i) => HasRead(p)
      /\ i >= n => HasVerified(p)
  BY <1>0 DEF Bracket
<1>8. /\ i \in Learning(st, lock) => st[i].op = "hash"
      /\ i \in Locking(st) => Behind(st, Learning(st, lock), i)
      /\ i \in Reading(st, locked) => Behind(st, Checking(st), i)
      /\ \A J \in {Locking(st), Checking(st), Reading(st, locked)} : Behind(st, J, n - 1)
      /\ st[n].op = "publish" /\ st[n - 1].op = "verify_all"
  BY TestSteps
<1> HIDE DEF st, n, i, s, lock
<1>a. Behind(st, Learning(st, lock), proc'[p].pc) => KnowsLock(p)'
  <2>1. CASE i \in Learning(st, lock)
    <3>1. Digest(s, lock) = disk[lock].v
      BY <1>0, <1>8, <2>1 DEF Digest
    <3> QED
      BY <1>1, <1>2, <2>1, <3>1 DEF KnowsLock, lock
  <2>2. CASE i \notin Learning(st, lock) /\ Behind(st, Learning(st, lock), i)
    BY <1>1, <1>2, <1>7, <2>2 DEF KnowsLock, lock
  <2> QED
    BY <1>5, <1>6, <2>1, <2>2
<1>b. Behind(st, Locking(st), proc'[p].pc) => KnowsModel(p)'
  <2>1. CASE i \in Locking(st)
    <3>1. s.op = "claim" /\ s.from = lock /\ locked \in s.files
      BY <1>0, <2>1 DEF Locking, lock
    <3>2. i \in Learning(st, locked)
      BY <1>0, <3>1 DEF Learning, Learnt, Lists, PublishOps
    <3>3. Digest(s, locked) = disk[lock].v
      BY <1>1, <3>1 DEF Digest, ClaimOf
    <3> QED
      BY <1>1, <1>2, <1>3, <1>4, <1>7, <1>8, <2>1, <3>2, <3>3 DEF KnowsLock, KnowsModel, lock
  <2>2. CASE Behind(st, Locking(st), i)
    BY <1>1, <1>2, <1>3, <1>4, <1>7, <2>2 DEF KnowsModel, lock
  <2> QED
    BY <1>5, <1>6, <2>1, <2>2
<1>c. Behind(st, Checking(st), proc'[p].pc) => HasChecked(p)'
  <2>1. CASE i \in Checking(st)
    <3>1. s.op = "verify" /\ locked \in s.files
      BY <1>0, <2>1 DEF Checking
    <3>2. Match(p, s.files)
      BY <1>0, <3>1 DEF Succeeds
    <3>3. locked \in DOMAIN proc[p].evidence /\ disk[locked].v = proc[p].evidence[locked]
      BY <3>1, <3>2 DEF Match
    <3> QED
      BY <1>1, <1>3, <1>4, <2>1, <3>3 DEF HasChecked
  <2>2. CASE Behind(st, Checking(st), i)
    BY <1>1, <1>3, <1>4, <1>7, <2>2 DEF HasChecked
  <2> QED
    BY <1>5, <1>6, <2>1, <2>2
<1>d. Behind(st, Reading(st, locked), proc'[p].pc) => HasRead(p)'
  <2>1. CASE i \in Reading(st, locked)
    BY <1>1, <1>3, <1>4, <1>7, <1>8, <2>1 DEF HasChecked, HasRead
  <2>2. CASE i \notin Reading(st, locked) /\ Behind(st, Reading(st, locked), i)
    BY <1>1, <1>3, <1>4, <1>7, <2>2 DEF HasRead
  <2> QED
    BY <1>5, <1>6, <2>1, <2>2
<1>e. proc'[p].pc >= n => HasVerified(p)'
  <2> SUFFICES ASSUME proc'[p].pc >= n PROVE HasVerified(p)'
    OBVIOUS
  <2>1. i \in {n - 1, n}
    BY <1>0, LastSteps DEF i, n, st
  <2>2. s.op \in {"publish", "verify_all"}
    BY <1>0, <1>8, <2>1
  <2>3. Learnt(s) = {} /\ UsedIn(s) = {}
    BY <2>2 DEF Learnt, Lists, UsedIn, UseOps, PublishOps, ClaimOps
  <2>4. i \notin Learning(st, lock) /\ i \notin Learning(st, locked) /\ i \notin Reading(st, locked)
    BY <1>0, <2>3 DEF Learning, Reading
  <2>5. CASE i = n
    <3>1. HasVerified(p)
      BY <1>0, <1>7, <2>5
    <3> QED
      BY <1>2, <1>3, <2>4, <3>1 DEF HasVerified, lock
  <2>6. CASE i = n - 1
    <3>1. KnowsModel(p) /\ HasChecked(p) /\ HasRead(p)
      BY <1>7, <1>8, <2>6
    <3>2. Match(p, Evidence(p))
      BY <1>0, <1>8, <2>6 DEF Succeeds
    <3>3. disk[lock].v = proc[p].evidence[lock] /\ disk[locked].v = proc[p].evidence[locked]
      BY <3>1, <3>2 DEF Match, Evidence, KnowsModel, lock
    <3>4. HasVerified(p)
      BY <1>1, <3>1, <3>3 DEF KnowsModel, HasRead, HasVerified, lock
    <3> QED
      BY <1>2, <1>3, <2>4, <3>4 DEF HasVerified, lock
  <2> QED
    BY <2>1, <2>5, <2>6
<1> QED
  BY <1>0, <1>a, <1>b, <1>c, <1>d, <1>e DEF Bracket, st, n, lock

-----------------------------------------------------------------------------
(* The approval, and the service that goes by it *)

\* Whoever wrote the approval is done, and nothing it knew is forgotten.
LEMMA ApprovalsStay ==
  ASSUME Approvals, world' = world, approval \in DOMAIN disk, disk'[approval].by = disk[approval].by,
         disk'[approval].v = 0 => disk'[approval] = disk[approval],
         \A q \in Processes : proc[q].status = "complete" => proc'[q] = proc[q]
  PROVE  Approvals'
BY DEF Approvals, Executes, Processes

LEMMA ApprovalsStep ==
  ASSUME ServiceInv, NEW p \in Processes, proc[p].status = "running", Proceeds(p)
  PROVE  Approvals'
<1> DEFINE F == WrittenFiles(p, At(p))
           n == Len(Steps(p))
<1>0. Shape /\ Approvals /\ Touches(p, F) /\ Originals
  BY ProceedsTouches DEF ServiceInv, AuthorInv
<1>1. world' = world /\ \A q \in Processes \ {p} : proc'[q] = proc[q]
  BY DEF Proceeds, Others
<1>2. CASE approval \in DOMAIN disk
  <2>1. disk'[approval] = disk[approval]
    BY <1>0, <1>2, ApprovalStays
  <2> QED
    BY <1>0, <1>1, <1>2, <2>1, ApprovalsStay
<1>3. CASE approval \notin DOMAIN disk
  <2> SUFFICES ASSUME NEW q \in Processes, Executes(q, "test"), approval \in DOMAIN disk',
                      disk'[approval].by = q
               PROVE  /\ proc'[q].status = "complete"
                      /\ candidate_lock \in DOMAIN disk'[approval].claims
                      /\ disk'[approval].claims[candidate_lock] = proc'[q].evidence[candidate_lock]
    BY <1>1 DEF Approvals, Executes, Processes
  <2>1. approval \in F /\ q = p
    BY <1>0, <1>3 DEF Touches, Writes
  <2>2. PICK i \in Indices(Steps(p)) :
            /\ WritesAt(Steps(p), i, approval)
            /\ Steps(p)[i].op # "try" => i = proc[p].pc
    BY <1>0, <2>1, Names DEF Touches
  <2>3. i = n /\ Steps(p)[n].op = "publish" /\ Steps(p)[n].files = {approval}
        /\ candidate_lock \notin Steps(p)[n].inventory
    BY <2>1, <2>2, TestSteps
  <2>4. /\ proc[p].pc = n /\ At(p).op = "publish" /\ At(p).files = {approval}
        /\ candidate_lock \notin At(p).inventory /\ n \in Nat /\ proc[p].len = n
        /\ proc[p].pc \in Indices(Steps(p))
    BY <1>0, <2>2, <2>3, AtStep DEF At, Shape, ProcShape, Indices
  <2>5. proc'[p].status = "complete"
    BY <2>4 DEF Proceeds, Advances
  <2>6. candidate_lock \in DOMAIN proc[p].evidence
    BY <2>1, <2>4 DEF ServiceInv, Brackets, Bracket, HasVerified
  <2>7. proc[p].pc \notin Learning(Steps(p), candidate_lock)
    BY <2>4 DEF Learning, Learnt, PublishOps, At
  <2>8. proc'[p].evidence[candidate_lock] = proc[p].evidence[candidate_lock]
    BY <1>0, <2>6, <2>7, GivenLearnt, Names
  <2>9. /\ candidate_lock \in DOMAIN disk'[approval].claims
        /\ disk'[approval].claims[candidate_lock] = proc[p].evidence[candidate_lock]
    BY <2>4, <2>6 DEF Proceeds, Tells, Evidence
  <2> QED
    BY <2>1, <2>5, <2>8, <2>9
<1> QED
  BY <1>2, <1>3

\* What the service found out stays true while others step.
LEMMA ServiceStays ==
  ASSUME ServiceInv, Ages, world' = world, NEW p \in Processes, Executes(p, "serve"),
         approval \in DOMAIN disk => disk'[approval].by = disk[approval].by,
         \A q \in Processes : proc[q].status = "complete" => proc'[q] = proc[q],
         proc'[p].pc = proc[p].pc, proc'[p].evidence = proc[p].evidence, proc'[p].used = proc[p].used
  PROVE  Service(p)'
<1>0. Service(p) /\ Approvals
  BY DEF ServiceInv, Services
<1>1. \A f \in DOMAIN disk : f \in DOMAIN disk'
  BY DEF Ages
<1>2. \A q \in Processes : approval \in DOMAIN disk /\ Executes(q, "test") /\ disk[approval].by = q =>
          proc'[q] = proc[q]
  BY <1>0 DEF Approvals
<1>3. Processes' = Processes /\ \A q : Executes(q, "test")' = Executes(q, "test")
  BY DEF Processes, Executes
<1> QED
  BY <1>0, <1>1, <1>2, <1>3 DEF Service

LEMMA ServeSteps ==
  ASSUME NEW p, Executes(p, "serve")
  PROVE  LET st == Steps(p)
         IN  /\ Len(st) > 3
             /\ st[1].op = "pinned" /\ st[1].from = approval /\ {candidate_lock, model} \subseteq st[1].files
             /\ st[2].op = "verified" /\ {model, verdict} \subseteq st[2].files
             /\ st[3].op = "agrees" /\ st[3].from = candidate_lock /\ st[3].file = model
             /\ \A i \in Indices(st) :
                    /\ st[i].op # "maybe"
                    /\ Learnt(st[i]) # {} => i = 1
                    /\ model \in UsedIn(st[i]) => i = 2
<1>1. Steps(p) = Scripts["serve"]
  BY DEF Steps, Executes
<1> QED
  BY <1>1, ServeRule

LEMMA ServiceGoesOn ==
  ASSUME ServiceInv, Ages, NEW p \in Processes, Executes(p, "serve"),
         proc[p].status = "running", Proceeds(p),
         approval \in DOMAIN disk => disk'[approval].by = disk[approval].by
  PROVE  Service(p)'
<1> DEFINE st == Steps(p)
           i == proc[p].pc
           s == At(p)
           old == proc[p].evidence
           new == proc'[p].evidence
           lock == candidate_lock
<1>0. /\ Shape /\ Service(p) /\ Approvals /\ Originals /\ i \in Indices(st) /\ s = st[i]
      /\ i \in Nat /\ i >= 1 /\ Succeeds(p, s) /\ world' = world
  BY AtStep DEF ServiceInv, AuthorInv, Services, Proceeds, Others, At, Indices
<1>1. /\ st[1].op = "pinned" /\ st[1].from = approval /\ {lock, model} \subseteq st[1].files
      /\ st[2].op = "verified" /\ {model, verdict} \subseteq st[2].files
      /\ st[3].op = "agrees" /\ st[3].from = lock /\ st[3].file = model
      /\ s.op # "maybe" /\ (Learnt(s) # {} => i = 1) /\ (model \in UsedIn(s) => i = 2)
  BY <1>0, ServeSteps
<1>2. proc'[p].pc = i + 1
  BY <1>1 DEF Proceeds, Advances
<1>3. \A f \in {lock, model} :
          /\ i \notin Learning(st, f) =>
               (f \in DOMAIN new <=> f \in DOMAIN old) /\ (f \in DOMAIN old => new[f] = old[f])
          /\ i \in Learning(st, f) => f \in DOMAIN new /\ new[f] = Digest(s, f)
  <2>1. \A f \in {lock, model} : f # Test /\ f[1] # "registry"
    BY Names DEF Test, In
  <2> QED
    BY <1>0, <2>1, GivenLearnt
<1>4. /\ i \notin Reading(st, model) =>
            /\ model \in DOMAIN proc'[p].used <=> model \in DOMAIN proc[p].used
            /\ model \in DOMAIN proc[p].used => proc'[p].used[model] = proc[p].used[model]
      /\ i \in Reading(st, model) =>
            model \in DOMAIN proc'[p].used /\ proc'[p].used[model] = disk[model].v
  <2>1. model # Test /\ model[1] # "registry"
    BY Names DEF Test, In
  <2> QED
    BY <1>0, <2>1, GivenLearnt
<1>5. /\ Processes' = Processes /\ \A q : Executes(q, "test")' = Executes(q, "test")
      /\ \A q \in Processes : Executes(q, "test") => proc'[q] = proc[q]
      /\ \A f \in DOMAIN disk : f \in DOMAIN disk'
  BY <1>0 DEF Processes, Executes, Proceeds, Others, Ages
<1>6. /\ i > 1 =>
            /\ approval \in DOMAIN disk /\ {lock, model} \subseteq DOMAIN old
            /\ \A q \in Processes : Executes(q, "test") /\ disk[approval].by = q =>
                   old[lock] = proc[q].evidence[lock]
      /\ i > 2 => verdict \in DOMAIN disk /\ model \in DOMAIN proc[p].used /\ proc[p].used[model] = old[model]
      /\ i > 3 => old[model] = old[lock]
  BY <1>0 DEF Service
<1> HIDE DEF st, i, s, old, new, lock
<1>7. i > 1 => /\ {lock, model} \subseteq DOMAIN new /\ new[lock] = old[lock] /\ new[model] = old[model]
  BY <1>0, <1>1, <1>3, <1>6 DEF Learning
<1>8. /\ approval \in DOMAIN disk' /\ {lock, model} \subseteq DOMAIN new
      /\ \A q \in Processes : Executes(q, "test") /\ disk'[approval].by = q =>
             new[lock] = proc'[q].evidence[lock]
  <2>1. CASE i > 1
    BY <1>5, <1>6, <1>7, <2>1
  <2>2. CASE i = 1
    <3>1. approval \in DOMAIN disk /\ disk[approval].v = 0
      BY <1>0, <1>1, <2>2 DEF Succeeds, Exists
    <3>2. i \in Learning(st, lock) /\ i \in Learning(st, model)
      BY <1>0, <1>1, <2>2 DEF Learning, Learnt, Lists, PublishOps
    <3>3. Digest(s, lock) = ClaimOf(approval, lock)
      BY <1>0, <1>1, <2>2, Names DEF Digest, lock
    <3>4. ASSUME NEW q \in Processes, Executes(q, "test"), disk[approval].by = q
          PROVE  ClaimOf(approval, lock) = proc[q].evidence[lock]
      <4>1. disk[approval].by # "given"
        BY <1>0, <3>4, WorldsAssumption DEF Shape, Processes
      <4>2. lock \in DOMAIN disk[approval].claims
            /\ disk[approval].claims[lock] = proc[q].evidence[lock]
        BY <1>0, <3>1, <3>4 DEF Approvals, lock
      <4> QED
        BY <4>1, <4>2 DEF ClaimOf
    <3> QED
      BY <1>3, <1>5, <3>1, <3>2, <3>3, <3>4
  <2> QED
    BY <1>0, <2>1, <2>2
<1>9. i > 1 => /\ verdict \in DOMAIN disk' /\ model \in DOMAIN proc'[p].used
               /\ proc'[p].used[model] = new[model]
  <2>1. CASE i > 2
    <3>1. i \notin Reading(st, model)
      BY <1>0, <1>1, <2>1 DEF Reading
    <3> QED
      BY <1>0, <1>4, <1>5, <1>6, <1>7, <2>1, <3>1
  <2>2. CASE i = 2
    <3>1. Match(p, s.files) /\ {model, verdict} \subseteq s.files
      BY <1>0, <1>1, <2>2 DEF Succeeds
    <3>2. verdict \in DOMAIN disk /\ disk[model].v = old[model]
      BY <3>1 DEF Match, Exists, old
    <3>3. i \in Reading(st, model)
      BY <1>0, <1>1, <2>2 DEF Reading, UsedIn, UseOps
    <3> QED
      BY <1>4, <1>5, <1>7, <2>2, <3>2, <3>3
  <2> QED
    BY <1>0, <2>1, <2>2
<1>10. i > 2 => new[model] = new[lock]
  <2>1. CASE i > 3
    BY <1>0, <1>6, <1>7, <2>1
  <2>2. CASE i = 3
    <3>1. Match(p, {lock}) /\ ClaimOf(lock, s.as) = old[model]
      BY <1>0, <1>1, <2>2 DEF Succeeds, old
    <3>2. lock \in DOMAIN disk /\ disk[lock].v = old[lock]
      BY <3>1 DEF Match, Exists, old
    <3>3. disk[lock].by = "given"
      BY <1>0, <3>2, Names DEF Originals, lock
    <3> QED
      BY <1>7, <2>2, <3>1, <3>2, <3>3 DEF ClaimOf
  <2> QED
    BY <1>0, <2>1, <2>2
<1> QED
  BY <1>0, <1>2, <1>5, <1>8, <1>9, <1>10 DEF Service, i, new, lock

\* The process that goes on ends with its last step.
LEMMA EndedGoesOn ==
  ASSUME Shape, NEW p \in Processes, Proceeds(p), proc'[p].status = "complete"
  PROVE  proc'[p].pc = Len(Steps(p)) + 1
BY DEF Shape, ProcShape, Proceeds, Advances

LEMMA ServiceStep ==
  ASSUME ServiceInv, [Next]_vars
  PROVE  ServiceInv'
<1>0. Shape /\ AuthorInv /\ AuthorInv' /\ Handlers /\ Ended /\ Approvals
  BY AuthorStep DEF ServiceInv, AuthorInv
<1>a. ASSUME world' = world, Ages, Authors', Originals', Present', Approvals',
             \A q \in Processes : /\ proc'[q].status = "complete" => proc'[q].pc = Len(Steps(q)) + 1
                                  /\ Executes(q, "test") => Bracket(q)'
                                  /\ Executes(q, "serve") => Service(q)'
      PROVE  ServiceInv'
  <2>1. Processes' = Processes /\ \A q : Steps(q)' = Steps(q) /\ \A name : Executes(q, name)' = Executes(q, name)
    BY <1>a DEF Processes, Steps, Executes
  <2>2. Ended' /\ Brackets' /\ Services'
    BY <1>a, <2>1 DEF Ended, Brackets, Services
  <2> QED
    BY <1>0, <1>a, <2>2 DEF ServiceInv
<1>1. ASSUME NEW F \in SUBSET DOMAIN disk, Replaces(F)
      PROVE  ServiceInv'
  <2>1. Ages /\ Authors' /\ Originals' /\ Present' /\ world' = world /\ proc' = proc
    BY <1>1, DiskReplaced DEF Replaces
  <2>2. /\ DOMAIN disk' = DOMAIN disk
        /\ approval \in DOMAIN disk => /\ disk'[approval].by = disk[approval].by
                                       /\ disk'[approval].v = 0 => disk'[approval] = disk[approval]
    BY <1>1 DEF Replaces
  <2>3. Approvals'
    <3>1. CASE approval \in DOMAIN disk
      BY <1>0, <2>1, <2>2, <3>1, ApprovalsStay
    <3>2. CASE approval \notin DOMAIN disk
      BY <2>2, <3>2 DEF Approvals
    <3> QED
      BY <3>1, <3>2
  <2> QED
    BY <1>0, <1>a, <2>1, <2>2, <2>3, BracketStays, ServiceStays DEF Ended
<1>2. CASE UNCHANGED vars
  <2>1. Replaces({})
    BY <1>0, <1>2 DEF vars, Replaces, Shape
  <2> QED
    BY <1>1, <2>1
<1>3. ASSUME NEW p \in Processes, proc[p].status = "running", GivesUp(p)
      PROVE  ServiceInv'
  <2> DEFINE F == proc[p].handler
  <2>0. Touches(p, F)
    BY <1>0, <1>3, GivesUpTouches
  <2>1. Ages /\ Authors' /\ Originals' /\ Present' /\ world' = world
    BY <2>0, DiskTouched DEF Touches
  <2>2. approval \notin F
    BY <1>0, HandlersSpare
  <2> HIDE DEF F
  <2>3. /\ approval \in DOMAIN disk' <=> approval \in DOMAIN disk
        /\ approval \in DOMAIN disk => disk'[approval] = disk[approval]
    BY <2>0, <2>2 DEF Touches, Writes
  <2>4. /\ \A q \in Processes : proc[q].status = "complete" => proc'[q] = proc[q]
        /\ \A q \in Processes : /\ proc'[q].pc = proc[q].pc /\ proc'[q].evidence = proc[q].evidence
                                /\ proc'[q].used = proc[q].used
                                /\ proc'[q].status = "complete" => proc[q].status = "complete"
    BY <1>3 DEF GivesUp, Others
  <2>5. Approvals'
    <3>1. CASE approval \in DOMAIN disk
      BY <1>0, <2>1, <2>3, <2>4, <3>1, ApprovalsStay
    <3>2. CASE approval \notin DOMAIN disk
      BY <2>3, <3>2 DEF Approvals
    <3> QED
      BY <3>1, <3>2
  <2> QED
    BY <1>0, <1>a, <2>1, <2>3, <2>4, <2>5, BracketStays, ServiceStays DEF Ended
<1>4. ASSUME NEW p \in Processes, proc[p].status = "running", Proceeds(p)
      PROVE  ServiceInv'
  <2> DEFINE F == WrittenFiles(p, At(p))
  <2>0. Touches(p, F)
    BY <1>0, <1>4, ProceedsTouches
  <2> HIDE DEF F
  <2>1. Ages /\ Authors' /\ Originals' /\ Present' /\ world' = world
    BY <2>0, DiskTouched DEF Touches
  <2>2. approval \in DOMAIN disk => disk'[approval] = disk[approval]
    BY <1>0, <2>0, ApprovalStays
  <2>3. /\ \A q \in Processes \ {p} : proc'[q] = proc[q]
        /\ \A q \in Processes : proc[q].status = "complete" => proc'[q] = proc[q]
    BY <1>4 DEF Proceeds, Others
  <2>4. Approvals'
    BY <1>4, ApprovalsStep
  <2>5. \A q \in Processes \ {p} : /\ Executes(q, "test") => Bracket(q)'
                                   /\ Executes(q, "serve") => Service(q)'
    BY <2>1, <2>2, <2>3, BracketStays, ServiceStays
  <2>6. (Executes(p, "test") => Bracket(p)') /\ (Executes(p, "serve") => Service(p)')
    BY <1>4, <2>1, <2>2, BracketGoesOn, ServiceGoesOn
  <2>7. \A q \in Processes : proc'[q].status = "complete" => proc'[q].pc = Len(Steps(q)) + 1
    BY <1>0, <1>4, <2>3, EndedGoesOn DEF Ended
  <2> QED
    BY <1>a, <2>1, <2>4, <2>5, <2>6, <2>7
<1> QED
  BY <1>0, <1>1, <1>2, <1>3, <1>4, NextStep

LEMMA ServiceInit == Init => ServiceInv
<1> SUFFICES ASSUME Init PROVE ServiceInv
  OBVIOUS
<1>1. AuthorInv /\ Shape
  BY AuthorInit DEF AuthorInv
<1>2. \A p \in Processes : proc[p].pc = 1 /\ proc[p].status = "running"
  BY DEF Init
<1>3. \A f \in DOMAIN disk : f[1] = "in" /\ disk[f].by = "given" /\ disk[f].v = 0
  BY DEF Init, Given, Test, In, Content
<1>4. Authors /\ Originals
  BY <1>3 DEF Authors, Originals, Own
<1>5. Present
  <2> SUFFICES ASSUME NEW p \in Processes, Executes(p, "test"), NEW f \in {candidate_lock, locked}
               PROVE  f \in DOMAIN disk
    BY DEF Present
  <2>1. f \in Files(Scripts[world.jobs[p].script]) /\ f[1] = "in"
    BY TestRule, Names DEF Executes
  <2>2. f \in UNION {Files(Scripts[world.jobs[q].script]) : q \in DOMAIN world.jobs}
    BY <2>1 DEF Processes
  <2>3. f \in Given(world)
    BY <2>1, <2>2 DEF Given
  <2> QED
    BY <2>3 DEF Init
<1>6. Ended
  BY <1>2 DEF Ended
<1>7. Brackets
  <2> SUFFICES ASSUME NEW p \in Processes, Executes(p, "test") PROVE Bracket(p)
    BY DEF Brackets
  <2>1. Len(Steps(p)) > 1 /\ Len(Steps(p)) \in Nat
    BY <1>1, TestSteps, Scripted
  <2>2. \A J \in SUBSET Indices(Steps(p)) : ~Behind(Steps(p), J, 1)
    BY DEF Behind, Sure, Indices
  <2>3. /\ Learning(Steps(p), candidate_lock) \in SUBSET Indices(Steps(p))
        /\ Locking(Steps(p)) \in SUBSET Indices(Steps(p))
        /\ Checking(Steps(p)) \in SUBSET Indices(Steps(p))
        /\ Reading(Steps(p), locked) \in SUBSET Indices(Steps(p))
    BY DEF Learning, Locking, Checking, Reading
  <2> QED
    BY <1>2, <2>1, <2>2, <2>3 DEF Bracket
<1>8. Approvals
  BY <1>3, Names DEF Approvals
<1>9. Services
  BY <1>2 DEF Services, Service
<1> QED
  BY <1>1, <1>4, <1>5, <1>6, <1>7, <1>8, <1>9 DEF ServiceInv

\* The author of a verdict runs the test, and so does then whoever wrote the
\* approval beside it.
LEMMA TestedBundle ==
  ASSUME ServiceInv, {approval, verdict} \subseteq DOMAIN disk
  PROVE  disk[approval].by \in Processes /\ Executes(disk[approval].by, "test")
<1> DEFINE q == disk[approval].by
           r == disk[verdict].by
<1>1. /\ q \in Processes /\ approval \in Output(Steps(q)) /\ r \in Processes /\ verdict \in Output(Steps(r))
      /\ Shape
  BY Names DEF ServiceInv, AuthorInv, Authors
<1> HIDE DEF q, r
<1>2. Executes(r, "test")
  BY <1>1, ApprovalRule, WorldsAssumption DEF Shape, Processes, Steps, Executes
<1>3. approval \in Output(Steps(r))
  <2>1. /\ Steps(r)[Len(Steps(r))].op = "publish" /\ Steps(r)[Len(Steps(r))].files = {approval}
        /\ Len(Steps(r)) > 1
    BY <1>2, TestSteps
  <2>2. Len(Steps(r)) \in Indices(Steps(r))
    BY <1>1, <2>1, Scripted
  <2>3. WritesAt(Steps(r), Len(Steps(r)), approval)
    BY <2>1 DEF WritesAt, WriteOps
  <2> QED
    BY <2>2, <2>3, WrittenIsOutput
<1>4. ~(Output(Steps(q)) \cap Output(Steps(r)) = {})
  BY <1>1, <1>3
<1>5. world.jobs[q].script = world.jobs[r].script
  BY <1>1, <1>4, PlacesAssumption DEF Shape, Processes, Steps
<1> QED
  BY <1>1, <1>2, <1>5 DEF Executes, q

\* A service that started, whatever ran beside it and whichever files were
\* replaced meanwhile, serves the model that a complete evaluation ran on the
\* Test data: the evaluation looks at the lock and at the model before and
\* after (run_operational_recovery_test.py), and the service at the approval, the
\* model and the lock (approved_bundle.py), and given files only get newer.
THEOREM ServedIsApprovedHolds == Spec => []ServedIsApproved
<1>1. ServiceInv => ServedIsApproved
  <2> SUFFICES ASSUME ServiceInv, NEW p \in Processes, Executes(p, "serve"), proc[p].status = "complete"
               PROVE  \E q \in Processes :
                          /\ disk[approval].by = q
                          /\ Executes(q, "test") /\ proc[q].status = "complete"
                          /\ proc[p].used[model] = proc[q].used[locked]
    BY DEF ServedIsApproved, Executes, approval, model
  <2> DEFINE q == disk[approval].by
  <2>1. proc[p].pc > 3
    <3>1. Len(Steps(p)) \in Nat /\ Len(Steps(p)) > 3 /\ proc[p].pc = Len(Steps(p)) + 1
      BY ServeSteps, Scripted DEF ServiceInv, AuthorInv, Ended
    <3> QED
      BY <3>1
  <2>2. proc[p].pc \in Nat /\ Service(p)
    BY DEF ServiceInv, AuthorInv, Services, Shape, ProcShape
  <2>3. /\ {approval, verdict} \subseteq DOMAIN disk
        /\ proc[p].used[model] = proc[p].evidence[candidate_lock]
        /\ \A r \in Processes : Executes(r, "test") /\ disk[approval].by = r =>
               proc[p].evidence[candidate_lock] = proc[r].evidence[candidate_lock]
    BY <2>1, <2>2 DEF Service
  <2>4. q \in Processes /\ Executes(q, "test")
    BY <2>3, TestedBundle
  <2>5. proc[q].status = "complete"
    BY <2>3, <2>4 DEF ServiceInv, Approvals
  <2>6. HasVerified(q)
    <3>1. Len(Steps(q)) \in Nat /\ proc[q].pc = Len(Steps(q)) + 1 /\ Bracket(q)
      BY <2>4, <2>5, Scripted DEF ServiceInv, AuthorInv, Ended, Brackets
    <3> QED
      BY <3>1 DEF Bracket
  <2> QED
    BY <2>3, <2>4, <2>5, <2>6 DEF HasVerified
<1> QED
  BY <1>1, ServiceInit, ServiceStep, PTL DEF Spec

-----------------------------------------------------------------------------
(* The campaign that a collecting script executes (CaptureCampaign), for   *)
(* any number of runners, runs, sessions and processes left behind.        *)

RunnerFields == {"pc", "index", "passed", "graceful", "results"}
ApiFields == {"state", "run", "quit"}
ServerFields == {"state", "quit", "pending", "sids", "qids"}

\* From the start of its API until its server has ended a runner has not told
\* the API to quit, and from then on its server does not come back.
Serving == {"waitApi", "startServer", "traffic", "waitRecords", "stopServer", "waitServer"}
Stopping == {"stopApi", "waitApiEnd", "write"}

RunnerShape(r) ==
    DOMAIN runner[r] = RunnerFields /\ DOMAIN api[r] = ApiFields /\ DOMAIN server[r] = ServerFields
RunnerOrder(r) ==
    /\ api[r].quit = TRUE => server[r].state \notin Alive
    /\ runner[r].pc \in Serving => api[r].quit = FALSE
    /\ runner[r].pc \in Stopping => server[r].state \notin Alive
    /\ api[r].quit \in BOOLEAN

QuitInv ==
    /\ DOMAIN runner = Runners /\ DOMAIN api = Runners /\ DOMAIN server = Runners
    /\ \A r \in Runners : RunnerShape(r) /\ RunnerOrder(r)
    /\ "quit" \notin refused

LEMMA StopSequence ==
  /\ StopOrder[1] = "stopServer"
  /\ After("stopServer") = "stopApi" /\ After("stopApi") = "write"
<1> DEFINE at(step) == CHOOSE i \in 1..3 : StopOrder[i] = step
<1>1. /\ StopOrder[1] = "stopServer" /\ StopOrder[2] = "stopApi"
      /\ StopOrder[3] = "write"
  BY DEF StopOrder
<1>2. at("stopServer") \in 1..3 /\ StopOrder[at("stopServer")] = "stopServer"
  BY <1>1
<1>3. at("stopApi") \in 1..3 /\ StopOrder[at("stopApi")] = "stopApi"
  BY <1>1
<1>4. After("stopServer") = StopOrder[1 + at("stopServer")]
      /\ After("stopApi") = StopOrder[1 + at("stopApi")]
  BY DEF After
<1> HIDE DEF at
<1>5. at("stopServer") = 1 /\ at("stopApi") = 2
  BY <1>1, <1>2, <1>3
<1> QED
  BY <1>1, <1>4, <1>5

\* The runner r goes from its place to another, its API and its server become
\* what they become, and no other runner notices.
LEMMA RunnerMoves ==
  ASSUME QuitInv, NEW r \in Runners, refused' = refused,
         DOMAIN runner' = Runners, DOMAIN api' = Runners, DOMAIN server' = Runners,
         \A q \in Runners \ {r} : runner'[q] = runner[q] /\ api'[q] = api[q] /\ server'[q] = server[q],
         RunnerShape(r)', RunnerOrder(r)'
  PROVE  QuitInv'
BY DEF QuitInv, RunnerShape, RunnerOrder

\* A process that ends, or starts where it was about to, changes nothing of this.
LEMMA ProcessMoves ==
  ASSUME QuitInv, NEW r \in Runners, runner' = runner, refused' = refused,
         DOMAIN api' = Runners, DOMAIN server' = Runners,
         \A q \in Runners \ {r} : api'[q] = api[q] /\ server'[q] = server[q],
         DOMAIN api'[r] = ApiFields, DOMAIN server'[r] = ServerFields,
         api'[r].quit = api[r].quit,
         server'[r].state \in Alive => server[r].state \in Alive
  PROVE  QuitInv'
<1>1. RunnerShape(r)'
  BY DEF QuitInv, RunnerShape
<1>2. RunnerOrder(r)'
  BY DEF QuitInv, RunnerOrder
<1> QED
  BY <1>1, <1>2, RunnerMoves DEF QuitInv

\* Steps of the runner that touch none of its processes.
LEMMA QuietRunner ==
  ASSUME QuitInv, NEW r \in Runners, NEW from, NEW to,
         runner[r].pc = from, DOMAIN runner' = Runners, DOMAIN runner'[r] = RunnerFields,
         \A q \in Runners \ {r} : runner'[q] = runner[q], runner'[r].pc = to,
         to \in Serving => from \in Serving, to \in Stopping => from \in Stopping,
         api' = api, server' = server, refused' = refused
  PROVE  QuitInv'
<1>1. RunnerShape(r)' /\ RunnerOrder(r)'
  BY DEF QuitInv, RunnerShape, RunnerOrder
<1> QED
  BY <1>1, RunnerMoves DEF QuitInv

LEMMA GotoMoves ==
  ASSUME QuitInv, NEW r \in Runners, NEW from, NEW to, Goto(r, from, to)
  PROVE  /\ runner[r].pc = from /\ DOMAIN runner' = Runners /\ DOMAIN runner'[r] = RunnerFields
         /\ \A q \in Runners \ {r} : runner'[q] = runner[q]
         /\ runner'[r].pc = to
         /\ runner'[r].index = runner[r].index /\ runner'[r].graceful = runner[r].graceful
<1>1. DOMAIN runner = Runners /\ DOMAIN runner[r] = RunnerFields
  BY DEF QuitInv, RunnerShape
<1>2. runner[r].pc = from /\ runner' = [runner EXCEPT ![r].pc = to]
  BY DEF Goto
<1> QED
  BY <1>1, <1>2 DEF RunnerFields

LEMMA WaitMoves ==
  ASSUME QuitInv, NEW r \in Runners, NEW from \in Serving, NEW to \in Serving, NEW k,
         wait_for_capture(r, from, to, k)
  PROVE  QuitInv'
<1>1. Goto(r, from, to) \/ Goto(r, from, "stopServer")
  BY StopSequence DEF wait_for_capture
<1>2. api' = api /\ server' = server /\ refused' = refused
  BY DEF wait_for_capture
<1>3. "stopServer" \in Serving /\ Serving \cap Stopping = {}
  BY DEF Serving, Stopping
<1> QED
  BY <1>1, <1>2, <1>3, GotoMoves, QuietRunner

LEMMA RunnerSteps ==
  ASSUME QuitInv, NEW r \in Runners, Step(r) \/ ensure_ports_free(r) \/ Killed(r)
  PROVE  QuitInv'
<1>0. /\ DOMAIN runner = Runners /\ DOMAIN api = Runners /\ DOMAIN server = Runners
      /\ DOMAIN runner[r] = RunnerFields /\ DOMAIN api[r] = ApiFields /\ DOMAIN server[r] = ServerFields
      /\ RunnerOrder(r)
  BY DEF QuitInv, RunnerShape
<1>1. CASE ensure_ports_free(r)
  <2>1. Goto(r, "idle", "build") \/ Goto(r, "idle", "broken")
    BY <1>1 DEF ensure_ports_free
  <2>2. api' = api /\ server' = server /\ refused' = refused
    BY <1>1 DEF ensure_ports_free
  <2> QED
    BY <2>1, <2>2, GotoMoves, QuietRunner DEF Serving, Stopping
<1>2. CASE CheckBuild(r)
  <2>1. Goto(r, "build", "startApi") \/ Goto(r, "build", "broken")
    BY <1>2 DEF CheckBuild
  <2>2. api' = api /\ server' = server /\ refused' = refused
    BY <1>2 DEF CheckBuild
  <2> QED
    BY <2>1, <2>2, GotoMoves, QuietRunner DEF Serving, Stopping
<1>3. CASE StartApi(r)
  <2>1. /\ DOMAIN runner' = Runners /\ DOMAIN runner'[r] = RunnerFields /\ runner'[r].pc = "waitApi"
        /\ \A q \in Runners \ {r} : runner'[q] = runner[q]
    BY <1>3, GotoMoves DEF StartApi
  <2>2. /\ api' = [api EXCEPT ![r] = [state |-> "starting", run |-> runner[r].index, quit |-> FALSE]]
        /\ server' = [server EXCEPT ![r] = NoServer] /\ refused' = refused
    BY <1>3 DEF StartApi
  <2>3. /\ DOMAIN api'[r] = ApiFields /\ api'[r].quit = FALSE /\ DOMAIN server'[r] = ServerFields
    BY <1>0, <2>2 DEF ApiFields, ServerFields, NoServer
  <2>4. RunnerShape(r)' /\ RunnerOrder(r)'
    BY <2>1, <2>3 DEF RunnerShape, RunnerOrder, Stopping
  <2> QED
    BY <1>0, <2>1, <2>2, <2>4, RunnerMoves
<1>4. CASE WaitApi(r)
  <2>1. wait_for_capture(r, "waitApi", "startServer", 0)
    BY <1>4 DEF WaitApi
  <2> QED
    BY <2>1, WaitMoves DEF Serving
<1>5. CASE StartServer(r)
  <2>1. /\ DOMAIN runner' = Runners /\ DOMAIN runner'[r] = RunnerFields /\ runner'[r].pc = "traffic"
        /\ runner[r].pc = "startServer" /\ \A q \in Runners \ {r} : runner'[q] = runner[q]
    BY <1>5, GotoMoves DEF StartServer
  <2>2. server' = [server EXCEPT ![r].state = "starting"] /\ api' = api /\ refused' = refused
    BY <1>5 DEF StartServer
  <2>3. DOMAIN server'[r] = ServerFields /\ api[r].quit = FALSE
    BY <1>0, <2>1, <2>2 DEF ServerFields, RunnerOrder, Serving
  <2>4. RunnerShape(r)' /\ RunnerOrder(r)'
    BY <1>0, <2>1, <2>2, <2>3 DEF RunnerShape, RunnerOrder, Stopping
  <2> QED
    BY <1>0, <2>1, <2>2, <2>4, RunnerMoves
<1>6. CASE WriteTraffic(r)
  <2>1. Goto(r, "traffic", "waitRecords") \/ Goto(r, "traffic", "stopServer")
    BY <1>6, StopSequence DEF WriteTraffic
  <2>2. api' = api /\ server' = server /\ refused' = refused
    BY <1>6 DEF WriteTraffic
  <2> QED
    BY <2>1, <2>2, GotoMoves, QuietRunner DEF Serving, Stopping
<1>7. CASE WaitRecords(r)
  <2>1. CASE \E k : wait_for_capture(r, "waitRecords", "stopServer", k)
    BY <2>1, WaitMoves DEF Serving
  <2>2. CASE /\ runner[r].pc = "waitRecords"
             /\ runner' = [runner EXCEPT ![r].pc = "stopServer", ![r].passed = TRUE]
             /\ api' = api /\ server' = server /\ refused' = refused
    <3>1. /\ DOMAIN runner' = Runners /\ DOMAIN runner'[r] = RunnerFields
          /\ runner'[r].pc = "stopServer" /\ \A q \in Runners \ {r} : runner'[q] = runner[q]
      BY <1>0, <2>2 DEF RunnerFields
    <3> QED
      BY <2>2, <3>1, QuietRunner DEF Serving, Stopping
  <2> QED
    BY <1>7, <2>1, <2>2, StopSequence DEF WaitRecords
<1>8. CASE StopServer(r)
  <2>1. /\ runner[r].pc = "stopServer" /\ api' = api /\ refused' = refused
        /\ \/ /\ server[r].state \notin Alive /\ server' = server
              /\ runner' = [runner EXCEPT ![r].pc = "stopApi"]
           \/ /\ server' = [server EXCEPT ![r].quit = TRUE]
              /\ runner' = [runner EXCEPT ![r].pc = "waitServer"]
    BY <1>8, StopSequence DEF StopServer
  <2>2. /\ DOMAIN server' = Runners /\ DOMAIN server'[r] = ServerFields
        /\ server'[r].state = server[r].state /\ \A q \in Runners \ {r} : server'[q] = server[q]
        /\ DOMAIN runner' = Runners /\ DOMAIN runner'[r] = RunnerFields
        /\ \A q \in Runners \ {r} : runner'[q] = runner[q]
        /\ \/ server[r].state \notin Alive /\ runner'[r].pc = "stopApi"
           \/ runner'[r].pc = "waitServer"
    BY <1>0, <2>1 DEF ServerFields, RunnerFields
  <2>3. api[r].quit = FALSE
    BY <1>0, <2>1 DEF RunnerOrder, Serving
  <2>4. RunnerShape(r)' /\ RunnerOrder(r)'
    BY <1>0, <2>1, <2>2, <2>3 DEF RunnerShape, RunnerOrder, Stopping
  <2> QED
    BY <1>0, <2>1, <2>2, <2>4, RunnerMoves
<1>9. CASE WaitServer(r)
  <2>1. /\ runner[r].pc = "waitServer" /\ api' = api /\ refused' = refused
        /\ \/ /\ server[r].state \notin Alive /\ server' = server
              /\ runner' = [runner EXCEPT ![r].pc = "stopApi",
                                ![r].graceful[1] = Graceful(server[r])]
           \/ /\ server' = [server EXCEPT ![r].state = "exited", ![r].pending = <<>>]
              /\ runner' = [runner EXCEPT ![r].pc = "stopApi"]
    BY <1>9, StopSequence DEF WaitServer
  <2>2. /\ DOMAIN runner' = Runners /\ DOMAIN runner'[r] = RunnerFields /\ runner'[r].pc = "stopApi"
        /\ \A q \in Runners \ {r} : runner'[q] = runner[q]
    BY <1>0, <2>1 DEF RunnerFields
  <2>3. /\ DOMAIN server' = Runners /\ DOMAIN server'[r] = ServerFields
        /\ server'[r].state \notin Alive /\ \A q \in Runners \ {r} : server'[q] = server[q]
    BY <1>0, <2>1 DEF ServerFields, Alive
  <2>4. RunnerShape(r)' /\ RunnerOrder(r)'
    BY <1>0, <2>1, <2>2, <2>3 DEF RunnerShape, RunnerOrder, Serving
  <2> QED
    BY <1>0, <2>1, <2>2, <2>3, <2>4, RunnerMoves
<1>10. CASE StopApi(r)
  <2>1. /\ runner[r].pc = "stopApi" /\ server' = server /\ refused' = refused
        /\ \/ api' = api /\ runner' = [runner EXCEPT ![r].pc = "write"]
           \/ /\ api' = [api EXCEPT ![r].quit = TRUE]
              /\ runner' = [runner EXCEPT ![r].pc = "waitApiEnd"]
    BY <1>10, StopSequence DEF StopApi
  <2>2. /\ DOMAIN runner' = Runners /\ DOMAIN runner'[r] = RunnerFields
        /\ runner'[r].pc \in {"write", "waitApiEnd"}
        /\ \A q \in Runners \ {r} : runner'[q] = runner[q]
    BY <1>0, <2>1 DEF RunnerFields
  <2>3. /\ DOMAIN api' = Runners /\ DOMAIN api'[r] = ApiFields
        /\ \A q \in Runners \ {r} : api'[q] = api[q]
        /\ api'[r].quit = api[r].quit \/ api'[r].quit = TRUE
    BY <1>0, <2>1 DEF ApiFields
  <2>4. server[r].state \notin Alive
    BY <1>0, <2>1 DEF RunnerOrder, Stopping
  <2>5. RunnerShape(r)' /\ RunnerOrder(r)'
    BY <1>0, <2>1, <2>2, <2>3, <2>4 DEF RunnerShape, RunnerOrder, Serving
  <2> QED
    BY <1>0, <2>1, <2>2, <2>3, <2>5, RunnerMoves
<1>11. CASE WaitApiEnd(r)
  <2>1. /\ runner[r].pc = "waitApiEnd" /\ server' = server /\ refused' = refused
        /\ \/ /\ api' = api
              /\ runner' = [runner EXCEPT ![r].pc = "write",
                                ![r].graceful[2] = Graceful(api[r])]
           \/ /\ api' = [api EXCEPT ![r].state = "exited"]
              /\ runner' = [runner EXCEPT ![r].pc = "write"]
    BY <1>11, StopSequence DEF WaitApiEnd
  <2>2. /\ DOMAIN runner' = Runners /\ DOMAIN runner'[r] = RunnerFields /\ runner'[r].pc = "write"
        /\ \A q \in Runners \ {r} : runner'[q] = runner[q]
    BY <1>0, <2>1 DEF RunnerFields
  <2>3. /\ DOMAIN api' = Runners /\ DOMAIN api'[r] = ApiFields
        /\ \A q \in Runners \ {r} : api'[q] = api[q]
        /\ api'[r].quit = api[r].quit
    BY <1>0, <2>1 DEF ApiFields
  <2>4. server[r].state \notin Alive
    BY <1>0, <2>1 DEF RunnerOrder, Stopping
  <2>5. RunnerShape(r)' /\ RunnerOrder(r)'
    BY <1>0, <2>1, <2>2, <2>3, <2>4 DEF RunnerShape, RunnerOrder, Serving
  <2> QED
    BY <1>0, <2>1, <2>2, <2>3, <2>5, RunnerMoves
<1>12. CASE WriteRuntime(r)
  <2> DEFINE n == runner[r].index
             new == [pc |-> IF n = Len(Runs) THEN "ended" ELSE "idle",
                     index |-> IF n = Len(Runs) THEN n ELSE n + 1,
                     passed |-> FALSE, graceful |-> <<FALSE, FALSE>>,
                     results |-> Append(runner[r].results, RunPassed(r))]
  <2>1. /\ runner[r].pc = "write" /\ runner' = [runner EXCEPT ![r] = new]
        /\ api' = api /\ server' = server /\ refused' = refused
    BY <1>12, <1>0 DEF WriteRuntime
  <2>2. DOMAIN new = RunnerFields /\ new.pc \in {"ended", "idle"}
    BY DEF RunnerFields
  <2> HIDE DEF new
  <2>3. /\ DOMAIN runner' = Runners /\ runner'[r] = new /\ \A q \in Runners \ {r} : runner'[q] = runner[q]
    BY <1>0, <2>1
  <2> QED
    BY <2>1, <2>2, <2>3, QuietRunner DEF Serving, Stopping
<1>13. CASE Broken(r)
  <2>1. /\ runner[r].pc = "broken" /\ api' = api /\ server' = server /\ refused' = refused
        /\ runner' = [runner EXCEPT ![r].pc = "ended", ![r].results = Append(@, FALSE)]
    BY <1>13 DEF Broken
  <2>2. /\ DOMAIN runner' = Runners /\ DOMAIN runner'[r] = RunnerFields /\ runner'[r].pc = "ended"
        /\ \A q \in Runners \ {r} : runner'[q] = runner[q]
    BY <1>0, <2>1 DEF RunnerFields
  <2> QED
    BY <2>1, <2>2, QuietRunner DEF Serving, Stopping
<1>14. CASE Killed(r)
  <2>1. /\ api' = api /\ server' = server /\ refused' = refused
        /\ runner' = [runner EXCEPT ![r].pc = "dead"]
    BY <1>14 DEF Killed
  <2>2. /\ DOMAIN runner' = Runners /\ DOMAIN runner'[r] = RunnerFields /\ runner'[r].pc = "dead"
        /\ \A q \in Runners \ {r} : runner'[q] = runner[q]
    BY <1>0, <2>1 DEF RunnerFields
  <2> QED
    BY <2>1, <2>2, QuietRunner DEF Serving, Stopping
<1> QED
  BY <1>1, <1>2, <1>3, <1>4, <1>5, <1>6, <1>7, <1>8, <1>9, <1>10, <1>11, <1>12, <1>13, <1>14
     DEF Step

\* What a server observes of its sessions is no matter of its life.
LEMMA ServersObserve ==
  ASSUME QuitInv, runner' = runner, api' = api, refused' = refused,
         \/ server' = server
         \/ \E o : server' = [server EXCEPT ![o].sids = @ + 1]
         \/ \E o, records : server' = Observed(o, records)
  PROVE  QuitInv'
<1>0. DOMAIN server = Runners /\ \A q \in Runners : DOMAIN server[q] = ServerFields
  BY DEF QuitInv, RunnerShape
<1>a. ASSUME DOMAIN server' = Runners,
             \A q \in Runners : DOMAIN server'[q] = ServerFields /\ server'[q].state = server[q].state
      PROVE  QuitInv'
  BY <1>a DEF QuitInv, RunnerShape, RunnerOrder
<1>1. CASE server' = server
  BY <1>0, <1>1, <1>a
<1>2. ASSUME NEW o, server' = [server EXCEPT ![o].sids = @ + 1]
      PROVE  QuitInv'
  <2> DEFINE new == [server[o] EXCEPT !.sids = @ + 1]
  <2>1. server' = [server EXCEPT ![o] = new]
    BY <1>2
  <2>2. o \in Runners => DOMAIN new = ServerFields /\ new.state = server[o].state
    BY <1>0 DEF ServerFields
  <2> HIDE DEF new
  <2> QED
    BY <1>0, <1>a, <2>1, <2>2
<1>3. ASSUME NEW o, NEW records, server' = Observed(o, records)
      PROVE  QuitInv'
  <2> DEFINE more == [i \in Positions(records) |->
                         [records[i] EXCEPT !.qid = server[o].qids + i]]
             new == [server[o] EXCEPT !.qids = @ + Len(records), !.pending = @ \o more]
  <2>1. server' = [server EXCEPT ![o] = new]
    BY <1>3 DEF Observed
  <2> HIDE DEF more
  <2>2. o \in Runners => DOMAIN new = ServerFields /\ new.state = server[o].state
    BY <1>0 DEF ServerFields
  <2> HIDE DEF new
  <2> QED
    BY <1>0, <1>a, <2>1, <2>2
<1> QED
  BY <1>1, <1>2, <1>3

\* A session moves its client, and what its server has observed.
LEMMA SessionKeeps ==
  ASSUME NEW r, NEW c, Session(r, c)
  PROVE  runner' = runner /\ api' = api /\ captures' = captures /\ refused' = refused
<1>1. CASE BeginSession(r, c)
  BY <1>1 DEF BeginSession
<1>2. CASE connect_local(r, c)
  BY <1>2 DEF connect_local
<1>3. CASE SendGroup(r, c)
  BY <1>3 DEF SendGroup
<1>4. CASE FinishSession(r, c)
  BY <1>4 DEF FinishSession
<1>5. CASE SessionFails(r, c)
  BY <1>5 DEF SessionFails
<1> QED
  BY <1>1, <1>2, <1>3, <1>4, <1>5 DEF Session

LEMMA SessionSteps ==
  ASSUME QuitInv, NEW r \in Runners, NEW c, Session(r, c)
  PROVE  QuitInv'
<1>1. runner' = runner /\ api' = api /\ refused' = refused
  BY SessionKeeps
<1>2. CASE BeginSession(r, c)
  BY <1>1, <1>2, ServersObserve DEF BeginSession
<1>3. CASE connect_local(r, c)
  <2>1. server' = server \/ \E o : server' = [server EXCEPT ![o].sids = @ + 1]
    BY <1>3 DEF connect_local
  <2> QED
    BY <1>1, <2>1, ServersObserve
<1>4. CASE SendGroup(r, c)
  <2>1. \E o, records : server' = Observed(o, records)
    BY <1>4 DEF SendGroup
  <2> QED
    BY <1>1, <2>1, ServersObserve
<1>5. CASE FinishSession(r, c)
  <2>1. \E o, records : server' = Observed(o, records)
    BY <1>5 DEF FinishSession
  <2> QED
    BY <1>1, <2>1, ServersObserve
<1>6. CASE SessionFails(r, c)
  <2>1. server' = server \/ \E o, records : server' = Observed(o, records)
    BY <1>6 DEF SessionFails
  <2> QED
    BY <1>1, <2>1, ServersObserve
<1> QED
  BY <1>2, <1>3, <1>4, <1>5, <1>6 DEF Session

LEMMA ProcessSteps ==
  ASSUME QuitInv, NEW r \in Runners, Process(r) \/ ApiDies(r)
  PROVE  QuitInv'
<1>0. /\ DOMAIN runner = Runners /\ DOMAIN api = Runners /\ DOMAIN server = Runners
      /\ DOMAIN api[r] = ApiFields /\ DOMAIN server[r] = ServerFields /\ RunnerOrder(r)
  BY DEF QuitInv, RunnerShape
<1>a. ASSUME runner' = runner, refused' = refused, server' = server,
             api' = api \/ \E s : api' = [api EXCEPT ![r].state = s]
      PROVE  QuitInv'
  <2>1. /\ DOMAIN api' = Runners /\ \A q \in Runners \ {r} : api'[q] = api[q]
        /\ DOMAIN api'[r] = ApiFields /\ api'[r].quit = api[r].quit
    BY <1>0, <1>a DEF ApiFields
  <2> QED
    BY <1>0, <1>a, <2>1, ProcessMoves
<1>b. ASSUME runner' = runner, refused' = refused, api' = api, server[r].state \in Alive,
             \E s : server' = [server EXCEPT ![r].state = s]
      PROVE  QuitInv'
  <2>1. /\ DOMAIN server' = Runners /\ \A q \in Runners \ {r} : server'[q] = server[q]
        /\ DOMAIN server'[r] = ServerFields
    BY <1>0, <1>b DEF ServerFields
  <2> QED
    BY <1>0, <1>b, <2>1, ProcessMoves
<1>1. CASE ServerStarts(r)
  <2>1. /\ runner' = runner /\ refused' = refused /\ api' = api /\ server[r].state = "starting"
        /\ \/ server' = [server EXCEPT ![r].state = "up"]
           \/ server' = [server EXCEPT ![r].state = "exited"]
    BY <1>1 DEF ServerStarts
  <2> QED
    BY <1>b, <2>1 DEF Alive
<1>2. CASE ServerExits(r)
  <2>1. /\ runner' = runner /\ refused' = refused /\ api' = api /\ server[r].state = "up"
        /\ server' = [server EXCEPT ![r].state = "exited0"]
    BY <1>2 DEF ServerExits
  <2> QED
    BY <1>b, <2>1 DEF Alive
<1>3. CASE ApiStarts(r)
  BY <1>3, <1>a DEF ApiStarts
<1>4. CASE ApiBinds(r)
  BY <1>4, <1>a DEF ApiBinds
<1>5. CASE ApiExits(r)
  <2>1. /\ runner' = runner /\ refused' = refused /\ server' = server
        /\ api' = [api EXCEPT ![r].state = "exited0"]
    BY <1>5 DEF ApiExits
  <2> QED
    BY <1>a, <2>1
<1>6. CASE ApiDies(r)
  <2>1. /\ runner' = runner /\ refused' = refused /\ server' = server
        /\ api' = [api EXCEPT ![r].state = "exited"]
    BY <1>6 DEF ApiDies
  <2> QED
    BY <1>a, <2>1
<1>7. CASE Post(r)
  <2>1. /\ server[r].state = "up" /\ runner' = runner /\ api' = api
        /\ server' = [server EXCEPT ![r].pending = Tail(@)]
        /\ refused' = refused \/ refused' = refused \cup {IF api[r].quit THEN "quit" ELSE "down"}
    BY <1>7 DEF Post
  <2>2. api[r].quit = FALSE
    BY <1>0, <2>1 DEF RunnerOrder, Alive
  <2>3. "quit" \notin refused'
    BY <2>1, <2>2 DEF QuitInv
  <2>4. /\ DOMAIN server' = Runners /\ \A q \in Runners \ {r} : server'[q] = server[q]
        /\ DOMAIN server'[r] = ServerFields /\ server'[r].state = server[r].state
    BY <1>0, <2>1 DEF ServerFields
  <2> QED
    BY <2>1, <2>3, <2>4 DEF QuitInv, RunnerShape, RunnerOrder
<1> QED
  BY <1>1, <1>2, <1>3, <1>4, <1>5, <1>6, <1>7 DEF Process

LEMMA QuitStep ==
  ASSUME QuitInv, [CampaignNext]_campaignVars
  PROVE  QuitInv'
<1>1. CASE UNCHANGED campaignVars
  BY <1>1 DEF campaignVars, QuitInv, RunnerShape, RunnerOrder
<1>2. ASSUME NEW r \in Runners, RunnerNext(r)
      PROVE  QuitInv'
  BY <1>2, RunnerSteps, ProcessSteps, SessionSteps DEF RunnerNext
<1> QED
  BY <1>1, <1>2 DEF CampaignNext

LEMMA QuitInit == CampaignInit => QuitInv
<1> SUFFICES ASSUME CampaignInit PROVE QuitInv
  OBVIOUS
<1> DEFINE r0 == [pc |-> "idle", index |-> 1, passed |-> FALSE,
                  graceful |-> <<FALSE, FALSE>>, results |-> <<>>]
<1>1. /\ runner = [r \in Runners |-> r0] /\ api = [r \in Runners |-> NoProcess]
      /\ server = [r \in Runners |-> NoServer] /\ refused = {}
  BY DEF CampaignInit
<1>2. DOMAIN r0 = RunnerFields /\ r0.pc = "idle"
  BY DEF RunnerFields
<1> HIDE DEF r0
<1>3. DOMAIN NoProcess = ApiFields /\ NoProcess.quit = FALSE
  BY DEF NoProcess, ApiFields
<1>4. DOMAIN NoServer = ServerFields
  BY DEF NoServer, ServerFields
<1>5. \A r \in Runners : RunnerShape(r)
  BY <1>1, <1>2, <1>3, <1>4 DEF RunnerShape
<1>6. \A r \in Runners : RunnerOrder(r)
  BY <1>1, <1>2, <1>3 DEF RunnerOrder, Serving, Stopping
<1> QED
  BY <1>1, <1>5, <1>6 DEF QuitInv

\* Whatever number of runners work on the campaign, are killed or leave their
\* processes behind: no server has a snapshot refused because its runner had
\* told the API to quit.  The finally of run_capture stops the server first,
\* and waits for its end (campaign.py).
THEOREM LastRecordsArePostedHolds == CampaignSpec => []LastRecordsArePosted
<1>1. QuitInv => LastRecordsArePosted
  BY DEF QuitInv, LastRecordsArePosted
<1>2. CampaignSpec => CampaignInit /\ [][CampaignNext]_campaignVars
  BY PTL DEF CampaignSpec
<1>3. QuitInv /\ [CampaignNext]_campaignVars => QuitInv'
  BY QuitStep
<1> QED
  BY <1>1, <1>2, <1>3, QuitInit, PTL

-----------------------------------------------------------------------------
(* Who reports a run *)

FileFields == {"recorder", "features", "dropped", "complete", "traffic", "runtime"}
Recording == {"ready", "up", "exited0"}
Ending == {"write", "dead"}

\* An API that got past its start records the run it was started for, in the
\* name of its runner, and a runner that found its API ended well is about
\* to write the outcome of that run.
RunnerRecord(r) ==
    /\ runner[r].index \in DOMAIN captures /\ api[r].run \in DOMAIN captures
    /\ DOMAIN runner[r].graceful = {1, 2}
    /\ api[r].state \in Recording => captures[api[r].run].recorder = r
    /\ runner[r].pc \in Serving \cup Stopping => api[r].run = runner[r].index
    /\ runner[r].graceful[2] = TRUE => runner[r].pc \in Ending /\ api[r].state = "exited0"

\* An outcome that says the API ended well was written by the runner whose
\* own API made the directory of the run (run_capture, after
\* stop_owned_process has returned graceful for the API).
ReportedIsRecorded ==
    \A n \in DOMAIN captures : captures[n].runtime.api = TRUE =>
        captures[n].recorder \in Runners /\ captures[n].runtime.by = captures[n].recorder

RecordInv ==
    /\ QuitInv
    /\ Len(campaign.runs) \in Nat \ {0} /\ DOMAIN captures = 1..Len(campaign.runs)
    /\ \A n \in DOMAIN captures : DOMAIN captures[n] = FileFields
    /\ \A r \in Runners : RunnerRecord(r)
    /\ ReportedIsRecorded

\* The outcome and the owner of every recording stay.
KeepsFiles ==
    /\ campaign' = campaign /\ DOMAIN captures' = DOMAIN captures
    /\ \A n \in DOMAIN captures :
           /\ DOMAIN captures'[n] = FileFields
           /\ captures'[n].recorder = captures[n].recorder /\ captures'[n].runtime = captures[n].runtime

LEMMA FilesKept ==
  ASSUME RecordInv, campaign' = campaign,
         \/ captures' = captures
         \/ \E n, x : \E k \in FileFields \ {"recorder", "runtime"} :
                captures' = [captures EXCEPT ![n] = [captures[n] EXCEPT ![k] = x]]
  PROVE  KeepsFiles
<1>0. \A n \in DOMAIN captures : DOMAIN captures[n] = FileFields
  BY DEF RecordInv
<1>1. CASE captures' = captures
  BY <1>0, <1>1 DEF KeepsFiles
<1>2. ASSUME NEW n, NEW x, NEW k \in FileFields \ {"recorder", "runtime"},
             captures' = [captures EXCEPT ![n] = [captures[n] EXCEPT ![k] = x]]
      PROVE  KeepsFiles
  <2> DEFINE new == [captures[n] EXCEPT ![k] = x]
  <2>1. n \in DOMAIN captures => /\ DOMAIN new = FileFields /\ new.recorder = captures[n].recorder
                                 /\ new.runtime = captures[n].runtime
    BY <1>0 DEF FileFields
  <2> HIDE DEF new
  <2>2. captures' = [captures EXCEPT ![n] = new]
    BY <1>2 DEF new
  <2> QED
    BY <1>0, <2>1, <2>2 DEF KeepsFiles
<1> QED
  BY <1>1, <1>2

LEMMA RecordMoves ==
  ASSUME RecordInv, QuitInv', NEW r \in Runners, KeepsFiles,
         \A q \in Runners \ {r} : runner'[q] = runner[q] /\ api'[q] = api[q],
         RunnerRecord(r)'
  PROVE  RecordInv'
<1>1. \A q \in Runners \ {r} : RunnerRecord(q)'
  <2> SUFFICES ASSUME NEW q \in Runners \ {r} PROVE RunnerRecord(q)'
    OBVIOUS
  <2>1. RunnerRecord(q) /\ runner'[q] = runner[q] /\ api'[q] = api[q]
    BY DEF RecordInv
  <2> QED
    BY <2>1 DEF RunnerRecord, KeepsFiles
<1>2. ReportedIsRecorded'
  BY DEF RecordInv, ReportedIsRecorded, KeepsFiles
<1> QED
  BY <1>1, <1>2 DEF RecordInv, KeepsFiles

\* Where only the place of the runner changes.
LEMMA RecordQuiet ==
  ASSUME RecordInv, QuitInv', NEW r \in Runners, KeepsFiles, NEW to, api' = api,
         \A q \in Runners \ {r} : runner'[q] = runner[q],
         runner'[r].pc = to, runner'[r].index = runner[r].index,
         runner'[r].graceful = runner[r].graceful,
         to \in Serving \cup Stopping => runner[r].pc \in Serving \cup Stopping,
         runner[r].pc \in Ending => to \in Ending
  PROVE  RecordInv'
<1>1. RunnerRecord(r)'
  BY DEF RecordInv, RunnerRecord, KeepsFiles
<1> QED
  BY <1>1, RecordMoves

\* Where only the state of an API changes that has not ended well.
LEMMA RecordProcess ==
  ASSUME RecordInv, QuitInv', NEW r \in Runners, KeepsFiles, runner' = runner, NEW s,
         api' = [api EXCEPT ![r].state = s], api[r].state # "exited0",
         s \in Recording => api[r].state \in Recording
  PROVE  RecordInv'
<1>1. DOMAIN api = Runners /\ DOMAIN api[r] = ApiFields /\ RunnerRecord(r)
  BY DEF RecordInv, QuitInv, RunnerShape
<1>2. api'[r].run = api[r].run /\ api'[r].state = s /\ \A q \in Runners \ {r} : api'[q] = api[q]
  BY <1>1 DEF ApiFields
<1>3. RunnerRecord(r)'
  BY <1>1, <1>2 DEF RunnerRecord, KeepsFiles
<1> QED
  BY <1>2, <1>3, RecordMoves

LEMMA RecordWait ==
  ASSUME RecordInv, QuitInv', NEW r \in Runners, NEW from \in Serving, NEW to \in Serving, NEW k,
         wait_for_capture(r, from, to, k), campaign' = campaign
  PROVE  RecordInv'
<1>1. /\ Goto(r, from, to) \/ Goto(r, from, "stopServer")
      /\ api' = api /\ captures' = captures
  BY StopSequence DEF wait_for_capture
<1>2. QuitInv /\ KeepsFiles /\ from \notin Ending
  BY <1>1, FilesKept DEF RecordInv, Serving, Ending
<1> QED
  BY <1>1, <1>2, GotoMoves, RecordQuiet

\* The outcome says that the API ended well only if it did, and then it was
\* the API that had recorded this run.
LEMMA OutcomeWritten ==
  ASSUME RecordInv, QuitInv', NEW r \in Runners, WriteRuntime(r), campaign' = campaign
  PROVE  RecordInv'
<1> DEFINE n == runner[r].index
           last == Len(campaign.runs)
           new == [pc |-> IF n = last THEN "ended" ELSE "idle",
                   index |-> IF n = last THEN n ELSE n + 1,
                   passed |-> FALSE, graceful |-> <<FALSE, FALSE>>,
                   results |-> Append(runner[r].results, RunPassed(r))]
           outcome == [written |-> TRUE, passed |-> RunPassed(r), by |-> r,
                       server |-> runner[r].graceful[1], api |-> runner[r].graceful[2]]
           files == [captures[n] EXCEPT !.runtime = outcome]
<1>0. /\ DOMAIN runner = Runners /\ RunnerRecord(r) /\ last \in Nat \ {0}
      /\ DOMAIN captures = 1..last /\ \A m \in DOMAIN captures : DOMAIN captures[m] = FileFields
      /\ ReportedIsRecorded /\ n \in DOMAIN captures
  BY DEF RecordInv, QuitInv, RunnerRecord
<1>1. /\ runner[r].pc = "write" /\ runner' = [runner EXCEPT ![r] = new] /\ api' = api
      /\ captures' = [captures EXCEPT ![n] = files]
  BY <1>0 DEF WriteRuntime, Runs
<1>2. /\ new.pc \in {"ended", "idle"} /\ new.index = (IF n = last THEN n ELSE n + 1)
      /\ new.graceful = <<FALSE, FALSE>>
  OBVIOUS
<1>3. outcome.by = r /\ outcome.api = runner[r].graceful[2]
  OBVIOUS
<1> HIDE DEF new, outcome
<1>4. DOMAIN files = FileFields /\ files.runtime = outcome /\ files.recorder = captures[n].recorder
  BY <1>0 DEF FileFields
<1> HIDE DEF files
<1>5. /\ runner'[r] = new /\ \A q \in Runners \ {r} : runner'[q] = runner[q]
  BY <1>0, <1>1
<1>6. /\ DOMAIN captures' = DOMAIN captures /\ captures'[n] = files
      /\ \A m \in DOMAIN captures \ {n} : captures'[m] = captures[m]
      /\ \A m \in DOMAIN captures : DOMAIN captures'[m] = FileFields
                                    /\ captures'[m].recorder = captures[m].recorder
  BY <1>0, <1>1, <1>4
<1>7. outcome.api = TRUE => captures[n].recorder = r
  BY <1>0, <1>1, <1>3 DEF RunnerRecord, Recording, Stopping
<1>8. ReportedIsRecorded'
  BY <1>0, <1>3, <1>4, <1>6, <1>7 DEF ReportedIsRecorded
<1>9. new.index \in DOMAIN captures
  <2>1. n \in 1..last
    BY <1>0
  <2> HIDE DEF n, last
  <2>2. (IF n = last THEN n ELSE n + 1) \in 1..last
    BY <1>0, <2>1
  <2> QED
    BY <1>0, <1>2, <2>2
<1>10. RunnerRecord(r)'
  <2>1. DOMAIN new.graceful = {1, 2} /\ new.graceful[2] = FALSE
    BY <1>2
  <2> QED
    BY <1>0, <1>1, <1>2, <1>5, <1>6, <1>9, <2>1 DEF RunnerRecord, Serving, Stopping
<1>11. \A q \in Runners \ {r} : RunnerRecord(q)'
  <2> SUFFICES ASSUME NEW q \in Runners \ {r} PROVE RunnerRecord(q)'
    OBVIOUS
  <2>1. RunnerRecord(q) /\ runner'[q] = runner[q] /\ api'[q] = api[q]
    BY <1>1, <1>5 DEF RecordInv
  <2> QED
    BY <1>6, <2>1 DEF RunnerRecord
<1> QED
  BY <1>0, <1>6, <1>8, <1>10, <1>11 DEF RecordInv

LEMMA RecordRunner ==
  ASSUME RecordInv, QuitInv', NEW r \in Runners, campaign' = campaign,
         Step(r) \/ ensure_ports_free(r) \/ Killed(r)
  PROVE  RecordInv'
<1>0. /\ QuitInv /\ DOMAIN runner = Runners /\ DOMAIN api = Runners
      /\ DOMAIN runner[r] = RunnerFields /\ DOMAIN api[r] = ApiFields /\ RunnerRecord(r)
  BY DEF RecordInv, QuitInv, RunnerShape
<1>a. ASSUME NEW from, NEW to, Goto(r, from, to), api' = api, KeepsFiles,
             to \in Serving \cup Stopping => from \in Serving \cup Stopping, from \notin Ending
      PROVE  RecordInv'
  BY <1>0, <1>a, GotoMoves, RecordQuiet
<1>b. ASSUME NEW to, runner' = [runner EXCEPT ![r].pc = to], api' = api, captures' = captures,
             to \in Serving \cup Stopping => runner[r].pc \in Serving \cup Stopping,
             runner[r].pc \in Ending => to \in Ending
      PROVE  RecordInv'
  <2>1. /\ runner'[r].pc = to /\ runner'[r].index = runner[r].index
        /\ runner'[r].graceful = runner[r].graceful /\ \A q \in Runners \ {r} : runner'[q] = runner[q]
    BY <1>0, <1>b DEF RunnerFields
  <2> QED
    BY <1>b, <2>1, RecordQuiet, FilesKept
<1>1. CASE ensure_ports_free(r)
  <2>1. /\ Goto(r, "idle", "build") \/ Goto(r, "idle", "broken")
        /\ api' = api /\ captures' = captures
    BY <1>1 DEF ensure_ports_free
  <2> QED
    BY <1>a, <2>1, FilesKept DEF Serving, Stopping, Ending
<1>2. CASE CheckBuild(r)
  <2>1. /\ Goto(r, "build", "startApi") \/ Goto(r, "build", "broken")
        /\ api' = api /\ captures' = captures
    BY <1>2 DEF CheckBuild
  <2> QED
    BY <1>a, <2>1, FilesKept DEF Serving, Stopping, Ending
<1>3. CASE StartApi(r)
  <2> DEFINE new == [state |-> "starting", run |-> runner[r].index, quit |-> FALSE]
  <2>1. /\ runner[r].pc = "startApi" /\ runner'[r].pc = "waitApi"
        /\ runner'[r].index = runner[r].index /\ runner'[r].graceful = runner[r].graceful
        /\ \A q \in Runners \ {r} : runner'[q] = runner[q]
    BY <1>0, <1>3, GotoMoves DEF StartApi
  <2>2. api' = [api EXCEPT ![r] = new] /\ captures' = captures
    BY <1>3 DEF StartApi
  <2>3. api'[r].state = "starting" /\ api'[r].run = runner[r].index
        /\ \A q \in Runners \ {r} : api'[q] = api[q]
    BY <1>0, <2>2
  <2>4. RunnerRecord(r)'
    BY <1>0, <2>1, <2>2, <2>3 DEF RunnerRecord, Recording, Ending
  <2> QED
    BY <2>1, <2>2, <2>3, <2>4, RecordMoves, FilesKept
<1>4. CASE WaitApi(r)
  <2>1. wait_for_capture(r, "waitApi", "startServer", 0)
    BY <1>4 DEF WaitApi
  <2> QED
    BY <2>1, RecordWait DEF Serving
<1>5. CASE StartServer(r)
  <2>1. Goto(r, "startServer", "traffic") /\ api' = api /\ captures' = captures
    BY <1>5 DEF StartServer
  <2> QED
    BY <1>a, <2>1, FilesKept DEF Serving, Ending
<1>6. CASE WriteTraffic(r)
  <2>1. /\ Goto(r, "traffic", "waitRecords") \/ Goto(r, "traffic", "stopServer")
        /\ api' = api
    BY <1>6, StopSequence DEF WriteTraffic
  <2>2. \E n, x : captures' = [captures EXCEPT ![n] = [captures[n] EXCEPT !["traffic"] = x]]
    BY <1>6 DEF WriteTraffic
  <2>3. KeepsFiles
    BY <2>2, FilesKept DEF FileFields
  <2> QED
    BY <1>a, <2>1, <2>3 DEF Serving, Ending
<1>7. CASE WaitRecords(r)
  <2>1. CASE \E k : wait_for_capture(r, "waitRecords", "stopServer", k)
    BY <2>1, RecordWait DEF Serving
  <2>2. CASE /\ runner[r].pc = "waitRecords" /\ api' = api /\ captures' = captures
             /\ runner' = [runner EXCEPT ![r].pc = "stopServer", ![r].passed = TRUE]
    <3>1. /\ runner'[r].pc = "stopServer" /\ runner'[r].index = runner[r].index
          /\ runner'[r].graceful = runner[r].graceful /\ \A q \in Runners \ {r} : runner'[q] = runner[q]
      BY <1>0, <2>2 DEF RunnerFields
    <3> QED
      BY <2>2, <3>1, RecordQuiet, FilesKept DEF Serving, Ending
  <2> QED
    BY <1>7, <2>1, <2>2, StopSequence DEF WaitRecords
<1>8. CASE StopServer(r)
  <2>1. /\ runner[r].pc = "stopServer" /\ api' = api /\ captures' = captures
        /\ \E to \in {"stopApi", "waitServer"} : runner' = [runner EXCEPT ![r].pc = to]
    BY <1>8, StopSequence DEF StopServer
  <2> QED
    BY <1>b, <2>1 DEF Serving, Stopping, Ending
<1>9. CASE WaitServer(r)
  <2>1. /\ runner[r].pc = "waitServer" /\ api' = api /\ captures' = captures
        /\ \/ runner' = [runner EXCEPT ![r].pc = "stopApi",
                                ![r].graceful[1] = Graceful(server[r])]
           \/ runner' = [runner EXCEPT ![r].pc = "stopApi"]
    BY <1>9, StopSequence DEF WaitServer
  <2>2. CASE runner' = [runner EXCEPT ![r].pc = "stopApi",
                                ![r].graceful[1] = Graceful(server[r])]
    <3> DEFINE g == [runner[r].graceful EXCEPT ![1] = Graceful(server[r])]
    <3>1. DOMAIN g = {1, 2} /\ g[2] = runner[r].graceful[2]
      BY <1>0 DEF RunnerRecord
    <3>2. /\ runner'[r].pc = "stopApi" /\ runner'[r].index = runner[r].index
          /\ runner'[r].graceful = g /\ \A q \in Runners \ {r} : runner'[q] = runner[q]
      BY <1>0, <2>2 DEF RunnerFields
    <3> HIDE DEF g
    <3>3. RunnerRecord(r)'
      BY <1>0, <2>1, <3>1, <3>2 DEF RunnerRecord, Serving, Ending
    <3> QED
      BY <2>1, <3>2, <3>3, RecordMoves, FilesKept
  <2>3. CASE runner' = [runner EXCEPT ![r].pc = "stopApi"]
    BY <1>b, <2>1, <2>3 DEF Serving, Ending
  <2> QED
    BY <2>1, <2>2, <2>3
<1>10. CASE StopApi(r)
  <2>1. /\ runner[r].pc = "stopApi" /\ captures' = captures
        /\ \/ api' = api /\ runner' = [runner EXCEPT ![r].pc = "write"]
           \/ /\ api' = [api EXCEPT ![r].quit = TRUE]
              /\ runner' = [runner EXCEPT ![r].pc = "waitApiEnd"]
    BY <1>10, StopSequence DEF StopApi
  <2>2. CASE api' = api /\ runner' = [runner EXCEPT ![r].pc = "write"]
    BY <1>b, <2>1, <2>2 DEF Stopping, Ending
  <2>3. CASE /\ api' = [api EXCEPT ![r].quit = TRUE]
             /\ runner' = [runner EXCEPT ![r].pc = "waitApiEnd"]
    <3>1. /\ runner'[r].pc = "waitApiEnd" /\ runner'[r].index = runner[r].index
          /\ runner'[r].graceful = runner[r].graceful /\ \A q \in Runners \ {r} : runner'[q] = runner[q]
      BY <1>0, <2>3 DEF RunnerFields
    <3>2. /\ api'[r].state = api[r].state /\ api'[r].run = api[r].run
          /\ \A q \in Runners \ {r} : api'[q] = api[q]
      BY <1>0, <2>3 DEF ApiFields
    <3>3. RunnerRecord(r)'
      BY <1>0, <2>1, <3>1, <3>2 DEF RunnerRecord, Stopping, Ending
    <3> QED
      BY <2>1, <3>1, <3>2, <3>3, RecordMoves, FilesKept
  <2> QED
    BY <2>1, <2>2, <2>3
<1>11. CASE WaitApiEnd(r)
  <2>1. /\ runner[r].pc = "waitApiEnd" /\ captures' = captures
        /\ \/ /\ api' = api
              /\ runner' = [runner EXCEPT ![r].pc = "write",
                                ![r].graceful[2] = Graceful(api[r])]
           \/ /\ api' = [api EXCEPT ![r].state = "exited"]
              /\ runner' = [runner EXCEPT ![r].pc = "write"]
    BY <1>11, StopSequence DEF WaitApiEnd
  <2>2. CASE /\ api' = api
             /\ runner' = [runner EXCEPT ![r].pc = "write",
                               ![r].graceful[2] = Graceful(api[r])]
    <3> DEFINE g == [runner[r].graceful EXCEPT ![2] = Graceful(api[r])]
    <3>1. DOMAIN g = {1, 2} /\ g[2] = Graceful(api[r])
      BY <1>0 DEF RunnerRecord
    <3>2. /\ runner'[r].pc = "write" /\ runner'[r].index = runner[r].index
          /\ runner'[r].graceful = g /\ \A q \in Runners \ {r} : runner'[q] = runner[q]
      BY <1>0, <2>2 DEF RunnerFields
    <3> HIDE DEF g
    <3>3. g[2] = TRUE => api[r].state = "exited0"
      BY <3>1 DEF Graceful
    <3>4. RunnerRecord(r)'
      BY <1>0, <2>1, <2>2, <3>1, <3>2, <3>3 DEF RunnerRecord, Stopping, Ending
    <3> QED
      BY <2>1, <2>2, <3>2, <3>4, RecordMoves, FilesKept
  <2>3. CASE /\ api' = [api EXCEPT ![r].state = "exited"]
             /\ runner' = [runner EXCEPT ![r].pc = "write"]
    <3>1. /\ runner'[r].pc = "write" /\ runner'[r].index = runner[r].index
          /\ runner'[r].graceful = runner[r].graceful /\ \A q \in Runners \ {r} : runner'[q] = runner[q]
      BY <1>0, <2>3 DEF RunnerFields
    <3>2. /\ api'[r].state = "exited" /\ api'[r].run = api[r].run
          /\ \A q \in Runners \ {r} : api'[q] = api[q]
      BY <1>0, <2>3 DEF ApiFields
    <3>3. RunnerRecord(r)'
      BY <1>0, <2>1, <3>1, <3>2 DEF RunnerRecord, Recording, Stopping, Ending
    <3> QED
      BY <2>1, <3>1, <3>2, <3>3, RecordMoves, FilesKept
  <2> QED
    BY <2>1, <2>2, <2>3
<1>12. CASE WriteRuntime(r)
  BY <1>12, OutcomeWritten
<1>13. CASE Broken(r)
  <2>1. /\ runner[r].pc = "broken" /\ api' = api /\ captures' = captures
        /\ runner' = [runner EXCEPT ![r].pc = "ended", ![r].results = Append(@, FALSE)]
    BY <1>13 DEF Broken
  <2>2. /\ runner'[r].pc = "ended" /\ runner'[r].index = runner[r].index
        /\ runner'[r].graceful = runner[r].graceful /\ \A q \in Runners \ {r} : runner'[q] = runner[q]
    BY <1>0, <2>1 DEF RunnerFields
  <2> QED
    BY <2>1, <2>2, RecordQuiet, FilesKept DEF Serving, Stopping, Ending
<1>14. CASE Killed(r)
  <2>1. runner' = [runner EXCEPT ![r].pc = "dead"] /\ api' = api /\ captures' = captures
    BY <1>14 DEF Killed
  <2> QED
    BY <1>b, <2>1 DEF Serving, Stopping, Ending
<1> QED
  BY <1>1, <1>2, <1>3, <1>4, <1>5, <1>6, <1>7, <1>8, <1>9, <1>10, <1>11, <1>12, <1>13, <1>14
     DEF Step

\* Only the first to start for a run becomes its recorder.
LEMMA RecorderStarts ==
  ASSUME RecordInv, QuitInv', NEW r \in Runners, Nobody \notin Runners,
         ApiStarts(r), campaign' = campaign
  PROVE  RecordInv'
<1> DEFINE n == api[r].run
           files == [captures[n] EXCEPT !.recorder = r]
<1>0. /\ DOMAIN api = Runners /\ DOMAIN api[r] = ApiFields /\ RunnerRecord(r) /\ n \in DOMAIN captures
      /\ \A m \in DOMAIN captures : DOMAIN captures[m] = FileFields
      /\ ReportedIsRecorded /\ \A q \in Runners : RunnerRecord(q)
  BY DEF RecordInv, QuitInv, RunnerShape, RunnerRecord
<1>1. api[r].state = "starting" /\ runner' = runner
  BY DEF ApiStarts
<1>2. CASE captures[n].recorder # Nobody
  <2>1. api' = [api EXCEPT ![r].state = "exited"] /\ captures' = captures
    BY <1>2 DEF ApiStarts
  <2> QED
    BY <1>1, <2>1, RecordProcess, FilesKept DEF Recording
<1>3. CASE captures[n].recorder = Nobody
  <2>1. api' = [api EXCEPT ![r].state = "ready"] /\ captures' = [captures EXCEPT ![n] = files]
    BY <1>3 DEF ApiStarts
  <2>2. DOMAIN files = FileFields /\ files.recorder = r /\ files.runtime = captures[n].runtime
    BY <1>0 DEF FileFields
  <2> HIDE DEF files
  <2>3. /\ DOMAIN captures' = DOMAIN captures /\ captures'[n] = files
        /\ \A m \in DOMAIN captures \ {n} : captures'[m] = captures[m]
        /\ \A m \in DOMAIN captures : DOMAIN captures'[m] = FileFields
    BY <1>0, <2>1, <2>2
  <2>4. /\ api'[r].state = "ready" /\ api'[r].run = n
        /\ \A q \in Runners \ {r} : api'[q] = api[q]
    BY <1>0, <2>1 DEF ApiFields
  <2>5. RunnerRecord(r)'
    BY <1>0, <1>1, <2>2, <2>3, <2>4 DEF RunnerRecord
  <2>6. ASSUME NEW q \in Runners \ {r} PROVE RunnerRecord(q)'
    <3>1. api[q].state \in Recording => api[q].run # n
      BY <1>0, <1>3 DEF RunnerRecord
    <3>2. RunnerRecord(q) /\ runner'[q] = runner[q] /\ api'[q] = api[q]
      BY <1>0, <1>1, <2>4
    <3> QED
      BY <2>3, <3>1, <3>2 DEF RunnerRecord
  <2>7. ReportedIsRecorded'
    BY <1>0, <1>3, <2>2, <2>3 DEF ReportedIsRecorded
  <2> QED
    BY <2>3, <2>5, <2>6, <2>7 DEF RecordInv
<1> QED
  BY <1>2, <1>3

LEMMA RecordRest ==
  ASSUME RecordInv, QuitInv', KeepsFiles, runner' = runner, api' = api
  PROVE  RecordInv'
<1>1. \A r \in Runners : RunnerRecord(r)'
  BY DEF RecordInv, RunnerRecord, KeepsFiles
<1>2. ReportedIsRecorded'
  BY DEF RecordInv, ReportedIsRecorded, KeepsFiles
<1> QED
  BY <1>1, <1>2 DEF RecordInv, KeepsFiles

LEMMA RecordProcesses ==
  ASSUME RecordInv, QuitInv', NEW r \in Runners, Nobody \notin Runners, campaign' = campaign,
         Process(r) \/ ApiDies(r) \/ \E c : Session(r, c)
  PROVE  RecordInv'
<1>1. CASE ServerStarts(r) \/ ServerExits(r)
  BY <1>1, RecordRest, FilesKept DEF ServerStarts, ServerExits
<1>2. CASE Post(r)
  <2> DEFINE n == api[port[8000]].run
             written == Append(captures[n].features, Head(server[r].pending))
  <2>1. runner' = runner /\ api' = api
    BY <1>2 DEF Post
  <2>2. \/ captures' = captures
        \/ captures' = [captures EXCEPT ![n].features = written]
        \/ captures' = [captures EXCEPT ![n].dropped = TRUE]
    BY <1>2 DEF Post
  <2> HIDE DEF n, written
  <2>3. KeepsFiles
    <3>1. CASE captures' = captures
      BY <3>1, FilesKept
    <3>2. CASE captures' = [captures EXCEPT ![n].features = written]
      BY <3>2, FilesKept DEF FileFields
    <3>3. CASE captures' = [captures EXCEPT ![n].dropped = TRUE]
      BY <3>3, FilesKept DEF FileFields
    <3> QED
      BY <2>2, <3>1, <3>2, <3>3
  <2> QED
    BY <2>1, <2>3, RecordRest
<1>3. CASE ApiStarts(r)
  BY <1>3, RecorderStarts
<1>4. CASE ApiBinds(r)
  <2>1. /\ runner' = runner /\ api[r].state = "ready"
        /\ \/ captures' = captures
           \/ \E n, x : captures' = [captures EXCEPT ![n] = [captures[n] EXCEPT !["complete"] = x]]
        /\ \E s : api' = [api EXCEPT ![r].state = s]
    BY <1>4 DEF ApiBinds
  <2> QED
    BY <2>1, RecordProcess, FilesKept DEF FileFields, Recording
<1>5. CASE ApiExits(r)
  <2> DEFINE n == api[r].run
             whole == ~captures[n].dropped
  <2>1. /\ runner' = runner /\ api[r].state = "up"
        /\ captures' = [captures EXCEPT ![n].complete = whole]
        /\ api' = [api EXCEPT ![r].state = "exited0"]
    BY <1>5 DEF ApiExits
  <2> HIDE DEF n, whole
  <2>2. KeepsFiles
    BY <2>1, FilesKept DEF FileFields
  <2> QED
    BY <2>1, <2>2, RecordProcess DEF Recording
<1>6. CASE ApiDies(r)
  <2>1. /\ runner' = runner /\ api[r].state = "up" /\ captures' = captures
        /\ api' = [api EXCEPT ![r].state = "exited"]
    BY <1>6 DEF ApiDies
  <2> QED
    BY <2>1, RecordProcess, FilesKept DEF Recording
<1>7. ASSUME NEW c, Session(r, c) PROVE RecordInv'
  BY <1>7, SessionKeeps, RecordRest, FilesKept
<1> QED
  BY <1>1, <1>2, <1>3, <1>4, <1>5, <1>6, <1>7 DEF Process

LEMMA RecordStep ==
  ASSUME RecordInv, Nobody \notin Runners, [CampaignNext]_campaignVars
  PROVE  RecordInv'
<1>0. QuitInv'
  BY QuitStep DEF RecordInv
<1>1. CASE UNCHANGED campaignVars
  BY <1>0, <1>1, RecordRest, FilesKept DEF campaignVars
<1>2. ASSUME NEW r \in Runners, RunnerNext(r), campaign' = campaign
      PROVE  RecordInv'
  BY <1>0, <1>2, RecordRunner, RecordProcesses DEF RunnerNext
<1> QED
  BY <1>1, <1>2 DEF CampaignNext

LEMMA RecordInit ==
  ASSUME \A m \in Campaigns : Len(m.runs) \in Nat \ {0}, CampaignInit
  PROVE  RecordInv
<1>1. QuitInv
  BY QuitInit
<1>2. /\ Len(campaign.runs) \in Nat \ {0}
      /\ captures = [n \in 1..Len(campaign.runs) |-> NoFiles]
  BY DEF CampaignInit, Runs, Positions
<1>3. DOMAIN NoFiles = FileFields /\ NoFiles.runtime = NoResult
  BY DEF NoFiles, FileFields
<1>4. NoResult.api = FALSE
  BY DEF NoResult
<1>5. ReportedIsRecorded
  BY <1>2, <1>3, <1>4 DEF ReportedIsRecorded
<1>6. \A r \in Runners : RunnerRecord(r)
  <2> SUFFICES ASSUME NEW r \in Runners PROVE RunnerRecord(r)
    OBVIOUS
  <2> DEFINE first == [pc |-> "idle", index |-> 1, passed |-> FALSE,
                       graceful |-> <<FALSE, FALSE>>, results |-> <<>>]
  <2>a. runner = [q \in Runners |-> first]
    BY DEF CampaignInit
  <2>b. first.index = 1 /\ first.pc = "idle" /\ first.graceful = <<FALSE, FALSE>>
    OBVIOUS
  <2> HIDE DEF first
  <2>0. runner[r].index = 1 /\ runner[r].pc = "idle" /\ runner[r].graceful = <<FALSE, FALSE>>
    BY <2>a, <2>b
  <2>1. api[r].run = 1 /\ api[r].state = "none"
    BY DEF CampaignInit, NoProcess
  <2>2. 1 \in DOMAIN captures
    BY <1>2
  <2>3. DOMAIN runner[r].graceful = {1, 2} /\ runner[r].graceful[2] = FALSE
    BY <2>0
  <2> QED
    BY <2>0, <2>1, <2>2, <2>3 DEF RunnerRecord, Recording, Serving, Stopping
<1> QED
  BY <1>1, <1>2, <1>3, <1>5, <1>6 DEF RecordInv

\* A runner that reports a run with an API that ended well reports the run its
\* own API recorded, although it may have read the status of another's API
\* and passed the port check together with it: one half of what makes a run
\* fit for training (EligibleIsGenuine).  Campaigns have at least one run.
THEOREM ReporterIsRecorder ==
  ASSUME Nobody \notin Runners, \A m \in Campaigns : Len(m.runs) \in Nat \ {0}
  PROVE  CampaignSpec => []ReportedIsRecorded
<1>1. CampaignInit => RecordInv
  BY RecordInit
<1>2. RecordInv /\ [CampaignNext]_campaignVars => RecordInv'
  BY RecordStep
<1>3. RecordInv => ReportedIsRecorded
  BY DEF RecordInv
<1>4. CampaignSpec => CampaignInit /\ [][CampaignNext]_campaignVars
  BY PTL DEF CampaignSpec
<1> QED
  BY <1>1, <1>2, <1>3, <1>4, PTL
=============================================================================
