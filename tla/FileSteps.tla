----------------------------- MODULE FileSteps -----------------------------
(***************************************************************************)
(* The steps of which the scripts under src/AI are made, as far as they    *)
(* touch files that others touch too.  A script is a sequence of them;     *)
(* Pipeline says what each one does.                                       *)
(*                                                                         *)
(* A file is named by its place and its name.  Files that are always read, *)
(* hashed or written together by one loop are one file here.               *)
(***************************************************************************)
EXTENDS Sequences

In(name) == <<"in", name>>           \* what the script is given
Out(o, name) == <<o, name>>          \* in its artifact directory, or a report of its prefix

Absent(F) == [op |-> "absent", files |-> F]       \* raises when one of F exists
Read(F) == [op |-> "read", files |-> F]           \* its content is used
Peek(F) == [op |-> "peek", files |-> F]           \* read before any digest of it is known
Hash(F) == [op |-> "hash", files |-> F]           \* its digest is recorded as evidence
Take(F) == [op |-> "take", files |-> F]           \* read once; the digest of the same bytes is recorded
\* m read; what it says of F becomes evidence, what it says of G must be the evidence already
Claim(m, F, G) == [op |-> "claim", from |-> m, files |-> F, also |-> G]
Described(m, F) == [op |-> "described", from |-> m, files |-> F]  \* F on disk is as m says
\* m read once: its digest and what it says of F become evidence
Manifest(m, F) == [op |-> "manifest", from |-> m, files |-> F]
\* m read once, its digest the configured one; what it says of F becomes evidence
Pinned(m, F) == [op |-> "pinned", from |-> m, files |-> F]
Pin(F) == [op |-> "pin", files |-> F]             \* the digests of F are the configured ones
\* m read once, its bytes match the evidence, and it says of g what is recorded for f
Agrees(m, f, g) == [op |-> "agrees", files |-> {m}, from |-> m, file |-> f, as |-> g]
Verified(F) == [op |-> "verified", files |-> F]   \* read once; the same bytes must match the evidence
Verify(F) == [op |-> "verify", files |-> F]       \* raises unless F on disk matches the evidence
VerifyAll == [op |-> "verify_all"]                \* the same for all evidence
Unchanged(F) == [op |-> "unchanged", files |-> F] \* the evidence of F is what it was at first
AsFirst(F) == [op |-> "as_first", files |-> F]    \* F on disk has the digests known of it at first
VerifyWithoutTest == [op |-> "verify_without_test"]
Check == [op |-> "check"]                         \* raises on what was read or computed
Create(F) == [op |-> "create", files |-> F]       \* mode "x", or mkdir: raises when one of F exists
Put(F) == [op |-> "put", files |-> F]             \* writes whether it exists or not
Copy(from, to) == [op |-> "copy", from |-> from, files |-> {to}]
Matches(f, g) == [op |-> "matches", files |-> {f}, from |-> g]  \* f on disk has the digest recorded for g
Equal(f, g) == [op |-> "equal", files |-> {f}, from |-> g]      \* f and g on disk have the same digest
\* m is written under mode "x": with all evidence and the digests of F, or with those of F alone
Publish(m, F) == [op |-> "publish", files |-> {m}, inventory |-> F]
Report(m, F) == [op |-> "report", files |-> {m}, inventory |-> F]
Rewrite(m, F) == [op |-> "rewrite", files |-> {m}, inventory |-> F]  \* as Report, whether m exists or not
Try(f) == [op |-> "try", files |-> {f}]           \* f records the error of what follows

\* The holdout: what m claims of Test, whether m claims the same, the receipt
\* created under exclusive mode, written or compared, and Test itself.
Expect(m) == [op |-> "expect", from |-> m]
AsExpected(m) == [op |-> "as_expected", from |-> m]
Reserve == [op |-> "reserve"]
Settle == [op |-> "settle"]
Allowed(gate) == [op |-> "allowed", from |-> gate]
OpenTest == [op |-> "open_test"]

\* steps that the script may leave out, depending on what it computed
Maybe(steps) == <<[op |-> "maybe", skip |-> Len(steps)]>> \o steps

Files(steps) ==
    UNION {(IF "files" \in DOMAIN steps[i] THEN steps[i].files ELSE {}) \cup
           (IF "also" \in DOMAIN steps[i] THEN steps[i].also ELSE {}) \cup
           (IF "from" \in DOMAIN steps[i] THEN {steps[i].from} ELSE {}) : i \in DOMAIN steps}

=============================================================================
