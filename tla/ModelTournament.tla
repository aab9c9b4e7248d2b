---------------------------- MODULE ModelTournament ----------------------------
(***************************************************************************)
(* The runners of the V7, V7.1 and V7.3 benchmarks: a development command  *)
(* selects a model and freezes it, a validation command opens the          *)
(* validation packs with it; V7.3 does both in one run.  Commands may      *)
(* overlap and may be killed, also in the middle of a write; between them  *)
(* a person edits the sources and commits the worktree.  Nobody edits      *)
(* while a command runs.                                                   *)
(*                                                                         *)
(* What a command looks for in a file and what it then writes are steps of *)
(* their own.  A write is one step: a command that reads a file which      *)
(* another has half written raises, and has written nothing.               *)
(***************************************************************************)
EXTENDS Naturals, Sequences

CONSTANTS
    Benchmarks,     \* those a behaviour is about
    Sources,        \* versions of the source tree
    SpecsOf,        \* the world specifications of a version
    WinnersOf,      \* the models a version may select, none when no model is eligible
    Commands,       \* processes
    MaxLaunches, MaxCommits,
    Missing, Broken \* a file that is not there; one whose writer was killed

Models == {"none", "unproven"} \cup UNION {WinnersOf[t] : t \in Sources}
Freezes == [model : Models, tree : Sources, head : Nat]
SourceLocks == [model : Models, tree : Sources]
SpecLocks == [model : Models, tree : {SpecsOf[t] : t \in Sources}]

ASSUME TournamentAssumption ==
    /\ Benchmarks \subseteq {"v7", "v7_1", "v7_3"}
    /\ Missing # Broken
    /\ \A f \in {Missing, Broken} : f \notin Freezes /\ f \notin SourceLocks /\ f \notin SpecLocks
    /\ MaxLaunches \in Nat /\ MaxCommits \in Nat

VARIABLES
    study,          \* the benchmark
    tree, clean, head,  \* the version on disk, git status is empty, commits since the first
    manifests,      \* specifications of the packs that were materialized
    files,          \* the freezes, the lock and the results
    running,        \* what each process does
    opened,         \* every evaluation of the validation packs
    launches, crossed, killed

tournamentVars ==
    <<study, tree, clean, head, manifests, files, running, opened, launches, crossed, killed>>

FileNames == {"tournament", "freeze", "source_freeze", "lock", "validation", "sealed", "outcome"}
\* A command is about to write a file, or to look whether it may.
Checks == {"check_freeze", "check_lock", "read_freeze"}

Resting == [at |-> "rest"]
Whole(f) == files[f] \notin {Missing, Broken}

-------------------------------------------------------------------------------
(* Between the commands.                                                   *)

NoneRuns == \A p \in Commands : running[p] = Resting

EditTree ==
    /\ NoneRuns
    /\ tree' \in Sources \ {tree}
    /\ clean' = FALSE
    /\ UNCHANGED <<study, head, manifests, files, running, opened, launches, crossed, killed>>

CommitTree ==
    /\ NoneRuns /\ ~clean /\ head < MaxCommits
    /\ clean' = TRUE /\ head' = head + 1
    /\ UNCHANGED <<study, tree, manifests, files, running, opened, launches, crossed, killed>>

-------------------------------------------------------------------------------
(* The start of a command.                                                 *)

Launch(p, job) ==
    /\ running[p] = Resting /\ launches < MaxLaunches
    /\ launches' = launches + 1
    /\ crossed' = (crossed \/ ~NoneRuns)
    /\ running' = [running EXCEPT ![p] = job]
    /\ UNCHANGED <<study, tree, clean, head, files, opened, killed>>

\* write_manifest: a pack that was written before must be the same.
Materialize == manifests \in {Missing, SpecsOf[tree]} /\ manifests' = SpecsOf[tree]

Job(at, model) == [at |-> at, model |-> model, tree |-> tree, head |-> head, passed |-> TRUE]

\* The first model with the highest score; V7 asks none to be eligible.
Winner(t, none) == IF WinnersOf[t] = {} THEN none ELSE CHOOSE m \in WinnersOf[t] : TRUE

DevelopV7(p) ==
    /\ study = "v7" /\ files["lock"] = Missing
    /\ Launch(p, Job("check_freeze", Winner(tree, "unproven")))
    /\ Materialize

\* The running time breaks a tie.
DevelopV71(p) ==
    /\ study = "v7_1" /\ clean /\ files["lock"] = Missing
    /\ \/ \E m \in WinnersOf[tree] : Launch(p, Job("tournament", m))
       \/ WinnersOf[tree] = {} /\ Launch(p, Job("tournament", "none"))
    /\ Materialize

\* V72_REFERENCE is the commit everything starts from.
RunV73(p) ==
    /\ study = "v7_3" /\ head = 0
    /\ Launch(p, Job("tournament", Winner(tree, "none")))
    /\ UNCHANGED manifests

ValidateV7(p) ==
    /\ study = "v7" /\ Whole("freeze") /\ SpecsOf[files["freeze"].tree] = SpecsOf[tree]
    /\ Launch(p, Job("check_lock", files["freeze"].model))
    /\ Materialize

\* The lock is looked for before the freeze is read, and not again.
ValidateV71(p) ==
    /\ study = "v7_1" /\ clean /\ files["lock"] = Missing
    /\ Launch(p, Job("read_freeze", "none"))
    /\ UNCHANGED manifests

-------------------------------------------------------------------------------
(* Its writes, in the order of the code.                                   *)

At(p, at) == running[p].at = at

Write(f, content) ==
    /\ files' = [files EXCEPT ![f] = content]
    /\ clean' = (clean /\ files[f] = content)

Go(p, at) == running' = [running EXCEPT ![p] = IF at = "rest" THEN Resting ELSE [@ EXCEPT !.at = at]]

Unmoved == UNCHANGED <<study, tree, head, manifests, launches, crossed, killed>>

\* What a file of this command says.
Of(p) == [model |-> running[p].model, tree |-> running[p].tree]

WriteTournament(p) ==
    /\ At(p, "tournament")
    /\ Write("tournament", Of(p))
    /\ Go(p, CASE study = "v7_3" -> IF running[p].model = "none" THEN "outcome" ELSE "freeze"
               [] OTHER -> IF running[p].model = "none" THEN "rest" ELSE "check_freeze")
    /\ UNCHANGED opened /\ Unmoved

\* V7 freezes the scores, V7.1 the source tree and the commit.
FreezeOf(p) ==
    [model |-> running[p].model, tree |-> running[p].tree,
     head |-> IF study = "v7_1" THEN running[p].head ELSE 0]

Freezable(p) == files["freeze"] \in {Missing, FreezeOf(p)}

CheckFreeze(p) ==
    /\ At(p, "check_freeze") /\ Freezable(p)
    /\ Go(p, "freeze")
    /\ UNCHANGED <<files, clean, opened>> /\ Unmoved

RefuseFreeze(p) ==
    /\ At(p, "check_freeze") /\ ~Freezable(p)
    /\ Go(p, "rest")
    /\ UNCHANGED <<files, clean, opened>> /\ Unmoved

\* Whatever is there now; V7.3 did not even look.
WriteFreeze(p) ==
    /\ At(p, "freeze")
    /\ Write("freeze", FreezeOf(p))
    /\ Go(p, CASE study = "v7" -> "results" [] study = "v7_1" -> "source_freeze" [] OTHER -> "validation")
    /\ UNCHANGED opened /\ Unmoved

WriteDevelopmentResults(p) ==
    /\ At(p, "results")
    /\ Write("tournament", Of(p))
    /\ Go(p, "rest")
    /\ UNCHANGED opened /\ Unmoved

WriteSourceFreeze(p) ==
    /\ At(p, "source_freeze")
    /\ Write("source_freeze", FreezeOf(p))
    /\ Go(p, "rest")
    /\ UNCHANGED opened /\ Unmoved

\* V7.1 opens the packs with the model that is frozen now, if these sources froze it.
Openable == Whole("freeze") /\ files["source_freeze"] # Missing /\ files["freeze"].tree = tree

\* Mutant: the source tree is not compared.
ReadEdited(p) ==
    /\ At(p, "read_freeze") /\ Whole("freeze") /\ files["source_freeze"] # Missing
    /\ running' = [running EXCEPT ![p].at = "lock", ![p].model = files["freeze"].model]
    /\ UNCHANGED <<files, clean, opened>> /\ Unmoved

ReadFreeze(p) ==
    /\ At(p, "read_freeze") /\ Openable
    /\ running' = [running EXCEPT ![p].at = "lock", ![p].model = files["freeze"].model]
    /\ UNCHANGED <<files, clean, opened>> /\ Unmoved

RefuseValidation(p) ==
    /\ At(p, "read_freeze") /\ ~Openable
    /\ Go(p, "rest")
    /\ UNCHANGED <<files, clean, opened>> /\ Unmoved

\* V7 locks the model and the specifications and accepts an equal lock; V7.1 overwrites.
LockOf(p) ==
    [model |-> running[p].model, tree |-> IF study = "v7" THEN SpecsOf[running[p].tree] ELSE running[p].tree]
Lockable(p) == files["lock"] \in {Missing, LockOf(p)}

CheckLock(p) ==
    /\ At(p, "check_lock") /\ Lockable(p)
    /\ Go(p, "lock")
    /\ UNCHANGED <<files, clean, opened>> /\ Unmoved

RefuseLock(p) ==
    /\ At(p, "check_lock") /\ ~Lockable(p)
    /\ Go(p, "rest")
    /\ UNCHANGED <<files, clean, opened>> /\ Unmoved

WriteLock(p) ==
    /\ At(p, "lock")
    /\ Write("lock", LockOf(p))
    /\ Go(p, "validation")
    /\ UNCHANGED opened /\ Unmoved

\* The packs are evaluated and the result is written.
OpenValidation(p) ==
    /\ At(p, "validation") /\ study # "v7_3"
    /\ opened' = Append(opened, Of(p))
    /\ Write("validation", Of(p))
    /\ Go(p, "rest")
    /\ Unmoved

Verdict(p, passed) == [model |-> running[p].model, tree |-> running[p].tree, passed |-> passed]

\* The two frozen levels of V7.3; the second only when the first passes.
RunFrozenLevel(p, f, next) ==
    /\ At(p, f) /\ study = "v7_3"
    /\ \E passed \in BOOLEAN :
        /\ Write(f, Verdict(p, passed))
        /\ running' = [running EXCEPT ![p].at = IF passed THEN next ELSE "outcome", ![p].passed = passed]
    /\ UNCHANGED opened /\ Unmoved

WriteOutcome(p) ==
    /\ At(p, "outcome")
    /\ Write("outcome", Verdict(p, running[p].passed /\ running[p].model # "none"))
    /\ Go(p, "rest")
    /\ UNCHANGED opened /\ Unmoved

-------------------------------------------------------------------------------
(* A command is killed, perhaps while it writes.                           *)

FileAt(at) == IF at = "results" THEN "tournament" ELSE at

KillRunner(p) ==
    /\ running[p] # Resting
    /\ running' = [running EXCEPT ![p] = Resting]
    /\ killed' = TRUE
    /\ \/ UNCHANGED <<files, clean>>
       \/ /\ running[p].at \notin Checks
          /\ Write(FileAt(running[p].at), Broken)
    /\ UNCHANGED <<study, tree, head, manifests, opened, launches, crossed>>

-------------------------------------------------------------------------------
TournamentInit ==
    /\ study \in Benchmarks
    /\ tree \in Sources /\ clean = TRUE /\ head = 0
    /\ manifests = Missing
    /\ files = [f \in FileNames |-> Missing]
    /\ running = [p \in Commands |-> Resting]
    /\ opened = << >>
    /\ launches = 0 /\ crossed = FALSE /\ killed = FALSE

TournamentNext ==
    \/ EditTree \/ CommitTree
    \/ \E p \in Commands :
        \/ DevelopV7(p) \/ DevelopV71(p) \/ RunV73(p) \/ ValidateV7(p) \/ ValidateV71(p)
        \/ WriteTournament(p) \/ CheckFreeze(p) \/ RefuseFreeze(p) \/ WriteFreeze(p)
        \/ WriteDevelopmentResults(p) \/ WriteSourceFreeze(p)
        \/ ReadFreeze(p) \/ RefuseValidation(p)
        \/ CheckLock(p) \/ RefuseLock(p) \/ WriteLock(p) \/ OpenValidation(p)
        \/ RunFrozenLevel(p, "validation", "sealed") \/ RunFrozenLevel(p, "sealed", "outcome")
        \/ WriteOutcome(p)
        \/ KillRunner(p)

TournamentSpec == TournamentInit /\ [][TournamentNext]_tournamentVars

TournamentTypeOK ==
    /\ tree \in Sources /\ clean \in BOOLEAN /\ head \in 0..MaxCommits
    /\ DOMAIN files = FileNames
    /\ \A i \in 1..Len(opened) : opened[i].tree \in Sources

-------------------------------------------------------------------------------
(* Properties.                                                             *)

Openings == {opened[i] : i \in 1..Len(opened)}

\* Two V7.1 developments may both find no freeze and select different models, one by a tie that the
\* running time breaks; the later one then overwrites the freeze of the other.
Overwritten == study = "v7_1" /\ crossed

\* Every opening of the validation packs used the model that is frozen, and the freeze is the same
\* ever after unless a killed rerun truncated it.  In V7 the frozen specifications are evaluated,
\* perhaps by sources edited since and as often as one likes; in V7.1 the frozen sources evaluate
\* them, once unless two commands crossed.  When they did, the frozen model may be another's, and that
\* of the source freeze another's still; the sources and the commit are those of all of them.
\* V7.3 reports success only when both levels passed with the selected and frozen gate, and without
\* overlap or kill its files on disk say so too.
ValidationRestsOnFreeze ==
    /\ opened # << >> => files["freeze"] # Missing
    /\ \A v \in Openings : Whole("freeze") =>
           /\ v.model = files["freeze"].model \/ Overwritten
           /\ SpecsOf[v.tree] = SpecsOf[files["freeze"].tree]
           /\ study = "v7_1" => v.tree = files["freeze"].tree
    /\ study = "v7_1" => Len(opened) <= 1 \/ crossed
    /\ Whole("source_freeze") /\ Whole("freeze") =>
           /\ files["source_freeze"].model = files["freeze"].model \/ Overwritten
           /\ files["source_freeze"].tree = files["freeze"].tree
           /\ files["source_freeze"].head = files["freeze"].head
    /\ NoneRuns /\ Whole("outcome") /\ files["outcome"].passed /\ ~crossed /\ ~killed =>
           /\ files["validation"] = files["outcome"] /\ files["sealed"] = files["outcome"]
           /\ files["freeze"].model = files["outcome"].model
           /\ files["tournament"] = [model |-> files["outcome"].model, tree |-> files["outcome"].tree]
===============================================================================
