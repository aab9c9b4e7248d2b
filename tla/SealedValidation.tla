--------------------------- MODULE SealedValidation ----------------------------
(***************************************************************************)
(* The one-shot validations of V8 (Hillstrom) and V9 (two price studies).  *)
(* A policy is frozen with the hashes of its sources; the runner checks    *)
(* them, creates the reveal-start lock exclusively, and only then reads    *)
(* the outcomes.  What it finds goes to three files in order: sufficient   *)
(* statistics, result, consumed lock.  V9 reveals its studies one after    *)
(* the other in one command, V8 turns a failure into a consumed lock.      *)
(*                                                                         *)
(* Runners are processes in one directory; each may raise or be killed at  *)
(* any step, also while it writes a file, which then is torn.  Sources,    *)
(* with the configuration of the analysis, are versions: a person may edit *)
(* them at any time, also while a runner, that has the programs loaded but *)
(* reads the configuration only when it comes to it, is at work.           *)
(***************************************************************************)
EXTENDS Integers, Sequences

CONSTANTS
    Runners,
    V9Studies,      \* the order of reveal_all
    V8Study,
    MaxStarts       \* bound on the commands that start

Studies == {V8Study} \cup {V9Studies[i] : i \in DOMAIN V9Studies}
Versions == {1, 2}
Verdicts == {"confirmed", "not_confirmed"}

ASSUME SealedAssumption ==
    /\ V9Studies \in Seq(Studies) /\ V9Studies # <<>>
    /\ MaxStarts \in Nat

VARIABLES
    proof,          \* which of the two validations
    sources,        \* the version in the working tree
    freeze,         \* the frozen version, 0 before the freeze
    started, statistics, result, consumedLock,  \* files of a study: absent, torn or whole
    runner,         \* step, place in the order of the studies, configuration and verdict of a
                    \* runner, and whether the sources were edited since it verified them
    reads,          \* history: how often the outcomes of a study were read
    readWith,       \* history: the configuration they were analyzed with, and was it edited
    final,          \* V9_RESULT.json, the statuses it reports
    starts

sealedFiles == <<started, statistics, result, consumedLock>>
sealedVars == <<proof, sources, freeze, sealedFiles, runner, reads, readWith, final, starts>>

Idle == [step |-> "idle", at |-> 1, config |-> 0, verdict |-> "confirmed", edited |-> FALSE]
Steps == {"idle", "verified", "configured", "checked", "locked", "analyzed", "statistics", "result"}

SealedTypeOK ==
    /\ proof \in {"V8", "V9"}
    /\ sources \in Versions /\ freeze \in Versions \cup {0}
    /\ started \in [Studies -> {"absent", "torn", "whole"}]
    /\ statistics \in [Studies -> {"absent", "torn"} \cup Verdicts]
    /\ result \in [Studies -> {"absent", "torn"} \cup Verdicts]
    /\ consumedLock \in [Studies -> {"absent", "torn", "invalid"} \cup Verdicts]
    /\ runner \in [Runners -> [step : Steps, at : 1..Len(V9Studies), config : Versions \cup {0},
                            verdict : Verdicts, edited : BOOLEAN]]
    /\ reads \in [Studies -> Nat]
    /\ readWith \in [Studies -> [config : Versions \cup {0}, edited : BOOLEAN]]
    /\ final \in SUBSET (Studies \X Verdicts)
    /\ starts \in 0..MaxStarts

SealedInit ==
    /\ proof \in {"V8", "V9"}
    /\ sources = 1 /\ freeze = 0
    /\ started = [s \in Studies |-> "absent"]
    /\ statistics = [s \in Studies |-> "absent"]
    /\ result = [s \in Studies |-> "absent"]
    /\ consumedLock = [s \in Studies |-> "absent"]
    /\ runner = [r \in Runners |-> Idle]
    /\ reads = [s \in Studies |-> 0]
    /\ readWith = [s \in Studies |-> [config |-> 0, edited |-> FALSE]]
    /\ final = {}
    /\ starts = 0

Order == IF proof = "V8" THEN <<V8Study>> ELSE V9Studies
StudyOf(r) == Order[runner[r].at]
Goto(r, step) == runner' = [runner EXCEPT ![r].step = step]
Untouched(s) == started[s] = "absent" /\ result[s] = "absent" /\ consumedLock[s] = "absent"

-------------------------------------------------------------------------------
(* The person at the keyboard.                                             *)

EditSources ==
    /\ sources' = 3 - sources
    /\ runner' = [r \in Runners |->
           IF runner[r].step = "idle" THEN runner[r] ELSE [runner[r] EXCEPT !.edited = TRUE]]
    /\ UNCHANGED <<proof, freeze, sealedFiles, reads, readWith, final, starts>>

\* A freeze cannot be replaced; V8 asks that nothing was revealed, V9 does not.
CreateFreezeV8 ==
    /\ proof = "V8" /\ freeze = 0 /\ Untouched(V8Study)
    /\ freeze' = sources
    /\ UNCHANGED <<proof, sources, sealedFiles, runner, reads, readWith, final, starts>>

CreateFreezeV9 ==
    /\ proof = "V9" /\ freeze = 0
    /\ freeze' = sources
    /\ UNCHANGED <<proof, sources, sealedFiles, runner, reads, readWith, final, starts>>

-------------------------------------------------------------------------------
(* A runner.  Its sources are the frozen ones.                             *)

Verify(r, step) ==
    /\ runner[r].step = "idle"
    /\ starts < MaxStarts
    /\ freeze # 0 /\ sources = freeze
    /\ runner' = [runner EXCEPT ![r] = [Idle EXCEPT !.step = step]]
    /\ starts' = starts + 1
    /\ UNCHANGED <<proof, sources, freeze, sealedFiles, reads, readWith, final>>

\* V8 asks again that nothing was revealed.
VerifyV8(r) == proof = "V8" /\ Untouched(V8Study) /\ Verify(r, "verified")

VerifyV9(r) == proof = "V9" /\ Verify(r, "configured")

\* V8 reads the configuration before the reveal, V9 after it.
ReadConfig(r) ==
    /\ runner[r].step = "verified"
    /\ runner' = [runner EXCEPT ![r].step = "configured", ![r].config = sources]
    /\ UNCHANGED <<proof, sources, freeze, sealedFiles, reads, readWith, final, starts>>

\* begin_reveal: the files are looked for, then the lock is created.
CheckUntouched(r) ==
    /\ runner[r].step = "configured"
    /\ Untouched(StudyOf(r))
    /\ Goto(r, "checked")
    /\ UNCHANGED <<proof, sources, freeze, sealedFiles, reads, readWith, final, starts>>

\* Mutant: the lock is written, not created.
LockOpen(r) ==
    /\ runner[r].step = "checked"
    /\ started' = [started EXCEPT ![StudyOf(r)] = "whole"]
    /\ Goto(r, "locked")
    /\ UNCHANGED <<proof, sources, freeze, statistics, result, consumedLock, reads, readWith, final, starts>>

LockReveal(r) ==
    /\ runner[r].step = "checked"
    /\ started[StudyOf(r)] = "absent"
    /\ started' = [started EXCEPT ![StudyOf(r)] = "whole"]
    /\ Goto(r, "locked")
    /\ UNCHANGED <<proof, sources, freeze, statistics, result, consumedLock, reads, readWith, final, starts>>

\* The outcomes are read and analyzed.
ReadOutcomes(r, config) ==
    /\ runner[r].step = "locked"
    /\ \E verdict \in Verdicts :
           runner' = [runner EXCEPT ![r].step = "analyzed", ![r].verdict = verdict]
    /\ reads' = [reads EXCEPT ![StudyOf(r)] = @ + 1]
    /\ readWith' = [readWith EXCEPT ![StudyOf(r)] = [config |-> config, edited |-> runner[r].edited]]
    /\ UNCHANGED <<proof, sources, freeze, sealedFiles, final, starts>>

\* V8 asks the lock for its authority.
ReadOutcomesV8(r) == proof = "V8" /\ started[V8Study] = "whole" /\ ReadOutcomes(r, runner[r].config)

ReadOutcomesV9(r) == proof = "V9" /\ ReadOutcomes(r, sources)

\* V9 writes them once, V8 writes over them.
WriteStatistics(r) ==
    /\ runner[r].step = "analyzed"
    /\ proof = "V9" => statistics[StudyOf(r)] = "absent"
    /\ statistics' = [statistics EXCEPT ![StudyOf(r)] = runner[r].verdict]
    /\ Goto(r, "statistics")
    /\ UNCHANGED <<proof, sources, freeze, started, result, consumedLock, reads, readWith, final, starts>>

WriteResult(r) ==
    /\ runner[r].step = "statistics"
    /\ result[StudyOf(r)] = "absent"
    /\ result' = [result EXCEPT ![StudyOf(r)] = runner[r].verdict]
    /\ Goto(r, "result")
    /\ UNCHANGED <<proof, sources, freeze, started, statistics, consumedLock, reads, readWith, final, starts>>

\* The consumed lock names the result; V9 goes on with the next study.
Consume(r) ==
    /\ runner[r].step = "result"
    /\ consumedLock[StudyOf(r)] = "absent"
    /\ consumedLock' = [consumedLock EXCEPT ![StudyOf(r)] = result[StudyOf(r)]]
    /\ runner' = [runner EXCEPT ![r] =
           IF runner[r].at < Len(Order)
           THEN [runner[r] EXCEPT !.step = "configured", !.at = @ + 1]
           ELSE Idle]
    /\ UNCHANGED <<proof, sources, freeze, started, statistics, result, reads, readWith, final, starts>>

-------------------------------------------------------------------------------
(* A runner that raises, or is killed.                                     *)

\* Before the lock is there, and everywhere in V9, nothing handles it.
Raise(r) ==
    /\ runner[r].step # "idle"
    /\ proof = "V8" => runner[r].step \in {"verified", "configured", "checked"}
    /\ runner' = [runner EXCEPT ![r] = Idle]
    /\ UNCHANGED <<proof, sources, freeze, sealedFiles, reads, readWith, final, starts>>

\* V8: the split is consumed all the same; a lock that exists stays.
RaiseConsumed(r) ==
    /\ proof = "V8"
    /\ runner[r].step \in {"locked", "analyzed", "statistics", "result"}
    /\ runner' = [runner EXCEPT ![r] = Idle]
    /\ consumedLock' = [consumedLock EXCEPT ![V8Study] = IF @ = "absent" THEN "invalid" ELSE @]
    /\ UNCHANGED <<proof, sources, freeze, started, statistics, result, reads, readWith, final, starts>>

Tear(file, s) == [file EXCEPT ![s] = IF @ = "absent" THEN "torn" ELSE @]

Kill(r) ==
    /\ runner[r].step # "idle"
    /\ runner' = [runner EXCEPT ![r] = Idle]
    /\ LET s == StudyOf(r) IN
       \/ UNCHANGED sealedFiles
       \/ /\ runner[r].step = "checked" /\ started' = Tear(started, s)
          /\ UNCHANGED <<statistics, result, consumedLock>>
       \/ /\ runner[r].step = "analyzed" /\ statistics' = Tear(statistics, s)
          /\ UNCHANGED <<started, result, consumedLock>>
       \/ /\ runner[r].step = "statistics" /\ result' = Tear(result, s)
          /\ UNCHANGED <<started, statistics, consumedLock>>
       \/ /\ runner[r].step = "result" /\ consumedLock' = Tear(consumedLock, s)
          /\ UNCHANGED <<started, statistics, result>>
    /\ UNCHANGED <<proof, sources, freeze, reads, readWith, final, starts>>

-------------------------------------------------------------------------------
(* finalize (V9) reads the results of both studies and hashes their locks. *)

\* Mutant: the locks are not asked for.
FinalizableUnlocked(s) == result[s] \in Verdicts

Finalizable(s) == result[s] \in Verdicts /\ consumedLock[s] # "absent"

Finalize ==
    /\ proof = "V9"
    /\ freeze # 0
    /\ \A i \in DOMAIN Order : Finalizable(Order[i])
    /\ final' = {<<s, result[s]>> : s \in {Order[i] : i \in DOMAIN Order}}
    /\ UNCHANGED <<proof, sources, freeze, sealedFiles, runner, reads, readWith, starts>>

SealedNext ==
    \/ EditSources \/ CreateFreezeV8 \/ CreateFreezeV9 \/ Finalize
    \/ \E r \in Runners :
        \/ VerifyV8(r) \/ VerifyV9(r) \/ ReadConfig(r) \/ CheckUntouched(r) \/ LockReveal(r)
        \/ ReadOutcomesV8(r) \/ ReadOutcomesV9(r)
        \/ WriteStatistics(r) \/ WriteResult(r) \/ Consume(r)
        \/ Raise(r) \/ RaiseConsumed(r) \/ Kill(r)

SealedSpec == SealedInit /\ [][SealedNext]_sealedVars

-------------------------------------------------------------------------------
(* Properties.                                                             *)

\* The outcomes of a study are read once at most, whatever runners race for them, raise or are
\* killed, and only after the freeze and a lock that, whole or torn, tells of every reading.  They
\* are analyzed as the freeze says, unless somebody edited the sources while the runner was at
\* work: the hashes are compared when it starts, the configuration is read later.
OutcomesReadOnce ==
    \A s \in Studies :
        /\ reads[s] <= 1
        /\ reads[s] = 1 =>
               /\ freeze # 0 /\ started[s] # "absent"
               /\ readWith[s].config = freeze \/ readWith[s].edited

\* What the final result of V9 claims of a study is what its only reading found, which left its
\* statistics, its result and its consumed lock behind, and no later reveal can change it.
FinalRestsOnReveal ==
    \A claim \in final :
        /\ reads[claim[1]] = 1
        /\ result[claim[1]] = claim[2] /\ statistics[claim[1]] = claim[2]
        /\ consumedLock[claim[1]] \in {claim[2], "torn"}

===============================================================================
