---------------------------- MODULE FrozenBenchmark ----------------------------
(***************************************************************************)
(* The benchmarks that freeze their predictions before they reveal the     *)
(* outcomes of the final period: a run writes its predictions to a file,   *)
(* appends the hash of the file to the prediction ledger, reads the        *)
(* outcomes and scores what it predicted.  They differ in the order of     *)
(* the steps and in what keeps a second run from revealing again: a marker *)
(* file, the primary key of the ledger, both, or nothing at all.           *)
(*                                                                         *)
(* A program is the sequence of those steps, <<what, batch>>; the models   *)
(* and scores in between are left out, and of several batches that are     *)
(* frozen alike two are kept.  A run is started by hand, again after a     *)
(* crash or an error, and maybe beside another one; the code and the       *)
(* configuration may have changed, so every run predicts its own version.  *)
(* The freeze of the selected model is written by the same command, or, in *)
(* three of them, by a development command that the final one relies on.   *)
(* The ledger is a DuckDB file: one process has it open at a time, and one *)
(* that is unlinked stays open in the process that has it.                 *)
(***************************************************************************)
EXTENDS Integers, Sequences

CONSTANTS
    Processes,
    MaxRuns         \* bound on the runs

ASSUME FrozenAssumption == MaxRuns \in Nat

Batches == 1..2
Freeze(b) == <<<<"predict", b>>, <<"append", b>>>>

-------------------------------------------------------------------------------
(* The programs.                                                           *)

\* Each program in halves where it is long: until all predictions are frozen, and from then on; of
\* the population engines also what compares the outcomes and what reports the comparison.
PopulationV1Freeze == <<<<"predict", 1>>, <<"unlink", 0>>, <<"open", 0>>, <<"append", 1>>>>
PopulationV1Compare == <<<<"reveal", 1>>>>
PopulationV1Report == <<<<"evaluate", 1>>>>

PopulationV2Select == <<<<"freeze", 0>>>>
PopulationV2Freeze == <<<<"predict", 1>>, <<"unlink", 0>>, <<"open", 0>>, <<"append", 1>>>>
PopulationV2Compare == <<<<"reveal", 1>>>>
PopulationV2Report == <<<<"evaluate", 1>>>>

PopulationV3Select == <<<<"freeze", 0>>>>
PopulationV3Freeze == <<<<"predict", 1>>, <<"unlink", 0>>, <<"open", 0>>, <<"append", 1>>>>
PopulationV3Compare == <<<<"reveal", 1>>>>
PopulationV3Report == <<<<"evaluate", 1>>>>

\* Score what they read back from the files.
HillstromEconomicFreeze == <<<<"unlink", 0>>, <<"open", 0>>>> \o Freeze(1) \o Freeze(2)
HillstromEconomicScore ==
    <<<<"reveal", 1>>, <<"reveal", 2>>, <<"evaluate", 1>>, <<"evaluate", 2>>>>

CriteoFreeze == <<<<"open", 0>>>> \o Freeze(1) \o Freeze(2)
CriteoScore == <<<<"reveal", 1>>, <<"evaluate", 1>>, <<"reveal", 2>>, <<"evaluate", 2>>>>

\* Selects whatever was evaluated before.
HMDay1Development == <<<<"freeze", 0>>>>

\* One length of the history after the other.
HMDay1 == <<<<"unmarked", 0>>, <<"frozen", 0>>, <<"open", 0>>>> \o
    Freeze(1) \o <<<<"reveal", 1>>, <<"evaluate", 1>>>> \o
    Freeze(2) \o <<<<"reveal", 2>>, <<"evaluate", 2>>, <<"close", 0>>, <<"mark", 0>>>>

HMDay1V2Development == <<<<"unmarked", 0>>, <<"unmarked", 0>>, <<"freeze", 0>>>>

HMDay1V2 == <<<<"unmarked", 0>>, <<"frozen", 0>>, <<"predict", 1>>, <<"open", 0>>, <<"append", 1>>,
              <<"close", 0>>, <<"unmarked", 0>>, <<"reveal", 1>>, <<"unmarked", 0>>, <<"mark", 0>>>>

JDBehavioralDevelopment == <<<<"unmarked", 0>>, <<"freeze", 0>>>>

JDBehavioral == <<<<"unmarked", 0>>, <<"frozen", 0>>, <<"open", 0>>>> \o Freeze(1) \o Freeze(2) \o
    <<<<"close", 0>>, <<"reveal", 1>>, <<"reveal", 2>>, <<"mark", 0>>>>

JDDynamicsTournament == <<<<"unmarked", 0>>>>
JDDynamicsSelect == <<<<"freeze", 0>>>>
JDDynamicsFreeze == <<<<"predict", 1>>, <<"predict", 2>>, <<"unlink", 0>>, <<"open", 0>>,
                      <<"append", 1>>, <<"append", 2>>, <<"mark", 0>>>>
JDDynamicsScore == <<<<"reveal", 1>>, <<"reveal", 2>>, <<"evaluate", 1>>, <<"evaluate", 2>>>>

RetailRocketSelect == <<<<"unmarked", 0>>, <<"freeze", 0>>>>
RetailRocketFreeze == <<<<"predict", 1>>, <<"no_ledger", 0>>, <<"open", 0>>, <<"append", 1>>,
                        <<"mark", 0>>>>
RetailRocketScore == <<<<"reveal", 1>>, <<"evaluate", 1>>>>

Dunnhumby == <<<<"unmarked", 0>>, <<"freeze", 0>>, <<"predict", 1>>, <<"open", 0>>, <<"append", 1>>,
               <<"mark", 0>>, <<"reveal", 1>>, <<"evaluate", 1>>>>

\* These put the prediction itself in the row.
HillstromRctFreeze == <<<<"open", 0>>, <<"insert", 1>>>>
HillstromRctScore == <<<<"reveal", 1>>>>

DunnhumbyLayer3 == <<<<"open", 0>>, <<"insert", 1>>, <<"predict", 1>>, <<"reveal", 1>>,
                     <<"evaluate", 1>>, <<"close", 0>>>>

SyntheticLayer3 == <<<<"open", 0>>, <<"insert", 1>>, <<"reveal", 1>>, <<"evaluate", 1>>,
                     <<"insert", 2>>, <<"reveal", 2>>, <<"evaluate", 2>>, <<"close", 0>>>>

\* Its rows have a new id in every run.
RealTwinFreeze == <<<<"open", 0>>, <<"insert_new", 1>>, <<"predict", 1>>>>
RealTwinScore == <<<<"reveal", 1>>, <<"close", 0>>>>

Programs == [
    population_v1 |-> PopulationV1Freeze \o PopulationV1Compare \o PopulationV1Report,
    population_v2 |-> PopulationV2Select \o PopulationV2Freeze \o PopulationV2Compare \o PopulationV2Report,
    population_v3 |-> PopulationV3Select \o PopulationV3Freeze \o PopulationV3Compare \o PopulationV3Report,
    hillstrom_economic |-> HillstromEconomicFreeze \o HillstromEconomicScore,
    criteo |-> CriteoFreeze \o CriteoScore,
    hm_day1 |-> HMDay1, hm_day1_v2 |-> HMDay1V2,
    jdsearch_behavioral |-> JDBehavioral,
    jdsearch_dynamics |-> JDDynamicsTournament \o JDDynamicsSelect \o JDDynamicsFreeze \o JDDynamicsScore,
    retailrocket |-> RetailRocketSelect \o RetailRocketFreeze \o RetailRocketScore,
    dunnhumby |-> Dunnhumby,
    hillstrom_rct |-> HillstromRctFreeze \o HillstromRctScore,
    dunnhumby_layer3 |-> DunnhumbyLayer3, synthetic_layer3 |-> SyntheticLayer3,
    real_twin |-> RealTwinFreeze \o RealTwinScore]

Developments == [
    hm_day1 |-> HMDay1Development, hm_day1_v2 |-> HMDay1V2Development,
    jdsearch_behavioral |-> JDBehavioralDevelopment]

-------------------------------------------------------------------------------
VARIABLES
    bench,          \* which benchmark
    predictionFile, \* version in the file of a batch, 0 if there is none
    ledger,         \* the ledger in the directory, 0 if there is none
    ledgerRows,     \* hash and evaluation of a batch in every ledger there was
    marker,
    selection,      \* version of the freeze that a development wrote, 0 if there is none
    process,        \* mode; at: step of its program, 0 if it does not run; version; has: its
                    \* ledger; config: the selection it read or wrote
    reveals,        \* history: who scored which version against which hash, with which selection
    overlapped,     \* history: two runs were at work at the same time
    runs

frozenVars == <<bench, predictionFile, ledger, ledgerRows, marker, selection, process, reveals,
                overlapped, runs>>

Program == Programs[bench]
ProgramOf(p) == IF process[p].mode = "dev" THEN Developments[bench] ELSE Program
Stopped == [mode |-> "final", at |-> 0, version |-> 0, has |-> 0, config |-> 0]
NoRow == [hash |-> 0, evaluated |-> FALSE]

FrozenTypeOK ==
    /\ bench \in DOMAIN Programs
    /\ predictionFile \in [Batches -> 0..MaxRuns]
    /\ ledger \in 0..MaxRuns
    /\ ledgerRows \in [1..MaxRuns -> [Batches -> [hash : 0..MaxRuns, evaluated : BOOLEAN]]]
    /\ marker \in BOOLEAN
    /\ selection \in 0..MaxRuns
    /\ process \in [Processes -> [mode : {"dev", "final", "diagnostic"}, at : 0..Len(Program),
                                  version : 0..MaxRuns, has : 0..MaxRuns, config : 0..MaxRuns]]
    /\ reveals \subseteq [batch : Batches, run : 1..MaxRuns, scored : 0..MaxRuns,
                           hash : 0..MaxRuns, config : 0..MaxRuns]
    /\ overlapped \in BOOLEAN
    /\ runs \in 0..MaxRuns

FrozenInit ==
    /\ bench \in DOMAIN Programs
    /\ predictionFile = [b \in Batches |-> 0]
    /\ ledger = 0
    /\ ledgerRows = [l \in 1..MaxRuns |-> [b \in Batches |-> NoRow]]
    /\ marker = FALSE
    /\ selection = 0
    /\ process = [p \in Processes |-> Stopped]
    /\ reveals = {}
    /\ overlapped = FALSE
    /\ runs = 0

\* Only hm_day1 has a run that may be diagnostic: it ignores the marker and does not set it.
Modes == {"final"} \cup (IF bench = "hm_day1" THEN {"diagnostic"} ELSE {})
                  \cup (IF bench \in DOMAIN Developments THEN {"dev"} ELSE {})

StartRun(p) ==
    /\ process[p].at = 0
    /\ runs < MaxRuns
    /\ runs' = runs + 1
    /\ \E mode \in Modes :
           process' = [process EXCEPT ![p] = [Stopped EXCEPT !.mode = mode, !.at = 1, !.version = runs + 1]]
    /\ overlapped' = (overlapped \/ \E q \in Processes : process[q].at # 0)
    /\ UNCHANGED <<bench, predictionFile, ledger, ledgerRows, marker, selection, reveals>>

\* The step p is about to take.
Takes(p, what, b) == process[p].at # 0 /\ ProgramOf(p)[process[p].at] = <<what, b>>

After(p, state) == IF state.at = Len(ProgramOf(p)) THEN Stopped ELSE [state EXCEPT !.at = @ + 1]
Advance(p) == process' = [process EXCEPT ![p] = After(p, @)]

CheckMarker(p) ==
    /\ Takes(p, "unmarked", 0)
    /\ ~marker \/ process[p].mode = "diagnostic"
    /\ Advance(p)
    /\ UNCHANGED <<bench, predictionFile, ledger, ledgerRows, marker, selection, reveals, overlapped, runs>>

WriteSelection(p) ==
    /\ Takes(p, "freeze", 0)
    /\ selection' = process[p].version
    /\ process' = [process EXCEPT ![p] = After(p, [@ EXCEPT !.config = process[p].version])]
    /\ UNCHANGED <<bench, predictionFile, ledger, ledgerRows, marker, reveals, overlapped, runs>>

ReadSelection(p) ==
    /\ Takes(p, "frozen", 0)
    /\ selection # 0
    /\ process' = [process EXCEPT ![p] = After(p, [@ EXCEPT !.config = selection])]
    /\ UNCHANGED <<bench, predictionFile, ledger, ledgerRows, marker, selection, reveals, overlapped, runs>>

WritePredictions(p, b) ==
    /\ Takes(p, "predict", b)
    /\ predictionFile' = [predictionFile EXCEPT ![b] = process[p].version]
    /\ Advance(p)
    /\ UNCHANGED <<bench, ledger, ledgerRows, marker, selection, reveals, overlapped, runs>>

UnlinkLedger(p) ==
    /\ Takes(p, "unlink", 0)
    /\ ledger' = 0
    /\ Advance(p)
    /\ UNCHANGED <<bench, predictionFile, ledgerRows, marker, selection, reveals, overlapped, runs>>

CheckNoLedger(p) ==
    /\ Takes(p, "no_ledger", 0)
    /\ ledger = 0
    /\ Advance(p)
    /\ UNCHANGED <<bench, predictionFile, ledger, ledgerRows, marker, selection, reveals, overlapped, runs>>

\* The ledger in the directory or a new one, which no other process may have open.
Opened(p) == IF ledger = 0 THEN process[p].version ELSE ledger
Locked(p) == \E q \in Processes \ {p} : process[q].has = Opened(p)

OpenLedger(p) ==
    /\ Takes(p, "open", 0)
    /\ ~Locked(p)
    /\ ledger' = Opened(p)
    /\ process' = [process EXCEPT ![p] = After(p, [@ EXCEPT !.has = Opened(p)])]
    /\ UNCHANGED <<bench, predictionFile, ledgerRows, marker, selection, reveals, overlapped, runs>>

Row(p, b) == ledgerRows[process[p].has][b]

\* Mutant: a batch that is there is replaced.
ReplaceBatch(p, b) ==
    /\ Takes(p, "append", b)
    /\ ledgerRows' = [ledgerRows EXCEPT ![process[p].has][b] = [NoRow EXCEPT !.hash = predictionFile[b]]]
    /\ Advance(p)
    /\ UNCHANGED <<bench, predictionFile, ledger, marker, selection, reveals, overlapped, runs>>

\* Mutant: a batch that is there is kept, and the run goes on.
KeepBatch(p, b) ==
    /\ Takes(p, "append", b)
    /\ ledgerRows' = [ledgerRows EXCEPT ![process[p].has][b] =
           IF @ = NoRow THEN [NoRow EXCEPT !.hash = predictionFile[b]] ELSE @]
    /\ Advance(p)
    /\ UNCHANGED <<bench, predictionFile, ledger, marker, selection, reveals, overlapped, runs>>

\* append_frozen_batch: the hash is that of the file (hm_day1_v2 and jdsearch_dynamics take it some
\* lines earlier, which only an overlapping run can tell); batch_id is the primary key.
AppendBatch(p, b) ==
    /\ Takes(p, "append", b)
    /\ Row(p, b) = NoRow
    /\ ledgerRows' = [ledgerRows EXCEPT ![process[p].has][b] = [NoRow EXCEPT !.hash = predictionFile[b]]]
    /\ Advance(p)
    /\ UNCHANGED <<bench, predictionFile, ledger, marker, selection, reveals, overlapped, runs>>

\* append_twin_query and the INSERT of hillstrom_rct: the id is the primary key.  append_simulation:
\* the id is new, and the row stands for the run's own one.
InsertRow(p, b) ==
    /\ \/ Takes(p, "insert", b) /\ Row(p, b) = NoRow
       \/ Takes(p, "insert_new", b)
    /\ ledgerRows' = [ledgerRows EXCEPT ![process[p].has][b] = [NoRow EXCEPT !.hash = process[p].version]]
    /\ Advance(p)
    /\ UNCHANGED <<bench, predictionFile, ledger, marker, selection, reveals, overlapped, runs>>

\* What a run scores: what it has in memory, or what it reads back.
Scored(p, b) ==
    IF bench \in {"criteo", "hillstrom_economic"} THEN predictionFile[b] ELSE process[p].version

\* A run that closed its ledger is scored against what it appended there: the ledger stays.
Reveal(p, b) ==
    /\ Takes(p, "reveal", b)
    /\ reveals' = reveals \cup
           {[batch |-> b, run |-> process[p].version, scored |-> Scored(p, b),
             config |-> process[p].config,
             hash |-> ledgerRows[IF process[p].has = 0 THEN ledger ELSE process[p].has][b].hash]}
    /\ Advance(p)
    /\ UNCHANGED <<bench, predictionFile, ledger, ledgerRows, marker, selection, overlapped, runs>>

\* append_frozen_batch_evaluation, append_twin_query_outcome: one evaluation of what is there.
AppendEvaluation(p, b) ==
    /\ Takes(p, "evaluate", b)
    /\ Row(p, b).hash # 0 /\ ~Row(p, b).evaluated
    /\ ledgerRows' = [ledgerRows EXCEPT ![process[p].has][b].evaluated = TRUE]
    /\ Advance(p)
    /\ UNCHANGED <<bench, predictionFile, ledger, marker, selection, reveals, overlapped, runs>>

CloseLedger(p) ==
    /\ Takes(p, "close", 0)
    /\ process' = [process EXCEPT ![p] = After(p, [@ EXCEPT !.has = 0])]
    /\ UNCHANGED <<bench, predictionFile, ledger, ledgerRows, marker, selection, reveals, overlapped, runs>>

WriteMarker(p) ==
    /\ Takes(p, "mark", 0)
    /\ marker' = (marker \/ process[p].mode # "diagnostic")
    /\ Advance(p)
    /\ UNCHANGED <<bench, predictionFile, ledger, ledgerRows, selection, reveals, overlapped, runs>>

\* A check fails, DuckDB refuses, the code raises, or the process is killed.
StopRun(p) ==
    /\ process[p].at # 0
    /\ process' = [process EXCEPT ![p] = Stopped]
    /\ UNCHANGED <<bench, predictionFile, ledger, ledgerRows, marker, selection, reveals, overlapped, runs>>

FrozenNext == \E p \in Processes :
    \/ StartRun(p) \/ CheckMarker(p) \/ WriteSelection(p) \/ ReadSelection(p)
    \/ UnlinkLedger(p) \/ CheckNoLedger(p) \/ OpenLedger(p)
    \/ CloseLedger(p) \/ WriteMarker(p) \/ StopRun(p)
    \/ \E b \in Batches : WritePredictions(p, b) \/ AppendBatch(p, b) \/ InsertRow(p, b)
                          \/ Reveal(p, b) \/ AppendEvaluation(p, b)

FrozenSpec == FrozenInit /\ [][FrozenNext]_frozenVars

-------------------------------------------------------------------------------
(* Properties.                                                             *)

DeletesLedger == \E i \in DOMAIN Program : Program[i][1] = "unlink"
FreshIds == \E i \in DOMAIN Program : Program[i][1] = "insert_new"
Marked == \E i \in DOMAIN Program : Program[i][1] = "mark"
\* Nothing is written before the ledger is open.
LocksFirst == ~DeletesLedger /\ \A i \in DOMAIN Program :
    Program[i][1] = "predict" => \E j \in 1..(i - 1) : Program[j][1] = "open"

\* The outcomes of a batch are revealed to one run at most, whatever crashes, is repeated, ignores
\* the marker or runs beside it, unless the program deletes the ledger or makes up new ids; where it
\* deletes the ledger the marker has to do, and it does for runs that do not overlap.
\* What is scored is the version whose hash the ledger held before the reveal, unless two runs
\* overlapped in a program that writes its predictions before it has the ledger.  And a benchmark
\* that is marked as evaluated keeps the freeze its models were selected in, except hm_day1, whose
\* development asks for no marker.
RevealsAreFrozen ==
    /\ ~FreshIds /\ (~DeletesLedger \/ (Marked /\ ~overlapped)) =>
           \A r \in reveals, s \in reveals : r.batch = s.batch => r.run = s.run
    /\ (LocksFirst \/ ~overlapped) => \A r \in reveals : r.scored = r.hash
    /\ marker /\ bench # "hm_day1" /\ ~overlapped => \A r \in reveals : r.config = selection

===============================================================================
