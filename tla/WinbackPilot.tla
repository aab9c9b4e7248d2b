----------------------------- MODULE WinbackPilot ------------------------------
(***************************************************************************)
(* The files of the winback pilot: the frozen contract, the assignment     *)
(* export, the report and the ledger that prepare-shadow and analyze leave *)
(* in the output directory.                                                *)
(*                                                                         *)
(* Both commands are run by hand, one at a time, with a configuration, an  *)
(* extract and a date that may differ from those of the time before.  Each *)
(* check-and-write of a file is one action; write_text truncates before it *)
(* writes, even when the content is the same, so a command that stops      *)
(* there leaves a torn file, and one that stops in an append a torn line.  *)
(* A torn export still parses when its last line lacks no column, and then *)
(* has the first rows of the whole one.  That a cut may take the last      *)
(* newline of another file and nothing else is left out.                   *)
(*                                                                         *)
(* A contract is the configuration by name, and the cohort its hash        *)
(* covers; the arms follow from it, so an export is a contract and         *)
(* assigned_at.  The tables of an extract are sets of rows with ids.       *)
(***************************************************************************)
EXTENDS Integers, Sequences, FiniteSets

CONSTANTS
    Shoppers,       \* the customers an extract may know, numbers in the order of their ids
    Extracts,       \* the input directories that prepare-shadow is given
    Configs,        \* and the configurations
    LastDay,        \* days are 0..LastDay
    Maturity,       \* outcome_maturity_days of every contract
    Absent, Torn,   \* a file that does not exist, one that stops in the middle
    MaxCommands     \* bound on the commands that start

Days == 0..LastDay
Contracts == [config : {c.name : c \in Configs}, cohort : SUBSET Shoppers, frozen_at : Days]
Exports == [contract : Contracts, assigned_at : Days]
\* An export that lacks its end, and the rows of it that are left.
TornExports == [of : Exports, rows : SUBSET Shoppers]
Signs3 == {"below", "around", "above"}
\* What the outcome table is worth: whether it covers the customers of the export and no other, each
\* once, with all costs and one currency, and the arms have the planned shares, the day of its first measurement, and the interval it leads to.
OutcomeTables == [complete : BOOLEAN, measured_at : Days, interval : Signs3]
Reports == {[status |-> "DATA_NOT_READY", decision |-> "CONTINUE_TESTING"]}
    \cup [status : {"ANALYZED"}, decision : {"SCALE", "STOP", "CONTINUE_TESTING"}]
PilotRecords ==
    [type : {"PRE_OUTCOME_EXPECTATION"}, payload : Contracts]
    \cup [type : {"IMMUTABLE_ASSIGNMENT_EXPORT"}, payload : Exports]
    \cup [type : {"MATURE_RANDOMIZED_ITT_RESULT"}, payload : Reports]

ASSUME PilotAssumption ==
    /\ Shoppers \subseteq Nat /\ LastDay \in Nat /\ Maturity \in Nat \ {0} /\ MaxCommands \in Nat
    /\ Absent # Torn
    /\ {Absent, Torn} \cap (Contracts \cup Exports \cup TornExports \cup Reports) = {}
    /\ \A x \in Extracts : {row.id : row \in x.eligibility} \subseteq Shoppers
    /\ \A c \in Configs : {c.created_at, c.snapshot, c.frozen_at, c.assigned_at} \subseteq Days

VARIABLES
    contractFile, exportFile, reportFile,
    pilotLedger,    \* the whole lines of decision_ledger.jsonl
    ledgerTorn,     \* and whether another one follows that is not whole
    command,        \* the running command and what it has computed
    basis,          \* history: what the report that was written last is computed from
    commands

pilotFiles == <<contractFile, exportFile, reportFile, pilotLedger, ledgerTorn>>
pilotVars == <<pilotFiles, command, basis, commands>>

Bases == [export : Exports, rows : SUBSET Shoppers, as_of : Days, measured_at : Days]
NoBasis == [export |-> Absent]
NoCommand == [step |-> "none"]
PilotCommands ==
    {NoCommand}
    \cup [step : {"contract", "export", "ledger", "assignment"}, export : Exports]
    \cup [step : {"report", "result"}, report : Reports, basis : Bases]
PilotTypeOK ==
    /\ contractFile \in Contracts \cup {Absent, Torn}
    /\ exportFile \in Exports \cup TornExports \cup {Absent, Torn}
    /\ reportFile \in Reports \cup {Absent, Torn}
    /\ pilotLedger \in Seq(PilotRecords)
    /\ ledgerTorn \in BOOLEAN
    /\ command \in PilotCommands
    /\ basis \in Bases \cup {NoBasis}
    /\ commands \in 0..MaxCommands

PilotInit ==
    /\ contractFile = Absent /\ exportFile = Absent /\ reportFile = Absent
    /\ pilotLedger = <<>>
    /\ ledgerTorn = FALSE
    /\ command = NoCommand
    /\ basis = NoBasis
    /\ commands = 0

Started == command = NoCommand /\ commands < MaxCommands /\ commands' = commands + 1

\* A file may be written when it does not exist or holds the same text.
Writable(file, content) == file = Absent \/ file = content

\* append refuses a record id it has seen; there is one of every type.
Recorded(type) == \E i \in DOMAIN pilotLedger : pilotLedger[i].type = type

-------------------------------------------------------------------------------
(* The extract: nine tables, every one a set of rows.                      *)

Ids(table) == {row.id : row \in table}

\* A key shared by two rows; delivery and channel_costs have none.
DuplicateIds(x) ==
    \E table \in {x.customers, x.orders, x.order_lines, x.products, x.discounts, x.returns, x.eligibility} :
        \E r, s \in table : r # s /\ r.id = s.id

Orphans(x) ==
    \/ \E o \in x.orders : o.customer \notin Ids(x.customers)
    \/ \E l \in x.order_lines : l.order \notin Ids(x.orders) \/ l.product \notin Ids(x.products)
    \/ \E d \in x.discounts : d.order \notin Ids(x.orders)
    \/ \E r \in x.returns : r.order \notin Ids(x.orders) \/ r.line \notin Ids(x.order_lines) \cup {"none"}
    \/ \E e \in x.eligibility : e.id \notin Ids(x.customers)

\* Payment cost of an order, cogs of a line, merchant's part of a discount, both costs of an action,
\* and a row of action costs for every customer whose eligibility is known.
MissingCosts(x) ==
    \/ \E table \in {x.orders, x.order_lines, x.discounts, x.channel_costs} : \E row \in table : ~row.costed
    \/ ~(Ids(x.eligibility) \subseteq Ids(x.channel_costs))

\* A return before its order, a last purchase after the snapshot.
WrongOrder(x) ==
    \/ \E r \in x.returns, o \in x.orders : r.order = o.id /\ r.returned_at < o.ordered_at
    \/ \E e \in x.eligibility : e.purchased /\ e.last_purchase > e.snapshot

MixedCurrencies(x) ==
    Cardinality({row.currency : row \in x.customers \cup x.orders \cup x.products \cup x.discounts
                                        \cup x.returns \cup x.channel_costs}) > 1

MissingTable(x) ==
    {} \in {x.customers, x.orders, x.order_lines, x.products, x.eligibility, x.channel_costs}

\* readiness: READY_FOR_SHADOW when validate_tables and the required tables leave no issue.
ReadyForShadow(x) ==
    ~(DuplicateIds(x) \/ Orphans(x) \/ MissingCosts(x) \/ WrongOrder(x) \/ MixedCurrencies(x) \/ MissingTable(x))

-------------------------------------------------------------------------------
(* prepare-shadow                                                          *)

\* eligible_cohort: the customers of the snapshot who may be contacted, have lapsed, and are not just
\* out of another campaign.
EligibleCohort(x, c) ==
    Ids({row \in x.eligibility :
            /\ row.snapshot = c.snapshot
            /\ row.consent
            /\ ~row.suppressed
            /\ row.purchases >= c.minimum_purchases
            /\ row.purchased /\ row.last_purchase <= c.snapshot - c.inactivity
            /\ row.campaigned => row.last_campaign <= c.snapshot - c.exclusion})

\* freeze_contract, of a contract whose eligibility hash was just taken from the cohort.
FreezeContract(x, c) == [config |-> c.name, cohort |-> EligibleCohort(x, c), frozen_at |-> c.frozen_at]

\* assign_cohort: the seed deals the cohort to the arms, so the rows are those of the contract.
AssignCohort(contract, assigned_at) == [contract |-> contract, assigned_at |-> assigned_at]

\* DATA_NOT_READY, UNDERPOWERED_COHORT, or a date out of order: nothing is written.
PrepareRefused ==
    /\ Started
    /\ \E x \in Extracts, c \in Configs :
           \/ ~ReadyForShadow(x)
           \/ Cardinality(EligibleCohort(x, c)) < c.planned
           \/ c.snapshot > c.created_at
           \/ c.assigned_at < c.frozen_at
    /\ UNCHANGED <<pilotFiles, command, basis>>

PrepareShadow ==
    /\ Started
    /\ \E x \in Extracts, c \in Configs :
           /\ ReadyForShadow(x)
           /\ Cardinality(EligibleCohort(x, c)) >= c.planned
           /\ c.snapshot <= c.created_at
           /\ c.assigned_at >= c.frozen_at
           /\ command' = [step |-> "contract",
                          export |-> AssignCohort(FreezeContract(x, c), c.assigned_at)]
    /\ UNCHANGED <<pilotFiles, basis>>

WriteContract ==
    /\ command.step = "contract"
    /\ Writable(contractFile, command.export.contract)
    /\ contractFile' = command.export.contract
    /\ command' = [command EXCEPT !.step = "export"]
    /\ UNCHANGED <<exportFile, reportFile, pilotLedger, ledgerTorn, basis, commands>>

\* export_assignments_idempotent
ExportAssignments ==
    /\ command.step = "export"
    /\ Writable(exportFile, command.export)
    /\ exportFile' = command.export
    /\ command' = [command EXCEPT !.step = "ledger"]
    /\ UNCHANGED <<contractFile, reportFile, pilotLedger, ledgerTorn, basis, commands>>

RecordExpectation ==
    /\ command.step = "ledger"
    /\ ~ledgerTorn
    /\ pilotLedger = <<>>
    /\ pilotLedger' = Append(pilotLedger,
           [type |-> "PRE_OUTCOME_EXPECTATION", payload |-> command.export.contract])
    /\ command' = [command EXCEPT !.step = "assignment"]
    /\ UNCHANGED <<contractFile, exportFile, reportFile, ledgerTorn, basis, commands>>

\* The ledger has records, whichever they are.
PrepareAgain ==
    /\ command.step = "ledger"
    /\ ~ledgerTorn
    /\ pilotLedger # <<>>
    /\ command' = NoCommand
    /\ UNCHANGED <<pilotFiles, basis, commands>>

RecordAssignment ==
    /\ command.step = "assignment"
    /\ ~Recorded("IMMUTABLE_ASSIGNMENT_EXPORT")
    /\ pilotLedger' = Append(pilotLedger,
           [type |-> "IMMUTABLE_ASSIGNMENT_EXPORT", payload |-> command.export])
    /\ command' = NoCommand
    /\ UNCHANGED <<contractFile, exportFile, reportFile, ledgerTorn, basis, commands>>

-------------------------------------------------------------------------------
(* analyze                                                                 *)

\* Mutant: the date of the analysis is not compared with the maturity.
MatureMeasurement(export, table, as_of) == table.measured_at >= export.assigned_at + Maturity

\* The date is the one given as --as-of.
Mature(export, table, as_of) ==
    /\ as_of >= export.assigned_at + Maturity
    /\ table.measured_at >= export.assigned_at + Maturity

\* analyze_itt: every defect of the data is a hard failure.
AnalyzeItt(export, table, as_of) ==
    IF table.complete /\ Mature(export, table, as_of)
    THEN [status |-> "ANALYZED",
          decision |-> CASE table.interval = "above" -> "SCALE"
                         [] table.interval = "below" -> "STOP"
                         [] OTHER -> "CONTINUE_TESTING"]
    ELSE [status |-> "DATA_NOT_READY", decision |-> "CONTINUE_TESTING"]

\* _stratified_difference raises unless both arms have two customers among the rows; of those of a
\* torn export not even half need be in one arm.
Comparable(rows) == Cardinality(rows) >= 4

\* _load_assignments: the rows that are there.
LoadAssignments ==
    IF exportFile \in Exports THEN [of |-> exportFile, rows |-> exportFile.contract.cohort] ELSE exportFile

\* Nothing asks whether the ledger knows of the assignment, whether the rows have its hash or are as
\* many as were planned; without any row it raises.
AnalyzeShadow ==
    /\ contractFile \in Contracts
    /\ exportFile \in Exports \cup TornExports
    /\ LoadAssignments.rows # {}
    /\ Started
    /\ \E table \in OutcomeTables, as_of \in Days :
           LET report == AnalyzeItt(LoadAssignments.of, table, as_of) IN
           /\ report.status = "ANALYZED" => Comparable(LoadAssignments.rows)
           /\ command' = [step |-> "report", report |-> report,
                          basis |-> [export |-> LoadAssignments.of, rows |-> LoadAssignments.rows,
                                     as_of |-> as_of, measured_at |-> table.measured_at]]
    /\ UNCHANGED <<pilotFiles, basis>>

WriteReport ==
    /\ command.step = "report"
    /\ Writable(reportFile, command.report)
    /\ reportFile' = command.report
    /\ basis' = command.basis
    /\ command' = [command EXCEPT !.step = "result"]
    /\ UNCHANGED <<contractFile, exportFile, pilotLedger, ledgerTorn, commands>>

RecordResult ==
    /\ command.step = "result"
    /\ ~ledgerTorn
    /\ pilotLedger' = IF Recorded("MATURE_RANDOMIZED_ITT_RESULT") THEN pilotLedger
                      ELSE Append(pilotLedger,
                               [type |-> "MATURE_RANDOMIZED_ITT_RESULT", payload |-> command.report])
    /\ command' = NoCommand
    /\ UNCHANGED <<contractFile, exportFile, reportFile, ledgerTorn, basis, commands>>

-------------------------------------------------------------------------------
(* A command that ends in the middle.                                      *)

\* It raises: another content is there, or a line of the ledger does not parse.
Refuse ==
    /\ \/ command.step = "contract" /\ ~Writable(contractFile, command.export.contract)
       \/ command.step = "export" /\ ~Writable(exportFile, command.export)
       \/ command.step = "report" /\ ~Writable(reportFile, command.report)
       \/ command.step \in {"ledger", "result"} /\ ledgerTorn
    /\ command' = NoCommand
    /\ UNCHANGED <<pilotFiles, basis, commands>>

\* The rows of an export are sorted, so what a cut leaves of a cohort are its first customers.
Prefixes(cohort) == {rows \in SUBSET cohort : \A s \in rows, u \in cohort : u < s => u \in rows}

\* It is killed, between two writes or in one.
KillCommand ==
    /\ command # NoCommand
    /\ command' = NoCommand
    /\ \/ UNCHANGED pilotFiles
       \/ /\ command.step = "contract" /\ Writable(contractFile, command.export.contract)
          /\ contractFile' = Torn
          /\ UNCHANGED <<exportFile, reportFile, pilotLedger, ledgerTorn>>
       \/ /\ command.step = "export" /\ Writable(exportFile, command.export)
          /\ \/ exportFile' = Torn
             \/ \E rows \in Prefixes(command.export.contract.cohort) :
                    exportFile' = [of |-> command.export, rows |-> rows]
          /\ UNCHANGED <<contractFile, reportFile, pilotLedger, ledgerTorn>>
       \/ /\ command.step = "report" /\ Writable(reportFile, command.report)
          /\ reportFile' = Torn
          /\ UNCHANGED <<contractFile, exportFile, pilotLedger, ledgerTorn>>
       \/ /\ \/ command.step = "ledger" /\ pilotLedger = <<>>
             \/ command.step = "assignment"
             \/ command.step = "result" /\ ~Recorded("MATURE_RANDOMIZED_ITT_RESULT")
          /\ ledgerTorn' = TRUE
          /\ UNCHANGED <<contractFile, exportFile, reportFile, pilotLedger>>
    /\ UNCHANGED <<basis, commands>>

PilotNext ==
    \/ PrepareRefused \/ PrepareShadow \/ WriteContract \/ ExportAssignments
    \/ RecordExpectation \/ PrepareAgain \/ RecordAssignment
    \/ AnalyzeShadow \/ WriteReport \/ RecordResult
    \/ Refuse \/ KillCommand

PilotSpec == PilotInit /\ [][PilotNext]_pilotVars

-------------------------------------------------------------------------------
(* Properties.                                                             *)

\* What a kill may have left of an export.
LeftOf(issued) == {Torn} \cup [of : {issued}, rows : SUBSET Shoppers]

\* What the ledger holds of the contract, the export and the result is what their files hold, unless
\* a later command was killed while it wrote them, whatever configurations, outcomes and crashes came
\* in between.
PilotFilesAgree ==
    \A i \in DOMAIN pilotLedger :
        LET payload == pilotLedger[i].payload IN
        CASE pilotLedger[i].type = "PRE_OUTCOME_EXPECTATION" -> contractFile \in {payload, Torn}
          [] pilotLedger[i].type = "IMMUTABLE_ASSIGNMENT_EXPORT" ->
                 exportFile \in {payload} \cup LeftOf(payload) /\ contractFile \in {payload.contract, Torn}
          [] pilotLedger[i].type = "MATURE_RANDOMIZED_ITT_RESULT" -> reportFile \in {payload, Torn}

\* A profit claim in the ledger rests on outcomes that were measured and analyzed when they were
\* mature, counted from the assignment the ledger has recorded, not from another export, of customers
\* who were assigned after the contract was frozen and are enough to be compared.  They are the whole
\* cohort unless the export file lacks its end, for nothing compares it with the hash or with the
\* number of rows the ledger has; and a file that lacks its end shows on whom the claim rests, since
\* no command completes it.
ProfitClaimsMature ==
    \A i \in DOMAIN pilotLedger :
        pilotLedger[i].type = "MATURE_RANDOMIZED_ITT_RESULT" /\ pilotLedger[i].payload.status = "ANALYZED" =>
            /\ basis.as_of >= basis.export.assigned_at + Maturity
            /\ basis.measured_at >= basis.export.assigned_at + Maturity
            /\ basis.export.assigned_at >= basis.export.contract.frozen_at
            /\ Comparable(basis.rows)
            /\ basis.rows # basis.export.contract.cohort =>
                   exportFile = [of |-> basis.export, rows |-> basis.rows]
            /\ \A j \in DOMAIN pilotLedger :
                   pilotLedger[j].type = "IMMUTABLE_ASSIGNMENT_EXPORT" => pilotLedger[j].payload = basis.export

\* Both hold of the ledger and of the files it speaks of.
PilotLedgerHolds == PilotFilesAgree /\ ProfitClaimsMature

===============================================================================
