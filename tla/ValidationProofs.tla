--------------------------- MODULE ValidationProofs ----------------------------
(* Proofs about the validations whose outcomes may be read once: the sealed *)
(* benchmarks V8 and V9, the model tournaments V7, V7.1 and V7.3, the      *)
(* customer twin benchmarks, whose outcomes lie after their predictions,   *)
(* and the benchmarks that freeze their predictions in a ledger.           *)
EXTENDS SealedValidation, ModelTournament, DayOneBenchmark, FrozenBenchmark, FiniteFacts, TLAPS

(* Proofs about SealedValidation, for every number of runners, studies and *)
(* commands.  The inductive invariant says who holds a study: the runner   *)
(* that created its lock, and no other; what has been read and written of  *)
(* the study follows from the step that runner is in.                      *)

(* The inductive invariant.                                                *)

HolderSteps == {"locked", "analyzed", "statistics", "result"}
Holds(r) == runner[r].step \in HolderSteps

\* What a runner knows of its study.
RunnerOK(r) ==
    LET s == StudyOf(r) IN
    /\ runner[r].at \in DOMAIN Order
    /\ runner[r].step # "idle" => freeze # 0 /\ (sources = freeze \/ runner[r].edited)
    /\ proof = "V8" /\ runner[r].step \notin {"idle", "verified"} =>
           runner[r].config = freeze \/ runner[r].edited
    /\ Holds(r) => started[s] = "whole" /\ consumedLock[s] = "absent"
    /\ runner[r].step = "locked" =>
           reads[s] = 0 /\ statistics[s] = "absent" /\ result[s] = "absent"
    /\ runner[r].step = "analyzed" =>
           reads[s] = 1 /\ statistics[s] = "absent" /\ result[s] = "absent"
    /\ runner[r].step = "statistics" =>
           reads[s] = 1 /\ statistics[s] = runner[r].verdict /\ result[s] = "absent"
    /\ runner[r].step = "result" =>
           reads[s] = 1 /\ statistics[s] = runner[r].verdict /\ result[s] = runner[r].verdict

\* What the files of a study say, whoever wrote them.
StudyOK(s) ==
    /\ reads[s] \in {0, 1}
    /\ started[s] = "absent" =>
           /\ reads[s] = 0
           /\ statistics[s] = "absent" /\ result[s] = "absent" /\ consumedLock[s] = "absent"
    /\ reads[s] = 1 => freeze # 0 /\ (readWith[s].config = freeze \/ readWith[s].edited)
    /\ result[s] \in Verdicts => statistics[s] = result[s] /\ reads[s] = 1
    /\ consumedLock[s] \in Verdicts => result[s] = consumedLock[s]
    /\ proof = "V9" => consumedLock[s] # "invalid"

HoldersAlone ==
    \A r, q \in Runners : Holds(r) /\ Holds(q) /\ StudyOf(r) = StudyOf(q) => r = q

ClaimOK(c) ==
    /\ reads[c[1]] = 1
    /\ result[c[1]] = c[2] /\ statistics[c[1]] = c[2]
    /\ consumedLock[c[1]] \in {c[2], "torn"}

SealedInv ==
    /\ SealedTypeOK
    /\ \A r \in Runners : RunnerOK(r)
    /\ \A s \in Studies : StudyOK(s)
    /\ HoldersAlone
    /\ \A c \in final : ClaimOK(c)

(* Facts about the order of the studies.                                   *)

LEMMA OrderOfStudies ==
  ASSUME SealedTypeOK
  PROVE  /\ Order \in Seq(Studies) /\ 1 \in DOMAIN Order
         /\ DOMAIN Order = 1..Len(Order) /\ Len(Order) \in Nat /\ Len(Order) <= Len(V9Studies)
         /\ \A i \in DOMAIN Order : Order[i] \in Studies
<1>1. /\ V9Studies \in Seq(Studies) /\ Len(V9Studies) \in Nat /\ 1 <= Len(V9Studies)
      /\ DOMAIN V9Studies = 1..Len(V9Studies)
      /\ \A i \in DOMAIN V9Studies : V9Studies[i] \in Studies
  <2>1. V9Studies \in Seq(Studies) /\ V9Studies # <<>>
    BY SealedAssumption
  <2> QED
    BY <2>1
<1>2. /\ <<V8Study>> \in Seq(Studies) /\ Len(<<V8Study>>) = 1 /\ DOMAIN <<V8Study>> = 1..1
      /\ <<V8Study>>[1] \in Studies
  <2>1. V8Study \in Studies
    BY DEF Studies
  <2> HIDE DEF Studies
  <2> QED
    BY <2>1
<1>3. Order = <<V8Study>> \/ Order = V9Studies
  BY DEF Order
<1>4. CASE Order = <<V8Study>>
  <2>1. \A i \in DOMAIN Order : i = 1
    BY <1>2, <1>4
  <2> QED
    BY <1>1, <1>2, <1>4, <2>1
<1>5. CASE Order = V9Studies
  BY <1>1, <1>5
<1> QED
  BY <1>3, <1>4, <1>5

LEMMA OwnStudy ==
  ASSUME SealedInv, NEW r \in Runners
  PROVE  StudyOf(r) \in Studies
BY OrderOfStudies DEF SealedInv, RunnerOK, StudyOf

(* Frames: a step that runner r takes on study s.                          *)

OthersSame(r) == \A q \in Runners : q # r => runner'[q] = runner[q]

StudySame(t) ==
    /\ started'[t] = started[t] /\ statistics'[t] = statistics[t] /\ result'[t] = result[t]
    /\ consumedLock'[t] = consumedLock[t] /\ reads'[t] = reads[t] /\ readWith'[t] = readWith[t]

\* The holder of a study, or whoever creates its lock, may change what belongs to it.
LEMMA HolderFrame ==
  ASSUME SealedInv, SealedTypeOK', NEW r \in Runners, NEW s \in Studies, s = StudyOf(r),
         UNCHANGED <<proof, sources, freeze, final>>, OthersSame(r),
         \A t \in Studies : t # s => StudySame(t),
         Holds(r) \/ started[s] = "absent",
         RunnerOK(r)', StudyOK(s)',
         Holds(r)' => StudyOf(r)' = s
  PROVE  SealedInv'
<1>1. ASSUME NEW q \in Runners, q # r
      PROVE  /\ StudyOf(q)' = StudyOf(q) /\ (Holds(q)' <=> Holds(q)) /\ StudyOf(q) \in Studies
             /\ Holds(q) => StudyOf(q) # s
  <2>1. runner'[q] = runner[q]
    BY <1>1 DEF OthersSame
  <2>2. StudyOf(q)' = StudyOf(q) /\ (Holds(q)' <=> Holds(q))
    BY <2>1 DEF StudyOf, Order, Holds
  <2>3. Holds(q) => StudyOf(q) # s
    <3> SUFFICES ASSUME Holds(q), StudyOf(q) = s PROVE FALSE
      OBVIOUS
    <3>1. started[s] = "whole"
      BY DEF SealedInv, RunnerOK
    <3> QED
      BY <3>1, <1>1 DEF SealedInv, HoldersAlone
  <2> QED
    BY <2>2, <2>3, OwnStudy
<1>2. ASSUME NEW q \in Runners PROVE RunnerOK(q)'
  <2>1. CASE q = r
    BY <2>1
  <2>2. CASE q # r
    <3>1. runner'[q] = runner[q] /\ StudyOf(q)' = StudyOf(q) /\ StudyOf(q) \in Studies
      BY <1>1, <2>2 DEF OthersSame
    <3>2. Holds(q) => StudySame(StudyOf(q))
      BY <1>1, <2>2
    <3>3. RunnerOK(q)
      BY DEF SealedInv
    <3>4. Order' = Order
      BY DEF Order
    <3> QED
      BY <3>1, <3>2, <3>3, <3>4 DEF RunnerOK, StudySame, Holds, HolderSteps
  <2> QED
    BY <2>1, <2>2
<1>3. ASSUME NEW t \in Studies PROVE StudyOK(t)'
  <2>1. CASE t # s
    BY <2>1 DEF SealedInv, StudyOK, StudySame
  <2> QED
    BY <2>1
<1>4. HoldersAlone'
  <2> SUFFICES ASSUME NEW p \in Runners, NEW q \in Runners, Holds(p)', Holds(q)',
                      StudyOf(p)' = StudyOf(q)', p # q
               PROVE  FALSE
    BY DEF HoldersAlone
  <2>1. CASE p = r
    BY <1>1, <2>1
  <2>2. CASE q = r
    BY <1>1, <2>2
  <2>3. CASE p # r /\ q # r
    BY <1>1, <2>3 DEF SealedInv, HoldersAlone
  <2> QED
    BY <2>1, <2>2, <2>3
<1>5. ASSUME NEW c \in final PROVE ClaimOK(c)'
  <2>1. c[1] \in Studies /\ c[2] \in Verdicts /\ ClaimOK(c)
    BY DEF SealedInv, SealedTypeOK
  <2>2. c[1] # s
    <3> SUFFICES ASSUME c[1] = s PROVE FALSE
      OBVIOUS
    <3>1. reads[s] = 1 /\ consumedLock[s] # "absent"
      BY <2>1 DEF ClaimOK, Verdicts
    <3>2. started[s] # "absent"
      BY <3>1 DEF SealedInv, StudyOK
    <3>3. Holds(r) => consumedLock[s] = "absent"
      BY DEF SealedInv, RunnerOK
    <3> QED
      BY <3>1, <3>2, <3>3
  <2> QED
    BY <2>1, <2>2 DEF ClaimOK, StudySame
<1> QED
  BY <1>2, <1>3, <1>4, <1>5 DEF SealedInv

\* Whoever changes no file may go to any step that is not a holder's.
LEMMA FreeFrame ==
  ASSUME SealedInv, SealedTypeOK', NEW r \in Runners,
         UNCHANGED <<proof, freeze, sources, sealedFiles, reads, readWith, final>>, OthersSame(r),
         RunnerOK(r)', ~Holds(r)'
  PROVE  SealedInv'
<1>1. \A q \in Runners : q # r => /\ runner'[q] = runner[q]
                                  /\ StudyOf(q)' = StudyOf(q) /\ (Holds(q)' <=> Holds(q))
  BY DEF OthersSame, StudyOf, Order, Holds
<1>2. ASSUME NEW q \in Runners PROVE RunnerOK(q)'
  <2>1. CASE q # r
    <3>1. runner'[q] = runner[q] /\ StudyOf(q)' = StudyOf(q) /\ RunnerOK(q)
      BY <1>1, <2>1 DEF SealedInv
    <3>2. Order' = Order
      BY DEF Order
    <3> QED
      BY <3>1, <3>2 DEF RunnerOK, Holds, sealedFiles
  <2> QED
    BY <2>1
<1>3. \A t \in Studies : StudyOK(t)'
  BY DEF SealedInv, StudyOK, sealedFiles
<1>4. HoldersAlone'
  BY <1>1 DEF SealedInv, HoldersAlone
<1>5. \A c \in final : ClaimOK(c)'
  BY DEF SealedInv, ClaimOK, sealedFiles
<1> QED
  BY <1>2, <1>3, <1>4, <1>5 DEF SealedInv

(* Types.                                                                  *)

LEMMA IdleIsFree == Idle.step = "idle" /\ Idle.at = 1 /\ Idle.step \notin HolderSteps
BY DEF Idle, HolderSteps

RunnerState == [step : Steps, at : 1..Len(V9Studies), config : Versions \cup {0},
                verdict : Verdicts, edited : BOOLEAN]

LEMMA RunnerTypes ==
  ASSUME SealedTypeOK, NEW r \in Runners
  PROVE  /\ runner[r] \in RunnerState /\ Idle \in RunnerState
         /\ \A step \in Steps : [runner[r] EXCEPT !.step = step] \in RunnerState
<1>1. 1 \in 1..Len(V9Studies)
  BY OrderOfStudies
<1>2. Idle \in RunnerState
  BY <1>1 DEF Idle, RunnerState, Steps, Verdicts
<1> QED
  BY <1>2 DEF SealedTypeOK, RunnerState

LEMMA TypeStep == SealedInv /\ [SealedNext]_sealedVars => SealedTypeOK'
<1> SUFFICES ASSUME SealedInv, [SealedNext]_sealedVars PROVE SealedTypeOK'
  OBVIOUS
<1> SealedTypeOK
  BY DEF SealedInv
<1> USE DEF sealedFiles
<1>1. CASE EditSources
  <2>1. \A r \in Runners : [runner[r] EXCEPT !.edited = TRUE] \in RunnerState
    BY RunnerTypes DEF RunnerState
  <2>2. runner' \in [Runners -> RunnerState]
    BY <1>1, <2>1, RunnerTypes DEF EditSources
  <2> QED
    BY <1>1, <2>2 DEF EditSources, SealedTypeOK, Versions, RunnerState
<1>2. CASE CreateFreezeV8 \/ CreateFreezeV9
  BY <1>2 DEF CreateFreezeV8, CreateFreezeV9, SealedTypeOK
<1>3. CASE Finalize
  <2>1. final' \in SUBSET (Studies \X Verdicts)
    BY <1>3, OrderOfStudies DEF Finalize, Finalizable
  <2> QED
    BY <1>3, <2>1 DEF Finalize, SealedTypeOK
<1>4. ASSUME NEW r \in Runners, VerifyV8(r) \/ VerifyV9(r) PROVE SealedTypeOK'
  <2>1. PICK step \in {"verified", "configured"} : Verify(r, step)
    BY <1>4 DEF VerifyV8, VerifyV9
  <2>2. [Idle EXCEPT !.step = step] \in RunnerState
    BY RunnerTypes DEF RunnerState, Steps
  <2>3. starts' \in 0..MaxStarts
    BY <2>1, SealedAssumption DEF Verify, SealedTypeOK
  <2> QED
    BY <2>1, <2>2, <2>3 DEF Verify, SealedTypeOK, RunnerState
<1>5. ASSUME NEW r \in Runners, ReadConfig(r) PROVE SealedTypeOK'
  <2>1. [runner[r] EXCEPT !.step = "configured", !.config = sources] \in RunnerState
    <3>1. runner[r] \in RunnerState /\ sources \in Versions \cup {0}
      BY RunnerTypes DEF SealedTypeOK
    <3> QED
      BY <3>1 DEF RunnerState, Steps
  <2>2. runner' = [runner EXCEPT ![r] = [runner[r] EXCEPT !.step = "configured", !.config = sources]]
    BY <1>5 DEF ReadConfig
  <2> QED
    BY <1>5, <2>1, <2>2 DEF ReadConfig, SealedTypeOK, RunnerState
<1>6. ASSUME NEW r \in Runners, NEW step \in Steps, Goto(r, step)
      PROVE  runner' \in [Runners -> RunnerState]
  <2>1. runner' = [runner EXCEPT ![r] = [runner[r] EXCEPT !.step = step]]
    BY <1>6 DEF Goto
  <2> QED
    BY <2>1, RunnerTypes DEF SealedTypeOK, RunnerState
<1>7. ASSUME NEW r \in Runners, CheckUntouched(r) \/ LockReveal(r) PROVE SealedTypeOK'
  <2>1. runner' \in [Runners -> RunnerState]
    BY <1>6, <1>7 DEF CheckUntouched, LockReveal, Steps
  <2> QED
    BY <1>7, <2>1 DEF CheckUntouched, LockReveal, SealedTypeOK, RunnerState
<1>8. ASSUME NEW r \in Runners, ReadOutcomesV8(r) \/ ReadOutcomesV9(r) PROVE SealedTypeOK'
  <2>1. PICK config \in Versions \cup {0} : ReadOutcomes(r, config)
    <3>1. runner[r].config \in Versions \cup {0} /\ sources \in Versions \cup {0}
      BY RunnerTypes DEF RunnerState, SealedTypeOK
    <3> QED
      BY <1>8, <3>1 DEF ReadOutcomesV8, ReadOutcomesV9
  <2>2. PICK verdict \in Verdicts :
            runner' = [runner EXCEPT ![r].step = "analyzed", ![r].verdict = verdict]
    BY <2>1 DEF ReadOutcomes
  <2>3. [runner[r] EXCEPT !.step = "analyzed", !.verdict = verdict] \in RunnerState
    <3>1. runner[r] \in RunnerState
      BY RunnerTypes
    <3> QED
      BY <3>1 DEF RunnerState, Steps
  <2>4. runner' = [runner EXCEPT ![r] = [runner[r] EXCEPT !.step = "analyzed", !.verdict = verdict]]
    BY <2>2
  <2>5. [config |-> config, edited |-> runner[r].edited]
            \in [config : Versions \cup {0}, edited : BOOLEAN]
    BY RunnerTypes DEF RunnerState
  <2>6. reads' \in [Studies -> Nat]
    <3>1. reads[StudyOf(r)] + 1 \in Nat
      BY OwnStudy DEF SealedTypeOK
    <3> QED
      BY <2>1, <3>1 DEF ReadOutcomes, SealedTypeOK
  <2> QED
    BY <2>1, <2>3, <2>4, <2>5, <2>6 DEF ReadOutcomes, SealedTypeOK, RunnerState
<1>9. ASSUME NEW r \in Runners, WriteStatistics(r) \/ WriteResult(r) PROVE SealedTypeOK'
  <2>1. runner' \in [Runners -> RunnerState]
    BY <1>6, <1>9 DEF WriteStatistics, WriteResult, Steps
  <2>2. runner[r].verdict \in Verdicts
    BY RunnerTypes DEF RunnerState
  <2> QED
    BY <1>9, <2>1, <2>2 DEF WriteStatistics, WriteResult, SealedTypeOK, RunnerState
<1>10. ASSUME NEW r \in Runners, Consume(r) PROVE SealedTypeOK'
  <2>1. StudyOf(r) \in Studies /\ result[StudyOf(r)] \in Verdicts
    <3>1. runner[r].step = "result" /\ runner[r].verdict \in Verdicts
      BY <1>10, RunnerTypes DEF Consume, RunnerState
    <3> QED
      BY <3>1, OwnStudy DEF SealedInv, RunnerOK
  <2>2. ASSUME runner[r].at < Len(Order)
        PROVE  [runner[r] EXCEPT !.step = "configured", !.at = @ + 1] \in RunnerState
    <3>1. runner[r] \in RunnerState
      BY RunnerTypes
    <3>2. runner[r].at + 1 \in 1..Len(V9Studies)
      BY <2>2, <3>1, OrderOfStudies DEF RunnerState
    <3> QED
      BY <3>1, <3>2 DEF RunnerState, Steps
  <2>3. runner' = [runner EXCEPT ![r] =
            IF runner[r].at < Len(Order)
            THEN [runner[r] EXCEPT !.step = "configured", !.at = @ + 1]
            ELSE Idle]
    BY <1>10 DEF Consume
  <2>4. runner' \in [Runners -> RunnerState]
    BY <2>2, <2>3, RunnerTypes DEF SealedTypeOK, RunnerState
  <2> QED
    BY <1>10, <2>1, <2>4 DEF Consume, SealedTypeOK, RunnerState
<1>11. ASSUME NEW r \in Runners, Raise(r) \/ RaiseConsumed(r) \/ Kill(r) PROVE SealedTypeOK'
  <2>1. runner' = [runner EXCEPT ![r] = Idle]
    BY <1>11 DEF Raise, RaiseConsumed, Kill
  <2>2. runner' \in [Runners -> RunnerState]
    BY <2>1, RunnerTypes DEF SealedTypeOK, RunnerState
  <2>3. CASE Raise(r)
    BY <2>2, <2>3 DEF Raise, SealedTypeOK, RunnerState
  <2>4. CASE RaiseConsumed(r)
    BY <2>2, <2>4 DEF RaiseConsumed, SealedTypeOK, RunnerState
  <2>5. CASE Kill(r)
    BY <2>2, <2>5 DEF Kill, Tear, SealedTypeOK, RunnerState
  <2> QED
    BY <1>11, <2>3, <2>4, <2>5
<1>12. CASE UNCHANGED sealedVars
  BY <1>12 DEF sealedVars, SealedTypeOK
<1> QED
  BY <1>1, <1>2, <1>3, <1>4, <1>5, <1>7, <1>8, <1>9, <1>10, <1>11, <1>12 DEF SealedNext

(* The steps.                                                              *)

LEMMA SealedInitial == SealedInit => SealedInv
<1> SUFFICES ASSUME SealedInit PROVE SealedInv
  OBVIOUS
<1>1. SealedTypeOK
  <2>1. 1 \in 1..Len(V9Studies)
    <3>1. V9Studies \in Seq(Studies) /\ V9Studies # <<>>
      BY SealedAssumption
    <3> QED
      BY <3>1
  <2>2. runner \in [Runners -> RunnerState]
    BY <2>1 DEF SealedInit, Idle, RunnerState, Steps, Verdicts
  <2> QED
    BY <2>2, SealedAssumption DEF SealedInit, SealedTypeOK, RunnerState, Versions
<1>2. ASSUME NEW r \in Runners PROVE RunnerOK(r) /\ ~Holds(r)
  <2>1. runner[r].step = "idle" /\ runner[r].at = 1
    BY IdleIsFree DEF SealedInit
  <2>2. runner[r].at \in DOMAIN Order
    BY <1>1, <2>1, OrderOfStudies
  <2> QED
    BY <2>1, <2>2 DEF RunnerOK, Holds, HolderSteps
<1>3. \A s \in Studies : StudyOK(s)
  BY DEF SealedInit, StudyOK, Verdicts
<1>4. final = {}
  BY DEF SealedInit
<1> QED
  BY <1>1, <1>2, <1>3, <1>4 DEF SealedInv, HoldersAlone

\* An edit is remembered by every runner at work.
LEMMA EditStep == SealedInv /\ SealedTypeOK' /\ EditSources => SealedInv'
<1> SUFFICES ASSUME SealedInv, SealedTypeOK', EditSources PROVE SealedInv'
  OBVIOUS
<1>1. UNCHANGED <<proof, freeze, sealedFiles, reads, readWith, final>>
  BY DEF EditSources
<1>2. Order' = Order
  BY <1>1 DEF Order
<1>3. ASSUME NEW r \in Runners
      PROVE  /\ runner'[r].step = runner[r].step /\ runner'[r].at = runner[r].at
             /\ runner'[r].config = runner[r].config /\ runner'[r].verdict = runner[r].verdict
             /\ runner[r].step # "idle" => runner'[r].edited
  <2>1. runner[r] \in RunnerState
    BY RunnerTypes DEF SealedInv
  <2>2. runner'[r] = IF runner[r].step = "idle" THEN runner[r]
                     ELSE [runner[r] EXCEPT !.edited = TRUE]
    BY DEF EditSources
  <2> QED
    BY <2>1, <2>2 DEF RunnerState
<1>4. \A r \in Runners : StudyOf(r)' = StudyOf(r) /\ (Holds(r)' <=> Holds(r))
  BY <1>2, <1>3 DEF StudyOf, Holds
<1>5. ASSUME NEW r \in Runners PROVE RunnerOK(r)'
  <2>1. RunnerOK(r)
    BY DEF SealedInv
  <2> QED
    BY <1>1, <1>2, <1>3, <1>4, <2>1 DEF RunnerOK, Holds, HolderSteps, sealedFiles
<1>6. \A s \in Studies : StudyOK(s)'
  BY <1>1 DEF SealedInv, StudyOK, sealedFiles
<1>7. HoldersAlone'
  BY <1>4 DEF SealedInv, HoldersAlone
<1>8. \A c \in final' : ClaimOK(c)'
  BY <1>1 DEF SealedInv, ClaimOK, sealedFiles
<1> QED
  BY <1>5, <1>6, <1>7, <1>8 DEF SealedInv

\* Before the freeze no runner is at work and nothing was read.
LEMMA FreezeStep == SealedInv /\ SealedTypeOK' /\ (CreateFreezeV8 \/ CreateFreezeV9) => SealedInv'
<1> SUFFICES ASSUME SealedInv, SealedTypeOK', CreateFreezeV8 \/ CreateFreezeV9 PROVE SealedInv'
  OBVIOUS
<1>1. freeze = 0 /\ UNCHANGED <<proof, runner, sealedFiles, reads, readWith, final>>
  BY DEF CreateFreezeV8, CreateFreezeV9
<1>2. Order' = Order
  BY <1>1 DEF Order
<1>3. ASSUME NEW r \in Runners PROVE RunnerOK(r)' /\ ~Holds(r)'
  <2>1. RunnerOK(r) /\ runner[r].step = "idle"
    BY <1>1 DEF SealedInv, RunnerOK
  <2> QED
    BY <1>1, <1>2, <2>1 DEF RunnerOK, Holds, HolderSteps
<1>4. \A s \in Studies : StudyOK(s)'
  BY <1>1 DEF SealedInv, StudyOK, sealedFiles
<1>5. \A c \in final' : ClaimOK(c)'
  BY <1>1 DEF SealedInv, ClaimOK, sealedFiles
<1> QED
  BY <1>3, <1>4, <1>5 DEF SealedInv, HoldersAlone

LEMMA FinalizeStep == SealedInv /\ SealedTypeOK' /\ Finalize => SealedInv'
<1> SUFFICES ASSUME SealedInv, SealedTypeOK', Finalize PROVE SealedInv'
  OBVIOUS
<1>1. UNCHANGED <<proof, sources, freeze, sealedFiles, runner, reads, readWith>> /\ proof = "V9"
  BY DEF Finalize
<1>2. Order' = Order
  BY <1>1 DEF Order
<1>3. \A r \in Runners : RunnerOK(r)'
  BY <1>1, <1>2 DEF SealedInv, RunnerOK, StudyOf, Holds, sealedFiles
<1>4. \A s \in Studies : StudyOK(s)'
  BY <1>1 DEF SealedInv, StudyOK, sealedFiles
<1>5. HoldersAlone'
  BY <1>1, <1>2 DEF SealedInv, HoldersAlone, Holds, StudyOf
<1>6. ASSUME NEW c \in final' PROVE ClaimOK(c)'
  <2>1. PICK i \in DOMAIN Order : c = <<Order[i], result[Order[i]]>>
    BY <1>6 DEF Finalize
  <2>2. Order[i] \in Studies /\ Finalizable(Order[i])
    BY OrderOfStudies DEF Finalize, SealedInv
  <2>3. /\ StudyOK(Order[i])
        /\ consumedLock[Order[i]] \in {"absent", "torn", "invalid"} \cup Verdicts
    BY <2>2 DEF SealedInv, SealedTypeOK
  <2> QED
    BY <1>1, <2>1, <2>2, <2>3 DEF StudyOK, Finalizable, ClaimOK, sealedFiles
<1> QED
  BY <1>3, <1>4, <1>5, <1>6 DEF SealedInv

\* A runner that starts, prepares or gives up before it holds a lock.
LEMMA FreeStep ==
  ASSUME SealedInv, SealedTypeOK', NEW r \in Runners,
         VerifyV8(r) \/ VerifyV9(r) \/ ReadConfig(r) \/ CheckUntouched(r) \/ Raise(r)
  PROVE  SealedInv'
<1> DEFINE Same == UNCHANGED <<proof, freeze, sources, sealedFiles, reads, readWith, final>>
<1>0. SealedTypeOK /\ RunnerOK(r) /\ runner[r] \in RunnerState
  BY RunnerTypes DEF SealedInv
<1>1. CASE VerifyV8(r) \/ VerifyV9(r)
  <2>1. PICK step \in {"verified", "configured"} :
            Verify(r, step) /\ (step = "configured" => proof = "V9")
    BY <1>1 DEF VerifyV8, VerifyV9
  <2>2. Same /\ OthersSame(r) /\ freeze # 0 /\ sources = freeze
    BY <2>1 DEF Verify, OthersSame, SealedTypeOK
  <2>3. runner'[r].step = step /\ runner'[r].at = 1
    <3>1. runner'[r] = [Idle EXCEPT !.step = step]
      BY <1>0, <2>1 DEF Verify, SealedTypeOK
    <3> QED
      BY <3>1 DEF Idle
  <2>4. 1 \in DOMAIN Order' /\ Order' = Order
    BY <1>0, <2>2, OrderOfStudies DEF Order
  <2>5. RunnerOK(r)' /\ ~Holds(r)'
    BY <2>1, <2>2, <2>3, <2>4 DEF RunnerOK, Holds, HolderSteps
  <2> QED
    BY <2>2, <2>5, FreeFrame
<1>2. CASE ReadConfig(r)
  <2>1. Same /\ OthersSame(r) /\ runner[r].step = "verified"
    BY <1>2 DEF ReadConfig, OthersSame, SealedTypeOK
  <2>2. /\ runner'[r].step = "configured" /\ runner'[r].at = runner[r].at
        /\ runner'[r].config = sources /\ runner'[r].edited = runner[r].edited
    <3>1. runner'[r] = [runner[r] EXCEPT !.step = "configured", !.config = sources]
      BY <1>0, <1>2 DEF ReadConfig, SealedTypeOK
    <3> QED
      BY <1>0, <3>1 DEF RunnerState
  <2>3. Order' = Order
    BY <2>1 DEF Order
  <2>4. RunnerOK(r)' /\ ~Holds(r)'
    BY <1>0, <2>1, <2>2, <2>3 DEF RunnerOK, Holds, HolderSteps
  <2> QED
    BY <2>1, <2>4, FreeFrame
<1>3. CASE CheckUntouched(r)
  <2>1. Same /\ OthersSame(r) /\ runner[r].step = "configured"
    BY <1>3 DEF CheckUntouched, Goto, OthersSame, SealedTypeOK
  <2>2. /\ runner'[r].step = "checked" /\ runner'[r].at = runner[r].at
        /\ runner'[r].config = runner[r].config /\ runner'[r].edited = runner[r].edited
    <3>1. runner'[r] = [runner[r] EXCEPT !.step = "checked"]
      BY <1>0, <1>3 DEF CheckUntouched, Goto, SealedTypeOK
    <3> QED
      BY <1>0, <3>1 DEF RunnerState
  <2>3. Order' = Order
    BY <2>1 DEF Order
  <2>4. RunnerOK(r)' /\ ~Holds(r)'
    BY <1>0, <2>1, <2>2, <2>3 DEF RunnerOK, Holds, HolderSteps
  <2> QED
    BY <2>1, <2>4, FreeFrame
<1>4. CASE Raise(r)
  <2>1. Same /\ OthersSame(r) /\ runner'[r] = Idle
    BY <1>0, <1>4 DEF Raise, OthersSame, SealedTypeOK
  <2>2. 1 \in DOMAIN Order' /\ Order' = Order
    BY <1>0, <2>1, OrderOfStudies DEF Order
  <2>3. RunnerOK(r)' /\ ~Holds(r)'
    BY <2>1, <2>2, IdleIsFree DEF RunnerOK, Holds, HolderSteps
  <2> QED
    BY <2>1, <2>3, FreeFrame
<1> QED
  BY <1>1, <1>2, <1>3, <1>4

\* The lock is created by one runner only: it was absent.
LEMMA LockStep ==
  ASSUME SealedInv, SealedTypeOK', NEW r \in Runners, LockReveal(r)
  PROVE  SealedInv'
<1> SUFFICES ASSUME NEW s \in Studies, s = StudyOf(r) PROVE SealedInv'
  BY OwnStudy
<1>0. SealedTypeOK /\ RunnerOK(r) /\ runner[r] \in RunnerState /\ s \in Studies /\ StudyOK(s)
  BY RunnerTypes, OwnStudy DEF SealedInv
<1>1. /\ runner[r].step = "checked" /\ started[s] = "absent"
      /\ UNCHANGED <<proof, sources, freeze, statistics, result, consumedLock, reads, readWith, final>>
      /\ started' = [started EXCEPT ![s] = "whole"]
  BY DEF LockReveal
<1>2. /\ runner'[r].step = "locked" /\ runner'[r].at = runner[r].at
      /\ runner'[r].config = runner[r].config /\ runner'[r].edited = runner[r].edited
  <2>1. runner'[r] = [runner[r] EXCEPT !.step = "locked"]
    BY <1>0 DEF LockReveal, Goto, SealedTypeOK
  <2> QED
    BY <1>0, <2>1 DEF RunnerState
<1>3. OthersSame(r) /\ \A t \in Studies : t # s => StudySame(t)
  BY <1>0, <1>1 DEF LockReveal, Goto, OthersSame, StudySame, SealedTypeOK
<1>4. Order' = Order /\ StudyOf(r)' = s /\ started'[s] = "whole"
  BY <1>0, <1>1, <1>2 DEF Order, StudyOf, SealedTypeOK
<1>5. RunnerOK(r)'
  BY <1>0, <1>1, <1>2, <1>4 DEF RunnerOK, StudyOK, Holds, HolderSteps
<1>6. StudyOK(s)'
  BY <1>0, <1>1, <1>4 DEF StudyOK
<1> QED
  BY <1>0, <1>1, <1>3, <1>4, <1>5, <1>6, HolderFrame

LEMMA ReadStep ==
  ASSUME SealedInv, SealedTypeOK', NEW r \in Runners, ReadOutcomesV8(r) \/ ReadOutcomesV9(r)
  PROVE  SealedInv'
<1> SUFFICES ASSUME NEW s \in Studies, s = StudyOf(r) PROVE SealedInv'
  BY OwnStudy
<1>0. SealedTypeOK /\ RunnerOK(r) /\ runner[r] \in RunnerState /\ s \in Studies /\ StudyOK(s)
  BY RunnerTypes, OwnStudy DEF SealedInv
<1>1. PICK config : ReadOutcomes(r, config) /\ (config = freeze \/ runner[r].edited)
  <2>1. runner[r].step = "locked"
    BY DEF ReadOutcomesV8, ReadOutcomesV9, ReadOutcomes
  <2> QED
    BY <1>0, <2>1 DEF ReadOutcomesV8, ReadOutcomesV9, RunnerOK
<1>2. /\ runner[r].step = "locked"
      /\ UNCHANGED <<proof, sources, freeze, started, statistics, result, consumedLock, final>>
      /\ readWith' = [readWith EXCEPT ![s] = [config |-> config, edited |-> runner[r].edited]]
      /\ reads' = [reads EXCEPT ![s] = @ + 1]
  BY <1>1 DEF ReadOutcomes, sealedFiles
<1>3. PICK verdict \in Verdicts :
          runner' = [runner EXCEPT ![r].step = "analyzed", ![r].verdict = verdict]
  BY <1>1 DEF ReadOutcomes
<1>4. /\ runner'[r].step = "analyzed" /\ runner'[r].at = runner[r].at
      /\ runner'[r].config = runner[r].config /\ runner'[r].edited = runner[r].edited
  <2>1. runner'[r] = [runner[r] EXCEPT !.step = "analyzed", !.verdict = verdict]
    BY <1>0, <1>3 DEF SealedTypeOK
  <2> QED
    BY <1>0, <2>1 DEF RunnerState
<1>5. OthersSame(r) /\ \A t \in Studies : t # s => StudySame(t)
  BY <1>0, <1>2, <1>3 DEF OthersSame, StudySame, SealedTypeOK
<1>6. Order' = Order /\ StudyOf(r)' = s
  BY <1>2, <1>4 DEF Order, StudyOf
<1>7. /\ reads[s] = 0 /\ reads'[s] = 1
      /\ readWith'[s].config = config /\ readWith'[s].edited = runner[r].edited
  <2>1. reads[s] = 0
    BY <1>0, <1>2 DEF RunnerOK
  <2>2. readWith'[s] = [config |-> config, edited |-> runner[r].edited]
    BY <1>0, <1>2 DEF SealedTypeOK
  <2>3. reads'[s] = reads[s] + 1
    BY <1>0, <1>2 DEF SealedTypeOK
  <2> QED
    BY <2>1, <2>2, <2>3
<1>8. Holds(r) /\ freeze # 0
  BY <1>0, <1>2 DEF Holds, HolderSteps, RunnerOK
<1>9. RunnerOK(r)'
  BY <1>0, <1>2, <1>4, <1>6, <1>7 DEF RunnerOK, Holds, HolderSteps
<1>10. StudyOK(s)'
  <2>1. result[s] = "absent" /\ consumedLock[s] = "absent" /\ started[s] = "whole"
    BY <1>0, <1>2, <1>8 DEF RunnerOK
  <2> QED
    BY <1>1, <1>2, <1>7, <1>8, <2>1 DEF StudyOK, Verdicts
<1> QED
  BY <1>0, <1>2, <1>5, <1>6, <1>8, <1>9, <1>10, HolderFrame

LEMMA WriteStep ==
  ASSUME SealedInv, SealedTypeOK', NEW r \in Runners, WriteStatistics(r) \/ WriteResult(r)
  PROVE  SealedInv'
<1> SUFFICES ASSUME NEW s \in Studies, s = StudyOf(r) PROVE SealedInv'
  BY OwnStudy
<1>0. SealedTypeOK /\ RunnerOK(r) /\ runner[r] \in RunnerState /\ s \in Studies /\ StudyOK(s)
  BY RunnerTypes, OwnStudy DEF SealedInv
<1>1. /\ Holds(r)
      /\ UNCHANGED <<proof, sources, freeze, started, consumedLock, reads, readWith, final>>
  BY DEF WriteStatistics, WriteResult, Holds, HolderSteps
<1>2. PICK step \in {"statistics", "result"} : runner' = [runner EXCEPT ![r].step = step]
  BY DEF WriteStatistics, WriteResult, Goto
<1>3. /\ runner'[r].step = step /\ runner'[r].at = runner[r].at
      /\ runner'[r].config = runner[r].config /\ runner'[r].edited = runner[r].edited
      /\ runner'[r].verdict = runner[r].verdict
  <2>1. runner'[r] = [runner[r] EXCEPT !.step = step]
    BY <1>0, <1>2 DEF SealedTypeOK
  <2> QED
    BY <1>0, <2>1 DEF RunnerState
<1>4. OthersSame(r) /\ \A t \in Studies : t # s => StudySame(t)
  BY <1>0, <1>1, <1>2 DEF WriteStatistics, WriteResult, OthersSame, StudySame, SealedTypeOK
<1>5. Order' = Order /\ StudyOf(r)' = s
  BY <1>1, <1>3 DEF Order, StudyOf
<1>6. reads[s] = 1 /\ started[s] = "whole" /\ consumedLock[s] = "absent" /\ freeze # 0
  BY <1>0, <1>1 DEF RunnerOK, WriteStatistics, WriteResult, Holds, HolderSteps
<1>7. CASE WriteStatistics(r)
  <2>1. runner[r].step = "analyzed" /\ runner'[r].step = "statistics" /\ result' = result
    BY <1>0, <1>7 DEF WriteStatistics, Goto, SealedTypeOK, RunnerState
  <2>2. result[s] = "absent" /\ statistics'[s] = runner[r].verdict
    BY <1>0, <1>7 DEF WriteStatistics, RunnerOK, SealedTypeOK
  <2>3. RunnerOK(r)'
    BY <1>0, <1>1, <1>3, <1>5, <1>6, <2>1, <2>2 DEF RunnerOK, Holds, HolderSteps
  <2>4. StudyOK(s)'
    BY <1>0, <1>1, <1>6, <2>1, <2>2 DEF StudyOK, Verdicts
  <2> QED
    BY <1>0, <1>1, <1>4, <1>5, <2>3, <2>4, HolderFrame
<1>8. CASE WriteResult(r)
  <2>1. runner[r].step = "statistics" /\ runner'[r].step = "result" /\ statistics' = statistics
    BY <1>0, <1>8 DEF WriteResult, Goto, SealedTypeOK, RunnerState
  <2>2. statistics[s] = runner[r].verdict /\ result'[s] = runner[r].verdict
    BY <1>0, <1>8 DEF WriteResult, RunnerOK, SealedTypeOK
  <2>3. RunnerOK(r)'
    BY <1>0, <1>1, <1>3, <1>5, <1>6, <2>1, <2>2 DEF RunnerOK, Holds, HolderSteps
  <2>4. StudyOK(s)'
    BY <1>0, <1>1, <1>6, <2>1, <2>2 DEF StudyOK, Verdicts
  <2> QED
    BY <1>0, <1>1, <1>4, <1>5, <2>3, <2>4, HolderFrame
<1> QED
  BY <1>7, <1>8

LEMMA ConsumeStep ==
  ASSUME SealedInv, SealedTypeOK', NEW r \in Runners, Consume(r)
  PROVE  SealedInv'
<1> SUFFICES ASSUME NEW s \in Studies, s = StudyOf(r) PROVE SealedInv'
  BY OwnStudy
<1>0. SealedTypeOK /\ RunnerOK(r) /\ runner[r] \in RunnerState /\ s \in Studies /\ StudyOK(s)
  BY RunnerTypes, OwnStudy DEF SealedInv
<1>1. /\ runner[r].step = "result" /\ Holds(r)
      /\ consumedLock' = [consumedLock EXCEPT ![s] = result[s]]
      /\ UNCHANGED <<proof, sources, freeze, started, statistics, result, reads, readWith, final>>
  BY DEF Consume, Holds, HolderSteps
<1>2. OthersSame(r) /\ \A t \in Studies : t # s => StudySame(t)
  BY <1>0, <1>1 DEF Consume, OthersSame, StudySame, SealedTypeOK
<1>3. Order' = Order /\ 1 \in DOMAIN Order /\ DOMAIN Order = 1..Len(Order) /\ Len(Order) \in Nat
  BY <1>0, <1>1, OrderOfStudies DEF Order
<1>4. \/ runner'[r] = Idle
      \/ /\ runner'[r].step = "configured" /\ runner'[r].at \in DOMAIN Order
         /\ runner'[r].config = runner[r].config /\ runner'[r].edited = runner[r].edited
  <2>1. CASE runner[r].at < Len(Order)
    <3>1. runner'[r] = [runner[r] EXCEPT !.step = "configured", !.at = runner[r].at + 1]
      BY <1>0, <2>1 DEF Consume, SealedTypeOK
    <3>2. runner[r].at + 1 \in DOMAIN Order
      BY <1>0, <1>3, <2>1 DEF RunnerState
    <3> QED
      BY <1>0, <3>1, <3>2 DEF RunnerState
  <2>2. CASE ~(runner[r].at < Len(Order))
    BY <1>0, <2>2 DEF Consume, SealedTypeOK
  <2> QED
    BY <2>1, <2>2
<1>5. RunnerOK(r)' /\ ~Holds(r)'
  BY <1>0, <1>1, <1>3, <1>4, IdleIsFree DEF RunnerOK, Holds, HolderSteps
<1>6. StudyOK(s)'
  <2>1. reads[s] = 1 /\ started[s] = "whole" /\ result[s] = runner[r].verdict
    BY <1>0, <1>1 DEF RunnerOK
  <2>2. consumedLock'[s] = result[s] /\ result[s] \in Verdicts
    BY <1>0, <1>1, <2>1 DEF SealedTypeOK, RunnerState
  <2> QED
    BY <1>0, <1>1, <2>1, <2>2 DEF StudyOK, Verdicts
<1> QED
  BY <1>0, <1>1, <1>2, <1>5, <1>6, HolderFrame

\* A failure or a kill leaves at most one file behind that was not there before.
LEMMA FailStep ==
  ASSUME SealedInv, SealedTypeOK', NEW r \in Runners, RaiseConsumed(r) \/ Kill(r)
  PROVE  SealedInv'
<1> SUFFICES ASSUME NEW s \in Studies, s = StudyOf(r) PROVE SealedInv'
  BY OwnStudy
<1>0. SealedTypeOK /\ RunnerOK(r) /\ runner[r] \in RunnerState /\ s \in Studies /\ StudyOK(s)
  BY RunnerTypes, OwnStudy DEF SealedInv
<1>1. UNCHANGED <<proof, sources, freeze, reads, readWith, final>> /\ runner' = [runner EXCEPT ![r] = Idle]
  BY DEF RaiseConsumed, Kill
<1>2. OthersSame(r) /\ runner'[r] = Idle
  BY <1>0, <1>1 DEF OthersSame, SealedTypeOK
<1>3. Order' = Order /\ 1 \in DOMAIN Order
  BY <1>0, <1>1, OrderOfStudies DEF Order
<1>4. RunnerOK(r)' /\ ~Holds(r)'
  BY <1>2, <1>3, IdleIsFree DEF RunnerOK, Holds, HolderSteps
<1>5. CASE UNCHANGED sealedFiles
  BY <1>1, <1>2, <1>4, <1>5, FreeFrame
<1>6. CASE RaiseConsumed(r)
  <2>1. s = V8Study /\ proof = "V8" /\ Holds(r)
    <3>1. proof = "V8" /\ Holds(r)
      BY <1>6 DEF RaiseConsumed, Holds, HolderSteps
    <3>2. runner[r].at \in DOMAIN <<V8Study>>
      BY <1>0, <3>1 DEF RunnerOK, Order
    <3> QED
      BY <3>1, <3>2 DEF StudyOf, Order
  <2>2. consumedLock[s] = "absent" /\ started[s] = "whole"
    BY <1>0, <2>1 DEF RunnerOK
  <2>3. /\ UNCHANGED <<started, statistics, result>>
        /\ consumedLock' = [consumedLock EXCEPT ![s] = "invalid"]
    BY <1>6, <2>1, <2>2 DEF RaiseConsumed
  <2>4. consumedLock'[s] = "invalid" /\ \A t \in Studies : t # s => StudySame(t)
    BY <1>0, <1>1, <2>3 DEF StudySame, SealedTypeOK
  <2>5. StudyOK(s)'
    BY <1>0, <1>1, <2>1, <2>2, <2>3, <2>4 DEF StudyOK, Verdicts
  <2> QED
    BY <1>0, <1>1, <1>2, <1>4, <2>1, <2>4, <2>5, HolderFrame
<1>7. ASSUME Kill(r), ~UNCHANGED sealedFiles PROVE SealedInv'
  <2>1. \A t \in Studies : t # s => StudySame(t)
    BY <1>0, <1>1, <1>7 DEF Kill, Tear, StudySame, SealedTypeOK, sealedFiles
  <2>2. CASE runner[r].step = "checked"
    <3>1. started' = Tear(started, s) /\ UNCHANGED <<statistics, result, consumedLock>>
      BY <1>7, <2>2 DEF Kill
    <3>2. started[s] = "absent" /\ started'[s] = "torn"
      BY <1>0, <1>7, <3>1 DEF Tear, SealedTypeOK, sealedFiles
    <3>3. StudyOK(s)'
      BY <1>0, <1>1, <3>1, <3>2 DEF StudyOK
    <3> QED
      BY <1>0, <1>1, <1>2, <1>4, <2>1, <3>2, <3>3, HolderFrame
  <2>3. CASE runner[r].step # "checked"
    <3>1. Holds(r) /\ started' = started
      BY <1>7, <2>3 DEF Kill, Holds, HolderSteps, sealedFiles
    <3>2. started[s] = "whole" /\ consumedLock[s] = "absent"
      BY <1>0, <3>1 DEF RunnerOK
    <3>3. \/ statistics'[s] = statistics[s] /\ result'[s] = result[s] /\ consumedLock'[s] = "torn"
          \/ /\ result[s] = "absent" /\ consumedLock'[s] = "absent"
             /\ result'[s] \in {"absent", "torn"}
      BY <1>0, <1>7, <2>3, <3>2 DEF Kill, Tear, RunnerOK, SealedTypeOK, sealedFiles
    <3>4. StudyOK(s)'
      BY <1>0, <1>1, <3>1, <3>2, <3>3 DEF StudyOK, Verdicts
    <3> QED
      BY <1>0, <1>1, <1>2, <1>4, <2>1, <3>1, <3>4, HolderFrame
  <2> QED
    BY <2>2, <2>3
<1> QED
  BY <1>5, <1>6, <1>7

LEMMA SealedStep == SealedInv /\ [SealedNext]_sealedVars => SealedInv'
<1> SUFFICES ASSUME SealedInv, [SealedNext]_sealedVars PROVE SealedInv'
  OBVIOUS
<1>1. SealedTypeOK'
  BY TypeStep
<1>2. CASE UNCHANGED sealedVars
  <2>1. Order' = Order
    BY <1>2 DEF sealedVars, Order
  <2> QED
    BY <1>1, <1>2, <2>1
    DEF sealedVars, sealedFiles, SealedInv, RunnerOK, StudyOK, HoldersAlone, ClaimOK, Holds, StudyOf
<1> QED
  BY <1>1, <1>2, EditStep, FreezeStep, FinalizeStep, FreeStep, LockStep, ReadStep, WriteStep,
     ConsumeStep, FailStep DEF SealedNext

\* Who holds a study, and what its files then say.
THEOREM SealedInvariant == SealedSpec => []SealedInv
BY SealedInitial, SealedStep, PTL DEF SealedSpec

\* The outcomes of a study are read once at most, after the freeze and a lock that stays, and with
\* the frozen configuration unless it was edited under the runner.
THEOREM OutcomesSafe == SealedSpec => []OutcomesReadOnce
<1>1. SealedInv => OutcomesReadOnce
  <2> SUFFICES ASSUME SealedInv, NEW s \in Studies
               PROVE  /\ reads[s] <= 1
                      /\ reads[s] = 1 =>
                             /\ freeze # 0 /\ started[s] # "absent"
                             /\ readWith[s].config = freeze \/ readWith[s].edited
    BY DEF OutcomesReadOnce
  <2>1. StudyOK(s)
    BY DEF SealedInv
  <2> QED
    BY <2>1 DEF StudyOK
<1> QED
  BY <1>1, SealedInvariant, PTL

\* The final result of V9 is what the only reading of each study found.
THEOREM FinalSafe == SealedSpec => []FinalRestsOnReveal
<1>1. SealedInv => FinalRestsOnReveal
  BY DEF SealedInv, ClaimOK, FinalRestsOnReveal
<1> QED
  BY <1>1, SealedInvariant, PTL

Stages == FileNames \cup Checks \cup {"results"}
\* A command at work: its model, the sources it runs in, its stage, and what it has seen pass.
AtWork == [model : Models, tree : Sources, at : Stages, head : Nat, passed : BOOLEAN]
TournamentJobs == {Resting} \cup AtWork

TournamentTypes ==
    /\ study \in Benchmarks
    /\ tree \in Sources /\ head \in Nat
    /\ files = [f \in FileNames |-> files[f]]
    /\ Whole("freeze") => files["freeze"] \in Freezes
    /\ running \in [Commands -> TournamentJobs]
    /\ opened \in Seq([model : Models, tree : Sources])

\* The stages of a command belong to its benchmark.
StagesOfStudy ==
    \A p \in Commands :
        /\ At(p, "tournament") => study \in {"v7_1", "v7_3"}
        /\ At(p, "check_freeze") => study \in {"v7", "v7_1"}
        /\ At(p, "results") \/ At(p, "check_lock") => study = "v7"
        /\ At(p, "source_freeze") \/ At(p, "read_freeze") => study = "v7_1"
        /\ At(p, "lock") => study \in {"v7", "v7_1"}
        /\ At(p, "sealed") \/ At(p, "outcome") => study = "v7_3"

\* Nobody edits or commits while a command runs; V7 selects the one winner of its sources.
RunTogether ==
    \A p \in Commands : running[p] # Resting =>
        /\ running[p].tree = tree /\ running[p].head = head
        /\ study = "v7" /\ (At(p, "check_freeze") \/ At(p, "freeze")) => running[p].model = Winner(tree, "unproven")

\* The freeze that stands and those about to be written over it.
Issued == {FreezeOf(p) : p \in {q \in Commands : At(q, "freeze")}} \cup {c \in {files["freeze"]} : Whole("freeze")}

\* They are one, but for the model when V7.1 developments crossed.
SameFreeze(c, d) == c.tree = d.tree /\ c.head = d.head /\ (c.model = d.model \/ Overwritten)

OneFreeze == study # "v7_3" => \A c, d \in Issued : SameFreeze(c, d)

\* A model and a version of the sources agree with a freeze.
Agrees(v, c) ==
    /\ v.model = c.model \/ Overwritten
    /\ SpecsOf[v.tree] = SpecsOf[c.tree]
    /\ study = "v7_1" => v.tree = c.tree

\* Who validates, and who has validated, found a freeze, and agrees with every one there is.
ValidatorsAgree ==
    study # "v7_3" =>
        \A p \in Commands : At(p, "check_lock") \/ At(p, "lock") \/ At(p, "validation") =>
            files["freeze"] # Missing /\ \A c \in Issued : Agrees(running[p], c)

OpeningsAgree ==
    /\ \A v \in Openings : files["freeze"] # Missing /\ \A c \in Issued : Agrees(v, c)
    /\ study = "v7_3" => opened = << >>

\* The source freeze follows the freeze.
SourceFollows ==
    /\ files["source_freeze"] # Missing => study = "v7_1" /\ files["freeze"] # Missing
    /\ \A p \in Commands : At(p, "source_freeze") =>
           files["freeze"] # Missing /\ \A c \in Issued : SameFreeze(FreezeOf(p), c)
    /\ Whole("source_freeze") => \A c \in Issued : SameFreeze(files["source_freeze"], c)

\* Without crossing commands one runs at a time.
Alone ==
    ~crossed => \A p, q \in Commands : running[p] # Resting /\ running[q] # Resting => p = q

\* V7.1 opens the packs behind its lock.
OpenedOnce ==
    study = "v7_1" =>
        /\ opened # << >> => files["lock"] # Missing
        /\ \A p \in Commands : At(p, "validation") => files["lock"] # Missing
        /\ ~crossed => /\ Len(opened) <= 1
                       /\ \A p \in Commands :
                            At(p, "read_freeze") \/ At(p, "lock") \/ At(p, "validation") => opened = << >>

\* What a V7.3 command has on disk when nobody crosses it and nobody is killed.
LevelsOf(p) ==
    /\ files["validation"] = Verdict(p, TRUE) /\ files["sealed"] = Verdict(p, TRUE)
    /\ files["freeze"].model = running[p].model

CommandKnows(p) ==
    /\ At(p, "freeze") \/ At(p, "validation") \/ At(p, "sealed") \/ At(p, "outcome") =>
           files["tournament"] = Of(p)
    /\ At(p, "tournament") \/ At(p, "freeze") \/ At(p, "validation") \/ At(p, "sealed") => running[p].passed
    /\ At(p, "validation") \/ At(p, "sealed") => files["freeze"].model = running[p].model
    /\ At(p, "sealed") => files["validation"] = Verdict(p, TRUE)
    /\ At(p, "outcome") /\ running[p].passed /\ running[p].model # "none" => LevelsOf(p)

OutcomeHolds ==
    Whole("outcome") /\ files["outcome"].passed =>
        /\ files["validation"] = files["outcome"] /\ files["sealed"] = files["outcome"]
        /\ files["freeze"].model = files["outcome"].model
        /\ files["tournament"] = [model |-> files["outcome"].model, tree |-> files["outcome"].tree]

OutcomeFollows ==
    /\ files["outcome"] # Missing => study = "v7_3"
    /\ study = "v7_3" /\ ~crossed /\ ~killed =>
           /\ \A p \in Commands : CommandKnows(p)
           /\ NoneRuns => OutcomeHolds

TournamentInv ==
    /\ TournamentTypes
    /\ StagesOfStudy
    /\ RunTogether
    /\ OneFreeze
    /\ ValidatorsAgree
    /\ OpeningsAgree
    /\ SourceFollows
    /\ Alone
    /\ OpenedOnce
    /\ OutcomeFollows

LaunchAction(p) == DevelopV7(p) \/ DevelopV71(p) \/ RunV73(p) \/ ValidateV7(p) \/ ValidateV71(p)
LevelAction(p) == RunFrozenLevel(p, "validation", "sealed") \/ RunFrozenLevel(p, "sealed", "outcome")
LookAction(p) == CheckFreeze(p) \/ CheckLock(p) \/ RefuseFreeze(p) \/ RefuseLock(p) \/ RefuseValidation(p)

\* A selected model is one of the models.
LEMMA WinnerIsModel ==
    \A t \in Sources : Winner(t, "unproven") \in Models /\ Winner(t, "none") \in Models
BY DEF Winner, Models

LEMMA TypesInit == TournamentInit => TournamentTypes
BY DEF TournamentInit, TournamentTypes, Whole, TournamentJobs, AtWork, Stages, FileNames, Checks

\* A command that starts has the record of a job, and one that goes on keeps it.
LEMMA LaunchTyped ==
    ASSUME TournamentTypes, NEW p \in Commands, NEW at \in Stages, NEW m \in Models,
           Launch(p, Job(at, m))
    PROVE  running' \in [Commands -> TournamentJobs]
<1>1. Job(at, m) \in TournamentJobs
  BY DEF Job, TournamentJobs, AtWork, Stages, TournamentTypes
<1>. QED  BY <1>1 DEF Launch, TournamentTypes

LEMMA GoTyped ==
    ASSUME TournamentTypes, NEW p \in Commands, running[p] # Resting,
           NEW at \in Stages \cup {"rest"}, Go(p, at)
    PROVE  running' \in [Commands -> TournamentJobs]
<1>1. running[p] \in AtWork
  BY DEF TournamentJobs, AtWork, Stages, TournamentTypes
<1>2. [running[p] EXCEPT !.at = at] \in TournamentJobs \/ at = "rest"
  BY <1>1 DEF TournamentJobs, AtWork, Stages
<1>3. Resting \in TournamentJobs
  BY DEF TournamentJobs, AtWork, Stages
<1>. QED  BY <1>2, <1>3 DEF Go, TournamentTypes

\* A command at a stage is not at rest, and its record has the types of a job.
LEMMA AtStage ==
    ASSUME TournamentTypes, NEW p \in Commands, NEW at \in Stages, At(p, at)
    PROVE  /\ running[p] # Resting
           /\ running[p] \in AtWork
           /\ running[p].model \in Models /\ running[p].tree \in Sources /\ running[p].head \in Nat
<1>1. running[p] # Resting
  BY DEF At, Resting, Stages, FileNames, Checks
<1>. QED  BY <1>1 DEF TournamentTypes, TournamentJobs, AtWork, Stages

\* A write changes its file and no other.
LEMMA WriteChanges ==
    ASSUME TournamentTypes, NEW f \in FileNames, NEW content, Write(f, content)
    PROVE  /\ files' = [g \in FileNames |-> files'[g]]
           /\ files'[f] = content
           /\ \A g \in FileNames \ {f} : files'[g] = files[g]
BY DEF TournamentTypes, Write

\* Who is killed breaks at most the file it was to write.
LEMMA KillWrites ==
    ASSUME TournamentTypes, NEW p \in Commands, KillRunner(p)
    PROVE  \/ UNCHANGED files
           \/ \E f \in FileNames : /\ Write(f, Broken)
                                   /\ f \in {"outcome", "source_freeze"} => At(p, f)
<1>1. CASE running[p].at \notin Checks /\ Write(FileAt(running[p].at), Broken)
  <2>1. running[p].at \in FileNames \cup {"results"}
    BY <1>1 DEF KillRunner, TournamentTypes, TournamentJobs, AtWork, Stages
  <2>2. FileAt(running[p].at) \in FileNames
    BY <2>1 DEF FileAt, FileNames
  <2>3. \A f \in {"outcome", "source_freeze"} : FileAt(running[p].at) = f => At(p, f)
    BY DEF FileAt, At
  <2>. QED  BY <1>1, <2>2, <2>3
<1>. QED  BY <1>1 DEF KillRunner

LEMMA TypesStep ==
    ASSUME TournamentTypes, [TournamentNext]_tournamentVars
    PROVE  TournamentTypes'
<1> USE DEF TournamentTypes, Whole
<1>a. Stages = {"tournament", "freeze", "source_freeze", "lock", "validation", "sealed", "outcome", "results",
                "check_freeze", "check_lock", "read_freeze"}
  BY DEF Stages, FileNames, Checks
<1>1. CASE EditTree
  BY <1>1 DEF EditTree
<1>2. CASE CommitTree
  BY <1>2 DEF CommitTree
<1>3. ASSUME NEW p \in Commands, DevelopV7(p) \/ DevelopV71(p) \/ RunV73(p)
      PROVE  TournamentTypes'
  <2>1. "none" \in Models /\ \A m \in WinnersOf[tree] : m \in Models
    BY DEF Models
  <2>2. \E m \in Models, at \in Stages : Launch(p, Job(at, m))
    BY <1>3, <1>a, <2>1, WinnerIsModel DEF DevelopV7, DevelopV71, RunV73
  <2>. QED  BY <2>2, LaunchTyped DEF Launch
<1>4. ASSUME NEW p \in Commands, ValidateV7(p) \/ ValidateV71(p)
      PROVE  TournamentTypes'
  <2>1. \E m \in Models, at \in Stages : Launch(p, Job(at, m))
    BY <1>4, <1>a DEF ValidateV7, ValidateV71, Freezes, Models
  <2>. QED  BY <2>1, LaunchTyped DEF Launch
<1>5. ASSUME NEW p \in Commands, WriteTournament(p)
      PROVE  TournamentTypes'
  BY <1>5, <1>a, GoTyped, AtStage DEF WriteTournament, Write, Unmoved
<1>6. ASSUME NEW p \in Commands, WriteFreeze(p)
      PROVE  TournamentTypes'
  <2>1. FreezeOf(p) \in Freezes
    BY <1>6, <1>a, AtStage DEF WriteFreeze, FreezeOf, Freezes
  <2>2. running' \in [Commands -> TournamentJobs]
    BY <1>6, <1>a, GoTyped, AtStage DEF WriteFreeze
  <2>. QED  BY <1>6, <2>1, <2>2 DEF WriteFreeze, Write, Unmoved
<1>7. ASSUME NEW p \in Commands, LookAction(p)
      PROVE  TournamentTypes'
  BY <1>7, <1>a, GoTyped, AtStage
     DEF LookAction, CheckFreeze, CheckLock, RefuseFreeze, RefuseLock, RefuseValidation, Unmoved
<1>14. ASSUME NEW p \in Commands, ReadFreeze(p)
       PROVE  TournamentTypes'
  <2>1. running[p] \in AtWork /\ files["freeze"].model \in Models
    BY <1>14, <1>a, AtStage DEF ReadFreeze, Openable, Freezes
  <2>2. [running[p] EXCEPT !.at = "lock", !.model = files["freeze"].model] \in TournamentJobs
    BY <2>1, <1>a DEF TournamentJobs, AtWork
  <2>3. running' \in [Commands -> TournamentJobs]
    BY <1>14, <2>2 DEF ReadFreeze
  <2>. QED  BY <1>14, <2>3 DEF ReadFreeze, Unmoved
<1>8. ASSUME NEW p \in Commands, WriteDevelopmentResults(p) \/ WriteSourceFreeze(p) \/ WriteLock(p)
      PROVE  TournamentTypes'
  <2>1. running' \in [Commands -> TournamentJobs]
    BY <1>8, <1>a, GoTyped, AtStage DEF WriteDevelopmentResults, WriteSourceFreeze, WriteLock
  <2>. QED  BY <1>8, <2>1, WriteChanges DEF WriteDevelopmentResults, WriteSourceFreeze, WriteLock, Unmoved, FileNames
<1>9. ASSUME NEW p \in Commands, OpenValidation(p)
      PROVE  TournamentTypes'
  <2>1. running' \in [Commands -> TournamentJobs]
    BY <1>9, <1>a, GoTyped, AtStage DEF OpenValidation
  <2>2. Of(p) \in [model : Models, tree : Sources]
    BY <1>9, <1>a, AtStage DEF OpenValidation, Of
  <2>. QED  BY <1>9, <2>1, <2>2 DEF OpenValidation, Write, Unmoved
<1>10. ASSUME NEW p \in Commands, LevelAction(p)
       PROVE  TournamentTypes'
  <2>1. PICK passed \in BOOLEAN, next \in {"sealed", "outcome"} :
            running' = [running EXCEPT ![p].at = IF passed THEN next ELSE "outcome", ![p].passed = passed]
    BY <1>10 DEF LevelAction, RunFrozenLevel
  <2>2. running[p] \in AtWork
    BY <1>10, <1>a, AtStage DEF LevelAction, RunFrozenLevel
  <2>3. [running[p] EXCEPT !.at = IF passed THEN next ELSE "outcome", !.passed = passed] \in TournamentJobs
    BY <2>2, <1>a DEF TournamentJobs, AtWork, Stages
  <2>4. running' \in [Commands -> TournamentJobs]
    BY <2>1, <2>3
  <2>. QED  BY <1>10, <2>4, WriteChanges DEF LevelAction, RunFrozenLevel, Unmoved, FileNames
<1>11. ASSUME NEW p \in Commands, WriteOutcome(p)
       PROVE  TournamentTypes'
  BY <1>11, <1>a, GoTyped, AtStage DEF WriteOutcome, Write, Unmoved
<1>12. ASSUME NEW p \in Commands, KillRunner(p)
       PROVE  TournamentTypes'
  <2>1. running' \in [Commands -> TournamentJobs]
    BY <1>12 DEF KillRunner, TournamentJobs, AtWork, Stages
  <2>. QED  BY <1>12, <2>1, KillWrites, WriteChanges DEF KillRunner, FileNames
<1>13. CASE UNCHANGED tournamentVars
  BY <1>13 DEF tournamentVars
<1>. QED  BY <1>1, <1>2, <1>3, <1>4, <1>5, <1>6, <1>7, <1>8, <1>9, <1>10, <1>11, <1>12, <1>13, <1>14
          DEF TournamentNext, LevelAction, LookAction

\* What a step does to the commands: the one that starts has its job, the one that goes on changes
\* its stage and nothing else, the others keep theirs.
LEMMA LaunchStarts ==
    ASSUME TournamentTypes, NEW p \in Commands, NEW at \in Stages, NEW m, Launch(p, Job(at, m))
    PROVE  /\ \A q \in Commands \ {p} : running'[q] = running[q]
           /\ running'[p].at = at /\ running'[p].model = m /\ running'[p].tree = tree
           /\ running'[p].head = head /\ running'[p].passed /\ running'[p] # Resting
<1>1. running' = [running EXCEPT ![p] = Job(at, m)]
  BY DEF Launch
<1>2. at # "rest" /\ Resting.at = "rest"
  BY DEF Stages, FileNames, Checks, Resting
<1>. QED  BY <1>1, <1>2 DEF TournamentTypes, Job

LEMMA GoMoves ==
    ASSUME TournamentTypes, NEW p \in Commands, running[p] # Resting, NEW at \in Stages \cup {"rest"}, Go(p, at)
    PROVE  /\ \A q \in Commands \ {p} : running'[q] = running[q]
           /\ running'[p].at = at
           /\ at = "rest" => running'[p] = Resting
           /\ at # "rest" => /\ running'[p].model = running[p].model /\ running'[p].tree = running[p].tree
                             /\ running'[p].head = running[p].head
                             /\ running'[p].passed = running[p].passed
                             /\ running'[p] # Resting
<1>1. running[p] \in AtWork
  BY DEF TournamentJobs, AtWork, Stages, TournamentTypes
<1>2. CASE at = "rest"
  BY <1>2 DEF Go, TournamentTypes, Resting
<1>3. CASE at # "rest"
  <2>1. running'[p] = [running[p] EXCEPT !.at = at]
    BY <1>3 DEF Go, TournamentTypes
  <2>. QED  BY <1>1, <1>3, <2>1 DEF Go, TournamentTypes, Resting, AtWork, Stages
<1>. QED  BY <1>2, <1>3

LEMMA LevelMoves ==
    ASSUME TournamentTypes, NEW p \in Commands, LevelAction(p)
    PROVE  /\ \A q \in Commands \ {p} : running'[q] = running[q]
           /\ running'[p].at \in {"sealed", "outcome"} /\ running[p] # Resting /\ running'[p] # Resting
           /\ running'[p].model = running[p].model /\ running'[p].tree = running[p].tree
           /\ running'[p].head = running[p].head
<1>1. PICK passed \in BOOLEAN, next \in {"sealed", "outcome"} :
            running' = [running EXCEPT ![p].at = IF passed THEN next ELSE "outcome", ![p].passed = passed]
  BY DEF LevelAction, RunFrozenLevel
<1>2. running[p] \in AtWork /\ running[p] # Resting
  BY AtStage DEF LevelAction, RunFrozenLevel, Stages, FileNames, Checks
<1>3. running'[p] = [running[p] EXCEPT !.at = IF passed THEN next ELSE "outcome", !.passed = passed]
  BY <1>1 DEF TournamentTypes
<1>. QED  BY <1>1, <1>2, <1>3 DEF TournamentTypes, Resting, AtWork

LEMMA ReadMoves ==
    ASSUME TournamentTypes, NEW p \in Commands, ReadFreeze(p)
    PROVE  /\ \A q \in Commands \ {p} : running'[q] = running[q]
           /\ running'[p].at = "lock" /\ running[p] # Resting /\ running'[p] # Resting
           /\ running'[p].model = files["freeze"].model
           /\ running'[p].tree = running[p].tree /\ running'[p].head = running[p].head
<1>1. running[p] \in AtWork /\ running[p] # Resting
  BY AtStage DEF ReadFreeze, Stages, FileNames, Checks
<1>2. running' = [running EXCEPT ![p] = [running[p] EXCEPT !.at = "lock", !.model = files["freeze"].model]]
  BY DEF ReadFreeze, TournamentTypes
<1>. QED  BY <1>1, <1>2 DEF TournamentTypes, Resting, AtWork

LEMMA KillMoves ==
    ASSUME TournamentTypes, NEW p \in Commands, KillRunner(p)
    PROVE  /\ \A q \in Commands \ {p} : running'[q] = running[q]
           /\ running'[p] = Resting /\ running'[p].at = "rest"
BY DEF KillRunner, TournamentTypes, Resting

LEMMA StagesStep ==
    ASSUME TournamentTypes, StagesOfStudy, [TournamentNext]_tournamentVars
    PROVE  StagesOfStudy'
<1> USE DEF StagesOfStudy, At
<1>a. Stages = {"tournament", "freeze", "source_freeze", "lock", "validation", "sealed", "outcome", "results",
                "check_freeze", "check_lock", "read_freeze"}
  BY DEF Stages, FileNames, Checks
<1>1. CASE EditTree \/ CommitTree \/ UNCHANGED tournamentVars
  BY <1>1 DEF EditTree, CommitTree, tournamentVars
<1>2. ASSUME NEW p \in Commands, LaunchAction(p)
      PROVE  StagesOfStudy'
  <2>1. PICK at, m : /\ at \in Stages /\ Launch(p, Job(at, m))
                     /\ at = "tournament" => study \in {"v7_1", "v7_3"}
                     /\ at \in {"check_freeze", "check_lock"} => study = "v7"
                     /\ at = "read_freeze" => study = "v7_1"
                     /\ at \in {"tournament", "check_freeze", "check_lock", "read_freeze"}
    BY <1>2, <1>a DEF LaunchAction, DevelopV7, DevelopV71, RunV73, ValidateV7, ValidateV71
  <2>2. /\ \A q \in Commands \ {p} : running'[q] = running[q]
        /\ running'[p].at = at
    BY <2>1, LaunchStarts
  <2>3. study' = study
    BY <2>1 DEF Launch
  <2>. QED  BY <2>1, <2>2, <2>3
<1>3. ASSUME NEW p \in Commands, WriteTournament(p)
      PROVE  StagesOfStudy'
  BY <1>3, <1>a, GoMoves, AtStage DEF WriteTournament, Unmoved
<1>4. ASSUME NEW p \in Commands, WriteFreeze(p)
      PROVE  StagesOfStudy'
  BY <1>4, <1>a, GoMoves, AtStage DEF WriteFreeze, Unmoved
<1>5. ASSUME NEW p \in Commands,
             LookAction(p) \/ WriteDevelopmentResults(p) \/ WriteSourceFreeze(p) \/ WriteLock(p)
                \/ OpenValidation(p) \/ WriteOutcome(p)
      PROVE  StagesOfStudy'
  <2>1. study' = study
    BY <1>5 DEF LookAction, CheckFreeze, CheckLock, RefuseFreeze, RefuseLock, RefuseValidation,
                WriteDevelopmentResults, WriteSourceFreeze, WriteLock, OpenValidation, WriteOutcome, Unmoved
  <2>2. /\ running[p] # Resting
        /\ \/ Go(p, "rest") \/ Go(p, "validation") \/ Go(p, "freeze")
           \/ Go(p, "lock") /\ study = "v7"
    BY <1>5, <1>a, AtStage
       DEF LookAction, CheckFreeze, CheckLock, RefuseFreeze, RefuseLock, RefuseValidation,
           WriteDevelopmentResults, WriteSourceFreeze, WriteLock, OpenValidation, WriteOutcome
  <2>. QED  BY <2>1, <2>2, <1>a, GoMoves
<1>6. ASSUME NEW p \in Commands, LevelAction(p)
      PROVE  StagesOfStudy'
  <2>1. study' = study /\ study = "v7_3"
    BY <1>6 DEF LevelAction, RunFrozenLevel, Unmoved
  <2>. QED  BY <1>6, <2>1, LevelMoves
<1>7. ASSUME NEW p \in Commands, KillRunner(p)
      PROVE  StagesOfStudy'
  <2>1. study' = study
    BY <1>7 DEF KillRunner
  <2>. QED  BY <1>7, <2>1, KillMoves
<1>8. ASSUME NEW p \in Commands, ReadFreeze(p)
      PROVE  StagesOfStudy'
  <2>1. study' = study /\ study = "v7_1"
    BY <1>8 DEF ReadFreeze, Unmoved
  <2>. QED  BY <1>8, <2>1, ReadMoves
<1>. QED  BY <1>1, <1>2, <1>3, <1>4, <1>5, <1>6, <1>7, <1>8
          DEF TournamentNext, LaunchAction, LevelAction, LookAction

\* A whole freeze is not one that is missing.
LEMMA WrittenFiles ==
    ASSUME TournamentTypes, NEW p \in Commands
    PROVE  /\ At(p, "freeze") => FreezeOf(p) \in Freezes /\ FreezeOf(p) \notin {Missing, Broken}
           /\ At(p, "lock") /\ study \in {"v7", "v7_1"} => LockOf(p) # Missing
<1>a. {"freeze", "lock"} \subseteq Stages
  BY DEF Stages, FileNames, Checks
<1>1. ASSUME At(p, "freeze")
      PROVE  FreezeOf(p) \in Freezes
  BY <1>1, <1>a, AtStage DEF FreezeOf, Freezes
<1>2. ASSUME At(p, "lock"), study \in {"v7", "v7_1"}
      PROVE  LockOf(p) \in SourceLocks \/ LockOf(p) \in SpecLocks
  BY <1>2, <1>a, AtStage DEF LockOf, SourceLocks, SpecLocks
<1>. QED  BY <1>1, <1>2, TournamentAssumption

\* No step changes the benchmark, and what a step does to the files.
LEMMA FilesStep ==
    ASSUME TournamentTypes, StagesOfStudy, [TournamentNext]_tournamentVars
    PROVE  /\ study' = study
           /\ \/ files'["freeze"] = files["freeze"]
              \/ files'["freeze"] = Broken
              \/ \E p \in Commands : At(p, "freeze") /\ files'["freeze"] = FreezeOf(p) /\ Whole("freeze")'
           /\ files["lock"] # Missing => files'["lock"] # Missing
<1>a. Stages = {"tournament", "freeze", "source_freeze", "lock", "validation", "sealed", "outcome", "results",
                "check_freeze", "check_lock", "read_freeze"}
  BY DEF Stages, FileNames, Checks
<1>1. CASE EditTree \/ CommitTree \/ UNCHANGED tournamentVars
  BY <1>1 DEF EditTree, CommitTree, tournamentVars
<1>2. ASSUME NEW p \in Commands, LaunchAction(p)
      PROVE  UNCHANGED <<study, files>>
  BY <1>2 DEF LaunchAction, DevelopV7, DevelopV71, RunV73, ValidateV7, ValidateV71, Launch
<1>3. ASSUME NEW p \in Commands, LookAction(p) \/ ReadFreeze(p)
      PROVE  UNCHANGED <<study, files>>
  BY <1>3 DEF LookAction, CheckFreeze, CheckLock, RefuseFreeze, RefuseLock, RefuseValidation, ReadFreeze, Unmoved
<1>4. ASSUME NEW p \in Commands,
             WriteTournament(p) \/ WriteDevelopmentResults(p) \/ WriteSourceFreeze(p) \/ OpenValidation(p)
                \/ LevelAction(p) \/ WriteOutcome(p)
      PROVE  study' = study /\ files'["freeze"] = files["freeze"] /\ files'["lock"] = files["lock"]
  <2>1. study' = study
    BY <1>4 DEF WriteTournament, WriteDevelopmentResults, WriteSourceFreeze, OpenValidation, LevelAction,
                RunFrozenLevel, WriteOutcome, Unmoved
  <2>2. \E f, c : f \in FileNames \ {"freeze", "lock"} /\ Write(f, c)
    BY <1>4 DEF WriteTournament, WriteDevelopmentResults, WriteSourceFreeze, OpenValidation, LevelAction,
                RunFrozenLevel, WriteOutcome, FileNames
  <2>. QED  BY <2>1, <2>2, WriteChanges DEF FileNames
<1>5. ASSUME NEW p \in Commands, WriteFreeze(p)
      PROVE  /\ study' = study /\ files'["lock"] = files["lock"]
             /\ At(p, "freeze") /\ files'["freeze"] = FreezeOf(p) /\ Whole("freeze")'
  BY <1>5, WriteChanges, WrittenFiles DEF WriteFreeze, Whole, Unmoved, FileNames
<1>6. ASSUME NEW p \in Commands, WriteLock(p)
      PROVE  study' = study /\ files'["freeze"] = files["freeze"] /\ files'["lock"] # Missing
  BY <1>6, WriteChanges, WrittenFiles DEF WriteLock, Unmoved, FileNames, StagesOfStudy
<1>7. ASSUME NEW p \in Commands, KillRunner(p)
      PROVE  /\ study' = study
             /\ files'["freeze"] \in {files["freeze"], Broken}
             /\ files'["lock"] \in {files["lock"], Broken}
  <2>1. study' = study
    BY <1>7 DEF KillRunner
  <2>. QED  BY <1>7, <2>1, KillWrites, WriteChanges DEF FileNames
<1>. QED  BY <1>1, <1>2, <1>3, <1>4, <1>5, <1>6, <1>7, TournamentAssumption
          DEF TournamentNext, LaunchAction, LevelAction, LookAction

\* Who runs after a step: who ran before it, or the command it starts.
LEMMA RunnersStep ==
    ASSUME TournamentTypes, [TournamentNext]_tournamentVars
    PROVE  \/ /\ crossed' = crossed
              /\ \A q \in Commands : running'[q] # Resting => running[q] # Resting
           \/ \E p \in Commands :
                /\ LaunchAction(p) /\ crossed' = (crossed \/ ~NoneRuns)
                /\ \A q \in Commands \ {p} : running'[q] = running[q]
<1>a. Stages = {"tournament", "freeze", "source_freeze", "lock", "validation", "sealed", "outcome", "results",
                "check_freeze", "check_lock", "read_freeze"}
  BY DEF Stages, FileNames, Checks
<1>1. CASE EditTree \/ CommitTree \/ UNCHANGED tournamentVars
  BY <1>1 DEF EditTree, CommitTree, tournamentVars
<1>2. ASSUME NEW p \in Commands, LaunchAction(p)
      PROVE  /\ crossed' = (crossed \/ ~NoneRuns)
             /\ \A q \in Commands \ {p} : running'[q] = running[q]
  BY <1>2 DEF LaunchAction, DevelopV7, DevelopV71, RunV73, ValidateV7, ValidateV71, Launch, TournamentTypes
<1>3. ASSUME NEW p \in Commands,
             LookAction(p) \/ ReadFreeze(p) \/ WriteTournament(p) \/ WriteFreeze(p) \/ WriteDevelopmentResults(p)
                \/ WriteSourceFreeze(p) \/ WriteLock(p) \/ OpenValidation(p)
                \/ LevelAction(p) \/ WriteOutcome(p) \/ KillRunner(p)
      PROVE  /\ crossed' = crossed
             /\ \A q \in Commands : running'[q] # Resting => running[q] # Resting
  <2>1. crossed' = crossed
    BY <1>3 DEF LookAction, CheckFreeze, CheckLock, RefuseFreeze, RefuseLock, RefuseValidation, ReadFreeze,
                WriteTournament, WriteFreeze, WriteDevelopmentResults, WriteSourceFreeze, WriteLock, OpenValidation, LevelAction, RunFrozenLevel, WriteOutcome, KillRunner, Unmoved
  <2>2. running[p] # Resting
    BY <1>3, <1>a, AtStage DEF LookAction, CheckFreeze, CheckLock, RefuseFreeze, RefuseLock, RefuseValidation, ReadFreeze,
       WriteTournament, WriteFreeze, WriteDevelopmentResults, WriteSourceFreeze, WriteLock, OpenValidation, LevelAction, RunFrozenLevel, WriteOutcome, KillRunner
  <2>3. \E task : running' = [running EXCEPT ![p] = task]
    BY <1>3 DEF LookAction, CheckFreeze, CheckLock, RefuseFreeze, RefuseLock, RefuseValidation, ReadFreeze,
                WriteTournament, WriteFreeze, WriteDevelopmentResults, WriteSourceFreeze, WriteLock, OpenValidation, LevelAction, RunFrozenLevel, WriteOutcome, KillRunner, Go
  <2>. QED  BY <2>1, <2>2, <2>3 DEF TournamentTypes
<1>. QED  BY <1>1, <1>2, <1>3 DEF TournamentNext, LaunchAction, LevelAction, LookAction

LEMMA AloneStep ==
    ASSUME TournamentTypes, Alone, [TournamentNext]_tournamentVars
    PROVE  Alone'
BY RunnersStep DEF Alone, NoneRuns


\* The stages of a command, in their order.
GoesOn(q) ==
    /\ running'[q].model = running[q].model /\ running'[q].tree = running[q].tree
    /\ running'[q].head = running[q].head /\ running[q] # Resting
    /\ \/ At(q, "tournament") /\ (At(q, "check_freeze")' \/ At(q, "outcome")' \/ (At(q, "freeze")' /\ study = "v7_3"))
       \/ CheckFreeze(q) /\ At(q, "freeze")'
       \/ WriteFreeze(q) /\ (At(q, "results")' \/ At(q, "source_freeze")' \/ (At(q, "validation")' /\ study = "v7_3"))
       \/ At(q, "check_lock") /\ At(q, "lock")'
       \/ At(q, "lock") /\ At(q, "validation")'
       \/ study = "v7_3" /\ (At(q, "sealed")' \/ At(q, "outcome")')

StartsNow(q) ==
    /\ running'[q].tree = tree /\ running'[q].head = head /\ UNCHANGED <<tree, head, files>>
    /\ \/ At(q, "check_freeze")' /\ running'[q].model = Winner(tree, "unproven")
       \/ At(q, "tournament")' /\ study # "v7"
       \/ /\ At(q, "check_lock")' /\ study = "v7" /\ Whole("freeze")
          /\ running'[q].model = files["freeze"].model /\ SpecsOf[files["freeze"].tree] = SpecsOf[tree]
       \/ At(q, "read_freeze")' /\ files["lock"] = Missing

\* What a step is for a command: none of its own, its end, its start, or its next stage.
LEMMA CommandSteps ==
    ASSUME TournamentTypes, StagesOfStudy, [TournamentNext]_tournamentVars, NEW q \in Commands
    PROVE  \/ running'[q] = running[q]
           \/ running'[q] = Resting
           \/ StartsNow(q)
           \/ ReadFreeze(q)
           \/ GoesOn(q)
<1>a. Stages = {"tournament", "freeze", "source_freeze", "lock", "validation", "sealed", "outcome", "results",
                "check_freeze", "check_lock", "read_freeze"}
  BY DEF Stages, FileNames, Checks
<1>b. study \in {"v7", "v7_1", "v7_3"}
  BY TournamentAssumption DEF TournamentTypes
<1>1. CASE EditTree \/ CommitTree \/ UNCHANGED tournamentVars
  BY <1>1 DEF EditTree, CommitTree, tournamentVars
<1>2. ASSUME NEW p \in Commands, LaunchAction(p)
      PROVE  running'[q] = running[q] \/ StartsNow(q)
  <2>1. PICK at, m : /\ at \in Stages /\ Launch(p, Job(at, m))
                     /\ \/ at = "check_freeze" /\ m = Winner(tree, "unproven")
                        \/ at = "tournament" /\ study # "v7"
                        \/ /\ at = "check_lock" /\ study = "v7" /\ Whole("freeze")
                           /\ m = files["freeze"].model /\ SpecsOf[files["freeze"].tree] = SpecsOf[tree]
                        \/ at = "read_freeze" /\ files["lock"] = Missing
    BY <1>2, <1>a DEF LaunchAction, DevelopV7, DevelopV71, RunV73, ValidateV7, ValidateV71
  <2>2. UNCHANGED <<tree, head, files>>
    BY <1>2 DEF LaunchAction, DevelopV7, DevelopV71, RunV73, ValidateV7, ValidateV71, Launch
  <2>3. /\ \A r \in Commands \ {p} : running'[r] = running[r]
        /\ running'[p].at = at /\ running'[p].model = m /\ running'[p].tree = tree /\ running'[p].head = head
    BY <2>1, LaunchStarts
  <2>. QED  BY <2>1, <2>2, <2>3 DEF StartsNow, At
<1>3. ASSUME NEW p \in Commands, LevelAction(p)
      PROVE  running'[q] = running[q] \/ GoesOn(q)
  <2>1. study = "v7_3"
    BY <1>3 DEF LevelAction, RunFrozenLevel
  <2>. QED  BY <1>3, <2>1, LevelMoves DEF GoesOn, At
<1>4. ASSUME NEW p \in Commands, ReadFreeze(p)
      PROVE  running'[q] = running[q] \/ ReadFreeze(q)
  BY <1>4, ReadMoves
<1>5. ASSUME NEW p \in Commands, KillRunner(p)
      PROVE  running'[q] = running[q] \/ running'[q] = Resting
  BY <1>5, KillMoves
<1>6. ASSUME NEW p \in Commands,
             RefuseFreeze(p) \/ RefuseLock(p) \/ RefuseValidation(p) \/ WriteDevelopmentResults(p)
                \/ WriteSourceFreeze(p) \/ OpenValidation(p) \/ WriteOutcome(p)
      PROVE  running'[q] = running[q] \/ running'[q] = Resting
  <2>1. running[p] # Resting /\ Go(p, "rest")
    BY <1>6, <1>a, AtStage DEF RefuseFreeze, RefuseLock, RefuseValidation, WriteDevelopmentResults,
                               WriteSourceFreeze, OpenValidation, WriteOutcome
  <2>. QED  BY <2>1, GoMoves
<1>7. ASSUME NEW p \in Commands, CheckFreeze(p) \/ CheckLock(p) \/ WriteLock(p)
      PROVE  running'[q] = running[q] \/ GoesOn(q)
  <2>1. /\ running[p] # Resting
        /\ \/ CheckFreeze(p) /\ Go(p, "freeze")
           \/ At(p, "check_lock") /\ Go(p, "lock")
           \/ At(p, "lock") /\ Go(p, "validation")
    BY <1>7, <1>a, AtStage DEF CheckFreeze, CheckLock, WriteLock
  <2>. QED  BY <2>1, <1>a, GoMoves DEF GoesOn, At
<1>8. ASSUME NEW p \in Commands, WriteFreeze(p)
      PROVE  running'[q] = running[q] \/ GoesOn(q)
  <2>1. /\ running[p] # Resting
        /\ \/ Go(p, "results") \/ Go(p, "source_freeze")
           \/ Go(p, "validation") /\ study = "v7_3"
    BY <1>8, <1>a, <1>b, AtStage DEF WriteFreeze
  <2>. QED  BY <1>8, <2>1, <1>a, GoMoves DEF GoesOn, At
<1>9. ASSUME NEW p \in Commands, WriteTournament(p)
      PROVE  running'[q] = running[q] \/ running'[q] = Resting \/ GoesOn(q)
  <2>1. /\ running[p] # Resting /\ At(p, "tournament")
        /\ \/ Go(p, "check_freeze") \/ Go(p, "outcome") \/ Go(p, "rest")
           \/ Go(p, "freeze") /\ study = "v7_3"
    BY <1>9, <1>a, AtStage DEF WriteTournament
  <2>. QED  BY <2>1, <1>a, GoMoves DEF GoesOn, At
<1>. QED  BY <1>1, <1>2, <1>3, <1>4, <1>5, <1>6, <1>7, <1>8, <1>9 DEF TournamentNext, LaunchAction, LevelAction

\* The sources and the commit change only while no command runs.
LEMMA WorktreeStays ==
    ASSUME [TournamentNext]_tournamentVars
    PROVE  \/ tree' = tree /\ head' = head
           \/ NoneRuns /\ running' = running
BY DEF TournamentNext, tournamentVars, EditTree, CommitTree, DevelopV7, DevelopV71, RunV73, ValidateV7,
       ValidateV71, Launch, WriteTournament, CheckFreeze, RefuseFreeze, WriteFreeze, WriteDevelopmentResults,
       WriteSourceFreeze, ReadFreeze, RefuseValidation, CheckLock, RefuseLock, WriteLock, OpenValidation,
       RunFrozenLevel, WriteOutcome, KillRunner, Unmoved

LEMMA RunTogetherStep ==
    ASSUME TournamentTypes, StagesOfStudy, RunTogether, [TournamentNext]_tournamentVars
    PROVE  RunTogether'
<1> SUFFICES ASSUME NEW q \in Commands, running'[q] # Resting
             PROVE  /\ running'[q].tree = tree' /\ running'[q].head = head'
                    /\ study' = "v7" /\ (At(q, "check_freeze") \/ At(q, "freeze"))' =>
                           running'[q].model = Winner(tree, "unproven")'
  BY DEF RunTogether
<1>a. study' = study
  BY FilesStep
<1>1. CASE StartsNow(q)
  BY <1>1, <1>a DEF StartsNow, At, Winner
<1>2. CASE ~StartsNow(q)
  <2>1. running[q] # Resting /\ tree' = tree /\ head' = head
    BY <1>2, CommandSteps, WorktreeStays, ReadMoves DEF NoneRuns, GoesOn
  <2>2. Winner(tree, "unproven")' = Winner(tree, "unproven")
    BY <2>1 DEF Winner
  <2>. QED  BY <1>2, <1>a, <2>1, <2>2, CommandSteps, ReadMoves
            DEF RunTogether, GoesOn, CheckFreeze, WriteFreeze, At, StagesOfStudy
<1>. QED  BY <1>1, <1>2

\* What a step adds to the freezes.
LEMMA IssuedStep ==
    ASSUME TournamentTypes, StagesOfStudy, [TournamentNext]_tournamentVars, study # "v7_3", NEW c \in Issued'
    PROVE  c \in Issued \/ \E p \in Commands : CheckFreeze(p) /\ c = FreezeOf(p)
<1>a. study' = study
  BY FilesStep
<1>1. ASSUME NEW q \in Commands, At(q, "freeze")', c = FreezeOf(q)'
      PROVE  c \in Issued \/ (CheckFreeze(q) /\ c = FreezeOf(q))
  <2>1. running'[q] # Resting
    BY <1>1 DEF At, Resting
  <2>2. running'[q] = running[q] \/ (CheckFreeze(q) /\ GoesOn(q))
    BY <1>1, <2>1, CommandSteps, ReadMoves DEF StartsNow, GoesOn, At
  <2>3. FreezeOf(q)' = FreezeOf(q)
    BY <1>a, <2>2 DEF FreezeOf, GoesOn
  <2>. QED  BY <1>1, <2>2, <2>3 DEF Issued, At
<1>2. ASSUME Whole("freeze")', c = files'["freeze"]
      PROVE  c \in Issued
  BY <1>2, FilesStep DEF Issued, Whole
<1>. QED  BY <1>1, <1>2 DEF Issued

\* A freeze that is there stays the only one.
LEMMA IssuedKept ==
    ASSUME TournamentTypes, StagesOfStudy, [TournamentNext]_tournamentVars, study # "v7_3",
           files["freeze"] # Missing
    PROVE  files'["freeze"] # Missing /\ Issued' \subseteq Issued
<1>1. files'["freeze"] # Missing
  BY FilesStep, TournamentAssumption DEF Whole
<1>2. ASSUME NEW p \in Commands, CheckFreeze(p)
      PROVE  FreezeOf(p) \in Issued
  <2>1. FreezeOf(p) \in Freezes
    BY <1>2, AtStage DEF CheckFreeze, FreezeOf, Freezes, Stages, FileNames, Checks
  <2>. QED  BY <1>2, <2>1, TournamentAssumption DEF CheckFreeze, Freezable, Issued, Whole
<1>. QED  BY <1>1, <1>2, IssuedStep

\* Once crossed, always crossed.
LEMMA OverwrittenStays ==
    ASSUME TournamentTypes, StagesOfStudy, [TournamentNext]_tournamentVars
    PROVE  Overwritten => Overwritten'
BY FilesStep, RunnersStep DEF Overwritten

LEMMA OneFreezeStep ==
    ASSUME TournamentTypes, StagesOfStudy, RunTogether, Alone, OneFreeze, [TournamentNext]_tournamentVars
    PROVE  OneFreeze'
<1> SUFFICES ASSUME study' # "v7_3", NEW c \in Issued', NEW d \in Issued'
             PROVE  SameFreeze(c, d)'
  BY DEF OneFreeze
<1>a. study' = study /\ study \in {"v7", "v7_1"}
  BY FilesStep, TournamentAssumption DEF TournamentTypes
<1>1. CASE files["freeze"] # Missing
  BY <1>a, <1>1, IssuedKept, OverwrittenStays DEF OneFreeze, SameFreeze
<1>2. CASE files["freeze"] = Missing
  <2>1. \A e \in Issued' : \E q \in Commands : (At(q, "check_freeze") \/ At(q, "freeze")) /\ e = FreezeOf(q)
    BY <1>2, <1>a, IssuedStep DEF Issued, Whole, CheckFreeze
  <2>2. PICK p \in Commands : (At(p, "check_freeze") \/ At(p, "freeze")) /\ c = FreezeOf(p)
    BY <2>1
  <2>3. PICK q \in Commands : (At(q, "check_freeze") \/ At(q, "freeze")) /\ d = FreezeOf(q)
    BY <2>1
  <2>4. running[p] # Resting /\ running[q] # Resting
    BY <2>2, <2>3, AtStage DEF Stages, FileNames, Checks
  <2>5. c.tree = d.tree /\ c.head = d.head
    BY <2>2, <2>3, <2>4 DEF FreezeOf, RunTogether
  <2>6. c.model = d.model \/ Overwritten
    BY <1>a, <2>2, <2>3, <2>4 DEF FreezeOf, RunTogether, Overwritten, Alone
  <2>. QED  BY <2>5, <2>6, OverwrittenStays DEF SameFreeze
<1>. QED  BY <1>1, <1>2

\* What agreed with the freezes agrees with those of the next state.
LEMMA AgreesStep ==
    ASSUME TournamentTypes, StagesOfStudy, [TournamentNext]_tournamentVars, study # "v7_3",
           files["freeze"] # Missing, NEW v, \A c \in Issued : Agrees(v, c)
    PROVE  files'["freeze"] # Missing /\ \A c \in Issued' : Agrees(v, c)'
<1>1. study' = study
  BY FilesStep
<1>. QED  BY <1>1, IssuedKept, OverwrittenStays DEF Agrees

LEMMA ValidatorsStep ==
    ASSUME TournamentTypes, StagesOfStudy, RunTogether, OneFreeze, ValidatorsAgree, [TournamentNext]_tournamentVars
    PROVE  ValidatorsAgree'
<1> SUFFICES ASSUME study' # "v7_3", NEW q \in Commands,
                    (At(q, "check_lock") \/ At(q, "lock") \/ At(q, "validation"))'
             PROVE  files'["freeze"] # Missing /\ \A c \in Issued' : Agrees(running[q], c)'
  BY DEF ValidatorsAgree
<1>a. study' = study /\ study # "v7_3" /\ running'[q] # Resting
  BY FilesStep DEF At, Resting
<1>1. files["freeze"] # Missing /\ \A c \in Issued : Agrees(running'[q], c)
  <2>1. CASE running'[q] = running[q] \/ GoesOn(q)
    <3>1. /\ At(q, "check_lock") \/ At(q, "lock") \/ At(q, "validation")
          /\ running'[q].model = running[q].model /\ running'[q].tree = running[q].tree
      BY <1>a, <2>1 DEF GoesOn, At
    <3>. QED  BY <1>a, <3>1 DEF ValidatorsAgree, Agrees
  <2>2. ASSUME Whole("freeze"), running'[q].model = files["freeze"].model,
               SpecsOf[files["freeze"].tree] = SpecsOf[running'[q].tree],
               study = "v7_1" => files["freeze"].tree = running'[q].tree
        PROVE  files["freeze"] # Missing /\ \A c \in Issued : Agrees(running'[q], c)
    <3>1. files["freeze"] \in Issued
      BY <2>2 DEF Issued
    <3>. QED  BY <1>a, <2>2, <3>1 DEF OneFreeze, SameFreeze, Agrees, Whole
  <2>3. CASE StartsNow(q)
    <3>1. /\ study = "v7" /\ Whole("freeze") /\ running'[q].model = files["freeze"].model
          /\ running'[q].tree = tree /\ SpecsOf[files["freeze"].tree] = SpecsOf[tree]
      BY <2>3 DEF StartsNow, At
    <3>. QED  BY <2>2, <3>1
  <2>4. CASE ReadFreeze(q)
    <3>1. Whole("freeze") /\ files["freeze"].tree = tree
      BY <2>4 DEF ReadFreeze, Openable
    <3>2. running'[q].model = files["freeze"].model /\ running'[q].tree = tree
      BY <2>4, ReadMoves DEF RunTogether
    <3>. QED  BY <2>2, <3>1, <3>2
  <2>. QED  BY <1>a, <2>1, <2>3, <2>4, CommandSteps
<1>. QED  BY <1>a, <1>1, AgreesStep DEF Agrees

\* The only step that opens the packs: a command at its validation.
LEMMA OpenedStep ==
    ASSUME [TournamentNext]_tournamentVars
    PROVE  \/ opened' = opened
           \/ \E p \in Commands : OpenValidation(p)
BY DEF TournamentNext, tournamentVars, EditTree, CommitTree, DevelopV7, DevelopV71, RunV73, ValidateV7,
       ValidateV71, Launch, WriteTournament, CheckFreeze, RefuseFreeze, WriteFreeze, WriteDevelopmentResults,
       WriteSourceFreeze, ReadFreeze, RefuseValidation, CheckLock, RefuseLock, WriteLock, RunFrozenLevel,
       WriteOutcome, KillRunner

LEMMA OpeningsGrow ==
    ASSUME TournamentTypes, NEW p \in Commands, OpenValidation(p)
    PROVE  Openings' = Openings \cup {Of(p)} /\ Len(opened') = Len(opened) + 1
<1>1. Of(p) \in [model : Models, tree : Sources]
  BY AtStage DEF OpenValidation, Of, Stages, FileNames, Checks
<1>2. Len(opened) \in Nat /\ opened' = Append(opened, Of(p))
  BY DEF TournamentTypes, OpenValidation
<1>3. /\ Len(opened') = Len(opened) + 1 /\ opened'[Len(opened) + 1] = Of(p)
      /\ \A i \in 1..Len(opened) : opened'[i] = opened[i]
  BY <1>1, <1>2 DEF TournamentTypes
<1>. QED  BY <1>2, <1>3 DEF Openings

LEMMA OpeningsStep ==
    ASSUME TournamentTypes, StagesOfStudy, ValidatorsAgree, OpeningsAgree, [TournamentNext]_tournamentVars
    PROVE  OpeningsAgree'
<1>1. study' = study
  BY FilesStep
<1>2. CASE study = "v7_3"
  <2>1. opened' = opened
    BY <1>2, OpenedStep DEF OpenValidation
  <2>2. Openings' = {}
    BY <1>2, <2>1 DEF OpeningsAgree, Openings
  <2>. QED  BY <1>1, <1>2, <2>1, <2>2 DEF OpeningsAgree
<1>3. CASE study # "v7_3"
  <2>1. \A v \in Openings' : v \in Openings \/ \E p \in Commands : At(p, "validation") /\ v = Of(p)
    BY OpenedStep, OpeningsGrow DEF Openings, OpenValidation
  <2>2. \A v \in Openings' : files["freeze"] # Missing /\ \A c \in Issued : Agrees(v, c)
    BY <2>1, <1>3 DEF OpeningsAgree, ValidatorsAgree, Agrees, Of
  <2>3. ASSUME NEW v \in Openings'
        PROVE  files'["freeze"] # Missing /\ \A c \in Issued' : Agrees(v, c)'
    BY <1>3, <2>2, AgreesStep
  <2>. QED  BY <1>1, <1>3, <2>3 DEF OpeningsAgree
<1>. QED  BY <1>2, <1>3

\* Which step writes the source freeze.
LEMMA SourceWritten ==
    ASSUME TournamentTypes, [TournamentNext]_tournamentVars
    PROVE  \/ files'["source_freeze"] = files["source_freeze"]
           \/ \E p \in Commands : At(p, "source_freeze") /\ files'["source_freeze"] \in {Broken, FreezeOf(p)}
<1>1. CASE EditTree \/ CommitTree \/ UNCHANGED tournamentVars
  BY <1>1 DEF EditTree, CommitTree, tournamentVars
<1>2. ASSUME NEW p \in Commands, LaunchAction(p) \/ LookAction(p) \/ ReadFreeze(p)
      PROVE  files' = files
  BY <1>2 DEF LaunchAction, DevelopV7, DevelopV71, RunV73, ValidateV7, ValidateV71, Launch, LookAction, CheckFreeze,
              CheckLock, RefuseFreeze, RefuseLock, RefuseValidation, ReadFreeze
<1>3. ASSUME NEW p \in Commands,
             WriteTournament(p) \/ WriteFreeze(p) \/ WriteDevelopmentResults(p) \/ WriteLock(p)
                \/ OpenValidation(p) \/ LevelAction(p) \/ WriteOutcome(p)
      PROVE  files'["source_freeze"] = files["source_freeze"]
  <2>1. \E f, c : f \in FileNames \ {"source_freeze"} /\ Write(f, c)
    BY <1>3 DEF WriteTournament, WriteFreeze, WriteDevelopmentResults, WriteLock, OpenValidation, LevelAction,
                RunFrozenLevel, WriteOutcome, FileNames
  <2>. QED  BY <2>1, WriteChanges DEF FileNames
<1>4. ASSUME NEW p \in Commands, WriteSourceFreeze(p)
      PROVE  At(p, "source_freeze") /\ files'["source_freeze"] = FreezeOf(p)
  BY <1>4, WriteChanges DEF WriteSourceFreeze, FileNames
<1>5. ASSUME NEW p \in Commands, KillRunner(p)
      PROVE  \/ files'["source_freeze"] = files["source_freeze"]
             \/ At(p, "source_freeze") /\ files'["source_freeze"] = Broken
  BY <1>5, KillWrites, WriteChanges DEF FileNames
<1>. QED  BY <1>1, <1>2, <1>3, <1>4, <1>5 DEF TournamentNext, LaunchAction, LevelAction, LookAction

LEMMA SourceStep ==
    ASSUME TournamentTypes, StagesOfStudy, OneFreeze, SourceFollows, [TournamentNext]_tournamentVars
    PROVE  SourceFollows'
<1>a. study' = study
  BY FilesStep
<1>b. \A p \in Commands : At(p, "source_freeze") => study = "v7_1" /\ files["freeze"] # Missing
  BY DEF SourceFollows, StagesOfStudy
<1>c. \A c, d : SameFreeze(c, d) => SameFreeze(c, d)'
  BY OverwrittenStays DEF SameFreeze
<1>1. files'["source_freeze"] # Missing => study' = "v7_1" /\ files'["freeze"] # Missing
  <2>1. files'["source_freeze"] # Missing => study = "v7_1" /\ files["freeze"] # Missing
    BY <1>b, SourceWritten DEF SourceFollows
  <2>. QED  BY <1>a, <2>1, IssuedKept
<1>2. ASSUME NEW q \in Commands, At(q, "source_freeze")'
      PROVE  files'["freeze"] # Missing /\ \A c \in Issued' : SameFreeze(FreezeOf(q), c)'
  <2>a. running'[q] # Resting
    BY <1>2 DEF At, Resting
  <2>1. running'[q] = running[q] \/ (WriteFreeze(q) /\ GoesOn(q))
    BY <1>2, <2>a, CommandSteps, ReadMoves DEF StartsNow, GoesOn, At
  <2>2. FreezeOf(q)' = FreezeOf(q)
    BY <1>a, <2>1 DEF FreezeOf, GoesOn
  <2>3. CASE running'[q] = running[q]
    <3>1. /\ files["freeze"] # Missing /\ study = "v7_1"
          /\ \A c \in Issued : SameFreeze(FreezeOf(q), c)
      BY <1>b, <1>2, <2>3 DEF SourceFollows, At
    <3>. QED  BY <1>c, <2>2, <3>1, IssuedKept
  <2>4. CASE WriteFreeze(q)
    <3>1. /\ At(q, "freeze") /\ files'["freeze"] = FreezeOf(q) /\ FreezeOf(q) \notin {Missing, Broken}
          /\ FreezeOf(q) \in Issued
      BY <2>4, WriteChanges, WrittenFiles DEF WriteFreeze, FileNames, Issued
    <3>2. study = "v7_1"
      BY <1>a, <1>2, StagesStep DEF StagesOfStudy
    <3>3. Issued' \subseteq Issued
      <4>1. ASSUME NEW p \in Commands, CheckFreeze(p)
            PROVE  files["freeze"] # Missing
        BY <3>1, <4>1 DEF CheckFreeze
      <4>. QED  BY <3>2, <4>1, IssuedKept, IssuedStep
    <3>. QED  BY <1>c, <2>2, <3>1, <3>2, <3>3 DEF OneFreeze
  <2>. QED  BY <2>1, <2>3, <2>4
<1>3. ASSUME Whole("source_freeze")'
      PROVE  \A c \in Issued' : SameFreeze(files["source_freeze"], c)'
  <2>1. /\ files["freeze"] # Missing /\ study = "v7_1"
        /\ \A c \in Issued : SameFreeze(files'["source_freeze"], c)
    BY <1>3, <1>b, SourceWritten DEF SourceFollows, Whole
  <2>. QED  BY <1>c, <2>1, IssuedKept
<1>. QED  BY <1>1, <1>2, <1>3 DEF SourceFollows

\* V7.1 opens the packs once: the lock is there from before the opening, and a command starts to
\* validate only while it is not.
LEMMA OpenedOnceStep ==
    ASSUME TournamentTypes, StagesOfStudy, Alone, OpenedOnce, [TournamentNext]_tournamentVars
    PROVE  OpenedOnce'
<1> SUFFICES ASSUME study' = "v7_1"
             PROVE  OpenedOnce'
  BY DEF OpenedOnce
<1>a. Stages = {"tournament", "freeze", "source_freeze", "lock", "validation", "sealed", "outcome", "results",
                "check_freeze", "check_lock", "read_freeze"}
  BY DEF Stages, FileNames, Checks
<1>b. study' = study /\ study = "v7_1" /\ (files["lock"] # Missing => files'["lock"] # Missing)
  BY FilesStep
<1> USE DEF OpenedOnce
<1>1. ASSUME opened' = opened, crossed' = crossed,
             \A q \in Commands : running'[q].at \in {"read_freeze", "lock", "validation"} => running'[q] = running[q]
      PROVE  OpenedOnce'
  BY <1>1, <1>b DEF At
<1>2. CASE EditTree \/ CommitTree \/ UNCHANGED tournamentVars
  BY <1>1, <1>2 DEF EditTree, CommitTree, tournamentVars
<1>3. ASSUME NEW p \in Commands, LaunchAction(p)
      PROVE  OpenedOnce'
  <2>1. PICK at, m : /\ at \in Stages /\ Launch(p, Job(at, m)) /\ at \notin {"lock", "validation"}
                     /\ at = "read_freeze" => files["lock"] = Missing
    BY <1>3, <1>a, <1>b DEF LaunchAction, DevelopV7, DevelopV71, RunV73, ValidateV7, ValidateV71
  <2>2. UNCHANGED <<opened, files>> /\ crossed' = (crossed \/ ~NoneRuns)
    BY <2>1 DEF Launch
  <2>3. \A q \in Commands \ {p} : running'[q] = running[q]
    BY <2>1, LaunchStarts
  <2>4. running'[p].at = at
    BY <2>1, LaunchStarts
  <2>5. at = "read_freeze" => opened = << >>
    BY <1>b, <2>1
  <2>6. \A q \in Commands : At(q, "validation")' => At(q, "validation")
    BY <2>1, <2>3, <2>4 DEF At
  <2>7. \A q \in Commands : /\ At(q, "lock")' => At(q, "lock")
                            /\ At(q, "read_freeze")' => At(q, "read_freeze") \/ opened = << >>
    BY <2>1, <2>3, <2>4, <2>5 DEF At
  <2>. QED  BY <1>b, <2>2, <2>6, <2>7
<1>4. ASSUME NEW p \in Commands,
             WriteTournament(p) \/ WriteFreeze(p) \/ WriteDevelopmentResults(p)
                \/ WriteSourceFreeze(p) \/ WriteOutcome(p) \/ LookAction(p)
      PROVE  OpenedOnce'
  <2>1. \E at \in {"check_freeze", "freeze", "outcome", "rest", "results", "source_freeze"} : Go(p, at)
    BY <1>4, <1>b DEF WriteTournament, WriteFreeze, WriteDevelopmentResults, WriteSourceFreeze, WriteOutcome, LookAction,
                      CheckFreeze, CheckLock, RefuseFreeze, RefuseLock, RefuseValidation, StagesOfStudy
  <2>2. running[p] # Resting
    BY <1>4, <1>a, AtStage DEF WriteTournament, WriteFreeze, WriteDevelopmentResults, WriteSourceFreeze, WriteOutcome,
                               LookAction, CheckFreeze, CheckLock, RefuseFreeze, RefuseLock, RefuseValidation
  <2>3. \A q \in Commands : running'[q].at \in {"read_freeze", "lock", "validation"} => running'[q] = running[q]
    BY <2>1, <2>2, <1>a, GoMoves
  <2>4. opened' = opened /\ crossed' = crossed
    BY <1>4 DEF WriteTournament, WriteFreeze, WriteDevelopmentResults, WriteSourceFreeze, WriteOutcome, LookAction,
                CheckFreeze, CheckLock, RefuseFreeze, RefuseLock, RefuseValidation, Unmoved
  <2>. QED  BY <1>1, <2>3, <2>4
<1>5. ASSUME NEW p \in Commands, WriteLock(p)
      PROVE  OpenedOnce'
  <2>1. running[p] # Resting /\ At(p, "lock") /\ Go(p, "validation") /\ UNCHANGED <<opened, crossed>>
    BY <1>5, <1>a, AtStage DEF WriteLock, Unmoved
  <2>2. files'["lock"] # Missing
    BY <1>5, <1>b, WriteChanges, WrittenFiles DEF WriteLock, FileNames
  <2>3. \A q \in Commands \ {p} : running'[q] = running[q]
    BY <2>1, <1>a, GoMoves
  <2>. QED  BY <1>b, <2>1, <2>2, <2>3 DEF At
<1>6. ASSUME NEW p \in Commands, OpenValidation(p)
      PROVE  OpenedOnce'
  <2>1. running[p] # Resting /\ At(p, "validation") /\ Go(p, "rest") /\ crossed' = crossed
    BY <1>6, <1>a, AtStage DEF OpenValidation, Unmoved
  <2>2. files'["lock"] # Missing /\ Len(opened') = Len(opened) + 1
    BY <1>b, <1>6, <2>1, OpeningsGrow
  <2>3. ~crossed => opened = << >> /\ \A q \in Commands : running[q] # Resting => q = p
    BY <1>b, <2>1 DEF Alone
  <2>4. ~crossed => \A q \in Commands : running'[q].at = "rest"
    BY <2>1, <2>3, <1>a, GoMoves DEF Resting
  <2>. QED  BY <1>b, <2>1, <2>2, <2>3, <2>4 DEF At
<1>7. ASSUME NEW p \in Commands, KillRunner(p)
      PROVE  OpenedOnce'
  <2>1. opened' = opened /\ crossed' = crossed
    BY <1>7 DEF KillRunner
  <2>. QED  BY <1>1, <1>7, <2>1, KillMoves
<1>8. ASSUME NEW p \in Commands, LevelAction(p)
      PROVE  FALSE
  BY <1>8, <1>b DEF LevelAction, RunFrozenLevel
<1>9. ASSUME NEW p \in Commands, ReadFreeze(p)
      PROVE  OpenedOnce'
  <2>1. opened' = opened /\ crossed' = crossed /\ At(p, "read_freeze")
    BY <1>9 DEF ReadFreeze, Unmoved
  <2>. QED  BY <1>9, <1>b, <2>1, ReadMoves DEF At
<1>. QED  BY <1>2, <1>3, <1>4, <1>5, <1>6, <1>7, <1>8, <1>9
          DEF TournamentNext, LaunchAction, LevelAction, LookAction

\* The files of an undisturbed V7.3 command.
LEMMA OutcomeStep ==
    ASSUME TournamentTypes, StagesOfStudy, Alone, OutcomeFollows, [TournamentNext]_tournamentVars
    PROVE  OutcomeFollows'
<1>a. Stages = {"tournament", "freeze", "source_freeze", "lock", "validation", "sealed", "outcome", "results",
                "check_freeze", "check_lock", "read_freeze"}
  BY DEF Stages, FileNames, Checks
<1>b. study' = study
  BY FilesStep
<1>1. files'["outcome"] # Missing => study' = "v7_3"
  <2>1. CASE files'["outcome"] = files["outcome"]
    BY <1>b, <2>1 DEF OutcomeFollows
  <2>2. CASE files'["outcome"] # files["outcome"]
    <3>1. PICK p \in Commands : At(p, "outcome")
      <4>1. ASSUME EditTree \/ CommitTree \/ UNCHANGED tournamentVars
            PROVE  UNCHANGED files
        BY <4>1 DEF EditTree, CommitTree, tournamentVars
      <4>2. ASSUME NEW p \in Commands, LaunchAction(p) \/ LookAction(p) \/ ReadFreeze(p)
            PROVE  UNCHANGED files
        BY <4>2 DEF LaunchAction, DevelopV7, DevelopV71, RunV73, ValidateV7, ValidateV71, Launch, LookAction, CheckFreeze,
                    CheckLock, RefuseFreeze, RefuseLock, RefuseValidation, ReadFreeze
      <4>3. ASSUME NEW p \in Commands,
                   WriteTournament(p) \/ WriteFreeze(p) \/ WriteDevelopmentResults(p) \/ WriteSourceFreeze(p)
                      \/ WriteLock(p) \/ OpenValidation(p) \/ LevelAction(p)
            PROVE  \E f, c : f \in FileNames \ {"outcome"} /\ Write(f, c)
        BY <4>3 DEF WriteTournament, WriteFreeze, WriteDevelopmentResults, WriteSourceFreeze, WriteLock,
                    OpenValidation, LevelAction, RunFrozenLevel, FileNames
      <4>4. ASSUME NEW p \in Commands, WriteOutcome(p)
            PROVE  At(p, "outcome")
        BY <4>4 DEF WriteOutcome
      <4>5. ASSUME NEW p \in Commands, KillRunner(p), ~At(p, "outcome")
            PROVE  UNCHANGED files \/ (\E f, c : f \in FileNames \ {"outcome"} /\ Write(f, c))
        BY <4>5, KillWrites
      <4>6. (\E f, c : f \in FileNames \ {"outcome"} /\ Write(f, c)) => UNCHANGED files["outcome"]
        BY WriteChanges DEF FileNames
      <4>. QED  BY <2>2, <4>1, <4>2, <4>3, <4>4, <4>5, <4>6 DEF TournamentNext, LaunchAction, LevelAction, LookAction
    <3>. QED  BY <1>b, <3>1 DEF StagesOfStudy
  <2>. QED  BY <2>1, <2>2
<1>2. ASSUME study = "v7_3", ~crossed', ~killed'
      PROVE  /\ \A p \in Commands : CommandKnows(p)'
             /\ NoneRuns' => OutcomeHolds'
  <2>a. ~crossed /\ ~killed
    <3>1. crossed => crossed'
      BY RunnersStep
    <3>2. killed => killed'
      BY DEF TournamentNext, tournamentVars, EditTree, CommitTree, DevelopV7, DevelopV71, RunV73, ValidateV7,
           ValidateV71, Launch, WriteTournament, CheckFreeze, RefuseFreeze, WriteFreeze, WriteDevelopmentResults,
           WriteSourceFreeze, ReadFreeze, RefuseValidation, CheckLock, RefuseLock, WriteLock, OpenValidation,
           RunFrozenLevel, WriteOutcome, KillRunner, Unmoved
    <3>. QED  BY <1>2, <3>1, <3>2
  <2>b. /\ \A p \in Commands : CommandKnows(p)
        /\ NoneRuns => OutcomeHolds
    BY <1>2, <2>a DEF OutcomeFollows
  <2>r. \A q \in Commands : running'[q].at = "rest" => CommandKnows(q)'
    BY DEF CommandKnows, At
  <2>c. ASSUME NEW p \in Commands, running[p] # Resting, \A q \in Commands \ {p} : running'[q] = running[q]
        PROVE  \A q \in Commands \ {p} : running'[q] = Resting /\ CommandKnows(q)'
    BY <2>a, <2>c, <2>r DEF Alone, Resting
  <2>1. CASE EditTree \/ CommitTree \/ UNCHANGED tournamentVars
    BY <1>b, <2>1, <2>b DEF EditTree, CommitTree, tournamentVars, CommandKnows, LevelsOf, OutcomeHolds, NoneRuns,
                      At, Of, Verdict, Whole
  <2>2. ASSUME NEW p \in Commands, LaunchAction(p)
        PROVE  /\ \A q \in Commands : CommandKnows(q)'
               /\ ~NoneRuns'
    <3>1. PICK m : Launch(p, Job("tournament", m))
      BY <1>2, <2>2 DEF LaunchAction, DevelopV7, DevelopV71, RunV73, ValidateV7, ValidateV71
    <3>2. /\ \A q \in Commands \ {p} : running'[q] = running[q]
          /\ running'[p].at = "tournament" /\ running'[p] # Resting
      BY <3>1, <1>a, LaunchStarts
    <3>3. NoneRuns
      BY <1>2, <3>1 DEF Launch
    <3>4. running'[p].passed
      BY <3>1, <1>a, LaunchStarts
    <3>5. CommandKnows(p)'
      BY <3>2, <3>4 DEF CommandKnows, At
    <3>6. \A q \in Commands \ {p} : running'[q].at = "rest"
      BY <3>2, <3>3 DEF NoneRuns, Resting
    <3>. QED  BY <2>r, <3>2, <3>5, <3>6 DEF NoneRuns
  <2>3. ASSUME NEW p \in Commands, WriteTournament(p)
        PROVE  /\ \A q \in Commands : CommandKnows(q)'
               /\ ~NoneRuns'
    <3>1. running[p] # Resting /\ files'["tournament"] = Of(p) /\ running[p].passed
      BY <2>b, <2>3, <1>a, AtStage, WriteChanges DEF WriteTournament, FileNames, CommandKnows
    <3>2. Go(p, "freeze") \/ (Go(p, "outcome") /\ running[p].model = "none")
      BY <1>2, <2>3 DEF WriteTournament
    <3>3. /\ \A q \in Commands \ {p} : running'[q] = running[q]
          /\ running'[p].at = "freeze" \/ (running'[p].at = "outcome" /\ running'[p].model = "none")
          /\ Of(p)' = Of(p) /\ running'[p].passed /\ running'[p] # Resting
      BY <3>1, <3>2, <1>a, GoMoves DEF Of
    <3>4. CommandKnows(p)'
      BY <3>1, <3>3 DEF CommandKnows, At
    <3>. QED  BY <2>c, <3>1, <3>3, <3>4 DEF NoneRuns
  <2>4. ASSUME NEW p \in Commands, WriteFreeze(p)
        PROVE  /\ \A q \in Commands : CommandKnows(q)'
               /\ ~NoneRuns'
    <3>1. /\ running[p] # Resting /\ At(p, "freeze") /\ Go(p, "validation")
          /\ files'["freeze"] = FreezeOf(p) /\ files'["tournament"] = files["tournament"]
      BY <1>2, <2>4, <1>a, AtStage, WriteChanges DEF WriteFreeze, FileNames
    <3>2. /\ \A q \in Commands \ {p} : running'[q] = running[q]
          /\ running'[p].at = "validation" /\ running'[p].model = running[p].model
          /\ running'[p].passed = running[p].passed /\ Of(p)' = Of(p) /\ running'[p] # Resting
      BY <3>1, <1>a, GoMoves DEF Of
    <3>3. running[p].passed /\ files["tournament"] = Of(p)
      BY <2>b, <3>1 DEF CommandKnows
    <3>4. CommandKnows(p)'
      BY <3>1, <3>2, <3>3 DEF CommandKnows, At, FreezeOf
    <3>. QED  BY <2>c, <3>1, <3>2, <3>4 DEF NoneRuns
  <2>5. ASSUME NEW p \in Commands, RunFrozenLevel(p, "validation", "sealed")
        PROVE  /\ \A q \in Commands : CommandKnows(q)'
               /\ ~NoneRuns'
    <3>1. PICK passed \in BOOLEAN :
              /\ Write("validation", Verdict(p, passed))
              /\ running' = [running EXCEPT ![p].at = IF passed THEN "sealed" ELSE "outcome", ![p].passed = passed]
      BY <2>5 DEF RunFrozenLevel
    <3>2. /\ running[p] # Resting /\ At(p, "validation")
          /\ running[p] \in AtWork
      BY <2>5, <1>a, AtStage DEF RunFrozenLevel
    <3>3. /\ files'["validation"] = Verdict(p, passed)
          /\ files'["freeze"] = files["freeze"] /\ files'["tournament"] = files["tournament"]
      BY <3>1, WriteChanges DEF FileNames
    <3>4. running'[p] = [running[p] EXCEPT !.at = IF passed THEN "sealed" ELSE "outcome", !.passed = passed]
      BY <3>1 DEF TournamentTypes
    <3>5. /\ running'[p].at = (IF passed THEN "sealed" ELSE "outcome") /\ running'[p].passed = passed
          /\ running'[p].model = running[p].model /\ running'[p].tree = running[p].tree
      BY <3>2, <3>4 DEF AtWork
    <3>6. CommandKnows(p)'
      BY <2>b, <3>2, <3>3, <3>5 DEF CommandKnows, At, Of, Verdict
    <3>. QED  BY <2>c, <2>5, <3>2, <3>6, LevelMoves DEF NoneRuns, LevelAction
  <2>6. ASSUME NEW p \in Commands, RunFrozenLevel(p, "sealed", "outcome")
        PROVE  /\ \A q \in Commands : CommandKnows(q)'
               /\ ~NoneRuns'
    <3>1. PICK passed \in BOOLEAN :
              /\ Write("sealed", Verdict(p, passed))
              /\ running' = [running EXCEPT ![p].at = "outcome", ![p].passed = passed]
      BY <2>6 DEF RunFrozenLevel
    <3>2. /\ running[p] # Resting /\ At(p, "sealed")
          /\ running[p] \in AtWork
      BY <2>6, <1>a, AtStage DEF RunFrozenLevel
    <3>3. /\ files'["sealed"] = Verdict(p, passed) /\ files'["validation"] = files["validation"]
          /\ files'["freeze"] = files["freeze"] /\ files'["tournament"] = files["tournament"]
      BY <3>1, WriteChanges DEF FileNames
    <3>4. running'[p] = [running[p] EXCEPT !.at = "outcome", !.passed = passed]
      BY <3>1 DEF TournamentTypes
    <3>5. /\ running'[p].at = "outcome" /\ running'[p].passed = passed
          /\ running'[p].model = running[p].model /\ running'[p].tree = running[p].tree
      BY <3>2, <3>4 DEF AtWork
    <3>6. CommandKnows(p)'
      BY <2>b, <3>2, <3>3, <3>5 DEF CommandKnows, At, Of, Verdict, LevelsOf
    <3>. QED  BY <2>c, <2>6, <3>2, <3>6, LevelMoves DEF NoneRuns, LevelAction
  <2>7. ASSUME NEW p \in Commands, WriteOutcome(p)
        PROVE  /\ \A q \in Commands : CommandKnows(q)'
               /\ OutcomeHolds'
    <3>1. /\ running[p] # Resting /\ At(p, "outcome") /\ Go(p, "rest")
          /\ files'["outcome"] = Verdict(p, running[p].passed /\ running[p].model # "none")
          /\ files'["tournament"] = files["tournament"] /\ files'["freeze"] = files["freeze"]
          /\ files'["validation"] = files["validation"] /\ files'["sealed"] = files["sealed"]
      BY <2>7, <1>a, AtStage, WriteChanges DEF WriteOutcome, FileNames
    <3>2. /\ \A q \in Commands \ {p} : running'[q] = running[q]
          /\ running'[p].at = "rest"
      BY <3>1, <1>a, GoMoves
    <3>3. CommandKnows(p)'
      BY <3>2 DEF CommandKnows, At
    <3>4. ASSUME files'["outcome"].passed
          PROVE  files'["outcome"] = Verdict(p, TRUE) /\ LevelsOf(p) /\ files["tournament"] = Of(p)
      <4>1. running[p].passed /\ running[p].model # "none"
        <5>1. files'["outcome"].passed = (running[p].passed /\ running[p].model # "none")
          BY <3>1 DEF Verdict
        <5>2. running[p].passed \in BOOLEAN
          BY <3>1, <1>a, AtStage DEF AtWork
        <5>. QED  BY <3>4, <5>1, <5>2
      <4>2. files'["outcome"] = Verdict(p, TRUE)
        BY <3>1, <4>1 DEF Verdict
      <4>. QED  BY <2>b, <3>1, <4>1, <4>2 DEF CommandKnows
    <3>5. OutcomeHolds'
      BY <3>1, <3>4 DEF OutcomeHolds, LevelsOf, Verdict, Of
    <3>. QED  BY <2>c, <3>1, <3>2, <3>3, <3>5
  <2>8. ASSUME NEW p \in Commands,
               LookAction(p) \/ ReadFreeze(p) \/ WriteDevelopmentResults(p) \/ WriteSourceFreeze(p) \/ WriteLock(p)
                  \/ OpenValidation(p) \/ KillRunner(p)
        PROVE  FALSE
    BY <1>2, <2>8 DEF LookAction, CheckFreeze, CheckLock, RefuseFreeze, RefuseLock, RefuseValidation, ReadFreeze,
                      WriteDevelopmentResults, WriteSourceFreeze, WriteLock, OpenValidation, KillRunner, StagesOfStudy, At
  <2>. QED  BY <2>1, <2>2, <2>3, <2>4, <2>5, <2>6, <2>7, <2>8 DEF TournamentNext, LaunchAction, LookAction
<1>. QED  BY <1>b, <1>1, <1>2 DEF OutcomeFollows

LEMMA TournamentStarts == TournamentInit => TournamentInv
<1>. SUFFICES ASSUME TournamentInit PROVE TournamentInv
  OBVIOUS
<1>1. TournamentTypes
  BY TypesInit
<1>2. \A p \in Commands : running[p] = Resting /\ running[p].at = "rest"
  BY DEF TournamentInit, Resting
<1>3. Openings = {}
  BY DEF TournamentInit, Openings
<1>4. /\ \A f \in {"source_freeze", "freeze", "outcome"} : files[f] = Missing
      /\ opened = << >> /\ Len(opened) = 0
  BY DEF TournamentInit, FileNames
<1>5. StagesOfStudy /\ RunTogether /\ OneFreeze /\ ValidatorsAgree /\ SourceFollows /\ Alone
  BY <1>2, <1>4 DEF StagesOfStudy, RunTogether, OneFreeze, Issued, ValidatorsAgree, SourceFollows, Alone, At, Whole
<1>6. OpeningsAgree /\ OpenedOnce
  BY <1>2, <1>3, <1>4 DEF OpeningsAgree, OpenedOnce, At
<1>7. OutcomeFollows
  BY <1>2, <1>4 DEF OutcomeFollows, CommandKnows, OutcomeHolds, At, Whole
<1>. QED  BY <1>1, <1>5, <1>6, <1>7 DEF TournamentInv

LEMMA TournamentKept == TournamentInv /\ [TournamentNext]_tournamentVars => TournamentInv'
BY TypesStep, StagesStep, RunTogetherStep, OneFreezeStep, ValidatorsStep, OpeningsStep, SourceStep, AloneStep, OpenedOnceStep, OutcomeStep
   DEF TournamentInv

\* The invariant of the tournaments, for any number of commands, sources and models.
THEOREM TournamentInvariant == TournamentSpec => []TournamentInv
BY TournamentStarts, TournamentKept, PTL DEF TournamentSpec

\* Every opening of the validation packs used the frozen specifications and, unless V7.1 commands
\* crossed, the frozen model; V7.1 then opens them once; and the success V7.3 reports is on disk.
THEOREM TournamentSafe == TournamentSpec => []ValidationRestsOnFreeze
<1>1. TournamentInv => ValidationRestsOnFreeze
  <2> SUFFICES ASSUME TournamentInv
               PROVE  ValidationRestsOnFreeze
    OBVIOUS
  <2> USE DEF TournamentInv
  <2>a. Whole("freeze") => files["freeze"] \in Issued
    BY DEF Issued
  <2>1. opened # << >> => files["freeze"] # Missing
    <3>1. opened # << >> => opened[1] \in Openings
      BY DEF Openings, TournamentTypes
    <3>. QED  BY <3>1 DEF OpeningsAgree
  <2>2. \A v \in Openings : Whole("freeze") =>
           /\ v.model = files["freeze"].model \/ Overwritten
           /\ SpecsOf[v.tree] = SpecsOf[files["freeze"].tree]
           /\ study = "v7_1" => v.tree = files["freeze"].tree
    BY <2>a DEF OpeningsAgree, Agrees
  <2>3. study = "v7_1" => Len(opened) <= 1 \/ crossed
    BY DEF OpenedOnce
  <2>4. Whole("source_freeze") /\ Whole("freeze") => SameFreeze(files["source_freeze"], files["freeze"])
    BY <2>a DEF SourceFollows
  <2>5. NoneRuns /\ Whole("outcome") /\ files["outcome"].passed /\ ~crossed /\ ~killed => OutcomeHolds
    BY DEF OutcomeFollows, Whole
  <2>. QED  BY <2>1, <2>2, <2>3, <2>4, <2>5 DEF ValidationRestsOnFreeze, SameFreeze, OutcomeHolds
<1>. QED  BY <1>1, TournamentInvariant, PTL

WorktreeTypes == clean \in BOOLEAN /\ head <= MaxCommits /\ DOMAIN files = FileNames

LEMMA WorktreeStep ==
    ASSUME TournamentTypes, WorktreeTypes, [TournamentNext]_tournamentVars
    PROVE  WorktreeTypes'
<1> USE DEF WorktreeTypes
<1>1. ASSUME NEW f, NEW content, Write(f, content)
      PROVE  clean' \in BOOLEAN /\ DOMAIN files' = FileNames
  BY <1>1 DEF Write
<1>2. CASE EditTree \/ UNCHANGED tournamentVars
  BY <1>2 DEF EditTree, tournamentVars
<1>3. CASE CommitTree
  BY <1>3, TournamentAssumption DEF CommitTree, TournamentTypes
<1>4. ASSUME NEW p \in Commands, LaunchAction(p)
      PROVE  clean' = clean /\ head' = head /\ files' = files
  BY <1>4 DEF LaunchAction, DevelopV7, DevelopV71, RunV73, ValidateV7, ValidateV71, Launch
<1>5. ASSUME NEW p \in Commands
      PROVE  WriteTournament(p) \/ WriteFreeze(p) \/ WriteOutcome(p) =>
                 clean' \in BOOLEAN /\ head' = head /\ DOMAIN files' = FileNames
  BY <1>1 DEF WriteTournament, WriteFreeze, WriteOutcome, Unmoved
<1>9. ASSUME NEW p \in Commands
      PROVE  WriteDevelopmentResults(p) \/ WriteSourceFreeze(p) =>
                 clean' \in BOOLEAN /\ head' = head /\ DOMAIN files' = FileNames
  BY <1>1 DEF WriteDevelopmentResults, WriteSourceFreeze, Unmoved
<1>10. ASSUME NEW p \in Commands
       PROVE  WriteLock(p) \/ OpenValidation(p) =>
                  clean' \in BOOLEAN /\ head' = head /\ DOMAIN files' = FileNames
  BY <1>1 DEF WriteLock, OpenValidation, Unmoved
<1>6. ASSUME NEW p \in Commands, LevelAction(p)
      PROVE  clean' \in BOOLEAN /\ head' = head /\ DOMAIN files' = FileNames
  BY <1>1, <1>6 DEF LevelAction, RunFrozenLevel, Unmoved
<1>7. ASSUME NEW p \in Commands, LookAction(p) \/ ReadFreeze(p)
      PROVE  clean' = clean /\ head' = head /\ files' = files
  BY <1>7 DEF LookAction, CheckFreeze, CheckLock, RefuseFreeze, RefuseLock, RefuseValidation, ReadFreeze, Unmoved
<1>8. ASSUME NEW p \in Commands, KillRunner(p)
      PROVE  clean' \in BOOLEAN /\ head' = head /\ DOMAIN files' = FileNames
  BY <1>1, <1>8 DEF KillRunner
<1>. QED  BY <1>2, <1>3, <1>4, <1>5, <1>6, <1>7, <1>8, <1>9, <1>10
          DEF TournamentNext, LaunchAction, LevelAction, LookAction

LEMMA WorktreeStarts == TournamentInit => WorktreeTypes
BY TournamentAssumption DEF TournamentInit, WorktreeTypes

LEMMA WorktreeKept == TournamentInv /\ WorktreeTypes /\ [TournamentNext]_tournamentVars => WorktreeTypes'
BY WorktreeStep DEF TournamentInv

\* What a command opened is one of the sources, because the openings are a sequence of them.
LEMMA WorktreeSuffices == TournamentInv /\ WorktreeTypes => TournamentTypeOK
<1>. SUFFICES ASSUME TournamentTypes, WorktreeTypes
              PROVE  TournamentTypeOK
  BY DEF TournamentInv
<1>1. ASSUME NEW S, NEW s \in Seq(S)
      PROVE  \A i \in DOMAIN s : s[i] \in S /\ DOMAIN s = 1..Len(s)
  OBVIOUS
<1>2. opened \in Seq([model : Models, tree : Sources])
  BY DEF TournamentTypes
<1>3. \A i \in 1..Len(opened) : opened[i].tree \in Sources
  <2>1. \A i \in DOMAIN opened : opened[i] \in [model : Models, tree : Sources] /\ DOMAIN opened = 1..Len(opened)
    BY <1>1, <1>2
  <2>2. DOMAIN opened = 1..Len(opened)
    BY <1>2
  <2>. QED  BY <2>1, <2>2
<1>4. tree \in Sources /\ clean \in BOOLEAN /\ head \in 0..MaxCommits
  BY TournamentAssumption DEF TournamentTypes, WorktreeTypes
<1>. QED  BY <1>3, <1>4 DEF TournamentTypeOK, WorktreeTypes

\* The variables of the tournaments have their types, for any number of commands and versions.
THEOREM TournamentTyped == TournamentSpec => []TournamentTypeOK
BY TournamentInvariant, WorktreeStarts, WorktreeKept, WorktreeSuffices, PTL DEF TournamentSpec

(* Proofs about DayOneBenchmark, for every data, every placement of the    *)
(* exposed windows and every length of the histories.  The inductive       *)
(* invariant says where the cutoffs of each file and of the running        *)
(* command lie, that the data never falls behind the audit, and, for the   *)
(* walk back from the official cutoff, that no choice of separate safe     *)
(* windows after the day it has reached has more windows than it has       *)
(* found.                                                                  *)

\* Cutoffs that an audit of data up to that day has placed.
IsLatestSafe(c, last) == c \in SafeCutoffs(last) /\ \A d \in SafeCutoffs(last) : d <= c

PlacedOK(development, cut, last) ==
    /\ cut >= 1 /\ cut + Length <= last + 1
    /\ \A c \in development : c + Length <= cut
    /\ protocol = "v2" =>
           /\ IsLatestSafe(cut, last)
           /\ development \subseteq SafeCutoffs(last)
           /\ Separated(development)
           /\ Cardinality(development) = DevelopmentCount

\* A choice of models for a final cutoff, and the days it rests on.
ChoiceOK(cut, rests) ==
    /\ dataAudit # NoDay
    /\ cut >= 1 /\ cut + Length <= dataAudit + 1
    /\ \A m \in Histories :
           /\ rests[m] \subseteq 0..(cut - 1)
           /\ protocol = "v1" /\ rests[m] # {} => m <= cut
    /\ protocol = "v2" => \E a \in audited : IsLatestSafe(cut, a)

\* The walk has found the greatest number of separate windows after the day allowed.
WalkOK ==
    LET found == job.development \cup {job.final} IN
    /\ protocol = "v2" /\ job.last = parquet /\ parquet # NoDay
    /\ IsLatestSafe(job.final, job.last)
    /\ job.development \subseteq SafeCutoffs(job.last)
    /\ Separated(found)
    /\ \A c \in found : job.allowed + Length <= c
    /\ \A c \in job.development : c + Length <= job.final
    /\ Cardinality(job.development) <= DevelopmentCount
    /\ \A S \in SUBSET SafeCutoffs(job.last) :
           Separated(S) => Cardinality({c \in S : c > job.allowed}) <= Cardinality(job.development) + 1

JobOK ==
    /\ job.at = "walk" => WalkOK
    /\ job.at = "cutoffs" =>
           /\ protocol = "v1" /\ job.last = dataAudit
           /\ PlacedOK(job.development, job.final, job.last)
    /\ job.at = "develop" =>
           /\ job.last = dataAudit /\ dataAudit # NoDay
           /\ PlacedOK(job.development, job.final, job.last)
    /\ job.at \in {"freeze", "score", "reveal", "mark"} => ChoiceOK(job.final, job.rests)
    /\ job.at \in {"score", "reveal", "mark"} => job.last = dataAudit
    /\ job.at \in {"score", "reveal"} => \A m \in job.todo : job.rests[m] # {}
    /\ job.at \in {"reveal", "mark"} /\ protocol = "v2" => Lookback \in Made
    /\ protocol = "core" => job.at = "rest"

DataOK ==
    /\ dataAudit <= imported /\ parquet <= imported
    /\ protocol = "v2" /\ parquet # NoDay => dataAudit <= parquet
    /\ protocol = "v2" => (dataAudit = NoDay <=> cutoffFile.final = NoDay)
    /\ protocol = "v2" /\ dataAudit # NoDay => dataAudit \in audited
    /\ protocol = "core" => dataAudit = NoDay /\ cutoffFile.final = NoDay

ReadOK ==
    protocol = "v2" /\ Lookback \notin Made =>
        \A d \in outcomesRead : \E a \in audited : \E c \in SafeCutoffs(a) : IsLatestSafe(c, a) /\ d < c

DayOneInv ==
    /\ DayOneTypeOK
    /\ DataOK
    /\ cutoffFile.final # NoDay =>
           dataAudit # NoDay /\ PlacedOK(cutoffFile.development, cutoffFile.final, dataAudit)
    /\ frozenChoice.final # NoDay => ChoiceOK(frozenChoice.final, frozenChoice.rests)
    /\ JobOK
    /\ ReadOK
    /\ \A m \in Made : RestsOnThePast(predicted[m])
    /\ \A a \in Answered : RestsOnThePast(answers[a])
    /\ OfficialIsUntouched
    /\ RefusalIsRight
    /\ ~stranded

(* The operators.                                                          *)

\* The cutoffs of the code are a finite set of days, and Max finds the latest of them.
LEMMA SafeCutoffsFinite ==
    ASSUME NEW last \in Int, DayOneAssumption
    PROVE  /\ SafeCutoffs(last) \subseteq Int /\ IsFiniteSet(SafeCutoffs(last))
           /\ \A c \in SafeCutoffs(last) : c >= Lookback /\ c + Length <= last + 1
           /\ SafeCutoffs(last) # {} => IsLatestSafe(Max(SafeCutoffs(last)), last)
<1>1. Lookback \in Int /\ Length \in Int
  BY DEF DayOneAssumption
<1>2. IsFiniteSet(Lookback..(last + 1 - Length))
  BY <1>1, FS_Interval
<1>3. SafeCutoffs(last) \subseteq Lookback..(last + 1 - Length)
  BY DEF SafeCutoffs
<1>4. SafeCutoffs(last) \subseteq Int /\ IsFiniteSet(SafeCutoffs(last))
  BY <1>1, <1>2, <1>3, FS_Subset
<1>5. \A c \in SafeCutoffs(last) : c >= Lookback /\ c + Length <= last + 1
  BY <1>1, <1>3
<1>6. SafeCutoffs(last) # {} => IsLatestSafe(Max(SafeCutoffs(last)), last)
  <2>1. SUFFICES ASSUME SafeCutoffs(last) # {}
                 PROVE  IsLatestSafe(Max(SafeCutoffs(last)), last)
    OBVIOUS
  <2>2. Max(SafeCutoffs(last)) \in SafeCutoffs(last)
        /\ \A y \in SafeCutoffs(last) : Max(SafeCutoffs(last)) >= y
    BY <1>4, <2>1, GreatestOfFinite
  <2>. QED  BY <1>4, <2>2 DEF IsLatestSafe
<1>. QED  BY <1>4, <1>5, <1>6

\* A set of days any two of which are equal has at most one.
LEMMA AtMostOne ==
    ASSUME NEW T, IsFiniteSet(T), \A a, b \in T : a = b
    PROVE  Cardinality(T) <= 1
<1>1. CASE T = {}
  BY <1>1, FS_EmptySet
<1>2. CASE T # {}
  <2>1. PICK x : x \in T
    BY <1>2
  <2>2. T = {x}
    BY <2>1
  <2>. QED  BY <2>2, FS_Singleton
<1>. QED  BY <1>1, <1>2

\* Of separate windows one begins in a stretch no longer than a window.
LEMMA OneToAStretch ==
    ASSUME DayOneAssumption, NEW T, T \subseteq Int, IsFiniteSet(T), Separated(T),
           NEW latest \in Int, \A c \in T : latest - Length < c /\ c <= latest
    PROVE  Cardinality(T) <= 1
<1>1. Length \in Nat
  BY DEF DayOneAssumption
<1>2. \A a, b \in T : a = b
  BY <1>1 DEF Separated, Overlaps
<1>. QED  BY <1>2, AtMostOne

\* Every step of the walk back finds one window more, and every choice has one more at most.
LEMMA WalkFindsTheMost ==
    ASSUME DayOneAssumption, NEW last \in Int, NEW S \in SUBSET SafeCutoffs(last), Separated(S),
           NEW allowed \in Int, NEW latest \in Int, NEW count \in Nat,
           \A c \in SafeCutoffs(last) : c <= allowed => c <= latest,
           NEW Before \in SUBSET S, \A c \in S : c > allowed => c \in Before,
           Cardinality(Before) <= count,
           NEW Later \in SUBSET S, \A c \in Later : c > latest - Length
    PROVE  Cardinality(Later) <= count + 1
<1> DEFINE Between == Later \ Before
<1>1. S \subseteq Int /\ IsFiniteSet(S)
  BY SafeCutoffsFinite, FS_Subset
<1>2. Length \in Nat
  BY DEF DayOneAssumption
<1>3. IsFiniteSet(Before) /\ IsFiniteSet(Between) /\ IsFiniteSet(Later)
  BY <1>1, FS_Subset
<1>4. Cardinality(Between) <= 1
  <2>1. Between \subseteq Int /\ Separated(Between)
    BY <1>1 DEF Separated
  <2>2. \A c \in Between : latest - Length < c /\ c <= latest
    BY <1>1, <1>2
  <2>. HIDE DEF Between
  <2>. QED  BY <1>3, <2>1, <2>2, OneToAStretch
<1>5. Later \subseteq Before \cup Between
  OBVIOUS
<1>. HIDE DEF Between
<1>6. IsFiniteSet(Before \cup Between)
      /\ Cardinality(Before \cup Between)
           = Cardinality(Before) + Cardinality(Between) - Cardinality(Before \cap Between)
  BY <1>3, FS_Union
<1>7. IsFiniteSet(Before \cap Between)
  BY <1>3, FS_Intersection
<1>8. Cardinality(Later) <= Cardinality(Before \cup Between)
  BY <1>5, <1>6, FS_Subset
<1>9. /\ Cardinality(Later) \in Nat /\ Cardinality(Before) \in Nat /\ Cardinality(Between) \in Nat
      /\ Cardinality(Before \cup Between) \in Nat /\ Cardinality(Before \cap Between) \in Nat
  BY <1>3, <1>6, <1>7, FS_CardinalityType
<1>. QED  BY <1>4, <1>6, <1>8, <1>9

\* What the snapshots of a cutoff are trained on lies before the cutoff, and none of the days
\* a model is fitted on calibrates it.
LEMMA TrainingIsPast ==
    ASSUME DayOneAssumption, NEW c \in Int,
           c >= IF protocol = "v1" THEN 4 * Length ELSE 2 * Length
    PROVE  /\ OutcomesOf(FitSnapshots(c)) \subseteq 0..(c - 1)
           /\ OutcomeDays(CalibrationSnapshot(c)) \subseteq 0..(c - 1)
           /\ TrainingDays(c) \subseteq 0..(c - 1)
           /\ OutcomesOf(FitSnapshots(c)) \cap OutcomeDays(CalibrationSnapshot(c)) = {}
<1>1. Length \in Nat /\ Length >= 1
  BY DEF DayOneAssumption
<1>2. \A s \in FitSnapshots(c) : s \in Int /\ s >= 0 /\ s <= c - 2 * Length
  BY <1>1 DEF FitSnapshots
<1>3. \A d \in OutcomesOf(FitSnapshots(c)) : d \in Int /\ d >= 0 /\ d < c - Length
  <2>1. SUFFICES ASSUME NEW s \in FitSnapshots(c), NEW d \in s..(s + Length - 1)
                 PROVE  d \in Int /\ d >= 0 /\ d < c - Length
    BY DEF OutcomesOf, OutcomeDays
  <2>2. s \in Int /\ s >= 0 /\ s <= c - 2 * Length
    BY <1>2
  <2>. QED  BY <1>1, <2>2
<1>4. \A d \in OutcomeDays(CalibrationSnapshot(c)) : d \in Int /\ d >= c - Length /\ d >= 0 /\ d <= c - 1
  BY <1>1 DEF OutcomeDays, CalibrationSnapshot
<1>. HIDE DEF OutcomesOf, OutcomeDays
<1>. QED  BY <1>1, <1>3, <1>4 DEF TrainingDays

\* The next history is one that is left to score.
LEMMA NextHistory ==
    ASSUME DayOneAssumption, DayOneTypeOK, job.todo # {}
    PROVE  Min(job.todo) \in job.todo /\ Min(job.todo) \in Histories /\ Histories \subseteq Nat
<1>1. Histories \subseteq Nat /\ IsFiniteSet(Histories)
  <2>1. IsFiniteSet({Lookback}) /\ Lookback \in Nat
    BY FS_Singleton DEF DayOneAssumption
  <2>. QED  BY <2>1 DEF Histories, DayOneAssumption
<1>2. job.todo \subseteq Histories
  BY DEF DayOneTypeOK, Jobs
<1>3. IsFiniteSet(job.todo) /\ job.todo \subseteq Int
  <2>1. IsFiniteSet(job.todo)
    BY <1>1, <1>2, FS_Subset
  <2>2. \A m \in job.todo : m \in Nat
    BY <1>1, <1>2
  <2>3. \A n \in Nat : n \in Int
    OBVIOUS
  <2>4. job.todo \subseteq Int
    BY <2>2, <2>3
  <2>. QED  BY <2>1, <2>4
<1>4. Min(job.todo) \in job.todo
  BY <1>3, LeastOfFinite
<1>. QED  BY <1>1, <1>2, <1>4

\* The cutoffs the walk has left, and the latest of them.
LEMMA LatestRemaining ==
    ASSUME DayOneAssumption, DayOneTypeOK, Remaining # {}
    PROVE  /\ Max(Remaining) \in Remaining /\ Max(Remaining) \in Int
           /\ \A c \in Remaining : c <= Max(Remaining)
<1>1. job.last \in Int
  <2>1. LastDays \subseteq Int /\ NoDay \in Int
    BY DEF DayOneAssumption, NoDay
  <2>. QED  BY <2>1 DEF DayOneTypeOK, Jobs
<1>2. IsFiniteSet(Remaining) /\ Remaining \subseteq Int
  BY <1>1, SafeCutoffsFinite, FS_Subset DEF Remaining
<1>3. Max(Remaining) \in Remaining /\ \A y \in Remaining : Max(Remaining) >= y
  BY <1>2, GreatestOfFinite
<1>. QED  BY <1>2, <1>3


LEMMA NoJobTyped ==
    DayOneAssumption => NoJob \in Jobs /\ NoJob.at = "rest" /\ NoDay \in Int
BY DEF NoJob, Jobs, NoDay

\* What a command starts with.
LEMMA Starts ==
    ASSUME DayOneAssumption, NEW at \in {"walk", "cutoffs", "develop"},
           NEW last \in LastDays \cup {NoDay}, NEW development \in SUBSET Int, NEW cut \in Int,
           NEW allowed \in Int
    PROVE  /\ [NoJob EXCEPT !.at = at, !.last = last, !.development = development, !.final = cut]
                \in Jobs
           /\ [NoJob EXCEPT !.at = at, !.last = last, !.final = cut, !.allowed = allowed] \in Jobs
BY NoJobTyped DEF Jobs

LEMMA ForecastTyped ==
    ASSUME DayOneAssumption, DayOneTypeOK
    PROVE  /\ \A c \in Int : TrainingDays(c) \subseteq Int
           /\ \A m \in Histories : Prediction(m) \in Predictions
<1>1. Length \in Int /\ LastDays \subseteq Int /\ NoDay \in Int
  BY DEF DayOneAssumption, NoDay
<1>2. \A c \in Int : OutcomeDays(c) \subseteq Int
  BY <1>1 DEF OutcomeDays
<1>3. \A c \in Int : FitSnapshots(c) \subseteq Int /\ CalibrationSnapshot(c) \in Int
  BY <1>1 DEF FitSnapshots, CalibrationSnapshot
<1>4. \A S \in SUBSET Int : OutcomesOf(S) \subseteq Int
  BY <1>2 DEF OutcomesOf
<1>5. \A c \in Int : TrainingDays(c) \subseteq Int
  BY <1>2, <1>3, <1>4 DEF TrainingDays
<1>6. job.final \in Int /\ Data \in Int /\ \A m \in Histories : job.rests[m] \in SUBSET Int
  BY <1>1 DEF DayOneTypeOK, Jobs, Data
<1>7. /\ OutcomesOf(FitSnapshots(job.final)) \in SUBSET Int
      /\ OutcomeDays(CalibrationSnapshot(job.final)) \in SUBSET Int
      /\ outcomesRead \cap OutcomeDays(job.final) \in SUBSET Int
  BY <1>2, <1>3, <1>4, <1>6 DEF DayOneTypeOK
<1>. QED  BY <1>5, <1>6, <1>7 DEF Prediction, Predictions

LEMMA SelectionInInt ==
    ASSUME DayOneAssumption, DayOneTypeOK
    PROVE  \A m \in Histories : SelectionDays(m) \subseteq Int
<1>1. job.development \subseteq Int
  BY DEF DayOneTypeOK, Jobs
<1>2. \A m \in Histories : EvaluatedAt(m) \subseteq Int
  BY <1>1 DEF EvaluatedAt
<1>3. \A c \in Int : OutcomeDays(c) \subseteq Int
  BY DEF OutcomeDays, DayOneAssumption
<1>. QED  BY <1>2, <1>3, ForecastTyped DEF SelectionDays

LEMMA DayOneTyped ==
    ASSUME DayOneAssumption, DayOneInv, DayOneNext
    PROVE  DayOneTypeOK'
<1>. USE DEF DayOneTypeOK
<1>0. /\ LastDays \subseteq Int /\ NoDay \in Int /\ Length \in Int /\ Gaps \subseteq Int
      /\ NoJob \in Jobs /\ DayOneTypeOK
  BY NoJobTyped DEF DayOneAssumption, DayOneInv
<1>1. protocol' = protocol => Histories' = Histories /\ Jobs' = Jobs
  BY DEF Histories, Jobs
<1>2. CASE Download
  BY <1>0, <1>1, <1>2 DEF Download
<1>3. CASE DeleteParquet
  BY <1>0, <1>1, <1>3 DEF DeleteParquet
<1>4. CASE KillJob
  BY <1>0, <1>1, <1>4 DEF KillJob
<1>5. CASE AuditV1
  <2>1. ChooseCutoffs(imported).development \in SUBSET Int /\ ChooseCutoffs(imported).final \in Int
    BY <1>0 DEF ChooseCutoffs
  <2>2. job' \in Jobs
    BY <1>0, <1>5, <2>1, Starts DEF AuditV1
  <2>. QED  BY <1>0, <1>1, <1>5, <2>2 DEF AuditV1
<1>6. CASE WriteCutoffs
  <2>1. cutoffFile' \in [development : SUBSET Int, final : Int]
    BY <1>0, <1>6 DEF WriteCutoffs, Jobs
  <2>. QED  BY <1>0, <1>1, <1>6, <2>1 DEF WriteCutoffs
<1>7. CASE AuditV2
  <2>1. PreparedParquet \in LastDays /\ PreparedParquet \in Int
    BY <1>0 DEF PreparedParquet
  <2>2. SafeCutoffs(PreparedParquet) # {} =>
            Max(SafeCutoffs(PreparedParquet)) \in Int /\ Max(SafeCutoffs(PreparedParquet)) - Length \in Int
    BY <1>0, <2>1, SafeCutoffsFinite DEF IsLatestSafe
  <2>3. job' \in Jobs
    <3>1. CASE UNCHANGED job
      BY <1>0, <1>1, <1>7, <3>1 DEF AuditV2
    <3>2. CASE /\ SafeCutoffs(PreparedParquet) # {}
               /\ job' = [NoJob EXCEPT !.at = "walk", !.last = PreparedParquet,
                                !.final = Max(SafeCutoffs(PreparedParquet)),
                                !.allowed = Max(SafeCutoffs(PreparedParquet)) - Length]
      BY <2>1, <2>2, <3>2, <1>0, Starts
    <3>. QED  BY <1>7, <3>1, <3>2 DEF AuditV2
  <2>4. refused' \subseteq LastDays /\ parquet' \in LastDays
    BY <1>0, <1>7, <2>1 DEF AuditV2
  <2>. QED  BY <1>0, <1>1, <1>7, <2>3, <2>4 DEF AuditV2
<1>8. CASE WalkBack
  <2>1. Max(Remaining) \in Int /\ Max(Remaining) - Length \in Int
    BY <1>0, <1>8, LatestRemaining DEF WalkBack
  <2>2. job' \in Jobs
    BY <1>0, <1>8, <2>1 DEF WalkBack, Jobs
  <2>. QED  BY <1>0, <1>1, <1>8, <2>2 DEF WalkBack
<1>9. ASSUME job.at = "walk" PROVE job.last \in LastDays
  BY <1>0, <1>9 DEF DayOneInv, JobOK, WalkOK
<1>10. CASE RefuseData
  <2>1. refused' \subseteq LastDays
    BY <1>0, <1>9, <1>10 DEF RefuseData
  <2>. QED  BY <1>0, <1>1, <1>10, <2>1 DEF RefuseData
<1>11. CASE WriteAudit
  <2>1. dataAudit' \in LastDays /\ audited' \subseteq LastDays
    BY <1>0, <1>9, <1>11 DEF WriteAudit
  <2>2. cutoffFile' \in [development : SUBSET Int, final : Int]
    BY <1>0, <1>11 DEF WriteAudit, Jobs
  <2>. QED  BY <1>0, <1>1, <1>11, <2>1, <2>2 DEF WriteAudit
<1>12. CASE StartDevelopment
  <2>1. cutoffFile.development \in SUBSET Int /\ cutoffFile.final \in Int
    BY <1>0
  <2>2. job' \in Jobs
    BY <1>0, <1>12, <2>1, Starts DEF StartDevelopment
  <2>. QED  BY <1>0, <1>1, <1>12, <2>2 DEF StartDevelopment
<1>13. CASE Develop
  <2>1. \A m \in Histories : SelectionDays(m) \subseteq Int
    BY <1>0, SelectionInInt
  <2>2. job' \in Jobs
    BY <1>0, <1>13, <2>1 DEF Develop, Jobs
  <2>3. outcomesRead' \subseteq Int
    BY <1>0, <1>13, <2>1 DEF Develop
  <2>. QED  BY <1>0, <1>1, <1>13, <2>2, <2>3 DEF Develop
<1>14. CASE FreezeChoice
  <2>1. frozenChoice' \in [final : Int, rests : [Histories -> SUBSET Int]]
    BY <1>0, <1>14 DEF FreezeChoice, Jobs
  <2>. QED  BY <1>0, <1>1, <1>14, <2>1 DEF FreezeChoice
<1>15. ASSUME NEW official \in BOOLEAN, StartFinal(official)
       PROVE  DayOneTypeOK'
  <2>1. job' \in Jobs
    BY <1>0, <1>15 DEF StartFinal, Jobs
  <2>. QED  BY <1>0, <1>1, <1>15, <2>1 DEF StartFinal
<1>16. CASE ScoreHistory
  <2>1. job' \in Jobs
    BY <1>0, <1>16 DEF ScoreHistory, Jobs
  <2>2. Min(job.todo) \in Histories
    BY <1>0, <1>16, NextHistory DEF ScoreHistory
  <2>3. TrainingDays(job.final) \subseteq Int /\ Prediction(Min(job.todo)) \in Predictions
    <3>1. job.final \in Int
      BY <1>0 DEF Jobs
    <3>. HIDE DEF DayOneTypeOK
    <3>. QED  BY <1>0, <2>2, <3>1, ForecastTyped
  <2>4. outcomesRead' \subseteq Int /\ predicted' \in [Histories -> Predictions] /\ stranded' \in BOOLEAN
    BY <1>0, <1>16, <2>3 DEF ScoreHistory
  <2>. QED  BY <1>0, <1>1, <1>16, <2>1, <2>4 DEF ScoreHistory
<1>17. CASE RevealWindow
  <2>1. OutcomeDays(job.final) \subseteq Int
    BY <1>0 DEF OutcomeDays, Jobs
  <2>2. job' \in Jobs
    BY <1>0, <1>17 DEF RevealWindow, Jobs
  <2>. QED  BY <1>0, <1>1, <1>17, <2>1, <2>2 DEF RevealWindow
<1>18. CASE MarkEvaluated
  <2>1. evaluatedOnce' \in BOOLEAN
    BY <1>0, <1>18 DEF MarkEvaluated, Jobs
  <2>. QED  BY <1>0, <1>1, <1>18, <2>1 DEF MarkEvaluated
<1>19. CASE PredictCore
  <2>1. CoreMonths[9] \in Int /\ CoreMonths[10] \in Int /\ CoreMonths[11] \in Int /\ CoreMonths[12] \in Int
    BY DEF DayOneAssumption
  <2>2. PurchaseAnswer \in Predictions /\ BuyersAnswer \in Predictions
    BY <1>0, <2>1 DEF PurchaseAnswer, BuyersAnswer, Predictions, OutcomeDays, September, October, November
  <2>3. answers' \in [CoreAnswers -> Predictions]
    BY <1>0, <1>19, <2>2 DEF PredictCore, CoreAnswers
  <2>4. outcomesRead' \subseteq Int
    <3>1. CoreFrames \subseteq Int
      BY <1>0, <2>1 DEF CoreFrames, OutcomeDays, September, October, November
    <3>2. 0..(CoreMonths[12] - 1) \subseteq Int
      BY <2>1
    <3>. QED  BY <1>0, <1>19, <3>1, <3>2 DEF PredictCore
  <2>. QED  BY <1>0, <1>1, <1>19, <2>3, <2>4 DEF PredictCore
<1>. QED
  BY <1>2, <1>3, <1>4, <1>5, <1>6, <1>7, <1>8, <1>10, <1>11, <1>12, <1>13, <1>14, <1>15, <1>16, <1>17,
     <1>18, <1>19 DEF DayOneNext

(* The steps, one part of the invariant after the other.                   *)

LEMMA DayOneStarts ==
    ASSUME DayOneAssumption, DayOneInit
    PROVE  DayOneInv
<1>. USE DEF DayOneInit
<1>1. LastDays \subseteq Nat /\ NoDay \in Int /\ NoDay = -1
  BY DEF DayOneAssumption, NoDay
<1>2. NotPredicted \in Predictions /\ NoJob \in Jobs /\ job.at = "rest"
  BY <1>1, NoJobTyped DEF NotPredicted, Predictions
<1>3. DayOneTypeOK
  BY <1>1, <1>2 DEF DayOneTypeOK, NoChoice
<1>4. DataOK
  BY <1>1 DEF DataOK
<1>5. JobOK
  BY <1>2 DEF JobOK
<1>6. ReadOK /\ Made = {} /\ Answered = {} /\ OfficialIsUntouched
  BY DEF ReadOK, Made, Answered, OfficialIsUntouched
<1>7. RefusalIsRight /\ ~stranded
  BY DEF RefusalIsRight
<1>8. cutoffFile.final = NoDay /\ frozenChoice.final = NoDay
  BY DEF NoChoice
<1>. QED  BY <1>3, <1>4, <1>5, <1>6, <1>7, <1>8 DEF DayOneInv

\* The facts every step starts from.
LEMMA DayOneFacts ==
    ASSUME DayOneAssumption, DayOneInv
    PROVE  /\ DayOneTypeOK /\ DataOK /\ JobOK /\ ReadOK
           /\ Length \in Nat /\ Length >= 1 /\ Lookback \in Nat /\ Lookback > 2 * Length
           /\ DevelopmentCount \in Nat /\ LastDays \subseteq Nat
           /\ NoDay = -1 /\ imported \in Nat
           /\ parquet \in Int /\ parquet >= -1 /\ dataAudit \in Int /\ dataAudit >= -1
           /\ dataAudit # NoDay => dataAudit \in Nat
           /\ parquet # NoDay => parquet \in Nat
           /\ job.last \in Int /\ job.final \in Int /\ job.allowed \in Int
           /\ job.development \subseteq Int
           /\ frozenChoice.final \in Int /\ cutoffFile.final \in Int /\ cutoffFile.development \subseteq Int
<1>1. /\ DayOneTypeOK /\ DataOK /\ JobOK /\ ReadOK
  BY DEF DayOneInv
<1>2. /\ Length \in Nat /\ Length >= 1 /\ Lookback \in Nat /\ Lookback > 2 * Length
      /\ DevelopmentCount \in Nat /\ LastDays \subseteq Nat /\ NoDay = -1
  BY DEF DayOneAssumption, NoDay
<1>3. /\ imported \in Nat /\ parquet \in Int /\ parquet >= -1 /\ dataAudit \in Int /\ dataAudit >= -1
      /\ dataAudit # NoDay => dataAudit \in Nat
      /\ parquet # NoDay => parquet \in Nat
  BY <1>1, <1>2 DEF DayOneTypeOK
<1>4. /\ job.last \in Int /\ job.final \in Int /\ job.allowed \in Int /\ job.development \subseteq Int
  <2>1. /\ job.last \in LastDays \cup {NoDay} /\ job.final \in Int /\ job.allowed \in Int
        /\ job.development \in SUBSET Int
    BY <1>1 DEF DayOneTypeOK, Jobs
  <2>2. LastDays \subseteq Int /\ NoDay \in Int
    BY DEF DayOneAssumption, NoDay
  <2>3. job.last \in Int
    BY <2>1, <2>2
  <2>. QED  BY <2>1, <2>3
<1>5. /\ frozenChoice.final \in Int /\ cutoffFile.final \in Int /\ cutoffFile.development \subseteq Int
  BY <1>1 DEF DayOneTypeOK
<1>. QED  BY <1>1, <1>2, <1>3, <1>4, <1>5

LEMMA DataKept ==
    ASSUME DayOneAssumption, DayOneInv, DayOneNext
    PROVE  DataOK'
<1>0. /\ NoDay = -1 /\ imported \in Nat /\ parquet \in Int /\ parquet >= -1 /\ dataAudit \in Int
      /\ dataAudit >= -1 /\ DataOK /\ JobOK /\ LastDays \subseteq Nat
      /\ Lookback \in Nat /\ Lookback > 2 * Length /\ Length \in Nat /\ Length >= 1
      /\ job.last \in Int /\ job.final \in Int
  BY DayOneFacts
<1>1. CASE UNCHANGED <<protocol, imported, parquet, dataAudit, cutoffFile, audited>>
  BY <1>0, <1>1 DEF DataOK
<1>2. CASE Download
  BY <1>0, <1>2 DEF Download, DataOK
<1>3. CASE DeleteParquet
  BY <1>0, <1>3 DEF DeleteParquet, DataOK
<1>4. CASE AuditV1
  BY <1>0, <1>4 DEF AuditV1, DataOK
<1>5. CASE WriteCutoffs
  BY <1>0, <1>5 DEF WriteCutoffs, DataOK, JobOK
<1>6. CASE AuditV2
  BY <1>0, <1>6 DEF AuditV2, PreparedParquet, DataOK
<1>7. CASE WriteAudit
  <2>1. job.final \in SafeCutoffs(job.last) /\ job.last = parquet /\ parquet # NoDay /\ protocol = "v2"
    BY <1>0, <1>7 DEF WriteAudit, JobOK, WalkOK, IsLatestSafe
  <2>2. job.final >= Lookback
    BY <1>0, <2>1, SafeCutoffsFinite
  <2>. QED  BY <1>0, <1>7, <2>1, <2>2 DEF WriteAudit, DataOK
<1>8. CASE PredictCore
  BY <1>0, <1>8 DEF PredictCore, DataOK
<1>. QED
  BY <1>1, <1>2, <1>3, <1>4, <1>5, <1>6, <1>7, <1>8
     DEF DayOneNext, KillJob, WalkBack, RefuseData, StartDevelopment, Develop, FreezeChoice,
         StartFinal, ScoreHistory, RevealWindow, MarkEvaluated

LEMMA CutoffsKept ==
    ASSUME DayOneAssumption, DayOneInv, DayOneNext, cutoffFile'.final # NoDay
    PROVE  dataAudit' # NoDay /\ PlacedOK(cutoffFile.development, cutoffFile.final, dataAudit)'
<1>0. /\ NoDay = -1 /\ imported \in Nat /\ dataAudit \in Int
      /\ dataAudit >= -1 /\ DataOK /\ JobOK /\ LastDays \subseteq Nat
      /\ Lookback \in Nat /\ Lookback > 2 * Length /\ Length \in Nat /\ Length >= 1
      /\ job.last \in Int /\ job.final \in Int /\ job.development \subseteq Int
      /\ cutoffFile.final \in Int /\ cutoffFile.development \subseteq Int
  BY DayOneFacts
<1>1. cutoffFile.final # NoDay =>
         dataAudit # NoDay /\ PlacedOK(cutoffFile.development, cutoffFile.final, dataAudit)
  BY DEF DayOneInv
<1>2. CASE UNCHANGED <<protocol, dataAudit, cutoffFile>>
  BY <1>1, <1>2 DEF PlacedOK, IsLatestSafe, SafeCutoffs, Separated, Overlaps
<1>3. CASE AuditV1
  <2>1. cutoffFile' = cutoffFile /\ protocol' = protocol /\ protocol # "v2" /\ dataAudit' = imported
    BY <1>3 DEF AuditV1
  <2>2. PlacedOK(cutoffFile.development, cutoffFile.final, dataAudit)
    BY <1>1, <2>1
  <2>. QED  BY <1>0, <2>1, <2>2 DEF PlacedOK, DataOK
<1>4. CASE WriteCutoffs
  <2>1. PlacedOK(job.development, job.final, job.last) /\ job.last = dataAudit /\ protocol = "v1"
    BY <1>0, <1>4 DEF WriteCutoffs, JobOK
  <2>2. cutoffFile' = [development |-> job.development, final |-> job.final]
        /\ protocol' = protocol /\ dataAudit' = dataAudit
    BY <1>4 DEF WriteCutoffs
  <2>. QED  BY <1>0, <2>1, <2>2 DEF PlacedOK
<1>5. CASE WriteAudit
  <2>1. /\ job.last = parquet /\ parquet # NoDay /\ protocol = "v2"
        /\ IsLatestSafe(job.final, job.last) /\ job.development \subseteq SafeCutoffs(job.last)
        /\ Separated(job.development \cup {job.final})
        /\ \A c \in job.development : c + Length <= job.final
        /\ Cardinality(job.development) = DevelopmentCount
    BY <1>0, <1>5 DEF WriteAudit, JobOK, WalkOK, EnoughCutoffs
  <2>2. job.final >= Lookback /\ job.final + Length <= job.last + 1
    BY <1>0, <2>1, SafeCutoffsFinite DEF IsLatestSafe
  <2>3. Separated(job.development)
    BY <2>1 DEF Separated
  <2>4. PlacedOK(job.development, job.final, job.last)
    BY <1>0, <2>1, <2>2, <2>3 DEF PlacedOK
  <2>5. cutoffFile' = [development |-> job.development, final |-> job.final]
        /\ protocol' = protocol /\ dataAudit' = job.last
    BY <1>5 DEF WriteAudit
  <2>. QED  BY <2>1, <2>4, <2>5 DEF PlacedOK, IsLatestSafe, SafeCutoffs, Separated, Overlaps
<1>. QED
  BY <1>2, <1>3, <1>4, <1>5
     DEF DayOneNext, Download, DeleteParquet, KillJob, AuditV2, WalkBack, RefuseData,
         StartDevelopment, Develop, FreezeChoice, StartFinal, ScoreHistory, RevealWindow,
         MarkEvaluated, PredictCore

\* The audits of a directory follow each other with data that only grows.
LEMMA AuditsGrow ==
    ASSUME DayOneAssumption, DayOneInv, DayOneNext
    PROVE  /\ protocol' = protocol /\ audited \subseteq audited'
           /\ dataAudit' \in Int /\ dataAudit' >= dataAudit
           /\ dataAudit # NoDay => dataAudit' # NoDay
<1>0. /\ NoDay = -1 /\ imported \in Nat /\ dataAudit \in Int /\ dataAudit >= -1 /\ DataOK /\ JobOK
      /\ job.last \in Int
  BY DayOneFacts
<1>1. CASE AuditV1
  BY <1>0, <1>1 DEF AuditV1, DataOK
<1>2. CASE WriteAudit
  BY <1>0, <1>2 DEF WriteAudit, DataOK, JobOK, WalkOK
<1>3. CASE UNCHANGED <<protocol, audited, dataAudit>>
  BY <1>0, <1>3
<1>. QED
  BY <1>1, <1>2, <1>3
     DEF DayOneNext, Download, DeleteParquet, KillJob, AuditV2, WalkBack, RefuseData,
         WriteCutoffs, StartDevelopment, Develop, FreezeChoice, StartFinal, ScoreHistory,
         RevealWindow, MarkEvaluated, PredictCore

\* A choice stays one over every step.
LEMMA ChoiceStays ==
    ASSUME DayOneAssumption, DayOneInv, DayOneNext,
           NEW cut \in Int, NEW rests, ChoiceOK(cut, rests)
    PROVE  ChoiceOK(cut, rests)'
<1>1. /\ protocol' = protocol /\ audited \subseteq audited' /\ dataAudit' \in Int
      /\ dataAudit' >= dataAudit /\ dataAudit' # NoDay /\ Histories' = Histories
  BY AuditsGrow DEF ChoiceOK, Histories
<1>2. Length \in Nat /\ dataAudit \in Int
  BY DayOneFacts
<1>3. cut >= 1 /\ cut + Length <= dataAudit' + 1
  BY <1>1, <1>2 DEF ChoiceOK
<1>4. protocol = "v2" => \E a \in audited' : IsLatestSafe(cut, a)
  BY <1>1 DEF ChoiceOK
<1>5. \A m \in Histories : /\ rests[m] \subseteq 0..(cut - 1)
                           /\ protocol = "v1" /\ rests[m] # {} => m <= cut
  BY DEF ChoiceOK
<1>. QED  BY <1>1, <1>3, <1>4, <1>5 DEF ChoiceOK, IsLatestSafe, SafeCutoffs, Overlaps

LEMMA FrozenChoiceKept ==
    ASSUME DayOneAssumption, DayOneInv, DayOneNext, frozenChoice'.final # NoDay
    PROVE  ChoiceOK(frozenChoice.final, frozenChoice.rests)'
<1>1. CASE FreezeChoice
  <2>1. ChoiceOK(job.final, job.rests) /\ job.final \in Int
    BY <1>1, DayOneFacts DEF FreezeChoice, JobOK
  <2>2. frozenChoice' = [final |-> job.final, rests |-> job.rests]
    BY <1>1 DEF FreezeChoice
  <2>3. \A fin \in Int : \A res : ChoiceOK(fin, res) => ChoiceOK(fin, res)'
    BY ChoiceStays
  <2>. QED  BY <2>1, <2>2, <2>3 DEF ChoiceOK
<1>2. CASE frozenChoice' = frozenChoice
  <2>1. ChoiceOK(frozenChoice.final, frozenChoice.rests) /\ frozenChoice.final \in Int
    BY <1>2, DayOneFacts DEF DayOneInv
  <2>2. \A fin \in Int : \A res : ChoiceOK(fin, res) => ChoiceOK(fin, res)'
    BY ChoiceStays
  <2>. QED  BY <1>2, <2>1, <2>2 DEF ChoiceOK
<1>. QED
  BY <1>1, <1>2
     DEF DayOneNext, Download, DeleteParquet, KillJob, AuditV1, AuditV2, WalkBack, RefuseData,
         WriteCutoffs, WriteAudit, StartDevelopment, Develop, StartFinal, ScoreHistory,
         RevealWindow, MarkEvaluated, PredictCore

\* What the development trains and evaluates on lies before the final cutoff.
LEMMA SelectionIsPast ==
    ASSUME DayOneAssumption, DayOneInv, job.at = "develop", NEW m \in Histories
    PROVE  /\ SelectionDays(m) \subseteq 0..(job.final - 1)
           /\ protocol = "v1" /\ SelectionDays(m) # {} => m <= job.final
<1>0. /\ Length \in Nat /\ Length >= 1 /\ Lookback \in Nat /\ Lookback > 2 * Length
      /\ job.last \in Int /\ job.final \in Int /\ job.development \subseteq Int /\ JobOK
  BY DayOneFacts
<1>1. PlacedOK(job.development, job.final, job.last) /\ protocol # "core"
  BY <1>0 DEF JobOK
<1>2. protocol \in {"v1", "v2"}
  BY <1>1 DEF DayOneInv, DayOneTypeOK
<1>3. ASSUME NEW c \in EvaluatedAt(m)
      PROVE  /\ c \in Int /\ c + Length <= job.final
             /\ c >= IF protocol = "v1" THEN 4 * Length ELSE 2 * Length
             /\ protocol = "v1" => m <= c
  <2>1. c \in Int /\ c + Length <= job.final
    BY <1>0, <1>1 DEF EvaluatedAt, PlacedOK
  <2>2. CASE protocol = "v1"
    <3>1. m \in Int /\ m > 4 * Length
      BY <2>2 DEF Histories, DayOneAssumption
    <3>2. c - m >= 0
      BY <2>2 DEF EvaluatedAt, Evaluable
    <3>. QED  BY <1>0, <2>1, <2>2, <3>1, <3>2
  <2>3. CASE protocol = "v2"
    <3>1. c \in SafeCutoffs(job.last)
      BY <1>1, <2>3 DEF EvaluatedAt, PlacedOK
    <3>2. c >= Lookback
      BY <1>0, <3>1, SafeCutoffsFinite
    <3>. QED  BY <1>0, <2>1, <2>3, <3>2
  <2>. QED  BY <1>2, <2>2, <2>3
<1>4. ASSUME NEW c \in EvaluatedAt(m)
      PROVE  TrainingDays(c) \cup OutcomeDays(c) \subseteq 0..(job.final - 1)
  <2>1. TrainingDays(c) \subseteq 0..(c - 1)
    BY <1>3, TrainingIsPast
  <2>2. \A d \in 0..(c - 1) : d \in 0..(job.final - 1)
    BY <1>0, <1>3
  <2>3. c >= 0
    BY <1>0, <1>3
  <2>4. \A d \in OutcomeDays(c) : d \in 0..(job.final - 1)
    BY <1>0, <1>3, <2>3 DEF OutcomeDays
  <2>. QED  BY <2>1, <2>2, <2>4
<1>5. SelectionDays(m) \subseteq 0..(job.final - 1)
  <2>. HIDE DEF EvaluatedAt
  <2>. QED  BY <1>4 DEF SelectionDays
<1>6. ASSUME protocol = "v1", SelectionDays(m) # {}
      PROVE  m <= job.final
  <2>1. PICK c : c \in EvaluatedAt(m)
    BY <1>6 DEF SelectionDays
  <2>2. m \in Int
    BY <1>6 DEF Histories, DayOneAssumption
  <2>. QED  BY <1>0, <1>3, <1>6, <2>1, <2>2
<1>. QED  BY <1>5, <1>6

\* The walk starts with the latest safe cutoff, and one window fits after the day it allows.
LEMMA WalkStarts ==
    ASSUME DayOneAssumption, DayOneInv, AuditV2, job' # job
    PROVE  JobOK'
<1>0. /\ Length \in Nat /\ Length >= 1 /\ Lookback \in Nat /\ imported \in Nat
      /\ NoDay = -1 /\ parquet \in Int /\ (parquet # NoDay => parquet \in Nat) /\ DevelopmentCount \in Nat
  BY DayOneFacts
<1>. DEFINE last  == PreparedParquet
            safe  == SafeCutoffs(last)
            cut == Max(safe)
<1>1. last \in Nat
  BY <1>0 DEF PreparedParquet
<1>2. /\ protocol = "v2" /\ protocol' = protocol /\ parquet' = last /\ safe # {}
      /\ job' = [NoJob EXCEPT !.at = "walk", !.last = last, !.final = cut,
                                  !.allowed = cut - Length]
  BY DEF AuditV2
<1>3. safe \subseteq Int /\ IsFiniteSet(safe) /\ IsLatestSafe(cut, last)
  BY <1>1, <1>2, SafeCutoffsFinite
<1>4. cut \in Int /\ \A d \in safe : d <= cut
  BY <1>3 DEF IsLatestSafe
<1>. HIDE DEF last, safe, cut
<1>5. /\ job'.at = "walk" /\ job'.last = last /\ job'.final = cut /\ job'.development = {}
      /\ job'.allowed = cut - Length
  BY <1>2 DEF NoJob
<1>6. last # NoDay
  BY <1>0, <1>1
<1>7. \A S \in SUBSET safe : Separated(S) => Cardinality({c \in S : c > cut - Length}) <= 1
  <2>1. SUFFICES ASSUME NEW S \in SUBSET safe, Separated(S),
                        NEW T, T = {c \in S : c > cut - Length}
                 PROVE  Cardinality(T) <= 1
    OBVIOUS
  <2>2. T \subseteq Int /\ T \subseteq safe /\ Separated(T)
    BY <1>3, <2>1 DEF Separated
  <2>3. IsFiniteSet(T)
    BY <1>3, <2>2, FS_Subset
  <2>4. \A c \in T : cut - Length < c /\ c <= cut
    BY <1>0, <1>3, <1>4, <2>1
  <2>. QED  BY <1>4, <2>2, <2>3, <2>4, OneToAStretch
<1>8. Cardinality({}) = 0
  BY FS_EmptySet
<1>9. WalkOK'
  <2>1. /\ protocol' = "v2" /\ job'.last = parquet' /\ parquet' # NoDay
    BY <1>2, <1>5, <1>6
  <2>2. IsLatestSafe(job'.final, job'.last) /\ job'.development \subseteq SafeCutoffs(job'.last)
    BY <1>3, <1>5
  <2>3. Separated(job'.development \cup {job'.final})
    BY <1>5 DEF Separated
  <2>4. \A c \in job'.development \cup {job'.final} : job'.allowed + Length <= c
    BY <1>0, <1>4, <1>5
  <2>5. /\ \A c \in job'.development : c + Length <= job'.final
        /\ Cardinality(job'.development) <= DevelopmentCount
    BY <1>0, <1>5, <1>8
  <2>6. \A S \in SUBSET SafeCutoffs(job'.last) :
            Separated(S) =>
                Cardinality({c \in S : c > job'.allowed}) <= Cardinality(job'.development) + 1
    BY <1>5, <1>7, <1>8 DEF safe
  <2>. QED
    BY <2>1, <2>2, <2>3, <2>4, <2>5, <2>6
       DEF WalkOK, IsLatestSafe, SafeCutoffs, Separated, Overlaps
<1>. QED  BY <1>2, <1>5, <1>9 DEF JobOK

LEMMA WalkGoesOn ==
    ASSUME DayOneAssumption, DayOneInv, WalkBack
    PROVE  JobOK'
<1>0. /\ Length \in Nat /\ Length >= 1 /\ Lookback \in Nat /\ DevelopmentCount \in Nat
      /\ job.last \in Int /\ job.final \in Int /\ job.allowed \in Int /\ job.development \subseteq Int
      /\ JobOK /\ DayOneTypeOK
  BY DayOneFacts
<1>. DEFINE x     == Max(Remaining)
            safe  == SafeCutoffs(job.last)
            found == job.development \cup {job.final}
<1>1. x \in Remaining /\ x \in Int /\ \A c \in Remaining : c <= x
  BY <1>0, LatestRemaining DEF WalkBack
<1>2. x \in safe /\ x <= job.allowed /\ \A c \in safe : c <= job.allowed => c <= x
  BY <1>1 DEF Remaining
<1>3. WalkOK
  BY <1>0 DEF WalkBack, JobOK
<1>4. job.development \subseteq safe /\ IsFiniteSet(job.development)
  <2>1. IsFiniteSet(safe)
    BY <1>0, SafeCutoffsFinite
  <2>. QED  BY <1>3, <2>1, FS_Subset DEF WalkOK
<1>. HIDE DEF x, safe
<1>5. /\ job'.at = "walk" /\ job'.last = job.last /\ job'.final = job.final
      /\ job'.development = job.development \cup {x} /\ job'.allowed = x - Length
      /\ protocol' = protocol /\ parquet' = parquet
  BY <1>0 DEF WalkBack, x, DayOneTypeOK, Jobs
<1>6. \A c \in found : c \in Int /\ job.allowed + Length <= c
  BY <1>0, <1>3 DEF WalkOK
<1>7. \A c \in found : x + Length <= c /\ x # c
  BY <1>0, <1>1, <1>2, <1>6
<1>8. Cardinality(job.development \cup {x}) = Cardinality(job.development) + 1
      /\ Cardinality(job.development) \in Nat
  BY <1>4, <1>7, FS_AddElement, FS_CardinalityType
<1>9. Cardinality(job.development \cup {x}) <= DevelopmentCount
  BY <1>0, <1>3, <1>8 DEF WalkBack, WalkOK, EnoughCutoffs
<1>10. Separated(job.development \cup {x} \cup {job.final})
  <2>1. Separated(found)
    BY <1>3 DEF WalkOK
  <2>2. \A c \in found : ~Overlaps(c, x) /\ ~Overlaps(x, c)
    BY <1>0, <1>1, <1>6, <1>7 DEF Overlaps
  <2>. QED  BY <2>1, <2>2 DEF Separated
<1>11. \A S \in SUBSET safe :
          Separated(S) => Cardinality({c \in S : c > x - Length}) <= Cardinality(job.development) + 1 + 1
  <2>1. SUFFICES ASSUME NEW S \in SUBSET safe, Separated(S),
                        NEW Before, Before = {c \in S : c > job.allowed},
                        NEW Later, Later = {c \in S : c > x - Length}
                 PROVE  Cardinality(Later) <= Cardinality(job.development) + 1 + 1
    OBVIOUS
  <2>2. Cardinality(Before) <= Cardinality(job.development) + 1
    BY <1>3, <2>1 DEF WalkOK, safe
  <2>3. Before \in SUBSET S /\ Later \in SUBSET S /\ (\A c \in S : c > job.allowed => c \in Before)
        /\ \A c \in Later : c > x - Length
    BY <2>1
  <2>4. Cardinality(job.development) + 1 \in Nat
    BY <1>8
  <2>. QED  BY <1>0, <1>1, <1>2, <2>1, <2>2, <2>3, <2>4, WalkFindsTheMost DEF safe
<1>12. WalkOK'
  <2>1. /\ protocol' = "v2" /\ job'.last = parquet' /\ parquet' # NoDay
        /\ IsLatestSafe(job'.final, job'.last)
    BY <1>3, <1>5 DEF WalkOK
  <2>2. job'.development \subseteq SafeCutoffs(job'.last)
    BY <1>2, <1>4, <1>5 DEF safe
  <2>3. Separated(job'.development \cup {job'.final})
    BY <1>5, <1>10
  <2>4. \A c \in job'.development \cup {job'.final} : job'.allowed + Length <= c
    BY <1>0, <1>1, <1>5, <1>7
  <2>5. /\ \A c \in job'.development : c + Length <= job'.final
        /\ Cardinality(job'.development) <= DevelopmentCount
    BY <1>3, <1>5, <1>7, <1>9 DEF WalkOK
  <2>6. \A S \in SUBSET SafeCutoffs(job'.last) :
            Separated(S) =>
                Cardinality({c \in S : c > job'.allowed}) <= Cardinality(job'.development) + 1
    BY <1>5, <1>8, <1>11 DEF safe
  <2>. QED
    BY <2>1, <2>2, <2>3, <2>4, <2>5, <2>6
       DEF WalkOK, IsLatestSafe, SafeCutoffs, Separated, Overlaps
<1>13. protocol' = "v2"
  BY <1>3, <1>5 DEF WalkOK
<1>. QED  BY <1>5, <1>12, <1>13 DEF JobOK

LEMMA JobKept ==
    ASSUME DayOneAssumption, DayOneInv, DayOneNext
    PROVE  JobOK'
<1>0. /\ Length \in Nat /\ Length >= 1 /\ NoDay = -1 /\ imported \in Nat /\ LastDays \subseteq Nat
      /\ DayOneTypeOK /\ DataOK /\ JobOK /\ job.final \in Int /\ job.development \subseteq Int
      /\ cutoffFile.final \in Int
  BY DayOneFacts
<1>1. ASSUME job'.at = "rest" PROVE JobOK'
  BY <1>1 DEF JobOK
<1>2. NoJob.at = "rest"
  BY NoJobTyped
<1>3. CASE AuditV1
  <2>. DEFINE latest == imported + 1 - Length
              development == {latest - g : g \in Gaps}
  <2>1. /\ job'.at = "cutoffs" /\ job'.last = imported /\ job'.development = development
        /\ job'.final = latest /\ protocol' = "v1" /\ dataAudit' = imported
    BY <1>3 DEF AuditV1, NoJob, ChooseCutoffs
  <2>2. imported >= Length
    BY <1>0 DEF DayOneTypeOK, DayOneAssumption
  <2>3. \A c \in development : c + Length <= latest
    BY <1>0 DEF DayOneAssumption
  <2>. HIDE DEF development
  <2>4. PlacedOK(development, latest, imported)
    BY <1>0, <1>3, <2>2, <2>3 DEF PlacedOK, AuditV1
  <2>5. PlacedOK(job.development, job.final, job.last)'
    BY <2>1, <2>4, <1>3 DEF PlacedOK, AuditV1
  <2>. QED  BY <2>1, <2>5 DEF JobOK
<1>4. CASE AuditV2
  <2>1. CASE job' = job
    BY <1>1, <1>4, <2>1 DEF AuditV2, AtRest
  <2>. QED  BY <1>4, <2>1, WalkStarts
<1>5. CASE WalkBack
  BY <1>5, WalkGoesOn
<1>6. CASE StartDevelopment
  <2>1. /\ job'.at = "develop" /\ job'.last = dataAudit /\ job'.development = cutoffFile.development
        /\ job'.final = cutoffFile.final /\ protocol' = protocol /\ dataAudit' = dataAudit
        /\ dataAudit # NoDay /\ cutoffFile.final # NoDay
    BY <1>6 DEF StartDevelopment, NoJob
  <2>2. PlacedOK(cutoffFile.development, cutoffFile.final, dataAudit) /\ protocol # "core"
    BY <1>0, <2>1 DEF DayOneInv, DataOK
  <2>3. PlacedOK(job.development, job.final, job.last)'
    BY <2>1, <2>2 DEF PlacedOK, IsLatestSafe, SafeCutoffs, Separated, Overlaps
  <2>. QED  BY <2>1, <2>2, <2>3 DEF JobOK
<1>7. CASE Develop
  <2>1. CASE job' = NoJob
    BY <1>1, <1>2, <2>1
  <2>2. CASE job' = [job EXCEPT !.at = "freeze", !.rests = [m \in Histories |-> SelectionDays(m)]]
    <3>1. /\ job'.at = "freeze" /\ job'.final = job.final /\ job'.last = job.last
          /\ job'.rests = [m \in Histories |-> SelectionDays(m)]
      BY <1>0, <2>2 DEF DayOneTypeOK, Jobs
    <3>2. /\ job.last = dataAudit /\ dataAudit # NoDay /\ protocol # "core"
          /\ PlacedOK(job.development, job.final, job.last)
      BY <1>0, <1>7 DEF JobOK, Develop
    <3>3. \A m \in Histories : /\ job'.rests[m] \subseteq 0..(job.final - 1)
                               /\ protocol = "v1" /\ job'.rests[m] # {} => m <= job.final
      <4>. HIDE DEF SelectionDays
      <4>. QED  BY <1>7, <3>1, SelectionIsPast DEF Develop
    <3>4. protocol = "v2" => \E a \in audited : IsLatestSafe(job.final, a)
      BY <1>0, <3>2 DEF PlacedOK, DataOK
    <3>5. ChoiceOK(job.final, job'.rests)
      BY <3>2, <3>3, <3>4 DEF ChoiceOK, PlacedOK
    <3>6. UNCHANGED <<protocol, dataAudit, audited>>
      BY <1>7 DEF Develop
    <3>7. ChoiceOK(job.final, job.rests)'
      BY <3>1, <3>5, <3>6 DEF ChoiceOK, Histories, IsLatestSafe, SafeCutoffs, Overlaps
    <3>. QED  BY <3>1, <3>2, <3>6, <3>7 DEF JobOK
  <2>. QED  BY <1>7, <2>1, <2>2 DEF Develop
<1>8. ASSUME NEW official \in BOOLEAN, StartFinal(official)
      PROVE  JobOK'
  <2>1. /\ job'.at = "score" /\ job'.last = dataAudit /\ job'.final = frozenChoice.final
        /\ job'.rests = frozenChoice.rests
        /\ job'.todo = {m \in Histories : frozenChoice.rests[m] # {}}
        /\ UNCHANGED <<protocol, dataAudit, audited>> /\ frozenChoice.final # NoDay
    BY <1>8 DEF StartFinal, NoJob
  <2>2. ChoiceOK(frozenChoice.final, frozenChoice.rests)
    BY <2>1 DEF DayOneInv
  <2>3. ChoiceOK(job.final, job.rests)'
    BY <2>1, <2>2 DEF ChoiceOK, Histories, IsLatestSafe, SafeCutoffs, Overlaps
  <2>4. protocol # "core"
    BY <1>0, <2>2 DEF ChoiceOK, DataOK
  <2>. QED  BY <2>1, <2>3, <2>4 DEF JobOK
<1>9. CASE ScoreHistory
  <2>1. CASE job' = NoJob
    BY <1>1, <1>2, <2>1
  <2>2. CASE job' = [job EXCEPT !.at = "reveal"]
                 /\ predicted' = [predicted EXCEPT ![Min(job.todo)] = Prediction(Min(job.todo))]
    <3>1. /\ job'.at = "reveal" /\ job'.final = job.final /\ job'.last = job.last
          /\ job'.rests = job.rests /\ job'.todo = job.todo
          /\ UNCHANGED <<protocol, dataAudit, audited>>
      BY <1>0, <1>9, <2>2 DEF DayOneTypeOK, Jobs, ScoreHistory
    <3>2. /\ ChoiceOK(job.final, job.rests) /\ job.last = dataAudit /\ protocol # "core"
          /\ \A m \in job.todo : job.rests[m] # {}
      BY <1>0, <1>9 DEF JobOK, ScoreHistory
    <3>3. ChoiceOK(job.final, job.rests)'
      BY <3>1, <3>2 DEF ChoiceOK, Histories, IsLatestSafe, SafeCutoffs, Overlaps
    <3>4. ASSUME protocol = "v2" PROVE Lookback \in Made'
      <4>1. Min(job.todo) \in Histories /\ Histories = {Lookback} /\ Histories' = {Lookback}
        BY <1>0, <1>9, <3>1, <3>4, NextHistory DEF ScoreHistory, Histories
      <4>2. Prediction(Lookback) # NotPredicted
        BY <3>2, <1>0 DEF Prediction, NotPredicted, ChoiceOK
      <4>3. predicted'[Lookback] = Prediction(Lookback)
        BY <1>0, <2>2, <4>1 DEF DayOneTypeOK
      <4>. QED  BY <4>1, <4>2, <4>3 DEF Made
    <3>. QED  BY <3>1, <3>2, <3>3, <3>4 DEF JobOK
  <2>. QED  BY <1>9, <2>1, <2>2 DEF ScoreHistory
<1>10. CASE RevealWindow
  <2>1. /\ job'.at \in {"mark", "score"} /\ job'.final = job.final /\ job'.last = job.last
        /\ job'.rests = job.rests /\ job'.todo \subseteq job.todo
        /\ UNCHANGED <<protocol, dataAudit, audited, predicted>>
    BY <1>0, <1>10 DEF DayOneTypeOK, Jobs, RevealWindow
  <2>2. /\ ChoiceOK(job.final, job.rests) /\ job.last = dataAudit /\ protocol # "core"
        /\ \A m \in job.todo : job.rests[m] # {}
        /\ protocol = "v2" => Lookback \in Made
    BY <1>0, <1>10 DEF JobOK, RevealWindow
  <2>3. ChoiceOK(job.final, job.rests)'
    BY <2>1, <2>2 DEF ChoiceOK, Histories, IsLatestSafe, SafeCutoffs, Overlaps
  <2>4. Made' = Made
    BY <2>1 DEF Made, Histories
  <2>. QED  BY <2>1, <2>2, <2>3, <2>4 DEF JobOK
<1>11. CASE Download \/ DeleteParquet
  BY <1>1, <1>11 DEF Download, DeleteParquet, AtRest
<1>12. CASE PredictCore
  <2>1. job.at = "rest" /\ job' = job
    BY <1>0, <1>12 DEF PredictCore, JobOK
  <2>. QED  BY <1>1, <2>1
<1>13. CASE KillJob \/ WriteCutoffs \/ RefuseData \/ WriteAudit \/ FreezeChoice \/ MarkEvaluated
  BY <1>1, <1>2, <1>13 DEF KillJob, WriteCutoffs, RefuseData, WriteAudit, FreezeChoice, MarkEvaluated
<1>. QED
  BY <1>3, <1>4, <1>5, <1>6, <1>7, <1>8, <1>9, <1>10, <1>11, <1>12, <1>13 DEF DayOneNext

\* A prediction is in the ledger once.
LEMMA MadeGrows ==
    ASSUME DayOneAssumption, DayOneInv, DayOneNext
    PROVE  /\ Histories' = Histories
           /\ \A m \in Made : m \in Made' /\ predicted'[m] = predicted[m]
           /\ \A m \in Made' \ Made :
                  ScoreHistory /\ m = Min(job.todo) /\ predicted'[m] = Prediction(m)
<1>0. DayOneTypeOK /\ protocol' = protocol /\ Histories' = Histories
  BY DayOneFacts, AuditsGrow DEF Histories
<1>1. CASE predicted' = predicted
  BY <1>0, <1>1 DEF Made
<1>2. CASE ScoreHistory
  <2>1. Min(job.todo) \in Histories /\ Min(job.todo) \in job.todo
    BY <1>0, <1>2, NextHistory DEF ScoreHistory
  <2>2. CASE predicted' = [predicted EXCEPT ![Min(job.todo)] = Prediction(Min(job.todo))]
                 /\ predicted[Min(job.todo)] = NotPredicted
    BY <1>0, <1>2, <2>1, <2>2 DEF Made, DayOneTypeOK
  <2>. QED  BY <1>1, <1>2, <2>2 DEF ScoreHistory
<1>. QED
  BY <1>0, <1>1, <1>2
     DEF DayOneNext, Download, DeleteParquet, KillJob, AuditV1, AuditV2, WalkBack, RefuseData,
         WriteCutoffs, WriteAudit, StartDevelopment, Develop, FreezeChoice, StartFinal, RevealWindow,
         MarkEvaluated, PredictCore

\* Where the days lie that the final trains on.
LEMMA FinalIsPast ==
    ASSUME DayOneAssumption, DayOneInv, ScoreHistory
    PROVE  LET m == Min(job.todo) IN
           /\ m \in job.todo /\ m \in Histories
           /\ protocol \in {"v1", "v2"} /\ ~RefusedNow(m)
           /\ job.final >= IF protocol = "v1" THEN 4 * Length ELSE 2 * Length
           /\ job.rests[m] \subseteq 0..(job.final - 1)
           /\ job.final + Length <= Data + 1
<1>. DEFINE m == Min(job.todo)
<1>0. /\ DayOneTypeOK /\ DataOK /\ JobOK /\ Length \in Nat /\ Length >= 1 /\ Lookback \in Nat
      /\ Lookback > 2 * Length /\ job.final \in Int /\ imported \in Nat /\ parquet \in Int
      /\ dataAudit \in Int /\ NoDay = -1 /\ job.last \in Int /\ LastDays \subseteq Nat
  BY DayOneFacts
<1>1. m \in job.todo /\ m \in Histories
  BY <1>0, NextHistory DEF ScoreHistory
<1>2. /\ ChoiceOK(job.final, job.rests) /\ job.last = dataAudit /\ job.rests[m] # {}
      /\ protocol \in {"v1", "v2"}
  BY <1>0, <1>1 DEF ScoreHistory, JobOK, DayOneTypeOK
<1>3. /\ job.rests[m] \subseteq 0..(job.final - 1)
      /\ job.final >= 1 /\ job.final + Length <= dataAudit + 1
  BY <1>1, <1>2 DEF ChoiceOK
<1>4. job.final + Length <= Data + 1
  BY <1>0, <1>2, <1>3 DEF ScoreHistory, Data, DataOK
<1>5. CASE protocol = "v1"
  <2>1. m \in Int /\ m > 4 * Length
    <3>1. m \in Months
      BY <1>1, <1>5 DEF Histories
    <3>2. \A n \in Months : n \in Int /\ n > 4 * Length
      BY DEF DayOneAssumption
    <3>. QED  BY <3>1, <3>2
  <2>2. m <= job.final
    BY <1>1, <1>2, <1>5 DEF ChoiceOK
  <2>3. Evaluable(job.final, m, job.last)
    BY <1>0, <1>2, <1>3, <2>1, <2>2 DEF Evaluable
  <2>. QED  BY <1>0, <1>1, <1>2, <1>3, <1>4, <1>5, <2>1, <2>2, <2>3 DEF RefusedNow
<1>6. CASE protocol = "v2"
  <2>1. PICK a \in audited : IsLatestSafe(job.final, a)
    BY <1>2, <1>6 DEF ChoiceOK
  <2>2. a \in Int
    BY <1>0, <2>1 DEF DayOneTypeOK
  <2>3. job.final >= Lookback
    BY <2>1, <2>2, SafeCutoffsFinite DEF IsLatestSafe
  <2>. QED  BY <1>0, <1>1, <1>2, <1>3, <1>4, <1>6, <2>3 DEF RefusedNow
<1>. QED  BY <1>2, <1>5, <1>6

\* A new prediction rests on the past.
LEMMA PredictionIsPast ==
    ASSUME DayOneAssumption, DayOneInv, ScoreHistory
    PROVE  RestsOnThePast(Prediction(Min(job.todo)))
<1>. DEFINE m == Min(job.todo)
            p == Prediction(m)
<1>0. job.final \in Int /\ Length \in Nat
  BY DayOneFacts
<1>1. /\ job.final >= IF protocol = "v1" THEN 4 * Length ELSE 2 * Length
      /\ job.rests[m] \subseteq 0..(job.final - 1)
      /\ job.final + Length <= Data + 1
  BY FinalIsPast
<1>2. /\ OutcomesOf(FitSnapshots(job.final)) \subseteq 0..(job.final - 1)
      /\ OutcomeDays(CalibrationSnapshot(job.final)) \subseteq 0..(job.final - 1)
      /\ OutcomesOf(FitSnapshots(job.final)) \cap OutcomeDays(CalibrationSnapshot(job.final)) = {}
  BY <1>0, <1>1, TrainingIsPast
<1>3. /\ p.fitted = OutcomesOf(FitSnapshots(job.final))
      /\ p.calibrated = OutcomeDays(CalibrationSnapshot(job.final))
      /\ p.selected = job.rests[m] /\ p.cutoff = job.final /\ p.last = Data
  BY DEF Prediction
<1>. HIDE DEF p
<1>. QED  BY <1>1, <1>2, <1>3 DEF RestsOnThePast, p

LEMMA PredictionsKept ==
    ASSUME DayOneAssumption, DayOneInv, DayOneNext
    PROVE  /\ \A m \in Made' : RestsOnThePast(predicted[m])'
           /\ \A a \in Answered' : RestsOnThePast(answers[a])'
<1>1. ASSUME NEW m \in Made' PROVE RestsOnThePast(predicted[m])'
  <2>1. CASE m \in Made
    <3>1. predicted'[m] = predicted[m] /\ RestsOnThePast(predicted[m])
      BY <2>1, MadeGrows DEF DayOneInv
    <3>. QED  BY <3>1 DEF RestsOnThePast
  <2>2. CASE m \notin Made
    <3>1. predicted'[m] = Prediction(Min(job.todo)) /\ RestsOnThePast(Prediction(Min(job.todo)))
      BY <1>1, <2>2, MadeGrows, PredictionIsPast
    <3>. QED  BY <3>1 DEF RestsOnThePast
  <2>. QED  BY <2>1, <2>2
<1>2. ASSUME NEW a \in Answered' PROVE RestsOnThePast(answers[a])'
  <2>1. CASE answers' = answers
    <3>1. RestsOnThePast(answers[a])
      BY <1>2, <2>1 DEF DayOneInv, Answered
    <3>. QED  BY <2>1, <3>1 DEF RestsOnThePast
  <2>2. CASE PredictCore
    <3>1. answers'[a] \in {PurchaseAnswer, BuyersAnswer}
      BY <1>2, <2>2, DayOneFacts DEF PredictCore, Answered, CoreAnswers, DayOneTypeOK
    <3>2. /\ Length \in Nat /\ CoreMonths[9] \in Nat /\ CoreMonths[10] \in Nat /\ CoreMonths[11] \in Nat
          /\ CoreMonths[9] + Length <= CoreMonths[10] /\ CoreMonths[10] + Length <= CoreMonths[11]
      BY DEF DayOneAssumption
    <3>3. imported \in Nat /\ November + Length <= imported + 1
      BY <2>2, DayOneFacts DEF PredictCore
    <3>4. RestsOnThePast(PurchaseAnswer)
      <4>1. OutcomeDays(October) \subseteq 0..(November - 1)
        BY <3>2 DEF OutcomeDays, October, November
      <4>2. OutcomeDays(September) \subseteq 0..(November - 1)
        BY <3>2 DEF OutcomeDays, September, November
      <4>. QED  BY <3>3, <4>1, <4>2 DEF RestsOnThePast, PurchaseAnswer
    <3>5. RestsOnThePast(BuyersAnswer)
      BY <3>3 DEF RestsOnThePast, BuyersAnswer
    <3>. QED  BY <3>1, <3>4, <3>5 DEF RestsOnThePast
  <2>. QED
    BY <2>1, <2>2
       DEF DayOneNext, Download, DeleteParquet, KillJob, AuditV1, AuditV2, WalkBack, RefuseData,
           WriteCutoffs, WriteAudit, StartDevelopment, Develop, FreezeChoice, StartFinal,
           ScoreHistory, RevealWindow, MarkEvaluated
<1>. QED  BY <1>1, <1>2

\* What is read before the official prediction of V2 lies before the window of an audit.
LEMMA ReadKept ==
    ASSUME DayOneAssumption, DayOneInv, DayOneNext
    PROVE  ReadOK'
<1>1. SUFFICES ASSUME protocol' = "v2", Lookback \notin Made', NEW d \in outcomesRead'
               PROVE  \E a \in audited : \E c \in SafeCutoffs(a) : IsLatestSafe(c, a) /\ d < c
  <2>1. audited \subseteq audited'
    BY AuditsGrow
  <2>. QED  BY <1>1, <2>1 DEF ReadOK, IsLatestSafe, SafeCutoffs, Overlaps
<1>2. /\ protocol = "v2" /\ Lookback \notin Made /\ Histories = {Lookback}
  BY <1>1, AuditsGrow, MadeGrows DEF Histories
<1>3. /\ ReadOK /\ JobOK /\ DataOK /\ DayOneTypeOK /\ job.final \in Int /\ LastDays \subseteq Int
  BY DayOneFacts DEF DayOneAssumption
<1>4. CASE d \in outcomesRead
  BY <1>2, <1>3, <1>4 DEF ReadOK
<1>5. CASE Develop /\ d \notin outcomesRead
  <2>1. d \in SelectionDays(Lookback)
    BY <1>1, <1>2, <1>5 DEF Develop
  <2>2. d \in 0..(job.final - 1)
    BY <1>2, <1>5, <2>1, SelectionIsPast DEF Develop
  <2>3. IsLatestSafe(job.final, dataAudit) /\ dataAudit \in audited
    BY <1>2, <1>3, <1>5 DEF Develop, JobOK, PlacedOK, DataOK
  <2>4. d < job.final
    BY <1>3, <2>2
  <2>. QED  BY <2>3, <2>4 DEF IsLatestSafe
<1>6. CASE ScoreHistory /\ d \notin outcomesRead
  <2>1. d \in TrainingDays(job.final)
    BY <1>1, <1>6 DEF ScoreHistory
  <2>2. job.final >= IF protocol = "v1" THEN 4 * Length ELSE 2 * Length
    BY <1>6, FinalIsPast
  <2>3. d \in 0..(job.final - 1)
    BY <1>3, <2>1, <2>2, TrainingIsPast
  <2>4. PICK a \in audited : IsLatestSafe(job.final, a)
    BY <1>2, <1>3, <1>6 DEF ScoreHistory, JobOK, ChoiceOK
  <2>5. d < job.final
    BY <1>3, <2>3
  <2>. QED  BY <2>4, <2>5 DEF IsLatestSafe
<1>7. CASE RevealWindow
  BY <1>2, <1>3, <1>7 DEF RevealWindow, JobOK
<1>8. CASE PredictCore
  BY <1>2, <1>8 DEF PredictCore
<1>9. CASE outcomesRead' = outcomesRead
  BY <1>1, <1>4, <1>9
<1>. QED
  BY <1>4, <1>5, <1>6, <1>7, <1>8, <1>9
     DEF DayOneNext, Download, DeleteParquet, KillJob, AuditV1, AuditV2, WalkBack, RefuseData,
         WriteCutoffs, WriteAudit, StartDevelopment, FreezeChoice, StartFinal, MarkEvaluated

LEMMA OfficialKept ==
    ASSUME DayOneAssumption, DayOneInv, DayOneNext
    PROVE  OfficialIsUntouched'
<1>1. SUFFICES ASSUME protocol = "v2", \A a, b \in audited : a = b, NEW m \in Made'
               PROVE  predicted'[m].known = {}
  BY AuditsGrow DEF OfficialIsUntouched
<1>2. CASE m \in Made
  BY <1>1, <1>2, MadeGrows DEF DayOneInv, OfficialIsUntouched
<1>3. CASE m \notin Made
  <2>1. /\ ScoreHistory /\ m = Min(job.todo) /\ predicted'[m] = Prediction(m)
    BY <1>1, <1>3, MadeGrows
  <2>2. m = Lookback
    BY <1>1, <2>1, FinalIsPast DEF Histories
  <2>3. ReadOK /\ JobOK /\ job.final \in Int /\ DayOneTypeOK /\ Length \in Nat
    BY DayOneFacts
  <2>4. PICK a \in audited : IsLatestSafe(job.final, a)
    BY <1>1, <2>1, <2>3 DEF ScoreHistory, JobOK, ChoiceOK
  <2>5. ASSUME NEW d \in outcomesRead, d \in OutcomeDays(job.final) PROVE FALSE
    <3>1. PICK b \in audited : \E c \in SafeCutoffs(b) : IsLatestSafe(c, b) /\ d < c
      BY <1>1, <1>3, <2>2, <2>3 DEF ReadOK
    <3>2. PICK c \in SafeCutoffs(b) : IsLatestSafe(c, b) /\ d < c
      BY <3>1
    <3>3. b = a
      BY <1>1, <2>4, <3>1
    <3>4. c \in SafeCutoffs(a) /\ c <= job.final
      BY <2>4, <3>2, <3>3 DEF IsLatestSafe
    <3>5. a \in Int
      BY <2>3, <2>4 DEF DayOneTypeOK, DayOneAssumption
    <3>6. c \in Int
      BY <3>4, <3>5, SafeCutoffsFinite
    <3>7. d \in Int /\ d >= job.final
      BY <2>3, <2>5 DEF OutcomeDays
    <3>. QED  BY <2>3, <3>2, <3>4, <3>6, <3>7
  <2>. QED  BY <2>1, <2>5 DEF Prediction
<1>. QED  BY <1>2, <1>3

LEMMA RefusalsKept ==
    ASSUME DayOneAssumption, DayOneInv, DayOneNext
    PROVE  RefusalIsRight'
<1>. DEFINE Right(last) == \A S \in SUBSET SafeCutoffs(last) :
                              Separated(S) => Cardinality(S) <= DevelopmentCount
<1>0. /\ RefusalIsRight /\ JobOK /\ DayOneTypeOK /\ DevelopmentCount \in Nat
      /\ job.last \in Int /\ job.development \subseteq Int
  BY DayOneFacts DEF DayOneInv
<1>1. SUFFICES \A last \in refused' : Right(last)
  BY DEF RefusalIsRight, Separated, SafeCutoffs, Overlaps
<1>2. \A last \in refused : Right(last)
  BY <1>0 DEF RefusalIsRight
<1>3. CASE refused' = refused
  BY <1>2, <1>3
<1>4. CASE AuditV2 /\ SafeCutoffs(PreparedParquet) = {}
  <2>1. refused' = refused \cup {PreparedParquet}
    BY <1>4 DEF AuditV2
  <2>2. Right(PreparedParquet)
    BY <1>0, <1>4, FS_EmptySet
  <2>. HIDE DEF Right
  <2>. QED  BY <1>2, <2>1, <2>2
<1>5. CASE RefuseData
  <2>1. WalkOK /\ Cardinality(job.development) # DevelopmentCount /\ Remaining = {}
        /\ refused' = refused \cup {job.last}
    BY <1>0, <1>5 DEF RefuseData, JobOK, EnoughCutoffs
  <2>2. IsFiniteSet(job.development)
    BY <1>0, <2>1, SafeCutoffsFinite, FS_Subset DEF WalkOK
  <2>3. Cardinality(job.development) \in Nat /\ Cardinality(job.development) + 1 <= DevelopmentCount
    <3>1. Cardinality(job.development) \in Nat
      BY <2>2, FS_CardinalityType
    <3>2. Cardinality(job.development) <= DevelopmentCount
      BY <2>1 DEF WalkOK
    <3>. QED  BY <1>0, <2>1, <3>1, <3>2
  <2>4. ASSUME NEW S \in SUBSET SafeCutoffs(job.last), Separated(S)
        PROVE  Cardinality(S) <= DevelopmentCount
    <3>1. S \subseteq Int /\ IsFiniteSet(S) /\ job.allowed \in Int
      BY <1>0, SafeCutoffsFinite, FS_Subset, DayOneFacts
    <3>2. \A c \in S : c > job.allowed
      BY <2>1, <3>1 DEF Remaining
    <3>3. {c \in S : c > job.allowed} = S
      BY <3>2
    <3>4. Cardinality({c \in S : c > job.allowed}) <= Cardinality(job.development) + 1
      BY <2>1, <2>4 DEF WalkOK
    <3>5. Cardinality(S) \in Nat
      BY <3>1, FS_CardinalityType
    <3>6. Cardinality(S) <= Cardinality(job.development) + 1
      BY <3>3, <3>4, Zenon
    <3>. QED  BY <1>0, <2>3, <3>5, <3>6
  <2>5. Right(job.last)
    BY <2>4
  <2>. HIDE DEF Right
  <2>. QED  BY <1>2, <2>1, <2>5
<1>. QED
  BY <1>3, <1>4, <1>5
     DEF DayOneNext, Download, DeleteParquet, KillJob, AuditV1, AuditV2, WalkBack, WriteCutoffs,
         WriteAudit, StartDevelopment, Develop, FreezeChoice, StartFinal, ScoreHistory, RevealWindow,
         MarkEvaluated, PredictCore

LEMMA NoneStranded ==
    ASSUME DayOneAssumption, DayOneInv, DayOneNext
    PROVE  ~stranded'
<1>1. ~stranded
  BY DEF DayOneInv
<1>2. CASE ScoreHistory
  BY <1>1, <1>2, FinalIsPast DEF ScoreHistory
<1>. QED
  BY <1>1, <1>2
     DEF DayOneNext, Download, DeleteParquet, KillJob, AuditV1, AuditV2, WalkBack, RefuseData,
         WriteCutoffs, WriteAudit, StartDevelopment, Develop, FreezeChoice, StartFinal, RevealWindow,
         MarkEvaluated, PredictCore

LEMMA DayOneKept == ASSUME DayOneAssumption PROVE DayOneInv /\ [DayOneNext]_dayOneVars => DayOneInv'
<1>1. ASSUME DayOneInv, DayOneNext PROVE DayOneInv'
  BY <1>1, DayOneTyped, DataKept, CutoffsKept, FrozenChoiceKept, JobKept, ReadKept, PredictionsKept,
     OfficialKept, RefusalsKept, NoneStranded DEF DayOneInv
<1>2. ASSUME DayOneInv, UNCHANGED dayOneVars PROVE DayOneInv'
  <2>. USE DEF dayOneVars
  <2>1. DayOneTypeOK'
    BY <1>2 DEF DayOneInv, DayOneTypeOK, Histories, Jobs
  <2>2. DataOK' /\ (~stranded)'
    BY <1>2 DEF DayOneInv, DataOK
  <2>3. (cutoffFile.final # NoDay =>
            dataAudit # NoDay /\ PlacedOK(cutoffFile.development, cutoffFile.final, dataAudit))'
    BY <1>2 DEF DayOneInv, PlacedOK, IsLatestSafe, SafeCutoffs, Separated, Overlaps
  <2>4. (frozenChoice.final # NoDay => ChoiceOK(frozenChoice.final, frozenChoice.rests))'
    BY <1>2 DEF DayOneInv, ChoiceOK, Histories, IsLatestSafe, SafeCutoffs, Overlaps
  <2>5. JobOK'
    <3>1. WalkOK' = WalkOK
      BY <1>2 DEF WalkOK, IsLatestSafe, SafeCutoffs, Separated, Overlaps
    <3>2. PlacedOK(job.development, job.final, job.last)' = PlacedOK(job.development, job.final, job.last)
      BY <1>2 DEF PlacedOK, IsLatestSafe, SafeCutoffs, Separated, Overlaps
    <3>3. ChoiceOK(job.final, job.rests)' = ChoiceOK(job.final, job.rests) /\ Made' = Made
      BY <1>2 DEF ChoiceOK, Made, Histories, IsLatestSafe, SafeCutoffs, Overlaps
    <3>. QED  BY <1>2, <3>1, <3>2, <3>3 DEF DayOneInv, JobOK
  <2>6. ReadOK'
    BY <1>2 DEF DayOneInv, ReadOK, Made, Histories, IsLatestSafe, SafeCutoffs, Overlaps
  <2>7. (\A m \in Made : RestsOnThePast(predicted[m]))' /\ (\A a \in Answered : RestsOnThePast(answers[a]))'
    BY <1>2 DEF DayOneInv, Made, Answered, Histories, RestsOnThePast
  <2>8. OfficialIsUntouched' /\ RefusalIsRight'
    BY <1>2 DEF DayOneInv, OfficialIsUntouched, RefusalIsRight, Made, Histories, SafeCutoffs, Separated, Overlaps
  <2>. QED  BY <2>1, <2>2, <2>3, <2>4, <2>5, <2>6, <2>7, <2>8 DEF DayOneInv
<1>. QED  BY <1>1, <1>2

\* The inductive invariant of the customer twin benchmarks (run_hm_day1_benchmark.py,
\* run_hm_day1_v2.py, core.py): where the cutoffs of every file and command lie.
THEOREM DayOneInvariant == ASSUME DayOneAssumption PROVE DayOneSpec => []DayOneInv
<1>a. DayOneInit => DayOneInv
  BY DayOneStarts
<1>. QED  BY <1>a, DayOneKept, PTL DEF DayOneSpec

\* Predictions rest on days before their cutoff, the windows of V2 are apart, complete and
\* untouched, what V2 refuses has no such windows, and V1 never refuses in the final what it
\* evaluated (run_hm_day1_benchmark.py, run_hm_day1_v2.py, run_customer_twin_core_v1.py).
THEOREM DayOneSafe == ASSUME DayOneAssumption PROVE DayOneSpec => []HindsightFree
<1>1. DayOneInv => HindsightFree
  <2>1. ASSUME DayOneInv, protocol = "v2", dataAudit # NoDay
        PROVE  /\ Cardinality(cutoffFile.development) = DevelopmentCount
               /\ cutoffFile.development \cup {cutoffFile.final} \subseteq SafeCutoffs(dataAudit)
               /\ Separated(cutoffFile.development \cup {cutoffFile.final})
               /\ \A c \in SafeCutoffs(dataAudit) : c <= cutoffFile.final
    <3>1. PlacedOK(cutoffFile.development, cutoffFile.final, dataAudit)
      BY <2>1 DEF DayOneInv, DataOK
    <3>2. /\ cutoffFile.development \subseteq Int /\ cutoffFile.final \in Int /\ Length \in Nat
          /\ Length >= 1
      BY <2>1, DayOneFacts
    <3>3. \A c \in cutoffFile.development : ~Overlaps(c, cutoffFile.final) /\ ~Overlaps(cutoffFile.final, c)
      BY <3>1, <3>2 DEF PlacedOK, Overlaps
    <3>4. Separated(cutoffFile.development \cup {cutoffFile.final})
      BY <2>1, <3>1, <3>3 DEF PlacedOK, Separated
    <3>. QED  BY <2>1, <3>1, <3>4 DEF PlacedOK, IsLatestSafe
  <2>2. DayOneInv => CutoffsAreApart
    BY <2>1 DEF CutoffsAreApart
  <2>. QED  BY <2>2 DEF DayOneInv, HindsightFree
<1>. QED  BY <1>1, DayOneInvariant, PTL

(* Proofs about FrozenBenchmark, for any number of runs and processes.     *)
(* What the programs have in common is their shape: what a step finds done *)
(* by the steps before it.  The shape is read off the steps of each of     *)
(* them; everything after that is proved of a program of that shape.       *)

\* The steps a program has done when it comes to one.
StepsBefore(P, i) == {P[j] : j \in 1..(i - 1)}
RowSteps(b) == {<<"append", b>>, <<"insert", b>>, <<"insert_new", b>>}
PlainSteps == {<<"unmarked", 0>>, <<"freeze", 0>>, <<"frozen", 0>>, <<"unlink", 0>>, <<"no_ledger", 0>>,
               <<"open", 0>>, <<"close", 0>>, <<"mark", 0>>}
BatchSteps(b) == RowSteps(b) \cup {<<"predict", b>>, <<"reveal", b>>, <<"evaluate", b>>}

\* A ledger is there when a row is written, and a row when outcomes are revealed; a row is written
\* once, of predictions that were written before.
RowsInOrder(P) ==
    \A i \in DOMAIN P : \A b \in Batches : LET before == StepsBefore(P, i) IN
    /\ P[i] \in RowSteps(b) \cup {<<"evaluate", b>>} => <<"open", 0>> \in before /\ <<"close", 0>> \notin before
    /\ P[i] \in {<<"append", b>>, <<"insert", b>>} => RowSteps(b) \cap before = {}
    /\ P[i] = <<"append", b>> => <<"predict", b>> \in before
    /\ P[i] = <<"predict", b>> => <<"close", 0>> \notin before
    /\ P[i] = <<"reveal", b>> => RowSteps(b) \cap before # {}

\* A ledger is not deleted or opened again by who opened it, nor deleted where ledgers are closed,
\* and where rows have a new id it is closed last.
LedgerInOrder(P) ==
    \A i \in DOMAIN P : LET before == StepsBefore(P, i) IN
    /\ P[i] = <<"unlink", 0>> => <<"open", 0>> \notin before
    /\ P[i] = <<"open", 0>> => <<"close", 0>> \notin before
    /\ P[i] = <<"close", 0>> => \A j \in DOMAIN P : P[j] # <<"unlink", 0>>
    /\ P[i] = <<"close", 0>> => i = Len(P) \/ \A j \in DOMAIN P : \A b \in Batches : P[j] # <<"insert_new", b>>

\* There are no other steps; a selection comes before what it is for, and a marker before the reveal
\* where the ledger is deleted.
StepsInOrder(P) ==
    \A i \in DOMAIN P :
    /\ P[i] \in PlainSteps \/ \E b \in Batches : P[i] \in BatchSteps(b)
    /\ P[i] \in {<<"freeze", 0>>, <<"frozen", 0>>} => \A b \in Batches : <<"reveal", b>> \notin StepsBefore(P, i)
    /\ P[i] = <<"unlink", 0>> => \A j, k \in DOMAIN P : \A b \in Batches :
           P[j] = <<"mark", 0>> /\ P[k] = <<"reveal", b>> => j < k

\* The marker is looked for before anything is selected and before it is set; what is revealed or
\* marked has been selected for, and all that is revealed has its row when the marker is set.
MarksInOrder(P) ==
    \A i \in DOMAIN P : LET before == StepsBefore(P, i) IN
    /\ P[i] \in {<<"freeze", 0>>, <<"mark", 0>>} => <<"unmarked", 0>> \in before /\ <<"mark", 0>> \notin before
    /\ P[i] = <<"mark", 0>> => <<"freeze", 0>> \in before \/ <<"frozen", 0>> \in before
    /\ \A b \in Batches :
           /\ P[i] = <<"reveal", b>> => <<"freeze", 0>> \in before \/ <<"frozen", 0>> \in before
           /\ P[i] # <<"insert_new", b>>
           /\ \A j \in DOMAIN P : P[i] = <<"mark", 0>> /\ P[j] = <<"reveal", b>> => RowSteps(b) \cap before # {}

InOrder(P) == RowsInOrder(P) /\ LedgerInOrder(P) /\ StepsInOrder(P)

\* What is read back from the files was predicted before, in the ledger that is still open.
FilesInOrder(P) ==
    \A i \in DOMAIN P : \A b \in Batches : LET before == StepsBefore(P, i) IN
    P[i] = <<"reveal", b>> => <<"predict", b>> \in before /\ <<"close", 0>> \notin before

SetsMarker(P) == \E i \in DOMAIN P : P[i][1] = "mark"

(* The inductive invariant.                                                *)

Running(p) == process[p].at # 0
DoneBy(p) == StepsBefore(ProgramOf(p), process[p].at)
HasRow(p, b) == RowSteps(b) \cap DoneBy(p) # {}
HasOpen(p) == <<"open", 0>> \in DoneBy(p) /\ <<"close", 0>> \notin DoneBy(p)
Reveals(b) == \E i \in DOMAIN Program : Program[i] = <<"reveal", b>>
Selected(p) == <<"freeze", 0>> \in DoneBy(p) \/ <<"frozen", 0>> \in DoneBy(p)

\* No run deletes the ledger of another, or replaces its predictions.
Calm == ~DeletesLedger \/ ~overlapped
Undisturbed == LocksFirst \/ ~overlapped

RunsTyped ==
    \A p \in Processes :
        /\ process[p].at <= Len(ProgramOf(p))
        /\ ~Running(p) => process[p] = Stopped
        /\ Running(p) => process[p].version \in 1..runs
        /\ process[p].mode = "dev" => bench \in DOMAIN Developments
        /\ process[p].mode = "diagnostic" => bench = "hm_day1"

RunTypes == FrozenTypeOK /\ RunsTyped /\ \A r \in reveals : r.run \in 1..runs

\* Runs have versions of their own, and are alone until two overlapped.
RunsApart ==
    \A p, q \in Processes :
        Running(p) /\ Running(q) /\ (process[p].version = process[q].version \/ ~overlapped) => p = q

\* A run has a ledger from when it opens it until it closes it: the one that is in the directory,
\* and no other run has it then.
LedgerKept ==
    /\ \A p \in Processes : process[p].has # 0 <=> HasOpen(p)
    /\ Calm => \A p \in Processes :
           /\ <<"open", 0>> \in DoneBy(p) => ledger # 0
           /\ HasOpen(p) => process[p].has = ledger
           /\ \A q \in Processes : HasOpen(p) /\ HasOpen(q) => p = q

FilesKept ==
    \A p \in Processes, b \in Batches : <<"predict", b>> \in DoneBy(p) =>
        /\ predictionFile[b] # 0
        /\ Undisturbed /\ <<"close", 0>> \notin DoneBy(p) => predictionFile[b] = process[p].version

RowsKept ==
    \A p \in Processes, b \in Batches : HasRow(p, b) =>
        /\ Calm => ledgerRows[ledger][b].hash # 0
        /\ Undisturbed => ledgerRows[ledger][b].hash = process[p].version

\* While the ledger stays, what is revealed is the row of one run.
RevealsKept ==
    ~DeletesLedger /\ ~FreshIds =>
        /\ \A p, q \in Processes, b \in Batches : HasRow(p, b) /\ HasRow(q, b) => p = q
        /\ \A r \in reveals :
               /\ ledger # 0 /\ ledgerRows[ledger][r.batch].hash # 0
               /\ \A p \in Processes : HasRow(p, r.batch) => r.run = process[p].version

\* A run that passed the marker found none, and works with the selection that is there.
MarksKept ==
    /\ marker => Marked
    /\ Marked /\ bench # "hm_day1" /\ ~overlapped =>
           /\ \A p \in Processes :
                  /\ <<"mark", 0>> \in DoneBy(p) => marker
                  /\ <<"unmarked", 0>> \in DoneBy(p) /\ <<"mark", 0>> \notin DoneBy(p) => ~marker
                  /\ Selected(p) => process[p].config = selection
           /\ DeletesLedger =>
                  /\ reveals # {} => marker
                  /\ \A p \in Processes : <<"mark", 0>> \in DoneBy(p) =>
                         \A r \in reveals : r.run = process[p].version

\* What a run has revealed so far.
ConfigsKept ==
    \A r \in reveals :
        /\ Reveals(r.batch)
        /\ \A p \in Processes : Running(p) /\ r.run = process[p].version =>
               r.config = process[p].config /\ <<"reveal", r.batch>> \in DoneBy(p)

FrozenInv ==
    /\ RunTypes /\ RunsApart /\ LedgerKept /\ FilesKept /\ RowsKept
    /\ RevealsKept /\ MarksKept /\ ConfigsKept /\ RevealsAreFrozen

LEMMA PopulationV1InOrder ==
    /\ InOrder(Programs.population_v1)
    /\ Len(Programs.population_v1) = 6 /\ DOMAIN Programs.population_v1 = 1..6
    /\ ~SetsMarker(Programs.population_v1)
<1> DEFINE P == PopulationV1Freeze \o PopulationV1Compare \o PopulationV1Report
<1>1. /\ Len(P) = 6 /\ DOMAIN P = 1..6
      /\ P[1] = <<"predict", 1>> /\ P[2] = <<"unlink", 0>> /\ P[3] = <<"open", 0>>
      /\ P[4] = <<"append", 1>> /\ P[5] = <<"reveal", 1>> /\ P[6] = <<"evaluate", 1>>
  BY DEF PopulationV1Freeze, PopulationV1Compare, PopulationV1Report
<1>2. Programs.population_v1 = P
  BY DEF Programs
<1>. HIDE DEF P
<1>3. RowsInOrder(P)
  <2>1. ASSUME NEW i \in DOMAIN P, NEW b \in Batches, P[i] \in RowSteps(b) \cup {<<"evaluate", b>>}
        PROVE  <<"open", 0>> \in StepsBefore(P, i) /\ <<"close", 0>> \notin StepsBefore(P, i)
    BY SMTT(20), <1>1, <2>1 DEF StepsBefore, RowSteps, Batches
  <2>2. ASSUME NEW i \in DOMAIN P, NEW b \in Batches, P[i] \in {<<"append", b>>, <<"insert", b>>}
        PROVE  RowSteps(b) \cap StepsBefore(P, i) = {}
    <3>1. ASSUME NEW j \in 1..(i - 1)
          PROVE  P[j] \notin RowSteps(b)
      BY SMTT(20), <1>1, <2>2 DEF RowSteps, Batches
    <3>. QED  BY <3>1 DEF StepsBefore
  <2>3. ASSUME NEW i \in DOMAIN P, NEW b \in Batches, P[i] = <<"append", b>>
        PROVE  <<"predict", b>> \in StepsBefore(P, i)
    BY SMTT(20), <1>1, <2>3 DEF StepsBefore, Batches
  <2>4. ASSUME NEW i \in DOMAIN P, NEW b \in Batches, P[i] = <<"predict", b>>
        PROVE  <<"close", 0>> \notin StepsBefore(P, i)
    BY SMTT(20), <1>1, <2>4 DEF StepsBefore, Batches
  <2>5. ASSUME NEW i \in DOMAIN P, NEW b \in Batches, P[i] = <<"reveal", b>>
        PROVE  <<"append", b>> \in StepsBefore(P, i)
    BY SMTT(20), <1>1, <2>5 DEF StepsBefore, Batches
  <2>. QED  BY <2>1, <2>2, <2>3, <2>4, <2>5 DEF RowsInOrder, RowSteps
<1>4. LedgerInOrder(P)
  BY SMTT(20), <1>1 DEF LedgerInOrder, StepsBefore, Batches
<1>5. StepsInOrder(P)
  <2>1. \A i \in DOMAIN P : P[i] \in PlainSteps \/ \E b \in Batches : P[i] \in BatchSteps(b)
    BY SMTT(20), <1>1 DEF PlainSteps, BatchSteps, RowSteps, Batches
  <2>2. ASSUME NEW i \in DOMAIN P, P[i] \in {<<"freeze", 0>>, <<"frozen", 0>>}, NEW b \in Batches
        PROVE  <<"reveal", b>> \notin StepsBefore(P, i)
    BY SMTT(20), <1>1, <2>2 DEF StepsBefore
  <2>3. ASSUME NEW i \in DOMAIN P, P[i] = <<"unlink", 0>>, NEW j \in DOMAIN P, NEW k \in DOMAIN P,
               NEW b \in Batches, P[j] = <<"mark", 0>>, P[k] = <<"reveal", b>>
        PROVE  j < k
    BY SMTT(20), <1>1, <2>3
  <2>. QED  BY <2>1, <2>2, <2>3 DEF StepsInOrder
<1>6. ~SetsMarker(P)
  BY SMTT(20), <1>1 DEF SetsMarker
<1>. QED  BY <1>1, <1>2, <1>3, <1>4, <1>5, <1>6 DEF InOrder

LEMMA PopulationV2InOrder ==
    /\ InOrder(Programs.population_v2)
    /\ Len(Programs.population_v2) = 7 /\ DOMAIN Programs.population_v2 = 1..7
    /\ ~SetsMarker(Programs.population_v2)
<1> DEFINE P == PopulationV2Select \o PopulationV2Freeze \o PopulationV2Compare \o PopulationV2Report
<1>1. /\ Len(P) = 7 /\ DOMAIN P = 1..7
      /\ P[1] = <<"freeze", 0>> /\ P[2] = <<"predict", 1>> /\ P[3] = <<"unlink", 0>>
      /\ P[4] = <<"open", 0>> /\ P[5] = <<"append", 1>> /\ P[6] = <<"reveal", 1>>
      /\ P[7] = <<"evaluate", 1>>
  BY DEF PopulationV2Select, PopulationV2Freeze, PopulationV2Compare, PopulationV2Report
<1>2. Programs.population_v2 = P
  BY DEF Programs
<1>. HIDE DEF P
<1>3. RowsInOrder(P)
  <2>1. ASSUME NEW i \in DOMAIN P, NEW b \in Batches, P[i] \in RowSteps(b) \cup {<<"evaluate", b>>}
        PROVE  <<"open", 0>> \in StepsBefore(P, i) /\ <<"close", 0>> \notin StepsBefore(P, i)
    BY SMTT(20), <1>1, <2>1 DEF StepsBefore, RowSteps, Batches
  <2>2. ASSUME NEW i \in DOMAIN P, NEW b \in Batches, P[i] \in {<<"append", b>>, <<"insert", b>>}
        PROVE  RowSteps(b) \cap StepsBefore(P, i) = {}
    <3>1. ASSUME NEW j \in 1..(i - 1)
          PROVE  P[j] \notin RowSteps(b)
      BY SMTT(20), <1>1, <2>2 DEF RowSteps, Batches
    <3>. QED  BY <3>1 DEF StepsBefore
  <2>3. ASSUME NEW i \in DOMAIN P, NEW b \in Batches, P[i] = <<"append", b>>
        PROVE  <<"predict", b>> \in StepsBefore(P, i)
    BY SMTT(20), <1>1, <2>3 DEF StepsBefore, Batches
  <2>4. ASSUME NEW i \in DOMAIN P, NEW b \in Batches, P[i] = <<"predict", b>>
        PROVE  <<"close", 0>> \notin StepsBefore(P, i)
    BY SMTT(20), <1>1, <2>4 DEF StepsBefore, Batches
  <2>5. ASSUME NEW i \in DOMAIN P, NEW b \in Batches, P[i] = <<"reveal", b>>
        PROVE  <<"append", b>> \in StepsBefore(P, i)
    BY SMTT(20), <1>1, <2>5 DEF StepsBefore, Batches
  <2>. QED  BY <2>1, <2>2, <2>3, <2>4, <2>5 DEF RowsInOrder, RowSteps
<1>4. LedgerInOrder(P)
  BY SMTT(20), <1>1 DEF LedgerInOrder, StepsBefore, Batches
<1>5. StepsInOrder(P)
  <2>1. \A i \in DOMAIN P : P[i] \in PlainSteps \/ \E b \in Batches : P[i] \in BatchSteps(b)
    BY SMTT(20), <1>1 DEF PlainSteps, BatchSteps, RowSteps, Batches
  <2>2. ASSUME NEW i \in DOMAIN P, P[i] \in {<<"freeze", 0>>, <<"frozen", 0>>}, NEW b \in Batches
        PROVE  <<"reveal", b>> \notin StepsBefore(P, i)
    BY SMTT(20), <1>1, <2>2 DEF StepsBefore
  <2>3. ASSUME NEW i \in DOMAIN P, P[i] = <<"unlink", 0>>, NEW j \in DOMAIN P, NEW k \in DOMAIN P,
               NEW b \in Batches, P[j] = <<"mark", 0>>, P[k] = <<"reveal", b>>
        PROVE  j < k
    BY SMTT(20), <1>1, <2>3
  <2>. QED  BY <2>1, <2>2, <2>3 DEF StepsInOrder
<1>6. ~SetsMarker(P)
  BY SMTT(20), <1>1 DEF SetsMarker
<1>. QED  BY <1>1, <1>2, <1>3, <1>4, <1>5, <1>6 DEF InOrder

LEMMA PopulationV3InOrder ==
    /\ InOrder(Programs.population_v3)
    /\ Len(Programs.population_v3) = 7 /\ DOMAIN Programs.population_v3 = 1..7
    /\ ~SetsMarker(Programs.population_v3)
<1> DEFINE P == PopulationV3Select \o PopulationV3Freeze \o PopulationV3Compare \o PopulationV3Report
<1>1. /\ Len(P) = 7 /\ DOMAIN P = 1..7
      /\ P[1] = <<"freeze", 0>> /\ P[2] = <<"predict", 1>> /\ P[3] = <<"unlink", 0>>
      /\ P[4] = <<"open", 0>> /\ P[5] = <<"append", 1>> /\ P[6] = <<"reveal", 1>>
      /\ P[7] = <<"evaluate", 1>>
  BY DEF PopulationV3Select, PopulationV3Freeze, PopulationV3Compare, PopulationV3Report
<1>2. Programs.population_v3 = P
  BY DEF Programs
<1>. HIDE DEF P
<1>3. RowsInOrder(P)
  <2>1. ASSUME NEW i \in DOMAIN P, NEW b \in Batches, P[i] \in RowSteps(b) \cup {<<"evaluate", b>>}
        PROVE  <<"open", 0>> \in StepsBefore(P, i) /\ <<"close", 0>> \notin StepsBefore(P, i)
    BY SMTT(20), <1>1, <2>1 DEF StepsBefore, RowSteps, Batches
  <2>2. ASSUME NEW i \in DOMAIN P, NEW b \in Batches, P[i] \in {<<"append", b>>, <<"insert", b>>}
        PROVE  RowSteps(b) \cap StepsBefore(P, i) = {}
    <3>1. ASSUME NEW j \in 1..(i - 1)
          PROVE  P[j] \notin RowSteps(b)
      BY SMTT(20), <1>1, <2>2 DEF RowSteps, Batches
    <3>. QED  BY <3>1 DEF StepsBefore
  <2>3. ASSUME NEW i \in DOMAIN P, NEW b \in Batches, P[i] = <<"append", b>>
        PROVE  <<"predict", b>> \in StepsBefore(P, i)
    BY SMTT(20), <1>1, <2>3 DEF StepsBefore, Batches
  <2>4. ASSUME NEW i \in DOMAIN P, NEW b \in Batches, P[i] = <<"predict", b>>
        PROVE  <<"close", 0>> \notin StepsBefore(P, i)
    BY SMTT(20), <1>1, <2>4 DEF StepsBefore, Batches
  <2>5. ASSUME NEW i \in DOMAIN P, NEW b \in Batches, P[i] = <<"reveal", b>>
        PROVE  <<"append", b>> \in StepsBefore(P, i)
    BY SMTT(20), <1>1, <2>5 DEF StepsBefore, Batches
  <2>. QED  BY <2>1, <2>2, <2>3, <2>4, <2>5 DEF RowsInOrder, RowSteps
<1>4. LedgerInOrder(P)
  BY SMTT(20), <1>1 DEF LedgerInOrder, StepsBefore, Batches
<1>5. StepsInOrder(P)
  <2>1. \A i \in DOMAIN P : P[i] \in PlainSteps \/ \E b \in Batches : P[i] \in BatchSteps(b)
    BY SMTT(20), <1>1 DEF PlainSteps, BatchSteps, RowSteps, Batches
  <2>2. ASSUME NEW i \in DOMAIN P, P[i] \in {<<"freeze", 0>>, <<"frozen", 0>>}, NEW b \in Batches
        PROVE  <<"reveal", b>> \notin StepsBefore(P, i)
    BY SMTT(20), <1>1, <2>2 DEF StepsBefore
  <2>3. ASSUME NEW i \in DOMAIN P, P[i] = <<"unlink", 0>>, NEW j \in DOMAIN P, NEW k \in DOMAIN P,
               NEW b \in Batches, P[j] = <<"mark", 0>>, P[k] = <<"reveal", b>>
        PROVE  j < k
    BY SMTT(20), <1>1, <2>3
  <2>. QED  BY <2>1, <2>2, <2>3 DEF StepsInOrder
<1>6. ~SetsMarker(P)
  BY SMTT(20), <1>1 DEF SetsMarker
<1>. QED  BY <1>1, <1>2, <1>3, <1>4, <1>5, <1>6 DEF InOrder

LEMMA HillstromEconomicInOrder ==
    /\ InOrder(Programs.hillstrom_economic)
    /\ Len(Programs.hillstrom_economic) = 10 /\ DOMAIN Programs.hillstrom_economic = 1..10
    /\ ~SetsMarker(Programs.hillstrom_economic)
    /\ FilesInOrder(Programs.hillstrom_economic)
<1> DEFINE P == HillstromEconomicFreeze \o HillstromEconomicScore
<1>1. /\ Len(P) = 10 /\ DOMAIN P = 1..10
      /\ P[1] = <<"unlink", 0>> /\ P[2] = <<"open", 0>> /\ P[3] = <<"predict", 1>>
      /\ P[4] = <<"append", 1>> /\ P[5] = <<"predict", 2>> /\ P[6] = <<"append", 2>>
      /\ P[7] = <<"reveal", 1>> /\ P[8] = <<"reveal", 2>> /\ P[9] = <<"evaluate", 1>>
      /\ P[10] = <<"evaluate", 2>>
  BY DEF HillstromEconomicFreeze, HillstromEconomicScore, Freeze
<1>2. Programs.hillstrom_economic = P
  BY DEF Programs
<1>. HIDE DEF P
<1>3. RowsInOrder(P)
  <2>1. ASSUME NEW i \in DOMAIN P, NEW b \in Batches, P[i] \in RowSteps(b) \cup {<<"evaluate", b>>}
        PROVE  <<"open", 0>> \in StepsBefore(P, i) /\ <<"close", 0>> \notin StepsBefore(P, i)
    BY SMTT(20), <1>1, <2>1 DEF StepsBefore, RowSteps, Batches
  <2>2. ASSUME NEW i \in DOMAIN P, NEW b \in Batches, P[i] \in {<<"append", b>>, <<"insert", b>>}
        PROVE  RowSteps(b) \cap StepsBefore(P, i) = {}
    <3>1. ASSUME NEW j \in 1..(i - 1)
          PROVE  P[j] \notin RowSteps(b)
      BY SMTT(20), <1>1, <2>2 DEF RowSteps, Batches
    <3>. QED  BY <3>1 DEF StepsBefore
  <2>3. ASSUME NEW i \in DOMAIN P, NEW b \in Batches, P[i] = <<"append", b>>
        PROVE  <<"predict", b>> \in StepsBefore(P, i)
    BY SMTT(20), <1>1, <2>3 DEF StepsBefore, Batches
  <2>4. ASSUME NEW i \in DOMAIN P, NEW b \in Batches, P[i] = <<"predict", b>>
        PROVE  <<"close", 0>> \notin StepsBefore(P, i)
    BY SMTT(20), <1>1, <2>4 DEF StepsBefore, Batches
  <2>5. ASSUME NEW i \in DOMAIN P, NEW b \in Batches, P[i] = <<"reveal", b>>
        PROVE  <<"append", b>> \in StepsBefore(P, i)
    BY SMTT(20), <1>1, <2>5 DEF StepsBefore, Batches
  <2>. QED  BY <2>1, <2>2, <2>3, <2>4, <2>5 DEF RowsInOrder, RowSteps
<1>4. LedgerInOrder(P)
  BY SMTT(20), <1>1 DEF LedgerInOrder, StepsBefore, Batches
<1>5. StepsInOrder(P)
  <2>1. \A i \in DOMAIN P : P[i] \in PlainSteps \/ \E b \in Batches : P[i] \in BatchSteps(b)
    BY SMTT(20), <1>1 DEF PlainSteps, BatchSteps, RowSteps, Batches
  <2>2. ASSUME NEW i \in DOMAIN P, P[i] \in {<<"freeze", 0>>, <<"frozen", 0>>}, NEW b \in Batches
        PROVE  <<"reveal", b>> \notin StepsBefore(P, i)
    BY SMTT(20), <1>1, <2>2 DEF StepsBefore
  <2>3. ASSUME NEW i \in DOMAIN P, P[i] = <<"unlink", 0>>, NEW j \in DOMAIN P, NEW k \in DOMAIN P,
               NEW b \in Batches, P[j] = <<"mark", 0>>, P[k] = <<"reveal", b>>
        PROVE  j < k
    BY SMTT(20), <1>1, <2>3
  <2>. QED  BY <2>1, <2>2, <2>3 DEF StepsInOrder
<1>6. ~SetsMarker(P)
  BY SMTT(20), <1>1 DEF SetsMarker
<1>7. FilesInOrder(P)
  BY SMTT(20), <1>1 DEF FilesInOrder, StepsBefore, Batches
<1>. QED  BY <1>1, <1>2, <1>3, <1>4, <1>5, <1>6, <1>7 DEF InOrder

LEMMA CriteoInOrder ==
    /\ InOrder(Programs.criteo)
    /\ Len(Programs.criteo) = 9 /\ DOMAIN Programs.criteo = 1..9
    /\ ~SetsMarker(Programs.criteo)
    /\ FilesInOrder(Programs.criteo)
<1> DEFINE P == CriteoFreeze \o CriteoScore
<1>1. /\ Len(P) = 9 /\ DOMAIN P = 1..9
      /\ P[1] = <<"open", 0>> /\ P[2] = <<"predict", 1>> /\ P[3] = <<"append", 1>>
      /\ P[4] = <<"predict", 2>> /\ P[5] = <<"append", 2>> /\ P[6] = <<"reveal", 1>>
      /\ P[7] = <<"evaluate", 1>> /\ P[8] = <<"reveal", 2>> /\ P[9] = <<"evaluate", 2>>
  BY DEF CriteoFreeze, CriteoScore, Freeze
<1>2. Programs.criteo = P
  BY DEF Programs
<1>. HIDE DEF P
<1>3. RowsInOrder(P)
  <2>1. ASSUME NEW i \in DOMAIN P, NEW b \in Batches, P[i] \in RowSteps(b) \cup {<<"evaluate", b>>}
        PROVE  <<"open", 0>> \in StepsBefore(P, i) /\ <<"close", 0>> \notin StepsBefore(P, i)
    BY SMTT(20), <1>1, <2>1 DEF StepsBefore, RowSteps, Batches
  <2>2. ASSUME NEW i \in DOMAIN P, NEW b \in Batches, P[i] \in {<<"append", b>>, <<"insert", b>>}
        PROVE  RowSteps(b) \cap StepsBefore(P, i) = {}
    <3>1. ASSUME NEW j \in 1..(i - 1)
          PROVE  P[j] \notin RowSteps(b)
      BY SMTT(20), <1>1, <2>2 DEF RowSteps, Batches
    <3>. QED  BY <3>1 DEF StepsBefore
  <2>3. ASSUME NEW i \in DOMAIN P, NEW b \in Batches, P[i] = <<"append", b>>
        PROVE  <<"predict", b>> \in StepsBefore(P, i)
    BY SMTT(20), <1>1, <2>3 DEF StepsBefore, Batches
  <2>4. ASSUME NEW i \in DOMAIN P, NEW b \in Batches, P[i] = <<"predict", b>>
        PROVE  <<"close", 0>> \notin StepsBefore(P, i)
    BY SMTT(20), <1>1, <2>4 DEF StepsBefore, Batches
  <2>5. ASSUME NEW i \in DOMAIN P, NEW b \in Batches, P[i] = <<"reveal", b>>
        PROVE  <<"append", b>> \in StepsBefore(P, i)
    BY SMTT(20), <1>1, <2>5 DEF StepsBefore, Batches
  <2>. QED  BY <2>1, <2>2, <2>3, <2>4, <2>5 DEF RowsInOrder, RowSteps
<1>4. LedgerInOrder(P)
  BY SMTT(20), <1>1 DEF LedgerInOrder, StepsBefore, Batches
<1>5. StepsInOrder(P)
  <2>1. \A i \in DOMAIN P : P[i] \in PlainSteps \/ \E b \in Batches : P[i] \in BatchSteps(b)
    BY SMTT(20), <1>1 DEF PlainSteps, BatchSteps, RowSteps, Batches
  <2>2. ASSUME NEW i \in DOMAIN P, P[i] \in {<<"freeze", 0>>, <<"frozen", 0>>}, NEW b \in Batches
        PROVE  <<"reveal", b>> \notin StepsBefore(P, i)
    BY SMTT(20), <1>1, <2>2 DEF StepsBefore
  <2>3. ASSUME NEW i \in DOMAIN P, P[i] = <<"unlink", 0>>, NEW j \in DOMAIN P, NEW k \in DOMAIN P,
               NEW b \in Batches, P[j] = <<"mark", 0>>, P[k] = <<"reveal", b>>
        PROVE  j < k
    BY SMTT(20), <1>1, <2>3
  <2>. QED  BY <2>1, <2>2, <2>3 DEF StepsInOrder
<1>6. ~SetsMarker(P)
  BY SMTT(20), <1>1 DEF SetsMarker
<1>7. FilesInOrder(P)
  BY SMTT(20), <1>1 DEF FilesInOrder, StepsBefore, Batches
<1>. QED  BY <1>1, <1>2, <1>3, <1>4, <1>5, <1>6, <1>7 DEF InOrder

LEMMA HMDay1InOrder ==
    /\ InOrder(Programs.hm_day1)
    /\ Len(Programs.hm_day1) = 13 /\ DOMAIN Programs.hm_day1 = 1..13
    /\ Programs.hm_day1[12] = <<"close", 0>>
<1> DEFINE P == HMDay1
<1>1. /\ Len(P) = 13 /\ DOMAIN P = 1..13
      /\ P[1] = <<"unmarked", 0>> /\ P[2] = <<"frozen", 0>> /\ P[3] = <<"open", 0>>
      /\ P[4] = <<"predict", 1>> /\ P[5] = <<"append", 1>> /\ P[6] = <<"reveal", 1>>
      /\ P[7] = <<"evaluate", 1>> /\ P[8] = <<"predict", 2>> /\ P[9] = <<"append", 2>>
      /\ P[10] = <<"reveal", 2>> /\ P[11] = <<"evaluate", 2>> /\ P[12] = <<"close", 0>>
      /\ P[13] = <<"mark", 0>>
  BY DEF HMDay1, Freeze
<1>2. Programs.hm_day1 = P
  BY DEF Programs
<1>. HIDE DEF P
<1>3. RowsInOrder(P)
  <2>1. ASSUME NEW i \in DOMAIN P, NEW b \in Batches, P[i] \in RowSteps(b) \cup {<<"evaluate", b>>}
        PROVE  <<"open", 0>> \in StepsBefore(P, i) /\ <<"close", 0>> \notin StepsBefore(P, i)
    BY SMTT(20), <1>1, <2>1 DEF StepsBefore, RowSteps, Batches
  <2>2. ASSUME NEW i \in DOMAIN P, NEW b \in Batches, P[i] \in {<<"append", b>>, <<"insert", b>>}
        PROVE  RowSteps(b) \cap StepsBefore(P, i) = {}
    <3>1. ASSUME NEW j \in 1..(i - 1)
          PROVE  P[j] \notin RowSteps(b)
      BY SMTT(20), <1>1, <2>2 DEF RowSteps, Batches
    <3>. QED  BY <3>1 DEF StepsBefore
  <2>3. ASSUME NEW i \in DOMAIN P, NEW b \in Batches, P[i] = <<"append", b>>
        PROVE  <<"predict", b>> \in StepsBefore(P, i)
    BY SMTT(20), <1>1, <2>3 DEF StepsBefore, Batches
  <2>4. ASSUME NEW i \in DOMAIN P, NEW b \in Batches, P[i] = <<"predict", b>>
        PROVE  <<"close", 0>> \notin StepsBefore(P, i)
    BY SMTT(20), <1>1, <2>4 DEF StepsBefore, Batches
  <2>5. ASSUME NEW i \in DOMAIN P, NEW b \in Batches, P[i] = <<"reveal", b>>
        PROVE  <<"append", b>> \in StepsBefore(P, i)
    BY SMTT(20), <1>1, <2>5 DEF StepsBefore, Batches
  <2>. QED  BY <2>1, <2>2, <2>3, <2>4, <2>5 DEF RowsInOrder, RowSteps
<1>4. LedgerInOrder(P)
  BY SMTT(20), <1>1 DEF LedgerInOrder, StepsBefore, Batches
<1>5. StepsInOrder(P)
  <2>1. \A i \in DOMAIN P : P[i] \in PlainSteps \/ \E b \in Batches : P[i] \in BatchSteps(b)
    BY SMTT(20), <1>1 DEF PlainSteps, BatchSteps, RowSteps, Batches
  <2>2. ASSUME NEW i \in DOMAIN P, P[i] \in {<<"freeze", 0>>, <<"frozen", 0>>}, NEW b \in Batches
        PROVE  <<"reveal", b>> \notin StepsBefore(P, i)
    BY SMTT(20), <1>1, <2>2 DEF StepsBefore
  <2>3. ASSUME NEW i \in DOMAIN P, P[i] = <<"unlink", 0>>, NEW j \in DOMAIN P, NEW k \in DOMAIN P,
               NEW b \in Batches, P[j] = <<"mark", 0>>, P[k] = <<"reveal", b>>
        PROVE  j < k
    BY SMTT(20), <1>1, <2>3
  <2>. QED  BY <2>1, <2>2, <2>3 DEF StepsInOrder
<1>. QED  BY <1>1, <1>2, <1>3, <1>4, <1>5 DEF InOrder

LEMMA HMDay1V2InOrder ==
    /\ InOrder(Programs.hm_day1_v2)
    /\ Len(Programs.hm_day1_v2) = 10 /\ DOMAIN Programs.hm_day1_v2 = 1..10
    /\ MarksInOrder(Programs.hm_day1_v2)
<1> DEFINE P == HMDay1V2
<1>1. /\ Len(P) = 10 /\ DOMAIN P = 1..10
      /\ P[1] = <<"unmarked", 0>> /\ P[2] = <<"frozen", 0>> /\ P[3] = <<"predict", 1>>
      /\ P[4] = <<"open", 0>> /\ P[5] = <<"append", 1>> /\ P[6] = <<"close", 0>>
      /\ P[7] = <<"unmarked", 0>> /\ P[8] = <<"reveal", 1>> /\ P[9] = <<"unmarked", 0>>
      /\ P[10] = <<"mark", 0>>
  BY DEF HMDay1V2
<1>2. Programs.hm_day1_v2 = P
  BY DEF Programs
<1>. HIDE DEF P
<1>3. RowsInOrder(P)
  <2>1. ASSUME NEW i \in DOMAIN P, NEW b \in Batches, P[i] \in RowSteps(b) \cup {<<"evaluate", b>>}
        PROVE  <<"open", 0>> \in StepsBefore(P, i) /\ <<"close", 0>> \notin StepsBefore(P, i)
    BY SMTT(20), <1>1, <2>1 DEF StepsBefore, RowSteps, Batches
  <2>2. ASSUME NEW i \in DOMAIN P, NEW b \in Batches, P[i] \in {<<"append", b>>, <<"insert", b>>}
        PROVE  RowSteps(b) \cap StepsBefore(P, i) = {}
    <3>1. ASSUME NEW j \in 1..(i - 1)
          PROVE  P[j] \notin RowSteps(b)
      BY SMTT(20), <1>1, <2>2 DEF RowSteps, Batches
    <3>. QED  BY <3>1 DEF StepsBefore
  <2>3. ASSUME NEW i \in DOMAIN P, NEW b \in Batches, P[i] = <<"append", b>>
        PROVE  <<"predict", b>> \in StepsBefore(P, i)
    BY SMTT(20), <1>1, <2>3 DEF StepsBefore, Batches
  <2>4. ASSUME NEW i \in DOMAIN P, NEW b \in Batches, P[i] = <<"predict", b>>
        PROVE  <<"close", 0>> \notin StepsBefore(P, i)
    BY SMTT(20), <1>1, <2>4 DEF StepsBefore, Batches
  <2>5. ASSUME NEW i \in DOMAIN P, NEW b \in Batches, P[i] = <<"reveal", b>>
        PROVE  <<"append", b>> \in StepsBefore(P, i)
    BY SMTT(20), <1>1, <2>5 DEF StepsBefore, Batches
  <2>. QED  BY <2>1, <2>2, <2>3, <2>4, <2>5 DEF RowsInOrder, RowSteps
<1>4. LedgerInOrder(P)
  BY SMTT(20), <1>1 DEF LedgerInOrder, StepsBefore, Batches
<1>5. StepsInOrder(P)
  <2>1. \A i \in DOMAIN P : P[i] \in PlainSteps \/ \E b \in Batches : P[i] \in BatchSteps(b)
    BY SMTT(20), <1>1 DEF PlainSteps, BatchSteps, RowSteps, Batches
  <2>2. ASSUME NEW i \in DOMAIN P, P[i] \in {<<"freeze", 0>>, <<"frozen", 0>>}, NEW b \in Batches
        PROVE  <<"reveal", b>> \notin StepsBefore(P, i)
    BY SMTT(20), <1>1, <2>2 DEF StepsBefore
  <2>3. ASSUME NEW i \in DOMAIN P, P[i] = <<"unlink", 0>>, NEW j \in DOMAIN P, NEW k \in DOMAIN P,
               NEW b \in Batches, P[j] = <<"mark", 0>>, P[k] = <<"reveal", b>>
        PROVE  j < k
    BY SMTT(20), <1>1, <2>3
  <2>. QED  BY <2>1, <2>2, <2>3 DEF StepsInOrder
<1>6. MarksInOrder(P)
  <2>1. ASSUME NEW i \in DOMAIN P, P[i] \in {<<"freeze", 0>>, <<"mark", 0>>}
        PROVE  <<"unmarked", 0>> \in StepsBefore(P, i) /\ <<"mark", 0>> \notin StepsBefore(P, i)
    BY SMTT(20), <1>1, <2>1 DEF StepsBefore
  <2>2. ASSUME NEW i \in DOMAIN P, NEW b \in Batches, P[i] \in {<<"mark", 0>>, <<"reveal", b>>}
        PROVE  <<"freeze", 0>> \in StepsBefore(P, i) \/ <<"frozen", 0>> \in StepsBefore(P, i)
    BY SMTT(20), <1>1, <2>2 DEF StepsBefore, Batches
  <2>3. \A i \in DOMAIN P, b \in Batches : P[i] # <<"insert_new", b>>
    BY SMTT(20), <1>1 DEF Batches
  <2>4. ASSUME NEW i \in DOMAIN P, NEW j \in DOMAIN P, NEW b \in Batches,
             P[i] = <<"mark", 0>>, P[j] = <<"reveal", b>>
        PROVE  <<"append", b>> \in StepsBefore(P, i)
    BY SMTT(20), <1>1, <2>4 DEF StepsBefore, Batches
  <2>5. 1 \in Batches
    BY DEF Batches
  <2>. QED  BY <2>1, <2>2, <2>3, <2>4, <2>5 DEF MarksInOrder, RowSteps
<1>. QED  BY <1>1, <1>2, <1>3, <1>4, <1>5, <1>6 DEF InOrder

LEMMA JDBehavioralInOrder ==
    /\ InOrder(Programs.jdsearch_behavioral)
    /\ Len(Programs.jdsearch_behavioral) = 11 /\ DOMAIN Programs.jdsearch_behavioral = 1..11
    /\ MarksInOrder(Programs.jdsearch_behavioral)
<1> DEFINE P == JDBehavioral
<1>1. /\ Len(P) = 11 /\ DOMAIN P = 1..11
      /\ P[1] = <<"unmarked", 0>> /\ P[2] = <<"frozen", 0>> /\ P[3] = <<"open", 0>>
      /\ P[4] = <<"predict", 1>> /\ P[5] = <<"append", 1>> /\ P[6] = <<"predict", 2>>
      /\ P[7] = <<"append", 2>> /\ P[8] = <<"close", 0>> /\ P[9] = <<"reveal", 1>>
      /\ P[10] = <<"reveal", 2>> /\ P[11] = <<"mark", 0>>
  BY DEF JDBehavioral, Freeze
<1>2. Programs.jdsearch_behavioral = P
  BY DEF Programs
<1>. HIDE DEF P
<1>3. RowsInOrder(P)
  <2>1. ASSUME NEW i \in DOMAIN P, NEW b \in Batches, P[i] \in RowSteps(b) \cup {<<"evaluate", b>>}
        PROVE  <<"open", 0>> \in StepsBefore(P, i) /\ <<"close", 0>> \notin StepsBefore(P, i)
    BY SMTT(20), <1>1, <2>1 DEF StepsBefore, RowSteps, Batches
  <2>2. ASSUME NEW i \in DOMAIN P, NEW b \in Batches, P[i] \in {<<"append", b>>, <<"insert", b>>}
        PROVE  RowSteps(b) \cap StepsBefore(P, i) = {}
    <3>1. ASSUME NEW j \in 1..(i - 1)
          PROVE  P[j] \notin RowSteps(b)
      BY SMTT(20), <1>1, <2>2 DEF RowSteps, Batches
    <3>. QED  BY <3>1 DEF StepsBefore
  <2>3. ASSUME NEW i \in DOMAIN P, NEW b \in Batches, P[i] = <<"append", b>>
        PROVE  <<"predict", b>> \in StepsBefore(P, i)
    BY SMTT(20), <1>1, <2>3 DEF StepsBefore, Batches
  <2>4. ASSUME NEW i \in DOMAIN P, NEW b \in Batches, P[i] = <<"predict", b>>
        PROVE  <<"close", 0>> \notin StepsBefore(P, i)
    BY SMTT(20), <1>1, <2>4 DEF StepsBefore, Batches
  <2>5. ASSUME NEW i \in DOMAIN P, NEW b \in Batches, P[i] = <<"reveal", b>>
        PROVE  <<"append", b>> \in StepsBefore(P, i)
    BY SMTT(20), <1>1, <2>5 DEF StepsBefore, Batches
  <2>. QED  BY <2>1, <2>2, <2>3, <2>4, <2>5 DEF RowsInOrder, RowSteps
<1>4. LedgerInOrder(P)
  BY SMTT(20), <1>1 DEF LedgerInOrder, StepsBefore, Batches
<1>5. StepsInOrder(P)
  <2>1. \A i \in DOMAIN P : P[i] \in PlainSteps \/ \E b \in Batches : P[i] \in BatchSteps(b)
    BY SMTT(20), <1>1 DEF PlainSteps, BatchSteps, RowSteps, Batches
  <2>2. ASSUME NEW i \in DOMAIN P, P[i] \in {<<"freeze", 0>>, <<"frozen", 0>>}, NEW b \in Batches
        PROVE  <<"reveal", b>> \notin StepsBefore(P, i)
    BY SMTT(20), <1>1, <2>2 DEF StepsBefore
  <2>3. ASSUME NEW i \in DOMAIN P, P[i] = <<"unlink", 0>>, NEW j \in DOMAIN P, NEW k \in DOMAIN P,
               NEW b \in Batches, P[j] = <<"mark", 0>>, P[k] = <<"reveal", b>>
        PROVE  j < k
    BY SMTT(20), <1>1, <2>3
  <2>. QED  BY <2>1, <2>2, <2>3 DEF StepsInOrder
<1>6. MarksInOrder(P)
  <2>1. ASSUME NEW i \in DOMAIN P, P[i] \in {<<"freeze", 0>>, <<"mark", 0>>}
        PROVE  <<"unmarked", 0>> \in StepsBefore(P, i) /\ <<"mark", 0>> \notin StepsBefore(P, i)
    BY SMTT(20), <1>1, <2>1 DEF StepsBefore
  <2>2. ASSUME NEW i \in DOMAIN P, NEW b \in Batches, P[i] \in {<<"mark", 0>>, <<"reveal", b>>}
        PROVE  <<"freeze", 0>> \in StepsBefore(P, i) \/ <<"frozen", 0>> \in StepsBefore(P, i)
    BY SMTT(20), <1>1, <2>2 DEF StepsBefore, Batches
  <2>3. \A i \in DOMAIN P, b \in Batches : P[i] # <<"insert_new", b>>
    BY SMTT(20), <1>1 DEF Batches
  <2>4. ASSUME NEW i \in DOMAIN P, NEW j \in DOMAIN P, NEW b \in Batches,
             P[i] = <<"mark", 0>>, P[j] = <<"reveal", b>>
        PROVE  <<"append", b>> \in StepsBefore(P, i)
    BY SMTT(20), <1>1, <2>4 DEF StepsBefore, Batches
  <2>5. 1 \in Batches
    BY DEF Batches
  <2>. QED  BY <2>1, <2>2, <2>3, <2>4, <2>5 DEF MarksInOrder, RowSteps
<1>. QED  BY <1>1, <1>2, <1>3, <1>4, <1>5, <1>6 DEF InOrder

LEMMA JDDynamicsInOrder ==
    /\ InOrder(Programs.jdsearch_dynamics)
    /\ Len(Programs.jdsearch_dynamics) = 13 /\ DOMAIN Programs.jdsearch_dynamics = 1..13
    /\ MarksInOrder(Programs.jdsearch_dynamics)
<1> DEFINE P == JDDynamicsTournament \o JDDynamicsSelect \o JDDynamicsFreeze \o JDDynamicsScore
<1>1. /\ Len(P) = 13 /\ DOMAIN P = 1..13
      /\ P[1] = <<"unmarked", 0>> /\ P[2] = <<"freeze", 0>> /\ P[3] = <<"predict", 1>>
      /\ P[4] = <<"predict", 2>> /\ P[5] = <<"unlink", 0>> /\ P[6] = <<"open", 0>>
      /\ P[7] = <<"append", 1>> /\ P[8] = <<"append", 2>> /\ P[9] = <<"mark", 0>>
      /\ P[10] = <<"reveal", 1>> /\ P[11] = <<"reveal", 2>> /\ P[12] = <<"evaluate", 1>>
      /\ P[13] = <<"evaluate", 2>>
  BY DEF JDDynamicsTournament, JDDynamicsSelect, JDDynamicsFreeze, JDDynamicsScore
<1>2. Programs.jdsearch_dynamics = P
  BY DEF Programs
<1>. HIDE DEF P
<1>3. RowsInOrder(P)
  <2>1. ASSUME NEW i \in DOMAIN P, NEW b \in Batches, P[i] \in RowSteps(b) \cup {<<"evaluate", b>>}
        PROVE  <<"open", 0>> \in StepsBefore(P, i) /\ <<"close", 0>> \notin StepsBefore(P, i)
    BY SMTT(20), <1>1, <2>1 DEF StepsBefore, RowSteps, Batches
  <2>2. ASSUME NEW i \in DOMAIN P, NEW b \in Batches, P[i] \in {<<"append", b>>, <<"insert", b>>}
        PROVE  RowSteps(b) \cap StepsBefore(P, i) = {}
    <3>1. ASSUME NEW j \in 1..(i - 1)
          PROVE  P[j] \notin RowSteps(b)
      BY SMTT(20), <1>1, <2>2 DEF RowSteps, Batches
    <3>. QED  BY <3>1 DEF StepsBefore
  <2>3. ASSUME NEW i \in DOMAIN P, NEW b \in Batches, P[i] = <<"append", b>>
        PROVE  <<"predict", b>> \in StepsBefore(P, i)
    BY SMTT(20), <1>1, <2>3 DEF StepsBefore, Batches
  <2>4. ASSUME NEW i \in DOMAIN P, NEW b \in Batches, P[i] = <<"predict", b>>
        PROVE  <<"close", 0>> \notin StepsBefore(P, i)
    BY SMTT(20), <1>1, <2>4 DEF StepsBefore, Batches
  <2>5. ASSUME NEW i \in DOMAIN P, NEW b \in Batches, P[i] = <<"reveal", b>>
        PROVE  <<"append", b>> \in StepsBefore(P, i)
    BY SMTT(20), <1>1, <2>5 DEF StepsBefore, Batches
  <2>. QED  BY <2>1, <2>2, <2>3, <2>4, <2>5 DEF RowsInOrder, RowSteps
<1>4. LedgerInOrder(P)
  BY SMTT(20), <1>1 DEF LedgerInOrder, StepsBefore, Batches
<1>5. StepsInOrder(P)
  <2>1. \A i \in DOMAIN P : P[i] \in PlainSteps \/ \E b \in Batches : P[i] \in BatchSteps(b)
    BY SMTT(20), <1>1 DEF PlainSteps, BatchSteps, RowSteps, Batches
  <2>2. ASSUME NEW i \in DOMAIN P, P[i] \in {<<"freeze", 0>>, <<"frozen", 0>>}, NEW b \in Batches
        PROVE  <<"reveal", b>> \notin StepsBefore(P, i)
    BY SMTT(20), <1>1, <2>2 DEF StepsBefore
  <2>3. ASSUME NEW i \in DOMAIN P, P[i] = <<"unlink", 0>>, NEW j \in DOMAIN P, NEW k \in DOMAIN P,
               NEW b \in Batches, P[j] = <<"mark", 0>>, P[k] = <<"reveal", b>>
        PROVE  j < k
    BY SMTT(20), <1>1, <2>3
  <2>. QED  BY <2>1, <2>2, <2>3 DEF StepsInOrder
<1>6. MarksInOrder(P)
  <2>1. ASSUME NEW i \in DOMAIN P, P[i] \in {<<"freeze", 0>>, <<"mark", 0>>}
        PROVE  <<"unmarked", 0>> \in StepsBefore(P, i) /\ <<"mark", 0>> \notin StepsBefore(P, i)
    BY SMTT(20), <1>1, <2>1 DEF StepsBefore
  <2>2. ASSUME NEW i \in DOMAIN P, NEW b \in Batches, P[i] \in {<<"mark", 0>>, <<"reveal", b>>}
        PROVE  <<"freeze", 0>> \in StepsBefore(P, i) \/ <<"frozen", 0>> \in StepsBefore(P, i)
    BY SMTT(20), <1>1, <2>2 DEF StepsBefore, Batches
  <2>3. \A i \in DOMAIN P, b \in Batches : P[i] # <<"insert_new", b>>
    BY SMTT(20), <1>1 DEF Batches
  <2>4. ASSUME NEW i \in DOMAIN P, NEW j \in DOMAIN P, NEW b \in Batches,
             P[i] = <<"mark", 0>>, P[j] = <<"reveal", b>>
        PROVE  <<"append", b>> \in StepsBefore(P, i)
    BY SMTT(20), <1>1, <2>4 DEF StepsBefore, Batches
  <2>5. 1 \in Batches
    BY DEF Batches
  <2>. QED  BY <2>1, <2>2, <2>3, <2>4, <2>5 DEF MarksInOrder, RowSteps
<1>. QED  BY <1>1, <1>2, <1>3, <1>4, <1>5, <1>6 DEF InOrder

LEMMA RetailRocketInOrder ==
    /\ InOrder(Programs.retailrocket)
    /\ Len(Programs.retailrocket) = 9 /\ DOMAIN Programs.retailrocket = 1..9
    /\ MarksInOrder(Programs.retailrocket)
<1> DEFINE P == RetailRocketSelect \o RetailRocketFreeze \o RetailRocketScore
<1>1. /\ Len(P) = 9 /\ DOMAIN P = 1..9
      /\ P[1] = <<"unmarked", 0>> /\ P[2] = <<"freeze", 0>> /\ P[3] = <<"predict", 1>>
      /\ P[4] = <<"no_ledger", 0>> /\ P[5] = <<"open", 0>> /\ P[6] = <<"append", 1>>
      /\ P[7] = <<"mark", 0>> /\ P[8] = <<"reveal", 1>> /\ P[9] = <<"evaluate", 1>>
  BY DEF RetailRocketSelect, RetailRocketFreeze, RetailRocketScore
<1>2. Programs.retailrocket = P
  BY DEF Programs
<1>. HIDE DEF P
<1>3. RowsInOrder(P)
  <2>1. ASSUME NEW i \in DOMAIN P, NEW b \in Batches, P[i] \in RowSteps(b) \cup {<<"evaluate", b>>}
        PROVE  <<"open", 0>> \in StepsBefore(P, i) /\ <<"close", 0>> \notin StepsBefore(P, i)
    BY SMTT(20), <1>1, <2>1 DEF StepsBefore, RowSteps, Batches
  <2>2. ASSUME NEW i \in DOMAIN P, NEW b \in Batches, P[i] \in {<<"append", b>>, <<"insert", b>>}
        PROVE  RowSteps(b) \cap StepsBefore(P, i) = {}
    <3>1. ASSUME NEW j \in 1..(i - 1)
          PROVE  P[j] \notin RowSteps(b)
      BY SMTT(20), <1>1, <2>2 DEF RowSteps, Batches
    <3>. QED  BY <3>1 DEF StepsBefore
  <2>3. ASSUME NEW i \in DOMAIN P, NEW b \in Batches, P[i] = <<"append", b>>
        PROVE  <<"predict", b>> \in StepsBefore(P, i)
    BY SMTT(20), <1>1, <2>3 DEF StepsBefore, Batches
  <2>4. ASSUME NEW i \in DOMAIN P, NEW b \in Batches, P[i] = <<"predict", b>>
        PROVE  <<"close", 0>> \notin StepsBefore(P, i)
    BY SMTT(20), <1>1, <2>4 DEF StepsBefore, Batches
  <2>5. ASSUME NEW i \in DOMAIN P, NEW b \in Batches, P[i] = <<"reveal", b>>
        PROVE  <<"append", b>> \in StepsBefore(P, i)
    BY SMTT(20), <1>1, <2>5 DEF StepsBefore, Batches
  <2>. QED  BY <2>1, <2>2, <2>3, <2>4, <2>5 DEF RowsInOrder, RowSteps
<1>4. LedgerInOrder(P)
  BY SMTT(20), <1>1 DEF LedgerInOrder, StepsBefore, Batches
<1>5. StepsInOrder(P)
  <2>1. \A i \in DOMAIN P : P[i] \in PlainSteps \/ \E b \in Batches : P[i] \in BatchSteps(b)
    BY SMTT(20), <1>1 DEF PlainSteps, BatchSteps, RowSteps, Batches
  <2>2. ASSUME NEW i \in DOMAIN P, P[i] \in {<<"freeze", 0>>, <<"frozen", 0>>}, NEW b \in Batches
        PROVE  <<"reveal", b>> \notin StepsBefore(P, i)
    BY SMTT(20), <1>1, <2>2 DEF StepsBefore
  <2>3. ASSUME NEW i \in DOMAIN P, P[i] = <<"unlink", 0>>, NEW j \in DOMAIN P, NEW k \in DOMAIN P,
               NEW b \in Batches, P[j] = <<"mark", 0>>, P[k] = <<"reveal", b>>
        PROVE  j < k
    BY SMTT(20), <1>1, <2>3
  <2>. QED  BY <2>1, <2>2, <2>3 DEF StepsInOrder
<1>6. MarksInOrder(P)
  <2>1. ASSUME NEW i \in DOMAIN P, P[i] \in {<<"freeze", 0>>, <<"mark", 0>>}
        PROVE  <<"unmarked", 0>> \in StepsBefore(P, i) /\ <<"mark", 0>> \notin StepsBefore(P, i)
    BY SMTT(20), <1>1, <2>1 DEF StepsBefore
  <2>2. ASSUME NEW i \in DOMAIN P, NEW b \in Batches, P[i] \in {<<"mark", 0>>, <<"reveal", b>>}
        PROVE  <<"freeze", 0>> \in StepsBefore(P, i) \/ <<"frozen", 0>> \in StepsBefore(P, i)
    BY SMTT(20), <1>1, <2>2 DEF StepsBefore, Batches
  <2>3. \A i \in DOMAIN P, b \in Batches : P[i] # <<"insert_new", b>>
    BY SMTT(20), <1>1 DEF Batches
  <2>4. ASSUME NEW i \in DOMAIN P, NEW j \in DOMAIN P, NEW b \in Batches,
             P[i] = <<"mark", 0>>, P[j] = <<"reveal", b>>
        PROVE  <<"append", b>> \in StepsBefore(P, i)
    BY SMTT(20), <1>1, <2>4 DEF StepsBefore, Batches
  <2>5. 1 \in Batches
    BY DEF Batches
  <2>. QED  BY <2>1, <2>2, <2>3, <2>4, <2>5 DEF MarksInOrder, RowSteps
<1>. QED  BY <1>1, <1>2, <1>3, <1>4, <1>5, <1>6 DEF InOrder

LEMMA DunnhumbyInOrder ==
    /\ InOrder(Programs.dunnhumby)
    /\ Len(Programs.dunnhumby) = 8 /\ DOMAIN Programs.dunnhumby = 1..8
    /\ MarksInOrder(Programs.dunnhumby)
<1> DEFINE P == Dunnhumby
<1>1. /\ Len(P) = 8 /\ DOMAIN P = 1..8
      /\ P[1] = <<"unmarked", 0>> /\ P[2] = <<"freeze", 0>> /\ P[3] = <<"predict", 1>>
      /\ P[4] = <<"open", 0>> /\ P[5] = <<"append", 1>> /\ P[6] = <<"mark", 0>>
      /\ P[7] = <<"reveal", 1>> /\ P[8] = <<"evaluate", 1>>
  BY DEF Dunnhumby
<1>2. Programs.dunnhumby = P
  BY DEF Programs
<1>. HIDE DEF P
<1>3. RowsInOrder(P)
  <2>1. ASSUME NEW i \in DOMAIN P, NEW b \in Batches, P[i] \in RowSteps(b) \cup {<<"evaluate", b>>}
        PROVE  <<"open", 0>> \in StepsBefore(P, i) /\ <<"close", 0>> \notin StepsBefore(P, i)
    BY SMTT(20), <1>1, <2>1 DEF StepsBefore, RowSteps, Batches
  <2>2. ASSUME NEW i \in DOMAIN P, NEW b \in Batches, P[i] \in {<<"append", b>>, <<"insert", b>>}
        PROVE  RowSteps(b) \cap StepsBefore(P, i) = {}
    <3>1. ASSUME NEW j \in 1..(i - 1)
          PROVE  P[j] \notin RowSteps(b)
      BY SMTT(20), <1>1, <2>2 DEF RowSteps, Batches
    <3>. QED  BY <3>1 DEF StepsBefore
  <2>3. ASSUME NEW i \in DOMAIN P, NEW b \in Batches, P[i] = <<"append", b>>
        PROVE  <<"predict", b>> \in StepsBefore(P, i)
    BY SMTT(20), <1>1, <2>3 DEF StepsBefore, Batches
  <2>4. ASSUME NEW i \in DOMAIN P, NEW b \in Batches, P[i] = <<"predict", b>>
        PROVE  <<"close", 0>> \notin StepsBefore(P, i)
    BY SMTT(20), <1>1, <2>4 DEF StepsBefore, Batches
  <2>5. ASSUME NEW i \in DOMAIN P, NEW b \in Batches, P[i] = <<"reveal", b>>
        PROVE  <<"append", b>> \in StepsBefore(P, i)
    BY SMTT(20), <1>1, <2>5 DEF StepsBefore, Batches
  <2>. QED  BY <2>1, <2>2, <2>3, <2>4, <2>5 DEF RowsInOrder, RowSteps
<1>4. LedgerInOrder(P)
  BY SMTT(20), <1>1 DEF LedgerInOrder, StepsBefore, Batches
<1>5. StepsInOrder(P)
  <2>1. \A i \in DOMAIN P : P[i] \in PlainSteps \/ \E b \in Batches : P[i] \in BatchSteps(b)
    BY SMTT(20), <1>1 DEF PlainSteps, BatchSteps, RowSteps, Batches
  <2>2. ASSUME NEW i \in DOMAIN P, P[i] \in {<<"freeze", 0>>, <<"frozen", 0>>}, NEW b \in Batches
        PROVE  <<"reveal", b>> \notin StepsBefore(P, i)
    BY SMTT(20), <1>1, <2>2 DEF StepsBefore
  <2>3. ASSUME NEW i \in DOMAIN P, P[i] = <<"unlink", 0>>, NEW j \in DOMAIN P, NEW k \in DOMAIN P,
               NEW b \in Batches, P[j] = <<"mark", 0>>, P[k] = <<"reveal", b>>
        PROVE  j < k
    BY SMTT(20), <1>1, <2>3
  <2>. QED  BY <2>1, <2>2, <2>3 DEF StepsInOrder
<1>6. MarksInOrder(P)
  BY SMTT(20), <1>1 DEF MarksInOrder, StepsBefore, RowSteps, Batches
<1>. QED  BY <1>1, <1>2, <1>3, <1>4, <1>5, <1>6 DEF InOrder

LEMMA HillstromRctInOrder ==
    /\ InOrder(Programs.hillstrom_rct)
    /\ Len(Programs.hillstrom_rct) = 3 /\ DOMAIN Programs.hillstrom_rct = 1..3
    /\ ~SetsMarker(Programs.hillstrom_rct)
<1> DEFINE P == HillstromRctFreeze \o HillstromRctScore
<1>1. /\ Len(P) = 3 /\ DOMAIN P = 1..3
      /\ P[1] = <<"open", 0>> /\ P[2] = <<"insert", 1>> /\ P[3] = <<"reveal", 1>>
  BY DEF HillstromRctFreeze, HillstromRctScore
<1>2. Programs.hillstrom_rct = P
  BY DEF Programs
<1>. HIDE DEF P
<1>3. RowsInOrder(P)
  <2>1. ASSUME NEW i \in DOMAIN P, NEW b \in Batches, P[i] \in RowSteps(b) \cup {<<"evaluate", b>>}
        PROVE  <<"open", 0>> \in StepsBefore(P, i) /\ <<"close", 0>> \notin StepsBefore(P, i)
    BY SMTT(20), <1>1, <2>1 DEF StepsBefore, RowSteps, Batches
  <2>2. ASSUME NEW i \in DOMAIN P, NEW b \in Batches, P[i] \in {<<"append", b>>, <<"insert", b>>}
        PROVE  RowSteps(b) \cap StepsBefore(P, i) = {}
    <3>1. ASSUME NEW j \in 1..(i - 1)
          PROVE  P[j] \notin RowSteps(b)
      BY SMTT(20), <1>1, <2>2 DEF RowSteps, Batches
    <3>. QED  BY <3>1 DEF StepsBefore
  <2>3. ASSUME NEW i \in DOMAIN P, NEW b \in Batches, P[i] = <<"append", b>>
        PROVE  <<"predict", b>> \in StepsBefore(P, i)
    BY SMTT(20), <1>1, <2>3 DEF StepsBefore, Batches
  <2>4. ASSUME NEW i \in DOMAIN P, NEW b \in Batches, P[i] = <<"predict", b>>
        PROVE  <<"close", 0>> \notin StepsBefore(P, i)
    BY SMTT(20), <1>1, <2>4 DEF StepsBefore, Batches
  <2>5. ASSUME NEW i \in DOMAIN P, NEW b \in Batches, P[i] = <<"reveal", b>>
        PROVE  <<"insert", b>> \in StepsBefore(P, i)
    BY SMTT(20), <1>1, <2>5 DEF StepsBefore, Batches
  <2>. QED  BY <2>1, <2>2, <2>3, <2>4, <2>5 DEF RowsInOrder, RowSteps
<1>4. LedgerInOrder(P)
  BY SMTT(20), <1>1 DEF LedgerInOrder, StepsBefore, Batches
<1>5. StepsInOrder(P)
  <2>1. \A i \in DOMAIN P : P[i] \in PlainSteps \/ \E b \in Batches : P[i] \in BatchSteps(b)
    BY SMTT(20), <1>1 DEF PlainSteps, BatchSteps, RowSteps, Batches
  <2>2. ASSUME NEW i \in DOMAIN P, P[i] \in {<<"freeze", 0>>, <<"frozen", 0>>}, NEW b \in Batches
        PROVE  <<"reveal", b>> \notin StepsBefore(P, i)
    BY SMTT(20), <1>1, <2>2 DEF StepsBefore
  <2>3. ASSUME NEW i \in DOMAIN P, P[i] = <<"unlink", 0>>, NEW j \in DOMAIN P, NEW k \in DOMAIN P,
               NEW b \in Batches, P[j] = <<"mark", 0>>, P[k] = <<"reveal", b>>
        PROVE  j < k
    BY SMTT(20), <1>1, <2>3
  <2>. QED  BY <2>1, <2>2, <2>3 DEF StepsInOrder
<1>6. ~SetsMarker(P)
  BY SMTT(20), <1>1 DEF SetsMarker
<1>. QED  BY <1>1, <1>2, <1>3, <1>4, <1>5, <1>6 DEF InOrder

LEMMA DunnhumbyLayer3InOrder ==
    /\ InOrder(Programs.dunnhumby_layer3)
    /\ Len(Programs.dunnhumby_layer3) = 6 /\ DOMAIN Programs.dunnhumby_layer3 = 1..6
    /\ ~SetsMarker(Programs.dunnhumby_layer3)
<1> DEFINE P == DunnhumbyLayer3
<1>1. /\ Len(P) = 6 /\ DOMAIN P = 1..6
      /\ P[1] = <<"open", 0>> /\ P[2] = <<"insert", 1>> /\ P[3] = <<"predict", 1>>
      /\ P[4] = <<"reveal", 1>> /\ P[5] = <<"evaluate", 1>> /\ P[6] = <<"close", 0>>
  BY DEF DunnhumbyLayer3
<1>2. Programs.dunnhumby_layer3 = P
  BY DEF Programs
<1>. HIDE DEF P
<1>3. RowsInOrder(P)
  <2>1. ASSUME NEW i \in DOMAIN P, NEW b \in Batches, P[i] \in RowSteps(b) \cup {<<"evaluate", b>>}
        PROVE  <<"open", 0>> \in StepsBefore(P, i) /\ <<"close", 0>> \notin StepsBefore(P, i)
    BY SMTT(20), <1>1, <2>1 DEF StepsBefore, RowSteps, Batches
  <2>2. ASSUME NEW i \in DOMAIN P, NEW b \in Batches, P[i] \in {<<"append", b>>, <<"insert", b>>}
        PROVE  RowSteps(b) \cap StepsBefore(P, i) = {}
    <3>1. ASSUME NEW j \in 1..(i - 1)
          PROVE  P[j] \notin RowSteps(b)
      BY SMTT(20), <1>1, <2>2 DEF RowSteps, Batches
    <3>. QED  BY <3>1 DEF StepsBefore
  <2>3. ASSUME NEW i \in DOMAIN P, NEW b \in Batches, P[i] = <<"append", b>>
        PROVE  <<"predict", b>> \in StepsBefore(P, i)
    BY SMTT(20), <1>1, <2>3 DEF StepsBefore, Batches
  <2>4. ASSUME NEW i \in DOMAIN P, NEW b \in Batches, P[i] = <<"predict", b>>
        PROVE  <<"close", 0>> \notin StepsBefore(P, i)
    BY SMTT(20), <1>1, <2>4 DEF StepsBefore, Batches
  <2>5. ASSUME NEW i \in DOMAIN P, NEW b \in Batches, P[i] = <<"reveal", b>>
        PROVE  <<"insert", b>> \in StepsBefore(P, i)
    BY SMTT(20), <1>1, <2>5 DEF StepsBefore, Batches
  <2>. QED  BY <2>1, <2>2, <2>3, <2>4, <2>5 DEF RowsInOrder, RowSteps
<1>4. LedgerInOrder(P)
  BY SMTT(20), <1>1 DEF LedgerInOrder, StepsBefore, Batches
<1>5. StepsInOrder(P)
  <2>1. \A i \in DOMAIN P : P[i] \in PlainSteps \/ \E b \in Batches : P[i] \in BatchSteps(b)
    BY SMTT(20), <1>1 DEF PlainSteps, BatchSteps, RowSteps, Batches
  <2>2. ASSUME NEW i \in DOMAIN P, P[i] \in {<<"freeze", 0>>, <<"frozen", 0>>}, NEW b \in Batches
        PROVE  <<"reveal", b>> \notin StepsBefore(P, i)
    BY SMTT(20), <1>1, <2>2 DEF StepsBefore
  <2>3. ASSUME NEW i \in DOMAIN P, P[i] = <<"unlink", 0>>, NEW j \in DOMAIN P, NEW k \in DOMAIN P,
               NEW b \in Batches, P[j] = <<"mark", 0>>, P[k] = <<"reveal", b>>
        PROVE  j < k
    BY SMTT(20), <1>1, <2>3
  <2>. QED  BY <2>1, <2>2, <2>3 DEF StepsInOrder
<1>6. ~SetsMarker(P)
  BY SMTT(20), <1>1 DEF SetsMarker
<1>. QED  BY <1>1, <1>2, <1>3, <1>4, <1>5, <1>6 DEF InOrder

LEMMA SyntheticLayer3InOrder ==
    /\ InOrder(Programs.synthetic_layer3)
    /\ Len(Programs.synthetic_layer3) = 8 /\ DOMAIN Programs.synthetic_layer3 = 1..8
    /\ ~SetsMarker(Programs.synthetic_layer3)
<1> DEFINE P == SyntheticLayer3
<1>1. /\ Len(P) = 8 /\ DOMAIN P = 1..8
      /\ P[1] = <<"open", 0>> /\ P[2] = <<"insert", 1>> /\ P[3] = <<"reveal", 1>>
      /\ P[4] = <<"evaluate", 1>> /\ P[5] = <<"insert", 2>> /\ P[6] = <<"reveal", 2>>
      /\ P[7] = <<"evaluate", 2>> /\ P[8] = <<"close", 0>>
  BY DEF SyntheticLayer3
<1>2. Programs.synthetic_layer3 = P
  BY DEF Programs
<1>. HIDE DEF P
<1>3. RowsInOrder(P)
  <2>1. ASSUME NEW i \in DOMAIN P, NEW b \in Batches, P[i] \in RowSteps(b) \cup {<<"evaluate", b>>}
        PROVE  <<"open", 0>> \in StepsBefore(P, i) /\ <<"close", 0>> \notin StepsBefore(P, i)
    BY SMTT(20), <1>1, <2>1 DEF StepsBefore, RowSteps, Batches
  <2>2. ASSUME NEW i \in DOMAIN P, NEW b \in Batches, P[i] \in {<<"append", b>>, <<"insert", b>>}
        PROVE  RowSteps(b) \cap StepsBefore(P, i) = {}
    <3>1. ASSUME NEW j \in 1..(i - 1)
          PROVE  P[j] \notin RowSteps(b)
      BY SMTT(20), <1>1, <2>2 DEF RowSteps, Batches
    <3>. QED  BY <3>1 DEF StepsBefore
  <2>3. ASSUME NEW i \in DOMAIN P, NEW b \in Batches, P[i] = <<"append", b>>
        PROVE  <<"predict", b>> \in StepsBefore(P, i)
    BY SMTT(20), <1>1, <2>3 DEF StepsBefore, Batches
  <2>4. ASSUME NEW i \in DOMAIN P, NEW b \in Batches, P[i] = <<"predict", b>>
        PROVE  <<"close", 0>> \notin StepsBefore(P, i)
    BY SMTT(20), <1>1, <2>4 DEF StepsBefore, Batches
  <2>5. ASSUME NEW i \in DOMAIN P, NEW b \in Batches, P[i] = <<"reveal", b>>
        PROVE  <<"insert", b>> \in StepsBefore(P, i)
    BY SMTT(20), <1>1, <2>5 DEF StepsBefore, Batches
  <2>. QED  BY <2>1, <2>2, <2>3, <2>4, <2>5 DEF RowsInOrder, RowSteps
<1>4. LedgerInOrder(P)
  BY SMTT(20), <1>1 DEF LedgerInOrder, StepsBefore, Batches
<1>5. StepsInOrder(P)
  <2>1. \A i \in DOMAIN P : P[i] \in PlainSteps \/ \E b \in Batches : P[i] \in BatchSteps(b)
    BY SMTT(20), <1>1 DEF PlainSteps, BatchSteps, RowSteps, Batches
  <2>2. ASSUME NEW i \in DOMAIN P, P[i] \in {<<"freeze", 0>>, <<"frozen", 0>>}, NEW b \in Batches
        PROVE  <<"reveal", b>> \notin StepsBefore(P, i)
    BY SMTT(20), <1>1, <2>2 DEF StepsBefore
  <2>3. ASSUME NEW i \in DOMAIN P, P[i] = <<"unlink", 0>>, NEW j \in DOMAIN P, NEW k \in DOMAIN P,
               NEW b \in Batches, P[j] = <<"mark", 0>>, P[k] = <<"reveal", b>>
        PROVE  j < k
    BY SMTT(20), <1>1, <2>3
  <2>. QED  BY <2>1, <2>2, <2>3 DEF StepsInOrder
<1>6. ~SetsMarker(P)
  BY SMTT(20), <1>1 DEF SetsMarker
<1>. QED  BY <1>1, <1>2, <1>3, <1>4, <1>5, <1>6 DEF InOrder

LEMMA RealTwinInOrder ==
    /\ InOrder(Programs.real_twin)
    /\ Len(Programs.real_twin) = 5 /\ DOMAIN Programs.real_twin = 1..5
    /\ ~SetsMarker(Programs.real_twin)
<1> DEFINE P == RealTwinFreeze \o RealTwinScore
<1>1. /\ Len(P) = 5 /\ DOMAIN P = 1..5
      /\ P[1] = <<"open", 0>> /\ P[2] = <<"insert_new", 1>> /\ P[3] = <<"predict", 1>>
      /\ P[4] = <<"reveal", 1>> /\ P[5] = <<"close", 0>>
  BY DEF RealTwinFreeze, RealTwinScore
<1>2. Programs.real_twin = P
  BY DEF Programs
<1>. HIDE DEF P
<1>3. RowsInOrder(P)
  <2>1. ASSUME NEW i \in DOMAIN P, NEW b \in Batches, P[i] \in RowSteps(b) \cup {<<"evaluate", b>>}
        PROVE  <<"open", 0>> \in StepsBefore(P, i) /\ <<"close", 0>> \notin StepsBefore(P, i)
    BY SMTT(20), <1>1, <2>1 DEF StepsBefore, RowSteps, Batches
  <2>2. ASSUME NEW i \in DOMAIN P, NEW b \in Batches, P[i] \in {<<"append", b>>, <<"insert", b>>}
        PROVE  RowSteps(b) \cap StepsBefore(P, i) = {}
    <3>1. ASSUME NEW j \in 1..(i - 1)
          PROVE  P[j] \notin RowSteps(b)
      BY SMTT(20), <1>1, <2>2 DEF RowSteps, Batches
    <3>. QED  BY <3>1 DEF StepsBefore
  <2>3. ASSUME NEW i \in DOMAIN P, NEW b \in Batches, P[i] = <<"append", b>>
        PROVE  <<"predict", b>> \in StepsBefore(P, i)
    BY SMTT(20), <1>1, <2>3 DEF StepsBefore, Batches
  <2>4. ASSUME NEW i \in DOMAIN P, NEW b \in Batches, P[i] = <<"predict", b>>
        PROVE  <<"close", 0>> \notin StepsBefore(P, i)
    BY SMTT(20), <1>1, <2>4 DEF StepsBefore, Batches
  <2>5. ASSUME NEW i \in DOMAIN P, NEW b \in Batches, P[i] = <<"reveal", b>>
        PROVE  <<"insert_new", b>> \in StepsBefore(P, i)
    BY SMTT(20), <1>1, <2>5 DEF StepsBefore, Batches
  <2>. QED  BY <2>1, <2>2, <2>3, <2>4, <2>5 DEF RowsInOrder, RowSteps
<1>4. LedgerInOrder(P)
  BY SMTT(20), <1>1 DEF LedgerInOrder, StepsBefore, Batches
<1>5. StepsInOrder(P)
  <2>1. \A i \in DOMAIN P : P[i] \in PlainSteps \/ \E b \in Batches : P[i] \in BatchSteps(b)
    BY SMTT(20), <1>1 DEF PlainSteps, BatchSteps, RowSteps, Batches
  <2>2. ASSUME NEW i \in DOMAIN P, P[i] \in {<<"freeze", 0>>, <<"frozen", 0>>}, NEW b \in Batches
        PROVE  <<"reveal", b>> \notin StepsBefore(P, i)
    BY SMTT(20), <1>1, <2>2 DEF StepsBefore
  <2>3. ASSUME NEW i \in DOMAIN P, P[i] = <<"unlink", 0>>, NEW j \in DOMAIN P, NEW k \in DOMAIN P,
               NEW b \in Batches, P[j] = <<"mark", 0>>, P[k] = <<"reveal", b>>
        PROVE  j < k
    BY SMTT(20), <1>1, <2>3
  <2>. QED  BY <2>1, <2>2, <2>3 DEF StepsInOrder
<1>6. ~SetsMarker(P)
  BY SMTT(20), <1>1 DEF SetsMarker
<1>. QED  BY <1>1, <1>2, <1>3, <1>4, <1>5, <1>6 DEF InOrder

LEMMA HMDay1DevelopmentInOrder ==
    /\ InOrder(Developments.hm_day1)
    /\ Len(Developments.hm_day1) = 1 /\ DOMAIN Developments.hm_day1 = 1..1
    /\ \A i \in 1..1 : Developments.hm_day1[i] \in {<<"unmarked", 0>>, <<"freeze", 0>>}
<1> DEFINE P == HMDay1Development
<1>1. /\ Len(P) = 1 /\ DOMAIN P = 1..1
      /\ P[1] = <<"freeze", 0>>
  BY DEF HMDay1Development
<1>2. Developments.hm_day1 = P
  BY DEF Developments
<1>. HIDE DEF P
<1>3. RowsInOrder(P)
  BY SMTT(20), <1>1 DEF RowsInOrder, StepsBefore, RowSteps, Batches
<1>4. LedgerInOrder(P)
  BY SMTT(20), <1>1 DEF LedgerInOrder, StepsBefore, Batches
<1>5. StepsInOrder(P)
  <2>1. \A i \in DOMAIN P : P[i] \in PlainSteps \/ \E b \in Batches : P[i] \in BatchSteps(b)
    BY SMTT(20), <1>1 DEF PlainSteps, BatchSteps, RowSteps, Batches
  <2>2. ASSUME NEW i \in DOMAIN P, P[i] \in {<<"freeze", 0>>, <<"frozen", 0>>}, NEW b \in Batches
        PROVE  <<"reveal", b>> \notin StepsBefore(P, i)
    BY SMTT(20), <1>1, <2>2 DEF StepsBefore
  <2>3. ASSUME NEW i \in DOMAIN P, P[i] = <<"unlink", 0>>, NEW j \in DOMAIN P, NEW k \in DOMAIN P,
               NEW b \in Batches, P[j] = <<"mark", 0>>, P[k] = <<"reveal", b>>
        PROVE  j < k
    BY SMTT(20), <1>1, <2>3
  <2>. QED  BY <2>1, <2>2, <2>3 DEF StepsInOrder
<1>. QED  BY <1>1, <1>2, <1>3, <1>4, <1>5 DEF InOrder

LEMMA HMDay1V2DevelopmentInOrder ==
    /\ InOrder(Developments.hm_day1_v2)
    /\ Len(Developments.hm_day1_v2) = 3 /\ DOMAIN Developments.hm_day1_v2 = 1..3
    /\ MarksInOrder(Developments.hm_day1_v2)
    /\ \A i \in 1..3 : Developments.hm_day1_v2[i] \in {<<"unmarked", 0>>, <<"freeze", 0>>}
<1> DEFINE P == HMDay1V2Development
<1>1. /\ Len(P) = 3 /\ DOMAIN P = 1..3
      /\ P[1] = <<"unmarked", 0>> /\ P[2] = <<"unmarked", 0>> /\ P[3] = <<"freeze", 0>>
  BY DEF HMDay1V2Development
<1>2. Developments.hm_day1_v2 = P
  BY DEF Developments
<1>. HIDE DEF P
<1>3. RowsInOrder(P)
  BY SMTT(20), <1>1 DEF RowsInOrder, StepsBefore, RowSteps, Batches
<1>4. LedgerInOrder(P)
  BY SMTT(20), <1>1 DEF LedgerInOrder, StepsBefore, Batches
<1>5. StepsInOrder(P)
  <2>1. \A i \in DOMAIN P : P[i] \in PlainSteps \/ \E b \in Batches : P[i] \in BatchSteps(b)
    BY SMTT(20), <1>1 DEF PlainSteps, BatchSteps, RowSteps, Batches
  <2>2. ASSUME NEW i \in DOMAIN P, P[i] \in {<<"freeze", 0>>, <<"frozen", 0>>}, NEW b \in Batches
        PROVE  <<"reveal", b>> \notin StepsBefore(P, i)
    BY SMTT(20), <1>1, <2>2 DEF StepsBefore
  <2>3. ASSUME NEW i \in DOMAIN P, P[i] = <<"unlink", 0>>, NEW j \in DOMAIN P, NEW k \in DOMAIN P,
               NEW b \in Batches, P[j] = <<"mark", 0>>, P[k] = <<"reveal", b>>
        PROVE  j < k
    BY SMTT(20), <1>1, <2>3
  <2>. QED  BY <2>1, <2>2, <2>3 DEF StepsInOrder
<1>6. MarksInOrder(P)
  BY SMTT(20), <1>1 DEF MarksInOrder, StepsBefore, RowSteps, Batches
<1>. QED  BY <1>1, <1>2, <1>3, <1>4, <1>5, <1>6 DEF InOrder

LEMMA JDBehavioralDevelopmentInOrder ==
    /\ InOrder(Developments.jdsearch_behavioral)
    /\ Len(Developments.jdsearch_behavioral) = 2 /\ DOMAIN Developments.jdsearch_behavioral = 1..2
    /\ MarksInOrder(Developments.jdsearch_behavioral)
    /\ \A i \in 1..2 : Developments.jdsearch_behavioral[i] \in {<<"unmarked", 0>>, <<"freeze", 0>>}
<1> DEFINE P == JDBehavioralDevelopment
<1>1. /\ Len(P) = 2 /\ DOMAIN P = 1..2
      /\ P[1] = <<"unmarked", 0>> /\ P[2] = <<"freeze", 0>>
  BY DEF JDBehavioralDevelopment
<1>2. Developments.jdsearch_behavioral = P
  BY DEF Developments
<1>. HIDE DEF P
<1>3. RowsInOrder(P)
  BY SMTT(20), <1>1 DEF RowsInOrder, StepsBefore, RowSteps, Batches
<1>4. LedgerInOrder(P)
  BY SMTT(20), <1>1 DEF LedgerInOrder, StepsBefore, Batches
<1>5. StepsInOrder(P)
  <2>1. \A i \in DOMAIN P : P[i] \in PlainSteps \/ \E b \in Batches : P[i] \in BatchSteps(b)
    BY SMTT(20), <1>1 DEF PlainSteps, BatchSteps, RowSteps, Batches
  <2>2. ASSUME NEW i \in DOMAIN P, P[i] \in {<<"freeze", 0>>, <<"frozen", 0>>}, NEW b \in Batches
        PROVE  <<"reveal", b>> \notin StepsBefore(P, i)
    BY SMTT(20), <1>1, <2>2 DEF StepsBefore
  <2>3. ASSUME NEW i \in DOMAIN P, P[i] = <<"unlink", 0>>, NEW j \in DOMAIN P, NEW k \in DOMAIN P,
               NEW b \in Batches, P[j] = <<"mark", 0>>, P[k] = <<"reveal", b>>
        PROVE  j < k
    BY SMTT(20), <1>1, <2>3
  <2>. QED  BY <2>1, <2>2, <2>3 DEF StepsInOrder
<1>6. MarksInOrder(P)
  BY SMTT(20), <1>1 DEF MarksInOrder, StepsBefore, RowSteps, Batches
<1>. QED  BY <1>1, <1>2, <1>3, <1>4, <1>5, <1>6 DEF InOrder

(* What all programs have in common.                                       *)

Developing == {<<"unmarked", 0>>, <<"freeze", 0>>}

LEMMA ProgramsInOrder ==
    ASSUME NEW x \in DOMAIN Programs
    PROVE  /\ InOrder(Programs[x]) /\ Len(Programs[x]) \in 3..13 /\ DOMAIN Programs[x] = 1..Len(Programs[x])
           /\ SetsMarker(Programs[x]) /\ x # "hm_day1" => MarksInOrder(Programs[x])
           /\ x \in {"criteo", "hillstrom_economic"} => FilesInOrder(Programs[x])
           /\ x = "hm_day1" => 12 \in DOMAIN Programs[x] /\ Programs[x][12] = <<"close", 0>>
<1>1. x \in {"population_v1", "population_v2", "population_v3", "hillstrom_economic", "criteo", "hm_day1",
             "hm_day1_v2", "jdsearch_behavioral", "jdsearch_dynamics", "retailrocket", "dunnhumby",
             "hillstrom_rct", "dunnhumby_layer3", "synthetic_layer3", "real_twin"}
  BY DEF Programs
<1>2. CASE x = "population_v1" BY <1>2, PopulationV1InOrder
<1>3. CASE x = "population_v2" BY <1>3, PopulationV2InOrder
<1>4. CASE x = "population_v3" BY <1>4, PopulationV3InOrder
<1>5. CASE x = "hillstrom_economic" BY <1>5, HillstromEconomicInOrder
<1>6. CASE x = "criteo" BY <1>6, CriteoInOrder
<1>7. CASE x = "hm_day1" BY <1>7, HMDay1InOrder
<1>8. CASE x = "hm_day1_v2" BY <1>8, HMDay1V2InOrder
<1>9. CASE x = "jdsearch_behavioral" BY <1>9, JDBehavioralInOrder
<1>10. CASE x = "jdsearch_dynamics" BY <1>10, JDDynamicsInOrder
<1>11. CASE x = "retailrocket" BY <1>11, RetailRocketInOrder
<1>12. CASE x = "dunnhumby" BY <1>12, DunnhumbyInOrder
<1>13. CASE x = "hillstrom_rct" BY <1>13, HillstromRctInOrder
<1>14. CASE x = "dunnhumby_layer3" BY <1>14, DunnhumbyLayer3InOrder
<1>15. CASE x = "synthetic_layer3" BY <1>15, SyntheticLayer3InOrder
<1>16. CASE x = "real_twin" BY <1>16, RealTwinInOrder
<1>. QED  BY <1>1, <1>2, <1>3, <1>4, <1>5, <1>6, <1>7, <1>8, <1>9, <1>10, <1>11, <1>12, <1>13, <1>14,
             <1>15, <1>16

LEMMA DevelopmentsInOrder ==
    ASSUME NEW x \in DOMAIN Developments
    PROVE  /\ InOrder(Developments[x]) /\ Len(Developments[x]) \in 1..3
           /\ DOMAIN Developments[x] = 1..Len(Developments[x])
           /\ x # "hm_day1" => MarksInOrder(Developments[x])
           /\ \A i \in DOMAIN Developments[x] : Developments[x][i] \in Developing
<1>1. x \in {"hm_day1", "hm_day1_v2", "jdsearch_behavioral"}
  BY DEF Developments
<1>2. CASE x = "hm_day1" BY <1>2, HMDay1DevelopmentInOrder DEF Developing
<1>3. CASE x = "hm_day1_v2" BY <1>3, HMDay1V2DevelopmentInOrder DEF Developing
<1>4. CASE x = "jdsearch_behavioral" BY <1>4, JDBehavioralDevelopmentInOrder DEF Developing
<1>. QED  BY <1>1, <1>2, <1>3, <1>4

\* The program of a run.
LEMMA RunsInOrder ==
    ASSUME RunTypes, NEW p \in Processes
    PROVE  /\ InOrder(ProgramOf(p)) /\ DOMAIN ProgramOf(p) = 1..Len(ProgramOf(p))
           /\ Len(ProgramOf(p)) \in 1..Len(Program) /\ Len(Program) \in Nat
           /\ process[p].at \in 0..Len(ProgramOf(p))
           /\ ProgramOf(p) = Program \/ \A i \in DOMAIN ProgramOf(p) : ProgramOf(p)[i] \in Developing
           /\ Marked /\ bench # "hm_day1" => MarksInOrder(ProgramOf(p))
           /\ bench = "hm_day1" => ~DeletesLedger
<1>1. /\ bench \in DOMAIN Programs /\ process[p].at \in 0..Len(Program) /\ process[p].at <= Len(ProgramOf(p))
      /\ process[p].mode = "dev" => bench \in DOMAIN Developments
  BY DEF RunTypes, RunsTyped, FrozenTypeOK
<1>2. /\ InOrder(Program) /\ Len(Program) \in 3..13 /\ DOMAIN Program = 1..Len(Program)
      /\ Marked /\ bench # "hm_day1" => MarksInOrder(Program)
      /\ bench = "hm_day1" => \E i \in DOMAIN Program : Program[i] = <<"close", 0>>
  BY <1>1, ProgramsInOrder DEF Program, Marked, SetsMarker
<1>3. bench = "hm_day1" => ~DeletesLedger
  <2> SUFFICES ASSUME bench = "hm_day1", NEW j \in DOMAIN Program, Program[j][1] = "unlink"
               PROVE  FALSE
    BY DEF DeletesLedger
  <2>1. Program[j] # <<"unlink", 0>>
    BY <1>2 DEF InOrder, LedgerInOrder
  <2>2. Program[j] \in PlainSteps \/ \E b \in Batches : Program[j] \in BatchSteps(b)
    BY <1>2 DEF InOrder, StepsInOrder
  <2>. QED  BY <2>1, <2>2 DEF PlainSteps, BatchSteps, RowSteps
<1>4. CASE process[p].mode # "dev"
  BY <1>1, <1>2, <1>3, <1>4 DEF ProgramOf
<1>5. CASE process[p].mode = "dev"
  <2>1. ProgramOf(p) = Developments[bench] /\ bench \in DOMAIN Developments
    BY <1>1, <1>5 DEF ProgramOf
  <2>2. /\ InOrder(ProgramOf(p)) /\ DOMAIN ProgramOf(p) = 1..Len(ProgramOf(p)) /\ Len(ProgramOf(p)) \in 1..3
        /\ bench # "hm_day1" => MarksInOrder(ProgramOf(p))
        /\ \A i \in DOMAIN ProgramOf(p) : ProgramOf(p)[i] \in Developing
    BY <2>1, DevelopmentsInOrder
  <2>3. Len(ProgramOf(p)) \in 1..Len(Program) /\ process[p].at \in 0..Len(ProgramOf(p)) /\ Len(Program) \in Nat
    BY <1>1, <1>2, <2>2
  <2>. QED  BY <1>3, <2>2, <2>3
<1>. QED  BY <1>4, <1>5

(* What a run has done when it comes to a step.                            *)

LEMMA DoneBefore ==
    ASSUME RunTypes, NEW p \in Processes
    PROVE  /\ ~Running(p) => DoneBy(p) = {}
           /\ \A b \in Batches : HasRow(p, b) => <<"open", 0>> \in DoneBy(p) /\ (FreshIds => HasOpen(p))
           /\ \A b \in Batches : LocksFirst /\ <<"predict", b>> \in DoneBy(p) => <<"open", 0>> \in DoneBy(p)
           /\ <<"close", 0>> \in DoneBy(p) => ~DeletesLedger
<1> DEFINE P == ProgramOf(p)
           n == process[p].at
<1>1. /\ InOrder(P) /\ DOMAIN P = 1..Len(P) /\ Len(P) \in Nat /\ n \in 0..Len(P)
      /\ P = Program \/ \A i \in DOMAIN P : P[i] \in Developing
  BY RunsInOrder
<1>2. \A s : s \in DoneBy(p) <=> \E j \in 1..(n - 1) : P[j] = s
  BY DEF DoneBy, StepsBefore
<1>3. ~Running(p) => DoneBy(p) = {}
  BY <1>1, <1>2 DEF Running
<1>. HIDE DEF P, n
<1>4. ASSUME NEW j \in 1..(n - 1)
      PROVE  j \in DOMAIN P /\ j # Len(P) /\ \A k \in 1..(j - 1) : P[k] \in DoneBy(p)
  <2>1. j \in 1..Len(P) /\ j < Len(P) /\ \A k \in 1..(j - 1) : k \in 1..(n - 1)
    BY <1>1
  <2>2. \A k \in 1..(j - 1) : P[k] \in DoneBy(p)
    BY <1>2, <2>1
  <2>3. j \in 1..Len(P) /\ DOMAIN P = 1..Len(P)
    BY <1>1, <2>1
  <2>4. j \in DOMAIN P
    BY <2>3, Zenon
  <2>5. j # Len(P)
    <3>1. \A l \in Nat : j < l => j # l
      OBVIOUS
    <3>. QED  BY <1>1, <2>1, <3>1, Zenon
  <2>. QED  BY <2>2, <2>4, <2>5
<1>5. ASSUME NEW s \in DoneBy(p), s \notin Developing
      PROVE  \E j \in 1..(n - 1) : P[j] = s /\ Program = P
  <2>1. PICK j \in 1..(n - 1) : P[j] = s
    BY <1>2
  <2>2. j \in DOMAIN P
    BY <1>4
  <2>. QED  BY <1>1, <1>5, <2>1, <2>2
<1>6. ASSUME NEW b \in Batches, HasRow(p, b)
      PROVE  <<"open", 0>> \in DoneBy(p)
  <2>1. PICK j \in 1..(n - 1) : P[j] \in RowSteps(b)
    BY <1>2, <1>6 DEF HasRow
  <2>2. <<"open", 0>> \in StepsBefore(P, j)
    BY <1>1, <1>4, <2>1 DEF InOrder, RowsInOrder
  <2>. QED  BY <1>4, <2>1, <2>2 DEF StepsBefore
<1>7. ASSUME NEW b \in Batches, HasRow(p, b), FreshIds
      PROVE  HasOpen(p)
  <2> SUFFICES ASSUME <<"close", 0>> \in DoneBy(p)
               PROVE  FALSE
    BY <1>6, <1>7 DEF HasOpen
  <2>1. PICK j \in 1..(n - 1) : P[j] = <<"close", 0>> /\ Program = P
    BY <1>5 DEF Developing
  <2>2. PICK i \in DOMAIN P : P[i][1] = "insert_new"
    BY <1>7, <2>1 DEF FreshIds
  <2>3. \E c \in Batches : P[i] = <<"insert_new", c>>
    <3>1. P[i] \in PlainSteps \/ \E c \in Batches : P[i] \in BatchSteps(c)
      BY <1>1 DEF InOrder, StepsInOrder
    <3>. QED  BY <2>2, <3>1 DEF PlainSteps, BatchSteps, RowSteps
  <2>. QED  BY <1>1, <1>4, <2>1, <2>3 DEF InOrder, LedgerInOrder
<1>8. ASSUME NEW b \in Batches, LocksFirst, <<"predict", b>> \in DoneBy(p)
      PROVE  <<"open", 0>> \in DoneBy(p)
  <2>1. PICK j \in 1..(n - 1) : P[j] = <<"predict", b>> /\ Program = P
    BY <1>5, <1>8 DEF Developing
  <2>2. PICK k \in 1..(j - 1) : P[k][1] = "open"
    BY <1>4, <1>8, <2>1 DEF LocksFirst
  <2>3. P[k] = <<"open", 0>>
    <3>1. k \in DOMAIN P
      <4>1. k \in 1..(j - 1) /\ j \in 1..Len(P)
        BY <1>1, <1>4, <2>2
      <4>. QED  BY <1>1, <4>1
    <3>2. P[k] \in PlainSteps \/ \E c \in Batches : P[k] \in BatchSteps(c)
      BY <1>1, <3>1 DEF InOrder, StepsInOrder
    <3>. QED  BY <2>2, <3>2 DEF PlainSteps, BatchSteps, RowSteps
  <2>. QED  BY <1>4, <2>2, <2>3
<1>9. ASSUME <<"close", 0>> \in DoneBy(p)
      PROVE  ~DeletesLedger
  <2>1. PICK j \in 1..(n - 1) : P[j] = <<"close", 0>> /\ Program = P
    BY <1>5, <1>9 DEF Developing
  <2>2. \A i \in DOMAIN P : P[i] # <<"unlink", 0>>
    BY <1>1, <1>4, <2>1 DEF InOrder, LedgerInOrder
  <2>3. \A i \in DOMAIN P : P[i] \in PlainSteps \/ \E c \in Batches : P[i] \in BatchSteps(c)
    BY <1>1 DEF InOrder, StepsInOrder
  <2>. QED  BY <2>1, <2>2, <2>3 DEF DeletesLedger, PlainSteps, BatchSteps, RowSteps
<1>. QED  BY <1>3, <1>6, <1>7, <1>8, <1>9

\* A step that a run takes is one of its program, and the steps before it are done.
LEMMA TakesIs ==
    ASSUME RunTypes, NEW p \in Processes, NEW what, NEW b, Takes(p, what, b)
    PROVE  /\ process[p].at \in DOMAIN ProgramOf(p) /\ ProgramOf(p)[process[p].at] = <<what, b>>
           /\ DoneBy(p) = StepsBefore(ProgramOf(p), process[p].at)
           /\ <<what, b>> \notin Developing => ProgramOf(p) = Program
<1>1. process[p].at \in 1..Len(ProgramOf(p)) /\ ProgramOf(p)[process[p].at] = <<what, b>>
  BY RunsInOrder DEF Takes
<1>. QED  BY <1>1, RunsInOrder DEF DoneBy

LEMMA RowsBefore ==
    ASSUME RunTypes, NEW p \in Processes, NEW what, NEW b \in Batches, Takes(p, what, b)
    PROVE  /\ <<what, b>> \in RowSteps(b) \cup {<<"evaluate", b>>} => HasOpen(p)
           /\ <<what, b>> \in {<<"append", b>>, <<"insert", b>>} => ~HasRow(p, b)
           /\ <<what, b>> = <<"append", b>> => <<"predict", b>> \in DoneBy(p)
           /\ <<what, b>> = <<"predict", b>> => <<"close", 0>> \notin DoneBy(p)
           /\ <<what, b>> = <<"reveal", b>> => HasRow(p, b)
<1> DEFINE i == process[p].at
           P == ProgramOf(p)
<1>1. i \in DOMAIN P /\ P[i] = <<what, b>> /\ DoneBy(p) = StepsBefore(P, i) /\ RowsInOrder(P)
  BY TakesIs, RunsInOrder DEF InOrder
<1>. HIDE DEF P, i
<1>. QED  BY <1>1 DEF RowsInOrder, HasOpen, HasRow

LEMMA RowTakes ==
    ASSUME RunTypes, NEW p \in Processes, NEW b \in Batches
    PROVE  /\ Takes(p, "append", b) \/ Takes(p, "insert", b) \/ Takes(p, "insert_new", b) \/ Takes(p, "evaluate", b)
                  => HasOpen(p)
           /\ Takes(p, "append", b) \/ Takes(p, "insert", b) => ~HasRow(p, b)
           /\ Takes(p, "append", b) => <<"predict", b>> \in DoneBy(p)
           /\ Takes(p, "insert_new", b) => FreshIds
           /\ Takes(p, "predict", b) => <<"close", 0>> \notin DoneBy(p) /\ (LocksFirst => HasOpen(p))
<1>1. InOrder(ProgramOf(p))
  BY RunsInOrder
<1>2. Takes(p, "append", b) \/ Takes(p, "insert", b) \/ Takes(p, "insert_new", b) \/ Takes(p, "evaluate", b)
          => HasOpen(p)
  BY RowsBefore DEF RowSteps
<1>3. Takes(p, "append", b) \/ Takes(p, "insert", b) => ~HasRow(p, b)
  BY RowsBefore
<1>4. Takes(p, "append", b) => <<"predict", b>> \in DoneBy(p)
  BY RowsBefore
<1>5. Takes(p, "insert_new", b) => FreshIds
  BY TakesIs DEF FreshIds, Developing
<1>6. Takes(p, "predict", b) => <<"close", 0>> \notin DoneBy(p)
  BY RowsBefore
<1>7. ASSUME Takes(p, "predict", b), LocksFirst
      PROVE  <<"open", 0>> \in DoneBy(p)
  <2> DEFINE i == process[p].at
             P == Program
  <2>1. i \in DOMAIN P /\ P[i] = <<"predict", b>> /\ DoneBy(p) = StepsBefore(P, i) /\ InOrder(P) /\ ProgramOf(p) = P
    BY <1>1, <1>7, TakesIs DEF Developing
  <2>2. DOMAIN P = 1..Len(P) /\ Len(P) \in Nat
    BY <2>1, RunsInOrder
  <2>3. PICK k \in 1..(i - 1) : P[k][1] = "open"
    BY <1>7, <2>1 DEF LocksFirst
  <2>. HIDE DEF P, i
  <2>4. i \in 1..Len(P)
    BY <2>1, <2>2, Zenon
  <2>5. k \in 1..Len(P)
    BY <2>2, <2>3, <2>4
  <2>6. P[k] \in PlainSteps \/ \E c \in Batches : P[k] \in BatchSteps(c)
    BY <2>1, <2>2, <2>5 DEF InOrder, StepsInOrder
  <2>7. P[k] = <<"open", 0>>
    BY <2>3, <2>6 DEF PlainSteps, BatchSteps, RowSteps
  <2>. QED  BY <2>1, <2>3, <2>7 DEF StepsBefore
<1>. QED  BY <1>2, <1>3, <1>4, <1>5, <1>6, <1>7 DEF HasOpen

LEMMA PlainTakes ==
    ASSUME RunTypes, NEW p \in Processes
    PROVE  /\ Takes(p, "unlink", 0) => DeletesLedger /\ <<"open", 0>> \notin DoneBy(p)
           /\ Takes(p, "open", 0) => <<"close", 0>> \notin DoneBy(p)
           /\ Takes(p, "freeze", 0) \/ Takes(p, "frozen", 0) => \A c \in Batches : <<"reveal", c>> \notin DoneBy(p)
           /\ Takes(p, "freeze", 0) \/ Takes(p, "mark", 0) =>
                  (Marked /\ bench # "hm_day1" => <<"unmarked", 0>> \in DoneBy(p) /\ <<"mark", 0>> \notin DoneBy(p))
           /\ Takes(p, "mark", 0) => Marked /\ (bench # "hm_day1" => Selected(p) /\ ~FreshIds)
<1>1. InOrder(ProgramOf(p)) /\ (Marked /\ bench # "hm_day1" => MarksInOrder(ProgramOf(p)))
  BY RunsInOrder
<1>2. Takes(p, "unlink", 0) => DeletesLedger /\ <<"open", 0>> \notin DoneBy(p)
  BY <1>1, TakesIs DEF InOrder, LedgerInOrder, DeletesLedger, Developing
<1>3. Takes(p, "open", 0) => <<"close", 0>> \notin DoneBy(p)
  BY <1>1, TakesIs DEF InOrder, LedgerInOrder
<1>4. Takes(p, "freeze", 0) \/ Takes(p, "frozen", 0) => \A c \in Batches : <<"reveal", c>> \notin DoneBy(p)
  BY <1>1, TakesIs DEF InOrder, StepsInOrder
<1>5. Takes(p, "freeze", 0) \/ Takes(p, "mark", 0) =>
          (Marked /\ bench # "hm_day1" => <<"unmarked", 0>> \in DoneBy(p) /\ <<"mark", 0>> \notin DoneBy(p))
  BY <1>1, TakesIs DEF MarksInOrder, Batches
<1>6. Takes(p, "mark", 0) => Marked
  BY TakesIs DEF Marked, Developing
<1>7. Takes(p, "mark", 0) /\ bench # "hm_day1" => Selected(p)
  BY <1>1, <1>6, TakesIs DEF MarksInOrder, Selected, Batches
<1>8. ASSUME Takes(p, "mark", 0), bench # "hm_day1", FreshIds
      PROVE  FALSE
  <2>1. ProgramOf(p) = Program /\ MarksInOrder(Program) /\ StepsInOrder(Program)
    BY <1>1, <1>6, <1>8, TakesIs DEF Developing, InOrder
  <2>2. PICK i \in DOMAIN Program : Program[i][1] = "insert_new"
    BY <1>8 DEF FreshIds
  <2>3. Program[i] \in PlainSteps \/ \E c \in Batches : Program[i] \in BatchSteps(c)
    BY <2>1 DEF StepsInOrder
  <2>4. \E c \in Batches : Program[i] = <<"insert_new", c>>
    BY <2>2, <2>3 DEF PlainSteps, BatchSteps, RowSteps
  <2>. QED  BY <2>1, <2>4 DEF MarksInOrder
<1>. QED  BY <1>2, <1>3, <1>4, <1>5, <1>6, <1>7, <1>8

LEMMA RevealTakes ==
    ASSUME RunTypes, NEW p \in Processes, NEW b \in Batches
    PROVE  /\ Takes(p, "reveal", b) =>
                  /\ Reveals(b) /\ HasRow(p, b)
                  /\ Marked /\ bench # "hm_day1" => Selected(p)
                  /\ Marked /\ DeletesLedger => <<"mark", 0>> \in DoneBy(p)
                  /\ bench \in {"criteo", "hillstrom_economic"} =>
                         <<"predict", b>> \in DoneBy(p) /\ <<"close", 0>> \notin DoneBy(p)
           /\ Takes(p, "mark", 0) /\ bench # "hm_day1" /\ Reveals(b) => HasRow(p, b)
<1>1. InOrder(ProgramOf(p)) /\ (Marked /\ bench # "hm_day1" => MarksInOrder(ProgramOf(p)))
  BY RunsInOrder
<1>2. ASSUME Takes(p, "reveal", b)
      PROVE  /\ Reveals(b) /\ HasRow(p, b)
             /\ Marked /\ bench # "hm_day1" => Selected(p)
  <2>1. Reveals(b)
    BY <1>2, TakesIs DEF Reveals, Developing
  <2>2. HasRow(p, b)
    BY <1>2, RowsBefore
  <2>3. Marked /\ bench # "hm_day1" => Selected(p)
    <3> DEFINE i == process[p].at
               P == ProgramOf(p)
    <3>1. i \in DOMAIN P /\ P[i] = <<"reveal", b>> /\ DoneBy(p) = StepsBefore(P, i)
      BY <1>2, TakesIs
    <3>2. Marked /\ bench # "hm_day1" => MarksInOrder(P)
      BY <1>1
    <3>. HIDE DEF P, i
    <3>. QED  BY <3>1, <3>2 DEF MarksInOrder, Selected
  <2>. QED  BY <2>1, <2>2, <2>3
<1>3. ASSUME Takes(p, "reveal", b), Marked, DeletesLedger
      PROVE  <<"mark", 0>> \in DoneBy(p)
  <2> DEFINE i == process[p].at
             P == Program
  <2>1. /\ i \in DOMAIN P /\ P[i] = <<"reveal", b>> /\ DoneBy(p) = StepsBefore(P, i)
        /\ StepsInOrder(P) /\ DOMAIN P = 1..Len(P) /\ Len(P) \in Nat
    BY <1>1, <1>3, TakesIs, RunsInOrder DEF Developing, InOrder
  <2>2. PICK k \in DOMAIN P : P[k][1] = "unlink"
    BY <1>3 DEF DeletesLedger
  <2>3. PICK j \in DOMAIN P : P[j][1] = "mark"
    BY <1>3 DEF Marked
  <2>. HIDE DEF P, i
  <2>4. P[k] = <<"unlink", 0>> /\ P[j] = <<"mark", 0>>
    <3>1. \A m \in DOMAIN P : P[m] \in PlainSteps \/ \E c \in Batches : P[m] \in BatchSteps(c)
      BY <2>1 DEF StepsInOrder
    <3>. QED  BY <2>2, <2>3, <3>1 DEF PlainSteps, BatchSteps, RowSteps
  <2>5. j < i
    BY <2>1, <2>4 DEF StepsInOrder
  <2>6. j \in 1..Len(P) /\ i \in 1..Len(P)
    BY <2>1, Zenon
  <2>7. j \in 1..(i - 1)
    BY <2>1, <2>5, <2>6
  <2>. QED  BY <2>1, <2>4, <2>7 DEF StepsBefore
<1>4. ASSUME Takes(p, "reveal", b), bench \in {"criteo", "hillstrom_economic"}
      PROVE  <<"predict", b>> \in DoneBy(p) /\ <<"close", 0>> \notin DoneBy(p)
  <2>1. FilesInOrder(Program)
    BY <1>4, ProgramsInOrder DEF Program, RunTypes, FrozenTypeOK
  <2>. QED  BY <1>4, <2>1, TakesIs DEF FilesInOrder, Developing
<1>5. ASSUME Takes(p, "mark", 0), bench # "hm_day1", Reveals(b)
      PROVE  HasRow(p, b)
  <2>1. /\ MarksInOrder(Program) /\ process[p].at \in DOMAIN Program /\ Program[process[p].at] = <<"mark", 0>>
        /\ DoneBy(p) = StepsBefore(Program, process[p].at)
    BY <1>1, <1>5, TakesIs, PlainTakes DEF Developing
  <2>. QED  BY <1>5, <2>1 DEF MarksInOrder, Reveals, HasRow
<1>. QED  BY <1>2, <1>3, <1>4, <1>5

(* What the actions do to the runs.                                        *)

RunRecords == [mode : {"dev", "final", "diagnostic"}, at : 0..Len(Program), version : 0..MaxRuns,
               has : 0..MaxRuns, config : 0..MaxRuns]
Others(p) == \A q \in Processes \ {p} : process'[q] = process[q] /\ DoneBy(q)' = DoneBy(q)
Gone(p) == process'[p] = Stopped /\ DoneBy(p)' = {}
Went(p, step, has, config) ==
    /\ process'[p].at # 0 /\ process'[p].at <= Len(ProgramOf(p)) /\ process'[p].mode = process[p].mode
    /\ process'[p].version = process[p].version /\ process'[p].has = has /\ process'[p].config = config
    /\ DoneBy(p)' = DoneBy(p) \cup {step}
\* The run goes on, or that was its last step.
Moved(p, step, has, config) ==
    /\ bench' = bench /\ Running(p) /\ process' \in [Processes -> RunRecords]
    /\ Others(p)
    /\ Gone(p) \/ Went(p, step, has, config)

LEMMA SameProgram ==
    ASSUME bench' = bench
    PROVE  /\ Program' = Program
           /\ DeletesLedger' = DeletesLedger /\ FreshIds' = FreshIds /\ Marked' = Marked /\ LocksFirst' = LocksFirst
           /\ \A b : Reveals(b)' = Reveals(b)
BY DEF Program, DeletesLedger, FreshIds, Marked, LocksFirst, Reveals

LEMMA StoppedIs ==
    Stopped.at = 0 /\ Stopped.has = 0 /\ Stopped.config = 0 /\ Stopped.version = 0 /\ Stopped.mode = "final"
BY DEF Stopped

LEMMA OthersStay ==
    ASSUME RunTypes, bench' = bench, NEW p \in Processes, NEW r, process' = [process EXCEPT ![p] = r]
    PROVE  Others(p) /\ process'[p] = r
<1>1. process \in [Processes -> RunRecords]
  BY DEF RunTypes, FrozenTypeOK, RunRecords
<1>2. \A q \in Processes \ {p} : process'[q] = process[q]
  BY <1>1
<1>3. \A q \in Processes \ {p} : DoneBy(q)' = DoneBy(q)
  BY <1>2, SameProgram DEF DoneBy, ProgramOf
<1>. QED  BY <1>1, <1>2, <1>3 DEF Others

LEMMA Moves ==
    ASSUME RunTypes, bench' = bench, NEW p \in Processes, NEW what, NEW b, Takes(p, what, b),
           NEW r \in RunRecords, r.at = process[p].at, r.mode = process[p].mode,
           r.version = process[p].version, process' = [process EXCEPT ![p] = After(p, r)]
    PROVE  Moved(p, <<what, b>>, r.has, r.config)
<1>1. process \in [Processes -> RunRecords]
  BY DEF RunTypes, FrozenTypeOK, RunRecords
<1>2. Running(p) /\ Others(p) /\ process'[p] = After(p, r)
  BY OthersStay DEF Takes, Running
<1>3. After(p, r) \in RunRecords /\ (Gone(p) \/ Went(p, <<what, b>>, r.has, r.config))
  <2> DEFINE P == ProgramOf(p)
             i == process[p].at
             t == [r EXCEPT !.at = @ + 1]
  <2>1. i \in 1..Len(P) /\ Len(P) \in 1..Len(Program) /\ Len(Program) \in Nat /\ P[i] = <<what, b>>
    BY RunsInOrder DEF Takes
  <2>2. CASE i = Len(P)
    <3>1. After(p, r) = Stopped
      BY <2>2 DEF After
    <3>2. Stopped \in RunRecords
      <4>1. 0 \in 0..Len(Program) /\ 0 \in 0..MaxRuns
        BY <2>1, FrozenAssumption
      <4>. QED  BY <4>1 DEF Stopped, RunRecords
    <3>3. DoneBy(p)' = {}
      <4>1. process'[p].at = 0
        BY <1>2, <3>1, StoppedIs
      <4>. QED  BY <4>1 DEF DoneBy, StepsBefore
    <3>. QED  BY <1>2, <3>1, <3>2, <3>3 DEF Gone
  <2>3. CASE i # Len(P)
    <3>1. After(p, r) = t
      BY <2>3 DEF After
    <3>2. i + 1 \in 0..Len(Program) /\ i + 1 # 0 /\ i + 1 <= Len(P)
      BY <2>1, <2>3
    <3>3. /\ t \in RunRecords /\ t.at = i + 1 /\ t.mode = r.mode /\ t.version = r.version
          /\ t.has = r.has /\ t.config = r.config
      BY <3>2 DEF RunRecords
    <3>4. DoneBy(p)' = DoneBy(p) \cup {<<what, b>>}
      <4>1. process'[p].at = i + 1 /\ ProgramOf(p)' = P
        BY <1>2, <3>1, <3>3, SameProgram DEF ProgramOf
      <4>2. DoneBy(p)' = StepsBefore(P, i + 1) /\ DoneBy(p) = StepsBefore(P, i)
        BY <4>1 DEF DoneBy, StepsBefore
      <4>. HIDE DEF P, i
      <4>3. \A j : j \in 1..(i + 1 - 1) <=> j \in 1..(i - 1) \/ j = i
        BY <2>1
      <4>4. StepsBefore(P, i + 1) = StepsBefore(P, i) \cup {P[i]}
        BY <4>3 DEF StepsBefore
      <4>. QED  BY <2>1, <4>2, <4>4
    <3>. QED  BY <1>2, <3>1, <3>2, <3>3, <3>4 DEF Went
  <2>. QED  BY <2>2, <2>3
<1>4. process' \in [Processes -> RunRecords]
  BY <1>1, <1>3
<1>. QED  BY <1>2, <1>3, <1>4 DEF Moved

\* How each action moves the run that takes it.
LEMMA ActionsMove ==
    ASSUME RunTypes, NEW p \in Processes
    PROVE  /\ CheckMarker(p) => Moved(p, <<"unmarked", 0>>, process[p].has, process[p].config)
           /\ WriteSelection(p) => Moved(p, <<"freeze", 0>>, process[p].has, process[p].version)
           /\ ReadSelection(p) => Moved(p, <<"frozen", 0>>, process[p].has, selection)
           /\ UnlinkLedger(p) => Moved(p, <<"unlink", 0>>, process[p].has, process[p].config)
           /\ CheckNoLedger(p) => Moved(p, <<"no_ledger", 0>>, process[p].has, process[p].config)
           /\ OpenLedger(p) => Moved(p, <<"open", 0>>, Opened(p), process[p].config)
           /\ CloseLedger(p) => Moved(p, <<"close", 0>>, 0, process[p].config)
           /\ WriteMarker(p) => Moved(p, <<"mark", 0>>, process[p].has, process[p].config)
           /\ \A b \in Batches :
                  /\ WritePredictions(p, b) => Moved(p, <<"predict", b>>, process[p].has, process[p].config)
                  /\ AppendBatch(p, b) => Moved(p, <<"append", b>>, process[p].has, process[p].config)
                  /\ InsertRow(p, b) => \/ Takes(p, "insert", b) /\ Moved(p, <<"insert", b>>, process[p].has, process[p].config)
                                        \/ Takes(p, "insert_new", b) /\ Moved(p, <<"insert_new", b>>, process[p].has, process[p].config)
                  /\ Reveal(p, b) => Moved(p, <<"reveal", b>>, process[p].has, process[p].config)
                  /\ AppendEvaluation(p, b) => Moved(p, <<"evaluate", b>>, process[p].has, process[p].config)
<1> DEFINE s == process[p]
<1>1. s \in RunRecords /\ selection \in 0..MaxRuns /\ ledger \in 0..MaxRuns /\ 0 \in 0..MaxRuns
  BY FrozenAssumption DEF RunTypes, FrozenTypeOK, RunRecords
<1>2. ASSUME NEW what, NEW b, Takes(p, what, b), bench' = bench, Advance(p)
      PROVE  Moved(p, <<what, b>>, s.has, s.config)
  BY <1>1, <1>2, Moves DEF Advance
<1>3. ASSUME NEW h \in 0..MaxRuns
      PROVE  /\ [s EXCEPT !.has = h] \in RunRecords /\ [s EXCEPT !.has = h].at = s.at
             /\ [s EXCEPT !.has = h].mode = s.mode /\ [s EXCEPT !.has = h].version = s.version
             /\ [s EXCEPT !.has = h].has = h /\ [s EXCEPT !.has = h].config = s.config
  BY <1>1 DEF RunRecords
<1>4. ASSUME NEW h \in 0..MaxRuns
      PROVE  /\ [s EXCEPT !.config = h] \in RunRecords /\ [s EXCEPT !.config = h].at = s.at
             /\ [s EXCEPT !.config = h].mode = s.mode /\ [s EXCEPT !.config = h].version = s.version
             /\ [s EXCEPT !.config = h].has = s.has /\ [s EXCEPT !.config = h].config = h
  BY <1>1 DEF RunRecords
<1>5. s.version \in 0..MaxRuns /\ Opened(p) \in 0..MaxRuns
  BY <1>1 DEF RunRecords, Opened
<1>6. WriteSelection(p) => Moved(p, <<"freeze", 0>>, s.has, s.version)
  <2> SUFFICES ASSUME WriteSelection(p)  PROVE Moved(p, <<"freeze", 0>>, s.has, s.version)
    OBVIOUS
  <2> DEFINE r == [s EXCEPT !.config = s.version]
  <2>1. process' = [process EXCEPT ![p] = After(p, r)] /\ Takes(p, "freeze", 0) /\ bench' = bench
    BY DEF WriteSelection
  <2>2. /\ r \in RunRecords /\ r.at = s.at /\ r.mode = s.mode /\ r.version = s.version
        /\ r.has = s.has /\ r.config = s.version
    BY <1>4, <1>5
  <2>. HIDE DEF r
  <2>3. Moved(p, <<"freeze", 0>>, r.has, r.config)
    BY <2>1, <2>2, Moves
  <2>. QED  BY <2>2, <2>3
<1>7. ReadSelection(p) => Moved(p, <<"frozen", 0>>, s.has, selection)
  <2> SUFFICES ASSUME ReadSelection(p)  PROVE Moved(p, <<"frozen", 0>>, s.has, selection)
    OBVIOUS
  <2> DEFINE r == [s EXCEPT !.config = selection]
  <2>1. process' = [process EXCEPT ![p] = After(p, r)] /\ Takes(p, "frozen", 0) /\ bench' = bench
    BY DEF ReadSelection
  <2>2. /\ r \in RunRecords /\ r.at = s.at /\ r.mode = s.mode /\ r.version = s.version
        /\ r.has = s.has /\ r.config = selection
    BY <1>1, <1>4
  <2>. HIDE DEF r
  <2>3. Moved(p, <<"frozen", 0>>, r.has, r.config)
    BY <2>1, <2>2, Moves
  <2>. QED  BY <2>2, <2>3
<1>8. OpenLedger(p) => Moved(p, <<"open", 0>>, Opened(p), s.config)
  <2> SUFFICES ASSUME OpenLedger(p)  PROVE Moved(p, <<"open", 0>>, Opened(p), s.config)
    OBVIOUS
  <2> DEFINE r == [s EXCEPT !.has = Opened(p)]
  <2>1. process' = [process EXCEPT ![p] = After(p, r)] /\ Takes(p, "open", 0) /\ bench' = bench
    BY DEF OpenLedger
  <2>2. /\ r \in RunRecords /\ r.at = s.at /\ r.mode = s.mode /\ r.version = s.version
        /\ r.has = Opened(p) /\ r.config = s.config
    BY <1>3, <1>5
  <2>. HIDE DEF r
  <2>3. Moved(p, <<"open", 0>>, r.has, r.config)
    BY <2>1, <2>2, Moves
  <2>. QED  BY <2>2, <2>3
<1>9. CloseLedger(p) => Moved(p, <<"close", 0>>, 0, s.config)
  <2> SUFFICES ASSUME CloseLedger(p)  PROVE Moved(p, <<"close", 0>>, 0, s.config)
    OBVIOUS
  <2> DEFINE r == [s EXCEPT !.has = 0]
  <2>1. process' = [process EXCEPT ![p] = After(p, r)] /\ Takes(p, "close", 0) /\ bench' = bench
    BY DEF CloseLedger
  <2>2. /\ r \in RunRecords /\ r.at = s.at /\ r.mode = s.mode /\ r.version = s.version
        /\ r.has = 0 /\ r.config = s.config
    BY <1>1, <1>3
  <2>. HIDE DEF r
  <2>3. Moved(p, <<"close", 0>>, r.has, r.config)
    BY <2>1, <2>2, Moves
  <2>. QED  BY <2>2, <2>3
<1>10. /\ CheckMarker(p) => Moved(p, <<"unmarked", 0>>, s.has, s.config)
       /\ UnlinkLedger(p) => Moved(p, <<"unlink", 0>>, s.has, s.config)
       /\ CheckNoLedger(p) => Moved(p, <<"no_ledger", 0>>, s.has, s.config)
       /\ WriteMarker(p) => Moved(p, <<"mark", 0>>, s.has, s.config)
  BY <1>2 DEF CheckMarker, UnlinkLedger, CheckNoLedger, WriteMarker
<1>11. ASSUME NEW b \in Batches
       PROVE  /\ WritePredictions(p, b) => Moved(p, <<"predict", b>>, s.has, s.config)
              /\ AppendBatch(p, b) => Moved(p, <<"append", b>>, s.has, s.config)
              /\ InsertRow(p, b) => \/ Takes(p, "insert", b) /\ Moved(p, <<"insert", b>>, s.has, s.config)
                                    \/ Takes(p, "insert_new", b) /\ Moved(p, <<"insert_new", b>>, s.has, s.config)
              /\ Reveal(p, b) => Moved(p, <<"reveal", b>>, s.has, s.config)
              /\ AppendEvaluation(p, b) => Moved(p, <<"evaluate", b>>, s.has, s.config)
  <2>1. /\ WritePredictions(p, b) => Takes(p, "predict", b) /\ bench' = bench /\ Advance(p)
        /\ AppendBatch(p, b) => Takes(p, "append", b) /\ bench' = bench /\ Advance(p)
        /\ InsertRow(p, b) => (Takes(p, "insert", b) \/ Takes(p, "insert_new", b)) /\ bench' = bench /\ Advance(p)
        /\ Reveal(p, b) => Takes(p, "reveal", b) /\ bench' = bench /\ Advance(p)
        /\ AppendEvaluation(p, b) => Takes(p, "evaluate", b) /\ bench' = bench /\ Advance(p)
    BY DEF WritePredictions, AppendBatch, InsertRow, Reveal, AppendEvaluation
  <2>. HIDE DEF s
  <2>2. WritePredictions(p, b) => Moved(p, <<"predict", b>>, s.has, s.config)
    BY <1>2, <2>1
  <2>3. AppendBatch(p, b) => Moved(p, <<"append", b>>, s.has, s.config)
    BY <1>2, <2>1
  <2>4. InsertRow(p, b) => \/ Takes(p, "insert", b) /\ Moved(p, <<"insert", b>>, s.has, s.config)
                           \/ Takes(p, "insert_new", b) /\ Moved(p, <<"insert_new", b>>, s.has, s.config)
    <3> SUFFICES ASSUME InsertRow(p, b)
                 PROVE  \/ Takes(p, "insert", b) /\ Moved(p, <<"insert", b>>, s.has, s.config)
                        \/ Takes(p, "insert_new", b) /\ Moved(p, <<"insert_new", b>>, s.has, s.config)
      OBVIOUS
    <3>1. CASE Takes(p, "insert", b)
      BY <1>2, <2>1, <3>1
    <3>2. CASE Takes(p, "insert_new", b)
      BY <1>2, <2>1, <3>2
    <3>. QED  BY <2>1, <3>1, <3>2
  <2>5. Reveal(p, b) => Moved(p, <<"reveal", b>>, s.has, s.config)
    BY <1>2, <2>1
  <2>6. AppendEvaluation(p, b) => Moved(p, <<"evaluate", b>>, s.has, s.config)
    BY <1>2, <2>1
  <2>. QED  BY <2>2, <2>3, <2>4, <2>5, <2>6
<1>. QED  BY <1>6, <1>7, <1>8, <1>9, <1>10, <1>11

LEMMA StartMoves ==
    ASSUME RunTypes, NEW p \in Processes, StartRun(p)
    PROVE  /\ ~Running(p) /\ Others(p) /\ DoneBy(p)' = {} /\ process' \in [Processes -> RunRecords]
           /\ process'[p].at = 1 /\ process'[p].version = runs + 1 /\ process'[p].has = 0
           /\ process'[p].mode \in Modes
<1>1. PICK mode \in Modes :
          process' = [process EXCEPT ![p] = [Stopped EXCEPT !.mode = mode, !.at = 1, !.version = runs + 1]]
  BY DEF StartRun
<1> DEFINE r == [Stopped EXCEPT !.mode = mode, !.at = 1, !.version = runs + 1]
<1>2. Modes \subseteq {"dev", "final", "diagnostic"}
  BY DEF Modes
<1>3. 1 \in 0..Len(Program) /\ runs + 1 \in 0..MaxRuns /\ 0 \in 0..MaxRuns
  <2>1. Len(Program) \in 3..13
    BY ProgramsInOrder DEF Program, RunTypes, FrozenTypeOK
  <2>2. runs \in 0..MaxRuns /\ runs < MaxRuns
    BY DEF StartRun, RunTypes, FrozenTypeOK
  <2>3. 1 \in 0..Len(Program)
    BY <2>1
  <2>4. runs + 1 \in 0..MaxRuns /\ 0 \in 0..MaxRuns
    BY <2>2, FrozenAssumption
  <2>. QED  BY <2>3, <2>4
<1>4. r \in RunRecords /\ r.at = 1 /\ r.version = runs + 1 /\ r.has = 0 /\ r.mode = mode
  BY <1>2, <1>3 DEF RunRecords, Stopped
<1>5. process \in [Processes -> RunRecords] /\ bench' = bench /\ ~Running(p)
  BY DEF RunTypes, FrozenTypeOK, RunRecords, StartRun, Running
<1>. HIDE DEF r
<1>6. Others(p) /\ process'[p] = r
  BY <1>1, <1>5, OthersStay DEF r
<1>7. DoneBy(p)' = {}
  <2>1. process'[p].at = 1
    BY <1>4, <1>6
  <2>. QED  BY <2>1 DEF DoneBy, StepsBefore
<1>8. process' \in [Processes -> RunRecords]
  BY <1>1, <1>4, <1>5 DEF r
<1>. QED  BY <1>4, <1>5, <1>6, <1>7, <1>8

LEMMA StopMoves ==
    ASSUME RunTypes, NEW p \in Processes, StopRun(p)
    PROVE  Others(p) /\ Gone(p) /\ process' \in [Processes -> RunRecords]
<1>1. process' = [process EXCEPT ![p] = Stopped] /\ bench' = bench
  BY DEF StopRun
<1>2. Others(p) /\ process'[p] = Stopped
  BY <1>1, OthersStay
<1>3. Len(Program) \in Nat
  BY RunsInOrder
<1>4. Stopped \in RunRecords
  <2>1. 0 \in 0..Len(Program) /\ 0 \in 0..MaxRuns
    BY <1>3, FrozenAssumption
  <2>. QED  BY <2>1 DEF Stopped, RunRecords
<1>5. DoneBy(p)' = {}
  <2>1. process'[p].at = 0
    BY <1>2, StoppedIs
  <2>. QED  BY <2>1 DEF DoneBy, StepsBefore
<1>6. process \in [Processes -> RunRecords]
  BY DEF RunTypes, FrozenTypeOK, RunRecords
<1>. QED  BY <1>1, <1>2, <1>4, <1>5, <1>6 DEF Gone


(* The steps keep the types.                                               *)

LEMMA RunsTypedStep ==
    ASSUME RunTypes, NEW p \in Processes, Others(p), bench' = bench, runs' \in Nat, runs' >= runs,
           process' \in [Processes -> RunRecords],
           \/ Gone(p)
           \/ Running(p) /\ runs' = runs /\ \E s, h, c : Went(p, s, h, c)
           \/ StartRun(p)
    PROVE  RunsTyped'
<1>1. ASSUME NEW q \in Processes
      PROVE  (/\ process[q].at <= Len(ProgramOf(q))
              /\ ~Running(q) => process[q] = Stopped
              /\ Running(q) => process[q].version \in 1..runs
              /\ process[q].mode = "dev" => bench \in DOMAIN Developments
              /\ process[q].mode = "diagnostic" => bench = "hm_day1")'
  <2>1. /\ process[q].at <= Len(ProgramOf(q))
        /\ ~Running(q) => process[q] = Stopped
        /\ Running(q) => process[q].version \in 1..runs
        /\ process[q].mode = "dev" => bench \in DOMAIN Developments
        /\ process[q].mode = "diagnostic" => bench = "hm_day1"
        /\ runs \in Nat
    BY FrozenAssumption DEF RunTypes, RunsTyped, FrozenTypeOK
  <2>2. bench \in DOMAIN Programs /\ Program' = Program /\ Len(Program) \in 3..13
    BY ProgramsInOrder, SameProgram DEF Program, RunTypes, FrozenTypeOK
  <2>3. process[q].mode = process'[q].mode => ProgramOf(q)' = ProgramOf(q)
    BY <2>2 DEF ProgramOf
  <2>4. CASE q # p
    <3>1. process'[q] = process[q]
      BY <2>4 DEF Others
    <3>2. process[q].version \in 1..runs => process[q].version \in 1..runs'
      BY <2>1
    <3>. QED  BY <2>1, <2>3, <3>1, <3>2 DEF Running
  <2>5. CASE q = p /\ Gone(p)
    <3>1. process'[q] = Stopped /\ process'[q].at = 0 /\ process'[q].mode = "final"
      BY <2>5, StoppedIs DEF Gone
    <3>2. ProgramOf(q)' = Program
      BY <2>2, <3>1 DEF ProgramOf
    <3>3. 0 <= Len(Program)
      BY <2>2
    <3>. QED  BY <3>1, <3>2, <3>3 DEF Running
  <2>6. ASSUME q = p, Running(p), runs' = runs, NEW s, NEW h, NEW c, Went(p, s, h, c)
        PROVE  <1>1!2
    BY <2>1, <2>3, <2>6 DEF Went, Running
  <2>7. CASE q = p /\ StartRun(p)
    <3>1. process'[p].at = 1 /\ process'[p].version = runs + 1 /\ process'[p].mode \in Modes /\ runs' = runs + 1
      BY <2>7, StartMoves DEF StartRun
    <3>2. /\ process'[p].mode = "dev" => bench \in DOMAIN Developments
          /\ process'[p].mode = "diagnostic" => bench = "hm_day1"
      BY <3>1 DEF Modes
    <3>3. 1 <= Len(ProgramOf(q)')
      <4>1. CASE process'[p].mode = "dev"
        <5>1. ProgramOf(q)' = Developments[bench] /\ bench \in DOMAIN Developments
          BY <2>7, <3>2, <4>1 DEF ProgramOf
        <5>2. Len(Developments[bench]) \in 1..3 /\ \A n \in 1..3 : 1 <= n
          BY <5>1, DevelopmentsInOrder
        <5>. QED  BY <5>1, <5>2, Zenon
      <4>2. CASE process'[p].mode # "dev"
        <5>1. ProgramOf(q)' = Program
          BY <2>2, <2>7, <4>2 DEF ProgramOf
        <5>2. \A n \in 3..13 : 1 <= n
          OBVIOUS
        <5>. QED  BY <2>2, <5>1, <5>2, Zenon
      <4>. QED  BY <4>1, <4>2
    <3>4. runs + 1 \in 1..runs'
      BY <2>1, <3>1
    <3>. QED  BY <2>7, <3>1, <3>2, <3>3, <3>4 DEF Running
  <2>. QED  BY <2>4, <2>5, <2>6, <2>7
<1>. QED  BY <1>1 DEF RunsTyped

RowRecords == [hash : 0..MaxRuns, evaluated : BOOLEAN]
RevealRecords == [batch : Batches, run : 1..MaxRuns, scored : 0..MaxRuns, hash : 0..MaxRuns, config : 0..MaxRuns]
DataTyped ==
    /\ bench \in DOMAIN Programs
    /\ predictionFile \in [Batches -> 0..MaxRuns]
    /\ ledger \in 0..MaxRuns
    /\ ledgerRows \in [1..MaxRuns -> [Batches -> RowRecords]]
    /\ marker \in BOOLEAN /\ overlapped \in BOOLEAN
    /\ selection \in 0..MaxRuns /\ runs \in 0..MaxRuns
    /\ reveals \subseteq RevealRecords /\ \A r \in reveals : r.run \in 1..runs

LEMMA TypesAre == RunTypes <=> DataTyped /\ process \in [Processes -> RunRecords] /\ RunsTyped
BY DEF RunTypes, DataTyped, FrozenTypeOK, RunRecords, RowRecords, RevealRecords

LEMMA RunIs ==
    ASSUME RunTypes, NEW p \in Processes
    PROVE  /\ Running(p) => process[p].version \in 1..runs /\ process[p].version \in 1..MaxRuns
           /\ process[p].has \in 0..MaxRuns /\ process[p].config \in 0..MaxRuns /\ process[p].version \in 0..MaxRuns
           /\ runs \in Nat /\ MaxRuns \in Nat
           /\ LedgerKept /\ HasOpen(p) => process[p].has \in 1..MaxRuns
           /\ \A what, b : Takes(p, what, b) => Running(p)
<1>1. process[p] \in RunRecords /\ runs \in 0..MaxRuns /\ MaxRuns \in Nat
  BY TypesAre, FrozenAssumption DEF DataTyped
<1>2. Running(p) => process[p].version \in 1..runs
  BY DEF RunTypes, RunsTyped
<1>3. process[p].has \in 0..MaxRuns /\ process[p].config \in 0..MaxRuns /\ process[p].version \in 0..MaxRuns
  BY <1>1 DEF RunRecords
<1>4. LedgerKept /\ HasOpen(p) => process[p].has # 0
  BY DEF LedgerKept
<1>5. LedgerKept /\ HasOpen(p) => process[p].has \in 1..MaxRuns
  BY <1>1, <1>3, <1>4
<1>6. Running(p) => process[p].version \in 1..MaxRuns
  BY <1>1, <1>2
<1>. QED  BY <1>1, <1>2, <1>3, <1>5, <1>6 DEF Takes, Running

LEMMA MovedTypes ==
    ASSUME RunTypes, NEW p \in Processes, NEW step, NEW h, NEW c, Moved(p, step, h, c), DataTyped', runs' = runs
    PROVE  RunTypes'
<1>1. RunsTyped' /\ process' \in [Processes -> RunRecords]
  <2>1. runs' \in Nat /\ runs' >= runs
    BY RunIs
  <2>. QED  BY <2>1, RunsTypedStep DEF Moved
<1>2. RunRecords' = RunRecords
  BY SameProgram DEF RunRecords, Moved
<1>. QED  BY <1>1, <1>2, TypesAre DEF RunTypes, DataTyped, FrozenTypeOK, RunRecords, RowRecords, RevealRecords

LEMMA TypesStepFrozen ==
    ASSUME RunTypes, LedgerKept, FrozenNext
    PROVE  RunTypes'
<1>1. DataTyped
  BY TypesAre
<1>2. PICK p \in Processes :
          \/ StartRun(p) \/ CheckMarker(p) \/ WriteSelection(p) \/ ReadSelection(p)
          \/ UnlinkLedger(p) \/ CheckNoLedger(p) \/ OpenLedger(p)
          \/ CloseLedger(p) \/ WriteMarker(p) \/ StopRun(p)
          \/ \E b \in Batches : WritePredictions(p, b) \/ AppendBatch(p, b) \/ InsertRow(p, b)
                                \/ Reveal(p, b) \/ AppendEvaluation(p, b)
  BY DEF FrozenNext
<1>3. CASE StartRun(p)
  <2>1. runs' = runs + 1 /\ runs < MaxRuns /\ runs \in 0..MaxRuns /\ MaxRuns \in Nat
    BY <1>1, <1>3, FrozenAssumption DEF StartRun, DataTyped
  <2>2. runs' \in 0..MaxRuns /\ runs' >= runs /\ runs' \in Nat
    BY <2>1
  <2>3. \A r \in reveals : r.run \in 1..runs'
    <3>1. \A n \in 1..runs : n \in 1..runs'
      BY <2>1
    <3>. QED  BY <1>1, <3>1 DEF DataTyped
  <2>4. overlapped' \in BOOLEAN
    BY <1>3 DEF StartRun
  <2>5. DataTyped'
    BY <1>1, <1>3, <2>2, <2>3, <2>4 DEF StartRun, DataTyped, RowRecords, RevealRecords
  <2>6. /\ Others(p) /\ bench' = bench /\ process' \in [Processes -> RunRecords]
    BY <1>3, StartMoves DEF StartRun
  <2>7. RunsTyped'
    BY <1>3, <2>2, <2>6, RunsTypedStep
  <2>8. RunRecords' = RunRecords
    BY <2>6, SameProgram DEF RunRecords
  <2>. QED  BY <2>5, <2>6, <2>7, <2>8 DEF RunTypes, DataTyped, FrozenTypeOK, RunRecords, RowRecords, RevealRecords
<1>4. CASE StopRun(p)
  <2>1. DataTyped'
    BY <1>1, <1>4 DEF StopRun, DataTyped, RowRecords, RevealRecords
  <2>2. Others(p) /\ Gone(p) /\ bench' = bench /\ process' \in [Processes -> RunRecords]
    BY <1>4, StopMoves DEF StopRun
  <2>3. RunsTyped'
    <3>1. runs' = runs /\ runs' >= runs /\ runs' \in Nat
      BY <1>4, RunIs DEF StopRun
    <3>. QED  BY <2>2, <3>1, RunsTypedStep
  <2>4. RunRecords' = RunRecords
    BY <2>2, SameProgram DEF RunRecords
  <2>. QED  BY <2>1, <2>2, <2>3, <2>4 DEF RunTypes, DataTyped, FrozenTypeOK, RunRecords, RowRecords, RevealRecords
<1>5. CASE CheckMarker(p)
  <2>1. DataTyped' /\ runs' = runs
    BY <1>1, <1>5 DEF CheckMarker, DataTyped, RowRecords, RevealRecords
  <2>. QED  BY <1>5, <2>1, ActionsMove, MovedTypes
<1>6. CASE WriteSelection(p)
  <2>1. DataTyped' /\ runs' = runs
    BY <1>1, <1>6, RunIs DEF WriteSelection, DataTyped, RowRecords, RevealRecords
  <2>. QED  BY <1>6, <2>1, ActionsMove, MovedTypes
<1>7. CASE ReadSelection(p)
  <2>1. DataTyped' /\ runs' = runs
    BY <1>1, <1>7 DEF ReadSelection, DataTyped, RowRecords, RevealRecords
  <2>. QED  BY <1>7, <2>1, ActionsMove, MovedTypes
<1>8. CASE UnlinkLedger(p)
  <2>1. DataTyped' /\ runs' = runs
    <3>1. ledger' = 0 /\ 0 \in 0..MaxRuns
      BY <1>8, FrozenAssumption DEF UnlinkLedger
    <3>. QED  BY <1>1, <1>8, <3>1 DEF UnlinkLedger, DataTyped, RowRecords, RevealRecords
  <2>. QED  BY <1>8, <2>1, ActionsMove, MovedTypes
<1>9. CASE CheckNoLedger(p)
  <2>1. DataTyped' /\ runs' = runs
    BY <1>1, <1>9 DEF CheckNoLedger, DataTyped, RowRecords, RevealRecords
  <2>. QED  BY <1>9, <2>1, ActionsMove, MovedTypes
<1>10. CASE OpenLedger(p)
  <2>1. DataTyped' /\ runs' = runs
    <3>1. Opened(p) \in 0..MaxRuns
      BY <1>1, RunIs DEF Opened, DataTyped
    <3>. QED  BY <1>1, <1>10, <3>1 DEF OpenLedger, DataTyped, RowRecords, RevealRecords
  <2>. QED  BY <1>10, <2>1, ActionsMove, MovedTypes
<1>11. CASE CloseLedger(p)
  <2>1. DataTyped' /\ runs' = runs
    BY <1>1, <1>11 DEF CloseLedger, DataTyped, RowRecords, RevealRecords
  <2>. QED  BY <1>11, <2>1, ActionsMove, MovedTypes
<1>12. CASE WriteMarker(p)
  <2>1. DataTyped' /\ runs' = runs
    <3>1. marker' \in BOOLEAN
      BY <1>12 DEF WriteMarker
    <3>. QED  BY <1>1, <1>12, <3>1 DEF WriteMarker, DataTyped, RowRecords, RevealRecords
  <2>. QED  BY <1>12, <2>1, ActionsMove, MovedTypes
<1>13. ASSUME NEW b \in Batches, WritePredictions(p, b)
       PROVE  RunTypes'
  <2>1. DataTyped' /\ runs' = runs
    BY <1>1, <1>13, RunIs DEF WritePredictions, DataTyped, RowRecords, RevealRecords
  <2>. QED  BY <1>13, <2>1, ActionsMove, MovedTypes
<1>14. ASSUME NEW h \in 0..MaxRuns
       PROVE  [NoRow EXCEPT !.hash = h] \in RowRecords
  BY DEF NoRow, RowRecords
<1>15. ASSUME NEW b \in Batches, AppendBatch(p, b)
       PROVE  RunTypes'
  <2>1. process[p].has \in 1..MaxRuns /\ [NoRow EXCEPT !.hash = predictionFile[b]] \in RowRecords
    BY <1>1, <1>14, <1>15, RowTakes, RunIs DEF AppendBatch, DataTyped
  <2>2. ledgerRows' \in [1..MaxRuns -> [Batches -> RowRecords]]
    BY <1>1, <1>15, <2>1 DEF AppendBatch, DataTyped
  <2>3. DataTyped' /\ runs' = runs
    BY <1>1, <1>15, <2>2 DEF AppendBatch, DataTyped, RowRecords, RevealRecords
  <2>4. Moved(p, <<"append", b>>, process[p].has, process[p].config)
    BY <1>15, ActionsMove
  <2>. QED  BY <2>3, <2>4, MovedTypes
<1>16. ASSUME NEW b \in Batches, InsertRow(p, b)
       PROVE  RunTypes'
  <2>1. process[p].has \in 1..MaxRuns /\ [NoRow EXCEPT !.hash = process[p].version] \in RowRecords
    BY <1>14, <1>16, RowTakes, RunIs DEF InsertRow
  <2>2. ledgerRows' \in [1..MaxRuns -> [Batches -> RowRecords]]
    BY <1>1, <1>16, <2>1 DEF InsertRow, DataTyped
  <2>3. DataTyped' /\ runs' = runs
    BY <1>1, <1>16, <2>2 DEF InsertRow, DataTyped, RowRecords, RevealRecords
  <2>4. \/ Moved(p, <<"insert", b>>, process[p].has, process[p].config)
        \/ Moved(p, <<"insert_new", b>>, process[p].has, process[p].config)
    BY <1>16, ActionsMove
  <2>. QED  BY <2>3, <2>4, MovedTypes
<1>17. ASSUME NEW b \in Batches, AppendEvaluation(p, b)
       PROVE  RunTypes'
  <2>1. process[p].has \in 1..MaxRuns
    BY <1>17, RowTakes, RunIs DEF AppendEvaluation
  <2>2. ledgerRows' \in [1..MaxRuns -> [Batches -> RowRecords]]
    <3> DEFINE h == process[p].has
               row == ledgerRows[h][b]
               new == [row EXCEPT !.evaluated = TRUE]
    <3>1. ledgerRows' = [ledgerRows EXCEPT ![h] = [ledgerRows[h] EXCEPT ![b] = new]]
      BY <1>17 DEF AppendEvaluation
    <3>2. ledgerRows \in [1..MaxRuns -> [Batches -> RowRecords]]
      BY <1>1 DEF DataTyped
    <3>3. new \in RowRecords
      <4>1. row \in RowRecords
        BY <2>1, <3>2
      <4>. QED  BY <4>1 DEF RowRecords
    <3>. HIDE DEF h, new
    <3>. QED  BY <3>1, <3>2, <3>3
  <2>3. DataTyped' /\ runs' = runs
    BY <1>1, <1>17, <2>2 DEF AppendEvaluation, DataTyped, RowRecords, RevealRecords
  <2>4. Moved(p, <<"evaluate", b>>, process[p].has, process[p].config)
    BY <1>17, ActionsMove
  <2>. QED  BY <2>3, <2>4, MovedTypes
<1>18. ASSUME NEW b \in Batches, Reveal(p, b)
       PROVE  RunTypes'
  <2> DEFINE l == IF process[p].has = 0 THEN ledger ELSE process[p].has
             new == [batch |-> b, run |-> process[p].version, scored |-> Scored(p, b),
                     config |-> process[p].config, hash |-> ledgerRows[l][b].hash]
  <2>1. HasOpen(p) \/ ledger # 0
    <3>1. <<"open", 0>> \in DoneBy(p)
      BY <1>18, RevealTakes, DoneBefore DEF Reveal
    <3>2. <<"close", 0>> \in DoneBy(p) => ledger # 0
      BY <3>1, DoneBefore DEF LedgerKept, Calm
    <3>. QED  BY <3>1, <3>2 DEF HasOpen
  <2>2. l \in 1..MaxRuns
    <3>1. process[p].has = 0 => ledger # 0
      BY <2>1 DEF LedgerKept
    <3>. QED  BY <1>1, <3>1, RunIs DEF DataTyped
  <2>3. new.run \in 1..runs /\ new \in RevealRecords
    <3>1. process[p].version \in 1..runs /\ process[p].version \in 1..MaxRuns /\ process[p].config \in 0..MaxRuns
          /\ process[p].version \in 0..MaxRuns
      BY <1>18, RunIs DEF Reveal
    <3>2. Scored(p, b) \in 0..MaxRuns
      BY <1>1, <3>1 DEF Scored, DataTyped
    <3>3. ledgerRows[l][b].hash \in 0..MaxRuns
      <4>1. ledgerRows[l][b] \in RowRecords
        BY <1>1, <2>2 DEF DataTyped
      <4>. QED  BY <4>1 DEF RowRecords
    <3>. QED  BY <3>1, <3>2, <3>3 DEF RevealRecords
  <2>4. reveals' = reveals \cup {new}
    BY <1>18 DEF Reveal
  <2>. HIDE DEF new
  <2>5. reveals' \subseteq RevealRecords /\ \A r \in reveals' : r.run \in 1..runs
    BY <1>1, <2>3, <2>4 DEF DataTyped
  <2>6. DataTyped' /\ runs' = runs
    BY <1>1, <1>18, <2>5 DEF Reveal, DataTyped, RowRecords, RevealRecords
  <2>7. Moved(p, <<"reveal", b>>, process[p].has, process[p].config)
    BY <1>18, ActionsMove
  <2>. QED  BY <2>6, <2>7, MovedTypes
<1>. QED  BY <1>2, <1>3, <1>4, <1>5, <1>6, <1>7, <1>8, <1>9, <1>10, <1>11, <1>12, <1>13, <1>15, <1>16,
             <1>17, <1>18

(* What a step changes.                                                    *)

RunStep(p) ==
    \/ StartRun(p) \/ CheckMarker(p) \/ WriteSelection(p) \/ ReadSelection(p)
    \/ UnlinkLedger(p) \/ CheckNoLedger(p) \/ OpenLedger(p)
    \/ CloseLedger(p) \/ WriteMarker(p) \/ StopRun(p)
    \/ \E b \in Batches : WritePredictions(p, b) \/ AppendBatch(p, b) \/ InsertRow(p, b)
                          \/ Reveal(p, b) \/ AppendEvaluation(p, b)

LEMMA DataStep ==
    ASSUME NEW p \in Processes, RunStep(p)
    PROVE  /\ bench' = bench
           /\ ledger' = ledger \/ UnlinkLedger(p) \/ OpenLedger(p)
           /\ \/ ledgerRows' = ledgerRows
              \/ \E b \in Batches : AppendBatch(p, b) \/ InsertRow(p, b) \/ AppendEvaluation(p, b)
           /\ predictionFile' = predictionFile \/ \E b \in Batches : WritePredictions(p, b)
           /\ marker' = marker \/ WriteMarker(p)
           /\ selection' = selection \/ WriteSelection(p)
           /\ reveals' = reveals \/ \E b \in Batches : Reveal(p, b)
           /\ (runs' = runs /\ overlapped' = overlapped) \/ StartRun(p)
BY DEF RunStep, StartRun, CheckMarker, WriteSelection, ReadSelection, UnlinkLedger, CheckNoLedger, OpenLedger,
       CloseLedger, WriteMarker, StopRun, WritePredictions, AppendBatch, InsertRow, Reveal, AppendEvaluation

\* The step that a run has done anew, and the action it did it in.
DoneAnew(p, s) ==
    \/ s = <<"unmarked", 0>> /\ CheckMarker(p)
    \/ s = <<"freeze", 0>> /\ WriteSelection(p)
    \/ s = <<"frozen", 0>> /\ ReadSelection(p)
    \/ s = <<"unlink", 0>> /\ UnlinkLedger(p)
    \/ s = <<"no_ledger", 0>> /\ CheckNoLedger(p)
    \/ s = <<"open", 0>> /\ OpenLedger(p)
    \/ s = <<"close", 0>> /\ CloseLedger(p)
    \/ s = <<"mark", 0>> /\ WriteMarker(p)
    \/ \E b \in Batches :
           \/ s = <<"predict", b>> /\ WritePredictions(p, b)
           \/ s = <<"append", b>> /\ AppendBatch(p, b)
           \/ s \in {<<"insert", b>>, <<"insert_new", b>>} /\ InsertRow(p, b)
           \/ s = <<"reveal", b>> /\ Reveal(p, b)
           \/ s = <<"evaluate", b>> /\ AppendEvaluation(p, b)

\* The ledger and the selection of a run.
HasAnew(p, h) ==
    h = process[p].has \/ (OpenLedger(p) /\ h = Opened(p)) \/ (CloseLedger(p) /\ h = 0)
WorksWith(p, c) ==
    \/ c = process[p].config
    \/ WriteSelection(p) /\ c = process[p].version
    \/ ReadSelection(p) /\ c = selection

LEMMA StepMoves ==
    ASSUME RunTypes, NEW p \in Processes, RunStep(p), ~StartRun(p), ~StopRun(p)
    PROVE  \E s, h, c : DoneAnew(p, s) /\ HasAnew(p, h) /\ WorksWith(p, c) /\ Moved(p, s, h, c)
<1>1. CASE CheckMarker(p)
  BY <1>1, ActionsMove DEF DoneAnew, HasAnew, WorksWith
<1>2. CASE WriteSelection(p)
  BY <1>2, ActionsMove DEF DoneAnew, HasAnew, WorksWith
<1>3. CASE ReadSelection(p)
  BY <1>3, ActionsMove DEF DoneAnew, HasAnew, WorksWith
<1>4. CASE UnlinkLedger(p)
  BY <1>4, ActionsMove DEF DoneAnew, HasAnew, WorksWith
<1>5. CASE CheckNoLedger(p)
  BY <1>5, ActionsMove DEF DoneAnew, HasAnew, WorksWith
<1>6. CASE OpenLedger(p)
  BY <1>6, ActionsMove DEF DoneAnew, HasAnew, WorksWith
<1>7. CASE CloseLedger(p)
  BY <1>7, ActionsMove DEF DoneAnew, HasAnew, WorksWith
<1>8. CASE WriteMarker(p)
  BY <1>8, ActionsMove DEF DoneAnew, HasAnew, WorksWith
<1>9. ASSUME NEW b \in Batches, WritePredictions(p, b)
      PROVE  \E s, h, c : DoneAnew(p, s) /\ HasAnew(p, h) /\ WorksWith(p, c) /\ Moved(p, s, h, c)
  BY <1>9, ActionsMove DEF DoneAnew, HasAnew, WorksWith
<1>10. ASSUME NEW b \in Batches, AppendBatch(p, b)
       PROVE  \E s, h, c : DoneAnew(p, s) /\ HasAnew(p, h) /\ WorksWith(p, c) /\ Moved(p, s, h, c)
  BY <1>10, ActionsMove DEF DoneAnew, HasAnew, WorksWith
<1>11. ASSUME NEW b \in Batches, InsertRow(p, b)
       PROVE  \E s, h, c : DoneAnew(p, s) /\ HasAnew(p, h) /\ WorksWith(p, c) /\ Moved(p, s, h, c)
  <2>1. \/ Moved(p, <<"insert", b>>, process[p].has, process[p].config)
        \/ Moved(p, <<"insert_new", b>>, process[p].has, process[p].config)
    BY <1>11, ActionsMove
  <2>2. DoneAnew(p, <<"insert", b>>) /\ DoneAnew(p, <<"insert_new", b>>)
    BY <1>11 DEF DoneAnew
  <2>. QED  BY <2>1, <2>2 DEF HasAnew, WorksWith
<1>12. ASSUME NEW b \in Batches, Reveal(p, b)
       PROVE  \E s, h, c : DoneAnew(p, s) /\ HasAnew(p, h) /\ WorksWith(p, c) /\ Moved(p, s, h, c)
  BY <1>12, ActionsMove DEF DoneAnew, HasAnew, WorksWith
<1>13. ASSUME NEW b \in Batches, AppendEvaluation(p, b)
       PROVE  \E s, h, c : DoneAnew(p, s) /\ HasAnew(p, h) /\ WorksWith(p, c) /\ Moved(p, s, h, c)
  BY <1>13, ActionsMove DEF DoneAnew, HasAnew, WorksWith
<1>. QED  BY <1>1, <1>2, <1>3, <1>4, <1>5, <1>6, <1>7, <1>8, <1>9, <1>10, <1>11, <1>12, <1>13 DEF RunStep

LEMMA DoneStep ==
    ASSUME RunTypes, NEW p \in Processes, RunStep(p), NEW q \in Processes
    PROVE  /\ \A s \in DoneBy(q)' : s \in DoneBy(q) \/ (q = p /\ DoneAnew(p, s))
           /\ Running(q)' =>
                  \/ /\ Running(q) /\ DoneBy(q) \subseteq DoneBy(q)' /\ ~(q = p /\ StartRun(p))
                     /\ process'[q].version = process[q].version /\ process'[q].mode = process[q].mode
                     /\ process'[q].has = process[q].has \/ (q = p /\ HasAnew(p, process'[q].has))
                     /\ process'[q].config = process[q].config \/ (q = p /\ WorksWith(p, process'[q].config))
                  \/ /\ q = p /\ StartRun(p) /\ DoneBy(q)' = {}
                     /\ process'[q].version = runs + 1 /\ process'[q].has = 0
           /\ ~Running(q)' => DoneBy(q)' = {} /\ process'[q].has = 0
<1>1. ~Running(q) => DoneBy(q) = {} /\ process[q].has = 0
  BY DoneBefore, StoppedIs DEF RunTypes, RunsTyped
<1>2. CASE q # p
  <2>1. Others(p)
    <3>1. CASE StartRun(p) BY <3>1, StartMoves
    <3>2. CASE StopRun(p) BY <3>2, StopMoves
    <3>3. CASE ~StartRun(p) /\ ~StopRun(p) BY <3>3, StepMoves DEF Moved
    <3>. QED  BY <3>1, <3>2, <3>3
  <2>2. process'[q] = process[q] /\ DoneBy(q)' = DoneBy(q)
    BY <1>2, <2>1 DEF Others
  <2>. QED  BY <1>1, <1>2, <2>2 DEF Running
<1>3. CASE q = p /\ StartRun(p)
  BY <1>3, StartMoves DEF Running
<1>4. CASE q = p /\ Gone(p)
  BY <1>4, StoppedIs DEF Gone, Running
<1>5. CASE q = p /\ ~StartRun(p) /\ ~StopRun(p) /\ ~Gone(p)
  <2>1. PICK s, h, c : DoneAnew(p, s) /\ HasAnew(p, h) /\ WorksWith(p, c) /\ Moved(p, s, h, c)
    BY <1>5, StepMoves
  <2>2. Running(p) /\ Went(p, s, h, c)
    BY <1>5, <2>1 DEF Moved
  <2>. QED  BY <1>5, <2>1, <2>2 DEF Went, Running
<1>6. StopRun(p) => Gone(p)
  BY StopMoves
<1>. QED  BY <1>2, <1>3, <1>4, <1>5, <1>6

LEMMA CalmBefore ==
    ASSUME RunTypes, NEW p \in Processes, RunStep(p)
    PROVE  /\ overlapped => overlapped'
           /\ StartRun(p) /\ ~overlapped' => \A q \in Processes : ~Running(q)
           /\ Calm' => Calm
           /\ Undisturbed' => Undisturbed
           /\ DeletesLedger' = DeletesLedger /\ FreshIds' = FreshIds /\ Marked' = Marked /\ bench' = bench
<1>1. CASE StartRun(p)
  <2>1. overlapped' = (overlapped \/ \E q \in Processes : Running(q)) /\ bench' = bench
    BY <1>1 DEF StartRun, Running
  <2>2. /\ DeletesLedger' = DeletesLedger /\ FreshIds' = FreshIds /\ Marked' = Marked /\ LocksFirst' = LocksFirst
    BY <2>1, SameProgram
  <2>. QED  BY <2>1, <2>2 DEF Calm, Undisturbed
<1>2. CASE ~StartRun(p)
  <2>1. overlapped' = overlapped /\ bench' = bench
    BY <1>2, DataStep
  <2>2. /\ DeletesLedger' = DeletesLedger /\ FreshIds' = FreshIds /\ Marked' = Marked /\ LocksFirst' = LocksFirst
    BY <2>1, SameProgram
  <2>. QED  BY <1>2, <2>1, <2>2 DEF Calm, Undisturbed
<1>. QED  BY <1>1, <1>2

LEMMA ApartStep ==
    ASSUME RunTypes, RunsApart, NEW p \in Processes, RunStep(p)
    PROVE  RunsApart'
<1> SUFFICES ASSUME NEW q \in Processes, NEW r \in Processes, Running(q)', Running(r)',
                    process'[q].version = process'[r].version \/ ~overlapped'
             PROVE  q = r
  BY DEF RunsApart
<1>1. ASSUME NEW x \in Processes, NEW y \in Processes, x = p, StartRun(p), Running(x)', Running(y)',
             process'[x].version = process'[y].version \/ ~overlapped'
      PROVE  x = y
  <2> SUFFICES ASSUME y # p
               PROVE  FALSE
    BY <1>1
  <2>1. Running(y) /\ process'[y].version = process[y].version
    BY <1>1, DoneStep
  <2>2. process'[x].version = runs + 1
    BY <1>1, StartMoves
  <2>3. process[y].version \in 1..runs /\ runs \in Nat
    BY <2>1, RunIs
  <2>4. process[y].version # runs + 1
    BY <2>3
  <2>. QED  BY <1>1, <2>1, <2>2, <2>4, CalmBefore
<1>2. CASE ~(q = p /\ StartRun(p)) /\ ~(r = p /\ StartRun(p))
  <2>1. Running(q) /\ process'[q].version = process[q].version
    BY <1>2, DoneStep
  <2>2. Running(r) /\ process'[r].version = process[r].version
    BY <1>2, DoneStep
  <2>. QED  BY <2>1, <2>2, CalmBefore DEF RunsApart
<1>. QED  BY <1>1, <1>2

\* Who has the ledger has it after the step too, or had it before.
LEMMA HoldsStep ==
    ASSUME RunTypes, NEW p \in Processes, RunStep(p), NEW q \in Processes
    PROVE  /\ <<"open", 0>> \in DoneBy(q)' => <<"open", 0>> \in DoneBy(q) \/ (q = p /\ OpenLedger(p))
           /\ HasOpen(q)' => /\ Running(q)' /\ Running(q) /\ process'[q].version = process[q].version
                           /\ \/ HasOpen(q) /\ process'[q].has = process[q].has
                              \/ q = p /\ OpenLedger(p) /\ process'[q].has = Opened(p)
<1>1. <<"open", 0>> \in DoneBy(q)' => <<"open", 0>> \in DoneBy(q) \/ (q = p /\ OpenLedger(p))
  BY DoneStep DEF DoneAnew
<1>2. ASSUME HasOpen(q)'
      PROVE  /\ Running(q)' /\ Running(q) /\ process'[q].version = process[q].version
             /\ <<"close", 0>> \notin DoneBy(q)
             /\ process'[q].has = process[q].has \/ (q = p /\ HasAnew(p, process'[q].has))
  BY <1>2, DoneStep DEF HasOpen
<1>3. ASSUME HasOpen(q)', q = p
      PROVE  ~CloseLedger(p)
  <2> SUFFICES ASSUME CloseLedger(p)
               PROVE  FALSE
    OBVIOUS
  <2>1. Moved(p, <<"close", 0>>, 0, process[p].config)
    BY ActionsMove
  <2>. QED  BY <1>3, <2>1 DEF Moved, Gone, Went, HasOpen
<1>4. ASSUME HasOpen(q)', q = p, OpenLedger(p)
      PROVE  process'[q].has = Opened(p)
  <2>1. Moved(p, <<"open", 0>>, Opened(p), process[p].config)
    BY <1>4, ActionsMove
  <2>. QED  BY <1>4, <2>1 DEF Moved, Gone, Went, HasOpen
<1>. QED  BY <1>1, <1>2, <1>3, <1>4 DEF HasOpen, HasAnew

LEMMA LedgerStep ==
    ASSUME RunTypes, RunsApart, LedgerKept, NEW p \in Processes, RunStep(p)
    PROVE  LedgerKept'
<1>1. ASSUME OpenLedger(p)
      PROVE  ledger' = Opened(p) /\ Opened(p) # 0 /\ <<"close", 0>> \notin DoneBy(p) /\ (ledger # 0 => ledger' = ledger)
  <2>1. ledger' = Opened(p) /\ Takes(p, "open", 0)
    BY <1>1 DEF OpenLedger
  <2>2. process[p].version \in 1..runs /\ runs \in Nat
    BY <2>1, RunIs
  <2>3. process[p].version # 0
    BY <2>2
  <2>. QED  BY <2>1, <2>3, PlainTakes DEF Opened
<1>2. ASSUME NEW q \in Processes
      PROVE  (process[q].has # 0 <=> HasOpen(q))'
  <2>1. process[q].has # 0 <=> HasOpen(q)
    BY DEF LedgerKept
  <2>2. HasOpen(q)' => process'[q].has # 0
    BY <1>1, <2>1, HoldsStep
  <2>3. ASSUME process'[q].has # 0
        PROVE  HasOpen(q)'
    <3>1. Running(q)' /\ DoneBy(q) \subseteq DoneBy(q)' /\ ~(q = p /\ StartRun(p))
          /\ (process'[q].has = process[q].has \/ (q = p /\ HasAnew(p, process'[q].has)))
      BY <2>3, DoneStep
    <3>2. CASE process'[q].has = process[q].has /\ ~(q = p /\ CloseLedger(p))
      <4>1. HasOpen(q)
        BY <2>1, <2>3, <3>2
      <4>2. <<"close", 0>> \in DoneBy(q)' => <<"close", 0>> \in DoneBy(q)
        BY <3>2, DoneStep DEF DoneAnew
      <4>. QED  BY <3>1, <4>1, <4>2 DEF HasOpen
    <3>3. CASE q = p /\ OpenLedger(p)
      <4>1. Moved(p, <<"open", 0>>, Opened(p), process[p].config)
        BY <3>3, ActionsMove
      <4>2. Went(p, <<"open", 0>>, Opened(p), process[p].config)
        BY <2>3, <3>3, <4>1, StoppedIs DEF Moved, Gone
      <4>. QED  BY <1>1, <3>3, <4>2 DEF Went, HasOpen
    <3>4. CASE q = p /\ CloseLedger(p)
      <4>1. Moved(p, <<"close", 0>>, 0, process[p].config)
        BY <3>4, ActionsMove
      <4>. QED  BY <2>3, <3>4, <4>1, StoppedIs DEF Moved, Gone, Went
    <3>. QED  BY <2>3, <3>1, <3>2, <3>3, <3>4 DEF HasAnew
  <2>. QED  BY <2>2, <2>3
<1>3. ASSUME Calm', UnlinkLedger(p), NEW q \in Processes
      PROVE  <<"open", 0>> \notin DoneBy(q)'
  <2>1. Takes(p, "unlink", 0) /\ ~overlapped /\ <<"open", 0>> \notin DoneBy(p)
    BY <1>3, CalmBefore, PlainTakes DEF UnlinkLedger, Calm
  <2>2. q # p => DoneBy(q) = {}
    BY <2>1, RunIs, DoneBefore DEF RunsApart
  <2>3. ~OpenLedger(p)
    BY <1>3 DEF UnlinkLedger, OpenLedger, Takes
  <2>. QED  BY <2>1, <2>2, <2>3, HoldsStep
<1>4. ASSUME Calm', NEW q \in Processes, <<"open", 0>> \in DoneBy(q)'
      PROVE  ledger' # 0 /\ (<<"open", 0>> \in DoneBy(q) => ledger' = ledger)
  <2>1. <<"open", 0>> \in DoneBy(q) => ledger # 0
    BY <1>4, CalmBefore DEF LedgerKept
  <2>. QED  BY <1>1, <1>3, <1>4, <2>1, DataStep, HoldsStep
<1>5. ASSUME Calm', NEW q \in Processes, HasOpen(q)'
      PROVE  process'[q].has = ledger'
  <2>1. HasOpen(q) => process[q].has = ledger /\ <<"open", 0>> \in DoneBy(q)
    BY <1>5, CalmBefore DEF LedgerKept, HasOpen
  <2>2. <<"open", 0>> \in DoneBy(q)'
    BY <1>5 DEF HasOpen
  <2>. QED  BY <1>1, <1>4, <1>5, <2>1, <2>2, HoldsStep
<1>6. ASSUME Calm', NEW q \in Processes, NEW r \in Processes, HasOpen(q)', HasOpen(r)'
      PROVE  q = r
  <2>1. ASSUME NEW x \in Processes, NEW y \in Processes, x = p, OpenLedger(p), HasOpen(y)', y # p
        PROVE  FALSE
    <3>1. HasOpen(y)
      BY <2>1, HoldsStep
    <3>2. process[y].has = ledger /\ ledger # 0
      BY <1>6, <3>1, CalmBefore DEF LedgerKept, HasOpen
    <3>. QED  BY <2>1, <3>2 DEF OpenLedger, Locked, Opened
  <2>2. CASE HasOpen(q) /\ HasOpen(r)
    BY <1>6, <2>2, CalmBefore DEF LedgerKept
  <2>. QED  BY <1>6, <2>1, <2>2, HoldsStep
<1>. QED  BY <1>2, <1>4, <1>5, <1>6 DEF LedgerKept

\* What is predicted stays in its file until the run that predicted it is through with its ledger.
LEMMA PredictionStep ==
    ASSUME RunTypes, RunsApart, LedgerKept, FilesKept, NEW p \in Processes, RunStep(p)
    PROVE  FilesKept'
<1> SUFFICES ASSUME NEW q \in Processes, NEW b \in Batches, <<"predict", b>> \in DoneBy(q)'
             PROVE  /\ predictionFile'[b] # 0
                    /\ Undisturbed' /\ <<"close", 0>> \notin DoneBy(q)' => predictionFile'[b] = process'[q].version
  BY DEF FilesKept
<1>1. /\ Running(q) /\ DoneBy(q) \subseteq DoneBy(q)' /\ process'[q].version = process[q].version
      /\ <<"predict", b>> \in DoneBy(q) \/ (q = p /\ WritePredictions(p, b))
  <2>1. Running(q)' /\ (<<"predict", b>> \in DoneBy(q) \/ (q = p /\ WritePredictions(p, b)))
    BY DoneStep DEF DoneAnew
  <2>. QED  BY <2>1, DoneStep
<1>2. ASSUME NEW c \in Batches, WritePredictions(p, c)
      PROVE  /\ predictionFile' = [predictionFile EXCEPT ![c] = process[p].version]
             /\ predictionFile \in [Batches -> 0..MaxRuns] /\ process[p].version # 0
             /\ Takes(p, "predict", c) /\ Running(p)
  <2>1. Takes(p, "predict", c) /\ Running(p) /\ process[p].version \in 1..runs /\ runs \in Nat
    BY <1>2, RunIs DEF WritePredictions
  <2>2. process[p].version # 0
    BY <2>1
  <2>. QED  BY <1>2, <2>1, <2>2 DEF WritePredictions, RunTypes, FrozenTypeOK
<1>3. CASE WritePredictions(p, b)
  <2>1. predictionFile'[b] = process[p].version /\ process[p].version # 0
    BY <1>2, <1>3
  <2>2. ASSUME Undisturbed', <<"close", 0>> \notin DoneBy(q)', q # p
        PROVE  FALSE
    <3>1. Undisturbed /\ Calm /\ Running(p) /\ Running(q) /\ <<"predict", b>> \in DoneBy(q)
          /\ <<"close", 0>> \notin DoneBy(q)
      BY <1>1, <1>2, <1>3, <2>2, CalmBefore DEF Undisturbed, Calm, LocksFirst
    <3>2. CASE ~overlapped
      BY <2>2, <3>1, <3>2 DEF RunsApart
    <3>3. CASE LocksFirst
      <4>1. HasOpen(q)
        BY <3>1, <3>3, DoneBefore DEF HasOpen
      <4>2. HasOpen(p)
        BY <1>2, <1>3, <3>3, RowTakes
      <4>. QED  BY <2>2, <3>1, <4>1, <4>2 DEF LedgerKept
    <3>. QED  BY <3>1, <3>2, <3>3 DEF Undisturbed
  <2>. QED  BY <1>1, <2>1, <2>2
<1>4. CASE ~WritePredictions(p, b)
  <2>1. predictionFile'[b] = predictionFile[b]
    BY <1>2, <1>4, DataStep
  <2>2. /\ predictionFile[b] # 0
        /\ Undisturbed /\ <<"close", 0>> \notin DoneBy(q) => predictionFile[b] = process[q].version
    BY <1>1, <1>4 DEF FilesKept
  <2>. QED  BY <1>1, <2>1, <2>2, CalmBefore
<1>. QED  BY <1>3, <1>4

\* A run that has a row had it before, or it appends or inserts it.
LEMMA HasRowStep ==
    ASSUME RunTypes, NEW p \in Processes, RunStep(p), NEW q \in Processes, NEW b \in Batches, HasRow(q, b)'
    PROVE  /\ HasRow(q, b) \/ (q = p /\ (AppendBatch(p, b) \/ InsertRow(p, b)))
           /\ Running(q) /\ process'[q].version = process[q].version
<1>1. PICK s \in RowSteps(b) : s \in DoneBy(q)'
  BY DEF HasRow, RowSteps
<1>2. s \in DoneBy(q) \/ (q = p /\ (AppendBatch(p, b) \/ InsertRow(p, b)))
  BY <1>1, DoneStep DEF RowSteps, DoneAnew
<1>3. Running(q) /\ process'[q].version = process[q].version
  BY <1>1, DoneStep
<1>. QED  BY <1>1, <1>2, <1>3 DEF HasRow

\* What the actions that write a row do to the ledger.
LEMMA RowWritten ==
    ASSUME RunTypes, LedgerKept, NEW p \in Processes, NEW b \in Batches
    PROVE  /\ AppendBatch(p, b) \/ InsertRow(p, b) \/ AppendEvaluation(p, b) => HasOpen(p) /\ ledger' = ledger
           /\ AppendBatch(p, b) \/ InsertRow(p, b) =>
                  /\ Row(p, b) = NoRow \/ FreshIds
                  /\ \A l \in 1..MaxRuns, c \in Batches :
                         ledgerRows'[l][c].hash =
                             IF l # process[p].has \/ c # b THEN ledgerRows[l][c].hash
                             ELSE IF InsertRow(p, b) THEN process[p].version ELSE predictionFile[b]
           /\ AppendEvaluation(p, b) =>
                  \A l \in 1..MaxRuns, c \in Batches : ledgerRows'[l][c].hash = ledgerRows[l][c].hash
<1> DEFINE h == process[p].has
<1>1. /\ ledgerRows \in [1..MaxRuns -> [Batches -> RowRecords]]
      /\ HasOpen(p) => h \in 1..MaxRuns
  BY TypesAre, RunIs DEF DataTyped
<1>2. AppendBatch(p, b) \/ InsertRow(p, b) \/ AppendEvaluation(p, b) => HasOpen(p) /\ ledger' = ledger
  BY RowTakes DEF AppendBatch, InsertRow, AppendEvaluation
<1>3. AppendBatch(p, b) \/ InsertRow(p, b) => Row(p, b) = NoRow \/ FreshIds
  BY RowTakes DEF AppendBatch, InsertRow
<1>4. ASSUME NEW v, ledgerRows' = [ledgerRows EXCEPT ![h][b] = [NoRow EXCEPT !.hash = v]], h \in 1..MaxRuns,
             NEW l \in 1..MaxRuns, NEW c \in Batches
      PROVE  ledgerRows'[l][c].hash = IF l # h \/ c # b THEN ledgerRows[l][c].hash ELSE v
  <2>1. [NoRow EXCEPT !.hash = v].hash = v
    BY DEF NoRow
  <2>2. ledgerRows'[l][c] = IF l # h \/ c # b THEN ledgerRows[l][c] ELSE [NoRow EXCEPT !.hash = v]
    BY <1>1, <1>4
  <2>. QED  BY <2>1, <2>2
<1>5. AppendBatch(p, b) => ~InsertRow(p, b)
  BY DEF AppendBatch, InsertRow, Takes
<1>6. ASSUME AppendBatch(p, b), NEW l \in 1..MaxRuns, NEW c \in Batches
      PROVE  ledgerRows'[l][c].hash = IF l # h \/ c # b THEN ledgerRows[l][c].hash ELSE predictionFile[b]
  BY <1>1, <1>2, <1>4, <1>6 DEF AppendBatch
<1>7. ASSUME InsertRow(p, b), NEW l \in 1..MaxRuns, NEW c \in Batches
      PROVE  ledgerRows'[l][c].hash = IF l # h \/ c # b THEN ledgerRows[l][c].hash ELSE process[p].version
  BY <1>1, <1>2, <1>4, <1>7 DEF InsertRow
<1>8. ASSUME AppendEvaluation(p, b), NEW l \in 1..MaxRuns, NEW c \in Batches
      PROVE  ledgerRows'[l][c].hash = ledgerRows[l][c].hash
  <2> DEFINE new == [ledgerRows[h][b] EXCEPT !.evaluated = TRUE]
  <2>1. ledgerRows' = [ledgerRows EXCEPT ![h] = [ledgerRows[h] EXCEPT ![b] = new]] /\ h \in 1..MaxRuns
    BY <1>1, <1>2, <1>8 DEF AppendEvaluation
  <2>2. ledgerRows[h][b] \in RowRecords
    BY <1>1, <2>1
  <2>3. new.hash = ledgerRows[h][b].hash
    BY <2>2 DEF RowRecords
  <2>. HIDE DEF new, h
  <2>4. ledgerRows'[l][c] = IF l # h \/ c # b THEN ledgerRows[l][c] ELSE new
    BY <1>1, <2>1
  <2>. QED  BY <2>3, <2>4
<1>. HIDE DEF h
<1>9. h = process[p].has
  BY DEF h
<1>. QED  BY <1>2, <1>3, <1>5, <1>6, <1>7, <1>8, <1>9

\* The ledger stays while a run is at work that opened it.
LEMMA LedgerStays ==
    ASSUME RunTypes, RunsApart, LedgerKept, NEW p \in Processes, RunStep(p), Calm', NEW q \in Processes,
           <<"open", 0>> \in DoneBy(q), <<"open", 0>> \in DoneBy(q)'
    PROVE  ledger' = ledger /\ ledger \in 1..MaxRuns
<1>1. ledger # 0 /\ ledger \in 0..MaxRuns /\ MaxRuns \in Nat
  BY CalmBefore, RunIs DEF LedgerKept, RunTypes, FrozenTypeOK
<1>2. ASSUME UnlinkLedger(p)
      PROVE  FALSE
  <2>1. Takes(p, "unlink", 0) /\ ~overlapped /\ <<"open", 0>> \notin DoneBy(p)
    BY <1>2, CalmBefore, PlainTakes DEF UnlinkLedger, Calm
  <2>2. q # p => DoneBy(q) = {}
    BY <2>1, RunIs, DoneBefore DEF RunsApart
  <2>. QED  BY <2>1, <2>2
<1>3. OpenLedger(p) => ledger' = ledger
  BY <1>1 DEF OpenLedger, Opened
<1>4. ledger \in 1..MaxRuns
  BY <1>1
<1>. QED  BY <1>2, <1>3, <1>4, DataStep

LEMMA RowsStep ==
    ASSUME RunTypes, RunsApart, LedgerKept, FilesKept, RowsKept, NEW p \in Processes, RunStep(p)
    PROVE  RowsKept'
<1> SUFFICES ASSUME NEW q \in Processes, NEW b \in Batches, HasRow(q, b)', Calm'
             PROVE  /\ ledgerRows'[ledger'][b].hash # 0
                    /\ Undisturbed' => ledgerRows'[ledger'][b].hash = process'[q].version
  <2>1. Undisturbed' => Calm'
    BY DEF Undisturbed, Calm, LocksFirst
  <2>. QED  BY <2>1 DEF RowsKept
<1>1. /\ Running(q) /\ process'[q].version = process[q].version /\ Calm
      /\ HasRow(q, b) \/ (q = p /\ (AppendBatch(p, b) \/ InsertRow(p, b)))
  BY HasRowStep, CalmBefore
<1>2. <<"open", 0>> \in DoneBy(q)
  BY <1>1, DoneBefore, RowWritten DEF HasOpen
<1>3. Running(q)' /\ <<"open", 0>> \in DoneBy(q)'
  <2>1. Running(q)'
    BY DoneStep DEF HasRow
  <2>2. ~(q = p /\ StartRun(p))
    BY <1>1, StartMoves
  <2>. QED  BY <1>2, <2>1, <2>2, DoneStep
<1>4. ledger' = ledger /\ ledger \in 1..MaxRuns
  BY <1>2, <1>3, LedgerStays
<1>5. CASE q = p /\ (AppendBatch(p, b) \/ InsertRow(p, b))
  <2>1. process[p].has = ledger /\ HasOpen(p)
    BY <1>1, <1>5, RowWritten DEF LedgerKept
  <2>2. ledgerRows'[ledger][b].hash = IF InsertRow(p, b) THEN process[p].version ELSE predictionFile[b]
    BY <1>4, <1>5, <2>1, RowWritten
  <2>3. process[p].version # 0
    <3>1. process[p].version \in 1..runs /\ runs \in Nat
      BY <1>1, <1>5, RunIs
    <3>. QED  BY <3>1
  <2>4. AppendBatch(p, b) => predictionFile[b] # 0 /\ (Undisturbed => predictionFile[b] = process[p].version)
    <3>1. AppendBatch(p, b) => <<"predict", b>> \in DoneBy(p)
      BY RowTakes DEF AppendBatch
    <3>. QED  BY <2>1, <3>1 DEF FilesKept, HasOpen
  <2>. QED  BY <1>1, <1>4, <1>5, <2>2, <2>3, <2>4, CalmBefore
<1>6. CASE HasRow(q, b) /\ ~(q = p /\ (AppendBatch(p, b) \/ InsertRow(p, b)))
  <2>1. /\ ledgerRows[ledger][b].hash # 0
        /\ Undisturbed => ledgerRows[ledger][b].hash = process[q].version
    BY <1>1, <1>6 DEF RowsKept
  <2>2. ledgerRows'[ledger][b].hash = ledgerRows[ledger][b].hash
    <3>1. ASSUME NEW c \in Batches, AppendBatch(p, c) \/ InsertRow(p, c)
          PROVE  c # b
      <4> SUFFICES ASSUME c = b
                   PROVE  FALSE
        OBVIOUS
      <4>1. HasOpen(p) /\ process[p].has = ledger /\ q # p
        BY <1>1, <1>6, <3>1, RowWritten DEF LedgerKept
      <4>2. ~FreshIds
        BY <1>1, <1>6, <4>1, DoneBefore DEF LedgerKept
      <4>3. Row(p, b) = NoRow
        BY <3>1, <4>2, RowWritten
      <4>. QED  BY <2>1, <4>1, <4>3 DEF Row, NoRow
    <3>2. ASSUME NEW c \in Batches, AppendBatch(p, c) \/ InsertRow(p, c)
          PROVE  ledgerRows'[ledger][b].hash = ledgerRows[ledger][b].hash
      BY <1>4, <3>1, <3>2, RowWritten
    <3>3. ASSUME NEW c \in Batches, AppendEvaluation(p, c)
          PROVE  ledgerRows'[ledger][b].hash = ledgerRows[ledger][b].hash
      BY <1>4, <3>3, RowWritten
    <3>. QED  BY <3>2, <3>3, DataStep
  <2>. QED  BY <1>1, <1>4, <2>1, <2>2, CalmBefore
<1>. QED  BY <1>1, <1>5, <1>6

LEMMA RevealsStep ==
    ASSUME RunTypes, RunsApart, LedgerKept, FilesKept, RowsKept, RevealsKept, NEW p \in Processes, RunStep(p)
    PROVE  RevealsKept'
<1> SUFFICES ASSUME ~DeletesLedger, ~FreshIds, Calm, Calm'
             PROVE  (/\ \A q, r \in Processes, b \in Batches : HasRow(q, b) /\ HasRow(r, b) => q = r
                     /\ \A r \in reveals :
                            /\ ledger # 0 /\ ledgerRows[ledger][r.batch].hash # 0
                            /\ \A q \in Processes : HasRow(q, r.batch) => r.run = process[q].version)'
  <2>1. ~DeletesLedger' /\ ~FreshIds' => ~DeletesLedger /\ ~FreshIds /\ Calm /\ Calm'
    BY CalmBefore DEF Calm
  <2>. QED  BY <2>1 DEF RevealsKept
<1>1. /\ \A q, r \in Processes, b \in Batches : HasRow(q, b) /\ HasRow(r, b) => q = r
      /\ \A r \in reveals :
             /\ ledger # 0 /\ ledgerRows[ledger][r.batch].hash # 0
             /\ \A q \in Processes : HasRow(q, r.batch) => r.run = process[q].version
  BY DEF RevealsKept
\* A row is written where there is none.
<1>2. ASSUME NEW b \in Batches, AppendBatch(p, b) \/ InsertRow(p, b)
      PROVE  process[p].has = ledger /\ ledgerRows[ledger][b].hash = 0
  <2>1. HasOpen(p) /\ process[p].has = ledger /\ Row(p, b) = NoRow
    BY <1>2, RowWritten DEF LedgerKept
  <2>. QED  BY <2>1 DEF Row, NoRow
<1>3. ASSUME NEW q \in Processes, NEW b \in Batches, HasRow(q, b), AppendBatch(p, b) \/ InsertRow(p, b)
      PROVE  FALSE
  BY <1>2, <1>3 DEF RowsKept
<1>4. ASSUME NEW q \in Processes, NEW r \in Processes, NEW b \in Batches, HasRow(q, b)', HasRow(r, b)'
      PROVE  q = r
  <2>1. HasRow(q, b) \/ (q = p /\ (AppendBatch(p, b) \/ InsertRow(p, b)))
    BY <1>4, HasRowStep
  <2>2. HasRow(r, b) \/ (r = p /\ (AppendBatch(p, b) \/ InsertRow(p, b)))
    BY <1>4, HasRowStep
  <2>. QED  BY <1>1, <1>3, <2>1, <2>2
<1>5. ASSUME NEW r \in reveals
      PROVE  /\ ledger' # 0 /\ ledgerRows'[ledger'][r.batch].hash # 0
             /\ \A q \in Processes : HasRow(q, r.batch)' => r.run = process'[q].version
  <2>1. r.batch \in Batches /\ ledger \in 1..MaxRuns /\ ledger # 0 /\ ledgerRows[ledger][r.batch].hash # 0
    <3>1. r.batch \in Batches /\ ledger \in 0..MaxRuns /\ MaxRuns \in Nat
      BY <1>5, FrozenAssumption, TypesAre DEF DataTyped, RevealRecords
    <3>2. ledger # 0 /\ ledgerRows[ledger][r.batch].hash # 0
      BY <1>1, <1>5
    <3>3. ledger \in 1..MaxRuns
      BY <3>1, <3>2
    <3>. QED  BY <3>1, <3>2, <3>3
  <2>2. ~AppendBatch(p, r.batch) /\ ~InsertRow(p, r.batch)
    BY <1>2, <2>1
  <2>3. ledger' = ledger
    <3>1. ~UnlinkLedger(p)
      BY PlainTakes DEF UnlinkLedger
    <3>2. OpenLedger(p) => ledger' = ledger
      BY <2>1 DEF OpenLedger, Opened
    <3>. QED  BY <3>1, <3>2, DataStep
  <2>4. ledgerRows'[ledger][r.batch].hash = ledgerRows[ledger][r.batch].hash
    <3>1. ASSUME NEW c \in Batches, AppendBatch(p, c) \/ InsertRow(p, c)
          PROVE  ledgerRows'[ledger][r.batch].hash = ledgerRows[ledger][r.batch].hash
      BY <2>1, <2>2, <3>1, RowWritten
    <3>2. ASSUME NEW c \in Batches, AppendEvaluation(p, c)
          PROVE  ledgerRows'[ledger][r.batch].hash = ledgerRows[ledger][r.batch].hash
      BY <2>1, <3>2, RowWritten
    <3>. QED  BY <3>1, <3>2, DataStep
  <2>5. ASSUME NEW q \in Processes, HasRow(q, r.batch)'
        PROVE  r.run = process'[q].version
    <3>1. HasRow(q, r.batch) /\ process'[q].version = process[q].version
      BY <2>1, <2>2, <2>5, HasRowStep
    <3>. QED  BY <1>1, <1>5, <3>1
  <2>. QED  BY <2>1, <2>3, <2>4, <2>5
<1>6. ASSUME NEW c \in Batches, Reveal(p, c), NEW r \in reveals', r \notin reveals
      PROVE  /\ ledger' # 0 /\ ledgerRows'[ledger'][r.batch].hash # 0
             /\ \A q \in Processes : HasRow(q, r.batch)' => r.run = process'[q].version
  <2>1. r.batch = c /\ r.run = process[p].version /\ ledger' = ledger /\ ledgerRows' = ledgerRows
    BY <1>6 DEF Reveal
  <2>2. HasRow(p, c) /\ <<"open", 0>> \in DoneBy(p)
    BY <1>6, RevealTakes, DoneBefore DEF Reveal
  <2>3. ledger # 0 /\ ledgerRows[ledger][c].hash # 0
    BY <2>2 DEF LedgerKept, RowsKept
  <2>4. ASSUME NEW q \in Processes, HasRow(q, c)'
        PROVE  q = p /\ process'[q].version = process[p].version
    <3>1. HasRow(q, c) /\ process'[q].version = process[q].version
      BY <1>3, <2>2, <2>4, HasRowStep
    <3>. QED  BY <1>1, <2>2, <3>1
  <2>. QED  BY <2>1, <2>3, <2>4
<1>7. reveals' = reveals \/ \E c \in Batches : Reveal(p, c)
  BY DataStep
<1>. QED  BY <1>4, <1>5, <1>6, <1>7

\* Until runs overlap, only the run that takes the step has anything done after it.
LEMMA StepsAlone ==
    ASSUME RunTypes, RunsApart, NEW p \in Processes, RunStep(p), ~overlapped', NEW q \in Processes, DoneBy(q)' # {}
    PROVE  q = p /\ Running(p) /\ ~StartRun(p) /\ ~overlapped
<1>1. Running(q) /\ ~(q = p /\ StartRun(p))
  <2>1. PICK s : s \in DoneBy(q)'
    OBVIOUS
  <2>2. Running(q)'
    BY <2>1, DoneStep
  <2>. QED  BY <2>1, <2>2, DoneStep
<1>2. ~StartRun(p) /\ ~overlapped
  BY <1>1, CalmBefore
<1>3. Running(p)
  <2>1. CASE StopRun(p)
    BY <2>1 DEF StopRun, Running
  <2>2. CASE ~StopRun(p)
    BY <1>2, <2>2, StepMoves DEF Moved
  <2>. QED  BY <2>1, <2>2
<1>. QED  BY <1>1, <1>2, <1>3 DEF RunsApart

LEMMA MarksStep ==
    ASSUME RunTypes, RunsApart, MarksKept, NEW p \in Processes, RunStep(p)
    PROVE  MarksKept'
<1>1. marker' => Marked'
  <2>1. WriteMarker(p) => Marked
    BY PlainTakes DEF WriteMarker
  <2>2. Marked' = Marked
    BY CalmBefore
  <2>. QED  BY <2>1, <2>2, DataStep DEF MarksKept
<1> SUFFICES ASSUME Marked, bench # "hm_day1", ~overlapped, ~overlapped'
             PROVE  (/\ \A q \in Processes :
                            /\ <<"mark", 0>> \in DoneBy(q) => marker
                            /\ <<"unmarked", 0>> \in DoneBy(q) /\ <<"mark", 0>> \notin DoneBy(q) => ~marker
                            /\ Selected(q) => process[q].config = selection
                     /\ DeletesLedger =>
                            /\ reveals # {} => marker
                            /\ \A q \in Processes : <<"mark", 0>> \in DoneBy(q) =>
                                   \A r \in reveals : r.run = process[q].version)'
  <2>1. (Marked' => Marked) /\ bench' = bench /\ (~overlapped' => ~overlapped)
    BY CalmBefore
  <2>. QED  BY <1>1, <2>1 DEF MarksKept
<1>2. WriteMarker(p) => marker' /\ <<"unmarked", 0>> \in DoneBy(p) /\ <<"mark", 0>> \notin DoneBy(p)
  <2>1. WriteMarker(p) => <<"unmarked", 0>> \in DoneBy(p) /\ <<"mark", 0>> \notin DoneBy(p)
    BY PlainTakes DEF WriteMarker
  <2>2. process[p].mode # "diagnostic"
    BY DEF RunTypes, RunsTyped
  <2>. QED  BY <2>1, <2>2 DEF WriteMarker
<1>3. marker => marker'
  BY <1>2, DataStep
<1>4. ASSUME NEW q \in Processes, <<"mark", 0>> \in DoneBy(q)'
      PROVE  marker'
  <2>1. <<"mark", 0>> \in DoneBy(q) \/ WriteMarker(p)
    BY <1>4, DoneStep DEF DoneAnew
  <2>. QED  BY <1>2, <1>3, <2>1 DEF MarksKept
<1>5. ASSUME NEW q \in Processes, <<"unmarked", 0>> \in DoneBy(q)', <<"mark", 0>> \notin DoneBy(q)'
      PROVE  ~marker'
  <2>1. q = p
    BY <1>5, StepsAlone
  <2>2. ~WriteMarker(p)
    <3> SUFFICES ASSUME WriteMarker(p)
                 PROVE  FALSE
      OBVIOUS
    <3>1. Moved(p, <<"mark", 0>>, process[p].has, process[p].config)
      BY ActionsMove
    <3>. QED  BY <1>5, <2>1, <3>1 DEF Moved, Gone, Went
  <2>3. marker' = marker
    BY <2>2, DataStep
  <2>4. CASE CheckMarker(p)
    <3>1. process[p].mode # "diagnostic"
      BY DEF RunTypes, RunsTyped
    <3>. QED  BY <2>3, <2>4, <3>1 DEF CheckMarker
  <2>5. CASE ~CheckMarker(p)
    <3>1. <<"unmarked", 0>> \in DoneBy(p)
      BY <1>5, <2>1, <2>5, DoneStep DEF DoneAnew
    <3>2. Running(p)' /\ DoneBy(p) \subseteq DoneBy(p)'
      BY <1>5, <2>1, DoneStep
    <3>. QED  BY <1>5, <2>1, <2>3, <3>1, <3>2 DEF MarksKept
  <2>. QED  BY <2>4, <2>5
<1>6. ASSUME NEW q \in Processes, Selected(q)'
      PROVE  process'[q].config = selection'
  <2>1. q = p /\ Running(p)' /\ ~StartRun(p)
    BY <1>6, StepsAlone, DoneStep DEF Selected
  <2>2. CASE WriteSelection(p)
    <3>1. Moved(p, <<"freeze", 0>>, process[p].has, process[p].version) /\ selection' = process[p].version
      BY <2>2, ActionsMove DEF WriteSelection
    <3>. QED  BY <2>1, <3>1, StoppedIs DEF Moved, Gone, Went, Running
  <2>3. CASE ReadSelection(p)
    <3>1. Moved(p, <<"frozen", 0>>, process[p].has, selection) /\ selection' = selection
      BY <2>3, ActionsMove DEF ReadSelection
    <3>. QED  BY <2>1, <3>1, StoppedIs DEF Moved, Gone, Went, Running
  <2>4. CASE ~WriteSelection(p) /\ ~ReadSelection(p)
    <3>1. selection' = selection /\ process'[p].config = process[p].config
      BY <2>1, <2>4, DataStep, DoneStep DEF WorksWith
    <3>2. Selected(p)
      BY <1>6, <2>1, <2>4, DoneStep DEF Selected, DoneAnew
    <3>. QED  BY <2>1, <3>1, <3>2 DEF MarksKept
  <2>. QED  BY <2>2, <2>3, <2>4
<1>7. ASSUME DeletesLedger, reveals' # {}
      PROVE  marker'
  <2>1. CASE reveals # {}
    BY <1>3, <1>7, <2>1 DEF MarksKept
  <2>2. ASSUME NEW c \in Batches, Reveal(p, c)
        PROVE  marker'
    <3>1. <<"mark", 0>> \in DoneBy(p)
      BY <1>7, <2>2, RevealTakes DEF Reveal
    <3>. QED  BY <1>3, <3>1 DEF MarksKept
  <2>. QED  BY <1>7, <2>1, <2>2, DataStep
<1>8. ASSUME DeletesLedger, NEW q \in Processes, <<"mark", 0>> \in DoneBy(q)', NEW r \in reveals'
      PROVE  r.run = process'[q].version
  <2>1. q = p /\ ~StartRun(p) /\ process'[p].version = process[p].version
    BY <1>8, StepsAlone, DoneStep
  <2>2. CASE WriteMarker(p)
    <3>1. ~marker /\ reveals' = reveals
      BY <1>2, <2>2 DEF MarksKept, WriteMarker
    <3>. QED  BY <1>8, <3>1 DEF MarksKept
  <2>3. CASE ~WriteMarker(p)
    <3>1. <<"mark", 0>> \in DoneBy(p)
      BY <1>8, <2>1, <2>3, DoneStep DEF DoneAnew
    <3>2. \A s \in reveals : s.run = process[p].version
      BY <1>8, <3>1 DEF MarksKept
    <3>3. ASSUME NEW c \in Batches, Reveal(p, c), r \notin reveals
          PROVE  r.run = process[p].version
      BY <1>8, <3>3 DEF Reveal
    <3>. QED  BY <1>8, <2>1, <3>2, <3>3, DataStep
  <2>. QED  BY <2>2, <2>3
<1>9. DeletesLedger' = DeletesLedger
  BY CalmBefore
<1>. QED  BY <1>4, <1>5, <1>6, <1>7, <1>8, <1>9

LEMMA ConfigsStep ==
    ASSUME RunTypes, RunsApart, ConfigsKept, NEW p \in Processes, RunStep(p)
    PROVE  ConfigsKept'
<1> SUFFICES ASSUME NEW r \in reveals'
             PROVE  /\ Reveals(r.batch)
                    /\ \A q \in Processes : Running(q)' /\ r.run = process'[q].version =>
                           r.config = process'[q].config /\ <<"reveal", r.batch>> \in DoneBy(q)'
  <2>1. \A b : Reveals(b)' = Reveals(b)
    BY SameProgram, DataStep
  <2>. QED  BY <2>1 DEF ConfigsKept
<1>1. CASE r \in reveals
  <2>1. Reveals(r.batch) /\ r.batch \in Batches /\ r.run \in 1..runs /\ runs \in Nat
    <3>1. r.batch \in Batches /\ r.run \in 1..runs
      BY <1>1, TypesAre DEF DataTyped, RevealRecords
    <3>. QED  BY <1>1, <3>1, RunIs DEF ConfigsKept
  <2>2. ASSUME NEW q \in Processes, Running(q)', r.run = process'[q].version
        PROVE  r.config = process'[q].config /\ <<"reveal", r.batch>> \in DoneBy(q)'
    <3>1. r.run # runs + 1
      BY <2>1
    <3>2. /\ Running(q) /\ process'[q].version = process[q].version /\ DoneBy(q) \subseteq DoneBy(q)'
          /\ process'[q].config = process[q].config \/ (q = p /\ WorksWith(p, process'[q].config))
      BY <2>2, <3>1, DoneStep
    <3>3. r.config = process[q].config /\ <<"reveal", r.batch>> \in DoneBy(q)
      BY <1>1, <2>2, <3>2 DEF ConfigsKept
    <3>4. q = p => ~WriteSelection(p) /\ ~ReadSelection(p)
      BY <2>1, <3>3, PlainTakes DEF WriteSelection, ReadSelection
    <3>. QED  BY <3>2, <3>3, <3>4 DEF WorksWith
  <2>. QED  BY <2>1, <2>2
<1>2. ASSUME NEW c \in Batches, Reveal(p, c), r \notin reveals
      PROVE  /\ Reveals(r.batch)
             /\ \A q \in Processes : Running(q)' /\ r.run = process'[q].version =>
                    r.config = process'[q].config /\ <<"reveal", r.batch>> \in DoneBy(q)'
  <2>1. r.batch = c /\ r.run = process[p].version /\ r.config = process[p].config /\ Takes(p, "reveal", c)
    BY <1>2 DEF Reveal
  <2>2. Reveals(c) /\ Running(p) /\ ~StartRun(p)
    <3>1. Reveals(c) /\ Running(p)
      BY <2>1, RevealTakes, RunIs
    <3>. QED  BY <3>1, StartMoves
  <2>3. ASSUME NEW q \in Processes, Running(q)', r.run = process'[q].version
        PROVE  q = p
    <3>1. Running(q) /\ process'[q].version = process[q].version
      BY <2>2, <2>3, DoneStep
    <3>. QED  BY <2>1, <2>2, <2>3, <3>1 DEF RunsApart
  <2>4. Running(p)' => process'[p].config = process[p].config /\ <<"reveal", c>> \in DoneBy(p)'
    <3>1. Moved(p, <<"reveal", c>>, process[p].has, process[p].config)
      BY <1>2, ActionsMove
    <3>. QED  BY <3>1, StoppedIs DEF Moved, Gone, Went, Running
  <2>. QED  BY <2>1, <2>2, <2>3, <2>4
<1>. QED  BY <1>1, <1>2, DataStep

\* A reveal scores what was frozen, for the first time.
LEMMA NewReveal ==
    ASSUME FrozenInv, NEW p \in Processes, NEW b \in Batches, Reveal(p, b), NEW r \in reveals', r \notin reveals
    PROVE  /\ r.batch = b /\ r.run = process[p].version /\ r.config = process[p].config
           /\ Undisturbed => r.scored = r.hash
           /\ ~FreshIds /\ (~DeletesLedger \/ (Marked /\ ~overlapped)) =>
                  \A s \in reveals : s.batch = b => s.run = r.run
           /\ marker /\ bench # "hm_day1" /\ ~overlapped => r.config = selection
<1> DEFINE l == IF process[p].has = 0 THEN ledger ELSE process[p].has
<1>1. /\ r.batch = b /\ r.run = process[p].version /\ r.config = process[p].config
      /\ r.scored = Scored(p, b) /\ r.hash = ledgerRows[l][b].hash /\ Takes(p, "reveal", b)
  BY DEF Reveal
<1>2. /\ RunTypes /\ RunsApart /\ LedgerKept /\ FilesKept /\ RowsKept /\ RevealsKept /\ MarksKept
      /\ bench \in DOMAIN Programs /\ process[p].mode \in {"dev", "final", "diagnostic"}
  BY TypesAre DEF FrozenInv, DataTyped, RunRecords
<1>3. /\ HasRow(p, b)
      /\ Marked /\ bench # "hm_day1" => Selected(p)
      /\ Marked /\ DeletesLedger => <<"mark", 0>> \in DoneBy(p)
      /\ bench \in {"criteo", "hillstrom_economic"} =>
             <<"predict", b>> \in DoneBy(p) /\ <<"close", 0>> \notin DoneBy(p)
  BY <1>1, <1>2, RevealTakes
<1>4. ASSUME Undisturbed
      PROVE  r.scored = r.hash
  <2>1. Calm /\ l = ledger
    <3>1. Calm
      BY <1>4 DEF Undisturbed, Calm, LocksFirst
    <3>. QED  BY <1>2, <3>1 DEF LedgerKept
  <2>2. r.hash = process[p].version
    BY <1>1, <1>2, <1>3, <1>4, <2>1 DEF RowsKept
  <2>3. Scored(p, b) = process[p].version
    BY <1>2, <1>3, <1>4 DEF Scored, FilesKept
  <2>. QED  BY <1>1, <2>2, <2>3
<1>5. ASSUME ~FreshIds, ~DeletesLedger \/ (Marked /\ ~overlapped), NEW s \in reveals, s.batch = b
      PROVE  s.run = r.run
  <2>1. CASE ~DeletesLedger
    BY <1>1, <1>2, <1>3, <1>5, <2>1 DEF RevealsKept
  <2>2. CASE DeletesLedger
    <3>1. bench # "hm_day1"
      BY <1>2, <2>2, RunsInOrder
    <3>. QED  BY <1>1, <1>2, <1>3, <1>5, <2>2, <3>1 DEF MarksKept
  <2>. QED  BY <2>1, <2>2
<1>6. marker /\ bench # "hm_day1" /\ ~overlapped => r.config = selection
  BY <1>1, <1>2, <1>3 DEF MarksKept
<1>. QED  BY <1>1, <1>4, <1>5, <1>6

LEMMA FrozenStep ==
    ASSUME FrozenInv, NEW p \in Processes, RunStep(p)
    PROVE  RevealsAreFrozen'
<1>1. /\ RunTypes /\ RunsApart /\ RevealsKept /\ MarksKept /\ ConfigsKept /\ RevealsAreFrozen
  BY DEF FrozenInv
<1>2. reveals' = reveals \/ \E b \in Batches : Reveal(p, b)
  BY DataStep
<1>3. /\ (LocksFirst' \/ ~overlapped') => Undisturbed
      /\ (~FreshIds' => ~FreshIds) /\ (~DeletesLedger' => ~DeletesLedger) /\ (Marked' => Marked)
      /\ (~overlapped' => ~overlapped) /\ bench' = bench
  BY <1>1, CalmBefore DEF Undisturbed
<1>4. ASSUME ~FreshIds', ~DeletesLedger' \/ (Marked' /\ ~overlapped'), NEW r \in reveals', NEW s \in reveals',
             r.batch = s.batch
      PROVE  r.run = s.run
  <2>1. ~FreshIds /\ (~DeletesLedger \/ (Marked /\ ~overlapped))
    BY <1>3, <1>4
  <2>2. CASE r \in reveals /\ s \in reveals
    BY <1>1, <1>4, <2>1, <2>2 DEF RevealsAreFrozen
  <2>3. CASE r \notin reveals /\ s \notin reveals
    BY <1>2, <1>4, <2>3, NewReveal
  <2>4. CASE r \notin reveals /\ s \in reveals
    BY <1>2, <1>4, <2>1, <2>4, NewReveal
  <2>5. CASE r \in reveals /\ s \notin reveals
    BY <1>2, <1>4, <2>1, <2>5, NewReveal
  <2>. QED  BY <2>2, <2>3, <2>4, <2>5
<1>5. ASSUME LocksFirst' \/ ~overlapped', NEW r \in reveals'
      PROVE  r.scored = r.hash
  <2>1. CASE r \in reveals
    BY <1>1, <1>3, <1>5, <2>1 DEF RevealsAreFrozen, Undisturbed
  <2>2. CASE r \notin reveals
    BY <1>2, <1>3, <1>5, <2>2, NewReveal
  <2>. QED  BY <2>1, <2>2
<1>6. ASSUME marker', bench # "hm_day1", ~overlapped', NEW r \in reveals'
      PROVE  r.config = selection'
  <2>1. ~overlapped
    BY <1>3, <1>6
  <2>2. CASE WriteMarker(p)
    <3>1. Marked /\ Takes(p, "mark", 0) /\ reveals' = reveals /\ selection' = selection
      BY <1>1, <2>2, PlainTakes DEF WriteMarker
    <3>2. /\ <<"unmarked", 0>> \in DoneBy(p) /\ <<"mark", 0>> \notin DoneBy(p)
          /\ Selected(p) /\ ~FreshIds /\ Running(p)
      BY <1>1, <1>6, <3>1, PlainTakes, RunIs
    <3>3. ~marker /\ process[p].config = selection
      BY <1>1, <1>6, <2>1, <3>1, <3>2 DEF MarksKept
    <3>4. CASE DeletesLedger
      BY <1>1, <1>6, <2>1, <3>1, <3>3, <3>4 DEF MarksKept
    <3>5. CASE ~DeletesLedger
      <4>1. Reveals(r.batch) /\ r.batch \in Batches
        BY <1>1, <1>6, <3>1, TypesAre DEF ConfigsKept, DataTyped, RevealRecords
      <4>2. HasRow(p, r.batch)
        BY <1>1, <1>6, <3>1, <4>1, RevealTakes
      <4>3. r.run = process[p].version
        BY <1>1, <1>6, <3>1, <3>2, <3>5, <4>2 DEF RevealsKept
      <4>. QED  BY <1>1, <1>6, <3>1, <3>2, <3>3, <4>3 DEF ConfigsKept
    <3>. QED  BY <3>4, <3>5
  <2>3. CASE ~WriteMarker(p)
    <3>1. marker /\ Marked
      BY <1>1, <1>6, <2>3, DataStep DEF MarksKept
    <3>2. selection' = selection
      <4> SUFFICES ASSUME WriteSelection(p)
                   PROVE  FALSE
        BY DataStep
      <4>1. <<"unmarked", 0>> \in DoneBy(p) /\ <<"mark", 0>> \notin DoneBy(p)
        BY <1>1, <1>6, <3>1, PlainTakes DEF WriteSelection
      <4>. QED  BY <1>1, <1>6, <2>1, <3>1, <4>1 DEF MarksKept
    <3>3. CASE r \in reveals
      BY <1>1, <1>6, <2>1, <3>1, <3>2, <3>3 DEF RevealsAreFrozen
    <3>4. CASE r \notin reveals
      BY <1>2, <1>6, <2>1, <3>1, <3>2, <3>4, NewReveal
    <3>. QED  BY <3>3, <3>4
  <2>. QED  BY <2>2, <2>3
<1>. QED  BY <1>3, <1>4, <1>5, <1>6 DEF RevealsAreFrozen

LEMMA FrozenStarts == FrozenInit => FrozenInv
<1> SUFFICES ASSUME FrozenInit
             PROVE  FrozenInv
  OBVIOUS
<1>1. /\ bench \in DOMAIN Programs /\ runs = 0 /\ ledger = 0 /\ selection = 0 /\ marker = FALSE /\ overlapped = FALSE
      /\ reveals = {} /\ predictionFile = [b \in Batches |-> 0]
      /\ ledgerRows = [l \in 1..MaxRuns |-> [b \in Batches |-> NoRow]]
      /\ \A p \in Processes : process[p] = Stopped
      /\ process = [p \in Processes |-> Stopped]
  BY DEF FrozenInit
<1>2. Len(Program) \in 3..13
  BY <1>1, ProgramsInOrder DEF Program
<1>3. \A p \in Processes : ~Running(p) /\ DoneBy(p) = {} /\ ProgramOf(p) = Program
  <2>1. \A p \in Processes : process[p].at = 0 /\ process[p].mode = "final"
    BY <1>1, StoppedIs
  <2>2. \A p \in Processes : ~Running(p) /\ ProgramOf(p) = Program
    BY <2>1 DEF Running, ProgramOf
  <2>3. \A p \in Processes : DoneBy(p) = {}
    <3>1. \A j : j \notin 1..(0 - 1)
      OBVIOUS
    <3>. QED  BY <2>1, <3>1 DEF DoneBy, StepsBefore
  <2>. QED  BY <2>2, <2>3
<1>4. 0 \in 0..MaxRuns /\ 0 \in 0..Len(Program) /\ 0 <= Len(Program)
  BY <1>2, FrozenAssumption
<1>5. Stopped \in RunRecords /\ NoRow \in RowRecords
  BY <1>4 DEF Stopped, NoRow, RunRecords, RowRecords
<1>6. DataTyped
  <2>1. ledgerRows \in [1..MaxRuns -> [Batches -> RowRecords]] /\ predictionFile \in [Batches -> 0..MaxRuns]
    BY <1>1, <1>4, <1>5
  <2>. QED  BY <1>1, <1>4, <2>1 DEF DataTyped
<1>7. RunsTyped
  BY <1>1, <1>3, <1>4, StoppedIs DEF RunsTyped
<1>8. RunTypes
  <2>1. process \in [Processes -> RunRecords]
    BY <1>1, <1>5
  <2>. QED  BY <1>6, <1>7, <2>1, TypesAre
<1>9. \A p \in Processes : ~HasOpen(p) /\ process[p].has = 0 /\ \A b \in Batches : ~HasRow(p, b)
  BY <1>1, <1>3, StoppedIs DEF HasOpen, HasRow
<1>10. RunsApart /\ LedgerKept /\ FilesKept /\ RowsKept
  BY <1>3, <1>9 DEF RunsApart, LedgerKept, FilesKept, RowsKept
<1>11. RevealsKept /\ MarksKept /\ ConfigsKept /\ RevealsAreFrozen
  BY <1>1, <1>3, <1>9 DEF RevealsKept, MarksKept, ConfigsKept, RevealsAreFrozen, Selected
<1>. QED  BY <1>8, <1>10, <1>11 DEF FrozenInv

LEMMA FrozenKept == FrozenInv /\ [FrozenNext]_frozenVars => FrozenInv'
<1> SUFFICES ASSUME FrozenInv, [FrozenNext]_frozenVars
             PROVE  FrozenInv'
  OBVIOUS
<1>1. CASE UNCHANGED frozenVars
  <2>1. /\ bench' = bench /\ predictionFile' = predictionFile /\ ledger' = ledger /\ ledgerRows' = ledgerRows
        /\ marker' = marker /\ selection' = selection /\ process' = process /\ reveals' = reveals
        /\ overlapped' = overlapped /\ runs' = runs
    BY <1>1 DEF frozenVars
  <2>2. /\ Program' = Program /\ DeletesLedger' = DeletesLedger /\ FreshIds' = FreshIds /\ Marked' = Marked
        /\ LocksFirst' = LocksFirst /\ \A b : Reveals(b)' = Reveals(b)
    BY <2>1, SameProgram
  <2>3. \A p : ProgramOf(p)' = ProgramOf(p) /\ DoneBy(p)' = DoneBy(p) /\ Running(p)' = Running(p)
    BY <2>1, <2>2 DEF ProgramOf, DoneBy, Running, StepsBefore
  <2>4. RunTypes' /\ RunsApart' /\ ConfigsKept'
    BY <2>1, <2>2, <2>3 DEF FrozenInv, RunTypes, RunsTyped, FrozenTypeOK, RunsApart, ConfigsKept
  <2>5. LedgerKept' /\ FilesKept' /\ RowsKept' /\ RevealsKept'
    BY <2>1, <2>2, <2>3 DEF FrozenInv, LedgerKept, FilesKept, RowsKept, RevealsKept, HasOpen, HasRow, Calm, Undisturbed
  <2>6. MarksKept' /\ RevealsAreFrozen'
    BY <2>1, <2>2, <2>3 DEF FrozenInv, MarksKept, RevealsAreFrozen, Selected
  <2>. QED  BY <2>4, <2>5, <2>6 DEF FrozenInv
<1>2. CASE FrozenNext
  <2>1. /\ RunTypes /\ RunsApart /\ LedgerKept /\ FilesKept /\ RowsKept
        /\ RevealsKept /\ MarksKept /\ ConfigsKept /\ RevealsAreFrozen
    BY DEF FrozenInv
  <2>2. PICK p \in Processes : RunStep(p)
    BY <1>2 DEF FrozenNext, RunStep
  <2>3. RunTypes'
    BY <1>2, <2>1, TypesStepFrozen
  <2>4. RunsApart' /\ LedgerKept' /\ FilesKept' /\ RowsKept' /\ RevealsKept' /\ MarksKept' /\ ConfigsKept'
    BY <2>1, <2>2, ApartStep, LedgerStep, PredictionStep, RowsStep, RevealsStep, MarksStep, ConfigsStep
  <2>5. RevealsAreFrozen'
    BY <2>2, FrozenStep
  <2>. QED  BY <2>3, <2>4, <2>5 DEF FrozenInv
<1>. QED  BY <1>1, <1>2

\* However many runs are started, stopped and run beside each other, they keep the order that their
\* programs go by: a run has its ledger to itself between open and close, its predictions and rows stay
\* what it wrote while no other run can replace them, and what it reveals is the row it froze.
THEOREM FrozenInvariant == FrozenSpec => []FrozenInv
BY FrozenStarts, FrozenKept, PTL DEF FrozenSpec

\* For any number of runs of any of the fifteen benchmarks: one run reveals the outcomes of a batch, it
\* scores the version whose hash the ledger held, and a marked benchmark keeps the selection that was
\* revealed, each under the conditions that the scripts give it (append_frozen_batch's primary key, the
\* marker file, the lock DuckDB has on its file).
THEOREM RevealsSafe == FrozenSpec => []RevealsAreFrozen
<1>1. FrozenInv => RevealsAreFrozen
  BY DEF FrozenInv
<1>. QED  BY <1>1, FrozenInvariant, PTL
========================
