-------------------------- MODULE BackfillJobsProofs --------------------------
(***************************************************************************)
(* Theorems about BackfillJobs, for any documents, bids and batch size,    *)
(* any finite number of jobs at a time and any number of failures.         *)
(***************************************************************************)
EXTENDS BackfillJobs, FiniteSetTheorems, TLAPS

\* The jobs that may store qualifications, and those of them that have looked for the
\* qualifications of d and found none.
QualSlots == {s \in Slots : StageOf[s] = "qual"}
Writers(d) == {s \in QualSlots : jobs[s][d] = "working"}

\* What was written is stored: it is never removed.
WrittenIsStored == \A d \in Documents : writes[d] > 0 => d \in stored["qual"]

\* Every write of a document has used up one of the jobs that were ahead of the first.
Budget ==
    \A d \in Documents : writes[d] + Cardinality(Writers(d)) <= Cardinality(QualSlots)

IInv == TypeOK /\ WrittenIsStored /\ Budget

-------------------------------------------------------------------------------
(* Types.                                                                   *)

LEMMA FirstStepType == ASSUME NEW s \in Slots PROVE FirstStep(s) \in {"queued", "working"}
  BY DEF FirstStep

LEMMA ToType ==
    ASSUME TypeOK, NEW s \in Slots, NEW d \in Documents, NEW step \in Steps, To(s, d, step)
    PROVE  jobs' \in [Slots -> [Documents -> Steps]]
  BY DEF TypeOK, To

LEMMA StartType ==
    ASSUME TypeOK, NEW s \in Slots, StartJob(s)
    PROVE  jobs' \in [Slots -> [Documents -> Steps]]
  <1>1. FirstStep(s) \in Steps /\ "none" \in Steps
    BY FirstStepType DEF Steps
  <1>2. PICK manifest \in Manifests(StageOf[s]) \ {{}} :
            jobs' = [jobs EXCEPT ![s] = [d \in Documents |->
                        IF d \in manifest THEN FirstStep(s) ELSE "none"]]
    BY DEF StartJob
  <1>3. [d \in Documents |-> IF d \in manifest THEN FirstStep(s) ELSE "none"]
            \in [Documents -> Steps]
    BY <1>1
  <1> QED BY <1>2, <1>3 DEF TypeOK

\* The step of a task changes its place in the job and, when it stores its output, the
\* outputs; that of a loader changes the rows and nothing about the jobs.
LEMMA TaskType ==
    ASSUME TypeOK, NEW s \in Slots, NEW d \in Documents,
           Task(s, d) \/ FailPermanently(s, d) \/ FailTemporarily(s, d)
    PROVE  TypeOK'
  <1> USE DEF TypeOK
  <1> DEFINE Same == UNCHANGED <<files, rows, loader, hopeless>>
  <1>1. FirstStep(s) \in Steps /\ {"none", "queued", "working", "answered"} \subseteq Steps
    BY FirstStepType DEF Steps
  <1>2. CASE Check(s, d)
    <2>1. (IF Exists(d) THEN "answered" ELSE "working") \in Steps
      BY <1>1
    <2> QED BY <1>2, <2>1, ToType DEF Check
  <1>3. CASE Complete(s, d)
    <2>1. jobs' \in [Slots -> [Documents -> Steps]]
      BY <1>1, <1>3, ToType DEF Complete
    <2>2. stored' \in [{"text", "qual"} -> SUBSET Documents]
      BY <1>3 DEF Complete, Put
    <2>3. writes' \in [Documents -> Nat]
      BY <1>3 DEF Complete, Put
    <2> QED BY <1>3, <2>1, <2>2, <2>3 DEF Complete
  <1>4. CASE Reject(s, d)
    BY <1>1, <1>4, ToType DEF Reject
  <1>5. CASE Succeed(s, d)
    BY <1>1, <1>5, ToType DEF Succeed
  <1>6. CASE FailPermanently(s, d)
    BY <1>1, <1>6, ToType, JobsAssumption DEF FailPermanently
  <1>7. CASE FailTemporarily(s, d)
    <2>1. jobs' \in [Slots -> [Documents -> Steps]]
      BY <1>1, <1>7, ToType DEF FailTemporarily
    <2> QED BY <1>7, <2>1, JobsAssumption DEF FailTemporarily
  <1> QED BY <1>2, <1>3, <1>4, <1>5, <1>6, <1>7 DEF Task

LEMMA LoaderType ==
    ASSUME TypeOK, StartLoader \/ LoadBatch \/ EndLoader \/ LoadStops \/ LoadFails
    PROVE  TypeOK'
  <1> USE DEF TypeOK
  <1>1. CASE StartLoader
    <2>1. Updatable(stored["qual"]) \subseteq Bids
      BY JobsAssumption DEF Updatable
    <2> QED BY <1>1, <2>1 DEF StartLoader
  <1>2. CASE LoadBatch
    <2>1. PICK S \in SUBSET Bids : rows \in [S -> [documents : SUBSET Documents, verified : BOOLEAN]]
      OBVIOUS
    <2>2. loader \in [todo : SUBSET Bids, copy : SUBSET Documents]
      BY <1>2 DEF LoadBatch
    <2>3. \A b \in S : Update(b) \in [documents : SUBSET Documents, verified : BOOLEAN]
      BY <2>1, <2>2 DEF Update, DocumentsOf
    <2>4. rows' = [b \in S |-> IF b \in Batch THEN Update(b) ELSE rows[b]]
      BY <1>2, <2>1 DEF LoadBatch
    <2>5. rows' \in [S -> [documents : SUBSET Documents, verified : BOOLEAN]]
      BY <2>1, <2>3, <2>4
    <2> QED BY <1>2, <2>2, <2>5 DEF LoadBatch
  <1>3. CASE EndLoader
    BY <1>3 DEF EndLoader
  <1>4. CASE LoadStops \/ LoadFails
    BY <1>4, JobsAssumption DEF LoadStops, LoadFails
  <1> QED BY <1>1, <1>2, <1>3, <1>4

LEMMA TypeStep == TypeOK /\ [Next]_vars => TypeOK'
  <1> SUFFICES ASSUME TypeOK, [Next]_vars PROVE TypeOK'
    OBVIOUS
  <1> USE DEF TypeOK
  <1>1. CASE \E d \in Documents : Arrive(d)
    BY <1>1 DEF Arrive
  <1>2. ASSUME NEW b \in Bids, RowArrives(b) \/ Verify(b) PROVE TypeOK'
    <2>1. PICK S \in SUBSET Bids : rows \in [S -> [documents : SUBSET Documents, verified : BOOLEAN]]
      OBVIOUS
    <2>2. CASE RowArrives(b)
      <3>1. rows' = [c \in S \union {b} |->
                        IF c = b THEN [documents |-> {}, verified |-> FALSE] ELSE rows[c]]
        BY <2>1, <2>2 DEF RowArrives
      <3>2. rows' \in [S \union {b} -> [documents : SUBSET Documents, verified : BOOLEAN]]
        BY <2>1, <3>1
      <3>3. S \union {b} \in SUBSET Bids
        OBVIOUS
      <3> QED BY <2>2, <3>2, <3>3 DEF RowArrives
    <2>3. CASE Verify(b)
      <3>1. rows' \in [S -> [documents : SUBSET Documents, verified : BOOLEAN]]
        BY <2>1, <2>3 DEF Verify
      <3> QED BY <2>3, <3>1 DEF Verify
    <2> QED BY <1>2, <2>2, <2>3
  <1>3. ASSUME NEW s \in Slots, StartJob(s) PROVE TypeOK'
    BY <1>3, StartType DEF StartJob
  <1>4. CASE \E s \in Slots, d \in Documents :
                Task(s, d) \/ FailPermanently(s, d) \/ FailTemporarily(s, d)
    BY <1>4, TaskType
  <1>5. CASE StartLoader \/ LoadBatch \/ EndLoader \/ LoadStops \/ LoadFails
    BY <1>5, LoaderType
  <1>6. CASE UNCHANGED vars
    BY <1>6 DEF vars
  <1> QED BY <1>1, <1>2, <1>3, <1>4, <1>5, <1>6 DEF Next

-------------------------------------------------------------------------------
(* The budget of writes.                                                    *)

LEMMA WritersFinite ==
    ASSUME NEW d \in Documents
    PROVE  /\ IsFiniteSet(QualSlots) /\ Cardinality(QualSlots) \in Nat
           /\ IsFiniteSet(Writers(d)) /\ Cardinality(Writers(d)) \in Nat
           /\ Cardinality(Writers(d)) <= Cardinality(QualSlots)
  <1>1. IsFiniteSet(QualSlots)
    BY JobsAssumption, FS_Subset DEF QualSlots
  <1>2. Writers(d) \in SUBSET QualSlots
    BY DEF Writers
  <1> QED BY <1>1, <1>2, FS_Subset, FS_CardinalityType

LEMMA WritersFiniteNext ==
    ASSUME NEW d \in Documents
    PROVE  IsFiniteSet(Writers(d)') /\ Cardinality(Writers(d)') \in Nat
  <1>1. Writers(d)' \in SUBSET QualSlots
    BY DEF Writers, QualSlots
  <1> QED BY <1>1, WritersFinite, FS_Subset, FS_CardinalityType

\* A step that takes no document to be written again keeps the budget.
LEMMA FewerWriters ==
    ASSUME IInv, TypeOK', writes' = writes, stored["qual"] \subseteq stored'["qual"],
           \A d \in Documents : Writers(d)' \subseteq Writers(d)
    PROVE  IInv'
  <1>1. WrittenIsStored'
    BY DEF IInv, WrittenIsStored
  <1>2. ASSUME NEW d \in Documents
        PROVE  writes'[d] + Cardinality(Writers(d)') <= Cardinality(QualSlots)
    <2>1. Cardinality(Writers(d)') <= Cardinality(Writers(d))
      BY WritersFinite, FS_Subset
    <2>2. writes[d] + Cardinality(Writers(d)) <= Cardinality(QualSlots) /\ writes[d] \in Nat
      BY DEF IInv, Budget, TypeOK
    <2> QED BY <2>1, <2>2, WritersFinite, WritersFiniteNext
  <1>3. Budget'
    BY <1>2 DEF Budget, QualSlots
  <1> QED BY <1>1, <1>3 DEF IInv

\* The look for the qualifications: nothing was written of a document that has none.
LEMMA CheckKeeps ==
    ASSUME IInv, TypeOK', NEW s \in Slots, NEW d \in Documents, Check(s, d)
    PROVE  IInv'
  <1>1. writes' = writes /\ stored' = stored
    BY DEF Check
  <1>2. ASSUME NEW e \in Documents
        PROVE  writes'[e] + Cardinality(Writers(e)') <= Cardinality(QualSlots)
    <2>1. CASE e # d \/ Exists(d)
      <3>1. Writers(e)' \subseteq Writers(e)
        BY <2>1 DEF Check, To, At, Writers, IInv, TypeOK
      <3>2. Cardinality(Writers(e)') <= Cardinality(Writers(e))
        BY <3>1, WritersFinite, FS_Subset
      <3>3. writes[e] + Cardinality(Writers(e)) <= Cardinality(QualSlots) /\ writes[e] \in Nat
        BY DEF IInv, Budget, TypeOK
      <3> QED BY <1>1, <3>2, <3>3, WritersFinite, WritersFiniteNext
    <2>2. CASE e = d /\ ~Exists(d)
      <3>1. writes[e] = 0
        BY <2>2 DEF Exists, IInv, WrittenIsStored, TypeOK
      <3>2. Writers(e)' \in SUBSET QualSlots
        BY DEF Writers, QualSlots
      <3>3. Cardinality(Writers(e)') <= Cardinality(QualSlots)
        BY <3>2, WritersFinite, FS_Subset
      <3> QED BY <1>1, <3>1, <3>3, WritersFiniteNext, WritersFinite
    <2> QED BY <2>1, <2>2
  <1>3. Budget'
    BY <1>2 DEF Budget, QualSlots
  <1>4. WrittenIsStored'
    BY <1>1 DEF IInv, WrittenIsStored
  <1> QED BY <1>3, <1>4 DEF IInv

\* The write itself: the job has done with the document.
LEMMA CompleteKeeps ==
    ASSUME IInv, TypeOK', NEW s \in Slots, NEW d \in Documents, Complete(s, d)
    PROVE  IInv'
  <1> USE DEF IInv, TypeOK
  <1>1. jobs' = [jobs EXCEPT ![s][d] = "answered"] /\ jobs[s][d] = "working"
    BY DEF Complete, To, At
  <1>2. stored["qual"] \subseteq stored'["qual"]
    BY DEF Complete, Put
  <1>3. \A e \in Documents : Writers(e)' \subseteq Writers(e)
    BY <1>1 DEF Writers
  <1>4. CASE StageOf[s] # "qual"
    <2>1. writes' = writes
      BY <1>4 DEF Complete, Put
    <2> QED BY <1>2, <1>3, <2>1, FewerWriters
  <1>5. CASE StageOf[s] = "qual"
    <2>1. writes' = [writes EXCEPT ![d] = @ + 1] /\ d \in stored'["qual"]
      BY <1>5 DEF Complete, Put
    <2>2. WrittenIsStored'
      BY <1>2, <2>1 DEF WrittenIsStored
    <2>3. Writers(d)' = Writers(d) \ {s} /\ s \in Writers(d)
      BY <1>1, <1>5 DEF Writers, QualSlots
    <2>4. Cardinality(Writers(d)') = Cardinality(Writers(d)) - 1
      BY <2>3, WritersFinite, FS_RemoveElement
    <2>5. ASSUME NEW e \in Documents
          PROVE  writes'[e] + Cardinality(Writers(e)') <= Cardinality(QualSlots)
      <3>1. writes[e] + Cardinality(Writers(e)) <= Cardinality(QualSlots) /\ writes[e] \in Nat
        BY DEF Budget
      <3>2. CASE e = d
        BY <2>1, <2>4, <3>1, <3>2, WritersFinite, WritersFiniteNext
      <3>3. CASE e # d
        <4>1. Cardinality(Writers(e)') <= Cardinality(Writers(e))
          BY <1>3, WritersFinite, FS_Subset
        <4> QED BY <2>1, <3>1, <3>3, <4>1, WritersFinite, WritersFiniteNext
      <3> QED BY <3>2, <3>3
    <2>6. Budget'
      BY <2>5 DEF Budget, QualSlots
    <2> QED BY <2>2, <2>6
  <1> QED BY <1>4, <1>5

LEMMA InitIInv == Init => IInv
  <1> SUFFICES ASSUME Init PROVE IInv
    OBVIOUS
  <1>1. TypeOK
    <2>1. rows \in [{} -> [documents : SUBSET Documents, verified : BOOLEAN]]
      BY DEF Init
    <2>2. rows \in UNION {[S -> [documents : SUBSET Documents, verified : BOOLEAN]] :
                              S \in SUBSET Bids}
      BY <2>1
    <2>3. /\ stored \in [{"text", "qual"} -> SUBSET Documents]
          /\ jobs \in [Slots -> [Documents -> Steps]]
      BY JobsAssumption DEF Init, Steps
    <2>4. writes \in [Documents -> Nat] /\ faults \in 0 .. MaxFaults
      BY JobsAssumption DEF Init
    <2>5. files \subseteq Documents /\ hopeless \in Hopeless /\ loader \in {Ready}
      BY JobsAssumption DEF Init
    <2> QED BY <2>2, <2>3, <2>4, <2>5 DEF TypeOK
  <1>2. WrittenIsStored
    BY DEF Init, WrittenIsStored
  <1>3. Budget
    BY WritersFinite DEF Init, Budget
  <1> QED BY <1>1, <1>2, <1>3 DEF IInv

LEMMA StepIInv == IInv /\ [Next]_vars => IInv'
  <1> SUFFICES ASSUME IInv, [Next]_vars PROVE IInv'
    OBVIOUS
  <1>0. TypeOK /\ TypeOK'
    BY TypeStep DEF IInv
  <1> DEFINE Quiet == UNCHANGED <<stored, writes, jobs>>
  <1>1. CASE Quiet
    BY <1>0, <1>1, FewerWriters DEF Writers
  <1>2. ASSUME NEW s \in Slots, StartJob(s) PROVE IInv'
    <2>1. PICK manifest \in Manifests(StageOf[s]) \ {{}} :
              jobs' = [jobs EXCEPT ![s] = [d \in Documents |->
                          IF d \in manifest THEN FirstStep(s) ELSE "none"]]
      BY <1>2 DEF StartJob
    <2>2. \A d \in Documents : Writers(d)' \subseteq Writers(d)
      BY <1>0, <2>1 DEF Writers, QualSlots, FirstStep, TypeOK
    <2> QED BY <1>0, <1>2, <2>2, FewerWriters DEF StartJob
  <1>3. ASSUME NEW s \in Slots, NEW d \in Documents,
               Reject(s, d) \/ Succeed(s, d) \/ FailPermanently(s, d) \/ FailTemporarily(s, d)
        PROVE  IInv'
    <2>1. To(s, d, "none") \/ To(s, d, FirstStep(s))
      BY <1>3 DEF Reject, Succeed, FailPermanently, FailTemporarily
    <2>2. \A e \in Documents : Writers(e)' \subseteq Writers(e)
      BY <1>0, <2>1 DEF Writers, QualSlots, FirstStep, To, TypeOK
    <2>3. UNCHANGED <<stored, writes>>
      BY <1>3 DEF Reject, Succeed, FailPermanently, FailTemporarily
    <2> QED BY <1>0, <2>2, <2>3, FewerWriters
  <1>4. ASSUME NEW s \in Slots, NEW d \in Documents, Check(s, d) PROVE IInv'
    BY <1>0, <1>4, CheckKeeps
  <1>5. ASSUME NEW s \in Slots, NEW d \in Documents, Complete(s, d) PROVE IInv'
    BY <1>0, <1>5, CompleteKeeps
  <1> QED BY <1>1, <1>2, <1>3, <1>4, <1>5
          DEF Next, Task, vars, Arrive, RowArrives, Verify, StartLoader, LoadBatch,
              EndLoader, LoadStops, LoadFails

-------------------------------------------------------------------------------
(* The theorems.                                                            *)

\* The inductive invariant of the jobs and their loader.
THEOREM Invariance == Spec => []IInv
  BY InitIInv, StepIInv, PTL DEF Spec

\* The types hold for every number of documents, bids and jobs.
THEOREM TypeCorrect == Spec => []TypeOK
  <1>1. IInv => TypeOK
    BY DEF IInv
  <1> QED BY <1>1, Invariance, PTL

\* However many jobs follow each other and however often their tasks are repeated, the
\* qualifications of a document are stored at most once for each job that can run at a
\* time (process_task, pipeline/backfill).
THEOREM StoredOncePerSlotHolds == Spec => []StoredOncePerSlot
  <1>1. ASSUME IInv, NEW d \in Documents PROVE writes[d] <= Cardinality(QualSlots)
    <2>1. writes[d] + Cardinality(Writers(d)) <= Cardinality(QualSlots) /\ writes[d] \in Nat
      BY <1>1 DEF IInv, TypeOK, Budget
    <2> QED BY <2>1, WritersFinite
  <1>2. IInv => StoredOncePerSlot
    BY <1>1 DEF StoredOncePerSlot, QualSlots
  <1> QED BY <1>2, Invariance, PTL

\* A row a person has verified is never written again, whatever the loader has read
\* before (build_update_sql).
THEOREM VerifiedRowsStayHolds == Spec => VerifiedRowsStay
  <1>1. ASSUME [Next]_vars, NEW b \in DOMAIN rows, rows[b].verified
        PROVE  rows'[b] = rows[b]
    <2>1. CASE \E c \in Bids : RowArrives(c)
      BY <1>1, <2>1 DEF RowArrives
    <2>2. CASE \E c \in Bids : Verify(c)
      BY <1>1, <2>2 DEF Verify
    <2>3. CASE LoadBatch
      BY <1>1, <2>3 DEF LoadBatch, Update
    <2>4. CASE UNCHANGED rows
      BY <2>4
    <2> QED BY <1>1, <2>1, <2>2, <2>3, <2>4
            DEF Next, Task, vars, Arrive, StartJob, Check, Complete, Reject, Succeed,
                FailPermanently, FailTemporarily, StartLoader, EndLoader, LoadStops, LoadFails
  <1>2. [Next]_vars => [\A b \in DOMAIN rows : rows[b].verified => rows'[b] = rows[b]]_vars
    BY <1>1
  <1> QED BY <1>2, PTL DEF Spec, VerifiedRowsStay

===============================================================================
