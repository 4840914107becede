-------------------------- MODULE MigrationsProofs --------------------------
(***************************************************************************)
(* Proofs about the migration runner, for any number of runners, files and *)
(* image versions, and any failures.                                       *)
(***************************************************************************)
EXTENDS Migrations, TLAPS

\* A fresh database, on which nothing ran yet, satisfies the invariant.
LEMMA InitIndInv == Init => IndInv
BY FilesAssumption
   DEF Init, IndInv, TypeOK, ExactlyOnce, InOrder, AppliedIsRecorded,
       PassedIsRecorded, WithinFiles, ServesMigrated, Running, Ended, Files

\* The commit of a file, reached by Record and by a process that dies on a lost
\* answer: the recorded files stay a prefix in which each counts once.
LEMMA CommitStep ==
  ASSUME IndInv, NEW r \in Runners, pc[r] = "record",
         Path(r) \notin recorded,
         recorded' = recorded \cup {Path(r)},
         executed' = [executed EXCEPT ![Path(r)] = @ + 1]
  PROVE  /\ recorded' \subseteq Files
         /\ executed' \in [Files -> Nat]
         /\ ExactlyOnce'
         /\ InOrder'
<1>1. Path(r) \in Files /\ position[r] <= Version[r]
  BY FilesAssumption DEF IndInv, TypeOK, WithinFiles, Path, Files
<1>2. recorded' \subseteq Files /\ executed' \in [Files -> Nat]
  BY <1>1 DEF IndInv, TypeOK
<1>3. ExactlyOnce'
  BY <1>1 DEF IndInv, TypeOK, ExactlyOnce
<1>4. InOrder'
  <2> SUFFICES ASSUME NEW f \in recorded', NEW g \in 1..f
               PROVE  g \in recorded'
    BY DEF InOrder
  <2>1. CASE f \in recorded
    BY <2>1 DEF IndInv, InOrder
  <2>2. CASE f = Path(r)
    <3>1. f \in Nat /\ g \in Nat /\ g <= f /\ g \in Files
      BY <1>1, <2>2, FilesAssumption DEF Files
    <3>2. CASE g = f
      BY <2>2, <3>2
    <3>3. CASE g < position[r]
      BY <3>1, <3>3 DEF IndInv, PassedIsRecorded, Running
    <3> QED
      BY <2>2, <3>1, <3>2, <3>3 DEF Path
  <2> QED
    BY <2>1, <2>2
<1> QED
  BY <1>2, <1>3, <1>4

\* The table of a step: unchanged, or one more file of a runner that recorded.
LEMMA TableStep ==
  IndInv /\ [Next]_vars =>
    \/ UNCHANGED <<recorded, executed>>
    \/ \E r \in Runners :
         /\ pc[r] = "record" /\ Path(r) \notin recorded
         /\ recorded' = recorded \cup {Path(r)}
         /\ executed' = [executed EXCEPT ![Path(r)] = @ + 1]
BY DEF Next, vars, Progress, Start, CreateTable, SelectApplied, Skip, Execute,
       Record, Finish, StatementFails, Killed, Fault, KeyTaken

\* Nothing is taken back, and the order and the count are kept, by every step.
LEMMA RecordedStep ==
  ASSUME IndInv, [Next]_vars
  PROVE  /\ recorded \subseteq recorded' /\ recorded' \subseteq Files
         /\ executed' \in [Files -> Nat]
         /\ ExactlyOnce'
         /\ InOrder'
<1>1. CASE UNCHANGED <<recorded, executed>>
  BY <1>1 DEF IndInv, TypeOK, ExactlyOnce, InOrder
<1>2. CASE ~UNCHANGED <<recorded, executed>>
  <2>1. PICK r \in Runners :
          /\ pc[r] = "record" /\ Path(r) \notin recorded
          /\ recorded' = recorded \cup {Path(r)}
          /\ executed' = [executed EXCEPT ![Path(r)] = @ + 1]
    BY <1>2, TableStep
  <2> QED
    BY <2>1, CommitStep
<1> QED
  BY <1>1, <1>2

\* Each runner stays where the prefix it knows of allows it to be.
LEMMA RunnerStep ==
  ASSUME IndInv, [Next]_vars
  PROVE  /\ pc' \in [Runners -> Running \cup Ended]
         /\ applied' \in [Runners -> SUBSET Files]
         /\ position' \in [Runners -> 1..(NumFiles + 1)]
         /\ AppliedIsRecorded'
         /\ PassedIsRecorded'
         /\ WithinFiles'
         /\ ServesMigrated'
<1> DEFINE Kept(q) ==
      /\ applied'[q] \subseteq recorded'
      /\ pc'[q] \in Running =>
           \A f \in Files : f < position'[q] => f \in recorded'
      /\ pc'[q] = "record" => position'[q] <= Version[q]
      /\ pc'[q] = "up_to_date" => 1..Version[q] \subseteq recorded'
<1> DEFINE Typed ==
      /\ pc' \in [Runners -> Running \cup Ended]
      /\ applied' \in [Runners -> SUBSET Files]
      /\ position' \in [Runners -> 1..(NumFiles + 1)]
<1>1. /\ recorded \subseteq recorded' /\ recorded \subseteq Files
      /\ NumFiles \in Nat
      /\ \A q \in Runners : Version[q] \in 0..NumFiles
      /\ pc \in [Runners -> Running \cup Ended]
      /\ applied \in [Runners -> SUBSET Files]
      /\ position \in [Runners -> 1..(NumFiles + 1)]
  BY RecordedStep, FilesAssumption DEF IndInv, TypeOK
<1>2. ASSUME NEW q \in Runners,
             pc'[q] = pc[q], applied'[q] = applied[q], position'[q] = position[q]
      PROVE  Kept(q)
  BY <1>1, <1>2 DEF IndInv, AppliedIsRecorded, PassedIsRecorded, WithinFiles,
                    ServesMigrated
<1>3. ASSUME UNCHANGED vars PROVE Typed /\ \A q \in Runners : Kept(q)
  BY <1>1, <1>2, <1>3 DEF vars
<1>4. ASSUME NEW r \in Runners,
             Start(r) \/ Progress(r) \/ StatementFails(r) \/ Killed(r)
      PROVE  Typed /\ \A q \in Runners : Kept(q)
  <2> USE DEF Goto, Raised, NextPosition, Path
  <2>1. applied[r] \subseteq recorded
    BY DEF IndInv, AppliedIsRecorded
  <2>2. pc[r] \in Running =>
          \A f \in Files : f < position[r] => f \in recorded
    BY DEF IndInv, PassedIsRecorded
  <2>3. \A q \in Runners : q # r => Kept(q)
    <3>1. ASSUME NEW q \in Runners, q # r
          PROVE  /\ pc'[q] = pc[q] /\ applied'[q] = applied[q]
                 /\ position'[q] = position[q]
      BY <1>1, <1>4, <3>1
         DEF Start, Progress, CreateTable, SelectApplied, Skip, Execute,
             Record, Finish, StatementFails, Killed, Fault
    <3> QED
      BY <1>2, <3>1
  <2> HIDE DEF Kept
  <2>4. ASSUME Start(r) PROVE Typed /\ Kept(r)
    BY <1>1, <2>4 DEF Start, Running, Ended, Kept, Files
  <2>5. ASSUME CreateTable(r) PROVE Typed /\ Kept(r)
    BY <1>1, <2>1, <2>2, <2>5 DEF CreateTable, Running, Ended, Kept
  <2>6. ASSUME SelectApplied(r) PROVE Typed /\ Kept(r)
    BY <1>1, <2>2, <2>6 DEF SelectApplied, Running, Ended, Kept
  <2>7. ASSUME Skip(r) PROVE Typed /\ Kept(r)
    <3>1. Typed
      BY <1>1, <2>7 DEF Skip
    <3>2. /\ pc'[r] = "apply" /\ applied'[r] = applied[r]
          /\ position'[r] = position[r] + 1 /\ position[r] \in recorded
      BY <1>1, <2>1, <2>7 DEF Skip
    <3>3. \A f \in Files : f < position'[r] => f \in recorded
      BY <1>1, <2>2, <2>7, <3>2 DEF Skip, Running, Files
    <3> QED
      BY <1>1, <2>1, <3>1, <3>2, <3>3 DEF Kept
  <2>8. ASSUME Execute(r) PROVE Typed /\ Kept(r)
    BY <1>1, <2>1, <2>2, <2>8 DEF Execute, Running, Ended, Kept
  <2>9. ASSUME Record(r) PROVE Typed /\ Kept(r)
    <3>1. position[r] <= Version[r]
      BY <2>9 DEF Record, IndInv, WithinFiles
    <3>2. Typed
      BY <1>1, <2>9, <3>1 DEF Record, Running, Ended
    <3>3. CASE KeyTaken(Path(r))
      <4>1. pc'[r] = "failed" /\ applied'[r] = applied[r]
        BY <1>1, <2>9, <3>3 DEF Record
      <4> QED
        BY <1>1, <2>1, <3>2, <4>1 DEF Kept, Running
    <3>4. CASE ~KeyTaken(Path(r))
      <4>1. /\ pc'[r] = "apply" /\ applied'[r] = applied[r]
            /\ position'[r] = position[r] + 1 /\ position[r] \in recorded'
        BY <1>1, <2>9, <3>4 DEF Record
      <4>2. \A f \in Files : f < position'[r] => f \in recorded'
        BY <1>1, <2>2, <2>9, <4>1 DEF Record, Running, Files
      <4> QED
        BY <1>1, <2>1, <3>2, <4>1, <4>2 DEF Kept
    <3> QED
      BY <3>3, <3>4
  <2>10. ASSUME Finish(r) PROVE Typed /\ Kept(r)
    <3>1. 1..Version[r] \subseteq recorded
      BY <1>1, <2>2, <2>10 DEF Finish, Running, Files
    <3> QED
      BY <1>1, <2>1, <2>10, <3>1 DEF Finish, Running, Ended, Kept
  <2>11. ASSUME StatementFails(r) PROVE Typed /\ Kept(r)
    BY <1>1, <2>1, <2>11 DEF StatementFails, Running, Ended, Kept
  <2>12. ASSUME Killed(r) PROVE Typed /\ Kept(r)
    BY <1>1, <2>1, <2>12 DEF Killed, Running, Ended, Kept
  <2> QED
    BY <1>4, <2>3, <2>4, <2>5, <2>6, <2>7, <2>8, <2>9, <2>10, <2>11, <2>12
       DEF Progress
<1>5. Typed /\ \A q \in Runners : Kept(q)
  BY <1>3, <1>4 DEF Next
<1> QED
  BY <1>5 DEF AppliedIsRecorded, PassedIsRecorded, WithinFiles, ServesMigrated

\* Failures are counted up to their bound.
LEMMA FaultsStep ==
  ASSUME IndInv, [Next]_vars
  PROVE  faults' \in 0..MaxFaults
BY FilesAssumption
   DEF IndInv, TypeOK, Next, vars, Start, Progress, CreateTable, SelectApplied,
       Skip, Execute, Record, Finish, StatementFails, Killed, Fault

\* The recorded files are always a prefix, each applied once, and every runner
\* is at most one past the part of it that it knows.
THEOREM Invariance == Spec => []IndInv
<1>1. IndInv /\ [Next]_vars => IndInv'
  BY RecordedStep, RunnerStep, FaultsStep DEF IndInv, TypeOK
<1> QED
  BY InitIndInv, <1>1, PTL DEF Spec

\* However many containers run the migrations at once, and wherever they are
\* killed, each file is applied exactly once: schema_migrations tells the truth.
THEOREM ExactlyOnceHolds == Spec => []ExactlyOnce
<1>1. IndInv => ExactlyOnce
  BY DEF IndInv
<1> QED
  BY Invariance, <1>1, PTL

\* No file is applied before one that sorts before it.
THEOREM InOrderHolds == Spec => []InOrder
<1>1. IndInv => InOrder
  BY DEF IndInv
<1> QED
  BY Invariance, <1>1, PTL

\* A backend whose runner reported success serves on a complete schema.
THEOREM ServesMigratedHolds == Spec => []ServesMigrated
<1>1. IndInv => ServesMigrated
  BY DEF IndInv
<1> QED
  BY Invariance, <1>1, PTL

-----------------------------------------------------------------------------
(* Migrations implements SchemaHistory.                                    *)

\* An empty database is at version 0, and nobody serves.
LEMMA InitRefines == Init => History!Init
BY DEF Init, History!Init, Serving, Files

\* The next file after a prefix of the recorded ones: the schema is at the
\* version before it.
LEMMA VersionBefore ==
  ASSUME IndInv, NEW n \in Files, n \notin recorded, 1..(n - 1) \subseteq recorded
  PROVE  History!AtVersion(n - 1)
<1> SUFFICES ASSUME NEW f \in Files
             PROVE  executed[f] = IF f <= n - 1 THEN 1 ELSE 0
  BY DEF History!AtVersion, Files
<1>1. f > n - 1 => f \notin recorded
  <2>1. f > n - 1 => n \in 1..f
    BY FilesAssumption DEF Files
  <2> QED
    BY <2>1 DEF IndInv, InOrder
<1>2. f <= n - 1 => f \in recorded
  BY FilesAssumption DEF Files
<1> QED
  BY <1>1, <1>2, FilesAssumption DEF IndInv, ExactlyOnce, Files

\* A commit takes the schema to its next version, and no backend serves less.
LEMMA UpgradeStep ==
  ASSUME IndInv, NEW r \in Runners, pc[r] = "record", Path(r) \notin recorded,
         executed' = [executed EXCEPT ![Path(r)] = @ + 1],
         UNCHANGED Serving
  PROVE  History!Next
<1>1. Path(r) \in Files
  BY FilesAssumption DEF IndInv, TypeOK, WithinFiles, Path, Files
<1>2. 1..(Path(r) - 1) \subseteq recorded
  <2> SUFFICES ASSUME NEW f \in 1..(Path(r) - 1) PROVE f \in recorded
    OBVIOUS
  <2>1. f \in Files /\ f < position[r]
    BY <1>1, FilesAssumption DEF Path, Files
  <2> QED
    BY <2>1 DEF IndInv, PassedIsRecorded, Running
<1>3. executed' = [executed EXCEPT ![Path(r)] = 1]
  <2>1. executed[Path(r)] = 0
    BY <1>1 DEF IndInv, ExactlyOnce
  <2> QED
    BY <2>1
<1>4. History!Upgrade(Path(r))
  BY <1>1, <1>2, <1>3, VersionBefore DEF History!Upgrade
<1> QED
  BY <1>1, <1>4 DEF History!Next, Files

\* Every step of a runner is an upgrade, a backend's start or stop, or invisible.
LEMMA NextRefines ==
  ASSUME IndInv, [Next]_vars
  PROVE  [History!Next]_(History!schema)
<1>1. CASE UNCHANGED vars
  BY <1>1 DEF vars, History!schema, Serving
<1>2. ASSUME NEW r \in Runners, Start(r) PROVE History!Next
  <2>1. Serving' = Serving \ {r} /\ UNCHANGED executed
    BY <1>2 DEF Start, Goto, Serving, IndInv, TypeOK
  <2> QED
    BY <2>1 DEF History!Next, History!Stop
<1>3. ASSUME NEW r \in Runners, Finish(r) PROVE History!Next
  <2>1. Serving' = Serving \cup {r} /\ UNCHANGED executed
    BY <1>3 DEF Finish, Goto, Serving, IndInv, TypeOK
  <2>2. 1..Version[r] \subseteq recorded
    <3>1. Version[r] \in 0..NumFiles /\ position[r] \in 1..(NumFiles + 1)
      BY FilesAssumption DEF IndInv, TypeOK
    <3> QED
      BY <1>3, <3>1, FilesAssumption
         DEF Finish, IndInv, PassedIsRecorded, Running, Files
  <2>3. \A f \in 1..Version[r] : executed[f] = 1
    BY <2>2 DEF IndInv, TypeOK, ExactlyOnce
  <2> QED
    BY <2>1, <2>3 DEF History!Next, History!Serve
<1>4. ASSUME NEW r \in Runners,
             \/ CreateTable(r) \/ SelectApplied(r) \/ Skip(r) \/ Execute(r)
             \/ Record(r) \/ StatementFails(r) \/ Killed(r)
      PROVE  History!Next \/ UNCHANGED History!schema
  <2>1. UNCHANGED Serving
    <3>1. /\ pc[r] # "up_to_date" /\ pc'[r] # "up_to_date"
          /\ \A q \in Runners \ {r} : pc'[q] = pc[q]
      BY <1>4 DEF CreateTable, SelectApplied, Skip, Execute, Record, Goto, Raised,
                  StatementFails, Killed, Running, IndInv, TypeOK
    <3> QED
      BY <3>1 DEF Serving
  <2>2. CASE UNCHANGED executed
    BY <2>1, <2>2 DEF History!schema
  <2>3. CASE ~UNCHANGED executed
    <3>1. /\ pc[r] = "record" /\ Path(r) \notin recorded
          /\ executed' = [executed EXCEPT ![Path(r)] = @ + 1]
      BY <1>4, <2>3 DEF CreateTable, SelectApplied, Skip, Execute, Record,
                        StatementFails, Killed, KeyTaken
    <3> QED
      BY <2>1, <3>1, UpgradeStep
  <2> QED
    BY <2>2, <2>3
<1> QED
  BY <1>1, <1>2, <1>3, <1>4 DEF Next, Progress

\* Any number of runners, racing, failing and started again, are one history of
\* one schema, and every backend that serves has its version of it.
THEOREM HistoryRefinement == Spec => ImplementsHistory
<1>1. IndInv /\ [Next]_vars => [History!Next]_(History!schema)
  BY NextRefines
<1> QED
  BY <1>1, InitRefines, Invariance, PTL DEF Spec, ImplementsHistory, History!Spec

=============================================================================
