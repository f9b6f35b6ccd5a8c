--------------------------- MODULE Migrations_proofs ---------------------------
(***************************************************************************)
(* Proofs about Migrations, for any number of migrations, commands and     *)
(* servers, when all commands are runs of the servers' binary.             *)
(***************************************************************************)
EXTENDS Migrations, TLAPS

\* Every command is a run of the current binary.
SameBuild == \A p \in Runners : Built[p] = Latest

Running == {"execute", "record", "commit"}

\* A command is inside the locked part exactly while it holds the lock.
LockOwned == \A p \in Runners : pc[p] \in Inside <=> lock = p

\* What the open transaction has done, stage by stage.
TxStaged ==
    \A p \in Runners :
        tx[p] = IF pc[p] = "record" THEN {"script"}
                ELSE IF pc[p] = "commit" THEN {"script", "row"} ELSE {}

\* Going up, the loop has applied everything it has passed; going down, it
\* still has what it read.
LoopSound ==
    \A p \in Runners :
        /\ pc[p] = "pick" /\ dir[p] = "up" => applied = status[p] \cup (1 .. at[p])
        /\ pc[p] = "pick" /\ dir[p] = "down" => applied = status[p] /\ at[p] = Latest + 1
        /\ pc[p] \in Running /\ dir[p] = "up" => at[p] \in Versions /\ status[p] \subseteq applied
        /\ pc[p] \in Running /\ dir[p] = "down" => at[p] \in Versions

IInv ==
    /\ TypeOK
    /\ LockOwned
    /\ TxStaged
    /\ HistoryIntact
    /\ LoopSound
    /\ ScriptFitsSchema

\* What the loop of RunUp or RunDown picks next: the version after the last
\* applied one, or the last applied one.
LEMMA PickedNext ==
    ASSUME NEW p \in Runners, SameBuild, IInv, pc[p] = "pick", Due(p) # {}
    PROVE  /\ Following(p) \in Versions
           /\ applied = IF dir[p] = "up" THEN 1 .. (Following(p) - 1) ELSE 1 .. Following(p)
  <1>1. Latest \in Nat /\ Files(p) = Versions /\ at[p] \in Int /\ dir[p] \in {"up", "down"}
    BY MigrationsAssumption DEF SameBuild, Files, Versions, IInv, TypeOK
  <1>2. PICK n \in 0 .. Latest : applied = 1 .. n
    BY DEF IInv, HistoryIntact
  <1>3. CASE dir[p] = "up"
    <2>1. applied = status[p] \cup (1 .. at[p])
      BY <1>3 DEF IInv, LoopSound
    <2>2. \A v \in Due(p) : v \in Versions /\ v > n
      BY <1>1, <1>2, <1>3, <2>1 DEF Due, Versions
    <2>3. n + 1 \in Due(p)
      BY <1>1, <1>2, <1>3, <2>1, <2>2 DEF Due, Versions
    <2>4. \A w \in Due(p) : n + 1 <= w
      BY <1>2, <2>2 DEF Versions
    <2>5. Following(p) \in Due(p) /\ \A w \in Due(p) : Following(p) <= w
      <3>1. \E v \in Due(p) : \A w \in Due(p) : v <= w
        BY <2>3, <2>4
      <3> QED  BY <3>1, <1>3, Zenon DEF Following
    <2>6. Following(p) = n + 1
      BY <1>2, <2>2, <2>3, <2>4, <2>5 DEF Versions
    <2> QED  BY <1>1, <1>2, <1>3, <2>2, <2>3, <2>6 DEF Versions
  <1>4. CASE dir[p] = "down"
    <2>1. applied = status[p] /\ at[p] = Latest + 1
      BY <1>4 DEF IInv, LoopSound
    <2>2. dir[p] # "up"
      BY <1>4
    <2>3. Due(p) = 1 .. n
      BY <1>1, <1>2, <2>1, <2>2 DEF Due, Versions
    <2>4. n \in Due(p) /\ \A w \in Due(p) : n >= w
      BY <1>2, <2>3
    <2>5. Following(p) \in Due(p) /\ \A w \in Due(p) : Following(p) >= w
      <3>1. \E v \in Due(p) : \A w \in Due(p) : v >= w
        BY <2>4
      <3> QED  BY <3>1, <2>2, Zenon DEF Following
    <2>6. Following(p) = n
      BY <1>2, <2>3, <2>4, <2>5
    <2> QED  BY <1>1, <1>2, <2>2, <2>3, <2>4, <2>6 DEF Versions
  <1> QED  BY <1>1, <1>3, <1>4

LEMMA InitIInv == Init => IInv
  <1> SUFFICES ASSUME Init PROVE IInv
    OBVIOUS
  <1> USE DEF Init
  <1>1. TypeOK
    <2>1. table \in BOOLEAN /\ server \in [Servers -> {"down", "serving", "refused"}]
      BY Zenon
    <2>2. at \in [Runners -> 0 .. (Latest + 1)]
      BY MigrationsAssumption
    <2> QED  BY <2>1, <2>2 DEF TypeOK, Versions, Stages, Inside, Writes
  <1>2. LockOwned /\ TxStaged /\ LoopSound /\ ScriptFitsSchema
    BY MigrationsAssumption DEF LockOwned, TxStaged, LoopSound, ScriptFitsSchema, Inside, Running
  <1>3. HistoryIntact
    <2>1. 0 \in 0 .. Latest /\ 1 .. 0 = {}
      BY MigrationsAssumption
    <2> QED  BY <2>1 DEF HistoryIntact
  <1> QED  BY <1>1, <1>2, <1>3 DEF IInv

\* A step of a command that publishes nothing.
LEMMA QuietStep ==
    ASSUME SameBuild, IInv, NEW p \in Runners, NEW d \in {"up", "down"},
           \/ Start(p, d) \/ Lock(p) \/ LockFails(p) \/ Unlock(p) \/ Ensure(p) \/ ReadStatus(p)
           \/ NothingDue(p) \/ Execute(p) \/ Record(p) \/ Fail(p) \/ Crash(p) \/ Exit(p)
    PROVE  IInv'
  <1>0. HistoryIntact'
    BY DEF IInv, HistoryIntact, Start, Lock, LockFails, Unlock, Ensure, ReadStatus, NothingDue,
           Execute, Record, Fail, Crash, Exit
  <1> USE MigrationsAssumption DEF GoTo, Inside, Running
  <1>1. CASE Start(p, d)
    <2>1. TypeOK'
      BY <1>1 DEF IInv, TypeOK, LockOwned, TxStaged, Stages, Writes, Start
    <2>2. LockOwned' /\ TxStaged'
      BY <1>1 DEF IInv, TypeOK, LockOwned, TxStaged, Start
    <2>3. LoopSound' /\ ScriptFitsSchema'
      BY <1>1 DEF IInv, TypeOK, LockOwned, LoopSound, ScriptFitsSchema, Start
    <2> QED  BY <1>0, <2>1, <2>2, <2>3 DEF IInv
  <1>2. CASE Lock(p)
    BY <1>0, <1>2 DEF IInv, TypeOK, LockOwned, TxStaged, LoopSound, ScriptFitsSchema,
       Stages, Versions, Free, Lock
  <1>3. CASE LockFails(p)
    BY <1>0, <1>3 DEF IInv, TypeOK, LockOwned, TxStaged, LoopSound, ScriptFitsSchema,
       Stages, Versions, Free, LockFails
  <1>4. CASE Unlock(p)
    <2>1. TypeOK'
      BY <1>4 DEF IInv, TypeOK, LockOwned, TxStaged, Stages, Writes, Unlock, Forget
    <2>2. LockOwned' /\ TxStaged'
      BY <1>4 DEF IInv, TypeOK, LockOwned, TxStaged, Unlock, Forget
    <2>3. LoopSound' /\ ScriptFitsSchema'
      BY <1>4 DEF IInv, TypeOK, LockOwned, LoopSound, ScriptFitsSchema, Unlock, Forget
    <2> QED  BY <1>0, <2>1, <2>2, <2>3 DEF IInv
  <1>5. CASE Ensure(p)
    BY <1>0, <1>5 DEF IInv, TypeOK, LockOwned, TxStaged, LoopSound, ScriptFitsSchema,
       Stages, Versions, Free, Ensure
  <1>6. CASE ReadStatus(p)
    <2>1. TypeOK'
      BY <1>6 DEF IInv, TypeOK, LockOwned, TxStaged, Stages, Writes, Versions, SameBuild, ReadStatus
    <2>2. LockOwned' /\ TxStaged'
      BY <1>6 DEF IInv, TypeOK, LockOwned, TxStaged, ReadStatus
    <2>3. LoopSound' /\ ScriptFitsSchema'
      BY <1>6 DEF IInv, TypeOK, LockOwned, LoopSound, ScriptFitsSchema, SameBuild, ReadStatus
    <2> QED  BY <1>0, <2>1, <2>2, <2>3 DEF IInv
  <1>7. CASE NothingDue(p)
    BY <1>0, <1>7 DEF IInv, TypeOK, LockOwned, TxStaged, LoopSound, ScriptFitsSchema,
       Stages, Versions, Free, NothingDue
  <1>8. CASE Execute(p)
    <2>1. TypeOK'
      BY <1>8 DEF IInv, TypeOK, LockOwned, TxStaged, Stages, Writes, Execute
    <2>2. LockOwned' /\ TxStaged'
      BY <1>8 DEF IInv, TypeOK, LockOwned, TxStaged, Execute
    <2>3. LoopSound' /\ ScriptFitsSchema'
      BY <1>8 DEF IInv, TypeOK, LockOwned, LoopSound, ScriptFitsSchema, Execute
    <2> QED  BY <1>0, <2>1, <2>2, <2>3 DEF IInv
  <1>9. CASE Record(p)
    <2>1. TypeOK'
      BY <1>9 DEF IInv, TypeOK, LockOwned, TxStaged, Stages, Writes, Record
    <2>2. LockOwned' /\ TxStaged'
      <3>1. LockOwned'
        BY <1>9 DEF IInv, TypeOK, LockOwned, Record
      <3>2. TxStaged'
        BY <1>9 DEF IInv, TypeOK, TxStaged, Record
      <3> QED  BY <3>1, <3>2
    <2>3. LoopSound' /\ ScriptFitsSchema'
      BY <1>9 DEF IInv, TypeOK, LockOwned, LoopSound, ScriptFitsSchema, Record
    <2> QED  BY <1>0, <2>1, <2>2, <2>3 DEF IInv
  <1>10. CASE Fail(p)
    <2>1. TypeOK'
      BY <1>10 DEF IInv, TypeOK, LockOwned, TxStaged, Stages, Writes, Fail
    <2>2. LockOwned' /\ TxStaged'
      BY <1>10 DEF IInv, TypeOK, LockOwned, TxStaged, Fail
    <2>3. LoopSound' /\ ScriptFitsSchema'
      BY <1>10 DEF IInv, TypeOK, LockOwned, LoopSound, ScriptFitsSchema, Fail
    <2> QED  BY <1>0, <2>1, <2>2, <2>3 DEF IInv
  <1>11. CASE Crash(p)
    <2>1. TypeOK'
      BY <1>11 DEF IInv, TypeOK, LockOwned, TxStaged, Stages, Writes, Crash, Forget
    <2>2. LockOwned' /\ TxStaged'
      BY <1>11 DEF IInv, TypeOK, LockOwned, TxStaged, Crash, Forget
    <2>3. LoopSound' /\ ScriptFitsSchema'
      BY <1>11 DEF IInv, TypeOK, LockOwned, LoopSound, ScriptFitsSchema, Crash, Forget
    <2> QED  BY <1>0, <2>1, <2>2, <2>3 DEF IInv
  <1>12. CASE Exit(p)
    <2>1. TypeOK'
      BY <1>12 DEF IInv, TypeOK, LockOwned, TxStaged, Stages, Writes, Exit
    <2>2. LockOwned' /\ TxStaged'
      BY <1>12 DEF IInv, TypeOK, LockOwned, TxStaged, Exit
    <2>3. LoopSound' /\ ScriptFitsSchema'
      BY <1>12 DEF IInv, TypeOK, LockOwned, LoopSound, ScriptFitsSchema, Exit
    <2> QED  BY <1>0, <2>1, <2>2, <2>3 DEF IInv
  <1> QED  BY <1>1, <1>2, <1>3, <1>4, <1>5, <1>6, <1>7, <1>8, <1>9, <1>10, <1>11, <1>12

\* The loop moves to the next file.
LEMMA PickStep ==
    ASSUME SameBuild, IInv, NEW p \in Runners, Pick(p)
    PROVE  IInv'
  <1>1. /\ Following(p) \in Versions
        /\ applied = IF dir[p] = "up" THEN 1 .. (Following(p) - 1) ELSE 1 .. Following(p)
    BY PickedNext DEF Pick
  <1>2. HistoryIntact'
    BY DEF IInv, HistoryIntact, Pick
  <1>3. TypeOK' /\ LockOwned' /\ TxStaged'
    BY <1>1, MigrationsAssumption
       DEF IInv, TypeOK, LockOwned, TxStaged, Pick, GoTo, Inside, Stages, Versions
  <1>4. LoopSound' /\ ScriptFitsSchema'
    <2>1. \A q \in Runners : q # p => pc'[q] \notin Inside
      BY DEF IInv, TypeOK, LockOwned, Pick, GoTo, Inside
    <2>2. pc'[p] = "execute" /\ at'[p] = Following(p)
      BY DEF IInv, TypeOK, Pick, GoTo
    <2>3. UNCHANGED <<applied, schema, dir, status>> /\ schema = applied
      BY DEF IInv, HistoryIntact, Pick
    <2>4. dir[p] = "up" => status[p] \subseteq applied
      BY DEF IInv, LoopSound, Pick
    <2> QED  BY <1>1, <2>1, <2>2, <2>3, <2>4 DEF LoopSound, ScriptFitsSchema, Inside, Running
  <1> QED  BY <1>2, <1>3, <1>4 DEF IInv

\* What a committed script leaves: the history one version longer or shorter.
LEMMA Published ==
    ASSUME IInv, NEW p \in Runners, pc[p] = "commit", Publish(p)
    PROVE  /\ at[p] \in Versions
           /\ applied = IF dir[p] = "up" THEN 1 .. (at[p] - 1) ELSE 1 .. at[p]
           /\ applied' = IF dir[p] = "up" THEN 1 .. at[p] ELSE 1 .. (at[p] - 1)
           /\ HistoryIntact'
  <1>1. Latest \in Nat /\ dir[p] \in {"up", "down"}
    BY MigrationsAssumption DEF IInv, TypeOK
  <1>2. at[p] \in Versions
    BY <1>1 DEF IInv, LoopSound, Running
  <1>3. tx[p] = {"script", "row"}
    BY DEF IInv, TxStaged
  <1>4. schema = applied /\ applied = IF dir[p] = "up" THEN 1 .. (at[p] - 1) ELSE 1 .. at[p]
    BY DEF IInv, HistoryIntact, ScriptFitsSchema
  <1>5. schema' = applied'
    BY <1>3, <1>4 DEF Publish, Changed
  <1>6. applied' = IF dir[p] = "up" THEN 1 .. at[p] ELSE 1 .. (at[p] - 1)
    <2>1. applied' = IF dir[p] = "up" THEN applied \cup {at[p]} ELSE applied \ {at[p]}
      BY <1>3 DEF Publish, Changed
    <2>2. CASE dir[p] = "up"
      <3>1. applied = 1 .. (at[p] - 1) /\ applied' = applied \cup {at[p]}
        BY <1>4, <2>1, <2>2
      <3> QED  BY <1>1, <1>2, <2>2, <3>1 DEF Versions
    <2>3. CASE dir[p] = "down"
      <3>1. applied = 1 .. at[p] /\ applied' = applied \ {at[p]} /\ dir[p] # "up"
        BY <1>4, <2>1, <2>3
      <3>2. applied' = 1 .. (at[p] - 1)
        BY <1>1, <1>2, <3>1 DEF Versions
      <3> QED  BY <3>1, <3>2
    <2> QED  BY <1>1, <2>2, <2>3
  <1>7. \E n \in 0 .. Latest : applied' = 1 .. n
    <2>1. at[p] \in 0 .. Latest /\ at[p] - 1 \in 0 .. Latest
      BY <1>1, <1>2 DEF Versions
    <2> QED  BY <1>1, <1>6, <2>1
  <1> QED  BY <1>2, <1>4, <1>5, <1>6, <1>7 DEF HistoryIntact

LEMMA CommitStep ==
    ASSUME SameBuild, IInv, NEW p \in Runners, Commit(p)
    PROVE  IInv'
  <1>1. /\ at[p] \in Versions /\ HistoryIntact'
        /\ applied = IF dir[p] = "up" THEN 1 .. (at[p] - 1) ELSE 1 .. at[p]
        /\ applied' = IF dir[p] = "up" THEN 1 .. at[p] ELSE 1 .. (at[p] - 1)
    BY Published DEF Commit
  <1>2. applied' \subseteq Versions /\ schema' \subseteq Versions
    BY <1>1, MigrationsAssumption DEF HistoryIntact, Versions
  <1>3. TypeOK'
    BY <1>2, MigrationsAssumption
       DEF IInv, TypeOK, LockOwned, TxStaged, Commit, GoTo, Inside, Stages, Writes
  <1>4. LockOwned' /\ TxStaged'
    <2>1. LockOwned'
      BY DEF IInv, TypeOK, LockOwned, Commit, GoTo, Inside
    <2>2. TxStaged'
      BY DEF IInv, TypeOK, TxStaged, Commit, GoTo
    <2> QED  BY <2>1, <2>2
  <1>5. LoopSound' /\ ScriptFitsSchema'
    <2>1. \A q \in Runners : q # p => pc[q] \notin Inside /\ pc'[q] = pc[q]
      BY DEF IInv, TypeOK, LockOwned, Commit, GoTo, Inside
    <2>2. pc'[p] = IF dir[p] = "up" THEN "pick" ELSE "unlock"
      BY DEF IInv, TypeOK, Commit, GoTo
    <2>3. dir[p] = "up" => applied' = status[p] \cup (1 .. at[p])
      <3>1. dir[p] = "up" => status[p] \subseteq 1 .. (at[p] - 1)
        BY <1>1 DEF IInv, LoopSound, Running, Commit
      <3> QED  BY <1>1, <3>1, MigrationsAssumption DEF Versions
    <2> QED  BY <2>1, <2>2, <2>3 DEF LoopSound, ScriptFitsSchema, Commit, Inside, Running
  <1> QED  BY <1>1, <1>3, <1>4, <1>5 DEF IInv

LEMMA LostCommitStep ==
    ASSUME SameBuild, IInv, NEW p \in Runners, CommitUnacknowledged(p)
    PROVE  IInv'
  <1>1. HistoryIntact'
    BY Published DEF CommitUnacknowledged
  <1>2. applied' \subseteq Versions /\ schema' \subseteq Versions
    BY <1>1, MigrationsAssumption DEF HistoryIntact, Versions
  <1>3. TypeOK'
    BY <1>2, MigrationsAssumption
       DEF IInv, TypeOK, LockOwned, TxStaged, CommitUnacknowledged, Forget, GoTo, Inside, Stages, Writes
  <1>4. LockOwned' /\ TxStaged'
    BY MigrationsAssumption
       DEF IInv, TypeOK, LockOwned, TxStaged, CommitUnacknowledged, Forget, GoTo, Inside
  <1>5. LoopSound' /\ ScriptFitsSchema'
    <2>1. \A q \in Runners : pc'[q] \notin Inside
      BY DEF IInv, TypeOK, LockOwned, CommitUnacknowledged, GoTo, Inside
    <2> QED  BY <2>1 DEF LoopSound, ScriptFitsSchema, Inside, Running
  <1> QED  BY <1>1, <1>3, <1>4, <1>5 DEF IInv

\* Servers and stuttering touch nothing the invariant is about.
LEMMA ServerStep ==
    ASSUME IInv, \/ \E s \in Servers : Serve(s) \/ Refuse(s) \/ Stop(s)
                 \/ UNCHANGED vars
    PROVE  IInv'
  <1>1. server' \in [Servers -> {"down", "serving", "refused"}]
    BY DEF IInv, TypeOK, Serve, Refuse, Stop, vars
  <1>2. UNCHANGED <<table, applied, schema, lock, pc, dir, status, at, tx, result>>
    BY DEF Serve, Refuse, Stop, vars, rvars
  <1>3. TypeOK'
    BY <1>1, <1>2 DEF IInv, TypeOK
  <1> QED  BY <1>2, <1>3 DEF IInv, LockOwned, TxStaged, HistoryIntact, LoopSound, ScriptFitsSchema

LEMMA NextIInv ==
    ASSUME SameBuild, IInv, [Next]_vars
    PROVE  IInv'
  <1>1. CASE \E p \in Runners : \E d \in {"up", "down"} :
                \/ Start(p, d) \/ Lock(p) \/ LockFails(p) \/ Unlock(p) \/ Ensure(p) \/ ReadStatus(p)
                \/ NothingDue(p) \/ Execute(p) \/ Record(p) \/ Fail(p) \/ Crash(p) \/ Exit(p)
    BY <1>1, QuietStep
  <1>2. CASE \E p \in Runners : Pick(p)
    BY <1>2, PickStep
  <1>3. CASE \E p \in Runners : Commit(p)
    BY <1>3, CommitStep
  <1>4. CASE \E p \in Runners : CommitUnacknowledged(p)
    BY <1>4, LostCommitStep
  <1>5. CASE (\E s \in Servers : Serve(s) \/ Refuse(s) \/ Stop(s)) \/ UNCHANGED vars
    BY <1>5, ServerStep
  <1> QED  BY <1>1, <1>2, <1>3, <1>4, <1>5 DEF Next, Advance

LEMMA Invariance ==
    ASSUME SameBuild
    PROVE  Spec => []IInv
  <1>1. IInv /\ [Next]_vars => IInv'
    BY NextIInv
  <1> QED  BY InitIInv, <1>1, PTL DEF Spec

\* Type correctness of the runner, for every number of migrations and commands.
THEOREM TypeCorrect ==
    ASSUME SameBuild
    PROVE  Spec => []TypeOK
  <1>1. IInv => TypeOK
    BY DEF IInv
  <1> QED  BY Invariance, <1>1, PTL

\* schema_migrations always says exactly which scripts are in effect, and they
\* are the first n: overlapping, failing and killed commands of withMigrationLock
\* never skip, repeat or half-record a script.
THEOREM HistoryKept ==
    ASSUME SameBuild
    PROVE  Spec => []HistoryIntact
  <1>1. IInv => HistoryIntact
    BY DEF IInv
  <1> QED  BY Invariance, <1>1, PTL

\* executeMigration runs a script only against the schema it was written for.
THEOREM ScriptsFit ==
    ASSUME SameBuild
    PROVE  Spec => []ScriptFitsSchema
  <1>1. IInv => ScriptFitsSchema
    BY DEF IInv
  <1> QED  BY Invariance, <1>1, PTL

\* Checking the highest row (VerifySchemaCompatibility) is enough: a server that
\* passes it finds the scripts of all versions in effect.
THEOREM CheckSuffices ==
    ASSUME SameBuild
    PROVE  Spec => ServedSchemaComplete
  <1>1. IInv /\ [Next]_vars =>
            [\A s \in Servers : server[s] = "down" /\ server'[s] = "serving" => schema = Versions]_vars
    <2> SUFFICES ASSUME IInv, [Next]_vars, NEW s \in Servers,
                        server[s] = "down", server'[s] = "serving"
                 PROVE  schema = Versions
      OBVIOUS
    <2>1. Compatible
      <3>1. CASE \E t \in Servers : Serve(t)
        BY <3>1 DEF Serve
      <3>2. CASE \E t \in Servers : Refuse(t) \/ Stop(t)
        BY <3>2 DEF IInv, TypeOK, Refuse, Stop
      <3>3. CASE UNCHANGED server
        BY <3>3
      <3> QED  BY <3>1, <3>2, <3>3
           DEF Next, Advance, vars, Start, Lock, LockFails, Unlock, Ensure, ReadStatus, Pick,
               NothingDue, Execute, Record, Commit, CommitUnacknowledged, Fail, Crash, Exit
    <2>2. PICK n \in 0 .. Latest : schema = 1 .. n /\ applied = 1 .. n
      BY DEF IInv, HistoryIntact
    <2>3. Latest \in 1 .. n
      BY <2>1, <2>2 DEF Compatible
    <2> QED  BY <2>2, <2>3, MigrationsAssumption DEF Versions
  <1> QED  BY Invariance, <1>1, PTL DEF Spec, ServedSchemaComplete

\* With one binary, a rollback removes the highest applied version only.
THEOREM RollbackHighest ==
    ASSUME SameBuild
    PROVE  Spec => HighestRolledBack
  <1>1. IInv /\ [Next]_vars => [\A v \in schema \ schema' : \A w \in schema : w <= v]_vars
    <2> SUFFICES ASSUME IInv, Next PROVE \A v \in schema \ schema' : \A w \in schema : w <= v
      BY DEF vars
    <2>1. CASE \E p \in Runners : Commit(p) \/ CommitUnacknowledged(p)
      <3>1. PICK p \in Runners : pc[p] = "commit" /\ Publish(p)
        BY <2>1 DEF Commit, CommitUnacknowledged
      <3>2. /\ at[p] \in Versions /\ HistoryIntact'
            /\ applied = IF dir[p] = "up" THEN 1 .. (at[p] - 1) ELSE 1 .. at[p]
            /\ applied' = IF dir[p] = "up" THEN 1 .. at[p] ELSE 1 .. (at[p] - 1)
        BY <3>1, Published
      <3>3. schema = applied /\ schema' = applied'
        BY <3>2 DEF IInv, HistoryIntact
      <3> QED  BY <3>2, <3>3, MigrationsAssumption DEF Versions
    <2>2. CASE UNCHANGED schema
      BY <2>2
    <2> QED  BY <2>1, <2>2
         DEF Next, Advance, Start, Lock, LockFails, Unlock, Ensure, ReadStatus, Pick,
             NothingDue, Execute, Record, Fail, Crash, Exit, Serve, Refuse, Stop
  <1> QED  BY Invariance, <1>1, PTL DEF Spec, HighestRolledBack

================================================================================
