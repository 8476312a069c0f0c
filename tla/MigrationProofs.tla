-------------------------- MODULE MigrationProofs --------------------------
(***************************************************************************)
(* That a start of the WebUI loses nothing and, uninterrupted, moves        *)
(* everything, for every set of layouts and any number of crashes.         *)
(*                                                                         *)
(* The argument: until agents/ exists the root files are as they were,     *)
(* and when it is created the backup is complete (Untouched, BackedUp).    *)
(* From then on each step of a run that is not torn establishes one fact   *)
(* about the new layout, which no later step disturbs (Read, Moved).       *)
(***************************************************************************)
EXTENDS Migration, TLAPS

\* The steps of migrate() from the first to the one that ends a part of it.
UpToEnv == {"agent_env"}
UpToRoot == UpToEnv \cup {"chmod", "truncate", "root_env"}
UpToContext == UpToRoot \cup {"context"}
UpToState == UpToContext \cup {"data_dir", "state"}
UpToStatus == UpToState \cup {"status"}

\* The files before migrate() has begun to move them.
Untouched ==
  ~agents =>
    /\ rootEnv = old.env
    /\ old.context => rootContext = "text"
    /\ old.state => rootState
    /\ agentState = "none"

\* The backup grows before the directory is made, and only where keys are.
BackedUp ==
  /\ pc \in {"backup_context", "make_dir"} => ~agents /\ "keys" \in old.env
  /\ pc \in {"backup_context", "make_dir"} \/ agents => old.env \subseteq backup.env
  /\ pc = "make_dir" \/ agents => (old.context => backup.context = "text")

\* What migrate() still has to move, at each of its steps.
Read ==
  /\ pc \in UpToStatus => agents
  /\ pc \in UpToRoot => lines = old.env
  /\ pc \in UpToContext => (old.context => rootContext = "text")

\* What a run that is not torn has moved.
Moved ==
  agents /\ ~torn =>
    /\ pc \notin UpToEnv => agentEnv = OfAgent(old.env)
    /\ pc \notin UpToRoot => rootEnv = RootOnly(old.env)
    /\ pc \notin UpToContext => (old.context => agentContext = "text")
    /\ pc \notin UpToState => (old.state => agentState = "old" /\ ~rootState)
    /\ pc \notin UpToStatus => status # "root"

RecordKept == old.state => rootState \/ agentState = "old"

IInv == TypeOK /\ Untouched /\ BackedUp /\ Read /\ Moved /\ RecordKept /\ NoPhantomAgent

\* The invariant holds before the first start.
LEMMA Initially == Init => IInv
<1> SUFFICES ASSUME Init PROVE IInv
  OBVIOUS
<1> USE ConstantsAssumption DEF Init
<1>1. old \in Layout
  OBVIOUS
<1>2. TypeOK
  <2>1. old.env \subseteq Groups /\ old.state \in BOOLEAN
    BY <1>1 DEF Layout
  <2>2. backup \in [env: SUBSET Groups, context: {"none", "empty", "text"}]
    OBVIOUS
  <2>3. rootContext \in {"none", "empty", "text"}
    BY DEF Text
  <2>4. crashes \in 0..MaxCrashes
    OBVIOUS
  <2> QED
    BY <2>1, <2>2, <2>3, <2>4 DEF TypeOK
<1>3. Untouched /\ BackedUp /\ RecordKept /\ NoPhantomAgent
  BY <1>1 DEF Untouched, BackedUp, RecordKept, NoPhantomAgent, Text
<1>4. Read /\ Moved
  BY DEF Read, Moved, UpToEnv, UpToRoot, UpToContext, UpToState, UpToStatus
<1> QED
  BY <1>2, <1>3, <1>4 DEF IInv

\* Every step keeps the types.
LEMMA TypesStep == IInv /\ [Next]_vars => TypeOK'
<1> SUFFICES ASSUME TypeOK, [Next]_vars PROVE TypeOK'
  BY DEF IInv
<1> USE ConstantsAssumption
    DEF TypeOK, Layout, Groups, Goto, vars, rootVars, agentVars, dataVars, history
<1>1. CASE Entrypoint
  BY <1>1 DEF Entrypoint
<1>2. CASE Noop
  BY <1>2 DEF Noop
<1>3. CASE BackupEnv
  BY <1>3 DEF BackupEnv
<1>4. CASE BackupContext
  BY <1>4 DEF BackupContext
<1>5. CASE MakeAgentDir
  BY <1>5 DEF MakeAgentDir
<1>6. CASE WriteAgentEnv
  BY <1>6 DEF WriteAgentEnv, OfAgent
<1>7. CASE Chmod
  <2>1. readable' \in BOOLEAN /\ pc' = "truncate"
    BY <1>7 DEF Chmod
  <2>2. UNCHANGED <<old, rootVars, backup, agents, agentEnv, agentContext, dataVars,
                    lines, history>>
    BY <1>7 DEF Chmod
  <2> QED
    BY <2>1, <2>2
<1>8. CASE TruncateRootEnv
  BY <1>8 DEF TruncateRootEnv
<1>9. CASE WriteRootEnv
  BY <1>9 DEF WriteRootEnv, RootOnly
<1>10. CASE MoveContext
  BY <1>10 DEF MoveContext
<1>11. CASE MakeDataDir
  BY <1>11 DEF MakeDataDir
<1>12. CASE MoveState
  <2>1. rootState' \in BOOLEAN /\ agentState' \in {"none", "fresh", "old"} /\ pc' = "status"
    BY <1>12 DEF MoveState
  <2>2. UNCHANGED <<old, rootEnv, rootContext, status, backup, agents, agentVars,
                    dataDir, lines, history>>
    BY <1>12 DEF MoveState
  <2> QED
    BY <2>1, <2>2
<1>13. CASE MoveStatus
  BY <1>13 DEF MoveStatus
<1>14. CASE Crash
  BY <1>14 DEF Crash
<1>15. CASE Restart
  BY <1>15 DEF Restart
<1>16. CASE Refuse
  BY <1>16 DEF Refuse
<1>17. CASE Poll
  BY <1>17 DEF Poll
<1>18. CASE Save
  BY <1>18 DEF Save
<1>19. CASE UNCHANGED vars
  BY <1>19
<1> QED
  BY <1>1, <1>2, <1>3, <1>4, <1>5, <1>6, <1>7, <1>8, <1>9, <1>10, <1>11,
     <1>12, <1>13, <1>14, <1>15, <1>16, <1>17, <1>18, <1>19 DEF Next
\* No step spoils the root files before the backup is complete.
LEMMA BackupStep == IInv /\ [Next]_vars => (Untouched /\ BackedUp /\ NoPhantomAgent)'
<1> SUFFICES ASSUME IInv, [Next]_vars PROVE (Untouched /\ BackedUp /\ NoPhantomAgent)'
  OBVIOUS
<1> USE DEF IInv, Untouched, BackedUp, NoPhantomAgent, Read, UpToEnv, UpToRoot,
           UpToContext, UpToState, UpToStatus,
           Goto, vars, rootVars, agentVars, dataVars, history
<1>1. CASE Entrypoint
  BY <1>1 DEF Entrypoint
<1>2. CASE Noop
  BY <1>2 DEF Noop
<1>3. CASE BackupEnv
  BY <1>3 DEF BackupEnv, HasAgentKeys
<1>4. CASE BackupContext
  BY <1>4 DEF BackupContext
<1>5. CASE MakeAgentDir
  BY <1>5 DEF MakeAgentDir
<1>6. CASE WriteAgentEnv
  BY <1>6 DEF WriteAgentEnv
<1>7. CASE Chmod
  BY <1>7 DEF Chmod
<1>8. CASE TruncateRootEnv
  BY <1>8 DEF TruncateRootEnv
<1>9. CASE WriteRootEnv
  BY <1>9 DEF WriteRootEnv
<1>10. CASE MoveContext
  BY <1>10 DEF MoveContext
<1>11. CASE MakeDataDir
  BY <1>11 DEF MakeDataDir
<1>12. CASE MoveState
  BY <1>12 DEF MoveState
<1>13. CASE MoveStatus
  BY <1>13 DEF MoveStatus
<1>14. CASE Crash
  BY <1>14 DEF Crash
<1>15. CASE Restart
  BY <1>15 DEF Restart
<1>16. CASE Refuse
  BY <1>16 DEF Refuse
<1>17. CASE Poll
  BY <1>17 DEF Poll
<1>18. CASE Save
  BY <1>18 DEF Save
<1>19. CASE UNCHANGED vars
  BY <1>19
<1> QED
  BY <1>1, <1>2, <1>3, <1>4, <1>5, <1>6, <1>7, <1>8, <1>9, <1>10, <1>11,
     <1>12, <1>13, <1>14, <1>15, <1>16, <1>17, <1>18, <1>19 DEF Next

\* No step takes away what is still to be moved.
LEMMA ReadStep == IInv /\ [Next]_vars => Read'
<1> SUFFICES ASSUME IInv, [Next]_vars PROVE Read'
  OBVIOUS
<1> USE DEF IInv, Untouched, BackedUp, Read, UpToEnv, UpToRoot, UpToContext,
           UpToState, UpToStatus,
           Goto, vars, rootVars, agentVars, dataVars, history
<1>1. CASE Entrypoint
  BY <1>1 DEF Entrypoint
<1>2. CASE Noop
  BY <1>2 DEF Noop
<1>3. CASE BackupEnv
  BY <1>3 DEF BackupEnv
<1>4. CASE BackupContext
  BY <1>4 DEF BackupContext
<1>5. CASE MakeAgentDir
  BY <1>5 DEF MakeAgentDir
<1>6. CASE WriteAgentEnv
  BY <1>6 DEF WriteAgentEnv
<1>7. CASE Chmod
  BY <1>7 DEF Chmod
<1>8. CASE TruncateRootEnv
  BY <1>8 DEF TruncateRootEnv
<1>9. CASE WriteRootEnv
  BY <1>9 DEF WriteRootEnv
<1>10. CASE MoveContext
  BY <1>10 DEF MoveContext
<1>11. CASE MakeDataDir
  BY <1>11 DEF MakeDataDir
<1>12. CASE MoveState
  BY <1>12 DEF MoveState
<1>13. CASE MoveStatus
  BY <1>13 DEF MoveStatus
<1>14. CASE Crash
  BY <1>14 DEF Crash
<1>15. CASE Restart
  BY <1>15 DEF Restart
<1>16. CASE Refuse
  BY <1>16 DEF Refuse
<1>17. CASE Poll
  BY <1>17 DEF Poll
<1>18. CASE Save
  BY <1>18 DEF Save
<1>19. CASE UNCHANGED vars
  BY <1>19
<1> QED
  BY <1>1, <1>2, <1>3, <1>4, <1>5, <1>6, <1>7, <1>8, <1>9, <1>10, <1>11,
     <1>12, <1>13, <1>14, <1>15, <1>16, <1>17, <1>18, <1>19 DEF Next

\* No step of a run that is not torn undoes what was moved.
LEMMA MovedStep == IInv /\ [Next]_vars => Moved'
<1> SUFFICES ASSUME IInv, [Next]_vars PROVE Moved'
  OBVIOUS
<1> USE DEF IInv, TypeOK, Read, Moved, RecordKept, UpToEnv, UpToRoot, UpToContext,
           UpToState, UpToStatus,
           Goto, vars, rootVars, agentVars, dataVars, history
<1>1. CASE Entrypoint
  BY <1>1 DEF Entrypoint
<1>2. CASE Noop
  BY <1>2 DEF Noop
<1>3. CASE BackupEnv
  BY <1>3 DEF BackupEnv
<1>4. CASE BackupContext
  BY <1>4 DEF BackupContext
<1>5. CASE MakeAgentDir
  BY <1>5 DEF MakeAgentDir
<1>6. CASE WriteAgentEnv
  BY <1>6 DEF WriteAgentEnv
<1>7. CASE Chmod
  BY <1>7 DEF Chmod
<1>8. CASE TruncateRootEnv
  BY <1>8 DEF TruncateRootEnv
<1>9. CASE WriteRootEnv
  BY <1>9 DEF WriteRootEnv
<1>10. CASE MoveContext
  BY <1>10 DEF MoveContext
<1>11. CASE MakeDataDir
  BY <1>11 DEF MakeDataDir
<1>12. CASE MoveState
  BY <1>12 DEF MoveState
<1>13. CASE MoveStatus
  BY <1>13 DEF MoveStatus
<1>14. CASE Crash
  BY <1>14 DEF Crash
<1>15. CASE Restart
  BY <1>15 DEF Restart
<1>16. CASE Refuse
  BY <1>16 DEF Refuse
<1>17. CASE Poll
  BY <1>17 DEF Poll
<1>18. CASE Save
  BY <1>18 DEF Save
<1>19. CASE UNCHANGED vars
  BY <1>19
<1> QED
  BY <1>1, <1>2, <1>3, <1>4, <1>5, <1>6, <1>7, <1>8, <1>9, <1>10, <1>11,
     <1>12, <1>13, <1>14, <1>15, <1>16, <1>17, <1>18, <1>19 DEF Next

\* The record of processed mails is never replaced by a fresh one.
LEMMA RecordStep == IInv /\ [Next]_vars => RecordKept'
<1> SUFFICES ASSUME IInv, [Next]_vars PROVE RecordKept'
  OBVIOUS
<1> USE DEF IInv, RecordKept,
           Goto, vars, rootVars, agentVars, dataVars, history
<1>1. CASE Entrypoint
  BY <1>1 DEF Entrypoint
<1>2. CASE Noop
  BY <1>2 DEF Noop
<1>3. CASE BackupEnv
  BY <1>3 DEF BackupEnv
<1>4. CASE BackupContext
  BY <1>4 DEF BackupContext
<1>5. CASE MakeAgentDir
  BY <1>5 DEF MakeAgentDir
<1>6. CASE WriteAgentEnv
  BY <1>6 DEF WriteAgentEnv
<1>7. CASE Chmod
  BY <1>7 DEF Chmod
<1>8. CASE TruncateRootEnv
  BY <1>8 DEF TruncateRootEnv
<1>9. CASE WriteRootEnv
  BY <1>9 DEF WriteRootEnv
<1>10. CASE MoveContext
  BY <1>10 DEF MoveContext
<1>11. CASE MakeDataDir
  BY <1>11 DEF MakeDataDir
<1>12. CASE MoveState
  BY <1>12 DEF MoveState
<1>13. CASE MoveStatus
  BY <1>13 DEF MoveStatus
<1>14. CASE Crash
  BY <1>14 DEF Crash
<1>15. CASE Restart
  BY <1>15 DEF Restart
<1>16. CASE Refuse
  BY <1>16 DEF Refuse
<1>17. CASE Poll
  BY <1>17 DEF Poll
<1>18. CASE Save
  BY <1>18 DEF Save
<1>19. CASE UNCHANGED vars
  BY <1>19
<1> QED
  BY <1>1, <1>2, <1>3, <1>4, <1>5, <1>6, <1>7, <1>8, <1>9, <1>10, <1>11,
     <1>12, <1>13, <1>14, <1>15, <1>16, <1>17, <1>18, <1>19 DEF Next

\* All of it holds in every reachable state.
THEOREM Inductive == Spec => []IInv
<1>1. Init => IInv
  BY Initially
<1>2. IInv /\ [Next]_vars => IInv'
  BY TypesStep, BackupStep, ReadStep, MovedStep, RecordStep DEF IInv
<1> QED
  BY <1>1, <1>2, PTL DEF Spec

\* The state keeps its types (TypeOK).
THEOREM TypeCorrect == Spec => []TypeOK
<1>1. IInv => TypeOK
  BY DEF IInv
<1> QED
  BY <1>1, Inductive, PTL

\* Nothing is lost by any number of crashes (SettingsSurvive; migration.py:88-137).
THEOREM NothingIsLost == Spec => []SettingsSurvive
<1>1. IInv => SettingsSurvive
  BY DEF IInv, SettingsSurvive, Untouched, BackedUp, RecordKept
<1> QED
  BY <1>1, Inductive, PTL

\* An uninterrupted start moves everything (MigratedWhenServing;
\* migration.py:99-141).
THEOREM MigrationCompletes == Spec => []MigratedWhenServing
<1>1. IInv => MigratedWhenServing
  BY DEF IInv, MigratedWhenServing, Moved, UpToEnv, UpToRoot, UpToContext,
         UpToState, UpToStatus
<1> QED
  BY <1>1, Inductive, PTL

\* No agent comes out of nothing (NoPhantomAgent; migration.py:9-12).
THEOREM NoPhantom == Spec => []NoPhantomAgent
<1>1. IInv => NoPhantomAgent
  BY DEF IInv
<1> QED
  BY <1>1, Inductive, PTL
=============================================================================
