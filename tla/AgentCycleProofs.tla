-------------------------- MODULE AgentCycleProofs --------------------------
(***************************************************************************)
(* AgentCycle's safety properties for any number of agents, any accounts,  *)
(* providers and folders, and any number of saves and failures.            *)
(*                                                                         *)
(* StatusTellsOutcome needs to know that the agent in hand has no outcome  *)
(* yet and that a poll has a source for its folder (InHand).               *)
(* CacheFollowsEnv needs that an mtime names one content of the file: what *)
(* the cache and the loaded configuration remember of the account is what  *)
(* the file says, if they are of its version (OneAccountPerVersion).       *)
(***************************************************************************)
EXTENDS AgentCycle, TLAPS

(* The agent in hand, and what is known of it. *)
InHand ==
  /\ pc \in {"stat", "poll"} =>
       /\ cur \in Agents
       /\ cfg.account \in Accounts
       /\ cfg.folder \in Folders
       /\ outcome[cur] = "none"
  /\ pc \notin {"stat", "poll"} => cur = NoAgent
  /\ pc = "poll" => cfg.source # "none"

CacheVersion(a) ==
  cache[a] # NoEntry =>
    /\ cache[a].version <= env[a].mtime
    /\ cache[a].version > 0
    /\ cache[a].version = env[a].mtime => cache[a].account = env[a].account

ConfigVersion ==
  pc \in {"stat", "poll"} =>
    /\ cfg.version <= env[cur].mtime
    /\ cfg.version > 0
    /\ cfg.version = env[cur].mtime => cfg.account = env[cur].account

CacheBeforeConfig ==
  pc = "stat" /\ cache[cur] # NoEntry =>
    /\ cache[cur].version <= cfg.version
    /\ cache[cur].version = cfg.version => cache[cur].account = cfg.account

(* What the operator has written into the .env wins, in the configuration in
   hand: over the provider table, the cache and the server's flags. *)
ExplicitInHand ==
  pc \in {"stat", "poll"} =>
    /\ cfg.version = env[cur].mtime => cfg.explicit = env[cur].explicit
    /\ cfg.explicit # NoFolder => pc = "poll" /\ cfg.folder = cfg.explicit

OneAccountPerVersion ==
  (\A a \in Agents : CacheVersion(a)) /\ ConfigVersion /\ CacheBeforeConfig

CycleInv ==
  /\ TypeOK
  /\ InHand
  /\ CacheHoldsDetection
  /\ StatusTellsOutcome
  /\ OneAccountPerVersion
  /\ CacheFollowsEnv
  /\ ExplicitInHand

(* A poll of an .env that has not been saved since it was read uses the folder
   the operator has set there, if any. *)
SavedFolderIsUsed ==
  pc = "poll" /\ cfg.version = env[cur].mtime /\ env[cur].explicit # NoFolder =>
    cfg.folder = env[cur].explicit

-----------------------------------------------------------------------------
(* What _build_config takes for the folder is a name. *)
LEMMA PresetIsFolder ==
  ASSUME TypeOK, NEW a \in Agents
  PROVE  Preset(env[a]) \in Folders
<1>1. /\ env[a].explicit \in Folders \cup {NoFolder}
      /\ env[a].account \in Accounts
  BY DEF TypeOK, EnvFile
<1>2. /\ Provider[env[a].account] \in Providers \cup {OwnHost}
      /\ Default[OwnHost] \in Folders
  BY <1>1, ConstantsAssumption
<1> QED BY <1>1, <1>2 DEF TypeOK, Preset

LEMMA TableStaysTyped ==
  ASSUME TypeOK, NEW a \in Agents, LoadConfig(env[a])
  PROVE  table' \in [Providers -> Folders]
<1>1. Preset(env[a]) \in Folders
  BY PresetIsFolder
<1>2. env[a].account \in Accounts
  BY DEF TypeOK, EnvFile
<1>3. UsesTable(env[a]) => Provider[env[a].account] \in Providers
  BY <1>2, ConstantsAssumption DEF UsesTable
<1> QED BY <1>1, <1>3 DEF TypeOK, LoadConfig

ReportTyped ==
  /\ status \in [Agents -> StatusFile]
  /\ written \subseteq Agents
  /\ losses \in 0..MaxFaults

LEMMA NothingIsTyped == NoCfg \in Loaded /\ NoStatus \in StatusFile /\ NoAgent \notin Agents
BY ConstantsAssumption DEF NoCfg, Loaded, NoStatus, StatusFile, Sources, NoAgent, Agents

(* A status write, lost or not, concerns its own agent. *)
LEMMA StatusStaysTyped ==
  ASSUME TypeOK, NEW a \in Agents, NEW f \in Folders \cup {NoFolder},
         NEW s \in Sources, NEW e \in BOOLEAN, NEW h \in BOOLEAN,
         WriteStatus(a, f, s, e, h)
  PROVE  ReportTyped'
<1>1. [folder |-> f, source |-> s, error |-> e, heartbeat |-> h] \in StatusFile
  BY DEF StatusFile
<1>2. status' \in [Agents -> StatusFile]
  BY <1>1, NothingIsTyped DEF TypeOK, WriteStatus
<1>3. written' \subseteq Agents
  BY DEF TypeOK, WriteStatus
<1>4. losses' \in 0..MaxFaults
  <2>1. faults \in 0..MaxFaults /\ losses \in 0..MaxFaults /\ MaxFaults \in Nat
    BY ConstantsAssumption DEF TypeOK
  <2>2. losses' = losses \/ (faults + losses < MaxFaults /\ losses' = losses + 1)
    BY DEF WriteStatus
  <2> QED BY <2>1, <2>2
<1> QED BY <1>2, <1>3, <1>4 DEF ReportTyped

LEMMA FailureStaysTyped ==
  ASSUME TypeOK, NEW a \in Agents, FailAgent(a)
  PROVE  /\ ReportTyped'
         /\ outcome' \in [Agents -> {"none", "ok", "failed"}]
<1>1. WriteStatus(a, NoFolder, "none", TRUE, TRUE)
  BY DEF FailAgent
<1>2. ReportTyped'
  BY <1>1, StatusStaysTyped DEF Sources
<1>3. outcome' \in [Agents -> {"none", "ok", "failed"}]
  BY DEF TypeOK, FailAgent
<1> QED BY <1>2, <1>3

LEMMA FaultIsTyped ==
  ASSUME TypeOK, Fault \/ ServerFault
  PROVE  faults' \in 0..MaxFaults
<1>1. faults \in 0..MaxFaults /\ losses \in 0..MaxFaults /\ MaxFaults \in Nat
  BY ConstantsAssumption DEF TypeOK
<1> QED BY <1>1 DEF Fault, ServerFault

(* The source of a folder the agent in hand resolves: its cache entry's. *)
LEMMA HitIsTyped ==
  ASSUME TypeOK, InHand, CacheHoldsDetection, CacheHit
  PROVE  /\ cache[cur] \in CacheEntry
         /\ cache[cur] # NoEntry
         /\ cache[cur].source \in {"special-use", "provider"}
         /\ cache[cur].folder \in Folders
<1>1. cur \in Agents
  BY DEF CacheHit, InHand
<1>2. Mtime(cur) \in Nat
  BY <1>1 DEF TypeOK, EnvFile, Mtime
<1>3. cache[cur] # NoEntry
  BY <1>2 DEF CacheHit, NoEntry
<1>4. cache[cur] \in CacheEntry
  BY <1>1, <1>3 DEF TypeOK
<1>5. cache[cur].folder \in Folders
  BY <1>4 DEF CacheEntry
<1>6. cache[cur].source \in {"special-use", "provider"}
  BY <1>1, <1>3 DEF CacheHoldsDetection
<1> QED BY <1>3, <1>4, <1>5, <1>6

(* What a probe over a standing connection finds and caches. *)
Found(refused) == ~refused /\ Special[cfg.account] # NoFolder
Choice(refused) ==
  [mtime |-> Mtime(cur), folder |-> IF Found(refused) THEN Special[cfg.account] ELSE cfg.folder,
   source |-> IF Found(refused) THEN "special-use" ELSE "provider",
   account |-> cfg.account, version |-> cfg.version, refused |-> refused]

LEMMA ProbeCaches ==
  ASSUME TypeOK, InHand, NEW r \in BOOLEAN, Probed(r)
  PROVE  /\ cur \in Agents /\ pc = "stat" /\ pc' = "poll"
         /\ UNCHANGED <<env, table, todo, ready, cur, shutdown, outcome, saves>>
         /\ Resolved(Choice(r).folder, Choice(r).source)
         /\ \A a \in Agents : cache'[a] = IF a = cur THEN Choice(r) ELSE cache[a]
         /\ cache' \in [Agents -> CacheEntry \cup {NoEntry}]
         /\ cfg' \in Loaded
         /\ cfg'.account = cfg.account /\ cfg'.version = cfg.version
         /\ cfg'.explicit = cfg.explicit
         /\ cfg'.folder = Choice(r).folder /\ cfg'.folder \in Folders
         /\ cfg'.source = Choice(r).source /\ cfg'.source \in {"special-use", "provider"}
<1>1. /\ cur \in Agents /\ cfg.account \in Accounts /\ cfg.folder \in Folders /\ cfg \in Loaded
  BY DEF Probed, InHand, TypeOK
<1>2. /\ Choice(r).folder = IF Found(r) THEN Special[cfg.account] ELSE cfg.folder
      /\ Choice(r).source = IF Found(r) THEN "special-use" ELSE "provider"
  BY DEF Choice
<1>3. Choice(r).folder \in Folders /\ Choice(r).source \in {"special-use", "provider"}
  BY <1>1, <1>2, ConstantsAssumption DEF Found
<1>4. Mtime(cur) \in Nat /\ cfg.version \in Nat
  BY <1>1 DEF TypeOK, EnvFile, Mtime, Loaded
<1>5. Choice(r) \in CacheEntry
  BY <1>1, <1>2, <1>3, <1>4 DEF Choice, CacheEntry, Sources
<1>6. /\ cache' = [cache EXCEPT ![cur] = Choice(r)]
      /\ Resolved(Choice(r).folder, Choice(r).source)
      /\ pc = "stat" /\ UNCHANGED <<env, table, todo, ready, cur, shutdown, outcome, saves>>
  BY <1>2 DEF Probed, Choice, Found
<1>7. /\ cfg' = [cfg EXCEPT !.folder = Choice(r).folder, !.source = Choice(r).source]
      /\ pc' = "poll"
  BY <1>6 DEF Resolved
<1>8. /\ cache' \in [Agents -> CacheEntry \cup {NoEntry}]
      /\ \A a \in Agents : cache'[a] = IF a = cur THEN Choice(r) ELSE cache[a]
  BY <1>1, <1>5, <1>6 DEF TypeOK
<1>9. /\ cfg' \in Loaded
      /\ cfg'.account = cfg.account /\ cfg'.version = cfg.version
      /\ cfg'.explicit = cfg.explicit
      /\ cfg'.folder = Choice(r).folder /\ cfg'.source = Choice(r).source
  BY <1>1, <1>3, <1>7 DEF Loaded, Sources
<1> QED BY <1>1, <1>3, <1>6, <1>7, <1>8, <1>9

LEMMA ListingIsProbe ==
  ASSUME CacheMiss \/ ListFails
  PROVE  \E r \in BOOLEAN : Probed(r)
BY DEF CacheMiss, ListFails

(* Every step keeps the types. *)
LEMMA TypeStep ==
  ASSUME TypeOK, InHand, CacheHoldsDetection, [Next]_vars
  PROVE  TypeOK'
<1> USE NothingIsTyped DEF ReportTyped, report
<1>1. CASE WaitRound
  BY <1>1 DEF WaitRound, TypeOK, Discovered, memory
<1>2. CASE WaitCheck
  <2> PICK a \in Agents :
        /\ LoadConfig(env[a])
        /\ ready' = (ready \/ (env[a].cond = "ok" /\ env[a].enabled))
        /\ Visited(a)
        /\ IF env[a].cond = "ok" THEN UNCHANGED <<report, outcome>> ELSE FailAgent(a)
    BY <1>2 DEF WaitCheck
  <2>1. table' \in [Providers -> Folders]
    BY TableStaysTyped
  <2>2. /\ ReportTyped'
        /\ outcome' \in [Agents -> {"none", "ok", "failed"}]
    BY FailureStaysTyped DEF TypeOK
  <2>3. ready' \in BOOLEAN
    OBVIOUS
  <2> QED BY <1>2, <2>1, <2>2, <2>3 DEF WaitCheck, TypeOK, Visited
<1>3. CASE WaitCheckDies
  BY <1>3 DEF WaitCheckDies, TypeOK, memory
<1>4. CASE WaitDone
  BY <1>4 DEF WaitDone, TypeOK, memory
<1>5. CASE StartCycle
  BY <1>5 DEF StartCycle, TypeOK, Discovered, memory
<1>6. CASE CycleDone
  BY <1>6 DEF CycleDone, TypeOK, memory
<1>7. CASE LoadFails
  <2> PICK a \in Agents : LoadConfig(env[a]) /\ FailAgent(a) /\ Visited(a)
    BY <1>7 DEF LoadFails
  <2>1. table' \in [Providers -> Folders]
    BY TableStaysTyped
  <2>2. /\ ReportTyped'
        /\ outcome' \in [Agents -> {"none", "ok", "failed"}]
    BY FailureStaysTyped
  <2> QED BY <1>7, <2>1, <2>2 DEF LoadFails, TypeOK, Visited
<1>8. CASE SkipDisabled
  <2> PICK a \in Agents : LoadConfig(env[a]) /\ Visited(a)
    BY <1>8 DEF SkipDisabled
  <2>1. table' \in [Providers -> Folders]
    BY TableStaysTyped
  <2> QED BY <1>8, <2>1 DEF SkipDisabled, TypeOK, Visited
<1>9. CASE Load
  <2> PICK a \in Agents :
        /\ LoadConfig(env[a])
        /\ cur' = a /\ todo' = todo \ {a}
        /\ cfg' = [explicit |-> env[a].explicit, account |-> env[a].account,
                   folder |-> Preset(env[a]),
                   source |-> IF env[a].explicit # NoFolder THEN "explicit" ELSE "none",
                   version |-> env[a].mtime]
        /\ IF env[a].explicit # NoFolder
           THEN WriteStatus(a, env[a].explicit, "explicit", FALSE, FALSE) /\ pc' = "poll"
           ELSE pc' = "stat" /\ UNCHANGED report
        /\ outcome' = [outcome EXCEPT ![a] = "none"]
    BY <1>9 DEF Load
  <2>1. table' \in [Providers -> Folders]
    BY TableStaysTyped
  <2>2. env[a] \in EnvFile /\ Preset(env[a]) \in Folders
    BY PresetIsFolder DEF TypeOK
  <2>3. cfg' \in Loaded
    BY <2>2 DEF Loaded, EnvFile, Sources
  <2>4. ReportTyped'
    BY <2>2, StatusStaysTyped DEF TypeOK, EnvFile, Sources
  <2>5. outcome' \in [Agents -> {"none", "ok", "failed"}]
    BY DEF TypeOK
  <2>6. pc' \in {"stat", "poll"}
    OBVIOUS
  <2> QED BY <1>9, <2>1, <2>3, <2>4, <2>5, <2>6 DEF Load, TypeOK
<1>10. CASE CacheHit
  <2>1. cur \in Agents /\ cfg \in Loaded
    BY <1>10 DEF CacheHit, InHand, TypeOK
  <2>2. cache[cur].folder \in Folders /\ cache[cur].source \in {"special-use", "provider"}
    BY <1>10, HitIsTyped
  <2>3. Resolved(cache[cur].folder, cache[cur].source)
    BY <1>10 DEF CacheHit
  <2>4. cfg' \in Loaded
    BY <2>1, <2>2, <2>3 DEF Resolved, Loaded, Sources
  <2>5. ReportTyped'
    BY <2>1, <2>2, <2>3, StatusStaysTyped DEF Resolved, Sources
  <2> QED BY <1>10, <2>3, <2>4, <2>5 DEF CacheHit, Resolved, TypeOK, memory
<1>11. CASE CacheMiss \/ ListFails
  <2> PICK r \in BOOLEAN : Probed(r)
    BY <1>11, ListingIsProbe
  <2>1. /\ cur \in Agents /\ pc' = "poll"
        /\ UNCHANGED <<env, table, todo, ready, cur, shutdown, outcome, saves>>
        /\ Resolved(Choice(r).folder, Choice(r).source)
        /\ cache' \in [Agents -> CacheEntry \cup {NoEntry}]
        /\ cfg' \in Loaded
        /\ Choice(r).folder \in Folders /\ Choice(r).source \in Sources
    BY ProbeCaches DEF Sources
  <2>2. ReportTyped'
    BY <2>1, StatusStaysTyped DEF Resolved
  <2>3. faults' \in 0..MaxFaults
    BY <1>11, FaultIsTyped DEF CacheMiss, ListFails, TypeOK
  <2> QED BY <2>1, <2>2, <2>3 DEF TypeOK
<1>12. CASE ProbeFails
  <2>1. cur \in Agents /\ cfg \in Loaded /\ cfg.folder \in Folders
    BY <1>12 DEF ProbeFails, InHand, TypeOK
  <2>2. Resolved(cfg.folder, "provider")
    BY <1>12 DEF ProbeFails
  <2>3. cfg' \in Loaded
    BY <2>1, <2>2 DEF Resolved, Loaded, Sources
  <2>4. ReportTyped'
    BY <2>1, <2>2, StatusStaysTyped DEF Resolved, Sources
  <2>5. faults' \in 0..MaxFaults
    BY <1>12, FaultIsTyped DEF ProbeFails
  <2> QED BY <1>12, <2>2, <2>3, <2>4, <2>5 DEF ProbeFails, Resolved, TypeOK, memory
<1>13. CASE PollSucceeds
  <2>1. cur \in Agents /\ cfg.folder \in Folders /\ cfg.source \in Sources
    BY <1>13 DEF PollSucceeds, InHand, TypeOK, Loaded
  <2>2. ReportTyped'
    BY <1>13, <2>1, StatusStaysTyped DEF PollSucceeds
  <2>3. outcome' \in [Agents -> {"none", "ok", "failed"}]
    BY <1>13 DEF PollSucceeds, TypeOK
  <2> QED BY <1>13, <2>2, <2>3 DEF PollSucceeds, TypeOK, memory
<1>14. CASE PollFails
  <2>1. cur \in Agents
    BY <1>14 DEF PollFails, InHand
  <2>2. /\ ReportTyped'
        /\ outcome' \in [Agents -> {"none", "ok", "failed"}]
    BY <1>14, <2>1, FailureStaysTyped DEF PollFails
  <2>3. faults' \in 0..MaxFaults
    BY <1>14, FaultIsTyped DEF PollFails
  <2> QED BY <1>14, <2>2, <2>3 DEF PollFails, TypeOK, memory
<1>15. CASE Sigterm
  <2>1. faults' \in 0..MaxFaults
    BY <1>15, FaultIsTyped DEF Sigterm
  <2>2. shutdown' \in BOOLEAN
    BY <1>15 DEF Sigterm
  <2> QED BY <1>15, <2>1, <2>2 DEF Sigterm, TypeOK, memory, control
<1>16. CASE Crash
  <2>1. faults' \in 0..MaxFaults
    BY <1>16, FaultIsTyped DEF Crash
  <2> QED BY <1>16, <2>1 DEF Crash, TypeOK, memory
<1>17. CASE Boot
  <2>1. table' \in [Providers -> Folders]
    BY <1>17, ConstantsAssumption DEF Boot, ShippedTable
  <2>2. cache' \in [Agents -> CacheEntry \cup {NoEntry}]
    BY <1>17 DEF Boot
  <2>3. ready' \in BOOLEAN /\ shutdown' \in BOOLEAN
    BY <1>17 DEF Boot
  <2> QED BY <1>17, <2>1, <2>2, <2>3 DEF Boot, TypeOK
<1>18. CASE WebUi
  <2> PICK a \in Agents : SaveEnv(a) \/ DeleteAgent(a)
    BY <1>18 DEF WebUi
  <2>1. env[a] \in EnvFile /\ env[a].mtime + 1 \in Nat \ {0}
    BY DEF TypeOK, EnvFile
  <2>2. CASE SaveEnv(a)
    <3>1. env' \in [Agents -> EnvFile]
      <4> PICK c \in Conditions \ {"absent"}, e \in BOOLEAN,
               x \in Folders \cup {NoFolder}, n \in Accounts :
            env' = [env EXCEPT ![a] = [cond |-> c, enabled |-> e, explicit |-> x,
                                       account |-> n, mtime |-> @.mtime + 1]]
        BY <2>2 DEF SaveEnv
      <4>1. [cond |-> c, enabled |-> e, explicit |-> x, account |-> n,
             mtime |-> env[a].mtime + 1] \in EnvFile
        BY <2>1 DEF EnvFile
      <4> QED BY <4>1 DEF TypeOK
    <3>2. saves' \in 0..MaxSaves
      BY <1>18, ConstantsAssumption DEF WebUi, TypeOK
    <3> QED BY <1>18, <2>2, <3>1, <3>2 DEF WebUi, SaveEnv, TypeOK, memory, control
  <2>3. CASE DeleteAgent(a)
    <3>1. env' \in [Agents -> EnvFile]
      <4>1. [env[a] EXCEPT !.cond = "absent", !.mtime = @ + 1] \in EnvFile
        BY <2>1, <2>3 DEF EnvFile, DeleteAgent
      <4>2. env' = [env EXCEPT ![a] = [env[a] EXCEPT !.cond = "absent", !.mtime = @ + 1]]
        BY <2>1, <2>3 DEF DeleteAgent, TypeOK, EnvFile
      <4> QED BY <4>1, <4>2 DEF TypeOK
    <3>2. saves' \in 0..MaxSaves
      BY <1>18, ConstantsAssumption DEF WebUi, TypeOK
    <3>3. ReportTyped'
      BY <2>3 DEF DeleteAgent, TypeOK
    <3>4. outcome' \in [Agents -> {"none", "ok", "failed"}]
      BY <2>3 DEF DeleteAgent, TypeOK
    <3> QED BY <1>18, <3>1, <3>2, <3>3, <3>4 DEF WebUi, TypeOK, memory, control
  <2> QED BY <2>2, <2>3
<1>19. CASE UNCHANGED vars
  BY <1>19 DEF vars, memory, control, TypeOK
<1> QED
  BY <1>1, <1>2, <1>3, <1>4, <1>5, <1>6, <1>7, <1>8, <1>9, <1>10, <1>11, <1>12, <1>13,
     <1>14, <1>15, <1>16, <1>17, <1>18, <1>19
  DEF Next, Progress, Environment, Restart, StartContainer

-----------------------------------------------------------------------------
LEMMA CycleInit == Init => CycleInv
<1> SUFFICES ASSUME Init PROVE CycleInv
  OBVIOUS
<1> USE NothingIsTyped
<1>1. TypeOK
  <2>1. env \in [Agents -> EnvFile]
    BY ConstantsAssumption DEF Init
  <2>2. ReportTyped
    BY ConstantsAssumption DEF Init, ReportTyped
  <2>3. table \in [Providers -> Folders]
    BY ConstantsAssumption DEF Init, ShippedTable
  <2>4. cache \in [Agents -> CacheEntry \cup {NoEntry}]
    BY DEF Init
  <2>5. outcome \in [Agents -> {"none", "ok", "failed"}]
    BY DEF Init
  <2>6. saves \in 0..MaxSaves /\ faults \in 0..MaxFaults
    BY ConstantsAssumption DEF Init
  <2> QED BY <2>1, <2>2, <2>3, <2>4, <2>5, <2>6 DEF Init, TypeOK, ReportTyped
<1>2. \A a \in Agents : cache[a] = NoEntry /\ outcome[a] = "none"
  BY DEF Init
<1>3. pc = "boot" /\ cur = NoAgent
  BY DEF Init
<1> QED
  BY <1>1, <1>2, <1>3
  DEF CycleInv, InHand, CacheHoldsDetection, StatusTellsOutcome, Tells, TypeOK,
      OneAccountPerVersion, CacheVersion, ConfigVersion, CacheBeforeConfig, CacheFollowsEnv, ExplicitInHand

(* No step but a fresh detection fills the cache. *)
LEMMA DetectionStep ==
  ASSUME TypeOK, InHand, CacheHoldsDetection, [Next]_vars
  PROVE  CacheHoldsDetection'
<1>1. CASE UNCHANGED cache
  BY <1>1 DEF CacheHoldsDetection
<1>2. CASE CacheMiss \/ ListFails
  <2> PICK r \in BOOLEAN : Probed(r)
    BY <1>2, ListingIsProbe
  <2>1. \A a \in Agents : cache'[a] = IF a = cur THEN Choice(r) ELSE cache[a]
    BY ProbeCaches
  <2>2. IF Special[Choice(r).account] # NoFolder /\ ~Choice(r).refused
        THEN /\ Choice(r).folder = Special[Choice(r).account]
             /\ Choice(r).source = "special-use"
        ELSE Choice(r).source = "provider"
    BY DEF Choice, Found
  <2> QED BY <2>1, <2>2 DEF CacheHoldsDetection
<1>3. CASE Boot
  <2>1. \A a \in Agents : cache'[a] = NoEntry
    BY <1>3 DEF Boot
  <2> QED BY <2>1 DEF CacheHoldsDetection
<1> QED
  BY <1>1, <1>2, <1>3
  DEF Next, Progress, Environment, vars, memory, WaitRound, WaitCheck, WaitCheckDies,
      WaitDone, StartCycle, CycleDone, LoadFails, SkipDisabled, Load, CacheHit, ProbeFails,
      PollSucceeds, PollFails, Sigterm, Crash, Restart, StartContainer, WebUi

(* What a save or a deletion leaves of the bookkeeping. *)
LEMMA WebUiIsNews ==
  ASSUME TypeOK, WebUi
  PROVE  /\ \A a \in Agents : \/ env'[a] = env[a] /\ outcome'[a] = outcome[a]
                                                  /\ status'[a] = status[a]
                              \/ /\ env'[a].mtime > env[a].mtime
                                 /\ outcome'[a] = "none" \/ /\ outcome'[a] = outcome[a]
                                                            /\ status'[a] = status[a]
         /\ UNCHANGED <<cache, pc, cur, cfg, written>>
<1>1. PICK a \in Agents : SaveEnv(a) \/ DeleteAgent(a)
  BY DEF WebUi
<1>2. \A b \in Agents : env[b].mtime \in Nat
  BY DEF TypeOK, EnvFile
<1>3. UNCHANGED <<cache, pc, cur, cfg, written>>
  BY DEF WebUi, SaveEnv, DeleteAgent, report, memory, control
<1>4. CASE SaveEnv(a)
  <2>1. /\ env'[a].mtime = env[a].mtime + 1
        /\ \A b \in Agents \ {a} : env'[b] = env[b]
    BY <1>4 DEF SaveEnv, TypeOK
  <2> QED BY <1>2, <1>3, <1>4, <2>1 DEF SaveEnv, report
<1>5. CASE DeleteAgent(a)
  <2>1. /\ env'[a].mtime = env[a].mtime + 1
        /\ \A b \in Agents \ {a} : env'[b] = env[b]
    BY <1>5 DEF DeleteAgent, TypeOK, EnvFile
  <2>2. /\ outcome'[a] = "none"
        /\ \A b \in Agents \ {a} : outcome'[b] = outcome[b] /\ status'[b] = status[b]
    BY <1>5 DEF DeleteAgent, TypeOK
  <2> QED BY <1>2, <1>3, <2>1, <2>2
<1> QED BY <1>1, <1>4, <1>5

LEMMA InHandStep ==
  ASSUME TypeOK, TypeOK', InHand, CacheHoldsDetection, [Next]_vars
  PROVE  InHand'
<1> USE DEF InHand
<1>1. CASE Load
  <2> PICK a \in Agents :
        /\ cur' = a
        /\ cfg' = [explicit |-> env[a].explicit, account |-> env[a].account,
                   folder |-> Preset(env[a]),
                   source |-> IF env[a].explicit # NoFolder THEN "explicit" ELSE "none",
                   version |-> env[a].mtime]
        /\ IF env[a].explicit # NoFolder
           THEN WriteStatus(a, env[a].explicit, "explicit", FALSE, FALSE) /\ pc' = "poll"
           ELSE pc' = "stat" /\ UNCHANGED report
        /\ outcome' = [outcome EXCEPT ![a] = "none"]
    BY <1>1 DEF Load
  <2>1. env[a].account \in Accounts /\ Preset(env[a]) \in Folders
    BY PresetIsFolder DEF TypeOK, EnvFile
  <2>2. outcome'[cur'] = "none"
    BY DEF TypeOK
  <2> QED BY <2>1, <2>2
<1>2. CASE CacheHit
  <2>1. /\ cache[cur].source \in {"special-use", "provider"}
        /\ cache[cur].folder \in Folders
    BY <1>2, HitIsTyped
  <2>2. /\ cfg' = [cfg EXCEPT !.folder = cache[cur].folder, !.source = cache[cur].source]
        /\ pc' = "poll" /\ pc = "stat" /\ UNCHANGED <<cur, outcome>>
    BY <1>2 DEF CacheHit, Resolved
  <2>3. cfg \in Loaded
    BY DEF TypeOK
  <2>4. /\ cfg'.account = cfg.account
        /\ cfg'.folder = cache[cur].folder /\ cfg'.source = cache[cur].source
    BY <2>2, <2>3 DEF Loaded
  <2> QED BY <2>1, <2>2, <2>4
<1>3. CASE CacheMiss \/ ListFails
  <2> PICK r \in BOOLEAN : Probed(r)
    BY <1>3, ListingIsProbe
  <2>1. /\ cfg'.account = cfg.account /\ cfg'.folder \in Folders
        /\ cfg'.source \in {"special-use", "provider"}
        /\ pc' = "poll" /\ pc = "stat" /\ UNCHANGED <<cur, outcome>>
    BY ProbeCaches
  <2> QED BY <2>1
<1>4. CASE ProbeFails
  <2>1. cfg' = [cfg EXCEPT !.folder = cfg.folder, !.source = "provider"] /\ cfg \in Loaded
    BY <1>4 DEF ProbeFails, Resolved, TypeOK
  <2>2. cfg'.account = cfg.account /\ cfg'.folder = cfg.folder /\ cfg'.source = "provider"
    BY <2>1 DEF Loaded
  <2>3. pc' = "poll" /\ pc = "stat" /\ UNCHANGED <<cur, outcome>>
    BY <1>4 DEF ProbeFails, Resolved
  <2> QED BY <2>2, <2>3
<1>5. CASE WebUi
  <2>1. UNCHANGED <<pc, cur, cfg>>
    BY <1>5, WebUiIsNews
  <2>2. pc \in {"stat", "poll"} => outcome'[cur] = "none"
    BY <1>5, WebUiIsNews
  <2> QED BY <2>1, <2>2
<1>6. CASE pc' \notin {"stat", "poll"} /\ cur' = NoAgent
  BY <1>6
<1>7. CASE UNCHANGED <<pc, cur, cfg, outcome>>
  BY <1>7
<1> QED
  BY <1>1, <1>2, <1>3, <1>4, <1>5, <1>6, <1>7
  DEF Next, Progress, Environment, vars, control, WaitRound, WaitCheck, WaitCheckDies,
      WaitDone, StartCycle, CycleDone, LoadFails, SkipDisabled, Visited,
      PollSucceeds, PollFails, Sigterm, Crash, Restart, StartContainer, Boot

-----------------------------------------------------------------------------
(* What StatusTellsOutcome says of one agent; the one in hand has no outcome. *)
Told(a) == a \in written => Tells(a)

LEMMA AllAreTold ==
  ASSUME InHand, StatusTellsOutcome
  PROVE  \A a \in Agents : Told(a)
BY NothingIsTyped DEF InHand, StatusTellsOutcome, Told, Tells

LEMMA FailureIsTold ==
  ASSUME TypeOK, NEW a \in Agents, FailAgent(a), \A b \in Agents : Told(b)
  PROVE  \A b \in Agents : Told(b)'
<1>1. WriteStatus(a, NoFolder, "none", TRUE, TRUE)
  BY DEF FailAgent
<1>2. /\ a \in written' => status'[a].error /\ status'[a].heartbeat
      /\ \A b \in Agents \ {a} : status'[b] = status[b] /\ (b \in written' => b \in written)
  BY <1>1 DEF TypeOK, WriteStatus
<1>3. /\ outcome'[a] = "failed"
      /\ \A b \in Agents \ {a} : outcome'[b] = outcome[b]
  BY DEF TypeOK, FailAgent
<1>4. Told(a)'
  BY <1>2, <1>3 DEF Told, Tells
<1>5. ASSUME NEW b \in Agents \ {a} PROVE Told(b)'
  BY <1>2, <1>3, <1>5 DEF Told, Tells
<1> QED BY <1>4, <1>5

(* A status written while the agent is in hand claims nothing. *)
LEMMA WorkIsTold ==
  ASSUME TypeOK, NEW a \in Agents, outcome'[a] = "none", \A b \in Agents : Told(b),
         \A b \in Agents \ {a} :
           status'[b] = status[b] /\ outcome'[b] = outcome[b] /\ (b \in written' => b \in written)
  PROVE  \A b \in Agents : Told(b)'
<1>1. Told(a)'
  BY DEF Told, Tells
<1>2. ASSUME NEW b \in Agents \ {a} PROVE Told(b)'
  BY <1>2 DEF Told, Tells
<1> QED BY <1>1, <1>2

LEMMA StatusStep ==
  ASSUME TypeOK, TypeOK', InHand, CacheHoldsDetection, StatusTellsOutcome, [Next]_vars
  PROVE  StatusTellsOutcome'
<1>1. \A a \in Agents : Told(a)
  BY AllAreTold
<1> SUFFICES \A a \in Agents : Told(a)'
  BY DEF StatusTellsOutcome, Told, TypeOK
<1>2. CASE UNCHANGED <<report, outcome>>
  BY <1>1, <1>2 DEF Told, Tells, report
<1>3. ASSUME NEW a \in Agents, FailAgent(a) PROVE \A b \in Agents : Told(b)'
  BY <1>1, <1>3, FailureIsTold
<1>4. CASE Load
  <2> PICK a \in Agents :
        /\ IF env[a].explicit # NoFolder
           THEN WriteStatus(a, env[a].explicit, "explicit", FALSE, FALSE) /\ pc' = "poll"
           ELSE pc' = "stat" /\ UNCHANGED report
        /\ outcome' = [outcome EXCEPT ![a] = "none"]
    BY <1>4 DEF Load
  <2>1. /\ outcome'[a] = "none"
        /\ \A b \in Agents \ {a} : outcome'[b] = outcome[b]
    BY DEF TypeOK
  <2>2. \A b \in Agents \ {a} : status'[b] = status[b] /\ (b \in written' => b \in written)
    BY DEF TypeOK, WriteStatus, report
  <2> QED BY <1>1, <2>1, <2>2, WorkIsTold
<1>5. ASSUME NEW f, NEW x, Resolved(f, x), pc = "stat", UNCHANGED outcome
      PROVE  \A b \in Agents : Told(b)'
  <2>1. cur \in Agents /\ outcome'[cur] = "none"
    BY <1>5 DEF InHand
  <2>2. \A b \in Agents \ {cur} :
          status'[b] = status[b] /\ outcome'[b] = outcome[b] /\ (b \in written' => b \in written)
    BY <1>5, <2>1 DEF TypeOK, Resolved, WriteStatus
  <2> QED BY <1>1, <2>1, <2>2, WorkIsTold
<1>6. CASE PollSucceeds
  <2>1. cur \in Agents /\ cfg.source # "none"
    BY <1>6 DEF PollSucceeds, InHand
  <2>2. /\ WriteStatus(cur, cfg.folder, cfg.source, FALSE, TRUE)
        /\ outcome'[cur] = "ok"
        /\ \A b \in Agents \ {cur} : outcome'[b] = outcome[b]
    BY <1>6, <2>1 DEF PollSucceeds, TypeOK
  <2>3. cur \in written' =>
          ~status'[cur].error /\ status'[cur].heartbeat /\ status'[cur].source # "none"
    BY <2>1, <2>2 DEF TypeOK, WriteStatus
  <2>4. \A b \in Agents \ {cur} : status'[b] = status[b] /\ (b \in written' => b \in written)
    BY <2>1, <2>2 DEF TypeOK, WriteStatus
  <2> TAKE b \in Agents
  <2>5. CASE b = cur
    BY <2>2, <2>3, <2>5 DEF Told, Tells
  <2>6. CASE b # cur
    BY <1>1, <2>2, <2>4, <2>6 DEF Told, Tells
  <2> QED BY <2>5, <2>6
<1>7. CASE WebUi
  <2> TAKE b \in Agents
  <2>1. /\ outcome'[b] = "none" \/ (outcome'[b] = outcome[b] /\ status'[b] = status[b])
        /\ written' = written
    BY <1>7, WebUiIsNews
  <2>2. Told(b)
    BY <1>1
  <2> QED BY <2>1, <2>2 DEF Told, Tells
<1>8. CASE WaitCheck
  BY <1>2, <1>3, <1>8 DEF WaitCheck
<1>9. CASE LoadFails
  BY <1>3, <1>9 DEF LoadFails
<1>10. CASE PollFails
  BY <1>3, <1>10 DEF PollFails, InHand
<1>11. CASE CacheHit
  BY <1>5, <1>11 DEF CacheHit
<1>12. CASE CacheMiss \/ ListFails
  <2> PICK r \in BOOLEAN : Probed(r)
    BY <1>12, ListingIsProbe
  <2> QED BY <1>5, ProbeCaches
<1>13. CASE ProbeFails
  BY <1>5, <1>13 DEF ProbeFails
<1> QED
  BY <1>2, <1>4, <1>6, <1>7, <1>8, <1>9, <1>10, <1>11, <1>12, <1>13
  DEF Next, Progress, Environment, vars, WaitRound, WaitCheckDies, WaitDone, StartCycle,
      CycleDone, SkipDisabled, Sigterm, Crash, Restart, StartContainer, Boot

-----------------------------------------------------------------------------
LEMMA VersionStep ==
  ASSUME TypeOK, TypeOK', InHand, CacheHoldsDetection, OneAccountPerVersion, [Next]_vars
  PROVE  OneAccountPerVersion'
<1> USE DEF OneAccountPerVersion, CacheVersion, ConfigVersion, CacheBeforeConfig
<1>1. \A a \in Agents : env[a].mtime \in Nat \ {0}
  BY DEF TypeOK, EnvFile
<1>2. CASE UNCHANGED <<env, cache>> /\ pc' \notin {"stat", "poll"}
  BY <1>2
<1>3. CASE UNCHANGED <<env, cache, pc, cur, cfg>>
  BY <1>3
<1>4. CASE Load
  <2> PICK a \in Agents :
        /\ cur' = a
        /\ cfg' = [explicit |-> env[a].explicit, account |-> env[a].account,
                   folder |-> Preset(env[a]),
                   source |-> IF env[a].explicit # NoFolder THEN "explicit" ELSE "none",
                   version |-> env[a].mtime]
    BY <1>4 DEF Load
  <2>1. cfg'.version = env[a].mtime /\ cfg'.account = env[a].account
    OBVIOUS
  <2>2. UNCHANGED <<env, cache>>
    BY <1>4 DEF Load
  <2> QED BY <1>1, <2>1, <2>2
<1>5. ASSUME pc = "stat", pc' = "poll", UNCHANGED <<env, cache, cur>>,
             NEW f, NEW x, cfg' = [cfg EXCEPT !.folder = f, !.source = x]
      PROVE  OneAccountPerVersion'
  <2>1. cfg'.version = cfg.version /\ cfg'.account = cfg.account
    BY <1>5 DEF TypeOK, Loaded
  <2> QED BY <1>5, <2>1
<1>6. CASE CacheMiss \/ ListFails
  <2> PICK r \in BOOLEAN : Probed(r)
    BY <1>6, ListingIsProbe
  <2>1. Choice(r).account = cfg.account /\ Choice(r).version = cfg.version
    BY DEF Choice
  <2>2. /\ pc = "stat" /\ pc' = "poll" /\ UNCHANGED <<env, cur>>
        /\ cfg'.version = cfg.version /\ cfg'.account = cfg.account
        /\ \A a \in Agents : cache'[a] = IF a = cur THEN Choice(r) ELSE cache[a]
    BY ProbeCaches
  <2> QED BY <2>1, <2>2
<1>7. CASE WebUi
  <2>1. UNCHANGED <<cache, pc, cur, cfg>>
    BY <1>7, WebUiIsNews
  <2>2. \A a \in Agents : env'[a] = env[a] \/ env'[a].mtime > env[a].mtime
    BY <1>7, WebUiIsNews
  <2>3. \A a \in Agents : cache[a] # NoEntry => cache[a].version \in Nat
    BY DEF TypeOK, CacheEntry
  <2>4. cfg.version \in Nat /\ \A a \in Agents : env'[a].mtime \in Nat
    BY DEF TypeOK, Loaded, EnvFile
  <2>5. ASSUME NEW a \in Agents PROVE CacheVersion(a)'
    BY <1>1, <2>1, <2>2, <2>3, <2>4, <2>5
  <2>6. ConfigVersion'
    BY <1>1, <2>1, <2>2, <2>4 DEF InHand
  <2>7. CacheBeforeConfig'
    BY <2>1
  <2> QED BY <2>5, <2>6, <2>7
<1>8. CASE Boot
  <2>1. \A a \in Agents : cache'[a] = NoEntry
    BY <1>8 DEF Boot
  <2>2. pc' = "boot"
    BY <1>8 DEF Boot
  <2> QED BY <2>1, <2>2
<1>9. CASE CacheHit
  BY <1>5, <1>9 DEF CacheHit, Resolved, memory
<1>10. CASE ProbeFails
  BY <1>5, <1>10 DEF ProbeFails, Resolved, memory
<1> QED
  BY <1>2, <1>3, <1>4, <1>6, <1>7, <1>8, <1>9, <1>10
  DEF Next, Progress, Environment, vars, memory, control, WaitRound, WaitCheck,
      WaitCheckDies, WaitDone, StartCycle, CycleDone, LoadFails, SkipDisabled,
      PollSucceeds, PollFails, Sigterm, Crash, Restart, StartContainer

(* A hit is an entry for the file as it is, so for the account in hand. *)
LEMMA FollowStep ==
  ASSUME TypeOK, InHand, CacheHoldsDetection, OneAccountPerVersion, CacheFollowsEnv,
         [Next]_vars
  PROVE  CacheFollowsEnv'
<1>1. CASE pc' # "poll"
  BY <1>1 DEF CacheFollowsEnv
<1>2. CASE UNCHANGED <<cache, pc, cur, cfg>>
  BY <1>2 DEF CacheFollowsEnv
<1>3. CASE Load
  <2> PICK a \in Agents :
        /\ cfg' = [explicit |-> env[a].explicit, account |-> env[a].account,
                   folder |-> Preset(env[a]),
                   source |-> IF env[a].explicit # NoFolder THEN "explicit" ELSE "none",
                   version |-> env[a].mtime]
        /\ IF env[a].explicit # NoFolder
           THEN WriteStatus(a, env[a].explicit, "explicit", FALSE, FALSE) /\ pc' = "poll"
           ELSE pc' = "stat" /\ UNCHANGED report
    BY <1>3 DEF Load
  <2>1. cfg'.source # "special-use"
    OBVIOUS
  <2> QED BY <2>1 DEF CacheFollowsEnv
<1>4. CASE CacheHit
  <2>1. /\ cur \in Agents /\ pc = "stat" /\ UNCHANGED <<cache, cur>>
        /\ cache[cur].mtime = Mtime(cur)
        /\ cfg' = [cfg EXCEPT !.folder = cache[cur].folder, !.source = cache[cur].source]
    BY <1>4 DEF CacheHit, InHand, Resolved, memory
  <2>2. cache[cur] \in CacheEntry /\ cache[cur] # NoEntry
    BY <1>4, HitIsTyped
  <2>3. /\ cfg'.folder = cache[cur].folder /\ cfg'.source = cache[cur].source
        /\ cfg'.account = cfg.account
    BY <2>1 DEF TypeOK, Loaded
  <2>4. SUFFICES ASSUME cache[cur].source = "special-use",
                        cache[cur].version = cache[cur].mtime
                 PROVE  cache[cur].folder = Special[cfg.account]
    BY <2>1, <2>3 DEF CacheFollowsEnv
  <2>5. cache[cur].folder = Special[cache[cur].account]
    BY <2>1, <2>2, <2>4 DEF CacheHoldsDetection
  <2>6. cache[cur].version > 0 /\ cache[cur].version <= cfg.version
        /\ cfg.version <= env[cur].mtime
    BY <2>1, <2>2 DEF OneAccountPerVersion, CacheVersion, CacheBeforeConfig, ConfigVersion
  <2>7. cache[cur].version = env[cur].mtime
    BY <2>1, <2>4, <2>6 DEF Mtime
  <2>8. /\ cache[cur].version \in Nat /\ cfg.version \in Nat /\ env[cur].mtime \in Nat
    BY <2>1, <2>2 DEF TypeOK, CacheEntry, Loaded, EnvFile
  <2>9. cache[cur].version = cfg.version
    BY <2>6, <2>7, <2>8
  <2>10. cache[cur].account = cfg.account
    BY <2>1, <2>2, <2>9 DEF OneAccountPerVersion, CacheBeforeConfig
  <2> QED BY <2>5, <2>10
<1>5. CASE CacheMiss \/ ListFails
  <2> PICK r \in BOOLEAN : Probed(r)
    BY <1>5, ListingIsProbe
  <2>1. /\ cfg'.account = cfg.account
        /\ cfg'.folder = Choice(r).folder /\ cfg'.source = Choice(r).source
    BY ProbeCaches
  <2>2. Choice(r).source = "special-use" => Choice(r).folder = Special[cfg.account]
    BY DEF Choice, Found
  <2> QED BY <2>1, <2>2 DEF CacheFollowsEnv
<1>6. CASE ProbeFails
  <2>1. cfg'.source = "provider"
    BY <1>6 DEF ProbeFails, Resolved, TypeOK, Loaded
  <2> QED BY <2>1 DEF CacheFollowsEnv
<1>7. CASE WebUi
  BY <1>2, <1>7, WebUiIsNews
<1> QED
  BY <1>1, <1>2, <1>3, <1>4, <1>5, <1>6, <1>7
  DEF Next, Progress, Environment, vars, memory, control, WaitRound, WaitCheck,
      WaitCheckDies, WaitDone, StartCycle, CycleDone, LoadFails, SkipDisabled,
      PollSucceeds, PollFails, Sigterm, Crash, Restart, StartContainer, Boot

(* Only Load reads the .env; a resolution is for a configuration without an
   explicit folder. *)
LEMMA ExplicitStep ==
  ASSUME TypeOK, InHand, OneAccountPerVersion, ExplicitInHand, [Next]_vars
  PROVE  ExplicitInHand'
<1> USE DEF ExplicitInHand
<1>1. CASE pc' \notin {"stat", "poll"}
  BY <1>1
<1>2. CASE UNCHANGED <<env, pc, cur, cfg>>
  BY <1>2
<1>3. CASE Load
  <2> PICK a \in Agents :
        /\ cur' = a /\ env' = env
        /\ cfg' = [explicit |-> env[a].explicit, account |-> env[a].account,
                   folder |-> Preset(env[a]),
                   source |-> IF env[a].explicit # NoFolder THEN "explicit" ELSE "none",
                   version |-> env[a].mtime]
        /\ IF env[a].explicit # NoFolder
           THEN WriteStatus(a, env[a].explicit, "explicit", FALSE, FALSE) /\ pc' = "poll"
           ELSE pc' = "stat" /\ UNCHANGED report
    BY <1>3 DEF Load
  <2>1. cfg'.explicit = env[a].explicit /\ cfg'.folder = Preset(env[a])
    OBVIOUS
  <2> QED BY <2>1 DEF Preset
<1>4. CASE pc = "stat" /\ UNCHANGED <<env, cur>> /\ cfg'.explicit = cfg.explicit
           /\ cfg'.version = cfg.version
  BY <1>4
<1>5. ASSUME NEW f, NEW s, pc = "stat", Resolved(f, s), UNCHANGED <<env, cur>>
      PROVE  ExplicitInHand'
  <2>1. cfg'.explicit = cfg.explicit /\ cfg'.version = cfg.version
    BY <1>5 DEF Resolved, TypeOK, Loaded
  <2> QED BY <1>4, <1>5, <2>1
<1>6. CASE CacheHit
  BY <1>5, <1>6 DEF CacheHit
<1>7. CASE CacheMiss \/ ListFails
  <2> PICK r \in BOOLEAN : Probed(r)
    BY <1>7, ListingIsProbe
  <2> QED BY <1>5, ProbeCaches
<1>8. CASE ProbeFails
  BY <1>5, <1>8 DEF ProbeFails
<1>9. CASE WebUi
  <2> SUFFICES ASSUME pc \in {"stat", "poll"} PROVE ExplicitInHand'
    BY <1>9, WebUiIsNews
  <2>1. cur \in Agents /\ UNCHANGED <<pc, cur, cfg>>
    BY <1>9, WebUiIsNews DEF InHand
  <2>2. env'[cur] = env[cur] \/ env'[cur].mtime > env[cur].mtime
    BY <1>9, <2>1, WebUiIsNews
  <2>3. cfg.version <= env[cur].mtime /\ cfg.version \in Nat /\ env[cur].mtime \in Nat
    BY <2>1 DEF OneAccountPerVersion, ConfigVersion, TypeOK, Loaded, EnvFile
  <2>4. CASE env'[cur] = env[cur]
    BY <2>1, <2>4
  <2>5. CASE env'[cur].mtime > env[cur].mtime
    BY <2>1, <2>3, <2>5
  <2> QED BY <2>2, <2>4, <2>5
<1> QED
  BY <1>1, <1>2, <1>3, <1>6, <1>7, <1>8, <1>9
  DEF Next, Progress, Environment, vars, memory, control, WaitRound, WaitCheck,
      WaitCheckDies, WaitDone, StartCycle, CycleDone, LoadFails, SkipDisabled,
      PollSucceeds, PollFails, Sigterm, Crash, Restart, StartContainer, Boot

-----------------------------------------------------------------------------
LEMMA CycleStep == CycleInv /\ [Next]_vars => CycleInv'
<1> SUFFICES ASSUME CycleInv, [Next]_vars PROVE CycleInv'
  OBVIOUS
<1>1. TypeOK /\ InHand /\ CacheHoldsDetection /\ StatusTellsOutcome
      /\ OneAccountPerVersion /\ CacheFollowsEnv /\ ExplicitInHand
  BY DEF CycleInv
<1>2. TypeOK'
  BY <1>1, TypeStep
<1>3. InHand'
  BY <1>1, <1>2, InHandStep
<1>4. CacheHoldsDetection'
  BY <1>1, DetectionStep
<1>5. StatusTellsOutcome'
  BY <1>1, <1>2, StatusStep
<1>6. OneAccountPerVersion'
  BY <1>1, <1>2, VersionStep
<1>7. CacheFollowsEnv'
  BY <1>1, FollowStep
<1>8. ExplicitInHand'
  BY <1>1, ExplicitStep
<1> QED BY <1>2, <1>3, <1>4, <1>5, <1>6, <1>7, <1>8 DEF CycleInv

(* The invariant holds of every run of the agent process. *)
THEOREM CycleSafe == Spec => []CycleInv
<1>1. Init => CycleInv
  BY CycleInit
<1>2. CycleInv /\ [Next]_vars => CycleInv'
  BY CycleStep
<1> QED BY <1>1, <1>2, PTL DEF Spec

(* Types: the process of agent/src/main.py over all its agents. *)
THEOREM TypeCorrect == Spec => []TypeOK
<1>1. CycleInv => TypeOK
  BY DEF CycleInv
<1> QED BY <1>1, CycleSafe, PTL

(* A cached Drafts folder is what the server of the probed account announces,
   unless that server failed the LIST of the probe; a probe that did not get that
   far leaves nothing behind: _resolve_drafts_folder, detect_drafts_folder. *)
THEOREM DetectionIsCached == Spec => []CacheHoldsDetection
<1>1. CycleInv => CacheHoldsDetection
  BY DEF CycleInv
<1> QED BY <1>1, CycleSafe, PTL

(* A status file whose latest write took effect tells how its agent fared, whatever
   happens to the others: _run_cycle, _fail_agent, write_status. *)
THEOREM StatusIsTrue == Spec => []StatusTellsOutcome
<1>1. CycleInv => StatusTellsOutcome
  BY DEF CycleInv
<1> QED BY <1>1, CycleSafe, PTL

(* A poll uses the folder its own server flags after any change of the account:
   the mtime key of _drafts_cache. *)
THEOREM CacheIsCurrent == Spec => []CacheFollowsEnv
<1>1. CycleInv => CacheFollowsEnv
  BY DEF CycleInv
<1> QED BY <1>1, CycleSafe, PTL

(* A folder the operator has saved is the one a poll uses, whatever was detected,
   cached or left in the provider table by other agents: _build_config,
   _resolve_drafts_folder.  (That such a poll comes is ExplicitFolderTakesEffect.) *)
THEOREM ExplicitFolderIsUsed == Spec => []SavedFolderIsUsed
<1>1. CycleInv => SavedFolderIsUsed
  BY DEF CycleInv, ExplicitInHand, SavedFolderIsUsed
<1> QED BY <1>1, CycleSafe, PTL
=============================================================================
