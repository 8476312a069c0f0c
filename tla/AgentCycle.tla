----------------------------- MODULE AgentCycle -----------------------------
(***************************************************************************)
(* The agent process over all agents: agent/src/main.py (main,             *)
(* _wait_for_agents, _run_cycle, _resolve_drafts_folder, _fail_agent),     *)
(* config.py (discover_agents, load_agent_config), provider_config.py and  *)
(* status_writer.py.  One process serves the agents one after the other;   *)
(* the WebUI rewrites their .env files underneath it.  The mail loop of    *)
(* one agent (module MailPoll) is a single step here.                      *)
(*                                                                         *)
(* What agents share inside the process: the table of provider defaults,   *)
(* the cache of detected Drafts folders and the control flow itself.       *)
(***************************************************************************)
EXTENDS Integers, FiniteSets

CONSTANTS
  NumAgents,   \* agents 1..NumAgents, in the order of their directory names
  Accounts,    \* mail accounts an agent can be configured for
  NoAccount,   \* no account
  Providers,   \* entries of STATIC_PROVIDERS
  OwnHost,     \* IMAP_HOST is set, no provider table is used
  Provider,    \* account -> entry of Providers, or OwnHost
  Folders,     \* names of Drafts folders
  NoFolder,    \* no name
  Default,     \* entry of Providers or OwnHost -> Drafts folder shipped with the code
  Special,     \* account -> folder its server flags \Drafts, or NoFolder
  Dead,        \* accounts whose mail server never answers
  Conditions,  \* conditions an .env file can be in, a subset of AllConditions
  Initial,     \* .env files at the start, of EnvFile
  MaxSaves,    \* bound: number of .env changes
  MaxFaults    \* bound: number of failures, lost status writes, crashes and stops

Agents == 1..NumAgents
NoAgent == 0
AllConditions == {"ok",             \* loadable
                  "absent",         \* the agent has no directory
                  "incomplete",     \* a required variable is missing, or no file
                  "undecryptable",  \* the Fernet key does not fit a secret
                  "malformed"}      \* a value int() or float() refuses

(* A missing file counts as 0.0 in the code, which no file's mtime is.     *)
EnvFile == [cond: Conditions, enabled: BOOLEAN, explicit: Folders \cup {NoFolder},
            account: Accounts, mtime: Nat \ {0}]

ASSUME ConstantsAssumption ==
  /\ NumAgents \in Nat
  /\ OwnHost \notin Providers
  /\ Provider \in [Accounts -> Providers \cup {OwnHost}]
  /\ NoFolder \notin Folders
  /\ Default \in [Providers \cup {OwnHost} -> Folders]
  /\ Special \in [Accounts -> Folders \cup {NoFolder}]
  /\ Dead \subseteq Accounts
  /\ Conditions \subseteq AllConditions
  /\ Initial \subseteq EnvFile
  /\ MaxSaves \in Nat
  /\ MaxFaults \in Nat

VARIABLES
  env,       \* agent -> its .env: condition, enabled, explicit, account, mtime
  status,    \* agent -> agent_status.json: folder, source, error, heartbeat
  written,   \* history: the agents whose latest status write took effect
  table,     \* entry of Providers -> Drafts folder (process memory)
  cache,     \* agent -> entry of _drafts_cache (process memory)
  pc, todo,  \* control point, agents still to visit
  ready,     \* _wait_for_agents has seen an active agent
  shutdown,  \* SIGTERM was received
  cur, cfg,  \* the agent being processed and its loaded configuration
  outcome,   \* history: agent -> how its latest processing ended, "none" while
             \* it is under way or was cut off
  saves, faults, losses

memory == <<table, cache>>
report == <<status, written, losses>>
control == <<pc, todo, ready, cur, cfg>>
vars == <<env, report, memory, control, shutdown, outcome, saves, faults>>

Sources == {"none", "explicit", "special-use", "provider"}
StatusFile == [folder: Folders \cup {NoFolder}, source: Sources,
               error: BOOLEAN, heartbeat: BOOLEAN]
(* version, account, refused: history, the mtime of the file that was       *)
(* loaded, the account that was probed, and whether its server failed the  *)
(* LIST of the probe.                                                      *)
Loaded == [explicit: Folders \cup {NoFolder}, account: Accounts \cup {NoAccount},
           folder: Folders \cup {NoFolder}, source: Sources, version: Nat]
CacheEntry == [mtime: Nat, folder: Folders, source: Sources, account: Accounts,
               version: Nat, refused: BOOLEAN]

NoStatus == [folder |-> NoFolder, source |-> "none", error |-> FALSE, heartbeat |-> FALSE]
NoEntry == [mtime |-> 0 - 1, folder |-> NoFolder, source |-> "none",
            account |-> NoAccount, version |-> 0, refused |-> FALSE]
NoCfg == [explicit |-> NoFolder, account |-> NoAccount, folder |-> NoFolder,
          source |-> "none", version |-> 0]

TypeOK ==
  /\ env \in [Agents -> EnvFile]
  /\ status \in [Agents -> StatusFile]
  /\ written \subseteq Agents
  /\ table \in [Providers -> Folders]
  /\ cache \in [Agents -> CacheEntry \cup {NoEntry}]
  /\ pc \in {"boot", "check", "idle", "next", "stat", "poll", "down", "stopped"}
  /\ todo \subseteq Agents
  /\ ready \in BOOLEAN /\ shutdown \in BOOLEAN
  /\ cur \in Agents \cup {NoAgent}
  /\ cfg \in Loaded
  /\ outcome \in [Agents -> {"none", "ok", "failed"}]
  /\ saves \in 0..MaxSaves /\ faults \in 0..MaxFaults /\ losses \in 0..MaxFaults

ShippedTable == [p \in Providers |-> Default[p]]

Init ==
  /\ env \in [Agents -> Initial]
  /\ status = [a \in Agents |-> NoStatus] /\ written = {}
  /\ table = ShippedTable
  /\ cache = [a \in Agents |-> NoEntry]
  /\ pc = "boot" /\ todo = {} /\ ready = FALSE /\ shutdown = FALSE
  /\ cur = NoAgent /\ cfg = NoCfg
  /\ outcome = [a \in Agents |-> "none"]
  /\ saves = 0 /\ faults = 0 /\ losses = 0

-----------------------------------------------------------------------------
Fault == faults + losses < MaxFaults /\ faults' = faults + 1
ServerFault == IF cfg.account \in Dead THEN UNCHANGED faults ELSE Fault
IsHead(a) == a \in todo /\ \A b \in todo : a <= b

(* Mutant: IMAP_DRAFTS_FOLDER only counts without a known provider.        *)
PresetByTable(f) ==
  IF Provider[f.account] # OwnHost THEN table[Provider[f.account]]
  ELSE IF f.explicit # NoFolder THEN f.explicit ELSE Default[OwnHost]

(* _build_config: the entry of the provider table is taken by reference    *)
(* and the explicit folder, if any, is written into it.  This happens as   *)
(* soon as the required variables are there, before the numbers are parsed *)
(* and before the secrets are decrypted.                                   *)
UsesTable(f) == f.cond \notin {"absent", "incomplete"} /\ Provider[f.account] # OwnHost
Preset(f) ==
  IF f.explicit # NoFolder THEN f.explicit
  ELSE IF Provider[f.account] = OwnHost THEN Default[OwnHost]
  ELSE table[Provider[f.account]]
LoadConfig(f) ==
  table' = IF UsesTable(f) THEN [table EXCEPT ![Provider[f.account]] = Preset(f)]
                           ELSE table

(* write_status only logs what goes wrong: the file stays as it was, or is  *)
(* left truncated, which the WebUI reads as no status at all.              *)
WriteStatus(a, folder, source, error, heartbeat) ==
  \/ /\ status' = [status EXCEPT ![a] = [folder |-> folder, source |-> source,
                                         error |-> error, heartbeat |-> heartbeat]]
     /\ written' = written \cup {a}
     /\ UNCHANGED losses
  \/ /\ faults + losses < MaxFaults /\ losses' = losses + 1
     /\ status' \in {status, [status EXCEPT ![a] = NoStatus]}
     /\ written' = written \ {a}

(* _fail_agent: the error and a heartbeat go to the agent's own status.    *)
FailAgent(a) ==
  /\ WriteStatus(a, NoFolder, "none", TRUE, TRUE)
  /\ outcome' = [outcome EXCEPT ![a] = "failed"]

Visited(a) == todo' = todo \ {a} /\ cur' = NoAgent /\ cfg' = NoCfg

-----------------------------------------------------------------------------
(* discover_agents: the directories under /config/agents, never cached.    *)
Discovered == {a \in Agents : env[a].cond # "absent"}

(* _wait_for_agents, one round.                                            *)
WaitRound ==
  /\ pc = "boot"
  /\ IF shutdown THEN pc' = "stopped" /\ UNCHANGED <<todo, ready>>
     ELSE pc' = "check" /\ todo' = Discovered /\ ready' = FALSE
  /\ UNCHANGED <<env, report, memory, cur, cfg, shutdown, outcome, saves, faults>>

(* The loop handles DecryptionError and RuntimeError.                      *)
WaitCheck ==
  /\ pc = "check"
  /\ \E a \in Agents :
       /\ IsHead(a)
       /\ env[a].cond # "malformed"
       /\ LoadConfig(env[a])
       /\ ready' = (ready \/ (env[a].cond = "ok" /\ env[a].enabled))
       /\ Visited(a)
       /\ IF env[a].cond = "ok" THEN UNCHANGED <<report, outcome>> ELSE FailAgent(a)
  /\ UNCHANGED <<env, cache, pc, shutdown, saves, faults>>

(* Any other exception (ValueError of int(...)) leaves main: the process   *)
(* ends and Docker starts it again.                                        *)
WaitCheckDies ==
  /\ pc = "check"
  /\ \E a \in Agents : IsHead(a) /\ env[a].cond = "malformed"
  /\ pc' = (IF shutdown THEN "stopped" ELSE "down")
  /\ todo' = {}
  /\ UNCHANGED <<env, report, memory, ready, cur, cfg, shutdown, outcome, saves, faults>>

WaitDone ==
  /\ pc = "check"
  /\ todo = {}
  /\ pc' = IF ready THEN "idle" ELSE "boot"
  /\ UNCHANGED <<env, report, memory, todo, ready, cur, cfg, shutdown, outcome, saves, faults>>

(* Mutant: the flag is not looked at between two cycles.                   *)
StartCycleEager ==
  /\ pc = "idle"
  /\ pc' = "next" /\ todo' = Discovered
  /\ UNCHANGED <<env, report, memory, ready, cur, cfg, shutdown, outcome, saves, faults>>

(* main: the next cycle, or the end after SIGTERM.                         *)
StartCycle ==
  /\ pc = "idle"
  /\ IF shutdown THEN pc' = "stopped" /\ UNCHANGED todo
                 ELSE pc' = "next" /\ todo' = Discovered
  /\ UNCHANGED <<env, report, memory, ready, cur, cfg, shutdown, outcome, saves, faults>>

CycleDone ==
  /\ pc = "next"
  /\ todo = {} \/ shutdown
  /\ pc' = "idle"
  /\ todo' = {}
  /\ UNCHANGED <<env, report, memory, ready, cur, cfg, shutdown, outcome, saves, faults>>

(* Mutant: a config that does not load ends the cycle.                     *)
LoadFailsAborts ==
  /\ pc = "next" /\ ~shutdown
  /\ \E a \in Agents : IsHead(a) /\ env[a].cond # "ok" /\ LoadConfig(env[a]) /\ FailAgent(a)
  /\ pc' = "idle" /\ todo' = {}
  /\ UNCHANGED <<env, cache, ready, cur, cfg, shutdown, saves, faults>>

LoadFails ==
  /\ pc = "next" /\ ~shutdown
  /\ \E a \in Agents :
       /\ IsHead(a)
       /\ env[a].cond # "ok"
       /\ LoadConfig(env[a])
       /\ FailAgent(a)
       /\ Visited(a)
  /\ UNCHANGED <<env, cache, pc, ready, shutdown, saves, faults>>

SkipDisabled ==
  /\ pc = "next" /\ ~shutdown
  /\ \E a \in Agents :
       /\ IsHead(a)
       /\ env[a].cond = "ok" /\ ~env[a].enabled
       /\ LoadConfig(env[a])
       /\ Visited(a)
  /\ UNCHANGED <<env, report, cache, pc, ready, shutdown, outcome, saves, faults>>

(* load_agent_config and the first branch of _resolve_drafts_folder.       *)
Load ==
  /\ pc = "next" /\ ~shutdown
  /\ \E a \in Agents :
       /\ IsHead(a)
       /\ env[a].cond = "ok" /\ env[a].enabled
       /\ LoadConfig(env[a])
       /\ cur' = a
       /\ todo' = todo \ {a}
       /\ LET f == env[a]
              explicit == f.explicit # NoFolder IN
            /\ cfg' = [explicit |-> f.explicit, account |-> f.account, folder |-> Preset(f),
                       source |-> IF explicit THEN "explicit" ELSE "none",
                       version |-> f.mtime]
            /\ IF explicit
               THEN WriteStatus(a, f.explicit, "explicit", FALSE, FALSE) /\ pc' = "poll"
               ELSE pc' = "stat" /\ UNCHANGED report
       /\ outcome' = [outcome EXCEPT ![a] = "none"]
  /\ UNCHANGED <<env, cache, ready, shutdown, saves, faults>>

Resolved(folder, source) ==
  /\ cfg' = [cfg EXCEPT !.folder = folder, !.source = source]
  /\ WriteStatus(cur, folder, source, FALSE, FALSE)
  /\ pc' = "poll"

(* The mtime is read after the file: a save may have come in between.  A   *)
(* missing file counts as 0.0.                                             *)
Mtime(a) == IF env[a].cond = "absent" THEN 0 ELSE env[a].mtime

(* Mutant: an entry is never invalidated.                                  *)
CacheHitAlways ==
  /\ pc = "stat"
  /\ cache[cur] # NoEntry
  /\ Resolved(cache[cur].folder, cache[cur].source)
  /\ UNCHANGED <<env, memory, todo, ready, cur, shutdown, outcome, saves, faults>>

CacheHit ==
  /\ pc = "stat"
  /\ cache[cur].mtime = Mtime(cur)
  /\ Resolved(cache[cur].folder, cache[cur].source)
  /\ UNCHANGED <<env, memory, todo, ready, cur, shutdown, outcome, saves, faults>>

(* Mutant: what the detection returned is cached as it is.                 *)
CacheMissRaw ==
  /\ pc = "stat"
  /\ cache[cur].mtime # Mtime(cur)
  /\ cfg.account \notin Dead
  /\ cache' = [cache EXCEPT ![cur] = [mtime |-> Mtime(cur), folder |-> Special[cfg.account],
                                      source |-> "special-use", account |-> cfg.account,
                                      version |-> cfg.version, refused |-> FALSE]]
  /\ Resolved(Special[cfg.account], "special-use")
  /\ UNCHANGED <<env, table, todo, ready, cur, shutdown, outcome, saves, faults>>

(* A probe whose connection stands: the folder the server flags, else the  *)
(* preset one, cached under the mtime read before the probe.               *)
Probed(refused) ==
  /\ pc = "stat"
  /\ cache[cur].mtime # Mtime(cur)
  /\ cfg.account \notin Dead
  /\ LET found == ~refused /\ Special[cfg.account] # NoFolder
         folder == IF found THEN Special[cfg.account] ELSE cfg.folder
         source == IF found THEN "special-use" ELSE "provider" IN
       /\ cache' = [cache EXCEPT ![cur] = [mtime |-> Mtime(cur), folder |-> folder,
                                           source |-> source, account |-> cfg.account,
                                           version |-> cfg.version, refused |-> refused]]
       /\ Resolved(folder, source)
  /\ UNCHANGED <<env, table, todo, ready, cur, shutdown, outcome, saves>>

CacheMiss == Probed(FALSE) /\ UNCHANGED faults

(* detect_drafts_folder catches a LIST that fails and __exit__ a logout     *)
(* that fails, so to the caller the probe was a success without a folder.  *)
ListFails == Probed(TRUE) /\ Fault

(* Mutant: the fallback after a failed probe is cached, too.               *)
ProbeFailsCached ==
  /\ pc = "stat"
  /\ cache[cur].mtime # Mtime(cur)
  /\ ServerFault
  /\ cache' = [cache EXCEPT ![cur] = [mtime |-> Mtime(cur), folder |-> cfg.folder,
                                      source |-> "provider", account |-> cfg.account,
                                      version |-> cfg.version, refused |-> FALSE]]
  /\ Resolved(cfg.folder, "provider")
  /\ UNCHANGED <<env, table, todo, ready, cur, shutdown, outcome, saves>>

(* The probe itself failed: use the preset folder now, cache nothing.      *)
ProbeFails ==
  /\ pc = "stat"
  /\ cache[cur].mtime # Mtime(cur)
  /\ ServerFault
  /\ Resolved(cfg.folder, "provider")
  /\ UNCHANGED <<env, memory, todo, ready, cur, shutdown, outcome, saves>>

(* Mutant: a generic source instead of the resolved one.                   *)
PollSucceedsGeneric ==
  /\ pc = "poll"
  /\ cfg.account \notin Dead
  /\ WriteStatus(cur, cfg.folder, "none", FALSE, TRUE)
  /\ outcome' = [outcome EXCEPT ![cur] = "ok"]
  /\ pc' = "next" /\ cur' = NoAgent /\ cfg' = NoCfg
  /\ UNCHANGED <<env, memory, todo, ready, shutdown, saves, faults>>

PollSucceeds ==
  /\ pc = "poll"
  /\ cfg.account \notin Dead
  /\ WriteStatus(cur, cfg.folder, cfg.source, FALSE, TRUE)
  /\ outcome' = [outcome EXCEPT ![cur] = "ok"]
  /\ pc' = "next" /\ cur' = NoAgent /\ cfg' = NoCfg
  /\ UNCHANGED <<env, memory, todo, ready, shutdown, saves, faults>>

(* The connection or the fetch raises, or init_db before the folder was    *)
(* resolved: the agent is isolated.                                        *)
PollFails ==
  /\ \/ pc = "poll" /\ ServerFault
     \/ pc = "stat" /\ Fault
  /\ FailAgent(cur)
  /\ pc' = "next" /\ cur' = NoAgent /\ cfg' = NoCfg
  /\ UNCHANGED <<env, memory, todo, ready, shutdown, saves>>

-----------------------------------------------------------------------------
(* docker stop sends SIGTERM; the handler only sets a flag.                *)
Sigterm ==
  /\ pc \notin {"down", "stopped"} /\ ~shutdown
  /\ Fault
  /\ shutdown' = TRUE
  /\ UNCHANGED <<env, report, memory, control, outcome, saves>>

Crash ==
  /\ pc \notin {"down", "stopped"}
  /\ Fault
  /\ pc' = IF shutdown THEN "stopped" ELSE "down"
  /\ todo' = {} /\ cur' = NoAgent /\ cfg' = NoCfg
  /\ UNCHANGED <<env, report, memory, ready, shutdown, outcome, saves>>

(* A fresh process: the module-level table and cache start over.           *)
Boot ==
  /\ pc' = "boot"
  /\ table' = ShippedTable
  /\ cache' = [a \in Agents |-> NoEntry]
  /\ ready' = FALSE /\ shutdown' = FALSE
  /\ UNCHANGED <<env, report, todo, cur, cfg, outcome, saves, faults>>

Restart == pc = "down" /\ Boot
StartContainer == pc = "stopped" /\ Boot

(* The WebUI, or the operator with an editor, saves an agent's .env.       *)
SaveEnv(a) ==
  /\ \E c \in Conditions \ {"absent"}, e \in BOOLEAN,
        x \in Folders \cup {NoFolder}, n \in Accounts :
       env' = [env EXCEPT ![a] = [cond |-> c, enabled |-> e, explicit |-> x,
                                  account |-> n, mtime |-> @.mtime + 1]]
  /\ UNCHANGED <<report, outcome>>

(* Deleting an agent takes its status file along; the agent process may be *)
(* in the middle of serving it and writes a new one.                       *)
DeleteAgent(a) ==
  /\ "absent" \in Conditions
  /\ env' = [env EXCEPT ![a].cond = "absent", ![a].mtime = @ + 1]
  /\ status' = [status EXCEPT ![a] = NoStatus]
  /\ outcome' = [outcome EXCEPT ![a] = "none"]
  /\ UNCHANGED <<written, losses>>

WebUi ==
  /\ saves < MaxSaves
  /\ saves' = saves + 1
  /\ \E a \in Agents : SaveEnv(a) \/ DeleteAgent(a)
  /\ UNCHANGED <<memory, control, shutdown, faults>>

Progress ==
  \/ WaitRound \/ WaitCheck \/ WaitCheckDies \/ WaitDone
  \/ StartCycle \/ CycleDone \/ LoadFails \/ SkipDisabled \/ Load
  \/ CacheHit \/ CacheMiss \/ PollSucceeds
  \/ cfg.account \in Dead /\ (ProbeFails \/ PollFails)
  \/ Restart

Environment ==
  \/ ListFails \/ ProbeFails \/ PollFails \/ Sigterm \/ Crash \/ StartContainer \/ WebUi

Next == Progress \/ Environment

Spec == Init /\ [][Next]_vars

(* The process is scheduled, every network call returns or times out, and  *)
(* Docker restarts the process; users and failures owe nothing.            *)
FairSpec == Spec /\ WF_vars(Progress)

-----------------------------------------------------------------------------
(***************************************************************************)
(* Properties                                                              *)
(***************************************************************************)

(* A transiently failed probe does not stick (review note WR-04): what the *)
(* cache says is what the server of the probed account announces, and the  *)
(* provider fallback only where it announces nothing -- or where the probe *)
(* got as far as LIST and the server failed it, which the code takes for   *)
(* a server that announces nothing (ListFails, FallbackIsReal).            *)
CacheHoldsDetection ==
  \A a \in Agents : cache[a] # NoEntry =>
    IF Special[cache[a].account] # NoFolder /\ ~cache[a].refused
    THEN cache[a].folder = Special[cache[a].account] /\ cache[a].source = "special-use"
    ELSE cache[a].source = "provider"

(* What the comment WR-04 promises without the exception: only real         *)
(* results are cached, the fallback only after a probe that succeeded.     *)
FallbackIsReal ==
  \A a \in Agents : cache[a] # NoEntry /\ Special[cache[a].account] # NoFolder =>
    cache[a].source = "special-use"

(* A status file whose latest write took effect tells how its agent fared  *)
(* whenever the agent is not being processed: an error exactly where the   *)
(* latest processing failed, and after a success the real source of the    *)
(* folder (review note WR-02) with a heartbeat -- however other agents     *)
(* failed, their writes were lost, processes were killed and files were    *)
(* saved or deleted in between.  A write that fails is only logged: the    *)
(* file keeps an older processing's outcome, which AlwaysTold refutes.     *)
Tells(a) ==
  /\ outcome[a] = "failed" => status[a].error /\ status[a].heartbeat
  /\ outcome[a] = "ok" => /\ ~status[a].error
                          /\ status[a].source # "none"
                          /\ status[a].heartbeat
StatusTellsOutcome == \A a \in written \ {cur} : Tells(a)

(* What _fail_agent's docstring says of every failure: it is in the status *)
(* file of its agent.                                                      *)
AlwaysTold == \A a \in Agents \ {cur} : Tells(a)

(* One agent's failure never starves another: an agent that stays loadable *)
(* and active is polled again and again, whatever the others' .env files   *)
(* and mail servers do, unless the container is stopped or a value in some *)
(* .env file cannot be converted.                                          *)
Healthy(a) == env[a].cond = "ok" /\ env[a].enabled
Running == pc # "stopped" /\ ~shutdown
Served(a) == pc = "poll" /\ cur = a
HealthyAgentsServed ==
  \A a \in Agents :
    <>[](Healthy(a) /\ Running /\ \A b \in Agents : env[b].cond # "malformed")
      => []<>Served(a)

(* What the comment in _wait_for_agents promises: an error of one agent is *)
(* isolated and the loop goes on for all others, whatever the error.       *)
BrokenNeighbourHarmless ==
  \A a \in Agents : <>[](Healthy(a) /\ Running) => []<>Served(a)

(* An explicit folder the user has saved takes effect: once the .env stays *)
(* as it is, every poll but the ones already started uses that folder,     *)
(* whatever was detected, cached or left in the provider table before.     *)
ExplicitFolderTakesEffect ==
  \A a \in Agents, x \in Folders :
    <>[](env[a].cond = "ok" /\ env[a].explicit = x)
      => <>[](pc = "poll" /\ cur = a => cfg.folder = x)

(* SIGTERM is obeyed: the process ends (or is killed), it does not go on   *)
(* serving agents for ever.                                                *)
ShutdownObeyed == shutdown ~> (pc = "stopped" \/ ~shutdown)

(* What load_agent_config promises: two agents never slip each other       *)
(* values.  The preset folder is the agent's own or the shipped default.   *)
ConfigIsOwn ==
  pc \in {"stat", "poll"} /\ cfg.source = "none" =>
    cfg.folder = Default[Provider[cfg.account]]

(* The comment on _drafts_cache: an entry is invalidated by the mtime of   *)
(* the .env file.  So a poll uses the folder its own server flags, after   *)
(* any change of the account -- except through an entry that was filled    *)
(* when a save came between reading the file and reading its mtime.        *)
CacheFollowsEnv ==
  pc = "poll" /\ cfg.source = "special-use" /\ cache[cur].version = cache[cur].mtime =>
    cfg.folder = Special[cfg.account]

(* What write_status promises: last_cycle is set at the end of every       *)
(* processing and the WebUI shows "running" while it is recent.  So the    *)
(* agent never takes a heartbeat back.                                     *)
HeartbeatKept ==
  [][\A a \in Agents :
       status[a].heartbeat /\ env'[a].cond # "absent" => status'[a].heartbeat]_vars
=============================================================================
