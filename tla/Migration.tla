----------------------------- MODULE Migration -----------------------------
(***************************************************************************)
(* The start of the WebUI container: webui/docker-entrypoint.sh and        *)
(* migrate() of webui/src/migration.py, which turns the layout of the      *)
(* single agent (/config/.env, context.md, /data/state.db) into the agent  *)
(* agents/default.  The container may die between any two steps and is     *)
(* started again; the agent container, another user (uid 1000), runs all   *)
(* the time and looks at agents/ whenever it likes.                        *)
(*                                                                         *)
(* The lines of an .env are abstracted to the groups migrate() sorts them  *)
(* into, the text files to what they hold.  Agents the operator creates    *)
(* later are not modelled.                                                 *)
(***************************************************************************)
EXTENDS Naturals

CONSTANTS
  Layouts,    \* what a volume may hold before the first start, of Layout
  MaxCrashes  \* bound: number of times the WebUI container dies

Groups == {"keys",   \* ANTHROPIC_API_KEY and IMAP_USER
           "other",  \* the other settings of the agent
           "webui"}  \* WEBUI_*, AUTOSTART_ENABLED

Layout == [env: SUBSET Groups, context: BOOLEAN, state: BOOLEAN, status: BOOLEAN]

ASSUME ConstantsAssumption == Layouts \subseteq Layout /\ MaxCrashes \in Nat

VARIABLES
  old,           \* the layout before the first start (never changes)
  rootEnv,       \* groups in /config/.env
  rootContext,   \* /config/context.md: none, empty, text
  rootState,     \* /data/state.db is there
  status,        \* the old agent_status.json: none, root, moved
  backup,        \* what .migration-backup-<ts> holds
  agents,        \* /config/agents exists (with default)
  agentEnv,      \* groups in agents/default/.env
  readable,      \* the agent user may read agents/default/.env
  agentContext,  \* agents/default/context.md: none, empty, text
  dataDir,       \* owner of /data/agents/default: none, root, agent
  agentState,    \* /data/agents/default/state.db: none, fresh, old
  pc,            \* step of the WebUI container
  lines,         \* groups migrate() has read (line 99)
  torn,          \* history: the container died between mkdir and the end
  crashes        \* counter of the bound

rootVars == <<rootEnv, rootContext, rootState, status>>
agentVars == <<agentEnv, readable, agentContext>>
dataVars == <<dataDir, agentState>>
history == <<torn, crashes>>
vars == <<old, rootVars, backup, agents, agentVars, dataVars, pc, lines, history>>

(* Mutant: Without the rule for root-only keys. *)
OfAgentAll(groups) == groups

RootOnly(groups) == groups \cap {"webui"}
OfAgent(groups) == groups \ {"webui"}
Text(there) == IF there THEN "text" ELSE "none"

Init ==
  /\ old \in Layouts
  /\ rootEnv = old.env
  /\ rootContext = Text(old.context)
  /\ rootState = old.state
  /\ status = IF old.status THEN "root" ELSE "none"
  /\ backup = [env |-> {}, context |-> "none"]
  /\ agents = FALSE
  /\ agentEnv = {} /\ readable = FALSE /\ agentContext = "none"
  /\ dataDir = "none" /\ agentState = "none"
  /\ pc = "start" /\ lines = {}
  /\ torn = FALSE /\ crashes = 0

Goto(from, to) == pc = from /\ pc' = to

(***************************************************************************)
(* The entrypoint.                                                         *)
(***************************************************************************)

\* Touches the two files; an .env without lines is {} here.
Entrypoint ==
  /\ Goto("start", "check")
  /\ rootContext' = IF rootContext = "none" THEN "empty" ELSE rootContext
  /\ UNCHANGED <<old, rootEnv, rootState, status, backup, agents, agentVars,
                 dataVars, lines, history>>

(* Mutant: Any line of an agent counts, also those without keys. *)
HasAgentLines == rootEnv # {}

HasAgentKeys == "keys" \in rootEnv

Noop ==
  /\ Goto("check", "serving")
  /\ agents \/ ~HasAgentKeys
  /\ UNCHANGED <<old, rootVars, backup, agents, agentVars, dataVars, lines, history>>

(* Mutant: Without the copy of the .env. *)
BackupEnvSkipped ==
  /\ Goto("check", "backup_context")
  /\ ~agents /\ HasAgentKeys
  /\ UNCHANGED <<old, rootVars, backup, agents, agentVars, dataVars, lines, history>>

\* A crash within a write of the backup leaves the root files as they are, so
\* the next start repeats it: the step is atomic here.
BackupEnv ==
  /\ Goto("check", "backup_context")
  /\ ~agents /\ HasAgentKeys
  /\ backup' = [backup EXCEPT !.env = rootEnv]
  /\ UNCHANGED <<old, rootVars, agents, agentVars, dataVars, lines, history>>

BackupContext ==
  /\ Goto("backup_context", "make_dir")
  /\ backup' = [backup EXCEPT !.context = rootContext]
  /\ UNCHANGED <<old, rootVars, agents, agentVars, dataVars, lines, history>>

\* mkdir, read_text and sorting the lines.
MakeAgentDir ==
  /\ Goto("make_dir", "agent_env")
  /\ agents' = TRUE
  /\ lines' = rootEnv
  /\ UNCHANGED <<old, rootVars, backup, agentVars, dataVars, history>>

\* write_text creates the file with the umask of the container (0644); a
\* crash before its end leaves it without the settings.
WriteAgentEnv ==
  /\ Goto("agent_env", "chmod")
  /\ agentEnv' = OfAgent(lines)
  /\ readable' = TRUE
  /\ UNCHANGED <<old, rootVars, backup, agents, agentContext, dataVars, lines, history>>

\* chmod 0600; the file belongs to root and stays so.
Chmod ==
  /\ Goto("chmod", "truncate")
  /\ readable' = FALSE
  /\ UNCHANGED <<old, rootVars, backup, agents, agentEnv, agentContext, dataVars,
                 lines, history>>

\* write_text empties the file, then fills it.
TruncateRootEnv ==
  /\ Goto("truncate", "root_env")
  /\ rootEnv' = {}
  /\ UNCHANGED <<old, rootContext, rootState, status, backup, agents, agentVars,
                 dataVars, lines, history>>

WriteRootEnv ==
  /\ Goto("root_env", "context")
  /\ rootEnv' = RootOnly(lines)
  /\ UNCHANGED <<old, rootContext, rootState, status, backup, agents, agentVars,
                 dataVars, lines, history>>

\* The entrypoint has made sure that there is a context.md.
MoveContext ==
  /\ Goto("context", "data_dir")
  /\ agentContext' = rootContext
  /\ rootContext' = "none"
  /\ UNCHANGED <<old, rootEnv, rootState, status, backup, agents, agentEnv,
                 readable, dataVars, lines, history>>

MakeDataDir ==
  /\ Goto("data_dir", "state")
  /\ dataDir' = IF dataDir = "none" THEN "root" ELSE dataDir
  /\ UNCHANGED <<old, rootVars, backup, agents, agentVars, agentState, lines, history>>

(* Mutant: Does not replace a state.db that is already there. *)
MoveStateUnlessThere ==
  /\ Goto("state", "status")
  /\ rootState' = (rootState /\ agentState # "none")
  /\ agentState' = IF rootState /\ agentState = "none" THEN "old" ELSE agentState
  /\ UNCHANGED <<old, rootEnv, rootContext, status, backup, agents, agentVars,
                 dataDir, lines, history>>

\* rename() replaces a state.db the agent process has created meanwhile.
MoveState ==
  /\ Goto("state", "status")
  /\ rootState' = FALSE
  /\ agentState' = IF rootState THEN "old" ELSE agentState
  /\ UNCHANGED <<old, rootEnv, rootContext, status, backup, agents, agentVars,
                 dataDir, lines, history>>

MoveStatus ==
  /\ Goto("status", "serving")
  /\ status' = IF status = "root" THEN "moved" ELSE status
  /\ UNCHANGED <<old, rootEnv, rootContext, rootState, backup, agents, agentVars,
                 dataVars, lines, history>>

(***************************************************************************)
(* The container dies, an exception leaves migrate() (set -e), or the host *)
(* goes down; the restart policy starts the entrypoint again.              *)
(***************************************************************************)

Crash ==
  /\ pc # "down" /\ crashes < MaxCrashes
  /\ pc' = "down"
  /\ lines' = {}
  /\ torn' = (torn \/ (agents /\ pc \notin {"start", "check", "serving"}))
  /\ crashes' = crashes + 1
  /\ UNCHANGED <<old, rootVars, backup, agents, agentVars, dataVars>>

Restart ==
  /\ Goto("down", "start")
  /\ UNCHANGED <<old, rootVars, backup, agents, agentVars, dataVars, lines, history>>

(***************************************************************************)
(* The agent container and the operator.                                   *)
(***************************************************************************)

\* _fail_agent: the configuration cannot be loaded; the status file gets its
\* directory.
Refuse ==
  /\ agents /\ ~(readable /\ "keys" \in agentEnv)
  /\ dataDir = "none"
  /\ dataDir' = "agent"
  /\ UNCHANGED <<old, rootVars, backup, agents, agentVars, agentState, pc, lines, history>>

\* A poll of agent default: init_db creates what is missing.  With a state.db
\* in place it changes nothing that is modelled here; a missing one cannot be
\* created in a directory of root.
Poll ==
  /\ agents /\ readable /\ "keys" \in agentEnv
  /\ agentState = "none" /\ dataDir # "root"
  /\ dataDir' = "agent" /\ agentState' = "fresh"
  /\ UNCHANGED <<old, rootVars, backup, agents, agentVars, pc, lines, history>>

\* The operator saves agent default: write_env gives the file to the agent user.
Save ==
  /\ pc = "serving" /\ agents /\ ~readable
  /\ readable' = TRUE
  /\ UNCHANGED <<old, rootVars, backup, agents, agentEnv, agentContext, dataVars,
                 pc, lines, history>>

Next ==
  \/ Entrypoint \/ Noop \/ BackupEnv \/ BackupContext \/ MakeAgentDir
  \/ WriteAgentEnv \/ Chmod \/ TruncateRootEnv \/ WriteRootEnv \/ MoveContext
  \/ MakeDataDir \/ MoveState \/ MoveStatus
  \/ Crash \/ Restart
  \/ Refuse \/ Poll \/ Save

Spec == Init /\ [][Next]_vars

-----------------------------------------------------------------------------

\* Types. WEBUI_* never leaves the root .env for the file the agent reads
\* (migration.py:19-20).
TypeOK ==
  /\ old \in Layouts
  /\ rootEnv \subseteq Groups /\ lines \subseteq Groups
  /\ rootContext \in {"none", "empty", "text"}
  /\ rootState \in BOOLEAN
  /\ status \in {"none", "root", "moved"}
  /\ backup \in [env: SUBSET Groups, context: {"none", "empty", "text"}]
  /\ agents \in BOOLEAN
  /\ agentEnv \subseteq {"keys", "other"}
  /\ readable \in BOOLEAN
  /\ agentContext \in {"none", "empty", "text"}
  /\ dataDir \in {"none", "root", "agent"}
  /\ agentState \in {"none", "fresh", "old"}
  /\ pc \in {"start", "check", "backup_context", "make_dir", "agent_env", "chmod",
             "truncate", "root_env", "context", "data_dir", "state", "status",
             "serving", "down"}
  /\ torn \in BOOLEAN
  /\ crashes \in 0..MaxCrashes

\* Nothing is lost, wherever the container dies and however often: every
\* setting, the context and the record of processed mails are in the old place,
\* in the new one or in the backup (migration.py:88-94, 125-137).
SettingsSurvive ==
  /\ old.env \subseteq rootEnv \cup agentEnv \cup backup.env
  /\ old.context => "text" \in {rootContext, agentContext, backup.context}
  /\ old.state => rootState \/ agentState = "old"

\* A start that is not interrupted ends with the whole agent in its new place,
\* whatever the agent process did on the way: the .env split, the text moved and
\* the old record in force, not one the agent process has begun
\* (migration.py:99-141).
MigratedWhenServing ==
  pc = "serving" /\ agents /\ ~torn =>
    /\ rootEnv = RootOnly(old.env)
    /\ agentEnv = OfAgent(old.env)
    /\ old.context => agentContext = "text"
    /\ old.state => agentState = "old" /\ ~rootState
    /\ status # "root"

\* There is an agent default only where one was configured before; the files the
\* entrypoint touches do not make one (migration.py:9-12, D-50).
NoPhantomAgent == agents => "keys" \in old.env

\* "damit der Multi-Account-Loop des laufenden Agent-Containers den Agenten
\* `default` ab dem naechsten Poll-Zyklus uebernimmt" (migration.py:17-19): what
\* migrate() leaves behind can be read, and written, by the agent user.
TakenOver ==
  pc = "serving" /\ agents /\ ~torn => readable /\ dataDir = "agent"

=============================================================================
