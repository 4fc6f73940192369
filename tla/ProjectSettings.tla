-------------------------- MODULE ProjectSettings --------------------------
(* The settings that commands and the dashboard edit: config.toml with the   *)
(* registered projects, platforms.json with the connected platforms, and the *)
(* Compose file that mounts them both into the container.  No lock protects  *)
(* any of these files: each edit reads, changes and writes a whole file.     *)
EXTENDS Sequences

CONSTANTS
  Dirs,           \* project directories
  BaseOf,         \* their last path component
  OddDirs,        \* those whose name is no bare TOML key
  Platforms,      \* session directories of platforms
  Commands,       \* command processes
  Dashboard,      \* the server in the container
  SettingsRaces   \* a subset of AllSettingsRaces

AllSettingsRaces ==
  {"overlap",   \* two edits at the same time
   "stale",     \* the server adds or removes a project going by old settings
   "crash",     \* an edit dies half way
   "unseen",    \* the question whether the container runs is not answered
   "auto"}      \* connect --mode auto while the container runs

ASSUME SettingsAssumption ==
  /\ OddDirs \subseteq Dirs
  /\ SettingsRaces \subseteq AllSettingsRaces
  /\ Dashboard \notin Commands

VARIABLES
  config,      \* config.toml: does it parse, and its [projects] table
  connected,   \* platforms.json
  cached,      \* the [projects] table in the server's memory
  editing,     \* what each editor is in the middle of
  container,   \* is it running, and what it mounts
  upFailed,    \* the last docker compose up failed
  promised     \* directories whose registration succeeded, not removed since

settingsVars ==
  <<config, connected, cached, editing, container, upFailed, promised>>

Editors == Commands \union {Dashboard}
Registered(projects) == {projects[k] : k \in DOMAIN projects}
Empty == [k \in {} |-> k]
Keys == {<<BaseOf[d]>> : d \in Dirs} \union {<<BaseOf[d], d>> : d \in Dirs}

Readable(projects) ==
  \A k \in DOMAIN projects : k[1] \notin {BaseOf[d] : d \in OddDirs}

\* Mutant of ProjectConfigName: the base name always.
ProjectBaseName(d, projects) == <<BaseOf[d]>>

\* The key is the base name, or base name and hash when another directory
\* has that one.
ProjectConfigName(d, projects) ==
  LET base == <<BaseOf[d]>> IN
  IF base \notin DOMAIN projects \/ projects[base] = d THEN base ELSE base \o <<d>>

Merged(projects, k, d) ==
  [x \in DOMAIN projects \union {k} |-> IF x = k THEN d ELSE projects[x]]
Without(projects, k) == [x \in DOMAIN projects \ {k} |-> projects[x]]

Stage(p) == editing[p][1]
Goto(p, stage) == editing' = [editing EXCEPT ![p] = stage]
Idle == <<"idle">>
Quiet == \A p \in Editors : editing[p] = Idle

\* A command is a new process and loads the settings; the server is asked
\* only while the container runs.
MayBegin(p) ==
  /\ editing[p] = Idle
  /\ "overlap" \in SettingsRaces \/ Quiet
  /\ IF p = Dashboard THEN container.running ELSE config.readable

Known(p) == IF p = Dashboard THEN cached ELSE config.projects
UpToDate(p) == "stale" \in SettingsRaces \/ Known(p) = config.projects

-----------------------------------------------------------------------------
\* The directory must exist where the editor runs.
AddProject(p, d) ==
  /\ MayBegin(p)
  /\ UpToDate(p)
  /\ p = Dashboard => d \in container.mounts
  /\ Goto(p, <<"add", ProjectConfigName(d, Known(p)), d>>)
  /\ UNCHANGED <<config, connected, cached, container, upFailed, promised>>

RemoveProject(p, k) ==
  /\ MayBegin(p)
  /\ UpToDate(p)
  /\ k \in DOMAIN Known(p)
  /\ Goto(p, <<"remove", k, Known(p)[k]>>)
  /\ UNCHANGED <<config, connected, cached, container, upFailed, promised>>

\* Any other patch: the token, a profile, the agents, the dashboard's form.
PatchOther(p) ==
  /\ MayBegin(p)
  /\ Goto(p, <<"patch">>)
  /\ UNCHANGED <<config, connected, cached, container, upFailed, promised>>

Edited(p) ==
  CASE Stage(p) = "add"    -> Merged(config.projects, editing[p][2], editing[p][3])
    [] Stage(p) = "remove" -> Without(config.projects, editing[p][2])
    [] OTHER               -> config.projects

ReadConfig(p) ==
  /\ Stage(p) \in {"add", "remove", "patch"}
  /\ Goto(p, IF config.readable THEN <<"write", Edited(p), editing[p]>> ELSE Idle)
  /\ UNCHANGED <<config, connected, cached, container, upFailed, promised>>

\* Opening the file for writing empties it; who looks now reads no settings.
TruncateConfig(p) ==
  /\ Stage(p) = "write"
  /\ SettingsRaces \intersect {"overlap", "crash"} # {}
  /\ config' = [readable |-> TRUE, projects |-> Empty]
  /\ UNCHANGED <<connected, cached, editing, container, upFailed, promised>>

Promise(edit) ==
  CASE edit[1] = "add"    -> promised \union {edit[3]}
    [] edit[1] = "remove" -> promised \ {edit[3]}
    [] OTHER              -> promised

\* Mutant of AfterWrite: the command is done with the file.
AfterWriteIdle(p, edit) == Idle

\* Project commands go on to the container, other patches do not.
AfterWrite(p, edit) ==
  IF p = Dashboard \/ edit[1] = "patch" THEN Idle ELSE <<"restart">>

\* The file is written and loaded again.  A file that does not parse fails
\* this command, and every later one.
WriteConfig(p) ==
  LET projects == editing[p][2]  edit == editing[p][3] IN
  /\ Stage(p) = "write"
  /\ config' = [readable |-> Readable(projects), projects |-> projects]
  /\ IF Readable(projects)
     THEN /\ cached' = IF p = Dashboard THEN projects ELSE cached
          /\ promised' = Promise(edit)
          /\ Goto(p, AfterWrite(p, edit))
     ELSE UNCHANGED <<cached, promised>> /\ Goto(p, Idle)
  /\ UNCHANGED <<connected, container, upFailed>>

\* connect and connect remove; an unchanged path restarts nothing.
ConnectPlatform(p, x) ==
  /\ p # Dashboard /\ MayBegin(p)
  /\ connected' = connected \union {x}
  /\ Goto(p, IF x \in connected THEN Idle ELSE <<"restart">>)
  /\ UNCHANGED <<config, cached, container, upFailed, promised>>

\* connect --mode auto takes every platform it finds and restarts nothing.
ConnectAuto(p, found) ==
  /\ p # Dashboard /\ MayBegin(p)
  /\ "auto" \in SettingsRaces \/ ~container.running \/ found \subseteq connected
  /\ connected' = connected \union found
  /\ UNCHANGED <<config, cached, editing, container, upFailed, promised>>

RemovePlatform(p, x) ==
  /\ p # Dashboard /\ MayBegin(p)
  /\ x \in connected
  /\ connected' = connected \ {x}
  /\ Goto(p, <<"restart">>)
  /\ UNCHANGED <<config, cached, container, upFailed, promised>>

\* The container is restarted only when it is seen to run.
NoRestart(p) ==
  /\ Stage(p) = "restart"
  /\ ~container.running \/ "unseen" \in SettingsRaces
  /\ Goto(p, Idle)
  /\ UNCHANGED <<config, connected, cached, container, upFailed, promised>>

Up(p) ==
  /\ p # Dashboard /\ MayBegin(p)
  /\ Goto(p, <<"up">>)
  /\ UNCHANGED <<config, connected, cached, container, upFailed, promised>>

\* The Compose file is generated for what is registered and connected now.
GenerateCompose(p) ==
  /\ Stage(p) = "up" \/ (Stage(p) = "restart" /\ container.running)
  /\ Goto(p, IF config.readable
             THEN <<"start", connected \union Registered(config.projects)>> ELSE Idle)
  /\ UNCHANGED <<config, connected, cached, container, upFailed, promised>>

\* docker compose up: a changed file makes a new container and a new server.
DockerUp(p) ==
  /\ Stage(p) = "start"
  /\ container' = [running |-> TRUE, mounts |-> editing[p][2]]
  /\ upFailed' = FALSE
  /\ cached' = config.projects
  /\ editing' = [editing EXCEPT ![p] = Idle, ![Dashboard] = Idle]
  /\ UNCHANGED <<config, connected, promised>>

DockerFails(p) ==
  /\ Stage(p) = "start"
  /\ upFailed' = TRUE
  /\ Goto(p, Idle)
  /\ UNCHANGED <<config, connected, cached, container, promised>>

Down(p) ==
  /\ p # Dashboard /\ MayBegin(p)
  /\ container.running
  /\ container' = [container EXCEPT !.running = FALSE]
  /\ editing' = [editing EXCEPT ![Dashboard] = Idle]
  /\ UNCHANGED <<config, connected, cached, upFailed, promised>>

\* A pass of the daemon reloads the settings.
ServerReload ==
  /\ container.running /\ config.readable
  /\ cached' = config.projects
  /\ UNCHANGED <<config, connected, editing, container, upFailed, promised>>

EditorDies(p) ==
  /\ "crash" \in SettingsRaces
  /\ editing[p] # Idle
  /\ Goto(p, Idle)
  /\ UNCHANGED <<config, connected, cached, container, upFailed, promised>>

SettingsInit ==
  /\ config = [readable |-> TRUE, projects |-> Empty]
  /\ connected = {}
  /\ cached = Empty
  /\ editing = [p \in Editors |-> Idle]
  /\ container = [running |-> FALSE, mounts |-> {}]
  /\ upFailed = FALSE
  /\ promised = {}

SettingsNext ==
  \/ \E p \in Editors :
       \/ \E d \in Dirs : AddProject(p, d)
       \/ \E k \in Keys : RemoveProject(p, k)
       \/ \E x \in Platforms : ConnectPlatform(p, x) \/ RemovePlatform(p, x)
       \/ \E found \in SUBSET Platforms : ConnectAuto(p, found)
       \/ PatchOther(p) \/ ReadConfig(p) \/ TruncateConfig(p) \/ WriteConfig(p)
       \/ NoRestart(p) \/ Up(p) \/ GenerateCompose(p)
       \/ DockerUp(p) \/ DockerFails(p) \/ Down(p) \/ EditorDies(p)
  \/ ServerReload

SettingsSpec == SettingsInit /\ [][SettingsNext]_settingsVars

-----------------------------------------------------------------------------
\* A directory whose registration succeeded stays registered until it is
\* removed, whatever other directories have its name and whoever edits the
\* settings, a command or the dashboard.
RegistrationsKept == Quiet => promised \subseteq Registered(config.projects)

\* What is registered or connected is mounted in the running container, so
\* that its passes find it, unless the last docker compose up failed.
RegisteredIsMounted ==
  (Quiet /\ container.running /\ ~upFailed) =>
    connected \union Registered(config.projects) \subseteq container.mounts

\* Every variable of the settings stays in its type.
SettingsTypeOK ==
  /\ config.readable \in BOOLEAN
  /\ \A projects \in {config.projects, cached} :
       DOMAIN projects \subseteq Keys /\ Registered(projects) \subseteq Dirs
  /\ connected \subseteq Platforms
  /\ DOMAIN editing = Editors
  /\ container.running \in BOOLEAN /\ upFailed \in BOOLEAN
  /\ container.mounts \subseteq Platforms \union Dirs
  /\ promised \subseteq Dirs
=============================================================================
