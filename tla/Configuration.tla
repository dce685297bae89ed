----------------------------- MODULE Configuration -----------------------------
(***************************************************************************)
(* The configuration file of the server (synchrotron-server/src/config and *)
(* the head of main.rs): parsing with defaults, validation, and the reload *)
(* on SIGHUP behind a ConfigHandle.                                        *)
(*                                                                         *)
(* reload reads and validates the file before it takes the write lock, so  *)
(* that an edit, a signal and main's own read of the handle may fall       *)
(* between the two.  A process without the SIGHUP handler (it was started  *)
(* without a file, or the task that installs it has not run) dies of the   *)
(* signal.                                                                 *)
(***************************************************************************)
EXTENDS Naturals, Sequences

CONSTANTS
  ConfigTexts,    \* what the file may hold: Unreadable, Malformed or a document
  Unreadable,     \* the file is missing or not readable
  Malformed,      \* not YAML, or an unknown field
  Absent,         \* an option a document does not give
  Refused,        \* the result of load_and_validate for what it rejects
  NoConfig,       \* nothing loaded
  MaxConfigEdits, \* bound: edits of the file
  MaxHangups      \* bound: SIGHUPs sent

\* What the deserializer lets a document say; Given supplies what is Absent.
Optional(S) == S \cup {Absent}
Document ==
  [listen_addr : Optional(Seq(STRING)), db_path : Optional(STRING),
   clusters : Optional(Seq([name : STRING, in_cluster : BOOLEAN, kubeconfig : Optional(STRING)])),
   repos    : Optional(Seq([id : STRING, url : STRING])),
   plugins  : Optional(Seq([name : STRING])),
   repo_interval_seconds : Optional(Nat), auto_heal_interval_seconds : Optional(Nat),
   reconcile_seconds : Optional(Nat), git_fetch_seconds : Optional(Nat)]

ASSUME ConfigurationAssumption ==
  /\ ConfigTexts \subseteq Document \cup {Unreadable, Malformed}
  /\ MaxConfigEdits \in Nat /\ MaxHangups \in Nat

VARIABLES
  confFile,     \* the file's content
  process,      \* "down", "booting" (before main reads the handle), "running"
  handle,       \* ConfigHandle.inner: the active config
  bootConfig,   \* what main assembles the server from
  reloader,     \* the SIGHUP task: "none", "starting", "waiting", "swap"
  loaded,       \* the config reload has read and not stored yet
  hangup,       \* a signal the task has not received; signals merge
  edited,       \* history: the file was edited after the last signal or start
  confEdits, hangups

configVars == <<confFile, process, handle, bootConfig, reloader, loaded, hangup, edited,
                confEdits, hangups>>

-----------------------------------------------------------------------------
\* What serde makes of a document: an option it does not give gets its default.
\* listen_addr is the list of its parts between colons, <<>> when it is blank.
Given(option, default) == IF option = Absent THEN default ELSE option

ServerSection(doc) == [listen_addr |-> Given(doc.listen_addr, <<"0.0.0.0", "8484">>),
                       db_path     |-> Given(doc.db_path, "synchrotron.db")]
Polling(doc)  == [repo_interval_seconds      |-> Given(doc.repo_interval_seconds, 180),
                  auto_heal_interval_seconds |-> Given(doc.auto_heal_interval_seconds, 600)]
Timeouts(doc) == [reconcile_seconds |-> Given(doc.reconcile_seconds, 300),
                  git_fetch_seconds |-> Given(doc.git_fetch_seconds, 120)]

Config(doc) ==
  [server   |-> ServerSection(doc),
   clusters |-> Given(doc.clusters, <<>>),
   repos    |-> Given(doc.repos, <<>>),
   plugins  |-> Given(doc.plugins, <<>>),
   polling  |-> Polling(doc),
   timeouts |-> Timeouts(doc)]

\* The document that gives nothing: Config::default().
EmptyDoc ==
  [listen_addr |-> Absent, db_path |-> Absent, clusters |-> Absent, repos |-> Absent,
   plugins |-> Absent, repo_interval_seconds |-> Absent, auto_heal_interval_seconds |-> Absent,
   reconcile_seconds |-> Absent, git_fetch_seconds |-> Absent]

\* The HashSet every list check keeps: a blank name never enters it.
FirstUse(names, i) == names[i] # "" /\ \A j \in 1 .. i - 1 : names[j] # names[i]
Field(list, f) == [i \in DOMAIN list |-> list[i][f]]
FreshNames(names) == \A i \in DOMAIN names : FirstUse(names, i)

ValidateServer(s)   == Len(s.listen_addr) > 1 /\ s.db_path # ""
ValidateClusters(l) ==
  /\ FreshNames(Field(l, "name"))
  /\ \A i \in DOMAIN l : /\ ~ (l[i].in_cluster /\ l[i].kubeconfig # Absent)
                         /\ ~ (~ l[i].in_cluster /\ l[i].kubeconfig = Absent)
ValidateRepos(l)    == FreshNames(Field(l, "id")) /\ \A i \in DOMAIN l : l[i].url # ""
ValidatePlugins(l)  == FreshNames(Field(l, "name"))
ValidatePolling(p)  == p.repo_interval_seconds # 0 /\ p.auto_heal_interval_seconds # 0
ValidateTimeouts(t) == t.reconcile_seconds # 0 /\ t.git_fetch_seconds # 0

Validate(c) ==
  /\ ValidateServer(c.server)   /\ ValidateClusters(c.clusters)
  /\ ValidateRepos(c.repos)     /\ ValidatePlugins(c.plugins)
  /\ ValidatePolling(c.polling) /\ ValidateTimeouts(c.timeouts)

LoadAndValidate(text) ==
  IF text \in {Unreadable, Malformed} \/ ~ Validate(Config(text)) THEN Refused ELSE Config(text)

-----------------------------------------------------------------------------
ConfigInit ==
  /\ confFile \in ConfigTexts
  /\ process = "down" /\ handle = NoConfig /\ bootConfig = NoConfig
  /\ reloader = "none" /\ loaded = NoConfig
  /\ hangup = FALSE /\ edited = FALSE /\ confEdits = 0 /\ hangups = 0

\* main: a path that does not load ends the process; without one the defaults hold.
StartWithFile ==
  /\ process = "down" /\ LoadAndValidate(confFile) # Refused
  /\ process' = "booting" /\ handle' = LoadAndValidate(confFile)
  /\ reloader' = "starting" /\ edited' = FALSE
  /\ UNCHANGED <<confFile, bootConfig, loaded, hangup, confEdits, hangups>>

StartWithDefaults ==
  /\ process = "down"
  /\ process' = "booting" /\ handle' = Config(EmptyDoc)
  /\ UNCHANGED <<confFile, bootConfig, reloader, loaded, hangup, edited, confEdits, hangups>>

\* let cfg = handle.current().await
ReadAtBoot ==
  /\ process = "booting"
  /\ process' = "running" /\ bootConfig' = handle
  /\ UNCHANGED <<confFile, handle, reloader, loaded, hangup, edited, confEdits, hangups>>

\* The spawned task asks for the signal; a refusal ends it.
InstallHandler ==
  /\ reloader = "starting" /\ reloader' \in {"waiting", "none"}
  /\ UNCHANGED <<confFile, process, handle, bootConfig, loaded, hangup, edited, confEdits, hangups>>

EditFile ==
  /\ confEdits < MaxConfigEdits
  /\ \E t \in ConfigTexts \ {confFile} : confFile' = t
  /\ edited' = TRUE /\ confEdits' = confEdits + 1
  /\ UNCHANGED <<process, handle, bootConfig, reloader, loaded, hangup, hangups>>

HangupQueued ==
  /\ process # "down" /\ reloader \in {"waiting", "swap"} /\ hangups < MaxHangups
  /\ hangup' = TRUE /\ edited' = FALSE /\ hangups' = hangups + 1
  /\ UNCHANGED <<confFile, process, handle, bootConfig, reloader, loaded, confEdits>>

\* The default disposition of SIGHUP.
HangupKills ==
  /\ process # "down" /\ reloader \in {"none", "starting"} /\ hangups < MaxHangups
  /\ process' = "down" /\ handle' = NoConfig /\ bootConfig' = NoConfig
  /\ reloader' = "none" /\ hangups' = hangups + 1
  /\ UNCHANGED <<confFile, loaded, hangup, edited, confEdits>>

\* sig.recv, then the first half of ConfigHandle::reload; a failure keeps the old config.
ReloadRead ==
  /\ reloader = "waiting" /\ hangup
  /\ hangup' = FALSE
  /\ IF LoadAndValidate(confFile) = Refused
     THEN UNCHANGED <<reloader, loaded>>
     ELSE reloader' = "swap" /\ loaded' = LoadAndValidate(confFile)
  /\ UNCHANGED <<confFile, process, handle, bootConfig, edited, confEdits, hangups>>

\* mutant: the signals that came during the reload count as served
ReloadSwapServingAll ==
  /\ reloader = "swap"
  /\ reloader' = "waiting" /\ handle' = loaded /\ loaded' = NoConfig /\ hangup' = FALSE
  /\ UNCHANGED <<confFile, process, bootConfig, edited, confEdits, hangups>>
\* The second half, under the write lock.
ReloadSwap ==
  /\ reloader = "swap"
  /\ reloader' = "waiting" /\ handle' = loaded /\ loaded' = NoConfig
  /\ UNCHANGED <<confFile, process, bootConfig, hangup, edited, confEdits, hangups>>

ConfigNext ==
  \/ StartWithFile \/ StartWithDefaults \/ ReadAtBoot \/ InstallHandler
  \/ EditFile \/ HangupQueued \/ HangupKills \/ ReloadRead \/ ReloadSwap

ConfigSpec == ConfigInit /\ [][ConfigNext]_configVars

-----------------------------------------------------------------------------
\* "On failure the old config stays active", "the operator gets a chance to fix the file and
\* SIGHUP again": what is active can always be run on (no name twice, every cluster reached in
\* one way, no zero interval), and once the reloader waits again with no signal left, a file
\* that was not touched since the last signal is the active one unless it is refused, however
\* edits and signals fell between the read and the swap of earlier reloads.
ConfigFollowsFile ==
  process # "down" =>
    /\ \A list \in {handle.clusters, handle.plugins} :
          \A i, j \in DOMAIN list : i # j => list[i].name # list[j].name
    /\ \A i \in DOMAIN handle.clusters :
          handle.clusters[i].in_cluster = (handle.clusters[i].kubeconfig = Absent)
    /\ {handle.polling[f] : f \in DOMAIN handle.polling} \subseteq Nat \ {0}
    /\ reloader = "waiting" /\ ~ hangup /\ ~ edited =>
          LoadAndValidate(confFile) \in {Refused, handle}
=============================================================================
