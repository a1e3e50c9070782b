------------------------------ MODULE Settings ------------------------------
(***************************************************************************)
(* How a process comes to its settings (src/config.py) and a session to    *)
(* its configuration (src/cli/parser.py, src/cli/bootstrap.py).  The user  *)
(* writes names of fields into a profile, into the environment and into    *)
(* two .env files, at any time; a process reads them once and keeps what   *)
(* it read.  A source is a partial function from names to values.  Of the  *)
(* fields those have a name here that a validator treats in a way of its   *)
(* own; the others of a section are one, "section.*", written out of its   *)
(* range or with a value of another type.                                  *)
(***************************************************************************)
EXTENDS Integers, Sequences, TLC

CONSTANT MaxEdits   \* how often the user writes something (bound)

VARIABLES
    written,    \* place -> what the user wrote there
    named,      \* does AUTOBROWSER_CONFIG_FILE name a profile?
    phase,      \* of the process: off, refused, parsed, session
    read,       \* the sources as they were when the process read them
    settings,   \* get_settings(): name -> value
    session,    \* SessionConfig and the permission mode in force
    edits

vars == <<written, named, phase, read, settings, session, edits>>

Profiles == {"named profile", "home profile", "checkout profile"}
DotEnvs == {"home .env", "checkout .env"}
Places == Profiles \cup DotEnvs \cup {"environment", "command line"}
-----------------------------------------------------------------------------
Bad == {"out of range"}

\* The sections: what may be written under a name of theirs, good and bad.
LLMSettings(n) ==
    CASE n = "llm.provider" -> {"ollama", "openai_compat"} [] n = "llm.host" -> {"", "url"}
      [] n = "llm.temperature" -> {"cold", "null", "hotter than allowed"}
      [] n = "llm.extra_body.model" -> {"x"} [] n = "llm.*" -> Bad [] OTHER -> {}

LoopSettings(n) ==
    CASE n = "loop.task_timeout_seconds" -> {90, 1200} [] n = "loop.progress_timeout_seconds" -> {0, 60, 300}
      [] n = "loop.latest_state_timeout_seconds" -> {5} [] n = "loop.*" -> Bad [] OTHER -> {}

BrowserSettings(n) == IF n = "browser.*" THEN Bad ELSE {}
ObservationSettings(n) == IF n = "observation.*" THEN Bad ELSE {}
MemorySettings(n) ==
    CASE n = "memory.max_tool_message_refs" -> {3} [] n = "memory.*" -> Bad [] OTHER -> {}
SkillsSettings(n) == IF n = "skills.*" THEN Bad ELSE {}
EventSettings(n) == IF n = "events.*" THEN Bad ELSE {}

StorageSettings(n) == IF n = "storage.root_dir" THEN {"absolute", "relative", ".autobrowser"} ELSE {}

HookSpec == {"hooks", "a match on a goal event", "a command without a command"}
HooksSettings(n) == CASE n = "hooks.registry" -> HookSpec [] n = "hooks.*" -> Bad [] OTHER -> {}

PermissionRule == {"rules", "one id twice", "always_ask on allow"}
PermissionsSettings(n) ==
    CASE n = "permissions.mode" -> {"default", "read_only"}
      [] n = "permissions.rules" -> PermissionRule [] n = "permissions.*" -> Bad [] OTHER -> {}

UiSettings(n) == CASE n = "ui.log_file" -> {"relative", "absolute"} [] n = "ui.*" -> Bad [] OTHER -> {}
PipelineSettings(n) == IF n = "pipeline.*" THEN Bad ELSE {}
TelemetrySettings(n) == IF n = "telemetry.*" THEN Bad ELSE {}
EvalPlatformSettings(n) == IF n = "eval_platform.*" THEN Bad ELSE {}

\* mcp_servers: two variants that share no field but the transport.
ServerConfig(n) ==
    CASE n = "mcp_servers.s.transport" -> {"stdio", "streamable_http"} [] n = "mcp_servers.s.command" -> {"npx"}
      [] n = "mcp_servers.s.url" -> {"url", "${UNSET}"} [] n = "browser_mcp_server" -> {"s", "other"} [] OTHER -> {}

Fields == {"llm.provider", "llm.host", "llm.temperature", "loop.task_timeout_seconds",
           "loop.progress_timeout_seconds", "storage.root_dir", "hooks.registry", "permissions.mode",
           "permissions.rules", "ui.log_file", "browser_mcp_server"}
ServerFields == {"mcp_servers.s.transport", "mcp_servers.s.command", "mcp_servers.s.url"}
\* Accepted and dropped, for old files.
Removed == {"loop.latest_state_timeout_seconds", "memory.max_tool_message_refs"}
Others == {"llm.*", "loop.*", "browser.*", "observation.*", "memory.*", "skills.*", "events.*", "hooks.*",
           "permissions.*", "ui.*", "pipeline.*", "telemetry.*", "eval_platform.*"}
\* Names that are no field: of a section, of no section; and a file that is no mapping.
Strays == {"loop.turn_capp", "loops", "not a mapping"}
Flags == {"llm.provider", "llm.temperature", "permissions.mode"}

Values(n) ==
    LLMSettings(n) \cup BrowserSettings(n) \cup LoopSettings(n) \cup ObservationSettings(n) \cup
    MemorySettings(n) \cup SkillsSettings(n) \cup EventSettings(n) \cup StorageSettings(n) \cup
    HooksSettings(n) \cup PermissionsSettings(n) \cup UiSettings(n) \cup PipelineSettings(n) \cup
    TelemetrySettings(n) \cup EvalPlatformSettings(n) \cup ServerConfig(n) \cup
    (IF n \in Strays THEN {1} ELSE {})

Names(place) ==
    IF place = "command line" THEN Flags
    ELSE Fields \cup ServerFields \cup Removed \cup Others \cup {"llm.extra_body.model"} \cup
         (IF place \in Profiles THEN Strays ELSE Strays \ {"not a mapping"})

\* argparse refuses what is no choice of a flag, and knows two more modes.
Writable(place, n) ==
    IF place # "command line" THEN Values(n)
    ELSE (Values(n) \ {"null", "hotter than allowed"}) \cup (IF n = "permissions.mode" THEN {"bypass"} ELSE {})
-----------------------------------------------------------------------------
\* The file that _resolve_config_path finds; without any the sources below it decide.
ConfigFile ==
    IF named THEN "named profile"
    ELSE IF written["home profile"] # <<>> THEN "home profile" ELSE "checkout profile"

\* env_ignore_empty: an empty variable counts as not set.
NonEmpty(said) == [n \in {m \in DOMAIN said : ~(m = "llm.host" /\ said[m] = "")} |-> said[n]]

\* The sources, the highest first; .env of the home over that of the checkout.
DotEnv == NonEmpty(written["home .env"]) @@ NonEmpty(written["checkout .env"])
Layers == <<written[ConfigFile], NonEmpty(written["environment"]), DotEnv>>

\* Mutated: the highest source that names a section settles all of it.
MergedBySection(layers) ==
    LET below == layers[2] @@ layers[3]
        Loop == {"loop.task_timeout_seconds", "loop.progress_timeout_seconds"}
    IN IF Loop \cap DOMAIN layers[1] = {} THEN layers[1] @@ below
       ELSE layers[1] @@ [n \in DOMAIN below \ Loop |-> below[n]]

\* settings_customise_sources: pydantic folds the sources with a deep update.
Merged(layers) == layers[1] @@ layers[2] @@ layers[3]

Default(n) ==
    CASE n = "llm.provider" -> "ollama" [] n = "llm.host" -> "" [] n = "llm.temperature" -> "cold"
      [] n = "loop.task_timeout_seconds" -> 1200 [] n = "loop.progress_timeout_seconds" -> 120
      [] n = "storage.root_dir" -> "home" [] n = "hooks.registry" -> "hooks"
      [] n = "permissions.mode" -> "default" [] n = "permissions.rules" -> "rules"
      [] n = "ui.log_file" -> "relative" [] n = "browser_mcp_server" -> "none"

Given(merged, n) == IF n \in DOMAIN merged THEN merged[n] ELSE Default(n)
-----------------------------------------------------------------------------
\* The profile alone is checked for names that are no section (_read_file).
ProfileIsRead(profile) == {"loops", "not a mapping"} \cap DOMAIN profile = {}

ProfileExists == named => written["named profile"] # <<>>

LlmHolds(merged) ==
    /\ Given(merged, "llm.temperature") # "hotter than allowed"
    /\ "llm.extra_body.model" \notin DOMAIN merged
    /\ Given(merged, "llm.provider") = "openai_compat" => Given(merged, "llm.host") # ""

LoopHolds(merged) ==
    /\ "loop.turn_capp" \notin DOMAIN merged
    /\ Given(merged, "loop.progress_timeout_seconds") > 0

HooksHold(merged) == Given(merged, "hooks.registry") = "hooks"
RulesHold(merged) == Given(merged, "permissions.rules") = "rules"

Server(merged) == DOMAIN merged \cap ServerFields

\* The transport selects the variant; each forbids the other's fields.  A ${VAR} that is
\* not set is refused (expand_env_strict).
ServerHolds(merged) ==
    Server(merged) # {} =>
        /\ "mcp_servers.s.transport" \in DOMAIN merged
        /\ IF merged["mcp_servers.s.transport"] = "stdio"
           THEN "mcp_servers.s.command" \in DOMAIN merged /\ "mcp_servers.s.url" \notin DOMAIN merged
           ELSE /\ "mcp_servers.s.url" \in DOMAIN merged /\ "mcp_servers.s.command" \notin DOMAIN merged
                /\ merged["mcp_servers.s.url"] # "${UNSET}"

\* A bad value counts in the highest source that names its field only; a name that is no
\* field counts wherever it is written.
Valid(layers) ==
    /\ ProfileIsRead(layers[1])
    /\ LET merged == Merged(layers) IN
       LlmHolds(merged) /\ LoopHolds(merged) /\ HooksHold(merged) /\ RulesHold(merged) /\ ServerHolds(merged)
       /\ Others \cap DOMAIN merged = {}

\* _clamp_phase_timeouts, and the null strings, and a root under the home.
Clamped(merged) ==
    LET progress == Given(merged, "loop.progress_timeout_seconds")
        task == Given(merged, "loop.task_timeout_seconds")
    IN IF progress > task THEN task ELSE progress

NullStringToNone(value) == IF value = "null" THEN "none" ELSE value

ExpandRoot(value) ==
    CASE value = ".autobrowser" -> "home" [] value = "relative" -> "under the home" [] OTHER -> value

Normal(n, value) ==
    CASE n = "llm.temperature" -> NullStringToNone(value)
      [] n = "storage.root_dir" -> ExpandRoot(value)
      [] OTHER -> value

Settled(merged) ==
    [n \in Fields |-> IF n = "loop.progress_timeout_seconds" THEN Clamped(merged)
                      ELSE Normal(n, Given(merged, n))]
-----------------------------------------------------------------------------
NoSettings == [n \in {} |-> 0]
NoSession == [provider |-> "none", temperature |-> "none", mode |-> "none", classifier |-> "none", human |-> FALSE]

Init ==
    /\ written = [p \in Places |-> <<>>] /\ named = FALSE
    /\ phase = "off" /\ read = <<>> /\ settings = NoSettings /\ session = NoSession
    /\ edits = 0

Process == <<phase, read, settings, session>>

\* The user writes one field into one of the places, or names a profile.
Write(place, name, value) ==
    /\ written' = [written EXCEPT ![place] = (name :> value) @@ @]
    /\ edits' = edits + 1
    /\ UNCHANGED named /\ UNCHANGED Process

NameProfile ==
    /\ edits < MaxEdits /\ ~named
    /\ named' = TRUE /\ edits' = edits + 1
    /\ UNCHANGED written /\ UNCHANGED Process

\* build_parser is the first to call get_settings.  A named file that is missing, and
\* anything that does not validate, ends the process.
Launch ==
    /\ phase = "off"
    /\ IF ProfileExists /\ Valid(Layers)
       THEN /\ phase' = "parsed"
            /\ settings' = Settled(Merged(Layers))
            /\ read' = [written |-> written, profile |-> ConfigFile]
       ELSE phase' = "refused" /\ UNCHANGED <<read, settings>>
    /\ UNCHANGED <<written, named, session, edits>>

\* effective_permission_mode: without a human a configured default becomes dont_ask.
EffectiveMode(args, interactive) ==
    IF "permissions.mode" \in DOMAIN args THEN args["permissions.mode"]
    ELSE IF ~interactive /\ settings["permissions.mode"] = "default" THEN "dont_ask"
    ELSE settings["permissions.mode"]

\* SessionConfig.from_args over the parsed flags, whose defaults are the settings.
FromArgs(args, interactive) ==
    LET temperature == Given(args @@ settings, "llm.temperature")
    IN [provider |-> Given(args @@ settings, "llm.provider"), temperature |-> temperature,
        mode |-> EffectiveMode(args, interactive), human |-> interactive,
        classifier |-> IF temperature = "none" THEN "none" ELSE "cold"]

\* _settings_for revalidates the section for the provider of the command line.
ModelIsBuilt(provider) ==
    provider = settings["llm.provider"] \/ provider = "ollama" \/ settings["llm.host"] # ""

\* build_mcp_runtime: without servers the built-in browser server is taken.
Servers ==
    IF \E p \in DotEnvs \cup {"environment", read.profile} : Server(read.written[p]) # {} THEN {"s"} ELSE {"playwright"}
RuntimeIsBuilt == settings["browser_mcp_server"] \in Servers \cup {"none"}

\* The session starts with the model and the servers; one that cannot be built leaves the
\* front end running, and the user may quit.
StartSession(interactive) ==
    /\ phase = "parsed"
    /\ LET config == FromArgs(read.written["command line"], interactive) IN
       /\ ModelIsBuilt(config.provider) /\ RuntimeIsBuilt
       /\ session' = config
    /\ phase' = "session"
    /\ UNCHANGED <<written, named, read, settings, edits>>

Exit ==
    /\ phase # "off"
    /\ phase' = "off" /\ read' = <<>> /\ settings' = NoSettings /\ session' = NoSession
    /\ UNCHANGED <<written, named, edits>>

Next ==
    \/ /\ edits < MaxEdits
       /\ \E place \in Places : \E name \in Names(place) : \E value \in Writable(place, name) :
                Write(place, name, value)
    \/ NameProfile \/ Launch \/ Exit
    \/ \E interactive \in BOOLEAN : StartSession(interactive)

Spec == Init /\ [][Next]_vars
-----------------------------------------------------------------------------
\* The places that say something of a field, the highest first, as they were read.
Saying(n) ==
    SelectSeq(<<read.profile, "environment", "home .env", "checkout .env">>,
        LAMBDA p : n \in DOMAIN read.written[p] /\ (p = read.profile \/ (n = "llm.host" => read.written[p][n] # "")))

Said(n) == IF Saying(n) = <<>> THEN Default(n) ELSE read.written[Head(Saying(n))][n]

\* A process runs with what its sources said when it started, whatever is written
\* later, and field by field: the highest source that names a field settles it, and
\* naming one field never freezes its neighbours (config.py:38-46).  The stall budget
\* never exceeds the task's, wherever the two were written.
SettingsAreLayered ==
    phase \in {"parsed", "session"} =>
        /\ \A n \in Fields \ {"loop.progress_timeout_seconds"} :
              settings[n] = Normal(n, Said(n))
        /\ LET progress == settings["loop.progress_timeout_seconds"] IN
           /\ progress <= settings["loop.task_timeout_seconds"]
           /\ progress # Said("loop.progress_timeout_seconds") => progress = Said("loop.task_timeout_seconds")

\* A session without a human never waits for one unless it was told to, and a session
\* that sends no temperature lets the classifier send none.
SessionIsConsistent ==
    phase = "session" =>
        /\ session.provider = "openai_compat" => settings["llm.host"] # ""
        /\ session.temperature = "none" => session.classifier = "none"
        /\ session.mode = "default" => session.human \/ "permissions.mode" \in DOMAIN read.written["command line"]
=============================================================================
