------------------------------- MODULE Config -------------------------------
(***************************************************************************)
(* The life of one setting: an operator edits the environment and the      *)
(* configuration file, checks them with `nexus config validate`, starts    *)
(* and stops the proxy, and sends it SIGHUP.  Validation and start use two *)
(* separate loaders, and a reload a third reading of the same variables;   *)
(* the properties are about where they agree.                              *)
(*                                                                         *)
(* One arbitrary setting is followed at a time; the rules that tie two     *)
(* settings together (a custom redaction profile needs patterns, the judge *)
(* borrows the frontier's address) are left out.                           *)
(***************************************************************************)
EXTENDS Settings

VARIABLES
    setting,    \* the setting followed
    env, file,  \* its class in the operator's environment and in the file
    layout,     \* "flat", or "nested" when the file has a section within a section
    verdict,    \* of the last validation of these inputs: "none", "valid", "invalid"
    proc,       \* "down", "refused" (the last start failed), "up"
    procEnv,    \* the environment the running process was given
    value,      \* the setting's value in the running process
    reloads     \* SIGHUPs handled since the last start or edit (0, 1 or more)

configVars == <<setting, env, file, layout, verdict, proc, procEnv, value, reloads>>

Classes(s) == DOMAIN LoadRules[s]

\* hotReloadableEnvs, with the treatment ReloadHotReloadable gives each: parse errors
\* are dropped, and the zero that comes with them is clamped like any other value.
ReloadRules ==
    Each({"RATE_LIMIT_RPM", "RATE_LIMIT_BURST", "AUTH_RATE_LIMIT_RPM", "AUTH_RATE_LIMIT_BURST",
          "RAG_CIRCUIT_BREAKER_THRESHOLD"}, Rule("zero", "zero", "over", "zero"))
    @@ Each({"AUTH_RATE_LIMIT_WINDOW", "SHUTDOWN_TIMEOUT", "SERVER_READ_TIMEOUT",
             "OIDC_JWKS_REFRESH"}, Rule("default", "default", "over", "default"))
    @@ Each({"BUDGET_ALERT_THRESHOLD", "FUSION_AGREEMENT_THRESHOLD", "TRACING_SAMPLE_RATE"},
            Rule("zero", "zero", "one", "zero"))
    @@ Each({"TRUSTED_PROXIES", "ALLOW_CIDRS"}, Text("default", "ignored"))
    @@ Each({"API_KEYS_FILE"}, Word)
    @@ Each({"LOG_LEVEL", "LOG_FORMAT"}, Lax)
    @@ Each({"DEBUG"}, [Switch EXCEPT !.junk = "ignored"])
    @@ Each({"ALLOW_CIDRS_STRICT"}, EnvBool)

\* Without the clamps on negative values.
BugReloaded(s, e, prev) ==
    IF s \in DOMAIN ReloadRules /\ e # "neg" /\ ReloadRules[s][e] # "ignored" THEN ReloadRules[s][e]
    ELSE IF e = "neg" THEN "neg" ELSE prev

\* ReloadHotReloadable: everything else keeps its previous value.
Reloaded(s, e, prev) ==
    IF s \in DOMAIN ReloadRules /\ ReloadRules[s][e] # "ignored" THEN ReloadRules[s][e] ELSE prev

ConfigInit ==
    /\ setting \in Names
    /\ env \in Classes(setting)
    /\ file \in Classes(setting)
    /\ layout \in {"flat", "nested"}
    /\ verdict = "none" /\ proc = "down" /\ reloads = 0
    /\ procEnv = "unset" /\ value = "none"

\* The operator changes the environment or the file; a running process keeps its own.
EditTo(e, f, l) ==
    /\ env' = e /\ file' = f /\ layout' = l
    /\ <<e, f, l>> # <<env, file, layout>>
    /\ verdict' = "none" /\ reloads' = 0
    /\ proc' = IF proc = "refused" THEN "down" ELSE proc
    /\ UNCHANGED <<setting, procEnv, value>>

Edit ==
    \/ \E c \in Classes(setting) : EditTo(c, file, layout) \/ EditTo(env, c, layout)
    \/ \E l \in {"flat", "nested"} : EditTo(env, file, l)

\* `nexus config validate <file>`.
RunValidate ==
    /\ verdict = "none"
    /\ verdict' = IF LoadYAML(setting, env, file) = "error" THEN "invalid" ELSE "valid"
    /\ UNCHANGED <<setting, env, file, layout, proc, procEnv, value, reloads>>

\* The server starts, or exits with the loader's error.
Boot ==
    /\ proc = "down"
    /\ LET v == Load(setting, env, file, layout) IN
       /\ proc' = IF v = "error" THEN "refused" ELSE "up"
       /\ value' = IF v = "error" THEN "none" ELSE v
    /\ procEnv' = env /\ reloads' = 0
    /\ UNCHANGED <<setting, env, file, layout, verdict>>

\* SIGHUP: only the process's own environment is read again, never the file.
Reload ==
    /\ proc = "up"
    /\ value' = Reloaded(setting, procEnv, value)
    /\ reloads' = 1
    /\ UNCHANGED <<setting, env, file, layout, verdict, proc, procEnv>>

Stop ==
    /\ proc = "up"
    /\ proc' = "down" /\ value' = "none" /\ reloads' = 0
    /\ UNCHANGED <<setting, env, file, layout, verdict, procEnv>>

ConfigNext == Edit \/ RunValidate \/ Boot \/ Reload \/ Stop

ConfigSpec == ConfigInit /\ [][ConfigNext]_configVars

-----------------------------------------------------------------------------
\* Variables LoadYAML does not read, or whose malformed values it skips.
Overlooked ==
    {"RAG_CIRCUIT_BREAKER_THRESHOLD", "RAG_CIRCUIT_BREAKER_COOLDOWN", "SLM_CONFIDENCE_THRESHOLD",
     "DSL_FORMATTING_PATTERNS", "DSL_FUSION_PATTERNS", "DSL_LOCAL_PATTERNS",
     "DSL_UNICODE_PATTERNS", "JUDGE_ADAPTIVE_WINDOW", "JUDGE_ADAPTIVE_HIGH_CONFIDENCE",
     "JUDGE_ADAPTIVE_LOW_CONFIDENCE", "TELEMETRY_MAX_BYTES", "TELEMETRY_MAX_FILES",
     "TELEMETRY_BUFFER_SIZE", "TELEMETRY_FLUSH_INTERVAL", "METRICS_RETENTION_DAYS",
     "METRICS_BATCH_SIZE", "METRICS_BATCH_TIMEOUT", "TRACING_MAX_RETRIES",
     "TRACING_RETRY_BASE_DELAY", "TRACING_RETRY_MAX_DELAY", "OTEL_METRICS_TIMEOUT"}

\* Numbers the two loaders bound differently.
Reinterpreted ==
    {"FRONTIER_FAILOVER_MAX_ATTEMPTS", "DSL_PROMOTION_CONFIDENCE", "REDACT_BUFFER_BYTES"}

\* `nexus config validate` foretells the start (cmd/nexus/config.go:117-122).  Inputs it
\* accepted do not make the server exit, unless the file has a nested section, which only
\* Load's own parser refuses, or the setting is one LoadYAML overlooks; and a number set in
\* the environment means the same to both, except for the three bounded differently.
ValidatedBoots ==
    /\ verdict = "valid" /\ proc = "refused" => layout = "nested" \/ setting \in Overlooked
    /\ verdict = "valid" /\ proc = "up" /\ reloads = 0 /\ procEnv = env
          /\ env \in {"neg", "zero", "one", "over"} /\ Load(setting, env, file, layout) = value
       => value = LoadYAML(setting, env, file) \/ setting \in Overlooked \union Reinterpreted

\* Values a start accepts although they are out of range, and a reload then corrects.
Corrected ==
    {<<"SERVER_READ_TIMEOUT", "zero">>, <<"AUTH_RATE_LIMIT_WINDOW", "zero">>,
     <<"OIDC_JWKS_REFRESH", "zero">>, <<"OIDC_JWKS_REFRESH", "neg">>,
     <<"FUSION_AGREEMENT_THRESHOLD", "neg">>, <<"FUSION_AGREEMENT_THRESHOLD", "over">>,
     <<"RAG_CIRCUIT_BREAKER_THRESHOLD", "neg">>}

\* A SIGHUP in an environment that did not change changes nothing the start had settled
\* (config.go:2962, "start from previous so non-reloadable fields are preserved"), except
\* for the out-of-range values listed above, and a second SIGHUP changes nothing at all.
ReloadKeeps ==
    [][Reload => value' = value \/ (reloads = 0 /\ <<setting, value>> \in Corrected)]_configVars

\* Environment variables always take precedence over file values (config.go:917,
\* .env.example:24): a variable that is set decides the value the server starts with.
\* The code does not keep this: getFileBool lets the file decide first.
EnvWins ==
    proc = "up" /\ reloads = 0 /\ procEnv \notin {"unset", "empty"} /\ value # "none"
    => value = Validate(setting, LoadRules[setting][procEnv])
=============================================================================
