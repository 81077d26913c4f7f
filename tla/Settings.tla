------------------------------ MODULE Settings ------------------------------
(***************************************************************************)
(* The settings of the proxy as config.Load reads them                     *)
(* (internal/config/config.go).  What a setting may hold is abstracted to  *)
(* the classes its treatment tells apart, and the treatment is a rule: the *)
(* value that comes of each class.  "default" is the built-in value,       *)
(* "error" makes the loader refuse the whole configuration.                *)
(***************************************************************************)
EXTENDS TLC

\* A number or a duration: absent (or empty), not parseable, negative, zero, one,
\* above one.  "unset" and "one" are never touched.
Rule(neg, zero, over, junk) ==
    [unset |-> "default", junk |-> junk, neg |-> neg, zero |-> zero, one |-> "one", over |-> over]

\* A text: absent, set to the empty string, one of the accepted words, or another.
Text(empty, odd) == [unset |-> "default", empty |-> empty, word |-> "word", odd |-> odd]

\* A switch, with the spellings the parsers disagree about.
Flag(yes, on, no, junk) ==
    [unset |-> "default", true |-> "true", digit |-> "true", yes |-> yes, on |-> on,
     false |-> "false", no |-> no, junk |-> junk]

\* The treatments of getEnvInt, getEnvFloat and getEnvDuration values in Load.
Kept == Rule("neg", "zero", "over", "error")
Floored == Rule("zero", "zero", "over", "error")
Clamped == Rule("zero", "zero", "one", "error")
AtLeastOne == Rule("one", "one", "over", "error")
Positive == Rule("default", "default", "over", "error")
NotNegative == Rule("error", "zero", "over", "error")
NegativeIsDefault == Rule("default", "zero", "over", "error")
InUnitInterval == Rule("error", "zero", "error", "error")
ZeroIsDefault == Rule("error", "default", "over", "error")

\* getEnv; an entry that must parse; an entry whose odd values fall back.
Word == Text("default", "odd")
Choice == Text("default", "error")
Lax == Text("default", "default")

\* getEnvBool, parseBoolEnv, strconv.ParseBool, and comparisons with literals.
EnvBool == Flag("true", "false", "false", "false")
Switch == Flag("true", "true", "false", "default")
Strict == Flag("error", "error", "error", "error")
Literal == Flag("false", "false", "false", "false")
OnlyTrue == [Literal EXCEPT !.digit = "false"]

Each(S, rule) == [s \in S |-> rule]

\* Listen address, models, keys, secret store and telemetry file (lines 970-1105).
LoadEndpoints ==
    Each({"ADDR", "OLLAMA_URL", "ROUTER_MODEL", "LOCAL_MODEL",
            "EMBEDDING_MODEL", "FRONTIER_URL", "FRONTIER_MODEL",
            "FRONTIER_API_KEY", "ZAI_URL", "ZAI_MODEL", "ZAI_API_KEY",
            "PROXY_API_KEY", "SECRET_BACKEND", "VAULT_ADDR", "VAULT_TOKEN",
            "VAULT_ROLE", "VAULT_PATH", "AWSSM_PREFIX", "API_KEYS_FILE",
            "AUTH_MODE", "OIDC_JWKS_URL", "OIDC_ISSUER", "OIDC_AUDIENCE",
            "EXAMPLES_DIR", "MIDDLEWARE_CHAIN", "METRICS_DB"}, Word)
    @@ Each({"SECRET_REFRESH"}, Kept)
    @@ Each({"STATUS_PUBLIC", "TOON_UNFENCED"}, EnvBool)
    @@ Each({"OIDC_JWKS_REFRESH"}, Rule("neg", "zero", "over", "zero"))
    @@ Each({"TELEMETRY_PATH"}, Text("empty", "odd"))
    @@ Each({"TELEMETRY_MAX_BYTES", "METRICS_RETENTION_DAYS"}, Floored)
    @@ Each({"TELEMETRY_MAX_FILES", "METRICS_BATCH_SIZE"}, AtLeastOne)
    @@ Each({"TELEMETRY_BUFFER_SIZE", "TELEMETRY_FLUSH_INTERVAL",
            "METRICS_BATCH_TIMEOUT"}, Positive)

\* Tracer retries, the example store and its embedder (lines 1108-1241).
LoadStore ==
    Each({"TRACING_MAX_RETRIES", "TRACING_RETRY_BASE_DELAY",
            "TRACING_RETRY_MAX_DELAY", "RAG_POLL_INTERVAL",
            "RAG_BATCH_SIZE", "RAG_CHUNK_TOKENS"}, Floored)
    @@ Each({"RAG_THRESHOLD", "RAG_EMBED_CACHE_SIZE", "RAG_EMBED_CACHE_TTL",
            "RAG_EMBED_CACHE_WAIT_TIMEOUT", "RAG_CIRCUIT_BREAKER_THRESHOLD",
            "RAG_CIRCUIT_BREAKER_COOLDOWN"}, Kept)
    @@ Each({"RAG_DB"}, Text("empty", "odd"))
    @@ Each({"RAG_RECURSIVE"}, EnvBool)
    @@ Each({"EMBEDDER_TYPE", "EMBEDDER_BASE_URL", "COHERE_API_KEY"}, Word)

\* Retrieval limits, the SLM and the panel timeouts (lines 1244-1384).
LoadRetrieval ==
    Each({"RAG_TOP_K"}, AtLeastOne)
    @@ Each({"RAG_MAX_INJECTION_TOKENS"}, Positive)
    @@ Each({"RAG_FILE_EXTENSIONS", "RAG_EXCLUDE_PATTERNS"}, Text("empty",
            "odd"))
    @@ Each({"RAG_DEDUP_THRESHOLD"}, Clamped)
    @@ Each({"RAG_DEDUP_CROSS_DIR", "SLM_TOKEN_HINT"}, EnvBool)
    @@ Each({"RAG_HYBRID_WEIGHT", "DIAG_RAG_MIN_FILES", "TOKEN_GUARDRAIL",
            "SLM_TIMEOUT", "SLM_CONFIDENCE_THRESHOLD",
            "ROUTING_CONTEXT_TURNS", "ROUTING_CONTEXT_CHARS",
            "FUSION_TIMEOUT", "FUSION_LOCAL_TIMEOUT",
            "FUSION_FRONTIER_TIMEOUT"}, Kept)
    @@ Each({"SLM_CACHE_MAX_ENTRIES"}, Floored)

\* Cascade timeouts, failover, coalescing, DSL and selector (lines 1386-1526).
LoadRouting ==
    Each({"CASCADE_TIMEOUT", "CASCADE_TIMEOUT_FLOOR",
            "CASCADE_TIMEOUT_CEILING", "CASCADE_TIMEOUT_PER_1K_TOKENS",
            "COALESCE_TTL", "COALESCE_MAX_ENTRIES", "ARBITER_TIMEOUT",
            "DSL_PROMOTION_MIN_SAMPLES", "DSL_PROMOTION_CONFIDENCE",
            "DSL_PROMOTION_INTERVAL"}, Kept)
    @@ Each({"FRONTIER_FAILOVER", "COALESCE_ENABLED"}, EnvBool)
    @@ Each({"FRONTIER_FAILOVER_MAX_ATTEMPTS"}, AtLeastOne)
    @@ Each({"DSL_FORMATTING_PATTERNS", "DSL_FUSION_PATTERNS",
            "DSL_LOCAL_PATTERNS", "DSL_UNICODE_PATTERNS"}, Text("default",
            "error"))
    @@ Each({"SELECTOR_WINDOW", "SELECTOR_MIN_SAMPLES", "SELECTOR_REFRESH"},
            Floored)

\* Costs, fusion agreement and the arbiter cache (lines 1536-1674).
LoadFusion ==
    Each({"PROVIDER_TAIL_WEIGHT"}, InUnitInterval)
    @@ Each({"FRONTIER_COST_PER_1K", "ZAI_COST_PER_1K",
            "COST_BASELINE_RATE_PER_1K", "ARBITER_CACHE_MAX_ENTRIES",
            "CACHE_WARM_LIMIT"}, Floored)
    @@ Each({"COST_BASELINE_PROVIDER", "COST_BASELINE_MODEL"}, Word)
    @@ Each({"COST_USE_OUTPUT_TOKENS", "AZURE_CONTENT_FILTER_ENABLED",
            "CACHE_WARM_ON_BOOT"}, EnvBool)
    @@ Each({"ANTHROPIC_CACHE_MIN_SYSTEM_CHARS",
            "FUSION_AGREEMENT_THRESHOLD", "ARBITER_CACHE_TTL"}, Kept)
    @@ Each({"FUSION_PROGRESSIVE"}, Switch)
    @@ Each({"FUSION_SIMILARITY_MODE"}, Lax)
    @@ Each({"ROUTING_CONFIDENCE_DB"}, Text("empty", "odd"))

\* Routing confidence, the SLM cache and the health pollers (lines 1676-1811).
LoadCaches ==
    Each({"ROUTING_CONFIDENCE_FLOOR", "ROUTING_CONFIDENCE_CEILING",
            "ROUTING_CONFIDENCE_MIN_SAMPLES", "ROUTING_CONFIDENCE_WINDOW",
            "SLM_CACHE_TTL", "HEALTH_POLL_INTERVAL",
            "HEALTH_BREAKER_THRESHOLD", "HEALTH_PROBE_TIMEOUT",
            "FRONTIER_HEALTH_POLL_INTERVAL"}, Kept)
    @@ Each({"SLMCACHE_SIMILARITY_THRESHOLD"}, Clamped)
    @@ Each({"SLMCACHE_MAX_STALE", "SLMCACHE_STALE_CLEANUP_THRESHOLD",
            "SLMCACHE_SEMANTIC_SCAN_LIMIT", "SLM_CACHE_WARM_LIMIT"},
            Floored)
    @@ Each({"SLM_CACHE_WARM_ON_BOOT"}, EnvBool)

\* Frontier health, the VRAM probe, local slots and body size (lines 1813-1953).
LoadProbes ==
    Each({"FRONTIER_HEALTH_BREAKER_THRESHOLD", "FRONTIER_HEALTH_TIMEOUT",
            "PROBE_INTERVAL", "PROBE_TIMEOUT", "MAX_BODY_BYTES"}, Kept)
    @@ Each({"PROBE_BYTES_PER_TOKEN", "PROBE_THERMAL_THRESHOLD",
            "PROBE_NVIDIA_INTERVAL", "LOCAL_MAX_CONCURRENT",
            "LOCAL_COOLDOWN"}, Floored)
    @@ Each({"LOCAL_VRAM_BYTES_PER_SLOT"}, NegativeIsDefault)
    @@ Each({"SERVER_READ_TIMEOUT", "SERVER_WRITE_TIMEOUT"}, NotNegative)

\* Server timeouts, TLS and the judge (lines 1955-2086).
LoadServer ==
    Each({"SERVER_IDLE_TIMEOUT", "SERVER_MAX_HEADER_BYTES"}, NotNegative)
    @@ Each({"TLS_ENABLED", "JUDGE_ADAPTIVE_ENABLED"}, EnvBool)
    @@ Each({"TLS_CLIENT_CA_FILE", "JUDGE_URL", "JUDGE_MODEL",
            "JUDGE_API_KEY"}, Word)
    @@ Each({"SHUTDOWN_TIMEOUT"}, ZeroIsDefault)
    @@ Each({"JUDGE_SAMPLE_RATE", "JUDGE_FRONTIER_SAMPLE_RATE",
            "JUDGE_CONCURRENCY", "JUDGE_QUEUE", "JUDGE_TIMEOUT",
            "JUDGE_COST_PER_1K", "JUDGE_ADAPTIVE_WINDOW",
            "JUDGE_ADAPTIVE_HIGH_CONFIDENCE",
            "JUDGE_ADAPTIVE_LOW_CONFIDENCE"}, Kept)
    @@ Each({"JUDGE_DB"}, Text("empty", "odd"))

\* Quality checks, logging, debugging, models and dashboard (lines 2098-2236).
LoadSurface ==
    Each({"QUALITY_CONCURRENCY", "QUALITY_QUEUE", "QUALITY_TIMEOUT",
            "QUALITY_STDERR_CAP", "QUALITY_DROPPED_RING_SIZE",
            "DEBUG_BODY_BYTES", "MODELS_CACHE_TTL"}, Kept)
    @@ Each({"LOG_LEVEL", "LOG_FORMAT", "PROMPT_INJECTION_MODE",
            "INJECTION_SCAN_ROLES"}, Lax)
    @@ Each({"DEBUG", "DEBUG_PPROF_ENABLED", "MODELS_ENDPOINT",
            "MODEL_ALIASES_STRICT", "DASHBOARD_ENDPOINT",
            "DASHBOARD_PUBLIC"}, Switch)
    @@ Each({"DEBUG_PPROF_API_KEY"}, Text("empty", "odd"))
    @@ Each({"MODEL_ALIASES", "TRUSTED_PROXIES"}, Choice)
    @@ Each({"DASHBOARD_PATH"}, Word)

\* Allow list, budget and rate limits (lines 2249-2389).
LoadLimits ==
    Each({"ALLOW_CIDRS"}, Choice)
    @@ Each({"ALLOW_CIDRS_STRICT"}, EnvBool)
    @@ Each({"BUDGET_DAILY_LIMIT", "RATE_LIMIT_RPM", "RATE_LIMIT_BURST",
            "AUTH_RATE_LIMIT_RPM", "AUTH_RATE_LIMIT_BURST",
            "AUTH_RATE_LIMIT_WINDOW"}, Floored)
    @@ Each({"BUDGET_ALERT_ENABLED", "RATE_LIMIT_BY_API_KEY"}, Switch)
    @@ Each({"BUDGET_ALERT_THRESHOLD"}, Clamped)
    @@ Each({"BUDGET_ALERT_WEBHOOK_URL", "READINESS_MODE", "INIT_PROFILE"},
            Word)
    @@ Each({"MAX_RESPONSE_BYTES", "CASCADE_MAX_RESPONSE_BYTES",
            "POOL_BUFFER_MAX_BYTES"}, Kept)
    @@ Each({"TRACING_ENDPOINT"}, Text("empty", "odd"))

\* Tracing, metrics export, redaction, egress and audit (lines 2391-2481).
LoadTracing ==
    Each({"TRACING_TIMEOUT", "OTEL_METRICS_TIMEOUT"}, NotNegative)
    @@ Each({"TRACING_QUEUE_SIZE"}, Rule("default", "zero", "over", "zero"))
    @@ Each({"TRACING_BATCH_SIZE"}, Rule("default", "default", "over",
            "default"))
    @@ Each({"TRACING_SAMPLE_RATE"}, Rule("zero", "zero", "one", "zero"))
    @@ Each({"LOG_TRACE_ID", "METRICS_EXEMPLARS", "REDACT_ENABLED",
            "EGRESS_BLOCK_PRIVATE", "AUDIT_ENABLED"}, EnvBool)
    @@ Each({"OTEL_METRICS_ENDPOINT", "REDACT_PATTERNS", "EGRESS_ALLOW",
            "AUDIT_PATH"}, Text("empty", "odd"))
    @@ Each({"OTEL_METRICS_INTERVAL"}, Positive)
    @@ Each({"REDACT_PROFILE", "AUDIT_SYNC"}, Word)
    @@ Each({"REDACT_BUFFER_BYTES"}, NegativeIsDefault)

LoadRules ==
    LoadEndpoints @@ LoadStore @@ LoadRetrieval @@ LoadRouting @@ LoadFusion @@ LoadCaches
    @@ LoadProbes @@ LoadServer @@ LoadSurface @@ LoadLimits @@ LoadTracing

Names == DOMAIN LoadRules

\* The settings Load also looks up in the configuration file; every other key of
\* the file is ignored by the server.
FileWords ==
    {"ADDR", "OLLAMA_URL", "ROUTER_MODEL", "LOCAL_MODEL", "EMBEDDING_MODEL", "FRONTIER_URL",
     "FRONTIER_MODEL", "ZAI_URL", "ZAI_MODEL", "AUTH_MODE", "OIDC_JWKS_URL", "OIDC_ISSUER",
     "OIDC_AUDIENCE", "EXAMPLES_DIR", "MIDDLEWARE_CHAIN", "METRICS_DB"}
FileSwitches == {"STATUS_PUBLIC", "TOON_UNFENCED", "RAG_RECURSIVE"}

\* Load's getFileString: a non-empty variable, else a non-empty file value.
getFileString(s, env, file) ==
    IF env \in {"unset", "empty"} /\ file \in {"word", "odd"} THEN file ELSE LoadRules[s][env]

\* Load's getFileBool: a file value it can read, else the variable.
getFileBool(s, env, file) ==
    CASE file \in {"true", "digit", "yes"} -> "true"
      [] file \in {"false", "no"} -> "false"
      [] OTHER -> LoadRules[s][env]

\* The telemetry path: any variable that is set, else any file value.
telemetryPath(env, file) ==
    IF env = "unset" /\ file # "unset" THEN file ELSE LoadRules["TELEMETRY_PATH"][env]

\* Config.Validate: enumerated settings must hold one of their values in the end.
Checked == {"READINESS_MODE", "SECRET_BACKEND", "REDACT_PROFILE", "AUTH_MODE", "EGRESS_ALLOW"}
Validate(s, v) == IF s \in Checked /\ v = "odd" THEN "error" ELSE v

\* Load: a file LoadFile refuses (a nested section) stops everything.
Load(s, env, file, layout) ==
    IF layout = "nested" THEN "error"
    ELSE Validate(s, CASE s \in FileWords -> getFileString(s, env, file)
                       [] s \in FileSwitches -> getFileBool(s, env, file)
                       [] s = "TELEMETRY_PATH" -> telemetryPath(env, file)
                       [] OTHER -> LoadRules[s][env])

-----------------------------------------------------------------------------
(* The settings as config.LoadYAML reads them (internal/config/yaml.go):   *)
(* the file's fields first, then the environment on top.  This is the      *)
(* loader behind `nexus config validate`; the server itself uses Load.     *)

\* Server, logging and model names (lines 380-518).
YAMLServer ==
    Each({"ADDR", "TLS_CLIENT_CA_FILE", "DEBUG_PPROF_API_KEY",
            "OLLAMA_URL", "ROUTER_MODEL", "LOCAL_MODEL", "EMBEDDING_MODEL",
            "FRONTIER_URL", "FRONTIER_MODEL"}, Word)
    @@ Each({"SERVER_READ_TIMEOUT", "SERVER_WRITE_TIMEOUT",
            "SERVER_IDLE_TIMEOUT", "SERVER_MAX_HEADER_BYTES",
            "TRACING_TIMEOUT"}, NotNegative)
    @@ Each({"MAX_BODY_BYTES", "MAX_RESPONSE_BYTES", "DEBUG_BODY_BYTES"},
            Kept)
    @@ Each({"SHUTDOWN_TIMEOUT"}, ZeroIsDefault)
    @@ Each({"TLS_ENABLED", "DEBUG", "DEBUG_PPROF_ENABLED"}, Switch)
    @@ Each({"LOG_LEVEL"}, Choice)
    @@ Each({"LOG_FORMAT"}, Lax)

\* Keys, authentication, costs and budget (lines 519-656).
YAMLProviders ==
    Each({"FRONTIER_API_KEY", "ZAI_URL", "ZAI_MODEL", "ZAI_API_KEY",
            "PROXY_API_KEY", "API_KEYS_FILE", "AUTH_MODE", "OIDC_JWKS_URL",
            "OIDC_ISSUER", "OIDC_AUDIENCE", "COST_BASELINE_PROVIDER",
            "COST_BASELINE_MODEL", "BUDGET_ALERT_WEBHOOK_URL"}, Word)
    @@ Each({"FRONTIER_COST_PER_1K", "ZAI_COST_PER_1K",
            "COST_BASELINE_RATE_PER_1K", "BUDGET_DAILY_LIMIT",
            "SELECTOR_WINDOW"}, Floored)
    @@ Each({"STATUS_PUBLIC", "COST_USE_OUTPUT_TOKENS",
            "AZURE_CONTENT_FILTER_ENABLED", "BUDGET_ALERT_ENABLED"}, Switch)
    @@ Each({"OIDC_JWKS_REFRESH", "ANTHROPIC_CACHE_MIN_SYSTEM_CHARS"}, Kept)
    @@ Each({"BUDGET_ALERT_THRESHOLD"}, Clamped)

\* Selector and retrieval (lines 657-791).
YAMLRetrieval ==
    Each({"SELECTOR_MIN_SAMPLES", "SELECTOR_REFRESH",
            "RAG_POLL_INTERVAL", "RAG_BATCH_SIZE", "RAG_CHUNK_TOKENS"},
            Floored)
    @@ Each({"PROVIDER_TAIL_WEIGHT"}, InUnitInterval)
    @@ Each({"EXAMPLES_DIR", "EMBEDDER_TYPE", "EMBEDDER_BASE_URL",
            "COHERE_API_KEY", "RAG_DB", "RAG_FILE_EXTENSIONS",
            "RAG_EXCLUDE_PATTERNS"}, Word)
    @@ Each({"RAG_THRESHOLD", "RAG_EMBED_CACHE_SIZE", "RAG_EMBED_CACHE_TTL",
            "RAG_EMBED_CACHE_WAIT_TIMEOUT"}, Kept)
    @@ Each({"RAG_RECURSIVE"}, Switch)
    @@ Each({"RAG_TOP_K"}, AtLeastOne)
    @@ Each({"RAG_MAX_INJECTION_TOKENS"}, Positive)

\* Retrieval limits and the SLM cache (lines 793-931).
YAMLCaches ==
    Each({"RAG_DEDUP_THRESHOLD", "SLMCACHE_SIMILARITY_THRESHOLD",
            "DSL_PROMOTION_CONFIDENCE"}, Clamped)
    @@ Each({"RAG_DEDUP_CROSS_DIR", "SLM_TOKEN_HINT"}, Literal)
    @@ Each({"RAG_HYBRID_WEIGHT", "DIAG_RAG_MIN_FILES", "TOKEN_GUARDRAIL",
            "SLM_TIMEOUT", "SLM_CACHE_TTL", "DSL_PROMOTION_MIN_SAMPLES"},
            Kept)
    @@ Each({"SLM_CACHE_MAX_ENTRIES", "SLMCACHE_MAX_STALE",
            "SLMCACHE_STALE_CLEANUP_THRESHOLD",
            "SLMCACHE_SEMANTIC_SCAN_LIMIT", "SLM_CACHE_WARM_LIMIT"},
            Floored)
    @@ Each({"SLM_CACHE_WARM_ON_BOOT"}, Strict)

\* Timeouts, coalescing, failover and fusion (lines 932-1066).
YAMLTimeouts ==
    Each({"DSL_PROMOTION_INTERVAL", "FUSION_TIMEOUT",
            "FUSION_LOCAL_TIMEOUT", "FUSION_FRONTIER_TIMEOUT",
            "CASCADE_TIMEOUT", "CASCADE_TIMEOUT_FLOOR",
            "CASCADE_TIMEOUT_CEILING", "CASCADE_TIMEOUT_PER_1K_TOKENS",
            "COALESCE_TTL", "COALESCE_MAX_ENTRIES", "ARBITER_TIMEOUT",
            "FRONTIER_FAILOVER_MAX_ATTEMPTS", "CASCADE_MAX_RESPONSE_BYTES",
            "POOL_BUFFER_MAX_BYTES"}, Kept)
    @@ Each({"COALESCE_ENABLED"}, Literal)
    @@ Each({"FRONTIER_FAILOVER"}, Strict)
    @@ Each({"FUSION_PROGRESSIVE"}, Switch)
    @@ Each({"FUSION_AGREEMENT_THRESHOLD"}, InUnitInterval)
    @@ Each({"FUSION_SIMILARITY_MODE"}, Choice)

\* Arbiter cache, health pollers and probe (lines 1067-1201).
YAMLHealth ==
    Each({"ARBITER_CACHE_TTL", "HEALTH_POLL_INTERVAL",
            "HEALTH_BREAKER_THRESHOLD", "HEALTH_PROBE_TIMEOUT",
            "FRONTIER_HEALTH_POLL_INTERVAL",
            "FRONTIER_HEALTH_BREAKER_THRESHOLD", "FRONTIER_HEALTH_TIMEOUT",
            "PROBE_INTERVAL", "PROBE_TIMEOUT"}, Kept)
    @@ Each({"ARBITER_CACHE_MAX_ENTRIES", "CACHE_WARM_LIMIT",
            "PROBE_BYTES_PER_TOKEN", "PROBE_THERMAL_THRESHOLD",
            "PROBE_NVIDIA_INTERVAL"}, Floored)
    @@ Each({"CACHE_WARM_ON_BOOT"}, Strict)
    @@ Each({"READINESS_MODE"}, Word)

\* Local slots, judge and routing confidence (lines 1204-1339).
YAMLJudge ==
    Each({"LOCAL_MAX_CONCURRENT", "LOCAL_COOLDOWN"}, Floored)
    @@ Each({"LOCAL_VRAM_BYTES_PER_SLOT"}, NegativeIsDefault)
    @@ Each({"JUDGE_URL", "JUDGE_MODEL", "JUDGE_API_KEY", "JUDGE_DB",
            "ROUTING_CONFIDENCE_DB"}, Word)
    @@ Each({"JUDGE_SAMPLE_RATE", "JUDGE_FRONTIER_SAMPLE_RATE",
            "JUDGE_CONCURRENCY", "JUDGE_QUEUE", "JUDGE_TIMEOUT",
            "JUDGE_COST_PER_1K", "ROUTING_CONFIDENCE_FLOOR",
            "ROUTING_CONFIDENCE_CEILING", "ROUTING_CONFIDENCE_MIN_SAMPLES",
            "ROUTING_CONFIDENCE_WINDOW", "ROUTING_CONTEXT_TURNS",
            "ROUTING_CONTEXT_CHARS"}, Kept)

\* Quality checks, prompts, telemetry and metrics (lines 1342-1477).
YAMLQuality ==
    Each({"QUALITY_CONCURRENCY", "QUALITY_QUEUE", "QUALITY_TIMEOUT",
            "QUALITY_STDERR_CAP", "QUALITY_DROPPED_RING_SIZE",
            "MODELS_CACHE_TTL"}, Kept)
    @@ Each({"META_PROMPT", "TOON_NOTICE", "TELEMETRY_PATH", "METRICS_DB"},
            Word)
    @@ Each({"TOON_UNFENCED", "MODELS_ENDPOINT"}, Switch)
    @@ Each({"PROMPT_INJECTION_MODE", "INJECTION_SCAN_ROLES"}, Lax)
    @@ Each({"TELEMETRY_MAX_BYTES", "TELEMETRY_MAX_FILES",
            "TELEMETRY_BUFFER_SIZE", "TELEMETRY_FLUSH_INTERVAL",
            "METRICS_BATCH_TIMEOUT", "TRACING_RETRY_BASE_DELAY",
            "TRACING_RETRY_MAX_DELAY"}, Rule("neg", "zero", "over",
            "ignored"))
    @@ Each({"METRICS_RETENTION_DAYS", "METRICS_BATCH_SIZE",
            "TRACING_MAX_RETRIES"}, Rule("ignored", "ignored", "over",
            "ignored"))

\* Models, dashboard, allow list, rate limits and tracing (lines 1480-1617).
YAMLSurface ==
    Each({"MODEL_ALIASES", "TRUSTED_PROXIES", "ALLOW_CIDRS"}, Choice)
    @@ Each({"MODEL_ALIASES_STRICT", "DASHBOARD_ENDPOINT",
            "DASHBOARD_PUBLIC", "ALLOW_CIDRS_STRICT"}, Switch)
    @@ Each({"DASHBOARD_PATH", "TRACING_ENDPOINT"}, Word)
    @@ Each({"RATE_LIMIT_RPM", "RATE_LIMIT_BURST", "AUTH_RATE_LIMIT_RPM",
            "AUTH_RATE_LIMIT_BURST", "AUTH_RATE_LIMIT_WINDOW"}, Floored)
    @@ Each({"RATE_LIMIT_BY_API_KEY"}, Literal)
    @@ Each({"TRACING_QUEUE_SIZE"}, NegativeIsDefault)
    @@ Each({"TRACING_BATCH_SIZE"}, Positive)

\* Sampling, export, redaction, secrets and audit (lines 1618-1732).
YAMLTracing ==
    Each({"TRACING_SAMPLE_RATE"}, Clamped)
    @@ Each({"LOG_TRACE_ID", "EGRESS_BLOCK_PRIVATE", "AUDIT_ENABLED"},
            Switch)
    @@ Each({"METRICS_EXEMPLARS"}, Strict)
    @@ Each({"OTEL_METRICS_ENDPOINT", "REDACT_PROFILE", "REDACT_PATTERNS",
            "EGRESS_ALLOW", "SECRET_BACKEND", "VAULT_ADDR", "VAULT_TOKEN",
            "VAULT_ROLE", "VAULT_PATH", "AWSSM_PREFIX", "AUDIT_PATH",
            "AUDIT_SYNC"}, Word)
    @@ Each({"OTEL_METRICS_INTERVAL"}, Positive)
    @@ Each({"OTEL_METRICS_TIMEOUT"}, NegativeIsDefault)
    @@ Each({"REDACT_ENABLED"}, OnlyTrue)
    @@ Each({"REDACT_BUFFER_BYTES", "SECRET_REFRESH"}, Kept)

YAMLRules ==
    YAMLServer @@ YAMLProviders @@ YAMLRetrieval @@ YAMLCaches @@ YAMLTimeouts @@ YAMLHealth
    @@ YAMLJudge @@ YAMLQuality @@ YAMLSurface @@ YAMLTracing

\* Settings that LoadYAML takes from neither the environment nor the file.
Unread ==
    {"RAG_CIRCUIT_BREAKER_THRESHOLD", "RAG_CIRCUIT_BREAKER_COOLDOWN", "SLM_CONFIDENCE_THRESHOLD",
     "DSL_FORMATTING_PATTERNS", "DSL_FUSION_PATTERNS", "DSL_LOCAL_PATTERNS",
     "DSL_UNICODE_PATTERNS", "INIT_PROFILE", "MIDDLEWARE_CHAIN"}

\* Fields of the file that are text holding a duration.
Durations ==
    {"SECRET_REFRESH", "OIDC_JWKS_REFRESH", "TELEMETRY_FLUSH_INTERVAL",
     "METRICS_BATCH_TIMEOUT", "TRACING_RETRY_BASE_DELAY", "TRACING_RETRY_MAX_DELAY",
     "RAG_POLL_INTERVAL", "RAG_EMBED_CACHE_TTL", "RAG_EMBED_CACHE_WAIT_TIMEOUT",
     "SLM_TIMEOUT", "FUSION_TIMEOUT", "FUSION_LOCAL_TIMEOUT", "FUSION_FRONTIER_TIMEOUT",
     "CASCADE_TIMEOUT", "CASCADE_TIMEOUT_FLOOR", "CASCADE_TIMEOUT_CEILING",
     "CASCADE_TIMEOUT_PER_1K_TOKENS", "COALESCE_TTL", "ARBITER_TIMEOUT",
     "DSL_PROMOTION_INTERVAL", "SELECTOR_WINDOW", "SELECTOR_REFRESH", "ARBITER_CACHE_TTL",
     "ROUTING_CONFIDENCE_WINDOW", "SLM_CACHE_TTL", "HEALTH_POLL_INTERVAL",
     "HEALTH_PROBE_TIMEOUT", "FRONTIER_HEALTH_POLL_INTERVAL", "FRONTIER_HEALTH_TIMEOUT",
     "PROBE_INTERVAL", "PROBE_TIMEOUT", "PROBE_NVIDIA_INTERVAL", "LOCAL_COOLDOWN",
     "SERVER_READ_TIMEOUT", "SERVER_WRITE_TIMEOUT", "SERVER_IDLE_TIMEOUT",
     "SHUTDOWN_TIMEOUT", "JUDGE_TIMEOUT", "JUDGE_ADAPTIVE_WINDOW", "QUALITY_TIMEOUT",
     "MODELS_CACHE_TTL", "AUTH_RATE_LIMIT_WINDOW", "TRACING_TIMEOUT",
     "OTEL_METRICS_INTERVAL", "OTEL_METRICS_TIMEOUT"}

\* durationDefault: what does not parse silently becomes the default.
durationDefault == Rule("neg", "zero", "over", "default")

\* intDefault and floatDefault: zero is taken for absent; a text does not unmarshal.
numberDefault == Rule("neg", "default", "over", "error")

\* A boolean field: the YAML 1.1 spellings, and a number or a text does not unmarshal.
boolField == [Flag("true", "true", "false", "error") EXCEPT !.digit = "error"]

\* boolFieldDefault never applies the default it is given.
boolFieldDefault == [boolField EXCEPT !.unset = "false"]
DefaultOn ==
    {"TOON_UNFENCED", "SLM_TOKEN_HINT", "FRONTIER_FAILOVER", "FUSION_PROGRESSIVE",
     "MODELS_ENDPOINT", "LOG_TRACE_ID"}

\* What validate refuses and clampFloat bounds among the fields.
NeverNegative ==
    {"SERVER_READ_TIMEOUT", "SERVER_WRITE_TIMEOUT", "SERVER_IDLE_TIMEOUT", "SERVER_MAX_HEADER_BYTES",
     "SHUTDOWN_TIMEOUT"}
Shares ==
    {"BUDGET_ALERT_THRESHOLD", "FUSION_AGREEMENT_THRESHOLD", "PROVIDER_TAIL_WEIGHT",
     "TRACING_SAMPLE_RATE", "ROUTING_CONFIDENCE_FLOOR", "ROUTING_CONFIDENCE_CEILING"}
Clamps == {"SLMCACHE_SIMILARITY_THRESHOLD", "DSL_PROMOTION_CONFIDENCE"}
validate(s, v) ==
    CASE s \in NeverNegative /\ v = "neg" -> "error"
      [] s \in Shares /\ v \in {"neg", "over"} -> "error"
      [] s = "FUSION_SIMILARITY_MODE" /\ v = "odd" -> "error"
      [] OTHER -> v

\* toConfig: the value a field of the file seeds.
toConfig(s, v) ==
    LET seed ==
          CASE s \in Durations -> durationDefault[v]
            [] s \in {"RAG_HYBRID_WEIGHT", "EGRESS_BLOCK_PRIVATE"} \union Unread -> "default"
            [] s = "READINESS_MODE" -> "default"
            [] s \in Clamps -> [numberDefault EXCEPT !.neg = "zero", !.over = "one"][v]
            [] s \in {"LOG_LEVEL", "TRUSTED_PROXIES", "ALLOW_CIDRS", "MODEL_ALIASES"} -> Choice[v]
            [] s \in {"LOG_FORMAT", "PROMPT_INJECTION_MODE", "INJECTION_SCAN_ROLES"} -> Lax[v]
            [] s \in DefaultOn -> boolFieldDefault[v]
            [] DOMAIN LoadRules[s] = DOMAIN Word -> Word[v]
            [] DOMAIN LoadRules[s] = DOMAIN Switch -> boolField[v]
            [] OTHER -> numberDefault[v]
    IN validate(s, seed)

\* Without the final Validate.
BugLoadYAML(s, env, file) ==
    LET seed == toConfig(s, file)
        set == env \notin {"unset", "empty"} /\ s \in DOMAIN YAMLRules
        over == IF set THEN YAMLRules[s][env] ELSE "ignored"
    IN IF over = "ignored" THEN seed ELSE over

\* LoadYAML: the file must pass whatever the environment says; then a variable that
\* is set and not ignored replaces the seed, and Validate has the last word.
LoadYAML(s, env, file) ==
    LET seed == toConfig(s, file)
        set == env \notin {"unset", "empty"} /\ s \in DOMAIN YAMLRules
        over == IF set THEN YAMLRules[s][env] ELSE "ignored"
    IN IF seed = "error" THEN "error" ELSE Validate(s, IF over = "ignored" THEN seed ELSE over)
=============================================================================
