--------------------------- MODULE RequirementMapper ---------------------------
(***************************************************************************)
(* MapRequirements (internal/iacserver_mapper.go): which requirements of   *)
(* an application the plugin accepts, and the collector it derives for all *)
(* of them together.  The collector's configuration is written to a        *)
(* string; here it is what that string declares and refers to.  Keys,      *)
(* messages, image, size and values of variables are left out, and so is   *)
(* the order of requirements and exporters.                                *)
(***************************************************************************)
CONSTANTS
  RequirementSets,  \* requests of applications
  Unspecified       \* the zero of an enumeration, "" as a hint

Signals  == {"traces", "metrics", "logs"}
Backends == {"otel", "datadog", "prometheus", "loki", "grafana"}
CollectorType == "infra.container_service"

ASSUME MapperAssumption == Unspecified \notin Signals \cup Backends

\* A requirement allows every runtime and mode if it names none.
awsRequirementAllowsRuntime(r, runtime) == r.runtimes = {} \/ runtime \in r.runtimes

awsRequirementAllowsDeploymentMode(r) ==
  r.modes = {} \/ r.modes \cap {"sidecar", "sibling_service", "managed"} # {}

awsRejectUnsupportedRequirement(runtime, r) ==
  \/ r.kind # "observability"
  \/ r.hint \notin {Unspecified, CollectorType}
  \/ runtime # "ecs"
  \/ ~awsRequirementAllowsRuntime(r, runtime)
  \/ ~awsRequirementAllowsDeploymentMode(r)

Accepted(runtime, reqs) == {r \in reqs : ~awsRejectUnsupportedRequirement(runtime, r)}

\* One default for all requirements together.
awsRequestedSignals(reqs) ==
  LET some == (UNION {r.signals : r \in reqs}) \ {Unspecified}
  IN IF some = {} THEN Signals ELSE some

awsRequestedBackends(reqs) ==
  LET some == (UNION {r.backends : r \in reqs}) \ {Unspecified}
  IN IF some = {} THEN {"otel"} ELSE some

\* The exporters that the configuration declares.
awsWriteExporters(backends) ==
  {e \in {"otlp", "datadog", "prometheus", "loki", "otlp/grafana_otlp"} :
     \/ e = "otlp"              /\ "otel" \in backends
     \/ e = "datadog"           /\ "datadog" \in backends
     \/ e = "prometheus"        /\ "prometheus" \in backends
     \/ e = "loki"              /\ "loki" \in backends
     \/ e = "otlp/grafana_otlp" /\ "grafana" \in backends}

\* The variables that they refer to.
References(exporters) ==
  {v \in {"OTEL_EXPORTER_OTLP_ENDPOINT", "DD_API_KEY", "DD_SITE", "LOKI_ENDPOINT",
          "GRAFANA_OTLP_ENDPOINT", "GRAFANA_OTLP_HEADERS"} :
     \/ v = "OTEL_EXPORTER_OTLP_ENDPOINT" /\ "otlp" \in exporters
     \/ v \in {"DD_API_KEY", "DD_SITE"}   /\ "datadog" \in exporters
     \/ v = "LOKI_ENDPOINT"               /\ "loki" \in exporters
     \/ v \in {"GRAFANA_OTLP_ENDPOINT", "GRAFANA_OTLP_HEADERS"}
          /\ "otlp/grafana_otlp" \in exporters}

\* (faulty variant) Every backend takes every signal but the metrics that
\* Prometheus takes.
awsExportersForSignalAll(signal, backends) ==
  {e \in {"otlp", "datadog", "loki", "otlp/grafana_otlp"} :
     \/ e = "otlp"              /\ "otel" \in backends
     \/ e = "datadog"           /\ "datadog" \in backends
     \/ e = "loki"              /\ "loki" \in backends
     \/ e = "otlp/grafana_otlp" /\ "grafana" \in backends}

\* The exporters of a signal's pipeline.
awsExportersForSignal(signal, backends) ==
  {e \in {"otlp", "datadog", "prometheus", "loki", "otlp/grafana_otlp"} :
     \/ e = "otlp"              /\ "otel" \in backends
     \/ e = "datadog"           /\ "datadog" \in backends
     \/ e = "prometheus"        /\ "prometheus" \in backends /\ signal = "metrics"
     \/ e = "loki"              /\ "loki" \in backends /\ signal = "logs"
     \/ e = "otlp/grafana_otlp" /\ "grafana" \in backends}

\* A signal without an exporter gets no pipeline, nor does one of a later protocol.
awsBuildCollectorConfig(signals, backends) ==
  [exporters |-> awsWriteExporters(backends),
   pipelines |-> [s \in {x \in Signals \cap signals : awsExportersForSignal(x, backends) # {}} |->
                    awsExportersForSignal(s, backends)]]

\* The variables and secrets that the collector gets, and its ports.
envVars(backends) ==
  {v \in {"OTEL_EXPORTER_OTLP_ENDPOINT", "DD_SITE", "LOKI_ENDPOINT", "GRAFANA_OTLP_ENDPOINT"} :
     \/ v = "OTEL_EXPORTER_OTLP_ENDPOINT" /\ "otel" \in backends
     \/ v = "DD_SITE"                     /\ "datadog" \in backends
     \/ v = "LOKI_ENDPOINT"               /\ "loki" \in backends
     \/ v = "GRAFANA_OTLP_ENDPOINT"       /\ "grafana" \in backends}

secretVars(backends) ==
  {v \in {"DD_API_KEY", "GRAFANA_OTLP_HEADERS"} :
     \/ v = "DD_API_KEY"           /\ "datadog" \in backends
     \/ v = "GRAFANA_OTLP_HEADERS" /\ "grafana" \in backends}

awsCollectorPorts(backends) ==
  {4317, 4318} \cup (IF "prometheus" \in backends THEN {9464} ELSE {})

awsCollectorModuleConfig(reqs) ==
  LET backends == awsRequestedBackends(reqs)
  IN [config  |-> awsBuildCollectorConfig(awsRequestedSignals(reqs), backends),
      env     |-> envVars(backends),
      secrets |-> secretVars(backends),
      ports   |-> awsCollectorPorts(backends)]

\* What a backend can take: Prometheus metrics, Loki logs.
Carries(backend, signal) ==
  /\ backend = "prometheus" => signal = "metrics"
  /\ backend = "loki" => signal = "logs"

Exporter(backend) ==
  CASE backend = "otel"       -> "otlp"
    [] backend = "datadog"    -> "datadog"
    [] backend = "prometheus" -> "prometheus"
    [] backend = "loki"       -> "loki"
    [] backend = "grafana"    -> "otlp/grafana_otlp"

\* The collector's parts fit: its pipelines use exporters it declares, the variables
\* they refer to are set, Prometheus finds a port.
Consistent(module) ==
  /\ \A s \in DOMAIN module.config.pipelines :
       /\ module.config.pipelines[s] # {}
       /\ module.config.pipelines[s] \subseteq module.config.exporters
  /\ References(module.config.exporters) \subseteq module.env \cup module.secrets
  /\ "prometheus" \in module.config.exporters => 9464 \in module.ports

\* A collector without a pipeline does not start.
Starts(module) == DOMAIN module.config.pipelines # {}

\* What r asks for: what it names, or else what it is given with the others of reqs.
AskedSignals(r, reqs) ==
  IF r.signals \subseteq {Unspecified} THEN awsRequestedSignals(reqs) ELSE r.signals

AskedBackends(r, reqs) ==
  IF r.backends \subseteq {Unspecified} THEN awsRequestedBackends(reqs) ELSE r.backends

Serves(module, s, b) ==
  s \in DOMAIN module.config.pipelines /\ Exporter(b) \in module.config.pipelines[s]

\* Every signal that r asks for goes to every backend it asks for, but for the pairs
\* that no backend takes; those are accepted and get nothing.
Satisfies(module, r, reqs) ==
  \A s \in AskedSignals(r, reqs) \cap Signals, b \in AskedBackends(r, reqs) \cap Backends :
    Serves(module, s, b) <=> Carries(b, s)

\* Some signal that one of reqs asks for is carried by a backend that one asks for.
CanServe(reqs) ==
  \E p, q \in reqs :
    \E s \in AskedSignals(p, reqs) \cap Signals, b \in AskedBackends(q, reqs) \cap Backends :
      Carries(b, s)
=============================================================================
