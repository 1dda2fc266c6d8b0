----------------------------- MODULE AsenaServer ------------------------------
(***************************************************************************)
(* The process and what it survives: cmd/startasena.go from the static     *)
(* configuration to the server, with the settings deciding how it serves.  *)
(* Kills, SIGHUPs that are not caught and restarts (by systemd/asena.      *)
(* service or by hand) may come at any point.                              *)
(***************************************************************************)
EXTENDS StaticConfig, Certificates

ASSUME AsenaServerAssumption ==
  {"enable_https", "tls_files"} \subseteq Setting /\ Unset # "on"

VARIABLE fellback       \* the initial load failed (not in the code)

serverVars == <<staticVars, certVars, fellback>>

(* main hands the settings to ServeHTTPS.  Between the two it loads the     *)
(* dynamic configuration, which may be fatal: Kill has that end.            *)
Serve ==
  /\ stage = "configured"
  /\ stage' = "serving"
  /\ ServeHTTPS(cfg["enable_https"] = "on", cfg["tls_files"])
  /\ fellback' = FALSE
  /\ UNCHANGED <<file, cfg, flags, intended, intact, promised>>

LoadOrReload ==
  /\ Reloading
  /\ fellback' = (fellback \/ (mode = "starting" /\ mode' = "http"))
  /\ UNCHANGED staticVars

Kill ==
  /\ Die
  /\ Reset
  /\ UNCHANGED fellback

(* SIGHUP: with nobody waiting for it, it ends the process.                 *)
Sighup ==
  IF notified
  THEN Hangup /\ UNCHANGED <<staticVars, fellback>>
  ELSE Kill

AsenaServerInit == StaticInit /\ CertInit /\ fellback = FALSE

AsenaServerNext ==
  \/ (Boot \/ \E opts \in Flags : Start(opts)) /\ UNCHANGED <<certVars, fellback>>
  \/ Serve
  \/ LoadOrReload
  \/ Kill
  \/ Sighup
  \/ Save /\ UNCHANGED <<certVars, fellback>>
  \/ Renewal /\ UNCHANGED <<staticVars, fellback>>

\* The goroutines of a running process are scheduled.
AsenaServerSpec ==
  AsenaServerInit /\ [][AsenaServerNext]_serverVars /\ WF_serverVars(LoadOrReload)

-------------------------------------------------------------------------------

\* The variables range over the values the code gives them; in particular main
\* dereferences no setting that is not there.
AsenaServerTypeOK ==
  /\ file \in [Setting -> Value] \cup {Malformed}
  /\ stage \in {"down", "reading", "writing", "encoding", "configured", "serving"}
  /\ stage \in {"configured", "serving"} => \A s \in Setting : cfg[s] # Unset
  /\ mode \in {"off", "starting", "http", "https"}
  /\ loader \in {"idle", "stat", "cert", "key"}
  /\ manager \in [Part -> 0 .. issued]
  /\ stage # "serving" => mode = "off" /\ manager = NoPair /\ ~notified

\* ADR-0006: plain HTTP on a deployment that is configured for HTTPS is the
\* fallback of a failed initial load and nothing else, after any number of
\* kills and restarts; but a write back that was cut short breaks the promise,
\* for the defaults say HTTP.
PlainOnlyByFallback ==
  stage = "serving" /\ mode = "http" /\ promised["enable_https"] = "on" => fellback

===============================================================================
