------------------------------- MODULE MCHealth -------------------------------
(* Health of a site with two sources, one of them with a producer, and an app   *)
(* with a check of each type; verify.json names /api/health.                    *)
EXTENDS Health

CONSTANTS h1, h2, p1, s1, s2, n1, a1, kFile, kAuth, kField, kSelf

AllChecks == {kFile, kAuth, kField, kSelf}
OneApp == [k \in AllChecks |-> a1]

\* Everything there and as it should be.
Sound ==
  {<<f, None>> : f \in {"config", "siteUrl", "users", "botToken", "openclaw", "online",
                        "domainAccepted", "crontab", "dashboard", "html", "sources",
                        "rejectsDashboard", "rejectsSources", "deploy.sh", "bash", "velDir",
                        "service", ".git", "branch", "go", "go.mod", "summary",
                        "summaryValid", "summaryNoError", "noBak", "sessions",
                        "debugServer"}}
    \cup ({"file", "fresh", "script", "cron"} \X {s1, s2}) \cup {<<"pass", n1>>, <<"valid", a1>>}
    \cup ({"file", "refused", "status", "field"} \X AllChecks)

\* A data file is missing; no debug server; a verify.json that does not parse, or none.
FewWorlds == {Sound, Sound \ {<<"file", s1>>}, Sound \ {<<"debugServer", None>>},
              (Sound \ {<<"valid", a1>>}) \cup {<<"invalid", a1>>},
              Sound \ {<<"valid", a1>>}}

\* One request of any kind and one more to /api/health.
TwoRequests == [h \in {h1, h2} |-> IF h = h1 THEN {"health", "cli", "debug"} ELSE {"health"}]
=============================================================================
