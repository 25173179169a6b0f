---------------------------- MODULE MCSPAServer ----------------------------
(* Two requests that compete for one place of each path, and a log with    *)
(* room for one line.                                                      *)
EXTENDS SPAServer, TLC

CONSTANTS r1, r2

MCLimit == [p \in Paths |-> 1]

ServerConfig(level, body, slow, first, second) ==
    [level |-> level, body |-> body, slow |-> slow, path |-> (r1 :> first @@ r2 :> second)]

MCServerConfigs ==
    {ServerConfig("error", TRUE, FALSE, "proxy", "proxy"),
     ServerConfig("error", FALSE, FALSE, "auth", "auth"),
     ServerConfig("info", FALSE, TRUE, "proxy", "none"),
     ServerConfig("debug", TRUE, FALSE, "auth", "none")}
=============================================================================
