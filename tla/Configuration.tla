--------------------------- MODULE Configuration ---------------------------
(***************************************************************************)
(* How raw settings become the configuration a process runs with.          *)
(*                                                                         *)
(* A layer is a partial function from setting names to raw values: the     *)
(* command line, the environment and the file.  A field nobody sets is in  *)
(* no domain, which is not the same as a field set to the empty value.     *)
(* Raw values are strings, except for two kinds whose parts matter: a path *)
(* is the sequence of its components ("/" first when it is absolute, <<>>  *)
(* when it is empty) and a repository is the sequence of what stands       *)
(* between its slashes.  One blank string stands for every value that only *)
(* trimming makes empty.                                                   *)
(***************************************************************************)
EXTENDS Integers, Sequences, FiniteSets, TLC

-----------------------------------------------------------------------------
(* The fields a file may hold, by the kind that reads them. *)

Proxies == {"HTTP_PROXY", "HTTPS_PROXY", "ALL_PROXY", "NO_PROXY"}
Alias == [HTTP_PROXY |-> "http_proxy", HTTPS_PROXY |-> "https_proxy",
          ALL_PROXY |-> "all_proxy", NO_PROXY |-> "no_proxy"]

PathFields == {"NODE_EXTRA_CA_CERTS", "PRTS_DATA_DIR", "PRTS_DATA_DB",
               "GAMEDATA_PATH", "STORYJSON_PATH", "PRTS_IMAGE_DIR"}
BoolFields == {"IMAGES_ENABLED", "LOCAL_IMAGE", "ORIGINAL_IMAGE",
               "PRTS_IMAGE_CACHE", "PRTS_METRICS_ENABLED"}
NumberFields == {"PORT", "PRTS_AUTO_SYNC_INTERVAL_SECONDS",
                 "SESSION_IDLE_TIMEOUT_MS"}
Options == [PRTS_TRANSPORT |-> {"http", "stdio"},
            PRTS_DATA_BACKEND |-> {"json", "sqlite"},
            PRTS_VALIDATION_MODE |-> {"normal", "strict"},
            PRTS_OUTPUT_CHANNEL |-> {"content", "structured", "both"}]
TextFields == Proxies \cup
    {"PRTS_CONTROL_ENDPOINT", "PRTS_INSTANCE_NAME", "HOST", "PRTS_DATA_SOURCE_REPO",
     "GITHUB_TOKEN", "GITHUB_MIRRORS", "PRTS_DEBUG_TOKEN"}
Fields == PathFields \cup BoolFields \cup NumberFields \cup DOMAIN Options \cup TextFields
Sensitive == {"GITHUB_TOKEN", "PRTS_DEBUG_TOKEN"}

-----------------------------------------------------------------------------
(* Raw values. *)

Trim(v) == IF v = " " THEN "" ELSE v
BlankPath(p) == p \in {<<>>, <<" ">>}
Lowered(v) == CASE v = "TRUE" -> "true" [] v = "STDIO" -> "stdio" [] v = "HTTP" -> "http"
                [] OTHER -> v

(* The numbers the instances spell; every other spelling is no number. *)
Numeric == ("0" :> 0) @@ ("30" :> 30) @@ ("60" :> 60) @@ ("120" :> 120)
           @@ ("3000" :> 3000) @@ ("0xbb8" :> 3000) @@ ("70000" :> 70000) @@ ("-5" :> -5)
Integral == DOMAIN Numeric \ {"0xbb8"}

(* An empty port is the number zero; what is no number, or negative, asks   *)
(* for any free port, and what is too large becomes the last one.           *)
BoundPort(raw) ==
    LET n == IF Trim(raw) = "" THEN 0
             ELSE IF raw \in DOMAIN Numeric THEN Numeric[raw] ELSE -1
    IN  IF n < 0 THEN 0 ELSE IF n > 65535 THEN 65535 ELSE n

Seconds(raw) ==
    IF raw \in Integral /\ (Numeric[raw] = 0 \/ Numeric[raw] \in 60..604800)
    THEN Numeric[raw] ELSE 3600

Idle(raw) == IF raw \in Integral /\ Numeric[raw] > 0 THEN {Numeric[raw]} ELSE {}

Truthy == {"1", "true", "yes", "on"}

(* Names of owners and repositories that GitHub accepts, in lower case, and *)
(* the component each one becomes in a path.                                *)
Small == ("3aKHP" :> "3akhp") @@ ("Team" :> "team")
LowerName(n) == IF n \in DOMAIN Small THEN Small[n] ELSE n
LegalOwners == {"3aKHP", "3akhp", "Team", "team", "con"}
LegalRepos == {"arknights-data-pipeline", "assets", "con", "repo."}
Escapes == ("con" :> "~636f6e") @@ ("repo." :> "~7265706f2e")
PathComponent(n) == IF n \in DOMAIN Escapes THEN Escapes[n] ELSE n

DefaultSource == <<"3akhp", "arknights-data-pipeline">>
SourceOk(raw) == \/ raw \in {<<>>, <<" ">>}
                 \/ Len(raw) = 2 /\ raw[1] \in LegalOwners /\ raw[2] \in LegalRepos
ParsedSource(raw) == IF raw \in {<<>>, <<" ">>} THEN DefaultSource
                     ELSE <<LowerName(raw[1]), LowerName(raw[2])>>

-----------------------------------------------------------------------------
(* What a file may say: the strict reading of one field. *)

ValidProxy == {"http://proxy"}
ValidEndpoint(v) == v \in {"/run/one.sock", "/run/two.sock"}
ValidInstance(v) == v \notin {"", " "}

(* Fault: the file is as lenient as the environment about the interval. *)

FieldOk(k, v) ==
    /\ k \in PathFields => ~BlankPath(v)
    /\ k \in DOMAIN Options => v \in Options[k]
    /\ k \in BoolFields => v \in {"true", "false"}
    /\ k = "PORT" => v \in Integral /\ Numeric[v] \in 0..65535
    /\ k = "PRTS_AUTO_SYNC_INTERVAL_SECONDS" =>
          v \in Integral /\ (Numeric[v] = 0 \/ Numeric[v] \in 60..604800)
    /\ k = "SESSION_IDLE_TIMEOUT_MS" => v \in Integral
    /\ k = "PRTS_DATA_SOURCE_REPO" => SourceOk(v)
    /\ k = "PRTS_INSTANCE_NAME" => ValidInstance(v)
    /\ k = "PRTS_CONTROL_ENDPOINT" => v = "" \/ ValidEndpoint(v)
    /\ k \in Proxies \ {"NO_PROXY"} => v = "" \/ v \in ValidProxy

(* A path that is not absolute means one beside the file. *)
Beside(dir, p) == IF p = <<>> \/ p[1] = "/" THEN p ELSE dir \o p

(* A file that can be read is a partial function on fields. *)
FileOk(file) == DOMAIN file \subseteq Fields /\ \A k \in DOMAIN file : FieldOk(k, file[k])
FileValues(dir, file) ==
    [k \in DOMAIN file |-> IF k \in PathFields THEN Beside(dir, file[k]) ELSE file[k]]

-----------------------------------------------------------------------------
(* The layers: arguments before environment before file.  A proxy variable  *)
(* may be spelt in lower case in the environment.                           *)

RuntimeEnvironment(env) ==
    env @@ [k \in {p \in Proxies : Alias[p] \in DOMAIN env} |-> env[Alias[k]]]

Settings(args, env, file) == args @@ RuntimeEnvironment(env) @@ file

(* The layer a report names for a field. *)
(* Fault: the lower-case spelling of a proxy is forgotten. *)

SourceOf(args, env, file, k) ==
    IF k \in DOMAIN args THEN "argument"
    ELSE IF k \in DOMAIN RuntimeEnvironment(env) THEN "environment"
    ELSE IF k \in DOMAIN file THEN "file" ELSE "default"

ValueOr(s, k, default) == IF k \in DOMAIN s THEN s[k] ELSE default
OneOf(s, k) == IF k \in DOMAIN s THEN {s[k]} ELSE {}

Given(s, k) == OneOf(s, k) \ {""}

Flag(s, k, default) ==
    IF k \in DOMAIN s THEN Lowered(Trim(s[k])) \in Truthy ELSE default

-----------------------------------------------------------------------------
(* Paths. *)

Parent(p) == IF p \in {<<>>, <<"/">>} THEN p ELSE SubSeq(p, 1, Len(p) - 1)
Container(s) == ValueOr(s, "PRTS_MCP_ROOT", <<>>) = <<"/", "app">>

DefaultBase(s) ==
    ValueOr(s, "XDG_DATA_HOME", ValueOr(s, "HOME", <<>>) \o <<".local", "share">>)
DefaultGamedata(s) ==
    IF Container(s) THEN <<"/", "data", "gamedata">>
    ELSE DefaultBase(s) \o <<"prts-mcp", "gamedata">>

(* Fault: the directory is named after the repository alone. *)

DataRoot(source, root) ==
    IF source = DefaultSource THEN root
    ELSE root \o <<"sources", PathComponent(source[1]), PathComponent(source[2])>>

Gamedata(s, source) ==
    ValueOr(s, "GAMEDATA_PATH", DataRoot(source, Parent(DefaultGamedata(s))) \o <<"gamedata">>)

(* "whole" is the set of roots that hold complete levels on the disk. *)
Levels(s, source, whole) ==
    LET gamedata == Gamedata(s, source)
        custom   == "GAMEDATA_PATH" \in DOMAIN s
        sibling  == Parent(gamedata) \o <<"gamedata-levels">>
    IN  IF custom /\ gamedata \in whole THEN gamedata
        ELSE IF ~custom /\ source = DefaultSource /\ Container(s)
             THEN <<"/", "data", "gamedata-levels">>
        ELSE sibling

Story(s, source) ==
    ValueOr(s, "STORYJSON_PATH",
            Parent(Gamedata(s, source)) \o <<"storyjson", "zh_CN.zip">>)
StorySync(s) == ValueOr(s, "STORYJSON_PATH", <<>>) = <<>>

Images(s, source) ==
    ValueOr(s, "PRTS_IMAGE_DIR", Parent(Gamedata(s, source)) \o <<"images">>)

Database(s, source) ==
    IF "PRTS_DATA_DIR" \in DOMAIN s /\ ~BlankPath(s["PRTS_DATA_DIR"])
    THEN s["PRTS_DATA_DIR"]
    ELSE IF "GAMEDATA_PATH" \in DOMAIN s THEN Gamedata(s, source) \o <<"database">>
    ELSE Parent(Gamedata(s, source)) \o <<"database">>

CustomDatabase(s) == {p \in OneOf(s, "PRTS_DATA_DB") : ~BlankPath(p)}

-----------------------------------------------------------------------------
(* The configuration. *)

Explicit(s) == {v \in {Trim(b) : b \in OneOf(s, "PRTS_DATA_BACKEND")} : v # ""}

BackendOk(s) == /\ Explicit(s) \subseteq {"json", "sqlite"}
                /\ ~("json" \in Explicit(s) /\ CustomDatabase(s) # {})

Backend(s) ==
    IF Explicit(s) # {} THEN CHOOSE b \in Explicit(s) : TRUE
    ELSE IF CustomDatabase(s) # {} THEN "sqlite"
    ELSE IF "GAMEDATA_PATH" \in DOMAIN s \/ ~StorySync(s) THEN "json"
    ELSE "sqlite"

(* Fault: a story archive of one's own does not count as a choice. *)

AllowFallback(s) == /\ Explicit(s) = {}
                    /\ CustomDatabase(s) = {}
                    /\ "GAMEDATA_PATH" \notin DOMAIN s
                    /\ StorySync(s)

SettingsOk(s) ==
    /\ SourceOk(ValueOr(s, "PRTS_DATA_SOURCE_REPO", <<>>))
    /\ BackendOk(s)
    /\ Trim(ValueOr(s, "PRTS_VALIDATION_MODE", "")) \in {"", "normal", "strict"}

Strict(s) == Trim(ValueOr(s, "PRTS_VALIDATION_MODE", "")) = "strict"
Mirrors(s) == {Trim(m) : m \in OneOf(s, "GITHUB_MIRRORS")} \ {""}
IdleLimit(s) == IF "SESSION_IDLE_TIMEOUT_MS" \in DOMAIN s
                THEN Idle(s["SESSION_IDLE_TIMEOUT_MS"]) ELSE {86400000}
ProxySettings(s) == [k \in Proxies \cap DOMAIN s |-> s[k]]

(* The typed configuration.  The proxies are kept as they were found, with  *)
(* a mark that tells whether the platform was asked as well.                *)
Resolve(s, whole, discovery) ==
    LET source == ParsedSource(ValueOr(s, "PRTS_DATA_SOURCE_REPO", <<>>))
    IN  [source    |-> source,
         backend   |-> Backend(s),
         fallback  |-> AllowFallback(s),
         strict    |-> Strict(s),
         database  |-> Database(s, source),
         custom    |-> CustomDatabase(s),
         gamedata  |-> Gamedata(s, source),
         ownJson   |-> "GAMEDATA_PATH" \in DOMAIN s,
         levels    |-> Levels(s, source, whole),
         story     |-> Story(s, source),
         storySync |-> StorySync(s),
         images    |-> Flag(s, "IMAGES_ENABLED", TRUE),
         local     |-> Flag(s, "LOCAL_IMAGE", FALSE),
         original  |-> Flag(s, "ORIGINAL_IMAGE", FALSE),
         cache     |-> Flag(s, "PRTS_IMAGE_CACHE", TRUE),
         artwork   |-> Images(s, source),
         interval  |-> Seconds(ValueOr(s, "PRTS_AUTO_SYNC_INTERVAL_SECONDS", "3600")),
         token     |-> Given(s, "GITHUB_TOKEN"),
         mirrors   |-> Mirrors(s),
         idle      |-> IdleLimit(s),
         channel   |-> LET c == Trim(ValueOr(s, "PRTS_OUTPUT_CHANNEL", "content"))
                       IN  IF c \in Options["PRTS_OUTPUT_CHANNEL"] THEN c ELSE "content",
         host      |-> ValueOr(s, "HOST", "0.0.0.0"),
         port      |-> OneOf(s, "PORT"),
         debug     |-> Given(s, "PRTS_DEBUG_TOKEN"),
         metrics   |-> ValueOr(s, "PRTS_METRICS_ENABLED", "false") = "true",
         instance  |-> ValueOr(s, "PRTS_INSTANCE_NAME", "main"),
         endpoint  |-> Given(s, "PRTS_CONTROL_ENDPOINT"),
         proxies   |-> ProxySettings(s),
         ca        |-> OneOf(s, "NODE_EXTRA_CA_CERTS"),
         discovery |-> discovery]

(* A profile may fix the transport whatever the setting says. *)
Transport(profile, s) ==
    LET asked == Lowered(Trim(ValueOr(s, "PRTS_TRANSPORT", "")))
    IN  CASE profile = "prts-mcp-ts-stdio" -> "stdio"
          [] profile = "prts-mcp-ghcr" -> IF asked = "http" THEN "http" ELSE "stdio"
          [] profile = "prts-mcp" -> IF asked = "stdio" THEN "stdio" ELSE "http"
          [] OTHER -> "http"

-----------------------------------------------------------------------------
(* What the configuration switches on. *)

Enabled(c) ==
    {w \in {"game", "story", "database", "images"} :
        CASE w = "game"     -> c.backend = "json" /\ ~c.ownJson
          [] w = "story"    -> c.backend = "json" /\ c.storySync
          [] w = "database" -> c.backend = "sqlite" /\ c.custom = {}
          [] w = "images"   -> c.images /\ c.local}

(* One-shot synchronization refuses a target that would do nothing. *)
TargetOk(c, target) ==
    LET images == target # "game"
        game   == IF c.backend = "sqlite" THEN c.custom = {} ELSE ~c.ownJson \/ c.storySync
    IN  /\ target \in {"game", "images", "all"}
        /\ images => c.images /\ c.local
        /\ images \/ game

(* The derived part of a report. *)
(* Fault: a database of one's own is reported as synchronized. *)

Reported(c) == [game   |-> IF c.backend = "sqlite" THEN c.custom = {} ELSE ~c.ownJson,
                story  |-> c.backend = "json" /\ c.storySync,
                images |-> c.images /\ c.local]

(* Fault: one's own tables are claimed for the source. *)

DataRoots(c) ==
    CASE c.backend = "json" ->
            (IF c.ownJson THEN {} ELSE {c.gamedata, c.levels})
            \cup (IF c.storySync THEN {Parent(c.story)} ELSE {})
      [] c.backend = "sqlite" -> IF c.custom = {} THEN {c.database} ELSE {}

SyncRoots(c) == DataRoots(c) \cup (IF c.images /\ c.local THEN {c.artwork} ELSE {})
=============================================================================
