----------------------------- MODULE ToolCalls ------------------------------
(***************************************************************************)
(* The tools as callers see them: their arguments (tools/zodish.rs and the *)
(* dispatchers of tools/*_tools.rs), the workers that run them on SQLite   *)
(* data (tools/mod.rs, text/cancellation.rs) and their results on the      *)
(* three output channels (tools/output.rs).                                *)
(*                                                                         *)
(* On SQLite data a tool waits for a permit of its class and then runs on  *)
(* a blocking thread, to its end, even when its caller has gone; a token   *)
(* the thread looks up tells it so.                                        *)
(***************************************************************************)
EXTENDS Integers, Sequences, FiniteSets

CONSTANTS
  Callers,    \* each with one call at a time
  Threads,    \* blocking threads
  Asked,      \* what they call: [tool, arguments]
  Backend,    \* "sqlite" or "json"
  Images,     \* is artwork enabled?
  Limit,      \* class of work -> permits
  MaxCalls    \* bound of the model

VARIABLES
  calling,    \* caller -> [pc, id, asked, answer]
  free,       \* class of work -> permits left
  queue,      \* closures no thread has taken yet: [id, asked]
  thread,     \* thread -> the closure it runs; Idle
  local,      \* thread -> its CURRENT token; 0: none
  dropped,    \* tokens set, by the calls they belong to
  ids         \* calls made
toolVars == <<calling, free, queue, thread, local, dropped, ids>>

-----------------------------------------------------------------------------
(* Arguments.  A value is a tuple of its JSON type and what it is; an      *)
(* integral number no i64 holds is "huge".                                 *)

Absent == <<"absent">>
None == <<"none">>
Unbounded == 1000000
Str(s) == <<"string", s>>
Num(n) == <<"int", n>>
Bool(b) == <<"boolean", b>>

\* What a validator makes of a value: an issue, or the value to use.
Takes(v) == [issue |-> FALSE, value |-> v]
Issue == [issue |-> TRUE, value |-> None]

String(v) == IF v = Absent THEN Takes(None) ELSE IF v[1] = "string" THEN Takes(v) ELSE Issue
required_string(v) == IF v = Absent THEN Issue ELSE String(v)
Option(v, f) == IF v[1] = "string" /\ v[2] \in f.options THEN Takes(v) ELSE Issue
enum_default(v, f) == IF v = Absent THEN Takes(Str(f.default)) ELSE Option(v, f)
optional_enum(v, f) == IF v = Absent THEN Takes(None) ELSE Option(v, f)
required_enum(v, f) == Option(v, f)
int_value(v) ==
  CASE v[1] = "int" -> Takes(v)
    [] v[1] = "huge" -> Takes(None)
    [] OTHER -> Issue
\* The bounds of a number.
Bounded(v, f) == IF v[2] < f.min \/ v[2] > f.max THEN Issue ELSE Takes(v)
int_default(v, f) ==
  IF v = Absent \/ int_value(v) = Takes(None) THEN Takes(Num(f.default))
  ELSE IF int_value(v).issue THEN Issue ELSE Bounded(v, f)
optional_int(v) == IF v = Absent THEN Takes(None) ELSE int_value(v)
nullish_int(v, f) ==
  IF v = Absent \/ v[1] = "null" \/ int_value(v) = Takes(None) THEN Takes(None)
  ELSE IF int_value(v).issue THEN Issue ELSE Bounded(v, f)
boolean_default(v, f) ==
  IF v = Absent THEN Takes(Bool(f.default)) ELSE IF v[1] = "boolean" THEN Takes(v) ELSE Issue

\* Fields of a schema.
Text(name) == [name |-> name, kind |-> "string"]
Required(name) == [name |-> name, kind |-> "required_string"]
Choice(name, options, default) ==
  [name |-> name, kind |-> "enum_default", options |-> options, default |-> default]
MayChoose(name, options) == [name |-> name, kind |-> "optional_enum", options |-> options]
MustChoose(name, options) == [name |-> name, kind |-> "required_enum", options |-> options]
Number(name, min, max, default) ==
  [name |-> name, kind |-> "int_default", min |-> min, max |-> max, default |-> default]
AnyNumber(name) == [name |-> name, kind |-> "optional_int"]
MayNumber(name, min, max) == [name |-> name, kind |-> "nullish_int", min |-> min, max |-> max]
Flag(name, default) == [name |-> name, kind |-> "boolean_default", default |-> default]

Validated(f, v) ==
  CASE f.kind = "string" -> String(v)
    [] f.kind = "required_string" -> required_string(v)
    [] f.kind = "enum_default" -> enum_default(v, f)
    [] f.kind = "optional_enum" -> optional_enum(v, f)
    [] f.kind = "required_enum" -> required_enum(v, f)
    [] f.kind = "int_default" -> int_default(v, f)
    [] f.kind = "optional_int" -> optional_int(v)
    [] f.kind = "nullish_int" -> nullish_int(v, f)
    [] f.kind = "boolean_default" -> boolean_default(v, f)

Given(arguments, name) == IF name \in DOMAIN arguments THEN arguments[name] ELSE Absent
Parsed(fields, arguments) ==
  [k \in DOMAIN fields |-> Validated(fields[k], Given(arguments, fields[k].name))]
\* finish: no field has an issue.
Finishes(fields, arguments) == \A k \in DOMAIN fields : ~Parsed(fields, arguments)[k].issue

-----------------------------------------------------------------------------
(* The tools: their fields, the archive they read and their results.       *)

Tool(fields, reads, result) == [fields |-> fields, reads |-> reads, result |-> result]
Limits == Number("limit", 1, 200, 50)
Offset == Number("offset", 0, Unbounded, 0)

search_prts == Tool(<<Required("query"), Number("limit", 1, 20, 5),
                      Choice("search_mode", {"text", "title"}, "text"),
                      Flag("filter_technical", TRUE)>>, "wiki", "structured")
prts_page ==
  Tool(<<Required("page_title"),
         MustChoose("action", {"read", "sections", "categories", "links", "template"}),
         AnyNumber("section_index"), Choice("direction", {"outbound", "inbound"}, "outbound"),
         Number("limit", 1, 100, 30)>>, "wiki", "text")
get_operator_archives == Tool(<<Required("name")>>, "excel", "text")
get_operator_voicelines == Tool(<<Required("name")>>, "excel", "text")
get_operator_basic_info ==
  Tool(<<Required("name"), Choice("action", {"basic", "skills", "stats"}, "basic"),
         MayNumber("phase", 0, 2), MayNumber("level", 1, Unbounded)>>, "excel", "summary")
list_enemies == Tool(<<Text("threat_level"), Limits, Offset, Flag("full", FALSE)>>, "excel", "structured")
get_enemy_info == Tool(<<Required("name"), Text("stage_id")>>, "excel", "summary")
get_stage_enemies == Tool(<<Required("stage_id")>>, "levels", "summary")
get_enemy_appearances == Tool(<<Required("name"), Limits, Offset>>, "levels", "structured")
list_stages == Tool(<<Text("chapter"), Text("type"), Limits, Offset>>, "excel", "structured")
get_stage_info == Tool(<<Required("stage_id")>>, "excel", "summary")
list_items == Tool(<<Text("category"), Limits, Offset>>, "excel", "structured")
get_item_info == Tool(<<Required("name")>>, "excel", "summary")
search ==
  Tool(<<MustChoose("scope", {"operators", "enemies", "stages", "items", "building_skills", "skills"}),
         Required("pattern"), Number("max_results", 1, 100, 30)>>, "excel", "structured")
list_story_events == Tool(<<Text("category")>>, "story", "structured")
list_stories == Tool(<<Required("event_id"), Flag("include_summaries", FALSE)>>, "story", "structured")
get_story_summary == Tool(<<Required("story_key")>>, "story", "text")
read_story == Tool(<<Required("story_key"), Flag("include_narration", TRUE)>>, "story", "text")
read_activity ==
  Tool(<<Required("event_id"), Flag("include_narration", TRUE), MayNumber("page", 1, Unbounded),
         Number("page_size", 1, 20, 5)>>, "story", "text")
search_stories ==
  Tool(<<Required("pattern"), Text("character"), Text("line_type"), Number("context_lines", 0, 5, 1),
         Number("max_results", 1, 100, 30), Text("event_id")>>, "story", "structured")
get_operator_memoirs == Tool(<<Required("name")>>, "story", "summary")
find_character_appearances ==
  Tool(<<Required("name"), Text("scope"), Number("max_events", 1, 200, 50)>>, "story", "structured")
find_speakers_in == Tool(<<Required("event_id")>>, "story", "structured")
operator_artwork ==
  Tool(<<Required("operator_name"), MustChoose("action", {"list", "get"}), Text("artwork_id"),
         MayChoose("variant", {"original", "large", "preview"})>>, "artwork", "image")

\* registry_for: artwork only when it is enabled.
Tools ==
  [search_prts |-> search_prts, prts_page |-> prts_page,
   get_operator_archives |-> get_operator_archives,
   get_operator_voicelines |-> get_operator_voicelines,
   get_operator_basic_info |-> get_operator_basic_info,
   list_enemies |-> list_enemies, get_enemy_info |-> get_enemy_info,
   get_stage_enemies |-> get_stage_enemies, get_enemy_appearances |-> get_enemy_appearances,
   list_stages |-> list_stages, get_stage_info |-> get_stage_info, list_items |-> list_items,
   get_item_info |-> get_item_info, search |-> search, list_story_events |-> list_story_events,
   list_stories |-> list_stories, get_story_summary |-> get_story_summary,
   read_story |-> read_story, read_activity |-> read_activity, search_stories |-> search_stories,
   get_operator_memoirs |-> get_operator_memoirs,
   find_character_appearances |-> find_character_appearances,
   find_speakers_in |-> find_speakers_in, operator_artwork |-> operator_artwork]
Registry(images) == DOMAIN Tools \ (IF images THEN {} ELSE {"operator_artwork"})

\* The class of work of a tool on SQLite data; the others are asynchronous.
Work(tool) ==
  CASE Tools[tool].reads \in {"wiki", "artwork"} -> "async"
    [] tool = "search" -> "search"
    [] tool \in {"search_stories", "find_character_appearances", "find_speakers_in"} -> "story"
    [] OTHER -> "point"

-----------------------------------------------------------------------------
(* Results.  An outcome has text, perhaps data, a summary and an image.    *)

Invalid == [text |-> "issues", data |-> "none", summary |-> "none", error |-> TRUE, image |-> FALSE]
Message == [text |-> "message", data |-> "none", summary |-> "none", error |-> FALSE, image |-> FALSE]
Full(tool) ==
  LET result == Tools[tool].result
  IN [text |-> "markdown", data |-> IF result = "text" THEN "none" ELSE "data",
      summary |-> IF result \in {"summary", "image"} THEN "own" ELSE "none",
      error |-> FALSE, image |-> result = "image"]

\* Combinations of valid arguments a dispatcher refuses before it reads.
Misfit(tool, arguments) ==
  LET fields == Tools[tool].fields
      value(name) == LET k == CHOOSE k \in DOMAIN fields : fields[k].name = name
                     IN Parsed(fields, arguments)[k].value
  IN \/ /\ tool = "get_operator_basic_info" /\ value("action") # Str("stats")
        /\ value("phase") # None \/ value("level") # None
     \/ tool = "operator_artwork" /\ value("action") = Str("get") /\ value("artwork_id") = None

\* The outcomes a dispatcher can have; data that is missing, unknown names
\* and failures of a source are messages.
Outcomes(tool, arguments) ==
  IF ~Finishes(Tools[tool].fields, arguments) THEN {Invalid}
  ELSE IF Misfit(tool, arguments) THEN {Message}
  ELSE {Message, Full(tool)}

summarize(outcome) == IF outcome.summary # "none" THEN outcome.summary ELSE "count"
Rendered(text, structured, outcome) ==
  [text |-> text, structured |-> structured, error |-> outcome.error, image |-> outcome.image]
render(outcome, channel) ==
  IF outcome.data = "none" THEN Rendered(outcome.text, "none", outcome)
  ELSE CASE channel = "content" -> Rendered(outcome.text, "none", outcome)
         [] channel = "both" -> Rendered(outcome.text, outcome.data, outcome)
         [] channel = "structured" -> Rendered(summarize(outcome), outcome.data, outcome)
into_result(outcome, channel) ==
  Rendered(IF outcome.data # "none" /\ channel = "structured" THEN summarize(outcome) ELSE outcome.text,
           IF channel # "content" THEN outcome.data ELSE "none", outcome)

-----------------------------------------------------------------------------
(* Calls.                                                                  *)

Works == {"point", "search", "story"}
Idle == [id |-> 0]
NoCall == [pc |-> "idle", id |-> 0, asked |-> Idle, answer |-> "none"]

Init ==
  /\ calling = [c \in Callers |-> NoCall]
  /\ free = Limit /\ queue = {}
  /\ thread = [t \in Threads |-> Idle] /\ local = [t \in Threads |-> 0]
  /\ dropped = {} /\ ids = 0

\* JSON data and the wiki are read by the caller's own task.
Call(c) ==
  /\ calling[c].pc = "idle" /\ ids < MaxCalls
  /\ \E asked \in Asked :
       /\ asked.tool \in Registry(Images)
       /\ IF Backend = "json" \/ Work(asked.tool) = "async"
          THEN \E outcome \in Outcomes(asked.tool, asked.arguments) :
                 calling' = [calling EXCEPT ![c] = [NoCall EXCEPT !.id = ids + 1, !.answer = outcome.text]]
          ELSE calling' = [calling EXCEPT ![c] = [pc |-> "waiting", id |-> ids + 1,
                                                  asked |-> asked, answer |-> "none"]]
  /\ ids' = ids + 1
  /\ UNCHANGED <<free, queue, thread, local, dropped>>

\* A permit is there: the closure, with the permit, goes to the blocking pool.
Acquire(c) ==
  /\ calling[c].pc = "waiting"
  /\ free[Work(calling[c].asked.tool)] > 0
  /\ free' = [free EXCEPT ![Work(calling[c].asked.tool)] = @ - 1]
  /\ queue' = queue \cup {[id |-> calling[c].id, asked |-> calling[c].asked]}
  /\ calling' = [calling EXCEPT ![c].pc = "running"]
  /\ UNCHANGED <<thread, local, dropped, ids>>

\* The future of the caller is dropped: its place in the queue of the
\* semaphore, or its interest in a closure that is on its way.
FaultAbandon(c) ==
  /\ calling[c].pc # "idle"
  /\ calling' = [calling EXCEPT ![c] = NoCall]
  /\ dropped' = IF calling[c].pc = "running" THEN dropped \cup {calling[c].id} ELSE dropped
  /\ free' = IF calling[c].pc = "running"
             THEN [free EXCEPT ![Work(calling[c].asked.tool)] = @ + 1] ELSE free
  /\ UNCHANGED <<queue, thread, local, ids>>
Abandon(c) ==
  /\ calling[c].pc # "idle"
  /\ calling' = [calling EXCEPT ![c] = NoCall]
  /\ dropped' = IF calling[c].pc = "running" THEN dropped \cup {calling[c].id} ELSE dropped
  /\ UNCHANGED <<free, queue, thread, local, ids>>

\* A thread takes a closure and puts its token where check looks for it.
Enter(t) ==
  /\ thread[t] = Idle
  /\ \E closure \in queue :
       /\ queue' = queue \ {closure}
       /\ thread' = [thread EXCEPT ![t] = [id |-> closure.id, asked |-> closure.asked, saved |-> local[t]]]
       /\ local' = [local EXCEPT ![t] = closure.id]
  /\ UNCHANGED <<calling, free, dropped, ids>>

\* The closure ends, with an answer or by a panic: the token goes, the permit
\* returns, and the caller hears, if there still is one.
Leaves(t, answer) ==
  /\ local' = [local EXCEPT ![t] = thread[t].saved]
  /\ free' = [free EXCEPT ![Work(thread[t].asked.tool)] = @ + 1]
  /\ calling' = [c \in Callers |->
                   IF calling[c].pc = "running" /\ calling[c].id = thread[t].id
                   THEN [NoCall EXCEPT !.id = calling[c].id, !.answer = answer] ELSE calling[c]]
  /\ thread' = [thread EXCEPT ![t] = Idle]
  /\ UNCHANGED <<queue, dropped, ids>>

Finish(t) ==
  /\ thread[t] # Idle
  /\ \E outcome \in Outcomes(thread[t].asked.tool, thread[t].asked.arguments) :
       Leaves(t, outcome.text)

\* Scans look at the token at every row.
Cancelled(t) ==
  /\ thread[t] # Idle /\ Work(thread[t].asked.tool) \in {"search", "story"}
  /\ Finishes(Tools[thread[t].asked.tool].fields, thread[t].asked.arguments)
  /\ local[t] \in dropped
  /\ Leaves(t, "cancelled")

Panics(t) ==
  /\ thread[t] # Idle
  /\ Leaves(t, "-32603")

Next ==
  \/ \E c \in Callers : Call(c) \/ Acquire(c) \/ Abandon(c)
  \/ \E t \in Threads : Enter(t) \/ Finish(t) \/ Cancelled(t) \/ Panics(t)

-----------------------------------------------------------------------------
(* Properties.                                                             *)

\* The variables have their types.
TypeOK ==
  /\ \A w \in Works : free[w] \in 0..Limit[w]
  /\ \A c \in Callers : calling[c].pc \in {"idle", "waiting", "running"}
  /\ local \in [Threads -> 0..MaxCalls] /\ dropped \subseteq 1..ids

Working(w) == {closure \in queue : Work(closure.asked.tool) = w}
              \cup {thread[t] : t \in {u \in Threads : thread[u] # Idle /\ Work(thread[u].asked.tool) = w}}
\* However callers come and go, no class has more closures queued and running
\* than it has permits, and none of them is lost (sqlite_dispatch: "cap
\* active scan jobs"; the permit is moved into the closure).
ScansAreBounded ==
  \A w \in Works : Cardinality(Working(w)) + free[w] = Limit[w]

\* A caller that waits is never told it was cancelled, and a thread goes back
\* to the pool without a token (Scope, CancelOnDrop).
CancelledIsMine ==
  /\ \A c \in Callers : calling[c].answer # "cancelled"
  /\ \A t \in Threads : thread[t] = Idle => local[t] = 0

\* What a schema means: the values a field admits, and what stands for them.
Admits(f, v) ==
  CASE v = Absent -> f.kind \notin {"required_string", "required_enum"}
    [] v[1] = "null" -> f.kind = "nullish_int"
    [] v[1] = "string" -> f.kind \in {"string", "required_string"}
                          \/ (f.kind \in {"enum_default", "optional_enum", "required_enum"}
                              /\ v[2] \in f.options)
    [] v[1] = "int" -> f.kind = "optional_int"
                       \/ (f.kind \in {"int_default", "nullish_int"} /\ v[2] \in f.min..f.max)
    [] v[1] = "boolean" -> f.kind = "boolean_default"
    [] OTHER -> FALSE
\* A call is refused if and only if a value is outside its schema, whatever
\* the others are; what is used is what was given, or the default of what was
\* not; and a dispatcher that goes on has every value it cannot do without
\* (expect and unreachable! in the dispatchers).  Numbers beyond i64 are
\* left out: they pass as absent.
ArgumentsAreHonoured(tool, arguments) ==
  (\A name \in DOMAIN arguments : arguments[name][1] # "huge") =>
    LET fields == Tools[tool].fields IN
    /\ Finishes(fields, arguments) = \A k \in DOMAIN fields : Admits(fields[k], Given(arguments, fields[k].name))
    /\ Finishes(fields, arguments) => \A k \in DOMAIN fields :
         LET given == Given(arguments, fields[k].name)
             used == Parsed(fields, arguments)[k].value
         IN /\ given # Absent /\ given[1] # "null" => used = given
            /\ fields[k].kind \in {"required_string", "required_enum"} => used # None

\* The two ways to wrap an outcome agree on every channel, and errors and
\* messages stay text (render, into_result).
ResultsAgree(tool, arguments) ==
  \A outcome \in Outcomes(tool, arguments), channel \in {"content", "structured", "both"} :
    /\ render(outcome, channel) = into_result(outcome, channel)
    /\ outcome.error => into_result(outcome, channel).structured = "none"
=============================================================================
