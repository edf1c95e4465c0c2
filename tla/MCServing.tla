------------------------------ MODULE MCServing -----------------------------
(***************************************************************************)
(* What answers queries, checked for safety.  The components below share   *)
(* the concurrent calls and nothing else, so one run checks them side by   *)
(* side: `part` names the instance a behaviour is about, the variables of  *)
(* the others stand still.                                                 *)
(***************************************************************************)
EXTENDS Integers, Sequences, FiniteSets, TLC
CONSTANTS c1, c2

Calls == {c1, c2}
Symmetry == Permutations(Calls)

VARIABLES
  part,
  \* DataState
  backend, bundle, bound, pair, excel, levels, story, active, previous,
  files, writing, cache, writer, call, faults,
  \* Admission
  writes, file, stamps, receipts, checked, task,
  \* DatasetSlots
  generation, tables, trouble, value, holder, view, stack, shown, loads,
  \* StorySearch
  hints, catalog, search,
  \* StoryIndex
  archive, zipIndex, mutex, dict, zipCall, reader, next, results, zipFaults,
  \* TextFilter
  text, pattern,
  \* StoryReader
  objects, lock, reading, readFaults,
  \* StoryLines
  chapter,
  \* ArtworkCache
  entries, index, total, image,
  \* Protocol
  sessions, watch, known, request, metrics, inits, pipe,
  \* ToolCalls
  calling, free, queue, thread, local, dropped, ids,
  \* Listings
  browser,
  \* WikiClient
  clock, slots, last, wiki, asking, changes,
  \* WikiTemplates
  tree, reply,
  \* ToolCalls
  trial

dataVars == <<backend, bundle, bound, pair, excel, levels, story, active,
              previous, files, writing, cache, writer, call, faults>>
admitVars == <<writes, file, stamps, receipts, checked, task>>
tableVars == <<generation, tables, trouble, value, holder, view, stack,
               shown, loads>>
searchVars == <<hints, catalog, search>>
indexVars == <<archive, zipIndex, mutex, dict, zipCall, reader, next,
               results, zipFaults>>
filterVars == <<text, pattern>>
objectVars == <<objects, lock, reading, readFaults>>
lineVars == <<chapter>>
artVars == <<entries, index, total, image>>
wireVars == <<sessions, watch, known, request, metrics, inits, pipe>>
toolVars == <<calling, free, queue, thread, local, dropped, ids>>
pageVars == <<browser>>
webVars == <<clock, slots, last, wiki, asking, changes>>
batchVars == <<tree, reply>>
schemaVars == <<trial>>
vars == <<part, dataVars, admitVars, tableVars, searchVars, indexVars, filterVars,
          objectVars, lineVars, artVars, wireVars, toolVars, pageVars,
          webVars, batchVars, schemaVars>>

-----------------------------------------------------------------------------
Row(id, sort, hidden, named, kind) ==
  [id |-> id, sort |-> sort, hidden |-> hidden, named |-> named, kind |-> kind]
Rows(id) == {Row(id, n, FALSE, TRUE, k) : n \in {0, 1}, k \in {"a", "b"}}
            \cup {Row(id, 1, TRUE, TRUE, "a"), Row(id, 1, FALSE, FALSE, "a")}

\* Calls of tools.
Said(s) == <<"string", s>>
Ask(tool, arguments) == [tool |-> tool, arguments |-> arguments]
Values == {<<"null">>, <<"boolean", TRUE>>, <<"float">>, Said("read"), Said("get")}
          \cup {<<"int", n>> : n \in {-1, 0, 3, 21, 201}}
Sound == [name |-> Said("n"), stage_id |-> Said("s"), event_id |-> Said("e"), scope |-> Said("items"),
          pattern |-> Said("p"), page_title |-> Said("t"), action |-> Said("list")]

\* Messages and bodies.
Post(id, method, params, envelope) ==
  [id |-> id, method |-> method, call |-> params, envelope |-> envelope]
One(message) == [single |-> TRUE, messages |-> <<message>>]
Batch(messages) == [single |-> FALSE, messages |-> messages]

Line(who, words) == [kind |-> "dialog", role |-> who, text |-> words]
Literal(prefix) == [prefix |-> prefix, rest |-> <<>>]
Texts == UNION {[1..n -> {"a", "s", "S", "long s", "han"}] : n \in 0..3}
         \cup UNION {[1..n -> {"k", "kelvin", "s"}] : n \in 0..4}
Literals == [prefix : UNION {[1..n -> {"a", "s", "k", "1", "han"}] : n \in 0..2},
             rest : {<<>>, <<"s">>}]

Shown == {<<>>, <<"a">>, <<"<tag>">>, <<"b", "a">>}
Items == {[prop |-> "name", name |-> n, content |-> c] : n \in Shown, c \in Shown}
         \cup {[prop |-> "sticker", content |-> c, text |-> t] : c \in {<<>>, <<"a">>}, t \in Shown}
         \cup {[prop |-> "subtitle", text |-> t] : t \in Shown}
         \cup {[prop |-> "decision", options |-> <<t, u>>] : t \in Shown, u \in Shown}
Events == [type : {"NONE", "MAINLINE", "MINI_ACTIVITY"}, memoir : BOOLEAN, chapters : 0..1]
Story == [items |-> <<>>, datas |-> <<>>, size |-> 1, events |-> <<>>]
Stories == {[Story EXCEPT !.items = <<i, j, CHOOSE k \in Items : k.prop = "name">>] :
              i \in Items, j \in Items}
           \cup {[Story EXCEPT !.size = z, !.datas = d] : z \in 1..3,
                   d \in UNION {[1..n -> [sort : 0..1, key : {"", "k"}, state : {"good"}]] : n \in 0..4}}
           \cup {[Story EXCEPT !.size = z, !.datas = d] : z \in 1..2,
                   d \in [1..3 -> [sort : {0}, key : {"", "k"}, state : {"good", "skip", "fail"}]]}
           \cup {[Story EXCEPT !.events = <<e>>] : e \in Events}

AllGood == [s \in {"character_table", "handbook_table", "charword_table", "name_to_id",
                   "enemy_handbook", "enemy_database", "enemy_name_to_id",
                   "enemy_search_records", "stage_table", "zone_table", "stages_map",
                   "stage_search_records", "enemy_appearance_index", "items", "item_lookup",
                   "item_search_records", "search_records", "building_table",
                   "building_skill_records", "skill_table", "skill_search_records",
                   "char_skins"} |-> "good"]

\* The database of an installation and two successors ...
Sqlite == INSTANCE DataState WITH
  Callers <- Calls, Backends <- {"sqlite", "default"}, Bundles <- {"database"},
  MaxGeneration <- 2, Units <- {"database"}, Bindable <- {"database"}, MaxFaults <- 0

\* ... the pair and the story archive, for another source to bind ...
Json == INSTANCE DataState WITH
  Callers <- Calls, Backends <- {"json"}, Bundles <- {"json"},
  MaxGeneration <- 1, Units <- {"pair", "story"}, Bindable <- {"pair", "story"}, MaxFaults <- 0

\* ... and two generations of the pair.
Pairs == INSTANCE DataState WITH
  Callers <- Calls, Backends <- {"json"}, Bundles <- {"json"},
  MaxGeneration <- 2, Units <- {"pair"}, Bindable <- {}, MaxFaults <- 0

\* Two managed files and one receipt ...
Release == INSTANCE Admission WITH
  Managed <- {"m", "r"}, Custom <- {}, Rotten <- {}, Threads <- Calls, Limit <- 1,
  MaxWrites <- 2, levels <- checked

\* ... and unsound data behind a managed file beside one the user has given.
Given == INSTANCE Admission WITH
  Managed <- {"r"}, Custom <- {"c"}, Rotten <- {"r"}, Threads <- Calls, Limit <- 1,
  MaxWrites <- 3, levels <- checked

\* Derived tables, and files that are missing or malformed.
Slots == INSTANCE DatasetSlots WITH
  Clients <- Calls, MaxGeneration <- 1, Troubles <- TRUE, files <- tables,
  Asked <- {"name_to_id", "building_skill_records", "search_records", "char_skins"},
  FileStates <- {AllGood, [AllGood EXCEPT !.building_table = "absent"],
                 [AllGood EXCEPT !.character_table = "malformed"],
                 [AllGood EXCEPT !.char_skins = "absent"],
                 [AllGood EXCEPT !.handbook_table = "absent"]}

\* Three blocks of two events; two of them may have hints.
Search == INSTANCE StorySearch WITH
  Searches <- Calls,
  Corpus <- <<[event |-> "e", first |-> 0, lines |-> <<Line("a", <<"a", "long s", "k">>),
                                                      Line("b", <<"s", "a">>)>>],
              [event |-> "e", first |-> 2, lines |-> <<Line("a", <<"s", "kelvin">>)>>],
              [event |-> "f", first |-> 0, lines |-> <<Line("b", <<"k", "S", "1">>),
                                                      Line("a", <<"a", "s">>)>>]>>,
  Patterns <- {Literal(<<"s", "k">>), Literal(<<"a", "s">>), Literal(<<"s">>)},
  Scopes <- {"", "e", "f"}, Roles <- {"", "a"}, Maximums <- {1, 5}, HintLimit <- 2, CatalogLimit <- 3

\* Two archives: in one a chapter is missing, one cannot be read in the other.
Index == INSTANCE StoryIndex WITH
  Callers <- Calls, Readers <- {"r1", "r2"}, MaxFaults <- 1,
  Chapters <- <<<<"good", "skip", "added">>, <<"good", "good">>>>,
  index <- zipIndex, holder <- mutex, call <- zipCall, faults <- zipFaults

\* Every pattern on every short text.
Words == INSTANCE TextFilter

\* Two or three of the four objects fit.
Objects == INSTANCE StoryReader WITH
  Callers <- Calls, Budget <- 6, Overhead <- 1,
  Documents <- [review |-> {"e1", "e2"}, supplement |-> {"e2", "e3"}, storyinfo |-> {"k1", "k2"},
                summaries |-> {"k2"}, event_summaries |-> {"e1"}, chardict |-> {"o1"}],
  MaxFaults <- 2,
  entries <- objects, mutex <- lock, call <- reading, faults <- readFaults

\* The optional documents are not there, and the event table is too large.
Bare == INSTANCE StoryReader WITH
  Callers <- Calls, Budget <- 2, Overhead <- 1,
  Documents <- [review |-> {"e1", "e2"}, storyinfo |-> {"k1"}], MaxFaults <- 2,
  entries <- objects, mutex <- lock, call <- reading, faults <- readFaults

\* The items of a chapter, and the chapters of an event.
Lines == INSTANCE StoryLines WITH Word <- 32

\* Three images, of which two fit.
Artwork == INSTANCE ArtworkCache WITH
  Keys <- {"a", "b", "c"}, Callers <- Calls, Size <- [a |-> 1, b |-> 1, c |-> 2],
  MaxBytes <- 3, call <- image

\* Requests that overlap in sessions that come and go ...
Wire == INSTANCE Protocol WITH
  Clients <- Calls, Channels <- {"content"}, Timeout <- 2, MaxSessions <- 2, Stdio <- FALSE,
  Bodies <- {One(Post(1, "initialize", "no", "none")), One(Post(2, "call", "good", "none")),
             Batch(<<Post(3, "call", "good", "none"), Post(4, "initialize", "no", "none")>>)}

\* ... and every kind of message, of both eras, over HTTP and a pipe.
Eras == INSTANCE Protocol WITH
  Clients <- {c1}, Channels <- {"content", "both"}, Timeout <- 0, MaxSessions <- 1, Stdio <- TRUE,
  Bodies <- {One(Post(1, "initialize", "no", "none")), One(Post(2, "call", "crash", "none")),
             One(Post(3, "other", "no", "none")), One(Post(4, "call", "name", "modern")),
             One(Post(5, "list", "no", "partial")), One(Post(6, "other", "no", "other")),
             One(Post(0, "other", "no", "modern")), One(Post(7, "initialize", "no", "modern")),
             One(Post(0, "scalar", "no", "none")),
             Batch(<<Post(0, "initialized", "no", "none"), Post(3, "call", "good", "none"),
                     Post(0, "list", "no", "none"), Post(0, "scalar", "no", "none"),
                     Post(0, "other", "no", "none")>>),
             Batch(<<Post(8, "discover", "no", "modern"), Post(9, "call", "good", "none"),
                     Post(0, "scalar", "no", "none"), Post(9, "call", "good", "modern")>>)}

\* Scans, reads and calls without their arguments, for two threads ...
Scans == INSTANCE ToolCalls WITH
  Callers <- Calls, Threads <- {"t1", "t2"}, Backend <- "sqlite", Images <- FALSE,
  Limit <- [point |-> 2, search |-> 1, story |-> 1], MaxCalls <- 3,
  Asked <- {Ask("search", [scope |-> Said("items"), pattern |-> Said("p")]),
            Ask("search_stories", <<>>), Ask("read_story", [story_key |-> Said("k")])}

\* ... and those a task runs itself.
Inline == INSTANCE ToolCalls WITH
  Callers <- Calls, Threads <- {"t1"}, Backend <- "json", Images <- TRUE,
  Limit <- [point |-> 1, search |-> 1, story |-> 1], MaxCalls <- 3,
  Asked <- {Ask("find_speakers_in", [event_id |-> Said("e")]),
            Ask("operator_artwork", [operator_name |-> Said("n"), action |-> Said("get")])}

\* Three rows in any order, read page by page, from the first and from the
\* largest offsets.
Pages == INSTANCE Listings WITH
  Width <- 4, Listed <- {"enemies", "items", "stages", "appearances"},
  Filters <- {"", "a", "unknown"}, Offsets <- {0, 6, 7}, Limits <- {1, 2},
  Tables <- {<<>>} \cup {<<q, r, t>> : q \in Rows(3), r \in Rows(1), t \in Rows(2)},
  reader <- browser

\* Searches through redirects and technical pages ...
Searches == INSTANCE WikiClient WITH
  Callers <- Calls, Interval <- 2, MaxClock <- 11, MaxNext <- 6,
  Tasks <- {[kind |-> "search", limit |-> n, filter |-> f] : n \in {1, 2}, f \in BOOLEAN}
           \cup {[kind |-> "links", direction |-> d, limit |-> n] :
                   d \in {"inbound", "outbound"}, n \in 1..3},
  Links <- <<"x", "y">>,
  Hits <- <<[title |-> "p", redirect |-> TRUE], [title |-> "q", redirect |-> FALSE],
            [title |-> "r", redirect |-> TRUE], [title |-> "t/data", redirect |-> FALSE]>>,
  Target <- [p |-> "p/data"], Technical <- {"p/data", "t/data"},
  Files <- <<>>, Prefix <- "art", PageSize <- 1, MaxPages <- 1, MaxChanges <- 0,
  next <- slots, call <- asking

\* ... and lists of artwork that changes meanwhile.
Gallery == INSTANCE WikiClient WITH
  Callers <- {c1}, Interval <- 1, MaxClock <- 4, MaxNext <- 2,
  Tasks <- {[kind |-> "list", operator |-> "o"], [kind |-> "template"], [kind |-> "read"],
            [kind |-> "sections"], [kind |-> "categories"]}
           \cup {[kind |-> "image", operator |-> "o", file |-> f] : f \in {1, 3}},
  Hits <- <<>>, Target <- <<>>, Technical <- {}, Links <- <<>>,
  Files <- <<[segments |-> <<"art", "o", "1">>, figure |-> FALSE],
             [segments |-> <<"art", "o", "1b">>, figure |-> TRUE],
             [segments |-> <<"art", "o(x)", "1">>, figure |-> FALSE],
             [segments |-> <<"art", "o", "2">>, figure |-> FALSE],
             [segments |-> <<"art", "o", "skin1">>, figure |-> FALSE]>>,
  Prefix <- "art", PageSize <- 2, MaxPages <- 2, MaxChanges <- 2,
  next <- slots, call <- asking

\* The templates of small pages ...
Fields == INSTANCE WikiTemplates
Plain == {<<>>, <<Fields!Text(<<"a">>)>>, <<Fields!Note(<<"n">>), Fields!Remark(<<"m">>)>>}
Inner == {<<Fields!Element(k, h, p)>> :
            k \in {"template", "tplarg", "link", "ext"}, h \in {<<>>, <<Fields!Text(<<"N">>)>>},
            p \in {<<>>, <<Fields!Field(<<>>, <<Fields!Text(<<"i">>)>>)>>}}
         \cup {<<Fields!Text(<<"b">>),
                 Fields!Element("template", <<Fields!Text(<<"M">>)>>,
                                <<Fields!Field(<<Fields!Text(<<"y">>)>>, v)>>)>> : v \in Plain}
Given1 == {Fields!Field(n, v) : n \in {<<>>, <<Fields!Text(<<"x">>)>>}, v \in Plain \cup Inner}
          \cup {[Fields!Field(<<Fields!Text(<<"x">>)>>, <<>>) EXCEPT !.valued = FALSE],
                [Fields!Field(<<Fields!Text(<<"x">>)>>, <<Fields!Text(<<"c">>)>>) EXCEPT !.indexed = TRUE]}
Titled == {<<>>, <<Fields!Text(<<"T">>)>>, <<Fields!Text(<<"T">>), Fields!Remark(<<"r">>)>>}
Trees == {<<Fields!Element("template", h, <<p, q>>)>> : h \in Titled, p \in Given1, q \in Given1}
         \cup {<<Fields!Element("template", h, <<p>>),
                 Fields!Element("template", <<Fields!Text(<<t>>)>>, <<q>>)>> :
                 h \in Titled, t \in {"T", "U"}, p \in Given1, q \in Given1}
\* ... and every answer to a batch of up to two values.
Replies == {[kind |-> "text", words |-> w] :
              w \in UNION {[1..n -> Fields!Markers(2) \cup {"v"}] : n \in 0..6}}
           \cup {[kind |-> "failed", words |-> <<>>]}



\* Every tool, two of its fields given every kind of value.
Trials ==
  UNION {LET names == {Scans!Tools[tool].fields[k].name : k \in DOMAIN Scans!Tools[tool].fields}
         IN {Ask(tool, [n \in {f, g} |-> IF n = f THEN v ELSE w] @@ base) :
               f \in names, g \in names, v \in Values, w \in Values, base \in {Sound, <<>>}} :
         tool \in DOMAIN Scans!Tools}

-----------------------------------------------------------------------------
(* A component whose turn it is not has no state.                           *)
dataIdle ==
  /\ backend = 0 /\ bundle = 0 /\ bound = 0 /\ pair = 0 /\ excel = 0
  /\ levels = 0 /\ story = 0 /\ active = 0 /\ previous = 0 /\ files = 0
  /\ writing = 0 /\ cache = 0 /\ writer = 0 /\ call = 0 /\ faults = 0
admitIdle ==
  /\ writes = 0 /\ file = 0 /\ stamps = 0 /\ receipts = 0 /\ checked = 0
  /\ task = 0
tableIdle ==
  /\ generation = 0 /\ tables = 0 /\ trouble = 0 /\ value = 0 /\ holder = 0
  /\ view = 0 /\ stack = 0 /\ shown = 0 /\ loads = 0
searchIdle ==
  /\ hints = 0 /\ catalog = 0 /\ search = 0
indexIdle ==
  /\ archive = 0 /\ zipIndex = 0 /\ mutex = 0 /\ dict = 0 /\ zipCall = 0
  /\ reader = 0 /\ next = 0 /\ results = 0 /\ zipFaults = 0
filterIdle ==
  /\ text = 0 /\ pattern = 0
objectIdle ==
  /\ objects = 0 /\ lock = 0 /\ reading = 0 /\ readFaults = 0
lineIdle ==
  /\ chapter = 0
artIdle ==
  /\ entries = 0 /\ index = 0 /\ total = 0 /\ image = 0
wireIdle ==
  /\ sessions = 0 /\ watch = 0 /\ known = 0 /\ request = 0 /\ metrics = 0
  /\ inits = 0 /\ pipe = 0
toolIdle ==
  /\ calling = 0 /\ free = 0 /\ queue = 0 /\ thread = 0 /\ local = 0
  /\ dropped = 0 /\ ids = 0
pageIdle ==
  /\ browser = 0
webIdle ==
  /\ clock = 0 /\ slots = 0 /\ last = 0 /\ wiki = 0 /\ asking = 0
  /\ changes = 0
batchIdle ==
  /\ tree = 0 /\ reply = 0
schemaIdle ==
  /\ trial = 0

Parts == {"sqlite", "json", "pairs", "managed", "given", "tables", "search",
          "index", "filter", "objects", "bare", "lines", "artwork", "wire",
          "eras", "calls", "inline", "pages", "searches", "gallery",
          "pagetree", "replies", "schemas"}

Init ==
  /\ part \in Parts
  /\ CASE part = "sqlite" -> Sqlite!Init
       [] part = "json" -> Json!Init
       [] part = "pairs" -> Pairs!Init
       [] OTHER -> dataIdle
  /\ CASE part = "managed" -> Release!Init
       [] part = "given" -> Given!Init
       [] OTHER -> admitIdle
  /\ CASE part = "tables" -> Slots!Init
       [] OTHER -> tableIdle
  /\ CASE part = "search" -> Search!Init
       [] OTHER -> searchIdle
  /\ CASE part = "index" -> Index!Init
       [] OTHER -> indexIdle
  /\ CASE part = "filter" -> text \in Texts /\ pattern \in Literals
       [] OTHER -> filterIdle
  /\ CASE part = "objects" -> Objects!Init
       [] part = "bare" -> Bare!Init
       [] OTHER -> objectIdle
  /\ CASE part = "lines" -> chapter \in Stories
       [] OTHER -> lineIdle
  /\ CASE part = "artwork" -> Artwork!Init
       [] OTHER -> artIdle
  /\ CASE part = "wire" -> Wire!Init
       [] part = "eras" -> Eras!Init
       [] OTHER -> wireIdle
  /\ CASE part = "calls" -> Scans!Init
       [] part = "inline" -> Inline!Init
       [] OTHER -> toolIdle
  /\ CASE part = "pages" -> Pages!Init
       [] OTHER -> pageIdle
  /\ CASE part = "searches" -> Searches!Init
       [] part = "gallery" -> Gallery!Init
       [] OTHER -> webIdle
  /\ CASE part = "pagetree" -> tree \in Trees /\ reply = 0
       [] part = "replies" -> tree = 0 /\ reply \in Replies
       [] OTHER -> batchIdle
  /\ CASE part = "schemas" -> trial \in Trials
       [] OTHER -> schemaIdle

Next ==
  /\ CASE part = "sqlite" -> Sqlite!Next
       [] part = "json" -> Json!Next
       [] part = "pairs" -> Pairs!Next
       [] OTHER -> UNCHANGED dataVars
  /\ CASE part = "managed" -> Release!Next
       [] part = "given" -> Given!Next
       [] OTHER -> UNCHANGED admitVars
  /\ CASE part = "tables" -> Slots!Next
       [] OTHER -> UNCHANGED tableVars
  /\ CASE part = "search" -> Search!Next
       [] OTHER -> UNCHANGED searchVars
  /\ CASE part = "index" -> Index!Next
       [] OTHER -> UNCHANGED indexVars
  /\ CASE part = "filter" -> UNCHANGED filterVars
       [] OTHER -> UNCHANGED filterVars
  /\ CASE part = "objects" -> Objects!Next
       [] part = "bare" -> Bare!Next
       [] OTHER -> UNCHANGED objectVars
  /\ CASE part = "lines" -> UNCHANGED lineVars
       [] OTHER -> UNCHANGED lineVars
  /\ CASE part = "artwork" -> Artwork!Next
       [] OTHER -> UNCHANGED artVars
  /\ CASE part = "wire" -> Wire!Next
       [] part = "eras" -> Eras!Next
       [] OTHER -> UNCHANGED wireVars
  /\ CASE part = "calls" -> Scans!Next
       [] part = "inline" -> Inline!Next
       [] OTHER -> UNCHANGED toolVars
  /\ CASE part = "pages" -> Pages!Next
       [] OTHER -> UNCHANGED pageVars
  /\ CASE part = "searches" -> Searches!Next
       [] part = "gallery" -> Gallery!Next
       [] OTHER -> UNCHANGED webVars
  /\ CASE part = "pagetree" -> UNCHANGED batchVars
       [] part = "replies" -> UNCHANGED batchVars
       [] OTHER -> UNCHANGED batchVars
  /\ CASE part = "schemas" -> UNCHANGED schemaVars
       [] OTHER -> UNCHANGED schemaVars
  /\ UNCHANGED part

Spec == Init /\ [][Next]_vars

-----------------------------------------------------------------------------
(* Properties.                                                             *)

TypeOK ==
  /\ part = "sqlite" => Sqlite!TypeOK
  /\ part = "json" => Json!TypeOK
  /\ part = "managed" => Release!TypeOK
  /\ part = "given" => Given!TypeOK
  /\ part = "tables" => Slots!TypeOK
  /\ part = "search" => Search!TypeOK
  /\ part = "index" => Index!TypeOK
  /\ part = "objects" => Objects!TypeOK
  /\ part = "artwork" => Artwork!TypeOK
  /\ part = "wire" => Wire!TypeOK
  /\ part = "eras" => Eras!TypeOK
  /\ part = "calls" => Scans!TypeOK
  /\ part = "inline" => Inline!TypeOK
  /\ part = "searches" => Searches!TypeOK
  /\ part = "gallery" => Gallery!TypeOK

(* A call is answered from a snapshot at least as new as the pointers were *)
(* when it began, both archives from one generation, whatever is published *)
(* between the reads of its signature and of its view, and data of another *)
(* source is never served, whenever the directory is bound (app.rs,        *)
(* json.rs).                                                               *)
SnapshotIsFresh ==
  /\ part = "sqlite" => Sqlite!DatabaseIsFresh /\ Sqlite!CacheTellsTheFiles /\ Sqlite!NothingForeign
  /\ part = "json" => Json!PairIsFresh /\ Json!CacheTellsTheFiles /\ Json!NothingForeign
  /\ part = "pairs" => Pairs!PairIsFresh /\ Pairs!CacheTellsTheFiles

(* A database in use is the one that was vouched for, and every stamp and  *)
(* receipt is true of the bytes it names (admission.rs, validation.rs).    *)
DatabaseIsVouched ==
  /\ part = "managed" => Release!Vouched /\ Release!ProofsAreTrue /\ Release!PinsAreBounded
  /\ part = "given" => Given!Vouched /\ Given!ProofsAreTrue /\ Given!PinsAreBounded

(* A table is parsed once, derived tables are made from whole ones, and    *)
(* there a failure is not remembered as an absence.  An object of a story  *)
(* database is cached whole but for documents whose test for existence,    *)
(* or the dictionary whose read, failed: no other failed read leaves a     *)
(* trace.  What the caches count is what they hold, and fits (datasets.rs, *)
(* objects.rs, reader.rs, memoir.rs, mediawiki.rs).                        *)
CachesAreWhole ==
  /\ part = "tables" => Slots!OneLoad /\ Slots!DerivedIsWhole /\ Slots!AbsenceIsReal
  /\ part = "objects" => Objects!CacheIsWhole /\ Objects!AnswerIsWhole /\ Objects!BudgetHolds
  /\ part = "bare" => Bare!CacheIsWhole /\ Bare!AnswerIsWhole /\ Bare!BudgetHolds
  /\ part = "artwork" => Artwork!BytesAreCounted

(* A search finds what a scan of every line would find, and what it leaves *)
(* behind for others is whole; no shortcut refuses what the native engine  *)
(* accepts; an index has the chapters of one archive, in order and no      *)
(* older than the call, but for those a failed look hid from whoever built *)
(* it; its packed lines are the lines, pages leave out no chapter, and     *)
(* whoever follows the pages of a listing has seen every row once. A wiki  *)
(* search leaves out what it must and nothing else, a gallery of several   *)
(* pages is listed whole and once, and the fields of a template get what   *)
(* the wiki said of them (sqlite_blocks.rs, block_filter.rs,               *)
(* regex_compat.rs, search.rs, memoir.rs, packed_lines.rs, reader.rs,      *)
(* enemy.rs, item.rs, stage.rs; wiki/search.rs, images_api.rs, page.rs,    *)
(* template.rs).                                                           *)
AnswersAreWhole ==
  /\ part = "search" => Search!SearchFindsAll /\ Search!LegacyIsWhole
  /\ part = "filter" => Words!ShortcutsAgree(pattern, text, <<"a">>, <<"s">>)
  /\ part = "index" => Index!IndexIsWhole /\ Index!MemoirIsFresh
  /\ part = "lines" => /\ Lines!LinesSurvive(chapter.items)
                     /\ Lines!PagesPartition(chapter.datas, chapter.size)
                     /\ Lines!ListedIsSearched(chapter.events)
  /\ part = "searches" => Searches!SearchIsFiltered /\ Searches!LinksTellMore
  /\ part = "gallery" => Gallery!ListingIsWhole
  /\ part = "pagetree" => Fields!FieldsAreTheirs(tree)
  /\ part = "replies" => \A n \in 1..2 : Fields!CutAtMarkers(n, reply)
  /\ part = "pages" => Pages!PagesCoverListing /\ Pages!NamedPagesExist

(* A session is initialized once and answers on its own channel, every     *)
(* request of a body has its answer in turn, and the table holds no        *)
(* session longer than its timeout, however requests, DELETE and watchdogs *)
(* interleave; on a pipe the modern era is final.  A call is refused just  *)
(* when an argument is outside its schema, scans hold no more than their   *)
(* permits however callers leave, and a caller that waits is not told it   *)
(* was cancelled.  Requests to the wiki go out one interval apart, whoever *)
(* sends them (http.rs, session.rs, dispatch.rs, stdio.rs, zodish.rs,      *)
(* output.rs, tools/mod.rs, cancellation.rs, wiki/client.rs).              *)
CallsAreAnswered ==
  /\ [](part = "schemas" => /\ Scans!ArgumentsAreHonoured(trial.tool, trial.arguments)
                            /\ Scans!ResultsAgree(trial.tool, trial.arguments))
  /\ [][/\ part = "wire" => /\ Wire!OneInitialize' /\ Wire!AnswersAreInTurn'
                            /\ Wire!EvictionIsTimely' /\ Wire!OnlyIdleIsEvicted
        /\ part = "eras" => /\ Eras!OneInitialize' /\ Eras!AnswersAreInTurn'
                            /\ Eras!ChannelIsKept' /\ Eras!PipeKeepsItsEra'
        /\ part = "calls" => Scans!ScansAreBounded' /\ Scans!CancelledIsMine'
        /\ part = "searches" => /\ \A c \in Calls : Searches!Spaced(c)
        /\ part = "inline" => Inline!ScansAreBounded' /\ Inline!CancelledIsMine']_vars
=============================================================================
