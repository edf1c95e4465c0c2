----------------------------- MODULE WikiClient -----------------------------
(***************************************************************************)
(* Calls that ask the wiki: the client with its rate limiter               *)
(* (wiki/client.rs), search_prts (wiki/search.rs), the pages of a listing  *)
(* (wiki/images_api.rs), the list and the download of artwork              *)
(* (domain/artwork/mediawiki.rs) and the templates of a page               *)
(* (wiki/page.rs, wiki/template.rs).                                       *)
(*                                                                         *)
(* A call makes one request after the other; before each it takes a slot   *)
(* of the limiter all calls share and sleeps until then.  It may be        *)
(* dropped at any await, and its slot is lost.  Timers are prompt, and the *)
(* clock does not go back.  Files come and go on the wiki meanwhile.       *)
(***************************************************************************)
EXTENDS Naturals, Sequences, FiniteSets

CONSTANTS
  Callers, Tasks,
  Interval,     \* RATE_LIMIT_INTERVAL_MS, in ticks
  MaxClock, MaxNext,
  Hits,         \* what a search finds: a sequence of [title, redirect]
  Target,       \* where a page redirects, for those that do
  Technical,    \* titles of technical pages
  Files,        \* all files in the wiki's order: [segments, figure]
  Links,        \* the links from, or to, a page: a sequence
  Prefix,       \* how the name of an artwork begins
  PageSize, MaxPages, MaxChanges

VARIABLES
  clock,
  next,         \* the limiter: the first slot not taken
  last,         \* when the last request was sent; clock is Interval at first
  wiki,         \* files there are, of 1..Len(Files)
  call,
  changes
wikiVars == <<clock, next, last, wiki, call, changes>>

Idle == [pc |-> "idle", task |-> [kind |-> "read"], slot |-> 0, step |-> "first", at |-> 0, pages |-> 0,
         names |-> <<>>, out |-> <<>>, more |-> FALSE, there |-> {}]
Later(m, n) == IF m < n THEN n ELSE m
Take(s, n) == SubSeq(s, 1, IF n < Len(s) THEN n ELSE Len(s))

TypeOK ==
  /\ clock \in Nat /\ next \in Nat /\ last \in Nat /\ changes \in Nat
  /\ wiki \subseteq DOMAIN Files
  /\ \A c \in Callers :
       /\ call[c].pc \in {"idle", "sleep", "sent", "done", "failed"}
       /\ call[c].step \in {"first", "redirect", "page", "tree", "batch", "download"}
       /\ call[c].slot \in Nat /\ call[c].at \in Nat /\ call[c].pages \in 0..MaxPages
       /\ call[c].there \subseteq DOMAIN Files

Init ==
  /\ clock = Interval /\ next = 0 /\ last = 0
  /\ wiki \in SUBSET (DOMAIN Files)
  /\ call = [c \in Callers |-> Idle]
  /\ changes = 0

-----------------------------------------------------------------------------
(* Slots.                                                                  *)

\* RateLimiter::reserve, before anything is awaited.
Request(c, record, step) ==
  LET slot == Later(clock, next)
  IN /\ next' = slot + Interval
     /\ call' = [call EXCEPT ![c] = [record EXCEPT !.pc = "sleep", !.slot = slot, !.step = step]]
     /\ UNCHANGED <<clock, last, wiki, changes>>
Settle(c, record, verdict) ==
  /\ call' = [call EXCEPT ![c] = [record EXCEPT !.pc = verdict]]
  /\ UNCHANGED <<clock, next, last, wiki, changes>>

\* sleep_until_slot is over and the request goes out.
Send(c) ==
  /\ call[c].pc = "sleep" /\ clock >= call[c].slot
  /\ last' = clock
  /\ call' = [call EXCEPT ![c].pc = "sent"]
  /\ UNCHANGED <<clock, next, wiki, changes>>

-----------------------------------------------------------------------------
(* Search.                                                                 *)

Fetched(task) == Take(Hits, IF task.filter THEN 2 * task.limit ELSE task.limit)
Shown(task, title) == ~(task.filter /\ title \in Technical)
\* The next hit at or after k whose title is looked up; one past the end.
Lookup(hits, k) ==
  IF \E j \in k..Len(hits) : hits[j].redirect
  THEN CHOOSE j \in k..Len(hits) : hits[j].redirect /\ \A m \in k..(j - 1) : ~hits[m].redirect
  ELSE Len(hits) + 1

\* The titles up to the next lookup; those that are shown, up to the limit.
Titles(task, k, j) == [m \in 1..(j - k) |-> Fetched(task)[k + m - 1].title]
Kept(task, names) ==
  LET kept == SelectSeq(names, LAMBDA title : Shown(task, title)) IN Take(kept, task.limit)
\* The loop ends with the first title there is no room for.
Crowded(task, names) ==
  Len(SelectSeq(names, LAMBDA title : Shown(task, title))) > task.limit

\* What happens from hit k on, once the titles before it are known.
Search(c, names, k) ==
  LET task == call[c].task
      j == Lookup(Fetched(task), k)
      seen == names \o Titles(task, k, j)
      record == [call[c] EXCEPT !.names = seen, !.out = Kept(task, seen), !.at = j]
  IN IF Crowded(task, seen) \/ j > Len(Fetched(task))
     THEN Settle(c, record, "done")
     ELSE Request(c, record, "redirect")

\* resolve_redirect_title: a title that cannot be resolved stays as it is.
Resolved(c, title) ==
  LET seen == Append(call[c].names, title)
  IN IF Crowded(call[c].task, seen)
     THEN Settle(c, [call[c] EXCEPT !.names = seen], "done")
     ELSE Search(c, seen, call[c].at + 1)
Redirected(title) == IF title \in DOMAIN Target THEN Target[title] ELSE title

-----------------------------------------------------------------------------
(* Artwork.                                                                *)

\* The name of a file is cut at its underscores; figure: the chibi figures
\* that are not listed.  The name after the prefix is the operator's.
Labelled(file) == Len(file.segments) >= 3 /\ ~file.figure
BelongsTo(file, operator) ==
  Labelled(file) /\ file.segments[1] = Prefix /\ file.segments[2] = operator
Matches(file, operator) ==
  Len(file.segments) >= 3 /\ file.segments[1] = Prefix /\ file.segments[2] = operator

\* allimages: the files with the prefix from one name on, a page of them.
From(operator, k) == {f \in wiki : f >= k /\ Matches(Files[f], operator)}
Nth(set, n) == CHOOSE f \in set : Cardinality({g \in set : g < f}) = n - 1
FilePage(operator, k) ==
  LET rest == From(operator, k)
  IN [n \in 1..(IF Cardinality(rest) < PageSize THEN Cardinality(rest) ELSE PageSize) |-> Nth(rest, n)]

\* list_allimages: page after page, up to the last or one too many.
Listed(c) ==
  LET task == call[c].task
      page == FilePage(task.operator, call[c].at)
      more == Cardinality(From(task.operator, call[c].at)) > PageSize
      record == [call[c] EXCEPT !.out = @ \o page, !.pages = @ + 1]
  IN IF ~more THEN Request(c, record, "tree")
     ELSE IF record.pages >= MaxPages THEN Settle(c, record, "failed")
     ELSE Request(c, [record EXCEPT !.at = Nth(From(task.operator, @), PageSize + 1)], "page")

\* list_artworks_mediawiki: those with a label, once the fields are there too.
Artworks(c) ==
  LET listed == SelectSeq(call[c].out, LAMBDA f : Labelled(Files[f]))
  IN Settle(c, [call[c] EXCEPT !.out = listed], IF listed = <<>> THEN "failed" ELSE "done")

\* A file in the wiki that the address of the image leads to, and that passes
\* for an image on the way.
Downloaded(c) ==
  \E sound \in BOOLEAN :
    Settle(c, [call[c] EXCEPT !.out = <<call[c].task.file>>], IF sound THEN "done" ELSE "failed")

-----------------------------------------------------------------------------
(* Pages: one request each.                                                *)

\* A page that is missing is an answer to whoever reads it.
ReadPage(c) == Settle(c, call[c], "done")
ListSections(c, found) == Settle(c, call[c], IF found THEN "done" ELSE "failed")
GetCategories(c, found) == Settle(c, call[c], IF found THEN "done" ELSE "failed")
\* All links from a page come at once; of those to it as many as asked for,
\* and whether there are more.
GetLinks(c, found) ==
  LET limit == call[c].task.limit
      record == [call[c] EXCEPT !.out = Take(Links, limit), !.more = Len(Links) > limit]
  IN IF call[c].task.direction = "outbound" /\ ~found
     THEN Settle(c, call[c], "failed") ELSE Settle(c, record, "done")

-----------------------------------------------------------------------------
(* Requests and answers.                                                   *)

Begin(c, task) ==
  /\ call[c].pc \notin {"sleep", "sent"} /\ next <= MaxNext
  /\ LET record == [Idle EXCEPT !.task = task, !.there = wiki, !.at = 1]
     IN IF task.kind = "image" /\ ~BelongsTo(Files[task.file], task.operator)
        THEN Settle(c, record, "failed")
        ELSE Request(c, record, IF task.kind = "list" THEN "page" ELSE "first")

\* The templates of a page need a second request when a field is rendered.
Tree(c) ==
  \/ Request(c, call[c], "batch")
  \/ IF call[c].task.kind = "list" THEN Artworks(c) ELSE Settle(c, call[c], "done")

\* The first answer of a call, by what it asks for.
Read(c) ==
  LET task == call[c].task
  IN CASE task.kind = "search" -> Search(c, <<>>, 1)
       [] task.kind = "template" -> Tree(c)
       [] task.kind = "image" ->
            IF task.file \in wiki THEN Request(c, call[c], "download")
            ELSE Settle(c, call[c], "failed")
       [] task.kind = "sections" -> \E found \in BOOLEAN : ListSections(c, found)
       [] task.kind = "categories" -> \E found \in BOOLEAN : GetCategories(c, found)
       [] task.kind = "links" -> \E found \in BOOLEAN : GetLinks(c, found)
       [] OTHER -> ReadPage(c)
Answer(c) ==
  /\ call[c].pc = "sent"
  /\ LET task == call[c].task
     IN CASE call[c].step = "redirect" -> Resolved(c, Redirected(Fetched(task)[call[c].at].title))
          [] call[c].step = "page" -> Listed(c)
          [] call[c].step = "tree" -> Tree(c)
          [] call[c].step = "batch" ->
               IF task.kind = "list" THEN Artworks(c) ELSE Settle(c, call[c], "done")
          [] call[c].step = "download" -> Downloaded(c)
          [] OTHER -> Read(c)

\* A timeout, a refused connection, a status, a body that is no JSON.  Only a
\* lookup goes on without its answer.
Refuse(c) ==
  /\ call[c].pc = "sent"
  /\ IF call[c].step = "redirect"
     THEN Resolved(c, Fetched(call[c].task)[call[c].at].title)
     ELSE Settle(c, call[c], "failed")

\* The caller goes away.
Drop(c) ==
  /\ call[c].pc \in {"sleep", "sent"}
  /\ Settle(c, Idle, "idle")

Tick ==
  /\ clock < MaxClock
  /\ \A c \in Callers : call[c].pc = "sleep" => call[c].slot > clock
  /\ clock' = clock + 1
  /\ UNCHANGED <<next, last, wiki, call, changes>>

\* A file is uploaded or deleted; of those to be listed, none that was there.
Change(f) ==
  /\ changes < MaxChanges
  /\ changes' = changes + 1
  /\ wiki' = IF f \in wiki THEN wiki \ {f} ELSE wiki \cup {f}
  /\ call' = [c \in Callers |-> [call[c] EXCEPT !.there = @ \cap wiki']]
  /\ UNCHANGED <<clock, next, last>>

Next ==
  \/ \E c \in Callers :
       \/ \E task \in Tasks : Begin(c, task)
       \/ Send(c) \/ Answer(c) \/ Refuse(c) \/ Drop(c)
  \/ Tick
  \/ \E f \in DOMAIN Files : Change(f)

Spec == Init /\ [][Next]_wikiVars

-----------------------------------------------------------------------------
(* Properties.                                                             *)

(* Between two requests to the wiki lies an interval, whoever makes them,  *)
(* and however callers come and go (client.rs 3-5: a shared limiter whose  *)
(* slot is reserved before any await, so that callers get distinct slots). *)
Spaced(c) == call[c].pc = "sleep" /\ call'[c].pc = "sent" => clock >= last + Interval
RequestsAreSpaced == [][\A c \in Callers : Spaced(c)]_wikiVars

(* A search names the first titles that may be shown, as many as asked     *)
(* for, of those it fetched, each by the title it was found to redirect to *)
(* before it was judged (search.rs 47-106).                                *)
SearchIsFiltered ==
  \A c \in Callers :
    LET task == call[c].task
        shown == {k \in DOMAIN call[c].names : Shown(task, call[c].names[k])}
    IN call[c].pc = "done" /\ task.kind = "search" =>
         /\ \A k \in DOMAIN call[c].out : Shown(task, call[c].out[k])
         /\ Len(call[c].out) = IF Cardinality(shown) < task.limit THEN Cardinality(shown)
                               ELSE task.limit
         /\ Len(call[c].out) < task.limit => Len(call[c].names) = Len(Fetched(task))

(* The links shown are the first ones, and more are announced just when    *)
(* there are more (page.rs 138-208).                                       *)
LinksTellMore ==
  \A c \in Callers :
    LET task == call[c].task
    IN call[c].pc = "done" /\ task.kind = "links" =>
         /\ call[c].out = Take(Links, task.limit)
         /\ call[c].more <=> Len(Links) > Len(call[c].out)

(* The artwork of an operator is listed once each, in order, and all that  *)
(* was there from beginning to end, whatever is uploaded or deleted        *)
(* between two pages; and what is listed can be asked for under the same   *)
(* name (images_api.rs 18-81, mediawiki.rs 219-228).                       *)
ListingIsWhole ==
  \A c \in Callers :
    LET task == call[c].task
        out == call[c].out
    IN call[c].pc = "done" /\ task.kind = "list" =>
         /\ \A m, n \in DOMAIN out : m < n => out[m] < out[n]
         /\ \A f \in call[c].there : BelongsTo(Files[f], task.operator) =>
              \E n \in DOMAIN out : out[n] = f
         /\ \A n \in DOMAIN out : BelongsTo(Files[out[n]], task.operator)
=============================================================================
