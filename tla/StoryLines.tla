----------------------------- MODULE StoryLines -----------------------------
(***************************************************************************)
(* What a call shows of a story (domain/story/reader.rs, packed_lines.rs): *)
(* the items of a chapter that become lines, the packed form an index      *)
(* keeps them in, the chapters of an event in order, and their pages.      *)
(*                                                                         *)
(* A text is a sequence of words; a page number has Word values, half of   *)
(* them negative, and wraps as the release build does.                     *)
(***************************************************************************)
EXTENDS Integers, Sequences, SequencesExt, FiniteSetsExt

CONSTANT Word   \* 2^64 in the code

-----------------------------------------------------------------------------
(* parse_story_list: an item has a prop and some of the fields name,       *)
(* content, text and options.  Cleaning removes tags, and may leave        *)
(* nothing of what was not empty before.                                   *)

Narrations == {"sticker", "subtitle", "animtext"}
Clean(text) == SelectSeq(text, LAMBDA w : w # "<tag>")
Field(item, f) == IF f \in DOMAIN item THEN item[f] ELSE <<>>

\* A line may have no role, or one, which may be empty.
NoRole == <<>>

Dialog(item, narration) ==
  LET name == Field(item, "name")
      content == Field(item, "content")
  IN IF content # <<>> /\ (narration \/ name # <<>>)
     THEN <<[kind |-> "dialog", text |-> Clean(content),
             role |-> IF name = <<>> THEN NoRole ELSE <<Clean(name)>>]>>
     ELSE <<>>

\* content wins over text if it is there at all.
Said(item) == IF "content" \in DOMAIN item THEN item.content ELSE Field(item, "text")
Narration(item, narration) ==
  IF narration /\ Said(item) # <<>>
  THEN <<[kind |-> "narration", role |-> NoRole, text |-> Clean(Said(item))]>> ELSE <<>>

Offered(options) ==
  LET given == SelectSeq(options, LAMBDA o : o # <<>>)
  IN [n \in DOMAIN given |-> [kind |-> "choice", role |-> NoRole, text |-> Clean(given[n])]]

LinesOf(item, narration) ==
  CASE item.prop = "name" -> Dialog(item, narration)
    [] item.prop \in Narrations -> Narration(item, narration)
    [] item.prop = "decision" -> Offered(Field(item, "options"))
    [] OTHER -> <<>>

Parsed(items, narration) ==
  FlattenSeq([n \in DOMAIN items |-> LinesOf(items[n], narration)])

-----------------------------------------------------------------------------
(* PackedLines: one text, ranges into it, and the roles numbered from one  *)
(* in the order they are first met; no role is 0.                          *)

Nothing == [text |-> <<>>, roles |-> <<>>, lines |-> <<>>]

Number(roles, role) ==
  IF role = NoRole THEN 0
  ELSE IF role \in ToSet(roles) THEN CHOOSE n \in DOMAIN roles : roles[n] = role
  ELSE Len(roles) + 1

Push(packed, line) ==
  LET n == Number(packed.roles, line.role)
  IN [text |-> packed.text \o line.text,
      roles |-> IF n > Len(packed.roles) THEN Append(packed.roles, line.role) ELSE packed.roles,
      lines |-> Append(packed.lines,
                       [kind |-> line.kind, role |-> n, from |-> Len(packed.text) + 1,
                        to |-> Len(packed.text \o line.text)])]

Pack(lines) == FoldLeft(Push, Nothing, lines)

View(packed, n) ==
  LET line == packed.lines[n]
  IN [kind |-> line.kind,
      role |-> IF line.role = 0 THEN NoRole ELSE packed.roles[line.role],
      text |-> SubSeq(packed.text, line.from, line.to)]

-----------------------------------------------------------------------------
(* The chapters of an event by storySort, equal ones as they stand, those  *)
(* without a key left out; and the page of a request.                      *)

ChaptersOf(datas) ==
  LET order == SetToSortSeq(DOMAIN datas, LAMBDA i, j :
                 datas[i].sort < datas[j].sort \/ (datas[i].sort = datas[j].sort /\ i < j))
  IN SelectSeq([n \in DOMAIN order |-> datas[order[n]]], LAMBDA d : d.key # "")

Wrapped(n) == LET w == n % Word IN IF 2 * w >= Word THEN w - Word ELSE w

Start(page, size) == Max({0, Wrapped((page - 1) * size)})
Selected(chapters, page, size) ==
  SubSeq(chapters, Start(page, size) + 1, Min({Start(page, size) + size, Len(chapters)}))
HasMore(chapters, page, size) == Start(page, size) + size < Len(chapters)
OutOfRange(chapters, page, size) == chapters # <<>> /\ Start(page, size) >= Len(chapters)

\* read_activity_from_store: a chapter that is missing or malformed is left out, a
\* store that cannot be read fails the page.
ReadPage(chapters, page, size) ==
  LET selected == Selected(chapters, page, size)
      found == SelectSeq(selected, LAMBDA d : d.state # "skip")
  IN [failed |-> \E n \in DOMAIN found : found[n].state = "fail", chapters |-> found,
      more |-> HasMore(chapters, page, size)]

-----------------------------------------------------------------------------
(* The events of a category (list_story_events): entries without a type    *)
(* are memoirs only by their name; what is no category selects everything. *)

Types == [main |-> {"MAINLINE"}, activities |-> {"ACTIVITY", "MINI_ACTIVITY"},
          memoirs |-> {"NONE"}, roguelike |-> {"ROGUELIKE"}]

Listed(events, category) ==
  SelectSeq(events, LAMBDA e :
    CASE category \notin DOMAIN Types -> TRUE
      [] category = "memoirs" -> e.memoir
      [] OTHER -> e.type \in Types[category])

\* build_story_search_index: which events a search looks through.
InCorpus(e) == e.chapters > 0 /\ (e.type = "NONE" => e.memoir)

-----------------------------------------------------------------------------
(* Properties.                                                             *)

(* The packed lines of a chapter are its lines, whatever roles and empty   *)
(* texts they have, and dropping the narration drops only whole lines.     *)
LinesSurvive(items) ==
  \A narration \in BOOLEAN :
    LET lines == Parsed(items, narration)
    IN /\ Len(Pack(lines).lines) = Len(lines)
       /\ \A n \in DOMAIN lines : View(Pack(lines), n) = lines[n]
       /\ Parsed(items, FALSE) =
            SelectSeq(lines, LAMBDA l : l.kind = "choice" \/ l.role # NoRole)

(* A client that follows the pages as long as there is more reads every    *)
(* chapter once, in order, and is never told that its page does not exist; *)
(* a page that has nothing says so, as long as the product does not wrap.  *)
PagesPartition(datas, size) ==
  LET chapters == ChaptersOf(datas)
      last == CHOOSE p \in 1..Len(chapters) + 1 :
                /\ ~HasMore(chapters, p, size)
                /\ \A q \in 1..p - 1 : HasMore(chapters, q, size)
      read == [p \in 1..last |-> ReadPage(chapters, p, size)]
  IN /\ FlattenSeq([p \in 1..last |-> Selected(chapters, p, size)]) = chapters
     /\ (\A p \in 1..last : ~read[p].failed) =>
          FlattenSeq([p \in 1..last |-> read[p].chapters])
            = SelectSeq(chapters, LAMBDA d : d.state = "good")
     /\ \A p \in 1..last : read[p].more <=> p < last
     /\ \A p \in 1..last : ~OutOfRange(chapters, p, size)
     /\ \A p \in 1..(Word \div 2 - 1) \div size :
          chapters # <<>> /\ Selected(chapters, p, size) = <<>> => OutOfRange(chapters, p, size)

(* What a category lists a search finds, if it has chapters; and no event  *)
(* that a search looks through is missing from every category but those of *)
(* a type no category knows.                                               *)
ListedIsSearched(events) ==
  LET homes(e) == {k \in DOMAIN Types : e \in ToSet(Listed(events, k))}
  IN \A n \in DOMAIN events :
       LET e == events[n]
       IN e.chapters > 0 /\ (e.type = "NONE" \/ e.type \in UNION {Types[k] : k \in DOMAIN Types})
            => (InCorpus(e) <=> homes(e) # {})

(* A page beyond the last is said to be out of range, however large (in    *)
(* fact the product wraps and the first page is returned).                 *)
HugePagesAreRefused(datas, size) ==
  \A p \in 1..Word \div 2 - 1 :
    (p - 1) * size >= Len(ChaptersOf(datas)) /\ ChaptersOf(datas) # <<>> =>
      OutOfRange(ChaptersOf(datas), p, size)
=============================================================================
