---------------------------- MODULE StorySearch -----------------------------
(***************************************************************************)
(* search_stories on a database (domain/story/sqlite_search.rs,            *)
(* sqlite_blocks.rs, storage/block_filters.rs): lines are stored in        *)
(* blocks, in the order of the chapters.  All searches of a generation     *)
(* share two caches: hints, which pass over a block without reading it,    *)
(* and the catalog, the order of the blocks, which only a search may leave *)
(* behind that went through all of them.  A client that goes away cancels  *)
(* its search between any two blocks.                                      *)
(***************************************************************************)
EXTENDS TextFilter

CONSTANTS
  Searches,      \* calls of search_stories
  Corpus,        \* the blocks: event, first line, lines of [kind, role, text]
  Patterns,      \* the patterns that are asked for
  Scopes,        \* events asked for, "" for all
  Roles,         \* characters asked for, "" for all
  Maximums,      \* max_results
  HintLimit,     \* LIMIT: hints that are kept
  CatalogLimit   \* blocks a catalog may have

Blocks == DOMAIN Corpus
Events == {Corpus[b].event : b \in Blocks}

VARIABLES
  hints,     \* block -> filter, for the blocks that have one
  catalog,   \* the blocks in order, <<>> before it is set
  search     \* per search: what it asks for and how far it is

vars == <<hints, catalog, search>>

Nothing == [prefix |-> <<>>, rest |-> <<>>]
Idle == [pc |-> "idle", pattern |-> Nothing, scope |-> "", role |-> "", maximum |-> 0,
         todo |-> <<>>,        \* the blocks still to visit
         whole |-> FALSE,      \* the blocks come from an unscoped traversal
         rows |-> <<>>,        \* what was captured of it
         results |-> <<>>]

Init ==
  /\ hints = <<>>
  /\ catalog = <<>>
  /\ search = [s \in Searches |-> Idle]

Payload(b) ==
  LET f[n \in 0..Len(Corpus[b].lines)] ==
        IF n = 0 THEN <<>> ELSE f[n - 1] \o <<"header">> \o Encoded(Corpus[b].lines[n].text)
  IN f[Len(Corpus[b].lines)]

InScope(s, b) == search[s].scope \in {"", Corpus[b].event}
InOrder == [n \in 1..Len(Corpus) |-> n]
Scoped(s, blocks) == SelectSeq(blocks, LAMBDA b : InScope(s, b))

-----------------------------------------------------------------------------
(* A search begins: with the rows of one character, the stream of all      *)
(* blocks (there is nothing to look for in a hint), the catalog or a query *)
(* for the blocks.                                                         *)
Begin(s, p, scope, role, maximum) ==
  /\ search[s].pc = "idle"
  /\ scope \in Events \cup {""}
  /\ search' = [search EXCEPT ![s] =
       [Idle EXCEPT !.pc = IF role # "" \/ ~HasFilter(p) THEN "stream" ELSE "source",
                    !.pattern = p, !.scope = scope, !.role = role, !.maximum = maximum]]
  /\ UNCHANGED <<hints, catalog>>

Source(s) ==
  /\ search[s].pc = "source"
  /\ search' = [search EXCEPT
       ![s].pc = "visit",
       ![s].todo = Scoped(s, IF catalog # <<>> THEN catalog ELSE InOrder),
       ![s].whole = catalog = <<>> /\ search[s].scope = ""]
  /\ UNCHANGED <<hints, catalog>>

\* Lines of a block that match, as block and line; by the native engine alone, for
\* the properties.
Hits(s, b, native) ==
  LET lines == Corpus[b].lines
      wanted == SelectSeq([n \in DOMAIN lines |-> n], LAMBDA n :
                  /\ search[s].role # "" => lines[n].kind = "dialog" /\ lines[n].role = search[s].role
                  /\ IF native THEN NativeMatch(search[s].pattern, lines[n].text)
                     ELSE IsMatch(search[s].pattern, lines[n].text))
  IN [n \in DOMAIN wanted |-> <<b, Corpus[b].first + wanted[n]>>]
UpTo(maximum, found) == SubSeq(found, 1, IF Len(found) < maximum THEN Len(found) ELSE maximum)
AllHits(s, blocks, native) ==
  LET f[n \in 0..Len(blocks)] ==
        IF n = 0 THEN <<>> ELSE f[n - 1] \o Hits(s, blocks[n], native)
  IN f[Len(blocks)]

\* The rows of a character, or every block; these searches share nothing.
Stream(s) ==
  LET read == SelectSeq(Scoped(s, InOrder), LAMBDA b :
                search[s].role # "" \/ MayMatchBytes(search[s].pattern, Payload(b)))
  IN /\ search[s].pc = "stream"
     /\ search' = [search EXCEPT ![s].pc = "done",
                     ![s].results = UpTo(search[s].maximum, AllHits(s, read, FALSE))]
     /\ UNCHANGED <<hints, catalog>>

-----------------------------------------------------------------------------
(* One block after the other (visit).                                      *)

Block(s) == Head(search[s].todo)

\* The block joins the catalog to be, which may become too large.
Captured(s) ==
  IF search[s].whole /\ Len(search[s].rows) < CatalogLimit
  THEN Append(search[s].rows, Block(s)) ELSE search[s].rows

StillWhole(s) == search[s].whole /\ Len(search[s].rows) < CatalogLimit

Onward(s, results) ==
  search' = [search EXCEPT
    ![s].pc = IF Len(results) >= search[s].maximum THEN "done"
              ELSE IF Len(search[s].todo) = 1 THEN "end" ELSE "visit",
    ![s].results = results,
    ![s].todo = Tail(@), ![s].rows = Captured(s), ![s].whole = StillWhole(s)]

Look(s) ==
  LET b == Block(s)
  IN /\ search[s].pc = "visit" /\ search[s].todo # <<>>
     /\ IF b \in DOMAIN hints /\ ~MayMatchFilter(search[s].pattern, hints[b])
        THEN Onward(s, search[s].results)
        ELSE search' = [search EXCEPT ![s].pc = IF b \in DOMAIN hints THEN "scan" ELSE "room"]
     /\ UNCHANGED <<hints, catalog>>

\* remember: whether there is room is asked before the filter is made ...
Room(s) ==
  /\ search[s].pc = "room"
  /\ search' = [search EXCEPT ![s].pc =
       IF Cardinality(DOMAIN hints) < HintLimit /\ Block(s) \notin DOMAIN hints
       THEN "insert" ELSE "scan"]
  /\ UNCHANGED <<hints, catalog>>

\* Fault: ... and not again when it is put in.
FaultInsert(s) ==
  /\ search[s].pc = "insert"
  /\ hints' = [b \in DOMAIN hints \cup {Block(s)} |-> Filter(Payload(b))]
  /\ search' = [search EXCEPT ![s].pc = "scan"]
  /\ UNCHANGED catalog

\* ... and again when it is put in.
Insert(s) ==
  /\ search[s].pc = "insert"
  /\ hints' = IF Cardinality(DOMAIN hints) >= HintLimit THEN hints
              ELSE [b \in DOMAIN hints \cup {Block(s)} |->
                      IF b \in DOMAIN hints THEN hints[b] ELSE Filter(Payload(b))]
  /\ search' = [search EXCEPT ![s].pc = "scan"]
  /\ UNCHANGED catalog

Scan(s) ==
  LET found == IF MayMatchBytes(search[s].pattern, Payload(Block(s)))
               THEN Hits(s, Block(s), FALSE) ELSE <<>>
  IN /\ search[s].pc = "scan"
     /\ Onward(s, UpTo(search[s].maximum, search[s].results \o found))
     /\ UNCHANGED <<hints, catalog>>

\* After the last block: the catalog is set once, by whoever was first.
End(s) ==
  /\ \/ search[s].pc = "end"
     \/ search[s].pc = "visit" /\ search[s].todo = <<>>
  /\ catalog' = IF search[s].whole /\ catalog = <<>> THEN search[s].rows ELSE catalog
  /\ search' = [search EXCEPT ![s].pc = "done"]
  /\ UNCHANGED hints

\* cancellation::check, at every block and every line.
Cancel(s) ==
  /\ search[s].pc \in {"source", "visit", "insert", "scan", "stream"}
  /\ search' = [search EXCEPT ![s] = Idle]
  /\ UNCHANGED <<hints, catalog>>

Answer(s) ==
  /\ search[s].pc = "done"
  /\ search' = [search EXCEPT ![s] = Idle]
  /\ UNCHANGED <<hints, catalog>>

Step(s) ==
  Source(s) \/ Stream(s) \/ Look(s) \/ Room(s) \/ Insert(s) \/ Scan(s) \/ End(s) \/ Answer(s)

Next ==
  \E s \in Searches :
    \/ \E p \in Patterns, scope \in Scopes, role \in Roles, maximum \in Maximums :
         Begin(s, p, scope, role, maximum)
    \/ Step(s) \/ Cancel(s)

Spec == Init /\ [][Next]_vars

-----------------------------------------------------------------------------
(* Properties.                                                             *)

TypeOK ==
  /\ DOMAIN hints \subseteq Blocks
  /\ catalog \in Seq(Blocks)
  /\ \A s \in Searches :
       /\ search[s].pc \in {"idle", "source", "stream", "visit", "room", "insert", "scan", "end",
                            "done"}
       /\ search[s].todo \in Seq(Blocks) /\ search[s].rows \in Seq(Blocks)

(* A search that is not cancelled answers what the native engine finds in  *)
(* every line of its scope, in order, up to the maximum: whatever other    *)
(* searches remembered, cancelled or left behind meanwhile.                *)
SearchFindsAll ==
  \A s \in Searches : search[s].pc = "done" =>
    search[s].results =
      UpTo(search[s].maximum, AllHits(s, Scoped(s, InOrder), TRUE))

(* What searches leave behind is bounded, and true of all blocks: never a  *)
(* part of them, of a scope or of a search that stopped early.             *)
LegacyIsWhole ==
  /\ catalog \in {<<>>, InOrder}
  /\ Cardinality(DOMAIN hints) <= HintLimit
  /\ \A b \in DOMAIN hints : hints[b] = Filter(Payload(b))
=============================================================================
