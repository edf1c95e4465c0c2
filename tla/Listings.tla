------------------------------ MODULE Listings ------------------------------
(***************************************************************************)
(* Listings in pages: build_enemies_listing (domain/enemy.rs),             *)
(* build_items_listing (domain/item.rs), list_stages (domain/stage.rs) and *)
(* build_enemy_appearances (domain/stage_enemy.rs).  Each page names the   *)
(* offset of the next one, and a reader follows.                           *)
(*                                                                         *)
(* Offsets are i64 in the code and Width bits here; the sum of an offset   *)
(* and a limit wraps, as it does in a release build.                       *)
(***************************************************************************)
EXTENDS Integers, Sequences, FiniteSets, TLC

CONSTANTS
  Width,      \* bits of an offset
  Tables,     \* what may be listed: sequences of [id, sort, hidden, named, kind]
  Listed,     \* the listings asked for
  Filters,    \* "": none
  Offsets,    \* where a reader begins
  Limits

VARIABLE
  reader      \* [pc, table, listing, filter, full, from, offset, limit, shown]
listVars == <<reader>>

Values == 0..2^(Width - 1) - 1
Wrapped(n) == ((n + 2^(Width - 1)) % 2^Width) - 2^(Width - 1)
Least(m, n) == IF m < n THEN m ELSE n
Clamped(n, total) == IF n < 0 THEN 0 ELSE Least(n, total)

-----------------------------------------------------------------------------
(* Rows.                                                                   *)

\* Hidden entries, and those without a name, are not listed.
Visible(listing, row) == listing \in {"enemies", "items"} => ~row.hidden /\ row.named
Matches(row, filter) == filter = "" \/ row.kind = filter
\* sortId, 0 here for one that is missing and comes last; then the identifier.
Rank(row) == IF row.sort = 0 THEN 9999 ELSE row.sort
Earlier(listing, r, s) ==
  CASE listing = "stages" -> r.id < s.id
    [] listing \in {"enemies", "items"} -> Rank(r) < Rank(s) \/ (Rank(r) = Rank(s) /\ r.id < s.id)
\* The appearances of an enemy have their order from the index.
Sorted(listing, rows) ==
  IF listing = "appearances" THEN rows
  ELSE SortSeq(rows, LAMBDA r, s : Earlier(listing, r, s))
Entries(listing, table, filter) ==
  Sorted(listing, SelectSeq(table, LAMBDA row : Visible(listing, row) /\ Matches(row, filter)))

\* Bounds, and filters with a list of admitted values.
Refused == \/ reader.offset < 0
           \/ reader.listing \in {"enemies", "stages"} /\ reader.filter = "unknown"

-----------------------------------------------------------------------------
(* Pages.                                                                  *)

End(offset, limit, total) == Clamped(Wrapped(offset + limit), total)
\* list_enemies looks at the offset before it takes the slice.
OutOfRange(listing, offset, total) == listing = "enemies" /\ offset >= total /\ total > 0
\* The slice [start..end] of the code panics when start is behind end.
Page(listing, entries, offset, limit) ==
  LET total == Len(entries)
      start == Least(offset, total)
      end == End(offset, limit, total)
  IN IF OutOfRange(listing, offset, total) THEN [pc |-> "end", rows |-> <<>>]
     ELSE IF start > end THEN [pc |-> "panic", rows |-> <<>>]
     ELSE IF start = end /\ listing # "enemies" THEN [pc |-> "end", rows |-> <<>>]
     ELSE [pc |-> "shown", rows |-> SubSeq(entries, start + 1, end)]

\* Is a next page named?  The others name one after every page with rows.
More(listing, offset, limit, total) == listing # "enemies" \/ total > Wrapped(offset + limit)

Init ==
  /\ reader \in [pc : {"ask"}, table : Tables, listing : Listed, filter : Filters, full : BOOLEAN,
                 from : Offsets, offset : Offsets, limit : Limits, shown : {<<>>}]
  /\ reader.offset = reader.from
  /\ reader.full => reader.listing = "enemies"
  /\ reader.listing = "appearances" => reader.filter = ""

Refuse ==
  /\ reader.pc = "ask" /\ Refused
  /\ reader' = [reader EXCEPT !.pc = "refused"]

\* full: every enemy on one page.
ListAll ==
  /\ reader.pc = "ask" /\ ~Refused
  /\ reader.full
  /\ reader' = [reader EXCEPT !.pc = "end",
                              !.shown = Entries("enemies", reader.table, reader.filter)]

Turn ==
  LET entries == Entries(reader.listing, reader.table, reader.filter)
      page == Page(reader.listing, entries, reader.offset, reader.limit)
  IN /\ reader.pc = "ask" /\ ~Refused
     /\ ~reader.full
     /\ reader' = [reader EXCEPT
          !.pc = IF page.pc # "shown" THEN page.pc
                 ELSE IF More(reader.listing, reader.offset, reader.limit, Len(entries))
                      THEN "ask" ELSE "end",
          !.shown = @ \o page.rows,
          !.offset = IF page.pc = "shown" THEN Wrapped(@ + reader.limit) ELSE @]

Next == Refuse \/ ListAll \/ Turn

-----------------------------------------------------------------------------
(* Properties.                                                             *)

\* Is a row listed under a filter?
Belongs(row) ==
  /\ reader.listing \in {"enemies", "items"} => ~row.hidden /\ row.named
  /\ reader.filter \in {"", row.kind}
\* Whoever follows the pages from the first has seen every row once, whatever
\* rows share their rank and whatever the size of a page (offset, limit and
\* the hint of each listing).
PagesCoverListing ==
  reader.pc = "end" /\ (reader.from = 0 \/ reader.full) =>
    /\ {reader.shown[i] : i \in DOMAIN reader.shown} =
         {row \in {reader.table[i] : i \in DOMAIN reader.table} : Belongs(row)}
    /\ \A i, j \in DOMAIN reader.shown : reader.shown[i] = reader.shown[j] => i = j

\* A slice fails only for an offset no page names, whose sum with the limit
\* has no i64, and never in the listing that looks at the offset first.
NamedPagesExist ==
  reader.pc = "panic" =>
    /\ reader.listing # "enemies"
    /\ reader.offset = reader.from /\ reader.offset + reader.limit \notin Values
=============================================================================
