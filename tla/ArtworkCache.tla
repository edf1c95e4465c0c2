---------------------------- MODULE ArtworkCache ----------------------------
(***************************************************************************)
(* The cache of downloaded artwork (domain/artwork/mediawiki.rs): a queue  *)
(* of entries, the oldest first, and an index from keys to positions of    *)
(* the queue, shared by all calls of get_artwork_mediawiki.  A call looks  *)
(* into it, downloads what it misses and puts the image in; two calls may  *)
(* download the same image.                                                *)
(*                                                                         *)
(* An image is named by its key and a version: the wiki may replace a file *)
(* under the same name.                                                    *)
(***************************************************************************)
EXTENDS Naturals, Sequences, SequencesExt, Functions, FiniteSets

CONSTANTS
  Keys,         \* artwork_id and variant
  Callers,      \* calls of get_artwork_mediawiki in progress
  Size,         \* Size[key]: bytes of an image
  MaxBytes      \* IMAGE_CACHE_MAX_BYTES

VARIABLES
  entries,      \* the queue: what is stored, and the key it was stored under
  index,        \* position of a key; defined for the keys thought present
  total,        \* bytes counted
  call          \* a call: the key it wants and how far it is

vars == <<entries, index, total, call>>

Entry == [key : Keys, image : Keys]

Init ==
  /\ entries = <<>>
  /\ index = <<>>
  /\ total = 0
  /\ call = [c \in Callers |-> [pc |-> "idle", key |-> CHOOSE k \in Keys : TRUE,
                               image |-> CHOOSE k \in Keys : TRUE]]

TypeOK ==
  /\ entries \in Seq(Entry)
  /\ DOMAIN index \subseteq Keys /\ \A k \in DOMAIN index : index[k] \in Nat \ {0}
  /\ total \in Nat
  /\ call \in [Callers -> [pc : {"idle", "info", "download", "served"}, key : Keys, image : Keys]]

-----------------------------------------------------------------------------
\* What stands behind a position moves up, in the index and in the queue.
Shifted(f, pos) == [k \in DOMAIN f |-> IF f[k] > pos THEN f[k] - 1 ELSE f[k]]
Within(f, pos) == pos \in 1..Len(f)
Forget(f, key) == Restrict(f, DOMAIN f \ {key})

Point(f, key, pos) == [k \in DOMAIN f \cup {key} |-> IF k = key THEN pos ELSE f[k]]

\* LruCache::get: a hit moves to the back.
Hit(key) ==
  LET pos == index[key]
      rest == RemoveAt(entries, pos)
  IN /\ entries' = Append(rest, [key |-> key, image |-> entries[pos].image])
     /\ index' = Point(Shifted(Forget(index, key), pos), key, Len(rest) + 1)
     /\ total' = total

Present(key) == key \in DOMAIN index /\ Within(entries, index[key])

\* LruCache::put: an older image of the key is taken out ...
Replaced(key) ==
  LET pos == index[key]
  IN IF key \notin DOMAIN index THEN [entries |-> entries, index |-> index, total |-> total]
     ELSE [entries |-> IF Within(entries, pos) THEN RemoveAt(entries, pos) ELSE entries,
           index |-> Shifted(Forget(index, key), pos),
           total |-> IF Within(entries, pos) THEN total - Size[entries[pos].image] ELSE total]

Bytes(stored) == FoldSeq(LAMBDA e, sum : sum + Size[e.image], 0, stored)

\* ... and the oldest images go until the rest fits.
Evictions(cache) ==
  CHOOSE n \in 0..Len(cache.entries) :
    LET fits(k) == cache.total - Bytes(SubSeq(cache.entries, 1, k)) <= MaxBytes
    IN /\ fits(n) \/ n = Len(cache.entries)
       /\ \A k \in 0..(n - 1) : ~fits(k)

\* The positions of the images that stay are left as they are.
Evicted(cache) ==
  LET n == Evictions(cache)
      gone == SubSeq(cache.entries, 1, n)
  IN [entries |-> SubSeq(cache.entries, n + 1, Len(cache.entries)),
      index |-> Restrict(cache.index, DOMAIN cache.index \ {gone[k].key : k \in 1..n}),
      total |-> cache.total - Bytes(gone)]

Put(key, image) ==
  LET old == Replaced(key)
      cache == Evicted([entries |-> Append(old.entries, [key |-> key, image |-> image]),
                        index |-> Point(old.index, key, Len(old.entries) + 1),
                        total |-> old.total + Size[image]])
  IN /\ entries' = cache.entries /\ index' = cache.index /\ total' = cache.total

-----------------------------------------------------------------------------
\* get_artwork_mediawiki: the image information was found.
Ask(c, key) ==
  /\ call[c].pc \in {"idle", "served"}
  /\ call' = [call EXCEPT ![c].pc = "info", ![c].key = key]
  /\ UNCHANGED <<entries, index, total>>

Found(c) ==
  /\ call[c].pc = "info" /\ Present(call[c].key)
  /\ call' = [call EXCEPT ![c].pc = "served", ![c].image = entries[index[call[c].key]].image]
  /\ Hit(call[c].key)

\* A position behind the end counts as a miss.
Missed(c) ==
  /\ call[c].pc = "info" /\ ~Present(call[c].key)
  /\ call' = [call EXCEPT ![c].pc = "download"]
  /\ UNCHANGED <<entries, index, total>>

Downloaded(c) ==
  /\ call[c].pc = "download"
  /\ call' = [call EXCEPT ![c].pc = "served", ![c].image = call[c].key]
  /\ Put(call[c].key, call[c].key)

\* The download fails, or the client goes away.
Fails(c) ==
  /\ call[c].pc \in {"info", "download"}
  /\ call' = [call EXCEPT ![c].pc = "idle"]
  /\ UNCHANGED <<entries, index, total>>

Next ==
  \E c \in Callers :
    \/ \E key \in Keys : Ask(c, key)
    \/ Found(c) \/ Missed(c) \/ Downloaded(c) \/ Fails(c)

Spec == Init /\ [][Next]_vars

-----------------------------------------------------------------------------
(* The bytes counted are those of the images stored, whatever was evicted, *)
(* replaced and looked up, and they stay within the limit.                 *)
BytesAreCounted ==
  /\ total = Bytes(entries)
  /\ total <= MaxBytes

(* A call is served the image it asked for (mediawiki.rs 19: an LRU cache  *)
(* whose most recent entry is at the back).                                *)
ServedIsAsked == \A c \in Callers : call[c].pc = "served" => call[c].image = call[c].key
=============================================================================
