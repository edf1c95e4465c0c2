----------------------------- MODULE TextFilter -----------------------------
(***************************************************************************)
(* The shortcuts of a pattern search (text/regex_compat.rs,                *)
(* text/block_filter.rs).  A pattern is compiled with the flags "iu"; the  *)
(* literal it begins with, as far as it has one, rejects texts and whole   *)
(* blocks of them before the native engine is asked.                       *)
(*                                                                         *)
(* The engine compares characters; the shortcuts compare bytes.  Under /iu *)
(* the long s and the Kelvin sign are an s and a k of two and three bytes. *)
(***************************************************************************)
EXTENDS Naturals, Sequences, FiniteSetsExt

Letters == {"a", "s", "S", "k"}
Characters == Letters \cup {"1", "long s", "kelvin", "han"}
\* The literal a compiled pattern begins with, and what follows it.
Pattern == [prefix : Seq(Characters), rest : Seq(Characters)]

Bytes(c) == CASE c = "long s" -> <<"c5", "bf">>
              [] c = "kelvin" -> <<"e2", "84", "aa">>
              [] c = "han" -> <<"e6", "b1", "89">>
              [] OTHER -> <<c>>
Ascii == Letters \cup {"1"}
Lower(b) == IF b = "S" THEN "s" ELSE b

\* The bytes of a text: character after character.
Encoded(text) ==
  LET f[n \in 0..Len(text)] == IF n = 0 THEN <<>> ELSE f[n - 1] \o Bytes(text[n])
  IN f[Len(text)]

-----------------------------------------------------------------------------
(* The native engine.                                                      *)

Canonical(c) == CASE c = "long s" -> "s" [] c = "kelvin" -> "k" [] OTHER -> Lower(c)

NativeMatch(p, text) ==
  LET whole == p.prefix \o p.rest
  IN \E i \in 0..(Len(text) - Len(whole)) :
       \A n \in DOMAIN whole : Canonical(text[i + n]) = whole[n]

-----------------------------------------------------------------------------
(* The prefix (literal_prefix), and whether it is good for a block filter. *)

Caseless(c) == c \in {"1", "han"}
PrefixKind(p) ==
  IF p.prefix = <<>> THEN "none"
  ELSE IF \A n \in DOMAIN p.prefix : Caseless(p.prefix[n]) THEN "exact"
  ELSE IF \A n \in DOMAIN p.prefix : p.prefix[n] \in Ascii THEN "fold"
  ELSE "none"

At(bytes, i, part) ==
  i + Len(part) <= Len(bytes) /\ \A n \in DOMAIN part : bytes[i + n] = part[n]
Found(bytes, part) == \E i \in 0..Len(bytes) : At(bytes, i, part)

-----------------------------------------------------------------------------
(* Hints: the pairs of folded neighbours of a block, by a hash.            *)

Folded(bytes) ==
  LET heads == SelectSeq([i \in DOMAIN bytes |-> i], LAMBDA i : bytes[i] \notin {"bf", "84", "aa"})
  IN [n \in DOMAIN heads |->
        LET b == bytes[heads[n]]
        IN CASE b = "c5" -> "s" [] b = "e2" -> "k" [] OTHER -> Lower(b)]

\* The hash of a pair: here it does not tell the order.
Bit(first, second) == {first, second}
Filter(bytes) ==
  LET f == Folded(bytes) IN {Bit(f[n], f[n + 1]) : n \in 1..(Len(f) - 1)}
MayContain(filter, literal) == Filter(literal) \subseteq filter
Supports(literal) == Len(Folded(literal)) > 1

HasFilter(p) == PrefixKind(p) # "none" /\ Supports(Encoded(p.prefix))
MayMatchFilter(p, filter) == PrefixKind(p) = "none" \/ MayContain(filter, Encoded(p.prefix))

-----------------------------------------------------------------------------
(* The bytes of a block that is read.                                      *)

\* ascii_iu_contains: how far the literal goes from a byte of the text.
Matches(bytes, i, literal) ==
  LET Takes(n, at) ==
        IF at > Len(bytes) THEN 0
        ELSE IF bytes[at] \in Ascii /\ Lower(bytes[at]) = literal[n] THEN 1
        ELSE IF literal[n] = "s" /\ At(bytes, at - 1, Bytes("long s")) THEN 2
        ELSE IF literal[n] = "k" /\ At(bytes, at - 1, Bytes("kelvin")) THEN 3
        ELSE 0
      \* The byte the n-th character is expected at, 0 after a mismatch.
      at[n \in 1..(Len(literal) + 1)] ==
        IF n = 1 THEN i
        ELSE IF at[n - 1] = 0 \/ Takes(n - 1, at[n - 1]) = 0 THEN 0
        ELSE at[n - 1] + Takes(n - 1, at[n - 1])
  IN at[Len(literal) + 1] # 0

MayMatchBytes(p, bytes) ==
  CASE PrefixKind(p) = "exact" -> Found(bytes, Encoded(p.prefix))
    [] PrefixKind(p) = "fold" -> \E i \in DOMAIN bytes : Matches(bytes, i, p.prefix)
    [] OTHER -> TRUE

-----------------------------------------------------------------------------
(* One text (is_match).                                                    *)

Hides(candidate) == \E n \in DOMAIN candidate : candidate[n] \notin Ascii

\* ascii_fold_contains: TRUE, FALSE, or to be asked of the native engine.
FoldContains(bytes, literal) ==
  LET Candidate(i) == SubSeq(bytes, i, i + Len(literal) - 1)
      Equal(i) == \A n \in DOMAIN literal : Lower(Candidate(i)[n]) = literal[n]
      special == \E n \in DOMAIN literal : literal[n] \in {"s", "k"}
      decisive == {i \in 1..(Len(bytes) - Len(literal) + 1) :
                     Lower(bytes[i]) = literal[1] /\ (Equal(i) \/ (special /\ Hides(Candidate(i))))}
  IN IF \/ literal[1] = "s" /\ Found(bytes, Bytes("long s"))
        \/ literal[1] = "k" /\ Found(bytes, Bytes("kelvin")) THEN "native"
     ELSE IF decisive = {} THEN "no"
     ELSE IF Equal(Min(decisive)) THEN "yes" ELSE "native"

Shortcut(p, text) ==
  CASE PrefixKind(p) = "exact" -> IF Found(Encoded(text), Encoded(p.prefix)) THEN "yes" ELSE "no"
    [] PrefixKind(p) = "fold" -> FoldContains(Encoded(text), p.prefix)
    [] OTHER -> "native"

IsMatch(p, text) ==
  CASE Shortcut(p, text) = "no" -> FALSE
    [] Shortcut(p, text) = "yes" /\ p.rest = <<>> -> TRUE
    [] OTHER -> NativeMatch(p, text)

-----------------------------------------------------------------------------
(* Every shortcut says what the native engine would: a text it refuses has *)
(* no match, and no block that holds a matching text between other bytes   *)
(* is passed over by its bytes or by its hint.                             *)
ShortcutsAgree(p, text, before, after) ==
  LET block == before \o Encoded(text) \o after
  IN /\ IsMatch(p, text) = NativeMatch(p, text)
     /\ NativeMatch(p, text) =>
          MayMatchBytes(p, block) /\ (HasFilter(p) => MayMatchFilter(p, Filter(block)))
=============================================================================
