--------------------------- MODULE WikiTemplates ---------------------------
(***************************************************************************)
(* The templates of a wiki page as fields (wiki/template.rs).  The parse   *)
(* tree of the page is read; values that hold more than text are written   *)
(* back as wikitext and rendered by the wiki, all in one request, each     *)
(* between two markers of its own; the answer is cut at the markers.       *)
(*                                                                         *)
(* A text is a sequence of words, without its blanks.  The wiki may answer *)
(* anything: Reply is any sequence of words and markers.                   *)
(***************************************************************************)
EXTENDS Naturals, Sequences, SequencesExt, FiniteSets, TLC

VARIABLES
  tree,         \* the parse tree: a sequence of templates
  reply         \* the wiki's answer to the batch, as far as it is one
pageVars == <<tree, reply>>

\* Nodes.  A note is a comment of the XML, a remark one of the wikitext.
Text(words) == [kind |-> "text", words |-> words]
Note(words) == [kind |-> "note", words |-> words]
Remark(words) == [kind |-> "remark", words |-> words]
Element(kind, head, parts) == [kind |-> kind, head |-> head, parts |-> parts]
Field(name, value) == [name |-> name, indexed |-> FALSE, valued |-> TRUE, value |-> value]

Failed == [ok |-> FALSE, words |-> <<>>]
Wrote(words) == [ok |-> TRUE, words |-> words]
Concat(seqs) == FlattenSeq(seqs)
AllOk(outcomes) == \A k \in DOMAIN outcomes : outcomes[k].ok
Joined(outcomes) ==
  IF AllOk(outcomes) THEN Wrote(Concat([k \in DOMAIN outcomes |-> outcomes[k].words])) ELSE Failed

-----------------------------------------------------------------------------
(* Text and wikitext of a subtree.                                         *)

RECURSIVE TextWithoutComments(_)
TextWithoutComments(content) ==
  Concat([k \in DOMAIN content |->
    LET node == content[k]
    IN IF node.kind = "text" THEN node.words
       ELSE IF node.kind \in {"note", "remark"} THEN <<>>
       ELSE TextWithoutComments(node.head) \o
            Concat([p \in DOMAIN node.parts |->
                      TextWithoutComments(node.parts[p].name) \o
                      TextWithoutComments(node.parts[p].value)])])

Opens == [template |-> "{{", tplarg |-> "{{{", link |-> "[["]
\* An argument is closed by two braces, as its reference implementation does.
Closes == [template |-> "}}", tplarg |-> "}}", link |-> "]]"]

RECURSIVE ContentToWikitext(_)
PartToWikitext(part) ==
  LET value == ContentToWikitext(part.value)
      name == IF part.indexed THEN <<>> ELSE TextWithoutComments(part.name)
  IN IF ~part.valued \/ ~value.ok THEN Failed
     ELSE Wrote(<<"|">> \o name \o (IF name = <<>> THEN <<>> ELSE <<"=">>) \o value.words)
ElementToWikitext(node) ==
  IF node.kind \notin DOMAIN Opens THEN Failed
  ELSE LET head == IF node.kind = "link" THEN ContentToWikitext(node.head)
                   ELSE Wrote(TextWithoutComments(node.head))
           parts == Joined([p \in DOMAIN node.parts |-> PartToWikitext(node.parts[p])])
       IN IF ~head.ok \/ head.words = <<>> \/ ~parts.ok THEN Failed
          ELSE Wrote(<<Opens[node.kind]>> \o head.words \o parts.words \o <<Closes[node.kind]>>)
ContentToWikitext(content) ==
  Joined([k \in DOMAIN content |->
    LET node == content[k]
    IN IF node.kind = "text" THEN Wrote(node.words)
       ELSE IF node.kind \in {"note", "remark"} THEN Wrote(<<"<!--">> \o node.words \o <<"-->">>)
       ELSE ElementToWikitext(node)])

-----------------------------------------------------------------------------
(* parse_templates.                                                        *)

NeedsRender(value) == \E k \in DOMAIN value : value[k].kind \notin {"text", "note", "remark"}
ParsedPart(part) ==
  LET render == NeedsRender(part.value)
      text == IF render THEN ContentToWikitext(part.value)
              ELSE Wrote(TextWithoutComments(part.value))
  IN [ok |-> text.ok, render |-> render, value |-> text.words,
      name |-> IF part.indexed THEN <<>> ELSE TextWithoutComments(part.name)]
\* The first remark in the title.
CommentOf(title) ==
  LET remarks == SelectSeq(title, LAMBDA node : node.kind = "remark")
  IN IF remarks = <<>> THEN <<>> ELSE Head(remarks).words
ParsedTemplate(template) ==
  LET valued == SelectSeq(template.parts, LAMBDA p : p.valued)
      parsed == [p \in DOMAIN valued |-> ParsedPart(valued[p])]
  IN [ok |-> AllOk(parsed),
      name |-> TextWithoutComments(template.head),
      comment |-> CommentOf(template.head),
      parts |-> SelectSeq(parsed, LAMBDA p : p.value # <<>>)]
\* One value that cannot be written back fails the page; templates without a
\* title are passed over.
ParseTemplates(root) ==
  LET titled == SelectSeq(root, LAMBDA t : TextWithoutComments(t.head) # <<>>)
      templates == [t \in DOMAIN titled |-> ParsedTemplate(titled[t])]
  IN [ok |-> AllOk(templates), templates |-> templates]

-----------------------------------------------------------------------------
(* render_template_batch.                                                  *)

Begin(k) == "begin" \o ToString(k)
End(k) == "end" \o ToString(k)
Markers(n) == UNION {{Begin(k), End(k)} : k \in 1..n}
Expected(n) == Concat([k \in 1..n |-> <<Begin(k), End(k)>>])

\* Where a marker is found first; 0, before all others, when it is not.
Find(text, marker) ==
  IF \E k \in DOMAIN text : text[k] = marker
  THEN CHOOSE k \in DOMAIN text : text[k] = marker /\ \A m \in 1..(k - 1) : text[m] # marker
  ELSE 0
Count(text, marker) == Cardinality({k \in DOMAIN text : text[k] = marker})
\* The sort by position is stable.
Order(text, n) ==
  LET numbered == [k \in 1..(2 * n) |-> [marker |-> Expected(n)[k], turn |-> k]]
      sorted == SortSeq(numbered, LAMBDA a, b :
                  LET p == Find(text, a.marker)
                      q == Find(text, b.marker)
                  IN p < q \/ (p = q /\ a.turn < b.turn))
  IN [k \in 1..(2 * n) |-> sorted[k].marker]
OnceEach(text, n) == \A marker \in Markers(n) : Count(text, marker) = 1
Slice(text, k) == SubSeq(text, Find(text, Begin(k)) + 1, Find(text, End(k)) - 1)

\* reply.kind: "text", or what else may come: a failed request, an error, no
\* text.  A batch of nothing makes no request.
Batch(n, answer) ==
  IF n = 0 THEN [ok |-> TRUE, values |-> <<>>]
  ELSE IF \/ answer.kind # "text" \/ answer.words = <<>>
          \/ Order(answer.words, n) # Expected(n) \/ ~OnceEach(answer.words, n)
       THEN [ok |-> FALSE, values |-> <<>>]
       ELSE [ok |-> TRUE, values |-> [k \in 1..n |-> Slice(answer.words, k)]]

-----------------------------------------------------------------------------
(* render_template_data.                                                   *)

Sources(templates) ==
  Concat([t \in DOMAIN templates |->
    LET rendered == SelectSeq(templates[t].parts, LAMBDA p : p.render)
    IN [p \in DOMAIN rendered |-> rendered[p].value]])

\* The rendered values are handed out in the order the sources were taken.
Handed(templates, t, p) ==
  Len(Sources(SubSeq(templates, 1, t - 1))) +
  Cardinality({q \in 1..p : templates[t].parts[q].render})
Named(part) == part.name # <<>>
EntryOf(templates, t, values) ==
  LET parts == templates[t].parts
      shown == [p \in DOMAIN parts |->
                 [name |-> parts[p].name,
                  value |-> IF parts[p].render THEN values[Handed(templates, t, p)]
                            ELSE parts[p].value]]
      unnamed == SelectSeq(shown, LAMBDA p : ~Named(p))
      last(name) == CHOOSE p \in DOMAIN shown :
                      shown[p].name = name /\ \A q \in (p + 1)..Len(shown) : shown[q].name # name
  IN [fields |-> [name \in {shown[p].name : p \in {q \in DOMAIN shown : Named(shown[q])}} |->
                    shown[last(name)].value],
      positional |-> [p \in DOMAIN unnamed |-> unnamed[p].value],
      comment |-> templates[t].comment]
Vacant(entry) == entry.fields = <<>> /\ entry.positional = <<>> /\ entry.comment = <<>>

\* A later template of the same name replaces the earlier one, unless it has
\* nothing to say.
Collected(templates, entries) ==
  LET said == {t \in DOMAIN templates : ~Vacant(entries[t])}
      last(name) == CHOOSE t \in said :
                      templates[t].name = name /\
                      \A u \in said : templates[u].name = name => u <= t
  IN [name \in {templates[t].name : t \in said} |-> entries[last(name)]]
Assembled(parsed, batch) ==
  IF ~parsed.ok \/ ~batch.ok THEN [ok |-> FALSE, data |-> <<>>]
  ELSE [ok |-> TRUE,
        data |-> Collected(parsed.templates,
                           [t \in DOMAIN parsed.templates |->
                              EntryOf(parsed.templates, t, batch.values)])]
TemplateData(parsed, answer) ==
  Assembled(parsed, Batch(Len(Sources(parsed.templates)), answer))

-----------------------------------------------------------------------------
(* The answer of the wiki is cut only where that is safe: when, all else   *)
(* left out, it is the markers in their order, each once; and then a value *)
(* holds no marker (template.rs 7-8: markers must never leak into the text *)
(* of the tool).                                                           *)
CutAtMarkers(n, answer) ==
  LET batch == Batch(n, answer)
      marks == SelectSeq(answer.words, LAMBDA w : w \in Markers(n))
  IN n > 0 =>
       /\ batch.ok <=> answer.kind = "text" /\ marks = Expected(n)
       /\ batch.ok => \A k \in 1..n : \A w \in Markers(n) : Count(batch.values[k], w) = 0

(* Each rendered value stands in the field it was made from: when the wiki *)
(* renders every source faithfully, a field shows the rendering of its own *)
(* value, of the last part of its name, whatever is passed over before it  *)
(* (template.rs 416-468).                                                  *)
Rendered(words) == <<"rendered">> \o words
Faithful(templates) ==
  LET sources == Sources(templates)
  IN [kind |-> "text",
      words |-> Concat([k \in DOMAIN sources |->
                          <<Begin(k)>> \o Rendered(sources[k]) \o <<End(k)>>])]
TheirOwn(root, result) ==
  result.ok =>
    \A name \in DOMAIN result.data : \A field \in DOMAIN result.data[name].fields :
      \E t \in DOMAIN root : \E p \in DOMAIN root[t].parts :
        LET part == root[t].parts[p]
            own == ParsedPart(part)
        IN /\ TextWithoutComments(root[t].head) = name
           /\ own.name = field
           /\ result.data[name].fields[field] = IF own.render THEN Rendered(own.value) ELSE own.value
           \* Nothing later of that name in the template has a value.
           /\ \A q \in (p + 1)..Len(root[t].parts) :
                LET other == ParsedPart(root[t].parts[q])
                IN other.name = field => ~root[t].parts[q].valued \/ other.value = <<>>
Assigned(root, parsed) == TheirOwn(root, TemplateData(parsed, Faithful(parsed.templates)))
FieldsAreTheirs(root) == Assigned(root, ParseTemplates(root))
=============================================================================
