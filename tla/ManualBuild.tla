----------------------------- MODULE ManualBuild -----------------------------
(***************************************************************************)
(* ragbuild walks an HTML page (composer/scripts/ragbuild.py) and writes   *)
(* it to the database of the manual (composer/rag/db.py), in PostgreSQL or *)
(* in Chroma with an index for keywords beside it.  Every page within the  *)
(* bounds is walked: a step reads the next element.                        *)
(***************************************************************************)
EXTENDS ManualText, FiniteSets

CONSTANTS
  Depth,        \* header levels of the database, six in the code
  Levels,       \* of headings
  Headings,
  BatchSize,    \* chunks that are embedded and inserted together
  MaxElements   \* bound: elements of a page

ASSUME ManualAssumption ==
  /\ {MaxLength, Depth, BatchSize} \subseteq Nat \ {0} /\ MaxElements \in Nat /\ Levels \subseteq Nat \ {0}

VARIABLES
  page,         \* the elements read
  stack,        \* the calls of translate_block that are active, the innermost last
  buffer,       \* chunks that are not inserted yet
  manual        \* the database: backend, documents, sections and keywords; history:
                \* lost, the documents whose insert failed

buildVars == <<streams, page, stack, buffer, manual>>

NoHead == ""
Forget == streams' = <<>> /\ page' = <<>> /\ stack' = <<>> /\ buffer' = <<>>
BuildInit ==
  /\ streams = <<>> /\ page = <<>> /\ stack = <<>> /\ buffer = <<>>
  /\ manual = [backend |-> "none", documents |-> {}, lost |-> {}, sections |-> {}, keywords |-> {}]

-----------------------------------------------------------------------------
(* translate_block *)

Top == Len(stack)
Position(level) == IF level + 1 < Depth THEN level + 1 ELSE Depth

\* get_block_header: the file, the section, and the nearest section around it at
\* each place that is left.
BlockHeader(level, heading) ==
  LET own == Append([n \in DOMAIN stack |-> [level |-> stack[n].level, heading |-> stack[n].heading]],
                    [level |-> level, heading |-> heading])
      At(k) == {n \in DOMAIN own : Position(own[n].level) = k}
  IN  [k \in 1..Depth |->
        IF k = 1 THEN "file"
        ELSE IF At(k) = {} THEN NoHead ELSE own[CHOOSE n \in At(k) : \A m \in At(k) : m <= n].heading]

\* The headers without the missing ones.
Present(head) == FlattenSeq([k \in DOMAIN head |-> IF head[k] = NoHead THEN <<>> ELSE <<head[k]>>])
\* Mutant: the places of missing levels are kept.
AsItStands(head) == head
SectionHeader(head) == Present(head)

\* An element goes to the stream and to the builder of the innermost section, but
\* one that is skipped, or that no case handles, goes nowhere.
Read(kind) == page' = Append(page, kind)
Element == Len(page) + 1
Here(b) == stack' = [stack EXCEPT ![Top].builder = b]

ReadText(n, structured, unbreakable) ==
  LET txt == [i \in 1..n |-> Sentence(<<Element, i>>)]
  IN  /\ Top > 0 /\ Read([kind |-> "text", n |-> n])
      /\ streams' = StreamText(stack[Top].stream, txt)
      /\ Here(AppendText(stack[Top].builder, txt, structured, unbreakable))
      /\ UNCHANGED buffer

ReadCode ==
  /\ Top > 0 /\ Read([kind |-> "code", n |-> 1])
  /\ streams' = StreamCode(stack[Top].stream, <<Element, 1>>)
  /\ Here(AddCode(stack[Top].builder, <<Element, 1>>))
  /\ UNCHANGED buffer

SkipElement ==
  /\ Top > 0 /\ Read([kind |-> "skip", n |-> 0])
  /\ UNCHANGED <<streams, stack, buffer>>

\* A section within another is announced in its stream; an example is streamed to
\* it as well, any other section to a stream of its own.
OpenSection(level, heading, example) ==
  LET head == BlockHeader(level, heading)
      parent == IF Top = 0 THEN 0 ELSE stack[Top].stream
      marked == IF Top = 0 THEN streams ELSE StreamText(parent, <<Sentence(<<Element, 0>>)>>)
      shared == example /\ Top > 0
  IN  /\ Top > 0 => level > stack[Top].level
      /\ Read([kind |-> "open", n |-> 0])
      /\ streams' = IF shared THEN marked ELSE Append(marked, Streamer(parent, SectionHeader(head), Element))
      /\ stack' = Append([n \in DOMAIN stack |-> IF n = Top THEN [stack[n] EXCEPT !.first = TRUE] ELSE stack[n]],
                         [level |-> level, heading |-> heading, builder |-> BlockBuilder(head), first |-> FALSE,
                          stream |-> IF shared THEN parent ELSE Len(streams) + 1])
      /\ UNCHANGED buffer

\* Inserted in batches as soon as there are enough.
Batched(chunks) == (Len(chunks) \div BatchSize) * BatchSize
Documents(chunks) == {Expand(c.text, c.codes) : c \in chunks}
\* PostgreSQL only logs an insert that fails: of a chunk that cannot be sent, that
\* chunk is lost, of one the server refuses, all of its batch, which is not committed.
\* Chroma raises, which ends the build.
Embed(chunks) ==
  \E failed \in SUBSET ToSet(chunks) :
    /\ manual.backend = "chroma" => failed = {}
    /\ manual' = [manual EXCEPT !.documents = @ \cup Documents(ToSet(chunks) \ failed),
                                !.lost = @ \cup Documents(failed)]

\* The chunks of a section go through all the calls around it, each of which puts
\* the first one it gets of a child into its own.
CloseSection ==
  LET chunks == PushBlock(stack[Top].builder).siblings
      all == buffer \o chunks
      own == stack[Top].stream
      shared == Top > 1 /\ own = stack[Top - 1].stream
      ended == IF shared THEN streams ELSE [streams EXCEPT ![own].to = Element]
  IN  /\ Top > 0 /\ Read([kind |-> "close", n |-> 0])
      /\ stack' = [n \in 1..(Top - 1) |->
                     IF chunks = <<>> \/ ~stack[n].first THEN stack[n]
                     ELSE [stack[n] EXCEPT !.first = FALSE, !.builder = PushChild(@, chunks[1])]]
      /\ streams' = IF Top = 1 THEN ended
                    ELSE [i \in DOMAIN streams |->
                            IF i \in Listening(stack[Top - 1].stream)
                            THEN [ended[i] EXCEPT !.text = Append(@, Sentence(<<Element, 0>>))] ELSE ended[i]]
      /\ buffer' = SubSeq(all, Batched(all) + 1, Len(all))
      /\ Embed(SubSeq(all, 1, Batched(all)))

\* A step of the walk.  What earlier runs have stored takes its part of the bound;
\* sections are closed without limit.
Opening == Len(SelectSeq(page, LAMBDA e : e.kind # "close"))
Walk ==
  \/ /\ Opening + 2 * Cardinality(manual.sections) < MaxElements
     /\ \/ \E n \in 1..(MaxLength + 1), s \in BOOLEAN, u \in BOOLEAN : (u => s) /\ ReadText(n, s, u)
        \/ ReadCode \/ SkipElement
        \/ \E l \in Levels, h \in Headings, e \in BOOLEAN : (Top = 0 => ~e) /\ OpenSection(l, h, e)
     /\ UNCHANGED manual
  \/ CloseSection

-----------------------------------------------------------------------------
(* The database *)

Padded(headers) == [k \in 1..Depth |-> IF k \in DOMAIN headers THEN headers[k] ELSE NoHead]
\* What the page has between two elements: sentences, codes, and the announcements
\* and ends of sections within (only for properties).
Between(from, to) ==
  FlattenSeq([k \in 1..(to - from - 1) |->
    LET e == from + k
    IN  IF page[e].kind \in {"open", "close"} THEN << <<e, 0>> >> ELSE [i \in 1..page[e].n |-> <<e, i>>]])
Row(st) ==
  [headers |-> Padded(st.header), body |-> Expand(st.text, st.codes), whole |-> Between(st.from, st.to)]

\* Rows with all six headers are unique in PostgreSQL; a missing one differs from
\* every other.
Rejects(row) ==
  /\ manual.backend = "postgres" /\ NoHead \notin {row.headers[k] : k \in 1..Depth}
  /\ \E other \in manual.sections : other.headers = row.headers
AddSection(row) == manual' = [manual EXCEPT !.sections = @ \cup {row}]
AddKeywords(row) == manual' = [manual EXCEPT !.keywords = @ \cup {row}]

\* search_manual_keywords: PostgreSQL searches the rows themselves.
Found == IF manual.backend = "postgres" THEN manual.sections ELSE manual.keywords
HitHeaders(row) == Present(row.headers)
\* get_manual_section: all rows with exactly these headers.
GetManualSection(headers) ==
  {row.body : row \in {r \in manual.sections : r.headers = Padded(headers)}}

-----------------------------------------------------------------------------
(* For the properties *)

\* How many sections are open after an element, and where the n-th of them began.
DepthAt(e) == LET Of(kind) == Cardinality({i \in 1..e : page[i].kind = kind}) IN Of("open") - Of("close")
Opened(n) ==
  LET begun == {e \in DOMAIN page : page[e].kind = "open" /\ DepthAt(e) = n}
  IN  CHOOSE e \in begun : \A f \in begun : f <= e
\* The sentences and codes of the n-th open section, without those of sections in it,
\* and those its builder has in its chunks, without overlaps.
Own(n) ==
  LET e(k) == Opened(n) + k
  IN  FlattenSeq([k \in 1..(Len(page) - Opened(n)) |->
        IF DepthAt(e(k)) = n THEN [i \in 1..page[e(k)].n |-> <<e(k), i>>] ELSE <<>>])
Chunked(n) == ReadIn(Written(stack[n].builder), ToSet(Own(n)))
NothingLost == \A n \in DOMAIN stack : Chunked(n) = Own(n)

\* Every tag names the code that the page has in its place.
CodesInPlace ==
  \A c \in ToSet(buffer) \cup UNION {ToSet(stack[n].builder.siblings) : n \in DOMAIN stack} :
    \A i \in DOMAIN c.text :
      LET t == c.text[i]
      IN  t.ref # 0 => t.ref \in DOMAIN c.codes /\ c.codes[t.ref] = t.id

\* Every sentence and code of the page is in a document, or in one whose insert failed.
AllEmbedded ==
  \A e \in DOMAIN page : \A i \in 1..page[e].n :
    \E d \in manual.documents \cup manual.lost : <<e, i>> \in ToSet(d)
=============================================================================
