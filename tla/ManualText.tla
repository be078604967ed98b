----------------------------- MODULE ManualText -----------------------------
(***************************************************************************)
(* How a manual is cut into pieces (composer/scripts/text_processors.py):  *)
(* BlockBuilder makes chunks of bounded length for the similarity search,  *)
(* TextStreamer collects the text of a section and of all its subsections. *)
(* A text is a sequence of sentences and of tags that stand for code; a    *)
(* tag counts as a sentence, and all have the same length.                 *)
(***************************************************************************)
EXTENDS Naturals, Sequences, SequencesExt

CONSTANT MaxLength      \* the soft cap on the length of a chunk

\* ref is the number in a tag, from 1, or 0 for a sentence; id is what the document
\* has at this place.
Sentence(id) == [id |-> id, ref |-> 0]
Tag(id, n) == [id |-> id, ref |-> n]
\* The tags replaced by the codes they name.
Expand(text, codes) == [i \in DOMAIN text |-> IF text[i].ref = 0 THEN text[i].id ELSE codes[text[i].ref]]

-----------------------------------------------------------------------------
(* BlockBuilder: siblings are the chunks so far, their number part_counter. *)

BlockBuilder(headers) == [headers |-> headers, text |-> <<>>, codes |-> <<>>, siblings |-> <<>>]

AddCode(b, code) ==
  [b EXCEPT !.text = Append(@, Tag(code, Len(b.codes) + 1)), !.codes = Append(@, code)]

PushBlock(b) ==
  IF b.text = <<>> THEN b
  ELSE [b EXCEPT !.siblings = Append(@, [headers |-> b.headers, part |-> Len(@), text |-> b.text, codes |-> b.codes]),
                 !.text = <<>>, !.codes = <<>>]

\* Mutant: a tag keeps its number in another chunk.
KeepCodeRefs(b, t, codes) == [b EXCEPT !.text = Append(@, t)]
\* A sentence of another chunk, with the codes of that chunk.
FixupCodeRefs(b, t, codes) ==
  IF t.ref = 0 THEN [b EXCEPT !.text = Append(@, t)]
  ELSE [b EXCEPT !.text = Append(@, Tag(t.id, Len(b.codes) + 1)), !.codes = Append(@, codes[t.ref])]

\* A full chunk is closed; in running text the next one begins with its last sentence.
AddSentence(b, t, running) ==
  LET c == [b EXCEPT !.text = Append(@, t)]
  IN  IF Len(c.text) <= MaxLength THEN c
      ELSE [PushBlock(c) EXCEPT !.text = IF running THEN <<t>> ELSE <<>>]
AddSentences(b, txt, running) == FoldLeft(LAMBDA c, t : AddSentence(c, t, running), b, txt)

\* _init_new_chunk; context is empty or the last sentence of the chunk before.
InitNewChunk(b, txt, unbreakable, context, codes) ==
  LET c == IF context = <<>> THEN b ELSE FixupCodeRefs(b, context[1], codes)
      whole == [c EXCEPT !.text = @ \o txt]
  IN  IF Len(txt) < MaxLength THEN whole
      ELSE IF unbreakable THEN PushBlock(whole)
      ELSE AddSentences([c EXCEPT !.text = <<>>], whole.text, FALSE)

\* The first sentence of a paragraph that does not fit is meant to be added to the
\* chunk it does not fit into; the loop that looks for it skips every sentence that
\* is not blank, so nothing is added.
AppendText(b, txt, structured, unbreakable) ==
  IF Len(txt) + Len(b.text) < MaxLength THEN [b EXCEPT !.text = @ \o txt]
  ELSE IF structured
       THEN InitNewChunk(PushBlock(b), txt, unbreakable, IF b.text = <<>> THEN <<>> ELSE <<Last(b.text)>>, b.codes)
       ELSE AddSentences(b, txt, TRUE)

\* The first sentence of a child's first chunk closes the parent's chunk.
PushChild(b, chunk) ==
  IF b.text = <<>> THEN b ELSE PushBlock(FixupCodeRefs(b, chunk.text[1], chunk.codes))

\* Where in the document the text of a builder lies, and what one who looks for the
\* places in S reads of it, once where chunks overlap (only for properties).
Places(text) == [i \in DOMAIN text |-> text[i].id]
Written(b) == FlattenSeq([i \in DOMAIN b.siblings |-> Places(b.siblings[i].text)]) \o Places(b.text)
ReadOn(seen, id, S) == IF id \notin S \/ (seen # <<>> /\ Last(seen) = id) THEN seen ELSE Append(seen, id)
ReadIn(ids, S) == FoldLeft(LAMBDA seen, id : ReadOn(seen, id, S), <<>>, ids)

-----------------------------------------------------------------------------
(* TextStreamer and TextCollector: streams is the collector's list.         *)

VARIABLE streams

\* from and to are where in the document the section lies (only for properties).
Streamer(parent, header, from) ==
  [parent |-> parent, header |-> header, active |-> Len(header) > 1, text |-> <<>>, codes |-> <<>>,
   from |-> from, to |-> 0]

\* The stream and those it hands its text on to, of them the active ones.
Listening(s) ==
  LET up[i \in 0..Len(streams)] == IF i = 0 THEN {} ELSE {i} \cup up[streams[i].parent]
  IN  {i \in up[s] : streams[i].active}

\* What is streamed to s.  A code gets a number in each stream of its own.
StreamText(s, txt) ==
  [i \in DOMAIN streams |->
     IF i \in Listening(s) THEN [streams[i] EXCEPT !.text = @ \o txt] ELSE streams[i]]
StreamCode(s, code) ==
  [i \in DOMAIN streams |->
     LET st == streams[i]
     IN  IF i \in Listening(s)
         THEN [st EXCEPT !.text = Append(@, Tag(code, Len(st.codes) + 1)), !.codes = Append(@, code)] ELSE st]

Sections == FlattenSeq([i \in DOMAIN streams |-> IF streams[i].active THEN <<streams[i]>> ELSE <<>>])
=============================================================================
