---------------------------- MODULE StoreClients ----------------------------
(***************************************************************************)
(* Processes of one user and of several that share the store and the       *)
(* checkpointer.  A run names its thread                                   *)
(* (WorkflowContext.thread_and_mnemonic) and runs its graph in a segment   *)
(* of the log (composer/io/graph_runner.py), perhaps from an earlier       *)
(* checkpoint; or it is looked at for the questions its graph asks, which  *)
(* touch neither names nor log; or it builds the manual that the agents    *)
(* search.  It may be killed anywhere.                                     *)
(***************************************************************************)
EXTENDS Mnemonics, AgentIndex, ThreadLog, ManualBuild

CONSTANTS Procs, MaxCheckpoints

VARIABLES
  client,      \* each process
  runs,        \* runs started
  named,       \* the pairs of thread and name that were given out
  refs         \* the Document-Refs that were given out, with the index they are for

vars == <<ms, ts, layers, ckpts, records, client, runs, named, refs, buildVars>>
store == <<ms, ts>>
log == <<ckpts, records>>
out == <<named, refs>>

AnyConfig == CHOOSE c \in Configs : TRUE
Off == [at |-> "off", n |-> 0, tid |-> NoOne, attempt |-> 1, cand |-> NoName, seg |-> 0,
        start |-> NoCheckpoint, tip |-> NoCheckpoint, last |-> NoCheckpoint,
        config |-> AnyConfig, q |-> NoDocument]

Init ==
  /\ MnemonicsInit /\ IndexInit /\ LogInit /\ BuildInit
  /\ client = [p \in Procs |-> Off]
  /\ runs = 0 /\ named = {} /\ refs = {}

Goto(p, at) == client' = [client EXCEPT ![p].at = at]
Named(p, name) ==
  /\ named' = named \cup {<<client[p].tid, name>>}
  /\ client' = [client EXCEPT ![p] = [Off EXCEPT !.at = "named", !.tid = client[p].tid]]

Start(p, first) ==
  /\ client[p].at = "off" /\ runs < MaxRuns
  /\ runs' = runs + 1
  /\ client' = [client EXCEPT ![p] = first]
  /\ UNCHANGED <<store, layers, log, out>>

\* The manual shares nothing with the rest: behaviours that build it do nothing else.
Building == manual.backend # "none"
StartThread(p, t) ==
  /\ ~Building /\ Start(p, [Off EXCEPT !.at = "name", !.n = runs + 1, !.tid = t]) /\ UNCHANGED buildVars
StartAsking(p, c) ==
  /\ ~Building /\ Start(p, [Off EXCEPT !.at = "asking", !.config = c]) /\ UNCHANGED buildVars
\* One process builds at a time, over what earlier ones have left.
StartBuild(p, backend) ==
  /\ (runs = 0 \/ manual.backend = backend) /\ \A q \in Procs : client[q].at = "off"
  /\ Start(p, [Off EXCEPT !.at = "page"])
  /\ manual' = [manual EXCEPT !.backend = backend, !.documents = {}, !.lost = {}]
  /\ UNCHANGED <<streams, page, stack, buffer>>

-----------------------------------------------------------------------------
(* assign_mnemonic *)

FindMnemonic(p) ==
  /\ client[p].at = "name"
  /\ IF ts[client[p].tid] # NoName THEN Named(p, ts[client[p].tid])
     ELSE Goto(p, "claim") /\ UNCHANGED named
  /\ UNCHANGED <<store, layers, log, runs, refs, buildVars>>

ClaimMnemonic(p) ==
  /\ client[p].at = "claim"
  /\ \E cand \in Candidates(client[p].attempt, client[p].n) :
       /\ Claim(cand, client[p].tid)
       /\ client' = IF Claimed(cand) THEN [client EXCEPT ![p].at = "thread", ![p].cand = cand]
                    ELSE [client EXCEPT ![p].attempt = @ + 1]
  /\ UNCHANGED <<ts, layers, log, runs, out, buildVars>>

PutThread(p) ==
  /\ client[p].at = "thread"
  /\ ts' = [ts EXCEPT ![client[p].tid] = client[p].cand]
  /\ Named(p, client[p].cand)
  /\ UNCHANGED <<ms, layers, log, runs, refs, buildVars>>

-----------------------------------------------------------------------------
(* The graph, in a segment of the log *)

\* Without a checkpoint id the graph goes on from the latest checkpoint.
OpenSegment(p) ==
  /\ client[p].at = "named"
  /\ \E start \in {NoCheckpoint} \cup OfThread(client[p].tid) :
       /\ StartRecord(client[p].tid, start)
       /\ client' = [client EXCEPT ![p].at = "graph", ![p].seg = Len(records) + 1, ![p].start = start,
                                   ![p].tip = IF start = NoCheckpoint THEN Latest(client[p].tid) ELSE start]
  /\ UNCHANGED <<store, layers, ckpts, runs, out, buildVars>>

SuperStep(p) ==
  /\ client[p].at = "graph" /\ Len(ckpts) < MaxCheckpoints
  /\ Checkpoint(client[p].tid, client[p].tip)
  /\ client' = [client EXCEPT ![p].tip = New, ![p].last = New]
  /\ UNCHANGED <<store, layers, records, runs, out, buildVars>>

\* The graph ends, or raises.
CloseSegment(p) ==
  /\ client[p].at = "graph"
  /\ CompleteRecord(client[p].seg, client[p].tid, client[p].start, client[p].last)
  /\ client' = [client EXCEPT ![p] = Off]
  /\ UNCHANGED <<store, layers, ckpts, runs, out, buildVars>>

-----------------------------------------------------------------------------
(* IndexedTool.run, called by the graph *)

HandOut(p, k) == refs' = refs \cup {<<client[p].config, k>>}

\* An exact match is the answer; otherwise the agent is asked.
AskQuestion(p, q) ==
  /\ client[p].at = "asking"
  /\ IF Get(client[p].config, Key[q]) # NoDocument
     THEN HandOut(p, Key[q]) /\ UNCHANGED client
     ELSE UNCHANGED refs /\ client' = [client EXCEPT ![p].at = "asked", ![p].q = q]
  /\ UNCHANGED <<store, layers, log, runs, named, buildVars>>

\* Mutant: the key is returned though nothing was put.
PutAnyway(p) ==
  /\ client[p].at = "asked"
  /\ IF ReadOnly(client[p].config) THEN HandOut(p, Key[client[p].q]) /\ Goto(p, "asking")
     ELSE UNCHANGED refs /\ Goto(p, "put")
  /\ UNCHANGED <<store, layers, log, runs, named, buildVars>>

\* The agent has answered; aput looks whether the key is there already.
FirstWrite(p) ==
  /\ client[p].at = "asked"
  /\ LET c == client[p].config
         k == Key[client[p].q]
     IN  IF ReadOnly(c) THEN Goto(p, "asking") /\ UNCHANGED refs
         ELSE IF layers[WriteLayer(c)][k] # NoDocument THEN HandOut(p, k) /\ Goto(p, "asking")
         ELSE Goto(p, "put") /\ UNCHANGED refs
  /\ UNCHANGED <<store, layers, log, runs, named, buildVars>>

PutAnswer(p) ==
  /\ client[p].at = "put"
  /\ Put(client[p].config, client[p].q)
  /\ HandOut(p, Key[client[p].q]) /\ Goto(p, "asking")
  /\ UNCHANGED <<store, log, runs, named, buildVars>>

-----------------------------------------------------------------------------
(* ragbuild *)

WalkPage(p) == client[p].at = "page" /\ Walk /\ UNCHANGED <<store, layers, log, client, runs, out>>

\* The sections of the page are stored when it is read.
EndPage(p) ==
  /\ client[p].at = "page" /\ page # <<>> /\ stack = <<>>
  /\ client' = [client EXCEPT ![p].at = "section", ![p].n = 1]
  /\ UNCHANGED <<store, layers, log, runs, out, buildVars>>

\* In Chroma the section is stored before it can be found, in two steps.
AddManualSection(p) ==
  /\ client[p].at = "section" /\ client[p].n <= Len(Sections)
  /\ LET row == Row(Sections[client[p].n])
     IN  IF Rejects(row) THEN client' = [client EXCEPT ![p] = Off] /\ Forget /\ UNCHANGED manual
         ELSE /\ AddSection(row)
              /\ client' = IF manual.backend = "chroma" THEN [client EXCEPT ![p].at = "keywords"]
                           ELSE [client EXCEPT ![p].n = @ + 1]
              /\ UNCHANGED <<streams, page, stack, buffer>>
  /\ UNCHANGED <<store, layers, log, runs, out>>
AddToKeywords(p) ==
  /\ client[p].at = "keywords"
  /\ AddKeywords(Row(Sections[client[p].n]))
  /\ client' = [client EXCEPT ![p].at = "section", ![p].n = @ + 1]
  /\ UNCHANGED <<store, layers, log, runs, out, streams, page, stack, buffer>>

EmbedRest(p) ==
  /\ client[p].at = "section" /\ client[p].n > Len(Sections)
  /\ Embed(buffer) /\ buffer' = <<>>
  /\ Goto(p, "built")
  /\ UNCHANGED <<store, layers, log, runs, out, streams, page, stack>>
EndBuild(p) ==
  /\ client[p].at = "built"
  /\ client' = [client EXCEPT ![p] = Off] /\ Forget
  /\ UNCHANGED <<store, layers, log, runs, out, manual>>

-----------------------------------------------------------------------------

\* The process is killed, or the store or the agent raises before the graph runs.
Kill(p) ==
  /\ client[p].at # "off"
  /\ client' = [client EXCEPT ![p] = Off] /\ Forget
  /\ UNCHANGED <<store, layers, log, runs, out, manual>>

Next == \E p \in Procs :
  \/ \E t \in Threads : StartThread(p, t)
  \/ \E c \in Configs : StartAsking(p, c)
  \/ FindMnemonic(p) \/ ClaimMnemonic(p) \/ PutThread(p)
  \/ OpenSegment(p) \/ SuperStep(p) \/ CloseSegment(p)
  \/ \E q \in Questions : AskQuestion(p, q)
  \/ FirstWrite(p) \/ PutAnswer(p)
  \/ \E b \in {"postgres", "chroma"} : StartBuild(p, b)
  \/ WalkPage(p) \/ EndPage(p) \/ AddManualSection(p) \/ AddToKeywords(p) \/ EmbedRest(p) \/ EndBuild(p)
  \/ Kill(p)

Spec == Init /\ [][Next]_vars

-----------------------------------------------------------------------------
(* Properties *)

\* A name that was given out for a thread names that thread for ever, whoever
\* else draws it at the same time or dies between its two rows
\* (io/mnemonic_store.py: _assign_pgsql_mnemonic).
MnemonicNamesThread == \A pair \in named : ms[pair[2]] = pair[1]

\* The timeline of a segment whose end is recorded is what happened in it, marked
\* where the messages were summarised, whatever other branches the thread has
\* (io/thread_timeline.py: load_timeline; io/run_index.py: build_export).
TimelineFaithful ==
  \A n \in DOMAIN records :
    LET r == records[n]
    IN  (r # Unlogged /\ r.end # NoCheckpoint)
          => LoadTimeline(r.thread, r.end, r.start) = Happened(r.end, r.start)

\* A Document-Ref that was given out resolves, in the index it was given out for,
\* to the document of a question with that key (spec/agent_index.py: aput).
RefsResolve ==
  \A r \in refs : Get(r[1], r[2]) # NoDocument /\ Key[Get(r[1], r[2])] = r[2]

\* However a page is cut into chunks, every chunk has in place of its tags the codes
\* the page has there, no sentence or code of a section is lost or moved, and a
\* finished build has stored all but those of chunks whose insert failed
\* (scripts/text_processors.py: BlockBuilder; scripts/ragbuild.py: translate_block,
\* sanity_checker; rag/db.py: add_chunks_batch).
ChunksFaithful ==
  CodesInPlace /\ NothingLost /\ \A p \in Procs : client[p].at = "built" => AllEmbedded

\* Whoever finds a section by its keywords gets it by the headers of the hit, with
\* all the page has in it, whatever a killed build has left (rag/db.py:
\* add_manual_section, search_manual_keywords, get_manual_section).
HitsResolve == \A row \in Found : row.whole \in GetManualSection(HitHeaders(row))
=============================================================================
